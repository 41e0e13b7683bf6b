---------------------------- MODULE ReceiptsPage ----------------------------
(***************************************************************************)
(* The receipts page (ReceiptsPage.tsx): a receipt is read from its QR     *)
(* code or its picture into a review the user edits and saves; below it    *)
(* the gallery, the products bought, the price history of one of them and  *)
(* the merging of two.  Nothing but its own button waits for a request:    *)
(* the review can be edited, and another picture read, during all of them. *)
(***************************************************************************)
EXTENDS Unset

CONSTANTS Products,
          Edits   \* bound: corrections made

ASSUME ReceiptsAssumption ==
  None \notin Products /\ None \notin {"scan", "save", "gallery", "merge"}

VARIABLE rp    \* the page's state while it is open, and the products at the server

(* server, products: the products at the server and drawn; loads: the      *)
(* gallery is being loaded; qr, image: what there is to read; busy: what   *)
(* `loading' stands for, a scan or a save and its reload; ocr: a picture   *)
(* is being read; parsed, review: a review is drawn, with these edits;     *)
(* blank: those of an item without a description, or that left a field     *)
(* empty; payload, left: the edits being saved, those left out of it;      *)
(* stored: those saved; qrOver, ocrOver: history, the edits drawn when a   *)
(* reading was asked for; calm: history, edits made while nothing ran;     *)
(* givenUp: history, edits a reading asked for later replaced; dropped:    *)
(* history, edits a receipt was saved without; label, points, lookups: the *)
(* price history; target, source, merging, gone: the merge and the product *)
(* it merges away.                                                         *)
FreshReceipts(server) ==
  [server |-> server, products |-> {}, loads |-> TRUE, qr |-> FALSE, image |-> FALSE,
   busy |-> None, ocr |-> FALSE, parsed |-> FALSE, review |-> {}, blank |-> {},
   payload |-> {}, left |-> {}, stored |-> {}, dropped |-> {},
   qrOver |-> {}, ocrOver |-> {}, calm |-> {}, givenUp |-> {},
   label |-> None, points |-> None, lookups |-> {},
   target |-> None, source |-> None, merging |-> None, gone |-> None]

ReceiptsFresh == {FreshReceipts(server) : server \in SUBSET Products}

ReceiptsInit == rp \in ReceiptsFresh

-----------------------------------------------------------------------------
(* Reading a receipt, reviewing and saving it.                             *)

TypeQr ==
  rp' = [rp EXCEPT !.qr = ~@]

ChooseImage ==
  rp' = [rp EXCEPT !.image = ~@]

applyParsedReceipt(s, over) ==
  [s EXCEPT !.parsed = TRUE, !.review = {}, !.blank = {}, !.givenUp = @ \cup (s.review \cap over)]

ScanQr ==
  /\ rp.busy = None /\ rp.qr
  /\ rp' = [rp EXCEPT !.busy = "scan", !.qrOver = rp.review]

ScanEnds ==
  /\ rp.busy = "scan"
  /\ \E s \in {rp, applyParsedReceipt(rp, rp.qrOver)} :
       rp' = [s EXCEPT !.busy = None, !.qrOver = {}]

Ocr ==
  /\ ~rp.ocr /\ rp.image
  /\ rp' = [rp EXCEPT !.ocr = TRUE, !.ocrOver = rp.review]

OcrEnds ==
  /\ rp.ocr
  /\ \E s \in {rp, applyParsedReceipt(rp, rp.ocrOver)} :
       rp' = [s EXCEPT !.ocr = FALSE, !.ocrOver = {}]

(* updateReviewItem, addReviewItem, removeReviewItem; an item that is      *)
(* added has no description.                                               *)
EditReview(e) ==
  /\ rp.parsed
  /\ e \notin rp.review \cup rp.payload \cup rp.left \cup rp.stored \cup rp.dropped \cup rp.calm
  /\ \E blank \in SUBSET {e} :
       rp' = [rp EXCEPT !.review = @ \cup {e}, !.blank = @ \cup blank,
                        !.calm = IF rp.busy = None /\ ~rp.ocr THEN @ \cup {e} ELSE @]

(* updateReviewItem of something filled in, or emptied, again.             *)
Reword(e) ==
  /\ e \in rp.review
  /\ rp' = [rp EXCEPT !.blank = IF e \in @ THEN @ \ {e} ELSE @ \cup {e}]

(* An item without a description is left out, an empty quantity saved as   *)
(* one and an empty price as none.                                         *)
SaveReceipt ==
  /\ rp.parsed /\ rp.busy = None
  /\ rp' = [rp EXCEPT !.busy = "save", !.payload = rp.review \ rp.blank,
                      !.left = rp.review \cap rp.blank]

(* What the end of a save clears: whatever has become of the review.       *)
Cleared(s) ==
  [s EXCEPT !.parsed = FALSE, !.review = {}, !.blank = {}, !.qr = FALSE, !.image = FALSE]

(* Mutant.                                                                 *)
ReceiptFailsCleared ==   \* cleared whether it was saved or not
  /\ rp.busy = "save"
  /\ rp' = [Cleared(rp) EXCEPT !.busy = None, !.payload = {}, !.left = {}]

ReceiptFails ==
  /\ rp.busy = "save"
  /\ rp' = [rp EXCEPT !.busy = None, !.payload = {}, !.left = {}]

ReceiptSaved ==
  /\ rp.busy = "save"
  /\ \E found \in SUBSET Products :
       rp' = [Cleared(rp) EXCEPT !.busy = "gallery", !.server = @ \cup found,
                                 !.stored = @ \cup rp.payload, !.payload = {},
                                 !.dropped = @ \cup rp.left, !.left = {}]

-----------------------------------------------------------------------------
(* loadGallery: when the page opens, after a save, after a merge.          *)

Loaded(s) == {s, [s EXCEPT !.products = s.server]}

GalleryLoaded ==
  \/ /\ rp.loads
     /\ \E s \in Loaded(rp) : rp' = [s EXCEPT !.loads = FALSE]
  \/ /\ rp.busy = "gallery"
     /\ \E s \in Loaded(rp) : rp' = [s EXCEPT !.busy = None]
  \/ /\ rp.merging = "gallery"
     /\ \E s \in Loaded(rp) : rp' = [s EXCEPT !.merging = None]

ShowPriceHistory(p) ==
  /\ p \in rp.products
  /\ rp' = [rp EXCEPT !.label = p, !.points = None, !.lookups = @ \cup {p}]

PriceHistoryEnds(p) ==
  /\ p \in rp.lookups
  /\ \E points \in {p, rp.points} :
       rp' = [rp EXCEPT !.lookups = @ \ {p}, !.points = points]

PickTarget(p) ==
  /\ p \in rp.products \cup {None}
  /\ rp' = [rp EXCEPT !.target = p]

PickSource(p) ==
  /\ p \in rp.products \cup {None}
  /\ rp' = [rp EXCEPT !.source = p]

Merge ==
  /\ rp.merging = None
  /\ None \notin {rp.target, rp.source} /\ rp.target # rp.source
  /\ rp' = [rp EXCEPT !.merging = "merge", !.gone = rp.source]

MergeEnds ==
  /\ rp.merging = "merge"
  /\ \/ rp' = [rp EXCEPT !.server = @ \ {rp.gone}, !.merging = "gallery", !.gone = None,
                         !.target = None, !.source = None]
     \/ rp' = [rp EXCEPT !.merging = None, !.gone = None]

-----------------------------------------------------------------------------
ReceiptsNext ==
  \/ TypeQr \/ ChooseImage \/ ScanQr \/ ScanEnds \/ Ocr \/ OcrEnds
  \/ SaveReceipt \/ ReceiptSaved \/ ReceiptFails \/ GalleryLoaded \/ Merge \/ MergeEnds
  \/ \E e \in Edits : EditReview(e) \/ Reword(e)
  \/ \E p \in Products : ShowPriceHistory(p) \/ PriceHistoryEnds(p)
  \/ \E p \in Products \cup {None} : PickTarget(p) \/ PickSource(p)

ReceiptsSpec == ReceiptsInit /\ [][ReceiptsNext]_rp

-----------------------------------------------------------------------------
(* What the user corrected in a review while no request ran is in the      *)
(* review, or saved, or given up for a reading asked for later: a save     *)
(* that fails, a picture read meanwhile or a reload loses none of it.      *)
(* Except for corrections of an item that has no description when a save   *)
(* that succeeds is begun, and for fields left empty then: the save clears *)
(* the review and nobody is told.  (What is corrected during a scan, a     *)
(* reading or a save can be lost: the answer replaces it and the end of    *)
(* the save clears it.)                                                    *)
ReviewKept ==
  rp # None => rp.calm \subseteq rp.review \cup rp.stored \cup rp.givenUp \cup rp.dropped
=============================================================================
