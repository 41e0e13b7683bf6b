----------------------------- MODULE CardsPage -----------------------------
(***************************************************************************)
(* The credit cards page (CreditCardsPage.tsx): the list of cards, the     *)
(* bills of the selected one, and three dialogs that change them and then  *)
(* load both again, from the closure they were started in.                 *)
(*                                                                         *)
(* Bills are counted, not listed: what is drawn of a card is how many of   *)
(* its changes the answer held.                                            *)
(***************************************************************************)
EXTENDS Unset, Naturals, Sequences, SequencesExt

CONSTANTS Cards,
          MaxCardChanges,    \* bound: changes of one card
          MaxBillLoads   \* bound: loads of bills in flight

Dialogs == {"purchase", "pay", "anticipate"}

ASSUME CardsAssumption ==
  /\ None \notin Cards \cup Dialogs
  /\ None \notin [card : Cards, at : {"save", "list", "bills"}, ids : SUBSET Cards]
  /\ MaxCardChanges \in Nat /\ MaxBillLoads \in Nat \ {0}

VARIABLE cp    \* the page's state while it is open, and the cards at the server

(* server: current bill and changes of each card; listed: the cards drawn; *)
(* sel, bills, billsLoading; loads: of bills, in flight; dialog; tasks:    *)
(* the handler of each dialog that runs, and its card; items, checked,     *)
(* lookups: the anticipate dialog, as the cards its installments are of;   *)
(* acked: history, changes the page was told of; mixed: history, the bills *)
(* drawn came from a load that others overtook or of another card.         *)
FreshCards(server) ==
  [server |-> server, listed |-> None, sel |-> None, bills |-> None, billsLoading |-> FALSE,
   loads |-> <<>>, dialog |-> None, tasks |-> [d \in Dialogs |-> None],
   items |-> None, checked |-> {}, lookups |-> {},
   acked |-> [c \in Cards |-> 0], mixed |-> FALSE]

CardsFresh == {FreshCards([c \in Cards |-> [bill |-> b[c], changes |-> 0]]) :
                 b \in [Cards -> {"none", "open", "paid"}]}

CardsInit == cp \in CardsFresh

-----------------------------------------------------------------------------
MayLoadBills == Len(cp.loads) < MaxBillLoads

loadBills(s, card, by) ==
  [s EXCEPT !.billsLoading = TRUE,
            !.loads = Append([i \in DOMAIN s.loads |-> [s.loads[i] EXCEPT !.alone = FALSE]],
                             [card |-> card, since |-> s.server[card].changes, by |-> by,
                              alone |-> s.loads = <<>> /\ card = s.sel])]

(* The list of cards; the first of them is selected when none is.          *)
ListAnswered(first) ==
  /\ cp.listed = None
  /\ cp' = loadBills([cp EXCEPT !.listed = cp.server, !.sel = first], first, None)

(* Mutant.                                                                 *)
SelectOnly(c) ==   \* the effect does not depend on the selection
  /\ cp.sel \notin {None, c} /\ cp.dialog = None /\ MayLoadBills
  /\ cp' = [cp EXCEPT !.sel = c]

Select(c) ==
  /\ cp.sel \notin {None, c} /\ cp.dialog = None /\ MayLoadBills
  /\ cp' = loadBills([cp EXCEPT !.sel = c], c, None)

(* A load ends: with what the server held at some time since it started,   *)
(* or with no bills at all when it failed.                                 *)
BillsEnd(i) ==
  LET ld == cp.loads[i]
      done(bills) ==
        [cp EXCEPT !.bills = bills, !.billsLoading = FALSE, !.loads = RemoveAt(@, i),
                   !.mixed = ~ld.alone,
                   !.tasks = [d \in Dialogs |-> IF d = ld.by THEN None ELSE @[d]]]
  IN \/ \E n \in ld.since .. cp.server[ld.card].changes :
           cp' = done([card |-> ld.card, changes |-> n])
     \/ cp' = done(None)

-----------------------------------------------------------------------------
(* The dialogs.                                                            *)

currentBill == cp.listed[cp.sel].bill

OpenPurchase ==
  /\ cp.sel # None /\ cp.dialog = None
  /\ cp' = [cp EXCEPT !.dialog = "purchase"]

OpenPay ==
  /\ cp.sel # None /\ cp.dialog = None /\ currentBill = "open"
  /\ cp' = [cp EXCEPT !.dialog = "pay"]

(* What a closed dialog holds is not looked at again.                      *)
DialogClosed(s) == [s EXCEPT !.dialog = None, !.items = None, !.checked = {}]

ShownItems(c) == IF cp.dialog = "anticipate" THEN c ELSE None

(* The installments of the card's plans are looked up one plan at a time.  *)
OpenAnticipate ==
  /\ cp.sel # None /\ cp.dialog = None
  /\ cp' = [cp EXCEPT !.dialog = "anticipate", !.items = None, !.checked = {},
                      !.lookups = @ \cup {cp.sel}]

LookupEnds(c) ==
  /\ c \in cp.lookups
  /\ \/ cp' = [cp EXCEPT !.lookups = @ \ {c}, !.items = ShownItems(c)]
     \/ cp' = [cp EXCEPT !.lookups = @ \ {c}, !.items = None]   \* none is left to anticipate
     \/ cp' = [cp EXCEPT !.lookups = @ \ {c}]                   \* it failed

ToggleInstallment ==
  /\ cp.dialog = "anticipate" /\ cp.items # None
  /\ cp' = [cp EXCEPT !.checked = IF cp.items \in @ THEN @ \ {cp.items} ELSE @ \cup {cp.items}]

CloseCardDialog ==
  /\ cp.dialog # None /\ cp.tasks[cp.dialog] = None
  /\ cp' = DialogClosed(cp)

(* handlePurchase, handlePay, handleAnticipate, the fields filled in.      *)
SubmitDialog(d) ==
  /\ cp.dialog = d /\ cp.tasks[d] = None
  /\ d = "anticipate" => cp.items # None /\ cp.checked # {}
  /\ cp' = [cp EXCEPT !.tasks[d] = [card |-> cp.sel, at |-> "save", ids |-> cp.checked]]

(* What the server makes of it: a purchase opens a bill where there was    *)
(* none, a payment of all that remains closes it, and installments of      *)
(* another card are refused.                                               *)
Accepted(d) == d = "anticipate" => cp.tasks[d].ids = {cp.tasks[d].card}

Bill(d, bill) ==
  CASE d = "purchase" -> {IF bill = "none" THEN "open" ELSE bill}
    [] d = "pay" -> {"open", "paid"}
    [] d = "anticipate" -> {bill}

Commit(d, s, bill) ==
  [s EXCEPT !.server[cp.tasks[d].card] = [bill |-> bill, changes |-> @.changes + 1]]

ChangeSaved(d) ==
  LET card == cp.tasks[d].card IN
  /\ Accepted(d) /\ cp.server[card].changes < MaxCardChanges
  /\ \E bill \in Bill(d, cp.server[card].bill) :
       cp' = [DialogClosed(Commit(d, cp, bill)) EXCEPT !.tasks[d].at = "list",
                                                 !.acked[card] = cp.server[card].changes + 1]

(* Refused, or its answer lost on the way.                                 *)
ChangeFails(d) ==
  LET card == cp.tasks[d].card IN
  \/ cp' = [cp EXCEPT !.tasks[d] = None]
  \/ /\ Accepted(d) /\ cp.server[card].changes < MaxCardChanges
     /\ \E bill \in Bill(d, cp.server[card].bill) :
          cp' = [Commit(d, cp, bill) EXCEPT !.tasks[d] = None]

(* refreshCards: the list, kept when the refetch fails or is overtaken,    *)
(* and then the bills of the card selected when the handler was started.   *)
RefreshCards(d) ==
  /\ MayLoadBills
  /\ \E listed \in {cp.listed, cp.server} :
       cp' = loadBills([cp EXCEPT !.listed = listed, !.tasks[d].at = "bills"],
                       cp.tasks[d].card, d)

Task(d) ==
  /\ cp.tasks[d] # None
  /\ \/ cp.tasks[d].at = "save" /\ (ChangeSaved(d) \/ ChangeFails(d))
     \/ cp.tasks[d].at = "list" /\ RefreshCards(d)

-----------------------------------------------------------------------------
CardsNext ==
  \/ \E c \in Cards : ListAnswered(c) \/ Select(c) \/ LookupEnds(c)
  \/ \E i \in DOMAIN cp.loads : BillsEnd(i)
  \/ OpenPurchase \/ OpenPay \/ OpenAnticipate \/ ToggleInstallment \/ CloseCardDialog
  \/ \E d \in Dialogs : SubmitDialog(d) \/ Task(d)

CardsSpec == CardsInit /\ [][CardsNext]_cp

-----------------------------------------------------------------------------
(* What is drawn of the bills: an outline, none, or those of a load.       *)
BillsDrawn == IF cp.billsLoading THEN None ELSE cp.bills

(* The bills drawn beside a card are that card's, and once no handler runs *)
(* they hold every change the page was told of, however selections, saves  *)
(* and answers follow one another, unless their load was overtaken or was  *)
(* started by a handler for a card no longer selected: then they stay as   *)
(* they are until the next load that is not.                               *)
BillsOfSelectedCard ==
  cp # None => (BillsDrawn # None /\ ~cp.mixed =>
    /\ BillsDrawn.card = cp.sel
    /\ (\A d \in Dialogs : cp.tasks[d] = None) => BillsDrawn.changes >= cp.acked[cp.sel])
=============================================================================
