------------------------------- MODULE Pages -------------------------------
(***************************************************************************)
(* The pages of the app, one of which is open (App.tsx).  A page keeps     *)
(* nothing when it is left: what it still waits for sets the state of a    *)
(* component that is gone, and opening it again is opening it anew, over   *)
(* whatever the server holds by then.  So each is followed from where it   *)
(* opens; the pages that share the query cache are one (QueryPages).       *)
(***************************************************************************)
EXTENDS TransactionsPage, CardsPage, ReceiptsPage, QueryPages

pages == <<txs, cp, rp, qc>>

PagesInit ==
  \/ TransactionsInit /\ cp = None /\ rp = None /\ qc = None
  \/ CardsInit /\ txs = None /\ rp = None /\ qc = None
  \/ ReceiptsInit /\ txs = None /\ cp = None /\ qc = None
  \/ CacheInit /\ txs = None /\ cp = None /\ rp = None

PagesNext ==
  \/ txs # None /\ TransactionsNext /\ UNCHANGED <<cp, rp, qc>>
  \/ cp # None /\ CardsNext /\ UNCHANGED <<txs, rp, qc>>
  \/ rp # None /\ ReceiptsNext /\ UNCHANGED <<txs, cp, qc>>
  \/ qc # None /\ CacheNext /\ UNCHANGED <<txs, cp, rp>>

PagesSpec == PagesInit /\ [][PagesNext]_pages
=============================================================================
