------------------------------ MODULE MCPages ------------------------------
(***************************************************************************)
(* The pages with two of everything.  The constraints keep apart what does *)
(* not meet: loads that overlap and the form (its list is then no longer   *)
(* tied to a filter), the two halves of the receipts page, handlers that   *)
(* do not concern the query watched.                                       *)
(***************************************************************************)
EXTENDS Pages, TLC

FormBusy == txs.open \/ txs.save # None

FewLoads ==
  /\ FormBusy \/ txs.doomed # None \/ txs.undo # None \/ txs.lookups # 0 => Len(txs.loads) <= 1
  /\ FormBusy \/ txs.lookups # 0 => txs.undo = None /\ ~txs.mixed
  /\ txs.lookups # 0 /\ ~FormBusy => txs.loads = <<>>

TwoAtOnce ==
  /\ Cardinality({d \in Dialogs : cp.tasks[d] # None}) + Cardinality(cp.lookups)
       + Cardinality({i \in DOMAIN cp.loads : cp.loads[i].by = None}) <= 2
  /\ \A c, d \in Cards : c # d => cp.server[c].changes + cp.server[d].changes <= MaxCardChanges

Shopping == rp.label # None \/ rp.target # None \/ rp.source # None \/ rp.merging # None
Reviewing == rp.parsed \/ rp.ocr \/ rp.busy # None \/ rp.qr \/ rp.image \/ rp.calm \cup rp.stored # {}

Apart ==
  \/ qc.local \cup qc.over # {}
  \/ \E id \in qc.mirror : qc.key \notin Mirrored(qc.changes[id])

Concerned ==
  /\ qc.dialog # None => qc.key \in Concerns(qc.dialog)
  /\ \A t \in qc.tasks : qc.key \in Concerns(t.op)
  /\ \A i \in DOMAIN qc.changes : qc.key \in Concerns(qc.changes[i])
  /\ Cardinality(qc.tasks) = 2 => qc.key = "accounts" /\ qc.dialog = None
  /\ Len(qc.changes) = 2 =>
       /\ qc.key \in {"accounts", "categories", "summary", "budget-alerts"}
       /\ qc.key = "accounts" => qc.page \in {"accounts", "transactions", "reports"}
  /\ qc.key \in Queries[qc.page] \/ qc.page \in {"transactions", "reports"}
  /\ Apart => Cardinality(qc.tasks) <= 1
  /\ Apart /\ Len(qc.changes) = 2 =>
       qc.key = "categories" /\ qc.page \in {"categories", "reports"} /\ qc.dialog = None

Few ==
  /\ txs # None => FewLoads
  /\ cp # None => TwoAtOnce
  /\ rp # None => ~(Shopping /\ Reviewing)
  /\ qc # None => Concerned

Alike == Permutations(Cards) \cup Permutations(Products) \cup Permutations(Edits)
=============================================================================
