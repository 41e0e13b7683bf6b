---------------------------- MODULE MCOfflineSync ----------------------------
(* The rows of the model-checking runs of OfflineSync. *)
EXTENDS OfflineSync

MCKindOf == [r \in Row |-> CASE r \in {"t1", "t2"} -> "transaction"
                             [] r = "c1" -> "category"
                             [] r = "a1" -> "account"]
=============================================================================
