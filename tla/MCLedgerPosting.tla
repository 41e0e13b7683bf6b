--------------------------- MODULE MCLedgerPosting ---------------------------
(* The requests of the model-checking runs of LedgerPosting. *)
EXTENDS LedgerPosting

MCOpOf == [p \in Request |-> CASE p = "c1" -> "create"
                               [] p = "pc" -> "push_create"
                               [] p \in {"u1", "u2"} -> "update"
                               [] p = "d1" -> "delete"
                               [] p = "pd" -> "push_delete"
                               [] p \in {"m1", "m2"} -> "migrate"]
=============================================================================
