---------------------------- MODULE DeliveryQueue ----------------------------
(***************************************************************************)
(* What the offline mutation queue promises, without the sync protocol: an *)
(* operation the user issued stays outstanding until it is retired, and it *)
(* is retired only when the server has accepted it or has accepted an      *)
(* older operation on the same row.  Delivery is at least once: an         *)
(* accepted operation may be accepted again.                               *)
(*                                                                         *)
(* The second half of the retirement rule is weaker than what the comment  *)
(* in sync-engine.ts promises; OfflineSync shows that it is exactly what   *)
(* the engine achieves.                                                    *)
(***************************************************************************)
EXTENDS Naturals

CONSTANTS
  Ops   \* Every operation that can be issued: records with a row and a ver.

VARIABLES
  issued,       \* operations the user has asked for
  outstanding,  \* operations still queued on the device
  accepted      \* operations the server has answered "ok" at least once

vars == <<issued, outstanding, accepted>>

\* o may be forgotten: it, or an older operation on its row, was accepted.
Settled(o) ==
  \E p \in accepted : p.row = o.row /\ (p = o \/ p.ver < o.ver)

Init ==
  /\ issued = {}
  /\ outstanding = {}
  /\ accepted = {}

Issue(o) ==
  /\ o \notin issued
  /\ issued' = issued \cup {o}
  /\ outstanding' = outstanding \cup {o}
  /\ UNCHANGED accepted

Accept(o) ==
  /\ o \in issued
  /\ accepted' = accepted \cup {o}
  /\ UNCHANGED <<issued, outstanding>>

Retire(o) ==
  /\ o \in outstanding
  /\ Settled(o)
  /\ outstanding' = outstanding \ {o}
  /\ UNCHANGED <<issued, accepted>>

Next == \E o \in Ops : Issue(o) \/ Accept(o) \/ Retire(o)

Spec == Init /\ [][Next]_vars
=============================================================================
