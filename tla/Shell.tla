------------------------------- MODULE Shell -------------------------------
(***************************************************************************)
(* What stands between the user and every screen: the fingerprint lock and *)
(* the answer to "is the server reachable", on one clock.  The device may  *)
(* be put to sleep only while the app is hidden, and then neither the      *)
(* timer of a probe nor the one of a prompt fires on time.                 *)
(***************************************************************************)
EXTENDS Connectivity, BiometricLock

vars == <<now, net, lock>>

TypeOK == ConnectivityTypeOK /\ LockTypeOK

Init == now = 1 /\ ConnectivityInit /\ LockInit

Network == NetStep /\ UNCHANGED lock

Locking == LockStep /\ UNCHANGED net

TimePasses == PromptsRun /\ Tick /\ UNCHANGED lock

(* visibilitychange says hidden, and the system suspends the process.      *)
Suspended(t) == ~visible /\ Sleep(t) /\ UNCHANGED lock

Next == Network \/ Locking \/ TimePasses \/ \E t \in Instants : Suspended(t)

Spec == Init /\ [][Next]_vars
=============================================================================
