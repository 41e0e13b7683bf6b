------------------------------ MODULE MCShell ------------------------------
(* Six instants: long enough for an outage, and for an absence longer    *)
(* than the suppressed moment and than a prompt.                           *)
EXTENDS Shell

(* The two parts share nothing but the clock and its sleep: on a device    *)
(* with a sensor the network stays quiet, on one without it does not.      *)
OneAtATime == supported => until = 0 /\ lastOk = 0 /\ probe = 0
=============================================================================
