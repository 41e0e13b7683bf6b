------------------------------- MODULE Clock -------------------------------
(* The clock of the device, Date.now() of the web view.  It starts at 1, so *)
(* that 0 stays free for "never", as in the sources.                        *)
EXTENDS Naturals

CONSTANT MaxTime      \* bound: the last instant looked at

ASSUME ClockAssumption == MaxTime \in Nat \ {0}

VARIABLE now

Instants == 1 .. MaxTime
=============================================================================
