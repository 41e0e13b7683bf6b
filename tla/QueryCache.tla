----------------------------- MODULE QueryCache -----------------------------
(***************************************************************************)
(* One query of TanStack Query as providers.tsx configures it: data are    *)
(* fresh for 30 seconds, a failed fetch is tried once more, and nothing is *)
(* fetched again when the window gets the focus.  Of what a fetch answers  *)
(* only the user's own changes are told apart.                             *)
(***************************************************************************)
EXTENDS Unset, Naturals

(* has, seen: data, and the changes they hold; lacks: history, those made  *)
(* before their fetch that its source did not have; fresh: fetched less    *)
(* than 30 seconds ago; invalid: marked by an invalidation; fetch: in      *)
(* flight, since how many changes, and those the server had by then;       *)
(* failed: the last fetch failed.                                          *)
NoEntry == [has |-> FALSE, seen |-> {}, lacks |-> {}, fresh |-> FALSE, invalid |-> FALSE,
            fetch |-> None, failed |-> FALSE]

isLoading(e) == e.fetch # None /\ ~e.has

Fetched(e, now) == [e EXCEPT !.fetch = now]

(* A component that uses the query mounts: it joins a fetch in flight.     *)
Mounted(e, now) ==
  IF e.fetch = None /\ (~e.has \/ e.invalid \/ ~e.fresh) THEN Fetched(e, now) ELSE e

(* refetch starts over, except that a first fetch is joined.               *)
Refetched(e, now) == IF isLoading(e) THEN e ELSE Fetched(e, now)

(* invalidateQueries refetches a query in use and marks the others, for    *)
(* their next mount.                                                       *)
Invalidated(e, inUse, now) ==
  LET marked == [e EXCEPT !.invalid = TRUE]
  IN IF inUse THEN Refetched(marked, now) ELSE marked

(* An invalidation does not reach a fetch it cannot start over: that one's *)
(* answer clears the mark.                                                 *)
Overtakes(e, inUse) == e.fetch # None /\ (isLoading(e) \/ ~inUse)

Answered(e, seen, lacks) ==
  [e EXCEPT !.has = TRUE, !.seen = seen, !.lacks = lacks, !.fresh = TRUE,
            !.invalid = FALSE, !.fetch = None, !.failed = FALSE]

Failed(e) == [e EXCEPT !.fetch = None, !.failed = TRUE]
=============================================================================
