---------------------------- MODULE Connectivity ----------------------------
(***************************************************************************)
(* desktop/src/offline/net.ts: whether the API server can be reached.  A   *)
(* failed request opens a circuit breaker, a successful probe of /health   *)
(* is believed for a while, and one probe serves everyone who asks while   *)
(* it is in flight.  Nothing orders a probe and the failure of a request:  *)
(* a probe sent before the failure may be answered after it.               *)
(*                                                                         *)
(* The timer that aborts a probe fires on time while the process runs; a   *)
(* device that is put to sleep lets the clock jump past it.                *)
(***************************************************************************)
EXTENDS Clock

CONSTANTS Caller,              \* who asks: the calls of api.ts, the sync, ...
          ServerUnavailable,   \* SERVER_UNAVAILABLE_MS
          OnlineCache,         \* ONLINE_CACHE_MS
          ProbeTimeout         \* PROBE_TIMEOUT_MS

ASSUME TimesAssumption ==
  /\ ServerUnavailable \in Nat \ {0} /\ OnlineCache \in Nat /\ ProbeTimeout \in Nat
  /\ OnlineCache + ProbeTimeout <= ServerUnavailable

VARIABLES until,     \* serverUnavailableUntil
          lastOk,    \* lastOnlineProbeAt
          probe,     \* when the probe in flight was sent, 0 when there is none
          slept,     \* the device slept while that probe was in flight
          link,      \* navigator.onLine
          answer,    \* per caller: idle, asking, or the last answer of isOnline
          marked,    \* history: the last failure since the cache was dropped
          okFrom,    \* history: when the probe behind lastOk was sent
          okSlept    \* history: ... and whether the device slept meanwhile

net == <<until, lastOk, probe, slept, link, answer, marked, okFrom, okSlept>>

Answers == {"idle", "asking", "yes", "no"}

ConnectivityTypeOK ==
  /\ now \in Instants
  /\ until \in 0 .. MaxTime + ServerUnavailable
  /\ lastOk \in 0 .. MaxTime /\ probe \in 0 .. MaxTime
  /\ marked \in 0 .. MaxTime /\ okFrom \in 0 .. MaxTime
  /\ slept \in BOOLEAN /\ link \in BOOLEAN /\ okSlept \in BOOLEAN
  /\ answer \in [Caller -> Answers]

ConnectivityInit ==
  /\ until = 0 /\ lastOk = 0 /\ probe = 0 /\ marked = 0 /\ okFrom = 0
  /\ slept = FALSE /\ okSlept = FALSE
  /\ link \in BOOLEAN
  /\ answer = [c \in Caller |-> "idle"]

isServerUnavailable == now < until

(* A successful probe that is still believed.                              *)
Cached == lastOk > 0 /\ now - lastOk < OnlineCache

(* Those who wait for the probe in flight are told what it found.          *)
Tell(a) == answer' = [c \in Caller |-> IF answer[c] = "asking" THEN a ELSE answer[c]]

(* Mutant.                                                               *)
MarkAddsUp ==     \* overlapping failures extend the outage
  /\ until' = (IF now < until THEN until ELSE now) + ServerUnavailable
  /\ lastOk' = 0
  /\ marked' = now

markServerUnavailable ==
  /\ until' = now + ServerUnavailable
  /\ lastOk' = 0
  /\ marked' = now

clearServerProbeCache == until' = 0 /\ lastOk' = 0 /\ marked' = 0

(* isOnline, in the order of its tests.                                    *)
Ask(c) ==
  /\ answer[c] # "asking"
  /\ \/ /\ isServerUnavailable
        /\ answer' = [answer EXCEPT ![c] = "no"]
        /\ UNCHANGED <<probe, slept>>
     \/ /\ ~isServerUnavailable /\ Cached
        /\ answer' = [answer EXCEPT ![c] = "yes"]
        /\ UNCHANGED <<probe, slept>>
     \/ /\ ~isServerUnavailable /\ ~Cached /\ ~link
        /\ answer' = [answer EXCEPT ![c] = "no"]
        /\ UNCHANGED <<probe, slept>>
     \/ /\ ~isServerUnavailable /\ ~Cached /\ link
        /\ answer' = [answer EXCEPT ![c] = "asking"]
        /\ probe' = IF probe = 0 THEN now ELSE probe
        /\ slept' = IF probe = 0 THEN FALSE ELSE slept
  /\ UNCHANGED <<now, until, lastOk, link, marked, okFrom, okSlept>>

(* Mutant.                                                               *)
ProbeReopens ==   \* a good probe closes the breaker
  /\ probe > 0
  /\ lastOk' = now /\ okFrom' = probe /\ okSlept' = slept
  /\ until' = 0
  /\ probe' = 0 /\ slept' = FALSE
  /\ Tell("yes")
  /\ UNCHANGED <<now, link, marked>>

(* /health answers; an answer does not touch the breaker.                  *)
ProbeSucceeds ==
  /\ probe > 0
  /\ lastOk' = now /\ okFrom' = probe /\ okSlept' = slept
  /\ probe' = 0 /\ slept' = FALSE
  /\ Tell("yes")
  /\ UNCHANGED <<now, until, link, marked>>

(* It answers with an error, cannot be reached, or is aborted.             *)
ProbeFails ==
  /\ probe > 0
  /\ markServerUnavailable
  /\ probe' = 0 /\ slept' = FALSE
  /\ Tell("no")
  /\ UNCHANGED <<now, link, okFrom, okSlept>>

(* A mutation of api.ts that was tried online meets a network error.       *)
RequestFails ==
  /\ markServerUnavailable
  /\ UNCHANGED <<now, probe, slept, link, answer, okFrom, okSlept>>

(* The 'online' event of the window: RootLayout drops the cache.  The sync *)
(* it then starts asks like every other caller.                            *)
WentOnline ==
  /\ ~link /\ link' = TRUE
  /\ clearServerProbeCache
  /\ UNCHANGED <<now, probe, slept, answer, okFrom, okSlept>>

LinkLost ==
  /\ link /\ link' = FALSE
  /\ UNCHANGED <<now, until, lastOk, probe, slept, answer, marked, okFrom, okSlept>>

(* The abort timer of the probe has not run out.                           *)
ProbeRuns == probe > 0 => slept \/ now < probe + ProbeTimeout

Tick ==
  /\ now < MaxTime /\ ProbeRuns
  /\ now' = now + 1
  /\ UNCHANGED net

(* The device sleeps until t: no timer fires.                              *)
Sleep(t) ==
  /\ now < t /\ now' = t
  /\ slept' = (probe > 0)
  /\ UNCHANGED <<until, lastOk, probe, link, answer, marked, okFrom, okSlept>>

NetStep == \/ \E c \in Caller : Ask(c)
           \/ ProbeSucceeds \/ ProbeFails \/ RequestFails
           \/ WentOnline \/ LinkLost

ConnectivityVars == <<now, net>>

ConnectivityNext == NetStep \/ Tick \/ \E t \in Instants : Sleep(t)

ConnectivitySpec == now = 1 /\ ConnectivityInit /\ [][ConnectivityNext]_ConnectivityVars

(* Once a request failed, the server is not believed to be reachable on    *)
(* the word of a probe that was sent before the failure: by the time the   *)
(* breaker closes, what such a probe found has run out of the cache.  A    *)
(* probe that slept with the device is the one exception.                  *)
FreshOnline == ~isServerUnavailable /\ Cached /\ ~okSlept => okFrom >= marked

(* Nobody is told that the server cannot be reached, while there is a      *)
(* link, unless something failed within the last ServerUnavailable: the    *)
(* breaker never stays open longer, however many failures overlap.         *)
ShortOutage ==
  [][\A c \in Caller :
       answer[c] # "no" /\ answer'[c] = "no" /\ link =>
         marked' > 0 /\ now < marked' + ServerUnavailable]_ConnectivityVars

=============================================================================
