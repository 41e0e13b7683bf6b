---------------------------- MODULE Shell_proofs ----------------------------
(***************************************************************************)
(* What stands before every screen: the circuit breaker by itself, the     *)
(* lock on the clock it shares with it, and the two together.              *)
(***************************************************************************)
EXTENDS Shell, TLAPS

-----------------------------------------------------------------------------
(***************************************************************************)
(* The circuit breaker for every set of callers and every choice of its    *)
(* three times that leaves the breaker open for as long as a probe and the *)
(* cache together.  The invariant ties the breaker to the failure that     *)
(* opened it, and what a probe found to when it was sent.                  *)
(***************************************************************************)

BreakerFromMark == until = IF marked > 0 THEN marked + ServerUnavailable ELSE 0

ProbeInTime == probe > 0 /\ ~slept => now <= probe + ProbeTimeout

CacheFromProbe == lastOk > 0 /\ ~okSlept => lastOk <= okFrom + ProbeTimeout

NothingAhead == probe <= now /\ marked <= now /\ lastOk <= now

(* The type invariant, the numbers apart from the flags.                   *)
TimesTyped == /\ now \in Instants
              /\ until \in 0 .. MaxTime + ServerUnavailable
              /\ lastOk \in 0 .. MaxTime /\ probe \in 0 .. MaxTime
              /\ marked \in 0 .. MaxTime /\ okFrom \in 0 .. MaxTime

FlagsTyped == slept \in BOOLEAN /\ link \in BOOLEAN /\ okSlept \in BOOLEAN

IInv == /\ TimesTyped /\ FlagsTyped /\ answer \in [Caller -> Answers]
        /\ BreakerFromMark /\ ProbeInTime /\ CacheFromProbe /\ NothingAhead

(* The initial states satisfy the invariant.                               *)
LEMMA InitIInv == now = 1 /\ ConnectivityInit => IInv
<1> SUFFICES ASSUME now = 1, ConnectivityInit PROVE IInv
  OBVIOUS
<1>1. TimesTyped
  BY ClockAssumption, TimesAssumption DEF ConnectivityInit, TimesTyped, Instants
<1>2. FlagsTyped
  BY DEF ConnectivityInit, FlagsTyped
<1>3. answer \in [Caller -> Answers]
  BY DEF ConnectivityInit, Answers
<1>4. BreakerFromMark
  BY DEF ConnectivityInit, BreakerFromMark
<1>5. ProbeInTime /\ CacheFromProbe
  BY DEF ConnectivityInit, ProbeInTime, CacheFromProbe
<1>6. NothingAhead
  BY DEF ConnectivityInit, NothingAhead
<1> QED
  BY <1>1, <1>2, <1>3, <1>4, <1>5, <1>6 DEF IInv

(* Every step keeps it: one case for each action.                          *)
LEMMA NextIInv == IInv /\ [ConnectivityNext]_ConnectivityVars => IInv'
<1> SUFFICES ASSUME IInv, [ConnectivityNext]_ConnectivityVars PROVE IInv'
  OBVIOUS
<1> USE ClockAssumption, TimesAssumption DEF IInv, Instants
<1>1. ASSUME NEW c \in Caller, Ask(c) PROVE IInv'
  <2>1. UNCHANGED <<now, until, lastOk, link, marked, okFrom, okSlept>>
    BY <1>1 DEF Ask
  <2>2. (probe' = probe /\ slept' = slept) \/ probe' = now
    BY <1>1 DEF Ask
  <2>3. slept' \in BOOLEAN
    BY <1>1 DEF Ask, FlagsTyped
  <2>4. TimesTyped'
    <3>1. probe' \in 0 .. MaxTime
      BY <2>2 DEF TimesTyped
    <3> QED
      BY <2>1, <3>1 DEF TimesTyped
  <2>5. FlagsTyped'
    BY <2>1, <2>3 DEF FlagsTyped
  <2>6. answer' \in [Caller -> Answers]
    BY <1>1 DEF Ask, Answers
  <2>7. BreakerFromMark' /\ CacheFromProbe'
    BY <2>1 DEF BreakerFromMark, CacheFromProbe
  <2>8. ProbeInTime'
    <3>1. CASE probe' = probe /\ slept' = slept
      BY <2>1, <3>1 DEF ProbeInTime
    <3>2. CASE probe' = now
      BY <2>1, <3>2 DEF ProbeInTime, TimesTyped
    <3> QED
      BY <2>2, <3>1, <3>2
  <2>9. NothingAhead'
    BY <2>1, <2>2 DEF NothingAhead, TimesTyped
  <2> QED
    BY <2>4, <2>5, <2>6, <2>7, <2>8, <2>9 DEF IInv
<1>2. CASE ProbeSucceeds
  <2>1. TimesTyped'
    BY <1>2 DEF ProbeSucceeds, Tell, TimesTyped
  <2>2. FlagsTyped'
    BY <1>2 DEF ProbeSucceeds, Tell, FlagsTyped
  <2>3. answer' \in [Caller -> Answers]
    BY <1>2 DEF ProbeSucceeds, Tell, Answers
  <2>4. BreakerFromMark'
    BY <1>2 DEF ProbeSucceeds, Tell, TimesTyped, BreakerFromMark
  <2>5. ProbeInTime'
    BY <1>2 DEF ProbeSucceeds, Tell, TimesTyped, ProbeInTime, NothingAhead
  <2>6. CacheFromProbe'
    BY <1>2 DEF ProbeSucceeds, Tell, TimesTyped, CacheFromProbe, ProbeInTime
  <2>7. NothingAhead'
    BY <1>2 DEF ProbeSucceeds, Tell, TimesTyped, NothingAhead
  <2> QED
    BY <2>1, <2>2, <2>3, <2>4, <2>5, <2>6, <2>7 DEF IInv
<1>3. CASE ProbeFails
  <2>1. TimesTyped'
    BY <1>3 DEF ProbeFails, markServerUnavailable, Tell, TimesTyped
  <2>2. FlagsTyped'
    BY <1>3 DEF ProbeFails, markServerUnavailable, Tell, FlagsTyped
  <2>3. answer' \in [Caller -> Answers]
    BY <1>3 DEF ProbeFails, markServerUnavailable, Tell, Answers
  <2>4. BreakerFromMark'
    BY <1>3 DEF ProbeFails, markServerUnavailable, Tell, TimesTyped, BreakerFromMark
  <2>5. ProbeInTime'
    BY <1>3 DEF ProbeFails, markServerUnavailable, Tell, TimesTyped, ProbeInTime, NothingAhead
  <2>6. CacheFromProbe'
    BY <1>3 DEF ProbeFails, markServerUnavailable, Tell, TimesTyped, CacheFromProbe, ProbeInTime
  <2>7. NothingAhead'
    BY <1>3 DEF ProbeFails, markServerUnavailable, Tell, TimesTyped, NothingAhead
  <2> QED
    BY <2>1, <2>2, <2>3, <2>4, <2>5, <2>6, <2>7 DEF IInv
<1>4. CASE RequestFails
  <2>1. TimesTyped'
    BY <1>4 DEF RequestFails, markServerUnavailable, TimesTyped
  <2>2. FlagsTyped'
    BY <1>4 DEF RequestFails, markServerUnavailable, FlagsTyped
  <2>3. answer' \in [Caller -> Answers]
    BY <1>4 DEF RequestFails, markServerUnavailable, Answers
  <2>4. BreakerFromMark'
    BY <1>4 DEF RequestFails, markServerUnavailable, TimesTyped, BreakerFromMark
  <2>5. ProbeInTime'
    BY <1>4 DEF RequestFails, markServerUnavailable, TimesTyped, ProbeInTime, NothingAhead
  <2>6. CacheFromProbe'
    BY <1>4 DEF RequestFails, markServerUnavailable, TimesTyped, CacheFromProbe, ProbeInTime
  <2>7. NothingAhead'
    BY <1>4 DEF RequestFails, markServerUnavailable, TimesTyped, NothingAhead
  <2> QED
    BY <2>1, <2>2, <2>3, <2>4, <2>5, <2>6, <2>7 DEF IInv
<1>5. CASE WentOnline
  <2>1. TimesTyped'
    BY <1>5 DEF WentOnline, clearServerProbeCache, TimesTyped
  <2>2. FlagsTyped'
    BY <1>5 DEF WentOnline, clearServerProbeCache, FlagsTyped
  <2>3. answer' \in [Caller -> Answers]
    BY <1>5 DEF WentOnline, clearServerProbeCache, Answers
  <2>4. BreakerFromMark'
    BY <1>5 DEF WentOnline, clearServerProbeCache, TimesTyped, BreakerFromMark
  <2>5. ProbeInTime'
    BY <1>5 DEF WentOnline, clearServerProbeCache, TimesTyped, ProbeInTime, NothingAhead
  <2>6. CacheFromProbe'
    BY <1>5 DEF WentOnline, clearServerProbeCache, TimesTyped, CacheFromProbe, ProbeInTime
  <2>7. NothingAhead'
    BY <1>5 DEF WentOnline, clearServerProbeCache, TimesTyped, NothingAhead
  <2> QED
    BY <2>1, <2>2, <2>3, <2>4, <2>5, <2>6, <2>7 DEF IInv
<1>6. CASE LinkLost
  <2>1. TimesTyped'
    BY <1>6 DEF LinkLost, TimesTyped
  <2>2. FlagsTyped'
    BY <1>6 DEF LinkLost, FlagsTyped
  <2>3. answer' \in [Caller -> Answers]
    BY <1>6 DEF LinkLost, Answers
  <2>4. BreakerFromMark'
    BY <1>6 DEF LinkLost, TimesTyped, BreakerFromMark
  <2>5. ProbeInTime'
    BY <1>6 DEF LinkLost, TimesTyped, ProbeInTime, NothingAhead
  <2>6. CacheFromProbe'
    BY <1>6 DEF LinkLost, TimesTyped, CacheFromProbe, ProbeInTime
  <2>7. NothingAhead'
    BY <1>6 DEF LinkLost, TimesTyped, NothingAhead
  <2> QED
    BY <2>1, <2>2, <2>3, <2>4, <2>5, <2>6, <2>7 DEF IInv
<1>7. CASE Tick
  <2>1. TimesTyped'
    BY <1>7 DEF Tick, ProbeRuns, net, TimesTyped
  <2>2. FlagsTyped'
    BY <1>7 DEF Tick, ProbeRuns, net, FlagsTyped
  <2>3. answer' \in [Caller -> Answers]
    BY <1>7 DEF Tick, ProbeRuns, net, Answers
  <2>4. BreakerFromMark'
    BY <1>7 DEF Tick, ProbeRuns, net, TimesTyped, BreakerFromMark
  <2>5. ProbeInTime'
    BY <1>7 DEF Tick, ProbeRuns, net, TimesTyped, ProbeInTime, NothingAhead
  <2>6. CacheFromProbe'
    BY <1>7 DEF Tick, ProbeRuns, net, TimesTyped, CacheFromProbe, ProbeInTime
  <2>7. NothingAhead'
    BY <1>7 DEF Tick, ProbeRuns, net, TimesTyped, NothingAhead
  <2> QED
    BY <2>1, <2>2, <2>3, <2>4, <2>5, <2>6, <2>7 DEF IInv
<1>8. ASSUME NEW t \in Instants, Sleep(t) PROVE IInv'
  <2>1. TimesTyped'
    BY <1>8 DEF Sleep, TimesTyped
  <2>2. FlagsTyped'
    BY <1>8 DEF Sleep, FlagsTyped
  <2>3. answer' \in [Caller -> Answers]
    BY <1>8 DEF Sleep, Answers
  <2>4. BreakerFromMark'
    BY <1>8 DEF Sleep, TimesTyped, BreakerFromMark
  <2>5. ProbeInTime'
    BY <1>8 DEF Sleep, TimesTyped, ProbeInTime, NothingAhead
  <2>6. CacheFromProbe'
    BY <1>8 DEF Sleep, TimesTyped, CacheFromProbe, ProbeInTime
  <2>7. NothingAhead'
    BY <1>8 DEF Sleep, TimesTyped, NothingAhead
  <2> QED
    BY <2>1, <2>2, <2>3, <2>4, <2>5, <2>6, <2>7 DEF IInv
<1>9. CASE UNCHANGED ConnectivityVars
  <2>1. TimesTyped'
    BY <1>9 DEF ConnectivityVars, net, TimesTyped
  <2>2. FlagsTyped'
    BY <1>9 DEF ConnectivityVars, net, FlagsTyped
  <2>3. answer' \in [Caller -> Answers]
    BY <1>9 DEF ConnectivityVars, net, Answers
  <2>4. BreakerFromMark'
    BY <1>9 DEF ConnectivityVars, net, TimesTyped, BreakerFromMark
  <2>5. ProbeInTime'
    BY <1>9 DEF ConnectivityVars, net, TimesTyped, ProbeInTime, NothingAhead
  <2>6. CacheFromProbe'
    BY <1>9 DEF ConnectivityVars, net, TimesTyped, CacheFromProbe, ProbeInTime
  <2>7. NothingAhead'
    BY <1>9 DEF ConnectivityVars, net, TimesTyped, NothingAhead
  <2> QED
    BY <2>1, <2>2, <2>3, <2>4, <2>5, <2>6, <2>7 DEF IInv
<1> QED
  BY <1>1, <1>2, <1>3, <1>4, <1>5, <1>6, <1>7, <1>8, <1>9 DEF ConnectivityNext, NetStep

(* By the time the breaker of a failure closes, what a probe from before   *)
(* it found has run out of the cache.                                      *)
LEMMA IInvFresh == IInv => FreshOnline
BY ClockAssumption, TimesAssumption
   DEF IInv, FreshOnline, isServerUnavailable, Cached, TimesTyped, BreakerFromMark,
       CacheFromProbe, NothingAhead, Instants

(* The state of the connectivity helper keeps its shape.                   *)
THEOREM ConnectivityTypes == ConnectivitySpec => []ConnectivityTypeOK
<1>1. IInv => ConnectivityTypeOK
  BY DEF IInv, TimesTyped, FlagsTyped, ConnectivityTypeOK
<1> QED
  BY <1>1, InitIInv, NextIInv, PTL DEF ConnectivitySpec

(* After a failed request nobody believes an older probe.                  *)
THEOREM FreshOnlineHolds == ConnectivitySpec => []FreshOnline
BY InitIInv, NextIInv, IInvFresh, PTL DEF ConnectivitySpec

(* "Offline" is said, while there is a link, only within ServerUnavailable *)
(* of a failure: one step of the specification.                            *)
LEMMA NextShort ==
  ASSUME IInv, [ConnectivityNext]_ConnectivityVars,
         NEW c \in Caller, answer[c] # "no", answer'[c] = "no", link
  PROVE  marked' > 0 /\ now < marked' + ServerUnavailable
<1> USE ClockAssumption, TimesAssumption
        DEF IInv, TimesTyped, BreakerFromMark, Instants
<1>1. ASSUME NEW d \in Caller, Ask(d) PROVE marked' > 0 /\ now < marked' + ServerUnavailable
  <2>1. d = c
    BY <1>1 DEF Ask
  <2>2. isServerUnavailable
    BY <1>1, <2>1 DEF Ask
  <2>3. marked' = marked
    BY <1>1 DEF Ask
  <2> QED
    BY <2>2, <2>3 DEF isServerUnavailable
<1>2. CASE ProbeSucceeds
  BY <1>2 DEF ProbeSucceeds, Tell
<1>3. CASE ProbeFails
  <2>1. marked' = now
    BY <1>3 DEF ProbeFails, markServerUnavailable
  <2> QED
    BY <2>1
<1>4. CASE UNCHANGED answer
  BY <1>4
<1>5. RequestFails \/ WentOnline \/ LinkLost \/ Tick \/ (\E t \in Instants : Sleep(t))
        \/ UNCHANGED ConnectivityVars => UNCHANGED answer
  BY DEF RequestFails, WentOnline, LinkLost, Tick, Sleep, ConnectivityVars, net
<1> QED
  BY <1>1, <1>2, <1>3, <1>4, <1>5 DEF ConnectivityNext, NetStep

(* No outage outlasts the last failure by more than ServerUnavailable.     *)
THEOREM ShortOutageHolds == ConnectivitySpec => ShortOutage
<1>1. IInv /\ [ConnectivityNext]_ConnectivityVars =>
        [\A c \in Caller :
           answer[c] # "no" /\ answer'[c] = "no" /\ link =>
             marked' > 0 /\ now < marked' + ServerUnavailable]_ConnectivityVars
  BY NextShort
<1> QED
  BY <1>1, InitIInv, NextIInv, PTL DEF ConnectivitySpec, ShortOutage

-----------------------------------------------------------------------------
(***************************************************************************)
(* The lock, for all its times and any number of prompts.  Each of its two *)
(* properties needs to be told what a hidden app may look like: whether it *)
(* was unlocked since it was left, and whether it is open.                 *)
(***************************************************************************)

LockFlags == {lockOnMount, ready, supported, locked, prompting, didAutoPrompt, visible,
              dead, owed, lateUnlock, openAway, redrawn} \subseteq BOOLEAN

PromptsTyped == prompts \subseteq [from : Instants, old : BOOLEAN]

(* Neither the last unlocking nor the last leaving is ahead of the clock,  *)
(* and only an app that knows its sensor owes an identification.           *)
LockTimes ==
  /\ now \in Instants
  /\ unlockedAt \in 0 .. now /\ leftAt \in 0 .. now

Sensor == supported => ready

(* What makes LockedAfterAbsence inductive: it holds of the hidden app as  *)
(* well, and what unlocked that after it was left was a late prompt.       *)
OwedIsLocked == owed => supported /\ (locked \/ lateUnlock)

AwayIsLate == ~visible /\ unlockedAt > leftAt => lateUnlock

(* What makes UnlockReachable inductive: an open app that is hidden has    *)
(* been recorded as such, for its return draws the button dead.            *)
AwayIsOpen == ~visible /\ ~locked => openAway

DeadIsExcused == locked /\ dead => openAway \/ redrawn

LockInv == /\ LockFlags /\ PromptsTyped /\ LockTimes /\ Sensor
           /\ OwedIsLocked /\ AwayIsLate /\ AwayIsOpen /\ DeadIsExcused

(* It holds before the check for a sensor.                                 *)
LEMMA InitLockInv == Init => LockInv
<1> SUFFICES ASSUME Init PROVE LockInv
  OBVIOUS
<1>1. LockFlags /\ PromptsTyped
  BY DEF Init, LockInit, LockFlags, PromptsTyped
<1>2. LockTimes
  BY ClockAssumption DEF Init, LockInit, LockTimes, Instants
<1>3. Sensor /\ OwedIsLocked /\ AwayIsLate /\ AwayIsOpen /\ DeadIsExcused
  BY DEF Init, LockInit, Sensor, OwedIsLocked, AwayIsLate, AwayIsOpen, DeadIsExcused
<1> QED
  BY <1>1, <1>2, <1>3 DEF LockInv

(* What a prompt begun now, and the ageing of those before it, keep typed. *)
LEMMA PromptsStayTyped ==
  ASSUME PromptsTyped, now \in Instants
  PROVE  /\ Aged \subseteq [from : Instants, old : BOOLEAN]
         /\ prompts \cup {[from |-> now, old |-> FALSE]} \subseteq [from : Instants, old : BOOLEAN]
         /\ Aged \cup {[from |-> now, old |-> FALSE]} \subseteq [from : Instants, old : BOOLEAN]
<1>1. Aged \subseteq [from : Instants, old : BOOLEAN]
  BY DEF PromptsTyped, Aged
<1>2. [from |-> now, old |-> FALSE] \in [from : Instants, old : BOOLEAN]
  OBVIOUS
<1> QED
  BY <1>1, <1>2 DEF PromptsTyped

LEMMA CheckLockInv ==
  ASSUME LockInv, NEW ok \in BOOLEAN, Check(ok) PROVE LockInv'
<1> USE DEF LockInv
<1>1. LockFlags'
  BY DEF LockFlags, Check, Locks
<1>2. PromptsTyped'
  BY PromptsStayTyped DEF PromptsTyped, Check, Begin, LockTimes
<1>3. LockTimes'
  BY DEF LockTimes, Check
<1>4. Sensor' /\ OwedIsLocked' /\ AwayIsLate' /\ AwayIsOpen' /\ DeadIsExcused'
  BY DEF Check, Locks, LockFlags, Sensor, OwedIsLocked, AwayIsLate, AwayIsOpen, DeadIsExcused
<1> QED
  BY <1>1, <1>2, <1>3, <1>4

LEMMA PressLockInv ==
  ASSUME LockInv, Press PROVE LockInv'
<1> USE DEF LockInv
<1>1. LockFlags'
  BY DEF LockFlags, Press
<1>2. PromptsTyped'
  BY PromptsStayTyped DEF PromptsTyped, Press, Begin, LockTimes
<1>3. LockTimes'
  BY DEF LockTimes, Press
<1>4. Sensor' /\ OwedIsLocked' /\ AwayIsLate' /\ AwayIsOpen' /\ DeadIsExcused'
  BY DEF Press, Sensor, OwedIsLocked, AwayIsLate, AwayIsOpen, DeadIsExcused
<1> QED
  BY <1>1, <1>2, <1>3, <1>4

LEMMA PromptEndsLockInv ==
  ASSUME LockInv, NEW p \in prompts, NEW ok \in BOOLEAN, PromptEnds(p, ok) PROVE LockInv'
<1> USE DEF LockInv
<1>0. p.old \in BOOLEAN /\ prompts' \subseteq prompts
  BY DEF PromptsTyped, PromptEnds
<1>1. LockFlags'
  BY <1>0 DEF LockFlags, PromptEnds
<1>2. PromptsTyped'
  BY <1>0 DEF PromptsTyped
<1>3. LockTimes'
  BY DEF LockTimes, PromptEnds, Instants
<1>4. Sensor' /\ AwayIsOpen' /\ DeadIsExcused'
  BY DEF PromptEnds, Sensor, LockFlags, AwayIsOpen, DeadIsExcused
<1>5. OwedIsLocked' /\ AwayIsLate'
  BY <1>0 DEF PromptEnds, LockFlags, OwedIsLocked, AwayIsLate
<1> QED
  BY <1>1, <1>2, <1>3, <1>4, <1>5

(* Leaving: an app that is not locked by it was open, and nothing has been *)
(* unlocked since.                                                         *)
LEMMA HideLockInv ==
  ASSUME LockInv, Hide PROVE LockInv'
<1> USE DEF LockInv
<1>0. suppressRelock \in BOOLEAN /\ AutoPrompts \in BOOLEAN
  BY DEF suppressRelock, AutoPrompts, LockFlags
<1>1. LockFlags'
  BY <1>0 DEF LockFlags, Hide, Locks
<1>2. PromptsTyped'
  BY PromptsStayTyped DEF PromptsTyped, Hide, Begin, LockTimes
<1>3. LockTimes'
  BY ClockAssumption DEF LockTimes, Hide, Instants
<1>4. Sensor' /\ OwedIsLocked' /\ AwayIsOpen' /\ DeadIsExcused'
  BY <1>0 DEF Hide, Locks, LockFlags, Sensor, OwedIsLocked, AwayIsOpen, DeadIsExcused
<1>5. AwayIsLate'
  BY DEF Hide, LockTimes, AwayIsLate, Instants
<1> QED
  BY <1>1, <1>2, <1>3, <1>4, <1>5

(* Returning: an absence that is long enough either locks, or was unlocked *)
(* by a prompt after it had begun.                                         *)
LEMMA ShowLockInv ==
  ASSUME LockInv, Show PROVE LockInv'
<1> USE DEF LockInv
<1>0. suppressRelock \in BOOLEAN /\ (now - leftAt >= UnlockSuppress) \in BOOLEAN
  BY DEF suppressRelock
<1>1. LockFlags'
  BY <1>0 DEF LockFlags, Show, Locks
<1>2. PromptsTyped'
  BY PromptsStayTyped DEF PromptsTyped, Show, Begin, LockTimes
<1>3. LockTimes'
  BY DEF LockTimes, Show
<1>4. Sensor' /\ AwayIsLate' /\ AwayIsOpen'
  BY DEF Show, Sensor, AwayIsLate, AwayIsOpen
<1>5. DeadIsExcused'
  BY <1>0 DEF Show, Locks, LockFlags, AwayIsOpen, DeadIsExcused
<1>6. OwedIsLocked'
  <2>1. suppressRelock /\ now - leftAt >= UnlockSuppress => unlockedAt > leftAt
    BY LockAssumption DEF suppressRelock, LockTimes, Instants
  <2>2. CASE supported /\ ~suppressRelock
    BY <2>2 DEF Show, Locks, OwedIsLocked
  <2>3. CASE ~supported
    BY <2>3 DEF Show, OwedIsLocked
  <2>4. CASE supported /\ suppressRelock
    <3>1. UNCHANGED <<supported, locked, lateUnlock>> /\ ~visible
      BY <2>4 DEF Show
    <3>2. owed' => owed \/ lateUnlock
      BY <2>1, <2>4, <3>1 DEF Show, AwayIsLate
    <3> QED
      BY <2>4, <3>1, <3>2 DEF OwedIsLocked
  <2> QED
    BY <2>2, <2>3, <2>4
<1> QED
  BY <1>1, <1>2, <1>3, <1>4, <1>5, <1>6

LEMMA ParentDrawsLockInv ==
  ASSUME LockInv, ParentDraws PROVE LockInv'
<1> USE DEF LockInv
<1>1. LockFlags'
  BY DEF LockFlags, ParentDraws
<1>2. PromptsTyped' /\ LockTimes'
  BY DEF PromptsTyped, LockTimes, ParentDraws
<1>3. Sensor' /\ OwedIsLocked' /\ AwayIsLate' /\ AwayIsOpen' /\ DeadIsExcused'
  BY DEF ParentDraws, LockFlags, Sensor, OwedIsLocked, AwayIsLate, AwayIsOpen, DeadIsExcused
<1> QED
  BY <1>1, <1>2, <1>3

(* Time passing, and sleep, only move the clock on.                        *)
LEMMA ClockLockInv ==
  ASSUME LockInv, UNCHANGED lock, now' \in Instants, now <= now' PROVE LockInv'
<1> USE DEF LockInv, lock
<1>1. LockFlags' /\ PromptsTyped'
  BY DEF LockFlags, PromptsTyped
<1>2. LockTimes'
  BY DEF LockTimes, Instants
<1>3. Sensor' /\ OwedIsLocked' /\ AwayIsLate' /\ AwayIsOpen' /\ DeadIsExcused'
  BY DEF Sensor, OwedIsLocked, AwayIsLate, AwayIsOpen, DeadIsExcused
<1> QED
  BY <1>1, <1>2, <1>3

(* Every step keeps the invariant of the lock.                             *)
LEMMA NextLockInv == LockInv /\ [Next]_vars => LockInv'
<1> SUFFICES ASSUME LockInv, [Next]_vars PROVE LockInv'
  OBVIOUS
<1>0. now \in Instants
  BY DEF LockInv, LockTimes
<1>1. CASE Locking
  BY <1>1, CheckLockInv, PressLockInv, PromptEndsLockInv, HideLockInv, ShowLockInv,
     ParentDrawsLockInv DEF Locking, LockStep
<1>2. CASE Network
  <2>1. UNCHANGED lock /\ UNCHANGED now
    BY <1>2 DEF Network, NetStep, Ask, ProbeSucceeds, ProbeFails, RequestFails, WentOnline,
                LinkLost
  <2> QED
    BY <1>0, <2>1, ClockLockInv DEF Instants
<1>3. CASE TimePasses
  BY <1>0, <1>3, ClockAssumption, ClockLockInv DEF TimePasses, Tick, Instants
<1>4. ASSUME NEW t \in Instants, Suspended(t) PROVE LockInv'
  BY <1>0, <1>4, ClockLockInv DEF Suspended, Sleep, Instants
<1>5. CASE UNCHANGED vars
  BY <1>0, <1>5, ClockLockInv DEF vars, Instants
<1> QED
  BY <1>1, <1>2, <1>3, <1>4, <1>5 DEF Next

(* Whoever sees the app after a long absence has passed a prompt of after  *)
(* the return, or one that was answered late (BiometricLock.tsx), for      *)
(* every choice of the two times.                                          *)
THEOREM LockedAfterAbsenceHolds == Spec => []LockedAfterAbsence
<1>1. LockInv => LockedAfterAbsence
  BY DEF LockInv, OwedIsLocked, LockedAfterAbsence
<1> QED
  BY <1>1, InitLockInv, NextLockInv, PTL DEF Spec

(* With no prompt in flight the Unlock button of a locked screen works,    *)
(* except after an absence the app spent open and after a redraw during a  *)
(* prompt.                                                                 *)
THEOREM UnlockReachableHolds == Spec => []UnlockReachable
<1>1. LockInv => UnlockReachable
  BY DEF LockInv, DeadIsExcused, UnlockReachable
<1> QED
  BY <1>1, InitLockInv, NextLockInv, PTL DEF Spec

-----------------------------------------------------------------------------
(***************************************************************************)
(* Both together.                                                          *)
(***************************************************************************)

(* The lock leaves the network alone: with it, the breaker is what it is   *)
(* by itself, and what is proved of it holds here.                         *)
THEOREM ShellRunsConnectivity == Spec => ConnectivitySpec
<1>1. Init => now = 1 /\ ConnectivityInit
  BY DEF Init
<1>2. [Next]_vars => [ConnectivityNext]_ConnectivityVars
  <2> SUFFICES ASSUME [Next]_vars PROVE [ConnectivityNext]_ConnectivityVars
    OBVIOUS
  <2>1. CASE Network
    BY <2>1 DEF Network, ConnectivityNext
  <2>2. CASE Locking
    <3>1. UNCHANGED net /\ LockStep
      BY <2>2 DEF Locking
    <3>2. UNCHANGED now
      BY <3>1 DEF LockStep, Check, Press, PromptEnds, Hide, Show, ParentDraws
    <3> QED
      BY <3>1, <3>2 DEF ConnectivityVars
  <2>3. CASE TimePasses
    BY <2>3 DEF TimePasses, ConnectivityNext
  <2>4. ASSUME NEW t \in Instants, Suspended(t) PROVE ConnectivityNext
    BY <2>4 DEF Suspended, ConnectivityNext
  <2>5. CASE UNCHANGED vars
    BY <2>5 DEF vars, ConnectivityVars
  <2> QED
    BY <2>1, <2>2, <2>3, <2>4, <2>5 DEF Next
<1> QED
  BY <1>1, <1>2, PTL DEF Spec, ConnectivitySpec

(* The state of both keeps its shape.                                      *)
THEOREM ShellTypes == Spec => []TypeOK
<1>1. LockInv => LockTypeOK
  <2> SUFFICES ASSUME LockInv PROVE LockTypeOK
    OBVIOUS
  <2>1. unlockedAt \in 0 .. MaxTime /\ leftAt \in 0 .. MaxTime
    BY ClockAssumption DEF LockInv, LockTimes, Instants
  <2> QED
    BY <2>1 DEF LockInv, LockFlags, PromptsTyped, LockTypeOK
<1>2. ConnectivityTypeOK /\ LockInv => TypeOK
  BY <1>1 DEF TypeOK
<1> QED
  BY <1>2, InitLockInv, NextLockInv, ConnectivityTypes, ShellRunsConnectivity, PTL DEF Spec
=============================================================================
