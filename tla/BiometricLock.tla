--------------------------- MODULE BiometricLock ---------------------------
(***************************************************************************)
(* desktop/src/features/biometric/BiometricLock.tsx: the signed-in app     *)
(* behind the fingerprint prompt of Android.  The component keeps some of  *)
(* its state in React state, which redraws when it changes, and some in    *)
(* refs, which do not: the Unlock button is drawn disabled or not by what  *)
(* the ref `prompting` was at the last drawing.                            *)
(*                                                                         *)
(* A prompt ends with its answer or after PROMPT_TIMEOUT_MS; the guard     *)
(* that keeps two from running at once is dropped whenever the app is      *)
(* hidden or shown, so a new prompt may run beside an old one.             *)
(***************************************************************************)
EXTENDS Clock, FiniteSets

CONSTANTS PromptTimeout,    \* PROMPT_TIMEOUT_MS
          UnlockSuppress,   \* UNLOCK_SUPPRESS_MS
          MaxPrompts        \* bound: prompts in flight

ASSUME LockAssumption ==
  PromptTimeout \in Nat /\ UnlockSuppress \in Nat \ {0} /\ MaxPrompts \in Nat \ {0}

VARIABLES lockOnMount,   \* the session was restored, not signed in just now
          ready, supported, locked,
          prompting, didAutoPrompt, unlockedAt,    \* refs
          visible,       \* document.visibilityState, and what was seen of it
          dead,          \* the button was last drawn disabled
          prompts,       \* in flight: when it was begun, before the return?
          leftAt,        \* history: when the app was last hidden
          owed,          \* history: back from an absence, not yet identified
          lateUnlock,    \* history: unlocked by a prompt from before the return
          openAway,         \* history: it was unlocked while hidden
          redrawn        \* history: the parent drew it during a prompt

lock == <<lockOnMount, ready, supported, locked, prompting, didAutoPrompt, unlockedAt,
          visible, dead, prompts, leftAt, owed, lateUnlock, openAway, redrawn>>

LockTypeOK ==
  /\ {lockOnMount, ready, supported, locked, prompting, didAutoPrompt, visible,
      dead, owed, lateUnlock, openAway, redrawn} \subseteq BOOLEAN
  /\ {unlockedAt, leftAt} \subseteq 0 .. MaxTime
  /\ prompts \subseteq [from : Instants, old : BOOLEAN]

LockInit ==
  /\ lockOnMount \in BOOLEAN
  /\ ready = FALSE /\ supported = FALSE /\ locked = FALSE
  /\ prompting = FALSE /\ didAutoPrompt = FALSE /\ unlockedAt = 0
  /\ visible = TRUE /\ dead = FALSE /\ prompts = {} /\ leftAt = 0
  /\ owed = FALSE /\ lateUnlock = FALSE /\ openAway = FALSE /\ redrawn = FALSE

(* Mutant.                                                               *)
SuppressForPrompt == unlockedAt > 0 /\ now - unlockedAt < PromptTimeout

suppressRelock == unlockedAt > 0 /\ now - unlockedAt < UnlockSuppress

(* The screen is locked now and was not: it is drawn, with the button as   *)
(* the ref says, and the first time the effect asks for a prompt by itself.*)
Locks(inPrompt) ==
  /\ locked' = TRUE
  /\ dead' = IF locked THEN dead ELSE inPrompt
  /\ didAutoPrompt' = TRUE
  /\ redrawn' = (redrawn /\ locked)

AutoPrompts == ~didAutoPrompt

Begin(older) == prompts' = older \cup {[from |-> now, old |-> FALSE]}

(* Those begun before the app was hidden or shown.                         *)
Aged == {[p EXCEPT !.old = TRUE] : p \in prompts}

RoomForPrompt == Cardinality(prompts) < MaxPrompts

(* The check for a sensor, once after mounting.                            *)
Check(ok) ==
  /\ ~ready /\ ready' = TRUE
  /\ supported' = ok
  /\ IF ok /\ lockOnMount
     THEN /\ Locks(FALSE)
          /\ prompting' = TRUE /\ Begin(prompts)
     ELSE UNCHANGED <<locked, dead, didAutoPrompt, prompting, prompts, redrawn>>
  /\ UNCHANGED <<now, lockOnMount, unlockedAt, visible, leftAt, owed, lateUnlock, openAway>>

(* The Unlock button.  A prompt in flight makes it do nothing.             *)
Press ==
  /\ ready /\ supported /\ locked /\ visible /\ ~dead
  /\ ~prompting /\ RoomForPrompt
  /\ prompting' = TRUE /\ Begin(prompts)
  /\ UNCHANGED <<now, lockOnMount, ready, supported, locked, didAutoPrompt, unlockedAt,
                 visible, dead, leftAt, owed, lateUnlock, openAway, redrawn>>

(* A prompt is answered or times out; whichever it was, the guard goes.    *)
PromptEnds(p, ok) ==
  /\ p \in prompts /\ prompts' = prompts \ {p}
  /\ prompting' = FALSE
  /\ IF ok
     THEN /\ unlockedAt' = now /\ locked' = FALSE /\ dead' = FALSE
          /\ owed' = (owed /\ p.old)
          /\ lateUnlock' = (lateUnlock \/ p.old \/ ~visible)
          /\ redrawn' = FALSE
          /\ openAway' = (openAway \/ ~visible)
     ELSE UNCHANGED <<unlockedAt, locked, dead, owed, lateUnlock, redrawn, openAway>>
  /\ UNCHANGED <<now, lockOnMount, ready, supported, didAutoPrompt, visible, leftAt>>

(* Mutant.                                                               *)
HideForgets ==    \* only the return locks
  /\ visible /\ visible' = FALSE
  /\ leftAt' = now
  /\ openAway' = IF locked THEN openAway ELSE ~supported \/ suppressRelock
  /\ prompting' = FALSE /\ prompts' = Aged
  /\ UNCHANGED <<now, lockOnMount, ready, supported, locked, didAutoPrompt, unlockedAt, dead,
                 owed, lateUnlock, redrawn>>

Hide ==
  /\ visible /\ visible' = FALSE
  /\ leftAt' = now
  /\ openAway' = IF locked THEN openAway ELSE ~supported \/ suppressRelock
  /\ IF supported /\ ~suppressRelock
     THEN /\ Locks(FALSE)
          /\ prompting' = AutoPrompts
          /\ IF AutoPrompts THEN Begin(Aged) ELSE prompts' = Aged
     ELSE /\ prompting' = FALSE /\ prompts' = Aged
          /\ UNCHANGED <<locked, dead, didAutoPrompt, redrawn>>
  /\ UNCHANGED <<now, lockOnMount, ready, supported, unlockedAt, owed, lateUnlock>>

Show ==
  /\ ~visible /\ visible' = TRUE
  /\ owed' = (owed \/ (supported /\ now - leftAt >= UnlockSuppress))
  /\ IF supported /\ ~suppressRelock
     THEN /\ RoomForPrompt
          /\ Locks(TRUE)
          /\ prompting' = TRUE /\ Begin(Aged)
          /\ lateUnlock' = FALSE
     ELSE /\ prompting' = FALSE /\ prompts' = Aged
          /\ UNCHANGED <<locked, dead, didAutoPrompt, redrawn, lateUnlock>>
  /\ UNCHANGED <<now, lockOnMount, ready, supported, unlockedAt, leftAt, openAway>>

(* The session changes (a refreshed token, the answer of /me): AuthGate    *)
(* draws again, and the button with it.                                    *)
ParentDraws ==
  /\ ready /\ supported /\ locked
  /\ dead' = prompting
  /\ redrawn' = prompting
  /\ UNCHANGED <<now, lockOnMount, ready, supported, locked, prompting, didAutoPrompt,
                 unlockedAt, visible, prompts, leftAt, owed, lateUnlock, openAway>>

(* The timeouts of the prompts have not run out.                           *)
PromptsRun == \A p \in prompts : now < p.from + PromptTimeout \/ p.old

LockStep == \/ \E ok \in BOOLEAN : Check(ok)
            \/ Press
            \/ \E p \in prompts, ok \in BOOLEAN : PromptEnds(p, ok)
            \/ Hide \/ Show \/ ParentDraws

(* Whoever sees the app after an absence of UnlockSuppress or more has     *)
(* passed a prompt that was begun after the return, unless one from before *)
(* the return was answered late.                                           *)
LockedAfterAbsence == owed /\ visible => locked \/ lateUnlock

(* "A hung OS biometric dialog must never leave the Unlock button dead":   *)
(* when no prompt is in flight the button of the locked screen works.  It  *)
(* does not after an absence the app spent unlocked (it was hidden within  *)
(* UnlockSuppress of unlocking, before the sensor was found, or unlocked   *)
(* meanwhile), whose return draws the lock with its prompt already begun,  *)
(* and when the parent redraws during a prompt: nothing redraws the button *)
(* afterwards.                                                             *)
UnlockReachable ==
  locked /\ visible /\ ~prompting /\ ~openAway /\ ~redrawn => ~dead

=============================================================================
