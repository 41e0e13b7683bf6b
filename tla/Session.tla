------------------------------ MODULE Session ------------------------------
(***************************************************************************)
(* The session of the device: its copy in memory (lib/auth.ts), the three  *)
(* keys it is stored under, the screen (app/auth.tsx), and the requests    *)
(* that renew it when they are refused (lib/request.ts).                   *)
(*                                                                         *)
(* The copy in memory changes at once, the store key by key afterwards, in *)
(* the order the writes were asked for; the screen follows when a batch of *)
(* writes is done.  One refresh serves every request that is refused while *)
(* it is in flight, and nothing tells it that the user signed out.         *)
(***************************************************************************)
EXTENDS Naturals, Sequences

CONSTANTS User, None,
          Req,            \* requests in flight at once, beside /me and the login
          MaxIssued,      \* bound: sessions issued by the server
          MaxRestarts     \* bound: restarts of the app

ASSUME SessionAssumption ==
  /\ None \notin User /\ "me" \notin Req /\ "login" \notin Req
  /\ MaxIssued \in Nat /\ MaxRestarts \in Nat

Key == <<"access", "refresh", "user">>    \* in the order they are written
Keys == {Key[i] : i \in 1 .. 3}
Call == Req \cup {"me", "login"}

Session == [user : User, n : 1 .. MaxIssued]
MaybeSession == Session \cup {None}
MaybeUser == User \cup {None}

VARIABLES ring, local,    \* per key: the keyring's copy, localStorage's copy
          disk,           \* per key: what of the keyring's copy a kill leaves
          cache,          \* per key: the copy in memory
          writes,         \* batches of writes: what, how far, and for whom
          hydrate,        \* of AuthProvider: load, me, done
          user, loading,  \* React state: who is signed in, still hydrating
          call,           \* per call: idle, sent, refused, again, failed
          token,          \* per call: the session it was sent with
          trying,         \* whose password is being tried
          refresh, old,   \* the refresh: no, asking, storing, clearing; of which session
          issued, restarts,
          intent,         \* history: who decided to be signed in
          crossed,        \* history: that changed during a refresh
          torn,           \* history: a restart fell between two writes, or before
                          \* a deletion was on disk
          flaky,          \* history: the keyring failed
          meLate          \* history: /me failed, or was answered for another

vars == <<ring, local, disk, cache, writes, hydrate, user, loading, call, token, trying, refresh, old,
          issued, restarts, intent, crossed, torn, flaky, meLate>>

TypeOK ==
  /\ {ring, local, disk, cache} \subseteq [Keys -> MaybeSession]
  /\ \A i \in DOMAIN writes :
       writes[i] \in [value : MaybeSession, next : 1 .. 3, by : {"login", "logout", "refresh"}]
  /\ hydrate \in {"load", "me", "done"}
  /\ {user, trying, intent} \subseteq MaybeUser
  /\ call \in [Call -> {"idle", "sent", "refused", "again", "failed"}]
  /\ token \in [Call -> MaybeSession]
  /\ refresh \in {"no", "asking", "storing", "clearing"} /\ old \in MaybeSession
  /\ issued \in 0 .. MaxIssued /\ restarts \in 0 .. MaxRestarts
  /\ {loading, crossed, torn, flaky, meLate} \subseteq BOOLEAN

Same(s) == [k \in Keys |-> s]

Owner(s) == IF s = None THEN None ELSE s.user

(* The app was installed just now, or left signed in by an earlier run or  *)
(* an earlier build, which kept the session in localStorage.               *)
Init ==
  /\ \E s \in {None} \cup {t \in Session : t.n = 1} :
       /\ \/ ring = Same(s) /\ local = Same(None)
          \/ ring = Same(None) /\ local = Same(s)
       /\ intent = Owner(s)
       /\ issued = IF s = None THEN 0 ELSE 1
  /\ disk = ring
  /\ cache = Same(None) /\ writes = <<>> /\ hydrate = "load"
  /\ user = None /\ loading = TRUE
  /\ call = [c \in Call |-> "idle"] /\ token = [c \in Call |-> None]
  /\ trying = None /\ refresh = "no" /\ old = None /\ restarts = 0
  /\ crossed = FALSE /\ torn = FALSE /\ flaky = FALSE /\ meLate = FALSE

(* storeGet: the keyring's copy, if it answers and has one.                *)
Stored(k, answers) == IF answers /\ ring[k] # None THEN ring[k] ELSE local[k]

(* setAuthSession and clearAuthSession up to their writes.                 *)
SetSession(s, by) ==
  /\ cache' = Same(s)
  /\ writes' = Append(writes, [value |-> s, next |-> 1, by |-> by])

(* loadSession, and what hydration does with it.                           *)
Load(answers) ==
  /\ hydrate = "load"
  /\ cache' = [k \in Keys |-> Stored(k, answers)]
  /\ flaky' = (flaky \/ (~answers /\ ring # Same(None)))
  /\ IF Stored("access", answers) = None
     THEN /\ hydrate' = "done" /\ loading' = FALSE /\ user' = None
          /\ UNCHANGED <<call, token>>
     ELSE /\ hydrate' = "me"
          /\ user' = Owner(Stored("user", answers))
          /\ call' = [call EXCEPT !["me"] = "sent"]
          /\ token' = [token EXCEPT !["me"] = Stored("access", answers)]
          /\ UNCHANGED loading
  /\ UNCHANGED <<ring, disk, local, writes, trying, refresh, old, issued, restarts, intent, crossed,
                 torn, meLate>>

(* A screen, or the capture of notifications, asks the server something.   *)
Send(r) ==
  /\ r \in Req /\ call[r] = "idle" /\ hydrate # "load"
  /\ call' = [call EXCEPT ![r] = "sent"]
  /\ token' = [token EXCEPT ![r] = cache["access"]]
  /\ UNCHANGED <<ring, disk, local, cache, writes, hydrate, user, loading, trying, refresh, old, issued,
                 restarts, intent, crossed, torn, flaky, meLate>>

(* LoginPage, which is shown when nobody is signed in: login or register.  *)
SubmitLogin(u) ==
  /\ ~loading /\ user = None /\ call["login"] = "idle"
  /\ \A i \in DOMAIN writes : writes[i].by # "login"
  /\ call' = [call EXCEPT !["login"] = "sent"]
  /\ token' = [token EXCEPT !["login"] = cache["access"]]
  /\ trying' = u
  /\ UNCHANGED <<ring, disk, local, cache, writes, hydrate, user, loading, refresh, old, issued,
                 restarts, intent, crossed, torn, flaky, meLate>>

(* Mutant.                                                                 *)
LogoutOfStore ==   \* the copy in memory is left
  /\ ~loading /\ user # None /\ cache["access"] # None
  /\ writes' = Append(writes, [value |-> None, next |-> 1, by |-> "logout"])
  /\ intent' = None
  /\ crossed' = (crossed \/ refresh = "asking")
  /\ UNCHANGED <<ring, disk, local, cache, hydrate, user, loading, call, token, trying, refresh, old,
                 issued, restarts, torn, flaky, meLate>>

Logout ==
  /\ ~loading /\ user # None /\ cache["access"] # None
  /\ SetSession(None, "logout")
  /\ intent' = None
  /\ crossed' = (crossed \/ refresh = "asking")
  /\ UNCHANGED <<ring, disk, local, hydrate, user, loading, call, token, trying, refresh, old, issued,
                 restarts, torn, flaky, meLate>>

(* What a call makes of its answer: hydration and the login page.          *)
Settle(c, ok, network) ==
  \/ /\ c \in Req
     /\ UNCHANGED <<cache, writes, hydrate, user, loading, trying, issued, intent, crossed, meLate>>
  \/ /\ c = "me" /\ hydrate' = "done" /\ loading' = FALSE
     /\ user' = IF ok THEN Owner(token[c]) ELSE IF network THEN user ELSE None
     /\ meLate' = \/ meLate
                  \/ ok /\ Owner(token[c]) # Owner(cache["user"])
                  \/ ~ok /\ ~network /\ cache["access"] # None
     /\ UNCHANGED <<cache, writes, trying, issued, intent, crossed>>
  \/ /\ c = "login" /\ ok
     /\ issued < MaxIssued /\ issued' = issued + 1
     /\ SetSession([user |-> trying, n |-> issued + 1], "login")
     /\ intent' = trying /\ trying' = None
     /\ crossed' = (crossed \/ refresh = "asking")
     /\ UNCHANGED <<hydrate, user, loading, meLate>>
  \/ /\ c = "login" /\ ~ok /\ trying' = None
     /\ UNCHANGED <<cache, writes, hydrate, user, loading, issued, intent, crossed, meLate>>

(* What ends a call: an answer, no network, or a refusal that could not be *)
(* cured; the request that was sent again is not renewed a second time.    *)
Answered(c, ok, network) ==
  /\ \/ call[c] \in {"sent", "again"} /\ (ok /\ c # "login" => token[c] # None)
     \/ call[c] = "failed" /\ ~ok /\ ~network
  /\ Settle(c, ok, network)
  /\ call' = [call EXCEPT ![c] = "idle"]
  /\ token' = [token EXCEPT ![c] = None]
  /\ UNCHANGED <<ring, disk, local, refresh, old, restarts, torn, flaky>>

(* 401: join the refresh in flight, or begin one.  Without a refresh token *)
(* the session is cleared instead.                                         *)
Refused(c) ==
  /\ call[c] = "sent"
  /\ call' = [call EXCEPT ![c] = "refused"]
  /\ \/ /\ refresh # "no"
        /\ UNCHANGED <<cache, writes, refresh, old>>
     \/ /\ refresh = "no" /\ cache["refresh"] # None
        /\ refresh' = "asking" /\ old' = cache["refresh"]
        /\ UNCHANGED <<cache, writes>>
     \/ /\ refresh = "no" /\ cache["refresh"] = None
        /\ refresh' = "clearing" /\ SetSession(None, "refresh") /\ UNCHANGED old
  /\ UNCHANGED <<ring, disk, local, hydrate, user, loading, token, trying, issued, restarts, intent,
                 crossed, torn, flaky, meLate>>

(* The answer to the refresh: a session for the same user, or a refusal.   *)
RefreshAnswered ==
  /\ refresh = "asking" /\ old' = None
  /\ \/ /\ issued < MaxIssued /\ issued' = issued + 1
        /\ SetSession([user |-> old.user, n |-> issued + 1], "refresh")
        /\ refresh' = "storing"
     \/ /\ SetSession(None, "refresh")
        /\ refresh' = "clearing" /\ UNCHANGED issued
  /\ UNCHANGED <<ring, disk, local, hydrate, user, loading, call, token, trying, restarts, intent,
                 crossed, torn, flaky, meLate>>

(* Those who waited for a refresh send again, with what is stored now, or  *)
(* report the refusal.                                                     *)
Resume(renewed) ==
  /\ call' = [c \in Call |-> IF call[c] # "refused" THEN call[c]
                             ELSE IF renewed THEN "again" ELSE "failed"]
  /\ token' = [c \in Call |-> IF call[c] = "refused" /\ renewed THEN cache["access"] ELSE token[c]]

(* Mutant.                                                                 *)
RefreshLostTwice ==   \* refreshPromise keeps the promise that failed
  /\ refresh = "asking"
  /\ refresh' = "clearing" /\ old' = None
  /\ Resume(FALSE)
  /\ UNCHANGED <<ring, disk, local, cache, writes, hydrate, user, loading, trying, issued, restarts,
                 intent, crossed, torn, flaky, meLate>>

(* The server cannot be reached: the session stays, those who wait fail.   *)
RefreshLost ==
  /\ refresh = "asking" /\ refresh' = "no" /\ old' = None
  /\ Resume(FALSE)
  /\ UNCHANGED <<ring, disk, local, cache, writes, hydrate, user, loading, trying, issued, restarts,
                 intent, crossed, torn, flaky, meLate>>

(* Mutant.                                                                 *)
PutOnce(k, v, answers) ==   \* a deletion stops at the keyring
  /\ ring' = IF answers THEN [ring EXCEPT ![k] = v] ELSE ring
  /\ local' = IF ~answers THEN [local EXCEPT ![k] = v] ELSE local
  /\ disk' = IF answers /\ v # None THEN ring' ELSE disk
  /\ flaky' = (flaky \/ (~answers /\ {ring[k], disk[k]} \ {None, v} # {}))

(* storeSet and storeDelete of one key: the keyring, or localStorage when  *)
(* it fails; a deletion goes to both.  On Android the keyring commits what *)
(* it is given, and applies a deletion, which is on disk later.            *)
Put(k, v, answers) ==
  /\ ring' = IF answers THEN [ring EXCEPT ![k] = v] ELSE ring
  /\ local' = IF v = None \/ ~answers THEN [local EXCEPT ![k] = v] ELSE local
  /\ disk' = IF answers /\ v # None THEN ring' ELSE disk
  /\ flaky' = (flaky \/ (~answers /\ {ring[k], disk[k]} \ {None, v} # {}))

(* The deletions applied are on disk.                                      *)
Flush ==
  /\ disk # ring /\ disk' = ring
  /\ UNCHANGED <<ring, local, cache, writes, hydrate, user, loading, call, token, trying, refresh,
                 old, issued, restarts, intent, crossed, torn, flaky, meLate>>

(* Mutant.                                                                 *)
StoreWriteUnheard(answers) ==   \* a refresh does not notify the screen
  /\ writes # <<>>
  /\ LET w == Head(writes) IN
     /\ Put(Key[w.next], w.value, answers)
     /\ IF w.next < 3
        THEN /\ writes' = [writes EXCEPT ![1].next = @ + 1]
             /\ UNCHANGED <<user, loading, refresh, call, token>>
        ELSE /\ writes' = Tail(writes)
             /\ IF w.by = "refresh"
                THEN refresh' = "no" /\ Resume(refresh = "storing") /\ UNCHANGED <<user, loading>>
                ELSE /\ user' = Owner(w.value)
                     /\ loading' = (loading /\ cache["access"] # None)
                     /\ UNCHANGED <<refresh, call, token>>
  /\ UNCHANGED <<cache, old, hydrate, trying, issued, restarts, intent, crossed, torn, meLate>>

(* One write of the batch at the head; the last one notifies the screen,   *)
(* and whoever asked for the batch goes on.                                *)
StoreWrite(answers) ==
  /\ writes # <<>>
  /\ LET w == Head(writes) IN
     /\ Put(Key[w.next], w.value, answers)
     /\ IF w.next < 3
        THEN /\ writes' = [writes EXCEPT ![1].next = @ + 1]
             /\ UNCHANGED <<user, loading, refresh, call, token>>
        ELSE /\ writes' = Tail(writes)
             /\ user' = IF w.by = "refresh" THEN Owner(cache["user"]) ELSE Owner(w.value)
             /\ loading' = (loading /\ cache["access"] # None)
             /\ IF w.by = "refresh"
                THEN refresh' = "no" /\ Resume(refresh = "storing")
                ELSE UNCHANGED <<refresh, call, token>>
  /\ UNCHANGED <<cache, old, hydrate, trying, issued, restarts, intent, crossed, torn, meLate>>

(* The process dies and is started again: what is on disk is left.         *)
Restart ==
  /\ restarts < MaxRestarts /\ restarts' = restarts + 1
  /\ ring' = disk
  /\ torn' = (torn \/ writes # <<>> \/ disk # ring)
  /\ cache' = Same(None) /\ writes' = <<>> /\ hydrate' = "load"
  /\ user' = None /\ loading' = TRUE
  /\ call' = [c \in Call |-> "idle"] /\ token' = [c \in Call |-> None]
  /\ trying' = None /\ refresh' = "no" /\ old' = None /\ meLate' = FALSE
  /\ UNCHANGED <<disk, local, issued, intent, crossed, flaky>>

Answer(c) == Refused(c) \/ \E ok, network \in BOOLEAN : Answered(c, ok, network)

Renew == RefreshAnswered \/ RefreshLost

Store == \E answers \in BOOLEAN : StoreWrite(answers)

Hydrate == \E answers \in BOOLEAN : Load(answers)

Next == \/ Hydrate \/ Renew \/ Store \/ Flush \/ Restart \/ Logout
        \/ \E r \in Req : Send(r)
        \/ \E u \in User : SubmitLogin(u)
        \/ \E c \in Call : Answer(c)

(* Requests and native calls are answered or fail in the end.              *)
Fairness == /\ WF_vars(Hydrate) /\ WF_vars(Renew) /\ WF_vars(Store)
            /\ \A c \in Call : WF_vars(Answer(c))

Spec == Init /\ [][Next]_vars /\ Fairness

-----------------------------------------------------------------------------
Damaged == torn \/ flaky

(* The session in use belongs to whoever last decided to be signed in, and *)
(* after signing out there is none.  A refresh in flight when the user     *)
(* signs out or in is the exception: its answer is stored all the same.    *)
(* So is a store damaged by a restart between two writes, or by a keyring  *)
(* that failed while it held an older copy; and a restart before a         *)
(* sign-out is on disk, which finds the session again.                     *)
SessionFollowsUser ==
  ~crossed /\ ~Damaged => \A k \in Keys : cache[k] # None => cache[k].user = intent

(* When nothing is in flight the screen shows the user of the session that *)
(* requests are sent with: the notifications and the continuations of      *)
(* overlapping batches end with the last one.  Except when /me failed for  *)
(* a reason other than the network, or was answered for another session.   *)
Quiet == hydrate = "done" /\ writes = <<>> /\ \A c \in Call : call[c] = "idle"

ScreenFollowsSession == Quiet /\ ~meLate /\ ~Damaged => user = Owner(cache["access"])

(* Once the writes are done the store holds the session in memory, whole:  *)
(* no batch overtakes another, and deletions reach both copies.  A kill    *)
(* leaves it, too, whenever somebody is signed in; a sign-out it leaves    *)
(* once the deletions are on disk, and not before.                         *)
LeftByKill(k) == IF disk[k] # None THEN disk[k] ELSE local[k]

StoreFollowsCache ==
  hydrate # "load" /\ writes = <<>> /\ ~Damaged =>
    \A k \in Keys :
      /\ Stored(k, TRUE) = cache["access"] /\ cache[k] = cache["access"]
      /\ cache["access"] # None \/ disk = ring => LeftByKill(k) = cache["access"]

(* Every call ends, also the ones that wait for a refresh that fails.      *)
CallsEnd == \A r \in Req : call[r] # "idle" ~> call[r] = "idle"
=============================================================================
