--------------------------- MODULE Session_proofs ---------------------------
(***************************************************************************)
(* The session for any users, any number of requests and of sessions the   *)
(* server issues.  The invariant says what the writes under way make of    *)
(* the store: the batch at the head has written its first keys, the one at *)
(* the end is what memory holds, and when there is none the two agree.     *)
(***************************************************************************)
EXTENDS Session, SequenceTheorems, TLAPS

Batch == [value : MaybeSession, next : 1 .. 3, by : {"login", "logout", "refresh"}]

CopiesTyped == /\ ring \in [Keys -> MaybeSession] /\ local \in [Keys -> MaybeSession]
               /\ cache \in [Keys -> MaybeSession] /\ disk \in [Keys -> MaybeSession]

UsersTyped == /\ user \in MaybeUser /\ trying \in MaybeUser /\ intent \in MaybeUser
              /\ hydrate \in {"load", "me", "done"}

CallsTyped == /\ call \in [Call -> {"idle", "sent", "refused", "again", "failed"}]
              /\ token \in [Call -> MaybeSession]
              /\ refresh \in {"no", "asking", "storing", "clearing"} /\ old \in MaybeSession

CountsTyped == issued \in 0 .. MaxIssued /\ restarts \in 0 .. MaxRestarts

FlagsTyped == {loading, crossed, torn, flaky, meLate} \subseteq BOOLEAN

(* A login that is under way is somebody's, and so is a refresh.           *)
Known == /\ call["login"] # "idle" => trying \in User
         /\ refresh = "asking" => old \in Session

Typed == /\ CopiesTyped /\ writes \in Seq(Batch) /\ UsersTyped /\ CallsTyped /\ CountsTyped
         /\ FlagsTyped /\ Known

(* Until the store is read nothing is under way, and /me is asked by the   *)
(* hydration alone.                                                        *)
Hydration ==
  /\ hydrate = "load" => /\ writes = <<>> /\ loading /\ refresh = "no"
                         /\ \A c \in Call : call[c] = "idle"
  /\ call["me"] # "idle" => hydrate = "me"

(* What a restart would read.                                              *)
Held(k) == IF ring[k] # None THEN ring[k] ELSE local[k]

StoreWhole == hydrate = "load" /\ ~Damaged => \A k \in Keys : Held(k) = Held("access")

CacheWhole == hydrate # "load" /\ ~Damaged => \A k \in Keys : cache[k] = cache["access"]

WritesLead ==
  hydrate # "load" /\ ~Damaged /\ writes # <<>> =>
    /\ writes[Len(writes)].value = cache["access"]
    /\ \A i \in 1 .. 3 : i < writes[1].next => Held(Key[i]) = writes[1].value
    /\ \A i \in 2 .. Len(writes) : writes[i].next = 1

Written ==
  hydrate # "load" /\ ~Damaged /\ writes = <<>> => \A k \in Keys : Held(k) = cache["access"]

(* What a kill leaves: the keyring's copy whenever it has one, and no      *)
(* other than localStorage's when only that has one.                       *)
DiskLeads ==
  ~Damaged =>
    \A k \in Keys :
      /\ ring[k] # None => disk[k] = ring[k]
      /\ ring[k] = None /\ local[k] # None => disk[k] \in {None, local[k]}

StoreInv == StoreWhole /\ CacheWhole /\ WritesLead /\ Written

(* Whose the sessions are: in memory, in the store that is about to be     *)
(* read, and being renewed.                                                *)
Owned ==
  ~crossed /\ ~Damaged =>
    /\ \A k \in Keys : cache[k] # None => cache[k].user = intent
    /\ hydrate = "load" => \A k \in Keys : Held(k) # None => Held(k).user = intent
    /\ refresh = "asking" => old.user = intent

Screen ==
  hydrate # "load" /\ ~Damaged /\ ~meLate /\ writes = <<>> => user = Owner(cache["access"])

IInv == Typed /\ Hydration /\ StoreInv /\ DiskLeads /\ Owned /\ Screen

-----------------------------------------------------------------------------
(* The three keys.                                                         *)
LEMMA KeyFacts ==
  /\ Keys = {"access", "refresh", "user"}
  /\ \A i, j \in 1 .. 3 : Key[i] \in Keys /\ (Key[i] = Key[j] => i = j)
  /\ \A k \in Keys : \E i \in 1 .. 3 : k = Key[i]
<1>1. 1 .. 3 = {1, 2, 3}
  OBVIOUS
<1>2. Key[1] = "access" /\ Key[2] = "refresh" /\ Key[3] = "user"
  BY DEF Key
<1>3. Keys = {"access", "refresh", "user"}
  BY <1>1, <1>2 DEF Keys
<1> QED
  BY <1>1, <1>2, <1>3

LEMMA OwnerTyped == ASSUME NEW s \in MaybeSession PROVE Owner(s) \in MaybeUser
BY DEF MaybeSession, MaybeUser, Session, Owner

LEMMA SameTyped == ASSUME NEW s \in MaybeSession PROVE Same(s) \in [Keys -> MaybeSession]
BY DEF Same

(* A batch joins those under way.                                          *)
LEMMA Queued ==
  ASSUME writes \in Seq(Batch), NEW b \in Batch
  PROVE  LET ws == Append(writes, b) IN
         /\ ws \in Seq(Batch) /\ ws # <<>> /\ ws[Len(ws)] = b
         /\ Len(ws) = Len(writes) + 1
         /\ ws[1] = IF writes = <<>> THEN b ELSE writes[1]
         /\ \A i \in 1 .. Len(writes) : ws[i] = writes[i]
OBVIOUS

(* The batch at the head goes on to its next key.                          *)
LEMMA Advanced ==
  ASSUME writes \in Seq(Batch), writes # <<>>, Head(writes).next < 3
  PROVE  LET ws == [writes EXCEPT ![1].next = @ + 1] IN
         /\ ws \in Seq(Batch) /\ ws # <<>> /\ Len(ws) = Len(writes)
         /\ ws[1].value = writes[1].value /\ ws[1].next = writes[1].next + 1
         /\ \A i \in 2 .. Len(writes) : ws[i] = writes[i]
         /\ ws[Len(ws)].value = writes[Len(writes)].value
<1> DEFINE ws == [writes EXCEPT ![1].next = @ + 1]
           b == [writes[1] EXCEPT !.next = @ + 1]
<1>1. writes[1] \in Batch /\ Len(writes) \in Nat \ {0} /\ Head(writes) = writes[1]
  OBVIOUS
<1>2. b \in Batch /\ b.value = writes[1].value /\ b.next = writes[1].next + 1
  BY <1>1 DEF Batch
<1>3. ws = [writes EXCEPT ![1] = b]
  OBVIOUS
<1> HIDE DEF b, ws
<1>4. /\ ws \in Seq(Batch) /\ Len(ws) = Len(writes) /\ ws[1] = b
      /\ \A i \in 2 .. Len(writes) : ws[i] = writes[i]
  BY <1>1, <1>2, <1>3
<1>5. ws[Len(ws)].value = writes[Len(writes)].value
  <2>1. CASE Len(writes) = 1
    BY <2>1, <1>2, <1>4
  <2>2. CASE Len(writes) # 1
    BY <2>2, <1>1, <1>4
  <2> QED
    BY <2>1, <2>2
<1> QED
  BY <1>1, <1>2, <1>4, <1>5 DEF ws

(* A batch that is done leaves the others in their order.                  *)
LEMMA Dequeued ==
  ASSUME writes \in Seq(Batch), writes # <<>>
  PROVE  /\ Tail(writes) \in Seq(Batch) /\ Len(Tail(writes)) = Len(writes) - 1
         /\ \A i \in 1 .. Len(writes) - 1 : Tail(writes)[i] = writes[i + 1]
         /\ Tail(writes) = <<>> <=> Len(writes) = 1
         /\ Tail(writes) # <<>> => Tail(writes)[Len(Tail(writes))] = writes[Len(writes)]
<1> DEFINE rest == Tail(writes)
<1>1. /\ rest \in Seq(Batch) /\ Len(rest) = Len(writes) - 1
      /\ \A i \in 1 .. Len(writes) - 1 : rest[i] = writes[i + 1]
      /\ Len(writes) \in Nat \ {0}
  OBVIOUS
<1> HIDE DEF rest
<1>2. rest = <<>> <=> Len(writes) = 1
  BY <1>1, EmptySeq
<1>3. ASSUME Len(writes) # 1 PROVE rest[Len(rest)] = writes[Len(writes)]
  BY <1>1, <1>3
<1> QED
  BY <1>1, <1>2, <1>3 DEF rest

(* What setAuthSession and clearAuthSession leave behind.                  *)
LEMMA SessionSet ==
  ASSUME Typed, NEW s \in MaybeSession, NEW by \in {"login", "logout", "refresh"},
         SetSession(s, by)
  PROVE  /\ cache' \in [Keys -> MaybeSession] /\ \A k \in Keys : cache'[k] = s
         /\ writes' \in Seq(Batch) /\ writes' # <<>> /\ writes'[Len(writes')].value = s
         /\ Len(writes') = Len(writes) + 1
         /\ writes # <<>> => writes'[1] = writes[1]
         /\ writes = <<>> => writes'[1].next = 1
         /\ \A i \in 1 .. Len(writes) : writes'[i] = writes[i]
         /\ writes'[Len(writes) + 1].next = 1
<1> DEFINE b == [value |-> s, next |-> 1, by |-> by]
<1>1. b \in Batch /\ b.value = s /\ b.next = 1
  BY DEF Batch
<1>2. writes' = Append(writes, b) /\ cache' = Same(s)
  BY DEF SetSession
<1>3. cache' \in [Keys -> MaybeSession] /\ \A k \in Keys : cache'[k] = s
  BY <1>2, SameTyped DEF Same
<1>4. writes \in Seq(Batch)
  BY DEF Typed
<1> HIDE DEF b
<1> QED
  BY <1>1, <1>2, <1>3, <1>4, Queued

LEMMA InitTyped == Init => Typed
<1> SUFFICES ASSUME Init PROVE Typed
  OBVIOUS
<1>1. PICK s \in {None} \cup {t \in Session : t.n = 1} :
        /\ \/ ring = Same(s) /\ local = Same(None)
           \/ ring = Same(None) /\ local = Same(s)
        /\ intent = Owner(s)
        /\ issued = IF s = None THEN 0 ELSE 1
  BY DEF Init
<1>2. s \in MaybeSession /\ None \in MaybeSession
  BY DEF MaybeSession
<1>3. CopiesTyped
  BY <1>1, <1>2, SameTyped DEF Init, CopiesTyped
<1>4. UsersTyped
  BY <1>1, <1>2, OwnerTyped DEF Init, UsersTyped, MaybeUser
<1>5. CallsTyped
  BY <1>2 DEF Init, CallsTyped
<1>6. CountsTyped
  BY <1>1, SessionAssumption DEF Init, CountsTyped, Session
<1>7. FlagsTyped
  BY DEF Init, FlagsTyped
<1>8. writes \in Seq(Batch)
  BY EmptySeq DEF Init
<1>9. Known
  BY DEF Init, Known, Call
<1> QED
  BY <1>3, <1>4, <1>5, <1>6, <1>7, <1>8, <1>9 DEF Typed

LEMMA LoadTyped == ASSUME Typed, NEW answers \in BOOLEAN, Load(answers) PROVE Typed'
<1> USE DEF Typed
<1>1. \A k \in Keys : Stored(k, answers) \in MaybeSession
  BY DEF CopiesTyped, Stored
<1>2. CopiesTyped'
  BY <1>1 DEF Load, CopiesTyped
<1>3. "access" \in Keys /\ "user" \in Keys
  BY KeyFacts
<1>4. UsersTyped'
  BY <1>1, <1>3, OwnerTyped DEF Load, UsersTyped, MaybeUser
<1>5. CallsTyped'
  BY <1>1, <1>3 DEF Load, CallsTyped
<1>6. PICK f \in BOOLEAN : f = (~answers /\ ring # Same(None))
  OBVIOUS
<1>7. FlagsTyped'
  BY <1>6 DEF Load, FlagsTyped
<1>8. CountsTyped' /\ Known' /\ writes' \in Seq(Batch)
  BY DEF Load, CountsTyped, Known, Call, CallsTyped
<1> QED
  BY <1>2, <1>4, <1>5, <1>7, <1>8

LEMMA SendTyped == ASSUME Typed, NEW r \in Req, Send(r) PROVE Typed'
<1> USE DEF Typed
<1>1. cache["access"] \in MaybeSession
  BY KeyFacts DEF CopiesTyped
<1>2. CallsTyped'
  BY <1>1 DEF Send, CallsTyped
<1>3. CopiesTyped' /\ UsersTyped' /\ CountsTyped' /\ FlagsTyped' /\ writes' \in Seq(Batch)
  BY DEF Send, CopiesTyped, UsersTyped, CountsTyped, FlagsTyped
<1>4. Known'
  BY SessionAssumption DEF Send, Known, CallsTyped
<1> QED
  BY <1>2, <1>3, <1>4

LEMMA SubmitTyped == ASSUME Typed, NEW u \in User, SubmitLogin(u) PROVE Typed'
<1> USE DEF Typed
<1>1. cache["access"] \in MaybeSession
  BY KeyFacts DEF CopiesTyped
<1>2. CallsTyped'
  BY <1>1 DEF SubmitLogin, CallsTyped
<1>3. CopiesTyped' /\ UsersTyped' /\ CountsTyped' /\ FlagsTyped' /\ writes' \in Seq(Batch)
  BY DEF SubmitLogin, CopiesTyped, UsersTyped, CountsTyped, FlagsTyped, MaybeUser
<1> QED
  BY <1>2, <1>3 DEF SubmitLogin, Known

LEMMA LogoutTyped == ASSUME Typed, Logout PROVE Typed'
<1> USE DEF Typed
<1>1. None \in MaybeSession /\ None \in MaybeUser
  BY DEF MaybeSession, MaybeUser
<1>2. cache' \in [Keys -> MaybeSession] /\ writes' \in Seq(Batch)
  BY <1>1, SessionSet DEF Logout
<1>3. CopiesTyped' /\ UsersTyped' /\ CallsTyped' /\ CountsTyped' /\ Known'
  BY <1>1, <1>2 DEF Logout, CopiesTyped, UsersTyped, CallsTyped, CountsTyped, Known
<1>4. FlagsTyped'
  BY DEF Logout, FlagsTyped
<1> QED
  BY <1>2, <1>3, <1>4

(* The session that a login gets is that of whom it was for.               *)
LEMMA AnsweredTyped ==
  ASSUME Typed, NEW c \in Call, NEW ok \in BOOLEAN, NEW network \in BOOLEAN,
         Answered(c, ok, network)
  PROVE  Typed'
<1> USE DEF Typed
<1>1. /\ call' = [call EXCEPT ![c] = "idle"] /\ token' = [token EXCEPT ![c] = None]
      /\ UNCHANGED <<ring, disk, local, refresh, old, restarts, torn, flaky>>
      /\ call[c] # "idle" /\ Settle(c, ok, network)
  BY DEF Answered
<1>2. CallsTyped'
  BY <1>1 DEF CallsTyped, MaybeSession
<1>3. token[c] \in MaybeSession /\ Owner(token[c]) \in MaybeUser /\ None \in MaybeUser
  BY OwnerTyped DEF CallsTyped, MaybeUser
<1>4. CASE c \in Req /\ UNCHANGED <<cache, writes, hydrate, user, loading, trying, issued,
                                   intent, crossed, meLate>>
  <2>1. CopiesTyped' /\ UsersTyped' /\ CountsTyped' /\ FlagsTyped' /\ writes' \in Seq(Batch)
    BY <1>1, <1>4 DEF CopiesTyped, UsersTyped, CountsTyped, FlagsTyped
  <2> QED
    BY <1>1, <1>2, <1>4, <2>1 DEF Known, CallsTyped
<1>5. CASE /\ c = "me" /\ hydrate' = "done" /\ loading' = FALSE
           /\ user' = IF ok THEN Owner(token[c]) ELSE IF network THEN user ELSE None
           /\ meLate' = \/ meLate
                        \/ ok /\ Owner(token[c]) # Owner(cache["user"])
                        \/ ~ok /\ ~network /\ cache["access"] # None
           /\ UNCHANGED <<cache, writes, trying, issued, intent, crossed>>
  <2>1. CopiesTyped' /\ UsersTyped' /\ CountsTyped' /\ writes' \in Seq(Batch)
    BY <1>1, <1>3, <1>5 DEF CopiesTyped, UsersTyped, CountsTyped
  <2>2. meLate' \in BOOLEAN
    BY <1>5
  <2>3. FlagsTyped'
    BY <1>1, <1>5, <2>2 DEF FlagsTyped
  <2> QED
    BY <1>1, <1>2, <1>5, <2>1, <2>3 DEF Known, CallsTyped
<1>6. CASE /\ c = "login" /\ ok
           /\ issued < MaxIssued /\ issued' = issued + 1
           /\ SetSession([user |-> trying, n |-> issued + 1], "login")
           /\ intent' = trying /\ trying' = None
           /\ crossed' = (crossed \/ refresh = "asking")
           /\ UNCHANGED <<hydrate, user, loading, meLate>>
  <2>1. trying \in User
    BY <1>1, <1>6 DEF Known
  <2>2. issued + 1 \in 1 .. MaxIssued
    BY <1>6, SessionAssumption DEF CountsTyped
  <2>3. [user |-> trying, n |-> issued + 1] \in MaybeSession
    BY <2>1, <2>2 DEF Session, MaybeSession
  <2>4. cache' \in [Keys -> MaybeSession] /\ writes' \in Seq(Batch)
    BY <1>6, <2>3, SessionSet
  <2>5. CopiesTyped' /\ UsersTyped' /\ CountsTyped'
    BY <1>1, <1>3, <1>6, <2>1, <2>2, <2>4, SessionAssumption
       DEF CopiesTyped, UsersTyped, CountsTyped, MaybeUser
  <2>6. FlagsTyped'
    BY <1>1, <1>6 DEF FlagsTyped
  <2> QED
    BY <1>1, <1>2, <1>6, <2>4, <2>5, <2>6 DEF Known, CallsTyped
<1>7. CASE /\ c = "login" /\ ~ok /\ trying' = None
           /\ UNCHANGED <<cache, writes, hydrate, user, loading, issued, intent, crossed, meLate>>
  <2>1. CopiesTyped' /\ UsersTyped' /\ CountsTyped' /\ FlagsTyped' /\ writes' \in Seq(Batch)
    BY <1>1, <1>3, <1>7 DEF CopiesTyped, UsersTyped, CountsTyped, FlagsTyped
  <2> QED
    BY <1>1, <1>2, <1>7, <2>1 DEF Known, CallsTyped
<1> QED
  BY <1>1, <1>4, <1>5, <1>6, <1>7 DEF Settle

LEMMA RefusedTyped == ASSUME Typed, NEW c \in Call, Refused(c) PROVE Typed'
<1> USE DEF Typed
<1>1. /\ call' = [call EXCEPT ![c] = "refused"] /\ call[c] = "sent"
      /\ UNCHANGED <<ring, disk, local, hydrate, user, loading, token, trying, issued, restarts, intent,
                     crossed, torn, flaky, meLate>>
  BY DEF Refused
<1>2. cache["refresh"] \in MaybeSession /\ None \in MaybeSession
  BY KeyFacts DEF CopiesTyped, MaybeSession
<1>3. UsersTyped' /\ CountsTyped' /\ FlagsTyped'
  BY <1>1 DEF UsersTyped, CountsTyped, FlagsTyped
<1>4. cache' \in [Keys -> MaybeSession] /\ writes' \in Seq(Batch)
  <2>1. CASE UNCHANGED <<cache, writes>>
    BY <2>1 DEF CopiesTyped
  <2>2. CASE SetSession(None, "refresh")
    BY <1>2, <2>2, SessionSet
  <2> QED
    BY <2>1, <2>2 DEF Refused
<1>5. CallsTyped'
  BY <1>1, <1>2 DEF Refused, CallsTyped
<1>6. Known'
  BY <1>1, <1>2 DEF Refused, CallsTyped, Known, MaybeSession
<1> QED
  BY <1>1, <1>3, <1>4, <1>5, <1>6 DEF CopiesTyped

LEMMA RefreshAnsweredTyped == ASSUME Typed, RefreshAnswered PROVE Typed'
<1> USE DEF Typed
<1>1. /\ refresh = "asking" /\ old' = None
      /\ UNCHANGED <<ring, disk, local, hydrate, user, loading, call, token, trying, restarts, intent,
                     crossed, torn, flaky, meLate>>
  BY DEF RefreshAnswered
<1>2. old.user \in User
  BY <1>1 DEF Known, Session
<1>3. issued' \in 0 .. MaxIssued /\ refresh' \in {"storing", "clearing"}
  BY SessionAssumption DEF RefreshAnswered, CountsTyped
<1>4. cache' \in [Keys -> MaybeSession] /\ writes' \in Seq(Batch)
  <2>1. CASE /\ issued < MaxIssued
             /\ SetSession([user |-> old.user, n |-> issued + 1], "refresh")
    <3>1. issued + 1 \in 1 .. MaxIssued
      BY <2>1, SessionAssumption DEF CountsTyped
    <3>2. [user |-> old.user, n |-> issued + 1] \in MaybeSession
      BY <1>2, <3>1 DEF Session, MaybeSession
    <3> QED
      BY <2>1, <3>2, SessionSet
  <2>2. CASE SetSession(None, "refresh")
    BY <2>2, SessionSet DEF MaybeSession
  <2> QED
    BY <2>1, <2>2 DEF RefreshAnswered
<1>5. CopiesTyped' /\ UsersTyped' /\ CallsTyped' /\ CountsTyped' /\ FlagsTyped'
  BY <1>1, <1>3, <1>4 DEF CopiesTyped, UsersTyped, CallsTyped, CountsTyped, FlagsTyped, MaybeSession
<1> QED
  BY <1>1, <1>3, <1>4, <1>5 DEF Known

(* Those who waited go on with a session, or with none.                    *)
LEMMA ResumeTyped ==
  ASSUME Typed, NEW renewed \in BOOLEAN, Resume(renewed)
  PROVE  /\ call' \in [Call -> {"idle", "sent", "refused", "again", "failed"}]
         /\ token' \in [Call -> MaybeSession]
         /\ \A c \in Call : call[c] = "idle" <=> call'[c] = "idle"
<1>1. cache["access"] \in MaybeSession
  BY KeyFacts DEF Typed, CopiesTyped
<1> QED
  BY <1>1 DEF Resume, Typed, CallsTyped

LEMMA RefreshLostTyped == ASSUME Typed, RefreshLost PROVE Typed'
<1> USE DEF Typed
<1>1. Resume(FALSE)
  BY DEF RefreshLost
<1>2. "login" \in Call
  BY DEF Call
<1>3. CallsTyped'
  BY <1>1, ResumeTyped DEF RefreshLost, CallsTyped, MaybeSession
<1>4. Known'
  BY <1>1, <1>2, ResumeTyped DEF RefreshLost, Known
<1>5. CopiesTyped' /\ UsersTyped' /\ CountsTyped' /\ FlagsTyped' /\ writes' \in Seq(Batch)
  BY DEF RefreshLost, CopiesTyped, UsersTyped, CountsTyped, FlagsTyped
<1> QED
  BY <1>3, <1>4, <1>5

LEMMA PutTyped ==
  ASSUME Typed, NEW k \in Keys, NEW v \in MaybeSession, NEW answers \in BOOLEAN,
         Put(k, v, answers)
  PROVE  /\ ring' \in [Keys -> MaybeSession] /\ local' \in [Keys -> MaybeSession]
         /\ disk' \in [Keys -> MaybeSession] /\ flaky' \in BOOLEAN
<1>1. flaky' \in BOOLEAN
  BY DEF Put, Typed, FlagsTyped
<1> QED
  BY <1>1 DEF Put, Typed, CopiesTyped

LEMMA StoreWriteTyped == ASSUME Typed, NEW answers \in BOOLEAN, StoreWrite(answers) PROVE Typed'
<1> USE DEF Typed
<1>1. /\ writes # <<>> /\ Put(Key[Head(writes).next], Head(writes).value, answers)
      /\ UNCHANGED <<cache, old, hydrate, trying, issued, restarts, intent, crossed, torn, meLate>>
  BY DEF StoreWrite
<1>2. Head(writes) = writes[1] /\ writes[1] \in Batch
  BY <1>1
<1>3. Head(writes).value \in MaybeSession /\ Head(writes).next \in 1 .. 3
  BY <1>2 DEF Batch
<1>4. Key[Head(writes).next] \in Keys
  BY <1>3, KeyFacts
<1>5. CopiesTyped' /\ flaky' \in BOOLEAN
  BY <1>1, <1>3, <1>4, PutTyped DEF CopiesTyped
<1>6. CASE /\ Head(writes).next < 3 /\ writes' = [writes EXCEPT ![1].next = @ + 1]
           /\ UNCHANGED <<user, loading, refresh, call, token>>
  <2>1. writes' \in Seq(Batch)
    BY <1>1, <1>6, Advanced
  <2>2. UsersTyped' /\ CallsTyped' /\ CountsTyped' /\ FlagsTyped' /\ Known'
    BY <1>1, <1>5, <1>6 DEF UsersTyped, CallsTyped, CountsTyped, FlagsTyped, Known
  <2> QED
    BY <1>5, <2>1, <2>2
<1>7. CASE /\ writes' = Tail(writes)
           /\ user' = IF Head(writes).by = "refresh" THEN Owner(cache["user"])
                      ELSE Owner(Head(writes).value)
           /\ loading' = (loading /\ cache["access"] # None)
           /\ IF Head(writes).by = "refresh"
              THEN refresh' = "no" /\ Resume(refresh = "storing")
              ELSE UNCHANGED <<refresh, call, token>>
  <2>1. writes' \in Seq(Batch)
    BY <1>1, <1>7, Dequeued
  <2>2. Owner(cache["user"]) \in MaybeUser /\ Owner(Head(writes).value) \in MaybeUser
    BY <1>3, KeyFacts, OwnerTyped DEF CopiesTyped
  <2>3. UsersTyped' /\ CountsTyped'
    BY <1>1, <1>7, <2>2 DEF UsersTyped, CountsTyped
  <2>4. PICK l \in BOOLEAN : l = (loading /\ cache["access"] # None)
    OBVIOUS
  <2>5. FlagsTyped'
    BY <1>1, <1>5, <1>7, <2>4 DEF FlagsTyped
  <2>6. CASE Head(writes).by = "refresh"
    <3>1. PICK b \in BOOLEAN : b = (refresh = "storing")
      OBVIOUS
    <3>2. refresh' = "no" /\ Resume(b)
      BY <1>7, <2>6, <3>1
    <3>3. "login" \in Call
      BY DEF Call
    <3>4. CallsTyped' /\ Known'
      BY <1>1, <3>2, <3>3, ResumeTyped DEF CallsTyped, Known
    <3> QED
      BY <1>5, <2>1, <2>3, <2>5, <3>4
  <2>7. CASE Head(writes).by # "refresh"
    <3>1. CallsTyped' /\ Known'
      BY <1>1, <1>7, <2>7 DEF CallsTyped, Known
    <3> QED
      BY <1>5, <2>1, <2>3, <2>5, <3>1
  <2> QED
    BY <2>6, <2>7
<1> QED
  BY <1>6, <1>7 DEF StoreWrite

LEMMA RestartTyped == ASSUME Typed, Restart PROVE Typed'
<1> USE DEF Typed
<1>1. None \in MaybeSession /\ None \in MaybeUser
  BY DEF MaybeSession, MaybeUser
<1>2. CopiesTyped' /\ writes' \in Seq(Batch)
  BY <1>1, SameTyped DEF Restart, CopiesTyped
<1>3. UsersTyped' /\ CallsTyped'
  BY <1>1 DEF Restart, UsersTyped, CallsTyped
<1>4. CountsTyped'
  BY SessionAssumption DEF Restart, CountsTyped
<1>5. FlagsTyped'
  BY DEF Restart, FlagsTyped
<1>6. Known'
  BY DEF Restart, Known, Call
<1> QED
  BY <1>2, <1>3, <1>4, <1>5, <1>6

LEMMA FlushTyped == ASSUME Typed, Flush PROVE Typed'
BY DEF Flush, Typed, CopiesTyped, UsersTyped, CallsTyped, CountsTyped, FlagsTyped, Known

LEMMA NextTyped == Typed /\ [Next]_vars => Typed'
<1> SUFFICES ASSUME Typed, [Next]_vars PROVE Typed'
  OBVIOUS
<1>1. CASE UNCHANGED vars
  BY <1>1 DEF vars, Typed, CopiesTyped, UsersTyped, CallsTyped, CountsTyped, FlagsTyped, Known
<1>2. CASE Next
  BY <1>2, LoadTyped, RefreshAnsweredTyped, RefreshLostTyped, StoreWriteTyped, FlushTyped, RestartTyped,
     LogoutTyped, SendTyped, SubmitTyped, AnsweredTyped, RefusedTyped
     DEF Next, Hydrate, Renew, Store, Answer
<1> QED
  BY <1>1, <1>2

-----------------------------------------------------------------------------
(* The hydration.                                                          *)

LEMMA NextHydration == Typed /\ Hydration /\ [Next]_vars => Hydration'
<1> SUFFICES ASSUME Typed, Hydration, [Next]_vars PROVE Hydration'
  OBVIOUS
<1> USE DEF Hydration
<1>0. call \in [Call -> {"idle", "sent", "refused", "again", "failed"}] /\ "me" \in Call
  BY DEF Typed, CallsTyped, Call
<1>1. ASSUME NEW answers \in BOOLEAN, Load(answers) PROVE Hydration'
  BY <1>0, <1>1 DEF Load
<1>2. ASSUME NEW r \in Req, Send(r) PROVE Hydration'
  BY <1>0, <1>2, SessionAssumption DEF Send
<1>3. ASSUME NEW u \in User, SubmitLogin(u) PROVE Hydration'
  BY <1>0, <1>3 DEF SubmitLogin
<1>4. CASE Logout
  BY <1>4 DEF Logout
<1>5. ASSUME NEW c \in Call, NEW ok \in BOOLEAN, NEW network \in BOOLEAN,
             Answered(c, ok, network)
      PROVE  Hydration'
  <2>1. hydrate # "load" /\ hydrate' # "load"
    BY <1>5 DEF Answered, Settle
  <2>2. call' = [call EXCEPT ![c] = "idle"] /\ (c # "me" => hydrate' = hydrate)
    BY <1>5 DEF Answered, Settle
  <2> QED
    BY <1>0, <2>1, <2>2
<1>6. ASSUME NEW c \in Call, Refused(c) PROVE Hydration'
  BY <1>0, <1>6 DEF Refused
<1>7. CASE RefreshAnswered
  BY <1>7 DEF RefreshAnswered
<1>8. CASE RefreshLost
  BY <1>0, <1>8, ResumeTyped DEF RefreshLost
<1>9. ASSUME NEW answers \in BOOLEAN, StoreWrite(answers) PROVE Hydration'
  <2>1. hydrate # "load" /\ hydrate' = hydrate
    BY <1>9 DEF StoreWrite
  <2>2. call' = call \/ \E b \in BOOLEAN : Resume(b)
    BY <1>9 DEF StoreWrite
  <2> QED
    BY <1>0, <2>1, <2>2, ResumeTyped
<1>10. CASE Restart
  BY <1>0, <1>10 DEF Restart
<1>11. CASE UNCHANGED vars \/ Flush
  BY <1>11 DEF vars, Flush
<1> QED
  BY <1>1, <1>2, <1>3, <1>4, <1>5, <1>6, <1>7, <1>8, <1>9, <1>10, <1>11
     DEF Next, Hydrate, Renew, Store, Answer

-----------------------------------------------------------------------------
(* The store and the copy in memory.                                       *)

StoreUntouched == /\ UNCHANGED <<ring, local, torn, flaky>>
                  /\ hydrate' = "load" <=> hydrate = "load"

LEMMA StoreStays ==
  ASSUME StoreInv, StoreUntouched, UNCHANGED <<cache, writes>> PROVE StoreInv'
BY DEF StoreInv, StoreUntouched, StoreWhole, CacheWhole, WritesLead, Written, Held, Damaged

(* A batch asked for is the last one, and what memory holds.               *)
LEMMA StoreAfterSet ==
  ASSUME Typed, StoreInv, hydrate # "load", StoreUntouched,
         NEW s \in MaybeSession, NEW by \in {"login", "logout", "refresh"}, SetSession(s, by)
  PROVE  StoreInv'
<1> USE DEF StoreUntouched, Damaged
<1>1. writes \in Seq(Batch) /\ Len(writes) \in Nat
  BY DEF Typed
<1>2. cache'["access"] = s /\ \A k \in Keys : cache'[k] = s
  BY SessionSet, KeyFacts
<1>3. StoreWhole' /\ CacheWhole' /\ Written'
  BY <1>2, SessionSet DEF StoreWhole, CacheWhole, Written
<1>4. WritesLead'
  <2>1. writes'[Len(writes')].value = cache'["access"]
    BY <1>2, SessionSet
  <2>2. ~Damaged => \A i \in 1 .. 3 : i < writes'[1].next => Held(Key[i])' = writes'[1].value
    <3>1. CASE writes = <<>>
      BY <3>1, SessionSet
    <3>2. CASE writes # <<>>
      <4>1. writes'[1] = writes[1]
        BY <3>2, SessionSet
      <4> QED
        BY <3>2, <4>1 DEF StoreInv, WritesLead, Held
    <3> QED
      BY <3>1, <3>2
  <2>3. ~Damaged => \A i \in 2 .. Len(writes') : writes'[i].next = 1
    <3> SUFFICES ASSUME ~Damaged, NEW i \in 2 .. Len(writes') PROVE writes'[i].next = 1
      OBVIOUS
    <3>1. i \in 2 .. Len(writes) \/ i = Len(writes) + 1
      BY <1>1, SessionSet
    <3>2. CASE i = Len(writes) + 1
      BY <3>2, SessionSet
    <3>3. CASE i \in 2 .. Len(writes)
      <4>1. writes # <<>> /\ writes'[i] = writes[i]
        BY <1>1, <3>3, SessionSet
      <4> QED
        BY <3>3, <4>1 DEF StoreInv, WritesLead
    <3> QED
      BY <3>1, <3>2, <3>3
  <2> QED
    BY <2>1, <2>2, <2>3 DEF WritesLead
<1> QED
  BY <1>3, <1>4 DEF StoreInv

(* A read that the keyring did not answer is as good as one it did when    *)
(* there is nothing in it.                                                 *)
LEMMA ReadIsHeld ==
  ASSUME Typed, NEW answers \in BOOLEAN, Load(answers), ~Damaged', NEW k \in Keys
  PROVE  cache'[k] = Held(k) /\ cache'[k] = Stored(k, answers)
<1>1. cache'[k] = Stored(k, answers)
  BY DEF Load
<1>2. answers \/ ring = Same(None)
  BY DEF Load, Damaged
<1>3. ring = Same(None) => ring[k] = None
  BY DEF Same
<1> QED
  BY <1>1, <1>2, <1>3 DEF Stored, Held

LEMMA LoadStore ==
  ASSUME Typed, Hydration, StoreInv, NEW answers \in BOOLEAN, Load(answers) PROVE StoreInv'
<1>1. /\ UNCHANGED <<ring, disk, local, writes, torn>> /\ hydrate = "load" /\ hydrate' # "load"
      /\ writes = <<>> /\ (Damaged => Damaged') /\ "access" \in Keys
  BY KeyFacts DEF Load, Hydration, Damaged
<1>2. ASSUME ~Damaged', NEW k \in Keys
      PROVE  cache'[k] = cache'["access"] /\ Held(k)' = cache'["access"]
  <2>1. cache'[k] = Held(k) /\ cache'["access"] = Held("access")
    BY <1>1, <1>2, ReadIsHeld
  <2>2. Held(k) = Held("access")
    BY <1>1, <1>2 DEF StoreInv, StoreWhole
  <2>3. Held(k)' = Held(k)
    BY <1>1 DEF Held
  <2> QED
    BY <2>1, <2>2, <2>3
<1> QED
  BY <1>1, <1>2 DEF StoreInv, StoreWhole, CacheWhole, WritesLead, Written

(* A write reaches what a restart would read, and nothing else of it.      *)
LEMMA PutHeld ==
  ASSUME Typed, NEW k \in Keys, NEW v \in MaybeSession, NEW answers \in BOOLEAN,
         Put(k, v, answers), ~flaky'
  PROVE  /\ Held(k)' = v
         /\ \A j \in Keys : j # k => Held(j)' = Held(j)
<1>1. ring \in [Keys -> MaybeSession] /\ local \in [Keys -> MaybeSession]
  BY DEF Typed, CopiesTyped
<1>2. answers \/ ring[k] \in {None, v}
  BY DEF Put
<1>3. /\ ring'[k] = IF answers THEN v ELSE ring[k]
      /\ local'[k] = IF v = None \/ ~answers THEN v ELSE local[k]
      /\ \A j \in Keys : j # k => ring'[j] = ring[j] /\ local'[j] = local[j]
  BY <1>1 DEF Put
<1> QED
  BY <1>2, <1>3 DEF Held

LEMMA StoreWriteStore ==
  ASSUME Typed, Hydration, StoreInv, NEW answers \in BOOLEAN, StoreWrite(answers)
  PROVE  StoreInv'
<1>1. /\ writes # <<>> /\ Put(Key[Head(writes).next], Head(writes).value, answers)
      /\ UNCHANGED <<cache, hydrate, torn>> /\ hydrate # "load" /\ (Damaged => Damaged')
  BY DEF StoreWrite, Hydration, Put, Damaged
<1>2. writes \in Seq(Batch) /\ Head(writes) = writes[1] /\ writes[1] \in Batch
      /\ Len(writes) \in Nat \ {0}
  BY <1>1 DEF Typed
<1>3. writes[1].value \in MaybeSession /\ writes[1].next \in 1 .. 3
  BY <1>2 DEF Batch
<1>4. StoreWhole' /\ CacheWhole'
  BY <1>1 DEF StoreInv, StoreWhole, CacheWhole
<1> SUFFICES ASSUME ~Damaged' PROVE WritesLead' /\ Written'
  BY <1>4 DEF StoreInv, WritesLead, Written
<1>5. ~Damaged /\ ~flaky'
  BY <1>1 DEF Damaged
<1>6. /\ writes[Len(writes)].value = cache["access"]
      /\ \A i \in 1 .. 3 : i < writes[1].next => Held(Key[i]) = writes[1].value
      /\ \A i \in 2 .. Len(writes) : writes[i].next = 1
  BY <1>1, <1>5 DEF StoreInv, WritesLead
<1>7. \A i \in 1 .. 3 : i <= writes[1].next => Held(Key[i])' = writes[1].value
  <2> SUFFICES ASSUME NEW i \in 1 .. 3, i <= writes[1].next
               PROVE  Held(Key[i])' = writes[1].value
    OBVIOUS
  <2>1. Key[writes[1].next] \in Keys /\ Put(Key[writes[1].next], writes[1].value, answers)
    BY <1>1, <1>2, <1>3, KeyFacts
  <2>2. CASE i = writes[1].next
    BY <1>3, <1>5, <2>1, <2>2, PutHeld
  <2>3. CASE i < writes[1].next
    <3>1. Key[i] \in Keys /\ Key[i] # Key[writes[1].next]
      BY <1>3, <2>3, KeyFacts
    <3>2. Held(Key[i])' = Held(Key[i])
      BY <1>3, <1>5, <2>1, <3>1, PutHeld
    <3> QED
      BY <1>6, <2>3, <3>2
  <2> QED
    BY <1>3, <2>2, <2>3
<1>8. CASE writes[1].next < 3
  <2>1. writes' = [writes EXCEPT ![1].next = @ + 1]
    BY <1>2, <1>8 DEF StoreWrite
  <2>2. /\ writes' # <<>> /\ Len(writes') = Len(writes)
        /\ writes'[1].value = writes[1].value /\ writes'[1].next = writes[1].next + 1
        /\ \A i \in 2 .. Len(writes) : writes'[i] = writes[i]
        /\ writes'[Len(writes')].value = writes[Len(writes)].value
    BY <1>1, <1>2, <1>8, <2>1, Advanced
  <2>3. \A i \in 1 .. 3 : i < writes'[1].next => Held(Key[i])' = writes'[1].value
    BY <1>3, <1>7, <2>2
  <2> QED
    BY <1>1, <1>6, <2>2, <2>3 DEF WritesLead, Written
<1>9. CASE ~(writes[1].next < 3)
  <2>1. writes' = Tail(writes)
    BY <1>2, <1>9 DEF StoreWrite
  <2>2. /\ Len(writes') = Len(writes) - 1
        /\ \A i \in 1 .. Len(writes) - 1 : writes'[i] = writes[i + 1]
        /\ writes' = <<>> <=> Len(writes) = 1
        /\ writes' # <<>> => writes'[Len(writes')] = writes[Len(writes)]
    BY <1>1, <1>2, <2>1, Dequeued
  <2>3. \A k \in Keys : Held(k)' = writes[1].value
    BY <1>3, <1>7, <1>9, KeyFacts
  <2>4. Written'
    BY <1>1, <1>6, <2>2, <2>3 DEF Written
  <2>5. ASSUME writes' # <<>> PROVE \A i \in 1 .. Len(writes') : writes'[i].next = 1
    BY <1>2, <1>6, <2>2, <2>5
  <2>6. WritesLead'
    <3> SUFFICES ASSUME writes' # <<>>
                 PROVE  /\ writes'[Len(writes')].value = cache["access"]
                        /\ writes'[1].next = 1
                        /\ \A i \in 2 .. Len(writes') : writes'[i].next = 1
      BY <1>1 DEF WritesLead
    <3>1. Len(writes') \in Nat \ {0}
      BY <1>2, <2>2
    <3> QED
      BY <1>6, <2>2, <2>5, <3>1
  <2> QED
    BY <2>4, <2>6
<1> QED
  BY <1>8, <1>9

(* A restart finds the store written, or torn.                             *)
LEMMA RestartStore == ASSUME Typed, StoreInv, Restart PROVE StoreInv'
<1>1. hydrate' = "load" /\ (~Damaged' => ~Damaged /\ writes = <<>> /\ ring' = ring)
      /\ "access" \in Keys
  BY KeyFacts DEF Restart, Damaged
<1>2. ASSUME ~Damaged', NEW k \in Keys PROVE Held(k)' = Held("access")'
  <2>1. Held(k)' = Held(k) /\ Held("access")' = Held("access")
    BY <1>1, <1>2 DEF Restart, Held
  <2> QED
    BY <1>1, <1>2, <2>1 DEF StoreInv, StoreWhole, Written
<1> QED
  BY <1>1, <1>2 DEF StoreInv, StoreWhole, CacheWhole, WritesLead, Written

LEMMA NextStore == Typed /\ Hydration /\ StoreInv /\ [Next]_vars => StoreInv'
<1> SUFFICES ASSUME Typed, Hydration, StoreInv, [Next]_vars PROVE StoreInv'
  OBVIOUS
<1>0. None \in MaybeSession
  BY DEF MaybeSession
<1>1. CASE Logout
  BY <1>0, <1>1, StoreAfterSet DEF Logout, Hydration, StoreUntouched
<1>2. ASSUME NEW c \in Call, NEW ok \in BOOLEAN, NEW network \in BOOLEAN,
             Answered(c, ok, network)
      PROVE  StoreInv'
  <2>1. StoreUntouched /\ hydrate # "load"
    BY <1>2 DEF Answered, Settle, Hydration, StoreUntouched
  <2>2. CASE UNCHANGED <<cache, writes>>
    BY <2>1, <2>2, StoreStays
  <2>3. CASE c = "login" /\ issued < MaxIssued
             /\ SetSession([user |-> trying, n |-> issued + 1], "login")
    <3>1. trying \in User
      BY <1>2, <2>3 DEF Answered, Typed, Known
    <3>2. issued + 1 \in 1 .. MaxIssued
      BY <2>3, SessionAssumption DEF Typed, CountsTyped
    <3>3. [user |-> trying, n |-> issued + 1] \in MaybeSession
      BY <3>1, <3>2 DEF Session, MaybeSession
    <3> QED
      BY <2>1, <2>3, <3>3, StoreAfterSet
  <2> QED
    BY <1>2, <2>2, <2>3 DEF Answered, Settle
<1>3. ASSUME NEW c \in Call, Refused(c) PROVE StoreInv'
  <2>1. StoreUntouched /\ hydrate # "load"
    BY <1>3 DEF Refused, Hydration, StoreUntouched
  <2>2. UNCHANGED <<cache, writes>> \/ SetSession(None, "refresh")
    BY <1>3 DEF Refused
  <2> QED
    BY <1>0, <2>1, <2>2, StoreStays, StoreAfterSet
<1>4. CASE RefreshAnswered
  <2>1. StoreUntouched /\ hydrate # "load" /\ refresh = "asking"
    BY <1>4 DEF RefreshAnswered, Hydration, StoreUntouched
  <2>2. CASE SetSession(None, "refresh")
    BY <1>0, <2>1, <2>2, StoreAfterSet
  <2>3. CASE issued < MaxIssued /\ SetSession([user |-> old.user, n |-> issued + 1], "refresh")
    <3>1. old.user \in User /\ issued + 1 \in 1 .. MaxIssued
      BY <2>1, <2>3, SessionAssumption DEF Typed, Known, CountsTyped, Session
    <3>2. [user |-> old.user, n |-> issued + 1] \in MaybeSession
      BY <3>1 DEF Session, MaybeSession
    <3> QED
      BY <2>1, <2>3, <3>2, StoreAfterSet
  <2> QED
    BY <1>4, <2>2, <2>3 DEF RefreshAnswered
<1>5. CASE RefreshLost \/ (\E r \in Req : Send(r)) \/ (\E u \in User : SubmitLogin(u))
             \/ Flush \/ UNCHANGED vars
  <2>1. StoreUntouched /\ UNCHANGED <<cache, writes>>
    BY <1>5 DEF RefreshLost, Send, SubmitLogin, Flush, vars, StoreUntouched
  <2> QED
    BY <2>1, StoreStays
<1> QED
  BY <1>1, <1>2, <1>3, <1>4, <1>5, LoadStore, StoreWriteStore, RestartStore
     DEF Next, Hydrate, Renew, Store, Answer

(* What a kill leaves follows the keyring.                                 *)
LEMMA NextDisk == Typed /\ DiskLeads /\ [Next]_vars => DiskLeads'
<1> SUFFICES ASSUME Typed, DiskLeads, [Next]_vars, ~Damaged', NEW k \in Keys
             PROVE  /\ ring'[k] # None => disk'[k] = ring'[k]
                    /\ ring'[k] = None /\ local'[k] # None => disk'[k] \in {None, local'[k]}
  BY DEF DiskLeads
<1>1. CASE UNCHANGED <<ring, disk, local>> /\ ~Damaged
  BY <1>1 DEF DiskLeads
<1>2. ASSUME NEW answers \in BOOLEAN, StoreWrite(answers)
      PROVE  /\ ring'[k] # None => disk'[k] = ring'[k]
             /\ ring'[k] = None /\ local'[k] # None => disk'[k] \in {None, local'[k]}
  <2> DEFINE j == Key[Head(writes).next]
             v == Head(writes).value
  <2>1. Put(j, v, answers) /\ torn' = torn
    BY <1>2 DEF StoreWrite
  <2>2. ~Damaged /\ ~flaky'
    BY <2>1 DEF Put, Damaged
  <2>3. /\ ring \in [Keys -> MaybeSession] /\ local \in [Keys -> MaybeSession]
        /\ disk \in [Keys -> MaybeSession]
    BY DEF Typed, CopiesTyped
  <2> HIDE DEF j, v
  <2>4. /\ k # j => ring'[k] = ring[k] /\ local'[k] = local[k]
        /\ k = j => /\ ring'[k] = IF answers THEN v ELSE ring[k]
                    /\ local'[k] = IF v = None \/ ~answers THEN v ELSE local[k]
        /\ disk'[k] = IF answers /\ v # None THEN ring'[k] ELSE disk[k]
        /\ answers \/ (ring[j] \in {None, v} /\ disk[j] \in {None, v})
    BY <2>1, <2>2, <2>3 DEF Put
  <2>5. /\ ring[k] # None => disk[k] = ring[k]
        /\ ring[k] = None /\ local[k] # None => disk[k] \in {None, local[k]}
    BY <2>2 DEF DiskLeads
  <2> QED
    BY <2>4, <2>5
<1>3. CASE Restart
  <2>1. disk' = ring' /\ local' = local
    BY <1>3 DEF Restart
  <2> QED
    BY <2>1
<1>4. CASE Flush
  <2>1. disk' = ring' /\ local' = local
    BY <1>4 DEF Flush
  <2> QED
    BY <2>1
<1>5. ASSUME NEW answers \in BOOLEAN, Load(answers)
      PROVE  UNCHANGED <<ring, disk, local>> /\ ~Damaged
  BY <1>5 DEF Load, Damaged
<1>6. ASSUME NEW c \in Call, NEW ok \in BOOLEAN, NEW network \in BOOLEAN,
             Answered(c, ok, network)
      PROVE  UNCHANGED <<ring, disk, local>> /\ ~Damaged
  BY <1>6 DEF Answered, Damaged
<1>7. ASSUME NEW c \in Call, Refused(c) PROVE UNCHANGED <<ring, disk, local>> /\ ~Damaged
  BY <1>7 DEF Refused, Damaged
<1>8. ASSUME NEW r \in Req, Send(r) PROVE UNCHANGED <<ring, disk, local>> /\ ~Damaged
  BY <1>8 DEF Send, Damaged
<1>9. ASSUME NEW u \in User, SubmitLogin(u) PROVE UNCHANGED <<ring, disk, local>> /\ ~Damaged
  BY <1>9 DEF SubmitLogin, Damaged
<1>10. ASSUME Logout \/ RefreshAnswered \/ RefreshLost \/ UNCHANGED vars
       PROVE  UNCHANGED <<ring, disk, local>> /\ ~Damaged
  <2>1. CASE Logout
    BY <2>1 DEF Logout, Damaged
  <2>2. CASE RefreshAnswered
    BY <2>2 DEF RefreshAnswered, Damaged
  <2>3. CASE RefreshLost
    BY <2>3 DEF RefreshLost, Damaged
  <2>4. CASE UNCHANGED vars
    BY <2>4 DEF vars, Damaged
  <2> QED
    BY <1>10, <2>1, <2>2, <2>3, <2>4
<1> QED
  BY <1>1, <1>2, <1>3, <1>4, <1>5, <1>6, <1>7, <1>8, <1>9, <1>10 DEF Next, Hydrate, Renew, Store, Answer

-----------------------------------------------------------------------------
(* Whose the sessions are, and who is shown.                               *)

(* Where nothing is signed in or out, and no refresh begins, the sessions  *)
(* remain whose they were.                                                 *)
LEMMA OwnedStays ==
  ASSUME Owned, UNCHANGED <<ring, local, cache, intent, crossed, torn, flaky>>,
         hydrate' = "load" => hydrate = "load",
         refresh' = "asking" => refresh = "asking" /\ old' = old
  PROVE  Owned'
BY DEF Owned, Held, Damaged

LEMMA NextOwned == Typed /\ Hydration /\ StoreInv /\ Owned /\ [Next]_vars => Owned'
<1> SUFFICES ASSUME Typed, Hydration, StoreInv, Owned, [Next]_vars PROVE Owned'
  OBVIOUS
<1>0. None \in MaybeSession /\ "access" \in Keys /\ "refresh" \in Keys
  BY KeyFacts DEF MaybeSession
<1>1. ASSUME NEW answers \in BOOLEAN, Load(answers) PROVE Owned'
  <2>1. /\ hydrate = "load" /\ hydrate' # "load" /\ refresh' # "asking"
        /\ UNCHANGED <<ring, disk, local, intent, crossed, torn>> /\ (Damaged => Damaged')
    BY <1>1 DEF Load, Hydration, Damaged
  <2>2. ASSUME ~Damaged', NEW k \in Keys PROVE cache'[k] = Held(k)
    BY <1>1, <2>2, ReadIsHeld
  <2> QED
    BY <2>1, <2>2 DEF Owned
<1>2. CASE Logout
  <2>1. /\ UNCHANGED <<hydrate, refresh, old, ring, local, torn, flaky>>
        /\ hydrate # "load" /\ intent' = None
        /\ crossed' = (crossed \/ refresh = "asking") /\ SetSession(None, "logout")
    BY <1>2 DEF Logout, Hydration
  <2>2. \A k \in Keys : cache'[k] = None
    BY <1>0, <2>1, SessionSet
  <2> QED
    BY <2>1, <2>2 DEF Owned
<1>3. ASSUME NEW c \in Call, NEW ok \in BOOLEAN, NEW network \in BOOLEAN,
             Answered(c, ok, network)
      PROVE  Owned'
  <2>1. hydrate # "load" /\ hydrate' # "load"
        /\ UNCHANGED <<ring, disk, local, refresh, old, torn, flaky>>
    BY <1>3 DEF Answered, Settle, Hydration
  <2>2. CASE UNCHANGED <<cache, intent, crossed>>
    BY <2>1, <2>2, OwnedStays
  <2>3. CASE /\ c = "login" /\ issued < MaxIssued /\ intent' = trying
             /\ SetSession([user |-> trying, n |-> issued + 1], "login")
             /\ crossed' = (crossed \/ refresh = "asking")
    <3>1. trying \in User
      BY <1>3, <2>3 DEF Answered, Typed, Known
    <3>2. issued + 1 \in 1 .. MaxIssued
      BY <2>3, SessionAssumption DEF Typed, CountsTyped
    <3>3. [user |-> trying, n |-> issued + 1] \in MaybeSession
      BY <3>1, <3>2 DEF Session, MaybeSession
    <3>4. \A k \in Keys : cache'[k].user = trying
      BY <2>3, <3>3, SessionSet
    <3> QED
      BY <2>1, <2>3, <3>4 DEF Owned
  <2> QED
    BY <1>3, <2>2, <2>3 DEF Answered, Settle
<1>4. ASSUME NEW c \in Call, Refused(c) PROVE Owned'
  <2>1. hydrate # "load" /\ UNCHANGED <<ring, disk, local, hydrate, intent, crossed, torn, flaky>>
    BY <1>4 DEF Refused, Hydration
  <2>2. CASE UNCHANGED <<cache, writes, refresh, old>>
    BY <2>1, <2>2, OwnedStays
  <2>3. CASE /\ cache["refresh"] # None /\ old' = cache["refresh"]
             /\ UNCHANGED <<cache, writes>>
    BY <1>0, <2>1, <2>3 DEF Owned, Damaged
  <2>4. CASE refresh' = "clearing" /\ SetSession(None, "refresh")
    <3>1. \A k \in Keys : cache'[k] = None
      BY <1>0, <2>4, SessionSet
    <3> QED
      BY <2>1, <2>4, <3>1 DEF Owned
  <2> QED
    BY <1>4, <2>2, <2>3, <2>4 DEF Refused
<1>5. CASE RefreshAnswered
  <2>1. /\ hydrate # "load" /\ refresh = "asking" /\ refresh' # "asking"
        /\ UNCHANGED <<ring, disk, local, hydrate, intent, crossed, torn, flaky>>
    BY <1>5 DEF RefreshAnswered, Hydration
  <2>2. CASE SetSession(None, "refresh")
    <3>1. \A k \in Keys : cache'[k] = None
      BY <1>0, <2>2, SessionSet
    <3> QED
      BY <2>1, <3>1 DEF Owned
  <2>3. CASE issued < MaxIssued /\ SetSession([user |-> old.user, n |-> issued + 1], "refresh")
    <3>1. old.user \in User /\ issued + 1 \in 1 .. MaxIssued
      BY <2>1, <2>3, SessionAssumption DEF Typed, Known, CountsTyped, Session
    <3>2. [user |-> old.user, n |-> issued + 1] \in MaybeSession
      BY <3>1 DEF Session, MaybeSession
    <3>3. \A k \in Keys : cache'[k].user = old.user
      BY <2>3, <3>2, SessionSet
    <3> QED
      BY <2>1, <3>3 DEF Owned, Damaged
  <2> QED
    BY <1>5, <2>2, <2>3 DEF RefreshAnswered
<1>6. ASSUME NEW answers \in BOOLEAN, StoreWrite(answers) PROVE Owned'
  <2>1. /\ hydrate # "load" /\ UNCHANGED <<cache, old, hydrate, intent, crossed, torn>>
        /\ (Damaged => Damaged') /\ refresh' \in {refresh, "no"}
    BY <1>6 DEF StoreWrite, Hydration, Put, Damaged
  <2> QED
    BY <2>1 DEF Owned
<1>7. CASE Restart
  <2>1. /\ UNCHANGED <<local, intent, crossed>> /\ refresh' = "no" /\ cache' = Same(None)
        /\ (~Damaged' => ~Damaged /\ writes = <<>> /\ ring' = ring)
    BY <1>7 DEF Restart, Damaged
  <2>2. ASSUME ~crossed, ~Damaged', NEW k \in Keys, Held(k) # None PROVE Held(k).user = intent
    <3>1. CASE hydrate = "load"
      BY <2>1, <2>2, <3>1 DEF Owned
    <3>2. CASE hydrate # "load"
      <4>1. Held(k) = cache["access"]
        BY <2>1, <2>2, <3>2 DEF StoreInv, Written
      <4> QED
        BY <1>0, <2>1, <2>2, <4>1 DEF Owned
    <3> QED
      BY <3>1, <3>2
  <2>3. \A k \in Keys : (~Damaged' => Held(k)' = Held(k)) /\ cache'[k] = None
    BY <2>1 DEF Held, Same
  <2> QED
    BY <2>1, <2>2, <2>3 DEF Owned
<1>8. CASE RefreshLost \/ (\E r \in Req : Send(r)) \/ (\E u \in User : SubmitLogin(u))
             \/ Flush \/ UNCHANGED vars
  <2>1. /\ UNCHANGED <<ring, local, cache, intent, crossed, torn, flaky, hydrate>>
        /\ refresh' = "asking" => refresh = "asking" /\ old' = old
    BY <1>8 DEF RefreshLost, Send, SubmitLogin, Flush, vars
  <2> QED
    BY <2>1, OwnedStays
<1> QED
  BY <1>1, <1>2, <1>3, <1>4, <1>5, <1>6, <1>7, <1>8 DEF Next, Hydrate, Renew, Store, Answer

(* The screen: the last batch shows what memory holds, and /me, unless it  *)
(* is late, tells nothing else.                                            *)
LEMMA NextScreen == Typed /\ Hydration /\ StoreInv /\ Screen /\ [Next]_vars => Screen'
<1> SUFFICES ASSUME Typed, Hydration, StoreInv, Screen, [Next]_vars PROVE Screen'
  OBVIOUS
<1>0. None \in MaybeSession /\ "access" \in Keys /\ "user" \in Keys
  BY KeyFacts DEF MaybeSession
<1>1. ASSUME NEW answers \in BOOLEAN, Load(answers) PROVE Screen'
  <2> SUFFICES ASSUME ~Damaged' PROVE user' = Owner(cache'["access"])
    BY DEF Screen
  <2>1. ~Damaged /\ hydrate = "load"
    BY <1>1 DEF Load, Damaged
  <2>2. /\ cache'["access"] = Stored("access", answers)
        /\ cache'["user"] = Stored("user", answers)
        /\ cache'["access"] = Held("access") /\ cache'["user"] = Held("user")
    BY <1>0, <1>1, ReadIsHeld
  <2>3. Held("user") = Held("access")
    BY <1>0, <2>1 DEF StoreInv, StoreWhole
  <2>4. CASE Stored("access", answers) = None
    BY <1>1, <2>2, <2>4 DEF Load, Owner
  <2>5. CASE Stored("access", answers) # None
    BY <1>1, <2>2, <2>3, <2>5 DEF Load
  <2> QED
    BY <2>4, <2>5
<1>2. CASE writes' # <<>>
  BY <1>2 DEF Screen
<1>3. ASSUME NEW c \in Call, NEW ok \in BOOLEAN, NEW network \in BOOLEAN,
             Answered(c, ok, network)
      PROVE  Screen'
  <2>1. hydrate # "load" /\ UNCHANGED <<torn, flaky>>
    BY <1>3 DEF Answered, Hydration
  <2>2. CASE UNCHANGED <<cache, writes, user, meLate>>
    BY <2>1, <2>2 DEF Screen, Damaged
  <2>3. CASE /\ user' = IF ok THEN Owner(token[c]) ELSE IF network THEN user ELSE None
             /\ meLate' = \/ meLate
                          \/ ok /\ Owner(token[c]) # Owner(cache["user"])
                          \/ ~ok /\ ~network /\ cache["access"] # None
             /\ UNCHANGED <<cache, writes>>
    <3> SUFFICES ASSUME ~Damaged, ~meLate', writes = <<>>
                 PROVE  user' = Owner(cache["access"])
      BY <2>1, <2>3 DEF Screen, Damaged
    <3>1. cache["user"] = cache["access"]
      BY <1>0, <2>1 DEF StoreInv, CacheWhole
    <3>2. CASE ok
      BY <2>3, <3>1, <3>2
    <3>3. CASE ~ok /\ network
      BY <2>1, <2>3, <3>3 DEF Screen
    <3>4. CASE ~ok /\ ~network
      BY <2>3, <3>4 DEF Owner
    <3> QED
      BY <3>2, <3>3, <3>4
  <2>4. CASE c = "login" /\ issued < MaxIssued
             /\ SetSession([user |-> trying, n |-> issued + 1], "login")
    <3>1. trying \in User
      BY <1>3, <2>4 DEF Answered, Typed, Known
    <3>2. issued + 1 \in 1 .. MaxIssued
      BY <2>4, SessionAssumption DEF Typed, CountsTyped
    <3>3. [user |-> trying, n |-> issued + 1] \in MaybeSession
      BY <3>1, <3>2 DEF Session, MaybeSession
    <3> QED
      BY <1>2, <2>4, <3>3, SessionSet
  <2> QED
    BY <1>3, <2>2, <2>3, <2>4 DEF Answered, Settle
<1>4. CASE Logout
  BY <1>0, <1>2, <1>4, SessionSet DEF Logout
<1>5. ASSUME NEW c \in Call, Refused(c) PROVE Screen'
  <2>1. CASE UNCHANGED <<cache, writes>>
    BY <1>5, <2>1 DEF Refused, Screen, Damaged
  <2>2. CASE SetSession(None, "refresh")
    BY <1>0, <1>2, <2>2, SessionSet
  <2> QED
    BY <1>5, <2>1, <2>2 DEF Refused
<1>6. CASE RefreshAnswered
  <2>1. writes' # <<>>
    BY <1>6, EmptySeq DEF RefreshAnswered, SetSession, Typed
  <2> QED
    BY <1>2, <2>1
<1>7. ASSUME NEW answers \in BOOLEAN, StoreWrite(answers) PROVE Screen'
  <2> SUFFICES ASSUME ~Damaged', writes' = <<>> PROVE user' = Owner(cache'["access"])
    BY DEF Screen
  <2>0. UNCHANGED cache /\ hydrate # "load" /\ ~Damaged /\ writes # <<>>
    BY <1>7 DEF StoreWrite, Hydration, Put, Damaged
  <2>1. writes \in Seq(Batch) /\ Head(writes) = writes[1]
    BY <2>0 DEF Typed
  <2>2. ~(Head(writes).next < 3)
    BY <1>7, <2>0, <2>1, Advanced DEF StoreWrite
  <2>3. /\ writes' = Tail(writes)
        /\ user' = IF Head(writes).by = "refresh" THEN Owner(cache["user"])
                   ELSE Owner(Head(writes).value)
    BY <1>7, <2>2 DEF StoreWrite
  <2>4. Len(writes) = 1
    BY <2>0, <2>1, <2>3, Dequeued
  <2>5. writes[1].value = cache["access"] /\ cache["user"] = cache["access"]
    BY <1>0, <2>0, <2>1, <2>4 DEF StoreInv, WritesLead, CacheWhole
  <2> QED
    BY <2>0, <2>1, <2>3, <2>5
<1>8. CASE Restart
  BY <1>8 DEF Restart, Screen
<1>9. CASE RefreshLost \/ (\E r \in Req : Send(r)) \/ (\E u \in User : SubmitLogin(u))
             \/ Flush \/ UNCHANGED vars
  <2>1. UNCHANGED <<cache, writes, user, meLate, torn, flaky, hydrate>>
    BY <1>9 DEF RefreshLost, Send, SubmitLogin, Flush, vars
  <2> QED
    BY <2>1 DEF Screen, Damaged
<1> QED
  BY <1>1, <1>3, <1>4, <1>5, <1>6, <1>7, <1>8, <1>9 DEF Next, Hydrate, Renew, Store, Answer

-----------------------------------------------------------------------------
(* The results.                                                            *)

LEMMA InitIInv == Init => IInv
<1> SUFFICES ASSUME Init PROVE IInv
  OBVIOUS
<1>1. PICK s \in {None} \cup {t \in Session : t.n = 1} :
        /\ \/ ring = Same(s) /\ local = Same(None)
           \/ ring = Same(None) /\ local = Same(s)
        /\ intent = Owner(s)
  BY DEF Init
<1>2. \A k \in Keys : Held(k) = s
  BY <1>1 DEF Held, Same
<1>3. Hydration /\ Screen
  BY DEF Init, Hydration, Screen, Call
<1>4. "access" \in Keys
  BY KeyFacts
<1>5. StoreInv
  BY <1>2, <1>4 DEF Init, StoreInv, StoreWhole, CacheWhole, WritesLead, Written
<1>6. Owned
  BY <1>1, <1>2 DEF Init, Owned, Same, Owner
<1>7. DiskLeads
  BY <1>1 DEF Init, DiskLeads, Same
<1> QED
  BY <1>3, <1>5, <1>6, <1>7, InitTyped DEF IInv

LEMMA Invariance == Spec => []IInv
<1>1. IInv /\ [Next]_vars => IInv'
  BY NextTyped, NextHydration, NextStore, NextDisk, NextOwned, NextScreen DEF IInv
<1> QED
  BY <1>1, InitIInv, PTL DEF Spec

(* The variables hold what they are described to hold.                     *)
THEOREM SessionTypes == Spec => []TypeOK
<1>1. IInv => TypeOK
  <2> SUFFICES ASSUME Typed PROVE TypeOK
    BY DEF IInv
  <2>1. \A i \in DOMAIN writes :
          writes[i] \in [value : MaybeSession, next : 1 .. 3, by : {"login", "logout", "refresh"}]
    <3>1. \A i \in DOMAIN writes : writes[i] \in Batch
      BY DEF Typed
    <3> QED
      BY <3>1 DEF Batch
  <2> QED
    BY <2>1 DEF Typed, CopiesTyped, UsersTyped, CallsTyped, CountsTyped, FlagsTyped, TypeOK
<1> QED
  BY <1>1, Invariance, PTL

(* The session in use is that of whoever last signed in or out, however    *)
(* sign-ins, sign-outs, refreshes, their writes and restarts interleave,   *)
(* except across a refresh in flight and a damaged store (lib/auth.ts,     *)
(* lib/request.ts).                                                        *)
THEOREM SessionFollowsUserHolds == Spec => []SessionFollowsUser
<1>1. IInv => SessionFollowsUser
  BY DEF IInv, Owned, SessionFollowsUser
<1> QED
  BY <1>1, Invariance, PTL

(* When nothing is in flight the screen shows the user of the session in   *)
(* memory, unless /me failed or came late, or the store was damaged        *)
(* (app/auth.tsx).                                                         *)
THEOREM ScreenFollowsSessionHolds == Spec => []ScreenFollowsSession
<1>1. IInv => ScreenFollowsSession
  BY DEF IInv, Screen, ScreenFollowsSession, Quiet
<1> QED
  BY <1>1, Invariance, PTL

(* Once the writes are done the store holds the session in memory, whole,  *)
(* under each of its keys, and a kill leaves that session when there is    *)
(* one; unless the store was damaged (storeSet and storeDelete of          *)
(* lib/auth.ts, SecureStorage.kt).                                         *)
THEOREM StoreFollowsCacheHolds == Spec => []StoreFollowsCache
<1>1. IInv => StoreFollowsCache
  <2> SUFFICES ASSUME IInv, hydrate # "load", writes = <<>>, ~Damaged, NEW k \in Keys
               PROVE  /\ Stored(k, TRUE) = cache["access"] /\ cache[k] = cache["access"]
                      /\ cache["access"] # None \/ disk = ring => LeftByKill(k) = cache["access"]
    BY DEF StoreFollowsCache
  <2>1. Held(k) = cache["access"] /\ cache[k] = cache["access"]
    BY DEF IInv, StoreInv, CacheWhole, Written
  <2>2. Stored(k, TRUE) = Held(k)
    BY DEF Stored, Held
  <2>3. disk = ring => LeftByKill(k) = Held(k)
    BY DEF LeftByKill, Held
  <2>4. ASSUME cache["access"] # None PROVE LeftByKill(k) = Held(k)
    <3>1. CASE ring[k] # None
      BY <3>1 DEF IInv, DiskLeads, LeftByKill, Held
    <3>2. CASE ring[k] = None
      <4>1. local[k] # None
        BY <2>1, <2>4, <3>2 DEF Held
      <4> QED
        BY <3>2, <4>1 DEF IInv, DiskLeads, LeftByKill, Held
    <3> QED
      BY <3>1, <3>2
  <2> QED
    BY <2>1, <2>2, <2>3, <2>4
<1> QED
  BY <1>1, Invariance, PTL
=============================================================================
