-------------------------- MODULE OfflineSync_proofs --------------------------
(***************************************************************************)
(* Proofs about OfflineSync, for every set of rows, every assignment of    *)
(* kinds and every bound.                                                  *)
(***************************************************************************)
EXTENDS OfflineSync, TLAPS

------------------------------------------------------------------------------
(* Type correctness. *)

\* The variables that a write to the server changes keep their types.
LEMMA StoreType ==
  ASSUME TypeOK, NEW r \in Row, NEW v \in Nat, Store(r, v)
  PROVE  /\ server' \in [Row -> Nat]
         /\ changed' \subseteq Row
         /\ later' \subseteq Row
         /\ stored' \subseteq Row
         /\ gap' \subseteq Row
  BY DEF TypeOK, Store

\* So do those that an accepted operation changes.
LEMMA ApplyType ==
  ASSUME TypeOK, NEW o \in Op, Apply(o)
  PROVE  /\ server' \in [Row -> Nat]
         /\ changed' \subseteq Row
         /\ later' \subseteq Row
         /\ stored' \subseteq Row
         /\ gap' \subseteq Row
         /\ accepted' \subseteq Op
<1>1. o.row \in Row /\ o.ver \in Nat
  BY ConstantsOK DEF Op
<1>2. accepted' \subseteq Op
  BY DEF TypeOK, Apply
<1>3. CASE IsReplay(o)
  BY <1>2, <1>3 DEF TypeOK, Apply, serverVars
<1>4. CASE ~IsReplay(o)
  <2>1. Store(o.row, IF o.op = "delete" THEN 0 ELSE o.ver)
    BY <1>4 DEF Apply
  <2>2. (IF o.op = "delete" THEN 0 ELSE o.ver) \in Nat
    BY <1>1
  <2> QED BY <1>1, <1>2, <2>1, <2>2, StoreType
<1> QED BY <1>3, <1>4

\* The idle records have the types of theirs.
LEMMA IdleTypes ==
  /\ NoCopy \in Copy
  /\ NoCopies \in [Row -> Copy]
  /\ Nothing \in [Row -> Nat]
  /\ SyncIdle \in SyncPass
  /\ [SyncIdle EXCEPT !.pc = "query"] \in SyncPass
  /\ [SyncIdle EXCEPT !.pc = "save"] \in SyncPass
<1>1. NoCopy \in Copy
  BY DEF Copy
<1>2. NoCopies \in [Row -> Copy] /\ Nothing \in [Row -> Nat]
  BY <1>1 DEF NoCopies, Nothing
<1>3. SyncIdle \in SyncPass
  BY <1>2 DEF SyncIdle, SyncPass
<1> QED BY <1>1, <1>2, <1>3 DEF SyncPass

\* The fields of a mirror row.
LEMMA CopyFields ==
  ASSUME NEW c \in Copy
  PROVE  c.ver \in Nat /\ c.synced \in BOOLEAN
<1>1. CASE c \in [ver : Nat \ {0}, synced : BOOLEAN]
  BY <1>1
<1>2. CASE c = NoCopy
  BY <1>2 DEF NoCopy
<1> QED BY <1>1, <1>2 DEF Copy

\* The fields of a mutation in progress.
LEMMA UserFields ==
  ASSUME TypeOK, user.pc # "idle"
  PROVE  /\ user \in BusyUser
         /\ user.row \in Row
         /\ user.ver \in 1 .. MaxEdits
         /\ user.copy \in Copy
<1>1. user \in BusyUser
  BY DEF TypeOK, UserIdle
<1> QED BY <1>1 DEF BusyUser

\* The fields of a sync pass.
LEMMA SyncFields ==
  ASSUME TypeOK
  PROVE  /\ sync.step \in 1 .. 4
         /\ sync.batch \subseteq Op
         /\ sync.todo \subseteq Op
         /\ sync.ok \subseteq Op
         /\ sync.pulled \in [Row -> Nat]
         /\ sync.read \in [Row -> Copy]
BY DEF TypeOK, SyncPass

\* Every step keeps the types.
LEMMA TypeStep == TypeOK /\ [Next]_vars => TypeOK'
<1> SUFFICES ASSUME TypeOK, [Next]_vars PROVE TypeOK'
  OBVIOUS
<1> USE ConstantsOK, IdleTypes
<1>1. ASSUME NEW r \in Row, QueueCreate(r) PROVE TypeOK'
  BY <1>1 DEF QueueCreate, NextEdit, Enqueue, NewOp, WriteMirror, Op, Copy, TypeOK, serverVars
<1>2. ASSUME NEW r \in Row, QueueCreateKilled(r) PROVE TypeOK'
  BY <1>2 DEF QueueCreateKilled, NextEdit, Fault, Enqueue, NewOp, Op, TypeOK, serverVars
<1>3. ASSUME NEW r \in Row, QueueUpdate(r) PROVE TypeOK'
  BY <1>3 DEF QueueUpdate, NextEdit, Enqueue, NewOp, Op, BusyUser, TypeOK, serverVars
<1>4. ASSUME NEW r \in Row, QueueDelete(r) PROVE TypeOK'
  BY <1>4 DEF QueueDelete, NextEdit, Enqueue, NewOp, Op, BusyUser, TypeOK, serverVars
<1>5. ASSUME NEW r \in Row, RestCreate(r) PROVE TypeOK'
  BY <1>5, StoreType DEF RestCreate, NextEdit, AwaitReply, BusyUser, TypeOK
<1>6. ASSUME NEW r \in Row, RestUpdate(r) PROVE TypeOK'
  BY <1>6, StoreType DEF RestUpdate, NextEdit, AwaitReply, BusyUser, TypeOK
<1>7. ASSUME NEW r \in Row, RestDelete(r) PROVE TypeOK'
  BY <1>7, StoreType DEF RestDelete, NextEdit, AwaitReply, BusyUser, TypeOK
<1>8. ASSUME NEW r \in Row, CreateReplyLost(r) PROVE TypeOK'
  BY <1>8 DEF CreateReplyLost, Fault, Enqueue, NewOp, WriteMirror, Op, Copy, UserIdle, BusyUser, TypeOK, serverVars
<1>9. CASE FinishUpdate
  <2>1. /\ user.row \in Row
        /\ [ver |-> user.ver, synced |-> user.copy.synced] \in Copy
    BY <1>9, UserFields, CopyFields DEF FinishUpdate, Copy
  <2>2. mirror' \in [Row -> Copy] /\ gap' \subseteq Row
    BY <1>9, <2>1 DEF FinishUpdate, WriteMirror, TypeOK
  <2> QED BY <1>9, <2>2 DEF FinishUpdate, TypeOK, serverVars
<1>10. CASE FinishDelete
  BY <1>10 DEF FinishDelete, WriteMirror, UserIdle, BusyUser, TypeOK, serverVars
<1>11. CASE RestReply
  <2> DEFINE v == IF user.op = "delete" THEN 0 ELSE user.ver
  <2>1. /\ user.row \in Row
        /\ user.ver \in 1 .. MaxEdits
    BY <1>11, UserFields DEF RestReply
  <2>3. (IF v = 0 THEN NoCopy ELSE [ver |-> v, synced |-> TRUE]) \in Copy
    BY <2>1, IdleTypes DEF Copy
  <2>2. mirror' \in [Row -> Copy] /\ gap' \subseteq Row
    BY <1>11, <2>1, <2>3 DEF RestReply, WriteMirror, TypeOK
  <2> QED BY <1>11, <2>2 DEF RestReply, TypeOK, serverVars
<1>12. CASE UpdateReplyLost
  <2>1. /\ user \in BusyUser
        /\ NewOp("update", user.row, user.ver) \in Op
        /\ mirror[user.row] \in Copy
    BY <1>12, UserFields DEF UpdateReplyLost, NewOp, Op, TypeOK
  <2>2. user' \in {UserIdle} \cup BusyUser
    BY <1>12, <2>1 DEF UpdateReplyLost, BusyUser
  <2> QED BY <1>12, <2>1, <2>2 DEF UpdateReplyLost, Fault, Enqueue, TypeOK, serverVars
<1>13. CASE DeleteReplyLost
  <2>1. /\ user \in BusyUser
        /\ NewOp("delete", user.row, user.ver) \in Op
    BY <1>13, UserFields DEF DeleteReplyLost, NewOp, Op
  <2>2. user' \in {UserIdle} \cup BusyUser
    BY <1>13, <2>1 DEF DeleteReplyLost, BusyUser
  <2> QED BY <1>13, <2>1, <2>2 DEF DeleteReplyLost, Fault, Enqueue, TypeOK, serverVars
<1>14. CASE StartSync
  <2>1. sync' \in SyncPass
    BY <1>14, SyncFields DEF StartSync, SyncPass, TypeOK
  <2> QED BY <1>14, <2>1 DEF StartSync, TypeOK, serverVars
<1>15. CASE PushAccepted
  <2>1. PICK o \in sync.todo :
          /\ Apply(o)
          /\ sync' = [sync EXCEPT !.todo = @ \ {o}, !.ok = @ \cup {o}]
          /\ UNCHANGED <<taken, edit, remote, mirror, queue, user, orphan,
                         faults, issued>>
    BY <1>15 DEF PushAccepted
  <2>2. o \in Op
    BY SyncFields
  <2>3. sync' \in SyncPass
    BY <2>1, <2>2 DEF SyncPass, TypeOK
  <2> QED BY <2>1, <2>2, <2>3, ApplyType DEF TypeOK
<1>16. CASE PushRefused
  <2>1. sync' \in SyncPass
    BY <1>16, SyncFields DEF PushRefused, SyncPass, TypeOK
  <2> QED BY <1>16, <2>1 DEF PushRefused, TypeOK, serverVars
<1>17. CASE PushFailed
  <2>1. sync' \in SyncPass
    BY <1>17, SyncFields DEF PushFailed, SyncPass, TypeOK
  <2> QED BY <1>17, <2>1 DEF PushFailed, Fault, TypeOK, serverVars
<1>18. CASE PushReply
  <2>1. sync' \in SyncPass
    BY <1>18, SyncFields DEF PushReply, SyncPass, TypeOK
  <2> QED BY <1>18, <2>1 DEF PushReply, TypeOK, serverVars
<1>19. CASE LoseConnection
  <2>1. sync' \in SyncPass
    BY <1>19, SyncFields DEF LoseConnection, Abandon, SyncPass, TypeOK
  <2> QED BY <1>19, <2>1, SyncFields DEF LoseConnection, Abandon, Fault, TypeOK, serverVars
<1>20. CASE OrphanAccepted
  BY <1>20, ApplyType DEF OrphanAccepted, TypeOK
<1>21. CASE OrphanRefused
  BY <1>21 DEF OrphanRefused, TypeOK, serverVars
<1>22. CASE AckRefused
  <2>1. sync' \in SyncPass
    BY <1>22, SyncFields DEF AckRefused, SyncPass, TypeOK
  <2> QED BY <1>22, <2>1 DEF AckRefused, TypeOK, serverVars
<1>23. CASE AckOk
  <2>1. PICK o \in sync.todo, p \in sync.batch :
          sync' = IF p.op = "create"
                  THEN [sync EXCEPT !.pc = "mark",
                          !.read = [NoCopies EXCEPT ![o.row] = mirror[o.row]]]
                  ELSE [sync EXCEPT !.pc = "remove"]
    BY <1>23 DEF AckOk
  <2>2. o.row \in Row
    BY SyncFields DEF Op
  <2>3. [NoCopies EXCEPT ![o.row] = mirror[o.row]] \in [Row -> Copy]
    BY <2>2 DEF TypeOK
  <2>4. sync' \in SyncPass
    BY <2>1, <2>3 DEF SyncPass, TypeOK
  <2> QED BY <1>23, <2>4 DEF AckOk, TypeOK, serverVars
<1>24. CASE Mark
  <2>1. PICK o \in sync.todo :
          mirror' = IF sync.read[o.row].ver = 0 THEN mirror
                    ELSE [mirror EXCEPT ![o.row] =
                            [ver |-> sync.read[o.row].ver, synced |-> TRUE]]
    BY <1>24 DEF Mark
  <2>2. o.row \in Row /\ sync.read[o.row].ver \in Nat
    BY SyncFields, CopyFields DEF Op
  <2>3. mirror' \in [Row -> Copy]
    BY <2>1, <2>2 DEF Copy, TypeOK
  <2>4. sync' \in SyncPass
    BY <1>24 DEF Mark, SyncPass, TypeOK
  <2> QED BY <1>24, <2>3, <2>4 DEF Mark, TypeOK, serverVars
<1>25. CASE Remove
  <2>1. PICK o \in sync.todo, p \in sync.batch :
          /\ queue' = queue \ {p}
          /\ gap' = IF p \in sync.ok THEN gap ELSE gap \cup {p.row}
          /\ sync' = [sync EXCEPT !.pc = "ack", !.todo = @ \ {o}]
    BY <1>25 DEF Remove
  <2>2. p.row \in Row
    BY SyncFields DEF Op
  <2>3. sync' \in SyncPass
    BY <2>1 DEF SyncPass, TypeOK
  <2> QED BY <1>25, <2>1, <2>2, <2>3 DEF Remove, TypeOK, serverVars
<1>26. CASE PushDone
  BY <1>26 DEF PushDone, TypeOK, serverVars
<1>27. CASE Query
  <2> DEFINE hits == {r \in Row : /\ KindOf[r] = QueryOrder[sync.step]
                                  /\ server[r] > 0
                                  /\ r \in changed \/ KindOf[r] = "account"}
             pulled == [r \in Row |-> IF r \in hits THEN server[r]
                                      ELSE sync.pulled[r]]
  <2>1. /\ sync' = [sync EXCEPT !.step = @ + 1, !.pulled = pulled]
        /\ sync.step <= 3
        /\ gap' = gap \ hits
    BY <1>27 DEF Query
  <2> HIDE DEF hits
  <2>2. pulled \in [Row -> Nat]
    BY SyncFields DEF TypeOK
  <2>3. sync.step + 1 \in 1 .. 4
    BY <2>1, SyncFields
  <2>4. sync' \in SyncPass
    BY <2>1, <2>2, <2>3 DEF SyncPass, TypeOK
  <2> QED BY <1>27, <2>1, <2>4 DEF Query, TypeOK, serverVars
<1>28. CASE Stamp
  <2>1. sync' = [sync EXCEPT !.pc = "merge", !.step = 1] /\ 1 \in 1 .. 4
    BY <1>28 DEF Stamp
  <2>2. sync' \in SyncPass
    BY <2>1 DEF SyncPass, TypeOK
  <2> QED BY <1>28, <2>2 DEF Stamp, TypeOK, serverVars
<1>29. CASE MergeRead
  <2> DEFINE read == [r \in Row |->
               IF KindOf[r] # MergeOrder[sync.step] THEN NoCopy
               ELSE IF sync.pulled[r] > 0
                    THEN [ver |-> sync.pulled[r], synced |-> TRUE]
               ELSE mirror[r]]
  <2>1. sync' = [sync EXCEPT !.pc = "clear", !.read = read]
    BY <1>29 DEF MergeRead
  <2>2. ASSUME NEW r \in Row PROVE read[r] \in Copy
    BY SyncFields DEF Copy, TypeOK
  <2>3. read \in [Row -> Copy]
    BY <2>2
  <2> HIDE DEF read
  <2>4. sync' \in SyncPass
    BY <2>1, <2>3 DEF SyncPass, TypeOK
  <2> QED BY <1>29, <2>4 DEF MergeRead, TypeOK, serverVars
<1>30. CASE MergeClear
  <2>1. sync' \in SyncPass
    BY <1>30, SyncFields DEF MergeClear, SyncPass, TypeOK
  <2> QED BY <1>30, <2>1 DEF MergeClear, TypeOK, serverVars
<1>31. CASE MergePut
  <2>1. mirror' \in [Row -> Copy]
    BY <1>31, SyncFields DEF MergePut, TypeOK
  <2>2. sync.step < 3 => sync.step + 1 \in 1 .. 4
    BY SyncFields
  <2>3. sync' \in SyncPass
    BY <1>31, <2>2 DEF MergePut, SyncPass, TypeOK
  <2> QED BY <1>31, <2>1, <2>3 DEF MergePut, TypeOK, serverVars
<1>32. CASE SaveLastSync
  BY <1>32 DEF SaveLastSync, TypeOK
<1>33. CASE Kill
  <2>1. sync' \in SyncPass
    BY <1>33, SyncFields DEF Kill, Abandon, SyncPass, TypeOK
  <2> QED BY <1>33, <2>1, SyncFields DEF Kill, Abandon, Fault, TypeOK, serverVars
<1>34. ASSUME NEW r \in Row, RemoteCreate(r) PROVE TypeOK'
  BY <1>34, StoreType DEF RemoteCreate, RemoteEdit, NextEdit, TypeOK
<1>35. ASSUME NEW r \in Row, RemoteUpdate(r) PROVE TypeOK'
  BY <1>35, StoreType DEF RemoteUpdate, RemoteEdit, NextEdit, TypeOK
<1>36. ASSUME NEW r \in Row, RemoteDelete(r) PROVE TypeOK'
  BY <1>36, StoreType DEF RemoteDelete, RemoteEdit, NextEdit, TypeOK
<1>37. CASE UNCHANGED vars
  BY <1>37 DEF vars, TypeOK
<1> QED
  BY <1>1, <1>2, <1>3, <1>4, <1>5, <1>6, <1>7, <1>8, <1>9, <1>10, <1>11,
     <1>12, <1>13, <1>14, <1>15, <1>16, <1>17, <1>18, <1>19, <1>20, <1>21,
     <1>22, <1>23, <1>24, <1>25, <1>26, <1>27, <1>28, <1>29, <1>30, <1>31,
     <1>32, <1>33, <1>34, <1>35, <1>36, <1>37
  DEF Next, User, Push, Ack, Pull, Remote

\* The variables of OfflineSync keep their types.
THEOREM TypeCorrect == Spec => []TypeOK
<1>1. Init => TypeOK
  BY ConstantsOK, IdleTypes DEF Init, UserIdle, BusyUser, TypeOK
<1> QED BY <1>1, TypeStep, PTL DEF Spec

------------------------------------------------------------------------------
(* The queue.  NoSilentLoss is not inductive: that a removed operation is   *)
(* settled depends on which results a pass has collected, and on queue      *)
(* positions being unique.                                                  *)

\* A pass works on operations that were issued, and acts on a result only
\* when the server gave it.
PassInv ==
  /\ queue \subseteq issued
  /\ orphan \subseteq issued
  /\ sync.batch \subseteq issued
  /\ sync.todo \subseteq sync.batch
  /\ sync.ok \subseteq accepted
  /\ sync.pc \in {"mark", "remove"} =>
       \A o \in sync.todo : IsFirst(o, sync.todo) => o \in sync.ok

\* The number of an edit names at most one operation, and an edit that still
\* awaits its reply is newer than every operation.
VersionInv ==
  /\ \A o \in issued : o.ver <= edit
  /\ \A o, p \in issued : o.ver = p.ver => o = p
  /\ user.pc = "reply" =>
       user.ver <= edit /\ \A o \in issued : o.ver < user.ver

QueueInv == TypeOK /\ PassInv /\ VersionInv

\* Queueing an operation under a number that no operation has.
LEMMA EnqueueStep ==
  ASSUME QueueInv, NEW o \in Op, Enqueue(o),
         edit' \in Nat, edit' >= edit, o.ver <= edit',
         \A p \in issued : p.ver < o.ver
  PROVE  /\ o \notin issued
         /\ queue' \subseteq issued'
         /\ issued \subseteq issued'
         /\ \A p \in issued' : p.ver <= edit'
         /\ \A p, q \in issued' : p.ver = q.ver => p = q
<1>1. issued' = issued \cup {o} /\ queue' = queue \cup {o}
  BY DEF Enqueue
<1>2. \A p \in issued : p.ver <= edit'
  BY DEF QueueInv, VersionInv, TypeOK, Op
<1> QED BY <1>1, <1>2 DEF QueueInv, PassInv, VersionInv, TypeOK, Op

\* The new operation of a handler is numbered by the next edit.
LEMMA NextEditFresh ==
  ASSUME QueueInv, NextEdit, NEW op \in {"create", "update", "delete"},
         NEW r \in Row, Enqueue(NewOp(op, r, edit + 1))
  PROVE  /\ NewOp(op, r, edit + 1) \in Op
         /\ NewOp(op, r, edit + 1) \notin issued
         /\ \A p \in issued : p.ver < edit + 1
         /\ queue' \subseteq issued'
         /\ issued \subseteq issued'
         /\ \A p \in issued' : p.ver <= edit'
         /\ \A p, q \in issued' : p.ver = q.ver => p = q
<1> DEFINE o == NewOp(op, r, edit + 1)
<1>1. edit' = edit + 1 /\ edit \in Nat /\ edit' \in 1 .. MaxEdits
  BY ConstantsOK DEF NextEdit, QueueInv, TypeOK
<1>2. o \in Op /\ o.ver = edit + 1
  BY <1>1 DEF NewOp, Op
<1>3. \A p \in issued : p.ver < o.ver
  BY <1>1, <1>2 DEF QueueInv, VersionInv, TypeOK, Op
<1> HIDE DEF o
<1>4. Enqueue(o)
  BY DEF o
<1>5. edit' \in Nat /\ edit' >= edit /\ o.ver <= edit'
  BY <1>1, <1>2
<1> QED BY <1>2, <1>3, <1>4, <1>5, EnqueueStep DEF o

\* So is the operation that replaces a request whose reply was lost.
LEMMA LostReplyFresh ==
  ASSUME QueueInv, user.pc = "reply", UNCHANGED edit,
         NEW op \in {"create", "update", "delete"}, NEW r \in Row,
         Enqueue(NewOp(op, r, user.ver))
  PROVE  /\ NewOp(op, r, user.ver) \in Op
         /\ NewOp(op, r, user.ver) \notin issued
         /\ \A p \in issued : p.ver < user.ver
         /\ queue' \subseteq issued'
         /\ issued \subseteq issued'
         /\ \A p \in issued' : p.ver <= edit'
         /\ \A p, q \in issued' : p.ver = q.ver => p = q
<1> DEFINE o == NewOp(op, r, user.ver)
<1>1. user.ver \in 1 .. MaxEdits
  BY UserFields DEF QueueInv
<1>2. o \in Op /\ o.ver = user.ver
  BY <1>1 DEF NewOp, Op
<1>3. /\ \A p \in issued : p.ver < o.ver
      /\ o.ver <= edit
  BY <1>2 DEF QueueInv, VersionInv
<1> HIDE DEF o
<1>4. Enqueue(o)
  BY DEF o
<1>5. edit' \in Nat /\ edit' >= edit /\ o.ver <= edit'
  BY <1>3, ConstantsOK DEF QueueInv, TypeOK
<1> QED BY <1>2, <1>3, <1>4, <1>5, EnqueueStep DEF o

\* A step that queues nothing keeps the numbers apart.
LEMMA VersionStep ==
  ASSUME QueueInv, UNCHANGED issued, edit' \in Nat, edit' >= edit,
         user' = user \/ user'.pc # "reply"
  PROVE  VersionInv'
<1>1. \A o \in issued : o.ver <= edit'
  BY DEF QueueInv, VersionInv, TypeOK, Op
<1>2. CASE user' = user
  <2>1. user.pc = "reply" => user.ver <= edit'
    BY UserFields DEF QueueInv, VersionInv, TypeOK
  <2> QED BY <1>1, <1>2, <2>1 DEF QueueInv, VersionInv
<1>3. CASE user'.pc # "reply"
  BY <1>1, <1>3 DEF QueueInv, VersionInv
<1> QED BY <1>2, <1>3

\* A request that awaits its reply is numbered by the next edit.
LEMMA AwaitReplyStep ==
  ASSUME QueueInv, UNCHANGED issued, NextEdit, NEW op, NEW r, AwaitReply(op, r)
  PROVE  VersionInv'
<1>1. edit' = edit + 1 /\ edit \in Nat
  BY DEF NextEdit, QueueInv, TypeOK
<1>2. \A o \in issued : o.ver <= edit' /\ o.ver < edit + 1
  BY <1>1 DEF QueueInv, VersionInv, TypeOK, Op
<1>3. user'.pc = "reply" /\ user'.ver = edit + 1
  BY DEF AwaitReply
<1> QED BY <1>1, <1>2, <1>3 DEF QueueInv, VersionInv

\* Every step keeps PassInv and VersionInv, and is a step of the abstract
\* queue or none.
LEMMA QueueStep ==
  QueueInv /\ [Next]_vars => PassInv' /\ VersionInv' /\ [DQ!Next]_(DQ!vars)
<1> SUFFICES ASSUME QueueInv, [Next]_vars
             PROVE  PassInv' /\ VersionInv' /\ [DQ!Next]_(DQ!vars)
  OBVIOUS
<1> DEFINE Goal == PassInv' /\ VersionInv' /\ [DQ!Next]_(DQ!vars)
<1>a. edit \in Nat /\ NextEdit => edit' \in Nat /\ edit' >= edit
  BY DEF NextEdit
<1>b. edit \in Nat
  BY ConstantsOK DEF QueueInv, TypeOK
<1>1. ASSUME NEW r \in Row, QueueCreate(r) PROVE Goal
  <2> DEFINE o == NewOp("create", r, edit + 1)
  <2>1. /\ o \in Op /\ o \notin issued
        /\ queue' \subseteq issued' /\ issued \subseteq issued'
        /\ \A p \in issued' : p.ver <= edit'
        /\ \A p, q \in issued' : p.ver = q.ver => p = q
    BY <1>1, NextEditFresh DEF QueueCreate, QueueInv
  <2>2. user'.pc # "reply"
    BY <1>1 DEF QueueCreate, QueueInv, VersionInv, UserIdle
  <2>3. VersionInv'
    BY <2>1, <2>2 DEF VersionInv
  <2>4. PassInv'
    BY <1>1, <2>1 DEF QueueCreate, QueueInv, PassInv
  <2>5. DQ!Issue(o)
    BY <1>1, <2>1 DEF QueueCreate, Enqueue, DQ!Issue
  <2> QED BY <2>1, <2>3, <2>4, <2>5 DEF DQ!Next
<1>2. ASSUME NEW r \in Row, QueueCreateKilled(r) PROVE Goal
  <2> DEFINE o == NewOp("create", r, edit + 1)
  <2>1. /\ o \in Op /\ o \notin issued
        /\ queue' \subseteq issued' /\ issued \subseteq issued'
        /\ \A p \in issued' : p.ver <= edit'
        /\ \A p, q \in issued' : p.ver = q.ver => p = q
    BY <1>2, NextEditFresh DEF QueueCreateKilled, QueueInv
  <2>2. user'.pc # "reply"
    BY <1>2 DEF QueueCreateKilled, QueueInv, VersionInv, UserIdle
  <2>3. VersionInv'
    BY <2>1, <2>2 DEF VersionInv
  <2>4. PassInv'
    BY <1>2, <2>1 DEF QueueCreateKilled, QueueInv, PassInv
  <2>5. DQ!Issue(o)
    BY <1>2, <2>1 DEF QueueCreateKilled, Enqueue, DQ!Issue
  <2> QED BY <2>1, <2>3, <2>4, <2>5 DEF DQ!Next
<1>3. ASSUME NEW r \in Row, QueueUpdate(r) PROVE Goal
  <2> DEFINE o == NewOp("update", r, edit + 1)
  <2>1. /\ o \in Op /\ o \notin issued
        /\ queue' \subseteq issued' /\ issued \subseteq issued'
        /\ \A p \in issued' : p.ver <= edit'
        /\ \A p, q \in issued' : p.ver = q.ver => p = q
    BY <1>3, NextEditFresh DEF QueueUpdate, QueueInv
  <2>2. user'.pc # "reply"
    BY <1>3 DEF QueueUpdate, QueueInv, VersionInv, UserIdle
  <2>3. VersionInv'
    BY <2>1, <2>2 DEF VersionInv
  <2>4. PassInv'
    BY <1>3, <2>1 DEF QueueUpdate, QueueInv, PassInv
  <2>5. DQ!Issue(o)
    BY <1>3, <2>1 DEF QueueUpdate, Enqueue, DQ!Issue
  <2> QED BY <2>1, <2>3, <2>4, <2>5 DEF DQ!Next
<1>4. ASSUME NEW r \in Row, QueueDelete(r) PROVE Goal
  <2> DEFINE o == NewOp("delete", r, edit + 1)
  <2>1. /\ o \in Op /\ o \notin issued
        /\ queue' \subseteq issued' /\ issued \subseteq issued'
        /\ \A p \in issued' : p.ver <= edit'
        /\ \A p, q \in issued' : p.ver = q.ver => p = q
    BY <1>4, NextEditFresh DEF QueueDelete, QueueInv
  <2>2. user'.pc # "reply"
    BY <1>4 DEF QueueDelete, QueueInv, VersionInv, UserIdle
  <2>3. VersionInv'
    BY <2>1, <2>2 DEF VersionInv
  <2>4. PassInv'
    BY <1>4, <2>1 DEF QueueDelete, QueueInv, PassInv
  <2>5. DQ!Issue(o)
    BY <1>4, <2>1 DEF QueueDelete, Enqueue, DQ!Issue
  <2> QED BY <2>1, <2>3, <2>4, <2>5 DEF DQ!Next
<1>5. ASSUME NEW r \in Row, RestCreate(r) PROVE Goal
  <2>1. VersionInv'
    BY <1>5, AwaitReplyStep DEF RestCreate
  <2>2. PassInv'
    BY <1>5 DEF RestCreate, QueueInv, PassInv
  <2> QED BY <1>5, <2>1, <2>2 DEF RestCreate, DQ!vars
<1>6. ASSUME NEW r \in Row, RestUpdate(r) PROVE Goal
  <2>1. VersionInv'
    BY <1>6, AwaitReplyStep DEF RestUpdate
  <2>2. PassInv'
    BY <1>6 DEF RestUpdate, QueueInv, PassInv
  <2> QED BY <1>6, <2>1, <2>2 DEF RestUpdate, DQ!vars
<1>7. ASSUME NEW r \in Row, RestDelete(r) PROVE Goal
  <2>1. VersionInv'
    BY <1>7, AwaitReplyStep DEF RestDelete
  <2>2. PassInv'
    BY <1>7 DEF RestDelete, QueueInv, PassInv
  <2> QED BY <1>7, <2>1, <2>2 DEF RestDelete, DQ!vars
<1>8. ASSUME NEW r \in Row, CreateReplyLost(r) PROVE Goal
  <2> DEFINE o == NewOp("create", r, user.ver)
  <2>1. /\ o \in Op /\ o \notin issued
        /\ queue' \subseteq issued' /\ issued \subseteq issued'
        /\ \A p \in issued' : p.ver <= edit'
        /\ \A p, q \in issued' : p.ver = q.ver => p = q
    BY <1>8, LostReplyFresh DEF CreateReplyLost, QueueInv
  <2>2. user'.pc # "reply"
    BY <1>8 DEF CreateReplyLost, QueueInv, VersionInv, UserIdle
  <2>3. VersionInv'
    BY <2>1, <2>2 DEF VersionInv
  <2>4. PassInv'
    BY <1>8, <2>1 DEF CreateReplyLost, QueueInv, PassInv
  <2>5. DQ!Issue(o)
    BY <1>8, <2>1 DEF CreateReplyLost, Enqueue, DQ!Issue
  <2> QED BY <2>1, <2>3, <2>4, <2>5 DEF DQ!Next
<1>9. CASE FinishUpdate
  <2>1. VersionInv'
    BY <1>9, <1>b, VersionStep DEF FinishUpdate, UserIdle
  <2>2. PassInv'
    BY <1>9 DEF FinishUpdate, UserIdle, QueueInv, PassInv
  <2> QED BY <1>9, <2>1, <2>2 DEF FinishUpdate, UserIdle, DQ!vars
<1>10. CASE FinishDelete
  <2>1. VersionInv'
    BY <1>10, <1>b, VersionStep DEF FinishDelete, UserIdle
  <2>2. PassInv'
    BY <1>10 DEF FinishDelete, UserIdle, QueueInv, PassInv
  <2> QED BY <1>10, <2>1, <2>2 DEF FinishDelete, UserIdle, DQ!vars
<1>11. CASE RestReply
  <2>1. VersionInv'
    BY <1>11, <1>b, VersionStep DEF RestReply, UserIdle
  <2>2. PassInv'
    BY <1>11 DEF RestReply, UserIdle, QueueInv, PassInv
  <2> QED BY <1>11, <2>1, <2>2 DEF RestReply, UserIdle, DQ!vars
<1>12. CASE UpdateReplyLost
  <2> DEFINE o == NewOp("update", user.row, user.ver)
  <2>1. /\ o \in Op /\ o \notin issued
        /\ queue' \subseteq issued' /\ issued \subseteq issued'
        /\ \A p \in issued' : p.ver <= edit'
        /\ \A p, q \in issued' : p.ver = q.ver => p = q
    BY <1>12, LostReplyFresh, UserFields DEF UpdateReplyLost, QueueInv
  <2>2. user'.pc # "reply"
    BY <1>12 DEF UpdateReplyLost, QueueInv, VersionInv, UserIdle, BusyUser
  <2>3. VersionInv'
    BY <2>1, <2>2 DEF VersionInv
  <2>4. PassInv'
    BY <1>12, <2>1 DEF UpdateReplyLost, QueueInv, PassInv
  <2>5. DQ!Issue(o)
    BY <1>12, <2>1 DEF UpdateReplyLost, Enqueue, DQ!Issue
  <2> QED BY <2>1, <2>3, <2>4, <2>5 DEF DQ!Next
<1>13. CASE DeleteReplyLost
  <2> DEFINE o == NewOp("delete", user.row, user.ver)
  <2>1. /\ o \in Op /\ o \notin issued
        /\ queue' \subseteq issued' /\ issued \subseteq issued'
        /\ \A p \in issued' : p.ver <= edit'
        /\ \A p, q \in issued' : p.ver = q.ver => p = q
    BY <1>13, LostReplyFresh, UserFields DEF DeleteReplyLost, QueueInv
  <2>2. user'.pc # "reply"
    BY <1>13 DEF DeleteReplyLost, QueueInv, VersionInv, UserIdle, BusyUser
  <2>3. VersionInv'
    BY <2>1, <2>2 DEF VersionInv
  <2>4. PassInv'
    BY <1>13, <2>1 DEF DeleteReplyLost, QueueInv, PassInv
  <2>5. DQ!Issue(o)
    BY <1>13, <2>1 DEF DeleteReplyLost, Enqueue, DQ!Issue
  <2> QED BY <2>1, <2>3, <2>4, <2>5 DEF DQ!Next
<1>14. CASE StartSync
  <2>1. VersionInv'
    BY <1>14, <1>b, VersionStep DEF StartSync, SyncIdle
  <2>2. PassInv'
    BY <1>14 DEF StartSync, SyncIdle, QueueInv, PassInv
  <2> QED BY <1>14, <2>1, <2>2 DEF StartSync, SyncIdle, DQ!vars
<1>15. CASE PushAccepted
  <2>1. PICK o \in sync.todo : accepted' = accepted \cup {o}
    BY <1>15 DEF PushAccepted, Apply
  <2>2. o \in issued
    BY DEF QueueInv, PassInv
  <2>3. VersionInv'
    BY <1>15, <1>b, VersionStep DEF PushAccepted
  <2>4. PassInv'
    BY <1>15, <2>1 DEF PushAccepted, Apply, QueueInv, PassInv, TypeOK, SyncPass
  <2>5. DQ!Accept(o)
    BY <1>15, <2>1, <2>2 DEF PushAccepted, DQ!Accept
  <2> QED BY <2>2, <2>3, <2>4, <2>5 DEF DQ!Next, QueueInv, TypeOK
<1>16. CASE PushRefused
  <2>1. VersionInv'
    BY <1>16, <1>b, VersionStep DEF PushRefused, TypeOK, SyncPass
  <2>2. PassInv'
    BY <1>16 DEF PushRefused, TypeOK, SyncPass, QueueInv, PassInv
  <2> QED BY <1>16, <2>1, <2>2 DEF PushRefused, TypeOK, SyncPass, DQ!vars
<1>17. CASE PushFailed
  <2>1. VersionInv'
    BY <1>17, <1>b, VersionStep DEF PushFailed, TypeOK, SyncPass
  <2>2. PassInv'
    BY <1>17 DEF PushFailed, TypeOK, SyncPass, QueueInv, PassInv
  <2> QED BY <1>17, <2>1, <2>2 DEF PushFailed, TypeOK, SyncPass, DQ!vars
<1>18. CASE PushReply
  <2>1. VersionInv'
    BY <1>18, <1>b, VersionStep DEF PushReply, TypeOK, SyncPass
  <2>2. PassInv'
    BY <1>18 DEF PushReply, TypeOK, SyncPass, QueueInv, PassInv
  <2> QED BY <1>18, <2>1, <2>2 DEF PushReply, TypeOK, SyncPass, DQ!vars
<1>19. CASE LoseConnection
  <2>1. VersionInv'
    BY <1>19, <1>b, VersionStep DEF LoseConnection, Abandon, SyncIdle
  <2>2. PassInv'
    BY <1>19 DEF LoseConnection, Abandon, SyncIdle, QueueInv, PassInv
  <2> QED BY <1>19, <2>1, <2>2 DEF LoseConnection, Abandon, SyncIdle, DQ!vars
<1>20. CASE OrphanAccepted
  <2>1. PICK o \in orphan : accepted' = accepted \cup {o}
    BY <1>20 DEF OrphanAccepted, Apply
  <2>2. o \in issued
    BY DEF QueueInv, PassInv
  <2>3. VersionInv'
    BY <1>20, <1>b, VersionStep DEF OrphanAccepted
  <2>4. PassInv'
    BY <1>20, <2>1 DEF OrphanAccepted, Apply, QueueInv, PassInv, TypeOK, SyncPass
  <2>5. DQ!Accept(o)
    BY <1>20, <2>1, <2>2 DEF OrphanAccepted, DQ!Accept
  <2> QED BY <2>2, <2>3, <2>4, <2>5 DEF DQ!Next, QueueInv, TypeOK
<1>21. CASE OrphanRefused
  <2>1. VersionInv'
    BY <1>21, <1>b, VersionStep DEF OrphanRefused
  <2>2. PassInv'
    BY <1>21 DEF OrphanRefused, QueueInv, PassInv
  <2> QED BY <1>21, <2>1, <2>2 DEF OrphanRefused, DQ!vars
<1>22. CASE AckRefused
  <2>1. VersionInv'
    BY <1>22, <1>b, VersionStep DEF AckRefused, TypeOK, SyncPass
  <2>2. PassInv'
    BY <1>22 DEF AckRefused, TypeOK, SyncPass, QueueInv, PassInv
  <2> QED BY <1>22, <2>1, <2>2 DEF AckRefused, TypeOK, SyncPass, DQ!vars
<1>23. CASE AckOk
  <2>1. PICK o \in sync.todo, p \in sync.batch :
          /\ IsFirst(o, sync.todo)
          /\ o \in sync.ok
          /\ sync' = IF p.op = "create"
                     THEN [sync EXCEPT !.pc = "mark",
                             !.read = [NoCopies EXCEPT ![o.row] = mirror[o.row]]]
                     ELSE [sync EXCEPT !.pc = "remove"]
    BY <1>23 DEF AckOk
  <2>2. /\ sync'.batch = sync.batch
        /\ sync'.todo = sync.todo
        /\ sync'.ok = sync.ok
    BY <2>1 DEF QueueInv, TypeOK, SyncPass
  <2>3. ASSUME NEW q \in sync.todo, IsFirst(q, sync.todo) PROVE q \in sync.ok
    <3>1. q.ver = o.ver /\ q \in issued /\ o \in issued
      BY <2>1, <2>3 DEF IsFirst, QueueInv, PassInv, TypeOK, Op
    <3> QED BY <2>1, <3>1 DEF QueueInv, VersionInv
  <2>4. VersionInv'
    BY <1>23, <1>b, VersionStep DEF AckOk
  <2>5. PassInv'
    BY <1>23, <2>2, <2>3 DEF AckOk, QueueInv, PassInv
  <2> QED BY <1>23, <2>4, <2>5 DEF AckOk, DQ!vars
<1>24. CASE Mark
  <2>1. VersionInv'
    BY <1>24, <1>b, VersionStep DEF Mark, TypeOK, SyncPass
  <2>2. PassInv'
    BY <1>24 DEF Mark, TypeOK, SyncPass, QueueInv, PassInv
  <2> QED BY <1>24, <2>1, <2>2 DEF Mark, TypeOK, SyncPass, DQ!vars
<1>25. CASE Remove
  <2>1. PICK o \in sync.todo, p \in sync.batch :
          /\ sync.pc = "remove"
          /\ IsFirst(o, sync.todo)
          /\ IsTarget(p, o, sync.batch)
          /\ queue' = queue \ {p}
          /\ sync' = [sync EXCEPT !.pc = "ack", !.todo = @ \ {o}]
    BY <1>25 DEF Remove
  <2>2. o \in accepted /\ o \in issued /\ p \in issued
    BY <2>1 DEF QueueInv, PassInv
  <2>3. o.row = p.row /\ o.ver <= p.ver
    BY <2>1 DEF IsTarget, QueueInv, PassInv
  <2>4. DQ!Settled(p)
    <3>1. CASE o.ver = p.ver
      BY <2>2, <3>1 DEF DQ!Settled, QueueInv, VersionInv
    <3>2. CASE o.ver # p.ver
      <4>1. o.ver \in Nat /\ p.ver \in Nat
        BY <2>2 DEF QueueInv, TypeOK, Op
      <4>2. o.ver < p.ver
        BY <2>3, <3>2, <4>1
      <4> QED BY <2>2, <2>3, <4>2 DEF DQ!Settled
    <3> QED BY <3>1, <3>2
  <2>5. VersionInv'
    BY <1>25, <1>b, VersionStep DEF Remove
  <2>6. PassInv'
    BY <1>25, <2>1 DEF Remove, QueueInv, PassInv, TypeOK, SyncPass
  <2>7. CASE p \in queue
    <3>1. DQ!Retire(p)
      BY <1>25, <2>1, <2>4, <2>7 DEF Remove, DQ!Retire
    <3> QED BY <2>2, <2>5, <2>6, <3>1 DEF DQ!Next, QueueInv, TypeOK
  <2>8. CASE p \notin queue
    <3>1. UNCHANGED DQ!vars
      BY <1>25, <2>1, <2>8 DEF Remove, DQ!vars
    <3> QED BY <2>5, <2>6, <3>1
  <2> QED BY <2>7, <2>8
<1>26. CASE PushDone
  <2>1. VersionInv'
    BY <1>26, <1>b, VersionStep DEF PushDone, SyncIdle
  <2>2. PassInv'
    BY <1>26 DEF PushDone, SyncIdle, QueueInv, PassInv
  <2> QED BY <1>26, <2>1, <2>2 DEF PushDone, SyncIdle, DQ!vars
<1>27. CASE Query
  <2>1. VersionInv'
    BY <1>27, <1>b, VersionStep DEF Query, TypeOK, SyncPass
  <2>2. PassInv'
    BY <1>27 DEF Query, TypeOK, SyncPass, QueueInv, PassInv
  <2> QED BY <1>27, <2>1, <2>2 DEF Query, TypeOK, SyncPass, DQ!vars
<1>28. CASE Stamp
  <2>1. VersionInv'
    BY <1>28, <1>b, VersionStep DEF Stamp, TypeOK, SyncPass
  <2>2. PassInv'
    BY <1>28 DEF Stamp, TypeOK, SyncPass, QueueInv, PassInv
  <2> QED BY <1>28, <2>1, <2>2 DEF Stamp, TypeOK, SyncPass, DQ!vars
<1>29. CASE MergeRead
  <2>1. VersionInv'
    BY <1>29, <1>b, VersionStep DEF MergeRead, TypeOK, SyncPass
  <2>2. PassInv'
    BY <1>29 DEF MergeRead, TypeOK, SyncPass, QueueInv, PassInv
  <2> QED BY <1>29, <2>1, <2>2 DEF MergeRead, TypeOK, SyncPass, DQ!vars
<1>30. CASE MergeClear
  <2>1. VersionInv'
    BY <1>30, <1>b, VersionStep DEF MergeClear, TypeOK, SyncPass
  <2>2. PassInv'
    BY <1>30 DEF MergeClear, TypeOK, SyncPass, QueueInv, PassInv
  <2> QED BY <1>30, <2>1, <2>2 DEF MergeClear, TypeOK, SyncPass, DQ!vars
<1>31. CASE MergePut
  <2>1. VersionInv'
    BY <1>31, <1>b, VersionStep DEF MergePut, TypeOK, SyncPass, SyncIdle
  <2>2. PassInv'
    BY <1>31 DEF MergePut, TypeOK, SyncPass, SyncIdle, QueueInv, PassInv
  <2> QED BY <1>31, <2>1, <2>2 DEF MergePut, TypeOK, SyncPass, SyncIdle, DQ!vars
<1>32. CASE SaveLastSync
  <2>1. VersionInv'
    BY <1>32, <1>b, VersionStep DEF SaveLastSync, SyncIdle
  <2>2. PassInv'
    BY <1>32 DEF SaveLastSync, SyncIdle, QueueInv, PassInv
  <2> QED BY <1>32, <2>1, <2>2 DEF SaveLastSync, SyncIdle, DQ!vars
<1>33. CASE Kill
  <2>1. VersionInv'
    BY <1>33, <1>b, VersionStep DEF Kill, Abandon, SyncIdle, UserIdle
  <2>2. PassInv'
    BY <1>33 DEF Kill, Abandon, SyncIdle, UserIdle, QueueInv, PassInv
  <2> QED BY <1>33, <2>1, <2>2 DEF Kill, Abandon, SyncIdle, UserIdle, DQ!vars
<1>34. ASSUME NEW r \in Row, RemoteCreate(r) PROVE Goal
  <2>1. VersionInv'
    BY <1>34, <1>a, <1>b, VersionStep DEF RemoteCreate, RemoteEdit
  <2>2. PassInv'
    BY <1>34 DEF RemoteCreate, RemoteEdit, QueueInv, PassInv
  <2> QED BY <1>34, <2>1, <2>2 DEF RemoteCreate, RemoteEdit, DQ!vars
<1>35. ASSUME NEW r \in Row, RemoteUpdate(r) PROVE Goal
  <2>1. VersionInv'
    BY <1>35, <1>a, <1>b, VersionStep DEF RemoteUpdate, RemoteEdit
  <2>2. PassInv'
    BY <1>35 DEF RemoteUpdate, RemoteEdit, QueueInv, PassInv
  <2> QED BY <1>35, <2>1, <2>2 DEF RemoteUpdate, RemoteEdit, DQ!vars
<1>36. ASSUME NEW r \in Row, RemoteDelete(r) PROVE Goal
  <2>1. VersionInv'
    BY <1>36, <1>a, <1>b, VersionStep DEF RemoteDelete, RemoteEdit
  <2>2. PassInv'
    BY <1>36 DEF RemoteDelete, RemoteEdit, QueueInv, PassInv
  <2> QED BY <1>36, <2>1, <2>2 DEF RemoteDelete, RemoteEdit, DQ!vars
<1>37. CASE UNCHANGED vars
  BY <1>37, <1>b, VersionStep DEF vars, QueueInv, PassInv, DQ!vars
<1> QED
  BY <1>1, <1>2, <1>3, <1>4, <1>5, <1>6, <1>7, <1>8, <1>9, <1>10, <1>11,
     <1>12, <1>13, <1>14, <1>15, <1>16, <1>17, <1>18, <1>19, <1>20, <1>21, <1>22,
     <1>23, <1>24, <1>25, <1>26, <1>27, <1>28, <1>29, <1>30, <1>31, <1>32, <1>33,
     <1>34, <1>35, <1>36, <1>37
  DEF Next, User, Push, Ack, Pull, Remote

\* Every step keeps the inductive invariant.
LEMMA QueueInvStep == QueueInv /\ [Next]_vars => QueueInv'
BY TypeStep, QueueStep DEF QueueInv

\* The initial state satisfies it.
LEMMA QueueInvInit == Init => QueueInv
<1> SUFFICES ASSUME Init PROVE QueueInv
  OBVIOUS
<1>1. TypeOK
  BY ConstantsOK, IdleTypes DEF Init, UserIdle, TypeOK
<1>2. PassInv /\ VersionInv
  BY DEF Init, PassInv, VersionInv, SyncIdle, UserIdle
<1> QED BY <1>1, <1>2 DEF QueueInv

\* Every pass acts only on issued operations and real results, and no two
\* operations share a queue position: the inductive invariant behind the two
\* theorems below.
THEOREM QueueInvariant == Spec => []QueueInv
BY QueueInvInit, QueueInvStep, PTL DEF Spec

\* The queue, the push and the acknowledgement loop, with lost replies,
\* repeated pushes and crashes, implement DeliveryQueue: an operation is
\* issued once, accepted any number of times, and retired one at a time, when
\* it is settled.
THEOREM QueueRefines == Spec => ImplementsDeliveryQueue
<1>1. Init => DQ!Init
  BY DEF Init, DQ!Init
<1>2. QueueInv /\ [Next]_vars => [DQ!Next]_(DQ!vars)
  BY QueueStep
<1> QED
  BY <1>1, <1>2, QueueInvariant, PTL DEF Spec, DQ!Spec, ImplementsDeliveryQueue

\* No step of the abstract queue forgets an operation that is not settled.
LEMMA NothingForgotten ==
  NoSilentLoss /\ [DQ!Next]_(DQ!vars) => NoSilentLoss'
<1> SUFFICES ASSUME NoSilentLoss, [DQ!Next]_(DQ!vars), NEW o \in issued'
             PROVE  o \in queue' \/ DQ!Settled(o)'
  BY DEF NoSilentLoss
<1>1. accepted \subseteq accepted'
  BY DEF DQ!Next, DQ!Issue, DQ!Accept, DQ!Retire, DQ!vars
<1>2. DQ!Settled(o) => DQ!Settled(o)'
  BY <1>1 DEF DQ!Settled
<1>3. CASE \E p \in Op : DQ!Issue(p)
  BY <1>2, <1>3 DEF DQ!Issue, NoSilentLoss
<1>4. CASE \E p \in Op : DQ!Accept(p)
  BY <1>2, <1>4 DEF DQ!Accept, NoSilentLoss
<1>5. CASE \E p \in Op : DQ!Retire(p)
  BY <1>2, <1>5 DEF DQ!Retire, DQ!Settled, NoSilentLoss
<1>6. CASE UNCHANGED DQ!vars
  BY <1>2, <1>6 DEF DQ!vars, NoSilentLoss
<1> QED BY <1>3, <1>4, <1>5, <1>6 DEF DQ!Next

\* An operation leaves the queue only when the server has accepted it or an
\* older one on the same row.
THEOREM NothingLost == Spec => []NoSilentLoss
<1>1. Init => NoSilentLoss
  BY DEF Init, NoSilentLoss
<1>2. QueueInv /\ NoSilentLoss /\ [Next]_vars => NoSilentLoss'
  BY QueueStep, NothingForgotten
<1> QED BY <1>1, <1>2, QueueInvariant, PTL DEF Spec

------------------------------------------------------------------------------
(* Row ids.  Whoever hands an id out, the create is the first operation on  *)
(* its row, so that a result taken for a create is that create's own.       *)

RowInv ==
  /\ \A r \in Row : server[r] > 0 => r \in taken
  /\ \A r \in Row : sync.pulled[r] > 0 => r \in taken
  /\ \A r \in Row : mirror[r].ver > 0 => r \in taken
  /\ \A r \in Row : sync.read[r].ver > 0 => r \in taken
  /\ user.pc # "idle" => user.row \in taken
  /\ \A o \in issued : o.row \in taken
  /\ \A c, o \in issued : c.op = "create" /\ c.row = o.row => c.ver <= o.ver

\* What the device and the server have seen of a row.
StoredInv ==
  /\ \A r \in Row : server[r] > 0 => r \in stored
  /\ \A o \in accepted : o.op # "delete" => o.row \in stored
  /\ \A r \in Row : sync.pulled[r] > 0 => r \in stored
  /\ \A r \in Row : sync.read[r].synced => r \in stored
  /\ SyncedMeansStored
  /\ user.pc = "update" /\ user.copy.synced => user.row \in stored
  /\ user.pc = "reply" /\ user.op # "delete" => user.row \in stored
  /\ sync.pc = "mark" =>
       \A o \in sync.todo : IsFirst(o, sync.todo) => o.row \in stored

MirrorInv == QueueInv /\ RowInv /\ StoredInv

\* A write to the server keeps its rows among those handed out, and those
\* ever stored.
LEMMA StoreRows ==
  ASSUME QueueInv, RowInv, StoredInv, NEW r \in Row, NEW v \in Nat, Store(r, v),
         r \in taken', taken \subseteq taken'
  PROVE  /\ \A q \in Row : server'[q] > 0 => q \in taken' /\ q \in stored'
         /\ stored \subseteq stored'
         /\ v > 0 => r \in stored'
BY DEF Store, RowInv, StoredInv, QueueInv, TypeOK

\* The same for an accepted operation, which leaves its row stored unless it
\* is a delete.
LEMMA ApplyRows ==
  ASSUME QueueInv, RowInv, StoredInv, NEW o \in issued, Apply(o), UNCHANGED taken
  PROVE  /\ \A q \in Row : server'[q] > 0 => q \in taken' /\ q \in stored'
         /\ stored \subseteq stored'
         /\ accepted' = accepted \cup {o}
         /\ o.op # "delete" => o.row \in stored'
<1>1. o.row \in Row /\ o.ver \in 1 .. MaxEdits /\ o.row \in taken
  BY DEF QueueInv, TypeOK, Op, RowInv
<1>2. accepted' = accepted \cup {o}
  BY DEF Apply
<1>3. CASE IsReplay(o)
  <2>1. UNCHANGED <<server, stored>> /\ server[o.row] > 0
    BY <1>3 DEF Apply, IsReplay, serverVars
  <2> QED BY <1>1, <1>2, <2>1 DEF RowInv, StoredInv
<1>4. CASE ~IsReplay(o)
  <2> DEFINE v == IF o.op = "delete" THEN 0 ELSE o.ver
  <2>1. Store(o.row, v) /\ v \in Nat /\ (o.op # "delete" => v > 0)
    BY <1>1, <1>4 DEF Apply
  <2> HIDE DEF v
  <2> QED BY <1>1, <1>2, <2>1, StoreRows
<1> QED BY <1>3, <1>4

\* Every step keeps RowInv.
LEMMA RowStep == MirrorInv /\ [Next]_vars => RowInv'
<1> SUFFICES ASSUME MirrorInv, [Next]_vars PROVE RowInv'
  OBVIOUS
<1>a. QueueInv /\ RowInv /\ StoredInv /\ TypeOK
  BY DEF MirrorInv, QueueInv
<1>1. ASSUME NEW r \in Row, QueueCreate(r) PROVE RowInv'
  BY <1>1, <1>a, NextEditFresh DEF QueueCreate, NextEdit, Enqueue, NewOp, WriteMirror, TypeOK, RowInv, serverVars
<1>2. ASSUME NEW r \in Row, QueueCreateKilled(r) PROVE RowInv'
  BY <1>2, <1>a, NextEditFresh DEF QueueCreateKilled, NextEdit, Enqueue, NewOp, TypeOK, RowInv, serverVars
<1>3. ASSUME NEW r \in Row, QueueUpdate(r) PROVE RowInv'
  BY <1>3, <1>a, NextEditFresh DEF QueueUpdate, NextEdit, Enqueue, NewOp, Shown, UserIdle, TypeOK, RowInv, serverVars
<1>4. ASSUME NEW r \in Row, QueueDelete(r) PROVE RowInv'
  BY <1>4, <1>a, NextEditFresh DEF QueueDelete, NextEdit, Enqueue, NewOp, Shown, TypeOK, RowInv, serverVars
<1>5. ASSUME NEW r \in Row, RestCreate(r) PROVE RowInv'
  <2>1. \A q \in Row : server'[q] > 0 => q \in taken' /\ q \in stored'
    BY <1>5, <1>a, StoreRows DEF RestCreate, NextEdit, RemoteEdit, RowInv, TypeOK
  <2>2. stored \subseteq stored'
    BY <1>5 DEF RestCreate, Store
  <2> QED BY <1>5, <1>a, <2>1, <2>2 DEF RestCreate, AwaitReply, RowInv
<1>6. ASSUME NEW r \in Row, RestUpdate(r) PROVE RowInv'
  <2>1. \A q \in Row : server'[q] > 0 => q \in taken' /\ q \in stored'
    BY <1>6, <1>a, StoreRows DEF RestUpdate, NextEdit, RemoteEdit, RowInv, TypeOK
  <2>2. stored \subseteq stored'
    BY <1>6 DEF RestUpdate, Store
  <2> QED BY <1>6, <1>a, <2>1, <2>2 DEF RestUpdate, AwaitReply, RowInv
<1>7. ASSUME NEW r \in Row, RestDelete(r) PROVE RowInv'
  <2>1. \A q \in Row : server'[q] > 0 => q \in taken' /\ q \in stored'
    BY <1>7, <1>a, StoreRows DEF RestDelete, NextEdit, RemoteEdit, RowInv, TypeOK
  <2>2. stored \subseteq stored'
    BY <1>7 DEF RestDelete, Store
  <2> QED BY <1>7, <1>a, <2>1, <2>2 DEF RestDelete, AwaitReply, RowInv
<1>8. ASSUME NEW r \in Row, CreateReplyLost(r) PROVE RowInv'
  <2> DEFINE o == NewOp("create", r, user.ver)
  <2>1. /\ issued' = issued \cup {o}
        /\ taken' = taken \cup {r} /\ r \notin taken
        /\ o.row = r /\ o.op = "create" /\ o.ver = user.ver
        /\ mirror' = [mirror EXCEPT ![r] = [ver |-> user.ver, synced |-> FALSE]]
        /\ UNCHANGED <<server, sync>> /\ user' = UserIdle
    BY <1>8 DEF CreateReplyLost, Enqueue, NewOp, WriteMirror, serverVars
  <2>2. user.ver \in Nat
    BY <1>8, <1>a, UserFields DEF CreateReplyLost
  <2> HIDE DEF o
  <2>3. \A c, p \in issued' : c.op = "create" /\ c.row = p.row => c.ver <= p.ver
    BY <1>a, <2>1, <2>2 DEF RowInv
  <2>4. \A q \in Row : mirror'[q].ver > 0 => q \in taken'
    BY <1>a, <2>1 DEF RowInv, TypeOK
  <2> QED BY <1>a, <2>1, <2>3, <2>4 DEF RowInv, UserIdle
<1>9. CASE FinishUpdate
  BY <1>9, <1>a, UserFields DEF FinishUpdate, WriteMirror, UserIdle, TypeOK, RowInv, serverVars
<1>10. CASE FinishDelete
  BY <1>10, <1>a, UserFields DEF FinishDelete, WriteMirror, UserIdle, NoCopy, TypeOK, RowInv, serverVars
<1>11. CASE RestReply
  BY <1>11, <1>a, UserFields DEF RestReply, WriteMirror, UserIdle, NoCopy, TypeOK, RowInv, serverVars
<1>12. CASE UpdateReplyLost
  <2> DEFINE o == NewOp("update", user.row, user.ver)
  <2>1. /\ issued' = issued \cup {o}
        /\ o.row = user.row /\ o.op = "update" /\ o.ver = user.ver
        /\ UNCHANGED <<server, taken, sync, mirror>>
    BY <1>12 DEF UpdateReplyLost, Enqueue, NewOp, serverVars
  <2>2. /\ user.ver \in Nat /\ user.row \in taken
        /\ \A p \in issued : p.ver < user.ver /\ p.ver \in Nat
    BY <1>12, <1>a, UserFields DEF UpdateReplyLost, QueueInv, VersionInv, RowInv, TypeOK, Op
  <2>3. user'.pc # "idle" => user'.row = user.row
    BY <1>12, <1>a, UserFields DEF UpdateReplyLost, BusyUser, UserIdle
  <2> HIDE DEF o
  <2>4. \A c, p \in issued' : c.op = "create" /\ c.row = p.row => c.ver <= p.ver
    BY <1>a, <2>1, <2>2 DEF RowInv
  <2> QED BY <1>a, <2>1, <2>2, <2>3, <2>4 DEF RowInv
<1>13. CASE DeleteReplyLost
  <2> DEFINE o == NewOp("delete", user.row, user.ver)
  <2>1. /\ issued' = issued \cup {o}
        /\ o.row = user.row /\ o.op = "delete" /\ o.ver = user.ver
        /\ UNCHANGED <<server, taken, sync, mirror>>
    BY <1>13 DEF DeleteReplyLost, Enqueue, NewOp, serverVars
  <2>2. /\ user.ver \in Nat /\ user.row \in taken
        /\ \A p \in issued : p.ver < user.ver /\ p.ver \in Nat
    BY <1>13, <1>a, UserFields DEF DeleteReplyLost, QueueInv, VersionInv, RowInv, TypeOK, Op
  <2>3. user'.pc # "idle" => user'.row = user.row
    BY <1>13, <1>a, UserFields DEF DeleteReplyLost, BusyUser, UserIdle
  <2> HIDE DEF o
  <2>4. \A c, p \in issued' : c.op = "create" /\ c.row = p.row => c.ver <= p.ver
    BY <1>a, <2>1, <2>2 DEF RowInv
  <2> QED BY <1>a, <2>1, <2>2, <2>3, <2>4 DEF RowInv
<1>14. CASE StartSync
  BY <1>14, <1>a DEF StartSync, SyncIdle, Nothing, NoCopies, NoCopy, TypeOK, RowInv, serverVars
<1>15. CASE PushAccepted
  <2>1. PICK o \in sync.todo : Apply(o)
    BY <1>15 DEF PushAccepted
  <2>2. o \in issued
    BY <1>a DEF QueueInv, PassInv
  <2>3. /\ \A q \in Row : server'[q] > 0 => q \in taken' /\ q \in stored'
        /\ stored \subseteq stored'
        /\ accepted' = accepted \cup {o}
        /\ o.op # "delete" => o.row \in stored'
    BY <1>15, <1>a, <2>1, <2>2, ApplyRows DEF PushAccepted
  <2> QED BY <1>15, <1>a, <2>3 DEF PushAccepted, TypeOK, SyncPass, RowInv
<1>16. CASE PushRefused
  BY <1>16, <1>a DEF PushRefused, SyncPass, TypeOK, RowInv, serverVars
<1>17. CASE PushFailed
  BY <1>17, <1>a DEF PushFailed, SyncPass, TypeOK, RowInv, serverVars
<1>18. CASE PushReply
  BY <1>18, <1>a DEF PushReply, SyncPass, TypeOK, RowInv, serverVars
<1>19. CASE LoseConnection
  BY <1>19, <1>a DEF LoseConnection, Abandon, SyncIdle, Nothing, NoCopies, NoCopy, TypeOK, RowInv, serverVars
<1>20. CASE OrphanAccepted
  <2>1. PICK o \in orphan : Apply(o)
    BY <1>20 DEF OrphanAccepted
  <2>2. o \in issued
    BY <1>a DEF QueueInv, PassInv
  <2>3. /\ \A q \in Row : server'[q] > 0 => q \in taken' /\ q \in stored'
        /\ stored \subseteq stored'
        /\ accepted' = accepted \cup {o}
        /\ o.op # "delete" => o.row \in stored'
    BY <1>20, <1>a, <2>1, <2>2, ApplyRows DEF OrphanAccepted
  <2> QED BY <1>20, <1>a, <2>3 DEF OrphanAccepted, TypeOK, SyncPass, RowInv
<1>21. CASE OrphanRefused
  BY <1>21, <1>a DEF OrphanRefused, TypeOK, RowInv, serverVars
<1>22. CASE AckRefused
  BY <1>22, <1>a DEF AckRefused, SyncPass, TypeOK, RowInv, serverVars
<1>23. CASE AckOk
  BY <1>23, <1>a, SyncFields DEF AckOk, SyncPass, NoCopies, NoCopy, TypeOK, RowInv, serverVars
<1>24. CASE Mark
  BY <1>24, <1>a, SyncFields DEF Mark, SyncPass, NoCopies, NoCopy, TypeOK, RowInv, serverVars
<1>25. CASE Remove
  BY <1>25, <1>a DEF Remove, SyncPass, TypeOK, RowInv, serverVars
<1>26. CASE PushDone
  BY <1>26, <1>a DEF PushDone, SyncIdle, Nothing, NoCopies, NoCopy, TypeOK, RowInv, serverVars
<1>27. CASE Query
  BY <1>27, <1>a DEF Query, SyncPass, TypeOK, RowInv, serverVars
<1>28. CASE Stamp
  BY <1>28, <1>a DEF Stamp, SyncPass, TypeOK, RowInv, serverVars
<1>29. CASE MergeRead
  BY <1>29, <1>a, SyncFields DEF MergeRead, SyncPass, NoCopy, TypeOK, RowInv, serverVars
<1>30. CASE MergeClear
  BY <1>30, <1>a DEF MergeClear, SyncPass, NoCopy, TypeOK, RowInv, serverVars
<1>31. CASE MergePut
  BY <1>31, <1>a, SyncFields DEF MergePut, SyncPass, SyncIdle, Nothing, NoCopies, NoCopy, TypeOK, RowInv, serverVars
<1>32. CASE SaveLastSync
  BY <1>32, <1>a DEF SaveLastSync, SyncIdle, Nothing, NoCopies, NoCopy, TypeOK, RowInv, serverVars
<1>33. CASE Kill
  BY <1>33, <1>a DEF Kill, Abandon, SyncIdle, Nothing, NoCopies, NoCopy, UserIdle, TypeOK, RowInv, serverVars
<1>34. ASSUME NEW r \in Row, RemoteCreate(r) PROVE RowInv'
  <2>1. \A q \in Row : server'[q] > 0 => q \in taken' /\ q \in stored'
    BY <1>34, <1>a, StoreRows DEF RemoteCreate, NextEdit, RemoteEdit, RowInv, TypeOK
  <2>2. stored \subseteq stored'
    BY <1>34 DEF RemoteCreate, Store
  <2> QED BY <1>34, <1>a, <2>1, <2>2 DEF RemoteCreate, RemoteEdit, RowInv
<1>35. ASSUME NEW r \in Row, RemoteUpdate(r) PROVE RowInv'
  <2>1. \A q \in Row : server'[q] > 0 => q \in taken' /\ q \in stored'
    BY <1>35, <1>a, StoreRows DEF RemoteUpdate, NextEdit, RemoteEdit, RowInv, TypeOK
  <2>2. stored \subseteq stored'
    BY <1>35 DEF RemoteUpdate, Store
  <2> QED BY <1>35, <1>a, <2>1, <2>2 DEF RemoteUpdate, RemoteEdit, RowInv
<1>36. ASSUME NEW r \in Row, RemoteDelete(r) PROVE RowInv'
  <2>1. \A q \in Row : server'[q] > 0 => q \in taken' /\ q \in stored'
    BY <1>36, <1>a, StoreRows DEF RemoteDelete, NextEdit, RemoteEdit, RowInv, TypeOK
  <2>2. stored \subseteq stored'
    BY <1>36 DEF RemoteDelete, Store
  <2> QED BY <1>36, <1>a, <2>1, <2>2 DEF RemoteDelete, RemoteEdit, RowInv
<1>37. CASE UNCHANGED vars
  BY <1>37, <1>a DEF vars, RowInv
<1> QED
  BY <1>1, <1>2, <1>3, <1>4, <1>5, <1>6, <1>7, <1>8, <1>9, <1>10, <1>11,
     <1>12, <1>13, <1>14, <1>15, <1>16, <1>17, <1>18, <1>19, <1>20, <1>21, <1>22,
     <1>23, <1>24, <1>25, <1>26, <1>27, <1>28, <1>29, <1>30, <1>31, <1>32, <1>33,
     <1>34, <1>35, <1>36, <1>37
  DEF Next, User, Push, Ack, Pull, Remote

\* Every step keeps StoredInv.
LEMMA StoredStep == MirrorInv /\ [Next]_vars => StoredInv'
<1> SUFFICES ASSUME MirrorInv, [Next]_vars PROVE StoredInv'
  OBVIOUS
<1>a. QueueInv /\ RowInv /\ StoredInv /\ TypeOK
  BY DEF MirrorInv, QueueInv
<1>1. ASSUME NEW r \in Row, QueueCreate(r) PROVE StoredInv'
  BY <1>1, <1>a, NextEditFresh DEF QueueCreate, NextEdit, Enqueue, NewOp, WriteMirror, TypeOK, StoredInv, SyncedMeansStored, serverVars
<1>2. ASSUME NEW r \in Row, QueueCreateKilled(r) PROVE StoredInv'
  BY <1>2, <1>a, NextEditFresh DEF QueueCreateKilled, NextEdit, Enqueue, NewOp, TypeOK, StoredInv, SyncedMeansStored, serverVars
<1>3. ASSUME NEW r \in Row, QueueUpdate(r) PROVE StoredInv'
  BY <1>3, <1>a, NextEditFresh DEF QueueUpdate, NextEdit, Enqueue, NewOp, Shown, UserIdle, TypeOK, StoredInv, SyncedMeansStored, serverVars
<1>4. ASSUME NEW r \in Row, QueueDelete(r) PROVE StoredInv'
  BY <1>4, <1>a, NextEditFresh DEF QueueDelete, NextEdit, Enqueue, NewOp, Shown, TypeOK, StoredInv, SyncedMeansStored, serverVars
<1>5. ASSUME NEW r \in Row, RestCreate(r) PROVE StoredInv'
  <2>1. /\ \A q \in Row : server'[q] > 0 => q \in taken' /\ q \in stored'
        /\ r \in stored'
    BY <1>5, <1>a, StoreRows DEF RestCreate, NextEdit, TypeOK
  <2>2. stored \subseteq stored'
    BY <1>5 DEF RestCreate, Store
  <2> QED BY <1>5, <1>a, <2>1, <2>2 DEF RestCreate, AwaitReply, StoredInv,
             SyncedMeansStored
<1>6. ASSUME NEW r \in Row, RestUpdate(r) PROVE StoredInv'
  <2>1. \A q \in Row : server'[q] > 0 => q \in taken' /\ q \in stored'
    BY <1>6, <1>a, StoreRows DEF RestUpdate, NextEdit, RemoteEdit, RowInv, TypeOK
  <2>2. stored \subseteq stored'
    BY <1>6 DEF RestUpdate, Store
  <2> QED BY <1>6, <1>a, <2>1, <2>2 DEF RestUpdate, AwaitReply, StoredInv, SyncedMeansStored
<1>7. ASSUME NEW r \in Row, RestDelete(r) PROVE StoredInv'
  <2>1. \A q \in Row : server'[q] > 0 => q \in taken' /\ q \in stored'
    BY <1>7, <1>a, StoreRows DEF RestDelete, NextEdit, RemoteEdit, RowInv, TypeOK
  <2>2. stored \subseteq stored'
    BY <1>7 DEF RestDelete, Store
  <2> QED BY <1>7, <1>a, <2>1, <2>2 DEF RestDelete, AwaitReply, StoredInv, SyncedMeansStored
<1>8. ASSUME NEW r \in Row, CreateReplyLost(r) PROVE StoredInv'
  BY <1>8, <1>a, LostReplyFresh DEF CreateReplyLost, Enqueue, NewOp, WriteMirror, UserIdle, TypeOK, StoredInv, SyncedMeansStored, serverVars
<1>9. CASE FinishUpdate
  BY <1>9, <1>a, UserFields DEF FinishUpdate, WriteMirror, UserIdle, TypeOK, StoredInv, SyncedMeansStored, serverVars
<1>10. CASE FinishDelete
  BY <1>10, <1>a, UserFields DEF FinishDelete, WriteMirror, UserIdle, NoCopy, TypeOK, StoredInv, SyncedMeansStored, serverVars
<1>11. CASE RestReply
  BY <1>11, <1>a, UserFields DEF RestReply, WriteMirror, UserIdle, NoCopy, TypeOK, StoredInv, SyncedMeansStored, serverVars
<1>12. CASE UpdateReplyLost
  BY <1>12, <1>a, UserFields, LostReplyFresh DEF UpdateReplyLost, Enqueue, NewOp, UserIdle, BusyUser, TypeOK, StoredInv, SyncedMeansStored, serverVars
<1>13. CASE DeleteReplyLost
  BY <1>13, <1>a, UserFields, LostReplyFresh DEF DeleteReplyLost, Enqueue, NewOp, UserIdle, BusyUser, TypeOK, StoredInv, SyncedMeansStored, serverVars
<1>14. CASE StartSync
  BY <1>14, <1>a DEF StartSync, SyncIdle, Nothing, NoCopies, NoCopy, TypeOK, StoredInv, SyncedMeansStored, serverVars
<1>15. CASE PushAccepted
  <2>1. PICK o \in sync.todo : Apply(o)
    BY <1>15 DEF PushAccepted
  <2>2. o \in issued
    BY <1>a DEF QueueInv, PassInv
  <2>3. /\ \A q \in Row : server'[q] > 0 => q \in taken' /\ q \in stored'
        /\ stored \subseteq stored'
        /\ accepted' = accepted \cup {o}
        /\ o.op # "delete" => o.row \in stored'
    BY <1>15, <1>a, <2>1, <2>2, ApplyRows DEF PushAccepted
  <2> QED BY <1>15, <1>a, <2>3 DEF PushAccepted, TypeOK, SyncPass, StoredInv, SyncedMeansStored
<1>16. CASE PushRefused
  BY <1>16, <1>a DEF PushRefused, SyncPass, TypeOK, StoredInv, SyncedMeansStored, serverVars
<1>17. CASE PushFailed
  BY <1>17, <1>a DEF PushFailed, SyncPass, TypeOK, StoredInv, SyncedMeansStored, serverVars
<1>18. CASE PushReply
  BY <1>18, <1>a DEF PushReply, SyncPass, TypeOK, StoredInv, SyncedMeansStored, serverVars
<1>19. CASE LoseConnection
  BY <1>19, <1>a DEF LoseConnection, Abandon, SyncIdle, Nothing, NoCopies, NoCopy, TypeOK, StoredInv, SyncedMeansStored, serverVars
<1>20. CASE OrphanAccepted
  <2>1. PICK o \in orphan : Apply(o)
    BY <1>20 DEF OrphanAccepted
  <2>2. o \in issued
    BY <1>a DEF QueueInv, PassInv
  <2>3. /\ \A q \in Row : server'[q] > 0 => q \in taken' /\ q \in stored'
        /\ stored \subseteq stored'
        /\ accepted' = accepted \cup {o}
        /\ o.op # "delete" => o.row \in stored'
    BY <1>20, <1>a, <2>1, <2>2, ApplyRows DEF OrphanAccepted
  <2> QED BY <1>20, <1>a, <2>3 DEF OrphanAccepted, TypeOK, SyncPass, StoredInv, SyncedMeansStored
<1>21. CASE OrphanRefused
  BY <1>21, <1>a DEF OrphanRefused, TypeOK, StoredInv, SyncedMeansStored, serverVars
<1>22. CASE AckRefused
  BY <1>22, <1>a DEF AckRefused, SyncPass, TypeOK, StoredInv, SyncedMeansStored, serverVars
<1>23. CASE AckOk
  <2>1. PICK o \in sync.todo, p \in sync.batch :
          /\ IsFirst(o, sync.todo)
          /\ o \in sync.ok
          /\ IsTarget(p, o, sync.batch)
          /\ sync' = IF p.op = "create"
                     THEN [sync EXCEPT !.pc = "mark",
                             !.read = [NoCopies EXCEPT ![o.row] = mirror[o.row]]]
                     ELSE [sync EXCEPT !.pc = "remove"]
    BY <1>23 DEF AckOk
  <2>2. /\ o \in issued /\ p \in issued /\ o \in accepted /\ o \in sync.batch
        /\ o.row \in Row /\ o.ver \in Nat /\ p.ver \in Nat
    BY <1>a, <2>1 DEF QueueInv, PassInv, TypeOK, Op
  <2>3. p.row = o.row /\ o.ver <= p.ver
    BY <2>1, <2>2 DEF IsTarget
  <2>4. p.op = "create" => p = o
    BY <1>a, <2>2, <2>3 DEF RowInv, QueueInv, VersionInv
  <2>5. p.op = "create" => o.row \in stored
    BY <1>a, <2>2, <2>4 DEF StoredInv
  <2>6. ASSUME NEW q \in sync.todo, IsFirst(q, sync.todo) PROVE q = o
    <3>1. q.ver = o.ver /\ q \in issued
      BY <1>a, <2>1, <2>2, <2>6 DEF IsFirst, QueueInv, PassInv, TypeOK, Op
    <3> QED BY <1>a, <2>2, <3>1 DEF QueueInv, VersionInv
  <2>7. /\ sync'.todo = sync.todo /\ sync'.pulled = sync.pulled
        /\ sync'.pc = "mark" => p.op = "create"
    BY <2>1 DEF QueueInv, TypeOK, SyncPass
  <2>8. \A r \in Row : sync'.read[r].synced => r \in stored
    BY <1>a, <2>1, <2>2 DEF StoredInv, SyncedMeansStored, TypeOK, SyncPass,
       NoCopies, NoCopy
  <2> QED BY <1>23, <1>a, <2>5, <2>6, <2>7, <2>8 DEF AckOk, StoredInv,
             SyncedMeansStored, serverVars
<1>24. CASE Mark
  BY <1>24, <1>a, SyncFields DEF Mark, SyncPass, NoCopies, NoCopy, TypeOK, StoredInv, SyncedMeansStored, serverVars
<1>25. CASE Remove
  BY <1>25, <1>a DEF Remove, SyncPass, TypeOK, StoredInv, SyncedMeansStored, serverVars
<1>26. CASE PushDone
  BY <1>26, <1>a DEF PushDone, SyncIdle, Nothing, NoCopies, NoCopy, TypeOK, StoredInv, SyncedMeansStored, serverVars
<1>27. CASE Query
  BY <1>27, <1>a DEF Query, SyncPass, TypeOK, StoredInv, SyncedMeansStored, serverVars
<1>28. CASE Stamp
  BY <1>28, <1>a DEF Stamp, SyncPass, TypeOK, StoredInv, SyncedMeansStored, serverVars
<1>29. CASE MergeRead
  BY <1>29, <1>a, SyncFields DEF MergeRead, SyncPass, NoCopy, TypeOK, StoredInv, SyncedMeansStored, serverVars
<1>30. CASE MergeClear
  BY <1>30, <1>a DEF MergeClear, SyncPass, NoCopy, TypeOK, StoredInv, SyncedMeansStored, serverVars
<1>31. CASE MergePut
  BY <1>31, <1>a, SyncFields DEF MergePut, SyncPass, SyncIdle, Nothing, NoCopies, NoCopy, TypeOK, StoredInv, SyncedMeansStored, serverVars
<1>32. CASE SaveLastSync
  BY <1>32, <1>a DEF SaveLastSync, SyncIdle, Nothing, NoCopies, NoCopy, TypeOK, StoredInv, SyncedMeansStored, serverVars
<1>33. CASE Kill
  BY <1>33, <1>a DEF Kill, Abandon, SyncIdle, Nothing, NoCopies, NoCopy, UserIdle, TypeOK, StoredInv, SyncedMeansStored, serverVars
<1>34. ASSUME NEW r \in Row, RemoteCreate(r) PROVE StoredInv'
  <2>1. \A q \in Row : server'[q] > 0 => q \in taken' /\ q \in stored'
    BY <1>34, <1>a, StoreRows DEF RemoteCreate, NextEdit, RemoteEdit, RowInv, TypeOK
  <2>2. stored \subseteq stored'
    BY <1>34 DEF RemoteCreate, Store
  <2> QED BY <1>34, <1>a, <2>1, <2>2 DEF RemoteCreate, RemoteEdit, StoredInv, SyncedMeansStored
<1>35. ASSUME NEW r \in Row, RemoteUpdate(r) PROVE StoredInv'
  <2>1. \A q \in Row : server'[q] > 0 => q \in taken' /\ q \in stored'
    BY <1>35, <1>a, StoreRows DEF RemoteUpdate, NextEdit, RemoteEdit, RowInv, TypeOK
  <2>2. stored \subseteq stored'
    BY <1>35 DEF RemoteUpdate, Store
  <2> QED BY <1>35, <1>a, <2>1, <2>2 DEF RemoteUpdate, RemoteEdit, StoredInv, SyncedMeansStored
<1>36. ASSUME NEW r \in Row, RemoteDelete(r) PROVE StoredInv'
  <2>1. \A q \in Row : server'[q] > 0 => q \in taken' /\ q \in stored'
    BY <1>36, <1>a, StoreRows DEF RemoteDelete, NextEdit, RemoteEdit, RowInv, TypeOK
  <2>2. stored \subseteq stored'
    BY <1>36 DEF RemoteDelete, Store
  <2> QED BY <1>36, <1>a, <2>1, <2>2 DEF RemoteDelete, RemoteEdit, StoredInv, SyncedMeansStored
<1>37. CASE UNCHANGED vars
  BY <1>37, <1>a DEF vars, StoredInv, SyncedMeansStored
<1> QED
  BY <1>1, <1>2, <1>3, <1>4, <1>5, <1>6, <1>7, <1>8, <1>9, <1>10, <1>11,
     <1>12, <1>13, <1>14, <1>15, <1>16, <1>17, <1>18, <1>19, <1>20, <1>21, <1>22,
     <1>23, <1>24, <1>25, <1>26, <1>27, <1>28, <1>29, <1>30, <1>31, <1>32, <1>33,
     <1>34, <1>35, <1>36, <1>37
  DEF Next, User, Push, Ack, Pull, Remote

\* MirrorInv is inductive.
LEMMA MirrorInvInit == Init => MirrorInv
<1>1. Init => RowInv /\ StoredInv
  BY ConstantsOK DEF Init, RowInv, StoredInv, SyncedMeansStored, SyncIdle,
     UserIdle, Nothing, NoCopies, NoCopy
<1> QED BY <1>1, QueueInvInit DEF MirrorInv

LEMMA MirrorInvStep == MirrorInv /\ [Next]_vars => MirrorInv'
BY QueueInvStep, RowStep, StoredStep DEF MirrorInv

\* A row shown as synced is one the server has held: no flag is set by a
\* result that was not given, or given for another row.
THEOREM SyncedStored == Spec => []SyncedMeansStored
<1>1. MirrorInv => SyncedMeansStored
  BY DEF MirrorInv, StoredInv
<1> QED BY <1>1, MirrorInvInit, MirrorInvStep, PTL DEF Spec

------------------------------------------------------------------------------
(* What the next pull does not bring.  A pass shrinks what is due when it   *)
(* saves last_synced_at, and a push what is pending, so that the            *)
(* properties rest on what the pass has read, pulled and merged by then.    *)

\* A pending change of r, as its create is not.
Editing(r) == \E o \in queue : o.row = r /\ o.op # "create"

\* Copy c of a row of the server is as it is there, or due, or being changed; and
\* it is not shown as unsynced without a reason.
Covered(r, c, due) ==
  /\ c.ver = server[r] \/ r \in due \/ Editing(r)
  /\ c.ver = 0 \/ c.synced \/ r \in due \/ HasPending(r)

InMerge == sync.pc \in {"merge", "clear", "put"}

\* The kind of r is being merged, or has been.
Merging(r) == sync.pc \in {"clear", "put"} /\ KindOf[r] = MergeOrder[sync.step]
Merged(r) ==
  \/ sync.pc = "save"
  \/ InMerge /\ \E i \in 1 .. 3 : i < sync.step /\ MergeOrder[i] = KindOf[r]

\* The pull has r as the server has it, or r was not due.
Brought(r) == sync.pulled[r] = server[r] \/ (sync.pulled[r] = 0 /\ r \notin changed)

\* What the mirror shows is covered, also by what is due after the pass once it
\* is merged; in between the copies read stand for it.
Mirrors(r) == (sync.pc = "put" /\ Merging(r)) \/ Covered(r, mirror[r], changed)
Merges(r) ==
  /\ Merged(r) => Covered(r, mirror[r], later)
  /\ Merging(r) => Covered(r, sync.read[r], later)
Pulls(r) ==
  /\ InPullWindow(r) => Brought(r)
  /\ InMerge => Brought(r) \/ r \in later

\* A mark writes what the mirror still shows, and once it is done no operation
\* but a create is needed to explain an unsynced copy.
Answered(r) == mirror[r].ver = 0 \/ mirror[r].synced \/ Editing(r)
Marks(r) ==
  /\ sync.pc = "mark" /\ sync.read[r].ver > 0 => sync.read[r].ver = mirror[r].ver
  /\ sync.pc = "mark" /\ sync.read[r].ver = 0 =>
       \A o \in sync.todo : IsFirst(o, sync.todo) /\ o.row = r => Answered(r)
  /\ sync.pc = "remove" =>
       \A o \in sync.todo, p \in sync.batch :
         IsFirst(o, sync.todo) /\ o.row = r /\ IsTarget(p, o, sync.batch) /\ p.op = "create"
           => Answered(r)

\* Nothing is pulled or merged ahead of its turn.
InTurn(r) ==
  /\ sync.pc = "query" /\ ~InPullWindow(r) => sync.pulled[r] = 0
  /\ sync.pc \in {"clear", "put"} /\ ~Merging(r) => sync.read[r].ver = 0

RowCover(r) ==
  /\ InTurn(r)
  /\ r \notin gap => Marks(r)
  /\ server[r] > 0 /\ r \notin gap => Mirrors(r) /\ Merges(r) /\ Pulls(r)

\* An accepted operation that is not a create has changed its row.
AckInv ==
  \A p \in sync.ok : \/ p.op = "create" \/ KindOf[p.row] = "account"
                     \/ server[p.row] = 0 \/ p.row \in changed

\* What is for later is due, there are three kinds to merge, and a handler that is
\* to write the mirror has queued an operation of its own sort.
PhaseInv ==
  /\ Stamped => later \subseteq changed
  /\ InMerge => sync.step \in 1 .. 3
  /\ user.pc \in {"update", "delete"} => user.op = user.pc

CoverInv ==
  /\ PhaseInv /\ AckInv
  /\ \A r \in Row : KindOf[r] # "account" => RowCover(r)

\* The orders, one by one.
LEMMA Orders ==
  /\ QueryOrder[1] = "category" /\ QueryOrder[2] = "transaction" /\ QueryOrder[3] = "account"
  /\ MergeOrder[1] = "transaction" /\ MergeOrder[2] = "category" /\ MergeOrder[3] = "account"
BY DEF QueryOrder, MergeOrder

\* A write to the server leaves a row due, and for later if the pull is stamped,
\* or in the gap if its SELECT is over.
LEMMA StoreCovers ==
  ASSUME TypeOK, CoverInv, NEW q \in Row, NEW v \in Nat, Store(q, v),
         UNCHANGED <<mirror, queue>>,
         sync'.pc = sync.pc, sync'.step = sync.step,
         sync'.pulled = sync.pulled, sync'.read = sync.read,
         sync.pc \in {"mark", "remove"} => sync' = sync,
         NEW r \in Row, KindOf[r] # "account"
  PROVE  RowCover(r)'
<1>1. RowCover(r)
  BY DEF CoverInv
<1>2. InTurn(r)'
  BY <1>1 DEF RowCover, InTurn, InPullWindow, Merging
<1>3. r \notin gap' => r \notin gap
  BY DEF Store
<1>4. ASSUME r \notin gap' PROVE Marks(r)'
  <2>1. CASE sync.pc \in {"mark", "remove"}
    BY <1>1, <1>3, <1>4, <2>1 DEF RowCover, Marks, Answered, Editing, IsFirst, IsTarget
  <2>2. CASE sync.pc \notin {"mark", "remove"}
    BY <2>2 DEF Marks
  <2> QED BY <2>1, <2>2
<1>5. ASSUME server'[r] > 0, r \notin gap' PROVE Mirrors(r)' /\ Merges(r)' /\ Pulls(r)'
  <2>1. CASE r = q
    <3>1. server' = [server EXCEPT ![r] = v] /\ v > 0
      BY <1>5, <2>1 DEF Store, TypeOK
    <3>2. r \in changed' /\ (Stamped => r \in later') /\ ~InPullWindow(r)
      BY <1>5, <2>1, <3>1 DEF Store
    <3>3. Covered(r, mirror[r], changed)'
      BY <3>2 DEF Covered
    <3>4. Stamped => Covered(r, mirror[r], later)' /\ Covered(r, sync.read[r], later)'
      BY <3>2 DEF Covered
    <3>5. Merged(r)' \/ Merging(r)' \/ InMerge' => Stamped
      BY DEF Merged, Merging, InMerge, Stamped
    <3>6. ~InPullWindow(r)'
      BY <3>2 DEF InPullWindow
    <3> QED BY <3>2, <3>3, <3>4, <3>5, <3>6 DEF Mirrors, Merges, Pulls
  <2>2. CASE r # q
    <3>1. /\ server'[r] = server[r] /\ (r \in changed' <=> r \in changed)
          /\ r \in later' <=> r \in later
      BY <2>2 DEF Store, TypeOK
    <3>2. Mirrors(r) /\ Merges(r) /\ Pulls(r)
      BY <1>1, <1>3, <1>5, <3>1 DEF RowCover
    <3> QED BY <3>1, <3>2 DEF Mirrors, Merges, Pulls, Covered, Editing, HasPending, Merged,
            Merging, InMerge, Brought, InPullWindow
  <2> QED BY <2>1, <2>2
<1> QED BY <1>2, <1>4, <1>5 DEF RowCover

\* An accepted operation is such a write, or none.
LEMMA ApplyCovers ==
  ASSUME TypeOK, CoverInv, NEW o \in Op, Apply(o),
         UNCHANGED <<mirror, queue>>,
         sync'.pc = sync.pc, sync'.step = sync.step,
         sync'.pulled = sync.pulled, sync'.read = sync.read,
         sync.pc \in {"mark", "remove"} => sync' = sync,
         NEW r \in Row, KindOf[r] # "account"
  PROVE  RowCover(r)'
<1> DEFINE v == IF o.op = "delete" THEN 0 ELSE o.ver
<1>1. o.row \in Row /\ v \in Nat
  BY DEF Op
<1>2. CASE ~IsReplay(o)
  <2>1. Store(o.row, v)
    BY <1>2 DEF Apply
  <2> HIDE DEF v
  <2> QED BY <1>1, <2>1, StoreCovers
<1>3. CASE IsReplay(o)
  <2>1. UNCHANGED <<server, changed, later, gap>>
    BY <1>3 DEF Apply, serverVars
  <2>2. RowCover(r)
    BY DEF CoverInv
  <2>3. Marks(r) => Marks(r)'
    BY DEF Marks, Answered, Editing, IsFirst, IsTarget
  <2>4. InTurn(r) => InTurn(r)'
    BY DEF InTurn, InPullWindow, Merging
  <2>5. Mirrors(r) /\ Merges(r) /\ Pulls(r) => Mirrors(r)' /\ Merges(r)' /\ Pulls(r)'
    BY <2>1 DEF Mirrors, Merges, Pulls, Covered, Editing, HasPending, Merged,
       Merging, InMerge, Brought, InPullWindow
  <2> QED BY <2>1, <2>2, <2>3, <2>4, <2>5 DEF RowCover
<1> QED BY <1>2, <1>3

\* The same steps keep what is known of the results of the push.
LEMMA StoreAcks ==
  ASSUME TypeOK, AckInv, NEW q \in Row, NEW v \in Nat, Store(q, v), UNCHANGED sync
  PROVE  AckInv'
<1> SUFFICES ASSUME NEW p \in sync.ok, p.op # "create", KindOf[p.row] # "account",
                    server'[p.row] # 0
             PROVE  p.row \in changed'
  BY DEF AckInv
<1>1. p.row \in Row /\ server \in [Row -> Nat]
  BY SyncFields DEF TypeOK, Op
<1>2. CASE p.row = q
  BY <1>1, <1>2 DEF Store
<1>3. CASE p.row # q
  BY <1>1, <1>3 DEF Store, AckInv
<1> QED BY <1>2, <1>3

\* An accepted operation joins those whose rows are changed.
LEMMA ApplyAcks ==
  ASSUME TypeOK, AckInv, NEW o \in Op, Apply(o), sync'.ok \subseteq sync.ok \cup {o}
  PROVE  AckInv'
<1> SUFFICES ASSUME NEW p \in sync.ok \cup {o}, p.op # "create", KindOf[p.row] # "account",
                    server'[p.row] # 0
             PROVE  p.row \in changed'
  BY DEF AckInv
<1> DEFINE v == IF o.op = "delete" THEN 0 ELSE o.ver
<1>1. /\ p \in Op /\ p.row \in Row /\ server \in [Row -> Nat]
      /\ o.row \in Row /\ v \in Nat
  BY SyncFields DEF TypeOK, Op
<1>2. CASE IsReplay(o)
  BY <1>2 DEF Apply, serverVars, AckInv, IsReplay
<1>3. CASE ~IsReplay(o)
  <2>1. Store(o.row, v)
    BY <1>3 DEF Apply
  <2> HIDE DEF v
  <2>2. CASE p.row = o.row
    BY <1>1, <2>1, <2>2 DEF Store
  <2>3. CASE p.row # o.row
    BY <1>1, <2>1, <2>3 DEF Store, AckInv
  <2> QED BY <2>2, <2>3
<1> QED BY <1>2, <1>3

\* A handler that queues an operation takes nothing away from what explains a row.
LEMMA QueueCovers ==
  ASSUME CoverInv, queue \subseteq queue', UNCHANGED <<serverVars, mirror, sync, gap>>,
         NEW r \in Row, KindOf[r] # "account"
  PROVE  RowCover(r)'
<1>1. RowCover(r)
  BY DEF CoverInv
<1>2. (Editing(r) => Editing(r)') /\ (HasPending(r) => HasPending(r)')
  BY DEF Editing, HasPending
<1>3. InTurn(r)'
  BY <1>1 DEF RowCover, InTurn, InPullWindow, Merging
<1>4. Marks(r) => Marks(r)'
  BY <1>2 DEF Marks, Answered
<1>5. Mirrors(r) /\ Merges(r) /\ Pulls(r) => Mirrors(r)' /\ Merges(r)' /\ Pulls(r)'
  BY <1>2 DEF Mirrors, Merges, Pulls, Covered, Merged, Merging, InMerge, Brought,
     InPullWindow, serverVars
<1> QED BY <1>1, <1>3, <1>4, <1>5 DEF RowCover, serverVars

\* A handler writes the mirror on an outdated view, or with its operation queued, or
\* as the server has it, or for a row nobody has.
LEMMA MirrorCovers ==
  ASSUME MirrorInv, CoverInv, NEW q \in Row, NEW c \in Copy, NEW stale \in BOOLEAN,
         WriteMirror(q, c, stale), queue \subseteq queue', UNCHANGED <<serverVars, sync>>,
         \/ stale
         \/ Editing(q)'
         \/ c.ver = server[q] /\ (c.ver = 0 \/ c.synced)
         \/ q \notin taken,
         NEW r \in Row, KindOf[r] # "account"
  PROVE  RowCover(r)'
<1>1. RowCover(r) /\ TypeOK /\ RowInv
  BY DEF CoverInv, MirrorInv, QueueInv
<1>2. (Editing(r) => Editing(r)') /\ (HasPending(r) => HasPending(r)')
      /\ (Editing(r)' => HasPending(r)')
  BY DEF Editing, HasPending
<1>3. InTurn(r)'
  BY <1>1 DEF RowCover, InTurn, InPullWindow, Merging
<1>4. r \notin gap' => r \notin gap
  BY DEF WriteMirror
<1>5. CASE r # q
  <2>1. mirror'[r] = mirror[r]
    BY <1>1, <1>5 DEF WriteMirror, TypeOK
  <2>2. Marks(r) => Marks(r)'
    BY <1>2, <2>1 DEF Marks, Answered
  <2>3. Mirrors(r) /\ Merges(r) /\ Pulls(r) => Mirrors(r)' /\ Merges(r)' /\ Pulls(r)'
    BY <1>2, <2>1 DEF Mirrors, Merges, Pulls, Covered, Merged, Merging, InMerge, Brought,
       InPullWindow, serverVars
  <2> QED BY <1>1, <1>3, <1>4, <2>2, <2>3 DEF RowCover, serverVars
<1>6. CASE r = q
  <2>1. mirror'[r] = c
    BY <1>1, <1>6 DEF WriteMirror, TypeOK
  <2>2. r \notin gap' => ~stale /\ ~Overtaken(r)
    BY <1>6 DEF WriteMirror
  <2>3. ASSUME r \notin gap' PROVE Marks(r)'
    <3>1. sync.pc = "mark" => sync.read[r].ver = 0
      BY <2>2, <2>3 DEF Overtaken, NoCopy
    <3>2. ASSUME NEW o \in sync.todo, o.row = r PROVE Answered(r)'
      <4>1. r \in taken
        BY <1>1, <3>2 DEF RowInv, MirrorInv, QueueInv, PassInv
      <4> QED BY <1>6, <2>1, <2>2, <2>3, <4>1 DEF Answered
    <3> QED BY <3>1, <3>2 DEF Marks
  <2>4. ASSUME server'[r] > 0, r \notin gap' PROVE Mirrors(r)' /\ Merges(r)' /\ Pulls(r)'
    <3>1. r \in taken /\ server[r] > 0
      BY <1>1, <2>4 DEF RowInv, serverVars
    <3>2. Editing(r)' \/ (c.ver = server[r] /\ (c.ver = 0 \/ c.synced))
      BY <1>6, <2>2, <2>4, <3>1
    <3>4. Covered(r, mirror[r], changed)' /\ Covered(r, mirror[r], later)'
      BY <2>1, <3>2, <1>2 DEF Covered, serverVars
    <3>5. ~Merging(r)
      BY <2>2, <2>4 DEF Overtaken, Merging
    <3>6. Pulls(r)
      BY <1>1, <1>4, <2>4, <3>1 DEF RowCover
    <3>7. Pulls(r)'
      BY <3>6 DEF Pulls, InPullWindow, InMerge, Brought, serverVars
    <3> QED BY <3>4, <3>5, <3>7 DEF Mirrors, Merges, Merging
  <2> QED BY <1>3, <2>3, <2>4 DEF RowCover
<1> QED BY <1>5, <1>6

\* It leaves the pass in its phase.
LEMMA StorePhase ==
  ASSUME TypeOK, PhaseInv, NEW q \in Row, NEW v \in Nat, Store(q, v),
         UNCHANGED <<sync>>,
         user'.pc \in {"update", "delete"} => user'.op = user'.pc
  PROVE  PhaseInv'
BY DEF PhaseInv, Store, Stamped, InMerge

\* The user's handlers.
LEMMA UserCovers == MirrorInv /\ CoverInv /\ User => CoverInv'
<1> SUFFICES ASSUME MirrorInv, CoverInv, User PROVE CoverInv'
  OBVIOUS
<1>a. TypeOK /\ RowInv /\ QueueInv /\ AckInv /\ PhaseInv
  BY DEF MirrorInv, QueueInv, CoverInv
<1>b. ASSUME queue \subseteq queue', UNCHANGED <<serverVars, mirror, sync, gap>>,
             user'.pc \in {"update", "delete"} => user'.op = user'.pc
      PROVE  CoverInv'
  <2>1. \A r \in Row : KindOf[r] # "account" => RowCover(r)'
    BY <1>b, QueueCovers
  <2>2. AckInv' /\ PhaseInv'
    BY <1>a, <1>b DEF AckInv, PhaseInv, Stamped, InMerge, serverVars
  <2> QED BY <2>1, <2>2 DEF CoverInv
<1>c. ASSUME NEW q \in Row, NEW v \in Nat, Store(q, v), UNCHANGED <<mirror, queue, sync>>,
             user'.pc \in {"update", "delete"} => user'.op = user'.pc
      PROVE  CoverInv'
  <2>1. \A r \in Row : KindOf[r] # "account" => RowCover(r)'
    BY <1>a, <1>c, StoreCovers
  <2>2. AckInv' /\ PhaseInv'
    BY <1>a, <1>c, StoreAcks, StorePhase
  <2> QED BY <2>1, <2>2 DEF CoverInv
<1>d. ASSUME NEW q \in Row, NEW c \in Copy, NEW stale \in BOOLEAN,
             WriteMirror(q, c, stale), queue \subseteq queue', UNCHANGED <<serverVars, sync>>,
             \/ stale
             \/ Editing(q)'
             \/ c.ver = server[q] /\ (c.ver = 0 \/ c.synced)
             \/ q \notin taken,
             user'.pc \in {"update", "delete"} => user'.op = user'.pc
      PROVE  CoverInv'
  <2>1. \A r \in Row : KindOf[r] # "account" => RowCover(r)'
    BY <1>d, MirrorCovers
  <2>2. AckInv' /\ PhaseInv'
    BY <1>a, <1>d DEF AckInv, PhaseInv, Stamped, InMerge, serverVars
  <2> QED BY <2>1, <2>2 DEF CoverInv
<1>1. ASSUME NEW r \in Row, QueueCreate(r) PROVE CoverInv'
  <2> DEFINE c == [ver |-> edit + 1, synced |-> FALSE]
  <2>1. c \in Copy
    BY <1>a DEF Copy, TypeOK
  <2>2. /\ WriteMirror(r, c, FALSE) /\ r \notin taken /\ queue \subseteq queue'
        /\ UNCHANGED <<serverVars, sync, user>>
    BY <1>1 DEF QueueCreate, Enqueue
  <2> HIDE DEF c
  <2> QED BY <1>a, <1>d, <2>1, <2>2 DEF PhaseInv
<1>2. ASSUME NEW r \in Row, QueueCreateKilled(r) PROVE CoverInv'
  BY <1>2, <1>a, <1>b DEF QueueCreateKilled, Enqueue, PhaseInv
<1>3. ASSUME NEW r \in Row, QueueUpdate(r) PROVE CoverInv'
  BY <1>3, <1>b DEF QueueUpdate, Enqueue, UserIdle
<1>4. ASSUME NEW r \in Row, QueueDelete(r) PROVE CoverInv'
  BY <1>4, <1>b DEF QueueDelete, Enqueue
<1>5. ASSUME NEW r \in Row, RestCreate(r) PROVE CoverInv'
  BY <1>5, <1>a, <1>c DEF RestCreate, AwaitReply, TypeOK
<1>6. ASSUME NEW r \in Row, RestUpdate(r) PROVE CoverInv'
  BY <1>6, <1>a, <1>c DEF RestUpdate, AwaitReply, TypeOK
<1>7. ASSUME NEW r \in Row, RestDelete(r) PROVE CoverInv'
  BY <1>7, <1>a, <1>c DEF RestDelete, AwaitReply, TypeOK
<1>8. ASSUME NEW r \in Row, CreateReplyLost(r) PROVE CoverInv'
  <2> DEFINE c == [ver |-> user.ver, synced |-> FALSE]
  <2>1. c \in Copy
    BY <1>8, <1>a, UserFields DEF Copy, CreateReplyLost
  <2>2. /\ WriteMirror(r, c, FALSE) /\ r \notin taken /\ queue \subseteq queue'
        /\ UNCHANGED <<serverVars, sync>> /\ user' = UserIdle
    BY <1>8 DEF CreateReplyLost, Enqueue
  <2> HIDE DEF c
  <2> QED BY <1>d, <2>1, <2>2 DEF UserIdle
<1>9. CASE FinishUpdate
  <2> DEFINE c == [ver |-> user.ver, synced |-> user.copy.synced]
  <2>1. c \in Copy /\ user.row \in Row /\ Pushed \in BOOLEAN
    BY <1>9, <1>a, UserFields, CopyFields DEF Copy, FinishUpdate, Pushed
  <2>0. PICK q \in Row : q = user.row
    BY <2>1
  <2>2. /\ WriteMirror(q, c, Pushed) /\ queue' = queue
        /\ UNCHANGED <<serverVars, sync>> /\ user' = UserIdle /\ user.op = "update"
    BY <1>9, <1>a, <2>0 DEF FinishUpdate, PhaseInv
  <2>3. Pushed \/ Editing(q)'
    BY <2>0, <2>2 DEF Pushed, Editing, NewOp
  <2> HIDE DEF c
  <2> QED BY <1>d, <2>1, <2>2, <2>3 DEF UserIdle
<1>10. CASE FinishDelete
  <2>1. NoCopy \in Copy /\ user.row \in Row /\ Pushed \in BOOLEAN
    BY <1>10, <1>a, UserFields, IdleTypes DEF FinishDelete, Pushed
  <2>0. PICK q \in Row : q = user.row
    BY <2>1
  <2>2. /\ WriteMirror(q, NoCopy, Pushed) /\ queue' = queue
        /\ UNCHANGED <<serverVars, sync>> /\ user' = UserIdle /\ user.op = "delete"
    BY <1>10, <1>a, <2>0 DEF FinishDelete, PhaseInv
  <2>3. Pushed \/ Editing(q)'
    BY <2>0, <2>2 DEF Pushed, Editing, NewOp
  <2> QED BY <1>d, <2>1, <2>2, <2>3 DEF UserIdle
<1>11. CASE RestReply
  <2> DEFINE v == IF user.op = "delete" THEN 0 ELSE user.ver
             c == IF v = 0 THEN NoCopy ELSE [ver |-> v, synced |-> TRUE]
             stale == v # server[user.row]
  <2>1. /\ v \in Nat /\ user.row \in Row /\ stale \in BOOLEAN
        /\ c.ver = v /\ (c.ver = 0 \/ c.synced)
    BY <1>11, <1>a, UserFields DEF RestReply, NoCopy
  <2>2. c \in Copy
    BY <2>1, IdleTypes DEF Copy
  <2>3. /\ WriteMirror(user.row, c, stale) /\ queue' = queue
        /\ UNCHANGED <<serverVars, sync>> /\ user' = UserIdle
    BY <1>11 DEF RestReply
  <2>4. stale \/ (c.ver = server[user.row] /\ (c.ver = 0 \/ c.synced))
    BY <2>1
  <2> HIDE DEF c, v, stale
  <2> QED BY <1>d, <2>1, <2>2, <2>3, <2>4 DEF UserIdle
<1>12. CASE UpdateReplyLost
  <2>1. user'.pc \in {"update", "delete"} => user'.op = user'.pc
    BY <1>12, <1>a, UserFields DEF UpdateReplyLost, UserIdle, BusyUser
  <2> QED BY <1>12, <1>b, <2>1 DEF UpdateReplyLost, Enqueue
<1>13. CASE DeleteReplyLost
  <2>1. user'.pc \in {"update", "delete"} => user'.op = user'.pc
    BY <1>13, <1>a, UserFields DEF DeleteReplyLost, UserIdle, BusyUser
  <2> QED BY <1>13, <1>b, <2>1 DEF DeleteReplyLost, Enqueue
<1> QED
  BY <1>1, <1>2, <1>3, <1>4, <1>5, <1>6, <1>7, <1>8, <1>9, <1>10, <1>11, <1>12, <1>13
  DEF User

\* The server, for this device's pushes and for the other devices.
LEMMA ServerCovers ==
  ASSUME MirrorInv, CoverInv, PushAccepted \/ OrphanAccepted \/ OrphanRefused \/ Remote
  PROVE  CoverInv'
<1>a. TypeOK /\ PassInv /\ AckInv /\ PhaseInv
  BY DEF MirrorInv, QueueInv, CoverInv
<1>b. \A o \in sync.todo \cup orphan : o \in Op
  BY <1>a, SyncFields DEF TypeOK
<1>1. CASE PushAccepted
  <2>1. PICK o \in sync.todo :
          /\ sync.pc = "push" /\ Apply(o)
          /\ sync' = [sync EXCEPT !.todo = @ \ {o}, !.ok = @ \cup {o}]
          /\ UNCHANGED <<mirror, queue, user>>
    BY <1>1 DEF PushAccepted
  <2>2. /\ sync'.pc = sync.pc /\ sync'.step = sync.step /\ sync'.pulled = sync.pulled
        /\ sync'.read = sync.read /\ sync'.ok = sync.ok \cup {o}
    BY <1>a, <2>1 DEF TypeOK, SyncPass
  <2>3. \A r \in Row : KindOf[r] # "account" => RowCover(r)'
    BY <1>a, <1>b, <2>1, <2>2, ApplyCovers
  <2>4. AckInv'
    BY <1>a, <1>b, <2>1, <2>2, ApplyAcks
  <2>5. PhaseInv'
    BY <1>a, <2>1, <2>2 DEF PhaseInv, Stamped, InMerge
  <2> QED BY <2>3, <2>4, <2>5 DEF CoverInv
<1>2. CASE OrphanAccepted
  <2>1. PICK o \in orphan : Apply(o) /\ UNCHANGED <<mirror, queue, user, sync>>
    BY <1>2 DEF OrphanAccepted
  <2>2. \A r \in Row : KindOf[r] # "account" => RowCover(r)'
    BY <1>a, <1>b, <2>1, ApplyCovers
  <2>3. AckInv'
    BY <1>a, <1>b, <2>1, ApplyAcks
  <2>4. PhaseInv'
    BY <1>a, <2>1 DEF PhaseInv, Stamped, InMerge, Apply, Store, serverVars
  <2> QED BY <2>2, <2>3, <2>4 DEF CoverInv
<1>3. CASE OrphanRefused
  <2>1. UNCHANGED <<serverVars, mirror, queue, user, sync, gap>>
    BY <1>3 DEF OrphanRefused
  <2>2. \A r \in Row : KindOf[r] # "account" => RowCover(r)'
    BY <2>1, QueueCovers
  <2> QED BY <1>a, <2>1, <2>2 DEF CoverInv, AckInv, PhaseInv, Stamped, InMerge, serverVars
<1>4. CASE Remote
  <2>1. PICK q \in Row : RemoteCreate(q) \/ RemoteUpdate(q) \/ RemoteDelete(q)
    BY <1>4 DEF Remote
  <2>2. /\ Store(q, edit + 1) \/ Store(q, 0)
        /\ UNCHANGED <<mirror, queue, user, sync>>
        /\ edit + 1 \in Nat /\ 0 \in Nat
    BY <1>a, <2>1 DEF RemoteCreate, RemoteUpdate, RemoteDelete, RemoteEdit, TypeOK
  <2>3. PICK v \in Nat : Store(q, v)
    BY <2>2
  <2>4. \A r \in Row : KindOf[r] # "account" => RowCover(r)'
    BY <1>a, <2>2, <2>3, StoreCovers
  <2>5. AckInv' /\ PhaseInv'
    BY <1>a, <2>2, <2>3, StoreAcks, StorePhase DEF PhaseInv
  <2> QED BY <2>4, <2>5 DEF CoverInv
<1> QED BY <1>1, <1>2, <1>3, <1>4

\* The results of a batch are taken for one operation each.
LEMMA FirstIsOne ==
  ASSUME QueueInv, NEW o \in sync.todo, IsFirst(o, sync.todo),
         NEW q \in sync.todo, IsFirst(q, sync.todo)
  PROVE  q = o
<1>1. q \in issued /\ o \in issued /\ q.ver \in Nat /\ o.ver \in Nat
  BY DEF QueueInv, PassInv, TypeOK, Op
<1>2. q.ver = o.ver
  BY <1>1 DEF IsFirst
<1> QED BY <1>1, <1>2 DEF QueueInv, VersionInv

\* It is the last one queued for its row.
LEMMA TargetIsOne ==
  ASSUME QueueInv, NEW o, NEW p, IsTarget(p, o, sync.batch),
         NEW q, IsTarget(q, o, sync.batch)
  PROVE  q = p
<1>1. q \in issued /\ p \in issued /\ q.ver \in Nat /\ p.ver \in Nat /\ q.row = p.row
  BY DEF QueueInv, PassInv, TypeOK, Op, IsTarget
<1>2. q.ver = p.ver
  BY <1>1 DEF IsTarget
<1> QED BY <1>1, <1>2 DEF QueueInv, VersionInv

\* While nothing is pulled or marked, only what the mirror shows counts.
LEMMA QuietPass ==
  ASSUME CoverInv, sync.pc # "put", UNCHANGED <<serverVars, mirror, queue, gap>>,
         sync'.pc \notin {"query", "mark", "remove", "merge", "clear", "put", "save"},
         NEW r \in Row, KindOf[r] # "account"
  PROVE  RowCover(r)'
<1>1. server[r] > 0 /\ r \notin gap => Covered(r, mirror[r], changed)
  BY DEF CoverInv, RowCover, Mirrors
<1>2. server'[r] > 0 /\ r \notin gap' => Covered(r, mirror[r], changed)'
  BY <1>1 DEF Covered, Editing, HasPending, serverVars
<1> QED BY <1>2 DEF RowCover, InTurn, Marks, Mirrors, Merges, Pulls, Merged, Merging,
        InMerge, InPullWindow

\* A pass that starts to pull has pulled nothing.
LEMMA StartsPull ==
  ASSUME CoverInv, sync.pc # "put", UNCHANGED <<serverVars, mirror, queue, gap>>,
         sync' = [SyncIdle EXCEPT !.pc = "query"],
         NEW r \in Row, KindOf[r] # "account"
  PROVE  RowCover(r)'
<1>1. server[r] > 0 /\ r \notin gap => Covered(r, mirror[r], changed)
  BY DEF CoverInv, RowCover, Mirrors
<1>2. server'[r] > 0 /\ r \notin gap' => Covered(r, mirror[r], changed)'
  BY <1>1 DEF Covered, Editing, HasPending, serverVars
<1>3. sync'.pc = "query" /\ sync'.step = 1 /\ sync'.pulled[r] = 0
  BY DEF SyncIdle, Nothing
<1>4. ~InPullWindow(r)'
  BY <1>3 DEF InPullWindow
<1> QED BY <1>2, <1>3, <1>4 DEF RowCover, InTurn, Marks, Mirrors, Merges, Pulls, Merged,
        Merging, InMerge

\* The push and its results, up to the first SELECT.
LEMMA PushCovers ==
  ASSUME MirrorInv, CoverInv,
         StartSync \/ PushRefused \/ PushFailed \/ PushReply \/ AckRefused \/ PushDone
  PROVE  CoverInv'
<1>a. TypeOK /\ AckInv /\ PhaseInv
  BY DEF MirrorInv, QueueInv, CoverInv
<1>b. ASSUME sync.pc # "put", UNCHANGED <<serverVars, mirror, queue, gap, user>>,
             sync'.pc \in {"push", "ack"}, sync'.ok \subseteq sync.ok
      PROVE  CoverInv'
  <2>1. \A r \in Row : KindOf[r] # "account" => RowCover(r)'
    BY <1>b, QuietPass
  <2>2. AckInv' /\ PhaseInv'
    BY <1>a, <1>b DEF AckInv, PhaseInv, Stamped, InMerge, serverVars
  <2> QED BY <2>1, <2>2 DEF CoverInv
<1>c. ASSUME sync.pc # "put", UNCHANGED <<serverVars, mirror, queue, gap, user>>,
             sync' = [SyncIdle EXCEPT !.pc = "query"]
      PROVE  CoverInv'
  <2>1. \A r \in Row : KindOf[r] # "account" => RowCover(r)'
    BY <1>c, StartsPull
  <2>2. sync'.ok = {} /\ sync'.pc = "query"
    BY <1>c DEF SyncIdle
  <2>3. AckInv' /\ PhaseInv'
    BY <1>a, <1>c, <2>2 DEF AckInv, PhaseInv, Stamped, InMerge, serverVars
  <2> QED BY <2>1, <2>3 DEF CoverInv
<1>1. CASE StartSync
  <2>1. CASE queue = {}
    BY <1>1, <1>c, <2>1 DEF StartSync
  <2>2. CASE queue # {}
    <3>1. sync'.pc = "push" /\ sync'.ok = {}
      BY <1>1, <2>2 DEF StartSync, SyncIdle
    <3> QED BY <1>1, <1>b, <3>1 DEF StartSync
  <2> QED BY <2>1, <2>2
<1>2. CASE PushRefused \/ PushFailed \/ PushReply \/ AckRefused
  <2>1. /\ sync'.pc \in {"push", "ack"} /\ sync'.ok = sync.ok /\ sync.pc # "put"
        /\ UNCHANGED <<serverVars, mirror, queue, gap, user>>
    BY <1>a, <1>2 DEF PushRefused, PushFailed, PushReply, AckRefused, TypeOK, SyncPass
  <2> QED BY <1>b, <2>1
<1>3. CASE PushDone
  BY <1>3, <1>c DEF PushDone
<1> QED BY <1>1, <1>2, <1>3

\* The result of a create is looked up with the row the mirror shows.
LEMMA AckCovers == MirrorInv /\ CoverInv /\ AckOk => CoverInv'
<1> SUFFICES ASSUME MirrorInv, CoverInv, AckOk PROVE CoverInv'
  OBVIOUS
<1>a. TypeOK /\ QueueInv /\ AckInv /\ PhaseInv
  BY DEF MirrorInv, QueueInv, CoverInv
<1>1. PICK o \in sync.todo, p \in sync.batch :
          /\ sync.pc = "ack"
          /\ IsFirst(o, sync.todo)
          /\ IsTarget(p, o, sync.batch)
          /\ sync' = IF p.op = "create"
                     THEN [sync EXCEPT !.pc = "mark",
                             !.read = [NoCopies EXCEPT ![o.row] = mirror[o.row]]]
                     ELSE [sync EXCEPT !.pc = "remove"]
          /\ UNCHANGED <<serverVars, mirror, queue, gap, user>>
  BY DEF AckOk
<1>2. /\ sync'.pc \in {"mark", "remove"} /\ sync'.ok = sync.ok
      /\ sync'.todo = sync.todo /\ sync'.batch = sync.batch
      /\ sync'.pc = "remove" => p.op # "create"
      /\ sync'.pc = "mark" => sync'.read = [NoCopies EXCEPT ![o.row] = mirror[o.row]]
  BY <1>a, <1>1 DEF TypeOK, SyncPass
<1>3. ASSUME NEW r \in Row, KindOf[r] # "account" PROVE RowCover(r)'
  <2>1. server[r] > 0 /\ r \notin gap => Covered(r, mirror[r], changed)
    BY <1>1, <1>3 DEF CoverInv, RowCover, Mirrors
  <2>2. server'[r] > 0 /\ r \notin gap' => Covered(r, mirror[r], changed)'
    BY <1>1, <2>1 DEF Covered, Editing, HasPending, serverVars
  <2>3. Marks(r)'
    <3>1. CASE sync'.pc = "mark"
      <4>1. sync'.read[r] = IF r = o.row THEN mirror[r] ELSE NoCopy
        BY <1>2, <1>3, <3>1 DEF NoCopies
      <4>2. sync'.read[r].ver > 0 => sync'.read[r].ver = mirror'[r].ver
        BY <1>1, <4>1 DEF NoCopy
      <4>3. ASSUME NEW q \in sync'.todo, IsFirst(q, sync'.todo), q.row = r,
                   sync'.read[r].ver = 0
            PROVE  Answered(r)'
        <5>1. q = o
          BY <1>a, <1>1, <1>2, <4>3, FirstIsOne
        <5>2. mirror'[r].ver = 0
          BY <1>1, <4>1, <4>3, <5>1
        <5> QED BY <5>2 DEF Answered
      <4> QED BY <3>1, <4>2, <4>3 DEF Marks
    <3>2. CASE sync'.pc = "remove"
      <4>1. ASSUME NEW q \in sync'.todo, NEW t \in sync'.batch, IsFirst(q, sync'.todo),
                   IsTarget(t, q, sync'.batch)
            PROVE  t.op # "create"
        <5>1. q = o
          BY <1>a, <1>1, <1>2, <4>1, FirstIsOne
        <5>2. t = p
          BY <1>a, <1>1, <1>2, <4>1, <5>1, TargetIsOne
        <5> QED BY <1>2, <3>2, <5>2
      <4> QED BY <3>2, <4>1 DEF Marks
    <3> QED BY <1>2, <3>1, <3>2
  <2>4. InTurn(r)' /\ Merges(r)' /\ Pulls(r)'
    BY <1>2 DEF InTurn, Merges, Pulls, Merged, Merging, InMerge, InPullWindow
  <2> QED BY <2>2, <2>3, <2>4 DEF RowCover, Mirrors
<1>4. AckInv' /\ PhaseInv'
  BY <1>a, <1>1, <1>2 DEF AckInv, PhaseInv, Stamped, InMerge, serverVars
<1> QED BY <1>3, <1>4 DEF CoverInv

\* A mark leaves the row as it was, and not unsynced.
LEMMA MarkCovers == MirrorInv /\ CoverInv /\ Mark => CoverInv'
<1> SUFFICES ASSUME MirrorInv, CoverInv, Mark PROVE CoverInv'
  OBVIOUS
<1>a. TypeOK /\ QueueInv /\ AckInv /\ PhaseInv
  BY DEF MirrorInv, QueueInv, CoverInv
<1>1. PICK o \in sync.todo :
        /\ sync.pc = "mark"
        /\ IsFirst(o, sync.todo)
        /\ mirror' = IF sync.read[o.row].ver = 0 THEN mirror
                     ELSE [mirror EXCEPT ![o.row] =
                             [ver |-> sync.read[o.row].ver, synced |-> TRUE]]
        /\ sync' = [sync EXCEPT !.pc = "remove", !.read = NoCopies]
        /\ UNCHANGED <<serverVars, queue, gap, user>>
  BY DEF Mark
<1>2. /\ sync'.pc = "remove" /\ sync'.ok = sync.ok
      /\ sync'.todo = sync.todo /\ sync'.batch = sync.batch
      /\ o.row \in Row /\ sync.read[o.row].ver \in Nat
  BY <1>a, <1>1, SyncFields, CopyFields DEF TypeOK, SyncPass, Op
<1>3. ASSUME NEW r \in Row, KindOf[r] # "account" PROVE RowCover(r)'
  <2>1. RowCover(r) /\ (server[r] > 0 /\ r \notin gap => Covered(r, mirror[r], changed))
    BY <1>1, <1>3 DEF CoverInv, RowCover, Mirrors
  <2>2. CASE r = o.row /\ sync.read[r].ver > 0 /\ r \notin gap
    <3>1. /\ mirror'[r] = [ver |-> sync.read[r].ver, synced |-> TRUE]
          /\ sync.read[r].ver = mirror[r].ver
      BY <1>a, <1>1, <2>1, <2>2 DEF TypeOK, RowCover, Marks
    <3>2. mirror'[r].ver = mirror[r].ver /\ mirror'[r].synced
      BY <3>1
    <3>3. server'[r] > 0 => Covered(r, mirror[r], changed)'
      BY <1>1, <2>1, <2>2, <3>2 DEF Covered, Editing, HasPending, serverVars
    <3>4. Answered(r)'
      BY <3>2 DEF Answered
    <3> QED BY <1>2, <3>3, <3>4 DEF RowCover, InTurn, Marks, Mirrors, Merges, Pulls,
            Merged, Merging, InMerge, InPullWindow
  <2>3. CASE r # o.row \/ sync.read[r].ver = 0
    <3>1. mirror'[r] = mirror[r]
      BY <1>a, <1>1, <1>2, <2>3 DEF TypeOK
    <3>2. server'[r] > 0 /\ r \notin gap' => Covered(r, mirror[r], changed)'
      BY <1>1, <2>1, <3>1 DEF Covered, Editing, HasPending, serverVars
    <3>3. ASSUME NEW q \in sync'.todo, IsFirst(q, sync'.todo), q.row = r, r \notin gap'
          PROVE  Answered(r)'
      <4>1. q = o
        BY <1>a, <1>1, <1>2, <3>3, FirstIsOne
      <4>2. sync.read[r].ver = 0 /\ r \notin gap
        BY <1>1, <2>3, <3>3, <4>1
      <4>3. Answered(r)
        BY <1>1, <2>1, <3>3, <4>1, <4>2 DEF RowCover, Marks
      <4> QED BY <1>1, <3>1, <4>3 DEF Answered, Editing
    <3> QED BY <1>2, <3>2, <3>3 DEF RowCover, InTurn, Marks, Mirrors, Merges, Pulls,
            Merged, Merging, InMerge, InPullWindow
  <2>4. CASE r \in gap
    BY <1>1, <1>2, <2>4 DEF RowCover, InTurn
  <2> QED BY <1>2, <2>2, <2>3, <2>4
<1>4. AckInv' /\ PhaseInv'
  BY <1>a, <1>1, <1>2 DEF AckInv, PhaseInv, Stamped, InMerge, serverVars
<1> QED BY <1>3, <1>4 DEF CoverInv

\* An operation leaves the queue: what it explained the server has by now, or had
\* to be answered for, or is in the gap.
LEMMA RemoveCovers == MirrorInv /\ CoverInv /\ Remove => CoverInv'
<1> SUFFICES ASSUME MirrorInv, CoverInv, Remove PROVE CoverInv'
  OBVIOUS
<1>a. TypeOK /\ QueueInv /\ AckInv /\ PhaseInv
  BY DEF MirrorInv, QueueInv, CoverInv
<1>1. PICK o \in sync.todo, p \in sync.batch :
        /\ sync.pc = "remove"
        /\ IsFirst(o, sync.todo)
        /\ IsTarget(p, o, sync.batch)
        /\ queue' = queue \ {p}
        /\ gap' = IF p \in sync.ok THEN gap ELSE gap \cup {p.row}
        /\ sync' = [sync EXCEPT !.pc = "ack", !.todo = @ \ {o}]
        /\ UNCHANGED <<serverVars, mirror, user>>
  BY DEF Remove
<1>2. sync'.pc = "ack" /\ sync'.ok = sync.ok /\ p.row = o.row
  BY <1>a, <1>1 DEF TypeOK, SyncPass, IsTarget
<1>3. ASSUME NEW r \in Row, KindOf[r] # "account" PROVE RowCover(r)'
  <2>1. RowCover(r) /\ (server[r] > 0 /\ r \notin gap => Covered(r, mirror[r], changed))
    BY <1>1, <1>3 DEF CoverInv, RowCover, Mirrors
  <2>2. ASSUME server'[r] > 0, r \notin gap' PROVE Covered(r, mirror[r], changed)'
    <3>1. Covered(r, mirror[r], changed) /\ server[r] > 0 /\ r \notin gap
      BY <1>1, <2>1, <2>2 DEF serverVars
    <3>2. CASE p.row # r
      BY <1>1, <3>1, <3>2 DEF Covered, Editing, HasPending, serverVars
    <3>3. CASE p.row = r
      <4>1. p \in sync.ok
        BY <1>1, <2>2, <3>3
      <4>2. CASE p.op # "create"
        BY <1>1, <1>3, <1>a, <3>1, <3>3, <4>1, <4>2 DEF AckInv, Covered, serverVars
      <4>3. CASE p.op = "create"
        <5>1. Answered(r)
          BY <1>1, <1>2, <2>1, <3>1, <3>3, <4>3 DEF RowCover, Marks
        <5>2. Editing(r) => Editing(r)' /\ HasPending(r)'
          BY <1>1, <4>3 DEF Editing, HasPending
        <5> QED BY <1>1, <3>1, <5>1, <5>2 DEF Answered, Covered, serverVars
      <4> QED BY <4>2, <4>3
    <3> QED BY <3>2, <3>3
  <2> QED BY <1>2, <2>2 DEF RowCover, InTurn, Marks, Mirrors, Merges, Pulls,
          Merged, Merging, InMerge, InPullWindow
<1>4. AckInv' /\ PhaseInv'
  BY <1>a, <1>1, <1>2 DEF AckInv, PhaseInv, Stamped, InMerge, serverVars
<1> QED BY <1>3, <1>4 DEF CoverInv

\* A SELECT takes what is due of its kind.
LEMMA QueryCovers == MirrorInv /\ CoverInv /\ Query => CoverInv'
<1> SUFFICES ASSUME MirrorInv, CoverInv, Query PROVE CoverInv'
  OBVIOUS
<1>a. TypeOK /\ AckInv /\ PhaseInv
  BY DEF MirrorInv, QueueInv, CoverInv
<1> DEFINE hits == {r \in Row : /\ KindOf[r] = QueryOrder[sync.step]
                                /\ server[r] > 0
                                /\ r \in changed \/ KindOf[r] = "account"}
<1>1. /\ sync.pc = "query" /\ sync.step \in 1 .. 3
      /\ sync' = [sync EXCEPT !.step = @ + 1,
                              !.pulled = [r \in Row |-> IF r \in hits THEN server[r]
                                                        ELSE @[r]]]
      /\ gap' = gap \ hits
      /\ UNCHANGED <<serverVars, mirror, queue, user>>
  BY <1>a, SyncFields DEF Query
<1>2. /\ sync'.pc = "query" /\ sync'.step = sync.step + 1 /\ sync'.ok = sync.ok
      /\ \A r \in Row : sync'.pulled[r] = IF r \in hits THEN server[r] ELSE sync.pulled[r]
  BY <1>a, <1>1 DEF TypeOK, SyncPass
<1>3. ASSUME NEW r \in Row, KindOf[r] # "account" PROVE RowCover(r)'
  <2>1. RowCover(r)
    BY <1>3 DEF CoverInv
  <2>2. r \in hits <=> /\ KindOf[r] = QueryOrder[sync.step]
                       /\ server[r] > 0 /\ r \in changed
    BY <1>3
  <2>3. sync'.pulled[r] = IF r \in hits THEN server[r] ELSE sync.pulled[r]
    BY <1>2
  <2>4. r \notin gap' => r \in hits \/ r \notin gap
    BY <1>1
  <2> HIDE DEF hits
  <2>5. InPullWindow(r)' <=> InPullWindow(r) \/ KindOf[r] = QueryOrder[sync.step]
    BY <1>1, <1>2 DEF InPullWindow
  <2>6. ~(InPullWindow(r) /\ KindOf[r] = QueryOrder[sync.step])
    BY <1>1, Orders DEF InPullWindow
  <2>7. ~InPullWindow(r) => sync.pulled[r] = 0
    BY <1>1, <2>1 DEF RowCover, InTurn
  <2>8. ASSUME server'[r] > 0, r \notin gap' PROVE Covered(r, mirror[r], changed)'
    <3>1. CASE r \in hits
      BY <1>1, <2>2, <3>1 DEF Covered, serverVars
    <3>2. CASE r \notin hits
      <4>1. Covered(r, mirror[r], changed)
        BY <1>1, <2>1, <2>4, <2>8, <3>2 DEF RowCover, Mirrors, serverVars
      <4> QED BY <1>1, <4>1 DEF Covered, Editing, HasPending, serverVars
    <3> QED BY <3>1, <3>2
  <2>9. ASSUME server'[r] > 0, r \notin gap', InPullWindow(r)' PROVE Brought(r)'
    <3>1. CASE r \in hits
      BY <1>1, <2>3, <3>1 DEF Brought, serverVars
    <3>2. CASE r \notin hits /\ InPullWindow(r)
      <4>1. Brought(r)
        BY <1>1, <2>1, <2>4, <2>9, <3>2 DEF RowCover, Pulls, serverVars
      <4> QED BY <1>1, <2>3, <3>2, <4>1 DEF Brought, serverVars
    <3>3. CASE r \notin hits /\ ~InPullWindow(r)
      BY <1>1, <2>2, <2>3, <2>5, <2>7, <2>9, <3>3 DEF Brought, serverVars
    <3> QED BY <3>1, <3>2, <3>3
  <2>10. InTurn(r)'
    BY <1>2, <2>2, <2>3, <2>5, <2>7 DEF InTurn
  <2> QED BY <1>2, <2>8, <2>9, <2>10 DEF RowCover, Marks, Mirrors, Merges, Pulls, Merged,
          Merging, InMerge
<1>4. AckInv' /\ PhaseInv'
  BY <1>a, <1>1, <1>2 DEF AckInv, PhaseInv, Stamped, InMerge, serverVars
<1> QED BY <1>3, <1>4 DEF CoverInv

\* After the last SELECT every row has had its turn, and nothing is later yet.
LEMMA StampCovers == MirrorInv /\ CoverInv /\ Stamp => CoverInv'
<1> SUFFICES ASSUME MirrorInv, CoverInv, Stamp PROVE CoverInv'
  OBVIOUS
<1>a. TypeOK /\ AckInv /\ PhaseInv
  BY DEF MirrorInv, QueueInv, CoverInv
<1>1. /\ sync.pc = "query" /\ sync.step = 4 /\ later' = {}
      /\ sync' = [sync EXCEPT !.pc = "merge", !.step = 1]
      /\ UNCHANGED <<server, changed, mirror, queue, user, gap>>
  BY DEF Stamp
<1>2. /\ sync'.pc = "merge" /\ sync'.step = 1 /\ sync'.ok = sync.ok
      /\ sync'.pulled = sync.pulled
  BY <1>a, <1>1 DEF TypeOK, SyncPass
<1>3. ASSUME NEW r \in Row, KindOf[r] # "account" PROVE RowCover(r)'
  <2>1. RowCover(r)
    BY <1>3 DEF CoverInv
  <2>2. KindOf[r] \in {"transaction", "category"}
    BY <1>3, ConstantsOK DEF ConstantsOK, Kinds
  <2>3. InPullWindow(r)
    BY <1>1, <2>2, Orders DEF InPullWindow
  <2>4. ASSUME server'[r] > 0, r \notin gap'
        PROVE  Covered(r, mirror[r], changed)' /\ Brought(r)'
    <3>1. Covered(r, mirror[r], changed) /\ Brought(r)
      BY <1>1, <2>1, <2>3, <2>4 DEF RowCover, Mirrors, Pulls
    <3> QED BY <1>1, <1>2, <3>1 DEF Covered, Editing, HasPending, Brought
  <2>5. ~Merged(r)' /\ ~Merging(r)' /\ ~InPullWindow(r)'
    BY <1>2 DEF Merged, Merging, InPullWindow
  <2> QED BY <1>2, <2>4, <2>5 DEF RowCover, InTurn, Marks, Mirrors, Merges, Pulls
<1>4. AckInv' /\ PhaseInv'
  BY <1>a, <1>1, <1>2 DEF AckInv, PhaseInv, Stamped, InMerge
<1> QED BY <1>3, <1>4 DEF CoverInv

\* What is covered by what is due after the pass is covered now.
LEMMA LaterIsDue ==
  ASSUME NEW r, NEW c, Covered(r, c, later), later \subseteq changed
  PROVE  Covered(r, c, changed)
BY DEF Covered

\* The rows of the kind are read and overlaid.
LEMMA ReadCovers == MirrorInv /\ CoverInv /\ MergeRead => CoverInv'
<1> SUFFICES ASSUME MirrorInv, CoverInv, MergeRead PROVE CoverInv'
  OBVIOUS
<1>a. TypeOK /\ AckInv /\ PhaseInv
  BY DEF MirrorInv, QueueInv, CoverInv
<1> DEFINE M(r) == IF KindOf[r] # MergeOrder[sync.step] THEN NoCopy
                   ELSE IF sync.pulled[r] > 0 THEN [ver |-> sync.pulled[r], synced |-> TRUE]
                   ELSE mirror[r]
<1>1. /\ sync.pc = "merge"
      /\ sync' = [sync EXCEPT !.pc = "clear", !.read = [r \in Row |-> M(r)]]
      /\ UNCHANGED <<serverVars, mirror, queue, user, gap>>
  BY DEF MergeRead
<1>2. /\ sync'.pc = "clear" /\ sync'.step = sync.step /\ sync'.ok = sync.ok
      /\ sync'.pulled = sync.pulled
      /\ \A r \in Row : sync'.read[r] = M(r)
  BY <1>a, <1>1 DEF TypeOK, SyncPass
<1>3. ASSUME NEW r \in Row, KindOf[r] # "account" PROVE RowCover(r)'
  <2>1. RowCover(r)
    BY <1>3 DEF CoverInv
  <2>2. sync'.read[r] = M(r) /\ sync.pulled[r] \in Nat
    BY <1>2, <1>a, SyncFields
  <2> HIDE DEF M
  <2>3. Merging(r)' <=> KindOf[r] = MergeOrder[sync.step]
    BY <1>2 DEF Merging
  <2>4. Merged(r)' <=> Merged(r)
    BY <1>1, <1>2 DEF Merged, InMerge
  <2>5. InTurn(r)'
    BY <1>2, <2>2, <2>3 DEF InTurn, M, NoCopy
  <2>6. ASSUME server'[r] > 0, r \notin gap'
        PROVE  Mirrors(r)' /\ Merges(r)' /\ Pulls(r)'
    <3>1. /\ Covered(r, mirror[r], changed)
          /\ Merged(r) => Covered(r, mirror[r], later)
          /\ Brought(r) \/ r \in later
      BY <1>1, <2>1, <2>6 DEF RowCover, Mirrors, Merges, Pulls, InMerge, serverVars
    <3>2. Covered(r, mirror[r], changed)'
      BY <1>1, <3>1 DEF Covered, Editing, HasPending, serverVars
    <3>3. Merged(r)' => Covered(r, mirror[r], later)'
      BY <1>1, <2>4, <3>1 DEF Covered, Editing, HasPending, serverVars
    <3>4. Brought(r)' \/ r \in later'
      BY <1>1, <1>2, <3>1 DEF Brought, serverVars
    <3>5. ASSUME Merging(r)' PROVE Covered(r, sync.read[r], later)'
      <4>1. CASE r \in later
        BY <1>1, <4>1 DEF Covered, serverVars
      <4>2. CASE r \notin later /\ sync.pulled[r] > 0
        <5>1. sync'.read[r] = [ver |-> sync.pulled[r], synced |-> TRUE]
          BY <2>2, <2>3, <3>5, <4>2 DEF M
        <5>2. sync'.read[r].ver = sync.pulled[r] /\ sync'.read[r].synced
          BY <5>1
        <5>3. sync.pulled[r] = server[r]
          BY <3>1, <4>2 DEF Brought
        <5> QED BY <1>1, <5>2, <5>3 DEF Covered, serverVars
      <4>3. CASE r \notin later /\ ~(sync.pulled[r] > 0)
        <5>1. sync'.read[r] = mirror[r]
          BY <2>2, <2>3, <3>5, <4>3 DEF M
        <5>2. r \notin changed
          BY <1>1, <2>2, <2>6, <3>1, <4>3 DEF Brought, serverVars
        <5> QED BY <1>1, <3>1, <5>1, <5>2 DEF Covered, Editing, HasPending, serverVars
      <4> QED BY <4>1, <4>2, <4>3
    <3> QED BY <1>2, <3>2, <3>3, <3>4, <3>5 DEF Mirrors, Merges, Pulls, InPullWindow
  <2> QED BY <1>2, <2>5, <2>6 DEF RowCover, Marks
<1>4. AckInv' /\ PhaseInv'
  BY <1>a, <1>1, <1>2 DEF AckInv, PhaseInv, Stamped, InMerge, serverVars
<1> QED BY <1>3, <1>4 DEF CoverInv

\* They are cleared, and only what was read stands for them.
LEMMA ClearCovers == MirrorInv /\ CoverInv /\ MergeClear => CoverInv'
<1> SUFFICES ASSUME MirrorInv, CoverInv, MergeClear PROVE CoverInv'
  OBVIOUS
<1>a. TypeOK /\ AckInv /\ PhaseInv
  BY DEF MirrorInv, QueueInv, CoverInv
<1>1. /\ sync.pc = "clear"
      /\ sync' = [sync EXCEPT !.pc = "put"]
      /\ \A r \in Row : KindOf[r] # MergeOrder[sync.step] => mirror'[r] = mirror[r]
      /\ UNCHANGED <<serverVars, queue, user, gap>>
  BY DEF MergeClear
<1>2. /\ sync'.pc = "put" /\ sync'.step = sync.step /\ sync'.ok = sync.ok
      /\ sync'.pulled = sync.pulled /\ sync'.read = sync.read
      /\ sync.step \in 1 .. 3
  BY <1>a, <1>1 DEF TypeOK, SyncPass, PhaseInv, InMerge
<1>3. ASSUME NEW r \in Row, KindOf[r] # "account" PROVE RowCover(r)'
  <2>1. RowCover(r)
    BY <1>3 DEF CoverInv
  <2>2. (Merging(r)' <=> Merging(r)) /\ (Merged(r)' <=> Merged(r))
    BY <1>1, <1>2 DEF Merging, Merged, InMerge
  <2>3. Merged(r) => ~Merging(r)
    BY <1>1, <1>2, Orders DEF Merged, Merging
  <2>4. ~Merging(r) => mirror'[r] = mirror[r]
    BY <1>1 DEF Merging
  <2>5. InTurn(r)'
    BY <1>1, <1>2, <2>1, <2>2 DEF RowCover, InTurn
  <2>6. ASSUME server'[r] > 0, r \notin gap'
        PROVE  Mirrors(r)' /\ Merges(r)' /\ Pulls(r)'
    <3>1. /\ Covered(r, mirror[r], changed)
          /\ Merged(r) => Covered(r, mirror[r], later)
          /\ Merging(r) => Covered(r, sync.read[r], later)
          /\ Brought(r) \/ r \in later
      BY <1>1, <2>1, <2>6 DEF RowCover, Mirrors, Merges, Pulls, InMerge, serverVars
    <3>2. ~Merging(r)' => Covered(r, mirror[r], changed)'
      BY <1>1, <2>2, <2>4, <3>1 DEF Covered, Editing, HasPending, serverVars
    <3>3. Merged(r)' => Covered(r, mirror[r], later)'
      BY <1>1, <2>2, <2>3, <2>4, <3>1 DEF Covered, Editing, HasPending, serverVars
    <3>4. Merging(r)' => Covered(r, sync.read[r], later)'
      BY <1>1, <1>2, <2>2, <3>1 DEF Covered, Editing, HasPending, serverVars
    <3>5. Brought(r)' \/ r \in later'
      BY <1>1, <1>2, <3>1 DEF Brought, serverVars
    <3> QED BY <1>2, <3>2, <3>3, <3>4, <3>5 DEF Mirrors, Merges, Pulls, InPullWindow
  <2> QED BY <1>2, <2>5, <2>6 DEF RowCover, Marks
<1>4. AckInv' /\ PhaseInv'
  BY <1>a, <1>1, <1>2 DEF AckInv, PhaseInv, Stamped, InMerge, serverVars
<1> QED BY <1>3, <1>4 DEF CoverInv

\* They are put back, and the pass goes on with the next kind, or ends.
LEMMA PutCovers == MirrorInv /\ CoverInv /\ MergePut => CoverInv'
<1> SUFFICES ASSUME MirrorInv, CoverInv, MergePut PROVE CoverInv'
  OBVIOUS
<1>a. TypeOK /\ AckInv /\ PhaseInv
  BY DEF MirrorInv, QueueInv, CoverInv
<1>1. /\ sync.pc = "put" /\ sync.step \in 1 .. 3 /\ later \subseteq changed
      /\ \A r \in Row : mirror'[r] = IF sync.read[r].ver > 0 THEN sync.read[r] ELSE mirror[r]
      /\ sync' = IF sync.step < 3
                 THEN [sync EXCEPT !.pc = "merge", !.step = @ + 1, !.read = NoCopies]
                 ELSE [SyncIdle EXCEPT !.pc = "save"]
      /\ UNCHANGED <<serverVars, queue, user, gap>>
  BY <1>a DEF MergePut, PhaseInv, Stamped, InMerge
<1>2. IF sync.step < 3
      THEN /\ sync'.pc = "merge" /\ sync'.step = sync.step + 1 /\ sync'.ok = sync.ok
           /\ sync'.pulled = sync.pulled
      ELSE sync'.pc = "save" /\ sync'.ok = {}
  BY <1>a, <1>1 DEF TypeOK, SyncPass, SyncIdle
<1>3. ASSUME NEW r \in Row, KindOf[r] # "account" PROVE RowCover(r)'
  <2>1. RowCover(r)
    BY <1>3 DEF CoverInv
  <2>2. mirror'[r] = IF sync.read[r].ver > 0 THEN sync.read[r] ELSE mirror[r]
    BY <1>1
  <2>3. Merged(r)' => Merged(r) \/ Merging(r)
    <3>1. KindOf[r] \in {"transaction", "category"}
      BY <1>3, ConstantsOK DEF ConstantsOK, Kinds
    <3> QED BY <1>1, <1>2, <3>1, Orders DEF Merged, Merging, InMerge
  <2>4. ~Merging(r) => mirror'[r] = mirror[r]
    BY <1>1, <2>1, <2>2 DEF RowCover, InTurn
  <2>5. InTurn(r)' /\ Marks(r)' /\ ~Merging(r)' /\ ~InPullWindow(r)'
    BY <1>2 DEF InTurn, Marks, Merging, InPullWindow
  <2>6. ASSUME server'[r] > 0, r \notin gap'
        PROVE  Mirrors(r)' /\ Merges(r)' /\ Pulls(r)'
    <3>1. /\ ~Merging(r) => Covered(r, mirror[r], changed)
          /\ Merged(r) => Covered(r, mirror[r], later)
          /\ Merging(r) => Covered(r, sync.read[r], later)
          /\ Brought(r) \/ r \in later
      BY <1>1, <2>1, <2>6 DEF RowCover, Mirrors, Merges, Pulls, InMerge, serverVars
    <3>2. Merging(r) => Covered(r, mirror'[r], later)
      <4>1. ASSUME Merging(r), ~(sync.read[r].ver > 0)
            PROVE  r \in later \/ Editing(r)
        <5>1. sync.read[r].ver = 0 /\ server[r] > 0
          BY <1>a, <1>1, <2>6, <4>1, SyncFields, CopyFields DEF serverVars
        <5> QED BY <3>1, <4>1, <5>1 DEF Covered
      <4>2. Editing(r) => HasPending(r)
        BY DEF Editing, HasPending
      <4> QED BY <2>2, <3>1, <4>1, <4>2 DEF Covered
    <3>3. Merged(r) /\ ~Merging(r) => Covered(r, mirror'[r], later)
      BY <2>4, <3>1
    <3>4. Covered(r, mirror'[r], changed)
      BY <1>1, <2>4, <3>1, <3>2, LaterIsDue
    <3>5. Covered(r, mirror[r], changed)'
      BY <1>1, <3>4 DEF Covered, Editing, HasPending, serverVars
    <3>6. Merged(r)' => Covered(r, mirror[r], later)'
      BY <1>1, <2>3, <3>2, <3>3 DEF Covered, Editing, HasPending, serverVars
    <3>7. InMerge' => Brought(r)' \/ r \in later'
      BY <1>1, <1>2, <3>1 DEF Brought, InMerge, serverVars
    <3> QED BY <2>5, <3>5, <3>6, <3>7 DEF Mirrors, Merges, Pulls
  <2> QED BY <2>5, <2>6 DEF RowCover
<1>4. AckInv' /\ PhaseInv'
  BY <1>a, <1>1, <1>2 DEF AckInv, PhaseInv, Stamped, InMerge, serverVars
<1> QED BY <1>3, <1>4 DEF CoverInv

\* The pass saves the server's time: what is due now was for later.
LEMMA SaveCovers == MirrorInv /\ CoverInv /\ SaveLastSync => CoverInv'
<1> SUFFICES ASSUME MirrorInv, CoverInv, SaveLastSync PROVE CoverInv'
  OBVIOUS
<1>1. /\ sync.pc = "save" /\ changed' = later /\ sync'.pc = "idle" /\ sync'.ok = {}
      /\ UNCHANGED <<server, mirror, queue, user, gap>>
  BY DEF SaveLastSync, SyncIdle
<1>2. ASSUME NEW r \in Row, KindOf[r] # "account" PROVE RowCover(r)'
  <2>1. server[r] > 0 /\ r \notin gap => Covered(r, mirror[r], later)
    BY <1>1, <1>2 DEF CoverInv, RowCover, Merges, Merged
  <2>2. server'[r] > 0 /\ r \notin gap' => Covered(r, mirror[r], changed)'
    BY <1>1, <2>1 DEF Covered, Editing, HasPending
  <2> QED BY <1>1, <2>2 DEF RowCover, InTurn, Marks, Mirrors, Merges, Pulls, Merged,
          Merging, InMerge, InPullWindow
<1>3. AckInv' /\ PhaseInv'
  BY <1>1 DEF CoverInv, AckInv, PhaseInv, Stamped, InMerge
<1> QED BY <1>2, <1>3 DEF CoverInv

\* A pass that dies leaves what it was about to put in the gap.
LEMMA FaultCovers == MirrorInv /\ CoverInv /\ (LoseConnection \/ Kill) => CoverInv'
<1> SUFFICES ASSUME MirrorInv, CoverInv, LoseConnection \/ Kill PROVE CoverInv'
  OBVIOUS
<1>a. TypeOK /\ PhaseInv
  BY DEF MirrorInv, QueueInv, CoverInv
<1>1. /\ sync'.pc = "idle" /\ sync'.ok = {}
      /\ UNCHANGED <<serverVars, mirror, queue>>
      /\ user' = user \/ user' = UserIdle
      /\ gap' = IF sync.pc = "put" THEN gap \cup {r \in Row : sync.read[r] # NoCopy}
                ELSE gap
  BY DEF LoseConnection, Kill, Abandon, SyncIdle
<1>2. ASSUME NEW r \in Row, KindOf[r] # "account" PROVE RowCover(r)'
  <2>1. RowCover(r)
    BY <1>2 DEF CoverInv
  <2>2. ASSUME server'[r] > 0, r \notin gap' PROVE Covered(r, mirror[r], changed)'
    <3>1. server[r] > 0 /\ r \notin gap
      BY <1>1, <2>2 DEF serverVars
    <3>2. CASE Covered(r, mirror[r], changed)
      BY <1>1, <3>2 DEF Covered, Editing, HasPending, serverVars
    <3>3. CASE sync.pc = "put" /\ Merging(r)
      <4>1. sync.read[r].ver = 0
        BY <1>1, <2>2, <3>3 DEF NoCopy
      <4>2. Covered(r, sync.read[r], later) /\ later \subseteq changed
        BY <1>a, <2>1, <3>1, <3>3 DEF RowCover, Merges, PhaseInv, Stamped
      <4>3. r \in changed \/ Editing(r)
        BY <3>1, <4>1, <4>2 DEF Covered
      <4>4. Editing(r) => HasPending(r)
        BY DEF Editing, HasPending
      <4> QED BY <1>1, <4>3, <4>4 DEF Covered, Editing, HasPending, serverVars
    <3> QED BY <2>1, <3>1, <3>2, <3>3 DEF RowCover, Mirrors
  <2> QED BY <1>1, <2>2 DEF RowCover, InTurn, Marks, Mirrors, Merges, Pulls, Merged,
          Merging, InMerge, InPullWindow
<1>3. AckInv' /\ PhaseInv'
  BY <1>a, <1>1 DEF AckInv, PhaseInv, Stamped, InMerge, UserIdle
<1> QED BY <1>2, <1>3 DEF CoverInv

\* The invariant is inductive.
LEMMA CoverStep == MirrorInv /\ CoverInv /\ [Next]_vars => CoverInv'
<1> SUFFICES ASSUME MirrorInv, CoverInv, [Next]_vars PROVE CoverInv'
  OBVIOUS
<1>1. CASE UNCHANGED vars
  <2>1. \A r \in Row : KindOf[r] # "account" => RowCover(r)'
    BY <1>1, QueueCovers DEF vars, serverVars
  <2> QED BY <1>1, <2>1 DEF vars, CoverInv, AckInv, PhaseInv, Stamped, InMerge
<1>2. CASE Next
  BY <1>2, UserCovers, ServerCovers, PushCovers, AckCovers, MarkCovers, RemoveCovers,
     QueryCovers, StampCovers, ReadCovers, ClearCovers, PutCovers, SaveCovers, FaultCovers
  DEF Next, Push, Ack, Pull
<1> QED BY <1>1, <1>2

LEMMA CoverInit == Init => CoverInv
<1> SUFFICES ASSUME Init PROVE CoverInv
  OBVIOUS
<1>1. sync.pc = "idle" /\ sync.ok = {} /\ user.pc = "idle"
  BY DEF Init, SyncIdle, UserIdle
<1>2. ASSUME NEW r \in Row, KindOf[r] # "account" PROVE RowCover(r)
  <2>1. server[r] > 0 => r \in changed
    BY <1>2 DEF Init
  <2> QED BY <1>1, <2>1 DEF RowCover, InTurn, Marks, Mirrors, Merges, Pulls, Merged,
          Merging, InMerge, InPullWindow, Covered
<1> QED BY <1>1, <1>2 DEF CoverInv, AckInv, PhaseInv, Stamped, InMerge

LEMMA CoverInvariant == Spec => [](MirrorInv /\ CoverInv)
<1>1. Init => MirrorInv /\ CoverInv
  BY MirrorInvInit, CoverInit
<1>2. MirrorInv /\ CoverInv /\ [Next]_vars => (MirrorInv /\ CoverInv)'
  BY MirrorInvStep, CoverStep
<1> QED BY <1>1, <1>2, PTL DEF Spec

\* Between passes a row of the server is shown as it is, or due in the next pull, or
\* about to be changed by a queued operation, unless it fell out of the pull in
\* one of the six ways that record it in gap.
THEOREM StaleRowsAreKnown == Spec => []StaleOnlyByKnownGaps
<1>1. CoverInv => StaleOnlyByKnownGaps
  <2> SUFFICES ASSUME CoverInv, Resting, NEW r \in Row, server[r] > 0, r \notin gap
               PROVE  Mirrored(r)
    BY DEF StaleOnlyByKnownGaps
  <2>1. KindOf[r] # "account" => Covered(r, mirror[r], changed)
    BY DEF CoverInv, RowCover, Mirrors, Resting
  <2> QED BY <2>1 DEF Mirrored, Due, Covered, Editing, HasPending
<1> QED BY <1>1, CoverInvariant, PTL

------------------------------------------------------------------------------
(* What an unsynced copy shows.  A pull may replace one, and what it shows   *)
(* is then an edit that was queued and has left the queue.                  *)

\* Copy c of row r shows an edit that was queued, if it is not synced.
Queued(r, c, ops) ==
  c.ver > 0 /\ ~c.synced => \E o \in ops : o.row = r /\ o.ver = c.ver

ShownInv ==
  /\ \A r \in Row : Queued(r, mirror[r], issued) /\ Queued(r, sync.read[r], issued)
  /\ user.pc = "update" => \E o \in issued : o.row = user.row /\ o.ver = user.ver

\* No copy, and a synced one, have nothing to show.
LEMMA NothingQueued ==
  ASSUME NEW r, NEW c, NEW ops, c = NoCopy \/ c.synced PROVE Queued(r, c, ops)
<1>1. CASE c = NoCopy
  BY <1>1 DEF NoCopy, Queued
<1>2. CASE c.synced
  BY <1>2 DEF Queued
<1> QED BY <1>1, <1>2

\* Only the copy of row q changes, to c, which shows an operation.
LEMMA OneShown ==
  ASSUME TypeOK, ShownInv, NEW q \in Row, NEW c, NEW stale, WriteMirror(q, c, stale),
         issued \subseteq issued', UNCHANGED sync, user'.pc # "update",
         Queued(q, c, issued')
  PROVE  ShownInv'
<1>1. ASSUME NEW r \in Row PROVE Queued(r, mirror[r], issued)' /\ Queued(r, sync.read[r], issued)'
  <2>1. mirror'[r] = IF r = q THEN c ELSE mirror[r]
    BY DEF WriteMirror, TypeOK
  <2>2. Queued(r, mirror[r], issued') /\ Queued(r, sync.read[r], issued')
    BY DEF ShownInv, Queued
  <2> QED BY <2>1, <2>2 DEF Queued
<1> QED BY <1>1 DEF ShownInv

\* The copies stay, and so does what they show.
LEMMA AllShown ==
  ASSUME ShownInv, issued \subseteq issued', UNCHANGED mirror,
         \A r \in Row : \/ sync'.read[r] \in {sync.read[r], mirror[r]}
                        \/ sync'.read[r] = NoCopy
                        \/ sync'.read[r].synced,
         user'.pc = "update" => \E o \in issued' : o.row = user'.row /\ o.ver = user'.ver
  PROVE  ShownInv'
<1>1. ASSUME NEW r \in Row PROVE Queued(r, mirror[r], issued)' /\ Queued(r, sync.read[r], issued)'
  <2>1. Queued(r, mirror[r], issued') /\ Queued(r, sync.read[r], issued')
    BY DEF ShownInv, Queued
  <2>2. sync'.read[r] = NoCopy \/ sync'.read[r].synced => Queued(r, sync'.read[r], issued')
    BY NothingQueued
  <2> QED BY <2>1, <2>2
<1> QED BY <1>1 DEF ShownInv

LEMMA ShownStep == TypeOK /\ ShownInv /\ [Next]_vars => ShownInv'
<1> SUFFICES ASSUME TypeOK, ShownInv, [Next]_vars PROVE ShownInv'
  OBVIOUS
<1>a. UserIdle.pc # "update" /\ SyncIdle.read = NoCopies /\ \A r \in Row : NoCopies[r] = NoCopy
  BY DEF UserIdle, SyncIdle, NoCopies
<1>1. ASSUME NEW r \in Row, QueueCreate(r) PROVE ShownInv'
  <2> DEFINE c == [ver |-> edit + 1, synced |-> FALSE]
  <2>1. WriteMirror(r, c, FALSE) /\ UNCHANGED <<user, sync>> /\ user.pc = "idle"
        /\ issued' = issued \cup {NewOp("create", r, edit + 1)}
    BY <1>1 DEF QueueCreate, Enqueue
  <2>2. Queued(r, c, issued')
    <3>1. NewOp("create", r, edit + 1) \in issued'
      BY <2>1
    <3>2. NewOp("create", r, edit + 1).row = r /\ NewOp("create", r, edit + 1).ver = c.ver
      BY DEF NewOp
    <3> QED BY <3>1, <3>2 DEF Queued
  <2> HIDE DEF c
  <2> QED BY <2>1, <2>2, OneShown
<1>2. ASSUME NEW r \in Row, CreateReplyLost(r) PROVE ShownInv'
  <2> DEFINE c == [ver |-> user.ver, synced |-> FALSE]
  <2>1. WriteMirror(r, c, FALSE) /\ UNCHANGED sync /\ user' = UserIdle
        /\ issued' = issued \cup {NewOp("create", r, user.ver)}
    BY <1>2 DEF CreateReplyLost, Enqueue
  <2>2. Queued(r, c, issued')
    <3>1. NewOp("create", r, user.ver) \in issued'
      BY <2>1
    <3>2. NewOp("create", r, user.ver).row = r /\ NewOp("create", r, user.ver).ver = c.ver
      BY DEF NewOp
    <3> QED BY <3>1, <3>2 DEF Queued
  <2> HIDE DEF c
  <2> QED BY <1>a, <2>1, <2>2, OneShown
<1>3. CASE FinishUpdate
  <2> DEFINE c == [ver |-> user.ver, synced |-> user.copy.synced]
  <2>1. WriteMirror(user.row, c, Pushed) /\ UNCHANGED <<sync, issued>> /\ user' = UserIdle
        /\ user.pc = "update"
    BY <1>3 DEF FinishUpdate
  <2>2. user.row \in Row
    BY <2>1, UserFields
  <2>3. Queued(user.row, c, issued')
    BY <2>1 DEF Queued, ShownInv
  <2> HIDE DEF c
  <2> QED BY <1>a, <2>1, <2>2, <2>3, OneShown
<1>4. CASE FinishDelete
  <2>1. WriteMirror(user.row, NoCopy, Pushed) /\ UNCHANGED <<sync, issued>> /\ user' = UserIdle
        /\ user.pc = "delete"
    BY <1>4 DEF FinishDelete
  <2>2. user.row \in Row
    BY <2>1, UserFields
  <2> QED BY <1>a, <2>1, <2>2, NothingQueued, OneShown
<1>5. CASE RestReply
  <2>1. PICK c, stale : /\ WriteMirror(user.row, c, stale) /\ (c = NoCopy \/ c.synced)
    BY <1>5 DEF RestReply
  <2>2. UNCHANGED <<sync, issued>> /\ user' = UserIdle /\ user.pc = "reply"
    BY <1>5 DEF RestReply
  <2>3. user.row \in Row
    BY <2>2, UserFields
  <2> QED BY <1>a, <2>1, <2>2, <2>3, NothingQueued, OneShown
<1>6. ASSUME NEW r \in Row, QueueUpdate(r) PROVE ShownInv'
  <2>1. /\ UNCHANGED <<mirror, sync>> /\ issued' = issued \cup {NewOp("update", r, edit + 1)}
        /\ (user' = UserIdle \/ (user'.row = r /\ user'.ver = edit + 1))
    BY <1>6 DEF QueueUpdate, Enqueue
  <2>2. NewOp("update", r, edit + 1).row = r /\ NewOp("update", r, edit + 1).ver = edit + 1
    BY DEF NewOp
  <2>3. user'.pc = "update" => \E o \in issued' : o.row = user'.row /\ o.ver = user'.ver
    BY <1>a, <2>1, <2>2
  <2> QED BY <2>1, <2>3, AllShown
<1>7. CASE UpdateReplyLost
  <2>1. /\ UNCHANGED <<mirror, sync>> /\ issued' = issued \cup {NewOp("update", user.row, user.ver)}
        /\ (user' = UserIdle \/ user' = [user EXCEPT !.pc = "update", !.copy = mirror[user.row]])
        /\ user.pc = "reply"
    BY <1>7 DEF UpdateReplyLost, Enqueue
  <2>2. user' = UserIdle \/ (user'.row = user.row /\ user'.ver = user.ver)
    <3>1. user \in BusyUser
      BY <2>1, UserFields
    <3> QED BY <2>1, <3>1 DEF BusyUser
  <2>3. /\ NewOp("update", user.row, user.ver).row = user.row
        /\ NewOp("update", user.row, user.ver).ver = user.ver
    BY DEF NewOp
  <2>4. user'.pc = "update" => \E o \in issued' : o.row = user'.row /\ o.ver = user'.ver
    BY <1>a, <2>1, <2>2, <2>3
  <2> QED BY <2>1, <2>4, AllShown
<1>8. ASSUME NEW r \in Row,
             QueueCreateKilled(r) \/ QueueDelete(r) \/ RestCreate(r) \/ RestUpdate(r) \/ RestDelete(r)
      PROVE  ShownInv'
  <2>1. UNCHANGED <<mirror, sync>> /\ issued \subseteq issued' /\ user'.pc # "update"
    BY <1>8 DEF QueueCreateKilled, QueueDelete, RestCreate, RestUpdate, RestDelete, Enqueue,
       AwaitReply
  <2> QED BY <2>1, AllShown
<1>9. CASE DeleteReplyLost
  <2>1. UNCHANGED <<mirror, sync>> /\ issued \subseteq issued' /\ user'.pc # "update"
    <3>1. user \in BusyUser
      BY <1>9, UserFields DEF DeleteReplyLost
    <3> QED BY <1>9, <3>1 DEF DeleteReplyLost, Enqueue, BusyUser
  <2> QED BY <2>1, AllShown
<1>10. CASE Remote \/ OrphanAccepted \/ OrphanRefused \/ UNCHANGED vars
  <2>1. UNCHANGED <<mirror, sync, issued, user>>
    BY <1>10 DEF Remote, RemoteCreate, RemoteUpdate, RemoteDelete, RemoteEdit, OrphanAccepted,
       OrphanRefused, vars
  <2> QED BY <2>1, AllShown DEF ShownInv
<1>11. CASE StartSync \/ Push \/ AckRefused \/ Remove \/ PushDone \/ Query \/ Stamp \/ SaveLastSync
  <2>1. UNCHANGED <<mirror, issued, user>>
    BY <1>11 DEF StartSync, Push, PushAccepted, PushRefused, PushFailed, PushReply, AckRefused,
       Remove, PushDone, Query, Stamp, SaveLastSync
  <2>2. sync'.read \in {sync.read, NoCopies}
    <3>1. CASE StartSync \/ PushDone \/ SaveLastSync
      <4>1. CASE StartSync
        BY <4>1 DEF StartSync, SyncIdle
      <4>2. CASE PushDone
        BY <4>2 DEF PushDone, SyncIdle
      <4>3. CASE SaveLastSync
        BY <4>3 DEF SaveLastSync, SyncIdle
      <4> QED BY <3>1, <4>1, <4>2, <4>3
    <3>2. CASE Push
      BY <3>2 DEF Push, PushAccepted, PushRefused, PushFailed, PushReply, TypeOK, SyncPass
    <3>3. CASE AckRefused \/ Remove
      BY <3>3 DEF AckRefused, Remove, TypeOK, SyncPass
    <3>4. CASE Query \/ Stamp
      BY <3>4 DEF Query, Stamp, TypeOK, SyncPass
    <3> QED BY <1>11, <3>1, <3>2, <3>3, <3>4
  <2> QED BY <1>a, <2>1, <2>2, AllShown DEF ShownInv
<1>12. CASE LoseConnection \/ Kill
  <2>1. UNCHANGED <<mirror, issued>> /\ sync'.read = NoCopies
        /\ (user' = user \/ user' = UserIdle)
    BY <1>12, <1>a DEF LoseConnection, Kill, Abandon
  <2> QED BY <1>a, <2>1, AllShown DEF ShownInv
<1>13. CASE AckOk
  <2>1. UNCHANGED <<mirror, issued, user>>
    BY <1>13 DEF AckOk
  <2>2. \A r \in Row : sync'.read[r] \in {sync.read[r], mirror[r], NoCopy}
    BY <1>13 DEF AckOk, TypeOK, SyncPass, NoCopies
  <2> QED BY <2>1, <2>2, AllShown DEF ShownInv
<1>14. CASE MergeRead
  <2>1. UNCHANGED <<mirror, issued, user>>
    BY <1>14 DEF MergeRead
  <2>2. ASSUME NEW r \in Row
        PROVE  \/ sync'.read[r] \in {NoCopy, mirror[r]}
               \/ sync'.read[r] = [ver |-> sync.pulled[r], synced |-> TRUE]
    BY <1>14 DEF MergeRead, TypeOK, SyncPass
  <2>3. ASSUME NEW r \in Row
        PROVE  \/ sync'.read[r] \in {sync.read[r], mirror[r]}
               \/ sync'.read[r] = NoCopy
               \/ sync'.read[r].synced
    <3>1. [ver |-> sync.pulled[r], synced |-> TRUE].synced
      OBVIOUS
    <3> QED BY <2>2, <3>1
  <2> QED BY <2>1, <2>3, AllShown DEF ShownInv
<1>15. CASE Mark
  <2>1. PICK q \in Row :
          /\ mirror' = mirror \/ mirror' = [mirror EXCEPT ![q] = [ver |-> sync.read[q].ver, synced |-> TRUE]]
          /\ sync' = [sync EXCEPT !.pc = "remove", !.read = NoCopies]
          /\ UNCHANGED <<issued, user>>
    BY <1>15, SyncFields DEF Mark, Op
  <2>2. \A r \in Row : sync'.read[r] = NoCopy
    BY <1>a, <2>1 DEF TypeOK, SyncPass
  <2>3. \A r \in Row : mirror'[r] = mirror[r] \/ mirror'[r] = [ver |-> sync.read[q].ver, synced |-> TRUE]
    BY <2>1 DEF TypeOK
  <2>4. ASSUME NEW r \in Row PROVE Queued(r, mirror[r], issued)' /\ Queued(r, sync.read[r], issued)'
    BY <2>1, <2>2, <2>3, NothingQueued DEF ShownInv
  <2> QED BY <2>1, <2>4 DEF ShownInv
<1>16. CASE MergeClear
  <2>1. UNCHANGED <<issued, user>> /\ sync'.read = sync.read
    BY <1>16 DEF MergeClear, TypeOK, SyncPass
  <2>2. \A r \in Row : mirror'[r] \in {NoCopy, mirror[r]}
    BY <1>16 DEF MergeClear
  <2>3. ASSUME NEW r \in Row PROVE Queued(r, mirror[r], issued)' /\ Queued(r, sync.read[r], issued)'
    BY <2>1, <2>2, NothingQueued DEF ShownInv
  <2> QED BY <2>1, <2>3 DEF ShownInv
<1>17. CASE MergePut
  <2>1. UNCHANGED <<issued, user>> /\ sync'.read = NoCopies
    BY <1>17 DEF MergePut, TypeOK, SyncPass, SyncIdle
  <2>2. \A r \in Row : mirror'[r] \in {sync.read[r], mirror[r]}
    BY <1>17 DEF MergePut
  <2>3. ASSUME NEW r \in Row PROVE Queued(r, mirror[r], issued)' /\ Queued(r, sync.read[r], issued)'
    BY <1>a, <2>1, <2>2, NothingQueued DEF ShownInv
  <2> QED BY <2>1, <2>3 DEF ShownInv
<1> QED
  BY <1>1, <1>2, <1>3, <1>4, <1>5, <1>6, <1>7, <1>8, <1>9, <1>10, <1>11, <1>12, <1>13, <1>14,
     <1>15, <1>16, <1>17 DEF Next, User, Ack, Pull

\* Between passes a row of the server that is shown as not yet synced has an operation to
\* push, or the next pull replaces it and loses no edit with it: the flag does not
\* outlive its reason when results are taken for other operations, creates are
\* repeated and marks are overtaken.
THEOREM UnsyncedRowsAreCovered == Spec => []UnsyncedCopyIsCovered
<1>1. CoverInv /\ ShownInv /\ NoSilentLoss => UnsyncedCopyIsCovered
  <2> SUFFICES ASSUME CoverInv, ShownInv, NoSilentLoss, Resting, NEW r \in Row, server[r] > 0,
                      r \notin gap, mirror[r].ver > 0, ~mirror[r].synced, ~HasPending(r)
               PROVE  Due(r) /\ ShowsSettled(r)
    BY DEF UnsyncedCopyIsCovered
  <2>1. KindOf[r] # "account" => Covered(r, mirror[r], changed)
    BY DEF CoverInv, RowCover, Mirrors, Resting
  <2>2. Due(r)
    BY <2>1 DEF Due, Covered
  <2>3. PICK o \in issued : o.row = r /\ o.ver = mirror[r].ver
    BY DEF ShownInv, Queued
  <2>4. DQ!Settled(o)
    BY <2>3 DEF NoSilentLoss, HasPending
  <2> QED BY <2>2, <2>3, <2>4 DEF ShowsSettled
<1>2. Init => ShownInv
  BY IdleTypes DEF Init, ShownInv, Queued, NoCopies, NoCopy, SyncIdle, UserIdle
<1>3. TypeOK /\ ShownInv /\ [Next]_vars => ShownInv'
  BY ShownStep
<1> QED BY <1>1, <1>2, <1>3, TypeCorrect, CoverInvariant, NothingLost, PTL DEF Spec
==============================================================================
