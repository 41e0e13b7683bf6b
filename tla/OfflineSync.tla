----------------------------- MODULE OfflineSync -----------------------------
(***************************************************************************)
(* The offline-first data path: one device (the Tauri client) with its     *)
(* IndexedDB mirror and queue of pending mutations, the /api/sync          *)
(* endpoints it pushes to and pulls from, the REST endpoints it uses while *)
(* online, and the other devices that write to the same server.            *)
(*                                                                         *)
(*   desktop/src/offline/sync-engine.ts   the push/pull pass               *)
(*   desktop/src/offline/database.ts      the mirror and the queue         *)
(*   desktop/src/lib/api.ts               the user's mutations             *)
(*   backend/src/routes/sync.rs           push and pull on the server      *)
(*                                                                         *)
(* Granularity.  A step is one IndexedDB transaction, one operation of a   *)
(* push on the server, one SELECT of a pull, or the arrival of a response. *)
(*                                                                         *)
(* Data.  A row's contents are the number of the edit that wrote them      *)
(* (0 = the row is absent), so "older" and "newer" can be compared.  A     *)
(* pending operation carries the number of the edit that queued it, which  *)
(* orders the queue as the autoIncrement key does.  Timestamps are         *)
(* replaced by what they are compared with: changed is the set of rows     *)
(* whose updated_at is later than the client's last_synced_at, later those *)
(* written after the server_time of the pull in progress.                  *)
(***************************************************************************)
EXTENDS Naturals, FiniteSets

CONSTANTS
  Row,        \* row ids (UUIDs): an id is handed out once, by either side
  KindOf,     \* KindOf[r]: the entity type of row r
  Existing,   \* rows on the server before this device first syncs
  Pinned,     \* rows other tables refer to, so that DELETE is refused
  MaxEdits,   \* bound: edits made by the user and by other devices
  MaxRemote,  \* bound: how many of them other devices make
  MaxFaults   \* bound: lost connections, kills of the app, server errors

Kinds == {"transaction", "category", "account"}

ASSUME ConstantsOK ==
  /\ KindOf \in [Row -> Kinds]
  /\ Existing \subseteq Row
  /\ Pinned \subseteq Row
  /\ MaxEdits \in Nat \ {0}
  /\ MaxRemote \in Nat
  /\ MaxFaults \in Nat

VARIABLES
  server,   \* server[r]: the edit stored in row r, 0 if there is no such row
  changed,  \* rows with updated_at later than last_synced_at
  later,    \* rows with updated_at later than the current pull's server_time
  taken,    \* row ids already handed out
  edit,     \* number of edits made so far
  remote,   \* how many of them other devices made
  mirror,   \* local_transactions, local_categories, local_accounts
  queue,    \* pending_operations
  user,     \* the mutation the user interface is carrying out
  sync,     \* the sync pass in flight (syncInFlight)
  orphan,   \* operations of a push whose client is gone, not yet applied
  faults,   \* faults so far
  issued,   \* history: every operation ever queued
  accepted, \* history: operations the server answered "ok"
  stored,   \* history: rows the server has ever held
  gap       \* history: rows that fell out of the incremental pull

serverVars  == <<server, changed, later>>
historyVars == <<issued, accepted, stored, gap>>
vars == <<server, changed, later, taken, edit, remote, mirror, queue, user,
          sync, orphan, faults, issued, accepted, stored, gap>>

------------------------------------------------------------------------------
(* Values *)

\* A mirror row: the edit it shows and its synced flag.  server_id is set
\* exactly when synced is, and then equals the row's id.
NoCopy == [ver |-> 0, synced |-> FALSE]
Copy   == [ver : Nat \ {0}, synced : BOOLEAN] \cup {NoCopy}

Op == [op : {"create", "update", "delete"}, row : Row, ver : 1 .. MaxEdits]

\* A mutation in progress: read, written or waiting for the server's reply.
BusyUser == [pc : {"update", "delete", "reply"}, op : {"create", "update", "delete"},
             row : Row, ver : 1 .. MaxEdits, copy : Copy]
UserIdle == [pc |-> "idle"]

\* A pass: the pending operations it read (batch), those not yet handled in
\* the current phase (todo), those answered "ok", the rows pulled, and the
\* mirror rows read and to be written back.
SyncPass == [pc : {"idle", "push", "ack", "mark", "remove", "query", "merge",
                   "clear", "put", "save"},
             step : 1 .. 4, batch : SUBSET Op, todo : SUBSET Op, ok : SUBSET Op,
             pulled : [Row -> Nat], read : [Row -> Copy]]
Nothing  == [r \in Row |-> 0]
NoCopies == [r \in Row |-> NoCopy]
SyncIdle == [pc |-> "idle", step |-> 1, batch |-> {}, todo |-> {}, ok |-> {},
             pulled |-> Nothing, read |-> NoCopies]

\* The order of the SELECTs in sync.rs and of the merges in sync-engine.ts.
QueryOrder == <<"category", "transaction", "account">>
MergeOrder == <<"transaction", "category", "account">>

\* The oldest operation of a set: pushes are applied and acknowledged in
\* queue order.
IsFirst(o, ops) == o \in ops /\ \A p \in ops : o.ver <= p.ver

\* The operation a result is taken for: pendingById has one entry per client
\* id, and the last operation queued under it wins.
IsTarget(p, o, ops) ==
  /\ p \in ops
  /\ p.row = o.row
  /\ \A q \in ops : q.row = o.row => q.ver <= p.ver

------------------------------------------------------------------------------
(* The server: the apply_* handlers of sync.rs and the REST handlers. *)

\* A category create is a plain INSERT under the client's id, so it succeeds
\* once; a transaction create that is repeated is answered from its
\* idempotency key, and an account create is an upsert.
CreateAccepted(o) == KindOf[o.row] = "category" => server[o.row] = 0

IsReplay(o) ==
  o.op = "create" /\ KindOf[o.row] = "transaction" /\ server[o.row] > 0

\* An update needs the row; a delete finds it gone, or nothing that refers
\* to it.
UpdateAccepted(o) == server[o.row] > 0
DeleteAccepted(o) == server[o.row] = 0 \/ o.row \notin Pinned

\* apply_operation answers "ok".
Accepts(o) ==
  /\ o.op = "create" => CreateAccepted(o)
  /\ o.op = "update" => UpdateAccepted(o)
  /\ o.op = "delete" => DeleteAccepted(o)

\* A row written after its SELECT and before server_time is taken: the window
\* that neither this pull nor the next one covers.
InPullWindow(r) ==
  /\ sync.pc = "query"
  /\ \E i \in 1 .. 3 : i < sync.step /\ QueryOrder[i] = KindOf[r]

Stamped == sync.pc \in {"merge", "clear", "put", "save"}

\* Mutant: an UPDATE that does not set updated_at.
StoreUnstamped(r, v) ==
  /\ server' = [server EXCEPT ![r] = v]
  /\ changed' = IF v > 0 THEN changed ELSE changed \ {r}
  /\ later' = later \ {r}
  /\ stored' = IF v > 0 THEN stored \cup {r} ELSE stored
  /\ gap' = gap

\* Row r now holds v, 0 for a deletion.  A write stamps updated_at (accounts
\* have none); a deletion leaves no trace for a pull to find.
Store(r, v) ==
  LET Touch(rows) == IF v > 0 /\ KindOf[r] # "account" THEN rows \cup {r}
                                                       ELSE rows \ {r}
  IN /\ server' = [server EXCEPT ![r] = v]
     /\ changed' = Touch(changed)
     /\ later' = IF Stamped THEN Touch(later) ELSE later
     /\ stored' = IF v > 0 THEN stored \cup {r} ELSE stored
     /\ gap' = IF v > 0 /\ InPullWindow(r) THEN gap \cup {r} ELSE gap

\* One operation of a push, accepted.
Apply(o) ==
  /\ Accepts(o)
  /\ IF IsReplay(o) THEN UNCHANGED <<serverVars, stored, gap>>
     ELSE Store(o.row, IF o.op = "delete" THEN 0 ELSE o.ver)
  /\ accepted' = accepted \cup {o}

------------------------------------------------------------------------------
(* The device: the user's mutations (api.ts). *)

\* A merge or a mark has read row r and will write it back: a change made to
\* the mirror now is overwritten.
Overtaken(r) ==
  \/ sync.pc \in {"clear", "put"} /\ KindOf[r] = MergeOrder[sync.step]
  \/ sync.pc = "mark" /\ sync.read[r] # NoCopy

\* A handler writes mirror row r; stale says that it acts on an outdated view.
WriteMirror(r, c, stale) ==
  /\ mirror' = [mirror EXCEPT ![r] = c]
  /\ gap' = IF stale \/ Overtaken(r) THEN gap \cup {r} ELSE gap

NextEdit ==
  /\ edit < MaxEdits
  /\ edit' = edit + 1

Enqueue(o) ==
  /\ queue' = queue \cup {o}
  /\ issued' = issued \cup {o}

NewOp(op, r, v) == [op |-> op, row |-> r, ver |-> v]

Fault ==
  /\ faults < MaxFaults
  /\ faults' = faults + 1

\* A whole push has retired the operation that the handler queued.
Pushed == NewOp(user.op, user.row, user.ver) \notin queue

\* queueAndStore of a create: the operation is queued, then the row is put in
\* the mirror; nothing but the death of the app comes between the two.
QueueCreate(r) ==
  /\ user.pc = "idle"
  /\ r \notin taken
  /\ NextEdit
  /\ taken' = taken \cup {r}
  /\ Enqueue(NewOp("create", r, edit + 1))
  /\ WriteMirror(r, [ver |-> edit + 1, synced |-> FALSE], FALSE)
  /\ UNCHANGED <<serverVars, remote, user, sync, orphan, faults, accepted, stored>>

\* The app dies between the two writes.
QueueCreateKilled(r) ==
  /\ user.pc = "idle"
  /\ sync.pc = "idle"
  /\ r \notin taken
  /\ NextEdit
  /\ Fault
  /\ taken' = taken \cup {r}
  /\ Enqueue(NewOp("create", r, edit + 1))
  /\ UNCHANGED <<serverVars, remote, mirror, user, sync, orphan, accepted,
                 stored, gap>>

\* A screen lists what the mirror holds, or, loaded online, what the server
\* holds.
Shown(r) == mirror[r].ver > 0 \/ server[r] > 0

\* queueAndStore of an update: the operation is queued and the mirror row
\* read; FinishUpdate writes it back with the new fields.  The synced flag is
\* the one that was read.  A row missing from the mirror is not written.
QueueUpdate(r) ==
  /\ user.pc = "idle"
  /\ Shown(r)
  /\ NextEdit
  /\ Enqueue(NewOp("update", r, edit + 1))
  /\ user' = IF mirror[r].ver = 0 THEN UserIdle
             ELSE [pc |-> "update", op |-> "update", row |-> r,
                   ver |-> edit + 1, copy |-> mirror[r]]
  /\ UNCHANGED <<serverVars, taken, remote, mirror, sync, orphan, faults,
                 accepted, stored, gap>>

FinishUpdate ==
  /\ user.pc = "update"
  /\ WriteMirror(user.row, [ver |-> user.ver, synced |-> user.copy.synced],
                 Pushed)
  /\ user' = UserIdle
  /\ UNCHANGED <<serverVars, taken, edit, remote, queue, sync, orphan, faults,
                 issued, accepted, stored>>

QueueDelete(r) ==
  /\ user.pc = "idle"
  /\ Shown(r)
  /\ NextEdit
  /\ Enqueue(NewOp("delete", r, edit + 1))
  /\ user' = [pc |-> "delete", op |-> "delete", row |-> r, ver |-> edit + 1,
              copy |-> NoCopy]
  /\ UNCHANGED <<serverVars, taken, remote, mirror, sync, orphan, faults,
                 accepted, stored, gap>>

FinishDelete ==
  /\ user.pc = "delete"
  /\ WriteMirror(user.row, NoCopy, Pushed)
  /\ user' = UserIdle
  /\ UNCHANGED <<serverVars, taken, edit, remote, queue, sync, orphan, faults,
                 issued, accepted, stored>>

\* The same mutations while online: the server commits, then the reply
\* travels.  The queue is not consulted.  A request the server refuses leaves
\* everything as it was.
AwaitReply(op, r) ==
  user' = [pc |-> "reply", op |-> op, row |-> r, ver |-> edit + 1,
           copy |-> NoCopy]

RestCreate(r) ==
  /\ user.pc = "idle"
  /\ r \notin taken
  /\ NextEdit
  /\ taken' = taken \cup {r}
  /\ Store(r, edit + 1)
  /\ AwaitReply("create", r)
  /\ UNCHANGED <<remote, mirror, queue, sync, orphan, faults, issued, accepted>>

RestUpdate(r) ==
  /\ user.pc = "idle"
  /\ server[r] > 0
  /\ NextEdit
  /\ Store(r, edit + 1)
  /\ AwaitReply("update", r)
  /\ UNCHANGED <<taken, remote, mirror, queue, sync, orphan, faults, issued,
                 accepted>>

\* DELETE of a transaction drops the installment rows that refer to it first.
RestDelete(r) ==
  /\ user.pc = "idle"
  /\ server[r] > 0
  /\ r \in Pinned => KindOf[r] = "transaction"
  /\ NextEdit
  /\ Store(r, 0)
  /\ AwaitReply("delete", r)
  /\ UNCHANGED <<taken, remote, mirror, queue, sync, orphan, faults, issued,
                 accepted>>

\* The reply arrives.  It may be older than what a pull has brought since.
RestReply ==
  LET v == IF user.op = "delete" THEN 0 ELSE user.ver
  IN /\ user.pc = "reply"
     /\ WriteMirror(user.row,
                    IF v = 0 THEN NoCopy ELSE [ver |-> v, synced |-> TRUE],
                    v # server[user.row])
     /\ user' = UserIdle
     /\ UNCHANGED <<serverVars, taken, edit, remote, queue, sync, orphan,
                    faults, issued, accepted, stored>>

\* The reply is lost after the commit (isNetworkError): the mutation is queued
\* as if it had never been sent.  A create is queued under a new local id.
CreateReplyLost(r) ==
  /\ user.pc = "reply"
  /\ user.op = "create"
  /\ Fault
  /\ r \notin taken
  /\ KindOf[r] = KindOf[user.row]
  /\ taken' = taken \cup {r}
  /\ Enqueue(NewOp("create", r, user.ver))
  /\ WriteMirror(r, [ver |-> user.ver, synced |-> FALSE], FALSE)
  /\ user' = UserIdle
  /\ UNCHANGED <<serverVars, edit, remote, sync, orphan, accepted, stored>>

UpdateReplyLost ==
  /\ user.pc = "reply"
  /\ user.op = "update"
  /\ Fault
  /\ Enqueue(NewOp("update", user.row, user.ver))
  /\ user' = IF mirror[user.row].ver = 0 THEN UserIdle
             ELSE [user EXCEPT !.pc = "update", !.copy = mirror[user.row]]
  /\ UNCHANGED <<serverVars, taken, edit, remote, mirror, sync, orphan,
                 accepted, stored, gap>>

DeleteReplyLost ==
  /\ user.pc = "reply"
  /\ user.op = "delete"
  /\ Fault
  /\ Enqueue(NewOp("delete", user.row, user.ver))
  /\ user' = [user EXCEPT !.pc = "delete"]
  /\ UNCHANGED <<serverVars, taken, edit, remote, mirror, sync, orphan,
                 accepted, stored, gap>>

User ==
  \/ \E r \in Row : \/ QueueCreate(r) \/ QueueCreateKilled(r)
                    \/ QueueUpdate(r) \/ QueueDelete(r)
                    \/ RestCreate(r) \/ RestUpdate(r) \/ RestDelete(r)
                    \/ CreateReplyLost(r)
  \/ FinishUpdate \/ FinishDelete
  \/ RestReply \/ UpdateReplyLost \/ DeleteReplyLost

------------------------------------------------------------------------------
(* The device: one sync pass (sync-engine.ts); syncInFlight admits one. *)

StartSync ==
  /\ sync.pc = "idle"
  /\ sync' = IF queue = {} THEN [SyncIdle EXCEPT !.pc = "query"]
             ELSE [SyncIdle EXCEPT !.pc = "push", !.batch = queue, !.todo = queue]
  /\ UNCHANGED <<serverVars, taken, edit, remote, mirror, queue, user, orphan,
                 faults, issued, accepted, stored, gap>>

\* The server takes the operations of the batch one by one, each in its own
\* transaction.
PushAccepted ==
  \E o \in sync.todo :
    /\ sync.pc = "push"
    /\ IsFirst(o, sync.todo)
    /\ Apply(o)
    /\ sync' = [sync EXCEPT !.todo = @ \ {o}, !.ok = @ \cup {o}]
    /\ UNCHANGED <<taken, edit, remote, mirror, queue, user, orphan, faults,
                   issued>>

PushRefused ==
  \E o \in sync.todo :
    /\ sync.pc = "push"
    /\ IsFirst(o, sync.todo)
    /\ ~Accepts(o)
    /\ sync' = [sync EXCEPT !.todo = @ \ {o}]
    /\ UNCHANGED <<serverVars, taken, edit, remote, mirror, queue, user,
                   orphan, faults, issued, accepted, stored, gap>>

\* The transaction fails (a lock, a lost database connection): nothing is
\* applied and the result is an error.
PushFailed ==
  \E o \in sync.todo :
    /\ sync.pc = "push"
    /\ IsFirst(o, sync.todo)
    /\ Accepts(o)
    /\ Fault
    /\ sync' = [sync EXCEPT !.todo = @ \ {o}]
    /\ UNCHANGED <<serverVars, taken, edit, remote, mirror, queue, user,
                   orphan, issued, accepted, stored, gap>>

PushReply ==
  /\ sync.pc = "push"
  /\ sync.todo = {}
  /\ sync' = [sync EXCEPT !.pc = "ack", !.todo = sync.batch]
  /\ UNCHANGED <<serverVars, taken, edit, remote, mirror, queue, user, orphan,
                 faults, issued, accepted, stored, gap>>

\* What the server may still do with a push whose client has gone: the rest of
\* the batch is applied, or the handler is dropped with the connection.
Abandon ==
  /\ \/ sync.pc = "push" /\ orphan = {} /\ orphan' = sync.todo
     \/ UNCHANGED orphan
  /\ sync' = SyncIdle

LoseConnection ==
  /\ \/ sync.pc \in {"push", "query"}
     \/ sync.pc = "merge" /\ sync.step = 1
  /\ Fault
  /\ Abandon
  /\ UNCHANGED <<serverVars, taken, edit, remote, mirror, queue, user, issued,
                 accepted, stored, gap>>

OrphanAccepted ==
  \E o \in orphan :
    /\ IsFirst(o, orphan)
    /\ Apply(o)
    /\ orphan' = orphan \ {o}
    /\ UNCHANGED <<taken, edit, remote, mirror, queue, user, sync, faults,
                   issued>>

OrphanRefused ==
  \E o \in orphan :
    /\ IsFirst(o, orphan)
    /\ ~Accepts(o)
    /\ orphan' = orphan \ {o}
    /\ UNCHANGED <<serverVars, taken, edit, remote, mirror, queue, user, sync,
                   faults, issued, accepted, stored, gap>>

\* The result of o is looked up under its client id.  Unless it is "ok" the
\* loop moves on; the result of a create marks the mirror row first.
AckRefused ==
  \E o \in sync.todo :
    /\ sync.pc = "ack"
    /\ IsFirst(o, sync.todo)
    /\ o \notin sync.ok
    /\ sync' = [sync EXCEPT !.todo = @ \ {o}]
    /\ UNCHANGED <<serverVars, taken, edit, remote, mirror, queue, user,
                   orphan, faults, issued, accepted, stored, gap>>

\* Mutant: the status of a result is not looked at.
AckAnyStatus ==
  \E o \in sync.todo, p \in sync.batch :
    /\ sync.pc = "ack"
    /\ IsFirst(o, sync.todo)
    /\ IsTarget(p, o, sync.batch)
    /\ sync' = IF p.op = "create"
               THEN [sync EXCEPT !.pc = "mark",
                                 !.read = [NoCopies EXCEPT ![o.row] = mirror[o.row]]]
               ELSE [sync EXCEPT !.pc = "remove"]
    /\ UNCHANGED <<serverVars, taken, edit, remote, mirror, queue, user,
                   orphan, faults, issued, accepted, stored, gap>>

AckOk ==
  \E o \in sync.todo, p \in sync.batch :
    /\ sync.pc = "ack"
    /\ IsFirst(o, sync.todo)
    /\ o \in sync.ok
    /\ IsTarget(p, o, sync.batch)
    /\ sync' = IF p.op = "create"
               THEN [sync EXCEPT !.pc = "mark",
                                 !.read = [NoCopies EXCEPT ![o.row] = mirror[o.row]]]
               ELSE [sync EXCEPT !.pc = "remove"]
    /\ UNCHANGED <<serverVars, taken, edit, remote, mirror, queue, user,
                   orphan, faults, issued, accepted, stored, gap>>

\* Mutant: the row is written even when it was not found.
MarkAlways ==
  \E o \in sync.todo :
    /\ sync.pc = "mark"
    /\ IsFirst(o, sync.todo)
    /\ mirror' = [mirror EXCEPT ![o.row] =
                    [ver |-> sync.read[o.row].ver, synced |-> TRUE]]
    /\ sync' = [sync EXCEPT !.pc = "remove", !.read = NoCopies]
    /\ UNCHANGED <<serverVars, taken, edit, remote, queue, user, orphan,
                   faults, issued, accepted, stored, gap>>

\* mark...Synced writes back the row it read, with the flag set.
Mark ==
  \E o \in sync.todo :
    /\ sync.pc = "mark"
    /\ IsFirst(o, sync.todo)
    /\ mirror' = IF sync.read[o.row].ver = 0 THEN mirror
                 ELSE [mirror EXCEPT ![o.row] =
                         [ver |-> sync.read[o.row].ver, synced |-> TRUE]]
    /\ sync' = [sync EXCEPT !.pc = "remove", !.read = NoCopies]
    /\ UNCHANGED <<serverVars, taken, edit, remote, queue, user, orphan,
                   faults, issued, accepted, stored, gap>>

\* Mutants: the whole batch is dropped; the operation is never dropped.
RemoveBatch ==
  \E o \in sync.todo :
    /\ sync.pc = "remove"
    /\ IsFirst(o, sync.todo)
    /\ queue' = queue \ sync.batch
    /\ sync' = [sync EXCEPT !.pc = "ack", !.todo = @ \ {o}]
    /\ UNCHANGED <<serverVars, taken, edit, remote, mirror, user, orphan,
                   faults, issued, accepted, stored, gap>>

RemoveNothing ==
  \E o \in sync.todo :
    /\ sync.pc = "remove"
    /\ IsFirst(o, sync.todo)
    /\ sync' = [sync EXCEPT !.pc = "ack", !.todo = @ \ {o}]
    /\ UNCHANGED <<serverVars, taken, edit, remote, mirror, queue, user,
                   orphan, faults, issued, accepted, stored, gap>>

\* removePendingOperation(op.id), where op may not be the operation whose
\* result this is.
Remove ==
  \E o \in sync.todo, p \in sync.batch :
    /\ sync.pc = "remove"
    /\ IsFirst(o, sync.todo)
    /\ IsTarget(p, o, sync.batch)
    /\ queue' = queue \ {p}
    /\ gap' = IF p \in sync.ok THEN gap ELSE gap \cup {p.row}
    /\ sync' = [sync EXCEPT !.pc = "ack", !.todo = @ \ {o}]
    /\ UNCHANGED <<serverVars, taken, edit, remote, mirror, user, orphan,
                   faults, issued, accepted, stored>>

PushDone ==
  /\ sync.pc = "ack"
  /\ sync.todo = {}
  /\ sync' = [SyncIdle EXCEPT !.pc = "query"]
  /\ UNCHANGED <<serverVars, taken, edit, remote, mirror, queue, user, orphan,
                 faults, issued, accepted, stored, gap>>

\* The three SELECTs of pull, not in one transaction.  Accounts are returned
\* whatever their age.
Query ==
  LET hits == {r \in Row : /\ KindOf[r] = QueryOrder[sync.step]
                           /\ server[r] > 0
                           /\ r \in changed \/ KindOf[r] = "account"}
  IN /\ sync.pc = "query"
     /\ sync.step <= 3
     /\ sync' = [sync EXCEPT !.step = @ + 1,
                             !.pulled = [r \in Row |-> IF r \in hits THEN server[r]
                                                       ELSE @[r]]]
     /\ gap' = gap \ hits
     /\ UNCHANGED <<serverVars, taken, edit, remote, mirror, queue, user,
                    orphan, faults, issued, accepted, stored>>

\* server_time: Utc::now(), after the SELECTs.  What an abandoned pull had for
\* later is not later than this one's.
Stamp ==
  /\ sync.pc = "query"
  /\ sync.step = 4
  /\ sync' = [sync EXCEPT !.pc = "merge", !.step = 1]
  /\ later' = {}
  /\ UNCHANGED <<server, changed, taken, edit, remote, mirror, queue, user, orphan,
                 faults, issued, accepted, stored, gap>>

\* The mirror rows of one kind are read, overlaid with the pulled ones, and
\* replaced by the result: a clear and a put in separate transactions.
MergeRead ==
  LET Merged(r) ==
        IF KindOf[r] # MergeOrder[sync.step] THEN NoCopy
        ELSE IF sync.pulled[r] > 0 THEN [ver |-> sync.pulled[r], synced |-> TRUE]
        ELSE mirror[r]
  IN /\ sync.pc = "merge"
     /\ sync' = [sync EXCEPT !.pc = "clear", !.read = [r \in Row |-> Merged(r)]]
     /\ UNCHANGED <<serverVars, taken, edit, remote, mirror, queue, user,
                    orphan, faults, issued, accepted, stored, gap>>

MergeClear ==
  /\ sync.pc = "clear"
  /\ mirror' = [r \in Row |-> IF KindOf[r] = MergeOrder[sync.step] THEN NoCopy
                              ELSE mirror[r]]
  /\ sync' = [sync EXCEPT !.pc = "put"]
  /\ UNCHANGED <<serverVars, taken, edit, remote, queue, user, orphan, faults,
                 issued, accepted, stored, gap>>

MergePut ==
  /\ sync.pc = "put"
  /\ mirror' = [r \in Row |-> IF sync.read[r].ver > 0 THEN sync.read[r]
                              ELSE mirror[r]]
  /\ sync' = IF sync.step < 3
             THEN [sync EXCEPT !.pc = "merge", !.step = @ + 1, !.read = NoCopies]
             ELSE [SyncIdle EXCEPT !.pc = "save"]
  /\ UNCHANGED <<serverVars, taken, edit, remote, queue, user, orphan, faults,
                 issued, accepted, stored, gap>>

\* Mutant: last_synced_at is the device's time of saving.
SaveLastSyncNow ==
  /\ sync.pc = "save"
  /\ changed' = {}
  /\ later' = {}
  /\ sync' = SyncIdle
  /\ UNCHANGED <<server, taken, edit, remote, mirror, queue, user, orphan,
                 faults, issued, accepted, stored, gap>>

SaveLastSync ==
  /\ sync.pc = "save"
  /\ changed' = later
  /\ later' = {}
  /\ sync' = SyncIdle
  /\ UNCHANGED <<server, taken, edit, remote, mirror, queue, user, orphan,
                 faults, issued, accepted, stored, gap>>

Push == PushAccepted \/ PushRefused \/ PushFailed \/ PushReply
Ack  == AckRefused \/ AckOk \/ Mark \/ Remove \/ PushDone
Pull == Query \/ Stamp \/ MergeRead \/ MergeClear \/ MergePut \/ SaveLastSync

\* The app is closed or crashes: what was in memory is gone, the mirror, the
\* queue and last_synced_at stay.  A merge caught between its clear and its
\* put leaves its rows out of the mirror.
Kill ==
  /\ user.pc # "idle" \/ sync.pc # "idle"
  /\ Fault
  /\ Abandon
  /\ user' = UserIdle
  /\ gap' = IF sync.pc = "put" THEN gap \cup {r \in Row : sync.read[r] # NoCopy}
            ELSE gap
  /\ UNCHANGED <<serverVars, taken, edit, remote, mirror, queue, issued,
                 accepted, stored>>

------------------------------------------------------------------------------
(* The other devices, through the REST handlers. *)

RemoteEdit ==
  /\ remote < MaxRemote
  /\ remote' = remote + 1
  /\ NextEdit
  /\ UNCHANGED <<mirror, queue, user, sync, orphan, faults, issued, accepted>>

RemoteCreate(r) ==
  /\ r \notin taken
  /\ taken' = taken \cup {r}
  /\ Store(r, edit + 1)
  /\ RemoteEdit

RemoteUpdate(r) ==
  /\ server[r] > 0
  /\ Store(r, edit + 1)
  /\ RemoteEdit
  /\ UNCHANGED taken

RemoteDelete(r) ==
  /\ server[r] > 0
  /\ r \in Pinned => KindOf[r] = "transaction"
  /\ Store(r, 0)
  /\ RemoteEdit
  /\ UNCHANGED taken

Remote == \E r \in Row : RemoteCreate(r) \/ RemoteUpdate(r) \/ RemoteDelete(r)

------------------------------------------------------------------------------
(* The specification. *)

Init ==
  /\ server = [r \in Row |-> IF r \in Existing THEN 1 ELSE 0]
  /\ changed = {r \in Existing : KindOf[r] # "account"}
  /\ later = {}
  /\ taken = Existing
  /\ edit = 1
  /\ remote = 0
  /\ mirror = NoCopies
  /\ queue = {}
  /\ user = UserIdle
  /\ sync = SyncIdle
  /\ orphan = {}
  /\ faults = 0
  /\ issued = {}
  /\ accepted = {}
  /\ stored = Existing
  /\ gap = {}

Next ==
  \/ User
  \/ StartSync \/ Push \/ Ack \/ Pull
  \/ LoseConnection \/ Kill
  \/ OrphanAccepted \/ OrphanRefused
  \/ Remote

Spec == Init /\ [][Next]_vars

\* A sync is started at login, on every "online" event and by the banner's
\* button, and runs to its end; the app does not start one on a timer, so
\* fairness of StartSync says that the user or the network keeps asking.
Fairness ==
  /\ WF_vars(StartSync \/ Push \/ Ack \/ Pull)
  /\ WF_vars(FinishUpdate \/ FinishDelete \/ RestReply)

FairSpec == Spec /\ Fairness

------------------------------------------------------------------------------
(* Properties. *)

\* The variables hold what they are described to hold; in particular a mirror
\* row never carries a flag without contents.
TypeOK ==
  /\ server \in [Row -> Nat]
  /\ changed \subseteq Row
  /\ later \subseteq Row
  /\ taken \subseteq Row
  /\ edit \in 1 .. MaxEdits
  /\ remote \in Nat
  /\ mirror \in [Row -> Copy]
  /\ queue \subseteq Op
  /\ user \in {UserIdle} \cup BusyUser
  /\ sync \in SyncPass
  /\ orphan \subseteq Op
  /\ faults \in Nat
  /\ issued \subseteq Op
  /\ accepted \subseteq Op
  /\ stored \subseteq Row
  /\ gap \subseteq Row

DQ == INSTANCE DeliveryQueue WITH Ops <- Op, outstanding <- queue

\* An operation leaves the queue only when the server has accepted it or an
\* older one on the same row: the acknowledgement loop of pushPending, with
\* lost replies, repeated pushes and crashes.
NoSilentLoss == \A o \in issued : o \in queue \/ DQ!Settled(o)

\* What the comment in pushPending promises: an operation that failed stays
\* queued.
FailedOpsStayQueued == \A o \in issued : o \in queue \/ o \in accepted

\* A mirror row flagged synced, with a server id, is one the server has held.
SyncedMeansStored == \A r \in Row : mirror[r].synced => r \in stored

Resting == user.pc = "idle" /\ sync.pc = "idle"

HasPending(r) == \E o \in queue : o.row = r

ShowsSettled(r) ==
  \E o \in issued : o.row = r /\ o.ver = mirror[r].ver /\ DQ!Settled(o)

\* The next pull returns r.
Due(r) == r \in changed \/ KindOf[r] = "account"

\* The mirror shows r as the server has it, or will, or the device is ahead.
Mirrored(r) == mirror[r].ver = server[r] \/ Due(r) \/ HasPending(r)

\* Between passes every server row is shown as it is, or due, or being
\* changed: a pull "returns entities changed since the client's last sync".
PullMissesNothing ==
  Resting => \A r \in Row : server[r] > 0 => Mirrored(r)

\* The same, except for rows that fell out of the incremental pull in one of
\* the known ways: written between their SELECT and server_time, changed in
\* the mirror under a merge or a mark, cleared by a crash inside a merge,
\* overwritten by a late reply or by a handler whose operation is already
\* gone, or changed by an operation dropped unaccepted.
StaleOnlyByKnownGaps ==
  Resting => \A r \in Row : server[r] > 0 => Mirrored(r) \/ r \in gap

\* A row of the server shown as not yet synced still has an operation to push,
\* or the next pull replaces it.  Pulls do replace unsynced rows of the same id,
\* although pullChanges says that they are merged without clobbering them; a
\* copy replaced when nothing is queued for its row shows an edit that is
\* settled, so that no edit is lost with it.
UnsyncedCopyIsCovered ==
  Resting => \A r \in Row :
    /\ server[r] > 0
    /\ mirror[r].ver > 0
    /\ ~mirror[r].synced
    => HasPending(r) \/ (Due(r) /\ ShowsSettled(r)) \/ r \in gap

\* Once edits and faults stop, what remains queued is what the server refuses.
QueueSettles == <>[](\A o \in queue : ~Accepts(o))

\* The queue delivers at least once and forgets only what is settled.
ImplementsDeliveryQueue == DQ!Spec
=============================================================================
