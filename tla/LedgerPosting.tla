---------------------------- MODULE LedgerPosting ----------------------------
(***************************************************************************)
(* The balanced pair of ledger entries behind every transaction, under     *)
(* concurrent requests.                                                    *)
(*                                                                         *)
(*   backend/src/transaction_ledger.rs      accounts, posting, unposting   *)
(*   backend/src/routes/transactions.rs     create, update, delete         *)
(*   backend/src/routes/sync.rs             the same for pushed operations *)
(*   backend/src/routes/ledger.rs           the migration of old rows      *)
(*                                                                         *)
(* Granularity.  A step is one statement of PostgreSQL at READ COMMITTED,  *)
(* where statements that only touch rows nobody else can see or has locked *)
(* are joined with the one that follows.  A statement works on a snapshot  *)
(* taken when it starts; it waits for locks on rows of that snapshot and   *)
(* then skips the rows that are gone, but never sees rows added meanwhile. *)
(* What a database transaction changes is in req until it commits.         *)
(*                                                                         *)
(* Data.  Amount, type and category of a transaction are its content, and  *)
(* a pair has the content it was posted from: the two legs, equal amounts  *)
(* on opposite sides, are written by one INSERT.  One category stands for  *)
(* all of them, with a name that the migration looks up as it is; payloads *)
(* without a category read a generic account and change nothing.  The      *)
(* asset accounts that the other leg needs are there.                      *)
(***************************************************************************)
EXTENDS Naturals, FiniteSets

CONSTANTS
  Tx,        \* ids of transactions
  Pushed,    \* the one with a device's id, which a push may create again
  Posted,    \* transactions with entries at the start
  Legacy,    \* transactions without, ledger_transaction_id being NULL
  Content,   \* what a transaction may contain
  Request,   \* the requests that arrive, each once
  OpOf,      \* OpOf[p]: the handler that takes request p
  MaxFaults  \* bound: statements that fail, requests that are dropped

Creates == {"create", "push_create"}
Deletes == {"delete", "push_delete"}
Ops     == Creates \cup Deletes \cup {"update", "migrate"}

None == "none"

ASSUME LedgerConstants ==
  /\ Pushed \in Tx
  /\ Posted \subseteq Tx
  /\ Legacy \subseteq Tx
  /\ Posted \cap Legacy = {}
  /\ None \notin Content
  /\ None \notin Request
  /\ "self" \notin Request
  /\ "old" \notin Request
  /\ OpOf \in [Request -> Ops]
  /\ MaxFaults \in Nat

VARIABLES
  tx,        \* table transactions: content and ledger_transaction_id
  pairs,     \* table ledger_entries, in balanced pairs
  used,      \* ids ever given to a transaction
  accounts,  \* accounts with the category's name, by the request that made them
  link,      \* the category's ledger_account_id
  req,       \* the requests
  faults,    \* faults so far
  raced      \* history: transactions on which dangerous requests overlapped

tables == <<tx, pairs, used>>
vars   == <<tx, pairs, used, accounts, link, req, faults, raced>>

------------------------------------------------------------------------------
(* Values *)

\* ledger_transaction_id: none, the transaction's own id, or the fresh id of
\* a migration run.
Group == {None, "self"} \cup Request

NoRow == [content |-> None, ledger |-> None]
Row   == [content : Content, ledger : Group] \cup {NoRow}

\* by is the group id (transaction_id) of the entries, writer tells apart two
\* pairs of one group.
Pair == [row : Tx, by : Group, writer : {"old"} \cup Request, content : Content]

\* A request: what it does next, its transaction and the ledger id it has
\* read, the account resolved, the snapshot of the DELETE that waits, the
\* pairs deleted by its open database transaction, the rows still to migrate.
Steps == {"new", "lookup", "make", "link", "ready", "write", "unpost", "wait",
          "post", "erase", "load", "migrate", "done"}
Todo  == [row : Tx, content : Content]
Req   == [pc : Steps, row : Tx \cup {None}, old : Group,
          acct : {None, "old"} \cup Request, seen : SUBSET Pair,
          held : SUBSET Pair, todo : SUBSET Todo]

NewReq == [pc |-> "new", row |-> None, old |-> None, acct |-> None,
           seen |-> {}, held |-> {}, todo |-> {}]
Over   == [NewReq EXCEPT !.pc = "done"]

Alive(r) == tx[r] # NoRow

\* The pairs that delete_entries looks for.
EntriesOf(r, old) == {x \in pairs : x.row = r /\ x.by \in {"self", old}}

\* An UPDATE locks its row until the commit.
RowLocked(r) ==
  \E q \in Request : OpOf[q] = "update" /\ req[q].row = r
                     /\ req[q].pc \in {"unpost", "wait", "post"}

\* A pair of xs deleted by another open transaction.
Blocked(p, xs) == \E q \in Request \ {p} : req[q].held \cap xs # {}

Goto(p, step) == req' = [req EXCEPT ![p].pc = step]
Finish(p)     == req' = [req EXCEPT ![p] = Over]

\* The transactions a request works on, between its first read of them and
\* its end.
Busy(q) == IF OpOf[q] = "migrate" THEN {t.row : t \in req[q].todo}
           ELSE {req[q].row} \cap Tx

\* The requests whose overlap is not harmless: a migration with anything, a
\* delete with anything but a delete.
Clash(a, b) == "migrate" \in {a, b} \/ (a \in Deletes) # (b \in Deletes)

Overlap(p, rows) ==
  raced' = raced \cup {r \in rows : \E q \in Request \ {p} :
                                      r \in Busy(q) /\ Clash(OpOf[p], OpOf[q])}

------------------------------------------------------------------------------
(* resolve_posting_account: statements of their own, in no transaction. *)

\* Mutant: the link is not looked at.
FindNoLink(p) ==
  /\ req[p].pc = "new"
  /\ OpOf[p] \in Creates \cup {"update"}
  /\ OpOf[p] = "push_create" => ~Alive(Pushed)
  /\ Goto(p, "lookup")
  /\ UNCHANGED <<tables, accounts, link, faults, raced>>

FindLink(p) ==
  /\ req[p].pc = "new"
  /\ OpOf[p] \in Creates \cup {"update"}
  /\ OpOf[p] = "push_create" => ~Alive(Pushed)
  /\ Goto(p, IF link = None THEN "lookup" ELSE "ready")
  /\ UNCHANGED <<tables, accounts, link, faults, raced>>

LookupAccount(p) ==
  /\ req[p].pc = "lookup"
  /\ IF accounts = {} THEN Goto(p, "make")
     ELSE \E a \in accounts :
            req' = [req EXCEPT ![p].pc = "link", ![p].acct = a]
  /\ UNCHANGED <<tables, accounts, link, faults, raced>>

MakeAccount(p) ==
  /\ req[p].pc = "make"
  /\ accounts' = accounts \cup {p}
  /\ req' = [req EXCEPT ![p].pc = "link", ![p].acct = p]
  /\ UNCHANGED <<tables, link, faults, raced>>

LinkAccount(p) ==
  /\ req[p].pc = "link"
  /\ link' = req[p].acct
  /\ req' = [req EXCEPT ![p].pc = "ready", ![p].acct = None]
  /\ UNCHANGED <<tables, accounts, faults, raced>>

Resolve(p) ==
  FindLink(p) \/ LookupAccount(p) \/ MakeAccount(p) \/ LinkAccount(p)

------------------------------------------------------------------------------
(* Create: the rows, their pairs and their links in one transaction, which *)
(* nobody sees before its commit.                                          *)

NewPair(p, r, c) == [row |-> r, by |-> "self", writer |-> p, content |-> c]

\* The rows are posted under their own ids.
PostRows(p, rows, c) ==
  /\ tx' = [r \in Tx |-> IF r \in rows THEN [content |-> c, ledger |-> "self"]
                         ELSE tx[r]]
  /\ pairs' = pairs \cup {NewPair(p, r, c) : r \in rows}
  /\ used' = used \cup rows

\* POST /api/transactions; an amount split into installments makes a row for
\* each of them.
Create(p) ==
  /\ OpOf[p] = "create"
  /\ req[p].pc = "ready"
  /\ \E rows \in SUBSET (Tx \ (used \cup {Pushed})) \ {{}}, c \in Content :
       PostRows(p, rows, c)
  /\ Finish(p)
  /\ UNCHANGED <<accounts, link, faults, raced>>

\* A pushed create that the server knows already: by the idempotency key, or,
\* when another push got in between, by the unique keys of the table.
PushRepeated(p) ==
  /\ OpOf[p] = "push_create"
  /\ req[p].pc \in {"new", "ready"}
  /\ Alive(Pushed)
  /\ Finish(p)
  /\ UNCHANGED <<tables, accounts, link, faults, raced>>

PushCreate(p) ==
  /\ OpOf[p] = "push_create"
  /\ req[p].pc = "ready"
  /\ ~Alive(Pushed)
  /\ \E c \in Content : PostRows(p, {Pushed}, c)
  /\ Overlap(p, {Pushed})
  /\ Finish(p)
  /\ UNCHANGED <<accounts, link, faults>>

------------------------------------------------------------------------------
(* Update and delete. *)

\* The ledger id is read before the transaction begins.
ReadLedgerId(p) ==
  /\ \/ OpOf[p] = "update" /\ req[p].pc = "ready"
     \/ OpOf[p] \in Deletes /\ req[p].pc = "new"
  /\ \E r \in used :
       IF Alive(r)
       THEN /\ req' = [req EXCEPT ![p].pc = IF OpOf[p] = "update" THEN "write"
                                            ELSE "unpost",
                                  ![p].row = r, ![p].old = tx[r].ledger]
            /\ Overlap(p, {r})
       ELSE Finish(p) /\ UNCHANGED raced
  /\ UNCHANGED <<tables, accounts, link, faults>>

\* UPDATE transactions: waits for the row's lock and takes it.
LockRow(p) ==
  /\ req[p].pc = "write"
  /\ ~RowLocked(req[p].row)
  /\ IF Alive(req[p].row) THEN Goto(p, "unpost") ELSE Finish(p)
  /\ UNCHANGED <<tables, accounts, link, faults, raced>>

AfterUnpost(p) == IF OpOf[p] = "update" THEN "post" ELSE "erase"

\* delete_entries: takes its snapshot, and deletes unless it has to wait.
Unpost(p) ==
  LET xs == EntriesOf(req[p].row, req[p].old)
  IN /\ req[p].pc = "unpost"
     /\ req' = IF Blocked(p, xs)
               THEN [req EXCEPT ![p].pc = "wait", ![p].seen = xs]
               ELSE [req EXCEPT ![p].pc = AfterUnpost(p), ![p].held = xs]
     /\ UNCHANGED <<tables, accounts, link, faults, raced>>

\* The lock is free: of the snapshot, what is still there is deleted.
UnpostWaited(p) ==
  /\ req[p].pc = "wait"
  /\ ~Blocked(p, req[p].seen)
  /\ req' = [req EXCEPT ![p].pc = AfterUnpost(p),
                        ![p].held = req[p].seen \cap pairs, ![p].seen = {}]
  /\ UNCHANGED <<tables, accounts, link, faults, raced>>

\* Mutant: the old entries stay.
RepostTwice(p) ==
  LET r == req[p].row
  IN /\ req[p].pc = "post"
     /\ \E c \in Content :
          /\ tx' = [tx EXCEPT ![r] = [content |-> c, ledger |-> "self"]]
          /\ pairs' = pairs \cup {NewPair(p, r, c)}
     /\ Finish(p)
     /\ UNCHANGED <<used, accounts, link, faults, raced>>

\* Mutant: the link is left as it was.
RepostUnlinked(p) ==
  LET r == req[p].row
  IN /\ req[p].pc = "post"
     /\ \E c \in Content :
          /\ tx' = [tx EXCEPT ![r].content = c]
          /\ pairs' = (pairs \ req[p].held) \cup {NewPair(p, r, c)}
     /\ Finish(p)
     /\ UNCHANGED <<used, accounts, link, faults, raced>>

\* post_entries, the link, COMMIT.
Repost(p) ==
  LET r == req[p].row
  IN /\ req[p].pc = "post"
     /\ \E c \in Content :
          /\ tx' = [tx EXCEPT ![r] = [content |-> c, ledger |-> "self"]]
          /\ pairs' = (pairs \ req[p].held) \cup {NewPair(p, r, c)}
     /\ Finish(p)
     /\ UNCHANGED <<used, accounts, link, faults, raced>>

\* Mutant: the deleted transaction keeps its link.
EraseContent(p) ==
  LET r == req[p].row
  IN /\ req[p].pc = "erase"
     /\ ~RowLocked(r)
     /\ tx' = [tx EXCEPT ![r].content = None]
     /\ pairs' = pairs \ req[p].held
     /\ Finish(p)
     /\ UNCHANGED <<used, accounts, link, faults, raced>>

\* DELETE transactions, after the row's lock, and COMMIT.  If the row is gone
\* the REST handler rolls back and the push commits.
Erase(p) ==
  LET r == req[p].row
  IN /\ req[p].pc = "erase"
     /\ ~RowLocked(r)
     /\ tx' = [tx EXCEPT ![r] = NoRow]
     /\ pairs' = IF Alive(r) \/ OpOf[p] = "push_delete" THEN pairs \ req[p].held
                 ELSE pairs
     /\ Finish(p)
     /\ UNCHANGED <<used, accounts, link, faults, raced>>

------------------------------------------------------------------------------
(* migrate_single_to_double *)

Scan(p) ==
  LET rows == {r \in Tx : Alive(r) /\ tx[r].ledger = None}
  IN /\ OpOf[p] = "migrate"
     /\ req[p].pc = "new"
     /\ req' = [req EXCEPT ![p].pc = "load",
                           ![p].todo = {[row |-> r, content |-> tx[r].content] :
                                          r \in rows}]
     /\ Overlap(p, rows)
     /\ UNCHANGED <<tables, accounts, link, faults>>

\* AccountMap::load; later accounts are not known to this run.
LoadAccounts(p) ==
  /\ req[p].pc = "load"
  /\ \E a \in accounts \cup {None} :
       /\ accounts # {} => a # None
       /\ req' = [req EXCEPT ![p].pc = "migrate", ![p].acct = a]
  /\ UNCHANGED <<tables, accounts, link, faults, raced>>

\* Mutant: the run does not move on to the next row.
MigrateSame(p) ==
  /\ req[p].pc = "migrate"
  /\ req[p].acct # None
  /\ \E t \in req[p].todo :
       /\ ~RowLocked(t.row)
       /\ tx' = IF Alive(t.row) THEN [tx EXCEPT ![t.row].ledger = p] ELSE tx
       /\ pairs' = pairs \cup {[row |-> t.row, by |-> p, writer |-> p,
                                content |-> t.content]}
  /\ UNCHANGED <<used, accounts, link, req, faults, raced>>

\* One row, one transaction: the pair under a fresh id, the UPDATE, which
\* waits for the row's lock and may find no row, and COMMIT.
MigrateRow(p) ==
  /\ req[p].pc = "migrate"
  /\ req[p].acct # None
  /\ \E t \in req[p].todo :
       /\ ~RowLocked(t.row)
       /\ tx' = IF Alive(t.row) THEN [tx EXCEPT ![t.row].ledger = p] ELSE tx
       /\ pairs' = pairs \cup {[row |-> t.row, by |-> p, writer |-> p,
                                content |-> t.content]}
       /\ req' = [req EXCEPT ![p].todo = @ \ {t}]
  /\ UNCHANGED <<used, accounts, link, faults, raced>>

\* No account, or the row's transaction fails: the row is skipped.
SkipRow(p) ==
  /\ req[p].pc = "migrate"
  /\ \E t \in req[p].todo : req' = [req EXCEPT ![p].todo = @ \ {t}]
  /\ \/ req[p].acct = None /\ UNCHANGED faults
     \/ req[p].acct # None /\ faults < MaxFaults /\ faults' = faults + 1
  /\ UNCHANGED <<tables, accounts, link, raced>>

MigrateDone(p) ==
  /\ req[p].pc = "migrate"
  /\ req[p].todo = {}
  /\ Finish(p)
  /\ UNCHANGED <<tables, accounts, link, faults, raced>>

Migrate(p) ==
  Scan(p) \/ LoadAccounts(p) \/ MigrateRow(p) \/ SkipRow(p) \/ MigrateDone(p)

------------------------------------------------------------------------------
(* Failures *)

\* p waits for entries that q has deleted, and q for p's row.
Stuck(p, q) ==
  /\ req[p].pc = "wait"
  /\ req[q].held \cap req[p].seen # {}
  /\ req[q].pc = "erase"
  /\ OpOf[p] = "update"
  /\ req[q].row = req[p].row

\* PostgreSQL ends a deadlock by failing one statement; delete_entries does
\* not look at it, the next statement fails, the transaction rolls back.
DeadlockVictim(p) ==
  /\ \E q \in Request \ {p} : Stuck(p, q) \/ Stuck(q, p)
  /\ Finish(p)
  /\ UNCHANGED <<tables, accounts, link, faults, raced>>

\* A statement fails, or the client goes and the handler is dropped.
Fail(p) ==
  /\ req[p].pc \notin {"new", "done"}
  /\ faults < MaxFaults
  /\ faults' = faults + 1
  /\ Finish(p)
  /\ UNCHANGED <<tables, accounts, link, raced>>

------------------------------------------------------------------------------
(* The specification. *)

\* Unposted transactions are those for which the backfill (migration 010) found
\* no account, or restored from a dump without entries (db-recovery.md).
Init ==
  /\ \E c \in Content :
       /\ tx = [r \in Tx |-> IF r \in Posted THEN [content |-> c, ledger |-> "self"]
                             ELSE IF r \in Legacy THEN [content |-> c, ledger |-> None]
                             ELSE NoRow]
       /\ pairs = {[row |-> r, by |-> "self", writer |-> "old", content |-> c] :
                     r \in Posted}
  /\ used = Posted \cup Legacy
  /\ accounts \in {{}, {"old"}}
  /\ link = None
  /\ req = [p \in Request |-> NewReq]
  /\ faults = 0
  /\ raced = {}

Step(p) ==
  \/ Resolve(p)
  \/ Create(p) \/ PushRepeated(p) \/ PushCreate(p)
  \/ ReadLedgerId(p) \/ LockRow(p) \/ Unpost(p) \/ UnpostWaited(p)
  \/ Repost(p) \/ Erase(p)
  \/ Migrate(p)
  \/ DeadlockVictim(p)

Next == \E p \in Request : Step(p) \/ Fail(p)

Spec == Init /\ [][Next]_vars

\* The server runs its handlers and the database ends every wait.
FairSpec == Spec /\ \A p \in Request : WF_vars(Step(p))

------------------------------------------------------------------------------
(* Properties. *)

\* The variables hold what they are described to hold.
TypeOK ==
  /\ tx \in [Tx -> Row]
  /\ pairs \subseteq Pair
  /\ used \subseteq Tx
  /\ accounts \subseteq Request \cup {"old"}
  /\ link \in {None, "old"} \cup Request
  /\ req \in [Request -> Req]
  /\ faults \in Nat
  /\ raced \subseteq Tx

\* A transaction's books: one pair, of its group and its content, if it is
\* posted, and none otherwise.
Agrees(r) ==
  LET own == {x \in pairs : x.row = r}
  IN IF tx[r].ledger = None THEN own = {}
     ELSE /\ Cardinality(own) = 1
          /\ \A x \in own : x.by = tx[r].ledger /\ x.content = tx[r].content

\* "Account balances, the double-entry ledger, reconciliation, and the
\* single-entry reporting views all agree" (transaction_ledger.rs).
BooksAgree == \A r \in Tx : Agrees(r)

\* The books of a transaction agree unless a migration overlapped another
\* request on it, or a delete overlapped an update or a create; in particular
\* any number of concurrent updates keep them.
AgreeUnlessRaced == \A r \in Tx \ raced : Agrees(r)

\* Whatever overlaps, a posted transaction is never without entries of its
\* group, and under its own id they have its content.
PostedHasEntries ==
  \A r \in Tx : tx[r].ledger # None =>
    \E x \in pairs :
      /\ x.row = r
      /\ x.by = tx[r].ledger
      /\ x.by = "self" => x.content = tx[r].content

\* Once the category is linked and no request is about to link it, it keeps
\* its account for good, and no further account is made for it.
Settled == link # None /\ \A p \in Request : req[p].pc \notin {"lookup", "make", "link"}

LinkSettles == [][Settled => Settled' /\ UNCHANGED <<link, accounts>>]_vars

\* No request waits for ever: locks are released, deadlocks broken.
RequestsFinish ==
  \A p \in Request : req[p].pc # "new" ~> req[p].pc = "done"
=============================================================================
