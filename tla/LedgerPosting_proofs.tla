------------------------- MODULE LedgerPosting_proofs -------------------------
(***************************************************************************)
(* Proofs about LedgerPosting, for every set of transactions and of        *)
(* requests and every bound on faults.                                     *)
(***************************************************************************)
EXTENDS LedgerPosting, FiniteSetTheorems, TLAPS

------------------------------------------------------------------------------
(* Type correctness. *)

\* An update or delete knows its transaction from its first read on, and the
\* entries that it has deleted or waits to delete are that transaction's; a
\* request that is elsewhere has none.
\* Type correctness rests on it: an update without a transaction would post
\* entries for none.
OwnWork(q) ==
  /\ q.pc \in {"write", "unpost", "wait", "post", "erase"} => q.row \in Tx
  /\ \A x \in q.held \cup q.seen : x.row = q.row
  /\ q.held \cup q.seen # {} => q.pc \in {"wait", "post", "erase"}

OwnRows == \A p \in Request : OwnWork(req[p])

\* A request that goes on or ends is still a request.
LEMMA GotoType ==
  ASSUME TypeOK, NEW p \in Request, NEW step \in Steps, Goto(p, step)
  PROVE  req' \in [Request -> Req]
  BY DEF TypeOK, Goto, Req

LEMMA OverType == NewReq \in Req /\ Over \in Req
<1>1. NewReq \in Req
  BY DEF NewReq, Req, Steps, Group
<1> QED BY <1>1 DEF Over, Req, Steps

LEMMA FinishType ==
  ASSUME TypeOK, NEW p \in Request, Finish(p)
  PROVE  req' \in [Request -> Req]
  BY OverType DEF TypeOK, Finish

\* The fields of a request.
LEMMA ReqFields ==
  ASSUME TypeOK, NEW p \in Request
  PROVE  /\ req[p] \in Req
         /\ req[p].row \in Tx \cup {None}
         /\ req[p].acct \in {None, "old"} \cup Request
         /\ req[p].seen \subseteq Pair
         /\ req[p].held \subseteq Pair
         /\ req[p].todo \subseteq Todo
  BY DEF TypeOK, Req

\* A request with one field changed.
LEMMA ReqField ==
  ASSUME NEW q \in Req
  PROVE  /\ \A x \in Steps : [q EXCEPT !.pc = x] \in Req
         /\ \A x \in Tx : [q EXCEPT !.row = x] \in Req
         /\ \A x \in Group : [q EXCEPT !.old = x] \in Req
         /\ \A x \in {None, "old"} \cup Request : [q EXCEPT !.acct = x] \in Req
         /\ \A x \in SUBSET Pair : [q EXCEPT !.seen = x] \in Req
         /\ \A x \in SUBSET Pair : [q EXCEPT !.held = x] \in Req
         /\ \A x \in SUBSET Todo : [q EXCEPT !.todo = x] \in Req
  BY DEF Req

\* A request with two fields changed, the first of them its next step.
LEMMA ReqTwo ==
  ASSUME NEW q \in Req, NEW step \in Steps
  PROVE  /\ \A x \in {None, "old"} \cup Request :
              [q EXCEPT !.pc = step, !.acct = x] \in Req
         /\ \A x \in SUBSET Pair : [q EXCEPT !.pc = step, !.seen = x] \in Req
         /\ \A x \in SUBSET Pair : [q EXCEPT !.pc = step, !.held = x] \in Req
         /\ \A x \in SUBSET Todo : [q EXCEPT !.pc = step, !.todo = x] \in Req
<1>1. [q EXCEPT !.pc = step] \in Req
  BY ReqField
<1>2. \A x : /\ [q EXCEPT !.pc = step, !.acct = x] = [[q EXCEPT !.pc = step] EXCEPT !.acct = x]
             /\ [q EXCEPT !.pc = step, !.seen = x] = [[q EXCEPT !.pc = step] EXCEPT !.seen = x]
             /\ [q EXCEPT !.pc = step, !.held = x] = [[q EXCEPT !.pc = step] EXCEPT !.held = x]
             /\ [q EXCEPT !.pc = step, !.todo = x] = [[q EXCEPT !.pc = step] EXCEPT !.todo = x]
  OBVIOUS
<1> QED BY <1>1, <1>2, ReqField

\* A row of the table.
LEMMA RowFields ==
  ASSUME TypeOK, NEW r \in Tx
  PROVE  /\ tx[r].ledger \in Group
         /\ Alive(r) => tx[r] \in [content : Content, ledger : Group]
  BY DEF TypeOK, Row, NoRow, Alive, Group

\* Transactions that are posted keep the tables well typed.
LEMMA PostRowsType ==
  ASSUME TypeOK, NEW p \in Request, NEW rows \in SUBSET Tx, NEW c \in Content,
         PostRows(p, rows, c)
  PROVE  /\ tx' \in [Tx -> Row]
         /\ pairs' \subseteq Pair
         /\ used' \subseteq Tx
<1>1. [content |-> c, ledger |-> "self"] \in Row
  BY DEF Row, Group
<1>2. tx' \in [Tx -> Row]
  BY <1>1 DEF TypeOK, PostRows
<1>3. \A r \in rows : NewPair(p, r, c) \in Pair
  BY DEF NewPair, Pair, Group
<1>4. pairs' \subseteq Pair
  BY <1>3 DEF TypeOK, PostRows
<1> QED BY <1>2, <1>4 DEF TypeOK, PostRows

\* Overlaps are recorded for transactions.
LEMMA OverlapType ==
  ASSUME TypeOK, NEW p \in Request, NEW rows \in SUBSET Tx, Overlap(p, rows)
  PROVE  raced' \subseteq Tx
  BY DEF TypeOK, Overlap

\* Every step of a request keeps the types.
LEMMA StepType ==
  ASSUME TypeOK, OwnRows, NEW p \in Request, Step(p) \/ Fail(p)
  PROVE  TypeOK'
<1> USE LedgerConstants
<1>1. CASE FindLink(p)
  BY <1>1, GotoType DEF FindLink, TypeOK, tables, Steps
<1>2. CASE LookupAccount(p)
  <2>1. req' \in [Request -> Req]
    <3>1. CASE accounts = {}
      BY <1>2, <3>1, GotoType DEF LookupAccount, Steps
    <3>2. CASE accounts # {}
      BY <1>2, <3>2 DEF LookupAccount, TypeOK, Req, Steps
    <3> QED BY <3>1, <3>2
  <2> QED BY <1>2, <2>1 DEF LookupAccount, TypeOK, tables
<1>3. CASE MakeAccount(p)
  <2>1. [req[p] EXCEPT !.pc = "link", !.acct = p] \in Req
    BY ReqFields, ReqTwo DEF Steps
  <2>2. req' = [req EXCEPT ![p] = [req[p] EXCEPT !.pc = "link", !.acct = p]]
    BY <1>3 DEF MakeAccount
  <2> QED BY <1>3, <2>1, <2>2 DEF MakeAccount, TypeOK, tables
<1>4. CASE LinkAccount(p)
  <2>1. [req[p] EXCEPT !.pc = "ready", !.acct = None] \in Req
    BY ReqFields, ReqTwo DEF Steps
  <2>2. req' = [req EXCEPT ![p] = [req[p] EXCEPT !.pc = "ready", !.acct = None]]
    BY <1>4 DEF LinkAccount
  <2>3. link' \in {None, "old"} \cup Request
    BY <1>4, ReqFields DEF LinkAccount
  <2> QED BY <1>4, <2>1, <2>2, <2>3 DEF LinkAccount, TypeOK, tables
<1>5. CASE Create(p)
  <2>1. req' \in [Request -> Req]
    BY <1>5, FinishType DEF Create
  <2>2. PICK rows \in SUBSET Tx, c \in Content : PostRows(p, rows, c)
    BY <1>5 DEF Create
  <2> QED BY <1>5, <2>1, <2>2, PostRowsType DEF Create, TypeOK
<1>6. CASE PushRepeated(p)
  BY <1>6, FinishType DEF PushRepeated, TypeOK, tables
<1>7. CASE PushCreate(p)
  <2>1. req' \in [Request -> Req]
    BY <1>7, FinishType DEF PushCreate
  <2>2. PICK c \in Content : PostRows(p, {Pushed}, c)
    BY <1>7 DEF PushCreate
  <2>3. raced' \subseteq Tx
    BY <1>7, OverlapType DEF PushCreate
  <2> QED BY <1>7, <2>1, <2>2, <2>3, PostRowsType DEF PushCreate, TypeOK
<1>8. CASE ReadLedgerId(p)
  <2>1. PICK r \in used :
          IF Alive(r)
          THEN /\ req' = [req EXCEPT ![p].pc = IF OpOf[p] = "update" THEN "write"
                                               ELSE "unpost",
                                     ![p].row = r, ![p].old = tx[r].ledger]
               /\ Overlap(p, {r})
          ELSE Finish(p) /\ UNCHANGED raced
    BY <1>8 DEF ReadLedgerId
  <2>2. r \in Tx
    BY DEF TypeOK
  <2>3. req' \in [Request -> Req] /\ raced' \subseteq Tx
    <3>1. CASE Alive(r)
      <4>1. tx[r].ledger \in Group
        BY <2>2, RowFields
      <4>2. req' \in [Request -> Req]
        BY <2>1, <2>2, <3>1, <4>1 DEF TypeOK, Req, Steps
      <4> QED BY <2>1, <2>2, <3>1, <4>2, OverlapType
    <3>2. CASE ~Alive(r)
      BY <2>1, <3>2, FinishType DEF TypeOK
    <3> QED BY <3>1, <3>2
  <2> QED BY <1>8, <2>3 DEF ReadLedgerId, TypeOK, tables
<1>9. CASE LockRow(p)
  <2>1. req' \in [Request -> Req]
    BY <1>9, GotoType, FinishType DEF LockRow, Steps
  <2> QED BY <1>9, <2>1 DEF LockRow, TypeOK, tables
<1>10. CASE Unpost(p)
  <2>1. EntriesOf(req[p].row, req[p].old) \subseteq Pair
    BY DEF EntriesOf, TypeOK
  <2>2. AfterUnpost(p) \in Steps
    BY DEF AfterUnpost, Steps
  <2> DEFINE xs == EntriesOf(req[p].row, req[p].old)
             waits == [req[p] EXCEPT !.pc = "wait", !.seen = xs]
             goes == [req[p] EXCEPT !.pc = AfterUnpost(p), !.held = xs]
  <2>3. waits \in Req /\ goes \in Req
    BY <2>1, <2>2, ReqFields, ReqTwo DEF Steps
  <2>4. \/ req' = [req EXCEPT ![p] = waits]
        \/ req' = [req EXCEPT ![p] = goes]
    BY <1>10 DEF Unpost
  <2>5. req' \in [Request -> Req]
    BY <2>3, <2>4 DEF TypeOK
  <2> QED BY <1>10, <2>5 DEF Unpost, TypeOK, tables
<1>11. CASE UnpostWaited(p)
  <2>1. AfterUnpost(p) \in Steps
    BY DEF AfterUnpost, Steps
  <2> DEFINE gone == req[p].seen \cap pairs
             q == [req[p] EXCEPT !.pc = AfterUnpost(p), !.held = gone]
  <2>2. q \in Req
    BY <2>1, ReqFields, ReqTwo
  <2>3. [q EXCEPT !.seen = {}] \in Req
    BY <2>2, ReqField
  <2>4. req' = [req EXCEPT ![p] = [q EXCEPT !.seen = {}]]
    BY <1>11 DEF UnpostWaited
  <2>5. req' \in [Request -> Req]
    BY <2>3, <2>4 DEF TypeOK
  <2> QED BY <1>11, <2>5 DEF UnpostWaited, TypeOK, tables
<1>12. CASE Repost(p)
  <2>1. req' \in [Request -> Req]
    BY <1>12, FinishType DEF Repost
  <2>2. PICK c \in Content :
          /\ tx' = [tx EXCEPT ![req[p].row] = [content |-> c, ledger |-> "self"]]
          /\ pairs' = (pairs \ req[p].held) \cup {NewPair(p, req[p].row, c)}
    BY <1>12 DEF Repost
  <2>3. req[p].row \in Tx
    BY <1>12 DEF Repost, OwnRows, OwnWork
  <2>4. tx' \in [Tx -> Row]
    BY <2>2 DEF TypeOK, Row, Group
  <2>5. pairs' \subseteq Pair
    BY <2>2, <2>3 DEF TypeOK, NewPair, Pair, Group
  <2> QED BY <1>12, <2>1, <2>4, <2>5 DEF Repost, TypeOK
<1>13. CASE Erase(p)
  <2>1. req' \in [Request -> Req]
    BY <1>13, FinishType DEF Erase
  <2>2. tx' \in [Tx -> Row]
    BY <1>13 DEF Erase, TypeOK, Row
  <2>3. pairs' \subseteq Pair
    BY <1>13 DEF Erase, TypeOK
  <2> QED BY <1>13, <2>1, <2>2, <2>3 DEF Erase, TypeOK
<1>14. CASE Scan(p)
  <2>1. PICK rows \in SUBSET Tx :
          /\ \A r \in rows : Alive(r)
          /\ req' = [req EXCEPT ![p].pc = "load",
                                ![p].todo = {[row |-> r, content |-> tx[r].content] :
                                               r \in rows}]
          /\ Overlap(p, rows)
    BY <1>14 DEF Scan
  <2>2. {[row |-> r, content |-> tx[r].content] : r \in rows} \subseteq Todo
    BY <2>1, RowFields DEF Todo
  <2> DEFINE old == {[row |-> r, content |-> tx[r].content] : r \in rows}
  <2>3. [req[p] EXCEPT !.pc = "load", !.todo = old] \in Req
    BY <2>2, ReqFields, ReqTwo DEF Steps
  <2>4. req' = [req EXCEPT ![p] = [req[p] EXCEPT !.pc = "load", !.todo = old]]
    BY <2>1
  <2>5. req' \in [Request -> Req]
    BY <2>3, <2>4 DEF TypeOK
  <2> QED BY <1>14, <2>1, <2>5, OverlapType DEF Scan, TypeOK, tables
<1>15. CASE LoadAccounts(p)
  <2>1. PICK a \in accounts \cup {None} :
          req' = [req EXCEPT ![p] = [req[p] EXCEPT !.pc = "migrate", !.acct = a]]
    BY <1>15 DEF LoadAccounts
  <2>2. [req[p] EXCEPT !.pc = "migrate", !.acct = a] \in Req
    BY ReqFields, ReqTwo DEF Steps, TypeOK
  <2>3. req' \in [Request -> Req]
    BY <2>1, <2>2 DEF TypeOK
  <2> QED BY <1>15, <2>3 DEF LoadAccounts, TypeOK, tables
<1>16. CASE MigrateRow(p)
  <2>1. PICK t \in req[p].todo :
          /\ tx' = IF Alive(t.row) THEN [tx EXCEPT ![t.row].ledger = p] ELSE tx
          /\ pairs' = pairs \cup {[row |-> t.row, by |-> p, writer |-> p,
                                   content |-> t.content]}
          /\ req' = [req EXCEPT ![p].todo = @ \ {t}]
    BY <1>16 DEF MigrateRow
  <2>2. t \in Todo
    BY <2>1, ReqFields
  <2>3. t.row \in Tx /\ t.content \in Content
    BY <2>2 DEF Todo
  <2>4. tx' \in [Tx -> Row]
    <3>1. CASE Alive(t.row)
      <4>1. [tx[t.row] EXCEPT !.ledger = p] \in Row
        BY <2>3, <3>1, RowFields DEF Row, Group
      <4> QED BY <2>1, <2>3, <3>1, <4>1 DEF TypeOK
    <3>2. CASE ~Alive(t.row)
      BY <2>1, <3>2 DEF TypeOK
    <3> QED BY <3>1, <3>2
  <2>5. pairs' \subseteq Pair
    BY <2>1, <2>3 DEF TypeOK, Pair, Group
  <2>6. req' \in [Request -> Req]
    BY <2>1, ReqFields DEF TypeOK, Req
  <2> QED BY <1>16, <2>4, <2>5, <2>6 DEF MigrateRow, TypeOK
<1>17. CASE SkipRow(p)
  <2>1. req' \in [Request -> Req]
    BY <1>17, ReqFields DEF SkipRow, TypeOK, Req
  <2> QED BY <1>17, <2>1 DEF SkipRow, TypeOK, tables
<1>18. CASE MigrateDone(p)
  BY <1>18, FinishType DEF MigrateDone, TypeOK, tables
<1>19. CASE DeadlockVictim(p)
  BY <1>19, FinishType DEF DeadlockVictim, TypeOK, tables
<1>20. CASE Fail(p)
  <2>1. req' \in [Request -> Req]
    BY <1>20, FinishType DEF Fail
  <2> QED BY <1>20, <2>1 DEF Fail, TypeOK, tables
<1> QED
  BY <1>1, <1>2, <1>3, <1>4, <1>5, <1>6, <1>7, <1>8, <1>9, <1>10, <1>11, <1>12,
     <1>13, <1>14, <1>15, <1>16, <1>17, <1>18, <1>19, <1>20
     DEF Step, Resolve, Migrate

LEMMA TypeInit == Init => TypeOK
<1> SUFFICES ASSUME Init PROVE TypeOK
  OBVIOUS
<1> USE LedgerConstants
<1>1. PICK c \in Content :
        /\ tx = [r \in Tx |-> IF r \in Posted THEN [content |-> c, ledger |-> "self"]
                              ELSE IF r \in Legacy THEN [content |-> c, ledger |-> None]
                              ELSE NoRow]
        /\ pairs = {[row |-> r, by |-> "self", writer |-> "old", content |-> c] :
                      r \in Posted}
  BY DEF Init
<1>2. tx \in [Tx -> Row]
  BY <1>1 DEF Row, Group
<1>3. pairs \subseteq Pair
  BY <1>1 DEF Pair, Group
<1>4. req \in [Request -> Req]
  BY OverType DEF Init
<1> QED BY <1>2, <1>3, <1>4 DEF Init, TypeOK

------------------------------------------------------------------------------
(* Requests work on a transaction of their own choice. *)

\* A step of p leaves the other requests alone.
LEMMA OthersStay ==
  ASSUME TypeOK, NEW p \in Request, Step(p) \/ Fail(p),
         NEW q \in Request, q # p
  PROVE  req'[q] = req[q]
<1>1. CASE Resolve(p)
  BY <1>1 DEF Resolve, FindLink, LookupAccount, MakeAccount, LinkAccount, Goto, TypeOK
<1>2. CASE Create(p) \/ PushRepeated(p) \/ PushCreate(p)
  BY <1>2 DEF Create, PushRepeated, PushCreate, Finish, TypeOK
<1>3. CASE ReadLedgerId(p) \/ LockRow(p)
  BY <1>3 DEF ReadLedgerId, LockRow, Goto, Finish, TypeOK
<1>4. CASE Unpost(p) \/ UnpostWaited(p)
  BY <1>4 DEF Unpost, UnpostWaited, TypeOK
<1>5. CASE Repost(p) \/ Erase(p) \/ DeadlockVictim(p) \/ Fail(p)
  BY <1>5 DEF Repost, Erase, DeadlockVictim, Fail, Finish, TypeOK
<1>6. CASE Migrate(p)
  BY <1>6 DEF Migrate, Scan, LoadAccounts, MigrateRow, SkipRow, MigrateDone, Finish, TypeOK
<1> QED BY <1>1, <1>2, <1>3, <1>4, <1>5, <1>6 DEF Step

\* A step of p keeps p to its transaction.
LEMMA OwnStep ==
  ASSUME TypeOK, OwnRows, NEW p \in Request, Step(p) \/ Fail(p)
  PROVE  OwnRows'
<1>1. req \in [Request -> Req] /\ OwnWork(req[p]) /\ req[p] \in Req
  BY DEF TypeOK, OwnRows
<1>2. OwnWork(Over)
  BY DEF OwnWork, Over, NewReq
<1> SUFFICES OwnWork(req'[p])
  BY OthersStay DEF OwnRows
<1>3. Finish(p) => OwnWork(req'[p])
  BY <1>1, <1>2 DEF Finish
<1>4. CASE Resolve(p)
  BY <1>1, <1>4
     DEF Resolve, FindLink, LookupAccount, MakeAccount, LinkAccount, Goto, OwnWork, Req
<1>5. CASE Create(p) \/ PushRepeated(p) \/ PushCreate(p)
  BY <1>3, <1>5 DEF Create, PushRepeated, PushCreate
<1>6. CASE ReadLedgerId(p)
  <2>1. req[p].held \cup req[p].seen = {}
    BY <1>1, <1>6 DEF ReadLedgerId, OwnWork
  <2>2. PICK r \in Tx :
          \/ req' = [req EXCEPT ![p].pc = IF OpOf[p] = "update" THEN "write"
                                          ELSE "unpost",
                                ![p].row = r, ![p].old = tx[r].ledger]
          \/ Finish(p)
    BY <1>6 DEF ReadLedgerId, TypeOK
  <2> QED BY <1>1, <1>3, <2>1, <2>2 DEF OwnWork, Req
<1>7. CASE LockRow(p)
  BY <1>1, <1>3, <1>7 DEF LockRow, Goto, OwnWork, Req
<1>8. CASE Unpost(p)
  BY <1>1, <1>8 DEF Unpost, EntriesOf, OwnWork, Req
<1>9. CASE UnpostWaited(p)
  BY <1>1, <1>9 DEF UnpostWaited, OwnWork, Req
<1>10. CASE Repost(p) \/ Erase(p) \/ DeadlockVictim(p) \/ Fail(p)
  BY <1>3, <1>10 DEF Repost, Erase, DeadlockVictim, Fail
<1>11. CASE Migrate(p)
  <2>1. req[p].pc \in {"new", "load", "migrate"}
    BY <1>11 DEF Migrate, Scan, LoadAccounts, MigrateRow, SkipRow, MigrateDone
  <2>2. req[p].held \cup req[p].seen = {}
    BY <1>1, <2>1 DEF OwnWork
  <2>3. CASE Scan(p) \/ LoadAccounts(p)
    BY <1>1, <2>2, <2>3 DEF Scan, LoadAccounts, OwnWork, Req
  <2>4. CASE MigrateRow(p) \/ SkipRow(p)
    <3>1. PICK t \in req[p].todo : req' = [req EXCEPT ![p].todo = @ \ {t}]
      BY <2>4 DEF MigrateRow, SkipRow
    <3>2. /\ req'[p].pc = req[p].pc /\ req'[p].row = req[p].row
          /\ req'[p].held = req[p].held /\ req'[p].seen = req[p].seen
      BY <1>1, <3>1 DEF Req
    <3> QED BY <1>1, <3>2 DEF OwnWork
  <2>5. CASE MigrateDone(p)
    BY <1>3, <2>5 DEF MigrateDone
  <2> QED BY <1>11, <2>3, <2>4, <2>5 DEF Migrate
<1> QED BY <1>4, <1>5, <1>6, <1>7, <1>8, <1>9, <1>10, <1>11 DEF Step

LEMMA OwnInit == Init => OwnRows
  BY DEF Init, OwnRows, OwnWork, NewReq

\* Types and work together are inductive.
LEMMA TypedStep == TypeOK /\ OwnRows /\ [Next]_vars => TypeOK' /\ OwnRows'
<1> SUFFICES ASSUME TypeOK, OwnRows, [Next]_vars PROVE TypeOK' /\ OwnRows'
  OBVIOUS
<1>1. CASE Next
  BY <1>1, StepType, OwnStep DEF Next
<1>2. CASE UNCHANGED vars
  BY <1>2 DEF vars, tables, TypeOK, OwnRows
<1> QED BY <1>1, <1>2

\* The tables, the accounts and the requests have the types that TypeOK
\* gives them.
THEOREM TypeCorrect == Spec => []TypeOK
  BY TypeInit, OwnInit, TypedStep, PTL DEF Spec

------------------------------------------------------------------------------
(* A posted transaction has its entries. *)

\* x is the pair that r's link leads to.
Backs(x, r) ==
  /\ x.row = r
  /\ x.by = tx[r].ledger
  /\ x.by = "self" => x.content = tx[r].content

\* A step that leaves r alone and deletes none of its pairs leaves its entries.
LEMMA UntouchedRow ==
  ASSUME NEW r \in Tx, PostedHasEntries, tx'[r] = tx[r],
         \A x \in pairs : x.row = r => x \in pairs'
  PROVE  tx'[r].ledger # None => \E x \in pairs' :
           x.row = r /\ x.by = tx'[r].ledger
           /\ (x.by = "self" => x.content = tx'[r].content)
<1> SUFFICES ASSUME tx[r].ledger # None
             PROVE  \E x \in pairs' : Backs(x, r)
  BY DEF Backs
<1>1. PICK x \in pairs : Backs(x, r)
  BY DEF PostedHasEntries, Backs
<1> QED BY <1>1 DEF Backs

\* Transactions that are posted get their entries, the others keep theirs.
LEMMA PostRowsEntries ==
  ASSUME TypeOK, PostedHasEntries, NEW p \in Request, NEW rows \in SUBSET Tx,
         NEW c \in Content, PostRows(p, rows, c)
  PROVE  PostedHasEntries'
<1> SUFFICES ASSUME NEW r \in Tx, tx'[r].ledger # None
             PROVE  \E x \in pairs' : x.row = r /\ x.by = tx'[r].ledger
                      /\ (x.by = "self" => x.content = tx'[r].content)
  BY DEF PostedHasEntries
<1>1. CASE r \in rows
  <2>1. tx'[r] = [content |-> c, ledger |-> "self"]
    BY <1>1 DEF PostRows, TypeOK
  <2>2. NewPair(p, r, c) \in pairs'
    BY <1>1 DEF PostRows
  <2> QED BY <2>1, <2>2 DEF NewPair
<1>2. CASE r \notin rows
  <2>1. tx'[r] = tx[r] /\ pairs \subseteq pairs'
    BY <1>2 DEF PostRows, TypeOK
  <2> QED BY <2>1, UntouchedRow
<1> QED BY <1>1, <1>2

LEMMA EntriesStep ==
  ASSUME TypeOK, OwnRows, PostedHasEntries, NEW p \in Request, Step(p) \/ Fail(p)
  PROVE  PostedHasEntries'
<1> USE LedgerConstants
<1>1. CASE UNCHANGED <<tx, pairs>>
  BY <1>1 DEF PostedHasEntries
<1>2. CASE Create(p) \/ PushCreate(p)
  BY <1>2, PostRowsEntries DEF Create, PushCreate
<1>3. CASE Repost(p)
  <2>1. PICK c \in Content :
          /\ tx' = [tx EXCEPT ![req[p].row] = [content |-> c, ledger |-> "self"]]
          /\ pairs' = (pairs \ req[p].held) \cup {NewPair(p, req[p].row, c)}
    BY <1>3 DEF Repost
  <2> SUFFICES ASSUME NEW r \in Tx, tx'[r].ledger # None
               PROVE  \E x \in pairs' : x.row = r /\ x.by = tx'[r].ledger
                        /\ (x.by = "self" => x.content = tx'[r].content)
    BY DEF PostedHasEntries
  <2>2. CASE r = req[p].row
    <3>1. tx'[r] = [content |-> c, ledger |-> "self"]
      BY <2>1, <2>2 DEF TypeOK
    <3>2. NewPair(p, r, c) \in pairs'
      BY <2>1, <2>2
    <3> QED BY <3>1, <3>2 DEF NewPair
  <2>3. CASE r # req[p].row
    <3>1. tx'[r] = tx[r] /\ \A x \in pairs : x.row = r => x \in pairs'
      BY <2>1, <2>3 DEF TypeOK, OwnRows, OwnWork
    <3> QED BY <3>1, UntouchedRow
  <2> QED BY <2>2, <2>3
<1>4. CASE Erase(p)
  <2>1. /\ tx' = [tx EXCEPT ![req[p].row] = NoRow]
        /\ pairs \ req[p].held \subseteq pairs'
    BY <1>4 DEF Erase
  <2> SUFFICES ASSUME NEW r \in Tx, tx'[r].ledger # None
               PROVE  \E x \in pairs' : x.row = r /\ x.by = tx'[r].ledger
                        /\ (x.by = "self" => x.content = tx'[r].content)
    BY DEF PostedHasEntries
  <2>2. r # req[p].row
    BY <2>1 DEF TypeOK, NoRow
  <2>3. tx'[r] = tx[r] /\ \A x \in pairs : x.row = r => x \in pairs'
    BY <2>1, <2>2 DEF TypeOK, OwnRows, OwnWork
  <2> QED BY <2>3, UntouchedRow
<1>5. CASE MigrateRow(p)
  <2>1. PICK t \in req[p].todo :
          /\ tx' = IF Alive(t.row) THEN [tx EXCEPT ![t.row].ledger = p] ELSE tx
          /\ pairs' = pairs \cup {[row |-> t.row, by |-> p, writer |-> p,
                                   content |-> t.content]}
    BY <1>5 DEF MigrateRow
  <2> SUFFICES ASSUME NEW r \in Tx, tx'[r].ledger # None
               PROVE  \E x \in pairs' : x.row = r /\ x.by = tx'[r].ledger
                        /\ (x.by = "self" => x.content = tx'[r].content)
    BY DEF PostedHasEntries
  <2>2. CASE r = t.row /\ Alive(r)
    <3>1. tx'[r].ledger = p /\ p # "self"
      BY <2>1, <2>2, RowFields DEF TypeOK
    <3>2. [row |-> r, by |-> p, writer |-> p, content |-> t.content] \in pairs'
      BY <2>1, <2>2
    <3> QED BY <3>1, <3>2
  <2>3. CASE ~(r = t.row /\ Alive(r))
    <3>1. tx'[r] = tx[r] /\ pairs \subseteq pairs'
      BY <2>1, <2>3 DEF TypeOK
    <3> QED BY <3>1, UntouchedRow
  <2> QED BY <2>2, <2>3
<1>6. Step(p) \/ Fail(p) => \/ UNCHANGED <<tx, pairs>>
                           \/ Create(p) \/ PushCreate(p)
                           \/ Repost(p) \/ Erase(p) \/ MigrateRow(p)
  BY DEF Step, Resolve, FindLink, LookupAccount, MakeAccount, LinkAccount,
         PushRepeated, ReadLedgerId, LockRow, Unpost, UnpostWaited, Migrate,
         Scan, LoadAccounts, SkipRow, MigrateDone, DeadlockVictim, Fail, tables
<1> QED BY <1>1, <1>2, <1>3, <1>4, <1>5, <1>6

LEMMA EntriesInit == Init => PostedHasEntries
<1> SUFFICES ASSUME Init, NEW r \in Tx, tx[r].ledger # None
             PROVE  \E x \in pairs : Backs(x, r)
  BY DEF PostedHasEntries, Backs
<1>1. PICK c \in Content :
        /\ tx = [q \in Tx |-> IF q \in Posted THEN [content |-> c, ledger |-> "self"]
                              ELSE IF q \in Legacy THEN [content |-> c, ledger |-> None]
                              ELSE NoRow]
        /\ pairs = {[row |-> q, by |-> "self", writer |-> "old", content |-> c] :
                      q \in Posted}
  BY DEF Init
<1>2. r \in Posted /\ tx[r] = [content |-> c, ledger |-> "self"]
  BY <1>1 DEF NoRow
<1>3. [row |-> r, by |-> "self", writer |-> "old", content |-> c] \in pairs
  BY <1>1, <1>2
<1> QED BY <1>2, <1>3 DEF Backs

\* However requests overlap, a transaction that is linked to entries has them.
THEOREM EntriesKept == Spec => []PostedHasEntries
<1>1. TypeOK /\ OwnRows /\ PostedHasEntries /\ [Next]_vars => PostedHasEntries'
  <2> SUFFICES ASSUME TypeOK, OwnRows, PostedHasEntries, [Next]_vars
               PROVE  PostedHasEntries'
    OBVIOUS
  <2>1. CASE Next
    BY <2>1, EntriesStep DEF Next
  <2>2. CASE UNCHANGED vars
    BY <2>2 DEF vars, tables, PostedHasEntries
  <2> QED BY <2>1, <2>2
<1> QED BY <1>1, TypeInit, OwnInit, EntriesInit, TypedStep, PTL DEF Spec

------------------------------------------------------------------------------
(* The account of a category. *)

\* Once no request is about to link the category, none will be again.
LEMMA SettledStep ==
  ASSUME TypeOK, Settled, NEW p \in Request, Step(p) \/ Fail(p)
  PROVE  Settled' /\ UNCHANGED <<link, accounts>>
<1>1. /\ req \in [Request -> Req]
      /\ link # None
      /\ req[p].pc \notin {"lookup", "make", "link"}
  BY DEF TypeOK, Settled
<1>2. UNCHANGED <<link, accounts>>
  BY <1>1 DEF Step, Resolve, FindLink, LookupAccount, MakeAccount, LinkAccount,
     Create, PushRepeated, PushCreate, ReadLedgerId, LockRow, Unpost,
     UnpostWaited, Repost, Erase, Migrate, Scan, LoadAccounts, MigrateRow,
     SkipRow, MigrateDone, DeadlockVictim, Fail
<1>3. Finish(p) => req'[p].pc \notin {"lookup", "make", "link"}
  BY <1>1 DEF Finish, Over, NewReq
<1>4. req'[p].pc \notin {"lookup", "make", "link"}
  <2>1. CASE Resolve(p)
    BY <1>1, <2>1 DEF Resolve, FindLink, LookupAccount, MakeAccount, LinkAccount, Goto, Req
  <2>2. CASE Create(p) \/ PushRepeated(p) \/ PushCreate(p)
    BY <1>3, <2>2 DEF Create, PushRepeated, PushCreate
  <2>3. CASE ReadLedgerId(p) \/ LockRow(p)
    <3>1. CASE ReadLedgerId(p)
      <4>1. PICK r \in used :
              \/ req' = [req EXCEPT ![p].pc = IF OpOf[p] = "update" THEN "write"
                                              ELSE "unpost",
                                    ![p].row = r, ![p].old = tx[r].ledger]
              \/ Finish(p)
        BY <3>1 DEF ReadLedgerId
      <4> QED BY <1>1, <1>3, <4>1 DEF Req
    <3>2. CASE LockRow(p)
      BY <1>1, <1>3, <3>2 DEF LockRow, Goto, Req
    <3> QED BY <2>3, <3>1, <3>2
  <2>4. CASE Unpost(p) \/ UnpostWaited(p)
    BY <1>1, <2>4 DEF Unpost, UnpostWaited, AfterUnpost, Req
  <2>5. CASE Repost(p) \/ Erase(p) \/ DeadlockVictim(p) \/ Fail(p)
    BY <1>3, <2>5 DEF Repost, Erase, DeadlockVictim, Fail
  <2>6. CASE Scan(p) \/ LoadAccounts(p)
    BY <1>1, <2>6 DEF Scan, LoadAccounts, Req
  <2>7. CASE MigrateRow(p) \/ SkipRow(p)
    <3>1. PICK t \in req[p].todo : req' = [req EXCEPT ![p].todo = @ \ {t}]
      BY <2>7 DEF MigrateRow, SkipRow
    <3>2. req'[p].pc = req[p].pc
      BY <1>1, <3>1 DEF Req
    <3> QED BY <1>1, <3>2
  <2>8. CASE MigrateDone(p)
    BY <1>3, <2>8 DEF MigrateDone
  <2> QED BY <2>1, <2>2, <2>3, <2>4, <2>5, <2>6, <2>7, <2>8 DEF Step, Migrate
<1> QED BY <1>2, <1>4, OthersStay DEF Settled

\* A category gets no second account once it is linked and nobody is linking
\* it.
THEOREM AccountSettles == Spec => LinkSettles
<1>1. TypeOK /\ [Next]_vars => [Settled => Settled' /\ UNCHANGED <<link, accounts>>]_vars
  <2> SUFFICES ASSUME TypeOK, Next, Settled
               PROVE  Settled' /\ UNCHANGED <<link, accounts>>
    OBVIOUS
  <2> QED BY SettledStep DEF Next
<1> QED BY <1>1, TypeCorrect, PTL DEF Spec, LinkSettles

------------------------------------------------------------------------------
(* The books agree. *)

Own(r) == {x \in pairs : x.row = r}

\* The requests whose next steps depend on what r was when they read it.
AtWork == {"write", "unpost", "wait", "post", "erase"}

Works(q, r) == IF OpOf[q] = "migrate" THEN \E t \in req[q].todo : t.row = r
               ELSE req[q].row = r /\ req[q].pc \in AtWork

\* Each request does the work of its handler, on transactions that exist or
\* have existed.
Fits(q) ==
  /\ req[q].pc \in {"write", "post"} => OpOf[q] = "update"
  /\ req[q].pc = "erase" => OpOf[q] \in Deletes
  /\ req[q].pc \in {"unpost", "wait"} => OpOf[q] \in Deletes \cup {"update"}
  /\ req[q].pc \in AtWork => req[q].row \in used
  /\ req[q].todo # {} => OpOf[q] = "migrate"

UsedRows == \A r \in Tx : Alive(r) => r \in used

\* One update at a time has the lock of a row.
Locks(q, r) ==
  OpOf[q] = "update" /\ req[q].row = r /\ req[q].pc \in {"unpost", "wait", "post"}

OneLock == \A p, q \in Request, r \in Tx : Locks(p, r) /\ Locks(q, r) => p = q

\* The requests at work on r together are all updates or all deletes.
Apart(r) == \A p, q \in Request :
              Works(p, r) /\ Works(q, r) /\ p # q => ~Clash(OpOf[p], OpOf[q])

\* The group q has read still leads to r's entries, and what q has deleted of
\* them, or waits to delete, is all there is.
Holds(q, r) ==
  /\ tx[r].ledger \in {"self", req[q].old}
  /\ req[q].pc = "wait" => req[q].seen = Own(r)
  /\ req[q].pc \in {"post", "erase"} => req[q].held = Own(r)

\* What a request knows of r is still so: r is there for an update, or as a
\* migration found it; for a delete, it is there or has no entries.
Part(q, r) ==
  /\ OpOf[q] = "update" /\ Works(q, r) => Alive(r)
  /\ OpOf[q] # "migrate" /\ Works(q, r) /\ Alive(r) => Holds(q, r)
  /\ \A t \in req[q].todo : t.row = r => tx[r] = [content |-> t.content, ledger |-> None]

Sure(r) == Agrees(r) /\ Apart(r) /\ \A q \in Request : Part(q, r)

Order == UsedRows /\ OneLock /\ \A q \in Request : Fits(q)

Books == Order /\ \A r \in Tx \ raced : Sure(r)

\* A request that is over is at no work.
LEMMA OverIdle ==
  ASSUME TypeOK, NEW p \in Request, Finish(p)
  PROVE  req'[p].pc = "done" /\ req'[p].todo = {}
  BY DEF TypeOK, Finish, Over, NewReq

\* Clash does not depend on who comes first.
LEMMA ClashEither == \A a, b : Clash(a, b) <=> Clash(b, a)
  BY DEF Clash

\* What Agrees says, without counting.
LEMMA AgreesIs ==
  ASSUME NEW r
  PROVE  /\ Agrees(r) /\ tx[r].ledger = None => Own(r) = {}
         /\ Agrees(r) => \A x \in Own(r) : x.by = tx[r].ledger /\ x.content = tx[r].content
         /\ tx[r].ledger = None /\ Own(r) = {} => Agrees(r)
  BY DEF Agrees, Own

LEMMA AgreesOne ==
  ASSUME NEW r, NEW x, Own(r) = {x}, tx[r].ledger # None,
         x.by = tx[r].ledger, x.content = tx[r].content
  PROVE  Agrees(r)
<1>1. Cardinality({x}) = 1
  BY FS_Singleton
<1> QED BY <1>1 DEF Agrees, Own

\* The same after a step.
LEMMA AgreesThen ==
  ASSUME NEW r, NEW x, Own(r)' = {x}, tx'[r].ledger # None,
         x.by = tx'[r].ledger, x.content = tx'[r].content
  PROVE  Agrees(r)'
<1>1. Cardinality({x}) = 1
  BY FS_Singleton
<1>2. Agrees(r)' <=> IF tx'[r].ledger = None THEN Own(r)' = {}
                     ELSE /\ Cardinality(Own(r)') = 1
                          /\ \A z \in Own(r)' : z.by = tx'[r].ledger /\ z.content = tx'[r].content
  BY DEF Agrees, Own
<1> HIDE DEF Own
<1> QED BY <1>1, <1>2

\* A transaction whose row and entries stay keeps what is said of it, if the
\* request that steps does.
LEMMA SureStays ==
  ASSUME NEW r \in Tx, Sure(r), NEW p \in Request,
         \A q \in Request \ {p} : req'[q] = req[q],
         tx'[r] = tx[r], Own(r)' = Own(r),
         Part(p, r)',
         \A q \in Request \ {p} : Works(p, r)' /\ Works(q, r) => ~Clash(OpOf[p], OpOf[q])
  PROVE  Sure(r)'
<1>1. Agrees(r)'
  BY DEF Sure, Agrees, Own
<1>2. \A q \in Request \ {p} : Works(q, r)' <=> Works(q, r)
  BY DEF Works
<1>3. Apart(r)'
  BY <1>2, ClashEither DEF Apart, Sure
<1>4. ASSUME NEW q \in Request \ {p}
      PROVE  Part(q, r)'
  <2>1. Part(q, r) /\ req'[q] = req[q]
    BY DEF Sure
  <2> QED BY <2>1, <1>2 DEF Part, Holds, Alive
<1> QED BY <1>1, <1>3, <1>4 DEF Sure

\* A transaction that nobody works on, and that agrees afterwards.
LEMMA SureAlone ==
  ASSUME NEW r \in Tx, NEW p \in Request,
         \A q \in Request \ {p} : req'[q] = req[q],
         Agrees(r)', ~Works(p, r)', \A t \in req'[p].todo : t.row # r,
         \A q \in Request \ {p} : ~Works(q, r) /\ \A t \in req[q].todo : t.row # r
  PROVE  Sure(r)'
<1>1. \A q \in Request : ~Works(q, r)' /\ \A t \in req'[q].todo : t.row # r
  BY DEF Works
<1> QED BY <1>1 DEF Sure, Apart, Part

\* Nobody works on a transaction that never was.
LEMMA UnusedIdle ==
  ASSUME TypeOK, Books, NEW r \in Tx \ raced, r \notin used, NEW q \in Request
  PROVE  ~Works(q, r) /\ \A t \in req[q].todo : t.row # r
<1>1. Fits(q) /\ Part(q, r) /\ ~Alive(r)
  BY DEF Books, Order, UsedRows, Sure
<1>2. \A t \in req[q].todo : t.row # r
  <2> SUFFICES ASSUME NEW t \in req[q].todo, t.row = r PROVE FALSE
    OBVIOUS
  <2>1. t.content \in Content
    BY ReqFields DEF Todo
  <2>2. tx[r] = [content |-> t.content, ledger |-> None]
    BY <1>1 DEF Part
  <2>3. tx[r] = [content |-> None, ledger |-> None]
    BY <1>1 DEF Alive, NoRow
  <2>4. t.content = None
    BY <2>2, <2>3
  <2> QED BY <2>1, <2>4, LedgerConstants
<1> QED BY <1>1, <1>2 DEF Works, Fits

\* A request that ends says nothing.
LEMMA PartOver ==
  ASSUME TypeOK, NEW p \in Request, Finish(p), NEW r
  PROVE  ~Works(p, r)' /\ Part(p, r)'
<1>1. req'[p].pc = "done" /\ req'[p].todo = {}
  BY OverIdle
<1>2. ~Works(p, r)'
  BY <1>1 DEF Works, AtWork
<1> QED BY <1>1, <1>2 DEF Part

\* Neither does one that has not read its transaction.
LEMMA PartIdle ==
  ASSUME NEW p \in Request, req'[p].pc \notin AtWork, req'[p].todo = {}, NEW r
  PROVE  ~Works(p, r)' /\ Part(p, r)'
  BY DEF Works, Part

\* Each request goes on with the work of its handler.
LEMMA OrderStep ==
  ASSUME TypeOK, OwnRows, Order, NEW p \in Request, Step(p) \/ Fail(p)
  PROVE  Order'
<1> USE LedgerConstants
<1>1. /\ req \in [Request -> Req] /\ req[p] \in Req /\ tx \in [Tx -> Row]
      /\ used \subseteq Tx /\ used \subseteq used' /\ Fits(p)
  <2>1. used \subseteq used'
    BY DEF Step, Resolve, FindLink, LookupAccount, MakeAccount, LinkAccount,
           Create, PostRows, PushRepeated, PushCreate, ReadLedgerId, LockRow, Unpost,
           UnpostWaited, Repost, Erase, Migrate, Scan, LoadAccounts, MigrateRow,
           SkipRow, MigrateDone, DeadlockVictim, Fail, tables
  <2> QED BY <2>1 DEF TypeOK, Order
<1>2. Finish(p) => Fits(p)' /\ \A r : ~Locks(p, r)'
  BY OverIdle DEF Fits, Locks, AtWork
<1>3. /\ Fits(p)'
      /\ \A r \in Tx : Locks(p, r)' =>
            \/ Locks(p, r)
            \/ req[p].pc = "write" /\ ~RowLocked(r)
  <2>1. CASE Resolve(p)
    <3>1. /\ req[p].pc \in {"new", "lookup", "make", "link"}
          /\ req'[p].pc \in {"lookup", "ready", "make", "link"}
          /\ req'[p].todo = req[p].todo
      BY <1>1, <2>1 DEF Resolve, FindLink, LookupAccount, MakeAccount, LinkAccount, Goto, Req
    <3> QED BY <1>1, <3>1 DEF Fits, Locks, AtWork
  <2>2. CASE Create(p) \/ PushRepeated(p) \/ PushCreate(p)
    BY <1>2, <2>2 DEF Create, PushRepeated, PushCreate
  <2>3. CASE ReadLedgerId(p)
    <3>1. PICK r \in used :
            \/ req' = [req EXCEPT ![p].pc = IF OpOf[p] = "update" THEN "write"
                                            ELSE "unpost",
                                  ![p].row = r, ![p].old = tx[r].ledger]
            \/ Finish(p)
      BY <2>3 DEF ReadLedgerId
    <3>2. OpOf[p] = "update" \/ OpOf[p] \in Deletes
      BY <2>3 DEF ReadLedgerId
    <3>3. CASE ~Finish(p)
      <4>1. /\ req'[p].pc = IF OpOf[p] = "update" THEN "write" ELSE "unpost"
            /\ req'[p].row = r
            /\ req'[p].todo = req[p].todo
        BY <1>1, <3>1, <3>3 DEF Req
      <4> QED BY <1>1, <3>2, <4>1 DEF Fits, Locks, AtWork, Deletes
    <3> QED BY <1>2, <3>3
  <2>4. CASE LockRow(p)
    <3>1. CASE Goto(p, "unpost")
      <4>1. /\ req'[p].pc = "unpost" /\ req[p].pc = "write"
            /\ req'[p].row = req[p].row
            /\ req'[p].todo = req[p].todo
            /\ ~RowLocked(req[p].row)
        BY <1>1, <2>4, <3>1 DEF LockRow, Goto, Req
      <4> QED BY <1>1, <4>1 DEF Fits, Locks, AtWork
    <3> QED BY <1>2, <2>4, <3>1 DEF LockRow
  <2>5. CASE Unpost(p) \/ UnpostWaited(p)
    <3>1. /\ req[p].pc \in {"unpost", "wait"}
          /\ req'[p].pc \in {"wait", AfterUnpost(p)}
          /\ req'[p].row = req[p].row
          /\ req'[p].todo = req[p].todo
      BY <1>1, <2>5 DEF Unpost, UnpostWaited, Req
    <3>2. \/ OpOf[p] = "update" /\ AfterUnpost(p) = "post"
          \/ OpOf[p] \in Deletes /\ OpOf[p] # "update" /\ AfterUnpost(p) = "erase"
      BY <1>1, <3>1 DEF Fits, AfterUnpost, Deletes
    <3>3. Fits(p)'
      BY <1>1, <3>1, <3>2 DEF Fits, AtWork
    <3>4. \A r \in Tx : Locks(p, r)' => Locks(p, r)
      BY <3>1 DEF Locks
    <3> QED BY <3>3, <3>4
  <2>6. CASE Repost(p) \/ Erase(p) \/ DeadlockVictim(p) \/ Fail(p)
    BY <1>2, <2>6 DEF Repost, Erase, DeadlockVictim, Fail
  <2>7. CASE Migrate(p) /\ ~MigrateDone(p)
    <3>1. CASE Scan(p) \/ LoadAccounts(p)
      <4>1. /\ req'[p].pc \in {"load", "migrate"}
            /\ OpOf[p] = "migrate" \/ req'[p].todo = req[p].todo
        BY <1>1, <3>1 DEF Scan, LoadAccounts, Req
      <4> QED BY <1>1, <4>1 DEF Fits, Locks, AtWork, Deletes
    <3>2. CASE MigrateRow(p) \/ SkipRow(p)
      <4>1. PICK t \in req[p].todo : req' = [req EXCEPT ![p].todo = @ \ {t}]
        BY <3>2 DEF MigrateRow, SkipRow
      <4>2. /\ req'[p].pc = req[p].pc /\ req[p].pc = "migrate"
            /\ req'[p].todo \subseteq req[p].todo
        BY <1>1, <3>2, <4>1 DEF MigrateRow, SkipRow, Req
      <4> QED BY <1>1, <4>2 DEF Fits, Locks, AtWork
    <3> QED BY <2>7, <3>1, <3>2 DEF Migrate
  <2>8. CASE MigrateDone(p)
    BY <1>2, <2>8 DEF MigrateDone
  <2> QED BY <2>1, <2>2, <2>3, <2>4, <2>5, <2>6, <2>7, <2>8 DEF Step, Migrate
<1>4. \A q \in Request \ {p} : req'[q] = req[q]
  BY OthersStay
<1>5. \A q \in Request : Fits(q)'
  <2> SUFFICES ASSUME NEW q \in Request \ {p} PROVE Fits(q)'
    BY <1>3
  <2>1. Fits(q) /\ req'[q] = req[q]
    BY <1>4 DEF Order
  <2> QED BY <1>1, <2>1 DEF Fits
<1>6. OneLock'
  <2> SUFFICES ASSUME NEW q \in Request, NEW u \in Request, NEW r \in Tx,
                      Locks(q, r)', Locks(u, r)'
               PROVE  q = u
    BY DEF OneLock
  <2>1. \A v \in Request \ {p} : Locks(v, r)' => Locks(v, r) /\ RowLocked(r)
    BY <1>4 DEF Locks, RowLocked
  <2>2. \A v \in Request \ {p} : Locks(v, r)' => ~Locks(p, r)'
    BY <1>3, <2>1 DEF OneLock, Order
  <2> QED BY <2>1, <2>2 DEF OneLock, Order
<1>7. UsedRows'
  <2> SUFFICES ASSUME NEW r \in Tx, tx'[r] # NoRow
               PROVE  r \in used'
    BY DEF UsedRows, Alive
  <2>1. CASE tx[r] # NoRow
    BY <1>1, <2>1 DEF Order, UsedRows, Alive
  <2>2. CASE Create(p) \/ PushCreate(p)
    <3>1. PICK rows \in SUBSET Tx, c \in Content : PostRows(p, rows, c)
      BY <2>2 DEF Create, PushCreate
    <3>2. CASE r \in rows
      BY <3>1, <3>2 DEF PostRows
    <3>3. CASE r \notin rows
      <4>1. tx'[r] = tx[r]
        BY <3>1, <3>3 DEF PostRows
      <4> QED BY <2>1, <4>1
    <3> QED BY <3>2, <3>3
  <2>3. CASE Repost(p)
    <3>1. req[p].row \in used /\ req[p].row \in Tx
      BY <1>1, <2>3 DEF Repost, Fits, AtWork
    <3>2. r = req[p].row \/ tx'[r] = tx[r]
      BY <1>1, <2>3 DEF Repost
    <3> QED BY <1>1, <2>1, <3>1, <3>2
  <2>4. CASE Erase(p)
    BY <1>1, <2>1, <2>4 DEF Erase
  <2>5. CASE MigrateRow(p)
    <3>1. PICK t \in req[p].todo :
            tx' = IF Alive(t.row) THEN [tx EXCEPT ![t.row].ledger = p] ELSE tx
      BY <2>5 DEF MigrateRow
    <3>2. tx'[r] = tx[r] \/ Alive(r)
      BY <1>1, <3>1
    <3> QED BY <2>1, <3>2 DEF Alive
  <2>6. CASE UNCHANGED tx
    BY <2>1, <2>6
  <2>7. Step(p) \/ Fail(p) => \/ UNCHANGED tx
                             \/ Create(p) \/ PushCreate(p)
                             \/ Repost(p) \/ Erase(p) \/ MigrateRow(p)
    BY DEF Step, Resolve, FindLink, LookupAccount, MakeAccount, LinkAccount,
           PushRepeated, ReadLedgerId, LockRow, Unpost, UnpostWaited, Migrate,
           Scan, LoadAccounts, SkipRow, MigrateDone, DeadlockVictim, Fail, tables
  <2> QED BY <2>2, <2>3, <2>4, <2>5, <2>6, <2>7
<1> QED BY <1>5, <1>6, <1>7 DEF Order

\* A step that changes neither a transaction nor its entries.
LEMMA QuietStep ==
  ASSUME TypeOK, OwnRows, Books, NEW p \in Request, Step(p) \/ Fail(p),
         UNCHANGED <<tx, pairs>>, NEW r \in Tx \ raced'
  PROVE  Sure(r)'
<1> USE LedgerConstants
<1>1. /\ req \in [Request -> Req] /\ req[p] \in Req /\ tx \in [Tx -> Row]
      /\ Fits(p) /\ Part(p, r) /\ r \in Tx \ raced /\ Sure(r) /\ OwnWork(req[p])
  <2>1. raced \subseteq raced'
    BY DEF Step, Resolve, FindLink, LookupAccount, MakeAccount, LinkAccount,
           Create, PushRepeated, PushCreate, ReadLedgerId, LockRow, Unpost,
           UnpostWaited, Repost, Erase, Migrate, Scan, LoadAccounts, MigrateRow,
           SkipRow, MigrateDone, DeadlockVictim, Fail, Overlap
  <2> QED BY <2>1 DEF TypeOK, Books, Order, Sure, OwnRows
<1>2. \A q \in Request \ {p} : req'[q] = req[q]
  BY OthersStay
<1>3. tx'[r] = tx[r] /\ Own(r)' = Own(r)
  BY DEF Own
<1>4. ASSUME Part(p, r)',
             Works(p, r)' =>
               \/ Works(p, r)
               \/ \A q \in Request \ {p} : Works(q, r) => ~Clash(OpOf[p], OpOf[q])
      PROVE  Sure(r)'
  <2>1. \A q \in Request \ {p} : Works(p, r)' /\ Works(q, r) => ~Clash(OpOf[p], OpOf[q])
    BY <1>1, <1>4 DEF Sure, Apart
  <2> QED BY <1>1, <1>2, <1>3, <1>4, <2>1, SureStays
<1>5. ASSUME Finish(p) PROVE Sure(r)'
  BY <1>4, <1>5, PartOver
<1>6. CASE Resolve(p)
  <2>1. /\ req[p].pc \in {"new", "lookup", "make", "link"}
        /\ req'[p].pc \in {"lookup", "ready", "make", "link"}
        /\ req'[p].todo = req[p].todo
    BY <1>1, <1>6 DEF Resolve, FindLink, LookupAccount, MakeAccount, LinkAccount, Goto, Req
  <2>2. Part(p, r)' /\ (Works(p, r)' => Works(p, r))
    BY <1>1, <1>3, <2>1 DEF Part, Works, AtWork
  <2> QED BY <1>4, <2>2
<1>7. CASE Create(p) \/ PushRepeated(p) \/ PushCreate(p)
  BY <1>5, <1>7 DEF Create, PushRepeated, PushCreate
<1>8. CASE ReadLedgerId(p)
  <2>1. PICK s \in used :
          IF Alive(s)
          THEN /\ req' = [req EXCEPT ![p].pc = IF OpOf[p] = "update" THEN "write"
                                               ELSE "unpost",
                                     ![p].row = s, ![p].old = tx[s].ledger]
               /\ Overlap(p, {s})
          ELSE Finish(p) /\ UNCHANGED raced
    BY <1>8 DEF ReadLedgerId
  <2>2. CASE ~Alive(s)
    BY <1>5, <2>1, <2>2
  <2>3. CASE Alive(s)
    <3>1. /\ req'[p].pc = IF OpOf[p] = "update" THEN "write" ELSE "unpost"
          /\ req'[p].row = s
          /\ req'[p].old = tx[s].ledger
          /\ req'[p].todo = req[p].todo
      BY <1>1, <2>1, <2>3 DEF Req
    <3>2. OpOf[p] # "migrate" /\ req[p].todo = {}
      BY <1>1, <1>8 DEF ReadLedgerId, Deletes, Fits
    <3>3. Part(p, r)'
      BY <1>3, <2>3, <3>1, <3>2 DEF Part, Works, Holds, Alive
    <3>4. ASSUME Works(p, r)', NEW q \in Request \ {p}, Works(q, r)
          PROVE  ~Clash(OpOf[p], OpOf[q])
      <4>1. r = s
        BY <3>1, <3>2, <3>4 DEF Works
      <4>2. r \in Busy(q)
        BY <3>4 DEF Works, Busy
      <4> QED BY <2>1, <2>3, <4>1, <4>2 DEF Overlap
    <3> QED BY <1>4, <3>3, <3>4
  <2> QED BY <2>2, <2>3
<1>9. CASE LockRow(p)
  <2>1. CASE Finish(p)
    BY <1>5, <2>1
  <2>2. CASE Goto(p, "unpost")
    <3>1. /\ req'[p].pc = "unpost" /\ req[p].pc = "write"
          /\ req'[p].row = req[p].row
          /\ req'[p].old = req[p].old
          /\ req'[p].todo = req[p].todo
      BY <1>1, <1>9, <2>2 DEF LockRow, Goto, Req
    <3>2. Works(p, r)' <=> Works(p, r)
      BY <3>1 DEF Works, AtWork
    <3>3. Part(p, r)'
      BY <1>1, <1>3, <3>1, <3>2 DEF Part, Holds, Alive
    <3> QED BY <1>4, <3>2, <3>3
  <2> QED BY <1>9, <2>1, <2>2 DEF LockRow
<1>10. CASE Unpost(p)
  <2> DEFINE xs == EntriesOf(req[p].row, req[p].old)
  <2>1. /\ req[p].pc = "unpost"
        /\ \/ req'[p].pc = "wait" /\ req'[p].seen = xs
           \/ req'[p].pc \in {"post", "erase"} /\ req'[p].held = xs
        /\ req'[p].row = req[p].row
        /\ req'[p].old = req[p].old
        /\ req'[p].todo = req[p].todo
    BY <1>1, <1>10 DEF Unpost, AfterUnpost, Req
  <2>2. Works(p, r)' <=> Works(p, r)
    BY <2>1 DEF Works, AtWork
  <2>3. ASSUME Works(p, r), Alive(r), OpOf[p] # "migrate"
        PROVE  Holds(p, r)'
    <3>1. r = req[p].row /\ tx[r].ledger \in {"self", req[p].old}
      BY <1>1, <2>3 DEF Works, Part, Holds
    <3>2. \A x \in Own(r) : x.by = tx[r].ledger
      BY <1>1, AgreesIs DEF Sure
    <3>3. xs = Own(r)
      BY <3>1, <3>2 DEF EntriesOf, Own
    <3>4. Own(r)' = xs
      BY <1>3, <3>3
    <3> HIDE DEF xs
    <3> QED BY <1>3, <2>1, <3>1, <3>4 DEF Holds
  <2>4. Part(p, r)'
    BY <1>1, <1>3, <2>1, <2>2, <2>3 DEF Part, Alive
  <2> QED BY <1>4, <2>2, <2>4
<1>11. CASE UnpostWaited(p)
  <2> DEFINE gone == req[p].seen \cap pairs
  <2>1. /\ req[p].pc = "wait"
        /\ req'[p].pc \in {"post", "erase"} /\ req'[p].held = gone
        /\ req'[p].row = req[p].row
        /\ req'[p].old = req[p].old
        /\ req'[p].todo = req[p].todo
    BY <1>1, <1>11 DEF UnpostWaited, AfterUnpost, Req
  <2>2. Works(p, r)' <=> Works(p, r)
    BY <2>1 DEF Works, AtWork
  <2>3. ASSUME Works(p, r), Alive(r), OpOf[p] # "migrate"
        PROVE  Holds(p, r)'
    <3>1. req[p].seen = Own(r) /\ tx[r].ledger \in {"self", req[p].old}
      BY <1>1, <2>1, <2>3 DEF Part, Holds
    <3>2. gone = Own(r)
      BY <3>1 DEF Own
    <3> QED BY <1>3, <2>1, <3>1, <3>2 DEF Holds
  <2>4. Part(p, r)'
    BY <1>1, <1>3, <2>1, <2>2, <2>3 DEF Part, Alive
  <2> QED BY <1>4, <2>2, <2>4
<1>12. CASE Repost(p) \/ Erase(p) \/ DeadlockVictim(p) \/ Fail(p) \/ MigrateDone(p)
  BY <1>5, <1>12 DEF Repost, Erase, DeadlockVictim, Fail, MigrateDone
<1>13. CASE Scan(p)
  <2> DEFINE rows == {s \in Tx : Alive(s) /\ tx[s].ledger = None}
             found == {[row |-> s, content |-> tx[s].content] : s \in rows}
  <2>1. /\ OpOf[p] = "migrate"
        /\ req'[p].todo = found
        /\ Overlap(p, rows)
    BY <1>1, <1>13 DEF Scan, Req
  <2>2. ASSUME NEW t \in found, t.row = r
        PROVE  r \in rows /\ tx'[r] = [content |-> t.content, ledger |-> None]
    <3>1. PICK s \in rows : t = [row |-> s, content |-> tx[s].content]
      OBVIOUS
    <3>2. s = r /\ tx[r].ledger = None /\ t.content = tx[r].content /\ Alive(r)
      BY <2>2, <3>1
    <3>3. tx[r] = [content |-> tx[r].content, ledger |-> tx[r].ledger]
      BY <1>1, <3>2 DEF Row, Alive
    <3> QED BY <1>3, <3>2, <3>3
  <2> HIDE DEF rows, found
  <2>3. Part(p, r)'
    BY <2>1, <2>2 DEF Part
  <2>4. ASSUME Works(p, r)', NEW q \in Request \ {p}, Works(q, r)
        PROVE  ~Clash(OpOf[p], OpOf[q])
    <3>1. r \in rows
      BY <2>1, <2>2, <2>4 DEF Works
    <3>2. r \in Busy(q)
      BY <2>4 DEF Works, Busy
    <3> QED BY <2>1, <3>1, <3>2 DEF Overlap
  <2> QED BY <1>4, <2>3, <2>4
<1>14. CASE LoadAccounts(p)
  <2>1. OpOf[p] = "migrate" \/ req[p].todo = {}
    BY <1>1 DEF Fits
  <2>2. req'[p].todo = req[p].todo /\ req'[p].pc = "migrate"
    BY <1>1, <1>14 DEF LoadAccounts, Req
  <2>3. Part(p, r)' /\ (Works(p, r)' => Works(p, r))
    BY <1>1, <1>3, <2>1, <2>2 DEF Part, Works, AtWork
  <2> QED BY <1>4, <2>3
<1>15. CASE MigrateRow(p) \/ SkipRow(p)
  <2>1. PICK t \in req[p].todo : req' = [req EXCEPT ![p].todo = @ \ {t}]
    BY <1>15 DEF MigrateRow, SkipRow
  <2>2. OpOf[p] = "migrate" /\ req'[p].todo \subseteq req[p].todo
    BY <1>1, <2>1 DEF Fits, Req
  <2>3. Part(p, r)' /\ (Works(p, r)' => Works(p, r))
    BY <1>1, <1>3, <2>2 DEF Part, Works
  <2> QED BY <1>4, <2>3
<1> QED
  BY <1>6, <1>7, <1>8, <1>9, <1>10, <1>11, <1>12, <1>13, <1>14, <1>15 DEF Step, Migrate

\* A step that finishes p and leaves r and its entries.
LEMMA EndsElsewhere ==
  ASSUME TypeOK, Books, NEW p \in Request, Step(p) \/ Fail(p), Finish(p),
         NEW r \in Tx \ raced, tx'[r] = tx[r], Own(r)' = Own(r)
  PROVE  Sure(r)'
<1>1. \A q \in Request \ {p} : req'[q] = req[q]
  BY OthersStay
<1>2. Sure(r) /\ ~Works(p, r)' /\ Part(p, r)'
  BY PartOver DEF Books
<1> QED BY <1>1, <1>2, SureStays

\* A transaction that is posted anew has its own entries and no others.
LEMMA PostRowsSure ==
  ASSUME TypeOK, Books, NEW p \in Request, Step(p) \/ Fail(p), Finish(p),
         NEW rows \in SUBSET Tx, NEW c \in Content, PostRows(p, rows, c),
         NEW r \in Tx \ raced,
         r \in rows => ~Alive(r) /\ \A q \in Request \ {p} : ~Works(q, r)
  PROVE  Sure(r)'
<1> USE LedgerConstants
<1>1. /\ tx' = [s \in Tx |-> IF s \in rows THEN [content |-> c, ledger |-> "self"]
                             ELSE tx[s]]
      /\ pairs' = pairs \cup {NewPair(p, s, c) : s \in rows}
  BY DEF PostRows
<1>2. \A q \in Request \ {p} : req'[q] = req[q]
  BY OthersStay
<1>3. Sure(r) /\ \A q \in Request : Fits(q)
  BY DEF Books, Order
<1>4. CASE r \notin rows
  <2>1. tx'[r] = tx[r] /\ Own(r)' = Own(r)
    BY <1>1, <1>4 DEF Own, NewPair
  <2> QED BY <2>1, EndsElsewhere
<1>5. CASE r \in rows
  <2> DEFINE x == NewPair(p, r, c)
  <2>1. Own(r) = {}
    BY <1>3, <1>5, AgreesIs DEF Sure, Alive, NoRow
  <2>2. Own(r)' = {x}
    BY <1>1, <1>5, <2>1 DEF Own, NewPair
  <2>3. /\ x.by = "self" /\ x.content = c
        /\ tx'[r] = [content |-> c, ledger |-> "self"]
    BY <1>1, <1>5 DEF NewPair
  <2> HIDE DEF x
  <2>4. Agrees(r)'
    <3>1. tx'[r].ledger = "self" /\ tx'[r].content = c
      BY <2>3
    <3> QED BY <2>2, <2>3, <3>1, AgreesThen DEF None
  <2>5. \A q \in Request \ {p} : \A t \in req[q].todo : t.row # r
    BY <1>3, <1>5 DEF Works, Fits
  <2>6. ~Works(p, r)' /\ \A t \in req'[p].todo : t.row # r
    BY PartOver, OverIdle
  <2> QED BY <1>2, <1>5, <2>4, <2>5, <2>6, SureAlone
<1> QED BY <1>4, <1>5

LEMMA BooksStep ==
  ASSUME TypeOK, OwnRows, Books, NEW p \in Request, Step(p) \/ Fail(p),
         NEW r \in Tx \ raced'
  PROVE  Sure(r)'
<1> USE LedgerConstants
<1>1. /\ req \in [Request -> Req] /\ req[p] \in Req /\ tx \in [Tx -> Row]
      /\ Fits(p) /\ Part(p, r) /\ r \in Tx \ raced /\ Sure(r) /\ OwnWork(req[p])
      /\ Order
  <2>1. raced \subseteq raced'
    BY DEF Step, Resolve, FindLink, LookupAccount, MakeAccount, LinkAccount,
           Create, PushRepeated, PushCreate, ReadLedgerId, LockRow, Unpost,
           UnpostWaited, Repost, Erase, Migrate, Scan, LoadAccounts, MigrateRow,
           SkipRow, MigrateDone, DeadlockVictim, Fail, Overlap
  <2> QED BY <2>1 DEF TypeOK, Books, Order, Sure, OwnRows
<1>2. \A q \in Request \ {p} : req'[q] = req[q]
  BY OthersStay
<1>3. CASE UNCHANGED <<tx, pairs>>
  BY <1>3, QuietStep
<1>4. CASE Create(p)
  <2>1. PICK rows \in SUBSET (Tx \ (used \cup {Pushed})), c \in Content : PostRows(p, rows, c)
    BY <1>4 DEF Create
  <2>2. Finish(p)
    BY <1>4 DEF Create
  <2>3. r \in rows => r \notin used
    BY <2>1
  <2>4. r \notin used => ~Alive(r) /\ \A q \in Request \ {p} : ~Works(q, r)
    BY <1>1, UnusedIdle DEF Order, UsedRows
  <2> QED BY <1>1, <2>1, <2>2, <2>3, <2>4, PostRowsSure
<1>5. CASE PushCreate(p)
  <2>1. PICK c \in Content : PostRows(p, {Pushed}, c)
    BY <1>5 DEF PushCreate
  <2>2. /\ Finish(p) /\ OpOf[p] = "push_create" /\ ~Alive(Pushed)
        /\ Overlap(p, {Pushed})
    BY <1>5 DEF PushCreate
  <2>3. ASSUME r = Pushed, NEW q \in Request \ {p}, Works(q, r)
        PROVE  FALSE
    <3>1. r \in Busy(q)
      BY <2>3 DEF Works, Busy
    <3>2. ~Clash("push_create", OpOf[q])
      BY <2>2, <2>3, <3>1 DEF Overlap
    <3>3. OpOf[q] # "migrate" /\ OpOf[q] \notin Deletes
      BY <3>2 DEF Clash, Deletes
    <3>4. Fits(q) /\ Part(q, r)
      BY <1>1 DEF Order, Sure
    <3>5. OpOf[q] = "update"
      BY <2>3, <3>3, <3>4 DEF Works, AtWork, Fits
    <3> QED BY <2>2, <2>3, <3>4, <3>5 DEF Part
  <2>4. {Pushed} \subseteq Tx
    OBVIOUS
  <2> QED BY <1>1, <2>1, <2>2, <2>3, <2>4, PostRowsSure
<1>6. CASE Repost(p)
  <2>1. PICK c \in Content :
          /\ tx' = [tx EXCEPT ![req[p].row] = [content |-> c, ledger |-> "self"]]
          /\ pairs' = (pairs \ req[p].held) \cup {NewPair(p, req[p].row, c)}
    BY <1>6 DEF Repost
  <2>2. req[p].pc = "post" /\ Finish(p) /\ OpOf[p] = "update"
    BY <1>1, <1>6 DEF Repost, Fits
  <2>3. CASE r # req[p].row
    <3>1. tx'[r] = tx[r] /\ Own(r)' = Own(r)
      BY <1>1, <2>1, <2>3 DEF Own, NewPair, OwnWork
    <3> QED BY <1>1, <2>2, <3>1, EndsElsewhere
  <2>4. CASE r = req[p].row
    <3> DEFINE x == NewPair(p, r, c)
    <3>1. Works(p, r) /\ Locks(p, r)
      BY <2>2, <2>4 DEF Works, Locks, AtWork
    <3>2. req[p].held = Own(r)
      BY <1>1, <2>2, <3>1 DEF Part, Holds
    <3>3. Own(r)' = {x}
      BY <2>1, <2>4, <3>2 DEF Own, NewPair
    <3>4. /\ x.by = "self" /\ x.content = c
          /\ tx'[r] = [content |-> c, ledger |-> "self"]
      BY <1>1, <2>1, <2>4 DEF NewPair
    <3> HIDE DEF x
    <3>5. Agrees(r)'
      <4>1. tx'[r].ledger = "self" /\ tx'[r].content = c
        BY <3>4
      <4> QED BY <3>3, <3>4, <4>1, AgreesThen DEF None
    <3>6. ASSUME NEW q \in Request \ {p}
          PROVE  /\ Works(q, r) => OpOf[q] = "update" /\ req[q].pc = "write"
                 /\ \A t \in req[q].todo : t.row # r
      <4>1. Works(q, r) => ~Clash(OpOf[p], OpOf[q])
        BY <1>1, <3>1 DEF Sure, Apart
      <4>2. Fits(q) /\ ~Locks(q, r)
        BY <1>1, <3>1 DEF Order, OneLock
      <4>3. \A t \in req[q].todo : t.row # r
        BY <4>1, <4>2 DEF Works, Fits, Clash
      <4>4. Works(q, r) => OpOf[q] = "update"
        BY <2>2, <4>1, <4>2 DEF Works, Fits, Clash, Deletes, AtWork
      <4>5. Works(q, r) => req[q].pc = "write"
        BY <4>2, <4>4 DEF Works, Fits, Locks, AtWork, Deletes
      <4> QED BY <4>3, <4>4, <4>5
    <3>7. ASSUME NEW q \in Request \ {p} PROVE Part(q, r)'
      <4>1. req'[q] = req[q]
        BY <1>2
      <4>2. Works(q, r)' <=> Works(q, r)
        BY <4>1 DEF Works
      <4>3. Alive(r)'
        BY <3>4 DEF Alive, NoRow
      <4>4. Works(q, r) => Holds(q, r)'
        BY <3>4, <3>6, <4>1 DEF Holds
      <4> QED BY <3>6, <4>1, <4>2, <4>3, <4>4 DEF Part
    <3>8. ~Works(p, r)' /\ Part(p, r)'
      BY <2>2, PartOver
    <3>9. Apart(r)'
      <4>1. \A q \in Request \ {p} : Works(q, r)' <=> Works(q, r)
        BY <1>2 DEF Works
      <4> QED BY <1>1, <3>8, <4>1 DEF Apart, Sure
    <3> QED BY <3>5, <3>7, <3>8, <3>9 DEF Sure
  <2> QED BY <2>3, <2>4
<1>7. CASE Erase(p)
  <2>1. /\ tx' = [tx EXCEPT ![req[p].row] = NoRow]
        /\ pairs' = IF Alive(req[p].row) \/ OpOf[p] = "push_delete"
                    THEN pairs \ req[p].held ELSE pairs
    BY <1>7 DEF Erase
  <2>2. req[p].pc = "erase" /\ Finish(p) /\ OpOf[p] \in Deletes
    BY <1>1, <1>7 DEF Erase, Fits
  <2>3. CASE r # req[p].row
    <3>1. tx'[r] = tx[r] /\ Own(r)' = Own(r)
      BY <1>1, <2>1, <2>3 DEF Own, OwnWork
    <3> QED BY <1>1, <2>2, <3>1, EndsElsewhere
  <2>4. CASE r = req[p].row
    <3>1. Works(p, r)
      BY <2>2, <2>4 DEF Works, AtWork, Deletes
    <3>2. Alive(r) => req[p].held = Own(r)
      BY <1>1, <2>2, <3>1 DEF Part, Holds, Deletes
    <3>3. ~Alive(r) => Own(r) = {}
      BY <1>1, AgreesIs DEF Sure, Alive, NoRow
    <3>4. Own(r)' = {}
      BY <2>1, <2>4, <3>2, <3>3 DEF Own
    <3>5. tx'[r] = NoRow
      BY <1>1, <2>1, <2>4
    <3>6. Agrees(r)'
      BY <3>4, <3>5 DEF Agrees, Own, NoRow
    <3>7. ASSUME NEW q \in Request \ {p}
          PROVE  /\ Works(q, r) => OpOf[q] \in Deletes
                 /\ \A t \in req[q].todo : t.row # r
      <4>1. Works(q, r) => ~Clash(OpOf[p], OpOf[q])
        BY <1>1, <3>1 DEF Sure, Apart
      <4>2. Fits(q)
        BY <1>1 DEF Order
      <4>3. \A t \in req[q].todo : t.row # r
        BY <4>1, <4>2 DEF Works, Fits, Clash
      <4> QED BY <2>2, <4>1, <4>3 DEF Clash
    <3>8. ASSUME NEW q \in Request \ {p} PROVE Part(q, r)'
      <4>1. req'[q] = req[q]
        BY <1>2
      <4>2. Works(q, r)' <=> Works(q, r)
        BY <4>1 DEF Works
      <4>3. ~Alive(r)'
        BY <3>5 DEF Alive
      <4> QED BY <3>7, <4>1, <4>2, <4>3 DEF Part, Deletes
    <3>9. ~Works(p, r)' /\ Part(p, r)'
      BY <2>2, PartOver
    <3>10. Apart(r)'
      <4>1. \A q \in Request \ {p} : Works(q, r)' <=> Works(q, r)
        BY <1>2 DEF Works
      <4> QED BY <1>1, <3>9, <4>1 DEF Apart, Sure
    <3> QED BY <3>6, <3>8, <3>9, <3>10 DEF Sure
  <2> QED BY <2>3, <2>4
<1>8. CASE MigrateRow(p)
  <2>1. PICK t \in req[p].todo :
          /\ tx' = IF Alive(t.row) THEN [tx EXCEPT ![t.row].ledger = p] ELSE tx
          /\ pairs' = pairs \cup {[row |-> t.row, by |-> p, writer |-> p,
                                   content |-> t.content]}
          /\ req' = [req EXCEPT ![p].todo = @ \ {t}]
    BY <1>8 DEF MigrateRow
  <2>2. /\ OpOf[p] = "migrate" /\ t \in Todo
        /\ req'[p].todo = req[p].todo \ {t}
    BY <1>1, <2>1, ReqFields DEF Fits, Req
  <2>3. t.row \in Tx /\ t.content \in Content
    BY <2>2 DEF Todo
  <2>4. CASE r # t.row
    <3>1. tx'[r] = tx[r] /\ Own(r)' = Own(r)
      BY <1>1, <2>1, <2>4 DEF Own
    <3>2. Part(p, r)' /\ (Works(p, r)' => Works(p, r))
      BY <1>1, <2>2, <3>1 DEF Part, Works
    <3>3. \A q \in Request \ {p} : Works(p, r)' /\ Works(q, r) => ~Clash(OpOf[p], OpOf[q])
      BY <1>1, <3>2 DEF Sure, Apart
    <3> QED BY <1>1, <1>2, <3>1, <3>2, <3>3, SureStays
  <2>5. CASE r = t.row
    <3> DEFINE x == [row |-> r, by |-> p, writer |-> p, content |-> t.content]
    <3>1. tx[r] = [content |-> t.content, ledger |-> None]
      BY <1>1, <2>5 DEF Part
    <3>2. Alive(r)
      BY <2>3, <3>1 DEF Alive, NoRow
    <3>3. tx'[r] = [content |-> t.content, ledger |-> p]
      <4>1. tx'[r] = [tx[r] EXCEPT !.ledger = p]
        BY <1>1, <2>1, <2>5, <3>2
      <4> QED BY <3>1, <4>1
    <3>4. Own(r) = {}
      BY <1>1, <3>1, AgreesIs DEF Sure
    <3>5. Own(r)' = {x}
      BY <2>1, <2>5, <3>4 DEF Own
    <3>6. x.by = p /\ x.content = t.content /\ p # None
      OBVIOUS
    <3> HIDE DEF x
    <3>7. Agrees(r)'
      <4>1. tx'[r].ledger = p /\ tx'[r].content = t.content
        BY <3>3
      <4> QED BY <3>5, <3>6, <4>1, AgreesThen
    <3>8. ASSUME NEW u \in req[p].todo, u.row = r PROVE u = t
      <4>1. u \in Todo
        BY ReqFields
      <4>2. u.content = t.content
        <5>1. tx[r] = [content |-> u.content, ledger |-> None]
          BY <1>1, <3>8 DEF Part
        <5> QED BY <3>1, <5>1
      <4> QED BY <2>2, <2>5, <3>8, <4>1, <4>2 DEF Todo
    <3>9. Works(p, r)
      BY <2>2, <2>5 DEF Works
    <3>10. \A q \in Request \ {p} : Works(q, r) => ~Clash(OpOf[p], OpOf[q])
      BY <1>1, <3>9 DEF Sure, Apart
    <3>11. \A q \in Request \ {p} : ~Works(q, r)
      BY <2>2, <3>10 DEF Clash
    <3>12. \A q \in Request \ {p} : \A u \in req[q].todo : u.row # r
      BY <1>1, <3>11 DEF Works, Fits, Order
    <3>13. \A u \in req'[p].todo : u.row # r
      BY <2>2, <3>8
    <3>14. ~Works(p, r)'
      BY <2>2, <3>13 DEF Works
    <3> QED BY <1>2, <3>7, <3>11, <3>12, <3>13, <3>14, SureAlone
  <2> QED BY <2>4, <2>5
<1>9. Step(p) \/ Fail(p) => \/ UNCHANGED <<tx, pairs>>
                           \/ Create(p) \/ PushCreate(p)
                           \/ Repost(p) \/ Erase(p) \/ MigrateRow(p)
  BY DEF Step, Resolve, FindLink, LookupAccount, MakeAccount, LinkAccount,
         PushRepeated, ReadLedgerId, LockRow, Unpost, UnpostWaited, Migrate,
         Scan, LoadAccounts, SkipRow, MigrateDone, DeadlockVictim, Fail, tables
<1> QED BY <1>3, <1>4, <1>5, <1>6, <1>7, <1>8, <1>9

LEMMA BooksInit == Init => Books
<1> SUFFICES ASSUME Init PROVE Books
  OBVIOUS
<1> USE LedgerConstants
<1>1. PICK c \in Content :
        /\ tx = [q \in Tx |-> IF q \in Posted THEN [content |-> c, ledger |-> "self"]
                              ELSE IF q \in Legacy THEN [content |-> c, ledger |-> None]
                              ELSE NoRow]
        /\ pairs = {[row |-> q, by |-> "self", writer |-> "old", content |-> c] :
                      q \in Posted}
  BY DEF Init
<1>2. \A q \in Request : req[q].pc = "new" /\ req[q].todo = {}
  BY DEF Init, NewReq
<1>3. Order
  BY <1>1, <1>2 DEF Init, Order, UsedRows, Alive, OneLock, Locks, Fits, AtWork
<1>4. ASSUME NEW r \in Tx PROVE Agrees(r)
  <2>1. CASE r \in Posted
    <3> DEFINE x == [row |-> r, by |-> "self", writer |-> "old", content |-> c]
    <3>1. Own(r) = {x}
      BY <1>1, <2>1 DEF Own
    <3>2. x.by = "self" /\ x.content = c /\ tx[r] = [content |-> c, ledger |-> "self"]
      BY <1>1, <2>1
    <3>3. tx[r].ledger = "self" /\ tx[r].content = c
      BY <3>2
    <3> HIDE DEF x
    <3> QED BY <3>1, <3>2, <3>3, AgreesOne DEF None
  <2>2. CASE r \notin Posted
    <3>1. Own(r) = {} /\ tx[r].ledger = None
      BY <1>1, <2>2 DEF Own, NoRow
    <3> QED BY <3>1, AgreesIs
  <2> QED BY <2>1, <2>2
<1>5. \A r \in Tx, q \in Request : ~Works(q, r) /\ Part(q, r)
  BY <1>2 DEF Works, Part, AtWork
<1> QED BY <1>3, <1>4, <1>5 DEF Books, Sure, Apart

\* The books of a transaction agree at every moment, whatever creates,
\* updates, deletes, pushes and failures meet, unless a migration met another
\* request on it or a delete met an update or a create.
THEOREM BooksAgreeUnlessRaced == Spec => []AgreeUnlessRaced
<1>1. TypeOK /\ OwnRows /\ Books /\ [Next]_vars => Books'
  <2> SUFFICES ASSUME TypeOK, OwnRows, Books, [Next]_vars PROVE Books'
    OBVIOUS
  <2>1. CASE Next
    <3>1. PICK p \in Request : Step(p) \/ Fail(p)
      BY <2>1 DEF Next
    <3>2. Order'
      BY <3>1, OrderStep DEF Books
    <3> QED BY <3>1, <3>2, BooksStep DEF Books
  <2>2. CASE UNCHANGED vars
    BY <2>2 DEF vars, tables, Books, Order, UsedRows, Alive, OneLock, Locks, Fits,
       Sure, Apart, Part, Holds, Works, Agrees, Own
  <2> QED BY <2>1, <2>2
<1>2. Books => AgreeUnlessRaced
  BY DEF Books, Sure, AgreeUnlessRaced
<1> QED BY <1>1, <1>2, TypeInit, OwnInit, BooksInit, TypedStep, PTL DEF Spec

\* Where no migration meets another request and no delete anything but deletes,
\* as with any number of creates and updates, the books always agree.
THEOREM PeacefulBooks ==
  ASSUME \A p, q \in Request : p # q => ~Clash(OpOf[p], OpOf[q])
  PROVE  Spec => []BooksAgree
<1> DEFINE Peace == raced = {}
<1>1. Init => Peace
  BY DEF Init
<1>2. Peace /\ [Next]_vars => Peace'
  <2> SUFFICES ASSUME Peace, [Next]_vars PROVE Peace'
    OBVIOUS
  <2>1. ASSUME NEW p \in Request, NEW rows, Overlap(p, rows) PROVE Peace'
    BY <2>1 DEF Overlap
  <2>2. CASE Next
    <3>1. PICK p \in Request : Step(p) \/ Fail(p)
      BY <2>2 DEF Next
    <3>2. CASE UNCHANGED raced
      BY <3>2
    <3>3. CASE PushCreate(p) \/ Scan(p)
      BY <2>1, <3>3 DEF PushCreate, Scan
    <3>4. CASE ReadLedgerId(p)
      <4>1. PICK r \in used : Overlap(p, {r}) \/ UNCHANGED raced
        BY <3>4 DEF ReadLedgerId
      <4> QED BY <2>1, <4>1
    <3>5. UNCHANGED raced \/ PushCreate(p) \/ Scan(p) \/ ReadLedgerId(p)
      BY <3>1 DEF Step, Resolve, FindLink, LookupAccount, MakeAccount, LinkAccount,
         Create, PushRepeated, LockRow, Unpost, UnpostWaited, Repost, Erase, Migrate,
         LoadAccounts, MigrateRow, SkipRow, MigrateDone, DeadlockVictim, Fail
    <3> QED BY <3>2, <3>3, <3>4, <3>5
  <2>3. CASE UNCHANGED vars
    BY <2>3 DEF vars
  <2> QED BY <2>2, <2>3
<1>3. Peace /\ AgreeUnlessRaced => BooksAgree
  BY DEF AgreeUnlessRaced, BooksAgree
<1> QED BY <1>1, <1>2, <1>3, BooksAgreeUnlessRaced, PTL DEF Spec
=============================================================================
