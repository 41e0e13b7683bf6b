------------------------------ MODULE Installments ------------------------------
(***************************************************************************)
(* Installment plans under concurrent requests:                            *)
(*                                                                         *)
(*   backend/src/routes/installments.rs   create, generate, pay, delete    *)
(*   backend/src/routes/transactions.rs   split and delete                 *)
(*                                                                         *)
(* A step is one statement, or one database transaction, of a handler.     *)
(* What a handler has read before its transaction is in req.  There is one *)
(* plan, for a card.  The ledger entries of a transaction are written and  *)
(* deleted with it (LedgerPosting).                                        *)
(***************************************************************************)
EXTENDS BillingCycle, FiniteSets

CONSTANTS
  N,          \* installments of the plan
  PlanTotal,  \* its amount
  Start,      \* its first due date
  Request,    \* the requests that arrive, each once
  Mixes,      \* which handlers may take them
  Dates,      \* the days on which something happens
  MaxFaults   \* bound: statements that fail, requests that are dropped

None == "none"

PlanOps == {"create", "split", "generate", "pay", "delete_plan", "delete_tx"}
CardOps == {"purchase", "pay_bill", "anticipate"}

ASSUME InstallmentConstants ==
  /\ N \in Nat \ {0}
  /\ PlanTotal \in Nat \ {0}
  /\ IsDate(Start)
  /\ None \notin Request
  /\ IsFiniteSet(Request)
  /\ Mixes \subseteq [Request -> PlanOps \cup CardOps]
  /\ \A d \in Dates : IsDate(d)
  /\ MaxFaults \in Nat

VARIABLES
  plan,      \* the row of installment_plans: not yet there, live, gone
  rows,      \* its installment_transactions
  tx,        \* table transactions: the card's expenses
  batches,   \* installment_anticipations with their items
  today,
  kind,      \* kind[p]: the handler that takes request p
  req,       \* the requests
  faults,    \* faults so far
  raced      \* history: installments on which dangerous requests overlapped

planVars == <<plan, rows, tx, batches, today, kind, req, faults, raced>>

------------------------------------------------------------------------------
(* Values *)

Number == 1..N

\* The transaction made by request p for installment n is <<p, n>>; 0 is none
\* of them, a purchase.  An amount of 0 stands for no transaction.
TxId == Request \X (0..N)
NoId == <<None, 0>>
Tx   == [date : Date, amount : Nat, plan : BOOLEAN]
NoTx == [date |-> Start, amount |-> 0, plan |-> FALSE]

\* A bill is known by its period_end.
NoBill == [month |-> 0, day |-> 0]

\* An installment: status, transaction_id, anticipated_bill_id.
Row     == [status : {"gone", "pending", "generated", "paid"},
            tx : TxId \cup {NoId}, bill : Date \cup {NoBill}]
NoRow   == [status |-> "gone", tx |-> NoId, bill |-> NoBill]
Pending == [NoRow EXCEPT !.status = "pending"]

\* A request: what it does next, the installments still to do, those read with
\* their transaction and amount, the card's closing day and the day, the bill read.
Steps == {"new", "rows", "check", "post", "erase", "charge", "settle", "done"}
Seen   == [tx : TxId \cup {NoId}, amount : Nat]
Unseen == [n \in {} |-> NoId]
NewReq == [pc |-> "new", todo |-> {}, seen |-> Unseen, closing |-> 0, day |-> Start,
           bill |-> NoBill, paid |-> 0, total |-> 0]
Over   == [NewReq EXCEPT !.pc = "done"]

Finish(p) == req' = [req EXCEPT ![p] = Over]

HasRow(n) == rows[n].status # "gone"
Live(t)   == t # NoId /\ tx[t].amount > 0

Of(n, t, a) == [m \in {n} |-> [tx |-> t, amount |-> a]]

Due(n) == AddMonths(Start, n - 1)

\* total_amount / installments, as the column stores it.
InstallmentAmount == RoundHalfUp(PlanTotal, N)

\* What the INSERT of an installment's transaction needs: the plan and a positive
\* amount.
CanPost == plan = "live" /\ InstallmentAmount > 0

Expense(d, a) == [date |-> d, amount |-> a, plan |-> TRUE]

\* anticipation_items refer to the row, which cannot be deleted then.
HasItems(n) == \E b \in batches : n \in DOMAIN b.items

\* An installment is raced when two requests at a time have found it unposted,
\* or its transaction and row are deleted while a request is at work on it.
Unposted(q, n) == n \in DOMAIN req[q].seen /\ req[q].seen[n].tx = NoId

Watch ==
  raced' = raced \cup {n \in Number :
    \/ \E p, q \in Request : p # q /\ Unposted(p, n)' /\ Unposted(q, n)'
    \/ /\ HasRow(n) /\ ~HasRow(n)' /\ plan' = "live"
       /\ \E q \in Request : n \in req[q].todo \cup DOMAIN req[q].seen}

------------------------------------------------------------------------------
(* A plan: create_installment_plan, or create_transaction with a number of  *)
(* installments.                                                            *)

CreatePlan(p) ==
  /\ kind[p] = "create"
  /\ req[p].pc = "new"
  /\ plan = "none"
  /\ plan' = "live"
  /\ req' = [req EXCEPT ![p].pc = "rows", ![p].todo = Number]
  /\ UNCHANGED <<rows, tx, batches, today, kind, faults>>

\* One INSERT after the other; an error is ignored.
InsertRow(p) ==
  /\ req[p].pc = "rows"
  /\ \E n \in req[p].todo :
       /\ \A m \in req[p].todo : n <= m
       /\ IF req[p].todo = {n} THEN Finish(p)
          ELSE req' = [req EXCEPT ![p].todo = @ \ {n}]
       /\ \/ /\ plan = "live"
             /\ rows' = [rows EXCEPT ![n] = Pending]
             /\ UNCHANGED faults
          \/ /\ plan = "gone" /\ UNCHANGED <<rows, faults>>
          \/ /\ faults < MaxFaults /\ faults' = faults + 1
             /\ UNCHANGED rows
  /\ UNCHANGED <<plan, tx, batches, today, kind>>

\* Mutant: every part is rounded.
PartRounded(n) == RoundHalfEven(PlanTotal, N)

\* The last part takes what the rounding of the others leaves.
Part(n) ==
  LET per == RoundHalfEven(PlanTotal, N)
  IN IF n = N THEN PlanTotal - per * (N - 1) ELSE per

\* All in one transaction, refused unless every amount is positive.
SplitPlan(p) ==
  /\ kind[p] = "split"
  /\ req[p].pc = "new"
  /\ plan = "none"
  /\ IF \A n \in Number : Part(n) > 0
     THEN /\ plan' = "live"
          /\ rows' = [n \in Number |-> [status |-> "generated", tx |-> <<p, n>>,
                                        bill |-> NoBill]]
          /\ tx' = [t \in TxId |-> IF t[1] = p /\ t[2] \in Number
                                   THEN Expense(Due(t[2]), Part(t[2])) ELSE tx[t]]
     ELSE UNCHANGED <<plan, rows, tx>>
  /\ Finish(p)
  /\ UNCHANGED <<batches, today, kind, faults>>

------------------------------------------------------------------------------
(* generate_installments *)

Scan(p) ==
  /\ kind[p] = "generate"
  /\ req[p].pc = "new"
  /\ plan # "none"
  /\ req' = [req EXCEPT ![p].pc = "check",
       ![p].todo = {n \in Number : /\ HasRow(n)
                                   /\ rows[n].status = "pending"
                                   /\ rows[n].bill = NoBill
                                   /\ NotAfter(Due(n), today)}]
  /\ UNCHANGED <<plan, rows, tx, batches, today, kind, faults>>

\* Mutant: the row's transaction is not looked at again.
CheckNothing(p) ==
  /\ kind[p] = "generate"
  /\ req[p].pc = "check"
  /\ IF req[p].todo = {} THEN Finish(p)
     ELSE \E n \in req[p].todo :
            /\ \A m \in req[p].todo : n <= m
            /\ req' = [req EXCEPT ![p].pc = "post", ![p].todo = @ \ {n},
                 ![p].seen = Of(n, NoId, InstallmentAmount)]
  /\ UNCHANGED <<plan, rows, tx, batches, today, kind, faults>>

\* Each row is looked at again; one that is gone counts as unposted.
Check(p) ==
  /\ kind[p] = "generate"
  /\ req[p].pc = "check"
  /\ IF req[p].todo = {} THEN Finish(p)
     ELSE \E n \in req[p].todo :
            /\ \A m \in req[p].todo : n <= m
            /\ IF HasRow(n) /\ rows[n].tx # NoId
               THEN req' = [req EXCEPT ![p].todo = @ \ {n}]
               ELSE /\ req' = [req EXCEPT ![p].pc = "post", ![p].todo = @ \ {n},
                         ![p].seen = Of(n, NoId, InstallmentAmount)]
  /\ UNCHANGED <<plan, rows, tx, batches, today, kind, faults>>

\* UPDATE installment_transactions, if the row is still there.
SetRow(n, t, status) ==
  rows' = IF HasRow(n) THEN [rows EXCEPT ![n].tx = t, ![n].status = status] ELSE rows

\* The transaction, the link and COMMIT.
PostGenerated(p) ==
  /\ kind[p] = "generate"
  /\ req[p].pc = "post"
  /\ \E n \in DOMAIN req[p].seen :
       IF CanPost
       THEN /\ tx' = [tx EXCEPT ![<<p, n>>] = Expense(Due(n), InstallmentAmount)]
            /\ SetRow(n, <<p, n>>, "generated")
            /\ req' = [req EXCEPT ![p].pc = "check", ![p].seen = Unseen]
       ELSE Finish(p) /\ UNCHANGED <<tx, rows>>
  /\ UNCHANGED <<plan, batches, today, kind, faults>>

------------------------------------------------------------------------------
(* pay_installment *)

ReadInstallment(p) ==
  /\ kind[p] = "pay"
  /\ req[p].pc = "new"
  /\ plan # "none"
  /\ \E n \in Number :
       IF HasRow(n) /\ rows[n].bill = NoBill
       THEN /\ req' = [req EXCEPT ![p].pc = "post",
                 ![p].seen = Of(n, rows[n].tx, InstallmentAmount)]
       ELSE Finish(p)
  /\ UNCHANGED <<plan, rows, tx, batches, today, kind, faults>>

\* Mutant: the transaction that is there is not reused.
PayAnew(p) ==
  /\ kind[p] = "pay"
  /\ req[p].pc = "post"
  /\ \E n \in DOMAIN req[p].seen :
       IF CanPost
       THEN /\ tx' = [tx EXCEPT ![<<p, n>>] = Expense(Due(n), InstallmentAmount)]
            /\ SetRow(n, <<p, n>>, "paid")
       ELSE UNCHANGED <<tx, rows>>
  /\ Finish(p)
  /\ UNCHANGED <<plan, batches, today, kind, faults>>

\* The transaction read is reused if it still exists, else made.
PostPaid(p) ==
  /\ kind[p] = "pay"
  /\ req[p].pc = "post"
  /\ \E n \in DOMAIN req[p].seen :
       CASE Live(req[p].seen[n].tx) ->
              SetRow(n, req[p].seen[n].tx, "paid") /\ UNCHANGED tx
         [] ~Live(req[p].seen[n].tx) /\ CanPost ->
              /\ tx' = [tx EXCEPT ![<<p, n>>] = Expense(Due(n), InstallmentAmount)]
              /\ SetRow(n, <<p, n>>, "paid")
         [] OTHER -> UNCHANGED <<tx, rows>>
  /\ Finish(p)
  /\ UNCHANGED <<plan, batches, today, kind, faults>>

------------------------------------------------------------------------------
(* delete_installment_plan and delete_transaction *)

\* The transactions lose their link; an error is ignored.
UnlinkPlan(p) ==
  /\ kind[p] = "delete_plan"
  /\ req[p].pc = "new"
  /\ plan # "none"
  /\ \/ /\ tx' = [t \in TxId |-> IF Live(t) THEN [tx[t] EXCEPT !.plan = FALSE] ELSE tx[t]]
        /\ UNCHANGED faults
     \/ faults < MaxFaults /\ faults' = faults + 1 /\ UNCHANGED tx
  /\ req' = [req EXCEPT ![p].pc = "erase"]
  /\ UNCHANGED <<plan, rows, batches, today, kind>>

\* Its rows go with it, unless something refers to either of them.
ErasePlan(p) ==
  /\ req[p].pc = "erase"
  /\ IF \/ plan = "gone"
        \/ \E t \in TxId : Live(t) /\ tx[t].plan
        \/ \E n \in Number : HasItems(n)
     THEN UNCHANGED <<plan, rows>>
     ELSE plan' = "gone" /\ rows' = [n \in Number |-> NoRow]
  /\ Finish(p)
  /\ UNCHANGED <<tx, batches, today, kind, faults>>

\* Mutant: the installment's row is kept.
DeleteTxOnly(p) ==
  /\ kind[p] = "delete_tx"
  /\ req[p].pc = "new"
  /\ \E t \in TxId :
       /\ Live(t)
       /\ tx' = [tx EXCEPT ![t] = NoTx]
  /\ Finish(p)
  /\ UNCHANGED <<plan, rows, batches, today, kind, faults>>

\* The installment's row goes first, unless it has items.
DeleteTx(p) ==
  /\ kind[p] = "delete_tx"
  /\ req[p].pc = "new"
  /\ \E t \in TxId :
       /\ Live(t)
       /\ IF \E n \in Number : HasRow(n) /\ rows[n].tx = t /\ HasItems(n)
          THEN UNCHANGED <<rows, tx>>
          ELSE /\ rows' = [n \in Number |-> IF HasRow(n) /\ rows[n].tx = t THEN NoRow
                                            ELSE rows[n]]
               /\ tx' = [tx EXCEPT ![t] = NoTx]
  /\ Finish(p)
  /\ UNCHANGED <<plan, batches, today, kind, faults>>

------------------------------------------------------------------------------
(* Everything the plan does without the card. *)

\* A statement fails, or the request is dropped with its open transaction.
Fail(p) ==
  /\ req[p].pc \notin {"new", "done"}
  /\ faults < MaxFaults
  /\ faults' = faults + 1
  /\ Finish(p)
  /\ UNCHANGED <<plan, rows, tx, batches, today, kind>>

DayPasses ==
  /\ \E d \in Dates : Before(today, d) /\ today' = d
  /\ UNCHANGED <<plan, rows, tx, batches, kind, req, faults, raced>>

PlanInit ==
  /\ plan = "none"
  /\ rows = [n \in Number |-> NoRow]
  /\ tx = [t \in TxId |-> NoTx]
  /\ batches = {}
  /\ today \in Dates
  /\ \A d \in Dates : NotAfter(today, d)
  /\ kind \in Mixes
  /\ req = [p \in Request |-> NewReq]
  /\ faults = 0
  /\ raced = {}

PlanStep(p) ==
  \/ CreatePlan(p) \/ InsertRow(p) \/ SplitPlan(p)
  \/ Scan(p) \/ Check(p) \/ PostGenerated(p)
  \/ ReadInstallment(p) \/ PostPaid(p)
  \/ UnlinkPlan(p) \/ ErasePlan(p) \/ DeleteTx(p)
  \/ Fail(p)
=============================================================================
