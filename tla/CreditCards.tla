------------------------------ MODULE CreditCards ------------------------------
(***************************************************************************)
(* Credit cards: purchases, bills and their payment, anticipation of        *)
(* installments (backend/src/routes/credit_cards.rs), together with the     *)
(* plan of Installments.                                                    *)
(*                                                                         *)
(* There is one card.  What a bill has to charge is not stored: it is the   *)
(* sum of the card's expenses in its period.                                *)
(***************************************************************************)
EXTENDS Installments, Functions

CONSTANTS
  Closing,    \* closing days the card may have
  DueDay,     \* its due day
  Amounts,    \* what a purchase may cost
  Discounts   \* discounts of an anticipation

ASSUME CardConstants ==
  /\ Closing \subseteq 1..31
  /\ DueDay \in 1..31
  /\ Amounts \subseteq Nat \ {0}
  /\ Discounts \subseteq Nat

VARIABLES
  closing,    \* accounts.closing_day
  bills,      \* card_bills, by period_end
  payments,   \* ledger pairs of payments: request, bill, amount
  reset,      \* history: the closing day was changed
  crossed,    \* history: bills with payments that overlapped
  late        \* history: bills that grew when paid or while being paid

cardVars == <<closing, bills, payments, reset, crossed, late>>
vars     == <<planVars, cardVars>>

Bill == [start : Date, end : Date, due : Date, status : {"open", "paid"}, paid : Nat]

\* The sum that fetch_bill_by_id computes, of the expenses in the period.
Expenses(table, b) == {t \in TxId : table[t].amount > 0 /\ Covers(b, table[t].date)}
TotalIn(table, b)  == SumFunction([t \in Expenses(table, b) |-> table[t].amount])
Total(b)           == TotalIn(tx, b)
Remaining(b)       == Total(b) - b.paid

\* upsert_bill: the bill of the cycle that contains d.
UpsertBill(c, d) ==
  LET cycle == CycleForDate(c, DueDay, d)
      end   == cycle.end
  IN bills' = [e \in DOMAIN bills \cup {end} |->
                 IF e # end THEN bills[e]
                 ELSE [start |-> cycle.start, end |-> end, due |-> cycle.due,
                       status |-> IF end \in DOMAIN bills THEN bills[end].status ELSE "open",
                       paid |-> IF end \in DOMAIN bills THEN bills[end].paid ELSE 0]]

Paying(e) == \E q \in Request : req[q].pc = "settle" /\ req[q].bill = e

\* The bills that grow by a step although their remainder was taken for known.
Grow ==
  late' = late \cup {e \in DOMAIN bills :
             /\ bills[e].status = "paid" \/ Paying(e)
             /\ TotalIn(tx', bills'[e]) > Total(bills[e])}

------------------------------------------------------------------------------
(* create_card_purchase *)

ReadCard(p) ==
  /\ kind[p] = "purchase"
  /\ req[p].pc = "new"
  /\ req' = [req EXCEPT ![p].pc = "charge", ![p].closing = closing]
  /\ UNCHANGED <<plan, rows, tx, batches, today, kind, faults, cardVars>>

Purchase(p) ==
  /\ kind[p] = "purchase"
  /\ req[p].pc = "charge"
  /\ \E d \in Dates, a \in Amounts :
       /\ tx' = [tx EXCEPT ![<<p, 0>>] = [date |-> d, amount |-> a, plan |-> FALSE]]
       /\ UpsertBill(req[p].closing, d)
  /\ Finish(p)
  /\ UNCHANGED <<plan, rows, batches, today, kind, faults, closing, payments, reset, crossed>>

------------------------------------------------------------------------------
(* pay_card_bill *)

\* The bill is read with its sum; the amount is checked against that.
ReadBill(p) ==
  /\ kind[p] = "pay_bill"
  /\ req[p].pc = "new"
  /\ \E e \in DOMAIN bills :
       IF Remaining(bills[e]) > 0
       THEN /\ req' = [req EXCEPT ![p].pc = "settle", ![p].bill = e,
                                  ![p].paid = bills[e].paid, ![p].total = Total(bills[e])]
            /\ crossed' = IF Paying(e) THEN crossed \cup {e} ELSE crossed
       ELSE Finish(p) /\ UNCHANGED crossed
  /\ UNCHANGED <<plan, rows, tx, batches, today, kind, faults, closing, bills, payments,
                 reset, late>>

\* Mutant: the amount is not added to what was paid before.
PayBillReset(p) ==
  /\ req[p].pc = "settle"
  /\ \E a \in {1, req[p].total - req[p].paid} :
       /\ payments' = payments \cup {[by |-> p, bill |-> req[p].bill, amount |-> a]}
       /\ bills' = [bills EXCEPT ![req[p].bill].paid = a,
                                 ![req[p].bill].status =
                                    IF a >= req[p].total THEN "paid" ELSE "open"]
  /\ Finish(p)
  /\ UNCHANGED <<plan, rows, tx, batches, today, kind, faults, closing, reset, crossed, late>>

\* Mutant: any payment settles the bill.
PayBillAny(p) ==
  /\ req[p].pc = "settle"
  /\ \E a \in {1, req[p].total - req[p].paid} :
       /\ payments' = payments \cup {[by |-> p, bill |-> req[p].bill, amount |-> a]}
       /\ bills' = [bills EXCEPT ![req[p].bill].paid = req[p].paid + a,
                                 ![req[p].bill].status = "paid"]
  /\ Finish(p)
  /\ UNCHANGED <<plan, rows, tx, batches, today, kind, faults, closing, reset, crossed, late>>

\* The transfer is posted; paid_amount and status are set from what was read.
PayBill(p) ==
  /\ req[p].pc = "settle"
  /\ \E a \in {1, req[p].total - req[p].paid} :
       /\ payments' = payments \cup {[by |-> p, bill |-> req[p].bill, amount |-> a]}
       /\ bills' = [bills EXCEPT ![req[p].bill].paid = req[p].paid + a,
                                 ![req[p].bill].status =
                                    IF req[p].paid + a >= req[p].total THEN "paid" ELSE "open"]
  /\ Finish(p)
  /\ UNCHANGED <<plan, rows, tx, batches, today, kind, faults, closing, reset, crossed, late>>

------------------------------------------------------------------------------
(* anticipate_installments *)

AmountOf(n) == IF Live(rows[n].tx) THEN tx[rows[n].tx].amount ELSE InstallmentAmount

MayAnticipate(n) ==
  /\ HasRow(n)
  /\ rows[n].bill = NoBill
  /\ rows[n].status # "paid"
  /\ Before(today, IF Live(rows[n].tx) THEN tx[rows[n].tx].date ELSE Due(n))

ReadInstallments(p) ==
  /\ kind[p] = "anticipate"
  /\ req[p].pc = "new"
  /\ plan # "none"
  /\ \E ns \in SUBSET Number \ {{}} :
       IF \A n \in ns : MayAnticipate(n)
       THEN /\ req' = [req EXCEPT ![p].pc = "charge", ![p].closing = closing, ![p].day = today,
                 ![p].seen = [n \in ns |-> [tx |-> rows[n].tx, amount |-> AmountOf(n)]]]
       ELSE Finish(p)
  /\ UNCHANGED <<plan, rows, tx, batches, today, kind, faults, cardVars>>

\* The transaction of n after p: the one that was there, or a new one.
TxFor(p, n) == IF req[p].seen[n].tx = NoId THEN <<p, n>> ELSE req[p].seen[n].tx

Gross(p) == SumFunction([n \in DOMAIN req[p].seen |-> req[p].seen[n].amount])

\* The discount is spread in proportion, each share rounded to cents.
Share(p, n, net) == RoundHalfEven(req[p].seen[n].amount * net, Gross(p))

\* What the statements of the transaction need: rows and transactions that are
\* still there, the plan for a new one, positive amounts.
CanAnticipate(p, net) ==
  \A n \in DOMAIN req[p].seen :
    /\ HasRow(n)
    /\ IF req[p].seen[n].tx = NoId THEN plan = "live" ELSE Live(req[p].seen[n].tx)
    /\ Share(p, n, net) > 0

\* The expenses move to the bill of the day, at the discounted amounts.
Anticipate(p) ==
  /\ kind[p] = "anticipate"
  /\ req[p].pc = "charge"
  /\ \E discount \in Discounts :
       LET net == Gross(p) - discount
           ns  == DOMAIN req[p].seen
           end == CycleForDate(req[p].closing, DueDay, req[p].day).end
       IN IF discount < Gross(p) /\ CanAnticipate(p, net)
          THEN /\ UpsertBill(req[p].closing, req[p].day)
               /\ tx' = [t \in TxId |->
                           IF \E n \in ns : t = TxFor(p, n)
                           THEN LET n == CHOOSE n \in ns : t = TxFor(p, n)
                                IN [date |-> req[p].day, amount |-> Share(p, n, net),
                                    plan |-> IF t[1] = p THEN TRUE ELSE tx[t].plan]
                           ELSE tx[t]]
               /\ rows' = [n \in Number |->
                             IF n \in ns THEN [rows[n] EXCEPT !.tx = TxFor(p, n), !.bill = end]
                             ELSE rows[n]]
               /\ batches' = batches \cup
                    {[by |-> p, net |-> net, items |-> [n \in ns |-> Share(p, n, net)]]}
          ELSE UNCHANGED <<bills, tx, rows, batches>>
  /\ Finish(p)
  /\ UNCHANGED <<plan, today, kind, faults, closing, payments, reset, crossed>>

------------------------------------------------------------------------------
(* The specification. *)

\* update_account
ChangeClosing ==
  /\ \E c \in Closing \ {closing} : closing' = c
  /\ reset' = TRUE
  /\ UNCHANGED <<planVars, bills, payments, crossed, late>>

Init ==
  /\ PlanInit
  /\ closing \in Closing
  /\ bills = [e \in {} |-> NoBill]
  /\ payments = {}
  /\ reset = FALSE
  /\ crossed = {}
  /\ late = {}

PlanPart(p) == PlanStep(p) /\ UNCHANGED <<closing, bills, payments, reset, crossed>> /\ Grow

CardPart(p) ==
  \/ ReadCard(p) \/ ReadBill(p) \/ PayBill(p) \/ ReadInstallments(p)
  \/ (Purchase(p) \/ Anticipate(p)) /\ Grow

Next ==
  \/ \E p \in Request : (PlanPart(p) \/ CardPart(p)) /\ Watch
  \/ DayPasses /\ UNCHANGED cardVars
  \/ ChangeClosing

Spec == Init /\ [][Next]_vars

------------------------------------------------------------------------------
(* Properties. *)

\* The variables hold what they are described to hold; dates exist.
TypeOK ==
  /\ plan \in {"none", "live", "gone"}
  /\ rows \in [Number -> Row]
  /\ tx \in [TxId -> Tx]
  /\ \A t \in TxId : IsDate(tx[t].date)
  /\ today \in Dates
  /\ \A p \in Request : req[p].pc \in Steps
  /\ kind \in Mixes
  /\ faults \in 0..MaxFaults
  /\ raced \subseteq Number
  /\ closing \in Closing
  /\ \A e \in DOMAIN bills : bills[e] \in Bill /\ bills[e].end = e /\ IsDate(e)
  /\ \A x \in payments : x.bill \in DOMAIN bills /\ x.amount > 0

\* What has been charged for installment n.
Charges(n) == {t \in TxId : t[2] = n /\ Live(t)}

\* An installment is charged once, whatever generates, pays, anticipates or
\* deletes it, and its row says by which transaction; unless two requests
\* looked at it before either had charged it.
ChargedOnce ==
  \A n \in Number \ raced :
    IF HasRow(n) THEN Charges(n) = {rows[n].tx} \ {NoId} ELSE Cardinality(Charges(n)) <= 1

\* A paid installment is not taken back to a generated one.
PaidStays ==
  [][\A n \in Number \ raced : rows[n].status = "paid" =>
       rows'[n].status \in {"paid", "gone"}]_vars

\* The parts of a split purchase add up to its amount, to the cent.
SplitAddsUp ==
  \A p \in Request :
    (kind[p] = "split" /\ batches = {} /\ \A n \in Number : Live(<<p, n>>)) =>
      SumFunction([n \in Number |-> tx[<<p, n>>].amount]) = PlanTotal

\* An anticipated installment is on the bill it was moved to.
AnticipatedOnBill ==
  \A n \in Number \ raced :
    (rows[n].bill # NoBill /\ ~reset) =>
      /\ rows[n].bill \in DOMAIN bills
      /\ Live(rows[n].tx)
      /\ rows[n].tx \in Expenses(tx, bills[rows[n].bill])

\* No expense is on two bills, and a purchase is on one, as long as the card
\* keeps its closing day.
OnOneBill ==
  ~reset => \A t \in TxId : Live(t) =>
    LET on == {e \in DOMAIN bills : Covers(bills[e], tx[t].date)}
    IN Cardinality(on) <= 1 /\ (t[2] = 0 => on # {})

\* What a bill counts as paid is what was transferred for it, unless payments
\* overlapped.
PaidIsPosted ==
  \A e \in DOMAIN bills \ crossed :
    bills[e].paid = SumFunction([x \in {x \in payments : x.bill = e} |-> x.amount])

\* A bill that counts as paid has nothing left to pay, unless it grew when it
\* was paid or being paid.
PaidMeansSettled ==
  \A e \in DOMAIN bills \ late :
    bills[e].status = "paid" /\ ~reset => Remaining(bills[e]) <= 0
=============================================================================
