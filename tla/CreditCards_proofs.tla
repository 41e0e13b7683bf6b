-------------------------- MODULE CreditCards_proofs --------------------------
(***************************************************************************)
(* Proofs about CreditCards.                                               *)
(*                                                                         *)
(* An installment that no two requests found unposted together is charged  *)
(* by the transaction its row names and by no other, because what each     *)
(* request has read of it is still so (Sole).  Bills are cycles of one     *)
(* closing day, so no two have a day in common (Billed).  What a payment   *)
(* read of a bill bounds what the bill comes to count as paid (Settled),   *)
(* and is what it counts as paid until that payment ends (Posted).         *)
(***************************************************************************)
EXTENDS CreditCards, SequenceLemmas, TLAPS

------------------------------------------------------------------------------
(* The invariant. *)

\* A request as Installments describes it.
Seeing  == UNION {[ns -> Seen] : ns \in SUBSET Number}
ReqType == [pc : Steps, todo : SUBSET Number, seen : Seeing, closing : Int, day : Date,
            bill : Date \cup {NoBill}, paid : Nat, total : Nat]

Payment == [by : Request, bill : Date, amount : Nat \ {0}]

\* What a request of kind k holds fits what it is about to do, the bills being
\* known ones.
Suits(k, r, known) ==
  /\ IsDate(r.day)
  /\ r.pc = "charge" => r.closing \in Closing
  /\ r.pc = "settle" => r.bill \in known /\ r.paid < r.total
  /\ r.todo # {} => r.pc \in {"rows", "check", "post"}
  /\ DOMAIN r.seen # {} => r.pc \in {"post", "charge"}
  /\ k = "generate" => \A n \in DOMAIN r.seen : r.seen[n].tx = NoId

Typed ==
  /\ TypeOK
  /\ req \in [Request -> ReqType]
  /\ \A p \in Request : Suits(kind[p], req[p], DOMAIN bills)
  /\ bills \in [DOMAIN bills -> Bill] /\ DOMAIN bills \subseteq Date
  /\ payments \subseteq Payment /\ IsFiniteSet(payments)

\* The transactions that installment n can have.
TxOf(n) == {NoId} \cup (Request \X {n})

\* A row and what is read of it name a transaction of its installment; rows are
\* there with the plan alone, and one that is paid or anticipated is charged.
RowFits(n) ==
  /\ rows[n].tx \in TxOf(n)
  /\ ~HasRow(n) => rows[n] = NoRow
  /\ rows[n].status = "paid" \/ rows[n].bill # NoBill => rows[n].tx # NoId
  /\ HasRow(n) => plan = "live"
  /\ \A q \in Request : n \in DOMAIN req[q].seen => req[q].seen[n].tx \in TxOf(n)

\* One request makes the rows, each for the first time.
Creates(q) ==
  req[q].pc = "rows" =>
    /\ plan # "none"
    /\ \A r \in Request : req[r].pc = "rows" => r = q
    /\ \A n \in req[q].todo : ~HasRow(n)

RowsFit ==
  /\ \A n \in Number : RowFits(n)
  /\ plan = "none" =>
       /\ \A q \in Request : req[q].todo = {} /\ DOMAIN req[q].seen = {}
       /\ \A n \in Number : Charges(n) = {}
  /\ \A q \in Request : Creates(q)

\* What has been read of a live plan's installment is so still, and its row names
\* what was charged for it.
Current(n) ==
  /\ plan = "live" =>
       /\ Charges(n) = {rows[n].tx} \ {NoId}
       /\ \A q \in Request : n \in DOMAIN req[q].seen =>
            HasRow(n) /\ req[q].seen[n].tx = rows[n].tx
       /\ \A q \in Request : n \in req[q].todo /\ req[q].pc # "rows" => HasRow(n)
  /\ plan = "gone" => \A t, u \in Charges(n) : t = u

\* One request at a time is about to charge it.
Sole(n) ==
  /\ \A p, q \in Request : Unposted(p, n) /\ Unposted(q, n) => p = q
  /\ Current(n)

PlanFits == RowsFit /\ \A n \in Number \ raced : Sole(n)

\* A bill runs from one closing day to the next.
InCycle(e) ==
  /\ e = DateWithDay(e.month, closing)
  /\ bills[e].start = Succ(DateWithDay(e.month - 1, closing))

Cycles == \A e \in DOMAIN bills : InCycle(e)

\* What a request has read of the card is so still.
CardsRead == \A p \in Request : req[p].pc = "charge" => req[p].closing = closing

\* Every purchase is on a bill.
Bought ==
  \A q \in Request : Live(<<q, 0>>) =>
    \E e \in DOMAIN bills : Covers(bills[e], tx[<<q, 0>>].date)

\* An anticipated installment is on its bill.
OnBill(n) ==
  rows[n].bill # NoBill =>
    /\ rows[n].bill \in DOMAIN bills
    /\ Covers(bills[rows[n].bill], tx[rows[n].tx].date)

\* While the card keeps its closing day, the bills are its cycles and the
\* expenses on them stay there.
Billed ==
  /\ Cycles /\ CardsRead /\ Bought
  /\ \A n \in Number \ raced : OnBill(n)

Settling(q, e) == req[q].pc = "settle" /\ req[q].bill = e

\* What a payment has read of a bill that did not grow is no less than its sum.
Settled(e) ==
  /\ bills[e].status = "paid" => Total(bills[e]) <= bills[e].paid
  /\ \A q \in Request : Settling(q, e) => Total(bills[e]) <= req[q].total

AllSettled == \A e \in DOMAIN bills \ late : Settled(e)

PaidFor(e) == {x \in payments : x.bill = e}

\* One payment of e at a time, which adds to what was paid before.
Posted(e) ==
  /\ bills[e].paid = SumFunction([x \in PaidFor(e) |-> x.amount])
  /\ \A q \in Request : Settling(q, e) =>
       req[q].paid = bills[e].paid /\ \A r \in Request : Settling(r, e) => r = q

AllPosted == \A e \in DOMAIN bills \ crossed : Posted(e)

\* A payment is there when its request is done.
PayersDone == \A x \in payments : req[x.by].pc = "done"

\* The parts of a split are what they were computed to be.
Parts ==
  \A p \in Request : kind[p] = "split" /\ batches = {} =>
    \A n \in Number : Live(<<p, n>>) => tx[<<p, n>>].amount = Part(n)

IInv ==
  /\ Typed
  /\ PlanFits
  /\ ~reset => Billed
  /\ AllSettled /\ AllPosted /\ PayersDone
  /\ Parts

------------------------------------------------------------------------------
(* Dates and cycles. *)

LEMMA MonthLength ==
  ASSUME NEW m \in Int
  PROVE  DaysInMonth(m) \in 28..31
<1>1. m % 12 \in 0..11
  OBVIOUS
<1> QED
  BY <1>1 DEF DaysInMonth

\* The day asked for, or the last of the month, is a date of that month.
LEMMA DayOfMonth ==
  ASSUME NEW m \in Int, NEW day \in 1..31
  PROVE  /\ IsDate(DateWithDay(m, day))
         /\ DateWithDay(m, day) \in Date
         /\ DateWithDay(m, day).month = m
<1> DEFINE k == DaysInMonth(m)
<1>1. k \in 28..31
  BY MonthLength
<1> HIDE DEF k
<1>2. DateWithDay(m, day) = [month |-> m, day |-> IF day <= k THEN day ELSE k]
  BY DEF DateWithDay, k
<1>3. (IF day <= k THEN day ELSE k) \in 1..31 /\ (IF day <= k THEN day ELSE k) <= k
  BY <1>1
<1> QED
  BY <1>2, <1>3 DEF IsDate, Date, k

\* Nothing lies between a day and the next.
LEMMA NextDay ==
  ASSUME NEW d, IsDate(d)
  PROVE  /\ Succ(d) \in Date
         /\ \A x \in Date : IsDate(x) => (NotAfter(Succ(d), x) <=> Before(d, x))
<1> DEFINE k == DaysInMonth(d.month)
<1>1. d \in Date /\ d.month \in Int /\ d.day \in 1..31 /\ k \in 28..31 /\ d.day <= k
  BY MonthLength DEF IsDate, Date
<1> HIDE DEF k
<1>2. CASE d.day = k
  <2>1. Succ(d) = [month |-> d.month + 1, day |-> 1]
    BY <1>2 DEF Succ, k
  <2>2. Succ(d) \in Date
    BY <1>1, <2>1 DEF Date
  <2>3. ASSUME NEW x \in Date, IsDate(x)
        PROVE  NotAfter(Succ(d), x) <=> Before(d, x)
    <3>1. x.month \in Int /\ x.day \in 1..31 /\ (x.month = d.month => x.day <= k)
      BY <2>3 DEF IsDate, Date, k
    <3>2. x = d <=> x.month = d.month /\ x.day = d.day
      BY <1>1 DEF Date
    <3> QED BY <1>1, <1>2, <2>1, <3>1, <3>2 DEF NotAfter, Before
  <2> QED BY <2>2, <2>3
<1>3. CASE d.day # k
  <2>1. Succ(d) = [month |-> d.month, day |-> d.day + 1]
    BY <1>3 DEF Succ, k
  <2>2. Succ(d) \in Date
    BY <1>1, <1>3, <2>1 DEF Date
  <2>3. ASSUME NEW x \in Date
        PROVE  NotAfter(Succ(d), x) <=> Before(d, x)
    <3>1. x.month \in Int /\ x.day \in 1..31
      BY DEF Date
    <3>2. x = d <=> x.month = d.month /\ x.day = d.day
      BY <1>1 DEF Date
    <3> QED BY <1>1, <2>1, <3>1, <3>2 DEF NotAfter, Before
  <2> QED BY <2>2, <2>3
<1> QED
  BY <1>2, <1>3

\* The first such day from d on is a closing day, and d is after the one before.
LEMMA FirstFrom ==
  ASSUME NEW d, IsDate(d), NEW day \in 1..31
  PROVE  LET e == FirstOnOrAfter(d, day)
         IN /\ e \in Date /\ IsDate(e)
            /\ e = DateWithDay(e.month, day)
            /\ NotAfter(d, e)
            /\ Before(DateWithDay(e.month - 1, day), d)
<1> DEFINE this == DateWithDay(d.month, day)
           that == DateWithDay(d.month + 1, day)
           last == DateWithDay(d.month - 1, day)
<1>1. d \in Date /\ d.month \in Int /\ d.day \in 1..31
  BY DEF IsDate, Date
<1>2. /\ IsDate(this) /\ this \in Date /\ this.month = d.month
      /\ IsDate(that) /\ that \in Date /\ that.month = d.month + 1
      /\ IsDate(last) /\ last \in Date /\ last.month = d.month - 1
  <2>1. d.month - 1 \in Int /\ d.month + 1 \in Int
    BY <1>1
  <2> QED BY <1>1, <2>1, DayOfMonth
<1>3. this.day \in 1..31
  BY <1>2 DEF Date
<1>4. FirstOnOrAfter(d, day) = IF NotAfter(d, this) THEN this ELSE that
  BY DEF FirstOnOrAfter
<1>5. this = DateWithDay(this.month, day) /\ that = DateWithDay(that.month, day)
      /\ last = DateWithDay(this.month - 1, day) /\ this = DateWithDay(that.month - 1, day)
  <2>1. that.month - 1 = d.month
    BY <1>1, <1>2
  <2> QED BY <1>2, <2>1
<1> HIDE DEF this, that, last
<1>6. NotAfter(d, that) /\ Before(last, d)
  BY <1>1, <1>2 DEF NotAfter, Before
<1>7. ~NotAfter(d, this) => Before(this, d)
  BY <1>1, <1>2, <1>3 DEF NotAfter, Before
<1> QED
  BY <1>2, <1>4, <1>5, <1>6, <1>7

\* A cycle ends on the closing day, begins after the one before and has its day.
LEMMA CycleOf ==
  ASSUME NEW d, IsDate(d), NEW c \in 1..31
  PROVE  LET cycle == CycleForDate(c, DueDay, d)
             e     == cycle.end
         IN /\ e \in Date /\ IsDate(e) /\ cycle.start \in Date /\ cycle.due \in Date
            /\ e = DateWithDay(e.month, c)
            /\ cycle.start = Succ(DateWithDay(e.month - 1, c))
            /\ NotAfter(cycle.start, d) /\ NotAfter(d, e)
<1> DEFINE e == FirstOnOrAfter(d, c)
           before == DateWithDay(e.month - 1, c)
           due == FirstOnOrAfter(e, DueDay)
<1>1. /\ e \in Date /\ IsDate(e)
      /\ e = DateWithDay(e.month, c)
      /\ NotAfter(d, e)
      /\ Before(before, d)
  BY FirstFrom
<1>2. IsDate(before)
  <2>1. e.month - 1 \in Int
    BY <1>1 DEF Date
  <2> HIDE DEF e
  <2> QED BY <2>1, DayOfMonth
<1>3. Succ(before) \in Date /\ NotAfter(Succ(before), d)
  <2>1. d \in Date
    BY DEF IsDate
  <2> HIDE DEF before
  <2> QED BY <1>1, <1>2, <2>1, NextDay
<1>4. due \in Date
  <2> HIDE DEF e
  <2> QED BY <1>1, FirstFrom, CardConstants
<1>5. CycleForDate(c, DueDay, d) = [start |-> Succ(before), end |-> e, due |-> due]
  BY DEF CycleForDate
<1> HIDE DEF e, before, due
<1>6. before = DateWithDay(e.month - 1, c)
  BY DEF before
<1> QED
  BY <1>1, <1>3, <1>4, <1>5, <1>6

\* Two cycles of one closing day with a day in common are the same.
LEMMA CyclesApart ==
  ASSUME NEW c \in 1..31, NEW e \in Date, NEW f \in Date, NEW x \in Date, IsDate(x),
         e = DateWithDay(e.month, c), f = DateWithDay(f.month, c),
         NotAfter(Succ(DateWithDay(e.month - 1, c)), x), NotAfter(x, e),
         NotAfter(Succ(DateWithDay(f.month - 1, c)), x), NotAfter(x, f)
  PROVE  e = f
<1>1. ASSUME NEW u \in Date, NEW v \in Date, u = DateWithDay(u.month, c), NotAfter(x, u),
             NotAfter(Succ(DateWithDay(v.month - 1, c)), x), u.month < v.month
      PROVE  FALSE
  <2> DEFINE before == DateWithDay(v.month - 1, c)
  <2>1. u.month \in Int /\ v.month \in Int /\ x.month \in Int /\ u.day \in Int /\ x.day \in Int
    BY <1>1 DEF Date
  <2>2. IsDate(before) /\ before \in Date /\ before.month = v.month - 1
    <3>1. v.month - 1 \in Int
      BY <2>1
    <3> QED BY <3>1, DayOfMonth
  <2>3. Before(before, x)
    <3> HIDE DEF before
    <3>1. NotAfter(Succ(before), x)
      BY <1>1 DEF before
    <3> QED BY <2>2, <3>1, NextDay
  <2>4. before.month = u.month => before = u
    BY <1>1, <2>1, <2>2
  <2>5. before.day \in Int
    BY <2>2 DEF Date
  <2>6. before = x <=> before.month = x.month /\ before.day = x.day
    BY <2>2 DEF Date
  <2> HIDE DEF before
  <2> QED BY <1>1, <2>1, <2>2, <2>3, <2>4, <2>5, <2>6 DEF NotAfter, Before
<1>2. e.month \in Int /\ f.month \in Int
  BY DEF Date
<1>3. e.month = f.month
  BY <1>1, <1>2
<1> QED
  BY <1>3

LEMMA RoundedInt ==
  ASSUME NEW a \in Int, NEW b \in Nat \ {0}
  PROVE  RoundHalfEven(a, b) \in Int
BY DEF RoundHalfEven

LEMMA ConstantsHold ==
  /\ InstallmentAmount \in Nat
  /\ N \in Number
  /\ \A n \in Number : IsDate(Due(n)) /\ Due(n) \in Date
  /\ \A n \in Number : Part(n) \in Int
<1> USE InstallmentConstants
<1>1. InstallmentAmount \in Nat
  BY DEF InstallmentAmount, RoundHalfUp
<1>2. \A n \in Number : IsDate(Due(n)) /\ Due(n) \in Date
  <2>1. Start.month \in Int /\ Start.day \in 1..31
    BY DEF IsDate, Date
  <2>2. \A n \in Number : Start.month + (n - 1) \in Int
    BY <2>1 DEF Number
  <2> QED BY <2>1, <2>2, DayOfMonth DEF Due, AddMonths
<1>3. \A n \in Number : Part(n) \in Int
  <2> DEFINE per == RoundHalfEven(PlanTotal, N)
  <2>1. per \in Int
    BY RoundedInt
  <2> HIDE DEF per
  <2>2. per * (N - 1) \in Int
    BY <2>1
  <2>3. \A n \in Number : Part(n) = IF n = N THEN PlanTotal - per * (N - 1) ELSE per
    BY DEF Part, per
  <2> QED BY <2>1, <2>2, <2>3
<1>4. N \in Number
  BY DEF Number
<1> QED
  BY <1>1, <1>2, <1>3, <1>4

------------------------------------------------------------------------------
(* Requests. *)

LEMMA SeenFacts ==
  ASSUME NEW f \in Seeing
  PROVE  /\ f = [n \in DOMAIN f |-> f[n]]
         /\ DOMAIN f \subseteq Number
         /\ \A n \in DOMAIN f : f[n].tx \in TxId \cup {NoId} /\ f[n].amount \in Nat
BY DEF Seeing, Seen

LEMMA SeenMade ==
  /\ Unseen \in Seeing /\ DOMAIN Unseen = {}
  /\ \A n \in Number, t \in TxId \cup {NoId}, a \in Nat :
       /\ Of(n, t, a) \in Seeing
       /\ DOMAIN Of(n, t, a) = {n}
       /\ Of(n, t, a)[n].tx = t
<1>1. Unseen \in [{} -> Seen] /\ {} \in SUBSET Number
  BY DEF Unseen
<1>2. ASSUME NEW n \in Number, NEW t \in TxId \cup {NoId}, NEW a \in Nat
      PROVE  Of(n, t, a) \in [{n} -> Seen] /\ {n} \in SUBSET Number /\ Of(n, t, a)[n].tx = t
  <2>1. [tx |-> t, amount |-> a] \in Seen
    BY DEF Seen
  <2> QED BY <2>1 DEF Of
<1>3. \A ns \in SUBSET Number : [ns -> Seen] \subseteq Seeing
  BY DEF Seeing
<1>4. \A ns : \A f \in [ns -> Seen] : DOMAIN f = ns
  OBVIOUS
<1>5. Unseen \in Seeing /\ DOMAIN Unseen = {}
  BY <1>1, <1>3, <1>4
<1>6. ASSUME NEW n \in Number, NEW t \in TxId \cup {NoId}, NEW a \in Nat
      PROVE  Of(n, t, a) \in Seeing /\ DOMAIN Of(n, t, a) = {n} /\ Of(n, t, a)[n].tx = t
  BY <1>2, <1>3, <1>4
<1> QED
  BY <1>5, <1>6

LEMMA RequestFacts ==
  ASSUME NEW r \in ReqType
  PROVE  /\ r.pc \in Steps /\ r.todo \subseteq Number /\ r.seen \in Seeing
         /\ r.closing \in Int /\ r.day \in Date /\ r.bill \in Date \cup {NoBill}
         /\ r.paid \in Nat /\ r.total \in Nat
BY DEF ReqType

LEMMA OverFits ==
  ASSUME NEW k, NEW known
  PROVE  /\ Over \in ReqType /\ Suits(k, Over, known)
         /\ NewReq \in ReqType /\ Suits(k, NewReq, known)
         /\ Over.pc = "done" /\ Over.todo = {} /\ DOMAIN Over.seen = {}
         /\ NewReq.pc = "new" /\ NewReq.todo = {} /\ DOMAIN NewReq.seen = {}
<1>1. IsDate(Start) /\ Start \in Date
  BY InstallmentConstants DEF IsDate
<1>2. Unseen \in Seeing /\ DOMAIN Unseen = {}
  BY SeenMade
<1>3. NewReq.day = Start /\ NewReq.seen = Unseen /\ NewReq.pc = "new" /\ NewReq.todo = {}
  BY DEF NewReq
<1>4. Over.day = Start /\ Over.seen = Unseen /\ Over.pc = "done" /\ Over.todo = {}
  BY DEF NewReq, Over
<1>5. NewReq \in ReqType
  BY <1>1, <1>2 DEF NewReq, ReqType, Steps
<1>6. Over \in ReqType
  BY <1>5 DEF Over, ReqType, Steps, NewReq
<1>7. Suits(k, Over, known) /\ Suits(k, NewReq, known)
  BY <1>1, <1>2, <1>3, <1>4 DEF Suits
<1> QED
  BY <1>2, <1>3, <1>4, <1>5, <1>6, <1>7

\* A request that moves on, and the others as they were.
Moves(p, r) == req' = [req EXCEPT ![p] = r]

LEMMA Moved ==
  ASSUME req \in [Request -> ReqType], NEW p \in Request, NEW r, Moves(p, r)
  PROVE  req'[p] = r /\ \A q \in Request : q # p => req'[q] = req[q]
BY DEF Moves

\* The step of a request leaves it one of its type that fits.
Proceeds(p) ==
  \E r \in ReqType : Moves(p, r) /\ Suits(kind[p], r, DOMAIN bills)

LEMMA FinishProceeds ==
  ASSUME NEW p, Finish(p)
  PROVE  Proceeds(p)
BY OverFits DEF Finish, Proceeds, Moves

LEMMA PlanProceeds ==
  ASSUME Typed, NEW p \in Request, PlanStep(p)
  PROVE  Proceeds(p)
<1> DEFINE old == req[p]
<1>0. req \in [Request -> ReqType] /\ old \in ReqType /\ Suits(kind[p], old, DOMAIN bills)
  BY DEF Typed
<1>00. /\ old.pc \in Steps /\ old.todo \subseteq Number /\ old.seen \in Seeing
       /\ old.closing \in Int /\ old.day \in Date /\ old.bill \in Date \cup {NoBill}
       /\ old.paid \in Nat /\ old.total \in Nat
  BY <1>0, RequestFacts
<1>000. IsDate(old.day)
  BY <1>0 DEF Suits
<1>1. CASE CreatePlan(p)
  <2> DEFINE r == [old EXCEPT !.pc = "rows", !.todo = Number]
  <2>1. Moves(p, r) /\ old.pc = "new"
    BY <1>0, <1>1 DEF CreatePlan, Moves
  <2>2. r \in ReqType
    BY <1>0, <1>00 DEF ReqType, Steps
  <2>3. r.pc = "rows" /\ r.day = old.day /\ r.seen = old.seen
    BY <1>0 DEF ReqType
  <2>4. Suits(kind[p], r, DOMAIN bills)
    <3> HIDE DEF r
    <3> QED BY <1>0, <1>000, <2>1, <2>3 DEF Suits
  <2> QED BY <2>1, <2>2, <2>4 DEF Proceeds
<1>2. CASE InsertRow(p)
  <2>1. PICK n \in old.todo :
          Finish(p) \/ req' = [req EXCEPT ![p].todo = @ \ {n}]
    BY <1>2 DEF InsertRow
  <2> DEFINE r == [old EXCEPT !.todo = @ \ {n}]
  <2>2. (Finish(p) \/ Moves(p, r)) /\ old.pc = "rows"
    BY <1>0, <1>2, <2>1 DEF InsertRow, Moves
  <2>3. r \in ReqType
    BY <1>0, <1>00 DEF ReqType
  <2>4. r.pc = "rows" /\ r.day = old.day /\ r.seen = old.seen
    BY <1>0, <2>2 DEF ReqType
  <2>5. Suits(kind[p], r, DOMAIN bills)
    <3> HIDE DEF r
    <3> QED BY <1>0, <1>000, <2>2, <2>4 DEF Suits
  <2> QED BY <2>2, <2>3, <2>5, FinishProceeds DEF Proceeds
<1>3. CASE Scan(p)
  <2> DEFINE ns == {n \in Number : /\ HasRow(n)
                                   /\ rows[n].status = "pending"
                                   /\ rows[n].bill = NoBill
                                   /\ NotAfter(Due(n), today)}
             r == [old EXCEPT !.pc = "check", !.todo = ns]
  <2>1. req' = [req EXCEPT ![p].pc = "check", ![p].todo = ns] /\ old.pc = "new"
    BY <1>3 DEF Scan
  <2>2. ns \subseteq Number
    OBVIOUS
  <2> HIDE DEF ns
  <2>3. Moves(p, r)
    BY <1>0, <2>1 DEF Moves
  <2>4. r \in ReqType
    BY <1>0, <1>00, <2>2 DEF ReqType, Steps
  <2>5. r.pc = "check" /\ r.day = old.day /\ r.seen = old.seen
    BY <1>0 DEF ReqType
  <2>6. Suits(kind[p], r, DOMAIN bills)
    <3> HIDE DEF r
    <3> QED BY <1>0, <1>000, <2>1, <2>5 DEF Suits
  <2> QED BY <2>3, <2>4, <2>6 DEF Proceeds
<1>4. CASE Check(p)
  <2>0. old.pc = "check" /\ kind[p] = "generate"
    BY <1>4 DEF Check
  <2>1. CASE old.todo = {}
    BY <1>4, <2>1, FinishProceeds DEF Check
  <2>2. CASE old.todo # {}
    <3>1. PICK n \in old.todo :
            \/ req' = [req EXCEPT ![p].todo = @ \ {n}]
            \/ req' = [req EXCEPT ![p].pc = "post", ![p].todo = @ \ {n},
                         ![p].seen = Of(n, NoId, InstallmentAmount)]
      BY <1>4, <2>2 DEF Check
    <3> DEFINE s == Of(n, NoId, InstallmentAmount)
               r == [old EXCEPT !.todo = @ \ {n}]
               u == [old EXCEPT !.pc = "post", !.todo = @ \ {n}, !.seen = s]
    <3>2. s \in Seeing /\ DOMAIN s = {n} /\ s[n].tx = NoId
      BY <1>00, SeenMade, ConstantsHold
    <3> HIDE DEF s
    <3>3. Moves(p, r) \/ Moves(p, u)
      BY <1>0, <3>1 DEF Moves, s
    <3>4. r \in ReqType /\ u \in ReqType
      BY <1>0, <1>00, <3>2 DEF ReqType, Steps
    <3>5. /\ r.pc = "check" /\ r.day = old.day /\ r.seen = old.seen
          /\ u.pc = "post" /\ u.day = old.day /\ u.seen = s
      BY <1>0, <2>0 DEF ReqType
    <3>6. Suits(kind[p], r, DOMAIN bills) /\ Suits(kind[p], u, DOMAIN bills)
      <4> HIDE DEF r, u
      <4> QED BY <1>0, <1>000, <2>0, <3>2, <3>5 DEF Suits
    <3> HIDE DEF r, u
    <3> QED BY <3>3, <3>4, <3>6 DEF Proceeds
  <2> QED BY <2>1, <2>2
<1>5. CASE PostGenerated(p)
  <2>1. Finish(p) \/ req' = [req EXCEPT ![p].pc = "check", ![p].seen = Unseen]
    BY <1>5 DEF PostGenerated
  <2> DEFINE r == [old EXCEPT !.pc = "check", !.seen = Unseen]
  <2>2. CASE req' = [req EXCEPT ![p].pc = "check", ![p].seen = Unseen]
    <3>1. Moves(p, r)
      BY <1>0, <2>2 DEF Moves
    <3>2. r \in ReqType
      BY <1>0, <1>00, SeenMade DEF ReqType, Steps
    <3>3. r.pc = "check" /\ r.day = old.day /\ r.seen = Unseen /\ r.todo = old.todo
      BY <1>0 DEF ReqType
    <3>4. Suits(kind[p], r, DOMAIN bills)
      <4> HIDE DEF r
      <4> QED BY <1>0, <1>000, <3>3, SeenMade DEF Suits
    <3> QED BY <3>1, <3>2, <3>4 DEF Proceeds
  <2> QED BY <2>1, <2>2, FinishProceeds
<1>6. CASE ReadInstallment(p)
  <2>0. old.pc = "new" /\ kind[p] = "pay"
    BY <1>6 DEF ReadInstallment
  <2>1. PICK n \in Number :
          \/ Finish(p)
          \/ req' = [req EXCEPT ![p].pc = "post",
                       ![p].seen = Of(n, rows[n].tx, InstallmentAmount)]
    BY <1>6 DEF ReadInstallment
  <2> DEFINE s == Of(n, rows[n].tx, InstallmentAmount)
             r == [old EXCEPT !.pc = "post", !.seen = s]
  <2>2. s \in Seeing /\ DOMAIN s = {n}
    <3>1. rows[n].tx \in TxId \cup {NoId}
      BY DEF Typed, TypeOK, Row
    <3> QED BY <3>1, SeenMade, ConstantsHold
  <2> HIDE DEF s
  <2>3. Finish(p) \/ Moves(p, r)
    BY <1>0, <2>1 DEF Moves, s
  <2>4. r \in ReqType
    BY <1>0, <1>00, <2>2 DEF ReqType, Steps
  <2>5. r.pc = "post" /\ r.day = old.day /\ r.todo = old.todo
    BY <1>0 DEF ReqType
  <2>6. Suits(kind[p], r, DOMAIN bills)
    <3> HIDE DEF r
    <3> QED BY <1>0, <1>000, <2>0, <2>5 DEF Suits
  <2> QED BY <2>3, <2>4, <2>6, FinishProceeds DEF Proceeds
<1>7. CASE UnlinkPlan(p)
  <2> DEFINE r == [old EXCEPT !.pc = "erase"]
  <2>1. Moves(p, r) /\ old.pc = "new"
    BY <1>0, <1>7 DEF UnlinkPlan, Moves
  <2>2. r \in ReqType
    BY <1>0, <1>00 DEF ReqType, Steps
  <2>3. r.pc = "erase" /\ r.day = old.day /\ r.seen = old.seen /\ r.todo = old.todo
    BY <1>0 DEF ReqType
  <2>4. Suits(kind[p], r, DOMAIN bills)
    <3> HIDE DEF r
    <3> QED BY <1>0, <1>000, <2>1, <2>3 DEF Suits
  <2> QED BY <2>1, <2>2, <2>4 DEF Proceeds
<1>8. CASE SplitPlan(p) \/ PostPaid(p) \/ ErasePlan(p) \/ DeleteTx(p) \/ Fail(p)
  <2>1. Finish(p)
    BY <1>8 DEF SplitPlan, PostPaid, ErasePlan, DeleteTx, Fail
  <2> QED BY <2>1, FinishProceeds
<1> QED
  BY <1>1, <1>2, <1>3, <1>4, <1>5, <1>6, <1>7, <1>8 DEF PlanStep

------------------------------------------------------------------------------
(* Bills. *)

LEMMA ExpensesFinite ==
  /\ IsFiniteSet(TxId)
  /\ \A table, b : IsFiniteSet(Expenses(table, b)) /\ Expenses(table, b) \subseteq TxId
<1>1. IsFiniteSet(0..N)
  BY InstallmentConstants, FS_Interval
<1>2. IsFiniteSet(TxId)
  BY <1>1, InstallmentConstants, FS_Product DEF TxId
<1>3. \A table, b : Expenses(table, b) \subseteq TxId
  BY DEF Expenses
<1> QED
  BY <1>2, <1>3, FS_Subset

\* What a bill has to charge is an amount.
LEMMA TotalNat ==
  ASSUME NEW table \in [TxId -> Tx], NEW b
  PROVE  TotalIn(table, b) \in Nat
<1> DEFINE E == Expenses(table, b)
           f == [t \in E |-> table[t].amount]
<1>1. IsFiniteSet(E) /\ E \subseteq TxId
  BY ExpensesFinite
<1> HIDE DEF E
<1>2. DOMAIN f = E /\ \A t \in E : f[t] \in Nat
  BY <1>1 DEF Tx
<1>3. SumFunction(f) = SumFunctionOnSet(f, E)
  BY <1>2 DEF SumFunction
<1> HIDE DEF f
<1>4. SumFunction(f) \in Nat
  BY <1>1, <1>2, <1>3, SumNat
<1> QED
  BY <1>4 DEF TotalIn, f, E

\* It depends on the period of the bill alone.
LEMMA TotalOfPeriod ==
  ASSUME NEW table, NEW b, NEW c, b.start = c.start, b.end = c.end
  PROVE  TotalIn(table, b) = TotalIn(table, c)
<1>1. Expenses(table, b) = Expenses(table, c)
  BY DEF Expenses, Covers
<1> QED
  BY <1>1 DEF TotalIn

BillsTyped ==
  /\ bills \in [DOMAIN bills -> Bill]
  /\ DOMAIN bills \subseteq Date
  /\ \A e \in DOMAIN bills : bills[e].end = e /\ IsDate(e)

\* The cycle's bill is there after an upsert, with what it counted as paid, and
\* the others are as they were.
LEMMA Upserted ==
  ASSUME BillsTyped, NEW c \in 1..31, NEW d, IsDate(d), UpsertBill(c, d)
  PROVE  LET cycle == CycleForDate(c, DueDay, d)
             e     == cycle.end
         IN /\ BillsTyped'
            /\ DOMAIN bills' = DOMAIN bills \cup {e}
            /\ bills'[e].start = cycle.start
            /\ e \notin DOMAIN bills => bills'[e].status = "open" /\ bills'[e].paid = 0
            /\ \A x \in DOMAIN bills :
                 /\ x # e => bills'[x] = bills[x]
                 /\ bills'[x].status = bills[x].status /\ bills'[x].paid = bills[x].paid
<1> DEFINE cycle == CycleForDate(c, DueDay, d)
           e == cycle.end
           b == [start |-> cycle.start, end |-> e, due |-> cycle.due,
                 status |-> IF e \in DOMAIN bills THEN bills[e].status ELSE "open",
                 paid |-> IF e \in DOMAIN bills THEN bills[e].paid ELSE 0]
<1>1. e \in Date /\ IsDate(e) /\ cycle.start \in Date /\ cycle.due \in Date
  BY CycleOf
<1>2. bills' = [x \in DOMAIN bills \cup {e} |-> IF x # e THEN bills[x] ELSE b]
  BY DEF UpsertBill
<1> HIDE DEF cycle, e
<1>3. b \in Bill
  <2>1. CASE e \in DOMAIN bills
    <3>1. bills[e].status \in {"open", "paid"} /\ bills[e].paid \in Nat
      BY <2>1 DEF BillsTyped, Bill
    <3> QED BY <1>1, <2>1, <3>1 DEF Bill
  <2>2. CASE e \notin DOMAIN bills
    BY <1>1, <2>2 DEF Bill
  <2> QED BY <2>1, <2>2
<1>4. /\ b.end = e /\ b.start = cycle.start
      /\ e \notin DOMAIN bills => b.status = "open" /\ b.paid = 0
      /\ e \in DOMAIN bills => b.status = bills[e].status /\ b.paid = bills[e].paid
  OBVIOUS
<1> HIDE DEF b
<1>5. BillsTyped'
  BY <1>1, <1>2, <1>3, <1>4 DEF BillsTyped
<1>6. /\ DOMAIN bills' = DOMAIN bills \cup {e}
      /\ bills'[e] = b
      /\ \A x \in DOMAIN bills : x # e => bills'[x] = bills[x]
  BY <1>2
<1> QED
  BY <1>4, <1>5, <1>6 DEF cycle, e

LEMMA TypedFacts ==
  ASSUME Typed
  PROVE  /\ BillsTyped
         /\ tx \in [TxId -> Tx] /\ rows \in [Number -> Row]
         /\ req \in [Request -> ReqType]
         /\ closing \in Closing /\ closing \in 1..31
         /\ today \in Dates /\ IsDate(today) /\ today \in Date
         /\ \A t \in TxId : tx[t].amount \in Nat /\ tx[t].date \in Date /\ IsDate(tx[t].date)
         /\ \A e \in DOMAIN bills : bills[e] \in Bill /\ bills[e].paid \in Nat /\ e \in Date
         /\ \A n \in Number : rows[n].tx \in TxId \cup {NoId}
<1>1. BillsTyped
  BY DEF Typed, TypeOK, BillsTyped
<1>2. /\ tx \in [TxId -> Tx] /\ rows \in [Number -> Row]
      /\ req \in [Request -> ReqType]
      /\ closing \in Closing /\ today \in Dates /\ \A t \in TxId : IsDate(tx[t].date)
  BY DEF Typed, TypeOK
<1>3. closing \in 1..31
  BY <1>2, CardConstants
<1>4. IsDate(today) /\ today \in Date
  BY <1>2, InstallmentConstants DEF IsDate
<1>5. \A t \in TxId : tx[t].amount \in Nat /\ tx[t].date \in Date
  BY <1>2 DEF Tx
<1>6. \A e \in DOMAIN bills : bills[e] \in Bill /\ bills[e].paid \in Nat /\ e \in Date
  BY <1>1 DEF BillsTyped, Bill
<1>7. \A n \in Number : rows[n].tx \in TxId \cup {NoId}
  BY <1>2 DEF Row
<1> QED
  BY <1>1, <1>2, <1>3, <1>4, <1>5, <1>6, <1>7

LEMMA CardProceeds ==
  ASSUME Typed, NEW p \in Request,
         ReadCard(p) \/ ReadBill(p) \/ PayBill(p) \/ ReadInstallments(p)
           \/ Purchase(p) \/ Anticipate(p)
  PROVE  Proceeds(p)
<1> DEFINE old == req[p]
<1>0. req \in [Request -> ReqType] /\ old \in ReqType /\ Suits(kind[p], old, DOMAIN bills)
  BY DEF Typed
<1>00. /\ old.pc \in Steps /\ old.todo \subseteq Number /\ old.seen \in Seeing
       /\ old.closing \in Int /\ old.day \in Date /\ old.bill \in Date \cup {NoBill}
       /\ old.paid \in Nat /\ old.total \in Nat
  BY <1>0, RequestFacts
<1>000. IsDate(old.day)
  BY <1>0 DEF Suits
<1>1. CASE ReadCard(p)
  <2> DEFINE r == [old EXCEPT !.pc = "charge", !.closing = closing]
  <2>1. Moves(p, r) /\ old.pc = "new" /\ kind[p] = "purchase"
    BY <1>0, <1>1 DEF ReadCard, Moves
  <2>2. r \in ReqType
    <3>1. closing \in Int
      BY TypedFacts
    <3> QED BY <1>0, <1>00, <3>1 DEF ReqType, Steps
  <2>3. r.pc = "charge" /\ r.day = old.day /\ r.seen = old.seen /\ r.todo = old.todo
        /\ r.closing = closing
    BY <1>0 DEF ReqType
  <2>4. Suits(kind[p], r, DOMAIN bills)
    <3>1. closing \in Closing
      BY TypedFacts
    <3> HIDE DEF r
    <3> QED BY <1>0, <1>000, <2>1, <2>3, <3>1 DEF Suits
  <2> QED BY <2>1, <2>2, <2>4 DEF Proceeds
<1>2. CASE ReadBill(p)
  <2>0. old.pc = "new"
    BY <1>2 DEF ReadBill
  <2>1. PICK e \in DOMAIN bills :
          \/ Finish(p)
          \/ /\ Remaining(bills[e]) > 0
             /\ req' = [req EXCEPT ![p].pc = "settle", ![p].bill = e,
                                   ![p].paid = bills[e].paid, ![p].total = Total(bills[e])]
    BY <1>2 DEF ReadBill
  <2>2. CASE Finish(p)
    BY <2>2, FinishProceeds
  <2>3. CASE ~Finish(p)
    <3> DEFINE sum == Total(bills[e])
               paid == bills[e].paid
               r == [old EXCEPT !.pc = "settle", !.bill = e, !.paid = paid, !.total = sum]
    <3>1. sum \in Nat /\ paid \in Nat /\ e \in Date
      BY TypedFacts, TotalNat DEF Total
    <3>2. paid < sum
      BY <2>1, <2>3, <3>1 DEF Remaining
    <3> HIDE DEF sum, paid
    <3>3. Moves(p, r)
      BY <1>0, <2>1, <2>3 DEF Moves, sum, paid
    <3>4. r \in ReqType
      BY <1>0, <1>00, <3>1 DEF ReqType, Steps
    <3>5. /\ r.pc = "settle" /\ r.day = old.day /\ r.seen = old.seen /\ r.todo = old.todo
          /\ r.bill = e /\ r.paid = paid /\ r.total = sum
      BY <1>0 DEF ReqType
    <3>6. Suits(kind[p], r, DOMAIN bills)
      <4> HIDE DEF r
      <4> QED BY <1>0, <1>000, <2>0, <3>2, <3>5 DEF Suits
    <3> QED BY <3>3, <3>4, <3>6 DEF Proceeds
  <2> QED BY <2>2, <2>3
<1>3. CASE ReadInstallments(p)
  <2>0. old.pc = "new" /\ kind[p] = "anticipate"
    BY <1>3 DEF ReadInstallments
  <2>1. PICK ns \in SUBSET Number :
          \/ Finish(p)
          \/ req' = [req EXCEPT ![p].pc = "charge", ![p].closing = closing, ![p].day = today,
                ![p].seen = [n \in ns |-> [tx |-> rows[n].tx, amount |-> AmountOf(n)]]]
    BY <1>3 DEF ReadInstallments
  <2> DEFINE s == [n \in ns |-> [tx |-> rows[n].tx, amount |-> AmountOf(n)]]
             r == [old EXCEPT !.pc = "charge", !.closing = closing, !.day = today, !.seen = s]
  <2>2. s \in Seeing
    <3>1. \A n \in ns : rows[n].tx \in TxId \cup {NoId}
      BY TypedFacts
    <3>2. \A n \in ns : AmountOf(n) \in Nat
      BY <3>1, TypedFacts, ConstantsHold DEF AmountOf, Live
    <3>3. s \in [ns -> Seen]
      BY <3>1, <3>2 DEF Seen
    <3> HIDE DEF s
    <3> QED BY <3>3 DEF Seeing
  <2> HIDE DEF s
  <2>3. Finish(p) \/ Moves(p, r)
    BY <1>0, <2>1 DEF Moves, s
  <2>4. closing \in Closing /\ closing \in Int /\ today \in Date /\ IsDate(today)
    BY TypedFacts
  <2>5. r \in ReqType
    BY <1>0, <1>00, <2>2, <2>4 DEF ReqType, Steps
  <2>6. /\ r.pc = "charge" /\ r.day = today /\ r.seen = s /\ r.todo = old.todo
        /\ r.closing = closing
    BY <1>0 DEF ReqType
  <2>7. Suits(kind[p], r, DOMAIN bills)
    <3> HIDE DEF r
    <3> QED BY <1>0, <2>0, <2>4, <2>6 DEF Suits
  <2> QED BY <2>3, <2>5, <2>7, FinishProceeds DEF Proceeds
<1>4. CASE PayBill(p) \/ Purchase(p) \/ Anticipate(p)
  <2>1. Finish(p)
    BY <1>4 DEF PayBill, Purchase, Anticipate
  <2> QED BY <2>1, FinishProceeds
<1> QED
  BY <1>1, <1>2, <1>3, <1>4

------------------------------------------------------------------------------
(* Rows and transactions. *)

TxTyped == tx \in [TxId -> Tx] /\ \A t \in TxId : IsDate(tx[t].date)

Statuses == {"gone", "pending", "generated", "paid"}

LEMMA IdFacts ==
  ASSUME NEW p \in Request, NEW n \in 0..N
  PROVE  <<p, n>> \in TxId /\ <<p, n>> # NoId
BY InstallmentConstants DEF TxId, NoId

LEMMA NothingFits ==
  /\ NoTx \in Tx /\ IsDate(NoTx.date) /\ NoTx.amount = 0
  /\ NoRow \in Row /\ NoRow.status = "gone" /\ NoRow.tx = NoId /\ NoRow.bill = NoBill
  /\ Pending \in Row /\ Pending.status = "pending" /\ Pending.tx = NoId
  /\ Pending.bill = NoBill
  /\ NoId \notin TxId
<1>1. IsDate(Start) /\ Start \in Date
  BY InstallmentConstants DEF IsDate
<1>2. NoTx \in Tx /\ IsDate(NoTx.date) /\ NoTx.amount = 0
  BY <1>1 DEF NoTx, Tx
<1>3. NoRow \in Row /\ NoRow.status = "gone" /\ NoRow.tx = NoId /\ NoRow.bill = NoBill
  BY DEF NoRow, Row
<1>4. Pending \in Row /\ Pending.status = "pending" /\ Pending.tx = NoId
      /\ Pending.bill = NoBill
  BY <1>3 DEF Pending, Row
<1>5. NoId \notin TxId
  BY InstallmentConstants DEF NoId, TxId
<1> QED
  BY <1>2, <1>3, <1>4, <1>5

LEMMA RowSet ==
  ASSUME rows \in [Number -> Row], NEW n \in Number, NEW t \in TxId \cup {NoId},
         NEW status \in Statuses, SetRow(n, t, status)
  PROVE  /\ rows' \in [Number -> Row]
         /\ HasRow(n) => /\ rows'[n].tx = t /\ rows'[n].status = status
                         /\ rows'[n].bill = rows[n].bill
         /\ ~HasRow(n) => rows' = rows
         /\ \A m \in Number : m # n => rows'[m] = rows[m]
<1>1. CASE HasRow(n)
  <2> DEFINE r == [rows[n] EXCEPT !.tx = t, !.status = status]
  <2>1. rows' = [rows EXCEPT ![n] = r]
    BY <1>1 DEF SetRow
  <2>2. r \in Row /\ r.tx = t /\ r.status = status /\ r.bill = rows[n].bill
    <3>1. rows[n] \in Row
      OBVIOUS
    <3> QED BY <3>1 DEF Row, Statuses
  <2> HIDE DEF r
  <2> QED BY <1>1, <2>1, <2>2
<1>2. CASE ~HasRow(n)
  BY <1>2 DEF SetRow
<1> QED
  BY <1>1, <1>2

LEMMA TxMade ==
  ASSUME TxTyped, NEW p \in Request, NEW n \in Number,
         tx' = [tx EXCEPT ![<<p, n>>] = Expense(Due(n), InstallmentAmount)]
  PROVE  /\ TxTyped'
         /\ <<p, n>> \in TxId
         /\ tx'[<<p, n>>].amount = InstallmentAmount
         /\ \A t \in TxId : t # <<p, n>> => tx'[t] = tx[t]
<1> DEFINE e == Expense(Due(n), InstallmentAmount)
<1>1. e \in Tx /\ IsDate(e.date) /\ e.amount = InstallmentAmount
  BY ConstantsHold DEF Expense, Tx
<1>2. <<p, n>> \in TxId
  BY IdFacts DEF Number
<1> HIDE DEF e
<1>3. tx' = [tx EXCEPT ![<<p, n>>] = e]
  BY DEF e
<1> QED
  BY <1>1, <1>2, <1>3 DEF TxTyped

LEMMA PlanTables ==
  ASSUME Typed, NEW p \in Request, PlanStep(p)
  PROVE  /\ plan' \in {"none", "live", "gone"}
         /\ rows' \in [Number -> Row]
         /\ TxTyped'
         /\ faults' \in 0..MaxFaults
         /\ today' = today /\ kind' = kind
<1>0. /\ plan \in {"none", "live", "gone"} /\ rows \in [Number -> Row] /\ TxTyped
      /\ faults \in 0..MaxFaults
  BY DEF Typed, TypeOK, TxTyped
<1>f. faults < MaxFaults => faults + 1 \in 0..MaxFaults
  BY <1>0, InstallmentConstants
<1>r. /\ \A n \in DOMAIN req[p].seen : n \in Number /\ req[p].seen[n].tx \in TxId \cup {NoId}
      /\ \A n \in req[p].todo : n \in Number
  <2>1. req[p] \in ReqType
    BY DEF Typed
  <2> QED BY <2>1, RequestFacts, SeenFacts
<1>1. CASE CreatePlan(p)
  BY <1>0, <1>1 DEF CreatePlan, TxTyped
<1>2. CASE InsertRow(p)
  <2>1. plan' = plan /\ tx' = tx /\ today' = today /\ kind' = kind
    BY <1>2 DEF InsertRow
  <2>2. PICK n \in req[p].todo :
          \/ rows' = [rows EXCEPT ![n] = Pending] /\ UNCHANGED faults
          \/ UNCHANGED <<rows, faults>>
          \/ faults < MaxFaults /\ faults' = faults + 1 /\ UNCHANGED rows
    BY <1>2 DEF InsertRow
  <2>3. rows' \in [Number -> Row]
    BY <1>0, <2>2, NothingFits
  <2>4. faults' \in 0..MaxFaults
    BY <1>0, <1>f, <2>2
  <2> QED BY <1>0, <2>1, <2>3, <2>4 DEF TxTyped
<1>3. CASE SplitPlan(p)
  <2>1. faults' = faults /\ today' = today /\ kind' = kind
    BY <1>3 DEF SplitPlan
  <2>2. CASE \A n \in Number : Part(n) > 0
    <3>1. /\ plan' = "live"
          /\ rows' = [n \in Number |-> [status |-> "generated", tx |-> <<p, n>>, bill |-> NoBill]]
          /\ tx' = [t \in TxId |-> IF t[1] = p /\ t[2] \in Number
                                   THEN Expense(Due(t[2]), Part(t[2])) ELSE tx[t]]
      BY <1>3, <2>2 DEF SplitPlan
    <3>2. rows' \in [Number -> Row]
      <4>1. \A n \in Number : <<p, n>> \in TxId
        BY IdFacts DEF Number
      <4> QED BY <3>1, <4>1 DEF Row
    <3>3. \A n \in Number : Expense(Due(n), Part(n)) \in Tx /\ Expense(Due(n), Part(n)).date = Due(n)
      BY <2>2, ConstantsHold DEF Expense, Tx
    <3>4. TxTyped'
      BY <1>0, <3>1, <3>3, ConstantsHold DEF TxTyped
    <3> QED BY <1>0, <2>1, <3>1, <3>2, <3>4
  <2>3. CASE ~\A n \in Number : Part(n) > 0
    <3>1. UNCHANGED <<plan, rows, tx>>
      BY <1>3, <2>3 DEF SplitPlan
    <3> QED BY <1>0, <2>1, <3>1 DEF TxTyped
  <2> QED BY <2>2, <2>3
<1>4. CASE Scan(p) \/ Check(p) \/ ReadInstallment(p)
  BY <1>0, <1>4 DEF Scan, Check, ReadInstallment, TxTyped
<1>5. CASE PostGenerated(p)
  <2>1. plan' = plan /\ faults' = faults /\ today' = today /\ kind' = kind
    BY <1>5 DEF PostGenerated
  <2>2. PICK n \in DOMAIN req[p].seen :
          \/ /\ tx' = [tx EXCEPT ![<<p, n>>] = Expense(Due(n), InstallmentAmount)]
             /\ SetRow(n, <<p, n>>, "generated")
          \/ UNCHANGED <<tx, rows>>
    BY <1>5 DEF PostGenerated
  <2>3. CASE UNCHANGED <<tx, rows>>
    BY <1>0, <2>1, <2>3 DEF TxTyped
  <2>4. CASE ~UNCHANGED <<tx, rows>>
    <3>1. <<p, n>> \in TxId /\ TxTyped'
      BY <1>0, <1>r, <2>2, <2>4, TxMade
    <3>2. rows' \in [Number -> Row]
      BY <1>0, <1>r, <2>2, <2>4, <3>1, RowSet DEF Statuses
    <3> QED BY <1>0, <2>1, <3>1, <3>2
  <2> QED BY <2>3, <2>4
<1>6. CASE PostPaid(p)
  <2>1. plan' = plan /\ faults' = faults /\ today' = today /\ kind' = kind
    BY <1>6 DEF PostPaid
  <2>2. PICK n \in DOMAIN req[p].seen :
          \/ SetRow(n, req[p].seen[n].tx, "paid") /\ UNCHANGED tx
          \/ /\ tx' = [tx EXCEPT ![<<p, n>>] = Expense(Due(n), InstallmentAmount)]
             /\ SetRow(n, <<p, n>>, "paid")
          \/ UNCHANGED <<tx, rows>>
    BY <1>6 DEF PostPaid
  <2>3. CASE UNCHANGED <<tx, rows>>
    BY <1>0, <2>1, <2>3 DEF TxTyped
  <2>4. CASE SetRow(n, req[p].seen[n].tx, "paid") /\ UNCHANGED tx
    <3>1. rows' \in [Number -> Row]
      BY <1>0, <1>r, <2>4, RowSet DEF Statuses
    <3> QED BY <1>0, <2>1, <2>4, <3>1 DEF TxTyped
  <2>5. CASE /\ tx' = [tx EXCEPT ![<<p, n>>] = Expense(Due(n), InstallmentAmount)]
             /\ SetRow(n, <<p, n>>, "paid")
    <3>1. <<p, n>> \in TxId /\ TxTyped'
      BY <1>0, <1>r, <2>5, TxMade
    <3>2. rows' \in [Number -> Row]
      BY <1>0, <1>r, <2>5, <3>1, RowSet DEF Statuses
    <3> QED BY <1>0, <2>1, <3>1, <3>2
  <2> QED BY <2>2, <2>3, <2>4, <2>5
<1>7. CASE UnlinkPlan(p)
  <2>1. plan' = plan /\ rows' = rows /\ today' = today /\ kind' = kind
    BY <1>7 DEF UnlinkPlan
  <2>2. \/ /\ tx' = [t \in TxId |-> IF Live(t) THEN [tx[t] EXCEPT !.plan = FALSE] ELSE tx[t]]
           /\ UNCHANGED faults
        \/ faults < MaxFaults /\ faults' = faults + 1 /\ UNCHANGED tx
    BY <1>7 DEF UnlinkPlan
  <2>3. faults' \in 0..MaxFaults
    BY <1>0, <1>f, <2>2
  <2>4. TxTyped'
    <3>1. CASE tx' = tx
      BY <1>0, <3>1 DEF TxTyped
    <3>2. CASE tx' = [t \in TxId |-> IF Live(t) THEN [tx[t] EXCEPT !.plan = FALSE] ELSE tx[t]]
      <4>1. \A t \in TxId : /\ [tx[t] EXCEPT !.plan = FALSE] \in Tx
                            /\ [tx[t] EXCEPT !.plan = FALSE].date = tx[t].date
        BY <1>0 DEF TxTyped, Tx
      <4> QED BY <1>0, <3>2, <4>1 DEF TxTyped
    <3> QED BY <2>2, <3>1, <3>2
  <2> QED BY <1>0, <2>1, <2>3, <2>4
<1>8. CASE ErasePlan(p)
  <2>1. tx' = tx /\ faults' = faults /\ today' = today /\ kind' = kind
    BY <1>8 DEF ErasePlan
  <2>2. \/ UNCHANGED <<plan, rows>>
        \/ plan' = "gone" /\ rows' = [n \in Number |-> NoRow]
    BY <1>8 DEF ErasePlan
  <2> QED BY <1>0, <2>1, <2>2, NothingFits DEF TxTyped
<1>9. CASE DeleteTx(p)
  <2>1. plan' = plan /\ faults' = faults /\ today' = today /\ kind' = kind
    BY <1>9 DEF DeleteTx
  <2>2. PICK t \in TxId :
          \/ UNCHANGED <<rows, tx>>
          \/ /\ rows' = [n \in Number |-> IF HasRow(n) /\ rows[n].tx = t THEN NoRow
                                          ELSE rows[n]]
             /\ tx' = [tx EXCEPT ![t] = NoTx]
    BY <1>9 DEF DeleteTx
  <2> QED BY <1>0, <2>1, <2>2, NothingFits DEF TxTyped
<1>10. CASE Fail(p)
  BY <1>0, <1>f, <1>10 DEF Fail, TxTyped
<1> QED
  BY <1>1, <1>2, <1>3, <1>4, <1>5, <1>6, <1>7, <1>8, <1>9, <1>10 DEF PlanStep

\* What an anticipation that goes through does: each of its expenses is on the
\* day of the request, in the cycle's bill, which its row names.
Charged(p) ==
  LET end == CycleForDate(req[p].closing, DueDay, req[p].day).end
  IN /\ UpsertBill(req[p].closing, req[p].day)
     /\ \A n \in DOMAIN req[p].seen :
          /\ HasRow(n)
          /\ IF req[p].seen[n].tx = NoId THEN plan = "live" ELSE Live(req[p].seen[n].tx)
          /\ TxFor(p, n) \in TxId
          /\ rows'[n].status = rows[n].status /\ rows'[n].tx = TxFor(p, n)
          /\ rows'[n].bill = end
     /\ \A n \in Number : n \notin DOMAIN req[p].seen => rows'[n] = rows[n]
     /\ \A t \in TxId :
          IF \E n \in DOMAIN req[p].seen : t = TxFor(p, n)
          THEN tx'[t].date = req[p].day /\ tx'[t].amount > 0
          ELSE tx'[t] = tx[t]
     /\ batches' # {}

LEMMA AnticipateCharges ==
  ASSUME Typed, NEW p \in Request, Anticipate(p)
  PROVE  /\ Charged(p) \/ UNCHANGED <<bills, tx, rows, batches>>
         /\ rows' \in [Number -> Row] /\ TxTyped'
<1> DEFINE ns == DOMAIN req[p].seen
           closes == req[p].closing
           day == req[p].day
           end == CycleForDate(closes, DueDay, day).end
           g == Gross(p)
           seen == req[p].seen
           R(n, d) == Share(p, n, g - d)
           Made(d) == [t \in TxId |->
                         IF \E n \in ns : t = TxFor(p, n)
                         THEN LET n == CHOOSE n \in ns : t = TxFor(p, n)
                              IN [date |-> day, amount |-> R(n, d),
                                  plan |-> IF t[1] = p THEN TRUE ELSE tx[t].plan]
                         ELSE tx[t]]
           Goes(d) == /\ UpsertBill(closes, day)
                      /\ tx' = Made(d)
                      /\ rows' = [n \in Number |->
                                    IF n \in ns THEN [rows[n] EXCEPT !.tx = TxFor(p, n), !.bill = end]
                                    ELSE rows[n]]
                      /\ batches' = batches \cup
                           {[by |-> p, net |-> g - d, items |-> [n \in ns |-> R(n, d)]]}
<1>1. PICK d \in Discounts :
        \/ d < g /\ CanAnticipate(p, g - d) /\ Goes(d)
        \/ UNCHANGED <<bills, tx, rows, batches>>
  BY DEF Anticipate
<1>2. rows \in [Number -> Row] /\ TxTyped
  BY DEF Typed, TypeOK, TxTyped
<1>3. CASE UNCHANGED <<bills, tx, rows, batches>>
  BY <1>2, <1>3 DEF TxTyped
<1>4. CASE d < g /\ CanAnticipate(p, g - d) /\ Goes(d)
  <2>1. req[p] \in ReqType /\ req[p].pc = "charge" /\ Suits(kind[p], req[p], DOMAIN bills)
    BY DEF Typed, Anticipate
  <2>2. closes \in 1..31 /\ IsDate(day) /\ day \in Date
    BY <2>1, CardConstants DEF Suits, IsDate
  <2>3. end \in Date
    BY <2>2, CycleOf
  <2>4. /\ ns \subseteq Number
        /\ \A n \in ns : seen[n].tx \in TxId \cup {NoId} /\ seen[n].amount \in Nat
    BY <2>1, RequestFacts, SeenFacts
  <2>5. \A n \in ns : TxFor(p, n) \in TxId
    <3>1. \A n \in ns : <<p, n>> \in TxId
      BY <2>4, IdFacts DEF Number
    <3> QED BY <2>4, <3>1 DEF TxFor
  <2>6. \A n \in ns : /\ HasRow(n)
                      /\ IF seen[n].tx = NoId THEN plan = "live" ELSE Live(seen[n].tx)
                      /\ R(n, d) > 0
    BY <1>4 DEF CanAnticipate
  <2>7. \A n \in ns : R(n, d) \in Nat
    <3>1. g \in Nat
      <4> DEFINE f == [n \in ns |-> seen[n].amount]
      <4>1. IsFiniteSet(ns)
        <5>1. IsFiniteSet(Number)
          BY InstallmentConstants, FS_Interval DEF Number
        <5> QED BY <2>4, <5>1, FS_Subset
      <4>2. DOMAIN f = ns /\ \A n \in ns : f[n] \in Nat
        BY <2>4
      <4>3. g = SumFunctionOnSet(f, ns)
        BY <4>2 DEF Gross, SumFunction
      <4> HIDE DEF f, ns, g
      <4> QED BY <4>1, <4>2, <4>3, SumNat
    <3>2. d \in Nat
      BY CardConstants
    <3>21. d < g
      BY <1>4
    <3> HIDE DEF g
    <3>3. g \in Nat \ {0} /\ g - d \in Int
      BY <3>21, <3>1, <3>2
    <3> DEFINE net == g - d
    <3>4. net \in Int
      BY <3>3
    <3> HIDE DEF net
    <3>5. \A n \in ns : seen[n].amount * net \in Int
      BY <2>4, <3>4
    <3>6. \A n \in ns : R(n, d) = RoundHalfEven(seen[n].amount * net, g)
      BY DEF Share, g, net
    <3>7. \A n \in ns : R(n, d) \in Int
      BY <3>3, <3>5, <3>6, RoundedInt
    <3> HIDE DEF R
    <3> QED BY <2>6, <3>7
  <2> HIDE DEF R
  <2>8. ASSUME NEW t \in TxId, \E n \in ns : t = TxFor(p, n)
        PROVE  tx'[t] \in Tx /\ tx'[t].date = day /\ tx'[t].amount > 0
    <3> DEFINE m == CHOOSE n \in ns : t = TxFor(p, n)
               e == [date |-> day, amount |-> R(m, d),
                     plan |-> IF t[1] = p THEN TRUE ELSE tx[t].plan]
    <3>1. m \in ns
      BY <2>8
    <3>2. tx'[t] = e
      BY <1>4, <2>8
    <3>3. tx[t].plan \in BOOLEAN
      BY <1>2 DEF TxTyped, Tx
    <3>4. (IF t[1] = p THEN TRUE ELSE tx[t].plan) \in BOOLEAN
      BY <3>3
    <3> HIDE DEF m, ns
    <3>5. e \in Tx
      BY <2>2, <2>7, <3>1, <3>4 DEF Tx
    <3>6. e.date = day /\ e.amount > 0
      BY <2>6, <3>1
    <3> QED BY <3>2, <3>5, <3>6
  <2>9. ASSUME NEW t \in TxId, ~\E n \in ns : t = TxFor(p, n)
        PROVE  tx'[t] = tx[t]
    BY <1>4, <2>9
  <2>10. TxTyped'
    <3>1. tx' = [t \in TxId |-> tx'[t]]
      BY <1>4
    <3>2. \A t \in TxId : tx'[t] \in Tx /\ IsDate(tx'[t].date)
      <4> TAKE t \in TxId
      <4>1. CASE \E n \in ns : t = TxFor(p, n)
        BY <2>2, <2>8, <4>1
      <4>2. CASE ~\E n \in ns : t = TxFor(p, n)
        BY <1>2, <2>9, <4>2 DEF TxTyped
      <4> QED BY <4>1, <4>2
    <3> QED BY <3>1, <3>2 DEF TxTyped
  <2>11. ASSUME NEW n \in ns
         PROVE  /\ rows'[n] \in Row /\ rows'[n].status = rows[n].status
                /\ rows'[n].tx = TxFor(p, n) /\ rows'[n].bill = end
    <3> DEFINE u == TxFor(p, n)
    <3>1. n \in Number /\ u \in TxId
      BY <2>4, <2>5
    <3>2. rows'[n] = [rows[n] EXCEPT !.tx = u, !.bill = end]
      BY <1>4, <3>1
    <3> HIDE DEF u, end
    <3>3. rows'[n] \in Row /\ rows'[n].status = rows[n].status
          /\ rows'[n].tx = u /\ rows'[n].bill = end
      BY <1>2, <2>3, <3>1, <3>2 DEF Row
    <3> QED BY <3>3 DEF u
  <2>12. \A n \in Number : n \notin ns => rows'[n] = rows[n]
    BY <1>4
  <2>13. rows' \in [Number -> Row]
    <3>1. rows' = [n \in Number |-> rows'[n]]
      BY <1>4
    <3>2. \A n \in Number : rows'[n] \in Row
      BY <1>2, <2>11, <2>12
    <3> QED BY <3>1, <3>2
  <2>14. batches' # {} /\ UpsertBill(closes, day)
    BY <1>4
  <2>15. Charged(p)
    BY <2>5, <2>6, <2>8, <2>9, <2>11, <2>12, <2>14 DEF Charged
  <2> QED BY <2>10, <2>13, <2>15
<1> QED
  BY <1>1, <1>3, <1>4

------------------------------------------------------------------------------
(* Types. *)

\* What of the state a step of a request leaves typed.
TablesTyped ==
  /\ plan \in {"none", "live", "gone"}
  /\ rows \in [Number -> Row]
  /\ TxTyped
  /\ today \in Dates
  /\ kind \in Mixes
  /\ faults \in 0..MaxFaults
  /\ closing \in Closing
  /\ BillsTyped
  /\ payments \subseteq Payment /\ IsFiniteSet(payments)
  /\ \A x \in payments : x.bill \in DOMAIN bills

LEMMA TypedParts ==
  Typed <=> /\ TablesTyped
            /\ raced \subseteq Number
            /\ req \in [Request -> ReqType]
            /\ \A p \in Request : Suits(kind[p], req[p], DOMAIN bills)
<1>1. Typed => TablesTyped /\ raced \subseteq Number
  <2> HAVE Typed
  <2> QED BY DEF Typed, TypeOK, TablesTyped, TxTyped, BillsTyped
<1>2. Typed => /\ req \in [Request -> ReqType]
               /\ \A p \in Request : Suits(kind[p], req[p], DOMAIN bills)
  BY DEF Typed
<1>3. ASSUME TablesTyped, raced \subseteq Number, req \in [Request -> ReqType],
             \A p \in Request : Suits(kind[p], req[p], DOMAIN bills)
      PROVE  Typed
  <2>1. \A p \in Request : req[p].pc \in Steps
    BY <1>3, RequestFacts
  <2>2. \A e \in DOMAIN bills : bills[e] \in Bill /\ bills[e].end = e /\ IsDate(e)
    BY <1>3 DEF TablesTyped, BillsTyped
  <2>3. \A x \in payments : x.bill \in DOMAIN bills /\ x.amount > 0
    BY <1>3 DEF TablesTyped, Payment
  <2>4. TypeOK
    BY <1>3, <2>1, <2>2, <2>3 DEF TypeOK, TablesTyped, TxTyped
  <2> QED BY <1>3, <2>4 DEF Typed, TablesTyped, BillsTyped
<1> QED
  BY <1>1, <1>2, <1>3

LEMMA TypedNext ==
  ASSUME TablesTyped', (raced \subseteq Number)', (req \in [Request -> ReqType])',
         (\A p \in Request : Suits(kind[p], req[p], DOMAIN bills))'
  PROVE  Typed'
BY TypedParts, PTL

LEMMA SuitsMore ==
  ASSUME NEW k, NEW r, NEW known, NEW more, known \subseteq more, Suits(k, r, known)
  PROVE  Suits(k, r, more)
BY DEF Suits

LEMMA RequestTypes ==
  ASSUME Typed, NEW p \in Request, Proceeds(p), kind' = kind, DOMAIN bills \subseteq DOMAIN bills'
  PROVE  /\ req' \in [Request -> ReqType]
         /\ \A q \in Request : Suits(kind'[q], req'[q], DOMAIN bills')
<1>1. PICK r \in ReqType : Moves(p, r) /\ Suits(kind[p], r, DOMAIN bills)
  BY DEF Proceeds
<1>2. req \in [Request -> ReqType] /\ \A q \in Request : Suits(kind[q], req[q], DOMAIN bills)
  BY DEF Typed
<1>3. req' \in [Request -> ReqType]
  BY <1>1, <1>2 DEF Moves
<1>4. req'[p] = r /\ \A q \in Request : q # p => req'[q] = req[q]
  BY <1>1, <1>2, Moved
<1>5. \A q \in Request : Suits(kind[q], req'[q], DOMAIN bills)
  BY <1>1, <1>2, <1>4
<1> QED
  BY <1>3, <1>5, SuitsMore

\* What a step of the payment does.
Paid(p, a) ==
  /\ req[p].pc = "settle"
  /\ payments' = payments \cup {[by |-> p, bill |-> req[p].bill, amount |-> a]}
  /\ DOMAIN bills' = DOMAIN bills
  /\ \A e \in DOMAIN bills : e # req[p].bill => bills'[e] = bills[e]
  /\ LET e == req[p].bill
     IN /\ bills'[e].start = bills[e].start /\ bills'[e].end = bills[e].end
        /\ bills'[e].paid = req[p].paid + a
        /\ bills'[e].status = "paid" => req[p].paid + a >= req[p].total

LEMMA PayBillPays ==
  ASSUME Typed, NEW p \in Request, PayBill(p)
  PROVE  /\ \E a \in Nat \ {0} : Paid(p, a)
         /\ BillsTyped' /\ payments' \subseteq Payment /\ IsFiniteSet(payments')
         /\ \A x \in payments' : x.bill \in DOMAIN bills'
<1> DEFINE e == req[p].bill
           paid == req[p].paid
           total == req[p].total
<1>0. TablesTyped /\ BillsTyped
  BY TypedParts DEF TablesTyped
<1>1. req[p].pc = "settle" /\ e \in DOMAIN bills /\ paid \in Nat /\ total \in Nat /\ paid < total
  <2>1. req[p].pc = "settle" /\ Suits(kind[p], req[p], DOMAIN bills) /\ req[p] \in ReqType
    BY DEF PayBill, Typed
  <2> QED BY <2>1, RequestFacts DEF Suits
<1>2. PICK a \in {1, total - paid} :
        /\ payments' = payments \cup {[by |-> p, bill |-> e, amount |-> a]}
        /\ bills' = [bills EXCEPT ![e].paid = paid + a,
                                  ![e].status = IF paid + a >= total THEN "paid" ELSE "open"]
  BY DEF PayBill
<1>3. a \in Nat \ {0} /\ paid + a \in Nat
  BY <1>1, <1>2
<1> DEFINE s == IF paid + a >= total THEN "paid" ELSE "open"
           b == [bills[e] EXCEPT !.paid = paid + a, !.status = s]
<1>4. bills' = [bills EXCEPT ![e] = b]
  BY <1>0, <1>1, <1>2 DEF BillsTyped
<1>5. s \in {"open", "paid"} /\ (s = "paid" => paid + a >= total)
  OBVIOUS
<1> HIDE DEF s, paid
<1>6. b \in Bill /\ b.start = bills[e].start /\ b.end = bills[e].end
      /\ b.paid = paid + a /\ b.status = s
  <2>1. bills[e] \in Bill
    BY <1>0, <1>1 DEF BillsTyped
  <2> HIDE DEF e
  <2> QED BY <1>3, <1>5, <2>1 DEF Bill
<1> HIDE DEF b, e
<1>7. DOMAIN bills' = DOMAIN bills /\ bills'[e] = b
      /\ \A x \in DOMAIN bills : x # e => bills'[x] = bills[x]
  BY <1>0, <1>1, <1>4 DEF BillsTyped
<1>8. BillsTyped'
  BY <1>0, <1>1, <1>4, <1>6 DEF BillsTyped
<1>9. Paid(p, a)
  BY <1>1, <1>2, <1>5, <1>6, <1>7 DEF Paid, e, paid
<1>10. payments' \subseteq Payment
  <2>1. e \in Date
    BY <1>0, <1>1 DEF BillsTyped
  <2> QED BY <1>0, <1>2, <1>3, <2>1 DEF TablesTyped, Payment
<1>11. IsFiniteSet(payments')
  BY <1>0, <1>2, FS_AddElement DEF TablesTyped
<1>12. \A x \in payments' : x.bill \in DOMAIN bills'
  BY <1>0, <1>1, <1>2, <1>7 DEF TablesTyped
<1> QED
  BY <1>3, <1>8, <1>9, <1>10, <1>11, <1>12

LEMMA PurchaseBuys ==
  ASSUME Typed, NEW p \in Request, Purchase(p)
  PROVE  /\ TxTyped' /\ BillsTyped'
         /\ \E d \in Dates :
              /\ UpsertBill(req[p].closing, d)
              /\ IsDate(d) /\ tx'[<<p, 0>>].date = d
         /\ \A t \in TxId : t # <<p, 0>> => tx'[t] = tx[t]
         /\ req[p].closing \in 1..31 /\ req[p].pc = "charge"
<1>1. PICK d \in Dates, a \in Amounts :
        /\ tx' = [tx EXCEPT ![<<p, 0>>] = [date |-> d, amount |-> a, plan |-> FALSE]]
        /\ UpsertBill(req[p].closing, d)
  BY DEF Purchase
<1>2. IsDate(d) /\ d \in Date /\ a \in Nat
  BY InstallmentConstants, CardConstants DEF IsDate
<1>3. <<p, 0>> \in TxId
  BY InstallmentConstants, IdFacts
<1>4. BillsTyped /\ TxTyped
  BY TypedParts DEF TablesTyped
<1> DEFINE e == [date |-> d, amount |-> a, plan |-> FALSE]
<1>5. e \in Tx /\ e.date = d
  BY <1>2 DEF Tx
<1>6. tx' = [tx EXCEPT ![<<p, 0>>] = e]
  BY <1>1
<1> HIDE DEF e
<1>7. TxTyped' /\ tx'[<<p, 0>>] = e /\ \A t \in TxId : t # <<p, 0>> => tx'[t] = tx[t]
  BY <1>2, <1>3, <1>4, <1>5, <1>6 DEF TxTyped
<1>8. req[p].pc = "charge" /\ req[p].closing \in 1..31
  <2>1. req[p].pc = "charge" /\ Suits(kind[p], req[p], DOMAIN bills)
    BY DEF Purchase, Typed
  <2> QED BY <2>1, CardConstants DEF Suits
<1>9. BillsTyped'
  BY <1>1, <1>2, <1>4, <1>8, Upserted
<1> QED
  BY <1>1, <1>2, <1>5, <1>7, <1>8, <1>9

LEMMA TypedInit ==
  ASSUME Init
  PROVE  Typed
<1>1. /\ plan = "none" /\ rows = [n \in Number |-> NoRow] /\ tx = [t \in TxId |-> NoTx]
      /\ today \in Dates /\ kind \in Mixes /\ faults = 0 /\ raced = {}
      /\ req = [p \in Request |-> NewReq]
      /\ closing \in Closing /\ bills = [e \in {} |-> NoBill] /\ payments = {}
  BY DEF Init, PlanInit
<1>2. TxTyped /\ rows \in [Number -> Row]
  BY <1>1, NothingFits DEF TxTyped
<1>3. DOMAIN bills = {} /\ BillsTyped
  BY <1>1 DEF BillsTyped
<1>4. TablesTyped
  <2>1. faults \in 0..MaxFaults
    BY <1>1, InstallmentConstants
  <2> QED BY <1>1, <1>2, <1>3, <2>1, FS_EmptySet DEF TablesTyped
<1>5. req \in [Request -> ReqType] /\ \A p \in Request : Suits(kind[p], req[p], DOMAIN bills)
  BY <1>1, OverFits
<1> QED
  BY <1>1, <1>4, <1>5, TypedParts

\* A step of a request, and what it leaves alone.
LEMMA TypedStep ==
  ASSUME Typed, [Next]_vars
  PROVE  Typed'
<1>0. /\ TablesTyped /\ raced \subseteq Number /\ req \in [Request -> ReqType]
      /\ \A p \in Request : Suits(kind[p], req[p], DOMAIN bills)
  BY TypedParts
<1>1. ASSUME NEW p \in Request, PlanPart(p) \/ CardPart(p), Watch
      PROVE  Typed'
  <2>1. raced' \subseteq Number
    BY <1>0, <1>1 DEF Watch
  <2>2. Proceeds(p)
    BY <1>1, PlanProceeds, CardProceeds DEF PlanPart, CardPart
  <2>3. SUFFICES TablesTyped' /\ kind' = kind /\ DOMAIN bills \subseteq DOMAIN bills'
    <3>1. /\ (req \in [Request -> ReqType])'
          /\ (\A q \in Request : Suits(kind[q], req[q], DOMAIN bills))'
      BY <2>2, <2>3, RequestTypes
    <3>2. TablesTyped' /\ (raced \subseteq Number)'
      BY <2>1, <2>3
    <3> QED BY <3>1, <3>2, TypedNext
  <2>4. CASE PlanPart(p)
    <3>1. /\ plan' \in {"none", "live", "gone"} /\ rows' \in [Number -> Row] /\ TxTyped'
          /\ faults' \in 0..MaxFaults /\ today' = today /\ kind' = kind
      BY <2>4, PlanTables DEF PlanPart
    <3>2. UNCHANGED <<closing, bills, payments>>
      BY <2>4 DEF PlanPart
    <3> QED BY <1>0, <3>1, <3>2 DEF TablesTyped, BillsTyped
  <2>5. CASE ReadCard(p) \/ ReadBill(p) \/ ReadInstallments(p)
    <3>1. UNCHANGED <<plan, rows, tx, today, kind, faults, closing, bills, payments>>
      BY <2>5 DEF ReadCard, ReadBill, ReadInstallments, cardVars
    <3> QED BY <1>0, <3>1 DEF TablesTyped, BillsTyped, TxTyped
  <2>6. CASE PayBill(p)
    <3>1. UNCHANGED <<plan, rows, tx, today, kind, faults, closing>>
      BY <2>6 DEF PayBill
    <3>2. /\ BillsTyped' /\ payments' \subseteq Payment /\ IsFiniteSet(payments')
          /\ (\A x \in payments' : x.bill \in DOMAIN bills')
          /\ DOMAIN bills' = DOMAIN bills
      BY <2>6, PayBillPays DEF Paid
    <3> QED BY <1>0, <3>1, <3>2 DEF TablesTyped, TxTyped
  <2>7. CASE Purchase(p)
    <3>1. UNCHANGED <<plan, rows, today, kind, faults, closing, payments>>
      BY <2>7 DEF Purchase
    <3>2. TxTyped' /\ BillsTyped' /\ DOMAIN bills \subseteq DOMAIN bills'
      <4>1. TxTyped' /\ BillsTyped'
        BY <2>7, PurchaseBuys
      <4>2. \E d \in Dates : UpsertBill(req[p].closing, d)
        BY <2>7, PurchaseBuys
      <4> QED BY <4>1, <4>2 DEF UpsertBill
    <3> QED BY <1>0, <3>1, <3>2 DEF TablesTyped
  <2>8. CASE Anticipate(p)
    <3>1. UNCHANGED <<plan, today, kind, faults, closing, payments>>
      BY <2>8 DEF Anticipate
    <3>2. rows' \in [Number -> Row] /\ TxTyped'
      BY <2>8, AnticipateCharges
    <3>3. BillsTyped' /\ DOMAIN bills \subseteq DOMAIN bills'
      <4>1. CASE UNCHANGED bills
        BY <1>0, <4>1 DEF TablesTyped, BillsTyped
      <4>2. CASE UpsertBill(req[p].closing, req[p].day)
        <5>1. req[p].closing \in 1..31 /\ IsDate(req[p].day)
          BY <1>0, <2>8, CardConstants DEF Suits, Anticipate
        <5> QED BY <1>0, <4>2, <5>1, Upserted DEF TablesTyped
      <4> QED BY <2>8, <4>1, <4>2, AnticipateCharges DEF Charged
    <3> QED BY <1>0, <3>1, <3>2, <3>3 DEF TablesTyped
  <2> QED
    BY <1>1, <2>4, <2>5, <2>6, <2>7, <2>8 DEF CardPart
<1>2. CASE DayPasses /\ UNCHANGED cardVars
  <2>1. /\ UNCHANGED <<plan, rows, tx, kind, req, faults, raced, closing, bills, payments>>
        /\ today' \in Dates
    BY <1>2 DEF DayPasses, cardVars
  <2>2. TablesTyped'
    BY <1>0, <2>1 DEF TablesTyped, BillsTyped, TxTyped
  <2>3. (raced \subseteq Number)' /\ (req \in [Request -> ReqType])'
        /\ (\A p \in Request : Suits(kind[p], req[p], DOMAIN bills))'
    BY <1>0, <2>1
  <2> QED BY <2>2, <2>3, TypedNext
<1>3. CASE ChangeClosing
  <2>1. /\ UNCHANGED <<plan, rows, tx, today, kind, req, faults, raced, bills, payments>>
        /\ closing' \in Closing
    BY <1>3 DEF ChangeClosing, planVars
  <2>2. TablesTyped'
    BY <1>0, <2>1 DEF TablesTyped, BillsTyped, TxTyped
  <2>3. (raced \subseteq Number)' /\ (req \in [Request -> ReqType])'
        /\ (\A p \in Request : Suits(kind[p], req[p], DOMAIN bills))'
    BY <1>0, <2>1
  <2> QED BY <2>2, <2>3, TypedNext
<1>4. CASE UNCHANGED vars
  <2>1. UNCHANGED <<plan, rows, tx, today, kind, req, faults, raced, closing, bills, payments>>
    BY <1>4 DEF vars, planVars, cardVars
  <2>2. TablesTyped'
    BY <1>0, <2>1 DEF TablesTyped, BillsTyped, TxTyped
  <2>3. (raced \subseteq Number)' /\ (req \in [Request -> ReqType])'
        /\ (\A p \in Request : Suits(kind[p], req[p], DOMAIN bills))'
    BY <1>0, <2>1
  <2> QED BY <2>2, <2>3, TypedNext
<1> QED
  BY <1>1, <1>2, <1>3, <1>4 DEF Next

------------------------------------------------------------------------------
(* The plan. *)

LEMMA IdParts ==
  ASSUME NEW t \in TxId
  PROVE  t[1] \in Request /\ t[2] \in 0..N /\ t = <<t[1], t[2]>>
BY DEF TxId

\* What is said of an installment that is not raced after a step.
LEMMA Watched ==
  ASSUME Watch, NEW n \in Number \ raced'
  PROVE  /\ n \notin raced
         /\ \A p, q \in Request : Unposted(p, n)' /\ Unposted(q, n)' => p = q
         /\ HasRow(n) /\ ~HasRow(n)' /\ plan' = "live" =>
              \A q \in Request : n \notin req[q].todo /\ n \notin DOMAIN req[q].seen
BY DEF Watch

\* A step of p that leaves the plan as it is, and p with no more to do and
\* nothing new read.
Eases(p) ==
  /\ req[p].pc # "rows" => req'[p].pc # "rows"
  /\ req'[p].todo # {} /\ req'[p].pc # "rows" => req[p].pc # "rows"
  /\ req'[p].todo \subseteq req[p].todo
  /\ DOMAIN req'[p].seen \subseteq DOMAIN req[p].seen
  /\ \A n \in DOMAIN req'[p].seen : req'[p].seen[n] = req[p].seen[n]

LEMMA QuietStep ==
  ASSUME PlanFits, NEW p \in Request, Eases(p),
         \A q \in Request : q # p => req'[q] = req[q],
         plan' = plan, rows' = rows, Watch,
         \A n \in Number : /\ Charges(n)' \subseteq Charges(n)
                           /\ plan = "live" => Charges(n)' = Charges(n)
  PROVE  PlanFits'
<1>1. ASSUME NEW n \in Number PROVE RowFits(n)'
  <2>1. RowFits(n)
    BY DEF PlanFits, RowsFit
  <2>2. ASSUME NEW q \in Request, n \in DOMAIN req'[q].seen
        PROVE  n \in DOMAIN req[q].seen /\ req'[q].seen[n] = req[q].seen[n]
    BY <2>2 DEF Eases
  <2> QED BY <2>1, <2>2 DEF RowFits, HasRow
<1>2. plan' = "none" =>
        /\ \A q \in Request : req'[q].todo = {} /\ DOMAIN req'[q].seen = {}
        /\ \A n \in Number : Charges(n)' = {}
  BY DEF PlanFits, RowsFit, Eases
<1>3. ASSUME NEW q \in Request PROVE Creates(q)'
  <2>1. Creates(q)
    BY DEF PlanFits, RowsFit
  <2>2. \A r \in Request : /\ req'[r].pc = "rows" => req[r].pc = "rows"
                           /\ req'[r].todo \subseteq req[r].todo
    BY DEF Eases
  <2> QED BY <2>1, <2>2 DEF Creates, HasRow
<1>4. ASSUME NEW n \in Number \ raced' PROVE Sole(n)'
  <2>1. Sole(n) /\ \A q, r \in Request : Unposted(q, n)' /\ Unposted(r, n)' => q = r
    BY <1>4, Watched DEF PlanFits
  <2>2. ASSUME NEW q \in Request, n \in DOMAIN req'[q].seen
        PROVE  n \in DOMAIN req[q].seen /\ req'[q].seen[n] = req[q].seen[n]
    BY <2>2 DEF Eases
  <2>3. ASSUME NEW q \in Request, n \in req'[q].todo, req'[q].pc # "rows"
        PROVE  n \in req[q].todo /\ req[q].pc # "rows"
    BY <2>3 DEF Eases
  <2>4. Charges(n)' \subseteq Charges(n) /\ (plan = "live" => Charges(n)' = Charges(n))
    OBVIOUS
  <2>5. Current(n)'
    BY <2>1, <2>2, <2>3, <2>4 DEF Sole, Current, HasRow
  <2> QED BY <2>1, <2>5 DEF Sole
<1> QED
  BY <1>1, <1>2, <1>3, <1>4 DEF PlanFits, RowsFit

LEMMA SameCharges ==
  ASSUME UNCHANGED tx, NEW n
  PROVE  Charges(n)' = Charges(n)
BY DEF Charges, Live

\* A request that finishes has nothing left to do.
LEMMA FinishEases ==
  ASSUME Typed, NEW p \in Request, Finish(p)
  PROVE  Eases(p) /\ \A q \in Request : q # p => req'[q] = req[q]
<1>1. req \in [Request -> ReqType]
  BY DEF Typed
<1>2. req'[p] = Over
  BY <1>1 DEF Finish
<1>3. Over.pc = "done" /\ Over.todo = {} /\ DOMAIN Over.seen = {}
  BY OverFits
<1> QED
  BY <1>1, <1>2, <1>3 DEF Eases, Finish

\* The transaction that p makes for n is one more that n is charged by.
LEMMA ChargesMade ==
  ASSUME TxTyped, NEW p \in Request, NEW m \in Number, CanPost,
         tx' = [tx EXCEPT ![<<p, m>>] = Expense(Due(m), InstallmentAmount)],
         NEW n \in Number
  PROVE  Charges(n)' = IF n = m THEN Charges(n) \cup {<<p, m>>} ELSE Charges(n)
<1>1. /\ <<p, m>> \in TxId /\ tx'[<<p, m>>].amount > 0
      /\ \A t \in TxId : t # <<p, m>> => tx'[t] = tx[t]
  BY TxMade DEF CanPost
<1>2. <<p, m>> # NoId /\ <<p, m>>[2] = m
  BY InstallmentConstants DEF NoId
<1>3. ASSUME NEW t \in TxId PROVE t \in Charges(n)' <=> (t = <<p, m>> /\ n = m) \/ t \in Charges(n)
  BY <1>1, <1>2, Zenon DEF Charges, Live
<1>4. Charges(n)' \subseteq TxId /\ Charges(n) \subseteq TxId
  BY DEF Charges
<1> QED
  BY <1>1, <1>3, <1>4

\* A step that writes the rows ns of a live plan.
LEMMA WriteStep ==
  ASSUME Typed, PlanFits, NEW p \in Request, Eases(p),
         \A q \in Request : q # p => req'[q] = req[q],
         plan' = plan, plan = "live", Watch,
         NEW ns \in SUBSET Number,
         \A m \in Number \ ns : rows'[m] = rows[m] /\ Charges(m)' = Charges(m),
         \A n \in ns :
           /\ rows'[n].tx \in TxOf(n)
           /\ ~HasRow(n)' => rows'[n] = NoRow
           /\ rows'[n].status = "paid" \/ rows'[n].bill # NoBill => rows'[n].tx # NoId
           /\ HasRow(n)' /\ ~HasRow(n) => req[p].pc = "rows" /\ n \notin req'[p].todo,
         \A n \in ns \ raced' : Current(n)'
  PROVE  PlanFits'
<1>1. ASSUME NEW n \in Number PROVE RowFits(n)'
  <2>1. RowFits(n)
    BY DEF PlanFits, RowsFit
  <2>2. ASSUME NEW q \in Request, n \in DOMAIN req'[q].seen
        PROVE  n \in DOMAIN req[q].seen /\ req'[q].seen[n] = req[q].seen[n]
    BY <2>2 DEF Eases
  <2>3. CASE n \in ns
    BY <2>1, <2>2, <2>3 DEF RowFits, HasRow
  <2>4. CASE n \notin ns
    BY <2>1, <2>2, <2>4 DEF RowFits, HasRow
  <2> QED BY <2>3, <2>4
<1>2. plan' # "none"
  OBVIOUS
<1>3. ASSUME NEW q \in Request PROVE Creates(q)'
  <2>1. Creates(q)
    BY DEF PlanFits, RowsFit
  <2>2. \A r \in Request : /\ req'[r].pc = "rows" => req[r].pc = "rows"
                           /\ req'[r].todo \subseteq req[r].todo
    BY DEF Eases
  <2>3. ASSUME req'[q].pc = "rows", NEW n \in req'[q].todo, HasRow(n)'
        PROVE  FALSE
    <3>1. ~HasRow(n) /\ req[q].pc = "rows" /\ \A r \in Request : req[r].pc = "rows" => r = q
      BY <2>1, <2>2, <2>3 DEF Creates
    <3>2. CASE n \in ns
      <4>1. req[p].pc = "rows" /\ n \notin req'[p].todo
        BY <2>3, <3>1, <3>2
      <4> QED BY <2>3, <3>1, <4>1
    <3>3. CASE n \in Number \ ns
      BY <2>3, <3>1, <3>3 DEF HasRow
    <3>4. CASE n \notin Number
      <4>1. req[q].todo \subseteq Number
        BY RequestFacts DEF Typed
      <4> QED BY <2>2, <2>3, <3>4, <4>1
    <3> QED BY <3>2, <3>3, <3>4
  <2> QED BY <2>1, <2>2, <2>3 DEF Creates
<1>4. ASSUME NEW n \in Number \ raced' PROVE Sole(n)'
  <2>1. Sole(n) /\ \A q, r \in Request : Unposted(q, n)' /\ Unposted(r, n)' => q = r
    BY <1>4, Watched DEF PlanFits
  <2>2. CASE n \in ns
    BY <2>1, <2>2 DEF Sole
  <2>3. CASE n \notin ns
    <3>1. ASSUME NEW q \in Request, n \in DOMAIN req'[q].seen
          PROVE  n \in DOMAIN req[q].seen /\ req'[q].seen[n] = req[q].seen[n]
      BY <3>1 DEF Eases
    <3>2. ASSUME NEW q \in Request, n \in req'[q].todo, req'[q].pc # "rows"
          PROVE  n \in req[q].todo /\ req[q].pc # "rows"
      BY <3>2 DEF Eases
    <3>3. Charges(n)' = Charges(n) /\ rows'[n] = rows[n]
      BY <2>3
    <3>4. Current(n)'
      BY <2>1, <3>1, <3>2, <3>3 DEF Sole, Current, HasRow
    <3> QED BY <2>1, <3>4 DEF Sole
  <2> QED BY <2>2, <2>3
<1> QED
  BY <1>1, <1>2, <1>3, <1>4 DEF PlanFits, RowsFit

\* A step in which p reads some installments, or finds some to do.
LEMMA ReadStep ==
  ASSUME PlanFits, NEW p \in Request,
         \A q \in Request : q # p => req'[q] = req[q],
         UNCHANGED <<plan, rows, tx>>, plan # "none", Watch,
         req[p].pc # "rows", req'[p].pc # "rows",
         req'[p].todo \subseteq Number,
         \A n \in DOMAIN req'[p].seen :
           /\ req'[p].seen[n].tx \in TxOf(n)
           /\ n \notin raced /\ plan = "live" => HasRow(n) /\ req'[p].seen[n].tx = rows[n].tx,
         \A n \in req'[p].todo : n \notin raced /\ plan = "live" => HasRow(n)
  PROVE  PlanFits'
<1>1. ASSUME NEW n \in Number PROVE RowFits(n)'
  <2>1. RowFits(n)
    BY DEF PlanFits, RowsFit
  <2>2. \A q \in Request : n \in DOMAIN req'[q].seen => req'[q].seen[n].tx \in TxOf(n)
    BY <2>1 DEF RowFits
  <2> QED BY <2>1, <2>2 DEF RowFits, HasRow
<1>2. plan' # "none"
  OBVIOUS
<1>3. ASSUME NEW q \in Request PROVE Creates(q)'
  <2>1. Creates(q)
    BY DEF PlanFits, RowsFit
  <2> QED BY <2>1 DEF Creates, HasRow
<1>4. ASSUME NEW n \in Number \ raced' PROVE Sole(n)'
  <2>1. n \notin raced /\ \A q, r \in Request : Unposted(q, n)' /\ Unposted(r, n)' => q = r
    BY <1>4, Watched
  <2>2. Current(n)
    BY <2>1 DEF PlanFits, Sole
  <2>3. Charges(n)' = Charges(n)
    BY SameCharges
  <2>4. Current(n)'
    BY <2>1, <2>2, <2>3 DEF Current, HasRow
  <2> QED BY <2>1, <2>4 DEF Sole
<1> QED
  BY <1>1, <1>2, <1>3, <1>4 DEF PlanFits, RowsFit

LEMMA NumberPosted ==
  ASSUME NEW p \in Request, NEW n \in Number
  PROVE  <<p, n>> \in TxOf(n) /\ <<p, n>> # NoId /\ n # 0 /\ n \in 0..N
BY InstallmentConstants DEF TxOf, NoId, Number

LEMMA CreateFits ==
  ASSUME Typed, PlanFits, NEW p \in Request, CreatePlan(p), Watch
  PROVE  PlanFits'
<1>1. plan = "none" /\ plan' = "live" /\ rows' = rows /\ tx' = tx /\ req[p].pc = "new"
  BY DEF CreatePlan
<1>2. /\ req'[p].pc = "rows" /\ req'[p].todo = Number /\ req'[p].seen = req[p].seen
      /\ \A q \in Request : q # p => req'[q] = req[q]
  <2>1. req \in [Request -> ReqType]
    BY DEF Typed
  <2> QED BY <2>1 DEF CreatePlan, ReqType
<1>3. /\ \A q \in Request : req[q].todo = {} /\ DOMAIN req[q].seen = {} /\ req[q].pc # "rows"
      /\ \A n \in Number : Charges(n) = {} /\ ~HasRow(n) /\ rows[n] = NoRow
  BY <1>1 DEF PlanFits, RowsFit, RowFits, Creates
<1>4. \A q \in Request : DOMAIN req'[q].seen = {}
  BY <1>2, <1>3
<1>5. ASSUME NEW n \in Number PROVE RowFits(n)'
  <2>1. RowFits(n)
    BY DEF PlanFits, RowsFit
  <2> QED BY <1>1, <1>3, <1>4, <2>1 DEF RowFits, HasRow
<1>6. ASSUME NEW q \in Request PROVE Creates(q)'
  BY <1>1, <1>2, <1>3 DEF Creates, HasRow
<1>7. ASSUME NEW n \in Number \ raced' PROVE Sole(n)'
  <2>1. \A q, r \in Request : Unposted(q, n)' /\ Unposted(r, n)' => q = r
    BY Watched
  <2>2. Charges(n)' = {} /\ rows'[n].tx = NoId
    BY <1>1, <1>3, SameCharges, NothingFits
  <2>3. \A q \in Request : req'[q].pc # "rows" => req'[q].todo = {}
    BY <1>2, <1>3
  <2>4. Current(n)'
    BY <1>1, <1>4, <2>2, <2>3 DEF Current
  <2> QED BY <2>1, <2>4 DEF Sole
<1> QED
  BY <1>1, <1>5, <1>6, <1>7 DEF PlanFits, RowsFit

LEMMA InsertFits ==
  ASSUME Typed, PlanFits, NEW p \in Request, InsertRow(p), Watch
  PROVE  PlanFits'
<1>0. req \in [Request -> ReqType]
  BY DEF Typed
<1>1. PICK n \in req[p].todo :
        /\ Finish(p) \/ req' = [req EXCEPT ![p].todo = @ \ {n}]
        /\ \/ plan = "live" /\ rows' = [rows EXCEPT ![n] = Pending]
           \/ UNCHANGED rows
  BY DEF InsertRow
<1>2. req[p].pc = "rows" /\ plan' = plan /\ tx' = tx
  BY DEF InsertRow
<1>3. /\ Eases(p) /\ n \notin req'[p].todo
      /\ \A q \in Request : q # p => req'[q] = req[q]
  <2>1. CASE Finish(p)
    <3>1. n \notin req'[p].todo
      BY <1>0, <2>1, OverFits DEF Finish
    <3> QED BY <2>1, <3>1, FinishEases
  <2>2. CASE req' = [req EXCEPT ![p].todo = @ \ {n}]
    <3>1. /\ req'[p].pc = req[p].pc /\ req'[p].seen = req[p].seen
          /\ req'[p].todo = req[p].todo \ {n}
          /\ \A q \in Request : q # p => req'[q] = req[q]
      BY <1>0, <2>2 DEF ReqType
    <3> QED BY <3>1 DEF Eases
  <2> QED BY <1>1, <2>1, <2>2
<1>4. \A m \in Number : Charges(m)' = Charges(m)
  BY <1>2, SameCharges
<1>5. CASE UNCHANGED rows
  BY <1>2, <1>3, <1>4, <1>5, QuietStep
<1>6. CASE plan = "live" /\ rows' = [rows EXCEPT ![n] = Pending]
  <2>1. n \in Number
    BY <1>0, RequestFacts
  <2>2. ~HasRow(n) /\ rows[n] = NoRow
    BY <1>2, <2>1 DEF PlanFits, RowsFit, RowFits, Creates
  <2>3. /\ rows'[n] = Pending /\ rows'[n].status = "pending" /\ rows'[n].tx = NoId
        /\ rows'[n].bill = NoBill
        /\ \A m \in Number : m # n => rows'[m] = rows[m]
    <3>1. rows \in [Number -> Row]
      BY TypedFacts
    <3> QED BY <1>6, <2>1, <3>1, NothingFits
  <2>4. ASSUME n \notin raced' PROVE Current(n)'
    <3>1. n \notin raced
      BY <2>1, <2>4, Watched
    <3>2. Current(n)
      BY <2>1, <3>1 DEF PlanFits, Sole
    <3>3. Charges(n)' = {}
      BY <1>4, <1>6, <2>1, <2>2, <3>2, NothingFits DEF Current
    <3>4. \A q \in Request : n \notin DOMAIN req'[q].seen
      BY <1>3, <1>6, <2>2, <3>2 DEF Current, Eases
    <3>5. HasRow(n)'
      BY <2>3 DEF HasRow
    <3> QED BY <1>2, <1>6, <2>3, <3>3, <3>4, <3>5 DEF Current
  <2>5. /\ rows'[n].tx \in TxOf(n)
        /\ ~HasRow(n)' => rows'[n] = NoRow
        /\ rows'[n].status = "paid" \/ rows'[n].bill # NoBill => rows'[n].tx # NoId
        /\ HasRow(n)' /\ ~HasRow(n) => req[p].pc = "rows" /\ n \notin req'[p].todo
    BY <1>2, <1>3, <2>3 DEF TxOf, HasRow
  <2>6. \A m \in Number \ {n} : rows'[m] = rows[m] /\ Charges(m)' = Charges(m)
    BY <1>4, <2>3
  <2>7. {n} \in SUBSET Number
    BY <2>1
  <2> QED BY <1>2, <1>3, <1>6, <2>4, <2>5, <2>6, <2>7, WriteStep
<1> QED
  BY <1>1, <1>5, <1>6

LEMMA SplitFits ==
  ASSUME Typed, PlanFits, NEW p \in Request, SplitPlan(p), Watch
  PROVE  PlanFits'
<1>0. plan = "none" /\ Finish(p)
  BY DEF SplitPlan
<1>1. CASE ~\A n \in Number : Part(n) > 0
  <2>1. UNCHANGED <<plan, rows, tx>>
    BY <1>1 DEF SplitPlan
  <2> QED BY <1>0, <2>1, FinishEases, SameCharges, QuietStep
<1>2. CASE \A n \in Number : Part(n) > 0
  <2>1. /\ plan' = "live"
        /\ rows' = [n \in Number |-> [status |-> "generated", tx |-> <<p, n>>, bill |-> NoBill]]
        /\ tx' = [t \in TxId |-> IF t[1] = p /\ t[2] \in Number
                                 THEN Expense(Due(t[2]), Part(t[2])) ELSE tx[t]]
    BY <1>2 DEF SplitPlan
  <2>2. /\ \A q \in Request : req[q].todo = {} /\ DOMAIN req[q].seen = {} /\ req[q].pc # "rows"
        /\ \A n \in Number : Charges(n) = {}
    BY <1>0 DEF PlanFits, RowsFit, Creates
  <2>3. \A q \in Request : req'[q].todo = {} /\ DOMAIN req'[q].seen = {} /\ req'[q].pc # "rows"
    BY <1>0, <2>2, FinishEases DEF Eases
  <2>4. ASSUME NEW n \in Number
        PROVE  /\ Charges(n)' = {<<p, n>>} /\ HasRow(n)' /\ rows'[n].tx = <<p, n>>
               /\ rows'[n].bill = NoBill /\ rows'[n].status = "generated"
    <3>1. <<p, n>> \in TxId /\ <<p, n>> # NoId
      BY NumberPosted, IdFacts
    <3>2. tx'[<<p, n>>].amount > 0
      <4>1. tx'[<<p, n>>] = Expense(Due(n), Part(n))
        BY <2>1, <3>1
      <4> QED BY <1>2, <4>1 DEF Expense
    <3>3. ASSUME NEW t \in TxId, t[2] = n, Live(t)' PROVE t = <<p, n>>
      <4>1. CASE t[1] = p
        BY <3>3, <4>1, IdParts
      <4>2. CASE t[1] # p
        <5>1. tx'[t] = tx[t]
          BY <2>1, <4>2
        <5>2. t \in Charges(n)
          BY <3>3, <5>1 DEF Charges, Live
        <5> QED BY <2>2, <5>2
      <4> QED BY <4>1, <4>2
    <3>4. <<p, n>> \in Charges(n)'
      BY <3>1, <3>2 DEF Charges, Live
    <3>5. Charges(n)' = {<<p, n>>}
      BY <3>3, <3>4 DEF Charges
    <3> QED BY <2>1, <3>5 DEF HasRow
  <2>5. ASSUME NEW n \in Number PROVE RowFits(n)'
    BY <2>1, <2>3, <2>4, NumberPosted DEF RowFits
  <2>6. ASSUME NEW q \in Request PROVE Creates(q)'
    BY <2>3 DEF Creates
  <2>7. ASSUME NEW n \in Number \ raced' PROVE Sole(n)'
    <3>1. \A q, r \in Request : Unposted(q, n)' /\ Unposted(r, n)' => q = r
      BY Watched
    <3>2. Current(n)'
      BY <2>1, <2>3, <2>4, NumberPosted DEF Current
    <3> QED BY <3>1, <3>2 DEF Sole
  <2> QED BY <2>1, <2>5, <2>6, <2>7 DEF PlanFits, RowsFit
<1> QED
  BY <1>1, <1>2

LEMMA EraseFits ==
  ASSUME Typed, PlanFits, NEW p \in Request, ErasePlan(p), Watch
  PROVE  PlanFits'
<1>0. Finish(p) /\ tx' = tx /\ req[p].pc = "erase"
  BY DEF ErasePlan
<1>1. CASE UNCHANGED <<plan, rows>>
  BY <1>0, <1>1, FinishEases, SameCharges, QuietStep
<1>2. CASE ~UNCHANGED <<plan, rows>>
  <2>1. plan' = "gone" /\ plan # "gone" /\ rows' = [n \in Number |-> NoRow]
    BY <1>2 DEF ErasePlan
  <2>2. \A n \in Number : rows'[n] = NoRow /\ ~HasRow(n)'
    BY <2>1, NothingFits DEF HasRow
  <2>3. ASSUME NEW n \in Number PROVE RowFits(n)'
    <3>1. RowFits(n)
      BY DEF PlanFits, RowsFit
    <3>2. ASSUME NEW q \in Request, n \in DOMAIN req'[q].seen
          PROVE  req'[q].seen[n].tx \in TxOf(n)
      <4>1. n \in DOMAIN req[q].seen /\ req'[q].seen[n] = req[q].seen[n]
        BY <1>0, <3>2, FinishEases DEF Eases
      <4> QED BY <3>1, <4>1 DEF RowFits
    <3> QED BY <2>2, <3>2, NothingFits DEF RowFits, TxOf
  <2>4. ASSUME NEW q \in Request PROVE Creates(q)'
    <3>1. Creates(q)
      BY DEF PlanFits, RowsFit
    <3>2. \A r \in Request : /\ req'[r].pc = "rows" => req[r].pc = "rows"
                             /\ req'[r].todo \subseteq req[r].todo
      BY <1>0, FinishEases DEF Eases
    <3>3. req[q].todo \subseteq Number
      BY RequestFacts DEF Typed
    <3> QED BY <2>1, <2>2, <3>1, <3>2, <3>3 DEF Creates
  <2>5. ASSUME NEW n \in Number \ raced' PROVE Sole(n)'
    <3>1. n \notin raced /\ \A q, r \in Request : Unposted(q, n)' /\ Unposted(r, n)' => q = r
      BY Watched
    <3>2. Charges(n)' = Charges(n)
      BY <1>0, SameCharges
    <3>3. \A t, u \in Charges(n) : t = u
      <4>1. CASE plan = "live"
        BY <3>1, <4>1 DEF PlanFits, Sole, Current
      <4>2. CASE plan = "none"
        BY <4>2 DEF PlanFits, RowsFit
      <4>3. plan \in {"none", "live", "gone"}
        BY DEF Typed, TypeOK
      <4> QED BY <2>1, <4>1, <4>2, <4>3
    <3>4. Current(n)'
      BY <2>1, <3>2, <3>3 DEF Current
    <3> QED BY <3>1, <3>4 DEF Sole
  <2> QED BY <2>1, <2>3, <2>4, <2>5 DEF PlanFits, RowsFit
<1> QED
  BY <1>1, <1>2

LEMMA ScanFits ==
  ASSUME Typed, PlanFits, NEW p \in Request, Scan(p), Watch
  PROVE  PlanFits'
<1> DEFINE ns == {n \in Number : /\ HasRow(n)
                                 /\ rows[n].status = "pending"
                                 /\ rows[n].bill = NoBill
                                 /\ NotAfter(Due(n), today)}
<1>1. /\ req' = [req EXCEPT ![p].pc = "check", ![p].todo = ns]
      /\ req[p].pc = "new" /\ plan # "none" /\ UNCHANGED <<plan, rows, tx>>
  BY DEF Scan
<1>2. ns \subseteq Number /\ \A n \in ns : HasRow(n)
  OBVIOUS
<1> HIDE DEF ns
<1>3. /\ req'[p].pc = "check" /\ req'[p].todo = ns /\ req'[p].seen = req[p].seen
      /\ \A q \in Request : q # p => req'[q] = req[q]
  <2>1. req \in [Request -> ReqType]
    BY DEF Typed
  <2> QED BY <1>1, <2>1 DEF ReqType
<1>4. DOMAIN req[p].seen = {}
  BY <1>1 DEF Typed, Suits
<1> QED
  BY <1>1, <1>2, <1>3, <1>4, ReadStep

LEMMA CheckFits ==
  ASSUME Typed, PlanFits, NEW p \in Request, Check(p), Watch
  PROVE  PlanFits'
<1>0. /\ UNCHANGED <<plan, rows, tx>> /\ req[p].pc = "check"
      /\ req \in [Request -> ReqType] /\ DOMAIN req[p].seen = {}
  BY DEF Check, Typed, Suits
<1>1. CASE req[p].todo = {}
  <2>1. Finish(p)
    BY <1>1 DEF Check
  <2> QED BY <1>0, <2>1, FinishEases, SameCharges, QuietStep
<1>2. CASE req[p].todo # {}
  <2>1. PICK n \in req[p].todo :
          IF HasRow(n) /\ rows[n].tx # NoId
          THEN req' = [req EXCEPT ![p].todo = @ \ {n}]
          ELSE req' = [req EXCEPT ![p].pc = "post", ![p].todo = @ \ {n},
                         ![p].seen = Of(n, NoId, InstallmentAmount)]
    BY <1>2 DEF Check
  <2>2. n \in Number /\ req[p].todo \subseteq Number /\ plan # "none"
    <3>1. req[p].todo \subseteq Number
      BY <1>0, RequestFacts
    <3> QED BY <2>1, <3>1 DEF PlanFits, RowsFit
  <2>3. ASSUME NEW m \in req[p].todo, m \notin raced, plan = "live" PROVE HasRow(m)
    <3>1. Current(m)
      BY <2>2, <2>3 DEF PlanFits, Sole
    <3> QED BY <1>0, <2>3, <3>1 DEF Current
  <2>4. CASE HasRow(n) /\ rows[n].tx # NoId
    <3>1. /\ req'[p].pc = "check" /\ req'[p].todo = req[p].todo \ {n}
          /\ req'[p].seen = req[p].seen
          /\ \A q \in Request : q # p => req'[q] = req[q]
      BY <1>0, <2>1, <2>4 DEF ReqType
    <3> QED BY <1>0, <2>2, <2>3, <3>1, ReadStep
  <2>5. CASE ~(HasRow(n) /\ rows[n].tx # NoId)
    <3> DEFINE s == Of(n, NoId, InstallmentAmount)
    <3>1. DOMAIN s = {n} /\ s[n].tx = NoId
      BY <2>2, SeenMade, ConstantsHold
    <3>2. req' = [req EXCEPT ![p].pc = "post", ![p].todo = @ \ {n}, ![p].seen = s]
      BY <2>1, <2>5
    <3> HIDE DEF s
    <3>3. /\ req'[p].pc = "post" /\ req'[p].todo = req[p].todo \ {n} /\ req'[p].seen = s
          /\ \A q \in Request : q # p => req'[q] = req[q]
      BY <1>0, <3>2 DEF ReqType
    <3>4. NoId \in TxOf(n)
      BY DEF TxOf
    <3>5. n \notin raced /\ plan = "live" => HasRow(n) /\ rows[n].tx = NoId
      BY <2>3, <2>5
    <3> QED BY <1>0, <2>2, <2>3, <3>1, <3>3, <3>4, <3>5, ReadStep
  <2> QED BY <2>4, <2>5
<1> QED
  BY <1>1, <1>2

\* Before its transaction, whoever has read an installment that is not raced has
\* read what its row says.
LEMMA ReadIsSo ==
  ASSUME PlanFits, NEW p \in Request, NEW n \in Number \ raced, n \in DOMAIN req[p].seen,
         plan = "live"
  PROVE  /\ HasRow(n) /\ req[p].seen[n].tx = rows[n].tx
         /\ Charges(n) = {rows[n].tx} \ {NoId}
         /\ rows[n].tx # NoId => Live(rows[n].tx)
         /\ rows[n].tx = NoId => \A q \in Request : n \in DOMAIN req[q].seen => q = p
<1>1. Sole(n) /\ Current(n)
  BY DEF PlanFits, Sole
<1>2. \A q \in Request : n \in DOMAIN req[q].seen => HasRow(n) /\ req[q].seen[n].tx = rows[n].tx
  BY <1>1 DEF Current
<1>3. Charges(n) = {rows[n].tx} \ {NoId}
  BY <1>1 DEF Current
<1>4. rows[n].tx # NoId => Live(rows[n].tx)
  BY <1>3 DEF Charges
<1>5. ASSUME rows[n].tx = NoId, NEW q \in Request, n \in DOMAIN req[q].seen PROVE q = p
  <2>1. Unposted(q, n) /\ Unposted(p, n)
    BY <1>2, <1>5 DEF Unposted
  <2> QED BY <1>1, <2>1 DEF Sole
<1> QED
  BY <1>2, <1>3, <1>4, <1>5

\* A transaction is made for n, and its row linked to it.
LEMMA PostFits ==
  ASSUME Typed, PlanFits, NEW p \in Request, NEW n \in Number, n \in DOMAIN req[p].seen,
         ~Live(req[p].seen[n].tx), CanPost,
         tx' = [tx EXCEPT ![<<p, n>>] = Expense(Due(n), InstallmentAmount)],
         NEW status \in {"generated", "paid"}, SetRow(n, <<p, n>>, status),
         Eases(p), n \notin DOMAIN req'[p].seen,
         \A q \in Request : q # p => req'[q] = req[q],
         plan' = plan, Watch
  PROVE  PlanFits'
<1>1. plan = "live" /\ TxTyped /\ rows \in [Number -> Row]
  BY TypedParts DEF CanPost, TablesTyped
<1>2. /\ <<p, n>> \in TxId /\ <<p, n>> \in TxOf(n) /\ <<p, n>> # NoId
  BY IdFacts, NumberPosted
<1>3. /\ HasRow(n) => /\ rows'[n].tx = <<p, n>> /\ rows'[n].status = status
                      /\ rows'[n].bill = rows[n].bill
      /\ ~HasRow(n) => rows' = rows
      /\ \A m \in Number : m # n => rows'[m] = rows[m]
  BY <1>1, <1>2, RowSet DEF Statuses
<1>4. \A m \in Number : Charges(m)' = IF m = n THEN Charges(m) \cup {<<p, n>>} ELSE Charges(m)
  BY <1>1, ChargesMade
<1>5. RowFits(n)
  BY DEF PlanFits, RowsFit
<1>6. ASSUME n \notin raced' PROVE Current(n)'
  <2>0. n \in Number \ raced
    BY <1>6, Watched
  <2>1. HasRow(n) /\ rows[n].tx = NoId /\ Charges(n) = {}
    BY <1>1, <2>0, ReadIsSo
  <2>2. \A q \in Request : n \notin DOMAIN req'[q].seen
    BY <1>1, <2>0, <2>1, ReadIsSo
  <2>3. rows'[n].tx = <<p, n>> /\ HasRow(n)' /\ Charges(n)' = {<<p, n>>}
    BY <1>3, <1>4, <2>1 DEF HasRow
  <2> QED BY <1>1, <1>2, <2>2, <2>3 DEF Current
<1>7. /\ rows'[n].tx \in TxOf(n)
      /\ ~HasRow(n)' => rows'[n] = NoRow
      /\ rows'[n].status = "paid" \/ rows'[n].bill # NoBill => rows'[n].tx # NoId
      /\ HasRow(n)' => HasRow(n)
  <2>1. CASE HasRow(n)
    BY <1>2, <1>3, <2>1 DEF HasRow
  <2>2. CASE ~HasRow(n)
    BY <1>3, <1>5, <2>2 DEF RowFits, HasRow
  <2> QED BY <2>1, <2>2
<1>8. \A m \in Number \ {n} : rows'[m] = rows[m] /\ Charges(m)' = Charges(m)
  BY <1>3, <1>4
<1>9. {n} \in SUBSET Number
  OBVIOUS
<1> QED
  BY <1>1, <1>6, <1>7, <1>8, <1>9, WriteStep

LEMMA PostGeneratedFits ==
  ASSUME Typed, PlanFits, NEW p \in Request, PostGenerated(p), Watch
  PROVE  PlanFits'
<1>0. /\ plan' = plan /\ req[p].pc = "post" /\ kind[p] = "generate"
      /\ req \in [Request -> ReqType]
  BY DEF PostGenerated, Typed
<1>1. PICK n \in DOMAIN req[p].seen :
        IF CanPost
        THEN /\ tx' = [tx EXCEPT ![<<p, n>>] = Expense(Due(n), InstallmentAmount)]
             /\ SetRow(n, <<p, n>>, "generated")
             /\ req' = [req EXCEPT ![p].pc = "check", ![p].seen = Unseen]
        ELSE Finish(p) /\ UNCHANGED <<tx, rows>>
  BY DEF PostGenerated
<1>2. CASE ~CanPost
  BY <1>0, <1>1, <1>2, FinishEases, SameCharges, QuietStep
<1>3. CASE CanPost
  <2>1. /\ req'[p].pc = "check" /\ req'[p].todo = req[p].todo /\ req'[p].seen = Unseen
        /\ \A q \in Request : q # p => req'[q] = req[q]
    BY <1>0, <1>1, <1>3 DEF ReqType
  <2>2. Eases(p) /\ n \notin DOMAIN req'[p].seen
    BY <1>0, <2>1, SeenMade DEF Eases
  <2>3. n \in Number /\ req[p].seen[n].tx = NoId
    <3>1. req[p].seen \in Seeing
      BY <1>0, RequestFacts
    <3> QED BY <1>0, <3>1, SeenFacts DEF Typed, Suits
  <2>4. ~Live(req[p].seen[n].tx)
    BY <2>3 DEF Live
  <2> QED BY <1>0, <1>1, <1>3, <2>1, <2>2, <2>3, <2>4, PostFits
<1> QED
  BY <1>2, <1>3

LEMMA PostPaidFits ==
  ASSUME Typed, PlanFits, NEW p \in Request, PostPaid(p), Watch
  PROVE  PlanFits'
<1>0. /\ plan' = plan /\ req[p].pc = "post" /\ Finish(p)
      /\ req \in [Request -> ReqType]
  BY DEF PostPaid, Typed
<1>00. /\ Eases(p) /\ DOMAIN req'[p].seen = {}
       /\ \A q \in Request : q # p => req'[q] = req[q]
  BY <1>0, FinishEases, OverFits DEF Finish
<1> DEFINE t(n) == req[p].seen[n].tx
<1>1. PICK n \in DOMAIN req[p].seen :
        \/ Live(t(n)) /\ SetRow(n, t(n), "paid") /\ UNCHANGED tx
        \/ /\ ~Live(t(n)) /\ CanPost
           /\ tx' = [tx EXCEPT ![<<p, n>>] = Expense(Due(n), InstallmentAmount)]
           /\ SetRow(n, <<p, n>>, "paid")
        \/ UNCHANGED <<tx, rows>>
  BY DEF PostPaid
<1>2. n \in Number /\ t(n) \in TxId \cup {NoId}
  BY <1>0, RequestFacts, SeenFacts
<1>3. CASE UNCHANGED <<tx, rows>>
  BY <1>0, <1>00, <1>3, SameCharges, QuietStep
<1>4. CASE /\ ~Live(t(n)) /\ CanPost
           /\ tx' = [tx EXCEPT ![<<p, n>>] = Expense(Due(n), InstallmentAmount)]
           /\ SetRow(n, <<p, n>>, "paid")
  BY <1>0, <1>00, <1>2, <1>4, PostFits
<1>5. CASE Live(t(n)) /\ SetRow(n, t(n), "paid") /\ UNCHANGED tx
  <2>1. \A m \in Number : Charges(m)' = Charges(m)
    BY <1>5, SameCharges
  <2>2. /\ HasRow(n) => /\ rows'[n].tx = t(n) /\ rows'[n].status = "paid"
                        /\ rows'[n].bill = rows[n].bill
        /\ ~HasRow(n) => rows' = rows
        /\ \A m \in Number : m # n => rows'[m] = rows[m]
    BY <1>2, <1>5, RowSet, TypedFacts DEF Statuses
  <2>3. CASE ~HasRow(n)
    BY <1>0, <1>00, <2>1, <2>2, <2>3, QuietStep
  <2>4. CASE HasRow(n)
    <3>1. t(n) # NoId /\ t(n) \in TxOf(n) /\ plan = "live"
      <4>1. RowFits(n)
        BY <1>2 DEF PlanFits, RowsFit
      <4> QED BY <1>5, <2>4, <4>1 DEF RowFits, Live
    <3>2. HasRow(n)'
      BY <2>2, <2>4 DEF HasRow
    <3>3. ASSUME n \notin raced' PROVE Current(n)'
      <4>1. n \in Number \ raced
        BY <1>2, <3>3, Watched
      <4>2. rows[n].tx = t(n) /\ Current(n)
        BY <3>1, <4>1, ReadIsSo DEF PlanFits, Sole
      <4>3. rows'[n].tx = rows[n].tx /\ Charges(n)' = Charges(n)
        BY <1>2, <2>1, <2>2, <2>4, <4>2
      <4>4. \A q \in Request : n \in DOMAIN req'[q].seen =>
              n \in DOMAIN req[q].seen /\ req'[q].seen[n] = req[q].seen[n]
        BY <1>00
      <4> QED BY <1>0, <3>1, <3>2, <4>2, <4>3, <4>4 DEF Current
    <3>4. /\ rows'[n].tx \in TxOf(n)
          /\ ~HasRow(n)' => rows'[n] = NoRow
          /\ rows'[n].status = "paid" \/ rows'[n].bill # NoBill => rows'[n].tx # NoId
      BY <2>2, <2>4, <3>1, <3>2
    <3>5. \A m \in Number \ {n} : rows'[m] = rows[m] /\ Charges(m)' = Charges(m)
      BY <2>1, <2>2
    <3>6. {n} \in SUBSET Number
      BY <1>2
    <3> QED BY <1>0, <1>00, <2>4, <3>1, <3>3, <3>4, <3>5, <3>6, WriteStep
  <2> QED BY <2>3, <2>4
<1> QED
  BY <1>1, <1>3, <1>4, <1>5

\* A row as it is read.
LEMMA RowRead ==
  ASSUME PlanFits, NEW n \in Number, HasRow(n)
  PROVE  rows[n].tx \in TxOf(n) /\ plan = "live"
BY DEF PlanFits, RowsFit, RowFits

LEMMA ReadInstallmentFits ==
  ASSUME Typed, PlanFits, NEW p \in Request, ReadInstallment(p), Watch
  PROVE  PlanFits'
<1>0. /\ UNCHANGED <<plan, rows, tx>> /\ req[p].pc = "new" /\ plan # "none"
      /\ req \in [Request -> ReqType] /\ req[p].todo = {}
  BY DEF ReadInstallment, Typed, Suits
<1>1. PICK n \in Number :
        IF HasRow(n) /\ rows[n].bill = NoBill
        THEN req' = [req EXCEPT ![p].pc = "post",
                       ![p].seen = Of(n, rows[n].tx, InstallmentAmount)]
        ELSE Finish(p)
  BY DEF ReadInstallment
<1>2. CASE Finish(p)
  BY <1>0, <1>2, FinishEases, SameCharges, QuietStep
<1>3. CASE HasRow(n) /\ rows[n].bill = NoBill
  <2> DEFINE s == Of(n, rows[n].tx, InstallmentAmount)
  <2>1. DOMAIN s = {n} /\ s[n].tx = rows[n].tx
    BY TypedFacts, SeenMade, ConstantsHold
  <2>2. req' = [req EXCEPT ![p].pc = "post", ![p].seen = s]
    BY <1>1, <1>3
  <2> HIDE DEF s
  <2>3. /\ req'[p].pc = "post" /\ req'[p].todo = req[p].todo /\ req'[p].seen = s
        /\ \A q \in Request : q # p => req'[q] = req[q]
    BY <1>0, <2>2 DEF ReqType
  <2>4. rows[n].tx \in TxOf(n)
    BY <1>3, RowRead
  <2> QED BY <1>0, <1>3, <2>1, <2>3, <2>4, ReadStep
<1> QED
  BY <1>1, <1>2, <1>3

LEMMA ReadInstallmentsFits ==
  ASSUME Typed, PlanFits, NEW p \in Request, ReadInstallments(p), Watch
  PROVE  PlanFits'
<1>0. /\ UNCHANGED <<plan, rows, tx>> /\ req[p].pc = "new" /\ plan # "none"
      /\ req \in [Request -> ReqType] /\ req[p].todo = {}
  BY DEF ReadInstallments, Typed, Suits
<1>1. PICK ns \in SUBSET Number :
        \/ /\ \A n \in ns : MayAnticipate(n)
           /\ req' = [req EXCEPT ![p].pc = "charge", ![p].closing = closing, ![p].day = today,
                ![p].seen = [n \in ns |-> [tx |-> rows[n].tx, amount |-> AmountOf(n)]]]
        \/ Finish(p)
  BY DEF ReadInstallments
<1>2. CASE Finish(p)
  BY <1>0, <1>2, FinishEases, SameCharges, QuietStep
<1>3. CASE ~Finish(p)
  <2> DEFINE s == [n \in ns |-> [tx |-> rows[n].tx, amount |-> AmountOf(n)]]
  <2>1. DOMAIN s = ns /\ \A n \in ns : s[n].tx = rows[n].tx
    OBVIOUS
  <2>2. req' = [req EXCEPT ![p].pc = "charge", ![p].closing = closing, ![p].day = today,
                  ![p].seen = s]
    BY <1>1, <1>3
  <2> HIDE DEF s
  <2>3. /\ req'[p].pc = "charge" /\ req'[p].todo = req[p].todo /\ req'[p].seen = s
        /\ \A q \in Request : q # p => req'[q] = req[q]
    BY <1>0, <2>2 DEF ReqType
  <2>4. \A n \in ns : HasRow(n) /\ rows[n].tx \in TxOf(n)
    BY <1>1, <1>3, RowRead DEF MayAnticipate
  <2> QED BY <1>0, <2>1, <2>3, <2>4, ReadStep
<1> QED
  BY <1>2, <1>3

LEMMA DeleteFits ==
  ASSUME Typed, PlanFits, NEW p \in Request, DeleteTx(p), Watch
  PROVE  PlanFits'
<1>0. /\ plan' = plan /\ Finish(p) /\ req[p].pc = "new"
      /\ rows \in [Number -> Row] /\ tx \in [TxId -> Tx]
  BY TypedFacts DEF DeleteTx
<1>00. Eases(p) /\ \A q \in Request : q # p => req'[q] = req[q]
  BY <1>0, FinishEases
<1>1. PICK t \in TxId :
        /\ Live(t)
        /\ \/ UNCHANGED <<rows, tx>>
           \/ /\ rows' = [n \in Number |-> IF HasRow(n) /\ rows[n].tx = t THEN NoRow
                                           ELSE rows[n]]
              /\ tx' = [tx EXCEPT ![t] = NoTx]
  BY DEF DeleteTx
<1>2. CASE UNCHANGED <<rows, tx>>
  BY <1>0, <1>00, <1>2, SameCharges, QuietStep
<1>3. CASE /\ rows' = [n \in Number |-> IF HasRow(n) /\ rows[n].tx = t THEN NoRow ELSE rows[n]]
           /\ tx' = [tx EXCEPT ![t] = NoTx]
  <2>1. \A m \in Number : rows[m].tx = t => m = t[2]
    <3>1. \A m \in Number : rows[m].tx \in TxOf(m)
      BY DEF PlanFits, RowsFit, RowFits
    <3>2. t # NoId
      BY <1>1 DEF Live
    <3> QED BY <3>1, <3>2 DEF TxOf
  <2>2. \A m \in Number : m # t[2] => rows'[m] = rows[m]
    BY <1>3, <2>1
  <2>3. \A m \in Number : Charges(m)' = Charges(m) \ {t}
    <3>1. tx'[t].amount = 0 /\ \A u \in TxId : u # t => tx'[u] = tx[u]
      BY <1>0, <1>3, NothingFits
    <3>2. \A u \in TxId : Live(u)' <=> Live(u) /\ u # t
      BY <3>1 DEF Live
    <3> QED BY <3>2 DEF Charges
  <2>4. \A m \in Number : m # t[2] => Charges(m)' = Charges(m)
    BY <2>3 DEF Charges
  <2>5. CASE t[2] \notin Number \/ plan # "live"
    <3>1. rows' = rows
      <4>1. \A m \in Number : rows'[m] = rows[m]
        BY <1>3, <2>2, <2>5, RowRead
      <4> QED BY <1>0, <1>3, <4>1
    <3>2. \A m \in Number : Charges(m)' \subseteq Charges(m)
      BY <2>3
    <3>3. plan = "live" => \A m \in Number : Charges(m)' = Charges(m)
      BY <2>4, <2>5
    <3> QED BY <1>0, <1>00, <3>1, <3>2, <3>3, QuietStep
  <2>6. CASE t[2] \in Number /\ plan = "live"
    <3> DEFINE n == t[2]
    <3>0. n \in Number /\ {n} \in SUBSET Number
      BY <2>6
    <3>1. RowFits(n)
      BY <3>0 DEF PlanFits, RowsFit
    <3>2. rows'[n] = NoRow \/ rows'[n] = rows[n]
      BY <1>3, <3>0
    <3>3. NoRow.tx \in TxOf(n) /\ NoRow.bill = NoBill /\ NoRow.status = "gone"
      BY NothingFits DEF TxOf
    <3>4. t \in Charges(n)
      BY <1>1 DEF Charges
    <3>5. ASSUME n \notin raced' PROVE Current(n)'
      <4>1. n \in Number \ raced
        BY <3>0, <3>5, Watched
      <4>2. Charges(n) = {rows[n].tx} \ {NoId}
        BY <2>6, <4>1 DEF PlanFits, Sole, Current
      <4>3. rows[n].tx = t /\ t # NoId
        BY <3>4, <4>2
      <4>4. HasRow(n)
        BY <3>1, <4>3, NothingFits DEF RowFits
      <4>5. rows'[n] = NoRow /\ ~HasRow(n)' /\ Charges(n)' = {}
        BY <1>3, <2>3, <3>0, <4>2, <4>3, <4>4, NothingFits DEF HasRow
      <4>6. \A q \in Request : n \notin req[q].todo /\ n \notin DOMAIN req[q].seen
        BY <1>0, <2>6, <3>0, <3>5, <4>4, <4>5, Watched
      <4>7. \A q \in Request : n \notin req'[q].todo /\ n \notin DOMAIN req'[q].seen
        BY <1>00, <4>6 DEF Eases
      <4> QED BY <1>0, <2>6, <4>5, <4>7, NothingFits DEF Current
    <3>6. /\ rows'[n].tx \in TxOf(n)
          /\ ~HasRow(n)' => rows'[n] = NoRow
          /\ rows'[n].status = "paid" \/ rows'[n].bill # NoBill => rows'[n].tx # NoId
          /\ HasRow(n)' => HasRow(n)
      BY <3>1, <3>2, <3>3 DEF RowFits, HasRow
    <3>7. \A m \in Number \ {n} : rows'[m] = rows[m] /\ Charges(m)' = Charges(m)
      BY <2>2, <2>4
    <3> HIDE DEF n
    <3> QED BY <1>0, <1>00, <2>6, <3>0, <3>5, <3>6, <3>7, WriteStep
  <2> QED BY <2>5, <2>6
<1> QED
  BY <1>1, <1>2, <1>3

LEMMA AnticipateFits ==
  ASSUME Typed, PlanFits, NEW p \in Request, Anticipate(p), Watch
  PROVE  PlanFits'
<1>0. /\ plan' = plan /\ Finish(p) /\ req[p].pc = "charge" /\ rows \in [Number -> Row]
  BY TypedFacts DEF Anticipate
<1>00. /\ Eases(p) /\ DOMAIN req'[p].seen = {}
       /\ \A q \in Request : q # p => req'[q] = req[q]
  <2>1. req \in [Request -> ReqType]
    BY DEF Typed
  <2> QED BY <1>0, <2>1, FinishEases, OverFits DEF Finish
<1>1. CASE UNCHANGED <<bills, tx, rows, batches>>
  BY <1>0, <1>00, <1>1, SameCharges, QuietStep
<1>2. CASE Charged(p)
  <2> DEFINE ns == DOMAIN req[p].seen
             seen == req[p].seen
             T(n) == TxFor(p, n)
  <2>1. ns \in SUBSET Number
    <3>1. seen \in Seeing
      BY RequestFacts DEF Typed
    <3> QED BY <3>1, SeenFacts
  <2>2. \A n \in ns : T(n) \in TxOf(n) /\ T(n) # NoId /\ T(n) \in TxId
    <3>1. \A n \in ns : seen[n].tx \in TxOf(n)
      BY <2>1 DEF PlanFits, RowsFit, RowFits
    <3>2. \A n \in ns : <<p, n>> \in TxOf(n) /\ <<p, n>> # NoId
      BY <2>1, NumberPosted
    <3> QED BY <1>2, <3>1, <3>2 DEF TxFor, Charged
  <2>3. \A n \in ns : T(n)[2] = n
    BY <2>1, <2>2 DEF TxOf
  <2>4. /\ \A n \in ns : /\ HasRow(n) /\ rows'[n].status = rows[n].status
                         /\ rows'[n].tx = T(n)
        /\ \A n \in Number : n \notin ns => rows'[n] = rows[n]
        /\ \A t \in TxId : IF \E n \in ns : t = T(n) THEN tx'[t].amount > 0
                           ELSE tx'[t] = tx[t]
    BY <1>2 DEF Charged
  <2> HIDE DEF ns, T
  <2>5. ASSUME NEW m \in Number
        PROVE  Charges(m)' = IF m \in ns THEN Charges(m) \cup {T(m)} ELSE Charges(m)
    <3>1. ASSUME NEW t \in TxId, t[2] = m, ~(m \in ns /\ t = T(m))
          PROVE  Live(t)' <=> Live(t)
      <4>1. ~\E n \in ns : t = T(n)
        BY <2>3, <3>1
      <4> QED BY <2>4, <4>1 DEF Live
    <3>2. ASSUME m \in ns, NEW t \in TxId, t = T(m) PROVE Live(t)' /\ t[2] = m
      <4>1. t # NoId /\ tx'[t].amount > 0 /\ t[2] = m
        BY <2>2, <2>3, <2>4, <3>2
      <4> QED BY <4>1 DEF Live
    <3>3. ASSUME NEW t \in TxId
          PROVE  t \in Charges(m)' <=> t \in Charges(m) \/ (m \in ns /\ t = T(m))
      BY <3>1, <3>2 DEF Charges
    <3>4. Charges(m)' \subseteq TxId /\ Charges(m) \subseteq TxId /\ (m \in ns => T(m) \in TxId)
      BY <2>2 DEF Charges
    <3> HIDE DEF Charges
    <3> QED BY <3>3, <3>4
  <2>6. ASSUME NEW n \in ns \ raced', plan = "live" PROVE Current(n)'
    <3>1. n \in Number \ raced
      BY <2>1, <2>6, Watched
    <3>2. /\ HasRow(n) /\ seen[n].tx = rows[n].tx
          /\ Charges(n) = {rows[n].tx} \ {NoId}
          /\ rows[n].tx = NoId => \A q \in Request : n \in DOMAIN req[q].seen => q = p
      BY <2>6, <3>1, ReadIsSo DEF ns
    <3>3. rows[n].tx # NoId => T(n) = rows[n].tx
      BY <3>2 DEF T, TxFor
    <3>4. Charges(n)' = {rows'[n].tx} \ {NoId}
      <4>1. Charges(n)' = Charges(n) \cup {T(n)} /\ rows'[n].tx = T(n) /\ T(n) # NoId
        BY <2>2, <2>4, <2>5, <2>6, <3>1
      <4> QED BY <3>2, <3>3, <4>1
    <3>5. HasRow(n)'
      BY <2>4, <2>6 DEF HasRow
    <3>6. ASSUME NEW q \in Request, n \in DOMAIN req'[q].seen
          PROVE  req'[q].seen[n].tx = rows'[n].tx
      <4>1. q # p /\ n \in DOMAIN req[q].seen /\ req'[q] = req[q]
        BY <1>00, <3>6
      <4>2. Current(n)
        BY <3>1 DEF PlanFits, Sole
      <4>3. req[q].seen[n].tx = rows[n].tx
        BY <2>6, <4>1, <4>2 DEF Current
      <4>4. rows[n].tx # NoId
        BY <3>2, <4>1
      <4>5. rows'[n].tx = T(n)
        BY <2>4, <2>6
      <4> QED BY <3>3, <4>1, <4>3, <4>4, <4>5
    <3> QED BY <1>0, <2>6, <3>4, <3>5, <3>6 DEF Current
  <2>7. ASSUME NEW n \in ns
        PROVE  /\ rows'[n].tx \in TxOf(n)
               /\ ~HasRow(n)' => rows'[n] = NoRow
               /\ rows'[n].status = "paid" \/ rows'[n].bill # NoBill => rows'[n].tx # NoId
               /\ HasRow(n)' => HasRow(n)
    BY <2>2, <2>4, <2>7 DEF HasRow
  <2>8. \A m \in Number \ ns : rows'[m] = rows[m] /\ Charges(m)' = Charges(m)
    BY <2>4, <2>5
  <2>9. CASE plan = "live"
    BY <1>0, <1>00, <2>1, <2>6, <2>7, <2>8, <2>9, WriteStep
  <2>10. CASE plan # "live"
    <3>1. ns = {}
      BY <2>1, <2>4, <2>10, RowRead
    <3>2. rows' = rows
      <4>1. rows' \in [Number -> Row]
        BY AnticipateCharges
      <4> QED BY <1>0, <2>4, <3>1, <4>1
    <3>3. \A m \in Number : Charges(m)' = Charges(m)
      BY <2>5, <3>1
    <3> QED BY <1>0, <1>00, <3>2, <3>3, QuietStep
  <2> QED BY <2>9, <2>10
<1> QED
  BY <1>1, <1>2, AnticipateCharges

\* Nobody reads or charges an installment.
LEMMA OtherFits ==
  ASSUME Typed, PlanFits, NEW p \in Request, Watch,
         UnlinkPlan(p) \/ Fail(p) \/ ReadCard(p) \/ ReadBill(p) \/ PayBill(p) \/ Purchase(p)
  PROVE  PlanFits'
<1>0. UNCHANGED <<plan, rows>>
  BY DEF UnlinkPlan, Fail, ReadCard, ReadBill, PayBill, Purchase
<1>1. Eases(p) /\ \A q \in Request : q # p => req'[q] = req[q]
  <2>0. req \in [Request -> ReqType]
    BY DEF Typed
  <2>1. CASE Finish(p)
    BY <2>1, FinishEases
  <2>2. CASE ~Finish(p)
    <3>1. PICK e : \/ req' = [req EXCEPT ![p].pc = "erase"]
                   \/ req' = [req EXCEPT ![p].pc = "charge", ![p].closing = closing]
                   \/ req' = [req EXCEPT ![p].pc = "settle", ![p].bill = e,
                                ![p].paid = bills[e].paid, ![p].total = Total(bills[e])]
      BY <2>2 DEF UnlinkPlan, Fail, ReadCard, ReadBill, PayBill, Purchase
    <3>2. /\ req'[p].pc # "rows" /\ req'[p].todo = req[p].todo /\ req'[p].seen = req[p].seen
          /\ \A q \in Request : q # p => req'[q] = req[q]
      BY <2>0, <3>1 DEF ReqType
    <3>3. req[p].pc = "new"
      BY <2>2 DEF UnlinkPlan, Fail, ReadCard, ReadBill, PayBill, Purchase
    <3> QED BY <3>2, <3>3 DEF Eases
  <2> QED BY <2>1, <2>2
<1>2. \A n \in Number : Charges(n)' = Charges(n)
  <2>1. CASE UNCHANGED tx
    BY <2>1, SameCharges
  <2>2. CASE tx' = [t \in TxId |-> IF Live(t) THEN [tx[t] EXCEPT !.plan = FALSE] ELSE tx[t]]
    <3>1. tx \in [TxId -> Tx]
      BY TypedFacts
    <3>2. \A t \in TxId : tx'[t].amount = tx[t].amount
      BY <2>2, <3>1 DEF Tx
    <3> QED BY <3>2 DEF Charges, Live
  <2>3. CASE Purchase(p)
    <3>1. \A t \in TxId : t # <<p, 0>> => tx'[t] = tx[t]
      BY <2>3, PurchaseBuys
    <3>2. \A n \in Number : n # 0
      BY DEF Number
    <3> QED BY <3>1, <3>2 DEF Charges, Live
  <2> QED BY <2>1, <2>2, <2>3 DEF UnlinkPlan, Fail, ReadCard, ReadBill, PayBill
<1> QED
  BY <1>0, <1>1, <1>2, QuietStep

LEMMA PlanFitsStep ==
  ASSUME Typed, PlanFits, [Next]_vars
  PROVE  PlanFits'
<1>1. ASSUME NEW p \in Request, PlanPart(p) \/ CardPart(p), Watch
      PROVE  PlanFits'
  <2>1. CASE PlanStep(p)
    BY <1>1, <2>1, CreateFits, InsertFits, SplitFits, ScanFits, CheckFits, PostGeneratedFits,
       ReadInstallmentFits, PostPaidFits, EraseFits, DeleteFits, OtherFits DEF PlanStep
  <2>2. CASE CardPart(p)
    BY <1>1, <2>2, ReadInstallmentsFits, AnticipateFits, OtherFits DEF CardPart
  <2> QED BY <1>1, <2>1, <2>2 DEF PlanPart
<1>2. CASE UNCHANGED <<plan, rows, tx, req, raced>>
  BY <1>2 DEF PlanFits, RowsFit, RowFits, Creates, Sole, Current, Unposted, Charges, Live, HasRow
<1> QED
  BY <1>1, <1>2 DEF Next, DayPasses, ChangeClosing, vars, planVars, cardVars

------------------------------------------------------------------------------
(* What a step of the plan leaves alone. *)

LEMMA PlanPcs ==
  ASSUME Typed, NEW p \in Request, PlanStep(p)
  PROVE  /\ req[p].pc # "done" /\ req'[p].pc \notin {"charge", "settle"}
         /\ \A q \in Request : q # p => req'[q] = req[q]
         /\ batches' = batches
<1>0. req \in [Request -> ReqType]
  BY DEF Typed
<1>1. req[p].pc # "done" /\ batches' = batches
  BY DEF PlanStep, CreatePlan, InsertRow, SplitPlan, Scan, Check, PostGenerated,
         ReadInstallment, PostPaid, UnlinkPlan, ErasePlan, DeleteTx, Fail
<1>2. \A q \in Request : q # p => req'[q] = req[q]
  BY <1>0, PlanProceeds, Moved DEF Proceeds
<1>3. CASE Finish(p)
  BY <1>0, <1>1, <1>2, <1>3, OverFits DEF Finish
<1>4. ASSUME ~Finish(p) PROVE req'[p].pc \notin {"charge", "settle"}
  <2>1. CASE CreatePlan(p)
    BY <1>0, <2>1 DEF CreatePlan, ReqType
  <2>2. CASE InsertRow(p)
    <3>1. PICK n \in req[p].todo : req' = [req EXCEPT ![p].todo = @ \ {n}]
      BY <1>4, <2>2 DEF InsertRow
    <3>2. req[p].pc = "rows"
      BY <2>2 DEF InsertRow
    <3> QED BY <1>0, <3>1, <3>2 DEF ReqType
  <2>3. CASE Scan(p)
    <3>1. PICK ns : req' = [req EXCEPT ![p].pc = "check", ![p].todo = ns]
      BY <2>3 DEF Scan
    <3> QED BY <1>0, <3>1 DEF ReqType
  <2>4. CASE Check(p)
    <3>1. PICK n \in req[p].todo :
            \/ req' = [req EXCEPT ![p].todo = @ \ {n}]
            \/ req' = [req EXCEPT ![p].pc = "post", ![p].todo = @ \ {n},
                         ![p].seen = Of(n, NoId, InstallmentAmount)]
      BY <1>4, <2>4 DEF Check
    <3>2. req[p].pc = "check"
      BY <2>4 DEF Check
    <3> QED BY <1>0, <3>1, <3>2 DEF ReqType
  <2>5. CASE PostGenerated(p)
    <3>1. req' = [req EXCEPT ![p].pc = "check", ![p].seen = Unseen]
      BY <1>4, <2>5 DEF PostGenerated
    <3> QED BY <1>0, <3>1 DEF ReqType
  <2>6. CASE ReadInstallment(p)
    <3>1. PICK n \in Number :
            req' = [req EXCEPT ![p].pc = "post",
                      ![p].seen = Of(n, rows[n].tx, InstallmentAmount)]
      BY <1>4, <2>6 DEF ReadInstallment
    <3> QED BY <1>0, <3>1 DEF ReqType
  <2>7. CASE UnlinkPlan(p)
    BY <1>0, <2>7 DEF UnlinkPlan, ReqType
  <2> QED
    BY <1>4, <2>1, <2>2, <2>3, <2>4, <2>5, <2>6, <2>7
       DEF PlanStep, SplitPlan, PostPaid, ErasePlan, DeleteTx, Fail
<1> QED
  BY <1>1, <1>2, <1>3, <1>4

\* The ways in which the transactions change.
LEMMA PlanTx ==
  ASSUME Typed, NEW p \in Request, PlanStep(p)
  PROVE  \/ tx' = tx
         \/ /\ SplitPlan(p)
            /\ \A t \in TxId : \/ tx'[t] = tx[t]
                               \/ t[2] \in Number /\ tx'[t].amount = Part(t[2])
         \/ /\ kind[p] \in {"generate", "pay"}
            /\ \E n \in DOMAIN req[p].seen : \A t \in TxId : t # <<p, n>> => tx'[t] = tx[t]
         \/ \A t \in TxId : tx'[t].amount = tx[t].amount /\ tx'[t].date = tx[t].date
         \/ /\ DeleteTx(p)
            /\ \E d \in TxId : /\ tx'[d].amount = 0
                               /\ \A t \in TxId : t # d => tx'[t] = tx[t]
<1>0. tx \in [TxId -> Tx]
  BY TypedFacts
<1>1. CASE SplitPlan(p)
  <2>1. CASE UNCHANGED tx
    BY <2>1
  <2>2. CASE ~UNCHANGED tx
    <3>1. tx' = [t \in TxId |-> IF t[1] = p /\ t[2] \in Number
                                THEN Expense(Due(t[2]), Part(t[2])) ELSE tx[t]]
      BY <1>1, <2>2 DEF SplitPlan
    <3>2. \A t \in TxId : \/ tx'[t] = tx[t]
                          \/ t[2] \in Number /\ tx'[t].amount = Part(t[2])
      BY <3>1 DEF Expense
    <3> QED BY <1>1, <3>2
  <2> QED BY <2>1, <2>2
<1>2. CASE PostGenerated(p) \/ PostPaid(p)
  <2>1. kind[p] \in {"generate", "pay"}
    BY <1>2 DEF PostGenerated, PostPaid
  <2>2. PICK n \in DOMAIN req[p].seen :
          \/ tx' = [tx EXCEPT ![<<p, n>>] = Expense(Due(n), InstallmentAmount)]
          \/ tx' = tx
    BY <1>2 DEF PostGenerated, PostPaid
  <2>3. \A t \in TxId : t # <<p, n>> => tx'[t] = tx[t]
    BY <1>0, <2>2
  <2> QED BY <2>1, <2>3
<1>3. CASE UnlinkPlan(p)
  <2>1. CASE tx' = tx
    BY <2>1
  <2>2. CASE tx' = [t \in TxId |-> IF Live(t) THEN [tx[t] EXCEPT !.plan = FALSE] ELSE tx[t]]
    BY <1>0, <2>2 DEF Tx
  <2> QED BY <1>3, <2>1, <2>2 DEF UnlinkPlan
<1>4. CASE DeleteTx(p)
  <2>1. PICK d \in TxId : tx' = [tx EXCEPT ![d] = NoTx] \/ tx' = tx
    BY <1>4 DEF DeleteTx
  <2>2. CASE tx' = [tx EXCEPT ![d] = NoTx]
    <3>1. tx'[d].amount = 0 /\ \A t \in TxId : t # d => tx'[t] = tx[t]
      BY <1>0, <2>2, NothingFits
    <3> QED BY <1>4, <3>1
  <2> QED BY <2>1, <2>2
<1>5. CASE ~(SplitPlan(p) \/ PostGenerated(p) \/ PostPaid(p) \/ UnlinkPlan(p) \/ DeleteTx(p))
  <2>1. tx' = tx
    BY <1>5 DEF PlanStep, CreatePlan, InsertRow, Scan, Check, ReadInstallment, ErasePlan, Fail
  <2> QED BY <2>1
<1> QED
  BY <1>1, <1>2, <1>3, <1>4, <1>5

\* Purchases keep their day.
LEMMA PlanKeepsPurchases ==
  ASSUME Typed, NEW p \in Request, PlanStep(p), NEW q \in Request, Live(<<q, 0>>)'
  PROVE  Live(<<q, 0>>) /\ tx'[<<q, 0>>].date = tx[<<q, 0>>].date
<1> DEFINE u == <<q, 0>>
<1>1. u \in TxId /\ u # NoId /\ u[2] = 0 /\ 0 \notin Number
  BY IdFacts, InstallmentConstants DEF Number
<1>2. \A n \in DOMAIN req[p].seen : n \in Number
  <2>1. req[p].seen \in Seeing
    BY RequestFacts DEF Typed
  <2> QED BY <2>1, SeenFacts
<1>3. \A n \in DOMAIN req[p].seen : u # <<p, n>>
  BY <1>1, <1>2
<1>4. tx'[u].amount > 0
  BY DEF Live
<1> HIDE DEF u
<1>5. \/ tx'[u] = tx[u]
      \/ tx'[u].amount = tx[u].amount /\ tx'[u].date = tx[u].date
  BY <1>1, <1>3, <1>4, PlanTx
<1> QED
  BY <1>1, <1>4, <1>5 DEF Live, u

\* So do the parts of a split with their amounts, and new ones have theirs.
LEMMA PlanKeepsParts ==
  ASSUME Typed, NEW p \in Request, PlanStep(p), NEW q \in Request, kind[q] = "split",
         NEW n \in Number, Live(<<q, n>>)'
  PROVE  \/ Live(<<q, n>>) /\ tx'[<<q, n>>].amount = tx[<<q, n>>].amount
         \/ tx'[<<q, n>>].amount = Part(n)
<1> DEFINE u == <<q, n>>
<1>1. u \in TxId /\ u # NoId /\ u[2] = n /\ u[1] = q
  BY IdFacts, NumberPosted
<1>2. kind[p] \in {"generate", "pay"} => \A m : u # <<p, m>>
  <2>1. kind[p] \in {"generate", "pay"} => q # p
    OBVIOUS
  <2> QED BY <1>1, <2>1
<1>3. tx'[u].amount > 0
  BY DEF Live
<1> HIDE DEF u
<1>4. \/ tx'[u].amount = tx[u].amount
      \/ tx'[u].amount = Part(n)
  BY <1>1, <1>2, <1>3, PlanTx
<1> QED
  BY <1>1, <1>3, <1>4 DEF Live, u

------------------------------------------------------------------------------
(* Payments. *)

CardStep(p) ==
  ReadCard(p) \/ ReadBill(p) \/ PayBill(p) \/ ReadInstallments(p)
    \/ Purchase(p) \/ Anticipate(p)

LEMMA StepPcs ==
  ASSUME Typed, NEW p \in Request, PlanStep(p) \/ CardStep(p)
  PROVE  /\ req[p].pc # "done"
         /\ \A q \in Request : q # p => req'[q] = req[q]
         /\ ~ReadBill(p) => req'[p].pc # "settle"
         /\ PayBill(p) \/ Purchase(p) \/ Anticipate(p) => req'[p].pc = "done"
<1>0. req \in [Request -> ReqType]
  BY DEF Typed
<1>1. CASE PlanStep(p)
  <2>1. PayBill(p) \/ Purchase(p) \/ Anticipate(p) => req'[p].pc = "done"
    <3>1. PayBill(p) \/ Purchase(p) \/ Anticipate(p) => Finish(p)
      BY DEF PayBill, Purchase, Anticipate
    <3>2. Finish(p) => req'[p].pc = "done"
      BY <1>0, OverFits DEF Finish
    <3> QED BY <3>1, <3>2
  <2> QED BY <1>1, <2>1, PlanPcs
<1>2. CASE CardStep(p)
  <2>1. req[p].pc # "done"
    BY <1>2 DEF CardStep, ReadCard, ReadBill, PayBill, ReadInstallments, Purchase, Anticipate
  <2>2. \A q \in Request : q # p => req'[q] = req[q]
    BY <1>0, <1>2, CardProceeds, Moved DEF Proceeds, CardStep
  <2>3. Finish(p) => req'[p].pc = "done"
    BY <1>0, OverFits DEF Finish
  <2>4. CASE ReadCard(p)
    <3>1. req'[p].pc = "charge"
      BY <1>0, <2>4 DEF ReadCard, ReqType
    <3>2. req[p].pc = "new"
      BY <2>4 DEF ReadCard
    <3> QED BY <2>1, <2>2, <3>1, <3>2 DEF PayBill, Purchase, Anticipate
  <2>5. CASE ReadInstallments(p)
    <3>1. PICK ns : \/ Finish(p)
                    \/ req' = [req EXCEPT ![p].pc = "charge", ![p].closing = closing,
                                 ![p].day = today,
                         ![p].seen = [n \in ns |-> [tx |-> rows[n].tx, amount |-> AmountOf(n)]]]
      BY <2>5 DEF ReadInstallments
    <3>2. req'[p].pc # "settle"
      BY <1>0, <2>3, <3>1 DEF ReqType
    <3>3. req[p].pc = "new"
      BY <2>5 DEF ReadInstallments
    <3> QED BY <2>1, <2>2, <3>2, <3>3 DEF PayBill, Purchase, Anticipate
  <2>6. CASE ReadBill(p)
    <3>1. req[p].pc = "new"
      BY <2>6 DEF ReadBill
    <3> QED BY <2>1, <2>2, <2>6, <3>1 DEF PayBill, Purchase, Anticipate
  <2>7. CASE PayBill(p) \/ Purchase(p) \/ Anticipate(p)
    <3>1. Finish(p)
      BY <2>7 DEF PayBill, Purchase, Anticipate
    <3> QED BY <2>1, <2>2, <2>3, <3>1
  <2> QED BY <1>2, <2>4, <2>5, <2>6, <2>7 DEF CardStep
<1> QED
  BY <1>1, <1>2

\* Bills stay, with what they count as paid, and new ones have nothing paid.
BillsKept ==
  /\ DOMAIN bills \subseteq DOMAIN bills'
  /\ \A e \in DOMAIN bills :
       bills'[e].status = bills[e].status /\ bills'[e].paid = bills[e].paid
  /\ \A e \in DOMAIN bills' \ DOMAIN bills : bills'[e].status = "open" /\ bills'[e].paid = 0

LEMMA UpsertKeeps ==
  ASSUME BillsTyped, NEW c \in 1..31, NEW d, IsDate(d), UpsertBill(c, d)
  PROVE  BillsKept
BY Upserted DEF BillsKept

LEMMA StepKeepsBills ==
  ASSUME Typed, NEW p \in Request, PlanPart(p) \/ CardPart(p), ~PayBill(p)
  PROVE  BillsKept /\ payments' = payments
<1>1. CASE UNCHANGED bills
  <2>1. payments' = payments
    BY DEF PlanPart, CardPart, ReadCard, ReadBill, ReadInstallments, Purchase, Anticipate, cardVars
  <2> QED BY <1>1, <2>1 DEF BillsKept
<1>2. CASE Purchase(p)
  <2>1. BillsTyped /\ payments' = payments
    BY <1>2, TypedFacts DEF Purchase
  <2>2. BillsKept
    BY <1>2, <2>1, PurchaseBuys, UpsertKeeps
  <2> QED BY <2>1, <2>2
<1>3. CASE Anticipate(p) /\ ~UNCHANGED bills
  <2>1. payments' = payments /\ BillsTyped
    BY <1>3, TypedFacts DEF Anticipate
  <2>2. UpsertBill(req[p].closing, req[p].day)
    BY <1>3, AnticipateCharges DEF Charged
  <2>3. req[p].closing \in 1..31 /\ IsDate(req[p].day)
    BY <1>3, CardConstants DEF Typed, Suits, Anticipate
  <2> QED BY <2>1, <2>2, <2>3, UpsertKeeps
<1> QED
  BY <1>1, <1>2, <1>3 DEF PlanPart, CardPart, ReadCard, ReadBill, ReadInstallments, cardVars

LEMMA TotalsNat ==
  ASSUME Typed
  PROVE  \A b : Total(b) \in Nat
BY TotalNat, TypedFacts DEF Total

\* Bills that grow are set aside.
LEMMA GrowSettles ==
  ASSUME Typed, Typed', AllSettled, BillsKept, Grow,
         \A q \in Request : req'[q].pc = "settle" => req'[q] = req[q]
  PROVE  AllSettled'
<1> SUFFICES ASSUME NEW e \in DOMAIN bills' \ late' PROVE Settled(e)'
  BY DEF AllSettled
<1> DEFINE old == Total(bills[e])
           new == TotalIn(tx', bills'[e])
<1>1. CASE e \in DOMAIN bills
  <2>1. e \notin late /\ (bills[e].status = "paid" \/ Paying(e) => ~(new > old))
    BY <1>1 DEF Grow
  <2>2. old \in Nat /\ new \in Nat
    <3>1. tx \in [TxId -> Tx] /\ (tx \in [TxId -> Tx])'
      BY TypedFacts, PTL
    <3> QED BY <3>1, TotalNat DEF Total
  <2>3. Settled(e)
    BY <1>1, <2>1 DEF AllSettled
  <2>4. bills[e].paid \in Nat /\ \A q \in Request : req[q].total \in Nat
    BY <1>1, TypedFacts, RequestFacts DEF Typed
  <2>5. bills'[e].status = bills[e].status /\ bills'[e].paid = bills[e].paid
    BY <1>1 DEF BillsKept
  <2>6. (bills[e].status = "paid" => old <= bills[e].paid)
        /\ \A q \in Request : Settling(q, e) => old <= req[q].total
    BY <2>3 DEF Settled
  <2> HIDE DEF old, new
  <2>7. bills'[e].status = "paid" => new <= bills'[e].paid
    BY <2>1, <2>2, <2>4, <2>5, <2>6
  <2>8. ASSUME NEW q \in Request, Settling(q, e)' PROVE new <= req'[q].total
    <3>1. Settling(q, e) /\ req'[q] = req[q]
      BY <2>8 DEF Settling
    <3>2. Paying(e)
      BY <3>1 DEF Settling, Paying
    <3>3. ~(new > old) /\ old <= req[q].total /\ req[q].total \in Nat
      BY <2>1, <2>4, <2>6, <3>1, <3>2
    <3> QED BY <2>2, <3>1, <3>3
  <2> QED BY <2>7, <2>8 DEF Settled, new, Total
<1>2. CASE e \notin DOMAIN bills
  <2>1. bills'[e].status # "paid"
    BY <1>2 DEF BillsKept
  <2>2. \A q \in Request : ~Settling(q, e)'
    BY <1>2 DEF Settling, Typed, Suits
  <2> QED BY <2>1, <2>2 DEF Settled
<1> QED
  BY <1>1, <1>2

\* Neither do the bills that no payment is made of.
LEMMA KeptPosts ==
  ASSUME Typed, AllPosted, BillsKept, payments' = payments, crossed' = crossed,
         \A q \in Request : req'[q].pc = "settle" => req'[q] = req[q]
  PROVE  AllPosted'
<1> SUFFICES ASSUME NEW e \in DOMAIN bills' \ crossed' PROVE Posted(e)'
  BY DEF AllPosted
<1>0. PaidFor(e)' = PaidFor(e)
  BY DEF PaidFor
<1>1. CASE e \in DOMAIN bills
  <2>1. Posted(e) /\ bills'[e].paid = bills[e].paid
    BY <1>1 DEF AllPosted, BillsKept
  <2>2. \A q \in Request : Settling(q, e)' => Settling(q, e) /\ req'[q] = req[q]
    BY DEF Settling
  <2> QED BY <1>0, <2>1, <2>2 DEF Posted
<1>2. CASE e \notin DOMAIN bills
  <2>1. bills'[e].paid = 0
    BY <1>2 DEF BillsKept
  <2>2. PaidFor(e) = {}
    BY <1>2, TypedParts DEF PaidFor, TablesTyped
  <2>3. \A q \in Request : ~Settling(q, e)'
    BY <1>2 DEF Settling, Typed, Suits
  <2>4. SumFunction([x \in {} |-> x.amount]) = 0
    BY SumEmpty DEF SumFunction
  <2> QED BY <1>0, <2>1, <2>2, <2>3, <2>4 DEF Posted
<1> QED
  BY <1>1, <1>2

LEMMA ReadBillReads ==
  ASSUME Typed, AllSettled, AllPosted, NEW p \in Request, ReadBill(p)
  PROVE  AllSettled' /\ AllPosted'
<1>0. /\ UNCHANGED <<tx, bills, payments, late>> /\ req \in [Request -> ReqType]
      /\ req[p].pc = "new"
  BY DEF ReadBill, Typed
<1>1. PICK f \in DOMAIN bills :
        \/ /\ req' = [req EXCEPT ![p].pc = "settle", ![p].bill = f,
                                 ![p].paid = bills[f].paid, ![p].total = Total(bills[f])]
           /\ crossed' = IF Paying(f) THEN crossed \cup {f} ELSE crossed
        \/ Finish(p) /\ UNCHANGED crossed
  BY DEF ReadBill
<1>2. CASE Finish(p) /\ UNCHANGED crossed
  <2>1. \A q \in Request : req'[q].pc = "settle" => req'[q] = req[q]
    BY <1>0, <1>2, OverFits DEF Finish
  <2>2. BillsKept
    BY <1>0 DEF BillsKept
  <2>3. AllPosted'
    BY <1>0, <1>2, <2>1, <2>2, KeptPosts
  <2>4. AllSettled'
    BY <1>0, <2>1 DEF AllSettled, Settled, Settling, Total
  <2> QED BY <2>3, <2>4
<1>3. CASE /\ req' = [req EXCEPT ![p].pc = "settle", ![p].bill = f,
                                  ![p].paid = bills[f].paid, ![p].total = Total(bills[f])]
           /\ crossed' = IF Paying(f) THEN crossed \cup {f} ELSE crossed
  <2> DEFINE sum == Total(bills[f])
             paid == bills[f].paid
  <2>1. /\ req' = [req EXCEPT ![p].pc = "settle", ![p].bill = f, ![p].paid = paid, ![p].total = sum]
        /\ crossed' = IF Paying(f) THEN crossed \cup {f} ELSE crossed
    BY <1>3
  <2>s. sum \in Nat
    BY TotalsNat
  <2> HIDE DEF sum, paid
  <2>2. /\ req'[p].pc = "settle" /\ req'[p].bill = f /\ req'[p].paid = paid /\ req'[p].total = sum
        /\ \A q \in Request : q # p => req'[q] = req[q]
    BY <1>0, <2>1 DEF ReqType
  <2>3. ASSUME NEW e \in DOMAIN bills \ late PROVE Settled(e)'
    <3>1. Settled(e) /\ Total(bills[e])' = Total(bills[e])
      BY <1>0, <2>3 DEF AllSettled, Total
    <3>2. ASSUME NEW q \in Request, Settling(q, e)' PROVE Total(bills[e]) <= req'[q].total
      <4>1. CASE q = p
        <5>1. e = f
          BY <2>2, <3>2, <4>1 DEF Settling
        <5> QED BY <2>2, <2>s, <4>1, <5>1 DEF sum
      <4>2. CASE q # p
        BY <2>2, <3>1, <3>2, <4>2 DEF Settling, Settled
      <4> QED BY <4>1, <4>2
    <3> QED BY <1>0, <3>1, <3>2 DEF Settled
  <2>4. ASSUME NEW e \in DOMAIN bills \ crossed' PROVE Posted(e)'
    <3>1. Posted(e) /\ PaidFor(e)' = PaidFor(e)
      BY <1>0, <2>1, <2>4 DEF AllPosted, PaidFor
    <3>2. CASE e = f
      <4>1. \A q \in Request : ~Settling(q, f)
        BY <2>1, <2>4, <3>2 DEF Paying, Settling
      <4>2. \A q \in Request : Settling(q, f)' => q = p
        BY <2>2, <4>1 DEF Settling
      <4> QED BY <1>0, <2>2, <3>1, <3>2, <4>2 DEF Posted, paid
    <3>3. CASE e # f
      <4>1. \A q \in Request : Settling(q, e)' => Settling(q, e) /\ req'[q] = req[q]
        BY <2>2, <3>3 DEF Settling
      <4> QED BY <1>0, <3>1, <4>1 DEF Posted
    <3> QED BY <3>2, <3>3
  <2> QED BY <1>0, <2>3, <2>4 DEF AllSettled, AllPosted
<1> QED
  BY <1>1, <1>2, <1>3

\* One more payment adds its amount.
LEMMA PaymentAdds ==
  ASSUME NEW S, IsFiniteSet(S), S \subseteq Payment, NEW x \in Payment, x \notin S
  PROVE  SumFunction([y \in S \cup {x} |-> y.amount])
           = SumFunction([y \in S |-> y.amount]) + x.amount
<1> DEFINE T == S \cup {x}
           f == [y \in T |-> y.amount]
           g == [y \in S |-> y.amount]
<1>1. IsFiniteSet(T) /\ x \in T /\ T \ {x} = S
  BY FS_AddElement
<1>2. \A y \in T : f[y] \in Int /\ y.amount \in Int
  BY DEF Payment
<1>3. \A y \in S : f[y] = g[y]
  OBVIOUS
<1>4. DOMAIN f = T /\ DOMAIN g = S /\ f[x] = x.amount
  OBVIOUS
<1> HIDE DEF f, g, T
<1>5. SumFunctionOnSet(f, T) = f[x] + SumFunctionOnSet(f, S)
  BY <1>1, <1>2, SumTake
<1>6. SumFunctionOnSet(f, S) = SumFunctionOnSet(g, S) /\ SumFunctionOnSet(f, S) \in Int
  BY <1>1, <1>2, <1>3, SumLocal, SumType
<1>7. SumFunction(f) = SumFunctionOnSet(f, T) /\ SumFunction(g) = SumFunctionOnSet(g, S)
  BY <1>4 DEF SumFunction
<1>8. x.amount \in Int
  BY <1>1, <1>2
<1>9. SumFunction(f) = SumFunction(g) + x.amount
  BY <1>4, <1>5, <1>6, <1>7, <1>8
<1> QED
  BY <1>9 DEF f, g, T

LEMMA PayBillSettles ==
  ASSUME Typed, Typed', AllSettled, AllPosted, PayersDone, NEW p \in Request, PayBill(p)
  PROVE  AllSettled' /\ AllPosted'
<1> DEFINE f == req[p].bill
<1>0. /\ UNCHANGED <<tx, late, crossed>> /\ Finish(p) /\ req \in [Request -> ReqType]
      /\ req[p].pc = "settle" /\ f \in DOMAIN bills
  BY DEF PayBill, Typed, Suits
<1>1. PICK a \in Nat \ {0} : Paid(p, a)
  BY PayBillPays
<1>2. \A q \in Request : \A e : Settling(q, e)' => Settling(q, e) /\ q # p /\ req'[q] = req[q]
  BY <1>0, OverFits DEF Finish, Settling
<1>3. DOMAIN bills' = DOMAIN bills
  BY <1>1 DEF Paid
<1>4. \A e \in DOMAIN bills : Total(bills[e])' = Total(bills[e])
  <2> TAKE e \in DOMAIN bills
  <2>1. bills'[e].start = bills[e].start /\ bills'[e].end = bills[e].end
    BY <1>1 DEF Paid
  <2> QED BY <1>0, <2>1, TotalOfPeriod DEF Total
<1>5. ASSUME NEW e \in DOMAIN bills \ late PROVE Settled(e)'
  <2>1. Settled(e) /\ Total(bills[e]) \in Nat
    BY <1>5, TotalsNat DEF AllSettled
  <2>2. \A q \in Request : Settling(q, e)' => Total(bills[e])' <= req'[q].total
    BY <1>2, <1>4, <1>5, <2>1 DEF Settled
  <2>3. bills'[e].status = "paid" => Total(bills[e])' <= bills'[e].paid
    <3>1. CASE e = f
      <4>1. Settling(p, e) /\ Total(bills[e]) <= req[p].total
        BY <1>0, <2>1, <3>1 DEF Settling, Settled
      <4>2. req[p].total \in Nat /\ req[p].paid \in Nat
        BY <1>0, RequestFacts
      <4>3. /\ bills'[e].paid = req[p].paid + a
            /\ bills'[e].status = "paid" => req[p].paid + a >= req[p].total
        BY <1>1, <3>1 DEF Paid
      <4>4. Total(bills[e])' = Total(bills[e])
        BY <1>4, <1>5
      <4> HIDE DEF f
      <4> QED BY <2>1, <4>1, <4>2, <4>3, <4>4
    <3>2. CASE e # f
      BY <1>1, <1>4, <1>5, <2>1, <3>2 DEF Paid, Settled
    <3> QED BY <3>1, <3>2
  <2> QED BY <2>2, <2>3 DEF Settled
<1>6. ASSUME NEW e \in DOMAIN bills \ crossed PROVE Posted(e)'
  <2> DEFINE x == [by |-> p, bill |-> f, amount |-> a]
  <2>1. Posted(e)
    BY <1>6 DEF AllPosted
  <2>2. payments' = payments \cup {x}
    BY <1>1 DEF Paid
  <2>3. CASE e = f
    <3>1. PaidFor(e)' = PaidFor(e) \cup {x}
      BY <2>2, <2>3 DEF PaidFor
    <3>2. x \notin PaidFor(e)
      BY <1>0 DEF PaidFor, PayersDone
    <3>3. PaidFor(e) \subseteq Payment /\ IsFiniteSet(PaidFor(e)) /\ x \in Payment
      <4>1. payments \subseteq Payment /\ IsFiniteSet(payments) /\ PaidFor(e) \subseteq payments
        BY TypedParts DEF TablesTyped, PaidFor
      <4>2. f \in Date
        BY <1>0, TypedFacts
      <4> QED BY <4>1, <4>2, FS_Subset DEF Payment
    <3> HIDE DEF x
    <3>4. SumFunction([y \in PaidFor(e) \cup {x} |-> y.amount])
            = SumFunction([y \in PaidFor(e) |-> y.amount]) + x.amount
      BY <3>2, <3>3, PaymentAdds
    <3>5. x.amount = a
      BY DEF x
    <3>6. Settling(p, e)
      BY <1>0, <2>3 DEF Settling
    <3>7. req[p].paid = bills[e].paid /\ \A q \in Request : Settling(q, e) => q = p
      BY <2>1, <3>6 DEF Posted
    <3>8. bills'[e].paid = req[p].paid + a
      BY <1>1, <2>3 DEF Paid
    <3>9. bills'[e].paid = SumFunction([y \in PaidFor(e)' |-> y.amount])
      BY <2>1, <3>1, <3>4, <3>5, <3>7, <3>8, Zenon DEF Posted
    <3>10. \A q \in Request : ~Settling(q, e)'
      BY <1>2, <3>7
    <3> QED BY <3>9, <3>10 DEF Posted
  <2>4. CASE e # f
    <3>1. PaidFor(e)' = PaidFor(e)
      BY <2>2, <2>4 DEF PaidFor
    <3>2. bills'[e] = bills[e]
      BY <1>1, <1>6, <2>4 DEF Paid
    <3> QED BY <1>2, <2>1, <3>1, <3>2 DEF Posted
  <2> QED BY <2>3, <2>4
<1> QED
  BY <1>0, <1>3, <1>5, <1>6 DEF AllSettled, AllPosted

LEMMA PayersStep ==
  ASSUME Typed, PayersDone, [Next]_vars
  PROVE  PayersDone'
<1>1. ASSUME NEW p \in Request, PlanPart(p) \/ CardPart(p)
      PROVE  PayersDone'
  <2>0. PlanStep(p) \/ CardStep(p)
    BY <1>1 DEF PlanPart, CardPart, CardStep
  <2>1. req[p].pc # "done" /\ \A q \in Request : q # p => req'[q] = req[q]
    BY <2>0, StepPcs
  <2>2. \A x \in payments : x.by \in Request /\ req'[x.by].pc = "done"
    <3>1. \A x \in payments : x.by \in Request
      BY TypedParts DEF TablesTyped, Payment
    <3> QED BY <2>1, <3>1 DEF PayersDone
  <2>3. CASE PayBill(p)
    <3>1. PICK a \in Nat \ {0} : Paid(p, a)
      BY <2>3, PayBillPays
    <3>2. req'[p].pc = "done"
      BY <2>0, <2>3, StepPcs
    <3> QED BY <2>2, <3>1, <3>2 DEF Paid, PayersDone
  <2>4. CASE ~PayBill(p)
    <3>1. payments' = payments
      BY <1>1, <2>4, StepKeepsBills
    <3> QED BY <2>2, <3>1 DEF PayersDone
  <2> QED BY <2>3, <2>4
<1>2. CASE UNCHANGED <<payments, req>>
  BY <1>2 DEF PayersDone
<1> QED
  BY <1>1, <1>2 DEF Next, DayPasses, ChangeClosing, vars, planVars, cardVars

LEMMA PaymentsStep ==
  ASSUME Typed, Typed', AllSettled, AllPosted, PayersDone, [Next]_vars
  PROVE  AllSettled' /\ AllPosted'
<1>1. ASSUME NEW p \in Request, PlanPart(p) \/ CardPart(p)
      PROVE  AllSettled' /\ AllPosted'
  <2>0. PlanStep(p) \/ CardStep(p)
    BY <1>1 DEF PlanPart, CardPart, CardStep
  <2>1. CASE ReadBill(p)
    BY <2>1, ReadBillReads
  <2>2. CASE PayBill(p)
    BY <2>2, PayBillSettles
  <2>3. CASE ~ReadBill(p) /\ ~PayBill(p)
    <3>1. BillsKept /\ payments' = payments
      BY <1>1, <2>3, StepKeepsBills
    <3>2. \A q \in Request : req'[q].pc = "settle" => req'[q] = req[q]
      BY <2>0, <2>3, StepPcs
    <3>3. crossed' = crossed
      BY <1>1, <2>3
         DEF PlanPart, CardPart, ReadCard, ReadInstallments, Purchase, Anticipate, cardVars
    <3>4. AllPosted'
      BY <3>1, <3>2, <3>3, KeptPosts
    <3>5. CASE Grow
      BY <3>1, <3>2, <3>4, <3>5, GrowSettles
    <3>6. CASE UNCHANGED <<tx, bills, late>>
      <4>1. \A q \in Request : \A e : Settling(q, e)' => Settling(q, e) /\ req'[q] = req[q]
        BY <3>2 DEF Settling
      <4>2. AllSettled'
        BY <3>6, <4>1 DEF AllSettled, Settled, Total
      <4> QED BY <3>4, <4>2
    <3> QED BY <1>1, <2>3, <3>5, <3>6
            DEF PlanPart, CardPart, ReadCard, ReadInstallments, cardVars
  <2> QED BY <2>1, <2>2, <2>3
<1>2. CASE UNCHANGED <<tx, req, bills, payments, crossed, late>>
  BY <1>2 DEF AllSettled, Settled, Settling, Total, AllPosted, Posted, PaidFor
<1> QED
  BY <1>1, <1>2 DEF Next, DayPasses, ChangeClosing, vars, planVars, cardVars

------------------------------------------------------------------------------
(* The parts of a split, the bills of a closing day. *)

\* What is charged for an installment is no purchase, and for no other.
LEMMA ChargedFor ==
  ASSUME Typed, PlanFits, NEW p \in Request, NEW n \in DOMAIN req[p].seen
  PROVE  n \in Number /\ n # 0 /\ TxFor(p, n) \in TxOf(n)
<1>1. n \in Number
  <2>1. req[p].seen \in Seeing
    BY RequestFacts DEF Typed
  <2> QED BY <2>1, SeenFacts
<1>2. RowFits(n)
  BY <1>1 DEF PlanFits, RowsFit
<1>3. TxFor(p, n) \in TxOf(n)
  BY <1>2 DEF RowFits, TxFor, TxOf
<1> QED
  BY <1>1, <1>3 DEF Number

LEMMA PartsStep ==
  ASSUME Typed, Parts, [Next]_vars
  PROVE  Parts'
<1>1. ASSUME NEW p \in Request, PlanStep(p), kind' = kind
      PROVE  Parts'
  <2>1. batches' = batches
    BY <1>1, PlanPcs
  <2> SUFFICES ASSUME NEW q \in Request, kind[q] = "split", batches = {},
                      NEW n \in Number, Live(<<q, n>>)'
               PROVE  tx'[<<q, n>>].amount = Part(n)
    BY <1>1, <2>1 DEF Parts
  <2>2. Live(<<q, n>>) => tx[<<q, n>>].amount = Part(n)
    BY DEF Parts
  <2> QED BY <1>1, <2>2, PlanKeepsParts
<1>2. ASSUME NEW p \in Request, Purchase(p), kind' = kind
      PROVE  Parts'
  <2>1. batches' = batches /\ \A q \in Request, n \in Number : tx'[<<q, n>>] = tx[<<q, n>>]
    <3>1. \A t \in TxId : t # <<p, 0>> => tx'[t] = tx[t]
      BY <1>2, PurchaseBuys
    <3>2. \A q \in Request, n \in Number : <<q, n>> \in TxId /\ <<q, n>> # <<p, 0>>
      BY NumberPosted DEF Number, TxId
    <3> QED BY <1>2, <3>1, <3>2 DEF Purchase
  <2> QED BY <1>2, <2>1 DEF Parts, Live
<1>3. ASSUME NEW p \in Request, Anticipate(p), kind' = kind
      PROVE  Parts'
  <2>1. batches' # {} \/ UNCHANGED <<tx, batches>>
    BY <1>3, AnticipateCharges DEF Charged
  <2> QED BY <1>3, <2>1 DEF Parts, Live
<1>4. CASE UNCHANGED <<kind, batches, tx>>
  BY <1>4 DEF Parts, Live
<1>5. ASSUME NEW p \in Request, PlanPart(p) \/ CardPart(p)
      PROVE  Parts'
  <2>1. kind' = kind
    BY <1>5 DEF PlanPart, PlanStep, CreatePlan, InsertRow, SplitPlan, Scan, Check, PostGenerated,
          ReadInstallment, PostPaid, UnlinkPlan, ErasePlan, DeleteTx, Fail,
          CardPart, ReadCard, ReadBill, PayBill, ReadInstallments, Purchase, Anticipate
  <2>2. CASE ReadCard(p) \/ ReadBill(p) \/ PayBill(p) \/ ReadInstallments(p)
    BY <1>4, <2>2 DEF ReadCard, ReadBill, PayBill, ReadInstallments
  <2> QED BY <1>1, <1>2, <1>3, <1>5, <2>1, <2>2 DEF PlanPart, CardPart
<1> QED
  BY <1>4, <1>5 DEF Next, DayPasses, ChangeClosing, vars, planVars, cardVars

\* Bills keep their periods.
PeriodsKept ==
  \A e \in DOMAIN bills :
    e \in DOMAIN bills' /\ \A d : Covers(bills[e], d) => Covers(bills'[e], d)

\* A new bill is a cycle too.
LEMMA UpsertCycles ==
  ASSUME BillsTyped, Cycles, closing \in 1..31, closing' = closing,
         NEW d, IsDate(d), UpsertBill(closing, d)
  PROVE  LET e == CycleForDate(closing, DueDay, d).end
         IN Cycles' /\ PeriodsKept /\ e \in DOMAIN bills' /\ Covers(bills'[e], d)
<1> DEFINE cycle == CycleForDate(closing, DueDay, d)
           e == cycle.end
<1>1. /\ BillsTyped'
      /\ DOMAIN bills' = DOMAIN bills \cup {e}
      /\ bills'[e].start = cycle.start
      /\ \A x \in DOMAIN bills : x # e => bills'[x] = bills[x]
  BY Upserted
<1>2. /\ e = DateWithDay(e.month, closing)
      /\ cycle.start = Succ(DateWithDay(e.month - 1, closing))
      /\ NotAfter(cycle.start, d) /\ NotAfter(d, e)
  BY CycleOf
<1> HIDE DEF cycle, e
<1>3. Cycles'
  <2> SUFFICES ASSUME NEW x \in DOMAIN bills' PROVE InCycle(x)'
    BY DEF Cycles
  <2>1. CASE x = e
    BY <1>1, <1>2, <2>1 DEF InCycle
  <2>2. CASE x # e
    <3>1. x \in DOMAIN bills /\ bills'[x] = bills[x] /\ InCycle(x)
      BY <1>1, <2>2 DEF Cycles
    <3> QED BY <3>1 DEF InCycle
  <2> QED BY <2>1, <2>2
<1>4. PeriodsKept
  <2> SUFFICES ASSUME NEW x \in DOMAIN bills
               PROVE  x \in DOMAIN bills' /\ bills'[x].start = bills[x].start
                      /\ bills'[x].end = bills[x].end
    BY DEF PeriodsKept, Covers
  <2>1. CASE x = e
    <3>1. bills[e].start = Succ(DateWithDay(e.month - 1, closing)) /\ bills[e].end = e
      BY <2>1 DEF Cycles, InCycle, BillsTyped
    <3>2. bills'[e].end = e
      BY <1>1 DEF BillsTyped
    <3> QED BY <1>1, <1>2, <2>1, <3>1, <3>2
  <2>2. CASE x # e
    BY <1>1, <2>2
  <2> QED BY <2>1, <2>2
<1>5. e \in DOMAIN bills' /\ Covers(bills'[e], d)
  BY <1>1, <1>2 DEF Covers, BillsTyped
<1> QED
  BY <1>3, <1>4, <1>5 DEF e, cycle

LEMMA CardsReadStep ==
  ASSUME Typed, CardsRead, closing' = closing, NEW p \in Request, PlanStep(p) \/ CardStep(p)
  PROVE  CardsRead'
<1>0. req \in [Request -> ReqType]
  BY DEF Typed
<1>1. \A q \in Request : q # p => req'[q] = req[q]
  BY StepPcs
<1>2. ASSUME req'[p].pc = "charge" PROVE req'[p].closing = closing
  <2>1. ReadCard(p) \/ ReadInstallments(p)
    <3>1. ~PlanStep(p)
      BY <1>2, PlanPcs
    <3>2. ~(PayBill(p) \/ Purchase(p) \/ Anticipate(p))
      BY <1>2, <3>1, StepPcs
    <3>3. ASSUME ReadBill(p) PROVE FALSE
      <4>1. PICK e : \/ Finish(p)
                     \/ req' = [req EXCEPT ![p].pc = "settle", ![p].bill = e,
                                  ![p].paid = bills[e].paid, ![p].total = Total(bills[e])]
        BY <3>3 DEF ReadBill
      <4> QED BY <1>0, <1>2, <4>1, OverFits DEF Finish, ReqType
    <3> QED BY <3>1, <3>2, <3>3 DEF CardStep
  <2>2. CASE ReadCard(p)
    BY <1>0, <2>2 DEF ReadCard, ReqType
  <2>3. CASE ReadInstallments(p)
    <3>1. PICK ns : \/ Finish(p)
                    \/ req' = [req EXCEPT ![p].pc = "charge", ![p].closing = closing,
                                 ![p].day = today,
                         ![p].seen = [n \in ns |-> [tx |-> rows[n].tx, amount |-> AmountOf(n)]]]
      BY <2>3 DEF ReadInstallments
    <3> QED BY <1>0, <1>2, <3>1, OverFits DEF Finish, ReqType
  <2> QED BY <2>1, <2>2, <2>3
<1> QED
  BY <1>1, <1>2 DEF CardsRead

\* No step of the plan moves an installment to a bill, or one that is on a bill to
\* another transaction or day.
LEMMA PlanKeepsBilled ==
  ASSUME Typed, PlanFits, NEW p \in Request, PlanStep(p), NEW n \in Number \ raced,
         rows'[n].bill # NoBill
  PROVE  rows'[n].bill = rows[n].bill /\ tx'[rows'[n].tx].date = tx[rows[n].tx].date
<1>0. /\ tx \in [TxId -> Tx] /\ rows \in [Number -> Row] /\ req \in [Request -> ReqType]
  BY TypedFacts
<1>1. RowFits(n) /\ Sole(n)
  BY DEF PlanFits, RowsFit
<1>2. ASSUME rows[n].bill # NoBill
      PROVE  /\ HasRow(n) /\ plan = "live" /\ rows[n].tx # NoId /\ rows[n].tx \in TxId
             /\ Live(rows[n].tx)
  <2>1. HasRow(n) /\ plan = "live" /\ rows[n].tx # NoId
    BY <1>1, <1>2, NothingFits DEF RowFits
  <2>2. rows[n].tx \in TxId
    BY <2>1, TypedFacts
  <2>3. Charges(n) = {rows[n].tx} \ {NoId}
    BY <1>1, <2>1 DEF Sole, Current
  <2> QED BY <2>1, <2>2, <2>3 DEF Charges
<1>3. CASE rows'[n] = rows[n] /\ tx' = tx
  BY <1>3
<1>4. CASE InsertRow(p)
  <2>1. PICK m \in req[p].todo : rows' = [rows EXCEPT ![m] = Pending] \/ rows' = rows
    BY <1>4 DEF InsertRow
  <2>2. m \in Number
    BY <1>0, <2>1, RequestFacts
  <2>3. rows'[n] = rows[n]
    <3>1. CASE rows' = [rows EXCEPT ![m] = Pending]
      BY <1>0, <2>2, <3>1, NothingFits
    <3>2. CASE rows' = rows
      BY <3>2
    <3> QED BY <2>1, <3>1, <3>2
  <2>4. tx' = tx
    BY <1>4 DEF InsertRow
  <2> QED BY <2>3, <2>4
<1>5. CASE SplitPlan(p)
  <2>1. UNCHANGED <<rows, tx>>
    <3>1. ASSUME ~UNCHANGED <<rows, tx>> PROVE rows'[n].bill = NoBill
      BY <1>5, <3>1 DEF SplitPlan
    <3> QED BY <3>1
  <2> QED BY <2>1
<1>6. CASE PostGenerated(p) \/ PostPaid(p)
  <2>1. PICK m \in DOMAIN req[p].seen :
          \/ UNCHANGED <<tx, rows>>
          \/ /\ ~Live(req[p].seen[m].tx)
             /\ tx' = [tx EXCEPT ![<<p, m>>] = Expense(Due(m), InstallmentAmount)]
             /\ SetRow(m, <<p, m>>, "generated") \/ SetRow(m, <<p, m>>, "paid")
          \/ /\ Live(req[p].seen[m].tx) /\ UNCHANGED tx
             /\ SetRow(m, req[p].seen[m].tx, "paid")
    <3>1. CASE PostGenerated(p)
      <4>1. PICK m \in DOMAIN req[p].seen :
              \/ UNCHANGED <<tx, rows>>
              \/ /\ tx' = [tx EXCEPT ![<<p, m>>] = Expense(Due(m), InstallmentAmount)]
                 /\ SetRow(m, <<p, m>>, "generated")
        BY <3>1 DEF PostGenerated
      <4>2. ~Live(req[p].seen[m].tx)
        <5>1. req[p].seen[m].tx = NoId
          BY <3>1, <4>1 DEF PostGenerated, Typed, Suits
        <5> QED BY <5>1 DEF Live
      <4> QED BY <4>1, <4>2
    <3>2. CASE PostPaid(p)
      BY <3>2 DEF PostPaid
    <3> QED BY <1>6, <3>1, <3>2
  <2>2. m \in Number /\ req[p].seen[m].tx \in TxId \cup {NoId}
    BY <1>0, <2>1, RequestFacts, SeenFacts
  <2>3. <<p, m>> \in TxId /\ NoId \notin TxId
    BY <2>2, NumberPosted, IdFacts, NothingFits
  <2>4. CASE m = n /\ ~UNCHANGED <<tx, rows>>
    <3> DEFINE t == req[p].seen[n].tx
    <3>1. /\ rows'[n].bill = rows[n].bill
          /\ ~HasRow(n) => rows' = rows
      <4>1. PICK u \in TxId \cup {NoId}, status \in Statuses : SetRow(n, u, status)
        BY <2>1, <2>2, <2>3, <2>4 DEF Statuses
      <4> QED BY <1>0, <4>1, RowSet
    <3>2. rows[n].bill # NoBill /\ Live(rows[n].tx) /\ plan = "live"
      BY <1>2, <3>1
    <3>3. t = rows[n].tx /\ t \in TxId
      BY <1>2, <2>1, <2>4, <3>2, ReadIsSo
    <3>4. UNCHANGED tx /\ SetRow(n, t, "paid")
      BY <2>1, <2>4, <3>2, <3>3
    <3>5. rows'[n].tx = t
      BY <1>0, <1>2, <3>2, <3>3, <3>4, RowSet DEF Statuses
    <3> QED BY <3>1, <3>3, <3>4, <3>5
  <2>5. CASE m # n
    <3>1. rows'[n] = rows[n]
      <4>1. UNCHANGED rows \/ \E u \in TxId \cup {NoId}, status \in Statuses : SetRow(m, u, status)
        BY <2>1, <2>2, <2>3 DEF Statuses
      <4> QED BY <1>0, <2>2, <2>5, <4>1, RowSet
    <3>2. rows[n].tx \in TxId /\ rows[n].tx # <<p, m>>
      BY <1>1, <1>2, <2>5, <3>1 DEF RowFits, TxOf
    <3>3. tx'[rows[n].tx] = tx[rows[n].tx]
      BY <1>0, <2>1, <3>2
    <3> QED BY <3>1, <3>3
  <2> QED BY <1>3, <2>4, <2>5
<1>7. CASE UnlinkPlan(p)
  <2>1. rows' = rows
    BY <1>7 DEF UnlinkPlan
  <2>2. \A t \in TxId : tx'[t].date = tx[t].date
    BY <1>0, <1>7 DEF UnlinkPlan, Tx
  <2> QED BY <1>2, <2>1, <2>2
<1>8. CASE ErasePlan(p)
  <2>1. tx' = tx /\ (rows' = rows \/ rows' = [m \in Number |-> NoRow])
    BY <1>8 DEF ErasePlan
  <2> QED BY <2>1, NothingFits
<1>9. CASE DeleteTx(p)
  <2>1. PICK t \in TxId :
          \/ UNCHANGED <<rows, tx>>
          \/ /\ rows' = [m \in Number |-> IF HasRow(m) /\ rows[m].tx = t THEN NoRow ELSE rows[m]]
             /\ tx' = [tx EXCEPT ![t] = NoTx]
    BY <1>9 DEF DeleteTx
  <2>2. CASE UNCHANGED <<rows, tx>>
    BY <2>2
  <2>3. CASE /\ rows' = [m \in Number |-> IF HasRow(m) /\ rows[m].tx = t THEN NoRow ELSE rows[m]]
             /\ tx' = [tx EXCEPT ![t] = NoTx]
    <3>1. ~(HasRow(n) /\ rows[n].tx = t) /\ rows'[n] = rows[n]
      BY <2>3, NothingFits
    <3>2. rows[n].tx # t /\ rows[n].tx \in TxId
      BY <1>2, <3>1
    <3>3. tx'[rows[n].tx] = tx[rows[n].tx]
      BY <1>0, <2>3, <3>2
    <3> QED BY <3>1, <3>3
  <2> QED BY <2>1, <2>2, <2>3
<1>10. CASE CreatePlan(p) \/ Scan(p) \/ Check(p) \/ ReadInstallment(p) \/ Fail(p)
  BY <1>10 DEF CreatePlan, Scan, Check, ReadInstallment, Fail
<1> QED
  BY <1>4, <1>5, <1>6, <1>7, <1>8, <1>9, <1>10 DEF PlanStep

\* The rows and transactions are on the bills they were on.
LEMMA StayBilled ==
  ASSUME Bought, \A n \in Number \ raced : OnBill(n), raced \subseteq raced', PeriodsKept,
         \A q \in Request : Live(<<q, 0>>)' =>
           Live(<<q, 0>>) /\ tx'[<<q, 0>>].date = tx[<<q, 0>>].date,
         \A n \in Number \ raced : rows'[n].bill # NoBill =>
           rows'[n].bill = rows[n].bill /\ tx'[rows'[n].tx].date = tx[rows[n].tx].date
  PROVE  Bought' /\ \A n \in Number \ raced' : OnBill(n)'
<1>1. ASSUME NEW q \in Request, Live(<<q, 0>>)'
      PROVE  \E e \in DOMAIN bills' : Covers(bills'[e], tx'[<<q, 0>>].date)
  <2>1. Live(<<q, 0>>) /\ tx'[<<q, 0>>].date = tx[<<q, 0>>].date
    BY <1>1
  <2>2. PICK e \in DOMAIN bills : Covers(bills[e], tx[<<q, 0>>].date)
    BY <2>1 DEF Bought
  <2>3. e \in DOMAIN bills' /\ Covers(bills'[e], tx'[<<q, 0>>].date)
    BY <2>1, <2>2 DEF PeriodsKept
  <2> QED BY <2>3
<1>2. ASSUME NEW n \in Number \ raced', rows'[n].bill # NoBill
      PROVE  /\ rows'[n].bill \in DOMAIN bills'
             /\ Covers(bills'[rows'[n].bill], tx'[rows'[n].tx].date)
  <2>1. /\ rows'[n].bill = rows[n].bill /\ tx'[rows'[n].tx].date = tx[rows[n].tx].date
        /\ n \in Number \ raced
    BY <1>2
  <2>2. /\ rows[n].bill \in DOMAIN bills
        /\ Covers(bills[rows[n].bill], tx[rows[n].tx].date)
    BY <1>2, <2>1 DEF OnBill
  <2> QED BY <2>1, <2>2 DEF PeriodsKept
<1> QED
  BY <1>1, <1>2 DEF Bought, OnBill

LEMMA SamePeriods ==
  ASSUME DOMAIN bills' = DOMAIN bills,
         \A e \in DOMAIN bills : bills'[e].start = bills[e].start /\ bills'[e].end = bills[e].end
  PROVE  /\ PeriodsKept
         /\ Cycles /\ closing' = closing => Cycles'
<1>1. PeriodsKept
  BY DEF PeriodsKept, Covers
<1>2. ASSUME Cycles, closing' = closing PROVE Cycles'
  BY <1>2 DEF Cycles, InCycle
<1> QED
  BY <1>1, <1>2

LEMMA PurchaseBilled ==
  ASSUME Typed, PlanFits, Cycles, CardsRead, Bought, \A n \in Number \ raced : OnBill(n),
         raced \subseteq raced', closing' = closing, NEW p \in Request, Purchase(p)
  PROVE  Cycles' /\ Bought' /\ \A n \in Number \ raced' : OnBill(n)'
<1>1. PICK d \in Dates :
        UpsertBill(req[p].closing, d) /\ IsDate(d) /\ tx'[<<p, 0>>].date = d
  BY PurchaseBuys
<1>2. /\ req[p].closing = closing
      /\ \A t \in TxId : t # <<p, 0>> => tx'[t] = tx[t]
      /\ rows' = rows
  BY PurchaseBuys DEF CardsRead, Purchase
<1>3. PICK e : Cycles' /\ PeriodsKept /\ e \in DOMAIN bills' /\ Covers(bills'[e], d)
  <2>1. BillsTyped /\ closing \in 1..31 /\ UpsertBill(closing, d)
    BY <1>1, <1>2, TypedFacts
  <2> QED BY <1>1, <2>1, UpsertCycles
<1>4. ASSUME NEW q \in Request, Live(<<q, 0>>)'
      PROVE  \E x \in DOMAIN bills' : Covers(bills'[x], tx'[<<q, 0>>].date)
  <2>1. CASE q = p
    BY <1>1, <1>3, <2>1
  <2>2. CASE q # p
    <3>1. tx'[<<q, 0>>] = tx[<<q, 0>>]
      <4>1. <<q, 0>> \in TxId /\ <<q, 0>> # <<p, 0>>
        BY <2>2, IdFacts, InstallmentConstants
      <4> QED BY <1>2, <4>1
    <3>2. PICK x \in DOMAIN bills : Covers(bills[x], tx[<<q, 0>>].date)
      BY <1>4, <3>1 DEF Bought, Live
    <3>3. x \in DOMAIN bills' /\ Covers(bills'[x], tx'[<<q, 0>>].date)
      BY <1>3, <3>1, <3>2 DEF PeriodsKept
    <3> QED BY <3>3
  <2> QED BY <2>1, <2>2
<1>5. ASSUME NEW n \in Number \ raced', rows'[n].bill # NoBill
      PROVE  /\ rows'[n].bill \in DOMAIN bills'
             /\ Covers(bills'[rows'[n].bill], tx'[rows'[n].tx].date)
  <2>1. n \in Number \ raced /\ rows[n].bill # NoBill /\ RowFits(n)
    BY <1>2, <1>5 DEF PlanFits, RowsFit
  <2>2. tx'[rows[n].tx] = tx[rows[n].tx]
    <3>1. rows[n].tx # NoId /\ rows[n].tx \in TxId
      BY <2>1, TypedFacts DEF RowFits
    <3>2. rows[n].tx # <<p, 0>>
      <4>1. n # 0
        BY <2>1 DEF Number
      <4> QED BY <2>1, <3>1, <4>1 DEF RowFits, TxOf
    <3> QED BY <1>2, <3>1, <3>2
  <2>3. /\ rows[n].bill \in DOMAIN bills
        /\ Covers(bills[rows[n].bill], tx[rows[n].tx].date)
    BY <2>1 DEF OnBill
  <2> QED BY <1>2, <1>3, <2>2, <2>3 DEF PeriodsKept
<1> QED
  BY <1>3, <1>4, <1>5 DEF Bought, OnBill

LEMMA AnticipateBilled ==
  ASSUME Typed, PlanFits, Cycles, CardsRead, Bought, \A n \in Number \ raced : OnBill(n),
         raced \subseteq raced', closing' = closing, NEW p \in Request,
         req[p].pc = "charge", Charged(p)
  PROVE  Cycles' /\ Bought' /\ \A n \in Number \ raced' : OnBill(n)'
<1> DEFINE d == req[p].day
           e == CycleForDate(closing, DueDay, d).end
           ns == DOMAIN req[p].seen
<1>0. \A n \in ns : n \in Number /\ n # 0 /\ TxFor(p, n) \in TxOf(n)
  BY ChargedFor
<1>1. req[p].closing = closing /\ UpsertBill(closing, d)
  BY DEF CardsRead, Charged
<1>2. /\ \A n \in ns : TxFor(p, n) \in TxId /\ rows'[n].tx = TxFor(p, n) /\ rows'[n].bill = e
      /\ \A n \in Number : n \notin ns => rows'[n] = rows[n]
      /\ \A t \in TxId : IF \E n \in ns : t = TxFor(p, n)
                         THEN tx'[t].date = d /\ tx'[t].amount > 0
                         ELSE tx'[t] = tx[t]
  BY <1>1 DEF Charged
<1>3. Cycles' /\ PeriodsKept /\ e \in DOMAIN bills' /\ Covers(bills'[e], d)
  <2>1. BillsTyped /\ closing \in 1..31 /\ IsDate(d)
    BY TypedFacts DEF Typed, Suits
  <2> QED BY <1>1, <2>1, UpsertCycles
<1> HIDE DEF d, e, ns
<1>4. ASSUME NEW m \in Nat, NEW t \in TxId, t \in TxOf(m), m \notin ns
      PROVE  tx'[t] = tx[t]
  <2>1. t # NoId
    BY <1>4, NothingFits
  <2>2. \A n \in ns : t # TxFor(p, n)
    <3> SUFFICES ASSUME NEW n \in ns, t = TxFor(p, n) PROVE FALSE
      OBVIOUS
    <3>1. t \in TxOf(n) /\ n # m
      BY <1>0, <1>4
    <3> QED BY <1>4, <2>1, <3>1 DEF TxOf
  <2> QED BY <1>2, <2>2
<1>5. ASSUME NEW q \in Request, Live(<<q, 0>>)'
      PROVE  \E x \in DOMAIN bills' : Covers(bills'[x], tx'[<<q, 0>>].date)
  <2>1. tx'[<<q, 0>>] = tx[<<q, 0>>]
    <3>1. <<q, 0>> \in TxId /\ <<q, 0>> \in TxOf(0)
      BY IdFacts, InstallmentConstants DEF TxOf
    <3>2. 0 \notin ns
      BY <1>0
    <3> QED BY <1>4, <3>1, <3>2
  <2>2. PICK x \in DOMAIN bills : Covers(bills[x], tx[<<q, 0>>].date)
    BY <1>5, <2>1 DEF Bought, Live
  <2>3. x \in DOMAIN bills' /\ Covers(bills'[x], tx'[<<q, 0>>].date)
    BY <1>3, <2>1, <2>2 DEF PeriodsKept
  <2> QED BY <2>3
<1>6. ASSUME NEW n \in Number \ raced', rows'[n].bill # NoBill
      PROVE  /\ rows'[n].bill \in DOMAIN bills'
             /\ Covers(bills'[rows'[n].bill], tx'[rows'[n].tx].date)
  <2>1. CASE n \in ns
    <3>1. rows'[n].bill = e /\ rows'[n].tx = TxFor(p, n) /\ TxFor(p, n) \in TxId
      BY <1>2, <2>1
    <3>2. tx'[TxFor(p, n)].date = d
      BY <1>2, <2>1, <3>1
    <3> QED BY <1>3, <3>1, <3>2
  <2>2. CASE n \notin ns
    <3>1. rows'[n] = rows[n] /\ n \in Number \ raced /\ RowFits(n)
      BY <1>2, <1>6, <2>2 DEF PlanFits, RowsFit
    <3>2. rows[n].tx \in TxId /\ rows[n].tx \in TxOf(n) /\ n \in Nat
      BY <1>6, <3>1, TypedFacts DEF RowFits, Number
    <3>3. tx'[rows[n].tx] = tx[rows[n].tx]
      BY <1>4, <2>2, <3>2
    <3>4. /\ rows[n].bill \in DOMAIN bills
          /\ Covers(bills[rows[n].bill], tx[rows[n].tx].date)
      BY <1>6, <3>1 DEF OnBill
    <3> QED BY <1>3, <3>1, <3>3, <3>4 DEF PeriodsKept
  <2> QED BY <2>1, <2>2
<1> QED
  BY <1>3, <1>5, <1>6 DEF Bought, OnBill

LEMMA BilledStep ==
  ASSUME Typed, PlanFits, ~reset => Billed, [Next]_vars
  PROVE  (~reset => Billed)'
<1> SUFFICES ASSUME ~reset' PROVE Billed'
  OBVIOUS
<1>1. ASSUME NEW p \in Request, PlanPart(p) \/ CardPart(p), Watch
      PROVE  Billed'
  <2>1. reset' = reset /\ closing' = closing /\ raced \subseteq raced'
    BY <1>1 DEF Watch, PlanPart, CardPart, ReadCard, ReadBill, PayBill, ReadInstallments, Purchase,
          Anticipate, cardVars
  <2>2. /\ Cycles /\ CardsRead /\ Bought
        /\ \A n \in Number \ raced : OnBill(n)
    BY <2>1 DEF Billed
  <2>3. CardsRead'
    BY <1>1, <2>1, <2>2, CardsReadStep DEF PlanPart, CardPart, CardStep
  <2>4. ASSUME Cycles', Bought', \A n \in Number \ raced' : OnBill(n)' PROVE Billed'
    BY <2>3, <2>4 DEF Billed
  <2>5. CASE PlanPart(p)
    <3>1. PlanStep(p) /\ bills' = bills
      BY <2>5 DEF PlanPart
    <3>2. PeriodsKept /\ Cycles'
      BY <2>1, <2>2, <3>1, SamePeriods
    <3>3. \A q \in Request : Live(<<q, 0>>)' =>
            Live(<<q, 0>>) /\ tx'[<<q, 0>>].date = tx[<<q, 0>>].date
      BY <3>1, PlanKeepsPurchases
    <3>4. \A n \in Number \ raced : rows'[n].bill # NoBill =>
            rows'[n].bill = rows[n].bill /\ tx'[rows'[n].tx].date = tx[rows[n].tx].date
      BY <3>1, PlanKeepsBilled
    <3> QED BY <2>1, <2>2, <2>4, <3>2, <3>3, <3>4, StayBilled
  <2>6. CASE Purchase(p)
    BY <2>1, <2>2, <2>4, <2>6, PurchaseBilled
  <2>7. CASE Anticipate(p) /\ Charged(p)
    <3>1. req[p].pc = "charge"
      BY <2>7 DEF Anticipate
    <3> QED BY <2>1, <2>2, <2>4, <2>7, <3>1, AnticipateBilled
  <2>8. ASSUME UNCHANGED <<rows, tx>>, DOMAIN bills' = DOMAIN bills,
               \A e \in DOMAIN bills :
                 bills'[e].start = bills[e].start /\ bills'[e].end = bills[e].end
        PROVE  Billed'
    <3>1. PeriodsKept /\ Cycles'
      BY <2>1, <2>2, <2>8, SamePeriods
    <3>2. \A q \in Request : Live(<<q, 0>>)' =>
            Live(<<q, 0>>) /\ tx'[<<q, 0>>].date = tx[<<q, 0>>].date
      BY <2>8 DEF Live
    <3> QED BY <2>1, <2>2, <2>4, <2>8, <3>1, <3>2, StayBilled
  <2>9. CASE PayBill(p)
    <3>1. PICK a \in Nat \ {0} : Paid(p, a)
      BY <2>9, PayBillPays
    <3>2. /\ DOMAIN bills' = DOMAIN bills
          /\ \A e \in DOMAIN bills :
               bills'[e].start = bills[e].start /\ bills'[e].end = bills[e].end
      BY <3>1 DEF Paid
    <3> QED BY <2>8, <2>9, <3>2 DEF PayBill
  <2>10. CASE UNCHANGED <<rows, tx, bills>>
    BY <2>8, <2>10
  <2>11. Anticipate(p) => Charged(p) \/ UNCHANGED <<rows, tx, bills>>
    BY AnticipateCharges
  <2> QED BY <1>1, <2>5, <2>6, <2>7, <2>9, <2>10, <2>11
          DEF CardPart, ReadCard, ReadBill, ReadInstallments, cardVars
<1>2. CASE UNCHANGED <<rows, tx, req, raced, closing, bills, reset>>
  BY <1>2 DEF Billed, Cycles, CardsRead, Bought, OnBill, InCycle, Live
<1> QED
  BY <1>1, <1>2 DEF Next, DayPasses, ChangeClosing, vars, planVars, cardVars

------------------------------------------------------------------------------
(* The invariant holds. *)

LEMMA InitHolds ==
  ASSUME Init
  PROVE  IInv
<1>1. Typed
  BY TypedInit
<1>2. /\ plan = "none" /\ rows = [n \in Number |-> NoRow] /\ tx = [t \in TxId |-> NoTx]
      /\ req = [p \in Request |-> NewReq]
      /\ DOMAIN bills = {} /\ payments = {}
  BY DEF Init, PlanInit
<1>3. \A t \in TxId : ~Live(t)
  BY <1>2, NothingFits DEF Live
<1>4. \A p \in Request : req[p].pc = "new" /\ req[p].todo = {} /\ DOMAIN req[p].seen = {}
  BY <1>2, OverFits
<1>5. \A n \in Number : rows[n] = NoRow /\ ~HasRow(n) /\ rows[n].tx = NoId
                        /\ rows[n].status = "gone" /\ rows[n].bill = NoBill
  BY <1>2, NothingFits DEF HasRow
<1>6. \A n \in Number : Charges(n) = {}
  BY <1>3 DEF Charges
<1>7. RowsFit
  BY <1>2, <1>4, <1>5, <1>6 DEF RowsFit, RowFits, Creates, TxOf
<1>8. \A n \in Number : Sole(n)
  BY <1>2, <1>4 DEF Sole, Current, Unposted
<1>9. Billed
  <2>1. Cycles /\ CardsRead
    BY <1>2, <1>4 DEF Cycles, CardsRead
  <2>2. Bought
    <3>1. \A q \in Request : <<q, 0>> \in TxId
      BY IdFacts, InstallmentConstants
    <3> QED BY <1>3, <3>1 DEF Bought
  <2>3. \A n \in Number : OnBill(n)
    BY <1>5 DEF OnBill
  <2> QED BY <2>1, <2>2, <2>3 DEF Billed
<1>10. AllSettled /\ AllPosted /\ PayersDone
  BY <1>2 DEF AllSettled, AllPosted, PayersDone
<1>11. Parts
  <2>1. \A p \in Request, n \in Number : <<p, n>> \in TxId
    BY NumberPosted, IdFacts
  <2> QED BY <1>3, <2>1 DEF Parts
<1> QED
  BY <1>1, <1>7, <1>8, <1>9, <1>10, <1>11 DEF IInv, PlanFits

LEMMA StepHolds ==
  ASSUME IInv, [Next]_vars
  PROVE  IInv'
<1>1. Typed /\ PlanFits /\ (~reset => Billed) /\ AllSettled /\ AllPosted /\ PayersDone /\ Parts
  BY DEF IInv
<1>2. Typed'
  BY <1>1, TypedStep
<1>3. PlanFits'
  BY <1>1, PlanFitsStep
<1>4. (~reset => Billed)'
  BY <1>1, BilledStep
<1>5. AllSettled' /\ AllPosted'
  BY <1>1, <1>2, PaymentsStep
<1>6. PayersDone'
  BY <1>1, PayersStep
<1>7. Parts'
  BY <1>1, PartsStep
<1> QED
  BY <1>2, <1>3, <1>4, <1>5, <1>6, <1>7 DEF IInv

LEMMA Invariance == Spec => []IInv
<1>1. Init => IInv
  BY InitHolds
<1>2. IInv /\ [Next]_vars => IInv'
  BY StepHolds
<1> QED
  BY <1>1, <1>2, PTL DEF Spec

------------------------------------------------------------------------------
(* What follows from it. *)

LEMMA FewCharges ==
  ASSUME Typed, PlanFits, NEW n \in Number \ raced
  PROVE  IF HasRow(n) THEN Charges(n) = {rows[n].tx} \ {NoId} ELSE Cardinality(Charges(n)) <= 1
<1>1. RowFits(n) /\ Current(n)
  BY DEF PlanFits, RowsFit, Sole
<1>2. HasRow(n) => Charges(n) = {rows[n].tx} \ {NoId}
  BY <1>1 DEF RowFits, Current
<1>3. ASSUME ~HasRow(n) PROVE Cardinality(Charges(n)) <= 1
  <2>1. \A t, u \in Charges(n) : t = u
    <3>1. plan = "none" => Charges(n) = {}
      BY DEF PlanFits, RowsFit
    <3>2. plan \in {"none", "live", "gone"}
      BY DEF Typed, TypeOK
    <3> QED BY <1>1, <3>1, <3>2 DEF Current
  <2>2. CASE Charges(n) = {}
    BY <2>2, FS_EmptySet
  <2>3. CASE Charges(n) # {}
    <3>1. PICK t \in Charges(n) : Charges(n) = {t}
      BY <2>1, <2>3
    <3>2. Cardinality({t}) = 1
      BY FS_Singleton
    <3> QED BY <3>1, <3>2
  <2> QED BY <2>2, <2>3
<1> QED
  BY <1>2, <1>3

LEMMA OnOne ==
  ASSUME Typed, Billed
  PROVE  \A t \in TxId : Live(t) =>
           LET on == {e \in DOMAIN bills : Covers(bills[e], tx[t].date)}
           IN Cardinality(on) <= 1 /\ (t[2] = 0 => on # {})
<1> SUFFICES ASSUME NEW t \in TxId, Live(t)
             PROVE  LET on == {e \in DOMAIN bills : Covers(bills[e], tx[t].date)}
                    IN Cardinality(on) <= 1 /\ (t[2] = 0 => on # {})
  OBVIOUS
<1> DEFINE on == {e \in DOMAIN bills : Covers(bills[e], tx[t].date)}
<1>1. closing \in 1..31 /\ tx[t].date \in Date /\ IsDate(tx[t].date)
  BY TypedFacts
<1>2. \A e, f \in on : e = f
  <2> SUFFICES ASSUME NEW e \in on, NEW f \in on PROVE e = f
    OBVIOUS
  <2>1. \A g \in on : /\ g \in Date /\ g = DateWithDay(g.month, closing)
                      /\ NotAfter(Succ(DateWithDay(g.month - 1, closing)), tx[t].date)
                      /\ NotAfter(tx[t].date, g)
    BY TypedFacts DEF Billed, Cycles, InCycle, Covers, BillsTyped
  <2> HIDE DEF on
  <2> QED BY <1>1, <2>1, CyclesApart
<1>3. Cardinality(on) <= 1
  <2> HIDE DEF on
  <2>1. CASE on = {}
    BY <2>1, FS_EmptySet
  <2>2. CASE on # {}
    <3>1. PICK e \in on : on = {e}
      BY <1>2, <2>2
    <3>2. Cardinality({e}) = 1
      BY FS_Singleton
    <3> QED BY <3>1, <3>2
  <2> QED BY <2>1, <2>2
<1>4. t[2] = 0 => on # {}
  <2> SUFFICES ASSUME t[2] = 0 PROVE on # {}
    OBVIOUS
  <2>1. t = <<t[1], 0>> /\ t[1] \in Request
    BY IdParts
  <2>2. PICK e \in DOMAIN bills : Covers(bills[e], tx[t].date)
    BY <2>1 DEF Billed, Bought
  <2> QED BY <2>2
<1> QED
  BY <1>3, <1>4

\* No step takes a paid installment back to a generated one.
LEMMA PaidKept ==
  ASSUME Typed, PlanFits, NEW n \in Number \ raced, rows[n].status = "paid", [Next]_vars
  PROVE  rows'[n].status \in {"paid", "gone"}
<1>0. /\ rows \in [Number -> Row] /\ req \in [Request -> ReqType]
  BY TypedFacts
<1>1. HasRow(n) /\ plan = "live" /\ rows[n].tx # NoId
  BY DEF PlanFits, RowsFit, RowFits, HasRow
<1>2. ASSUME NEW p \in Request, PlanStep(p)
      PROVE  rows'[n].status \in {"paid", "gone"}
  <2>1. CASE InsertRow(p)
    <3>1. PICK m \in req[p].todo : rows' = [rows EXCEPT ![m] = Pending] \/ rows' = rows
      BY <2>1 DEF InsertRow
    <3>2. m # n
      <4>1. req[p].pc = "rows"
        BY <2>1 DEF InsertRow
      <4>2. Creates(p)
        BY DEF PlanFits, RowsFit
      <4> QED BY <1>1, <3>1, <4>1, <4>2 DEF Creates
    <3> QED BY <1>0, <3>1, <3>2
  <2>2. CASE PostGenerated(p)
    <3>1. PICK m \in DOMAIN req[p].seen :
            UNCHANGED rows \/ SetRow(m, <<p, m>>, "generated")
      BY <2>2 DEF PostGenerated
    <3>2. m # n
      <4>1. req[p].seen[m].tx = NoId
        BY <2>2 DEF PostGenerated, Typed, Suits
      <4> QED BY <1>1, <3>1, <4>1, ReadIsSo
    <3>3. m \in Number
      BY <1>0, RequestFacts, SeenFacts
    <3>4. <<p, m>> \in TxId
      BY <3>3, NumberPosted, IdFacts
    <3> QED BY <1>0, <3>1, <3>2, <3>3, <3>4, RowSet DEF Statuses
  <2>3. CASE PostPaid(p)
    <3>1. PICK m \in DOMAIN req[p].seen : \E u \in {<<p, m>>, req[p].seen[m].tx} :
            UNCHANGED rows \/ SetRow(m, u, "paid")
      BY <2>3 DEF PostPaid
    <3>2. m \in Number /\ req[p].seen[m].tx \in TxId \cup {NoId}
      BY <1>0, RequestFacts, SeenFacts
    <3>3. PICK u \in TxId \cup {NoId} : UNCHANGED rows \/ SetRow(m, u, "paid")
      BY <3>1, <3>2, NumberPosted, IdFacts
    <3> QED BY <1>0, <3>2, <3>3, RowSet DEF Statuses
  <2>4. CASE ErasePlan(p) \/ DeleteTx(p)
    <3>1. rows'[n] = rows[n] \/ rows'[n] = NoRow
      BY <1>0, <2>4 DEF ErasePlan, DeleteTx
    <3> QED BY <3>1, NothingFits
  <2>5. CASE CreatePlan(p) \/ SplitPlan(p) \/ Scan(p) \/ Check(p) \/ ReadInstallment(p)
             \/ UnlinkPlan(p) \/ Fail(p)
    BY <1>1, <2>5 DEF CreatePlan, SplitPlan, Scan, Check, ReadInstallment, UnlinkPlan, Fail
  <2> QED BY <1>2, <2>1, <2>2, <2>3, <2>4, <2>5 DEF PlanStep
<1>3. ASSUME NEW p \in Request, Anticipate(p)
      PROVE  rows'[n].status = "paid"
  <2>1. CASE Charged(p)
    BY <2>1 DEF Charged
  <2> QED BY <1>3, <2>1, AnticipateCharges
<1>4. CASE UNCHANGED rows
  BY <1>4
<1> QED
  BY <1>2, <1>3, <1>4 DEF Next, PlanPart, CardPart, ReadCard, ReadBill, PayBill, ReadInstallments,
     Purchase, DayPasses, ChangeClosing, vars, planVars, cardVars

\* All parts but the last are equal, and the last is what they leave.
LEMMA PartsAddUp ==
  ASSUME NEW f \in [Number -> Int], \A n \in Number : f[n] = Part(n)
  PROVE  SumFunction(f) = PlanTotal
<1> DEFINE per == RoundHalfEven(PlanTotal, N)
           sum(k) == SumFunctionOnSet(f, 1..k)
           P == {k \in Nat : k < N => sum(k) = k * per}
<1>0. N \in Nat \ {0} /\ PlanTotal \in Nat /\ per \in Int
  BY InstallmentConstants, RoundedInt
<1>1. \A n \in Number : f[n] = IF n = N THEN PlanTotal - per * (N - 1) ELSE per
  BY DEF Part
<1>2. SumFunction(f) = sum(N)
  BY DEF SumFunction, Number
<1> HIDE DEF per, sum
<1>3. sum(0) = 0
  <2>1. 1..0 = {}
    OBVIOUS
  <2> QED BY <2>1, SumEmpty DEF sum
<1>4. ASSUME NEW k \in Nat, k + 1 <= N
      PROVE  sum(k + 1) = f[k + 1] + sum(k)
  <2> DEFINE D == 1..(k + 1)
  <2>1. IsFiniteSet(D) /\ k + 1 \in D /\ D \ {k + 1} = 1..k /\ D \subseteq Number
    <3>1. IsFiniteSet(D)
      BY FS_Interval
    <3> QED BY <1>0, <1>4, <3>1 DEF Number
  <2>2. \A n \in D : f[n] \in Int
    BY <2>1
  <2> HIDE DEF D
  <2>3. SumFunctionOnSet(f, D) = f[k + 1] + SumFunctionOnSet(f, D \ {k + 1})
    BY <2>1, <2>2, SumTake
  <2> QED BY <2>1, <2>3 DEF sum, D
<1>5. Nat \subseteq P
  <2>1. 0 \in P
    <3>1. 0 * per = 0
      BY <1>0
    <3> QED BY <1>3, <3>1
  <2>2. ASSUME NEW k \in P PROVE k + 1 \in P
    <3>1. CASE k + 1 < N
      <4>1. sum(k) = k * per /\ sum(k + 1) = f[k + 1] + sum(k) /\ f[k + 1] = per
        BY <1>0, <1>1, <1>4, <3>1 DEF Number
      <4>2. per + k * per = (k + 1) * per
        BY <1>0
      <4> QED BY <4>1, <4>2
    <3>2. CASE ~(k + 1 < N)
      BY <3>2
    <3> QED BY <3>1, <3>2
  <2> HIDE DEF P
  <2> QED BY <2>1, <2>2, NatInductionOver
<1>6. N - 1 \in Nat /\ N - 1 < N /\ (N - 1) + 1 = N /\ N \in Number
  BY <1>0 DEF Number
<1>7. sum(N) = f[N] + sum(N - 1) /\ sum(N - 1) = (N - 1) * per
  BY <1>4, <1>5, <1>6
<1>8. f[N] = PlanTotal - per * (N - 1)
  BY <1>1, <1>6
<1>9. (PlanTotal - per * (N - 1)) + (N - 1) * per = PlanTotal
  <2>1. per * (N - 1) = (N - 1) * per /\ (N - 1) * per \in Int
    BY <1>0, <1>6
  <2> DEFINE x == (N - 1) * per
  <2> HIDE DEF x
  <2>2. x \in Int /\ (PlanTotal - x) + x = PlanTotal
    BY <1>0, <2>1 DEF x
  <2> QED BY <2>1, <2>2 DEF x
<1> QED
  BY <1>2, <1>7, <1>8, <1>9

------------------------------------------------------------------------------
(* The properties. *)

\* The tables, the card and the requests hold what they are described to hold,
\* whatever statements fail and however the requests of installments.rs and
\* credit_cards.rs interleave.
THEOREM CardTypes == Spec => []TypeOK
<1>1. IInv => TypeOK
  BY DEF IInv, Typed
<1> QED
  BY <1>1, Invariance, PTL

\* An installment is charged by one transaction, which its row names, unless two
\* requests had found it unposted at a time: generate_installments and
\* pay_installment look at the row again before they post, and the anticipation
\* and the deletions move or take transaction and row together.
THEOREM ChargedOnceHolds == Spec => []ChargedOnce
<1>1. IInv => ChargedOnce
  <2> SUFFICES ASSUME IInv PROVE ChargedOnce
    OBVIOUS
  <2> QED BY FewCharges DEF IInv, ChargedOnce
<1> QED
  BY <1>1, Invariance, PTL

\* Nothing but its deletion takes an installment back from paid: the generation
\* skips rows that have a transaction, as a paid one does.
THEOREM PaidStaysHolds == Spec => PaidStays
<1>1. IInv /\ [Next]_vars =>
        [\A n \in Number \ raced : rows[n].status = "paid" =>
           rows'[n].status \in {"paid", "gone"}]_vars
  <2> SUFFICES ASSUME IInv, [Next]_vars, NEW n \in Number \ raced, rows[n].status = "paid"
               PROVE  rows'[n].status \in {"paid", "gone"}
    OBVIOUS
  <2> QED BY PaidKept DEF IInv
<1> QED
  BY <1>1, Invariance, PTL DEF Spec, PaidStays

\* However the amount rounds, the parts of a split add up to it: the last takes
\* what the others leave.
THEOREM SplitAddsUpHolds == Spec => []SplitAddsUp
<1>1. IInv => SplitAddsUp
  <2> SUFFICES ASSUME IInv, NEW p \in Request, kind[p] = "split", batches = {},
                      \A n \in Number : Live(<<p, n>>)
               PROVE  SumFunction([n \in Number |-> tx[<<p, n>>].amount]) = PlanTotal
    BY DEF SplitAddsUp
  <2> DEFINE f == [n \in Number |-> tx[<<p, n>>].amount]
  <2>1. \A n \in Number : f[n] = Part(n)
    BY DEF IInv, Parts
  <2>2. f \in [Number -> Int]
    BY <2>1, ConstantsHold
  <2> HIDE DEF f
  <2>3. SumFunction(f) = PlanTotal
    BY <2>1, <2>2, PartsAddUp
  <2> QED BY <2>3 DEF f
<1> QED
  BY <1>1, Invariance, PTL

\* While the card keeps its closing day, an anticipated installment is an expense
\* of the bill that anticipate_installments moved it to.
THEOREM AnticipatedOnBillHolds == Spec => []AnticipatedOnBill
<1>1. IInv => AnticipatedOnBill
  <2> SUFFICES ASSUME IInv, NEW n \in Number \ raced, rows[n].bill # NoBill, ~reset
               PROVE  /\ rows[n].bill \in DOMAIN bills
                      /\ Live(rows[n].tx)
                      /\ rows[n].tx \in Expenses(tx, bills[rows[n].bill])
    BY DEF AnticipatedOnBill
  <2>1. Typed /\ RowFits(n) /\ Current(n) /\ OnBill(n)
    BY DEF IInv, PlanFits, RowsFit, Sole, Billed
  <2>2. HasRow(n) /\ plan = "live" /\ rows[n].tx # NoId
    BY <2>1, NothingFits DEF RowFits
  <2>3. rows[n].tx \in TxId /\ Live(rows[n].tx)
    BY <2>1, <2>2 DEF Current, Charges
  <2> QED BY <2>1, <2>3 DEF OnBill, Expenses, Live
<1> QED
  BY <1>1, Invariance, PTL

\* While the card keeps its closing day, no expense is on two bills, and every
\* purchase is on one: cycle_for_date cuts the days into periods that neither
\* overlap nor leave a day out, in months of any length.
THEOREM OnOneBillHolds == Spec => []OnOneBill
<1>1. IInv => OnOneBill
  <2> SUFFICES ASSUME IInv, ~reset
               PROVE  \A t \in TxId : Live(t) =>
                        LET on == {e \in DOMAIN bills : Covers(bills[e], tx[t].date)}
                        IN Cardinality(on) <= 1 /\ (t[2] = 0 => on # {})
    BY DEF OnOneBill
  <2> QED BY OnOne DEF IInv
<1> QED
  BY <1>1, Invariance, PTL

\* What a bill counts as paid is the sum of the transfers that pay_card_bill
\* posted for it, unless two payments of it overlapped.
THEOREM PaidIsPostedHolds == Spec => []PaidIsPosted
<1>1. IInv => PaidIsPosted
  BY DEF IInv, AllPosted, Posted, PaidFor, PaidIsPosted
<1> QED
  BY <1>1, Invariance, PTL

\* A bill that counts as paid owes nothing, unless it grew when it was paid or
\* about to be.
THEOREM PaidMeansSettledHolds == Spec => []PaidMeansSettled
<1>1. IInv => PaidMeansSettled
  <2> SUFFICES ASSUME IInv, NEW e \in DOMAIN bills \ late, bills[e].status = "paid"
               PROVE  Remaining(bills[e]) <= 0
    BY DEF PaidMeansSettled
  <2>1. Total(bills[e]) <= bills[e].paid
    BY DEF IInv, AllSettled, Settled
  <2>2. Total(bills[e]) \in Nat /\ bills[e].paid \in Nat
    BY TotalsNat, TypedFacts DEF IInv
  <2> QED BY <2>1, <2>2 DEF Remaining
<1> QED
  BY <1>1, Invariance, PTL
====
