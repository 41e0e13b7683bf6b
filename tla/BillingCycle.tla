------------------------------ MODULE BillingCycle ------------------------------
(***************************************************************************)
(* Dates, billing cycles and cents: the arithmetic of                      *)
(* backend/src/routes/credit_cards.rs and installments.rs.                 *)
(*                                                                         *)
(* A date is a month, numbered from a January on, and a day of it.  Leap   *)
(* years are those of 1901 to 2099.  Amounts are cents.                    *)
(***************************************************************************)
EXTENDS Integers

Date == [month : Int, day : 1..31]

DaysInMonth(m) ==
  CASE m % 12 = 1              -> IF (m \div 12) % 4 = 0 THEN 29 ELSE 28
    [] m % 12 \in {3, 5, 8, 10} -> 30
    [] OTHER                   -> 31

IsDate(d) == d \in Date /\ d.day <= DaysInMonth(d.month)

\* a is not after b.
NotAfter(a, b) == a.month < b.month \/ (a.month = b.month /\ a.day <= b.day)

Before(a, b) == NotAfter(a, b) /\ a # b

\* Mutant: the day is not clamped to the month.
DateUnclamped(m, day) == [month |-> m, day |-> day]

\* date_with_day: the day, or the last one of a shorter month.
DateWithDay(m, day) ==
  [month |-> m, day |-> IF day <= DaysInMonth(m) THEN day ELSE DaysInMonth(m)]

AddMonths(d, n) == DateWithDay(d.month + n, d.day)

Succ(d) ==
  IF d.day = DaysInMonth(d.month) THEN [month |-> d.month + 1, day |-> 1]
  ELSE [month |-> d.month, day |-> d.day + 1]

\* The first such day that is not before d.
FirstOnOrAfter(d, day) ==
  IF NotAfter(d, DateWithDay(d.month, day)) THEN DateWithDay(d.month, day)
  ELSE DateWithDay(d.month + 1, day)

\* Mutant: the cycle begins on the previous closing day.
CycleFromClosing(closing, due, d) ==
  LET end == FirstOnOrAfter(d, closing)
  IN [start |-> DateWithDay(end.month - 1, closing), end |-> end,
      due |-> FirstOnOrAfter(end, due)]

\* The cycle that contains d: the day after a closing to the next closing.
CycleForDate(closing, due, d) ==
  LET end == FirstOnOrAfter(d, closing)
  IN [start |-> Succ(DateWithDay(end.month - 1, closing)), end |-> end,
      due |-> FirstOnOrAfter(end, due)]

Covers(c, d) == NotAfter(c.start, d) /\ NotAfter(d, c.end)

\* a / b in cents, as NUMERIC(12,2) rounds, and as round_dp(2) does.
RoundHalfUp(a, b) == (2 * a + b) \div (2 * b)

RoundHalfEven(a, b) ==
  LET q == a \div b
      r == a % b
  IN IF 2 * r > b \/ (2 * r = b /\ q % 2 = 1) THEN q + 1 ELSE q
=============================================================================
