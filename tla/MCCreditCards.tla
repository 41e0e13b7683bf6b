----------------------------- MODULE MCCreditCards -----------------------------
(* Which handlers take the requests, two of them the same one, and a       *)
(* calendar around a short month.                                          *)
EXTENDS CreditCards, TLC

CONSTANTS a, b, c, d, e, f

On(m, day) == [month |-> m, day |-> day]

\* The last days of January and February, the first of March.
MCStart == On(0, 31)
MCDates == {On(0, 31), On(1, 28), On(2, 1)}

Mix(u, v, w, x, y, z) ==
  (a :> u) @@ (b :> v) @@ (c :> w) @@ (d :> x) @@ (e :> y) @@ (f :> z)

MCMixes == {
  Mix("create", "generate", "delete_tx", "pay", "pay", "delete_plan"),
  Mix("create", "generate", "pay", "anticipate", "anticipate", "create"),
  Mix("split", "anticipate", "purchase", "pay_bill", "pay_bill", "pay")}

\* d and e are taken by the same handler in each mix.
Twins == Permutations({d, e})
================================================================================
