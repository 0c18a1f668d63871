---- MODULE MCCoinSpend ----
EXTENDS CoinSpend, TLC

CONSTANTS p1, p2, mx, mg, alice

KindM == [i \in Calls |-> CASE i = mx -> "max" [] i = mg -> "merge" [] OTHER -> "send"]
AmountM == [i \in Calls |-> IF i \in {p1, p2} THEN 80 ELSE 0]
FeeM == [i \in Calls |-> 3]
ToM == [i \in Calls |-> alice]
\* Two honest coins, a ghost the index may not reach either, one whose body may not
\* be representable and whose value is overstated, a coinbase that may be tampered with.
ReportedM == <<50, 60, 30, 35, 25>>
RealM == <<50, 0, 30, 34, 25>>
AnswersM == <<{"value"}, {"notfound", "horizon"}, {"value"}, {"value", "unrep"}, {"value", "tamper"}>>
====
