---------------------------- MODULE MCSalonDesk ----------------------------
EXTENDS SalonDesk, TLC

CONSTANTS m, c, s

\* Bolivars in cash, in or out, and dollars that a card pays in bolivars.
InCash == [method |-> "cash", currency |-> "VES", amount |-> 1, bs |-> 1]
OutOfCash == [InCash EXCEPT !.amount = -1]
Dollars == [method |-> "cash", currency |-> "USD", amount |-> 1, bs |-> 2]
ByCard == [Dollars EXCEPT !.method = "card"]
MCManual == {m}
MCCharge == {c}
MCSale == {s}
MCMoney == (m :> {OutOfCash}) @@ (c :> {ByCard}) @@ (s :> {InCash})
MCTip == Dollars

\* Three years of months of three or four days, today in the second spring.
ShortMonths == [month \in 0..36 |-> 3 * month + (month \div 2)]
FewPeriods == [half |-> 4, month |-> 3, quarter |-> 2, semester |-> 2, year |-> 2]
MCBirth == {47}
MCWindow == 46..53

\* The requests are the same, and so are the sweeps, which have their names.
DeskSymmetry == Permutations(Cashier \cup Sweeper)

=============================================================================
