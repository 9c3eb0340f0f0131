------------------------------- MODULE Payroll -------------------------------
(***************************************************************************)
(* The payroll of one salon: its periods, the concepts the charges of      *)
(* appointments leave in them, and what the workers are paid.              *)
(*                                                                         *)
(* payroll-period.service.ts, the operations of payroll-earnings.service.ts*)
(* that write, and the payroll half of registerSessionPayment and          *)
(* revertPayment.  Time is counted in days.  A payee is a worker in one    *)
(* currency: every sum of the code is kept by worker and currency.  The    *)
(* cash register, which may refuse a charge, is module CashRegister.       *)
(*                                                                         *)
(* Payroll is written after the charge is committed and its failures are   *)
(* only logged: an operation whose steps commit one by one takes an        *)
(* argument that says how many of them took place.                         *)
(***************************************************************************)
EXTENDS Integers, Sequences, FiniteSets, Functions

CONSTANTS
  Appointment,   \* completed appointments, one service each
  Payee,         \* a worker in one currency
  WorkerOf,      \* Appointment -> Payee, who did it
  Frequency,     \* how often the salon may pay
  Length,        \* Frequency -> days of a period
  DEFAULT_FREQUENCY, \* resolveFrequency of a salon with no configuration
  Commission,    \* amounts a charge may be worth to its worker
  Discount,      \* amounts the worker may absorb of it
  Adjustment,    \* amounts the salon may add by hand
  Price,         \* price of the product a worker may buy
  InitialStock,  \* units of it
  MaxNow,        \* bound: days
  MaxPeriods,    \* bound: periods ever opened
  MaxConcepts,   \* bound: concepts ever written
  MaxByHand,     \* bound: manual concepts and purchases of the workers
  MaxReversals,  \* bound: charges of an appointment that are undone
  MaxChanges,    \* bound: changes of the configuration
  MaxCrashes     \* bound: operations cut short

ASSUME PayrollAssumption ==
  /\ WorkerOf \in [Appointment -> Payee]
  /\ Length \in [Frequency -> Nat \ {0}] /\ DEFAULT_FREQUENCY \in Frequency
  /\ IsFiniteSet(Appointment) /\ IsFiniteSet(Payee)
  /\ Commission \subseteq Nat \ {0} /\ Discount \subseteq Nat /\ 0 \in Discount
  /\ Adjustment \subseteq Int
  /\ Price \in Nat
  /\ \A n \in {InitialStock, MaxNow, MaxPeriods, MaxConcepts, MaxByHand,
               MaxReversals, MaxChanges, MaxCrashes} : n \in Nat

VARIABLES
  now,       \* today
  config,    \* payroll_config: the frequency, or none
  period,    \* payroll_period, in order of id
  concept,   \* payroll_concept, in order of id
  frozen,    \* <<period, payee>> -> net of period_detail_currency, 0 with no row
  paid,      \* <<period, payee>> -> sum of its payouts
  payment,   \* appointment -> its session_payments row
  reversals, \* appointment -> rows of session_payment_reversal
  stock,     \* units of the product left
  sale,      \* the workers' purchases of it, in order of id
  changes,   \* times the salon configured the payroll
  crashes    \* operations cut short

books == <<period, concept, frozen, paid>>
shop == <<stock, sale>>
vars == <<now, config, books, payment, reversals, shop, changes, crashes>>

Day == 0..MaxNow
None == "none"
NoOne == 0

-----------------------------------------------------------------------------
(* Rows *)

PeriodStatus == {"open", "review", "approved", "paid", "closed"}
Frozen == {"approved", "paid", "closed"}
PeriodRow == [status: PeriodStatus, frequency: Frequency, startsAt: Nat, endsAt: Nat]

\* A commission and a discount point to their appointment, a purchase to its
\* sale, a reversal to the concept it undoes.
ConceptType == {"commission", "discount", "manual", "purchase", "reversal"}
ConceptRow ==
  [type: ConceptType, amount: Int, payee: Payee, period: 1..MaxPeriods,
   source: Appointment \cup Nat]
Deleted == [type |-> "deleted"]

NoPayment == [paidAt |-> MaxNow + 1, commission |-> 0]
PaymentRow == [paidAt: Day, commission: Commission]
Charged(a) == payment[a] # NoPayment

Books == [period |-> period, concept |-> concept, frozen |-> frozen, paid |-> paid]
Write(b) ==
  /\ Len(b.period) <= MaxPeriods /\ Len(b.concept) <= MaxConcepts
  /\ period' = b.period /\ concept' = b.concept
  /\ frozen' = b.frozen /\ paid' = b.paid

Live(b) == {i \in DOMAIN b.concept : b.concept[i] # Deleted}
Sum(f) == SumFunctionOnSet(f, DOMAIN f)
Total(b, I) == Sum([i \in I |-> b.concept[i].amount])
Net(b, p, w) ==
  Total(b, {i \in Live(b) : b.concept[i].period = p /\ b.concept[i].payee = w})
ConceptsOf(b, a) ==
  {i \in Live(b) : b.concept[i].type \in {"commission", "discount"}
                   /\ b.concept[i].source = a}
Reversed(b, i) ==
  \E j \in Live(b) : b.concept[j].type = "reversal" /\ b.concept[j].source = i

-----------------------------------------------------------------------------
(* Periods *)

frequencyNow == IF config = None THEN DEFAULT_FREQUENCY ELSE config

BoundsFrom(start, f) == [startsAt |-> start, endsAt |-> start + Length[f] - 1]
\* Mutant: the next period starts on the last day of the one before.
ChainOneDayShort(row) == row.startsAt + Length[row.frequency] - 1

NextChainStart(row) == row.startsAt + Length[row.frequency]

\* The periods follow each other from start: the one that holds the date, or
\* the first when the date is before them all.
WindowContaining(f, start, date) ==
  IF date < start THEN BoundsFrom(start, f)
  ELSE BoundsFrom(start + Length[f] * ((date - start) \div Length[f]), f)

OpenPeriods(b) == {p \in DOMAIN b.period : b.period[p].status = "open"}
OpenPeriod(b) == CHOOSE p \in OpenPeriods(b) : TRUE
Latest(b) ==
  CHOOSE p \in DOMAIN b.period : \A q \in DOMAIN b.period :
    \/ b.period[q].startsAt < b.period[p].startsAt
    \/ b.period[q].startsAt = b.period[p].startsAt /\ q <= p

OpenedWith(b, f, window) ==
  [b EXCEPT !.period = Append(@,
     [status |-> "open", frequency |-> f,
      startsAt |-> window.startsAt, endsAt |-> window.endsAt])]

\* The open period when it has not run out by the date; otherwise it goes to
\* review and the next of the chain that holds the date is opened.
EnsureOpenFor(b, f, date) ==
  LET open == OpenPeriods(b)
      rotated == [b EXCEPT !.period = [p \in DOMAIN @ |->
                    IF p \in open THEN [@[p] EXCEPT !.status = "review"] ELSE @[p]]]
      start == IF b.period = <<>> THEN date
               ELSE NextChainStart(b.period[IF open # {} THEN OpenPeriod(b) ELSE Latest(b)])
  IN IF open # {} /\ date <= b.period[OpenPeriod(b)].endsAt THEN b
     ELSE OpenedWith(rotated, f, WindowContaining(f, start, date))
EnsureOpen(b, date) == EnsureOpenFor(b, frequencyNow, date)

Holding(b, date) ==
  {p \in DOMAIN b.period : b.period[p].startsAt <= date /\ date <= b.period[p].endsAt}
LatestHolding(b, date) ==
  CHOOSE p \in Holding(b, date) :
    \A q \in Holding(b, date) : b.period[q].startsAt <= b.period[p].startsAt

\* The payroll counts from the first day of its first period.
BeforeActivation(b, date) ==
  \/ b.period = <<>>
  \/ \A p \in DOMAIN b.period : date < b.period[p].startsAt

-----------------------------------------------------------------------------
(* Concepts and totals *)

\* UQ_concept_source: one concept of a type for a source, worker and period.
Record(b, c) ==
  IF \E i \in Live(b) : /\ b.concept[i].type = c.type /\ b.concept[i].source = c.source
                        /\ b.concept[i].payee = c.payee /\ b.concept[i].period = c.period
  THEN b ELSE [b EXCEPT !.concept = Append(@, c)]

Add(b, type, amount, w, p, source) ==
  [b EXCEPT !.concept = Append(@, [type |-> type, amount |-> amount, payee |-> w,
                                   period |-> p, source |-> source])]

RecordCommission(b, a, amount, p, date) ==
  IF BeforeActivation(b, date) THEN b
  ELSE Record(b, [type |-> "commission", amount |-> amount, payee |-> WorkerOf[a],
                  period |-> p, source |-> a])

\* Mutant: the discount the worker absorbs is added to what they earn.
DiscountAdded(b, a, amount, p, date) ==
  IF BeforeActivation(b, date) \/ amount = 0 THEN b
  ELSE Record(b, [type |-> "discount", amount |-> amount, payee |-> WorkerOf[a],
                  period |-> p, source |-> a])

RecordDiscount(b, a, amount, p, date) ==
  IF BeforeActivation(b, date) \/ amount = 0 THEN b
  ELSE Record(b, [type |-> "discount", amount |-> -amount, payee |-> WorkerOf[a],
                  period |-> p, source |-> a])

FreezeAll(b, P) ==
  [b EXCEPT !.frozen = [k \in DOMAIN @ |->
     IF k[1] \in P THEN Net(b, k[1], k[2]) ELSE @[k]]]
FreezeTotals(b, p) == FreezeAll(b, {p})

\* Mutant: the balance left is forgotten.
NothingSettled(b, p) == b

SettleRemaining(b, p) ==
  [b EXCEPT !.paid = [k \in DOMAIN @ |->
     IF k[1] = p /\ b.frozen[k] > @[k] THEN b.frozen[k] ELSE @[k]]]

-----------------------------------------------------------------------------
(* Charging an appointment *)

\* Where the concepts go: the period that holds the date; when it is no longer
\* open the salon says whether to write in it or in the current one.
Target(b, date, choice) ==
  IF Holding(b, date) = {}
  THEN LET o == EnsureOpen(b, date) IN [books |-> o, period |-> OpenPeriod(o), past |-> FALSE]
  ELSE LET p == LatestHolding(b, date) IN
    IF b.period[p].status = "open" \/ choice = "past"
    THEN [books |-> b, period |-> p, past |-> b.period[p].status # "open"]
    ELSE LET o == EnsureOpen(b, now)
         IN [books |-> o, period |-> OpenPeriod(o), past |-> FALSE]

Min2(x, y) == IF x < y THEN x ELSE y

\* The payroll of a charge with attributions, cut after so many of its writes:
\* the commission, the snapshot and the balance of a period already closed, and
\* the discount, never more than the commission.
AttributedBooks(t, a, date, amount, discount, writes) ==
  LET b1 == IF writes < 1 THEN t.books
            ELSE RecordCommission(t.books, a, amount, t.period, date)
      b2 == IF writes < 2 \/ ~t.past THEN b1 ELSE FreezeTotals(b1, t.period)
      b3 == IF writes < 3 \/ ~t.past \/ t.books.period[t.period].status # "closed"
            THEN b2 ELSE SettleRemaining(b2, t.period)
  IN IF writes < 4 THEN b3
     ELSE RecordDiscount(b3, a, Min2(discount, amount), t.period, date)

\* Without attributions the commission goes to the period open on that date.
PlainBooks(t, a, date, amount, writes) ==
  IF writes < 1 \/ BeforeActivation(t.books, date) THEN t.books
  ELSE LET o == EnsureOpen(t.books, date)
       IN RecordCommission(o, a, amount, OpenPeriod(o), date)

Cut(writes, all) ==
  /\ writes < all => crashes < MaxCrashes
  /\ crashes' = IF writes < all THEN crashes + 1 ELSE crashes

Charge(a) ==
  \E date \in Day, amount \in Commission, choice \in {"past", "current"} :
    LET t == Target(Books, date, choice) IN
    /\ ~Charged(a) /\ date <= now
    /\ payment' = [payment EXCEPT ![a] = [paidAt |-> date, commission |-> amount]]
    /\ \/ \E discount \in Discount, writes \in 0..4 :
            /\ Cut(writes, 4)
            /\ Write(AttributedBooks(t, a, date, amount, discount, writes))
       \/ \E writes \in 0..1 :
            /\ Cut(writes, 1)
            /\ Write(PlainBooks(t, a, date, amount, writes))
    /\ UNCHANGED <<now, config, reversals, shop, changes>>

-----------------------------------------------------------------------------
(* Undoing *)

\* Mutant: the opposite goes to the period of the concept.
ReverseWhereItWas(b, i) ==
  Add(b, "reversal", -b.concept[i].amount, b.concept[i].payee, b.concept[i].period, i)

\* A concept is undone by its opposite in the period open today.
ReverseIn(b, i) ==
  LET o == EnsureOpen(b, now)
  IN Add(o, "reversal", -b.concept[i].amount, b.concept[i].payee, OpenPeriod(o), i)

\* The concepts of a charge, one after the other: deleted while their period is
\* open, undone otherwise; the first that was undone before ends the loop.
UndoOne(b, acc, i) ==
  IF acc.failed THEN acc
  ELSE IF b.period[b.concept[i].period].status = "open"
  THEN [acc EXCEPT !.books.concept[i] = Deleted,
                   !.touched = @ \cup {b.concept[i].period}]
  ELSE IF Reversed(acc.books, i) THEN [acc EXCEPT !.failed = TRUE]
  ELSE [acc EXCEPT !.books = ReverseIn(@, i), !.reversed = TRUE]

UndoLoop(b, a) ==
  LET upTo[i \in 0..Len(b.concept)] ==
        IF i = 0 THEN [books |-> b, touched |-> {}, reversed |-> FALSE, failed |-> FALSE]
        ELSE IF i \in ConceptsOf(b, a) THEN UndoOne(b, upTo[i - 1], i)
        ELSE upTo[i - 1]
  IN upTo[Len(b.concept)]

UndoConcepts(b, a) ==
  LET done == UndoLoop(b, a)
      last == IF done.reversed THEN EnsureOpen(done.books, now) ELSE done.books
  IN IF done.failed THEN done.books
     ELSE FreezeAll(last, done.touched \cup (IF done.reversed THEN {OpenPeriod(last)} ELSE {}))

RevertPayment(a) ==
  /\ Charged(a) /\ reversals[a] < MaxReversals
  /\ payment' = [payment EXCEPT ![a] = NoPayment]
  /\ reversals' = [reversals EXCEPT ![a] = @ + 1]
  /\ \E writes \in 0..1 :
       /\ Cut(writes, 1)
       /\ Write(IF writes = 0 THEN Books ELSE UndoConcepts(Books, a))
  /\ UNCHANGED <<now, config, shop, changes>>

\* Undoing the purchase of a worker also returns the unit and voids the sale.
RestorePurchase(s) ==
  IF sale[s] = "sold"
  THEN sale' = [sale EXCEPT ![s] = "void"] /\ stock' = stock + 1
  ELSE UNCHANGED shop

ReverseConcept(i) ==
  /\ i \in Live(Books) /\ ~Reversed(Books, i)
  /\ Write(ReverseIn(Books, i))
  /\ IF concept[i].type = "purchase"
     THEN \E writes \in 0..1 :
            /\ Cut(writes, 1)
            /\ IF writes = 0 THEN UNCHANGED shop ELSE RestorePurchase(concept[i].source)
     ELSE UNCHANGED <<shop, crashes>>
  /\ UNCHANGED <<now, config, payment, reversals, changes>>

-----------------------------------------------------------------------------
(* The salon's own concepts, and what it pays *)

AdmitsConcepts(p) == period[p].status \in {"open", "review"}

ByHand == Cardinality({i \in Live(Books) : concept[i].type = "manual"}) + Len(sale)

AddManualConcept(p, w) ==
  /\ p \in DOMAIN period /\ AdmitsConcepts(p) /\ ByHand < MaxByHand
  /\ \E amount \in Adjustment : Write(Add(Books, "manual", amount, w, p, NoOne))
  /\ UNCHANGED <<now, config, payment, reversals, shop, crashes, changes>>

AddProductPurchase(p, w) ==
  /\ p \in DOMAIN period /\ AdmitsConcepts(p) /\ stock >= 1 /\ ByHand < MaxByHand
  /\ sale' = Append(sale, "sold")
  /\ stock' = stock - 1
  /\ Write(Add(Books, "purchase", -Price, w, p, Len(sale) + 1))
  /\ UNCHANGED <<now, config, payment, reversals, crashes, changes>>

RecordPayout(p, w) ==
  /\ p \in DOMAIN period /\ period[p].status \in {"approved", "paid"}
  /\ frozen[<<p, w>>] > 0
  /\ \E amount \in 1..(frozen[<<p, w>>] - paid[<<p, w>>]) :
       paid' = [paid EXCEPT ![<<p, w>>] = @ + amount]
  /\ UNCHANGED <<now, config, period, concept, frozen, payment, reversals, shop, crashes, changes>>

CanTransition(from, to) ==
  <<from, to>> \in {<<"open", "review">>, <<"review", "approved">>, <<"review", "open">>,
                    <<"approved", "paid">>, <<"paid", "closed">>}

\* The salon may always confirm that it closes a period with appointments left
\* to charge, so their count stops nothing.
ChangeStatus(p) ==
  /\ p \in DOMAIN period
  /\ \E next \in PeriodStatus :
       /\ CanTransition(period[p].status, next)
       /\ next = "open" => OpenPeriods(Books) = {}
       /\ LET b == [Books EXCEPT !.period[p].status = next]
          IN Write(CASE next = "approved" -> FreezeTotals(b, p)
                     [] next = "closed" -> SettleRemaining(b, p)
                     [] OTHER -> b)
  /\ UNCHANGED <<now, config, payment, reversals, shop, crashes, changes>>

-----------------------------------------------------------------------------
(* Configuration *)

\* Every charge since the first day, the oldest first, as if the payroll had
\* been there, with the frequency that was just chosen.
Due(b) == {a \in Appointment : Charged(a) /\ ~BeforeActivation(b, payment[a].paidAt)}
OldestFirst(S) ==
  {order \in [1..Cardinality(S) -> S] :
     /\ \A a \in S : \E i \in DOMAIN order : order[i] = a
     /\ \A i, j \in DOMAIN order :
          i < j => payment[order[i]].paidAt <= payment[order[j]].paidAt}

TakeIn(b, f, a) ==
  LET o == EnsureOpenFor(b, f, payment[a].paidAt)
  IN RecordCommission(o, a, payment[a].commission, OpenPeriod(o), payment[a].paidAt)
Backfill(b, f, order) ==
  LET upTo[n \in 0..Len(order)] ==
        IF n = 0 THEN b ELSE TakeIn(upTo[n - 1], f, order[n])
  IN upTo[Len(order)]

\* A period with nothing in it takes the new frequency, from its same first day.
Realigned(b, f) ==
  LET p == OpenPeriod(b)
      empty == \A i \in Live(b) : b.concept[i].period # p
      bounds == BoundsFrom(b.period[p].startsAt, f)
  IN IF OpenPeriods(b) # {} /\ empty
     THEN [b EXCEPT !.period[p] = [@ EXCEPT !.frequency = f, !.endsAt = bounds.endsAt]]
     ELSE b

BootstrapFirstPeriod(f, start) == OpenedWith(Books, f, BoundsFrom(start, f))

SetFrequency(f) ==
  /\ changes < MaxChanges /\ changes' = changes + 1
  /\ config' = f
  /\ IF period = <<>>
     THEN \E start \in Day, writes \in 0..1 :
            LET b == BootstrapFirstPeriod(f, start)
            IN /\ Cut(writes, 1)
               /\ \E order \in OldestFirst(Due(b)) :
                    Write(IF writes = 0 THEN b ELSE Backfill(b, f, order))
     ELSE Write(Realigned(Books, f)) /\ UNCHANGED crashes
  /\ UNCHANGED <<now, payment, reversals, shop>>

RevertActivation ==
  /\ Len(period) = 1 /\ period[1].status = "open"
  /\ \A k \in DOMAIN paid : paid[k] = 0
  /\ config' = None
  /\ period' = <<>> /\ concept' = <<>>
  /\ frozen' = [k \in DOMAIN frozen |-> 0]
  /\ UNCHANGED <<now, paid, payment, reversals, shop, crashes, changes>>

Tick == /\ now < MaxNow
        /\ now' = now + 1
        /\ UNCHANGED <<config, books, payment, reversals, shop, crashes, changes>>

-----------------------------------------------------------------------------
(* What the screens show *)

\* The snapshot once the period is approved, the concepts themselves before.
CurrencyBreakdown(p, w) ==
  LET net == IF period[p].status \in Frozen THEN frozen[<<p, w>>] ELSE Net(Books, p, w)
  IN [net |-> net, paid |-> paid[<<p, w>>], balance |-> net - paid[<<p, w>>]]

\* The owner sees every worker, and whether the period may be reopened.
PeriodSummary(p) ==
  [workers |-> [w \in Payee |-> CurrencyBreakdown(p, w)],
   canReopen |-> period[p].status = "review" /\ OpenPeriods(Books) = {}]

\* The statement of a worker lists the concepts of every type, approved or not.
StatementBreakdown(p, w) ==
  [t \in ConceptType |->
     Total(Books, {i \in Live(Books) : /\ concept[i].type = t
                                       /\ concept[i].period = p /\ concept[i].payee = w})]

\* aggregateCurrencies: the lines of the workers added up.
Totals(p) ==
  LET line(w) == PeriodSummary(p).workers[w]
  IN [net |-> Sum([w \in Payee |-> line(w).net]),
      paid |-> Sum([w \in Payee |-> line(w).paid]),
      balance |-> Sum([w \in Payee |-> line(w).balance])]

\* The period the owner works in: the open one, or else the latest.
CurrentPeriod ==
  IF OpenPeriods(Books) # {} THEN OpenPeriod(Books) ELSE Latest(Books)

\* The history: every period that is no longer open, summed by queries of its
\* own, the snapshots of the approved and the concepts of the others.
HistoricPeriods == {p \in DOMAIN period : period[p].status # "open"}
HistoryLine(p) ==
  LET net == IF period[p].status \in Frozen
             THEN Sum([w \in Payee |-> frozen[<<p, w>>]])
             ELSE Total(Books, {i \in Live(Books) : concept[i].period = p})
      out == Sum([w \in Payee |-> paid[<<p, w>>]])
  IN [net |-> net, paid |-> out, balance |-> net - out]

\* What the accountant gets: a row for each worker and the total.
ExportPeriod(p) ==
  [rows |-> PeriodSummary(p).workers, total |-> Totals(p)]

\* What a worker finds under "my payroll": the open period, and every one with a
\* row of theirs, which a concept of theirs at least has created.
MyPeriods(w) ==
  OpenPeriods(Books) \cup
    {p \in DOMAIN period :
       \E i \in Live(Books) : concept[i].period = p /\ concept[i].payee = w}
MyStatement(p, w) ==
  IF p \in MyPeriods(w)
  THEN [shown |-> CurrencyBreakdown(p, w), lines |-> StatementBreakdown(p, w)]
  ELSE [shown |-> None]

\* The receipt of an appointment names the commissions its charge left.
ReceiptOf(a) == {i \in ConceptsOf(Books, a) : concept[i].type = "commission"}

-----------------------------------------------------------------------------
Key == (1..MaxPeriods) \X Payee

Init ==
  /\ now = 0 /\ config = None
  /\ period = <<>> /\ concept = <<>>
  /\ frozen = [k \in Key |-> 0] /\ paid = [k \in Key |-> 0]
  /\ payment = [a \in Appointment |-> NoPayment]
  /\ reversals = [a \in Appointment |-> 0]
  /\ stock = InitialStock /\ sale = <<>>
  /\ changes = 0 /\ crashes = 0

Next ==
  \/ \E a \in Appointment : Charge(a) \/ RevertPayment(a)
  \/ \E i \in 1..MaxConcepts : ReverseConcept(i)
  \/ \E p \in 1..MaxPeriods : ChangeStatus(p)
  \/ \E p \in 1..MaxPeriods, w \in Payee :
       AddManualConcept(p, w) \/ AddProductPurchase(p, w) \/ RecordPayout(p, w)
  \/ \E f \in Frequency : SetFrequency(f)
  \/ RevertActivation \/ Tick

Spec == Init /\ [][Next]_vars

-----------------------------------------------------------------------------
(* Properties *)

TypeOK ==
  /\ now \in Day /\ config \in Frequency \cup {None}
  /\ period \in Seq(PeriodRow) /\ Len(period) <= MaxPeriods
  /\ concept \in Seq(ConceptRow \cup {Deleted}) /\ Len(concept) <= MaxConcepts
  /\ \A i \in Live(Books) : concept[i].period \in DOMAIN period
  /\ frozen \in [Key -> Int] /\ paid \in [Key -> Nat]
  /\ payment \in [Appointment -> PaymentRow \cup {NoPayment}]
  /\ reversals \in [Appointment -> Nat]
  /\ stock \in Nat /\ sale \in Seq({"sold", "void"})
  /\ changes \in 0..MaxChanges /\ crashes \in 0..MaxCrashes

Overlapping(p, q) ==
  period[p].startsAt <= period[q].endsAt /\ period[q].startsAt <= period[p].endsAt
Disjoint == \A p, q \in DOMAIN period : p # q => ~Overlapping(p, q)

\* No day belongs to two periods: a charge, a reversal, a change of frequency or
\* the first activation keeps it so, unless an older period was reopened.
PeriodsStayDisjoint ==
  [][Disjoint /\ (\A p \in OpenPeriods(Books) : p = Latest(Books)) => Disjoint']_vars

\* Once a period is approved, only a charge dated in it adds to its concepts:
\* the salon's own concepts, the purchases and every undoing go elsewhere.
ApprovedIsSealed ==
  [][\A p \in DOMAIN period \cap DOMAIN period' :
       /\ period[p].status \in Frozen
       /\ \E w \in Payee : Net(Books, p, w) # Net(Books, p, w)'
       => \E a \in Appointment : ~Charged(a) /\ Charged(a)']_vars

Discounts(p, w) ==
  Total(Books, {i \in Live(Books) : /\ concept[i].type = "discount"
                                    /\ concept[i].period = p /\ concept[i].payee = w})

\* The lines of a worker's statement add up to the net it shows, approved or not,
\* but for the discount of a charge that came after: that one is recorded when
\* the snapshot was already taken again.
StatementExplainsNet ==
  crashes = 0 => \A p \in DOMAIN period, w \in Payee :
    LET lines == StatementBreakdown(p, w)
        explained == Sum(lines)
        shown == CurrencyBreakdown(p, w).net
    IN explained <= shown /\ shown <= explained - lines["discount"]

\* No worker is paid in a period more than they earned in it before discounts,
\* through payouts, automatic balances, late charges and undone ones.
PaidWithinEarned ==
  \A p \in DOMAIN period, w \in Payee :
    paid[<<p, w>>] > 0 => paid[<<p, w>>] <= Net(Books, p, w) - Discounts(p, w)

\* A closed period owes nothing: neither what was left at its closing nor what a
\* charge dated in it brings later.
ClosedIsSettled ==
  crashes = 0 => \A p \in DOMAIN period, w \in Payee :
    period[p].status = "closed" => PeriodSummary(p).workers[w].balance <= 0

\* What an appointment costs the payroll, what undoes it included.
Owed(b, a) ==
  Total(b, ConceptsOf(b, a) \cup
           {j \in Live(b) : b.concept[j].type = "reversal"
                            /\ b.concept[j].source \in ConceptsOf(b, a)})

\* A charge adds exactly its commission less its discount for the worker, in
\* whatever period it falls, if the appointment was never charged before.
FirstChargeIsCredited ==
  [][\A a \in Appointment :
       /\ ~Charged(a) /\ Charged(a)' /\ reversals[a] = 0 /\ crashes' = crashes
       /\ ~BeforeActivation(Books', payment'[a].paidAt)
       => \E d \in Discount : Owed(Books', a) =
            payment'[a].commission - Min2(d, payment'[a].commission)]_vars

\* Undoing a charge leaves the worker nothing of it, in open and in approved
\* periods alike, if none of its concepts was undone by hand or before.
UndoneChargeOwesNothing ==
  [][\A a \in Appointment :
       /\ Charged(a) /\ ~Charged(a)' /\ crashes' = crashes
       /\ \A i \in ConceptsOf(Books, a) : ~Reversed(Books, i)
       => Owed(Books', a) = 0]_vars

\* Activating the payroll with a past day brings every charge made since.
ActivationBringsCharges ==
  [][config = None /\ period = <<>> /\ config' # None /\ crashes' = crashes =>
       \A a \in Appointment :
         Charged(a) /\ ~BeforeActivation(Books', payment[a].paidAt)
         => Owed(Books', a) = payment[a].commission]_vars

\* Units left and units workers bought add up, and a purchase that was undone
\* gave its unit back.
StockBalanced ==
  /\ stock + Cardinality({s \in DOMAIN sale : sale[s] = "sold"}) = InitialStock
  /\ crashes = 0 => \A i \in Live(Books) :
       concept[i].type = "purchase" /\ Reversed(Books, i) => sale[concept[i].source] = "void"

\* Every period is on some screen, also one sent to review after which none was
\* opened; the history, the summary and the export of a period tell the same; a
\* worker finds every period that paid them; and the receipt of an appointment
\* that was charged once names one commission at most.
ScreensAgree ==
  /\ period # <<>> => DOMAIN period = HistoricPeriods \cup {CurrentPeriod}
  /\ \A p \in HistoricPeriods : HistoryLine(p) = ExportPeriod(p).total
  /\ \A p \in DOMAIN period, w \in Payee :
       paid[<<p, w>>] > 0 => MyStatement(p, w).shown = ExportPeriod(p).rows[w]
  /\ \A a \in Appointment :
       reversals[a] = 0 /\ crashes = 0 => Cardinality(ReceiptOf(a)) <= 1

\* The books balance: nobody is paid more than earned, a closed period owes
\* nothing, a statement explains what it shows, the screens agree, and the stock
\* is accounted for.
BooksBalance ==
  /\ TypeOK /\ PaidWithinEarned /\ ClosedIsSettled /\ StockBalanced
  /\ StatementExplainsNet /\ ScreensAgree

\* What is charged, or undone, reaches the worker's books exactly once, whether
\* the payroll was active by then or not.
ChargesReachTheBooks ==
  FirstChargeIsCredited /\ UndoneChargeOwesNothing /\ ActivationBringsCharges

=============================================================================
