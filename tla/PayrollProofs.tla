--------------------------- MODULE PayrollProofs ---------------------------
(***************************************************************************)
(* Theorems about Payroll, for every number of workers, appointments,      *)
(* periods and concepts.                                                   *)
(***************************************************************************)
EXTENDS Payroll, FiniteData

-----------------------------------------------------------------------------
(* Books *)

Entry == [type : ConceptType, amount : Int, payee : Payee, period : Nat \ {0},
          source : Appointment \cup Nat]
TypedBooks == [period : Seq(PeriodRow), concept : Seq(Entry \cup {Deleted}),
               frozen : [Key -> Int], paid : [Key -> Nat]]

\* Every concept is in a period there is, a period ends when its length says,
\* and one at most is open.
Well(b) ==
  /\ b \in TypedBooks
  /\ \A i \in Live(b) : b.concept[i].period \in DOMAIN b.period
  /\ \A p \in DOMAIN b.period :
       b.period[p].endsAt = b.period[p].startsAt + Length[b.period[p].frequency] - 1
  /\ \A p, q \in OpenPeriods(b) : p = q

LEMMA BookRows ==
  ASSUME NEW b \in TypedBooks
  PROVE  /\ Len(b.period) \in Nat /\ DOMAIN b.period = 1..Len(b.period)
         /\ \A p \in DOMAIN b.period : b.period[p] \in PeriodRow
         /\ Len(b.concept) \in Nat /\ DOMAIN b.concept = 1..Len(b.concept)
         /\ \A i \in DOMAIN b.concept : b.concept[i] \in Entry \cup {Deleted}
         /\ Live(b) \in SUBSET (1..Len(b.concept)) /\ \A i \in Live(b) : b.concept[i] \in Entry
BY DEF TypedBooks, Live

LEMMA LiveIsFinite ==
  ASSUME NEW b \in TypedBooks, NEW I \in SUBSET Live(b)
  PROVE  IsFiniteSet(I)
<1>1. Live(b) \in SUBSET (1..Len(b.concept)) /\ Len(b.concept) \in Nat
  BY BookRows
<1>2. IsFiniteSet(1..Len(b.concept))
  BY <1>1, FS_Interval
<1>. QED BY <1>1, <1>2, FS_Subset

LEMMA EntryIsNotDeleted ==
  ASSUME NEW e \in Entry
  PROVE  e # Deleted
BY DEF Entry, Deleted, ConceptType

LEMMA PeriodRowFields ==
  ASSUME NEW row \in PeriodRow
  PROVE  /\ row.status \in PeriodStatus /\ row.frequency \in Frequency
         /\ row.startsAt \in Nat /\ row.endsAt \in Nat
         /\ Length[row.frequency] \in Nat \ {0}
BY PayrollAssumption DEF PeriodRow

-----------------------------------------------------------------------------
(* The window of a date *)

LEMMA WindowFollows ==
  ASSUME NEW f \in Frequency, NEW start \in Nat, NEW date \in Nat,
         NEW window, window = WindowContaining(f, start, date)
  PROVE  /\ window.startsAt \in Nat /\ window.startsAt >= start
         /\ window.endsAt = window.startsAt + Length[f] - 1 /\ window.endsAt \in Nat
<1>. DEFINE L == Length[f]
<1>1. L \in Nat /\ L >= 1
  BY PayrollAssumption
<1>. HIDE DEF L
<1>2. ASSUME date >= start PROVE L * ((date - start) \div L) \in Nat
  <2>1. (date - start) \div L \in Nat
    BY <1>1, <1>2
  <2>2. \A m, n \in Nat : m * n \in Nat
    OBVIOUS
  <2>. QED BY <1>1, <2>1, <2>2
<1>3. PICK s \in Nat : s >= start /\ window = BoundsFrom(s, f)
  <2>1. CASE date < start
    BY <2>1 DEF WindowContaining
  <2>2. CASE date >= start
    <3>1. PICK m \in Nat : m = L * ((date - start) \div L)
      BY <1>2, <2>2
    <3>2. window = BoundsFrom(start + m, f)
      BY <2>2, <3>1 DEF WindowContaining, L
    <3>. QED BY <3>2
  <2>. QED BY <2>1, <2>2
<1>. QED BY <1>1, <1>3 DEF BoundsFrom, L

-----------------------------------------------------------------------------
(* The period that is open *)

LEMMA LastLargest ==
  ASSUME NEW N \in Nat, N >= 1, NEW f, \A p \in 1..N : f[p] \in Int
  PROVE  \E p \in 1..N : \A q \in 1..N : f[q] < f[p] \/ (f[q] = f[p] /\ q <= p)
<1>. DEFINE Later(p, q) == f[q] < f[p] \/ (f[q] = f[p] /\ q <= p)
            Good == {n \in Nat : n + 1 \in 1..N =>
                       \E p \in 1..(n + 1) : \A q \in 1..(n + 1) : Later(p, q)}
<1>1. 0 \in Good
  OBVIOUS
<1>2. ASSUME NEW n \in Good PROVE n + 1 \in Good
  <2>. SUFFICES ASSUME n + 2 \in 1..N
                PROVE  \E p \in 1..(n + 2) : \A q \in 1..(n + 2) : Later(p, q)
    OBVIOUS
  <2>1. PICK p \in 1..(n + 1) : \A q \in 1..(n + 1) : Later(p, q)
    OBVIOUS
  <2>2. f[p] \in Int /\ f[n + 2] \in Int /\ \A q \in 1..(n + 1) : f[q] \in Int
    OBVIOUS
  <2>3. CASE f[n + 2] < f[p]
    <3>1. \A q \in 1..(n + 2) : Later(p, q)
      BY <2>1, <2>3
    <3>. QED BY <3>1
  <2>4. CASE f[n + 2] >= f[p]
    <3>1. \A q \in 1..(n + 2) : Later(n + 2, q)
      BY <2>1, <2>2, <2>4
    <3>. HIDE DEF Later
    <3>. QED BY <3>1
  <2>. QED BY <2>2, <2>3, <2>4
<1>3. Good = Nat
  <2>1. Good \in SUBSET Nat
    OBVIOUS
  <2>. HIDE DEF Good
  <2>. QED BY <1>1, <1>2, <2>1, NatSteps
<1>4. N - 1 \in Nat
  OBVIOUS
<1>5. N - 1 \in Good
  BY <1>3, <1>4
<1>. QED BY <1>5

LEMMA LatestIs ==
  ASSUME NEW b, Well(b), b.period # <<>>
  PROVE  /\ Latest(b) \in DOMAIN b.period
         /\ \A q \in DOMAIN b.period :
              b.period[q].startsAt <= b.period[Latest(b)].startsAt
<1>. DEFINE N == Len(b.period)
            f == [p \in 1..N |-> b.period[p].startsAt]
<1>1. N \in Nat /\ DOMAIN b.period = 1..N /\ \A p \in 1..N : b.period[p].startsAt \in Nat
  BY BookRows, PeriodRowFields DEF Well
<1>2. N >= 1
  BY <1>1, EmptySeq DEF Well, TypedBooks
<1>3. \A p \in 1..N : f[p] = b.period[p].startsAt
  OBVIOUS
<1>4. PICK p \in 1..N : \A q \in 1..N : f[q] < f[p] \/ (f[q] = f[p] /\ q <= p)
  <2>1. \A q \in 1..N : f[q] \in Int
    BY <1>1, <1>3
  <2>. HIDE DEF N, f
  <2>. QED BY <1>1, <1>2, <2>1, LastLargest
<1>5. \E r \in DOMAIN b.period : \A q \in DOMAIN b.period :
        \/ b.period[q].startsAt < b.period[r].startsAt
        \/ b.period[q].startsAt = b.period[r].startsAt /\ q <= r
  BY <1>1, <1>3, <1>4
<1>6. Latest(b) \in DOMAIN b.period /\ \A q \in DOMAIN b.period :
        \/ b.period[q].startsAt < b.period[Latest(b)].startsAt
        \/ b.period[q].startsAt = b.period[Latest(b)].startsAt /\ q <= Latest(b)
  BY <1>5 DEF Latest
<1>. QED BY <1>1, <1>6

LEMMA OpenPeriodIs ==
  ASSUME NEW b, Well(b), OpenPeriods(b) # {}
  PROVE  /\ OpenPeriod(b) \in DOMAIN b.period /\ b.period[OpenPeriod(b)].status = "open"
         /\ OpenPeriods(b) = {OpenPeriod(b)}
<1>1. OpenPeriod(b) \in OpenPeriods(b)
  BY DEF OpenPeriod
<1>. QED BY <1>1 DEF Well, OpenPeriods

\* c is b with a new open period, the one that was open under review.
NewPeriod(b, c, row) ==
  /\ c \in TypedBooks
  /\ c.concept = b.concept /\ c.frozen = b.frozen /\ c.paid = b.paid
  /\ Len(c.period) = Len(b.period) + 1 /\ DOMAIN c.period = 1..(Len(b.period) + 1)
  /\ \A p \in DOMAIN b.period :
       c.period[p] = IF p \in OpenPeriods(b) THEN [b.period[p] EXCEPT !.status = "review"]
                     ELSE b.period[p]
  /\ c.period[Len(b.period) + 1] = row

LEMMA NewPeriodIsWell ==
  ASSUME NEW b, Well(b), NEW c, NEW row \in PeriodRow, NewPeriod(b, c, row),
         row.status = "open", row.endsAt = row.startsAt + Length[row.frequency] - 1
  PROVE  /\ Well(c) /\ OpenPeriods(c) = {Len(c.period)} /\ OpenPeriod(c) = Len(c.period)
         /\ Len(c.period) \in DOMAIN c.period
<1>1. Len(b.period) \in Nat /\ DOMAIN b.period = 1..Len(b.period)
      /\ \A p \in DOMAIN b.period : b.period[p] \in PeriodRow
  BY BookRows DEF Well
<1>2. ASSUME NEW p \in DOMAIN b.period
      PROVE  /\ c.period[p].status # "open"
             /\ c.period[p].startsAt = b.period[p].startsAt
             /\ c.period[p].endsAt = b.period[p].endsAt
             /\ c.period[p].frequency = b.period[p].frequency
  BY <1>1 DEF NewPeriod, OpenPeriods, PeriodRow
<1>3. OpenPeriods(c) = {Len(c.period)} /\ Len(c.period) \in DOMAIN c.period
  BY <1>1, <1>2 DEF NewPeriod, OpenPeriods
<1>4. \A p \in DOMAIN c.period :
        c.period[p].endsAt = c.period[p].startsAt + Length[c.period[p].frequency] - 1
  BY <1>1, <1>2 DEF NewPeriod, Well
<1>5. Live(c) = Live(b) /\ \A i \in Live(c) : c.concept[i].period \in DOMAIN c.period
  BY <1>1 DEF NewPeriod, Well, Live
<1>6. OpenPeriod(c) = Len(c.period)
  BY <1>3 DEF OpenPeriod
<1>. QED BY <1>3, <1>4, <1>5, <1>6 DEF Well, NewPeriod

LEMMA ExtendedIs ==
  ASSUME NEW old, NEW row, NEW concepts, NEW kept, NEW given, NEW r,
         r = [period |-> old, concept |-> concepts, frozen |-> kept, paid |-> given]
  PROVE  [r EXCEPT !.period = Append(@, row)]
         = [period |-> Append(old, row), concept |-> concepts, frozen |-> kept, paid |-> given]
BY SMTT(30)

LEMMA OpenedWithIs ==
  ASSUME NEW b, Well(b), NEW rotated, NEW f \in Frequency, NEW window,
         rotated = [b EXCEPT !.period = [p \in DOMAIN @ |->
                      IF p \in OpenPeriods(b) THEN [@[p] EXCEPT !.status = "review"] ELSE @[p]]],
         window.startsAt \in Nat, window.endsAt \in Nat
  PROVE  NewPeriod(b, OpenedWith(rotated, f, window),
                   [status |-> "open", frequency |-> f,
                    startsAt |-> window.startsAt, endsAt |-> window.endsAt])
<1>. DEFINE row == [status |-> "open", frequency |-> f,
                    startsAt |-> window.startsAt, endsAt |-> window.endsAt]
            old == [p \in DOMAIN b.period |->
                      IF p \in OpenPeriods(b) THEN [b.period[p] EXCEPT !.status = "review"]
                      ELSE b.period[p]]
            N == Len(b.period)
            c == OpenedWith(rotated, f, window)
<1>1. N \in Nat /\ DOMAIN b.period = 1..N /\ b \in TypedBooks
      /\ \A p \in DOMAIN b.period : b.period[p] \in PeriodRow
  BY BookRows DEF Well
<1>2. row \in PeriodRow
  BY DEF PeriodRow, PeriodStatus
<1>3. \A p \in 1..N : old[p] \in PeriodRow
  BY <1>1 DEF PeriodRow, PeriodStatus
<1>4. old \in Seq(PeriodRow) /\ Len(old) = N /\ DOMAIN old = 1..N
  <2>1. old \in [1..N -> PeriodRow]
    BY <1>1, <1>3
  <2>. HIDE DEF old
  <2>2. old \in UNION {[1..n -> PeriodRow] : n \in Nat}
    BY <1>1, <2>1
  <2>. QED BY <1>1, <2>1, <2>2, SeqDef, LenProperties
<1>5. rotated = [period |-> old, concept |-> b.concept, frozen |-> b.frozen, paid |-> b.paid]
  BY <1>1 DEF TypedBooks
<1>6. c = [rotated EXCEPT !.period = Append(@, row)]
  BY DEF OpenedWith
<1>7. /\ Append(old, row) \in Seq(PeriodRow) /\ Len(Append(old, row)) = N + 1
      /\ DOMAIN Append(old, row) = 1..(N + 1)
      /\ \A p \in 1..N : Append(old, row)[p] = old[p]
      /\ Append(old, row)[N + 1] = row
  BY <1>1, <1>2, <1>4, AppendProperties
<1>8. \A p \in 1..N : old[p] = IF p \in OpenPeriods(b) THEN [b.period[p] EXCEPT !.status = "review"]
                      ELSE b.period[p]
  BY <1>1 DEF old
<1>9. c = [period |-> Append(old, row), concept |-> b.concept, frozen |-> b.frozen,
           paid |-> b.paid]
  BY <1>5, <1>6, ExtendedIs
<1>10. c \in TypedBooks
  <2>. HIDE DEF c, old, row
  <2>. QED BY <1>1, <1>7, <1>9 DEF TypedBooks
<1>11. NewPeriod(b, c, row)
  <2>. HIDE DEF c, old, row
  <2>. QED BY <1>1, <1>7, <1>8, <1>9, <1>10 DEF NewPeriod
<1>. QED BY <1>11

\* No day is in two periods, and the one that is open is the last of them.
Apart(b) ==
  \A p, q \in DOMAIN b.period : p # q =>
    ~(b.period[p].startsAt <= b.period[q].endsAt /\ b.period[q].startsAt <= b.period[p].endsAt)
OpenIsLast(b) ==
  \A p \in OpenPeriods(b) : \A q \in DOMAIN b.period :
    b.period[q].startsAt <= b.period[p].startsAt
Chained(b) == Apart(b) /\ OpenIsLast(b)

\* c is b, or b with a new open period that follows the one that was open or last.
Ensured(b, c) ==
  \/ c = b /\ OpenPeriods(b) # {}
  \/ \E row \in PeriodRow :
       /\ NewPeriod(b, c, row) /\ row.status = "open"
       /\ row.endsAt = row.startsAt + Length[row.frequency] - 1
       /\ b.period # <<>> =>
            \E last \in DOMAIN b.period :
              /\ OpenPeriods(b) # {} => last \in OpenPeriods(b)
              /\ OpenPeriods(b) = {} => \A q \in DOMAIN b.period :
                                          b.period[q].startsAt <= b.period[last].startsAt
              /\ row.startsAt > b.period[last].endsAt

LEMMA EnsureOpenIs ==
  ASSUME NEW b, Well(b), NEW f \in Frequency, NEW date \in Nat
  PROVE  Ensured(b, EnsureOpenFor(b, f, date))
<1>. DEFINE open == OpenPeriods(b)
            rotated == [b EXCEPT !.period = [p \in DOMAIN @ |->
                          IF p \in open THEN [@[p] EXCEPT !.status = "review"] ELSE @[p]]]
            last == IF open # {} THEN OpenPeriod(b) ELSE Latest(b)
            start == IF b.period = <<>> THEN date ELSE NextChainStart(b.period[last])
            window == WindowContaining(f, start, date)
            c == EnsureOpenFor(b, f, date)
            row == [status |-> "open", frequency |-> f,
                    startsAt |-> window.startsAt, endsAt |-> window.endsAt]
<1>1. CASE open # {} /\ date <= b.period[OpenPeriod(b)].endsAt
  BY <1>1 DEF EnsureOpenFor, Ensured
<1>2. CASE ~(open # {} /\ date <= b.period[OpenPeriod(b)].endsAt)
  <2>1. c = OpenedWith(rotated, f, window)
    BY <1>2 DEF EnsureOpenFor
  <2>2. b.period # <<>> =>
          /\ last \in DOMAIN b.period
          /\ open # {} => last \in open
          /\ open = {} => \A q \in DOMAIN b.period :
                            b.period[q].startsAt <= b.period[last].startsAt
    BY OpenPeriodIs, LatestIs DEF OpenPeriods
  <2>3. b.period # <<>> => start \in Nat /\ start > b.period[last].endsAt
    <3>1. SUFFICES ASSUME b.period # <<>> PROVE start \in Nat /\ start > b.period[last].endsAt
      OBVIOUS
    <3>2. b.period[last] \in PeriodRow
          /\ b.period[last].endsAt = b.period[last].startsAt + Length[b.period[last].frequency] - 1
      BY <2>2, <3>1, BookRows DEF Well
    <3>3. start = b.period[last].startsAt + Length[b.period[last].frequency]
      BY <3>1 DEF NextChainStart
    <3>. HIDE DEF start, last
    <3>. QED BY <3>2, <3>3, PeriodRowFields
  <2>4. start \in Nat
    BY <2>3
  <2>5. /\ window.startsAt \in Nat /\ window.startsAt >= start
        /\ window.endsAt = window.startsAt + Length[f] - 1 /\ window.endsAt \in Nat
    <3>. HIDE DEF start
    <3>. QED BY <2>4, WindowFollows
  <2>6. NewPeriod(b, c, row)
    <3>. HIDE DEF window
    <3>. QED BY <2>1, <2>5, OpenedWithIs
  <2>7. row \in PeriodRow /\ row.status = "open" /\ row.startsAt = window.startsAt
        /\ row.endsAt = row.startsAt + Length[row.frequency] - 1
    <3>. HIDE DEF window
    <3>. QED BY <2>5 DEF PeriodRow, PeriodStatus
  <2>8. b.period # <<>> => row.startsAt > b.period[last].endsAt
    <3>1. b.period # <<>> => b.period[last].endsAt \in Nat
      BY <2>2, BookRows, PeriodRowFields DEF Well
    <3>. HIDE DEF window, start, row, last
    <3>. QED BY <2>3, <2>5, <2>7, <3>1
  <2>. HIDE DEF row, last, c, open
  <2>9. b.period # <<>> => \E l \in DOMAIN b.period :
          /\ OpenPeriods(b) # {} => l \in OpenPeriods(b)
          /\ OpenPeriods(b) = {} => \A q \in DOMAIN b.period :
                                      b.period[q].startsAt <= b.period[l].startsAt
          /\ row.startsAt > b.period[l].endsAt
    BY <2>2, <2>8 DEF open
  <2>10. Ensured(b, c)
    BY <2>6, <2>7, <2>9 DEF Ensured
  <2>. QED BY <2>10 DEF c
<1>. QED BY <1>1, <1>2

LEMMA NewPeriodRows ==
  ASSUME NEW b, Well(b), NEW c, NEW row, NewPeriod(b, c, row), NEW N, N = Len(b.period)
  PROVE  /\ N \in Nat /\ DOMAIN b.period = 1..N /\ DOMAIN c.period = 1..(N + 1)
         /\ c.period[N + 1] = row
         /\ \A p \in 1..N : /\ c.period[p].startsAt = b.period[p].startsAt
                            /\ c.period[p].endsAt = b.period[p].endsAt
                            /\ p \in OpenPeriods(b) => c.period[p].status = "review"
                            /\ p \notin OpenPeriods(b) => c.period[p] = b.period[p]
<1>1. /\ N \in Nat /\ DOMAIN b.period = 1..N /\ DOMAIN c.period = 1..(N + 1)
      /\ c.period[N + 1] = row
      /\ \A p \in 1..N : b.period[p] \in PeriodRow
  BY BookRows DEF Well, NewPeriod
<1>2. ASSUME NEW p \in 1..N
      PROVE  /\ c.period[p].startsAt = b.period[p].startsAt
             /\ c.period[p].endsAt = b.period[p].endsAt
             /\ p \in OpenPeriods(b) => c.period[p].status = "review"
             /\ p \notin OpenPeriods(b) => c.period[p] = b.period[p]
  <2>1. c.period[p] = IF p \in OpenPeriods(b) THEN [b.period[p] EXCEPT !.status = "review"]
                      ELSE b.period[p]
    BY <1>1 DEF NewPeriod
  <2>2. b.period[p] \in PeriodRow
    BY <1>1
  <2>. QED BY <2>1, <2>2 DEF PeriodRow
<1>. QED BY <1>1, <1>2

LEMMA EnsuredIsWell ==
  ASSUME NEW b, Well(b), NEW c, Ensured(b, c)
  PROVE  /\ Well(c) /\ OpenPeriods(c) # {}
         /\ c.concept = b.concept /\ c.frozen = b.frozen /\ c.paid = b.paid
         /\ DOMAIN b.period \subseteq DOMAIN c.period
         /\ \A p \in DOMAIN b.period : p \notin OpenPeriods(b) => c.period[p] = b.period[p]
         /\ \A p \in DOMAIN c.period : p \notin DOMAIN b.period => c.period[p].status = "open"
         /\ \A p \in OpenPeriods(b) : c.period[p].status \in {"open", "review"}
<1>1. CASE c = b /\ OpenPeriods(b) # {}
  BY <1>1 DEF OpenPeriods
<1>2. ASSUME NEW row \in PeriodRow, NewPeriod(b, c, row), row.status = "open",
             row.endsAt = row.startsAt + Length[row.frequency] - 1
      PROVE  /\ Well(c) /\ OpenPeriods(c) # {}
             /\ c.concept = b.concept /\ c.frozen = b.frozen /\ c.paid = b.paid
             /\ DOMAIN b.period \subseteq DOMAIN c.period
             /\ \A p \in DOMAIN b.period : p \notin OpenPeriods(b) => c.period[p] = b.period[p]
             /\ \A p \in DOMAIN c.period : p \notin DOMAIN b.period => c.period[p].status = "open"
             /\ \A p \in OpenPeriods(b) : c.period[p].status \in {"open", "review"}
  <2>1. Well(c) /\ OpenPeriods(c) # {}
    BY <1>2, NewPeriodIsWell
  <2>2. PICK N : N = Len(b.period)
    OBVIOUS
  <2>3. /\ N \in Nat /\ DOMAIN b.period = 1..N /\ DOMAIN c.period = 1..(N + 1)
        /\ c.period[N + 1] = row
        /\ \A p \in 1..N : /\ p \in OpenPeriods(b) => c.period[p].status = "review"
                           /\ p \notin OpenPeriods(b) => c.period[p] = b.period[p]
    BY <1>2, <2>2, NewPeriodRows
  <2>4. c.concept = b.concept /\ c.frozen = b.frozen /\ c.paid = b.paid
    BY <1>2 DEF NewPeriod
  <2>5. OpenPeriods(b) \subseteq DOMAIN b.period
    BY DEF OpenPeriods
  <2>. QED BY <1>2, <2>1, <2>3, <2>4, <2>5
<1>. QED BY <1>1, <1>2 DEF Ensured

LEMMA EnsuredIsChained ==
  ASSUME NEW b, Well(b), Chained(b), NEW c, Ensured(b, c)
  PROVE  Chained(c)
<1>1. CASE c = b
  BY <1>1
<1>2. ASSUME NEW row \in PeriodRow, NewPeriod(b, c, row), row.status = "open",
             row.endsAt = row.startsAt + Length[row.frequency] - 1,
             b.period # <<>> =>
               \E last \in DOMAIN b.period :
                 /\ OpenPeriods(b) # {} => last \in OpenPeriods(b)
                 /\ OpenPeriods(b) = {} => \A q \in DOMAIN b.period :
                                             b.period[q].startsAt <= b.period[last].startsAt
                 /\ row.startsAt > b.period[last].endsAt
      PROVE  Chained(c)
  <2>0. PICK N : N = Len(b.period)
    OBVIOUS
  <2>1. /\ N \in Nat /\ DOMAIN b.period = 1..N /\ b.period \in Seq(PeriodRow)
        /\ \A p \in DOMAIN b.period : b.period[p] \in PeriodRow
        /\ \A p \in DOMAIN b.period : b.period[p].startsAt \in Nat /\ b.period[p].endsAt \in Nat
                                      /\ b.period[p].startsAt <= b.period[p].endsAt
    <3>1. N \in Nat /\ DOMAIN b.period = 1..N /\ b.period \in Seq(PeriodRow)
          /\ \A p \in DOMAIN b.period : b.period[p] \in PeriodRow
      BY <2>0, BookRows DEF Well, TypedBooks
    <3>2. ASSUME NEW p \in DOMAIN b.period
          PROVE  b.period[p].startsAt \in Nat /\ b.period[p].endsAt \in Nat
                 /\ b.period[p].startsAt <= b.period[p].endsAt
      <4>1. b.period[p] \in PeriodRow
            /\ b.period[p].endsAt = b.period[p].startsAt + Length[b.period[p].frequency] - 1
        BY <3>1 DEF Well
      <4>. QED BY <4>1, PeriodRowFields
    <3>. QED BY <3>1, <3>2
  <2>2. /\ DOMAIN c.period = 1..(N + 1) /\ c.period[N + 1] = row
        /\ \A p \in 1..N : /\ c.period[p].startsAt = b.period[p].startsAt
                           /\ c.period[p].endsAt = b.period[p].endsAt
    BY <1>2, <2>0, NewPeriodRows
  <2>3. row.startsAt \in Nat /\ row.endsAt \in Nat /\ row.startsAt <= row.endsAt
    BY <1>2, PeriodRowFields
  <2>4. ASSUME NEW p \in 1..N
        PROVE  b.period[p].endsAt < row.startsAt
    <3>1. b.period # <<>>
      BY <2>1
    <3>2. PICK last \in DOMAIN b.period :
            /\ OpenPeriods(b) # {} => last \in OpenPeriods(b)
            /\ OpenPeriods(b) = {} => \A q \in DOMAIN b.period :
                                        b.period[q].startsAt <= b.period[last].startsAt
            /\ row.startsAt > b.period[last].endsAt
      BY <1>2, <3>1
    <3>3. b.period[p].startsAt <= b.period[last].startsAt
      BY <2>1, <3>2 DEF Chained, OpenIsLast
    <3>4. p # last => b.period[p].endsAt < b.period[last].startsAt
      BY <2>1, <3>2, <3>3 DEF Chained, Apart
    <3>. QED BY <2>1, <2>3, <3>2, <3>3, <3>4
  <2>5. Apart(c)
    <3>1. ASSUME NEW p \in 1..(N + 1), NEW q \in 1..(N + 1), p < q
          PROVE  c.period[p].endsAt < c.period[q].startsAt
                 \/ c.period[q].endsAt < c.period[p].startsAt
      <4>1. CASE q = N + 1
        BY <2>1, <2>2, <2>4, <3>1, <4>1
      <4>2. CASE q \in 1..N
        <5>1. p \in 1..N /\ p # q
          BY <2>1, <3>1, <4>2
        <5>2. ~(b.period[p].startsAt <= b.period[q].endsAt
                /\ b.period[q].startsAt <= b.period[p].endsAt)
          BY <2>1, <4>2, <5>1 DEF Chained, Apart
        <5>3. /\ c.period[p].endsAt = b.period[p].endsAt /\ c.period[q].endsAt = b.period[q].endsAt
              /\ c.period[p].startsAt = b.period[p].startsAt
              /\ c.period[q].startsAt = b.period[q].startsAt
          BY <2>2, <4>2, <5>1
        <5>4. /\ b.period[p].endsAt \in Nat /\ b.period[q].endsAt \in Nat
              /\ b.period[p].startsAt \in Nat /\ b.period[q].startsAt \in Nat
          BY <2>1, <4>2, <5>1
        <5>. QED BY <5>2, <5>3, <5>4
      <4>. QED BY <2>1, <4>1, <4>2
    <3>2. \A p \in 1..(N + 1) : c.period[p].startsAt \in Nat /\ c.period[p].endsAt \in Nat
      <4>1. ASSUME NEW p \in 1..(N + 1)
            PROVE  c.period[p].startsAt \in Nat /\ c.period[p].endsAt \in Nat
        <5>1. CASE p = N + 1
          BY <2>2, <2>3, <5>1
        <5>2. CASE p \in 1..N
          BY <2>1, <2>2, <5>2
        <5>. QED BY <2>1, <5>1, <5>2
      <4>. QED BY <4>1
    <3>3. SUFFICES ASSUME NEW p \in 1..(N + 1), NEW q \in 1..(N + 1), p # q
                   PROVE  ~(c.period[p].startsAt <= c.period[q].endsAt
                            /\ c.period[q].startsAt <= c.period[p].endsAt)
      BY <2>2 DEF Apart
    <3>4. p < q \/ q < p
      BY <2>1, <3>3
    <3>5. \/ c.period[p].endsAt < c.period[q].startsAt
          \/ c.period[q].endsAt < c.period[p].startsAt
      BY <3>1, <3>4
    <3>. QED BY <3>2, <3>5
  <2>6. OpenPeriods(c) = {N + 1}
    <3>1. Len(c.period) = N + 1
      BY <1>2, <2>0 DEF NewPeriod
    <3>. QED BY <1>2, <3>1, NewPeriodIsWell
  <2>7. OpenIsLast(c)
    <3>1. ASSUME NEW q \in 1..(N + 1) PROVE c.period[q].startsAt <= row.startsAt
      <4>1. CASE q = N + 1
        BY <2>2, <2>3, <4>1
      <4>2. CASE q \in 1..N
        <5>1. /\ b.period[q].endsAt < row.startsAt /\ c.period[q].startsAt = b.period[q].startsAt
              /\ b.period[q].startsAt <= b.period[q].endsAt
              /\ b.period[q].startsAt \in Nat /\ b.period[q].endsAt \in Nat
          BY <2>1, <2>2, <2>4, <4>2
        <5>. QED BY <5>1, <2>3
      <4>. QED BY <2>1, <4>1, <4>2
    <3>. QED BY <2>2, <2>6, <3>1 DEF OpenIsLast
  <2>. QED BY <2>5, <2>7 DEF Chained
<1>. QED BY <1>1, <1>2 DEF Ensured

-----------------------------------------------------------------------------
(* Totals *)

Amounts(b) == [i \in Live(b) |-> b.concept[i].amount]

LEMMA AmountsAre ==
  ASSUME NEW b \in TypedBooks
  PROVE  \A i \in Live(b) : Amounts(b)[i] = b.concept[i].amount /\ Amounts(b)[i] \in Int
<1>1. \A i \in Live(b) : b.concept[i] \in Entry
  BY BookRows
<1>. QED BY <1>1 DEF Amounts, Entry

LEMMA TotalIs ==
  ASSUME NEW b \in TypedBooks, NEW I \in SUBSET Live(b)
  PROVE  Total(b, I) = SumFunctionOnSet(Amounts(b), I) /\ Total(b, I) \in Int
<1>. DEFINE g == [i \in I |-> b.concept[i].amount]
<1>1. IsFiniteSet(I)
  BY LiveIsFinite
<1>2. \A i \in I : Amounts(b)[i] \in Int /\ g[i] = Amounts(b)[i]
  BY AmountsAre
<1>3. Total(b, I) = SumFunctionOnSet(g, I)
  <2>1. DOMAIN g = I
    OBVIOUS
  <2>. QED BY <2>1 DEF Total, Sum
<1>. HIDE DEF g
<1>4. SumFunctionOnSet(g, I) = SumFunctionOnSet(Amounts(b), I)
  BY <1>1, <1>2, SumSame
<1>5. SumFunctionOnSet(Amounts(b), I) \in Int
  BY <1>1, <1>2, SumIsInt
<1>. QED BY <1>3, <1>4, <1>5

LEMMA TotalSame ==
  ASSUME NEW b \in TypedBooks, NEW c \in TypedBooks, NEW I \in SUBSET Live(b), I \subseteq Live(c),
         \A i \in I : c.concept[i] = b.concept[i]
  PROVE  Total(c, I) = Total(b, I)
<1>1. IsFiniteSet(I)
  BY LiveIsFinite
<1>2. \A i \in I : Amounts(b)[i] \in Int /\ Amounts(c)[i] = Amounts(b)[i]
  BY AmountsAre
<1>3. SumFunctionOnSet(Amounts(c), I) = SumFunctionOnSet(Amounts(b), I)
  BY <1>1, <1>2, SumSame
<1>. QED BY <1>3, TotalIs

LEMMA TotalEmpty ==
  ASSUME NEW b \in TypedBooks
  PROVE  Total(b, {}) = 0
BY TotalIs, SumEmpty

LEMMA TotalAdd ==
  ASSUME NEW b \in TypedBooks, NEW I \in SUBSET Live(b), NEW x \in Live(b), x \notin I
  PROVE  Total(b, I \cup {x}) = Total(b, I) + b.concept[x].amount
<1>. DEFINE J == I \cup {x}
<1>1. J \in SUBSET Live(b) /\ J \ {x} = I /\ x \in J
  OBVIOUS
<1>2. IsFiniteSet(J)
  BY <1>1, LiveIsFinite
<1>3. \A i \in J : Amounts(b)[i] \in Int
  BY <1>1, AmountsAre
<1>. HIDE DEF J
<1>4. SumFunctionOnSet(Amounts(b), J) = Amounts(b)[x] + SumFunctionOnSet(Amounts(b), J \ {x})
  BY <1>1, <1>2, <1>3, SumOneTerm
<1>5. /\ Total(b, J) = SumFunctionOnSet(Amounts(b), J)
      /\ Total(b, I) = SumFunctionOnSet(Amounts(b), I) /\ Total(b, I) \in Int
  BY <1>1, TotalIs
<1>6. Amounts(b)[x] = b.concept[x].amount /\ Amounts(b)[x] \in Int
  BY AmountsAre
<1>7. Total(b, J) = Total(b, I) + b.concept[x].amount
  <2>1. SumFunctionOnSet(Amounts(b), J \ {x}) = Total(b, I)
    BY <1>1, <1>5
  <2>. QED BY <1>4, <1>5, <1>6, <2>1
<1>. QED BY <1>7 DEF J

LEMMA TotalOne ==
  ASSUME NEW b \in TypedBooks, NEW x \in Live(b)
  PROVE  Total(b, {x}) = b.concept[x].amount
<1>1. {} \in SUBSET Live(b) /\ {} \cup {x} = {x} /\ x \notin {}
  OBVIOUS
<1>2. Total(b, {} \cup {x}) = Total(b, {}) + b.concept[x].amount
  BY <1>1, TotalAdd
<1>3. b.concept[x].amount \in Int
  BY AmountsAre
<1>. QED BY <1>1, <1>2, <1>3, TotalEmpty

LEMMA TotalSplit ==
  ASSUME NEW b \in TypedBooks, NEW I \in SUBSET Live(b), NEW J \in SUBSET I
  PROVE  Total(b, I) = Total(b, J) + Total(b, I \ J)
<1>1. IsFiniteSet(I) /\ \A i \in I : Amounts(b)[i] \in Int
  BY LiveIsFinite, AmountsAre
<1>2. SumFunctionOnSet(Amounts(b), I)
      = SumFunctionOnSet(Amounts(b), J) + SumFunctionOnSet(Amounts(b), I \ J)
  BY <1>1, SumUnion
<1>3. J \in SUBSET Live(b) /\ I \ J \in SUBSET Live(b)
  OBVIOUS
<1>. QED BY <1>2, <1>3, TotalIs

-----------------------------------------------------------------------------
(* What is written *)

\* c is b with one concept more.
WithConcept(b, c, e) ==
  /\ c \in TypedBooks /\ e \in Entry
  /\ c.period = b.period /\ c.frozen = b.frozen /\ c.paid = b.paid
  /\ Len(c.concept) = Len(b.concept) + 1
  /\ Live(c) = Live(b) \cup {Len(b.concept) + 1}
  /\ \A i \in DOMAIN b.concept : c.concept[i] = b.concept[i]
  /\ c.concept[Len(b.concept) + 1] = e

LEMMA BooksAre ==
  ASSUME NEW b \in TypedBooks
  PROVE  b = [period |-> b.period, concept |-> b.concept, frozen |-> b.frozen, paid |-> b.paid]
BY DEF TypedBooks

LEMMA ExceptIs ==
  ASSUME NEW b \in TypedBooks, NEW n
  PROVE  /\ [b EXCEPT !.concept = n]
            = [period |-> b.period, concept |-> n, frozen |-> b.frozen, paid |-> b.paid]
         /\ [b EXCEPT !.frozen = n]
            = [period |-> b.period, concept |-> b.concept, frozen |-> n, paid |-> b.paid]
         /\ [b EXCEPT !.paid = n]
            = [period |-> b.period, concept |-> b.concept, frozen |-> b.frozen, paid |-> n]
         /\ [b EXCEPT !.period = n]
            = [period |-> n, concept |-> b.concept, frozen |-> b.frozen, paid |-> b.paid]
BY BooksAre

LEMMA AppendsConcept ==
  ASSUME NEW b \in TypedBooks, NEW e \in Entry
  PROVE  WithConcept(b, [b EXCEPT !.concept = Append(@, e)], e)
<1>. DEFINE t == Append(b.concept, e)
            c == [b EXCEPT !.concept = Append(@, e)]
            N == Len(b.concept)
            S == Entry \cup {Deleted}
<1>1. b.concept \in Seq(S) /\ e \in S /\ N \in Nat /\ DOMAIN b.concept = 1..N
  BY BookRows DEF TypedBooks
<1>. HIDE DEF S
<1>2. /\ t \in Seq(S) /\ Len(t) = N + 1 /\ DOMAIN t = 1..(N + 1)
      /\ \A i \in 1..N : t[i] = b.concept[i]
      /\ t[N + 1] = e
  BY <1>1, AppendProperties
<1>3. c = [period |-> b.period, concept |-> t, frozen |-> b.frozen, paid |-> b.paid]
  <2>1. c = [b EXCEPT !.concept = t]
    OBVIOUS
  <2>. HIDE DEF c, t
  <2>. QED BY <2>1, ExceptIs
<1>. HIDE DEF c, t
<1>4. c \in TypedBooks
  BY <1>2, <1>3 DEF TypedBooks, S
<1>5. e # Deleted
  BY EntryIsNotDeleted
<1>6. c.concept = t
  BY <1>3
<1>7. Live(c) = Live(b) \cup {N + 1}
  BY <1>1, <1>2, <1>5, <1>6 DEF Live
<1>. QED BY <1>1, <1>2, <1>3, <1>4, <1>6, <1>7 DEF WithConcept, c

LEMMA RecordIs ==
  ASSUME NEW b \in TypedBooks, NEW e \in Entry
  PROVE  \/ /\ Record(b, e) = b
            /\ \E i \in Live(b) : /\ b.concept[i].type = e.type /\ b.concept[i].source = e.source
                                  /\ b.concept[i].payee = e.payee /\ b.concept[i].period = e.period
         \/ WithConcept(b, Record(b, e), e)
BY AppendsConcept DEF Record

LEMMA WithConceptIsWell ==
  ASSUME NEW b, Well(b), NEW e, NEW c, WithConcept(b, c, e), e.period \in DOMAIN b.period
  PROVE  Well(c)
<1>1. Live(b) \subseteq DOMAIN b.concept
  BY DEF Live
<1>2. OpenPeriods(c) = OpenPeriods(b)
  BY DEF WithConcept, OpenPeriods
<1>. QED BY <1>1, <1>2 DEF Well, WithConcept

LEMMA FreezeIs ==
  ASSUME NEW b, Well(b), NEW P
  PROVE  /\ FreezeAll(b, P) \in TypedBooks
         /\ FreezeAll(b, P).period = b.period /\ FreezeAll(b, P).concept = b.concept
         /\ FreezeAll(b, P).paid = b.paid
         /\ \A k \in Key : FreezeAll(b, P).frozen[k]
                           = IF k[1] \in P THEN Net(b, k[1], k[2]) ELSE b.frozen[k]
<1>. DEFINE g == [k \in Key |-> IF k[1] \in P THEN Net(b, k[1], k[2]) ELSE b.frozen[k]]
            c == FreezeAll(b, P)
<1>1. b \in TypedBooks /\ DOMAIN b.frozen = Key /\ b.frozen \in [Key -> Int]
  BY DEF Well, TypedBooks
<1>2. \A p, w : Net(b, p, w) \in Int
  BY <1>1, TotalIs, \A p, w : {i \in Live(b) : b.concept[i].period = p /\ b.concept[i].payee = w}
                              \in SUBSET Live(b) DEF Net
<1>3. c = [period |-> b.period, concept |-> b.concept, frozen |-> g, paid |-> b.paid]
  <2>1. c = [b EXCEPT !.frozen = g]
    BY <1>1 DEF FreezeAll
  <2>. HIDE DEF c, g
  <2>. QED BY <1>1, <2>1, ExceptIs
<1>4. g \in [Key -> Int]
  BY <1>1, <1>2
<1>5. \A k \in Key : g[k] = IF k[1] \in P THEN Net(b, k[1], k[2]) ELSE b.frozen[k]
  OBVIOUS
<1>. HIDE DEF c, g
<1>6. c \in TypedBooks
  BY <1>1, <1>3, <1>4 DEF TypedBooks
<1>. QED BY <1>3, <1>5, <1>6 DEF c

LEMMA SettleIs ==
  ASSUME NEW b, Well(b), NEW p
  PROVE  /\ SettleRemaining(b, p) \in TypedBooks
         /\ SettleRemaining(b, p).period = b.period /\ SettleRemaining(b, p).concept = b.concept
         /\ SettleRemaining(b, p).frozen = b.frozen
         /\ \A k \in Key : SettleRemaining(b, p).paid[k]
              = IF k[1] = p /\ b.frozen[k] > b.paid[k] THEN b.frozen[k] ELSE b.paid[k]
<1>. DEFINE g == [k \in Key |-> IF k[1] = p /\ b.frozen[k] > b.paid[k] THEN b.frozen[k]
                                ELSE b.paid[k]]
            c == SettleRemaining(b, p)
<1>1. b \in TypedBooks /\ DOMAIN b.paid = Key /\ b.paid \in [Key -> Nat]
      /\ b.frozen \in [Key -> Int]
  BY DEF Well, TypedBooks
<1>2. c = [period |-> b.period, concept |-> b.concept, frozen |-> b.frozen, paid |-> g]
  <2>1. c = [b EXCEPT !.paid = g]
    BY <1>1 DEF SettleRemaining
  <2>. HIDE DEF c, g
  <2>. QED BY <1>1, <2>1, ExceptIs
<1>3. g \in [Key -> Nat]
  <2>1. \A k \in Key : b.frozen[k] \in Int /\ b.paid[k] \in Nat
    BY <1>1
  <2>. QED BY <2>1
<1>4. \A k \in Key : g[k] = IF k[1] = p /\ b.frozen[k] > b.paid[k] THEN b.frozen[k]
                            ELSE b.paid[k]
  OBVIOUS
<1>. HIDE DEF c, g
<1>5. c \in TypedBooks
  BY <1>1, <1>2, <1>3 DEF TypedBooks
<1>. QED BY <1>2, <1>4, <1>5 DEF c

LEMMA SamePeriodsIsWell ==
  ASSUME NEW b, Well(b), NEW c \in TypedBooks, c.period = b.period, c.concept = b.concept
  PROVE  Well(c) /\ Live(c) = Live(b) /\ OpenPeriods(c) = OpenPeriods(b)
<1>1. Live(c) = Live(b) /\ OpenPeriods(c) = OpenPeriods(b)
  BY DEF Live, OpenPeriods
<1>. QED BY <1>1 DEF Well

-----------------------------------------------------------------------------
(* What stays as it was in the periods that were approved *)

Sealed(b) == {p \in DOMAIN b.period : b.period[p].status \in Frozen}
Lines(b, p) == {i \in Live(b) : b.concept[i].period = p}
Earned(b, p, w) ==
  Total(b, {i \in Live(b) : /\ b.concept[i].period = p /\ b.concept[i].payee = w
                            /\ b.concept[i].type # "discount"})

Seals(b, c) ==
  /\ Well(c) /\ DOMAIN b.period \subseteq DOMAIN c.period
  /\ Sealed(c) = Sealed(b) /\ c.paid = b.paid
  /\ \A p \in Sealed(b) :
       /\ c.period[p].status = b.period[p].status
       /\ Lines(c, p) = Lines(b, p)
       /\ \A i \in Lines(b, p) : c.concept[i] = b.concept[i]
       /\ \A k \in Key : k[1] = p => c.frozen[k] = b.frozen[k]

LEMMA SealsItself ==
  ASSUME NEW b, Well(b)
  PROVE  Seals(b, b)
BY DEF Seals

LEMMA SealsOn ==
  ASSUME NEW b, NEW c, NEW d, Seals(b, c), Seals(c, d)
  PROVE  Seals(b, d)
<1>1. DOMAIN b.period \subseteq DOMAIN d.period /\ Sealed(d) = Sealed(b) /\ d.paid = b.paid
      /\ Well(d)
  BY DEF Seals
<1>2. ASSUME NEW p \in Sealed(b)
      PROVE  /\ d.period[p].status = b.period[p].status
             /\ Lines(d, p) = Lines(b, p)
             /\ \A i \in Lines(b, p) : d.concept[i] = b.concept[i]
             /\ \A k \in Key : k[1] = p => d.frozen[k] = b.frozen[k]
  BY DEF Seals
<1>. QED BY <1>1, <1>2 DEF Seals

LEMMA EnsuredSeals ==
  ASSUME NEW b, Well(b), NEW c, Ensured(b, c)
  PROVE  Seals(b, c)
<1>1. /\ Well(c) /\ c.concept = b.concept /\ c.frozen = b.frozen /\ c.paid = b.paid
      /\ DOMAIN b.period \subseteq DOMAIN c.period
      /\ \A p \in DOMAIN b.period : p \notin OpenPeriods(b) => c.period[p] = b.period[p]
      /\ \A p \in DOMAIN c.period : p \notin DOMAIN b.period => c.period[p].status = "open"
      /\ \A p \in OpenPeriods(b) : c.period[p].status \in {"open", "review"}
  BY EnsuredIsWell
<1>2. \A p \in Sealed(b) : p \in DOMAIN b.period /\ p \notin OpenPeriods(b)
  BY DEF Sealed, OpenPeriods, Frozen
<1>3. Sealed(c) = Sealed(b)
  BY <1>1, <1>2 DEF Sealed, Frozen
<1>4. \A p : Lines(c, p) = Lines(b, p)
  BY <1>1 DEF Lines, Live
<1>. QED BY <1>1, <1>2, <1>3, <1>4 DEF Seals

LEMMA WithConceptSeals ==
  ASSUME NEW b, Well(b), NEW e, NEW c, WithConcept(b, c, e),
         e.period \in DOMAIN b.period, e.period \notin Sealed(b)
  PROVE  Seals(b, c)
<1>1. Well(c) /\ Live(b) \subseteq DOMAIN b.concept
  BY WithConceptIsWell DEF Live
<1>2. Sealed(c) = Sealed(b)
  BY DEF Sealed, WithConcept
<1>3. ASSUME NEW p \in Sealed(b)
      PROVE  Lines(c, p) = Lines(b, p) /\ \A i \in Lines(b, p) : c.concept[i] = b.concept[i]
  BY <1>1 DEF Lines, WithConcept
<1>. QED BY <1>1, <1>2, <1>3 DEF Seals, WithConcept

LEMMA FreezeSeals ==
  ASSUME NEW b, Well(b), NEW P, P \cap Sealed(b) = {}
  PROVE  Seals(b, FreezeAll(b, P))
<1>. DEFINE c == FreezeAll(b, P)
<1>1. /\ c \in TypedBooks /\ c.period = b.period /\ c.concept = b.concept /\ c.paid = b.paid
      /\ \A k \in Key : c.frozen[k] = IF k[1] \in P THEN Net(b, k[1], k[2]) ELSE b.frozen[k]
  BY FreezeIs
<1>. HIDE DEF c
<1>2. Well(c) /\ Live(c) = Live(b)
  BY <1>1, SamePeriodsIsWell
<1>3. Sealed(c) = Sealed(b) /\ \A p : Lines(c, p) = Lines(b, p)
  BY <1>1, <1>2 DEF Sealed, Lines
<1>4. Seals(b, c)
  BY <1>1, <1>2, <1>3 DEF Seals
<1>. QED BY <1>4 DEF c

\* c is b without one of its concepts.
Without(b, c, i) ==
  /\ c \in TypedBooks
  /\ c.period = b.period /\ c.frozen = b.frozen /\ c.paid = b.paid
  /\ Len(c.concept) = Len(b.concept) /\ DOMAIN c.concept = DOMAIN b.concept
  /\ Live(c) = Live(b) \ {i} /\ c.concept[i] = Deleted
  /\ \A j \in DOMAIN b.concept : j # i => c.concept[j] = b.concept[j]

LEMMA DeletesConcept ==
  ASSUME NEW b \in TypedBooks, NEW i \in DOMAIN b.concept
  PROVE  Without(b, [b EXCEPT !.concept = [@ EXCEPT ![i] = Deleted]], i)
<1>. DEFINE t == [b.concept EXCEPT ![i] = Deleted]
            c == [b EXCEPT !.concept = [@ EXCEPT ![i] = Deleted]]
            S == Entry \cup {Deleted}
<1>1. b.concept \in Seq(S) /\ Deleted \in S
  BY DEF TypedBooks
<1>. HIDE DEF S
<1>2. /\ t \in Seq(S) /\ Len(t) = Len(b.concept) /\ DOMAIN t = DOMAIN b.concept
      /\ t[i] = Deleted /\ \A j \in DOMAIN b.concept : j # i => t[j] = b.concept[j]
  BY <1>1, ExceptSeq
<1>3. c = [period |-> b.period, concept |-> t, frozen |-> b.frozen, paid |-> b.paid]
  <2>1. c = [b EXCEPT !.concept = t]
    OBVIOUS
  <2>. HIDE DEF c, t
  <2>. QED BY <2>1, ExceptIs
<1>. HIDE DEF c, t
<1>4. c \in TypedBooks
  BY <1>2, <1>3 DEF TypedBooks, S
<1>5. c.concept = t
  BY <1>3
<1>6. Live(c) = Live(b) \ {i}
  BY <1>2, <1>5 DEF Live
<1>. QED BY <1>2, <1>3, <1>4, <1>5, <1>6 DEF Without, c

LEMMA WithoutSeals ==
  ASSUME NEW b, Well(b), NEW i \in Live(b), NEW c, Without(b, c, i),
         b.concept[i].period \notin Sealed(b)
  PROVE  Seals(b, c)
<1>1. OpenPeriods(c) = OpenPeriods(b) /\ Sealed(c) = Sealed(b) /\ Live(b) \subseteq DOMAIN b.concept
  BY DEF Without, OpenPeriods, Sealed, Live
<1>2. Well(c)
  BY <1>1 DEF Well, Without
<1>3. ASSUME NEW p \in Sealed(b)
      PROVE  Lines(c, p) = Lines(b, p) /\ \A j \in Lines(b, p) : c.concept[j] = b.concept[j]
  BY <1>1 DEF Lines, Without
<1>. QED BY <1>1, <1>2, <1>3 DEF Seals, Without

LEMMA SealedTotals ==
  ASSUME NEW b, Well(b), NEW c, Seals(b, c), NEW p \in Sealed(b), NEW w
  PROVE  Net(c, p, w) = Net(b, p, w) /\ Earned(c, p, w) = Earned(b, p, w)
<1>. DEFINE N(d) == {i \in Live(d) : d.concept[i].period = p /\ d.concept[i].payee = w}
            E(d) == {i \in Live(d) : /\ d.concept[i].period = p /\ d.concept[i].payee = w
                                     /\ d.concept[i].type # "discount"}
<1>1. Lines(c, p) = Lines(b, p) /\ \A i \in Lines(b, p) : c.concept[i] = b.concept[i]
  BY DEF Seals
<1>2. /\ N(b) \subseteq Lines(b, p) /\ E(b) \subseteq Lines(b, p)
      /\ N(c) \subseteq Lines(c, p) /\ E(c) \subseteq Lines(c, p)
      /\ Lines(b, p) \subseteq Live(b) /\ Lines(c, p) \subseteq Live(c)
  BY DEF Lines
<1>3. N(c) = N(b) /\ E(c) = E(b)
  BY <1>1 DEF Lines
<1>4. b \in TypedBooks /\ c \in TypedBooks
  BY DEF Seals, Well
<1>5. Net(c, p, w) = Total(c, N(c)) /\ Net(b, p, w) = Total(b, N(b))
      /\ Earned(c, p, w) = Total(c, E(c)) /\ Earned(b, p, w) = Total(b, E(b))
  BY DEF Net, Earned
<1>. HIDE DEF N, E
<1>6. Total(c, N(b)) = Total(b, N(b))
  BY <1>1, <1>2, <1>4, TotalSame
<1>7. Total(c, E(b)) = Total(b, E(b))
  BY <1>1, <1>2, <1>4, TotalSame
<1>. QED BY <1>3, <1>5, <1>6, <1>7

LEMMA NetIs ==
  ASSUME NEW b \in TypedBooks, NEW p, NEW w
  PROVE  Net(b, p, w) \in Int /\ Earned(b, p, w) \in Int
<1>1. /\ {i \in Live(b) : b.concept[i].period = p /\ b.concept[i].payee = w} \in SUBSET Live(b)
      /\ {i \in Live(b) : /\ b.concept[i].period = p /\ b.concept[i].payee = w
                          /\ b.concept[i].type # "discount"} \in SUBSET Live(b)
  OBVIOUS
<1>. QED BY <1>1, TotalIs DEF Net, Earned

LEMMA SamePeriodsChained ==
  ASSUME NEW b, NEW c, c.period = b.period, Chained(b)
  PROVE  Chained(c)
BY DEF Chained, Apart, OpenIsLast, OpenPeriods

\* What was written by b is in c, but for what was deleted, and what c adds is
\* of the types T.
Brings(b, c, T) ==
  /\ Len(b.concept) \in Nat /\ Len(c.concept) \in Nat /\ Len(b.concept) <= Len(c.concept)
  /\ \A i \in Live(c) : i <= Len(b.concept) => i \in Live(b) /\ c.concept[i] = b.concept[i]
  /\ \A i \in Live(c) : i > Len(b.concept) => c.concept[i].type \in T

LEMMA BringsOn ==
  ASSUME NEW b \in TypedBooks, NEW c \in TypedBooks, NEW d \in TypedBooks, NEW T,
         Brings(b, c, T), Brings(c, d, T)
  PROVE  Brings(b, d, T)
<1>1. Live(d) \in SUBSET (1..Len(d.concept)) /\ Live(c) \in SUBSET (1..Len(c.concept))
  BY BookRows
<1>2. ASSUME NEW i \in Live(d), i <= Len(b.concept)
      PROVE  i \in Live(b) /\ d.concept[i] = b.concept[i]
  BY <1>1, <1>2 DEF Brings
<1>3. ASSUME NEW i \in Live(d), i > Len(b.concept)
      PROVE  d.concept[i].type \in T
  BY <1>1, <1>3 DEF Brings
<1>. QED BY <1>1, <1>2, <1>3 DEF Brings

LEMMA SameConceptsBring ==
  ASSUME NEW b \in TypedBooks, NEW c \in TypedBooks, c.concept = b.concept, NEW T
  PROVE  Brings(b, c, T)
<1>1. Live(b) \in SUBSET (1..Len(b.concept)) /\ Len(b.concept) \in Nat /\ Live(c) = Live(b)
  BY BookRows DEF Live
<1>. QED BY <1>1 DEF Brings

LEMMA WithConceptBrings ==
  ASSUME NEW b \in TypedBooks, NEW e, NEW c, WithConcept(b, c, e), NEW T, e.type \in T
  PROVE  Brings(b, c, T)
<1>1. Live(b) \in SUBSET (1..Len(b.concept)) /\ Len(b.concept) \in Nat
      /\ DOMAIN b.concept = 1..Len(b.concept)
  BY BookRows
<1>. QED BY <1>1 DEF Brings, WithConcept

-----------------------------------------------------------------------------
(* What was earned, what the snapshots say of it, and what was paid *)

DiscountsLower(b) ==
  \A i \in Live(b) : b.concept[i].type = "discount" => b.concept[i].amount <= 0

\* No snapshot and no payment goes beyond what the concepts give.
Bound(b) ==
  /\ \A k \in Key : k[1] \in Sealed(b) => b.frozen[k] <= Earned(b, k[1], k[2])
  /\ \A k \in Key : b.paid[k] > 0 =>
       k[1] \in Sealed(b) /\ b.paid[k] <= Earned(b, k[1], k[2])

\* The snapshot of a period is not below its concepts, and is paid once closed.
Explained(b, q) == \A k \in Key : k[1] = q => Net(b, q, k[2]) <= b.frozen[k]
Settled(b, q) ==
  b.period[q].status = "closed" => \A k \in Key : k[1] = q => b.frozen[k] <= b.paid[k]
InOrder(b) == \A q \in Sealed(b) : Explained(b, q) /\ Settled(b, q)

LEMMA NetAtMostEarned ==
  ASSUME NEW b \in TypedBooks, DiscountsLower(b), NEW p, NEW w
  PROVE  Net(b, p, w) <= Earned(b, p, w)
<1>. DEFINE N == {i \in Live(b) : b.concept[i].period = p /\ b.concept[i].payee = w}
            E == {i \in Live(b) : /\ b.concept[i].period = p /\ b.concept[i].payee = w
                                  /\ b.concept[i].type # "discount"}
            D == N \ E
<1>1. N \in SUBSET Live(b) /\ E \in SUBSET N /\ D \in SUBSET Live(b)
      /\ \A i \in D : b.concept[i].type = "discount"
  OBVIOUS
<1>2. Net(b, p, w) = Total(b, N) /\ Earned(b, p, w) = Total(b, E)
  BY DEF Net, Earned
<1>3. Total(b, N) = Total(b, E) + Total(b, D)
  <2>. HIDE DEF N, E
  <2>. QED BY <1>1, TotalSplit DEF D
<1>. HIDE DEF N, E, D
<1>4. \A i \in D : Amounts(b)[i] \in Int /\ Amounts(b)[i] <= 0
  BY <1>1, AmountsAre DEF DiscountsLower
<1>5. Total(b, D) <= 0
  BY <1>1, <1>4, LiveIsFinite, SumNotPositive, TotalIs
<1>6. Total(b, D) \in Int /\ Total(b, E) \in Int
  BY <1>1, TotalIs
<1>. QED BY <1>2, <1>3, <1>5, <1>6

LEMMA WithConceptTotals ==
  ASSUME NEW b \in TypedBooks, NEW e, NEW c, WithConcept(b, c, e), NEW p, NEW w
  PROVE  /\ Net(c, p, w) = Net(b, p, w)
              + IF e.period = p /\ e.payee = w THEN e.amount ELSE 0
         /\ Earned(c, p, w) = Earned(b, p, w)
              + IF e.period = p /\ e.payee = w /\ e.type # "discount" THEN e.amount ELSE 0
<1>. DEFINE N(d) == {i \in Live(d) : d.concept[i].period = p /\ d.concept[i].payee = w}
            E(d) == {i \in Live(d) : /\ d.concept[i].period = p /\ d.concept[i].payee = w
                                     /\ d.concept[i].type # "discount"}
            n == Len(b.concept) + 1
<1>1. /\ c \in TypedBooks /\ e \in Entry /\ Live(c) = Live(b) \cup {n}
      /\ \A i \in Live(b) : c.concept[i] = b.concept[i]
      /\ c.concept[n] = e /\ n \notin Live(b) /\ e.amount \in Int
  <2>1. Live(b) \in SUBSET (1..Len(b.concept)) /\ DOMAIN b.concept = 1..Len(b.concept)
        /\ Len(b.concept) \in Nat
    BY BookRows
  <2>. QED BY <2>1 DEF WithConcept, Entry
<1>. HIDE DEF n
<1>2. ASSUME NEW I \in SUBSET Live(b)
      PROVE  /\ Total(c, I) = Total(b, I) /\ Total(b, I) \in Int
             /\ Total(c, I \cup {n}) = Total(b, I) + e.amount
  <2>1. I \in SUBSET Live(c) /\ n \notin I /\ n \in Live(c)
    BY <1>1
  <2>2. Total(c, I) = Total(b, I)
    BY <1>1, <2>1, TotalSame
  <2>3. Total(c, I \cup {n}) = Total(c, I) + c.concept[n].amount
    BY <1>1, <2>1, TotalAdd
  <2>. QED BY <1>1, <2>2, <2>3, TotalIs
<1>3. /\ N(c) = IF e.period = p /\ e.payee = w THEN N(b) \cup {n} ELSE N(b)
      /\ E(c) = IF e.period = p /\ e.payee = w /\ e.type # "discount" THEN E(b) \cup {n} ELSE E(b)
  BY <1>1
<1>4. N(b) \in SUBSET Live(b) /\ E(b) \in SUBSET Live(b)
  OBVIOUS
<1>5. Net(c, p, w) = Total(c, N(c)) /\ Net(b, p, w) = Total(b, N(b))
      /\ Earned(c, p, w) = Total(c, E(c)) /\ Earned(b, p, w) = Total(b, E(b))
  BY DEF Net, Earned
<1>. HIDE DEF N, E
<1>6. Net(c, p, w) = Net(b, p, w) + IF e.period = p /\ e.payee = w THEN e.amount ELSE 0
  <2>1. CASE e.period = p /\ e.payee = w
    BY <1>2, <1>3, <1>4, <1>5, <2>1
  <2>2. CASE ~(e.period = p /\ e.payee = w)
    <3>1. Total(c, N(b)) = Total(b, N(b)) /\ Total(b, N(b)) \in Int
      BY <1>2, <1>4
    <3>2. N(c) = N(b)
      BY <1>3, <2>2
    <3>. QED BY <1>5, <2>2, <3>1, <3>2
  <2>. QED BY <2>1, <2>2
<1>7. Earned(c, p, w) = Earned(b, p, w)
        + IF e.period = p /\ e.payee = w /\ e.type # "discount" THEN e.amount ELSE 0
  <2>1. CASE e.period = p /\ e.payee = w /\ e.type # "discount"
    BY <1>2, <1>3, <1>4, <1>5, <2>1
  <2>2. CASE ~(e.period = p /\ e.payee = w /\ e.type # "discount")
    <3>1. Total(c, E(b)) = Total(b, E(b)) /\ Total(b, E(b)) \in Int
      BY <1>2, <1>4
    <3>2. E(c) = E(b)
      BY <1>3, <2>2
    <3>. QED BY <1>5, <2>2, <3>1, <3>2
  <2>. QED BY <2>1, <2>2
<1>. QED BY <1>6, <1>7

LEMMA SealsKeepsBound ==
  ASSUME NEW b, Well(b), NEW c, Seals(b, c), Bound(b)
  PROVE  Bound(c)
<1>1. ASSUME NEW k \in Key, k[1] \in Sealed(b)
      PROVE  c.frozen[k] = b.frozen[k] /\ Earned(c, k[1], k[2]) = Earned(b, k[1], k[2])
  BY <1>1, SealedTotals DEF Seals
<1>2. Sealed(c) = Sealed(b) /\ c.paid = b.paid
  BY DEF Seals
<1>. QED BY <1>1, <1>2 DEF Bound

LEMMA SealsKeepsOrder ==
  ASSUME NEW b, Well(b), NEW c, Seals(b, c), InOrder(b)
  PROVE  InOrder(c)
<1>1. SUFFICES ASSUME NEW q \in Sealed(b) PROVE Explained(c, q) /\ Settled(c, q)
  BY DEF InOrder, Seals
<1>2. /\ c.period[q].status = b.period[q].status /\ c.paid = b.paid
      /\ \A k \in Key : k[1] = q => c.frozen[k] = b.frozen[k]
  BY <1>1 DEF Seals
<1>3. \A w : Net(c, q, w) = Net(b, q, w)
  BY <1>1, SealedTotals
<1>4. Explained(b, q) /\ Settled(b, q)
  BY <1>1 DEF InOrder
<1>. QED BY <1>2, <1>3, <1>4 DEF Explained, Settled

\* A commission, or a discount, in any period.
LEMMA WithConceptKeepsBound ==
  ASSUME NEW b, Well(b), NEW e, NEW c, WithConcept(b, c, e), Bound(b),
         e.type = "discount" \/ e.amount >= 0
  PROVE  Bound(c)
<1>1. b \in TypedBooks /\ e.amount \in Int
  BY DEF Well, WithConcept, Entry
<1>2. \A p, w : /\ Earned(b, p, w) \in Int /\ Earned(c, p, w) \in Int
                /\ Earned(c, p, w) >= Earned(b, p, w)
  <2>1. SUFFICES ASSUME NEW p, NEW w
                 PROVE  /\ Earned(b, p, w) \in Int /\ Earned(c, p, w) \in Int
                        /\ Earned(c, p, w) >= Earned(b, p, w)
    OBVIOUS
  <2>2. Earned(b, p, w) \in Int
    BY <1>1, NetIs
  <2>3. Earned(c, p, w) = Earned(b, p, w)
          + IF e.period = p /\ e.payee = w /\ e.type # "discount" THEN e.amount ELSE 0
    BY <1>1, WithConceptTotals
  <2>4. CASE e.period = p /\ e.payee = w /\ e.type # "discount"
    BY <1>1, <2>2, <2>3, <2>4
  <2>5. CASE ~(e.period = p /\ e.payee = w /\ e.type # "discount")
    BY <1>1, <2>2, <2>3, <2>5
  <2>. QED BY <2>4, <2>5
<1>3. Sealed(c) = Sealed(b) /\ c.frozen = b.frozen /\ c.paid = b.paid
  BY DEF WithConcept, Sealed
<1>4. \A k \in Key : b.frozen[k] \in Int /\ b.paid[k] \in Nat
  BY <1>1 DEF TypedBooks
<1>5. ASSUME NEW k \in Key, k[1] \in Sealed(c) PROVE c.frozen[k] <= Earned(c, k[1], k[2])
  <2>1. b.frozen[k] <= Earned(b, k[1], k[2])
    BY <1>3, <1>5 DEF Bound
  <2>. QED BY <1>2, <1>3, <1>4, <2>1
<1>6. ASSUME NEW k \in Key, c.paid[k] > 0
      PROVE  k[1] \in Sealed(c) /\ c.paid[k] <= Earned(c, k[1], k[2])
  <2>1. k[1] \in Sealed(b) /\ b.paid[k] <= Earned(b, k[1], k[2])
    BY <1>3, <1>6 DEF Bound
  <2>. QED BY <1>2, <1>3, <1>4, <2>1
<1>. QED BY <1>5, <1>6 DEF Bound

LEMMA WithConceptKeepsExplained ==
  ASSUME NEW b, Well(b), NEW e, NEW c, WithConcept(b, c, e), NEW q, Explained(b, q),
         e.period # q \/ e.amount <= 0
  PROVE  Explained(c, q)
<1>1. b \in TypedBooks /\ e.amount \in Int /\ c.frozen = b.frozen
  BY DEF Well, WithConcept, Entry
<1>2. ASSUME NEW k \in Key, k[1] = q PROVE Net(c, q, k[2]) <= c.frozen[k]
  <2>1. Net(b, q, k[2]) <= b.frozen[k] /\ Net(b, q, k[2]) \in Int /\ b.frozen[k] \in Int
    BY <1>1, <1>2, NetIs DEF Explained, TypedBooks
  <2>2. Net(c, q, k[2]) = Net(b, q, k[2])
          + IF e.period = q /\ e.payee = k[2] THEN e.amount ELSE 0
    BY <1>1, WithConceptTotals
  <2>3. CASE e.period = q /\ e.payee = k[2]
    BY <1>1, <2>1, <2>2, <2>3
  <2>4. CASE ~(e.period = q /\ e.payee = k[2])
    BY <1>1, <2>1, <2>2, <2>4
  <2>. QED BY <2>3, <2>4
<1>. QED BY <1>2 DEF Explained

LEMMA SameTotals ==
  ASSUME NEW b, Well(b), NEW c \in TypedBooks, c.concept = b.concept, NEW p, NEW w
  PROVE  Net(c, p, w) = Net(b, p, w) /\ Earned(c, p, w) = Earned(b, p, w)
<1>1. Live(c) = Live(b) /\ \A I : Total(c, I) = Total(b, I)
  BY DEF Live, Total
<1>. QED BY <1>1 DEF Net, Earned

LEMMA FreezeKeepsBound ==
  ASSUME NEW b, Well(b), Bound(b), DiscountsLower(b), NEW P
  PROVE  Bound(FreezeAll(b, P))
<1>. DEFINE c == FreezeAll(b, P)
<1>1. /\ c \in TypedBooks /\ c.period = b.period /\ c.concept = b.concept /\ c.paid = b.paid
      /\ \A k \in Key : c.frozen[k] = IF k[1] \in P THEN Net(b, k[1], k[2]) ELSE b.frozen[k]
  BY FreezeIs
<1>. HIDE DEF c
<1>2. Sealed(c) = Sealed(b)
  BY <1>1 DEF Sealed
<1>3. \A p, w : Earned(c, p, w) = Earned(b, p, w)
  BY <1>1, SameTotals
<1>4. \A p, w : Net(b, p, w) <= Earned(b, p, w)
  BY NetAtMostEarned DEF Well
<1>5. Bound(c)
  BY <1>1, <1>2, <1>3, <1>4 DEF Bound
<1>. QED BY <1>5 DEF c

LEMMA FreezeExplains ==
  ASSUME NEW b, Well(b), NEW P, NEW q, q \in P \/ Explained(b, q)
  PROVE  Explained(FreezeAll(b, P), q)
<1>. DEFINE c == FreezeAll(b, P)
<1>1. /\ c \in TypedBooks /\ c.concept = b.concept
      /\ \A k \in Key : c.frozen[k] = IF k[1] \in P THEN Net(b, k[1], k[2]) ELSE b.frozen[k]
  BY FreezeIs
<1>. HIDE DEF c
<1>2. \A w : Net(c, q, w) = Net(b, q, w) /\ Net(b, q, w) \in Int
  BY <1>1, SameTotals, NetIs DEF Well
<1>3. Explained(c, q)
  BY <1>1, <1>2 DEF Explained
<1>. QED BY <1>3 DEF c

LEMMA SettleKeeps ==
  ASSUME NEW b, Well(b), Bound(b), NEW p, p \in Sealed(b)
  PROVE  /\ Bound(SettleRemaining(b, p)) /\ Settled(SettleRemaining(b, p), p)
         /\ \A q : Explained(b, q) => Explained(SettleRemaining(b, p), q)
         /\ \A q : q # p => (Settled(b, q) => Settled(SettleRemaining(b, p), q))
<1>. DEFINE c == SettleRemaining(b, p)
<1>1. /\ c \in TypedBooks /\ c.period = b.period /\ c.concept = b.concept /\ c.frozen = b.frozen
      /\ \A k \in Key : c.paid[k] = IF k[1] = p /\ b.frozen[k] > b.paid[k] THEN b.frozen[k]
                                    ELSE b.paid[k]
  BY SettleIs
<1>. HIDE DEF c
<1>2. Sealed(c) = Sealed(b)
  BY <1>1 DEF Sealed
<1>3. \A q, w : Earned(c, q, w) = Earned(b, q, w) /\ Net(c, q, w) = Net(b, q, w)
  BY <1>1, SameTotals
<1>4. \A k \in Key : b.frozen[k] \in Int /\ b.paid[k] \in Nat
  BY DEF Well, TypedBooks
<1>5. Bound(c)
  <2>1. \A k \in Key : k[1] \in Sealed(c) => c.frozen[k] <= Earned(c, k[1], k[2])
    BY <1>1, <1>2, <1>3 DEF Bound
  <2>2. ASSUME NEW k \in Key, c.paid[k] > 0
        PROVE  k[1] \in Sealed(c) /\ c.paid[k] <= Earned(c, k[1], k[2])
    <3>1. CASE k[1] = p /\ b.frozen[k] > b.paid[k]
      BY <1>1, <1>2, <1>3, <3>1 DEF Bound
    <3>2. CASE ~(k[1] = p /\ b.frozen[k] > b.paid[k])
      BY <1>1, <1>2, <1>3, <2>2, <3>2 DEF Bound
    <3>. QED BY <3>1, <3>2
  <2>. QED BY <2>1, <2>2 DEF Bound
<1>6. Settled(c, p)
  BY <1>1, <1>4 DEF Settled
<1>7. \A q : Explained(b, q) => Explained(c, q)
  BY <1>1, <1>3 DEF Explained
<1>8. \A q : q # p => (Settled(b, q) => Settled(c, q))
  BY <1>1 DEF Settled
<1>. QED BY <1>5, <1>6, <1>7, <1>8 DEF c

-----------------------------------------------------------------------------
(* Charging *)

\* The first day of the payroll stays.
SameFirstDay(b, c) ==
  /\ \A date \in Nat : ~BeforeActivation(b, date) => ~BeforeActivation(c, date)
  /\ b.period # <<>> => \A date \in Nat : BeforeActivation(b, date) => BeforeActivation(c, date)

LEMMA NeverBefore ==
  ASSUME NEW b, Well(b), NEW date \in Nat
  PROVE  ~BeforeActivation(b, date) <=> \E p \in DOMAIN b.period : b.period[p].startsAt <= date
<1>1. \A p \in DOMAIN b.period : b.period[p].startsAt \in Nat
  BY BookRows, PeriodRowFields DEF Well
<1>2. b.period = <<>> => DOMAIN b.period = {}
  OBVIOUS
<1>. QED BY <1>1, <1>2 DEF BeforeActivation

LEMMA EnsuredFirstDay ==
  ASSUME NEW b, Well(b), NEW c, Ensured(b, c), NEW date \in Nat
  PROVE  /\ ~BeforeActivation(b, date) => ~BeforeActivation(c, date)
         /\ b.period # <<>> /\ BeforeActivation(b, date) => BeforeActivation(c, date)
<1>1. CASE c = b
  BY <1>1
<1>2. ASSUME NEW row \in PeriodRow, NewPeriod(b, c, row), row.status = "open",
             row.endsAt = row.startsAt + Length[row.frequency] - 1,
             b.period # <<>> =>
               \E last \in DOMAIN b.period : row.startsAt > b.period[last].endsAt
      PROVE  /\ ~BeforeActivation(b, date) => ~BeforeActivation(c, date)
             /\ b.period # <<>> /\ BeforeActivation(b, date) => BeforeActivation(c, date)
  <2>1. PICK N : N = Len(b.period)
    OBVIOUS
  <2>2. /\ N \in Nat /\ DOMAIN b.period = 1..N /\ DOMAIN c.period = 1..(N + 1)
        /\ c.period[N + 1] = row
        /\ \A p \in 1..N : c.period[p].startsAt = b.period[p].startsAt
    BY <1>2, <2>1, NewPeriodRows
  <2>3. Well(c) /\ row.startsAt \in Nat
    BY <1>2, NewPeriodIsWell, PeriodRowFields
  <2>4. ASSUME NEW last \in 1..N, row.startsAt > b.period[last].endsAt
        PROVE  row.startsAt > b.period[last].startsAt /\ b.period[last].startsAt \in Nat
    <3>1. /\ b.period[last] \in PeriodRow
          /\ b.period[last].endsAt
             = b.period[last].startsAt + Length[b.period[last].frequency] - 1
      BY <2>2, BookRows DEF Well
    <3>. QED BY <2>3, <2>4, <3>1, PeriodRowFields
  <2>5. ~BeforeActivation(b, date) => ~BeforeActivation(c, date)
    BY <2>2, <2>3, NeverBefore
  <2>6. b.period # <<>> /\ BeforeActivation(b, date) => BeforeActivation(c, date)
    <3>1. SUFFICES ASSUME b.period # <<>>, ~BeforeActivation(c, date)
                   PROVE  \E p \in 1..N : b.period[p].startsAt <= date
      BY <2>2, NeverBefore
    <3>2. PICK p \in 1..(N + 1) : c.period[p].startsAt <= date
      BY <2>2, <2>3, <3>1, NeverBefore
    <3>3. CASE p \in 1..N
      BY <2>2, <3>2, <3>3
    <3>4. CASE p = N + 1
      <4>1. PICK last \in 1..N : row.startsAt > b.period[last].endsAt
        BY <1>2, <2>2, <3>1
      <4>2. row.startsAt > b.period[last].startsAt /\ b.period[last].startsAt \in Nat
        BY <2>4, <4>1
      <4>. QED BY <2>2, <2>3, <3>2, <3>4, <4>2
    <3>. QED BY <2>2, <3>3, <3>4
  <2>. QED BY <2>5, <2>6
<1>. QED BY <1>1, <1>2 DEF Ensured

\* c is b with its open period, the one it had or a new one.
Opened(b, c) ==
  /\ Seals(b, c) /\ Well(c) /\ c.concept = b.concept
  /\ SameFirstDay(b, c)
  /\ Chained(b) => Chained(c)
  /\ OpenPeriod(c) \in DOMAIN c.period /\ c.period[OpenPeriod(c)].status = "open"

LEMMA EnsuredIsOpened ==
  ASSUME NEW b, Well(b), NEW f \in Frequency, NEW date \in Nat
  PROVE  Opened(b, EnsureOpenFor(b, f, date))
<1>. DEFINE c == EnsureOpenFor(b, f, date)
<1>1. Ensured(b, c)
  BY EnsureOpenIs
<1>. HIDE DEF c
<1>2. Well(c) /\ OpenPeriods(c) # {} /\ c.concept = b.concept /\ Seals(b, c)
  BY <1>1, EnsuredIsWell, EnsuredSeals
<1>3. Chained(b) => Chained(c)
  BY <1>1, EnsuredIsChained
<1>4. OpenPeriod(c) \in DOMAIN c.period /\ c.period[OpenPeriod(c)].status = "open"
  BY <1>2, OpenPeriodIs
<1>5. SameFirstDay(b, c)
  BY <1>1, EnsuredFirstDay DEF SameFirstDay
<1>6. Opened(b, c)
  BY <1>2, <1>3, <1>4, <1>5 DEF Opened
<1>. QED BY <1>6 DEF c

Configured == config \in Frequency \cup {None} /\ now \in Nat

LEMMA EnsureOpens ==
  ASSUME NEW b, Well(b), NEW date \in Nat, Configured
  PROVE  Opened(b, EnsureOpen(b, date))
<1>1. frequencyNow \in Frequency
  BY PayrollAssumption DEF Configured, frequencyNow
<1>. QED BY <1>1, EnsuredIsOpened DEF EnsureOpen

LEMMA LatestHoldingIs ==
  ASSUME NEW b, Well(b), NEW date \in Nat, Holding(b, date) # {}
  PROVE  LatestHolding(b, date) \in DOMAIN b.period
<1>. DEFINE N == Len(b.period)
            f == [p \in 1..N |-> IF p \in Holding(b, date) THEN b.period[p].startsAt ELSE -1]
<1>1. N \in Nat /\ DOMAIN b.period = 1..N /\ \A p \in 1..N : b.period[p].startsAt \in Nat
  BY BookRows, PeriodRowFields DEF Well
<1>2. Holding(b, date) \subseteq 1..N
  BY <1>1 DEF Holding
<1>3. N >= 1
  BY <1>1, <1>2
<1>. DEFINE Highest(p) == \A q \in 1..N : f[q] < f[p] \/ (f[q] = f[p] /\ q <= p)
<1>0. \A q \in 1..N : f[q] \in Int
  BY <1>1
<1>4. PICK p \in 1..N : Highest(p) /\ \A q \in 1..N : f[q] <= f[p]
  <2>. HIDE DEF N, f
  <2>1. PICK p \in 1..N : Highest(p)
    BY <1>0, <1>1, <1>3, LastLargest
  <2>2. \A q \in 1..N : f[q] <= f[p]
    BY <1>0, <2>1
  <2>. QED BY <2>1, <2>2
<1>. HIDE DEF Highest
<1>5. p \in Holding(b, date)
  <2>1. PICK q \in Holding(b, date) : TRUE
    OBVIOUS
  <2>2. q \in 1..N /\ f[q] \in Nat
    BY <1>1, <1>2, <2>1
  <2>3. f[p] >= 0 /\ f[p] # -1
    <3>1. f[q] <= f[p] /\ f[p] \in Int
      BY <1>0, <1>4, <2>2
    <3>. QED BY <2>2, <3>1
  <2>. QED BY <2>3
<1>6. \A q \in Holding(b, date) : b.period[q].startsAt <= b.period[p].startsAt
  <2>1. SUFFICES ASSUME NEW q \in Holding(b, date)
                 PROVE  b.period[q].startsAt <= b.period[p].startsAt
    OBVIOUS
  <2>2. q \in 1..N /\ f[q] = b.period[q].startsAt /\ f[p] = b.period[p].startsAt
    BY <1>2, <1>5
  <2>3. f[q] <= f[p]
    BY <1>4, <2>2
  <2>. QED BY <2>2, <2>3
<1>7. LatestHolding(b, date) \in Holding(b, date)
  BY <1>5, <1>6 DEF LatestHolding
<1>. QED BY <1>1, <1>2, <1>7

LEMMA TargetIs ==
  ASSUME NEW b, Well(b), NEW date \in Nat, NEW choice, Configured,
         NEW t, t = Target(b, date, choice)
  PROVE  /\ Well(t.books) /\ Seals(b, t.books) /\ t.books.concept = b.concept
         /\ Chained(b) => Chained(t.books)
         /\ t.period \in DOMAIN t.books.period
         /\ t.past = (t.books.period[t.period].status # "open")
<1>1. ASSUME NEW d \in Nat, NEW o, o = EnsureOpen(b, d),
             t = [books |-> o, period |-> OpenPeriod(o), past |-> FALSE]
      PROVE  /\ Well(t.books) /\ Seals(b, t.books) /\ t.books.concept = b.concept
             /\ Chained(b) => Chained(t.books)
             /\ t.period \in DOMAIN t.books.period
             /\ t.past = (t.books.period[t.period].status # "open")
  <2>1. Opened(b, o)
    BY <1>1, EnsureOpens
  <2>2. t.books = o /\ t.period = OpenPeriod(o) /\ t.past = FALSE
    BY <1>1
  <2>. QED BY <2>1, <2>2 DEF Opened
<1>2. CASE Holding(b, date) = {}
  BY <1>1, <1>2 DEF Target
<1>3. CASE Holding(b, date) # {}
  <2>. DEFINE p == LatestHolding(b, date)
  <2>1. p \in DOMAIN b.period
    BY <1>3, LatestHoldingIs
  <2>2. CASE b.period[p].status = "open" \/ choice = "past"
    <3>1. t = [books |-> b, period |-> p, past |-> b.period[p].status # "open"]
      BY <1>3, <2>2 DEF Target
    <3>. QED BY <2>1, <3>1, SealsItself
  <2>3. CASE ~(b.period[p].status = "open" \/ choice = "past")
    <3>1. t = [books |-> EnsureOpen(b, now), period |-> OpenPeriod(EnsureOpen(b, now)),
               past |-> FALSE]
      BY <1>3, <2>3 DEF Target
    <3>2. now \in Nat
      BY DEF Configured
    <3>. QED BY <1>1, <3>1, <3>2
  <2>. QED BY <2>2, <2>3
<1>. QED BY <1>2, <1>3

CommissionOf(a, amount, p) ==
  [type |-> "commission", amount |-> amount, payee |-> WorkerOf[a], period |-> p, source |-> a]
DiscountOf(a, amount, p) ==
  [type |-> "discount", amount |-> -amount, payee |-> WorkerOf[a], period |-> p, source |-> a]
HasA(b, a, type) ==
  \E i \in Live(b) : b.concept[i].type = type /\ b.concept[i].source = a

LEMMA RecordsOnce ==
  ASSUME NEW b \in TypedBooks, NEW a \in Appointment, NEW amount \in Int, NEW p \in Nat \ {0},
         NEW date
  PROVE  /\ \/ /\ RecordCommission(b, a, amount, p, date) = b
               /\ BeforeActivation(b, date) \/ HasA(b, a, "commission")
            \/ /\ WithConcept(b, RecordCommission(b, a, amount, p, date),
                              CommissionOf(a, amount, p))
               /\ ~BeforeActivation(b, date)
         /\ \/ /\ RecordDiscount(b, a, amount, p, date) = b
               /\ BeforeActivation(b, date) \/ amount = 0 \/ HasA(b, a, "discount")
            \/ /\ WithConcept(b, RecordDiscount(b, a, amount, p, date),
                              DiscountOf(a, amount, p))
               /\ ~BeforeActivation(b, date) /\ amount # 0
<1>1. CommissionOf(a, amount, p) \in Entry /\ DiscountOf(a, amount, p) \in Entry
  BY PayrollAssumption DEF CommissionOf, DiscountOf, Entry, ConceptType
<1>2. \/ /\ RecordCommission(b, a, amount, p, date) = b
         /\ BeforeActivation(b, date) \/ HasA(b, a, "commission")
      \/ /\ WithConcept(b, RecordCommission(b, a, amount, p, date), CommissionOf(a, amount, p))
         /\ ~BeforeActivation(b, date)
  <2>1. CASE BeforeActivation(b, date)
    BY <2>1 DEF RecordCommission
  <2>2. CASE ~BeforeActivation(b, date)
    <3>1. RecordCommission(b, a, amount, p, date) = Record(b, CommissionOf(a, amount, p))
      BY <2>2 DEF RecordCommission, CommissionOf
    <3>2. CommissionOf(a, amount, p).type = "commission" /\ CommissionOf(a, amount, p).source = a
      BY DEF CommissionOf
    <3>. QED BY <1>1, <2>2, <3>1, <3>2, RecordIs DEF HasA
  <2>. QED BY <2>1, <2>2
<1>3. \/ /\ RecordDiscount(b, a, amount, p, date) = b
         /\ BeforeActivation(b, date) \/ amount = 0 \/ HasA(b, a, "discount")
      \/ /\ WithConcept(b, RecordDiscount(b, a, amount, p, date), DiscountOf(a, amount, p))
         /\ ~BeforeActivation(b, date) /\ amount # 0
  <2>1. CASE BeforeActivation(b, date) \/ amount = 0
    BY <2>1 DEF RecordDiscount
  <2>2. CASE ~(BeforeActivation(b, date) \/ amount = 0)
    <3>1. RecordDiscount(b, a, amount, p, date) = Record(b, DiscountOf(a, amount, p))
      BY <2>2 DEF RecordDiscount, DiscountOf
    <3>2. DiscountOf(a, amount, p).type = "discount" /\ DiscountOf(a, amount, p).source = a
      BY DEF DiscountOf
    <3>. QED BY <1>1, <2>2, <3>1, <3>2, RecordIs DEF HasA
  <2>. QED BY <2>1, <2>2
<1>. QED BY <1>2, <1>3

\* A concept in a period, perhaps an approved one: what it leaves in order.
LEMMA RecordKeeps ==
  ASSUME NEW b, Well(b), DiscountsLower(b), Bound(b), NEW e, NEW c,
         c = b \/ WithConcept(b, c, e), e.period \in DOMAIN b.period,
         \/ e.type = "commission" /\ e.amount >= 0
         \/ e.type = "discount" /\ e.amount <= 0
  PROVE  /\ Well(c) /\ DiscountsLower(c) /\ Bound(c) /\ c.period = b.period
         /\ \A q : Settled(b, q) => Settled(c, q)
         /\ \A q : Explained(b, q) /\ (q # e.period \/ e.amount <= 0) => Explained(c, q)
<1>1. CASE c = b
  BY <1>1
<1>2. CASE WithConcept(b, c, e)
  <2>1. Well(c) /\ Bound(c)
    BY <1>2, WithConceptIsWell, WithConceptKeepsBound
  <2>2. c.period = b.period /\ c.frozen = b.frozen /\ c.paid = b.paid
    BY <1>2 DEF WithConcept
  <2>3. DiscountsLower(c)
    <3>1. Live(b) \subseteq DOMAIN b.concept
      BY DEF Live
    <3>. QED BY <1>2, <3>1 DEF DiscountsLower, WithConcept
  <2>4. \A q : Settled(b, q) => Settled(c, q)
    BY <2>2 DEF Settled
  <2>5. \A q : Explained(b, q) /\ (q # e.period \/ e.amount <= 0) => Explained(c, q)
    BY <1>2, WithConceptKeepsExplained
  <2>. QED BY <2>1, <2>2, <2>3, <2>4, <2>5
<1>. QED BY <1>1, <1>2

LEMMA MinIs ==
  ASSUME NEW x \in Nat, NEW y \in Nat
  PROVE  Min2(x, y) \in Nat /\ Min2(x, y) <= y /\ (x = 0 => Min2(x, y) = 0)
         /\ (Min2(x, y) = 0 /\ y # 0 => x = 0)
BY DEF Min2

LEMMA AttributedIs ==
  ASSUME NEW t, NEW b, b = t.books, Well(b), DiscountsLower(b), Bound(b),
         NEW p, p = t.period, p \in DOMAIN b.period, t.past = (b.period[p].status # "open"),
         NEW a \in Appointment, NEW date, NEW amount \in Commission, NEW discount \in Discount,
         NEW writes \in 0..4, NEW c, c = AttributedBooks(t, a, date, amount, discount, writes)
  PROVE  /\ Well(c) /\ DiscountsLower(c) /\ Bound(c) /\ c.period = b.period
         /\ writes = 4 /\ InOrder(b) => InOrder(c)
         /\ \E u, v :
              /\ u = IF writes < 1 THEN b ELSE RecordCommission(b, a, amount, p, date)
              /\ Well(u) /\ u.period = b.period
              /\ Well(v) /\ v.concept = u.concept /\ v.period = b.period
              /\ c = IF writes < 4 THEN v
                     ELSE RecordDiscount(v, a, Min2(discount, amount), p, date)
<1>. DEFINE e1 == CommissionOf(a, amount, p)
            e4 == DiscountOf(a, Min2(discount, amount), p)
            b1 == IF writes < 1 THEN b ELSE RecordCommission(b, a, amount, p, date)
            b2 == IF writes < 2 \/ ~t.past THEN b1 ELSE FreezeTotals(b1, p)
            b3 == IF writes < 3 \/ ~t.past \/ b.period[p].status # "closed"
                  THEN b2 ELSE SettleRemaining(b2, p)
            b4 == IF writes < 4 THEN b3
                  ELSE RecordDiscount(b3, a, Min2(discount, amount), p, date)
<1>1. c = b4
  BY DEF AttributedBooks
<1>2. /\ amount \in Nat /\ amount # 0 /\ discount \in Nat /\ p \in Nat \ {0}
      /\ Min2(discount, amount) \in Nat
  <2>1. amount \in Nat /\ amount # 0 /\ discount \in Nat
    BY PayrollAssumption
  <2>2. p \in Nat \ {0}
    BY BookRows DEF Well
  <2>. QED BY <2>1, <2>2, MinIs
<1>3. /\ e1.type = "commission" /\ e1.amount >= 0 /\ e1.period = p
      /\ e4.type = "discount" /\ e4.amount <= 0 /\ e4.period = p
  BY <1>2 DEF CommissionOf, DiscountOf
<1>. HIDE DEF e1, e4
<1>4. /\ Well(b1) /\ DiscountsLower(b1) /\ Bound(b1) /\ b1.period = b.period
      /\ \A q : Settled(b, q) => Settled(b1, q)
      /\ \A q : Explained(b, q) /\ q # p => Explained(b1, q)
  <2>1. b1 = b \/ WithConcept(b, b1, e1)
    BY <1>2, RecordsOnce DEF Well, e1
  <2>. HIDE DEF b1
  <2>. QED BY <1>3, <2>1, RecordKeeps
<1>. HIDE DEF b1
<1>5. /\ Well(b2) /\ DiscountsLower(b2) /\ Bound(b2) /\ b2.period = b.period
      /\ b2.concept = b1.concept
      /\ \A q : Settled(b, q) /\ q # p => Settled(b2, q)
      /\ \A q : Explained(b, q) /\ q # p => Explained(b2, q)
      /\ writes = 4 /\ t.past => Explained(b2, p)
  <2>1. CASE writes < 2 \/ ~t.past
    BY <1>4, <2>1
  <2>2. CASE ~(writes < 2 \/ ~t.past)
    <3>1. b2 = FreezeAll(b1, {p})
      BY <2>2 DEF FreezeTotals
    <3>. HIDE DEF b2
    <3>2. /\ b2 \in TypedBooks /\ b2.period = b1.period /\ b2.concept = b1.concept
          /\ b2.paid = b1.paid
          /\ \A k \in Key : b2.frozen[k]
                = IF k[1] \in {p} THEN Net(b1, k[1], k[2]) ELSE b1.frozen[k]
      BY <1>4, <3>1, FreezeIs
    <3>3. Well(b2) /\ Live(b2) = Live(b1)
      BY <1>4, <3>2, SamePeriodsIsWell
    <3>4. Bound(b2) /\ \A q : q = p \/ Explained(b1, q) => Explained(b2, q)
      BY <1>4, <3>1, FreezeKeepsBound, FreezeExplains
    <3>5. DiscountsLower(b2)
      BY <1>4, <3>2, <3>3 DEF DiscountsLower
    <3>6. \A q : Settled(b, q) /\ q # p => Settled(b2, q)
      BY <1>4, <3>2 DEF Settled
    <3>. QED BY <1>4, <3>2, <3>3, <3>4, <3>5, <3>6
  <2>. QED BY <2>1, <2>2
<1>. HIDE DEF b2
<1>6. /\ Well(b3) /\ DiscountsLower(b3) /\ Bound(b3) /\ b3.period = b.period
      /\ b3.concept = b1.concept
      /\ \A q : Settled(b, q) /\ q # p => Settled(b3, q)
      /\ \A q : Explained(b, q) /\ q # p => Explained(b3, q)
      /\ writes = 4 /\ t.past => Explained(b3, p) /\ Settled(b3, p)
  <2>1. CASE writes < 3 \/ ~t.past \/ b.period[p].status # "closed"
    <3>1. b3 = b2
      BY <2>1
    <3>. HIDE DEF b3
    <3>2. writes = 4 /\ t.past => b.period[p].status # "closed"
      BY <2>1
    <3>3. b.period[p].status # "closed" => Settled(b2, p)
      BY <1>5 DEF Settled
    <3>. QED BY <1>5, <3>1, <3>2, <3>3
  <2>2. CASE ~(writes < 3 \/ ~t.past \/ b.period[p].status # "closed")
    <3>1. b3 = SettleRemaining(b2, p)
      BY <2>2
    <3>2. p \in Sealed(b2)
      BY <1>5, <2>2 DEF Sealed, Frozen
    <3>. HIDE DEF b3
    <3>3. /\ b3 \in TypedBooks /\ b3.period = b2.period /\ b3.concept = b2.concept
      BY <1>5, <3>1, SettleIs
    <3>4. Well(b3) /\ Live(b3) = Live(b2)
      BY <1>5, <3>3, SamePeriodsIsWell
    <3>5. DiscountsLower(b3)
      BY <1>5, <3>3, <3>4 DEF DiscountsLower
    <3>6. /\ Bound(b3) /\ Settled(b3, p)
          /\ \A q : Explained(b2, q) => Explained(b3, q)
          /\ \A q : q # p => (Settled(b2, q) => Settled(b3, q))
      BY <1>5, <3>1, <3>2, SettleKeeps
    <3>. QED BY <1>5, <3>3, <3>4, <3>5, <3>6
  <2>. QED BY <2>1, <2>2
<1>. HIDE DEF b3
<1>7. /\ Well(b4) /\ DiscountsLower(b4) /\ Bound(b4) /\ b4.period = b.period
      /\ \A q : Settled(b3, q) => Settled(b4, q)
      /\ \A q : Explained(b3, q) => Explained(b4, q)
  <2>1. b4 = b3 \/ WithConcept(b3, b4, e4)
    BY <1>2, <1>6, RecordsOnce DEF Well, e4
  <2>. HIDE DEF b4
  <2>. QED BY <1>3, <1>6, <2>1, RecordKeeps
<1>8. writes = 4 /\ InOrder(b) => InOrder(b4)
  <2>1. SUFFICES ASSUME writes = 4, InOrder(b), NEW q \in Sealed(b4)
                 PROVE  Explained(b4, q) /\ Settled(b4, q)
    BY DEF InOrder
  <2>2. q \in Sealed(b)
    BY <1>7, <2>1 DEF Sealed
  <2>3. CASE q # p
    BY <1>6, <1>7, <2>1, <2>2, <2>3 DEF InOrder
  <2>4. CASE q = p
    <3>1. t.past
      BY <2>2, <2>4 DEF Sealed, Frozen
    <3>. QED BY <1>6, <1>7, <2>1, <2>4, <3>1
  <2>. QED BY <2>3, <2>4
<1>9. /\ b1 = IF writes < 1 THEN b ELSE RecordCommission(b, a, amount, p, date)
      /\ Well(b1) /\ b1.period = b.period
      /\ Well(b3) /\ b3.concept = b1.concept /\ b3.period = b.period
      /\ c = IF writes < 4 THEN b3
             ELSE RecordDiscount(b3, a, Min2(discount, amount), p, date)
  BY <1>1, <1>4, <1>6 DEF b1
<1>. HIDE DEF b4
<1>. QED BY <1>1, <1>7, <1>8, <1>9

\* The concepts of c are those of b and one more.
Noted(b, c, e) ==
  /\ e \in Entry
  /\ Len(c.concept) = Len(b.concept) + 1
  /\ Live(c) = Live(b) \cup {Len(b.concept) + 1}
  /\ \A i \in Live(b) : c.concept[i] = b.concept[i]
  /\ c.concept[Len(b.concept) + 1] = e

LEMMA SameLive ==
  ASSUME NEW b, NEW c, c.concept = b.concept
  PROVE  Live(c) = Live(b)
BY DEF Live

LEMMA WithConceptNotes ==
  ASSUME NEW b, NEW o, o.concept = b.concept, NEW e, NEW c, WithConcept(o, c, e)
  PROVE  Noted(b, c, e)
<1>1. Live(o) = Live(b) /\ Live(b) \subseteq DOMAIN b.concept
  BY SameLive DEF Live
<1>. QED BY <1>1 DEF Noted, WithConcept

\* What a charge of a writes: at most its commission, and then its discount.
ChargeWrites(b, c, a) ==
  \E u \in TypedBooks :
    /\ \/ u.concept = b.concept
       \/ \E e \in Entry : e.type = "commission" /\ e.source = a /\ Noted(b, u, e)
    /\ \/ c.concept = u.concept
       \/ \E e \in Entry : e.type = "discount" /\ e.source = a /\ Noted(u, c, e)

LEMMA AttributedWrites ==
  ASSUME NEW t, NEW b, b = t.books, Well(b), DiscountsLower(b), Bound(b),
         NEW p, p = t.period, p \in DOMAIN b.period, t.past = (b.period[p].status # "open"),
         NEW a \in Appointment, NEW date, NEW amount \in Commission, NEW discount \in Discount,
         NEW writes \in 0..4, NEW c, c = AttributedBooks(t, a, date, amount, discount, writes)
  PROVE  /\ ChargeWrites(b, c, a)
         /\ /\ writes = 4 /\ ~BeforeActivation(b, date)
            /\ ~HasA(b, a, "commission") /\ ~HasA(b, a, "discount")
            => \E u \in TypedBooks :
                 /\ Noted(b, u, CommissionOf(a, amount, p))
                 /\ \/ discount = 0 /\ c.concept = u.concept
                    \/ Noted(u, c, DiscountOf(a, Min2(discount, amount), p))
<1>. DEFINE e1 == CommissionOf(a, amount, p)
            e4 == DiscountOf(a, Min2(discount, amount), p)
<1>1. /\ amount \in Nat /\ amount # 0 /\ discount \in Nat /\ p \in Nat \ {0}
      /\ Min2(discount, amount) \in Nat
      /\ (Min2(discount, amount) = 0 => discount = 0)
  <2>1. amount \in Nat /\ amount # 0 /\ discount \in Nat
    BY PayrollAssumption
  <2>2. p \in Nat \ {0}
    BY BookRows DEF Well
  <2>. QED BY <2>1, <2>2, MinIs
<1>2. PICK u, v :
        /\ u = IF writes < 1 THEN b ELSE RecordCommission(b, a, amount, p, date)
        /\ Well(u) /\ u.period = b.period
        /\ Well(v) /\ v.concept = u.concept /\ v.period = b.period
        /\ c = IF writes < 4 THEN v ELSE RecordDiscount(v, a, Min2(discount, amount), p, date)
  BY AttributedIs
<1>3. /\ e1.type = "commission" /\ e1.source = a /\ e4.type = "discount" /\ e4.source = a
  BY DEF CommissionOf, DiscountOf
<1>4. \/ u = b /\ (writes < 1 \/ BeforeActivation(b, date) \/ HasA(b, a, "commission"))
      \/ WithConcept(b, u, e1)
  BY <1>1, <1>2, RecordsOnce DEF Well
<1>5. \/ c = v /\ (writes < 4 \/ BeforeActivation(v, date) \/ Min2(discount, amount) = 0
                   \/ HasA(v, a, "discount"))
      \/ WithConcept(v, c, e4)
  BY <1>1, <1>2, RecordsOnce DEF Well
<1>. HIDE DEF e1, e4
<1>6. WithConcept(b, u, e1) => Noted(b, u, e1) /\ e1 \in Entry
  <2>1. WithConcept(b, u, e1) => Noted(b, u, e1)
    BY b.concept = b.concept, WithConceptNotes
  <2>. QED BY <2>1 DEF Noted
<1>7. WithConcept(v, c, e4) => Noted(u, c, e4) /\ e4 \in Entry
  <2>1. WithConcept(v, c, e4) => Noted(u, c, e4)
    BY <1>2, WithConceptNotes
  <2>. QED BY <2>1 DEF Noted
<1>8. u \in TypedBooks
  BY <1>2 DEF Well
<1>9. ChargeWrites(b, c, a)
  BY <1>2, <1>3, <1>4, <1>5, <1>6, <1>7, <1>8 DEF ChargeWrites
<1>10. ASSUME writes = 4, ~BeforeActivation(b, date), ~HasA(b, a, "commission"),
              ~HasA(b, a, "discount")
       PROVE  /\ Noted(b, u, e1)
              /\ (discount = 0 /\ c.concept = u.concept) \/ Noted(u, c, e4)
  <2>1. Noted(b, u, e1)
    BY <1>4, <1>6, <1>10
  <2>2. BeforeActivation(v, date) <=> BeforeActivation(b, date)
    BY <1>2 DEF BeforeActivation
  <2>3. ~HasA(v, a, "discount")
    <3>1. Live(v) = Live(u)
      BY <1>2, SameLive
    <3>2. Len(b.concept) + 1 \notin Live(b)
      BY BookRows DEF Well
    <3>. QED BY <1>2, <1>3, <1>10, <2>1, <3>1, <3>2 DEF HasA, Noted
  <2>. QED BY <1>1, <1>2, <1>5, <1>7, <1>10, <2>1, <2>2, <2>3
<1>. QED BY <1>8, <1>9, <1>10 DEF e1, e4

\* A commission that goes to the period open on its day.
LEMMA CommissionInOpen ==
  ASSUME NEW b, Well(b), NEW o, Opened(b, o), NEW a \in Appointment, NEW amount \in Commission,
         NEW date, NEW c, c = RecordCommission(o, a, amount, OpenPeriod(o), date)
  PROVE  /\ Well(c) /\ Seals(b, c) /\ (Chained(b) => Chained(c)) /\ c.period = o.period
         /\ \/ c = o /\ (BeforeActivation(o, date) \/ HasA(b, a, "commission"))
            \/ Noted(b, c, CommissionOf(a, amount, OpenPeriod(o)))
<1>. DEFINE p == OpenPeriod(o)
            e == CommissionOf(a, amount, p)
<1>1. Well(o) /\ Seals(b, o) /\ o.concept = b.concept /\ (Chained(b) => Chained(o))
      /\ p \in DOMAIN o.period /\ o.period[p].status = "open"
  BY DEF Opened
<1>2. amount \in Int /\ p \in Nat \ {0} /\ p \notin Sealed(o)
  <2>. HIDE DEF p
  <2>1. amount \in Int
    BY PayrollAssumption
  <2>2. p \in Nat \ {0}
    BY <1>1, BookRows DEF Well
  <2>3. p \notin Sealed(o)
    BY <1>1 DEF Sealed, Frozen
  <2>. QED BY <2>1, <2>2, <2>3
<1>3. \/ c = o /\ (BeforeActivation(o, date) \/ HasA(o, a, "commission"))
      \/ WithConcept(o, c, e)
  <2>1. o \in TypedBooks
    BY <1>1 DEF Well
  <2>. HIDE DEF e, p
  <2>2. \/ c = o /\ (BeforeActivation(o, date) \/ HasA(o, a, "commission"))
        \/ WithConcept(o, c, CommissionOf(a, amount, p))
    <3>1. c = RecordCommission(o, a, amount, p, date)
      BY DEF p
    <3>. QED BY <1>2, <2>1, <3>1, RecordsOnce
  <2>. QED BY <2>2 DEF e
<1>4. HasA(o, a, "commission") => HasA(b, a, "commission")
  BY <1>1, SameLive DEF HasA
<1>5. e.period = p
  BY DEF CommissionOf
<1>. HIDE DEF e, p
<1>6. CASE c = o
  BY <1>1, <1>3, <1>4, <1>6, WithConceptNotes DEF e, p
<1>7. CASE WithConcept(o, c, e)
  <2>1. Well(c) /\ Seals(o, c)
    BY <1>1, <1>2, <1>5, <1>7, WithConceptIsWell, WithConceptSeals
  <2>2. Seals(b, c)
    BY <1>1, <2>1, SealsOn
  <2>3. c.period = o.period
    BY <1>7 DEF WithConcept
  <2>4. Chained(b) => Chained(c)
    BY <1>1, <2>3, SamePeriodsChained
  <2>5. Noted(b, c, e)
    BY <1>1, <1>7, WithConceptNotes
  <2>. QED BY <2>1, <2>2, <2>3, <2>4, <2>5 DEF e, p
<1>. QED BY <1>3, <1>6, <1>7

LEMMA NotedLower ==
  ASSUME NEW b \in TypedBooks, DiscountsLower(b), NEW c, NEW e, Noted(b, c, e),
         e.type # "discount"
  PROVE  DiscountsLower(c)
BY DEF DiscountsLower, Noted

LEMMA SameConceptsLower ==
  ASSUME NEW b, DiscountsLower(b), NEW c, c.concept = b.concept
  PROVE  DiscountsLower(c)
BY SameLive DEF DiscountsLower

\* A charge that reaches the books: the commission, and the discount if any.
Credits(b, c, a, amount) ==
  \E discount \in Discount, p \in Nat \ {0} : \E u \in TypedBooks :
    /\ Noted(b, u, CommissionOf(a, amount, p))
    /\ \/ discount = 0 /\ c.concept = u.concept
       \/ Noted(u, c, DiscountOf(a, Min2(discount, amount), p))

\* What any charge of a leaves of the books, and what it brings when it is whole.
ChargeIsSound(b, c, a, date, amount, whole) ==
  /\ Well(c) /\ DiscountsLower(c) /\ Bound(c)
  /\ Chained(b) => Chained(c)
  /\ whole /\ InOrder(b) => InOrder(c)
  /\ ChargeWrites(b, c, a)
  /\ whole /\ ~BeforeActivation(c, date) /\ ~HasA(b, a, "commission") /\ ~HasA(b, a, "discount")
     => Credits(b, c, a, amount)

LEMMA AttributedIsSound ==
  ASSUME NEW b, Well(b), DiscountsLower(b), Bound(b), Configured, NEW date \in Nat, NEW choice,
         NEW t, t = Target(b, date, choice), NEW a \in Appointment, NEW amount \in Commission,
         NEW discount \in Discount, NEW writes \in 0..4,
         NEW c, c = AttributedBooks(t, a, date, amount, discount, writes)
  PROVE  ChargeIsSound(b, c, a, date, amount, writes = 4)
<1>1. PICK s, p : s = t.books /\ p = t.period
  OBVIOUS
<1>2. /\ Well(s) /\ Seals(b, s) /\ s.concept = b.concept
      /\ Chained(b) => Chained(s)
      /\ p \in DOMAIN s.period /\ t.past = (s.period[p].status # "open")
  BY <1>1, TargetIs
<1>3. DiscountsLower(s) /\ Bound(s) /\ (InOrder(b) => InOrder(s))
  BY <1>2, SameConceptsLower, SealsKeepsBound, SealsKeepsOrder
<1>4. /\ Well(c) /\ DiscountsLower(c) /\ Bound(c) /\ c.period = s.period
      /\ writes = 4 /\ InOrder(s) => InOrder(c)
  BY <1>1, <1>2, <1>3, AttributedIs
<1>5. ChargeWrites(s, c, a)
  BY <1>1, <1>2, <1>3, AttributedWrites
<1>6. ASSUME writes = 4, ~BeforeActivation(c, date), ~HasA(b, a, "commission"),
             ~HasA(b, a, "discount")
      PROVE  Credits(b, c, a, amount)
  <2>1. Live(s) = Live(b)
    BY <1>2, SameLive
  <2>2. ~HasA(s, a, "commission") /\ ~HasA(s, a, "discount") /\ ~BeforeActivation(s, date)
    BY <1>2, <1>4, <1>6, <2>1 DEF HasA, BeforeActivation
  <2>3. PICK u \in TypedBooks :
          /\ Noted(s, u, CommissionOf(a, amount, p))
          /\ \/ discount = 0 /\ c.concept = u.concept
             \/ Noted(u, c, DiscountOf(a, Min2(discount, amount), p))
    BY <1>1, <1>2, <1>3, <1>6, <2>2, AttributedWrites
  <2>4. Noted(b, u, CommissionOf(a, amount, p))
    BY <1>2, <2>1, <2>3 DEF Noted
  <2>5. p \in Nat \ {0}
    BY <1>2, BookRows DEF Well
  <2>. QED BY <2>3, <2>4, <2>5 DEF Credits
<1>7. ChargeWrites(b, c, a)
  <2>1. Live(s) = Live(b)
    BY <1>2, SameLive
  <2>2. \A u, e : Noted(s, u, e) <=> Noted(b, u, e)
    BY <1>2, <2>1 DEF Noted
  <2>. QED BY <1>2, <1>5, <2>2 DEF ChargeWrites
<1>8. Chained(b) => Chained(c)
  BY <1>2, <1>4, SamePeriodsChained
<1>. QED BY <1>3, <1>4, <1>6, <1>7, <1>8 DEF ChargeIsSound

LEMMA PlainIsSound ==
  ASSUME NEW b, Well(b), DiscountsLower(b), Bound(b), Configured, NEW date \in Nat, NEW choice,
         NEW t, t = Target(b, date, choice), NEW a \in Appointment, NEW amount \in Commission,
         NEW writes \in 0..1, NEW c, c = PlainBooks(t, a, date, amount, writes)
  PROVE  ChargeIsSound(b, c, a, date, amount, writes = 1)
<1>1. PICK s : s = t.books
  OBVIOUS
<1>2. /\ Well(s) /\ Seals(b, s) /\ s.concept = b.concept
      /\ Chained(b) => Chained(s)
  BY <1>1, TargetIs
<1>. DEFINE o == EnsureOpen(s, date)
            e == CommissionOf(a, amount, OpenPeriod(o))
<1>3. \/ c = s /\ (writes < 1 \/ BeforeActivation(s, date))
      \/ ~BeforeActivation(s, date) /\ c = RecordCommission(o, a, amount, OpenPeriod(o), date)
  BY <1>1 DEF PlainBooks
<1>4. CASE c = s /\ (writes < 1 \/ BeforeActivation(s, date))
  <2>1. DiscountsLower(c) /\ Bound(c) /\ (InOrder(b) => InOrder(c))
    BY <1>2, <1>4, SameConceptsLower, SealsKeepsBound, SealsKeepsOrder
  <2>2. c \in TypedBooks
    BY <1>2, <1>4 DEF Well
  <2>3. ChargeWrites(b, c, a)
    BY <1>2, <1>4, <2>2 DEF ChargeWrites
  <2>. QED BY <1>2, <1>4, <2>1, <2>3 DEF ChargeIsSound
<1>5. CASE ~BeforeActivation(s, date) /\ c = RecordCommission(o, a, amount, OpenPeriod(o), date)
  <2>1. Opened(s, o)
    BY <1>2, EnsureOpens
  <2>. HIDE DEF o
  <2>2. /\ Well(c) /\ Seals(s, c) /\ (Chained(s) => Chained(c)) /\ c.period = o.period
        /\ \/ c = o /\ (BeforeActivation(o, date) \/ HasA(s, a, "commission"))
           \/ Noted(s, c, e)
    BY <1>2, <1>5, <2>1, CommissionInOpen
  <2>3. e.type = "commission" /\ e.source = a
    BY DEF CommissionOf
  <2>4. Seals(b, c) /\ (Chained(b) => Chained(c))
    BY <1>2, <2>2, SealsOn
  <2>5. Bound(c) /\ (InOrder(b) => InOrder(c))
    BY <2>4, SealsKeepsBound, SealsKeepsOrder
  <2>6. s \in TypedBooks /\ c \in TypedBooks /\ o.concept = s.concept /\ Live(s) = Live(b)
        /\ b \in TypedBooks
    BY <1>2, <2>1, <2>2, SameLive DEF Well, Opened
  <2>7. Noted(s, c, e) => Noted(b, c, e) /\ e \in Entry
    BY <1>2, <2>6 DEF Noted
  <2>. HIDE DEF e
  <2>8. DiscountsLower(c)
    <3>1. CASE c = o
      BY <1>2, <2>6, <3>1, SameConceptsLower
    <3>2. CASE Noted(s, c, e)
      BY <2>3, <2>6, <2>7, <3>2, NotedLower
    <3>. QED BY <2>2, <3>1, <3>2
  <2>9. ChargeWrites(b, c, a)
    <3>1. CASE c = o
      BY <1>2, <2>6, <3>1 DEF ChargeWrites
    <3>2. CASE Noted(s, c, e)
      BY <2>3, <2>6, <2>7, <3>2 DEF ChargeWrites
    <3>. QED BY <2>2, <3>1, <3>2
  <2>10. ASSUME ~BeforeActivation(c, date), ~HasA(b, a, "commission")
         PROVE  Credits(b, c, a, amount)
    <3>1. ~BeforeActivation(o, date) /\ ~HasA(s, a, "commission")
      BY <1>2, <2>2, <2>6, <2>10 DEF BeforeActivation, HasA
    <3>2. Noted(b, c, e)
      BY <2>2, <2>7, <3>1
    <3>3. OpenPeriod(o) \in Nat \ {0} /\ 0 \in Discount
      <4>1. OpenPeriod(o) \in DOMAIN o.period /\ o \in TypedBooks
        BY <2>1 DEF Opened, Well
      <4>2. 0 \in Discount
        BY PayrollAssumption
      <4>. QED BY <4>1, <4>2, BookRows
    <3>. QED BY <2>6, <3>2, <3>3 DEF Credits, e
  <2>. QED BY <2>2, <2>4, <2>5, <2>8, <2>9, <2>10 DEF ChargeIsSound
<1>. QED BY <1>3, <1>4, <1>5

-----------------------------------------------------------------------------
(* Undoing a concept *)

ReversalOf(b, i, p) ==
  [type |-> "reversal", amount |-> -b.concept[i].amount, payee |-> b.concept[i].payee,
   period |-> p, source |-> i]

LEMMA ReverseInIs ==
  ASSUME NEW b, Well(b), Configured, NEW i \in Live(b), NEW c, c = ReverseIn(b, i)
  PROVE  /\ Well(c) /\ Seals(b, c) /\ (Chained(b) => Chained(c))
         /\ \E p \in Nat \ {0} : Noted(b, c, ReversalOf(b, i, p))
<1>. DEFINE o == EnsureOpen(b, now)
            p == OpenPeriod(o)
            e == ReversalOf(b, i, p)
<1>1. Opened(b, o)
  BY EnsureOpens DEF Configured
<1>2. c = [o EXCEPT !.concept = Append(@, e)]
  BY DEF ReverseIn, Add, ReversalOf
<1>. HIDE DEF o
<1>3. Well(o) /\ Seals(b, o) /\ o.concept = b.concept /\ (Chained(b) => Chained(o))
      /\ p \in DOMAIN o.period /\ o.period[p].status = "open"
  BY <1>1 DEF Opened
<1>4. o \in TypedBooks /\ b.concept[i] \in Entry /\ i \in Nat /\ p \in Nat \ {0}
  <2>1. o \in TypedBooks /\ b \in TypedBooks
    BY <1>3 DEF Well
  <2>2. b.concept[i] \in Entry /\ i \in 1..Len(b.concept) /\ Len(b.concept) \in Nat
    BY <2>1, BookRows
  <2>3. p \in Nat \ {0}
    BY <1>3, <2>1, BookRows
  <2>. QED BY <2>1, <2>2, <2>3
<1>5. e \in Entry /\ e.period = p
  BY <1>4 DEF Entry, ReversalOf, ConceptType
<1>. HIDE DEF e, p
<1>6. WithConcept(o, c, e)
  BY <1>2, <1>4, <1>5, AppendsConcept
<1>7. Well(c) /\ Seals(o, c)
  <2>1. p \notin Sealed(o)
    BY <1>3 DEF Sealed, Frozen
  <2>. QED BY <1>3, <1>5, <1>6, <2>1, WithConceptIsWell, WithConceptSeals
<1>8. Seals(b, c) /\ (Chained(b) => Chained(c))
  BY <1>3, <1>6, <1>7, SealsOn, SamePeriodsChained DEF WithConcept
<1>9. Noted(b, c, e)
  BY <1>3, <1>6, WithConceptNotes
<1>. QED BY <1>4, <1>7, <1>8, <1>9 DEF e

-----------------------------------------------------------------------------
(* Undoing the concepts of a charge, one after the other *)

Deleting(b, i) == [b EXCEPT !.concept = [@ EXCEPT ![i] = Deleted]]
WasOpen(b, i) == b.period[b.concept[i].period].status = "open"
Accumulator(acc) ==
  /\ acc = [books |-> acc.books, touched |-> acc.touched, reversed |-> acc.reversed,
            failed |-> acc.failed]
  /\ acc.failed \in BOOLEAN /\ acc.reversed \in BOOLEAN

LEMMA UndoOneIs ==
  ASSUME NEW b, NEW i, NEW acc, Accumulator(acc), NEW r, r = UndoOne(b, acc, i)
  PROVE  /\ Accumulator(r)
         /\ \/ acc.failed /\ r = acc
            \/ /\ ~acc.failed /\ WasOpen(b, i) /\ ~r.failed
               /\ r.books = Deleting(acc.books, i)
               /\ r.touched = acc.touched \cup {b.concept[i].period}
            \/ /\ ~acc.failed /\ ~WasOpen(b, i) /\ Reversed(acc.books, i)
               /\ r.failed /\ r.books = acc.books /\ r.touched = acc.touched
            \/ /\ ~acc.failed /\ ~WasOpen(b, i) /\ ~Reversed(acc.books, i) /\ ~r.failed
               /\ r.books = ReverseIn(acc.books, i) /\ r.touched = acc.touched
<1>. DEFINE B == acc.books
            T == acc.touched
            R == acc.reversed
            F == acc.failed
<1>0. acc = [books |-> B, touched |-> T, reversed |-> R, failed |-> F]
      /\ F \in BOOLEAN /\ R \in BOOLEAN
  BY DEF Accumulator
<1>1. CASE F
  BY <1>1 DEF UndoOne
<1>2. CASE ~F /\ WasOpen(b, i)
  <2>1. r = [books |-> Deleting(B, i),
             touched |-> T \cup {b.concept[i].period}, reversed |-> R, failed |-> F]
    <3>1. r = [acc EXCEPT !.books.concept[i] = Deleted,
                          !.touched = @ \cup {b.concept[i].period}]
      BY <1>2 DEF UndoOne, WasOpen
    <3>. HIDE DEF B, T, R, F
    <3>. QED BY <1>0, <3>1 DEF Deleting
  <2>. HIDE DEF B, T, R, F
  <2>2. /\ r.books = Deleting(B, i)
        /\ r.touched = T \cup {b.concept[i].period} /\ r.reversed = R /\ r.failed = F
    BY <2>1
  <2>3. Accumulator(r)
    BY <1>0, <2>1, <2>2 DEF Accumulator
  <2>. QED BY <1>2, <2>2, <2>3 DEF B, T, R, F
<1>3. CASE ~F /\ ~WasOpen(b, i) /\ Reversed(B, i)
  <2>1. r = [books |-> B, touched |-> T, reversed |-> R, failed |-> TRUE]
    <3>1. r = [acc EXCEPT !.failed = TRUE]
      BY <1>3 DEF UndoOne, WasOpen
    <3>. HIDE DEF B, T, R, F
    <3>. QED BY <1>0, <3>1
  <2>. HIDE DEF B, T, R, F
  <2>2. r.books = B /\ r.touched = T /\ r.reversed = R /\ r.failed = TRUE
    BY <2>1
  <2>3. Accumulator(r)
    BY <1>0, <2>1, <2>2 DEF Accumulator
  <2>. QED BY <1>3, <2>2, <2>3 DEF B, T, R, F
<1>4. CASE ~F /\ ~WasOpen(b, i) /\ ~Reversed(B, i)
  <2>1. r = [books |-> ReverseIn(B, i), touched |-> T, reversed |-> TRUE, failed |-> F]
    <3>1. r = [acc EXCEPT !.books = ReverseIn(@, i), !.reversed = TRUE]
      BY <1>4 DEF UndoOne, WasOpen
    <3>. HIDE DEF B, T, R, F
    <3>. QED BY <1>0, <3>1
  <2>. HIDE DEF B, T, R, F
  <2>2. r.books = ReverseIn(B, i) /\ r.touched = T /\ r.reversed = TRUE /\ r.failed = F
    BY <2>1
  <2>3. Accumulator(r)
    BY <1>0, <2>1, <2>2 DEF Accumulator
  <2>. QED BY <1>4, <2>2, <2>3 DEF B, T, R, F
<1>. QED BY <1>1, <1>2, <1>3, <1>4

UndoStep(b, a, acc, i) == IF i \in ConceptsOf(b, a) THEN UndoOne(b, acc, i) ELSE acc
UndoStart(b) == [books |-> b, touched |-> {}, reversed |-> FALSE, failed |-> FALSE]
UndoRun(g, b, a, n) ==
  g = [i \in 0..n |-> IF i = 0 THEN UndoStart(b) ELSE UndoStep(b, a, g[i - 1], i)]

LEMMA UndoRunExists ==
  ASSUME NEW b, NEW a, NEW N \in Nat
  PROVE  \E g : UndoRun(g, b, a, N)
<1>. DEFINE Good == {n \in Nat : \E g : UndoRun(g, b, a, n)}
<1>1. 0 \in Good
  <2>1. UndoRun([i \in 0..0 |-> UndoStart(b)], b, a, 0)
    BY DEF UndoRun
  <2>. QED BY <2>1
<1>2. ASSUME NEW n \in Good PROVE n + 1 \in Good
  <2>1. PICK g : UndoRun(g, b, a, n)
    OBVIOUS
  <2>. DEFINE h == [i \in 0..(n + 1) |-> IF i = 0 THEN UndoStart(b)
                                         ELSE UndoStep(b, a, g[i - 1], i)]
  <2>2. ASSUME NEW i \in 0..n PROVE h[i] = g[i]
    BY <2>1 DEF UndoRun
  <2>3. ASSUME NEW i \in 0..(n + 1), i # 0 PROVE h[i - 1] = g[i - 1]
    <3>1. i - 1 \in 0..n
      BY <2>3
    <3>. HIDE DEF h
    <3>. QED BY <2>2, <3>1
  <2>4. UndoRun(h, b, a, n + 1)
    <3>1. h = [i \in 0..(n + 1) |-> IF i = 0 THEN UndoStart(b)
                                    ELSE UndoStep(b, a, h[i - 1], i)]
      BY <2>3
    <3>. HIDE DEF h
    <3>. QED BY <3>1 DEF UndoRun
  <2>. QED BY <2>4
<1>3. Good = Nat
  <2>1. Good \in SUBSET Nat
    OBVIOUS
  <2>. HIDE DEF Good
  <2>. QED BY <1>1, <1>2, <2>1, NatSteps
<1>. QED BY <1>3

LEMMA UndoLoopRuns ==
  ASSUME NEW b \in TypedBooks, NEW a
  PROVE  \E g : UndoRun(g, b, a, Len(b.concept)) /\ UndoLoop(b, a) = g[Len(b.concept)]
<1>. DEFINE N == Len(b.concept)
            upTo == CHOOSE g : g = [i \in 0..N |->
                      IF i = 0 THEN [books |-> b, touched |-> {}, reversed |-> FALSE,
                                     failed |-> FALSE]
                      ELSE IF i \in ConceptsOf(b, a) THEN UndoOne(b, g[i - 1], i)
                      ELSE g[i - 1]]
            run == CHOOSE g : UndoRun(g, b, a, N)
<1>1. upTo = run
  BY DEF UndoRun, UndoStart, UndoStep
<1>2. UndoRun(run, b, a, N)
  BY BookRows, UndoRunExists
<1>3. UndoLoop(b, a) = upTo[N]
  BY DEF UndoLoop
<1>. HIDE DEF upTo, run
<1>. QED BY <1>1, <1>2, <1>3

\* After the first n concepts: those of the appointment in an open period are
\* deleted, each of the others is undone by one reversal.
KeptOrDeleted(b, a, n, d) ==
  \A i \in DOMAIN b.concept :
    \/ d.concept[i] = b.concept[i]
    \/ d.concept[i] = Deleted /\ i \in ConceptsOf(b, a) /\ i <= n /\ WasOpen(b, i)
Undoes(b, d, j, i) ==
  /\ d.concept[j].type = "reversal" /\ d.concept[j].source = i
  /\ d.concept[j].amount = -b.concept[i].amount
New(b, d) == {j \in Live(d) : j > Len(b.concept)}
NewUndo(b, a, n, d) ==
  \A j \in New(b, d) : \E i \in ConceptsOf(b, a) :
    i <= n /\ ~WasOpen(b, i) /\ Undoes(b, d, j, i)
OneEach(b, d) ==
  \A j, k \in New(b, d) : d.concept[j].source = d.concept[k].source => j = k
AllUndone(b, a, n, d) ==
  \A i \in ConceptsOf(b, a) : i <= n =>
    IF WasOpen(b, i) THEN d.concept[i] = Deleted
    ELSE \E j \in New(b, d) : Undoes(b, d, j, i)

UndoBooks(b, a, n, d) ==
  /\ Well(d) /\ Seals(b, d) /\ (Chained(b) => Chained(d))
  /\ Len(b.concept) <= Len(d.concept)
  /\ KeptOrDeleted(b, a, n, d) /\ NewUndo(b, a, n, d) /\ OneEach(b, d)
Undoing(b, a, n, acc) ==
  /\ Accumulator(acc) /\ UndoBooks(b, a, n, acc.books)
  /\ ~acc.failed => AllUndone(b, a, n, acc.books)
  /\ acc.failed => \E i \in ConceptsOf(b, a) : Reversed(b, i)
  /\ acc.touched \subseteq OpenPeriods(b)

LEMMA ConceptsOfAre ==
  ASSUME NEW b \in TypedBooks, NEW a
  PROVE  /\ ConceptsOf(b, a) \subseteq Live(b) /\ Live(b) \subseteq 1..Len(b.concept)
         /\ Len(b.concept) \in Nat /\ DOMAIN b.concept = 1..Len(b.concept)
         /\ \A i \in Live(b) : b.concept[i] \in Entry /\ b.concept[i] # Deleted
BY BookRows DEF ConceptsOf, Live

LEMMA UndoNothing ==
  ASSUME NEW b, Well(b), NEW a, NEW n \in Nat, NEW d, UndoBooks(b, a, n, d)
  PROVE  /\ UndoBooks(b, a, n + 1, d)
         /\ n + 1 \notin ConceptsOf(b, a) =>
              (AllUndone(b, a, n, d) => AllUndone(b, a, n + 1, d))
<1>1. /\ ConceptsOf(b, a) \subseteq Live(b) /\ Live(b) \subseteq 1..Len(b.concept)
      /\ Len(b.concept) \in Nat
  BY ConceptsOfAre DEF Well
<1>2. \A i \in ConceptsOf(b, a) : i \in Nat /\ (i <= n => i <= n + 1)
                                  /\ (i <= n + 1 /\ i # n + 1 => i <= n)
  BY <1>1
<1>3. KeptOrDeleted(b, a, n + 1, d)
  BY <1>2 DEF UndoBooks, KeptOrDeleted
<1>4. NewUndo(b, a, n + 1, d)
  BY <1>2 DEF UndoBooks, NewUndo
<1>5. n + 1 \notin ConceptsOf(b, a) => (AllUndone(b, a, n, d) => AllUndone(b, a, n + 1, d))
  BY <1>2 DEF AllUndone
<1>. QED BY <1>3, <1>4, <1>5 DEF UndoBooks

LEMMA UndoByDeleting ==
  ASSUME NEW b, Well(b), NEW a, NEW n \in Nat, NEW d, UndoBooks(b, a, n, d),
         n + 1 \in ConceptsOf(b, a), WasOpen(b, n + 1),
         NEW e, e = Deleting(d, n + 1)
  PROVE  /\ UndoBooks(b, a, n + 1, e)
         /\ AllUndone(b, a, n, d) => AllUndone(b, a, n + 1, e)
<1>. DEFINE m == n + 1
            N == Len(b.concept)
            C == ConceptsOf(b, a)
<1>1. /\ C \subseteq Live(b) /\ Live(b) \subseteq 1..N /\ N \in Nat /\ DOMAIN b.concept = 1..N
      /\ \A i \in Live(b) : b.concept[i] \in Entry /\ b.concept[i] # Deleted
  BY ConceptsOfAre DEF Well
<1>2. \A i \in C : i \in Nat /\ (i <= n => i <= m) /\ (i <= m /\ i # m => i <= n) /\ ~(m <= n)
  BY <1>1
<1>3. d \in TypedBooks /\ Well(d) /\ Seals(b, d) /\ N <= Len(d.concept)
      /\ Len(d.concept) \in Nat /\ DOMAIN d.concept = 1..Len(d.concept)
  BY BookRows DEF UndoBooks, Well
<1>4. m \in Live(d) /\ d.concept[m] = b.concept[m] /\ m \in 1..N
  <2>1. m \in 1..N /\ m \in DOMAIN d.concept /\ b.concept[m] # Deleted
    BY <1>1, <1>3
  <2>2. d.concept[m] = b.concept[m]
    BY <1>1, <1>2, <2>1 DEF UndoBooks, KeptOrDeleted
  <2>. QED BY <2>1, <2>2 DEF Live
<1>. HIDE DEF m, N, C
<1>5. Without(d, e, m)
  <2>1. m \in DOMAIN d.concept
    BY <1>4 DEF Live
  <2>. QED BY <1>3, <2>1, DeletesConcept DEF m, Deleting
<1>6. b.concept[m].period \notin Sealed(d)
  <2>1. b.concept[m].period \notin Sealed(b)
    BY DEF WasOpen, Sealed, Frozen, m
  <2>. QED BY <1>3, <2>1 DEF Seals
<1>7. Seals(d, e)
  BY <1>3, <1>4, <1>5, <1>6, WithoutSeals
<1>8. Well(e) /\ Seals(b, e)
  <2>1. Seals(b, e)
    BY <1>3, <1>7, SealsOn
  <2>. QED BY <2>1 DEF Seals
<1>9. Chained(b) => Chained(e)
  BY <1>5, SamePeriodsChained DEF Without, UndoBooks
<1>10. N <= Len(e.concept)
  BY <1>3, <1>5 DEF Without
<1>11. KeptOrDeleted(b, a, m, e)
  <2>1. SUFFICES ASSUME NEW i \in DOMAIN b.concept
                 PROVE  \/ e.concept[i] = b.concept[i]
                        \/ e.concept[i] = Deleted /\ i \in C /\ i <= m /\ WasOpen(b, i)
    BY DEF KeptOrDeleted, C
  <2>2. CASE i = m
    BY <1>2, <1>5, <2>2 DEF Without, m, C
  <2>3. CASE i # m
    <3>1. e.concept[i] = d.concept[i]
      BY <1>1, <1>3, <1>5, <2>3 DEF Without
    <3>2. \/ d.concept[i] = b.concept[i]
          \/ d.concept[i] = Deleted /\ i \in C /\ i <= n /\ WasOpen(b, i)
      BY DEF UndoBooks, KeptOrDeleted, C
    <3>. QED BY <1>2, <3>1, <3>2
  <2>. QED BY <2>2, <2>3
<1>12. New(b, e) = New(b, d) /\ \A j \in New(b, d) : e.concept[j] = d.concept[j]
  <2>1. Live(e) = Live(d) \ {m} /\ \A j \in DOMAIN d.concept : j # m => e.concept[j] = d.concept[j]
    BY <1>5 DEF Without
  <2>2. \A j : j > N => j # m
    BY <1>1, <1>4
  <2>3. Live(d) \subseteq DOMAIN d.concept
    BY DEF Live
  <2>. QED BY <2>1, <2>2, <2>3 DEF New, N
<1>13. NewUndo(b, a, m, e)
  <2>1. NewUndo(b, a, n, d)
    BY DEF UndoBooks
  <2>. QED BY <1>2, <1>12, <2>1 DEF NewUndo, Undoes, C
<1>14. OneEach(b, e)
  BY <1>12 DEF UndoBooks, OneEach
<1>15. ASSUME AllUndone(b, a, n, d) PROVE AllUndone(b, a, m, e)
  <2>1. SUFFICES ASSUME NEW i \in C, i <= m
                 PROVE  IF WasOpen(b, i) THEN e.concept[i] = Deleted
                        ELSE \E j \in New(b, e) : Undoes(b, e, j, i)
    BY DEF AllUndone, C
  <2>2. CASE i = m
    BY <1>5, <2>2 DEF Without, m
  <2>3. CASE i # m
    <3>1. IF WasOpen(b, i) THEN d.concept[i] = Deleted
          ELSE \E j \in New(b, d) : Undoes(b, d, j, i)
      BY <1>2, <1>15, <2>1, <2>3 DEF AllUndone, C
    <3>2. e.concept[i] = d.concept[i]
      <4>1. i \in DOMAIN d.concept
        BY <1>1, <1>3
      <4>. QED BY <1>5, <2>3, <4>1 DEF Without
    <3>. QED BY <1>12, <3>1, <3>2 DEF Undoes
  <2>. QED BY <2>2, <2>3
<1>. QED BY <1>8, <1>9, <1>10, <1>11, <1>13, <1>14, <1>15 DEF UndoBooks, m, N

LEMMA UndoByReversing ==
  ASSUME NEW b, Well(b), Configured, NEW a, NEW n \in Nat, NEW d, UndoBooks(b, a, n, d),
         n + 1 \in ConceptsOf(b, a), ~WasOpen(b, n + 1), NEW e, e = ReverseIn(d, n + 1)
  PROVE  /\ UndoBooks(b, a, n + 1, e)
         /\ AllUndone(b, a, n, d) => AllUndone(b, a, n + 1, e)
<1>. DEFINE m == n + 1
            N == Len(b.concept)
            C == ConceptsOf(b, a)
            D == Len(d.concept)
<1>1. /\ C \subseteq Live(b) /\ Live(b) \subseteq 1..N /\ N \in Nat /\ DOMAIN b.concept = 1..N
      /\ \A i \in Live(b) : b.concept[i] \in Entry /\ b.concept[i] # Deleted
  BY ConceptsOfAre DEF Well
<1>2. \A i \in C : i \in Nat /\ (i <= n => i <= m) /\ (i <= m /\ i # m => i <= n) /\ ~(m <= n)
  BY <1>1
<1>3. d \in TypedBooks /\ Well(d) /\ Seals(b, d) /\ N <= D
      /\ D \in Nat /\ DOMAIN d.concept = 1..D /\ Live(d) \subseteq 1..D
  BY BookRows DEF UndoBooks, Well
<1>4. m \in Live(d) /\ d.concept[m] = b.concept[m] /\ m \in 1..N
  <2>1. m \in 1..N /\ m \in DOMAIN d.concept /\ b.concept[m] # Deleted
    BY <1>1, <1>3
  <2>2. d.concept[m] = b.concept[m]
    BY <1>1, <1>2, <2>1 DEF UndoBooks, KeptOrDeleted
  <2>. QED BY <2>1, <2>2 DEF Live
<1>. HIDE DEF m, N, C, D
<1>5. /\ Well(e) /\ Seals(d, e) /\ (Chained(d) => Chained(e))
      /\ \E p \in Nat \ {0} : Noted(d, e, ReversalOf(d, m, p))
  BY <1>3, <1>4, ReverseInIs DEF m
<1>6. /\ Live(e) = Live(d) \cup {D + 1} /\ Len(e.concept) = D + 1
      /\ \A j \in Live(d) : e.concept[j] = d.concept[j]
      /\ Undoes(b, e, D + 1, m)
  BY <1>4, <1>5 DEF Noted, ReversalOf, Undoes, D
<1>7. Seals(b, e) /\ (Chained(b) => Chained(e)) /\ N <= Len(e.concept)
  BY <1>1, <1>3, <1>5, <1>6, SealsOn DEF UndoBooks
<1>8. ASSUME NEW i \in DOMAIN b.concept PROVE e.concept[i] = d.concept[i]
  <2>1. i \in 1..D /\ i # D + 1
    BY <1>1, <1>3
  <2>2. CASE i \in Live(d)
    BY <1>6, <2>2
  <2>3. CASE i \notin Live(d)
    <3>1. d.concept[i] = Deleted
      BY <1>3, <2>1, <2>3 DEF Live
    <3>2. i \notin Live(e) /\ i \in DOMAIN e.concept
      BY <1>3, <1>5, <1>6, <2>1, <2>3, BookRows DEF Well
    <3>. QED BY <3>1, <3>2 DEF Live
  <2>. QED BY <2>2, <2>3
<1>9. KeptOrDeleted(b, a, m, e)
  BY <1>2, <1>8 DEF UndoBooks, KeptOrDeleted, C
<1>10. New(b, e) = New(b, d) \cup {D + 1} /\ \A j \in New(b, d) : e.concept[j] = d.concept[j]
  BY <1>1, <1>3, <1>6 DEF New, N
<1>11. NewUndo(b, a, n, d) /\ OneEach(b, d)
  BY DEF UndoBooks
<1>12. NewUndo(b, a, m, e)
  <2>1. SUFFICES ASSUME NEW j \in New(b, e)
                 PROVE  \E i \in C : i <= m /\ ~WasOpen(b, i) /\ Undoes(b, e, j, i)
    BY DEF NewUndo, C
  <2>2. CASE j = D + 1
    BY <1>2, <1>6, <2>2 DEF m, C
  <2>3. CASE j \in New(b, d)
    <3>1. PICK i \in C : i <= n /\ ~WasOpen(b, i) /\ Undoes(b, d, j, i)
      BY <1>11, <2>3 DEF NewUndo, C
    <3>2. Undoes(b, e, j, i)
      BY <1>10, <2>3, <3>1 DEF Undoes
    <3>. QED BY <1>2, <3>1, <3>2
  <2>. QED BY <1>10, <2>1, <2>2, <2>3
<1>13. OneEach(b, e)
  <2>1. \A j \in New(b, d) : e.concept[j].source # m
    BY <1>2, <1>10, <1>11 DEF NewUndo, Undoes, m, C
  <2>2. e.concept[D + 1].source = m
    BY <1>6 DEF Undoes
  <2>. QED BY <1>10, <1>11, <2>1, <2>2 DEF OneEach
<1>14. ASSUME AllUndone(b, a, n, d) PROVE AllUndone(b, a, m, e)
  <2>1. SUFFICES ASSUME NEW i \in C, i <= m
                 PROVE  IF WasOpen(b, i) THEN e.concept[i] = Deleted
                        ELSE \E j \in New(b, e) : Undoes(b, e, j, i)
    BY DEF AllUndone, C
  <2>2. CASE i = m
    BY <1>6, <1>10, <2>2 DEF m
  <2>3. CASE i # m
    <3>1. IF WasOpen(b, i) THEN d.concept[i] = Deleted
          ELSE \E j \in New(b, d) : Undoes(b, d, j, i)
      BY <1>2, <1>14, <2>1, <2>3 DEF AllUndone, C
    <3>2. e.concept[i] = d.concept[i]
      BY <1>1, <1>8
    <3>. QED BY <1>10, <3>1, <3>2 DEF Undoes
  <2>. QED BY <2>2, <2>3
<1>. QED BY <1>5, <1>7, <1>9, <1>12, <1>13, <1>14 DEF UndoBooks, m, N

LEMMA UndoneBefore ==
  ASSUME NEW b, Well(b), NEW a, NEW n \in Nat, NEW d, UndoBooks(b, a, n, d),
         Reversed(d, n + 1)
  PROVE  Reversed(b, n + 1)
<1>1. /\ ConceptsOf(b, a) \subseteq Live(b) /\ Live(b) \subseteq 1..Len(b.concept)
      /\ Len(b.concept) \in Nat /\ DOMAIN b.concept = 1..Len(b.concept)
      /\ d \in TypedBooks
  BY ConceptsOfAre DEF Well, UndoBooks
<1>2. PICK j \in Live(d) : d.concept[j].type = "reversal" /\ d.concept[j].source = n + 1
  BY DEF Reversed
<1>3. j \notin New(b, d)
  <2>1. SUFFICES ASSUME j \in New(b, d) PROVE FALSE
    OBVIOUS
  <2>2. PICK i \in ConceptsOf(b, a) : i <= n /\ Undoes(b, d, j, i)
    BY <2>1 DEF UndoBooks, NewUndo
  <2>3. i = n + 1
    BY <1>2, <2>2 DEF Undoes
  <2>. QED BY <2>2, <2>3
<1>4. j \in DOMAIN b.concept
  <2>1. j \in Nat /\ j >= 1
    BY <1>1, BookRows
  <2>. QED BY <1>1, <1>2, <1>3, <2>1 DEF New
<1>5. d.concept[j] = b.concept[j] /\ j \in Live(b)
  <2>1. d.concept[j] # Deleted
    BY <1>2 DEF Live
  <2>2. d.concept[j] = b.concept[j]
    BY <1>4, <2>1 DEF UndoBooks, KeptOrDeleted
  <2>. QED BY <1>4, <2>1, <2>2 DEF Live
<1>. QED BY <1>2, <1>5 DEF Reversed

LEMMA UndoStepKeeps ==
  ASSUME NEW b, Well(b), Configured, NEW a, NEW n \in Nat, NEW acc, Undoing(b, a, n, acc),
         NEW r, r = UndoStep(b, a, acc, n + 1)
  PROVE  Undoing(b, a, n + 1, r)
<1>1. UndoBooks(b, a, n, acc.books) /\ Accumulator(acc)
  BY DEF Undoing
<1>2. /\ UndoBooks(b, a, n + 1, acc.books)
      /\ n + 1 \notin ConceptsOf(b, a) =>
           (AllUndone(b, a, n, acc.books) => AllUndone(b, a, n + 1, acc.books))
  BY <1>1, UndoNothing
<1>3. CASE n + 1 \notin ConceptsOf(b, a)
  BY <1>1, <1>2, <1>3 DEF Undoing, UndoStep
<1>4. CASE n + 1 \in ConceptsOf(b, a)
  <2>1. r = UndoOne(b, acc, n + 1)
    BY <1>4 DEF UndoStep
  <2>2. Accumulator(r)
    BY <1>1, <2>1, UndoOneIs
  <2>3. CASE acc.failed /\ r = acc
    BY <1>1, <1>2, <2>3 DEF Undoing
  <2>4. CASE /\ ~acc.failed /\ WasOpen(b, n + 1) /\ ~r.failed
             /\ r.books = Deleting(acc.books, n + 1)
             /\ r.touched = acc.touched \cup {b.concept[n + 1].period}
    <3>1. /\ UndoBooks(b, a, n + 1, r.books)
          /\ AllUndone(b, a, n, acc.books) => AllUndone(b, a, n + 1, r.books)
      BY <1>1, <1>4, <2>4, UndoByDeleting
    <3>2. b.concept[n + 1].period \in OpenPeriods(b)
      <4>1. n + 1 \in Live(b)
        BY <1>4 DEF ConceptsOf
      <4>. QED BY <2>4, <4>1 DEF Well, OpenPeriods, WasOpen
    <3>. QED BY <2>2, <2>4, <3>1, <3>2 DEF Undoing
  <2>5. CASE /\ ~acc.failed /\ ~WasOpen(b, n + 1) /\ Reversed(acc.books, n + 1)
             /\ r.failed /\ r.books = acc.books /\ r.touched = acc.touched
    <3>1. Reversed(b, n + 1)
      BY <1>1, <2>5, UndoneBefore
    <3>. QED BY <1>2, <1>4, <2>2, <2>5, <3>1 DEF Undoing
  <2>6. CASE /\ ~acc.failed /\ ~WasOpen(b, n + 1) /\ ~Reversed(acc.books, n + 1) /\ ~r.failed
             /\ r.books = ReverseIn(acc.books, n + 1) /\ r.touched = acc.touched
    <3>1. /\ UndoBooks(b, a, n + 1, r.books)
          /\ AllUndone(b, a, n, acc.books) => AllUndone(b, a, n + 1, r.books)
      BY <1>1, <1>4, <2>6, UndoByReversing
    <3>. QED BY <2>2, <2>6, <3>1 DEF Undoing
  <2>7. \/ acc.failed /\ r = acc
        \/ /\ ~acc.failed /\ WasOpen(b, n + 1) /\ ~r.failed
           /\ r.books = Deleting(acc.books, n + 1)
           /\ r.touched = acc.touched \cup {b.concept[n + 1].period}
        \/ /\ ~acc.failed /\ ~WasOpen(b, n + 1) /\ Reversed(acc.books, n + 1)
           /\ r.failed /\ r.books = acc.books /\ r.touched = acc.touched
        \/ /\ ~acc.failed /\ ~WasOpen(b, n + 1) /\ ~Reversed(acc.books, n + 1) /\ ~r.failed
           /\ r.books = ReverseIn(acc.books, n + 1) /\ r.touched = acc.touched
    BY <1>1, <2>1, UndoOneIs
  <2>. QED BY <2>3, <2>4, <2>5, <2>6, <2>7
<1>. QED BY <1>3, <1>4

LEMMA UndoLoopIs ==
  ASSUME NEW b, Well(b), Configured, NEW a
  PROVE  Undoing(b, a, Len(b.concept), UndoLoop(b, a))
<1>. DEFINE N == Len(b.concept)
<1>0. N \in Nat /\ b \in TypedBooks
  BY BookRows DEF Well
<1>1. PICK g : UndoRun(g, b, a, N) /\ UndoLoop(b, a) = g[N]
  BY <1>0, UndoLoopRuns
<1>2. /\ g[0] = UndoStart(b)
      /\ \A i \in 1..N : g[i] = UndoStep(b, a, g[i - 1], i)
  BY <1>0, <1>1 DEF UndoRun
<1>. DEFINE Good == {n \in Nat : n <= N => Undoing(b, a, n, g[n])}
<1>3. 0 \in Good
  <2>. DEFINE s == UndoStart(b)
  <2>1. /\ s.books = b /\ s.touched = {} /\ s.failed = FALSE /\ Accumulator(s)
    BY DEF UndoStart, Accumulator
  <2>2. ConceptsOf(b, a) \subseteq Live(b) /\ Live(b) \subseteq 1..N
    BY <1>0, ConceptsOfAre
  <2>. HIDE DEF s
  <2>3. New(b, b) = {}
    BY <1>0, <2>2 DEF New
  <2>4. AllUndone(b, a, 0, b)
    BY <1>0, <2>2 DEF AllUndone
  <2>5. UndoBooks(b, a, 0, b)
    BY <1>0, <2>3, SealsItself DEF UndoBooks, KeptOrDeleted, NewUndo, OneEach
  <2>6. Undoing(b, a, 0, s)
    BY <2>1, <2>4, <2>5 DEF Undoing
  <2>. QED BY <1>2, <2>6 DEF s
<1>4. ASSUME NEW n \in Good PROVE n + 1 \in Good
  <2>1. SUFFICES ASSUME n + 1 <= N PROVE Undoing(b, a, n + 1, g[n + 1])
    OBVIOUS
  <2>2. Undoing(b, a, n, g[n]) /\ n \in Nat
    BY <1>0, <2>1
  <2>3. g[n + 1] = UndoStep(b, a, g[n], n + 1)
    <3>1. n + 1 \in 1..N /\ (n + 1) - 1 = n
      BY <1>0, <2>1, <2>2
    <3>. QED BY <1>2, <3>1
  <2>. QED BY <2>2, <2>3, UndoStepKeeps
<1>5. Good = Nat
  <2>1. Good \in SUBSET Nat
    OBVIOUS
  <2>. HIDE DEF Good
  <2>. QED BY <1>3, <1>4, <2>1, NatSteps
<1>6. N \in Good
  BY <1>0, <1>5
<1>. QED BY <1>0, <1>1, <1>6

LEMMA UndoConceptsIs ==
  ASSUME NEW b, Well(b), Configured, NEW a, NEW c, c = UndoConcepts(b, a)
  PROVE  /\ Well(c) /\ Seals(b, c) /\ (Chained(b) => Chained(c))
         /\ \E d : /\ UndoBooks(b, a, Len(b.concept), d) /\ c.concept = d.concept
                   /\ (\A i \in ConceptsOf(b, a) : ~Reversed(b, i))
                      => AllUndone(b, a, Len(b.concept), d)
<1>. DEFINE done == UndoLoop(b, a)
            d == done.books
            last == IF done.reversed THEN EnsureOpen(d, now) ELSE d
            P == done.touched \cup (IF done.reversed THEN {OpenPeriod(last)} ELSE {})
<1>1. Undoing(b, a, Len(b.concept), done)
  BY UndoLoopIs
<1>2. c = IF done.failed THEN d ELSE FreezeAll(last, P)
  BY DEF UndoConcepts
<1>. HIDE DEF done
<1>3. /\ UndoBooks(b, a, Len(b.concept), d)
      /\ (\A i \in ConceptsOf(b, a) : ~Reversed(b, i)) => AllUndone(b, a, Len(b.concept), d)
      /\ done.touched \subseteq OpenPeriods(b)
  BY <1>1 DEF Undoing
<1>4. Well(d) /\ Seals(b, d) /\ (Chained(b) => Chained(d))
  BY <1>3 DEF UndoBooks
<1>5. CASE done.failed
  BY <1>2, <1>3, <1>4, <1>5
<1>6. CASE ~done.failed
  <2>1. /\ Well(last) /\ Seals(d, last) /\ (Chained(d) => Chained(last))
        /\ last.concept = d.concept
        /\ done.reversed => last.period[OpenPeriod(last)].status = "open"
    <3>1. CASE done.reversed
      <4>1. Opened(d, last)
        BY <1>4, <3>1, EnsureOpens DEF Configured
      <4>. QED BY <4>1 DEF Opened
    <3>2. CASE ~done.reversed
      BY <1>4, <3>2, SealsItself
    <3>. QED BY <3>1, <3>2
  <2>. HIDE DEF last, d
  <2>2. P \cap Sealed(last) = {}
    <3>1. Sealed(last) = Sealed(b)
      BY <1>4, <2>1 DEF Seals
    <3>2. OpenPeriods(b) \cap Sealed(b) = {}
      BY DEF OpenPeriods, Sealed, Frozen
    <3>3. done.reversed => OpenPeriod(last) \notin Sealed(last)
      BY <2>1 DEF Sealed, Frozen
    <3>. QED BY <1>3, <3>1, <3>2, <3>3
  <2>. HIDE DEF P
  <2>3. Seals(last, c)
    BY <1>2, <1>6, <2>1, <2>2, FreezeSeals
  <2>4. c.period = last.period /\ c.concept = last.concept
    BY <1>2, <1>6, <2>1, FreezeIs
  <2>5. Seals(b, c)
    <3>1. Seals(b, last)
      BY <1>4, <2>1, SealsOn
    <3>. QED BY <2>3, <3>1, SealsOn
  <2>6. Well(c)
    BY <2>5 DEF Seals
  <2>7. Chained(b) => Chained(c)
    BY <1>4, <2>1, <2>4, SamePeriodsChained
  <2>. QED BY <1>3, <2>1, <2>4, <2>5, <2>6, <2>7
<1>. QED BY <1>5, <1>6

LEMMA SameOwed ==
  ASSUME NEW b, NEW c, c.concept = b.concept, NEW a
  PROVE  Owed(c, a) = Owed(b, a)
<1>1. Live(c) = Live(b) /\ \A I : Total(c, I) = Total(b, I)
  BY DEF Live, Total
<1>2. ConceptsOf(c, a) = ConceptsOf(b, a)
  BY <1>1 DEF ConceptsOf
<1>. QED BY <1>1, <1>2 DEF Owed

\* Whatever was not deleted has its opposite, once.
LEMMA UndoneOwesNothing ==
  ASSUME NEW b, Well(b), NEW a, NEW d, UndoBooks(b, a, Len(b.concept), d),
         AllUndone(b, a, Len(b.concept), d), \A i \in ConceptsOf(b, a) : ~Reversed(b, i)
  PROVE  Owed(d, a) = 0
<1>. DEFINE N == Len(b.concept)
            C == ConceptsOf(b, a)
            S == {i \in C : ~WasOpen(b, i)}
            R == New(b, d)
            m == [j \in R |-> d.concept[j].source]
<1>1. /\ C \subseteq Live(b) /\ Live(b) \subseteq 1..N /\ N \in Nat /\ DOMAIN b.concept = 1..N
      /\ \A i \in Live(b) : b.concept[i] \in Entry /\ b.concept[i] # Deleted
  BY ConceptsOfAre DEF Well
<1>2. /\ d \in TypedBooks /\ DOMAIN d.concept = 1..Len(d.concept) /\ N <= Len(d.concept)
      /\ Len(d.concept) \in Nat /\ Live(d) \subseteq 1..Len(d.concept)
  BY BookRows DEF UndoBooks, Well
<1>3. /\ KeptOrDeleted(b, a, N, d) /\ NewUndo(b, a, N, d) /\ OneEach(b, d)
  BY DEF UndoBooks
<1>4. \A j \in Live(d) : j \notin R =>
        j \in Live(b) /\ d.concept[j] = b.concept[j]
  <2>1. SUFFICES ASSUME NEW j \in Live(d), j \notin R
                 PROVE  j \in Live(b) /\ d.concept[j] = b.concept[j]
    OBVIOUS
  <2>2. j \in 1..N
    BY <1>1, <1>2, <2>1 DEF New
  <2>3. d.concept[j] # Deleted
    BY <2>1 DEF Live
  <2>4. d.concept[j] = b.concept[j]
    BY <1>1, <1>3, <2>2, <2>3 DEF KeptOrDeleted
  <2>. QED BY <1>1, <2>2, <2>3, <2>4 DEF Live
<1>5. ASSUME NEW i \in S
      PROVE  i \in Live(d) /\ d.concept[i] = b.concept[i]
  <2>1. i \in C /\ ~WasOpen(b, i) /\ i \in DOMAIN b.concept /\ i \in DOMAIN d.concept
    BY <1>1, <1>2
  <2>2. d.concept[i] = b.concept[i]
    BY <1>3, <2>1 DEF KeptOrDeleted
  <2>3. b.concept[i] # Deleted
    BY <1>1, <2>1
  <2>. QED BY <2>1, <2>2, <2>3 DEF Live
<1>6. ASSUME NEW j \in R
      PROVE  \E i \in S : /\ d.concept[j].type = "reversal" /\ d.concept[j].source = i
                          /\ d.concept[j].amount = -b.concept[i].amount
  BY <1>3 DEF NewUndo, Undoes
<1>. HIDE DEF R
<1>7. ConceptsOf(d, a) = S
  <2>1. ASSUME NEW i \in ConceptsOf(d, a) PROVE i \in S
    <3>1. i \in Live(d) /\ d.concept[i].type \in {"commission", "discount"}
          /\ d.concept[i].source = a
      BY DEF ConceptsOf
    <3>2. i \notin R
      BY <1>6, <3>1
    <3>3. i \in C /\ d.concept[i] = b.concept[i]
      BY <1>4, <3>1, <3>2 DEF ConceptsOf
    <3>4. ~WasOpen(b, i)
      <4>1. i <= N /\ d.concept[i] # Deleted
        BY <1>1, <3>1, <3>3 DEF Live
      <4>. QED BY <3>3, <4>1 DEF AllUndone
    <3>. QED BY <3>3, <3>4
  <2>2. ASSUME NEW i \in S PROVE i \in ConceptsOf(d, a)
    BY <1>5 DEF ConceptsOf
  <2>. QED BY <2>1, <2>2
<1>8. {j \in Live(d) : d.concept[j].type = "reversal" /\ d.concept[j].source \in S} = R
  <2>1. ASSUME NEW j \in Live(d), d.concept[j].type = "reversal", d.concept[j].source \in S
        PROVE  j \in R
    BY <1>4, <2>1 DEF Reversed
  <2>2. R \subseteq Live(d)
    BY DEF R, New
  <2>3. ASSUME NEW j \in R
        PROVE  j \in Live(d) /\ d.concept[j].type = "reversal" /\ d.concept[j].source \in S
    BY <1>6, <2>2
  <2>. QED BY <2>1, <2>3
<1>9. Owed(d, a) = Total(d, S \cup R)
  BY <1>7, <1>8 DEF Owed
<1>10. S \in SUBSET Live(d) /\ R \in SUBSET Live(d) /\ S \cap R = {}
  <2>1. S \subseteq Live(d)
    BY <1>5
  <2>2. R \subseteq Live(d)
    BY DEF R, New
  <2>3. \A i \in S : d.concept[i].type # "reversal"
    BY <1>5 DEF ConceptsOf
  <2>4. S \cap R = {}
    BY <1>6, <2>3
  <2>. QED BY <2>1, <2>2, <2>4
<1>11. IsFiniteSet(S) /\ IsFiniteSet(R)
  BY <1>2, <1>10, LiveIsFinite
<1>12. \A j, k \in R : m[j] = m[k] => j = k
  BY <1>3 DEF OneEach, R
<1>13. \A i \in S : \E j \in R : m[j] = i
  <2>1. SUFFICES ASSUME NEW i \in S PROVE \E j \in R : m[j] = i
    OBVIOUS
  <2>2. i \in C /\ i <= N /\ ~WasOpen(b, i)
    BY <1>1
  <2>3. PICK j \in R : Undoes(b, d, j, i)
    BY <2>2 DEF AllUndone, R
  <2>. QED BY <2>3 DEF Undoes
<1>14. \A j \in R : m[j] \in S /\ Amounts(d)[j] = -Amounts(d)[m[j]]
  <2>1. SUFFICES ASSUME NEW j \in R PROVE m[j] \in S /\ Amounts(d)[j] = -Amounts(d)[m[j]]
    OBVIOUS
  <2>2. PICK i \in S : d.concept[j].source = i /\ d.concept[j].amount = -b.concept[i].amount
    BY <1>6
  <2>3. m[j] = i /\ d.concept[i] = b.concept[i] /\ i \in Live(d) /\ j \in Live(d)
    BY <1>5, <1>10, <2>2
  <2>. QED BY <1>2, <2>2, <2>3, AmountsAre
<1>15. \A i \in S : Amounts(d)[i] \in Int
  BY <1>2, <1>10, AmountsAre
<1>. HIDE DEF S, m
<1>16. SumFunctionOnSet(Amounts(d), S) + SumFunctionOnSet(Amounts(d), R) = 0
  BY <1>11, <1>12, <1>13, <1>14, <1>15, SumMirror
<1>17. Total(d, S \cup R) = Total(d, S) + Total(d, R)
  <2>1. S \cup R \in SUBSET Live(d) /\ S \in SUBSET (S \cup R) /\ (S \cup R) \ S = R
    BY <1>10
  <2>2. Total(d, S \cup R) = Total(d, S) + Total(d, (S \cup R) \ S)
    BY <1>2, <2>1, TotalSplit
  <2>. QED BY <2>1, <2>2
<1>18. Total(d, S) = SumFunctionOnSet(Amounts(d), S) /\ Total(d, R) = SumFunctionOnSet(Amounts(d), R)
  BY <1>2, <1>10, TotalIs
<1>. QED BY <1>9, <1>16, <1>17, <1>18

-----------------------------------------------------------------------------
(* Taking in the charges made before the payroll was activated *)

Payments == payment \in [Appointment -> PaymentRow \cup {NoPayment}]

FillRun(g, b, f, order, n) ==
  g = [k \in 0..n |-> IF k = 0 THEN b ELSE TakeIn(g[k - 1], f, order[k])]

LEMMA FillRunExists ==
  ASSUME NEW b, NEW f, NEW order, NEW N \in Nat
  PROVE  \E g : FillRun(g, b, f, order, N)
<1>. DEFINE Good == {n \in Nat : \E g : FillRun(g, b, f, order, n)}
<1>1. 0 \in Good
  <2>1. FillRun([k \in 0..0 |-> b], b, f, order, 0)
    BY DEF FillRun
  <2>. QED BY <2>1
<1>2. ASSUME NEW n \in Good PROVE n + 1 \in Good
  <2>1. PICK g : FillRun(g, b, f, order, n)
    OBVIOUS
  <2>. DEFINE h == [k \in 0..(n + 1) |-> IF k = 0 THEN b ELSE TakeIn(g[k - 1], f, order[k])]
  <2>2. ASSUME NEW k \in 0..n PROVE h[k] = g[k]
    BY <2>1 DEF FillRun
  <2>3. ASSUME NEW k \in 0..(n + 1), k # 0 PROVE h[k - 1] = g[k - 1]
    <3>1. k - 1 \in 0..n
      BY <2>3
    <3>. HIDE DEF h
    <3>. QED BY <2>2, <3>1
  <2>4. FillRun(h, b, f, order, n + 1)
    <3>1. h = [k \in 0..(n + 1) |-> IF k = 0 THEN b ELSE TakeIn(h[k - 1], f, order[k])]
      BY <2>3
    <3>. HIDE DEF h
    <3>. QED BY <3>1 DEF FillRun
  <2>. QED BY <2>4
<1>3. Good = Nat
  <2>1. Good \in SUBSET Nat
    OBVIOUS
  <2>. HIDE DEF Good
  <2>. QED BY <1>1, <1>2, <2>1, NatSteps
<1>. QED BY <1>3

LEMMA BackfillRuns ==
  ASSUME NEW b, NEW f, NEW order, NEW N \in Nat, Len(order) = N
  PROVE  \E g : FillRun(g, b, f, order, N) /\ Backfill(b, f, order) = g[N]
<1>. DEFINE upTo == CHOOSE g : g = [n \in 0..Len(order) |->
                      IF n = 0 THEN b ELSE TakeIn(g[n - 1], f, order[n])]
            run == CHOOSE g : FillRun(g, b, f, order, Len(order))
<1>1. upTo = run
  BY DEF FillRun
<1>2. FillRun(run, b, f, order, N)
  BY FillRunExists
<1>3. Backfill(b, f, order) = upTo[N]
  BY DEF Backfill
<1>. HIDE DEF upTo, run
<1>. QED BY <1>1, <1>2, <1>3

LEMMA OrderIs ==
  ASSUME NEW S, IsFiniteSet(S), NEW order \in OldestFirst(S), NEW N, N = Cardinality(S)
  PROVE  /\ N \in Nat /\ Len(order) = N /\ order \in [1..N -> S]
         /\ \A a \in S : \E k \in 1..N : order[k] = a
         /\ \A j, k \in 1..N : order[j] = order[k] => j = k
<1>1. N \in Nat
  BY FS_CardinalityType
<1>2. order \in [1..N -> S] /\ \A a \in S : \E k \in 1..N : order[k] = a
  BY DEF OldestFirst
<1>3. Len(order) = N
  <2>1. order \in UNION {[1..n -> S] : n \in Nat}
    BY <1>1, <1>2
  <2>. QED BY <1>1, <1>2, <2>1, SeqDef, LenProperties
<1>4. IsFiniteSet(1..N) /\ Cardinality(1..N) = N
  BY <1>1, FS_Interval
<1>5. order \in Surjection(1..N, S)
  BY <1>2 DEF Surjection
<1>6. order \in Injection(1..N, S)
  BY <1>4, <1>5, FS_SurjSameCardinalityImpliesInj
<1>. QED BY <1>1, <1>2, <1>3, <1>6 DEF Injection, IsInjective

\* After n charges: each has its commission in the books, and nothing else has.
Filled(b, order, n, d) ==
  /\ Well(d) /\ Seals(b, d) /\ (Chained(b) => Chained(d)) /\ SameFirstDay(b, d)
  /\ \A i \in Live(d) : /\ d.concept[i].type = "commission"
                        /\ \E k \in 1..n : d.concept[i].source = order[k]
  /\ \A k \in 1..n : \E i \in Live(d) :
       /\ d.concept[i].source = order[k] /\ d.concept[i].amount = payment[order[k]].commission
       /\ \A j \in Live(d) : d.concept[j].source = order[k] => j = i

LEMMA TakeInFills ==
  ASSUME NEW b, Well(b), b.period # <<>>, NEW f \in Frequency, Payments,
         NEW N \in Nat, NEW order \in [1..N -> Due(b)],
         \A j, k \in 1..N : order[j] = order[k] => j = k,
         NEW n \in Nat, n + 1 \in 1..N, NEW d, Filled(b, order, n, d),
         NEW c, c = TakeIn(d, f, order[n + 1])
  PROVE  Filled(b, order, n + 1, c)
<1>1. PICK a : a = order[n + 1]
  OBVIOUS
<1>2. /\ a \in Appointment /\ Charged(a) /\ ~BeforeActivation(b, payment[a].paidAt)
  BY <1>1 DEF Due
<1>3. payment[a].paidAt \in Nat /\ payment[a].commission \in Commission
  BY <1>2 DEF Payments, Charged, PaymentRow, Day
<1>. DEFINE date == payment[a].paidAt
            amount == payment[a].commission
            o == EnsureOpenFor(d, f, date)
            e == CommissionOf(a, amount, OpenPeriod(o))
<1>4. c = RecordCommission(o, a, amount, OpenPeriod(o), date)
  BY <1>1 DEF TakeIn
<1>5. Well(d) /\ Seals(b, d) /\ (Chained(b) => Chained(d)) /\ SameFirstDay(b, d)
  BY DEF Filled
<1>6. Opened(d, o)
  BY <1>3, <1>5, EnsuredIsOpened
<1>. HIDE DEF o
<1>7. /\ Well(c) /\ Seals(d, c) /\ (Chained(d) => Chained(c)) /\ c.period = o.period
      /\ \/ c = o /\ (BeforeActivation(o, date) \/ HasA(d, a, "commission"))
         \/ Noted(d, c, e)
  BY <1>2, <1>3, <1>4, <1>5, <1>6, CommissionInOpen
<1>8. ~BeforeActivation(o, date)
  BY <1>2, <1>3, <1>5, <1>6 DEF SameFirstDay, Opened
<1>9. \A k \in 1..n : order[k] # a
  <2>1. \A k \in 1..n : k \in 1..N /\ k # n + 1
    OBVIOUS
  <2>. QED BY <1>1, <2>1
<1>10. \A i \in Live(d) : d.concept[i].source # a
  BY <1>9 DEF Filled
<1>11. Noted(d, c, e)
  BY <1>7, <1>8, <1>10 DEF HasA
<1>12. SameFirstDay(b, c)
  <2>1. SameFirstDay(d, o) /\ d.period # <<>>
    <3>1. DOMAIN b.period # {} /\ DOMAIN b.period \subseteq DOMAIN d.period
      <4>1. b.period \in Seq(PeriodRow) /\ Len(b.period) \in Nat
            /\ DOMAIN b.period = 1..Len(b.period)
        BY BookRows DEF Well, TypedBooks
      <4>. QED BY <1>5, <4>1, EmptySeq DEF Seals
    <3>2. DOMAIN <<>> = {}
      OBVIOUS
    <3>3. d.period # <<>>
      BY <3>1, <3>2
    <3>. QED BY <1>6, <3>3 DEF Opened
  <2>2. \A t \in Nat : BeforeActivation(c, t) <=> BeforeActivation(o, t)
    BY <1>7 DEF BeforeActivation
  <2>. QED BY <1>5, <2>1, <2>2 DEF SameFirstDay
<1>13. /\ Live(c) = Live(d) \cup {Len(d.concept) + 1} /\ Len(d.concept) + 1 \notin Live(d)
       /\ \A i \in Live(d) : c.concept[i] = d.concept[i]
       /\ c.concept[Len(d.concept) + 1] = e
  BY <1>5, <1>11, BookRows DEF Noted, Well
<1>14. e.type = "commission" /\ e.source = a /\ e.amount = amount
  BY DEF CommissionOf
<1>. HIDE DEF e
<1>15. ASSUME NEW i \in Live(c)
       PROVE  c.concept[i].type = "commission" /\ \E k \in 1..(n + 1) : c.concept[i].source = order[k]
  <2>1. CASE i \in Live(d)
    <3>1. \E k \in 1..n : d.concept[i].source = order[k]
      BY <2>1 DEF Filled
    <3>2. d.concept[i].type = "commission" /\ c.concept[i] = d.concept[i]
      BY <1>13, <2>1 DEF Filled
    <3>. QED BY <3>1, <3>2
  <2>2. CASE i = Len(d.concept) + 1
    BY <1>1, <1>13, <1>14, <2>2
  <2>. QED BY <1>13, <2>1, <2>2
<1>16. ASSUME NEW k \in 1..(n + 1)
       PROVE  \E i \in Live(c) :
                /\ c.concept[i].source = order[k]
                /\ c.concept[i].amount = payment[order[k]].commission
                /\ \A j \in Live(c) : c.concept[j].source = order[k] => j = i
  <2>1. CASE k = n + 1
    <3>1. \A j \in Live(c) : c.concept[j].source = a => j = Len(d.concept) + 1
      BY <1>10, <1>13
    <3>. QED BY <1>1, <1>13, <1>14, <2>1, <3>1
  <2>2. CASE k \in 1..n
    <3>1. PICK i \in Live(d) :
            /\ d.concept[i].source = order[k]
            /\ d.concept[i].amount = payment[order[k]].commission
            /\ \A j \in Live(d) : d.concept[j].source = order[k] => j = i
      BY <2>2 DEF Filled
    <3>2. c.concept[Len(d.concept) + 1].source # order[k]
      BY <1>9, <1>13, <1>14, <2>2
    <3>3. i \in Live(c) /\ c.concept[i] = d.concept[i]
      BY <1>13
    <3>4. \A j \in Live(c) : c.concept[j].source = order[k] => j = i
      BY <1>13, <3>1, <3>2
    <3>. QED BY <3>1, <3>3, <3>4
  <2>. QED BY <2>1, <2>2
<1>17. Seals(b, c) /\ (Chained(b) => Chained(c))
  BY <1>5, <1>7, SealsOn
<1>. QED BY <1>7, <1>12, <1>15, <1>16, <1>17 DEF Filled

LEMMA BackfillIs ==
  ASSUME NEW b, Well(b), b.period # <<>>, Live(b) = {}, NEW f \in Frequency, Payments,
         NEW order \in OldestFirst(Due(b)), NEW c, c = Backfill(b, f, order)
  PROVE  \E N \in Nat :
           /\ order \in [1..N -> Due(b)] /\ Filled(b, order, N, c)
           /\ \A a \in Due(b) : \E k \in 1..N : order[k] = a
<1>1. IsFiniteSet(Due(b))
  BY PayrollAssumption, FS_Subset DEF Due
<1>2. PICK N : N = Cardinality(Due(b))
  OBVIOUS
<1>3. /\ N \in Nat /\ Len(order) = N /\ order \in [1..N -> Due(b)]
      /\ \A a \in Due(b) : \E k \in 1..N : order[k] = a
      /\ \A j, k \in 1..N : order[j] = order[k] => j = k
  BY <1>1, <1>2, OrderIs
<1>4. PICK g : FillRun(g, b, f, order, N) /\ c = g[N]
  BY <1>3, BackfillRuns
<1>5. g[0] = b /\ \A k \in 1..N : g[k] = TakeIn(g[k - 1], f, order[k])
  BY <1>3, <1>4 DEF FillRun
<1>. DEFINE Good == {n \in Nat : n <= N => Filled(b, order, n, g[n])}
<1>6. 0 \in Good
  <2>1. SameFirstDay(b, b)
    BY DEF SameFirstDay
  <2>2. Filled(b, order, 0, b)
    BY <2>1, SealsItself DEF Filled
  <2>. QED BY <1>5, <2>2
<1>7. ASSUME NEW n \in Good PROVE n + 1 \in Good
  <2>1. SUFFICES ASSUME n + 1 <= N PROVE Filled(b, order, n + 1, g[n + 1])
    OBVIOUS
  <2>2. Filled(b, order, n, g[n]) /\ n \in Nat /\ n + 1 \in 1..N /\ (n + 1) - 1 = n
    BY <1>3, <2>1
  <2>3. g[n + 1] = TakeIn(g[n], f, order[n + 1])
    BY <1>5, <2>2
  <2>. QED BY <1>3, <2>2, <2>3, TakeInFills
<1>8. Good = Nat
  <2>1. Good \in SUBSET Nat
    OBVIOUS
  <2>. HIDE DEF Good
  <2>. QED BY <1>6, <1>7, <2>1, NatSteps
<1>9. Filled(b, order, N, c)
  <2>1. N \in Good
    BY <1>3, <1>8
  <2>. QED BY <1>3, <1>4, <2>1
<1>. QED BY <1>3, <1>9

-----------------------------------------------------------------------------
(* The status of a period, its length, and the first one *)

\* c is b with another row for the period p, on the same days or longer ones.
Reworked(b, c, p, row) ==
  /\ c \in TypedBooks /\ p \in DOMAIN b.period /\ row \in PeriodRow
  /\ c.concept = b.concept /\ c.frozen = b.frozen /\ c.paid = b.paid
  /\ DOMAIN c.period = DOMAIN b.period
  /\ \A q \in DOMAIN b.period : c.period[q] = IF q = p THEN row ELSE b.period[q]

LEMMA TypedFromParts ==
  ASSUME NEW t \in Seq(PeriodRow), NEW n \in Seq(Entry \cup {Deleted}),
         NEW kept \in [Key -> Int], NEW given \in [Key -> Nat]
  PROVE  [period |-> t, concept |-> n, frozen |-> kept, paid |-> given] \in TypedBooks
BY DEF TypedBooks

LEMMA PeriodIsReworked ==
  ASSUME NEW b \in TypedBooks, NEW p \in DOMAIN b.period, NEW row \in PeriodRow,
         NEW c, c = [b EXCEPT !.period = [@ EXCEPT ![p] = row]]
  PROVE  Reworked(b, c, p, row)
<1>. DEFINE t == [b.period EXCEPT ![p] = row]
<1>1. b.period \in Seq(PeriodRow)
  BY DEF TypedBooks
<1>2. /\ t \in Seq(PeriodRow) /\ DOMAIN t = DOMAIN b.period
      /\ \A q \in DOMAIN b.period : t[q] = IF q = p THEN row ELSE b.period[q]
  BY <1>1, ExceptSeq
<1>. HIDE DEF t
<1>3. c = [period |-> t, concept |-> b.concept, frozen |-> b.frozen, paid |-> b.paid]
  BY ExceptIs DEF t
<1>4. c \in TypedBooks
  <2>1. /\ b.concept \in Seq(Entry \cup {Deleted})
        /\ b.frozen \in [Key -> Int] /\ b.paid \in [Key -> Nat]
    BY DEF TypedBooks
  <2>2. t \in Seq(PeriodRow)
    BY <1>2
  <2>3. [period |-> t, concept |-> b.concept, frozen |-> b.frozen, paid |-> b.paid] \in TypedBooks
    BY <2>1, <2>2, TypedFromParts
  <2>. QED BY <1>3, <2>3
<1>. QED BY <1>2, <1>3, <1>4 DEF Reworked

WithStatus(row, next) == [row EXCEPT !.status = next]

LEMMA StatusOnly ==
  ASSUME NEW row \in PeriodRow, NEW next \in PeriodStatus, NEW r, r = WithStatus(row, next)
  PROVE  /\ r \in PeriodRow /\ r.status = next /\ r.startsAt = row.startsAt
         /\ r.endsAt = row.endsAt /\ r.frequency = row.frequency
BY DEF WithStatus, PeriodRow

LEMMA StatusIsSet ==
  ASSUME NEW b, Well(b), NEW p \in DOMAIN b.period, NEW next \in PeriodStatus,
         next = "open" => OpenPeriods(b) = {},
         NEW c, c = [b EXCEPT !.period[p].status = next]
  PROVE  /\ Well(c) /\ Reworked(b, c, p, WithStatus(b.period[p], next))
         /\ c.period[p].status = next
         /\ \A q \in DOMAIN b.period :
              /\ q # p => c.period[q].status = b.period[q].status
              /\ c.period[q].startsAt = b.period[q].startsAt
              /\ c.period[q].endsAt = b.period[q].endsAt
<1>. DEFINE row == WithStatus(b.period[p], next)
<1>1. b \in TypedBooks /\ \A q \in DOMAIN b.period : b.period[q] \in PeriodRow
  BY BookRows DEF Well
<1>2. /\ row \in PeriodRow /\ row.status = next /\ row.startsAt = b.period[p].startsAt
      /\ row.endsAt = b.period[p].endsAt /\ row.frequency = b.period[p].frequency
  BY <1>1, StatusOnly
<1>3. c = [b EXCEPT !.period = [@ EXCEPT ![p] = row]]
  BY DEF WithStatus
<1>. HIDE DEF row
<1>4. Reworked(b, c, p, row)
  BY <1>1, <1>2, <1>3, PeriodIsReworked
<1>5. \A q \in DOMAIN b.period :
        /\ q # p => c.period[q] = b.period[q]
        /\ c.period[q].startsAt = b.period[q].startsAt /\ c.period[q].endsAt = b.period[q].endsAt
        /\ c.period[q].frequency = b.period[q].frequency
  BY <1>2, <1>4 DEF Reworked
<1>6. c.period[p].status = next
  BY <1>2, <1>4 DEF Reworked
<1>7. \A q, r \in OpenPeriods(c) : q = r
  <2>1. \A q \in OpenPeriods(c) : (q = p /\ next = "open") \/ q \in OpenPeriods(b)
    BY <1>4, <1>5, <1>6 DEF OpenPeriods, Reworked
  <2>. QED BY <2>1 DEF Well
<1>8. Live(c) = Live(b) /\ c.concept = b.concept /\ DOMAIN c.period = DOMAIN b.period
      /\ c \in TypedBooks
  BY <1>4, SameLive DEF Reworked
<1>9. Well(c)
  <2>1. \A i \in Live(c) : c.concept[i].period \in DOMAIN c.period
    BY <1>8 DEF Well
  <2>2. \A q \in DOMAIN c.period :
          c.period[q].endsAt = c.period[q].startsAt + Length[c.period[q].frequency] - 1
    <3>1. \A q \in DOMAIN b.period :
            b.period[q].endsAt = b.period[q].startsAt + Length[b.period[q].frequency] - 1
      BY DEF Well
    <3>. QED BY <1>5, <1>8, <3>1
  <2>. QED BY <1>7, <1>8, <2>1, <2>2 DEF Well
<1>. QED BY <1>4, <1>5, <1>6, <1>9 DEF row

\* d is b with the period p in another status.
Moved(b, d, p, next) ==
  /\ Well(d) /\ d.concept = b.concept /\ d.frozen = b.frozen /\ d.paid = b.paid
  /\ DOMAIN d.period = DOMAIN b.period /\ p \in DOMAIN b.period
  /\ d.period[p].status = next
  /\ \A q \in DOMAIN b.period :
       /\ q # p => d.period[q].status = b.period[q].status
       /\ d.period[q].startsAt = b.period[q].startsAt
       /\ d.period[q].endsAt = b.period[q].endsAt

\* c is d but for what is frozen and paid.
Resettled(d, c) ==
  /\ Well(c) /\ DiscountsLower(c) /\ Bound(c)
  /\ c.period = d.period /\ c.concept = d.concept

LEMMA MovedKeeps ==
  ASSUME NEW b, Well(b), DiscountsLower(b), NEW p, NEW next, NEW d, Moved(b, d, p, next)
  PROVE  /\ d \in TypedBooks /\ DiscountsLower(d)
         /\ \A q, w : Earned(d, q, w) = Earned(b, q, w) /\ Net(d, q, w) = Net(b, q, w)
         /\ \A q : Explained(b, q) => Explained(d, q)
         /\ \A q \in DOMAIN b.period : q # p => (Settled(b, q) => Settled(d, q))
<1>1. d \in TypedBooks
  BY DEF Moved, Well
<1>2. d.concept = b.concept /\ d.frozen = b.frozen /\ d.paid = b.paid
  BY DEF Moved
<1>3. DiscountsLower(d)
  BY <1>2, SameConceptsLower
<1>4. \A q, w : Earned(d, q, w) = Earned(b, q, w) /\ Net(d, q, w) = Net(b, q, w)
  BY <1>1, <1>2, SameTotals
<1>5. \A q : Explained(b, q) => Explained(d, q)
  BY <1>2, <1>4 DEF Explained
<1>6. ASSUME NEW q \in DOMAIN b.period, q # p, Settled(b, q) PROVE Settled(d, q)
  <2>1. d.period[q].status = b.period[q].status
    BY <1>6 DEF Moved
  <2>. QED BY <1>2, <1>6, <2>1 DEF Settled
<1>. QED BY <1>1, <1>3, <1>4, <1>5, <1>6

LEMMA MovedSealed ==
  ASSUME NEW b, NEW p \in DOMAIN b.period, NEW d, Moved(b, d, p, "approved")
  PROVE  Sealed(d) = Sealed(b) \cup {p}
<1>1. /\ DOMAIN d.period = DOMAIN b.period /\ d.period[p].status = "approved"
      /\ \A q \in DOMAIN b.period : q # p => d.period[q].status = b.period[q].status
  BY DEF Moved
<1>. QED BY <1>1 DEF Sealed, Frozen

LEMMA MovedSameSealed ==
  ASSUME NEW b, NEW p \in DOMAIN b.period, NEW next, next # "approved",
         CanTransition(b.period[p].status, next), NEW d, Moved(b, d, p, next)
  PROVE  Sealed(d) = Sealed(b)
<1>1. /\ DOMAIN d.period = DOMAIN b.period /\ d.period[p].status = next
      /\ \A q \in DOMAIN b.period : q # p => d.period[q].status = b.period[q].status
  BY DEF Moved
<1>2. next \in Frozen <=> b.period[p].status \in Frozen
  BY DEF CanTransition, Frozen
<1>. QED BY <1>1, <1>2 DEF Sealed

LEMMA MovedBound ==
  ASSUME NEW b, Well(b), DiscountsLower(b), Bound(b), NEW p, NEW next, NEW d,
         Moved(b, d, p, next), Sealed(d) = Sealed(b)
  PROVE  Bound(d)
<1>1. \A q, w : Earned(d, q, w) = Earned(b, q, w)
  BY MovedKeeps
<1>2. d.frozen = b.frozen /\ d.paid = b.paid
  BY DEF Moved
<1>. QED BY <1>1, <1>2 DEF Bound

LEMMA Approving ==
  ASSUME NEW b, Well(b), DiscountsLower(b), Bound(b), NEW p \in DOMAIN b.period, NEW d,
         CanTransition(b.period[p].status, "approved"), Moved(b, d, p, "approved"),
         NEW c, c = FreezeAll(d, {p})
  PROVE  Resettled(d, c) /\ (InOrder(b) => InOrder(c))
<1>1. /\ Well(d) /\ d.frozen = b.frozen /\ d.paid = b.paid /\ DOMAIN d.period = DOMAIN b.period
      /\ d.concept = b.concept /\ d.period[p].status = "approved"
  BY DEF Moved
<1>2. /\ d \in TypedBooks /\ DiscountsLower(d)
      /\ \A q, w : Earned(d, q, w) = Earned(b, q, w)
      /\ \A q : Explained(b, q) => Explained(d, q)
      /\ \A q \in DOMAIN b.period : q # p => (Settled(b, q) => Settled(d, q))
  BY MovedKeeps
<1>3. /\ c \in TypedBooks /\ c.period = d.period /\ c.concept = d.concept /\ c.paid = d.paid
      /\ \A k \in Key : c.frozen[k] = IF k[1] \in {p} THEN Net(d, k[1], k[2]) ELSE d.frozen[k]
  BY <1>1, FreezeIs
<1>4. Well(c)
  BY <1>1, <1>3, SamePeriodsIsWell
<1>5. DiscountsLower(c)
  BY <1>2, <1>3, SameConceptsLower
<1>6. \A q, w : Earned(c, q, w) = Earned(d, q, w)
  BY <1>1, <1>3, SameTotals
<1>7. Sealed(c) = Sealed(b) \cup {p}
  <2>1. Sealed(c) = Sealed(d)
    BY <1>3 DEF Sealed
  <2>. QED BY <2>1, MovedSealed
<1>8. \A q, w : Net(d, q, w) <= Earned(d, q, w)
  BY <1>2, NetAtMostEarned
<1>9. Bound(c)
  <2>1. ASSUME NEW k \in Key, k[1] \in Sealed(c) PROVE c.frozen[k] <= Earned(c, k[1], k[2])
    <3>1. CASE k[1] = p
      <4>1. c.frozen[k] = Net(d, k[1], k[2])
        BY <1>3, <3>1
      <4>2. Earned(c, k[1], k[2]) = Earned(d, k[1], k[2])
        BY <1>6
      <4>3. Net(d, k[1], k[2]) <= Earned(d, k[1], k[2])
        BY <1>8
      <4>. QED BY <4>1, <4>2, <4>3
    <3>2. CASE k[1] # p
      <4>1. k[1] \in Sealed(b) /\ c.frozen[k] = b.frozen[k]
        BY <1>1, <1>3, <1>7, <2>1, <3>2
      <4>2. b.frozen[k] <= Earned(b, k[1], k[2])
        BY <4>1 DEF Bound
      <4>3. Earned(c, k[1], k[2]) = Earned(b, k[1], k[2])
        BY <1>2, <1>6
      <4>. QED BY <4>1, <4>2, <4>3
    <3>. QED BY <3>1, <3>2
  <2>2. ASSUME NEW k \in Key, c.paid[k] > 0
        PROVE  k[1] \in Sealed(c) /\ c.paid[k] <= Earned(c, k[1], k[2])
    <3>1. b.paid[k] > 0 /\ c.paid[k] = b.paid[k]
      BY <1>1, <1>3, <2>2
    <3>2. k[1] \in Sealed(b) /\ b.paid[k] <= Earned(b, k[1], k[2])
      BY <3>1 DEF Bound
    <3>3. Earned(c, k[1], k[2]) = Earned(b, k[1], k[2])
      BY <1>2, <1>6
    <3>. QED BY <1>7, <3>1, <3>2, <3>3
  <2>. QED BY <2>1, <2>2 DEF Bound
<1>10. ASSUME InOrder(b), NEW q \in Sealed(c) PROVE Explained(c, q) /\ Settled(c, q)
  <2>1. Explained(c, q)
    <3>1. q \in {p} \/ Explained(d, q)
      BY <1>2, <1>7, <1>10 DEF InOrder
    <3>. QED BY <1>1, <3>1, FreezeExplains
  <2>2. CASE q = p
    <3>1. Settled(c, q)
      BY <1>1, <1>3, <2>2 DEF Settled
    <3>. QED BY <2>1, <3>1
  <2>3. CASE q # p
    <3>1. q \in Sealed(b) /\ q \in DOMAIN b.period
      BY <1>7, <1>10, <2>3 DEF Sealed
    <3>2. Settled(b, q)
      BY <1>10, <3>1 DEF InOrder
    <3>3. Settled(d, q)
      BY <1>2, <2>3, <3>1, <3>2
    <3>4. \A k \in Key : k[1] = q => c.frozen[k] = d.frozen[k]
      BY <1>3, <2>3
    <3>5. Settled(c, q)
      BY <1>3, <3>3, <3>4 DEF Settled
    <3>. QED BY <2>1, <3>5
  <2>. QED BY <2>2, <2>3
<1>. QED BY <1>3, <1>4, <1>5, <1>9, <1>10 DEF Resettled, InOrder

LEMMA Closing ==
  ASSUME NEW b, Well(b), DiscountsLower(b), Bound(b), NEW p \in DOMAIN b.period, NEW d,
         CanTransition(b.period[p].status, "closed"), Moved(b, d, p, "closed"),
         NEW c, c = SettleRemaining(d, p)
  PROVE  Resettled(d, c) /\ (InOrder(b) => InOrder(c))
<1>1. Well(d) /\ DOMAIN d.period = DOMAIN b.period /\ d.period[p].status = "closed"
  BY DEF Moved
<1>2. /\ DiscountsLower(d)
      /\ \A q : Explained(b, q) => Explained(d, q)
      /\ \A q \in DOMAIN b.period : q # p => (Settled(b, q) => Settled(d, q))
  BY MovedKeeps
<1>3. /\ c \in TypedBooks /\ c.period = d.period /\ c.concept = d.concept
  BY <1>1, SettleIs
<1>4. Well(c)
  BY <1>1, <1>3, SamePeriodsIsWell
<1>5. DiscountsLower(c)
  BY <1>2, <1>3, SameConceptsLower
<1>6. Sealed(d) = Sealed(b)
  BY MovedSameSealed
<1>7. Bound(d)
  BY <1>6, MovedBound
<1>8. p \in Sealed(d)
  BY <1>1 DEF Sealed, Frozen
<1>9. /\ Bound(c) /\ Settled(c, p)
      /\ \A q : Explained(d, q) => Explained(c, q)
      /\ \A q : q # p => (Settled(d, q) => Settled(c, q))
  BY <1>1, <1>7, <1>8, SettleKeeps
<1>10. ASSUME InOrder(b), NEW q \in Sealed(c) PROVE Explained(c, q) /\ Settled(c, q)
  <2>1. q \in Sealed(b) /\ q \in DOMAIN b.period
    BY <1>3, <1>6, <1>10 DEF Sealed
  <2>2. Explained(b, q) /\ Settled(b, q)
    BY <1>10, <2>1 DEF InOrder
  <2>3. Explained(c, q)
    BY <1>2, <1>9, <2>2
  <2>4. Settled(c, q)
    BY <1>2, <1>9, <2>1, <2>2
  <2>. QED BY <2>3, <2>4
<1>. QED BY <1>3, <1>4, <1>5, <1>9, <1>10 DEF Resettled, InOrder

LEMMA MovingOnly ==
  ASSUME NEW b, Well(b), DiscountsLower(b), Bound(b), NEW p \in DOMAIN b.period, NEW next,
         next # "approved", next # "closed",
         NEW d, CanTransition(b.period[p].status, next), Moved(b, d, p, next)
  PROVE  Resettled(d, d) /\ (InOrder(b) => InOrder(d))
<1>1. Well(d) /\ d.period[p].status = next
  BY DEF Moved
<1>2. /\ DiscountsLower(d)
      /\ \A q : Explained(b, q) => Explained(d, q)
      /\ \A q \in DOMAIN b.period : q # p => (Settled(b, q) => Settled(d, q))
  BY MovedKeeps
<1>3. Sealed(d) = Sealed(b)
  BY MovedSameSealed
<1>4. Bound(d)
  BY <1>3, MovedBound
<1>5. ASSUME InOrder(b), NEW q \in Sealed(d) PROVE Explained(d, q) /\ Settled(d, q)
  <2>1. q \in Sealed(b) /\ q \in DOMAIN b.period
    BY <1>3, <1>5 DEF Sealed
  <2>2. Explained(b, q) /\ Settled(b, q)
    BY <1>5, <2>1 DEF InOrder
  <2>3. q = p => Settled(d, q)
    BY <1>1 DEF Settled
  <2>4. Settled(d, q)
    BY <1>2, <2>1, <2>2, <2>3
  <2>5. Explained(d, q)
    BY <1>2, <2>2
  <2>. QED BY <2>4, <2>5
<1>. QED BY <1>1, <1>2, <1>4, <1>5 DEF Resettled, InOrder

LEMMA ReworkedMoves ==
  ASSUME NEW b, NEW d, Well(d), NEW p, NEW row, Reworked(b, d, p, row),
         NEW next, d.period[p].status = next,
         \A q \in DOMAIN b.period :
           /\ q # p => d.period[q].status = b.period[q].status
           /\ d.period[q].startsAt = b.period[q].startsAt
           /\ d.period[q].endsAt = b.period[q].endsAt
  PROVE  Moved(b, d, p, next)
BY DEF Reworked, Moved

\* What a change of status leaves in order.
LEMMA StatusKeeps ==
  ASSUME NEW b, Well(b), DiscountsLower(b), Bound(b), NEW p \in DOMAIN b.period,
         NEW next \in PeriodStatus, CanTransition(b.period[p].status, next),
         next = "open" => OpenPeriods(b) = {},
         NEW d, d = [b EXCEPT !.period[p].status = next],
         NEW c, c = CASE next = "approved" -> FreezeTotals(d, p)
                      [] next = "closed" -> SettleRemaining(d, p)
                      [] OTHER -> d
  PROVE  Moved(b, d, p, next) /\ Resettled(d, c) /\ (InOrder(b) => InOrder(c))
<1>1. Moved(b, d, p, next)
  <2>1. /\ Well(d) /\ Reworked(b, d, p, WithStatus(b.period[p], next))
        /\ d.period[p].status = next
        /\ \A q \in DOMAIN b.period :
             /\ q # p => d.period[q].status = b.period[q].status
             /\ d.period[q].startsAt = b.period[q].startsAt
             /\ d.period[q].endsAt = b.period[q].endsAt
    BY StatusIsSet
  <2>. QED BY <2>1, ReworkedMoves
<1>2. /\ next = "approved" => c = FreezeAll(d, {p})
      /\ next = "closed" => c = SettleRemaining(d, p)
      /\ next # "approved" /\ next # "closed" => c = d
  BY DEF FreezeTotals
<1>3. CASE next = "approved"
  BY <1>1, <1>2, <1>3, Approving
<1>4. CASE next = "closed"
  BY <1>1, <1>2, <1>4, Closing
<1>5. CASE next # "approved" /\ next # "closed"
  BY <1>1, <1>2, <1>5, MovingOnly
<1>. QED BY <1>1, <1>3, <1>4, <1>5

LEMMA RealignedIs ==
  ASSUME NEW b, Well(b), NEW f \in Frequency, NEW c, c = Realigned(b, f)
  PROVE  Well(c) /\ Seals(b, c) /\ c.concept = b.concept /\ (Chained(b) => Apart(c))
<1>. DEFINE p == OpenPeriod(b)
            start == b.period[p].startsAt
            row == [b.period[p] EXCEPT !.frequency = f, !.endsAt = BoundsFrom(start, f).endsAt]
<1>1. CASE c = b
  BY <1>1, SealsItself DEF Chained
<1>2. CASE OpenPeriods(b) # {} /\ c = [b EXCEPT !.period = [@ EXCEPT ![p] = row]]
  <2>1. p \in DOMAIN b.period /\ b.period[p].status = "open" /\ OpenPeriods(b) = {p}
    BY <1>2, OpenPeriodIs
  <2>2. /\ b \in TypedBooks /\ b.period[p] \in PeriodRow /\ start \in Nat
        /\ \A q \in DOMAIN b.period : b.period[q] \in PeriodRow
    BY <2>1, BookRows, PeriodRowFields DEF Well
  <2>3. Length[f] \in Nat \ {0} /\ BoundsFrom(start, f).endsAt = start + Length[f] - 1
    BY PayrollAssumption DEF BoundsFrom
  <2>4. /\ row \in PeriodRow /\ row.status = "open" /\ row.startsAt = start /\ row.frequency = f
        /\ row.endsAt = start + Length[f] - 1
    <3>1. start + Length[f] - 1 \in Nat
      BY <2>2, <2>3
    <3>. QED BY <2>1, <2>2, <2>3, <3>1 DEF PeriodRow
  <2>. HIDE DEF p, start, row
  <2>5. Reworked(b, c, p, row)
    BY <1>2, <2>1, <2>2, <2>4, PeriodIsReworked
  <2>6. /\ c \in TypedBooks /\ c.concept = b.concept /\ c.frozen = b.frozen /\ c.paid = b.paid
        /\ DOMAIN c.period = DOMAIN b.period /\ c.period[p] = row
        /\ \A q \in DOMAIN b.period : q # p => c.period[q] = b.period[q]
    BY <2>1, <2>5 DEF Reworked
  <2>7. Live(c) = Live(b) /\ OpenPeriods(c) = OpenPeriods(b) /\ Sealed(c) = Sealed(b)
        /\ p \notin Sealed(b)
    BY <2>1, <2>4, <2>6, SameLive DEF OpenPeriods, Sealed, Frozen
  <2>8. Well(c)
    BY <2>4, <2>6, <2>7 DEF Well
  <2>9. Seals(b, c)
    <3>1. \A q : Lines(c, q) = Lines(b, q)
      BY <2>6, <2>7 DEF Lines
    <3>2. \A q \in Sealed(b) : q \in DOMAIN b.period /\ q # p
      BY <2>7 DEF Sealed
    <3>. QED BY <2>6, <2>7, <2>8, <3>1, <3>2 DEF Seals
  <2>10. ASSUME Chained(b) PROVE Apart(c)
    <3>1. ASSUME NEW q \in DOMAIN b.period, q # p
          PROVE  b.period[q].endsAt < start
      <4>1. b.period[q].startsAt <= b.period[p].startsAt
        BY <2>1, <2>10 DEF Chained, OpenIsLast
      <4>2. ~(b.period[q].startsAt <= b.period[p].endsAt
              /\ b.period[p].startsAt <= b.period[q].endsAt)
        BY <2>1, <2>10, <3>1 DEF Chained, Apart
      <4>3. /\ b.period[p].endsAt = b.period[p].startsAt + Length[b.period[p].frequency] - 1
            /\ Length[b.period[p].frequency] \in Nat \ {0}
            /\ b.period[q].startsAt \in Nat /\ b.period[q].endsAt \in Nat
        BY <2>1, <2>2, PeriodRowFields DEF Well
      <4>. QED BY <2>2, <4>1, <4>2, <4>3 DEF start
    <3>2. \A q \in DOMAIN b.period : b.period[q].endsAt \in Nat /\ b.period[q].startsAt \in Nat
      BY <2>2, PeriodRowFields
    <3>3. SUFFICES ASSUME NEW q \in DOMAIN b.period, NEW r \in DOMAIN b.period, q # r
                   PROVE  ~(c.period[q].startsAt <= c.period[r].endsAt
                            /\ c.period[r].startsAt <= c.period[q].endsAt)
      BY <2>6 DEF Apart
    <3>4. CASE q = p
      <4>1. b.period[r].endsAt < start /\ c.period[r] = b.period[r] /\ b.period[r].endsAt \in Nat
        BY <2>6, <3>1, <3>2, <3>3, <3>4
      <4>. QED BY <2>2, <2>4, <2>6, <3>4, <4>1
    <3>5. CASE r = p
      <4>1. b.period[q].endsAt < start /\ c.period[q] = b.period[q] /\ b.period[q].endsAt \in Nat
        BY <2>6, <3>1, <3>2, <3>3, <3>5
      <4>. QED BY <2>2, <2>4, <2>6, <3>5, <4>1
    <3>6. CASE q # p /\ r # p
      BY <2>6, <2>10, <3>3, <3>6 DEF Chained, Apart
    <3>. QED BY <3>4, <3>5, <3>6
  <2>. QED BY <2>6, <2>8, <2>9, <2>10
<1>. QED BY <1>1, <1>2 DEF Realigned

LEMMA BootstrapIs ==
  ASSUME NEW b, Well(b), b.period = <<>>, NEW f \in Frequency, NEW start \in Nat,
         NEW c, c = OpenedWith(b, f, BoundsFrom(start, f))
  PROVE  /\ Ensured(b, c) /\ Well(c) /\ Seals(b, c) /\ Chained(c) /\ c.period # <<>>
         /\ Live(b) = {} /\ Live(c) = {} /\ c.concept = b.concept
<1>. DEFINE window == BoundsFrom(start, f)
            rotated == [b EXCEPT !.period = [p \in DOMAIN @ |->
                          IF p \in OpenPeriods(b) THEN [@[p] EXCEPT !.status = "review"]
                          ELSE @[p]]]
            row == [status |-> "open", frequency |-> f,
                    startsAt |-> window.startsAt, endsAt |-> window.endsAt]
<1>1. Length[f] \in Nat \ {0}
  BY PayrollAssumption
<1>2. /\ window.startsAt = start /\ window.endsAt = start + Length[f] - 1
      /\ window.endsAt \in Nat
  BY <1>1 DEF BoundsFrom
<1>3. rotated = b
  <2>1. b \in TypedBooks
    BY DEF Well
  <2>. DEFINE t == [p \in DOMAIN b.period |->
                      IF p \in OpenPeriods(b) THEN [b.period[p] EXCEPT !.status = "review"]
                      ELSE b.period[p]]
  <2>2. t = b.period
    <3>1. DOMAIN b.period = {} /\ b.period = [p \in DOMAIN b.period |-> b.period[p]]
      OBVIOUS
    <3>. QED BY <3>1
  <2>3. rotated = [b EXCEPT !.period = t]
    OBVIOUS
  <2>. HIDE DEF t, rotated
  <2>. QED BY <2>1, <2>2, <2>3, ExceptIs, BooksAre
<1>. HIDE DEF rotated
<1>4. NewPeriod(b, c, row)
  <2>1. rotated = [b EXCEPT !.period = [p \in DOMAIN @ |->
                     IF p \in OpenPeriods(b) THEN [@[p] EXCEPT !.status = "review"] ELSE @[p]]]
    BY DEF rotated
  <2>2. c = OpenedWith(rotated, f, window)
    BY <1>3
  <2>. HIDE DEF window
  <2>. QED BY <1>2, <2>1, <2>2, OpenedWithIs
<1>5. row \in PeriodRow /\ row.status = "open"
      /\ row.endsAt = row.startsAt + Length[row.frequency] - 1
  <2>. HIDE DEF window
  <2>. QED BY <1>2 DEF PeriodRow, PeriodStatus
<1>. HIDE DEF row
<1>6. Ensured(b, c)
  BY <1>4, <1>5 DEF Ensured
<1>7. Well(c) /\ OpenPeriods(c) # {} /\ c.concept = b.concept /\ Seals(b, c)
  BY <1>6, EnsuredIsWell, EnsuredSeals
<1>8. Chained(c)
  <2>1. Chained(b)
    BY DEF Chained, Apart, OpenIsLast, OpenPeriods
  <2>. QED BY <1>6, <2>1, EnsuredIsChained
<1>9. c.period # <<>>
  BY <1>7 DEF OpenPeriods
<1>10. Live(b) = {} /\ Live(c) = {}
  <2>1. Live(b) = {}
    BY DEF Well
  <2>. QED BY <1>7, <2>1, SameLive
<1>. QED BY <1>6, <1>7, <1>8, <1>9, <1>10

-----------------------------------------------------------------------------
(* The inductive invariant *)

\* A concept is undone after it was written.
LooksBack(b) ==
  \A j \in Live(b) : b.concept[j].type = "reversal" =>
    b.concept[j].source \in Nat /\ b.concept[j].source < j

Bounded(b) == Len(b.period) <= MaxPeriods /\ Len(b.concept) <= MaxConcepts

Sane(b, cuts) ==
  /\ Well(b) /\ Bounded(b) /\ DiscountsLower(b) /\ Bound(b) /\ LooksBack(b)
  /\ cuts = 0 => InOrder(b)

\* Every purchase has its sale, and one that was undone has it void.
Bought(b, sold, cuts) ==
  \A i \in Live(b) : b.concept[i].type = "purchase" =>
    /\ b.concept[i].source \in DOMAIN sold
    /\ cuts = 0 /\ Reversed(b, i) => sold[b.concept[i].source] = "void"

\* Until a charge of the appointment is undone, it has no concept before it is
\* charged and one commission at most after.
OneCommission(b, a) ==
  \A i, j \in ConceptsOf(b, a) :
    b.concept[i].type = "commission" /\ b.concept[j].type = "commission" => i = j
Once(b, pay, undone) ==
  \A a \in Appointment : undone[a] = 0 =>
    OneCommission(b, a) /\ (pay[a] = NoPayment => ConceptsOf(b, a) = {})

Stocked == stock + Cardinality({s \in DOMAIN sale : sale[s] = "sold"}) = InitialStock

OtherTypes ==
  /\ now \in Day /\ config \in Frequency \cup {None}
  /\ payment \in [Appointment -> PaymentRow \cup {NoPayment}]
  /\ reversals \in [Appointment -> Nat]
  /\ stock \in Nat /\ sale \in Seq({"sold", "void"})
  /\ changes \in 0..MaxChanges /\ crashes \in 0..MaxCrashes

PayrollInv ==
  /\ OtherTypes /\ Sane(Books, crashes) /\ Bought(Books, sale, crashes)
  /\ Once(Books, payment, reversals) /\ Stocked

LEMMA WriteIs ==
  ASSUME NEW c \in TypedBooks, Write(c)
  PROVE  Books' = c /\ Bounded(c)
<1>1. /\ period' = c.period /\ concept' = c.concept /\ frozen' = c.frozen /\ paid' = c.paid
      /\ Bounded(c)
  BY DEF Write, Bounded
<1>2. c = [period |-> c.period, concept |-> c.concept, frozen |-> c.frozen, paid |-> c.paid]
  BY BooksAre
<1>3. Books' = [period |-> period', concept |-> concept', frozen |-> frozen', paid |-> paid']
  BY DEF Books
<1>. QED BY <1>1, <1>2, <1>3

LEMMA BooksFields ==
  /\ Books.period = period /\ Books.concept = concept
  /\ Books.frozen = frozen /\ Books.paid = paid
BY DEF Books

LEMMA SameBooks ==
  ASSUME UNCHANGED books
  PROVE  Books' = Books
<1>1. period' = period /\ concept' = concept /\ frozen' = frozen /\ paid' = paid
  BY DEF books
<1>2. Books' = [period |-> period', concept |-> concept', frozen |-> frozen', paid |-> paid']
  BY DEF Books
<1>3. Books = [period |-> period, concept |-> concept, frozen |-> frozen, paid |-> paid]
  BY DEF Books
<1>. QED BY <1>1, <1>2, <1>3

\* The type invariant is what the books are worth and the rest of the state.
LEMMA TypesFollow ==
  ASSUME OtherTypes, Well(Books), Bounded(Books)
  PROVE  TypeOK
<1>1. Books \in TypedBooks
  BY DEF Well
<1>2. /\ period \in Seq(PeriodRow) /\ concept \in Seq(Entry \cup {Deleted})
      /\ frozen \in [Key -> Int] /\ paid \in [Key -> Nat]
  BY <1>1 DEF TypedBooks, Books
<1>3. Len(period) <= MaxPeriods /\ Len(concept) <= MaxConcepts
  BY BooksFields DEF Bounded
<1>4. \A i \in Live(Books) : concept[i].period \in DOMAIN period
  BY BooksFields DEF Well
<1>5. concept \in Seq(ConceptRow \cup {Deleted})
  <2>1. ASSUME NEW i \in 1..Len(concept) PROVE concept[i] \in ConceptRow \cup {Deleted}
    <3>1. CASE concept[i] = Deleted
      BY <3>1
    <3>2. CASE concept[i] # Deleted
      <4>1. i \in Live(Books)
        BY <1>2, <3>2, BooksFields DEF Live
      <4>2. concept[i].period \in DOMAIN period
        BY <1>4, <4>1
      <4>3. concept[i].period \in 1..MaxPeriods
        <5>1. Len(period) \in Nat /\ DOMAIN period = 1..Len(period)
          BY <1>2
        <5>2. MaxPeriods \in Nat
          BY PayrollAssumption
        <5>. QED BY <1>3, <4>2, <5>1, <5>2
      <4>4. concept[i] \in Entry
        BY <1>2, <3>2
      <4>. QED BY <4>3, <4>4 DEF Entry, ConceptRow
    <3>. QED BY <3>1, <3>2
  <2>2. Len(concept) \in Nat /\ DOMAIN concept = 1..Len(concept)
    BY <1>2
  <2>3. concept = [i \in 1..Len(concept) |-> concept[i]]
    BY <1>2
  <2>. QED BY <2>1, <2>2, <2>3
<1>. QED BY <1>2, <1>3, <1>4, <1>5 DEF OtherTypes, TypeOK

-----------------------------------------------------------------------------
(* What each kind of writing keeps *)

LEMMA OldConcepts ==
  ASSUME NEW b \in TypedBooks
  PROVE  /\ Len(b.concept) \in Nat
         /\ \A i \in Live(b) : i \in Nat /\ i <= Len(b.concept) /\ i >= 1
  BY BookRows

LEMMA SameLooksBack ==
  ASSUME NEW b, LooksBack(b), NEW c, c.concept = b.concept
  PROVE  LooksBack(c)
<1>1. Live(c) = Live(b)
  BY SameLive
<1>. QED BY <1>1 DEF LooksBack

LEMMA NotedLooksBack ==
  ASSUME NEW b \in TypedBooks, LooksBack(b), NEW c, NEW e, Noted(b, c, e),
         e.type # "reversal" \/ (e.source \in Nat /\ e.source <= Len(b.concept))
  PROVE  LooksBack(c)
<1>1. Len(b.concept) \in Nat
  BY OldConcepts
<1>2. SUFFICES ASSUME NEW j \in Live(c), c.concept[j].type = "reversal"
               PROVE  c.concept[j].source \in Nat /\ c.concept[j].source < j
  BY DEF LooksBack
<1>3. CASE j \in Live(b)
  BY <1>2, <1>3 DEF Noted, LooksBack
<1>4. CASE j = Len(b.concept) + 1
  <2>1. c.concept[j] = e
    BY <1>4 DEF Noted
  <2>. QED BY <1>1, <1>2, <1>4, <2>1
<1>. QED BY <1>3, <1>4 DEF Noted

LEMMA UndoLooksBack ==
  ASSUME NEW b, Well(b), LooksBack(b), NEW a, NEW n, NEW d, UndoBooks(b, a, n, d)
  PROVE  LooksBack(d)
<1>1. /\ Len(b.concept) \in Nat /\ DOMAIN b.concept = 1..Len(b.concept)
      /\ ConceptsOf(b, a) \subseteq 1..Len(b.concept)
      /\ d \in TypedBooks
  BY ConceptsOfAre DEF Well, UndoBooks
<1>2. \A j \in Live(d) : j \in Nat /\ j >= 1
  BY <1>1, OldConcepts
<1>3. SUFFICES ASSUME NEW j \in Live(d), d.concept[j].type = "reversal"
               PROVE  d.concept[j].source \in Nat /\ d.concept[j].source < j
  BY DEF LooksBack
<1>4. CASE j <= Len(b.concept)
  <2>1. j \in DOMAIN b.concept /\ d.concept[j] # Deleted
    BY <1>1, <1>2, <1>4 DEF Live
  <2>2. d.concept[j] = b.concept[j]
    BY <2>1 DEF UndoBooks, KeptOrDeleted
  <2>3. j \in Live(b)
    BY <2>1, <2>2 DEF Live
  <2>. QED BY <1>3, <2>2, <2>3 DEF LooksBack
<1>5. CASE j > Len(b.concept)
  <2>1. j \in New(b, d)
    BY <1>5 DEF New
  <2>2. PICK i \in ConceptsOf(b, a) : Undoes(b, d, j, i)
    BY <2>1 DEF UndoBooks, NewUndo
  <2>3. d.concept[j].source = i /\ i \in 1..Len(b.concept)
    BY <1>1, <2>2 DEF Undoes
  <2>. QED BY <1>1, <1>2, <1>5, <2>3
<1>. QED BY <1>1, <1>2, <1>4, <1>5

LEMMA UndoLower ==
  ASSUME NEW b, Well(b), DiscountsLower(b), NEW a, NEW n, NEW d, UndoBooks(b, a, n, d)
  PROVE  DiscountsLower(d)
<1>1. /\ Len(b.concept) \in Nat /\ DOMAIN b.concept = 1..Len(b.concept) /\ d \in TypedBooks
  BY BookRows DEF Well, UndoBooks
<1>2. \A j \in Live(d) : j \in Nat /\ j >= 1
  BY <1>1, OldConcepts
<1>3. SUFFICES ASSUME NEW j \in Live(d), d.concept[j].type = "discount"
               PROVE  d.concept[j].amount <= 0
  BY DEF DiscountsLower
<1>4. CASE j <= Len(b.concept)
  <2>1. j \in DOMAIN b.concept /\ d.concept[j] # Deleted
    BY <1>1, <1>2, <1>4 DEF Live
  <2>2. d.concept[j] = b.concept[j]
    BY <2>1 DEF UndoBooks, KeptOrDeleted
  <2>3. j \in Live(b)
    BY <2>1, <2>2 DEF Live
  <2>. QED BY <1>3, <2>2, <2>3 DEF DiscountsLower
<1>5. CASE j > Len(b.concept)
  <2>1. j \in New(b, d)
    BY <1>5 DEF New
  <2>2. d.concept[j].type = "reversal"
    BY <2>1 DEF UndoBooks, NewUndo, Undoes
  <2>. QED BY <1>3, <2>2
<1>. QED BY <1>1, <1>2, <1>4, <1>5

\* The concepts of the appointment in c were there in b.
SameFor(b, c, a) ==
  \A i \in ConceptsOf(c, a) : i \in ConceptsOf(b, a) /\ c.concept[i] = b.concept[i]

\* The purchases of c, and those undone in it, were there in b.
SamePurchases(b, c) ==
  \A i \in Live(c) : c.concept[i].type = "purchase" =>
    /\ i \in Live(b) /\ c.concept[i] = b.concept[i]
    /\ Reversed(c, i) => Reversed(b, i)

LEMMA NotedSameFor ==
  ASSUME NEW b, NEW c, NEW e, Noted(b, c, e), NEW a,
         e.type \notin {"commission", "discount"} \/ e.source # a
  PROVE  SameFor(b, c, a)
BY DEF SameFor, Noted, ConceptsOf

LEMMA NotedSamePurchases ==
  ASSUME NEW b, NEW c, NEW e, Noted(b, c, e), e.type # "purchase",
         e.type # "reversal" \/ \A i \in Live(b) : i = e.source => b.concept[i].type # "purchase"
  PROVE  SamePurchases(b, c)
<1>1. SUFFICES ASSUME NEW i \in Live(c), c.concept[i].type = "purchase"
               PROVE  /\ i \in Live(b) /\ c.concept[i] = b.concept[i]
                      /\ Reversed(c, i) => Reversed(b, i)
  BY DEF SamePurchases
<1>2. i \in Live(b) /\ c.concept[i] = b.concept[i]
  BY <1>1 DEF Noted
<1>3. ASSUME NEW j \in Live(c), c.concept[j].type = "reversal", c.concept[j].source = i
      PROVE  j \in Live(b) /\ c.concept[j] = b.concept[j]
  <2>1. c.concept[j] # e
    BY <1>1, <1>2, <1>3
  <2>. QED BY <1>3, <2>1 DEF Noted
<1>. QED BY <1>2, <1>3 DEF Reversed

LEMMA SamePurchasesOn ==
  ASSUME NEW b, NEW c, NEW d, SamePurchases(b, c), SamePurchases(c, d)
  PROVE  SamePurchases(b, d)
BY DEF SamePurchases

LEMMA SameConceptsSame ==
  ASSUME NEW b, NEW c, c.concept = b.concept
  PROVE  SamePurchases(b, c) /\ \A a : SameFor(b, c, a)
<1>1. Live(c) = Live(b)
  BY SameLive
<1>. QED BY <1>1 DEF SamePurchases, SameFor, Reversed, ConceptsOf

LEMMA UndoSame ==
  ASSUME NEW b, Well(b), NEW a, NEW n, NEW d, UndoBooks(b, a, n, d)
  PROVE  SamePurchases(b, d) /\ \A x : SameFor(b, d, x)
<1>1. /\ Len(b.concept) \in Nat /\ DOMAIN b.concept = 1..Len(b.concept) /\ d \in TypedBooks
  BY BookRows DEF Well, UndoBooks
<1>2. \A j \in Live(d) : j \in Nat /\ j >= 1
  BY <1>1, OldConcepts
<1>3. ASSUME NEW j \in Live(d)
      PROVE  \/ j \in Live(b) /\ d.concept[j] = b.concept[j]
             \/ \E i \in ConceptsOf(b, a) :
                  d.concept[j].type = "reversal" /\ d.concept[j].source = i
  <2>1. CASE j <= Len(b.concept)
    <3>1. j \in DOMAIN b.concept /\ d.concept[j] # Deleted
      BY <1>1, <1>2, <2>1 DEF Live
    <3>2. d.concept[j] = b.concept[j]
      BY <3>1 DEF UndoBooks, KeptOrDeleted
    <3>3. j \in Live(b)
      BY <3>1, <3>2 DEF Live
    <3>. QED BY <3>2, <3>3
  <2>2. CASE j > Len(b.concept)
    <3>1. j \in New(b, d)
      BY <2>2 DEF New
    <3>2. PICK i \in ConceptsOf(b, a) : Undoes(b, d, j, i)
      BY <3>1 DEF UndoBooks, NewUndo
    <3>. QED BY <3>2 DEF Undoes
  <2>. QED BY <1>1, <1>2, <2>1, <2>2
<1>4. \A x : SameFor(b, d, x)
  <2>1. SUFFICES ASSUME NEW x, NEW i \in ConceptsOf(d, x)
                 PROVE  i \in ConceptsOf(b, x) /\ d.concept[i] = b.concept[i]
    BY DEF SameFor
  <2>2. i \in Live(d) /\ d.concept[i].type # "reversal"
    BY DEF ConceptsOf
  <2>3. i \in Live(b) /\ d.concept[i] = b.concept[i]
    BY <1>3, <2>2
  <2>. QED BY <2>3 DEF ConceptsOf
<1>5. SamePurchases(b, d)
  <2>1. SUFFICES ASSUME NEW i \in Live(d), d.concept[i].type = "purchase"
                 PROVE  /\ i \in Live(b) /\ d.concept[i] = b.concept[i]
                        /\ Reversed(d, i) => Reversed(b, i)
    BY DEF SamePurchases
  <2>2. i \in Live(b) /\ d.concept[i] = b.concept[i]
    BY <1>3, <2>1
  <2>3. ASSUME NEW j \in Live(d), d.concept[j].type = "reversal", d.concept[j].source = i
        PROVE  j \in Live(b) /\ d.concept[j] = b.concept[j]
    <3>1. i \notin ConceptsOf(b, a)
      BY <2>1, <2>2 DEF ConceptsOf
    <3>. QED BY <1>3, <2>3, <3>1
  <2>. QED BY <2>2, <2>3 DEF Reversed
<1>. QED BY <1>4, <1>5

LEMMA ChargeLooksBack ==
  ASSUME NEW b \in TypedBooks, LooksBack(b), NEW c, NEW a, ChargeWrites(b, c, a)
  PROVE  /\ LooksBack(c) /\ SamePurchases(b, c)
         /\ \A x : x # a => SameFor(b, c, x)
         /\ ConceptsOf(b, a) = {} => OneCommission(c, a)
<1>1. PICK u \in TypedBooks :
        /\ \/ u.concept = b.concept
           \/ \E e \in Entry : e.type = "commission" /\ e.source = a /\ Noted(b, u, e)
        /\ \/ c.concept = u.concept
           \/ \E e \in Entry : e.type = "discount" /\ e.source = a /\ Noted(u, c, e)
  BY DEF ChargeWrites
<1>2. /\ LooksBack(u) /\ SamePurchases(b, u) /\ \A x : x # a => SameFor(b, u, x)
      /\ ConceptsOf(b, a) = {} => OneCommission(u, a)
  <2>1. CASE u.concept = b.concept
    <3>1. LooksBack(u) /\ SamePurchases(b, u) /\ \A x : SameFor(b, u, x)
      BY <2>1, SameLooksBack, SameConceptsSame
    <3>2. ConceptsOf(b, a) = {} => ConceptsOf(u, a) = {}
      BY <3>1 DEF SameFor
    <3>. QED BY <3>1, <3>2 DEF OneCommission
  <2>2. ASSUME NEW e \in Entry, e.type = "commission", e.source = a, Noted(b, u, e)
        PROVE  /\ LooksBack(u) /\ SamePurchases(b, u) /\ \A x : x # a => SameFor(b, u, x)
               /\ ConceptsOf(b, a) = {} => OneCommission(u, a)
    <3>1. e.type # "reversal" /\ e.type # "purchase"
      BY <2>2
    <3>2. LooksBack(u)
      BY <2>2, <3>1, NotedLooksBack
    <3>3. SamePurchases(b, u)
      BY <2>2, <3>1, NotedSamePurchases
    <3>4. \A x : x # a => SameFor(b, u, x)
      BY <2>2, NotedSameFor
    <3>5. ConceptsOf(b, a) = {} => \A i \in ConceptsOf(u, a) : i = Len(b.concept) + 1
      BY <2>2 DEF Noted, ConceptsOf
    <3>. QED BY <3>2, <3>3, <3>4, <3>5 DEF OneCommission
  <2>. QED BY <1>1, <2>1, <2>2
<1>3. CASE c.concept = u.concept
  <2>1. LooksBack(c) /\ SamePurchases(u, c) /\ \A x : SameFor(u, c, x)
    BY <1>2, <1>3, SameLooksBack, SameConceptsSame
  <2>2. SamePurchases(b, c)
    BY <1>2, <2>1, SamePurchasesOn
  <2>3. \A x : x # a => SameFor(b, c, x)
    BY <1>2, <2>1 DEF SameFor
  <2>4. OneCommission(u, a) => OneCommission(c, a)
    BY <2>1 DEF SameFor, OneCommission
  <2>. QED BY <1>2, <2>1, <2>2, <2>3, <2>4
<1>4. ASSUME NEW e \in Entry, e.type = "discount", e.source = a, Noted(u, c, e)
      PROVE  /\ LooksBack(c) /\ SamePurchases(b, c)
             /\ \A x : x # a => SameFor(b, c, x)
             /\ ConceptsOf(b, a) = {} => OneCommission(c, a)
  <2>1. e.type # "reversal" /\ e.type # "purchase" /\ e.type # "commission"
    BY <1>4
  <2>2. LooksBack(c)
    BY <1>2, <1>4, <2>1, NotedLooksBack
  <2>3. SamePurchases(u, c)
    BY <1>4, <2>1, NotedSamePurchases
  <2>4. \A x : x # a => SameFor(u, c, x)
    BY <1>4, NotedSameFor
  <2>5. SamePurchases(b, c)
    BY <1>2, <2>3, SamePurchasesOn
  <2>6. \A x : x # a => SameFor(b, c, x)
    BY <1>2, <2>4 DEF SameFor
  <2>7. \A i \in ConceptsOf(c, a) : c.concept[i].type = "commission" =>
          i \in ConceptsOf(u, a) /\ u.concept[i] = c.concept[i]
    BY <1>4, <2>1 DEF Noted, ConceptsOf
  <2>8. OneCommission(u, a) => OneCommission(c, a)
    BY <2>7 DEF OneCommission
  <2>. QED BY <1>2, <2>2, <2>5, <2>6, <2>8
<1>. QED BY <1>1, <1>3, <1>4

-----------------------------------------------------------------------------
(* The invariant, part by part *)

LEMMA OnceKept ==
  ASSUME NEW b, NEW c, NEW pay, NEW pays, NEW undone, NEW undoes, Once(b, pay, undone),
         \A x \in Appointment : undoes[x] = 0 =>
           /\ undone[x] = 0 /\ SameFor(b, c, x)
           /\ pays[x] = NoPayment => pay[x] = NoPayment
  PROVE  Once(c, pays, undoes)
<1>1. SUFFICES ASSUME NEW x \in Appointment, undoes[x] = 0
               PROVE  OneCommission(c, x) /\ (pays[x] = NoPayment => ConceptsOf(c, x) = {})
  BY DEF Once
<1>2. /\ undone[x] = 0 /\ SameFor(b, c, x) /\ (pays[x] = NoPayment => pay[x] = NoPayment)
  BY <1>1
<1>3. OneCommission(b, x) /\ (pay[x] = NoPayment => ConceptsOf(b, x) = {})
  BY <1>2 DEF Once
<1>4. OneCommission(c, x)
  BY <1>2, <1>3 DEF OneCommission, SameFor
<1>. QED BY <1>2, <1>3, <1>4 DEF SameFor

LEMMA BoughtKept ==
  ASSUME NEW b, NEW c, NEW sold, NEW cuts, NEW more, Bought(b, sold, cuts),
         SamePurchases(b, c), more = 0 => cuts = 0
  PROVE  Bought(c, sold, more)
BY DEF Bought, SamePurchases

LEMMA SaneBySealing ==
  ASSUME NEW b, NEW cuts, Sane(b, cuts), NEW c, Seals(b, c), Bounded(c),
         DiscountsLower(c), LooksBack(c), NEW more, more = 0 => cuts = 0
  PROVE  Sane(c, more)
<1>1. Well(b) /\ Bound(b) /\ (cuts = 0 => InOrder(b))
  BY DEF Sane
<1>2. Well(c)
  BY DEF Seals
<1>3. Bound(c)
  BY <1>1, SealsKeepsBound
<1>4. InOrder(b) => InOrder(c)
  BY <1>1, SealsKeepsOrder
<1>. QED BY <1>1, <1>2, <1>3, <1>4 DEF Sane

LEMMA StatePartsAre ==
  ASSUME OtherTypes
  PROVE  Configured /\ Payments /\ crashes \in Nat /\ \A d \in Day : d \in Nat
BY PayrollAssumption DEF OtherTypes, Configured, Payments, Day

LEMMA CutIs ==
  ASSUME OtherTypes, NEW writes \in Nat, NEW all \in Nat, Cut(writes, all)
  PROVE  /\ crashes' \in 0..MaxCrashes
         /\ crashes' = crashes => ~(writes < all)
         /\ crashes' = 0 => crashes = 0 /\ ~(writes < all)
<1>1. crashes \in 0..MaxCrashes /\ MaxCrashes \in Nat
  BY PayrollAssumption DEF OtherTypes
<1>2. CASE writes < all
  BY <1>1, <1>2 DEF Cut
<1>3. CASE ~(writes < all)
  BY <1>1, <1>3 DEF Cut
<1>. QED BY <1>2, <1>3

LEMMA SoundIsTyped ==
  ASSUME NEW b, Well(b)
  PROVE  b \in TypedBooks
BY DEF Well

\* Of the approved periods every total stays.
KeepsTotals ==
  \A p \in DOMAIN period \cap DOMAIN period' : period[p].status \in Frozen =>
    \A w : Net(Books', p, w) = Net(Books, p, w)

LEMMA SealingKeepsTotals ==
  ASSUME Well(Books), Seals(Books, Books')
  PROVE  KeepsTotals
<1>1. \A p \in Sealed(Books) : \A w : Net(Books', p, w) = Net(Books, p, w)
  BY SealedTotals
<1>2. \A p \in DOMAIN period : period[p].status \in Frozen => p \in Sealed(Books)
  BY BooksFields DEF Sealed
<1>. QED BY <1>1, <1>2 DEF KeepsTotals

LEMMA SameConceptsKeepTotals ==
  ASSUME Well(Books), NEW c \in TypedBooks, Books' = c, c.concept = Books.concept
  PROVE  KeepsTotals
<1>1. \A p, w : Net(c, p, w) = Net(Books, p, w)
  BY SameTotals
<1>. QED BY <1>1 DEF KeepsTotals

-----------------------------------------------------------------------------
(* Charging *)

LEMMA ChargeIs ==
  ASSUME PayrollInv, NEW a \in Appointment, Charge(a)
  PROVE  /\ ~Charged(a) /\ UNCHANGED <<now, config, reversals, shop, changes>>
         /\ \E date \in Day, amount \in Commission : \E c \in TypedBooks :
              /\ payment' = [payment EXCEPT ![a] = [paidAt |-> date, commission |-> amount]]
              /\ Books' = c /\ Bounded(c) /\ Well(c) /\ DiscountsLower(c) /\ Bound(c)
              /\ (Chained(Books) => Chained(c)) /\ ChargeWrites(Books, c, a)
              /\ crashes' \in 0..MaxCrashes
              /\ crashes' = 0 => crashes = 0 /\ (InOrder(Books) => InOrder(c))
              /\ /\ crashes' = crashes /\ ~BeforeActivation(c, date)
                 /\ ~HasA(Books, a, "commission") /\ ~HasA(Books, a, "discount")
                 => Credits(Books, c, a, amount)
<1>1. ~Charged(a) /\ UNCHANGED <<now, config, reversals, shop, changes>>
  BY DEF Charge
<1>2. /\ Well(Books) /\ DiscountsLower(Books) /\ Bound(Books) /\ OtherTypes /\ Configured
      /\ \A d \in Day : d \in Nat
  BY StatePartsAre DEF PayrollInv, Sane
<1>3. PICK date \in Day, amount \in Commission, choice \in {"past", "current"} :
        /\ payment' = [payment EXCEPT ![a] = [paidAt |-> date, commission |-> amount]]
        /\ \/ \E discount \in Discount, writes \in 0..4 :
                /\ Cut(writes, 4)
                /\ Write(AttributedBooks(Target(Books, date, choice), a, date, amount,
                                         discount, writes))
           \/ \E writes \in 0..1 :
                /\ Cut(writes, 1)
                /\ Write(PlainBooks(Target(Books, date, choice), a, date, amount, writes))
  BY DEF Charge
<1>4. date \in Nat
  BY <1>2
<1>5. ASSUME NEW writes \in Nat, NEW all \in Nat, writes <= all, Cut(writes, all), NEW c, Write(c),
             ChargeIsSound(Books, c, a, date, amount, writes = all)
      PROVE  /\ c \in TypedBooks /\ Books' = c /\ Bounded(c) /\ Well(c) /\ DiscountsLower(c)
             /\ Bound(c) /\ (Chained(Books) => Chained(c)) /\ ChargeWrites(Books, c, a)
             /\ crashes' \in 0..MaxCrashes
             /\ crashes' = 0 => crashes = 0 /\ (InOrder(Books) => InOrder(c))
             /\ /\ crashes' = crashes /\ ~BeforeActivation(c, date)
                /\ ~HasA(Books, a, "commission") /\ ~HasA(Books, a, "discount")
                => Credits(Books, c, a, amount)
  <2>1. /\ Well(c) /\ DiscountsLower(c) /\ Bound(c)
        /\ (Chained(Books) => Chained(c)) /\ ChargeWrites(Books, c, a)
        /\ writes = all => (InOrder(Books) => InOrder(c))
        /\ writes = all =>
             (/\ ~BeforeActivation(c, date)
              /\ ~HasA(Books, a, "commission") /\ ~HasA(Books, a, "discount")
              => Credits(Books, c, a, amount))
    BY <1>5 DEF ChargeIsSound
  <2>2. c \in TypedBooks
    BY <2>1, SoundIsTyped
  <2>3. Books' = c /\ Bounded(c)
    BY <1>5, <2>2, WriteIs
  <2>4. /\ crashes' \in 0..MaxCrashes
        /\ crashes' = crashes => writes = all
        /\ crashes' = 0 => crashes = 0 /\ writes = all
    <3>1. ~(writes < all) => writes = all
      BY <1>5
    <3>. QED BY <1>2, <1>5, <3>1, CutIs
  <2>. QED BY <2>1, <2>2, <2>3, <2>4
<1>6. CASE \E discount \in Discount, writes \in 0..4 :
             /\ Cut(writes, 4)
             /\ Write(AttributedBooks(Target(Books, date, choice), a, date, amount,
                                      discount, writes))
  <2>1. PICK discount \in Discount, writes \in 0..4 :
          /\ Cut(writes, 4)
          /\ Write(AttributedBooks(Target(Books, date, choice), a, date, amount,
                                   discount, writes))
    BY <1>6
  <2>2. PICK t : t = Target(Books, date, choice)
    OBVIOUS
  <2>3. PICK c : c = AttributedBooks(t, a, date, amount, discount, writes)
    OBVIOUS
  <2>4. ChargeIsSound(Books, c, a, date, amount, writes = 4)
    BY <1>2, <1>4, <2>2, <2>3, AttributedIsSound
  <2>5. Write(c) /\ writes \in Nat /\ writes <= 4 /\ 4 \in Nat
    BY <2>1, <2>2, <2>3
  <2>. QED BY <1>1, <1>3, <1>5, <2>1, <2>4, <2>5
<1>7. CASE \E writes \in 0..1 :
             /\ Cut(writes, 1)
             /\ Write(PlainBooks(Target(Books, date, choice), a, date, amount, writes))
  <2>1. PICK writes \in 0..1 :
          /\ Cut(writes, 1)
          /\ Write(PlainBooks(Target(Books, date, choice), a, date, amount, writes))
    BY <1>7
  <2>2. PICK t : t = Target(Books, date, choice)
    OBVIOUS
  <2>3. PICK c : c = PlainBooks(t, a, date, amount, writes)
    OBVIOUS
  <2>4. ChargeIsSound(Books, c, a, date, amount, writes = 1)
    BY <1>2, <1>4, <2>2, <2>3, PlainIsSound
  <2>5. Write(c) /\ writes \in Nat /\ writes <= 1 /\ 1 \in Nat
    BY <2>1, <2>2, <2>3
  <2>. QED BY <1>1, <1>3, <1>5, <2>1, <2>4, <2>5
<1>. QED BY <1>3, <1>6, <1>7

LEMMA ChargeIsPaid ==
  ASSUME NEW date \in Day, NEW amount \in Commission
  PROVE  /\ [paidAt |-> date, commission |-> amount] \in PaymentRow
         /\ [paidAt |-> date, commission |-> amount] # NoPayment
<1>1. amount # 0
  BY PayrollAssumption
<1>. QED BY <1>1 DEF PaymentRow, NoPayment

LEMMA ChargeKeeps ==
  ASSUME PayrollInv, NEW a \in Appointment, Charge(a)
  PROVE  PayrollInv' /\ (Chained(Books) => Apart(Books'))
<1>1. PICK date \in Day, amount \in Commission : \E c \in TypedBooks :
        /\ payment' = [payment EXCEPT ![a] = [paidAt |-> date, commission |-> amount]]
        /\ Books' = c /\ Bounded(c) /\ Well(c) /\ DiscountsLower(c) /\ Bound(c)
        /\ (Chained(Books) => Chained(c)) /\ ChargeWrites(Books, c, a)
        /\ crashes' \in 0..MaxCrashes
        /\ crashes' = 0 => crashes = 0 /\ (InOrder(Books) => InOrder(c))
  BY ChargeIs
<1>2. PICK c \in TypedBooks :
        /\ Books' = c /\ Bounded(c) /\ Well(c) /\ DiscountsLower(c) /\ Bound(c)
        /\ (Chained(Books) => Chained(c)) /\ ChargeWrites(Books, c, a)
        /\ crashes' = 0 => crashes = 0 /\ (InOrder(Books) => InOrder(c))
  BY <1>1
<1>3. ~Charged(a) /\ UNCHANGED <<now, config, reversals, shop, changes>>
  BY ChargeIs
<1>4. /\ Books \in TypedBooks /\ LooksBack(Books) /\ (crashes = 0 => InOrder(Books))
      /\ OtherTypes /\ Bought(Books, sale, crashes) /\ Once(Books, payment, reversals) /\ Stocked
  BY DEF PayrollInv, Sane, Well
<1>5. /\ LooksBack(c) /\ SamePurchases(Books, c) /\ \A x : x # a => SameFor(Books, c, x)
      /\ ConceptsOf(Books, a) = {} => OneCommission(c, a)
  BY <1>2, <1>4, ChargeLooksBack
<1>6. Sane(c, crashes')
  BY <1>2, <1>4, <1>5 DEF Sane
<1>7. Bought(c, sale', crashes')
  <2>1. sale' = sale
    BY <1>3 DEF shop
  <2>2. Bought(c, sale, crashes')
    BY <1>2, <1>4, <1>5, BoughtKept
  <2>. QED BY <2>1, <2>2
<1>8. /\ payment' \in [Appointment -> PaymentRow \cup {NoPayment}]
      /\ payment'[a] # NoPayment /\ \A x \in Appointment : x # a => payment'[x] = payment[x]
  BY <1>1, <1>4, ChargeIsPaid DEF OtherTypes
<1>9. Once(c, payment', reversals')
  <2>1. SUFFICES ASSUME NEW x \in Appointment, reversals[x] = 0
                 PROVE  /\ OneCommission(c, x)
                        /\ payment'[x] = NoPayment => ConceptsOf(c, x) = {}
    BY <1>3 DEF Once
  <2>2. OneCommission(Books, x) /\ (payment[x] = NoPayment => ConceptsOf(Books, x) = {})
    BY <1>4, <2>1 DEF Once
  <2>3. CASE x = a
    BY <1>3, <1>5, <1>8, <2>2, <2>3 DEF Charged
  <2>4. CASE x # a
    <3>1. SameFor(Books, c, x) /\ payment'[x] = payment[x]
      BY <1>5, <1>8, <2>4
    <3>2. OneCommission(c, x)
      BY <2>2, <3>1 DEF OneCommission, SameFor
    <3>. QED BY <2>2, <3>1, <3>2 DEF SameFor
  <2>. QED BY <2>3, <2>4
<1>10. OtherTypes'
  BY <1>1, <1>3, <1>4, <1>8 DEF OtherTypes, shop
<1>11. Stocked'
  BY <1>3, <1>4 DEF Stocked, shop
<1>12. Chained(Books) => Apart(Books')
  BY <1>2 DEF Chained
<1>. QED BY <1>2, <1>6, <1>7, <1>9, <1>10, <1>11, <1>12 DEF PayrollInv

-----------------------------------------------------------------------------
(* Undoing *)

\* What is written without touching an approved period or a purchase.
LEMMA SealingKeeps ==
  ASSUME PayrollInv, NEW c \in TypedBooks, Bounded(c), Seals(Books, c), DiscountsLower(c),
         LooksBack(c), SamePurchases(Books, c), crashes' = 0 => crashes = 0, sale' = sale
  PROVE  Sane(c, crashes') /\ Bought(c, sale', crashes')
<1>1. Sane(Books, crashes) /\ Bought(Books, sale, crashes)
  BY DEF PayrollInv
<1>2. Sane(c, crashes')
  BY <1>1, SaneBySealing
<1>3. Bought(c, sale, crashes')
  BY <1>1, BoughtKept
<1>. QED BY <1>2, <1>3

LEMMA RevertPaymentIs ==
  ASSUME PayrollInv, NEW a \in Appointment, RevertPayment(a)
  PROVE  \E c \in TypedBooks :
           /\ Books' = c /\ Bounded(c) /\ Seals(Books, c) /\ DiscountsLower(c) /\ LooksBack(c)
           /\ (Chained(Books) => Chained(c)) /\ SamePurchases(Books, c)
           /\ \A x : SameFor(Books, c, x)
           /\ crashes' \in 0..MaxCrashes /\ (crashes' = 0 => crashes = 0)
           /\ crashes' = crashes /\ (\A i \in ConceptsOf(Books, a) : ~Reversed(Books, i))
              => Owed(c, a) = 0
<1>1. /\ Well(Books) /\ DiscountsLower(Books) /\ LooksBack(Books) /\ OtherTypes /\ Configured
      /\ Books \in TypedBooks
  BY StatePartsAre DEF PayrollInv, Sane, Well
<1>2. PICK writes \in 0..1 :
        Cut(writes, 1) /\ Write(IF writes = 0 THEN Books ELSE UndoConcepts(Books, a))
  BY DEF RevertPayment
<1>3. /\ crashes' \in 0..MaxCrashes /\ (crashes' = 0 => crashes = 0)
      /\ crashes' = crashes => writes = 1
  <2>1. writes \in Nat /\ 1 \in Nat /\ (~(writes < 1) => writes = 1)
    OBVIOUS
  <2>. QED BY <1>1, <1>2, <2>1, CutIs
<1>4. CASE writes = 0
  <2>1. Write(Books)
    BY <1>2, <1>4
  <2>2. Books' = Books /\ Bounded(Books)
    BY <1>1, <2>1, WriteIs
  <2>3. Seals(Books, Books) /\ SamePurchases(Books, Books) /\ \A x : SameFor(Books, Books, x)
    BY <1>1, SealsItself, SameConceptsSame
  <2>4. crashes' # crashes
    BY <1>3, <1>4
  <2>. QED BY <1>1, <1>3, <2>2, <2>3, <2>4
<1>5. CASE writes = 1
  <2>1. PICK c : c = UndoConcepts(Books, a)
    OBVIOUS
  <2>2. /\ Well(c) /\ Seals(Books, c) /\ (Chained(Books) => Chained(c))
        /\ \E d : /\ UndoBooks(Books, a, Len(Books.concept), d) /\ c.concept = d.concept
                  /\ (\A i \in ConceptsOf(Books, a) : ~Reversed(Books, i))
                     => AllUndone(Books, a, Len(Books.concept), d)
    BY <1>1, <2>1, UndoConceptsIs
  <2>3. PICK d : /\ UndoBooks(Books, a, Len(Books.concept), d) /\ c.concept = d.concept
                 /\ (\A i \in ConceptsOf(Books, a) : ~Reversed(Books, i))
                    => AllUndone(Books, a, Len(Books.concept), d)
    BY <2>2
  <2>4. c \in TypedBooks /\ Write(c)
    BY <1>2, <1>5, <2>1, <2>2, SoundIsTyped
  <2>5. Books' = c /\ Bounded(c)
    BY <2>4, WriteIs
  <2>6. /\ LooksBack(d) /\ DiscountsLower(d) /\ SamePurchases(Books, d)
        /\ \A x : SameFor(Books, d, x)
    BY <1>1, <2>3, UndoLooksBack, UndoLower, UndoSame
  <2>7. LooksBack(c) /\ DiscountsLower(c)
    BY <2>3, <2>6, SameLooksBack, SameConceptsLower
  <2>8. SamePurchases(d, c) /\ \A x : SameFor(d, c, x)
    BY <2>3, SameConceptsSame
  <2>9. SamePurchases(Books, c)
    BY <2>6, <2>8, SamePurchasesOn
  <2>10. \A x : SameFor(Books, c, x)
    BY <2>6, <2>8 DEF SameFor
  <2>11. (\A i \in ConceptsOf(Books, a) : ~Reversed(Books, i)) => Owed(c, a) = 0
    <3>1. SUFFICES ASSUME \A i \in ConceptsOf(Books, a) : ~Reversed(Books, i)
                   PROVE  Owed(c, a) = 0
      OBVIOUS
    <3>2. Owed(d, a) = 0
      BY <1>1, <2>3, <3>1, UndoneOwesNothing
    <3>3. Owed(c, a) = Owed(d, a)
      BY <2>3, SameOwed
    <3>. QED BY <3>2, <3>3
  <2>. QED BY <1>3, <2>2, <2>4, <2>5, <2>7, <2>9, <2>10, <2>11
<1>. QED BY <1>4, <1>5

LEMMA RevertPaymentKeeps ==
  ASSUME PayrollInv, NEW a \in Appointment, RevertPayment(a)
  PROVE  PayrollInv' /\ (Chained(Books) => Apart(Books')) /\ KeepsTotals
<1>1. PICK c \in TypedBooks :
        /\ Books' = c /\ Bounded(c) /\ Seals(Books, c) /\ DiscountsLower(c) /\ LooksBack(c)
        /\ (Chained(Books) => Chained(c)) /\ SamePurchases(Books, c)
        /\ \A x : SameFor(Books, c, x)
        /\ crashes' \in 0..MaxCrashes /\ (crashes' = 0 => crashes = 0)
  BY RevertPaymentIs
<1>2. /\ payment' = [payment EXCEPT ![a] = NoPayment]
      /\ reversals' = [reversals EXCEPT ![a] = @ + 1]
      /\ UNCHANGED <<now, config, shop, changes>>
  BY DEF RevertPayment
<1>3. OtherTypes /\ Stocked /\ Once(Books, payment, reversals) /\ Well(Books)
  BY DEF PayrollInv, Sane
<1>4. /\ payment' \in [Appointment -> PaymentRow \cup {NoPayment}]
      /\ reversals' \in [Appointment -> Nat] /\ reversals'[a] # 0
      /\ \A x \in Appointment : x # a => payment'[x] = payment[x] /\ reversals'[x] = reversals[x]
  BY <1>2, <1>3 DEF OtherTypes
<1>5. Sane(c, crashes') /\ Bought(c, sale', crashes')
  <2>1. sale' = sale
    BY <1>2 DEF shop
  <2>. QED BY <1>1, <2>1, SealingKeeps
<1>6. Once(c, payment', reversals')
  BY <1>1, <1>3, <1>4, OnceKept
<1>7. OtherTypes' /\ Stocked'
  BY <1>1, <1>2, <1>3, <1>4 DEF OtherTypes, Stocked, shop
<1>8. KeepsTotals
  BY <1>1, <1>3, SealingKeepsTotals
<1>. QED BY <1>1, <1>5, <1>6, <1>7, <1>8 DEF PayrollInv, Chained

LEMMA RestoreIs ==
  ASSUME OtherTypes, Stocked, NEW s \in DOMAIN sale, RestorePurchase(s)
  PROVE  /\ sale' \in Seq({"sold", "void"}) /\ DOMAIN sale' = DOMAIN sale /\ sale'[s] = "void"
         /\ \A k \in DOMAIN sale : sale[k] = "void" => sale'[k] = "void"
         /\ stock' \in Nat /\ Stocked'
<1>1. sale \in Seq({"sold", "void"}) /\ stock \in Nat
  BY DEF OtherTypes
<1>2. DOMAIN sale = 1..Len(sale) /\ Len(sale) \in Nat /\ \A k \in DOMAIN sale : sale[k] \in {"sold", "void"}
  BY <1>1
<1>3. CASE sale[s] # "sold"
  <2>1. sale' = sale /\ stock' = stock
    BY <1>3 DEF RestorePurchase, shop
  <2>. QED BY <1>1, <1>2, <1>3, <2>1 DEF Stocked
<1>4. CASE sale[s] = "sold"
  <2>1. sale' = [sale EXCEPT ![s] = "void"] /\ stock' = stock + 1
    BY <1>4 DEF RestorePurchase
  <2>2. /\ sale' \in Seq({"sold", "void"}) /\ DOMAIN sale' = DOMAIN sale
        /\ \A k \in DOMAIN sale : sale'[k] = IF k = s THEN "void" ELSE sale[k]
    BY <1>1, <2>1, ExceptSeq
  <2>. DEFINE S == {k \in DOMAIN sale : sale[k] = "sold"}
  <2>3. {k \in DOMAIN sale' : sale'[k] = "sold"} = S \ {s} /\ s \in S
    BY <1>4, <2>2
  <2>4. IsFiniteSet(S)
    <3>1. Len(sale) \in Int /\ 1 \in Int
      BY <1>2
    <3>2. IsFiniteSet(1..Len(sale))
      BY <3>1, FS_Interval
    <3>3. S \subseteq 1..Len(sale)
      BY <1>2
    <3>. QED BY <3>2, <3>3, FS_Subset
  <2>5. Cardinality(S \ {s}) = Cardinality(S) - 1 /\ Cardinality(S) \in Nat
    BY <2>3, <2>4, FS_RemoveElement, FS_CardinalityType
  <2>6. Stocked'
    <3>1. stock + Cardinality(S) = InitialStock
      BY DEF Stocked
    <3>2. stock' + Cardinality(S \ {s}) = InitialStock
      BY <1>1, <2>1, <2>5, <3>1
    <3>. QED BY <2>3, <3>2 DEF Stocked
  <2>. QED BY <1>1, <2>1, <2>2, <2>6
<1>. QED BY <1>3, <1>4

LEMMA ReverseConceptIs ==
  ASSUME PayrollInv, NEW i, ReverseConcept(i)
  PROVE  \E c \in TypedBooks, p \in Nat \ {0} :
           /\ Books' = c /\ Bounded(c) /\ Seals(Books, c) /\ DiscountsLower(c) /\ LooksBack(c)
           /\ (Chained(Books) => Chained(c)) /\ \A x : SameFor(Books, c, x)
           /\ i \in Live(Books) /\ Noted(Books, c, ReversalOf(Books, i, p))
<1>1. /\ Well(Books) /\ DiscountsLower(Books) /\ LooksBack(Books) /\ OtherTypes /\ Configured
      /\ Books \in TypedBooks
  BY StatePartsAre DEF PayrollInv, Sane, Well
<1>2. i \in Live(Books) /\ Write(ReverseIn(Books, i))
  BY DEF ReverseConcept
<1>3. PICK c : c = ReverseIn(Books, i)
  OBVIOUS
<1>4. /\ Well(c) /\ Seals(Books, c) /\ (Chained(Books) => Chained(c))
      /\ \E p \in Nat \ {0} : Noted(Books, c, ReversalOf(Books, i, p))
  BY <1>1, <1>2, <1>3, ReverseInIs
<1>5. PICK p \in Nat \ {0} : Noted(Books, c, ReversalOf(Books, i, p))
  BY <1>4
<1>6. c \in TypedBooks /\ Write(c)
  BY <1>2, <1>3, <1>4, SoundIsTyped
<1>7. Books' = c /\ Bounded(c)
  BY <1>6, WriteIs
<1>8. i \in Nat /\ i <= Len(Books.concept)
  BY <1>1, <1>2, OldConcepts
<1>. DEFINE e == ReversalOf(Books, i, p)
<1>9. e.type = "reversal" /\ e.source = i
  BY DEF ReversalOf
<1>10. Noted(Books, c, e)
  BY <1>5
<1>. HIDE DEF e
<1>11. LooksBack(c)
  BY <1>1, <1>8, <1>9, <1>10, NotedLooksBack
<1>12. DiscountsLower(c)
  BY <1>1, <1>9, <1>10, NotedLower
<1>13. \A x : SameFor(Books, c, x)
  BY <1>9, <1>10, NotedSameFor
<1>. QED BY <1>2, <1>4, <1>5, <1>6, <1>7, <1>11, <1>12, <1>13

LEMMA ReversingKeepsBought ==
  ASSUME PayrollInv, NEW i, ReverseConcept(i), NEW c \in TypedBooks, NEW p,
         i \in Live(Books), Noted(Books, c, ReversalOf(Books, i, p))
  PROVE  /\ Bought(c, sale', crashes') /\ Stocked' /\ (crashes' = 0 => crashes = 0)
         /\ crashes' \in 0..MaxCrashes /\ stock' \in Nat /\ sale' \in Seq({"sold", "void"})
<1>1. OtherTypes /\ Stocked /\ Bought(Books, sale, crashes) /\ Books \in TypedBooks
  BY DEF PayrollInv, Sane, Well
<1>2. concept[i] = Books.concept[i]
  BY BooksFields
<1>. DEFINE e == ReversalOf(Books, i, p)
<1>3. e.type = "reversal" /\ e.source = i /\ Noted(Books, c, e)
  BY DEF ReversalOf
<1>. HIDE DEF e
<1>4. CASE concept[i].type # "purchase"
  <2>1. UNCHANGED <<shop, crashes>>
    BY <1>4 DEF ReverseConcept
  <2>2. sale' = sale /\ stock' = stock /\ crashes' = crashes
    BY <2>1 DEF shop
  <2>3. SamePurchases(Books, c)
    <3>1. \A k \in Live(Books) : k = e.source => Books.concept[k].type # "purchase"
      BY <1>2, <1>3, <1>4
    <3>2. e.type # "purchase"
      BY <1>3
    <3>. QED BY <1>3, <3>1, <3>2, NotedSamePurchases
  <2>4. Bought(c, sale, crashes)
    BY <1>1, <2>3, BoughtKept
  <2>. QED BY <1>1, <2>2, <2>4 DEF OtherTypes, Stocked
<1>5. CASE concept[i].type = "purchase"
  <2>. DEFINE s == Books.concept[i].source
  <2>1. PICK writes \in 0..1 :
          /\ Cut(writes, 1)
          /\ IF writes = 0 THEN UNCHANGED shop ELSE RestorePurchase(concept[i].source)
    BY <1>5 DEF ReverseConcept
  <2>2. /\ crashes' \in 0..MaxCrashes /\ (crashes' = 0 => crashes = 0 /\ writes = 1)
    <3>1. writes \in Nat /\ 1 \in Nat /\ (~(writes < 1) => writes = 1)
      OBVIOUS
    <3>. QED BY <1>1, <2>1, <3>1, CutIs
  <2>3. s \in DOMAIN sale
    BY <1>1, <1>2, <1>5 DEF Bought
  <2>4. /\ sale' \in Seq({"sold", "void"}) /\ DOMAIN sale' = DOMAIN sale
        /\ writes = 1 => sale'[s] = "void"
        /\ \A k \in DOMAIN sale : sale[k] = "void" => sale'[k] = "void"
        /\ stock' \in Nat /\ Stocked'
    <3>1. CASE writes = 0
      <4>1. sale' = sale /\ stock' = stock
        BY <2>1, <3>1 DEF shop
      <4>. QED BY <1>1, <3>1, <4>1 DEF OtherTypes, Stocked
    <3>2. CASE writes = 1
      <4>1. RestorePurchase(s)
        BY <1>2, <2>1, <3>2
      <4>. HIDE DEF s
      <4>. QED BY <1>1, <2>3, <4>1, RestoreIs
    <3>. QED BY <3>1, <3>2
  <2>5. Bought(c, sale', crashes')
    <3>1. SUFFICES ASSUME NEW k \in Live(c), c.concept[k].type = "purchase"
                   PROVE  /\ c.concept[k].source \in DOMAIN sale'
                          /\ crashes' = 0 /\ Reversed(c, k) => sale'[c.concept[k].source] = "void"
      BY DEF Bought
    <3>2. k \in Live(Books) /\ c.concept[k] = Books.concept[k]
      BY <1>3, <3>1 DEF Noted
    <3>3. c.concept[k].source \in DOMAIN sale
      BY <1>1, <3>1, <3>2 DEF Bought
    <3>4. ASSUME crashes' = 0, NEW j \in Live(c), c.concept[j].type = "reversal",
                 c.concept[j].source = k
          PROVE  sale'[c.concept[k].source] = "void"
      <4>1. CASE j \in Live(Books)
        <5>1. Reversed(Books, k)
          BY <1>3, <3>4, <4>1 DEF Noted, Reversed
        <5>2. sale[c.concept[k].source] = "void"
          BY <1>1, <2>2, <3>1, <3>2, <3>4, <5>1 DEF Bought
        <5>. QED BY <2>4, <3>3, <5>2
      <4>2. CASE j = Len(Books.concept) + 1
        <5>1. k = i
          BY <1>3, <3>4, <4>2 DEF Noted
        <5>. QED BY <2>2, <2>4, <3>2, <3>4, <5>1
      <4>. QED BY <1>3, <4>1, <4>2 DEF Noted
    <3>. QED BY <2>4, <3>3, <3>4 DEF Reversed
  <2>. QED BY <2>2, <2>4, <2>5
<1>. QED BY <1>4, <1>5

LEMMA ReverseConceptKeeps ==
  ASSUME PayrollInv, NEW i, ReverseConcept(i)
  PROVE  PayrollInv' /\ (Chained(Books) => Apart(Books')) /\ KeepsTotals
<1>1. PICK c \in TypedBooks, p \in Nat \ {0} :
        /\ Books' = c /\ Bounded(c) /\ Seals(Books, c) /\ DiscountsLower(c) /\ LooksBack(c)
        /\ (Chained(Books) => Chained(c)) /\ \A x : SameFor(Books, c, x)
        /\ i \in Live(Books) /\ Noted(Books, c, ReversalOf(Books, i, p))
  BY ReverseConceptIs
<1>2. /\ Bought(c, sale', crashes') /\ Stocked' /\ (crashes' = 0 => crashes = 0)
      /\ crashes' \in 0..MaxCrashes /\ stock' \in Nat /\ sale' \in Seq({"sold", "void"})
  BY <1>1, ReversingKeepsBought
<1>3. OtherTypes /\ Sane(Books, crashes) /\ Once(Books, payment, reversals) /\ Well(Books)
  BY DEF PayrollInv, Sane
<1>4. UNCHANGED <<now, config, payment, reversals, changes>>
  BY DEF ReverseConcept
<1>5. Sane(c, crashes')
  BY <1>1, <1>2, <1>3, SaneBySealing
<1>6. Once(c, payment', reversals')
  <2>1. Once(c, payment, reversals)
    BY <1>1, <1>3, OnceKept
  <2>. QED BY <1>4, <2>1
<1>7. OtherTypes'
  BY <1>2, <1>3, <1>4 DEF OtherTypes
<1>8. KeepsTotals
  BY <1>1, <1>3, SealingKeepsTotals
<1>. QED BY <1>1, <1>2, <1>5, <1>6, <1>7, <1>8 DEF PayrollInv, Chained

-----------------------------------------------------------------------------
(* What the salon adds, pays and decides *)

LEMMA AddIs ==
  ASSUME PayrollInv, NEW type \in {"manual", "purchase"}, NEW amount \in Int, NEW w \in Payee,
         NEW p, p \in DOMAIN period, AdmitsConcepts(p), NEW source \in Nat,
         NEW c, c = Add(Books, type, amount, w, p, source), Write(c)
  PROVE  /\ Books' = c /\ c \in TypedBooks /\ Bounded(c) /\ Seals(Books, c)
         /\ DiscountsLower(c) /\ LooksBack(c) /\ (Chained(Books) => Chained(c))
         /\ \A x : SameFor(Books, c, x)
         /\ Noted(Books, c, [type |-> type, amount |-> amount, payee |-> w, period |-> p,
                             source |-> source])
<1>. DEFINE e == [type |-> type, amount |-> amount, payee |-> w, period |-> p, source |-> source]
<1>1. /\ Well(Books) /\ DiscountsLower(Books) /\ LooksBack(Books) /\ Books \in TypedBooks
  BY DEF PayrollInv, Sane, Well
<1>2. p \in DOMAIN Books.period /\ p \notin Sealed(Books) /\ p \in Nat \ {0}
  <2>1. p \in DOMAIN Books.period /\ Books.period[p].status \in {"open", "review"}
    BY BooksFields DEF AdmitsConcepts
  <2>. QED BY <1>1, <2>1, BookRows DEF Sealed, Frozen
<1>3. e \in Entry
  BY <1>2 DEF Entry, ConceptType
<1>4. c = [Books EXCEPT !.concept = Append(@, e)]
  BY DEF Add
<1>5. e.type = type /\ e.period = p /\ e.type \notin {"commission", "discount", "reversal"}
  OBVIOUS
<1>. HIDE DEF e
<1>6. WithConcept(Books, c, e)
  BY <1>1, <1>3, <1>4, AppendsConcept
<1>7. Well(c) /\ Seals(Books, c)
  BY <1>1, <1>2, <1>5, <1>6, WithConceptIsWell, WithConceptSeals
<1>8. c \in TypedBooks
  BY <1>7, SoundIsTyped
<1>9. Books' = c /\ Bounded(c)
  BY <1>8, WriteIs
<1>10. Noted(Books, c, e)
  BY <1>6, WithConceptNotes
<1>11. DiscountsLower(c) /\ LooksBack(c)
  <2>1. e.type # "discount" /\ e.type # "reversal"
    BY <1>5
  <2>2. DiscountsLower(c)
    BY <1>1, <1>10, <2>1, NotedLower
  <2>3. LooksBack(c)
    BY <1>1, <1>10, <2>1, NotedLooksBack
  <2>. QED BY <2>2, <2>3
<1>12. Chained(Books) => Chained(c)
  <2>1. c.period = Books.period
    BY <1>6 DEF WithConcept
  <2>. QED BY <2>1, SamePeriodsChained
<1>13. \A x : SameFor(Books, c, x)
  BY <1>5, <1>10, NotedSameFor
<1>. QED BY <1>7, <1>8, <1>9, <1>10, <1>11, <1>12, <1>13 DEF e

LEMMA ManualKeeps ==
  ASSUME PayrollInv, NEW p, NEW w \in Payee, AddManualConcept(p, w)
  PROVE  PayrollInv' /\ (Chained(Books) => Apart(Books')) /\ KeepsTotals
<1>1. PICK amount \in Adjustment : Write(Add(Books, "manual", amount, w, p, NoOne))
  BY DEF AddManualConcept
<1>2. /\ p \in DOMAIN period /\ AdmitsConcepts(p)
      /\ UNCHANGED <<now, config, payment, reversals, shop, crashes, changes>>
  BY DEF AddManualConcept
<1>3. amount \in Int /\ NoOne \in Nat
  BY PayrollAssumption DEF NoOne
<1>. DEFINE e == [type |-> "manual", amount |-> amount, payee |-> w, period |-> p, source |-> NoOne]
<1>4. PICK c : c = Add(Books, "manual", amount, w, p, NoOne)
  OBVIOUS
<1>5. Write(c)
  BY <1>1, <1>4
<1>6. /\ Books' = c /\ c \in TypedBooks /\ Bounded(c) /\ Seals(Books, c)
      /\ DiscountsLower(c) /\ LooksBack(c) /\ (Chained(Books) => Chained(c))
      /\ \A x : SameFor(Books, c, x) /\ Noted(Books, c, e)
  BY <1>2, <1>3, <1>4, <1>5, AddIs
<1>7. e.type # "purchase" /\ e.type # "reversal"
  OBVIOUS
<1>. HIDE DEF e
<1>8. SamePurchases(Books, c)
  BY <1>6, <1>7, NotedSamePurchases
<1>9. OtherTypes /\ Stocked /\ Once(Books, payment, reversals) /\ Well(Books)
  BY DEF PayrollInv, Sane
<1>10. sale' = sale /\ crashes' = crashes /\ stock' = stock
  BY <1>2 DEF shop
<1>11. Sane(c, crashes') /\ Bought(c, sale', crashes')
  BY <1>6, <1>8, <1>10, SealingKeeps
<1>12. Once(c, payment', reversals')
  <2>1. Once(c, payment, reversals)
    BY <1>6, <1>9, OnceKept
  <2>. QED BY <1>2, <2>1
<1>13. OtherTypes' /\ Stocked'
  BY <1>2, <1>9, <1>10 DEF OtherTypes, Stocked
<1>14. KeepsTotals
  BY <1>6, <1>9, SealingKeepsTotals
<1>. QED BY <1>6, <1>11, <1>12, <1>13, <1>14 DEF PayrollInv, Chained

LEMMA SellIs ==
  ASSUME OtherTypes, Stocked, stock >= 1, sale' = Append(sale, "sold"), stock' = stock - 1
  PROVE  /\ sale' \in Seq({"sold", "void"}) /\ stock' \in Nat /\ Stocked'
         /\ Len(sale) \in Nat /\ DOMAIN sale = 1..Len(sale) /\ DOMAIN sale' = 1..(Len(sale) + 1)
         /\ \A k \in DOMAIN sale : sale'[k] = sale[k]
<1>1. sale \in Seq({"sold", "void"}) /\ stock \in Nat /\ Len(sale) \in Nat /\ DOMAIN sale = 1..Len(sale)
  BY DEF OtherTypes
<1>2. /\ sale' \in Seq({"sold", "void"}) /\ DOMAIN sale' = 1..(Len(sale) + 1)
      /\ \A k \in DOMAIN sale : sale'[k] = sale[k]
      /\ sale'[Len(sale) + 1] = "sold"
  BY <1>1
<1>. DEFINE S == {k \in DOMAIN sale : sale[k] = "sold"}
<1>3. {k \in DOMAIN sale' : sale'[k] = "sold"} = S \cup {Len(sale) + 1} /\ Len(sale) + 1 \notin S
  BY <1>1, <1>2
<1>4. IsFiniteSet(S)
  <2>1. Len(sale) \in Int /\ 1 \in Int
    BY <1>1
  <2>2. IsFiniteSet(1..Len(sale))
    BY <2>1, FS_Interval
  <2>3. S \subseteq 1..Len(sale)
    BY <1>1
  <2>. QED BY <2>2, <2>3, FS_Subset
<1>5. Cardinality(S \cup {Len(sale) + 1}) = Cardinality(S) + 1 /\ Cardinality(S) \in Nat
  BY <1>3, <1>4, FS_AddElement, FS_CardinalityType
<1>6. Stocked'
  <2>1. stock + Cardinality(S) = InitialStock
    BY DEF Stocked
  <2>2. stock' + Cardinality(S \cup {Len(sale) + 1}) = InitialStock
    BY <1>1, <1>5, <2>1
  <2>. QED BY <1>3, <2>2 DEF Stocked
<1>. QED BY <1>1, <1>2, <1>6

LEMMA PurchaseKeeps ==
  ASSUME PayrollInv, NEW p, NEW w \in Payee, AddProductPurchase(p, w)
  PROVE  PayrollInv' /\ (Chained(Books) => Apart(Books')) /\ KeepsTotals
<1>1. /\ p \in DOMAIN period /\ AdmitsConcepts(p) /\ stock >= 1
      /\ sale' = Append(sale, "sold") /\ stock' = stock - 1
      /\ Write(Add(Books, "purchase", -Price, w, p, Len(sale) + 1))
      /\ UNCHANGED <<now, config, payment, reversals, crashes, changes>>
  BY DEF AddProductPurchase
<1>2. /\ OtherTypes /\ Stocked /\ Once(Books, payment, reversals) /\ Well(Books)
      /\ Sane(Books, crashes) /\ Bought(Books, sale, crashes) /\ Books \in TypedBooks
      /\ LooksBack(Books)
  BY DEF PayrollInv, Sane, Well
<1>3. /\ sale' \in Seq({"sold", "void"}) /\ stock' \in Nat /\ Stocked'
      /\ Len(sale) \in Nat /\ DOMAIN sale = 1..Len(sale) /\ DOMAIN sale' = 1..(Len(sale) + 1)
      /\ \A k \in DOMAIN sale : sale'[k] = sale[k]
  BY <1>1, <1>2, SellIs
<1>. DEFINE amount == -Price
            source == Len(sale) + 1
            e == [type |-> "purchase", amount |-> amount, payee |-> w, period |-> p, source |-> source]
<1>4. amount \in Int /\ source \in Nat /\ source \in DOMAIN sale'
  BY <1>3, PayrollAssumption
<1>5. PICK c : c = Add(Books, "purchase", amount, w, p, source)
  OBVIOUS
<1>6. Write(c)
  BY <1>1, <1>5
<1>. HIDE DEF amount, source
<1>7. /\ Books' = c /\ c \in TypedBooks /\ Bounded(c) /\ Seals(Books, c)
      /\ DiscountsLower(c) /\ LooksBack(c) /\ (Chained(Books) => Chained(c))
      /\ \A x : SameFor(Books, c, x) /\ Noted(Books, c, e)
  <2>1. p \in DOMAIN period /\ AdmitsConcepts(p)
    BY <1>1
  <2>. HIDE DEF e
  <2>2. "purchase" \in {"manual", "purchase"}
    OBVIOUS
  <2>3. /\ Books' = c /\ c \in TypedBooks /\ Bounded(c) /\ Seals(Books, c)
        /\ DiscountsLower(c) /\ LooksBack(c) /\ (Chained(Books) => Chained(c))
        /\ \A x : SameFor(Books, c, x)
        /\ Noted(Books, c, [type |-> "purchase", amount |-> amount, payee |-> w, period |-> p,
                            source |-> source])
    BY <1>4, <1>5, <1>6, <2>1, <2>2, AddIs
  <2>. QED BY <2>3 DEF e
<1>8. e.type = "purchase" /\ e.source = source
  OBVIOUS
<1>. HIDE DEF e
<1>9. Sane(c, crashes')
  BY <1>1, <1>2, <1>7, SaneBySealing
<1>10. Bought(c, sale', crashes')
  <2>1. SUFFICES ASSUME NEW k \in Live(c), c.concept[k].type = "purchase"
                 PROVE  /\ c.concept[k].source \in DOMAIN sale'
                        /\ crashes = 0 /\ Reversed(c, k) => sale'[c.concept[k].source] = "void"
    BY <1>1 DEF Bought
  <2>2. ASSUME NEW j \in Live(c), c.concept[j].type = "reversal"
        PROVE  j \in Live(Books) /\ c.concept[j] = Books.concept[j]
               /\ c.concept[j].source < Len(Books.concept) + 1 /\ c.concept[j].source \in Nat
    <3>1. j \in Live(Books) /\ c.concept[j] = Books.concept[j]
      BY <1>7, <1>8, <2>2 DEF Noted
    <3>2. j \in Nat /\ j <= Len(Books.concept) /\ Len(Books.concept) \in Nat
      BY <1>2, <3>1, OldConcepts
    <3>3. c.concept[j].source \in Nat /\ c.concept[j].source < j
      BY <1>2, <2>2, <3>1 DEF LooksBack
    <3>. QED BY <3>1, <3>2, <3>3
  <2>3. CASE k = Len(Books.concept) + 1
    <3>1. c.concept[k] = e
      BY <1>7, <2>3 DEF Noted
    <3>2. Len(Books.concept) \in Nat
      BY <1>2, OldConcepts
    <3>3. ~Reversed(c, k)
      <4>1. SUFFICES ASSUME NEW j \in Live(c), c.concept[j].type = "reversal",
                            c.concept[j].source = k
                     PROVE  FALSE
        BY DEF Reversed
      <4>2. /\ c.concept[j].source < Len(Books.concept) + 1 /\ c.concept[j].source \in Nat
        BY <2>2, <4>1
      <4>. QED BY <2>3, <3>2, <4>1, <4>2
    <3>. QED BY <1>4, <1>8, <3>1, <3>3
  <2>4. CASE k \in Live(Books)
    <3>1. c.concept[k] = Books.concept[k]
      BY <1>7, <2>4 DEF Noted
    <3>2. c.concept[k].source \in DOMAIN sale
      BY <1>2, <2>1, <2>4, <3>1 DEF Bought
    <3>3. Reversed(c, k) => Reversed(Books, k)
      BY <2>2 DEF Reversed
    <3>4. crashes = 0 /\ Reversed(Books, k) => sale[c.concept[k].source] = "void"
      BY <1>2, <2>1, <2>4, <3>1 DEF Bought
    <3>5. c.concept[k].source \in DOMAIN sale'
      BY <1>3, <3>2
    <3>. QED BY <1>3, <3>2, <3>3, <3>4, <3>5
  <2>. QED BY <1>7, <2>3, <2>4 DEF Noted
<1>11. Once(c, payment', reversals')
  <2>1. Once(c, payment, reversals)
    BY <1>2, <1>7, OnceKept
  <2>. QED BY <1>1, <2>1
<1>12. OtherTypes'
  BY <1>1, <1>2, <1>3 DEF OtherTypes
<1>13. KeepsTotals
  BY <1>2, <1>7, SealingKeepsTotals
<1>. QED BY <1>3, <1>7, <1>9, <1>10, <1>11, <1>12, <1>13 DEF PayrollInv, Chained

LEMMA PayoutKeeps ==
  ASSUME PayrollInv, NEW p, NEW w \in Payee, RecordPayout(p, w)
  PROVE  PayrollInv' /\ (Chained(Books) => Apart(Books')) /\ KeepsTotals
<1>. DEFINE here == <<p, w>>
<1>1. PICK amount \in 1..(frozen[here] - paid[here]) : paid' = [paid EXCEPT ![here] = @ + amount]
  BY DEF RecordPayout
<1>2. /\ p \in DOMAIN period /\ period[p].status \in {"approved", "paid"}
      /\ UNCHANGED <<now, config, period, concept, frozen, payment, reversals, shop, crashes, changes>>
  BY DEF RecordPayout
<1>3. /\ OtherTypes /\ Stocked /\ Once(Books, payment, reversals) /\ Well(Books)
      /\ DiscountsLower(Books) /\ Bound(Books) /\ Bounded(Books) /\ LooksBack(Books)
      /\ (crashes = 0 => InOrder(Books)) /\ Bought(Books, sale, crashes) /\ Books \in TypedBooks
  BY DEF PayrollInv, Sane, Well
<1>4. /\ period \in Seq(PeriodRow) /\ concept \in Seq(Entry \cup {Deleted})
      /\ frozen \in [Key -> Int] /\ paid \in [Key -> Nat]
  BY <1>3, BooksFields DEF TypedBooks
<1>5. here \in Key /\ here[1] = p
  <2>1. Len(period) \in Nat /\ DOMAIN period = 1..Len(period) /\ MaxPeriods \in Nat
    BY <1>4, PayrollAssumption
  <2>2. Len(period) <= MaxPeriods
    BY <1>3, BooksFields DEF Bounded
  <2>. QED BY <1>2, <2>1, <2>2 DEF Key
<1>. HIDE DEF here
<1>6. /\ paid' \in [Key -> Nat] /\ paid'[here] <= frozen[here] /\ paid'[here] > 0
      /\ \A k \in Key : paid'[k] >= paid[k] /\ (k # here => paid'[k] = paid[k])
  BY <1>1, <1>4, <1>5
<1>. DEFINE c == [period |-> period, concept |-> concept, frozen |-> frozen, paid |-> paid']
<1>7. Books' = c
  <2>1. Books' = [period |-> period', concept |-> concept', frozen |-> frozen', paid |-> paid']
    BY DEF Books
  <2>. QED BY <1>2, <2>1
<1>8. c \in TypedBooks
  BY <1>4, <1>6, TypedFromParts
<1>9. /\ c.period = Books.period /\ c.concept = Books.concept /\ c.frozen = Books.frozen
      /\ c.paid = paid'
  BY BooksFields
<1>. HIDE DEF c
<1>10. Well(c) /\ Live(c) = Live(Books)
  BY <1>3, <1>8, <1>9, SamePeriodsIsWell
<1>11. Bounded(c) /\ DiscountsLower(c) /\ LooksBack(c)
  <2>1. Bounded(c)
    BY <1>3, <1>9 DEF Bounded
  <2>. QED BY <1>3, <1>9, <2>1, SameConceptsLower, SameLooksBack
<1>12. \A q, v : Net(c, q, v) = Net(Books, q, v) /\ Earned(c, q, v) = Earned(Books, q, v)
  BY <1>3, <1>8, <1>9, SameTotals
<1>13. Sealed(c) = Sealed(Books) /\ p \in Sealed(c)
  BY <1>2, <1>9, BooksFields DEF Sealed, Frozen
<1>14. Bound(c)
  <2>1. ASSUME NEW k \in Key, k[1] \in Sealed(c) PROVE c.frozen[k] <= Earned(c, k[1], k[2])
    BY <1>3, <1>9, <1>12, <1>13, <2>1 DEF Bound
  <2>2. ASSUME NEW k \in Key, c.paid[k] > 0
        PROVE  k[1] \in Sealed(c) /\ c.paid[k] <= Earned(c, k[1], k[2])
    <3>1. CASE k = here
      <4>1. k[1] \in Sealed(c)
        BY <1>5, <1>13, <3>1
      <4>2. c.frozen[k] <= Earned(c, k[1], k[2])
        BY <2>1, <4>1
      <4>3. c.paid[k] <= c.frozen[k]
        BY <1>6, <1>9, <3>1, BooksFields
      <4>4. c.paid \in [Key -> Nat] /\ c.frozen \in [Key -> Int]
        BY <1>8 DEF TypedBooks
      <4>5. c.paid[k] \in Int /\ c.frozen[k] \in Int
        BY <4>4
      <4>6. Earned(c, k[1], k[2]) \in Int
        BY <1>8, NetIs
      <4>. QED BY <4>1, <4>2, <4>3, <4>5, <4>6
    <3>2. CASE k # here
      <4>1. Books.paid[k] > 0 /\ c.paid[k] = Books.paid[k]
        BY <1>6, <1>9, <2>2, <3>2, BooksFields
      <4>. QED BY <1>3, <1>12, <1>13, <4>1 DEF Bound
    <3>. QED BY <3>1, <3>2
  <2>. QED BY <2>1, <2>2 DEF Bound
<1>15. ASSUME InOrder(Books) PROVE InOrder(c)
  <2>1. SUFFICES ASSUME NEW q \in Sealed(c) PROVE Explained(c, q) /\ Settled(c, q)
    BY DEF InOrder
  <2>2. Explained(Books, q) /\ Settled(Books, q)
    BY <1>13, <1>15 DEF InOrder
  <2>3. Explained(c, q)
    BY <1>9, <1>12, <2>2 DEF Explained
  <2>4. Settled(c, q)
    <3>1. SUFFICES ASSUME c.period[q].status = "closed", NEW k \in Key, k[1] = q
                   PROVE  c.frozen[k] <= c.paid[k]
      BY DEF Settled
    <3>2. q # p
      BY <1>2, <1>9, <3>1, BooksFields
    <3>3. k # here
      BY <1>5, <3>1, <3>2
    <3>4. c.paid[k] = Books.paid[k]
      BY <1>6, <1>9, <3>3, BooksFields
    <3>. QED BY <1>9, <2>2, <3>1, <3>4 DEF Settled
  <2>. QED BY <2>3, <2>4
<1>16. Sane(c, crashes')
  BY <1>2, <1>3, <1>10, <1>11, <1>14, <1>15 DEF Sane
<1>17. SamePurchases(Books, c) /\ \A x : SameFor(Books, c, x)
  BY <1>9, SameConceptsSame
<1>18. Bought(c, sale', crashes')
  <2>1. Bought(c, sale, crashes)
    BY <1>3, <1>17, BoughtKept
  <2>. QED BY <1>2, <2>1 DEF shop
<1>19. Once(c, payment', reversals')
  <2>1. Once(c, payment, reversals)
    BY <1>3, <1>17, OnceKept
  <2>. QED BY <1>2, <2>1
<1>20. OtherTypes' /\ Stocked'
  BY <1>2, <1>3 DEF OtherTypes, Stocked, shop
<1>21. KeepsTotals
  BY <1>3, <1>7, <1>8, <1>9, SameConceptsKeepTotals
<1>22. Chained(Books) => Apart(c)
  BY <1>9, SamePeriodsChained DEF Chained
<1>. QED BY <1>7, <1>16, <1>18, <1>19, <1>20, <1>21, <1>22 DEF PayrollInv

-----------------------------------------------------------------------------
(* The status of a period and the configuration *)

LEMMA SameDaysApart ==
  ASSUME NEW b, Apart(b), NEW c, DOMAIN c.period = DOMAIN b.period,
         \A q \in DOMAIN b.period : /\ c.period[q].startsAt = b.period[q].startsAt
                                    /\ c.period[q].endsAt = b.period[q].endsAt
  PROVE  Apart(c)
BY DEF Apart

LEMMA SameConceptsKeep ==
  ASSUME PayrollInv, NEW c, c.concept = Books.concept, UNCHANGED <<payment, reversals, sale>>,
         crashes' = 0 => crashes = 0
  PROVE  Bought(c, sale', crashes') /\ Once(c, payment', reversals') /\ LooksBack(c)
<1>1. /\ Bought(Books, sale, crashes) /\ Once(Books, payment, reversals) /\ LooksBack(Books)
  BY DEF PayrollInv, Sane
<1>2. SamePurchases(Books, c) /\ \A x : SameFor(Books, c, x)
  BY SameConceptsSame
<1>3. Bought(c, sale, crashes')
  BY <1>1, <1>2, BoughtKept
<1>4. Once(c, payment, reversals)
  BY <1>1, <1>2, OnceKept
<1>5. LooksBack(c)
  BY <1>1, SameLooksBack
<1>. QED BY <1>3, <1>4, <1>5

LEMMA ChangeStatusKeeps ==
  ASSUME PayrollInv, NEW p, ChangeStatus(p)
  PROVE  PayrollInv' /\ (Chained(Books) => Apart(Books')) /\ KeepsTotals
<1>1. PICK next \in PeriodStatus :
        /\ CanTransition(period[p].status, next)
        /\ next = "open" => OpenPeriods(Books) = {}
        /\ Write(CASE next = "approved" -> FreezeTotals([Books EXCEPT !.period[p].status = next], p)
                   [] next = "closed" -> SettleRemaining([Books EXCEPT !.period[p].status = next], p)
                   [] OTHER -> [Books EXCEPT !.period[p].status = next])
  BY DEF ChangeStatus
<1>2. /\ p \in DOMAIN period
      /\ UNCHANGED <<now, config, payment, reversals, shop, crashes, changes>>
  BY DEF ChangeStatus
<1>3. /\ OtherTypes /\ Stocked /\ Well(Books) /\ DiscountsLower(Books) /\ Bound(Books)
      /\ (crashes = 0 => InOrder(Books))
  BY DEF PayrollInv, Sane
<1>4. PICK d : d = [Books EXCEPT !.period[p].status = next]
  OBVIOUS
<1>5. PICK c : c = CASE next = "approved" -> FreezeTotals(d, p)
                     [] next = "closed" -> SettleRemaining(d, p)
                     [] OTHER -> d
  OBVIOUS
<1>6. Write(c)
  BY <1>1, <1>4, <1>5
<1>7. Moved(Books, d, p, next) /\ Resettled(d, c) /\ (InOrder(Books) => InOrder(c))
  <2>1. p \in DOMAIN Books.period /\ CanTransition(Books.period[p].status, next)
    BY <1>1, <1>2, BooksFields
  <2>2. next = "open" => OpenPeriods(Books) = {}
    BY <1>1
  <2>. QED BY <1>3, <1>4, <1>5, <2>1, <2>2, StatusKeeps
<1>8. /\ c.period = d.period /\ c.concept = Books.concept
      /\ Well(c) /\ DiscountsLower(c) /\ Bound(c)
      /\ DOMAIN d.period = DOMAIN Books.period
      /\ \A q \in DOMAIN Books.period : /\ d.period[q].startsAt = Books.period[q].startsAt
                                        /\ d.period[q].endsAt = Books.period[q].endsAt
  BY <1>7 DEF Moved, Resettled
<1>9. c \in TypedBooks
  BY <1>8, SoundIsTyped
<1>10. Books' = c /\ Bounded(c)
  BY <1>6, <1>9, WriteIs
<1>11. payment' = payment /\ reversals' = reversals /\ sale' = sale /\ crashes' = crashes
  BY <1>2 DEF shop
<1>12. Bought(c, sale', crashes') /\ Once(c, payment', reversals') /\ LooksBack(c)
  BY <1>8, <1>11, SameConceptsKeep
<1>13. Sane(c, crashes')
  BY <1>3, <1>7, <1>8, <1>10, <1>11, <1>12 DEF Sane
<1>14. OtherTypes' /\ Stocked'
  BY <1>2, <1>3 DEF OtherTypes, Stocked, shop
<1>15. KeepsTotals
  BY <1>3, <1>8, <1>9, <1>10, SameConceptsKeepTotals
<1>16. Apart(Books) => Apart(c)
  BY <1>8, SameDaysApart
<1>. QED BY <1>10, <1>12, <1>13, <1>14, <1>15, <1>16 DEF PayrollInv, Chained

LEMMA FilledIs ==
  ASSUME NEW b, NEW N \in Nat, NEW order \in [1..N -> Due(b)], NEW c, Filled(b, order, N, c),
         NEW x \in Appointment
  PROVE  /\ OneCommission(c, x) /\ (ConceptsOf(c, x) # {} => Charged(x))
         /\ DiscountsLower(c) /\ LooksBack(c) /\ SamePurchases(b, c)
<1>1. \A i \in Live(c) : /\ c.concept[i].type = "commission"
                         /\ \E k \in 1..N : c.concept[i].source = order[k]
  BY DEF Filled
<1>2. DiscountsLower(c) /\ LooksBack(c) /\ SamePurchases(b, c)
  BY <1>1 DEF DiscountsLower, LooksBack, SamePurchases
<1>3. ASSUME NEW i \in ConceptsOf(c, x)
      PROVE  Charged(x) /\ \E k \in 1..N : order[k] = x
  <2>1. i \in Live(c) /\ c.concept[i].source = x
    BY DEF ConceptsOf
  <2>2. PICK k \in 1..N : c.concept[i].source = order[k]
    BY <1>1, <2>1
  <2>3. order[k] \in Due(b)
    OBVIOUS
  <2>. QED BY <2>1, <2>2, <2>3 DEF Due
<1>4. OneCommission(c, x)
  <2>1. SUFFICES ASSUME NEW i \in ConceptsOf(c, x), NEW j \in ConceptsOf(c, x) PROVE i = j
    BY DEF OneCommission
  <2>2. PICK k \in 1..N : order[k] = x
    BY <1>3
  <2>3. PICK m \in Live(c) : \A l \in Live(c) : c.concept[l].source = order[k] => l = m
    BY DEF Filled
  <2>. QED BY <2>2, <2>3 DEF ConceptsOf
<1>. QED BY <1>2, <1>3, <1>4

LEMMA FilledOwes ==
  ASSUME NEW b, NEW N \in Nat, NEW order \in [1..N -> Due(b)], NEW c, Filled(b, order, N, c),
         NEW k \in 1..N
  PROVE  Owed(c, order[k]) = payment[order[k]].commission
<1>. DEFINE a == order[k]
<1>1. /\ c \in TypedBooks
      /\ \A i \in Live(c) : c.concept[i].type = "commission"
      /\ \E i \in Live(c) :
           /\ c.concept[i].source = a /\ c.concept[i].amount = payment[a].commission
           /\ \A j \in Live(c) : c.concept[j].source = a => j = i
  BY SoundIsTyped DEF Filled
<1>. HIDE DEF a
<1>2. PICK i \in Live(c) :
        /\ c.concept[i].source = a /\ c.concept[i].amount = payment[a].commission
        /\ \A j \in Live(c) : c.concept[j].source = a => j = i
  BY <1>1
<1>3. ConceptsOf(c, a) \cup {j \in Live(c) : c.concept[j].type = "reversal"
                                             /\ c.concept[j].source \in ConceptsOf(c, a)} = {i}
  BY <1>1, <1>2 DEF ConceptsOf
<1>4. Total(c, {i}) = c.concept[i].amount
  BY <1>1, <1>2, TotalOne
<1>. QED BY <1>2, <1>3, <1>4 DEF Owed, a

LEMMA ActivationIs ==
  ASSUME PayrollInv, NEW f \in Frequency, SetFrequency(f), period = <<>>
  PROVE  \E c \in TypedBooks :
           /\ Books' = c /\ Bounded(c) /\ Seals(Books, c) /\ DiscountsLower(c) /\ LooksBack(c)
           /\ SamePurchases(Books, c) /\ Chained(c)
           /\ \A x \in Appointment :
                OneCommission(c, x) /\ (ConceptsOf(c, x) # {} => Charged(x))
           /\ crashes' \in 0..MaxCrashes /\ (crashes' = 0 => crashes = 0)
           /\ crashes' = crashes => \A a \in Appointment :
                Charged(a) /\ ~BeforeActivation(c, payment[a].paidAt)
                => Owed(c, a) = payment[a].commission
<1>1. /\ Well(Books) /\ OtherTypes /\ Payments /\ Books \in TypedBooks
      /\ \A d \in Day : d \in Nat
  BY StatePartsAre DEF PayrollInv, Sane, Well
<1>2. PICK start \in Day, writes \in 0..1 :
        /\ Cut(writes, 1)
        /\ \E order \in OldestFirst(Due(BootstrapFirstPeriod(f, start))) :
             Write(IF writes = 0 THEN BootstrapFirstPeriod(f, start)
                   ELSE Backfill(BootstrapFirstPeriod(f, start), f, order))
  BY DEF SetFrequency
<1>3. PICK b : b = OpenedWith(Books, f, BoundsFrom(start, f))
  OBVIOUS
<1>4. PICK order \in OldestFirst(Due(b)) :
        Write(IF writes = 0 THEN b ELSE Backfill(b, f, order))
  BY <1>2, <1>3 DEF BootstrapFirstPeriod
<1>5. /\ crashes' \in 0..MaxCrashes /\ (crashes' = 0 => crashes = 0)
      /\ crashes' = crashes => writes = 1
  <2>1. writes \in Nat /\ 1 \in Nat /\ (~(writes < 1) => writes = 1)
    OBVIOUS
  <2>. QED BY <1>1, <1>2, <2>1, CutIs
<1>6. /\ Ensured(Books, b) /\ Well(b) /\ Seals(Books, b) /\ Chained(b) /\ b.period # <<>>
      /\ Live(Books) = {} /\ Live(b) = {} /\ b.concept = Books.concept
  <2>1. Books.period = <<>> /\ start \in Nat
    BY <1>1, BooksFields
  <2>. QED BY <1>1, <1>3, <2>1, BootstrapIs
<1>7. CASE writes = 0
  <2>1. b \in TypedBooks /\ Write(b)
    BY <1>4, <1>6, <1>7, SoundIsTyped
  <2>2. Books' = b /\ Bounded(b)
    BY <2>1, WriteIs
  <2>3. /\ DiscountsLower(b) /\ LooksBack(b) /\ SamePurchases(Books, b)
        /\ \A x : ConceptsOf(b, x) = {}
    BY <1>6 DEF DiscountsLower, LooksBack, SamePurchases, ConceptsOf
  <2>4. \A x \in Appointment : OneCommission(b, x) /\ (ConceptsOf(b, x) # {} => Charged(x))
    BY <2>3 DEF OneCommission
  <2>5. crashes' # crashes
    BY <1>5, <1>7
  <2>. QED BY <1>5, <1>6, <2>1, <2>2, <2>3, <2>4, <2>5
<1>8. CASE writes = 1
  <2>1. PICK c : c = Backfill(b, f, order)
    OBVIOUS
  <2>2. PICK N \in Nat : /\ order \in [1..N -> Due(b)] /\ Filled(b, order, N, c)
                         /\ \A a \in Due(b) : \E k \in 1..N : order[k] = a
    BY <1>1, <1>6, <2>1, BackfillIs
  <2>3. Well(c) /\ Seals(b, c) /\ Chained(c) /\ SameFirstDay(b, c)
    BY <1>6, <2>2 DEF Filled
  <2>4. c \in TypedBooks /\ Write(c)
    BY <1>4, <1>8, <2>1, <2>3, SoundIsTyped
  <2>5. Books' = c /\ Bounded(c)
    BY <2>4, WriteIs
  <2>6. Seals(Books, c)
    BY <1>6, <2>3, SealsOn
  <2>7. DiscountsLower(c) /\ LooksBack(c) /\ SamePurchases(Books, c)
    <3>1. \A i \in Live(c) : c.concept[i].type = "commission"
      BY <2>2 DEF Filled
    <3>. QED BY <3>1 DEF DiscountsLower, LooksBack, SamePurchases
  <2>8. \A x \in Appointment : OneCommission(c, x) /\ (ConceptsOf(c, x) # {} => Charged(x))
    BY <2>2, FilledIs
  <2>9. ASSUME NEW a \in Appointment, Charged(a), ~BeforeActivation(c, payment[a].paidAt)
        PROVE  Owed(c, a) = payment[a].commission
    <3>1. payment[a].paidAt \in Nat
      BY <1>1, <2>9 DEF Payments, Charged, PaymentRow
    <3>2. ~BeforeActivation(b, payment[a].paidAt)
      BY <1>6, <2>3, <2>9, <3>1 DEF SameFirstDay
    <3>3. a \in Due(b)
      BY <2>9, <3>2 DEF Due
    <3>4. PICK k \in 1..N : order[k] = a
      BY <2>2, <3>3
    <3>5. Owed(c, order[k]) = payment[order[k]].commission
      BY <2>2, FilledOwes
    <3>. QED BY <3>4, <3>5
  <2>. QED BY <1>5, <2>3, <2>4, <2>5, <2>6, <2>7, <2>8, <2>9
<1>. QED BY <1>7, <1>8

LEMMA SetFrequencyKeeps ==
  ASSUME PayrollInv, NEW f \in Frequency, SetFrequency(f)
  PROVE  PayrollInv' /\ (Chained(Books) => Apart(Books')) /\ KeepsTotals
<1>1. /\ changes < MaxChanges /\ changes' = changes + 1 /\ config' = f
      /\ UNCHANGED <<now, payment, reversals, shop>>
  BY DEF SetFrequency
<1>2. /\ OtherTypes /\ Stocked /\ Once(Books, payment, reversals) /\ Well(Books)
      /\ Sane(Books, crashes) /\ DiscountsLower(Books) /\ Books \in TypedBooks
  BY DEF PayrollInv, Sane, Well
<1>3. crashes' \in 0..MaxCrashes => OtherTypes'
  <2>1. changes' \in 0..MaxChanges
    BY <1>1, <1>2, PayrollAssumption DEF OtherTypes
  <2>. QED BY <1>1, <1>2, <2>1 DEF OtherTypes, shop
<1>4. Stocked' /\ sale' = sale /\ payment' = payment /\ reversals' = reversals
  BY <1>1, <1>2 DEF Stocked, shop
<1>5. CASE period = <<>>
  <2>1. PICK c \in TypedBooks :
          /\ Books' = c /\ Bounded(c) /\ Seals(Books, c) /\ DiscountsLower(c) /\ LooksBack(c)
          /\ SamePurchases(Books, c) /\ Chained(c)
          /\ \A x \in Appointment :
               OneCommission(c, x) /\ (ConceptsOf(c, x) # {} => Charged(x))
          /\ crashes' \in 0..MaxCrashes /\ (crashes' = 0 => crashes = 0)
    BY <1>5, ActivationIs
  <2>2. Sane(c, crashes') /\ Bought(c, sale', crashes')
    BY <1>4, <2>1, SealingKeeps
  <2>3. Once(c, payment', reversals')
    BY <1>4, <2>1 DEF Once, Charged
  <2>4. KeepsTotals
    BY <1>2, <2>1, SealingKeepsTotals
  <2>. QED BY <1>3, <1>4, <2>1, <2>2, <2>3, <2>4 DEF PayrollInv, Chained
<1>6. CASE period # <<>>
  <2>1. PICK c : c = Realigned(Books, f)
    OBVIOUS
  <2>2. Write(c) /\ crashes' = crashes
    BY <1>6, <2>1 DEF SetFrequency
  <2>3. Well(c) /\ Seals(Books, c) /\ c.concept = Books.concept /\ (Chained(Books) => Apart(c))
    BY <1>2, <2>1, RealignedIs
  <2>4. c \in TypedBooks
    BY <2>3, SoundIsTyped
  <2>5. Books' = c /\ Bounded(c)
    BY <2>2, <2>4, WriteIs
  <2>6. Bought(c, sale', crashes') /\ Once(c, payment', reversals') /\ LooksBack(c)
    BY <1>4, <2>2, <2>3, SameConceptsKeep
  <2>7. DiscountsLower(c)
    BY <1>2, <2>3, SameConceptsLower
  <2>8. Sane(c, crashes')
    BY <1>2, <2>2, <2>3, <2>5, <2>6, <2>7, SaneBySealing
  <2>9. KeepsTotals
    BY <1>2, <2>3, <2>5, SealingKeepsTotals
  <2>10. crashes' \in 0..MaxCrashes
    BY <1>2, <2>2 DEF OtherTypes
  <2>. QED BY <1>3, <1>4, <2>3, <2>5, <2>6, <2>8, <2>9, <2>10 DEF PayrollInv
<1>. QED BY <1>5, <1>6

\* Books with nothing in them.
Blank(c) ==
  /\ c \in TypedBooks /\ c.period = <<>> /\ c.concept = <<>>
  /\ \A k \in Key : c.frozen[k] = 0 /\ c.paid[k] = 0

LEMMA BlankIsSane ==
  ASSUME NEW c, Blank(c)
  PROVE  /\ \A cuts : Sane(c, cuts)
         /\ \A sold, cuts : Bought(c, sold, cuts)
         /\ \A pay, undone : Once(c, pay, undone)
         /\ Apart(c)
<1>1. /\ c \in TypedBooks /\ DOMAIN c.period = {} /\ DOMAIN c.concept = {}
      /\ Len(c.period) = 0 /\ Len(c.concept) = 0
  BY DEF Blank
<1>2. Live(c) = {} /\ OpenPeriods(c) = {} /\ Sealed(c) = {} /\ \A x : ConceptsOf(c, x) = {}
  BY <1>1 DEF Live, OpenPeriods, Sealed, ConceptsOf
<1>3. Well(c)
  BY <1>1, <1>2 DEF Well
<1>4. Bounded(c)
  BY <1>1, PayrollAssumption DEF Bounded
<1>5. DiscountsLower(c) /\ LooksBack(c) /\ InOrder(c) /\ Apart(c)
  BY <1>1, <1>2 DEF DiscountsLower, LooksBack, InOrder, Apart
<1>6. Bound(c)
  <2>1. \A k \in Key : ~(c.paid[k] > 0)
    BY DEF Blank
  <2>. QED BY <1>2, <2>1 DEF Bound
<1>7. \A cuts : Sane(c, cuts)
  BY <1>3, <1>4, <1>5, <1>6 DEF Sane
<1>8. \A sold, cuts : Bought(c, sold, cuts)
  BY <1>2 DEF Bought
<1>9. \A pay, undone : Once(c, pay, undone)
  BY <1>2 DEF Once, OneCommission
<1>. QED BY <1>5, <1>7, <1>8, <1>9

LEMMA BlankFrom ==
  ASSUME NEW kept, NEW given, kept = [k \in Key |-> 0], given = [k \in Key |-> 0]
  PROVE  Blank([period |-> <<>>, concept |-> <<>>, frozen |-> kept, paid |-> given])
<1>1. <<>> \in Seq(PeriodRow) /\ <<>> \in Seq(Entry \cup {Deleted})
  OBVIOUS
<1>2. kept \in [Key -> Int] /\ given \in [Key -> Nat]
  OBVIOUS
<1>3. [period |-> <<>>, concept |-> <<>>, frozen |-> kept, paid |-> given] \in TypedBooks
  BY <1>1, <1>2, TypedFromParts
<1>4. \A k \in Key : kept[k] = 0 /\ given[k] = 0
  OBVIOUS
<1>. QED BY <1>3, <1>4 DEF Blank

LEMMA RevertActivationKeeps ==
  ASSUME PayrollInv, RevertActivation
  PROVE  PayrollInv' /\ (Chained(Books) => Apart(Books')) /\ KeepsTotals
<1>1. /\ \A k \in DOMAIN paid : paid[k] = 0
      /\ config' = None /\ period' = <<>> /\ concept' = <<>>
      /\ frozen' = [k \in DOMAIN frozen |-> 0]
      /\ UNCHANGED <<now, paid, payment, reversals, shop, crashes, changes>>
  BY DEF RevertActivation
<1>2. OtherTypes /\ Stocked /\ Books \in TypedBooks
  BY DEF PayrollInv, Sane, Well
<1>3. frozen \in [Key -> Int] /\ paid \in [Key -> Nat]
  BY <1>2, BooksFields DEF TypedBooks
<1>4. frozen' = [k \in Key |-> 0] /\ paid' = [k \in Key |-> 0]
  BY <1>1, <1>3
<1>5. Blank(Books')
  <2>1. Books' = [period |-> <<>>, concept |-> <<>>, frozen |-> frozen', paid |-> paid']
    BY <1>1 DEF Books
  <2>2. Blank([period |-> <<>>, concept |-> <<>>, frozen |-> frozen', paid |-> paid'])
    BY <1>4, BlankFrom
  <2>. QED BY <2>1, <2>2
<1>6. /\ Sane(Books', crashes') /\ Bought(Books', sale', crashes')
      /\ Once(Books', payment', reversals') /\ Apart(Books')
  BY <1>5, BlankIsSane
<1>7. OtherTypes' /\ Stocked'
  BY <1>1, <1>2 DEF OtherTypes, Stocked, shop
<1>8. KeepsTotals
  BY <1>1 DEF KeepsTotals
<1>. QED BY <1>6, <1>7, <1>8 DEF PayrollInv

LEMMA TickKeeps ==
  ASSUME PayrollInv, Tick
  PROVE  PayrollInv' /\ (Chained(Books) => Apart(Books')) /\ KeepsTotals
<1>1. /\ now < MaxNow /\ now' = now + 1
      /\ UNCHANGED <<config, books, payment, reversals, shop, crashes, changes>>
  BY DEF Tick
<1>2. Books' = Books
  BY <1>1, SameBooks
<1>3. OtherTypes
  BY DEF PayrollInv
<1>4. now' \in Day
  BY <1>1, <1>3, PayrollAssumption DEF OtherTypes, Day
<1>5. OtherTypes'
  BY <1>1, <1>3, <1>4 DEF OtherTypes, shop
<1>6. PayrollInv'
  BY <1>1, <1>2, <1>5 DEF PayrollInv, Stocked, shop
<1>7. KeepsTotals
  BY <1>2 DEF KeepsTotals
<1>. QED BY <1>2, <1>6, <1>7 DEF Chained

LEMMA StutterKeeps ==
  ASSUME PayrollInv, UNCHANGED vars
  PROVE  PayrollInv' /\ (Chained(Books) => Apart(Books')) /\ KeepsTotals
<1>1. UNCHANGED <<now, config, books, payment, reversals, shop, changes, crashes>>
  BY DEF vars
<1>2. Books' = Books
  BY <1>1, SameBooks
<1>3. OtherTypes'
  BY <1>1 DEF PayrollInv, OtherTypes, shop
<1>4. PayrollInv'
  BY <1>1, <1>2, <1>3 DEF PayrollInv, Stocked, shop
<1>5. KeepsTotals
  BY <1>2 DEF KeepsTotals
<1>. QED BY <1>2, <1>4, <1>5 DEF Chained

\* What a charge writes is paid from then on.
LEMMA ChargeCharges ==
  ASSUME PayrollInv, NEW a \in Appointment, Charge(a)
  PROVE  ~Charged(a) /\ Charged(a)' /\ \A x \in Appointment : x # a => Charged(x)' = Charged(x)
<1>1. ~Charged(a) /\ \E date \in Day, amount \in Commission :
        payment' = [payment EXCEPT ![a] = [paidAt |-> date, commission |-> amount]]
  BY ChargeIs
<1>2. PICK date \in Day, amount \in Commission :
        payment' = [payment EXCEPT ![a] = [paidAt |-> date, commission |-> amount]]
  BY <1>1
<1>3. payment \in [Appointment -> PaymentRow \cup {NoPayment}]
  BY DEF PayrollInv, OtherTypes
<1>. DEFINE row == [paidAt |-> date, commission |-> amount]
<1>4. row # NoPayment
  BY ChargeIsPaid
<1>. HIDE DEF row
<1>5. payment'[a] = row /\ \A x \in Appointment : x # a => payment'[x] = payment[x]
  BY <1>2, <1>3 DEF row
<1>. QED BY <1>1, <1>4, <1>5 DEF Charged

LEMMA InitIsInv ==
  ASSUME Init
  PROVE  PayrollInv
<1>1. /\ now = 0 /\ config = None /\ stock = InitialStock /\ sale = <<>>
      /\ changes = 0 /\ crashes = 0 /\ payment = [a \in Appointment |-> NoPayment]
      /\ reversals = [a \in Appointment |-> 0]
      /\ period = <<>> /\ concept = <<>>
      /\ frozen = [k \in Key |-> 0] /\ paid = [k \in Key |-> 0]
  BY DEF Init
<1>2. Blank(Books)
  BY <1>1, BlankFrom DEF Books
<1>3. Sane(Books, crashes) /\ Bought(Books, sale, crashes) /\ Once(Books, payment, reversals)
  BY <1>2, BlankIsSane
<1>4. \A n \in {InitialStock, MaxNow, MaxChanges, MaxCrashes} : n \in Nat
  BY PayrollAssumption
<1>5. OtherTypes
  BY <1>1, <1>4 DEF OtherTypes, Day
<1>6. {s \in DOMAIN sale : sale[s] = "sold"} = {}
  BY <1>1
<1>7. Stocked
  BY <1>1, <1>4, <1>6, FS_EmptySet DEF Stocked
<1>. QED BY <1>3, <1>5, <1>7 DEF PayrollInv

\* What every operation keeps: the invariant, the periods apart, and the concepts
\* of the sealed periods but for a charge.
LEMMA StepKeeps ==
  ASSUME PayrollInv, [Next]_vars
  PROVE  /\ PayrollInv' /\ (Chained(Books) => Apart(Books'))
         /\ KeepsTotals \/ \E a \in Appointment : ~Charged(a) /\ Charged(a)'
<1>. DEFINE Kept == PayrollInv' /\ (Chained(Books) => Apart(Books'))
<1>1. ASSUME NEW a \in Appointment, Charge(a)
      PROVE  Kept /\ ~Charged(a) /\ Charged(a)'
  BY <1>1, ChargeKeeps, ChargeCharges
<1>2. ASSUME NEW a \in Appointment, RevertPayment(a)
      PROVE  Kept /\ KeepsTotals
  BY <1>2, RevertPaymentKeeps
<1>3. ASSUME NEW i \in 1..MaxConcepts, ReverseConcept(i)
      PROVE  Kept /\ KeepsTotals
  BY <1>3, ReverseConceptKeeps
<1>4. ASSUME NEW p \in 1..MaxPeriods, ChangeStatus(p)
      PROVE  Kept /\ KeepsTotals
  BY <1>4, ChangeStatusKeeps
<1>5. ASSUME NEW p \in 1..MaxPeriods, NEW w \in Payee, AddManualConcept(p, w)
      PROVE  Kept /\ KeepsTotals
  BY <1>5, ManualKeeps
<1>6. ASSUME NEW p \in 1..MaxPeriods, NEW w \in Payee, AddProductPurchase(p, w)
      PROVE  Kept /\ KeepsTotals
  BY <1>6, PurchaseKeeps
<1>7. ASSUME NEW p \in 1..MaxPeriods, NEW w \in Payee, RecordPayout(p, w)
      PROVE  Kept /\ KeepsTotals
  BY <1>7, PayoutKeeps
<1>8. ASSUME NEW f \in Frequency, SetFrequency(f)
      PROVE  Kept /\ KeepsTotals
  BY <1>8, SetFrequencyKeeps
<1>9. ASSUME RevertActivation PROVE Kept /\ KeepsTotals
  BY <1>9, RevertActivationKeeps
<1>10. ASSUME Tick PROVE Kept /\ KeepsTotals
  BY <1>10, TickKeeps
<1>11. ASSUME UNCHANGED vars PROVE Kept /\ KeepsTotals
  BY <1>11, StutterKeeps
<1>. HIDE DEF Kept
<1>12. Kept /\ (KeepsTotals \/ \E a \in Appointment : ~Charged(a) /\ Charged(a)')
  BY <1>1, <1>2, <1>3, <1>4, <1>5, <1>6, <1>7, <1>8, <1>9, <1>10, <1>11 DEF Next
<1>. QED BY <1>12 DEF Kept

\* The inductive invariant of the payroll holds of every reachable state.
THEOREM PayrollKeepsInv == Spec => []PayrollInv
<1>1. Init => PayrollInv
  BY InitIsInv
<1>2. PayrollInv /\ [Next]_vars => PayrollInv'
  BY StepKeeps
<1>. QED BY <1>1, <1>2, PTL DEF Spec

\* Every table keeps its types, and every concept the period it was written in:
\* payroll-period.service.ts and the writes of payroll-earnings.service.ts.
THEOREM PayrollTypes == Spec => []TypeOK
<1>1. PayrollInv => TypeOK
  BY TypesFollow DEF PayrollInv, Sane
<1>. QED BY <1>1, PayrollKeepsInv, PTL

LEMMA InvParts ==
  ASSUME PayrollInv
  PROVE  /\ Well(Books) /\ Books \in TypedBooks /\ Bounded(Books) /\ DiscountsLower(Books)
         /\ Bound(Books) /\ LooksBack(Books) /\ (crashes = 0 => InOrder(Books))
         /\ \A p \in DOMAIN period, w \in Payee :
              /\ <<p, w>> \in Key /\ frozen[<<p, w>>] \in Int /\ paid[<<p, w>>] \in Nat
              /\ p \in Nat \ {0}
<1>1. /\ Well(Books) /\ Bounded(Books) /\ DiscountsLower(Books) /\ Bound(Books)
      /\ LooksBack(Books) /\ (crashes = 0 => InOrder(Books))
  BY DEF PayrollInv, Sane
<1>2. Books \in TypedBooks
  BY <1>1, SoundIsTyped
<1>3. /\ Len(period) \in Nat /\ DOMAIN period = 1..Len(period) /\ Len(period) <= MaxPeriods
      /\ frozen \in [Key -> Int] /\ paid \in [Key -> Nat]
  <2>1. Len(Books.period) \in Nat /\ DOMAIN Books.period = 1..Len(Books.period)
        /\ Len(Books.period) <= MaxPeriods
    BY <1>1, <1>2, BookRows DEF Bounded
  <2>2. Books.frozen \in [Key -> Int] /\ Books.paid \in [Key -> Nat]
    BY <1>2 DEF TypedBooks
  <2>. QED BY <2>1, <2>2, BooksFields
<1>4. MaxPeriods \in Nat
  BY PayrollAssumption
<1>5. ASSUME NEW p \in DOMAIN period, NEW w \in Payee
      PROVE  <<p, w>> \in Key /\ p \in Nat \ {0}
  <2>1. p \in 1..MaxPeriods
    BY <1>3, <1>4
  <2>. QED BY <1>4, <2>1 DEF Key
<1>. QED BY <1>1, <1>2, <1>3, <1>5

\* What a worker earned in a period is its net before the discounts.
LEMMA EarnedIs ==
  ASSUME PayrollInv, NEW p, NEW w
  PROVE  /\ Earned(Books, p, w) = Net(Books, p, w) - Discounts(p, w)
         /\ Earned(Books, p, w) \in Int /\ Net(Books, p, w) \in Int /\ Discounts(p, w) \in Int
<1>. DEFINE N == {i \in Live(Books) : Books.concept[i].period = p /\ Books.concept[i].payee = w}
            E == {i \in Live(Books) : /\ Books.concept[i].period = p /\ Books.concept[i].payee = w
                                      /\ Books.concept[i].type # "discount"}
            D == {i \in Live(Books) : /\ concept[i].type = "discount"
                                      /\ concept[i].period = p /\ concept[i].payee = w}
<1>1. N \in SUBSET Live(Books) /\ E \in SUBSET N /\ N \ E = D /\ D \in SUBSET Live(Books)
  BY BooksFields
<1>2. Net(Books, p, w) = Total(Books, N) /\ Earned(Books, p, w) = Total(Books, E)
      /\ Discounts(p, w) = Total(Books, D)
  BY DEF Net, Earned, Discounts
<1>. HIDE DEF N, E, D
<1>3. Books \in TypedBooks
  BY InvParts
<1>4. Total(Books, N) = Total(Books, E) + Total(Books, D)
  BY <1>1, <1>3, TotalSplit
<1>5. Total(Books, E) \in Int /\ Total(Books, D) \in Int /\ Total(Books, N) \in Int
  BY <1>1, <1>3, TotalIs
<1>. QED BY <1>2, <1>4, <1>5

LEMMA PaidIsWithinEarned ==
  ASSUME PayrollInv
  PROVE  PaidWithinEarned
<1>. SUFFICES ASSUME NEW p \in DOMAIN period, NEW w \in Payee, paid[<<p, w>>] > 0
              PROVE  paid[<<p, w>>] <= Net(Books, p, w) - Discounts(p, w)
  BY DEF PaidWithinEarned
<1>1. <<p, w>> \in Key /\ Bound(Books)
  BY InvParts
<1>2. Books.paid[<<p, w>>] <= Earned(Books, p, w)
  BY <1>1, BooksFields DEF Bound
<1>. QED BY <1>2, BooksFields, EarnedIs

LEMMA ClosedOwesNothing ==
  ASSUME PayrollInv
  PROVE  ClosedIsSettled
<1>. SUFFICES ASSUME crashes = 0, NEW p \in DOMAIN period, NEW w \in Payee,
                     period[p].status = "closed"
              PROVE  PeriodSummary(p).workers[w].balance <= 0
  BY DEF ClosedIsSettled
<1>1. /\ <<p, w>> \in Key /\ frozen[<<p, w>>] \in Int /\ paid[<<p, w>>] \in Nat
      /\ InOrder(Books)
  BY InvParts
<1>2. p \in Sealed(Books)
  BY BooksFields DEF Sealed, Frozen
<1>3. frozen[<<p, w>>] <= paid[<<p, w>>]
  BY <1>1, <1>2, BooksFields DEF InOrder, Settled
<1>4. PeriodSummary(p).workers[w].balance = frozen[<<p, w>>] - paid[<<p, w>>]
  BY DEF PeriodSummary, CurrencyBreakdown, Frozen
<1>. QED BY <1>1, <1>3, <1>4

LEMMA StockIsBalanced ==
  ASSUME PayrollInv
  PROVE  StockBalanced
BY BooksFields DEF PayrollInv, Stocked, Bought, StockBalanced

\* The lines of a statement are the concepts of the worker taken by type.
LEMMA LinesAddUp ==
  ASSUME PayrollInv, NEW p, NEW w
  PROVE  /\ Sum(StatementBreakdown(p, w)) = Net(Books, p, w)
         /\ StatementBreakdown(p, w)["discount"] = Discounts(p, w)
<1>. DEFINE S == {i \in Live(Books) : Books.concept[i].period = p /\ Books.concept[i].payee = w}
            f == Amounts(Books)
            at == [i \in Live(Books) |-> concept[i].type]
            Of(t) == {i \in Live(Books) : /\ concept[i].type = t
                                          /\ concept[i].period = p /\ concept[i].payee = w}
<1>1. Books \in TypedBooks /\ S \in SUBSET Live(Books) /\ IsFiniteSet(S)
      /\ \A t : Of(t) \in SUBSET Live(Books)
  BY InvParts, LiveIsFinite
<1>2. \A i \in Live(Books) : at[i] \in ConceptType /\ f[i] \in Int
  <2>1. \A i \in Live(Books) : concept[i] \in Entry /\ f[i] \in Int
    BY <1>1, BookRows, AmountsAre, BooksFields
  <2>. QED BY <2>1 DEF Entry
<1>3. IsFiniteSet(ConceptType)
  <2>1. /\ IsFiniteSet({}) /\ IsFiniteSet({} \cup {"commission"})
        /\ IsFiniteSet(({} \cup {"commission"}) \cup {"discount"})
        /\ IsFiniteSet((({} \cup {"commission"}) \cup {"discount"}) \cup {"manual"})
        /\ IsFiniteSet(((({} \cup {"commission"}) \cup {"discount"}) \cup {"manual"}) \cup {"purchase"})
        /\ IsFiniteSet((((({} \cup {"commission"}) \cup {"discount"}) \cup {"manual"})
                        \cup {"purchase"}) \cup {"reversal"})
    BY FS_EmptySet, FS_AddElement
  <2>2. ConceptType = (((({} \cup {"commission"}) \cup {"discount"}) \cup {"manual"})
                        \cup {"purchase"}) \cup {"reversal"}
    BY DEF ConceptType
  <2>. QED BY <2>1, <2>2
<1>4. ASSUME NEW t \in ConceptType
      PROVE  /\ {i \in S : at[i] = t} = Of(t)
             /\ StatementBreakdown(p, w)[t] = SumFunctionOnSet(f, {i \in S : at[i] = t})
  <2>1. {i \in S : at[i] = t} = Of(t)
    BY BooksFields
  <2>2. StatementBreakdown(p, w)[t] = Total(Books, Of(t))
    BY DEF StatementBreakdown
  <2>3. Total(Books, Of(t)) = SumFunctionOnSet(f, Of(t))
    <3>1. Of(t) \in SUBSET Live(Books)
      BY <1>1
    <3>. HIDE DEF Of
    <3>. QED BY <1>1, <3>1, TotalIs
  <2>. HIDE DEF Of, S, at, f
  <2>. QED BY <2>1, <2>2, <2>3
<1>5. DOMAIN StatementBreakdown(p, w) = ConceptType
  BY DEF StatementBreakdown
<1>6. StatementBreakdown(p, w) = Parts(f, S, at, ConceptType)
  <2>1. StatementBreakdown(p, w) = [t \in ConceptType |-> StatementBreakdown(p, w)[t]]
    BY DEF StatementBreakdown
  <2>. HIDE DEF f, S, at
  <2>. QED BY <1>4, <2>1 DEF Parts
<1>7. Net(Books, p, w) = SumFunctionOnSet(f, S)
  <2>1. Net(Books, p, w) = Total(Books, S)
    BY DEF Net
  <2>. HIDE DEF S
  <2>. QED BY <1>1, <2>1, TotalIs
<1>8. StatementBreakdown(p, w)["discount"] = Discounts(p, w)
  BY DEF StatementBreakdown, Discounts, ConceptType
<1>. HIDE DEF f, S, at
<1>9. SumFunctionOnSet(Parts(f, S, at, ConceptType), ConceptType) = SumFunctionOnSet(f, S)
  <2>1. \A i \in S : at[i] \in ConceptType /\ f[i] \in Int
    BY <1>1, <1>2
  <2>. QED BY <1>1, <1>3, <2>1, SumByParts
<1>. QED BY <1>5, <1>6, <1>7, <1>8, <1>9 DEF Sum

LEMMA StatementIsExplained ==
  ASSUME PayrollInv
  PROVE  StatementExplainsNet
<1>. SUFFICES ASSUME crashes = 0, NEW p \in DOMAIN period, NEW w \in Payee
              PROVE  LET lines == StatementBreakdown(p, w)
                         explained == Sum(lines)
                         shown == CurrencyBreakdown(p, w).net
                     IN explained <= shown /\ shown <= explained - lines["discount"]
  BY DEF StatementExplainsNet
<1>. DEFINE shown == CurrencyBreakdown(p, w).net
<1>1. /\ <<p, w>> \in Key /\ frozen[<<p, w>>] \in Int
      /\ InOrder(Books) /\ Bound(Books) /\ DiscountsLower(Books) /\ Books \in TypedBooks
  BY InvParts
<1>2. /\ Earned(Books, p, w) = Net(Books, p, w) - Discounts(p, w)
      /\ Earned(Books, p, w) \in Int /\ Net(Books, p, w) \in Int /\ Discounts(p, w) \in Int
  BY EarnedIs
<1>3. Sum(StatementBreakdown(p, w)) = Net(Books, p, w)
      /\ StatementBreakdown(p, w)["discount"] = Discounts(p, w)
  BY LinesAddUp
<1>4. Net(Books, p, w) <= shown /\ shown <= Earned(Books, p, w)
  <2>1. CASE period[p].status \in Frozen
    <3>1. p \in Sealed(Books) /\ shown = frozen[<<p, w>>]
      BY <2>1, BooksFields DEF Sealed, CurrencyBreakdown
    <3>2. Net(Books, p, w) <= frozen[<<p, w>>]
      BY <1>1, <3>1, BooksFields DEF InOrder, Explained
    <3>3. frozen[<<p, w>>] <= Earned(Books, p, w)
      BY <1>1, <3>1, BooksFields DEF Bound
    <3>. QED BY <3>1, <3>2, <3>3
  <2>2. CASE period[p].status \notin Frozen
    <3>1. shown = Net(Books, p, w)
      BY <2>2 DEF CurrencyBreakdown
    <3>2. Net(Books, p, w) <= Earned(Books, p, w)
      BY <1>1, NetAtMostEarned
    <3>. QED BY <1>2, <3>1, <3>2
  <2>. QED BY <2>1, <2>2
<1>5. shown \in Int
  BY <1>1, <1>2 DEF CurrencyBreakdown
<1>. HIDE DEF shown
<1>6. shown <= Net(Books, p, w) - Discounts(p, w)
  BY <1>2, <1>4, <1>5
<1>. QED BY <1>3, <1>4, <1>6 DEF shown

LEMMA EveryPeriodIsOnAScreen ==
  ASSUME PayrollInv, period # <<>>
  PROVE  DOMAIN period = HistoricPeriods \cup {CurrentPeriod}
<1>1. Well(Books)
  BY InvParts
<1>2. CASE OpenPeriods(Books) # {}
  <2>1. OpenPeriods(Books) = {OpenPeriod(Books)} /\ OpenPeriod(Books) \in DOMAIN period
    BY <1>1, <1>2, OpenPeriodIs, BooksFields
  <2>2. OpenPeriods(Books) = {p \in DOMAIN period : period[p].status = "open"}
    BY BooksFields DEF OpenPeriods
  <2>3. CurrentPeriod = OpenPeriod(Books)
    BY <1>2 DEF CurrentPeriod
  <2>. QED BY <2>1, <2>2, <2>3 DEF HistoricPeriods
<1>3. CASE OpenPeriods(Books) = {}
  <2>1. Latest(Books) \in DOMAIN period
    BY <1>1, LatestIs, BooksFields
  <2>2. OpenPeriods(Books) = {p \in DOMAIN period : period[p].status = "open"}
    BY BooksFields DEF OpenPeriods
  <2>3. CurrentPeriod = Latest(Books)
    BY <1>3 DEF CurrentPeriod
  <2>. QED BY <1>3, <2>1, <2>2, <2>3 DEF HistoricPeriods
<1>. QED BY <1>2, <1>3

\* The nets of the workers add up to the concepts of the period.
LEMMA NetsAddUp ==
  ASSUME PayrollInv, NEW p
  PROVE  SumFunctionOnSet([w \in Payee |-> Net(Books, p, w)], Payee)
         = Total(Books, {i \in Live(Books) : concept[i].period = p})
<1>. DEFINE S == {i \in Live(Books) : concept[i].period = p}
            f == Amounts(Books)
            at == [i \in Live(Books) |-> concept[i].payee]
            Of(w) == {i \in Live(Books) : Books.concept[i].period = p /\ Books.concept[i].payee = w}
            nets == [w \in Payee |-> Net(Books, p, w)]
<1>1. Books \in TypedBooks /\ S \in SUBSET Live(Books) /\ IsFiniteSet(S)
  BY InvParts, LiveIsFinite
<1>2. \A i \in S : at[i] \in Payee /\ f[i] \in Int
  <2>1. \A i \in Live(Books) : concept[i] \in Entry /\ f[i] \in Int
    BY <1>1, BookRows, AmountsAre, BooksFields
  <2>. QED BY <2>1 DEF Entry
<1>3. ASSUME NEW w \in Payee
      PROVE  nets[w] = SumFunctionOnSet(f, {i \in S : at[i] = w})
  <2>1. {i \in S : at[i] = w} = Of(w) /\ Of(w) \in SUBSET Live(Books)
    BY BooksFields
  <2>2. nets[w] = Total(Books, Of(w))
    BY DEF Net
  <2>. HIDE DEF Of, S, at, f, nets
  <2>3. Total(Books, Of(w)) = SumFunctionOnSet(f, Of(w))
    BY <1>1, <2>1, TotalIs DEF f
  <2>. QED BY <2>1, <2>2, <2>3
<1>4. nets = [w \in Payee |-> nets[w]]
  OBVIOUS
<1>. HIDE DEF S, at, f, nets
<1>5. nets = Parts(f, S, at, Payee)
  BY <1>3, <1>4 DEF Parts
<1>6. SumFunctionOnSet(Parts(f, S, at, Payee), Payee) = SumFunctionOnSet(f, S)
  BY <1>1, <1>2, PayrollAssumption, SumByParts
<1>7. Total(Books, S) = SumFunctionOnSet(f, S)
  BY <1>1, TotalIs DEF f
<1>. QED BY <1>5, <1>6, <1>7 DEF nets, S

LEMMA HistoryIsTheExport ==
  ASSUME PayrollInv, NEW p \in DOMAIN period
  PROVE  HistoryLine(p) = ExportPeriod(p).total
<1>. DEFINE n == [w \in Payee |-> CurrencyBreakdown(p, w).net]
            o == [w \in Payee |-> CurrencyBreakdown(p, w).paid]
            l == [w \in Payee |-> CurrencyBreakdown(p, w).balance]
            Nets == SumFunctionOnSet(n, Payee)
            Out == SumFunctionOnSet(o, Payee)
            Left == SumFunctionOnSet(l, Payee)
<1>1. \A w \in Payee : PeriodSummary(p).workers[w] = CurrencyBreakdown(p, w)
  BY DEF PeriodSummary
<1>2. /\ [w \in Payee |-> PeriodSummary(p).workers[w].net] = n
      /\ [w \in Payee |-> PeriodSummary(p).workers[w].paid] = o
      /\ [w \in Payee |-> PeriodSummary(p).workers[w].balance] = l
  BY <1>1
<1>3. DOMAIN n = Payee /\ DOMAIN o = Payee /\ DOMAIN l = Payee
  OBVIOUS
<1>4. ExportPeriod(p).total = [net |-> Nets, paid |-> Out, balance |-> Left]
  BY <1>2, <1>3 DEF ExportPeriod, Totals, Sum
<1>5. \A w \in Payee : /\ n[w] \in Int /\ o[w] \in Int /\ l[w] \in Int /\ n[w] = l[w] + o[w]
                       /\ o[w] = paid[<<p, w>>]
  <2>1. ASSUME NEW w \in Payee
        PROVE  /\ n[w] \in Int /\ o[w] \in Int /\ l[w] = n[w] - o[w]
               /\ o[w] = paid[<<p, w>>]
    <3>1. frozen[<<p, w>>] \in Int /\ paid[<<p, w>>] \in Nat /\ Net(Books, p, w) \in Int
      BY InvParts, EarnedIs
    <3>. QED BY <3>1 DEF CurrencyBreakdown
  <2>. HIDE DEF n, o, l
  <2>. QED BY <2>1
<1>6. IsFiniteSet(Payee)
  BY PayrollAssumption
<1>7. Left = Nets - Out
  <2>1. Nets \in Int /\ Out \in Int /\ Left \in Int
    <3>. HIDE DEF n, o, l
    <3>. QED BY <1>5, <1>6, SumIsInt
  <2>2. Nets = Left + Out
    <3>. HIDE DEF n, o, l
    <3>. QED BY <1>5, <1>6, SumPlus
  <2>. HIDE DEF Nets, Out, Left
  <2>. QED BY <2>1, <2>2
<1>8. [w \in Payee |-> paid[<<p, w>>]] = o
  BY <1>5
<1>9. Sum([w \in Payee |-> paid[<<p, w>>]]) = Out
  BY <1>3, <1>8 DEF Sum
<1>10. CASE period[p].status \in Frozen
  <2>1. [w \in Payee |-> frozen[<<p, w>>]] = n
    BY <1>10 DEF CurrencyBreakdown
  <2>2. Sum([w \in Payee |-> frozen[<<p, w>>]]) = Nets
    BY <1>3, <2>1 DEF Sum
  <2>. HIDE DEF n, o, l, Nets, Out, Left
  <2>3. HistoryLine(p) = [net |-> Nets, paid |-> Out, balance |-> Nets - Out]
    BY <1>9, <1>10, <2>2 DEF HistoryLine
  <2>. QED BY <1>4, <1>7, <2>3
<1>11. CASE period[p].status \notin Frozen
  <2>1. n = [w \in Payee |-> Net(Books, p, w)]
    BY <1>11 DEF CurrencyBreakdown
  <2>2. Total(Books, {i \in Live(Books) : concept[i].period = p}) = Nets
    BY <2>1, NetsAddUp
  <2>. HIDE DEF n, o, l, Nets, Out, Left
  <2>3. HistoryLine(p) = [net |-> Nets, paid |-> Out, balance |-> Nets - Out]
    BY <1>9, <1>11, <2>2 DEF HistoryLine
  <2>. QED BY <1>4, <1>7, <2>3
<1>. QED BY <1>10, <1>11

LEMMA PaidFindTheirPeriod ==
  ASSUME PayrollInv, NEW p \in DOMAIN period, NEW w \in Payee, paid[<<p, w>>] > 0
  PROVE  MyStatement(p, w).shown = ExportPeriod(p).rows[w]
<1>. DEFINE E == {i \in Live(Books) : /\ Books.concept[i].period = p /\ Books.concept[i].payee = w
                                      /\ Books.concept[i].type # "discount"}
<1>1. Earned(Books, p, w) > 0
  <2>1. paid[<<p, w>>] <= Earned(Books, p, w) /\ paid[<<p, w>>] \in Nat
    BY InvParts, PaidIsWithinEarned, EarnedIs DEF PaidWithinEarned
  <2>2. Earned(Books, p, w) \in Int
    BY EarnedIs
  <2>. QED BY <2>1, <2>2
<1>2. E # {}
  <2>1. Earned(Books, p, w) = Total(Books, E)
    BY DEF Earned
  <2>. HIDE DEF E
  <2>2. Total(Books, {}) = 0
    BY InvParts, TotalEmpty
  <2>. QED BY <1>1, <2>1, <2>2
<1>3. p \in MyPeriods(w)
  BY <1>2, BooksFields DEF MyPeriods
<1>4. MyStatement(p, w).shown = CurrencyBreakdown(p, w)
  BY <1>3 DEF MyStatement
<1>5. ExportPeriod(p).rows[w] = CurrencyBreakdown(p, w)
  BY DEF ExportPeriod, PeriodSummary
<1>. QED BY <1>4, <1>5

LEMMA ReceiptsNameOne ==
  ASSUME PayrollInv, NEW a \in Appointment, reversals[a] = 0
  PROVE  Cardinality(ReceiptOf(a)) <= 1
<1>1. OneCommission(Books, a)
  BY DEF PayrollInv, Once
<1>2. \A i, j \in ReceiptOf(a) : i = j
  BY <1>1, BooksFields DEF OneCommission, ReceiptOf
<1>3. CASE ReceiptOf(a) = {}
  BY <1>3, FS_EmptySet
<1>4. ASSUME NEW i \in ReceiptOf(a)
      PROVE  Cardinality(ReceiptOf(a)) <= 1
  <2>1. ReceiptOf(a) = {i}
    BY <1>2
  <2>2. Cardinality({i}) = 1
    BY FS_Singleton
  <2>. QED BY <2>1, <2>2
<1>. QED BY <1>3, <1>4

LEMMA ScreensTellTheSame ==
  ASSUME PayrollInv
  PROVE  ScreensAgree
<1>1. period # <<>> => DOMAIN period = HistoricPeriods \cup {CurrentPeriod}
  BY EveryPeriodIsOnAScreen
<1>2. \A p \in HistoricPeriods : HistoryLine(p) = ExportPeriod(p).total
  BY HistoryIsTheExport DEF HistoricPeriods
<1>3. \A p \in DOMAIN period, w \in Payee :
        paid[<<p, w>>] > 0 => MyStatement(p, w).shown = ExportPeriod(p).rows[w]
  BY PaidFindTheirPeriod
<1>4. \A a \in Appointment : reversals[a] = 0 /\ crashes = 0 => Cardinality(ReceiptOf(a)) <= 1
  BY ReceiptsNameOne
<1>. QED BY <1>1, <1>2, <1>3, <1>4 DEF ScreensAgree

LEMMA OnlyChargeCharges ==
  ASSUME PayrollInv, [Next]_vars, NEW a \in Appointment
  PROVE  /\ ~Charged(a) /\ Charged(a)' => Charge(a)
         /\ Charged(a) /\ ~Charged(a)' => RevertPayment(a)
<1>. DEFINE Goal == /\ ~Charged(a) /\ Charged(a)' => Charge(a)
                    /\ Charged(a) /\ ~Charged(a)' => RevertPayment(a)
<1>1. ASSUME NEW x \in Appointment, Charge(x)
      PROVE  Goal
  <2>1. ~Charged(x) /\ Charged(x)' /\ (x # a => Charged(a)' = Charged(a))
    BY <1>1, ChargeCharges
  <2>. QED BY <1>1, <2>1
<1>2. ASSUME NEW x \in Appointment, RevertPayment(x)
      PROVE  Goal
  <2>1. payment' = [payment EXCEPT ![x] = NoPayment]
    BY <1>2 DEF RevertPayment
  <2>2. payment \in [Appointment -> PaymentRow \cup {NoPayment}]
    BY DEF PayrollInv, OtherTypes
  <2>3. payment'[x] = NoPayment /\ (x # a => payment'[a] = payment[a])
    BY <2>1, <2>2
  <2>4. ~Charged(x)' /\ (x # a => Charged(a)' = Charged(a))
    BY <2>3 DEF Charged
  <2>5. Charged(a) /\ ~Charged(a)' => x = a
    BY <2>4
  <2>6. ~(~Charged(a) /\ Charged(a)')
    BY <2>4
  <2>. QED BY <1>2, <2>5, <2>6
<1>3. ASSUME payment' = payment
      PROVE  Goal
  BY <1>3 DEF Charged
<1>. HIDE DEF Goal
<1>4. ASSUME NEW i \in 1..MaxConcepts, ReverseConcept(i) PROVE Goal
  BY <1>3, <1>4 DEF ReverseConcept
<1>5. ASSUME NEW p \in 1..MaxPeriods, ChangeStatus(p) PROVE Goal
  BY <1>3, <1>5 DEF ChangeStatus
<1>6. ASSUME NEW p \in 1..MaxPeriods, NEW w \in Payee,
             AddManualConcept(p, w) \/ AddProductPurchase(p, w) \/ RecordPayout(p, w)
      PROVE  Goal
  BY <1>3, <1>6 DEF AddManualConcept, AddProductPurchase, RecordPayout
<1>7. ASSUME NEW f \in Frequency, SetFrequency(f) PROVE Goal
  BY <1>3, <1>7 DEF SetFrequency
<1>8. ASSUME RevertActivation \/ Tick \/ UNCHANGED vars PROVE Goal
  BY <1>3, <1>8 DEF RevertActivation, Tick, vars
<1>9. Goal
  BY <1>1, <1>2, <1>4, <1>5, <1>6, <1>7, <1>8 DEF Next
<1>. QED BY <1>9 DEF Goal

\* What a charge credits is what the appointment costs from then on.
LEMMA CreditedOwes ==
  ASSUME NEW b \in TypedBooks, LooksBack(b), NEW a \in Appointment, ConceptsOf(b, a) = {},
         NEW c \in TypedBooks, NEW amount \in Commission, Credits(b, c, a, amount)
  PROVE  \E d \in Discount : Owed(c, a) = amount - Min2(d, amount)
<1>1. PICK discount \in Discount, p \in Nat \ {0} : \E u \in TypedBooks :
        /\ Noted(b, u, CommissionOf(a, amount, p))
        /\ \/ discount = 0 /\ c.concept = u.concept
           \/ Noted(u, c, DiscountOf(a, Min2(discount, amount), p))
  BY DEF Credits
<1>2. PICK u \in TypedBooks :
        /\ Noted(b, u, CommissionOf(a, amount, p))
        /\ \/ discount = 0 /\ c.concept = u.concept
           \/ Noted(u, c, DiscountOf(a, Min2(discount, amount), p))
  BY <1>1
<1>. DEFINE n == Len(b.concept) + 1
            m == Len(u.concept) + 1
            e == CommissionOf(a, amount, p)
            g == DiscountOf(a, Min2(discount, amount), p)
            Opposites(d) == {j \in Live(d) : d.concept[j].type = "reversal"
                                           /\ d.concept[j].source \in ConceptsOf(d, a)}
<1>3. /\ e.type = "commission" /\ e.source = a /\ e.amount = amount
      /\ g.type = "discount" /\ g.source = a /\ g.amount = -Min2(discount, amount)
  BY DEF CommissionOf, DiscountOf
<1>4. amount \in Nat /\ discount \in Nat /\ Min2(discount, amount) \in Int
      /\ (discount = 0 => Min2(discount, amount) = 0)
  BY PayrollAssumption DEF Min2
<1>. HIDE DEF e, g
<1>5. /\ Live(u) = Live(b) \cup {n} /\ u.concept[n] = e /\ m = n + 1 /\ n \in Nat
      /\ \A i \in Live(b) : u.concept[i] = b.concept[i] /\ i \in Nat /\ i < n
  <2>1. Len(b.concept) \in Nat /\ \A i \in Live(b) : i \in Nat /\ i <= Len(b.concept)
    BY OldConcepts
  <2>2. Noted(b, u, e)
    BY <1>2 DEF e
  <2>3. /\ Len(u.concept) = n /\ Live(u) = Live(b) \cup {n} /\ u.concept[n] = e
        /\ \A i \in Live(b) : u.concept[i] = b.concept[i]
    BY <2>2 DEF Noted
  <2>. QED BY <2>1, <2>3
<1>. HIDE DEF n, m
<1>6. \A i \in Live(b) : ~(b.concept[i].type \in {"commission", "discount"}
                           /\ b.concept[i].source = a)
  BY DEF ConceptsOf
<1>7. \A j \in Live(b) : b.concept[j].type = "reversal" =>
        b.concept[j].source \in Nat /\ b.concept[j].source < n
  BY <1>5 DEF LooksBack
<1>8. CASE discount = 0 /\ c.concept = u.concept
  <2>1. Live(c) = Live(b) \cup {n} /\ c.concept[n] = e
        /\ \A i \in Live(b) : c.concept[i] = b.concept[i]
    BY <1>5, <1>8, SameLive
  <2>2. ConceptsOf(c, a) = {n}
    BY <1>3, <1>6, <2>1 DEF ConceptsOf
  <2>3. Opposites(c) = {}
    BY <1>3, <1>5, <1>7, <2>1, <2>2
  <2>4. Owed(c, a) = Total(c, {n})
    <3>1. Owed(c, a) = Total(c, ConceptsOf(c, a) \cup Opposites(c))
      BY DEF Owed
    <3>. HIDE DEF Opposites
    <3>2. ConceptsOf(c, a) \cup Opposites(c) = {n}
      BY <2>2, <2>3
    <3>. QED BY <3>1, <3>2
  <2>5. Total(c, {n}) = e.amount
    BY <2>1, TotalOne
  <2>6. Owed(c, a) = amount - Min2(discount, amount)
    BY <1>3, <1>4, <1>8, <2>4, <2>5
  <2>. QED BY <2>6
<1>9. CASE Noted(u, c, DiscountOf(a, Min2(discount, amount), p))
  <2>1. /\ Live(c) = (Live(b) \cup {n}) \cup {m} /\ c.concept[n] = e /\ c.concept[m] = g
        /\ \A i \in Live(b) : c.concept[i] = b.concept[i]
    <3>1. Noted(u, c, g)
      BY <1>9 DEF g
    <3>2. /\ Live(c) = Live(u) \cup {m} /\ c.concept[m] = g
          /\ \A i \in Live(u) : c.concept[i] = u.concept[i]
      BY <3>1 DEF Noted, m
    <3>. QED BY <1>5, <3>2
  <2>2. ConceptsOf(c, a) = {n} \cup {m}
    BY <1>3, <1>6, <2>1 DEF ConceptsOf
  <2>3. Opposites(c) = {}
    BY <1>3, <1>5, <1>7, <2>1, <2>2
  <2>4. Owed(c, a) = Total(c, {n} \cup {m})
    <3>1. Owed(c, a) = Total(c, ConceptsOf(c, a) \cup Opposites(c))
      BY DEF Owed
    <3>. HIDE DEF Opposites
    <3>2. ConceptsOf(c, a) \cup Opposites(c) = {n} \cup {m}
      BY <2>2, <2>3
    <3>. QED BY <3>1, <3>2
  <2>5. Total(c, {n}) = e.amount
    BY <2>1, TotalOne
  <2>6. Total(c, {n} \cup {m}) = Total(c, {n}) + c.concept[m].amount
    <3>1. {n} \in SUBSET Live(c) /\ m \in Live(c) /\ m \notin {n}
      BY <1>5, <2>1
    <3>. QED BY <3>1, TotalAdd
  <2>7. Owed(c, a) = amount - Min2(discount, amount)
    BY <1>3, <1>4, <2>1, <2>4, <2>5, <2>6
  <2>. QED BY <2>7
<1>. QED BY <1>2, <1>8, <1>9

LEMMA ChargeIsCredited ==
  ASSUME PayrollInv, NEW a \in Appointment, Charge(a), reversals[a] = 0, crashes' = crashes,
         ~BeforeActivation(Books', payment'[a].paidAt)
  PROVE  \E d \in Discount : Owed(Books', a) =
           payment'[a].commission - Min2(d, payment'[a].commission)
<1>1. PICK date \in Day, amount \in Commission : \E c \in TypedBooks :
        /\ payment' = [payment EXCEPT ![a] = [paidAt |-> date, commission |-> amount]]
        /\ Books' = c
        /\ /\ crashes' = crashes /\ ~BeforeActivation(c, date)
           /\ ~HasA(Books, a, "commission") /\ ~HasA(Books, a, "discount")
           => Credits(Books, c, a, amount)
  BY ChargeIs
<1>2. PICK c \in TypedBooks :
        /\ payment' = [payment EXCEPT ![a] = [paidAt |-> date, commission |-> amount]]
        /\ Books' = c
        /\ /\ crashes' = crashes /\ ~BeforeActivation(c, date)
           /\ ~HasA(Books, a, "commission") /\ ~HasA(Books, a, "discount")
           => Credits(Books, c, a, amount)
  BY <1>1
<1>3. payment'[a].paidAt = date /\ payment'[a].commission = amount
  <2>1. payment \in [Appointment -> PaymentRow \cup {NoPayment}]
    BY DEF PayrollInv, OtherTypes
  <2>2. payment'[a] = [paidAt |-> date, commission |-> amount]
    BY <1>2, <2>1
  <2>. QED BY <2>2
<1>4. ConceptsOf(Books, a) = {}
  <2>1. ~Charged(a)
    BY ChargeIs
  <2>. QED BY <2>1 DEF PayrollInv, Once, Charged
<1>5. ~HasA(Books, a, "commission") /\ ~HasA(Books, a, "discount")
  BY <1>4 DEF HasA, ConceptsOf
<1>6. ~BeforeActivation(c, date)
  BY <1>2, <1>3
<1>7. Credits(Books, c, a, amount)
  BY <1>2, <1>5, <1>6
<1>8. \E d \in Discount : Owed(c, a) = amount - Min2(d, amount)
  BY <1>4, <1>7, InvParts, CreditedOwes
<1>. QED BY <1>2, <1>3, <1>8

\* The payroll is activated from nothing by configuring it alone.
LEMMA OnlyConfiguringActivates ==
  ASSUME PayrollInv, [Next]_vars, config = None, config' # None
  PROVE  \E f \in Frequency : SetFrequency(f)
<1>1. ASSUME NEW a \in Appointment, Charge(a) \/ RevertPayment(a) PROVE FALSE
  BY <1>1 DEF Charge, RevertPayment
<1>2. ASSUME NEW i \in 1..MaxConcepts, ReverseConcept(i) PROVE FALSE
  BY <1>2 DEF ReverseConcept
<1>3. ASSUME NEW p \in 1..MaxPeriods, ChangeStatus(p) PROVE FALSE
  BY <1>3 DEF ChangeStatus
<1>4. ASSUME NEW p \in 1..MaxPeriods, NEW w \in Payee,
             AddManualConcept(p, w) \/ AddProductPurchase(p, w) \/ RecordPayout(p, w)
      PROVE  FALSE
  BY <1>4 DEF AddManualConcept, AddProductPurchase, RecordPayout
<1>5. ASSUME RevertActivation \/ Tick \/ UNCHANGED vars PROVE FALSE
  BY <1>5 DEF RevertActivation, Tick, vars
<1>. QED BY <1>1, <1>2, <1>3, <1>4, <1>5 DEF Next

-----------------------------------------------------------------------------
(* The theorems *)

\* No worker is paid in a period more than they earned in it before discounts:
\* recordPayout, settleRemainingBalances and the charges that come late.
THEOREM NobodyIsOverpaid == Spec => []PaidWithinEarned
<1>1. PayrollInv => PaidWithinEarned
  BY PaidIsWithinEarned
<1>. QED BY <1>1, PayrollKeepsInv, PTL

\* A closed period owes nothing, a charge dated in it included, if no operation
\* was cut: changeStatus and the settling again of a past period.
THEOREM ClosedPeriodsAreSettled == Spec => []ClosedIsSettled
<1>1. PayrollInv => ClosedIsSettled
  BY ClosedOwesNothing
<1>. QED BY <1>1, PayrollKeepsInv, PTL

\* The lines of a statement add up to what it shows, but for a late discount:
\* buildStatement reads the concepts, the header the snapshot.
THEOREM StatementsExplainTheirNet == Spec => []StatementExplainsNet
<1>1. PayrollInv => StatementExplainsNet
  BY StatementIsExplained
<1>. QED BY <1>1, PayrollKeepsInv, PTL

\* The books balance in every reachable state: the payments, the closed periods,
\* the statements, the stock and the screens that read them.
THEOREM TheBooksBalance == Spec => []BooksBalance
<1>1. PayrollInv => PaidWithinEarned /\ ClosedIsSettled /\ StockBalanced
                    /\ StatementExplainsNet /\ ScreensAgree
  BY PaidIsWithinEarned, ClosedOwesNothing, StockIsBalanced, StatementIsExplained,
     ScreensTellTheSame
<1>2. PayrollInv /\ TypeOK => BooksBalance
  BY <1>1 DEF BooksBalance
<1>. QED BY <1>2, PayrollKeepsInv, PayrollTypes, PTL

\* No day comes to belong to two periods, whatever is charged, undone, configured
\* or approved, unless an older period was open: ensureOpenPeriod and its chain.
THEOREM ThePeriodsStayDisjoint == Spec => PeriodsStayDisjoint
<1>1. PayrollInv /\ Disjoint /\ (\A p \in OpenPeriods(Books) : p = Latest(Books))
      => Chained(Books)
  <2>. SUFFICES ASSUME PayrollInv, Disjoint, \A p \in OpenPeriods(Books) : p = Latest(Books)
                PROVE  Chained(Books)
    OBVIOUS
  <2>1. Apart(Books)
    BY BooksFields DEF Disjoint, Overlapping, Apart
  <2>2. ASSUME NEW p \in OpenPeriods(Books), NEW q \in DOMAIN Books.period
        PROVE  Books.period[q].startsAt <= Books.period[p].startsAt
    <3>1. Books.period # <<>>
      BY <2>2
    <3>2. Well(Books)
      BY InvParts
    <3>3. \A r \in DOMAIN Books.period :
            Books.period[r].startsAt <= Books.period[Latest(Books)].startsAt
      BY <3>1, <3>2, LatestIs
    <3>. QED BY <2>2, <3>3
  <2>. QED BY <2>1, <2>2 DEF Chained, OpenIsLast
<1>2. Apart(Books') => Disjoint'
  BY DEF Apart, Disjoint, Overlapping, Books
<1>3. PayrollInv /\ [Next]_vars =>
        (Disjoint /\ (\A p \in OpenPeriods(Books) : p = Latest(Books)) => Disjoint')
  BY <1>1, <1>2, StepKeeps
<1>. QED BY <1>3, PayrollKeepsInv, PTL DEF Spec, PeriodsStayDisjoint

\* The concepts of an approved period change by a charge dated in it alone: the
\* guards of addManualConcept and addProductPurchase, and reverseConcept.
THEOREM ApprovedStaysSealed == Spec => ApprovedIsSealed
<1>1. ASSUME PayrollInv, [Next]_vars, NEW p \in DOMAIN period \cap DOMAIN period',
             period[p].status \in Frozen, NEW w \in Payee, Net(Books, p, w) # Net(Books, p, w)'
      PROVE  \E a \in Appointment : ~Charged(a) /\ Charged(a)'
  <2>1. KeepsTotals \/ \E a \in Appointment : ~Charged(a) /\ Charged(a)'
    BY <1>1, StepKeeps
  <2>2. KeepsTotals => Net(Books', p, w) = Net(Books, p, w)
    BY <1>1 DEF KeepsTotals
  <2>3. Net(Books, p, w)' = Net(Books', p, w)
    OBVIOUS
  <2>. QED BY <1>1, <2>1, <2>2, <2>3
<1>2. PayrollInv /\ [Next]_vars =>
        \A p \in DOMAIN period \cap DOMAIN period' :
          /\ period[p].status \in Frozen
          /\ \E w \in Payee : Net(Books, p, w) # Net(Books, p, w)'
          => \E a \in Appointment : ~Charged(a) /\ Charged(a)'
  BY <1>1
<1>. QED BY <1>2, PayrollKeepsInv, PTL DEF Spec, ApprovedIsSealed

\* A first charge adds to the payroll its commission less its discount, once, in
\* whatever period it falls: recordAttributionConcepts, and recordCommissions.
THEOREM FirstChargesAreCredited == Spec => FirstChargeIsCredited
<1>1. PayrollInv /\ [Next]_vars =>
        \A a \in Appointment :
          /\ ~Charged(a) /\ Charged(a)' /\ reversals[a] = 0 /\ crashes' = crashes
          /\ ~BeforeActivation(Books', payment'[a].paidAt)
          => \E d \in Discount : Owed(Books', a) =
               payment'[a].commission - Min2(d, payment'[a].commission)
  BY OnlyChargeCharges, ChargeIsCredited
<1>. QED BY <1>1, PayrollKeepsInv, PTL DEF Spec, FirstChargeIsCredited

\* Undoing a charge leaves the worker nothing of it, whether its period was open
\* or approved: reverseAppointmentConcepts.
THEOREM UndoneChargesOweNothing == Spec => UndoneChargeOwesNothing
<1>1. ASSUME PayrollInv, [Next]_vars, NEW a \in Appointment, Charged(a), ~Charged(a)',
             crashes' = crashes, \A i \in ConceptsOf(Books, a) : ~Reversed(Books, i)
      PROVE  Owed(Books', a) = 0
  <2>1. RevertPayment(a)
    BY <1>1, OnlyChargeCharges
  <2>. QED BY <1>1, <2>1, RevertPaymentIs
<1>2. PayrollInv /\ [Next]_vars =>
        \A a \in Appointment :
          /\ Charged(a) /\ ~Charged(a)' /\ crashes' = crashes
          /\ \A i \in ConceptsOf(Books, a) : ~Reversed(Books, i)
          => Owed(Books', a) = 0
  BY <1>1
<1>. QED BY <1>2, PayrollKeepsInv, PTL DEF Spec, UndoneChargeOwesNothing

\* Activating the payroll brings every charge made since its first day, each by
\* its commission: backfillFromPayments.
THEOREM ActivationsBringCharges == Spec => ActivationBringsCharges
<1>1. ASSUME PayrollInv, [Next]_vars, config = None, period = <<>>, config' # None,
             crashes' = crashes, NEW a \in Appointment, Charged(a),
             ~BeforeActivation(Books', payment[a].paidAt)
      PROVE  Owed(Books', a) = payment[a].commission
  <2>1. PICK f \in Frequency : SetFrequency(f)
    BY <1>1, OnlyConfiguringActivates
  <2>2. PICK c \in TypedBooks :
          /\ Books' = c
          /\ crashes' = crashes => \A x \in Appointment :
               Charged(x) /\ ~BeforeActivation(c, payment[x].paidAt)
               => Owed(c, x) = payment[x].commission
    BY <1>1, <2>1, ActivationIs
  <2>. QED BY <1>1, <2>2
<1>2. PayrollInv /\ [Next]_vars =>
        (config = None /\ period = <<>> /\ config' # None /\ crashes' = crashes =>
           \A a \in Appointment :
             Charged(a) /\ ~BeforeActivation(Books', payment[a].paidAt)
             => Owed(Books', a) = payment[a].commission)
  BY <1>1
<1>. QED BY <1>2, PayrollKeepsInv, PTL DEF Spec, ActivationBringsCharges

\* What is charged or undone reaches the worker's books exactly once, and so do
\* the charges made before the payroll was active.
THEOREM EveryChargeReachesTheBooks == Spec => ChargesReachTheBooks
BY FirstChargesAreCredited, UndoneChargesOweNothing, ActivationsBringCharges
   DEF ChargesReachTheBooks

=============================================================================
