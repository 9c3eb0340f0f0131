--------------------------- MODULE ClientsReport ---------------------------
(***************************************************************************)
(* What the owner of a salon reads of its clients: who is active, new and  *)
(* lost, today and in the periods of a trend, and the calendar that cuts   *)
(* time in those periods.  One client: the report counts them one by one.  *)
(*                                                                         *)
(* A day has three instants: it starts, something happens, it ends.        *)
(***************************************************************************)
EXTENDS Integers, Sequences, FiniteSets, FiniteSetsExt

CONSTANTS
  ACTIVE_WINDOW_DAYS, CHURN_WINDOW_DAYS,
  Years,      \* years of the calendar
  FirstOf,    \* the first day of each of its months, counted from its first day
  HalfMonth,  \* the last day of the first half of a month
  GRANULARITY_COUNT,
  Birth,      \* days the client may have been written down on
  DateWindow,     \* days an appointment may be for
  FirstDay, LastDay, MaxVisits  \* bounds

MonthsIn == [month |-> 1, quarter |-> 3, semester |-> 6, year |-> 12]

\* Days and months are counted from 0.  The calendar reaches the days that are
\* asked for, and back to the first of the periods that a report shows.
lastDayOfMonth(m) == FirstOf[m + 1] - 1
MonthOf(d) == CHOOSE m \in DOMAIN FirstOf : FirstOf[m] <= d /\ d <= lastDayOfMonth(m)

ASSUME ClientsReportAssumption ==
  /\ ACTIVE_WINDOW_DAYS \in Nat /\ CHURN_WINDOW_DAYS \in Nat \ {0}
  /\ ACTIVE_WINDOW_DAYS <= CHURN_WINDOW_DAYS
  /\ HalfMonth \in Nat \ {0} /\ Years \in Nat
  /\ DOMAIN FirstOf = 0..(12 * Years) /\ FirstOf[0] = 0
  /\ \A m \in 1..(12 * Years) : FirstOf[m] \in Nat /\ FirstOf[m] > FirstOf[m - 1] + HalfMonth
  /\ FirstDay \in Nat /\ LastDay \in Nat /\ FirstDay <= LastDay
  /\ DateWindow \subseteq Nat /\ Birth \subseteq Nat
  /\ \A d \in DateWindow \cup {LastDay} : d < FirstOf[12 * Years]
  /\ DOMAIN GRANULARITY_COUNT = {"half"} \cup DOMAIN MonthsIn
  /\ \A g \in DOMAIN GRANULARITY_COUNT : GRANULARITY_COUNT[g] \in Nat \ {0}
  /\ \A g \in DOMAIN MonthsIn : (GRANULARITY_COUNT[g] - 1) * MonthsIn[g] <= MonthOf(FirstDay)
  /\ GRANULARITY_COUNT["half"] - 1 <= 2 * MonthOf(FirstDay)

VARIABLES
  day,         \* today
  visits,      \* the days of its appointments, in the rows of session
  firstVisit,  \* firstAppointmentDate, written with the first one booked
  since        \* created_at

clientVars == <<day, visits, firstVisit, since>>

Unset == -1

Morning(d) == 3 * d
During(d) == 3 * d + 1
Night(d) == 3 * d + 2

-----------------------------------------------------------------------------
(* clients-report.util.ts *)

DayOfMonth(d) == d - FirstOf[MonthOf(d)] + 1

Period(from, to) == [start |-> from, end |-> to]

\* The blocks of months that end with the one of today, or the half months.
MonthBlocks(granularity, n) ==
  [i \in 1..GRANULARITY_COUNT[granularity] |->
     LET first == (MonthOf(day) \div n - (GRANULARITY_COUNT[granularity] - i)) * n
     IN Period(FirstOf[first], lastDayOfMonth(first + n - 1))]

HalfMonths ==
  LET count == GRANULARITY_COUNT["half"]
      \* i half months before the one of today
      back[i \in 0..count] ==
        IF i = 0 THEN [m |-> MonthOf(day), half |-> IF DayOfMonth(day) <= HalfMonth THEN 1 ELSE 2]
        ELSE LET later == back[i - 1]
             IN [m |-> later.m - (later.half % 2), half |-> 3 - later.half]
      period(b) == IF b.half = 1
                   THEN Period(FirstOf[b.m], FirstOf[b.m] + HalfMonth - 1)
                   ELSE Period(FirstOf[b.m] + HalfMonth, lastDayOfMonth(b.m))
  IN [i \in 1..count |-> period(back[count - i])]

Granularity == DOMAIN GRANULARITY_COUNT
generateGranularityPeriods(granularity) ==
  IF granularity = "half" THEN HalfMonths ELSE MonthBlocks(granularity, MonthsIn[granularity])

\* The first month of the block of n months that d is in.
BlockOf(d, n) == (MonthOf(d) \div n) * n

\* Where the period that has d ends, and where the next one starts.
TimelineCut(bucket, d) ==
  CASE bucket = "day" -> [end |-> d, next |-> d + 1]
    [] bucket = "week" -> [end |-> d + 6, next |-> d + 7]
    [] OTHER ->
         LET n == MonthsIn[bucket]
             fm == BlockOf(d, n)
         IN [end |-> lastDayOfMonth(fm + n - 1), next |-> FirstOf[fm + n]]

PeriodCut(bucket, d) ==
  IF bucket = "week" THEN TimelineCut(bucket, d)
  ELSE LET lastDay == IF bucket = "half" /\ DayOfMonth(d) <= HalfMonth
                      THEN FirstOf[MonthOf(d)] + HalfMonth - 1
                      ELSE lastDayOfMonth(MonthOf(d))
       IN [end |-> lastDay, next |-> lastDay + 1]

\* The periods of a range; the last one does not go past its end.
Cover(cut, from, to) ==
  LET rest[d \in from..(to + 1)] ==
        IF d > to THEN <<>>
        ELSE <<Period(d, Min({cut[d].end, to}))>> \o rest[Min({cut[d].next, to + 1})]
  IN rest[from]

generateTimelineBuckets(from, to, bucket) ==
  Cover([d \in from..to |-> TimelineCut(bucket, d)], from, to)
generateBucketPeriods(from, to, bucket) ==
  Cover([d \in from..to |-> PeriodCut(bucket, d)], from, to)

\* The bucket of a charge: a binary search of the last one that starts by then.
bucketIndexOf(buckets, t) ==
  LET Bounds == [lo : 1..(Len(buckets) + 1), hi : 0..Len(buckets), idx : 0..Len(buckets)]
      search[at \in Bounds] ==
        LET mid == (at.lo + at.hi) \div 2
        IN IF at.lo > at.hi THEN at.idx
           ELSE IF Morning(buckets[mid].start) <= t
           THEN search[[lo |-> mid + 1, hi |-> at.hi, idx |-> mid]]
           ELSE search[[lo |-> at.lo, hi |-> mid - 1, idx |-> at.idx]]
  IN search[[lo |-> 1, hi |-> Len(buckets), idx |-> 0]]

-----------------------------------------------------------------------------
(* reports.service.ts, over the appointments of the client *)

ActiveWindow == 3 * ACTIVE_WINDOW_DAYS
ChurnWindow == 3 * CHURN_WINDOW_DAYS
appointments == {During(d) : d \in visits}
firstAppointment ==
  IF firstVisit # Unset THEN During(firstVisit)
  ELSE IF visits # {} THEN Min(appointments) ELSE Unset
registered == During(since)

isActiveAt(at) == \E t \in appointments : at - ActiveWindow < t /\ t <= at
isChurnedAt(at) ==
  LET relevant == {t \in appointments : t <= at}
  IN relevant # {} /\ Max(relevant) < at - ChurnWindow
isNewAt(at) ==
  \E t \in {firstAppointment, registered} \ {Unset} : at - ActiveWindow < t /\ t <= at
joinedInPeriod(from, to) == \E t \in {firstAppointment, registered} \ {Unset} : from <= t /\ t <= to

\* Mutant: only the last appointment of all may have been the last of a streak.
NeverCameBack(from, to) ==
  \E t \in appointments :
    /\ \A u \in appointments : u <= t
    /\ from <= t + ChurnWindow /\ t + ChurnWindow <= to
\* A streak of appointments is over when the window passes without another.
churnedInPeriod(from, to) ==
  \E t \in appointments :
    /\ \A u \in appointments : u > t => u > t + ChurnWindow
    /\ from <= t + ChurnWindow /\ t + ChurnWindow <= to

Trend(periods) ==
  [i \in DOMAIN periods |->
     LET from == Morning(periods[i].start)
         to == Night(periods[i].end)
     IN [active |-> isActiveAt(to), joined |-> joinedInPeriod(from, to),
         churned |-> churnedInPeriod(from, to)]]

-----------------------------------------------------------------------------
(* What the other components do to the rows read here *)

\* The first one that is booked is written down, whatever its date is; one that
\* is cancelled is read as the others, for the column that is asked is not the
\* one that says so.
BookVisit(d) ==
  /\ d \notin visits /\ Cardinality(visits) < MaxVisits
  /\ visits' = visits \cup {d}
  /\ firstVisit' = IF firstVisit = Unset THEN d ELSE firstVisit
  /\ UNCHANGED <<day, since>>

\* The row goes, and firstAppointmentDate stays.
RemoveVisit(d) ==
  /\ visits' = visits \ {d} /\ d \in visits
  /\ UNCHANGED <<day, firstVisit, since>>

PassDay ==
  /\ day < LastDay /\ day' = day + 1
  /\ UNCHANGED <<visits, firstVisit, since>>

ReportsInit ==
  /\ day = FirstDay /\ visits = {} /\ firstVisit = Unset /\ since \in Birth

ReportsNext == (\E d \in DateWindow : BookVisit(d) \/ RemoveVisit(d)) \/ PassDay

ReportsSpec == ReportsInit /\ [][ReportsNext]_clientVars

-----------------------------------------------------------------------------
(* Properties *)

ReportsTypeOK ==
  /\ day \in FirstDay..LastDay /\ visits \subseteq DateWindow
  /\ firstVisit \in DateWindow \cup {Unset} /\ since \in Birth

DaysOf(p) == p.start..p.end
Tiles(periods, from, to) ==
  /\ periods[1].start = from /\ periods[Len(periods)].end = to
  /\ \A i \in DOMAIN periods : periods[i].start <= periods[i].end
  /\ \A i \in 2..Len(periods) : periods[i].start = periods[i - 1].end + 1

\* Every day of a range is in one bucket and one only, which is the one that the
\* search finds for it; a period of the calendar is never cut but by the range.
BucketsTile ==
  \A from \in DateWindow : \A to \in {d \in DateWindow : d >= from} :
    /\ \A b \in {"day", "week"} \cup DOMAIN MonthsIn :
         LET buckets == generateTimelineBuckets(from, to, b) IN
         /\ Tiles(buckets, from, to)
         /\ \A d \in from..to :
              \A t \in {Morning(d), Night(d)} : d \in DaysOf(buckets[bucketIndexOf(buckets, t)])
         /\ b \in DOMAIN MonthsIn => \A i \in 2..Len(buckets) :
              DayOfMonth(buckets[i].start) = 1 /\ MonthOf(buckets[i].start) % MonthsIn[b] = 0
    /\ \A b \in {"week", "half", "month"} : Tiles(generateBucketPeriods(from, to, b), from, to)

\* The periods of a granularity follow one another and end with the one of today.
PeriodsReachToday ==
  \A g \in Granularity :
    LET periods == generateGranularityPeriods(g)
        last == periods[Len(periods)]
    IN Tiles(periods, periods[1].start, last.end) /\ day \in DaysOf(last)

\* The column of the lost of a trend says what the card of the lost says: somebody
\* is lost in a period if on one of its days the client becomes lost, however many
\* times it was lost and came back. Nobody is active and lost on the same day.
\* Whoever is new is in the trend as joined.
TrendIsTrue ==
  /\ \A g \in Granularity :
       LET periods == generateGranularityPeriods(g)
           trend == Trend(periods)
       IN /\ \A i \in DOMAIN periods :
               trend[i].churned =
                 \E d \in DaysOf(periods[i]) : ~isChurnedAt(Night(d - 1)) /\ isChurnedAt(Night(d))
          /\ isNewAt(During(day)) /\ Morning(periods[1].start) <= During(day) - ActiveWindow =>
               \E i \in DOMAIN periods : trend[i].joined
  /\ ~(isActiveAt(During(day)) /\ isChurnedAt(During(day)))

\* The reports of the clients (reports.service.ts, clients-report.util.ts).
ClientsReportAgrees == ReportsTypeOK /\ BucketsTile /\ PeriodsReachToday /\ TrendIsTrue

=============================================================================
