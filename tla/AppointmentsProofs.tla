------------------------- MODULE AppointmentsProofs -------------------------
(***************************************************************************)
(* Proofs about modules Appointments and AppointmentScreens, for any       *)
(* appointments, services, workers and hours: the charge seals what was    *)
(* charged, the status of an appointment is the one of its services, what  *)
(* is scheduled stays apart, and the screens agree.                        *)
(*                                                                         *)
(* An operation builds an agenda, derives a status, pushes the columns of  *)
(* some workers and writes what comes out.  So the proofs say first what   *)
(* deriving and pushing may change, whatever the agenda, and then go       *)
(* through the operations.                                                 *)
(***************************************************************************)
EXTENDS AppointmentScreens, FiniteData

-----------------------------------------------------------------------------
(* Functions over the subsets of a finite set *)

\* g goes through a set from its last element: at is what it starts from.
Goes(g, S, last, step) ==
  g = [D \in SUBSET S |-> IF D = {} THEN 0 ELSE step[<<last[D], g[D \ {last[D]}]>>]]

GoesUpTo(g, n, S, last, step) ==
  /\ g \in [SubsetsUpTo(n, S) -> Nat]
  /\ \A D \in SubsetsUpTo(n, S) :
       g[D] = IF D = {} THEN 0 ELSE step[<<last[D], g[D \ {last[D]}]>>]

LEMMA SmallGoes ==
  ASSUME NEW S, IsFiniteSet(S), NEW last, \A D \in SUBSET S : D # {} => last[D] \in D,
         NEW step \in [S \X Nat -> Nat]
  PROVE  \A n \in Nat : \E g : GoesUpTo(g, n, S, last, step)
<1>. DEFINE Good == {n \in Nat : \E g : GoesUpTo(g, n, S, last, step)}
<1>0. \A D \in SUBSET S : IsFiniteSet(D) /\ Cardinality(D) \in Nat
  BY FS_Subset, FS_CardinalityType
<1>1. 0 \in Good
  <2>. DEFINE g == [D \in SubsetsUpTo(0, S) |-> 0]
  <2>1. \A D \in SubsetsUpTo(0, S) : D = {}
    BY <1>0, FS_EmptySet DEF SubsetsUpTo
  <2>2. GoesUpTo(g, 0, S, last, step)
    BY <2>1 DEF GoesUpTo
  <2>. QED BY <2>2
<1>2. ASSUME NEW n \in Good PROVE n + 1 \in Good
  <2>1. PICK g : GoesUpTo(g, n, S, last, step)
    OBVIOUS
  <2>. DEFINE Next1(D) == IF D = {} THEN 0 ELSE step[<<last[D], g[D \ {last[D]}]>>]
              h == [D \in SubsetsUpTo(n + 1, S) |-> Next1(D)]
  <2>2. ASSUME NEW D \in SubsetsUpTo(n + 1, S), D # {}
        PROVE  last[D] \in S /\ D \ {last[D]} \in SubsetsUpTo(n, S)
    <3>1. last[D] \in D /\ D \in SUBSET S
      BY <2>2 DEF SubsetsUpTo
    <3>2. Cardinality(D \ {last[D]}) = Cardinality(D) - 1
      BY <3>1, <1>0, FS_RemoveElement
    <3>. QED BY <3>1, <3>2, <1>0 DEF SubsetsUpTo
  <2>3. \A D \in SubsetsUpTo(n, S) : D \in SubsetsUpTo(n + 1, S) /\ Next1(D) = g[D]
    BY <2>1, <1>0 DEF SubsetsUpTo, GoesUpTo
  <2>4. ASSUME NEW D \in SubsetsUpTo(n + 1, S) PROVE Next1(D) \in Nat
    <3>1. D # {} => <<last[D], g[D \ {last[D]}]>> \in S \X Nat
      BY <2>1, <2>2 DEF GoesUpTo
    <3>. QED BY <3>1
  <2>5. \A D \in SubsetsUpTo(n + 1, S) : D # {} => h[D \ {last[D]}] = g[D \ {last[D]}]
    BY <2>2, <2>3
  <2>6. GoesUpTo(h, n + 1, S, last, step)
    BY <2>4, <2>5 DEF GoesUpTo
  <2>. QED BY <2>6
<1>3. Good \in SUBSET Nat
  OBVIOUS
<1>4. Good = Nat
  <2>. HIDE DEF Good
  <2>. QED BY <1>1, <1>2, <1>3, NatSteps
<1>. QED BY <1>4

LEMMA GoesThrough ==
  ASSUME NEW S, IsFiniteSet(S), NEW last, \A D \in SUBSET S : D # {} => last[D] \in D,
         NEW step \in [S \X Nat -> Nat]
  PROVE  \E g \in [SUBSET S -> Nat] : Goes(g, S, last, step)
<1>1. Cardinality(S) \in Nat
  BY FS_CardinalityType
<1>2. PICK g : GoesUpTo(g, Cardinality(S), S, last, step)
  BY <1>1, SmallGoes
<1>3. SubsetsUpTo(Cardinality(S), S) = SUBSET S
  BY FS_Subset DEF SubsetsUpTo
<1>4. g \in [SUBSET S -> Nat]
  BY <1>2, <1>3 DEF GoesUpTo
<1>5. Goes(g, S, last, step)
  BY <1>2, <1>3, <1>4 DEF GoesUpTo, Goes
<1>. QED BY <1>4, <1>5
-----------------------------------------------------------------------------
(* Orders and statuses *)

LEMMA MinIsElement ==
  ASSUME NEW T \in SUBSET Nat, T # {}
  PROVE  Min(T) \in T /\ \A m \in T : Min(T) <= m
<1>1. \E n \in T : \A m \in T : n <= m
  BY LeastNat
<1>. QED BY <1>1 DEF Min

\* An agenda whose services may still end before the day begins.
LooseRow ==
  [status: DetailStatus, worker: Worker \cup {Nobody}, start: Nat, end: Int,
   time: Nat \ {0}, from: Nat, till: Nat]
Loose(a) ==
  /\ a.session \in [Session -> SessionRow \cup {Absent}]
  /\ a.detail \in [Detail -> LooseRow \cup {Absent}]
  /\ \A d \in Detail : a.detail[d] # Absent => a.session[SessionOf[d]] # Absent

With(a, s, st) == {d \in Active(a, s) : a.detail[d].status \in st}

LEMMA RowIsNotAbsent ==
  /\ \A r \in SessionRow : r # Absent
  /\ \A r \in LooseRow : r # Absent
  /\ \A r \in DetailRow : r # Absent
BY DEF SessionRow, LooseRow, DetailRow, Absent, SessionStatus, DetailStatus

LEMMA ActiveIsOf ==
  ASSUME NEW a, NEW s
  PROVE  Active(a, s) \subseteq Of(a, s) /\ Of(a, s) \subseteq Detail
BY DEF Active, Of

LEMMA DerivedIs ==
  ASSUME NEW a, NEW s
  PROVE  Derived(a, s) =
           IF /\ \E d \in Active(a, s) : a.detail[d].worker = Nobody
              /\ With(a, s, {"progress"}) = {}
              /\ With(a, s, {"completed", "paid"}) = {}
           THEN "unassigned"
           ELSE IF Active(a, s) = {} THEN "cancelled"
           ELSE IF With(a, s, {"paid"}) = Active(a, s) THEN "paid"
           ELSE IF With(a, s, {"completed", "paid"}) = Active(a, s) THEN "completed"
           ELSE IF \/ With(a, s, {"progress"}) # {}
                   \/ With(a, s, {"completed", "paid"}) # {} THEN "progress"
           ELSE "scheduled"
BY DEF Derived, With

LEMMA DerivedIsStatus ==
  ASSUME NEW a, NEW s
  PROVE  Derived(a, s) \in SessionStatus \ {"rated"}
BY DerivedIs, Zenon DEF SessionStatus
-----------------------------------------------------------------------------
(* What deriving and pushing change *)

\* Two agendas with the same services, statuses and workers in an appointment.
SameServices(b, a, s) ==
  \A d \in Detail : SessionOf[d] = s =>
    \/ a.detail[d] = Absent /\ b.detail[d] = Absent
    \/ /\ a.detail[d] # Absent /\ b.detail[d] # Absent
       /\ b.detail[d].status = a.detail[d].status
       /\ b.detail[d].worker = a.detail[d].worker

LEMMA SameServicesSameSets ==
  ASSUME NEW a, NEW b, NEW s, SameServices(b, a, s)
  PROVE  /\ Of(b, s) = Of(a, s) /\ Active(b, s) = Active(a, s)
         /\ \A st : With(b, s, st) = With(a, s, st)
<1>1. Of(b, s) = Of(a, s)
  BY DEF SameServices, Of
<1>2. \A d \in Of(a, s) : /\ b.detail[d].status = a.detail[d].status
                          /\ b.detail[d].worker = a.detail[d].worker
  BY DEF SameServices, Of
<1>3. Active(b, s) = Active(a, s)
  BY <1>1, <1>2 DEF Active
<1>4. ASSUME NEW st PROVE With(b, s, st) = With(a, s, st)
  BY <1>2, <1>3, ActiveIsOf DEF With
<1>. QED BY <1>1, <1>3, <1>4

LEMMA SameServicesSameStatus ==
  ASSUME NEW a, NEW b, NEW s, SameServices(b, a, s)
  PROVE  Derived(b, s) = Derived(a, s)
<1>1. Active(b, s) = Active(a, s) /\ \A st : With(b, s, st) = With(a, s, st)
  BY SameServicesSameSets
<1>2. \A d \in Active(a, s) : b.detail[d].worker = a.detail[d].worker
  BY DEF SameServices, Of, Active
<1>3. (\E d \in Active(b, s) : b.detail[d].worker = Nobody)
      <=> (\E d \in Active(a, s) : a.detail[d].worker = Nobody)
  BY <1>1, <1>2
<1>4. /\ With(b, s, {"progress"}) = With(a, s, {"progress"})
      /\ With(b, s, {"paid"}) = With(a, s, {"paid"})
      /\ With(b, s, {"completed", "paid"}) = With(a, s, {"completed", "paid"})
  BY <1>1
<1>. QED BY <1>1, <1>3, <1>4, DerivedIs, Zenon

\* A row but for its status or its start.
OtherStatus(q, r, st) ==
  /\ q.status = st /\ q.start = r.start /\ q.date = r.date /\ q.from = r.from
  /\ q.locked = r.locked
OtherStart(q, r) ==
  q.status = r.status /\ q.date = r.date /\ q.from = r.from /\ q.locked = r.locked

\* What Sync makes of an agenda.
Synced(b, a, s) ==
  /\ b.detail = a.detail
  /\ \A t \in Session : t # s => b.session[t] = a.session[t]
  /\ \/ /\ b.session[s] = a.session[s]
        /\ a.session[s].status \in {"paid", "rated"} \/ Of(a, s) = {}
     \/ /\ a.session[s].status \notin {"paid", "rated"}
        /\ OtherStatus(b.session[s], a.session[s], Derived(a, s))

LEMMA SyncIs ==
  ASSUME NEW a, Loose(a), DOMAIN a = {"session", "detail"}, NEW s \in Session,
         a.session[s] # Absent
  PROVE  /\ Loose(Sync(a, s)) /\ Synced(Sync(a, s), a, s)
         /\ DOMAIN Sync(a, s) = {"session", "detail"}
         /\ Sync(a, s).session[s] # Absent
<1>. DEFINE b == [a EXCEPT !.session[s].status = Derived(a, s)]
<1>1. CASE a.session[s].status \in {"paid", "rated"} \/ Of(a, s) = {}
  BY <1>1 DEF Sync, Synced
<1>2. CASE ~(a.session[s].status \in {"paid", "rated"} \/ Of(a, s) = {})
  <2>1. Sync(a, s) = b
    BY <1>2 DEF Sync
  <2>2. a.session[s] \in SessionRow
    BY DEF Loose
  <2>3. /\ b.detail = a.detail /\ DOMAIN b = {"session", "detail"}
        /\ b.session = [a.session EXCEPT ![s].status = Derived(a, s)]
    OBVIOUS
  <2>4. b.session[s] = [a.session[s] EXCEPT !.status = Derived(a, s)]
    BY <2>3 DEF Loose
  <2>5. OtherStatus(b.session[s], a.session[s], Derived(a, s)) /\ b.session[s] \in SessionRow
    BY <2>2, <2>4, DerivedIsStatus DEF SessionRow, OtherStatus
  <2>6. \A t \in Session : t # s => b.session[t] = a.session[t]
    BY <2>3 DEF Loose
  <2>7. b.session \in [Session -> SessionRow \cup {Absent}]
    BY <2>3, <2>5, <2>6 DEF Loose
  <2>8. Loose(b)
    BY <2>3, <2>5, <2>6, <2>7, RowIsNotAbsent DEF Loose
  <2>9. Synced(b, a, s)
    BY <1>2, <2>3, <2>5, <2>6 DEF Synced
  <2>. QED BY <2>1, <2>3, <2>5, <2>8, <2>9, RowIsNotAbsent
<1>. QED BY <1>1, <1>2
-----------------------------------------------------------------------------
(* The column of a worker *)

Present(a) == {d \in Detail : a.detail[d] # Absent}

LEMMA FiniteDetails == \A D \in SUBSET Detail : IsFiniteSet(D)
BY AppointmentsAssumption, FS_Subset

LEMMA LooseRows ==
  ASSUME NEW a, Loose(a), NEW d \in Present(a)
  PROVE  /\ a.detail[d] \in LooseRow /\ d \in Detail
         /\ a.detail[d].start \in Nat /\ a.detail[d].end \in Int /\ a.detail[d].time \in Nat \ {0}
         /\ a.detail[d].status \in DetailStatus /\ a.detail[d].worker \in Worker \cup {Nobody}
         /\ LengthOf(a.detail[d]) \in Nat
<1>1. a.detail[d] \in LooseRow /\ d \in Detail
  BY DEF Loose, Present
<1>. QED BY <1>1 DEF LooseRow, LengthOf, LargerOf

LEMMA BeforeIsAnOrder ==
  ASSUME NEW a, Loose(a)
  PROVE  /\ \A x, y \in Present(a) : x # y => Before(a, x, y) \/ Before(a, y, x)
         /\ \A x, y \in Present(a) : ~(Before(a, x, y) /\ Before(a, y, x))
         /\ \A x, y, z \in Present(a) : Before(a, x, y) /\ Before(a, y, z) => Before(a, x, z)
         /\ \A x, y \in Present(a) : Before(a, x, y) => a.detail[x].start <= a.detail[y].start
<1>1. \A x \in Present(a) : x \in Nat /\ a.detail[x].start \in Nat
  BY LooseRows, AppointmentsAssumption DEF Present
<1>2. \A x, y \in Present(a) : x # y => Before(a, x, y) \/ Before(a, y, x)
  BY <1>1 DEF Before
<1>3. \A x, y \in Present(a) : ~(Before(a, x, y) /\ Before(a, y, x))
  BY <1>1 DEF Before
<1>4. \A x, y, z \in Present(a) : Before(a, x, y) /\ Before(a, y, z) => Before(a, x, z)
  BY <1>1 DEF Before
<1>5. \A x, y \in Present(a) : Before(a, x, y) => a.detail[x].start <= a.detail[y].start
  BY <1>1 DEF Before
<1>. QED BY <1>2, <1>3, <1>4, <1>5

LEMMA LastIsElement ==
  ASSUME NEW a, Loose(a), NEW D \in SUBSET Present(a), D # {}
  PROVE  LastOf(a, D) \in D /\ \A x \in D \ {LastOf(a, D)} : Before(a, x, LastOf(a, D))
<1>. DEFINE HasLast(T) == \E d \in T : \A x \in T \ {d} : Before(a, x, d)
            Good == {T \in SUBSET D : T = {} \/ HasLast(T)}
<1>1. IsFiniteSet(D)
  BY FiniteDetails DEF Present
<1>2. ASSUME NEW T \in SUBSET D, \A x \in T : T \ {x} \in Good PROVE T \in Good
  <2>1. SUFFICES ASSUME T # {} PROVE HasLast(T)
    OBVIOUS
  <2>2. PICK x \in T : TRUE
    BY <2>1
  <2>3. CASE T \ {x} = {}
    BY <2>2, <2>3
  <2>4. CASE T \ {x} # {}
    <3>1. PICK d \in T \ {x} : \A y \in (T \ {x}) \ {d} : Before(a, y, d)
      BY <1>2, <2>2, <2>4
    <3>2. Before(a, x, d) \/ Before(a, d, x)
      BY <2>2, <3>1, BeforeIsAnOrder
    <3>3. CASE Before(a, x, d)
      BY <3>1, <3>3
    <3>4. CASE Before(a, d, x)
      <4>1. \A y \in T \ {x} : Before(a, y, x)
        BY <3>1, <3>4, <2>2, BeforeIsAnOrder
      <4>. QED BY <4>1, <2>2
    <3>. QED BY <3>2, <3>3, <3>4
  <2>. QED BY <2>3, <2>4
<1>3. D \in Good
  <2>1. Good \in SUBSET (SUBSET D)
    OBVIOUS
  <2>. HIDE DEF Good
  <2>2. Good = SUBSET D
    BY <1>1, <1>2, <2>1, FiniteSteps
  <2>. QED BY <2>2
<1>4. HasLast(D)
  BY <1>3
<1>. QED BY <1>4 DEF LastOf

LEMMA ColumnIsPresent ==
  ASSUME NEW a, NEW w
  PROVE  Column(a, w) \subseteq Present(a) /\ IsFiniteSet(Column(a, w))
BY FiniteDetails DEF Column, Present

\* Where a column is free once d is placed after what leaves cursor free.
After(a, d, cursor, protected) ==
  IF Pushed(a, d, cursor, protected) THEN cursor + LengthOf(a.detail[d])
  ELSE LargerOf(cursor, a.detail[d].end)

LEMMA AfterIsLater ==
  ASSUME NEW a, Loose(a), NEW d \in Present(a), NEW cursor \in Nat, NEW protected
  PROVE  /\ After(a, d, cursor, protected) \in Nat /\ After(a, d, cursor, protected) >= cursor
         /\ ~Pushed(a, d, cursor, protected) => After(a, d, cursor, protected) >= a.detail[d].end
<1>1. LengthOf(a.detail[d]) \in Nat /\ a.detail[d].end \in Int
  BY LooseRows
<1>. QED BY <1>1 DEF After, LargerOf

LEMMA FreeFromIs ==
  ASSUME NEW a, Loose(a), NEW w, NEW protected
  PROVE  /\ FreeFrom(a, w, protected) \in [SUBSET Column(a, w) -> Nat]
         /\ FreeFrom(a, w, protected)[{}] = 0
         /\ \A D \in SUBSET Column(a, w) : D # {} =>
              FreeFrom(a, w, protected)[D] =
                After(a, LastOf(a, D), FreeFrom(a, w, protected)[D \ {LastOf(a, D)}], protected)
<1>. DEFINE C == Column(a, w)
            last == [D \in SUBSET C |-> LastOf(a, D)]
            step == [pr \in C \X Nat |-> After(a, pr[1], pr[2], protected)]
            Body(g) == [D \in SUBSET C |->
              IF D = {} THEN 0
              ELSE IF Pushed(a, LastOf(a, D), g[D \ {LastOf(a, D)}], protected)
                   THEN g[D \ {LastOf(a, D)}] + LengthOf(a.detail[LastOf(a, D)])
                   ELSE LargerOf(g[D \ {LastOf(a, D)}], a.detail[LastOf(a, D)].end)]
<1>1. C \subseteq Present(a) /\ IsFiniteSet(C)
  BY ColumnIsPresent
<1>2. \A D \in SUBSET C : D # {} => last[D] \in D /\ last[D] = LastOf(a, D)
  BY <1>1, LastIsElement
<1>3. step \in [C \X Nat -> Nat]
  BY <1>1, AfterIsLater
<1>4. PICK g \in [SUBSET C -> Nat] : Goes(g, C, last, step)
  <2>. HIDE DEF C, last, step
  <2>. QED BY <1>1, <1>2, <1>3, GoesThrough
<1>5. ASSUME NEW D \in SUBSET C, D # {}
      PROVE  /\ <<last[D], g[D \ {last[D]}]>> \in C \X Nat
             /\ g[D] = After(a, LastOf(a, D), g[D \ {LastOf(a, D)}], protected)
  <2>1. LastOf(a, D) \in C /\ D \ {LastOf(a, D)} \in SUBSET C
    BY <1>2, <1>5
  <2>2. g[D] = step[<<last[D], g[D \ {last[D]}]>>]
    BY <1>4, <1>5 DEF Goes
  <2>. QED BY <1>2, <1>4, <1>5, <2>1, <2>2
<1>6. g[{}] = 0
  BY <1>4 DEF Goes
<1>7. g = Body(g)
  BY <1>4, <1>5, <1>6 DEF After
<1>8. FreeFrom(a, w, protected) = CHOOSE f : f = Body(f)
  BY DEF FreeFrom
<1>. HIDE DEF Body
<1>9. FreeFrom(a, w, protected) = Body(FreeFrom(a, w, protected))
  BY <1>7, <1>8
<1>. DEFINE free == FreeFrom(a, w, protected)
<1>10. /\ free[{}] = 0 /\ free = [D \in SUBSET C |-> free[D]]
       /\ \A D \in SUBSET C : D # {} =>
            free[D] = After(a, LastOf(a, D), free[D \ {LastOf(a, D)}], protected)
  BY <1>9 DEF Body, After
<1>. HIDE DEF free
<1>11. \A D \in SUBSET C : free[D] \in Nat
  <2>. DEFINE Good == {D \in SUBSET C : free[D] \in Nat}
  <2>1. ASSUME NEW D \in SUBSET C, \A x \in D : D \ {x} \in Good PROVE D \in Good
    <3>1. CASE D = {}
      BY <1>10, <3>1
    <3>2. CASE D # {}
      <4>1. LastOf(a, D) \in D
        BY <1>1, <3>2, LastIsElement
      <4>2. free[D \ {LastOf(a, D)}] \in Nat /\ LastOf(a, D) \in Present(a)
        BY <1>1, <2>1, <4>1
      <4>3. After(a, LastOf(a, D), free[D \ {LastOf(a, D)}], protected) \in Nat
        BY <4>2, AfterIsLater
      <4>. QED BY <1>10, <3>2, <4>3
    <3>. QED BY <3>1, <3>2
  <2>2. Good \in SUBSET (SUBSET C)
    OBVIOUS
  <2>3. Good = SUBSET C
    <3>. HIDE DEF Good, C
    <3>. QED BY <1>1, <2>1, <2>2, FiniteSteps
  <2>. QED BY <2>3
<1>. QED BY <1>10, <1>11 DEF free

LEMMA CursorIsNat ==
  ASSUME NEW a, Loose(a), NEW d \in Present(a), NEW protected
  PROVE  Cursor(a, d, protected) \in Nat
<1>1. Earlier(a, d) \in SUBSET Column(a, a.detail[d].worker)
  BY DEF Earlier
<1>2. FreeFrom(a, a.detail[d].worker, protected) \in [SUBSET Column(a, a.detail[d].worker) -> Nat]
  BY FreeFromIs
<1>. QED BY <1>1, <1>2 DEF Cursor

\* A row that is pushed, and an appointment whose services may be.
RowPushed(q, r) ==
  /\ q \in LooseRow /\ r \in LooseRow /\ r.status = "scheduled"
  /\ q.status = r.status /\ q.worker = r.worker /\ q.time = r.time
  /\ q.start > r.start /\ q.end = q.start + LengthOf(r)
SessionPushed(q, r) == q \in SessionRow /\ r \in SessionRow /\ OtherStart(q, r)

Rippled(b, a, protected) ==
  /\ \A d \in Detail : \/ b.detail[d] = a.detail[d]
                       \/ d \notin protected /\ RowPushed(b.detail[d], a.detail[d])
  /\ \A s \in Session : b.session[s] = a.session[s] \/ SessionPushed(b.session[s], a.session[s])

LEMMA PlacedIsPushed ==
  ASSUME NEW r \in LooseRow, NEW cursor \in Nat, r.start < cursor, r.status = "scheduled"
  PROVE  RowPushed(Placed(r, cursor), r) /\ Placed(r, cursor).start = cursor
<1>. DEFINE q == Placed(r, cursor)
<1>1. r.start \in Nat /\ r.end \in Int /\ LengthOf(r) \in Nat /\ cursor + LengthOf(r) \in Int
  BY DEF LooseRow, LengthOf, LargerOf
<1>2. /\ q.status = r.status /\ q.worker = r.worker /\ q.time = r.time
      /\ q.from = r.from /\ q.till = r.till
      /\ q.start = cursor /\ q.end = cursor + LengthOf(r)
  BY DEF Placed, LooseRow
<1>3. q \in LooseRow
  <2>. DEFINE end == cursor + LengthOf(r)
  <2>1. end \in Int /\ q = [r EXCEPT !.start = cursor, !.end = end]
    BY <1>1 DEF Placed
  <2>. HIDE DEF end, q
  <2>. QED BY <2>1 DEF LooseRow
<1>. QED BY <1>1, <1>2, <1>3 DEF RowPushed

LEMMA MovingIs ==
  ASSUME NEW a, Loose(a), NEW W, NEW protected, NEW d \in Moving(a, W, protected)
  PROVE  /\ d \in Present(a) /\ d \in Detail /\ d \notin protected /\ a.detail[d].worker \in W
         /\ a.detail[d].status = "scheduled" /\ Cursor(a, d, protected) \in Nat
         /\ a.detail[d].start < Cursor(a, d, protected)
<1>1. /\ d \in Present(a) /\ d \in Detail /\ a.detail[d].worker \in W
      /\ Pushed(a, d, Cursor(a, d, protected), protected)
  BY DEF Moving, Column, Present
<1>. QED BY <1>1, CursorIsNat DEF Pushed, Displaced

LEMMA RippleRows ==
  ASSUME NEW a, Loose(a), NEW W, NEW protected, NEW d \in Detail
  PROVE  IF d \in Moving(a, W, protected)
         THEN /\ RippleAll(a, W, protected).detail[d] = Placed(a.detail[d], Cursor(a, d, protected))
              /\ RowPushed(RippleAll(a, W, protected).detail[d], a.detail[d])
              /\ RippleAll(a, W, protected).detail[d].start = Cursor(a, d, protected)
         ELSE RippleAll(a, W, protected).detail[d] = a.detail[d]
<1>1. CASE d \in Moving(a, W, protected)
  <2>1. RippleAll(a, W, protected).detail[d] = Placed(a.detail[d], Cursor(a, d, protected))
    BY <1>1 DEF RippleAll
  <2>. QED BY <1>1, <2>1, MovingIs, PlacedIsPushed, LooseRows
<1>2. CASE d \notin Moving(a, W, protected)
  BY <1>2 DEF RippleAll
<1>. QED BY <1>1, <1>2

LEMMA RippleIs ==
  ASSUME NEW a, Loose(a), NEW W, NEW protected
  PROVE  /\ Loose(RippleAll(a, W, protected)) /\ Rippled(RippleAll(a, W, protected), a, protected)
         /\ DOMAIN RippleAll(a, W, protected) = {"session", "detail"}
<1>. DEFINE b == RippleAll(a, W, protected)
            moving == Moving(a, W, protected)
            starts(s) == {b.detail[d].start : d \in Active(a, s)}
<1>1. /\ DOMAIN b = {"session", "detail"}
      /\ b.detail \in [Detail -> {b.detail[d] : d \in Detail}]
      /\ b.session = [s \in Session |-> IF \E d \in moving : SessionOf[d] = s
                        THEN [a.session[s] EXCEPT !.start = Min(starts(s))]
                        ELSE a.session[s]]
  BY DEF RippleAll
<1>2. \A d \in Detail : \/ b.detail[d] = a.detail[d]
                        \/ d \notin protected /\ RowPushed(b.detail[d], a.detail[d])
  BY RippleRows, MovingIs
<1>3. \A d \in Detail : b.detail[d] \in LooseRow \cup {Absent}
                        /\ (b.detail[d] # Absent <=> a.detail[d] # Absent)
  BY <1>2, RowIsNotAbsent DEF RowPushed, Loose
<1>4. ASSUME NEW s \in Session, \E d \in moving : SessionOf[d] = s
      PROVE  SessionPushed(b.session[s], a.session[s])
  <2>1. PICK d \in moving : SessionOf[d] = s
    BY <1>4
  <2>2. d \in Present(a) /\ d \in Active(a, s)
    BY <2>1, MovingIs DEF Active, Of, Present
  <2>3. a.session[s] \in SessionRow
    BY <2>1, <2>2 DEF Loose, Present
  <2>4. \A e \in Active(a, s) : b.detail[e].start \in Nat
    BY <1>3 DEF Active, Of, LooseRow
  <2>5. starts(s) \in SUBSET Nat /\ starts(s) # {}
    BY <2>2, <2>4
  <2>6. Min(starts(s)) \in Nat
    BY <2>5, MinIsElement
  <2>7. b.session[s] = [a.session[s] EXCEPT !.start = Min(starts(s))]
    BY <1>1, <1>4
  <2>. HIDE DEF b, starts
  <2>. QED BY <2>3, <2>6, <2>7 DEF SessionPushed, OtherStart, SessionRow
<1>5. \A s \in Session : b.session[s] = a.session[s] \/ SessionPushed(b.session[s], a.session[s])
  BY <1>1, <1>4
<1>6. \A s \in Session : b.session[s] \in SessionRow \cup {Absent}
                         /\ (b.session[s] # Absent <=> a.session[s] # Absent)
  BY <1>5, RowIsNotAbsent DEF SessionPushed, Loose
<1>7. b.session \in [Session -> SessionRow \cup {Absent}]
  BY <1>1, <1>6
<1>8. b.detail \in [Detail -> LooseRow \cup {Absent}]
  BY <1>1, <1>3
<1>. HIDE DEF b
<1>9. Loose(b)
  BY <1>3, <1>6, <1>7, <1>8, AppointmentsAssumption DEF Loose
<1>. QED BY <1>1, <1>2, <1>5, <1>9 DEF b, Rippled
-----------------------------------------------------------------------------
(* What an operation on an appointment writes *)

RowsTyped ==
  /\ session \in [Session -> SessionRow \cup {Absent}]
  /\ detail \in [Detail -> DetailRow \cup {Absent}]
  /\ \A d \in Detail : detail[d] # Absent => session[SessionOf[d]] # Absent

LEMMA AgendaIsLoose ==
  ASSUME RowsTyped
  PROVE  Loose(Agenda) /\ DOMAIN Agenda = {"session", "detail"}
         /\ Agenda.session = session /\ Agenda.detail = detail
<1>1. DetailRow \subseteq LooseRow
  BY DEF DetailRow, LooseRow
<1>2. DOMAIN Agenda = {"session", "detail"} /\ Agenda.session = session /\ Agenda.detail = detail
  BY DEF Agenda
<1>. QED BY <1>1, <1>2 DEF Loose, RowsTyped

LEMMA WrittenIsTyped ==
  ASSUME NEW b, Loose(b), Write(b)
  PROVE  RowsTyped' /\ session' = b.session /\ detail' = b.detail
<1>1. session' = b.session /\ detail' = b.detail
  BY DEF Write
<1>2. ASSUME NEW d \in Detail, b.detail[d] # Absent PROVE b.detail[d] \in DetailRow
  <2>1. b.detail[d] \in LooseRow /\ b.detail[d].end \in Nat
    BY <1>2, AppointmentsAssumption DEF Loose, Write
  <2>. QED BY <2>1 DEF LooseRow, DetailRow
<1>3. b.detail \in [Detail -> DetailRow \cup {Absent}]
  BY <1>2 DEF Loose
<1>. QED BY <1>1, <1>3 DEF RowsTyped, Loose

\* Only the appointment s and its services differ.
Edits(a, s) ==
  /\ Loose(a) /\ DOMAIN a = {"session", "detail"} /\ a.session[s] # Absent
  /\ \A t \in Session : t # s => a.session[t] = session[t]
  /\ \A d \in Detail : SessionOf[d] # s => a.detail[d] = detail[d]

\* What becomes of the other appointments.
OthersPushed(s) ==
  /\ \A t \in Session : t # s => \/ session'[t] = session[t]
                                 \/ SessionPushed(session'[t], session[t])
  /\ \A d \in Detail : SessionOf[d] # s => \/ detail'[d] = detail[d]
                                           \/ RowPushed(detail'[d], detail[d])

\* The edit a is written, synchronised or not, and columns are pushed or not.
Settles(a, s) ==
  /\ RowsTyped' /\ OthersPushed(s) /\ SameServices(Agenda', a, s)
  /\ session'[s] # Absent /\ session'[s].locked = a.session[s].locked

LEMMA PlainOrRippled ==
  ASSUME NEW s \in Session, NEW a, NEW c, Edits(a, s), Edits(c, s),
         \A d \in Detail : c.detail[d] = a.detail[d],
         c.session[s].locked = a.session[s].locked, NEW b, Write(b),
         b = c \/ \E W, protected : b = RippleAll(c, W, protected)
  PROVE  Settles(a, s) /\ session'[s].status = c.session[s].status
<1>1. Loose(c)
  BY DEF Edits
<1>2. /\ Loose(b)
      /\ \A d \in Detail : b.detail[d] = c.detail[d] \/ RowPushed(b.detail[d], c.detail[d])
      /\ \A t \in Session : b.session[t] = c.session[t] \/ SessionPushed(b.session[t], c.session[t])
  <2>1. CASE b = c
    BY <1>1, <2>1
  <2>2. CASE \E W, protected : b = RippleAll(c, W, protected)
    <3>1. PICK W, protected : b = RippleAll(c, W, protected)
      BY <2>2
    <3>2. Loose(b) /\ Rippled(b, c, protected)
      BY <1>1, <3>1, RippleIs
    <3>. QED BY <3>2 DEF Rippled
  <2>. QED BY <2>1, <2>2
<1>3. RowsTyped' /\ session' = b.session /\ detail' = b.detail
  BY <1>2, WrittenIsTyped
<1>4. OthersPushed(s)
  BY <1>2, <1>3 DEF OthersPushed, Edits
<1>5. SameServices(Agenda', a, s)
  <2>1. \A d \in Detail : \/ Agenda'.detail[d] = a.detail[d]
                          \/ RowPushed(Agenda'.detail[d], a.detail[d])
    BY <1>2, <1>3 DEF Agenda
  <2>. QED BY <2>1, RowIsNotAbsent DEF SameServices, RowPushed
<1>6. session'[s] # Absent /\ session'[s].locked = a.session[s].locked
      /\ session'[s].status = c.session[s].status
  BY <1>2, <1>3, RowIsNotAbsent DEF Edits, SessionPushed, OtherStart
<1>. QED BY <1>3, <1>4, <1>5, <1>6 DEF Settles

LEMMA SettlesPlain ==
  ASSUME NEW s \in Session, NEW a, Edits(a, s), NEW b, Write(b),
         b = a \/ \E W, protected : b = RippleAll(a, W, protected)
  PROVE  Settles(a, s) /\ session'[s].status = a.session[s].status
BY PlainOrRippled

LEMMA SettlesSynced ==
  ASSUME NEW s \in Session, NEW a, Edits(a, s), NEW b, Write(b),
         b = Sync(a, s) \/ \E W, protected : b = RippleAll(Sync(a, s), W, protected)
  PROVE  /\ Settles(a, s)
         /\ \/ /\ session'[s].status = a.session[s].status
               /\ a.session[s].status \in {"paid", "rated"} \/ Of(a, s) = {}
            \/ /\ session'[s].status = Derived(a, s)
               /\ a.session[s].status \notin {"paid", "rated"}
         /\ InStep(Agenda', s)
<1>. DEFINE c == Sync(a, s)
<1>1. /\ Loose(c) /\ Synced(c, a, s) /\ DOMAIN c = {"session", "detail"}
      /\ c.session[s] # Absent
  BY SyncIs DEF Edits
<1>2. c.detail = a.detail /\ c.session[s].locked = a.session[s].locked
  BY <1>1 DEF Synced, OtherStatus
<1>3. \A t \in Session : t # s => c.session[t] = a.session[t]
  BY <1>1 DEF Synced
<1>4. Edits(c, s)
  BY <1>1, <1>2, <1>3 DEF Edits
<1>5. /\ \/ /\ c.session[s].status = a.session[s].status
            /\ a.session[s].status \in {"paid", "rated"} \/ Of(a, s) = {}
         \/ /\ c.session[s].status = Derived(a, s)
            /\ a.session[s].status \notin {"paid", "rated"}
  BY <1>1 DEF Synced, OtherStatus
<1>. HIDE DEF c
<1>6. Settles(a, s) /\ session'[s].status = c.session[s].status
  BY <1>2, <1>4, PlainOrRippled DEF c
<1>7. SameServices(Agenda', a, s)
  BY <1>6 DEF Settles
<1>8. Derived(Agenda', s) = Derived(a, s)
  BY <1>7, SameServicesSameStatus
<1>9. Of(Agenda', s) = Of(a, s)
  BY <1>7, SameServicesSameSets
<1>10. InStep(Agenda', s)
  BY <1>5, <1>6, <1>8, <1>9 DEF InStep, Agenda
<1>. QED BY <1>5, <1>6, <1>10
-----------------------------------------------------------------------------
(* The invariant, and what an operation keeps of it *)

\* Whoever is owed for a charged appointment did one of its services.
ChargedHasWorker ==
  \A s \in Session : charge[s] # "none" =>
    \E d \in Of(Agenda, s) :
      detail[d].worker # Nobody /\ detail[d].status \in {"paid", "cancelled"}

AppointmentsInv == TypeOK /\ ChargedStaysPaid /\ ChargedIsSealed /\ ChargedHasWorker

ClockTyped == now \in Slot /\ changes \in 0..MaxChanges
ChargeTyped == charge \in [Session -> {"none", "owed", "collected"}]

LEMMA TypeOKIs == TypeOK <=> ClockTyped /\ RowsTyped /\ ChargeTyped
BY DEF TypeOK, ClockTyped, RowsTyped, ChargeTyped

ChargeKept(s) ==
  charge'[s] # "none" =>
    /\ session'[s].status \in {"paid", "rated"} /\ session'[s].locked
    /\ \A d \in Of(Agenda', s) : \/ detail'[d].status \in {"paid", "cancelled"}
                                 \/ d \in Extra /\ detail'[d].status = "scheduled"
    /\ \E d \in Of(Agenda', s) : detail'[d].worker # Nobody
                                 /\ detail'[d].status \in {"paid", "cancelled"}

AllAssigned(s) == \A d \in Of(Agenda, s) : detail[d].worker # Nobody

StatusKept(s) ==
  ~InStep(Agenda', s) /\ InStep(Agenda, s) /\ AllAssigned(s) =>
    \/ \E d \in Extra : SessionOf[d] = s /\ detail[d] # Absent /\ detail'[d] = Absent
    \/ Active(Agenda, s) = {} /\ charge[s] # "none" /\ charge'[s] = "none"

\* An operation on the appointment s.
Operated(s) ==
  /\ ClockTyped' /\ RowsTyped' /\ ChargeTyped' /\ OthersPushed(s)
  /\ session'[s] # Absent
  /\ \A t \in Session : t # s => charge'[t] = charge[t]
  /\ ChargeKept(s) /\ StatusKept(s)

LEMMA OfAgenda ==
  \A s : /\ Of(Agenda, s) = {d \in Detail : SessionOf[d] = s /\ detail[d] # Absent}
         /\ Of(Agenda', s) = {d \in Detail : SessionOf[d] = s /\ detail'[d] # Absent}
BY DEF Of, Agenda

LEMMA OthersKeepTheirStatus ==
  ASSUME RowsTyped, RowsTyped', NEW s \in Session, OthersPushed(s), NEW t \in Session, t # s
  PROVE  /\ SameServices(Agenda', Agenda, t) /\ Of(Agenda', t) = Of(Agenda, t)
         /\ session'[t] = Absent <=> session[t] = Absent
         /\ session'[t] # Absent => /\ session'[t].status = session[t].status
                                    /\ session'[t].locked = session[t].locked
<1>1. \A d \in Detail : SessionOf[d] = t => \/ detail'[d] = detail[d]
                                           \/ RowPushed(detail'[d], detail[d])
  BY DEF OthersPushed
<1>2. SameServices(Agenda', Agenda, t)
  BY <1>1, RowIsNotAbsent DEF SameServices, RowPushed, Agenda
<1>3. session'[t] = session[t] \/ SessionPushed(session'[t], session[t])
  BY DEF OthersPushed
<1>4. /\ session'[t] = Absent <=> session[t] = Absent
      /\ session'[t] # Absent => /\ session'[t].status = session[t].status
                                 /\ session'[t].locked = session[t].locked
  BY <1>3, RowIsNotAbsent DEF SessionPushed, OtherStart
<1>. QED BY <1>2, <1>4, SameServicesSameSets

LEMMA OthersStayInStep ==
  ASSUME RowsTyped, RowsTyped', NEW s \in Session, OthersPushed(s), NEW t \in Session, t # s,
         InStep(Agenda, t)
  PROVE  InStep(Agenda', t)
<1>1. Derived(Agenda', t) = Derived(Agenda, t) /\ Of(Agenda', t) = Of(Agenda, t)
  BY OthersKeepTheirStatus, SameServicesSameStatus
<1>2. /\ session'[t] = Absent <=> session[t] = Absent
      /\ session'[t] # Absent => session'[t].status = session[t].status
  BY OthersKeepTheirStatus
<1>. QED BY <1>1, <1>2 DEF InStep, Agenda

LEMMA OperatedKeepsInv ==
  ASSUME AppointmentsInv, NEW s \in Session, Operated(s)
  PROVE  AppointmentsInv'
<1>1. RowsTyped /\ RowsTyped' /\ OthersPushed(s) /\ TypeOK'
  <2>1. RowsTyped /\ RowsTyped' /\ OthersPushed(s) /\ ClockTyped' /\ ChargeTyped'
    BY TypeOKIs DEF AppointmentsInv, Operated
  <2>. QED BY <2>1 DEF TypeOK, ClockTyped, RowsTyped, ChargeTyped
<1>2. ASSUME NEW t \in Session, t # s
      PROVE  /\ Of(Agenda', t) = Of(Agenda, t) /\ charge'[t] = charge[t]
             /\ session'[t] = Absent <=> session[t] = Absent
             /\ session'[t] # Absent => /\ session'[t].status = session[t].status
                                        /\ session'[t].locked = session[t].locked
             /\ \A d \in Of(Agenda, t) : /\ detail'[d].status = detail[d].status
                                         /\ detail'[d].worker = detail[d].worker
  <2>1. SameServices(Agenda', Agenda, t)
    BY <1>1, <1>2, OthersKeepTheirStatus
  <2>2. \A d \in Of(Agenda, t) : /\ detail'[d].status = detail[d].status
                                 /\ detail'[d].worker = detail[d].worker
    BY <2>1, OfAgenda DEF SameServices, Agenda
  <2>. QED BY <1>1, <1>2, <2>2, OthersKeepTheirStatus DEF Operated
<1>3. ChargedStaysPaid'
  <2>. SUFFICES ASSUME NEW t \in Session, charge'[t] # "none"
                PROVE  session'[t] # Absent /\ session'[t].status \in {"paid", "rated"}
                       /\ session'[t].locked
    BY DEF ChargedStaysPaid
  <2>1. CASE t = s
    BY <2>1 DEF Operated, ChargeKept
  <2>2. CASE t # s
    BY <1>2, <2>2 DEF AppointmentsInv, ChargedStaysPaid
  <2>. QED BY <2>1, <2>2
<1>4. ChargedIsSealed'
  <2>. SUFFICES ASSUME NEW d \in Detail, detail'[d] # Absent, charge'[SessionOf[d]] # "none"
                PROVE  \/ detail'[d].status \in {"paid", "cancelled"}
                       \/ d \in Extra /\ detail'[d].status = "scheduled"
    BY DEF ChargedIsSealed
  <2>. DEFINE t == SessionOf[d]
  <2>0. t \in Session /\ d \in Of(Agenda', t)
    BY AppointmentsAssumption, OfAgenda
  <2>1. CASE t = s
    BY <2>0, <2>1 DEF Operated, ChargeKept
  <2>2. CASE t # s
    <3>1. d \in Of(Agenda, t) /\ detail'[d].status = detail[d].status /\ charge[t] # "none"
      BY <1>2, <2>0, <2>2
    <3>. QED BY <3>1, OfAgenda DEF AppointmentsInv, ChargedIsSealed
  <2>. QED BY <2>1, <2>2
<1>5. ChargedHasWorker'
  <2>. SUFFICES ASSUME NEW t \in Session, charge'[t] # "none"
                PROVE  \E d \in Of(Agenda', t) : detail'[d].worker # Nobody
                         /\ detail'[d].status \in {"paid", "cancelled"}
    BY DEF ChargedHasWorker
  <2>1. CASE t = s
    BY <2>1 DEF Operated, ChargeKept
  <2>2. CASE t # s
    <3>1. charge[t] # "none" /\ Of(Agenda', t) = Of(Agenda, t)
      BY <1>2, <2>2
    <3>2. PICK d \in Of(Agenda, t) : detail[d].worker # Nobody
                                     /\ detail[d].status \in {"paid", "cancelled"}
      BY <3>1 DEF AppointmentsInv, ChargedHasWorker
    <3>. QED BY <1>2, <2>2, <3>1, <3>2
  <2>. QED BY <2>1, <2>2
<1>. QED BY <1>1, <1>3, <1>4, <1>5 DEF AppointmentsInv
-----------------------------------------------------------------------------
(* The operations, one by one *)

LEMMA EditsIs ==
  ASSUME RowsTyped, NEW s \in Session, NEW a, DOMAIN a = {"session", "detail"},
         DOMAIN a.session = Session, a.session = [t \in Session |-> a.session[t]],
         a.session[s] \in SessionRow, \A t \in Session : t # s => a.session[t] = session[t],
         a.detail = [d \in Detail |-> a.detail[d]],
         \A d \in Detail : IF SessionOf[d] = s THEN a.detail[d] \in LooseRow \cup {Absent}
                           ELSE a.detail[d] = detail[d]
  PROVE  Edits(a, s)
<1>1. a.session \in [Session -> SessionRow \cup {Absent}] /\ a.session[s] # Absent
  <2>1. \A t \in Session : a.session[t] \in SessionRow \cup {Absent}
    BY DEF RowsTyped
  <2>. QED BY <2>1, RowIsNotAbsent
<1>2. DetailRow \subseteq LooseRow
  BY DEF DetailRow, LooseRow
<1>3. \A d \in Detail : a.detail[d] \in LooseRow \cup {Absent}
  BY <1>2 DEF RowsTyped
<1>4. a.detail \in [Detail -> LooseRow \cup {Absent}]
  BY <1>3
<1>5. \A d \in Detail : a.detail[d] # Absent => a.session[SessionOf[d]] # Absent
  BY <1>1, AppointmentsAssumption DEF RowsTyped
<1>. QED BY <1>1, <1>4, <1>5 DEF Edits, Loose

LEMMA Statuses ==
  /\ SessionStatus = {"scheduled", "progress", "completed", "paid", "cancelled", "rated",
                      "unassigned"}
  /\ DetailStatus = {"scheduled", "progress", "completed", "paid", "cancelled"}
  /\ Settable = DetailStatus /\ DetailStatus \subseteq SessionStatus
BY DEF SessionStatus, DetailStatus, Settable

LEMMA SlotsAndLengths ==
  /\ Slot \subseteq Nat /\ Duration \subseteq Nat \ {0}
  /\ \A d \in Detail : Length[d] \in Nat \ {0}
<1>1. Slot \subseteq Nat
  BY AppointmentsAssumption DEF Slot
<1>2. Duration \subseteq Nat \ {0} /\ Length \in [Detail -> Duration]
  BY AppointmentsAssumption
<1>. QED BY <1>1, <1>2

LEMMA CreateOperates ==
  ASSUME AppointmentsInv, NEW d \in Detail, NEW s \in Session, s = SessionOf[d],
         CreateSessionWithDetail(s, d)
  PROVE  Operated(s)
<1>1. RowsTyped /\ ClockTyped /\ ChargeTyped /\ s \in Session /\ session[s] = Absent
  BY TypeOKIs, AppointmentsAssumption DEF AppointmentsInv, CreateSessionWithDetail
<1>2. PICK w \in Worker \cup {Nobody}, start \in Slot : InsertSession(s, d, w, start)
  BY DEF CreateSessionWithDetail
<1>3. UNCHANGED <<now, charge, changes>>
  BY DEF CreateSessionWithDetail
<1>4. \A e \in Detail : SessionOf[e] = s => detail[e] = Absent
  BY <1>1 DEF RowsTyped
<1>5. charge[s] = "none"
  BY <1>1 DEF AppointmentsInv, ChargedStaysPaid
<1>6. PICK a : a = [session |-> [session EXCEPT ![s] = NewSession(w, start, ForcedStatus(start, Length[d]))],
                    detail |-> [detail EXCEPT ![d] =
                                  NewRow(ForcedStatus(start, Length[d]), w, start, Length[d])]]
  OBVIOUS
<1>7. Write(Sync(a, s))
  BY <1>2, <1>6 DEF InsertSession
<1>8. ForcedStatus(start, Length[d]) \in DetailStatus
  BY DEF ForcedStatus, DetailStatus
<1>9. NewSession(w, start, ForcedStatus(start, Length[d])) \in SessionRow
  BY <1>8, SlotsAndLengths, Statuses DEF NewSession, SessionRow
<1>10. NewRow(ForcedStatus(start, Length[d]), w, start, Length[d]) \in LooseRow
  <2>1. start \in Nat /\ Length[d] \in Nat \ {0}
    BY SlotsAndLengths
  <2>2. start + Length[d] \in Nat
    BY <2>1
  <2>. QED BY <1>8, <2>1, <2>2 DEF NewRow, LooseRow
<1>11. Edits(a, s)
  <2>1. a.session[s] \in SessionRow /\ \A t \in Session : t # s => a.session[t] = session[t]
    BY <1>1, <1>6, <1>9 DEF RowsTyped
  <2>2. /\ a.session = [t \in Session |-> a.session[t]]
        /\ a.detail = [e \in Detail |-> a.detail[e]]
        /\ DOMAIN a = {"session", "detail"} /\ DOMAIN a.session = Session
    BY <1>1, <1>6 DEF RowsTyped
  <2>3. \A e \in Detail : IF SessionOf[e] = s THEN a.detail[e] \in LooseRow \cup {Absent}
                          ELSE a.detail[e] = detail[e]
    BY <1>1, <1>4, <1>6, <1>10 DEF RowsTyped
  <2>. QED BY <1>1, <2>1, <2>2, <2>3, EditsIs
<1>12. Settles(a, s) /\ InStep(Agenda', s)
  BY <1>1, <1>7, <1>11, SettlesSynced
<1>13. ChargeKept(s) /\ StatusKept(s)
  BY <1>3, <1>5, <1>12 DEF ChargeKept, StatusKept
<1>14. ClockTyped' /\ ChargeTyped' /\ \A t \in Session : t # s => charge'[t] = charge[t]
  BY <1>1, <1>3 DEF ClockTyped, ChargeTyped
<1>. QED BY <1>12, <1>13, <1>14 DEF Operated, Settles

LEMMA CountIsTyped ==
  ASSUME ClockTyped, Count \/ UNCHANGED changes, UNCHANGED now
  PROVE  ClockTyped'
<1>1. MaxChanges \in Nat
  BY AppointmentsAssumption
<1>. QED BY <1>1 DEF ClockTyped, Count

\* An operation on an appointment that is not charged.
LEMMA UnchargedOperates ==
  ASSUME AppointmentsInv, NEW s \in Session, charge[s] = "none", UNCHANGED charge, UNCHANGED now,
         Count \/ UNCHANGED changes, NEW a, Settles(a, s), StatusKept(s)
  PROVE  Operated(s)
<1>1. ClockTyped /\ ChargeTyped
  BY TypeOKIs DEF AppointmentsInv
<1>2. ClockTyped'
  BY <1>1, CountIsTyped
<1>3. ChargeTyped' /\ \A t \in Session : t # s => charge'[t] = charge[t]
  BY <1>1 DEF ChargeTyped
<1>. QED BY <1>2, <1>3 DEF Operated, Settles, ChargeKept

\* One service of an appointment is written, and the appointment stays.
WithRow(d, row) == [Agenda EXCEPT !.detail[d] = row]

LEMMA OneRowEdits ==
  ASSUME RowsTyped, NEW d \in Detail, NEW s \in Session, s = SessionOf[d], session[s] # Absent,
         NEW row, row \in LooseRow \cup {Absent}, NEW a, a = WithRow(d, row)
  PROVE  /\ Edits(a, s) /\ a.session = session /\ a.detail[d] = row
         /\ \A e \in Detail : e # d => a.detail[e] = detail[e]
<1>1. a.session = session /\ a.detail = [detail EXCEPT ![d] = row]
      /\ DOMAIN a = {"session", "detail"}
  BY DEF Agenda, WithRow
<1>2. a.detail[d] = row /\ \A e \in Detail : e # d => a.detail[e] = detail[e]
  BY <1>1 DEF RowsTyped
<1>3. DOMAIN a.session = Session /\ a.session = [t \in Session |-> a.session[t]]
      /\ a.detail = [e \in Detail |-> a.detail[e]]
  BY <1>1 DEF RowsTyped
<1>4. DetailRow \subseteq LooseRow
  BY DEF DetailRow, LooseRow
<1>5. \A e \in Detail : IF SessionOf[e] = s THEN a.detail[e] \in LooseRow \cup {Absent}
                        ELSE a.detail[e] = detail[e]
  BY <1>2, <1>4 DEF RowsTyped
<1>6. a.session[s] \in SessionRow /\ \A t \in Session : t # s => a.session[t] = session[t]
  BY <1>1 DEF RowsTyped
<1>7. Edits(a, s)
  BY <1>1, <1>3, <1>5, <1>6, EditsIs
<1>. QED BY <1>1, <1>2, <1>7

LEMMA AddExtraOperates ==
  ASSUME AppointmentsInv, NEW d \in Detail, NEW s \in Session, s = SessionOf[d],
         AddExtraServices(s, d)
  PROVE  Operated(s)
<1>1. RowsTyped /\ ClockTyped /\ ChargeTyped /\ s \in Session
  BY TypeOKIs, AppointmentsAssumption DEF AppointmentsInv
<1>2. PICK w \in Worker, start \in Slot : InsertExtra(s, d, w, start)
  BY DEF AddExtraServices
<1>3. /\ Count /\ UNCHANGED <<now, charge>> /\ session[s] # Absent
      /\ d \in Extra /\ detail[d] = Absent
  BY DEF AddExtraServices
<1>4. PICK row : row = NewRow("scheduled", w, start, Length[d])
  OBVIOUS
<1>5. row \in LooseRow /\ row.status = "scheduled"
  <2>1. start \in Nat /\ Length[d] \in Nat \ {0} /\ start + Length[d] \in Nat
    BY SlotsAndLengths
  <2>. QED BY <1>4, <2>1, Statuses DEF NewRow, LooseRow
<1>6. PICK a : a = WithRow(d, row)
  OBVIOUS
<1>7. /\ Edits(a, s) /\ a.session = session /\ a.detail[d] = row
      /\ \A e \in Detail : e # d => a.detail[e] = detail[e]
  <2>1. row \in LooseRow \cup {Absent} /\ RowsTyped /\ session[s] # Absent
    BY <1>1, <1>3, <1>5
  <2>2. Edits(a, s) /\ a.session = session /\ a.detail[d] = row
    BY <1>6, <2>1, OneRowEdits
  <2>3. \A e \in Detail : e # d => a.detail[e] = detail[e]
    BY <1>6, <2>1, OneRowEdits
  <2>. QED BY <2>2, <2>3
<1>8. Write(Sync(a, s))
  BY <1>2, <1>4, <1>6 DEF InsertExtra, WithRow
<1>9. /\ Settles(a, s) /\ InStep(Agenda', s)
      /\ session[s].status \in {"paid", "rated"} => session'[s].status = session[s].status
  BY <1>1, <1>7, <1>8, SettlesSynced
<1>10. StatusKept(s)
  BY <1>9 DEF StatusKept
<1>11. CASE charge[s] = "none"
  BY <1>1, <1>3, <1>9, <1>10, <1>11, UnchargedOperates
<1>12. CASE charge[s] # "none"
  <2>1. SameServices(Agenda', a, s) /\ session'[s].locked = session[s].locked
    BY <1>7, <1>9 DEF Settles
  <2>2. session[s].status \in {"paid", "rated"} /\ session[s].locked
    BY <1>1, <1>12 DEF AppointmentsInv, ChargedStaysPaid
  <2>3. ASSUME NEW e \in Of(Agenda', s)
        PROVE  \/ detail'[e].status \in {"paid", "cancelled"}
               \/ e \in Extra /\ detail'[e].status = "scheduled"
    <3>1. e \in Detail /\ SessionOf[e] = s /\ a.detail[e] # Absent
          /\ detail'[e].status = a.detail[e].status
      BY <2>1, OfAgenda DEF SameServices, Agenda
    <3>2. CASE e = d
      BY <1>3, <1>5, <1>7, <3>1, <3>2
    <3>3. CASE e # d
      BY <1>7, <1>12, <3>1, <3>3 DEF AppointmentsInv, ChargedIsSealed
    <3>. QED BY <3>2, <3>3
  <2>4. PICK e \in Of(Agenda, s) :
          detail[e].worker # Nobody /\ detail[e].status \in {"paid", "cancelled"}
    BY <1>1, <1>12 DEF AppointmentsInv, ChargedHasWorker
  <2>5. e \in Detail /\ SessionOf[e] = s /\ detail[e] # Absent /\ e # d
    BY <1>3, <2>4, OfAgenda
  <2>6. e \in Of(Agenda', s) /\ detail'[e].worker = detail[e].worker
        /\ detail'[e].status = detail[e].status
    BY <1>7, <2>1, <2>5, OfAgenda DEF SameServices, Agenda
  <2>7. ChargeKept(s)
    BY <1>9, <2>1, <2>2, <2>3, <2>4, <2>6 DEF ChargeKept
  <2>8. ClockTyped' /\ ChargeTyped' /\ \A t \in Session : t # s => charge'[t] = charge[t]
    BY <1>1, <1>3, CountIsTyped DEF ChargeTyped
  <2>. QED BY <1>9, <1>10, <2>7, <2>8 DEF Operated, Settles
<1>. QED BY <1>11, <1>12

\* The services stay what they are, and those that have a worker have one.
SameStatuses(b, a, s) ==
  \A d \in Detail : SessionOf[d] = s =>
    \/ a.detail[d] = Absent /\ b.detail[d] = Absent
    \/ /\ a.detail[d] # Absent /\ b.detail[d] # Absent
       /\ b.detail[d].status = a.detail[d].status
       /\ a.detail[d].worker # Nobody => b.detail[d].worker # Nobody

LEMMA SameStatusesSameDerived ==
  ASSUME NEW a, NEW b, NEW s, SameStatuses(b, a, s),
         \A d \in Of(a, s) : a.detail[d].worker # Nobody
  PROVE  Of(b, s) = Of(a, s) /\ Active(b, s) = Active(a, s) /\ Derived(b, s) = Derived(a, s)
<1>1. Of(b, s) = Of(a, s)
  BY DEF SameStatuses, Of
<1>2. \A d \in Of(a, s) : b.detail[d].status = a.detail[d].status /\ b.detail[d].worker # Nobody
  BY DEF SameStatuses, Of
<1>3. Active(b, s) = Active(a, s)
  BY <1>1, <1>2 DEF Active
<1>4. ASSUME NEW st PROVE With(b, s, st) = With(a, s, st)
  BY <1>2, <1>3, ActiveIsOf DEF With
<1>5. /\ ~\E d \in Active(b, s) : b.detail[d].worker = Nobody
      /\ ~\E d \in Active(a, s) : a.detail[d].worker = Nobody
  BY <1>2, <1>3, ActiveIsOf
<1>6. /\ With(b, s, {"progress"}) = With(a, s, {"progress"})
      /\ With(b, s, {"paid"}) = With(a, s, {"paid"})
      /\ With(b, s, {"completed", "paid"}) = With(a, s, {"completed", "paid"})
  BY <1>4
<1>7. Derived(b, s) = Derived(a, s)
  BY <1>3, <1>5, <1>6, DerivedIs, Zenon
<1>. QED BY <1>1, <1>3, <1>7

LEMMA SameStatusesKept ==
  ASSUME NEW s \in Session, NEW a, Settles(a, s), SameStatuses(a, Agenda, s),
         session'[s].status = session[s].status, session[s] # Absent
  PROVE  StatusKept(s)
<1>. SUFFICES ASSUME InStep(Agenda, s), AllAssigned(s) PROVE InStep(Agenda', s)
  BY DEF StatusKept
<1>1. SameServices(Agenda', a, s)
  BY DEF Settles
<1>2. \A d \in Of(Agenda, s) : Agenda.detail[d].worker # Nobody
  BY DEF AllAssigned, Agenda
<1>3. Of(a, s) = Of(Agenda, s) /\ Derived(a, s) = Derived(Agenda, s)
  BY <1>2, SameStatusesSameDerived
<1>4. Of(Agenda', s) = Of(a, s) /\ Derived(Agenda', s) = Derived(a, s)
  BY <1>1, SameServicesSameSets, SameServicesSameStatus
<1>. QED BY <1>3, <1>4 DEF InStep, Agenda

LEMMA SameStatusesStayCharged ==
  ASSUME AppointmentsInv, NEW s \in Session, NEW a, Settles(a, s), SameStatuses(a, Agenda, s),
         session'[s].status = session[s].status, a.session[s].locked = session[s].locked,
         charge'[s] = charge[s]
  PROVE  ChargeKept(s)
<1>. SUFFICES ASSUME charge[s] # "none" PROVE ChargeKept(s)
  BY DEF ChargeKept
<1>1. SameServices(Agenda', a, s) /\ session'[s].locked = session[s].locked
  BY DEF Settles
<1>2. session[s].status \in {"paid", "rated"} /\ session[s].locked
  BY DEF AppointmentsInv, ChargedStaysPaid
<1>3. ASSUME NEW e \in Detail, SessionOf[e] = s
      PROVE  \/ detail[e] = Absent /\ detail'[e] = Absent
             \/ /\ detail[e] # Absent /\ detail'[e] # Absent /\ detail'[e].status = detail[e].status
                /\ detail[e].worker # Nobody => detail'[e].worker # Nobody
  BY <1>1, <1>3 DEF SameServices, SameStatuses, Agenda
<1>4. ASSUME NEW e \in Of(Agenda', s)
      PROVE  \/ detail'[e].status \in {"paid", "cancelled"}
             \/ e \in Extra /\ detail'[e].status = "scheduled"
  BY <1>3, OfAgenda DEF AppointmentsInv, ChargedIsSealed
<1>5. PICK e \in Of(Agenda, s) :
        detail[e].worker # Nobody /\ detail[e].status \in {"paid", "cancelled"}
  BY DEF AppointmentsInv, ChargedHasWorker
<1>6. e \in Of(Agenda', s) /\ detail'[e].worker # Nobody
      /\ detail'[e].status \in {"paid", "cancelled"}
  BY <1>3, <1>5, OfAgenda
<1>. QED BY <1>1, <1>2, <1>4, <1>6 DEF ChargeKept

LEMMA SameStatusesOperates ==
  ASSUME AppointmentsInv, NEW s \in Session, NEW a, Settles(a, s), SameStatuses(a, Agenda, s),
         session'[s].status = session[s].status, a.session[s].locked = session[s].locked,
         session[s] # Absent, Count, UNCHANGED <<now, charge>>
  PROVE  Operated(s)
<1>1. ClockTyped /\ ChargeTyped
  BY TypeOKIs DEF AppointmentsInv
<1>2. ClockTyped' /\ ChargeTyped' /\ \A t \in Session : t # s => charge'[t] = charge[t]
  BY <1>1, CountIsTyped DEF ChargeTyped
<1>3. ChargeKept(s) /\ StatusKept(s)
  BY SameStatusesKept, SameStatusesStayCharged
<1>. QED BY <1>2, <1>3 DEF Operated, Settles

LEMMA AssignOperates ==
  ASSUME AppointmentsInv, NEW d \in Detail, NEW s \in Session, s = SessionOf[d],
         NEW w \in Worker, AssignWorker(d, w)
  PROVE  Operated(s)
<1>1. RowsTyped /\ Count /\ UNCHANGED <<now, charge>> /\ detail[d] # Absent
  BY TypeOKIs DEF AppointmentsInv, AssignWorker, Assignable
<1>2. session[s] # Absent /\ detail[d] \in DetailRow
  BY <1>1 DEF RowsTyped
<1>3. PICK time \in Duration :
        Write([Agenda EXCEPT !.detail[d] = [@ EXCEPT !.worker = w, !.time = time]])
  BY DEF AssignWorker
<1>4. PICK row : row = [detail[d] EXCEPT !.worker = w, !.time = time]
  OBVIOUS
<1>5. row \in LooseRow \cup {Absent} /\ row.status = detail[d].status /\ row.worker = w
      /\ row # Absent
  <2>1. time \in Nat \ {0}
    BY SlotsAndLengths
  <2>2. row.status = detail[d].status /\ row.worker = w
    BY <1>2, <1>4 DEF DetailRow
  <2>3. row \in [status: DetailStatus, worker: Worker \cup {Nobody}, start: Nat, end: Nat,
                 time: Nat \ {0}, from: Nat, till: Nat]
    BY <1>2, <1>4, <2>1 DEF DetailRow
  <2>4. row \in LooseRow
    BY <2>3 DEF LooseRow
  <2>. QED BY <2>2, <2>4, RowIsNotAbsent
<1>6. PICK a : a = WithRow(d, row)
  OBVIOUS
<1>7. /\ Edits(a, s) /\ a.session = session /\ a.detail[d] = row
      /\ \A e \in Detail : e # d => a.detail[e] = detail[e]
  BY <1>1, <1>2, <1>5, <1>6, OneRowEdits
<1>8. Write(a)
  BY <1>3, <1>4, <1>6 DEF WithRow, Agenda
<1>9. Settles(a, s) /\ session'[s].status = session[s].status
  BY <1>7, <1>8, SettlesPlain
<1>10. SameStatuses(a, Agenda, s)
  <2>1. w # Nobody
    BY AppointmentsAssumption DEF Nobody
  <2>2. Agenda.detail = detail
    BY DEF Agenda
  <2>. QED BY <1>1, <1>5, <1>7, <2>1, <2>2 DEF SameStatuses
<1>. QED BY <1>1, <1>2, <1>7, <1>9, <1>10, SameStatusesOperates

LEMMA RemoveExtraOperates ==
  ASSUME AppointmentsInv, NEW d \in Detail, NEW s \in Session, s = SessionOf[d],
         RemoveExtraService(d)
  PROVE  Operated(s)
<1>1. /\ RowsTyped /\ ClockTyped /\ ChargeTyped /\ Count /\ UNCHANGED <<now, charge>>
      /\ d \in Extra /\ detail[d] # Absent /\ detail[d].status \notin {"paid", "cancelled"}
  BY TypeOKIs DEF AppointmentsInv, RemoveExtraService
<1>2. session[s] # Absent
  BY <1>1 DEF RowsTyped
<1>3. PICK row : row = Absent
  OBVIOUS
<1>4. PICK a : a = WithRow(d, row)
  OBVIOUS
<1>5. row \in LooseRow \cup {Absent}
  BY <1>3
<1>6. /\ Edits(a, s) /\ a.session = session /\ a.detail[d] = Absent
      /\ \A e \in Detail : e # d => a.detail[e] = detail[e]
  BY <1>1, <1>2, <1>3, <1>4, <1>5, OneRowEdits
<1>7. Write(a)
  BY <1>3, <1>4 DEF RemoveExtraService, WithRow
<1>8. Settles(a, s) /\ session'[s].status = session[s].status
  BY <1>6, <1>7, SettlesPlain
<1>9. \A e \in Detail : SessionOf[e] = s =>
        IF e = d THEN detail'[e] = Absent
        ELSE \/ detail[e] = Absent /\ detail'[e] = Absent
             \/ /\ detail[e] # Absent /\ detail'[e] # Absent
                /\ detail'[e].status = detail[e].status /\ detail'[e].worker = detail[e].worker
  BY <1>6, <1>8 DEF Settles, SameServices, Agenda
<1>10. StatusKept(s)
  BY <1>1, <1>9 DEF StatusKept
<1>11. ChargeKept(s)
  <2>. SUFFICES ASSUME charge[s] # "none" PROVE ChargeKept(s)
    BY <1>1 DEF ChargeKept
  <2>1. session[s].status \in {"paid", "rated"} /\ session'[s].locked = session[s].locked
        /\ session[s].locked
    BY <1>6, <1>8 DEF Settles, AppointmentsInv, ChargedStaysPaid
  <2>2. PICK e \in Of(Agenda, s) :
          detail[e].worker # Nobody /\ detail[e].status \in {"paid", "cancelled"}
    BY DEF AppointmentsInv, ChargedHasWorker
  <2>3. e \in Of(Agenda', s) /\ detail'[e].worker # Nobody
        /\ detail'[e].status \in {"paid", "cancelled"}
    BY <1>1, <1>9, <2>2, OfAgenda
  <2>4. ASSUME NEW f \in Of(Agenda', s)
        PROVE  \/ detail'[f].status \in {"paid", "cancelled"}
               \/ f \in Extra /\ detail'[f].status = "scheduled"
    BY <1>9, OfAgenda DEF AppointmentsInv, ChargedIsSealed
  <2>. QED BY <1>8, <2>1, <2>3, <2>4 DEF ChargeKept
<1>12. ClockTyped' /\ ChargeTyped' /\ \A t \in Session : t # s => charge'[t] = charge[t]
  BY <1>1, CountIsTyped DEF ChargeTyped
<1>. QED BY <1>8, <1>10, <1>11, <1>12 DEF Operated, Settles

LEMMA DatesOperate ==
  ASSUME AppointmentsInv, NEW s \in Session, UpdateSessionDates(s)
  PROVE  Operated(s)
<1>1. RowsTyped /\ Count /\ UNCHANGED <<now, charge>> /\ session[s] # Absent
  BY TypeOKIs DEF AppointmentsInv, UpdateSessionDates
<1>2. PICK date \in Slot :
        Write([session |-> [session EXCEPT ![s].start = date, ![s].date = date],
               detail |-> [d \in Detail |-> IF d \in Of(Agenda, s)
                             THEN [detail[d] EXCEPT !.start = date] ELSE detail[d]]])
  BY DEF UpdateSessionDates
<1>3. PICK a : a = [session |-> [session EXCEPT ![s].start = date, ![s].date = date],
                    detail |-> [d \in Detail |-> IF d \in Of(Agenda, s)
                                  THEN [detail[d] EXCEPT !.start = date] ELSE detail[d]]]
  OBVIOUS
<1>4. /\ a.session = [session EXCEPT ![s].start = date, ![s].date = date]
      /\ \A d \in Detail : a.detail[d] = IF d \in Of(Agenda, s)
                             THEN [detail[d] EXCEPT !.start = date] ELSE detail[d]
      /\ a.detail = [d \in Detail |-> a.detail[d]] /\ DOMAIN a = {"session", "detail"}
  BY <1>3
<1>5. a.session[s] = [session[s] EXCEPT !.start = date, !.date = date]
      /\ DOMAIN a.session = Session /\ a.session = [t \in Session |-> a.session[t]]
      /\ \A t \in Session : t # s => a.session[t] = session[t]
  BY <1>1, <1>4 DEF RowsTyped
<1>6. session[s] \in SessionRow /\ date \in Nat
  BY <1>1, SlotsAndLengths DEF RowsTyped
<1>7. a.session[s] \in SessionRow /\ a.session[s].status = session[s].status
      /\ a.session[s].locked = session[s].locked
  BY <1>5, <1>6 DEF SessionRow
<1>8. ASSUME NEW d \in Detail, SessionOf[d] = s, detail[d] # Absent
      PROVE  /\ a.detail[d] \in LooseRow /\ a.detail[d].status = detail[d].status
             /\ a.detail[d].worker = detail[d].worker
  <2>1. detail[d] \in DetailRow /\ d \in Of(Agenda, s)
    BY <1>1, <1>8, OfAgenda DEF RowsTyped
  <2>2. a.detail[d] = [detail[d] EXCEPT !.start = date]
    BY <1>4, <2>1
  <2>. QED BY <1>6, <2>1, <2>2 DEF DetailRow, LooseRow
<1>9. \A d \in Detail : IF SessionOf[d] = s THEN a.detail[d] \in LooseRow \cup {Absent}
                        ELSE a.detail[d] = detail[d]
  BY <1>4, <1>8, OfAgenda
<1>10. Edits(a, s)
  BY <1>1, <1>4, <1>5, <1>7, <1>9, EditsIs
<1>11. Write(a)
  BY <1>2, <1>3
<1>12. Settles(a, s) /\ session'[s].status = session[s].status
  BY <1>7, <1>10, <1>11, SettlesPlain
<1>13. SameStatuses(a, Agenda, s)
  <2>1. \A d \in Detail : SessionOf[d] = s /\ detail[d] = Absent => a.detail[d] = Absent
    BY <1>4, OfAgenda
  <2>. QED BY <1>8, <2>1, RowIsNotAbsent DEF SameStatuses, Agenda
<1>. QED BY <1>1, <1>7, <1>12, <1>13, SameStatusesOperates

LEMMA NewEndIsLater ==
  ASSUME RowsTyped, NEW d \in Detail, detail[d] # Absent, NEW time \in Nat \ {0}, NEW kept
  PROVE  /\ NewEnd(d, time, kept) \in Nat /\ NewEnd(d, time, kept) > detail[d].start
         /\ kept => \A m \in NextStartOf(detail[d].worker, detail[d].start, d) :
                       NewEnd(d, time, kept) <= m
<1>1. \A e \in Detail : detail[e] # Absent => detail[e].start \in Nat
  BY DEF RowsTyped, DetailRow
<1>. DEFINE next == NextStartOf(detail[d].worker, detail[d].start, d)
            ends == {detail[d].start + time} \cup next
<1>2. \A m \in next : m \in Nat /\ m > detail[d].start
  BY <1>1 DEF NextStartOf, Column, Agenda
<1>3. ends \in SUBSET Nat /\ ends # {} /\ \A m \in ends : m > detail[d].start
  BY <1>1, <1>2
<1>. HIDE DEF next
<1>4. Min(ends) \in ends /\ \A m \in ends : Min(ends) <= m
  BY <1>3, MinIsElement
<1>5. NewEnd(d, time, kept) = IF kept THEN Min(ends) ELSE detail[d].start + time
  BY DEF NewEnd, next
<1>. HIDE DEF ends
<1>6. Min(ends) \in Nat /\ Min(ends) > detail[d].start
  BY <1>3, <1>4
<1>7. \A m \in next : m \in ends
  BY DEF ends
<1>. QED BY <1>1, <1>4, <1>5, <1>6, <1>7 DEF next

LEMMA UnchargedUnlessSealed ==
  ASSUME AppointmentsInv, NEW s \in Session, ~Sealed(s)
  PROVE  charge[s] = "none"
BY DEF AppointmentsInv, ChargedStaysPaid, Sealed

\* The row of a service that becomes another one.
ChangedRow(d, time, kept) ==
  [detail[d] EXCEPT !.time = NewEnd(d, time, kept) - detail[d].start,
                    !.end = NewEnd(d, time, kept), !.till = NewEnd(d, time, kept)]

LEMMA ChangedRowIs ==
  ASSUME RowsTyped, NEW d \in Detail, detail[d] # Absent, NEW time \in Nat \ {0}, NEW kept
  PROVE  /\ ChangedRow(d, time, kept) \in LooseRow
         /\ ChangedRow(d, time, kept).status = detail[d].status
         /\ ChangedRow(d, time, kept).worker = detail[d].worker
         /\ ChangedRow(d, time, kept).start = detail[d].start
         /\ ChangedRow(d, time, kept).end = NewEnd(d, time, kept)
<1>1. PICK end : end = NewEnd(d, time, kept)
  OBVIOUS
<1>2. PICK length : length = end - detail[d].start
  OBVIOUS
<1>3. end \in Nat /\ end > detail[d].start
  BY <1>1, NewEndIsLater
<1>4. detail[d] \in DetailRow
  BY DEF RowsTyped
<1>5. length \in Nat \ {0}
  BY <1>2, <1>3, <1>4 DEF DetailRow
<1>6. PICK row : row = [detail[d] EXCEPT !.time = length, !.end = end, !.till = end]
  OBVIOUS
<1>7. ChangedRow(d, time, kept) = row
  BY <1>1, <1>2, <1>6 DEF ChangedRow
<1>8. row.status = detail[d].status /\ row.worker = detail[d].worker
      /\ row.start = detail[d].start /\ row.end = end
  BY <1>4, <1>6 DEF DetailRow
<1>9. row \in [status: DetailStatus, worker: Worker \cup {Nobody}, start: Nat, end: Nat,
               time: Nat \ {0}, from: Nat, till: Nat]
  BY <1>3, <1>4, <1>5, <1>6 DEF DetailRow
<1>10. row \in LooseRow
  BY <1>9 DEF LooseRow
<1>. QED BY <1>1, <1>7, <1>8, <1>10

\* The appointment with one service of another length.
ServiceChanged(d, s, time, kept, a) ==
  /\ a = WithRow(d, ChangedRow(d, time, kept)) /\ Edits(a, s) /\ a.session = session
  /\ a.detail[d] = ChangedRow(d, time, kept)
  /\ \A e \in Detail : e # d => a.detail[e] = detail[e]
  /\ Write(IF kept THEN a ELSE RippleAll(a, {detail[d].worker}, {d}))

LEMMA ChangeServiceIs ==
  ASSUME RowsTyped, NEW d \in Detail, NEW s \in Session, s = SessionOf[d], ChangeDetailService(d)
  PROVE  \E time \in Nat \ {0}, kept \in BOOLEAN : \E a : ServiceChanged(d, s, time, kept, a)
<1>1. detail[d] # Absent
  BY DEF ChangeDetailService
<1>2. PICK time \in Duration, kept \in BOOLEAN :
        Write(IF kept
              THEN [Agenda EXCEPT !.detail[d] = [@ EXCEPT
                      !.time = NewEnd(d, time, kept) - detail[d].start,
                      !.end = NewEnd(d, time, kept), !.till = NewEnd(d, time, kept)]]
              ELSE Ripple([Agenda EXCEPT !.detail[d] = [@ EXCEPT
                      !.time = NewEnd(d, time, kept) - detail[d].start,
                      !.end = NewEnd(d, time, kept), !.till = NewEnd(d, time, kept)]],
                     detail[d].worker, {d}))
  BY DEF ChangeDetailService
<1>3. WithRow(d, ChangedRow(d, time, kept)) =
        [Agenda EXCEPT !.detail[d] = [@ EXCEPT
           !.time = NewEnd(d, time, kept) - detail[d].start,
           !.end = NewEnd(d, time, kept), !.till = NewEnd(d, time, kept)]]
  BY DEF WithRow, ChangedRow, Agenda
<1>4. PICK row : row = ChangedRow(d, time, kept)
  OBVIOUS
<1>5. PICK a : a = WithRow(d, row)
  OBVIOUS
<1>6. time \in Nat \ {0} /\ session[s] # Absent
  BY <1>1, SlotsAndLengths DEF RowsTyped
<1>7. row \in LooseRow \cup {Absent}
  BY <1>1, <1>4, <1>6, ChangedRowIs
<1>8. /\ Edits(a, s) /\ a.session = session /\ a.detail[d] = row
      /\ \A e \in Detail : e # d => a.detail[e] = detail[e]
  BY <1>5, <1>6, <1>7, OneRowEdits
<1>9. Write(IF kept THEN a ELSE RippleAll(a, {detail[d].worker}, {d}))
  BY <1>2, <1>3, <1>4, <1>5 DEF Ripple
<1>10. ServiceChanged(d, s, time, kept, a)
  BY <1>4, <1>5, <1>8, <1>9 DEF ServiceChanged
<1>. QED BY <1>6, <1>10

LEMMA ChangeServiceOperates ==
  ASSUME AppointmentsInv, NEW d \in Detail, NEW s \in Session, s = SessionOf[d],
         ChangeDetailService(d)
  PROVE  Operated(s)
<1>1. RowsTyped /\ Count /\ UNCHANGED <<now, charge>> /\ detail[d] # Absent
  BY TypeOKIs DEF AppointmentsInv, ChangeDetailService
<1>2. session[s] # Absent
  BY <1>1 DEF RowsTyped
<1>2a. PICK time \in Nat \ {0}, kept \in BOOLEAN : \E a : ServiceChanged(d, s, time, kept, a)
  BY <1>1, ChangeServiceIs
<1>3. PICK a :
           /\ a = WithRow(d, ChangedRow(d, time, kept)) /\ Edits(a, s) /\ a.session = session
           /\ a.detail[d] = ChangedRow(d, time, kept)
           /\ \A e \in Detail : e # d => a.detail[e] = detail[e]
           /\ Write(IF kept THEN a ELSE RippleAll(a, {detail[d].worker}, {d}))
  BY <1>2a DEF ServiceChanged
<1>4. PICK b : b = IF kept THEN a ELSE RippleAll(a, {detail[d].worker}, {d})
  OBVIOUS
<1>5. Write(b) /\ (b = a \/ \E W, protected : b = RippleAll(a, W, protected))
  BY <1>3, <1>4
<1>6. Settles(a, s) /\ session'[s].status = session[s].status
  BY <1>3, <1>5, SettlesPlain
<1>7. SameStatuses(a, Agenda, s)
  <2>1. /\ ChangedRow(d, time, kept) \in LooseRow
        /\ ChangedRow(d, time, kept).status = detail[d].status
        /\ ChangedRow(d, time, kept).worker = detail[d].worker
    BY <1>1, ChangedRowIs
  <2>. QED BY <1>1, <1>3, <2>1, RowIsNotAbsent DEF SameStatuses, Agenda
<1>. QED BY <1>1, <1>2, <1>3, <1>6, <1>7, SameStatusesOperates

LEMMA MovedRowIs ==
  ASSUME NEW d, detail[d] \in DetailRow, NEW one \in BOOLEAN, NEW start \in Slot,
         NEW time \in Duration, NEW shift \in Int, NEW w \in Worker \cup {Nobody}
  PROVE  LET row == MovedRow(d, one, start, time, shift, w)
         IN /\ row.start \in Slot => row \in LooseRow
            /\ row.status = detail[d].status
            /\ detail[d].worker # Nobody => row.worker # Nobody
<1>1. start \in Nat /\ time \in Nat \ {0} /\ start + time \in Int
  BY SlotsAndLengths
<1>2. PICK end : end = start + time
  OBVIOUS
<1>3. PICK q : q = IF one THEN [detail[d] EXCEPT !.start = start, !.end = end, !.time = time]
                   ELSE [detail[d] EXCEPT !.start = @ + shift, !.end = @ + shift]
  OBVIOUS
<1>4. q \in [status: DetailStatus, worker: Worker \cup {Nobody}, start: Int, end: Int,
             time: Nat \ {0}, from: Nat, till: Nat]
      /\ q.status = detail[d].status /\ q.worker = detail[d].worker
  <2>1. CASE one
    <3>1. end \in Int /\ start \in Int /\ time \in Nat \ {0}
      BY <1>1, <1>2
    <3>2. q = [detail[d] EXCEPT !.start = start, !.end = end, !.time = time]
      BY <1>3, <2>1
    <3>3. q.status = detail[d].status /\ q.worker = detail[d].worker
      BY <3>2 DEF DetailRow
    <3>. QED BY <3>1, <3>2, <3>3 DEF DetailRow
  <2>2. CASE ~one
    <3>1. detail[d].start + shift \in Int /\ detail[d].end + shift \in Int
      BY DEF DetailRow
    <3>. QED BY <1>3, <2>2, <3>1 DEF DetailRow
  <2>. QED BY <2>1, <2>2
<1>5. PICK row : row = MovedRow(d, one, start, time, shift, w)
  OBVIOUS
<1>6. row = IF w = Nobody THEN q ELSE [q EXCEPT !.worker = w]
  BY <1>2, <1>3, <1>5 DEF MovedRow, MovedAlone, MovedTogether
<1>7. /\ row \in [status: DetailStatus, worker: Worker \cup {Nobody}, start: Int, end: Int,
                  time: Nat \ {0}, from: Nat, till: Nat]
      /\ row.status = detail[d].status
      /\ row.worker = IF w = Nobody THEN detail[d].worker ELSE w
  BY <1>4, <1>6
<1>8. row.start \in Slot => row \in LooseRow
  BY <1>7, SlotsAndLengths DEF LooseRow
<1>. QED BY <1>5, <1>7, <1>8

LEMMA RescheduleOperates ==
  ASSUME AppointmentsInv, NEW s \in Session, RescheduleSession(s)
  PROVE  Operated(s)
<1>1. RowsTyped /\ Count /\ UNCHANGED <<now, charge>> /\ session[s] # Absent
  BY TypeOKIs DEF AppointmentsInv, RescheduleSession
<1>2. PICK target \in {Of(Agenda, s)} \cup {{d} : d \in Of(Agenda, s)},
           start \in Slot, time \in Duration, w \in Worker \cup {Nobody} :
        LET a == Moved(s, target, start, time, w)
        IN /\ \A d \in target : a.detail[d].start \in Slot
           /\ Write(RippleAll(a, WorkersOf(a, s), Of(a, s)))
  BY DEF RescheduleSession
<1>3. PICK one \in BOOLEAN : one = (Cardinality(target) = 1)
  OBVIOUS
<1>4. PICK shift : shift = start - session[s].start
  OBVIOUS
<1>5. PICK a : a = Moved(s, target, start, time, w)
  OBVIOUS
<1>6. /\ \A d \in target : a.detail[d].start \in Slot
      /\ Write(RippleAll(a, WorkersOf(a, s), Of(a, s)))
  BY <1>2, <1>5
<1>7. /\ a.session = [session EXCEPT ![s].start = start, ![s].date = start]
      /\ \A d \in Detail : a.detail[d] = IF d \in target
                             THEN MovedRow(d, one, start, time, shift, w) ELSE detail[d]
      /\ a.detail = [d \in Detail |-> a.detail[d]] /\ DOMAIN a = {"session", "detail"}
  BY <1>3, <1>4, <1>5 DEF Moved
<1>8. a.session[s] = [session[s] EXCEPT !.start = start, !.date = start]
      /\ DOMAIN a.session = Session /\ a.session = [t \in Session |-> a.session[t]]
      /\ \A t \in Session : t # s => a.session[t] = session[t]
  BY <1>1, <1>7 DEF RowsTyped
<1>9. session[s] \in SessionRow /\ start \in Nat /\ shift \in Int
  <2>1. session[s] \in SessionRow /\ start \in Nat
    BY <1>1, SlotsAndLengths DEF RowsTyped
  <2>. QED BY <1>4, <2>1 DEF SessionRow
<1>10. a.session[s] \in SessionRow /\ a.session[s].status = session[s].status
       /\ a.session[s].locked = session[s].locked
  BY <1>8, <1>9 DEF SessionRow
<1>11. target \subseteq Of(Agenda, s)
  BY <1>2
<1>12. ASSUME NEW d \in Detail, SessionOf[d] = s, detail[d] # Absent
       PROVE  /\ a.detail[d] \in LooseRow /\ a.detail[d].status = detail[d].status
              /\ detail[d].worker # Nobody => a.detail[d].worker # Nobody
  <2>1. detail[d] \in DetailRow
    BY <1>1, <1>12 DEF RowsTyped
  <2>2. CASE d \in target
    <3>1. a.detail[d] = MovedRow(d, one, start, time, shift, w) /\ a.detail[d].start \in Slot
      BY <1>6, <1>7, <2>2
    <3>. QED BY <1>9, <2>1, <3>1, MovedRowIs
  <2>3. CASE d \notin target
    <3>1. a.detail[d] = detail[d]
      BY <1>7, <2>3
    <3>2. DetailRow \subseteq LooseRow
      BY DEF DetailRow, LooseRow
    <3>. QED BY <2>1, <3>1, <3>2
  <2>. QED BY <2>2, <2>3
<1>13. \A d \in Detail : IF SessionOf[d] = s THEN a.detail[d] \in LooseRow \cup {Absent}
                         ELSE a.detail[d] = detail[d]
  BY <1>7, <1>11, <1>12, OfAgenda
<1>14. Edits(a, s)
  BY <1>1, <1>7, <1>8, <1>10, <1>13, EditsIs
<1>15. PICK b : b = RippleAll(a, WorkersOf(a, s), Of(a, s))
  OBVIOUS
<1>16. Settles(a, s) /\ session'[s].status = session[s].status
  BY <1>6, <1>10, <1>14, <1>15, SettlesPlain
<1>17. SameStatuses(a, Agenda, s)
  <2>1. \A d \in Detail : SessionOf[d] = s /\ detail[d] = Absent => a.detail[d] = Absent
    BY <1>7, <1>11, OfAgenda
  <2>. QED BY <1>12, <2>1, RowIsNotAbsent DEF SameStatuses, Agenda
<1>. QED BY <1>1, <1>10, <1>16, <1>17, SameStatusesOperates

\* What a service becomes is a row with its status.
LEMMA BecomesIs ==
  ASSUME NEW r \in DetailRow, now \in Slot, NEW next \in Settable, NEW kept \in BOOLEAN
  PROVE  Becomes(r, next, kept) \in LooseRow /\ Becomes(r, next, kept).status = next
         /\ Becomes(r, next, kept).worker = r.worker
<1>1. now \in Nat /\ now + LargerOf(r.time, 1) \in Int
  BY SlotsAndLengths DEF DetailRow, LargerOf
<1>2. PICK end : end = now + LargerOf(r.time, 1)
  OBVIOUS
<1>3. PICK row : row = Becomes(r, next, kept)
  OBVIOUS
<1>4. next \in DetailStatus /\ now \in Int /\ end \in Int
  BY <1>1, <1>2, Statuses
<1>5. r \in [status: DetailStatus, worker: Worker \cup {Nobody}, start: Nat, end: Int,
             time: Nat \ {0}, from: Nat, till: Nat]
      /\ r.till \in Int
  BY DEF DetailRow
<1>6. row \in [status: DetailStatus, worker: Worker \cup {Nobody}, start: Nat, end: Int,
               time: Nat \ {0}, from: Nat, till: Nat]
      /\ row.status = next /\ row.worker = r.worker
  <2>1. CASE next = "scheduled"
    <3>1. row = [r EXCEPT !.status = next, !.start = r.from, !.end = r.till]
      BY <1>3, <2>1 DEF Becomes, Restored
    <3>. QED BY <1>4, <1>5, <3>1
  <2>2. CASE next = "progress"
    <3>1. row = IF kept THEN [r EXCEPT !.status = next]
                ELSE [r EXCEPT !.status = next, !.start = now, !.end = end]
      BY <1>2, <1>3, <2>2 DEF Becomes, Started
    <3>. QED BY <1>1, <1>4, <1>5, <3>1
  <2>3. CASE next = "completed"
    <3>1. row = IF kept THEN [r EXCEPT !.status = next]
                ELSE [r EXCEPT !.status = next, !.end = now]
      BY <1>3, <2>3 DEF Becomes, Finished
    <3>. QED BY <1>4, <1>5, <3>1
  <2>4. CASE next \notin {"scheduled", "progress", "completed"}
    <3>1. row = [r EXCEPT !.status = next]
      BY <1>3, <2>4 DEF Becomes
    <3>. QED BY <1>4, <1>5, <3>1
  <2>. QED BY <2>1, <2>2, <2>3, <2>4
<1>. QED BY <1>3, <1>6 DEF LooseRow

\* A service gets another status.
DetailUpdate(d, s, next, kept, a) ==
  /\ Edits(a, s) /\ a.session = session /\ a.detail[d] = Becomes(detail[d], next, kept)
  /\ \A e \in Detail : e # d => a.detail[e] = detail[e]
  /\ next \notin {"progress", "completed"} => kept
  /\ Write(IF kept THEN Sync(a, s) ELSE RippleAll(Sync(a, s), {detail[d].worker}, {d}))

LEMMA UpdateDetailIs ==
  ASSUME RowsTyped, ClockTyped, NEW d \in Detail, NEW s \in Session, s = SessionOf[d],
         NEW next \in Settable, NEW role, UpdateDetailStatus(d, next, role)
  PROVE  \E kept, a : kept \in BOOLEAN /\ DetailUpdate(d, s, next, kept, a)
<1>1. detail[d] # Absent
  BY DEF UpdateDetailStatus
<1>2. PICK keep \in BOOLEAN :
        LET kept == CASE next = "progress"  -> keep \/ detail[d].start = now
                      [] next = "completed" -> keep \/ detail[d].end = now
                      [] OTHER -> TRUE
            a == Sync([Agenda EXCEPT !.detail[d] = Becomes(@, next, kept)], SessionOf[d])
        IN Write(IF kept THEN a ELSE Ripple(a, detail[d].worker, {d}))
  BY DEF UpdateDetailStatus
<1>3. PICK kept \in BOOLEAN : kept = CASE next = "progress"  -> keep \/ detail[d].start = now
                                       [] next = "completed" -> keep \/ detail[d].end = now
                                       [] OTHER -> TRUE
  OBVIOUS
<1>4. next \notin {"progress", "completed"} => kept
  BY <1>3
<1>5. PICK a : a = WithRow(d, Becomes(detail[d], next, kept))
  OBVIOUS
<1>6. a = [Agenda EXCEPT !.detail[d] = Becomes(@, next, kept)]
  BY <1>5 DEF WithRow, Agenda
<1>7. Write(IF kept THEN Sync(a, s) ELSE Ripple(Sync(a, s), detail[d].worker, {d}))
  BY <1>2, <1>3, <1>6
<1>8. PICK row : row = Becomes(detail[d], next, kept)
  OBVIOUS
<1>9. detail[d] \in DetailRow /\ session[s] # Absent /\ now \in Slot
  BY <1>1 DEF RowsTyped, ClockTyped
<1>10. row \in LooseRow \cup {Absent}
  BY <1>8, <1>9, BecomesIs
<1>11. /\ Edits(a, s) /\ a.session = session /\ a.detail[d] = row
       /\ \A e \in Detail : e # d => a.detail[e] = detail[e]
  BY <1>5, <1>8, <1>9, <1>10, OneRowEdits
<1>12. Write(IF kept THEN Sync(a, s) ELSE RippleAll(Sync(a, s), {detail[d].worker}, {d}))
  BY <1>7 DEF Ripple
<1>. QED BY <1>4, <1>8, <1>11, <1>12 DEF DetailUpdate

LEMMA UpdateDetailOperates ==
  ASSUME AppointmentsInv, NEW d \in Detail, NEW s \in Session, s = SessionOf[d],
         NEW next \in Settable, NEW role, UpdateDetailStatus(d, next, role)
  PROVE  Operated(s)
<1>1. RowsTyped /\ ClockTyped /\ Count /\ UNCHANGED <<now, charge>> /\ ~Sealed(s)
  BY TypeOKIs DEF AppointmentsInv, UpdateDetailStatus
<1>2. charge[s] = "none"
  BY <1>1, UnchargedUnlessSealed
<1>3. PICK kept, a : kept \in BOOLEAN /\ DetailUpdate(d, s, next, kept, a)
  BY <1>1, UpdateDetailIs
<1>4. PICK b : b = IF kept THEN Sync(a, s)
                   ELSE RippleAll(Sync(a, s), {detail[d].worker}, {d})
  OBVIOUS
<1>5. Write(b) /\ (b = Sync(a, s) \/ \E W, protected : b = RippleAll(Sync(a, s), W, protected))
  BY <1>3, <1>4 DEF DetailUpdate
<1>6. Settles(a, s) /\ InStep(Agenda', s)
  <2>1. Edits(a, s)
    BY <1>3 DEF DetailUpdate
  <2>. QED BY <1>5, <2>1, SettlesSynced
<1>7. StatusKept(s)
  BY <1>6 DEF StatusKept
<1>. QED BY <1>1, <1>2, <1>6, <1>7, UnchargedOperates

LEMMA DerivedWithoutServices ==
  ASSUME NEW a, NEW s, Active(a, s) = {}
  PROVE  Derived(a, s) = "cancelled"
<1>1. ~\E d \in Active(a, s) : a.detail[d].worker = Nobody
  OBVIOUS
<1>. QED BY <1>1, DerivedIs, Zenon

LEMMA DerivedOfOneStatus ==
  ASSUME NEW a, NEW s, Active(a, s) # {},
         NEW st \in {"scheduled", "progress", "completed", "paid"},
         \A d \in Active(a, s) : a.detail[d].status = st /\ a.detail[d].worker # Nobody
  PROVE  Derived(a, s) = st
<1>1. ~\E d \in Active(a, s) : a.detail[d].worker = Nobody
  OBVIOUS
<1>2. /\ With(a, s, {"progress"}) = IF st = "progress" THEN Active(a, s) ELSE {}
      /\ With(a, s, {"paid"}) = IF st = "paid" THEN Active(a, s) ELSE {}
      /\ With(a, s, {"completed", "paid"}) = IF st \in {"completed", "paid"} THEN Active(a, s) ELSE {}
  BY DEF With
<1>3. CASE st = "scheduled"
  BY <1>1, <1>2, <1>3, DerivedIs
<1>4. CASE st = "progress"
  BY <1>1, <1>2, <1>4, DerivedIs
<1>5. CASE st = "completed"
  BY <1>1, <1>2, <1>5, DerivedIs
<1>6. CASE st = "paid"
  BY <1>1, <1>2, <1>6, DerivedIs
<1>. QED BY <1>3, <1>4, <1>5, <1>6

\* An appointment gets another status, and its services follow.
Reactivated(s, next) ==
  session[s].status = "cancelled" /\ next \in {"scheduled", "progress", "completed"}
SessionUpdate(s, next, kept, a) ==
  /\ Edits(a, s) /\ a.session[s].status = next
  /\ \A d \in Of(Agenda, s) :
       /\ a.detail[d] # Absent /\ a.detail[d].worker = detail[d].worker
       /\ a.detail[d].status =
            IF detail[d].status = "cancelled" /\ ~Reactivated(s, next) THEN "cancelled" ELSE next
  /\ \A d \in Detail : detail[d] = Absent => a.detail[d] = Absent
  /\ next \notin {"progress", "completed"} => kept
  /\ Write(IF kept THEN a ELSE RippleAll(a, WorkersOf(a, s), Of(a, s)))

LEMMA UpdateSessionIs ==
  ASSUME RowsTyped, ClockTyped, NEW s \in Session, NEW next \in Settable,
         UpdateSessionStatus(s, next)
  PROVE  \E kept, a : kept \in BOOLEAN /\ SessionUpdate(s, next, kept, a)
<1>1. session[s] \in SessionRow /\ now \in Nat /\ next \in SessionStatus
  BY Statuses, SlotsAndLengths DEF UpdateSessionStatus, RowsTyped, ClockTyped
<1>2. PICK keep \in BOOLEAN :
       LET reactivated == session[s].status = "cancelled"
                          /\ next \in {"scheduled", "progress", "completed"}
           kept == CASE next = "progress"  -> keep \/ session[s].start = now
                     [] next = "completed" -> keep \/ PlannedEnd(Agenda, s) = now
                     [] OTHER -> TRUE
           row == [session[s] EXCEPT
                     !.status = next, !.locked = TRUE,
                     !.start = CASE next = "scheduled" -> session[s].from
                                 [] /\ next = "progress" /\ ~kept
                                    /\ session[s].status # "progress" -> now
                                 [] OTHER -> @]
           a == Cascade([Agenda EXCEPT !.session[s] = row], s, next, kept, reactivated)
       IN Write(IF kept THEN a ELSE RippleAll(a, WorkersOf(a, s), Of(a, s)))
  BY DEF UpdateSessionStatus
<1>3. PICK kept \in BOOLEAN :
        kept = CASE next = "progress"  -> keep \/ session[s].start = now
                 [] next = "completed" -> keep \/ PlannedEnd(Agenda, s) = now
                 [] OTHER -> TRUE
  OBVIOUS
<1>4. PICK start : start = CASE next = "scheduled" -> session[s].from
                             [] /\ next = "progress" /\ ~kept
                                /\ session[s].status # "progress" -> now
                             [] OTHER -> session[s].start
  OBVIOUS
<1>5. PICK row : row = [session[s] EXCEPT !.status = next, !.locked = TRUE, !.start = start]
  OBVIOUS
<1>6. PICK c : c = [Agenda EXCEPT !.session[s] = row]
  OBVIOUS
<1>7. PICK a : a = Cascade(c, s, next, kept, Reactivated(s, next))
  OBVIOUS
<1>8. Write(IF kept THEN a ELSE RippleAll(a, WorkersOf(a, s), Of(a, s)))
  BY <1>2, <1>3, <1>4, <1>5, <1>6, <1>7 DEF Reactivated
<1>9. start \in Nat
  BY <1>1, <1>4 DEF SessionRow
<1>10. row \in SessionRow /\ row.status = next
  BY <1>1, <1>5, <1>9 DEF SessionRow
<1>11. c.session = [session EXCEPT ![s] = row] /\ c.detail = detail
       /\ DOMAIN c = {"session", "detail"}
  BY <1>6 DEF Agenda
<1>12. Of(c, s) = Of(Agenda, s)
  BY <1>11 DEF Of, Agenda
<1>13. /\ a.session = c.session /\ DOMAIN a = {"session", "detail"}
       /\ a.detail = [d \in Detail |-> a.detail[d]]
       /\ \A d \in Detail : a.detail[d] =
            IF d \notin Of(c, s) \/ (detail[d].status = "cancelled" /\ ~Reactivated(s, next))
            THEN detail[d]
            ELSE CASE next = "progress" /\ detail[d].status = "progress"   -> detail[d]
                   [] next = "completed" /\ detail[d].status # "progress"  ->
                        [detail[d] EXCEPT !.status = next]
                   [] OTHER                        -> Becomes(detail[d], next, kept)
  BY <1>7, <1>11 DEF Cascade
<1>14. ASSUME NEW d \in Of(Agenda, s)
       PROVE  /\ a.detail[d] \in LooseRow /\ a.detail[d].worker = detail[d].worker
              /\ a.detail[d].status = IF detail[d].status = "cancelled" /\ ~Reactivated(s, next)
                                      THEN "cancelled" ELSE next
  <2>1. d \in Detail /\ detail[d] \in DetailRow /\ now \in Slot
    BY OfAgenda DEF RowsTyped, ClockTyped
  <2>2. DetailRow \subseteq LooseRow
    BY DEF DetailRow, LooseRow
  <2>3. CASE detail[d].status = "cancelled" /\ ~Reactivated(s, next)
    BY <1>12, <1>13, <2>1, <2>2, <2>3
  <2>4. CASE ~(detail[d].status = "cancelled" /\ ~Reactivated(s, next))
    <3>1. CASE next = "progress" /\ detail[d].status = "progress"
      BY <1>12, <1>13, <2>1, <2>2, <2>4, <3>1
    <3>2. CASE next = "completed" /\ detail[d].status # "progress"
      <4>1. a.detail[d] = [detail[d] EXCEPT !.status = next]
        BY <1>12, <1>13, <2>1, <2>4, <3>2
      <4>2. [detail[d] EXCEPT !.status = next] \in DetailRow
        BY <2>1, Statuses DEF DetailRow
      <4>. QED BY <2>1, <2>2, <2>4, <4>1, <4>2 DEF DetailRow
    <3>3. CASE ~(next = "progress" /\ detail[d].status = "progress")
               /\ ~(next = "completed" /\ detail[d].status # "progress")
      <4>1. a.detail[d] = Becomes(detail[d], next, kept)
        BY <1>12, <1>13, <2>1, <2>4, <3>3
      <4>. QED BY <2>1, <2>4, <4>1, BecomesIs
    <3>. QED BY <3>1, <3>2, <3>3
  <2>. QED BY <2>3, <2>4
<1>15. \A d \in Detail : d \notin Of(Agenda, s) => a.detail[d] = detail[d]
  BY <1>12, <1>13
<1>16. Edits(a, s)
  <2>1. a.session[s] \in SessionRow /\ \A t \in Session : t # s => a.session[t] = session[t]
    BY <1>10, <1>11, <1>13 DEF RowsTyped
  <2>2. DOMAIN a.session = Session /\ a.session = [t \in Session |-> a.session[t]]
    BY <1>11, <1>13 DEF RowsTyped
  <2>3. \A d \in Detail : IF SessionOf[d] = s THEN a.detail[d] \in LooseRow \cup {Absent}
                          ELSE a.detail[d] = detail[d]
    BY <1>14, <1>15, OfAgenda
  <2>. QED BY <1>13, <2>1, <2>2, <2>3, EditsIs
<1>17. a.session[s].status = next
  BY <1>10, <1>11, <1>13 DEF RowsTyped
<1>18. \A d \in Detail : detail[d] = Absent => a.detail[d] = Absent
  BY <1>15, OfAgenda
<1>19. \A d \in Of(Agenda, s) : a.detail[d] # Absent
  BY <1>14, RowIsNotAbsent
<1>20. next \notin {"progress", "completed"} => kept
  BY <1>3
<1>. QED BY <1>8, <1>14, <1>16, <1>17, <1>18, <1>19, <1>20 DEF SessionUpdate

LEMMA UpdateSessionOperates ==
  ASSUME AppointmentsInv, NEW s \in Session, NEW next \in Settable, UpdateSessionStatus(s, next)
  PROVE  Operated(s)
<1>1. /\ RowsTyped /\ ClockTyped /\ Count /\ UNCHANGED <<now, charge>> /\ ~Sealed(s)
      /\ WorkersOf(Agenda, s) # {} /\ session[s] # Absent
  BY TypeOKIs DEF AppointmentsInv, UpdateSessionStatus
<1>2. charge[s] = "none"
  BY <1>1, UnchargedUnlessSealed
<1>3. PICK kept, a : kept \in BOOLEAN /\ SessionUpdate(s, next, kept, a)
  BY <1>1, UpdateSessionIs
<1>4. PICK b : b = IF kept THEN a ELSE RippleAll(a, WorkersOf(a, s), Of(a, s))
  OBVIOUS
<1>5. Edits(a, s) /\ Write(b) /\ (b = a \/ \E W, protected : b = RippleAll(a, W, protected))
  BY <1>3, <1>4 DEF SessionUpdate
<1>6. Settles(a, s) /\ session'[s].status = a.session[s].status
  BY <1>5, SettlesPlain
<1>7. session'[s].status = next
  BY <1>3, <1>6 DEF SessionUpdate
<1>8. /\ Of(a, s) = Of(Agenda, s) /\ Of(Agenda, s) # {}
      /\ \A d \in Of(a, s) :
           /\ a.detail[d].worker = detail[d].worker
           /\ a.detail[d].status =
                IF detail[d].status = "cancelled" /\ ~Reactivated(s, next) THEN "cancelled"
                ELSE next
  <2>1. Of(a, s) = Of(Agenda, s)
    BY <1>3, OfAgenda DEF SessionUpdate, Of
  <2>2. Of(Agenda, s) # {}
    BY <1>1 DEF WorkersOf
  <2>. QED BY <1>3, <2>1, <2>2 DEF SessionUpdate
<1>9. StatusKept(s)
  <2>. SUFFICES ASSUME InStep(Agenda, s), AllAssigned(s) PROVE InStep(Agenda', s)
    BY DEF StatusKept
  <2>1. SameServices(Agenda', a, s)
    BY <1>6 DEF Settles
  <2>2. Derived(Agenda', s) = Derived(a, s)
    BY <2>1, SameServicesSameStatus
  <2>3. CASE next = "paid"
    BY <1>7, <2>3 DEF InStep, Agenda
  <2>4. CASE next = "cancelled"
    <3>1. Active(a, s) = {}
      BY <1>8, <2>4 DEF Active
    <3>2. Derived(a, s) = next
      BY <2>4, <3>1, DerivedWithoutServices
    <3>. QED BY <1>7, <2>2, <3>2 DEF InStep, Agenda
  <2>5. CASE next \in {"scheduled", "progress", "completed"}
    <3>1. Active(a, s) # {}
      <4>1. CASE Reactivated(s, next)
        BY <1>8, <2>5, <4>1 DEF Active
      <4>2. CASE ~Reactivated(s, next)
        <5>1. session[s].status # "cancelled"
          BY <2>5, <4>2 DEF Reactivated
        <5>2. session[s].status = Derived(Agenda, s)
          BY <1>1, <1>8 DEF InStep, Agenda, Sealed
        <5>3. Active(Agenda, s) # {}
          BY <5>1, <5>2, DerivedWithoutServices
        <5>4. PICK d \in Of(Agenda, s) : detail[d].status # "cancelled"
          BY <5>3 DEF Active, Agenda
        <5>5. a.detail[d].status # "cancelled"
          BY <1>8, <2>5, <5>4
        <5>. QED BY <1>8, <5>4, <5>5 DEF Active
      <4>. QED BY <4>1, <4>2
    <3>2. \A d \in Active(a, s) : a.detail[d].status = next /\ a.detail[d].worker # Nobody
      BY <1>8 DEF Active, AllAssigned
    <3>3. Derived(a, s) = next
      BY <2>5, <3>1, <3>2, DerivedOfOneStatus
    <3>. QED BY <1>7, <2>2, <3>3 DEF InStep, Agenda
  <2>. QED BY <2>3, <2>4, <2>5, Statuses
<1>. QED BY <1>1, <1>2, <1>6, <1>9, UnchargedOperates

\* The appointment gets a row, and its services a status, some of them another.
Marked(s, row, D, st) ==
  [session |-> [session EXCEPT ![s] = row],
   detail |-> [d \in Detail |-> IF d \in D THEN [detail[d] EXCEPT !.status = st] ELSE detail[d]]]

MarkedAs(a, s, row, D, st) ==
  /\ Edits(a, s) /\ a.session[s] = row
  /\ \A d \in Detail : detail[d] = Absent => a.detail[d] = Absent
  /\ \A d \in Of(Agenda, s) :
       /\ a.detail[d] # Absent /\ a.detail[d].worker = detail[d].worker
       /\ a.detail[d].status = IF d \in D THEN st ELSE detail[d].status

LEMMA MarkedEdits ==
  ASSUME RowsTyped, NEW s \in Session, NEW row \in SessionRow, NEW D, D \subseteq Of(Agenda, s),
         NEW st \in DetailStatus, NEW a, a = Marked(s, row, D, st)
  PROVE  MarkedAs(a, s, row, D, st)
<1>1. /\ a.session = [session EXCEPT ![s] = row] /\ DOMAIN a = {"session", "detail"}
      /\ a.detail = [d \in Detail |-> a.detail[d]]
      /\ \A d \in Detail : a.detail[d] = IF d \in D THEN [detail[d] EXCEPT !.status = st]
                                         ELSE detail[d]
  BY DEF Marked
<1>2. /\ a.session[s] = row /\ DOMAIN a.session = Session
      /\ a.session = [t \in Session |-> a.session[t]]
      /\ \A t \in Session : t # s => a.session[t] = session[t]
  BY <1>1 DEF RowsTyped
<1>3. ASSUME NEW d \in Of(Agenda, s)
      PROVE  /\ a.detail[d] \in LooseRow /\ a.detail[d].worker = detail[d].worker
             /\ a.detail[d].status = IF d \in D THEN st ELSE detail[d].status
  <2>1. d \in Detail /\ detail[d] \in DetailRow
    BY OfAgenda DEF RowsTyped
  <2>2. a.detail[d] \in DetailRow /\ a.detail[d].worker = detail[d].worker
        /\ a.detail[d].status = IF d \in D THEN st ELSE detail[d].status
    BY <1>1, <2>1, ZenonT(30) DEF DetailRow
  <2>3. DetailRow \subseteq LooseRow
    BY DEF DetailRow, LooseRow
  <2>. QED BY <2>2, <2>3
<1>4. \A d \in Detail : d \notin Of(Agenda, s) => a.detail[d] = detail[d]
  BY <1>1
<1>5. \A d \in Detail : IF SessionOf[d] = s THEN a.detail[d] \in LooseRow \cup {Absent}
                        ELSE a.detail[d] = detail[d]
  BY <1>3, <1>4, OfAgenda
<1>6. Edits(a, s)
  BY <1>1, <1>2, <1>5, EditsIs
<1>. QED BY <1>2, <1>3, <1>4, <1>6, OfAgenda, RowIsNotAbsent DEF MarkedAs

LEMMA CancelOperates ==
  ASSUME AppointmentsInv, NEW s \in Session, CancelSession(s)
  PROVE  Operated(s)
<1>1. /\ RowsTyped /\ ClockTyped /\ Count /\ UNCHANGED <<now, charge>> /\ ~Sealed(s)
      /\ session[s] # Absent
  BY TypeOKIs DEF AppointmentsInv, CancelSession, Sealed
<1>2. charge[s] = "none"
  BY <1>1, UnchargedUnlessSealed
<1>3. PICK row : row = [session[s] EXCEPT !.status = "cancelled"]
  OBVIOUS
<1>4. row \in SessionRow /\ row.status = "cancelled"
  <2>1. session[s] \in SessionRow
    BY <1>1 DEF RowsTyped
  <2>. QED BY <1>3, <2>1 DEF SessionRow, SessionStatus
<1>5. PICK a : a = Marked(s, row, Of(Agenda, s), "cancelled")
  OBVIOUS
<1>6. Write(a)
  <2>1. Write([session |-> [session EXCEPT ![s].status = "cancelled"],
               detail |-> [d \in Detail |-> IF d \in Of(Agenda, s)
                             THEN [detail[d] EXCEPT !.status = "cancelled"] ELSE detail[d]]])
    BY DEF CancelSession
  <2>2. a = [session |-> [session EXCEPT ![s].status = "cancelled"],
             detail |-> [d \in Detail |-> IF d \in Of(Agenda, s)
                           THEN [detail[d] EXCEPT !.status = "cancelled"] ELSE detail[d]]]
    BY <1>3, <1>5 DEF Marked
  <2>. QED BY <2>1, <2>2
<1>7. /\ Edits(a, s) /\ a.session[s] = row
      /\ \A d \in Detail : detail[d] = Absent => a.detail[d] = Absent
      /\ \A d \in Of(Agenda, s) : a.detail[d].status = "cancelled"
  <2>1. MarkedAs(a, s, row, Of(Agenda, s), "cancelled")
    BY <1>1, <1>4, <1>5, MarkedEdits, Statuses
  <2>. QED BY <2>1 DEF MarkedAs
<1>8. Settles(a, s) /\ session'[s].status = "cancelled"
  BY <1>4, <1>6, <1>7, SettlesPlain
<1>9. StatusKept(s)
  <2>1. Active(a, s) = {}
    BY <1>7, OfAgenda DEF Active, Of
  <2>2. Derived(a, s) = "cancelled" /\ SameServices(Agenda', a, s)
    BY <1>8, <2>1, DerivedWithoutServices DEF Settles
  <2>3. Derived(Agenda', s) = "cancelled"
    BY <2>2, SameServicesSameStatus
  <2>. QED BY <1>8, <2>3 DEF StatusKept, InStep, Agenda
<1>. QED BY <1>1, <1>2, <1>8, <1>9, UnchargedOperates

LEMMA RegisterOperates ==
  ASSUME AppointmentsInv, NEW s \in Session, NEW pending \in BOOLEAN,
         RegisterSessionPayment(s, pending)
  PROVE  Operated(s)
<1>1. /\ RowsTyped /\ ClockTyped /\ ChargeTyped /\ UNCHANGED <<now, changes>>
      /\ session[s] # Absent /\ WorkersOf(Agenda, s) # {} /\ MarkPaid(s)
      /\ charge' = [charge EXCEPT ![s] = IF pending THEN "owed" ELSE "collected"]
  BY TypeOKIs DEF AppointmentsInv, RegisterSessionPayment, Chargeable
<1>2. PICK row : row = [session[s] EXCEPT !.status = "paid", !.locked = TRUE]
  OBVIOUS
<1>3. row \in SessionRow /\ row.status = "paid" /\ row.locked
  <2>1. session[s] \in SessionRow
    BY <1>1 DEF RowsTyped
  <2>. QED BY <1>2, <2>1 DEF SessionRow, SessionStatus
<1>4. PICK D : D = Active(Agenda, s)
  OBVIOUS
<1>5. PICK a : a = Marked(s, row, D, "paid")
  OBVIOUS
<1>6. Write(a)
  <2>1. a = [session |-> [session EXCEPT ![s].status = "paid", ![s].locked = TRUE],
             detail |-> [d \in Detail |-> IF d \in Active(Agenda, s)
                           THEN [detail[d] EXCEPT !.status = "paid"] ELSE detail[d]]]
    BY <1>2, <1>4, <1>5 DEF Marked
  <2>. QED BY <1>1, <2>1 DEF MarkPaid
<1>7. D \subseteq Of(Agenda, s) /\ "paid" \in DetailStatus
  BY <1>4, ActiveIsOf, Statuses
<1>8. /\ Edits(a, s) /\ a.session[s] = row
      /\ \A d \in Detail : detail[d] = Absent => a.detail[d] = Absent
      /\ \A d \in Of(Agenda, s) :
           /\ a.detail[d] # Absent /\ a.detail[d].worker = detail[d].worker
           /\ a.detail[d].status = IF d \in D THEN "paid" ELSE detail[d].status
  <2>1. MarkedAs(a, s, row, D, "paid")
    BY <1>1, <1>3, <1>5, <1>7, MarkedEdits
  <2>. QED BY <2>1 DEF MarkedAs
<1>9. Settles(a, s) /\ session'[s].status = "paid" /\ session'[s].locked
  <2>1. Settles(a, s) /\ session'[s].status = a.session[s].status
    BY <1>6, <1>8, SettlesPlain
  <2>. QED BY <1>3, <1>8, <2>1 DEF Settles
<1>10. StatusKept(s)
  BY <1>9 DEF StatusKept, InStep, Agenda
<1>11. \A d \in Of(Agenda, s) : d \notin D => detail[d].status = "cancelled"
  BY <1>4 DEF Active, Agenda
<1>12. Of(Agenda', s) = Of(Agenda, s)
       /\ \A d \in Of(Agenda, s) : /\ detail'[d].worker = detail[d].worker
                                   /\ detail'[d].status \in {"paid", "cancelled"}
  <2>1. SameServices(Agenda', a, s)
    BY <1>9 DEF Settles
  <2>2. Of(Agenda', s) = Of(Agenda, s)
    BY <1>8, <2>1, OfAgenda, ZenonT(30) DEF SameServices, Agenda
  <2>. QED BY <1>8, <1>11, <2>1, <2>2, OfAgenda DEF SameServices, Agenda
<1>13. PICK d \in Of(Agenda, s) : detail[d].worker # Nobody
  BY <1>1 DEF WorkersOf, Agenda
<1>14. ChargeKept(s)
  BY <1>9, <1>12, <1>13 DEF ChargeKept
<1>15. ClockTyped' /\ ChargeTyped' /\ \A t \in Session : t # s => charge'[t] = charge[t]
  BY <1>1 DEF ClockTyped, ChargeTyped
<1>. QED BY <1>9, <1>10, <1>14, <1>15 DEF Operated, Settles

LEMMA CollectOperates ==
  ASSUME AppointmentsInv, NEW s \in Session, MarkPaymentCollected(s)
  PROVE  Operated(s)
<1>1. /\ RowsTyped /\ ClockTyped /\ ChargeTyped /\ UNCHANGED <<now, session, detail, changes>>
      /\ charge' = [charge EXCEPT ![s] = "collected"] /\ charge[s] # "none"
  BY TypeOKIs DEF AppointmentsInv, MarkPaymentCollected
<1>2. RowsTyped' /\ ClockTyped' /\ ChargeTyped' /\ OthersPushed(s)
      /\ \A t \in Session : t # s => charge'[t] = charge[t]
  BY <1>1 DEF RowsTyped, ClockTyped, ChargeTyped, OthersPushed
<1>3. session[s] # Absent /\ session[s].status \in {"paid", "rated"} /\ session[s].locked
  BY <1>1 DEF AppointmentsInv, ChargedStaysPaid
<1>4. StatusKept(s)
  BY <1>1, <1>3 DEF StatusKept, InStep, Agenda
<1>5. Of(Agenda', s) = Of(Agenda, s)
  BY <1>1, OfAgenda
<1>6. \A d \in Of(Agenda, s) : \/ detail[d].status \in {"paid", "cancelled"}
                               \/ d \in Extra /\ detail[d].status = "scheduled"
  BY <1>1, OfAgenda DEF AppointmentsInv, ChargedIsSealed
<1>7. ChargeKept(s)
  BY <1>1, <1>3, <1>5, <1>6 DEF ChargeKept, AppointmentsInv, ChargedHasWorker
<1>. QED BY <1>1, <1>2, <1>3, <1>4, <1>7 DEF Operated

LEMMA RateOperates ==
  ASSUME AppointmentsInv, NEW s \in Session, Rate(s)
  PROVE  Operated(s)
<1>1. /\ RowsTyped /\ ClockTyped /\ ChargeTyped /\ UNCHANGED <<now, detail, charge, changes>>
      /\ session' = [session EXCEPT ![s].status = "rated"] /\ session[s] # Absent
  BY TypeOKIs DEF AppointmentsInv, Rate
<1>2. session[s] \in SessionRow
  BY <1>1 DEF RowsTyped
<1>3. session'[s] = [session[s] EXCEPT !.status = "rated"]
      /\ \A t \in Session : t # s => session'[t] = session[t]
  BY <1>1 DEF RowsTyped
<1>4. session'[s] \in SessionRow /\ session'[s].status = "rated"
      /\ session'[s].locked = session[s].locked
  BY <1>2, <1>3 DEF SessionRow, SessionStatus
<1>5. RowsTyped'
  <2>1. session' \in [Session -> SessionRow \cup {Absent}]
    BY <1>1, <1>4 DEF RowsTyped
  <2>2. \A d \in Detail : detail'[d] # Absent => session'[SessionOf[d]] # Absent
    BY <1>1, <1>3, <1>4, RowIsNotAbsent, AppointmentsAssumption DEF RowsTyped
  <2>. QED BY <1>1, <2>1, <2>2 DEF RowsTyped
<1>6. ClockTyped' /\ ChargeTyped' /\ OthersPushed(s) /\ session'[s] # Absent
      /\ \A t \in Session : t # s => charge'[t] = charge[t]
  BY <1>1, <1>3, <1>4, RowIsNotAbsent DEF ClockTyped, ChargeTyped, OthersPushed
<1>7. StatusKept(s)
  BY <1>4 DEF StatusKept, InStep, Agenda
<1>8. Of(Agenda', s) = Of(Agenda, s)
  BY <1>1, OfAgenda
<1>9. ASSUME charge[s] # "none"
      PROVE  /\ session[s].locked
             /\ \A d \in Of(Agenda, s) : \/ detail[d].status \in {"paid", "cancelled"}
                                         \/ d \in Extra /\ detail[d].status = "scheduled"
             /\ \E d \in Of(Agenda, s) :
                  detail[d].worker # Nobody /\ detail[d].status \in {"paid", "cancelled"}
  <2>1. session[s].locked
    BY <1>9 DEF AppointmentsInv, ChargedStaysPaid
  <2>2. \A d \in Of(Agenda, s) : \/ detail[d].status \in {"paid", "cancelled"}
                                 \/ d \in Extra /\ detail[d].status = "scheduled"
    BY <1>9, OfAgenda DEF AppointmentsInv, ChargedIsSealed
  <2>. QED BY <1>9, <2>1, <2>2 DEF AppointmentsInv, ChargedHasWorker
<1>10. ChargeKept(s)
  BY <1>1, <1>4, <1>8, <1>9 DEF ChargeKept
<1>. QED BY <1>5, <1>6, <1>7, <1>10 DEF Operated

LEMMA RevertOperates ==
  ASSUME AppointmentsInv, NEW s \in Session, RevertPayment(s)
  PROVE  Operated(s)
<1>1. /\ RowsTyped /\ ClockTyped /\ ChargeTyped /\ UNCHANGED <<now, changes>>
      /\ session[s] # Absent /\ charge[s] # "none" /\ charge' = [charge EXCEPT ![s] = "none"]
  BY TypeOKIs DEF AppointmentsInv, RevertPayment
<1>2. PICK back \in SUBSET (Of(Agenda, s) \ Active(Agenda, s)) :
        /\ back # {} => Active(Agenda, s) # {}
        /\ Write([session |-> [session EXCEPT ![s].status = "completed"],
                  detail |-> [d \in Detail |-> IF d \in Active(Agenda, s) \cup back
                                THEN [detail[d] EXCEPT !.status = "completed"] ELSE detail[d]]])
  BY DEF RevertPayment
<1>3. PICK row : row = [session[s] EXCEPT !.status = "completed"]
  OBVIOUS
<1>4. row \in SessionRow /\ row.status = "completed"
  <2>1. session[s] \in SessionRow
    BY <1>1 DEF RowsTyped
  <2>. QED BY <1>3, <2>1 DEF SessionRow, SessionStatus
<1>5. PICK D : D = Active(Agenda, s) \cup back
  OBVIOUS
<1>6. PICK a : a = Marked(s, row, D, "completed")
  OBVIOUS
<1>7. Write(a)
  <2>1. a = [session |-> [session EXCEPT ![s].status = "completed"],
             detail |-> [d \in Detail |-> IF d \in Active(Agenda, s) \cup back
                           THEN [detail[d] EXCEPT !.status = "completed"] ELSE detail[d]]]
    BY <1>3, <1>5, <1>6 DEF Marked
  <2>. QED BY <1>2, <2>1
<1>8. D \subseteq Of(Agenda, s) /\ "completed" \in DetailStatus
  BY <1>2, <1>5, ActiveIsOf, Statuses
<1>9. /\ Edits(a, s) /\ a.session[s] = row
      /\ \A d \in Detail : detail[d] = Absent => a.detail[d] = Absent
      /\ \A d \in Of(Agenda, s) :
           /\ a.detail[d] # Absent /\ a.detail[d].worker = detail[d].worker
           /\ a.detail[d].status = IF d \in D THEN "completed" ELSE detail[d].status
  <2>1. MarkedAs(a, s, row, D, "completed")
    BY <1>1, <1>4, <1>6, <1>8, MarkedEdits
  <2>. QED BY <2>1 DEF MarkedAs
<1>10. Settles(a, s) /\ session'[s].status = "completed"
  BY <1>4, <1>7, <1>9, SettlesPlain
<1>11. charge'[s] = "none" /\ \A t \in Session : t # s => charge'[t] = charge[t]
  BY <1>1 DEF ChargeTyped
<1>12. ChargeKept(s) /\ ChargeTyped' /\ ClockTyped'
  BY <1>1, <1>11 DEF ChargeKept, ChargeTyped, ClockTyped
<1>13. StatusKept(s)
  <2>1. CASE Active(Agenda, s) = {}
    BY <1>1, <1>11, <2>1 DEF StatusKept
  <2>2. CASE Active(Agenda, s) # {}
    <3>. SUFFICES ASSUME AllAssigned(s) PROVE InStep(Agenda', s)
      BY DEF StatusKept
    <3>1. Of(a, s) = Of(Agenda, s)
      BY <1>9, OfAgenda DEF Of
    <3>2. \A d \in Of(Agenda, s) : d \notin D => detail[d].status = "cancelled"
      BY <1>5 DEF Active, Agenda
    <3>3. \A d \in Active(a, s) : a.detail[d].status = "completed" /\ a.detail[d].worker # Nobody
      BY <1>9, <3>1, <3>2 DEF Active, AllAssigned
    <3>4. PICK d \in Of(Agenda, s) : d \in D
      BY <1>5, <1>8, <2>2
    <3>5. d \in Active(a, s)
      BY <1>9, <3>1, <3>4 DEF Active
    <3>6. Derived(a, s) = "completed" /\ SameServices(Agenda', a, s)
      BY <1>10, <3>3, <3>5, DerivedOfOneStatus DEF Settles
    <3>7. Derived(Agenda', s) = "completed"
      BY <3>6, SameServicesSameStatus
    <3>. QED BY <1>10, <3>7 DEF InStep, Agenda
  <2>. QED BY <2>1, <2>2
<1>. QED BY <1>10, <1>11, <1>12, <1>13 DEF Operated, Settles

\* The nightly cancellation: the appointments that expired and their services,
\* and nothing else.
Nightly ==
  /\ RowsTyped'
  /\ \A s \in Session : IF s \in Expired THEN session'[s] # Absent /\ session'[s].status = "cancelled"
                        ELSE session'[s] = session[s]
  /\ \A d \in Detail :
       IF SessionOf[d] \in Expired /\ detail[d] # Absent
       THEN /\ detail'[d] # Absent /\ detail'[d].status = "cancelled"
            /\ detail'[d].start = detail[d].start
       ELSE detail'[d] = detail[d]

LEMMA ExpiredIs ==
  ASSUME RowsTyped, CancelExpiredScheduledSessions
  PROVE  Nightly /\ UNCHANGED <<now, charge, changes>>
<1>1. PICK a : a = [session |-> [s \in Session |-> IF s \in Expired
                      THEN [session[s] EXCEPT !.status = "cancelled"] ELSE session[s]],
                    detail |-> [d \in Detail |-> IF detail[d] # Absent /\ SessionOf[d] \in Expired
                      THEN [detail[d] EXCEPT !.status = "cancelled"] ELSE detail[d]]]
  OBVIOUS
<1>2. Write(a) /\ UNCHANGED <<now, charge, changes>>
  BY <1>1 DEF CancelExpiredScheduledSessions
<1>3. /\ a.session = [s \in Session |-> a.session[s]]
      /\ a.detail = [d \in Detail |-> a.detail[d]]
      /\ \A s \in Session : a.session[s] =
           IF s \in Expired THEN [session[s] EXCEPT !.status = "cancelled"] ELSE session[s]
      /\ \A d \in Detail : a.detail[d] =
           IF detail[d] # Absent /\ SessionOf[d] \in Expired
           THEN [detail[d] EXCEPT !.status = "cancelled"] ELSE detail[d]
  BY <1>1
<1>4. ASSUME NEW s \in Expired PROVE a.session[s] \in SessionRow /\ a.session[s].status = "cancelled"
  <2>1. session[s] \in SessionRow /\ s \in Session
    BY DEF Expired, RowsTyped
  <2>. QED BY <1>3, <2>1 DEF SessionRow, SessionStatus
<1>5. ASSUME NEW d \in Detail, detail[d] # Absent, SessionOf[d] \in Expired
      PROVE  /\ a.detail[d] \in DetailRow /\ a.detail[d].status = "cancelled"
             /\ a.detail[d].start = detail[d].start
  <2>1. detail[d] \in DetailRow
    BY <1>5 DEF RowsTyped
  <2>2. a.detail[d] = [detail[d] EXCEPT !.status = "cancelled"]
    BY <1>3, <1>5
  <2>. QED BY <2>1, <2>2 DEF DetailRow, DetailStatus
<1>6. DetailRow \subseteq LooseRow
  BY DEF DetailRow, LooseRow
<1>7. Loose(a)
  <2>1. \A s \in Session : a.session[s] \in SessionRow \cup {Absent}
    BY <1>3, <1>4 DEF RowsTyped
  <2>2. \A d \in Detail : a.detail[d] \in LooseRow \cup {Absent}
    BY <1>3, <1>5, <1>6 DEF RowsTyped
  <2>3. a.session \in [Session -> SessionRow \cup {Absent}]
        /\ a.detail \in [Detail -> LooseRow \cup {Absent}]
    BY <1>3, <2>1, <2>2
  <2>4. \A d \in Detail : a.detail[d] # Absent => a.session[SessionOf[d]] # Absent
    BY <1>3, <1>4, RowIsNotAbsent, AppointmentsAssumption DEF RowsTyped
  <2>. QED BY <2>3, <2>4 DEF Loose
<1>8. RowsTyped' /\ session' = a.session /\ detail' = a.detail
  BY <1>2, <1>7, WrittenIsTyped
<1>. QED BY <1>2, <1>3, <1>4, <1>5, <1>8, RowIsNotAbsent DEF Nightly

LEMMA NightlyKeepsInv ==
  ASSUME AppointmentsInv, Nightly, UNCHANGED <<now, charge, changes>>
  PROVE  AppointmentsInv'
<1>1. TypeOK'
  BY TypeOKIs DEF Nightly, AppointmentsInv, TypeOK, RowsTyped, ClockTyped, ChargeTyped
<1>2. ASSUME NEW s \in Session, charge[s] # "none" PROVE s \notin Expired
  BY <1>2 DEF AppointmentsInv, ChargedStaysPaid, Expired
<1>3. ASSUME NEW s \in Session, charge[s] # "none"
      PROVE  session'[s] = session[s] /\ \A d \in Detail : SessionOf[d] = s => detail'[d] = detail[d]
  BY <1>2, <1>3 DEF Nightly
<1>4. ChargedStaysPaid'
  BY <1>3 DEF ChargedStaysPaid, AppointmentsInv
<1>5. ChargedIsSealed'
  BY <1>3, AppointmentsAssumption DEF ChargedIsSealed, AppointmentsInv
<1>6. ChargedHasWorker'
  <2>. SUFFICES ASSUME NEW s \in Session, charge[s] # "none"
                PROVE  \E d \in Of(Agenda', s) : detail'[d].worker # Nobody
                         /\ detail'[d].status \in {"paid", "cancelled"}
    BY DEF ChargedHasWorker
  <2>1. PICK d \in Of(Agenda, s) :
          detail[d].worker # Nobody /\ detail[d].status \in {"paid", "cancelled"}
    BY DEF AppointmentsInv, ChargedHasWorker
  <2>. QED BY <1>3, <2>1, OfAgenda
<1>. QED BY <1>1, <1>4, <1>5, <1>6 DEF AppointmentsInv

-----------------------------------------------------------------------------
(* Every step *)

\* An operation on one appointment, the night, or the clock.
LEMMA EveryStep ==
  ASSUME AppointmentsInv, Next
  PROVE  \/ \E s \in Session : Operated(s)
         \/ Nightly /\ UNCHANGED <<now, charge, changes>>
         \/ Tick
<1>1. \A d \in Detail : SessionOf[d] \in Session
  BY AppointmentsAssumption
<1>2. ASSUME NEW d \in Detail, CreateSessionWithDetail(SessionOf[d], d) \/ RemoveExtraService(d)
                               \/ AddExtraServices(SessionOf[d], d) \/ ChangeDetailService(d)
      PROVE  Operated(SessionOf[d])
  BY <1>1, <1>2, CreateOperates, AddExtraOperates, RemoveExtraOperates, ChangeServiceOperates
<1>3. ASSUME NEW d \in Detail, \/ \E w \in Worker : AssignWorker(d, w)
                               \/ \E next \in Settable, role \in {"adm", "wrk"} :
                                    UpdateDetailStatus(d, next, role)
      PROVE  Operated(SessionOf[d])
  BY <1>1, <1>3, AssignOperates, UpdateDetailOperates
<1>4. ASSUME NEW s \in Session, \/ \E next \in Settable : UpdateSessionStatus(s, next)
                                \/ CancelSession(s) \/ RescheduleSession(s) \/ UpdateSessionDates(s)
      PROVE  Operated(s)
  BY <1>4, UpdateSessionOperates, CancelOperates, RescheduleOperates, DatesOperate
<1>5. ASSUME NEW s \in Session, \/ \E pending \in BOOLEAN : RegisterSessionPayment(s, pending)
                                \/ MarkPaymentCollected(s) \/ RevertPayment(s) \/ Rate(s)
      PROVE  Operated(s)
  BY <1>5, RegisterOperates, CollectOperates, RevertOperates, RateOperates
<1>6. ASSUME CancelExpiredScheduledSessions PROVE Nightly /\ UNCHANGED <<now, charge, changes>>
  BY <1>6, ExpiredIs, TypeOKIs DEF AppointmentsInv
<1>. QED BY <1>1, <1>2, <1>3, <1>4, <1>5, <1>6 DEF Next

LEMMA InitialAppointments ==
  ASSUME Init
  PROVE  AppointmentsInv
<1>1. TypeOK
  BY AppointmentsAssumption DEF Init, TypeOK, Slot
<1>. QED BY <1>1 DEF Init, AppointmentsInv, ChargedStaysPaid, ChargedIsSealed, ChargedHasWorker

LEMMA TickKeepsInv ==
  ASSUME AppointmentsInv, Tick
  PROVE  AppointmentsInv'
<1>1. UNCHANGED <<session, detail, charge, changes>> /\ now' \in Slot
  BY AppointmentsAssumption DEF AppointmentsInv, TypeOK, Tick, Slot
<1>2. TypeOK'
  BY <1>1 DEF AppointmentsInv, TypeOK
<1>3. Of(Agenda', 1) = Of(Agenda, 1) /\ \A s : Of(Agenda', s) = Of(Agenda, s)
  BY <1>1, OfAgenda
<1>. QED BY <1>1, <1>2, <1>3 DEF AppointmentsInv, ChargedStaysPaid, ChargedIsSealed, ChargedHasWorker

LEMMA StutterKeepsInv ==
  ASSUME AppointmentsInv, UNCHANGED vars
  PROVE  AppointmentsInv'
<1>1. UNCHANGED <<now, session, detail, charge, changes>>
  BY DEF vars
<1>2. TypeOK' /\ \A s : Of(Agenda', s) = Of(Agenda, s)
  BY <1>1, OfAgenda DEF AppointmentsInv, TypeOK
<1>. QED BY <1>1, <1>2 DEF AppointmentsInv, ChargedStaysPaid, ChargedIsSealed, ChargedHasWorker

LEMMA AppointmentsInvariant == Spec => []AppointmentsInv
<1>1. Init => AppointmentsInv
  BY InitialAppointments
<1>2. AppointmentsInv /\ [Next]_vars => AppointmentsInv'
  BY EveryStep, OperatedKeepsInv, NightlyKeepsInv, TickKeepsInv, StutterKeepsInv
<1>. QED BY <1>1, <1>2, PTL DEF Spec

\* For any appointments, services and hours: what was charged is sealed.  While an
\* appointment is charged (registerSessionPayment) it is paid or rated and locked,
\* and no service of it is started, completed, put back or waiting but an extra
\* that was added after the charge.
THEOREM TheChargeSeals == Spec => []ChargeSeals
<1>1. AppointmentsInv => ChargeSeals
  BY DEF AppointmentsInv, ChargeSeals
<1>. QED BY <1>1, AppointmentsInvariant, PTL
-----------------------------------------------------------------------------
(* The status follows the services, and the others are only pushed *)

LEMMA ExpiredStayInStep ==
  ASSUME RowsTyped, Nightly, NEW s \in Session, InStep(Agenda, s)
  PROVE  InStep(Agenda', s)
<1>1. CASE s \in Expired
  <2>1. session'[s].status = "cancelled"
    BY <1>1 DEF Nightly
  <2>2. \A d \in Of(Agenda', s) : detail'[d].status = "cancelled"
    BY <1>1, OfAgenda DEF Nightly
  <2>3. Active(Agenda', s) = {}
    BY <2>2 DEF Active, Agenda
  <2>4. Derived(Agenda', s) = "cancelled"
    BY <2>3, DerivedWithoutServices
  <2>. QED BY <2>1, <2>4 DEF InStep, Agenda
<1>2. CASE s \notin Expired
  <2>1. session'[s] = session[s] /\ \A d \in Detail : SessionOf[d] = s => detail'[d] = detail[d]
    BY <1>2 DEF Nightly
  <2>2. SameServices(Agenda', Agenda, s)
    BY <2>1 DEF SameServices, Agenda
  <2>3. Derived(Agenda', s) = Derived(Agenda, s) /\ Of(Agenda', s) = Of(Agenda, s)
    BY <2>2, SameServicesSameStatus, SameServicesSameSets
  <2>. QED BY <2>1, <2>3 DEF InStep, Agenda
<1>. QED BY <1>1, <1>2

LEMMA UnchangedStaysInStep ==
  ASSUME UNCHANGED <<session, detail>>, NEW s, InStep(Agenda, s)
  PROVE  InStep(Agenda', s)
<1>1. SameServices(Agenda', Agenda, s)
  BY DEF SameServices, Agenda
<1>2. Derived(Agenda', s) = Derived(Agenda, s) /\ Of(Agenda', s) = Of(Agenda, s)
  BY <1>1, SameServicesSameStatus, SameServicesSameSets
<1>. QED BY <1>2 DEF InStep, Agenda

LEMMA StepKeepsStatus ==
  ASSUME AppointmentsInv, [Next]_vars, NEW s \in Session
  PROVE  StatusKept(s)
<1>1. CASE \E t \in Session : Operated(t)
  <2>1. PICK t \in Session : Operated(t)
    BY <1>1
  <2>2. CASE s = t
    BY <2>1, <2>2 DEF Operated
  <2>3. CASE s # t
    BY <2>1, <2>3, OthersStayInStep, TypeOKIs DEF Operated, AppointmentsInv, StatusKept
  <2>. QED BY <2>2, <2>3
<1>2. CASE Nightly
  BY <1>2, ExpiredStayInStep, TypeOKIs DEF AppointmentsInv, StatusKept
<1>3. CASE Tick \/ UNCHANGED vars
  <2>1. UNCHANGED <<session, detail>>
    BY <1>3 DEF Tick, vars
  <2>. QED BY <2>1, UnchangedStaysInStep DEF StatusKept
<1>. QED BY <1>1, <1>2, <1>3, EveryStep

\* For any appointments: whatever the administrator, a worker, a client or the
\* night does, an appointment whose services all have a worker keeps the status
\* that updateSessionStatusBasedOnDetails gives it, but when an extra is removed
\* and when a charge is undone with no service left to complete.
THEOREM TheStatusFollows == Spec => StatusFollowsServices
<1>1. ASSUME AppointmentsInv, [Next]_vars
      PROVE  \A s \in Session :
               /\ ~InStep(Agenda', s) /\ InStep(Agenda, s)
               /\ \A d \in Of(Agenda, s) : detail[d].worker # Nobody
               => \/ \E d \in Extra : SessionOf[d] = s /\ detail[d] # Absent /\ detail'[d] = Absent
                  \/ Active(Agenda, s) = {} /\ charge[s] # "none" /\ charge'[s] = "none"
  BY <1>1, StepKeepsStatus DEF StatusKept, AllAssigned
<1>. QED BY <1>1, AppointmentsInvariant, PTL DEF Spec, StatusFollowsServices

\* For any appointments: no operation moves a service of another appointment but
\* later, with its length, and only while it waits (rippleWorkerColumn).
THEOREM TheOthersAreOnlyPushed == Spec => OthersOnlyPushed
<1>. DEFINE PushedAround(s) ==
       \A d \in Detail :
         /\ SessionOf[d] # s /\ detail[d] # Absent /\ detail'[d] # Absent
         /\ detail'[d].start # detail[d].start
         => /\ Scheduled(detail[d]) /\ Scheduled(detail'[d])
            /\ detail'[d].start > detail[d].start
            /\ detail'[d].time = detail[d].time
<1>1. ASSUME AppointmentsInv, [Next]_vars
      PROVE  \E s \in Session : PushedAround(s)
  <2>1. CASE \E t \in Session : Operated(t)
    <3>1. PICK t \in Session : Operated(t)
      BY <2>1
    <3>2. PushedAround(t)
      BY <3>1 DEF Operated, OthersPushed, RowPushed, Scheduled
    <3>. QED BY <3>2
  <2>2. CASE Nightly
    <3>1. \A s \in Session : PushedAround(s)
      BY <2>2 DEF Nightly
    <3>. QED BY <3>1, AppointmentsAssumption, ZenonT(30)
  <2>3. CASE Tick \/ UNCHANGED vars
    <3>1. detail' = detail
      BY <2>3 DEF Tick, vars
    <3>. QED BY <3>1, AppointmentsAssumption
  <2>. QED BY <1>1, <2>1, <2>2, <2>3, EveryStep
<1>. QED BY <1>1, AppointmentsInvariant, PTL DEF Spec, OthersOnlyPushed
-----------------------------------------------------------------------------
(* What a pushed column looks like *)

\* The first services of a column: with one of them, all that are before it.
Opening(a, w, D) ==
  /\ D \subseteq Column(a, w)
  /\ \A x \in D, y \in Column(a, w) : Before(a, y, x) => y \in D

LEMMA OpeningEndsWithItsLast ==
  ASSUME NEW a, Loose(a), NEW w, NEW protected, NEW D, Opening(a, w, D), D # {}
  PROVE  \E l \in D :
           /\ D \ {l} = Earlier(a, l) /\ Opening(a, w, D \ {l})
           /\ FreeFrom(a, w, protected)[D] = After(a, l, Cursor(a, l, protected), protected)
<1>. DEFINE l == LastOf(a, D)
<1>1. D \in SUBSET Present(a) /\ Column(a, w) \subseteq Present(a) /\ D \in SUBSET Column(a, w)
  BY ColumnIsPresent DEF Opening
<1>2. l \in D /\ \A x \in D \ {l} : Before(a, x, l)
  BY <1>1, LastIsElement
<1>3. a.detail[l].worker = w
  BY <1>1, <1>2 DEF Column
<1>. HIDE DEF l
<1>4. \A y \in D \ {l} : y \in Earlier(a, l)
  BY <1>1, <1>2, <1>3 DEF Earlier
<1>5. \A y \in Earlier(a, l) : y \in D /\ y # l
  BY <1>1, <1>2, <1>3, BeforeIsAnOrder DEF Earlier, Opening
<1>6. D \ {l} = Earlier(a, l)
  BY <1>4, <1>5
<1>7. Opening(a, w, D \ {l})
  BY <1>1, <1>2, BeforeIsAnOrder DEF Opening
<1>8. FreeFrom(a, w, protected)[D] =
        After(a, l, FreeFrom(a, w, protected)[D \ {l}], protected)
  BY <1>1, FreeFromIs DEF l
<1>9. Cursor(a, l, protected) = FreeFrom(a, w, protected)[D \ {l}]
  BY <1>3, <1>6 DEF Cursor
<1>. QED BY <1>2, <1>6, <1>7, <1>8, <1>9

LEMMA EarlierIsOpening ==
  ASSUME NEW a, Loose(a), NEW w, NEW d \in Column(a, w)
  PROVE  Opening(a, w, Earlier(a, d)) /\ a.detail[d].worker = w
<1>1. Column(a, w) \subseteq Present(a) /\ a.detail[d].worker = w
  BY ColumnIsPresent DEF Column
<1>. QED BY <1>1, BeforeIsAnOrder DEF Opening, Earlier

\* A column is free only after each of the services that are placed.
LEMMA FreeAfterEach ==
  ASSUME NEW a, Loose(a), NEW w, NEW protected, NEW D, Opening(a, w, D), NEW x \in D
  PROVE  FreeFrom(a, w, protected)[D] >= After(a, x, Cursor(a, x, protected), protected)
<1>. DEFINE F == FreeFrom(a, w, protected)
            C == Column(a, w)
            Good == {T \in SUBSET C : Opening(a, w, T) /\ x \in T =>
                       F[T] >= After(a, x, Cursor(a, x, protected), protected)}
<1>1. IsFiniteSet(C) /\ D \in SUBSET C /\ C \subseteq Present(a) /\ F \in [SUBSET C -> Nat]
  BY ColumnIsPresent, FreeFromIs DEF Opening
<1>2. After(a, x, Cursor(a, x, protected), protected) \in Nat
  BY <1>1, CursorIsNat, AfterIsLater
<1>3. ASSUME NEW T \in SUBSET C, \A y \in T : T \ {y} \in Good PROVE T \in Good
  <2>. SUFFICES ASSUME Opening(a, w, T), x \in T
                PROVE  F[T] >= After(a, x, Cursor(a, x, protected), protected)
    OBVIOUS
  <2>0. T # {}
    OBVIOUS
  <2>1. PICK l \in T : /\ T \ {l} = Earlier(a, l) /\ Opening(a, w, T \ {l})
                      /\ F[T] = After(a, l, Cursor(a, l, protected), protected)
    <3>. HIDE DEF C, Good
    <3>. QED BY <2>0, OpeningEndsWithItsLast
  <2>2. CASE l = x
    BY <1>2, <2>1, <2>2
  <2>3. CASE l # x
    <3>1. F[T \ {l}] >= After(a, x, Cursor(a, x, protected), protected)
      BY <1>3, <2>1, <2>3
    <3>2. l \in C /\ T \ {l} \in SUBSET C
      BY <2>1
    <3>3. a.detail[l].worker = w
      BY <3>2 DEF Column
    <3>4. Cursor(a, l, protected) = F[T \ {l}]
      BY <2>1, <3>3 DEF Cursor
    <3>5. F[T \ {l}] \in Nat /\ l \in Present(a)
      BY <1>1, <3>2
    <3>6. After(a, l, Cursor(a, l, protected), protected) \in Nat
          /\ After(a, l, Cursor(a, l, protected), protected) >= Cursor(a, l, protected)
      BY <3>4, <3>5, AfterIsLater
    <3>. HIDE DEF F
    <3>. QED BY <1>2, <2>1, <3>1, <3>4, <3>5, <3>6
  <2>. QED BY <2>2, <2>3
<1>4. Good \in SUBSET (SUBSET C)
  OBVIOUS
<1>5. Good = SUBSET C
  <2>. HIDE DEF Good, C
  <2>. QED BY <1>1, <1>3, <1>4, FiniteSteps
<1>. QED BY <1>1, <1>5

\* In a column that was pushed, what is to come starts when all that is before it
\* has ended.
LEMMA PushedColumnIsApart ==
  ASSUME NEW a, Loose(a), NEW W, NEW protected, NEW w \in W,
         NEW x \in Column(a, w), NEW y \in Column(a, w), Before(a, x, y),
         y \notin protected, a.detail[y].status = "scheduled"
  PROVE  RippleAll(a, W, protected).detail[x].end <= RippleAll(a, W, protected).detail[y].start
<1>. DEFINE F == FreeFrom(a, w, protected)
<1>1. /\ x \in Present(a) /\ y \in Present(a) /\ x \in Detail /\ y \in Detail
      /\ a.detail[x].worker = w /\ a.detail[y].worker = w
  BY ColumnIsPresent DEF Column
<1>2. x \in Earlier(a, y) /\ Opening(a, w, Earlier(a, y)) /\ Cursor(a, y, protected) = F[Earlier(a, y)]
  BY <1>1, EarlierIsOpening DEF Earlier, Cursor
<1>3. PICK after : after = After(a, x, Cursor(a, x, protected), protected)
  OBVIOUS
<1>4. PICK cx : cx = Cursor(a, x, protected)
  OBVIOUS
<1>5. PICK cy : cy = Cursor(a, y, protected)
  OBVIOUS
<1>6. after \in Nat /\ cx \in Nat /\ cy \in Nat /\ cy >= after
  BY <1>1, <1>2, <1>3, <1>4, <1>5, CursorIsNat, AfterIsLater, FreeAfterEach
<1>7. \A z \in {x, y} : z \in Moving(a, W, protected) <=> Pushed(a, z, Cursor(a, z, protected), protected)
  BY <1>1 DEF Moving, Column
<1>8. RippleAll(a, W, protected).detail[x].end <= after
  <2>1. LengthOf(a.detail[x]) \in Nat /\ a.detail[x].end \in Int
    BY <1>1, LooseRows
  <2>2. CASE x \in Moving(a, W, protected)
    <3>1. RippleAll(a, W, protected).detail[x] = Placed(a.detail[x], cx)
      BY <1>1, <1>4, <2>2, RippleRows
    <3>2. RowPushed(Placed(a.detail[x], cx), a.detail[x]) /\ Placed(a.detail[x], cx).start = cx
      BY <1>1, <1>4, <2>2, <3>1, RippleRows
    <3>3. Placed(a.detail[x], cx).end = cx + LengthOf(a.detail[x])
      BY <3>2 DEF RowPushed
    <3>4. after = cx + LengthOf(a.detail[x])
      BY <1>3, <1>4, <1>7, <2>2 DEF After
    <3>. QED BY <1>6, <2>1, <3>1, <3>3, <3>4
  <2>3. CASE x \notin Moving(a, W, protected)
    <3>1. RippleAll(a, W, protected).detail[x] = a.detail[x]
      BY <1>1, <2>3, RippleRows
    <3>2. after = LargerOf(cx, a.detail[x].end)
      BY <1>3, <1>4, <1>7, <2>3 DEF After
    <3>. QED BY <1>6, <2>1, <3>1, <3>2 DEF LargerOf
  <2>. QED BY <2>2, <2>3
<1>9. RippleAll(a, W, protected).detail[y].start >= cy
  <2>1. CASE y \in Moving(a, W, protected)
    BY <1>1, <1>5, <1>6, <2>1, RippleRows
  <2>2. CASE y \notin Moving(a, W, protected)
    <3>1. RippleAll(a, W, protected).detail[y] = a.detail[y] /\ a.detail[y].start \in Nat
      BY <1>1, <2>2, RippleRows, LooseRows
    <3>2. ~(a.detail[y].start < cy)
      BY <1>5, <1>7, <2>2 DEF Pushed, Displaced
    <3>. QED BY <1>6, <3>1, <3>2
  <2>. QED BY <2>1, <2>2
<1>10. RippleAll(a, W, protected).detail[x].end \in Int
       /\ RippleAll(a, W, protected).detail[y].start \in Int
  <2>1. \A d \in Present(a) : d \in Present(RippleAll(a, W, protected))
    BY RippleIs, RowIsNotAbsent DEF Rippled, RowPushed, Present
  <2>. QED BY <1>1, <2>1, RippleIs, LooseRows
<1>. QED BY <1>6, <1>8, <1>9, <1>10

\* Two rows of a column that meet.
Meet(q, r) == q.start < r.end /\ r.start < q.end

\* The services before d have no overlap, and what is to come takes time.
FreeBefore(a, d) ==
  /\ \A x \in Earlier(a, d) : a.detail[x].status = "scheduled" => a.detail[x].start < a.detail[x].end
  /\ \A x, y \in Earlier(a, d) : x # y => ~Meet(a.detail[x], a.detail[y])

LEMMA NotPushedAfter ==
  ASSUME NEW a, Loose(a), NEW w, NEW d \in Column(a, w), FreeBefore(a, d), NEW protected,
         NEW x \in Earlier(a, d), NEW cursor \in Nat,
         cursor = 0 \/ \E y \in Earlier(a, x) : cursor <= a.detail[y].end
  PROVE  ~Pushed(a, x, cursor, protected)
<1>. SUFFICES ASSUME Pushed(a, x, cursor, protected) PROVE FALSE
  OBVIOUS
<1>1. x \in Present(a) /\ x \in Column(a, w) /\ a.detail[x].worker = w /\ a.detail[d].worker = w
      /\ d \in Present(a) /\ Before(a, x, d)
  BY ColumnIsPresent DEF Column, Earlier
<1>2. a.detail[x].status = "scheduled" /\ a.detail[x].start < cursor /\ a.detail[x].start \in Nat
  BY <1>1, LooseRows DEF Pushed, Displaced
<1>3. PICK y \in Earlier(a, x) : cursor <= a.detail[y].end
  BY <1>2
<1>4. y \in Present(a) /\ Before(a, y, x) /\ y \in Column(a, w)
  BY <1>1, <1>3, ColumnIsPresent DEF Earlier
<1>5. y # x /\ y \in Earlier(a, d) /\ a.detail[y].start <= a.detail[x].start
  BY <1>1, <1>4, BeforeIsAnOrder DEF Earlier
<1>6. a.detail[x].start < a.detail[x].end /\ ~Meet(a.detail[x], a.detail[y])
  BY <1>2, <1>5 DEF FreeBefore
<1>7. /\ a.detail[x].end \in Int /\ a.detail[y].end \in Int /\ a.detail[y].start \in Nat
  BY <1>1, <1>4, LooseRows
<1>. QED BY <1>2, <1>3, <1>5, <1>6, <1>7 DEF Meet

\* Nothing is pushed where the services had no overlap.
LEMMA NothingIsPushedBefore ==
  ASSUME NEW a, Loose(a), NEW w, NEW d \in Column(a, w), FreeBefore(a, d), NEW protected
  PROVE  \A x \in Earlier(a, d) : ~Pushed(a, x, Cursor(a, x, protected), protected)
<1>. DEFINE F == FreeFrom(a, w, protected)
            E == Earlier(a, d)
            Bounded(T) == F[T] = 0 \/ \E y \in T : F[T] <= a.detail[y].end
            Good == {T \in SUBSET E : Opening(a, w, T) => Bounded(T)}
<1>1. /\ E \subseteq Column(a, w) /\ IsFiniteSet(E) /\ Column(a, w) \subseteq Present(a)
      /\ F \in [SUBSET Column(a, w) -> Nat] /\ F[{}] = 0
  <2>1. Column(a, w) \subseteq Present(a)
    BY ColumnIsPresent
  <2>2. E \subseteq Column(a, w)
    BY EarlierIsOpening DEF Opening
  <2>3. F \in [SUBSET Column(a, w) -> Nat] /\ F[{}] = 0
    BY FreeFromIs
  <2>4. E \in SUBSET Detail
    BY <2>1, <2>2 DEF Present
  <2>5. IsFiniteSet(E)
    BY <2>4, FiniteDetails
  <2>. QED BY <2>1, <2>2, <2>3, <2>5
<1>2. ASSUME NEW T \in SUBSET E, \A y \in T : T \ {y} \in Good PROVE T \in Good
  <2>. SUFFICES ASSUME Opening(a, w, T) PROVE Bounded(T)
    OBVIOUS
  <2>1. CASE T = {}
    BY <1>1, <2>1
  <2>2. CASE T # {}
    <3>1. PICK l \in T : /\ T \ {l} = Earlier(a, l) /\ Opening(a, w, T \ {l})
                        /\ F[T] = After(a, l, Cursor(a, l, protected), protected)
      <4>. HIDE DEF E, Good, Bounded
      <4>. QED BY <2>2, OpeningEndsWithItsLast
    <3>2. PICK x : x = l
      OBVIOUS
    <3>3. x \in E /\ x \in Column(a, w) /\ T \ {x} \in SUBSET Column(a, w) /\ x \in Present(a)
      BY <1>1, <3>1, <3>2
    <3>4. a.detail[x].worker = w
      BY <3>3 DEF Column
    <3>5. PICK cursor : cursor = F[T \ {x}]
      OBVIOUS
    <3>6. Cursor(a, x, protected) = cursor /\ cursor \in Nat
      BY <1>1, <3>1, <3>2, <3>3, <3>4, <3>5 DEF Cursor
    <3>7. Bounded(T \ {x})
      BY <1>2, <3>1, <3>2
    <3>8. cursor = 0 \/ \E y \in Earlier(a, x) : cursor <= a.detail[y].end
      BY <3>1, <3>2, <3>5, <3>7
    <3>9. ~Pushed(a, x, cursor, protected)
      BY <3>3, <3>6, <3>8, NotPushedAfter
    <3>10. F[T] = LargerOf(cursor, a.detail[x].end)
      BY <3>1, <3>2, <3>6, <3>9 DEF After
    <3>11. a.detail[x].end \in Int
      BY <3>3, LooseRows
    <3>12. F[T] = cursor \/ F[T] = a.detail[x].end
      BY <3>10 DEF LargerOf
    <3>13. CASE F[T] = a.detail[x].end
      BY <3>1, <3>2, <3>11, <3>13
    <3>14. CASE F[T] = cursor
      BY <3>1, <3>2, <3>5, <3>7, <3>14
    <3>. QED BY <3>12, <3>13, <3>14
  <2>. QED BY <2>1, <2>2
<1>3. Good = SUBSET E
  <2>1. Good \in SUBSET (SUBSET E)
    OBVIOUS
  <2>. HIDE DEF Good, E
  <2>. QED BY <1>1, <1>2, <2>1, FiniteSteps
<1>. SUFFICES ASSUME NEW x \in E PROVE ~Pushed(a, x, Cursor(a, x, protected), protected)
  OBVIOUS
<1>4. x \in Column(a, w) /\ x \in Present(a)
  BY <1>1
<1>5. Opening(a, w, Earlier(a, x)) /\ a.detail[x].worker = w
  BY <1>4, EarlierIsOpening
<1>6. Earlier(a, x) \subseteq E
  BY <1>4, EarlierIsOpening DEF Opening, Earlier
<1>7. Bounded(Earlier(a, x))
  BY <1>3, <1>5, <1>6
<1>8. Cursor(a, x, protected) = F[Earlier(a, x)] /\ Cursor(a, x, protected) \in Nat
  BY <1>4, <1>5, CursorIsNat DEF Cursor
<1>. HIDE DEF F, E
<1>. QED BY <1>7, <1>8, NotPushedAfter DEF E
-----------------------------------------------------------------------------
(* What is to come stays apart *)

Tidy ==
  /\ \A x, y \in Detail : x < y => ~Overlapping(detail, x, y, DetailStatus \ {"cancelled"})
  /\ Measured(detail)
Crossed ==
  \E x, y \in Detail :
    x < y /\ SessionOf[x] # SessionOf[y] /\ Overlapping(detail', x, y, {"scheduled"})

LEMMA RowsOfDay ==
  ASSUME RowsTyped, NEW d \in Detail, detail[d] # Absent
  PROVE  /\ detail[d].start \in Nat /\ detail[d].end \in Nat /\ detail[d].time \in Nat \ {0}
         /\ detail[d].status \in DetailStatus /\ detail[d].worker \in Worker \cup {Nobody}
BY DEF RowsTyped, DetailRow

LEMMA TidyIs ==
  ASSUME RowsTyped, Tidy, NEW x \in Detail, NEW y \in Detail, x # y,
         detail[x] # Absent, detail[y] # Absent,
         detail[x].status # "cancelled", detail[y].status # "cancelled"
  PROVE  ~Overlap(detail[x], detail[y])
<1>1. x < y \/ y < x
  BY AppointmentsAssumption
<1>2. detail[x].status \in DetailStatus \ {"cancelled"} /\ detail[y].status \in DetailStatus \ {"cancelled"}
  BY RowsOfDay
<1>3. x < y => ~Overlapping(detail, x, y, DetailStatus \ {"cancelled"})
  BY DEF Tidy
<1>4. y < x => ~Overlapping(detail, y, x, DetailStatus \ {"cancelled"})
  BY DEF Tidy
<1>. QED BY <1>1, <1>2, <1>3, <1>4 DEF Overlapping, Overlap

LEMMA ScheduledTakesTime ==
  ASSUME RowsTyped, Tidy, NEW d \in Detail, Scheduled(detail[d])
  PROVE  detail[d].end = detail[d].start + detail[d].time /\ detail[d].start < detail[d].end
<1>1. detail[d].end = detail[d].start + detail[d].time
  BY DEF Tidy, Measured
<1>. QED BY <1>1, RowsOfDay DEF Scheduled

\* What is to come was there, or meets nothing of another appointment.
LEMMA ApartUnlessNew ==
  ASSUME RowsTyped, Tidy,
         \A x, y \in Detail : x # y /\ Scheduled(detail'[x]) /\ Scheduled(detail'[y])
           /\ SessionOf[x] # SessionOf[y] /\ Overlap(detail'[x], detail'[y])
           => detail'[x] = detail[x] /\ detail'[y] = detail[y]
  PROVE  ~Crossed
<1>. SUFFICES ASSUME Crossed PROVE FALSE
  OBVIOUS
<1>1. PICK x \in Detail, y \in Detail :
        x < y /\ SessionOf[x] # SessionOf[y] /\ Overlapping(detail', x, y, {"scheduled"})
  BY DEF Crossed
<1>2. Scheduled(detail'[x]) /\ Scheduled(detail'[y]) /\ Overlap(detail'[x], detail'[y]) /\ x # y
  BY <1>1 DEF Overlapping, Scheduled
<1>3. detail'[x] = detail[x] /\ detail'[y] = detail[y]
  BY <1>1, <1>2
<1>4. detail[x].status # "cancelled" /\ detail[y].status # "cancelled"
      /\ detail[x] # Absent /\ detail[y] # Absent
  BY <1>2, <1>3 DEF Scheduled
<1>. QED BY <1>2, <1>3, <1>4, TidyIs

\* Nothing new is to come.
LEMMA ApartWhenKept ==
  ASSUME RowsTyped, Tidy, \A d \in Detail : Scheduled(detail'[d]) => detail'[d] = detail[d]
  PROVE  ~Crossed
BY ApartUnlessNew

\* One service is new, and meets nothing that is to come.
LEMMA ApartWithOneNew ==
  ASSUME RowsTyped, Tidy, NEW d \in Detail,
         \A e \in Detail : e # d /\ Scheduled(detail'[e]) => detail'[e] = detail[e],
         \A e \in Detail : /\ e # d /\ SessionOf[e] # SessionOf[d]
                           /\ Scheduled(detail'[d]) /\ Scheduled(detail[e])
                           => ~Overlap(detail'[d], detail[e])
  PROVE  ~Crossed
<1>1. ASSUME NEW x \in Detail, NEW y \in Detail, x # y, Scheduled(detail'[x]), Scheduled(detail'[y]),
             SessionOf[x] # SessionOf[y], Overlap(detail'[x], detail'[y])
      PROVE  detail'[x] = detail[x] /\ detail'[y] = detail[y]
  <2>1. Overlap(detail'[y], detail'[x])
    BY <1>1 DEF Overlap
  <2>2. x # d /\ y # d
    BY <1>1, <2>1
  <2>. QED BY <1>1, <2>2
<1>. QED BY <1>1, ApartUnlessNew

\* What is pushed meets nothing in its column.
LEMMA PushedIsApart ==
  ASSUME NEW a, Loose(a), NEW W, NEW protected, NEW b, b = RippleAll(a, W, protected),
         NEW x \in Detail, NEW y \in Detail, x # y, Scheduled(b.detail[x]), Scheduled(b.detail[y]),
         x \notin protected, y \notin protected, Overlap(b.detail[x], b.detail[y])
  PROVE  /\ b.detail[x] = a.detail[x] /\ b.detail[y] = a.detail[y]
<1>1. /\ \A d \in {x, y} : /\ d \in Present(a) /\ a.detail[d].status = "scheduled"
                           /\ a.detail[d].worker = b.detail[d].worker
      /\ \A d \in {x, y} : d \in Present(b)
  <2>1. \A d \in {x, y} : b.detail[d] = a.detail[d] \/ RowPushed(b.detail[d], a.detail[d])
    BY RippleIs DEF Rippled
  <2>. QED BY <2>1, RowIsNotAbsent DEF Scheduled, RowPushed, Present
<1>2. PICK w : w = b.detail[x].worker
  OBVIOUS
<1>3. b.detail[y].worker = w /\ b.detail[x].start < b.detail[y].end
      /\ b.detail[y].start < b.detail[x].end
  BY <1>2 DEF Overlap
<1>4. x \in Column(a, w) /\ y \in Column(a, w) /\ a.detail[x].worker = w /\ a.detail[y].worker = w
  BY <1>1, <1>2, <1>3 DEF Column, Present
<1>5. /\ b.detail[x].start \in Int /\ b.detail[x].end \in Int
      /\ b.detail[y].start \in Int /\ b.detail[y].end \in Int
  <2>1. Loose(b)
    BY RippleIs
  <2>. QED BY <1>1, <2>1, LooseRows
<1>6. w \notin W
  <2>. SUFFICES ASSUME w \in W PROVE FALSE
    OBVIOUS
  <2>1. Before(a, x, y) \/ Before(a, y, x)
    BY <1>1, BeforeIsAnOrder
  <2>2. CASE Before(a, x, y)
    <3>1. b.detail[x].end <= b.detail[y].start
      BY <1>1, <1>4, <2>2, PushedColumnIsApart
    <3>. QED BY <1>3, <1>5, <3>1
  <2>3. CASE Before(a, y, x)
    <3>1. b.detail[y].end <= b.detail[x].start
      BY <1>1, <1>4, <2>3, PushedColumnIsApart
    <3>. QED BY <1>3, <1>5, <3>1
  <2>. QED BY <2>1, <2>2, <2>3
<1>7. \A d \in {x, y} : d \notin Moving(a, W, protected)
  BY <1>4, <1>6, MovingIs
<1>. QED BY <1>7, RippleRows

\* The columns are pushed around services that are not to come.
LEMMA ApartWhenPushed ==
  ASSUME RowsTyped, Tidy, NEW a, Loose(a), NEW W, NEW protected,
         detail' = RippleAll(a, W, protected).detail,
         \A d \in Detail : Scheduled(a.detail[d]) => d \notin protected /\ a.detail[d] = detail[d]
  PROVE  ~Crossed
<1>1. PICK b : b = RippleAll(a, W, protected)
  OBVIOUS
<1>2. ASSUME NEW d \in Detail, Scheduled(b.detail[d])
      PROVE  d \notin protected /\ a.detail[d] = detail[d]
  <2>1. b.detail[d] = a.detail[d] \/ RowPushed(b.detail[d], a.detail[d])
    BY <1>1, RippleIs DEF Rippled
  <2>2. Scheduled(a.detail[d])
    BY <1>2, <2>1, RowIsNotAbsent DEF Scheduled, RowPushed
  <2>. QED BY <2>2
<1>3. ASSUME NEW x \in Detail, NEW y \in Detail, x # y, Scheduled(detail'[x]), Scheduled(detail'[y]),
             SessionOf[x] # SessionOf[y], Overlap(detail'[x], detail'[y])
      PROVE  detail'[x] = detail[x] /\ detail'[y] = detail[y]
  <2>1. b.detail[x] = a.detail[x] /\ b.detail[y] = a.detail[y]
    BY <1>1, <1>2, <1>3, PushedIsApart
  <2>. QED BY <1>1, <1>2, <1>3, <2>1
<1>. QED BY <1>3, ApartUnlessNew
-----------------------------------------------------------------------------
(* What each operation does to what is to come *)

LEMMA InsertedApart ==
  ASSUME RowsTyped, Tidy, NEW d \in Detail, NEW s \in Session, s = SessionOf[d],
         NEW st, NEW w, NEW start, NEW time,
         detail' = [detail EXCEPT ![d] = NewRow(st, w, start, time)],
         w # Nobody => ~Clash(Agenda, w, start, time, s)
  PROVE  ~Crossed
<1>1. detail'[d] = NewRow(st, w, start, time) /\ \A e \in Detail : e # d => detail'[e] = detail[e]
  BY DEF RowsTyped
<1>2. /\ detail'[d].worker = w /\ detail'[d].start = start /\ detail'[d].end = start + time
  BY <1>1 DEF NewRow
<1>3. ASSUME NEW e \in Detail, SessionOf[e] # s, Scheduled(detail[e])
      PROVE  ~Overlap(detail'[d], detail[e])
  <2>. SUFFICES ASSUME Overlap(detail'[d], detail[e]) PROVE FALSE
    OBVIOUS
  <2>1. /\ detail[e].worker = w /\ w # Nobody
        /\ start < detail[e].end /\ detail[e].start < start + time
    BY <1>2 DEF Overlap
  <2>2. detail[e].end = detail[e].start + detail[e].time
    BY <1>3, ScheduledTakesTime
  <2>3. Intersects(start, start + time, detail[e])
    BY <2>1, <2>2 DEF Intersects
  <2>4. detail[e] # Absent /\ detail[e].status = "scheduled"
    BY <1>3 DEF Scheduled
  <2>5. Clash(Agenda, w, start, time, s)
    BY <1>3, <2>1, <2>3, <2>4 DEF Clash, Agenda
  <2>. QED BY <2>1, <2>5
<1>. QED BY <1>1, <1>3, ApartWithOneNew

LEMMA SyncKeepsDetail ==
  ASSUME NEW a, NEW s, "detail" \in DOMAIN a
  PROVE  Sync(a, s).detail = a.detail
BY DEF Sync

LEMMA CreateApart ==
  ASSUME RowsTyped, Tidy, NEW d \in Detail, NEW s \in Session, s = SessionOf[d],
         CreateSessionWithDetail(s, d)
  PROVE  ~Crossed
<1>1. PICK w \in Worker \cup {Nobody}, start \in Slot :
        Bookable(s, w, start, Length[d]) /\ InsertSession(s, d, w, start)
  BY DEF CreateSessionWithDetail
<1>2. PICK a : a = [session |-> [session EXCEPT ![s] = NewSession(w, start, ForcedStatus(start, Length[d]))],
                    detail |-> [detail EXCEPT ![d] =
                                  NewRow(ForcedStatus(start, Length[d]), w, start, Length[d])]]
  OBVIOUS
<1>3. Write(Sync(a, s))
  BY <1>1, <1>2 DEF InsertSession
<1>4. "detail" \in DOMAIN a
      /\ a.detail = [detail EXCEPT ![d] = NewRow(ForcedStatus(start, Length[d]), w, start, Length[d])]
  BY <1>2
<1>5. detail' = a.detail
  BY <1>3, <1>4, SyncKeepsDetail DEF Write
<1>6. w # Nobody => ~Clash(Agenda, w, start, Length[d], s)
  BY <1>1 DEF Bookable
<1>7. PICK st : st = ForcedStatus(start, Length[d])
  OBVIOUS
<1>8. detail' = [detail EXCEPT ![d] = NewRow(st, w, start, Length[d])]
  BY <1>4, <1>5, <1>7
<1>. QED BY <1>6, <1>8, InsertedApart

LEMMA AddExtraApart ==
  ASSUME RowsTyped, Tidy, NEW d \in Detail, NEW s \in Session, s = SessionOf[d],
         AddExtraServices(s, d)
  PROVE  ~Crossed
<1>1. PICK w \in Worker, start \in Slot : ExtraFits(s, d, w, start) /\ InsertExtra(s, d, w, start)
  BY DEF AddExtraServices
<1>2. PICK a : a = WithRow(d, NewRow("scheduled", w, start, Length[d]))
  OBVIOUS
<1>3. Write(Sync(a, s))
  BY <1>1, <1>2 DEF InsertExtra, WithRow
<1>4. "detail" \in DOMAIN a
      /\ a.detail = [detail EXCEPT ![d] = NewRow("scheduled", w, start, Length[d])]
  BY <1>2 DEF WithRow, Agenda
<1>5. detail' = a.detail
  BY <1>3, <1>4, SyncKeepsDetail DEF Write
<1>6. ~Clash(Agenda, w, start, Length[d], s)
  BY <1>1 DEF ExtraFits
<1>. QED BY <1>4, <1>5, <1>6, InsertedApart

LEMMA RemoveExtraApart ==
  ASSUME RowsTyped, Tidy, NEW d \in Detail, RemoveExtraService(d)
  PROVE  ~Crossed
<1>1. detail' = [detail EXCEPT ![d] = Absent]
  BY DEF RemoveExtraService, Write, Agenda
<1>2. \A e \in Detail : Scheduled(detail'[e]) => detail'[e] = detail[e]
  BY <1>1 DEF RowsTyped, Scheduled
<1>. QED BY <1>2, ApartWhenKept

\* Some services get a status that is not the one of what is to come.
LEMMA MarkedApart ==
  ASSUME RowsTyped, Tidy, NEW D, NEW s, D \subseteq Of(Agenda, s), NEW st, st # "scheduled",
         detail' = [d \in Detail |-> IF d \in D THEN [detail[d] EXCEPT !.status = st] ELSE detail[d]]
  PROVE  ~Crossed
<1>1. ASSUME NEW d \in D PROVE ~Scheduled(detail'[d])
  <2>1. d \in Detail /\ detail[d] \in DetailRow
    BY OfAgenda DEF RowsTyped
  <2>2. detail'[d] = [detail[d] EXCEPT !.status = st]
    BY <2>1
  <2>3. detail'[d].status = st
    BY <2>1, <2>2 DEF DetailRow
  <2>. QED BY <2>3 DEF Scheduled
<1>2. \A d \in Detail : Scheduled(detail'[d]) => detail'[d] = detail[d]
  BY <1>1
<1>. QED BY <1>2, ApartWhenKept

LEMMA ChargeOrCancelApart ==
  ASSUME RowsTyped, Tidy, NEW s \in Session,
         \/ CancelSession(s) \/ RevertPayment(s)
         \/ \E pending \in BOOLEAN : RegisterSessionPayment(s, pending)
  PROVE  ~Crossed
<1>1. Active(Agenda, s) \subseteq Of(Agenda, s)
  BY DEF Active
<1>2. CASE CancelSession(s)
  <2>1. detail' = [d \in Detail |-> IF d \in Of(Agenda, s)
                     THEN [detail[d] EXCEPT !.status = "cancelled"] ELSE detail[d]]
    BY <1>2 DEF CancelSession, Write
  <2>. QED BY <2>1, MarkedApart
<1>3. CASE RevertPayment(s)
  <2>1. PICK back \in SUBSET (Of(Agenda, s) \ Active(Agenda, s)) :
          detail' = [d \in Detail |-> IF d \in Active(Agenda, s) \cup back
                       THEN [detail[d] EXCEPT !.status = "completed"] ELSE detail[d]]
    BY <1>3 DEF RevertPayment, Write
  <2>. QED BY <1>1, <2>1, MarkedApart
<1>4. CASE \E pending \in BOOLEAN : RegisterSessionPayment(s, pending)
  <2>1. detail' = [d \in Detail |-> IF d \in Active(Agenda, s)
                     THEN [detail[d] EXCEPT !.status = "paid"] ELSE detail[d]]
    BY <1>4 DEF RegisterSessionPayment, MarkPaid, Write
  <2>. QED BY <1>1, <2>1, MarkedApart
<1>. QED BY <1>2, <1>3, <1>4

LEMMA NightApart ==
  ASSUME RowsTyped, Tidy, Nightly
  PROVE  ~Crossed
<1>1. \A d \in Detail : Scheduled(detail'[d]) => detail'[d] = detail[d]
  BY DEF Nightly, Scheduled
<1>. QED BY <1>1, ApartWhenKept

LEMMA UpdateDetailApart ==
  ASSUME RowsTyped, ClockTyped, Tidy, NEW d \in Detail, NEW s \in Session, s = SessionOf[d],
         NEW next \in Settable, next # "scheduled", NEW role, UpdateDetailStatus(d, next, role)
  PROVE  ~Crossed
<1>1. PICK kept, a : kept \in BOOLEAN /\ DetailUpdate(d, s, next, kept, a)
  BY UpdateDetailIs
<1>2. detail[d] \in DetailRow /\ now \in Slot
  BY DEF UpdateDetailStatus, RowsTyped, ClockTyped
<1>3. a.detail[d].status = next /\ Loose(a) /\ DOMAIN a = {"session", "detail"}
  BY <1>1, <1>2, BecomesIs DEF DetailUpdate, Edits
<1>4. \A e \in Detail : Scheduled(a.detail[e]) => e # d /\ a.detail[e] = detail[e]
  BY <1>1, <1>3 DEF DetailUpdate, Scheduled
<1>5. PICK c : c = Sync(a, s)
  OBVIOUS
<1>6. c.detail = a.detail /\ Loose(c)
  <2>1. a.session[s] # Absent
    BY <1>1 DEF DetailUpdate, Edits
  <2>. QED BY <1>3, <1>5, <2>1, SyncIs, SyncKeepsDetail
<1>7. CASE kept
  <2>1. Write(c)
    BY <1>1, <1>5, <1>7 DEF DetailUpdate
  <2>2. detail' = a.detail
    BY <1>6, <2>1 DEF Write
  <2>. QED BY <1>4, <2>2, ApartWhenKept
<1>8. CASE ~kept
  <2>1. Write(RippleAll(c, {detail[d].worker}, {d}))
    BY <1>1, <1>5, <1>8 DEF DetailUpdate
  <2>2. detail' = RippleAll(c, {detail[d].worker}, {d}).detail
    BY <2>1 DEF Write
  <2>. QED BY <1>4, <1>6, <2>2, ApartWhenPushed
<1>. QED BY <1>7, <1>8

LEMMA UpdateSessionApart ==
  ASSUME RowsTyped, ClockTyped, Tidy, NEW s \in Session,
         NEW next \in Settable, next # "scheduled", UpdateSessionStatus(s, next)
  PROVE  ~Crossed
<1>1. PICK kept, a : kept \in BOOLEAN /\ SessionUpdate(s, next, kept, a)
  BY UpdateSessionIs
<1>2. Loose(a) /\ \A d \in Detail : SessionOf[d] # s => a.detail[d] = detail[d]
  BY <1>1 DEF SessionUpdate, Edits
<1>3. ASSUME NEW d \in Detail, Scheduled(a.detail[d])
      PROVE  SessionOf[d] # s
  <2>. SUFFICES ASSUME SessionOf[d] = s PROVE FALSE
    OBVIOUS
  <2>1. a.detail[d] # Absent /\ a.detail[d].status = "scheduled"
    BY <1>3 DEF Scheduled
  <2>2. d \in Of(Agenda, s)
    BY <1>1, <2>1, OfAgenda DEF SessionUpdate
  <2>3. a.detail[d].status \in {"cancelled", next}
    BY <1>1, <2>2 DEF SessionUpdate
  <2>. QED BY <2>1, <2>3
<1>4. \A d \in Detail : Scheduled(a.detail[d]) => d \notin Of(a, s) /\ a.detail[d] = detail[d]
  BY <1>2, <1>3 DEF Of
<1>5. CASE kept
  <2>1. detail' = a.detail
    BY <1>1, <1>5 DEF SessionUpdate, Write
  <2>. QED BY <1>4, <2>1, ApartWhenKept
<1>6. CASE ~kept
  <2>1. detail' = RippleAll(a, WorkersOf(a, s), Of(a, s)).detail
    BY <1>1, <1>6 DEF SessionUpdate, Write
  <2>. QED BY <1>2, <1>4, <2>1, ApartWhenPushed
<1>. QED BY <1>5, <1>6

\* A service that becomes longer or shorter meets nothing that was after it when
\* what follows it is pushed, and nothing before it.
LEMMA ChangedIsApart ==
  ASSUME RowsTyped, Tidy, NEW d \in Detail, Scheduled(detail[d]), NEW w, w = detail[d].worker,
         w # Nobody, NEW a, Loose(a), Scheduled(a.detail[d]),
         a.detail[d].start = detail[d].start, a.detail[d].worker = w,
         \A e \in Detail : e # d => a.detail[e] = detail[e],
         NEW b, b = RippleAll(a, {w}, {d}), NEW y \in Detail, y # d, Scheduled(b.detail[y])
  PROVE  ~Overlap(b.detail[d], b.detail[y])
<1>. SUFFICES ASSUME Overlap(b.detail[d], b.detail[y]) PROVE FALSE
  OBVIOUS
<1>1. b.detail[d] = a.detail[d] /\ (b.detail[y] = a.detail[y] \/ RowPushed(b.detail[y], a.detail[y]))
  BY RippleIs DEF Rippled
<1>2. Scheduled(a.detail[y]) /\ a.detail[y].worker = b.detail[y].worker
  BY <1>1, RowIsNotAbsent DEF Scheduled, RowPushed
<1>3. /\ b.detail[y].worker = w /\ b.detail[d].start < b.detail[y].end
      /\ b.detail[y].start < b.detail[d].end
  BY <1>1 DEF Overlap
<1>4. d \in Column(a, w) /\ y \in Column(a, w) /\ d \in Present(a) /\ y \in Present(a)
  BY <1>2, <1>3 DEF Column, Scheduled, Present
<1>5. d \in Present(b) /\ y \in Present(b) /\ Loose(b)
  BY <1>1, RippleIs DEF Present, Scheduled
<1>6. /\ b.detail[d].start \in Int /\ b.detail[d].end \in Int
      /\ b.detail[y].start \in Int /\ b.detail[y].end \in Int
  BY <1>5, LooseRows
<1>7. CASE Before(a, d, y)
  <2>1. b.detail[d].end <= b.detail[y].start
    BY <1>2, <1>4, <1>7, PushedColumnIsApart DEF Scheduled
  <2>. QED BY <1>3, <1>6, <2>1
<1>8. CASE Before(a, y, d)
  <2>1. ASSUME NEW x \in Earlier(a, d)
        PROVE  /\ x \in Detail /\ x # d /\ a.detail[x] = detail[x] /\ detail[x] # Absent
               /\ detail[x].status # "cancelled" /\ detail[x].worker = w
               /\ a.detail[x].start <= a.detail[d].start
    <3>1. x \in Column(a, w) /\ x \in Present(a) /\ Before(a, x, d)
      BY ColumnIsPresent DEF Earlier
    <3>2. x \in Detail /\ x # d /\ a.detail[x].start <= a.detail[d].start
      BY <1>4, <3>1, BeforeIsAnOrder DEF Present
    <3>. QED BY <3>1, <3>2 DEF Column
  <2>2. FreeBefore(a, d)
    <3>1. ASSUME NEW x \in Earlier(a, d), a.detail[x].status = "scheduled"
          PROVE  a.detail[x].start < a.detail[x].end
      <4>1. x \in Detail /\ Scheduled(detail[x]) /\ a.detail[x] = detail[x]
        BY <2>1, <3>1 DEF Scheduled
      <4>. QED BY <4>1, ScheduledTakesTime
    <3>2. ASSUME NEW x \in Earlier(a, d), NEW z \in Earlier(a, d), x # z
          PROVE  ~Meet(a.detail[x], a.detail[z])
      <4>1. ~Overlap(detail[x], detail[z])
        BY <2>1, <3>2, TidyIs
      <4>. QED BY <2>1, <4>1 DEF Overlap, Meet
    <3>. QED BY <3>1, <3>2 DEF FreeBefore
  <2>3. y \in Earlier(a, d)
    BY <1>4, <1>8 DEF Earlier
  <2>4. ~Pushed(a, y, Cursor(a, y, {d}), {d})
    BY <1>4, <2>2, <2>3, NothingIsPushedBefore
  <2>5. b.detail[y] = a.detail[y] /\ a.detail[y] = detail[y]
    <3>1. y \notin Moving(a, {w}, {d})
      BY <2>4 DEF Moving
    <3>. QED BY <2>1, <2>3, <3>1, RippleRows
  <2>6. ~Overlap(detail[y], detail[d])
    BY <2>1, <2>3, TidyIs DEF Scheduled
  <2>7. detail[y].start <= detail[d].start /\ detail[y].worker = w /\ detail[y] # Absent
    BY <2>1, <2>3
  <2>8. detail[d].start < detail[d].end /\ detail[d] # Absent
    BY ScheduledTakesTime DEF Scheduled
  <2>9. ~(detail[y].start < detail[d].end /\ detail[d].start < detail[y].end)
    BY <2>6, <2>7 DEF Overlap
  <2>10. detail[d].start < detail[y].end
    BY <1>1, <1>3, <2>5
  <2>. QED BY <2>7, <2>8, <2>9, <2>10, RowsOfDay
<1>. QED BY <1>4, <1>7, <1>8, BeforeIsAnOrder

LEMMA ChangeServiceApart ==
  ASSUME RowsTyped, Tidy, NEW d \in Detail, NEW s \in Session, s = SessionOf[d],
         ChangeDetailService(d)
  PROVE  ~Crossed
<1>1. detail[d] # Absent /\ detail[d].worker # Nobody
  BY DEF ChangeDetailService, MayChangeService
<1>1a. PICK time \in Nat \ {0}, kept \in BOOLEAN : \E a : ServiceChanged(d, s, time, kept, a)
  BY ChangeServiceIs
<1>2. PICK a :
        /\ a = WithRow(d, ChangedRow(d, time, kept)) /\ Edits(a, s) /\ a.session = session
        /\ a.detail[d] = ChangedRow(d, time, kept)
        /\ \A e \in Detail : e # d => a.detail[e] = detail[e]
        /\ Write(IF kept THEN a ELSE RippleAll(a, {detail[d].worker}, {d}))
  BY <1>1a DEF ServiceChanged
<1>3. /\ a.detail[d].status = detail[d].status /\ a.detail[d].worker = detail[d].worker
      /\ a.detail[d].start = detail[d].start /\ a.detail[d].end = NewEnd(d, time, kept)
      /\ a.detail[d] # Absent
  BY <1>1, <1>2, ChangedRowIs, RowIsNotAbsent
<1>4. Loose(a) /\ \A e \in Detail : e # d => a.detail[e] = detail[e]
  BY <1>2 DEF Edits
<1>5. CASE kept
  <2>1. detail' = a.detail
    BY <1>2, <1>5 DEF Write
  <2>2. ASSUME NEW e \in Detail, e # d, Scheduled(detail'[d]), Scheduled(detail[e])
        PROVE  ~Overlap(detail'[d], detail[e])
    <3>. SUFFICES ASSUME Overlap(detail'[d], detail[e]) PROVE FALSE
      OBVIOUS
    <3>1. Scheduled(detail[d])
      BY <1>1, <1>3, <2>1, <2>2 DEF Scheduled
    <3>2. ~Overlap(detail[d], detail[e]) /\ detail[d].start < detail[d].end
      BY <2>2, <3>1, TidyIs, ScheduledTakesTime DEF Scheduled
    <3>3. /\ detail[e].worker = detail[d].worker /\ detail[d].start < detail[e].end
          /\ detail[e].start < NewEnd(d, time, kept)
      BY <1>3, <2>1 DEF Overlap
    <3>4. ~(detail[e].start < detail[d].end)
      BY <1>1, <3>2, <3>3 DEF Overlap
    <3>5. detail[e] # Absent /\ detail[e].status = "scheduled"
      BY <2>2 DEF Scheduled
    <3>6. detail[e].start > detail[d].start
      BY <1>1, <3>2, <3>4, <3>5, RowsOfDay
    <3>7. detail[e].start \in NextStartOf(detail[d].worker, detail[d].start, d)
      BY <2>2, <3>3, <3>5, <3>6 DEF NextStartOf, Column, Agenda
    <3>8. NewEnd(d, time, kept) <= detail[e].start /\ NewEnd(d, time, kept) \in Nat
      BY <1>1, <1>5, <3>7, NewEndIsLater
    <3>. QED BY <3>3, <3>5, <3>8, RowsOfDay
  <2>. QED BY <1>4, <2>1, <2>2, ApartWithOneNew
<1>6. CASE ~kept
  <2>1. PICK w : w = detail[d].worker
    OBVIOUS
  <2>2. PICK b : b = RippleAll(a, {w}, {d})
    OBVIOUS
  <2>3. detail' = b.detail
    BY <1>2, <1>6, <2>1, <2>2 DEF Write
  <2>4. CASE ~Scheduled(a.detail[d])
    <3>1. \A e \in Detail : Scheduled(a.detail[e]) => e \notin {d} /\ a.detail[e] = detail[e]
      BY <1>4, <2>4
    <3>. QED BY <1>4, <2>2, <2>3, <3>1, ApartWhenPushed
  <2>5. CASE Scheduled(a.detail[d])
    <3>1. Scheduled(detail[d])
      BY <1>1, <1>3, <2>5 DEF Scheduled
    <3>2. \A y \in Detail : y # d /\ Scheduled(b.detail[y]) => ~Overlap(b.detail[d], b.detail[y])
      BY <1>1, <1>3, <1>4, <2>1, <2>2, <2>5, <3>1, ChangedIsApart
    <3>3. ASSUME NEW x \in Detail, NEW y \in Detail, x # y, Scheduled(b.detail[x]),
                 Scheduled(b.detail[y]), Overlap(b.detail[x], b.detail[y])
          PROVE  b.detail[x] = detail[x] /\ b.detail[y] = detail[y]
      <4>1. Overlap(b.detail[y], b.detail[x])
        BY <3>3 DEF Overlap
      <4>2. x # d /\ y # d
        BY <3>2, <3>3, <4>1
      <4>3. b.detail[x] = a.detail[x] /\ b.detail[y] = a.detail[y]
        BY <1>4, <2>2, <3>3, <4>2, PushedIsApart
      <4>. QED BY <1>4, <4>2, <4>3
    <3>. QED BY <2>3, <3>3, ApartUnlessNew
  <2>. QED BY <2>4, <2>5
<1>. QED BY <1>5, <1>6

LEMMA StepKeepsApart ==
  ASSUME AppointmentsInv, Tidy, [Next]_vars, ~Rearranges
  PROVE  ~Crossed
<1>0. RowsTyped /\ ClockTyped /\ \A d \in Detail : SessionOf[d] \in Session
  BY TypeOKIs, AppointmentsAssumption DEF AppointmentsInv
<1>1. CASE \E d \in Detail : CreateSessionWithDetail(SessionOf[d], d) \/ RemoveExtraService(d)
                             \/ AddExtraServices(SessionOf[d], d) \/ ChangeDetailService(d)
  BY <1>0, <1>1, CreateApart, RemoveExtraApart, AddExtraApart, ChangeServiceApart
<1>2. CASE \E d \in Detail, next \in Settable, role \in {"adm", "wrk"} :
             UpdateDetailStatus(d, next, role)
  <2>1. PICK d \in Detail, next \in Settable, role \in {"adm", "wrk"} :
          UpdateDetailStatus(d, next, role)
    BY <1>2
  <2>2. next # "scheduled"
    <3>. SUFFICES ASSUME next = "scheduled" PROVE FALSE
      OBVIOUS
    <3>1. UpdateDetailStatus(d, "scheduled", role)
      BY <2>1
    <3>2. Rearranges
      BY <3>1 DEF Rearranges
    <3>. QED BY <3>2
  <2>. QED BY <1>0, <2>1, <2>2, UpdateDetailApart
<1>3. CASE \E s \in Session, next \in Settable : UpdateSessionStatus(s, next)
  <2>1. PICK s \in Session, next \in Settable : UpdateSessionStatus(s, next)
    BY <1>3
  <2>2. next # "scheduled"
    BY <2>1 DEF Rearranges
  <2>. QED BY <1>0, <2>1, <2>2, UpdateSessionApart
<1>4. CASE \E s \in Session : \/ CancelSession(s) \/ RevertPayment(s)
                              \/ \E pending \in BOOLEAN : RegisterSessionPayment(s, pending)
  BY <1>0, <1>4, ChargeOrCancelApart
<1>5. CASE \/ \E s \in Session : MarkPaymentCollected(s) \/ Rate(s)
           \/ Tick \/ UNCHANGED vars
  <2>1. detail' = detail
    BY <1>5 DEF MarkPaymentCollected, Rate, Tick, vars
  <2>. QED BY <1>0, <2>1, ApartWhenKept
<1>6. CASE CancelExpiredScheduledSessions
  BY <1>0, <1>6, ExpiredIs, NightApart
<1>7. /\ ~\E d \in Detail, w \in Worker : AssignWorker(d, w)
      /\ ~\E s \in Session : RescheduleSession(s) \/ UpdateSessionDates(s)
  BY DEF Rearranges
<1>. QED BY <1>1, <1>2, <1>3, <1>4, <1>5, <1>6, <1>7 DEF Next

\* For any appointments and hours: in an agenda without overlaps, no creation,
\* extra, other service, late start, early end, charge or nightly cancellation
\* puts two appointments to come of a worker over each other; and no operation
\* moves the services of another appointment but later (rippleWorkerColumn).
THEOREM TheAgendaStaysOrderly == Spec => AgendaStaysOrderly
<1>1. ASSUME AppointmentsInv, [Next]_vars
      PROVE  /\ \E x, y \in Detail :
                  x < y /\ SessionOf[x] # SessionOf[y] /\ Overlapping(detail', x, y, {"scheduled"})
             /\ \A x, y \in Detail :
                  x < y => ~Overlapping(detail, x, y, DetailStatus \ {"cancelled"})
             /\ Measured(detail)
             => Rearranges
  BY <1>1, StepKeepsApart DEF Tidy, Crossed
<1>2. Spec => ScheduledStayApart
  BY <1>1, AppointmentsInvariant, PTL DEF Spec, ScheduledStayApart
<1>. QED BY <1>2, TheOthersAreOnlyPushed DEF AgendaStaysOrderly
-----------------------------------------------------------------------------
(* The screens *)

LEMMA VisibleIs ==
  ASSUME RowsTyped, NEW active, NEW d \in Visible(active)
  PROVE  d \in Rows /\ d \in Detail /\ SessionOf[d] \in Session /\ session[SessionOf[d]] # Absent
         /\ d \in Of(Agenda, SessionOf[d])
BY AppointmentsAssumption, OfAgenda DEF Visible, Rows, RowsTyped

LEMMA ListedIs ==
  ASSUME RowsTyped, NEW active, NEW f, NEW s \in SalonSessions(active, f)
  PROVE  /\ s \in Session /\ session[s] \in SessionRow /\ session[s].date \in Slot
         /\ Asked(f, s) /\ Of(Agenda, s) # {} /\ s \in SessionsOf(Rows)
<1>1. PICK d \in Visible(active) : SessionOf[d] = s
  BY DEF SalonSessions, SessionsOf
<1>2. Asked(f, s)
  BY DEF SalonSessions
<1>3. s \in Session /\ session[s] \in SessionRow
  BY <1>1, VisibleIs DEF RowsTyped
<1>4. session[s].date \in Slot
  BY <1>3 DEF SessionRow
<1>5. Of(Agenda, s) # {} /\ s \in SessionsOf(Rows)
  BY <1>1, VisibleIs DEF SessionsOf
<1>. QED BY <1>2, <1>3, <1>4, <1>5

LEMMA FiltersAre ==
  \A f \in {Everything, Upcoming} :
    /\ f.dates = Slot /\ f.status = {} /\ f.services = {}
    /\ f = Upcoming => f.onlyScheduled
    /\ f = Everything => ~f.onlyScheduled
<1>1. /\ Everything.dates = Slot /\ Everything.status = {} /\ Everything.services = {}
      /\ Everything.onlyScheduled = FALSE
  BY DEF Everything
<1>2. /\ Upcoming.dates = Slot /\ Upcoming.status = {} /\ Upcoming.services = {}
      /\ Upcoming.onlyScheduled = TRUE
  BY DEF Upcoming, Everything
<1>. QED BY <1>1, <1>2

LEMMA TheSalonListsAgree ==
  ASSUME RowsTyped, NEW active
  PROVE  SalonListsAgree(active)
<1>1. ASSUME NEW f PROVE CompanySessions(active, f) = SalonSessions(active, f)
  <2>1. ASSUME NEW s \in CompanySessions(active, f) PROVE s \in SalonSessions(active, f)
    BY DEF CompanySessions, SalonSessions, SessionsOf
  <2>2. ASSUME NEW s \in SalonSessions(active, f) PROVE s \in CompanySessions(active, f)
    <3>1. active # {} /\ \E d \in Visible(active) : SessionOf[d] = s
      BY DEF SalonSessions, SessionsOf
    <3>2. s \in Session /\ session[s] \in SessionRow /\ Asked(f, s)
      BY ListedIs
    <3>. QED BY <3>1, <3>2, RowIsNotAbsent DEF CompanySessions
  <2>. QED BY <2>1, <2>2
<1>2. ASSUME NEW f \in {Everything, Upcoming}, NEW s \in SalonSessions(active, f)
      PROVE  s \in ClientSessions(ClientOf[s], f)
  <2>1. s \in SessionsOf(Rows) /\ Asked(f, s)
    BY <1>2, ListedIs
  <2>2. f.status = {} /\ f.services = {}
    BY FiltersAre
  <2>. QED BY <2>1, <2>2 DEF ClientSessions, Asked
<1>. QED BY <1>1, <1>2 DEF SalonListsAgree

LEMMA TheDebtsAreShown ==
  ASSUME AppointmentsInv, NEW active
  PROVE  DebtsAreShown(active)
<1>1. ASSUME NEW s \in Session PROVE (s \in Debts) <=> charge[s] = "owed"
  <2>1. ASSUME charge[s] = "owed" PROVE s \in Debts
    <3>1. \E d \in Of(Agenda, s) : detail[d].worker # Nobody
      BY <2>1 DEF AppointmentsInv, ChargedHasWorker
    <3>. QED BY <2>1, <3>1 DEF Debts
  <2>. QED BY <2>1 DEF Debts
<1>2. RowsTyped
  BY TypeOKIs DEF AppointmentsInv
<1>3. ASSUME NEW s \in SalonSessions(active, Everything)
      PROVE  /\ ListEntry(active, s).payment.pending = (s \in Debts)
             /\ Card(s).payment = {} \/ ListEntry(active, s).payment.isPaid
             /\ \A r \in Card(s).payment : r.pending = (s \in Debts)
  <2>1. (s \in Debts) = (charge[s] = "owed")
    BY <1>1, <1>2, ListedIs
  <2>2. ListEntry(active, s).payment = PaymentStatus(s)
    BY DEF ListEntry
  <2>3. PaymentStatus(s).isPaid = (charge[s] # "none") /\ PaymentStatus(s).pending = (charge[s] = "owed")
    BY DEF PaymentStatus
  <2>4. Card(s).payment = IF charge[s] = "none" THEN {} ELSE {Receipt(s)}
    BY DEF Card
  <2>5. Receipt(s).pending = (charge[s] = "owed")
    BY DEF Receipt
  <2>. QED BY <2>1, <2>2, <2>3, <2>4, <2>5
<1>. QED BY <1>1, <1>3 DEF DebtsAreShown

LEMMA TheCardsAgree ==
  ASSUME NEW active
  PROVE  CardsAgree(active)
<1>. SUFFICES ASSUME NEW s \in SalonSessions(active, Everything),
                     \A d \in Of(Agenda, s) : detail[d].worker \in active
              PROVE  ListEntry(active, s).figures = Card(s).figures
  BY DEF CardsAgree
<1>1. {d \in Visible(active) : SessionOf[d] = s} = Of(Agenda, s)
  BY OfAgenda DEF Visible, Rows
<1>2. ListEntry(active, s).figures = Figures({d \in Visible(active) : SessionOf[d] = s})
  BY DEF ListEntry
<1>3. Card(s).figures = Figures(Of(Agenda, s))
  BY DEF Card
<1>. QED BY <1>1, <1>2, <1>3

\* An appointment that is to come has services that wait, each with a worker.
LEMMA ScheduledServices ==
  ASSUME RowsTyped, NEW s, Derived(Agenda, s) = "scheduled", NEW d \in Active(Agenda, s)
  PROVE  detail[d].status = "scheduled" /\ detail[d].worker \in Worker /\ d \in Rows /\ SessionOf[d] = s
<1>1. d \in Of(Agenda, s) /\ detail[d].status # "cancelled"
  BY DEF Active, Agenda
<1>2. d \in Detail /\ SessionOf[d] = s /\ detail[d] # Absent
  BY <1>1, OfAgenda
<1>3. /\ With(Agenda, s, {"progress"}) = {} /\ With(Agenda, s, {"completed", "paid"}) = {}
      /\ ~\E e \in Active(Agenda, s) : Agenda.detail[e].worker = Nobody
  BY DerivedIs
<1>4. detail[d].status \notin {"progress", "completed", "paid"} /\ detail[d].worker # Nobody
  BY <1>3 DEF With, Agenda
<1>. QED BY <1>1, <1>2, <1>4, RowsOfDay, Statuses DEF Rows

LEMMA StartedServices ==
  ASSUME NEW s, NEW d \in Of(Agenda, s), detail[d].status = "progress"
  PROVE  Derived(Agenda, s) = "progress"
<1>1. d \in Active(Agenda, s) /\ d \in With(Agenda, s, {"progress"})
  BY DEF Active, With, Agenda
<1>2. d \notin With(Agenda, s, {"paid"}) /\ d \notin With(Agenda, s, {"completed", "paid"})
  BY DEF With, Agenda
<1>3. With(Agenda, s, {"progress"}) # {} /\ Active(Agenda, s) # {}
      /\ With(Agenda, s, {"paid"}) # Active(Agenda, s)
      /\ With(Agenda, s, {"completed", "paid"}) # Active(Agenda, s)
  BY <1>1, <1>2
<1>. QED BY <1>3, DerivedIs

LEMMA CompletedServices ==
  ASSUME NEW s, Of(Agenda, s) # {}, \A d \in Of(Agenda, s) : detail[d].status = "completed"
  PROVE  Derived(Agenda, s) = "completed"
<1>1. Active(Agenda, s) = Of(Agenda, s)
  BY DEF Active, Agenda
<1>2. With(Agenda, s, {"completed", "paid"}) = Active(Agenda, s) /\ With(Agenda, s, {"paid"}) = {}
  BY <1>1 DEF With, Agenda
<1>. QED BY <1>1, <1>2, DerivedIs

LEMMA TheStatusesAgree ==
  ASSUME RowsTyped, NEW active
  PROVE  StatusesAgree(active)
<1>. SUFFICES ASSUME NEW s \in SalonSessions(active, Everything), InStep(Agenda, s)
     PROVE  /\ session[s].status = "scheduled" =>
                 \A d \in Active(Agenda, s) : s \in WorkerSessions(detail[d].worker, Upcoming)
            /\ StatusSummary(s).canComplete => session[s].status \in {"completed", "paid", "rated"}
            /\ \A w \in WorkersOf(Agenda, s) :
                 AssignedOverallStatus(w, s) = "En proceso" => session[s].status \notin {"scheduled", "cancelled"}
  BY DEF StatusesAgree
<1>1. /\ s \in Session /\ session[s] \in SessionRow /\ session[s].date \in Slot /\ Of(Agenda, s) # {}
  BY ListedIs
<1>2. session[s].status \in {"paid", "rated", Derived(Agenda, s)}
  BY <1>1, RowIsNotAbsent DEF InStep, Agenda
<1>3. ASSUME session[s].status = "scheduled", NEW d \in Active(Agenda, s)
      PROVE  s \in WorkerSessions(detail[d].worker, Upcoming)
  <2>1. Derived(Agenda, s) = "scheduled"
    BY <1>2, <1>3
  <2>2. detail[d].status = "scheduled" /\ d \in Rows /\ SessionOf[d] = s
    BY <2>1, ScheduledServices
  <2>3. AskedOfWorker(Upcoming, d)
    BY <1>1, <2>2, FiltersAre DEF AskedOfWorker
  <2>. QED BY <2>2, <2>3 DEF WorkerSessions, Assigned, SessionsOf
<1>4. ASSUME StatusSummary(s).canComplete
      PROVE  session[s].status \in {"completed", "paid", "rated"}
  <2>1. \A d \in Of(Agenda, s) : detail[d].status = "completed"
    BY <1>4 DEF StatusSummary
  <2>. QED BY <1>1, <1>2, <2>1, CompletedServices
<1>5. ASSUME NEW w, AssignedOverallStatus(w, s) = "En proceso"
      PROVE  session[s].status \notin {"scheduled", "cancelled"}
  <2>1. "progress" \in {detail[d].status : d \in {d \in Assigned(w, Everything) : SessionOf[d] = s}}
    BY <1>5 DEF AssignedOverallStatus
  <2>2. PICK d \in Assigned(w, Everything) : SessionOf[d] = s /\ detail[d].status = "progress"
    BY <2>1
  <2>3. d \in Of(Agenda, s)
    BY <2>2, OfAgenda DEF Assigned, Rows
  <2>4. Derived(Agenda, s) = "progress"
    BY <2>2, <2>3, StartedServices
  <2>. QED BY <1>2, <2>4
<1>. QED BY <1>3, <1>4, <1>5

LEMMA HistoricFilterIs ==
  /\ [Everything EXCEPT !.services = Historic].dates = Slot
  /\ [Everything EXCEPT !.services = Historic].status = {}
  /\ [Everything EXCEPT !.services = Historic].services = Historic
  /\ [Everything EXCEPT !.services = Historic].onlyScheduled = FALSE
BY DEF Everything

\* The services of a worker, those with one of some statuses, and how many.
Mine(w) == {d \in Rows : detail[d].worker = w}
MineWith(w, st) == {d \in Mine(w) : detail[d].status \in st}

LEMMA MineIsFinite ==
  ASSUME NEW w
  PROVE  /\ IsFiniteSet(Mine(w)) /\ Cardinality(Mine(w)) \in Nat
         /\ \A st : IsFiniteSet(MineWith(w, st)) /\ Cardinality(MineWith(w, st)) \in Nat
<1>1. Mine(w) \in SUBSET Detail /\ \A st : MineWith(w, st) \in SUBSET Detail
  BY DEF Mine, MineWith, Rows
<1>. QED BY <1>1, FiniteDetails, FS_CardinalityType

LEMMA CountsAre ==
  ASSUME NEW w
  PROVE  /\ WorkerCounts(w).appointments = Cardinality(Mine(w))
         /\ WorkerCounts(w).completed = Cardinality(MineWith(w, Done))
         /\ WorkerCounts(w).cancelled = Cardinality(MineWith(w, {"cancelled"}))
         /\ WorkerCounts(w).time =
              SumFunctionOnSet([d \in MineWith(w, Done) |-> detail[d].end - detail[d].start],
                               MineWith(w, Done))
         /\ IncomeReport(w).sessions = Cardinality(MineWith(w, Done))
         /\ IncomeReport(w).time =
              SumFunctionOnSet([d \in MineWith(w, Done) |-> RealTime(d)], MineWith(w, Done))
<1>1. {d \in Rows : detail[d].worker = w /\ detail[d].status \in Done} = MineWith(w, Done)
  BY DEF MineWith, Mine
<1>2. IncomeReport(w) = [sessions |-> Cardinality(MineWith(w, Done)),
                         time |-> SumOf(RealTime, MineWith(w, Done))]
  BY <1>1 DEF IncomeReport
<1>3. WorkerCounts(w) =
        [appointments |-> Cardinality(Mine(w)), completed |-> Cardinality(MineWith(w, Done)),
         cancelled |-> Cardinality(MineWith(w, {"cancelled"})),
         time |-> SumOf(LAMBDA d : detail[d].end - detail[d].start, MineWith(w, Done))]
  BY DEF WorkerCounts, Mine, MineWith
<1>. QED BY <1>2, <1>3 DEF SumOf

LEMMA TheWorkerAgrees ==
  ASSUME RowsTyped, NEW w, NEW active
  PROVE  WorkerAgrees(w, active)
<1>1. ASSUME w \in active, NEW s \in WorkerSessions(w, Everything)
      PROVE  s \in SalonSessions(active, Everything)
  <2>1. PICK d \in Rows : detail[d].worker = w /\ SessionOf[d] = s /\ AskedOfWorker(Everything, d)
    BY DEF WorkerSessions, SessionsOf, Assigned
  <2>2. d \in Visible(active) /\ active # {}
    BY <1>1, <2>1 DEF Visible
  <2>3. Asked(Everything, s)
    BY <2>1, FiltersAre DEF AskedOfWorker, Asked
  <2>. QED BY <2>1, <2>2, <2>3 DEF SalonSessions, SessionsOf
<1>2. ASSUME NEW s \in WorkerSessions(w, Everything)
      PROVE  ClientOf[s] \in WorkerClients(w)
  <2>1. PICK d \in Rows : detail[d].worker = w /\ SessionOf[d] = s
    BY DEF WorkerSessions, SessionsOf, Assigned
  <2>. QED BY <2>1 DEF WorkerClients, SessionsOf
<1>3. WorkerCounts(w).completed = IncomeReport(w).sessions
  BY CountsAre
<1>4. WorkerCounts(w).time = IncomeReport(w).time
  <2>1. ASSUME NEW d \in MineWith(w, Done) PROVE RealTime(d) = detail[d].end - detail[d].start
    BY DEF MineWith, RealTime
  <2>2. [d \in MineWith(w, Done) |-> detail[d].end - detail[d].start]
          = [d \in MineWith(w, Done) |-> RealTime(d)]
    BY <2>1
  <2>. QED BY <2>2, CountsAre
<1>5. (WorkerCounts(w).completed + WorkerCounts(w).cancelled = 0) = (History(w) = {})
  <2>1. History(w) = {} <=> MineWith(w, Done) = {} /\ MineWith(w, {"cancelled"}) = {}
    <3>1. ASSUME NEW s \in History(w)
          PROVE  MineWith(w, Done) # {} \/ MineWith(w, {"cancelled"}) # {}
      <4>1. PICK d \in Rows : detail[d].worker = w /\ detail[d].status \in Historic
        <5>1. PICK d \in Rows : detail[d].worker = w
                /\ AskedOfWorker([Everything EXCEPT !.services = Historic], d)
          BY DEF History, WorkerSessions, SessionsOf, Assigned
        <5>. QED BY <5>1, HistoricFilterIs DEF AskedOfWorker, Historic
      <4>. QED BY <4>1 DEF MineWith, Mine, Historic
    <3>2. ASSUME NEW d \in MineWith(w, Done) \cup MineWith(w, {"cancelled"})
          PROVE  SessionOf[d] \in History(w)
      <4>1. d \in Rows /\ detail[d].worker = w /\ detail[d].status \in Historic
        BY DEF MineWith, Mine, Historic
      <4>2. session[SessionOf[d]] \in SessionRow
        BY <4>1, AppointmentsAssumption DEF Rows, RowsTyped
      <4>3. session[SessionOf[d]].date \in Slot
        BY <4>2 DEF SessionRow
      <4>4. AskedOfWorker([Everything EXCEPT !.services = Historic], d)
        BY <4>1, <4>3, HistoricFilterIs DEF AskedOfWorker
      <4>. QED BY <4>1, <4>4 DEF History, WorkerSessions, SessionsOf, Assigned
    <3>. QED BY <3>1, <3>2
  <2>2. PICK n \in Nat : n = WorkerCounts(w).completed /\ (n = 0 <=> MineWith(w, Done) = {})
    BY CountsAre, MineIsFinite, FS_EmptySet
  <2>3. PICK m \in Nat : m = WorkerCounts(w).cancelled /\ (m = 0 <=> MineWith(w, {"cancelled"}) = {})
    BY CountsAre, MineIsFinite, FS_EmptySet
  <2>4. n + m = 0 <=> n = 0 /\ m = 0
    OBVIOUS
  <2>5. n + m = 0 <=> History(w) = {}
    BY <2>1, <2>2, <2>3, <2>4
  <2>. QED BY <2>2, <2>3, <2>5
<1>6. WorkerCounts(w).appointments =
        WorkerCounts(w).completed + WorkerCounts(w).cancelled
        + Cardinality({d \in Rows : detail[d].worker = w
                                    /\ detail[d].status \in {"scheduled", "progress"}})
  <2>. DEFINE A == MineWith(w, Done)
              B == MineWith(w, {"cancelled"})
              C == MineWith(w, {"scheduled", "progress"})
  <2>1. {d \in Rows : detail[d].worker = w /\ detail[d].status \in {"scheduled", "progress"}} = C
    BY DEF MineWith, Mine
  <2>2. Mine(w) = (A \cup B) \cup C
    BY RowsOfDay, Statuses DEF MineWith, Mine, Rows, Done
  <2>3. A \cap B = {} /\ (A \cup B) \cap C = {}
    BY DEF MineWith, Done
  <2>4. IsFiniteSet(A) /\ IsFiniteSet(B) /\ IsFiniteSet(C)
    BY MineIsFinite
  <2>5. Cardinality(A) \in Nat /\ Cardinality(B) \in Nat /\ Cardinality(C) \in Nat
    BY MineIsFinite
  <2>6. WorkerCounts(w).appointments = Cardinality(Mine(w))
        /\ WorkerCounts(w).completed = Cardinality(A) /\ WorkerCounts(w).cancelled = Cardinality(B)
    BY CountsAre
  <2>. HIDE DEF A, B, C
  <2>7. IsFiniteSet(A \cup B) /\ Cardinality(A \cup B) = Cardinality(A) + Cardinality(B)
    <3>1. IsFiniteSet(A \cup B)
          /\ Cardinality(A \cup B) = Cardinality(A) + Cardinality(B) - Cardinality(A \cap B)
      BY <2>4, FS_Union
    <3>2. Cardinality(A \cap B) = 0
      BY <2>3, FS_EmptySet
    <3>. QED BY <2>5, <3>1, <3>2
  <2>8. Cardinality(Mine(w)) = Cardinality(A) + Cardinality(B) + Cardinality(C)
    <3>1. Cardinality((A \cup B) \cup C)
            = Cardinality(A \cup B) + Cardinality(C) - Cardinality((A \cup B) \cap C)
      BY <2>4, <2>7, FS_Union
    <3>2. Cardinality((A \cup B) \cap C) = 0
      BY <2>3, FS_EmptySet
    <3>. QED BY <2>2, <2>5, <2>7, <3>1, <3>2
  <2>. QED BY <2>1, <2>6, <2>8
<1>. QED BY <1>1, <1>2, <1>3, <1>4, <1>5, <1>6 DEF WorkerAgrees

LEMMA TheTimesAreShown ==
  ASSUME RowsTyped
  PROVE  TimesAreShown
<1>1. ASSUME NEW d \in Rows PROVE TimeShown(d) >= 0
  <2>1. detail[d].start \in Nat /\ detail[d].end \in Nat /\ detail[d].time \in Nat
    BY RowsOfDay DEF Rows
  <2>. QED BY <2>1 DEF TimeShown
<1>. QED BY <1>1 DEF TimesAreShown

\* For any appointments, clients and workers, whoever is active: the two lists of
\* the salon, the card, the receipt and the debts, the lists of a worker and of a
\* client and the figures of a worker show the same appointments in the same way.
THEOREM TheScreensAgree == Spec => []ScreensAgree
<1>1. ASSUME AppointmentsInv PROVE ScreensAgree
  <2>1. RowsTyped
    BY <1>1, TypeOKIs DEF AppointmentsInv
  <2>2. ASSUME NEW active
        PROVE  /\ SalonListsAgree(active) /\ DebtsAreShown(active)
               /\ CardsAgree(active) /\ StatusesAgree(active)
               /\ \A w \in Worker : WorkerAgrees(w, active)
    BY <1>1, <2>1, TheSalonListsAgree, TheDebtsAreShown, TheCardsAgree, TheStatusesAgree,
       TheWorkerAgrees
  <2>. QED BY <2>1, <2>2, TheTimesAreShown DEF ScreensAgree
<1>. QED BY <1>1, AppointmentsInvariant, PTL

====
