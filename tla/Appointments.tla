---------------------------- MODULE Appointments ----------------------------
(***************************************************************************)
(* The appointments of one salon on one day: their services, the agenda of *)
(* the workers and the charge, from session.service.ts.                    *)
(*                                                                         *)
(* Time is counted in slots of the day; the tolerance of five minutes with *)
(* which a service starts or ends on time is the slot.  A session holds    *)
(* details, one per service; money, names and notifications are left out,  *)
(* and so is the confirmation of the appointments booked by link, which    *)
(* module LinkBookings models.  Requests run one after the other.          *)
(***************************************************************************)
EXTENDS Integers, FiniteSets, FiniteSetsExt

CONSTANTS
  Session,      \* appointments
  Detail,       \* their services, 1..n: the order of their ids
  SessionOf,    \* Detail -> Session
  Extra,        \* the services that are added to an appointment that exists
  Worker,
  Length,       \* Detail -> what it takes when it is booked
  Duration,     \* what it may take later
  AllowPast,    \* company.allowPastAppointments
  Midnight,     \* the last slot, when the nightly cancellation runs
  Horizon,      \* bound: no service ends later
  MaxChanges    \* bound: operations on what was created, charges aside

ASSUME AppointmentsAssumption ==
  /\ Session # {} /\ Detail \subseteq Nat /\ IsFiniteSet(Detail)
  /\ SessionOf \in [Detail -> Session] /\ Extra \subseteq Detail
  /\ Duration \subseteq Nat \ {0} /\ Length \in [Detail -> Duration] /\ AllowPast \in BOOLEAN
  /\ Midnight \in Nat /\ Horizon \in Nat /\ MaxChanges \in Nat
  /\ "nobody" \notin Worker

VARIABLES
  now,
  session,   \* session rows
  detail,    \* session_detail rows
  charge,    \* session_payments: none, owed (pendingCollection) or collected
  changes    \* operations on what was created so far, charges aside

vars == <<now, session, detail, charge, changes>>

Slot == 0..Midnight
Nobody == "nobody"
Absent == [status |-> "absent"]

SessionStatus == {"scheduled", "progress", "completed", "paid", "cancelled", "rated",
                  "unassigned"}
DetailStatus == {"scheduled", "progress", "completed", "paid", "cancelled"}
Settable == DetailStatus  \* 1..5

\* start is when the appointment begins, date its session_datetime, from its
\* original_start_datetime.
SessionRow ==
  [status: SessionStatus, start: Nat, date: Slot, from: Nat, locked: BOOLEAN]
\* time is total_time; from and till are the original start and end.
DetailRow ==
  [status: DetailStatus, worker: Worker \cup {Nobody}, start: Nat, end: Nat,
   time: Nat \ {0}, from: Nat, till: Nat]

Agenda == [session |-> session, detail |-> detail]
Write(a) ==
  /\ \A d \in Detail : a.detail[d] # Absent => a.detail[d].end \in 0..Horizon
  /\ session' = a.session /\ detail' = a.detail

Count == changes < MaxChanges /\ changes' = changes + 1

Of(a, s) == {d \in Detail : SessionOf[d] = s /\ a.detail[d] # Absent}
Active(a, s) == {d \in Of(a, s) : a.detail[d].status # "cancelled"}

-----------------------------------------------------------------------------
(* The status of an appointment from its services *)

Derived(a, s) ==
  LET with(st) == {d \in Active(a, s) : a.detail[d].status \in st}
      finished == with({"completed", "paid"})
      waits == /\ \E d \in Active(a, s) : a.detail[d].worker = Nobody
               /\ with({"progress"}) = {} /\ finished = {}
  IN IF waits THEN "unassigned"
     ELSE IF Active(a, s) = {} THEN "cancelled"
     ELSE IF with({"paid"}) = Active(a, s) THEN "paid"
     ELSE IF finished = Active(a, s) THEN "completed"
     ELSE IF with({"progress"}) # {} \/ finished # {} THEN "progress"
     ELSE "scheduled"

\* Mutant: the status of the appointment is not looked at.
NeverSealed(s) == FALSE

\* A paid or rated appointment goes back only by undoing the charge.
Sealed(s) == session[s].status \in {"paid", "rated"}

\* Mutant: a completed appointment follows its services no more.
SyncBeforeCompletion(a, s) ==
  IF a.session[s].status \in {"completed", "paid", "rated"} \/ Of(a, s) = {} THEN a
  ELSE [a EXCEPT !.session[s].status = Derived(a, s)]

\* updateSessionStatusBasedOnDetails: a paid or rated appointment stays so.
Sync(a, s) ==
  IF a.session[s].status \in {"paid", "rated"} \/ Of(a, s) = {} THEN a
  ELSE [a EXCEPT !.session[s].status = Derived(a, s)]

-----------------------------------------------------------------------------
(* The agenda of a worker *)

\* Mutant: only a service that starts inside the other one meets it.
StartsInside(start, end, other) ==
  other.start <= start /\ start < other.start + other.time

Intersects(start, end, other) == start < other.start + other.time /\ end > other.start

\* checkIfWorkerHasAppointmentAtSameTime: what is finished or cancelled leaves
\* its slot free.
Clash(a, w, start, time, s) ==
  \E d \in Detail :
    /\ a.detail[d] # Absent /\ SessionOf[d] # s /\ a.detail[d].worker = w
    /\ a.detail[d].status \in {"scheduled", "progress"}
    /\ Intersects(start, start + time, a.detail[d])

Column(a, w) ==
  {d \in Detail : /\ a.detail[d] # Absent /\ a.detail[d].worker = w
                  /\ a.detail[d].status # "cancelled"}

LargerOf(x, y) == IF x < y THEN y ELSE x

LengthOf(row) == LargerOf(0, row.end - row.start)

\* The order in which a column is placed: by start, then by id.
Before(a, x, y) ==
  \/ a.detail[x].start < a.detail[y].start
  \/ a.detail[x].start = a.detail[y].start /\ x < y
Earlier(a, d) == {x \in Column(a, a.detail[d].worker) : Before(a, x, d)}
LastOf(a, D) == CHOOSE d \in D : \A x \in D \ {d} : Before(a, x, d)

Displaced(row, cursor) == row.start < cursor
Pushed(a, d, cursor, protected) ==
  Displaced(a.detail[d], cursor) /\ a.detail[d].status = "scheduled" /\ d \notin protected

\* Where a column is free once the services of a subset of it are placed.
FreeFrom(a, w, protected) ==
  LET free[D \in SUBSET Column(a, w)] ==
        IF D = {} THEN 0
        ELSE LET d == LastOf(a, D)
                 cursor == free[D \ {d}]
             IN IF Pushed(a, d, cursor, protected) THEN cursor + LengthOf(a.detail[d])
                ELSE LargerOf(cursor, a.detail[d].end)
  IN free
Cursor(a, d, protected) == FreeFrom(a, a.detail[d].worker, protected)[Earlier(a, d)]

\* The services that are pushed, and where they are put.
Moving(a, W, protected) ==
  {d \in UNION {Column(a, w) : w \in W} : Pushed(a, d, Cursor(a, d, protected), protected)}
Placed(row, cursor) == [row EXCEPT !.start = cursor, !.end = cursor + LengthOf(row)]

\* rippleWorkerColumn: each scheduled service that meets what is placed before it
\* is put right after, and its appointment begins with the first of its services.
RippleAll(a, W, protected) ==
  LET moving == Moving(a, W, protected)
      rows == [d \in Detail |-> IF d \in moving THEN Placed(a.detail[d], Cursor(a, d, protected))
                                ELSE a.detail[d]]
  IN [session |-> [s \in Session |->
        IF \E d \in moving : SessionOf[d] = s
        THEN [a.session[s] EXCEPT !.start = Min({rows[d].start : d \in Active(a, s)})]
        ELSE a.session[s]],
      detail |-> rows]
Ripple(a, w, protected) == RippleAll(a, {w}, protected)

WorkersOf(a, s) == {a.detail[d].worker : d \in Of(a, s)} \ {Nobody}

-----------------------------------------------------------------------------
(* Creation and extra services *)

NewRow(status, w, start, time) ==
  [status |-> status, worker |-> w, start |-> start, end |-> start + time,
   time |-> time, from |-> start, till |-> start + time]

\* In the past only the administrator, if the salon allows it: the service is
\* then completed, or in progress when it has not ended.
InThePast(start) == start < now
Bookable(s, w, start, time) ==
  /\ InThePast(start) => AllowPast
  /\ w # Nobody => ~Clash(Agenda, w, start, time, s)

ForcedStatus(start, time) ==
  IF ~InThePast(start) THEN "scheduled"
  ELSE IF start + time < now THEN "completed" ELSE "progress"
NewSession(w, start, status) ==
  [status |-> IF ~InThePast(start) /\ w = Nobody THEN "unassigned" ELSE status,
   start |-> start, date |-> start, from |-> start, locked |-> FALSE]

InsertSession(s, d, w, start) ==
  LET status == ForcedStatus(start, Length[d])
  IN Write(Sync([session |-> [session EXCEPT ![s] = NewSession(w, start, status)],
                 detail |-> [detail EXCEPT ![d] = NewRow(status, w, start, Length[d])]], s))

CreateSessionWithDetail(s, d) ==
  /\ session[s] = Absent /\ SessionOf[d] = s /\ d \notin Extra
  /\ \E w \in Worker \cup {Nobody}, start \in Slot :
       Bookable(s, w, start, Length[d]) /\ InsertSession(s, d, w, start)
  /\ UNCHANGED <<now, charge, changes>>

ExtraFits(s, d, w, start) == ~Clash(Agenda, w, start, Length[d], s)
InsertExtra(s, d, w, start) ==
  Write(Sync([Agenda EXCEPT !.detail[d] = NewRow("scheduled", w, start, Length[d])], s))

\* Nothing looks at the status of the appointment.
AddExtraServices(s, d) ==
  /\ Count
  /\ session[s] # Absent /\ SessionOf[d] = s /\ d \in Extra /\ detail[d] = Absent
  /\ \E w \in Worker, start \in Slot :
       ExtraFits(s, d, w, start) /\ InsertExtra(s, d, w, start)
  /\ UNCHANGED <<now, charge>>

\* The status of the appointment is not computed again.
RemoveExtraService(d) ==
  /\ Count
  /\ d \in Extra /\ detail[d] # Absent
  /\ detail[d].status \notin {"paid", "cancelled"}
  /\ Write([Agenda EXCEPT !.detail[d] = Absent])
  /\ UNCHANGED <<now, charge>>

-----------------------------------------------------------------------------
(* Status changes *)

\* What a service becomes with its new status: back to scheduled it returns to
\* its original slot, started or finished it takes the real time unless the
\* schedule is kept.
Restored(row) == [row EXCEPT !.status = "scheduled", !.start = row.from, !.end = row.till]
Started(row, kept) ==
  IF kept THEN [row EXCEPT !.status = "progress"]
  ELSE [row EXCEPT !.status = "progress", !.start = now, !.end = now + LargerOf(row.time, 1)]
Finished(row, kept) ==
  IF kept THEN [row EXCEPT !.status = "completed"]
  ELSE [row EXCEPT !.status = "completed", !.end = now]

Becomes(row, next, kept) ==
  CASE next = "scheduled" -> Restored(row)
    [] next = "progress"  -> Started(row, kept)
    [] next = "completed" -> Finished(row, kept)
    [] OTHER              -> [row EXCEPT !.status = next]

\* The whole appointment: its services follow, but for the cancelled ones, which
\* come back only with the appointment itself; what was in progress keeps its
\* start and what was not its end.
Cascade(a, s, next, kept, reactivated) ==
  [a EXCEPT !.detail = [d \in Detail |->
     IF d \notin Of(a, s) \/ (@[d].status = "cancelled" /\ ~reactivated) THEN @[d]
     ELSE CASE next = "progress" /\ @[d].status = "progress"   -> @[d]
            [] next = "completed" /\ @[d].status # "progress"  -> [@[d] EXCEPT !.status = next]
            [] OTHER -> Becomes(@[d], next, kept)]]

PlannedEnd(a, s) ==
  Max({a.detail[d].end : d \in Active(a, s)} \cup {0})

UpdateSessionStatus(s, next) ==
  /\ Count
  /\ session[s] # Absent /\ WorkersOf(Agenda, s) # {}
  /\ next = "paid" => session[s].status = "completed"
  /\ ~Sealed(s)
  /\ \E keep \in BOOLEAN :
       LET reactivated == session[s].status = "cancelled"
                          /\ next \in {"scheduled", "progress", "completed"}
           kept == CASE next = "progress"  -> keep \/ session[s].start = now
                     [] next = "completed" -> keep \/ PlannedEnd(Agenda, s) = now
                     [] OTHER -> TRUE
           row == [session[s] EXCEPT
                     !.status = next, !.locked = TRUE,
                     !.start = CASE next = "scheduled" -> session[s].from
                                 [] /\ next = "progress" /\ ~kept
                                    /\ session[s].status # "progress" -> now
                                 [] OTHER -> @]
           a == Cascade([Agenda EXCEPT !.session[s] = row], s, next, kept, reactivated)
       IN /\ reactivated => \A d \in Of(Agenda, s) :
               detail[d].status = "cancelled" /\ detail[d].worker # Nobody
               => ~Clash(Agenda, detail[d].worker, detail[d].start, detail[d].time, s)
          /\ Write(IF kept THEN a ELSE RippleAll(a, WorkersOf(a, s), Of(a, s)))
  /\ UNCHANGED <<now, charge>>

\* One service, by the administrator unless they took over the appointment, or
\* by the worker who does it, who cannot set it paid.
UpdateDetailStatus(d, next, role) ==
  LET s == SessionOf[d] IN
  /\ Count
  /\ detail[d] # Absent /\ detail[d].worker # Nobody
  /\ ~Sealed(s)
  /\ role = "adm" => ~session[s].locked \/ next = "cancelled" \/ detail[d].status = "cancelled"
  /\ role = "wrk" => next # "paid"
  /\ detail[d].status = "cancelled" /\ next # "cancelled"
     => ~Clash(Agenda, detail[d].worker, detail[d].start, detail[d].time, s)
  /\ \E keep \in BOOLEAN :
       LET kept == CASE next = "progress"  -> keep \/ detail[d].start = now
                     [] next = "completed" -> keep \/ detail[d].end = now
                     [] OTHER -> TRUE
           a == Sync([Agenda EXCEPT !.detail[d] = Becomes(@, next, kept)], s)
       IN Write(IF kept THEN a ELSE Ripple(a, detail[d].worker, {d}))
  /\ UNCHANGED <<now, charge>>

CancelSession(s) ==
  /\ Count
  /\ session[s] # Absent
  /\ session[s].status \in {"scheduled", "progress", "unassigned"}
  /\ Write([session |-> [session EXCEPT ![s].status = "cancelled"],
            detail |-> [d \in Detail |-> IF d \in Of(Agenda, s)
                          THEN [detail[d] EXCEPT !.status = "cancelled"] ELSE detail[d]]])
  /\ UNCHANGED <<now, charge>>

\* Mutant: the appointments without a worker are forgotten.
ExpiredAssigned ==
  {s \in Session : /\ session[s] # Absent /\ session[s].status = "scheduled"
                   /\ session[s].date < now}

\* At midnight, every appointment of the day that nobody started.
Expired ==
  {s \in Session : /\ session[s] # Absent /\ session[s].status \in {"scheduled", "unassigned"}
                   /\ session[s].date < now}

CancelExpiredScheduledSessions ==
  LET expired == Expired
  IN /\ now = Midnight /\ expired # {}
     /\ Write([session |-> [s \in Session |-> IF s \in expired
                 THEN [session[s] EXCEPT !.status = "cancelled"] ELSE session[s]],
               detail |-> [d \in Detail |-> IF detail[d] # Absent /\ SessionOf[d] \in expired
                 THEN [detail[d] EXCEPT !.status = "cancelled"] ELSE detail[d]]])
     /\ UNCHANGED <<now, charge, changes>>

-----------------------------------------------------------------------------
(* Dates, workers and services *)

Reschedulable(s) == session[s].status \in {"scheduled", "progress", "unassigned"}
MovedAlone(row, start, time) ==
  [row EXCEPT !.start = start, !.end = start + time, !.time = time]
MovedTogether(row, shift) == [row EXCEPT !.start = @ + shift, !.end = @ + shift]
MovedRow(d, one, start, time, shift, w) ==
  LET moved == IF one THEN MovedAlone(detail[d], start, time) ELSE MovedTogether(detail[d], shift)
  IN IF w = Nobody THEN moved ELSE [moved EXCEPT !.worker = w]

\* One service gets a start and a length, all of them the same shift, the
\* cancelled ones too; then the others are pushed.
Moved(s, target, start, time, w) ==
  LET one == Cardinality(target) = 1
      shift == start - session[s].start
  IN [session |-> [session EXCEPT ![s].start = start, ![s].date = start],
      detail |-> [d \in Detail |-> IF d \in target
                    THEN MovedRow(d, one, start, time, shift, w) ELSE detail[d]]]
CurrentStart(s, target) ==
  IF Cardinality(target) = 1 THEN Min({detail[d].start : d \in target}) ELSE session[s].start

RescheduleSession(s) ==
  /\ Count
  /\ session[s] # Absent /\ Reschedulable(s)
  /\ \E target \in {Of(Agenda, s)} \cup {{d} : d \in Of(Agenda, s)},
        start \in Slot, time \in Duration, w \in Worker \cup {Nobody} :
       LET a == Moved(s, target, start, time, w)
       IN /\ target # {}
          /\ session[s].status = "progress" => CurrentStart(s, target) = start
          /\ \A d \in target : a.detail[d].start \in Slot
          /\ Write(RippleAll(a, WorkersOf(a, s), Of(a, s)))
  /\ UNCHANGED <<now, charge>>

\* The dates alone: the starts move, whatever the status, and the ends stay.
UpdateSessionDates(s) ==
  /\ Count
  /\ session[s] # Absent /\ Of(Agenda, s) # {}
  /\ \E date \in Slot :
       Write([session |-> [session EXCEPT ![s].start = date, ![s].date = date],
              detail |-> [d \in Detail |-> IF d \in Of(Agenda, s)
                            THEN [detail[d] EXCEPT !.start = date] ELSE detail[d]]])
  /\ UNCHANGED <<now, charge>>

Assignable(d) ==
  /\ detail[d] # Absent
  /\ session[SessionOf[d]].status # "cancelled" /\ detail[d].status # "cancelled"
FreeInSession(d, w, time) ==
  \A o \in Of(Agenda, SessionOf[d]) \ {d} :
    detail[o].worker = w => ~Intersects(detail[d].start, detail[d].start + time, detail[o])

\* The status of the appointment is not computed again.
AssignWorker(d, w) ==
  /\ Count
  /\ Assignable(d)
  /\ \E time \in Duration :
       /\ ~Clash(Agenda, w, detail[d].start, time, SessionOf[d])
       /\ FreeInSession(d, w, time)
       /\ Write([Agenda EXCEPT !.detail[d] = [@ EXCEPT !.worker = w, !.time = time]])
  /\ UNCHANGED <<now, charge>>

NextStartOf(w, after, d) ==
  {detail[o].start : o \in {o \in Column(Agenda, w) \ {d} :
                              detail[o].status = "scheduled" /\ detail[o].start > after}}

MayChangeService(d) ==
  /\ d \notin Extra /\ detail[d].worker # Nobody
  /\ session[SessionOf[d]].status \notin {"paid", "cancelled", "rated"}
  /\ detail[d].status \notin {"paid", "cancelled", "completed"}
NewEnd(d, time, keepFollowing) ==
  LET start == detail[d].start
  IN IF keepFollowing THEN Min({start + time} \cup NextStartOf(detail[d].worker, start, d))
     ELSE start + time

\* Another service, shorter or longer: what follows is pushed, or the service is
\* cut where the next one starts.
ChangeDetailService(d) ==
  /\ Count
  /\ detail[d] # Absent /\ MayChangeService(d)
  /\ \E time \in Duration \ {detail[d].time}, keepFollowing \in BOOLEAN :
       LET start == detail[d].start
           end == NewEnd(d, time, keepFollowing)
           a == [Agenda EXCEPT !.detail[d] =
                   [@ EXCEPT !.time = end - start, !.end = end, !.till = end]]
       IN Write(IF keepFollowing THEN a ELSE Ripple(a, detail[d].worker, {d}))
  /\ UNCHANGED <<now, charge>>

-----------------------------------------------------------------------------
(* Charging *)

Chargeable(s) ==
  /\ session[s] # Absent /\ session[s].status = "completed" /\ charge[s] = "none"
  /\ WorkersOf(Agenda, s) # {}
MarkPaid(s) ==
  Write([session |-> [session EXCEPT ![s].status = "paid", ![s].locked = TRUE],
         detail |-> [d \in Detail |-> IF d \in Active(Agenda, s)
                       THEN [detail[d] EXCEPT !.status = "paid"] ELSE detail[d]]])

RegisterSessionPayment(s, pending) ==
  /\ Chargeable(s) /\ MarkPaid(s)
  /\ charge' = [charge EXCEPT ![s] = IF pending THEN "owed" ELSE "collected"]
  /\ UNCHANGED <<now, changes>>

MarkPaymentCollected(s) ==
  /\ charge[s] = "owed"
  /\ charge' = [charge EXCEPT ![s] = "collected"]
  /\ UNCHANGED <<now, session, detail, changes>>

\* The services that are not cancelled are completed again, and with each one
\* any cancelled one of the same kind.
RevertPayment(s) ==
  /\ session[s] # Absent /\ session[s].status \in {"paid", "rated"} /\ charge[s] # "none"
  /\ charge' = [charge EXCEPT ![s] = "none"]
  /\ \E back \in SUBSET (Of(Agenda, s) \ Active(Agenda, s)) :
       /\ back # {} => Active(Agenda, s) # {}
       /\ Write([session |-> [session EXCEPT ![s].status = "completed"],
                 detail |-> [d \in Detail |-> IF d \in Active(Agenda, s) \cup back
                               THEN [detail[d] EXCEPT !.status = "completed"] ELSE detail[d]]])
  /\ UNCHANGED <<now, changes>>

\* The client rates the appointment: worker_feedback.service.ts.
Rate(s) ==
  /\ session[s] # Absent /\ session[s].status = "paid"
  /\ session' = [session EXCEPT ![s].status = "rated"]
  /\ UNCHANGED <<now, detail, charge, changes>>

Tick == now < Midnight /\ now' = now + 1 /\ UNCHANGED <<session, detail, charge, changes>>

-----------------------------------------------------------------------------
Init ==
  /\ now = 0 /\ changes = 0
  /\ session = [s \in Session |-> Absent]
  /\ detail = [d \in Detail |-> Absent]
  /\ charge = [s \in Session |-> "none"]

Next ==
  \/ \E d \in Detail :
       \/ CreateSessionWithDetail(SessionOf[d], d)
       \/ AddExtraServices(SessionOf[d], d)
       \/ RemoveExtraService(d)
       \/ ChangeDetailService(d)
       \/ \E w \in Worker : AssignWorker(d, w)
       \/ \E next \in Settable, role \in {"adm", "wrk"} : UpdateDetailStatus(d, next, role)
  \/ \E s \in Session :
       \/ \E next \in Settable : UpdateSessionStatus(s, next)
       \/ CancelSession(s) \/ RescheduleSession(s) \/ UpdateSessionDates(s)
       \/ \E pending \in BOOLEAN : RegisterSessionPayment(s, pending)
       \/ MarkPaymentCollected(s) \/ RevertPayment(s) \/ Rate(s)
  \/ CancelExpiredScheduledSessions \/ Tick

Spec == Init /\ [][Next]_vars

\* The cron runs every night and time passes.
FairSpec == Spec /\ WF_vars(Tick) /\ WF_vars(CancelExpiredScheduledSessions)

-----------------------------------------------------------------------------
(* Properties *)

TypeOK ==
  /\ now \in Slot /\ changes \in 0..MaxChanges
  /\ session \in [Session -> SessionRow \cup {Absent}]
  /\ detail \in [Detail -> DetailRow \cup {Absent}]
  /\ charge \in [Session -> {"none", "owed", "collected"}]
  /\ \A d \in Detail : detail[d] # Absent => session[SessionOf[d]] # Absent

\* A charged appointment is paid or rated and under the administrator's control
\* until its charge is undone, whatever happens to its services.
ChargedStaysPaid ==
  \A s \in Session : charge[s] # "none" =>
    session[s] # Absent /\ session[s].status \in {"paid", "rated"} /\ session[s].locked

\* The services of a charged appointment are paid or cancelled, so that nobody
\* starts or removes one that is in the charge; an extra may be added after it.
ChargedIsSealed ==
  \A d \in Detail : detail[d] # Absent /\ charge[SessionOf[d]] # "none" =>
    \/ detail[d].status \in {"paid", "cancelled"}
    \/ d \in Extra /\ detail[d].status = "scheduled"

InStep(a, s) ==
  \/ a.session[s] = Absent \/ Of(a, s) = {}
  \/ a.session[s].status \in {"paid", "rated", Derived(a, s)}

\* Once all its services have a worker, the status of an appointment is the one
\* its services give it, after every operation but two: the removal of an extra,
\* and undoing the charge of an appointment that has no service left to complete.
StatusFollowsServices ==
  [][\A s \in Session :
       /\ ~InStep(Agenda', s) /\ InStep(Agenda, s)
       /\ \A d \in Of(Agenda, s) : detail[d].worker # Nobody
       => \/ \E d \in Extra : SessionOf[d] = s /\ detail[d] # Absent /\ detail'[d] = Absent
          \/ Active(Agenda, s) = {} /\ charge[s] # "none" /\ charge'[s] = "none"]_vars

Scheduled(row) == row # Absent /\ row.status = "scheduled"
Overlap(x, y) == x.worker = y.worker /\ x.worker # Nobody
                 /\ x.start < y.end /\ y.start < x.end
Overlapping(rows, x, y, st) ==
  /\ rows[x] # Absent /\ rows[y] # Absent
  /\ rows[x].status \in st /\ rows[y].status \in st /\ Overlap(rows[x], rows[y])
Measured(rows) ==
  \A d \in Detail : Scheduled(rows[d]) => rows[d].end = rows[d].start + rows[d].time

Rearranges ==
  \/ \E s \in Session : \/ RescheduleSession(s) \/ UpdateSessionDates(s)
                        \/ UpdateSessionStatus(s, "scheduled")
  \/ \E d \in Detail : \/ \E w \in Worker : AssignWorker(d, w)
                       \/ \E role \in {"adm", "wrk"} : UpdateDetailStatus(d, "scheduled", role)

\* In an agenda without overlaps no creation, extra, other service, late start or
\* early end puts two appointments to come over each other, only an appointment
\* that is moved, given to another worker or put back to scheduled.
ScheduledStayApart ==
  [][/\ \E x, y \in Detail :
          x < y /\ SessionOf[x] # SessionOf[y] /\ Overlapping(detail', x, y, {"scheduled"})
     /\ \A x, y \in Detail :
          x < y => ~Overlapping(detail, x, y, DetailStatus \ {"cancelled"})
     /\ Measured(detail)
     => Rearranges]_vars

\* An operation on an appointment moves the services of the others only later,
\* with their length, and only those that nobody started.
OthersOnlyPushed ==
  [][\E s \in Session : \A d \in Detail :
       /\ SessionOf[d] # s /\ detail[d] # Absent /\ detail'[d] # Absent
       /\ detail'[d].start # detail[d].start
       => /\ Scheduled(detail[d]) /\ Scheduled(detail'[d])
          /\ detail'[d].start > detail[d].start
          /\ detail'[d].time = detail[d].time]_vars

\* "para que el bloque vuelva a su lugar y no quede solapado con otra cita"
\* (session.service.ts, updateSessionStatus): a service that goes back to
\* scheduled is not over one of another appointment.
BackToItsPlace ==
  [][\A d, o \in Detail :
       /\ detail[d] # Absent /\ Scheduled(detail'[d]) /\ ~Scheduled(detail[d])
       /\ SessionOf[o] # SessionOf[d] /\ Scheduled(detail'[o])
       => ~Overlap(detail'[d], detail'[o])]_vars

Waits(s) == session[s] # Absent /\ session[s].status \in {"scheduled", "unassigned"}
            /\ session[s].date < Midnight

\* No appointment of the day is left scheduled after midnight.
ScheduledIsDecided == \A s \in Session : Waits(s) ~> ~Waits(s)

\* What was charged is sealed, services included (registerSessionPayment).
ChargeSeals == TypeOK /\ ChargedStaysPaid /\ ChargedIsSealed

\* Moving an appointment neither puts it over another nor pulls another forward.
AgendaStaysOrderly == ScheduledStayApart /\ OthersOnlyPushed

=============================================================================
