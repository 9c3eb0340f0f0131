------------------------- MODULE AppointmentScreens -------------------------
(***************************************************************************)
(* What the salon, its workers and its clients see of the appointments of  *)
(* module Appointments: the lists of session.service.ts, the card and the  *)
(* receipt of an appointment, the debts, and the figures of a worker.      *)
(*                                                                         *)
(* Nothing is written here.  Every list takes the workers that are active  *)
(* as a parameter: they may change at any moment.  Pages, names, prices    *)
(* and the order of the rows are left out.                                 *)
(***************************************************************************)
EXTENDS Appointments

CONSTANTS
  Client,
  ClientOf,      \* Session -> Client
  Offered        \* services that were booked through an offer of the salon

ASSUME ScreensAssumption == ClientOf \in [Session -> Client] /\ Offered \subseteq Detail

Rows == {d \in Detail : detail[d] # Absent}
SessionsOf(D) == {SessionOf[d] : d \in D}
Done == {"completed", "paid"}
SumOf(f(_), S) == SumFunctionOnSet([d \in S |-> f(d)], S)

-----------------------------------------------------------------------------
(* The lists of the salon *)

\* What a list may be asked for: days, statuses of the appointment or of its
\* services (none: any), or what is scheduled only.
Filter ==
  [dates: {Slot}, status: SUBSET SessionStatus, services: SUBSET DetailStatus,
   onlyScheduled: BOOLEAN]
Everything == [dates |-> Slot, status |-> {}, services |-> {}, onlyScheduled |-> FALSE]
Upcoming == [Everything EXCEPT !.onlyScheduled = TRUE]

\* The services of the active workers, and those of an offer that wait for one.
Visible(active) ==
  {d \in Rows : \/ detail[d].worker \in active
                \/ detail[d].worker = Nobody /\ d \in Offered}

Asked(f, s) ==
  /\ session[s].date \in f.dates
  /\ IF f.onlyScheduled THEN session[s].status = "scheduled"
     ELSE f.status = {} \/ session[s].status \in f.status

\* With no active worker the list is empty.
SalonSessions(active, f) ==
  IF active = {} THEN {} ELSE {s \in SessionsOf(Visible(active)) : Asked(f, s)}

\* "Mismas reglas que findAllSessionsSimple": written a second time.
CompanySessions(active, f) ==
  {s \in Session : /\ active # {} /\ session[s] # Absent /\ Asked(f, s)
                   /\ \E d \in Visible(active) : SessionOf[d] = s}

\* A charge is paid as soon as it is registered, and pending until collected.
\* Mutant: every charge is pending.
PendingOnceCharged(s) == [isPaid |-> charge[s] # "none", pending |-> charge[s] # "none"]

PaymentStatus(s) == [isPaid |-> charge[s] # "none", pending |-> charge[s] = "owed"]

\* The real time of a service that was done, below zero when it ended before the
\* start it shows.
RealTime(d) == IF detail[d].status \in Done THEN detail[d].end - detail[d].start ELSE 0

Figures(D) ==
  [services |-> D, planned |-> SumOf(LAMBDA d : detail[d].time, D),
   real |-> SumOf(RealTime, D)]
ListEntry(active, s) ==
  [status |-> session[s].status, payment |-> PaymentStatus(s),
   figures |-> Figures({d \in Visible(active) : SessionOf[d] = s})]

-----------------------------------------------------------------------------
(* One appointment *)

\* The receipt lists every service that is not cancelled.
Receipt(s) == [pending |-> charge[s] = "owed", services |-> Active(Agenda, s)]

\* The card shows all its services, whoever does them, and its receipt.
Card(s) ==
  [status |-> session[s].status, figures |-> Figures(Of(Agenda, s)),
   payment |-> IF charge[s] = "none" THEN {} ELSE {Receipt(s)}]

\* The details say whether the appointment may be completed; the time of each
\* is the real one unless it is below zero.
StatusSummary(s) ==
  [total |-> Cardinality(Of(Agenda, s)),
   completed |-> Cardinality({d \in Of(Agenda, s) : detail[d].status = "completed"}),
   canComplete |-> \A d \in Of(Agenda, s) : detail[d].status = "completed"]
TimeShown(d) ==
  IF detail[d].end >= detail[d].start THEN detail[d].end - detail[d].start ELSE detail[d].time

\* The debts: charges not collected, of any worker the salon has or had.
Debts ==
  {s \in Session : charge[s] = "owed" /\ \E d \in Of(Agenda, s) : detail[d].worker # Nobody}

-----------------------------------------------------------------------------
(* The lists of a worker and of a client *)

\* What is scheduled is asked of the service here, not of the appointment.
AskedOfWorker(f, d) ==
  LET s == SessionOf[d] IN
  /\ session[s].date \in f.dates
  /\ IF f.onlyScheduled THEN detail[d].status = "scheduled"
     ELSE f.status = {} \/ session[s].status \in f.status
  /\ f.services = {} \/ detail[d].status \in f.services

Assigned(w, f) == {d \in Rows : detail[d].worker = w /\ AskedOfWorker(f, d)}
WorkerSessions(w, f) == SessionsOf(Assigned(w, f))

\* What the worker's services of an appointment come to.
AssignedOverallStatus(w, s) ==
  LET st == {detail[d].status : d \in {d \in Assigned(w, Everything) : SessionOf[d] = s}}
  IN IF st \subseteq {"completed"} THEN "Completado"
     ELSE IF "progress" \in st THEN "En proceso"
     ELSE IF st \subseteq {"scheduled"} THEN "Agendado"
     ELSE IF "completed" \in st THEN "Parcialmente completado"
     ELSE "Desconocido"

\* The history is the same list, of the services that are done or cancelled.
Historic == Done \cup {"cancelled"}
History(w) == WorkerSessions(w, [Everything EXCEPT !.services = Historic])

ClientSessions(c, f) ==
  {s \in SessionsOf(Rows) :
     /\ ClientOf[s] = c /\ session[s].date \in f.dates
     /\ f.status = {} \/ session[s].status \in f.status
     /\ f.onlyScheduled => session[s].status = "scheduled"
     /\ f.services = {} \/ \E d \in Of(Agenda, s) : detail[d].status \in f.services}

WorkerClients(w) == {ClientOf[s] : s \in SessionsOf({d \in Rows : detail[d].worker = w})}

\* The figures of a worker: appointments, done and cancelled services, and the
\* time really worked.
WorkerCounts(w) ==
  LET mine == {d \in Rows : detail[d].worker = w}
      with(st) == {d \in mine : detail[d].status \in st}
  IN [appointments |-> Cardinality(mine), completed |-> Cardinality(with(Done)),
      cancelled |-> Cardinality(with({"cancelled"})),
      time |-> SumOf(LAMBDA d : detail[d].end - detail[d].start, with(Done))]

\* The income report counts the services that are done, charged or not.
IncomeReport(w) ==
  LET done == {d \in Rows : detail[d].worker = w /\ detail[d].status \in Done}
  IN [sessions |-> Cardinality(done), time |-> SumOf(RealTime, done)]

-----------------------------------------------------------------------------
(* Properties *)

SalonListsAgree(active) ==
  \A f \in {Everything, Upcoming} :
    /\ CompanySessions(active, f) = SalonSessions(active, f)
    /\ \A s \in SalonSessions(active, f) : s \in ClientSessions(ClientOf[s], f)

\* A debt is on the list of debts whoever is active, and a list or a card shows
\* as pending what is there and nothing else.
DebtsAreShown(active) ==
  /\ \A s \in Session : charge[s] = "owed" => s \in Debts
  /\ \A s \in SalonSessions(active, Everything) :
       /\ ListEntry(active, s).payment.pending = (s \in Debts)
       /\ Card(s).payment = {} \/ ListEntry(active, s).payment.isPaid
       /\ \A r \in Card(s).payment : r.pending = (s \in Debts)

\* When all the services of an appointment have an active worker, the list and
\* the card show the same services and times.
CardsAgree(active) ==
  \A s \in SalonSessions(active, Everything) :
    (\A d \in Of(Agenda, s) : detail[d].worker \in active)
    => ListEntry(active, s).figures = Card(s).figures

\* The lists and figures of a worker agree with each other and with the salon's:
\* what is done or cancelled is history, what the figures call done is income.
WorkerAgrees(w, active) ==
  LET counts == WorkerCounts(w) IN
  /\ w \in active => WorkerSessions(w, Everything) \subseteq SalonSessions(active, Everything)
  /\ \A s \in WorkerSessions(w, Everything) : ClientOf[s] \in WorkerClients(w)
  /\ counts.completed = IncomeReport(w).sessions /\ counts.time = IncomeReport(w).time
  /\ (counts.completed + counts.cancelled = 0) = (History(w) = {})
  /\ counts.appointments =
       counts.completed + counts.cancelled
       + Cardinality({d \in Rows : detail[d].worker = w
                                   /\ detail[d].status \in {"scheduled", "progress"}})

\* An appointment that is to come is on the list of a worker who does it, and
\* done with when the details say it may be completed.
StatusesAgree(active) ==
  \A s \in SalonSessions(active, Everything) :
    InStep(Agenda, s) =>
      /\ session[s].status = "scheduled" =>
           \A d \in Active(Agenda, s) : s \in WorkerSessions(detail[d].worker, Upcoming)
      /\ StatusSummary(s).canComplete => session[s].status \in {"completed", "paid", "rated"}
      /\ \A w \in WorkersOf(Agenda, s) :
           AssignedOverallStatus(w, s) = "En proceso" => session[s].status \notin {"scheduled", "cancelled"}

\* No time the details show is below zero, also where the other lists are.
TimesAreShown == \A d \in Rows : TimeShown(d) >= 0

\* The screens agree whoever is active: the two lists of the salon, the card, the
\* debts, and what a worker and a client see of the same appointments.
ScreensAgree ==
  /\ TimesAreShown
  /\ \A active \in SUBSET Worker :
       /\ SalonListsAgree(active) /\ DebtsAreShown(active)
       /\ CardsAgree(active) /\ StatusesAgree(active)
       /\ \A w \in Worker : WorkerAgrees(w, active)

=============================================================================
