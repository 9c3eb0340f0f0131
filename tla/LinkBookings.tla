----------------------------- MODULE LinkBookings -----------------------------
(***************************************************************************)
(* Bookings made through the public link of a salon: the booking of a      *)
(* guest, the account it opens, the approval, the rejection or the expiry  *)
(* of its request, and what may happen to its appointment meanwhile.       *)
(*                                                                         *)
(* public-booking.service.ts, booking-requests.service.ts and, of          *)
(* session.service.ts, createSessionByClient, cancelSession and            *)
(* updateSessionStatus.  One worker, one service in each booking: a        *)
(* booking b is a session, its detail and its request.  Slots are disjoint *)
(* and all lie after the last instant of the clock; an appointment keeps   *)
(* its slot (keepOriginalSchedule).  Payments, which lead to the statuses  *)
(* 4 and 6, and the status of one detail alone are left out.               *)
(*                                                                         *)
(* A request executes one await per step and keeps the rows it read in     *)
(* local[p].  Consecutive reads with no write between them are one step:   *)
(* the two looks at the agenda of a new booking, the lookup and creation   *)
(* of a guest's account, and the reads of a session, its client and its    *)
(* user before one of these is written.                                    *)
(***************************************************************************)
EXTENDS Naturals, FiniteSets

CONSTANTS
  Request,      \* requests that may be in progress at once, the cron's included
  Guest,        \* people who book
  Slot,         \* times of the worker's agenda
  Mode,         \* modes the salon's settings may be in
  HoldTime,     \* holdHours
  MaxBookings,  \* bound: bookings ever made
  MaxNow,       \* bound: no booking is asked for from this instant on
  MaxCrashes    \* bound: requests that die half way

ASSUME BookingAssumption ==
  /\ Mode \subseteq {"free", "approval", "deposit"}
  /\ HoldTime \in Nat /\ MaxBookings \in Nat /\ MaxNow \in Nat /\ MaxCrashes \in Nat

VARIABLES
  now,      \* the clock every new Date() reads
  account,  \* guest -> what the system knows of them
  linked,   \* guests on the salon's list of clients
  mailed,   \* guests who were sent the credentials of their account
  session,  \* booking -> its row of session
  detail,   \* booking -> status of its session_detail
  request,  \* booking -> its row of public_booking_request
  crashes,  \* how many requests have died
  local     \* what each request in progress holds in memory

vars == <<now, account, linked, mailed, session, detail, request, crashes, local>>
guests == <<account, linked, mailed>>
agenda == <<session, detail>>

-----------------------------------------------------------------------------
(* Rows *)

BookingId == 1..MaxBookings
NoDate == 0

\* A client with a login, a client the salon registered, one whose login a
\* booking opened, a client and login a booking created, and a stranger.
Account == {"member", "registered", "attached", "created", "unknown"}
HasLogin == {"member", "attached", "created"}

AppointmentStatus == {"none", "scheduled", "inProgress", "completed", "cancelled"}
SessionRow == [status: AppointmentStatus, guest: Guest, slot: Slot]
              \cup [status: {"none"}]
NoSession == [status |-> "none"]

PENDING_STATUSES == {"pending_approval", "pending_payment"}
Decided == {"confirmed", "rejected", "expired"}
RequestRow == [status: PENDING_STATUSES \cup Decided \cup {"none"},
               expiresAt: Nat, isNewAccount: BOOLEAN]
NoRequest == [status |-> "none", expiresAt |-> NoDate, isNewAccount |-> FALSE]

Booked(b) == session[b].status # "none"
BookingsOf(g) == {b \in BookingId : Booked(b) /\ session[b].guest = g}

Step == {"idle", "checkAgenda", "rollbackGuest", "insertSession", "insertDetail",
         "linkNewClient", "insertRequest", "saveApproved", "linkClient",
         "sendCredentials", "close", "cancel", "gate", "checkReactivation",
         "writeStatus"}

\* wanted is the guest and the slot of a new booking, opened the account it
\* opened; copy holds the booking requests it read, batch those it will save.
Local == [step: Step, id: BookingId \cup {0}, mode: Mode \cup {"none"},
          wanted: (Guest \X Slot) \cup {<<>>}, opened: {"none", "created", "attached"},
          batch: SUBSET BookingId, copy: [BookingId -> RequestRow],
          previous: AppointmentStatus, next: AppointmentStatus]
Idle == [step |-> "idle", id |-> 0, mode |-> "none", wanted |-> <<>>, opened |-> "none",
         batch |-> {}, copy |-> [b \in BookingId |-> NoRequest],
         previous |-> "none", next |-> "none"]

TypeOK ==
  /\ now \in Nat /\ crashes \in 0..MaxCrashes
  /\ account \in [Guest -> Account]
  /\ linked \subseteq Guest /\ mailed \subseteq Guest
  /\ session \in [BookingId -> SessionRow]
  /\ detail \in [BookingId -> AppointmentStatus]
  /\ request \in [BookingId -> RequestRow]
  /\ local \in [Request -> Local]

\* The salon has clients of its own; members come from other salons.
Init ==
  /\ now = 1 /\ crashes = 0
  /\ account \in [Guest -> {"member", "registered", "unknown"}]
  /\ linked = {g \in Guest : account[g] = "registered"}
  /\ mailed = {}
  /\ session = [b \in BookingId |-> NoSession]
  /\ detail = [b \in BookingId |-> "none"]
  /\ request = [b \in BookingId |-> NoRequest]
  /\ local = [p \in Request |-> Idle]

At(p, step) == local[p].step = step
Goto(p, next) == local' = [local EXCEPT ![p] = next]
Proceed(p, step) == Goto(p, [local[p] EXCEPT !.step = step])
Finish(p) == Goto(p, Idle)

-----------------------------------------------------------------------------
(* The agenda of the worker: session.service.ts *)

\* Scheduled or in progress: the completed leave their slot free.
Blocking(status) == status \in {"scheduled", "inProgress"}
OnlyScheduledBlock(b, slot) ==
  \E c \in BookingId \ {b} : Booked(c) /\ session[c].slot = slot /\ detail[c] = "scheduled"
WorkerClash(b, slot) ==
  \E c \in BookingId \ {b} : Booked(c) /\ session[c].slot = slot /\ Blocking(detail[c])

\* Sessions without details are of no salon.
ClientClash(guest, slot) ==
  \E c \in BookingsOf(guest) :
    session[c].slot = slot /\ session[c].status # "cancelled" /\ detail[c] # "none"

\* checkExistingSession: the same client, time and status.
SameSession(guest, slot) ==
  \E c \in BookingsOf(guest) : session[c].slot = slot /\ session[c].status = "scheduled"

-----------------------------------------------------------------------------
(* A guest books: createBooking *)

\* resolveGuestClient
OpenAccount(known) ==
  CASE known = "registered" -> "attached"
    [] known = "unknown" -> "created"
    [] OTHER -> "none"

BookByLink(p, g, slot, mode) ==
  /\ At(p, "idle")
  /\ \E b \in BookingId : ~Booked(b)
  /\ now < MaxNow
  /\ LET opened == OpenAccount(account[g])
     IN  /\ account' = [account EXCEPT ![g] = IF opened = "none" THEN @ ELSE opened]
         /\ Goto(p, [Idle EXCEPT !.step = "checkAgenda", !.wanted = <<g, slot>>,
                                 !.mode = mode, !.opened = opened])
  /\ UNCHANGED <<now, linked, mailed, agenda, request, crashes>>

CannotBook(p) ==
  IF local[p].opened = "none" THEN Finish(p) ELSE Proceed(p, "rollbackGuest")

CheckAgenda(p) ==
  /\ At(p, "checkAgenda")
  /\ LET guest == local[p].wanted[1]
         slot == local[p].wanted[2]
     IN  IF ClientClash(guest, slot) \/ WorkerClash(0, slot) \/ SameSession(guest, slot)
         THEN CannotBook(p)
         ELSE Proceed(p, "insertSession")
  /\ UNCHANGED <<now, guests, agenda, request, crashes>>

WithoutGuest(known, opened) == IF opened = "attached" THEN "registered" ELSE "unknown"

RollbackGuest(p) ==
  /\ At(p, "rollbackGuest")
  /\ LET guest == local[p].wanted[1]
         known == WithoutGuest(account[guest], local[p].opened)
     IN  /\ account' = [account EXCEPT ![guest] = known]
         /\ linked' = IF known = "unknown" THEN linked \ {guest} ELSE linked
  /\ Finish(p)
  /\ UNCHANGED <<now, mailed, agenda, request, crashes>>

\* createSessionForClient looks for the same session once more.
InsertSession(p) ==
  /\ At(p, "insertSession")
  /\ LET guest == local[p].wanted[1]
         slot == local[p].wanted[2]
     IN  IF SameSession(guest, slot)
         THEN CannotBook(p) /\ UNCHANGED session
         ELSE \E b \in BookingId :
                /\ ~Booked(b) /\ \A c \in 1..(b - 1) : Booked(c)
                /\ session' = [session EXCEPT ![b] = [status |-> "scheduled",
                                                      guest |-> guest, slot |-> slot]]
                /\ Goto(p, [local[p] EXCEPT !.step = "insertDetail", !.id = b])
  /\ UNCHANGED <<now, guests, detail, request, crashes>>

\* Only the booking that needs no approval puts the guest on the list.
AlwaysLinks(mode) == "linkNewClient"
AfterDetail(mode) == IF mode = "free" THEN "linkNewClient" ELSE "insertRequest"

InsertDetail(p) ==
  /\ At(p, "insertDetail")
  /\ detail' = [detail EXCEPT ![local[p].id] = "scheduled"]
  /\ Proceed(p, AfterDetail(local[p].mode))
  /\ UNCHANGED <<now, guests, session, request, crashes>>

LinkNewClient(p) ==
  /\ At(p, "linkNewClient")
  /\ linked' = linked \cup {local[p].wanted[1]}
  /\ Proceed(p, "insertRequest")
  /\ UNCHANGED <<now, account, mailed, agenda, request, crashes>>

FirstStatus(mode) ==
  CASE mode = "free" -> "confirmed"
    [] mode = "deposit" -> "pending_payment"
    [] OTHER -> "pending_approval"

InsertRequest(p) ==
  /\ At(p, "insertRequest")
  /\ LET free == local[p].mode = "free"
         isNewUser == local[p].opened # "none"
     IN  /\ request' = [request EXCEPT ![local[p].id] =
              [status |-> FirstStatus(local[p].mode),
               expiresAt |-> IF free THEN NoDate ELSE now + HoldTime,
               isNewAccount |-> isNewUser /\ ~free]]
         /\ mailed' = IF free /\ isNewUser THEN mailed \cup {local[p].wanted[1]} ELSE mailed
  /\ Finish(p)
  /\ UNCHANGED <<now, account, linked, agenda, crashes>>

-----------------------------------------------------------------------------
(* The verdict on the request: booking-requests.service.ts *)

\* findReviewable
AnyRequest(status) == status # "none"
Reviewable(status) == status \in PENDING_STATUSES

Approve(p, b) ==
  /\ At(p, "idle")
  /\ Reviewable(request[b].status)
  /\ Goto(p, [Idle EXCEPT !.step = "saveApproved", !.id = b,
                !.copy[b] = [request[b] EXCEPT !.status = "confirmed",
                                               !.expiresAt = NoDate]])
  /\ UNCHANGED <<now, guests, agenda, request, crashes>>

SaveApproved(p) ==
  /\ At(p, "saveApproved")
  /\ LET b == local[p].id
     IN  request' = [request EXCEPT ![b] = local[p].copy[b]]
  /\ Proceed(p, "linkClient")
  /\ UNCHANGED <<now, guests, agenda, crashes>>

OnTheList(guest) == IF account[guest] = "unknown" THEN linked ELSE linked \cup {guest}

LinkClientToCompany(p) ==
  /\ At(p, "linkClient")
  /\ LET b == local[p].id
     IN  /\ linked' = OnTheList(session[b].guest)
         /\ IF local[p].copy[b].isNewAccount THEN Proceed(p, "sendCredentials") ELSE Finish(p)
  /\ UNCHANGED <<now, account, mailed, agenda, request, crashes>>

SendNewAccountCredentials(p) ==
  /\ At(p, "sendCredentials")
  /\ LET guest == session[local[p].id].guest
     IN  mailed' = IF account[guest] \in HasLogin THEN mailed \cup {guest} ELSE mailed
  /\ Finish(p)
  /\ UNCHANGED <<now, account, linked, agenda, request, crashes>>

Reject(p, b) ==
  /\ At(p, "idle")
  /\ Reviewable(request[b].status)
  /\ Goto(p, [Idle EXCEPT !.step = "close", !.batch = {b},
                !.copy[b] = [request[b] EXCEPT !.status = "rejected",
                                               !.expiresAt = NoDate]])
  /\ UNCHANGED <<now, guests, agenda, request, crashes>>

\* expirePending: the batch is read at once and closed one by one.
OnlyUnapproved(row) == row.status = "pending_approval" /\ row.expiresAt < now
Expired(row) == row.status \in PENDING_STATUSES /\ row.expiresAt < now

ExpirePending(p) ==
  /\ At(p, "idle")
  /\ LET expired == {b \in BookingId : Expired(request[b])}
     IN  /\ expired # {}
         /\ Goto(p, [Idle EXCEPT !.step = "close", !.batch = expired,
                       !.copy = [b \in BookingId |->
                                   IF b \in expired
                                   THEN [request[b] EXCEPT !.status = "expired"]
                                   ELSE NoRequest]])
  /\ UNCHANGED <<now, guests, agenda, request, crashes>>

\* One transaction: the copy of the request, the session and its details.
CloseSession(p, b) ==
  /\ At(p, "close")
  /\ b \in local[p].batch /\ \A c \in local[p].batch : b <= c
  /\ request' = [request EXCEPT ![b] = local[p].copy[b]]
  /\ session' = [session EXCEPT ![b].status = "cancelled"]
  /\ detail' = [detail EXCEPT ![b] = "cancelled"]
  /\ IF local[p].batch = {b} THEN Finish(p)
     ELSE Goto(p, [local[p] EXCEPT !.batch = @ \ {b}])
  /\ UNCHANGED <<now, guests, crashes>>

-----------------------------------------------------------------------------
(* The appointment meanwhile: cancelSession and updateSessionStatus *)

\* By the salon or by the client; the session's status is not looked at again.
CancelSession(p, b) ==
  /\ At(p, "idle")
  /\ session[b].status \in {"scheduled", "inProgress"}
  /\ Goto(p, [Idle EXCEPT !.step = "cancel", !.id = b])
  /\ UNCHANGED <<now, guests, agenda, request, crashes>>

CommitCancellation(p) ==
  /\ At(p, "cancel")
  /\ session' = [session EXCEPT ![local[p].id].status = "cancelled"]
  /\ detail' = [detail EXCEPT ![local[p].id] =
                  IF @ = "none" THEN @ ELSE "cancelled"]
  /\ Finish(p)
  /\ UNCHANGED <<now, guests, request, crashes>>

UpdateSessionStatus(p, b, next) ==
  /\ At(p, "idle")
  /\ Booked(b)
  /\ Goto(p, [Idle EXCEPT !.step = "gate", !.id = b,
                          !.previous = session[b].status, !.next = next])
  /\ UNCHANGED <<now, guests, agenda, request, crashes>>

LinkBookingConfirmed(status, next) ==
  next \in {"inProgress", "completed"} => status \notin PENDING_STATUSES

Reactivation(p) ==
  local[p].previous = "cancelled" /\ local[p].next \in {"scheduled", "inProgress", "completed"}

AssertLinkBookingConfirmed(p) ==
  /\ At(p, "gate")
  /\ LET b == local[p].id
     IN  IF ~LinkBookingConfirmed(request[b].status, local[p].next) \/ detail[b] = "none"
         THEN Finish(p)
         ELSE Proceed(p, IF Reactivation(p) THEN "checkReactivation" ELSE "writeStatus")
  /\ UNCHANGED <<now, guests, agenda, request, crashes>>

CheckReactivation(p) ==
  /\ At(p, "checkReactivation")
  /\ LET b == local[p].id
     IN  IF detail[b] = "cancelled" /\ WorkerClash(b, session[b].slot)
         THEN Finish(p) ELSE Proceed(p, "writeStatus")
  /\ UNCHANGED <<now, guests, agenda, request, crashes>>

\* The cancelled details follow only when the session was cancelled too.
WriteStatus(p) ==
  /\ At(p, "writeStatus")
  /\ LET b == local[p].id
     IN  /\ session' = [session EXCEPT ![b].status = local[p].next]
         /\ detail' = [detail EXCEPT ![b] =
                         IF @ = "cancelled" /\ ~Reactivation(p) THEN @ ELSE local[p].next]
  /\ Finish(p)
  /\ UNCHANGED <<now, guests, request, crashes>>

-----------------------------------------------------------------------------

\* The clock of an instance runs until the last request has expired.
Booking(p) ==
  local[p].step \in {"checkAgenda", "rollbackGuest", "insertSession", "insertDetail",
                     "linkNewClient", "insertRequest"}
LastInstant == IF \E p \in Request : Booking(p) THEN MaxNow ELSE MaxNow + HoldTime + 1

Tick ==
  /\ now < LastInstant
  /\ now' = now + 1
  /\ UNCHANGED <<guests, agenda, request, crashes, local>>

\* The request dies; what it wrote stays.
Fail(p) ==
  /\ ~At(p, "idle")
  /\ crashes < MaxCrashes
  /\ crashes' = crashes + 1
  /\ Finish(p)
  /\ UNCHANGED <<now, guests, agenda, request>>

RequestStep(p) ==
  \/ CheckAgenda(p) \/ RollbackGuest(p) \/ InsertSession(p) \/ InsertDetail(p)
  \/ LinkNewClient(p) \/ InsertRequest(p)
  \/ SaveApproved(p) \/ LinkClientToCompany(p) \/ SendNewAccountCredentials(p)
  \/ \E b \in BookingId : CloseSession(p, b)
  \/ CommitCancellation(p)
  \/ AssertLinkBookingConfirmed(p) \/ CheckReactivation(p) \/ WriteStatus(p)

Arrival(p) ==
  \/ \E g \in Guest, slot \in Slot, mode \in Mode : BookByLink(p, g, slot, mode)
  \/ \E b \in BookingId : Approve(p, b) \/ Reject(p, b) \/ CancelSession(p, b)
  \/ \E b \in BookingId, next \in AppointmentStatus \ {"none"} : UpdateSessionStatus(p, b, next)
  \/ ExpirePending(p)

Next == Tick \/ \E p \in Request : RequestStep(p) \/ Arrival(p) \/ Fail(p)

Spec == Init /\ [][Next]_vars

\* Node resumes every request whose awaited call has answered, the clock runs,
\* and the cron fires every five minutes whatever else the process is doing.
Fairness ==
  /\ WF_vars(Tick)
  /\ \A p \in Request : WF_vars(RequestStep(p)) /\ SF_vars(ExpirePending(p))

FairSpec == Spec /\ Fairness

-----------------------------------------------------------------------------
(* Properties *)

Quiet == \A p \in Request : At(p, "idle")

\* A new booking, and an appointment brought back from its cancellation, never
\* share the worker's time with a scheduled or started one
\* (checkIfWorkerHasAppointmentAtSameTime, updateSessionStatus).
NewAppointmentsFit ==
  [][\A b \in BookingId :
       Blocking(detail'[b]) /\ detail[b] \in {"none", "cancelled"} =>
         \A c \in BookingId \ {b} :
           session'[c].status # "none" /\ session'[c].slot = session'[b].slot =>
             ~Blocking(detail'[c])]_vars

\* No service is started or finished while its booking waits for the salon's
\* approval or for the check of its deposit (assertLinkBookingConfirmed).
NotStartedWhilePending ==
  \A b \in BookingId :
    request[b].status \in PENDING_STATUSES =>
      session[b].status \notin {"inProgress", "completed"}

\* A verdict is final: a booking that was confirmed, rejected or let expire
\* keeps that status (findReviewable, expirePending).
DecidedOnce ==
  [][\A b \in BookingId :
       request[b].status \in Decided => request'[b].status = request[b].status]_vars

\* A guest of whom nothing was confirmed is not put on the salon's list of
\* clients nor sent credentials.  A booking with no request is one that died
\* before its last insert (createBooking, approve).
EffectsNeedConfirmation ==
  \A g \in Guest :
    g \in mailed \/ (g \in linked /\ account[g] \in {"member", "created", "unknown"}) =>
      \E b \in BookingsOf(g) : request[b].status \in {"confirmed", "none"}

\* With nothing in progress, whoever has a confirmed booking is a client of the
\* salon (linkClientToCompany).
ConfirmedIsClient ==
  Quiet /\ crashes = 0 =>
    \A b \in BookingId : request[b].status = "confirmed" => session[b].guest \in linked

\* "No se deja una cuenta huérfana": with nothing in progress, an account that
\* a booking opened has a booking (rollbackGuest).
NoOrphanAccount ==
  Quiet /\ crashes = 0 =>
    \A g \in Guest : account[g] \in {"created", "attached"} => BookingsOf(g) # {}

\* Undoing the account of a booking that failed never takes away the client of
\* an appointment (createBooking undoes only the account it created).
AppointmentHasItsClient ==
  \A g \in Guest : BookingsOf(g) # {} => account[g] # "unknown"

\* A booking that waits for the salon does not wait for ever: somebody decides
\* it or it expires (expirePending).
PendingIsDecided ==
  \A b \in BookingId :
    request[b].status \in PENDING_STATUSES ~> request[b].status \in Decided

\* A booking, its appointment, its guest's account and the salon's list agree
\* whatever the salon decides, and whatever fails on the way (createBooking, approve).
BookingAgrees ==
  /\ TypeOK /\ NotStartedWhilePending /\ EffectsNeedConfirmation
  /\ ConfirmedIsClient /\ NoOrphanAccount /\ AppointmentHasItsClient

=============================================================================
