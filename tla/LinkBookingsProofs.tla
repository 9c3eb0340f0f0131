-------------------------- MODULE LinkBookingsProofs --------------------------
(***************************************************************************)
(* Theorems about LinkBookings, for every set of guests, slots and modes:  *)
(* type correctness however many requests interleave, and, of a salon      *)
(* whose requests come one at a time, that a booking, its appointment, the *)
(* account of its guest and the salon's list agree.                        *)
(***************************************************************************)
EXTENDS LinkBookings, TLAPS

-----------------------------------------------------------------------------
(* What a request in progress holds is there, and has its type. *)

OfABooking ==
  {"insertDetail", "linkNewClient", "insertRequest", "saveApproved", "linkClient",
   "sendCredentials", "cancel", "gate", "checkReactivation", "writeStatus"}
OfAGuest ==
  {"checkAgenda", "rollbackGuest", "insertSession", "insertDetail", "linkNewClient",
   "insertRequest"}

\* A request about bookings works on bookings that were made.
Holds(memory) ==
  /\ memory.step \in OfABooking => memory.id \in BookingId /\ Booked(memory.id)
  /\ memory.step \in OfAGuest => memory.wanted \in Guest \X Slot
  /\ memory.step = "close" => \A b \in memory.batch : Booked(b)
  /\ memory.step \in {"gate", "checkReactivation", "writeStatus"} => memory.next # "none"

RowsExist ==
  /\ \A b \in BookingId : request[b].status # "none" => Booked(b)
  /\ \A p \in Request : Holds(local[p])

LEMMA LocalType ==
  ASSUME TypeOK, NEW p \in Request
  PROVE  /\ local[p] \in Local
         /\ local[p].id \in BookingId \cup {0}
         /\ local[p].mode \in Mode \cup {"none"}
         /\ local[p].opened \in {"none", "created", "attached"}
         /\ local[p].batch \subseteq BookingId
         /\ local[p].copy \in [BookingId -> RequestRow]
         /\ local[p].previous \in AppointmentStatus
         /\ local[p].next \in AppointmentStatus
<1>1. local[p] \in Local
  BY DEF TypeOK
<1>. QED BY <1>1 DEF Local

LEMMA IdleType == Idle \in Local /\ Holds(Idle)
<1>1. NoRequest \in RequestRow
  BY DEF NoRequest, RequestRow, NoDate
<1>2. Idle \in Local
  BY <1>1 DEF Idle, Local, Step, AppointmentStatus
<1>3. Holds(Idle)
  BY DEF Idle, Holds, OfABooking, OfAGuest
<1>. QED BY <1>2, <1>3

\* A booking that was made is a session with its guest and its slot.
LEMMA BookedRow ==
  ASSUME TypeOK, NEW b \in BookingId, Booked(b)
  PROVE  /\ session[b] \in [status: AppointmentStatus, guest: Guest, slot: Slot]
         /\ session[b].guest \in Guest /\ session[b].slot \in Slot
<1>1. session[b] \in SessionRow
  BY DEF TypeOK
<1>. QED BY <1>1 DEF SessionRow, Booked

\* Bookings are never unmade.
BookedStay == \A b \in BookingId : Booked(b) => Booked(b)'

LEMMA HoldsStays ==
  ASSUME NEW memory \in Local, Holds(memory), BookedStay
  PROVE  Holds(memory)'
<1>1. memory.batch \subseteq BookingId
  BY DEF Local
<1>. QED BY <1>1 DEF Holds, BookedStay

\* A step of one request, seen from what all of them hold.
LEMMA RowsKept ==
  ASSUME TypeOK, RowsExist, NEW p \in Request, NEW next \in Local, Goto(p, next),
         Holds(next)', BookedStay,
         \A b \in BookingId : request'[b].status # "none" => Booked(b)'
  PROVE  RowsExist' /\ local' \in [Request -> Local]
<1>1. local' \in [Request -> Local]
  BY DEF TypeOK, Goto
<1>2. ASSUME NEW q \in Request PROVE Holds(local[q])'
  <2>1. CASE q = p
    <3>1. local'[q] = next
      BY <2>1 DEF Goto, TypeOK
    <3>. QED BY <3>1 DEF Holds
  <2>2. CASE q # p
    <3>1. PICK memory : memory = local[q]
      OBVIOUS
    <3>2. memory \in Local /\ Holds(memory) /\ local'[q] = memory
      BY <2>2, <3>1 DEF Goto, TypeOK, RowsExist
    <3>3. Holds(memory)'
      BY <3>2, HoldsStays
    <3>. QED BY <3>2, <3>3 DEF Holds
  <2>. QED BY <2>1, <2>2
<1>. QED BY <1>1, <1>2 DEF RowsExist

LEMMA OnlyMemory ==
  ASSUME TypeOK, RowsExist, NEW p \in Request, NEW next \in Local, Goto(p, next),
         Holds(next), UNCHANGED <<now, guests, agenda, request, crashes>>
  PROVE  TypeOK' /\ RowsExist'
<1>1. BookedStay /\ \A b \in BookingId : request'[b].status # "none" => Booked(b)'
  BY DEF BookedStay, Booked, agenda, RowsExist
<1>2. RowsExist' /\ local' \in [Request -> Local]
  BY <1>1, HoldsStays, RowsKept
<1>. QED BY <1>2 DEF TypeOK, guests, agenda

\* A request that moves on with what it holds.
LEMMA ProceedHolds ==
  ASSUME TypeOK, RowsExist, NEW p \in Request, NEW step \in Step \ {"close"},
         local[p].step \in OfABooking \/ step \notin OfABooking,
         local[p].step \in OfAGuest \/ step \notin OfAGuest,
         local[p].step \in {"gate", "checkReactivation", "writeStatus"} \/
           step \notin {"gate", "checkReactivation", "writeStatus"},
         NEW next, next = [local[p] EXCEPT !.step = step]
  PROVE  next \in Local /\ Holds(next)
<1>1. local[p] \in Local /\ Holds(local[p])
  BY LocalType DEF RowsExist
<1>2. /\ next \in Local /\ next.step = step /\ next.id = local[p].id
      /\ next.wanted = local[p].wanted /\ next.next = local[p].next
  BY <1>1 DEF Local
<1>. QED BY <1>1, <1>2 DEF Holds

-----------------------------------------------------------------------------
(* Every step keeps the types and the rows: one lemma per kind of action. *)

LEMMA GuestArrivesType ==
  ASSUME TypeOK, RowsExist, NEW p \in Request, NEW g \in Guest, NEW slot \in Slot,
         NEW mode \in Mode, BookByLink(p, g, slot, mode)
  PROVE  TypeOK' /\ RowsExist'
<1>1. PICK opened : opened = OpenAccount(account[g])
  OBVIOUS
<1>2. opened \in {"none", "created", "attached"}
  BY <1>1 DEF OpenAccount
<1>3. PICK next : next = [Idle EXCEPT !.step = "checkAgenda", !.wanted = <<g, slot>>,
                                      !.mode = mode, !.opened = opened]
  OBVIOUS
<1>4. next \in Local /\ next.step = "checkAgenda" /\ next.wanted = <<g, slot>>
  BY <1>2, <1>3, IdleType DEF Local, Step, Idle
<1>5. Holds(next)'
  BY <1>4 DEF Holds, OfABooking, OfAGuest
<1>6. /\ Goto(p, next) /\ UNCHANGED <<now, linked, mailed, agenda, request, crashes>>
      /\ account' = [account EXCEPT ![g] = IF opened = "none" THEN @ ELSE opened]
  BY <1>1, <1>3 DEF BookByLink
<1>7. account' \in [Guest -> Account]
  BY <1>2, <1>6 DEF TypeOK, Account
<1>8. BookedStay /\ \A b \in BookingId : request'[b].status # "none" => Booked(b)'
  BY <1>6 DEF BookedStay, Booked, agenda, RowsExist
<1>9. RowsExist' /\ local' \in [Request -> Local]
  BY <1>4, <1>5, <1>6, <1>8, RowsKept
<1>. QED BY <1>6, <1>7, <1>9 DEF TypeOK, agenda

LEMMA CannotBookType ==
  ASSUME TypeOK, RowsExist, NEW p \in Request, CannotBook(p),
         At(p, "checkAgenda") \/ At(p, "insertSession")
  PROVE  \E next \in Local : Goto(p, next) /\ Holds(next)
<1>1. PICK next : next = [local[p] EXCEPT !.step = "rollbackGuest"]
  OBVIOUS
<1>2. next \in Local /\ Holds(next)
  BY <1>1, ProceedHolds DEF At, Step, OfABooking, OfAGuest
<1>. QED BY <1>1, <1>2, IdleType DEF CannotBook, Finish, Proceed

LEMMA CheckAgendaType ==
  ASSUME TypeOK, RowsExist, NEW p \in Request, CheckAgenda(p)
  PROVE  TypeOK' /\ RowsExist'
<1>1. PICK next : next = [local[p] EXCEPT !.step = "insertSession"]
  OBVIOUS
<1>2. next \in Local /\ Holds(next)
  BY <1>1, ProceedHolds DEF CheckAgenda, At, Step, OfABooking, OfAGuest
<1>3. \E l \in Local : Goto(p, l) /\ Holds(l)
  BY <1>1, <1>2, CannotBookType DEF CheckAgenda, Proceed
<1>. QED BY <1>3, OnlyMemory DEF CheckAgenda

LEMMA RollbackGuestType ==
  ASSUME TypeOK, RowsExist, NEW p \in Request, RollbackGuest(p)
  PROVE  TypeOK' /\ RowsExist'
<1>1. account' \in [Guest -> Account] /\ linked' \subseteq Guest
  BY DEF RollbackGuest, WithoutGuest, TypeOK, Account
<1>2. BookedStay /\ \A b \in BookingId : request'[b].status # "none" => Booked(b)'
  BY DEF RollbackGuest, BookedStay, Booked, agenda, RowsExist
<1>3. Holds(Idle)'
  BY DEF Idle, Holds, OfABooking, OfAGuest
<1>4. RowsExist' /\ local' \in [Request -> Local]
  BY <1>2, <1>3, IdleType, RowsKept DEF RollbackGuest, Finish
<1>. QED BY <1>1, <1>4 DEF RollbackGuest, TypeOK, agenda

LEMMA InsertSessionType ==
  ASSUME TypeOK, RowsExist, NEW p \in Request, InsertSession(p)
  PROVE  TypeOK' /\ RowsExist'
<1>1. CASE UNCHANGED session
  <2>1. CASE CannotBook(p)
    <3>1. \E next \in Local : Goto(p, next) /\ Holds(next)
      BY <2>1, CannotBookType DEF InsertSession
    <3>. QED BY <1>1, <3>1, OnlyMemory DEF InsertSession, agenda
  <2>2. CASE ~CannotBook(p)
    <3>1. PICK b \in BookingId :
            ~Booked(b) /\ session' = [session EXCEPT ![b] = [status |-> "scheduled",
              guest |-> local[p].wanted[1], slot |-> local[p].wanted[2]]]
      BY <2>2 DEF InsertSession
    <3>2. session'[b].status = "scheduled"
      BY <3>1 DEF TypeOK
    <3>. QED BY <1>1, <3>1, <3>2 DEF Booked
  <2>. QED BY <2>1, <2>2
<1>2. CASE session' # session
  <2>1. PICK b \in BookingId :
          /\ ~Booked(b)
          /\ session' = [session EXCEPT ![b] = [status |-> "scheduled",
               guest |-> local[p].wanted[1], slot |-> local[p].wanted[2]]]
          /\ Goto(p, [local[p] EXCEPT !.step = "insertDetail", !.id = b])
    BY <1>2 DEF InsertSession
  <2>2. PICK next : next = [local[p] EXCEPT !.step = "insertDetail", !.id = b]
    OBVIOUS
  <2>3. /\ next \in Local /\ next.step = "insertDetail" /\ next.id = b
        /\ next.wanted = local[p].wanted
    BY <2>2, LocalType, ZenonT(30) DEF Local, Step
  <2>4. local[p].wanted \in Guest \X Slot
    BY DEF RowsExist, Holds, InsertSession, At, OfAGuest
  <2>5. session'[b] = [status |-> "scheduled", guest |-> local[p].wanted[1],
                       slot |-> local[p].wanted[2]]
    BY <2>1 DEF TypeOK
  <2>6. session' \in [BookingId -> SessionRow]
    BY <2>1, <2>4 DEF TypeOK, SessionRow, AppointmentStatus
  <2>7. Booked(b)' /\ BookedStay
    BY <2>1, <2>5 DEF Booked, BookedStay, TypeOK
  <2>8. Holds(next)'
    BY <2>3, <2>4, <2>7 DEF Holds, OfABooking, OfAGuest
  <2>9. \A c \in BookingId : request'[c].status # "none" => Booked(c)'
    BY <2>7 DEF InsertSession, RowsExist, BookedStay
  <2>10. RowsExist' /\ local' \in [Request -> Local]
    BY <2>1, <2>2, <2>3, <2>7, <2>8, <2>9, RowsKept
  <2>. QED BY <2>6, <2>10 DEF InsertSession, TypeOK, guests
<1>. QED BY <1>1, <1>2

\* Steps that leave the sessions alone.
LEMMA SessionsKept ==
  ASSUME TypeOK, RowsExist, NEW p \in Request, NEW next \in Local, Goto(p, next),
         Holds(next), UNCHANGED session,
         \A b \in BookingId : request'[b].status # "none" => Booked(b)
  PROVE  RowsExist' /\ local' \in [Request -> Local]
<1>1. BookedStay /\ \A b \in BookingId : request'[b].status # "none" => Booked(b)'
  BY DEF BookedStay, Booked
<1>. QED BY <1>1, HoldsStays, RowsKept

LEMMA NewBookingType ==
  ASSUME TypeOK, RowsExist, NEW p \in Request,
         InsertDetail(p) \/ LinkNewClient(p) \/ InsertRequest(p)
  PROVE  TypeOK' /\ RowsExist'
<1>1. Holds(local[p]) /\ local[p] \in Local
  BY LocalType DEF RowsExist
<1>2. /\ local[p].wanted \in Guest \X Slot /\ local[p].id \in BookingId /\ Booked(local[p].id)
  BY <1>1 DEF InsertDetail, LinkNewClient, InsertRequest, At, Holds, OfABooking, OfAGuest
<1>3. CASE InsertDetail(p) \/ LinkNewClient(p)
  <2>1. PICK step \in {"linkNewClient", "insertRequest"} : Proceed(p, step)
    BY <1>3 DEF InsertDetail, LinkNewClient, AfterDetail
  <2>2. PICK next : next = [local[p] EXCEPT !.step = step]
    OBVIOUS
  <2>3. next \in Local /\ Holds(next)
    BY <1>3, <2>2, ProceedHolds
    DEF InsertDetail, LinkNewClient, At, Step, OfABooking, OfAGuest
  <2>4. RowsExist' /\ local' \in [Request -> Local]
    BY <1>3, <2>1, <2>2, <2>3, SessionsKept
    DEF Proceed, InsertDetail, LinkNewClient, agenda, RowsExist
  <2>5. detail' \in [BookingId -> AppointmentStatus] /\ linked' \subseteq Guest
    BY <1>2, <1>3 DEF InsertDetail, LinkNewClient, TypeOK, agenda, guests, AppointmentStatus
  <2>. QED BY <1>3, <2>4, <2>5 DEF InsertDetail, LinkNewClient, TypeOK, agenda, guests
<1>4. CASE InsertRequest(p)
  <2>1. PICK row : row =
          [status |-> FirstStatus(local[p].mode),
           expiresAt |-> IF local[p].mode = "free" THEN NoDate ELSE now + HoldTime,
           isNewAccount |-> local[p].opened # "none" /\ local[p].mode # "free"]
    OBVIOUS
  <2>2. request' = [request EXCEPT ![local[p].id] = row]
    BY <1>4, <2>1 DEF InsertRequest
  <2>3. row \in RequestRow
    <3>1. FirstStatus(local[p].mode) \in PENDING_STATUSES \cup Decided \cup {"none"}
      BY DEF FirstStatus, PENDING_STATUSES, Decided
    <3>2. now + HoldTime \in Nat
      BY BookingAssumption DEF TypeOK
    <3>. QED BY <2>1, <3>1, <3>2 DEF RequestRow, NoDate
  <2>4. request' \in [BookingId -> RequestRow]
    BY <2>2, <2>3 DEF TypeOK
  <2>5. \A b \in BookingId : request'[b].status # "none" => Booked(b)
    BY <1>2, <2>2 DEF RowsExist, TypeOK
  <2>6. RowsExist' /\ local' \in [Request -> Local]
    BY <1>4, <2>5, IdleType, SessionsKept DEF InsertRequest, Finish, agenda
  <2>7. mailed' \subseteq Guest
    BY <1>2, <1>4 DEF InsertRequest, TypeOK
  <2>. QED BY <1>4, <2>4, <2>6, <2>7 DEF InsertRequest, TypeOK, agenda
<1>. QED BY <1>3, <1>4

LEMMA VerdictArrivesType ==
  ASSUME TypeOK, RowsExist, NEW p \in Request,
         ExpirePending(p) \/ \E b \in BookingId : Approve(p, b) \/ Reject(p, b)
  PROVE  TypeOK' /\ RowsExist'
<1>1. \A b \in BookingId : Reviewable(request[b].status) \/ Expired(request[b]) => Booked(b)
  BY DEF Reviewable, Expired, PENDING_STATUSES, RowsExist
<1>2. \A b \in BookingId, status \in Decided :
        /\ [request[b] EXCEPT !.status = status] \in RequestRow
        /\ [request[b] EXCEPT !.status = status, !.expiresAt = NoDate] \in RequestRow
  BY DEF TypeOK, RequestRow, NoDate
<1>3. PICK blank : blank = Idle.copy
  OBVIOUS
<1>4. blank \in [BookingId -> RequestRow]
  BY <1>3, IdleType DEF Local
<1>5. CASE ExpirePending(p)
  <2>. DEFINE expired == {b \in BookingId : Expired(request[b])}
  <2>1. PICK copy : copy = [b \in BookingId |-> IF b \in expired
                              THEN [request[b] EXCEPT !.status = "expired"] ELSE NoRequest]
    OBVIOUS
  <2>2. NoRequest \in RequestRow
    BY DEF NoRequest, RequestRow, NoDate
  <2>3. copy \in [BookingId -> RequestRow]
    BY <1>2, <2>1, <2>2 DEF Decided
  <2>4. PICK next : next = [Idle EXCEPT !.step = "close", !.batch = expired, !.copy = copy]
    OBVIOUS
  <2>5. next \in Local /\ next.step = "close" /\ next.batch = expired
    BY <2>3, <2>4, IdleType DEF Local, Step, Idle
  <2>6. Holds(next)
    BY <1>1, <2>5 DEF Holds, OfABooking, OfAGuest
  <2>7. Goto(p, next)
    BY <1>5, <2>1, <2>4 DEF ExpirePending
  <2>. QED BY <1>5, <2>5, <2>6, <2>7, OnlyMemory DEF ExpirePending
<1>6. ASSUME NEW b \in BookingId, Approve(p, b)
      PROVE  TypeOK' /\ RowsExist'
  <2>1. PICK row : row = [request[b] EXCEPT !.status = "confirmed", !.expiresAt = NoDate]
    OBVIOUS
  <2>2. row \in RequestRow
    BY <1>2, <2>1 DEF Decided
  <2>3. PICK next : next = [Idle EXCEPT !.step = "saveApproved", !.id = b, !.copy[b] = row]
    OBVIOUS
  <2>4. next \in Local /\ next.step = "saveApproved" /\ next.id = b
    BY <1>3, <1>4, <2>2, <2>3, IdleType DEF Local, Step, Idle
  <2>5. Holds(next)
    BY <1>1, <1>6, <2>4 DEF Approve, Holds, OfABooking, OfAGuest
  <2>6. Goto(p, next)
    BY <1>6, <2>1, <2>3 DEF Approve
  <2>. QED BY <1>6, <2>4, <2>5, <2>6, OnlyMemory DEF Approve
<1>7. ASSUME NEW b \in BookingId, Reject(p, b)
      PROVE  TypeOK' /\ RowsExist'
  <2>1. PICK row : row = [request[b] EXCEPT !.status = "rejected", !.expiresAt = NoDate]
    OBVIOUS
  <2>2. row \in RequestRow
    BY <1>2, <2>1 DEF Decided
  <2>3. PICK next : next = [Idle EXCEPT !.step = "close", !.batch = {b}, !.copy[b] = row]
    OBVIOUS
  <2>4. next \in Local /\ next.step = "close" /\ next.batch = {b}
    BY <1>3, <1>4, <2>2, <2>3, IdleType DEF Local, Step, Idle
  <2>5. Holds(next)
    BY <1>1, <1>7, <2>4 DEF Reject, Holds, OfABooking, OfAGuest
  <2>6. Goto(p, next)
    BY <1>7, <2>1, <2>3 DEF Reject
  <2>. QED BY <1>7, <2>4, <2>5, <2>6, OnlyMemory DEF Reject
<1>. QED BY <1>5, <1>6, <1>7

LEMMA ApprovedType ==
  ASSUME TypeOK, RowsExist, NEW p \in Request,
         SaveApproved(p) \/ LinkClientToCompany(p) \/ SendNewAccountCredentials(p)
  PROVE  TypeOK' /\ RowsExist'
<1>1. Holds(local[p]) /\ local[p] \in Local
  BY LocalType DEF RowsExist
<1>2. local[p].id \in BookingId /\ Booked(local[p].id)
  BY <1>1 DEF SaveApproved, LinkClientToCompany, SendNewAccountCredentials, At, Holds, OfABooking
<1>3. session[local[p].id].guest \in Guest
  BY <1>2, BookedRow
<1>4. CASE SaveApproved(p)
  <2>1. PICK next : next = [local[p] EXCEPT !.step = "linkClient"]
    OBVIOUS
  <2>2. next \in Local /\ Holds(next)
    BY <1>4, <2>1, ProceedHolds DEF SaveApproved, At, Step, OfABooking, OfAGuest
  <2>3. request' = [request EXCEPT ![local[p].id] = local[p].copy[local[p].id]]
    BY <1>4 DEF SaveApproved
  <2>4. local[p].copy[local[p].id] \in RequestRow
    BY <1>2, LocalType
  <2>5. request' \in [BookingId -> RequestRow]
    BY <2>3, <2>4 DEF TypeOK
  <2>6. \A b \in BookingId : request'[b].status # "none" => Booked(b)
    BY <1>2, <2>3 DEF RowsExist, TypeOK
  <2>7. RowsExist' /\ local' \in [Request -> Local]
    BY <1>4, <2>1, <2>2, <2>6, SessionsKept DEF SaveApproved, Proceed, agenda
  <2>. QED BY <1>4, <2>5, <2>7 DEF SaveApproved, TypeOK, agenda, guests
<1>5. CASE LinkClientToCompany(p)
  <2>1. PICK next : next = [local[p] EXCEPT !.step = "sendCredentials"]
    OBVIOUS
  <2>2. next \in Local /\ Holds(next)
    BY <1>5, <2>1, ProceedHolds DEF LinkClientToCompany, At, Step, OfABooking, OfAGuest
  <2>3. \E l \in Local : Goto(p, l) /\ Holds(l)
    BY <1>5, <2>1, <2>2, IdleType DEF LinkClientToCompany, Proceed, Finish
  <2>4. RowsExist' /\ local' \in [Request -> Local]
    BY <1>5, <2>3, SessionsKept DEF LinkClientToCompany, agenda, RowsExist
  <2>5. linked' \subseteq Guest
    BY <1>3, <1>5 DEF LinkClientToCompany, OnTheList, TypeOK
  <2>. QED BY <1>5, <2>4, <2>5 DEF LinkClientToCompany, TypeOK, agenda
<1>6. CASE SendNewAccountCredentials(p)
  <2>1. RowsExist' /\ local' \in [Request -> Local]
    BY <1>6, IdleType, SessionsKept DEF SendNewAccountCredentials, Finish, agenda, RowsExist
  <2>2. mailed' \subseteq Guest
    BY <1>3, <1>6 DEF SendNewAccountCredentials, TypeOK
  <2>. QED BY <1>6, <2>1, <2>2 DEF SendNewAccountCredentials, TypeOK, agenda
<1>. QED BY <1>4, <1>5, <1>6

\* A session that changes its status stays the session of its guest and slot.
LEMMA StatusWritten ==
  ASSUME TypeOK, RowsExist, NEW b \in BookingId, Booked(b),
         NEW status \in AppointmentStatus \ {"none"},
         session' = [session EXCEPT ![b].status = status]
  PROVE  /\ session' \in [BookingId -> SessionRow] /\ BookedStay
         /\ session'[b].status = status /\ session'[b].guest = session[b].guest
         /\ session'[b].slot = session[b].slot
         /\ \A c \in BookingId : c # b => session'[c] = session[c]
<1>1. PICK row : row = [session[b] EXCEPT !.status = status]
  OBVIOUS
<1>2. /\ row \in [status: AppointmentStatus, guest: Guest, slot: Slot]
      /\ row.status = status /\ row.guest = session[b].guest /\ row.slot = session[b].slot
  BY <1>1, BookedRow
<1>3. session'[b] = row /\ \A c \in BookingId : c # b => session'[c] = session[c]
  BY <1>1 DEF TypeOK
<1>4. session' = [session EXCEPT ![b] = row]
  BY <1>1
<1>5. session' \in [BookingId -> SessionRow]
  BY <1>2, <1>4 DEF TypeOK, SessionRow
<1>6. BookedStay
  BY <1>2, <1>3 DEF BookedStay, Booked
<1>. QED BY <1>2, <1>3, <1>5, <1>6

LEMMA CloseSessionType ==
  ASSUME TypeOK, RowsExist, NEW p \in Request, NEW b \in BookingId, CloseSession(p, b)
  PROVE  TypeOK' /\ RowsExist'
<1>1. Holds(local[p]) /\ local[p] \in Local /\ Booked(b)
  BY LocalType DEF RowsExist, CloseSession, At, Holds
<1>2. session' \in [BookingId -> SessionRow] /\ BookedStay
  BY <1>1, StatusWritten DEF CloseSession, AppointmentStatus
<1>3. /\ detail' \in [BookingId -> AppointmentStatus]
      /\ request' \in [BookingId -> RequestRow]
  BY LocalType DEF CloseSession, TypeOK, AppointmentStatus
<1>4. PICK next : next = [local[p] EXCEPT !.batch = @ \ {b}]
  OBVIOUS
<1>5. next \in Local /\ next.step = "close" /\ next.batch = local[p].batch \ {b}
  BY <1>1, <1>4 DEF Local, CloseSession, At
<1>6. Holds(next)
  BY <1>1, <1>5 DEF Holds, OfABooking, OfAGuest, CloseSession, At
<1>7. \E l \in Local : Goto(p, l) /\ Holds(l)'
  BY <1>2, <1>4, <1>5, <1>6, IdleType, HoldsStays DEF CloseSession, Finish
<1>8. \A c \in BookingId : request'[c].status # "none" => Booked(c)'
  BY <1>1, <1>2 DEF CloseSession, RowsExist, BookedStay, TypeOK
<1>9. RowsExist' /\ local' \in [Request -> Local]
  BY <1>2, <1>7, <1>8, RowsKept
<1>. QED BY <1>2, <1>3, <1>9 DEF CloseSession, TypeOK, guests

LEMMA StatusType ==
  ASSUME TypeOK, RowsExist, NEW p \in Request, CommitCancellation(p) \/ WriteStatus(p)
  PROVE  TypeOK' /\ RowsExist'
<1>1. Holds(local[p]) /\ local[p] \in Local
  BY LocalType DEF RowsExist
<1>2. local[p].id \in BookingId /\ Booked(local[p].id)
  BY <1>1 DEF CommitCancellation, WriteStatus, At, Holds, OfABooking
<1>3. PICK status \in AppointmentStatus \ {"none"} :
        session' = [session EXCEPT ![local[p].id].status = status]
  BY <1>1, LocalType DEF CommitCancellation, WriteStatus, At, Holds, AppointmentStatus
<1>4. session' \in [BookingId -> SessionRow] /\ BookedStay
  BY <1>2, <1>3, StatusWritten
<1>5. detail' \in [BookingId -> AppointmentStatus]
  BY LocalType DEF CommitCancellation, WriteStatus, TypeOK, AppointmentStatus
<1>6. Goto(p, Idle) /\ UNCHANGED <<now, guests, request, crashes>>
  BY DEF CommitCancellation, WriteStatus, Finish
<1>7. Holds(Idle)'
  BY <1>4, IdleType, HoldsStays
<1>8. \A c \in BookingId : request'[c].status # "none" => Booked(c)'
  BY <1>4, <1>6 DEF RowsExist, BookedStay
<1>9. RowsExist' /\ local' \in [Request -> Local]
  BY <1>4, <1>6, <1>7, <1>8, IdleType, RowsKept
<1>. QED BY <1>4, <1>5, <1>6, <1>9 DEF TypeOK, guests

LEMMA StatusAskedType ==
  ASSUME TypeOK, RowsExist, NEW p \in Request,
         \/ \E b \in BookingId : CancelSession(p, b)
         \/ \E b \in BookingId, next \in AppointmentStatus \ {"none"} :
              UpdateSessionStatus(p, b, next)
         \/ AssertLinkBookingConfirmed(p) \/ CheckReactivation(p)
  PROVE  TypeOK' /\ RowsExist'
<1>1. ASSUME NEW b \in BookingId, CancelSession(p, b)
      PROVE  TypeOK' /\ RowsExist'
  <2>1. PICK next : next = [Idle EXCEPT !.step = "cancel", !.id = b]
    OBVIOUS
  <2>2. next \in Local /\ next.step = "cancel" /\ next.id = b
    BY <2>1, IdleType DEF Local, Step, Idle
  <2>3. Holds(next)
    BY <1>1, <2>2 DEF CancelSession, Booked, Holds, OfABooking, OfAGuest
  <2>. QED BY <1>1, <2>1, <2>2, <2>3, OnlyMemory DEF CancelSession
<1>2. ASSUME NEW b \in BookingId, NEW status \in AppointmentStatus \ {"none"},
             UpdateSessionStatus(p, b, status)
      PROVE  TypeOK' /\ RowsExist'
  <2>1. PICK next : next = [Idle EXCEPT !.step = "gate", !.id = b,
                                        !.previous = session[b].status, !.next = status]
    OBVIOUS
  <2>2. session[b].status \in AppointmentStatus
    BY <1>2, BookedRow DEF UpdateSessionStatus
  <2>3. next \in Local /\ next.step = "gate" /\ next.id = b /\ next.next = status
    BY <2>1, <2>2, IdleType DEF Local, Step, Idle
  <2>4. Holds(next)
    BY <1>2, <2>3 DEF UpdateSessionStatus, Holds, OfABooking, OfAGuest
  <2>. QED BY <1>2, <2>1, <2>3, <2>4, OnlyMemory DEF UpdateSessionStatus
<1>3. CASE AssertLinkBookingConfirmed(p) \/ CheckReactivation(p)
  <2>1. ASSUME NEW step \in {"checkReactivation", "writeStatus"}, Proceed(p, step)
        PROVE  TypeOK' /\ RowsExist'
    <3>1. PICK next : next = [local[p] EXCEPT !.step = step]
      OBVIOUS
    <3>2. next \in Local /\ Holds(next)
      BY <1>3, <3>1, ProceedHolds
      DEF AssertLinkBookingConfirmed, CheckReactivation, At, Step, OfABooking, OfAGuest
    <3>. QED
      BY <1>3, <2>1, <3>1, <3>2, OnlyMemory
      DEF Proceed, AssertLinkBookingConfirmed, CheckReactivation
  <2>2. CASE Finish(p)
    BY <1>3, <2>2, IdleType, OnlyMemory DEF Finish, AssertLinkBookingConfirmed, CheckReactivation
  <2>. QED BY <1>3, <2>1, <2>2 DEF AssertLinkBookingConfirmed, CheckReactivation
<1>. QED BY <1>1, <1>2, <1>3

LEMMA RowsStayTyped == TypeOK /\ RowsExist /\ [Next]_vars => TypeOK' /\ RowsExist'
<1>. SUFFICES ASSUME TypeOK, RowsExist, [Next]_vars PROVE TypeOK' /\ RowsExist'
  OBVIOUS
<1>1. CASE UNCHANGED <<guests, agenda, request, crashes, local>> /\ now' \in Nat
  BY <1>1 DEF guests, agenda, TypeOK, RowsExist, Holds, Booked
<1>2. CASE Tick
  BY <1>1, <1>2 DEF Tick, TypeOK
<1>3. CASE UNCHANGED vars
  BY <1>1, <1>3 DEF vars, TypeOK, guests, agenda
<1>4. ASSUME NEW p \in Request, RequestStep(p)
      PROVE  TypeOK' /\ RowsExist'
  BY <1>4, CheckAgendaType, RollbackGuestType, InsertSessionType, NewBookingType, ApprovedType,
     CloseSessionType, StatusType, StatusAskedType DEF RequestStep
<1>5. ASSUME NEW p \in Request, Arrival(p)
      PROVE  TypeOK' /\ RowsExist'
  BY <1>5, GuestArrivesType, VerdictArrivesType, StatusAskedType DEF Arrival
<1>6. ASSUME NEW p \in Request, Fail(p)
      PROVE  TypeOK' /\ RowsExist'
  <2>1. RowsExist' /\ local' \in [Request -> Local]
    BY <1>6, IdleType, SessionsKept DEF Fail, Finish, agenda, RowsExist
  <2>2. crashes' \in 0..MaxCrashes
    BY <1>6, BookingAssumption DEF Fail, TypeOK
  <2>. QED BY <1>6, <2>1, <2>2 DEF Fail, TypeOK, guests, agenda
<1>. QED BY <1>2, <1>3, <1>4, <1>5, <1>6 DEF Next

LEMMA BookingTypesInit == Init => TypeOK /\ RowsExist
<1>. SUFFICES ASSUME Init PROVE TypeOK /\ RowsExist
  OBVIOUS
<1>1. NoRequest \in RequestRow /\ NoSession \in SessionRow
  BY DEF NoRequest, RequestRow, NoDate, NoSession, SessionRow
<1>. QED
  BY <1>1, IdleType, BookingAssumption
  DEF Init, TypeOK, RowsExist, Account, AppointmentStatus, NoRequest

\* A booking's rows have the types of their tables, and a request works on
\* bookings that were made, however bookings, verdicts, expiries and crashes
\* interleave (public_booking_request.entity.ts, session.entity.ts).
THEOREM BookingTypes == Spec => []TypeOK
BY BookingTypesInit, RowsStayTyped, PTL DEF Spec

-----------------------------------------------------------------------------
(* One request at a time *)

OneAtATime == \A p, q \in Request : p = q

\* What a new booking knows of its guest, its session and the agenda.
BookingIsFresh(memory) ==
  /\ memory.step \in {"insertDetail", "linkNewClient", "insertRequest"} =>
       /\ session[memory.id] = [status |-> "scheduled", guest |-> memory.wanted[1],
                                slot |-> memory.wanted[2]]
       /\ request[memory.id].status = "none"
  /\ memory.step = "insertSession" => ~WorkerClash(0, memory.wanted[2])
  /\ memory.step = "insertDetail" => ~WorkerClash(memory.id, memory.wanted[2])
  /\ memory.step = "linkNewClient" => memory.mode = "free"
  /\ memory.step = "insertRequest" /\ memory.mode = "free" => memory.wanted[1] \in linked

\* The account a booking opened is there, and of nobody with appointments.
GuestIsFresh(memory) ==
  /\ memory.step \in OfAGuest => account[memory.wanted[1]] # "unknown"
  /\ memory.step = "rollbackGuest" => memory.opened # "none"
  /\ memory.step \in {"checkAgenda", "rollbackGuest", "insertSession"} /\ memory.opened = "created" =>
       account[memory.wanted[1]] = "created" /\ BookingsOf(memory.wanted[1]) = {}

\* A verdict in progress is about requests that wait for one.
VerdictIsFresh(memory) ==
  /\ memory.step = "saveApproved" =>
       request[memory.id].status \in PENDING_STATUSES /\ memory.copy[memory.id].status = "confirmed"
  /\ memory.step \in {"linkClient", "sendCredentials"} => request[memory.id].status = "confirmed"
  /\ memory.step = "close" => \A b \in memory.batch :
       request[b].status \in PENDING_STATUSES /\ memory.copy[b].status \in {"rejected", "expired"}

\* A status about to be written was looked at against the request and the agenda.
StatusIsFresh(memory) ==
  /\ memory.step \in {"checkReactivation", "writeStatus"} =>
       detail[memory.id] # "none" /\ LinkBookingConfirmed(request[memory.id].status, memory.next)
  /\ /\ memory.step = "writeStatus" /\ memory.previous = "cancelled"
     /\ memory.next \in {"scheduled", "inProgress", "completed"}
     /\ detail[memory.id] = "cancelled"
     => ~WorkerClash(memory.id, session[memory.id].slot)

Fresh(memory) ==
  BookingIsFresh(memory) /\ GuestIsFresh(memory) /\ VerdictIsFresh(memory) /\ StatusIsFresh(memory)

\* A new booking whose request is still to be inserted, as one to be approved.
ToBeApproved(memory, b) ==
  memory.id = b /\ memory.step \in {"insertDetail", "insertRequest"} /\ memory.mode # "free"
Backed(g) ==
  \E b \in BookingsOf(g) :
    request[b].status \in {"confirmed", "none"} /\ \A p \in Request : ~ToBeApproved(local[p], b)

EffectsAreBacked ==
  \A g \in Guest :
    g \in mailed \/ (g \in linked /\ account[g] \in {"member", "created", "unknown"}) => Backed(g)

ConfirmedIsListed ==
  crashes = 0 => \A b \in BookingId : request[b].status = "confirmed" =>
    \/ session[b].guest \in linked
    \/ \E p \in Request : local[p].step = "linkClient" /\ local[p].id = b

Opening(memory, g) ==
  /\ memory.step \in {"checkAgenda", "rollbackGuest", "insertSession"}
  /\ memory.wanted[1] = g /\ memory.opened # "none"
AccountsAreUsed ==
  crashes = 0 => \A g \in Guest : account[g] \in {"created", "attached"} =>
    BookingsOf(g) # {} \/ \E p \in Request : Opening(local[p], g)

BookingsAgree ==
  /\ NotStartedWhilePending /\ EffectsAreBacked /\ ConfirmedIsListed /\ AccountsAreUsed
  /\ AppointmentHasItsClient
  /\ \A p \in Request : Fresh(local[p])

LEMMA OnlyOne ==
  ASSUME OneAtATime, NEW p \in Request
  PROVE  /\ \A b : (\A q \in Request : ~ToBeApproved(local[q], b)) <=> ~ToBeApproved(local[p], b)
         /\ \A b : (\E q \in Request : local[q].step = "linkClient" /\ local[q].id = b)
                     <=> local[p].step = "linkClient" /\ local[p].id = b
         /\ \A g : (\E q \in Request : Opening(local[q], g)) <=> Opening(local[p], g)
BY DEF OneAtATime

\* A request that is about nothing knows nothing that could be wrong.
LEMMA NothingToKnow ==
  ASSUME NEW memory,
         memory.step \notin OfABooking \cup OfAGuest \cup {"close"} \/ memory.step \in {"cancel", "gate"}
  PROVE  Fresh(memory) /\ Fresh(memory)'
<1>1. BookingIsFresh(memory) /\ BookingIsFresh(memory)'
  BY DEF BookingIsFresh, OfABooking, OfAGuest
<1>2. GuestIsFresh(memory) /\ GuestIsFresh(memory)'
  BY DEF GuestIsFresh, OfABooking, OfAGuest
<1>3. VerdictIsFresh(memory) /\ VerdictIsFresh(memory)'
  BY DEF VerdictIsFresh, OfABooking, OfAGuest
<1>4. StatusIsFresh(memory) /\ StatusIsFresh(memory)'
  BY DEF StatusIsFresh, OfABooking, OfAGuest
<1>. QED BY <1>1, <1>2, <1>3, <1>4 DEF Fresh

LEMMA IdleKnowsNothing ==
  /\ Fresh(Idle) /\ Fresh(Idle)'
  /\ \A b : ~ToBeApproved(Idle, b)
  /\ \A g : ~Opening(Idle, g)
  /\ Idle.step = "idle"
<1>1. Idle.step = "idle"
  BY DEF Idle
<1>. QED BY <1>1, NothingToKnow DEF OfABooking, OfAGuest, ToBeApproved, Opening

\* What is known of a request depends on nothing but the tables.
LEMMA FreshIsStable ==
  ASSUME NEW memory, Fresh(memory), UNCHANGED <<guests, agenda, request>>
  PROVE  Fresh(memory)'
<1>1. /\ account' = account /\ linked' = linked /\ session' = session /\ detail' = detail
      /\ request' = request
  BY DEF guests, agenda
<1>2. BookingIsFresh(memory)'
  BY <1>1 DEF Fresh, BookingIsFresh, WorkerClash, Booked
<1>3. GuestIsFresh(memory)'
  BY <1>1 DEF Fresh, GuestIsFresh, BookingsOf, Booked
<1>4. VerdictIsFresh(memory)'
  BY <1>1 DEF Fresh, VerdictIsFresh
<1>5. StatusIsFresh(memory)'
  BY <1>1 DEF Fresh, StatusIsFresh, WorkerClash, Booked
<1>. QED BY <1>2, <1>3, <1>4, <1>5 DEF Fresh

LEMMA FreshForAll ==
  ASSUME TypeOK, OneAtATime, NEW p \in Request, NEW next, Goto(p, next), Fresh(next)'
  PROVE  (\A q \in Request : Fresh(local[q]))'
<1>1. local'[p] = next
  BY DEF Goto, TypeOK
<1>2. BookingIsFresh(local[p])'
  BY <1>1 DEF Fresh, BookingIsFresh
<1>3. GuestIsFresh(local[p])'
  BY <1>1 DEF Fresh, GuestIsFresh
<1>4. VerdictIsFresh(local[p])'
  BY <1>1 DEF Fresh, VerdictIsFresh
<1>5. StatusIsFresh(local[p])'
  BY <1>1 DEF Fresh, StatusIsFresh
<1>6. Fresh(local[p])'
  BY <1>2, <1>3, <1>4, <1>5 DEF Fresh
<1>. QED BY <1>6 DEF OneAtATime

\* What the only request does to what is said of all of them.
LEMMA OnlyOneNext ==
  ASSUME TypeOK, OneAtATime, NEW p \in Request, NEW next, Goto(p, next)
  PROVE  /\ \A b : (\A q \in Request : ~ToBeApproved(local[q], b))' <=> ~ToBeApproved(next, b)
         /\ \A b : (\E q \in Request : local[q].step = "linkClient" /\ local[q].id = b)'
                     <=> next.step = "linkClient" /\ next.id = b
         /\ \A g : (\E q \in Request : Opening(local[q], g))' <=> Opening(next, g)
<1>1. local'[p] = next /\ \A q \in Request : q = p
  BY DEF Goto, TypeOK, OneAtATime
<1>. QED BY <1>1 DEF ToBeApproved, Opening

LEMMA BackedStays ==
  ASSUME TypeOK, OneAtATime, NEW p \in Request, NEW next, Goto(p, next),
         NEW g, BookingsOf(g) \subseteq BookingsOf(g)', Backed(g),
         \A b \in BookingsOf(g) :
           request[b].status \in {"confirmed", "none"} /\ ~ToBeApproved(local[p], b) =>
             request'[b].status \in {"confirmed", "none"} /\ ~ToBeApproved(next, b)
  PROVE  Backed(g)'
<1>1. PICK b \in BookingsOf(g) : request[b].status \in {"confirmed", "none"} /\ ~ToBeApproved(local[p], b)
  BY OnlyOne DEF Backed
<1>2. b \in BookingsOf(g)' /\ request'[b].status \in {"confirmed", "none"}
  BY <1>1
<1>3. (\A q \in Request : ~ToBeApproved(local[q], b))'
  BY <1>1, OnlyOneNext
<1>. QED BY <1>2, <1>3 DEF Backed

\* Steps that change the memory of the request alone.
LEMMA MemoryAgrees ==
  ASSUME TypeOK, RowsExist, BookingsAgree, OneAtATime, NEW p \in Request, NEW next,
         Goto(p, next), Fresh(next), UNCHANGED <<guests, agenda, request>>,
         crashes' = 0 => crashes = 0,
         \A b : ToBeApproved(next, b) => ToBeApproved(local[p], b),
         crashes' = 0 => /\ local[p].step # "linkClient"
                         /\ \A g : Opening(local[p], g) => Opening(next, g)
  PROVE  BookingsAgree'
<1>1. /\ account' = account /\ linked' = linked /\ mailed' = mailed
      /\ session' = session /\ detail' = detail /\ request' = request
  BY DEF guests, agenda
<1>2. \A g : BookingsOf(g)' = BookingsOf(g)
  BY <1>1 DEF BookingsOf, Booked
<1>3. (\A q \in Request : Fresh(local[q]))'
  BY FreshIsStable, FreshForAll
<1>4. NotStartedWhilePending' /\ AppointmentHasItsClient'
  BY <1>1, <1>2 DEF BookingsAgree, NotStartedWhilePending, AppointmentHasItsClient
<1>5. EffectsAreBacked'
  <2>1. ASSUME NEW g \in Guest, Backed(g) PROVE Backed(g)'
    BY <1>1, <1>2, <2>1, BackedStays
  <2>. QED BY <1>1, <2>1 DEF BookingsAgree, EffectsAreBacked
<1>6. ConfirmedIsListed'
  BY <1>1, OnlyOne DEF BookingsAgree, ConfirmedIsListed
<1>7. AccountsAreUsed'
  <2>1. ASSUME crashes' = 0, NEW g \in Guest, account[g] \in {"created", "attached"}
        PROVE  BookingsOf(g) # {} \/ (\E q \in Request : Opening(local[q], g))'
    <3>1. BookingsOf(g) # {} \/ Opening(local[p], g)
      BY <2>1, OnlyOne DEF BookingsAgree, AccountsAreUsed
    <3>. QED BY <2>1, <3>1, OnlyOneNext
  <2>. QED BY <1>1, <1>2, <2>1 DEF AccountsAreUsed
<1>. QED BY <1>3, <1>4, <1>5, <1>6, <1>7 DEF BookingsAgree

LEMMA IdleAgrees ==
  ASSUME TypeOK, RowsExist, BookingsAgree, OneAtATime, NEW p \in Request,
         Goto(p, Idle), UNCHANGED <<guests, agenda, request>>,
         crashes' = 0 => crashes = 0,
         crashes' = 0 => local[p].step # "linkClient" /\ \A g : ~Opening(local[p], g)
  PROVE  BookingsAgree'
BY IdleKnowsNothing, MemoryAgrees

-----------------------------------------------------------------------------
(* A new booking *)

LEMMA GuestArrivesAgrees ==
  ASSUME TypeOK, RowsExist, BookingsAgree, OneAtATime, NEW p \in Request, NEW g \in Guest,
         NEW slot \in Slot, NEW mode \in Mode, BookByLink(p, g, slot, mode)
  PROVE  BookingsAgree'
<1>1. PICK opened : opened = OpenAccount(account[g])
  OBVIOUS
<1>2. PICK next : next = [Idle EXCEPT !.step = "checkAgenda", !.wanted = <<g, slot>>,
                                      !.mode = mode, !.opened = opened]
  OBVIOUS
<1>3. /\ next.step = "checkAgenda" /\ next.wanted[1] = g /\ next.opened = opened
  BY <1>2 DEF Idle
<1>4. /\ Goto(p, next) /\ local[p].step = "idle"
      /\ account' = [account EXCEPT ![g] = IF opened = "none" THEN @ ELSE opened]
      /\ linked' = linked /\ mailed' = mailed /\ session' = session /\ detail' = detail
      /\ request' = request /\ crashes' = crashes
  BY <1>1, <1>2 DEF BookByLink, At, agenda
<1>5. /\ account[g] = "registered" => account'[g] = "attached" /\ opened = "attached"
      /\ account[g] = "unknown" => account'[g] = "created" /\ opened = "created"
      /\ account[g] \in {"member", "attached", "created"} => account'[g] = account[g] /\ opened = "none"
      /\ \A h \in Guest : h # g => account'[h] = account[h]
      /\ account[g] \in Account
  BY <1>1, <1>4 DEF OpenAccount, TypeOK, Account
<1>6. \A h : BookingsOf(h)' = BookingsOf(h)
  BY <1>4 DEF BookingsOf, Booked
<1>7. account'[g] # "unknown" /\ (opened = "created" => account'[g] = "created" /\ BookingsOf(g) = {})
  BY <1>5 DEF Account, BookingsAgree, AppointmentHasItsClient
<1>8. Fresh(next)'
  <2>1. GuestIsFresh(next)'
    BY <1>3, <1>6, <1>7 DEF GuestIsFresh
  <2>. QED
    BY <1>3, <2>1 DEF Fresh, BookingIsFresh, VerdictIsFresh, StatusIsFresh
<1>9. (\A q \in Request : Fresh(local[q]))'
  BY <1>4, <1>8, FreshForAll
<1>10. NotStartedWhilePending' /\ AppointmentHasItsClient'
  BY <1>4, <1>5, <1>6, <1>7 DEF BookingsAgree, NotStartedWhilePending, AppointmentHasItsClient
<1>11. EffectsAreBacked'
  <2>1. ASSUME NEW h \in Guest, Backed(h) PROVE Backed(h)'
    <3>1. \A b : ~ToBeApproved(next, b)
      BY <1>3 DEF ToBeApproved
    <3>. QED BY <1>4, <1>6, <2>1, <3>1, BackedStays
  <2>2. \A h \in Guest : account'[h] \in {"member", "created", "unknown"} =>
          account[h] \in {"member", "created", "unknown"}
    BY <1>5 DEF TypeOK, Account
  <2>. QED BY <1>4, <2>1, <2>2 DEF BookingsAgree, EffectsAreBacked
<1>12. ConfirmedIsListed'
  BY <1>4, OnlyOne DEF BookingsAgree, ConfirmedIsListed
<1>13. AccountsAreUsed'
  <2>1. ASSUME crashes = 0, NEW h \in Guest, account'[h] \in {"created", "attached"}
        PROVE  BookingsOf(h) # {} \/ (\E q \in Request : Opening(local[q], h))'
    <3>1. CASE account'[h] = account[h]
      <4>1. ~Opening(local[p], h)
        BY <1>4 DEF Opening
      <4>. QED BY <2>1, <3>1, <4>1, OnlyOne DEF BookingsAgree, AccountsAreUsed
    <3>2. CASE account'[h] # account[h]
      <4>1. h = g /\ opened # "none"
        BY <1>5, <3>2 DEF Account
      <4>2. Opening(next, h)
        BY <1>3, <4>1 DEF Opening
      <4>. QED BY <1>4, <4>2, OnlyOneNext
    <3>. QED BY <3>1, <3>2
  <2>. QED BY <1>4, <1>6, <2>1 DEF AccountsAreUsed
<1>. QED BY <1>9, <1>10, <1>11, <1>12, <1>13 DEF BookingsAgree

LEMMA CannotBookAgrees ==
  ASSUME TypeOK, RowsExist, BookingsAgree, OneAtATime, NEW p \in Request, CannotBook(p),
         At(p, "checkAgenda") \/ At(p, "insertSession"),
         UNCHANGED <<guests, agenda, request, crashes>>
  PROVE  BookingsAgree'
<1>1. local[p] \in Local /\ Fresh(local[p])
  BY LocalType DEF BookingsAgree
<1>2. CASE local[p].opened = "none"
  BY <1>2, IdleAgrees DEF CannotBook, Finish, Opening, At
<1>3. CASE local[p].opened # "none"
  <2>1. PICK next : next = [local[p] EXCEPT !.step = "rollbackGuest"]
    OBVIOUS
  <2>2. /\ next.step = "rollbackGuest" /\ next.wanted = local[p].wanted
        /\ next.opened = local[p].opened
    BY <1>1, <2>1 DEF Local
  <2>3. GuestIsFresh(next)
    BY <1>1, <1>3, <2>2 DEF Fresh, GuestIsFresh, At, OfAGuest
  <2>4. Fresh(next)
    BY <2>2, <2>3 DEF Fresh, BookingIsFresh, VerdictIsFresh, StatusIsFresh
  <2>5. /\ \A b : ~ToBeApproved(next, b)
        /\ \A g : Opening(local[p], g) => Opening(next, g)
        /\ local[p].step # "linkClient"
    BY <2>2 DEF ToBeApproved, Opening, At
  <2>. QED BY <1>3, <2>1, <2>4, <2>5, MemoryAgrees DEF CannotBook, Proceed
<1>. QED BY <1>2, <1>3

LEMMA CheckAgendaAgrees ==
  ASSUME TypeOK, RowsExist, BookingsAgree, OneAtATime, NEW p \in Request, CheckAgenda(p)
  PROVE  BookingsAgree'
<1>1. local[p] \in Local /\ Fresh(local[p])
  BY LocalType DEF BookingsAgree
<1>2. CASE CannotBook(p)
  BY <1>2, CannotBookAgrees DEF CheckAgenda
<1>3. CASE ~CannotBook(p)
  <2>1. PICK next : next = [local[p] EXCEPT !.step = "insertSession"]
    OBVIOUS
  <2>2. /\ next.step = "insertSession" /\ next.wanted = local[p].wanted
        /\ next.opened = local[p].opened
    BY <1>1, <2>1 DEF Local
  <2>3. ~WorkerClash(0, local[p].wanted[2]) /\ Goto(p, next)
    BY <1>3, <2>1 DEF CheckAgenda, Proceed
  <2>4. GuestIsFresh(next) /\ BookingIsFresh(next)
    BY <1>1, <2>2, <2>3 DEF CheckAgenda, Fresh, GuestIsFresh, BookingIsFresh, At, OfAGuest
  <2>5. Fresh(next)
    BY <2>2, <2>4 DEF Fresh, VerdictIsFresh, StatusIsFresh
  <2>6. /\ \A b : ~ToBeApproved(next, b)
        /\ \A g : Opening(local[p], g) => Opening(next, g)
        /\ local[p].step # "linkClient"
    BY <2>2 DEF CheckAgenda, ToBeApproved, Opening, At
  <2>. QED BY <2>3, <2>5, <2>6, MemoryAgrees DEF CheckAgenda
<1>. QED BY <1>2, <1>3

LEMMA RollbackGuestAgrees ==
  ASSUME TypeOK, RowsExist, BookingsAgree, OneAtATime, NEW p \in Request, RollbackGuest(p)
  PROVE  BookingsAgree'
<1>1. local[p] \in Local /\ Fresh(local[p]) /\ local[p].step = "rollbackGuest"
  BY LocalType DEF BookingsAgree, RollbackGuest, At
<1>2. PICK guest \in Guest : guest = local[p].wanted[1]
  BY <1>1 DEF RowsExist, Holds, OfAGuest
<1>3. PICK known \in {"registered", "unknown"} :
        /\ account' = [account EXCEPT ![guest] = known]
        /\ linked' = IF known = "unknown" THEN linked \ {guest} ELSE linked
        /\ known = "unknown" => BookingsOf(guest) = {}
  <2>1. local[p].opened \in {"attached", "created"}
    BY <1>1, LocalType DEF Fresh, GuestIsFresh
  <2>2. CASE local[p].opened = "attached"
    BY <1>2, <2>2 DEF RollbackGuest, WithoutGuest
  <2>3. CASE local[p].opened = "created"
    <3>1. BookingsOf(guest) = {}
      BY <1>1, <1>2, <2>3 DEF Fresh, GuestIsFresh
    <3>. QED BY <1>2, <2>3, <3>1 DEF RollbackGuest, WithoutGuest
  <2>. QED BY <2>1, <2>2, <2>3
<1>4. /\ Goto(p, Idle) /\ mailed' = mailed /\ session' = session /\ detail' = detail
      /\ request' = request /\ crashes' = crashes
  BY DEF RollbackGuest, Finish, agenda
<1>5. /\ account'[guest] = known
      /\ \A h \in Guest : h # guest => account'[h] = account[h]
  BY <1>3 DEF TypeOK
<1>6. \A h : BookingsOf(h)' = BookingsOf(h)
  BY <1>4 DEF BookingsOf, Booked
<1>7. (\A q \in Request : Fresh(local[q]))'
  BY <1>4, IdleKnowsNothing, FreshForAll
<1>8. NotStartedWhilePending' /\ AppointmentHasItsClient'
  BY <1>3, <1>4, <1>5, <1>6 DEF BookingsAgree, NotStartedWhilePending, AppointmentHasItsClient
<1>9. EffectsAreBacked'
  <2>1. ASSUME NEW h \in Guest, Backed(h) PROVE Backed(h)'
    BY <1>4, <1>6, <2>1, IdleKnowsNothing, BackedStays
  <2>2. \A h \in Guest : h \in linked' /\ account'[h] \in {"member", "created", "unknown"} =>
          h \in linked /\ account[h] \in {"member", "created", "unknown"}
    BY <1>3, <1>5
  <2>. QED BY <1>4, <2>1, <2>2 DEF BookingsAgree, EffectsAreBacked
<1>10. ConfirmedIsListed'
  <2>1. ASSUME crashes = 0, NEW b \in BookingId, request[b].status = "confirmed"
        PROVE  session[b].guest \in linked'
    <3>1. session[b].guest \in linked
      BY <1>1, <2>1, OnlyOne DEF BookingsAgree, ConfirmedIsListed
    <3>2. Booked(b)
      BY <2>1 DEF RowsExist
    <3>3. b \in BookingsOf(session[b].guest)
      BY <3>2 DEF BookingsOf
    <3>. QED BY <1>3, <3>1, <3>3
  <2>. QED BY <1>4, <2>1 DEF ConfirmedIsListed
<1>11. AccountsAreUsed'
  <2>1. ASSUME crashes = 0, NEW h \in Guest, account'[h] \in {"created", "attached"}
        PROVE  BookingsOf(h) # {}
    <3>1. h # guest /\ account[h] = account'[h]
      BY <1>5, <2>1
    <3>2. ~Opening(local[p], h)
      BY <1>2, <3>1 DEF Opening
    <3>. QED BY <2>1, <3>1, <3>2, OnlyOne DEF BookingsAgree, AccountsAreUsed
  <2>. QED BY <1>4, <1>6, <2>1 DEF AccountsAreUsed
<1>. QED BY <1>7, <1>8, <1>9, <1>10, <1>11 DEF BookingsAgree

LEMMA InsertSessionAgrees ==
  ASSUME TypeOK, RowsExist, BookingsAgree, OneAtATime, NEW p \in Request, InsertSession(p)
  PROVE  BookingsAgree'
<1>1. /\ local[p] \in Local /\ Fresh(local[p]) /\ local[p].step = "insertSession"
      /\ linked' = linked /\ mailed' = mailed /\ account' = account /\ detail' = detail
      /\ request' = request /\ crashes' = crashes
  BY LocalType DEF BookingsAgree, InsertSession, At, guests
<1>2. CASE CannotBook(p) /\ UNCHANGED session
  BY <1>1, <1>2, CannotBookAgrees DEF At, guests, agenda
<1>3. CASE ~(CannotBook(p) /\ UNCHANGED session)
  <2>1. PICK b \in BookingId :
          /\ ~Booked(b)
          /\ session' = [session EXCEPT ![b] = [status |-> "scheduled",
               guest |-> local[p].wanted[1], slot |-> local[p].wanted[2]]]
          /\ Goto(p, [local[p] EXCEPT !.step = "insertDetail", !.id = b])
    BY <1>3 DEF InsertSession
  <2>2. PICK next : next = [local[p] EXCEPT !.step = "insertDetail", !.id = b]
    OBVIOUS
  <2>3. /\ next.step = "insertDetail" /\ next.id = b /\ next.wanted = local[p].wanted
    BY <1>1, <2>2 DEF Local
  <2>4. PICK guest \in Guest, slot \in Slot : /\ guest = local[p].wanted[1]
                                              /\ slot = local[p].wanted[2]
    BY <1>1 DEF RowsExist, Holds, OfAGuest
  <2>5. /\ session'[b] = [status |-> "scheduled", guest |-> guest, slot |-> slot]
        /\ \A c \in BookingId : c # b => session'[c] = session[c]
    BY <2>1, <2>4 DEF TypeOK
  <2>6. request[b].status = "none"
    BY <2>1 DEF RowsExist
  <2>7. /\ \A h : BookingsOf(h) \subseteq BookingsOf(h)'
        /\ \A h : b \notin BookingsOf(h)
        /\ \A h : h # guest => BookingsOf(h)' = BookingsOf(h)
        /\ b \in BookingsOf(guest)'
    <3>1. \A c \in BookingId : Booked(c)' <=> Booked(c) \/ c = b
      BY <2>5 DEF Booked
    <3>. QED BY <2>1, <2>5, <3>1 DEF BookingsOf
  <2>8. ~WorkerClash(b, slot)'
    BY <1>1, <2>4, <2>5 DEF WorkerClash, Fresh, BookingIsFresh, BookingId, Booked
  <2>9. Fresh(next)'
    <3>1. BookingIsFresh(next)'
      BY <1>1, <2>3, <2>4, <2>5, <2>6, <2>8 DEF BookingIsFresh
    <3>2. GuestIsFresh(next)'
      BY <1>1, <2>3 DEF Fresh, GuestIsFresh, OfAGuest
    <3>. QED BY <2>3, <3>1, <3>2 DEF Fresh, VerdictIsFresh, StatusIsFresh
  <2>10. (\A q \in Request : Fresh(local[q]))'
    BY <2>1, <2>2, <2>9, FreshForAll
  <2>11. NotStartedWhilePending'
    BY <1>1, <2>5, <2>6 DEF BookingsAgree, NotStartedWhilePending, PENDING_STATUSES
  <2>12. AppointmentHasItsClient'
    <3>1. account[guest] # "unknown"
      BY <1>1, <2>4 DEF Fresh, GuestIsFresh, OfAGuest
    <3>. QED BY <1>1, <2>7, <3>1 DEF BookingsAgree, AppointmentHasItsClient
  <2>13. EffectsAreBacked'
    <3>1. ASSUME NEW h \in Guest, Backed(h) PROVE Backed(h)'
      <4>1. \A c \in BookingsOf(h) : ~ToBeApproved(next, c)
        BY <2>3, <2>7 DEF ToBeApproved
      <4>. QED BY <1>1, <2>1, <2>2, <2>7, <3>1, <4>1, BackedStays
    <3>. QED BY <1>1, <3>1 DEF BookingsAgree, EffectsAreBacked
  <2>14. ConfirmedIsListed'
    <3>1. \A c \in BookingId : request[c].status = "confirmed" => c # b /\ session'[c] = session[c]
      BY <2>5, <2>6
    <3>. QED BY <1>1, <3>1, OnlyOne DEF BookingsAgree, ConfirmedIsListed
  <2>15. AccountsAreUsed'
    <3>1. ASSUME crashes = 0, NEW h \in Guest, account[h] \in {"created", "attached"}
          PROVE  BookingsOf(h)' # {}
      <4>1. Opening(local[p], h) => h = guest
        BY <2>4 DEF Opening
      <4>. QED BY <2>7, <3>1, <4>1, OnlyOne DEF BookingsAgree, AccountsAreUsed
    <3>. QED BY <1>1, <3>1 DEF AccountsAreUsed
  <2>. QED BY <2>10, <2>11, <2>12, <2>13, <2>14, <2>15 DEF BookingsAgree
<1>. QED BY <1>2, <1>3

LEMMA InsertDetailAgrees ==
  ASSUME TypeOK, RowsExist, BookingsAgree, OneAtATime, NEW p \in Request, InsertDetail(p)
  PROVE  BookingsAgree'
<1>1. /\ local[p] \in Local /\ Fresh(local[p]) /\ local[p].step = "insertDetail"
      /\ linked' = linked /\ mailed' = mailed /\ account' = account /\ session' = session
      /\ request' = request /\ crashes' = crashes
  BY LocalType DEF BookingsAgree, InsertDetail, At, guests
<1>2. PICK step : step = AfterDetail(local[p].mode)
  OBVIOUS
<1>3. PICK next : next = [local[p] EXCEPT !.step = step]
  OBVIOUS
<1>4. /\ next.step = step /\ next.id = local[p].id /\ next.wanted = local[p].wanted
      /\ next.mode = local[p].mode /\ Goto(p, next)
  BY <1>1, <1>2, <1>3 DEF InsertDetail, Proceed, Local
<1>5. /\ step \in {"linkNewClient", "insertRequest"}
      /\ step = "linkNewClient" <=> local[p].mode = "free"
  BY <1>2 DEF AfterDetail
<1>6. \A h : BookingsOf(h)' = BookingsOf(h)
  BY <1>1 DEF BookingsOf, Booked
<1>7. Fresh(next)'
  <2>1. BookingIsFresh(next)'
    BY <1>1, <1>4, <1>5 DEF Fresh, BookingIsFresh
  <2>2. GuestIsFresh(next)'
    BY <1>1, <1>4, <1>5 DEF Fresh, GuestIsFresh, OfAGuest
  <2>. QED BY <1>4, <1>5, <2>1, <2>2 DEF Fresh, VerdictIsFresh, StatusIsFresh
<1>8. (\A q \in Request : Fresh(local[q]))'
  BY <1>4, <1>7, FreshForAll
<1>9. NotStartedWhilePending' /\ AppointmentHasItsClient'
  BY <1>1, <1>6 DEF BookingsAgree, NotStartedWhilePending, AppointmentHasItsClient
<1>10. EffectsAreBacked'
  <2>1. ASSUME NEW h \in Guest, Backed(h) PROVE Backed(h)'
    <3>1. \A b : ToBeApproved(next, b) => ToBeApproved(local[p], b)
      BY <1>1, <1>4 DEF ToBeApproved
    <3>. QED BY <1>1, <1>4, <1>6, <2>1, <3>1, BackedStays
  <2>. QED BY <1>1, <2>1 DEF BookingsAgree, EffectsAreBacked
<1>11. ConfirmedIsListed'
  BY <1>1, OnlyOne DEF BookingsAgree, ConfirmedIsListed
<1>12. AccountsAreUsed'
  <2>1. \A h : ~Opening(local[p], h)
    BY <1>1 DEF Opening
  <2>. QED BY <1>1, <1>6, <2>1, OnlyOne DEF BookingsAgree, AccountsAreUsed
<1>. QED BY <1>8, <1>9, <1>10, <1>11, <1>12 DEF BookingsAgree

LEMMA LinkNewClientAgrees ==
  ASSUME TypeOK, RowsExist, BookingsAgree, OneAtATime, NEW p \in Request, LinkNewClient(p)
  PROVE  BookingsAgree'
<1>1. /\ local[p] \in Local /\ Fresh(local[p]) /\ local[p].step = "linkNewClient"
      /\ mailed' = mailed /\ account' = account /\ session' = session /\ detail' = detail
      /\ request' = request /\ crashes' = crashes
  BY LocalType DEF BookingsAgree, LinkNewClient, At, agenda
<1>2. PICK next : next = [local[p] EXCEPT !.step = "insertRequest"]
  OBVIOUS
<1>3. /\ next.step = "insertRequest" /\ next.id = local[p].id /\ next.wanted = local[p].wanted
      /\ next.mode = "free" /\ Goto(p, next)
  BY <1>1, <1>2 DEF LinkNewClient, Proceed, Local, Fresh, BookingIsFresh
<1>4. PICK guest \in Guest : guest = local[p].wanted[1]
  BY <1>1 DEF RowsExist, Holds, OfAGuest
<1>5. linked' = linked \cup {guest}
  BY <1>4 DEF LinkNewClient
<1>6. \A h : BookingsOf(h)' = BookingsOf(h)
  BY <1>1 DEF BookingsOf, Booked
<1>7. \A b : ~ToBeApproved(next, b)
  BY <1>3 DEF ToBeApproved
<1>8. Fresh(next)'
  <2>1. BookingIsFresh(next)'
    BY <1>1, <1>3, <1>4, <1>5 DEF Fresh, BookingIsFresh
  <2>2. GuestIsFresh(next)'
    BY <1>1, <1>3 DEF Fresh, GuestIsFresh, OfAGuest
  <2>. QED BY <1>3, <2>1, <2>2 DEF Fresh, VerdictIsFresh, StatusIsFresh
<1>9. (\A q \in Request : Fresh(local[q]))'
  BY <1>3, <1>8, FreshForAll
<1>10. NotStartedWhilePending' /\ AppointmentHasItsClient'
  BY <1>1, <1>6 DEF BookingsAgree, NotStartedWhilePending, AppointmentHasItsClient
<1>11. EffectsAreBacked'
  <2>1. ASSUME NEW h \in Guest, Backed(h) PROVE Backed(h)'
    BY <1>1, <1>3, <1>6, <1>7, <2>1, BackedStays
  <2>2. Backed(guest)'
    <3>1. PICK b \in BookingId : b = local[p].id
      BY <1>1 DEF RowsExist, Holds, OfABooking
    <3>2. /\ session[b].guest = guest /\ session[b].status = "scheduled"
          /\ request[b].status = "none"
      BY <1>1, <1>4, <3>1 DEF Fresh, BookingIsFresh
    <3>3. b \in BookingsOf(guest)
      BY <3>2 DEF BookingsOf, Booked
    <3>4. (\A q \in Request : ~ToBeApproved(local[q], b))'
      BY <1>3, <1>7, OnlyOneNext
    <3>. QED BY <1>1, <1>6, <3>2, <3>3, <3>4 DEF Backed
  <2>. QED BY <1>1, <1>5, <2>1, <2>2 DEF BookingsAgree, EffectsAreBacked
<1>12. ConfirmedIsListed'
  BY <1>1, <1>5, OnlyOne DEF BookingsAgree, ConfirmedIsListed
<1>13. AccountsAreUsed'
  <2>1. \A h : ~Opening(local[p], h)
    BY <1>1 DEF Opening
  <2>. QED BY <1>1, <1>6, <2>1, OnlyOne DEF BookingsAgree, AccountsAreUsed
<1>. QED BY <1>9, <1>10, <1>11, <1>12, <1>13 DEF BookingsAgree

LEMMA InsertRequestAgrees ==
  ASSUME TypeOK, RowsExist, BookingsAgree, OneAtATime, NEW p \in Request, InsertRequest(p)
  PROVE  BookingsAgree'
<1>1. /\ local[p] \in Local /\ Fresh(local[p]) /\ local[p].step = "insertRequest"
      /\ linked' = linked /\ account' = account /\ session' = session /\ detail' = detail
      /\ crashes' = crashes /\ Goto(p, Idle)
  BY LocalType DEF BookingsAgree, InsertRequest, At, agenda, Finish
<1>2. PICK b \in BookingId, guest \in Guest : b = local[p].id /\ guest = local[p].wanted[1]
  BY <1>1 DEF RowsExist, Holds, OfABooking, OfAGuest
<1>3. /\ session[b].guest = guest /\ session[b].status = "scheduled"
      /\ request[b].status = "none"
      /\ local[p].mode = "free" => guest \in linked
  BY <1>1, <1>2 DEF Fresh, BookingIsFresh
<1>4. /\ request'[b].status = FirstStatus(local[p].mode)
      /\ \A c \in BookingId : c # b => request'[c] = request[c]
      /\ \/ mailed' = mailed
         \/ local[p].mode = "free" /\ mailed' = mailed \cup {guest}
  BY <1>2 DEF InsertRequest, TypeOK
<1>5. /\ local[p].mode = "free" => request'[b].status = "confirmed"
      /\ local[p].mode # "free" => request'[b].status \in PENDING_STATUSES
  BY <1>4 DEF FirstStatus, PENDING_STATUSES
<1>6. (\A h : BookingsOf(h)' = BookingsOf(h)) /\ b \in BookingsOf(guest)
  BY <1>1, <1>3 DEF BookingsOf, Booked
<1>7. (\A q \in Request : Fresh(local[q]))'
  BY <1>1, IdleKnowsNothing, FreshForAll
<1>8. NotStartedWhilePending' /\ AppointmentHasItsClient'
  <2>1. AppointmentHasItsClient'
    BY <1>1, <1>6 DEF BookingsAgree, AppointmentHasItsClient
  <2>2. NotStartedWhilePending'
    BY <1>1, <1>3, <1>4 DEF BookingsAgree, NotStartedWhilePending
  <2>. QED BY <2>1, <2>2
<1>9. EffectsAreBacked'
  <2>1. ASSUME NEW h \in Guest, Backed(h) PROVE Backed(h)'
    <3>1. \A c \in BookingsOf(h) :
            request[c].status \in {"confirmed", "none"} /\ ~ToBeApproved(local[p], c) =>
              request'[c].status \in {"confirmed", "none"} /\ ~ToBeApproved(Idle, c)
      BY <1>1, <1>2, <1>4, <1>5, IdleKnowsNothing DEF ToBeApproved, BookingsOf
    <3>. QED BY <1>1, <1>6, <2>1, <3>1, BackedStays
  <2>2. ASSUME local[p].mode = "free" PROVE Backed(guest)'
    <3>1. (\A q \in Request : ~ToBeApproved(local[q], b))'
      BY <1>1, IdleKnowsNothing, OnlyOneNext
    <3>. QED BY <1>5, <1>6, <2>2, <3>1 DEF Backed
  <2>. QED BY <1>1, <1>4, <2>1, <2>2 DEF BookingsAgree, EffectsAreBacked
<1>10. ConfirmedIsListed'
  <2>1. ASSUME crashes = 0, NEW c \in BookingId, request'[c].status = "confirmed"
        PROVE  session[c].guest \in linked
    <3>1. CASE c = b
      BY <1>3, <1>5, <2>1, <3>1 DEF PENDING_STATUSES
    <3>2. CASE c # b
      BY <1>1, <1>4, <2>1, <3>2, OnlyOne DEF BookingsAgree, ConfirmedIsListed
    <3>. QED BY <3>1, <3>2
  <2>. QED BY <1>1, <2>1 DEF ConfirmedIsListed
<1>11. AccountsAreUsed'
  <2>1. \A h : ~Opening(local[p], h)
    BY <1>1 DEF Opening
  <2>. QED BY <1>1, <1>6, <2>1, OnlyOne DEF BookingsAgree, AccountsAreUsed
<1>. QED BY <1>7, <1>8, <1>9, <1>10, <1>11 DEF BookingsAgree

-----------------------------------------------------------------------------
(* The verdict *)

LEMMA VerdictArrivesAgrees ==
  ASSUME TypeOK, RowsExist, BookingsAgree, OneAtATime, NEW p \in Request,
         ExpirePending(p) \/ \E b \in BookingId : Approve(p, b) \/ Reject(p, b)
  PROVE  BookingsAgree'
<1>1. /\ local[p].step = "idle" /\ UNCHANGED <<guests, agenda, request, crashes>>
  BY DEF ExpirePending, Approve, Reject, At
<1>2. ASSUME NEW next, Goto(p, next), next.step \in {"close", "saveApproved"},
             VerdictIsFresh(next)
      PROVE  BookingsAgree'
  <2>1. Fresh(next)
    BY <1>2 DEF Fresh, BookingIsFresh, GuestIsFresh, StatusIsFresh, OfAGuest
  <2>2. /\ \A b : ~ToBeApproved(next, b)
        /\ \A g : ~Opening(local[p], g)
        /\ local[p].step # "linkClient"
    BY <1>1, <1>2 DEF ToBeApproved, Opening
  <2>. QED BY <1>1, <1>2, <2>1, <2>2, MemoryAgrees
<1>3. PICK blank : blank = Idle.copy /\ blank \in [BookingId -> RequestRow]
  BY IdleType DEF Local
<1>4. CASE ExpirePending(p)
  <2>. DEFINE expired == {b \in BookingId : Expired(request[b])}
  <2>1. PICK copy : copy = [b \in BookingId |-> IF b \in expired
                              THEN [request[b] EXCEPT !.status = "expired"] ELSE NoRequest]
    OBVIOUS
  <2>2. PICK next : next = [Idle EXCEPT !.step = "close", !.batch = expired, !.copy = copy]
    OBVIOUS
  <2>3. next.step = "close" /\ next.batch = expired /\ next.copy = copy
    BY <2>2 DEF Idle
  <2>4. \A b \in expired : request[b].status \in PENDING_STATUSES /\ copy[b].status = "expired"
    BY <2>1 DEF Expired, TypeOK, RequestRow
  <2>5. VerdictIsFresh(next)
    BY <2>3, <2>4 DEF VerdictIsFresh
  <2>6. Goto(p, next)
    BY <1>4, <2>1, <2>2 DEF ExpirePending
  <2>. QED BY <1>2, <2>3, <2>5, <2>6
<1>5. ASSUME NEW b \in BookingId, Approve(p, b) PROVE BookingsAgree'
  <2>1. PICK row : row = [request[b] EXCEPT !.status = "confirmed", !.expiresAt = NoDate]
    OBVIOUS
  <2>2. row.status = "confirmed"
    BY <2>1 DEF TypeOK, RequestRow
  <2>3. PICK next : next = [Idle EXCEPT !.step = "saveApproved", !.id = b, !.copy[b] = row]
    OBVIOUS
  <2>4. next.step = "saveApproved" /\ next.id = b /\ next.copy[b] = row
    BY <1>3, <2>3 DEF Idle
  <2>5. VerdictIsFresh(next)
    BY <1>5, <2>2, <2>4 DEF VerdictIsFresh, Approve, Reviewable
  <2>6. Goto(p, next)
    BY <1>5, <2>1, <2>3 DEF Approve
  <2>. QED BY <1>2, <2>4, <2>5, <2>6
<1>6. ASSUME NEW b \in BookingId, Reject(p, b) PROVE BookingsAgree'
  <2>1. PICK row : row = [request[b] EXCEPT !.status = "rejected", !.expiresAt = NoDate]
    OBVIOUS
  <2>2. row.status = "rejected"
    BY <2>1 DEF TypeOK, RequestRow
  <2>3. PICK next : next = [Idle EXCEPT !.step = "close", !.batch = {b}, !.copy[b] = row]
    OBVIOUS
  <2>4. next.step = "close" /\ next.batch = {b} /\ next.copy[b] = row
    BY <1>3, <2>3 DEF Idle
  <2>5. VerdictIsFresh(next)
    BY <1>6, <2>2, <2>4 DEF VerdictIsFresh, Reject, Reviewable
  <2>6. Goto(p, next)
    BY <1>6, <2>1, <2>3 DEF Reject
  <2>. QED BY <1>2, <2>4, <2>5, <2>6
<1>. QED BY <1>4, <1>5, <1>6
\* Whatever closes or moves on an appointment leaves the accounts, the list and
\* the confirmed bookings alone.
LEMMA OutcomeAgrees ==
  ASSUME TypeOK, RowsExist, BookingsAgree, OneAtATime, NEW p \in Request, NEW next,
         Goto(p, next), Fresh(next)', UNCHANGED <<guests, crashes>>,
         local[p].step # "linkClient", \A g : ~Opening(local[p], g),
         \A b : ~ToBeApproved(next, b),
         \A g : BookingsOf(g)' = BookingsOf(g),
         \A b \in BookingId : session'[b].guest = session[b].guest,
         \A b \in BookingId :
           /\ request'[b].status = "confirmed" => request[b].status = "confirmed"
           /\ request[b].status \in {"confirmed", "none"} =>
                request'[b].status \in {"confirmed", "none"},
         NotStartedWhilePending'
  PROVE  BookingsAgree'
<1>1. linked' = linked /\ account' = account /\ mailed' = mailed /\ crashes' = crashes
  BY DEF guests
<1>2. EffectsAreBacked'
  <2>1. ASSUME NEW g \in Guest, Backed(g) PROVE Backed(g)'
    <3>1. \A b \in BookingsOf(g) : b \in BookingId
      BY DEF BookingsOf
    <3>. QED BY <2>1, <3>1, BackedStays
  <2>. QED BY <1>1, <2>1 DEF BookingsAgree, EffectsAreBacked
<1>3. ConfirmedIsListed'
  <2>1. \A b : ~\E q \in Request : local[q].step = "linkClient" /\ local[q].id = b
    BY OnlyOne
  <2>. QED BY <1>1, <2>1 DEF BookingsAgree, ConfirmedIsListed
<1>4. AccountsAreUsed'
  <2>1. \A g : ~\E q \in Request : Opening(local[q], g)
    BY OnlyOne
  <2>. QED BY <1>1, <2>1 DEF BookingsAgree, AccountsAreUsed
<1>5. AppointmentHasItsClient'
  BY <1>1 DEF BookingsAgree, AppointmentHasItsClient
<1>6. (\A q \in Request : Fresh(local[q]))'
  BY FreshForAll
<1>. QED BY <1>2, <1>3, <1>4, <1>5, <1>6 DEF BookingsAgree

LEMMA StatusKeepsBookings ==
  ASSUME TypeOK, RowsExist, NEW b \in BookingId, Booked(b),
         NEW status \in AppointmentStatus \ {"none"},
         session' = [session EXCEPT ![b].status = status]
  PROVE  /\ \A g : BookingsOf(g)' = BookingsOf(g)
         /\ \A c \in BookingId : session'[c].guest = session[c].guest
<1>1. /\ session'[b].status = status /\ session'[b].guest = session[b].guest
      /\ \A c \in BookingId : c # b => session'[c] = session[c]
  BY StatusWritten
<1>2. \A c \in BookingId : Booked(c)' <=> Booked(c)
  BY <1>1 DEF Booked
<1>3. \A c \in BookingId : session'[c].guest = session[c].guest
  BY <1>1
<1>. QED BY <1>2, <1>3 DEF BookingsOf

LEMMA CloseSessionAgrees ==
  ASSUME TypeOK, RowsExist, BookingsAgree, OneAtATime, NEW p \in Request, NEW b \in BookingId,
         CloseSession(p, b)
  PROVE  BookingsAgree'
<1>1. /\ local[p] \in Local /\ Fresh(local[p]) /\ Holds(local[p]) /\ local[p].step = "close"
      /\ b \in local[p].batch
  BY LocalType DEF BookingsAgree, RowsExist, CloseSession, At
<1>2. Booked(b) /\ "cancelled" \in AppointmentStatus \ {"none"}
  BY <1>1 DEF Holds, AppointmentStatus
<1>3. /\ \A g : BookingsOf(g)' = BookingsOf(g)
      /\ \A c \in BookingId : session'[c].guest = session[c].guest
  BY <1>2, StatusKeepsBookings DEF CloseSession
<1>4. /\ session'[b].status = "cancelled"
      /\ \A c \in BookingId : c # b => session'[c] = session[c]
  BY <1>2, StatusWritten DEF CloseSession
<1>5. /\ request'[b].status \in {"rejected", "expired"}
      /\ request[b].status \in PENDING_STATUSES
      /\ \A c \in BookingId : c # b => request'[c] = request[c]
  BY <1>1 DEF CloseSession, TypeOK, Fresh, VerdictIsFresh
<1>6. NotStartedWhilePending'
  BY <1>4, <1>5 DEF BookingsAgree, NotStartedWhilePending, PENDING_STATUSES
<1>7. \A c \in BookingId :
        /\ request'[c].status = "confirmed" => request[c].status = "confirmed"
        /\ request[c].status \in {"confirmed", "none"} =>
             request'[c].status \in {"confirmed", "none"}
  BY <1>5 DEF PENDING_STATUSES
<1>8. local[p].step # "linkClient" /\ \A g : ~Opening(local[p], g)
  BY <1>1 DEF Opening
<1>9. ASSUME NEW next, Goto(p, next), Fresh(next)', \A c : ~ToBeApproved(next, c)
      PROVE  BookingsAgree'
  BY <1>3, <1>6, <1>7, <1>8, <1>9, OutcomeAgrees DEF CloseSession
<1>10. CASE local[p].batch = {b}
  BY <1>9, <1>10, IdleKnowsNothing DEF CloseSession, Finish
<1>11. CASE local[p].batch # {b}
  <2>1. PICK next : next = [local[p] EXCEPT !.batch = local[p].batch \ {b}]
    OBVIOUS
  <2>2. /\ next.step = "close" /\ next.batch = local[p].batch \ {b}
        /\ next.copy = local[p].copy
    BY <1>1, <2>1 DEF Local
  <2>3. \A c \in next.batch : c \in local[p].batch /\ c \in BookingId /\ c # b
    BY <1>1, <2>2, LocalType
  <2>4. VerdictIsFresh(next)'
    <3>1. \A c \in next.batch : request'[c].status \in PENDING_STATUSES
                                /\ next.copy[c].status \in {"rejected", "expired"}
      BY <1>1, <1>5, <2>2, <2>3 DEF Fresh, VerdictIsFresh
    <3>. QED BY <2>2, <3>1 DEF VerdictIsFresh
  <2>5. Fresh(next)'
    BY <2>2, <2>4 DEF Fresh, BookingIsFresh, GuestIsFresh, StatusIsFresh, OfAGuest
  <2>6. Goto(p, next) /\ \A c : ~ToBeApproved(next, c)
    BY <1>11, <2>1, <2>2 DEF CloseSession, ToBeApproved
  <2>. QED BY <1>9, <2>5, <2>6
<1>. QED BY <1>10, <1>11

LEMMA StatusAgrees ==
  ASSUME TypeOK, RowsExist, BookingsAgree, OneAtATime, NEW p \in Request,
         CommitCancellation(p) \/ WriteStatus(p)
  PROVE  BookingsAgree'
<1>1. /\ local[p] \in Local /\ Fresh(local[p]) /\ Holds(local[p])
      /\ local[p].step \in {"cancel", "writeStatus"}
  BY LocalType DEF BookingsAgree, RowsExist, CommitCancellation, WriteStatus, At
<1>2. PICK b \in BookingId : b = local[p].id /\ Booked(b)
  BY <1>1 DEF Holds, OfABooking
<1>3. PICK status \in AppointmentStatus \ {"none"} :
        /\ session' = [session EXCEPT ![b].status = status]
        /\ LinkBookingConfirmed(request[b].status, status)
  <2>1. CASE CommitCancellation(p)
    <3>1. "cancelled" \in AppointmentStatus \ {"none"}
      BY DEF AppointmentStatus
    <3>2. LinkBookingConfirmed(request[b].status, "cancelled")
      BY DEF LinkBookingConfirmed
    <3>3. session' = [session EXCEPT ![b].status = "cancelled"]
      BY <1>2, <2>1 DEF CommitCancellation
    <3>. QED BY <3>1, <3>2, <3>3
  <2>2. CASE WriteStatus(p)
    BY <1>1, <1>2, <2>2, LocalType
    DEF WriteStatus, At, Holds, Fresh, StatusIsFresh
  <2>. QED BY <2>1, <2>2
<1>4. /\ Goto(p, Idle) /\ request' = request /\ UNCHANGED <<guests, crashes>>
  BY DEF CommitCancellation, WriteStatus, Finish
<1>5. /\ \A g : BookingsOf(g)' = BookingsOf(g)
      /\ \A c \in BookingId : session'[c].guest = session[c].guest
  BY <1>2, <1>3, StatusKeepsBookings
<1>6. /\ session'[b].status = status
      /\ \A c \in BookingId : c # b => session'[c] = session[c]
  BY <1>2, <1>3, StatusWritten
<1>7. NotStartedWhilePending'
  BY <1>3, <1>4, <1>6 DEF BookingsAgree, NotStartedWhilePending, LinkBookingConfirmed
<1>8. local[p].step # "linkClient" /\ \A g : ~Opening(local[p], g)
  BY <1>1 DEF Opening
<1>. QED BY <1>4, <1>5, <1>7, <1>8, IdleKnowsNothing, OutcomeAgrees

LEMMA StatusAskedAgrees ==
  ASSUME TypeOK, RowsExist, BookingsAgree, OneAtATime, NEW p \in Request,
         \/ \E b \in BookingId : CancelSession(p, b)
         \/ \E b \in BookingId, next \in AppointmentStatus \ {"none"} :
              UpdateSessionStatus(p, b, next)
  PROVE  BookingsAgree'
<1>1. local[p].step = "idle" /\ UNCHANGED <<guests, agenda, request, crashes>>
  BY DEF CancelSession, UpdateSessionStatus, At
<1>2. PICK next : Goto(p, next) /\ next.step \in {"cancel", "gate"}
  <2>1. ASSUME NEW b \in BookingId, CancelSession(p, b)
        PROVE  \E next : Goto(p, next) /\ next.step \in {"cancel", "gate"}
    <3>1. PICK next : next = [Idle EXCEPT !.step = "cancel", !.id = b]
      OBVIOUS
    <3>2. next.step = "cancel"
      BY <3>1 DEF Idle
    <3>. QED BY <2>1, <3>1, <3>2 DEF CancelSession
  <2>2. ASSUME NEW b \in BookingId, NEW status, UpdateSessionStatus(p, b, status)
        PROVE  \E next : Goto(p, next) /\ next.step \in {"cancel", "gate"}
    <3>1. PICK next : next = [Idle EXCEPT !.step = "gate", !.id = b,
                                          !.previous = session[b].status, !.next = status]
      OBVIOUS
    <3>2. next.step = "gate"
      BY <3>1 DEF Idle
    <3>. QED BY <2>2, <3>1, <3>2 DEF UpdateSessionStatus
  <2>. QED BY <2>1, <2>2
<1>3. Fresh(next)
  BY <1>2, NothingToKnow
<1>4. /\ \A b : ~ToBeApproved(next, b)
      /\ \A g : ~Opening(local[p], g)
      /\ local[p].step # "linkClient"
  BY <1>1, <1>2 DEF ToBeApproved, Opening
<1>. QED BY <1>1, <1>2, <1>3, <1>4, MemoryAgrees

LEMMA GateAgrees ==
  ASSUME TypeOK, RowsExist, BookingsAgree, OneAtATime, NEW p \in Request,
         AssertLinkBookingConfirmed(p) \/ CheckReactivation(p)
  PROVE  BookingsAgree'
<1>1. /\ local[p].step \in {"gate", "checkReactivation"}
      /\ UNCHANGED <<guests, agenda, request, crashes>>
      /\ local[p] \in Local /\ Fresh(local[p])
  BY LocalType DEF AssertLinkBookingConfirmed, CheckReactivation, At, BookingsAgree
<1>2. /\ local[p].step # "linkClient"
      /\ \A g : ~Opening(local[p], g)
  BY <1>1 DEF Opening
<1>3. CASE Goto(p, Idle)
  BY <1>1, <1>2, <1>3, IdleAgrees
<1>4. ASSUME NEW step \in {"checkReactivation", "writeStatus"}, Proceed(p, step),
             detail[local[p].id] # "none",
             LinkBookingConfirmed(request[local[p].id].status, local[p].next),
             /\ step = "writeStatus" /\ Reactivation(p) /\ detail[local[p].id] = "cancelled"
             => ~WorkerClash(local[p].id, session[local[p].id].slot)
      PROVE  BookingsAgree'
  <2>1. PICK next : next = [local[p] EXCEPT !.step = step]
    OBVIOUS
  <2>2. /\ next.step = step /\ next.id = local[p].id /\ next.next = local[p].next
        /\ next.previous = local[p].previous /\ Goto(p, next)
    BY <1>1, <1>4, <2>1 DEF Local, Proceed
  <2>3. StatusIsFresh(next)
    BY <1>4, <2>2 DEF StatusIsFresh, Reactivation
  <2>4. Fresh(next)
    BY <2>2, <2>3 DEF Fresh, BookingIsFresh, GuestIsFresh, VerdictIsFresh, OfAGuest
  <2>5. \A b : ~ToBeApproved(next, b)
    BY <2>2 DEF ToBeApproved
  <2>. QED BY <1>1, <1>2, <2>2, <2>4, <2>5, MemoryAgrees
<1>5. CASE AssertLinkBookingConfirmed(p)
  <2>1. \/ Goto(p, Idle)
        \/ /\ LinkBookingConfirmed(request[local[p].id].status, local[p].next)
           /\ detail[local[p].id] # "none"
           /\ \/ Reactivation(p) /\ Proceed(p, "checkReactivation")
              \/ ~Reactivation(p) /\ Proceed(p, "writeStatus")
    BY <1>5 DEF AssertLinkBookingConfirmed, Finish
  <2>. QED BY <1>3, <1>4, <2>1
<1>6. CASE CheckReactivation(p)
  <2>1. \/ Goto(p, Idle)
        \/ /\ ~(detail[local[p].id] = "cancelled" /\ WorkerClash(local[p].id, session[local[p].id].slot))
           /\ Proceed(p, "writeStatus")
    BY <1>6 DEF CheckReactivation, Finish
  <2>2. /\ detail[local[p].id] # "none"
        /\ LinkBookingConfirmed(request[local[p].id].status, local[p].next)
    BY <1>1, <1>6 DEF CheckReactivation, At, Fresh, StatusIsFresh
  <2>. QED BY <1>3, <1>4, <2>1, <2>2
<1>. QED BY <1>5, <1>6

LEMMA ApprovedAgrees ==
  ASSUME TypeOK, RowsExist, BookingsAgree, OneAtATime, NEW p \in Request, SaveApproved(p)
  PROVE  BookingsAgree'
<1>1. /\ local[p] \in Local /\ Fresh(local[p]) /\ Holds(local[p])
      /\ local[p].step = "saveApproved"
      /\ UNCHANGED <<guests, agenda, crashes>>
      /\ linked' = linked /\ account' = account /\ mailed' = mailed /\ session' = session
      /\ crashes' = crashes
  BY LocalType DEF BookingsAgree, RowsExist, SaveApproved, At, guests, agenda
<1>2. PICK b \in BookingId : b = local[p].id
  BY <1>1 DEF Holds, OfABooking
<1>3. /\ request[b].status \in PENDING_STATUSES /\ request'[b].status = "confirmed"
      /\ \A c \in BookingId : c # b => request'[c] = request[c]
  BY <1>1, <1>2 DEF SaveApproved, TypeOK, Fresh, VerdictIsFresh
<1>4. PICK next : next = [local[p] EXCEPT !.step = "linkClient"]
  OBVIOUS
<1>5. next.step = "linkClient" /\ next.id = b /\ Goto(p, next)
  BY <1>1, <1>2, <1>4 DEF Local, SaveApproved, Proceed
<1>6. VerdictIsFresh(next)'
  BY <1>3, <1>5 DEF VerdictIsFresh
<1>7. Fresh(next)'
  BY <1>5, <1>6 DEF Fresh, BookingIsFresh, GuestIsFresh, StatusIsFresh, OfAGuest
<1>8. (\A q \in Request : Fresh(local[q]))'
  BY <1>5, <1>7, FreshForAll
<1>9. \A g : BookingsOf(g)' = BookingsOf(g)
  BY <1>1 DEF BookingsOf, Booked
<1>10. NotStartedWhilePending' /\ AppointmentHasItsClient'
  <2>1. NotStartedWhilePending'
    BY <1>1, <1>3 DEF BookingsAgree, NotStartedWhilePending, PENDING_STATUSES
  <2>2. AppointmentHasItsClient'
    BY <1>1, <1>9 DEF BookingsAgree, AppointmentHasItsClient
  <2>. QED BY <2>1, <2>2
<1>11. EffectsAreBacked'
  <2>1. ASSUME NEW g \in Guest, Backed(g) PROVE Backed(g)'
    <3>1. \A c \in BookingsOf(g) :
            request[c].status \in {"confirmed", "none"} /\ ~ToBeApproved(local[p], c) =>
              request'[c].status \in {"confirmed", "none"} /\ ~ToBeApproved(next, c)
      BY <1>3, <1>5 DEF ToBeApproved, BookingsOf
    <3>. QED BY <1>5, <1>9, <2>1, <3>1, BackedStays
  <2>. QED BY <1>1, <2>1 DEF BookingsAgree, EffectsAreBacked
<1>12. ConfirmedIsListed'
  <2>1. ASSUME crashes = 0, NEW c \in BookingId, request'[c].status = "confirmed"
        PROVE  \/ session[c].guest \in linked
               \/ (\E q \in Request : local[q].step = "linkClient" /\ local[q].id = c)'
    <3>1. CASE c = b
      BY <1>5, <3>1, OnlyOneNext
    <3>2. CASE c # b
      BY <1>1, <1>3, <2>1, <3>2, OnlyOne DEF BookingsAgree, ConfirmedIsListed
    <3>. QED BY <3>1, <3>2
  <2>. QED BY <1>1, <2>1 DEF ConfirmedIsListed
<1>13. AccountsAreUsed'
  <2>1. \A h : ~Opening(local[p], h)
    BY <1>1 DEF Opening
  <2>. QED BY <1>1, <1>9, <2>1, OnlyOne DEF BookingsAgree, AccountsAreUsed
<1>. QED BY <1>8, <1>10, <1>11, <1>12, <1>13 DEF BookingsAgree

\* What follows an approval reaches a guest who has a confirmed booking.
LEMMA EffectAgrees ==
  ASSUME TypeOK, RowsExist, BookingsAgree, OneAtATime, NEW p \in Request,
         LinkClientToCompany(p) \/ SendNewAccountCredentials(p)
  PROVE  BookingsAgree'
<1>1. /\ local[p] \in Local /\ Fresh(local[p]) /\ Holds(local[p])
      /\ local[p].step \in {"linkClient", "sendCredentials"}
      /\ account' = account /\ session' = session /\ request' = request /\ detail' = detail
      /\ crashes' = crashes
  BY LocalType
  DEF BookingsAgree, RowsExist, LinkClientToCompany, SendNewAccountCredentials, At, agenda
<1>2. PICK b \in BookingId : b = local[p].id /\ Booked(b)
  BY <1>1 DEF Holds, OfABooking
<1>3. PICK guest \in Guest : guest = session[b].guest /\ b \in BookingsOf(guest)
  BY <1>2, BookedRow DEF BookingsOf
<1>4. request[b].status = "confirmed" /\ account[guest] # "unknown"
  BY <1>1, <1>2, <1>3 DEF Fresh, VerdictIsFresh, BookingsAgree, AppointmentHasItsClient
<1>5. /\ linked \subseteq linked' /\ linked' \subseteq linked \cup {guest}
      /\ mailed' \subseteq mailed \cup {guest}
      /\ local[p].step = "linkClient" => guest \in linked'
  BY <1>1, <1>2, <1>3, <1>4
  DEF LinkClientToCompany, SendNewAccountCredentials, OnTheList, At
<1>6. PICK next : /\ Goto(p, next) /\ next.step \in {"idle", "sendCredentials"}
                  /\ next.step = "sendCredentials" => next.id = b
  <2>1. CASE Goto(p, Idle)
    BY <2>1, IdleKnowsNothing
  <2>2. CASE Proceed(p, "sendCredentials")
    <3>1. PICK next : next = [local[p] EXCEPT !.step = "sendCredentials"]
      OBVIOUS
    <3>2. next.step = "sendCredentials" /\ next.id = b
      BY <1>1, <1>2, <3>1 DEF Local
    <3>3. Goto(p, next)
      BY <2>2, <3>1 DEF Proceed
    <3>. QED BY <3>2, <3>3
  <2>3. Goto(p, Idle) \/ Proceed(p, "sendCredentials")
    BY DEF LinkClientToCompany, SendNewAccountCredentials, Finish
  <2>. QED BY <2>1, <2>2, <2>3
<1>7. Fresh(next)'
  BY <1>1, <1>4, <1>6
  DEF Fresh, BookingIsFresh, GuestIsFresh, StatusIsFresh, VerdictIsFresh, OfAGuest
<1>8. (\A q \in Request : Fresh(local[q]))'
  BY <1>6, <1>7, FreshForAll
<1>9. (\A g : BookingsOf(g)' = BookingsOf(g)) /\ \A c : ~ToBeApproved(next, c)
  BY <1>1, <1>6 DEF BookingsOf, Booked, ToBeApproved
<1>10. NotStartedWhilePending' /\ AppointmentHasItsClient'
  BY <1>1, <1>9 DEF BookingsAgree, NotStartedWhilePending, AppointmentHasItsClient
<1>11. EffectsAreBacked'
  <2>1. ASSUME NEW g \in Guest, Backed(g) PROVE Backed(g)'
    BY <1>1, <1>6, <1>9, <2>1, BackedStays
  <2>2. Backed(guest)'
    <3>1. (\A q \in Request : ~ToBeApproved(local[q], b))'
      BY <1>6, <1>9, OnlyOneNext
    <3>. QED BY <1>1, <1>3, <1>4, <1>9, <3>1 DEF Backed
  <2>. QED BY <1>1, <1>5, <2>1, <2>2 DEF BookingsAgree, EffectsAreBacked
<1>12. ConfirmedIsListed'
  <2>1. ASSUME crashes = 0, NEW c \in BookingId, request[c].status = "confirmed"
        PROVE  session[c].guest \in linked'
    <3>1. session[c].guest \in linked \/ (local[p].step = "linkClient" /\ local[p].id = c)
      BY <2>1, OnlyOne DEF BookingsAgree, ConfirmedIsListed
    <3>. QED BY <1>2, <1>3, <1>5, <3>1
  <2>. QED BY <1>1, <2>1 DEF ConfirmedIsListed
<1>13. AccountsAreUsed'
  <2>1. \A h : ~Opening(local[p], h)
    BY <1>1 DEF Opening
  <2>. QED BY <1>1, <1>9, <2>1, OnlyOne DEF BookingsAgree, AccountsAreUsed
<1>. QED BY <1>8, <1>10, <1>11, <1>12, <1>13 DEF BookingsAgree

LEMMA FailAgrees ==
  ASSUME TypeOK, RowsExist, BookingsAgree, OneAtATime, NEW p \in Request, Fail(p)
  PROVE  BookingsAgree'
<1>1. crashes' # 0
  BY DEF Fail, TypeOK
<1>. QED BY <1>1, IdleAgrees DEF Fail, Finish

LEMMA BookingsStayInAgreement ==
  ASSUME TypeOK, RowsExist, BookingsAgree, OneAtATime, [Next]_vars
  PROVE  BookingsAgree'
<1>1. CASE UNCHANGED <<guests, agenda, request, crashes, local>>
  <2>1. UNCHANGED <<account, linked, mailed, session, detail, request, crashes, local>>
    BY <1>1 DEF guests, agenda
  <2>3. (\A q \in Request : Fresh(local[q]))'
    <3>1. ASSUME NEW p \in Request PROVE (\A q \in Request : Fresh(local[q]))'
      <4>1. PICK memory : memory = local[p]
        OBVIOUS
      <4>2. Fresh(memory)'
        BY <1>1, <4>1, FreshIsStable DEF BookingsAgree
      <4>3. Goto(p, memory)
        BY <2>1, <4>1 DEF Goto, TypeOK
      <4>. QED BY <4>2, <4>3, FreshForAll
    <3>. QED BY <3>1
  <2>4. NotStartedWhilePending' /\ ConfirmedIsListed' /\ AppointmentHasItsClient'
    BY <2>1 DEF BookingsAgree, NotStartedWhilePending, ConfirmedIsListed,
       AppointmentHasItsClient, BookingsOf, Booked
  <2>5. EffectsAreBacked' /\ AccountsAreUsed'
    BY <2>1 DEF BookingsAgree, EffectsAreBacked, AccountsAreUsed, Backed, ToBeApproved,
       Opening, BookingsOf, Booked
  <2>. QED BY <2>3, <2>4, <2>5 DEF BookingsAgree
<1>2. CASE Tick
  BY <1>1, <1>2 DEF Tick
<1>3. CASE UNCHANGED vars
  BY <1>1, <1>3 DEF vars, guests, agenda
<1>4. ASSUME NEW p \in Request, RequestStep(p) PROVE BookingsAgree'
  BY <1>4, CheckAgendaAgrees, RollbackGuestAgrees, InsertSessionAgrees, InsertDetailAgrees,
     LinkNewClientAgrees, InsertRequestAgrees, ApprovedAgrees, EffectAgrees,
     CloseSessionAgrees, StatusAgrees, GateAgrees DEF RequestStep
<1>5. ASSUME NEW p \in Request, Arrival(p) PROVE BookingsAgree'
  BY <1>5, GuestArrivesAgrees, VerdictArrivesAgrees, StatusAskedAgrees DEF Arrival
<1>6. ASSUME NEW p \in Request, Fail(p) PROVE BookingsAgree'
  BY <1>6, FailAgrees
<1>. QED BY <1>2, <1>3, <1>4, <1>5, <1>6 DEF Next

LEMMA BookingsAlwaysAgree ==
  ASSUME OneAtATime
  PROVE  Spec => [](TypeOK /\ RowsExist /\ BookingsAgree)
<1>1. Init => TypeOK /\ RowsExist /\ BookingsAgree
  <2>. SUFFICES ASSUME Init PROVE TypeOK /\ RowsExist /\ BookingsAgree
    OBVIOUS
  <2>1. TypeOK /\ RowsExist
    BY BookingTypesInit
  <2>2. \A q \in Request : local[q] = Idle
    BY DEF Init
  <2>3. \A q \in Request : Fresh(local[q])
    BY <2>2, IdleKnowsNothing
  <2>4. \A b \in BookingId : request[b].status = "none" /\ ~Booked(b)
    BY DEF Init, NoRequest, NoSession, Booked
  <2>5. \A g : BookingsOf(g) = {}
    BY <2>4 DEF BookingsOf
  <2>6. NotStartedWhilePending /\ ConfirmedIsListed /\ AppointmentHasItsClient
    BY <2>4, <2>5
    DEF NotStartedWhilePending, ConfirmedIsListed, AppointmentHasItsClient, PENDING_STATUSES
  <2>7. EffectsAreBacked /\ AccountsAreUsed
    <3>1. \A g \in Guest : account[g] \notin {"created", "attached"}
                           /\ (g \in linked => account[g] = "registered")
      BY DEF Init
    <3>. QED BY <3>1 DEF EffectsAreBacked, AccountsAreUsed, Init
  <2>. QED BY <2>1, <2>3, <2>6, <2>7 DEF BookingsAgree
<1>2. (TypeOK /\ RowsExist /\ BookingsAgree) /\ [Next]_vars
        => (TypeOK /\ RowsExist /\ BookingsAgree)'
  BY RowsStayTyped, BookingsStayInAgreement
<1>. QED BY <1>1, <1>2, PTL DEF Spec

\* Of a salon whose requests come one at a time: a booking, its appointment, its
\* guest's account and the salon's list agree after every step, whatever the
\* salon decides and whichever request dies on the way (createBooking, approve,
\* reject, expirePending).
THEOREM EveryBookingAgrees ==
  ASSUME OneAtATime
  PROVE  Spec => []BookingAgrees
<1>1. TypeOK /\ RowsExist /\ BookingsAgree => BookingAgrees
  <2>. SUFFICES ASSUME TypeOK, RowsExist, BookingsAgree PROVE BookingAgrees
    OBVIOUS
  <2>1. EffectsNeedConfirmation
    BY DEF BookingsAgree, EffectsAreBacked, Backed, EffectsNeedConfirmation
  <2>2. Quiet /\ crashes = 0 => \A b \in BookingId :
          request[b].status = "confirmed" => session[b].guest \in linked
    BY DEF BookingsAgree, ConfirmedIsListed, Quiet, At
  <2>3. Quiet /\ crashes = 0 => \A g \in Guest :
          account[g] \in {"created", "attached"} => BookingsOf(g) # {}
    BY DEF BookingsAgree, AccountsAreUsed, Opening, Quiet, At
  <2>4. ConfirmedIsClient
    BY <2>2 DEF ConfirmedIsClient
  <2>5. NoOrphanAccount
    BY <2>3 DEF NoOrphanAccount
  <2>. QED BY <2>1, <2>4, <2>5 DEF BookingAgrees, BookingsAgree
<1>. QED BY <1>1, BookingsAlwaysAgree, PTL

\* A verdict is final: with one request at a time nothing overwrites a booking
\* that was confirmed, rejected or let expire (findReviewable, expirePending).
THEOREM VerdictIsFinal ==
  ASSUME OneAtATime
  PROVE  Spec => DecidedOnce
<1>1. ASSUME TypeOK, RowsExist, BookingsAgree, [Next]_vars, NEW b \in BookingId,
             request[b].status \in Decided
      PROVE  request'[b].status = request[b].status
  <2>1. CASE request' = request
    BY <2>1
  <2>2. request[b].status # "none" /\ request[b].status \notin PENDING_STATUSES
    BY <1>1 DEF Decided, PENDING_STATUSES
  <2>3. ASSUME NEW p \in Request, NEW c \in BookingId, NEW row,
               request' = [request EXCEPT ![c] = row],
               request[c].status \in PENDING_STATUSES \cup {"none"}
        PROVE  request'[b].status = request[b].status
    BY <1>1, <2>2, <2>3 DEF TypeOK
  <2>4. ASSUME NEW p \in Request, InsertRequest(p)
        PROVE  request'[b].status = request[b].status
    <3>1. PICK c \in BookingId : c = local[p].id /\ request[c].status = "none"
      BY <1>1, <2>4
      DEF RowsExist, Holds, OfABooking, BookingsAgree, Fresh, BookingIsFresh, InsertRequest, At
    <3>. QED BY <2>3, <2>4, <3>1 DEF InsertRequest
  <2>5. ASSUME NEW p \in Request, SaveApproved(p)
        PROVE  request'[b].status = request[b].status
    <3>1. PICK c \in BookingId : c = local[p].id /\ request[c].status \in PENDING_STATUSES
      BY <1>1, <2>5
      DEF RowsExist, Holds, OfABooking, BookingsAgree, Fresh, VerdictIsFresh, SaveApproved, At
    <3>. QED BY <2>3, <2>5, <3>1 DEF SaveApproved
  <2>6. ASSUME NEW p \in Request, NEW c \in BookingId, CloseSession(p, c)
        PROVE  request'[b].status = request[b].status
    <3>1. request[c].status \in PENDING_STATUSES
      BY <1>1, <2>6 DEF BookingsAgree, Fresh, VerdictIsFresh, CloseSession, At
    <3>. QED BY <2>3, <2>6, <3>1 DEF CloseSession
  <2>7. ASSUME NEW p \in Request, RequestStep(p)
        PROVE  request'[b].status = request[b].status
    BY <2>1, <2>4, <2>5, <2>6, <2>7
    DEF RequestStep, CheckAgenda, RollbackGuest, InsertSession, InsertDetail, LinkNewClient,
        LinkClientToCompany, SendNewAccountCredentials, CommitCancellation,
        AssertLinkBookingConfirmed, CheckReactivation, WriteStatus
  <2>8. ASSUME NEW p \in Request, Arrival(p) PROVE request' = request
    BY <2>8 DEF Arrival, BookByLink, Approve, Reject, CancelSession, UpdateSessionStatus,
       ExpirePending
  <2>. QED BY <1>1, <2>1, <2>7, <2>8 DEF Next, Tick, Fail, vars
<1>2. TypeOK /\ RowsExist /\ BookingsAgree /\ [Next]_vars
        => [\A b \in BookingId : request[b].status \in Decided =>
              request'[b].status = request[b].status]_vars
  BY <1>1
<1>. QED BY <1>2, BookingsAlwaysAgree, PTL DEF Spec, DecidedOnce

\* With one request at a time no appointment takes a place of the worker's
\* agenda that a scheduled or started one holds, be it new or brought back
\* (checkIfWorkerHasAppointmentAtSameTime, updateSessionStatus).
THEOREM AppointmentsFit ==
  ASSUME OneAtATime
  PROVE  Spec => NewAppointmentsFit
<1>. DEFINE Alone(b) ==
       \A c \in BookingId \ {b} :
         session'[c].status # "none" /\ session'[c].slot = session'[b].slot => ~Blocking(detail'[c])
<1>1. ASSUME TypeOK, RowsExist, BookingsAgree, [Next]_vars, NEW b \in BookingId,
             Blocking(detail'[b]), detail[b] \in {"none", "cancelled"}
      PROVE  Alone(b)
  <2>1. ~(detail'[b] = detail[b]) /\ detail'[b] \notin {"none", "cancelled"}
    BY <1>1 DEF Blocking
  <2>2. ASSUME ~WorkerClash(b, session[b].slot), session'[b].slot = session[b].slot,
               \A c \in BookingId : c # b => session'[c] = session[c] /\ detail'[c] = detail[c]
        PROVE  Alone(b)
    BY <2>2 DEF WorkerClash, Booked
  <2>. HIDE DEF Alone
  <2>3. ASSUME NEW p \in Request, InsertDetail(p) PROVE Alone(b)
    <3>1. b = local[p].id /\ \A c \in BookingId : c # b => detail'[c] = detail[c]
      BY <1>1, <2>1, <2>3 DEF InsertDetail, TypeOK
    <3>2. ~WorkerClash(b, session[b].slot)
      <4>1. Fresh(local[p]) /\ local[p].step = "insertDetail"
        BY <1>1, <2>3 DEF BookingsAgree, InsertDetail, At
      <4>2. session[b].slot = local[p].wanted[2] /\ ~WorkerClash(b, local[p].wanted[2])
        BY <3>1, <4>1 DEF Fresh, BookingIsFresh
      <4>. QED BY <4>2
    <3>. QED BY <2>2, <2>3, <3>1, <3>2 DEF InsertDetail
  <2>4. ASSUME NEW p \in Request, WriteStatus(p) PROVE Alone(b)
    <3>1. b = local[p].id /\ \A c \in BookingId : c # b => detail'[c] = detail[c]
      BY <1>1, <2>1, <2>4 DEF WriteStatus, TypeOK
    <3>2. local[p] \in Local /\ local[p].step = "writeStatus" /\ Booked(b)
          /\ local[p].next \in AppointmentStatus \ {"none"} /\ Fresh(local[p])
      BY <1>1, <2>4, <3>1, LocalType
      DEF RowsExist, Holds, OfABooking, WriteStatus, At, BookingsAgree
    <3>3. /\ session'[b].slot = session[b].slot
          /\ \A c \in BookingId : c # b => session'[c] = session[c]
      BY <1>1, <2>4, <3>1, <3>2, StatusWritten DEF WriteStatus
    <3>4. detail[b] = "cancelled" /\ Reactivation(p)
      BY <1>1, <2>1, <2>4, <3>1, <3>2 DEF Fresh, StatusIsFresh, WriteStatus, TypeOK
    <3>5. ~WorkerClash(b, session[b].slot)
      BY <3>1, <3>2, <3>4 DEF Fresh, StatusIsFresh, Reactivation
    <3>. QED BY <2>2, <3>1, <3>3, <3>5
  <2>5. ASSUME NEW p \in Request, (\E c \in BookingId : CloseSession(p, c)) \/ CommitCancellation(p)
        PROVE  FALSE
    BY <1>1, <2>1, <2>5 DEF CloseSession, CommitCancellation, TypeOK
  <2>6. CASE detail' = detail
    BY <2>1, <2>6
  <2>7. ASSUME NEW p \in Request, RequestStep(p) PROVE Alone(b)
    BY <2>3, <2>4, <2>5, <2>6, <2>7
    DEF RequestStep, CheckAgenda, RollbackGuest, InsertSession, LinkNewClient, InsertRequest,
        SaveApproved, LinkClientToCompany, SendNewAccountCredentials,
        AssertLinkBookingConfirmed, CheckReactivation, agenda
  <2>8. ASSUME NEW p \in Request, Arrival(p) PROVE detail' = detail
    BY <2>8 DEF Arrival, BookByLink, Approve, Reject, CancelSession, UpdateSessionStatus,
       ExpirePending, agenda
  <2>. QED BY <1>1, <2>6, <2>7, <2>8 DEF Next, Tick, Fail, vars, agenda
<1>2. TypeOK /\ RowsExist /\ BookingsAgree /\ [Next]_vars
        => [\A b \in BookingId :
              Blocking(detail'[b]) /\ detail[b] \in {"none", "cancelled"} => Alone(b)]_vars
  <2>. HIDE DEF Alone
  <2>. QED BY <1>1
<1>. QED BY <1>2, BookingsAlwaysAgree, PTL DEF Spec, NewAppointmentsFit

====
