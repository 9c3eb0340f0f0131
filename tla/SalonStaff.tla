----------------------------- MODULE SalonStaff -----------------------------
(***************************************************************************)
(* Who works where: the registration of a worker by a salon, the account   *)
(* of the profile, its removal from a salon for a while or for good, its   *)
(* return, and the appointments that keep it from being removed.  What the *)
(* plan of the salon allows is left to TeamSelection.                      *)
(*                                                                         *)
(* A request reads the rows first and writes them later.                   *)
(***************************************************************************)
EXTENDS Integers, FiniteSets

CONSTANTS Office,      \* requests that may be under way
          MaxStaff, StaffAccount, Branch, Cedula,
          MaxOrders, MaxDuties  \* bounds

ASSUME StaffAssumption ==
  MaxStaff \in Nat \ {0} /\ MaxOrders \in Nat /\ MaxDuties \in Nat

VARIABLES
  staff,     \* worker rows
  job,       \* company_worker rows, by worker and salon
  login,     \* user rows: the worker they were made for
  duty,      \* the appointment of each worker
  order,     \* what each request has read and means to write
  mixed,     \* workers written by a request that another had overtaken
  linked,    \* cedulas of workers linked to a salon without being looked for
  revived,   \* workers given back an appointment by no check of theirs
  orders

staffVars == <<staff, job, login, duty, order, mixed, linked, revived, orders>>

Staff == 1..MaxStaff
Nothing == [nothing |-> TRUE]
NoLogin == [noLogin |-> TRUE]
NoCedula == [noCedula |-> TRUE]
Off == [op |-> "off"]

Hired == {w \in Staff : staff[w] # Nothing}
NextHire == {w \in Staff \ Hired : \A v \in Staff \ Hired : w <= v}
JobsOf(w) == {s \in Branch : job[w][s] # Nothing}
\* Neither removed for a while nor for good.
Present(j) == j # Nothing /\ j.state \in {"active", "inactive"}
Works(w) == \E s \in Branch : Present(job[w][s])

BLOCKING_STATUSES == {"scheduled", "paid"}
Blocked(w, s) ==
  duty[w] # Nothing /\ duty[w].salon = s /\ duty[w].status \in BLOCKING_STATUSES

\* Nobody else who works, here or in another salon, has the cedula.
CedulaFree(i, salons, self) ==
  i = NoCedula \/ salons = {} \/ \A w \in Hired \ {self} : staff[w].cedula = i => ~Works(w)

-----------------------------------------------------------------------------
Start(p, o) ==
  /\ order[p] = Off /\ orders < MaxOrders
  /\ order' = [order EXCEPT ![p] = o] /\ orders' = orders + 1
  /\ UNCHANGED <<staff, job, login, duty, mixed, linked, revived>>

Passed(p) == [q \in Office |-> IF q = p \/ order[q] = Off THEN order[q]
                               ELSE [order[q] EXCEPT !.overtaken = TRUE]]
End(p) == order' = [Passed(p) EXCEPT ![p] = Off]
Mix(p, w) == mixed' = IF order[p].overtaken THEN mixed \cup {w} ELSE mixed

Job(state, user) == [state |-> state, user |-> user]

\* The profile first, then its place in the salon.
RegisterWorker(p, s, i, a) ==
  /\ a = NoLogin => i # NoCedula
  /\ a # NoLogin => login[a] = 0
  /\ CedulaFree(i, {s}, 0)
  /\ Start(p, [op |-> "profile", overtaken |-> FALSE, cedula |-> i, salon |-> s, user |-> a])

SaveWorker(p) ==
  LET o == order[p] IN
  /\ o.op = "profile"
  /\ o.user # NoLogin => login[o.user] = 0
  /\ \E w \in NextHire :
       /\ staff' = [staff EXCEPT ![w] = [cedula |-> o.cedula, user |-> o.user]]
       /\ login' = IF o.user = NoLogin THEN login ELSE [login EXCEPT ![o.user] = w]
       /\ order' = [Passed(p) EXCEPT ![p] = [op |-> "assign", overtaken |-> o.overtaken,
                                             worker |-> w, salon |-> o.salon, user |-> o.user]]
  /\ UNCHANGED <<job, duty, mixed, linked, revived, orders>>

AssignToSalon(p) ==
  LET o == order[p] IN
  /\ o.op = "assign" /\ job[o.worker][o.salon] = Nothing
  /\ job' = [job EXCEPT ![o.worker][o.salon] = Job("active", o.user)]
  /\ Mix(p, o.worker) /\ End(p)
  /\ UNCHANGED <<staff, login, duty, linked, revived, orders>>

\* company_worker created by itself: nobody looks for the cedula.
LinkWorker(p, w, s) ==
  /\ w \in Hired /\ job[w][s] = Nothing /\ order[p] = Off /\ orders < MaxOrders
  /\ job' = [job EXCEPT ![w][s] = Job("active", staff[w].user)]
  /\ linked' = linked \cup ({staff[w].cedula} \ {NoCedula})
  /\ order' = Passed(p) /\ orders' = orders + 1
  /\ UNCHANGED <<staff, login, duty, mixed, revived>>

-----------------------------------------------------------------------------
(* The account *)

AssignWorkerEmail(p, w, s) ==
  /\ w \in Hired /\ job[w][s] # Nothing /\ staff[w].user = NoLogin
  /\ Start(p, [op |-> "grant", overtaken |-> FALSE, worker |-> w])

\* Mutant: the places of the worker keep no account.
ProfileOnly(w, a) ==
  IF staff[w].user = NoLogin
  THEN staff' = [staff EXCEPT ![w].user = a] /\ login' = [login EXCEPT ![a] = w]
       /\ UNCHANGED job
  ELSE UNCHANGED <<staff, login, job>>

AccountForWorker(w, a) ==
  IF staff[w].user = NoLogin
  THEN /\ staff' = [staff EXCEPT ![w].user = a]
       /\ login' = [login EXCEPT ![a] = w]
       /\ job' = [job EXCEPT ![w] = [s \in Branch |->
                    IF @[s] = Nothing THEN Nothing ELSE [@[s] EXCEPT !.user = a]]]
  ELSE UNCHANGED <<staff, login, job>>

GrantLogin(p, a) ==
  /\ order[p].op = "grant" /\ login[a] = 0
  /\ AccountForWorker(order[p].worker, a) /\ End(p)
  /\ UNCHANGED <<duty, mixed, linked, revived, orders>>

-----------------------------------------------------------------------------
(* Edits: the profile, or the place in a salon, saved as it was read *)

ResolveWorkerIdentification(w, i) ==
  /\ i # NoCedula
  /\ i # staff[w].cedula => CedulaFree(i, JobsOf(w), w)

\* By the worker the whole row is saved; by the salon, the columns that change.
UpdateWorkerProfile(p, w, i) ==
  /\ w \in Hired /\ staff[w].user # NoLogin /\ ResolveWorkerIdentification(w, i)
  /\ Start(p, [op |-> "saveProfile", overtaken |-> FALSE, worker |-> w,
               row |-> [staff[w] EXCEPT !.cedula = i]])

UpdateWorkerByAdmin(p, w, s, i) ==
  /\ w \in Hired /\ job[w][s] # Nothing /\ ResolveWorkerIdentification(w, i)
  /\ Start(p, [op |-> "setCedula", overtaken |-> FALSE, worker |-> w, cedula |-> i])

SaveProfile(p) ==
  LET o == order[p] IN
  /\ \/ o.op = "saveProfile" /\ staff' = [staff EXCEPT ![o.worker] = o.row]
     \/ o.op = "setCedula" /\ staff' = [staff EXCEPT ![o.worker].cedula = o.cedula]
  /\ Mix(p, o.worker) /\ End(p)
  /\ UNCHANGED <<job, login, duty, linked, revived, orders>>

SavesJob(p, w, s, j) ==
  Start(p, [op |-> "saveJob", overtaken |-> FALSE, worker |-> w, salon |-> s, job |-> j])

UpdateWorkerInCompany(p, w, s, state) ==
  /\ w \in Hired /\ Present(job[w][s])
  /\ SavesJob(p, w, s, [job[w][s] EXCEPT !.state = state])

TemporarilyRemove(p, w, s) ==
  /\ w \in Hired /\ Present(job[w][s]) /\ ~Blocked(w, s)
  /\ SavesJob(p, w, s, [job[w][s] EXCEPT !.state = "away"])

PermanentlyRemove(p, w, s) ==
  /\ w \in Hired /\ job[w][s] # Nothing /\ job[w][s].state # "gone" /\ ~Blocked(w, s)
  /\ SavesJob(p, w, s, [job[w][s] EXCEPT !.state = "gone"])

RemoveWorkerFromCompany(p, w, s) ==
  /\ w \in Hired /\ job[w][s] # Nothing /\ ~Blocked(w, s)
  /\ SavesJob(p, w, s, Nothing)

MayReturn(w, s) == CedulaFree(staff[w].cedula, {s}, w)

Restore(p, w, s) ==
  /\ w \in Hired /\ job[w][s] # Nothing /\ job[w][s].state = "away" /\ MayReturn(w, s)
  /\ SavesJob(p, w, s, [job[w][s] EXCEPT !.state = "active"])

SaveJob(p) ==
  LET o == order[p] IN
  /\ o.op = "saveJob"
  /\ job' = [job EXCEPT ![o.worker][o.salon] = o.job]
  /\ Mix(p, o.worker) /\ End(p)
  /\ UNCHANGED <<staff, login, duty, linked, revived, orders>>

-----------------------------------------------------------------------------
(* Appointments of a worker *)

Overtakes ==
  order' = [q \in Office |-> IF order[q] = Off THEN Off
                             ELSE [order[q] EXCEPT !.overtaken = TRUE]]

BookWorker(w, s) ==
  /\ w \in Hired /\ duty[w] = Nothing /\ job[w][s] # Nothing /\ job[w][s].state = "active"
  /\ Cardinality({v \in Staff : duty[v] # Nothing}) < MaxDuties
  /\ duty' = [duty EXCEPT ![w] = [salon |-> s, status |-> "scheduled"]]
  /\ Overtakes
  /\ UNCHANGED <<staff, job, login, mixed, linked, revived, orders>>

DutyGoes(w, from, to) ==
  /\ duty[w] # Nothing /\ duty[w].status = from
  /\ duty' = [duty EXCEPT ![w].status = to]
  /\ revived' = IF to = "scheduled" /\ ~Present(job[w][duty[w].salon])
                THEN revived \cup {w} ELSE revived
  /\ Overtakes
  /\ UNCHANGED <<staff, job, login, mixed, linked, orders>>

\* The process dies with what it had not written.
Abandon(p) ==
  /\ order[p] # Off /\ order' = [order EXCEPT ![p] = Off]
  /\ UNCHANGED <<staff, job, login, duty, mixed, linked, revived, orders>>

-----------------------------------------------------------------------------
\* A salon with one worker, who has no account yet.
StaffInit ==
  /\ \E i \in Cedula :
       staff = [w \in Staff |-> IF w = 1 THEN [cedula |-> i, user |-> NoLogin] ELSE Nothing]
  /\ LET home == CHOOSE s \in Branch : TRUE IN
     job = [w \in Staff |-> [s \in Branch |->
              IF w = 1 /\ s = home THEN Job("active", NoLogin) ELSE Nothing]]
  /\ duty = [w \in Staff |-> Nothing] /\ login = [a \in StaffAccount |-> 0]
  /\ order = [p \in Office |-> Off]
  /\ mixed = {} /\ linked = {} /\ revived = {} /\ orders = 0

Cedulas == Cedula \cup {NoCedula}

Moves(p, w, s) ==
  \/ LinkWorker(p, w, s) \/ AssignWorkerEmail(p, w, s)
  \/ TemporarilyRemove(p, w, s) \/ PermanentlyRemove(p, w, s)
  \/ RemoveWorkerFromCompany(p, w, s) \/ Restore(p, w, s)
  \/ \E state \in {"active", "inactive"} : UpdateWorkerInCompany(p, w, s, state)
  \/ \E i \in Cedulas : UpdateWorkerByAdmin(p, w, s, i)

StaffNext ==
  \/ \E p \in Office :
       \/ SaveWorker(p) \/ AssignToSalon(p) \/ SaveProfile(p) \/ SaveJob(p) \/ Abandon(p)
       \/ \E a \in StaffAccount : GrantLogin(p, a)
       \/ \E s \in Branch, i \in Cedulas, a \in StaffAccount \cup {NoLogin} :
            RegisterWorker(p, s, i, a)
       \/ \E w \in Staff, i \in Cedulas : UpdateWorkerProfile(p, w, i)
       \/ \E w \in Staff, s \in Branch : Moves(p, w, s)
  \/ \E w \in Staff, s \in Branch : BookWorker(w, s)
  \/ \E w \in Staff : \/ DutyGoes(w, "scheduled", "completed")
                      \/ DutyGoes(w, "completed", "paid")
                      \/ DutyGoes(w, "scheduled", "cancelled")
                      \/ DutyGoes(w, "cancelled", "scheduled")

StaffSpec == StaffInit /\ [][StaffNext]_staffVars

-----------------------------------------------------------------------------
(* Properties *)

JobRow == [state : {"active", "inactive", "away", "gone"},
           user : StaffAccount \cup {NoLogin}]

\* An account is the one of the worker whose profile names it.
StaffTypeOK ==
  /\ staff \in [Staff -> {Nothing} \cup [cedula : Cedulas, user : StaffAccount \cup {NoLogin}]]
  /\ job \in [Staff -> [Branch -> JobRow \cup {Nothing}]]
  /\ login \in [StaffAccount -> Staff \cup {0}]
  /\ duty \in [Staff -> {Nothing} \cup [salon : Branch,
                 status : {"scheduled", "completed", "paid", "cancelled"}]]
  /\ \A w \in Staff \ Hired : JobsOf(w) = {}
  /\ \A w \in Hired : staff[w].user # NoLogin => login[staff[w].user] = w

\* "Restaurarlo dejaría dos trabajadores activos con la misma cédula": there
\* are no two, in any salon, but for the ones linked without being looked for.
CedulasStayApart ==
  \A v, w \in Hired \ mixed :
    v # w /\ Works(v) /\ Works(w) /\ staff[v].cedula = staff[w].cedula
    => staff[v].cedula \in linked \cup {NoCedula}

\* A worker and all the places where it works have one account
\* (createAccountForProfile, which gives it to all of them).
OneAccountInAllSalons ==
  \A w \in Hired \ mixed : \A s \in JobsOf(w) : job[w][s].user = staff[w].user

\* A worker removed from a salon has no appointment to come there, but for one
\* that was cancelled and given back afterwards (assertWorkerHasNoActiveAppointments).
RemovedHasNoDuty ==
  \A w \in Hired \ (mixed \cup revived) :
    duty[w] # Nothing /\ ~Present(job[w][duty[w].salon]) => duty[w].status # "scheduled"

\* However registrations, removals and restorations of workers interleave, the
\* worker, the places, the account and the agenda agree (worker.service.ts).
StaffAgree == StaffTypeOK /\ CedulasStayApart /\ OneAccountInAllSalons /\ RemovedHasNoDuty

=============================================================================
