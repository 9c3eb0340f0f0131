-------------------------- MODULE SalonOnboarding --------------------------
(***************************************************************************)
(* The onboarding of one salon: the row with the state of its steps, which *)
(* is computed from what the other tables say, the choice of going on      *)
(* without it, the payroll that the first appointment asks for, and the    *)
(* notices to whoever stopped halfway.                                     *)
(*                                                                         *)
(* A request runs up to its next await.  Saving the row writes all of it.  *)
(***************************************************************************)
EXTENDS Naturals, Sequences, FiniteSets

CONSTANTS Clerk,              \* requests and sweeps that may be under way
          MaxTasks, MaxDays   \* bounds

ASSUME OnboardingAssumption == MaxTasks \in Nat /\ MaxDays \in Nat

VARIABLES
  fact,        \* what the other tables say of each step
  configured,  \* the payroll was configured at some time
  board,       \* the onboarding_state row
  stalled,     \* days since it last changed
  task,        \* where each request is
  outdone,     \* a row was saved over one that its request had not read
  early,       \* the salon's first appointment came before any payroll
  claimed,     \* onboarding_rescue_notification rows
  sent, twice, \* notices that went out, and those that did so again
  lost,        \* notices claimed by a sweep that died
  tasks, days

factVars == <<fact, configured>>
boardVars == <<board, stalled, outdone>>
noticeVars == <<claimed, sent, twice, lost>>
onboardingVars == <<fact, configured, board, stalled, task, outdone, early,
                    claimed, sent, twice, lost, tasks, days>>

\* confirm_services stands for the three steps before the payroll, and pending
\* for incomplete too.
ONBOARDING_STEP_KEYS ==
  <<"confirm_services", "configure_payroll", "first_appointment", "first_charge">>
Step == {ONBOARDING_STEP_KEYS[n] : n \in DOMAIN ONBOARDING_STEP_KEYS}
StepStatus == {"pending", "completed"}

NoBoard == [noBoard |-> TRUE]
InitialBoard == [global |-> "in_progress", steps |-> [k \in Step |-> "pending"],
                 sealed |-> FALSE]
AllDone(steps) == \A k \in Step : steps[k] = "completed"

Resting == [pc |-> "resting"]
In(p, pc) == task[p].pc = pc
Does(p, t) == task' = [task EXCEPT ![p] = t]
Takes(p, t) ==
  /\ task[p] = Resting /\ tasks < MaxTasks
  /\ Does(p, t) /\ tasks' = tasks + 1

\* `after`: what the request does once the state is there or brought up to date.
Recompute(keys, after) == [pc |-> "evaluate", left |-> keys, found |-> <<>>, after |-> after]
GetOrCreateState(after) == [pc |-> "get", after |-> after]

-----------------------------------------------------------------------------
(* What changes a step, and the recalculation that follows *)

ConfirmServices(p, status) ==
  /\ fact.confirm_services # status
  /\ fact' = [fact EXCEPT !.confirm_services = status]
  /\ Takes(p, Recompute(<<"confirm_services">>, "end"))
  /\ UNCHANGED <<configured, boardVars, early, noticeVars, days>>

\* Configured, or reverted to never configured.
ConfigurePayroll(p, status) ==
  /\ fact.configure_payroll # status
  /\ fact' = [fact EXCEPT !.configure_payroll = status]
  /\ configured' = (configured \/ status = "completed")
  /\ Takes(p, Recompute(<<"configure_payroll">>, "end"))
  /\ UNCHANGED <<boardVars, early, noticeVars, days>>

FirstCharge(p) ==
  /\ fact.first_appointment = "completed" /\ fact.first_charge = "pending"
  /\ fact' = [fact EXCEPT !.first_charge = "completed"]
  /\ Takes(p, Recompute(<<"first_charge">>, "end"))
  /\ UNCHANGED <<configured, boardVars, early, noticeVars, days>>

\* These two tell the onboarding nothing.
UndoCharges ==
  /\ fact.first_charge = "completed" /\ fact' = [fact EXCEPT !.first_charge = "pending"]
  /\ UNCHANGED <<configured, boardVars, task, early, noticeVars, tasks, days>>
ClientBooks ==
  /\ fact.first_appointment = "pending"
  /\ fact' = [fact EXCEPT !.first_appointment = "completed"]
  /\ UNCHANGED <<configured, boardVars, task, early, noticeVars, tasks, days>>

EvaluateStep(p) ==
  /\ In(p, "evaluate")
  /\ LET t == task[p]
         k == Head(t.left)
         found == Append(t.found, <<k, fact[k]>>)
     IN Does(p, IF Tail(t.left) = <<>> THEN [pc |-> "apply", found |-> found, after |-> t.after]
                ELSE [t EXCEPT !.left = Tail(@), !.found = found])
  /\ UNCHANGED <<factVars, boardVars, early, noticeVars, tasks, days>>

Found(found) == {found[n][1] : n \in DOMAIN found}
Value(found, k) == found[CHOOSE n \in DOMAIN found : found[n][1] = k][2]

MayChange(k, steps) == steps[k] # "completed" \/ k = "configure_payroll"

AllCompleted(row, steps, found) == AllDone(steps)

\* The row with what was found of some steps.
ApplyEvaluations(row, found) ==
  LET steps == [k \in Step |-> IF k \in Found(found) /\ MayChange(k, row.steps)
                               THEN Value(found, k) ELSE row.steps[k]]
  IN [global |-> IF AllCompleted(row, steps, found) THEN "completed" ELSE row.global,
      steps |-> steps,
      sealed |-> row.sealed \/ (/\ steps["first_charge"] = "completed"
                                /\ row.steps["first_charge"] # "completed")]

\* What a request does with the state it has.
Then(after, row) ==
  CASE after = "end" -> Resting
    [] after = "skip" /\ row.global # "skipped" ->
         [pc |-> "save", read |-> row, row |-> [row EXCEPT !.global = "skipped"], after |-> "end"]
    [] after = "skip" /\ row.global = "skipped" -> Resting
    [] after = "book" /\ (row.global # "in_progress"
                          \/ row.steps["first_appointment"] = "completed") -> [pc |-> "book"]
    [] OTHER -> [pc |-> "payroll"]

\* The row it reads, or the one it makes; it is saved if anything changed.
Applied(row, t) ==
  LET next == ApplyEvaluations(row, t.found)
  IN IF next = row THEN Then(t.after, row)
     ELSE [pc |-> "save", read |-> row, row |-> next, after |-> t.after]

ReadToApply(p) ==
  /\ In(p, "apply")
  /\ Does(p, IF board # NoBoard THEN Applied(board, task[p])
             ELSE [task[p] EXCEPT !.pc = "insert"])
  /\ UNCHANGED <<factVars, boardVars, early, noticeVars, tasks, days>>

\* UNIQUE(company_id): the second one fails and what it found is dropped.
InsertToApply(p) ==
  /\ In(p, "insert")
  /\ IF board = NoBoard
     THEN /\ board' = InitialBoard /\ stalled' = 0
          /\ Does(p, Applied(InitialBoard, task[p]))
     ELSE Does(p, Resting) /\ UNCHANGED <<board, stalled>>
  /\ UNCHANGED <<factVars, outdone, early, noticeVars, tasks, days>>

SaveBoard(p) ==
  /\ In(p, "save")
  /\ board' = task[p].row /\ stalled' = 0
  /\ outdone' = (outdone \/ board # task[p].read)
  /\ Does(p, Then(task[p].after, task[p].row))
  /\ UNCHANGED <<factVars, early, noticeVars, tasks, days>>

-----------------------------------------------------------------------------
(* The state, made when it is first asked for *)

RecomputeAll(p) ==
  /\ Takes(p, Recompute(ONBOARDING_STEP_KEYS, "end"))
  /\ UNCHANGED <<factVars, boardVars, early, noticeVars, days>>

GetState(p) ==
  /\ Takes(p, GetOrCreateState("end"))
  /\ UNCHANGED <<factVars, boardVars, early, noticeVars, days>>

Skip(p) ==
  /\ Takes(p, GetOrCreateState("skip"))
  /\ UNCHANGED <<factVars, boardVars, early, noticeVars, days>>

FindState(p) ==
  /\ In(p, "get")
  /\ Does(p, IF board # NoBoard THEN Then(task[p].after, board)
             ELSE [task[p] EXCEPT !.pc = "create"])
  /\ UNCHANGED <<factVars, boardVars, early, noticeVars, tasks, days>>

\* It makes the row and computes every step, or takes the row made meanwhile.
CreateState(p) ==
  /\ In(p, "create")
  /\ IF board = NoBoard
     THEN /\ board' = InitialBoard /\ stalled' = 0
          /\ Does(p, Recompute(ONBOARDING_STEP_KEYS, task[p].after))
     ELSE Does(p, Then(task[p].after, board)) /\ UNCHANGED <<board, stalled>>
  /\ UNCHANGED <<factVars, outdone, early, noticeVars, tasks, days>>

-----------------------------------------------------------------------------
(* The first appointment *)

SalonBooks(p) ==
  /\ Takes(p, GetOrCreateState("book"))
  /\ UNCHANGED <<factVars, boardVars, early, noticeVars, days>>

PayrollReady == fact.configure_payroll = "completed"

AssertPayrollBeforeFirstAppointment(p) ==
  /\ In(p, "payroll")
  /\ Does(p, IF PayrollReady THEN [pc |-> "book"] ELSE Resting)
  /\ UNCHANGED <<factVars, boardVars, early, noticeVars, tasks, days>>

InsertAppointment(p) ==
  /\ In(p, "book")
  /\ fact' = [fact EXCEPT !.first_appointment = "completed"]
  /\ early' = (early \/ (/\ fact.first_appointment = "pending" /\ ~configured
                         /\ board.global = "in_progress"))
  /\ Does(p, Recompute(<<"first_appointment">>, "end"))
  /\ UNCHANGED <<configured, boardVars, noticeVars, tasks, days>>

-----------------------------------------------------------------------------
(* The rescue of whoever stopped halfway *)

\* Where it stopped: the first step that is not completed, or the last one.
StuckAt(steps) ==
  LET open == {n \in DOMAIN ONBOARDING_STEP_KEYS : steps[ONBOARDING_STEP_KEYS[n]] # "completed"}
      first == CHOOSE n \in open : \A m \in open : n <= m
  IN IF open = {} THEN "first_charge" ELSE ONBOARDING_STEP_KEYS[first]

\* One day: a reminder; two: the alert, to the owner and to the consultant.
LevelFor(n) == IF n >= 2 THEN "alert" ELSE "reminder"
ChannelsOf(level, hasEmail) ==
  CASE level = "reminder" -> <<"owner_notification">>
    [] level = "alert" /\ hasEmail -> <<"owner_email", "consultant_digest">>
    [] OTHER -> <<"consultant_digest">>

FindStuck(p, hasEmail) ==
  /\ board # NoBoard /\ board.global = "in_progress" /\ stalled >= 1
  /\ Takes(p, [pc |-> "claim", step |-> StuckAt(board.steps), level |-> LevelFor(stalled),
               channels |-> ChannelsOf(LevelFor(stalled), hasEmail)])
  /\ UNCHANGED <<factVars, boardVars, early, noticeVars, days>>

Notice(t) == <<t.step, t.level, Head(t.channels)>>
NextChannel(t) ==
  IF Tail(t.channels) = <<>> THEN Resting
  ELSE [t EXCEPT !.pc = "claim", !.channels = Tail(@)]

\* Mutant: a notice that another sweep claimed is claimed again.
ClaimAgain(n) == TRUE
Unclaimed(n) == n \notin claimed

Claim(p) ==
  LET t == task[p] IN
  /\ In(p, "claim")
  /\ IF Unclaimed(Notice(t))
     THEN claimed' = claimed \cup {Notice(t)} /\ Does(p, [t EXCEPT !.pc = "send"])
     ELSE Does(p, NextChannel(t)) /\ UNCHANGED claimed
  /\ UNCHANGED <<factVars, boardVars, early, sent, twice, lost, tasks, days>>

AfterFailure(t) == [t EXCEPT !.pc = "release"]

Send(p) ==
  LET t == task[p] IN
  /\ In(p, "send")
  /\ \/ /\ sent' = sent \cup {Notice(t)} /\ twice' = twice \cup (sent \cap {Notice(t)})
        /\ Does(p, NextChannel(t))
     \/ Does(p, AfterFailure(t)) /\ UNCHANGED <<sent, twice>>
  /\ UNCHANGED <<factVars, boardVars, early, claimed, lost, tasks, days>>

Release(p) ==
  /\ In(p, "release")
  /\ claimed' = claimed \ {Notice(task[p])} /\ Does(p, NextChannel(task[p]))
  /\ UNCHANGED <<factVars, boardVars, early, sent, twice, lost, tasks, days>>

\* No request lasts a day.
Day ==
  /\ \A p \in Clerk : task[p] = Resting
  /\ days < MaxDays /\ days' = days + 1
  /\ stalled' = IF board = NoBoard THEN 0 ELSE stalled + 1
  /\ UNCHANGED <<factVars, board, outdone, task, early, noticeVars, tasks>>

\* The process dies, or the request fails, with what it had not written.
GiveUp(p) ==
  /\ task[p] # Resting /\ Does(p, Resting)
  /\ lost' = IF task[p].pc \in {"send", "release"} THEN lost \cup {Notice(task[p])} ELSE lost
  /\ UNCHANGED <<factVars, boardVars, early, claimed, sent, twice, tasks, days>>

-----------------------------------------------------------------------------
\* A salon that begins, or one that worked before there was an onboarding.
OnboardingInit ==
  /\ \E works \in BOOLEAN :
       /\ fact = [k \in Step |-> IF works /\ k # "first_charge" THEN "completed" ELSE "pending"]
       /\ configured = works
  /\ board = NoBoard /\ stalled = 0 /\ outdone = FALSE /\ early = FALSE
  /\ task = [p \in Clerk |-> Resting]
  /\ claimed = {} /\ sent = {} /\ twice = {} /\ lost = {}
  /\ tasks = 0 /\ days = 0

OnboardingNext ==
  \/ \E p \in Clerk :
       \/ \E v \in StepStatus : ConfirmServices(p, v)
       \/ \E v \in StepStatus : ConfigurePayroll(p, v)
       \/ FirstCharge(p) \/ EvaluateStep(p) \/ ReadToApply(p) \/ InsertToApply(p) \/ SaveBoard(p)
       \/ RecomputeAll(p) \/ GetState(p) \/ Skip(p) \/ FindState(p) \/ CreateState(p)
       \/ SalonBooks(p) \/ AssertPayrollBeforeFirstAppointment(p) \/ InsertAppointment(p)
       \/ \E hasEmail \in BOOLEAN : FindStuck(p, hasEmail)
       \/ Claim(p) \/ Send(p) \/ Release(p) \/ GiveUp(p)
  \/ UndoCharges \/ ClientBooks \/ Day

OnboardingSpec == OnboardingInit /\ [][OnboardingNext]_onboardingVars

-----------------------------------------------------------------------------
(* Properties *)

\* An onboarding is completed when all of its steps are, and the payroll is the
\* only one that may be undone afterwards; the first charge is dated when its
\* step is completed, and only then.
CompletedIsEarned ==
  board # NoBoard =>
    /\ board.global = "completed"
       => \A k \in Step \ {"configure_payroll"} : board.steps[k] = "completed"
    /\ board.sealed = (board.steps["first_charge"] = "completed")

\* "Un paso NUNCA retrocede desde completed", whatever becomes of the rows that
\* completed it, unless a request saves the row over one that it had not read.
ProgressIsKept ==
  [][\A k \in Step \ {"configure_payroll"} :
       board # NoBoard /\ board.steps[k] = "completed"
       => board'.steps[k] = "completed" \/ outdone']_onboardingVars

\* "La nómina es obligatoria antes de la PRIMERA cita" of a salon with its
\* onboarding under way, for the appointments that the salon books.
PayrollComesFirst == early => outdone

\* "Mientras exista la fila no se repite el aviso", though two sweeps overlap.
NoticeGoesOnce == twice = {}

\* "Suelta el reclamo cuando el envío falló, para reintentar mañana": a claim
\* that stays is of a notice that went out, or of a sweep that died.
ClaimIsSent ==
  \A n \in claimed :
    \/ n \in sent \cup lost
    \/ \E p \in Clerk : task[p].pc \in {"send", "release"} /\ Notice(task[p]) = n

\* Onboarding is completed by what the salon did, does not go back, and each of
\* its notices goes out once (onboarding.service.ts, onboarding-rescue.service.ts).
OnboardingIsEarned ==
  /\ [](CompletedIsEarned /\ PayrollComesFirst /\ NoticeGoesOnce /\ ClaimIsSent)
  /\ ProgressIsKept

=============================================================================
