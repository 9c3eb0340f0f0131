------------------------- MODULE TeamSelectionProofs -------------------------
(***************************************************************************)
(* Theorems about TeamSelection, for every set of requests, every size of  *)
(* the team and every limit of the plans: type correctness, and what a     *)
(* selection may do however many requests interleave with it.              *)
(***************************************************************************)
EXTENDS TeamSelection, FiniteSetTheorems, TLAPS

-----------------------------------------------------------------------------
(* Rows, contexts and the copies requests hold have their types. *)

LEMMA NoRowsType ==
  /\ NoSubscription \in SubscriptionRow
  /\ NoWorker \in WorkerRow
  /\ NewWorker \in WorkerRow
  /\ NoContext \in Context
  /\ NoEntry \in Entry
  /\ Idle \in Local
<1>1. NoSubscription \in SubscriptionRow
  BY DEF NoSubscription, SubscriptionRow, Plan, Date, NoDate
<1>2. NoWorker \in WorkerRow /\ NewWorker \in WorkerRow
  BY DEF NoWorker, NewWorker, WorkerRow
<1>3. NoContext \in Context
  BY DEF NoContext, Context, PaidPlan
<1>4. NoEntry \in Entry
  BY <1>3 DEF NoEntry, Entry, Date, NoDate
<1>5. Idle \in Local
  BY <1>1, <1>2, <1>3 DEF Idle, Local, Operation, Step, Plan
<1>. QED BY <1>1, <1>2, <1>3, <1>4, <1>5

LEMMA LocalType ==
  ASSUME TypeOK, NEW p \in Request
  PROVE  /\ local[p] \in Local
         /\ local[p].id \in WorkerId \cup {0}
         /\ local[p].row \in WorkerRow
         /\ local[p].ids \subseteq WorkerId
         /\ local[p].subscription \in SubscriptionRow
         /\ local[p].pending \in BOOLEAN
         /\ local[p].paidPlanId \in Plan
         /\ local[p].context \in Context
<1>1. local[p] \in Local
  BY DEF TypeOK
<1>. QED BY <1>1 DEF Local

\* What a request holds next is well typed and names the worker it will use.
WellFormed(next) == next \in Local /\ NamesItsWorker(next)

LEMMA GotoType ==
  ASSUME TypeOK, NEW p \in Request, NEW next, WellFormed(next), Goto(p, next)
  PROVE  /\ local' \in [Request -> Local]
         /\ \A q \in Request : NamesItsWorker(local'[q])
BY DEF TypeOK, Goto, WellFormed

LEMMA IdleWellFormed == WellFormed(Idle)
BY NoRowsType DEF WellFormed, NamesItsWorker, Idle

\* A copy that moves to another step stays a copy.
LEMMA MoveType ==
  ASSUME TypeOK, NEW p \in Request, NEW step \in Step,
         step \in {"write", "countWorkers"} =>
           local[p].operation \in {"add", "save", "update", "activate"}
  PROVE  WellFormed([local[p] EXCEPT !.step = step])
BY LocalType DEF Local, WellFormed, NamesItsWorker, TypeOK

\* A request that starts to work on a worker, on the row it has read.
LEMMA WorkerRequestType ==
  ASSUME NEW operation \in {"add", "save", "update", "activate"}, NEW step \in Step,
         NEW w \in WorkerId, NEW row \in WorkerRow
  PROVE  WellFormed([Idle EXCEPT !.operation = operation, !.step = step,
                                 !.id = w, !.row = row])
<1>1. w # 0
  BY TeamAssumption DEF WorkerId
<1>. QED BY <1>1, NoRowsType DEF Local, Idle, WellFormed, NamesItsWorker, Operation

LEMMA AskContextType ==
  ASSUME TypeOK, NEW p \in Request, NEW next,
         WellFormed(next), AskContext(p, next)
  PROVE  /\ local' \in [Request -> Local]
         /\ \A q \in Request : NamesItsWorker(local'[q])
<1>1. cache.context \in Context
  BY DEF TypeOK, Entry
<1>2. WellFormed([next EXCEPT !.step = "decide", !.context = cache.context])
  BY <1>1 DEF Local, Step, WellFormed, NamesItsWorker
<1>3. WellFormed([next EXCEPT !.step = "readSubscription"])
  BY DEF Local, Step, WellFormed, NamesItsWorker
<1>. QED BY <1>2, <1>3, GotoType DEF AskContext

LEMMA OnlyMemoryChanges ==
  ASSUME TypeOK, NEW p \in Request, NEW next, WellFormed(next),
         Goto(p, next) \/ AskContext(p, next),
         UNCHANGED <<now, payment, worker, cache>>
  PROVE  TypeOK'
BY GotoType, AskContextType DEF payment, TypeOK

LEMMA CoverageType ==
  ASSUME NEW today \in Nat, NEW periodEnd \in Nat, NEW trialEnd \in Nat
  PROVE  PeriodCoverage(today, periodEnd, trialEnd).to \in Nat
BY PeriodAssumption DEF PeriodCoverage, AddMonth, Later

LEMMA ResolveAccessType ==
  ASSUME NEW today, NEW sub \in SubscriptionRow, NEW pending \in BOOLEAN
  PROVE  ResolveAccess(today, sub, pending).canOperate \in BOOLEAN
<1>1. ASSUME NEW status, NEW cause, NEW accessEnd, NEW graceEnd
      PROVE  AccessState(status, cause, accessEnd, graceEnd).canOperate \in BOOLEAN
  BY DEF AccessState
<1>2. CASE sub.status = "none"
  BY <1>1, <1>2 DEF ResolveAccess
<1>3. CASE sub.status # "none" /\ sub.billingExempt
  BY <1>1, <1>3 DEF ResolveAccess
<1>4. CASE sub.status # "none" /\ ~sub.billingExempt
  BY <1>1, <1>4 DEF ResolveAccess
<1>. QED BY <1>2, <1>3, <1>4

LEMMA ContextType ==
  ASSUME NEW sub \in SubscriptionRow, NEW pending \in BOOLEAN, NEW paidPlanId \in Plan,
         BookableWorkers \in Nat
  PROVE  ComputeContext(sub, pending, paidPlanId) \in Context
<1>1. StoredPlanId(sub, paidPlanId) \in PaidPlan
  BY DEF StoredPlanId, SubscriptionRow, Plan, PaidPlan
<1>2. ASSUME NEW status
      PROVE  EffectivePlanId(StoredPlanId(sub, paidPlanId), status,
                             sub.trialEndsAt, now) \in PaidPlan
  BY <1>1 DEF EffectivePlanId, TrialPlanId, PaidPlan
<1>. QED BY <1>2, ResolveAccessType DEF ComputeContext, Context

LEMMA TeamIsFinite ==
  /\ IsFiniteSet(WorkerId)
  /\ BookableWorkers \in Nat
<1>1. IsFiniteSet(WorkerId)
  BY FS_Interval, TeamAssumption DEF WorkerId
<1>2. IsFiniteSet(Candidates)
  BY <1>1, FS_Subset DEF Candidates
<1>. QED BY <1>1, <1>2, FS_CardinalityType DEF BookableWorkers

-----------------------------------------------------------------------------
(* Every step keeps the types: one lemma per action or kind of action. *)

LEMMA ReadContextType ==
  ASSUME TypeOK, NEW p \in Request,
         ReadSubscription(p) \/ ReadReport(p) \/ ReadVerified(p)
  PROVE  TypeOK'
<1>1. WellFormed([local[p] EXCEPT !.step = "readReport", !.subscription = subscription])
  BY LocalType DEF Local, Step, WellFormed, NamesItsWorker, TypeOK
<1>2. WellFormed([local[p] EXCEPT !.step = "readVerified",
                                  !.pending = reportedPlan # "none"])
  BY LocalType DEF Local, Step, WellFormed, NamesItsWorker, TypeOK
<1>3. WellFormed([local[p] EXCEPT !.step = "fillContext", !.paidPlanId = verifiedPlan])
  BY LocalType DEF Local, Step, WellFormed, NamesItsWorker, TypeOK
<1>. QED
  BY <1>1, <1>2, <1>3, OnlyMemoryChanges DEF ReadSubscription, ReadReport, ReadVerified

LEMMA FillContextType ==
  ASSUME TypeOK, NEW p \in Request, FillContext(p)
  PROVE  TypeOK'
<1>. DEFINE context == ComputeContext(local[p].subscription, local[p].pending,
                                      local[p].paidPlanId)
<1>1. context \in Context
  BY LocalType, ContextType, TeamIsFinite
<1>2. WellFormed([local[p] EXCEPT !.step = "decide", !.context = context,
                    !.subscription = NoSubscription, !.pending = FALSE,
                    !.paidPlanId = "none"])
  BY <1>1, LocalType, NoRowsType DEF Local, Step, WellFormed, NamesItsWorker, Plan, TypeOK
<1>3. [expiresAt |-> now + CacheTtl, context |-> context] \in Entry
  BY <1>1, TeamAssumption DEF Entry, Date, TypeOK
<1>. QED BY <1>2, <1>3, GotoType DEF FillContext, payment, TypeOK

LEMMA ContextAskedType ==
  ASSUME TypeOK, NEW p \in Request,
         OpenScreen(p) \/ \E keep \in SUBSET WorkerId : SelectWorkers(p, keep)
  PROVE  TypeOK'
<1>1. WellFormed([Idle EXCEPT !.operation = "open"])
  BY NoRowsType DEF Local, Idle, Operation, WellFormed, NamesItsWorker
<1>2. ASSUME NEW keep \in SUBSET WorkerId
      PROVE  WellFormed([Idle EXCEPT !.operation = "select", !.ids = keep])
  BY NoRowsType DEF Local, Idle, Operation, WellFormed, NamesItsWorker
<1>. QED BY <1>1, <1>2, OnlyMemoryChanges DEF OpenScreen, SelectWorkers

LEMMA WorkerTouchedType ==
  ASSUME TypeOK, NEW p \in Request, NEW w \in WorkerId,
         \/ AddWorker(p, w)
         \/ RestoreWorker(p, w)
         \/ \E isActive \in BOOLEAN : EditWorker(p, w, isActive) \/ EditProfile(p, w, isActive)
         \/ \E kept \in {"temporarilyDeleted", "permanentlyDeleted"} :
              RemoveWorker(p, w, kept)
  PROVE  TypeOK'
<1>. DEFINE Asks(operation, row) == [Idle EXCEPT !.operation = operation, !.id = w, !.row = row]
            Writes(operation, row) == [Idle EXCEPT !.operation = operation, !.step = "write",
                                                   !.id = w, !.row = row]
<1>1. ASSUME NEW operation \in {"add", "save", "update", "activate"}, NEW row \in WorkerRow
      PROVE  WellFormed(Asks(operation, row)) /\ WellFormed(Writes(operation, row))
  <2>1. w # 0
    BY TeamAssumption DEF WorkerId
  <2>. QED
    BY <2>1, NoRowsType DEF Local, Idle, WellFormed, NamesItsWorker, Operation, Step
<1>2. worker[w] \in WorkerRow
  BY DEF TypeOK
<1>. HIDE DEF Asks, Writes
<1>3. CASE AddWorker(p, w)
  <2>1. WellFormed(Asks("add", NewWorker))
    BY <1>1, NoRowsType
  <2>. QED BY <1>3, <2>1, OnlyMemoryChanges DEF AddWorker, Asks
<1>4. CASE RestoreWorker(p, w)
  <2>. DEFINE restored == [worker[w] EXCEPT !.kept = "present", !.isActive = TRUE]
  <2>1. restored \in WorkerRow
    BY <1>2 DEF WorkerRow
  <2>2. WellFormed(Asks("activate", restored)) /\ WellFormed(Writes("save", restored))
    BY <1>1, <2>1
  <2>. QED BY <1>4, <2>2, OnlyMemoryChanges DEF RestoreWorker, Asks, Writes
<1>5. CASE \E isActive \in BOOLEAN : EditWorker(p, w, isActive) \/ EditProfile(p, w, isActive)
  <2>1. PICK isActive \in BOOLEAN : EditWorker(p, w, isActive) \/ EditProfile(p, w, isActive)
    BY <1>5
  <2>. DEFINE edited == [worker[w] EXCEPT !.isActive = isActive]
  <2>2. edited \in WorkerRow
    BY <1>2 DEF WorkerRow
  <2>3. /\ WellFormed(Asks("activate", edited))
        /\ WellFormed(Asks("update", edited))
        /\ WellFormed(Writes("save", edited))
        /\ WellFormed(Writes("update", edited))
    BY <1>1, <2>2
  <2>. QED
    BY <2>1, <2>3, OnlyMemoryChanges DEF EditWorker, EditProfile, Asks, Writes
<1>6. CASE \E kept \in {"temporarilyDeleted", "permanentlyDeleted"} : RemoveWorker(p, w, kept)
  <2>1. PICK kept \in {"temporarilyDeleted", "permanentlyDeleted"} : RemoveWorker(p, w, kept)
    BY <1>6
  <2>. DEFINE removed == [worker[w] EXCEPT !.kept = kept, !.isActive = FALSE]
  <2>2. removed \in WorkerRow
    BY <1>2 DEF WorkerRow
  <2>3. WellFormed(Writes("save", removed))
    BY <1>1, <2>2
  <2>. QED BY <2>1, <2>3, OnlyMemoryChanges DEF RemoveWorker, Writes
<1>. QED BY <1>3, <1>4, <1>5, <1>6

LEMMA DecisionType ==
  ASSUME TypeOK, NEW p \in Request,
         \/ ScreenShown(p) \/ AssertCanOperate(p) \/ CountWorkers(p)
         \/ CheckSelection(p) \/ FindSuspended(p)
  PROVE  TypeOK'
<1>1. CASE ScreenShown(p) \/ CheckSelection(p)
  <2>1. WellFormed([local[p] EXCEPT !.step = "suspend"])
    BY MoveType DEF Step
  <2>. QED
    BY <1>1, <2>1, IdleWellFormed, OnlyMemoryChanges DEF ScreenShown, CheckSelection, Finish
<1>2. CASE AssertCanOperate(p)
  <2>1. WellFormed([local[p] EXCEPT !.step = "countWorkers"])
    BY <1>2, MoveType DEF AssertCanOperate, Step
  <2>. QED
    BY <1>2, <2>1, IdleWellFormed, OnlyMemoryChanges DEF AssertCanOperate, Finish
<1>3. CASE CountWorkers(p)
  <2>1. WellFormed([local[p] EXCEPT !.step = "write"])
    BY <1>3, MoveType DEF CountWorkers, At, Step, TypeOK, NamesItsWorker
  <2>. QED
    BY <1>3, <2>1, IdleWellFormed, OnlyMemoryChanges DEF CountWorkers, Finish
<1>4. CASE FindSuspended(p)
  <2>1. ASSUME NEW n
        PROVE  WellFormed([local[p] EXCEPT !.step = "reactivate", !.ids = Oldest(Suspended, n)])
    <3>1. Oldest(Suspended, n) \subseteq WorkerId
      BY DEF Oldest, Suspended
    <3>. QED BY <3>1, LocalType DEF Local, Step, WellFormed, NamesItsWorker, TypeOK
  <2>. QED
    BY <1>4, <2>1, IdleWellFormed, OnlyMemoryChanges DEF FindSuspended, Finish
<1>. QED BY <1>1, <1>2, <1>3, <1>4

LEMMA TeamWrittenType ==
  ASSUME TypeOK, NEW p \in Request,
         WriteWorker(p) \/ SuspendTheRest(p) \/ Reactivate(p) \/ RestoreInactive(p)
  PROVE  TypeOK'
<1>1. CASE WriteWorker(p)
  <2>1. worker' \in [WorkerId -> WorkerRow]
    BY <1>1, LocalType DEF WriteWorker, TypeOK, WorkerRow
  <2>. QED
    BY <1>1, <2>1, IdleWellFormed, GotoType DEF WriteWorker, Finish, payment, TypeOK
<1>2. CASE SuspendTheRest(p)
  <2>1. worker' \in [WorkerId -> WorkerRow]
    <3>1. \A w \in WorkerId : [worker[w] EXCEPT !.planSuspended = TRUE] \in WorkerRow
      BY DEF TypeOK, WorkerRow
    <3>. QED BY <1>2, <3>1 DEF SuspendTheRest, TypeOK
  <2>. QED
    BY <1>2, <2>1, NoRowsType, IdleWellFormed, GotoType
    DEF SuspendTheRest, Invalidate, Finish, payment, TypeOK
<1>3. CASE Reactivate(p)
  <2>1. worker' \in [WorkerId -> WorkerRow]
    BY <1>3 DEF Reactivate, TypeOK, WorkerRow
  <2>. QED
    BY <1>3, <2>1, NoRowsType, IdleWellFormed, GotoType
    DEF Reactivate, Invalidate, Finish, payment, TypeOK
<1>4. CASE RestoreInactive(p)
  <2>1. worker' \in [WorkerId -> WorkerRow]
    <3>1. \A w \in WorkerId : [worker[w] EXCEPT !.planSuspended = FALSE] \in WorkerRow
      BY DEF TypeOK, WorkerRow
    <3>. QED BY <1>4, <3>1 DEF RestoreInactive, TypeOK
  <2>2. WellFormed([local[p] EXCEPT !.step = "findSuspended"])
    BY MoveType DEF Step
  <2>. QED
    BY <1>4, <2>1, <2>2, IdleWellFormed, GotoType DEF RestoreInactive, Finish, payment, TypeOK
<1>. QED BY <1>1, <1>2, <1>3, <1>4

LEMMA PaymentType ==
  ASSUME TypeOK, NEW p \in Request,
         \/ \E planId \in PaidPlan : ChoosePlan(p, planId)
         \/ ReportPayment(p)
         \/ \E byHand \in BOOLEAN : VerifyPayment(p, byHand) \/ RejectPayment(p, byHand)
         \/ AdvanceSubscription(p)
  PROVE  TypeOK'
<1>. USE NoRowsType DEF Invalidate
<1>1. CASE \E planId \in PaidPlan : ChoosePlan(p, planId)
  BY <1>1 DEF ChoosePlan, SubscriptionRow, Plan, PaidPlan, TypeOK
<1>2. CASE ReportPayment(p)
  <2>1. BillablePlanId(subscription.planId) \in Plan
    BY DEF BillablePlanId, TrialPlanId, SubscriptionRow, Plan, TypeOK
  <2>. QED BY <1>2, <2>1 DEF ReportPayment, TypeOK
<1>3. CASE \E byHand \in BOOLEAN : VerifyPayment(p, byHand)
  <2>1. WellFormed([Idle EXCEPT !.step = "advance", !.subscription = subscription,
                                !.paidPlanId = reportedPlan])
    BY DEF Local, Idle, Step, WellFormed, NamesItsWorker, TypeOK
  <2>. QED BY <1>3, <2>1, GotoType DEF VerifyPayment, Plan, TypeOK
<1>4. CASE \E byHand \in BOOLEAN : RejectPayment(p, byHand)
  BY <1>4 DEF RejectPayment, Plan, TypeOK
<1>5. CASE AdvanceSubscription(p)
  <2>1. PeriodCoverage(now, local[p].subscription.currentPeriodEnd,
                       local[p].subscription.trialEndsAt).to \in Nat
    BY LocalType, CoverageType DEF SubscriptionRow, Date, TypeOK
  <2>2. subscription' \in SubscriptionRow
    BY <1>5, <2>1, LocalType DEF AdvanceSubscription, SubscriptionRow, Date, NoDate
  <2>3. WellFormed(StartRestoring)
    BY DEF StartRestoring, Local, Idle, Operation, Step, WellFormed, NamesItsWorker
  <2>. QED BY <1>5, <2>2, <2>3, GotoType DEF AdvanceSubscription, TypeOK
<1>. QED BY <1>1, <1>2, <1>3, <1>4, <1>5

\* Every row has the type of its table, and a request about a worker knows
\* which one, however requests interleave (company_worker.entity.ts,
\* subscription.entity.ts, entitlements.service.ts).
THEOREM TypeCorrect == Spec => []TypeOK
<1>1. Init => TypeOK
  <2>. SUFFICES ASSUME Init PROVE TypeOK
    OBVIOUS
  <2>1. subscription \in SubscriptionRow
    <3>1. 1 + TrialLength \in Nat
      BY TeamAssumption
    <3>. QED BY <3>1 DEF Init, NoSubscription, SubscriptionRow, Plan, Date, NoDate
  <2>2. worker \in [WorkerId -> WorkerRow]
    BY NoRowsType DEF Init
  <2>. QED
    BY <2>1, <2>2, NoRowsType, IdleWellFormed DEF Init, TypeOK, Plan, WellFormed
<1>2. TypeOK /\ [Next]_vars => TypeOK'
  <2>. SUFFICES ASSUME TypeOK, [Next]_vars PROVE TypeOK'
    OBVIOUS
  <2>1. CASE Tick
    BY <2>1 DEF Tick, payment, TypeOK
  <2>2. ASSUME NEW p \in Request, RequestStep(p)
        PROVE  TypeOK'
    BY <2>2, ReadContextType, FillContextType, DecisionType, TeamWrittenType, PaymentType
    DEF RequestStep
  <2>3. ASSUME NEW p \in Request, Arrival(p)
        PROVE  TypeOK'
    BY <2>3, ContextAskedType, WorkerTouchedType, PaymentType DEF Arrival
  <2>4. CASE UNCHANGED vars
    BY <2>4 DEF vars, TypeOK
  <2>. QED BY <2>1, <2>2, <2>3, <2>4 DEF Next
<1>. QED BY <1>1, <1>2, PTL DEF Spec

-----------------------------------------------------------------------------
(* A selection leaves the limit, and nothing is suspended on trial. *)

TrialIsPast == subscription.trialEndsAt <= now

\* What a request in progress may still do to the team was decided on a context
\* of after the trial, and a selection about to commit keeps exactly the limit.
DecidedAfterTrial(request) ==
  /\ request.step \in {"readReport", "readVerified", "fillContext", "advance"} =>
       request.subscription.trialEndsAt = subscription.trialEndsAt
  /\ request.context.selectionRequired => TrialIsPast
  /\ request.row.planSuspended => TrialIsPast
  /\ request.step = "suspend" =>
       /\ request.context.selectionRequired
       /\ Cardinality(request.ids) = Limit[request.context.planId]

SuspendedByChoice ==
  /\ cache.context.selectionRequired => TrialIsPast
  /\ \A w \in WorkerId : worker[w].planSuspended => TrialIsPast
  /\ \A p \in Request : DecidedAfterTrial(local[p])

LEMMA IdleDecided == DecidedAfterTrial(Idle)
BY DEF DecidedAfterTrial, Idle, NoContext, NoWorker

LEMMA SelectionAfterTrial ==
  ASSUME NEW sub \in SubscriptionRow, NEW pending \in BOOLEAN, NEW paidPlanId \in Plan,
         now \in Nat, ComputeContext(sub, pending, paidPlanId).selectionRequired
  PROVE  sub.trialEndsAt <= now
BY DEF ComputeContext, TrialStillRunning, SubscriptionRow, Date

\* Steps that leave the trial, the clock, the team and the cache alone.
LEMMA OnlyMemoryDecides ==
  ASSUME TypeOK, SuspendedByChoice, NEW p \in Request, NEW next \in Local,
         DecidedAfterTrial(next),
         Goto(p, next) \/ (AskContext(p, next) /\ next.step = "idle"),
         UNCHANGED <<now, payment, worker, cache>>
  PROVE  SuspendedByChoice'
<1>1. CASE Goto(p, next)
  BY <1>1 DEF Goto, SuspendedByChoice, DecidedAfterTrial, TrialIsPast, payment, TypeOK
<1>2. CASE AskContext(p, next) /\ next.step = "idle"
  BY <1>2 DEF AskContext, Goto, Local, SuspendedByChoice, DecidedAfterTrial, TrialIsPast, payment, TypeOK
<1>. QED BY <1>1, <1>2

LEMMA ContextSteps ==
  ASSUME TypeOK, SuspendedByChoice, NEW p \in Request,
         \/ ReadSubscription(p) \/ ReadReport(p) \/ ReadVerified(p) \/ FillContext(p)
  PROVE  SuspendedByChoice'
<1>. USE DEF SuspendedByChoice, DecidedAfterTrial, TrialIsPast, Goto, payment, TypeOK, Local
<1>1. CASE ReadSubscription(p)
  BY <1>1 DEF ReadSubscription, At
<1>2. CASE ReadReport(p)
  BY <1>2 DEF ReadReport, At
<1>3. CASE ReadVerified(p)
  BY <1>3 DEF ReadVerified, At
<1>4. CASE FillContext(p)
  <2>. DEFINE context == ComputeContext(local[p].subscription, local[p].pending,
                                        local[p].paidPlanId)
  <2>1. context.selectionRequired => TrialIsPast
    BY <1>4, LocalType, SelectionAfterTrial DEF FillContext, At
  <2>. HIDE DEF context
  <2>2. cache'.context.selectionRequired => TrialIsPast
    BY <1>4, <2>1 DEF FillContext, context
  <2>3. local' = [local EXCEPT ![p] =
          [local[p] EXCEPT !.step = "decide", !.context = context,
             !.subscription = NoSubscription, !.pending = FALSE, !.paidPlanId = "none"]]
    BY <1>4 DEF FillContext, context
  <2>4. TrialIsPast' <=> TrialIsPast
    BY <1>4 DEF FillContext
  <2>5. ASSUME NEW q \in Request
        PROVE  DecidedAfterTrial(local[q])'
    <3>1. CASE q = p
      <4>1. /\ local'[p].step = "decide"
            /\ local'[p].context = context
            /\ local'[p].row = local[p].row
        BY <2>3
      <4>. QED BY <3>1, <4>1, <2>1, <2>4
    <3>2. CASE q # p
      BY <3>2, <2>3, <1>4 DEF FillContext
    <3>. QED BY <3>1, <3>2
  <2>. QED BY <1>4, <2>2, <2>4, <2>5 DEF FillContext
<1>. QED BY <1>1, <1>2, <1>3, <1>4

LEMMA ArrivalSteps ==
  ASSUME TypeOK, SuspendedByChoice, NEW p \in Request,
         \/ OpenScreen(p)
         \/ \E keep \in SUBSET WorkerId : SelectWorkers(p, keep)
         \/ \E w \in WorkerId :
              \/ AddWorker(p, w)
              \/ RestoreWorker(p, w)
              \/ \E isActive \in BOOLEAN : EditWorker(p, w, isActive) \/ EditProfile(p, w, isActive)
              \/ \E kept \in {"temporarilyDeleted", "permanentlyDeleted"} :
                   RemoveWorker(p, w, kept)
  PROVE  SuspendedByChoice'
<1>. USE IdleDecided, NoRowsType DEF Idle
<1>1. CASE OpenScreen(p)
  <2>1. [Idle EXCEPT !.operation = "open"] \in Local
    BY DEF Local, Operation
  <2>. QED
    BY <1>1, <2>1, OnlyMemoryDecides DEF OpenScreen, DecidedAfterTrial
<1>2. CASE \E keep \in SUBSET WorkerId : SelectWorkers(p, keep)
  <2>1. \A keep \in SUBSET WorkerId :
          [Idle EXCEPT !.operation = "select", !.ids = keep] \in Local
    BY DEF Local, Operation
  <2>. QED
    BY <1>2, <2>1, OnlyMemoryDecides DEF SelectWorkers, DecidedAfterTrial
<1>3. ASSUME NEW w \in WorkerId,
         \/ AddWorker(p, w)
         \/ RestoreWorker(p, w)
         \/ \E isActive \in BOOLEAN : EditWorker(p, w, isActive) \/ EditProfile(p, w, isActive)
         \/ \E kept \in {"temporarilyDeleted", "permanentlyDeleted"} :
              RemoveWorker(p, w, kept)
      PROVE  SuspendedByChoice'
  <2>1. PICK operation \in {"add", "save", "update", "activate"}, row \in WorkerRow :
          /\ row.planSuspended => worker[w].planSuspended
          /\ \/ AskContext(p, [Idle EXCEPT !.operation = operation, !.id = w, !.row = row])
             \/ Goto(p, [Idle EXCEPT !.operation = operation, !.step = "write",
                                     !.id = w, !.row = row])
          /\ UNCHANGED <<now, payment, worker, cache>>
    <3>1. worker[w] \in WorkerRow
      BY DEF TypeOK
    <3>2. CASE AddWorker(p, w)
      BY <3>2 DEF AddWorker, NewWorker
    <3>3. CASE RestoreWorker(p, w)
      <4>. DEFINE restored == [worker[w] EXCEPT !.kept = "present", !.isActive = TRUE]
      <4>1. restored \in WorkerRow /\ restored.planSuspended = worker[w].planSuspended
        BY <3>1 DEF WorkerRow
      <4>. QED BY <3>3, <4>1 DEF RestoreWorker
    <3>4. CASE \E isActive \in BOOLEAN : EditWorker(p, w, isActive) \/ EditProfile(p, w, isActive)
      <4>1. PICK isActive \in BOOLEAN : EditWorker(p, w, isActive) \/ EditProfile(p, w, isActive)
        BY <3>4
      <4>. DEFINE edited == [worker[w] EXCEPT !.isActive = isActive]
      <4>2. edited \in WorkerRow /\ edited.planSuspended = worker[w].planSuspended
        BY <3>1 DEF WorkerRow
      <4>. QED BY <4>1, <4>2 DEF EditWorker, EditProfile
    <3>5. CASE \E kept \in {"temporarilyDeleted", "permanentlyDeleted"} : RemoveWorker(p, w, kept)
      <4>1. PICK kept \in {"temporarilyDeleted", "permanentlyDeleted"} : RemoveWorker(p, w, kept)
        BY <3>5
      <4>. DEFINE removed == [worker[w] EXCEPT !.kept = kept, !.isActive = FALSE]
      <4>2. removed \in WorkerRow /\ removed.planSuspended = worker[w].planSuspended
        BY <3>1 DEF WorkerRow
      <4>. QED BY <4>1, <4>2 DEF RemoveWorker
    <3>. QED BY <1>3, <3>2, <3>3, <3>4, <3>5
  <2>2. row.planSuspended => TrialIsPast
    BY <2>1 DEF SuspendedByChoice
  <2>3. LET asks == [Idle EXCEPT !.operation = operation, !.id = w, !.row = row]
            writes == [Idle EXCEPT !.operation = operation, !.step = "write",
                                   !.id = w, !.row = row]
        IN  /\ asks \in Local /\ DecidedAfterTrial(asks) /\ asks.step = "idle"
            /\ writes \in Local /\ DecidedAfterTrial(writes)
    BY <2>2 DEF Local, Operation, Step, DecidedAfterTrial, NoContext
  <2>. QED BY <2>1, <2>3, OnlyMemoryDecides
<1>. QED BY <1>1, <1>2, <1>3

LEMMA DecisionSteps ==
  ASSUME TypeOK, SuspendedByChoice, NEW p \in Request,
         \/ ScreenShown(p) \/ AssertCanOperate(p) \/ CountWorkers(p)
         \/ CheckSelection(p) \/ FindSuspended(p)
  PROVE  SuspendedByChoice'
<1>. USE IdleDecided, NoRowsType, OnlyMemoryDecides DEF Finish
<1>1. local[p] \in Local /\ DecidedAfterTrial(local[p])
  BY LocalType DEF SuspendedByChoice
<1>2. ASSUME NEW step \in {"countWorkers", "write"}
      PROVE  /\ [local[p] EXCEPT !.step = step] \in Local
             /\ DecidedAfterTrial([local[p] EXCEPT !.step = step])
  BY <1>1 DEF DecidedAfterTrial, Local, Step
<1>3. CASE ScreenShown(p)
  BY <1>3 DEF ScreenShown
<1>4. CASE AssertCanOperate(p) \/ CountWorkers(p)
  BY <1>2, <1>4 DEF AssertCanOperate, CountWorkers
<1>5. CASE CheckSelection(p)
  <2>1. CASE Finish(p)
    BY <1>5, <2>1 DEF CheckSelection
  <2>2. CASE Goto(p, [local[p] EXCEPT !.step = "suspend"]) /\ ~Finish(p)
    <3>1. /\ local[p].context.selectionRequired
          /\ Cardinality(local[p].ids) = Limit[local[p].context.planId]
      BY <1>5, <2>2 DEF CheckSelection
    <3>2. [local[p] EXCEPT !.step = "suspend"] \in Local
      BY <1>1 DEF Local, Step
    <3>3. DecidedAfterTrial([local[p] EXCEPT !.step = "suspend"])
      BY <1>1, <3>1 DEF DecidedAfterTrial, Local
    <3>. QED BY <1>5, <2>2, <3>2, <3>3 DEF CheckSelection
  <2>. QED BY <1>5, <2>1, <2>2 DEF CheckSelection
<1>6. CASE FindSuspended(p)
  <2>1. ASSUME NEW n
        PROVE  LET next == [local[p] EXCEPT !.step = "reactivate", !.ids = Oldest(Suspended, n)]
               IN  next \in Local /\ DecidedAfterTrial(next)
    <3>1. Oldest(Suspended, n) \subseteq WorkerId
      BY DEF Oldest, Suspended
    <3>. QED BY <1>1, <3>1 DEF DecidedAfterTrial, Local, Step
  <2>. QED BY <1>6, <2>1 DEF FindSuspended
<1>. QED BY <1>3, <1>4, <1>5, <1>6

\* A request that has just finished, or goes on to bring workers back.
LEMMA OthersDecide ==
  ASSUME TypeOK, SuspendedByChoice, NEW p \in Request, NEW next,
         DecidedAfterTrial(next), Goto(p, next),
         UNCHANGED <<now, subscription>>
  PROVE  \A q \in Request : DecidedAfterTrial(local[q])'
BY DEF SuspendedByChoice, DecidedAfterTrial, TrialIsPast, Goto, TypeOK

LEMMA TeamSteps ==
  ASSUME TypeOK, SuspendedByChoice, NEW p \in Request,
         WriteWorker(p) \/ SuspendTheRest(p) \/ Reactivate(p) \/ RestoreInactive(p)
  PROVE  SuspendedByChoice'
<1>1. UNCHANGED <<now, subscription>>
  BY DEF WriteWorker, SuspendTheRest, Reactivate, RestoreInactive, payment
<1>2. \A q \in Request : DecidedAfterTrial(local[q])'
  <2>1. DecidedAfterTrial([local[p] EXCEPT !.step = "findSuspended"])
    BY LocalType DEF SuspendedByChoice, DecidedAfterTrial, Local
  <2>. QED
    BY <1>1, <2>1, IdleDecided, OthersDecide
    DEF Finish, WriteWorker, SuspendTheRest, Reactivate, RestoreInactive
<1>3. cache'.context.selectionRequired => TrialIsPast
  BY DEF SuspendedByChoice, WriteWorker, SuspendTheRest, Reactivate, RestoreInactive,
         Invalidate, NoEntry, NoContext
<1>4. ASSUME NEW w \in WorkerId, worker'[w].planSuspended
      PROVE  TrialIsPast
  <2>1. worker[w] \in WorkerRow /\ local[p].row \in WorkerRow
    BY LocalType DEF TypeOK
  <2>2. CASE WriteWorker(p)
    BY <1>4, <2>1, <2>2 DEF WriteWorker, SuspendedByChoice, DecidedAfterTrial, TypeOK, WorkerRow
  <2>3. CASE SuspendTheRest(p)
    BY <1>4, <2>3 DEF SuspendTheRest, At, SuspendedByChoice, DecidedAfterTrial
  <2>4. CASE Reactivate(p) \/ RestoreInactive(p)
    BY <1>4, <2>1, <2>4 DEF Reactivate, RestoreInactive, SuspendedByChoice, WorkerRow
  <2>. QED BY <2>2, <2>3, <2>4
<1>. QED BY <1>1, <1>2, <1>3, <1>4 DEF SuspendedByChoice, TrialIsPast

LEMMA PaymentSteps ==
  ASSUME TypeOK, SuspendedByChoice, NEW p \in Request,
         \/ \E planId \in PaidPlan : ChoosePlan(p, planId)
         \/ ReportPayment(p)
         \/ \E byHand \in BOOLEAN : VerifyPayment(p, byHand) \/ RejectPayment(p, byHand)
         \/ AdvanceSubscription(p)
  PROVE  SuspendedByChoice'
<1>1. UNCHANGED <<now, worker>> /\ cache' \in {cache, NoEntry}
  BY DEF ChoosePlan, ReportPayment, VerifyPayment, RejectPayment, AdvanceSubscription, Invalidate
<1>2. subscription'.trialEndsAt = subscription.trialEndsAt
  <2>1. CASE AdvanceSubscription(p)
    BY <2>1, LocalType
    DEF AdvanceSubscription, At, SuspendedByChoice, DecidedAfterTrial, SubscriptionRow
  <2>2. CASE \E planId \in PaidPlan : ChoosePlan(p, planId)
    BY <2>2 DEF ChoosePlan, TypeOK, SubscriptionRow
  <2>3. CASE UNCHANGED subscription
    BY <2>3
  <2>. QED
    BY <2>1, <2>2, <2>3 DEF ReportPayment, VerifyPayment, RejectPayment
<1>3. PICK next : /\ DecidedAfterTrial(next)
                  /\ Goto(p, next) \/ UNCHANGED local
  <2>1. DecidedAfterTrial(StartRestoring)
    BY IdleDecided DEF StartRestoring, DecidedAfterTrial, Idle, NoContext, NoWorker
  <2>2. DecidedAfterTrial([Idle EXCEPT !.step = "advance", !.subscription = subscription,
                                       !.paidPlanId = reportedPlan])
    BY DEF DecidedAfterTrial, Idle, NoContext, NoWorker
  <2>. QED
    BY <2>1, <2>2
    DEF ChoosePlan, ReportPayment, VerifyPayment, RejectPayment, AdvanceSubscription
<1>4. \A q \in Request : DecidedAfterTrial(local[q])'
  BY <1>1, <1>2, <1>3 DEF SuspendedByChoice, DecidedAfterTrial, TrialIsPast, Goto, TypeOK
<1>. QED
  BY <1>1, <1>2, <1>4 DEF SuspendedByChoice, TrialIsPast, NoEntry, NoContext

LEMMA TickStep ==
  ASSUME TypeOK, SuspendedByChoice, Tick
  PROVE  SuspendedByChoice'
<1>1. TrialIsPast => TrialIsPast'
  BY DEF Tick, TrialIsPast, payment, TypeOK, SubscriptionRow, Date
<1>. QED
  BY <1>1 DEF Tick, SuspendedByChoice, DecidedAfterTrial, payment

LEMMA Inductive == Spec => [](TypeOK /\ SuspendedByChoice)
<1>1. Init => SuspendedByChoice
  BY IdleDecided DEF Init, SuspendedByChoice, NoEntry, NoContext, NewWorker, NoWorker
<1>2. TypeOK /\ SuspendedByChoice /\ [Next]_vars => SuspendedByChoice'
  <2>. SUFFICES ASSUME TypeOK, SuspendedByChoice, [Next]_vars PROVE SuspendedByChoice'
    OBVIOUS
  <2>1. ASSUME NEW p \in Request, RequestStep(p)
        PROVE  SuspendedByChoice'
    BY <2>1, ContextSteps, DecisionSteps, TeamSteps, PaymentSteps DEF RequestStep
  <2>2. ASSUME NEW p \in Request, Arrival(p)
        PROVE  SuspendedByChoice'
    BY <2>2, ArrivalSteps, PaymentSteps DEF Arrival
  <2>3. CASE UNCHANGED vars
    BY <2>3 DEF vars, SuspendedByChoice, DecidedAfterTrial, TrialIsPast
  <2>. QED BY <2>1, <2>2, <2>3, TickStep DEF Next
<1>. QED BY <1>1, <1>2, TypeCorrect, PTL DEF Spec

\* While the trial runs nobody is suspended, whatever requests interleave: a
\* selection needs a context computed after the trial, every copy of a row
\* carries the mark of its table, and no payment moves the end of the trial
\* ("la prueba nunca pide escoger", restoreSuspended and computeContext).
THEOREM TrialSuspendsNobody == Spec => []NobodySuspendedOnTrial
<1>1. TypeOK /\ SuspendedByChoice => NobodySuspendedOnTrial
  BY DEF SuspendedByChoice, NobodySuspendedOnTrial, TrialIsPast, TypeOK, SubscriptionRow, Date
<1>. QED BY <1>1, Inductive, PTL

\* A selection that suspends somebody leaves exactly the limit it was made for,
\* however many selections, payments and edits interleave with it: it looks at
\* the candidates again in the transaction that suspends the rest (select).
THEOREM SelectionIsExact == Spec => SelectionLeavesTheLimit
<1>1. ASSUME TypeOK, SuspendedByChoice, NEW p \in Request,
             SuspendTheRest(p), worker' # worker
      PROVE  Cardinality(Candidates') = Limit[local[p].context.planId]
  <2>. DEFINE keep == local[p].ids
  <2>1. ChoiceStands(keep, Limit[local[p].context.planId])
    BY <1>1 DEF SuspendTheRest
  <2>2. keep \subseteq Candidates /\ keep \subseteq WorkerId
    BY <1>1, <2>1, LocalType DEF ChoiceStands
  <2>3. \A w \in WorkerId : worker[w] \in WorkerRow
    BY <1>1 DEF TypeOK
  <2>4. worker' = [w \in WorkerId |->
                     IF \/ w \in Candidates \ keep
                        \/ Inactive(worker[w]) /\ worker[w].kept = "present"
                     THEN [worker[w] EXCEPT !.planSuspended = TRUE]
                     ELSE worker[w]]
    BY <1>1, <2>1 DEF SuspendTheRest
  <2>5. Candidates' = keep
    <3>1. ASSUME NEW w \in keep PROVE w \in Candidates'
      BY <2>2, <2>4 DEF Candidates, Bookable, Inactive
    <3>2. ASSUME NEW w \in Candidates' PROVE w \in keep
      <4>1. w \in WorkerId /\ Bookable(worker'[w]) /\ ~worker'[w].planSuspended
        BY DEF Candidates, Bookable
      <4>2. worker'[w] = worker[w]
        BY <4>1, <2>3, <2>4 DEF WorkerRow
      <4>. QED BY <4>1, <4>2, <2>3, <2>4 DEF Candidates, WorkerRow
    <3>. QED BY <3>1, <3>2
  <2>6. Cardinality(keep) = Limit[local[p].context.planId]
    BY <1>1 DEF SuspendTheRest, At, SuspendedByChoice, DecidedAfterTrial
  <2>. QED BY <2>5, <2>6
<1>2. TypeOK /\ SuspendedByChoice /\ [Next]_vars =>
        [\A p \in Request : SuspendTheRest(p) /\ worker' # worker =>
           Cardinality(Candidates') = Limit[local[p].context.planId]]_vars
  BY <1>1
<1>. QED BY <1>2, Inductive, PTL DEF Spec, SelectionLeavesTheLimit

-----------------------------------------------------------------------------
(* One request at a time: the team grows as the plan allows, and comes back *)
(* when the Full plan is paid.                                              *)

\* The salon's requests come one after another.
OneAtATime == \A p, q \in Request : p = q
\* The Full plan admits everybody the salon registers.
RoomForAll == MaxWorkers <= Limit["full"]

Marked == {w \in WorkerId : worker[w].planSuspended}

\* A suspended worker who is not in the team is not active either.
MarksFit ==
  \A w \in WorkerId : worker[w].planSuspended =>
    /\ worker[w].kept # "absent"
    /\ worker[w].kept = "present" \/ ~worker[w].isActive

\* The row a request will write carries the mark of the table, and brings
\* somebody into the team only with the room that was counted.
RowIsFresh(request) ==
  request.operation \in {"add", "save", "update", "activate"} =>
    /\ request.row.planSuspended = worker[request.id].planSuspended
    /\ request.row.planSuspended =>
         /\ request.row.kept # "absent"
         /\ request.row.kept = "present" \/ ~request.row.isActive
    /\ request.operation = "update" =>
         request.row = [worker[request.id] EXCEPT !.isActive = request.row.isActive]
    /\ request.step = "write" =>
         \/ HasRoom(request.context)
         \/ Bookable(request.row) /\ ~request.row.planSuspended => request.id \in Candidates

\* What a request read of the payments is what the tables say.
PaymentIsFresh(request) ==
  /\ request.step \in {"readReport", "readVerified", "fillContext", "advance"} =>
       request.subscription = subscription
  /\ request.step \in {"readVerified", "fillContext"} =>
       (request.pending <=> reportedPlan # "none")
  /\ request.step \in {"fillContext", "advance"} => request.paidPlanId = verifiedPlan
  /\ request.step = "advance" => verifiedPlan # "none"

Advancing == \E p \in Request : At(p, "advance")

PeriodsFit ==
  /\ subscription.status # "none" /\ ~subscription.billingExempt
  /\ subscription.trialEndsAt # NoDate
  /\ subscription.currentPeriodEnd # NoDate => subscription.currentPeriodEnd > subscription.trialEndsAt
  /\ verifiedPlan # "none" /\ ~Advancing => subscription.currentPeriodEnd # NoDate

\* The Full plan never asks to choose a team it has room for.
NeedsNoChoice(context) ==
  verifiedPlan = "full" /\ RoomForAll => ~context.selectionRequired

CacheIsTrue ==
  cache.expiresAt # NoDate /\ ~Advancing =>
    /\ ~cache.context.canOperate =>
         ~ResolveAccess(now, subscription, reportedPlan # "none").canOperate
    /\ NeedsNoChoice(cache.context)

ChoiceIsDue(request) ==
  request.operation = "select" /\ request.step \in {"decide", "suspend"} =>
    NeedsNoChoice(request.context)

\* Where the return of the suspended stands.
ReturnIsSound(request) ==
  /\ request.step = "suspend" => request.operation = "select"
  /\ request.step \in {"findSuspended", "reactivate"} => request.operation = "restoreSuspended"
  /\ request.operation = "restoreSuspended" =>
       /\ request.step \in {"readSubscription", "readReport", "readVerified", "fillContext",
                            "decide", "findSuspended", "reactivate"}
       /\ verifiedPlan # "none"
       /\ \/ request.step = "decide" /\ request.context.planId = "full"
          \/ request.step \in {"findSuspended", "reactivate"}
          => verifiedPlan = "full" \/ Marked = {}
       /\ request.step = "decide" /\ verifiedPlan = "full" /\ subscription.currentPeriodEnd > now =>
            BringsThemBack(request.context)
       /\ request.step \in {"decide", "findSuspended"} =>
            request.context.activeWorkers = BookableWorkers
       /\ request.step = "findSuspended" =>
            request.context.planId = "full" /\ Marked \subseteq Suspended
       /\ request.step = "reactivate" /\ RoomForAll => Marked \subseteq request.ids

Returning == \E p \in Request : At(p, "advance") \/ local[p].operation = "restoreSuspended"

\* Between two payments of the Full plan nobody is suspended.
FullSuspendsNobody ==
  verifiedPlan = "full" /\ RoomForAll /\ subscription.currentPeriodEnd > now /\ ~Returning =>
    Marked = {}

Sound(request) ==
  RowIsFresh(request) /\ PaymentIsFresh(request) /\ ChoiceIsDue(request) /\ ReturnIsSound(request)

TeamIsSound ==
  /\ MarksFit /\ PeriodsFit /\ CacheIsTrue /\ FullSuspendsNobody
  /\ \A p \in Request : Sound(local[p])

LEMMA Alone ==
  ASSUME OneAtATime, NEW p \in Request
  PROVE  /\ Advancing <=> At(p, "advance")
         /\ Advancing' <=> At(p, "advance")'
         /\ Returning <=> At(p, "advance") \/ local[p].operation = "restoreSuspended"
         /\ Returning' <=> At(p, "advance")' \/ local'[p].operation = "restoreSuspended"
         /\ Sound(local[p])' => (\A q \in Request : Sound(local[q]))'
<1>1. \A q \in Request : q = p
  BY DEF OneAtATime
<1>2. Sound(local[p])' => (\A q \in Request : Sound(local[q]))'
  BY <1>1
<1>. QED BY <1>1, <1>2 DEF Advancing, Returning, At

\* When a salon may operate, in one line.
LEMMA CanOperate ==
  ASSUME NEW today, NEW sub \in SubscriptionRow, NEW pending \in BOOLEAN
  PROVE  ResolveAccess(today, sub, pending).canOperate <=>
           \/ sub.status = "none" \/ sub.billingExempt
           \/ AccessEndOf(sub.trialEndsAt, sub.currentPeriodEnd) = NoDate
           \/ AccessEndOf(sub.trialEndsAt, sub.currentPeriodEnd) > today
           \/ GraceEnd(sub) > today
           \/ pending
<1>1. /\ \A cause, a, g : AccessState("trialing", cause, a, g).canOperate
      /\ \A cause, a, g : AccessState("active", cause, a, g).canOperate
      /\ \A cause, a, g : AccessState("grace", cause, a, g).canOperate
      /\ \A cause, a, g : ~AccessState("blocked", cause, a, g).canOperate
  BY DEF AccessState
<1>2. CASE sub.status = "none"
  BY <1>1, <1>2 DEF ResolveAccess
<1>3. CASE sub.status # "none" /\ sub.billingExempt
  BY <1>1, <1>3 DEF ResolveAccess
<1>4. CASE sub.status # "none" /\ ~sub.billingExempt
  BY <1>1, <1>4 DEF ResolveAccess
<1>. QED BY <1>2, <1>3, <1>4

\* Access only falls away as time passes and reports are answered.
LEMMA AccessFalls ==
  ASSUME NEW today \in Nat, NEW later \in Nat, today <= later,
         NEW sub \in SubscriptionRow, NEW before \in BOOLEAN, NEW after \in BOOLEAN,
         after => before, ~ResolveAccess(today, sub, before).canOperate
  PROVE  ~ResolveAccess(later, sub, after).canOperate
<1>1. AccessEndOf(sub.trialEndsAt, sub.currentPeriodEnd) \in Nat
  BY DEF AccessEndOf, Later, SubscriptionRow, Date
<1>2. GraceEnd(sub) \in Nat
  BY PeriodAssumption DEF GraceEnd, AccessEndOf, Later, SubscriptionRow, Date, NoDate
<1>. QED BY <1>1, <1>2, CanOperate

\* After a payment the salon is not on trial, unless the trial still runs.
LEMMA NotOnTrial ==
  ASSUME NEW today, NEW sub \in SubscriptionRow, NEW pending \in BOOLEAN,
         sub.status # "none", ~sub.billingExempt,
         sub.currentPeriodEnd # NoDate, sub.currentPeriodEnd > sub.trialEndsAt
  PROVE  ResolveAccess(today, sub, pending).status # "trialing"
<1>1. ~OnTrial(sub)
  BY DEF OnTrial, SubscriptionRow, Date
<1>2. \A status, cause, a, g : AccessState(status, cause, a, g).status = status
  BY DEF AccessState
<1>. QED BY <1>1, <1>2 DEF ResolveAccess

\* What is known of a request depends on nothing but the tables.
LEMMA SoundIsStable ==
  ASSUME NEW request, Sound(request), UNCHANGED <<now, payment, worker>>
  PROVE  Sound(request)'
<1>1. /\ Candidates' = Candidates /\ Suspended' = Suspended /\ Marked' = Marked
      /\ BookableWorkers' = BookableWorkers
  BY DEF Candidates, Suspended, Marked, BookableWorkers, Bookable
<1>2. /\ subscription' = subscription /\ reportedPlan' = reportedPlan
      /\ verifiedPlan' = verifiedPlan /\ now' = now /\ worker' = worker
  BY DEF payment
<1>3. RowIsFresh(request)'
  BY <1>1, <1>2 DEF Sound, RowIsFresh, HasRoom
<1>4. PaymentIsFresh(request)'
  BY <1>2 DEF Sound, PaymentIsFresh
<1>5. ChoiceIsDue(request)'
  BY <1>2 DEF Sound, ChoiceIsDue, NeedsNoChoice
<1>6. ReturnIsSound(request)'
  BY <1>1, <1>2 DEF Sound, ReturnIsSound, BringsThemBack
<1>. QED BY <1>3, <1>4, <1>5, <1>6 DEF Sound

\* What holds of a request holds of all when it is the only one.
LEMMA SoundForAll ==
  ASSUME TypeOK, OneAtATime, NEW p \in Request, NEW next, Goto(p, next), Sound(next)'
  PROVE  (\A q \in Request : Sound(local[q]))'
<1>1. local'[p] = next
  BY DEF Goto, TypeOK
<1>2. RowIsFresh(local[p])'
  BY <1>1 DEF Sound, RowIsFresh
<1>3. PaymentIsFresh(local[p])'
  BY <1>1 DEF Sound, PaymentIsFresh
<1>4. ChoiceIsDue(local[p])'
  BY <1>1 DEF Sound, ChoiceIsDue
<1>5. ReturnIsSound(local[p])'
  BY <1>1 DEF Sound, ReturnIsSound
<1>6. Sound(local[p])'
  BY <1>2, <1>3, <1>4, <1>5 DEF Sound
<1>. QED BY <1>6, Alone

\* A paid month of a Full plan with room for all has left nobody suspended.
NobodyLeftBehind ==
  verifiedPlan = "full" /\ RoomForAll /\ subscription.currentPeriodEnd > now => Marked = {}

\* Steps that change the memory of the request alone.
LEMMA MemorySound ==
  ASSUME TypeOK, TeamIsSound, OneAtATime, NEW p \in Request, NEW next,
         Goto(p, next), Sound(next), UNCHANGED <<now, payment, worker, cache>>,
         ~At(p, "advance"), next.step # "advance",
         local[p].operation = "restoreSuspended" =>
           next.operation = "restoreSuspended" \/ NobodyLeftBehind
  PROVE  TeamIsSound'
<1>1. local'[p] = next
  BY DEF Goto, TypeOK
<1>2. Sound(next)'
  BY SoundIsStable
<1>3. (\A q \in Request : Sound(local[q]))'
  BY <1>2, SoundForAll
<1>4. ~Advancing /\ ~Advancing'
  BY <1>1, Alone DEF At
<1>5. /\ subscription' = subscription /\ reportedPlan' = reportedPlan
      /\ verifiedPlan' = verifiedPlan /\ now' = now /\ worker' = worker /\ cache' = cache
  BY DEF payment
<1>6. MarksFit' /\ PeriodsFit' /\ CacheIsTrue'
  BY <1>4, <1>5 DEF TeamIsSound, MarksFit, PeriodsFit, CacheIsTrue, NeedsNoChoice
<1>7. Marked' = Marked
  BY <1>5 DEF Marked
<1>8. Returning /\ ~Returning' => NobodyLeftBehind
  BY <1>1, Alone DEF At
<1>9. FullSuspendsNobody'
  BY <1>5, <1>7, <1>8 DEF TeamIsSound, FullSuspendsNobody, NobodyLeftBehind
<1>. QED BY <1>3, <1>6, <1>9 DEF TeamIsSound

LEMMA IdleSound == Sound(Idle)
BY DEF Sound, RowIsFresh, PaymentIsFresh, ChoiceIsDue, ReturnIsSound, Idle

\* A request that is not in progress owes nothing to the suspended.
LEMMA IdleOwesNothing ==
  ASSUME TeamIsSound, NEW p \in Request, At(p, "idle")
  PROVE  local[p].operation # "restoreSuspended" /\ ~At(p, "advance")
BY DEF TeamIsSound, Sound, ReturnIsSound, At

\* A request that arrives and asks for the context.
LEMMA AskSound ==
  ASSUME TypeOK, TeamIsSound, OneAtATime, NEW p \in Request, NEW next \in Local,
         At(p, "idle"), AskContext(p, next), RowIsFresh(next),
         next.operation # "restoreSuspended", next.step = "idle",
         UNCHANGED <<now, payment, worker, cache>>
  PROVE  TeamIsSound'
<1>1. local[p].operation # "restoreSuspended" /\ ~At(p, "advance")
  BY IdleOwesNothing
<1>2. CASE CacheHit
  <2>1. PICK asked : asked = [next EXCEPT !.step = "decide", !.context = cache.context]
    OBVIOUS
  <2>2. /\ asked.operation = next.operation /\ asked.row = next.row /\ asked.id = next.id
        /\ asked.step = "decide" /\ asked.context = cache.context
    BY <2>1 DEF Local
  <2>3. ~Advancing /\ cache.expiresAt # NoDate
    BY <1>1, <1>2, Alone DEF CacheHit, NoDate, TypeOK
  <2>4. RowIsFresh(asked)
    BY <2>2 DEF RowIsFresh
  <2>5. ChoiceIsDue(asked)
    BY <2>2, <2>3 DEF ChoiceIsDue, TeamIsSound, CacheIsTrue
  <2>6. PaymentIsFresh(asked) /\ ReturnIsSound(asked)
    BY <2>2 DEF PaymentIsFresh, ReturnIsSound
  <2>7. Goto(p, asked)
    BY <1>2, <2>1 DEF AskContext
  <2>. QED BY <1>1, <2>2, <2>4, <2>5, <2>6, <2>7, MemorySound DEF Sound
<1>3. CASE ~CacheHit
  <2>1. PICK asked : asked = [next EXCEPT !.step = "readSubscription"]
    OBVIOUS
  <2>2. /\ asked.operation = next.operation /\ asked.row = next.row /\ asked.id = next.id
        /\ asked.step = "readSubscription"
    BY <2>1 DEF Local
  <2>3. Sound(asked)
    BY <2>2 DEF Sound, RowIsFresh, PaymentIsFresh, ChoiceIsDue, ReturnIsSound
  <2>4. Goto(p, asked)
    BY <1>3, <2>1 DEF AskContext
  <2>. QED BY <1>1, <2>2, <2>3, <2>4, MemorySound
<1>. QED BY <1>2, <1>3

\* A request that arrives with a row it will write without asking.
LEMMA DirectWriteSound ==
  ASSUME TypeOK, TeamIsSound, OneAtATime, NEW p \in Request, NEW next \in Local,
         At(p, "idle"), Goto(p, next), RowIsFresh(next),
         next.operation \notin {"restoreSuspended", "select"}, next.step = "write",
         UNCHANGED <<now, payment, worker, cache>>
  PROVE  TeamIsSound'
<1>1. local[p].operation # "restoreSuspended" /\ ~At(p, "advance")
  BY IdleOwesNothing
<1>2. Sound(next)
  BY DEF Sound, PaymentIsFresh, ChoiceIsDue, ReturnIsSound
<1>. QED BY <1>1, <1>2, MemorySound

LEMMA ScreenAndSelectSound ==
  ASSUME TypeOK, TeamIsSound, OneAtATime, NEW p \in Request,
         OpenScreen(p) \/ \E keep \in SUBSET WorkerId : SelectWorkers(p, keep)
  PROVE  TeamIsSound'
<1>1. CASE OpenScreen(p)
  <2>1. PICK next : next = [Idle EXCEPT !.operation = "open"]
    OBVIOUS
  <2>2. next \in Local /\ next.operation = "open" /\ next.step = "idle"
    BY <2>1, NoRowsType DEF Local, Idle, Operation
  <2>3. RowIsFresh(next)
    BY <2>2 DEF RowIsFresh
  <2>. QED BY <1>1, <2>1, <2>2, <2>3, AskSound DEF OpenScreen, Arrives
<1>2. ASSUME NEW keep \in SUBSET WorkerId, SelectWorkers(p, keep)
      PROVE  TeamIsSound'
  <2>1. PICK next : next = [Idle EXCEPT !.operation = "select", !.ids = keep]
    OBVIOUS
  <2>2. next \in Local /\ next.operation = "select" /\ next.step = "idle"
    BY <2>1, NoRowsType DEF Local, Idle, Operation
  <2>3. RowIsFresh(next)
    BY <2>2 DEF RowIsFresh
  <2>. QED BY <1>2, <2>1, <2>2, <2>3, AskSound DEF SelectWorkers, Arrives
<1>. QED BY <1>1, <1>2

\* The row an arriving request holds, and whether it writes it without asking.
FreshRow(w, row, update, direct) ==
  /\ row \in WorkerRow
  /\ row.planSuspended = worker[w].planSuspended
  /\ row.planSuspended => /\ row.kept # "absent"
                          /\ row.kept = "present" \/ ~row.isActive
  /\ update => row = [worker[w] EXCEPT !.isActive = row.isActive]
  /\ direct => (Bookable(row) /\ ~row.planSuspended => w \in Candidates)

LEMMA AsksWithItsRow ==
  ASSUME TypeOK, TeamIsSound, OneAtATime, NEW p \in Request, At(p, "idle"),
         NEW w \in WorkerId, NEW row, NEW operation \in {"add", "save", "update", "activate"},
         FreshRow(w, row, operation = "update", FALSE),
         AskContext(p, [Idle EXCEPT !.operation = operation, !.id = w, !.row = row]),
         UNCHANGED <<now, payment, worker, cache>>
  PROVE  TeamIsSound'
<1>1. PICK next : next = [Idle EXCEPT !.operation = operation, !.id = w, !.row = row]
  OBVIOUS
<1>2. /\ next.operation = operation /\ next.step = "idle" /\ next.id = w /\ next.row = row
  BY <1>1 DEF Idle
<1>3. next \in Local
  BY <1>1, NoRowsType DEF Local, Idle, Operation, FreshRow
<1>4. RowIsFresh(next)
  BY <1>2 DEF RowIsFresh, FreshRow
<1>. QED BY <1>1, <1>2, <1>3, <1>4, AskSound

LEMMA WritesItsRow ==
  ASSUME TypeOK, TeamIsSound, OneAtATime, NEW p \in Request, At(p, "idle"),
         NEW w \in WorkerId, NEW row, NEW operation \in {"add", "save", "update", "activate"},
         FreshRow(w, row, operation = "update", TRUE),
         Goto(p, [Idle EXCEPT !.operation = operation, !.step = "write",
                              !.id = w, !.row = row]),
         UNCHANGED <<now, payment, worker, cache>>
  PROVE  TeamIsSound'
<1>1. PICK next : next = [Idle EXCEPT !.operation = operation, !.step = "write",
                                      !.id = w, !.row = row]
  OBVIOUS
<1>2. /\ next.operation = operation /\ next.step = "write" /\ next.id = w /\ next.row = row
  BY <1>1 DEF Idle
<1>3. next \in Local
  BY <1>1, NoRowsType DEF Local, Idle, Operation, Step, FreshRow
<1>4. RowIsFresh(next)
  BY <1>2 DEF RowIsFresh, FreshRow
<1>. QED BY <1>1, <1>2, <1>3, <1>4, DirectWriteSound

\* A row of the table, with another isActive.
LEMMA EditedRow ==
  ASSUME TypeOK, TeamIsSound, NEW w \in WorkerId, NEW isActive \in BOOLEAN,
         worker[w].kept # "absent", NEW row,
         row = [worker[w] EXCEPT !.isActive = isActive]
  PROVE  /\ Activating(worker[w], isActive) /\ ~worker[w].planSuspended
              => FreshRow(w, row, TRUE, FALSE)
         /\ ~Activating(worker[w], isActive) => FreshRow(w, row, TRUE, TRUE)
<1>1. worker[w] \in WorkerRow
  BY DEF TypeOK
<1>2. /\ row \in WorkerRow /\ row.kept = worker[w].kept /\ row.isActive = isActive
      /\ row.planSuspended = worker[w].planSuspended
      /\ row = [worker[w] EXCEPT !.isActive = row.isActive]
  BY <1>1 DEF WorkerRow
<1>3. CASE Activating(worker[w], isActive)
  BY <1>2, <1>3 DEF FreshRow
<1>4. CASE ~Activating(worker[w], isActive)
  <2>1. isActive => worker[w].isActive
    BY <1>4 DEF Activating
  <2>2. worker[w].planSuspended => worker[w].kept = "present" \/ ~worker[w].isActive
    BY DEF TeamIsSound, MarksFit
  <2>3. Bookable(row) /\ ~row.planSuspended => w \in Candidates
    BY <1>2, <2>1 DEF Bookable, Candidates
  <2>. QED BY <1>2, <1>4, <2>1, <2>2, <2>3 DEF FreshRow
<1>. QED BY <1>3, <1>4

\* What is fresh for an update is fresh for a save.
LEMMA FreshForASave ==
  ASSUME NEW w, NEW row, NEW direct, FreshRow(w, row, TRUE, direct)
  PROVE  FreshRow(w, row, FALSE, direct)
BY DEF FreshRow

LEMMA EditSound ==
  ASSUME TypeOK, TeamIsSound, OneAtATime, NEW p \in Request, NEW w \in WorkerId,
         NEW isActive \in BOOLEAN,
         EditWorker(p, w, isActive) \/ EditProfile(p, w, isActive)
  PROVE  TeamIsSound'
<1>1. PICK row : row = [worker[w] EXCEPT !.isActive = isActive]
  OBVIOUS
<1>2. /\ At(p, "idle") /\ worker[w].kept # "absent"
      /\ UNCHANGED <<now, payment, worker, cache>>
  BY DEF EditWorker, EditProfile, Arrives
<1>3. CASE Activating(worker[w], isActive)
  <2>1. ~worker[w].planSuspended
    BY <1>3 DEF EditWorker, EditProfile
  <2>2. FreshRow(w, row, TRUE, FALSE) /\ FreshRow(w, row, FALSE, FALSE)
    BY <1>1, <1>2, <1>3, <2>1, EditedRow, FreshForASave
  <2>3. \/ AskContext(p, [Idle EXCEPT !.operation = "activate", !.id = w, !.row = row])
        \/ AskContext(p, [Idle EXCEPT !.operation = "update", !.id = w, !.row = row])
    BY <1>1, <1>3 DEF EditWorker, EditProfile
  <2>4. CASE AskContext(p, [Idle EXCEPT !.operation = "activate", !.id = w, !.row = row])
    <3>1. FreshRow(w, row, "activate" = "update", FALSE)
      BY <2>2 DEF FreshRow
    <3>. QED BY <1>2, <2>4, <3>1, AsksWithItsRow
  <2>5. CASE AskContext(p, [Idle EXCEPT !.operation = "update", !.id = w, !.row = row])
    <3>1. FreshRow(w, row, "update" = "update", FALSE)
      BY <2>2 DEF FreshRow
    <3>. QED BY <1>2, <2>5, <3>1, AsksWithItsRow
  <2>. QED BY <2>3, <2>4, <2>5
<1>4. CASE ~Activating(worker[w], isActive)
  <2>2. FreshRow(w, row, TRUE, TRUE) /\ FreshRow(w, row, FALSE, TRUE)
    BY <1>1, <1>2, <1>4, EditedRow, FreshForASave
  <2>3. \/ Goto(p, [Idle EXCEPT !.operation = "save", !.step = "write", !.id = w, !.row = row])
        \/ Goto(p, [Idle EXCEPT !.operation = "update", !.step = "write", !.id = w, !.row = row])
    BY <1>1, <1>4 DEF EditWorker, EditProfile
  <2>4. CASE Goto(p, [Idle EXCEPT !.operation = "save", !.step = "write", !.id = w, !.row = row])
    <3>1. FreshRow(w, row, "save" = "update", TRUE)
      BY <2>2 DEF FreshRow
    <3>. QED BY <1>2, <2>4, <3>1, WritesItsRow
  <2>5. CASE Goto(p, [Idle EXCEPT !.operation = "update", !.step = "write", !.id = w, !.row = row])
    <3>1. FreshRow(w, row, "update" = "update", TRUE)
      BY <2>2 DEF FreshRow
    <3>. QED BY <1>2, <2>5, <3>1, WritesItsRow
  <2>. QED BY <2>3, <2>4, <2>5
<1>. QED BY <1>3, <1>4

LEMMA TeamChangeSound ==
  ASSUME TypeOK, TeamIsSound, OneAtATime, NEW p \in Request, NEW w \in WorkerId,
         \/ AddWorker(p, w) \/ RestoreWorker(p, w)
         \/ \E kept \in {"temporarilyDeleted", "permanentlyDeleted"} :
              RemoveWorker(p, w, kept)
  PROVE  TeamIsSound'
<1>1. worker[w] \in WorkerRow
  BY DEF TypeOK
<1>2. /\ At(p, "idle")
      /\ UNCHANGED <<now, payment, worker, cache>>
  BY DEF AddWorker, RestoreWorker, RemoveWorker, Arrives
<1>3. CASE AddWorker(p, w)
  <2>1. ~worker[w].planSuspended
    BY <1>3 DEF AddWorker, TeamIsSound, MarksFit
  <2>2. FreshRow(w, NewWorker, "add" = "update", FALSE)
    BY <1>1, <2>1, NoRowsType DEF FreshRow, NewWorker, WorkerRow
  <2>. QED BY <1>2, <1>3, <2>2, AsksWithItsRow DEF AddWorker
<1>4. CASE RestoreWorker(p, w)
  <2>1. PICK row : row = [worker[w] EXCEPT !.kept = "present", !.isActive = TRUE]
    OBVIOUS
  <2>2. /\ row \in WorkerRow /\ row.kept = "present" /\ row.isActive = TRUE
        /\ row.planSuspended = worker[w].planSuspended
    BY <1>1, <2>1 DEF WorkerRow
  <2>3. CASE worker[w].planSuspended
    <3>1. FreshRow(w, row, "save" = "update", TRUE)
      BY <2>2, <2>3 DEF FreshRow
    <3>2. Goto(p, [Idle EXCEPT !.operation = "save", !.step = "write", !.id = w, !.row = row])
      BY <1>4, <2>1, <2>3 DEF RestoreWorker
    <3>. QED BY <1>2, <3>1, <3>2, WritesItsRow
  <2>4. CASE ~worker[w].planSuspended
    <3>1. FreshRow(w, row, "activate" = "update", FALSE)
      BY <2>2, <2>4 DEF FreshRow
    <3>2. AskContext(p, [Idle EXCEPT !.operation = "activate", !.id = w, !.row = row])
      BY <1>4, <2>1, <2>4 DEF RestoreWorker
    <3>. QED BY <1>2, <3>1, <3>2, AsksWithItsRow
  <2>. QED BY <2>3, <2>4
<1>5. ASSUME NEW kept \in {"temporarilyDeleted", "permanentlyDeleted"}, RemoveWorker(p, w, kept)
      PROVE  TeamIsSound'
  <2>1. PICK row : row = [worker[w] EXCEPT !.kept = kept, !.isActive = FALSE]
    OBVIOUS
  <2>2. /\ row \in WorkerRow /\ row.kept = kept /\ row.isActive = FALSE
        /\ row.planSuspended = worker[w].planSuspended
    BY <1>1, <2>1 DEF WorkerRow
  <2>3. FreshRow(w, row, "save" = "update", TRUE)
    BY <2>2 DEF FreshRow, Bookable
  <2>4. Goto(p, [Idle EXCEPT !.operation = "save", !.step = "write", !.id = w, !.row = row])
    BY <1>5, <2>1 DEF RemoveWorker
  <2>. QED BY <1>2, <2>3, <2>4, WritesItsRow
<1>. QED BY <1>3, <1>4, <1>5

LEMMA ReadsSound ==
  ASSUME TypeOK, TeamIsSound, OneAtATime, NEW p \in Request,
         ReadSubscription(p) \/ ReadReport(p) \/ ReadVerified(p)
  PROVE  TeamIsSound'
<1>1. local[p] \in Local /\ Sound(local[p])
  BY LocalType DEF TeamIsSound
<1>2. CASE ReadSubscription(p)
  <2>1. PICK next : next = [local[p] EXCEPT !.step = "readReport", !.subscription = subscription]
    OBVIOUS
  <2>2. /\ next.step = "readReport" /\ next.subscription = subscription
        /\ next.operation = local[p].operation /\ next.row = local[p].row
        /\ next.id = local[p].id
    BY <1>1, <2>1 DEF Local
  <2>3. Sound(next)
    BY <1>1, <1>2, <2>2 DEF Sound, RowIsFresh, PaymentIsFresh, ChoiceIsDue, ReturnIsSound
  <2>. QED BY <1>2, <2>1, <2>2, <2>3, MemorySound DEF ReadSubscription, At
<1>3. CASE ReadReport(p)
  <2>1. PICK next : next = [local[p] EXCEPT !.step = "readVerified",
                                            !.pending = reportedPlan # "none"]
    OBVIOUS
  <2>2. /\ next.step = "readVerified" /\ next.subscription = local[p].subscription
        /\ next.operation = local[p].operation /\ next.row = local[p].row
        /\ next.id = local[p].id
    BY <1>1, <2>1 DEF Local
  <2>3. next.pending <=> reportedPlan # "none"
    BY <1>1, <2>1 DEF Local
  <2>4. local[p].subscription = subscription
    BY <1>1, <1>3 DEF ReadReport, At, Sound, PaymentIsFresh
  <2>5. RowIsFresh(next) /\ ChoiceIsDue(next) /\ ReturnIsSound(next)
    BY <1>1, <1>3, <2>2 DEF Sound, RowIsFresh, ChoiceIsDue, ReturnIsSound
  <2>6. PaymentIsFresh(next)
    BY <2>2, <2>3, <2>4 DEF PaymentIsFresh
  <2>. QED BY <1>3, <2>1, <2>2, <2>5, <2>6, MemorySound DEF ReadReport, At, Sound
<1>4. CASE ReadVerified(p)
  <2>1. PICK next : next = [local[p] EXCEPT !.step = "fillContext", !.paidPlanId = verifiedPlan]
    OBVIOUS
  <2>2. /\ next.step = "fillContext" /\ next.subscription = local[p].subscription
        /\ next.operation = local[p].operation /\ next.row = local[p].row
        /\ next.id = local[p].id /\ next.paidPlanId = verifiedPlan
        /\ next.pending = local[p].pending
    BY <1>1, <2>1 DEF Local
  <2>3. local[p].subscription = subscription
    BY <1>1, <1>4 DEF ReadVerified, At, Sound, PaymentIsFresh
  <2>4. local[p].pending <=> reportedPlan # "none"
    BY <1>1, <1>4 DEF ReadVerified, At, Sound, PaymentIsFresh
  <2>5. RowIsFresh(next) /\ ChoiceIsDue(next) /\ ReturnIsSound(next)
    BY <1>1, <1>4, <2>2 DEF Sound, RowIsFresh, ChoiceIsDue, ReturnIsSound
  <2>6. PaymentIsFresh(next)
    BY <2>2, <2>3, <2>4 DEF PaymentIsFresh
  <2>. QED BY <1>4, <2>1, <2>2, <2>5, <2>6, MemorySound DEF ReadVerified, At, Sound
<1>. QED BY <1>2, <1>3, <1>4

\* The team is no larger than the ids there are.
LEMMA TeamFits ==
  /\ IsFiniteSet(Candidates) /\ IsFiniteSet(Suspended) /\ IsFiniteSet(WorkerId)
  /\ Cardinality(WorkerId) = MaxWorkers
  /\ BookableWorkers \in Nat /\ Cardinality(Suspended) \in Nat
  /\ BookableWorkers + Cardinality(Suspended) <= MaxWorkers
<1>1. IsFiniteSet(WorkerId) /\ Cardinality(WorkerId) = MaxWorkers
  BY FS_Interval, TeamAssumption DEF WorkerId
<1>2. /\ Candidates \subseteq WorkerId /\ Suspended \subseteq WorkerId
      /\ Candidates \cap Suspended = {}
  BY DEF Candidates, Suspended
<1>3. IsFiniteSet(Candidates) /\ IsFiniteSet(Suspended)
  BY <1>1, <1>2, FS_Subset
<1>4. /\ Cardinality(Candidates) \in Nat /\ Cardinality(Suspended) \in Nat
  BY <1>3, FS_CardinalityType
<1>5. Cardinality(Candidates \cup Suspended) = Cardinality(Candidates) + Cardinality(Suspended)
  BY <1>2, <1>3, <1>4, FS_Union, FS_EmptySet
<1>6. Cardinality(Candidates \cup Suspended) <= Cardinality(WorkerId)
  <2>1. Candidates \cup Suspended \subseteq WorkerId
    BY <1>2
  <2>. QED BY <1>1, <2>1, FS_Subset
<1>. QED BY <1>1, <1>3, <1>4, <1>5, <1>6 DEF BookableWorkers

\* What the context computed on fresh rows says.
LEMMA ContextIsTrue ==
  ASSUME TypeOK, SuspendedByChoice, TeamIsSound, ~Advancing,
         NEW pending \in BOOLEAN, pending <=> reportedPlan # "none",
         NEW context, context = ComputeContext(subscription, pending, verifiedPlan)
  PROVE  /\ ~context.canOperate =>
              ~ResolveAccess(now, subscription, reportedPlan # "none").canOperate
         /\ NeedsNoChoice(context)
         /\ verifiedPlan # "none" /\ context.planId = "full" =>
              verifiedPlan = "full" \/ Marked = {}
         /\ verifiedPlan = "full" /\ subscription.currentPeriodEnd > now =>
              BringsThemBack(context)
         /\ context.activeWorkers = BookableWorkers
<1>1. /\ subscription \in SubscriptionRow /\ now \in Nat /\ ~subscription.billingExempt
      /\ subscription.status # "none"
      /\ verifiedPlan # "none" => /\ subscription.currentPeriodEnd # NoDate
                                  /\ subscription.currentPeriodEnd > subscription.trialEndsAt
  BY DEF TypeOK, TeamIsSound, PeriodsFit
<1>2. PICK access : access = ResolveAccess(now, subscription, pending)
  OBVIOUS
<1>3. /\ context.canOperate = access.canOperate
      /\ context.planId = EffectivePlanId(StoredPlanId(subscription, verifiedPlan),
                            access.status, subscription.trialEndsAt, now)
      /\ context.activeWorkers = BookableWorkers
  BY <1>2 DEF ComputeContext
<1>4. context.selectionRequired => BookableWorkers > Limit[context.planId]
  BY DEF ComputeContext
<1>5. verifiedPlan = "full" => context.planId = "full"
  BY <1>1, <1>3 DEF StoredPlanId, EffectivePlanId, TrialPlanId
<1>6. ~context.canOperate =>
        ~ResolveAccess(now, subscription, reportedPlan # "none").canOperate
  <2>1. access.canOperate <=> ResolveAccess(now, subscription, reportedPlan # "none").canOperate
    BY <1>1, <1>2, CanOperate
  <2>. QED BY <1>3, <2>1
<1>7. NeedsNoChoice(context)
  BY <1>4, <1>5, TeamFits, TeamAssumption DEF NeedsNoChoice, RoomForAll, PaidPlan
<1>8. ASSUME verifiedPlan # "none", context.planId = "full"
      PROVE  verifiedPlan = "full" \/ Marked = {}
  <2>1. access.status # "trialing"
    BY <1>1, <1>2, <1>8, NotOnTrial
  <2>2. CASE TrialStillRunning(subscription.trialEndsAt, now)
    <3>1. ~TrialIsPast
      BY <1>1, <2>2 DEF TrialStillRunning, TrialIsPast, SubscriptionRow, Date
    <3>. QED BY <3>1 DEF SuspendedByChoice, Marked
  <2>3. CASE ~TrialStillRunning(subscription.trialEndsAt, now)
    BY <1>1, <1>3, <1>8, <2>1, <2>3 DEF EffectivePlanId, StoredPlanId
  <2>. QED BY <2>2, <2>3
<1>9. ASSUME verifiedPlan = "full", subscription.currentPeriodEnd > now
      PROVE  BringsThemBack(context)
  <2>1. AccessEndOf(subscription.trialEndsAt, subscription.currentPeriodEnd) > now
    BY <1>1, <1>9 DEF AccessEndOf, Later, SubscriptionRow, Date
  <2>2. access.canOperate
    BY <1>1, <1>2, <2>1, CanOperate
  <2>. QED BY <1>3, <1>5, <1>9, <2>2 DEF BringsThemBack
<1>. QED BY <1>3, <1>6, <1>7, <1>8, <1>9

LEMMA FillContextSound ==
  ASSUME TypeOK, SuspendedByChoice, TeamIsSound, OneAtATime, NEW p \in Request,
         FillContext(p)
  PROVE  TeamIsSound'
<1>1. local[p] \in Local /\ Sound(local[p])
  BY LocalType DEF TeamIsSound
<1>2. /\ local[p].step = "fillContext" /\ local[p].subscription = subscription
      /\ local[p].paidPlanId = verifiedPlan
  BY <1>1 DEF FillContext, At, Sound, PaymentIsFresh
<1>3. local[p].pending \in BOOLEAN /\ (local[p].pending <=> reportedPlan # "none")
  BY <1>1, LocalType DEF FillContext, At, Sound, PaymentIsFresh
<1>4. PICK context : context = ComputeContext(subscription, local[p].pending, verifiedPlan)
  OBVIOUS
<1>5. ~Advancing
  BY <1>2, Alone DEF At
<1>6. PICK next : next = [local[p] EXCEPT !.step = "decide", !.context = context,
                            !.subscription = NoSubscription, !.pending = FALSE,
                            !.paidPlanId = "none"]
  OBVIOUS
<1>7. /\ next.step = "decide" /\ next.context = context /\ next.row = local[p].row
      /\ next.operation = local[p].operation /\ next.id = local[p].id
  BY <1>1, <1>6 DEF Local
<1>8. Goto(p, next) /\ UNCHANGED <<now, payment, worker>>
  BY <1>2, <1>4, <1>6 DEF FillContext
<1>9. cache' = cache \/ cache' = [expiresAt |-> now + CacheTtl, context |-> context]
  BY <1>2, <1>4 DEF FillContext
<1>10. local'[p] = next
  BY <1>8 DEF Goto, TypeOK
<1>11. /\ ~context.canOperate =>
            ~ResolveAccess(now, subscription, reportedPlan # "none").canOperate
       /\ NeedsNoChoice(context)
       /\ verifiedPlan # "none" /\ context.planId = "full" =>
            verifiedPlan = "full" \/ Marked = {}
       /\ verifiedPlan = "full" /\ subscription.currentPeriodEnd > now =>
            BringsThemBack(context)
       /\ context.activeWorkers = BookableWorkers
  BY <1>3, <1>4, <1>5, ContextIsTrue
<1>12. Sound(next)
  <2>1. RowIsFresh(next) /\ PaymentIsFresh(next)
    BY <1>1, <1>7 DEF Sound, RowIsFresh, PaymentIsFresh
  <2>2. ChoiceIsDue(next)
    BY <1>7, <1>11 DEF ChoiceIsDue
  <2>3. ReturnIsSound(next)
    BY <1>1, <1>2, <1>7, <1>11 DEF Sound, ReturnIsSound
  <2>. QED BY <2>1, <2>2, <2>3 DEF Sound
<1>13. Sound(next)'
  BY <1>8, <1>12, SoundIsStable
<1>14. (\A q \in Request : Sound(local[q]))'
  BY <1>8, <1>13, SoundForAll
<1>15. /\ subscription' = subscription /\ reportedPlan' = reportedPlan
       /\ verifiedPlan' = verifiedPlan /\ now' = now /\ worker' = worker
  BY <1>8 DEF payment
<1>16. ~Advancing'
  BY <1>7, <1>10, Alone DEF At
<1>17. MarksFit' /\ PeriodsFit'
  BY <1>5, <1>15 DEF TeamIsSound, MarksFit, PeriodsFit
<1>18. CacheIsTrue'
  <2>1. CASE cache' = cache
    BY <1>5, <1>15, <2>1 DEF TeamIsSound, CacheIsTrue, NeedsNoChoice
  <2>2. CASE cache' = [expiresAt |-> now + CacheTtl, context |-> context]
    BY <1>11, <1>15, <2>2 DEF CacheIsTrue, NeedsNoChoice
  <2>. QED BY <1>9, <2>1, <2>2
<1>19. FullSuspendsNobody'
  <2>1. Returning' <=> Returning
    BY <1>2, <1>7, <1>10, Alone DEF At
  <2>2. Marked' = Marked
    BY <1>15 DEF Marked
  <2>. QED BY <1>15, <2>1, <2>2 DEF TeamIsSound, FullSuspendsNobody
<1>. QED BY <1>14, <1>17, <1>18, <1>19 DEF TeamIsSound

LEMMA DecisionsSound ==
  ASSUME TypeOK, SuspendedByChoice, TeamIsSound, OneAtATime, NEW p \in Request,
         ScreenShown(p) \/ AssertCanOperate(p) \/ CountWorkers(p) \/ CheckSelection(p)
  PROVE  TeamIsSound'
<1>1. local[p] \in Local /\ Sound(local[p])
  BY LocalType DEF TeamIsSound
<1>2. /\ local[p].operation # "restoreSuspended" /\ ~At(p, "advance")
      /\ UNCHANGED <<now, payment, worker, cache>>
  BY <1>1, LocalType
  DEF ScreenShown, AssertCanOperate, CountWorkers, CheckSelection, At, Sound, ReturnIsSound
<1>3. CASE Goto(p, Idle)
  <2>1. Idle.step # "advance"
    BY DEF Idle
  <2>. QED BY <1>2, <1>3, <2>1, IdleSound, MemorySound
<1>4. CASE AssertCanOperate(p) /\ ~Goto(p, Idle)
  <2>1. PICK next : next = [local[p] EXCEPT !.step = "countWorkers"]
    OBVIOUS
  <2>2. /\ next.step = "countWorkers" /\ next.context = local[p].context
        /\ next.row = local[p].row
        /\ next.operation = local[p].operation /\ next.id = local[p].id
    BY <1>1, <2>1 DEF Local
  <2>3. Sound(next)
    BY <1>1, <1>2, <2>2 DEF Sound, RowIsFresh, PaymentIsFresh, ChoiceIsDue, ReturnIsSound
  <2>. QED BY <1>2, <1>4, <2>1, <2>2, <2>3, MemorySound DEF AssertCanOperate, Finish
<1>5. CASE CountWorkers(p) /\ ~Goto(p, Idle)
  <2>1. PICK next : next = [local[p] EXCEPT !.step = "write"]
    OBVIOUS
  <2>2. /\ next.step = "write" /\ next.context = local[p].context
        /\ next.row = local[p].row
        /\ next.operation = local[p].operation /\ next.id = local[p].id
    BY <1>1, <2>1 DEF Local
  <2>3. HasRoom(next.context) /\ Goto(p, next)
    BY <1>5, <2>1, <2>2 DEF CountWorkers, Finish
  <2>4. Sound(next)
    BY <1>1, <1>2, <2>2, <2>3 DEF Sound, RowIsFresh, PaymentIsFresh, ChoiceIsDue, ReturnIsSound
  <2>. QED BY <1>2, <2>2, <2>3, <2>4, MemorySound
<1>6. CASE CheckSelection(p) /\ ~Goto(p, Idle)
  <2>1. PICK next : next = [local[p] EXCEPT !.step = "suspend"]
    OBVIOUS
  <2>2. /\ next.step = "suspend" /\ next.context = local[p].context
        /\ next.row = local[p].row
        /\ next.operation = local[p].operation /\ next.id = local[p].id
    BY <1>1, <2>1 DEF Local
  <2>3. local[p].operation = "select" /\ local[p].step = "decide" /\ Goto(p, next)
    BY <1>6, <2>1 DEF CheckSelection, Finish, At
  <2>4. Sound(next)
    BY <1>1, <1>2, <2>2, <2>3 DEF Sound, RowIsFresh, PaymentIsFresh, ChoiceIsDue, ReturnIsSound
  <2>. QED BY <1>2, <2>2, <2>3, <2>4, MemorySound
<1>. QED BY <1>3, <1>4, <1>5, <1>6 DEF ScreenShown, Finish

\* A request that ends by writing to the team.
LEMMA WrittenSound ==
  ASSUME TypeOK, TeamIsSound, OneAtATime, NEW p \in Request, Finish(p),
         UNCHANGED <<now, payment>>, ~At(p, "advance"),
         cache' = cache \/ cache' = NoEntry,
         MarksFit', FullSuspendsNobody'
  PROVE  TeamIsSound'
<1>1. Goto(p, Idle) /\ local'[p] = Idle
  BY DEF Finish, Goto, TypeOK
<1>2. Sound(Idle)'
  BY DEF Sound, RowIsFresh, PaymentIsFresh, ChoiceIsDue, ReturnIsSound, Idle
<1>3. (\A q \in Request : Sound(local[q]))'
  BY <1>1, <1>2, SoundForAll
<1>4. ~Advancing /\ ~Advancing'
  BY <1>1, Alone DEF At, Idle
<1>5. /\ subscription' = subscription /\ reportedPlan' = reportedPlan
      /\ verifiedPlan' = verifiedPlan /\ now' = now
  BY DEF payment
<1>6. PeriodsFit' /\ CacheIsTrue'
  BY <1>4, <1>5 DEF TeamIsSound, PeriodsFit, CacheIsTrue, NeedsNoChoice, NoEntry
<1>. QED BY <1>3, <1>6 DEF TeamIsSound

LEMMA MarksAreWorkers == Marked \subseteq WorkerId
BY DEF Marked

\* What a write leaves: the same marks, and at most one more in the team, for
\* whom there was room.
LEMMA WriteWorkerEffect ==
  ASSUME TypeOK, TeamIsSound, NEW p \in Request, WriteWorker(p)
  PROVE  /\ \A w \in WorkerId : worker'[w].planSuspended = worker[w].planSuspended
         /\ MarksFit'
         /\ Candidates' \subseteq Candidates
              \/ /\ Candidates' \subseteq Candidates \cup {local[p].id}
                 /\ HasRoom(local[p].context)
<1>1. Sound(local[p]) /\ local[p].operation \in {"add", "save", "update", "activate"}
  BY DEF TeamIsSound, WriteWorker, At, TypeOK, NamesItsWorker
<1>2. PICK w \in WorkerId : w = local[p].id
  BY <1>1, LocalType DEF TypeOK, NamesItsWorker
<1>3. PICK row \in WorkerRow : row = local[p].row
  BY LocalType
<1>4. /\ row.planSuspended = worker[w].planSuspended
      /\ row.planSuspended => /\ row.kept # "absent"
                              /\ row.kept = "present" \/ ~row.isActive
      /\ \/ HasRoom(local[p].context)
         \/ Bookable(row) /\ ~row.planSuspended => w \in Candidates
      /\ local[p].operation = "update" => row = [worker[w] EXCEPT !.isActive = row.isActive]
  BY <1>1, <1>2, <1>3 DEF WriteWorker, At, Sound, RowIsFresh
<1>5. worker' = [worker EXCEPT ![w] = row]
  BY <1>2, <1>3, <1>4 DEF WriteWorker
<1>6. /\ worker'[w] = row
      /\ \A v \in WorkerId : v # w => worker'[v] = worker[v]
  BY <1>5 DEF TypeOK
<1>7. \A v \in WorkerId : worker'[v].planSuspended = worker[v].planSuspended
  BY <1>4, <1>6
<1>8. MarksFit'
  BY <1>4, <1>6 DEF TeamIsSound, MarksFit
<1>9. ASSUME NEW v \in Candidates', v # w PROVE v \in Candidates
  BY <1>6, <1>9 DEF Candidates, Bookable
<1>10. w \in Candidates' => Bookable(row) /\ ~row.planSuspended
  BY <1>6 DEF Candidates, Bookable
<1>. QED BY <1>2, <1>4, <1>7, <1>8, <1>9, <1>10

LEMMA WriteWorkerSound ==
  ASSUME TypeOK, TeamIsSound, OneAtATime, NEW p \in Request, WriteWorker(p)
  PROVE  TeamIsSound'
<1>1. Marked' = Marked /\ MarksFit'
  BY WriteWorkerEffect DEF Marked
<1>2. /\ local[p].operation \in {"add", "save", "update", "activate"}
      /\ local[p].step = "write"
  BY DEF TypeOK, WriteWorker, At, NamesItsWorker
<1>3. ~Returning
  BY <1>2, Alone DEF At
<1>4. FullSuspendsNobody'
  BY <1>1, <1>3 DEF TeamIsSound, FullSuspendsNobody, WriteWorker, payment
<1>. QED BY <1>1, <1>2, <1>4, WrittenSound DEF WriteWorker, payment, At

LEMMA SuspendTheRestSound ==
  ASSUME TypeOK, SuspendedByChoice, TeamIsSound, OneAtATime, NEW p \in Request,
         SuspendTheRest(p)
  PROVE  TeamIsSound'
<1>1. /\ Sound(local[p]) /\ local[p].step = "suspend" /\ local[p].operation = "select"
  BY DEF TeamIsSound, Sound, ReturnIsSound, SuspendTheRest, At
<1>2. local[p].context.selectionRequired
  BY <1>1 DEF SuspendedByChoice, DecidedAfterTrial
<1>3. ~(verifiedPlan = "full" /\ RoomForAll)
  BY <1>1, <1>2 DEF Sound, ChoiceIsDue, NeedsNoChoice
<1>4. FullSuspendsNobody'
  BY <1>3 DEF FullSuspendsNobody, SuspendTheRest, payment, RoomForAll
<1>5. MarksFit'
  <2>1. CASE UNCHANGED worker
    BY <2>1 DEF TeamIsSound, MarksFit
  <2>2. CASE worker' # worker
    <3>1. worker' = [w \in WorkerId |->
                       IF \/ w \in Candidates \ local[p].ids
                          \/ Inactive(worker[w]) /\ worker[w].kept = "present"
                       THEN [worker[w] EXCEPT !.planSuspended = TRUE]
                       ELSE worker[w]]
      BY <2>2 DEF SuspendTheRest
    <3>2. ASSUME NEW w \in WorkerId, worker'[w].planSuspended
          PROVE  /\ worker'[w].kept # "absent"
                 /\ worker'[w].kept = "present" \/ ~worker'[w].isActive
      <4>1. worker[w] \in WorkerRow
        BY DEF TypeOK
      <4>2. CASE \/ w \in Candidates \ local[p].ids
                 \/ Inactive(worker[w]) /\ worker[w].kept = "present"
        <5>1. worker'[w] = [worker[w] EXCEPT !.planSuspended = TRUE]
          BY <3>1, <4>2
        <5>2. worker'[w].kept = worker[w].kept
          BY <4>1, <5>1 DEF WorkerRow
        <5>3. worker[w].kept = "present"
          BY <4>2 DEF Candidates, Bookable
        <5>. QED BY <5>2, <5>3
      <4>3. CASE ~(\/ w \in Candidates \ local[p].ids
                   \/ Inactive(worker[w]) /\ worker[w].kept = "present")
        <5>1. worker'[w] = worker[w]
          BY <3>1, <4>3
        <5>. QED BY <3>2, <5>1 DEF TeamIsSound, MarksFit
      <4>. QED BY <4>2, <4>3
    <3>. QED BY <3>2 DEF MarksFit
  <2>. QED BY <2>1, <2>2
<1>. QED BY <1>1, <1>4, <1>5, WrittenSound DEF SuspendTheRest, Invalidate, At

\* Bringing workers back takes marks away and nothing else.
Unmarks(S) ==
  worker' = [w \in WorkerId |->
    IF w \in S THEN [worker[w] EXCEPT !.planSuspended = FALSE] ELSE worker[w]]

LEMMA UnmarkEffect ==
  ASSUME TypeOK, TeamIsSound, NEW S, Unmarks(S)
  PROVE  /\ MarksFit' /\ Marked' = Marked \ S
         /\ \A w \in WorkerId : Bookable(worker[w])' <=> Bookable(worker[w])
<1>1. ASSUME NEW w \in WorkerId
      PROVE  /\ worker'[w].kept = worker[w].kept
             /\ worker'[w].isActive <=> worker[w].isActive
             /\ worker'[w].planSuspended <=> worker[w].planSuspended /\ w \notin S
  <2>1. worker[w] \in WorkerRow
    BY DEF TypeOK
  <2>2. CASE w \in S
    <3>1. worker'[w] = [worker[w] EXCEPT !.planSuspended = FALSE]
      BY <2>2 DEF Unmarks
    <3>. QED BY <2>1, <2>2, <3>1 DEF WorkerRow
  <2>3. CASE w \notin S
    BY <2>3 DEF Unmarks
  <2>. QED BY <2>2, <2>3
<1>2. MarksFit'
  BY <1>1 DEF TeamIsSound, MarksFit
<1>3. Marked' = Marked \ S
  BY <1>1 DEF Marked
<1>4. \A w \in WorkerId : Bookable(worker[w])' <=> Bookable(worker[w])
  BY <1>1 DEF Bookable
<1>. QED BY <1>2, <1>3, <1>4

LEMMA RestoreInactiveSound ==
  ASSUME TypeOK, TeamIsSound, OneAtATime, NEW p \in Request, RestoreInactive(p)
  PROVE  TeamIsSound'
<1>1. /\ local[p] \in Local /\ Sound(local[p])
      /\ local[p].operation = "restoreSuspended" /\ local[p].step = "decide"
      /\ UNCHANGED <<now, payment, cache>>
  BY LocalType DEF TeamIsSound, RestoreInactive, At
<1>2. /\ verifiedPlan # "none"
      /\ local[p].context.planId = "full" => verifiedPlan = "full" \/ Marked = {}
      /\ verifiedPlan = "full" /\ subscription.currentPeriodEnd > now =>
           BringsThemBack(local[p].context)
      /\ local[p].context.activeWorkers = BookableWorkers
  BY <1>1 DEF Sound, ReturnIsSound
<1>3. CASE ~BringsThemBack(local[p].context)
  <2>1. NobodyLeftBehind
    BY <1>2, <1>3 DEF NobodyLeftBehind
  <2>2. Goto(p, Idle) /\ UNCHANGED worker /\ Idle.step # "advance"
    BY <1>3 DEF RestoreInactive, Finish, Idle
  <2>. QED BY <1>1, <2>1, <2>2, IdleSound, MemorySound DEF At
<1>4. CASE BringsThemBack(local[p].context)
  <2>. DEFINE S == {w \in WorkerId : worker[w].kept # "absent" /\ Inactive(worker[w])}
  <2>1. Unmarks(S)
    BY <1>4 DEF RestoreInactive, Unmarks
  <2>2. S \cap Candidates = {} /\ S \cap Suspended = {} /\ Marked \ S \subseteq Suspended
    <3>1. S \cap Candidates = {} /\ S \cap Suspended = {}
      BY DEF Candidates, Suspended, Bookable, Inactive
    <3>2. ASSUME NEW w \in Marked \ S PROVE w \in Suspended
      BY <3>2 DEF Marked, Inactive, TeamIsSound, MarksFit, Suspended, Bookable
    <3>. QED BY <3>1, <3>2
  <2>. HIDE DEF S
  <2>3. MarksFit' /\ Marked' = Marked \ S
    BY <2>1, UnmarkEffect
  <2>4. \A w \in WorkerId : Bookable(worker[w])' <=> Bookable(worker[w])
    BY <2>1, UnmarkEffect
  <2>5. \A w \in WorkerId : w \in Marked' <=> w \in Marked /\ w \notin S
    BY <2>3
  <2>6. Candidates' = Candidates
    <3>1. \A w \in WorkerId : worker'[w].planSuspended <=> worker[w].planSuspended /\ w \notin S
      BY <2>5 DEF Marked
    <3>2. ASSUME NEW w \in WorkerId PROVE w \in Candidates' <=> w \in Candidates
      <4>1. w \in Candidates' <=> Bookable(worker[w])' /\ ~worker'[w].planSuspended
        BY DEF Candidates
      <4>2. w \in Candidates <=> Bookable(worker[w]) /\ ~worker[w].planSuspended
        BY DEF Candidates
      <4>3. w \in S => ~Bookable(worker[w])
        BY DEF S, Bookable, Inactive
      <4>. QED BY <4>1, <4>2, <4>3, <2>4, <3>1
    <3>. QED BY <3>2 DEF Candidates
  <2>7. Suspended' = Suspended
    <3>1. \A w \in WorkerId : worker'[w].planSuspended <=> worker[w].planSuspended /\ w \notin S
      BY <2>5 DEF Marked
    <3>2. ASSUME NEW w \in WorkerId PROVE w \in Suspended' <=> w \in Suspended
      <4>1. w \in Suspended' <=> Bookable(worker[w])' /\ worker'[w].planSuspended
        BY DEF Suspended
      <4>2. w \in Suspended <=> Bookable(worker[w]) /\ worker[w].planSuspended
        BY DEF Suspended
      <4>3. w \in S => ~Bookable(worker[w])
        BY DEF S, Bookable, Inactive
      <4>. QED BY <4>1, <4>2, <4>3, <2>4, <3>1
    <3>. QED BY <3>2 DEF Suspended
  <2>8. BookableWorkers' = BookableWorkers
    BY <2>6 DEF BookableWorkers
  <2>9. local[p].context.planId = "full"
    BY <1>4 DEF BringsThemBack
  <2>10. /\ subscription' = subscription /\ reportedPlan' = reportedPlan
         /\ verifiedPlan' = verifiedPlan /\ now' = now /\ cache' = cache
    BY <1>1 DEF payment
  <2>11. CASE local[p].context.activeWorkers < Limit[local[p].context.planId]
    <3>1. PICK next : next = [local[p] EXCEPT !.step = "findSuspended"]
      OBVIOUS
    <3>2. /\ next.step = "findSuspended" /\ next.context = local[p].context
          /\ next.operation = "restoreSuspended"
      BY <1>1, <3>1 DEF Local
    <3>3. Goto(p, next)
      BY <1>4, <2>11, <3>1 DEF RestoreInactive
    <3>4. ReturnIsSound(next)'
      BY <1>2, <2>2, <2>3, <2>7, <2>8, <2>9, <2>10, <3>2 DEF ReturnIsSound
    <3>5. RowIsFresh(next)' /\ PaymentIsFresh(next)' /\ ChoiceIsDue(next)'
      BY <3>2 DEF RowIsFresh, PaymentIsFresh, ChoiceIsDue
    <3>6. (\A q \in Request : Sound(local[q]))'
      BY <3>3, <3>4, <3>5, SoundForAll DEF Sound
    <3>7. local'[p] = next
      BY <3>3 DEF Goto, TypeOK
    <3>8. ~Advancing /\ ~Advancing' /\ Returning'
      BY <1>1, <3>2, <3>7, Alone DEF At
    <3>9. PeriodsFit' /\ CacheIsTrue' /\ FullSuspendsNobody'
      BY <2>10, <3>8
      DEF TeamIsSound, PeriodsFit, CacheIsTrue, NeedsNoChoice, FullSuspendsNobody
    <3>. QED BY <2>3, <3>6, <3>9 DEF TeamIsSound
  <2>12. CASE ~(local[p].context.activeWorkers < Limit[local[p].context.planId])
    <3>1. Finish(p)
      BY <1>4, <2>12 DEF RestoreInactive
    <3>2. RoomForAll => Marked' = {}
      <4>. SUFFICES ASSUME RoomForAll PROVE Suspended = {}
        BY <2>2, <2>3
      <4>1. BookableWorkers >= MaxWorkers
        BY <1>2, <2>9, <2>12, TeamFits, TeamAssumption DEF RoomForAll, PaidPlan
      <4>2. Cardinality(Suspended) = 0
        BY <4>1, TeamFits, TeamAssumption
      <4>. QED BY <4>2, TeamFits, FS_EmptySet
    <3>3. FullSuspendsNobody'
      BY <3>2 DEF FullSuspendsNobody, RoomForAll
    <3>. QED BY <1>1, <2>3, <3>1, <3>3, WrittenSound DEF At
  <2>. QED BY <2>11, <2>12
<1>. QED BY <1>3, <1>4

\* Whoever fits is among the oldest.
LEMMA AllAreOldest ==
  ASSUME NEW S \in SUBSET WorkerId, NEW n \in Nat, Cardinality(S) <= n
  PROVE  Oldest(S, n) = S
<1>. SUFFICES ASSUME NEW w \in S PROVE w \in Oldest(S, n)
  BY DEF Oldest
<1>. DEFINE before == {v \in S : v < w}
<1>1. IsFiniteSet(S)
  BY TeamFits, FS_Subset
<1>2. before \subseteq S /\ before # S
  BY TeamAssumption DEF WorkerId
<1>. HIDE DEF before
<1>3. /\ IsFiniteSet(before) /\ Cardinality(before) <= Cardinality(S)
      /\ Cardinality(before) # Cardinality(S)
  BY <1>1, <1>2, FS_Subset
<1>4. Cardinality(before) \in Nat /\ Cardinality(S) \in Nat
  BY <1>1, <1>3, FS_CardinalityType
<1>5. Cardinality(before) < n
  BY <1>3, <1>4
<1>. QED BY <1>5 DEF Oldest, before

LEMMA FindSuspendedSound ==
  ASSUME TypeOK, TeamIsSound, OneAtATime, NEW p \in Request, FindSuspended(p)
  PROVE  TeamIsSound'
<1>1. /\ local[p] \in Local /\ Sound(local[p]) /\ local[p].step = "findSuspended"
      /\ UNCHANGED <<now, payment, worker, cache>>
  BY LocalType DEF TeamIsSound, FindSuspended, At
<1>2. local[p].operation = "restoreSuspended"
  BY <1>1 DEF Sound, ReturnIsSound
<1>3. /\ local[p].context.activeWorkers = BookableWorkers
      /\ local[p].context.planId = "full" /\ Marked \subseteq Suspended
      /\ verifiedPlan # "none" /\ (verifiedPlan = "full" \/ Marked = {})
  BY <1>1, <1>2 DEF Sound, ReturnIsSound
<1>4. PICK free : free = Limit["full"] - BookableWorkers
  OBVIOUS
<1>5. PICK back : back = Oldest(Suspended, free)
  OBVIOUS
<1>6. RoomForAll => back = Suspended
  <2>. SUFFICES ASSUME RoomForAll PROVE back = Suspended
    OBVIOUS
  <2>1. free \in Nat /\ Cardinality(Suspended) <= free
    BY <1>4, TeamFits, TeamAssumption DEF RoomForAll, PaidPlan
  <2>2. Suspended \subseteq WorkerId
    BY DEF Suspended
  <2>. QED BY <1>5, <2>1, <2>2, AllAreOldest
<1>7. CASE back = {}
  <2>1. Goto(p, Idle) /\ Idle.step # "advance"
    BY <1>3, <1>4, <1>5, <1>7 DEF FindSuspended, Finish, Idle
  <2>2. NobodyLeftBehind
    BY <1>3, <1>6, <1>7 DEF NobodyLeftBehind
  <2>. QED BY <1>1, <2>1, <2>2, IdleSound, MemorySound DEF At
<1>8. CASE back # {}
  <2>1. PICK next : next = [local[p] EXCEPT !.step = "reactivate", !.ids = back]
    OBVIOUS
  <2>2. /\ next.step = "reactivate" /\ next.operation = "restoreSuspended"
        /\ next.ids = back
    BY <1>1, <1>2, <2>1 DEF Local
  <2>3. Goto(p, next)
    BY <1>3, <1>4, <1>5, <1>8, <2>1 DEF FindSuspended
  <2>4. Sound(next)
    BY <1>3, <1>6, <2>2 DEF Sound, RowIsFresh, PaymentIsFresh, ChoiceIsDue, ReturnIsSound
  <2>. QED BY <1>1, <2>2, <2>3, <2>4, MemorySound DEF At
<1>. QED BY <1>7, <1>8

LEMMA ReactivateSound ==
  ASSUME TypeOK, TeamIsSound, OneAtATime, NEW p \in Request, Reactivate(p)
  PROVE  TeamIsSound'
<1>1. Sound(local[p]) /\ local[p].step = "reactivate"
  BY DEF TeamIsSound, Reactivate, At
<1>2. RoomForAll => Marked \subseteq local[p].ids
  BY <1>1 DEF Sound, ReturnIsSound
<1>3. Unmarks(local[p].ids)
  BY DEF Reactivate, Unmarks
<1>4. MarksFit' /\ Marked' = Marked \ local[p].ids
  BY <1>3, UnmarkEffect
<1>5. FullSuspendsNobody'
  BY <1>2, <1>4 DEF FullSuspendsNobody, RoomForAll
<1>. QED BY <1>1, <1>4, <1>5, WrittenSound DEF Reactivate, Invalidate, At

LEMMA AdvanceSound ==
  ASSUME TypeOK, TeamIsSound, OneAtATime, NEW p \in Request, AdvanceSubscription(p)
  PROVE  TeamIsSound'
<1>1. Sound(local[p]) /\ local[p].step = "advance"
  BY DEF TeamIsSound, AdvanceSubscription, At
<1>2. /\ local[p].subscription = subscription /\ verifiedPlan # "none"
  BY <1>1 DEF Sound, PaymentIsFresh
<1>3. PICK end : end = PeriodCoverage(now, subscription.currentPeriodEnd,
                                      subscription.trialEndsAt).to
  OBVIOUS
<1>4. subscription \in SubscriptionRow /\ now \in Nat
  BY DEF TypeOK
<1>5. end > subscription.trialEndsAt /\ end # NoDate
  BY <1>3, <1>4, PeriodAssumption
  DEF PeriodCoverage, AddMonth, Later, NoDate, SubscriptionRow, Date
<1>6. /\ subscription'.currentPeriodEnd = end
      /\ subscription'.trialEndsAt = subscription.trialEndsAt
      /\ subscription'.status = "active"
      /\ subscription'.billingExempt = subscription.billingExempt
  BY <1>2, <1>3, <1>4 DEF AdvanceSubscription, SubscriptionRow
<1>7. Goto(p, StartRestoring) /\ UNCHANGED <<now, reportedPlan, verifiedPlan, worker>>
      /\ cache' = NoEntry
  BY DEF AdvanceSubscription, Invalidate
<1>8. local'[p] = StartRestoring
  BY <1>7 DEF Goto, TypeOK
<1>9. PICK next : next = StartRestoring
  OBVIOUS
<1>10. next.step = "readSubscription" /\ next.operation = "restoreSuspended"
  BY <1>9 DEF StartRestoring, Idle
<1>11. Sound(next)'
  BY <1>2, <1>7, <1>10 DEF Sound, RowIsFresh, PaymentIsFresh, ChoiceIsDue, ReturnIsSound
<1>12. (\A q \in Request : Sound(local[q]))'
  BY <1>7, <1>9, <1>11, SoundForAll
<1>13. Returning'
  BY <1>8, <1>9, <1>10, Alone
<1>14. MarksFit' /\ CacheIsTrue' /\ FullSuspendsNobody'
  BY <1>7, <1>13 DEF TeamIsSound, MarksFit, CacheIsTrue, FullSuspendsNobody, NoEntry
<1>15. PeriodsFit'
  BY <1>5, <1>6 DEF TeamIsSound, PeriodsFit
<1>. QED BY <1>12, <1>14, <1>15 DEF TeamIsSound

LEMMA VerifySound ==
  ASSUME TypeOK, TeamIsSound, OneAtATime, NEW p \in Request, NEW byHand \in BOOLEAN,
         VerifyPayment(p, byHand)
  PROVE  TeamIsSound'
<1>1. PICK next : next = [Idle EXCEPT !.step = "advance", !.subscription = subscription,
                                      !.paidPlanId = reportedPlan]
  OBVIOUS
<1>2. /\ next.step = "advance" /\ next.subscription = subscription
      /\ next.paidPlanId = reportedPlan /\ next.operation = "none"
  BY <1>1 DEF Idle
<1>3. /\ Goto(p, next) /\ verifiedPlan' = reportedPlan /\ reportedPlan # "none"
      /\ UNCHANGED <<now, subscription, worker>>
  BY <1>1 DEF VerifyPayment
<1>4. Sound(next)'
  BY <1>2, <1>3 DEF Sound, RowIsFresh, PaymentIsFresh, ChoiceIsDue, ReturnIsSound
<1>5. (\A q \in Request : Sound(local[q]))'
  BY <1>3, <1>4, SoundForAll
<1>6. local'[p] = next
  BY <1>3 DEF Goto, TypeOK
<1>7. Advancing' /\ Returning'
  BY <1>2, <1>6, Alone DEF At
<1>8. MarksFit' /\ PeriodsFit' /\ CacheIsTrue' /\ FullSuspendsNobody'
  BY <1>3, <1>7
  DEF TeamIsSound, MarksFit, PeriodsFit, CacheIsTrue, FullSuspendsNobody
<1>. QED BY <1>5, <1>8 DEF TeamIsSound

\* An answer or a choice that no request carries on.
LEMMA AnswerSound ==
  ASSUME TypeOK, TeamIsSound, OneAtATime, NEW p \in Request,
         \/ \E planId \in PaidPlan : ChoosePlan(p, planId)
         \/ ReportPayment(p)
         \/ \E byHand \in BOOLEAN : RejectPayment(p, byHand)
  PROVE  TeamIsSound'
<1>1. /\ At(p, "idle") /\ UNCHANGED <<now, verifiedPlan, worker, local>>
      /\ reportedPlan' = reportedPlan \/ reportedPlan' = "none" \/ cache' = NoEntry
      /\ cache' = NoEntry \/ UNCHANGED <<subscription, cache>>
      /\ subscription'.currentPeriodEnd = subscription.currentPeriodEnd
      /\ subscription'.trialEndsAt = subscription.trialEndsAt
      /\ subscription'.status = subscription.status
      /\ subscription'.billingExempt = subscription.billingExempt
  BY DEF ChoosePlan, ReportPayment, RejectPayment, Arrives, Invalidate, TypeOK, SubscriptionRow
<1>2. local[p].operation # "restoreSuspended" /\ ~At(p, "advance")
  BY <1>1, IdleOwesNothing
<1>3. PICK next : next = local[p]
  OBVIOUS
<1>4. Sound(next) /\ next.step = "idle" /\ next.operation # "restoreSuspended"
  BY <1>1, <1>2, <1>3 DEF TeamIsSound, At
<1>5. BookableWorkers' = BookableWorkers /\ Candidates' = Candidates /\ Marked' = Marked
  BY <1>1 DEF BookableWorkers, Candidates, Bookable, Marked
<1>6. Sound(next)'
  BY <1>1, <1>4, <1>5
  DEF Sound, RowIsFresh, PaymentIsFresh, ChoiceIsDue, ReturnIsSound, HasRoom
<1>7. Goto(p, next)
  BY <1>1, <1>3 DEF Goto, TypeOK
<1>8. (\A q \in Request : Sound(local[q]))'
  BY <1>6, <1>7, SoundForAll
<1>9. ~Advancing /\ ~Advancing' /\ (Returning' <=> Returning)
  BY <1>1, <1>2, Alone DEF At
<1>10. MarksFit' /\ PeriodsFit' /\ FullSuspendsNobody'
  BY <1>1, <1>5, <1>9 DEF TeamIsSound, MarksFit, PeriodsFit, FullSuspendsNobody
<1>11. CacheIsTrue'
  <2>1. CASE cache' = NoEntry
    BY <2>1 DEF CacheIsTrue, NoEntry
  <2>2. CASE /\ UNCHANGED <<subscription, cache>>
             /\ reportedPlan' = reportedPlan \/ reportedPlan' = "none"
    <3>1. subscription \in SubscriptionRow /\ now \in Nat /\ now <= now
      BY DEF TypeOK
    <3>2. ASSUME ~ResolveAccess(now, subscription, reportedPlan # "none").canOperate
          PROVE  ~ResolveAccess(now, subscription, reportedPlan' # "none").canOperate
      BY <2>2, <3>1, <3>2, AccessFalls
    <3>. QED
      BY <1>1, <1>9, <2>2, <3>2 DEF TeamIsSound, CacheIsTrue, NeedsNoChoice
  <2>. QED BY <1>1, <2>1, <2>2
<1>. QED BY <1>8, <1>10, <1>11 DEF TeamIsSound

LEMMA TickSound ==
  ASSUME TypeOK, TeamIsSound, Tick
  PROVE  TeamIsSound'
<1>1. /\ subscription' = subscription /\ reportedPlan' = reportedPlan
      /\ verifiedPlan' = verifiedPlan /\ worker' = worker /\ cache' = cache /\ local' = local
      /\ now' = now + 1
  BY DEF Tick, payment
<1>2. subscription \in SubscriptionRow /\ now \in Nat
  BY DEF TypeOK
<1>3. /\ Candidates' = Candidates /\ Suspended' = Suspended /\ Marked' = Marked
      /\ BookableWorkers' = BookableWorkers
  BY <1>1 DEF Candidates, Suspended, Marked, BookableWorkers, Bookable
<1>4. subscription.currentPeriodEnd > now' => subscription.currentPeriodEnd > now
  BY <1>1, <1>2 DEF SubscriptionRow, Date
<1>5. ASSUME NEW p \in Request PROVE Sound(local[p])'
  <2>1. PICK next : next = local[p]
    OBVIOUS
  <2>2. Sound(next) /\ local'[p] = next
    BY <1>1, <2>1 DEF TeamIsSound
  <2>3. RowIsFresh(next)'
    BY <1>1, <1>3, <2>2 DEF Sound, RowIsFresh, HasRoom
  <2>4. PaymentIsFresh(next)' /\ ChoiceIsDue(next)'
    BY <1>1, <2>2 DEF Sound, PaymentIsFresh, ChoiceIsDue, NeedsNoChoice
  <2>5. ReturnIsSound(next)'
    BY <1>1, <1>3, <1>4, <2>2 DEF Sound, ReturnIsSound, BringsThemBack
  <2>6. RowIsFresh(local[p])'
    BY <2>2, <2>3 DEF RowIsFresh
  <2>7. PaymentIsFresh(local[p])' /\ ChoiceIsDue(local[p])'
    BY <2>2, <2>4 DEF PaymentIsFresh, ChoiceIsDue
  <2>8. ReturnIsSound(local[p])'
    BY <2>2, <2>5 DEF ReturnIsSound
  <2>. QED BY <2>6, <2>7, <2>8 DEF Sound
<1>6. MarksFit' /\ PeriodsFit'
  BY <1>1 DEF TeamIsSound, MarksFit, PeriodsFit, Advancing, At
<1>7. CacheIsTrue'
  <2>1. ASSUME ~ResolveAccess(now, subscription, reportedPlan # "none").canOperate
        PROVE  ~ResolveAccess(now', subscription, reportedPlan # "none").canOperate
    <3>1. now' \in Nat /\ now <= now'
      BY <1>1, <1>2
    <3>2. PICK pending \in BOOLEAN : pending <=> reportedPlan # "none"
      BY Zenon
    <3>3. ~ResolveAccess(now, subscription, pending).canOperate
      BY <1>2, <2>1, <3>2, CanOperate
    <3>4. ~ResolveAccess(now', subscription, pending).canOperate
      BY <1>2, <3>1, <3>3, AccessFalls
    <3>. QED BY <1>2, <3>2, <3>4, CanOperate
  <2>. QED
    BY <1>1, <2>1 DEF TeamIsSound, CacheIsTrue, NeedsNoChoice, Advancing, At
<1>8. FullSuspendsNobody'
  BY <1>1, <1>3, <1>4 DEF TeamIsSound, FullSuspendsNobody, Returning, At
<1>. QED BY <1>5, <1>6, <1>7, <1>8 DEF TeamIsSound

LEMMA TeamStaysSound ==
  ASSUME OneAtATime
  PROVE  Spec => [](TypeOK /\ SuspendedByChoice /\ TeamIsSound)
<1>1. Init => TeamIsSound
  <2>. SUFFICES ASSUME Init PROVE TeamIsSound
    OBVIOUS
  <2>1. \A p \in Request : Sound(local[p])
    BY IdleSound DEF Init
  <2>2. MarksFit /\ Marked = {}
    BY DEF Init, MarksFit, Marked, NewWorker, NoWorker
  <2>3. PeriodsFit /\ CacheIsTrue
    BY TeamAssumption
    DEF Init, PeriodsFit, CacheIsTrue, NoSubscription, NoDate, NoEntry
  <2>. QED BY <2>1, <2>2, <2>3 DEF TeamIsSound, FullSuspendsNobody
<1>2. TypeOK /\ SuspendedByChoice /\ TeamIsSound /\ [Next]_vars => TeamIsSound'
  <2>. SUFFICES ASSUME TypeOK, SuspendedByChoice, TeamIsSound, [Next]_vars
                PROVE  TeamIsSound'
    OBVIOUS
  <2>1. ASSUME NEW p \in Request, RequestStep(p)
        PROVE  TeamIsSound'
    BY <2>1, ReadsSound, FillContextSound, DecisionsSound, WriteWorkerSound,
       SuspendTheRestSound, RestoreInactiveSound, FindSuspendedSound, ReactivateSound,
       AdvanceSound DEF RequestStep
  <2>2. ASSUME NEW p \in Request, Arrival(p)
        PROVE  TeamIsSound'
    BY <2>2, ScreenAndSelectSound, EditSound, TeamChangeSound, AnswerSound, VerifySound
    DEF Arrival
  <2>3. CASE UNCHANGED vars
    <3>1. /\ UNCHANGED <<now, payment, worker, cache, local>>
      BY <2>3 DEF vars, payment
    <3>2. ASSUME NEW p \in Request PROVE Sound(local[p])'
      <4>1. Goto(p, local[p])
        BY <3>1 DEF Goto, TypeOK
      <4>2. Sound(local[p])
        BY DEF TeamIsSound
      <4>3. PICK next : next = local[p]
        OBVIOUS
      <4>4. Sound(next)'
        BY <3>1, <4>2, <4>3, SoundIsStable
      <4>. QED BY <4>1, <4>3, <4>4, SoundForAll
    <3>3. Marked' = Marked
      BY <3>1 DEF Marked
    <3>4. /\ subscription' = subscription /\ reportedPlan' = reportedPlan
          /\ verifiedPlan' = verifiedPlan /\ worker' = worker /\ cache' = cache
          /\ local' = local /\ now' = now
      BY <3>1 DEF payment
    <3>5. MarksFit' /\ PeriodsFit' /\ CacheIsTrue' /\ FullSuspendsNobody'
      BY <3>3, <3>4
      DEF TeamIsSound, MarksFit, PeriodsFit, CacheIsTrue, NeedsNoChoice,
          FullSuspendsNobody, Advancing, Returning, At
    <3>. QED BY <3>2, <3>5 DEF TeamIsSound
  <2>. QED BY <2>1, <2>2, <2>3, TickSound DEF Next
<1>. QED BY <1>1, <1>2, Inductive, PTL DEF Spec

\* A payment takes effect: when nothing is in progress the cache denies nothing
\* the tables allow, and a paid Full plan with room for the whole team has left
\* nobody suspended, however large the team, the limits and the cache's life
\* (onActivated, invalidate). It is the salon whose requests come one at a time:
\* a context computed beside a payment is cached after it, and stays.
THEOREM PaymentOpens ==
  ASSUME OneAtATime, RoomForAll
  PROVE  Spec => []PaymentTakesEffect
<1>1. TypeOK /\ TeamIsSound => PaymentTakesEffect
  <2>. SUFFICES ASSUME TypeOK, TeamIsSound PROVE PaymentTakesEffect
    OBVIOUS
  <2>1. FullBringsThemBack
    <3>. SUFFICES ASSUME Quiet, verifiedPlan = "full", subscription.currentPeriodEnd > now
                  PROVE  Suspended = {}
      BY DEF FullBringsThemBack
    <3>1. ~Returning
      BY IdleOwesNothing DEF Quiet, Returning
    <3>2. Marked = {}
      BY <3>1, RoomForAll DEF TeamIsSound, FullSuspendsNobody
    <3>. QED BY <3>2 DEF Marked, Suspended
  <2>2. PaidOpensAtOnce
    <3>. SUFFICES ASSUME Quiet, CacheHit, ~cache.context.canOperate
                  PROVE  ~ResolveAccess(now, subscription, reportedPlan # "none").canOperate
      BY DEF PaidOpensAtOnce
    <3>1. ~Advancing
      BY DEF Quiet, Advancing, At
    <3>2. cache.expiresAt # NoDate
      BY DEF CacheHit, NoDate, TypeOK
    <3>. QED BY <3>1, <3>2 DEF TeamIsSound, CacheIsTrue
  <2>. QED BY <2>1, <2>2 DEF PaymentTakesEffect
<1>. QED BY <1>1, TeamStaysSound, PTL

\* The marks a step takes away were taken away by a paid Full plan.
LEMMA MarksComeOff ==
  ASSUME TypeOK, SuspendedByChoice, TeamIsSound, [Next]_vars,
         NEW w \in WorkerId, worker[w].planSuspended, ~worker'[w].planSuspended
  PROVE  verifiedPlan = "full"
<1>1. worker' # worker /\ Marked # {}
  BY DEF Marked
<1>2. PICK p \in Request :
        WriteWorker(p) \/ SuspendTheRest(p) \/ RestoreInactive(p) \/ Reactivate(p)
  <2>1. ~Tick /\ ~UNCHANGED vars
    BY <1>1 DEF Tick, vars
  <2>2. PICK p \in Request : RequestStep(p) \/ Arrival(p)
    BY <2>1 DEF Next
  <2>3. ~Arrival(p)
    BY <1>1
    DEF Arrival, OpenScreen, AddWorker, RestoreWorker, EditWorker, EditProfile, RemoveWorker,
        SelectWorkers, ChoosePlan, ReportPayment, VerifyPayment, RejectPayment
  <2>. QED
    BY <1>1, <2>2, <2>3
    DEF RequestStep, ReadSubscription, ReadReport, ReadVerified, FillContext, ScreenShown,
        AssertCanOperate, CountWorkers, CheckSelection, FindSuspended, AdvanceSubscription
<1>3. Sound(local[p])
  BY DEF TeamIsSound
<1>4. CASE WriteWorker(p)
  BY <1>4, WriteWorkerEffect
<1>5. CASE SuspendTheRest(p)
  <2>1. worker[w] \in WorkerRow
    BY DEF TypeOK
  <2>. QED BY <1>1, <1>5, <2>1 DEF SuspendTheRest, WorkerRow
<1>6. CASE RestoreInactive(p)
  <2>1. local[p].context.planId = "full"
    BY <1>1, <1>6 DEF RestoreInactive, BringsThemBack
  <2>. QED BY <1>1, <1>3, <1>6, <2>1 DEF RestoreInactive, At, Sound, ReturnIsSound
<1>7. CASE Reactivate(p)
  BY <1>1, <1>3, <1>7 DEF Reactivate, At, Sound, ReturnIsSound
<1>. QED BY <1>2, <1>4, <1>5, <1>6, <1>7

LEMMA JoinsWithinLimit ==
  ASSUME TypeOK, TeamIsSound, NEW p \in Request, WriteWorker(p),
         ~(Candidates' \subseteq Candidates)
  PROVE  Cardinality(Candidates') <= Limit[local[p].context.planId]
<1>1. /\ Candidates' \subseteq Candidates \cup {local[p].id}
      /\ HasRoom(local[p].context)
  BY WriteWorkerEffect
<1>2. IsFiniteSet(Candidates) /\ Cardinality(Candidates) \in Nat
  BY TeamFits, FS_CardinalityType
<1>3. /\ IsFiniteSet(Candidates \cup {local[p].id})
      /\ Cardinality(Candidates \cup {local[p].id}) <= Cardinality(Candidates) + 1
      /\ Cardinality(Candidates \cup {local[p].id}) \in Nat
  <2>1. /\ IsFiniteSet(Candidates \cup {local[p].id})
        /\ \/ Cardinality(Candidates \cup {local[p].id}) = Cardinality(Candidates)
           \/ Cardinality(Candidates \cup {local[p].id}) = Cardinality(Candidates) + 1
    BY <1>2, FS_AddElement
  <2>. QED BY <1>2, <2>1
<1>4. /\ IsFiniteSet(Candidates')
      /\ Cardinality(Candidates') <= Cardinality(Candidates \cup {local[p].id})
  BY <1>1, <1>3, FS_Subset
<1>5. Cardinality(Candidates') \in Nat
  BY <1>4, FS_CardinalityType
<1>6. local[p].context.planId \in PaidPlan
  BY LocalType DEF Context
<1>7. Cardinality(Candidates) < Limit[local[p].context.planId]
  BY <1>1 DEF HasRoom, BookableWorkers
<1>. QED BY <1>2, <1>3, <1>4, <1>5, <1>6, <1>7, TeamAssumption

\* Nobody joins the team but with the room that was counted for them, and only
\* the Full plan takes a suspension away, in a salon whose requests come one at
\* a time, whatever its size and its limits (assertCanAddWorker, assertCanActivateWorker,
\* restoreSuspended).
THEOREM TeamGrowth ==
  ASSUME OneAtATime
  PROVE  Spec => TeamGrowsByThePlan
<1>1. TypeOK /\ SuspendedByChoice /\ TeamIsSound /\ [Next]_vars =>
        [\A w \in WorkerId :
           worker[w].planSuspended /\ ~worker'[w].planSuspended => verifiedPlan = "full"]_vars
  BY MarksComeOff
<1>2. TypeOK /\ SuspendedByChoice /\ TeamIsSound /\ [Next]_vars =>
        [\A p \in Request : WriteWorker(p) /\ ~(Candidates' \subseteq Candidates) =>
           Cardinality(Candidates') <= Limit[local[p].context.planId]]_vars
  BY JoinsWithinLimit
<1>. QED
  BY <1>1, <1>2, TeamStaysSound, PTL
  DEF Spec, TeamGrowsByThePlan, OnlyFullLiftsSuspension, AddedWithinLimit

====
