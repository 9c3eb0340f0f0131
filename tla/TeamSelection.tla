---------------------------- MODULE TeamSelection ----------------------------
(***************************************************************************)
(* What a salon may do with its team under its plan: the cached access     *)
(* context of EntitlementsService, the limit of workers checked when one   *)
(* is added, activated or restored, the selection of the workers a smaller *)
(* plan keeps, and their return when the Full plan is paid.                *)
(*                                                                         *)
(* The payment side is reduced to what the context reads: the subscription *)
(* row, whether a report waits for its verdict, and the plan of the last   *)
(* verified report.  SubscriptionPayments models how those come about.     *)
(*                                                                         *)
(* A request executes one await per step; rows it read stay in local[p].   *)
(* repository.save of a whole entity writes back every column of the copy, *)
(* repository.update only the columns it names.  Three pairs of awaits are  *)
(* one step here: the count of workers that ends a context and the caching *)
(* of it, the read and the save of choosePlan and of the verdict on a      *)
(* payment (SubscriptionPayments takes those apart).                       *)
(***************************************************************************)
EXTENDS SubscriptionAccess, FiniteSets

CONSTANTS
  Request,       \* requests that may be in progress at once
  MaxWorkers,    \* bound: ids of company_worker
  MaxNow,        \* bound: last instant of the clock
  MaxPeriodEnd,  \* bound: how far ahead the salon pays
  TrialLength,   \* TRIAL_DAYS
  CacheTtl,      \* life of a cached context, 0 turns the cache off
  Limit,         \* plan -> how many workers it admits
  Operations     \* the operations this instance lets arrive

PaidPlan == {"basico", "full"}

ASSUME TeamAssumption ==
  /\ MaxWorkers \in Nat /\ MaxNow \in Nat \ {0} /\ MaxPeriodEnd \in Nat
  /\ TrialLength \in Nat \ {0} /\ CacheTtl \in Nat
  /\ Limit \in [PaidPlan -> Nat]

VARIABLES
  now,            \* the clock every Date.now() reads
  subscription,   \* the salon's row of subscription
  reportedPlan,   \* plan of the report that waits for its verdict, or "none"
  verifiedPlan,   \* plan of the last verified report, or "none"
  worker,         \* company_worker, by id
  cache,          \* the cached context of the salon
  local           \* what each request in progress holds in memory

vars == <<now, subscription, reportedPlan, verifiedPlan, worker, cache, local>>
payment == <<subscription, reportedPlan, verifiedPlan>>

-----------------------------------------------------------------------------
(* Rows *)

WorkerId == 1..MaxWorkers

WorkerRow ==
  [kept: {"absent", "present", "temporarilyDeleted", "permanentlyDeleted"},
   isActive: BOOLEAN, planSuspended: BOOLEAN]
NoWorker == [kept |-> "absent", isActive |-> FALSE, planSuspended |-> FALSE]
NewWorker == [kept |-> "present", isActive |-> TRUE, planSuspended |-> FALSE]

\* BOOKABLE
Bookable(row) == row.kept = "present" /\ row.isActive
Candidates == {w \in WorkerId : Bookable(worker[w]) /\ ~worker[w].planSuspended}
Suspended == {w \in WorkerId : Bookable(worker[w]) /\ worker[w].planSuspended}
BookableWorkers == Cardinality(Candidates)

Context == [canOperate: BOOLEAN, planId: PaidPlan, activeWorkers: Nat,
            selectionRequired: BOOLEAN]
NoContext == [canOperate |-> FALSE, planId |-> "basico", activeWorkers |-> 0,
              selectionRequired |-> FALSE]
Entry == [expiresAt: Date, context: Context]
NoEntry == [expiresAt |-> NoDate, context |-> NoContext]

Operation == {"none", "open", "add", "save", "update", "select", "restoreSuspended",
              "activate"}
Step == {"idle", "readSubscription", "readReport", "readVerified", "fillContext",
         "decide", "countWorkers", "write", "suspend", "restoreInactive",
         "findSuspended", "reactivate", "advance"}

Local == [operation: Operation, step: Step, id: WorkerId \cup {0}, row: WorkerRow,
          ids: SUBSET WorkerId, subscription: SubscriptionRow,
          pending: BOOLEAN, paidPlanId: Plan, context: Context]
Idle == [operation |-> "none", step |-> "idle", id |-> 0, row |-> NoWorker,
         ids |-> {}, subscription |-> NoSubscription, pending |-> FALSE,
         paidPlanId |-> "none", context |-> NoContext]

\* A request about a worker knows which, from its arrival to its write.
NamesItsWorker(request) ==
  /\ request.step \in {"write", "countWorkers"} =>
       request.operation \in {"add", "save", "update", "activate"}
  /\ request.operation \in {"add", "save", "update", "activate"} => request.id # 0

TypeOK ==
  /\ now \in Nat
  /\ subscription \in SubscriptionRow
  /\ reportedPlan \in Plan /\ verifiedPlan \in Plan
  /\ worker \in [WorkerId -> WorkerRow]
  /\ cache \in Entry
  /\ local \in [Request -> Local]
  /\ \A p \in Request : NamesItsWorker(local[p])

\* A salon in its trial, with the team its owner has registered so far.
Init ==
  /\ now = 1
  /\ subscription = [NoSubscription EXCEPT !.status = "trialing",
                                           !.trialEndsAt = 1 + TrialLength]
  /\ reportedPlan = "none" /\ verifiedPlan = "none"
  /\ \E size \in 0..MaxWorkers :
       /\ size <= Limit["full"]
       /\ worker = [w \in WorkerId |-> IF w <= size THEN NewWorker ELSE NoWorker]
  /\ cache = NoEntry
  /\ local = [p \in Request |-> Idle]

At(p, step) == local[p].step = step
Goto(p, next) == local' = [local EXCEPT ![p] = next]
Finish(p) == Goto(p, Idle)
Arrives(p, operation) == operation \in Operations /\ At(p, "idle")

-----------------------------------------------------------------------------
(* The access context: entitlements.service.ts context, computeContext *)

Invalidate == cache' = NoEntry
CacheHit == cache.expiresAt > now

\* The request continues at "decide" with a context, cached or computed.
AskContext(p, next) ==
  Goto(p, IF CacheHit
          THEN [next EXCEPT !.step = "decide", !.context = cache.context]
          ELSE [next EXCEPT !.step = "readSubscription"])

ReadSubscription(p) ==
  /\ At(p, "readSubscription")
  /\ Goto(p, [local[p] EXCEPT !.step = "readReport", !.subscription = subscription])
  /\ UNCHANGED <<now, payment, worker, cache>>

ReadReport(p) ==
  /\ At(p, "readReport")
  /\ Goto(p, [local[p] EXCEPT !.step = "readVerified", !.pending = reportedPlan # "none"])
  /\ UNCHANGED <<now, payment, worker, cache>>

ReadVerified(p) ==
  /\ At(p, "readVerified")
  /\ Goto(p, [local[p] EXCEPT !.step = "fillContext", !.paidPlanId = verifiedPlan])
  /\ UNCHANGED <<now, payment, worker, cache>>

\* A plan is only asked to choose its team when it has been paid.
PlanBackedByPayment(access) ==
  \/ access.status = "active"
  \/ access.status = "grace" /\ access.graceCause = "pending_report"

StoredPlanId(sub, paidPlanId) ==
  IF ~sub.billingExempt /\ paidPlanId # "none" THEN paidPlanId
  ELSE IF sub.planId # "none" THEN sub.planId
  ELSE "basico"

ComputeContext(sub, pending, paidPlanId) ==
  LET access == ResolveAccess(now, sub, pending)
      planId == EffectivePlanId(StoredPlanId(sub, paidPlanId), access.status,
                                sub.trialEndsAt, now)
  IN  [canOperate |-> access.canOperate,
       planId |-> planId,
       activeWorkers |-> BookableWorkers,
       selectionRequired |->
         /\ ~TrialStillRunning(sub.trialEndsAt, now)
         /\ PlanBackedByPayment(access)
         /\ BookableWorkers > Limit[planId]]

FillContext(p) ==
  /\ At(p, "fillContext")
  /\ LET context == ComputeContext(local[p].subscription, local[p].pending,
                                   local[p].paidPlanId)
     IN  /\ cache' = IF CacheTtl > 0
                     THEN [expiresAt |-> now + CacheTtl, context |-> context]
                     ELSE cache
         /\ Goto(p, [local[p] EXCEPT !.step = "decide", !.context = context,
                       !.subscription = NoSubscription, !.pending = FALSE,
                       !.paidPlanId = "none"])
  /\ UNCHANGED <<now, payment, worker>>

Operable(context) == context.canOperate /\ ~context.selectionRequired

\* Any other endpoint that asks for the context.
OpenScreen(p) ==
  /\ Arrives(p, "open")
  /\ AskContext(p, [Idle EXCEPT !.operation = "open"])
  /\ UNCHANGED <<now, payment, worker, cache>>

ScreenShown(p) ==
  /\ At(p, "decide") /\ local[p].operation = "open"
  /\ Finish(p)
  /\ UNCHANGED <<now, payment, worker, cache>>

-----------------------------------------------------------------------------
(* One more worker: create, activate, restore.  assertCanAddWorker *)

AddWorker(p, w) ==
  /\ Arrives(p, "add")
  /\ worker[w].kept = "absent"
  /\ \A q \in Request : local[q].id # w
  /\ AskContext(p, [Idle EXCEPT !.operation = "add", !.id = w, !.row = NewWorker])
  /\ UNCHANGED <<now, payment, worker, cache>>

\* updateWorkerInCompany: the calendar, isActive or both, on the row it read.
\* Only passing from inactive to active is checked, and never for a suspended.
Activating(row, isActive) == isActive /\ ~row.isActive
EditWorker(p, w, isActive) ==
  /\ Arrives(p, "edit")
  /\ worker[w].kept # "absent"
  /\ LET edited == [worker[w] EXCEPT !.isActive = isActive]
     IN  IF Activating(worker[w], isActive)
         THEN /\ ~worker[w].planSuspended
              /\ AskContext(p, [Idle EXCEPT !.operation = "activate", !.id = w,
                                            !.row = edited])
         ELSE Goto(p, [Idle EXCEPT !.operation = "save", !.step = "write",
                                   !.id = w, !.row = edited])
  /\ UNCHANGED <<now, payment, worker, cache>>

\* The profile form of worker.service.ts: it updates the column alone.
EditProfile(p, w, isActive) ==
  /\ Arrives(p, "profile")
  /\ worker[w].kept # "absent"
  /\ LET edited == [worker[w] EXCEPT !.isActive = isActive]
     IN  IF Activating(worker[w], isActive)
         THEN /\ ~worker[w].planSuspended
              /\ AskContext(p, [Idle EXCEPT !.operation = "update", !.id = w,
                                            !.row = edited])
         ELSE Goto(p, [Idle EXCEPT !.operation = "update", !.step = "write",
                                   !.id = w, !.row = edited])
  /\ UNCHANGED <<now, payment, worker, cache>>

RemoveWorker(p, w, kept) ==
  /\ Arrives(p, "remove")
  /\ \/ kept = "temporarilyDeleted" /\ worker[w].kept = "present"
     \/ /\ kept = "permanentlyDeleted"
        /\ worker[w].kept \in {"present", "temporarilyDeleted"}
  /\ Goto(p, [Idle EXCEPT !.operation = "save", !.step = "write", !.id = w,
                !.row = [worker[w] EXCEPT !.kept = kept, !.isActive = FALSE]])
  /\ UNCHANGED <<now, payment, worker, cache>>

\* A suspended worker is restored as a suspended one, without asking.
RestoreWorker(p, w) ==
  /\ Arrives(p, "restore")
  /\ worker[w].kept = "temporarilyDeleted"
  /\ LET restored == [worker[w] EXCEPT !.kept = "present", !.isActive = TRUE]
     IN  IF worker[w].planSuspended
         THEN Goto(p, [Idle EXCEPT !.operation = "save", !.step = "write",
                                   !.id = w, !.row = restored])
         ELSE AskContext(p, [Idle EXCEPT !.operation = "activate", !.id = w,
                                         !.row = restored])
  /\ UNCHANGED <<now, payment, worker, cache>>

AssertCanOperate(p) ==
  /\ At(p, "decide") /\ local[p].operation \in {"add", "activate", "update"}
  /\ IF Operable(local[p].context)
     THEN Goto(p, [local[p] EXCEPT !.step = "countWorkers"])
     ELSE Finish(p)
  /\ UNCHANGED <<now, payment, worker, cache>>

HasRoom(context) == BookableWorkers < Limit[context.planId]

CountWorkers(p) ==
  /\ At(p, "countWorkers")
  /\ IF HasRoom(local[p].context)
     THEN Goto(p, [local[p] EXCEPT !.step = "write"])
     ELSE Finish(p)
  /\ UNCHANGED <<now, payment, worker, cache>>

WriteWorker(p) ==
  /\ At(p, "write")
  /\ LET w == local[p].id
     IN  worker' = [worker EXCEPT ![w] =
           IF local[p].operation = "update"
           THEN [@ EXCEPT !.isActive = local[p].row.isActive]
           ELSE local[p].row]
  /\ Finish(p)
  /\ UNCHANGED <<now, payment, cache>>

-----------------------------------------------------------------------------
(* Choosing the team a smaller plan keeps: workers-selection.service.ts *)

SelectWorkers(p, keep) ==
  /\ Arrives(p, "select")
  /\ AskContext(p, [Idle EXCEPT !.operation = "select", !.ids = keep])
  /\ UNCHANGED <<now, payment, worker, cache>>

CheckSelection(p) ==
  /\ At(p, "decide") /\ local[p].operation = "select"
  /\ IF /\ local[p].context.canOperate
        /\ local[p].context.selectionRequired
        /\ Cardinality(local[p].ids) = Limit[local[p].context.planId]
     THEN Goto(p, [local[p] EXCEPT !.step = "suspend"])
     ELSE Finish(p)
  /\ UNCHANGED <<now, payment, worker, cache>>

\* The candidates are locked and looked at again.
AnyChoice(keep, max) == TRUE
ChoiceStands(keep, max) == BookableWorkers > max /\ keep \subseteq Candidates

Inactive(row) == ~row.isActive

SuspendTheRest(p) ==
  /\ At(p, "suspend")
  /\ LET keep == local[p].ids
     IN  IF ChoiceStands(keep, Limit[local[p].context.planId])
         THEN /\ worker' = [w \in WorkerId |->
                   IF \/ w \in Candidates \ keep
                      \/ Inactive(worker[w]) /\ worker[w].kept = "present"
                   THEN [worker[w] EXCEPT !.planSuspended = TRUE]
                   ELSE worker[w]]
              /\ Invalidate
         ELSE UNCHANGED <<worker, cache>>
  /\ Finish(p)
  /\ UNCHANGED <<now, payment>>

-----------------------------------------------------------------------------
(* Their return: restoreSuspended *)

\* It runs in the request that verified the payment, and starts by throwing
\* the cached context away.
StartRestoring == [Idle EXCEPT !.operation = "restoreSuspended", !.step = "readSubscription"]

RestoresOnAnyPlan(context) == context.canOperate
BringsThemBack(context) == context.canOperate /\ context.planId = "full"

\* The inactive come back inactive: they take no place.
RestoreInactive(p) ==
  /\ At(p, "decide") /\ local[p].operation = "restoreSuspended"
  /\ IF BringsThemBack(local[p].context)
     THEN /\ worker' = [w \in WorkerId |->
                IF worker[w].kept # "absent" /\ Inactive(worker[w])
                THEN [worker[w] EXCEPT !.planSuspended = FALSE] ELSE worker[w]]
          /\ IF local[p].context.activeWorkers < Limit[local[p].context.planId]
             THEN Goto(p, [local[p] EXCEPT !.step = "findSuspended"])
             ELSE Finish(p)
     ELSE Finish(p) /\ UNCHANGED worker
  /\ UNCHANGED <<now, payment, cache>>

OneShort(S, n) == {w \in S : Cardinality({v \in S : v <= w}) < n}
Oldest(S, n) == {w \in S : Cardinality({v \in S : v < w}) < n}

FindSuspended(p) ==
  /\ At(p, "findSuspended")
  /\ LET free == Limit[local[p].context.planId] - local[p].context.activeWorkers
         back == Oldest(Suspended, free)
     IN  IF back = {} THEN Finish(p)
         ELSE Goto(p, [local[p] EXCEPT !.step = "reactivate", !.ids = back])
  /\ UNCHANGED <<now, payment, worker, cache>>

Reactivate(p) ==
  /\ At(p, "reactivate")
  /\ worker' = [w \in WorkerId |->
       IF w \in local[p].ids THEN [worker[w] EXCEPT !.planSuspended = FALSE] ELSE worker[w]]
  /\ Invalidate
  /\ Finish(p)
  /\ UNCHANGED <<now, payment>>

-----------------------------------------------------------------------------
(* What payments do to the context *)

ChoosePlan(p, planId) ==
  /\ Arrives(p, "choosePlan")
  /\ subscription.planId # planId
  /\ subscription.currentPeriodEnd <= now
  /\ subscription' = [subscription EXCEPT !.planId = planId]
  /\ Invalidate
  /\ UNCHANGED <<now, reportedPlan, verifiedPlan, worker, local>>

\* save: the new report is pending, and the cached context goes.
ReportPayment(p) ==
  /\ Arrives(p, "report")
  /\ reportedPlan = "none" /\ subscription.currentPeriodEnd < MaxPeriodEnd
  /\ reportedPlan' = BillablePlanId(subscription.planId)
  /\ Invalidate
  /\ UNCHANGED <<now, subscription, verifiedPlan, worker, local>>

\* By hand: saveDecision throws the cached context away, the month comes after.
VerifyPayment(p, byHand) ==
  /\ Arrives(p, "verify")
  /\ reportedPlan # "none"
  /\ verifiedPlan' = reportedPlan
  /\ reportedPlan' = "none"
  /\ IF byHand THEN Invalidate ELSE UNCHANGED cache
  /\ Goto(p, [Idle EXCEPT !.step = "advance", !.subscription = subscription,
                          !.paidPlanId = reportedPlan])
  /\ UNCHANGED <<now, subscription, worker>>

\* The event of the committed advance starts restoreSuspended at once.
AdvanceSubscription(p) ==
  /\ At(p, "advance")
  /\ LET sub == local[p].subscription
     IN  subscription' =
           [sub EXCEPT !.planId = local[p].paidPlanId, !.status = "active",
              !.currentPeriodEnd =
                PeriodCoverage(now, sub.currentPeriodEnd, sub.trialEndsAt).to,
              !.graceEndsAt = NoDate]
  /\ Invalidate
  /\ Goto(p, StartRestoring)
  /\ UNCHANGED <<now, reportedPlan, verifiedPlan, worker>>

RejectPayment(p, byHand) ==
  /\ Arrives(p, "reject")
  /\ reportedPlan # "none"
  /\ reportedPlan' = "none"
  /\ IF byHand THEN Invalidate ELSE UNCHANGED cache
  /\ UNCHANGED <<now, subscription, verifiedPlan, worker, local>>

Tick ==
  /\ now < MaxNow
  /\ now' = now + 1
  /\ UNCHANGED <<payment, worker, cache, local>>

RequestStep(p) ==
  \/ ReadSubscription(p) \/ ReadReport(p) \/ ReadVerified(p) \/ FillContext(p)
  \/ ScreenShown(p) \/ AssertCanOperate(p) \/ CountWorkers(p) \/ WriteWorker(p)
  \/ CheckSelection(p) \/ SuspendTheRest(p)
  \/ RestoreInactive(p) \/ FindSuspended(p) \/ Reactivate(p)
  \/ AdvanceSubscription(p)

Arrival(p) ==
  \/ OpenScreen(p)
  \/ \E w \in WorkerId : AddWorker(p, w) \/ RestoreWorker(p, w)
  \/ \E w \in WorkerId, isActive \in BOOLEAN :
       EditWorker(p, w, isActive) \/ EditProfile(p, w, isActive)
  \/ \E w \in WorkerId, kept \in {"temporarilyDeleted", "permanentlyDeleted"} :
       RemoveWorker(p, w, kept)
  \/ \E keep \in SUBSET WorkerId : SelectWorkers(p, keep)
  \/ \E planId \in PaidPlan : ChoosePlan(p, planId)
  \/ ReportPayment(p)
  \/ \E byHand \in BOOLEAN : VerifyPayment(p, byHand) \/ RejectPayment(p, byHand)

Next == Tick \/ \E p \in Request : RequestStep(p) \/ Arrival(p)

Spec == Init /\ [][Next]_vars

-----------------------------------------------------------------------------
(* Properties *)

Quiet == \A p \in Request : At(p, "idle")

\* "No puede haber suspendidos, la prueba nunca pide escoger": while the trial
\* runs nobody is suspended, whatever was paid (restoreSuspended, computeContext).
NobodySuspendedOnTrial ==
  subscription.trialEndsAt > now => \A w \in WorkerId : ~worker[w].planSuspended

\* Two submissions of the selection never leave the salon with fewer workers
\* than it may keep: a selection that suspends somebody leaves exactly the
\* limit it was made for (select).
SelectionLeavesTheLimit ==
  [][\A p \in Request : SuspendTheRest(p) /\ worker' # worker =>
       Cardinality(Candidates') = Limit[local[p].context.planId]]_vars

\* Only paying the Full plan lifts a suspension: no edit, activation or
\* removal and restore does (assertCanActivateWorker, restoreSuspended).
OnlyFullLiftsSuspension ==
  [][\A w \in WorkerId :
       worker[w].planSuspended /\ ~worker'[w].planSuspended => verifiedPlan = "full"]_vars

\* The suspended come back by themselves when the salon pays the Full plan:
\* with nothing in progress, nobody stays suspended while a paid month of a
\* Full plan that has room for the whole team runs (onActivated).
FullBringsThemBack ==
  Quiet /\ verifiedPlan = "full" /\ subscription.currentPeriodEnd > now => Suspended = {}

\* A payment opens the salon at once: with nothing in progress, the cache never
\* denies what the tables allow (invalidate in save, saveDecision, onActivated).
PaidOpensAtOnce ==
  Quiet /\ CacheHit /\ ~cache.context.canOperate =>
    ~ResolveAccess(now, subscription, reportedPlan # "none").canOperate

\* Adding, activating or restoring a worker never takes the team over the
\* limit of the plan it was checked against (assertCanAddWorker).
AddedWithinLimit ==
  [][\A p \in Request : WriteWorker(p) /\ ~(Candidates' \subseteq Candidates) =>
       Cardinality(Candidates') <= Limit[local[p].context.planId]]_vars

\* With nothing in progress, a payment has opened the salon and a paid Full plan
\* has brought its workers back (onActivated, invalidate).
PaymentTakesEffect == TypeOK /\ FullBringsThemBack /\ PaidOpensAtOnce

\* Nobody joins the team, or returns to it, but as the plan allows.
TeamGrowsByThePlan == OnlyFullLiftsSuspension /\ AddedWithinLimit

=============================================================================
