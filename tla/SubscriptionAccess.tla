------------------------- MODULE SubscriptionAccess -------------------------
(***************************************************************************)
(* The date arithmetic and the access decision of a salon's subscription:  *)
(* subscription-period.util.ts and entitlements.util.ts, both pure.        *)
(*                                                                         *)
(* A date is a natural number of some unit the instance chooses; NoDate    *)
(* (0) is a null column, and clocks start at 1, so NoDate is before every  *)
(* real date and the "null loses" tests of the code become comparisons.    *)
(* A calendar month has the fixed length Month here: the end-of-month      *)
(* clamp of addMonths is not modelled in this module.                      *)
(***************************************************************************)
EXTENDS Naturals

CONSTANTS
  Month,        \* length of the billing period one payment buys
  GraceDays     \* courtesy after a paid period runs out

ASSUME PeriodAssumption == Month \in Nat \ {0} /\ GraceDays \in Nat

NoDate == 0
Date == Nat

Plan == {"none", "basico", "full"}

\* A subscription row; status "none" is the row that does not exist.
SubscriptionRow ==
  [status: {"none", "trialing", "active", "grace", "blocked"}, planId: Plan,
   trialEndsAt: Date, currentPeriodEnd: Date, graceEndsAt: Date,
   billingExempt: BOOLEAN]

NoSubscription ==
  [status |-> "none", planId |-> "none", trialEndsAt |-> NoDate,
   currentPeriodEnd |-> NoDate, graceEndsAt |-> NoDate, billingExempt |-> FALSE]

Later(a, b) == IF b > a THEN b ELSE a

-----------------------------------------------------------------------------
(* subscription-period.util.ts *)

AddMonth(date) == date + Month

\* The cycle a payment buys starts where what the salon already has ends.
CoverageFromToday(now, currentPeriodEnd, trialEndsAt) ==
  [from |-> now, to |-> AddMonth(now)]
PeriodCoverage(now, currentPeriodEnd, trialEndsAt) ==
  LET base == Later(Later(now, currentPeriodEnd), trialEndsAt)
  IN  [from |-> base, to |-> AddMonth(base)]

-----------------------------------------------------------------------------
(* entitlements.util.ts *)

\* The trial wins only when it ends strictly after the paid period.
AccessEndOf(trialEndsAt, currentPeriodEnd) == Later(currentPeriodEnd, trialEndsAt)

AccessState(status, cause, accessEnd, graceEnd) ==
  [status |-> status, canOperate |-> status # "blocked", graceCause |-> cause,
   accessEndsAt |-> accessEnd, graceEndsAt |-> graceEnd]

GraceEnd(sub) ==
  LET accessEnd == AccessEndOf(sub.trialEndsAt, sub.currentPeriodEnd)
  IN  IF sub.graceEndsAt # NoDate THEN sub.graceEndsAt
      ELSE IF sub.currentPeriodEnd # NoDate THEN accessEnd + GraceDays
      ELSE NoDate

OnTrial(sub) ==
  \/ sub.currentPeriodEnd = NoDate
  \/ sub.trialEndsAt > sub.currentPeriodEnd

ResolveAccess(now, sub, hasPendingReport) ==
  LET accessEnd == AccessEndOf(sub.trialEndsAt, sub.currentPeriodEnd)
  IN  CASE sub.status = "none" ->
             AccessState("trialing", "none", NoDate, NoDate)
        [] sub.status # "none" /\ sub.billingExempt ->
             AccessState("active", "none", NoDate, NoDate)
        [] OTHER ->
             IF accessEnd = NoDate \/ accessEnd > now
             THEN AccessState(IF OnTrial(sub) THEN "trialing" ELSE "active",
                              "none", accessEnd, NoDate)
             ELSE IF GraceEnd(sub) > now
             THEN AccessState("grace", "expired", accessEnd, GraceEnd(sub))
             ELSE IF hasPendingReport
             THEN AccessState("grace", "pending_report", accessEnd, GraceEnd(sub))
             ELSE AccessState("blocked", "none", accessEnd, GraceEnd(sub))

TrialPlanId == "full"

\* The plan a price is quoted for: the trial's while none was chosen.
BillablePlanId(planId) == IF planId = "none" THEN TrialPlanId ELSE planId

TrialIsOver(trialEndsAt, now) == trialEndsAt # NoDate /\ trialEndsAt < now
TrialStillRunning(trialEndsAt, now) == trialEndsAt > now

EffectivePlanId(planId, status, trialEndsAt, now) ==
  IF status = "trialing" \/ TrialStillRunning(trialEndsAt, now)
  THEN TrialPlanId ELSE planId

=============================================================================
