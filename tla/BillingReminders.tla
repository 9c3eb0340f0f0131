-------------------------- MODULE BillingReminders --------------------------
(***************************************************************************)
(* What the owner of a salon is told of its subscription: the reminders of *)
(* the sweep: before the end, in the courtesy, and once it is blocked.     *)
(*                                                                         *)
(* Time is in half days, so that a period may end later in the day of a    *)
(* sweep; the sweep counts calendar days.  A sweep takes a step per await, *)
(* and less than half a day.  One salon: the sweep goes through them one   *)
(* by one and they share no row.                                           *)
(***************************************************************************)
EXTENDS Integers, FiniteSets

CONSTANTS Sweeper,          \* runs of the sweep that may overlap: the cron, the panel
          Cycle, Courtesy,  \* a paid period and its courtesy, in half days
          TrialEnd,         \* instant the trial ends
          Channel,          \* the channels that are switched on
          LastHalf, MaxPayments, MaxFlaws  \* bounds: clock, payments, things that fail

ASSUME RemindersAssumption ==
  /\ Cycle \in Nat \ {0} /\ Courtesy \in Nat /\ TrialEnd \in Nat \ {0}
  /\ Channel \subseteq {"in_app", "email"} /\ "in_app" \in Channel
  /\ LastHalf \in Nat /\ MaxPayments \in Nat /\ MaxFlaws \in Nat

Terms == INSTANCE SubscriptionAccess WITH Month <- Cycle, GraceDays <- Courtesy

VARIABLES
  half,       \* the clock
  account,    \* the subscription row
  claim,      \* the newest payment report: status, gateway's opinion, verifiedAt
  log,        \* reminder_log: tier, period end and channel of each row
  silenced,   \* the salon is deactivated
  sweeping,   \* what each sweep holds
  told,       \* notices that went out, by channel
  twice,      \* a notice went out when it had gone out before
  crossed,    \* two sweeps were in progress at once, or one died before its log
  swept,      \* the sweep of the day has begun
  payments, flaws

reminderVars == <<half, account, claim, log, silenced, sweeping, told, twice, crossed,
                  swept, payments, flaws>>

Never == Terms!NoDate
Tier == {"d-7", "d-3", "d-1", "d0", "grace", "blocked"}
DayOf(t) == t \div 2

-----------------------------------------------------------------------------
(* reminder-schedule.util.ts *)

PRE_TIERS == [left \in {7, 3, 1, 0} |->
                CASE left = 7 -> "d-7" [] left = 3 -> "d-3" [] left = 1 -> "d-1"
                  [] left = 0 -> "d0"]

DaysUntil(target, at) == DayOf(target) - DayOf(at)
PeriodEndOf(s) == Terms!AccessEndOf(s.trialEndsAt, s.currentPeriodEnd)

\* Only who has ever paid has the courtesy.
CourtesyEnd(s) ==
  IF s.graceEndsAt # Never THEN s.graceEndsAt
  ELSE IF s.currentPeriodEnd # Never THEN PeriodEndOf(s) + Courtesy ELSE PeriodEndOf(s)

Nothing == [tier |-> "none", periodEnd |-> Never]
DueReminder(s, at) ==
  LET left == DaysUntil(PeriodEndOf(s), at)
      due(tier) == [tier |-> tier, periodEnd |-> PeriodEndOf(s)]
  IN IF PeriodEndOf(s) = Never \/ (left >= 0 /\ left \notin DOMAIN PRE_TIERS) THEN Nothing
     ELSE IF left >= 0 THEN due(PRE_TIERS[left])
     ELSE due(IF DaysUntil(CourtesyEnd(s), at) > 0 THEN "grace" ELSE "blocked")

-----------------------------------------------------------------------------
(* The sweep *)

Waiting == claim.status = "reported" /\ ~claim.declined

\* Who may have something to hear today, in the window of the query.
Candidate(s, at) ==
  LET from == at - Courtesy - 14
      to == at + 16
  IN /\ ~s.billingExempt /\ ~silenced
     /\ \/ s.currentPeriodEnd # Never /\ s.currentPeriodEnd \in from..to
        \/ s.trialEndsAt # Never /\ s.trialEndsAt \in from..to

Asleep == [pc |-> "asleep"]
SweepAt(p, l) == sweeping' = [sweeping EXCEPT ![p] = l]
quiet == <<half, account, claim, silenced, payments>>

HasSomethingToHear == Candidate(account, half) /\ DueReminder(account, half) # Nothing

\* candidates reads the row; due is computed of it, with the time of the start.
Sweep(p) ==
  LET due == DueReminder(account, half) IN
  /\ sweeping[p] = Asleep /\ HasSomethingToHear
  /\ SweepAt(p, [pc |-> "pending", due |-> due, waited |-> IF Waiting THEN payments ELSE 0])
  /\ crossed' = (crossed \/ \E q \in Sweeper : sweeping[q] # Asleep)
  /\ swept' = TRUE
  /\ UNCHANGED <<quiet, log, told, twice, flaws>>

Goes(p, skip, next) ==
  /\ SweepAt(p, IF skip THEN Asleep ELSE [sweeping[p] EXCEPT !.pc = next])
  /\ UNCHANGED <<quiet, log, told, twice, crossed, swept, flaws>>

\* Mutant: a report that waits quiets nothing.
WaitsUnasked == FALSE
StillWaits == Waiting

\* hasPendingOrVerifiedReport, its two counts.
AskPending(p) ==
  /\ sweeping[p].pc = "pending"
  /\ Goes(p, StillWaits, "covered")
AskCovered(p) ==
  /\ sweeping[p].pc = "covered"
  /\ Goes(p, claim.status = "verified" /\ claim.verifiedAt >= sweeping[p].due.periodEnd, "sent")

AlreadySent(due) == \E r \in log : r.tier = due.tier /\ r.periodEnd = due.periodEnd

AskSent(p) ==
  /\ sweeping[p].pc = "sent"
  /\ SweepAt(p, IF AlreadySent(sweeping[p].due) THEN Asleep
           ELSE [pc |-> "deliver", due |-> sweeping[p].due, waited |-> sweeping[p].waited, todo |-> Channel, done |-> {}])
  /\ UNCHANGED <<quiet, log, told, twice, crossed, swept, flaws>>

LogRow(due, c) == [tier |-> due.tier, periodEnd |-> due.periodEnd, channel |-> c]

\* One channel after the other; the in-app one only emits, and always delivers.
Deliver(p, c, ok) ==
  LET l == sweeping[p] IN
  /\ l.pc = "deliver" /\ c \in l.todo /\ (c = "email" => "in_app" \notin l.todo)
  /\ ok \/ (c = "email" /\ flaws < MaxFlaws)
  /\ flaws' = IF ok THEN flaws ELSE flaws + 1
  /\ SweepAt(p, [l EXCEPT !.todo = @ \ {c}, !.done = IF ok THEN @ \cup {c} ELSE @])
  /\ told' = IF ok THEN told \cup {LogRow(l.due, c)} ELSE told
  /\ twice' = (twice \/ (ok /\ LogRow(l.due, c) \in told))
  /\ UNCHANGED <<quiet, log, crossed, swept>>

Delivered(due, done) == {LogRow(due, c) : c \in done}

\* Without a delivery nothing is written, and the next sweep tries again.
SaveLog(p) ==
  LET l == sweeping[p] IN
  /\ l.pc = "deliver" /\ l.todo = {}
  /\ log' = log \cup Delivered(l.due, l.done)
  /\ SweepAt(p, Asleep)
  /\ UNCHANGED <<quiet, told, twice, crossed, swept, flaws>>

\* The process dies, or a query of the sweep fails and the salon is left out.
SweepFails(p) ==
  /\ sweeping[p] # Asleep /\ flaws < MaxFlaws
  /\ flaws' = flaws + 1
  /\ crossed' = (crossed \/ sweeping[p].pc = "deliver")
  /\ SweepAt(p, Asleep)
  /\ UNCHANGED <<quiet, log, told, twice, swept>>

-----------------------------------------------------------------------------
(* What the other components do to the rows read here *)

alone == <<log, sweeping, told, twice, crossed>>

ReportPaid ==
  /\ payments < MaxPayments /\ claim.status # "reported"
  /\ payments' = payments + 1
  /\ claim' = [status |-> "reported", declined |-> FALSE, verifiedAt |-> Never]
  /\ UNCHANGED <<alone, half, account, silenced, swept, flaws>>

Decide(status, declined) ==
  /\ claim.status = "reported"
  /\ claim' = [status |-> status, declined |-> declined,
               verifiedAt |-> IF status = "verified" THEN half ELSE Never]
  /\ UNCHANGED <<alone, half, account, silenced, swept, payments, flaws>>

Decline == ~claim.declined /\ Decide("reported", TRUE)
Reject == Decide("rejected", claim.declined)
Verify == Decide("verified", claim.declined)

\* advanceSubscription, an await after the verdict.
Advance ==
  /\ claim.status = "verified"
  /\ account' = [account EXCEPT !.status = "active",
       !.currentPeriodEnd =
         Terms!PeriodCoverage(half, account.currentPeriodEnd, account.trialEndsAt).to,
       !.graceEndsAt = Never]
  /\ claim' = [claim EXCEPT !.status = "granted"]
  /\ UNCHANGED <<alone, half, silenced, swept, payments, flaws>>

Exempt ==
  /\ flaws < MaxFlaws /\ flaws' = flaws + 1
  /\ account' = [account EXCEPT !.billingExempt = ~@]
  /\ UNCHANGED <<alone, half, claim, silenced, swept, payments>>

Silence ==
  /\ flaws < MaxFlaws /\ flaws' = flaws + 1
  /\ silenced' = ~silenced
  /\ UNCHANGED <<alone, half, account, claim, swept, payments>>

\* Each morning the cron sweeps, or that day is one of the things that fail.
HalfDay ==
  /\ half < LastHalf /\ half' = half + 1 /\ swept' = FALSE
  /\ claim.status # "verified" /\ \A p \in Sweeper : sweeping[p] = Asleep
  /\ flaws' = IF swept \/ half % 2 = 1 \/ ~HasSomethingToHear THEN flaws ELSE flaws + 1
  /\ flaws' <= MaxFlaws
  /\ UNCHANGED <<alone, account, claim, silenced, payments>>

-----------------------------------------------------------------------------

RemindersInit ==
  /\ half = 0
  /\ account = [status |-> "trialing", planId |-> "basico", trialEndsAt |-> TrialEnd,
                currentPeriodEnd |-> Never, graceEndsAt |-> Never, billingExempt |-> FALSE]
  /\ claim = [status |-> "none", declined |-> FALSE, verifiedAt |-> Never]
  /\ log = {} /\ silenced = FALSE /\ sweeping = [p \in Sweeper |-> Asleep]
  /\ told = {} /\ twice = FALSE /\ crossed = FALSE /\ swept = FALSE /\ payments = 0 /\ flaws = 0

RemindersNext ==
  \/ \E p \in Sweeper :
       \/ Sweep(p) \/ AskPending(p) \/ AskCovered(p) \/ AskSent(p)
       \/ \E c \in Channel, ok \in BOOLEAN : Deliver(p, c, ok)
       \/ SaveLog(p) \/ SweepFails(p)
  \/ ReportPaid \/ Decline \/ Reject \/ Verify \/ Advance \/ Exempt \/ Silence \/ HalfDay

RemindersSpec == RemindersInit /\ [][RemindersNext]_reminderVars

-----------------------------------------------------------------------------
(* Properties *)

Due == [tier : Tier, periodEnd : Nat]
SweepState ==
  {Asleep}
  \cup [pc : {"pending", "covered", "sent"}, due : Due, waited : Nat]
  \cup [pc : {"deliver"}, due : Due, waited : Nat,
        todo : SUBSET Channel, done : SUBSET Channel]

RemindersTypeOK ==
  /\ half \in Nat /\ account \in Terms!SubscriptionRow /\ silenced \in BOOLEAN
  /\ log \subseteq [tier : Tier, periodEnd : Nat, channel : Channel]
  /\ sweeping \in [Sweeper -> SweepState]

\* "La bitácora impide que alguien reciba dos veces el mismo aviso": each tier of
\* a period goes out once by each channel, over days and renewals, unless two
\* sweeps were in progress at once or one died before it wrote the log.
RemindedOnce == ~crossed => ~twice

\* "Un registro por recordatorio de cobro efectivamente enviado": a row of the
\* log is of a notice that went out, and one that went out is in the log, is
\* being delivered, or was of a sweep that died.
LogIsTrue ==
  /\ log \subseteq told
  /\ crossed \/ \A n \in told :
       \/ n \in log
       \/ \E p \in Sweeper : sweeping[p] # Asleep /\ sweeping[p].pc = "deliver"

\* The window of the query holds every salon with a notice due, up to a week
\* after its courtesy, so that a day without a sweep loses none of those.
DueIsCandidate ==
  /\ DueReminder(account, half) # Nothing /\ half <= CourtesyEnd(account) + 14
  /\ ~account.billingExempt /\ ~silenced
  => Candidate(account, half)

RemindersSound == RemindersTypeOK /\ RemindedOnce /\ LogIsTrue /\ DueIsCandidate

Access(at) == Terms!ResolveAccess(at, account, FALSE)

\* What goes out is true of the salon, if its row is the one the sweep read:
\* the courtesy is promised only to who has it ("el aviso no puede prometer una
\* cortesía que el acceso no le va a dar"), blocked is said of who is blocked
\* before the day ends, and the days that are left are the ones it says. Nobody
\* whose report was waiting when the sweep began, and waits, is told anything.
RemindersTellTheTruth ==
  [][\A n \in told' \ told :
       /\ n.periodEnd = PeriodEndOf(account) /\ ~account.billingExempt =>
            /\ n.tier = "grace" => Access(half).canOperate
            /\ n.tier = "blocked" => ~Access(2 * DayOf(half) + 2).canOperate
            /\ \A left \in DOMAIN PRE_TIERS :
                 n.tier = PRE_TIERS[left] => DayOf(n.periodEnd) = DayOf(half) + left
       /\ \A p \in Sweeper :
            sweeping[p] # sweeping'[p] => ~(Waiting /\ sweeping[p].waited = payments)
    ]_reminderVars

\* The sweep keeps its books, and what it tells is true when it is told.
RemindersAreTrue == []RemindersSound /\ RemindersTellTheTruth

=============================================================================
