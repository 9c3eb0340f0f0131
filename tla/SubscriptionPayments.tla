------------------------ MODULE SubscriptionPayments ------------------------
(***************************************************************************)
(* How one salon pays for its subscription: payment reports, their manual  *)
(* verification and rejection, the Cobrix checkout, its two webhook        *)
(* channels, the reconciliation sweep and the choice of a plan.            *)
(*                                                                         *)
(* The tables are functions from row ids to rows; a row whose status is    *)
(* "none" does not exist yet.  A request (an HTTP call, a webhook          *)
(* delivery, a cron run) is a member of Request and executes one database  *)
(* round trip or external call per step, so that requests interleave       *)
(* exactly at the code's awaits.  Between two steps a request keeps its    *)
(* own copies of the rows it read, in local[p].                            *)
(*                                                                         *)
(* repository.save(entity) of TypeORM compares the in-memory entity with   *)
(* the row and updates EVERY column that differs: a save writes the whole  *)
(* copy back, columns the request never assigned included.                 *)
(*                                                                         *)
(* All salons behave alike and share no row, so one salon is modelled.     *)
(***************************************************************************)
EXTENDS SubscriptionAccess, FiniteSets

CONSTANTS
  Request,        \* identities of the requests that may be in progress at once
  Reference,      \* payment references an owner may type
  MaxReports,     \* bound: rows of payment_report
  MaxInvoices,    \* bound: rows of subscription_invoice
  MaxNow,         \* bound: last instant of the clock
  TrialLength,    \* TRIAL_DAYS
  InvoiceTtl,     \* COBRIX_DEFAULTS.invoiceTtlHours
  WaitTime,       \* how long a pending report waits for Cobrix (waitHours)
  CobrixEnabled,  \* the integration is configured
  Choices,        \* plans the owner picks from in this instance
  Operations      \* the operations this instance lets arrive

ASSUME BoundAssumption ==
  /\ MaxReports \in Nat /\ MaxInvoices \in Nat /\ MaxNow \in Nat \ {0}
  /\ TrialLength \in Nat \ {0} /\ InvoiceTtl \in Nat /\ WaitTime \in Nat
  /\ CobrixEnabled \in BOOLEAN /\ Choices \subseteq Plan \ {"none"}

VARIABLES
  now,            \* the clock every Date.now() reads
  subscription,   \* the salon's row of subscription
  report,         \* payment_report
  invoice,        \* subscription_invoice
  granted,        \* subscription_event, by payment_report_id
  recorded,       \* ids in payment_gateway_event
  document,       \* Cobrix's side of each invoice (external)
  emitted,        \* webhooks Cobrix has sent at least once (external)
  local           \* what each request in progress holds in memory

vars == <<now, subscription, report, invoice, granted, recorded, document,
          emitted, local>>
tables == <<subscription, report, invoice, granted, recorded>>
cobrix == <<document, emitted>>

-----------------------------------------------------------------------------
(* Rows *)

ReportId == 1..MaxReports
InvoiceId == 1..MaxInvoices

InvoiceEvent == {"paid", "paidOtherAmount", "canceled"}
GeneralEvent == {"completed", "failed"}
EventType == InvoiceEvent \cup GeneralEvent

\* A reference the owner typed, the id Cobrix gave the payment, or the
\* invoice's own reference when there is neither.
Typed(ref) == <<"typed", ref>>
AnyReference == {Typed(ref) : ref \in Reference}
                  \cup ({"payment", "provider"} \X InvoiceId)
NoReference == <<"none", 0>>

\* A webhook: its redeliveries carry the same id and the same payload.
Event == [type: EventType, invoice: InvoiceId,
          reference: AnyReference \cup {NoReference}]
NoEvent == [type |-> "none", invoice |-> 0, reference |-> NoReference]

ReportStatus == {"reported", "verified", "rejected"}
AutoCheck == {"null", "pending", "approved", "rejected", "unsupported", "expired"}

ReportRow ==
  [status: ReportStatus \cup {"none"}, autoCheck: AutoCheck,
   invoice: InvoiceId \cup {0}, reference: AnyReference \cup {NoReference},
   planId: Plan, reportedAt: Date, coveredTo: Date]
NoReport ==
  [status |-> "none", autoCheck |-> "null", invoice |-> 0,
   reference |-> NoReference, planId |-> "none", reportedAt |-> NoDate,
   coveredTo |-> NoDate]

InvoiceRow ==
  [status: {"none", "open", "paid", "expired", "replaced"}, planId: Plan,
   expiresAt: Date]
NoInvoice == [status |-> "none", planId |-> "none", expiresAt |-> NoDate]

\* A subscription_event.  "by" is a history variable: the webhook that
\* verified the payment, or NoEvent when an administrator did.
Grant == [done: BOOLEAN, previousPeriodEnd: Date, newPeriodEnd: Date,
          by: Event \cup {NoEvent}]
NoGrant == [done |-> FALSE, previousPeriodEnd |-> NoDate,
            newPeriodEnd |-> NoDate, by |-> NoEvent]

Step == {"idle", "insertReport", "readSubscription", "saveVerified", "advance",
         "savePaid", "saveRejected", "readInvoice", "cancelDocument",
         "closeInvoice", "matchInvoice", "findReport", "createReport",
         "flagReport", "rejectReport", "saveExpired", "expireStale",
         "findLive", "replaceInvoice", "emitInvoice", "savePlan"}

Local == [step: Step, event: Event \cup {NoEvent},
          reportId: ReportId \cup {0}, report: ReportRow,
          invoiceId: InvoiceId \cup {0}, invoice: InvoiceRow,
          subscription: SubscriptionRow]
Idle == [step |-> "idle", event |-> NoEvent, reportId |-> 0,
         report |-> NoReport, invoiceId |-> 0, invoice |-> NoInvoice,
         subscription |-> NoSubscription]

Shapes ==
  /\ now \in Nat
  /\ subscription \in SubscriptionRow
  /\ report \in [ReportId -> ReportRow]
  /\ invoice \in [InvoiceId -> InvoiceRow]
  /\ granted \in [ReportId -> Grant]
  /\ recorded \subseteq Event
  /\ document \in [InvoiceId -> {"none", "live", "paid", "cancelled"}]
  /\ emitted \subseteq Event
  /\ local \in [Request -> Local]

\* A request that is about to write a report, or to read an invoice, knows
\* which: its copy is of a row.
NamesItsRows(copy) ==
  /\ copy.step \in {"readSubscription", "saveVerified", "advance", "saveRejected",
                    "flagReport", "rejectReport", "saveExpired"} => copy.reportId # 0
  /\ copy.step \in {"readInvoice", "matchInvoice"} => copy.invoiceId # 0

\* Every table and every copy has its type, and each copy is of a row.
TypeOK == Shapes /\ \A p \in Request : NamesItsRows(local[p])

Init ==
  /\ now = 1
  /\ subscription = NoSubscription
  /\ report = [r \in ReportId |-> NoReport]
  /\ invoice = [i \in InvoiceId |-> NoInvoice]
  /\ granted = [r \in ReportId |-> NoGrant]
  /\ recorded = {}
  /\ document = [i \in InvoiceId |-> "none"]
  /\ emitted = {}
  /\ local = [p \in Request |-> Idle]

-----------------------------------------------------------------------------
(* Queries and saves *)

At(p, step) == local[p].step = step
Goto(p, next) == local' = [local EXCEPT ![p] = next]
Finish(p) == Goto(p, Idle)
Arrives(p, operation) == operation \in Operations /\ At(p, "idle")

ReportsOf(i) == {r \in ReportId : report[r].status = "reported" /\ report[r].invoice = i}
IsLatest(r, S) == r \in S /\ \A s \in S : s <= r

\* findLive: the newest open invoice, and only if it has not run out.
OpenInvoices == {i \in InvoiceId : invoice[i].status = "open"}
IsLive(i) == IsLatest(i, OpenInvoices) /\ invoice[i].expiresAt > now

\* UQ_payment_report_company_active_reference: a report that is not rejected
\* holds its reference.
HoldsReference(row) == row.status \in {"reported", "verified"}
NoUniqueIndex(r, row) == TRUE
ReferenceFree(r, row) ==
  HoldsReference(row) =>
    \A s \in ReportId \ {r} :
      HoldsReference(report[s]) => report[s].reference # row.reference

CanSave(r, row) == ReferenceFree(r, row)
SaveReport(r, row) == report' = [report EXCEPT ![r] = row]
\* The unique index refuses the write, the request ends with an error.
SaveRefused(p, r, row) == ~CanSave(r, row) /\ Finish(p) /\ UNCHANGED tables

NewReportId(r) ==
  /\ report[r].status = "none"
  /\ \A s \in ReportId : s < r => report[s].status # "none"

\* ensureSubscription: the trial row, unless there is one.
MisnamedTrial ==
  [NoSubscription EXCEPT !.status = "trial", !.trialEndsAt = now + TrialLength]
StartTrial ==
  [NoSubscription EXCEPT !.status = "trialing", !.trialEndsAt = now + TrialLength]
RestartedTrial ==
  [subscription EXCEPT !.status = "trialing", !.trialEndsAt = now + TrialLength]
EnsuredSubscription ==
  IF subscription.status = "none" THEN StartTrial ELSE subscription
EnsureSubscription == subscription' = EnsuredSubscription

-----------------------------------------------------------------------------
(* Reporting a payment: payments.service.ts reportPayment *)

AutoCheckFor(covered, hasInvoice) ==
  IF ~CobrixEnabled THEN "null"
  ELSE IF covered /\ hasInvoice THEN "pending"
  ELSE "unsupported"

\* The last report with the reference must have been rejected, if any.
ReferenceIsNew(ref) ==
  LET same == {r \in ReportId : report[r].status # "none" /\ report[r].reference = ref}
  IN  \A r \in same : IsLatest(r, same) => report[r].status = "rejected"

\* buildPaymentReportDraft: the report is tied to the live invoice, if any.
PaymentDraft(ref, covered, i) ==
  [NoReport EXCEPT !.status = "reported",
                   !.autoCheck = AutoCheckFor(covered, i # 0),
                   !.invoice = i,
                   !.reference = Typed(ref),
                   !.planId = BillablePlanId(EnsuredSubscription.planId),
                   !.reportedAt = now]

ReportPayment(p, ref, covered) ==
  /\ Arrives(p, "report")
  /\ EnsureSubscription
  /\ ReferenceIsNew(Typed(ref))
  /\ \E i \in InvoiceId \cup {0} :
       /\ IF CobrixEnabled /\ \E j \in InvoiceId : IsLive(j)
          THEN i # 0 /\ IsLive(i) ELSE i = 0
       /\ Goto(p, [Idle EXCEPT !.step = "insertReport",
                               !.report = PaymentDraft(ref, covered, i)])
  /\ UNCHANGED <<now, report, invoice, granted, recorded, cobrix>>

InsertReport(p) ==
  /\ At(p, "insertReport")
  /\ \E r \in ReportId :
       /\ NewReportId(r)
       /\ \/ /\ CanSave(r, local[p].report)
             /\ SaveReport(r, local[p].report)
             /\ Finish(p)
             /\ UNCHANGED <<subscription, invoice, granted, recorded>>
          \/ SaveRefused(p, r, local[p].report)
  /\ UNCHANGED <<now, cobrix>>

-----------------------------------------------------------------------------
(* Verifying, by hand or by the gateway, and the month it buys *)

\* findReportedOrFail
AnyReport(r) == report[r].status # "none"
Resolvable(r) == report[r].status = "reported"

VerifyPayment(p, r) ==
  /\ Arrives(p, "verify")
  /\ Resolvable(r)
  /\ Goto(p, [Idle EXCEPT !.step = "readSubscription", !.reportId = r,
                          !.report = report[r]])
  /\ UNCHANGED <<now, tables, cobrix>>

ReadSubscription(p) ==
  /\ At(p, "readSubscription")
  /\ Goto(p, [local[p] EXCEPT !.step = "saveVerified", !.subscription = subscription])
  /\ UNCHANGED <<now, tables, cobrix>>

VerifiedReport(p) ==
  [local[p].report EXCEPT
     !.status = "verified",
     !.autoCheck = IF local[p].event = NoEvent THEN @ ELSE "approved"]

ForgetsToAdvance(p, row) ==
  [local[p] EXCEPT !.step = IF local[p].event = NoEvent THEN "idle" ELSE "savePaid", !.report = row]
AfterVerified(p, row) == [local[p] EXCEPT !.step = "advance", !.report = row]

SaveVerified(p) ==
  /\ At(p, "saveVerified")
  /\ LET r == local[p].reportId
         row == VerifiedReport(p)
     IN  \/ /\ CanSave(r, row)
            /\ SaveReport(r, row)
            /\ Goto(p, AfterVerified(p, row))
            /\ UNCHANGED <<subscription, invoice, granted, recorded>>
         \/ SaveRefused(p, r, row)
  /\ UNCHANGED <<now, cobrix>>

\* The cycle is computed from the subscription the CALLER read.
BoughtPeriodEnd(p) ==
  LET sub == local[p].subscription
  IN  PeriodCoverage(now, sub.currentPeriodEnd, sub.trialEndsAt).to

AdvancedSubscription(p) ==
  [local[p].subscription EXCEPT !.planId = local[p].report.planId,
                                !.status = "active",
                                !.currentPeriodEnd = BoughtPeriodEnd(p),
                                !.graceEndsAt = NoDate]

CoveredReport(p) ==
  [local[p].report EXCEPT !.coveredTo = BoughtPeriodEnd(p)]

AfterAdvance(p) ==
  IF local[p].event = NoEvent THEN Idle ELSE [local[p] EXCEPT !.step = "savePaid"]

\* The audit row of the report, and its unique payment_report_id.
NeverGranted(r) == FALSE
AlreadyGranted(r) == granted[r].done

\* One transaction: the event, the subscription and the report, or nothing.
AdvanceSubscription(p) ==
  /\ At(p, "advance")
  /\ LET r == local[p].reportId
         row == CoveredReport(p)
     IN  \/ /\ ~AlreadyGranted(r)
            /\ CanSave(r, row)
            /\ subscription' = AdvancedSubscription(p)
            /\ granted' = [granted EXCEPT ![r] =
                 [done |-> TRUE,
                  previousPeriodEnd |-> local[p].subscription.currentPeriodEnd,
                  newPeriodEnd |-> BoughtPeriodEnd(p),
                  by |-> local[p].event]]
            /\ SaveReport(r, row)
            /\ Goto(p, AfterAdvance(p))
            /\ UNCHANGED <<invoice, recorded>>
         \/ /\ AlreadyGranted(r)
            /\ Goto(p, AfterAdvance(p))
            /\ UNCHANGED tables
         \/ ~AlreadyGranted(r) /\ SaveRefused(p, r, row)
  /\ UNCHANGED <<now, cobrix>>

-----------------------------------------------------------------------------
(* Rejecting by hand, and releasing the invoice the report was made against *)

RejectPayment(p, r) ==
  /\ Arrives(p, "reject")
  /\ Resolvable(r)
  /\ Goto(p, [Idle EXCEPT !.step = "saveRejected", !.reportId = r, !.report = report[r]])
  /\ UNCHANGED <<now, tables, cobrix>>

SaveRejected(p) ==
  /\ At(p, "saveRejected")
  /\ SaveReport(local[p].reportId, [local[p].report EXCEPT !.status = "rejected"])
  /\ IF CobrixEnabled /\ local[p].report.invoice # 0
     THEN Goto(p, [Idle EXCEPT !.step = "readInvoice",
                               !.invoiceId = local[p].report.invoice])
     ELSE Finish(p)
  /\ UNCHANGED <<now, subscription, invoice, granted, recorded, cobrix>>

ThenRelease(i, row) ==
  IF row.status = "open"
  THEN [Idle EXCEPT !.step = "cancelDocument", !.invoiceId = i, !.invoice = row]
  ELSE Idle

ReadReleasedInvoice(p) ==
  /\ At(p, "readInvoice")
  /\ Goto(p, ThenRelease(local[p].invoiceId, invoice[local[p].invoiceId]))
  /\ UNCHANGED <<now, tables, cobrix>>

Webhook(type, i, ref) == [type |-> type, invoice |-> i, reference |-> ref]

LiveDocuments == {i \in InvoiceId : document[i] = "live"}

CancelInvoice(i) ==
  \/ /\ i \in LiveDocuments
     /\ document' = [document EXCEPT ![i] = "cancelled"]
     /\ emitted' = emitted \cup {Webhook("canceled", i, NoReference)}
  \/ UNCHANGED cobrix

\* cancelInvoice never throws: the invoice is closed here even if Cobrix
\* did not confirm.
CancelDocument(p) ==
  /\ At(p, "cancelDocument")
  /\ CancelInvoice(local[p].invoiceId)
  /\ Goto(p, [local[p] EXCEPT !.step = "closeInvoice"])
  /\ UNCHANGED <<now, tables>>

CloseInvoice(p) ==
  /\ At(p, "closeInvoice")
  /\ invoice' = [invoice EXCEPT ![local[p].invoiceId] =
                   [local[p].invoice EXCEPT !.status = "expired"]]
  /\ Finish(p)
  /\ UNCHANGED <<now, subscription, report, granted, recorded, cobrix>>

\* releaseAllForCompany, one invoice of its loop: an invoice with a payment
\* under review is left alone.
UnderReview(row) ==
  row.status = "reported" /\ row.autoCheck \notin {"rejected", "expired"}

ReleaseOpenInvoice(p, i) ==
  /\ Arrives(p, "releaseAll")
  /\ invoice[i].status = "open"
  /\ \A r \in ReportId : report[r].invoice = i => ~UnderReview(report[r])
  /\ Goto(p, ThenRelease(i, invoice[i]))
  /\ UNCHANGED <<now, tables, cobrix>>

-----------------------------------------------------------------------------
(* Webhooks *)

\* The event row goes in before anything is done, and its unique id refuses
\* every later delivery.
NoDuplicates(e) == FALSE
IsDuplicate(e) == e \in recorded

RecordEvent(p, e) ==
  /\ Arrives(p, "webhook")
  /\ ~IsDuplicate(e)
  /\ recorded' = recorded \cup {e}
  /\ Goto(p, [Idle EXCEPT !.step = "matchInvoice", !.event = e, !.invoiceId = e.invoice])
  /\ UNCHANGED <<now, subscription, report, invoice, granted, cobrix>>

AlreadyResolved(e, row) ==
  e.type \in {"paid", "paidOtherAmount"} /\ row.status = "paid"

MatchInvoice(p) ==
  /\ At(p, "matchInvoice")
  /\ LET row == invoice[local[p].invoiceId]
     IN  IF AlreadyResolved(local[p].event, row)
         THEN Finish(p)
         ELSE Goto(p, [local[p] EXCEPT !.step = "findReport", !.invoice = row])
  /\ UNCHANGED <<now, tables, cobrix>>

\* What each event does with the reported report of its invoice ...
OnReport(p, r) ==
  LET found(step) == [local[p] EXCEPT !.step = step, !.reportId = r, !.report = report[r]]
  IN  CASE local[p].event.type = "paid" -> found("readSubscription")
        [] local[p].event.type \in {"paidOtherAmount", "canceled"} -> found("flagReport")
        [] local[p].event.type = "failed" -> found("rejectReport")
        [] OTHER -> Idle

\* ... and when the invoice has none.
OnNoReport(p) ==
  CASE local[p].event.type \in {"paid", "completed"} ->
         [local[p] EXCEPT !.step = "createReport"]
    [] local[p].event.type = "canceled" /\ local[p].invoice.status = "open" ->
         [local[p] EXCEPT !.step = "closeInvoice"]
    [] local[p].event.type = "failed" -> ThenRelease(local[p].invoiceId, local[p].invoice)
    [] OTHER -> Idle

FindReport(p) ==
  /\ At(p, "findReport")
  /\ LET candidates == ReportsOf(local[p].invoiceId)
     IN  IF candidates = {}
         THEN Goto(p, OnNoReport(p))
         ELSE \E r \in candidates : IsLatest(r, candidates) /\ Goto(p, OnReport(p, r))
  /\ UNCHANGED <<now, tables, cobrix>>

\* createReportFor and createPendingReport
GatewayReport(p) ==
  [status |-> "reported", autoCheck |-> "pending",
   invoice |-> local[p].invoiceId, reference |-> local[p].event.reference,
   planId |-> local[p].invoice.planId, reportedAt |-> now, coveredTo |-> NoDate]

CreateReport(p) ==
  /\ At(p, "createReport")
  /\ \E r \in ReportId :
       LET row == GatewayReport(p)
       IN  /\ NewReportId(r)
           /\ \/ /\ CanSave(r, row)
                 /\ SaveReport(r, row)
                 /\ IF local[p].event.type = "paid"
                    THEN Goto(p, [local[p] EXCEPT !.step = "readSubscription",
                                                  !.reportId = r, !.report = row])
                    ELSE Finish(p)
                 /\ UNCHANGED <<subscription, invoice, granted, recorded>>
              \/ SaveRefused(p, r, row)
  /\ UNCHANGED <<now, cobrix>>

\* flagForManualReview: only the automatic verdict changes in the copy.
FlagReport(p) ==
  /\ At(p, "flagReport")
  /\ LET r == local[p].reportId
         row == [local[p].report EXCEPT !.autoCheck = "rejected"]
     IN  \/ /\ CanSave(r, row)
            /\ SaveReport(r, row)
            /\ IF local[p].event.type = "canceled" /\ local[p].invoice.status = "open"
               THEN Goto(p, [local[p] EXCEPT !.step = "closeInvoice"])
               ELSE Finish(p)
            /\ UNCHANGED <<subscription, invoice, granted, recorded>>
         \/ SaveRefused(p, r, row)
  /\ UNCHANGED <<now, cobrix>>

\* rejectFromGateway, then release() of the invoice read at the start.
RejectReport(p) ==
  /\ At(p, "rejectReport")
  /\ SaveReport(local[p].reportId,
       [local[p].report EXCEPT !.status = "rejected", !.autoCheck = "rejected"])
  /\ Goto(p, ThenRelease(local[p].invoiceId, local[p].invoice))
  /\ UNCHANGED <<now, subscription, invoice, granted, recorded, cobrix>>

SavePaid(p) ==
  /\ At(p, "savePaid")
  /\ invoice' = [invoice EXCEPT ![local[p].invoiceId] =
                   [local[p].invoice EXCEPT !.status = "paid"]]
  /\ Finish(p)
  /\ UNCHANGED <<now, subscription, report, granted, recorded, cobrix>>

-----------------------------------------------------------------------------
(* The sweep of reports Cobrix never answered.  A batch saves every row     *)
(* from its own copy; a batch of one shows all that can happen to a row.    *)

SweepRead(p, r) ==
  /\ Arrives(p, "sweep")
  /\ CobrixEnabled
  /\ report[r].status = "reported" /\ report[r].autoCheck = "pending"
  /\ report[r].reportedAt + WaitTime < now
  /\ Goto(p, [Idle EXCEPT !.step = "saveExpired", !.reportId = r, !.report = report[r]])
  /\ UNCHANGED <<now, tables, cobrix>>

SweepSave(p) ==
  /\ At(p, "saveExpired")
  /\ LET r == local[p].reportId
         row == [local[p].report EXCEPT !.autoCheck = "expired"]
     IN  \/ /\ CanSave(r, row)
            /\ SaveReport(r, row)
            /\ Finish(p)
            /\ UNCHANGED <<subscription, invoice, granted, recorded>>
         \/ SaveRefused(p, r, row)
  /\ UNCHANGED <<now, cobrix>>

-----------------------------------------------------------------------------
(* Checkout: cobrix-invoice.service.ts startCheckout *)

\* NOT IN leaves out a NULL verdict, so a report without one does not block.
BlocksCheckout(row) ==
  row.status = "reported" /\ row.autoCheck \notin {"null", "rejected", "expired"}

StartCheckout(p, planId) ==
  /\ Arrives(p, "checkout")
  /\ CobrixEnabled
  /\ EnsureSubscription
  /\ \A r \in ReportId : ~BlocksCheckout(report[r])
  /\ Goto(p, [Idle EXCEPT !.step = "expireStale",
                          !.subscription = [EnsuredSubscription EXCEPT !.planId =
                             IF planId = "none" THEN BillablePlanId(@) ELSE planId]])
  /\ UNCHANGED <<now, report, invoice, granted, recorded, cobrix>>

ExpireStale(p) ==
  /\ At(p, "expireStale")
  /\ invoice' = [i \in InvoiceId |->
       IF invoice[i].status = "open" /\ invoice[i].expiresAt <= now
       THEN [invoice[i] EXCEPT !.status = "expired"] ELSE invoice[i]]
  /\ Goto(p, [local[p] EXCEPT !.step = "findLive"])
  /\ UNCHANGED <<now, subscription, report, granted, recorded, cobrix>>

FindLive(p, newIdentification) ==
  /\ At(p, "findLive")
  /\ IF \E i \in InvoiceId : IsLive(i)
     THEN \E i \in InvoiceId :
            /\ IsLive(i)
            /\ IF newIdentification \/ invoice[i].planId # local[p].subscription.planId
               THEN Goto(p, [local[p] EXCEPT !.step = "replaceInvoice",
                               !.invoiceId = i, !.invoice = invoice[i]])
               ELSE Finish(p)
     ELSE Goto(p, [local[p] EXCEPT !.step = "emitInvoice"])
  /\ UNCHANGED <<now, tables, cobrix>>

ReplaceInvoice(p) ==
  /\ At(p, "replaceInvoice")
  /\ invoice' = [invoice EXCEPT ![local[p].invoiceId] =
                   [local[p].invoice EXCEPT !.status = "replaced"]]
  /\ Goto(p, [local[p] EXCEPT !.step = "emitInvoice", !.invoiceId = 0,
                              !.invoice = NoInvoice])
  /\ UNCHANGED <<now, subscription, report, granted, recorded, cobrix>>

\* The document is created in Cobrix and then the row is inserted.  If the
\* insert fails the document is an orphan nobody is shown: it is left out.
EmitInvoice(p) ==
  /\ At(p, "emitInvoice")
  /\ \E i \in InvoiceId :
       /\ invoice[i].status = "none"
       /\ \A j \in InvoiceId : j < i => invoice[j].status # "none"
       /\ invoice' = [invoice EXCEPT ![i] =
            [status |-> "open", planId |-> local[p].subscription.planId,
             expiresAt |-> now + InvoiceTtl]]
       /\ document' = [document EXCEPT ![i] = "live"]
  /\ Finish(p)
  /\ UNCHANGED <<now, subscription, report, granted, recorded, emitted>>

-----------------------------------------------------------------------------
(* Choosing a plan: subscription.service.ts choosePlan *)

PaidPeriodRunning(sub) == sub.currentPeriodEnd > now

ChoosePlan(p, planId) ==
  /\ Arrives(p, "choosePlan")
  /\ EnsureSubscription
  /\ EnsuredSubscription.planId # planId
  /\ ~PaidPeriodRunning(EnsuredSubscription)
  /\ Goto(p, [Idle EXCEPT !.step = "savePlan",
                !.subscription = [EnsuredSubscription EXCEPT !.planId = planId]])
  /\ UNCHANGED <<now, report, invoice, granted, recorded, cobrix>>

SavePlan(p) ==
  /\ At(p, "savePlan")
  /\ subscription' = local[p].subscription
  /\ Finish(p)
  /\ UNCHANGED <<now, report, invoice, granted, recorded, cobrix>>

-----------------------------------------------------------------------------
(* Failures and the outside world *)

\* An exception, a timeout or a crash of the process ends a request between
\* two of its steps; what it already wrote stays.
Fail(p) ==
  /\ "fail" \in Operations
  /\ ~At(p, "idle")
  /\ Finish(p)
  /\ UNCHANGED <<now, tables, cobrix>>

\* The owner pays a live document through its link: Cobrix reconciles the
\* payment and announces it on both channels, each with the reference of the
\* payment it knows or, lacking one, the invoice's own.
OwnerPays(i, type) ==
  /\ document[i] = "live"
  /\ document' = [document EXCEPT ![i] = "paid"]
  /\ \E paymentRef \in {<<"payment", i>>, <<"provider", i>>},
        typedRef \in {Typed(ref) : ref \in Reference} \cup {<<"provider", i>>} :
       emitted' = emitted \cup {Webhook(type, i, paymentRef),
                                Webhook("completed", i, typedRef)}
  /\ UNCHANGED <<now, tables, local>>

\* An attempt to pay the document fails; it can still be paid.
PaymentFails(i) ==
  /\ "decline" \in Operations
  /\ document[i] = "live"
  /\ emitted' = emitted \cup {Webhook("failed", i, NoReference)}
  /\ UNCHANGED <<now, tables, document, local>>

\* Somebody cancels the document in Cobrix's own panel.
CanceledInCobrix(i) ==
  /\ "decline" \in Operations
  /\ document[i] = "live"
  /\ document' = [document EXCEPT ![i] = "cancelled"]
  /\ emitted' = emitted \cup {Webhook("canceled", i, NoReference)}
  /\ UNCHANGED <<now, tables, local>>

Tick ==
  /\ now < MaxNow
  /\ now' = now + 1
  /\ UNCHANGED <<tables, cobrix, local>>

RequestStep(p) ==
  \/ InsertReport(p) \/ ReadSubscription(p) \/ SaveVerified(p)
  \/ AdvanceSubscription(p) \/ SaveRejected(p) \/ ReadReleasedInvoice(p)
  \/ CancelDocument(p) \/ CloseInvoice(p) \/ MatchInvoice(p) \/ FindReport(p)
  \/ CreateReport(p) \/ FlagReport(p) \/ RejectReport(p) \/ SavePaid(p)
  \/ SweepSave(p) \/ ExpireStale(p) \/ ReplaceInvoice(p) \/ EmitInvoice(p)
  \/ SavePlan(p)
  \/ \E newIdentification \in BOOLEAN : FindLive(p, newIdentification)

Arrival(p) ==
  \/ \E ref \in Reference, covered \in BOOLEAN : ReportPayment(p, ref, covered)
  \/ \E r \in ReportId : VerifyPayment(p, r) \/ RejectPayment(p, r) \/ SweepRead(p, r)
  \/ \E i \in InvoiceId : ReleaseOpenInvoice(p, i)
  \/ \E planId \in Choices \cup {"none"} : StartCheckout(p, planId)
  \/ \E planId \in Choices : ChoosePlan(p, planId)

Delivery(p) == \E e \in emitted : RecordEvent(p, e)

World ==
  \/ \E i \in InvoiceId, type \in {"paid", "paidOtherAmount"} : OwnerPays(i, type)
  \/ \E i \in InvoiceId : PaymentFails(i) \/ CanceledInCobrix(i)
  \/ Tick

Next ==
  \/ \E p \in Request : RequestStep(p) \/ Arrival(p) \/ Delivery(p) \/ Fail(p)
  \/ World

Spec == Init /\ [][Next]_vars

\* Node resumes every request whose awaited call has answered; nothing makes
\* a request arrive, a payment happen or Cobrix deliver.
Fairness == \A p \in Request : WF_vars(RequestStep(p))
FairSpec == Spec /\ Fairness

-----------------------------------------------------------------------------
(* Properties *)

Granted == {r \in ReportId : granted[r].done}

PaidFor(periodEnd) ==
  periodEnd <= Later(now, subscription.trialEndsAt) + Month * Cardinality(Granted)

\* "Pagar antes no regala dias": however requests interleave, the paid period
\* never reaches further than the months that verified payments bought, counted
\* from the later of today and the end of the trial (advanceSubscription).
NoFreeMonths == PaidFor(subscription.currentPeriodEnd)

\* A report says which cycle it bought only while it stands verified, and says
\* the same as the audit row: no save of a stale copy of the report can leave
\* covered_to on a report that is open or rejected (advanceSubscription,
\* flagForManualReview, rejectPayment, escalateStaleReports).
FrozenCoverage ==
  \A r \in ReportId : report[r].coveredTo # NoDate =>
    /\ report[r].status = "verified"
    /\ granted[r].done
    /\ report[r].coveredTo = granted[r].newPeriodEnd

\* An invoice marked paid has bought a month, even if the webhook died halfway
\* (processInvoiceEvent marks it after advanceSubscription has committed).
PaidMeansExtended ==
  \A i \in InvoiceId : invoice[i].status = "paid" =>
    \E r \in Granted : report[r].invoice = i

\* However often Cobrix delivers a webhook, and to however many processes at
\* once, it buys at most one month (record and the unique event id).
OneMonthPerDelivery ==
  \A r, s \in Granted :
    r # s /\ granted[r].by # NoEvent => granted[r].by # granted[s].by

\* Two reports that are not rejected never carry the same reference, also when
\* a stale save brings a rejected report back (the unique active_reference).
OneClaimPerReference ==
  \A r, s \in ReportId :
    /\ r # s
    /\ HoldsReference(report[r]) /\ HoldsReference(report[s])
    => report[r].reference # report[s].reference

\* "Pagar antes no quita dias": every payment buys a cycle of its own, no two
\* overlap, and the subscription reaches to the end of the last one.
CyclesChained ==
  /\ \A r, s \in Granted : r # s =>
       \/ granted[r].newPeriodEnd + Month <= granted[s].newPeriodEnd
       \/ granted[s].newPeriodEnd + Month <= granted[r].newPeriodEnd
  /\ \A r \in Granted : granted[r].newPeriodEnd <= subscription.currentPeriodEnd

\* With one request at a time the tables implement the promise of PrepaidMonths:
\* every step is a trial started, a month bought by a payment that had bought
\* none, a tick, or invisible (ensureSubscription, advanceSubscription).
Ledger ==
  INSTANCE PrepaidMonths WITH
    Payment <- ReportId,
    trialUntil <- subscription.trialEndsAt,
    paidUntil <- subscription.currentPeriodEnd,
    bought <- Granted
KeepsItsPromise == Ledger!Spec

\* A report is resolved once: verified and rejected are final.
ResolvedOnce ==
  [][\A r \in ReportId :
       report[r].status \in {"verified", "rejected"} =>
         report'[r].status = report[r].status]_vars

\* A paid invoice stays paid: no release, cancellation or expiry reopens the
\* charge or forgets that it was collected (release, processInvoiceEvent).
PaidIsFinal ==
  [][\A i \in InvoiceId :
       invoice[i].status = "paid" => invoice'[i].status = "paid"]_vars

\* A verdict is final, on a report and on an invoice alike.
VerdictsAreFinal == ResolvedOnce /\ PaidIsFinal

\* Each delivery of a payment buys one month, the invoice marked paid has it, and
\* the report that bought it says so (processInvoiceEvent, advanceSubscription).
PaymentsBuyMonths == FrozenCoverage /\ PaidMeansExtended /\ OneMonthPerDelivery

\* While no request dies, a confirmed payment is never dropped: once nobody is
\* working on its invoice.paid, the invoice has its month or a claim that
\* stands (processInvoiceEvent against the general channel).
PaymentNotDropped ==
  \A e \in recorded :
    e.type = "paid" /\ (\A p \in Request : local[p].event # e) =>
      \E r \in ReportId :
        /\ report[r].invoice = e.invoice
        /\ granted[r].done \/ HoldsReference(report[r])

\* A verified report gets its month: no interleaving of the other requests
\* keeps a verification that does not crash from advancing the subscription.
VerifiedIsGranted ==
  \A r \in ReportId : (report[r].status = "verified") ~> granted[r].done

\* A payment comes through: confirmed, it is not dropped; verified, it is granted.
PaymentsComeThrough == []PaymentNotDropped /\ VerifiedIsGranted

-----------------------------------------------------------------------------
(* What makes NoFreeMonths inductive *)

\* Before the first ensureSubscription there is nothing to pay or to verify.
Untouched ==
  /\ \A r \in ReportId : report[r].status = "none"
  /\ \A i \in InvoiceId : invoice[i].status = "none" /\ document[i] = "none"
  /\ emitted = {}
  /\ \A p \in Request : local[p].step = "idle"

\* A copy of the subscription that will be written back is of a row with the
\* same trial, and promises no more than was paid for.
HoldsPaidCopy(p) ==
  local[p].step \in {"saveVerified", "advance", "savePlan"} =>
    /\ local[p].subscription.status # "none"
    /\ local[p].subscription.trialEndsAt = subscription.trialEndsAt
    /\ PaidFor(local[p].subscription.currentPeriodEnd)

PeriodsBacked ==
  /\ subscription.status = "none" => Untouched
  /\ NoFreeMonths
  /\ \A p \in Request : HoldsPaidCopy(p)

=============================================================================
