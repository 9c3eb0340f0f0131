--------------------- MODULE SubscriptionPaymentsProofs ---------------------
(***************************************************************************)
(* Theorems about SubscriptionPayments, for every set of requests and      *)
(* every bound: type correctness, and the safety properties it leads to.   *)
(***************************************************************************)
EXTENDS SubscriptionPayments, FiniteSetTheorems, TLAPS

-----------------------------------------------------------------------------
(* The rows and the copies requests hold have their types. *)

LEMMA NoRowsType ==
  /\ NoSubscription \in SubscriptionRow
  /\ NoReport \in ReportRow
  /\ NoInvoice \in InvoiceRow
  /\ NoGrant \in Grant
  /\ NoEvent \in Event \cup {NoEvent}
  /\ Idle \in Local
<1>1. NoSubscription \in SubscriptionRow
  BY DEF NoSubscription, SubscriptionRow, Plan, Date, NoDate
<1>2. NoReport \in ReportRow
  BY DEF NoReport, ReportRow, Plan, Date, NoDate, AutoCheck
<1>3. NoInvoice \in InvoiceRow
  BY DEF NoInvoice, InvoiceRow, Plan, Date, NoDate
<1>4. NoGrant \in Grant
  BY DEF NoGrant, Grant, Date, NoDate
<1>5. Idle \in Local
  BY <1>1, <1>2, <1>3 DEF Idle, Local, Step
<1>. QED BY <1>1, <1>2, <1>3, <1>4, <1>5

LEMMA GotoType ==
  ASSUME TypeOK, NEW p \in Request, NEW next \in Local, Goto(p, next)
  PROVE  local' \in [Request -> Local]
BY DEF TypeOK, Shapes, Goto

LEMMA FinishType ==
  ASSUME TypeOK, NEW p \in Request, Finish(p)
  PROVE  local' \in [Request -> Local]
BY NoRowsType, GotoType DEF Finish

LEMMA SaveType ==
  ASSUME TypeOK, NEW r \in ReportId, NEW row \in ReportRow, SaveReport(r, row)
  PROVE  report' \in [ReportId -> ReportRow]
BY DEF TypeOK, Shapes, SaveReport

LEMMA LocalType ==
  ASSUME TypeOK, NEW p \in Request
  PROVE  /\ local[p] \in Local
         /\ local[p].report \in ReportRow
         /\ local[p].invoice \in InvoiceRow
         /\ local[p].subscription \in SubscriptionRow
         /\ local[p].event \in Event \cup {NoEvent}
         /\ local[p].reportId \in ReportId \cup {0}
         /\ local[p].invoiceId \in InvoiceId \cup {0}
<1>1. local[p] \in Local
  BY DEF TypeOK, Shapes
<1>. QED BY <1>1 DEF Local

LEMMA EnsuredType ==
  ASSUME TypeOK
  PROVE  EnsuredSubscription \in SubscriptionRow
<1>1. now + TrialLength \in Nat
  BY BoundAssumption DEF TypeOK, Shapes
<1>2. StartTrial \in SubscriptionRow
  BY <1>1 DEF StartTrial, NoSubscription, SubscriptionRow, Date, NoDate, Plan
<1>. QED BY <1>2 DEF EnsuredSubscription, TypeOK, Shapes

\* A copy that moves to another step stays a copy.
LEMMA MoveType ==
  ASSUME TypeOK, NEW p \in Request, NEW step \in Step
  PROVE  [local[p] EXCEPT !.step = step] \in Local
BY LocalType DEF Local

LEMMA ThenReleaseType ==
  ASSUME NEW i \in InvoiceId \cup {0}, NEW row \in InvoiceRow
  PROVE  ThenRelease(i, row) \in Local
BY NoRowsType DEF ThenRelease, Local, Step, Idle

LEMMA CoverageType ==
  ASSUME NEW today \in Nat, NEW periodEnd \in Nat, NEW trialEnd \in Nat
  PROVE  PeriodCoverage(today, periodEnd, trialEnd).to \in Nat
BY PeriodAssumption DEF PeriodCoverage, AddMonth, Later

-----------------------------------------------------------------------------
(* Every step keeps the types: one lemma per action. *)

LEMMA ReportPaymentType ==
  ASSUME TypeOK, NEW p \in Request, NEW ref \in Reference, NEW covered \in BOOLEAN,
         ReportPayment(p, ref, covered)
  PROVE  Shapes'
<1>1. EnsuredSubscription \in SubscriptionRow
  BY EnsuredType
<1>2. ASSUME NEW i \in InvoiceId \cup {0}
      PROVE  PaymentDraft(ref, covered, i) \in ReportRow
  <2>1. AutoCheckFor(covered, i # 0) \in AutoCheck
    BY DEF AutoCheckFor, AutoCheck
  <2>2. Typed(ref) \in AnyReference
    BY DEF AnyReference
  <2>3. BillablePlanId(EnsuredSubscription.planId) \in Plan
    BY <1>1 DEF BillablePlanId, TrialPlanId, Plan, SubscriptionRow
  <2>. QED
    BY <2>1, <2>2, <2>3 DEF PaymentDraft, ReportRow, NoReport, ReportStatus, Date, NoDate, TypeOK, Shapes
<1>3. ASSUME NEW i \in InvoiceId \cup {0}
      PROVE  [Idle EXCEPT !.step = "insertReport",
                          !.report = PaymentDraft(ref, covered, i)] \in Local
  BY <1>2, NoRowsType DEF Local, Step, Idle
<1>4. local' \in [Request -> Local]
  BY <1>3, GotoType DEF ReportPayment
<1>. QED
  BY <1>1, <1>4 DEF ReportPayment, TypeOK, Shapes, EnsureSubscription, cobrix

LEMMA InsertReportType ==
  ASSUME TypeOK, NEW p \in Request, InsertReport(p)
  PROVE  Shapes'
<1>1. local' \in [Request -> Local]
  BY FinishType DEF InsertReport, SaveRefused
<1>2. report' \in [ReportId -> ReportRow]
  BY LocalType, SaveType DEF InsertReport, SaveRefused, tables, TypeOK, Shapes
<1>. QED
  BY <1>1, <1>2 DEF InsertReport, SaveRefused, tables, cobrix, TypeOK, Shapes

LEMMA ResolutionStartsType ==
  ASSUME TypeOK, NEW p \in Request, NEW r \in ReportId,
         VerifyPayment(p, r) \/ RejectPayment(p, r) \/ SweepRead(p, r)
  PROVE  Shapes'
<1>1. ASSUME NEW step \in Step
      PROVE  [Idle EXCEPT !.step = step, !.reportId = r, !.report = report[r]] \in Local
  BY NoRowsType DEF Local, Idle, TypeOK, Shapes
<1>2. local' \in [Request -> Local]
  BY <1>1, GotoType DEF VerifyPayment, RejectPayment, SweepRead, Step
<1>. QED
  BY <1>2 DEF VerifyPayment, RejectPayment, SweepRead, tables, cobrix, TypeOK, Shapes

LEMMA ReadSubscriptionType ==
  ASSUME TypeOK, NEW p \in Request, ReadSubscription(p)
  PROVE  Shapes'
<1>1. [local[p] EXCEPT !.step = "saveVerified", !.subscription = subscription] \in Local
  BY LocalType, ZenonT(30) DEF Local, Step, TypeOK, Shapes
<1>. QED
  BY <1>1, GotoType DEF ReadSubscription, tables, cobrix, TypeOK, Shapes

LEMMA SaveVerifiedType ==
  ASSUME TypeOK, NEW p \in Request, SaveVerified(p)
  PROVE  Shapes'
<1>1. VerifiedReport(p) \in ReportRow
  BY LocalType DEF VerifiedReport, ReportRow, ReportStatus, AutoCheck
<1>2. AfterVerified(p, VerifiedReport(p)) \in Local
  BY <1>1, LocalType DEF AfterVerified, Local, Step
<1>3. local' \in [Request -> Local]
  BY <1>2, GotoType, FinishType DEF SaveVerified, SaveRefused
<1>4. report' \in [ReportId -> ReportRow]
  BY <1>1 DEF SaveVerified, SaveRefused, SaveReport, tables, TypeOK, Shapes
<1>. QED
  BY <1>3, <1>4 DEF SaveVerified, SaveRefused, tables, cobrix, TypeOK, Shapes

LEMMA AdvanceTypes ==
  ASSUME TypeOK, NEW p \in Request
  PROVE  /\ BoughtPeriodEnd(p) \in Nat
         /\ AdvancedSubscription(p) \in SubscriptionRow
         /\ CoveredReport(p) \in ReportRow
         /\ AfterAdvance(p) \in Local
<1>1. BoughtPeriodEnd(p) \in Nat
  BY LocalType, CoverageType DEF BoughtPeriodEnd, TypeOK, Shapes, SubscriptionRow, Date
<1>3. local[p].report.planId \in Plan
  BY LocalType DEF ReportRow
<1>4. AdvancedSubscription(p) \in SubscriptionRow
  BY <1>1, <1>3, LocalType DEF AdvancedSubscription, SubscriptionRow, Date, NoDate
<1>5. CoveredReport(p) \in ReportRow
  BY <1>1, LocalType DEF CoveredReport, ReportRow, Date
<1>6. AfterAdvance(p) \in Local
  BY NoRowsType, MoveType DEF AfterAdvance, Step
<1>. QED BY <1>1, <1>4, <1>5, <1>6

LEMMA AdvanceSubscriptionType ==
  ASSUME TypeOK, NEW p \in Request, AdvanceSubscription(p)
  PROVE  Shapes'
<1>1. local' \in [Request -> Local]
  BY AdvanceTypes, GotoType, FinishType DEF AdvanceSubscription, SaveRefused
<1>2. report' \in [ReportId -> ReportRow]
  BY AdvanceTypes DEF AdvanceSubscription, SaveRefused, SaveReport, tables, TypeOK, Shapes
<1>3. subscription' \in SubscriptionRow
  BY AdvanceTypes DEF AdvanceSubscription, SaveRefused, tables, TypeOK, Shapes
<1>4. [done |-> TRUE,
       previousPeriodEnd |-> local[p].subscription.currentPeriodEnd,
       newPeriodEnd |-> BoughtPeriodEnd(p),
       by |-> local[p].event] \in Grant
  BY AdvanceTypes, LocalType DEF Grant, SubscriptionRow, Date
<1>5. granted' \in [ReportId -> Grant]
  BY <1>4 DEF AdvanceSubscription, SaveRefused, tables, TypeOK, Shapes
<1>. QED
  BY <1>1, <1>2, <1>3, <1>5 DEF AdvanceSubscription, SaveRefused, tables, cobrix, TypeOK, Shapes

LEMMA SaveRejectedType ==
  ASSUME TypeOK, NEW p \in Request, SaveRejected(p)
  PROVE  Shapes'
<1>1. [local[p].report EXCEPT !.status = "rejected"] \in ReportRow
  BY LocalType DEF ReportRow, ReportStatus
<1>2. [Idle EXCEPT !.step = "readInvoice", !.invoiceId = local[p].report.invoice] \in Local
  BY LocalType, NoRowsType DEF Local, Step, Idle, ReportRow
<1>3. local' \in [Request -> Local]
  BY <1>2, GotoType, FinishType DEF SaveRejected
<1>. QED
  BY <1>1, <1>3 DEF SaveRejected, SaveReport, cobrix, TypeOK, Shapes

LEMMA ReadReleasedInvoiceType ==
  ASSUME TypeOK, NEW p \in Request, ReadReleasedInvoice(p)
  PROVE  Shapes'
<1>1. local[p].invoiceId \in InvoiceId
  BY LocalType DEF ReadReleasedInvoice, At, TypeOK, NamesItsRows
<1>2. invoice[local[p].invoiceId] \in InvoiceRow
  BY <1>1 DEF TypeOK, Shapes
<1>3. local' \in [Request -> Local]
  BY <1>2, LocalType, ThenReleaseType, GotoType DEF ReadReleasedInvoice
<1>. QED
  BY <1>3 DEF ReadReleasedInvoice, tables, cobrix, TypeOK, Shapes

LEMMA CanceledEventType ==
  ASSUME NEW i \in InvoiceId, NEW type \in {"canceled", "failed"}
  PROVE  Webhook(type, i, NoReference) \in Event
BY DEF Webhook, Event, EventType, InvoiceEvent, GeneralEvent

LEMMA CancelDocumentType ==
  ASSUME TypeOK, NEW p \in Request, CancelDocument(p)
  PROVE  Shapes'
<1>1. local' \in [Request -> Local]
  BY MoveType, GotoType DEF CancelDocument, Step
<1>2. emitted' \subseteq Event
  BY CanceledEventType DEF CancelDocument, CancelInvoice, LiveDocuments, cobrix, TypeOK, Shapes
<1>3. document' \in [InvoiceId -> {"none", "live", "paid", "cancelled"}]
  BY DEF CancelDocument, CancelInvoice, LiveDocuments, cobrix, TypeOK, Shapes
<1>. QED
  BY <1>1, <1>2, <1>3 DEF CancelDocument, tables, TypeOK, Shapes

LEMMA InvoiceSavedType ==
  ASSUME TypeOK, NEW p \in Request, NEW status \in {"paid", "expired", "replaced"}
  PROVE  [invoice EXCEPT ![local[p].invoiceId] =
            [local[p].invoice EXCEPT !.status = status]] \in [InvoiceId -> InvoiceRow]
<1>1. [local[p].invoice EXCEPT !.status = status] \in InvoiceRow
  BY LocalType DEF InvoiceRow
<1>. QED BY <1>1 DEF TypeOK, Shapes

LEMMA InvoiceClosesType ==
  ASSUME TypeOK, NEW p \in Request, CloseInvoice(p) \/ SavePaid(p)
  PROVE  Shapes'
<1>1. local' \in [Request -> Local]
  BY FinishType DEF CloseInvoice, SavePaid
<1>2. CASE CloseInvoice(p)
  <2>1. invoice' \in [InvoiceId -> InvoiceRow]
    BY <1>2, InvoiceSavedType DEF CloseInvoice
  <2>. QED BY <1>1, <1>2, <2>1 DEF CloseInvoice, cobrix, TypeOK, Shapes
<1>3. CASE SavePaid(p)
  <2>1. invoice' \in [InvoiceId -> InvoiceRow]
    BY <1>3, InvoiceSavedType DEF SavePaid
  <2>. QED BY <1>1, <1>3, <2>1 DEF SavePaid, cobrix, TypeOK, Shapes
<1>. QED BY <1>2, <1>3

LEMMA ReleaseOpenInvoiceType ==
  ASSUME TypeOK, NEW p \in Request, NEW i \in InvoiceId, ReleaseOpenInvoice(p, i)
  PROVE  Shapes'
<1>1. ThenRelease(i, invoice[i]) \in Local
  BY ThenReleaseType DEF TypeOK, Shapes
<1>. QED
  BY <1>1, GotoType DEF ReleaseOpenInvoice, tables, cobrix, TypeOK, Shapes

LEMMA RecordEventType ==
  ASSUME TypeOK, NEW p \in Request, NEW e \in emitted, RecordEvent(p, e)
  PROVE  Shapes'
<1>1. e \in Event /\ e.invoice \in InvoiceId
  BY DEF TypeOK, Shapes, Event
<1>2. [Idle EXCEPT !.step = "matchInvoice", !.event = e, !.invoiceId = e.invoice] \in Local
  BY <1>1, NoRowsType DEF Local, Step, Idle
<1>3. local' \in [Request -> Local]
  BY <1>2, GotoType DEF RecordEvent
<1>. QED
  BY <1>1, <1>3 DEF RecordEvent, cobrix, TypeOK, Shapes

LEMMA MatchInvoiceType ==
  ASSUME TypeOK, NEW p \in Request, MatchInvoice(p)
  PROVE  Shapes'
<1>1. local[p].invoiceId \in InvoiceId
  BY LocalType DEF MatchInvoice, At, TypeOK, NamesItsRows
<1>2. invoice[local[p].invoiceId] \in InvoiceRow
  BY <1>1 DEF TypeOK, Shapes
<1>3. [local[p] EXCEPT !.step = "findReport",
                       !.invoice = invoice[local[p].invoiceId]] \in Local
  BY <1>2, LocalType DEF Local, Step
<1>4. local' \in [Request -> Local]
  BY <1>3, GotoType, FinishType DEF MatchInvoice
<1>. QED
  BY <1>4 DEF MatchInvoice, tables, cobrix, TypeOK, Shapes

LEMMA FindReportType ==
  ASSUME TypeOK, NEW p \in Request, FindReport(p)
  PROVE  Shapes'
<1>1. OnNoReport(p) \in Local
  BY LocalType, NoRowsType, MoveType, ThenReleaseType DEF OnNoReport, Step
<1>2. ASSUME NEW r \in ReportId
      PROVE  OnReport(p, r) \in Local
  <2>1. ASSUME NEW step \in Step
        PROVE  [local[p] EXCEPT !.step = step, !.reportId = r, !.report = report[r]] \in Local
    BY LocalType DEF Local, TypeOK, Shapes
  <2>. QED BY <2>1, NoRowsType DEF OnReport, Step
<1>3. local' \in [Request -> Local]
  BY <1>1, <1>2, GotoType DEF FindReport, ReportsOf
<1>. QED
  BY <1>3 DEF FindReport, tables, cobrix, TypeOK, Shapes

LEMMA GatewayReportType ==
  ASSUME TypeOK, NEW p \in Request
  PROVE  GatewayReport(p) \in ReportRow
<1>1. local[p].event.reference \in AnyReference \cup {NoReference}
  BY LocalType DEF Event, NoEvent
<1>2. local[p].invoice.planId \in Plan
  BY LocalType DEF InvoiceRow
<1>. QED
  BY <1>1, <1>2, LocalType
  DEF GatewayReport, ReportRow, ReportStatus, AutoCheck, Date, NoDate, TypeOK, Shapes

LEMMA CreateReportType ==
  ASSUME TypeOK, NEW p \in Request, CreateReport(p)
  PROVE  Shapes'
<1>1. GatewayReport(p) \in ReportRow
  BY GatewayReportType
<1>2. ASSUME NEW r \in ReportId
      PROVE  [local[p] EXCEPT !.step = "readSubscription", !.reportId = r,
                              !.report = GatewayReport(p)] \in Local
  BY <1>1, LocalType DEF Local, Step
<1>3. local' \in [Request -> Local]
  BY <1>2, GotoType, FinishType DEF CreateReport, SaveRefused
<1>4. report' \in [ReportId -> ReportRow]
  BY <1>1, SaveType DEF CreateReport, SaveRefused, tables, TypeOK, Shapes
<1>. QED
  BY <1>3, <1>4 DEF CreateReport, SaveRefused, tables, cobrix, TypeOK, Shapes

\* The automatic verdict changes in the copy, and the copy is saved.
LEMMA VerdictSavedType ==
  ASSUME TypeOK, NEW p \in Request, NEW verdict \in AutoCheck
  PROVE  [local[p].report EXCEPT !.autoCheck = verdict] \in ReportRow
BY LocalType DEF ReportRow

LEMMA FlagReportType ==
  ASSUME TypeOK, NEW p \in Request, FlagReport(p)
  PROVE  Shapes'
<1>1. local' \in [Request -> Local]
  BY MoveType, GotoType, FinishType DEF FlagReport, SaveRefused, Step
<1>2. report' \in [ReportId -> ReportRow]
  BY VerdictSavedType DEF FlagReport, SaveRefused, SaveReport, AutoCheck, tables, TypeOK, Shapes
<1>. QED
  BY <1>1, <1>2 DEF FlagReport, SaveRefused, tables, cobrix, TypeOK, Shapes

LEMMA SweepSaveType ==
  ASSUME TypeOK, NEW p \in Request, SweepSave(p)
  PROVE  Shapes'
<1>1. local' \in [Request -> Local]
  BY FinishType DEF SweepSave, SaveRefused
<1>2. report' \in [ReportId -> ReportRow]
  BY VerdictSavedType DEF SweepSave, SaveRefused, SaveReport, AutoCheck, tables, TypeOK, Shapes
<1>. QED
  BY <1>1, <1>2 DEF SweepSave, SaveRefused, tables, cobrix, TypeOK, Shapes

LEMMA RejectReportType ==
  ASSUME TypeOK, NEW p \in Request, RejectReport(p)
  PROVE  Shapes'
<1>1. [local[p].report EXCEPT !.status = "rejected", !.autoCheck = "rejected"] \in ReportRow
  BY LocalType DEF ReportRow, ReportStatus, AutoCheck
<1>2. local' \in [Request -> Local]
  BY LocalType, ThenReleaseType, GotoType DEF RejectReport
<1>. QED
  BY <1>1, <1>2 DEF RejectReport, SaveReport, cobrix, TypeOK, Shapes

LEMMA StartCheckoutType ==
  ASSUME TypeOK, NEW p \in Request, NEW planId \in Choices \cup {"none"},
         StartCheckout(p, planId)
  PROVE  Shapes'
<1>1. EnsuredSubscription \in SubscriptionRow
  BY EnsuredType
<1>2. planId \in Plan
  BY BoundAssumption DEF Plan
<1>3. [EnsuredSubscription EXCEPT !.planId =
          IF planId = "none" THEN BillablePlanId(@) ELSE planId] \in SubscriptionRow
  BY <1>1, <1>2 DEF SubscriptionRow, BillablePlanId, TrialPlanId, Plan
<1>4. local' \in [Request -> Local]
  BY <1>3, NoRowsType, GotoType DEF StartCheckout, Local, Step, Idle
<1>. QED
  BY <1>1, <1>4 DEF StartCheckout, EnsureSubscription, cobrix, TypeOK, Shapes

LEMMA ExpireStaleType ==
  ASSUME TypeOK, NEW p \in Request, ExpireStale(p)
  PROVE  Shapes'
<1>1. local' \in [Request -> Local]
  BY MoveType, GotoType DEF ExpireStale, Step
<1>2. invoice' \in [InvoiceId -> InvoiceRow]
  BY DEF ExpireStale, InvoiceRow, TypeOK, Shapes
<1>. QED
  BY <1>1, <1>2 DEF ExpireStale, cobrix, TypeOK, Shapes

LEMMA FindLiveType ==
  ASSUME TypeOK, NEW p \in Request, NEW newIdentification \in BOOLEAN,
         FindLive(p, newIdentification)
  PROVE  Shapes'
<1>1. ASSUME NEW i \in InvoiceId
      PROVE  [local[p] EXCEPT !.step = "replaceInvoice", !.invoiceId = i,
                              !.invoice = invoice[i]] \in Local
  BY LocalType, ZenonT(30) DEF Local, Step, TypeOK, Shapes
<1>2. [local[p] EXCEPT !.step = "emitInvoice"] \in Local
  BY MoveType DEF Step
<1>3. local' \in [Request -> Local]
  BY <1>1, <1>2, GotoType, FinishType DEF FindLive
<1>. QED
  BY <1>3 DEF FindLive, tables, cobrix, TypeOK, Shapes

LEMMA ReplaceInvoiceType ==
  ASSUME TypeOK, NEW p \in Request, ReplaceInvoice(p)
  PROVE  Shapes'
<1>1. [local[p] EXCEPT !.step = "emitInvoice", !.invoiceId = 0,
                       !.invoice = NoInvoice] \in Local
  BY LocalType, NoRowsType DEF Local, Step
<1>2. local' \in [Request -> Local]
  BY <1>1, GotoType DEF ReplaceInvoice
<1>3. invoice' \in [InvoiceId -> InvoiceRow]
  BY InvoiceSavedType DEF ReplaceInvoice
<1>. QED
  BY <1>2, <1>3 DEF ReplaceInvoice, cobrix, TypeOK, Shapes

LEMMA EmitInvoiceType ==
  ASSUME TypeOK, NEW p \in Request, EmitInvoice(p)
  PROVE  Shapes'
<1>1. local' \in [Request -> Local]
  BY FinishType DEF EmitInvoice
<1>2. [status |-> "open", planId |-> local[p].subscription.planId,
       expiresAt |-> now + InvoiceTtl] \in InvoiceRow
  <2>1. now + InvoiceTtl \in Nat
    BY BoundAssumption DEF TypeOK, Shapes
  <2>. QED BY <2>1, LocalType DEF InvoiceRow, SubscriptionRow, Date
<1>3. invoice' \in [InvoiceId -> InvoiceRow]
  BY <1>2 DEF EmitInvoice, TypeOK, Shapes
<1>4. document' \in [InvoiceId -> {"none", "live", "paid", "cancelled"}]
  BY DEF EmitInvoice, TypeOK, Shapes
<1>. QED
  BY <1>1, <1>3, <1>4 DEF EmitInvoice, TypeOK, Shapes

LEMMA ChoosePlanType ==
  ASSUME TypeOK, NEW p \in Request, NEW planId \in Choices, ChoosePlan(p, planId)
  PROVE  Shapes'
<1>1. EnsuredSubscription \in SubscriptionRow
  BY EnsuredType
<1>2. [EnsuredSubscription EXCEPT !.planId = planId] \in SubscriptionRow
  BY <1>1, BoundAssumption DEF SubscriptionRow
<1>3. local' \in [Request -> Local]
  BY <1>2, NoRowsType, GotoType DEF ChoosePlan, Local, Step, Idle
<1>. QED
  BY <1>1, <1>3 DEF ChoosePlan, EnsureSubscription, cobrix, TypeOK, Shapes

LEMMA SavePlanType ==
  ASSUME TypeOK, NEW p \in Request, SavePlan(p)
  PROVE  Shapes'
<1>1. local' \in [Request -> Local]
  BY FinishType DEF SavePlan
<1>. QED
  BY <1>1, LocalType DEF SavePlan, cobrix, TypeOK, Shapes

LEMMA FailType ==
  ASSUME TypeOK, NEW p \in Request, Fail(p)
  PROVE  Shapes'
<1>1. local' \in [Request -> Local]
  BY FinishType DEF Fail
<1>. QED
  BY <1>1 DEF Fail, tables, cobrix, TypeOK, Shapes

LEMMA OwnerPaysType ==
  ASSUME TypeOK, NEW i \in InvoiceId, NEW type \in {"paid", "paidOtherAmount"},
         OwnerPays(i, type)
  PROVE  Shapes'
<1>1. ASSUME NEW ref \in {<<"payment", i>>, <<"provider", i>>}
      PROVE  Webhook(type, i, ref) \in Event
  BY DEF Webhook, Event, EventType, InvoiceEvent, AnyReference
<1>2. ASSUME NEW ref \in {Typed(t) : t \in Reference} \cup {<<"provider", i>>}
      PROVE  Webhook("completed", i, ref) \in Event
  BY DEF Webhook, Event, EventType, GeneralEvent, AnyReference
<1>3. emitted' \subseteq Event
  BY <1>1, <1>2 DEF OwnerPays, TypeOK, Shapes
<1>. QED
  BY <1>3 DEF OwnerPays, tables, TypeOK, Shapes

LEMMA RefusedByCobrixType ==
  ASSUME TypeOK, NEW i \in InvoiceId, PaymentFails(i) \/ CanceledInCobrix(i)
  PROVE  Shapes'
<1>1. emitted' \subseteq Event
  BY CanceledEventType DEF PaymentFails, CanceledInCobrix, TypeOK, Shapes
<1>. QED
  BY <1>1 DEF PaymentFails, CanceledInCobrix, tables, TypeOK, Shapes

LEMMA TickType ==
  ASSUME TypeOK, Tick
  PROVE  Shapes'
BY DEF Tick, tables, cobrix, TypeOK, Shapes

-----------------------------------------------------------------------------
(* Every copy stays a copy of a row. *)

LEMMA GotoNames ==
  ASSUME TypeOK, NEW p \in Request, NEW next, NamesItsRows(next), Goto(p, next)
  PROVE  \A q \in Request : NamesItsRows(local'[q])
BY DEF TypeOK, Shapes, Goto

LEMMA IdleNames == NamesItsRows(Idle)
BY DEF NamesItsRows, Idle

LEMMA ThenReleaseNames ==
  ASSUME NEW i, NEW row
  PROVE  NamesItsRows(ThenRelease(i, row))
BY IdleNames DEF ThenRelease, NamesItsRows, Idle

LEMMA RequestStepNames ==
  ASSUME TypeOK, NEW p \in Request, RequestStep(p)
  PROVE  \A q \in Request : NamesItsRows(local'[q])
<1>. DEFINE NamesKept == \A q \in Request : NamesItsRows(local'[q])
<1>. USE LocalType
<1>1. CASE InsertReport(p)
  BY <1>1, GotoNames, IdleNames DEF InsertReport, SaveRefused, Finish
<1>2. CASE ReadSubscription(p)
  <2>1. NamesItsRows([local[p] EXCEPT !.step = "saveVerified", !.subscription = subscription])
    BY <1>2 DEF ReadSubscription, At, TypeOK, NamesItsRows, Local
  <2>. QED BY <1>2, <2>1, GotoNames DEF ReadSubscription
<1>3. CASE SaveVerified(p)
  <2>1. NamesItsRows(AfterVerified(p, VerifiedReport(p)))
    BY <1>3 DEF SaveVerified, At, TypeOK, AfterVerified, NamesItsRows, Local
  <2>. QED BY <1>3, <2>1, GotoNames, IdleNames DEF SaveVerified, SaveRefused, Finish
<1>4. CASE AdvanceSubscription(p)
  <2>1. NamesItsRows(AfterAdvance(p))
    BY IdleNames DEF AfterAdvance, NamesItsRows, Local
  <2>. QED BY <1>4, <2>1, GotoNames, IdleNames DEF AdvanceSubscription, SaveRefused, Finish
<1>5. CASE SaveRejected(p)
  <2>1. local[p].report.invoice # 0 =>
          NamesItsRows([Idle EXCEPT !.step = "readInvoice",
                                    !.invoiceId = local[p].report.invoice])
    BY DEF NamesItsRows, Idle
  <2>. QED BY <1>5, <2>1, GotoNames, IdleNames DEF SaveRejected, Finish
<1>6. CASE ReadReleasedInvoice(p)
  BY <1>6, GotoNames, ThenReleaseNames DEF ReadReleasedInvoice
<1>7. CASE CancelDocument(p)
  <2>1. NamesItsRows([local[p] EXCEPT !.step = "closeInvoice"])
    BY DEF NamesItsRows, Local
  <2>. QED BY <1>7, <2>1, GotoNames DEF CancelDocument
<1>8. CASE CloseInvoice(p)
  BY <1>8, GotoNames, IdleNames DEF CloseInvoice, Finish
<1>9. CASE MatchInvoice(p)
  <2>1. NamesItsRows([local[p] EXCEPT !.step = "findReport",
                                      !.invoice = invoice[local[p].invoiceId]])
    BY DEF NamesItsRows, Local
  <2>. QED BY <1>9, <2>1, GotoNames, IdleNames DEF MatchInvoice, Finish
<1>10. CASE FindReport(p)
  <2>1. ASSUME NEW r \in ReportId
        PROVE  NamesItsRows(OnReport(p, r))
    <3>1. r # 0
      BY BoundAssumption DEF ReportId
    <3>2. ASSUME NEW step \in {"readSubscription", "flagReport", "rejectReport"}
          PROVE  NamesItsRows([local[p] EXCEPT !.step = step, !.reportId = r,
                                               !.report = report[r]])
      BY <3>1 DEF NamesItsRows, Local
    <3>. QED BY <3>2, IdleNames DEF OnReport
  <2>2. NamesItsRows(OnNoReport(p))
    <3>1. ASSUME NEW step \in {"createReport", "closeInvoice"}
          PROVE  NamesItsRows([local[p] EXCEPT !.step = step])
      BY DEF NamesItsRows, Local
    <3>. QED BY <3>1, IdleNames, ThenReleaseNames DEF OnNoReport
  <2>. QED BY <1>10, <2>1, <2>2, GotoNames DEF FindReport, ReportsOf
<1>11. CASE CreateReport(p)
  <2>1. ASSUME NEW r \in ReportId
        PROVE  NamesItsRows([local[p] EXCEPT !.step = "readSubscription",
                                 !.reportId = r, !.report = GatewayReport(p)])
    <3>1. r # 0
      BY BoundAssumption DEF ReportId
    <3>. QED BY <3>1 DEF NamesItsRows, Local
  <2>. QED BY <1>11, <2>1, GotoNames, IdleNames DEF CreateReport, SaveRefused, Finish
<1>12. CASE FlagReport(p)
  <2>1. NamesItsRows([local[p] EXCEPT !.step = "closeInvoice"])
    BY DEF NamesItsRows, Local
  <2>. QED BY <1>12, <2>1, GotoNames, IdleNames DEF FlagReport, SaveRefused, Finish
<1>13. CASE RejectReport(p)
  BY <1>13, GotoNames, ThenReleaseNames DEF RejectReport
<1>14. CASE SavePaid(p)
  BY <1>14, GotoNames, IdleNames DEF SavePaid, Finish
<1>15. CASE SweepSave(p)
  BY <1>15, GotoNames, IdleNames DEF SweepSave, SaveRefused, Finish
<1>16. CASE ExpireStale(p)
  <2>1. NamesItsRows([local[p] EXCEPT !.step = "findLive"])
    BY DEF NamesItsRows, Local
  <2>. QED BY <1>16, <2>1, GotoNames DEF ExpireStale
<1>17. CASE ReplaceInvoice(p)
  <2>1. NamesItsRows([local[p] EXCEPT !.step = "emitInvoice", !.invoiceId = 0,
                                      !.invoice = NoInvoice])
    BY DEF NamesItsRows, Local
  <2>. QED BY <1>17, <2>1, GotoNames DEF ReplaceInvoice
<1>18. CASE EmitInvoice(p)
  BY <1>18, GotoNames, IdleNames DEF EmitInvoice, Finish
<1>19. CASE SavePlan(p)
  BY <1>19, GotoNames, IdleNames DEF SavePlan, Finish
<1>20. ASSUME NEW newIdentification \in BOOLEAN, FindLive(p, newIdentification)
       PROVE  NamesKept
  <2>1. ASSUME NEW i \in InvoiceId
        PROVE  NamesItsRows([local[p] EXCEPT !.step = "replaceInvoice", !.invoiceId = i,
                                             !.invoice = invoice[i]])
    BY DEF NamesItsRows, Local
  <2>2. NamesItsRows([local[p] EXCEPT !.step = "emitInvoice"])
    BY DEF NamesItsRows, Local
  <2>. QED BY <1>20, <2>1, <2>2, GotoNames, IdleNames DEF FindLive, Finish
<1>. QED
  BY <1>1, <1>2, <1>3, <1>4, <1>5, <1>6, <1>7, <1>8, <1>9, <1>10, <1>11, <1>12,
     <1>13, <1>14, <1>15, <1>16, <1>17, <1>18, <1>19, <1>20 DEF RequestStep

LEMMA ArrivalNames ==
  ASSUME TypeOK, NEW p \in Request, Arrival(p) \/ Delivery(p) \/ Fail(p)
  PROVE  \A q \in Request : NamesItsRows(local'[q])
<1>1. ASSUME NEW ref \in Reference, NEW covered \in BOOLEAN, ReportPayment(p, ref, covered)
      PROVE  \A q \in Request : NamesItsRows(local'[q])
  <2>1. ASSUME NEW row
        PROVE  NamesItsRows([Idle EXCEPT !.step = "insertReport", !.report = row])
    BY DEF NamesItsRows, Idle
  <2>. QED BY <1>1, <2>1, GotoNames DEF ReportPayment
<1>2. ASSUME NEW r \in ReportId,
             VerifyPayment(p, r) \/ RejectPayment(p, r) \/ SweepRead(p, r)
      PROVE  \A q \in Request : NamesItsRows(local'[q])
  <2>1. ASSUME NEW step \in {"readSubscription", "saveRejected", "saveExpired"}
        PROVE  NamesItsRows([Idle EXCEPT !.step = step, !.reportId = r,
                                         !.report = report[r]])
    BY BoundAssumption DEF NamesItsRows, Idle, ReportId
  <2>. QED BY <1>2, <2>1, GotoNames DEF VerifyPayment, RejectPayment, SweepRead
<1>3. ASSUME NEW i \in InvoiceId, ReleaseOpenInvoice(p, i)
      PROVE  \A q \in Request : NamesItsRows(local'[q])
  BY <1>3, GotoNames, ThenReleaseNames DEF ReleaseOpenInvoice
<1>4. ASSUME NEW planId, StartCheckout(p, planId) \/ ChoosePlan(p, planId)
      PROVE  \A q \in Request : NamesItsRows(local'[q])
  <2>1. ASSUME NEW row, NEW step \in {"expireStale", "savePlan"}
        PROVE  NamesItsRows([Idle EXCEPT !.step = step, !.subscription = row])
    BY DEF NamesItsRows, Idle
  <2>. QED BY <1>4, <2>1, GotoNames DEF StartCheckout, ChoosePlan
<1>5. ASSUME NEW e \in emitted, RecordEvent(p, e)
      PROVE  \A q \in Request : NamesItsRows(local'[q])
  <2>1. e.invoice # 0
    BY BoundAssumption DEF TypeOK, Shapes, Event, InvoiceId
  <2>2. NamesItsRows([Idle EXCEPT !.step = "matchInvoice", !.event = e,
                                  !.invoiceId = e.invoice])
    BY <2>1 DEF NamesItsRows, Idle
  <2>. QED BY <1>5, <2>2, GotoNames DEF RecordEvent
<1>6. CASE Fail(p)
  BY <1>6, GotoNames, IdleNames DEF Fail, Finish
<1>. QED BY <1>1, <1>2, <1>3, <1>4, <1>5, <1>6 DEF Arrival, Delivery

-----------------------------------------------------------------------------
(* Type correctness *)

LEMMA InitType == Init => TypeOK
<1>1. Init => Shapes
  BY NoRowsType DEF Init, Shapes
<1>2. Init => \A p \in Request : NamesItsRows(local[p])
  BY IdleNames DEF Init
<1>. QED BY <1>1, <1>2 DEF TypeOK

LEMMA RequestStepShapes ==
  ASSUME TypeOK, NEW p \in Request, RequestStep(p)
  PROVE  Shapes'
BY InsertReportType, ReadSubscriptionType, SaveVerifiedType, AdvanceSubscriptionType,
   SaveRejectedType, ReadReleasedInvoiceType, CancelDocumentType, InvoiceClosesType,
   MatchInvoiceType, FindReportType, CreateReportType, FlagReportType, RejectReportType,
   SweepSaveType, ExpireStaleType, ReplaceInvoiceType, EmitInvoiceType, SavePlanType,
   FindLiveType
DEF RequestStep

LEMMA NextType == TypeOK /\ [Next]_vars => TypeOK'
<1>. SUFFICES ASSUME TypeOK, [Next]_vars PROVE TypeOK'
  OBVIOUS
<1>1. ASSUME NEW p \in Request, RequestStep(p) PROVE TypeOK'
  BY <1>1, RequestStepShapes, RequestStepNames DEF TypeOK
<1>2. ASSUME NEW p \in Request, Arrival(p) PROVE TypeOK'
  <2>1. Shapes'
    BY <1>2, ReportPaymentType, ResolutionStartsType, ReleaseOpenInvoiceType,
       StartCheckoutType, ChoosePlanType
    DEF Arrival
  <2>. QED BY <1>2, <2>1, ArrivalNames DEF TypeOK
<1>3. ASSUME NEW p \in Request, Delivery(p) \/ Fail(p) PROVE TypeOK'
  <2>1. Shapes'
    BY <1>3, RecordEventType, FailType DEF Delivery
  <2>. QED BY <1>3, <2>1, ArrivalNames DEF TypeOK
<1>4. CASE World
  <2>1. Shapes'
    BY <1>4, OwnerPaysType, RefusedByCobrixType, TickType DEF World
  <2>2. UNCHANGED local
    BY <1>4 DEF World, OwnerPays, PaymentFails, CanceledInCobrix, Tick
  <2>. QED BY <2>1, <2>2 DEF TypeOK
<1>5. CASE UNCHANGED vars
  BY <1>5 DEF vars, TypeOK, Shapes
<1>. QED BY <1>1, <1>2, <1>3, <1>4, <1>5 DEF Next

\* However many requests interleave, every table and every copy a request
\* holds keeps its type, and a request that is about to write a report or read
\* an invoice knows which one.
THEOREM TypeCorrect == Spec => []TypeOK
BY InitType, NextType, PTL DEF Spec

-----------------------------------------------------------------------------
(* The reference a payment claims *)

LEMMA SaveKeepsClaims ==
  ASSUME TypeOK, OneClaimPerReference, NEW r, NEW row,
         CanSave(r, row), SaveReport(r, row)
  PROVE  OneClaimPerReference'
BY DEF TypeOK, Shapes, OneClaimPerReference, CanSave, ReferenceFree, SaveReport

LEMMA RejectionKeepsClaims ==
  ASSUME TypeOK, OneClaimPerReference, NEW r, NEW row,
         row.status = "rejected", SaveReport(r, row)
  PROVE  OneClaimPerReference'
BY DEF TypeOK, Shapes, OneClaimPerReference, HoldsReference, SaveReport

LEMMA SameReportsKeepClaims ==
  ASSUME OneClaimPerReference, UNCHANGED report
  PROVE  OneClaimPerReference'
BY DEF OneClaimPerReference

LEMMA RequestStepKeepsClaims ==
  ASSUME TypeOK, OneClaimPerReference, NEW p \in Request, RequestStep(p)
  PROVE  OneClaimPerReference'
<1>1. CASE InsertReport(p) \/ SaveVerified(p) \/ AdvanceSubscription(p) \/ CreateReport(p)
           \/ FlagReport(p) \/ SweepSave(p)
  BY <1>1, SaveKeepsClaims, SameReportsKeepClaims
  DEF InsertReport, SaveVerified, AdvanceSubscription, CreateReport, FlagReport,
      SweepSave, SaveRefused, tables
<1>2. CASE SaveRejected(p)
  <2>1. [local[p].report EXCEPT !.status = "rejected"].status = "rejected"
    BY LocalType DEF ReportRow
  <2>. QED BY <1>2, <2>1, RejectionKeepsClaims DEF SaveRejected
<1>3. CASE RejectReport(p)
  <2>1. [local[p].report EXCEPT !.status = "rejected",
                                !.autoCheck = "rejected"].status = "rejected"
    BY LocalType DEF ReportRow
  <2>. QED BY <1>3, <2>1, RejectionKeepsClaims DEF RejectReport
<1>4. CASE UNCHANGED report
  BY <1>4, SameReportsKeepClaims
<1>. QED
  BY <1>1, <1>2, <1>3, <1>4
  DEF RequestStep, ReadSubscription, ReadReleasedInvoice, CancelDocument, CloseInvoice,
      MatchInvoice, FindReport, SavePaid, ExpireStale, ReplaceInvoice, EmitInvoice,
      SavePlan, FindLive, tables

\* What arrives from outside a request in progress writes no report.
LEMMA OutsideWritesNoReport ==
  ASSUME NEW p, Arrival(p) \/ Delivery(p) \/ Fail(p) \/ World
  PROVE  UNCHANGED <<report, granted>>
BY DEF Arrival, Delivery, Fail, World, ReportPayment, VerifyPayment, RejectPayment,
       SweepRead, ReleaseOpenInvoice, StartCheckout, ChoosePlan, RecordEvent, OwnerPays,
       PaymentFails, CanceledInCobrix, Tick, tables

\* Two payments that are not rejected never claim the same reference: the
\* check before the insert races, the unique index does not (save, 352-373).
THEOREM UniqueClaims == Spec => []OneClaimPerReference
<1>1. Init => OneClaimPerReference
  BY DEF Init, OneClaimPerReference, HoldsReference, NoReport
<1>2. TypeOK /\ OneClaimPerReference /\ [Next]_vars => OneClaimPerReference'
  <2>. SUFFICES ASSUME TypeOK, OneClaimPerReference, [Next]_vars
                PROVE  OneClaimPerReference'
    OBVIOUS
  <2>1. ASSUME NEW p \in Request, RequestStep(p) PROVE OneClaimPerReference'
    BY <2>1, RequestStepKeepsClaims
  <2>2. ASSUME NEW p, Arrival(p) \/ Delivery(p) \/ Fail(p) \/ World
        PROVE  OneClaimPerReference'
    BY <2>2, OutsideWritesNoReport, SameReportsKeepClaims
  <2>3. CASE UNCHANGED vars
    BY <2>3, SameReportsKeepClaims DEF vars
  <2>. QED BY <2>1, <2>2, <2>3 DEF Next
<1>. QED BY <1>1, <1>2, TypeCorrect, PTL DEF Spec

-----------------------------------------------------------------------------
(* The months the paid period was bought with *)

WritesBack == {"saveVerified", "advance", "savePlan"}

LEMMA GrantedFinite ==
  /\ IsFiniteSet(Granted)
  /\ Cardinality(Granted) \in Nat
<1>1. IsFiniteSet(ReportId)
  BY BoundAssumption, FS_Interval DEF ReportId
<1>2. Granted \subseteq ReportId
  BY DEF Granted
<1>. QED BY <1>1, <1>2, FS_Subset, FS_CardinalityType

\* What was paid for stays paid for while the clock and the trial only grow and
\* no month is taken back.
LEMMA PaidForGrows ==
  ASSUME NEW end \in Nat, NEW a \in Nat, NEW b \in Nat, NEW a2 \in Nat, NEW b2 \in Nat,
         NEW n \in Nat, NEW n2 \in Nat, a <= a2, b <= b2, n <= n2,
         end <= Later(a, b) + Month * n
  PROVE  end <= Later(a2, b2) + Month * n2
<1>1. Month * n <= Month * n2
  <2>1. PICK d \in Nat : n2 = n + d
    <3>1. n2 - n \in Nat /\ n2 = n + (n2 - n)
      OBVIOUS
    <3>. QED BY <3>1
  <2>2. Month * n2 = Month * n + Month * d
    BY <2>1, PeriodAssumption
  <2>3. Month * d \in Nat
    BY <2>1, PeriodAssumption
  <2>4. Month * n \in Nat
    BY PeriodAssumption
  <2>. QED BY <2>2, <2>3, <2>4
<1>2. Later(a, b) <= Later(a2, b2)
  BY DEF Later
<1>3. Month * n \in Nat /\ Month * n2 \in Nat
  BY PeriodAssumption
<1>4. Later(a, b) \in Nat /\ Later(a2, b2) \in Nat
  BY DEF Later
<1>. QED BY <1>1, <1>2, <1>3, <1>4

\* One more verified payment is exactly one more month.
LEMMA MonthBought ==
  ASSUME NEW end \in Nat, NEW today \in Nat, NEW trialEnd \in Nat, NEW n \in Nat,
         end <= Later(today, trialEnd) + Month * n
  PROVE  PeriodCoverage(today, end, trialEnd).to <= Later(today, trialEnd) + Month * (n + 1)
<1>1. Month * (n + 1) = Month * n + Month
  BY PeriodAssumption
<1>2. Month * n \in Nat /\ Month \in Nat
  BY PeriodAssumption
<1>3. Later(Later(today, end), trialEnd) <= Later(today, trialEnd) + Month * n
  BY <1>2 DEF Later
<1>4. PeriodCoverage(today, end, trialEnd).to = Later(Later(today, end), trialEnd) + Month
  BY DEF PeriodCoverage, AddMonth
<1>5. Later(Later(today, end), trialEnd) \in Nat /\ Later(today, trialEnd) \in Nat
  BY DEF Later
<1>. QED BY <1>1, <1>2, <1>3, <1>4, <1>5

\* A request in progress, and a report or an invoice to work on, come after
\* the first ensureSubscription.
LEMMA WorkingStarted ==
  ASSUME PeriodsBacked, NEW p \in Request, RequestStep(p) \/ Fail(p)
  PROVE  subscription.status # "none"
BY DEF PeriodsBacked, Untouched, RequestStep, Fail, At, InsertReport, ReadSubscription,
       SaveVerified, AdvanceSubscription, SaveRejected, ReadReleasedInvoice,
       CancelDocument, CloseInvoice, MatchInvoice, FindReport, CreateReport, FlagReport,
       RejectReport, SavePaid, SweepSave, ExpireStale, ReplaceInvoice, EmitInvoice,
       SavePlan, FindLive

LEMMA RowStarted ==
  ASSUME PeriodsBacked,
         \/ \E r \in ReportId : report[r].status # "none"
         \/ \E i \in InvoiceId : invoice[i].status # "none" \/ document[i] # "none"
         \/ emitted # {}
  PROVE  subscription.status # "none"
BY DEF PeriodsBacked, Untouched

\* A step that writes neither the subscription nor an audit row keeps the
\* invariant if the copy it leaves to be written back is a fresh or a held one.
LEMMA CopyKept ==
  ASSUME TypeOK, PeriodsBacked, subscription.status # "none",
         NEW p \in Request, NEW next, Goto(p, next),
         UNCHANGED <<now, subscription, granted>>,
         next.step \in WritesBack =>
           \/ next.subscription = subscription
           \/ /\ local[p].step \in WritesBack
              /\ next.subscription = local[p].subscription
  PROVE  PeriodsBacked'
<1>1. Granted' = Granted
  BY DEF Granted
<1>2. NoFreeMonths'
  BY <1>1 DEF NoFreeMonths, PeriodsBacked, PaidFor
<1>3. ASSUME NEW q \in Request
      PROVE  HoldsPaidCopy(q)'
  <2>1. CASE q = p
    <3>1. local'[q] = next
      BY <2>1 DEF Goto, TypeOK, Shapes
    <3>2. NoFreeMonths /\ HoldsPaidCopy(p)
      BY DEF PeriodsBacked
    <3>. QED
      BY <1>1, <3>1, <3>2 DEF HoldsPaidCopy, WritesBack, PaidFor, NoFreeMonths
  <2>2. CASE q # p
    <3>1. local'[q] = local[q]
      BY <2>2 DEF Goto, TypeOK, Shapes
    <3>. QED BY <1>1, <3>1 DEF HoldsPaidCopy, PaidFor, PeriodsBacked
  <2>. QED BY <2>1, <2>2
<1>. QED BY <1>2, <1>3 DEF PeriodsBacked

\* A step that leaves a copy nobody will write back keeps it always.
LEMMA NoCopyKept ==
  ASSUME TypeOK, PeriodsBacked, subscription.status # "none",
         NEW p \in Request, NEW next, Goto(p, next), next.step \notin WritesBack,
         UNCHANGED <<now, subscription, granted>>
  PROVE  PeriodsBacked'
BY CopyKept

LEMMA FinishKept ==
  ASSUME TypeOK, PeriodsBacked, subscription.status # "none",
         NEW p \in Request, Finish(p), UNCHANGED <<now, subscription, granted>>
  PROVE  PeriodsBacked'
BY NoCopyKept DEF Finish, Idle, WritesBack

LEMMA ThenReleaseWritesNothing ==
  ASSUME NEW i, NEW row
  PROVE  ThenRelease(i, row).step \notin WritesBack
BY DEF ThenRelease, Idle, WritesBack

\* A copy that moves on to a step that does not write the subscription back.
LEMMA MovesOn ==
  ASSUME TypeOK, NEW p \in Request,
         NEW step \in {"savePaid", "closeInvoice", "createReport", "findLive", "emitInvoice"}
  PROVE  [local[p] EXCEPT !.step = step].step \notin WritesBack
BY LocalType DEF Local, WritesBack

LEMMA AdvanceKeepsPeriods ==
  ASSUME TypeOK, PeriodsBacked, NEW p \in Request, AdvanceSubscription(p)
  PROVE  PeriodsBacked'
<1>. DEFINE r == local[p].reportId
            sub == local[p].subscription
            n == Cardinality(Granted)
<1>1. subscription.status # "none"
  BY WorkingStarted DEF RequestStep
<1>2. AfterAdvance(p).step \notin WritesBack
  BY MovesOn DEF AfterAdvance, Idle, WritesBack
<1>3. CASE UNCHANGED tables
  BY <1>1, <1>2, <1>3, NoCopyKept, FinishKept DEF AdvanceSubscription, SaveRefused, tables, cobrix
<1>4. CASE /\ ~AlreadyGranted(r)
           /\ subscription' = AdvancedSubscription(p)
           /\ granted' = [granted EXCEPT ![r] =
                [done |-> TRUE, previousPeriodEnd |-> sub.currentPeriodEnd,
                 newPeriodEnd |-> BoughtPeriodEnd(p), by |-> local[p].event]]
           /\ Goto(p, AfterAdvance(p))
  <2>1. r \in ReportId
    BY LocalType DEF AdvanceSubscription, At, TypeOK, NamesItsRows
  <2>2. Granted' = Granted \cup {r} /\ r \notin Granted
    BY <1>4, <2>1 DEF Granted, AlreadyGranted, TypeOK, Shapes
  <2>3. Cardinality(Granted') = n + 1 /\ n \in Nat
    BY <2>2, GrantedFinite, FS_AddElement
  <2>4. HoldsPaidCopy(p) /\ local[p].step = "advance"
    BY DEF PeriodsBacked, AdvanceSubscription, At
  <2>5. /\ sub \in SubscriptionRow
        /\ sub.trialEndsAt = subscription.trialEndsAt
        /\ sub.currentPeriodEnd <= Later(now, sub.trialEndsAt) + Month * n
    BY <2>4, LocalType DEF HoldsPaidCopy, PaidFor
  <2>6. /\ subscription'.trialEndsAt = subscription.trialEndsAt
        /\ subscription'.currentPeriodEnd = BoughtPeriodEnd(p)
        /\ subscription'.status = "active"
    BY <1>4, <2>5 DEF AdvancedSubscription, SubscriptionRow
  <2>7. now' = now /\ now \in Nat
    BY DEF AdvanceSubscription, TypeOK, Shapes
  <2>8. BoughtPeriodEnd(p) <= Later(now, sub.trialEndsAt) + Month * (n + 1)
    BY <2>3, <2>5, <2>7, MonthBought DEF BoughtPeriodEnd, SubscriptionRow, Date
  <2>9. NoFreeMonths'
    BY <2>3, <2>5, <2>6, <2>7, <2>8 DEF NoFreeMonths, PaidFor
  <2>10. ASSUME NEW q \in Request
         PROVE  HoldsPaidCopy(q)'
    <3>1. CASE q = p
      <4>1. local'[q] = AfterAdvance(p)
        BY <1>4, <3>1 DEF Goto, TypeOK, Shapes
      <4>. QED BY <1>2, <4>1 DEF HoldsPaidCopy, WritesBack
    <3>2. CASE q # p
      <4>1. local'[q] = local[q]
        BY <1>4, <3>2 DEF Goto, TypeOK, Shapes
      <4>2. HoldsPaidCopy(q)
        BY DEF PeriodsBacked
      <4>3. ASSUME PaidFor(local[q].subscription.currentPeriodEnd)
            PROVE  PaidFor(local[q].subscription.currentPeriodEnd)'
        <5>1. local[q].subscription.currentPeriodEnd \in Nat
          BY LocalType DEF SubscriptionRow, Date
        <5>2. subscription.trialEndsAt \in Nat
          BY DEF TypeOK, Shapes, SubscriptionRow, Date
        <5>3. local[q].subscription.currentPeriodEnd
                <= Later(now, subscription.trialEndsAt) + Month * (n + 1)
          <6>1. local[q].subscription.currentPeriodEnd
                  <= Later(now, subscription.trialEndsAt) + Month * n
            BY <4>3 DEF PaidFor
          <6>2. n \in Nat /\ n + 1 \in Nat /\ n <= n + 1 /\ now <= now
                /\ subscription.trialEndsAt <= subscription.trialEndsAt
            BY <2>3, <2>7, <5>2
          <6>. HIDE DEF n
          <6>. QED BY <2>7, <5>1, <5>2, <6>1, <6>2, PaidForGrows
        <5>. QED BY <2>3, <2>6, <2>7, <4>1, <5>3 DEF PaidFor
      <4>. QED BY <2>6, <4>1, <4>2, <4>3 DEF HoldsPaidCopy
    <3>. QED BY <3>1, <3>2
  <2>. QED BY <2>6, <2>9, <2>10 DEF PeriodsBacked
<1>. QED
  BY <1>3, <1>4 DEF AdvanceSubscription, SaveRefused

LEMMA SavePlanKeepsPeriods ==
  ASSUME TypeOK, PeriodsBacked, NEW p \in Request, SavePlan(p)
  PROVE  PeriodsBacked'
<1>1. HoldsPaidCopy(p) /\ local[p].step = "savePlan"
  BY DEF PeriodsBacked, SavePlan, At
<1>2. /\ subscription'.status # "none"
      /\ subscription'.trialEndsAt = subscription.trialEndsAt
      /\ PaidFor(subscription'.currentPeriodEnd)
      /\ UNCHANGED <<now, granted>>
  BY <1>1 DEF HoldsPaidCopy, SavePlan
<1>3. Granted' = Granted
  BY <1>2 DEF Granted
<1>4. NoFreeMonths'
  BY <1>2, <1>3 DEF NoFreeMonths, PaidFor
<1>5. ASSUME NEW q \in Request
      PROVE  HoldsPaidCopy(q)'
  <2>1. local'[q] = local[q] \/ local'[q] = Idle
    BY DEF SavePlan, Finish, Goto, TypeOK, Shapes
  <2>2. Idle.step \notin {"saveVerified", "advance", "savePlan"}
    BY DEF Idle
  <2>. QED BY <1>2, <1>3, <2>1, <2>2 DEF HoldsPaidCopy, PaidFor, PeriodsBacked
<1>. QED BY <1>2, <1>4, <1>5 DEF PeriodsBacked

LEMMA RequestStepKeepsPeriods ==
  ASSUME TypeOK, PeriodsBacked, NEW p \in Request, RequestStep(p)
  PROVE  PeriodsBacked'
<1>. USE LocalType
<1>0. subscription.status # "none"
  BY WorkingStarted
<1>1. CASE InsertReport(p)
  BY <1>0, <1>1, FinishKept DEF InsertReport, SaveRefused, tables
<1>2. CASE ReadSubscription(p)
  <2>1. [local[p] EXCEPT !.step = "saveVerified",
                         !.subscription = subscription].subscription = subscription
    BY DEF Local
  <2>. QED BY <1>0, <1>2, <2>1, CopyKept DEF ReadSubscription, tables
<1>3. CASE SaveVerified(p)
  <2>1. /\ AfterVerified(p, VerifiedReport(p)).subscription = local[p].subscription
        /\ local[p].step \in WritesBack
    BY <1>3 DEF SaveVerified, At, AfterVerified, Local, WritesBack
  <2>. QED BY <1>0, <1>3, <2>1, CopyKept, FinishKept DEF SaveVerified, SaveRefused, tables
<1>4. CASE SaveRejected(p)
  <2>1. [Idle EXCEPT !.step = "readInvoice",
                     !.invoiceId = local[p].report.invoice].step \notin WritesBack
    BY DEF Idle, WritesBack
  <2>. QED BY <1>0, <1>4, <2>1, NoCopyKept, FinishKept DEF SaveRejected
<1>5. CASE ReadReleasedInvoice(p)
  BY <1>0, <1>5, ThenReleaseWritesNothing, NoCopyKept DEF ReadReleasedInvoice, tables
<1>6. CASE CancelDocument(p)
  BY <1>0, <1>6, MovesOn, NoCopyKept DEF CancelDocument, tables
<1>7. CASE CloseInvoice(p) \/ SavePaid(p)
  BY <1>0, <1>7, FinishKept DEF CloseInvoice, SavePaid
<1>8. CASE MatchInvoice(p)
  <2>1. [local[p] EXCEPT !.step = "findReport",
           !.invoice = invoice[local[p].invoiceId]].step \notin WritesBack
    BY DEF Local, WritesBack
  <2>. QED BY <1>0, <1>8, <2>1, NoCopyKept, FinishKept DEF MatchInvoice, tables
<1>9. CASE FindReport(p)
  <2>1. ASSUME NEW r PROVE OnReport(p, r).step \notin WritesBack
    <3>1. ASSUME NEW step \in {"readSubscription", "flagReport", "rejectReport"}
          PROVE  [local[p] EXCEPT !.step = step, !.reportId = r,
                                  !.report = report[r]].step \notin WritesBack
      BY DEF Local, WritesBack
    <3>. QED BY <3>1 DEF OnReport, Idle, WritesBack
  <2>2. OnNoReport(p).step \notin WritesBack
    BY MovesOn, ThenReleaseWritesNothing DEF OnNoReport, Idle, WritesBack
  <2>. QED BY <1>0, <1>9, <2>1, <2>2, NoCopyKept DEF FindReport, tables
<1>10. CASE CreateReport(p)
  <2>1. ASSUME NEW r
        PROVE  [local[p] EXCEPT !.step = "readSubscription", !.reportId = r,
                                !.report = GatewayReport(p)].step \notin WritesBack
    BY DEF Local, WritesBack
  <2>. QED BY <1>0, <1>10, <2>1, NoCopyKept, FinishKept DEF CreateReport, SaveRefused, tables
<1>11. CASE FlagReport(p)
  BY <1>0, <1>11, MovesOn, NoCopyKept, FinishKept DEF FlagReport, SaveRefused, tables
<1>12. CASE RejectReport(p)
  BY <1>0, <1>12, ThenReleaseWritesNothing, NoCopyKept DEF RejectReport
<1>13. CASE SweepSave(p)
  BY <1>0, <1>13, FinishKept DEF SweepSave, SaveRefused, tables
<1>14. CASE ExpireStale(p)
  BY <1>0, <1>14, MovesOn, NoCopyKept DEF ExpireStale
<1>15. ASSUME NEW newIdentification, FindLive(p, newIdentification)
       PROVE  PeriodsBacked'
  <2>1. ASSUME NEW i
        PROVE  [local[p] EXCEPT !.step = "replaceInvoice", !.invoiceId = i,
                                !.invoice = invoice[i]].step \notin WritesBack
    BY DEF Local, WritesBack
  <2>. QED BY <1>0, <1>15, <2>1, MovesOn, NoCopyKept, FinishKept DEF FindLive, tables
<1>16. CASE ReplaceInvoice(p)
  <2>1. [local[p] EXCEPT !.step = "emitInvoice", !.invoiceId = 0,
                         !.invoice = NoInvoice].step \notin WritesBack
    BY DEF Local, WritesBack
  <2>. QED BY <1>0, <1>16, <2>1, NoCopyKept DEF ReplaceInvoice
<1>17. CASE EmitInvoice(p)
  BY <1>0, <1>17, FinishKept DEF EmitInvoice
<1>. QED
  BY <1>1, <1>2, <1>3, <1>4, <1>5, <1>6, <1>7, <1>8, <1>9, <1>10, <1>11, <1>12, <1>13,
     <1>14, <1>15, <1>16, <1>17, AdvanceKeepsPeriods, SavePlanKeepsPeriods DEF RequestStep

LEMMA ArrivalKeepsPeriods ==
  ASSUME TypeOK, PeriodsBacked, NEW p \in Request, Arrival(p) \/ Delivery(p) \/ Fail(p)
  PROVE  PeriodsBacked'
<1>1. ASSUME NEW next, Goto(p, next), EnsureSubscription, UNCHANGED <<now, granted>>,
             At(p, "idle"),
             next.step \in WritesBack =>
               /\ next.step = "savePlan"
               /\ \E planId \in Plan :
                    next.subscription = [EnsuredSubscription EXCEPT !.planId = planId]
      PROVE  PeriodsBacked'
  <2>1. /\ EnsuredSubscription \in SubscriptionRow
        /\ EnsuredSubscription.status # "none"
    BY EnsuredType DEF EnsuredSubscription, StartTrial, NoSubscription
  <2>2. Granted' = Granted
    BY <1>1 DEF Granted
  <2>3. \/ subscription' = subscription
        \/ /\ Untouched
           /\ subscription'.currentPeriodEnd = 0
    BY <1>1 DEF EnsureSubscription, EnsuredSubscription, StartTrial, NoSubscription, NoDate,
       PeriodsBacked
  <2>4. /\ Month * Cardinality(Granted) \in Nat
        /\ now \in Nat
        /\ subscription' \in SubscriptionRow
    BY <1>1, <2>1, GrantedFinite, PeriodAssumption DEF TypeOK, Shapes, EnsureSubscription
  <2>5. NoFreeMonths'
    <3>1. CASE subscription' = subscription
      BY <1>1, <2>2, <3>1 DEF NoFreeMonths, PaidFor, PeriodsBacked
    <3>2. CASE subscription'.currentPeriodEnd = 0
      <4>1. Later(now, subscription'.trialEndsAt) \in Nat
        BY <2>4 DEF Later, SubscriptionRow, Date
      <4>. QED BY <1>1, <2>2, <2>4, <3>2, <4>1 DEF NoFreeMonths, PaidFor
    <3>. QED BY <2>3, <3>1, <3>2
  <2>6. ASSUME NEW q \in Request
        PROVE  HoldsPaidCopy(q)'
    <3>1. CASE q = p
      <4>1. local'[q] = next
        BY <1>1, <3>1 DEF Goto, TypeOK, Shapes
      <4>2. CASE next.step \in WritesBack
        <5>1. /\ next.subscription.status = EnsuredSubscription.status
              /\ next.subscription.trialEndsAt = EnsuredSubscription.trialEndsAt
              /\ next.subscription.currentPeriodEnd = EnsuredSubscription.currentPeriodEnd
          BY <1>1, <2>1, <4>2 DEF SubscriptionRow
        <5>. QED
          BY <1>1, <2>1, <2>5, <4>1, <5>1
          DEF HoldsPaidCopy, EnsureSubscription, NoFreeMonths, PaidFor
      <4>3. CASE next.step \notin WritesBack
        BY <4>1, <4>3 DEF HoldsPaidCopy, WritesBack
      <4>. QED BY <4>2, <4>3
    <3>2. CASE q # p
      <4>1. local'[q] = local[q]
        BY <1>1, <3>2 DEF Goto, TypeOK, Shapes
      <4>2. CASE subscription' = subscription
        BY <1>1, <2>2, <4>1, <4>2 DEF HoldsPaidCopy, PaidFor, PeriodsBacked
      <4>3. CASE Untouched
        BY <4>1, <4>3 DEF Untouched, HoldsPaidCopy
      <4>. QED BY <2>3, <4>2, <4>3
    <3>. QED BY <3>1, <3>2
  <2>. QED BY <1>1, <2>1, <2>5, <2>6 DEF PeriodsBacked, EnsureSubscription
<1>2. ASSUME NEW ref \in Reference, NEW covered \in BOOLEAN, ReportPayment(p, ref, covered)
      PROVE  PeriodsBacked'
  <2>1. ASSUME NEW row
        PROVE  [Idle EXCEPT !.step = "insertReport", !.report = row].step \notin WritesBack
    BY DEF Idle, WritesBack
  <2>. QED BY <1>1, <1>2, <2>1 DEF ReportPayment, Arrives
<1>3. ASSUME NEW planId, StartCheckout(p, planId)
      PROVE  PeriodsBacked'
  <2>1. ASSUME NEW row
        PROVE  [Idle EXCEPT !.step = "expireStale", !.subscription = row].step \notin WritesBack
    BY DEF Idle, WritesBack
  <2>. QED BY <1>1, <1>3, <2>1 DEF StartCheckout, Arrives
<1>4. ASSUME NEW planId \in Choices, ChoosePlan(p, planId)
      PROVE  PeriodsBacked'
  <2>1. ASSUME NEW row
        PROVE  /\ [Idle EXCEPT !.step = "savePlan", !.subscription = row].step = "savePlan"
               /\ [Idle EXCEPT !.step = "savePlan", !.subscription = row].subscription = row
    BY DEF Idle
  <2>2. planId \in Plan
    BY BoundAssumption
  <2>. QED BY <1>1, <1>4, <2>1, <2>2 DEF ChoosePlan, Arrives
<1>5. ASSUME NEW r \in ReportId,
             VerifyPayment(p, r) \/ RejectPayment(p, r) \/ SweepRead(p, r)
      PROVE  PeriodsBacked'
  <2>1. subscription.status # "none"
    BY <1>5, RowStarted DEF VerifyPayment, RejectPayment, SweepRead, Resolvable
  <2>2. ASSUME NEW step \in {"readSubscription", "saveRejected", "saveExpired"}
        PROVE  [Idle EXCEPT !.step = step, !.reportId = r,
                            !.report = report[r]].step \notin WritesBack
    BY DEF Idle, WritesBack
  <2>. QED BY <1>5, <2>1, <2>2, NoCopyKept DEF VerifyPayment, RejectPayment, SweepRead, tables
<1>6. ASSUME NEW i \in InvoiceId, ReleaseOpenInvoice(p, i)
      PROVE  PeriodsBacked'
  BY <1>6, RowStarted, ThenReleaseWritesNothing, NoCopyKept DEF ReleaseOpenInvoice, tables
<1>7. ASSUME NEW e \in emitted, RecordEvent(p, e)
      PROVE  PeriodsBacked'
  <2>1. [Idle EXCEPT !.step = "matchInvoice", !.event = e,
                     !.invoiceId = e.invoice].step \notin WritesBack
    BY DEF Idle, WritesBack
  <2>. QED BY <1>7, <2>1, RowStarted, NoCopyKept DEF RecordEvent
<1>8. CASE Fail(p)
  BY <1>8, WorkingStarted, FinishKept DEF Fail, tables
<1>. QED BY <1>2, <1>3, <1>4, <1>5, <1>6, <1>7, <1>8 DEF Arrival, Delivery

LEMMA WorldKeepsPeriods ==
  ASSUME TypeOK, PeriodsBacked, World
  PROVE  PeriodsBacked'
<1>1. UNCHANGED <<subscription, granted, local, report, invoice>>
  BY DEF World, OwnerPays, PaymentFails, CanceledInCobrix, Tick, tables
<1>2. Granted' = Granted
  BY <1>1 DEF Granted
<1>3. now \in Nat /\ now' \in Nat /\ now <= now'
  <2>1. now \in Nat
    BY DEF TypeOK, Shapes
  <2>2. now' = now \/ now' = now + 1
    BY DEF World, OwnerPays, PaymentFails, CanceledInCobrix, Tick
  <2>. QED BY <2>1, <2>2
<1>4. ASSUME NEW periodEnd \in Nat, PaidFor(periodEnd)
      PROVE  periodEnd <= Later(now', subscription'.trialEndsAt)
                            + Month * Cardinality(Granted')
  <2>1. subscription.trialEndsAt \in Nat
    BY DEF TypeOK, Shapes, SubscriptionRow, Date
  <2>2. Cardinality(Granted') = Cardinality(Granted) /\ Cardinality(Granted) \in Nat
    BY <1>2, GrantedFinite
  <2>. DEFINE n == Cardinality(Granted)
  <2>3. periodEnd <= Later(now, subscription.trialEndsAt) + Month * n /\ n \in Nat /\ n <= n
        /\ subscription.trialEndsAt <= subscription.trialEndsAt
    BY <1>4, <2>1, <2>2 DEF PaidFor
  <2>4. periodEnd <= Later(now', subscription.trialEndsAt) + Month * n
    <3>. HIDE DEF n
    <3>. QED BY <1>3, <2>1, <2>3, PaidForGrows
  <2>. QED BY <1>1, <2>2, <2>4
<1>5. NoFreeMonths'
  BY <1>1, <1>4 DEF PeriodsBacked, NoFreeMonths, PaidFor, TypeOK, Shapes, SubscriptionRow, Date
<1>6. ASSUME NEW q \in Request
      PROVE  HoldsPaidCopy(q)'
  <2>1. local[q].subscription.currentPeriodEnd \in Nat
    BY LocalType DEF SubscriptionRow, Date
  <2>. QED BY <1>1, <1>4, <2>1 DEF HoldsPaidCopy, PaidFor, PeriodsBacked
<1>7. Untouched => UNCHANGED <<document, emitted>>
  <2>. SUFFICES ASSUME Untouched PROVE UNCHANGED <<document, emitted>>
    OBVIOUS
  <2>1. \A i \in InvoiceId : document[i] # "live"
    BY DEF Untouched
  <2>. QED BY <2>1 DEF World, OwnerPays, PaymentFails, CanceledInCobrix, Tick, cobrix
<1>. QED BY <1>1, <1>5, <1>6, <1>7 DEF PeriodsBacked, Untouched

LEMMA PeriodsStayBacked == Spec => []PeriodsBacked
<1>1. Init => PeriodsBacked
  <2>. SUFFICES ASSUME Init PROVE PeriodsBacked
    OBVIOUS
  <2>1. Untouched
    BY DEF Init, Untouched, NoReport, NoInvoice, Idle
  <2>2. Month * Cardinality(Granted) \in Nat
    BY GrantedFinite, PeriodAssumption
  <2>3. NoFreeMonths
    BY <2>2 DEF Init, NoFreeMonths, PaidFor, NoSubscription, NoDate, Later
  <2>4. \A p \in Request : HoldsPaidCopy(p)
    BY DEF Init, HoldsPaidCopy, Idle
  <2>. QED BY <2>1, <2>3, <2>4 DEF PeriodsBacked
<1>2. TypeOK /\ PeriodsBacked /\ [Next]_vars => PeriodsBacked'
  <2>. SUFFICES ASSUME TypeOK, PeriodsBacked, [Next]_vars
                PROVE  PeriodsBacked'
    OBVIOUS
  <2>1. CASE UNCHANGED vars
    <3>1. Granted' = Granted
      BY <2>1 DEF vars, Granted
    <3>. QED
      BY <2>1, <3>1 DEF vars, PeriodsBacked, Untouched, NoFreeMonths, PaidFor, HoldsPaidCopy
  <2>. QED
    BY <2>1, RequestStepKeepsPeriods, ArrivalKeepsPeriods, WorldKeepsPeriods DEF Next
<1>. QED BY <1>1, <1>2, TypeCorrect, PTL DEF Spec

\* Paying early gives no days away, in any interleaving of reports, verdicts,
\* webhooks, checkouts and plan choices: the paid period is backed by one
\* verified payment per month (advanceSubscription, 193-275).
THEOREM PeriodsArePaidFor == Spec => []NoFreeMonths
<1>1. PeriodsBacked => NoFreeMonths
  BY DEF PeriodsBacked
<1>. QED BY <1>1, PeriodsStayBacked, PTL

-----------------------------------------------------------------------------
(* The month each delivery of a payment buys *)

WritesReport == {"readSubscription", "saveVerified", "advance", "saveRejected",
                 "flagReport", "rejectReport", "saveExpired"}

\* A copy of a report that will be written back names no cycle and is of a row
\* of the same invoice; a webhook works on a report of its own invoice, and
\* marks the invoice paid once one of its reports has its month.
CopyIsTrue(copy) ==
  /\ copy.step \in WritesReport =>
       /\ copy.report.status # "none" /\ copy.report.coveredTo = NoDate
       /\ report[copy.reportId].status # "none"
       /\ report[copy.reportId].invoice = copy.report.invoice
       /\ copy.event # NoEvent => copy.report.invoice = copy.invoiceId
  /\ copy.step = "insertReport" => copy.report.coveredTo = NoDate /\ copy.report.status # "none"
  /\ copy.step = "advance" => copy.report.status = "verified"
  /\ copy.step = "savePaid" => \E r \in Granted : report[r].invoice = copy.invoiceId

\* An audit row is of a report that exists.
GrantsAreReported == \A r \in Granted : report[r].status # "none"

CoverageIsTrue ==
  /\ FrozenCoverage /\ PaidMeansExtended /\ GrantsAreReported
  /\ \A p \in Request : CopyIsTrue(local[p])

\* A delivery belongs to one request, which has bought nothing with it before
\* it comes to mark the invoice paid.
DeliveriesAreSingle ==
  /\ OneMonthPerDelivery
  /\ \A r \in ReportId : granted[r].by # NoEvent => granted[r].done /\ granted[r].by \in recorded
  /\ \A p \in Request : local[p].event # NoEvent =>
       /\ local[p].event \in recorded
       /\ \A q \in Request \ {p} : local[q].event # local[p].event
       /\ local[p].step # "savePaid" => \A r \in ReportId : granted[r].by # local[p].event

\* No report changes its invoice or goes away, and no audit row is rewritten.
RowsStay ==
  /\ \A r \in ReportId : report[r].status # "none" =>
       report'[r].status # "none" /\ report'[r].invoice = report[r].invoice
  /\ \A r \in Granted : granted'[r] = granted[r]

LEMMA CopyStaysTrue ==
  ASSUME TypeOK, RowsStay, GrantsAreReported,
         NEW copy \in Local, NamesItsRows(copy), CopyIsTrue(copy)
  PROVE  CopyIsTrue(copy)'
<1>1. copy.step \in WritesReport => copy.reportId \in ReportId
  BY DEF NamesItsRows, WritesReport, Local
<1>2. \A r \in Granted : r \in Granted' /\ report'[r].invoice = report[r].invoice
  BY DEF RowsStay, GrantsAreReported, Granted
<1>3. (copy.step \in WritesReport =>
       /\ copy.report.status # "none" /\ copy.report.coveredTo = NoDate
       /\ report[copy.reportId].status # "none"
       /\ report[copy.reportId].invoice = copy.report.invoice
       /\ copy.event # NoEvent => copy.report.invoice = copy.invoiceId)'
  BY <1>1 DEF CopyIsTrue, RowsStay
<1>. QED BY <1>2, <1>3 DEF CopyIsTrue

\* A step that leaves the tables true and the copy of its own request true
\* leaves everything true.
LEMMA TrueCopiesStay ==
  ASSUME TypeOK, CoverageIsTrue, RowsStay, NEW p \in Request, NEW next,
         Goto(p, next), CopyIsTrue(next)',
         FrozenCoverage', PaidMeansExtended', GrantsAreReported'
  PROVE  CoverageIsTrue'
<1>1. ASSUME NEW q \in Request
      PROVE  CopyIsTrue(local[q])'
  <2>1. CASE q = p
    <3>1. local'[q] = next
      BY <2>1 DEF Goto, TypeOK, Shapes
    <3>. QED BY <3>1 DEF CopyIsTrue
  <2>2. CASE q # p
    <3>1. local'[q] = local[q]
      BY <2>2 DEF Goto, TypeOK, Shapes
    <3>2. CopyIsTrue(local[q]) /\ NamesItsRows(local[q]) /\ local[q] \in Local
      BY LocalType DEF CoverageIsTrue, TypeOK
    <3>3. PICK copy : copy = local[q]
      OBVIOUS
    <3>4. CopyIsTrue(copy)'
      BY <3>2, <3>3, CopyStaysTrue DEF CoverageIsTrue
    <3>5. local'[q] = copy
      BY <3>1, <3>3
    <3>. QED BY <3>4, <3>5 DEF CopyIsTrue
  <2>. QED BY <2>1, <2>2
<1>. QED BY <1>1 DEF CoverageIsTrue

TablesStayTrue ==
  RowsStay /\ FrozenCoverage' /\ PaidMeansExtended' /\ GrantsAreReported'

\* A step that writes no report and no audit row and collects no invoice.
LEMMA UntouchedReports ==
  ASSUME CoverageIsTrue, UNCHANGED <<report, granted>>,
         \A i \in InvoiceId : invoice'[i].status = "paid" => invoice[i].status = "paid"
  PROVE  TablesStayTrue
<1>1. Granted' = Granted
  BY DEF Granted
<1>2. RowsStay /\ GrantsAreReported'
  BY <1>1 DEF CoverageIsTrue, RowsStay, GrantsAreReported
<1>3. FrozenCoverage' /\ PaidMeansExtended'
  BY <1>1 DEF CoverageIsTrue, FrozenCoverage, PaidMeansExtended
<1>. QED BY <1>2, <1>3 DEF TablesStayTrue

\* A report saved over its own row, or over a row that does not exist yet.
LEMMA SavedReport ==
  ASSUME TypeOK, CoverageIsTrue, NEW r \in ReportId, NEW row \in ReportRow,
         SaveReport(r, row), UNCHANGED <<invoice, granted>>,
         row.status # "none", row.coveredTo = NoDate,
         report[r].status # "none" => row.invoice = report[r].invoice
  PROVE  TablesStayTrue
<1>1. Granted' = Granted /\ (r \in Granted => report[r].status # "none")
  BY DEF Granted, CoverageIsTrue, GrantsAreReported
<1>2. \A s \in ReportId : report'[s] = IF s = r THEN row ELSE report[s]
  BY DEF SaveReport, TypeOK, Shapes
<1>3. RowsStay
  BY <1>2 DEF RowsStay
<1>4. GrantsAreReported'
  BY <1>1, <1>2 DEF CoverageIsTrue, GrantsAreReported, Granted
<1>5. FrozenCoverage'
  BY <1>2 DEF CoverageIsTrue, FrozenCoverage
<1>6. PaidMeansExtended'
  <2>. SUFFICES ASSUME NEW i \in InvoiceId, invoice[i].status = "paid"
                PROVE  \E s \in Granted : report'[s].invoice = i
    BY <1>1 DEF PaidMeansExtended
  <2>1. PICK s \in Granted : report[s].invoice = i
    BY DEF CoverageIsTrue, PaidMeansExtended
  <2>2. report'[s].invoice = i
    BY <1>1, <1>2, <2>1 DEF Granted
  <2>. QED BY <2>2
<1>. QED BY <1>3, <1>4, <1>5, <1>6 DEF TablesStayTrue

Writes(copy) == copy.step \in WritesReport \cup {"insertReport", "savePaid"}

LEMMA IdleCopyIsTrue ==
  ASSUME NEW copy, ~Writes(copy)
  PROVE  CopyIsTrue(copy) /\ CopyIsTrue(copy)'
BY DEF CopyIsTrue, Writes, WritesReport

LEMMA IdleWritesNothing ==
  /\ ~Writes(Idle)
  /\ \A i, row : ~Writes(ThenRelease(i, row))
BY DEF Writes, WritesReport, Idle, ThenRelease

LEMMA Finished ==
  ASSUME TypeOK, CoverageIsTrue, TablesStayTrue, NEW p \in Request, Finish(p)
  PROVE  CoverageIsTrue'
BY NoRowsType, TrueCopiesStay, IdleWritesNothing, IdleCopyIsTrue DEF Finish, TablesStayTrue

LEMMA MovedOn ==
  ASSUME TypeOK, CoverageIsTrue, TablesStayTrue, NEW p \in Request, NEW next,
         Goto(p, next), ~Writes(next)
  PROVE  CoverageIsTrue'
BY TrueCopiesStay, IdleCopyIsTrue DEF TablesStayTrue

LEMMA NothingWritten ==
  ASSUME CoverageIsTrue, UNCHANGED tables
  PROVE  TablesStayTrue
BY UntouchedReports DEF tables

LEMMA Refused ==
  ASSUME TypeOK, CoverageIsTrue, NEW p \in Request, NEW r, NEW row, SaveRefused(p, r, row)
  PROVE  CoverageIsTrue'
BY Finished, NothingWritten DEF SaveRefused

\* What the copy of a request about to write a report knows.
LEMMA HeldReport ==
  ASSUME TypeOK, CoverageIsTrue, NEW p \in Request, local[p].step \in WritesReport
  PROVE  /\ local[p].reportId \in ReportId /\ local[p].report \in ReportRow
         /\ local[p].report.status # "none" /\ local[p].report.coveredTo = NoDate
         /\ report[local[p].reportId].status # "none"
         /\ report[local[p].reportId].invoice = local[p].report.invoice
         /\ local[p].event # NoEvent => local[p].report.invoice = local[p].invoiceId
BY LocalType DEF CoverageIsTrue, CopyIsTrue, TypeOK, NamesItsRows, WritesReport

\* A report saved from its own copy.
LEMMA CopySaved ==
  ASSUME TypeOK, CoverageIsTrue, NEW p \in Request, local[p].step \in WritesReport,
         NEW row \in ReportRow, SaveReport(local[p].reportId, row),
         UNCHANGED <<invoice, granted>>,
         row.status # "none", row.coveredTo = NoDate,
         row.invoice = local[p].report.invoice
  PROVE  TablesStayTrue
BY HeldReport, SavedReport

LEMMA InsertStaysTrue ==
  ASSUME TypeOK, CoverageIsTrue, NEW p \in Request, InsertReport(p)
  PROVE  CoverageIsTrue'
<1>1. PICK r \in ReportId :
        /\ NewReportId(r)
        /\ \/ /\ SaveReport(r, local[p].report)
              /\ Finish(p)
              /\ UNCHANGED <<invoice, granted>>
           \/ SaveRefused(p, r, local[p].report)
  BY DEF InsertReport
<1>2. CopyIsTrue(local[p]) /\ local[p].step = "insertReport"
  BY DEF CoverageIsTrue, InsertReport, At
<1>3. local[p].report.status # "none" /\ local[p].report.coveredTo = NoDate
      /\ local[p].report \in ReportRow
  BY <1>2, LocalType DEF CopyIsTrue
<1>4. CASE SaveRefused(p, r, local[p].report)
  BY <1>4, Refused
<1>5. CASE SaveReport(r, local[p].report) /\ Finish(p) /\ UNCHANGED <<invoice, granted>>
  <2>1. TablesStayTrue
    BY <1>1, <1>3, <1>5, SavedReport DEF NewReportId
  <2>. QED BY <1>5, <2>1, Finished
<1>. QED BY <1>1, <1>4, <1>5

LEMMA ReadStaysTrue ==
  ASSUME TypeOK, CoverageIsTrue, NEW p \in Request, ReadSubscription(p)
  PROVE  CoverageIsTrue'
<1>1. PICK next : next = [local[p] EXCEPT !.step = "saveVerified", !.subscription = subscription]
  OBVIOUS
<1>2. Goto(p, next) /\ UNCHANGED tables /\ local[p].step = "readSubscription"
  BY <1>1 DEF ReadSubscription, At
<1>3. TablesStayTrue
  BY <1>2, NothingWritten
<1>4. CopyIsTrue(next)
  <2>1. /\ next.step = "saveVerified" /\ next.report = local[p].report
        /\ next.reportId = local[p].reportId /\ next.event = local[p].event
        /\ next.invoiceId = local[p].invoiceId
    BY <1>1, LocalType DEF Local
  <2>. QED BY <1>2, <2>1, HeldReport DEF CopyIsTrue, WritesReport
<1>5. CopyIsTrue(next)'
  BY <1>2, <1>4 DEF CopyIsTrue, tables, Granted
<1>. QED BY <1>2, <1>3, <1>5, TrueCopiesStay DEF TablesStayTrue

LEMMA VerifiedStaysTrue ==
  ASSUME TypeOK, CoverageIsTrue, NEW p \in Request, SaveVerified(p)
  PROVE  CoverageIsTrue'
<1>. DEFINE r == local[p].reportId
            row == VerifiedReport(p)
<1>1. local[p].step = "saveVerified" /\ local[p].step \in WritesReport
  BY DEF SaveVerified, At, WritesReport
<1>2. /\ row \in ReportRow /\ row.status = "verified" /\ row.coveredTo = NoDate
      /\ row.invoice = local[p].report.invoice
  BY <1>1, HeldReport DEF VerifiedReport, ReportRow, ReportStatus, AutoCheck
<1>3. CASE SaveRefused(p, r, row)
  BY <1>3, Refused
<1>4. CASE SaveReport(r, row) /\ Goto(p, AfterVerified(p, row)) /\ UNCHANGED <<invoice, granted>>
  <2>1. TablesStayTrue
    BY <1>1, <1>2, <1>4, CopySaved
  <2>2. PICK next : next = AfterVerified(p, row)
    OBVIOUS
  <2>3. /\ next.step = "advance" /\ next.report = row
        /\ next.reportId = r /\ next.event = local[p].event
        /\ next.invoiceId = local[p].invoiceId
    BY <2>2, LocalType DEF AfterVerified, Local
  <2>4. report'[r] = row
    BY <1>1, <1>4, HeldReport DEF SaveReport, TypeOK, Shapes
  <2>5. local[p].event # NoEvent => row.invoice = local[p].invoiceId
    BY <1>1, <1>2, HeldReport
  <2>6. CopyIsTrue(next)'
    <3>. HIDE DEF row, r
    <3>. QED BY <1>2, <2>3, <2>4, <2>5 DEF CopyIsTrue, WritesReport
  <2>. QED BY <1>4, <2>1, <2>2, <2>6, TrueCopiesStay DEF TablesStayTrue
<1>. QED BY <1>3, <1>4 DEF SaveVerified

LEMMA AdvanceStaysTrue ==
  ASSUME TypeOK, CoverageIsTrue, NEW p \in Request, AdvanceSubscription(p)
  PROVE  CoverageIsTrue'
<1>. DEFINE r == local[p].reportId
            row == CoveredReport(p)
<1>1. local[p].step = "advance" /\ local[p].step \in WritesReport
  BY DEF AdvanceSubscription, At, WritesReport
<1>2. r \in ReportId /\ report[r].status # "none"
      /\ report[r].invoice = local[p].report.invoice
      /\ (local[p].event # NoEvent => report[r].invoice = local[p].invoiceId)
  BY <1>1, HeldReport
<1>3. local[p].report.status = "verified"
  BY <1>1 DEF CoverageIsTrue, CopyIsTrue
<1>4. /\ row.status = "verified" /\ row.invoice = report[r].invoice
      /\ row.coveredTo = BoughtPeriodEnd(p)
  BY <1>1, <1>2, <1>3, LocalType DEF CoveredReport, ReportRow
<1>5. PICK next : next = AfterAdvance(p)
  OBVIOUS
<1>6. /\ next.step = "savePaid" => next.invoiceId = local[p].invoiceId /\ local[p].event # NoEvent
      /\ next.step \in {"savePaid", "idle"}
  BY <1>5, LocalType DEF AfterAdvance, Idle, Local
<1>7. ASSUME RowsStay, r \in Granted', report'[r].invoice = report[r].invoice
      PROVE  CopyIsTrue(next)'
  <2>. HIDE DEF r
  <2>. QED BY <1>2, <1>6, <1>7 DEF CopyIsTrue, WritesReport
<1>8. CASE SaveRefused(p, r, row)
  BY <1>8, Refused
<1>9. CASE AlreadyGranted(r) /\ Goto(p, AfterAdvance(p)) /\ UNCHANGED tables
  <2>1. TablesStayTrue
    BY <1>9, NothingWritten
  <2>2. r \in Granted'
    BY <1>2, <1>9 DEF AlreadyGranted, Granted, tables
  <2>3. CopyIsTrue(next)'
    BY <1>7, <1>9, <2>1, <2>2 DEF tables, TablesStayTrue
  <2>. QED BY <1>5, <1>9, <2>1, <2>3, TrueCopiesStay DEF TablesStayTrue
<1>10. CASE /\ ~AlreadyGranted(r)
            /\ granted' = [granted EXCEPT ![r] =
                 [done |-> TRUE,
                  previousPeriodEnd |-> local[p].subscription.currentPeriodEnd,
                  newPeriodEnd |-> BoughtPeriodEnd(p),
                  by |-> local[p].event]]
            /\ SaveReport(r, row)
            /\ Goto(p, AfterAdvance(p))
            /\ UNCHANGED invoice
  <2>1. \A s \in ReportId : report'[s] = IF s = r THEN row ELSE report[s]
    BY <1>2, <1>10 DEF SaveReport, TypeOK, Shapes
  <2>2. /\ granted'[r].done /\ granted'[r].newPeriodEnd = row.coveredTo
        /\ \A s \in ReportId \ {r} : granted'[s] = granted[s]
    BY <1>2, <1>4, <1>10 DEF TypeOK, Shapes
  <2>3. r \notin Granted /\ Granted' = Granted \cup {r}
    BY <1>2, <1>10, <2>2 DEF Granted, AlreadyGranted
  <2>. HIDE DEF r, row
  <2>4. RowsStay
    BY <1>2, <1>4, <2>1, <2>2, <2>3 DEF RowsStay, Granted
  <2>5. GrantsAreReported'
    BY <1>4, <2>1, <2>3 DEF GrantsAreReported, CoverageIsTrue, Granted
  <2>6. FrozenCoverage'
    BY <1>4, <2>1, <2>2 DEF FrozenCoverage, CoverageIsTrue
  <2>7. PaidMeansExtended'
    <3>. SUFFICES ASSUME NEW i \in InvoiceId, invoice[i].status = "paid"
                  PROVE  \E s \in Granted' : report'[s].invoice = i
      BY <1>10 DEF PaidMeansExtended
    <3>1. PICK s \in Granted : report[s].invoice = i
      BY DEF CoverageIsTrue, PaidMeansExtended
    <3>2. s # r /\ s \in ReportId
      BY <2>3 DEF Granted
    <3>. QED BY <2>1, <2>3, <3>1, <3>2
  <2>8. CopyIsTrue(next)'
    BY <1>2, <1>4, <1>7, <2>1, <2>3, <2>4
  <2>. QED BY <1>5, <1>10, <2>4, <2>5, <2>6, <2>7, <2>8, TrueCopiesStay
<1>. QED BY <1>8, <1>9, <1>10 DEF AdvanceSubscription

LEMMA VerdictStaysTrue ==
  ASSUME TypeOK, CoverageIsTrue, NEW p \in Request,
         SaveRejected(p) \/ RejectReport(p) \/ FlagReport(p) \/ SweepSave(p)
  PROVE  CoverageIsTrue'
<1>1. local[p].step \in WritesReport
  BY DEF SaveRejected, RejectReport, FlagReport, SweepSave, At, WritesReport
<1>2. PICK row : row = local[p].report
  OBVIOUS
<1>3. row \in ReportRow /\ row.status # "none" /\ row.coveredTo = NoDate
  BY <1>1, <1>2, HeldReport
<1>4. ASSUME NEW copy \in ReportRow, SaveReport(local[p].reportId, copy),
             UNCHANGED <<invoice, granted>>,
             copy.status # "none", copy.coveredTo = NoDate, copy.invoice = row.invoice
      PROVE  TablesStayTrue
  BY <1>1, <1>2, <1>4, CopySaved
<1>5. CASE SaveRejected(p)
  <2>1. PICK copy : copy = [row EXCEPT !.status = "rejected"]
    OBVIOUS
  <2>2. /\ copy \in ReportRow /\ copy.status # "none" /\ copy.coveredTo = NoDate
        /\ copy.invoice = row.invoice
    BY <1>3, <2>1 DEF ReportRow, ReportStatus
  <2>3. TablesStayTrue
    BY <1>2, <1>4, <1>5, <2>1, <2>2 DEF SaveRejected
  <2>4. ~Writes([Idle EXCEPT !.step = "readInvoice", !.invoiceId = local[p].report.invoice])
    BY DEF Writes, WritesReport, Idle
  <2>. QED BY <1>5, <2>3, <2>4, MovedOn, Finished DEF SaveRejected
<1>6. CASE RejectReport(p)
  <2>1. PICK copy : copy = [row EXCEPT !.status = "rejected", !.autoCheck = "rejected"]
    OBVIOUS
  <2>2. /\ copy \in ReportRow /\ copy.status # "none" /\ copy.coveredTo = NoDate
        /\ copy.invoice = row.invoice
    BY <1>3, <2>1 DEF ReportRow, ReportStatus, AutoCheck
  <2>3. TablesStayTrue
    BY <1>2, <1>4, <1>6, <2>1, <2>2 DEF RejectReport
  <2>. QED BY <1>6, <2>3, IdleWritesNothing, MovedOn DEF RejectReport
<1>7. CASE FlagReport(p)
  <2>1. PICK copy : copy = [row EXCEPT !.autoCheck = "rejected"]
    OBVIOUS
  <2>2. /\ copy \in ReportRow /\ copy.status # "none" /\ copy.coveredTo = NoDate
        /\ copy.invoice = row.invoice
    BY <1>3, <2>1 DEF ReportRow, AutoCheck
  <2>3. SaveReport(local[p].reportId, copy) /\ UNCHANGED <<invoice, granted>> => TablesStayTrue
    BY <1>4, <2>2
  <2>4. ~Writes([local[p] EXCEPT !.step = "closeInvoice"])
    BY LocalType DEF Writes, WritesReport, Local
  <2>5. \/ SaveReport(local[p].reportId, copy) /\ UNCHANGED <<invoice, granted>>
           /\ (Finish(p) \/ Goto(p, [local[p] EXCEPT !.step = "closeInvoice"]))
        \/ SaveRefused(p, local[p].reportId, copy)
    BY <1>2, <1>7, <2>1 DEF FlagReport
  <2>. QED BY <2>3, <2>4, <2>5, MovedOn, Finished, Refused
<1>8. CASE SweepSave(p)
  <2>1. PICK copy : copy = [row EXCEPT !.autoCheck = "expired"]
    OBVIOUS
  <2>2. /\ copy \in ReportRow /\ copy.status # "none" /\ copy.coveredTo = NoDate
        /\ copy.invoice = row.invoice
    BY <1>3, <2>1 DEF ReportRow, AutoCheck
  <2>3. SaveReport(local[p].reportId, copy) /\ UNCHANGED <<invoice, granted>> => TablesStayTrue
    BY <1>4, <2>2
  <2>4. \/ SaveReport(local[p].reportId, copy) /\ UNCHANGED <<invoice, granted>> /\ Finish(p)
        \/ SaveRefused(p, local[p].reportId, copy)
    BY <1>2, <1>8, <2>1 DEF SweepSave
  <2>. QED BY <2>3, <2>4, Finished, Refused
<1>. QED BY <1>5, <1>6, <1>7, <1>8

LEMMA FoundStaysTrue ==
  ASSUME TypeOK, CoverageIsTrue, NEW p \in Request, FindReport(p)
  PROVE  CoverageIsTrue'
<1>1. TablesStayTrue
  BY NothingWritten DEF FindReport
<1>2. CASE Goto(p, OnNoReport(p))
  <2>1. ~Writes(OnNoReport(p))
    <3>1. ~Writes([local[p] EXCEPT !.step = "createReport"])
          /\ ~Writes([local[p] EXCEPT !.step = "closeInvoice"])
      BY LocalType DEF Writes, WritesReport, Local
    <3>. QED BY <3>1, IdleWritesNothing DEF OnNoReport
  <2>. QED BY <1>1, <1>2, <2>1, MovedOn
<1>3. ASSUME NEW r \in ReportsOf(local[p].invoiceId), Goto(p, OnReport(p, r))
      PROVE  CoverageIsTrue'
  <2>1. r \in ReportId /\ report[r].status = "reported" /\ report[r].invoice = local[p].invoiceId
    BY DEF ReportsOf
  <2>2. report[r].coveredTo = NoDate
    BY <2>1 DEF CoverageIsTrue, FrozenCoverage
  <2>3. ASSUME NEW step \in {"readSubscription", "flagReport", "rejectReport"},
               Goto(p, [local[p] EXCEPT !.step = step, !.reportId = r, !.report = report[r]])
        PROVE  CoverageIsTrue'
    <3>1. PICK next : next = [local[p] EXCEPT !.step = step, !.reportId = r, !.report = report[r]]
      OBVIOUS
    <3>2. /\ next.step = step /\ next.report = report[r] /\ next.reportId = r
          /\ next.invoiceId = local[p].invoiceId
      BY <3>1, LocalType DEF Local
    <3>3. UNCHANGED report
      BY DEF FindReport, tables
    <3>4. CopyIsTrue(next)'
      BY <2>1, <2>2, <3>2, <3>3 DEF CopyIsTrue, WritesReport
    <3>. QED BY <1>1, <2>3, <3>1, <3>4, TrueCopiesStay DEF TablesStayTrue
  <2>. QED BY <1>1, <1>3, <2>3, Finished DEF OnReport, Finish
<1>. QED BY <1>2, <1>3 DEF FindReport

LEMMA CreatedStaysTrue ==
  ASSUME TypeOK, CoverageIsTrue, NEW p \in Request, CreateReport(p)
  PROVE  CoverageIsTrue'
<1>1. PICK row : row = GatewayReport(p)
  OBVIOUS
<1>2. /\ row.status = "reported" /\ row.coveredTo = NoDate
      /\ row.invoice = local[p].invoiceId
  BY <1>1 DEF GatewayReport
<1>3. PICK r \in ReportId :
        /\ NewReportId(r)
        /\ \/ /\ SaveReport(r, row)
              /\ \/ Goto(p, [local[p] EXCEPT !.step = "readSubscription",
                                             !.reportId = r, !.report = row])
                 \/ Finish(p)
              /\ UNCHANGED <<invoice, granted>>
           \/ SaveRefused(p, r, row)
  BY <1>1 DEF CreateReport
<1>4. CASE SaveRefused(p, r, row)
  BY <1>4, Refused
<1>5. CASE SaveReport(r, row) /\ UNCHANGED <<invoice, granted>>
           /\ (\/ Goto(p, [local[p] EXCEPT !.step = "readSubscription",
                                           !.reportId = r, !.report = row])
               \/ Finish(p))
  <2>1. row \in ReportRow
    BY <1>1, GatewayReportType
  <2>3. TablesStayTrue
    BY <1>2, <1>3, <1>5, <2>1, SavedReport DEF NewReportId
  <2>4. PICK next : next = [local[p] EXCEPT !.step = "readSubscription",
                                            !.reportId = r, !.report = row]
    OBVIOUS
  <2>5. /\ next.step = "readSubscription" /\ next.report = row /\ next.reportId = r
        /\ next.invoiceId = local[p].invoiceId
    BY <2>4, LocalType DEF Local
  <2>6. report'[r] = row
    BY <1>5 DEF SaveReport, TypeOK, Shapes
  <2>7. CopyIsTrue(next)'
    BY <1>2, <2>5, <2>6 DEF CopyIsTrue, WritesReport
  <2>. QED BY <1>5, <2>3, <2>4, <2>7, TrueCopiesStay, Finished DEF TablesStayTrue
<1>. QED BY <1>3, <1>4, <1>5

LEMMA PaidStaysTrue ==
  ASSUME TypeOK, CoverageIsTrue, NEW p \in Request, SavePaid(p)
  PROVE  CoverageIsTrue'
<1>1. \E r \in Granted : report[r].invoice = local[p].invoiceId
  BY DEF SavePaid, At, CoverageIsTrue, CopyIsTrue
<1>2. \A i \in InvoiceId : invoice'[i].status = "paid" =>
        i = local[p].invoiceId \/ invoice[i].status = "paid"
  BY DEF SavePaid, TypeOK, Shapes
<1>3. UNCHANGED <<report, granted>> /\ Granted' = Granted
  BY DEF SavePaid, Granted
<1>4. PaidMeansExtended'
  BY <1>1, <1>2, <1>3 DEF PaidMeansExtended, CoverageIsTrue
<1>5. RowsStay /\ GrantsAreReported' /\ FrozenCoverage'
  BY <1>3 DEF CoverageIsTrue, RowsStay, GrantsAreReported, FrozenCoverage
<1>6. TablesStayTrue
  BY <1>4, <1>5 DEF TablesStayTrue
<1>. QED BY <1>6, Finished DEF SavePaid

\* The steps that only read, or that write an invoice or the subscription.
LEMMA OtherStepsStayTrue ==
  ASSUME TypeOK, CoverageIsTrue, NEW p \in Request, NEW newIdentification,
         \/ ReadReleasedInvoice(p) \/ CancelDocument(p) \/ CloseInvoice(p) \/ MatchInvoice(p)
         \/ ExpireStale(p) \/ ReplaceInvoice(p) \/ EmitInvoice(p) \/ SavePlan(p)
         \/ FindLive(p, newIdentification)
  PROVE  CoverageIsTrue'
<1>1. UNCHANGED <<report, granted>>
  BY DEF ReadReleasedInvoice, CancelDocument, CloseInvoice, MatchInvoice, ExpireStale,
         ReplaceInvoice, EmitInvoice, SavePlan, FindLive, tables
<1>2. \A i \in InvoiceId : invoice'[i].status = "paid" => invoice[i].status = "paid"
  <2>1. CASE UNCHANGED invoice
    BY <2>1
  <2>2. CASE CloseInvoice(p) \/ ReplaceInvoice(p)
    <3>1. [local[p].invoice EXCEPT !.status = "expired"].status = "expired"
          /\ [local[p].invoice EXCEPT !.status = "replaced"].status = "replaced"
      BY LocalType DEF InvoiceRow
    <3>. QED BY <2>2, <3>1 DEF CloseInvoice, ReplaceInvoice, TypeOK, Shapes
  <2>3. CASE ExpireStale(p)
    BY <2>3 DEF ExpireStale, TypeOK, Shapes, InvoiceRow
  <2>4. CASE EmitInvoice(p)
    BY <2>4 DEF EmitInvoice, TypeOK, Shapes
  <2>. QED
    BY <2>1, <2>2, <2>3, <2>4
    DEF ReadReleasedInvoice, CancelDocument, MatchInvoice, SavePlan, FindLive, tables
<1>3. TablesStayTrue
  BY <1>1, <1>2, UntouchedReports
<1>4. ASSUME NEW step \in {"closeInvoice", "findLive", "emitInvoice"}
      PROVE  ~Writes([local[p] EXCEPT !.step = step])
  BY LocalType DEF Writes, WritesReport, Local
<1>5. /\ ~Writes([local[p] EXCEPT !.step = "findReport", !.invoice = invoice[local[p].invoiceId]])
      /\ ~Writes([local[p] EXCEPT !.step = "emitInvoice", !.invoiceId = 0, !.invoice = NoInvoice])
      /\ \A i : ~Writes([local[p] EXCEPT !.step = "replaceInvoice", !.invoiceId = i,
                                          !.invoice = invoice[i]])
  BY LocalType DEF Writes, WritesReport, Local
<1>6. CASE ReadReleasedInvoice(p)
  BY <1>3, <1>6, MovedOn, IdleWritesNothing DEF ReadReleasedInvoice
<1>7. CASE CancelDocument(p) \/ ExpireStale(p)
  BY <1>3, <1>4, <1>7, MovedOn DEF CancelDocument, ExpireStale
<1>8. CASE CloseInvoice(p) \/ EmitInvoice(p) \/ SavePlan(p)
  BY <1>3, <1>8, Finished DEF CloseInvoice, EmitInvoice, SavePlan
<1>9. CASE MatchInvoice(p) \/ ReplaceInvoice(p)
  BY <1>3, <1>5, <1>9, MovedOn, Finished DEF MatchInvoice, ReplaceInvoice
<1>10. CASE FindLive(p, newIdentification)
  BY <1>3, <1>4, <1>5, <1>10, MovedOn, Finished DEF FindLive
<1>. QED BY <1>6, <1>7, <1>8, <1>9, <1>10

LEMMA ArrivalStaysTrue ==
  ASSUME TypeOK, CoverageIsTrue, NEW p \in Request, Arrival(p) \/ Delivery(p) \/ Fail(p)
  PROVE  CoverageIsTrue'
<1>1. UNCHANGED <<report, granted>> /\ (~Fail(p) => UNCHANGED invoice)
  BY OutsideWritesNoReport
  DEF Arrival, Delivery, ReportPayment, VerifyPayment, RejectPayment, SweepRead,
      ReleaseOpenInvoice, StartCheckout, ChoosePlan, RecordEvent, tables
<1>2. Fail(p) => UNCHANGED invoice
  BY DEF Fail, tables
<1>3. TablesStayTrue
  BY <1>1, <1>2, UntouchedReports
<1>4. ASSUME NEW ref \in Reference, NEW covered \in BOOLEAN, ReportPayment(p, ref, covered)
      PROVE  CoverageIsTrue'
  <2>1. PICK i : Goto(p, [Idle EXCEPT !.step = "insertReport", !.report = PaymentDraft(ref, covered, i)])
    BY <1>4 DEF ReportPayment
  <2>2. PICK next : next = [Idle EXCEPT !.step = "insertReport", !.report = PaymentDraft(ref, covered, i)]
    OBVIOUS
  <2>3. /\ next.step = "insertReport"
        /\ next.report.coveredTo = NoDate /\ next.report.status # "none"
    BY <2>2 DEF Idle, PaymentDraft, NoReport
  <2>4. CopyIsTrue(next)'
    BY <2>3 DEF CopyIsTrue, WritesReport
  <2>. QED BY <1>3, <2>1, <2>2, <2>4, TrueCopiesStay DEF TablesStayTrue
<1>5. ASSUME NEW r \in ReportId,
             VerifyPayment(p, r) \/ RejectPayment(p, r) \/ SweepRead(p, r)
      PROVE  CoverageIsTrue'
  <2>1. report[r].status = "reported" /\ report[r].coveredTo = NoDate
    BY <1>5 DEF VerifyPayment, RejectPayment, SweepRead, Resolvable, CoverageIsTrue, FrozenCoverage
  <2>2. PICK step \in {"readSubscription", "saveRejected", "saveExpired"} :
          Goto(p, [Idle EXCEPT !.step = step, !.reportId = r, !.report = report[r]])
    BY <1>5 DEF VerifyPayment, RejectPayment, SweepRead
  <2>3. PICK next : next = [Idle EXCEPT !.step = step, !.reportId = r, !.report = report[r]]
    OBVIOUS
  <2>4. /\ next.step = step /\ next.report = report[r] /\ next.reportId = r
        /\ next.event = NoEvent
    BY <2>3 DEF Idle
  <2>5. CopyIsTrue(next)'
    BY <1>1, <2>1, <2>4 DEF CopyIsTrue, WritesReport
  <2>. QED BY <1>3, <2>2, <2>3, <2>5, TrueCopiesStay DEF TablesStayTrue
<1>6. ASSUME NEW i \in InvoiceId, ReleaseOpenInvoice(p, i)
      PROVE  CoverageIsTrue'
  BY <1>3, <1>6, MovedOn, IdleWritesNothing DEF ReleaseOpenInvoice
<1>7. ASSUME NEW planId, StartCheckout(p, planId) \/ ChoosePlan(p, planId)
      PROVE  CoverageIsTrue'
  <2>0. PICK step \in {"expireStale", "savePlan"} :
          \E row : Goto(p, [Idle EXCEPT !.step = step, !.subscription = row])
    BY <1>7 DEF StartCheckout, ChoosePlan
  <2>1. PICK row : Goto(p, [Idle EXCEPT !.step = step, !.subscription = row])
    BY <2>0
  <2>2. ~Writes([Idle EXCEPT !.step = step, !.subscription = row])
    BY DEF Writes, WritesReport, Idle
  <2>. QED BY <1>3, <2>1, <2>2, MovedOn
<1>8. ASSUME NEW e \in emitted, RecordEvent(p, e)
      PROVE  CoverageIsTrue'
  <2>1. ~Writes([Idle EXCEPT !.step = "matchInvoice", !.event = e, !.invoiceId = e.invoice])
    BY DEF Writes, WritesReport, Idle
  <2>. QED BY <1>3, <1>8, <2>1, MovedOn DEF RecordEvent
<1>9. CASE Fail(p)
  BY <1>3, <1>9, Finished DEF Fail
<1>. QED BY <1>4, <1>5, <1>6, <1>7, <1>8, <1>9 DEF Arrival, Delivery

LEMMA CoverageStaysTrue == TypeOK /\ CoverageIsTrue /\ [Next]_vars => CoverageIsTrue'
<1>. SUFFICES ASSUME TypeOK, CoverageIsTrue, [Next]_vars PROVE CoverageIsTrue'
  OBVIOUS
<1>1. ASSUME NEW p \in Request, RequestStep(p) PROVE CoverageIsTrue'
  BY <1>1, InsertStaysTrue, ReadStaysTrue, VerifiedStaysTrue, AdvanceStaysTrue,
     VerdictStaysTrue, FoundStaysTrue, CreatedStaysTrue, PaidStaysTrue, OtherStepsStayTrue
  DEF RequestStep
<1>2. CASE World \/ UNCHANGED vars
  <2>1. UNCHANGED <<report, granted, invoice, local>>
    BY <1>2 DEF World, OwnerPays, PaymentFails, CanceledInCobrix, Tick, tables, vars
  <2>. QED
    BY <2>1 DEF CoverageIsTrue, FrozenCoverage, PaidMeansExtended, GrantsAreReported,
                CopyIsTrue, Granted
<1>. QED BY <1>1, <1>2, ArrivalStaysTrue DEF Next

LEMMA CoverageInitially == Init => CoverageIsTrue
<1>. SUFFICES ASSUME Init PROVE CoverageIsTrue
  OBVIOUS
<1>1. Granted = {}
  BY DEF Init, Granted, NoGrant
<1>2. FrozenCoverage /\ PaidMeansExtended /\ GrantsAreReported
  BY <1>1 DEF Init, FrozenCoverage, PaidMeansExtended, GrantsAreReported, NoReport, NoInvoice
<1>3. \A p \in Request : CopyIsTrue(local[p])
  BY IdleCopyIsTrue, IdleWritesNothing DEF Init
<1>. QED BY <1>2, <1>3 DEF CoverageIsTrue

\* A request goes on with its delivery, or is done with it.
LEMMA SameDelivery ==
  ASSUME TypeOK, DeliveriesAreSingle, NEW p \in Request, NEW next, Goto(p, next),
         UNCHANGED <<recorded, granted>>,
         next.event = NoEvent \/ (next.event = local[p].event /\ local[p].step # "savePaid")
  PROVE  DeliveriesAreSingle'
<1>1. local'[p] = next /\ \A q \in Request \ {p} : local'[q] = local[q]
  BY DEF Goto, TypeOK, Shapes
<1>2. OneMonthPerDelivery'
  BY DEF DeliveriesAreSingle, OneMonthPerDelivery, Granted
<1>. QED BY <1>1, <1>2 DEF DeliveriesAreSingle

LEMMA NoDelivery ==
  /\ Idle.event = NoEvent
  /\ \A i, row : ThenRelease(i, row).event = NoEvent
BY DEF Idle, ThenRelease

LEMMA GrantIsSingle ==
  ASSUME TypeOK, DeliveriesAreSingle, NEW p \in Request, AdvanceSubscription(p)
  PROVE  DeliveriesAreSingle'
<1>. DEFINE r == local[p].reportId
<1>1. local[p].step = "advance" /\ UNCHANGED recorded
  BY DEF AdvanceSubscription, At, SaveRefused, tables
<1>2. r \in ReportId
  BY <1>1, LocalType DEF TypeOK, NamesItsRows
<1>3. PICK next : next = AfterAdvance(p)
  OBVIOUS
<1>4. next.event = NoEvent \/ (next.event = local[p].event /\ next.step = "savePaid")
  BY <1>3, NoDelivery, LocalType DEF AfterAdvance, Local
<1>5. CASE UNCHANGED granted
  BY <1>1, <1>3, <1>4, <1>5, SameDelivery, NoDelivery DEF AdvanceSubscription, SaveRefused, Finish
<1>6. ASSUME ~AlreadyGranted(r), Goto(p, AfterAdvance(p)),
             NEW grant, grant.done, grant.by = local[p].event,
             granted' = [granted EXCEPT ![r] = grant]
      PROVE  DeliveriesAreSingle'
  <2>1. local'[p] = next /\ \A q \in Request \ {p} : local'[q] = local[q]
    BY <1>3, <1>6 DEF Goto, TypeOK, Shapes
  <2>2. granted'[r] = grant /\ \A s \in ReportId \ {r} : granted'[s] = granted[s]
    BY <1>2, <1>6 DEF TypeOK, Shapes
  <2>3. ~granted[r].done
    BY <1>6 DEF AlreadyGranted
  <2>. HIDE DEF r
  <2>4. grant.by # NoEvent =>
          /\ grant.by \in recorded
          /\ \A s \in ReportId : granted[s].by # grant.by
          /\ \A q \in Request \ {p} : local[q].event # grant.by
    BY <1>1, <1>6 DEF DeliveriesAreSingle
  <2>5. OneMonthPerDelivery'
    BY <1>2, <2>2, <2>4 DEF DeliveriesAreSingle, OneMonthPerDelivery, Granted
  <2>6. (\A s \in ReportId : granted[s].by # NoEvent =>
           granted[s].done /\ granted[s].by \in recorded)'
    BY <1>1, <1>2, <1>6, <2>2, <2>4 DEF DeliveriesAreSingle
  <2>7. ASSUME NEW q \in Request, local'[q].event # NoEvent
        PROVE  /\ local'[q].event \in recorded'
               /\ \A o \in Request \ {q} : local'[o].event # local'[q].event
               /\ local'[q].step # "savePaid" =>
                    \A s \in ReportId : granted'[s].by # local'[q].event
    <3>1. local'[q].event = local[q].event
      BY <1>4, <2>1, <2>7
    <3>2. local[q].event \in recorded /\ \A o \in Request \ {q} : local[o].event # local[q].event
      BY <2>7, <3>1 DEF DeliveriesAreSingle
    <3>3. \A o \in Request : local'[o].event \in {local[o].event, NoEvent}
      BY <1>4, <2>1
    <3>4. CASE q = p
      BY <1>1, <1>4, <2>1, <2>7, <3>1, <3>2, <3>3, <3>4
    <3>5. CASE q # p
      BY <1>1, <1>6, <2>1, <2>2, <2>4, <2>7, <3>1, <3>2, <3>3, <3>5 DEF DeliveriesAreSingle
    <3>. QED BY <3>4, <3>5
  <2>. QED BY <2>5, <2>6, <2>7 DEF DeliveriesAreSingle
<1>7. CASE /\ ~AlreadyGranted(r)
           /\ granted' = [granted EXCEPT ![r] =
                [done |-> TRUE,
                 previousPeriodEnd |-> local[p].subscription.currentPeriodEnd,
                 newPeriodEnd |-> BoughtPeriodEnd(p),
                 by |-> local[p].event]]
           /\ Goto(p, AfterAdvance(p))
  <2>1. PICK grant : grant = [done |-> TRUE,
                 previousPeriodEnd |-> local[p].subscription.currentPeriodEnd,
                 newPeriodEnd |-> BoughtPeriodEnd(p),
                 by |-> local[p].event]
    OBVIOUS
  <2>2. grant.done /\ grant.by = local[p].event
    BY <2>1
  <2>. QED BY <1>6, <1>7, <2>1, <2>2
<1>. QED BY <1>5, <1>7 DEF AdvanceSubscription, SaveRefused, tables

\* Every other step goes on with its delivery, or is done with it.
LEMMA StepsKeepTheirDelivery ==
  ASSUME TypeOK, NEW p \in Request, RequestStep(p), ~AdvanceSubscription(p)
  PROVE  /\ UNCHANGED <<recorded, granted>>
         /\ \E next : /\ Goto(p, next)
                      /\ \/ next.event = NoEvent
                         \/ next.event = local[p].event /\ local[p].step # "savePaid"
<1>. DEFINE Goes == \E next : /\ Goto(p, next)
                             /\ \/ next.event = NoEvent
                                \/ next.event = local[p].event /\ local[p].step # "savePaid"
<1>1. UNCHANGED <<recorded, granted>>
  BY DEF RequestStep, InsertReport, ReadSubscription, SaveVerified, SaveRejected,
         ReadReleasedInvoice, CancelDocument, CloseInvoice, MatchInvoice, FindReport,
         CreateReport, FlagReport, RejectReport, SavePaid, SweepSave, ExpireStale,
         ReplaceInvoice, EmitInvoice, SavePlan, FindLive, SaveRefused, tables
<1>2. Finish(p) => Goes
  BY NoDelivery DEF Finish
<1>3. \A i, row : Goto(p, ThenRelease(i, row)) => Goes
  BY NoDelivery
<1>4. ASSUME local[p].step # "savePaid"
      PROVE  \A next : Goto(p, next) /\ next.event = local[p].event => Goes
  BY <1>4
<1>. SUFFICES Goes
  BY <1>1
<1>. HIDE DEF Goes
<1>5. CASE InsertReport(p) \/ CloseInvoice(p) \/ SavePaid(p) \/ SweepSave(p) \/ EmitInvoice(p)
           \/ SavePlan(p)
  BY <1>2, <1>5 DEF InsertReport, CloseInvoice, SavePaid, SweepSave, EmitInvoice, SavePlan,
                    SaveRefused
<1>6. CASE RejectReport(p) \/ ReadReleasedInvoice(p)
  BY <1>3, <1>6 DEF RejectReport, ReadReleasedInvoice
<1>7. CASE ReadSubscription(p)
  <2>1. [local[p] EXCEPT !.step = "saveVerified", !.subscription = subscription].event
          = local[p].event
    BY LocalType DEF Local
  <2>. QED BY <1>4, <1>7, <2>1 DEF ReadSubscription, At
<1>8. CASE SaveVerified(p)
  <2>1. AfterVerified(p, VerifiedReport(p)).event = local[p].event
    BY LocalType DEF Local, AfterVerified
  <2>. QED BY <1>2, <1>4, <1>8, <2>1 DEF SaveVerified, SaveRefused, At
<1>9. CASE SaveRejected(p)
  <2>1. PICK next : next = [Idle EXCEPT !.step = "readInvoice",
                                        !.invoiceId = local[p].report.invoice]
    OBVIOUS
  <2>2. next.event = NoEvent
    BY <2>1 DEF Idle
  <2>. QED BY <1>2, <1>9, <2>1, <2>2 DEF SaveRejected, Goes
<1>10. CASE CancelDocument(p) \/ ExpireStale(p) \/ MatchInvoice(p) \/ ReplaceInvoice(p)
  <2>1. /\ [local[p] EXCEPT !.step = "closeInvoice"].event = local[p].event
        /\ [local[p] EXCEPT !.step = "findLive"].event = local[p].event
        /\ [local[p] EXCEPT !.step = "findReport",
                            !.invoice = invoice[local[p].invoiceId]].event = local[p].event
        /\ [local[p] EXCEPT !.step = "emitInvoice", !.invoiceId = 0,
                            !.invoice = NoInvoice].event = local[p].event
    BY LocalType DEF Local
  <2>. QED BY <1>2, <1>4, <1>10, <2>1 DEF CancelDocument, ExpireStale, MatchInvoice,
                                          ReplaceInvoice, At
<1>11. CASE FindReport(p)
  <2>1. local[p].step = "findReport"
    BY <1>11 DEF FindReport, At
  <2>2. OnNoReport(p).event \in {NoEvent, local[p].event}
    <3>1. /\ [local[p] EXCEPT !.step = "createReport"].event = local[p].event
          /\ [local[p] EXCEPT !.step = "closeInvoice"].event = local[p].event
      BY LocalType DEF Local
    <3>. QED BY <3>1, NoDelivery DEF OnNoReport
  <2>3. \A r : OnReport(p, r).event \in {NoEvent, local[p].event}
    <3>1. \A step, r : [local[p] EXCEPT !.step = step, !.reportId = r,
                                         !.report = report[r]].event = local[p].event
      BY LocalType DEF Local
    <3>. QED BY <3>1, NoDelivery DEF OnReport
  <2>4. \E next : Goto(p, next) /\ next.event \in {NoEvent, local[p].event}
    BY <1>11, <2>2, <2>3 DEF FindReport
  <2>. QED BY <2>1, <2>4 DEF Goes
<1>12. CASE CreateReport(p) \/ FlagReport(p)
  <2>1. \A r, row : [local[p] EXCEPT !.step = "readSubscription", !.reportId = r,
                                     !.report = row].event = local[p].event
    BY LocalType DEF Local
  <2>2. [local[p] EXCEPT !.step = "closeInvoice"].event = local[p].event
    BY LocalType DEF Local
  <2>. QED BY <1>2, <1>4, <1>12, <2>1, <2>2 DEF CreateReport, FlagReport, SaveRefused, At
<1>13. ASSUME NEW newIdentification, FindLive(p, newIdentification)
       PROVE  Goes
  <2>1. \A i : [local[p] EXCEPT !.step = "replaceInvoice", !.invoiceId = i,
                                !.invoice = invoice[i]].event = local[p].event
    BY LocalType DEF Local
  <2>2. [local[p] EXCEPT !.step = "emitInvoice"].event = local[p].event
    BY LocalType DEF Local
  <2>. QED BY <1>2, <1>4, <1>13, <2>1, <2>2 DEF FindLive, At
<1>. QED
  BY <1>5, <1>6, <1>7, <1>8, <1>9, <1>10, <1>11, <1>12, <1>13 DEF RequestStep

LEMMA DeliveriesStaySingle == TypeOK /\ DeliveriesAreSingle /\ [Next]_vars => DeliveriesAreSingle'
<1>. SUFFICES ASSUME TypeOK, DeliveriesAreSingle, [Next]_vars PROVE DeliveriesAreSingle'
  OBVIOUS
<1>1. ASSUME NEW p \in Request, RequestStep(p) PROVE DeliveriesAreSingle'
  BY <1>1, GrantIsSingle, StepsKeepTheirDelivery, SameDelivery
<1>2. ASSUME NEW p \in Request, Arrival(p) PROVE DeliveriesAreSingle'
  <2>1. UNCHANGED <<recorded, granted>>
    BY <1>2 DEF Arrival, ReportPayment, VerifyPayment, RejectPayment, SweepRead,
                ReleaseOpenInvoice, StartCheckout, ChoosePlan, tables
  <2>2. \A step, row, sub :
          /\ [Idle EXCEPT !.step = step, !.report = row].event = NoEvent
          /\ [Idle EXCEPT !.step = step, !.subscription = sub].event = NoEvent
    BY DEF Idle
  <2>3. ASSUME NEW ref \in Reference, NEW covered \in BOOLEAN, ReportPayment(p, ref, covered)
        PROVE  \E next : Goto(p, next) /\ next.event = NoEvent
    BY <2>2, <2>3 DEF ReportPayment
  <2>4. ASSUME NEW r \in ReportId, VerifyPayment(p, r) \/ RejectPayment(p, r) \/ SweepRead(p, r)
        PROVE  \E next : Goto(p, next) /\ next.event = NoEvent
    <3>1. PICK step \in {"readSubscription", "saveRejected", "saveExpired"} :
            Goto(p, [Idle EXCEPT !.step = step, !.reportId = r, !.report = report[r]])
      BY <2>4 DEF VerifyPayment, RejectPayment, SweepRead
    <3>2. PICK next : next = [Idle EXCEPT !.step = step, !.reportId = r, !.report = report[r]]
      OBVIOUS
    <3>3. next.event = NoEvent
      BY <3>2 DEF Idle
    <3>. QED BY <3>1, <3>2, <3>3
  <2>5. ASSUME NEW i \in InvoiceId, ReleaseOpenInvoice(p, i)
        PROVE  \E next : Goto(p, next) /\ next.event = NoEvent
    BY <2>5, NoDelivery DEF ReleaseOpenInvoice
  <2>6. ASSUME NEW planId, StartCheckout(p, planId) \/ ChoosePlan(p, planId)
        PROVE  \E next : Goto(p, next) /\ next.event = NoEvent
    BY <2>2, <2>6 DEF StartCheckout, ChoosePlan
  <2>7. \E next : Goto(p, next) /\ next.event = NoEvent
    BY <1>2, <2>3, <2>4, <2>5, <2>6 DEF Arrival
  <2>. QED BY <2>1, <2>7, SameDelivery
<1>3. ASSUME NEW p \in Request, NEW e \in emitted, RecordEvent(p, e) PROVE DeliveriesAreSingle'
  <2>1. PICK next : next = [Idle EXCEPT !.step = "matchInvoice", !.event = e,
                                        !.invoiceId = e.invoice]
    OBVIOUS
  <2>2. next.event = e
    BY <2>1 DEF Idle
  <2>3. local'[p] = next /\ \A q \in Request \ {p} : local'[q] = local[q]
    BY <1>3, <2>1 DEF RecordEvent, Goto, TypeOK, Shapes
  <2>4. UNCHANGED granted /\ recorded' = recorded \cup {e} /\ e \notin recorded /\ e # NoEvent
    <3>1. e # NoEvent
      BY DEF TypeOK, Shapes, Event, NoEvent, EventType, InvoiceEvent, GeneralEvent
    <3>. QED BY <1>3, <3>1 DEF RecordEvent, IsDuplicate
  <2>5. OneMonthPerDelivery'
    BY <2>4 DEF DeliveriesAreSingle, OneMonthPerDelivery, Granted
  <2>6. \A r \in ReportId : granted[r].by # e
    BY <2>4 DEF DeliveriesAreSingle
  <2>. QED BY <2>2, <2>3, <2>4, <2>5, <2>6 DEF DeliveriesAreSingle
<1>4. ASSUME NEW p \in Request, Fail(p) PROVE DeliveriesAreSingle'
  BY <1>4, SameDelivery, NoDelivery DEF Fail, Finish, tables
<1>5. CASE World \/ UNCHANGED vars
  <2>1. UNCHANGED <<recorded, granted, local>>
    BY <1>5 DEF World, OwnerPays, PaymentFails, CanceledInCobrix, Tick, tables, vars
  <2>. QED BY <2>1 DEF DeliveriesAreSingle, OneMonthPerDelivery, Granted
<1>. QED BY <1>1, <1>2, <1>3, <1>4, <1>5 DEF Next, Delivery

\* However requests, deliveries and failures interleave, each delivery of a
\* payment buys at most one month, an invoice is marked paid only with its
\* month bought, and a report that names its cycle is verified and names the
\* one that was granted (processInvoiceEvent, advanceSubscription).
THEOREM DeliveriesBuyMonths == Spec => []PaymentsBuyMonths
<1>1. Init => DeliveriesAreSingle
  BY DEF Init, DeliveriesAreSingle, OneMonthPerDelivery, NoGrant, Idle, Granted
<1>2. CoverageIsTrue /\ DeliveriesAreSingle => PaymentsBuyMonths
  BY DEF CoverageIsTrue, DeliveriesAreSingle, PaymentsBuyMonths
<1>. QED
  BY <1>1, <1>2, CoverageInitially, CoverageStaysTrue, DeliveriesStaySingle, TypeCorrect, PTL
  DEF Spec

-----------------------------------------------------------------------------
(* One request at a time: the promise of PrepaidMonths, kept *)

\* The salon's requests come one after another.
OneAtATime == \A p, q \in Request : p = q

\* The row of the salon and the copy its only request holds say the same, the
\* chosen plan apart; the row that does not exist has no dates.
CopyIsCurrent(copy) ==
  copy.step \in WritesBack =>
    /\ copy.subscription.trialEndsAt = subscription.trialEndsAt
    /\ copy.subscription.currentPeriodEnd = subscription.currentPeriodEnd

RowIsCurrent ==
  /\ now # 0
  /\ subscription.status = "none" <=> subscription.trialEndsAt = 0
  /\ subscription.status = "none" => subscription.currentPeriodEnd = 0
  /\ \A p \in Request : CopyIsCurrent(local[p])

\* What a step of the requests is to the salon's months: nothing, the first
\* trial, or a month bought by a report that had bought none.
Unnoticed ==
  /\ subscription'.status = "none" <=> subscription.status = "none"
  /\ UNCHANGED <<now, subscription.trialEndsAt, subscription.currentPeriodEnd, granted>>
TrialStarts ==
  /\ subscription.status = "none" /\ subscription'.status # "none"
  /\ subscription'.trialEndsAt = now + TrialLength
  /\ subscription'.currentPeriodEnd = 0
  /\ UNCHANGED <<now, granted>>
MonthBoughtBy(r) ==
  /\ r \in ReportId \ Granted
  /\ granted'[r].done
  /\ granted'[r].newPeriodEnd = subscription'.currentPeriodEnd
  /\ \A s \in ReportId \ {r} : granted'[s] = granted[s]
  /\ subscription.status # "none" /\ subscription'.status # "none"
  /\ subscription'.trialEndsAt = subscription.trialEndsAt
  /\ subscription'.currentPeriodEnd =
       PeriodCoverage(now, subscription.currentPeriodEnd, subscription.trialEndsAt).to
  /\ UNCHANGED now
ClockTicks ==
  /\ now' = now + 1
  /\ UNCHANGED <<subscription, granted, local>>

MonthStep == Unnoticed \/ TrialStarts \/ (\E r \in ReportId : MonthBoughtBy(r)) \/ ClockTicks

LEMMA EnsuredStep ==
  ASSUME TypeOK, RowIsCurrent, EnsureSubscription, UNCHANGED <<now, granted>>
  PROVE  Unnoticed \/ TrialStarts
<1>1. CASE subscription.status = "none"
  BY <1>1 DEF EnsureSubscription, EnsuredSubscription, StartTrial, NoSubscription, TrialStarts, NoDate
<1>2. CASE subscription.status # "none"
  BY <1>2 DEF EnsureSubscription, EnsuredSubscription, Unnoticed
<1>. QED BY <1>1, <1>2

LEMMA NextMonthStep ==
  ASSUME TypeOK, RowIsCurrent, PeriodsBacked, [Next]_vars
  PROVE  MonthStep
<1>1. ASSUME NEW p \in Request, AdvanceSubscription(p)
      PROVE  MonthStep
  <2>. DEFINE r == local[p].reportId
              sub == local[p].subscription
  <2>1. local[p].step = "advance"
    BY <1>1 DEF AdvanceSubscription, At
  <2>2. /\ sub.status # "none" /\ sub.trialEndsAt = subscription.trialEndsAt
        /\ sub.currentPeriodEnd = subscription.currentPeriodEnd
        /\ subscription.status # "none"
    BY <1>1, <2>1, WorkingStarted DEF PeriodsBacked, HoldsPaidCopy, RowIsCurrent, CopyIsCurrent,
                                      WritesBack, RequestStep
  <2>3. r \in ReportId /\ sub \in SubscriptionRow
    BY <2>1, LocalType DEF TypeOK, NamesItsRows
  <2>4. CASE UNCHANGED <<subscription, granted>>
    BY <1>1, <2>4 DEF AdvanceSubscription, Unnoticed, MonthStep
  <2>5. CASE /\ ~AlreadyGranted(r)
             /\ subscription' = AdvancedSubscription(p)
             /\ granted' = [granted EXCEPT ![r] =
                  [done |-> TRUE, previousPeriodEnd |-> sub.currentPeriodEnd,
                   newPeriodEnd |-> BoughtPeriodEnd(p), by |-> local[p].event]]
    <3>1. /\ subscription'.status = "active"
          /\ subscription'.trialEndsAt = sub.trialEndsAt
          /\ subscription'.currentPeriodEnd = BoughtPeriodEnd(p)
      BY <2>3, <2>5 DEF AdvancedSubscription, SubscriptionRow
    <3>2. BoughtPeriodEnd(p) =
            PeriodCoverage(now, subscription.currentPeriodEnd, subscription.trialEndsAt).to
      BY <2>2 DEF BoughtPeriodEnd
    <3>3. /\ granted'[r].done /\ granted'[r].newPeriodEnd = BoughtPeriodEnd(p)
          /\ \A s \in ReportId \ {r} : granted'[s] = granted[s]
          /\ r \notin Granted
      BY <2>3, <2>5 DEF TypeOK, Shapes, AlreadyGranted, Granted
    <3>4. UNCHANGED now
      BY <1>1 DEF AdvanceSubscription
    <3>5. MonthBoughtBy(r)
      <4>. HIDE DEF r, sub
      <4>. QED BY <2>2, <2>3, <3>1, <3>2, <3>3, <3>4 DEF MonthBoughtBy
    <3>. QED BY <2>3, <3>5 DEF MonthStep
  <2>. QED BY <1>1, <2>4, <2>5 DEF AdvanceSubscription, SaveRefused, tables
<1>2. ASSUME NEW p \in Request, RequestStep(p), ~AdvanceSubscription(p), ~SavePlan(p)
      PROVE  MonthStep
  <2>1. UNCHANGED <<now, subscription, granted>>
    BY <1>2 DEF RequestStep, InsertReport, ReadSubscription, SaveVerified, SaveRejected,
         ReadReleasedInvoice, CancelDocument, CloseInvoice, MatchInvoice, FindReport,
         CreateReport, FlagReport, RejectReport, SavePaid, SweepSave, ExpireStale,
         ReplaceInvoice, EmitInvoice, FindLive, SaveRefused, tables
  <2>. QED BY <2>1 DEF MonthStep, Unnoticed
<1>3. ASSUME NEW p \in Request, SavePlan(p)
      PROVE  MonthStep
  <2>1. local[p].step = "savePlan"
    BY <1>3 DEF SavePlan, At
  <2>2. /\ subscription'.trialEndsAt = subscription.trialEndsAt
        /\ subscription'.currentPeriodEnd = subscription.currentPeriodEnd
        /\ UNCHANGED <<now, granted>>
    BY <1>3, <2>1 DEF SavePlan, RowIsCurrent, CopyIsCurrent, WritesBack
  <2>3. subscription'.status # "none" /\ subscription.status # "none"
    BY <1>3, <2>1, WorkingStarted DEF PeriodsBacked, HoldsPaidCopy, RequestStep, SavePlan
  <2>. QED BY <2>1, <2>2, <2>3 DEF MonthStep, Unnoticed
<1>4. ASSUME NEW p \in Request, Arrival(p) \/ Delivery(p) \/ Fail(p)
      PROVE  MonthStep
  <2>1. UNCHANGED <<now, granted>>
    BY <1>4 DEF Arrival, Delivery, Fail, ReportPayment, VerifyPayment, RejectPayment,
         SweepRead, ReleaseOpenInvoice, StartCheckout, ChoosePlan, RecordEvent, tables
  <2>2. EnsureSubscription \/ UNCHANGED subscription
    BY <1>4 DEF Arrival, Delivery, Fail, ReportPayment, VerifyPayment, RejectPayment,
         SweepRead, ReleaseOpenInvoice, StartCheckout, ChoosePlan, RecordEvent, tables
  <2>. QED BY <2>1, <2>2, EnsuredStep DEF MonthStep, Unnoticed
<1>5. CASE World \/ UNCHANGED vars
  <2>1. ClockTicks \/ UNCHANGED <<now, subscription, granted>>
    BY <1>5 DEF World, OwnerPays, PaymentFails, CanceledInCobrix, Tick, tables, vars, ClockTicks
  <2>. QED BY <2>1 DEF MonthStep, Unnoticed
<1>. QED BY <1>1, <1>2, <1>3, <1>4, <1>5 DEF Next

LEMMA MonthStepsGoOn ==
  ASSUME TypeOK, RowIsCurrent, MonthStep
  PROVE  /\ now' # 0
         /\ (subscription.status = "none" <=> subscription.trialEndsAt = 0)'
         /\ (subscription.status = "none" => subscription.currentPeriodEnd = 0)'
<1>1. now \in Nat /\ now # 0
  BY DEF TypeOK, Shapes, RowIsCurrent
<1>2. CASE Unnoticed
  BY <1>2 DEF Unnoticed, RowIsCurrent
<1>3. CASE TrialStarts
  <2>1. now + TrialLength # 0
    BY <1>1, BoundAssumption
  <2>. QED BY <1>1, <1>3, <2>1 DEF TrialStarts
<1>4. CASE \E r \in ReportId : MonthBoughtBy(r)
  BY <1>1, <1>4 DEF MonthBoughtBy, RowIsCurrent
<1>5. CASE ClockTicks
  BY <1>1, <1>5 DEF ClockTicks, RowIsCurrent
<1>. QED BY <1>2, <1>3, <1>4, <1>5 DEF MonthStep

\* The copy a step leaves behind is still current.
LEMMA CopyStaysCurrent ==
  ASSUME TypeOK, RowIsCurrent, NEW p \in Request,
         RequestStep(p) \/ Arrival(p) \/ Delivery(p) \/ Fail(p)
  PROVE  CopyIsCurrent(local[p])'
<1>. DEFINE Kept(next) ==
       /\ UNCHANGED subscription
       /\ next.step \in WritesBack =>
            \/ next.subscription = subscription
            \/ /\ local[p].step \in WritesBack
               /\ next.subscription = local[p].subscription
<1>0. ASSUME NEW next, Goto(p, next), next.step \notin WritesBack \/ Kept(next)
      PROVE  CopyIsCurrent(local[p])'
  <2>1. local'[p] = next
    BY <1>0 DEF Goto, TypeOK, Shapes
  <2>. QED BY <1>0, <2>1 DEF CopyIsCurrent, RowIsCurrent
<1>1. Finish(p) => CopyIsCurrent(local[p])'
  BY <1>0 DEF Finish, Idle, WritesBack
<1>2. \A i, row : Goto(p, ThenRelease(i, row)) => CopyIsCurrent(local[p])'
  BY <1>0, ThenReleaseWritesNothing
<1>3. ASSUME NEW step \in Step \ WritesBack, Goto(p, [local[p] EXCEPT !.step = step])
      PROVE  CopyIsCurrent(local[p])'
  BY <1>0, <1>3, LocalType DEF Local
<1>. HIDE DEF Kept
<1>4. CASE InsertReport(p) \/ CloseInvoice(p) \/ SavePaid(p) \/ SweepSave(p) \/ EmitInvoice(p)
           \/ SavePlan(p) \/ Fail(p)
  BY <1>1, <1>4 DEF InsertReport, CloseInvoice, SavePaid, SweepSave, EmitInvoice, SavePlan,
                    SaveRefused, Fail
<1>5. CASE RejectReport(p) \/ ReadReleasedInvoice(p)
  BY <1>2, <1>5 DEF RejectReport, ReadReleasedInvoice
<1>6. CASE ReadSubscription(p)
  <2>1. PICK next : next = [local[p] EXCEPT !.step = "saveVerified", !.subscription = subscription]
    OBVIOUS
  <2>2. next.subscription = subscription
    BY <2>1, LocalType DEF Local
  <2>3. Kept(next)
    BY <1>6, <2>2 DEF Kept, ReadSubscription, tables
  <2>. QED BY <1>0, <1>6, <2>1, <2>3 DEF ReadSubscription
<1>7. CASE SaveVerified(p)
  <2>1. PICK next : next = AfterVerified(p, VerifiedReport(p))
    OBVIOUS
  <2>2. next.subscription = local[p].subscription
    BY <2>1, LocalType DEF Local, AfterVerified
  <2>3. Kept(next)
    BY <1>7, <2>2 DEF Kept, SaveVerified, SaveRefused, tables, At, WritesBack
  <2>. QED BY <1>0, <1>1, <1>7, <2>1, <2>3 DEF SaveVerified, SaveRefused
<1>8. CASE AdvanceSubscription(p)
  <2>1. "savePaid" \in Step \ WritesBack
    BY DEF Step, WritesBack
  <2>2. Goto(p, AfterAdvance(p)) => CopyIsCurrent(local[p])'
    BY <1>1, <1>3, <2>1 DEF AfterAdvance, Finish
  <2>. QED BY <1>1, <1>8, <2>2 DEF AdvanceSubscription, SaveRefused
<1>9. CASE SaveRejected(p)
  <2>1. [Idle EXCEPT !.step = "readInvoice", !.invoiceId = local[p].report.invoice].step
          \notin WritesBack
    BY DEF Idle, WritesBack
  <2>. QED BY <1>0, <1>1, <1>9, <2>1 DEF SaveRejected
<1>10. CASE CancelDocument(p) \/ ExpireStale(p)
  <2>1. {"closeInvoice", "findLive"} \subseteq Step \ WritesBack
    BY DEF Step, WritesBack
  <2>. QED BY <1>3, <1>10, <2>1 DEF CancelDocument, ExpireStale
<1>11. CASE MatchInvoice(p) \/ ReplaceInvoice(p)
  <2>1. /\ [local[p] EXCEPT !.step = "findReport",
                            !.invoice = invoice[local[p].invoiceId]].step \notin WritesBack
        /\ [local[p] EXCEPT !.step = "emitInvoice", !.invoiceId = 0,
                            !.invoice = NoInvoice].step \notin WritesBack
    BY LocalType DEF Local, WritesBack
  <2>. QED BY <1>0, <1>1, <1>11, <2>1 DEF MatchInvoice, ReplaceInvoice
<1>12. CASE FindReport(p)
  <2>1. OnNoReport(p).step \notin WritesBack
    BY MovesOn, ThenReleaseWritesNothing DEF OnNoReport, Idle, WritesBack
  <2>2. \A r : OnReport(p, r).step \notin WritesBack
    <3>1. \A r, step : step \notin WritesBack =>
            [local[p] EXCEPT !.step = step, !.reportId = r,
                             !.report = report[r]].step \notin WritesBack
      BY LocalType DEF Local
    <3>2. {"readSubscription", "flagReport", "rejectReport"} \cap WritesBack = {}
          /\ Idle.step \notin WritesBack
      BY DEF WritesBack, Idle
    <3>. QED BY <3>1, <3>2 DEF OnReport
  <2>3. PICK next : Goto(p, next) /\ next.step \notin WritesBack
    BY <1>12, <2>1, <2>2 DEF FindReport
  <2>. QED BY <1>0, <2>3
<1>13. CASE CreateReport(p) \/ FlagReport(p)
  <2>1. \A r, row : [local[p] EXCEPT !.step = "readSubscription", !.reportId = r,
                                     !.report = row].step \notin WritesBack
    BY LocalType DEF Local, WritesBack
  <2>2. "closeInvoice" \in Step \ WritesBack
    BY DEF Step, WritesBack
  <2>. QED BY <1>0, <1>1, <1>3, <1>13, <2>1, <2>2 DEF CreateReport, FlagReport, SaveRefused
<1>14. ASSUME NEW newIdentification, FindLive(p, newIdentification)
       PROVE  CopyIsCurrent(local[p])'
  <2>1. \A i : [local[p] EXCEPT !.step = "replaceInvoice", !.invoiceId = i,
                                !.invoice = invoice[i]].step \notin WritesBack
    BY LocalType DEF Local, WritesBack
  <2>2. "emitInvoice" \in Step \ WritesBack
    BY DEF Step, WritesBack
  <2>. QED BY <1>0, <1>1, <1>3, <1>14, <2>1, <2>2 DEF FindLive
<1>15. CASE RequestStep(p)
  BY <1>4, <1>5, <1>6, <1>7, <1>8, <1>9, <1>10, <1>11, <1>12, <1>13, <1>14, <1>15 DEF RequestStep
<1>16. ASSUME NEW ref \in Reference, NEW covered \in BOOLEAN, ReportPayment(p, ref, covered)
       PROVE  CopyIsCurrent(local[p])'
  <2>1. \A row : [Idle EXCEPT !.step = "insertReport", !.report = row].step \notin WritesBack
    BY DEF Idle, WritesBack
  <2>. QED BY <1>0, <1>16, <2>1 DEF ReportPayment
<1>17. ASSUME NEW r \in ReportId, VerifyPayment(p, r) \/ RejectPayment(p, r) \/ SweepRead(p, r)
       PROVE  CopyIsCurrent(local[p])'
  <2>1. PICK step \in {"readSubscription", "saveRejected", "saveExpired"} :
          Goto(p, [Idle EXCEPT !.step = step, !.reportId = r, !.report = report[r]])
    BY <1>17 DEF VerifyPayment, RejectPayment, SweepRead
  <2>2. [Idle EXCEPT !.step = step, !.reportId = r, !.report = report[r]].step \notin WritesBack
    BY DEF Idle, WritesBack
  <2>. QED BY <1>0, <2>1, <2>2
<1>18. ASSUME NEW i \in InvoiceId, ReleaseOpenInvoice(p, i)
       PROVE  CopyIsCurrent(local[p])'
  BY <1>2, <1>18 DEF ReleaseOpenInvoice
<1>19. ASSUME NEW planId, StartCheckout(p, planId)
       PROVE  CopyIsCurrent(local[p])'
  <2>1. \A sub : [Idle EXCEPT !.step = "expireStale", !.subscription = sub].step \notin WritesBack
    BY DEF Idle, WritesBack
  <2>. QED BY <1>0, <1>19, <2>1 DEF StartCheckout
<1>20. ASSUME NEW planId, ChoosePlan(p, planId)
       PROVE  CopyIsCurrent(local[p])'
  <2>1. PICK row : row = EnsuredSubscription
    OBVIOUS
  <2>2. row \in SubscriptionRow /\ subscription' = row
    BY <1>20, <2>1, EnsuredType DEF ChoosePlan, EnsureSubscription
  <2>3. PICK next : next = [Idle EXCEPT !.step = "savePlan",
                                        !.subscription = [row EXCEPT !.planId = planId]]
    OBVIOUS
  <2>4. /\ next.subscription.trialEndsAt = row.trialEndsAt
        /\ next.subscription.currentPeriodEnd = row.currentPeriodEnd
    BY <2>2, <2>3 DEF Idle, SubscriptionRow
  <2>5. local'[p] = next
    BY <1>20, <2>1, <2>3 DEF ChoosePlan, Goto, TypeOK, Shapes
  <2>. QED BY <2>2, <2>4, <2>5 DEF CopyIsCurrent
<1>21. ASSUME NEW e \in emitted, RecordEvent(p, e)
       PROVE  CopyIsCurrent(local[p])'
  <2>1. [Idle EXCEPT !.step = "matchInvoice", !.event = e, !.invoiceId = e.invoice].step
          \notin WritesBack
    BY DEF Idle, WritesBack
  <2>. QED BY <1>0, <1>21, <2>1 DEF RecordEvent
<1>. QED
  BY <1>4, <1>15, <1>16, <1>17, <1>18, <1>19, <1>20, <1>21 DEF Arrival, Delivery

LEMMA RowStaysCurrent ==
  ASSUME OneAtATime
  PROVE  TypeOK /\ PeriodsBacked /\ RowIsCurrent /\ [Next]_vars => RowIsCurrent'
<1>. SUFFICES ASSUME TypeOK, PeriodsBacked, RowIsCurrent, [Next]_vars PROVE RowIsCurrent'
  OBVIOUS
<1>1. /\ now' # 0
      /\ (subscription.status = "none" <=> subscription.trialEndsAt = 0)'
      /\ (subscription.status = "none" => subscription.currentPeriodEnd = 0)'
  BY NextMonthStep, MonthStepsGoOn
<1>2. ASSUME NEW q \in Request
      PROVE  CopyIsCurrent(local[q])'
  <2>1. ASSUME NEW p \in Request, RequestStep(p) \/ Arrival(p) \/ Delivery(p) \/ Fail(p)
        PROVE  CopyIsCurrent(local[q])'
    <3>1. p = q
      BY DEF OneAtATime
    <3>. QED BY <2>1, <3>1, CopyStaysCurrent
  <2>2. CASE World \/ UNCHANGED vars
    <3>1. UNCHANGED <<subscription, local>>
      BY <2>2 DEF World, OwnerPays, PaymentFails, CanceledInCobrix, Tick, tables, vars
    <3>. QED BY <3>1 DEF RowIsCurrent, CopyIsCurrent
  <2>. QED BY <2>1, <2>2 DEF Next
<1>. QED BY <1>1, <1>2 DEF RowIsCurrent

LEMMA LatestIsLater ==
  ASSUME NEW a \in Nat, NEW b \in Nat, NEW c \in Nat
  PROVE  Ledger!Latest(a, b, c) = Later(Later(a, b), c)
<1>. DEFINE m == Later(Later(a, b), c)
            S == {a, b, c}
            Greatest(d) == \A e \in S : e <= d
<1>1. m \in S /\ Greatest(m)
  BY DEF Later
<1>2. \A d \in S : Greatest(d) => d = m
  BY DEF Later
<1>3. Ledger!Latest(a, b, c) = CHOOSE d \in S : Greatest(d)
  BY DEF Ledger!Latest
<1>. HIDE DEF m, S, Greatest
<1>4. Ledger!Latest(a, b, c) = m
  BY <1>1, <1>2, <1>3
<1>. QED BY <1>4 DEF m

\* Every step is a step of PrepaidMonths, or nothing.
LEMMA PromiseStep ==
  ASSUME TypeOK, PeriodsBacked, RowIsCurrent, [Next]_vars
  PROVE  [Ledger!Next]_(Ledger!vars)
<1>. USE DEF Ledger!vars
<1>1. MonthStep
  BY NextMonthStep
<1>2. CASE Unnoticed
  <2>1. Granted' = Granted
    BY <1>2 DEF Unnoticed, Granted
  <2>. QED BY <1>2, <2>1 DEF Unnoticed
<1>3. CASE TrialStarts
  <2>1. Granted' = Granted
    BY <1>3 DEF TrialStarts, Granted
  <2>2. subscription.trialEndsAt = 0 /\ subscription.currentPeriodEnd = 0
    BY <1>3 DEF TrialStarts, RowIsCurrent
  <2>. QED BY <1>3, <2>1, <2>2 DEF TrialStarts, Ledger!Next, Ledger!StartTrial
<1>4. ASSUME NEW r \in ReportId, MonthBoughtBy(r)
      PROVE  Ledger!Next
  <2>1. r \notin Granted /\ Granted' = Granted \cup {r}
    BY <1>4 DEF MonthBoughtBy, Granted
  <2>2. /\ now \in Nat /\ subscription.currentPeriodEnd \in Nat
        /\ subscription.trialEndsAt \in Nat /\ subscription.trialEndsAt # 0
    BY <1>4 DEF MonthBoughtBy, RowIsCurrent, TypeOK, Shapes, SubscriptionRow, Date
  <2>3. subscription'.currentPeriodEnd =
          Later(Later(now, subscription.currentPeriodEnd), subscription.trialEndsAt) + Month
    BY <1>4 DEF MonthBoughtBy, PeriodCoverage, AddMonth
  <2>4. Ledger!BuyMonth(r)
    BY <1>4, <2>1, <2>2, <2>3, LatestIsLater DEF MonthBoughtBy, Ledger!BuyMonth
  <2>. QED BY <2>4 DEF Ledger!Next
<1>5. CASE ClockTicks
  <2>1. Granted' = Granted
    BY <1>5 DEF ClockTicks, Granted
  <2>. QED BY <1>5, <2>1 DEF ClockTicks, Ledger!Next, Ledger!Tick
<1>. QED BY <1>1, <1>2, <1>3, <1>4, <1>5 DEF MonthStep

LEMMA RowIsAlwaysCurrent ==
  ASSUME OneAtATime
  PROVE  Spec => []RowIsCurrent
<1>1. Init => RowIsCurrent
  BY DEF Init, RowIsCurrent, CopyIsCurrent, NoSubscription, NoDate, Idle, WritesBack
<1>. QED BY <1>1, RowStaysCurrent, TypeCorrect, PeriodsStayBacked, PTL DEF Spec

\* Without overlapping requests the tables keep the promise of PrepaidMonths,
\* also when a request dies halfway: every step is the start of the trial, one
\* month bought by a payment that had bought none, chained to the end of what
\* the salon has, a tick, or nothing (ensureSubscription, advanceSubscription).
THEOREM PromiseIsKept ==
  ASSUME OneAtATime
  PROVE  Spec => KeepsItsPromise
<1>1. Init => Ledger!Init
  BY DEF Init, Ledger!Init, NoSubscription, NoDate, Granted, NoGrant
<1>2. TypeOK /\ PeriodsBacked /\ RowIsCurrent /\ [Next]_vars => [Ledger!Next]_(Ledger!vars)
  BY PromiseStep
<1>. QED
  BY <1>1, <1>2, TypeCorrect, PeriodsStayBacked, RowIsAlwaysCurrent, PTL
  DEF Spec, KeepsItsPromise, Ledger!Spec

\* "Pagar antes no quita dias": without overlapping requests every payment buys
\* a cycle of its own, and the salon's paid period reaches to the end of the
\* last of them (advanceSubscription, periodCoverage).
THEOREM CyclesStayChained ==
  ASSUME OneAtATime
  PROVE  Spec => []CyclesChained
<1>1. Init => CyclesChained
  BY DEF Init, CyclesChained, Granted, NoGrant
<1>2. TypeOK /\ PeriodsBacked /\ RowIsCurrent /\ CyclesChained /\ [Next]_vars => CyclesChained'
  <2>. SUFFICES ASSUME TypeOK, PeriodsBacked, RowIsCurrent, CyclesChained, [Next]_vars
                PROVE  CyclesChained'
    OBVIOUS
  <2>1. MonthStep
    BY NextMonthStep
  <2>2. /\ \A r \in ReportId : granted[r].newPeriodEnd \in Nat
        /\ subscription.currentPeriodEnd \in Nat /\ subscription.trialEndsAt \in Nat
        /\ now \in Nat
    BY DEF TypeOK, Shapes, Grant, SubscriptionRow, Date
  <2>3. CASE Unnoticed \/ ClockTicks
    BY <2>3 DEF Unnoticed, ClockTicks, CyclesChained, Granted
  <2>4. CASE TrialStarts
    <3>1. subscription'.currentPeriodEnd = subscription.currentPeriodEnd /\ UNCHANGED granted
      BY <2>4 DEF TrialStarts, RowIsCurrent
    <3>. QED BY <3>1 DEF CyclesChained, Granted
  <2>5. ASSUME NEW r \in ReportId, MonthBoughtBy(r)
        PROVE  CyclesChained'
    <3>1. /\ Granted' = Granted \cup {r} /\ r \notin Granted
          /\ \A s \in Granted : granted'[s] = granted[s]
      BY <2>5 DEF MonthBoughtBy, Granted
    <3>2. /\ granted'[r].newPeriodEnd = subscription'.currentPeriodEnd
          /\ subscription'.currentPeriodEnd =
               Later(Later(now, subscription.currentPeriodEnd), subscription.trialEndsAt) + Month
      BY <2>5 DEF MonthBoughtBy, PeriodCoverage, AddMonth
    <3>3. PICK end \in Nat : end = Later(Later(now, subscription.currentPeriodEnd),
                                         subscription.trialEndsAt)
      BY <2>2 DEF Later
    <3>4. subscription.currentPeriodEnd <= end
      BY <2>2, <3>3 DEF Later
    <3>5. \A s \in Granted : granted[s].newPeriodEnd <= end /\ granted[s].newPeriodEnd \in Nat
      BY <2>2, <3>4 DEF CyclesChained, Granted
    <3>6. Month \in Nat
      BY PeriodAssumption
    <3>7. \A s \in Granted : granted'[s].newPeriodEnd + Month <= granted'[r].newPeriodEnd
      BY <3>1, <3>2, <3>3, <3>5, <3>6
    <3>8. \A s \in Granted' : granted'[s].newPeriodEnd <= subscription'.currentPeriodEnd
      BY <3>1, <3>2, <3>3, <3>5, <3>6
    <3>9. \A s, u \in Granted' : s # u =>
            \/ granted'[s].newPeriodEnd + Month <= granted'[u].newPeriodEnd
            \/ granted'[u].newPeriodEnd + Month <= granted'[s].newPeriodEnd
      BY <3>1, <3>7 DEF CyclesChained
    <3>. QED BY <3>8, <3>9 DEF CyclesChained
  <2>. QED BY <2>1, <2>3, <2>4, <2>5 DEF MonthStep
<1>. QED BY <1>1, <1>2, TypeCorrect, PeriodsStayBacked, RowIsAlwaysCurrent, PTL DEF Spec

-----------------------------------------------------------------------------
(* One request at a time: verdicts are final *)

\* What the only request is about to write has not been decided meanwhile.
ReportIsUndecided(copy) ==
  copy.step \in WritesReport \ {"advance"} =>
    report[copy.reportId].status = "reported" /\ copy.report.status = "reported"
InvoiceIsUnpaid(copy) ==
  /\ copy.step \in {"cancelDocument", "closeInvoice", "replaceInvoice"} =>
       invoice[copy.invoiceId].status # "paid"
  /\ copy.step \in {"findReport", "flagReport", "rejectReport"} /\ copy.invoice.status = "open" =>
       invoice[copy.invoiceId].status # "paid"
VerifiedWaits(copy) ==
  copy.step = "advance" => report[copy.reportId].status = "verified"

CopyIsFresh(copy) == ReportIsUndecided(copy) /\ InvoiceIsUnpaid(copy) /\ VerifiedWaits(copy)

DecidesNothing(copy) ==
  copy.step \notin WritesReport \cup {"cancelDocument", "closeInvoice", "replaceInvoice", "findReport"}

LEMMA FreshCopy ==
  ASSUME TypeOK, NEW p \in Request, NEW next, Goto(p, next), CopyIsFresh(next)'
  PROVE  CopyIsFresh(local[p])'
<1>1. local'[p] = next
  BY DEF Goto, TypeOK, Shapes
<1>. QED BY <1>1 DEF CopyIsFresh, ReportIsUndecided, InvoiceIsUnpaid, VerifiedWaits

LEMMA NothingDecided ==
  ASSUME TypeOK, NEW p \in Request, NEW next, Goto(p, next), DecidesNothing(next)
  PROVE  CopyIsFresh(local[p])'
<1>1. local'[p] = next
  BY DEF Goto, TypeOK, Shapes
<1>. QED
  BY <1>1 DEF CopyIsFresh, ReportIsUndecided, InvoiceIsUnpaid, VerifiedWaits, DecidesNothing,
              WritesReport

LEMMA FinishedFresh ==
  ASSUME TypeOK, NEW p \in Request, Finish(p)
  PROVE  CopyIsFresh(local[p])'
BY NothingDecided DEF Finish, Idle, DecidesNothing, WritesReport

\* An invoice is released while the row says open.
LEMMA ReleaseIsFresh ==
  ASSUME TypeOK, NEW p \in Request, NEW i, NEW row, Goto(p, ThenRelease(i, row)),
         row.status = "open" => invoice'[i].status # "paid"
  PROVE  CopyIsFresh(local[p])'
<1>1. CASE row.status = "open"
  <2>1. PICK next : next = [Idle EXCEPT !.step = "cancelDocument", !.invoiceId = i, !.invoice = row]
    OBVIOUS
  <2>2. next.step = "cancelDocument" /\ next.invoiceId = i
    BY <2>1 DEF Idle
  <2>3. CopyIsFresh(next)'
    BY <1>1, <2>2 DEF CopyIsFresh, ReportIsUndecided, InvoiceIsUnpaid, VerifiedWaits, WritesReport
  <2>. QED BY <1>1, <2>1, <2>3, FreshCopy DEF ThenRelease
<1>2. CASE row.status # "open"
  BY <1>2, FinishedFresh DEF ThenRelease, Finish
<1>. QED BY <1>1, <1>2

LEMMA StepStaysFresh ==
  ASSUME TypeOK, CoverageIsTrue, NEW p \in Request, CopyIsFresh(local[p]), RequestStep(p)
  PROVE  CopyIsFresh(local[p])'
<1>1. CASE InsertReport(p) \/ CloseInvoice(p) \/ SavePaid(p) \/ SweepSave(p) \/ EmitInvoice(p)
           \/ SavePlan(p)
  BY <1>1, FinishedFresh DEF InsertReport, CloseInvoice, SavePaid, SweepSave, EmitInvoice,
                             SavePlan, SaveRefused
<1>2. CASE ReadSubscription(p)
  <2>1. PICK next : next = [local[p] EXCEPT !.step = "saveVerified", !.subscription = subscription]
    OBVIOUS
  <2>2. /\ next.step = "saveVerified" /\ next.reportId = local[p].reportId
        /\ next.report = local[p].report /\ local[p].step = "readSubscription"
    BY <1>2, <2>1, LocalType DEF Local, ReadSubscription, At
  <2>3. CopyIsFresh(next)'
    BY <1>2, <2>2 DEF CopyIsFresh, ReportIsUndecided, InvoiceIsUnpaid, VerifiedWaits, WritesReport,
                      ReadSubscription, tables
  <2>. QED BY <1>2, <2>1, <2>3, FreshCopy DEF ReadSubscription
<1>3. CASE SaveVerified(p)
  <2>1. PICK row : row = VerifiedReport(p)
    OBVIOUS
  <2>2. PICK next : next = AfterVerified(p, row)
    OBVIOUS
  <2>3. /\ next.step = "advance" /\ next.reportId = local[p].reportId
        /\ row.status = "verified" /\ local[p].step = "saveVerified"
    BY <1>3, <2>1, <2>2, LocalType DEF Local, AfterVerified, VerifiedReport, ReportRow,
                                      SaveVerified, At
  <2>4. local[p].reportId \in ReportId
    BY <2>3, HeldReport DEF WritesReport
  <2>5. CASE SaveReport(local[p].reportId, row) /\ Goto(p, next)
    <3>1. report'[local[p].reportId] = row
      BY <2>4, <2>5 DEF SaveReport, TypeOK, Shapes
    <3>2. CopyIsFresh(next)'
      BY <2>3, <3>1 DEF CopyIsFresh, ReportIsUndecided, InvoiceIsUnpaid, VerifiedWaits
    <3>. QED BY <2>5, <3>2, FreshCopy
  <2>. QED BY <1>3, <2>1, <2>2, <2>5, FinishedFresh DEF SaveVerified, SaveRefused
<1>4. CASE AdvanceSubscription(p)
  <2>1. DecidesNothing(AfterAdvance(p))
    BY LocalType DEF AfterAdvance, DecidesNothing, WritesReport, Idle, Local
  <2>. QED BY <1>4, <2>1, NothingDecided, FinishedFresh DEF AdvanceSubscription, SaveRefused
<1>5. CASE SaveRejected(p)
  <2>1. DecidesNothing([Idle EXCEPT !.step = "readInvoice", !.invoiceId = local[p].report.invoice])
    BY DEF DecidesNothing, WritesReport, Idle
  <2>. QED BY <1>5, <2>1, NothingDecided, FinishedFresh DEF SaveRejected
<1>6. CASE ReadReleasedInvoice(p)
  BY <1>6, ReleaseIsFresh DEF ReadReleasedInvoice, tables
<1>7. CASE CancelDocument(p)
  <2>1. PICK next : next = [local[p] EXCEPT !.step = "closeInvoice"]
    OBVIOUS
  <2>2. /\ next.step = "closeInvoice" /\ next.invoiceId = local[p].invoiceId
        /\ local[p].step = "cancelDocument"
    BY <1>7, <2>1, LocalType DEF Local, CancelDocument, At
  <2>3. CopyIsFresh(next)'
    BY <1>7, <2>2 DEF CopyIsFresh, ReportIsUndecided, InvoiceIsUnpaid, VerifiedWaits, WritesReport,
                      CancelDocument, tables
  <2>. QED BY <1>7, <2>1, <2>3, FreshCopy DEF CancelDocument
<1>8. CASE MatchInvoice(p)
  <2>1. PICK next : next = [local[p] EXCEPT !.step = "findReport",
                                            !.invoice = invoice[local[p].invoiceId]]
    OBVIOUS
  <2>2. /\ next.step = "findReport" /\ next.invoiceId = local[p].invoiceId
        /\ next.invoice = invoice[local[p].invoiceId]
    BY <2>1, LocalType DEF Local
  <2>3. CopyIsFresh(next)'
    BY <1>8, <2>2 DEF CopyIsFresh, ReportIsUndecided, InvoiceIsUnpaid, VerifiedWaits, WritesReport,
                      MatchInvoice, tables
  <2>. QED BY <1>8, <2>1, <2>3, FreshCopy, FinishedFresh DEF MatchInvoice
<1>9. CASE FindReport(p)
  <2>1. local[p].step = "findReport" /\ UNCHANGED <<report, invoice>>
    BY <1>9 DEF FindReport, At, tables
  <2>2. local[p].invoice.status = "open" => invoice'[local[p].invoiceId].status # "paid"
    BY <2>1 DEF CopyIsFresh, InvoiceIsUnpaid
  <2>3. ASSUME Goto(p, OnNoReport(p))
        PROVE  CopyIsFresh(local[p])'
    <3>1. CASE Goto(p, [local[p] EXCEPT !.step = "createReport"])
      <4>1. DecidesNothing([local[p] EXCEPT !.step = "createReport"])
        BY LocalType DEF DecidesNothing, WritesReport, Local
      <4>. QED BY <3>1, <4>1, NothingDecided
    <3>2. CASE Goto(p, [local[p] EXCEPT !.step = "closeInvoice"]) /\ local[p].invoice.status = "open"
      <4>1. PICK next : next = [local[p] EXCEPT !.step = "closeInvoice"]
        OBVIOUS
      <4>2. next.step = "closeInvoice" /\ next.invoiceId = local[p].invoiceId
        BY <4>1, LocalType DEF Local
      <4>3. CopyIsFresh(next)'
        BY <2>2, <3>2, <4>2 DEF CopyIsFresh, ReportIsUndecided, InvoiceIsUnpaid, VerifiedWaits,
                                WritesReport
      <4>. QED BY <3>2, <4>1, <4>3, FreshCopy
    <3>3. CASE Goto(p, ThenRelease(local[p].invoiceId, local[p].invoice))
      BY <2>2, <3>3, ReleaseIsFresh
    <3>4. CASE Goto(p, Idle)
      BY <3>4, FinishedFresh DEF Finish
    <3>. QED BY <2>3, <3>1, <3>2, <3>3, <3>4 DEF OnNoReport
  <2>4. ASSUME NEW r \in ReportsOf(local[p].invoiceId), Goto(p, OnReport(p, r))
        PROVE  CopyIsFresh(local[p])'
    <3>1. report[r].status = "reported"
      BY DEF ReportsOf
    <3>2. ASSUME NEW step \in {"readSubscription", "flagReport", "rejectReport"},
                 Goto(p, [local[p] EXCEPT !.step = step, !.reportId = r, !.report = report[r]])
          PROVE  CopyIsFresh(local[p])'
      <4>1. PICK next : next = [local[p] EXCEPT !.step = step, !.reportId = r, !.report = report[r]]
        OBVIOUS
      <4>2. /\ next.step = step /\ next.report = report[r] /\ next.reportId = r
            /\ next.invoiceId = local[p].invoiceId /\ next.invoice = local[p].invoice
        BY <4>1, LocalType DEF Local
      <4>3. CopyIsFresh(next)'
        BY <2>1, <2>2, <3>1, <4>2 DEF CopyIsFresh, ReportIsUndecided, InvoiceIsUnpaid,
                                      VerifiedWaits, WritesReport
      <4>. QED BY <3>2, <4>1, <4>3, FreshCopy
    <3>3. Goto(p, Idle) => CopyIsFresh(local[p])'
      BY FinishedFresh DEF Finish
    <3>. QED BY <2>4, <3>2, <3>3 DEF OnReport
  <2>. QED BY <1>9, <2>3, <2>4 DEF FindReport
<1>10. CASE CreateReport(p)
  <2>1. PICK row : row = GatewayReport(p)
    OBVIOUS
  <2>2. PICK r \in ReportId :
          \/ /\ SaveReport(r, row)
             /\ Goto(p, [local[p] EXCEPT !.step = "readSubscription", !.reportId = r, !.report = row])
          \/ Finish(p)
    BY <1>10, <2>1 DEF CreateReport, SaveRefused
  <2>3. PICK next : next = [local[p] EXCEPT !.step = "readSubscription", !.reportId = r, !.report = row]
    OBVIOUS
  <2>4. next.step = "readSubscription" /\ next.report = row /\ next.reportId = r
        /\ row.status = "reported"
    BY <2>1, <2>3, LocalType DEF Local, GatewayReport
  <2>5. SaveReport(r, row) => report'[r] = row
    BY DEF SaveReport, TypeOK, Shapes
  <2>6. SaveReport(r, row) => CopyIsFresh(next)'
    BY <2>4, <2>5 DEF CopyIsFresh, ReportIsUndecided, InvoiceIsUnpaid, VerifiedWaits
  <2>. QED BY <2>2, <2>3, <2>6, FreshCopy, FinishedFresh
<1>11. CASE FlagReport(p)
  <2>1. PICK next : next = [local[p] EXCEPT !.step = "closeInvoice"]
    OBVIOUS
  <2>2. next.step = "closeInvoice" /\ next.invoiceId = local[p].invoiceId
    BY <2>1, LocalType DEF Local
  <2>3. local[p].step = "flagReport" /\ UNCHANGED invoice
    BY <1>11 DEF FlagReport, At, SaveRefused, tables
  <2>4. local[p].invoice.status = "open" => CopyIsFresh(next)'
    BY <2>2, <2>3 DEF CopyIsFresh, ReportIsUndecided, InvoiceIsUnpaid, VerifiedWaits, WritesReport
  <2>. QED BY <1>11, <2>1, <2>4, FreshCopy, FinishedFresh DEF FlagReport, SaveRefused
<1>12. CASE RejectReport(p)
  <2>1. local[p].invoice.status = "open" => invoice'[local[p].invoiceId].status # "paid"
    BY <1>12 DEF RejectReport, At, CopyIsFresh, InvoiceIsUnpaid
  <2>. QED BY <1>12, <2>1, ReleaseIsFresh DEF RejectReport
<1>13. CASE ExpireStale(p)
  <2>1. DecidesNothing([local[p] EXCEPT !.step = "findLive"])
    BY LocalType DEF DecidesNothing, WritesReport, Local
  <2>. QED BY <1>13, <2>1, NothingDecided DEF ExpireStale
<1>14. CASE ReplaceInvoice(p)
  <2>1. DecidesNothing([local[p] EXCEPT !.step = "emitInvoice", !.invoiceId = 0,
                                        !.invoice = NoInvoice])
    BY LocalType DEF DecidesNothing, WritesReport, Local
  <2>. QED BY <1>14, <2>1, NothingDecided DEF ReplaceInvoice
<1>15. ASSUME NEW newIdentification, FindLive(p, newIdentification)
       PROVE  CopyIsFresh(local[p])'
  <2>1. DecidesNothing([local[p] EXCEPT !.step = "emitInvoice"])
    BY LocalType DEF DecidesNothing, WritesReport, Local
  <2>2. ASSUME NEW i \in InvoiceId, IsLive(i),
               Goto(p, [local[p] EXCEPT !.step = "replaceInvoice", !.invoiceId = i,
                                        !.invoice = invoice[i]])
        PROVE  CopyIsFresh(local[p])'
    <3>1. PICK next : next = [local[p] EXCEPT !.step = "replaceInvoice", !.invoiceId = i,
                                              !.invoice = invoice[i]]
      OBVIOUS
    <3>2. next.step = "replaceInvoice" /\ next.invoiceId = i
      BY <3>1, LocalType DEF Local
    <3>3. invoice'[i].status = "open"
      BY <1>15, <2>2 DEF IsLive, IsLatest, OpenInvoices, FindLive, tables
    <3>4. CopyIsFresh(next)'
      BY <3>2, <3>3 DEF CopyIsFresh, ReportIsUndecided, InvoiceIsUnpaid, VerifiedWaits, WritesReport
    <3>. QED BY <2>2, <3>1, <3>4, FreshCopy
  <2>. QED BY <1>15, <2>1, <2>2, NothingDecided, FinishedFresh DEF FindLive
<1>. QED
  BY <1>1, <1>2, <1>3, <1>4, <1>5, <1>6, <1>7, <1>8, <1>9, <1>10, <1>11, <1>12, <1>13, <1>14,
     <1>15 DEF RequestStep

LEMMA ArrivalStaysFresh ==
  ASSUME TypeOK, NEW p \in Request, Arrival(p) \/ Delivery(p) \/ Fail(p)
  PROVE  CopyIsFresh(local[p])'
<1>1. ASSUME NEW ref \in Reference, NEW covered \in BOOLEAN, ReportPayment(p, ref, covered)
      PROVE  CopyIsFresh(local[p])'
  <2>1. \A row : DecidesNothing([Idle EXCEPT !.step = "insertReport", !.report = row])
    BY DEF DecidesNothing, WritesReport, Idle
  <2>. QED BY <1>1, <2>1, NothingDecided DEF ReportPayment
<1>2. ASSUME NEW r \in ReportId, VerifyPayment(p, r) \/ RejectPayment(p, r) \/ SweepRead(p, r)
      PROVE  CopyIsFresh(local[p])'
  <2>1. report'[r].status = "reported" /\ report' = report
    BY <1>2 DEF VerifyPayment, RejectPayment, SweepRead, Resolvable, tables
  <2>2. PICK step \in {"readSubscription", "saveRejected", "saveExpired"} :
          Goto(p, [Idle EXCEPT !.step = step, !.reportId = r, !.report = report[r]])
    BY <1>2 DEF VerifyPayment, RejectPayment, SweepRead
  <2>3. PICK next : next = [Idle EXCEPT !.step = step, !.reportId = r, !.report = report[r]]
    OBVIOUS
  <2>4. next.step = step /\ next.report = report[r] /\ next.reportId = r
    BY <2>3 DEF Idle
  <2>5. CopyIsFresh(next)'
    BY <2>1, <2>4 DEF CopyIsFresh, ReportIsUndecided, InvoiceIsUnpaid, VerifiedWaits
  <2>. QED BY <2>2, <2>3, <2>5, FreshCopy
<1>3. ASSUME NEW i \in InvoiceId, ReleaseOpenInvoice(p, i)
      PROVE  CopyIsFresh(local[p])'
  BY <1>3, ReleaseIsFresh DEF ReleaseOpenInvoice, tables
<1>4. ASSUME NEW planId, StartCheckout(p, planId) \/ ChoosePlan(p, planId)
      PROVE  CopyIsFresh(local[p])'
  <2>1. \A sub : /\ DecidesNothing([Idle EXCEPT !.step = "expireStale", !.subscription = sub])
                 /\ DecidesNothing([Idle EXCEPT !.step = "savePlan", !.subscription = sub])
    BY DEF DecidesNothing, WritesReport, Idle
  <2>. QED BY <1>4, <2>1, NothingDecided DEF StartCheckout, ChoosePlan
<1>5. ASSUME NEW e \in emitted, RecordEvent(p, e)
      PROVE  CopyIsFresh(local[p])'
  <2>1. DecidesNothing([Idle EXCEPT !.step = "matchInvoice", !.event = e, !.invoiceId = e.invoice])
    BY DEF DecidesNothing, WritesReport, Idle
  <2>. QED BY <1>5, <2>1, NothingDecided DEF RecordEvent
<1>6. Fail(p) => CopyIsFresh(local[p])'
  BY FinishedFresh DEF Fail
<1>. QED BY <1>1, <1>2, <1>3, <1>4, <1>5, <1>6 DEF Arrival, Delivery

CopiesAreFresh == \A p \in Request : CopyIsFresh(local[p])

LEMMA CopiesStayFresh ==
  ASSUME OneAtATime
  PROVE  TypeOK /\ CoverageIsTrue /\ CopiesAreFresh /\ [Next]_vars => CopiesAreFresh'
<1>. SUFFICES ASSUME TypeOK, CoverageIsTrue, CopiesAreFresh, [Next]_vars,
                     NEW q \in Request
              PROVE  CopyIsFresh(local[q])'
  BY DEF CopiesAreFresh
<1>1. ASSUME NEW p \in Request, RequestStep(p) \/ Arrival(p) \/ Delivery(p) \/ Fail(p)
      PROVE  CopyIsFresh(local[q])'
  <2>1. p = q /\ CopyIsFresh(local[p])
    BY DEF OneAtATime, CopiesAreFresh
  <2>. QED BY <1>1, <2>1, StepStaysFresh, ArrivalStaysFresh
<1>2. CASE World \/ UNCHANGED vars
  <2>1. UNCHANGED <<report, invoice, local>>
    BY <1>2 DEF World, OwnerPays, PaymentFails, CanceledInCobrix, Tick, tables, vars
  <2>. QED
    BY <2>1 DEF CopiesAreFresh, CopyIsFresh, ReportIsUndecided, InvoiceIsUnpaid, VerifiedWaits
<1>. QED BY <1>1, <1>2 DEF Next

\* A resolved report keeps its verdict.
LEMMA VerdictStands ==
  ASSUME TypeOK, CoverageIsTrue, CopiesAreFresh, [Next]_vars,
         NEW r \in ReportId, report[r].status \in {"verified", "rejected"}
  PROVE  report'[r].status = report[r].status
<1>1. ASSUME NEW s \in ReportId, NEW row, SaveReport(s, row),
             report[s].status \in {"none", "reported"} \/ row.status = report[s].status
      PROVE  report'[r].status = report[r].status
  BY <1>1 DEF SaveReport, TypeOK, Shapes
<1>2. ASSUME NEW p \in Request, InsertReport(p) \/ CreateReport(p)
      PROVE  report'[r].status = report[r].status
  BY <1>1, <1>2 DEF InsertReport, CreateReport, NewReportId, SaveRefused, tables
<1>3. ASSUME NEW p \in Request,
             SaveVerified(p) \/ SaveRejected(p) \/ FlagReport(p) \/ RejectReport(p) \/ SweepSave(p)
      PROVE  report'[r].status = report[r].status
  <2>1. local[p].step \in WritesReport \ {"advance"}
    BY <1>3 DEF SaveVerified, SaveRejected, FlagReport, RejectReport, SweepSave, At, WritesReport
  <2>2. local[p].reportId \in ReportId /\ report[local[p].reportId].status = "reported"
    BY <2>1, HeldReport DEF CopiesAreFresh, CopyIsFresh, ReportIsUndecided
  <2>3. UNCHANGED report \/ \E row : SaveReport(local[p].reportId, row)
    BY <1>3 DEF SaveVerified, SaveRejected, FlagReport, RejectReport, SweepSave, SaveRefused, tables
  <2>. QED BY <1>1, <2>2, <2>3
<1>4. ASSUME NEW p \in Request, AdvanceSubscription(p)
      PROVE  report'[r].status = report[r].status
  <2>1. local[p].step = "advance" /\ local[p].step \in WritesReport
    BY <1>4 DEF AdvanceSubscription, At, WritesReport
  <2>2. /\ local[p].reportId \in ReportId /\ local[p].report \in ReportRow
        /\ report[local[p].reportId].status = "verified"
    BY <2>1, HeldReport DEF CopiesAreFresh, CopyIsFresh, VerifiedWaits
  <2>3. CoveredReport(p).status = "verified"
    BY <2>1, <2>2 DEF CoverageIsTrue, CopyIsTrue, CoveredReport, ReportRow
  <2>. QED BY <1>1, <1>4, <2>2, <2>3 DEF AdvanceSubscription, SaveRefused, tables
<1>5. CASE UNCHANGED report
  BY <1>5
<1>6. ASSUME NEW p \in Request, RequestStep(p)
      PROVE  report'[r].status = report[r].status
  BY <1>2, <1>3, <1>4, <1>5, <1>6
  DEF RequestStep, ReadSubscription, ReadReleasedInvoice, CancelDocument, CloseInvoice,
      MatchInvoice, FindReport, SavePaid, ExpireStale, ReplaceInvoice, EmitInvoice,
      SavePlan, FindLive, tables
<1>. QED BY <1>5, <1>6, OutsideWritesNoReport DEF Next, vars

\* An invoice that was paid stays paid.
LEMMA PaidStands ==
  ASSUME TypeOK, CopiesAreFresh, [Next]_vars,
         NEW i \in InvoiceId, invoice[i].status = "paid"
  PROVE  invoice'[i].status = "paid"
<1>1. ASSUME NEW p \in Request, CloseInvoice(p) \/ ReplaceInvoice(p)
      PROVE  invoice'[i].status = "paid"
  <2>1. invoice[local[p].invoiceId].status # "paid"
    BY <1>1 DEF CloseInvoice, ReplaceInvoice, At, CopiesAreFresh, CopyIsFresh, InvoiceIsUnpaid
  <2>. QED BY <1>1, <2>1 DEF CloseInvoice, ReplaceInvoice, TypeOK, Shapes
<1>2. ASSUME NEW p \in Request, SavePaid(p)
      PROVE  invoice'[i].status = "paid"
  <2>1. [local[p].invoice EXCEPT !.status = "paid"].status = "paid"
    BY LocalType DEF InvoiceRow
  <2>. QED BY <1>2, <2>1 DEF SavePaid, TypeOK, Shapes
<1>3. ASSUME NEW p \in Request, ExpireStale(p) \/ EmitInvoice(p)
      PROVE  invoice'[i].status = "paid"
  BY <1>3 DEF ExpireStale, EmitInvoice, TypeOK, Shapes
<1>4. CASE UNCHANGED invoice
  BY <1>4
<1>5. ASSUME NEW p \in Request, RequestStep(p)
      PROVE  invoice'[i].status = "paid"
  BY <1>1, <1>2, <1>3, <1>4, <1>5
  DEF RequestStep, InsertReport, ReadSubscription, SaveVerified, AdvanceSubscription,
      SaveRejected, ReadReleasedInvoice, CancelDocument, MatchInvoice, FindReport, CreateReport,
      FlagReport, RejectReport, SweepSave, SavePlan, FindLive, SaveRefused, tables
<1>6. ASSUME NEW p \in Request, Arrival(p) \/ Delivery(p) \/ Fail(p)
      PROVE  UNCHANGED invoice
  BY <1>6 DEF Arrival, Delivery, Fail, ReportPayment, VerifyPayment, RejectPayment, SweepRead,
      ReleaseOpenInvoice, StartCheckout, ChoosePlan, RecordEvent, tables
<1>7. World \/ UNCHANGED vars => UNCHANGED invoice
  BY DEF World, OwnerPays, PaymentFails, CanceledInCobrix, Tick, tables, vars
<1>. QED BY <1>4, <1>5, <1>6, <1>7 DEF Next

\* Without overlapping requests a verdict is final: nothing the gateway, the
\* sweep, an administrator or a checkout does later reopens a resolved report
\* or forgets that an invoice was collected (findReportedOrFail, release).
THEOREM VerdictsStand ==
  ASSUME OneAtATime
  PROVE  Spec => VerdictsAreFinal
<1>1. Init => CopiesAreFresh
  BY DEF Init, CopiesAreFresh, CopyIsFresh, ReportIsUndecided, InvoiceIsUnpaid, VerifiedWaits,
         WritesReport, Idle
<1>2. Init => CoverageIsTrue
  BY CoverageInitially
<1>3. TypeOK /\ CoverageIsTrue /\ CopiesAreFresh /\ [Next]_vars =>
        [\A r \in ReportId : report[r].status \in {"verified", "rejected"} =>
           report'[r].status = report[r].status]_vars
  BY VerdictStands
<1>4. TypeOK /\ CoverageIsTrue /\ CopiesAreFresh /\ [Next]_vars =>
        [\A i \in InvoiceId : invoice[i].status = "paid" => invoice'[i].status = "paid"]_vars
  BY PaidStands
<1>5. TypeOK /\ CoverageIsTrue /\ CopiesAreFresh /\ [Next]_vars => CopiesAreFresh'
  BY CopiesStayFresh
<1>. QED
  BY <1>1, <1>2, <1>3, <1>4, <1>5, CoverageStaysTrue, TypeCorrect, PTL
  DEF Spec, VerdictsAreFinal, ResolvedOnce, PaidIsFinal

====

