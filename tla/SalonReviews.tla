---------------------------- MODULE SalonReviews ----------------------------
(***************************************************************************)
(* What a client says of one appointment: the reviews of the salon and of  *)
(* the workers that attended it, its being marked as rated, the choice of  *)
(* not rating it, and the charge that may be undone meanwhile.             *)
(*                                                                         *)
(* Each await of a request is a step.  The skip saves the whole row of the *)
(* appointment as it read it.                                              *)
(***************************************************************************)
EXTENDS Integers, FiniteSets

CONSTANTS Voice,        \* requests that may be under way
          Attendant,    \* the workers of the salon
          Stars, MaxReviews, MaxSaid   \* bounds

ASSUME ReviewsAssumption == MaxReviews \in Nat /\ MaxSaid \in Nat /\ "salon" \notin Attendant

VARIABLES
  outing,    \* the appointment: its status, whether its rating was skipped
  served,    \* the workers with a service in it, and those with one not cancelled
  charged,   \* it has a session_payments row
  review,    \* company_feedback and worker_feedback rows, by id
  saying,    \* where each request is
  stale,     \* a charge was undone while its status waited to be written
  crossed,   \* a review and the skip passed each other
  said

reviewVars == <<outing, served, charged, review, saying, stale, crossed, said>>

Subject == {"salon"} \cup Attendant
Silent == [pc |-> "silent"]
Gone == [gone |-> TRUE]
ReviewId == 1..MaxReviews
Written == {r \in ReviewId : review[r] # Gone}
About(t) == {r \in Written : review[r].of = t}
Rated(t) == About(t) # {}

Says(p, l) == saying' = [saying EXCEPT ![p] = l]
Speak(p, l) ==
  /\ saying[p] = Silent /\ said < MaxSaid
  /\ Says(p, l) /\ said' = said + 1
  /\ UNCHANGED <<outing, served, charged, review, stale, crossed>>

-----------------------------------------------------------------------------
(* A review *)

Review(p, t, stars) ==
  /\ t \in Attendant => t \in served.ever
  /\ ~outing.skipped
  /\ Speak(p, [pc |-> "insert", of |-> t, stars |-> stars])

\* Mutant: a second review of the same finds no index.
NoIndex(t) == TRUE
UniqueReview(t) == ~Rated(t)

InsertReview(p) ==
  LET l == saying[p] IN
  /\ l.pc = "insert"
  /\ \/ /\ ~UniqueReview(l.of) /\ Says(p, Silent) /\ UNCHANGED <<review, crossed>>
     \/ /\ UniqueReview(l.of)
        /\ \E r \in ReviewId \ Written :
             /\ \A q \in ReviewId \ Written : r <= q
             /\ review' = [review EXCEPT ![r] = [of |-> l.of, stars |-> l.stars]]
        /\ Says(p, [pc |-> "look"])
        /\ crossed' = (crossed \/ outing.skipped \/ \E q \in Voice : saying[q].pc = "save")
  /\ UNCHANGED <<outing, served, charged, stale, said>>

WasPaid == outing.status = "paid"

LookWhetherPaid(p) ==
  /\ saying[p].pc = "look"
  /\ Says(p, IF WasPaid THEN [pc |-> "mark"] ELSE Silent)
  /\ UNCHANGED <<outing, served, charged, review, stale, crossed, said>>

\* The update names the appointment and not the status it was read with.
MarkSessionAsRated(p) ==
  /\ saying[p].pc = "mark"
  /\ outing' = [outing EXCEPT !.status = "rated"]
  /\ Says(p, Silent)
  /\ UNCHANGED <<served, charged, review, stale, crossed, said>>

UpdateReview(r, stars) ==
  /\ r \in Written /\ review[r].stars # stars
  /\ review' = [review EXCEPT ![r].stars = stars]
  /\ UNCHANGED <<outing, served, charged, saying, stale, crossed, said>>

RemoveReview(r) ==
  /\ r \in Written
  /\ review' = [review EXCEPT ![r] = Gone]
  /\ UNCHANGED <<outing, served, charged, saying, stale, crossed, said>>

-----------------------------------------------------------------------------
(* Not rating it *)

BeginSkip(p) == ~outing.skipped /\ Speak(p, [pc |-> "ask", copy |-> outing])

\* The workers of the services that were cancelled do not count.
NoReviews == ~Rated("salon") /\ \A w \in served.now : ~Rated(w)

AskReviews(p) ==
  /\ saying[p].pc = "ask"
  /\ Says(p, IF NoReviews THEN [saying[p] EXCEPT !.pc = "save"] ELSE Silent)
  /\ UNCHANGED <<outing, served, charged, review, stale, crossed, said>>

SaveSkip(p) ==
  LET l == saying[p] IN
  /\ l.pc = "save"
  /\ outing' = [l.copy EXCEPT !.skipped = TRUE]
  /\ stale' = (stale \/ l.copy.status # outing.status)
  /\ Says(p, Silent)
  /\ UNCHANGED <<served, charged, review, crossed, said>>

-----------------------------------------------------------------------------
(* The appointment meanwhile *)

Charge ==
  /\ outing.status = "completed" /\ ~charged
  /\ outing' = [outing EXCEPT !.status = "paid"] /\ charged' = TRUE
  /\ UNCHANGED <<served, review, saying, stale, crossed, said>>

RevertCharge ==
  /\ outing.status \in {"paid", "rated"} /\ charged
  /\ outing' = [outing EXCEPT !.status = "completed"] /\ charged' = FALSE
  /\ stale' = (stale \/ \E p \in Voice : saying[p].pc = "mark")
  /\ UNCHANGED <<served, review, saying, crossed, said>>

CancelService(w) ==
  /\ w \in served.now /\ outing.status = "completed"
  /\ served' = [served EXCEPT !.now = @ \ {w}]
  /\ UNCHANGED <<outing, charged, review, saying, stale, crossed, said>>

Hush(p) ==
  /\ saying[p] # Silent /\ Says(p, Silent)
  /\ UNCHANGED <<outing, served, charged, review, stale, crossed, said>>

-----------------------------------------------------------------------------
ReviewsInit ==
  /\ outing = [status |-> "completed", skipped |-> FALSE] /\ charged = FALSE
  /\ \E ws \in SUBSET Attendant : served = [ever |-> ws, now |-> ws]
  /\ review = [r \in ReviewId |-> Gone]
  /\ saying = [p \in Voice |-> Silent]
  /\ stale = FALSE /\ crossed = FALSE /\ said = 0

ReviewsNext ==
  \/ \E p \in Voice :
       \/ \E t \in Subject, n \in Stars : Review(p, t, n)
       \/ InsertReview(p) \/ LookWhetherPaid(p) \/ MarkSessionAsRated(p)
       \/ BeginSkip(p) \/ AskReviews(p) \/ SaveSkip(p) \/ Hush(p)
  \/ \E r \in ReviewId : RemoveReview(r) \/ \E n \in Stars : UpdateReview(r, n)
  \/ Charge \/ RevertCharge \/ \E w \in Attendant : CancelService(w)

ReviewsSpec == ReviewsInit /\ [][ReviewsNext]_reviewVars

-----------------------------------------------------------------------------
(* Properties *)

ReviewsTypeOK ==
  /\ outing \in [status : {"completed", "paid", "rated"}, skipped : BOOLEAN]
  /\ served \in [ever : SUBSET Attendant, now : SUBSET Attendant]
  /\ charged \in BOOLEAN /\ stale \in BOOLEAN /\ crossed \in BOOLEAN
  /\ review \in [ReviewId -> {Gone} \cup [of : Subject, stars : Stars]]
  /\ \A r \in Written : review[r].of \in served.ever \cup {"salon"}

\* Of the requests that bring the review of one subject, one leaves a row
\* (UQ_worker_feedback_client_session, UQ_company_feedback_client_session).
OneReviewEach == \A t \in Subject : Cardinality(About(t)) <= 1

\* An appointment that is paid or rated has its charge, unless a request that
\* read its status before the charge was undone wrote it afterwards.
PaidHasItsCharge == outing.status \in {"paid", "rated"} => charged \/ stale

\* "Así el skip nunca cae sobre una cita que ya tiene reseñas": it happens only
\* when the review was written between the skip's reading and its saving, or
\* by a request that had found the appointment not skipped.
SkippedHasNoReview ==
  outing.skipped /\ ~crossed => \A t \in {"salon"} \cup served.now : ~Rated(t)

\* An appointment, its charge and its reviews agree (feedbacks.service.ts).
ReviewsAgree == ReviewsTypeOK /\ OneReviewEach /\ PaidHasItsCharge /\ SkippedHasNoReview

=============================================================================
