------------------------- MODULE SalonRecordsProofs -------------------------
(***************************************************************************)
(* Theorems about the records a salon keeps: what its clients say of an    *)
(* appointment (SalonReviews), who works in which salon (SalonStaff), who  *)
(* its clients are (SalonClients), how its onboarding goes                 *)
(* (SalonOnboarding) and who has access to it (SalonAccess), for every     *)
(* number of requests, workers, clients, salons and accounts.              *)
(***************************************************************************)
EXTENDS SalonReviews, SalonStaff, SalonClients, SalonOnboarding, SalonAccess,
        FiniteSetTheorems, TLAPS

-----------------------------------------------------------------------------
(* Reviews *)

Outing == [status : {"completed", "paid", "rated"}, skipped : BOOLEAN]
ReviewRow == [of : Subject, stars : Stars]

\* What a request carries from one await to the next.
SaysSo(l) ==
  /\ l.pc = "insert" => l.of \in served.ever \cup {"salon"} /\ l.stars \in Stars
  /\ l.pc \in {"ask", "save"} => l.copy \in Outing

ReviewsTyped ==
  /\ ReviewsTypeOK
  /\ served.now \subseteq served.ever
  /\ DOMAIN saying = Voice /\ saying = [p \in Voice |-> saying[p]]
  /\ \A p \in Voice : SaysSo(saying[p])

\* No two rows are about the same.
RowsDiffer == \A q, r \in Written : review[q].of = review[r].of => q = r

\* A request on its way to mark the appointment as rated found it charged.
MarksCharged == \A p \in Voice : saying[p].pc = "mark" => charged \/ stale

\* One on its way to skip it found no review, and none came since.
SkipsUnreviewed == \A p \in Voice : saying[p].pc = "save" => NoReviews \/ crossed

ReviewsInv ==
  /\ ReviewsTyped /\ RowsDiffer
  /\ PaidHasItsCharge /\ MarksCharged
  /\ SkippedHasNoReview /\ SkipsUnreviewed

LEMMA VoiceSays ==
  ASSUME ReviewsTyped, NEW p \in Voice, NEW l, Says(p, l)
  PROVE  saying'[p] = l /\ \A q \in Voice : q # p => saying'[q] = saying[q]
BY DEF ReviewsTyped, Says

LEMMA SaysTyped ==
  ASSUME ReviewsTyped, NEW p \in Voice, NEW l, Says(p, l), SaysSo(l),
         ReviewsTypeOK', served'.now \subseteq served'.ever, served'.ever = served.ever
  PROVE  ReviewsTyped'
<1>1. DOMAIN saying' = Voice /\ saying' = [q \in Voice |-> saying'[q]]
  BY DEF ReviewsTyped, Says
<1>2. ASSUME NEW q \in Voice PROVE SaysSo(saying[q])'
  BY VoiceSays DEF ReviewsTyped, SaysSo
<1>. QED BY <1>1, <1>2 DEF ReviewsTyped

\* A request that neither writes nor has found out anything changes nothing.
LEMMA OnlyTalk ==
  ASSUME ReviewsInv, NEW p \in Voice, NEW l, Says(p, l), SaysSo(l),
         UNCHANGED <<outing, served, charged, review, stale, crossed>>,
         l.pc = "mark" => charged \/ stale,
         l.pc = "save" => NoReviews \/ crossed
  PROVE  ReviewsInv'
<1>1. ReviewsTypeOK'
  BY DEF ReviewsInv, ReviewsTyped, ReviewsTypeOK, Written
<1>2. ReviewsTyped'
  BY <1>1, SaysTyped DEF ReviewsInv, ReviewsTyped
<1>3. RowsDiffer' /\ PaidHasItsCharge'
  BY DEF ReviewsInv, RowsDiffer, PaidHasItsCharge, Written
<1>4. SkippedHasNoReview' /\ (NoReviews' <=> NoReviews)
  BY DEF ReviewsInv, SkippedHasNoReview, NoReviews, Rated, About, Written
<1>5. MarksCharged'
  BY VoiceSays DEF ReviewsInv, MarksCharged
<1>6. SkipsUnreviewed'
  BY <1>4, VoiceSays DEF ReviewsInv, SkipsUnreviewed
<1>. QED BY <1>2, <1>3, <1>4, <1>5, <1>6 DEF ReviewsInv

LEMMA SilentSays == SaysSo(Silent) /\ Silent.pc = "silent"
BY DEF Silent, SaysSo

LEMMA RequestsBegin ==
  ASSUME ReviewsInv, NEW p \in Voice,
         \/ \E t \in Subject, n \in Stars : Review(p, t, n)
         \/ BeginSkip(p) \/ LookWhetherPaid(p) \/ AskReviews(p) \/ Hush(p)
  PROVE  ReviewsInv'
<1>1. ASSUME NEW t \in Subject, NEW n \in Stars, Review(p, t, n) PROVE ReviewsInv'
  <2>1. PICK l : l = [pc |-> "insert", of |-> t, stars |-> n]
    OBVIOUS
  <2>2. SaysSo(l) /\ l.pc = "insert"
    BY <1>1, <2>1 DEF Review, Subject, SaysSo
  <2>. QED BY <1>1, <2>1, <2>2, OnlyTalk DEF Review, Speak
<1>2. CASE BeginSkip(p)
  <2>1. PICK l : l = [pc |-> "ask", copy |-> outing]
    OBVIOUS
  <2>2. SaysSo(l) /\ l.pc = "ask"
    BY <2>1 DEF SaysSo, ReviewsInv, ReviewsTyped, ReviewsTypeOK, Outing
  <2>. QED BY <1>2, <2>1, <2>2, OnlyTalk DEF BeginSkip, Speak
<1>3. CASE LookWhetherPaid(p)
  <2>1. PICK l : l = [pc |-> "mark"]
    OBVIOUS
  <2>2. SaysSo(l) /\ l.pc = "mark"
    BY <2>1 DEF SaysSo
  <2>3. CASE WasPaid /\ Says(p, l)
    <3>1. charged \/ stale
      BY <2>3 DEF ReviewsInv, PaidHasItsCharge, WasPaid
    <3>. QED BY <1>3, <2>2, <2>3, <3>1, OnlyTalk DEF LookWhetherPaid
  <2>4. CASE Says(p, Silent)
    BY <1>3, <2>4, SilentSays, OnlyTalk DEF LookWhetherPaid
  <2>. QED BY <1>3, <2>1, <2>3, <2>4 DEF LookWhetherPaid
<1>4. CASE AskReviews(p)
  <2>1. PICK l : l = [saying[p] EXCEPT !.pc = "save"]
    OBVIOUS
  <2>2. ASSUME NoReviews, Says(p, l) PROVE ReviewsInv'
    <3>1. l.copy = saying[p].copy /\ l.pc \in {"save", saying[p].pc}
      BY <2>1
    <3>2. SaysSo(l)
      BY <1>4, <3>1 DEF SaysSo, AskReviews, ReviewsInv, ReviewsTyped
    <3>3. l.pc # "mark"
      BY <1>4, <3>1 DEF AskReviews
    <3>. QED BY <1>4, <2>2, <3>2, <3>3, OnlyTalk DEF AskReviews
  <2>3. CASE Says(p, Silent)
    BY <1>4, <2>3, SilentSays, OnlyTalk DEF AskReviews
  <2>. QED BY <1>4, <2>1, <2>2, <2>3 DEF AskReviews
<1>5. CASE Hush(p)
  BY <1>5, SilentSays, OnlyTalk DEF Hush
<1>. QED BY <1>1, <1>2, <1>3, <1>4, <1>5

LEMMA ReviewComes ==
  ASSUME ReviewsInv, NEW p \in Voice, InsertReview(p)
  PROVE  ReviewsInv'
<1>1. CASE Says(p, Silent) /\ UNCHANGED <<review, crossed>>
  BY <1>1, SilentSays, OnlyTalk DEF InsertReview
<1>2. CASE ~Says(p, Silent) \/ ~UNCHANGED <<review, crossed>>
  <2>1. PICK subject, stars :
          /\ subject = saying[p].of /\ stars = saying[p].stars
          /\ subject \in served.ever \cup {"salon"} /\ stars \in Stars /\ subject \in Subject
          /\ ~Rated(subject)
    BY <1>2 DEF InsertReview, ReviewsInv, ReviewsTyped, ReviewsTypeOK, SaysSo, UniqueReview,
       Subject
  <2>2. PICK r \in ReviewId \ Written :
          review' = [review EXCEPT ![r] = [of |-> subject, stars |-> stars]]
    BY <1>2, <2>1 DEF InsertReview
  <2>3. PICK l : l = [pc |-> "look"]
    OBVIOUS
  <2>4. /\ Says(p, l) /\ UNCHANGED <<outing, served, charged, stale>>
        /\ crossed' = (crossed \/ outing.skipped \/ \E q \in Voice : saying[q].pc = "save")
    BY <1>2, <2>3 DEF InsertReview
  <2>5. SaysSo(l) /\ l.pc = "look"
    BY <2>3 DEF SaysSo
  <2>6. /\ review' \in [ReviewId -> {Gone} \cup ReviewRow]
        /\ review'[r].of = subject
        /\ \A q \in ReviewId : q # r => review'[q] = review[q]
    BY <2>1, <2>2 DEF ReviewsInv, ReviewsTyped, ReviewsTypeOK, ReviewRow
  <2>7. \A q \in Written' : q = r \/ (q \in Written /\ review'[q] = review[q])
    BY <2>6 DEF Written
  <2>8. ReviewsTyped'
    <3>1. \A q \in Written' : review'[q].of \in served.ever \cup {"salon"}
      BY <2>1, <2>6, <2>7 DEF ReviewsInv, ReviewsTyped, ReviewsTypeOK
    <3>2. crossed' \in BOOLEAN
      BY <2>4
    <3>3. ReviewsTypeOK'
      BY <2>4, <2>6, <3>1, <3>2 DEF ReviewsInv, ReviewsTyped, ReviewsTypeOK, ReviewRow
    <3>. QED BY <2>4, <2>5, <3>3, SaysTyped DEF ReviewsInv, ReviewsTyped
  <2>9. RowsDiffer'
    <3>1. \A q \in Written : review[q].of # subject
      BY <2>1 DEF Rated, About
    <3>. QED BY <2>6, <2>7, <3>1 DEF ReviewsInv, RowsDiffer
  <2>10. PaidHasItsCharge' /\ MarksCharged'
    BY <2>4, <2>5, VoiceSays DEF ReviewsInv, PaidHasItsCharge, MarksCharged
  <2>11. SkippedHasNoReview'
    BY <2>4 DEF ReviewsInv, SkippedHasNoReview
  <2>12. SkipsUnreviewed'
    BY <2>4, <2>5, VoiceSays DEF ReviewsInv, SkipsUnreviewed
  <2>. QED BY <2>8, <2>9, <2>10, <2>11, <2>12 DEF ReviewsInv
<1>. QED BY <1>1, <1>2


LEMMA ReviewEdited ==
  ASSUME ReviewsInv, NEW r \in ReviewId, NEW n \in Stars, UpdateReview(r, n)
  PROVE  ReviewsInv'
<1>1. /\ r \in Written /\ review' = [review EXCEPT ![r].stars = n]
      /\ UNCHANGED <<outing, served, charged, saying, stale, crossed>>
  BY DEF UpdateReview
<1>2. /\ review' \in [ReviewId -> {Gone} \cup ReviewRow]
      /\ review'[r].of = review[r].of
      /\ \A q \in ReviewId : q # r => review'[q] = review[q]
  BY <1>1 DEF ReviewsInv, ReviewsTyped, ReviewsTypeOK, ReviewRow, Written
<1>3. /\ Written' \subseteq Written
      /\ \A q \in Written' : review'[q].of = review[q].of
  BY <1>1, <1>2 DEF Written
<1>4. \A t : Rated(t)' => Rated(t)
  BY <1>3 DEF Rated, About
<1>5. ReviewsTyped'
  <2>1. ReviewsTypeOK'
    BY <1>1, <1>2, <1>3 DEF ReviewsInv, ReviewsTyped, ReviewsTypeOK, ReviewRow
  <2>. QED BY <1>1, <2>1 DEF ReviewsInv, ReviewsTyped, SaysSo
<1>6. RowsDiffer' /\ PaidHasItsCharge' /\ MarksCharged'
  BY <1>1, <1>3 DEF ReviewsInv, RowsDiffer, PaidHasItsCharge, MarksCharged
<1>7. SkippedHasNoReview' /\ SkipsUnreviewed'
  BY <1>1, <1>4 DEF ReviewsInv, SkippedHasNoReview, SkipsUnreviewed, NoReviews
<1>. QED BY <1>5, <1>6, <1>7 DEF ReviewsInv

LEMMA ReviewGoes ==
  ASSUME ReviewsInv, NEW r \in ReviewId, RemoveReview(r)
  PROVE  ReviewsInv'
<1>1. /\ review' = [review EXCEPT ![r] = Gone]
      /\ UNCHANGED <<outing, served, charged, saying, stale, crossed>>
  BY DEF RemoveReview
<1>2. /\ review' \in [ReviewId -> {Gone} \cup ReviewRow]
      /\ Written' \subseteq Written
      /\ \A q \in Written' : review'[q] = review[q]
  BY <1>1 DEF ReviewsInv, ReviewsTyped, ReviewsTypeOK, ReviewRow, Written
<1>3. \A t : Rated(t)' => Rated(t)
  BY <1>2 DEF Rated, About
<1>4. ReviewsTyped'
  <2>1. ReviewsTypeOK'
    BY <1>1, <1>2 DEF ReviewsInv, ReviewsTyped, ReviewsTypeOK, ReviewRow
  <2>. QED BY <1>1, <2>1 DEF ReviewsInv, ReviewsTyped, SaysSo
<1>5. RowsDiffer' /\ PaidHasItsCharge' /\ MarksCharged'
  BY <1>1, <1>2 DEF ReviewsInv, RowsDiffer, PaidHasItsCharge, MarksCharged
<1>6. SkippedHasNoReview' /\ SkipsUnreviewed'
  BY <1>1, <1>3 DEF ReviewsInv, SkippedHasNoReview, SkipsUnreviewed, NoReviews
<1>. QED BY <1>4, <1>5, <1>6 DEF ReviewsInv

\* Whatever writes the appointment and not its reviews.
LEMMA OutingWritten ==
  ASSUME ReviewsInv, UNCHANGED <<review, crossed>>,
         outing' \in Outing, charged' \in BOOLEAN, stale' \in BOOLEAN,
         served'.ever = served.ever, served'.now \subseteq served.now,
         served' \in [ever : SUBSET Attendant, now : SUBSET Attendant],
         \/ saying' = saying
         \/ \E p \in Voice : Says(p, Silent),
         outing'.skipped /\ ~crossed => outing.skipped \/ NoReviews,
         PaidHasItsCharge',
         \A p \in Voice : saying'[p].pc = "mark" => charged' \/ stale'
  PROVE  ReviewsInv'
<1>1. ReviewsTypeOK'
  BY DEF ReviewsInv, ReviewsTyped, ReviewsTypeOK, Written, Outing
<1>2. ReviewsTyped'
  <2>1. CASE saying' = saying
    BY <1>1, <2>1 DEF ReviewsInv, ReviewsTyped, SaysSo
  <2>2. CASE \E p \in Voice : Says(p, Silent)
    BY <1>1, <2>2, SaysTyped, SilentSays DEF ReviewsInv, ReviewsTyped
  <2>. QED BY <2>1, <2>2
<1>3. RowsDiffer' /\ MarksCharged'
  BY DEF ReviewsInv, RowsDiffer, Written, MarksCharged
<1>4. \A t : Rated(t)' <=> Rated(t)
  BY DEF Rated, About, Written
<1>5. NoReviews => NoReviews'
  BY <1>4 DEF NoReviews
<1>6. SkippedHasNoReview'
  BY <1>4 DEF ReviewsInv, SkippedHasNoReview, NoReviews
<1>7. SkipsUnreviewed'
  <2>1. ASSUME NEW q \in Voice PROVE saying'[q] = saying[q] \/ saying'[q].pc = "silent"
    BY VoiceSays, SilentSays DEF ReviewsInv
  <2>2. ASSUME NEW q \in Voice, saying'[q].pc = "save" PROVE saying[q].pc = "save"
    BY <2>1, <2>2
  <2>. QED BY <1>5, <2>2 DEF ReviewsInv, SkipsUnreviewed
<1>. QED BY <1>2, <1>3, <1>6, <1>7 DEF ReviewsInv

LEMMA MarkedAsRated ==
  ASSUME ReviewsInv, NEW p \in Voice, MarkSessionAsRated(p)
  PROVE  ReviewsInv'
<1>1. /\ outing' = [outing EXCEPT !.status = "rated"] /\ Says(p, Silent)
      /\ saying[p].pc = "mark"
      /\ UNCHANGED <<served, charged, review, stale, crossed>>
  BY DEF MarkSessionAsRated
<1>2. outing' \in Outing /\ outing'.skipped = outing.skipped
  BY <1>1 DEF ReviewsInv, ReviewsTyped, ReviewsTypeOK, Outing
<1>3. charged \/ stale
  BY <1>1 DEF ReviewsInv, MarksCharged
<1>4. PaidHasItsCharge' /\ \A q \in Voice : charged' \/ stale'
  BY <1>1, <1>3 DEF PaidHasItsCharge
<1>5. /\ charged' \in BOOLEAN /\ stale' \in BOOLEAN
      /\ served'.ever = served.ever /\ served'.now \subseteq served.now
      /\ served' \in [ever : SUBSET Attendant, now : SUBSET Attendant]
  BY <1>1 DEF ReviewsInv, ReviewsTyped, ReviewsTypeOK
<1>. QED BY <1>1, <1>2, <1>4, <1>5, OutingWritten

LEMMA SkipSaved ==
  ASSUME ReviewsInv, NEW p \in Voice, SaveSkip(p)
  PROVE  ReviewsInv'
<1>1. PICK copy : copy = saying[p].copy
  OBVIOUS
<1>2. /\ outing' = [copy EXCEPT !.skipped = TRUE] /\ Says(p, Silent)
      /\ stale' = (stale \/ copy.status # outing.status)
      /\ saying[p].pc = "save"
      /\ UNCHANGED <<served, charged, review, crossed>>
  BY <1>1 DEF SaveSkip
<1>3. copy \in Outing /\ outing' \in Outing /\ outing'.status = copy.status
  BY <1>1, <1>2 DEF ReviewsInv, ReviewsTyped, SaysSo, Outing
<1>4. PaidHasItsCharge'
  BY <1>2, <1>3 DEF ReviewsInv, PaidHasItsCharge
<1>5. \A q \in Voice : saying'[q].pc = "mark" => charged' \/ stale'
  BY <1>2, VoiceSays, SilentSays DEF ReviewsInv, MarksCharged
<1>6. outing'.skipped /\ ~crossed => outing.skipped \/ NoReviews
  BY <1>2 DEF ReviewsInv, SkipsUnreviewed
<1>7. /\ charged' \in BOOLEAN /\ stale' \in BOOLEAN
      /\ served'.ever = served.ever /\ served'.now \subseteq served.now
      /\ served' \in [ever : SUBSET Attendant, now : SUBSET Attendant]
  BY <1>2 DEF ReviewsInv, ReviewsTyped, ReviewsTypeOK
<1>. QED BY <1>2, <1>3, <1>4, <1>5, <1>6, <1>7, OutingWritten

LEMMA MeanwhileAgrees ==
  ASSUME ReviewsInv, Charge \/ RevertCharge \/ \E w \in Attendant : CancelService(w)
  PROVE  ReviewsInv'
<1>1. /\ outing \in Outing /\ charged \in BOOLEAN /\ stale \in BOOLEAN
      /\ served \in [ever : SUBSET Attendant, now : SUBSET Attendant]
  BY DEF ReviewsInv, ReviewsTyped, ReviewsTypeOK, Outing
<1>2. saying' = saying /\ UNCHANGED <<review, crossed>>
  BY DEF Charge, RevertCharge, CancelService
<1>3. /\ outing' \in Outing /\ outing'.skipped = outing.skipped
      /\ served'.ever = served.ever /\ served'.now \subseteq served.now
      /\ served' \in [ever : SUBSET Attendant, now : SUBSET Attendant]
  BY <1>1 DEF Charge, RevertCharge, CancelService, Outing
<1>4. charged' \in BOOLEAN /\ stale' \in BOOLEAN
  BY <1>1 DEF Charge, RevertCharge, CancelService
<1>5. PaidHasItsCharge'
  BY <1>1 DEF Charge, RevertCharge, CancelService, Outing, ReviewsInv, PaidHasItsCharge
<1>6. \A p \in Voice : saying[p].pc = "mark" => charged' \/ stale'
  <2>1. CASE Charge
    BY <2>1 DEF Charge
  <2>2. CASE RevertCharge
    BY <2>2 DEF RevertCharge
  <2>3. CASE \E w \in Attendant : CancelService(w)
    BY <2>3 DEF CancelService, ReviewsInv, MarksCharged
  <2>. QED BY <2>1, <2>2, <2>3
<1>. QED BY <1>2, <1>3, <1>4, <1>5, <1>6, OutingWritten

\* What the clients say of an appointment agrees with it after every step:
\* however reviews, skips and charges interleave, one review of each subject,
\* a charge where it reads paid or rated, and no review where it was skipped,
\* but for what the two recorded races leave (feedbacks.service.ts).
THEOREM EveryReviewAgrees == ReviewsSpec => []ReviewsAgree
<1>1. ReviewsInit => ReviewsInv
  <2>. SUFFICES ASSUME ReviewsInit PROVE ReviewsInv
    OBVIOUS
  <2>1. Written = {} /\ \A p \in Voice : saying[p] = Silent
    BY DEF ReviewsInit, Written
  <2>2. ReviewsTyped
    <3>1. PICK ws \in SUBSET Attendant : served = [ever |-> ws, now |-> ws]
      BY DEF ReviewsInit
    <3>2. /\ served \in [ever : SUBSET Attendant, now : SUBSET Attendant]
          /\ served.now \subseteq served.ever
      BY <3>1
    <3>3. ReviewsTypeOK
      BY <2>1, <3>2 DEF ReviewsInit, ReviewsTypeOK
    <3>4. saying = [p \in Voice |-> saying[p]] /\ DOMAIN saying = Voice
      BY DEF ReviewsInit
    <3>. QED BY <2>1, <3>2, <3>3, <3>4, SilentSays DEF ReviewsTyped
  <2>3. RowsDiffer /\ PaidHasItsCharge /\ SkippedHasNoReview
    BY <2>1 DEF ReviewsInit, RowsDiffer, PaidHasItsCharge, SkippedHasNoReview
  <2>4. MarksCharged /\ SkipsUnreviewed
    BY <2>1, SilentSays DEF MarksCharged, SkipsUnreviewed
  <2>. QED BY <2>2, <2>3, <2>4 DEF ReviewsInv
<1>2. ReviewsInv /\ [ReviewsNext]_reviewVars => ReviewsInv'
  <2>. SUFFICES ASSUME ReviewsInv, [ReviewsNext]_reviewVars PROVE ReviewsInv'
    OBVIOUS
  <2>1. CASE ReviewsNext
    BY <2>1, RequestsBegin, ReviewComes, ReviewEdited, ReviewGoes, MarkedAsRated, SkipSaved,
       MeanwhileAgrees DEF ReviewsNext
  <2>2. CASE UNCHANGED reviewVars
    BY <2>2 DEF reviewVars, ReviewsInv, ReviewsTyped, ReviewsTypeOK, SaysSo, RowsDiffer,
       PaidHasItsCharge, MarksCharged, SkippedHasNoReview, SkipsUnreviewed, NoReviews, Rated,
       About, Written
  <2>. QED BY <2>1, <2>2
<1>3. ReviewsInv => ReviewsAgree
  <2>. SUFFICES ASSUME ReviewsInv PROVE ReviewsAgree
    OBVIOUS
  <2>1. ASSUME NEW t \in Subject PROVE Cardinality(About(t)) <= 1
    <3>1. CASE About(t) = {}
      BY <3>1, FS_EmptySet
    <3>2. ASSUME NEW r \in About(t) PROVE Cardinality(About(t)) <= 1
      <4>1. About(t) = {r}
        BY <3>2 DEF ReviewsInv, RowsDiffer, About
      <4>. QED BY <4>1, FS_Singleton
    <3>. QED BY <3>1, <3>2
  <2>. QED BY <2>1 DEF ReviewsInv, ReviewsTyped, ReviewsAgree, OneReviewEach
<1>. QED BY <1>1, <1>2, <1>3, PTL DEF ReviewsSpec

-----------------------------------------------------------------------------
(* Staff *)

StaffRow == [cedula : Cedulas, user : StaffAccount \cup {NoLogin}]
AboutAWorker == {"assign", "grant", "saveProfile", "setCedula", "saveJob"}

\* What a request holds, for as long as it holds it.
Ordered(o) ==
  /\ "overtaken" \in DOMAIN o /\ o.overtaken \in BOOLEAN
  /\ o.op \in AboutAWorker => o.worker \in Hired
  /\ o.op = "profile" => o.cedula \in Cedulas
  /\ o.op \in {"profile", "assign"} => o.salon \in Branch /\ o.user \in StaffAccount \cup {NoLogin}
  /\ o.op = "setCedula" => o.cedula \in Cedulas
  /\ o.op = "saveProfile" =>
       o.row \in StaffRow /\ o.row.user # NoLogin /\ login[o.row.user] = o.worker
  /\ o.op = "saveJob" => o.salon \in Branch /\ o.job \in JobRow \cup {Nothing}

StaffTyped ==
  /\ StaffTypeOK
  /\ order = [p \in Office |-> order[p]]
  /\ \A p \in Office : order[p] = Off \/ Ordered(order[p])
  /\ \A w \in Staff : duty[w] # Nothing => w \in Hired

\* Nobody but w who works has the cedula.
NobodyElse(w, i) == i = NoCedula \/ \A v \in Hired \ {w} : staff[v].cedula = i => ~Works(v)
MayHave(w, i) == ~Works(w) \/ NobodyElse(w, i)

\* What a request found is so until another one writes.
ReadsTruly(o) ==
  /\ o.op = "profile" => NobodyElse(0, o.cedula)
  /\ o.op = "assign" =>
       staff[o.worker].user = o.user /\ NobodyElse(o.worker, staff[o.worker].cedula)
  /\ o.op = "saveProfile" => o.row.user = staff[o.worker].user
  /\ o.op = "saveProfile" /\ o.row.cedula # staff[o.worker].cedula => MayHave(o.worker, o.row.cedula)
  /\ o.op = "setCedula" /\ o.cedula # staff[o.worker].cedula => MayHave(o.worker, o.cedula)
  /\ o.op = "saveJob" =>
       /\ o.job # Nothing /\ o.worker \notin mixed => o.job.user = staff[o.worker].user
       /\ ~Present(o.job) => ~Blocked(o.worker, o.salon)
       /\ Present(o.job) => Works(o.worker) \/ NobodyElse(o.worker, staff[o.worker].cedula)

OrdersAreTrue == \A p \in Office : order[p] # Off /\ ~order[p].overtaken => ReadsTruly(order[p])

StaffSound == CedulasStayApart /\ OneAccountInAllSalons /\ RemovedHasNoDuty
StaffInv == StaffTyped /\ OrdersAreTrue /\ StaffSound

\* Rows of workers and accounts once there stay there.
HiredStay ==
  /\ Hired \subseteq Hired'
  /\ \A a \in StaffAccount : login[a] # 0 => login'[a] = login[a]

LEMMA RowsAreThere ==
  /\ \A row \in StaffRow \cup JobRow : row # Nothing
  /\ \A o : Ordered(o) => o # Off
  /\ Off.op = "off"
BY DEF StaffRow, JobRow, Nothing, Off, Ordered

LEMMA OvertakenOrder ==
  ASSUME StaffTyped, NEW o, Ordered(o), HiredStay, NEW x, x = [o EXCEPT !.overtaken = TRUE]
  PROVE  Ordered(x)' /\ x.overtaken
<1>1. /\ DOMAIN x = DOMAIN o /\ x.overtaken /\ x.op = o.op
      /\ x.worker = o.worker /\ x.cedula = o.cedula /\ x.salon = o.salon
      /\ x.user = o.user /\ x.row = o.row /\ x.job = o.job
  BY DEF Ordered
<1>2. o.op = "saveProfile" => login'[x.row.user] = x.worker
  <2>1. ASSUME o.op = "saveProfile"
        PROVE  o.row.user \in StaffAccount /\ o.worker \in Staff /\ login[o.row.user] = o.worker
    BY <2>1 DEF Ordered, StaffRow, AboutAWorker, Hired
  <2>. QED BY <1>1, <2>1 DEF HiredStay, Staff
<1>. QED BY <1>1, <1>2 DEF Ordered, HiredStay

Overtook(q) == order'[q] = IF order[q] = Off THEN Off ELSE [order[q] EXCEPT !.overtaken = TRUE]

\* A write makes the orders of the others be overtaken.
LEMMA WriteOvertakes ==
  ASSUME StaffTyped, StaffTypeOK', HiredStay, order' = [q \in Office |-> order'[q]],
         \A w \in Staff : duty'[w] # Nothing => w \in Hired',
         \A q \in Office :
           \/ Overtook(q) \/ order'[q] = Off
           \/ Ordered(order[q])' /\ (order'[q].overtaken \/ ReadsTruly(order[q])')
  PROVE  StaffTyped' /\ OrdersAreTrue'
<1>1. ASSUME NEW q \in Office, Overtook(q)
      PROVE  order'[q] = Off \/ (Ordered(order[q])' /\ order'[q].overtaken)
  <2>1. CASE order[q] = Off
    BY <1>1, <2>1 DEF Overtook
  <2>2. CASE order[q] # Off
    <3>1. PICK x : x = order'[q]
      OBVIOUS
    <3>2. Ordered(x)' /\ x.overtaken
      BY <1>1, <2>2, <3>1, OvertakenOrder DEF Overtook, StaffTyped
    <3>. QED BY <3>1, <3>2
  <2>. QED BY <2>1, <2>2
<1>2. \A q \in Office : order'[q] = Off \/ Ordered(order[q])'
  BY <1>1
<1>3. \A q \in Office : order'[q] # Off /\ ~order'[q].overtaken => ReadsTruly(order[q])'
  BY <1>1
<1>4. StaffTyped'
  BY <1>2 DEF StaffTyped
<1>5. OrdersAreTrue'
  BY <1>3 DEF OrdersAreTrue
<1>. QED BY <1>4, <1>5

LEMMA WriterEnds ==
  ASSUME StaffTyped, StaffTypeOK', HiredStay, NEW p \in Office, NEW x,
         order' = [Passed(p) EXCEPT ![p] = x],
         x = Off \/ (Ordered(x)' /\ (x.overtaken \/ ReadsTruly(x)')),
         \A w \in Staff : duty'[w] # Nothing => w \in Hired'
  PROVE  StaffTyped' /\ OrdersAreTrue'
<1>1. order' = [q \in Office |-> order'[q]] /\ order'[p] = x
  BY DEF Passed
<1>2. \A q \in Office : q # p => Overtook(q)
  BY DEF Passed, Overtook
<1>3. order'[p] = Off \/ (Ordered(order[p])' /\ (order'[p].overtaken \/ ReadsTruly(order[p])'))
  <2>1. CASE x = Off
    BY <1>1, <2>1
  <2>2. CASE Ordered(x)' /\ (x.overtaken \/ ReadsTruly(x)')
    <3>1. Ordered(order[p])'
      BY <1>1, <2>2 DEF Ordered
    <3>2. ReadsTruly(x)' => ReadsTruly(order[p])'
      BY <1>1 DEF ReadsTruly
    <3>. QED BY <1>1, <2>2, <3>1, <3>2
  <2>. QED BY <2>1, <2>2
<1>. QED BY <1>1, <1>2, <1>3, WriteOvertakes

LEMMA WorkerRow ==
  ASSUME StaffTyped, NEW w \in Hired
  PROVE  /\ w \in Staff /\ staff[w] \in StaffRow /\ staff[w].user \in StaffAccount \cup {NoLogin}
         /\ staff[w].cedula \in Cedulas
         /\ staff[w].user # NoLogin => login[staff[w].user] = w
BY DEF StaffTyped, StaffTypeOK, StaffRow, Hired

\* An order that is given reads the rows and writes none of them.
LEMMA OrderIsGiven ==
  ASSUME StaffInv, NEW p \in Office, NEW o,
         order' = [order EXCEPT ![p] = o],
         o = Off \/ (Ordered(o) /\ ReadsTruly(o)),
         UNCHANGED <<staff, job, login, duty, mixed, linked, revived>>
  PROVE  StaffInv'
<1>1. order' = [q \in Office |-> order'[q]] /\ order'[p] = o
      /\ \A q \in Office : q # p => order'[q] = order[q]
  BY DEF StaffInv, StaffTyped
<1>2. StaffTypeOK' /\ StaffSound'
  BY DEF StaffInv, StaffTyped, StaffTypeOK, StaffSound, CedulasStayApart,
     OneAccountInAllSalons, RemovedHasNoDuty, Hired, JobsOf, Works
<1>3. \A x : (Ordered(x) <=> Ordered(x)') /\ (ReadsTruly(x) <=> ReadsTruly(x)')
  <2>1. Hired' = Hired /\ \A w : Works(w)' <=> Works(w)
    BY DEF Hired, Works
  <2>2. \A w, i : (NobodyElse(w, i)' <=> NobodyElse(w, i)) /\ (MayHave(w, i)' <=> MayHave(w, i))
    BY <2>1 DEF NobodyElse, MayHave
  <2>3. \A w, s : Blocked(w, s)' <=> Blocked(w, s)
    BY DEF Blocked
  <2>4. ASSUME NEW x PROVE Ordered(x)' <=> Ordered(x)
    BY <2>1 DEF Ordered
  <2>5. ASSUME NEW x PROVE ReadsTruly(x)' <=> ReadsTruly(x)
    BY <2>1, <2>2, <2>3 DEF ReadsTruly
  <2>. QED BY <2>4, <2>5
<1>4. ASSUME NEW q \in Office
      PROVE  /\ order'[q] = Off \/ Ordered(order[q])'
             /\ order'[q] # Off /\ ~order'[q].overtaken => ReadsTruly(order[q])'
  <2>1. PICK x : x = order'[q]
    OBVIOUS
  <2>2. /\ x = Off \/ Ordered(x)
        /\ x # Off /\ ~x.overtaken => ReadsTruly(x)
    BY <1>1, <2>1 DEF StaffInv, StaffTyped, OrdersAreTrue
  <2>3. /\ x = Off \/ Ordered(x)'
        /\ x # Off /\ ~x.overtaken => ReadsTruly(x)'
    BY <1>3, <2>2
  <2>4. (Ordered(x)' => Ordered(order[q])') /\ (ReadsTruly(x)' => ReadsTruly(order[q])')
    BY <2>1 DEF Ordered, ReadsTruly
  <2>. QED BY <2>1, <2>3, <2>4
<1>5. StaffTyped' /\ OrdersAreTrue'
  <2>1. \A w \in Staff : duty'[w] # Nothing => w \in Hired'
    BY DEF StaffInv, StaffTyped, Hired
  <2>2. StaffTyped'
    BY <1>1, <1>2, <1>4, <2>1 DEF StaffTyped
  <2>3. OrdersAreTrue'
    BY <1>4 DEF OrdersAreTrue
  <2>. QED BY <2>2, <2>3
<1>. QED BY <1>2, <1>5 DEF StaffInv

LEMMA FreeIsNobodys ==
  ASSUME NEW i, NEW salons, NEW w, CedulaFree(i, salons, w), salons # {}
  PROVE  NobodyElse(w, i)
BY DEF CedulaFree, NobodyElse

LEMMA RowResolved ==
  ASSUME StaffInv, NEW w \in Hired, NEW i, ResolveWorkerIdentification(w, i),
         i # staff[w].cedula
  PROVE  MayHave(w, i)
<1>1. CASE JobsOf(w) = {}
  BY <1>1 DEF MayHave, Works, JobsOf, Present
<1>2. CASE JobsOf(w) # {}
  BY <1>2, FreeIsNobodys DEF ResolveWorkerIdentification, MayHave
<1>. QED BY <1>1, <1>2

LEMMA PlaceRow ==
  ASSUME StaffInv, NEW w \in Hired, NEW s \in Branch, job[w][s] # Nothing
  PROVE  /\ job[w][s] \in JobRow
         /\ w \notin mixed => job[w][s].user = staff[w].user
         /\ Present(job[w][s]) => Works(w)
BY WorkerRow DEF StaffInv, StaffTyped, StaffTypeOK, StaffSound, OneAccountInAllSalons, JobsOf,
   Works

LEMMA ProfileAsked ==
  ASSUME StaffInv, NEW p \in Office,
         \/ \E s \in Branch, i \in Cedulas, a \in StaffAccount \cup {NoLogin} :
              RegisterWorker(p, s, i, a)
         \/ \E w \in Staff, i \in Cedulas : UpdateWorkerProfile(p, w, i)
         \/ \E w \in Staff, s \in Branch, i \in Cedulas : UpdateWorkerByAdmin(p, w, s, i)
         \/ \E w \in Staff, s \in Branch : AssignWorkerEmail(p, w, s)
         \/ Abandon(p)
  PROVE  StaffInv'
<1>1. ASSUME NEW s \in Branch, NEW i \in Cedulas, NEW a \in StaffAccount \cup {NoLogin},
             RegisterWorker(p, s, i, a)
      PROVE  StaffInv'
  <2>1. PICK o : o = [op |-> "profile", overtaken |-> FALSE, cedula |-> i, salon |-> s, user |-> a]
    OBVIOUS
  <2>2. Ordered(o)
    BY <2>1 DEF Ordered, AboutAWorker
  <2>3. NobodyElse(0, i)
    BY <1>1, FreeIsNobodys DEF RegisterWorker
  <2>4. ReadsTruly(o)
    BY <2>1, <2>3 DEF ReadsTruly
  <2>. QED BY <1>1, <2>1, <2>2, <2>4, OrderIsGiven DEF RegisterWorker, Start
<1>2. ASSUME NEW w \in Staff, NEW i \in Cedulas, UpdateWorkerProfile(p, w, i)
      PROVE  StaffInv'
  <2>1. PICK row : row = [staff[w] EXCEPT !.cedula = i]
    OBVIOUS
  <2>2. w \in Hired /\ row \in StaffRow /\ row.user = staff[w].user /\ row.cedula = i
    BY <1>2, <2>1, WorkerRow DEF UpdateWorkerProfile, StaffRow, StaffInv
  <2>3. PICK o : o = [op |-> "saveProfile", overtaken |-> FALSE, worker |-> w, row |-> row]
    OBVIOUS
  <2>4. row.user # NoLogin /\ login[row.user] = w
    BY <1>2, <2>2, WorkerRow DEF UpdateWorkerProfile, StaffInv
  <2>5. Ordered(o)
    BY <2>2, <2>3, <2>4 DEF Ordered
  <2>6. row.cedula # staff[w].cedula => MayHave(w, row.cedula)
    BY <1>2, <2>2, RowResolved DEF UpdateWorkerProfile
  <2>7. ReadsTruly(o)
    BY <2>2, <2>3, <2>6 DEF ReadsTruly
  <2>. QED BY <1>2, <2>1, <2>3, <2>5, <2>7, OrderIsGiven DEF UpdateWorkerProfile, Start
<1>3. ASSUME NEW w \in Staff, NEW s \in Branch, NEW i \in Cedulas, UpdateWorkerByAdmin(p, w, s, i)
      PROVE  StaffInv'
  <2>1. PICK o : o = [op |-> "setCedula", overtaken |-> FALSE, worker |-> w, cedula |-> i]
    OBVIOUS
  <2>2. Ordered(o)
    BY <1>3, <2>1 DEF Ordered, UpdateWorkerByAdmin
  <2>3. i # staff[w].cedula => MayHave(w, i)
    BY <1>3, RowResolved DEF UpdateWorkerByAdmin
  <2>4. ReadsTruly(o)
    BY <2>1, <2>3 DEF ReadsTruly
  <2>. QED BY <1>3, <2>1, <2>2, <2>4, OrderIsGiven DEF UpdateWorkerByAdmin, Start
<1>4. ASSUME NEW w \in Staff, NEW s \in Branch, AssignWorkerEmail(p, w, s)
      PROVE  StaffInv'
  <2>1. PICK o : o = [op |-> "grant", overtaken |-> FALSE, worker |-> w]
    OBVIOUS
  <2>2. Ordered(o) /\ ReadsTruly(o)
    BY <1>4, <2>1 DEF Ordered, ReadsTruly, AssignWorkerEmail
  <2>. QED BY <1>4, <2>1, <2>2, OrderIsGiven DEF AssignWorkerEmail, Start
<1>5. CASE Abandon(p)
  BY <1>5, OrderIsGiven DEF Abandon
<1>. QED BY <1>1, <1>2, <1>3, <1>4, <1>5

LEMMA PlaceAsked ==
  ASSUME StaffInv, NEW p \in Office, NEW w \in Staff, NEW s \in Branch,
         \/ TemporarilyRemove(p, w, s) \/ PermanentlyRemove(p, w, s)
         \/ RemoveWorkerFromCompany(p, w, s) \/ Restore(p, w, s)
         \/ \E state \in {"active", "inactive"} : UpdateWorkerInCompany(p, w, s, state)
  PROVE  StaffInv'
<1>1. w \in Hired /\ job[w][s] # Nothing /\ (Present(job[w][s]) => Works(w))
      /\ job[w][s] \in JobRow /\ (w \notin mixed => job[w][s].user = staff[w].user)
  BY PlaceRow DEF TemporarilyRemove, PermanentlyRemove, RemoveWorkerFromCompany, Restore,
     UpdateWorkerInCompany, Present
<1>2. ASSUME NEW j \in JobRow \cup {Nothing}, SavesJob(p, w, s, j),
             j # Nothing /\ w \notin mixed => j.user = staff[w].user,
             ~Present(j) => ~Blocked(w, s),
             Present(j) => Works(w) \/ NobodyElse(w, staff[w].cedula)
      PROVE  StaffInv'
  <2>1. PICK o : o = [op |-> "saveJob", overtaken |-> FALSE, worker |-> w, salon |-> s, job |-> j]
    OBVIOUS
  <2>2. Ordered(o)
    BY <1>1, <1>2, <2>1 DEF Ordered
  <2>3. ReadsTruly(o)
    BY <1>2, <2>1 DEF ReadsTruly
  <2>. QED BY <1>2, <2>1, <2>2, <2>3, OrderIsGiven DEF SavesJob, Start
<1>3. ASSUME NEW state \in {"active", "inactive", "away", "gone"},
             SavesJob(p, w, s, [job[w][s] EXCEPT !.state = state]),
             state \in {"away", "gone"} => ~Blocked(w, s),
             state \in {"active", "inactive"} => Works(w) \/ NobodyElse(w, staff[w].cedula)
      PROVE  StaffInv'
  <2>1. PICK j : j = [job[w][s] EXCEPT !.state = state]
    OBVIOUS
  <2>2. j \in JobRow /\ j.user = job[w][s].user /\ j.state = state
    BY <1>1, <2>1 DEF JobRow
  <2>3. Present(j) <=> state \in {"active", "inactive"}
    BY <2>2, RowsAreThere DEF Present
  <2>. QED BY <1>1, <1>2, <1>3, <2>1, <2>2, <2>3
<1>4. CASE TemporarilyRemove(p, w, s)
  BY <1>3, <1>4 DEF TemporarilyRemove
<1>5. CASE PermanentlyRemove(p, w, s)
  BY <1>3, <1>5 DEF PermanentlyRemove
<1>6. CASE RemoveWorkerFromCompany(p, w, s)
  BY <1>2, <1>6 DEF RemoveWorkerFromCompany, Present
<1>7. CASE Restore(p, w, s)
  BY <1>3, <1>7, FreeIsNobodys DEF Restore, MayReturn
<1>8. ASSUME NEW state \in {"active", "inactive"}, UpdateWorkerInCompany(p, w, s, state)
      PROVE  StaffInv'
  BY <1>1, <1>3, <1>8 DEF UpdateWorkerInCompany
<1>. QED BY <1>4, <1>5, <1>6, <1>7, <1>8

LEMMA OrderHeld ==
  ASSUME StaffInv, NEW p \in Office, order[p].op # "off"
  PROVE  /\ Ordered(order[p]) /\ order[p].overtaken \in BOOLEAN
         /\ ~order[p].overtaken => ReadsTruly(order[p])
BY RowsAreThere DEF StaffInv, StaffTyped, OrdersAreTrue, Ordered

LEMMA SaveWorkerAgrees ==
  ASSUME StaffInv, NEW p \in Office, SaveWorker(p)
  PROVE  StaffInv'
<1>1. PICK o : o = order[p]
  OBVIOUS
<1>2. /\ o.op = "profile" /\ Ordered(o) /\ o.overtaken \in BOOLEAN
      /\ o.cedula \in Cedulas /\ o.salon \in Branch /\ o.user \in StaffAccount \cup {NoLogin}
      /\ ~o.overtaken => NobodyElse(0, o.cedula)
  BY <1>1, OrderHeld DEF SaveWorker, Ordered, ReadsTruly
<1>3. PICK w \in Staff \ Hired :
        /\ staff' = [staff EXCEPT ![w] = [cedula |-> o.cedula, user |-> o.user]]
        /\ login' = IF o.user = NoLogin THEN login ELSE [login EXCEPT ![o.user] = w]
        /\ order' = [Passed(p) EXCEPT ![p] = [op |-> "assign", overtaken |-> o.overtaken,
                                              worker |-> w, salon |-> o.salon, user |-> o.user]]
  BY <1>1 DEF SaveWorker, NextHire
<1>4. PICK row : row = [cedula |-> o.cedula, user |-> o.user]
  OBVIOUS
<1>5. row \in StaffRow /\ row # Nothing /\ row.cedula = o.cedula /\ row.user = o.user
  BY <1>2, <1>4, RowsAreThere DEF StaffRow
<1>6. /\ staff'[w] = row /\ \A v \in Staff : v # w => staff'[v] = staff[v]
      /\ staff' \in [Staff -> {Nothing} \cup StaffRow]
  BY <1>3, <1>4, <1>5 DEF StaffInv, StaffTyped, StaffTypeOK, StaffRow
<1>7. UNCHANGED <<job, duty, mixed, linked, revived>> /\ (o.user # NoLogin => login[o.user] = 0)
  BY <1>1 DEF SaveWorker
<1>8. Hired' = Hired \cup {w} /\ JobsOf(w) = {} /\ ~Works(w)
  BY <1>3, <1>5, <1>6
  DEF Hired, StaffInv, StaffTyped, StaffTypeOK, JobsOf, Works, Present
<1>9. \A v : (Works(v)' <=> Works(v)) /\ JobsOf(v)' = JobsOf(v)
  BY <1>7 DEF Works, JobsOf
<1>10. HiredStay /\ login' \in [StaffAccount -> Staff \cup {0}]
       /\ (o.user # NoLogin => login'[o.user] = w)
  BY <1>2, <1>3, <1>7, <1>8 DEF HiredStay, StaffInv, StaffTyped, StaffTypeOK
<1>11. StaffTypeOK'
  <2>1. ASSUME NEW v \in Hired', staff'[v].user # NoLogin PROVE login'[staff'[v].user] = v
    <3>1. CASE v = w
      BY <1>5, <1>6, <1>10, <2>1, <3>1
    <3>2. CASE v # w
      <4>1. v \in Hired /\ v \in Staff /\ staff'[v] = staff[v] /\ v # 0
        BY <1>6, <1>8, <2>1, <3>2 DEF Hired, Staff
      <4>2. staff[v].user \in StaffAccount /\ login[staff[v].user] = v
        BY <2>1, <4>1, WorkerRow DEF StaffInv
      <4>. QED BY <1>10, <4>1, <4>2 DEF HiredStay
    <3>. QED BY <3>1, <3>2
  <2>2. \A v \in Staff \ Hired' : JobsOf(v)' = {}
    BY <1>8, <1>9 DEF StaffInv, StaffTyped, StaffTypeOK
  <2>. QED BY <1>6, <1>7, <1>10, <2>1, <2>2 DEF StaffInv, StaffTyped, StaffTypeOK, StaffRow
<1>12. StaffSound'
  <2>1. CedulasStayApart'
    BY <1>6, <1>7, <1>8, <1>9 DEF StaffInv, StaffSound, CedulasStayApart, Hired
  <2>2. OneAccountInAllSalons'
    BY <1>6, <1>7, <1>8, <1>9 DEF StaffInv, StaffSound, OneAccountInAllSalons, Hired
  <2>3. RemovedHasNoDuty'
    BY <1>3, <1>7, <1>8 DEF StaffInv, StaffTyped, StaffSound, RemovedHasNoDuty
  <2>. QED BY <2>1, <2>2, <2>3 DEF StaffSound
<1>13. PICK x : x = [op |-> "assign", overtaken |-> o.overtaken,
                     worker |-> w, salon |-> o.salon, user |-> o.user]
  OBVIOUS
<1>14. Ordered(x)'
  BY <1>2, <1>8, <1>13 DEF Ordered
<1>15. x.overtaken \/ ReadsTruly(x)'
  <2>1. ASSUME ~o.overtaken PROVE NobodyElse(w, o.cedula)'
    <3>1. \A v \in Hired' \ {w} : v \in Hired \ {0} /\ staff'[v] = staff[v]
      BY <1>6, <1>8 DEF Hired, Staff
    <3>. QED BY <1>2, <1>9, <2>1, <3>1 DEF NobodyElse
  <2>. QED BY <1>2, <1>5, <1>6, <1>13, <2>1 DEF ReadsTruly
<1>16. StaffTyped' /\ OrdersAreTrue'
  <2>1. \A v \in Staff : duty'[v] # Nothing => v \in Hired'
    BY <1>7, <1>8 DEF StaffInv, StaffTyped
  <2>. QED BY <1>3, <1>10, <1>11, <1>13, <1>14, <1>15, <2>1, WriterEnds DEF StaffInv
<1>. QED BY <1>12, <1>16 DEF StaffInv

\* The end of a request that wrote.
LEMMA Ended ==
  ASSUME StaffTyped, StaffTypeOK', HiredStay, NEW p \in Office, End(p),
         \A w \in Staff : duty'[w] # Nothing => w \in Hired'
  PROVE  StaffTyped' /\ OrdersAreTrue'
BY WriterEnds DEF End

\* One place of a worker is written: what has to be so for all to agree still.
LEMMA PlaceWritten ==
  ASSUME StaffInv, NEW w \in Hired, NEW s \in Branch, NEW row \in JobRow \cup {Nothing},
         job' = [job EXCEPT ![w][s] = row],
         UNCHANGED <<staff, login, duty, revived>>,
         mixed \subseteq mixed', linked \subseteq linked',
         w \in mixed' \/ ( /\ row # Nothing => row.user = staff[w].user
                           /\ ~Present(row) => ~Blocked(w, s)
                           /\ \/ ~Present(row) \/ Works(w)
                              \/ NobodyElse(w, staff[w].cedula)
                              \/ staff[w].cedula \in linked' \cup {NoCedula} )
  PROVE  StaffTypeOK' /\ StaffSound' /\ HiredStay
         /\ \A v \in Staff : duty'[v] # Nothing => v \in Hired'
<1>1. /\ w \in Staff /\ job' \in [Staff -> [Branch -> JobRow \cup {Nothing}]]
      /\ job'[w][s] = row
      /\ \A t \in Branch : t # s => job'[w][t] = job[w][t]
      /\ \A v \in Staff : v # w => job'[v] = job[v]
  BY DEF StaffInv, StaffTyped, StaffTypeOK, Hired
<1>2. Hired' = Hired
  BY DEF Hired
<1>3. \A v \in Staff : v # w => JobsOf(v)' = JobsOf(v) /\ (Works(v)' <=> Works(v))
  BY <1>1 DEF JobsOf, Works
<1>4. StaffTypeOK'
  <2>1. \A v \in Staff \ Hired' : JobsOf(v)' = {}
    BY <1>2, <1>3 DEF StaffInv, StaffTyped, StaffTypeOK
  <2>. QED BY <1>1, <1>2, <2>1 DEF StaffInv, StaffTyped, StaffTypeOK
<1>5. OneAccountInAllSalons'
  BY <1>1, <1>2, <1>3 DEF StaffInv, StaffSound, OneAccountInAllSalons, JobsOf, Hired
<1>6. RemovedHasNoDuty'
  <2>1. ASSUME NEW v \in Hired' \ (mixed' \cup revived'), duty'[v] # Nothing,
               ~Present(job'[v][duty'[v].salon])
        PROVE  duty'[v].status # "scheduled"
    <3>1. /\ v \in Hired \ (mixed \cup revived) /\ v \in Staff
          /\ duty'[v] = duty[v] /\ duty[v].salon \in Branch
      BY <1>2, <2>1 DEF Hired, StaffInv, StaffTyped, StaffTypeOK
    <3>2. CASE v = w /\ duty[v].salon = s
      BY <1>1, <2>1, <3>1, <3>2 DEF Blocked, BLOCKING_STATUSES
    <3>3. CASE ~(v = w /\ duty[v].salon = s)
      BY <1>1, <2>1, <3>1, <3>3 DEF StaffInv, StaffSound, RemovedHasNoDuty
    <3>. QED BY <3>2, <3>3
  <2>. QED BY <2>1 DEF RemovedHasNoDuty
<1>7. CedulasStayApart'
  <2>1. ASSUME NEW u \in Hired \ mixed', NEW v \in Hired \ mixed', u # v,
               Works(u)', Works(v)', staff[u].cedula = staff[v].cedula,
               u # w
        PROVE  staff[u].cedula \in linked' \cup {NoCedula}
    <3>1. u \in Staff /\ v \in Staff /\ Works(u)
      BY <1>3, <2>1 DEF Hired
    <3>2. CASE Works(v)
      BY <2>1, <3>1, <3>2 DEF StaffInv, StaffSound, CedulasStayApart
    <3>3. CASE ~Works(v)
      <4>1. v = w /\ Present(row)
        BY <1>1, <1>3, <2>1, <3>1, <3>3 DEF Works
      <4>. QED BY <2>1, <3>1, <3>3, <4>1 DEF NobodyElse
    <3>. QED BY <3>2, <3>3
  <2>2. CedulasStayApart' <=>
          \A u, v \in Hired \ mixed' :
            u # v /\ Works(u)' /\ Works(v)' /\ staff[u].cedula = staff[v].cedula
            => staff[u].cedula \in linked' \cup {NoCedula}
    BY <1>2 DEF CedulasStayApart
  <2>. QED BY <2>1, <2>2
<1>8. HiredStay /\ \A v \in Staff : duty'[v] # Nothing => v \in Hired'
  BY <1>2 DEF HiredStay, StaffInv, StaffTyped
<1>. QED BY <1>4, <1>5, <1>6, <1>7, <1>8 DEF StaffSound

LEMMA PlaceAgrees ==
  ASSUME StaffInv, NEW p \in Office, AssignToSalon(p) \/ SaveJob(p)
  PROVE  StaffInv'
<1>1. PICK o : o = order[p]
  OBVIOUS
<1>2. /\ o.op \in {"assign", "saveJob"} /\ Ordered(o) /\ o.overtaken \in BOOLEAN
      /\ ~o.overtaken => ReadsTruly(o)
      /\ o.worker \in Hired /\ o.salon \in Branch
  BY <1>1, OrderHeld DEF AssignToSalon, SaveJob, Ordered, AboutAWorker
<1>3. PICK w \in Hired, s \in Branch : w = o.worker /\ s = o.salon
  BY <1>2
<1>4. /\ End(p) /\ UNCHANGED <<staff, login, duty, linked, revived>>
      /\ mixed' = IF o.overtaken THEN mixed \cup {w} ELSE mixed
  BY <1>1, <1>3 DEF AssignToSalon, SaveJob, Mix
<1>5. PICK row \in JobRow \cup {Nothing} :
        /\ job' = [job EXCEPT ![w][s] = row]
        /\ ~o.overtaken => /\ row # Nothing /\ w \notin mixed => row.user = staff[w].user
                           /\ ~Present(row) => ~Blocked(w, s)
                           /\ Present(row) => Works(w) \/ NobodyElse(w, staff[w].cedula)
  <2>1. CASE AssignToSalon(p)
    <3>1. PICK row : row = Job("active", o.user)
      OBVIOUS
    <3>2. row \in JobRow /\ row.user = o.user /\ Present(row)
      <4>1. o.op = "assign"
        BY <1>1, <2>1 DEF AssignToSalon
      <4>2. row \in JobRow /\ row.user = o.user /\ row.state = "active"
        BY <1>2, <3>1, <4>1 DEF Job, JobRow, Ordered
      <4>. QED BY <4>2, RowsAreThere DEF Present
    <3>3. job' = [job EXCEPT ![w][s] = row]
      BY <1>1, <1>3, <2>1, <3>1 DEF AssignToSalon
    <3>4. ~o.overtaken => row.user = staff[w].user /\ NobodyElse(w, staff[w].cedula)
      BY <1>1, <1>2, <1>3, <2>1, <3>2 DEF AssignToSalon, ReadsTruly
    <3>. QED BY <3>2, <3>3, <3>4
  <2>2. CASE SaveJob(p)
    <3>1. PICK row : row = o.job
      OBVIOUS
    <3>2. /\ row \in JobRow \cup {Nothing} /\ o.op = "saveJob"
          /\ job' = [job EXCEPT ![w][s] = row]
      BY <1>1, <1>2, <1>3, <2>2, <3>1 DEF SaveJob, Ordered
    <3>. QED BY <1>2, <1>3, <3>1, <3>2 DEF ReadsTruly
  <2>. QED BY <2>1, <2>2
<1>6. StaffTypeOK' /\ StaffSound' /\ HiredStay
      /\ \A v \in Staff : duty'[v] # Nothing => v \in Hired'
  <2>1. w \in mixed \/ w \notin mixed
    OBVIOUS
  <2>2. mixed \subseteq mixed' /\ linked \subseteq linked'
    BY <1>4
  <2>3. w \in mixed' \/ ( /\ row # Nothing => row.user = staff[w].user
                          /\ ~Present(row) => ~Blocked(w, s)
                          /\ ~Present(row) \/ Works(w) \/ NobodyElse(w, staff[w].cedula) )
    BY <1>2, <1>4, <1>5
  <2>. QED BY <1>4, <1>5, <2>2, <2>3, PlaceWritten
<1>. QED BY <1>4, <1>6, Ended DEF StaffInv

LEMMA LinkAgrees ==
  ASSUME StaffInv, NEW p \in Office, NEW w \in Staff, NEW s \in Branch, LinkWorker(p, w, s)
  PROVE  StaffInv'
<1>1. PICK row : row = Job("active", staff[w].user)
  OBVIOUS
<1>2. w \in Hired /\ row \in JobRow /\ row.user = staff[w].user /\ Present(row)
  <2>1. w \in Hired /\ row \in JobRow /\ row.user = staff[w].user /\ row.state = "active"
    BY <1>1, WorkerRow DEF LinkWorker, Job, JobRow, StaffInv
  <2>. QED BY <2>1, RowsAreThere DEF Present
<1>3. /\ job' = [job EXCEPT ![w][s] = row] /\ UNCHANGED <<staff, login, duty, revived, mixed>>
      /\ staff[w].cedula \in linked' \cup {NoCedula} /\ linked \subseteq linked'
  BY <1>1 DEF LinkWorker
<1>4. StaffTypeOK' /\ StaffSound' /\ HiredStay
      /\ \A v \in Staff : duty'[v] # Nothing => v \in Hired'
  BY <1>2, <1>3, PlaceWritten
<1>5. order' = [Passed(p) EXCEPT ![p] = Off]
  BY DEF LinkWorker, Passed
<1>. QED BY <1>4, <1>5, WriterEnds DEF StaffInv

LEMMA GrantAgrees ==
  ASSUME StaffInv, NEW p \in Office, NEW a \in StaffAccount, GrantLogin(p, a)
  PROVE  StaffInv'
<1>1. PICK w \in Hired : w = order[p].worker
  BY OrderHeld DEF GrantLogin, Ordered, AboutAWorker
<1>2. /\ AccountForWorker(w, a) /\ End(p) /\ login[a] = 0
      /\ UNCHANGED <<duty, mixed, linked, revived>>
  BY <1>1 DEF GrantLogin
<1>3. w \in Staff /\ staff[w] \in StaffRow /\ staff[w] # Nothing
  BY WorkerRow DEF StaffInv, Hired
<1>4. CASE UNCHANGED <<staff, login, job>>
  <2>1. StaffTypeOK' /\ StaffSound' /\ HiredStay
        /\ \A v \in Staff : duty'[v] # Nothing => v \in Hired'
    BY <1>2, <1>4
    DEF StaffInv, StaffTyped, StaffTypeOK, StaffSound, CedulasStayApart, OneAccountInAllSalons,
        RemovedHasNoDuty, HiredStay, Hired, JobsOf, Works
  <2>. QED BY <1>2, <2>1, Ended DEF StaffInv
<1>5. CASE staff[w].user = NoLogin
  <2>1. PICK row : row = [staff[w] EXCEPT !.user = a]
    OBVIOUS
  <2>2. row \in StaffRow /\ row # Nothing /\ row.user = a /\ row.cedula = staff[w].cedula
    BY <1>3, <2>1, RowsAreThere DEF StaffRow
  <2>3. /\ staff' \in [Staff -> {Nothing} \cup StaffRow] /\ staff'[w] = row
        /\ \A v \in Staff : v # w => staff'[v] = staff[v]
    <3>1. staff' = [staff EXCEPT ![w] = row]
      BY <1>2, <1>5, <2>1 DEF AccountForWorker
    <3>2. staff \in [Staff -> {Nothing} \cup StaffRow]
      BY DEF StaffInv, StaffTyped, StaffTypeOK, StaffRow
    <3>. QED BY <1>3, <2>2, <3>1, <3>2
  <2>4. Hired' = Hired
    BY <1>3, <2>2, <2>3 DEF Hired
  <2>5. /\ login' \in [StaffAccount -> Staff \cup {0}] /\ login'[a] = w
        /\ \A b \in StaffAccount : b # a => login'[b] = login[b]
    BY <1>2, <1>3, <1>5 DEF AccountForWorker, StaffInv, StaffTyped, StaffTypeOK
  <2>6. ASSUME NEW s \in Branch
        PROVE  /\ job'[w][s] = IF job[w][s] = Nothing THEN Nothing
                               ELSE [job[w][s] EXCEPT !.user = a]
               /\ job'[w][s] \in JobRow \cup {Nothing}
               /\ job[w][s] = Nothing => job'[w][s] = Nothing
               /\ job'[w][s] # Nothing => job'[w][s].user = a
               /\ Present(job[w][s]) <=> Present(job'[w][s])
    <3>1. job'[w][s] = IF job[w][s] = Nothing THEN Nothing ELSE [job[w][s] EXCEPT !.user = a]
      BY <1>2, <1>3, <1>5 DEF AccountForWorker, StaffInv, StaffTyped, StaffTypeOK
    <3>2. job[w][s] \in JobRow \cup {Nothing}
      BY <1>3 DEF StaffInv, StaffTyped, StaffTypeOK
    <3>3. CASE job[w][s] = Nothing
      BY <3>1, <3>3
    <3>4. CASE job[w][s] # Nothing
      <4>1. PICK place : place = [job[w][s] EXCEPT !.user = a]
        OBVIOUS
      <4>2. place \in JobRow /\ place.user = a /\ place.state = job[w][s].state
        BY <3>2, <3>4, <4>1 DEF JobRow
      <4>3. place # Nothing /\ job'[w][s] = place
        BY <3>1, <3>4, <4>1, <4>2, RowsAreThere
      <4>. QED BY <3>1, <3>4, <4>2, <4>3 DEF Present
    <3>. QED BY <3>3, <3>4, <3>1
  <2>7. /\ job' \in [Staff -> [Branch -> JobRow \cup {Nothing}]]
        /\ \A v \in Staff : v # w => job'[v] = job[v]
    <3>1. /\ DOMAIN job' = Staff /\ DOMAIN job'[w] = Branch
          /\ job' = [v \in Staff |-> job'[v]] /\ job'[w] = [s \in Branch |-> job'[w][s]]
          /\ \A v \in Staff : v # w => job'[v] = job[v]
      BY <1>2, <1>3, <1>5 DEF AccountForWorker, StaffInv, StaffTyped, StaffTypeOK
    <3>2. job'[w] \in [Branch -> JobRow \cup {Nothing}]
      BY <2>6, <3>1
    <3>3. \A v \in Staff : job'[v] \in [Branch -> JobRow \cup {Nothing}]
      BY <3>1, <3>2 DEF StaffInv, StaffTyped, StaffTypeOK
    <3>. QED BY <3>1, <3>3
  <2>8. \A v \in Staff : Works(v)' <=> Works(v)
    BY <2>6, <2>7 DEF Works
  <2>9. \A v \in Hired : staff'[v].cedula = staff[v].cedula
    BY <2>2, <2>3 DEF Hired
  <2>10. StaffTypeOK'
    <3>1. ASSUME NEW v \in Hired', staff'[v].user # NoLogin PROVE login'[staff'[v].user] = v
      <4>1. CASE v = w
        BY <2>2, <2>3, <2>5, <4>1
      <4>2. CASE v # w
        <5>1. v \in Hired /\ v \in Staff /\ staff'[v] = staff[v] /\ v # 0
          BY <2>3, <2>4, <3>1, <4>2 DEF Hired, Staff
        <5>2. staff[v].user \in StaffAccount /\ login[staff[v].user] = v
          BY <3>1, <5>1, WorkerRow DEF StaffInv
        <5>. QED BY <1>2, <2>5, <5>1, <5>2
      <4>. QED BY <4>1, <4>2
    <3>2. \A v \in Staff \ Hired' : JobsOf(v)' = {}
      BY <2>4, <2>7 DEF StaffInv, StaffTyped, StaffTypeOK, JobsOf
    <3>. QED BY <1>2, <2>3, <2>5, <2>7, <3>1, <3>2
         DEF StaffInv, StaffTyped, StaffTypeOK, StaffRow
  <2>11. CedulasStayApart'
    BY <1>2, <2>4, <2>8, <2>9 DEF StaffInv, StaffSound, CedulasStayApart, Hired
  <2>12. OneAccountInAllSalons'
    <3>1. \A s \in JobsOf(w)' : job'[w][s].user = staff'[w].user
      BY <2>2, <2>3, <2>6 DEF JobsOf
    <3>2. ASSUME NEW v \in Hired \ mixed, v # w, NEW s \in JobsOf(v)'
          PROVE  job'[v][s].user = staff'[v].user
      <4>1. v \in Staff /\ staff'[v] = staff[v] /\ job'[v] = job[v]
        BY <2>3, <2>7, <3>2 DEF Hired
      <4>2. s \in JobsOf(v)
        BY <3>2, <4>1 DEF JobsOf
      <4>. QED BY <3>2, <4>1, <4>2 DEF StaffInv, StaffSound, OneAccountInAllSalons
    <3>. QED BY <1>2, <2>4, <3>1, <3>2 DEF OneAccountInAllSalons
  <2>13. RemovedHasNoDuty'
    <3>1. ASSUME NEW v \in Hired \ (mixed \cup revived), duty[v] # Nothing,
                 ~Present(job'[v][duty[v].salon])
          PROVE  duty[v].status # "scheduled"
      <4>1. v \in Staff /\ duty[v].salon \in Branch
        BY <3>1 DEF Hired, StaffInv, StaffTyped, StaffTypeOK
      <4>2. ~Present(job[v][duty[v].salon])
        BY <2>6, <2>7, <3>1, <4>1
      <4>. QED BY <3>1, <4>2 DEF StaffInv, StaffSound, RemovedHasNoDuty
    <3>. QED BY <1>2, <2>4, <3>1 DEF RemovedHasNoDuty
  <2>14. HiredStay /\ \A v \in Staff : duty'[v] # Nothing => v \in Hired'
    BY <1>2, <2>4, <2>5 DEF HiredStay, StaffInv, StaffTyped
  <2>. QED BY <1>2, <2>10, <2>11, <2>12, <2>13, <2>14, Ended DEF StaffInv, StaffSound
<1>. QED BY <1>2, <1>4, <1>5 DEF AccountForWorker

LEMMA ProfileSaved ==
  ASSUME StaffInv, NEW p \in Office, SaveProfile(p)
  PROVE  StaffInv'
<1>1. PICK o : o = order[p]
  OBVIOUS
<1>2. /\ o.op \in {"saveProfile", "setCedula"} /\ Ordered(o) /\ o.overtaken \in BOOLEAN
      /\ ~o.overtaken => ReadsTruly(o)
  BY <1>1, OrderHeld DEF SaveProfile
<1>3. PICK w \in Hired : w = o.worker
  BY <1>2 DEF Ordered, AboutAWorker
<1>4. /\ End(p) /\ UNCHANGED <<job, login, duty, linked, revived>>
      /\ mixed' = IF o.overtaken THEN mixed \cup {w} ELSE mixed
  BY <1>1, <1>3 DEF SaveProfile, Mix
<1>5. w \in Staff /\ staff[w] \in StaffRow
  BY WorkerRow DEF StaffInv
<1>6. PICK row \in StaffRow :
        /\ staff' = [staff EXCEPT ![w] = row]
        /\ row.user # NoLogin => login[row.user] = w
        /\ ~o.overtaken =>
             /\ row.user = staff[w].user
             /\ row.cedula = staff[w].cedula \/ MayHave(w, row.cedula)
  <2>1. CASE o.op = "saveProfile"
    <3>1. PICK row : row = o.row
      OBVIOUS
    <3>2. row \in StaffRow /\ login[row.user] = w
      BY <1>2, <1>3, <2>1, <3>1 DEF Ordered
    <3>3. staff' = [staff EXCEPT ![w] = row]
      BY <1>1, <1>3, <2>1, <3>1 DEF SaveProfile
    <3>. QED BY <1>2, <1>3, <2>1, <3>1, <3>2, <3>3 DEF ReadsTruly
  <2>2. CASE o.op = "setCedula"
    <3>1. PICK row : row = [staff[w] EXCEPT !.cedula = o.cedula]
      OBVIOUS
    <3>2. row \in StaffRow /\ row.user = staff[w].user /\ row.cedula = o.cedula
      BY <1>2, <1>5, <2>2, <3>1 DEF StaffRow, Ordered
    <3>3. staff' = [staff EXCEPT ![w] = row]
      BY <1>1, <1>3, <2>2, <3>1 DEF SaveProfile
    <3>4. row.user # NoLogin => login[row.user] = w
      BY <3>2, WorkerRow DEF StaffInv
    <3>. QED BY <1>2, <1>3, <2>2, <3>2, <3>3, <3>4 DEF ReadsTruly
  <2>. QED BY <1>2, <2>1, <2>2
<1>7. /\ staff'[w] = row /\ row # Nothing
      /\ \A v \in Staff : v # w => staff'[v] = staff[v]
      /\ staff' \in [Staff -> {Nothing} \cup StaffRow]
  BY <1>5, <1>6, RowsAreThere DEF StaffInv, StaffTyped, StaffTypeOK, StaffRow
<1>8. Hired' = Hired
  BY <1>5, <1>7 DEF Hired
<1>9. \A v : (Works(v)' <=> Works(v)) /\ JobsOf(v)' = JobsOf(v)
  BY <1>4 DEF Works, JobsOf
<1>10. StaffTypeOK'
  <2>1. ASSUME NEW v \in Hired', staff'[v].user # NoLogin PROVE login'[staff'[v].user] = v
    BY <1>4, <1>6, <1>7, <1>8, <2>1, WorkerRow DEF StaffInv
  <2>2. \A v \in Staff \ Hired' : JobsOf(v)' = {}
    BY <1>8, <1>9 DEF StaffInv, StaffTyped, StaffTypeOK
  <2>. QED BY <1>4, <1>7, <2>1, <2>2 DEF StaffInv, StaffTyped, StaffTypeOK, StaffRow
<1>11. CedulasStayApart'
  <2>1. ASSUME NEW u \in Hired \ mixed', NEW v \in Hired \ mixed', u # v,
               Works(u), Works(v), staff'[u].cedula = staff'[v].cedula, u # w
        PROVE  staff'[u].cedula \in linked \cup {NoCedula}
    <3>1. /\ u \in Hired \ mixed /\ v \in Hired \ mixed /\ staff'[u] = staff[u]
          /\ v = w => ~o.overtaken
      BY <1>4, <1>7, <2>1 DEF Hired
    <3>2. CASE staff'[v].cedula = staff[v].cedula
      BY <2>1, <3>1, <3>2 DEF StaffInv, StaffSound, CedulasStayApart
    <3>3. CASE staff'[v].cedula # staff[v].cedula
      <4>1. v = w /\ NobodyElse(w, row.cedula)
        BY <1>6, <1>7, <2>1, <3>1, <3>3 DEF MayHave, Hired
      <4>. QED BY <1>7, <2>1, <3>1, <4>1 DEF NobodyElse
    <3>. QED BY <3>2, <3>3
  <2>2. CedulasStayApart' <=>
          \A u, v \in Hired \ mixed' :
            u # v /\ Works(u) /\ Works(v) /\ staff'[u].cedula = staff'[v].cedula
            => staff'[u].cedula \in linked \cup {NoCedula}
    BY <1>4, <1>8, <1>9 DEF CedulasStayApart
  <2>. QED BY <2>1, <2>2
<1>12. OneAccountInAllSalons'
  BY <1>4, <1>6, <1>7, <1>8, <1>9 DEF StaffInv, StaffSound, OneAccountInAllSalons, Hired
<1>13. RemovedHasNoDuty'
  BY <1>4, <1>8 DEF StaffInv, StaffSound, RemovedHasNoDuty
<1>14. HiredStay /\ \A v \in Staff : duty'[v] # Nothing => v \in Hired'
  BY <1>4, <1>8 DEF HiredStay, StaffInv, StaffTyped
<1>. QED BY <1>4, <1>10, <1>11, <1>12, <1>13, <1>14, Ended DEF StaffInv, StaffSound

\* An appointment of a worker moves.
LEMMA DutyAgrees ==
  ASSUME StaffInv, NEW w \in Staff,
         \/ \E s \in Branch : BookWorker(w, s)
         \/ DutyGoes(w, "scheduled", "completed") \/ DutyGoes(w, "completed", "paid")
         \/ DutyGoes(w, "scheduled", "cancelled") \/ DutyGoes(w, "cancelled", "scheduled")
  PROVE  StaffInv'
<1>. DEFINE DutyRow == [salon : Branch, status : {"scheduled", "completed", "paid", "cancelled"}]
<1>1. PICK row \in DutyRow :
        /\ duty' = [duty EXCEPT ![w] = row] /\ Overtakes /\ w \in Hired
        /\ UNCHANGED <<staff, job, login, mixed, linked>>
        /\ revived \subseteq revived'
        /\ w \in revived' \/ Present(job[w][row.salon])
           \/ (row.status = "scheduled" => duty[w] # Nothing /\ duty[w].salon = row.salon
                                           /\ duty[w].status = "scheduled")
  <2>1. ASSUME NEW s \in Branch, BookWorker(w, s)
        PROVE  \E row \in DutyRow :
                 /\ duty' = [duty EXCEPT ![w] = row] /\ Present(job[w][row.salon])
                 /\ w \in Hired /\ UNCHANGED revived
    <3>1. PICK row : row = [salon |-> s, status |-> "scheduled"]
      OBVIOUS
    <3>2. row \in DutyRow /\ row.salon = s
      BY <3>1
    <3>3. Present(job[w][s])
      BY <2>1 DEF BookWorker, Present
    <3>. QED BY <2>1, <3>1, <3>2, <3>3 DEF BookWorker
  <2>2. ASSUME NEW from, NEW to \in {"scheduled", "completed", "paid", "cancelled"},
               DutyGoes(w, from, to)
        PROVE  \E row \in DutyRow :
                 /\ duty' = [duty EXCEPT ![w] = row] /\ w \in Hired
                 /\ revived \subseteq revived'
                 /\ \/ row.status # "scheduled" \/ w \in revived'
                    \/ Present(job[w][row.salon])
    <3>1. duty[w] \in DutyRow /\ w \in Hired
      BY <2>2 DEF DutyGoes, StaffInv, StaffTyped, StaffTypeOK
    <3>2. PICK row : row = [duty[w] EXCEPT !.status = to]
      OBVIOUS
    <3>3. row \in DutyRow /\ row.salon = duty[w].salon /\ row.status = to
      BY <3>1, <3>2
    <3>. QED BY <2>2, <3>1, <3>2, <3>3 DEF DutyGoes
  <2>3. Overtakes /\ UNCHANGED <<staff, job, login, mixed, linked>>
    BY DEF BookWorker, DutyGoes
  <2>. QED BY <2>1, <2>2, <2>3
<1>. HIDE DEF DutyRow
<1>2. /\ duty' \in [Staff -> {Nothing} \cup DutyRow] /\ duty'[w] = row
      /\ \A v \in Staff : v # w => duty'[v] = duty[v]
      /\ Hired' = Hired
  BY <1>1 DEF StaffInv, StaffTyped, StaffTypeOK, DutyRow, Hired
<1>3. StaffTypeOK' /\ CedulasStayApart' /\ OneAccountInAllSalons'
  BY <1>1, <1>2 DEF StaffInv, StaffTyped, StaffTypeOK, StaffSound, CedulasStayApart,
     OneAccountInAllSalons, Hired, JobsOf, Works, DutyRow
<1>4. RemovedHasNoDuty'
  <2>1. ASSUME NEW v \in Hired \ (mixed \cup revived'), duty'[v] # Nothing,
               ~Present(job[v][duty'[v].salon])
        PROVE  duty'[v].status # "scheduled"
    <3>1. v \in Staff /\ v \in Hired \ (mixed \cup revived)
      BY <1>1, <2>1 DEF Hired
    <3>2. CASE v # w
      BY <1>2, <2>1, <3>1, <3>2 DEF StaffInv, StaffSound, RemovedHasNoDuty
    <3>3. CASE v = w
      BY <1>1, <1>2, <2>1, <3>1, <3>3 DEF StaffInv, StaffSound, RemovedHasNoDuty
    <3>. QED BY <3>2, <3>3
  <2>. QED BY <1>1, <1>2, <2>1 DEF RemovedHasNoDuty
<1>5. HiredStay /\ \A v \in Staff : duty'[v] # Nothing => v \in Hired'
  BY <1>1, <1>2 DEF HiredStay, StaffInv, StaffTyped
<1>6. order' = [q \in Office |-> order'[q]] /\ \A q \in Office : Overtook(q)
  BY <1>1 DEF Overtakes, Overtook
<1>7. StaffTyped' /\ OrdersAreTrue'
  BY <1>3, <1>5, <1>6, WriteOvertakes DEF StaffInv
<1>. QED BY <1>3, <1>4, <1>7 DEF StaffInv, StaffSound

\* However registrations, removals, restorations, edits and appointments of the
\* workers of any number of salons interleave, and whichever request dies, the
\* profile, the places, the account and the agenda agree after every step, but
\* for the workers a request overtaken by another one wrote (worker.service.ts).
THEOREM TheStaffAgrees == StaffSpec => []StaffAgree
<1>1. StaffInit => StaffInv
  <2>. SUFFICES ASSUME StaffInit PROVE StaffInv
    OBVIOUS
  <2>1. PICK i \in Cedula :
          staff = [w \in Staff |-> IF w = 1 THEN [cedula |-> i, user |-> NoLogin] ELSE Nothing]
    BY DEF StaffInit
  <2>2. PICK row : row = [cedula |-> i, user |-> NoLogin]
    OBVIOUS
  <2>3. row \in StaffRow /\ row.user = NoLogin
    BY <2>2 DEF StaffRow, Cedulas
  <2>4. 1 \in Staff /\ staff \in [Staff -> {Nothing} \cup StaffRow] /\ Hired = {1}
        /\ staff[1].user = NoLogin
    BY <2>1, <2>2, <2>3, RowsAreThere, StaffAssumption DEF Staff, Hired
  <2>5. PICK place : place = Job("active", NoLogin)
    OBVIOUS
  <2>6. place \in JobRow /\ place.user = NoLogin
    BY <2>5 DEF Job, JobRow
  <2>7. /\ job \in [Staff -> [Branch -> JobRow \cup {Nothing}]]
        /\ \A w \in Staff \ {1} : \A s \in Branch : job[w][s] = Nothing
        /\ \A s \in Branch : job[1][s] \in {place, Nothing}
    BY <2>4, <2>5, <2>6 DEF StaffInit
  <2>8. /\ duty = [w \in Staff |-> Nothing] /\ login = [a \in StaffAccount |-> 0]
        /\ order = [p \in Office |-> Off] /\ mixed = {} /\ linked = {} /\ revived = {}
    BY DEF StaffInit
  <2>9. StaffTyped
    <3>1. \A w \in Staff \ Hired : JobsOf(w) = {}
      BY <2>4, <2>7 DEF JobsOf
    <3>2. StaffTypeOK
      BY <2>4, <2>7, <2>8, <3>1 DEF StaffTypeOK, StaffRow
    <3>. QED BY <2>8, <3>2 DEF StaffTyped
  <2>10. OrdersAreTrue
    BY <2>8 DEF OrdersAreTrue
  <2>11. CedulasStayApart /\ RemovedHasNoDuty
    BY <2>4, <2>8 DEF CedulasStayApart, RemovedHasNoDuty, Hired
  <2>12. OneAccountInAllSalons
    BY <2>4, <2>6, <2>7 DEF OneAccountInAllSalons, JobsOf
  <2>. QED BY <2>9, <2>10, <2>11, <2>12 DEF StaffInv, StaffSound
<1>2. StaffInv /\ [StaffNext]_staffVars => StaffInv'
  <2>. SUFFICES ASSUME StaffInv, [StaffNext]_staffVars PROVE StaffInv'
    OBVIOUS
  <2>1. ASSUME NEW p \in Office, NEW w \in Staff, NEW s \in Branch, Moves(p, w, s)
        PROVE  StaffInv'
    BY <2>1, LinkAgrees, ProfileAsked, PlaceAsked DEF Moves
  <2>2. ASSUME NEW w \in Staff, NEW s \in Branch, BookWorker(w, s)
        PROVE  StaffInv'
    BY <2>2, DutyAgrees
  <2>3. CASE StaffNext
    BY <2>1, <2>2, <2>3, SaveWorkerAgrees, PlaceAgrees, ProfileSaved, ProfileAsked,
       GrantAgrees, DutyAgrees DEF StaffNext
  <2>4. CASE UNCHANGED staffVars
    <3>1. UNCHANGED <<staff, job, login, duty, order, mixed, linked, revived>>
      BY <2>4 DEF staffVars
    <3>2. StaffTyped'
      BY <3>1 DEF StaffInv, StaffTyped, StaffTypeOK, Ordered, Hired, JobsOf
    <3>3. OrdersAreTrue'
      BY <3>1 DEF StaffInv, OrdersAreTrue, ReadsTruly, NobodyElse, MayHave, Works, Blocked, Hired
    <3>4. StaffSound'
      BY <3>1 DEF StaffInv, StaffSound, CedulasStayApart, OneAccountInAllSalons,
         RemovedHasNoDuty, Hired, JobsOf, Works
    <3>. QED BY <3>2, <3>3, <3>4 DEF StaffInv
  <2>. QED BY <2>3, <2>4
<1>3. StaffInv => StaffAgree
  BY DEF StaffInv, StaffTyped, StaffSound, StaffAgree
<1>. QED BY <1>1, <1>2, <1>3, PTL DEF StaffSpec

--------------------------------------------------------------------------
(* Clients *)

\* What a request about clients holds, for as long as it holds it.
ErrandHeld(e) ==
  /\ "overtaken" \in DOMAIN e /\ e.overtaken \in BOOLEAN
  /\ e.op \in {"link", "insert", "account", "grant", "save", "book"}
  /\ e.op \in {"link", "grant", "save", "book"} => e.client \in Known
  /\ e.op \in {"link", "insert", "account", "book"} => e.salon \in Salon
  /\ e.op \in {"link", "insert", "account"} => e.identification \in Identifications
  /\ e.op \in {"insert", "account"} => e.user \in Account \cup {NoAccount}
  /\ e.op = "account" => e.user \in Account
  /\ e.op \in {"link", "save", "book"} => e.row \in ClientRow
  /\ e.op = "book" => e.bySalon \in BOOLEAN

Visit == [salon : Salon, status : {"scheduled", "completed", "paid", "cancelled"}]

ClientRowsTyped ==
  /\ client \in [Client -> ClientRow \cup {Unknown}]
  /\ account \in [Account -> Client \cup {Pending, Unmade}]
  /\ visit \in [Client -> {Unknown} \cup Visit]
  /\ \A c \in Known \ blurred : client[c].inactive \subseteq client[c].companies
  /\ \A c \in Client : visit[c] # Unknown => c \in Known
  /\ \A a \in Account : account[a] \in Client => account[a] \in Known

ErrandsTyped ==
  /\ errand = [p \in Desk |-> errand[p]]
  /\ \A p \in Desk : errand[p] = AtRest \/ ErrandHeld(errand[p])

\* What it read is so until another one writes.
ReadRight(e) ==
  /\ e.op \in {"link", "book"} => e.row = client[e.client]
  /\ e.op = "link" => IdentificationFree(e.identification, {e.salon}, e.client)
  /\ e.op \in {"insert", "account"} => IdentificationFree(e.identification, {e.salon}, 0)
  /\ e.op = "save" =>
       /\ e.row.user = client[e.client].user /\ e.row.companies = client[e.client].companies
       /\ \/ e.row.identification = client[e.client].identification
          \/ IdentificationFree(e.row.identification, client[e.client].companies, e.client)
       /\ \A s \in e.row.inactive :
            \/ s \in client[e.client].inactive
            \/ s \in client[e.client].companies /\ ~HasOpenVisit(e.client, s)
  /\ e.op = "book" => e.bySalon \/ ~Removed(e.client, e.salon)

ErrandsReadRight ==
  \A p \in Desk : errand[p] # AtRest /\ ~errand[p].overtaken => ReadRight(errand[p])

ClientsSound == AccountsHaveTheirProfile /\ RemovedHasNoLiveVisit /\ IdentificationsStayApart
ClientsInv == ClientRowsTyped /\ ErrandsTyped /\ ErrandsReadRight /\ ClientsSound

KnownStay == Known \subseteq Known'

LEMMA ClientRowsAreThere ==
  /\ \A row \in ClientRow : row # Unknown
  /\ \A v \in Visit : v # Unknown
  /\ \A e : ErrandHeld(e) => e # AtRest
  /\ AtRest.op = "rest"
BY DEF ClientRow, Visit, Unknown, AtRest, ErrandHeld

LEMMA ClientAsRow ==
  ASSUME ClientRowsTyped, NEW c \in Known
  PROVE  /\ c \in Client /\ client[c] \in ClientRow
         /\ client[c].identification \in Identifications
         /\ client[c].companies \subseteq Salon /\ client[c].inactive \subseteq Salon
         /\ client[c].user \in Account \cup {NoAccount}
         /\ \A s : Removed(c, s) <=> s \in client[c].inactive
BY DEF ClientRowsTyped, ClientRow, Known, Removed

LEMMA OvertakenErrand ==
  ASSUME NEW e, ErrandHeld(e), KnownStay, NEW x, x = [e EXCEPT !.overtaken = TRUE]
  PROVE  ErrandHeld(x)' /\ x.overtaken
<1>1. /\ DOMAIN x = DOMAIN e /\ x.overtaken /\ x.op = e.op
      /\ x.client = e.client /\ x.identification = e.identification /\ x.salon = e.salon
      /\ x.user = e.user /\ x.row = e.row /\ x.bySalon = e.bySalon
  BY DEF ErrandHeld
<1>. QED BY <1>1 DEF ErrandHeld, KnownStay

Outrun(q) ==
  errand'[q] = IF errand[q] = AtRest THEN AtRest ELSE [errand[q] EXCEPT !.overtaken = TRUE]

\* A write makes the errands of the others be overtaken.
LEMMA ErrandsGoOn ==
  ASSUME ErrandsTyped, KnownStay, errand' = [q \in Desk |-> errand'[q]],
         \A q \in Desk :
           \/ Outrun(q) \/ errand'[q] = AtRest
           \/ ErrandHeld(errand[q])' /\ (errand'[q].overtaken \/ ReadRight(errand[q])')
  PROVE  ErrandsTyped' /\ ErrandsReadRight'
<1>1. ASSUME NEW q \in Desk, Outrun(q)
      PROVE  errand'[q] = AtRest \/ (ErrandHeld(errand[q])' /\ errand'[q].overtaken)
  <2>1. CASE errand[q] = AtRest
    BY <1>1, <2>1 DEF Outrun
  <2>2. CASE errand[q] # AtRest
    <3>1. PICK x : x = errand'[q]
      OBVIOUS
    <3>2. ErrandHeld(x)' /\ x.overtaken
      BY <1>1, <2>2, <3>1, OvertakenErrand DEF Outrun, ErrandsTyped
    <3>. QED BY <3>1, <3>2
  <2>. QED BY <2>1, <2>2
<1>2. \A q \in Desk : errand'[q] = AtRest \/ ErrandHeld(errand[q])'
  BY <1>1
<1>3. \A q \in Desk : errand'[q] # AtRest /\ ~errand'[q].overtaken => ReadRight(errand[q])'
  BY <1>1
<1>4. ErrandsTyped'
  BY <1>2 DEF ErrandsTyped
<1>5. ErrandsReadRight'
  BY <1>3 DEF ErrandsReadRight
<1>. QED BY <1>4, <1>5

LEMMA ErrandEnds ==
  ASSUME ErrandsTyped, KnownStay, NEW p \in Desk, NEW x,
         errand' = [Overtake(p) EXCEPT ![p] = x],
         x = AtRest \/ (ErrandHeld(x)' /\ (x.overtaken \/ ReadRight(x)'))
  PROVE  ErrandsTyped' /\ ErrandsReadRight'
<1>1. errand' = [q \in Desk |-> errand'[q]] /\ errand'[p] = x
  BY DEF Overtake
<1>2. \A q \in Desk : q # p => Outrun(q)
  BY DEF Overtake, Outrun
<1>3. errand'[p] = AtRest
      \/ (ErrandHeld(errand[p])' /\ (errand'[p].overtaken \/ ReadRight(errand[p])'))
  <2>1. CASE x = AtRest
    BY <1>1, <2>1
  <2>2. CASE ErrandHeld(x)' /\ (x.overtaken \/ ReadRight(x)')
    <3>1. ErrandHeld(errand[p])'
      BY <1>1, <2>2 DEF ErrandHeld
    <3>2. ReadRight(x)' => ReadRight(errand[p])'
      BY <1>1 DEF ReadRight
    <3>. QED BY <1>1, <2>2, <3>1, <3>2
  <2>. QED BY <2>1, <2>2
<1>. QED BY <1>1, <1>2, <1>3, ErrandsGoOn

\* An errand that begins, or one that is given up, writes nothing.
LEMMA ErrandIsGiven ==
  ASSUME ClientsInv, NEW p \in Desk, NEW e,
         errand' = [errand EXCEPT ![p] = e],
         e = AtRest \/ (ErrandHeld(e) /\ ReadRight(e)),
         UNCHANGED <<client, account, visit, blurred, loose, kept>>
  PROVE  ClientsInv'
<1>1. errand' = [q \in Desk |-> errand'[q]] /\ errand'[p] = e
      /\ \A q \in Desk : q # p => errand'[q] = errand[q]
  BY DEF ClientsInv, ErrandsTyped
<1>2. ClientRowsTyped'
  BY DEF ClientsInv, ClientRowsTyped, Known
<1>3. ClientsSound'
  BY DEF ClientsInv, ClientsSound, AccountsHaveTheirProfile, RemovedHasNoLiveVisit,
     IdentificationsStayApart, Known, Removed
<1>4. \A x : (ErrandHeld(x) <=> ErrandHeld(x)') /\ (ReadRight(x) <=> ReadRight(x)')
  <2>1. Known' = Known
    BY DEF Known
  <2>2. \A i, salons, self :
          IdentificationFree(i, salons, self)' <=> IdentificationFree(i, salons, self)
    BY <2>1 DEF IdentificationFree
  <2>3. \A c, s : (HasOpenVisit(c, s)' <=> HasOpenVisit(c, s)) /\ (Removed(c, s)' <=> Removed(c, s))
    BY DEF HasOpenVisit, Removed
  <2>4. ASSUME NEW x PROVE ErrandHeld(x)' <=> ErrandHeld(x)
    BY <2>1 DEF ErrandHeld
  <2>5. ASSUME NEW x PROVE ReadRight(x)' <=> ReadRight(x)
    BY <2>2, <2>3 DEF ReadRight
  <2>. QED BY <2>4, <2>5
<1>5. ASSUME NEW q \in Desk
      PROVE  /\ errand'[q] = AtRest \/ ErrandHeld(errand[q])'
             /\ errand'[q] # AtRest /\ ~errand'[q].overtaken => ReadRight(errand[q])'
  <2>1. PICK x : x = errand'[q]
    OBVIOUS
  <2>2. /\ x = AtRest \/ ErrandHeld(x)
        /\ x # AtRest /\ ~x.overtaken => ReadRight(x)
    BY <1>1, <2>1 DEF ClientsInv, ErrandsTyped, ErrandsReadRight
  <2>3. /\ x = AtRest \/ ErrandHeld(x)'
        /\ x # AtRest /\ ~x.overtaken => ReadRight(x)'
    BY <1>4, <2>2
  <2>4. (ErrandHeld(x)' => ErrandHeld(errand[q])') /\ (ReadRight(x)' => ReadRight(errand[q])')
    BY <2>1 DEF ErrandHeld, ReadRight
  <2>. QED BY <2>1, <2>3, <2>4
<1>6. ErrandsTyped' /\ ErrandsReadRight'
  <2>1. ErrandsTyped'
    BY <1>1, <1>5 DEF ErrandsTyped
  <2>2. ErrandsReadRight'
    BY <1>5 DEF ErrandsReadRight
  <2>. QED BY <2>1, <2>2
<1>. QED BY <1>2, <1>3, <1>6 DEF ClientsInv

\* What the new row of a client must be for its rows to agree.
RowAgrees(c, row) ==
  /\ row.inactive \subseteq row.companies
  /\ \A a \in Account : account'[a] = c => row.user = a
  /\ c \notin kept' /\ visit'[c] # Unknown /\ visit'[c].salon \in row.inactive
     => visit'[c].status \in {"paid", "cancelled"}
  /\ \A d \in Known \ (blurred \cup {c}) :
       /\ client[d].identification = row.identification
       /\ client[d].companies \cap row.companies # {}
       => row.identification \in loose' \cup {NoId}

LEMMA OneRowIsWritten ==
  ASSUME ClientsInv, NEW c \in Client, NEW row \in ClientRow,
         client' = [client EXCEPT ![c] = row],
         account' \in [Account -> Client \cup {Pending, Unmade}],
         \A a \in Account : account'[a] \in {account[a], c},
         visit' \in [Client -> {Unknown} \cup Visit],
         \A d \in Client : d # c => visit'[d] = visit[d],
         blurred \subseteq blurred', loose \subseteq loose', kept \subseteq kept',
         c \notin blurred' => RowAgrees(c, row)
  PROVE  ClientRowsTyped' /\ KnownStay /\ ClientsSound'
<1>1. /\ client'[c] = row /\ row # Unknown
      /\ \A d \in Client : d # c => client'[d] = client[d]
      /\ client' \in [Client -> ClientRow \cup {Unknown}]
  BY ClientRowsAreThere DEF ClientsInv, ClientRowsTyped
<1>2. Known' = Known \cup {c} /\ \A d \in Known : d \in Client
  BY <1>1 DEF Known
<1>3. KnownStay
  BY <1>2 DEF KnownStay
<1>4. ClientRowsTyped'
  <2>1. \A d \in Known' \ blurred' : client'[d].inactive \subseteq client'[d].companies
    BY <1>1, <1>2 DEF ClientsInv, ClientRowsTyped, RowAgrees
  <2>2. \A d \in Client : visit'[d] # Unknown => d \in Known'
    BY <1>2 DEF ClientsInv, ClientRowsTyped
  <2>3. \A a \in Account : account'[a] \in Client => account'[a] \in Known'
    BY <1>2 DEF ClientsInv, ClientRowsTyped
  <2>. QED BY <1>1, <2>1, <2>2, <2>3 DEF ClientRowsTyped
<1>5. AccountsHaveTheirProfile'
  <2>1. ASSUME NEW a \in Account, account'[a] \in Client \ blurred'
        PROVE  client'[account'[a]].user = a
    <3>1. CASE account'[a] = c
      BY <1>1, <2>1, <3>1 DEF RowAgrees
    <3>2. CASE account'[a] # c
      <4>1. account'[a] = account[a] /\ account[a] \in Client \ blurred
        BY <2>1, <3>2
      <4>. QED BY <1>1, <3>2, <4>1 DEF ClientsInv, ClientsSound, AccountsHaveTheirProfile
    <3>. QED BY <3>1, <3>2
  <2>. QED BY <2>1 DEF AccountsHaveTheirProfile
<1>6. RemovedHasNoLiveVisit'
  <2>1. ASSUME NEW d \in Known' \ (blurred' \cup kept'), visit'[d] # Unknown,
               visit'[d].salon \in client'[d].inactive
        PROVE  visit'[d].status \in {"paid", "cancelled"}
    <3>1. CASE d = c
      BY <1>1, <2>1, <3>1 DEF RowAgrees
    <3>2. CASE d # c
      <4>1. d \in Known \ (blurred \cup kept) /\ d \in Client
        BY <1>2, <2>1, <3>2
      <4>. QED BY <1>1, <2>1, <3>2, <4>1 DEF ClientsInv, ClientsSound, RemovedHasNoLiveVisit, Removed
    <3>. QED BY <3>1, <3>2
  <2>. QED BY <2>1 DEF RemovedHasNoLiveVisit, Removed
<1>7. IdentificationsStayApart'
  <2>1. ASSUME NEW d \in Known' \ blurred', NEW f \in Known' \ blurred', d # f,
               client'[d].identification = client'[f].identification,
               client'[d].companies \cap client'[f].companies # {}
        PROVE  client'[d].identification \in loose' \cup {NoId}
    <3>1. CASE d = c
      <4>1. f \in Known \ (blurred \cup {c}) /\ client'[f] = client[f]
        BY <1>1, <1>2, <2>1, <3>1
      <4>. QED BY <1>1, <2>1, <3>1, <4>1 DEF RowAgrees
    <3>2. CASE f = c
      <4>1. d \in Known \ (blurred \cup {c}) /\ client'[d] = client[d]
        BY <1>1, <1>2, <2>1, <3>2
      <4>. QED BY <1>1, <2>1, <3>2, <4>1 DEF RowAgrees
    <3>3. CASE d # c /\ f # c
      <4>1. /\ d \in Known \ blurred /\ f \in Known \ blurred
            /\ client'[d] = client[d] /\ client'[f] = client[f]
        BY <1>1, <1>2, <2>1, <3>3
      <4>2. client[d].identification \in loose \cup {NoId}
        BY <2>1, <4>1 DEF ClientsInv, ClientsSound, IdentificationsStayApart
      <4>. QED BY <4>1, <4>2
    <3>. QED BY <3>1, <3>2, <3>3
  <2>. QED BY <2>1 DEF IdentificationsStayApart
<1>. QED BY <1>3, <1>4, <1>5, <1>6, <1>7 DEF ClientsSound

LEMMA ErrandIsHeld ==
  ASSUME ClientsInv, NEW p \in Desk, errand[p].op # "rest"
  PROVE  /\ ErrandHeld(errand[p]) /\ errand[p].overtaken \in BOOLEAN
         /\ ~errand[p].overtaken => ReadRight(errand[p])
BY ClientRowsAreThere DEF ClientsInv, ErrandsTyped, ErrandsReadRight, ErrandHeld

LEMMA ErrandDone ==
  ASSUME ErrandsTyped, KnownStay, NEW p \in Desk, Done(p)
  PROVE  ErrandsTyped' /\ ErrandsReadRight'
BY ErrandEnds DEF Done

LEMMA BlurredByOvertaken ==
  ASSUME NEW p, NEW c, Blur(p, c)
  PROVE  /\ blurred \subseteq blurred'
         /\ c \notin blurred' => ~errand[p].overtaken /\ c \notin blurred
BY DEF Blur

\* The errands that begin.
LEMMA ErrandsBegin ==
  ASSUME ClientsInv, NEW p \in Desk, Registers(p) \/ Edits(p) \/ Drop(p)
  PROVE  ClientsInv'
<1>. DEFINE Begun(e) == /\ errand' = [errand EXCEPT ![p] = e]
                        /\ e = AtRest \/ (ErrandHeld(e) /\ ReadRight(e))
                        /\ UNCHANGED <<client, account, visit, blurred, loose, kept>>
<1>1. ASSUME NEW e, Begun(e) PROVE ClientsInv'
  BY <1>1, ErrandIsGiven
<1>2. ASSUME NEW s \in Salon, NEW i \in Identifications, RegisterNew(p, s, i)
      PROVE  \E e : Begun(e)
  <2>1. PICK e : e = [op |-> "insert", overtaken |-> FALSE, identification |-> i, salon |-> s,
                      user |-> NoAccount]
    OBVIOUS
  <2>2. ErrandHeld(e)
    BY <2>1 DEF ErrandHeld
  <2>3. ReadRight(e)
    BY <1>2, <2>1 DEF ReadRight, RegisterNew, IdentificationFree
  <2>4. Begun(e)
    BY <1>2, <2>1, <2>2, <2>3 DEF RegisterNew, Begin
  <2>. QED BY <2>4
<1>3. ASSUME NEW s \in Salon, NEW i \in Identifications, NEW a \in Account,
             RegisterWithAccount(p, s, i, a)
      PROVE  \E e : Begun(e)
  <2>1. PICK e : e = [op |-> "account", overtaken |-> FALSE, identification |-> i, salon |-> s,
                      user |-> a]
    OBVIOUS
  <2>2. ErrandHeld(e)
    BY <2>1 DEF ErrandHeld
  <2>3. ReadRight(e)
    BY <1>3, <2>1 DEF ReadRight, RegisterWithAccount
  <2>4. Begun(e)
    BY <1>3, <2>1, <2>2, <2>3 DEF RegisterWithAccount, Begin
  <2>. QED BY <2>4
<1>4. ASSUME NEW s \in Salon, NEW i \in Identifications, NEW a \in Account,
             RegisterOrphan(p, s, i, a)
      PROVE  \E e : Begun(e)
  <2>1. PICK e : e = [op |-> "insert", overtaken |-> FALSE, identification |-> i, salon |-> s,
                      user |-> a]
    OBVIOUS
  <2>2. ErrandHeld(e)
    BY <2>1 DEF ErrandHeld
  <2>3. ReadRight(e)
    BY <1>4, <2>1 DEF ReadRight, RegisterOrphan
  <2>4. Begun(e)
    BY <1>4, <2>1, <2>2, <2>3 DEF RegisterOrphan, Begin
  <2>. QED BY <2>4
<1>5. ASSUME NEW s \in Salon, NEW i \in Identifications, NEW c \in Client,
             NEW byAccount \in BOOLEAN, RegisterKnown(p, s, c, i, byAccount)
      PROVE  \E e : Begun(e)
  <2>1. PICK e : e = [op |-> "link", overtaken |-> FALSE, client |-> c, row |-> client[c],
                      salon |-> s, identification |-> i]
    OBVIOUS
  <2>2. c \in Known /\ client[c] \in ClientRow
    BY <1>5, ClientAsRow DEF RegisterKnown, ClientsInv
  <2>3. ErrandHeld(e)
    BY <2>1, <2>2 DEF ErrandHeld
  <2>4. ReadRight(e)
    BY <1>5, <2>1 DEF ReadRight, RegisterKnown
  <2>5. Begun(e)
    BY <1>5, <2>1, <2>3, <2>4 DEF RegisterKnown, Begin
  <2>. QED BY <2>5
<1>6. ASSUME NEW c \in Known, NEW row \in ClientRow, Saves(p, c, row),
             row.user = client[c].user, row.companies = client[c].companies,
             \/ row.identification = client[c].identification
             \/ IdentificationFree(row.identification, client[c].companies, c),
             \A s \in row.inactive :
               \/ s \in client[c].inactive
               \/ s \in client[c].companies /\ ~HasOpenVisit(c, s)
      PROVE  \E e : Begun(e)
  <2>1. PICK e : e = [op |-> "save", overtaken |-> FALSE, client |-> c, row |-> row]
    OBVIOUS
  <2>2. ErrandHeld(e)
    BY <1>6, <2>1 DEF ErrandHeld
  <2>3. ReadRight(e)
    BY <1>6, <2>1 DEF ReadRight
  <2>4. Begun(e)
    BY <1>6, <2>1, <2>2, <2>3 DEF Saves, Begin
  <2>. QED BY <2>4
<1>7. ASSUME NEW c \in Client, SetCompanyAlias(p, c)
      PROVE  \E e : Begun(e)
  <2>1. c \in Known /\ client[c] \in ClientRow
    BY <1>7, ClientAsRow DEF SetCompanyAlias, ClientsInv
  <2>. QED BY <1>6, <1>7, <2>1 DEF SetCompanyAlias
<1>8. ASSUME NEW c \in Client, NEW i \in Identifications,
             UpdateProfile(p, c, i) \/ UpdateClientByAdmin(p, c, i)
      PROVE  \E e : Begun(e)
  <2>1. c \in Known /\ client[c] \in ClientRow /\ Identify(p, c, i)
    BY <1>8, ClientAsRow DEF UpdateProfile, UpdateClientByAdmin, ClientsInv
  <2>2. PICK row : row = [client[c] EXCEPT !.identification = i]
    OBVIOUS
  <2>3. /\ row \in ClientRow /\ row.user = client[c].user
        /\ row.companies = client[c].companies /\ row.inactive = client[c].inactive
        /\ row.identification = i
    BY <2>1, <2>2 DEF ClientRow
  <2>4. Saves(p, c, row) /\ (i # client[c].identification
                             => IdentificationFree(i, client[c].companies, c))
    BY <2>1, <2>2 DEF Identify
  <2>. QED BY <1>6, <2>1, <2>3, <2>4
<1>9. ASSUME NEW c \in Client, NEW s \in Salon, RemoveClientFromCompany(p, c, s)
      PROVE  \E e : Begun(e)
  <2>1. c \in Known /\ client[c] \in ClientRow
    BY <1>9, ClientAsRow DEF RemoveClientFromCompany, ClientsInv
  <2>2. PICK row : row = [client[c] EXCEPT !.inactive = @ \cup {s}]
    OBVIOUS
  <2>3. /\ row \in ClientRow /\ row.user = client[c].user
        /\ row.companies = client[c].companies /\ row.inactive = client[c].inactive \cup {s}
        /\ row.identification = client[c].identification
    BY <2>1, <2>2 DEF ClientRow
  <2>4. Saves(p, c, row) /\ s \in client[c].companies /\ ~HasOpenVisit(c, s)
    BY <1>9, <2>2 DEF RemoveClientFromCompany
  <2>. QED BY <1>6, <2>1, <2>3, <2>4
<1>10. ASSUME NEW c \in Client, NEW s \in Salon, AssignClientEmail(p, c, s)
       PROVE  \E e : Begun(e)
  <2>1. PICK e : e = [op |-> "grant", overtaken |-> FALSE, client |-> c]
    OBVIOUS
  <2>2. ErrandHeld(e) /\ ReadRight(e)
    BY <1>10, <2>1 DEF ErrandHeld, ReadRight, AssignClientEmail
  <2>3. Begun(e)
    BY <1>10, <2>1, <2>2 DEF AssignClientEmail, Begin
  <2>. QED BY <2>3
<1>11. ASSUME NEW c \in Client, NEW s \in Salon, NEW bySalon \in BOOLEAN,
              BookVisit(p, c, s, bySalon)
       PROVE  \E e : Begun(e)
  <2>1. PICK e : e = [op |-> "book", overtaken |-> FALSE, client |-> c, row |-> client[c],
                      salon |-> s, bySalon |-> bySalon]
    OBVIOUS
  <2>2. c \in Known /\ client[c] \in ClientRow
    BY <1>11, ClientAsRow DEF BookVisit, ClientsInv
  <2>3. ErrandHeld(e)
    BY <2>1, <2>2 DEF ErrandHeld
  <2>4. ReadRight(e)
    BY <1>11, <2>1 DEF ReadRight, BookVisit
  <2>5. Begun(e)
    BY <1>11, <2>1, <2>3, <2>4 DEF BookVisit, Begin
  <2>. QED BY <2>5
<1>12. ASSUME Drop(p) PROVE \E e : Begun(e)
  BY <1>12 DEF Drop
<1>. HIDE DEF Begun
<1>13. CASE Registers(p)
  BY <1>1, <1>2, <1>3, <1>4, <1>5, <1>13 DEF Registers
<1>14. CASE Edits(p)
  BY <1>1, <1>7, <1>8, <1>9, <1>10, <1>11, <1>14 DEF Edits
<1>. QED BY <1>1, <1>12, <1>13, <1>14

LEMMA LinkAgreesWithClient ==
  ASSUME ClientsInv, NEW p \in Desk, LinkClient(p)
  PROVE  ClientsInv'
<1>1. PICK e : e = errand[p]
  OBVIOUS
<1>2. PICK row : row = Link(e)
  OBVIOUS
<1>3. /\ e.op = "link" /\ ErrandHeld(e) /\ e.overtaken \in BOOLEAN
      /\ ~e.overtaken => ReadRight(e)
  BY <1>1, ErrandIsHeld DEF LinkClient
<1>4. /\ e.client \in Known /\ e.client \in Client /\ e.salon \in Salon
      /\ e.identification \in Identifications /\ e.row \in ClientRow
      /\ client[e.client] \in ClientRow
      /\ ~e.overtaken => /\ e.row = client[e.client]
                         /\ IdentificationFree(e.identification, {e.salon}, e.client)
  BY <1>3, ClientAsRow DEF ErrandHeld, ReadRight, ClientsInv
<1>5. /\ client' = [client EXCEPT ![e.client] = row]
      /\ Blur(p, e.client) /\ Done(p) /\ UNCHANGED <<account, visit, kept>>
      /\ loose' = IF e.salon \in e.row.companies \/ e.row.identification = e.identification
                  THEN loose ELSE loose \cup ({client'[e.client].identification} \ {NoId})
  BY <1>1, <1>2 DEF LinkClient
<1>6. ASSUME e.salon \in e.row.companies
      PROVE  row \in ClientRow /\ (e.client \notin blurred' => RowAgrees(e.client, row))
  <2>1. /\ row \in ClientRow /\ row.inactive = e.row.inactive \ {e.salon}
        /\ row.companies = e.row.companies /\ row.user = client[e.client].user
        /\ row.identification = client[e.client].identification
    BY <1>2, <1>4, <1>6 DEF Link, ClientRow
  <2>2. ASSUME e.client \notin blurred' PROVE RowAgrees(e.client, row)
    <3>1. ~e.overtaken /\ e.client \notin blurred /\ e.row = client[e.client]
      BY <1>1, <1>4, <1>5, <2>2, BlurredByOvertaken
    <3>2. row.inactive \subseteq client[e.client].inactive
          /\ row.companies = client[e.client].companies
          /\ client[e.client].inactive \subseteq client[e.client].companies
      BY <1>4, <2>1, <3>1 DEF ClientsInv, ClientRowsTyped
    <3>3. \A a \in Account : account'[a] = e.client => row.user = a
      BY <1>4, <1>5, <2>1, <3>1 DEF ClientsInv, ClientsSound, AccountsHaveTheirProfile
    <3>4. e.client \notin kept' /\ visit'[e.client] # Unknown
          /\ visit'[e.client].salon \in row.inactive
          => visit'[e.client].status \in {"paid", "cancelled"}
      BY <1>4, <1>5, <3>1, <3>2 DEF ClientsInv, ClientsSound, RemovedHasNoLiveVisit, Removed
    <3>5. ASSUME NEW d \in Known \ (blurred \cup {e.client}),
                 client[d].identification = row.identification,
                 client[d].companies \cap row.companies # {}
          PROVE  row.identification \in loose' \cup {NoId}
      BY <1>4, <1>5, <1>6, <2>1, <3>1, <3>2, <3>5
      DEF ClientsInv, ClientsSound, IdentificationsStayApart
    <3>. QED BY <3>2, <3>3, <3>4, <3>5 DEF RowAgrees
  <2>. QED BY <2>1, <2>2
<1>7. ASSUME e.salon \notin e.row.companies
      PROVE  row \in ClientRow /\ (e.client \notin blurred' => RowAgrees(e.client, row))
  <2>1. /\ row \in ClientRow /\ row.inactive = client[e.client].inactive
        /\ row.companies = e.row.companies \cup {e.salon} /\ row.user = client[e.client].user
        /\ row.identification = IF e.row.identification = NoId THEN e.identification
                                ELSE client[e.client].identification
    BY <1>2, <1>4, <1>7 DEF Link, ClientRow
  <2>2. client'[e.client] = row
    BY <1>4, <1>5 DEF ClientsInv, ClientRowsTyped
  <2>3. ASSUME e.client \notin blurred' PROVE RowAgrees(e.client, row)
    <3>1. ~e.overtaken /\ e.client \notin blurred /\ e.row = client[e.client]
      BY <1>1, <1>4, <1>5, <2>3, BlurredByOvertaken
    <3>2. row.companies = client[e.client].companies \cup {e.salon}
          /\ client[e.client].inactive \subseteq client[e.client].companies
      BY <1>4, <2>1, <3>1 DEF ClientsInv, ClientRowsTyped
    <3>3. \A a \in Account : account'[a] = e.client => row.user = a
      BY <1>4, <1>5, <2>1, <3>1 DEF ClientsInv, ClientsSound, AccountsHaveTheirProfile
    <3>4. e.client \notin kept' /\ visit'[e.client] # Unknown
          /\ visit'[e.client].salon \in row.inactive
          => visit'[e.client].status \in {"paid", "cancelled"}
      BY <1>4, <1>5, <2>1, <3>1 DEF ClientsInv, ClientsSound, RemovedHasNoLiveVisit, Removed
    <3>5. ASSUME NEW d \in Known \ (blurred \cup {e.client}),
                 client[d].identification = row.identification,
                 client[d].companies \cap row.companies # {}
          PROVE  row.identification \in loose' \cup {NoId}
      <4>1. CASE e.row.identification # e.identification
        BY <1>5, <1>7, <2>2, <4>1
      <4>2. CASE e.row.identification = e.identification
        <5>1. row.identification = e.identification
              /\ row.identification = client[e.client].identification /\ loose' = loose
          BY <1>5, <2>1, <3>1, <4>2
        <5>2. CASE e.salon \in client[d].companies
          BY <1>4, <3>1, <3>5, <5>1, <5>2 DEF IdentificationFree
        <5>3. CASE e.salon \notin client[d].companies
          BY <1>4, <3>1, <3>2, <3>5, <5>1, <5>3
          DEF ClientsInv, ClientsSound, IdentificationsStayApart
        <5>. QED BY <5>2, <5>3
      <4>. QED BY <4>1, <4>2
    <3>6. row.inactive \subseteq row.companies
      BY <2>1, <3>2
    <3>. QED BY <3>3, <3>4, <3>5, <3>6 DEF RowAgrees
  <2>. QED BY <2>1, <2>3
<1>8. row \in ClientRow /\ (e.client \notin blurred' => RowAgrees(e.client, row))
  BY <1>6, <1>7
<1>9. /\ blurred \subseteq blurred' /\ loose \subseteq loose' /\ kept \subseteq kept'
      /\ account' \in [Account -> Client \cup {Pending, Unmade}]
      /\ visit' \in [Client -> {Unknown} \cup Visit]
      /\ \A a \in Account : account'[a] \in {account[a], e.client}
      /\ \A d \in Client : d # e.client => visit'[d] = visit[d]
  BY <1>1, <1>5, BlurredByOvertaken DEF ClientsInv, ClientRowsTyped
<1>10. ClientRowsTyped' /\ KnownStay /\ ClientsSound'
  BY <1>4, <1>5, <1>8, <1>9, OneRowIsWritten
<1>. QED BY <1>5, <1>10, ErrandDone DEF ClientsInv

LEMMA ClientSavedAgrees ==
  ASSUME ClientsInv, NEW p \in Desk, SaveClient(p)
  PROVE  ClientsInv'
<1>1. PICK e : e = errand[p]
  OBVIOUS
<1>2. PICK c : c = e.client
  OBVIOUS
<1>3. PICK row : row = e.row
  OBVIOUS
<1>4. /\ e.op = "save" /\ ErrandHeld(e) /\ e.overtaken \in BOOLEAN
      /\ ~e.overtaken => ReadRight(e)
  BY <1>1, ErrandIsHeld DEF SaveClient
<1>5. /\ c \in Known /\ c \in Client /\ row \in ClientRow /\ client[c] \in ClientRow
  BY <1>2, <1>3, <1>4, ClientAsRow DEF ErrandHeld, ClientsInv
<1>6. /\ client' = [client EXCEPT ![c] = row]
      /\ Blur(p, c) /\ Done(p) /\ UNCHANGED <<account, visit, kept, loose>>
  BY <1>1, <1>2, <1>3 DEF SaveClient
<1>7. ASSUME c \notin blurred' PROVE RowAgrees(c, row)
  <2>1. c \notin blurred /\ ReadRight(e)
    BY <1>1, <1>4, <1>6, <1>7, BlurredByOvertaken
  <2>2. /\ row.user = client[c].user /\ row.companies = client[c].companies
        /\ \/ row.identification = client[c].identification
           \/ IdentificationFree(row.identification, client[c].companies, c)
        /\ \A s \in row.inactive :
             \/ s \in client[c].inactive
             \/ s \in client[c].companies /\ ~HasOpenVisit(c, s)
    BY <1>2, <1>3, <1>4, <2>1 DEF ReadRight
  <2>3. client[c].inactive \subseteq client[c].companies
    BY <1>5, <2>1 DEF ClientsInv, ClientRowsTyped
  <2>4. row.inactive \subseteq row.companies
    BY <2>2, <2>3
  <2>5. \A a \in Account : account'[a] = c => row.user = a
    BY <1>5, <1>6, <2>1, <2>2 DEF ClientsInv, ClientsSound, AccountsHaveTheirProfile
  <2>6. ASSUME c \notin kept', visit'[c] # Unknown, visit'[c].salon \in row.inactive
        PROVE  visit'[c].status \in {"paid", "cancelled"}
    <3>1. CASE visit[c].salon \in client[c].inactive
      BY <1>5, <1>6, <2>1, <2>6, <3>1
      DEF ClientsInv, ClientsSound, RemovedHasNoLiveVisit, Removed
    <3>2. CASE ~HasOpenVisit(c, visit[c].salon)
      BY <1>5, <1>6, <2>6, <3>2
      DEF HasOpenVisit, OPEN_SESSION_STATUSES, ClientsInv, ClientRowsTyped, Visit
    <3>. QED BY <1>6, <2>2, <2>6, <3>1, <3>2
  <2>7. ASSUME NEW d \in Known \ (blurred \cup {c}),
               client[d].identification = row.identification,
               client[d].companies \cap row.companies # {}
        PROVE  row.identification \in loose' \cup {NoId}
    <3>1. CASE row.identification = client[c].identification
      BY <1>5, <1>6, <2>1, <2>2, <2>7, <3>1 DEF ClientsInv, ClientsSound, IdentificationsStayApart
    <3>2. CASE IdentificationFree(row.identification, client[c].companies, c)
      BY <2>2, <2>7, <3>2 DEF IdentificationFree
    <3>. QED BY <2>2, <3>1, <3>2
  <2>. QED BY <2>4, <2>5, <2>6, <2>7 DEF RowAgrees
<1>8. /\ blurred \subseteq blurred' /\ loose \subseteq loose' /\ kept \subseteq kept'
      /\ account' \in [Account -> Client \cup {Pending, Unmade}]
      /\ visit' \in [Client -> {Unknown} \cup Visit]
      /\ \A a \in Account : account'[a] \in {account[a], c}
      /\ \A d \in Client : d # c => visit'[d] = visit[d]
  BY <1>6, BlurredByOvertaken DEF ClientsInv, ClientRowsTyped
<1>9. ClientRowsTyped' /\ KnownStay /\ ClientsSound'
  BY <1>5, <1>6, <1>7, <1>8, OneRowIsWritten
<1>. QED BY <1>6, <1>9, ErrandDone DEF ClientsInv

LEMMA InsertAgrees ==
  ASSUME ClientsInv, NEW p \in Desk, InsertClient(p)
  PROVE  ClientsInv'
<1>1. PICK e : e = errand[p]
  OBVIOUS
<1>2. /\ e.op = "insert" /\ ErrandHeld(e) /\ e.overtaken \in BOOLEAN
      /\ ~e.overtaken => ReadRight(e)
      /\ Done(p) /\ UNCHANGED <<visit, loose, kept>>
  BY <1>1, ErrandIsHeld DEF InsertClient
<1>3. /\ e.salon \in Salon /\ e.identification \in Identifications
      /\ e.user \in Account \cup {NoAccount}
      /\ ~e.overtaken => IdentificationFree(e.identification, {e.salon}, 0)
  BY <1>2 DEF ErrandHeld, ReadRight
<1>4. CASE UNCHANGED <<client, account, blurred>>
  <2>1. ClientRowsTyped' /\ KnownStay
    BY <1>2, <1>4 DEF ClientsInv, ClientRowsTyped, Known, KnownStay
  <2>2. ClientsSound'
    BY <1>2, <1>4 DEF ClientsInv, ClientsSound, AccountsHaveTheirProfile, RemovedHasNoLiveVisit,
       IdentificationsStayApart, Known, Removed
  <2>. QED BY <1>2, <2>1, <2>2, ErrandDone DEF ClientsInv
<1>5. ASSUME NEW c \in NextId,
             client' = [client EXCEPT ![c] = Profile(e.identification, {e.salon}, e.user)],
             account' = IF e.user = NoAccount THEN account ELSE [account EXCEPT ![e.user] = c],
             Blur(p, c)
      PROVE  ClientsInv'
  <2>1. PICK row : row = Profile(e.identification, {e.salon}, e.user)
    OBVIOUS
  <2>2. /\ row \in ClientRow /\ row.identification = e.identification /\ row.inactive = {}
        /\ row.companies = {e.salon} /\ row.user = e.user
    BY <1>3, <2>1 DEF Profile, ClientRow
  <2>3. c \in Client /\ c \notin Known /\ visit[c] = Unknown /\ 0 \notin Client
        /\ \A a \in Account : account[a] # c
    BY <1>5 DEF NextId, Client, ClientsInv, ClientRowsTyped
  <2>4. /\ account' \in [Account -> Client \cup {Pending, Unmade}]
        /\ \A a \in Account : account'[a] \in {account[a], c}
        /\ \A a \in Account : account'[a] = c => a = e.user
    BY <1>3, <1>5, <2>3, AccountAssumption DEF ClientsInv, ClientRowsTyped
  <2>5. ASSUME c \notin blurred' PROVE RowAgrees(c, row)
    <3>1. IdentificationFree(e.identification, {e.salon}, 0)
      BY <1>1, <1>3, <1>5, <1>2, <2>5, BlurredByOvertaken
    <3>2. \A d \in Known \ (blurred \cup {c}) :
            /\ client[d].identification = row.identification
            /\ client[d].companies \cap row.companies # {}
            => row.identification \in loose' \cup {NoId}
      <4>1. \A d \in Known : d \in Known \ {0}
        BY <2>3 DEF Known
      <4>. QED BY <2>2, <3>1, <4>1 DEF IdentificationFree
    <3>3. visit'[c] = Unknown
      BY <1>2, <2>3
    <3>. QED BY <2>2, <2>4, <3>2, <3>3 DEF RowAgrees
  <2>6. /\ blurred \subseteq blurred' /\ loose \subseteq loose' /\ kept \subseteq kept'
        /\ visit' \in [Client -> {Unknown} \cup Visit]
        /\ \A d \in Client : d # c => visit'[d] = visit[d]
    BY <1>2, <1>5, BlurredByOvertaken DEF ClientsInv, ClientRowsTyped
  <2>7. ClientRowsTyped' /\ KnownStay /\ ClientsSound'
    BY <1>5, <2>1, <2>2, <2>3, <2>4, <2>5, <2>6, OneRowIsWritten
  <2>. QED BY <1>2, <2>7, ErrandDone DEF ClientsInv
<1>. QED BY <1>1, <1>4, <1>5 DEF InsertClient

LEMMA GrantAgreesWithProfile ==
  ASSUME ClientsInv, NEW p \in Desk, NEW a \in Account, GrantAccess(p, a)
  PROVE  ClientsInv'
<1>1. PICK c : c = errand[p].client
  OBVIOUS
<1>2. ErrandHeld(errand[p]) /\ errand[p].op = "grant"
  BY ErrandIsHeld DEF GrantAccess
<1>3. /\ c \in Known /\ c \in Client /\ client[c] \in ClientRow
      /\ Done(p) /\ UNCHANGED <<visit, blurred, loose, kept>>
      /\ CreateAccountForProfile(c, a)
  BY <1>1, <1>2, ClientAsRow DEF GrantAccess, ErrandHeld, ClientsInv
<1>4. CASE client[c].user = NoAccount
  <2>1. account' = [account EXCEPT ![a] = c] /\ client' = [client EXCEPT ![c].user = a]
    BY <1>3, <1>4 DEF CreateAccountForProfile
  <2>2. PICK row : row = [client[c] EXCEPT !.user = a]
    OBVIOUS
  <2>3. /\ row \in ClientRow /\ row.identification = client[c].identification
        /\ row.inactive = client[c].inactive
        /\ row.companies = client[c].companies /\ row.user = a
    BY <1>3, <2>2 DEF ClientRow
  <2>4. client' = [client EXCEPT ![c] = row]
    BY <2>1, <2>2
  <2>5. /\ account' \in [Account -> Client \cup {Pending, Unmade}]
        /\ \A b \in Account : account'[b] \in {account[b], c}
        /\ \A b \in Account : account'[b] = c => b = a \/ account[b] = c
    BY <1>3, <2>1 DEF ClientsInv, ClientRowsTyped
  <2>6. ASSUME c \notin blurred' PROVE RowAgrees(c, row)
    <3>1. \A b \in Account : account'[b] = c => row.user = b
      BY <1>3, <1>4, <2>3, <2>5, <2>6, AccountAssumption
      DEF ClientsInv, ClientsSound, AccountsHaveTheirProfile
    <3>2. row.inactive \subseteq row.companies
      BY <1>3, <2>3, <2>6 DEF ClientsInv, ClientRowsTyped
    <3>3. c \notin kept' /\ visit'[c] # Unknown /\ visit'[c].salon \in row.inactive
          => visit'[c].status \in {"paid", "cancelled"}
      BY <1>3, <2>3, <2>6 DEF ClientsInv, ClientsSound, RemovedHasNoLiveVisit, Removed
    <3>4. ASSUME NEW d \in Known \ (blurred \cup {c}),
                 client[d].identification = row.identification,
                 client[d].companies \cap row.companies # {}
          PROVE  row.identification \in loose' \cup {NoId}
      BY <1>3, <2>3, <2>6, <3>4 DEF ClientsInv, ClientsSound, IdentificationsStayApart
    <3>. QED BY <3>1, <3>2, <3>3, <3>4 DEF RowAgrees
  <2>7. /\ blurred \subseteq blurred' /\ loose \subseteq loose' /\ kept \subseteq kept'
        /\ visit' \in [Client -> {Unknown} \cup Visit]
        /\ \A d \in Client : d # c => visit'[d] = visit[d]
    BY <1>3 DEF ClientsInv, ClientRowsTyped
  <2>8. ClientRowsTyped' /\ KnownStay /\ ClientsSound'
    BY <1>3, <2>3, <2>4, <2>5, <2>6, <2>7, OneRowIsWritten
  <2>. QED BY <1>3, <2>8, ErrandDone DEF ClientsInv
<1>5. CASE client[c].user # NoAccount
  <2>1. UNCHANGED <<client, account, visit, blurred, loose, kept>>
    BY <1>3, <1>5 DEF CreateAccountForProfile
  <2>2. ClientRowsTyped' /\ KnownStay
    BY <2>1 DEF ClientsInv, ClientRowsTyped, Known, KnownStay
  <2>3. ClientsSound'
    BY <2>1 DEF ClientsInv, ClientsSound, AccountsHaveTheirProfile, RemovedHasNoLiveVisit,
       IdentificationsStayApart, Known, Removed
  <2>. QED BY <1>3, <2>2, <2>3, ErrandDone DEF ClientsInv
<1>. QED BY <1>4, <1>5

LEMMA UserSavedAgrees ==
  ASSUME ClientsInv, NEW p \in Desk, SaveUser(p)
  PROVE  ClientsInv'
<1>1. PICK e : e = errand[p]
  OBVIOUS
<1>2. PICK x : x = [e EXCEPT !.op = "insert"]
  OBVIOUS
<1>3. /\ e.op = "account" /\ ErrandHeld(e) /\ e.overtaken \in BOOLEAN
      /\ ~e.overtaken => ReadRight(e)
      /\ account' = [account EXCEPT ![e.user] = Pending]
      /\ errand' = [Overtake(p) EXCEPT ![p].op = "insert"]
      /\ UNCHANGED <<client, visit, blurred, loose, kept>>
  BY <1>1, ErrandIsHeld DEF SaveUser
<1>4. Overtake(p)[p] = e /\ errand' = [Overtake(p) EXCEPT ![p] = x]
  BY <1>1, <1>2, <1>3 DEF Overtake
<1>5. /\ x.op = "insert" /\ DOMAIN x = DOMAIN e /\ x.overtaken = e.overtaken
      /\ x.salon = e.salon /\ x.identification = e.identification /\ x.user = e.user
  BY <1>2, <1>3 DEF ErrandHeld
<1>6. KnownStay /\ Known' = Known
  BY <1>3 DEF Known, KnownStay
<1>7. ErrandHeld(x)'
  BY <1>3, <1>5 DEF ErrandHeld
<1>8. x.overtaken \/ ReadRight(x)'
  BY <1>3, <1>5, <1>6 DEF ReadRight, IdentificationFree
<1>9. 0 \notin Client
  BY DEF Client
<1>10. ClientRowsTyped'
  BY <1>3, <1>6, <1>9 DEF ClientsInv, ClientRowsTyped, Pending
<1>11. ClientsSound'
  <2>1. AccountsHaveTheirProfile'
    BY <1>3, <1>9 DEF ClientsInv, ClientRowsTyped, ClientsSound, AccountsHaveTheirProfile, Pending
  <2>2. RemovedHasNoLiveVisit' /\ IdentificationsStayApart'
    BY <1>3 DEF ClientsInv, ClientsSound, RemovedHasNoLiveVisit, IdentificationsStayApart, Known,
       Removed
  <2>. QED BY <2>1, <2>2 DEF ClientsSound
<1>12. ErrandsTyped' /\ ErrandsReadRight'
  BY <1>4, <1>6, <1>7, <1>8, ErrandEnds DEF ClientsInv
<1>. QED BY <1>10, <1>11, <1>12 DEF ClientsInv

LEMMA VisitIsMade ==
  ASSUME ClientsInv, NEW p \in Desk, CreateVisit(p)
  PROVE  ClientsInv'
<1>1. PICK e : e = errand[p]
  OBVIOUS
<1>2. PICK c : c = e.client
  OBVIOUS
<1>3. PICK row : row = IF e.salon \notin e.row.companies
                       THEN [client[c] EXCEPT !.companies = e.row.companies \cup {e.salon}]
                       ELSE client[c]
  OBVIOUS
<1>4. /\ e.op = "book" /\ ErrandHeld(e) /\ e.overtaken \in BOOLEAN
      /\ ~e.overtaken => ReadRight(e)
      /\ Blur(p, c) /\ Done(p) /\ account' = account
      /\ visit' = [visit EXCEPT ![c] = [salon |-> e.salon, status |-> "scheduled"]]
      /\ client' = IF e.salon \notin e.row.companies
                   THEN [client EXCEPT ![c].companies = e.row.companies \cup {e.salon}]
                   ELSE client
      /\ loose' = IF e.salon \notin e.row.companies
                  THEN loose \cup ({client[c].identification} \ {NoId}) ELSE loose
      /\ kept' = IF e.bySalon /\ Removed(c, e.salon) THEN kept \cup {c} ELSE kept
  BY <1>1, <1>2, ErrandIsHeld DEF CreateVisit
<1>5. /\ c \in Known /\ c \in Client /\ client[c] \in ClientRow /\ e.salon \in Salon
      /\ e.row \in ClientRow
  BY <1>2, <1>4, ClientAsRow DEF ErrandHeld, ClientsInv
<1>6. /\ row \in ClientRow /\ row.identification = client[c].identification
      /\ row.inactive = client[c].inactive /\ row.user = client[c].user
      /\ row.companies = IF e.salon \notin e.row.companies THEN e.row.companies \cup {e.salon}
                         ELSE client[c].companies
  BY <1>3, <1>5 DEF ClientRow
<1>7. client' = [client EXCEPT ![c] = row]
  BY <1>3, <1>4, <1>5 DEF ClientsInv, ClientRowsTyped
<1>8. PICK v : v = [salon |-> e.salon, status |-> "scheduled"]
  OBVIOUS
<1>9. v \in Visit /\ v.salon = e.salon /\ v.status = "scheduled"
  BY <1>5, <1>8 DEF Visit
<1>10. /\ visit' \in [Client -> {Unknown} \cup Visit] /\ visit'[c] = v
       /\ \A d \in Client : d # c => visit'[d] = visit[d]
  BY <1>4, <1>5, <1>8, <1>9 DEF ClientsInv, ClientRowsTyped
<1>11. ASSUME c \notin blurred' PROVE RowAgrees(c, row)
  <2>1. c \notin blurred /\ ReadRight(e)
    BY <1>1, <1>4, <1>11, BlurredByOvertaken
  <2>2. e.row = client[c] /\ (e.bySalon \/ ~Removed(c, e.salon))
    BY <1>2, <1>4, <2>1 DEF ReadRight
  <2>3. client[c].inactive \subseteq client[c].companies
        /\ client[c].companies \subseteq row.companies
    BY <1>5, <1>6, <2>1, <2>2 DEF ClientsInv, ClientRowsTyped
  <2>4. \A a \in Account : account'[a] = c => row.user = a
    BY <1>4, <1>5, <1>6, <2>1 DEF ClientsInv, ClientsSound, AccountsHaveTheirProfile
  <2>5. c \in kept' \/ e.salon \notin row.inactive
    BY <1>4, <1>6, <2>2 DEF Removed
  <2>6. ASSUME NEW d \in Known \ (blurred \cup {c}),
               client[d].identification = row.identification,
               client[d].companies \cap row.companies # {}
        PROVE  row.identification \in loose' \cup {NoId}
    <3>1. CASE e.salon \notin e.row.companies
      BY <1>4, <1>6, <3>1
    <3>2. CASE e.salon \in e.row.companies
      BY <1>4, <1>5, <1>6, <2>1, <2>2, <2>6, <3>2
      DEF ClientsInv, ClientsSound, IdentificationsStayApart
    <3>. QED BY <3>1, <3>2
  <2>7. row.inactive \subseteq row.companies
    BY <1>6, <2>3
  <2>. QED BY <1>9, <1>10, <2>4, <2>5, <2>6, <2>7 DEF RowAgrees
<1>12. /\ blurred \subseteq blurred' /\ loose \subseteq loose' /\ kept \subseteq kept'
       /\ account' \in [Account -> Client \cup {Pending, Unmade}]
       /\ \A a \in Account : account'[a] \in {account[a], c}
  BY <1>4, BlurredByOvertaken DEF ClientsInv, ClientRowsTyped
<1>13. ClientRowsTyped' /\ KnownStay /\ ClientsSound'
  BY <1>5, <1>6, <1>7, <1>10, <1>11, <1>12, OneRowIsWritten
<1>. QED BY <1>4, <1>13, ErrandDone DEF ClientsInv

LEMMA VisitGoesOn ==
  ASSUME ClientsInv, NEW c \in Client,
         CompleteVisit(c) \/ PayVisit(c) \/ CancelVisit(c) \/ ReopenVisit(c) \/ UndoCharge(c)
  PROVE  ClientsInv'
<1>1. ASSUME NEW from, NEW to \in {"scheduled", "completed", "paid", "cancelled"},
             VisitGoes(c, from, to), kept \subseteq kept',
             \/ to \in {"paid", "cancelled"} \/ from = "scheduled" \/ c \in kept'
             \/ ~Removed(c, visit[c].salon)
             \/ visit[c].status = "scheduled"
      PROVE  ClientsInv'
  <2>1. /\ visit[c] # Unknown /\ visit[c] \in Visit /\ c \in Known /\ client[c] \in ClientRow
        /\ visit[c].status = from /\ visit' = [visit EXCEPT ![c].status = to]
        /\ UNCHANGED <<client, account, blurred, loose>>
    BY <1>1, ClientAsRow DEF VisitGoes, ClientsInv, ClientRowsTyped
  <2>2. PICK v : v = [visit[c] EXCEPT !.status = to]
    OBVIOUS
  <2>3. v \in Visit /\ v.salon = visit[c].salon /\ v.status = to
    BY <1>1, <2>1, <2>2 DEF Visit
  <2>4. /\ visit' \in [Client -> {Unknown} \cup Visit] /\ visit'[c] = v
        /\ \A d \in Client : d # c => visit'[d] = visit[d]
    BY <2>1, <2>2, <2>3 DEF ClientsInv, ClientRowsTyped
  <2>5. PICK row : row = client[c]
    OBVIOUS
  <2>6. row \in ClientRow /\ client' = [client EXCEPT ![c] = row]
    BY <2>1, <2>5 DEF ClientsInv, ClientRowsTyped
  <2>7. ASSUME c \notin blurred' PROVE RowAgrees(c, row)
    <3>1. c \notin blurred
      BY <2>1, <2>7
    <3>2. row.inactive \subseteq row.companies
      BY <2>1, <2>5, <3>1 DEF ClientsInv, ClientRowsTyped
    <3>3. \A a \in Account : account'[a] = c => row.user = a
      BY <2>1, <2>5, <3>1 DEF ClientsInv, ClientsSound, AccountsHaveTheirProfile
    <3>4. ASSUME c \notin kept', v.salon \in row.inactive
          PROVE  v.status \in {"paid", "cancelled"}
      <4>1. visit[c].status \in {"paid", "cancelled"} /\ Removed(c, visit[c].salon)
        BY <1>1, <2>1, <2>3, <2>5, <3>1, <3>4
        DEF ClientsInv, ClientsSound, RemovedHasNoLiveVisit, Removed
      <4>. QED BY <1>1, <2>1, <2>3, <3>4, <4>1
    <3>5. \A d \in Known \ (blurred \cup {c}) :
            /\ client[d].identification = row.identification
            /\ client[d].companies \cap row.companies # {}
            => row.identification \in loose' \cup {NoId}
      BY <2>1, <2>5, <3>1 DEF ClientsInv, ClientsSound, IdentificationsStayApart
    <3>. QED BY <2>4, <3>2, <3>3, <3>4, <3>5 DEF RowAgrees
  <2>8. /\ blurred \subseteq blurred' /\ loose \subseteq loose'
        /\ account' \in [Account -> Client \cup {Pending, Unmade}]
        /\ \A a \in Account : account'[a] \in {account[a], c}
    BY <2>1 DEF ClientsInv, ClientRowsTyped
  <2>9. ClientRowsTyped' /\ KnownStay /\ ClientsSound'
    BY <1>1, <2>4, <2>6, <2>7, <2>8, OneRowIsWritten
  <2>10. errand' = [q \in Desk |-> errand'[q]] /\ \A q \in Desk : Outrun(q)
    BY <1>1 DEF VisitGoes, Outrun
  <2>11. ErrandsTyped' /\ ErrandsReadRight'
    BY <2>9, <2>10, ErrandsGoOn DEF ClientsInv
  <2>. QED BY <2>9, <2>11 DEF ClientsInv
<1>2. CASE CompleteVisit(c)
  BY <1>1, <1>2 DEF CompleteVisit
<1>3. CASE PayVisit(c)
  BY <1>1, <1>3 DEF PayVisit
<1>4. CASE CancelVisit(c)
  BY <1>1, <1>4 DEF CancelVisit
<1>5. CASE ReopenVisit(c)
  <2>1. ~Removed(c, visit[c].salon)
    BY <1>5 DEF ReopenVisit, VisitGoes
  <2>. QED BY <1>1, <1>5, <2>1 DEF ReopenVisit
<1>6. CASE UndoCharge(c)
  <2>1. VisitGoes(c, "paid", "completed") /\ kept \subseteq kept'
        /\ (c \in kept' \/ ~Removed(c, visit[c].salon))
    BY <1>6 DEF UndoCharge
  <2>. QED BY <1>1, <2>1
<1>. QED BY <1>2, <1>3, <1>4, <1>5, <1>6

\* A registration found the row that it writes, but for an overtaken one.
LEMMA LinkListsTheClient ==
  ASSUME ClientsInv, NEW p \in Desk, LinkClient(p), ~errand[p].overtaken,
         errand[p].client \notin blurred
  PROVE  /\ errand[p].salon \in client'[errand[p].client].companies
         /\ errand[p].salon \notin client'[errand[p].client].inactive
<1>1. PICK e : e = errand[p]
  OBVIOUS
<1>2. /\ e.op = "link" /\ ErrandHeld(e) /\ ReadRight(e)
      /\ client' = [client EXCEPT ![e.client] = Link(e)]
  BY <1>1, ErrandIsHeld DEF LinkClient
<1>3. /\ e.client \in Known /\ e.client \in Client /\ client[e.client] \in ClientRow
      /\ e.row = client[e.client] /\ e.client \notin blurred
      /\ client[e.client].inactive \subseteq client[e.client].companies
  BY <1>1, <1>2, ClientAsRow DEF ErrandHeld, ReadRight, ClientsInv, ClientRowsTyped
<1>4. client'[e.client] = Link(e)
  BY <1>2, <1>3 DEF ClientsInv, ClientRowsTyped
<1>5. e.salon \in Link(e).companies /\ e.salon \notin Link(e).inactive
  BY <1>3 DEF Link, ClientRow
<1>. QED BY <1>1, <1>4, <1>5

\* However registrations, removals, edits, accounts and appointments of the clients
\* of any number of salons interleave, and whichever request dies, the list of a
\* salon, the profiles, the accounts and the appointments agree after every step,
\* but for the clients an overtaken request wrote, and a registration leaves the
\* client in the list (client.service.ts, auth.service.ts).
THEOREM TheClientsAgree == ClientsSpec => ClientsAgree
<1>1. ClientsInit => ClientsInv
  BY DEF ClientsInit, ClientsInv, ClientRowsTyped, ErrandsTyped, ErrandsReadRight, ClientsSound,
     AccountsHaveTheirProfile, RemovedHasNoLiveVisit, IdentificationsStayApart, Known, Client,
     Pending, Unmade
<1>2. ClientsInv /\ [ClientsNext]_clientVars => ClientsInv'
  <2>. SUFFICES ASSUME ClientsInv, [ClientsNext]_clientVars PROVE ClientsInv'
    OBVIOUS
  <2>1. ASSUME NEW p \in Desk, Writes(p) PROVE ClientsInv'
    BY <2>1, ErrandsBegin, LinkAgreesWithClient, ClientSavedAgrees, InsertAgrees, VisitIsMade,
       GrantAgreesWithProfile, UserSavedAgrees DEF Writes
  <2>2. CASE ClientsNext
    BY <2>1, <2>2, ErrandsBegin, VisitGoesOn DEF ClientsNext
  <2>3. CASE UNCHANGED clientVars
    <3>1. UNCHANGED <<client, account, visit, errand, blurred, loose, kept>>
      BY <2>3 DEF clientVars
    <3>2. ClientRowsTyped' /\ ErrandsTyped'
      BY <3>1 DEF ClientsInv, ClientRowsTyped, ErrandsTyped, ErrandHeld, Known
    <3>3. ErrandsReadRight'
      BY <3>1 DEF ClientsInv, ErrandsReadRight, ReadRight, IdentificationFree, HasOpenVisit,
         Removed, Known
    <3>4. ClientsSound'
      BY <3>1 DEF ClientsInv, ClientsSound, AccountsHaveTheirProfile, RemovedHasNoLiveVisit,
         IdentificationsStayApart, Known, Removed
    <3>. QED BY <3>2, <3>3, <3>4 DEF ClientsInv
  <2>. QED BY <2>2, <2>3
<1>3. ClientsInv => /\ ClientsTypeOK /\ AccountsHaveTheirProfile
                    /\ RemovedHasNoLiveVisit /\ IdentificationsStayApart
  <2>. SUFFICES ASSUME ClientsInv PROVE ClientsTypeOK
    BY DEF ClientsInv, ClientsSound
  <2>1. ASSUME NEW p \in Desk
        PROVE  errand[p].op \in {"rest", "link", "insert", "account", "grant", "save", "book"}
    BY ClientRowsAreThere DEF ClientsInv, ErrandsTyped, ErrandHeld
  <2>. QED BY <2>1 DEF ClientsInv, ClientRowsTyped, ClientsTypeOK, Visit
<1>4. ClientsInv /\ [ClientsNext]_clientVars
      => [\A p \in Desk :
            LET e == errand[p] IN
            e.op = "link" /\ LinkClient(p) /\ ~e.overtaken /\ e.client \notin blurred
            => /\ e.salon \in client'[e.client].companies
               /\ e.salon \notin client'[e.client].inactive]_clientVars
  BY LinkListsTheClient
<1>. QED BY <1>1, <1>2, <1>3, <1>4, PTL DEF ClientsSpec, ClientsAgree, RegisteredIsListed

--------------------------------------------------------------------------
(* Onboarding *)

BoardRow == [global : {"in_progress", "completed", "skipped"},
             steps : [Step -> StepStatus], sealed : BOOLEAN]
NextUp == {"end", "skip", "book"}
Findings == Seq(Step \X StepStatus)
Kept == Step \ {"configure_payroll"}

\* A row says what CompletedIsEarned asks of it.
Earned(row) ==
  /\ row.global = "completed" => \A k \in Kept : row.steps[k] = "completed"
  /\ row.sealed = (row.steps["first_charge"] = "completed")

\* Nothing completed is lost from one row to the next, nor is the onboarding reopened.
Grows(row, next) ==
  /\ \A k \in Kept : row.steps[k] = "completed" => next.steps[k] = "completed"
  /\ row.global # "in_progress" => next.global # "in_progress"

\* The first appointment is there for good.
Witnessed(row) ==
  row.steps["first_appointment"] = "completed" => fact["first_appointment"] = "completed"
FoundTruly(found) ==
  \A n \in DOMAIN found :
    found[n] = <<"first_appointment", "completed">> => fact["first_appointment"] = "completed"

OnboardingPast == board # NoBoard /\ board.global # "in_progress"
MayBook ==
  configured \/ fact["first_appointment"] = "completed" \/ OnboardingPast \/ outdone

\* What a request is about to do, for as long as it is.
TaskHeld(t) ==
  /\ "pc" \in DOMAIN t
  /\ t.pc \in {"resting", "evaluate", "apply", "insert", "get", "create", "save", "payroll",
               "book", "claim", "send", "release"}
  /\ t.pc = "evaluate" =>
       /\ t \in [pc : {"evaluate"}, left : Seq(Step), found : Findings, after : NextUp]
       /\ t.left # <<>>
  /\ t.pc \in {"apply", "insert"} =>
       t \in [pc : {"apply", "insert"}, found : Findings, after : NextUp]
  /\ t.pc \in {"get", "create"} => t \in [pc : {"get", "create"}, after : NextUp]
  /\ t.pc = "save" => t \in [pc : {"save"}, read : BoardRow, row : BoardRow, after : NextUp]

TaskSound(t) ==
  /\ t.pc \in {"evaluate", "apply", "insert"} => FoundTruly(t.found)
  /\ t.pc = "save" => Earned(t.row) /\ Grows(t.read, t.row) /\ Witnessed(t.row)
  /\ t.pc = "book" => MayBook

TasksSound ==
  /\ task = [p \in Clerk |-> task[p]]
  /\ \A p \in Clerk : TaskHeld(task[p]) /\ TaskSound(task[p])

BoardSound ==
  /\ fact \in [Step -> StepStatus] /\ configured \in BOOLEAN
  /\ fact["configure_payroll"] = "completed" => configured
  /\ board # NoBoard => board \in BoardRow /\ Earned(board) /\ Witnessed(board)
  /\ PayrollComesFirst

Holds(t) == t.pc \in {"send", "release"}

NoticesSound ==
  /\ sent \subseteq claimed /\ NoticeGoesOnce /\ ClaimIsSent
  /\ \A p \in Clerk : Holds(task[p]) => Notice(task[p]) \in claimed \ sent
  /\ \A p, q \in Clerk :
       p # q /\ Holds(task[p]) /\ Holds(task[q]) => Notice(task[p]) # Notice(task[q])

OnboardingInv == BoardSound /\ TasksSound /\ NoticesSound

LEMMA TheSteps ==
  /\ Step = {"confirm_services", "configure_payroll", "first_appointment", "first_charge"}
  /\ ONBOARDING_STEP_KEYS \in Seq(Step) /\ ONBOARDING_STEP_KEYS # <<>>
<1>1. DOMAIN ONBOARDING_STEP_KEYS = {1, 2, 3, 4}
  BY DEF ONBOARDING_STEP_KEYS
<1>2. Step = {"confirm_services", "configure_payroll", "first_appointment", "first_charge"}
  BY <1>1 DEF Step, ONBOARDING_STEP_KEYS
<1>. QED BY <1>2 DEF ONBOARDING_STEP_KEYS

LEMMA TheBoards ==
  /\ InitialBoard \in BoardRow /\ Earned(InitialBoard) /\ Witnessed(InitialBoard)
  /\ InitialBoard.global = "in_progress" /\ InitialBoard # NoBoard
  /\ \A k \in Step : InitialBoard.steps[k] = "pending"
  /\ \A row \in BoardRow : row # NoBoard
<1>1. PICK steps : steps = [k \in Step |-> "pending"]
  OBVIOUS
<1>2. steps \in [Step -> StepStatus] /\ \A k \in Step : steps[k] = "pending"
  BY <1>1 DEF StepStatus
<1>3. InitialBoard = [global |-> "in_progress", steps |-> steps, sealed |-> FALSE]
  BY <1>1 DEF InitialBoard
<1>4. /\ InitialBoard \in BoardRow /\ InitialBoard.global = "in_progress"
      /\ InitialBoard.steps = steps /\ InitialBoard.sealed = FALSE
  BY <1>2, <1>3 DEF BoardRow
<1>5. Earned(InitialBoard) /\ Witnessed(InitialBoard)
  BY <1>2, <1>4, TheSteps DEF Earned, Witnessed
<1>6. \A row \in BoardRow : row # NoBoard
  BY DEF BoardRow, NoBoard
<1>. QED BY <1>2, <1>4, <1>5, <1>6

LEMMA NewTasks ==
  ASSUME NEW after \in NextUp
  PROVE  /\ \A t : t = Resting => TaskHeld(t) /\ TaskSound(t) /\ t.pc = "resting"
         /\ \A t : t = GetOrCreateState(after) => TaskHeld(t) /\ TaskSound(t) /\ t.pc = "get"
         /\ \A t, keys : keys \in Seq(Step) /\ keys # <<>> /\ t = Recompute(keys, after)
                         => TaskHeld(t) /\ TaskSound(t) /\ t.pc = "evaluate"
<1>1. \A t : t = Resting => TaskHeld(t) /\ TaskSound(t) /\ t.pc = "resting"
  BY DEF Resting, TaskHeld, TaskSound
<1>2. \A t : t = GetOrCreateState(after) => TaskHeld(t) /\ TaskSound(t) /\ t.pc = "get"
  BY DEF GetOrCreateState, TaskHeld, TaskSound
<1>3. ASSUME NEW t, NEW keys \in Seq(Step), keys # <<>>, t = Recompute(keys, after)
      PROVE  TaskHeld(t) /\ TaskSound(t) /\ t.pc = "evaluate"
  <2>1. /\ t = [pc |-> "evaluate", left |-> keys, found |-> <<>>, after |-> after]
        /\ <<>> \in Findings
    BY <1>3 DEF Recompute, Findings
  <2>2. t.pc = "evaluate" /\ t.left = keys /\ t.found = <<>> /\ "pc" \in DOMAIN t
        /\ t \in [pc : {"evaluate"}, left : Seq(Step), found : Findings, after : NextUp]
    BY <2>1
  <2>3. FoundTruly(t.found)
    BY <2>2 DEF FoundTruly
  <2>. QED BY <1>3, <2>2, <2>3 DEF TaskHeld, TaskSound
<1>. QED BY <1>1, <1>2, <1>3

-----------------------------------------------------------------------------
\* The row with what was found is one the row may become.
LEMMA EvaluationsApply ==
  ASSUME NEW row \in BoardRow, Earned(row), Witnessed(row),
         NEW found \in Findings, FoundTruly(found),
         NEW next, next = ApplyEvaluations(row, found)
  PROVE  next \in BoardRow /\ Earned(next) /\ Witnessed(next) /\ Grows(row, next)
<1>1. ASSUME NEW k \in Found(found)
      PROVE  /\ Value(found, k) \in StepStatus
             /\ k = "first_appointment" /\ Value(found, k) = "completed"
                => fact["first_appointment"] = "completed"
  <2>1. PICK m : m = CHOOSE n \in DOMAIN found : found[n][1] = k
    OBVIOUS
  <2>2. m \in DOMAIN found /\ found[m][1] = k
    BY <1>1, <2>1 DEF Found
  <2>3. found[m] \in Step \X StepStatus
    BY <2>2 DEF Findings
  <2>4. Value(found, k) = found[m][2]
    BY <2>1 DEF Value
  <2>5. found[m] = <<k, Value(found, k)>>
    BY <2>2, <2>3, <2>4
  <2>. QED BY <2>2, <2>3, <2>4, <2>5 DEF FoundTruly
<1>2. PICK steps : steps = [k \in Step |-> IF k \in Found(found) /\ MayChange(k, row.steps)
                                           THEN Value(found, k) ELSE row.steps[k]]
  OBVIOUS
<1>3. row.steps \in [Step -> StepStatus] /\ row.sealed \in BOOLEAN
      /\ row.global \in {"in_progress", "completed", "skipped"}
  BY DEF BoardRow
<1>4. steps \in [Step -> StepStatus]
  BY <1>1, <1>2, <1>3
<1>5. \A k \in Kept : row.steps[k] = "completed" => steps[k] = "completed"
  BY <1>2 DEF Kept, MayChange
<1>6. steps["first_appointment"] = "completed" => fact["first_appointment"] = "completed"
  BY <1>1, <1>2, TheSteps DEF Witnessed
<1>7. next = [global |-> IF AllCompleted(row, steps, found) THEN "completed" ELSE row.global,
              steps |-> steps,
              sealed |-> row.sealed \/ (/\ steps["first_charge"] = "completed"
                                        /\ row.steps["first_charge"] # "completed")]
  BY <1>2 DEF ApplyEvaluations
<1>8. /\ next.global = IF AllDone(steps) THEN "completed" ELSE row.global
      /\ next.steps = steps
      /\ next.sealed = (row.sealed \/ (/\ steps["first_charge"] = "completed"
                                       /\ row.steps["first_charge"] # "completed"))
  BY <1>7 DEF AllCompleted
<1>9. next.sealed = (steps["first_charge"] = "completed")
  <2>1. "first_charge" \in Kept
    BY TheSteps DEF Kept
  <2>2. row.sealed = (row.steps["first_charge"] = "completed")
    BY DEF Earned
  <2>. QED BY <1>5, <1>8, <2>1, <2>2
<1>10. next.sealed \in BOOLEAN
  BY <1>9
<1>11. next \in BoardRow
  BY <1>3, <1>4, <1>7, <1>10 DEF BoardRow
<1>12. next.global = "completed" => \A k \in Kept : next.steps[k] = "completed"
  BY <1>5, <1>8 DEF Earned, AllDone, Kept
<1>13. Grows(row, next)
  BY <1>5, <1>8 DEF Grows
<1>. QED BY <1>6, <1>8, <1>9, <1>11, <1>12, <1>13 DEF Earned, Witnessed

\* What a request does next with a row that is sound.
Follows(t, row) ==
  /\ TaskHeld(t) /\ ~Holds(t)
  /\ t.pc \in {"resting", "payroll", "book", "save"}
  /\ t.pc = "save" => Earned(t.row) /\ Grows(t.read, t.row) /\ Witnessed(t.row)
  /\ t.pc = "book" => row.global # "in_progress" \/ row.steps["first_appointment"] = "completed"

LEMMA ThenFollows ==
  ASSUME NEW row \in BoardRow, Earned(row), Witnessed(row), NEW after \in NextUp,
         NEW t, t = Then(after, row)
  PROVE  Follows(t, row)
<1>1. CASE t = Resting
  BY <1>1, NewTasks DEF Follows, Holds
<1>2. CASE t = [pc |-> "save", read |-> row, row |-> [row EXCEPT !.global = "skipped"],
                after |-> "end"]
  <2>1. PICK next : next = [row EXCEPT !.global = "skipped"]
    OBVIOUS
  <2>2. /\ next \in BoardRow /\ next.global = "skipped" /\ next.steps = row.steps
        /\ next.sealed = row.sealed
    BY <2>1 DEF BoardRow
  <2>3. Earned(next) /\ Witnessed(next) /\ Grows(row, next)
    BY <2>2 DEF Earned, Witnessed, Grows
  <2>4. /\ t \in [pc : {"save"}, read : BoardRow, row : BoardRow, after : NextUp]
        /\ t.pc = "save" /\ t.read = row /\ t.row = next /\ "pc" \in DOMAIN t
    BY <1>2, <2>1, <2>2 DEF NextUp
  <2>. QED BY <2>3, <2>4 DEF Follows, TaskHeld, Holds
<1>3. CASE t = [pc |-> "book"] /\ (row.global # "in_progress"
                                   \/ row.steps["first_appointment"] = "completed")
  BY <1>3 DEF Follows, TaskHeld, Holds
<1>4. CASE t = [pc |-> "payroll"]
  BY <1>4 DEF Follows, TaskHeld, Holds
<1>. QED BY <1>1, <1>2, <1>3, <1>4 DEF Then, NextUp

LEMMA AppliedFollows ==
  ASSUME NEW row \in BoardRow, Earned(row), Witnessed(row), NEW s,
         s.found \in Findings, FoundTruly(s.found), s.after \in NextUp,
         NEW t, t = Applied(row, s)
  PROVE  Follows(t, row)
<1>1. PICK next : next = ApplyEvaluations(row, s.found)
  OBVIOUS
<1>2. next \in BoardRow /\ Earned(next) /\ Witnessed(next) /\ Grows(row, next)
  BY <1>1, EvaluationsApply
<1>3. CASE next = row
  BY <1>1, <1>3, ThenFollows DEF Applied
<1>4. CASE next # row
  <2>1. t = [pc |-> "save", read |-> row, row |-> next, after |-> s.after]
    BY <1>1, <1>4 DEF Applied
  <2>2. /\ t \in [pc : {"save"}, read : BoardRow, row : BoardRow, after : NextUp]
        /\ t.pc = "save" /\ t.read = row /\ t.row = next /\ "pc" \in DOMAIN t
    BY <1>2, <2>1
  <2>. QED BY <1>2, <2>2 DEF Follows, TaskHeld, Holds
<1>. QED BY <1>3, <1>4

-----------------------------------------------------------------------------
\* What never goes back, unless a row was saved over one that was not read.
ComesToStay ==
  /\ fact["first_appointment"] = "completed" => fact'["first_appointment"] = "completed"
  /\ configured => configured'
  /\ outdone => outdone'
  /\ OnboardingPast => OnboardingPast' \/ outdone'

LEMMA SoundnessStays ==
  ASSUME ComesToStay, NEW t, TaskSound(t)
  PROVE  TaskSound(t)'
<1>1. \A row : Witnessed(row) => Witnessed(row)'
  BY DEF ComesToStay, Witnessed
<1>2. \A found : FoundTruly(found) => FoundTruly(found)'
  BY DEF ComesToStay, FoundTruly
<1>3. MayBook => MayBook'
  BY DEF ComesToStay, MayBook
<1>. QED BY <1>1, <1>2, <1>3 DEF TaskSound, Earned, Grows

LEMMA OneTaskMoves ==
  ASSUME TasksSound, ComesToStay, NEW p \in Clerk, NEW t, Does(p, t), TaskHeld(t), TaskSound(t)'
  PROVE  TasksSound'
<1>1. /\ task' = [q \in Clerk |-> task'[q]] /\ task'[p] = t
      /\ \A q \in Clerk : q # p => task'[q] = task[q]
  BY DEF TasksSound, Does
<1>2. ASSUME NEW q \in Clerk PROVE TaskHeld(task[q])' /\ TaskSound(task[q])'
  <2>1. PICK s : s = task'[q]
    OBVIOUS
  <2>2. TaskHeld(s) /\ TaskSound(s)'
    BY <1>1, <2>1, SoundnessStays DEF TasksSound
  <2>3. TaskHeld(task[q])'
    BY <2>1, <2>2 DEF TaskHeld
  <2>4. TaskSound(task[q])'
    BY <2>1, <2>2 DEF TaskSound
  <2>. QED BY <2>3, <2>4
<1>. QED BY <1>1, <1>2 DEF TasksSound

\* A request that holds no notice before or after leaves them as they are.
LEMMA NoticesStay ==
  ASSUME TasksSound, NoticesSound, NEW p \in Clerk, NEW t, Does(p, t),
         ~Holds(task[p]), ~Holds(t), UNCHANGED noticeVars
  PROVE  NoticesSound'
<1>1. /\ task'[p] = t /\ \A q \in Clerk : q # p => task'[q] = task[q]
      /\ UNCHANGED <<claimed, sent, twice, lost>>
  BY DEF TasksSound, Does, noticeVars
<1>2. \A q \in Clerk : Holds(task'[q]) => Holds(task[q]) /\ task'[q] = task[q]
  BY <1>1
<1>3. \A q \in Clerk : Holds(task[q]) => task'[q] = task[q]
  BY <1>1
<1>4. ClaimIsSent'
  BY <1>1, <1>3 DEF NoticesSound, ClaimIsSent, Holds
<1>5. NoticeGoesOnce' /\ sent' \subseteq claimed'
  BY <1>1 DEF NoticesSound, NoticeGoesOnce
<1>6. \A q \in Clerk : Holds(task[q])' => Notice(task'[q]) \in claimed' \ sent'
  BY <1>1, <1>2 DEF NoticesSound, Holds
<1>7. \A q, r \in Clerk : q # r /\ Holds(task[q])' /\ Holds(task[r])'
        => Notice(task'[q]) # Notice(task'[r])
  BY <1>2 DEF NoticesSound, Holds
<1>. QED BY <1>4, <1>5, <1>6, <1>7 DEF NoticesSound, Notice

LEMMA RequestMoves ==
  ASSUME OnboardingInv, NEW p \in Clerk, NEW t, Does(p, t), TaskHeld(t), TaskSound(t)',
         ~Holds(task[p]), ~Holds(t), UNCHANGED noticeVars, BoardSound', ComesToStay
  PROVE  OnboardingInv'
BY OneTaskMoves, NoticesStay DEF OnboardingInv

LEMMA BoardUntouched ==
  ASSUME BoardSound, UNCHANGED <<fact, configured, board, outdone, early>>
  PROVE  BoardSound' /\ ComesToStay
BY DEF BoardSound, ComesToStay, OnboardingPast, Earned, Witnessed, PayrollComesFirst

LEMMA FollowedIsSound ==
  ASSUME NEW row \in BoardRow, Witnessed(row), board' = row, UNCHANGED fact,
         NEW t, Follows(t, row)
  PROVE  TaskSound(t)'
<1>1. t.pc = "book" => MayBook'
  BY TheBoards DEF Follows, MayBook, OnboardingPast, Witnessed
<1>2. t.pc = "save" => (Earned(t.row) /\ Grows(t.read, t.row) /\ Witnessed(t.row))'
  BY DEF Follows, Earned, Grows, Witnessed
<1>3. t.pc \notin {"evaluate", "apply", "insert"}
  BY DEF Follows
<1>. QED BY <1>1, <1>2, <1>3 DEF TaskSound

\* Requests that begin, with the other tables or without.
LEMMA RequestBegins ==
  ASSUME OnboardingInv, NEW p \in Clerk, NEW t, Takes(p, t), TaskHeld(t), TaskSound(t),
         ~Holds(t), UNCHANGED noticeVars, BoardSound', ComesToStay
  PROVE  OnboardingInv'
BY RequestMoves, SoundnessStays, NewTasks DEF Takes, Resting, Holds

LEMMA OneStepTold ==
  ASSUME OnboardingInv, NEW p \in Clerk, NEW k \in Step, NEW v \in StepStatus,
         fact' = [fact EXCEPT ![k] = v], k = "first_appointment" => v = "completed",
         k = "configure_payroll" /\ v = "completed" => configured',
         configured' \in BOOLEAN, configured => configured',
         UNCHANGED <<board, outdone, early>>
  PROVE  BoardSound' /\ ComesToStay
<1>1. /\ fact' \in [Step -> StepStatus]
      /\ fact'["configure_payroll"] = "completed" => configured'
      /\ fact["first_appointment"] = "completed" => fact'["first_appointment"] = "completed"
  BY TheSteps DEF OnboardingInv, BoardSound
<1>. QED BY <1>1 DEF OnboardingInv, BoardSound, ComesToStay, OnboardingPast, Earned, Witnessed,
                     PayrollComesFirst

LEMMA StepsTold ==
  ASSUME OnboardingInv, NEW p \in Clerk, NEW v \in StepStatus,
         ConfirmServices(p, v) \/ ConfigurePayroll(p, v) \/ FirstCharge(p)
  PROVE  OnboardingInv'
<1>1. ASSUME NEW k \in Step, NEW t, t = Recompute(<<k>>, "end"), Takes(p, t),
             UNCHANGED noticeVars, BoardSound', ComesToStay
      PROVE  OnboardingInv'
  <2>1. <<k>> \in Seq(Step) /\ <<k>> # <<>> /\ "end" \in NextUp
    BY DEF NextUp
  <2>2. TaskHeld(t) /\ TaskSound(t) /\ t.pc = "evaluate"
    BY <1>1, <2>1, NewTasks
  <2>. QED BY <1>1, <2>2, RequestBegins DEF Holds
<1>2. CASE ConfirmServices(p, v)
  BY <1>1, <1>2, OneStepTold, TheSteps DEF ConfirmServices, boardVars, OnboardingInv, BoardSound
<1>3. CASE ConfigurePayroll(p, v)
  BY <1>1, <1>3, OneStepTold, TheSteps DEF ConfigurePayroll, boardVars, OnboardingInv, BoardSound
<1>4. CASE FirstCharge(p)
  BY <1>1, <1>4, OneStepTold, TheSteps
  DEF FirstCharge, boardVars, OnboardingInv, BoardSound, StepStatus
<1>. QED BY <1>2, <1>3, <1>4

LEMMA StateAsked ==
  ASSUME OnboardingInv, NEW p \in Clerk, RecomputeAll(p) \/ GetState(p) \/ Skip(p) \/ SalonBooks(p)
  PROVE  OnboardingInv'
<1>1. BoardSound' /\ ComesToStay /\ UNCHANGED noticeVars
  BY BoardUntouched
  DEF OnboardingInv, RecomputeAll, GetState, Skip, SalonBooks, factVars, boardVars
<1>2. ASSUME NEW t, NEW after \in NextUp, Takes(p, t),
             t = GetOrCreateState(after) \/ t = Recompute(ONBOARDING_STEP_KEYS, after)
      PROVE  OnboardingInv'
  <2>1. TaskHeld(t) /\ TaskSound(t) /\ t.pc \in {"get", "evaluate"}
    BY <1>2, NewTasks, TheSteps
  <2>. QED BY <1>1, <1>2, <2>1, RequestBegins DEF Holds
<1>. QED BY <1>2 DEF RecomputeAll, GetState, Skip, SalonBooks, NextUp

LEMMA StepEvaluated ==
  ASSUME OnboardingInv, NEW p \in Clerk, EvaluateStep(p)
  PROVE  OnboardingInv'
<1>1. PICK t : t = task[p]
  OBVIOUS
<1>2. PICK k : k = Head(t.left)
  OBVIOUS
<1>3. PICK found : found = Append(t.found, <<k, fact[k]>>)
  OBVIOUS
<1>4. /\ t \in [pc : {"evaluate"}, left : Seq(Step), found : Findings, after : NextUp]
      /\ t.left # <<>> /\ t.pc = "evaluate" /\ FoundTruly(t.found)
  BY <1>1 DEF EvaluateStep, In, OnboardingInv, TasksSound, TaskHeld, TaskSound
<1>5. k \in Step /\ Tail(t.left) \in Seq(Step) /\ t.found \in Findings /\ t.after \in NextUp
  BY <1>2, <1>4
<1>6. found \in Findings /\ FoundTruly(found)
  <2>1. <<k, fact[k]>> \in Step \X StepStatus
    BY <1>5 DEF OnboardingInv, BoardSound
  <2>2. found \in Findings
    BY <1>3, <1>5, <2>1 DEF Findings
  <2>3. ASSUME NEW n \in DOMAIN found, found[n] = <<"first_appointment", "completed">>
        PROVE  fact["first_appointment"] = "completed"
    <3>1. CASE n \in DOMAIN t.found
      <4>1. found[n] = t.found[n]
        BY <1>3, <1>5, <2>1, <3>1 DEF Findings
      <4>. QED BY <1>4, <2>3, <3>1, <4>1 DEF FoundTruly
    <3>2. CASE n \notin DOMAIN t.found
      <4>1. found[n] = <<k, fact[k]>>
        BY <1>3, <1>5, <2>1, <3>2 DEF Findings
      <4>. QED BY <2>3, <4>1
    <3>. QED BY <3>1, <3>2
  <2>. QED BY <2>2, <2>3 DEF FoundTruly
<1>7. PICK s : s = IF Tail(t.left) = <<>>
                   THEN [pc |-> "apply", found |-> found, after |-> t.after]
                   ELSE [t EXCEPT !.left = Tail(@), !.found = found]
  OBVIOUS
<1>8. Does(p, s) /\ UNCHANGED <<fact, configured, board, outdone, early, noticeVars>>
  BY <1>1, <1>2, <1>3, <1>7 DEF EvaluateStep, factVars, boardVars
<1>9. /\ s.pc \in {"apply", "evaluate"} /\ s.found = found /\ "pc" \in DOMAIN s
      /\ s.pc = "evaluate" =>
           /\ s \in [pc : {"evaluate"}, left : Seq(Step), found : Findings, after : NextUp]
           /\ s.left # <<>>
      /\ s.pc = "apply" => s \in [pc : {"apply", "insert"}, found : Findings, after : NextUp]
  BY <1>4, <1>5, <1>6, <1>7
<1>10. TaskHeld(s) /\ TaskSound(s)
  BY <1>6, <1>9 DEF TaskHeld, TaskSound
<1>11. BoardSound' /\ ComesToStay
  BY <1>8, BoardUntouched DEF OnboardingInv
<1>. QED BY <1>1, <1>4, <1>8, <1>9, <1>10, <1>11, RequestMoves, SoundnessStays DEF Holds

\* The row as it is, or a new one where there was none.
LEMMA BoardThere ==
  ASSUME OnboardingInv, UNCHANGED <<fact, configured, outdone, early>>,
         (board' = board /\ board # NoBoard) \/ (board = NoBoard /\ board' = InitialBoard)
  PROVE  /\ BoardSound' /\ ComesToStay
         /\ board' \in BoardRow /\ Earned(board') /\ Witnessed(board')
<1>1. Witnessed(InitialBoard)' /\ Earned(InitialBoard)'
  BY TheBoards DEF Witnessed, Earned
<1>2. CASE board' = board /\ board # NoBoard
  BY <1>2, BoardUntouched DEF OnboardingInv, BoardSound
<1>3. CASE board = NoBoard /\ board' = InitialBoard
  <2>1. board' \in BoardRow /\ Earned(board') /\ Witnessed(board')
    BY <1>3, TheBoards
  <2>2. Earned(board)' /\ Witnessed(board)'
    BY <1>1, <1>3 DEF Earned, Witnessed
  <2>3. BoardSound'
    BY <2>1, <2>2 DEF OnboardingInv, BoardSound, PayrollComesFirst
  <2>4. ComesToStay
    BY <1>3 DEF ComesToStay, OnboardingPast
  <2>. QED BY <2>1, <2>3, <2>4
<1>. QED BY <1>2, <1>3

LEMMA RowTaken ==
  ASSUME OnboardingInv, NEW p \in Clerk,
         \/ ReadToApply(p) \/ InsertToApply(p) \/ FindState(p) \/ CreateState(p)
  PROVE  OnboardingInv'
<1>1. PICK t : t = task[p]
  OBVIOUS
<1>2. /\ UNCHANGED <<fact, configured, outdone, early, noticeVars>>
      /\ t.pc \in {"apply", "insert", "get", "create"} /\ TaskHeld(t) /\ TaskSound(t)
      /\ t.after \in NextUp
      /\ t.pc \in {"apply", "insert"} => /\ t.found \in Findings /\ FoundTruly(t.found)
  BY <1>1 DEF ReadToApply, InsertToApply, FindState, CreateState, In, factVars, boardVars,
     OnboardingInv, TasksSound, TaskHeld, TaskSound
<1>3. ASSUME (board' = board /\ board # NoBoard) \/ (board = NoBoard /\ board' = InitialBoard),
             NEW s, Does(p, s),
             \/ s = Then(t.after, board')
             \/ s = Applied(board', t) /\ t.pc \in {"apply", "insert"}
      PROVE  OnboardingInv'
  <2>1. /\ BoardSound' /\ ComesToStay
        /\ board' \in BoardRow /\ Earned(board') /\ Witnessed(board')
    BY <1>2, <1>3, BoardThere
  <2>2. PICK row : row = board'
    OBVIOUS
  <2>3. row \in BoardRow /\ Earned(row) /\ Witnessed(row)
    BY <2>1, <2>2
  <2>4. Follows(s, row)
    BY <1>2, <1>3, <2>2, <2>3, ThenFollows, AppliedFollows
  <2>5. TaskHeld(s) /\ ~Holds(s) /\ TaskSound(s)'
    BY <1>2, <2>2, <2>3, <2>4, FollowedIsSound DEF Follows
  <2>. QED BY <1>1, <1>2, <1>3, <2>1, <2>5, RequestMoves DEF Holds
<1>4. ASSUME NEW s, Does(p, s), TaskHeld(s), TaskSound(s), ~Holds(s),
             UNCHANGED <<board>>
      PROVE  OnboardingInv'
  <2>1. BoardSound' /\ ComesToStay
    BY <1>2, <1>4, BoardUntouched DEF OnboardingInv
  <2>. QED BY <1>1, <1>2, <1>4, <2>1, RequestMoves, SoundnessStays DEF Holds
<1>5. CASE ReadToApply(p)
  <2>1. t.pc = "apply" /\ UNCHANGED board
        /\ Does(p, IF board # NoBoard THEN Applied(board, t) ELSE [t EXCEPT !.pc = "insert"])
    BY <1>1, <1>5 DEF ReadToApply, In, boardVars
  <2>2. CASE board # NoBoard
    BY <1>3, <2>1, <2>2
  <2>3. CASE board = NoBoard
    <3>1. PICK s : s = [t EXCEPT !.pc = "insert"]
      OBVIOUS
    <3>2. t \in [pc : {"apply", "insert"}, found : Findings, after : NextUp]
      BY <1>2, <2>1 DEF TaskHeld
    <3>3. /\ s \in [pc : {"apply", "insert"}, found : Findings, after : NextUp]
          /\ s.pc = "insert" /\ s.found = t.found /\ "pc" \in DOMAIN s
      BY <3>1, <3>2
    <3>4. TaskHeld(s) /\ TaskSound(s) /\ ~Holds(s)
      BY <1>2, <2>1, <3>3 DEF TaskHeld, TaskSound, Holds
    <3>. QED BY <1>4, <2>1, <2>3, <3>1, <3>4
  <2>. QED BY <2>2, <2>3
<1>6. CASE InsertToApply(p)
  <2>1. t.pc = "insert"
    BY <1>1, <1>6 DEF InsertToApply, In
  <2>2. CASE board = NoBoard
    <3>1. board' = InitialBoard /\ Does(p, Applied(InitialBoard, t))
      BY <1>1, <1>6, <2>2 DEF InsertToApply
    <3>. QED BY <1>3, <2>1, <2>2, <3>1
  <2>3. CASE board # NoBoard
    <3>1. UNCHANGED board /\ Does(p, Resting)
      BY <1>6, <2>3 DEF InsertToApply
    <3>2. TaskHeld(Resting) /\ TaskSound(Resting) /\ ~Holds(Resting)
      BY DEF Resting, TaskHeld, TaskSound, Holds
    <3>. QED BY <1>4, <3>1, <3>2
  <2>. QED BY <2>2, <2>3
<1>7. CASE FindState(p)
  <2>1. t.pc = "get" /\ UNCHANGED board
        /\ Does(p, IF board # NoBoard THEN Then(t.after, board) ELSE [t EXCEPT !.pc = "create"])
    BY <1>1, <1>7 DEF FindState, In, boardVars
  <2>2. CASE board # NoBoard
    BY <1>3, <2>1, <2>2
  <2>3. CASE board = NoBoard
    <3>1. PICK s : s = [t EXCEPT !.pc = "create"]
      OBVIOUS
    <3>2. t \in [pc : {"get", "create"}, after : NextUp]
      BY <1>2, <2>1 DEF TaskHeld
    <3>3. s \in [pc : {"get", "create"}, after : NextUp] /\ s.pc = "create" /\ "pc" \in DOMAIN s
      BY <3>1, <3>2
    <3>4. TaskHeld(s) /\ TaskSound(s) /\ ~Holds(s)
      BY <3>3 DEF TaskHeld, TaskSound, Holds
    <3>. QED BY <1>4, <2>1, <2>3, <3>1, <3>4
  <2>. QED BY <2>2, <2>3
<1>8. CASE CreateState(p)
  <2>1. CASE board = NoBoard
    <3>1. PICK s : s = Recompute(ONBOARDING_STEP_KEYS, t.after)
      OBVIOUS
    <3>2. board' = InitialBoard /\ Does(p, s)
      BY <1>1, <1>8, <2>1, <3>1 DEF CreateState
    <3>3. TaskHeld(s) /\ TaskSound(s) /\ s.pc = "evaluate"
      BY <1>2, <3>1, NewTasks, TheSteps
    <3>4. BoardSound' /\ ComesToStay
      BY <1>2, <2>1, <3>2, BoardThere
    <3>. QED BY <1>1, <1>2, <3>2, <3>3, <3>4, RequestMoves, SoundnessStays DEF Holds
  <2>2. CASE board # NoBoard
    <3>1. UNCHANGED board /\ Does(p, Then(t.after, board))
      BY <1>1, <1>8, <2>2 DEF CreateState
    <3>. QED BY <1>3, <2>2, <3>1
  <2>. QED BY <2>1, <2>2
<1>. QED BY <1>5, <1>6, <1>7, <1>8

\* The row saved keeps what was completed, unless it was not the row read.
LEMMA BoardSaved ==
  ASSUME OnboardingInv, NEW p \in Clerk, SaveBoard(p)
  PROVE  /\ OnboardingInv'
         /\ outdone' \/ Grows(board, board')
<1>1. PICK t : t = task[p]
  OBVIOUS
<1>2. /\ t.pc = "save" /\ TaskHeld(t) /\ TaskSound(t)
      /\ t \in [pc : {"save"}, read : BoardRow, row : BoardRow, after : NextUp]
      /\ Earned(t.row) /\ Grows(t.read, t.row) /\ Witnessed(t.row)
  BY <1>1 DEF SaveBoard, In, OnboardingInv, TasksSound, TaskHeld, TaskSound
<1>3. /\ t.row \in BoardRow /\ t.read \in BoardRow /\ t.after \in NextUp
      /\ board' = t.row /\ outdone' = (outdone \/ board # t.read)
      /\ UNCHANGED <<fact, configured, early, noticeVars>>
      /\ Does(p, Then(t.after, t.row))
  BY <1>1, <1>2 DEF SaveBoard, factVars
<1>4. outdone' \/ Grows(board, board')
  BY <1>2, <1>3
<1>5. ComesToStay
  <2>1. OnboardingPast => OnboardingPast' \/ outdone'
    BY <1>3, <1>4, TheBoards DEF OnboardingPast, Grows
  <2>. QED BY <1>3, <2>1 DEF ComesToStay
<1>6. BoardSound'
  <2>1. board' \in BoardRow /\ Earned(board)' /\ Witnessed(board)'
    BY <1>2, <1>3 DEF Earned, Witnessed
  <2>. QED BY <1>3, <2>1 DEF OnboardingInv, BoardSound, PayrollComesFirst
<1>7. PICK s : s = Then(t.after, t.row)
  OBVIOUS
<1>8. Follows(s, t.row)
  BY <1>2, <1>3, <1>7, ThenFollows
<1>9. TaskHeld(s) /\ ~Holds(s) /\ TaskSound(s)'
  BY <1>2, <1>3, <1>8, FollowedIsSound DEF Follows
<1>. QED BY <1>1, <1>2, <1>3, <1>4, <1>5, <1>6, <1>7, <1>9, RequestMoves DEF Holds

LEMMA AppointmentBooked ==
  ASSUME OnboardingInv, NEW p \in Clerk,
         AssertPayrollBeforeFirstAppointment(p) \/ InsertAppointment(p)
  PROVE  OnboardingInv'
<1>1. CASE AssertPayrollBeforeFirstAppointment(p)
  <2>1. BoardSound' /\ ComesToStay /\ UNCHANGED noticeVars
    BY <1>1, BoardUntouched
    DEF AssertPayrollBeforeFirstAppointment, OnboardingInv, factVars, boardVars
  <2>2. PICK t : t = IF PayrollReady THEN [pc |-> "book"] ELSE Resting
    OBVIOUS
  <2>3. TaskHeld(t) /\ TaskSound(t) /\ ~Holds(t)
    BY <2>2 DEF TaskHeld, TaskSound, Holds, Resting, PayrollReady, MayBook, OnboardingInv, BoardSound
  <2>. QED BY <1>1, <2>1, <2>2, <2>3, RequestMoves, SoundnessStays
           DEF AssertPayrollBeforeFirstAppointment, In, Holds
<1>2. CASE InsertAppointment(p)
  <2>1. /\ fact' = [fact EXCEPT !["first_appointment"] = "completed"]
        /\ early' = (early \/ (/\ fact["first_appointment"] = "pending" /\ ~configured
                               /\ board.global = "in_progress"))
        /\ Does(p, Recompute(<<"first_appointment">>, "end"))
        /\ UNCHANGED <<configured, board, outdone, noticeVars>>
        /\ task[p].pc = "book"
    BY <1>2 DEF InsertAppointment, In, boardVars
  <2>2. MayBook
    BY <2>1 DEF OnboardingInv, TasksSound, TaskSound
  <2>3. PayrollComesFirst'
    BY <2>1, <2>2 DEF MayBook, OnboardingPast, PayrollComesFirst, OnboardingInv, BoardSound
  <2>4. fact' \in [Step -> StepStatus] /\ fact'["configure_payroll"] = fact["configure_payroll"]
        /\ fact'["first_appointment"] = "completed"
    BY <2>1, TheSteps DEF OnboardingInv, BoardSound, StepStatus
  <2>5. ComesToStay
    BY <2>1, <2>4 DEF ComesToStay, OnboardingPast
  <2>6. board # NoBoard => Earned(board)' /\ Witnessed(board)'
    BY <2>1, <2>4 DEF OnboardingInv, BoardSound, Earned, Witnessed
  <2>7. BoardSound'
    BY <2>1, <2>3, <2>4, <2>6 DEF OnboardingInv, BoardSound
  <2>8. <<"first_appointment">> \in Seq(Step) /\ <<"first_appointment">> # <<>> /\ "end" \in NextUp
    BY TheSteps DEF NextUp
  <2>9. PICK t : t = Recompute(<<"first_appointment">>, "end")
    OBVIOUS
  <2>10. TaskHeld(t) /\ TaskSound(t) /\ t.pc = "evaluate"
    BY <2>8, <2>9, NewTasks
  <2>. QED BY <2>1, <2>5, <2>7, <2>9, <2>10, RequestMoves, SoundnessStays DEF Holds
<1>. QED BY <1>1, <1>2

-----------------------------------------------------------------------------
\* The tasks of whoever sends notices say no more than what they hold.
LEMMA NoticeTask ==
  ASSUME NEW t, t.pc \in {"resting", "claim", "send", "release"}, "pc" \in DOMAIN t
  PROVE  TaskHeld(t) /\ TaskSound(t) /\ TaskSound(t)'
BY DEF TaskHeld, TaskSound

LEMMA NextNotice ==
  ASSUME NEW t, TaskHeld(t), NEW s, s = NextChannel(t)
  PROVE  /\ s.pc \in {"resting", "claim"} /\ "pc" \in DOMAIN s
         /\ ~Holds(s) /\ TaskHeld(s) /\ TaskSound(s)'
<1>1. CASE s = Resting
  BY <1>1, NoticeTask DEF Resting, Holds
<1>2. CASE s = [t EXCEPT !.pc = "claim", !.channels = Tail(@)]
  <2>1. s.pc = "claim" /\ "pc" \in DOMAIN s
    BY <1>2 DEF TaskHeld
  <2>. QED BY <2>1, NoticeTask DEF Holds
<1>. QED BY <1>1, <1>2 DEF NextChannel

LEMMA SweepMoves ==
  ASSUME OnboardingInv, NEW p \in Clerk, NEW t, Does(p, t), TaskHeld(t), TaskSound(t)',
         UNCHANGED <<factVars, boardVars, early>>, NoticesSound'
  PROVE  OnboardingInv'
<1>1. BoardSound' /\ ComesToStay
  BY BoardUntouched DEF OnboardingInv, factVars, boardVars
<1>2. TasksSound'
  BY <1>1, OneTaskMoves DEF OnboardingInv
<1>. QED BY <1>1, <1>2 DEF OnboardingInv

LEMMA StuckFound ==
  ASSUME OnboardingInv, NEW p \in Clerk, NEW hasEmail \in BOOLEAN, FindStuck(p, hasEmail)
  PROVE  OnboardingInv'
<1>1. PICK t : t = [pc |-> "claim", step |-> StuckAt(board.steps), level |-> LevelFor(stalled),
                    channels |-> ChannelsOf(LevelFor(stalled), hasEmail)]
  OBVIOUS
<1>2. Takes(p, t) /\ UNCHANGED <<fact, configured, board, outdone, early, noticeVars>>
  BY <1>1 DEF FindStuck, factVars, boardVars
<1>3. TaskHeld(t) /\ TaskSound(t) /\ ~Holds(t)
  BY <1>1, NoticeTask DEF Holds
<1>4. BoardSound' /\ ComesToStay
  BY <1>2, BoardUntouched DEF OnboardingInv
<1>. QED BY <1>2, <1>3, <1>4, RequestBegins

LEMMA NoticeClaimed ==
  ASSUME OnboardingInv, NEW p \in Clerk, Claim(p)
  PROVE  OnboardingInv'
<1>1. PICK t : t = task[p]
  OBVIOUS
<1>2. /\ t.pc = "claim" /\ TaskHeld(t) /\ "pc" \in DOMAIN t
      /\ UNCHANGED <<factVars, boardVars, early, sent, twice, lost>>
  BY <1>1 DEF Claim, In, OnboardingInv, TasksSound, TaskHeld
<1>3. CASE Notice(t) \in claimed
  <2>1. PICK s : s = NextChannel(t)
    OBVIOUS
  <2>2. Does(p, s) /\ UNCHANGED noticeVars
    BY <1>1, <1>2, <1>3, <2>1 DEF Claim, Unclaimed, noticeVars
  <2>3. TaskHeld(s) /\ TaskSound(s)' /\ ~Holds(s)
    BY <1>2, <2>1, NextNotice
  <2>4. NoticesSound'
    BY <1>1, <1>2, <2>2, <2>3, NoticesStay DEF OnboardingInv, Holds
  <2>. QED BY <1>2, <2>2, <2>3, <2>4, SweepMoves
<1>4. CASE Notice(t) \notin claimed
  <2>1. PICK s : s = [t EXCEPT !.pc = "send"]
    OBVIOUS
  <2>2. Does(p, s) /\ claimed' = claimed \cup {Notice(t)}
    BY <1>1, <1>4, <2>1 DEF Claim, Unclaimed
  <2>3. /\ s.pc = "send" /\ "pc" \in DOMAIN s /\ s.step = t.step /\ s.level = t.level
        /\ s.channels = t.channels
    BY <1>2, <2>1
  <2>4. TaskHeld(s) /\ TaskSound(s)' /\ Holds(s) /\ Notice(s) = Notice(t)
    BY <2>3, NoticeTask DEF Holds, Notice
  <2>5. /\ task'[p] = s /\ \A q \in Clerk : q # p => task'[q] = task[q]
    BY <2>2 DEF Does, OnboardingInv, TasksSound
  <2>6. \A q \in Clerk : q # p /\ Holds(task'[q])
          => Notice(task'[q]) \in claimed \ sent /\ Holds(task[q])
    BY <2>5 DEF OnboardingInv, NoticesSound
  <2>7. Notice(t) \notin sent
    BY <1>4 DEF OnboardingInv, NoticesSound
  <2>8. ASSUME NEW q \in Clerk, Holds(task'[q]) PROVE Notice(task'[q]) \in claimed' \ sent'
    BY <1>2, <2>2, <2>4, <2>5, <2>6, <2>7, <2>8
  <2>9. ASSUME NEW q \in Clerk, NEW r \in Clerk, q # r, Holds(task'[q]), Holds(task'[r])
        PROVE  Notice(task'[q]) # Notice(task'[r])
    <3>1. CASE q = p
      BY <1>4, <2>4, <2>5, <2>6, <2>9, <3>1
    <3>2. CASE r = p
      BY <1>4, <2>4, <2>5, <2>6, <2>9, <3>2
    <3>3. CASE q # p /\ r # p
      BY <2>5, <2>9, <3>3 DEF OnboardingInv, NoticesSound
    <3>. QED BY <3>1, <3>2, <3>3
  <2>10. ClaimIsSent'
    <3>1. ASSUME NEW n \in claimed'
          PROVE  \/ n \in sent \cup lost
                 \/ \E q \in Clerk : task'[q].pc \in {"send", "release"} /\ Notice(task'[q]) = n
      <4>1. CASE n = Notice(t)
        BY <2>4, <2>5, <4>1 DEF Holds
      <4>2. CASE n \in claimed
        <5>1. \/ n \in sent \cup lost
              \/ \E q \in Clerk : task[q].pc \in {"send", "release"} /\ Notice(task[q]) = n
          BY <4>2 DEF OnboardingInv, NoticesSound, ClaimIsSent
        <5>. QED BY <1>1, <1>2, <2>5, <5>1
      <4>. QED BY <2>2, <3>1, <4>1, <4>2
    <3>. QED BY <1>2, <3>1 DEF ClaimIsSent, Notice
  <2>11. sent' \subseteq claimed' /\ NoticeGoesOnce'
    BY <1>2, <2>2 DEF OnboardingInv, NoticesSound, NoticeGoesOnce
  <2>12. NoticesSound'
    BY <2>8, <2>9, <2>10, <2>11 DEF NoticesSound, Holds, Notice
  <2>. QED BY <1>2, <2>2, <2>4, <2>12, SweepMoves
<1>. QED BY <1>3, <1>4

\* The claim of a notice ends: it went out, it is released, or its sweep died.
LEMMA NoticeEnds ==
  ASSUME OnboardingInv, NEW p \in Clerk, NEW s, Does(p, s), TaskHeld(s), ~Holds(s), TaskSound(s)',
         Holds(task[p]), UNCHANGED <<factVars, boardVars, early>>,
         \/ /\ sent' = sent \cup {Notice(task[p])} /\ twice' = twice \cup (sent \cap {Notice(task[p])})
            /\ UNCHANGED <<claimed, lost>>
         \/ claimed' = claimed \ {Notice(task[p])} /\ UNCHANGED <<sent, twice, lost>>
         \/ lost' = lost \cup {Notice(task[p])} /\ UNCHANGED <<claimed, sent, twice>>
  PROVE  OnboardingInv'
<1>1. PICK m : m = Notice(task[p])
  OBVIOUS
<1>2. m \in claimed \ sent
  BY <1>1 DEF OnboardingInv, NoticesSound
<1>3. /\ task'[p] = s /\ \A q \in Clerk : q # p => task'[q] = task[q]
  BY DEF Does, OnboardingInv, TasksSound
<1>4. \A q \in Clerk : Holds(task'[q]) => /\ q # p /\ Holds(task[q]) /\ task'[q] = task[q]
                                          /\ Notice(task[q]) # m
  BY <1>1, <1>3 DEF OnboardingInv, NoticesSound
<1>5. /\ claimed \ {m} \subseteq claimed' /\ sent' \subseteq sent \cup {m} /\ sent \subseteq sent'
      /\ lost \subseteq lost' /\ claimed' \subseteq claimed
      /\ m \in claimed' => m \in sent' \cup lost'
      /\ sent' \subseteq claimed' /\ twice' = {}
  BY <1>1, <1>2 DEF OnboardingInv, NoticesSound, NoticeGoesOnce
<1>6. ASSUME NEW q \in Clerk, Holds(task'[q]) PROVE Notice(task'[q]) \in claimed' \ sent'
  <2>1. task'[q] = task[q] /\ Notice(task[q]) \in claimed \ sent /\ Notice(task[q]) # m
    BY <1>4, <1>6 DEF OnboardingInv, NoticesSound
  <2>. QED BY <1>5, <2>1
<1>7. ASSUME NEW q \in Clerk, NEW r \in Clerk, q # r, Holds(task'[q]), Holds(task'[r])
      PROVE  Notice(task'[q]) # Notice(task'[r])
  BY <1>4, <1>7 DEF OnboardingInv, NoticesSound
<1>8. ASSUME NEW n \in claimed'
      PROVE  \/ n \in sent' \cup lost'
             \/ \E q \in Clerk : task'[q].pc \in {"send", "release"} /\ Notice(task'[q]) = n
  <2>1. CASE n = m
    BY <1>5, <1>8, <2>1
  <2>2. CASE n # m
    <3>1. \/ n \in sent \cup lost
          \/ \E q \in Clerk : task[q].pc \in {"send", "release"} /\ Notice(task[q]) = n
      BY <1>5, <1>8 DEF OnboardingInv, NoticesSound, ClaimIsSent
    <3>2. \A q \in Clerk : Notice(task[q]) = n => q # p /\ task'[q] = task[q]
      BY <1>1, <1>3, <2>2
    <3>. QED BY <1>5, <3>1, <3>2
  <2>. QED BY <2>1, <2>2
<1>9. ClaimIsSent' /\ NoticeGoesOnce'
  BY <1>5, <1>8 DEF ClaimIsSent, NoticeGoesOnce, Notice
<1>10. NoticesSound'
  BY <1>5, <1>6, <1>7, <1>9 DEF NoticesSound, Holds, Notice
<1>. QED BY <1>10, SweepMoves

LEMMA NoticeGoes ==
  ASSUME OnboardingInv, NEW p \in Clerk, Send(p) \/ Release(p) \/ GiveUp(p)
  PROVE  OnboardingInv'
<1>1. PICK t : t = task[p]
  OBVIOUS
<1>2. TaskHeld(t) /\ "pc" \in DOMAIN t
  BY <1>1 DEF OnboardingInv, TasksSound, TaskHeld
<1>3. PICK s : s = NextChannel(t)
  OBVIOUS
<1>4. TaskHeld(s) /\ ~Holds(s) /\ TaskSound(s)'
  BY <1>2, <1>3, NextNotice
<1>5. CASE Send(p)
  <2>1. CASE /\ sent' = sent \cup {Notice(t)} /\ twice' = twice \cup (sent \cap {Notice(t)})
             /\ Does(p, s) /\ UNCHANGED <<claimed, lost, factVars, boardVars, early>>
             /\ Holds(t)
    BY <1>1, <1>4, <2>1, NoticeEnds
  <2>2. CASE /\ Does(p, AfterFailure(t)) /\ UNCHANGED <<sent, twice, claimed, lost>>
             /\ UNCHANGED <<factVars, boardVars, early>> /\ Holds(t)
    <3>1. PICK r : r = AfterFailure(t)
      OBVIOUS
    <3>2. /\ r.pc = "release" /\ "pc" \in DOMAIN r /\ r.step = t.step /\ r.level = t.level
          /\ r.channels = t.channels
      BY <1>2, <3>1 DEF AfterFailure
    <3>3. TaskHeld(r) /\ TaskSound(r)' /\ Holds(r) /\ Notice(r) = Notice(t)
      BY <3>2, NoticeTask DEF Holds, Notice
    <3>4. /\ task'[p] = r /\ \A q \in Clerk : q # p => task'[q] = task[q]
      BY <2>2, <3>1 DEF Does, OnboardingInv, TasksSound
    <3>5. \A q \in Clerk : (Holds(task'[q]) <=> Holds(task[q]))
                           /\ (Holds(task[q]) => Notice(task'[q]) = Notice(task[q]))
      BY <1>1, <2>2, <3>3, <3>4
    <3>6. ClaimIsSent'
      BY <2>2, <3>5 DEF OnboardingInv, NoticesSound, ClaimIsSent, Holds, Notice
    <3>7. NoticesSound'
      BY <2>2, <3>5, <3>6 DEF OnboardingInv, NoticesSound, NoticeGoesOnce, Holds, Notice
    <3>. QED BY <2>2, <3>1, <3>3, <3>7, SweepMoves
  <2>3. Holds(t)
    BY <1>1, <1>5 DEF Send, In, Holds
  <2>. QED BY <1>1, <1>3, <1>5, <2>1, <2>2, <2>3 DEF Send
<1>6. CASE Release(p)
  BY <1>1, <1>3, <1>4, <1>6, NoticeEnds DEF Release, In, Holds
<1>7. CASE GiveUp(p)
  <2>1. TaskHeld(Resting) /\ TaskSound(Resting)' /\ ~Holds(Resting)
    BY NoticeTask DEF Resting, Holds
  <2>2. CASE Holds(t)
    BY <1>1, <1>7, <2>1, <2>2, NoticeEnds DEF GiveUp, Holds
  <2>3. CASE ~Holds(t)
    <3>1. Does(p, Resting) /\ UNCHANGED <<fact, configured, board, outdone, early, noticeVars>>
      BY <1>1, <1>7, <2>3 DEF GiveUp, Holds, factVars, boardVars, noticeVars
    <3>2. BoardSound' /\ ComesToStay
      BY <3>1, BoardUntouched DEF OnboardingInv
    <3>. QED BY <1>1, <2>1, <2>3, <3>1, <3>2, RequestMoves
  <2>. QED BY <2>2, <2>3
<1>. QED BY <1>5, <1>6, <1>7

\* What goes on without a request.
LEMMA NobodyAsks ==
  ASSUME OnboardingInv, BoardSound', ComesToStay, UNCHANGED <<task, noticeVars>>
  PROVE  OnboardingInv'
<1>1. TasksSound'
  <2>1. ASSUME NEW p \in Clerk PROVE TaskHeld(task[p])' /\ TaskSound(task[p])'
    <3>1. PICK t : t = task[p]
      OBVIOUS
    <3>2. TaskHeld(t) /\ TaskSound(t)'
      BY <3>1, SoundnessStays DEF OnboardingInv, TasksSound
    <3>3. TaskSound(t)' => TaskSound(task[p])'
      BY <3>1 DEF TaskSound
    <3>4. TaskHeld(t) => TaskHeld(task[p])'
      BY <3>1 DEF TaskHeld
    <3>. QED BY <3>2, <3>3, <3>4
  <2>. QED BY <2>1 DEF OnboardingInv, TasksSound
<1>2. NoticesSound'
  BY DEF OnboardingInv, NoticesSound, NoticeGoesOnce, ClaimIsSent, noticeVars, Holds, Notice
<1>. QED BY <1>1, <1>2 DEF OnboardingInv

\* However the requests of a salon and the sweeps overlap, its onboarding is
\* completed by what it did, does not go back, puts the payroll before the first
\* appointment, and each of its notices goes out once, but where a request saved
\* a row over one that it had not read (onboarding.service.ts,
\* onboarding-rescue.service.ts).
THEOREM TheOnboardingIsEarned == OnboardingSpec => OnboardingIsEarned
<1>1. OnboardingInit => OnboardingInv
  <2>. SUFFICES ASSUME OnboardingInit PROVE OnboardingInv
    OBVIOUS
  <2>1. PICK works \in BOOLEAN :
          /\ fact = [k \in Step |-> IF works /\ k # "first_charge" THEN "completed" ELSE "pending"]
          /\ configured = works
    BY DEF OnboardingInit
  <2>2. BoardSound
    BY <2>1, TheSteps DEF OnboardingInit, BoardSound, PayrollComesFirst, StepStatus
  <2>3. TasksSound
    BY NewTasks DEF OnboardingInit, TasksSound, NextUp
  <2>4. NoticesSound
    BY DEF OnboardingInit, NoticesSound, NoticeGoesOnce, ClaimIsSent, Holds, Resting
  <2>. QED BY <2>2, <2>3, <2>4 DEF OnboardingInv
<1>2. OnboardingInv /\ [OnboardingNext]_onboardingVars => OnboardingInv'
  <2>. SUFFICES ASSUME OnboardingInv, [OnboardingNext]_onboardingVars PROVE OnboardingInv'
    OBVIOUS
  <2>1. ASSUME UndoCharges PROVE OnboardingInv'
    <3>1. fact' = [fact EXCEPT !["first_charge"] = "pending"]
          /\ UNCHANGED <<configured, board, outdone, early, task, noticeVars>>
      BY <2>1 DEF UndoCharges, boardVars
    <3>2. fact' \in [Step -> StepStatus] /\ fact'["configure_payroll"] = fact["configure_payroll"]
          /\ fact'["first_appointment"] = fact["first_appointment"]
      BY <3>1, TheSteps DEF OnboardingInv, BoardSound, StepStatus
    <3>3. BoardSound' /\ ComesToStay
      BY <3>1, <3>2 DEF OnboardingInv, BoardSound, ComesToStay, OnboardingPast, Earned, Witnessed,
         PayrollComesFirst
    <3>. QED BY <3>1, <3>3, NobodyAsks
  <2>2. ASSUME ClientBooks PROVE OnboardingInv'
    <3>1. fact' = [fact EXCEPT !["first_appointment"] = "completed"]
          /\ UNCHANGED <<configured, board, outdone, early, task, noticeVars>>
      BY <2>2 DEF ClientBooks, boardVars
    <3>2. fact' \in [Step -> StepStatus] /\ fact'["configure_payroll"] = fact["configure_payroll"]
          /\ fact'["first_appointment"] = "completed"
      BY <3>1, TheSteps DEF OnboardingInv, BoardSound, StepStatus
    <3>3. BoardSound' /\ ComesToStay
      BY <3>1, <3>2 DEF OnboardingInv, BoardSound, ComesToStay, OnboardingPast, Earned, Witnessed,
         PayrollComesFirst
    <3>. QED BY <3>1, <3>3, NobodyAsks
  <2>3. ASSUME Day \/ UNCHANGED onboardingVars PROVE OnboardingInv'
    <3>1. UNCHANGED <<fact, configured, board, outdone, early, task, noticeVars>>
      BY <2>3 DEF Day, onboardingVars, factVars, noticeVars
    <3>. QED BY <3>1, BoardUntouched, NobodyAsks DEF OnboardingInv
  <2>4. ASSUME NEW p \in Clerk, NEW v \in StepStatus,
               ConfirmServices(p, v) \/ ConfigurePayroll(p, v)
        PROVE  OnboardingInv'
    BY <2>4, StepsTold
  <2>5. ASSUME NEW p \in Clerk, FirstCharge(p) PROVE OnboardingInv'
    BY <2>5, StepsTold DEF StepStatus
  <2>6. ASSUME NEW p \in Clerk,
               \/ EvaluateStep(p) \/ ReadToApply(p) \/ InsertToApply(p) \/ SaveBoard(p)
               \/ RecomputeAll(p) \/ GetState(p) \/ Skip(p) \/ FindState(p) \/ CreateState(p)
               \/ SalonBooks(p) \/ AssertPayrollBeforeFirstAppointment(p) \/ InsertAppointment(p)
        PROVE  OnboardingInv'
    BY <2>6, StepEvaluated, RowTaken, BoardSaved, StateAsked, AppointmentBooked
  <2>7. ASSUME NEW p \in Clerk,
               \/ \E hasEmail \in BOOLEAN : FindStuck(p, hasEmail)
               \/ Claim(p) \/ Send(p) \/ Release(p) \/ GiveUp(p)
        PROVE  OnboardingInv'
    BY <2>7, StuckFound, NoticeClaimed, NoticeGoes
  <2>. QED BY <2>1, <2>2, <2>3, <2>4, <2>5, <2>6, <2>7 DEF OnboardingNext
<1>3. OnboardingInv => CompletedIsEarned /\ PayrollComesFirst /\ NoticeGoesOnce /\ ClaimIsSent
  BY DEF OnboardingInv, BoardSound, NoticesSound, Earned, CompletedIsEarned, Kept
<1>4. OnboardingInv /\ [OnboardingNext]_onboardingVars
      => [\A k \in Step \ {"configure_payroll"} :
            board # NoBoard /\ board.steps[k] = "completed"
            => board'.steps[k] = "completed" \/ outdone']_onboardingVars
  <2>. SUFFICES ASSUME OnboardingInv, OnboardingNext, NEW k \in Step \ {"configure_payroll"},
                       board # NoBoard, board.steps[k] = "completed"
                PROVE  board'.steps[k] = "completed" \/ outdone'
    OBVIOUS
  <2>1. ASSUME NEW p \in Clerk, SaveBoard(p) PROVE outdone' \/ Grows(board, board')
    BY <2>1, BoardSaved
  <2>2. (\E p \in Clerk : SaveBoard(p)) \/ UNCHANGED board
    BY DEF OnboardingNext, ConfirmServices, ConfigurePayroll, FirstCharge, EvaluateStep,
       ReadToApply, InsertToApply, RecomputeAll, GetState, Skip, FindState, CreateState,
       SalonBooks, AssertPayrollBeforeFirstAppointment, InsertAppointment, FindStuck, Claim,
       Send, Release, GiveUp, UndoCharges, ClientBooks, Day, boardVars
  <2>. QED BY <2>1, <2>2 DEF Grows, Kept
<1>. QED BY <1>1, <1>2, <1>3, <1>4, PTL
         DEF OnboardingSpec, OnboardingIsEarned, ProgressIsKept

-----------------------------------------------------------------------------
(* Access: the list of the salons that are off *)

Reading == Call \cup {"shared"}
LoadRow == [seq : Nat, seen : {"unread", "on", "off"}, since : BOOLEAN]

ListShape ==
  /\ off \in BOOLEAN /\ told \in BOOLEAN /\ launched \in Nat
  /\ list \in [off : BOOLEAN, applied : Nat]
  /\ load \in [Reading -> LoadRow]

\* Readings are numbered as they begin.
Numbered ==
  /\ list.applied <= launched
  /\ \A k \in Reading : load[k].seq <= launched
  /\ \A k \in Reading : load[k].since => load[k].seq > 0

\* A reading launched since the change is younger than one that was not, and
\* shows the salon as it is; once one has landed, no older one can.
Younger ==
  \A j, k \in Reading :
    load[k].since /\ load[j].seq >= load[k].seq => load[j].since
SinceIsTrue ==
  \A k \in Reading : load[k].since /\ load[k].seen # "unread" => load[k].seen = Seen(off)
OlderAreOut ==
  told => \A j \in Reading : load[j].seq > 0 /\ ~load[j].since => load[j].seq < list.applied
AppliedIsTold ==
  \A k \in Reading : load[k].since /\ load[k].seq <= list.applied => told

ListInv ==
  /\ ListShape /\ Numbered /\ Younger /\ SinceIsTrue /\ OlderAreOut /\ AppliedIsTold
  /\ ListIsCurrent

-----------------------------------------------------------------------------
(* The list in memory *)

LEMMA ListInitially == AccessInit => ListInv
<1>. SUFFICES ASSUME AccessInit PROVE ListInv
  OBVIOUS
<1>1. /\ off = FALSE /\ told = FALSE /\ launched = 0
      /\ list = [off |-> FALSE, applied |-> 0]
      /\ load = [k \in Reading |-> [seq |-> 0, seen |-> "unread", since |-> FALSE]]
  BY DEF AccessInit, EmptyList, NotReading, Reading
<1>2. \A k \in Reading : load[k].seq = 0 /\ load[k].seen = "unread" /\ ~load[k].since
  BY <1>1
<1>3. ListShape
  BY <1>1 DEF ListShape, LoadRow
<1>4. Numbered
  BY <1>1, <1>2 DEF Numbered
<1>5. Younger /\ SinceIsTrue /\ AppliedIsTold
  BY <1>2 DEF Younger, SinceIsTrue, AppliedIsTold
<1>6. OlderAreOut /\ ListIsCurrent
  BY <1>1 DEF OlderAreOut, ListIsCurrent
<1>. QED BY <1>3, <1>4, <1>5, <1>6 DEF ListInv

\* A step that leaves the salon and the list alone.
LEMMA ListUntouched ==
  ASSUME ListInv, UNCHANGED salonVars
  PROVE  ListInv'
BY DEF ListInv, ListShape, Numbered, Younger, SinceIsTrue, OlderAreOut, AppliedIsTold,
       ListIsCurrent, salonVars

LEMMA LaunchKeepsList ==
  ASSUME ListInv, NEW k \in Reading, Launch(k), UNCHANGED <<off, list, told>>
  PROVE  ListInv'
<1>1. load' = [load EXCEPT ![k] = [seq |-> launched + 1, seen |-> "unread", since |-> TRUE]]
  BY DEF Launch
<1>2. ListShape'
  BY <1>1 DEF ListInv, ListShape, LoadRow, Launch
<1>3. \A j \in Reading : j # k => load'[j] = load[j]
  BY <1>1 DEF ListInv, ListShape
<1>4. /\ load'[k].seq = launched + 1
      /\ load'[k].seen = "unread"
      /\ load'[k].since
  BY <1>1 DEF ListInv, ListShape
<1>5. /\ launched \in Nat /\ launched' = launched + 1 /\ list.applied \in Nat
      /\ \A j \in Reading : load[j].seq \in Nat
  BY DEF ListInv, ListShape, LoadRow, Launch
<1>6. Numbered'
  BY <1>3, <1>4, <1>5 DEF ListInv, Numbered
<1>7. Younger'
  BY <1>3, <1>4, <1>5 DEF ListInv, Numbered, Younger
<1>8. SinceIsTrue'
  BY <1>3, <1>4 DEF ListInv, SinceIsTrue, Seen
<1>9. OlderAreOut' /\ AppliedIsTold'
  BY <1>3, <1>4, <1>5 DEF ListInv, Numbered, OlderAreOut, AppliedIsTold
<1>. QED
  BY <1>2, <1>6, <1>7, <1>8, <1>9 DEF ListInv, ListIsCurrent

LEMMA ReadSalonsKeepsList ==
  ASSUME ListInv, NEW k \in Reading, ReadSalons(k)
  PROVE  ListInv'
<1>1. /\ load' = [load EXCEPT ![k].seen = Seen(off)]
      /\ UNCHANGED <<off, list, told, launched>>
  BY DEF ReadSalons
<1>2. Seen(off) \in {"on", "off"}
  BY DEF Seen
<1>3. ListShape'
  BY <1>1, <1>2 DEF ListInv, ListShape, LoadRow
<1>4. /\ load'[k].seen = Seen(off)
      /\ \A j \in Reading : /\ load'[j].seq = load[j].seq /\ load'[j].since = load[j].since
                            /\ j # k => load'[j].seen = load[j].seen
  BY <1>1 DEF ListInv, ListShape, LoadRow
<1>. QED
  BY <1>1, <1>3, <1>4
     DEF ListInv, Numbered, Younger, SinceIsTrue, OlderAreOut, AppliedIsTold, ListIsCurrent, Seen

LEMMA EndLoadKeepsList ==
  ASSUME ListInv, NEW k \in Reading, EndLoad(k)
  PROVE  ListInv'
<1>. DEFINE landed == load[k].seen # "unread" /\ Land(k) /\ told' = (told \/ load[k].since)
<1>1. /\ load' = [load EXCEPT ![k] = NotReading]
      /\ UNCHANGED <<off, launched>>
      /\ load[k].seq > 0
      /\ landed \/ UNCHANGED <<list, told>>
  BY DEF EndLoad
<1>2. /\ load'[k] = [seq |-> 0, seen |-> "unread", since |-> FALSE]
      /\ \A j \in Reading : j # k => load'[j] = load[j]
  BY <1>1 DEF ListInv, ListShape, NotReading
<1>3. /\ launched \in Nat /\ list.applied \in Nat /\ told \in BOOLEAN /\ off \in BOOLEAN
      /\ \A j \in Reading : load[j] \in LoadRow
      /\ \A j \in Reading : load[j].seq \in Nat
  BY DEF ListInv, ListShape, LoadRow
<1>4. CASE UNCHANGED <<list, told>>
  BY <1>1, <1>2, <1>3, <1>4
     DEF ListInv, ListShape, LoadRow, Numbered, Younger, SinceIsTrue, OlderAreOut, AppliedIsTold,
         ListIsCurrent, NotReading, Seen
<1>5. CASE landed
  <2>1. /\ list' = IF load[k].seq > list.applied
                   THEN [off |-> load[k].seen = "off", applied |-> load[k].seq] ELSE list
        /\ told' = (told \/ load[k].since)
        /\ load[k].seen # "unread"
    BY <1>5 DEF Land
  <2>2. list'.applied >= list.applied /\ list'.applied >= load[k].seq
        /\ list'.applied \in {list.applied, load[k].seq}
    BY <2>1, <1>3
  <2>3. ListShape'
    BY <2>1, <1>1, <1>3 DEF ListInv, ListShape, LoadRow, NotReading
  <2>4. Numbered'
    BY <1>1, <1>2, <1>3, <2>2 DEF ListInv, Numbered
  <2>5. Younger'
    BY <1>2, <1>3 DEF ListInv, Numbered, Younger
  <2>6. SinceIsTrue'
    BY <1>1, <1>2 DEF ListInv, SinceIsTrue, Seen
  <2>7. OlderAreOut'
    BY <1>2, <1>3, <2>1, <2>2 DEF ListInv, OlderAreOut, Younger
  <2>8. AppliedIsTold'
    <3>. SUFFICES ASSUME NEW j \in Reading, load'[j].since, load'[j].seq <= list'.applied
                  PROVE  told'
      BY DEF AppliedIsTold
    <3>1. load'[j] = load[j] /\ load[j].since
      BY <1>2
    <3>2. load[j].seq <= list.applied \/ load[k].seq >= load[j].seq
      BY <2>2, <3>1, <1>3
    <3>3. told \/ load[k].since
      BY <3>1, <3>2, <1>3 DEF ListInv, AppliedIsTold, Younger
    <3>. QED BY <2>1, <3>3
  <2>9. ListIsCurrent'
    <3>1. CASE load[k].since
      <4>1. load[k].seq > list.applied => list'.off = off
        BY <2>1, <3>1, <1>3 DEF ListInv, SinceIsTrue, Seen
      <4>2. ~(load[k].seq > list.applied) => list'.off = list.off /\ told
        BY <2>1, <3>1, <1>3 DEF ListInv, AppliedIsTold
      <4>. QED BY <4>1, <4>2, <1>1 DEF ListInv, ListIsCurrent
    <3>2. CASE ~load[k].since
      BY <2>1, <3>2, <1>1, <1>3 DEF ListInv, ListIsCurrent, OlderAreOut
    <3>. QED BY <3>1, <3>2
  <2>. QED BY <2>3, <2>4, <2>5, <2>6, <2>7, <2>8, <2>9 DEF ListInv
<1>. QED BY <1>1, <1>4, <1>5

LEMMA SwitchKeepsList ==
  ASSUME ListInv, NEW to \in BOOLEAN, Switch(to)
  PROVE  ListInv'
<1>1. /\ DOMAIN load = Reading
      /\ load' = [k \in Reading |-> [load[k] EXCEPT !.since = FALSE]]
      /\ off' = to /\ told' = FALSE /\ UNCHANGED <<list, launched>>
  BY DEF Switch, ListInv, ListShape
<1>2. \A k \in Reading : /\ load'[k] \in LoadRow /\ load'[k].seq = load[k].seq
                         /\ ~load'[k].since
  BY <1>1 DEF ListInv, ListShape, LoadRow
<1>. QED
  BY <1>1, <1>2, ZenonT(30)
     DEF ListInv, ListShape, Numbered, Younger, SinceIsTrue, OlderAreOut, AppliedIsTold, ListIsCurrent

LEMMA CrashKeepsList ==
  ASSUME ListInv, Crash
  PROVE  ListInv'
<1>1. /\ load' = [k \in Reading |-> [seq |-> 0, seen |-> "unread", since |-> FALSE]]
      /\ list' = [off |-> FALSE, applied |-> 0]
      /\ launched' = 0 /\ told' = FALSE /\ off' = off /\ off \in BOOLEAN
  BY DEF Crash, EmptyList, NotReading, Reading, ListInv, ListShape
<1>2. \A k \in Reading : load'[k].seq = 0 /\ load'[k].seen = "unread" /\ ~load'[k].since
  BY <1>1
<1>3. ListShape'
  BY <1>1 DEF ListShape, LoadRow
<1>4. Numbered'
  BY <1>1, <1>2 DEF Numbered
<1>5. Younger' /\ SinceIsTrue' /\ AppliedIsTold'
  BY <1>2 DEF Younger, SinceIsTrue, AppliedIsTold
<1>6. OlderAreOut' /\ ListIsCurrent'
  BY <1>1 DEF OlderAreOut, ListIsCurrent
<1>. QED BY <1>3, <1>4, <1>5, <1>6 DEF ListInv

LEMMA ListStep == ListInv /\ [AccessNext]_accessVars => ListInv'
<1>. SUFFICES ASSUME ListInv, [AccessNext]_accessVars PROVE ListInv'
  OBVIOUS
<1>1. CASE UNCHANGED accessVars
  BY <1>1, ListUntouched DEF accessVars, salonVars
<1>2. ASSUME NEW k \in Reading, ReadSalons(k) \/ EndLoad(k) PROVE ListInv'
  BY <1>2, ReadSalonsKeepsList, EndLoadKeepsList
<1>3. CASE DeactivatedIds
  BY <1>3, LaunchKeepsList DEF DeactivatedIds, Reading
<1>4. CASE Crash
  BY <1>4, CrashKeepsList
<1>5. ASSUME NEW c \in Call, Deactivate(c) \/ Reactivate(c) PROVE ListInv'
  BY <1>5, SwitchKeepsList, ListUntouched DEF Deactivate, Reactivate
<1>6. ASSUME NEW c \in Call, Refresh(c) PROVE ListInv'
  BY <1>6, LaunchKeepsList DEF Refresh, Reading
<1>7. CASE ListActive
  BY <1>7, ListUntouched DEF ListActive
<1>8. ASSUME NEW c \in Call,
             \/ RevokeForCompany(c) \/ StartAccess(c) \/ ConsumeTicket(c) \/ ExpireTicket(c)
             \/ OwnerChanged(c) \/ RecordToken(c) \/ FinishOne(c) \/ CutToken(c)
      PROVE  ListInv'
  BY <1>8, ListUntouched
     DEF RevokeForCompany, StartAccess, ConsumeTicket, ExpireTicket, OwnerChanged, RecordToken,
         FinishOne, CutToken
<1>9. ASSUME NEW c \in Call, NEW a \in Access,
             \/ CheckSalon(c, a) \/ FindTicket(c, a) \/ TokenExpires(a)
             \/ \E r \in {"manual", "revoked"} : CloseAccess(c, a, r)
      PROVE  ListInv'
  BY <1>9, ListUntouched DEF CheckSalon, FindTicket, TokenExpires, CloseAccess
<1>10. ASSUME NEW a \in Access, TokenExpires(a) PROVE ListInv'
  BY <1>10, ListUntouched DEF TokenExpires
<1>. QED
  BY <1>1, <1>2, <1>3, <1>4, <1>5, <1>6, <1>7, <1>8, <1>9, <1>10 DEF AccessNext, Reading

\* The list in memory shows the salon as it is from the first reading launched
\* after the change that lands, in whatever order readings arrive
\* (DeactivatedCompaniesService.load).
THEOREM ListIsCurrentAlways == AccessSpec => []ListIsCurrent
<1>1. ListInv => ListIsCurrent
  BY DEF ListInv
<1>. QED BY <1>1, ListInitially, ListStep, PTL DEF AccessSpec

-----------------------------------------------------------------------------
(* The types of the calls and of the rows *)

SupportShape ==
  /\ unkicked \in BOOLEAN /\ changes \in Nat /\ crashes \in Nat
  /\ support \in [Access -> Row \cup {Nobody}]
  /\ token \in [Access -> {"none", "live", "expired"}]
  /\ opened \in [Access -> Nat]
  /\ cut \subseteq Access /\ slipped \subseteq Access /\ late \subseteq Access
  /\ call \in [Call -> CallState]

LEMMA RowIsSomebody == \A r \in Row : r # Nobody
BY DEF Row, Nobody

LEMMA CallFields ==
  ASSUME NEW x \in CallState
  PROVE  /\ x.pc \in {"insert", "consume", "open", "expire"} => x.access \in Access
         /\ x.pc \in {"refresh", "refreshed"} => x.claimed \in BOOLEAN
         /\ x.pc \in {"close", "cut"} =>
              /\ x.todo \subseteq Copy /\ x.now \in Copy \cup {Nobody}
              /\ x.reason \in {"manual", "revoked"} /\ x.claimed \in BOOLEAN
BY DEF CallState, Free

LEMMA FreeIsACall == Free \in CallState
BY DEF CallState

LEMMA RefreshIsACall ==
  ASSUME NEW b \in BOOLEAN, NEW pc \in {"refresh", "refreshed"}
  PROVE  [pc |-> pc, claimed |-> b] \in CallState
BY DEF CallState

LEMMA RefreshedIsACall ==
  ASSUME NEW x \in CallState, x.pc = "refresh"
  PROVE  [x EXCEPT !.pc = "refreshed"] \in CallState
BY DEF CallState, Free

LEMMA TicketIsACall ==
  ASSUME NEW a \in Access, NEW pc \in {"insert", "consume", "open", "expire"}
  PROVE  [pc |-> pc, access |-> a] \in CallState
BY DEF CallState

LEMMA ConsumedIsACall ==
  ASSUME NEW x \in CallState, x.pc = "consume", NEW pc \in {"open", "expire"}
  PROVE  /\ [x EXCEPT !.pc = pc] \in CallState
         /\ [x EXCEPT !.pc = pc].pc = pc
         /\ [x EXCEPT !.pc = pc].access = x.access
BY DEF CallState, Free

LEMMA CloseIsACall ==
  ASSUME NEW todo \in SUBSET Copy, NEW reason \in {"manual", "revoked"}, NEW b \in BOOLEAN
  PROVE  [pc |-> "close", todo |-> todo, now |-> Nobody, reason |-> reason, claimed |-> b]
           \in CallState
BY DEF CallState

LEMMA CutIsACall ==
  ASSUME NEW x \in CallState, x.pc = "close", NEW y \in Copy
  PROVE  /\ [x EXCEPT !.pc = "cut", !.now = y] \in CallState
         /\ [x EXCEPT !.pc = "cut", !.now = y].pc = "cut"
         /\ [x EXCEPT !.pc = "cut", !.now = y].now = y
         /\ [x EXCEPT !.pc = "cut", !.now = y].todo = x.todo
<1>1. x \in [pc : {"close", "cut"}, todo : SUBSET Copy, now : Copy \cup {Nobody},
            reason : {"manual", "revoked"}, claimed : BOOLEAN]
  BY DEF CallState, Free
<1>2. [x EXCEPT !.pc = "cut", !.now = y]
        \in [pc : {"close", "cut"}, todo : SUBSET Copy, now : Copy \cup {Nobody},
             reason : {"manual", "revoked"}, claimed : BOOLEAN]
  BY <1>1
<1>. QED BY <1>1, <1>2 DEF CallState

LEMMA AfterIsACall ==
  ASSUME SupportShape, NEW c \in Call, call[c].pc \in {"close", "cut"}, NEW x
  PROVE  /\ After(c, x) \in CallState
         /\ After(c, x).pc \in {"free", "close"}
         /\ After(c, x).pc = "close" => After(c, x).todo = call[c].todo \ {x}
<1>1. call[c] \in CallState
  BY DEF SupportShape
<1>2. call[c] \in [pc : {"close", "cut"}, todo : SUBSET Copy, now : Copy \cup {Nobody},
                   reason : {"manual", "revoked"}, claimed : BOOLEAN]
  BY <1>1 DEF CallState, Free
<1>3. [call[c] EXCEPT !.pc = "close", !.todo = @ \ {x}, !.now = Nobody]
        \in [pc : {"close", "cut"}, todo : SUBSET Copy, now : Copy \cup {Nobody},
             reason : {"manual", "revoked"}, claimed : BOOLEAN]
  BY <1>2
<1>4. /\ [call[c] EXCEPT !.pc = "close", !.todo = @ \ {x}, !.now = Nobody].pc = "close"
      /\ [call[c] EXCEPT !.pc = "close", !.todo = @ \ {x}, !.now = Nobody].todo
           = call[c].todo \ {x}
  BY <1>2
<1>. QED BY <1>3, <1>4, FreeIsACall DEF After, CallState, Free

-----------------------------------------------------------------------------
(* A ticket opens its access once *)

\* What a call relies on of the rows.
Fits(x) ==
  /\ x.pc \in {"consume", "open", "expire"} => support[x.access] \in Row
  /\ x.pc = "open" => support[x.access].used /\ opened[x.access] = 0
  /\ x.pc = "insert" => support[x.access] = Nobody
  /\ x.pc \in {"close", "cut"} => \A y \in x.todo : support[y.access] \in Row
  /\ x.pc = "cut" => x.now \in Copy

\* No two calls make the same access, nor open it.
Alone(c, x) ==
  x.pc \in {"insert", "open"} =>
    \A d \in Call \ {c} : call[d].pc = x.pc => call[d].access # x.access

OpenedIsUsed ==
  \A a \in Access : opened[a] <= 1 /\ (opened[a] > 0 => support[a] \in Row /\ support[a].used)

Tickets ==
  /\ \A c \in Call : Fits(call[c]) /\ Alone(c, call[c])
  /\ OpenedIsUsed

RowsKept ==
  \A a \in Access : /\ support[a] \in Row => support'[a] \in Row /\ (support[a].used => support'[a].used)
                    /\ support[a] = Nobody => support'[a] = Nobody

LEMMA RowsUntouched == ASSUME UNCHANGED support PROVE RowsKept
BY DEF RowsKept

LEMMA GotoChanges ==
  ASSUME SupportShape, NEW c \in Call, NEW x, Goto(c, x)
  PROVE  call'[c] = x /\ \A d \in Call \ {c} : call'[d] = call[d]
BY DEF Goto, SupportShape

\* The other calls keep what they rely on.
LEMMA OthersFit ==
  ASSUME SupportShape, Tickets, RowsKept, UNCHANGED opened, NEW d \in Call, call'[d] = call[d]
  PROVE  Fits(call[d])'
<1>1. call[d] \in CallState /\ Fits(call[d])
  BY DEF SupportShape, Tickets
<1>2. call[d].pc \in {"close", "cut"} => \A y \in call[d].todo : y.access \in Access
  BY <1>1, CallFields DEF Copy
<1>. QED BY <1>1, <1>2, CallFields DEF Fits, RowsKept

LEMMA KeepsTickets ==
  ASSUME SupportShape, Tickets, NEW c \in Call, NEW x \in CallState, Goto(c, x),
         RowsKept, UNCHANGED opened, Fits(x)', Alone(c, x)
  PROVE  Tickets' /\ call' \in [Call -> CallState]
<1>1. call'[c] = x /\ \A d \in Call \ {c} : call'[d] = call[d]
  BY GotoChanges
<1>2. ASSUME NEW d \in Call PROVE Fits(call[d])'
  <2>1. CASE d = c
    BY <1>1, <2>1 DEF Fits
  <2>2. CASE d # c
    BY <1>1, <2>2, OthersFit
  <2>. QED BY <2>1, <2>2
<1>3. ASSUME NEW d \in Call PROVE Alone(d, call[d])'
  BY <1>1 DEF Alone, Tickets
<1>4. OpenedIsUsed'
  BY DEF OpenedIsUsed, Tickets, RowsKept, SupportShape
<1>. QED BY <1>2, <1>3, <1>4 DEF Tickets, Goto, SupportShape

AccessInv == SupportShape /\ Tickets

LEMMA AccessInitially == AccessInit => AccessInv
<1>. SUFFICES ASSUME AccessInit PROVE AccessInv
  OBVIOUS
<1>1. /\ call = [c \in Call |-> Free] /\ support = [a \in Access |-> Nobody]
      /\ opened = [a \in Access |-> 0] /\ token = [a \in Access |-> "none"]
      /\ changes = 0 /\ crashes = 0 /\ unkicked = FALSE
      /\ cut = {} /\ slipped = {} /\ late = {}
  BY DEF AccessInit
<1>2. SupportShape
  BY <1>1, FreeIsACall DEF SupportShape
<1>3. \A c \in Call : call[c].pc = "free"
  BY <1>1 DEF Free
<1>4. \A c \in Call : Fits(call[c]) /\ Alone(c, call[c])
  BY <1>3 DEF Fits, Alone
<1>5. OpenedIsUsed
  BY <1>1 DEF OpenedIsUsed
<1>. QED BY <1>2, <1>4, <1>5 DEF AccessInv, Tickets

\* A call that ends relies on nothing.
LEMMA FreeFits ==
  ASSUME NEW c \in Call
  PROVE  Fits(Free)' /\ Alone(c, Free)
BY DEF Fits, Alone, Free

LEMMA SwitchingKeepsAccess ==
  ASSUME AccessInv, NEW c \in Call, NEW b \in BOOLEAN, changes' \in Nat,
         Goto(c, [pc |-> "refresh", claimed |-> b]), UNCHANGED <<supportVars, unkicked, crashes>>
  PROVE  AccessInv'
<1>. DEFINE x == [pc |-> "refresh", claimed |-> b]
<1>1. x \in CallState /\ Fits(x)' /\ Alone(c, x)
  BY RefreshIsACall DEF Fits, Alone
<1>2. Tickets' /\ call' \in [Call -> CallState]
  BY <1>1, KeepsTickets, RowsUntouched DEF AccessInv, supportVars
<1>. QED BY <1>2 DEF AccessInv, SupportShape, supportVars

LEMMA DeactivateKeepsAccess ==
  ASSUME AccessInv, ListShape, changes \in Nat, NEW c \in Call, Deactivate(c) \/ Reactivate(c)
  PROVE  AccessInv'
<1>1. changes' \in Nat
  BY DEF Deactivate, Reactivate, Switch, salonVars, AccessInv, SupportShape
<1>. QED
  BY <1>1, SwitchingKeepsAccess DEF Deactivate, Reactivate, ListShape

LEMMA RefreshKeepsAccess ==
  ASSUME AccessInv, NEW c \in Call, Refresh(c)
  PROVE  AccessInv'
<1>1. call[c] \in CallState /\ call[c].pc = "refresh"
  BY DEF Refresh, At, AccessInv, SupportShape
<1>2. PICK x \in CallState : x = [call[c] EXCEPT !.pc = "refreshed"]
  BY <1>1, RefreshedIsACall
<1>3. x.pc = "refreshed"
  BY <1>1, <1>2 DEF CallState, Free
<1>4. Fits(x)' /\ Alone(c, x)
  BY <1>3 DEF Fits, Alone
<1>5. Goto(c, x) /\ UNCHANGED <<support, opened>>
  BY <1>2 DEF Refresh, supportVars
<1>6. Tickets' /\ call' \in [Call -> CallState]
  BY <1>4, <1>5, KeepsTickets, RowsUntouched DEF AccessInv
<1>. QED BY <1>6 DEF AccessInv, SupportShape, Refresh, supportVars

LEMMA RevokeKeepsAccess ==
  ASSUME AccessInv, NEW c \in Call, RevokeForCompany(c)
  PROVE  AccessInv'
<1>1. \A a \in Open : a \in Access /\ support[a] \in Row
  BY DEF Open, AccessInv, SupportShape
<1>2. Copies(Open) \in SUBSET Copy /\ \A y \in Copies(Open) : support[y.access] \in Row
  BY <1>1 DEF Copies, Copy, Row
<1>3. PICK x \in CallState : x = [pc |-> "close", todo |-> Copies(Open), now |-> Nobody,
                                 reason |-> "revoked", claimed |-> TRUE]
  BY <1>2, CloseIsACall
<1>4. UNCHANGED <<support, opened>>
  BY DEF RevokeForCompany, supportVars
<1>5. Fits(x)' /\ Alone(c, x)
  BY <1>2, <1>3, <1>4 DEF Fits, Alone
<1>6. Goto(c, x) \/ Goto(c, Free)
  BY <1>3 DEF RevokeForCompany
<1>7. Tickets' /\ call' \in [Call -> CallState]
  BY <1>4, <1>5, <1>6, FreeFits, FreeIsACall, KeepsTickets, RowsUntouched DEF AccessInv
<1>. QED BY <1>7 DEF AccessInv, SupportShape, RevokeForCompany, supportVars, salonVars

LEMMA CheckSalonKeepsAccess ==
  ASSUME AccessInv, NEW c \in Call, NEW a \in Access, CheckSalon(c, a)
  PROVE  AccessInv'
<1>1. PICK x \in CallState : x = [pc |-> "insert", access |-> a]
  BY TicketIsACall
<1>2. Goto(c, x) /\ UNCHANGED <<support, opened>> /\ support[a] = Nobody
  BY <1>1 DEF CheckSalon, supportVars
<1>3. Fits(x)' /\ Alone(c, x)
  BY <1>1, <1>2 DEF Fits, Alone, CheckSalon
<1>4. Tickets' /\ call' \in [Call -> CallState]
  BY <1>2, <1>3, KeepsTickets, RowsUntouched DEF AccessInv
<1>. QED BY <1>4 DEF AccessInv, SupportShape, CheckSalon, supportVars, salonVars

LEMMA FindTicketKeepsAccess ==
  ASSUME AccessInv, NEW c \in Call, NEW a \in Access, FindTicket(c, a)
  PROVE  AccessInv'
<1>1. PICK x \in CallState : x = [pc |-> "consume", access |-> a]
  BY TicketIsACall
<1>2. Goto(c, x) /\ UNCHANGED <<support, opened>> /\ support[a] \in Row
  BY <1>1 DEF FindTicket, supportVars, AccessInv, SupportShape
<1>3. Fits(x)' /\ Alone(c, x)
  BY <1>1, <1>2 DEF Fits, Alone
<1>4. Tickets' /\ call' \in [Call -> CallState]
  BY <1>2, <1>3, KeepsTickets, RowsUntouched DEF AccessInv
<1>. QED BY <1>4 DEF AccessInv, SupportShape, FindTicket, supportVars, salonVars

LEMMA CloseAccessKeepsAccess ==
  ASSUME AccessInv, NEW c \in Call, NEW a \in Access, NEW r \in {"manual", "revoked"},
         CloseAccess(c, a, r)
  PROVE  AccessInv'
<1>1. support[a] \in Row /\ UNCHANGED <<support, opened>>
  BY DEF CloseAccess, supportVars, AccessInv, SupportShape
<1>2. Copies({a}) \in SUBSET Copy /\ \A y \in Copies({a}) : support[y.access] \in Row
  BY <1>1 DEF Copies, Copy, Row
<1>3. PICK x \in CallState : x = [pc |-> "close", todo |-> Copies({a}), now |-> Nobody,
                                 reason |-> r, claimed |-> FALSE]
  BY <1>2, CloseIsACall
<1>4. Goto(c, x)
  BY <1>3 DEF CloseAccess
<1>5. Fits(x)' /\ Alone(c, x)
  BY <1>1, <1>2, <1>3 DEF Fits, Alone
<1>6. Tickets' /\ call' \in [Call -> CallState]
  BY <1>1, <1>4, <1>5, KeepsTickets, RowsUntouched DEF AccessInv
<1>. QED BY <1>6 DEF AccessInv, SupportShape, CloseAccess, supportVars, salonVars

LEMMA StartAccessKeepsAccess ==
  ASSUME AccessInv, NEW c \in Call, StartAccess(c)
  PROVE  AccessInv'
<1>1. PICK a \in Access : /\ a = call[c].access /\ support[a] = Nobody
                          /\ support' = [support EXCEPT ![a] = Fresh]
                          /\ late' \in {late, late \cup {a}}
  <2>1. call[c] \in CallState /\ call[c].pc = "insert" /\ Fits(call[c])
    BY DEF StartAccess, At, AccessInv, SupportShape, Tickets
  <2>. QED BY <2>1, CallFields DEF StartAccess, Fits
<1>2. Fresh \in Row
  BY DEF Fresh, Row
<1>3. /\ call[c].pc = "insert" /\ UNCHANGED opened
      /\ call'[c] = Free /\ \A d \in Call \ {c} : call'[d] = call[d]
      /\ call' \in [Call -> CallState]
  BY GotoChanges, FreeIsACall DEF StartAccess, At, AccessInv, SupportShape, Goto
<1>4. SupportShape'
  BY <1>1, <1>2, <1>3 DEF AccessInv, SupportShape, StartAccess, salonVars
<1>5. /\ \A b \in Access : support[b] \in Row => b # a /\ support'[b] = support[b]
      /\ \A b \in Access : support[b] = Nobody /\ b # a => support'[b] = Nobody
  BY <1>1, RowIsSomebody DEF AccessInv, SupportShape
<1>6. ASSUME NEW d \in Call PROVE Fits(call[d])' /\ Alone(d, call[d])'
  <2>1. CASE d = c
    BY <1>3, <2>1 DEF Fits, Alone, Free
  <2>2. CASE d # c
    <3>1. /\ call[d] \in CallState /\ Fits(call[d]) /\ Alone(d, call[d]) /\ Alone(c, call[c])
          /\ call'[d] = call[d]
      BY <1>3, <2>2 DEF AccessInv, SupportShape, Tickets
    <3>2. call[d].pc \in {"close", "cut"} => \A y \in call[d].todo : y.access \in Access
      BY <3>1, CallFields DEF Copy
    <3>3. call[d].pc = "insert" => call[d].access # a
      BY <3>1, <1>1, <1>3, <2>2 DEF Alone
    <3>4. Fits(call[d])'
      BY <3>1, <3>2, <3>3, <1>3, <1>5, CallFields DEF Fits
    <3>5. Alone(d, call[d])'
      BY <3>1, <1>3 DEF Alone, Free
    <3>. QED BY <3>4, <3>5
  <2>. QED BY <2>1, <2>2
<1>7. OpenedIsUsed'
  BY <1>3, <1>5 DEF AccessInv, Tickets, OpenedIsUsed
<1>. QED BY <1>4, <1>6, <1>7 DEF AccessInv, Tickets

LEMMA ConsumeTicketKeepsAccess ==
  ASSUME AccessInv, NEW c \in Call, ConsumeTicket(c)
  PROVE  AccessInv'
<1>1. /\ call[c] \in CallState /\ call[c].pc = "consume" /\ UNCHANGED opened
      /\ call[c].access \in Access /\ support[call[c].access] \in Row
  BY CallFields DEF ConsumeTicket, At, AccessInv, SupportShape, Tickets, Fits
<1>. DEFINE a == call[c].access
<1>2. CASE support[a].used /\ Goto(c, Free) /\ UNCHANGED support
  <2>1. Tickets' /\ call' \in [Call -> CallState]
    BY <1>1, <1>2, FreeFits, FreeIsACall, KeepsTickets, RowsUntouched DEF AccessInv
  <2>. QED BY <2>1, <1>2 DEF AccessInv, SupportShape, ConsumeTicket, salonVars
<1>3. ASSUME NEW pc \in {"open", "expire"}, Consume(a), Goto(c, [call[c] EXCEPT !.pc = pc])
      PROVE  AccessInv'
  <2>1. /\ ~support[a].used
        /\ support' = [support EXCEPT ![a].ticket = FALSE, ![a].used = TRUE]
    BY <1>3 DEF Consume
  <2>2. support'[a] = [support[a] EXCEPT !.ticket = FALSE, !.used = TRUE]
        /\ \A b \in Access \ {a} : support'[b] = support[b]
    BY <2>1, <1>1 DEF AccessInv, SupportShape
  <2>3. support'[a] \in Row /\ support'[a].used
    BY <2>2, <1>1 DEF Row
  <2>4. opened[a] = 0
    BY <2>1, <1>1 DEF AccessInv, SupportShape, Tickets, OpenedIsUsed
  <2>5. RowsKept
    BY <2>2, <2>3, <1>1, RowIsSomebody DEF RowsKept, AccessInv, SupportShape
  <2>6. PICK x \in CallState : x = [call[c] EXCEPT !.pc = pc]
    BY <1>1, ConsumedIsACall
  <2>7. x.pc = pc /\ x.access = a
    BY <1>1, <2>6, ConsumedIsACall
  <2>8. Fits(x)'
    BY <2>7, <2>3, <2>4, <1>1 DEF Fits
  <2>9. Alone(c, x)
    BY <2>7, <2>1 DEF Alone, AccessInv, Tickets, Fits
  <2>10. Tickets' /\ call' \in [Call -> CallState]
    BY <1>1, <1>3, <2>5, <2>6, <2>8, <2>9, KeepsTickets DEF AccessInv
  <2>11. support' \in [Access -> Row \cup {Nobody}]
    BY <2>1, <2>2, <2>3 DEF AccessInv, SupportShape
  <2>. QED BY <2>10, <2>11 DEF AccessInv, SupportShape, ConsumeTicket, salonVars
<1>. QED BY <1>2, <1>3 DEF ConsumeTicket

\* Ending an access keeps its row.
LEMMA EndsKeepsRows ==
  ASSUME SupportShape, NEW a \in Access, support[a] \in Row,
         NEW reason \in {"manual", "revoked", "expired"}, Ends(a, reason)
  PROVE  RowsKept /\ support' \in [Access -> Row \cup {Nobody}]
<1>1. support'[a] = [support[a] EXCEPT !.ended = reason] /\ \A b \in Access \ {a} : support'[b] = support[b]
  BY DEF Ends, SupportShape
<1>2. support'[a] \in Row /\ support'[a].used = support[a].used
  BY <1>1 DEF Row
<1>. QED BY <1>1, <1>2, RowIsSomebody DEF RowsKept, Ends, SupportShape

LEMMA ExpireKeepsAccess ==
  ASSUME AccessInv, NEW c \in Call, ExpireTicket(c) \/ OwnerChanged(c)
  PROVE  AccessInv'
<1>1. /\ call[c] \in CallState /\ call[c].pc \in {"open", "expire"} /\ UNCHANGED opened
      /\ call[c].access \in Access /\ support[call[c].access] \in Row /\ Goto(c, Free)
  BY CallFields DEF ExpireTicket, OwnerChanged, At, AccessInv, SupportShape, Tickets, Fits
<1>2. RowsKept /\ support' \in [Access -> Row \cup {Nobody}]
  BY <1>1, EndsKeepsRows DEF ExpireTicket, OwnerChanged, AccessInv
<1>3. Tickets' /\ call' \in [Call -> CallState]
  BY <1>1, <1>2, FreeFits, FreeIsACall, KeepsTickets DEF AccessInv
<1>. QED BY <1>2, <1>3 DEF AccessInv, SupportShape, ExpireTicket, OwnerChanged, salonVars

LEMMA RecordTokenKeepsAccess ==
  ASSUME AccessInv, NEW c \in Call, RecordToken(c)
  PROVE  AccessInv'
<1>1. PICK a \in Access :
        /\ a = call[c].access /\ support[a] \in Row /\ support[a].used /\ opened[a] = 0
        /\ support' = [support EXCEPT ![a].recorded = TRUE]
        /\ token' = [token EXCEPT ![a] = "live"]
        /\ opened' = [opened EXCEPT ![a] = @ + 1]
        /\ slipped' \in {slipped, slipped \cup {a}}
  <2>1. call[c] \in CallState /\ call[c].pc = "open" /\ Fits(call[c])
    BY DEF RecordToken, At, AccessInv, SupportShape, Tickets
  <2>. QED BY <2>1, CallFields DEF RecordToken, Fits
<1>2. /\ call[c].pc = "open" /\ call'[c] = Free
      /\ \A d \in Call \ {c} : call'[d] = call[d]
      /\ call' \in [Call -> CallState]
  BY GotoChanges, FreeIsACall DEF RecordToken, At, AccessInv, SupportShape, Goto
<1>3. support'[a] = [support[a] EXCEPT !.recorded = TRUE] /\ \A b \in Access \ {a} : support'[b] = support[b]
  BY <1>1 DEF AccessInv, SupportShape
<1>4. support'[a] \in Row /\ support'[a].used
  <2>. DEFINE r == support[a]
  <2>1. r \in Row /\ r.used
    BY <1>1
  <2>2. [r EXCEPT !.recorded = TRUE] \in Row
    BY <2>1 DEF Row
  <2>3. [r EXCEPT !.recorded = TRUE].used = r.used
    BY <2>1 DEF Row
  <2>. QED BY <2>1, <2>2, <2>3, <1>3
<1>5. RowsKept
  BY <1>1, <1>3, <1>4, RowIsSomebody DEF RowsKept
<1>6. opened'[a] = 1 /\ \A b \in Access \ {a} : opened'[b] = opened[b]
  BY <1>1 DEF AccessInv, SupportShape
<1>7. SupportShape'
  <2>1. support' \in [Access -> Row \cup {Nobody}]
    BY <1>1, <1>3, <1>4 DEF AccessInv, SupportShape
  <2>2. opened' \in [Access -> Nat] /\ token' \in [Access -> {"none", "live", "expired"}]
    BY <1>1 DEF AccessInv, SupportShape
  <2>. QED BY <2>1, <2>2, <1>1, <1>2 DEF AccessInv, SupportShape, RecordToken, salonVars
<1>8. ASSUME NEW d \in Call PROVE Fits(call[d])' /\ Alone(d, call[d])'
  <2>1. CASE d = c
    BY <1>2, <2>1 DEF Fits, Alone, Free
  <2>2. CASE d # c
    <3>1. /\ call[d] \in CallState /\ Fits(call[d]) /\ Alone(d, call[d]) /\ Alone(c, call[c])
          /\ call'[d] = call[d]
      BY <1>2, <2>2 DEF AccessInv, SupportShape, Tickets
    <3>2. call[d].pc \in {"close", "cut"} => \A y \in call[d].todo : y.access \in Access
      BY <3>1, CallFields DEF Copy
    <3>3. call[d].pc = "open" => call[d].access # a
      BY <3>1, <1>1, <1>2, <2>2 DEF Alone
    <3>4. call[d].pc = "open" => opened'[call[d].access] = opened[call[d].access]
      BY <3>1, <3>3, <1>6, CallFields
    <3>5. Fits(call[d])'
      BY <3>1, <3>2, <3>4, <1>5, CallFields DEF Fits, RowsKept
    <3>6. Alone(d, call[d])'
      BY <3>1, <1>2 DEF Alone, Free
    <3>. QED BY <3>5, <3>6
  <2>. QED BY <2>1, <2>2
<1>9. OpenedIsUsed'
  BY <1>4, <1>5, <1>6 DEF AccessInv, Tickets, OpenedIsUsed, RowsKept
<1>. QED BY <1>7, <1>8, <1>9 DEF AccessInv, Tickets

\* Steps of no call that keep the rows.
LEMMA NoCallKeepsAccess ==
  ASSUME AccessInv, RowsKept, support' \in [Access -> Row \cup {Nobody}],
         token' \in [Access -> {"none", "live", "expired"}],
         UNCHANGED <<cut, opened, slipped, late, call, unkicked, changes, crashes>>
  PROVE  AccessInv'
<1>1. \A d \in Call : Fits(call[d])'
  BY OthersFit DEF AccessInv
<1>2. \A d \in Call : Alone(d, call[d])'
  BY DEF AccessInv, Tickets, Alone
<1>3. OpenedIsUsed'
  BY DEF AccessInv, Tickets, OpenedIsUsed, RowsKept, SupportShape
<1>. QED BY <1>1, <1>2, <1>3 DEF AccessInv, SupportShape, Tickets

LEMMA TokenExpiresKeepsAccess ==
  ASSUME AccessInv, NEW a \in Access, TokenExpires(a)
  PROVE  AccessInv'
<1>1. token' \in [Access -> {"none", "live", "expired"}]
  BY DEF TokenExpires, AccessInv, SupportShape
<1>2. RowsKept /\ support' \in [Access -> Row \cup {Nobody}]
  BY RowsUntouched DEF TokenExpires, AccessInv, SupportShape
<1>. QED BY <1>1, <1>2, NoCallKeepsAccess DEF TokenExpires, salonVars

LEMMA ListActiveKeepsAccess ==
  ASSUME AccessInv, ListActive
  PROVE  AccessInv'
<1>1. ASSUME NEW a \in Access
      PROVE  /\ support'[a] \in Row \cup {Nobody}
             /\ support[a] \in Row => support'[a] \in Row /\ (support[a].used => support'[a].used)
             /\ support[a] = Nobody => support'[a] = Nobody
  <2>1. support[a] \in Row \cup {Nobody}
    BY DEF AccessInv, SupportShape
  <2>2. \/ support'[a] = support[a]
        \/ support[a] # Nobody /\ support'[a] = [support[a] EXCEPT !.ended = "expired", !.ticket = FALSE]
    BY DEF ListActive
  <2>. QED BY <2>1, <2>2, RowIsSomebody DEF Row
<1>2. RowsKept /\ support' \in [Access -> Row \cup {Nobody}]
  BY <1>1 DEF RowsKept, ListActive
<1>3. token' \in [Access -> {"none", "live", "expired"}]
  BY DEF ListActive, AccessInv, SupportShape
<1>. QED BY <1>2, <1>3, NoCallKeepsAccess DEF ListActive, salonVars

LEMMA CrashKeepsAccess ==
  ASSUME AccessInv, Crash
  PROVE  AccessInv'
<1>1. /\ call' = [c \in Call |-> Free] /\ crashes' = crashes + 1
      /\ slipped' = slipped \cup {a \in Access : Cutting(a)}
      /\ unkicked' = (unkicked \/ Deactivating)
      /\ UNCHANGED <<changes, support, token, cut, opened, late>>
  BY DEF Crash
<1>2. SupportShape'
  BY <1>1, FreeIsACall DEF AccessInv, SupportShape
<1>3. \A c \in Call : call'[c].pc = "free"
  BY <1>1 DEF Free
<1>4. \A c \in Call : Fits(call[c])' /\ Alone(c, call[c])'
  BY <1>3 DEF Fits, Alone
<1>5. OpenedIsUsed'
  BY <1>1 DEF AccessInv, Tickets, OpenedIsUsed
<1>. QED BY <1>2, <1>4, <1>5 DEF AccessInv, Tickets

\* What closing leaves to the call that closes.
LEMMA AfterFits ==
  ASSUME AccessInv, NEW c \in Call, call[c].pc \in {"close", "cut"}, RowsKept, NEW y
  PROVE  \E x \in CallState : x = After(c, y) /\ Fits(x)' /\ Alone(c, x)
<1>1. /\ After(c, y) \in CallState
      /\ After(c, y).pc \in {"free", "close"}
      /\ After(c, y).pc = "close" => After(c, y).todo = call[c].todo \ {y}
  BY AfterIsACall DEF AccessInv
<1>2. PICK x \in CallState : x = After(c, y)
  BY <1>1
<1>3. \A z \in call[c].todo : z.access \in Access /\ support[z.access] \in Row
  BY CallFields DEF AccessInv, SupportShape, Tickets, Fits, Copy
<1>4. x.pc = "close" => \A z \in x.todo : support'[z.access] \in Row
  BY <1>1, <1>2, <1>3 DEF RowsKept
<1>5. Fits(x)' /\ Alone(c, x)
  BY <1>1, <1>2, <1>4 DEF Fits, Alone
<1>. QED BY <1>2, <1>5

LEMMA FinishOneKeepsAccess ==
  ASSUME AccessInv, NEW c \in Call, FinishOne(c)
  PROVE  AccessInv'
<1>1. /\ call[c].pc = "close" /\ call[c] \in CallState /\ Fits(call[c])
      /\ UNCHANGED <<token, cut, opened, late, changes, crashes>> /\ unkicked' \in BOOLEAN
  BY DEF FinishOne, At, AccessInv, SupportShape, Tickets, salonVars
<1>2. PICK y \in call[c].todo : Finish(c, y)
  BY DEF FinishOne
<1>3. y \in Copy /\ y.access \in Access /\ support[y.access] \in Row
  BY <1>1, <1>2, CallFields DEF Copy, Fits
<1>4. call[c].reason \in {"manual", "revoked"}
  BY <1>1, CallFields
<1>5. /\ RowsKept /\ support' \in [Access -> Row \cup {Nobody}] /\ slipped' \subseteq Access
  <2>1. CASE UNCHANGED <<support, slipped>>
    BY <2>1, RowsUntouched DEF AccessInv, SupportShape
  <2>2. CASE /\ support' = [support EXCEPT ![y.access].ticket = FALSE, ![y.access].ended = call[c].reason]
             /\ slipped' \in {slipped, slipped \cup {y.access}}
    <3>1. /\ support'[y.access] = [support[y.access] EXCEPT !.ticket = FALSE, !.ended = call[c].reason]
          /\ \A b \in Access \ {y.access} : support'[b] = support[b]
      BY <2>2, <1>3 DEF AccessInv, SupportShape
    <3>2. support'[y.access] \in Row /\ support'[y.access].used = support[y.access].used
      BY <3>1, <1>3, <1>4 DEF Row
    <3>3. RowsKept
      BY <3>1, <3>2, <1>3, RowIsSomebody DEF RowsKept
    <3>4. support' \in [Access -> Row \cup {Nobody}]
      BY <2>2, <3>1, <3>2 DEF AccessInv, SupportShape
    <3>. QED BY <3>3, <3>4, <2>2, <1>3 DEF AccessInv, SupportShape
  <2>. QED BY <1>2, <2>1, <2>2 DEF Finish
<1>6. PICK x \in CallState : Goto(c, x) /\ Fits(x)' /\ Alone(c, x)
  <2>1. CASE Goto(c, After(c, y))
    <3>1. PICK x \in CallState : x = After(c, y) /\ Fits(x)' /\ Alone(c, x)
      BY <1>1, <1>5, AfterFits
    <3>. QED BY <2>1, <3>1
  <2>2. CASE Goto(c, [call[c] EXCEPT !.pc = "cut", !.now = y])
    <3>1. PICK x \in CallState : x = [call[c] EXCEPT !.pc = "cut", !.now = y]
      BY <1>1, <1>3, CutIsACall
    <3>2. x.pc = "cut" /\ x.now = y /\ x.todo = call[c].todo
      BY <1>1, <1>3, <3>1, CutIsACall
    <3>3. \A z \in x.todo : z.access \in Access /\ support[z.access] \in Row
      BY <1>1, <3>2, CallFields DEF Copy, Fits
    <3>4. Fits(x)' /\ Alone(c, x)
      BY <3>2, <3>3, <1>3, <1>5 DEF Fits, Alone, RowsKept
    <3>. QED BY <2>2, <3>1, <3>4
  <2>. QED BY <1>2, <2>1, <2>2 DEF Finish
<1>7. Tickets' /\ call' \in [Call -> CallState]
  BY <1>1, <1>5, <1>6, KeepsTickets DEF AccessInv
<1>. QED BY <1>1, <1>5, <1>7 DEF AccessInv, SupportShape

LEMMA CutTokenKeepsAccess ==
  ASSUME AccessInv, NEW c \in Call, CutToken(c)
  PROVE  AccessInv'
<1>1. /\ call[c].pc = "cut" /\ call[c].now \in Copy
      /\ UNCHANGED <<support, token, opened, slipped, late, changes, crashes>>
      /\ unkicked' \in BOOLEAN
  BY DEF CutToken, At, AccessInv, SupportShape, Tickets, Fits, salonVars
<1>2. cut' \subseteq Access
  BY <1>1 DEF CutToken, Copy, AccessInv, SupportShape
<1>. DEFINE y == call[c].now
<1>3. PICK x \in CallState : x = After(c, y) /\ Fits(x)' /\ Alone(c, x)
  BY <1>1, AfterFits, RowsUntouched
<1>5. Goto(c, x)
  BY <1>3 DEF CutToken
<1>4. Tickets' /\ call' \in [Call -> CallState]
  BY <1>1, <1>3, <1>5, KeepsTickets, RowsUntouched DEF AccessInv
<1>. QED BY <1>1, <1>2, <1>4 DEF AccessInv, SupportShape

\* A reading moves no access.
LEMMA AccessUntouched ==
  ASSUME AccessInv, UNCHANGED <<supportVars, call, unkicked, changes, crashes>>
  PROVE  AccessInv'
<1>1. RowsKept /\ UNCHANGED <<cut, opened, slipped, late, support, token>>
  BY RowsUntouched DEF supportVars
<1>. QED BY <1>1, NoCallKeepsAccess DEF AccessInv, SupportShape

LEMMA AccessStep == ListInv /\ AccessInv /\ [AccessNext]_accessVars => AccessInv'
<1>. SUFFICES ASSUME ListInv, AccessInv, [AccessNext]_accessVars PROVE AccessInv'
  OBVIOUS
<1>1. CASE UNCHANGED accessVars
  BY <1>1, AccessUntouched DEF accessVars, supportVars
<1>2. ASSUME NEW k \in Reading, ReadSalons(k) \/ EndLoad(k) PROVE AccessInv'
  BY <1>2, AccessUntouched DEF ReadSalons, EndLoad
<1>3. CASE DeactivatedIds
  BY <1>3, AccessUntouched DEF DeactivatedIds
<1>4. CASE ListActive \/ Crash
  BY <1>4, ListActiveKeepsAccess, CrashKeepsAccess
<1>5. ASSUME NEW c \in Call, Deactivate(c) \/ Reactivate(c) PROVE AccessInv'
  BY <1>5, DeactivateKeepsAccess DEF ListInv, AccessInv, SupportShape
<1>6. ASSUME NEW c \in Call,
             \/ Refresh(c) \/ RevokeForCompany(c) \/ StartAccess(c) \/ ConsumeTicket(c)
             \/ ExpireTicket(c) \/ OwnerChanged(c) \/ RecordToken(c) \/ FinishOne(c) \/ CutToken(c)
      PROVE  AccessInv'
  BY <1>6, RefreshKeepsAccess, RevokeKeepsAccess, StartAccessKeepsAccess,
     ConsumeTicketKeepsAccess, ExpireKeepsAccess, RecordTokenKeepsAccess,
     FinishOneKeepsAccess, CutTokenKeepsAccess
<1>7. ASSUME NEW c \in Call, NEW a \in Access, CheckSalon(c, a) \/ FindTicket(c, a)
      PROVE  AccessInv'
  BY <1>7, CheckSalonKeepsAccess, FindTicketKeepsAccess
<1>8. ASSUME NEW c \in Call, NEW a \in Access, NEW r \in {"manual", "revoked"},
             CloseAccess(c, a, r)
      PROVE  AccessInv'
  BY <1>8, CloseAccessKeepsAccess
<1>9. ASSUME NEW a \in Access, TokenExpires(a) PROVE AccessInv'
  BY <1>9, TokenExpiresKeepsAccess
<1>. QED
  BY <1>1, <1>2, <1>3, <1>4, <1>5, <1>6, <1>7, <1>8, <1>9 DEF AccessNext, Reading

\* Of all the calls that bring one ticket, however they interleave with each
\* other, with the closing of the access and with crashes, at most one is given
\* a token (ImpersonationService.exchange).
THEOREM OneTicketOneToken == AccessSpec => []OneTokenPerTicket
<1>1. AccessInv => OneTokenPerTicket
  BY DEF AccessInv, Tickets, OpenedIsUsed, OneTokenPerTicket
<1>. QED
  BY <1>1, ListInitially, ListStep, AccessInitially, AccessStep, PTL DEF AccessSpec

\* Every call is at one of its awaits with what it carries there, every row and
\* token is in one of its states, and no reading applied is one that never began.
THEOREM AccessTypes == AccessSpec => []AccessTypeOK
<1>1. ListInv /\ AccessInv => AccessTypeOK
  BY DEF ListInv, ListShape, LoadRow, Numbered, Reading, AccessInv, SupportShape, AccessTypeOK
<1>. QED
  BY <1>1, ListInitially, ListStep, AccessInitially, AccessStep, PTL DEF AccessSpec

-----------------------------------------------------------------------------
(* The token of a closed access is cut *)

\* A token is given to a row that says so.
LiveIsRecorded ==
  \A a \in Access : token[a] # "none" => support[a] \in Row /\ support[a].recorded /\ opened[a] > 0

\* The call that consumed a ticket is alone with it until it opens or expires it.
Consuming(x) == x.pc \in {"open", "expire"}
Consumed(x) == Consuming(x) => /\ support[x.access] \in Row /\ support[x.access].used
                               /\ opened[x.access] = 0
ConsumesAlone(c, x) ==
  Consuming(x) => \A d \in Call \ {c} : Consuming(call[d]) => call[d].access # x.access
OneConsumer == \A c \in Call : Consumed(call[c]) /\ ConsumesAlone(c, call[c])

\* What is being cut was closed.
CutsClosed(x) ==
  x.pc = "cut" => /\ x.now \in Copy /\ support[x.now.access] \in Row
                  /\ support[x.now.access].ended # "no"
NowIsClosed == \A c \in Call : CutsClosed(call[c])

CutInv == LiveIsRecorded /\ OneConsumer /\ NowIsClosed /\ ClosedIsCut

\* A row is never unmade, used again, forgotten to be recorded or reopened.
RowsAge ==
  \A a \in Access : support[a] \in Row =>
    /\ support'[a] \in Row /\ (support[a].used => support'[a].used)
    /\ support[a].recorded => support'[a].recorded
    /\ support[a].ended # "no" => support'[a].ended # "no"

EndsNow(a) ==
  /\ support'[a] # Nobody /\ support'[a].ended # "no"
  /\ support[a] = Nobody \/ support[a].ended = "no"

LEMMA RowsSame == ASSUME UNCHANGED support PROVE RowsAge /\ \A a \in Access : ~EndsNow(a)
BY DEF RowsAge, EndsNow

LEMMA OthersCut ==
  ASSUME AccessInv, CutInv, RowsAge, NEW d \in Call, call'[d] = call[d]
  PROVE  /\ CutsClosed(call[d])'
         /\ Consuming(call[d]) => support'[call[d].access] \in Row /\ support'[call[d].access].used
<1>1. call[d] \in CallState /\ CutsClosed(call[d]) /\ Consumed(call[d])
  BY DEF AccessInv, SupportShape, CutInv, NowIsClosed, OneConsumer
<1>2. Consuming(call[d]) => call[d].access \in Access
  BY <1>1, CallFields DEF Consuming
<1>3. call[d].pc = "cut" => call[d].now.access \in Access
  BY <1>1 DEF CutsClosed, Copy
<1>. QED BY <1>1, <1>2, <1>3 DEF CutsClosed, Consumed, RowsAge

\* A step of a call that gives no token.
LEMMA KeepsCuts ==
  ASSUME AccessInv, CutInv, RowsAge, UNCHANGED <<token, opened>>,
         NEW c \in Call, NEW x \in CallState, Goto(c, x),
         cut \subseteq cut', slipped \subseteq slipped',
         call[c].pc = "cut" => call[c].now.access \in cut',
         CutsClosed(x)', Consumed(x)', ConsumesAlone(c, x),
         \A a \in Access : EndsNow(a) /\ token[a] = "live" =>
           a \in slipped' \/ (x.pc = "cut" /\ x.now.access = a)
  PROVE  CutInv'
<1>1. call'[c] = x /\ \A d \in Call \ {c} : call'[d] = call[d]
  BY GotoChanges DEF AccessInv
<1>2. LiveIsRecorded'
  BY DEF CutInv, LiveIsRecorded, RowsAge
<1>3. NowIsClosed'
  <2>. SUFFICES ASSUME NEW d \in Call PROVE CutsClosed(call[d])'
    BY DEF NowIsClosed
  <2>1. CASE d = c
    BY <1>1, <2>1 DEF CutsClosed
  <2>2. CASE d # c
    BY <1>1, <2>2, OthersCut
  <2>. QED BY <2>1, <2>2
<1>4. ASSUME NEW d \in Call PROVE Consumed(call[d])'
  <2>1. CASE d = c
    BY <1>1, <2>1 DEF Consumed, Consuming
  <2>2. CASE d # c
    <3>1. call'[d] = call[d] /\ Consumed(call[d])
      BY <1>1, <2>2 DEF CutInv, OneConsumer
    <3>. QED BY <3>1, OthersCut DEF Consumed, Consuming
  <2>. QED BY <2>1, <2>2
<1>5. ASSUME NEW d \in Call PROVE ConsumesAlone(d, call[d])'
  BY <1>1 DEF CutInv, OneConsumer, ConsumesAlone, Consuming
<1>6. ClosedIsCut'
  <2>. SUFFICES ASSUME NEW a \in Access, support'[a] # Nobody, support'[a].ended # "no", token[a] = "live",
                       a \notin cut', a \notin slipped'
                PROVE  \E d \in Call : call'[d].pc = "cut" /\ call'[d].now.access = a
    BY DEF ClosedIsCut, Cutting, At
  <2>1. CASE EndsNow(a)
    BY <1>1, <2>1
  <2>2. CASE ~EndsNow(a)
    <3>1. support[a] # Nobody /\ support[a].ended # "no"
      BY <2>2 DEF EndsNow
    <3>2. PICK d \in Call : call[d].pc = "cut" /\ call[d].now.access = a
      BY <3>1 DEF CutInv, ClosedIsCut, Cutting, At
    <3>3. d # c
      BY <3>2
    <3>. QED BY <1>1, <3>2, <3>3
  <2>. QED BY <2>1, <2>2
<1>. QED BY <1>2, <1>3, <1>4, <1>5, <1>6 DEF CutInv, OneConsumer

\* A step of a call that leaves the rows and goes on to neither open nor cut.
LEMMA PlainKeepsCuts ==
  ASSUME AccessInv, CutInv, UNCHANGED supportVars, NEW c \in Call, NEW x \in CallState,
         Goto(c, x), x.pc \notin {"open", "expire", "cut"}, call[c].pc # "cut"
  PROVE  CutInv'
<1>1. RowsAge /\ \A a \in Access : ~EndsNow(a)
  BY RowsSame DEF supportVars
<1>2. CutsClosed(x)' /\ Consumed(x)' /\ ConsumesAlone(c, x)
  BY DEF CutsClosed, Consumed, ConsumesAlone, Consuming
<1>3. UNCHANGED <<token, opened>> /\ cut \subseteq cut' /\ slipped \subseteq slipped'
  BY DEF supportVars
<1>. QED BY <1>1, <1>2, <1>3, KeepsCuts

LEMMA CallsKeepCuts ==
  ASSUME AccessInv, CutInv, off \in BOOLEAN, NEW c \in Call,
         \/ Deactivate(c) \/ Reactivate(c) \/ Refresh(c) \/ RevokeForCompany(c)
         \/ (\E a \in Access : CheckSalon(c, a) \/ FindTicket(c, a))
         \/ (\E a \in Access, r \in {"manual", "revoked"} : CloseAccess(c, a, r))
  PROVE  CutInv'
<1>1. CASE Deactivate(c) \/ Reactivate(c)
  <2>1. /\ UNCHANGED supportVars /\ call[c].pc = "free"
        /\ \E b \in BOOLEAN : Goto(c, [pc |-> "refresh", claimed |-> b])
    BY <1>1 DEF Deactivate, Reactivate, At
  <2>2. PICK b \in BOOLEAN : Goto(c, [pc |-> "refresh", claimed |-> b])
    BY <2>1
  <2>. QED BY <2>1, <2>2, RefreshIsACall, PlainKeepsCuts
<1>2. CASE Refresh(c)
  <2>1. call[c] \in CallState /\ call[c].pc = "refresh"
    BY <1>2 DEF Refresh, At, AccessInv, SupportShape
  <2>2. [call[c] EXCEPT !.pc = "refreshed"] \in CallState
    BY <2>1, RefreshedIsACall
  <2>3. [call[c] EXCEPT !.pc = "refreshed"].pc = "refreshed"
    BY <2>1 DEF CallState, Free
  <2>. QED BY <1>2, <2>1, <2>2, <2>3, PlainKeepsCuts DEF Refresh
<1>3. CASE RevokeForCompany(c)
  <2>. DEFINE x == [pc |-> "close", todo |-> Copies(Open), now |-> Nobody,
                    reason |-> "revoked", claimed |-> TRUE]
  <2>1. Copies(Open) \in SUBSET Copy
    BY DEF Copies, Copy, Open, Row, AccessInv, SupportShape
  <2>2. x \in CallState /\ x.pc = "close"
    BY <2>1, CloseIsACall
  <2>3. (Goto(c, x) \/ Goto(c, Free)) /\ UNCHANGED supportVars /\ call[c].pc = "refreshed"
    BY <1>3 DEF RevokeForCompany, At, supportVars
  <2>. HIDE DEF x
  <2>4. Free.pc = "free"
    BY DEF Free
  <2>. QED BY <2>2, <2>3, <2>4, FreeIsACall, PlainKeepsCuts
<1>4. CASE \E a \in Access : CheckSalon(c, a) \/ FindTicket(c, a)
  <2>1. PICK a \in Access : CheckSalon(c, a) \/ FindTicket(c, a)
    BY <1>4
  <2>2. /\ UNCHANGED supportVars /\ call[c].pc = "free"
        /\ \E pc \in {"insert", "consume"} : Goto(c, [pc |-> pc, access |-> a])
    BY <2>1 DEF CheckSalon, FindTicket, At
  <2>3. PICK pc \in {"insert", "consume"} : Goto(c, [pc |-> pc, access |-> a])
    BY <2>2
  <2>. QED BY <2>2, <2>3, TicketIsACall, PlainKeepsCuts
<1>5. CASE \E a \in Access, r \in {"manual", "revoked"} : CloseAccess(c, a, r)
  <2>1. PICK a \in Access, r \in {"manual", "revoked"} : CloseAccess(c, a, r)
    BY <1>5
  <2>. DEFINE x == [pc |-> "close", todo |-> Copies({a}), now |-> Nobody,
                    reason |-> r, claimed |-> FALSE]
  <2>2. /\ UNCHANGED supportVars /\ call[c].pc = "free" /\ support[a] # Nobody /\ Goto(c, x)
    BY <2>1 DEF CloseAccess, At
  <2>3. Copies({a}) \in SUBSET Copy
    BY <2>2 DEF Copies, Copy, Row, AccessInv, SupportShape
  <2>4. x \in CallState /\ x.pc = "close"
    BY <2>3, CloseIsACall
  <2>. HIDE DEF x
  <2>. QED BY <2>2, <2>4, PlainKeepsCuts
<1>. QED BY <1>1, <1>2, <1>3, <1>4, <1>5

LEMMA StartKeepsCuts ==
  ASSUME AccessInv, CutInv, NEW c \in Call, StartAccess(c)
  PROVE  CutInv'
<1>1. PICK a \in Access : /\ a = call[c].access /\ support[a] = Nobody
                         /\ support' = [support EXCEPT ![a] = Fresh]
                         /\ Goto(c, Free) /\ call[c].pc = "insert"
                         /\ UNCHANGED <<token, cut, opened, slipped>>
  <2>1. call[c].pc = "insert" /\ call[c] \in CallState /\ Fits(call[c])
    BY DEF StartAccess, At, AccessInv, SupportShape, Tickets
  <2>. QED BY <2>1, CallFields DEF StartAccess, Fits
<1>2. support'[a] = Fresh /\ \A b \in Access \ {a} : support'[b] = support[b]
  BY <1>1 DEF AccessInv, SupportShape
<1>3. RowsAge /\ \A b \in Access : ~EndsNow(b)
  BY <1>1, <1>2, RowIsSomebody DEF RowsAge, EndsNow, Fresh
<1>4. CutsClosed(Free)' /\ Consumed(Free)' /\ ConsumesAlone(c, Free)
  BY DEF CutsClosed, Consumed, ConsumesAlone, Consuming, Free
<1>. QED BY <1>1, <1>3, <1>4, FreeIsACall, KeepsCuts

LEMMA ConsumeKeepsCuts ==
  ASSUME AccessInv, CutInv, NEW c \in Call, ConsumeTicket(c)
  PROVE  CutInv'
<1>. DEFINE a == call[c].access
<1>1. call[c].pc = "consume" /\ call[c] \in CallState /\ Fits(call[c])
  BY DEF ConsumeTicket, At, AccessInv, SupportShape, Tickets
<1>2. a \in Access /\ support[a] \in Row
  BY <1>1, CallFields DEF Fits
<1>3. UNCHANGED <<token, cut, opened, slipped>>
  BY DEF ConsumeTicket
<1>4. CASE Goto(c, Free) /\ UNCHANGED support
  <2>1. RowsAge /\ \A b \in Access : ~EndsNow(b)
    BY <1>4, RowsSame
  <2>2. CutsClosed(Free)' /\ Consumed(Free)' /\ ConsumesAlone(c, Free)
    BY DEF CutsClosed, Consumed, ConsumesAlone, Consuming, Free
  <2>. QED BY <1>1, <1>3, <1>4, <2>1, <2>2, FreeIsACall, KeepsCuts
<1>5. CASE Consume(a) /\ \E pc \in {"open", "expire"} : Goto(c, [call[c] EXCEPT !.pc = pc])
  <2>1. PICK pc \in {"open", "expire"} : Goto(c, [call[c] EXCEPT !.pc = pc])
    BY <1>5
  <2>2. PICK x \in CallState : x = [call[c] EXCEPT !.pc = pc] /\ x.pc = pc /\ x.access = a
    BY <1>1, ConsumedIsACall, ZenonT(30)
  <2>. DEFINE old == support[a]
  <2>3. /\ support'[a] = [old EXCEPT !.ticket = FALSE, !.used = TRUE] /\ ~old.used
        /\ \A b \in Access \ {a} : support'[b] = support[b]
    BY <1>2, <1>5 DEF Consume, AccessInv, SupportShape
  <2>4. old \in Row
    BY <1>2
  <2>5. support'[a] \in Row /\ support'[a].used /\ support'[a].recorded = old.recorded
        /\ support'[a].ended = old.ended
    <3>. HIDE DEF old
    <3>. QED BY <2>3, <2>4 DEF Row
  <2>6. RowsAge
    BY <2>3, <2>5 DEF RowsAge
  <2>7. \A b \in Access : ~EndsNow(b)
    BY <2>3, <2>4, <2>5, RowIsSomebody DEF EndsNow
  <2>8. opened[a] = 0
    BY <1>2, <2>3 DEF AccessInv, Tickets, OpenedIsUsed, SupportShape
  <2>9. CutsClosed(x)' /\ Consumed(x)'
    BY <1>3, <2>2, <2>5, <2>8 DEF CutsClosed, Consumed, Consuming
  <2>10. ConsumesAlone(c, x)
    BY <2>2, <2>3 DEF ConsumesAlone, CutInv, OneConsumer, Consumed
  <2>. QED BY <1>1, <1>3, <2>1, <2>2, <2>6, <2>7, <2>9, <2>10, KeepsCuts
<1>. QED BY <1>4, <1>5 DEF ConsumeTicket

\* The call that consumed a ticket ends the access, which has no token.
LEMMA EndsKeepsCuts ==
  ASSUME AccessInv, CutInv, NEW c \in Call, ExpireTicket(c) \/ OwnerChanged(c)
  PROVE  CutInv'
<1>. DEFINE a == call[c].access
<1>1. /\ Consuming(call[c]) /\ call[c] \in CallState /\ Consumed(call[c])
      /\ Goto(c, Free) /\ UNCHANGED <<token, cut, opened, slipped>>
      /\ Ends(a, "expired") \/ Ends(a, "revoked")
  BY DEF ExpireTicket, OwnerChanged, At, AccessInv, SupportShape, CutInv, OneConsumer, Consuming
<1>2. a \in Access /\ support[a] \in Row /\ opened[a] = 0
  BY <1>1, CallFields DEF Consumed, Consuming
<1>3. token[a] = "none"
  BY <1>2 DEF CutInv, LiveIsRecorded
<1>. DEFINE old == support[a]
<1>4. PICK r \in {"expired", "revoked"} :
        /\ support'[a] = [old EXCEPT !.ended = r]
        /\ \A b \in Access \ {a} : support'[b] = support[b]
  BY <1>1, <1>2 DEF Ends, AccessInv, SupportShape
<1>5. support'[a] \in Row /\ support'[a].used = old.used /\ support'[a].recorded = old.recorded
      /\ support'[a].ended # "no"
  <2>1. old \in Row
    BY <1>2
  <2>. HIDE DEF old
  <2>. QED BY <1>4, <2>1 DEF Row
<1>6. RowsAge /\ \A b \in Access : EndsNow(b) => token[b] # "live"
  BY <1>3, <1>4, <1>5 DEF RowsAge, EndsNow
<1>7. CutsClosed(Free)' /\ Consumed(Free)' /\ ConsumesAlone(c, Free)
  BY DEF CutsClosed, Consumed, ConsumesAlone, Consuming, Free
<1>8. call[c].pc # "cut"
  BY <1>1 DEF Consuming
<1>. QED BY <1>1, <1>6, <1>7, <1>8, FreeIsACall, KeepsCuts

LEMMA RecordTokenKeepsCuts ==
  ASSUME AccessInv, CutInv, NEW c \in Call, RecordToken(c)
  PROVE  CutInv'
<1>. DEFINE a == call[c].access
            old == support[a]
<1>1. /\ call[c].pc = "open" /\ call[c] \in CallState /\ Consumed(call[c])
      /\ ConsumesAlone(c, call[c])
      /\ support' = [support EXCEPT ![a].recorded = TRUE] /\ token' = [token EXCEPT ![a] = "live"]
      /\ opened' = [opened EXCEPT ![a] = @ + 1] /\ Goto(c, Free) /\ UNCHANGED cut
      /\ slipped' = IF support[a].ended = "no" THEN slipped ELSE slipped \cup {a}
  BY DEF RecordToken, At, AccessInv, SupportShape, CutInv, OneConsumer
<1>2. a \in Access /\ old \in Row /\ old.used /\ opened[a] = 0
  BY <1>1, CallFields DEF Consumed, Consuming
<1>3. /\ call'[c] = Free /\ \A d \in Call \ {c} : call'[d] = call[d]
      /\ support'[a] = [old EXCEPT !.recorded = TRUE]
      /\ opened'[a] = 1 /\ token'[a] = "live"
      /\ \A b \in Access \ {a} : support'[b] = support[b] /\ opened'[b] = opened[b] /\ token'[b] = token[b]
  <2>1. call'[c] = Free /\ \A d \in Call \ {c} : call'[d] = call[d]
    BY <1>1, GotoChanges DEF AccessInv
  <2>2. support'[a] = [old EXCEPT !.recorded = TRUE] /\ \A b \in Access \ {a} : support'[b] = support[b]
    BY <1>1, <1>2 DEF AccessInv, SupportShape
  <2>3. opened'[a] = 1 /\ \A b \in Access \ {a} : opened'[b] = opened[b]
    BY <1>1, <1>2 DEF AccessInv, SupportShape
  <2>4. token'[a] = "live" /\ \A b \in Access \ {a} : token'[b] = token[b]
    BY <1>1, <1>2 DEF AccessInv, SupportShape
  <2>. QED BY <2>1, <2>2, <2>3, <2>4
<1>4. support'[a] \in Row /\ support'[a].used = old.used /\ support'[a].ended = old.ended /\ support'[a].recorded
  <2>. HIDE DEF old
  <2>. QED BY <1>2, <1>3 DEF Row
<1>5. RowsAge
  BY <1>2, <1>3, <1>4 DEF RowsAge
<1>6. LiveIsRecorded'
  <2>. SUFFICES ASSUME NEW b \in Access, token'[b] # "none"
                PROVE  support'[b] \in Row /\ support'[b].recorded /\ opened'[b] > 0
    BY DEF LiveIsRecorded
  <2>1. CASE b = a
    <3>1. opened'[b] > 0
      BY <1>3, <2>1
    <3>2. support'[b] \in Row /\ support'[b].recorded
      BY <1>4, <2>1, Zenon
    <3>. QED BY <3>1, <3>2
  <2>2. CASE b # a
    BY <1>3, <2>2 DEF CutInv, LiveIsRecorded
  <2>. QED BY <2>1, <2>2
<1>7. Free.pc = "free"
  BY DEF Free
<1>8. NowIsClosed'
  BY <1>3, <1>5, <1>7, OthersCut DEF NowIsClosed, CutsClosed
<1>9. ASSUME NEW d \in Call PROVE Consumed(call[d])' /\ ConsumesAlone(d, call[d])'
  <2>1. CASE d = c
    BY <1>3, <1>7, <2>1 DEF Consumed, ConsumesAlone, Consuming
  <2>2. CASE d # c
    <3>1. /\ call'[d] = call[d] /\ Consumed(call[d]) /\ ConsumesAlone(d, call[d])
          /\ call[d] \in CallState
      BY <1>3, <2>2 DEF CutInv, OneConsumer, AccessInv, SupportShape
    <3>2. Consuming(call[d]) => call[d].access \in Access /\ call[d].access # a
      BY <1>1, <2>2, <3>1, CallFields DEF ConsumesAlone, Consuming
    <3>3. Consumed(call[d])'
      BY <1>3, <1>5, <3>1, <3>2, OthersCut DEF Consumed, Consuming
    <3>4. ConsumesAlone(d, call[d])'
      BY <1>3, <1>7, <3>1 DEF ConsumesAlone, Consuming
    <3>. QED BY <3>3, <3>4
  <2>. QED BY <2>1, <2>2
<1>10. ClosedIsCut'
  <2>. SUFFICES ASSUME NEW b \in Access, support'[b] # Nobody, support'[b].ended # "no", token'[b] = "live"
                PROVE  \/ b \in cut' \/ b \in slipped'
                       \/ \E d \in Call : call'[d].pc = "cut" /\ call'[d].now.access = b
    BY DEF ClosedIsCut, Cutting, At
  <2>1. CASE b = a
    BY <1>1, <1>4, <2>1
  <2>2. CASE b # a
    <3>1. b \in cut \/ b \in slipped \/ \E d \in Call : call[d].pc = "cut" /\ call[d].now.access = b
      BY <1>3, <2>2 DEF CutInv, ClosedIsCut, Cutting, At
    <3>. QED BY <1>1, <1>3, <3>1
  <2>. QED BY <2>1, <2>2
<1>. QED BY <1>6, <1>8, <1>9, <1>10 DEF CutInv, OneConsumer

LEMMA FinishOneKeepsCuts ==
  ASSUME AccessInv, CutInv, NEW c \in Call, FinishOne(c)
  PROVE  CutInv'
<1>1. /\ call[c].pc = "close" /\ call[c] \in CallState /\ Fits(call[c])
      /\ UNCHANGED <<token, cut, opened>>
  BY DEF FinishOne, At, AccessInv, SupportShape, Tickets
<1>2. PICK y \in call[c].todo : Finish(c, y)
  BY DEF FinishOne
<1>. DEFINE a == y.access
            old == support[a]
<1>3. y \in Copy /\ a \in Access /\ old \in Row
  BY <1>1, <1>2, CallFields DEF Copy, Fits
<1>4. CASE Goto(c, After(c, y)) /\ UNCHANGED <<support, slipped>>
  <2>1. PICK x \in CallState : x = After(c, y) /\ x.pc \in {"free", "close"}
    BY <1>1, AfterIsACall DEF AccessInv
  <2>2. CutsClosed(x)' /\ Consumed(x)' /\ ConsumesAlone(c, x)
    BY <2>1 DEF CutsClosed, Consumed, ConsumesAlone, Consuming
  <2>3. RowsAge /\ \A b \in Access : ~EndsNow(b)
    BY <1>4, RowsSame
  <2>. QED BY <1>1, <1>4, <2>1, <2>2, <2>3, KeepsCuts
<1>5. CASE /\ old.ended = "no"
           /\ support' = [support EXCEPT ![a].ticket = FALSE, ![a].ended = call[c].reason]
           /\ Goto(c, IF y.recorded THEN [call[c] EXCEPT !.pc = "cut", !.now = y] ELSE After(c, y))
           /\ slipped' = IF y.recorded = support[a].recorded THEN slipped ELSE slipped \cup {a}
  <2>1. call[c].reason \in {"manual", "revoked"}
    BY <1>1, CallFields
  <2>2. /\ support'[a] = [old EXCEPT !.ticket = FALSE, !.ended = call[c].reason]
        /\ \A b \in Access \ {a} : support'[b] = support[b]
    BY <1>3, <1>5 DEF AccessInv, SupportShape
  <2>3. support'[a] \in Row /\ support'[a].used = old.used /\ support'[a].recorded = old.recorded
        /\ support'[a].ended # "no"
    <3>1. old \in Row
      BY <1>3
    <3>. HIDE DEF old
    <3>. QED BY <2>1, <2>2, <3>1 DEF Row
  <2>4. RowsAge
    BY <2>2, <2>3 DEF RowsAge
  <2>5. \A b \in Access : EndsNow(b) => b = a
    BY <2>2 DEF EndsNow
  <2>6. CASE y.recorded
    <3>1. PICK x \in CallState : x = [call[c] EXCEPT !.pc = "cut", !.now = y]
      BY <1>1, <1>3, CutIsACall
    <3>2. x.pc = "cut" /\ x.now = y
      BY <1>1, <1>3, <3>1, CutIsACall
    <3>3. CutsClosed(x)' /\ Consumed(x)' /\ ConsumesAlone(c, x)
      BY <1>3, <2>3, <3>2 DEF CutsClosed, Consumed, ConsumesAlone, Consuming
    <3>4. Goto(c, x) /\ slipped \subseteq slipped'
      BY <1>5, <2>6, <3>1
    <3>. QED BY <1>1, <2>4, <2>5, <3>2, <3>3, <3>4, KeepsCuts
  <2>7. CASE ~y.recorded
    <3>1. PICK x \in CallState : x = After(c, y) /\ x.pc \in {"free", "close"}
      BY <1>1, AfterIsACall DEF AccessInv
    <3>2. CutsClosed(x)' /\ Consumed(x)' /\ ConsumesAlone(c, x)
      BY <3>1 DEF CutsClosed, Consumed, ConsumesAlone, Consuming
    <3>3. Goto(c, x) /\ slipped \subseteq slipped'
      BY <1>5, <2>7, <3>1
    <3>4. token[a] = "live" => a \in slipped'
      <4>1. token[a] = "live" => support[a].recorded
        BY <1>3 DEF CutInv, LiveIsRecorded
      <4>2. y.recorded \in BOOLEAN /\ support[a].recorded \in BOOLEAN
        BY <1>3 DEF Copy, Row
      <4>3. y.recorded = support[a].recorded \/ slipped' = slipped \cup {a}
        BY <1>5
      <4>. QED BY <2>7, <4>1, <4>2, <4>3
    <3>. QED BY <1>1, <2>4, <2>5, <3>2, <3>3, <3>4, KeepsCuts
  <2>. QED BY <2>6, <2>7
<1>. QED BY <1>2, <1>4, <1>5 DEF Finish

LEMMA CutTokenKeepsCuts ==
  ASSUME AccessInv, CutInv, NEW c \in Call, CutToken(c)
  PROVE  CutInv'
<1>1. /\ call[c].pc = "cut" /\ cut' = cut \cup {call[c].now.access}
      /\ Goto(c, After(c, call[c].now)) /\ UNCHANGED <<support, token, opened, slipped>>
  BY DEF CutToken, At
<1>2. PICK x \in CallState : x = After(c, call[c].now) /\ x.pc \in {"free", "close"}
  BY <1>1, AfterIsACall DEF AccessInv
<1>3. CutsClosed(x)' /\ Consumed(x)' /\ ConsumesAlone(c, x)
  BY <1>2 DEF CutsClosed, Consumed, ConsumesAlone, Consuming
<1>4. RowsAge /\ \A b \in Access : ~EndsNow(b)
  BY <1>1, RowsSame
<1>. QED BY <1>1, <1>2, <1>3, <1>4, KeepsCuts

LEMMA ListActiveKeepsCuts ==
  ASSUME AccessInv, CutInv, ListActive
  PROVE  CutInv' /\ RowsAge
<1>1. ASSUME NEW a \in Access
      PROVE  /\ support[a] \in Row => /\ support'[a] \in Row /\ support'[a].used = support[a].used
                                      /\ support'[a].recorded = support[a].recorded
                                      /\ support[a].ended # "no" => support'[a].ended # "no"
             /\ support'[a] = support[a] \/ token[a] = "expired"
  <2>. DEFINE old == support[a]
  <2>1. \/ support'[a] = old
        \/ /\ token[a] = "expired" /\ old # Nobody
           /\ support'[a] = [old EXCEPT !.ended = "expired", !.ticket = FALSE]
    BY DEF ListActive
  <2>. HIDE DEF old
  <2>2. old \in Row => /\ support'[a] \in Row /\ support'[a].used = old.used
                       /\ support'[a].recorded = old.recorded
                       /\ old.ended # "no" => support'[a].ended # "no"
    BY <2>1 DEF Row
  <2>. QED BY <2>1, <2>2 DEF old
<1>2. RowsAge /\ \A a \in Access : token[a] = "live" => support'[a] = support[a]
  BY <1>1 DEF RowsAge
<1>3. UNCHANGED <<token, cut, opened, slipped, call>>
  BY DEF ListActive
<1>4. LiveIsRecorded'
  BY <1>2, <1>3 DEF CutInv, LiveIsRecorded, RowsAge
<1>5. NowIsClosed'
  BY <1>2, <1>3, OthersCut DEF NowIsClosed
<1>6. OneConsumer'
  <2>1. ASSUME NEW d \in Call PROVE Consumed(call[d])' /\ ConsumesAlone(d, call[d])'
    BY <1>2, <1>3, OthersCut DEF CutInv, OneConsumer, Consumed, ConsumesAlone, Consuming
  <2>. QED BY <2>1 DEF OneConsumer
<1>7. ClosedIsCut'
  BY <1>2, <1>3 DEF CutInv, ClosedIsCut, Cutting, At
<1>. QED BY <1>2, <1>4, <1>5, <1>6, <1>7 DEF CutInv

LEMMA CrashKeepsCuts ==
  ASSUME AccessInv, CutInv, Crash
  PROVE  CutInv'
<1>1. /\ call' = [c \in Call |-> Free]
      /\ slipped' = slipped \cup {a \in Access : Cutting(a)}
      /\ UNCHANGED <<support, token, cut, opened>>
  BY DEF Crash
<1>2. \A c \in Call : call'[c].pc = "free"
  BY <1>1 DEF Free
<1>3. NowIsClosed' /\ OneConsumer'
  BY <1>2 DEF NowIsClosed, CutsClosed, OneConsumer, Consumed, ConsumesAlone, Consuming
<1>4. LiveIsRecorded'
  BY <1>1 DEF CutInv, LiveIsRecorded
<1>5. ClosedIsCut'
  BY <1>1 DEF CutInv, ClosedIsCut
<1>. QED BY <1>3, <1>4, <1>5 DEF CutInv

LEMMA CutsUntouched ==
  ASSUME CutInv, UNCHANGED <<support, cut, opened, slipped, call>>,
         \A a \in Access : token'[a] = token[a] \/ (token[a] = "live" /\ token'[a] = "expired")
  PROVE  CutInv'
<1>1. LiveIsRecorded' /\ NowIsClosed'
  BY DEF CutInv, LiveIsRecorded, NowIsClosed, CutsClosed
<1>2. OneConsumer'
  BY DEF CutInv, OneConsumer, Consumed, ConsumesAlone, Consuming
<1>3. ClosedIsCut'
  BY DEF CutInv, ClosedIsCut, Cutting, At
<1>. QED BY <1>1, <1>2, <1>3 DEF CutInv

LEMMA CutsInitially == AccessInit => CutInv
<1>. SUFFICES ASSUME AccessInit PROVE CutInv
  OBVIOUS
<1>1. \A c \in Call : call[c].pc = "free"
  BY DEF AccessInit, Free
<1>2. \A a \in Access : token[a] = "none"
  BY DEF AccessInit
<1>. QED BY <1>1, <1>2
     DEF CutInv, LiveIsRecorded, OneConsumer, Consumed, ConsumesAlone, Consuming, NowIsClosed,
         CutsClosed, ClosedIsCut

LEMMA CutStep == ListInv /\ AccessInv /\ CutInv /\ [AccessNext]_accessVars => CutInv'
<1>. SUFFICES ASSUME ListInv, AccessInv, CutInv, [AccessNext]_accessVars PROVE CutInv'
  OBVIOUS
<1>1. off \in BOOLEAN
  BY DEF ListInv, ListShape
<1>2. CASE UNCHANGED accessVars
  BY <1>2, CutsUntouched DEF accessVars
<1>3. ASSUME NEW k \in Reading, ReadSalons(k) \/ EndLoad(k) PROVE CutInv'
  BY <1>3, CutsUntouched DEF ReadSalons, EndLoad, supportVars
<1>4. CASE DeactivatedIds
  BY <1>4, CutsUntouched DEF DeactivatedIds, supportVars
<1>5. CASE ListActive \/ Crash
  BY <1>5, ListActiveKeepsCuts, CrashKeepsCuts
<1>6. ASSUME NEW c \in Call,
             \/ Deactivate(c) \/ Reactivate(c) \/ Refresh(c) \/ RevokeForCompany(c)
             \/ StartAccess(c) \/ ConsumeTicket(c)
             \/ ExpireTicket(c) \/ OwnerChanged(c) \/ RecordToken(c) \/ FinishOne(c) \/ CutToken(c)
      PROVE  CutInv'
  BY <1>1, <1>6, CallsKeepCuts, StartKeepsCuts, ConsumeKeepsCuts, EndsKeepsCuts,
     RecordTokenKeepsCuts, FinishOneKeepsCuts, CutTokenKeepsCuts
<1>7. ASSUME NEW c \in Call, NEW a \in Access, CheckSalon(c, a) \/ FindTicket(c, a)
      PROVE  CutInv'
  BY <1>1, <1>7, CallsKeepCuts
<1>8. ASSUME NEW c \in Call, NEW a \in Access, NEW r \in {"manual", "revoked"},
             CloseAccess(c, a, r)
      PROVE  CutInv'
  BY <1>1, <1>8, CallsKeepCuts
<1>9. ASSUME NEW a \in Access, TokenExpires(a) PROVE CutInv'
  <2>1. /\ token[a] = "live" /\ token' = [token EXCEPT ![a] = "expired"]
        /\ UNCHANGED <<support, cut, opened, slipped, call>>
    BY <1>9 DEF TokenExpires
  <2>2. \A b \in Access : token'[b] = token[b] \/ (token[b] = "live" /\ token'[b] = "expired")
    BY <2>1 DEF AccessInv, SupportShape
  <2>. QED BY <2>1, <2>2, CutsUntouched
<1>. QED
  BY <1>2, <1>3, <1>4, <1>5, <1>6, <1>7, <1>8, <1>9 DEF AccessNext, Reading

-----------------------------------------------------------------------------
(* A deactivation closes the accesses *)

IsOpen(a) == support[a] # Nobody /\ support[a].ended = "no"
\* The accesses that a deactivated salon should not have.
Due == {a \in Access : IsOpen(a) /\ a \notin late}

Claims(x) == x.pc \in {"refresh", "refreshed", "close", "cut"} /\ x.claimed
\* A deactivation that is going to close every one of them.
Covers(x) ==
  /\ Claims(x)
  /\ x.pc \in {"close", "cut"} => \A a \in Due : \E y \in x.todo : y.access = a

KicksOut ==
  off => \/ \E c \in Call : Covers(call[c])
         \/ Due = {}
         \/ unkicked /\ \A c \in Call : ~Claims(call[c])

LEMMA CoversStill ==
  ASSUME Due' \subseteq Due, NEW x, Covers(x)
  PROVE  Covers(x)'
BY DEF Covers, Claims

\* A step of a call that is no deactivation leaves the deactivations as they are.
LEMMA OthersKickOut ==
  ASSUME AccessInv, KicksOut, Due' \subseteq Due, off' => off, unkicked => unkicked',
         NEW c \in Call, NEW x, Goto(c, x), ~Claims(call[c]), ~Claims(x)
  PROVE  KicksOut'
<1>1. call'[c] = x /\ \A d \in Call \ {c} : call'[d] = call[d]
  BY GotoChanges DEF AccessInv
<1>2. SUFFICES ASSUME off
               PROVE  \/ \E d \in Call : Covers(call[d])'
                      \/ Due' = {}
                      \/ unkicked' /\ \A d \in Call : ~Claims(call'[d])
  BY DEF KicksOut, Claims
<1>3. CASE \E d \in Call : Covers(call[d])
  <2>1. PICK d \in Call : Covers(call[d])
    BY <1>3
  <2>2. d # c /\ call'[d] = call[d]
    BY <1>1, <2>1 DEF Covers
  <2>3. Covers(call[d])'
    BY <2>1, <2>2 DEF Covers, Claims
  <2>. QED BY <2>3
<1>4. CASE Due = {}
  BY <1>4
<1>5. CASE unkicked /\ \A d \in Call : ~Claims(call[d])
  BY <1>1, <1>5
<1>. QED BY <1>2, <1>3, <1>4, <1>5 DEF KicksOut

\* A step of a deactivation that goes on covering what it covered, or ends when
\* nothing is left for it.
LEMMA OneKicksOut ==
  ASSUME AccessInv, KicksOut, Due' \subseteq Due, off' => off,
         NEW c \in Call, NEW x, Goto(c, x), Claims(call[c]),
         Covers(call[c]) => Covers(x)' \/ Due' = {}
  PROVE  KicksOut'
<1>1. call'[c] = x /\ \A d \in Call \ {c} : call'[d] = call[d]
  BY GotoChanges DEF AccessInv
<1>2. SUFFICES ASSUME off PROVE (\E d \in Call : Covers(call[d])') \/ Due' = {}
  BY DEF KicksOut
<1>3. CASE \E d \in Call : Covers(call[d])
  <2>1. PICK d \in Call : Covers(call[d])
    BY <1>3
  <2>2. CASE d = c
    <3>1. Covers(x)' => Covers(call[c])'
      BY <1>1 DEF Covers, Claims
    <3>. QED BY <2>1, <2>2, <3>1
  <2>3. CASE d # c
    <3>1. Covers(call[d])'
      BY <1>1, <2>1, <2>3 DEF Covers, Claims
    <3>. QED BY <3>1
  <2>. QED BY <2>2, <2>3
<1>4. CASE Due = {}
  BY <1>4
<1>. QED BY <1>2, <1>3, <1>4 DEF KicksOut

LEMMA DueShrinks ==
  ASSUME late \subseteq late',
         \A a \in Access : IsOpen(a)' => IsOpen(a) \/ a \in late'
  PROVE  Due' \subseteq Due
BY DEF Due

LEMMA DueStays ==
  ASSUME UNCHANGED <<support, late>>
  PROVE  Due' = Due
BY DEF Due, IsOpen

LEMMA DueOfAging ==
  ASSUME AccessInv, RowsAge, UNCHANGED late,
         \A a \in Access : support[a] = Nobody => support'[a] = Nobody
  PROVE  Due' \subseteq Due
BY DEF Due, IsOpen, RowsAge, AccessInv, SupportShape

LEMMA TicketCallsKickOut ==
  ASSUME AccessInv, KicksOut, NEW c \in Call,
         \/ StartAccess(c) \/ ConsumeTicket(c) \/ ExpireTicket(c) \/ OwnerChanged(c)
         \/ RecordToken(c) \/ (\E a \in Access : CheckSalon(c, a) \/ FindTicket(c, a))
         \/ (\E a \in Access, r \in {"manual", "revoked"} : CloseAccess(c, a, r))
  PROVE  KicksOut'
<1>1. UNCHANGED <<off, unkicked>>
  BY DEF StartAccess, ConsumeTicket, ExpireTicket, OwnerChanged, RecordToken, CheckSalon,
         FindTicket, CloseAccess, salonVars
<1>2. call[c].pc \in {"free", "insert", "consume", "open", "expire"}
  BY DEF StartAccess, ConsumeTicket, ExpireTicket, OwnerChanged, RecordToken, CheckSalon,
         FindTicket, CloseAccess, At
<1>3. call[c] \in CallState /\ Fits(call[c])
  BY DEF AccessInv, SupportShape, Tickets
<1>4. \E x : Goto(c, x) /\ ~Claims(x)
  <2>1. CASE StartAccess(c) \/ ExpireTicket(c) \/ OwnerChanged(c) \/ RecordToken(c)
    BY <2>1 DEF StartAccess, ExpireTicket, OwnerChanged, RecordToken, Claims, Free
  <2>2. CASE ConsumeTicket(c)
    <3>1. ASSUME NEW pc \in {"open", "expire"} PROVE ~Claims([call[c] EXCEPT !.pc = pc])
      BY <1>3, <2>2, ConsumedIsACall DEF ConsumeTicket, At, Claims
    <3>2. ~Claims(Free)
      BY DEF Claims, Free
    <3>. QED BY <2>2, <3>1, <3>2 DEF ConsumeTicket
  <2>3. CASE \E a \in Access : CheckSalon(c, a) \/ FindTicket(c, a)
    <3>1. PICK a \in Access : CheckSalon(c, a) \/ FindTicket(c, a)
      BY <2>3
    <3>. QED BY <3>1 DEF CheckSalon, FindTicket, Claims
  <2>4. CASE \E a \in Access, r \in {"manual", "revoked"} : CloseAccess(c, a, r)
    <3>1. PICK a \in Access, r \in {"manual", "revoked"} : CloseAccess(c, a, r)
      BY <2>4
    <3>. DEFINE x == [pc |-> "close", todo |-> Copies({a}), now |-> Nobody,
                      reason |-> r, claimed |-> FALSE]
    <3>2. Goto(c, x) /\ ~x.claimed
      BY <3>1 DEF CloseAccess
    <3>. HIDE DEF x
    <3>. QED BY <3>2 DEF Claims
  <2>. QED BY <2>1, <2>2, <2>3, <2>4
<1>5. ~off \/ Due' \subseteq Due
  <2>1. CASE StartAccess(c)
    <3>1. /\ support' = [support EXCEPT ![call[c].access] = Fresh]
          /\ off => late' = late \cup {call[c].access}
      BY <2>1 DEF StartAccess
    <3>2. call[c].access \in Access
      BY <1>3, <2>1, CallFields DEF StartAccess, At
    <3>3. \A a \in Access : a # call[c].access => support'[a] = support[a]
      BY <3>1, <3>2 DEF AccessInv, SupportShape
    <3>. QED BY <3>1, <3>3 DEF Due, IsOpen
  <2>2. CASE ConsumeTicket(c) \/ ExpireTicket(c) \/ OwnerChanged(c) \/ RecordToken(c)
    <3>. DEFINE a == call[c].access
                old == support[a]
    <3>1. a \in Access /\ UNCHANGED late
      BY <1>3, <2>2, CallFields
         DEF ConsumeTicket, ExpireTicket, OwnerChanged, RecordToken, At, Fits
    <3>2. old \in Row
      BY <1>3, <2>2 DEF ConsumeTicket, ExpireTicket, OwnerChanged, RecordToken, At, Fits
    <3>3. /\ \A b \in Access : b # a => support'[b] = support[b]
          /\ \/ support'[a] = old
             \/ support'[a] = [old EXCEPT !.ticket = FALSE, !.used = TRUE]
             \/ support'[a] = [old EXCEPT !.ended = "expired"]
             \/ support'[a] = [old EXCEPT !.ended = "revoked"]
             \/ support'[a] = [old EXCEPT !.recorded = TRUE]
      <4>1. support \in [Access -> Row \cup {Nobody}]
        BY DEF AccessInv, SupportShape
      <4>. QED BY <2>2, <3>1, <4>1
           DEF ConsumeTicket, Consume, ExpireTicket, OwnerChanged, Ends, RecordToken
    <3>4. support'[a] # Nobody /\ support'[a].ended = "no" => old # Nobody /\ old.ended = "no"
      <4>. HIDE DEF old
      <4>. QED BY <3>2, <3>3, RowIsSomebody DEF Row
    <3>. QED BY <3>1, <3>3, <3>4 DEF Due, IsOpen
  <2>3. CASE \/ \E a \in Access : CheckSalon(c, a) \/ FindTicket(c, a)
             \/ \E a \in Access, r \in {"manual", "revoked"} : CloseAccess(c, a, r)
    <3>1. UNCHANGED <<support, late>>
      BY <2>3 DEF CheckSalon, FindTicket, CloseAccess, supportVars
    <3>. QED BY <3>1, DueStays
  <2>. QED BY <2>1, <2>2, <2>3
<1>6. ~Claims(call[c])
  BY <1>2 DEF Claims
<1>7. CASE ~off
  BY <1>1, <1>7 DEF KicksOut
<1>8. CASE Due' \subseteq Due
  BY <1>1, <1>4, <1>6, <1>8, OthersKickOut
<1>. QED BY <1>5, <1>7, <1>8

LEMMA DeactivateKicksOut ==
  ASSUME AccessInv, KicksOut, off \in BOOLEAN, NEW c \in Call, Deactivate(c) \/ Reactivate(c)
  PROVE  KicksOut'
<1>1. call[c].pc = "free" /\ UNCHANGED <<support, late, unkicked>>
  BY DEF Deactivate, Reactivate, At, supportVars
<1>2. ~Claims(call[c]) /\ Due' = Due
  BY <1>1, DueStays DEF Claims
<1>3. CASE Deactivate(c) /\ ~off
  <2>. DEFINE x == [pc |-> "refresh", claimed |-> TRUE]
  <2>1. Goto(c, x)
    BY <1>3 DEF Deactivate
  <2>2. call'[c] = x
    BY <2>1, GotoChanges DEF AccessInv
  <2>3. Covers(call[c])'
    BY <2>2 DEF Covers, Claims
  <2>. QED BY <2>3 DEF KicksOut
<1>4. CASE Deactivate(c) /\ off
  <2>. DEFINE x == [pc |-> "refresh", claimed |-> FALSE]
  <2>1. Goto(c, x) /\ UNCHANGED off
    BY <1>4 DEF Deactivate, salonVars
  <2>2. ~Claims(x)
    BY DEF Claims
  <2>. QED BY <1>1, <1>2, <2>1, <2>2, OthersKickOut
<1>5. CASE Reactivate(c)
  <2>1. off' = FALSE
    BY <1>5 DEF Reactivate, Switch, salonVars
  <2>. QED BY <2>1 DEF KicksOut
<1>. QED BY <1>3, <1>4, <1>5

LEMMA RefreshKicksOut ==
  ASSUME AccessInv, KicksOut, NEW c \in Call, Refresh(c)
  PROVE  KicksOut'
<1>1. call[c] \in CallState /\ call[c].pc = "refresh" /\ UNCHANGED <<off, support, late, unkicked>>
      /\ Goto(c, [call[c] EXCEPT !.pc = "refreshed"])
  BY DEF Refresh, At, AccessInv, SupportShape, supportVars
<1>2. PICK x : x = [call[c] EXCEPT !.pc = "refreshed"]
  OBVIOUS
<1>3. x.pc = "refreshed" /\ x.claimed = call[c].claimed
  BY <1>1, <1>2 DEF CallState, Free
<1>4. Goto(c, x) /\ Due' = Due
  BY <1>1, <1>2, DueStays
<1>5. CASE Claims(call[c])
  <2>1. Covers(x)'
    BY <1>3, <1>5 DEF Claims, Covers
  <2>. QED BY <1>1, <1>4, <1>5, <2>1, OneKicksOut
<1>6. CASE ~Claims(call[c])
  <2>1. ~Claims(x)
    BY <1>1, <1>3, <1>6 DEF Claims
  <2>. QED BY <1>1, <1>4, <1>6, <2>1, OthersKickOut
<1>. QED BY <1>5, <1>6

LEMMA RevokeKicksOut ==
  ASSUME AccessInv, KicksOut, NEW c \in Call, RevokeForCompany(c)
  PROVE  KicksOut'
<1>1. /\ call[c].pc = "refreshed" /\ UNCHANGED <<off, support, late>>
      /\ call[c] \in CallState /\ call[c].claimed \in BOOLEAN
  BY CallFields DEF RevokeForCompany, At, AccessInv, SupportShape, supportVars, salonVars
<1>2. Due' = Due /\ Due \subseteq Open
  BY <1>1, DueStays DEF Due, IsOpen, Open
<1>6. PICK x : x = [pc |-> "close", todo |-> Copies(Open), now |-> Nobody,
                    reason |-> "revoked", claimed |-> TRUE]
  OBVIOUS
<1>3. CASE call[c].claimed /\ Open # {}
  <2>1. Goto(c, x)
    BY <1>3, <1>6 DEF RevokeForCompany
  <2>2. ASSUME NEW a \in Open PROVE \E y \in Copies(Open) : y.access = a
    <3>1. [access |-> a, recorded |-> support[a].recorded] \in Copies(Open)
      BY DEF Copies
    <3>. QED BY <3>1
  <2>3. x.pc = "close" /\ x.claimed /\ x.todo = Copies(Open)
    BY <1>6
  <2>4. Covers(x)'
    BY <1>2, <2>2, <2>3 DEF Covers, Claims
  <2>5. Claims(call[c])
    BY <1>1, <1>3 DEF Claims
  <2>. QED BY <1>1, <1>2, <2>1, <2>4, <2>5, OneKicksOut
<1>4. CASE call[c].claimed /\ Open = {}
  <2>1. Due' = {}
    BY <1>2, <1>4
  <2>. QED BY <2>1 DEF KicksOut
<1>5. CASE ~call[c].claimed
  <2>1. Goto(c, Free) /\ (unkicked => unkicked')
    BY <1>5 DEF RevokeForCompany
  <2>2. ~Claims(call[c]) /\ ~Claims(Free)
    BY <1>5 DEF Claims, Free
  <2>. QED BY <1>1, <1>2, <2>1, <2>2, OthersKickOut
<1>. QED BY <1>1, <1>3, <1>4, <1>5

\* What a closing call goes on to once it is through with one copy.
LEMMA AfterCovers ==
  ASSUME AccessInv, NEW c \in Call, call[c].pc \in {"close", "cut"}, NEW y \in Copy,
         Due' \subseteq Due \ {y.access}, NEW x, x = After(c, y)
  PROVE  /\ Claims(x) => Claims(call[c])
         /\ Covers(call[c]) => Covers(x)' \/ Due' = {}
<1>1. call[c] \in [pc : {"close", "cut"}, todo : SUBSET Copy, now : Copy \cup {Nobody},
                   reason : {"manual", "revoked"}, claimed : BOOLEAN]
  BY DEF AccessInv, SupportShape, CallState, Free
<1>2. CASE call[c].todo = {y}
  <2>1. x = Free
    BY <1>2 DEF After
  <2>2. ~Claims(x)
    BY <2>1 DEF Claims, Free
  <2>3. Covers(call[c]) => Due' = {}
    BY <1>2 DEF Covers
  <2>. QED BY <2>2, <2>3
<1>3. CASE call[c].todo # {y}
  <2>. DEFINE old == call[c]
  <2>1. x = [old EXCEPT !.pc = "close", !.todo = @ \ {y}, !.now = Nobody]
    BY <1>3 DEF After
  <2>2. x.pc = "close" /\ x.todo = old.todo \ {y} /\ x.claimed = old.claimed
    <3>. HIDE DEF old
    <3>1. old \in [pc : {"close", "cut"}, todo : SUBSET Copy, now : Copy \cup {Nobody},
                   reason : {"manual", "revoked"}, claimed : BOOLEAN]
      BY <1>1 DEF old
    <3>. QED BY <2>1, <3>1
  <2>3. Claims(x) => Claims(old)
    BY <2>2 DEF Claims
  <2>4. ASSUME Covers(old) PROVE Covers(x)'
    <3>1. \A a \in Due' : \E z \in old.todo : z.access = a
      BY <2>4 DEF Covers
    <3>2. \A a \in Due' : \E z \in old.todo \ {y} : z.access = a
      BY <3>1
    <3>. QED BY <2>2, <2>4, <3>2 DEF Covers, Claims
  <2>. QED BY <2>3, <2>4
<1>. QED BY <1>2, <1>3

LEMMA FinishKicksOut ==
  ASSUME AccessInv, CutInv, KicksOut, NEW c \in Call, FinishOne(c) \/ CutToken(c)
  PROVE  KicksOut'
<1>1. /\ call[c].pc \in {"close", "cut"} /\ call[c] \in CallState /\ Fits(call[c])
      /\ CutsClosed(call[c]) /\ call[c].claimed \in BOOLEAN
      /\ UNCHANGED <<off, late>> /\ unkicked' = (unkicked /\ ~Kicked(c))
  BY CallFields DEF FinishOne, CutToken, At, AccessInv, SupportShape, Tickets, CutInv, NowIsClosed,
                    salonVars
<1>2. ASSUME NEW y \in Copy, NEW x, x = After(c, y), Goto(c, x), Due' \subseteq Due \ {y.access}
      PROVE  KicksOut'
  <2>1. /\ Claims(x) => Claims(call[c])
        /\ Covers(call[c]) => Covers(x)' \/ Due' = {}
    BY <1>1, <1>2, AfterCovers
  <2>2. CASE Claims(call[c])
    BY <1>1, <1>2, <2>1, <2>2, OneKicksOut
  <2>3. CASE ~Claims(call[c])
    <3>1. unkicked => unkicked'
      BY <1>1, <2>3 DEF Claims, Kicked
    <3>. QED BY <1>1, <1>2, <2>1, <2>3, <3>1, OthersKickOut
  <2>. QED BY <2>2, <2>3
<1>3. CASE CutToken(c)
  <2>. DEFINE y == call[c].now
  <2>1. y \in Copy /\ support[y.access].ended # "no" /\ UNCHANGED support
    BY <1>1, <1>3 DEF CutToken, At, CutsClosed
  <2>2. Due' \subseteq Due \ {y.access}
    BY <1>1, <2>1 DEF Due, IsOpen
  <2>. QED BY <1>2, <1>3, <2>1, <2>2 DEF CutToken
<1>4. CASE FinishOne(c)
  <2>1. PICK y \in call[c].todo : Finish(c, y)
    BY <1>4 DEF FinishOne
  <2>. DEFINE a == y.access
              old == support[a]
  <2>2. y \in Copy /\ a \in Access /\ old \in Row
    BY <1>1, CallFields DEF Copy, Fits
  <2>3. CASE Goto(c, After(c, y)) /\ UNCHANGED support /\ old.ended # "no"
    <3>1. Due' \subseteq Due \ {a}
      BY <1>1, <2>3 DEF Due, IsOpen
    <3>. QED BY <1>2, <2>2, <2>3, <3>1
  <2>4. CASE /\ support' = [support EXCEPT ![a].ticket = FALSE, ![a].ended = call[c].reason]
             /\ Goto(c, IF y.recorded THEN [call[c] EXCEPT !.pc = "cut", !.now = y] ELSE After(c, y))
    <3>1. call[c].reason \in {"manual", "revoked"}
      BY <1>1, CallFields
    <3>2. /\ support'[a] = [old EXCEPT !.ticket = FALSE, !.ended = call[c].reason]
          /\ \A b \in Access \ {a} : support'[b] = support[b]
      BY <2>2, <2>4 DEF AccessInv, SupportShape
    <3>3. support'[a].ended # "no"
      <4>1. old \in Row
        BY <2>2
      <4>. HIDE DEF old
      <4>. QED BY <3>1, <3>2, <4>1 DEF Row
    <3>4. Due' \subseteq Due \ {a}
      BY <1>1, <3>2, <3>3 DEF Due, IsOpen
    <3>5. CASE ~y.recorded
      BY <1>2, <2>2, <2>4, <3>4, <3>5
    <3>6. CASE y.recorded
      <4>1. PICK x : x = [call[c] EXCEPT !.pc = "cut", !.now = y]
        OBVIOUS
      <4>2. x.pc = "cut" /\ x.todo = call[c].todo /\ x.claimed = call[c].claimed
        <5>1. call[c] \in [pc : {"close", "cut"}, todo : SUBSET Copy, now : Copy \cup {Nobody},
                           reason : {"manual", "revoked"}, claimed : BOOLEAN]
          BY <1>1 DEF CallState, Free
        <5>. QED BY <4>1, <5>1
      <4>3. Claims(x) <=> Claims(call[c])
        BY <1>1, <4>2 DEF Claims
      <4>4. Covers(call[c]) => Covers(x)'
        BY <1>1, <3>4, <4>2 DEF Covers, Claims
      <4>5. Goto(c, x)
        BY <2>4, <3>6, <4>1
      <4>6. CASE Claims(call[c])
        BY <1>1, <3>4, <4>4, <4>5, <4>6, OneKicksOut
      <4>7. CASE ~Claims(call[c])
        <5>1. unkicked => unkicked'
          BY <1>1, <4>7 DEF Claims, Kicked
        <5>. QED BY <1>1, <3>4, <4>3, <4>5, <4>7, <5>1, OthersKickOut
      <4>. QED BY <4>6, <4>7
    <3>. QED BY <3>5, <3>6
  <2>. QED BY <2>1, <2>3, <2>4 DEF Finish
<1>. QED BY <1>3, <1>4

LEMMA CrashKicksOut ==
  ASSUME AccessInv, KicksOut, Crash
  PROVE  KicksOut'
<1>1. /\ \A c \in Call : call'[c].pc = "free"
      /\ UNCHANGED <<off, support, late>> /\ unkicked' = (unkicked \/ Deactivating)
  BY DEF Crash, Free
<1>2. (\A c \in Call : ~Claims(call[c])') /\ Due' = Due
  BY <1>1, DueStays DEF Claims
<1>3. (\E c \in Call : Claims(call[c])) => Deactivating
  BY DEF Deactivating, Claims
<1>. QED BY <1>1, <1>2, <1>3 DEF KicksOut, Covers

LEMMA KicksUntouched ==
  ASSUME KicksOut, UNCHANGED <<off, call, unkicked>>, Due' \subseteq Due
  PROVE  KicksOut'
<1>1. ASSUME NEW c \in Call, Covers(call[c]) PROVE Covers(call[c])'
  BY <1>1 DEF Covers, Claims
<1>. QED BY <1>1 DEF KicksOut, Claims

LEMMA KickStep ==
  ListInv /\ AccessInv /\ CutInv /\ KicksOut /\ [AccessNext]_accessVars => KicksOut'
<1>. SUFFICES ASSUME ListInv, AccessInv, CutInv, KicksOut, [AccessNext]_accessVars PROVE KicksOut'
  OBVIOUS
<1>1. off \in BOOLEAN
  BY DEF ListInv, ListShape
<1>2. CASE UNCHANGED accessVars
  BY <1>2, DueStays, KicksUntouched DEF accessVars
<1>3. ASSUME NEW k \in Reading, ReadSalons(k) \/ EndLoad(k) PROVE KicksOut'
  BY <1>3, DueStays, KicksUntouched DEF ReadSalons, EndLoad, supportVars
<1>4. CASE DeactivatedIds
  BY <1>4, DueStays, KicksUntouched DEF DeactivatedIds, supportVars
<1>5. CASE ListActive
  <2>1. RowsAge /\ UNCHANGED <<off, call, unkicked, late>>
    BY <1>5, ListActiveKeepsCuts DEF ListActive, salonVars
  <2>2. \A a \in Access : support[a] = Nobody => support'[a] = Nobody
    BY <1>5 DEF ListActive
  <2>. QED BY <2>1, <2>2, DueOfAging, KicksUntouched
<1>6. ASSUME NEW c \in Call,
             \/ Deactivate(c) \/ Reactivate(c) \/ Refresh(c) \/ RevokeForCompany(c)
             \/ StartAccess(c) \/ ConsumeTicket(c)
             \/ ExpireTicket(c) \/ OwnerChanged(c) \/ RecordToken(c) \/ FinishOne(c) \/ CutToken(c)
      PROVE  KicksOut'
  BY <1>1, <1>6, DeactivateKicksOut, RefreshKicksOut, RevokeKicksOut, TicketCallsKickOut,
     FinishKicksOut
<1>7. ASSUME NEW c \in Call, NEW a \in Access, CheckSalon(c, a) \/ FindTicket(c, a)
      PROVE  KicksOut'
  BY <1>7, TicketCallsKickOut
<1>8. ASSUME NEW c \in Call, NEW a \in Access, NEW r \in {"manual", "revoked"},
             CloseAccess(c, a, r)
      PROVE  KicksOut'
  BY <1>8, TicketCallsKickOut
<1>9. ASSUME NEW a \in Access, TokenExpires(a) PROVE KicksOut'
  BY <1>9, DueStays, KicksUntouched DEF TokenExpires, salonVars
<1>10. CASE Crash
  BY <1>10, CrashKicksOut
<1>. QED
  BY <1>2, <1>3, <1>4, <1>5, <1>6, <1>7, <1>8, <1>9, <1>10 DEF AccessNext, Reading

LEMMA KicksInitially == AccessInit => KicksOut
BY DEF AccessInit, KicksOut

\* A deactivation that is through has closed what it found.
LEMMA KicksOutIsEnough == KicksOut => NoAccessWhileOff
<1>1. ~Deactivating => \A c \in Call : ~Covers(call[c])
  BY DEF Deactivating, Covers, Claims
<1>. QED BY <1>1 DEF KicksOut, NoAccessWhileOff, Due, IsOpen

\* Access ends when it should: one token per ticket, the token of a closed access is
\* cut or about to be, and none is open once a deactivation is through, but for what
\* the process died in the middle of and what had looked at the salon before it
\* (ImpersonationService.finish, revokeForCompany, kickOut).
THEOREM AccessEnds == AccessSpec => []AccessEndsInTime
<1>1. AccessInit => ListInv /\ AccessInv /\ CutInv /\ KicksOut
  BY ListInitially, AccessInitially, CutsInitially, KicksInitially
<1>2. ListInv /\ AccessInv /\ CutInv /\ KicksOut /\ [AccessNext]_accessVars
        => (ListInv /\ AccessInv /\ CutInv /\ KicksOut)'
  BY ListStep, AccessStep, CutStep, KickStep
<1>3. ListInv /\ AccessInv /\ CutInv /\ KicksOut
        => OneTokenPerTicket /\ ClosedIsCut /\ NoAccessWhileOff
  BY KicksOutIsEnough DEF AccessInv, Tickets, OpenedIsUsed, OneTokenPerTicket, CutInv
<1>. QED BY <1>1, <1>2, <1>3, AccessTypes, PTL DEF AccessSpec, AccessEndsInTime

=============================================================================
