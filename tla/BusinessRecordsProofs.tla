----------------------- MODULE BusinessRecordsProofs -----------------------
(***************************************************************************)
(* Proofs about BusinessRecords: the safety invariant of each of its six   *)
(* parts, for every set of jobs, requests, people and accounts.  A part    *)
(* moves only its own variables, so that each invariant is inductive for   *)
(* the part it is about.  What a request in hand has read is current while *)
(* nobody has overtaken it; the inductive invariants say so.               *)
(*                                                                         *)
(* And proofs about BookingAutomation, whose records are those of one      *)
(* booking: the attempts counted on its rows, and its calendar events.     *)
(***************************************************************************)
EXTENDS BusinessRecords, BookingAutomation, FiniteSetTheorems, WellFoundedInduction, TLAPS

\* A step of the whole is, for each part, a step of that part or none.
LEMMA PartsMove ==
    ASSUME [Next]_vars
    PROVE  /\ [ReviewsNext]_reviewVars
           /\ [LedgerNext]_ledgerVars
           /\ [ConnectNext]_connectVars
           /\ [MembershipNext]_memberVars
           /\ [ListingNext]_listingVars
           /\ [ConversationNext]_talkVars
  BY DEF Next, vars, ReviewsMove, LedgerMoves, AccountMoves, MembersMove, ListingMoves, TalkMoves

-----------------------------------------------------------------------------
(* Reviews.                                                                *)

Stages == {"idle", "eligible", "inserted", "averaged", "loaded"}
Counts == {Cardinality(s) : s \in SUBSET Jobs}
Rating == [of : SUBSET Jobs, count : Counts]
Submission == [at : Stages, job : SUBSET Jobs, counts : SUBSET Jobs, loaded : Rating, alone : BOOLEAN]

ReviewsTyped ==
    /\ reviews \in SUBSET Jobs
    /\ rating \in Rating
    /\ writing \in [Writers -> Submission]
    /\ stale \in BOOLEAN

\* What a submission has averaged exists, and is everything there is while
\* nobody has overtaken it; the rating it loaded is then the one stored.
SubmissionInv(t) ==
    /\ t.at \in {"averaged", "loaded"} =>
          /\ t.counts \subseteq reviews \cup t.job
          /\ t.alone => t.counts = reviews \cup t.job
    /\ t.at = "loaded" /\ t.alone => t.loaded = rating

ReviewsInv ==
    /\ ReviewsTyped
    /\ \A w \in Writers : SubmissionInv(writing[w])
    /\ RatingIsEarned

LEMMA NoReviewTyped == NoReview \in Submission /\ NoReview.at = "idle"
  <1>1. Cardinality({}) = 0
    BY FS_EmptySet
  <1>2. 0 \in Counts
    BY <1>1 DEF Counts
  <1>3. [of |-> {}, count |-> 0] \in Rating
    BY <1>2 DEF Rating
  <1> QED
    BY <1>3 DEF NoReview, Submission, Stages

LEMMA ReviewsStart == ReviewsInit => ReviewsInv
  <1> SUFFICES ASSUME ReviewsInit PROVE ReviewsInv
    OBVIOUS
  <1>1. Cardinality({}) = 0
    BY FS_EmptySet
  <1>2. rating \in Rating
    <2>1. 0 \in Counts
      BY <1>1 DEF Counts
    <2> QED
      BY <2>1 DEF ReviewsInit, Rating
  <1>3. ReviewsTyped
    BY <1>2, NoReviewTyped DEF ReviewsInit, ReviewsTyped
  <1>4. \A w \in Writers : SubmissionInv(writing[w])
    BY NoReviewTyped DEF ReviewsInit, SubmissionInv
  <1>5. RatingIsEarned
    BY <1>1 DEF ReviewsInit, RatingIsEarned
  <1> QED
    BY <1>3, <1>4, <1>5 DEF ReviewsInv

\* A step that moves one submission and writes nothing.
LEMMA SubmissionStep ==
    ASSUME ReviewsInv, NEW w \in Writers, NEW t \in Submission, SubmissionInv(t),
           writing' = [writing EXCEPT ![w] = t],
           UNCHANGED <<reviews, rating, stale>>
    PROVE  ReviewsInv'
  <1>1. \A v \in Writers : writing'[v] = IF v = w THEN t ELSE writing[v]
    BY DEF ReviewsInv, ReviewsTyped
  <1>2. ReviewsTyped'
    BY DEF ReviewsInv, ReviewsTyped
  <1>3. \A v \in Writers : SubmissionInv(writing[v])'
    BY <1>1 DEF ReviewsInv, SubmissionInv
  <1> QED
    BY <1>2, <1>3 DEF ReviewsInv, RatingIsEarned

LEMMA FinishReviewStep ==
    ASSUME ReviewsInv, NEW w \in Writers, FinishReview(w)
    PROVE  ReviewsInv'
  <1> DEFINE t == writing[w]
  <1>1. /\ t.at = "loaded"
        /\ reviews' = reviews \cup t.job
        /\ rating' = [of    |-> IF t.counts = t.loaded.of THEN rating.of ELSE t.counts,
                      count |-> IF Cardinality(t.counts) = t.loaded.count
                                THEN rating.count ELSE Cardinality(t.counts)]
        /\ stale' = ~t.alone
        /\ writing' = [v \in Writers |->
              IF v = w THEN NoReview
              ELSE [writing[v] EXCEPT !.alone = @ /\ writing[v].at \in {"idle", "eligible", "inserted"}]]
    BY DEF FinishReview
  <1>2. t \in Submission /\ SubmissionInv(t) /\ reviews \in SUBSET Jobs /\ rating \in Rating
    BY DEF ReviewsInv, ReviewsTyped
  <1>3. t.counts \in SUBSET Jobs /\ t.job \in SUBSET Jobs /\ t.alone \in BOOLEAN /\ t.loaded \in Rating
    BY <1>2 DEF Submission
  <1> HIDE DEF t
  <1>4. rating' \in Rating
    <2>1. Cardinality(t.counts) \in Counts
      BY <1>3 DEF Counts
    <2> QED
      BY <1>1, <1>2, <1>3, <2>1 DEF Rating
  <1>5. \A v \in Writers : v # w =>
          /\ writing'[v] \in Submission
          /\ writing'[v].at = writing[v].at /\ writing'[v].job = writing[v].job
          /\ writing'[v].at \in {"averaged", "loaded"} => ~writing'[v].alone
          /\ writing'[v].counts = writing[v].counts
    <2> SUFFICES ASSUME NEW v \in Writers, v # w
                 PROVE  /\ writing'[v] \in Submission
                        /\ writing'[v].at = writing[v].at /\ writing'[v].job = writing[v].job
                        /\ writing'[v].at \in {"averaged", "loaded"} => ~writing'[v].alone
                        /\ writing'[v].counts = writing[v].counts
      OBVIOUS
    <2>1. writing[v] \in Submission
      BY DEF ReviewsInv, ReviewsTyped
    <2>2. (writing[v].alone /\ writing[v].at \in {"idle", "eligible", "inserted"}) \in BOOLEAN
      OBVIOUS
    <2>3. writing'[v] = [writing[v] EXCEPT
             !.alone = writing[v].alone /\ writing[v].at \in {"idle", "eligible", "inserted"}]
      BY <1>1
    <2> QED
      BY <2>1, <2>2, <2>3 DEF Submission
  <1>6. writing'[w] = NoReview /\ DOMAIN writing' = Writers /\ writing' = [v \in Writers |-> writing'[v]]
    BY <1>1
  <1>7. ReviewsTyped'
    BY <1>1, <1>2, <1>3, <1>4, <1>5, <1>6, NoReviewTyped DEF ReviewsTyped
  <1>8. \A v \in Writers : SubmissionInv(writing[v])'
    <2> SUFFICES ASSUME NEW v \in Writers PROVE SubmissionInv(writing[v])'
      OBVIOUS
    <2>1. CASE v = w
      BY <1>6, <2>1, NoReviewTyped DEF SubmissionInv
    <2>2. CASE v # w
      <3>1. SubmissionInv(writing[v])
        BY DEF ReviewsInv
      <3> QED
        BY <1>1, <1>5, <2>2, <3>1 DEF SubmissionInv
    <2> QED
      BY <2>1, <2>2
  <1>9. RatingIsEarned'
    <2>1. rating'.of \subseteq reviews'
      BY <1>1, <1>2 DEF ReviewsInv, RatingIsEarned, SubmissionInv
    <2>2. ASSUME ~stale' PROVE rating' = [of |-> reviews', count |-> Cardinality(reviews')]
      <3>1. t.alone /\ t.counts = reviews' /\ t.loaded = rating
        BY <1>1, <1>2, <1>3, <2>2 DEF SubmissionInv
      <3> QED
        BY <1>1, <3>1
    <2> QED
      BY <2>1, <2>2 DEF RatingIsEarned
  <1> QED
    BY <1>7, <1>8, <1>9 DEF ReviewsInv

LEMMA ReviewsStep == ReviewsInv /\ [ReviewsNext]_reviewVars => ReviewsInv'
  <1> SUFFICES ASSUME ReviewsInv, [ReviewsNext]_reviewVars PROVE ReviewsInv'
    OBVIOUS
  <1> USE DEF Step
  <1>1. CASE UNCHANGED reviewVars \/ \E j \in Jobs : Perform(j) \/ RespondToReview(j)
    BY <1>1 DEF reviewVars, Perform, RespondToReview, ReviewsInv, ReviewsTyped, SubmissionInv, RatingIsEarned
  <1>2. ASSUME NEW w \in Writers, NEW j \in Jobs, SubmitReview(w, j) PROVE ReviewsInv'
    <2> DEFINE t == [NoReview EXCEPT !.at = "eligible", !.job = {j}]
    <2>1. t \in Submission /\ t.at = "eligible"
      BY NoReviewTyped DEF Submission, Stages
    <2>2. writing' = [writing EXCEPT ![w] = t] /\ UNCHANGED <<reviews, rating, stale>>
      BY <1>2 DEF SubmitReview
    <2> HIDE DEF t
    <2> QED
      BY <2>1, <2>2, SubmissionStep DEF SubmissionInv
  <1>3. ASSUME NEW w \in Writers, InsertReview(w) PROVE ReviewsInv'
    <2> DEFINE t == IF writing[w].job \subseteq reviews THEN NoReview ELSE [writing[w] EXCEPT !.at = "inserted"]
    <2>1. writing' = [writing EXCEPT ![w] = t] /\ UNCHANGED <<reviews, rating, stale>>
      BY <1>3 DEF InsertReview
    <2>2. writing[w] \in Submission
      BY DEF ReviewsInv, ReviewsTyped
    <2>3. t \in Submission /\ t.at \in {"idle", "inserted"}
      BY <2>2, NoReviewTyped DEF Submission, Stages
    <2> HIDE DEF t
    <2> QED
      BY <2>1, <2>3, SubmissionStep DEF SubmissionInv
  <1>4. ASSUME NEW w \in Writers, AverageReviews(w) PROVE ReviewsInv'
    <2> DEFINE t == [writing[w] EXCEPT !.at = "averaged", !.counts = Counted(w)]
    <2>1. writing[w] \in Submission /\ reviews \in SUBSET Jobs
      BY DEF ReviewsInv, ReviewsTyped
    <2>2. /\ t \in Submission /\ t.at = "averaged"
          /\ t.counts = reviews \cup writing[w].job /\ t.job = writing[w].job
      BY <2>1 DEF Submission, Stages, Counted
    <2>3. writing' = [writing EXCEPT ![w] = t] /\ UNCHANGED <<reviews, rating, stale>>
      BY <1>4 DEF AverageReviews
    <2> HIDE DEF t
    <2> QED
      BY <2>2, <2>3, SubmissionStep DEF SubmissionInv
  <1>5. ASSUME NEW w \in Writers, LoadProfile(w) PROVE ReviewsInv'
    <2> DEFINE t == [writing[w] EXCEPT !.at = "loaded", !.loaded = rating]
    <2>1. writing[w] \in Submission /\ rating \in Rating /\ writing[w].at = "averaged" /\ SubmissionInv(writing[w])
      BY <1>5 DEF LoadProfile, ReviewsInv, ReviewsTyped
    <2>2. /\ t \in Submission /\ t.at = "loaded" /\ t.loaded = rating
          /\ t.counts = writing[w].counts /\ t.job = writing[w].job /\ t.alone = writing[w].alone
      BY <2>1 DEF Submission, Stages
    <2>3. writing' = [writing EXCEPT ![w] = t] /\ UNCHANGED <<reviews, rating, stale>>
      BY <1>5 DEF LoadProfile
    <2> HIDE DEF t
    <2> QED
      BY <2>1, <2>2, <2>3, SubmissionStep DEF SubmissionInv
  <1>6. ASSUME NEW w \in Writers, FailReview(w) PROVE ReviewsInv'
    BY <1>6, NoReviewTyped, SubmissionStep DEF FailReview, SubmissionInv
  <1> QED
    BY <1>1, <1>2, <1>3, <1>4, <1>5, <1>6, FinishReviewStep DEF ReviewsNext

\* The rating submit_review stores is the average of reviews that exist, and
\* of all of them unless the last submission to write it was overtaken.
THEOREM RatingStands == Spec => []RatingIsEarned
  <1>1. Init => ReviewsInv
    BY ReviewsStart DEF Init
  <1>2. ReviewsInv /\ [Next]_vars => ReviewsInv'
    BY ReviewsStep, PartsMove
  <1>3. ReviewsInv => RatingIsEarned
    BY DEF ReviewsInv
  <1> QED
    BY <1>1, <1>2, <1>3, PTL DEF Spec

-----------------------------------------------------------------------------
(* Ledger entries.                                                         *)

PaymentStatus == Statuses \cup {"unpaid", "absent"}
Posting == [at : {"idle", "derived", "billed", "listed", "byhand", "adjusting"}, saw : PaymentStatus,
            new : PaymentStatus, to : SUBSET Entries, alone : BOOLEAN]

LedgerTyped ==
    /\ bill \in PaymentStatus
    /\ entry \in [Entries -> PaymentStatus]
    /\ posting \in [Clerks -> Posting]
    /\ drifted \in BOOLEAN

\* What a request that nobody overtook has read is what the tables hold.
PostingInv(t) ==
    t.alone =>
        /\ t.at \in {"derived", "billed", "listed"} => t.saw = bill
        /\ t.at = "listed" => t.to = {e \in Recorded : entry[e] # t.new}
        /\ t.at = "adjusting" => t.new = entry["primary"]

LedgerInv ==
    /\ LedgerTyped
    /\ \A c \in Clerks : PostingInv(posting[c])
    /\ LedgerFollows

LEMMA NoPostingTyped == NoPosting \in Posting /\ NoPosting.at = "idle"
  BY DEF NoPosting, Posting, PaymentStatus

LEMMA LedgerStart == LedgerInit => LedgerInv
  <1> SUFFICES ASSUME LedgerInit PROVE LedgerInv
    OBVIOUS
  <1>1. LedgerTyped
    BY NoPostingTyped DEF LedgerInit, LedgerTyped, PaymentStatus
  <1>2. \A c \in Clerks : PostingInv(posting[c])
    BY NoPostingTyped DEF LedgerInit, PostingInv
  <1>3. LedgerFollows
    BY DEF LedgerInit, LedgerFollows, Recorded
  <1> QED
    BY <1>1, <1>2, <1>3 DEF LedgerInv

\* A step that moves one request and writes nothing.
LEMMA PostingStep ==
    ASSUME LedgerInv, NEW c \in Clerks, NEW t \in Posting, PostingInv(t),
           posting' = [posting EXCEPT ![c] = t],
           UNCHANGED <<bill, entry, drifted>>
    PROVE  LedgerInv'
  <1>1. \A d \in Clerks : posting'[d] = IF d = c THEN t ELSE posting[d]
    BY DEF LedgerInv, LedgerTyped
  <1>2. LedgerTyped'
    BY DEF LedgerInv, LedgerTyped
  <1>3. \A d \in Clerks : PostingInv(posting[d])'
    BY <1>1 DEF LedgerInv, PostingInv, Recorded
  <1> QED
    BY <1>2, <1>3 DEF LedgerInv, LedgerFollows, Recorded

\* A commit overtakes every other request under way.
LEMMA DoneFacts ==
    ASSUME LedgerInv, NEW c \in Clerks, posting' = Done(c)
    PROVE  /\ posting' \in [Clerks -> Posting]
           /\ \A d \in Clerks : PostingInv(posting[d])'
  <1>1. ASSUME NEW d \in Clerks, d # c
        PROVE  /\ posting'[d] \in Posting
               /\ posting'[d].at # "idle" => ~posting'[d].alone
    <2>1. posting[d] \in Posting
      BY DEF LedgerInv, LedgerTyped
    <2>2. posting'[d] = [posting[d] EXCEPT !.alone = posting[d].at = "idle"]
      BY <1>1 DEF Done
    <2>3. (posting[d].at = "idle") \in BOOLEAN
      OBVIOUS
    <2> QED
      BY <2>1, <2>2, <2>3 DEF Posting
  <1>2. posting'[c] = NoPosting /\ posting' = [d \in Clerks |-> posting'[d]]
    BY DEF Done
  <1>3. posting' \in [Clerks -> Posting]
    BY <1>1, <1>2, NoPostingTyped
  <1>4. \A d \in Clerks : PostingInv(posting[d])'
    BY <1>1, <1>2, NoPostingTyped DEF PostingInv
  <1> QED
    BY <1>3, <1>4

LEMMA FinishSyncStep ==
    ASSUME LedgerInv, NEW c \in Clerks, FinishSync(c)
    PROVE  LedgerInv'
  <1> DEFINE t == posting[c]
  <1>1. /\ t.at = "listed"
        /\ bill' = IF t.new # t.saw THEN t.new ELSE bill
        /\ entry' = [e \in Entries |-> IF e \in t.to THEN t.new ELSE entry[e]]
        /\ drifted' = ~t.alone
        /\ posting' = Done(c)
    BY DEF FinishSync, Changes
  <1>2. t \in Posting /\ PostingInv(t)
    BY DEF LedgerInv, LedgerTyped
  <1>3. t.new \in PaymentStatus /\ t.alone \in BOOLEAN
    BY <1>2 DEF Posting
  <1> HIDE DEF t
  <1>4. LedgerTyped'
    BY <1>1, <1>3, DoneFacts DEF LedgerInv, LedgerTyped
  <1>5. LedgerFollows'
    <2> SUFFICES ASSUME ~drifted', NEW e \in Entries, entry'[e] # "absent" PROVE entry'[e] = bill'
      BY DEF LedgerFollows, Recorded
    <2>1. t.saw = bill /\ t.to = {x \in Recorded : entry[x] # t.new}
      BY <1>1, <1>2, <1>3 DEF PostingInv
    <2>2. bill' = t.new
      BY <1>1, <2>1
    <2>3. CASE e \in t.to
      BY <1>1, <2>2, <2>3
    <2>4. CASE e \notin t.to
      BY <1>1, <2>1, <2>2, <2>4 DEF Recorded
    <2> QED
      BY <2>3, <2>4
  <1> QED
    BY <1>1, <1>4, <1>5, DoneFacts DEF LedgerInv

LEMMA FinishByHandStep ==
    ASSUME LedgerInv, NEW c \in Clerks, FinishByHand(c)
    PROVE  LedgerInv'
  <1>1. /\ IF Changes(c) THEN bill' = posting[c].new /\ drifted' = TRUE ELSE UNCHANGED <<bill, drifted>>
        /\ posting' = Done(c)
        /\ UNCHANGED entry
    BY DEF FinishByHand
  <1>2. posting[c].new \in PaymentStatus
    BY DEF LedgerInv, LedgerTyped, Posting
  <1>3. LedgerTyped'
    BY <1>1, <1>2, DoneFacts DEF LedgerInv, LedgerTyped
  <1>4. LedgerFollows'
    BY <1>1 DEF LedgerInv, LedgerFollows, Recorded
  <1> QED
    BY <1>1, <1>3, <1>4, DoneFacts DEF LedgerInv

LEMMA FinishAdjustmentStep ==
    ASSUME LedgerInv, NEW c \in Clerks, FinishAdjustment(c)
    PROVE  LedgerInv'
  <1> DEFINE t == posting[c]
  <1>1. /\ t.at = "adjusting"
        /\ entry' = [e \in Entries |-> IF e \in t.to THEN t.new ELSE entry[e]]
        /\ drifted' = (drifted \/ ~t.alone)
        /\ posting' = Done(c)
        /\ UNCHANGED bill
    BY DEF FinishAdjustment
  <1>2. t \in Posting /\ PostingInv(t)
    BY DEF LedgerInv, LedgerTyped
  <1>3. t.new \in PaymentStatus /\ t.alone \in BOOLEAN
    BY <1>2 DEF Posting
  <1> HIDE DEF t
  <1>4. LedgerTyped'
    BY <1>1, <1>3, DoneFacts DEF LedgerInv, LedgerTyped
  <1>5. LedgerFollows'
    <2> SUFFICES ASSUME ~drifted', NEW e \in Entries, entry'[e] # "absent" PROVE entry'[e] = bill
      BY <1>1 DEF LedgerFollows, Recorded
    <2>1. ~drifted /\ t.new = entry["primary"] /\ "primary" \in Entries
      BY <1>1, <1>2, <1>3 DEF PostingInv, Entries
    <2>2. \A x \in Entries : entry[x] # "absent" => entry[x] = bill
      BY <2>1 DEF LedgerInv, LedgerFollows, Recorded
    <2> QED
      BY <1>1, <2>1, <2>2
  <1> QED
    BY <1>1, <1>4, <1>5, DoneFacts DEF LedgerInv

LEMMA LedgerStep == LedgerInv /\ [LedgerNext]_ledgerVars => LedgerInv'
  <1> SUFFICES ASSUME LedgerInv, [LedgerNext]_ledgerVars PROVE LedgerInv'
    OBVIOUS
  <1>1. CASE UNCHANGED ledgerVars
    BY <1>1 DEF ledgerVars, LedgerInv, LedgerTyped, PostingInv, LedgerFollows, Recorded
  <1>2. ASSUME NEW c \in Clerks, NEW s \in Statuses, StartSync(c, s) \/ StartByHand(c, s) PROVE LedgerInv'
    <2> DEFINE t(at) == [NoPosting EXCEPT !.at = at, !.saw = bill, !.new = s]
    <2>1. /\ t("derived") \in Posting /\ t("derived").at = "derived" /\ t("derived").saw = bill
          /\ t("byhand") \in Posting /\ t("byhand").at = "byhand"
      BY NoPostingTyped DEF Posting, PaymentStatus, LedgerInv, LedgerTyped
    <2>2. /\ posting' = [posting EXCEPT ![c] = t("derived")] \/ posting' = [posting EXCEPT ![c] = t("byhand")]
          /\ UNCHANGED <<bill, entry, drifted>>
      BY <1>2 DEF StartSync, StartByHand
    <2> HIDE DEF t
    <2> QED
      BY <2>1, <2>2, PostingStep DEF PostingInv
  <1>3. ASSUME NEW c \in Clerks, NEW a \in Adjustments, StartAdjustment(c, a) PROVE LedgerInv'
    <2> DEFINE t == [NoPosting EXCEPT !.at = "adjusting", !.new = entry["primary"], !.to = {a}]
    <2>1. t \in Posting /\ t.at = "adjusting" /\ t.new = entry["primary"]
      BY NoPostingTyped DEF Posting, Entries, LedgerInv, LedgerTyped
    <2>2. posting' = [posting EXCEPT ![c] = t] /\ UNCHANGED <<bill, entry, drifted>>
      BY <1>3 DEF StartAdjustment
    <2> HIDE DEF t
    <2> QED
      BY <2>1, <2>2, PostingStep DEF PostingInv
  <1>4. ASSUME NEW c \in Clerks, BillSync(c) PROVE LedgerInv'
    <2> DEFINE t == [posting[c] EXCEPT !.at = "billed"]
    <2>1. posting[c] \in Posting /\ posting[c].at = "derived" /\ PostingInv(posting[c])
      BY <1>4 DEF BillSync, LedgerInv, LedgerTyped
    <2>2. t \in Posting /\ t.at = "billed" /\ t.saw = posting[c].saw /\ t.alone = posting[c].alone
      BY <2>1 DEF Posting
    <2>3. posting' = [posting EXCEPT ![c] = t] /\ UNCHANGED <<bill, entry, drifted>>
      BY <1>4 DEF BillSync
    <2> HIDE DEF t
    <2> QED
      BY <2>1, <2>2, <2>3, PostingStep DEF PostingInv
  <1>5. ASSUME NEW c \in Clerks, ListEntries(c) PROVE LedgerInv'
    <2> DEFINE t == [posting[c] EXCEPT !.at = "listed", !.to = Copied(posting[c].new)]
    <2>1. posting[c] \in Posting /\ posting[c].at = "billed" /\ PostingInv(posting[c])
      BY <1>5 DEF ListEntries, LedgerInv, LedgerTyped
    <2>2. /\ t \in Posting /\ t.at = "listed" /\ t.saw = posting[c].saw /\ t.alone = posting[c].alone
          /\ t.new = posting[c].new /\ t.to = {e \in Recorded : entry[e] # t.new}
      BY <2>1 DEF Posting, Copied, Recorded
    <2>3. posting' = [posting EXCEPT ![c] = t] /\ UNCHANGED <<bill, entry, drifted>>
      BY <1>5 DEF ListEntries
    <2> HIDE DEF t
    <2> QED
      BY <2>1, <2>2, <2>3, PostingStep DEF PostingInv
  <1>6. ASSUME NEW c \in Clerks, FailPosting(c) PROVE LedgerInv'
    BY <1>6, NoPostingTyped, PostingStep DEF FailPosting, PostingInv
  <1> QED
    BY <1>1, <1>2, <1>3, <1>4, <1>5, <1>6, FinishSyncStep, FinishByHandStep, FinishAdjustmentStep DEF LedgerNext

\* A payment or a webhook copies the status it derives to every entry of the
\* invoice, and an adjustment takes the one of its primary entry: they agree
\* unless a member set a status by hand or a request was overtaken.
THEOREM EntriesAgree == Spec => []LedgerFollows
  <1>1. Init => LedgerInv
    BY LedgerStart DEF Init
  <1>2. LedgerInv /\ [Next]_vars => LedgerInv'
    BY LedgerStep, PartsMove
  <1>3. LedgerInv => LedgerFollows
    BY DEF LedgerInv
  <1> QED
    BY <1>1, <1>2, <1>3, PTL DEF Spec

-----------------------------------------------------------------------------
(* The Stripe account.                                                     *)

ConnectStatus == {"none", "pending", "active", "payouts_disabled", "charges_disabled", "restricted"}
Rows == ConnectStatus \X BOOLEAN \X BOOLEAN
Asking == [at : {"idle", "create", "opened", "refresh", "answered"},
           acct : Accounts \cup {NoAccount}, saw : Capability, row : Rows \cup {<<>>}]

ConnectTyped ==
    /\ account \in Accounts \cup {NoAccount}
    /\ status \in ConnectStatus /\ charges \in BOOLEAN /\ payouts \in BOOLEAN
    /\ replaced \in BOOLEAN
    /\ \A a \in DOMAIN opened : opened[a] \in Capability
    /\ answered \subseteq Accounts \X Capability
    /\ asking \in [Members -> Asking]

\* Stripe has told of a state of account a in which it may be charged.
ToldOf(a) == \E x \in answered : x[1] = a /\ x[2].charges /\ ~x[2].disabled

\* A request that opened an account holds one, and one that asks after an
\* account asks after the one on record while none has been replaced.
AskingInv(t) ==
    /\ t.at \in {"opened", "refresh", "answered"} => t.acct \in Accounts /\ t.acct \in DOMAIN opened
    /\ t.at \in {"refresh", "answered"} /\ ~replaced => t.acct = account
    /\ t.at = "answered" => <<t.acct, t.saw>> \in answered

\* The status column alone says what Stripe has told.
StatusTold == status \in {"active", "payouts_disabled"} /\ ~replaced => ToldOf(account)

ConnectInv ==
    /\ ConnectTyped
    /\ account \in Accounts => account \in DOMAIN opened
    /\ \A x \in answered : x[1] \in DOMAIN opened
    /\ \A m \in Members : AskingInv(asking[m])
    /\ StatusTold

LEMMA NoAskingTyped == NoAsking \in Asking /\ NoAsking.at = "idle" /\ New \in Capability
  BY DEF NoAsking, Asking, New, Capability

\* A status that lets an account be charged is derived from a state that does.
LEMMA DeriveFacts ==
    ASSUME NEW s \in Capability
    PROVE  /\ Derive(s) \in ConnectStatus
           /\ Derive(s) \in {"active", "payouts_disabled"} => s.charges /\ ~s.disabled
  BY DEF Derive, ConnectStatus, Capability

LEMMA ConnectStart == ConnectInit => ConnectInv
  <1> SUFFICES ASSUME ConnectInit PROVE ConnectInv
    OBVIOUS
  <1>1. ConnectTyped
    BY NoAskingTyped DEF ConnectInit, ConnectTyped, ConnectStatus
  <1>2. \A m \in Members : AskingInv(asking[m])
    BY NoAskingTyped DEF ConnectInit, AskingInv
  <1> QED
    BY <1>1, <1>2, ConnectAssumption DEF ConnectInit, ConnectInv, StatusTold

\* A step that moves one request, learns from Stripe, and writes nothing.
LEMMA AskingStep ==
    ASSUME ConnectInv, NEW m \in Members, NEW t \in Asking, AskingInv(t)',
           asking' = [asking EXCEPT ![m] = t],
           UNCHANGED <<account, status, charges, payouts, replaced>>,
           answered \subseteq answered', answered' \subseteq Accounts \X Capability,
           \A x \in answered' : x[1] \in DOMAIN opened',
           DOMAIN opened \subseteq DOMAIN opened',
           \A a \in DOMAIN opened' : opened'[a] \in Capability
    PROVE  ConnectInv'
  <1>1. \A n \in Members : asking'[n] = IF n = m THEN t ELSE asking[n]
    BY DEF ConnectInv, ConnectTyped
  <1>2. ConnectTyped'
    BY DEF ConnectInv, ConnectTyped
  <1>3. \A n \in Members : AskingInv(asking[n])'
    <2> SUFFICES ASSUME NEW n \in Members PROVE AskingInv(asking[n])'
      OBVIOUS
    <2>1. CASE n = m
      BY <1>1, <2>1 DEF AskingInv
    <2>2. CASE n # m
      <3>1. AskingInv(asking[n]) /\ asking'[n] = asking[n]
        BY <1>1, <2>2 DEF ConnectInv
      <3> QED
        BY <3>1 DEF AskingInv
    <2> QED
      BY <2>1, <2>2
  <1>4. StatusTold'
    BY DEF ConnectInv, StatusTold, ToldOf
  <1> QED
    BY <1>2, <1>3, <1>4 DEF ConnectInv

LEMMA KeepAccountStep ==
    ASSUME ConnectInv, NEW m \in Members, KeepAccount(m)
    PROVE  ConnectInv'
  <1>1. /\ asking[m].at = "opened"
        /\ account' = asking[m].acct
        /\ status' = "pending"
        /\ replaced' = (replaced \/ account # NoAccount)
        /\ asking' = [asking EXCEPT ![m] = NoAsking]
        /\ UNCHANGED <<opened, answered, changes, charges, payouts>>
    BY DEF KeepAccount, StripeKept
  <1>2. asking[m].acct \in Accounts /\ asking[m].acct \in DOMAIN opened
    BY <1>1 DEF ConnectInv, AskingInv
  <1>3. ConnectTyped'
    BY <1>1, <1>2, NoAskingTyped DEF ConnectInv, ConnectTyped, ConnectStatus
  <1>4. \A n \in Members : AskingInv(asking[n])'
    <2> SUFFICES ASSUME NEW n \in Members PROVE AskingInv(asking[n])'
      OBVIOUS
    <2>1. asking'[n] = IF n = m THEN NoAsking ELSE asking[n]
      BY <1>1 DEF ConnectInv, ConnectTyped
    <2>2. AskingInv(asking[n]) /\ account \in Accounts \cup {NoAccount}
      BY DEF ConnectInv, ConnectTyped
    <2>3. CASE n = m
      BY <2>1, <2>3, NoAskingTyped DEF AskingInv
    <2>4. CASE n # m /\ account # NoAccount
      <3>1. replaced'
        BY <1>1, <2>4
      <3> QED
        BY <1>1, <2>1, <2>2, <2>4, <3>1 DEF AskingInv
    <2>5. CASE n # m /\ account = NoAccount
      <3>1. replaced' <=> replaced
        BY <1>1, <2>5
      <3>2. asking[n].at \in {"refresh", "answered"} => replaced
        BY <2>2, <2>5, ConnectAssumption DEF AskingInv
      <3> QED
        BY <1>1, <2>1, <2>2, <2>5, <3>1, <3>2 DEF AskingInv
    <2> QED
      BY <2>3, <2>4, <2>5
  <1> QED
    BY <1>1, <1>2, <1>3, <1>4 DEF ConnectInv, StatusTold

LEMMA ApplyStatusStep ==
    ASSUME ConnectInv, NEW m \in Members, ApplyStatus(m)
    PROVE  ConnectInv'
  <1> DEFINE t == asking[m]
  <1>1. /\ t.at = "answered"
        /\ status' \in {status, Derive(t.saw)}
        /\ charges' \in {charges, t.saw.charges}
        /\ payouts' \in {payouts, t.saw.payouts}
        /\ asking' = [asking EXCEPT ![m] = NoAsking]
        /\ UNCHANGED <<opened, answered, account, replaced>>
    BY DEF ApplyStatus, StripeKept
  <1>2. t \in Asking /\ t.saw \in Capability /\ t.saw.charges \in BOOLEAN /\ t.saw.payouts \in BOOLEAN
    BY DEF ConnectInv, ConnectTyped, Asking, Capability
  <1>3. /\ ~replaced => t.acct = account
        /\ <<t.acct, t.saw>> \in answered
    BY <1>1 DEF ConnectInv, AskingInv
  <1> HIDE DEF t
  <1>4. ConnectTyped'
    BY <1>1, <1>2, DeriveFacts, NoAskingTyped DEF ConnectInv, ConnectTyped
  <1>5. \A n \in Members : AskingInv(asking[n])'
    <2> SUFFICES ASSUME NEW n \in Members PROVE AskingInv(asking[n])'
      OBVIOUS
    <2>1. asking'[n] = IF n = m THEN NoAsking ELSE asking[n]
      BY <1>1 DEF ConnectInv, ConnectTyped
    <2>2. AskingInv(asking[n])
      BY DEF ConnectInv
    <2> QED
      BY <1>1, <2>1, <2>2, NoAskingTyped DEF AskingInv
  <1>6. StatusTold'
    <2> SUFFICES ASSUME status' \in {"active", "payouts_disabled"}, ~replaced PROVE ToldOf(account)
      BY <1>1 DEF StatusTold, ToldOf
    <2>1. CASE status' = status
      BY <2>1 DEF ConnectInv, StatusTold
    <2>2. CASE status' = Derive(t.saw)
      <3>1. t.saw.charges /\ ~t.saw.disabled
        BY <1>2, <2>2, DeriveFacts
      <3> QED
        BY <1>3, <3>1 DEF ToldOf
    <2> QED
      BY <1>1, <2>1, <2>2
  <1> QED
    BY <1>1, <1>4, <1>5, <1>6 DEF ConnectInv

LEMMA ConnectStep == ConnectInv /\ [ConnectNext]_connectVars => ConnectInv'
  <1> SUFFICES ASSUME ConnectInv, [ConnectNext]_connectVars PROVE ConnectInv'
    OBVIOUS
  <1> USE DEF RowKept, StripeKept
  <1>1. CASE UNCHANGED connectVars
    BY <1>1 DEF connectVars, ConnectInv, ConnectTyped, AskingInv, StatusTold, ToldOf
  <1>2. ASSUME NEW a \in Accounts, NEW s \in States, ChangeAccount(a, s) PROVE ConnectInv'
    <2>1. s \in Capability /\ a \in DOMAIN opened
      BY <1>2, ConnectAssumption DEF ChangeAccount
    <2>2. /\ opened' = [opened EXCEPT ![a] = s] /\ answered' = answered \cup {<<a, s>>}
          /\ UNCHANGED <<account, status, charges, payouts, replaced, asking>>
      BY <1>2 DEF ChangeAccount
    <2>3. ConnectTyped'
      BY <2>1, <2>2 DEF ConnectInv, ConnectTyped
    <2>4. \A m \in Members : AskingInv(asking[m])'
      BY <2>2 DEF ConnectInv, AskingInv
    <2>5. StatusTold'
      BY <2>2 DEF ConnectInv, StatusTold, ToldOf
    <2> QED
      BY <2>1, <2>2, <2>3, <2>4, <2>5 DEF ConnectInv
  <1>3. ASSUME NEW m \in Members, StartAccount(m) PROVE ConnectInv'
    <2>0. PICK t : t = [asking[m] EXCEPT !.at = "create"]
      OBVIOUS
    <2>1. t \in Asking /\ t.at = "create"
      BY <2>0 DEF ConnectInv, ConnectTyped, Asking
    <2>2. asking' = [asking EXCEPT ![m] = t]
      BY <2>0, <1>3 DEF StartAccount
    <2>3. AskingInv(t)'
      BY <2>0, <2>1 DEF AskingInv
    <2> QED
      BY <2>0, <1>3, <2>1, <2>2, <2>3, AskingStep DEF StartAccount, ConnectInv, ConnectTyped
  <1>4. ASSUME NEW m \in Members, NEW a \in Accounts, OpenAccount(m, a) PROVE ConnectInv'
    <2>0. PICK t : t = [asking[m] EXCEPT !.at = "opened", !.acct = a]
      OBVIOUS
    <2>1. t \in Asking /\ t.at = "opened" /\ t.acct = a
      BY <2>0 DEF ConnectInv, ConnectTyped, Asking
    <2>2. /\ asking' = [asking EXCEPT ![m] = t]
          /\ opened' = [b \in DOMAIN opened \cup {a} |-> IF b = a THEN New ELSE opened[b]]
          /\ UNCHANGED <<account, status, charges, payouts, replaced, answered>>
      BY <2>0, <1>4 DEF OpenAccount
    <2>3. AskingInv(t)'
      BY <2>0, <2>1, <2>2 DEF AskingInv
    <2>4. DOMAIN opened' = DOMAIN opened \cup {a} /\ \A b \in DOMAIN opened' : opened'[b] \in Capability
      BY <2>0, <2>2, NoAskingTyped DEF ConnectInv, ConnectTyped
    <2> QED
      BY <2>0, <2>1, <2>2, <2>3, <2>4, AskingStep DEF ConnectInv, ConnectTyped
  <1>5. ASSUME NEW m \in Members, StartRefresh(m) PROVE ConnectInv'
    <2>0. PICK t : t = [NoAsking EXCEPT !.at = "refresh", !.acct = account, !.row = Row]
      OBVIOUS
    <2>1. Row \in Rows
      BY <2>0 DEF Row, Rows, ConnectInv, ConnectTyped
    <2>2. t \in Asking /\ t.at = "refresh" /\ t.acct = account
      BY <2>0, <2>1, NoAskingTyped DEF ConnectInv, ConnectTyped, Asking
    <2>3. asking' = [asking EXCEPT ![m] = t] /\ account # NoAccount
      BY <2>0, <1>5 DEF StartRefresh
    <2>4. AskingInv(t)'
      BY <2>0, <1>5, <2>2, <2>3 DEF AskingInv, StartRefresh, ConnectInv, ConnectTyped
    <2> QED
      BY <2>0, <1>5, <2>2, <2>3, <2>4, AskingStep DEF StartRefresh, ConnectInv, ConnectTyped
  <1>6. ASSUME NEW m \in Members, RetrieveAccount(m) PROVE ConnectInv'
    <2>00. PICK s : s = opened[asking[m].acct]
      OBVIOUS
    <2>0. PICK t : t = [asking[m] EXCEPT !.at = "answered", !.saw = s]
      OBVIOUS
    <2>1. /\ asking[m].at = "refresh" /\ asking' = [asking EXCEPT ![m] = t]
          /\ answered' = answered \cup {<<asking[m].acct, s>>}
          /\ UNCHANGED <<account, status, charges, payouts, replaced, opened>>
      BY <2>00, <2>0, <1>6 DEF RetrieveAccount
    <2>2. AskingInv(asking[m]) /\ asking[m].acct \in Accounts /\ asking[m].acct \in DOMAIN opened
      BY <2>00, <2>0, <2>1 DEF ConnectInv, AskingInv
    <2>3. s \in Capability
      BY <2>00, <2>0, <2>2 DEF ConnectInv, ConnectTyped
    <2>4. t \in Asking /\ t.at = "answered" /\ t.acct = asking[m].acct /\ t.saw = s
      BY <2>00, <2>0, <2>3 DEF ConnectInv, ConnectTyped, Asking
    <2>5. AskingInv(t)'
      BY <2>1, <2>2, <2>4 DEF AskingInv
    <2>6. answered' \subseteq Accounts \X Capability
      BY <2>1, <2>2, <2>3 DEF ConnectInv, ConnectTyped
    <2>7. \A x \in answered' : x[1] \in DOMAIN opened'
      BY <2>1, <2>2 DEF ConnectInv
    <2> QED
      BY <2>1, <2>4, <2>5, <2>6, <2>7, AskingStep DEF ConnectInv, ConnectTyped
  <1>7. ASSUME NEW m \in Members, NEW x \in answered, ReceiveUpdate(m, x[1], x[2]) PROVE ConnectInv'
    <2>00. PICK a, s : a = x[1] /\ s = x[2]
      OBVIOUS
    <2>0. PICK t : t = [NoAsking EXCEPT !.at = "answered", !.acct = a, !.saw = s, !.row = Row]
      OBVIOUS
    <2>1. /\ <<a, s>> \in answered /\ a = account /\ asking' = [asking EXCEPT ![m] = t]
          /\ UNCHANGED <<account, status, charges, payouts, replaced, opened, answered>>
      BY <2>00, <2>0, <1>7 DEF ReceiveUpdate
    <2>2. Row \in Rows
      BY <2>00, <2>0 DEF Row, Rows, ConnectInv, ConnectTyped
    <2>3. a \in Accounts /\ s \in Capability /\ a \in DOMAIN opened
      BY <2>00, <2>0 DEF ConnectInv, ConnectTyped
    <2>4. t \in Asking /\ t.at = "answered" /\ t.acct = a /\ t.saw = s
      BY <2>00, <2>0, <2>2, <2>3, NoAskingTyped DEF Asking
    <2>5. AskingInv(t)'
      BY <2>00, <2>0, <2>1, <2>3, <2>4 DEF AskingInv
    <2> QED
      BY <2>00, <2>0, <2>1, <2>4, <2>5, AskingStep DEF ConnectInv, ConnectTyped
  <1>8. ASSUME NEW m \in Members, FailAsking(m) PROVE ConnectInv'
    <2>1. AskingInv(NoAsking)'
      BY NoAskingTyped DEF AskingInv
    <2> QED
      BY <1>8, <2>1, NoAskingTyped, AskingStep DEF FailAsking, ConnectInv, ConnectTyped
  <1> QED
    BY <1>1, <1>2, <1>3, <1>4, <1>5, <1>6, <1>7, <1>8, KeepAccountStep, ApplyStatusStep DEF ConnectNext

\* _resolve_stripe_connect lets a charge go to the account on record only
\* after Stripe told of a state of it that may be charged.
THEOREM ChargesAllowed == Spec => []ChargesWereEnabled
  <1>1. Init => ConnectInv
    BY ConnectStart DEF Init
  <1>2. ConnectInv /\ [Next]_vars => ConnectInv'
    BY ConnectStep, PartsMove
  <1>3. ConnectInv => ChargesWereEnabled
    BY DEF ConnectInv, ConnectTyped, ConnectStatus, StatusTold, ToldOf, ChargesWereEnabled, MayCharge
  <1> QED
    BY <1>1, <1>2, <1>3, PTL DEF Spec

-----------------------------------------------------------------------------
(* Conversations with the assistant.                                       *)

\* A set of natural numbers has a least element: the form of induction that
\* needs no predicate for a parameter.
LEMMA LeastNumber ==
    ASSUME NEW T \in SUBSET Nat, T # {}
    PROVE  \E m \in T : \A n \in T : m <= n
  <1> DEFINE R == OpToRel(<, Nat)
  <1>1. \A m, n \in Nat : m < n => <<m, n>> \in R
    BY DEF OpToRel
  <1>2. IsWellFoundedOn(R, Nat)
    BY NatLessThanWellFounded
  <1> HIDE DEF R
  <1>3. PICK x \in T : \A y \in T : ~(<<y, x>> \in R)
    BY <1>2, WFMin
  <1>4. \A y \in T : ~(y < x)
    BY <1>1, <1>3
  <1>5. \A y \in T : x <= y
    BY <1>4
  <1> QED
    BY <1>5

\* Where there is an ACTIVE conversation, the newest one is found.
LEMMA FoundIsNewest ==
    ASSUME Found = {}
    PROVE  Active = {}
  <1> SUFFICES ASSUME Active # {} PROVE FALSE
    OBVIOUS
  <1>1. Active \subseteq 1..MaxTalks /\ MaxTalks \in Nat
    BY ConversationAssumption DEF Active, Talks
  <1> DEFINE Distances == {n \in Nat : \E c \in Active : n = MaxTalks - c}
  <1>2. PICK c \in Active : TRUE
    OBVIOUS
  <1>3. MaxTalks - c \in Distances
    BY <1>1, <1>2
  <1>4. PICK m \in Distances : \A n \in Distances : m <= n
    BY <1>3, LeastNumber
  <1>5. PICK d \in Active : m = MaxTalks - d
    BY <1>4
  <1>6. ASSUME NEW e \in Active PROVE e <= d
    <2>1. MaxTalks - e \in Distances
      BY <1>1, <1>6
    <2>2. MaxTalks - d <= MaxTalks - e
      BY <1>4, <1>5, <2>1
    <2> QED
      BY <1>1, <1>5, <1>6, <2>2
  <1>7. d \in Found
    BY <1>5, <1>6 DEF Found
  <1> QED
    BY <1>7

Opening == [at : {"opening"}, talk : Talks]
Asked == [at : {"asking"}, talk : Talks]

\* A conversation whose opening overlapped no other's commit opens where there
\* is none.
TalkInv ==
    /\ talk \in [Talks -> {"absent", "active", "archived"}]
    /\ window \in [Windows -> {Closed} \cup Opening \cup Asked]
    /\ \A w \in Windows : window[w] \in Opening /\ window[w].talk \notin rivals => Active = {}
    /\ \A c, d \in Active \ rivals : c = d

ProposalsInv == \A p \in proposals : IsRuleDict(p.what) => MayAsk(p.what)

LEMMA TalkStart == ConversationInit => TalkInv /\ ProposalsInv
  <1> SUFFICES ASSUME ConversationInit PROVE TalkInv /\ ProposalsInv
    OBVIOUS
  <1>1. Active = {}
    BY DEF ConversationInit, Active
  <1>2. Closed \notin Opening
    BY DEF Closed, Opening
  <1> QED
    BY <1>1, <1>2 DEF ConversationInit, TalkInv, ProposalsInv

\* What is taken out of a proposal, and what is put in when nothing is left.
LEMMA SanitizedAsks ==
    ASSUME NEW draft \in Drafted
    PROVE  IsRuleDict(Sanitized(draft)) => MayAsk(Sanitized(draft))
  <1>1. CASE ~IsRuleDict(draft)
    BY <1>1 DEF Sanitized
  <1>2. CASE IsRuleDict(draft)
    <2>1. PICK fields \in SUBSET (Allowed \cup Forbidden) :
             draft = [type |-> "qualification_rule", shape |-> "dict", asks |-> fields]
      BY <1>2 DEF Drafted, IsRuleDict
    <2>2. CASE fields \subseteq Forbidden
      <3>1. Sanitized(draft).asks = Defaults
        BY <1>2, <2>1, <2>2 DEF Sanitized
      <3> QED
        BY <3>1, ConversationAssumption DEF MayAsk
    <2>3. CASE ~(fields \subseteq Forbidden)
      <3>1. Sanitized(draft).asks = fields \ Forbidden
        BY <1>2, <2>1, <2>3 DEF Sanitized
      <3> QED
        BY <2>3, <3>1 DEF MayAsk
    <2> QED
      BY <2>2, <2>3
  <1> QED
    BY <1>1, <1>2

LEMMA ProposalsStep == ProposalsInv /\ [ConversationNext]_talkVars => ProposalsInv'
  <1> SUFFICES ASSUME ProposalsInv, [ConversationNext]_talkVars PROVE ProposalsInv'
    OBVIOUS
  <1>1. CASE UNCHANGED proposals
    BY <1>1 DEF ProposalsInv
  <1>2. ASSUME NEW w \in Windows, AnswerOwner(w) PROVE ProposalsInv'
    <2>1. PICK found \in Responses : proposals' = proposals \cup Filed(window[w].talk, found)
      BY <1>2 DEF AnswerOwner
    <2>2. \A what \in found : \E draft \in Drafted : what = Sanitized(draft)
      BY DEF Responses, Extracted
    <2>3. \A p \in Filed(window[w].talk, found) : p.what \in found
      BY DEF Filed
    <2>4. \A p \in Filed(window[w].talk, found) : IsRuleDict(p.what) => MayAsk(p.what)
      BY <2>2, <2>3, SanitizedAsks
    <2> QED
      BY <2>1, <2>4 DEF ProposalsInv
  <1> QED
    BY <1>1, <1>2 DEF ConversationNext, talkVars, OpenConversation, CommitConversation, LoseTalk,
                      LoadConversation, ArchiveConversation

LEMMA OpenConversationStep ==
    ASSUME TalkInv, NEW w \in Windows, OpenConversation(w)
    PROVE  TalkInv'
  <1>1. PICK c \in Talks :
          /\ c \notin Begun
          /\ window' = [window EXCEPT ![w] = [at |-> "opening", talk |-> c]]
          /\ rivals' = rivals \ {c}
          /\ talk' = talk
    BY DEF OpenConversation
  <1>2. Active' = Active /\ Active = {}
    BY <1>1, FoundIsNewest DEF OpenConversation, Active
  <1>3. [at |-> "opening", talk |-> c] \in Opening
    BY DEF Opening
  <1> QED
    BY <1>1, <1>2, <1>3 DEF TalkInv

LEMMA CommitConversationStep ==
    ASSUME TalkInv, NEW w \in Windows, CommitConversation(w)
    PROVE  TalkInv'
  <1>1. PICK c : c = window[w].talk
    OBVIOUS
  <1>2. /\ window[w] \in Opening /\ c \in Talks
        /\ talk' = [talk EXCEPT ![c] = "active"]
        /\ window' = [window EXCEPT ![w] = Closed]
        /\ rivals' = rivals \cup {window[v].talk : v \in {u \in Windows \ {w} : window[u].at = "opening"}}
    BY <1>1 DEF CommitConversation, TalkInv, Opening, Asked, Closed
  <1>3. Active' = Active \cup {c}
    BY <1>2 DEF Active, TalkInv
  <1>4. Closed \notin Opening
    BY DEF Closed, Opening
  <1>5. \A v \in Windows : window'[v] \in Opening => window'[v].talk \in rivals'
    <2> SUFFICES ASSUME NEW v \in Windows, window'[v] \in Opening PROVE window'[v].talk \in rivals'
      OBVIOUS
    <2>1. v # w /\ window'[v] = window[v]
      BY <1>2, <1>4 DEF TalkInv
    <2>2. window[v].at = "opening"
      BY <2>1 DEF Opening
    <2> QED
      BY <1>2, <2>1, <2>2
  <1>6. \A d, e \in Active' \ rivals' : d = e
    <2>1. CASE c \in rivals
      BY <1>2, <1>3, <2>1 DEF TalkInv
    <2>2. CASE c \notin rivals
      <3>1. Active = {}
        BY <1>1, <1>2, <2>2 DEF TalkInv
      <3> QED
        BY <1>3, <3>1
    <2> QED
      BY <2>1, <2>2
  <1> QED
    BY <1>2, <1>5, <1>6 DEF TalkInv

LEMMA TalkStep == TalkInv /\ [ConversationNext]_talkVars => TalkInv'
  <1> SUFFICES ASSUME TalkInv, [ConversationNext]_talkVars PROVE TalkInv'
    OBVIOUS
  <1>1. CASE UNCHANGED talkVars
    BY <1>1 DEF talkVars, TalkInv, Active
  <1>2. ASSUME NEW w \in Windows, NEW span \in {Closed} \cup Asked,
               window' = [window EXCEPT ![w] = span], UNCHANGED <<talk, rivals>>
        PROVE  TalkInv'
    <2>1. span \notin Opening
      BY DEF Closed, Opening, Asked
    <2> QED
      BY <1>2, <2>1 DEF TalkInv, Active
  <1>3. ASSUME NEW w \in Windows, NEW c \in Talks, LoadConversation(w, c) PROVE TalkInv'
    <2>1. [at |-> "asking", talk |-> c] \in Asked
      BY DEF Asked
    <2> QED
      BY <1>2, <1>3, <2>1 DEF LoadConversation
  <1>4. ASSUME NEW w \in Windows, AnswerOwner(w) \/ LoseTalk(w) PROVE TalkInv'
    BY <1>2, <1>4 DEF AnswerOwner, LoseTalk
  <1>5. ASSUME NEW c \in Talks, ArchiveConversation(c) PROVE TalkInv'
    <2>1. Active' \subseteq Active
      BY <1>5 DEF ArchiveConversation, Active, TalkInv
    <2> QED
      BY <1>5, <2>1 DEF ArchiveConversation, TalkInv
  <1> QED
    BY <1>1, <1>3, <1>4, <1>5, OpenConversationStep, CommitConversationStep DEF ConversationNext

\* get_or_create_active_conversation opens a second conversation only while
\* another opening is under way, and _sanitize_proposal_data leaves no
\* rule_data dict that asks a customer for what it must not.
THEOREM ConversationsAgree == Spec => []OneConversation
  <1>1. Init => TalkInv /\ ProposalsInv
    BY TalkStart DEF Init
  <1>2. TalkInv /\ ProposalsInv /\ [Next]_vars => TalkInv' /\ ProposalsInv'
    BY TalkStep, ProposalsStep, PartsMove
  <1>3. TalkInv /\ ProposalsInv => OneConversation
    <2> SUFFICES ASSUME TalkInv, ProposalsInv PROVE OneConversation
      OBVIOUS
    <2>1. Cardinality(Active \ rivals) <= 1
      <3>1. CASE Active \ rivals = {}
        BY <3>1, FS_EmptySet
      <3>2. ASSUME NEW c \in Active \ rivals PROVE Cardinality(Active \ rivals) <= 1
        <4>1. Active \ rivals = {c}
          BY <3>2 DEF TalkInv
        <4> QED
          BY <4>1, FS_Singleton
      <3> QED
        BY <3>1, <3>2
    <2> QED
      BY <2>1 DEF OneConversation, ProposalsInv
  <1> QED
    BY <1>1, <1>2, <1>3, PTL DEF Spec

-----------------------------------------------------------------------------
(* Members and invitations.                                                *)

MemberRole == Roles \cup {"none", "owner"}
MemberRow == [role : MemberRole, gone : BOOLEAN]
LetterRow == [to : SUBSET People, role : MemberRole, is : {"unsent", "open", "expired", "used"}]

RemoveRequest == [op : {"remove"}, who : People]
RoleRequest == [op : {"role"}, who : People, was : MemberRole, role : Roles]
AddRequest == [op : {"add"}, who : People, role : Roles]
InviteRequest == [op : {"invite"}, who : People, role : Roles]
AcceptRequest == [op : {"accept"}, letter : Letters]
MemberRequests == RemoveRequest \cup RoleRequest \cup AddRequest \cup InviteRequest \cup AcceptRequest

MembersTyped ==
    /\ member \in [People -> MemberRow]
    /\ letter \in [Letters -> LetterRow]
    /\ desk \in [Desks -> MemberRequests \cup {NoRequest}]
    /\ overtaken \subseteq Desks
    /\ crossed \in BOOLEAN

\* Where a request takes somebody's ownership, another owner remains.
LeavesAnother(r) ==
    (r \in RemoveRequest \/ (r \in RoleRequest /\ r.role # "owner")) => Owners \ {r.who} # {}

MembersInv ==
    /\ MembersTyped
    /\ ~crossed => \A d \in Desks \ overtaken : LeavesAnother(desk[d])
    /\ OwnerRemains

LEMMA RequestKinds ==
    /\ \A r \in MemberRequests :
          /\ r.op = "remove" => r \in RemoveRequest
          /\ r.op = "role" => r \in RoleRequest
          /\ r.op = "add" => r \in AddRequest
          /\ r.op = "invite" => r \in InviteRequest
          /\ r.op = "accept" => r \in AcceptRequest
    /\ NoRequest.op = "idle"
    /\ NoRequest \notin MemberRequests
    /\ \A r \in RemoveRequest : r.op = "remove" /\ r \notin RoleRequest
    /\ \A r \in RoleRequest : r.op = "role" /\ r \notin RemoveRequest
  BY DEF MemberRequests, RemoveRequest, RoleRequest, AddRequest, InviteRequest, AcceptRequest, NoRequest

LEMMA MembersStart == MembershipInit => MembersInv
  <1> SUFFICES ASSUME MembershipInit PROVE MembersInv
    OBVIOUS
  <1>1. PICK founder \in People :
          member = [p \in People |-> IF p = founder THEN [role |-> "owner", gone |-> FALSE] ELSE Stranger]
    BY DEF MembershipInit
  <1>2. founder \in Owners
    BY <1>1 DEF Owners, Belongs
  <1>3. member \in [People -> MemberRow]
    BY <1>1 DEF MemberRow, MemberRole, Stranger
  <1>4. Unsent \in LetterRow
    BY DEF Unsent, LetterRow, MemberRole
  <1>5. MembersTyped
    BY <1>3, <1>4 DEF MembershipInit, MembersTyped
  <1>6. \A d \in Desks : LeavesAnother(desk[d])
    BY RequestKinds DEF MembershipInit, LeavesAnother, MemberRequests
  <1> QED
    BY <1>2, <1>5, <1>6 DEF MembersInv, OwnerRemains

\* A request that is decided now leaves another owner.
LEMMA SpareLeavesAnother ==
    ASSUME NEW p \in People, Spare(p), Owners # {}
    PROVE  Owners \ {p} # {}
  <1> SUFFICES ASSUME Owners \ {p} = {} PROVE FALSE
    OBVIOUS
  <1>1. Owners = {p}
    OBVIOUS
  <1>2. Cardinality(Owners) = 1
    BY <1>1, FS_Singleton
  <1> QED
    BY <1>1, <1>2 DEF Spare

LEMMA DecidedNow ==
    ASSUME MembersTyped, NEW r \in Decisions
    PROVE  r \in MemberRequests /\ LeavesAnother(r)
  <1>1. CASE r \in RemoveMember
    <2>1. PICK p \in People : r = [op |-> "remove", who |-> p] /\ Owners \ {p} # {}
      BY <1>1 DEF RemoveMember
    <2>2. r \in RemoveRequest /\ r.who = p
      BY <2>1 DEF RemoveRequest
    <2> QED
      BY <2>1, <2>2 DEF MemberRequests, LeavesAnother
  <1>2. CASE r \in UpdateMemberRole
    <2>1. PICK x \in People \X Roles :
             /\ r = [op |-> "role", who |-> x[1], was |-> member[x[1]].role, role |-> x[2]]
             /\ Owners # {} /\ Belongs(x[1])
             /\ x[2] # "owner" => Spare(x[1])
      BY <1>2 DEF UpdateMemberRole
    <2>2. x[1] \in People /\ x[2] \in Roles /\ member[x[1]].role \in MemberRole
      BY DEF MembersTyped, MemberRow
    <2>3. r \in RoleRequest /\ r.who = x[1] /\ r.role = x[2]
      BY <2>1, <2>2 DEF RoleRequest
    <2>4. r.role # "owner" => Owners \ {r.who} # {}
      BY <2>1, <2>2, <2>3, SpareLeavesAnother
    <2> QED
      BY <2>3, <2>4, RequestKinds DEF MemberRequests, LeavesAnother
  <1>3. CASE r \in AddMember
    <2>1. r \in AddRequest /\ r.op = "add"
      BY <1>3 DEF AddMember, AddRequest
    <2> QED
      BY <2>1, RequestKinds DEF MemberRequests, LeavesAnother
  <1>4. CASE r \in InviteMember
    <2>1. r \in InviteRequest /\ r.op = "invite"
      BY <1>4 DEF InviteMember, InviteRequest
    <2> QED
      BY <2>1, RequestKinds DEF MemberRequests, LeavesAnother
  <1>5. CASE r \in AcceptInvitation
    <2>1. r \in AcceptRequest /\ r.op = "accept"
      BY <1>5 DEF AcceptInvitation, AcceptRequest
    <2> QED
      BY <2>1, RequestKinds DEF MemberRequests, LeavesAnother
  <1> QED
    BY <1>1, <1>2, <1>3, <1>4, <1>5 DEF Decisions

\* What a request writes: only a removal or a demotion takes an owner away, and
\* none but the one it names.
LEMMA WriteMemberFacts ==
    ASSUME MembersTyped, NEW r \in MemberRequests, WriteMember(r)
    PROVE  /\ member' \in [People -> MemberRow] /\ letter' \in [Letters -> LetterRow]
           /\ \/ Owners \subseteq Owners'
              \/ /\ r \in RemoveRequest \/ (r \in RoleRequest /\ r.role # "owner")
                 /\ Owners \ {r.who} \subseteq Owners'
  <1> USE DEF MembersTyped
  <1>1. ASSUME NEW p \in People, NEW role \in MemberRole, Join(p, role)
        PROVE  member' \in [People -> MemberRow] /\ Owners \subseteq Owners'
    <2>1. member[p] = Stranger /\ member' = [member EXCEPT ![p] = [role |-> role, gone |-> FALSE]]
      BY <1>1 DEF Join
    <2>2. [role |-> role, gone |-> FALSE] \in MemberRow
      BY DEF MemberRow
    <2>3. p \notin Owners
      BY <2>1 DEF Owners, Belongs, Stranger
    <2> QED
      BY <2>1, <2>2, <2>3 DEF Owners, Belongs
  <1>2. CASE WriteRemove(r)
    <2>1. r \in RemoveRequest /\ r.who \in People
      BY <1>2, RequestKinds DEF WriteRemove, RemoveRequest
    <2>2. member' = [member EXCEPT ![r.who].gone = TRUE] /\ letter' = letter
      BY <1>2 DEF WriteRemove
    <2>3. member' \in [People -> MemberRow]
      BY <2>1, <2>2 DEF MemberRow
    <2>4. Owners \ {r.who} \subseteq Owners'
      BY <2>1, <2>2 DEF Owners, Belongs
    <2> QED
      BY <2>1, <2>2, <2>3, <2>4
  <1>3. CASE WriteRole(r)
    <2>1. r \in RoleRequest /\ r.who \in People /\ r.role \in Roles
      BY <1>3, RequestKinds DEF WriteRole, RoleRequest
    <2>2. /\ member' = member \/ member' = [member EXCEPT ![r.who].role = r.role]
          /\ letter' = letter
      BY <1>3 DEF WriteRole
    <2>3. member' \in [People -> MemberRow]
      BY <2>1, <2>2 DEF MemberRow, MemberRole
    <2>4. CASE member' = member
      BY <2>2, <2>4 DEF Owners, Belongs
    <2>5. CASE member' = [member EXCEPT ![r.who].role = r.role]
      <3>1. \A p \in People : p # r.who => member'[p] = member[p]
        BY <2>1, <2>5
      <3>2. Owners \ {r.who} \subseteq Owners'
        BY <3>1 DEF Owners, Belongs
      <3>3. ASSUME r.role = "owner", r.who \in Owners PROVE r.who \in Owners'
        <4>1. member'[r.who].role = "owner" /\ member'[r.who].gone = member[r.who].gone
          BY <2>1, <2>5, <3>3 DEF MemberRow
        <4> QED
          BY <2>1, <3>3, <4>1 DEF Owners, Belongs
      <3> QED
        BY <2>1, <2>2, <2>3, <3>2, <3>3
    <2> QED
      BY <2>2, <2>3, <2>4, <2>5
  <1>4. CASE WriteAdd(r)
    <2>1. r.who \in People /\ r.role \in MemberRole
      BY <1>4, RequestKinds DEF WriteAdd, AddRequest, MemberRole
    <2> QED
      BY <1>1, <1>4, <2>1 DEF WriteAdd
  <1>5. CASE WriteInvite(r)
    <2>1. r.who \in People /\ r.role \in MemberRole
      BY <1>5, RequestKinds DEF WriteInvite, InviteRequest, MemberRole
    <2>2. [to |-> {r.who}, role |-> r.role, is |-> "open"] \in LetterRow
      BY <2>1 DEF LetterRow
    <2>3. letter' \in [Letters -> LetterRow] /\ member' = member
      BY <1>5, <2>2 DEF WriteInvite
    <2> QED
      BY <2>3 DEF Owners, Belongs
  <1>6. CASE WriteAccept(r)
    <2>1. r.letter \in Letters
      BY <1>6, RequestKinds DEF WriteAccept, AcceptRequest
    <2>2. letter[r.letter].to \subseteq People /\ letter[r.letter].role \in MemberRole
      BY <2>1 DEF LetterRow
    <2>3. letter' \in [Letters -> LetterRow]
      BY <1>6, <2>1 DEF WriteAccept, LetterRow
    <2> QED
      BY <1>1, <1>6, <2>2, <2>3 DEF WriteAccept
  <1> QED
    BY <1>2, <1>3, <1>4, <1>5, <1>6 DEF WriteMember

\* A commit on a decision that leaves another owner, unless it was overtaken.
LEMMA CommitKeepsOwner ==
    ASSUME MembersInv, NEW r \in MemberRequests, NEW ds \in SUBSET Desks,
           WriteMember(r), Overtaking(ds),
           desk' \in [Desks -> MemberRequests \cup {NoRequest}],
           \A d \in Desks : desk'[d] = desk[d] \/ desk'[d] = NoRequest,
           ~crossed /\ ds \cap overtaken = {} => LeavesAnother(r)
    PROVE  MembersInv'
  <1>1. /\ member' \in [People -> MemberRow] /\ letter' \in [Letters -> LetterRow]
        /\ \/ Owners \subseteq Owners'
           \/ /\ r \in RemoveRequest \/ (r \in RoleRequest /\ r.role # "owner")
              /\ Owners \ {r.who} \subseteq Owners'
    BY WriteMemberFacts DEF MembersInv
  <1>3. CASE Owners \subseteq Owners'
    <2>1. overtaken' = overtaken /\ crossed' = crossed
      BY <1>3 DEF Overtaking
    <2>2. ASSUME ~crossed, NEW d \in Desks \ overtaken PROVE LeavesAnother(desk[d])'
      <3>1. LeavesAnother(desk[d])
        BY <2>2 DEF MembersInv
      <3> QED
        BY <1>3, <3>1, RequestKinds DEF LeavesAnother, MemberRequests
    <2> QED
      BY <1>1, <1>3, <2>1, <2>2 DEF MembersInv, MembersTyped, OwnerRemains
  <1>4. CASE ~(Owners \subseteq Owners')
    <2>1. /\ overtaken' = {d \in Desks : desk'[d] # NoRequest}
          /\ crossed' = (crossed \/ ds \cap overtaken # {})
      BY <1>4 DEF Overtaking
    <2>2. ASSUME NEW d \in Desks \ overtaken' PROVE LeavesAnother(desk[d])'
      BY <2>1, <2>2, RequestKinds DEF LeavesAnother, MemberRequests
    <2>3. ~crossed' => Owners' # {}
      <3>1. SUFFICES ASSUME ~crossed' PROVE Owners' # {}
        OBVIOUS
      <3>2. LeavesAnother(r)
        BY <2>1, <3>1
      <3> QED
        BY <1>1, <1>4, <3>2 DEF LeavesAnother
    <2> QED
      BY <1>1, <2>1, <2>2, <2>3 DEF MembersInv, MembersTyped, OwnerRemains
  <1> QED
    BY <1>3, <1>4

LEMMA MembersStep == MembersInv /\ [MembershipNext]_memberVars => MembersInv'
  <1> SUFFICES ASSUME MembersInv, [MembershipNext]_memberVars PROVE MembersInv'
    OBVIOUS
  <1>1. CASE UNCHANGED memberVars
    BY <1>1 DEF memberVars, MembersInv, MembersTyped, LeavesAnother, OwnerRemains, Owners, Belongs
  <1>2. CASE ServeMember
    <2>1. PICK r \in Decisions : WriteMember(r) /\ UNCHANGED desk /\ Overtaking({})
      BY <1>2 DEF ServeMember
    <2>2. r \in MemberRequests /\ LeavesAnother(r)
      BY DecidedNow DEF MembersInv
    <2> QED
      BY <2>1, <2>2, CommitKeepsOwner DEF MembersInv, MembersTyped
  <1>3. ASSUME NEW d \in Desks, BeginMember(d) PROVE MembersInv'
    <2>1. PICK r \in Decisions : desk' = [desk EXCEPT ![d] = r]
      BY <1>3 DEF BeginMember
    <2>2. r \in MemberRequests /\ LeavesAnother(r)
      BY DecidedNow DEF MembersInv
    <2>3. Owners' = Owners
      BY <1>3 DEF BeginMember, Owners, Belongs
    <2>4. MembersTyped'
      BY <1>3, <2>1, <2>2 DEF BeginMember, MembersInv, MembersTyped
    <2>5. ASSUME ~crossed, NEW e \in Desks \ overtaken' PROVE LeavesAnother(desk[e])'
      <3>1. CASE e = d
        <4>1. desk'[e] = r
          BY <2>1, <3>1 DEF MembersInv, MembersTyped
        <4> QED
          BY <2>2, <2>3, <4>1 DEF LeavesAnother
      <3>2. CASE e # d
        <4>1. desk'[e] = desk[e] /\ e \notin overtaken
          BY <1>3, <2>1, <2>5, <3>2 DEF BeginMember, MembersInv, MembersTyped
        <4> QED
          BY <2>3, <2>5, <4>1 DEF LeavesAnother, MembersInv
      <3> QED
        BY <3>1, <3>2
    <2> QED
      BY <1>3, <2>3, <2>4, <2>5 DEF BeginMember, MembersInv, OwnerRemains
  <1>4. ASSUME NEW d \in Desks, CommitMember(d) PROVE MembersInv'
    <2>1. /\ desk[d] # NoRequest /\ desk' = [desk EXCEPT ![d] = NoRequest]
          /\ WriteMember(desk[d]) /\ Overtaking({d})
      BY <1>4 DEF CommitMember, Answer
    <2>2. PICK r : r = desk[d]
      OBVIOUS
    <2>3. r \in MemberRequests
      BY <2>1, <2>2 DEF MembersInv, MembersTyped
    <2>4. ~crossed /\ {d} \cap overtaken = {} => LeavesAnother(r)
      BY <2>2 DEF MembersInv
    <2>5. /\ desk' \in [Desks -> MemberRequests \cup {NoRequest}]
          /\ \A e \in Desks : desk'[e] = desk[e] \/ desk'[e] = NoRequest
      BY <2>1 DEF MembersInv, MembersTyped
    <2>6. WriteMember(r)
      BY <2>1, <2>2
    <2> QED
      BY <2>1, <2>3, <2>4, <2>5, <2>6, CommitKeepsOwner
  <1>5. ASSUME NEW d \in Desks, RollBackMember(d) PROVE MembersInv'
    <2>1. /\ desk' = [desk EXCEPT ![d] = NoRequest]
          /\ UNCHANGED <<member, letter, overtaken, crossed>>
      BY <1>5 DEF RollBackMember, Answer
    <2>2. MembersTyped' /\ Owners' = Owners
      BY <2>1 DEF MembersInv, MembersTyped, Owners, Belongs
    <2>3. ASSUME ~crossed, NEW e \in Desks \ overtaken PROVE LeavesAnother(desk[e])'
      <3>1. LeavesAnother(desk[e]) /\ (desk'[e] = desk[e] \/ desk'[e] = NoRequest)
        BY <2>1, <2>3 DEF MembersInv, MembersTyped
      <3> QED
        BY <2>2, <3>1, RequestKinds DEF LeavesAnother, MemberRequests
    <2> QED
      BY <2>1, <2>2, <2>3 DEF MembersInv, OwnerRemains
  <1>6. ASSUME NEW l \in Letters, ExpireInvitation(l) PROVE MembersInv'
    <2>1. letter' \in [Letters -> LetterRow] /\ UNCHANGED <<member, desk, overtaken, crossed>>
      BY <1>6 DEF ExpireInvitation, MembersInv, MembersTyped, LetterRow
    <2> QED
      BY <2>1 DEF MembersInv, MembersTyped, LeavesAnother, OwnerRemains, Owners, Belongs
  <1> QED
    BY <1>1, <1>2, <1>3, <1>4, <1>5, <1>6 DEF MembershipNext

\* remove_member and update_member_role count the owners before they write: a
\* business keeps one unless two requests that took owners away overlapped.
THEOREM BusinessKeepsOwner == Spec => []OwnerRemains
  <1>1. Init => MembersInv
    BY MembersStart DEF Init
  <1>2. MembersInv /\ [Next]_vars => MembersInv'
    BY MembersStep, PartsMove
  <1>3. MembersInv => OwnerRemains
    BY DEF MembersInv
  <1> QED
    BY <1>1, <1>2, <1>3, PTL DEF Spec

-----------------------------------------------------------------------------
(* The public page.                                                        *)

Shown == {"pending", "incomplete", "active", "suspended", "deactivated"}

\* A request that found the page active hides it or leaves it as it is.
ListingInv ==
    /\ business \in Shown /\ profile \in Shown
    /\ form \in [Forms -> {NoForm} \cup [on : {"business", "profile"}, from : Shown, to : Shown]]
    /\ \A f \in Forms :
          form[f].on = "profile" /\ form[f].from = "active" => form[f].to \in {"active", "suspended"}

LEMMA ListingStart == ListingInit => ListingInv
  BY DEF ListingInit, ListingInv, NoForm, Shown

LEMMA ListingStep == ListingInv /\ [ListingNext]_listingVars => ListingInv'
  <1> SUFFICES ASSUME ListingInv, ListingNext PROVE ListingInv'
    BY DEF ListingInv, listingVars
  <1> PICK f \in Forms : \/ AskTransition(f) \/ AskProfileUpdate(f) \/ TransitionBusiness(f)
                         \/ UpdateBusinessProfile(f) \/ DropForm(f)
    BY DEF ListingNext
  <1> USE DEF ListingInv, Shown, NoForm
  <1>1. CASE AskTransition(f)
    BY <1>1 DEF AskTransition, Filled, BUSINESS_TRANSITIONS
  <1>2. CASE AskProfileUpdate(f)
    BY <1>2 DEF AskProfileUpdate, Filled, BUSINESS_PROFILE_TRANSITIONS
  <1>3. CASE TransitionBusiness(f)
    BY <1>3 DEF TransitionBusiness, Submitted
  <1>4. CASE UpdateBusinessProfile(f)
    BY <1>4 DEF UpdateBusinessProfile, Submitted
  <1>5. CASE DropForm(f)
    BY <1>5 DEF DropForm
  <1> QED
    BY <1>1, <1>2, <1>3, <1>4, <1>5

\* update_business_profile does not write a status that is the one it loaded: a
\* page that was suspended meanwhile stays suspended.
THEOREM SuspensionStands == Spec => SuspensionHolds
  <1>1. Init => ListingInv
    BY ListingStart DEF Init
  <1>2. ListingInv /\ [Next]_vars => ListingInv'
    BY ListingStep, PartsMove
  <1>3. ListingInv /\ [Next]_vars =>
            [profile = "suspended" /\ profile' # "suspended" =>
                \E f \in Forms :
                    form[f].on = "profile" /\ form[f].from # "active" /\ form'[f] = NoForm]_listingVars
    <2> SUFFICES ASSUME ListingInv, ListingNext, profile = "suspended", profile' # "suspended"
                 PROVE  \E f \in Forms :
                            form[f].on = "profile" /\ form[f].from # "active" /\ form'[f] = NoForm
      BY PartsMove
    <2>1. PICK f \in Forms : UpdateBusinessProfile(f)
      BY DEF ListingNext, AskTransition, AskProfileUpdate, Filled, TransitionBusiness, DropForm
    <2>2. form[f].on = "profile" /\ form'[f] = NoForm
      BY <2>1 DEF UpdateBusinessProfile, Submitted, ListingInv
    <2>3. form[f].to # form[f].from /\ form[f].to # "suspended"
      BY <2>1 DEF UpdateBusinessProfile
    <2>4. form[f].from # "active"
      BY <2>2, <2>3 DEF ListingInv
    <2> QED
      BY <2>2, <2>4
  <1> QED
    BY <1>1, <1>2, <1>3, PTL DEF Spec, SuspensionHolds

-----------------------------------------------------------------------------
(* Booking automation.                                                     *)

Tasks == [op : Operations, fn : {"sync", "create", "cancel", "not_applicable", "prep", "ensure"}]
CalendarCalls == {"none", "create", "update", "delete", "insert", "refused"}
SyncRecords == [status : {"none", "SYNCED", "FAILED", "CANCELLED"}, event : 0..MaxEvents]
StatusRows == [status : {"none", "SUCCESS", "NOT_APPLICABLE", "FAILED", "EXHAUSTED"}, attempts : 0..MaxAttempts]
InHands == [event : Events \cup {"none", "retry"}, todo : Seq(Tasks), pc : {"idle", "next", "call", "write"},
            attempts : 0..MaxAttempts, new : BOOLEAN, read : SyncRecords, call : CalendarCalls, ok : BOOLEAN,
            event_id : 0..MaxEvents]

AutomationType ==
    /\ row \in [Operations -> StatusRows]
    /\ sync \in SyncRecords
    /\ made \in 0..MaxEvents /\ live \subseteq 1..MaxEvents
    /\ worker \in [Workers -> InHands]
    /\ tries \in [Operations -> 0..MaxAttempts]

\* A worker that has something in hand has an operation in hand, and it has
\* made an attempt since it read the row.
TriesCounted ==
    \A w \in Workers :
        /\ worker[w].pc # "idle" => worker[w].todo # <<>>
        /\ worker[w].pc \in {"call", "write"} =>
              LET n == tries[Current(w).op] IN worker[w].attempts < n \/ n = MaxAttempts

\* Has made an event that is not on record yet.
Makes(hand) == hand.pc = "write" /\ hand.call = "create" /\ hand.ok

\* A worker that makes an event has read a record without one, and holds its
\* id until it has written it; only a record that was written holds one.
MakersReadNone ==
    /\ sync.status = "none" => sync.event = 0
    /\ \A w \in Workers :
          /\ worker[w].pc \in {"call", "write"} /\ worker[w].call = "create" => worker[w].read.event = 0
          /\ worker[w].event_id # 0 <=> Makes(worker[w])

AutomationInv == AutomationType /\ TriesCounted /\ TriedBeforeExhausted /\ MakersReadNone /\ NoStrayEvent

LEMMA IdleHand ==
    /\ Idle \in InHands /\ Idle.pc = "idle" /\ Idle.call = "none"
    /\ Idle.event_id = 0 /\ ~Makes(Idle)
  <1>1. Idle.read \in SyncRecords
    BY AutomationAssumption DEF Idle, SyncRecords
  <1>2. 0 \in 0..MaxAttempts /\ 0 \in 0..MaxEvents
    BY AutomationAssumption
  <1>3. <<>> \in Seq(Tasks)
    OBVIOUS
  <1> QED
    BY <1>1, <1>2, <1>3 DEF Idle, InHands, CalendarCalls, Makes

\* What a worker takes up, or goes on to.
LEMMA NextHand ==
    ASSUME NEW event \in Events \cup {"retry"}, NEW todo \in Seq(Tasks)
    PROVE  LET hand == [Idle EXCEPT !.pc = "next", !.event = event, !.todo = todo]
           IN  /\ hand \in InHands /\ hand.pc = "next" /\ hand.todo = todo
               /\ hand.event_id = 0
  <1>1. PICK hand : hand = [Idle EXCEPT !.pc = "next", !.event = event, !.todo = todo]
    OBVIOUS
  <1>2. hand = [event |-> event, todo |-> todo, pc |-> "next", attempts |-> 0, new |-> FALSE,
                read |-> [status |-> "none", event |-> 0], call |-> "none", ok |-> FALSE, event_id |-> 0]
    BY <1>1 DEF Idle
  <1>3. [status |-> "none", event |-> 0] \in SyncRecords
    BY AutomationAssumption DEF SyncRecords
  <1>4. 0 \in 0..MaxAttempts /\ 0 \in 0..MaxEvents
    BY AutomationAssumption
  <1>5. hand \in InHands
    BY <1>2, <1>3, <1>4 DEF InHands, CalendarCalls
  <1>6. hand.pc = "next" /\ hand.todo = todo /\ hand.event_id = 0
    BY <1>2
  <1> QED
    BY <1>1, <1>5, <1>6

LEMMA InitAutomation ==
    ASSUME AutomationInit
    PROVE  AutomationInv
  <1>1. AutomationType
    <2>1. NoRow \in StatusRows /\ 0 \in 0..MaxAttempts
      BY AutomationAssumption DEF NoRow, StatusRows
    <2>2. [status |-> "none", event |-> 0] \in SyncRecords /\ 0 \in 0..MaxEvents
      BY AutomationAssumption DEF SyncRecords
    <2>3. row \in [Operations -> StatusRows]
      BY <2>1 DEF AutomationInit
    <2>4. sync \in SyncRecords
      BY <2>2 DEF AutomationInit
    <2>5. worker \in [Workers -> InHands]
      BY IdleHand DEF AutomationInit
    <2>6. tries \in [Operations -> 0..MaxAttempts]
      BY <2>1 DEF AutomationInit
    <2>7. made \in 0..MaxEvents /\ live \subseteq 1..MaxEvents
      BY <2>2 DEF AutomationInit
    <2> QED
      BY <2>3, <2>4, <2>5, <2>6, <2>7 DEF AutomationType
  <1>2. \A w \in Workers : worker[w] = Idle
    BY DEF AutomationInit
  <1>3. TriesCounted
    BY <1>2, IdleHand DEF TriesCounted
  <1>4. TriedBeforeExhausted
    BY DEF AutomationInit, TriedBeforeExhausted, NoRow
  <1>5. MakersReadNone
    BY <1>2, IdleHand DEF AutomationInit, MakersReadNone
  <1>6. NoStrayEvent
    BY DEF AutomationInit, NoStrayEvent
  <1> QED
    BY <1>1, <1>3, <1>4, <1>5, <1>6 DEF AutomationInv

\* What is needed for an event never to be left behind when one worker's hand
\* and the record change.
LEMMA StrayKept ==
    ASSUME AutomationType, NoStrayEvent, NEW w \in Workers, live' \subseteq live \cup {worker'[w].event_id} \cup lost',
           \A v \in Workers : v # w => worker'[v] = worker[v], lost \subseteq lost',
           \A e \in {sync.event, worker[w].event_id} : e # 0 => e \in lost' \cup {sync'.event, worker'[w].event_id}
    PROVE  NoStrayEvent'
  <1> SUFFICES ASSUME NEW e \in live', e \notin lost', e # sync'.event
               PROVE  \E v \in Workers : e = worker'[v].event_id
    BY DEF NoStrayEvent
  <1>1. CASE e = worker'[w].event_id
    BY <1>1
  <1>2. CASE e # worker'[w].event_id
    <2>1. e \in live /\ e \notin lost /\ e # 0
      BY <1>2 DEF AutomationType
    <2>2. e # sync.event /\ e # worker[w].event_id
      BY <1>2, <2>1
    <2>3. PICK v \in Workers : e = worker[v].event_id
      BY <2>1, <2>2 DEF NoStrayEvent
    <2>4. v # w /\ worker'[v] = worker[v]
      BY <2>2, <2>3
    <2> QED
      BY <2>3, <2>4
  <1> QED
    BY <1>1, <1>2

LEMMA OutsideKeeps ==
    ASSUME AutomationInv, UNCHANGED <<row, sync, made, live, worker, tries, lost>>
    PROVE  AutomationInv'
  <1>1. \A w \in Workers : Current(w)' = Current(w)
    BY DEF Current
  <1> QED
    BY <1>1 DEF AutomationInv, AutomationType, TriesCounted, TriedBeforeExhausted, MakersReadNone, NoStrayEvent

\* A worker's hand changes and the tables stay: the invariant asks only what
\* the new hand knows, and that what was made is not forgotten.
LEMMA HandKeeps ==
    ASSUME AutomationInv, NEW w \in Workers, NEW hand \in InHands, worker' = [worker EXCEPT ![w] = hand],
           hand.pc \in {"idle", "next"}, hand.pc = "next" => hand.todo # <<>>, hand.event_id = 0,
           UNCHANGED <<row, sync, made, live, tries>>,
           lost \subseteq lost', worker[w].event_id # 0 => worker[w].event_id \in lost'
    PROVE  AutomationInv'
  <1>1. worker' \in [Workers -> InHands] /\ worker'[w] = hand /\ \A v \in Workers : v # w => worker'[v] = worker[v]
    BY DEF AutomationInv, AutomationType
  <1>2. AutomationType'
    BY <1>1 DEF AutomationInv, AutomationType
  <1>3. TriesCounted'
    BY <1>1 DEF AutomationInv, TriesCounted, Current
  <1>4. TriedBeforeExhausted'
    BY DEF AutomationInv, TriedBeforeExhausted
  <1>5. MakersReadNone'
    BY <1>1 DEF AutomationInv, MakersReadNone, Makes
  <1>6. NoStrayEvent'
    BY <1>1, StrayKept DEF AutomationInv
  <1> QED
    BY <1>2, <1>3, <1>4, <1>5, <1>6 DEF AutomationInv

LEMMA HandlersAreTasks ==
    /\ \A event \in Events : Handler(event) \in Seq(Tasks) /\ Handler(event) # <<>>
    /\ \A o \in Operations : RetryTask(o) \in Tasks
  <1>1. ASSUME NEW o \in Operations, NEW fn \in {"sync", "create", "cancel", "not_applicable", "prep", "ensure"}
        PROVE  Task(o, fn) \in Tasks
    BY DEF Task, Tasks
  <1>2. "CALENDAR_SYNC" \in Operations /\ "SERVICE_EXECUTION" \in Operations /\ "PAYMENT_PREP" \in Operations
    BY DEF Operations
  <1>3. /\ Task("CALENDAR_SYNC", "sync") \in Tasks /\ Task("SERVICE_EXECUTION", "create") \in Tasks
        /\ Task("CALENDAR_SYNC", "cancel") \in Tasks /\ Task("SERVICE_EXECUTION", "not_applicable") \in Tasks
        /\ Task("PAYMENT_PREP", "prep") \in Tasks /\ Task("SERVICE_EXECUTION", "ensure") \in Tasks
    BY <1>1, <1>2
  <1>4. ASSUME NEW a \in Tasks, NEW b \in Tasks
        PROVE  <<a>> \in Seq(Tasks) /\ <<a>> # <<>> /\ <<a, b>> \in Seq(Tasks) /\ <<a, b>> # <<>>
    OBVIOUS
  <1>5. ASSUME NEW event \in Events PROVE Handler(event) \in Seq(Tasks) /\ Handler(event) # <<>>
    <2>1. CASE event = "BOOKING_CONFIRMED"
      <3>1. Handler(event) = <<Task("CALENDAR_SYNC", "sync"), Task("SERVICE_EXECUTION", "create")>>
        BY <2>1 DEF Handler
      <3> QED
        BY <1>3, <1>4, <3>1
    <2>2. CASE event = "BOOKING_CANCELLED"
      <3>1. Handler(event) = <<Task("CALENDAR_SYNC", "cancel"), Task("SERVICE_EXECUTION", "not_applicable")>>
        BY <2>2 DEF Handler
      <3> QED
        BY <1>3, <1>4, <3>1
    <2>3. CASE event = "BOOKING_COMPLETED"
      <3>1. Handler(event) = <<Task("PAYMENT_PREP", "prep")>>
        BY <2>3 DEF Handler
      <3> QED
        BY <1>3, <1>4, <3>1
    <2>4. CASE event = "BOOKING_IN_PROGRESS"
      <3>1. Handler(event) = <<Task("SERVICE_EXECUTION", "ensure")>>
        BY <2>4 DEF Handler
      <3> QED
        BY <1>3, <1>4, <3>1
    <2> QED
      BY <2>1, <2>2, <2>3, <2>4 DEF Events
  <1>6. ASSUME NEW o \in Operations PROVE RetryTask(o) \in Tasks
    BY <1>3 DEF RetryTask, Operations
  <1> QED
    BY <1>5, <1>6

LEMMA TakesUpKeeps ==
    ASSUME AutomationInv, NEW w \in Workers, TakesUp(w)
    PROVE  AutomationInv'
  <1>1. ASSUME NEW event \in Events \cup {"retry"}, NEW todo \in Seq(Tasks), todo # <<>>, worker[w].pc = "idle",
               worker' = [worker EXCEPT ![w] = [Idle EXCEPT !.pc = "next", !.event = event, !.todo = todo]],
               UNCHANGED <<row, sync, made, live, tries, lost>>
        PROVE  AutomationInv'
    <2>1. PICK hand : hand = [Idle EXCEPT !.pc = "next", !.event = event, !.todo = todo]
      OBVIOUS
    <2>2. hand \in InHands /\ hand.pc = "next" /\ hand.todo # <<>> /\ hand.event_id = 0
      BY <1>1, <2>1, NextHand
    <2>3. worker[w].event_id = 0 /\ lost' = lost
      BY <1>1 DEF Makes, AutomationInv, MakersReadNone
    <2>4. worker' = [worker EXCEPT ![w] = hand] /\ UNCHANGED <<row, sync, made, live, tries>>
      BY <1>1, <2>1
    <2> QED
      BY <2>2, <2>3, <2>4, HandKeeps
  <1>2. ASSUME NEW event \in Events, ProcessEvent(w, event) PROVE AutomationInv'
    BY <1>1, <1>2, HandlersAreTasks DEF ProcessEvent
  <1>3. ASSUME NEW o \in Operations, Retry(w, o) PROVE AutomationInv'
    <2>1. <<RetryTask(o)>> \in Seq(Tasks) /\ <<RetryTask(o)>> # <<>>
      BY HandlersAreTasks
    <2> QED
      BY <1>1, <1>3, <2>1 DEF Retry
  <1> QED
    BY <1>2, <1>3 DEF TakesUp

\* What a worker that is done with an operation has in hand.
LEMMA AdvanceHand ==
    ASSUME AutomationInv, NEW w \in Workers, worker[w].pc # "idle", Advance(w)
    PROVE  \E hand \in InHands :
              /\ worker' = [worker EXCEPT ![w] = hand]
              /\ hand.pc \in {"idle", "next"}
              /\ hand.pc = "next" => hand.todo # <<>>
              /\ hand.event_id = 0
  <1>1. PICK rest : rest = Tail(worker[w].todo)
    OBVIOUS
  <1>2. worker[w] \in InHands /\ worker[w].todo # <<>>
    BY DEF AutomationInv, AutomationType, TriesCounted
  <1>3. worker[w].todo \in Seq(Tasks) /\ worker[w].event \in Events \cup {"none", "retry"}
    BY <1>2 DEF InHands
  <1>4. rest \in Seq(Tasks)
    BY <1>1, <1>2, <1>3
  <1>5. CASE rest = <<>>
    <2>1. worker' = [worker EXCEPT ![w] = Idle]
      BY <1>1, <1>5 DEF Advance
    <2> QED
      BY <2>1, IdleHand
  <1>6. CASE rest # <<>>
    <2>1. PICK hand : hand = [Idle EXCEPT !.pc = "next", !.event = worker[w].event, !.todo = rest]
      OBVIOUS
    <2>2. worker' = [worker EXCEPT ![w] = hand]
      BY <1>1, <1>6, <2>1 DEF Advance
    <2>3. hand = [event |-> worker[w].event, todo |-> rest, pc |-> "next", attempts |-> 0, new |-> FALSE,
                  read |-> [status |-> "none", event |-> 0], call |-> "none", ok |-> FALSE, event_id |-> 0]
      BY <2>1 DEF Idle
    <2>4. [status |-> "none", event |-> 0] \in SyncRecords /\ 0 \in 0..MaxAttempts /\ 0 \in 0..MaxEvents
      BY AutomationAssumption DEF SyncRecords
    <2>5. hand \in InHands
      BY <1>3, <1>4, <2>3, <2>4 DEF InHands, CalendarCalls
    <2> QED
      BY <1>6, <2>2, <2>3, <2>5
  <1> QED
    BY <1>5, <1>6

LEMMA SkipKeeps ==
    ASSUME AutomationInv, NEW w \in Workers, SkipDone(w)
    PROVE  AutomationInv'
  <1>1. worker[w].pc = "next" /\ Advance(w) /\ UNCHANGED <<row, sync, made, live, tries, lost>>
    BY DEF SkipDone
  <1>2. PICK hand \in InHands :
            /\ worker' = [worker EXCEPT ![w] = hand]
            /\ hand.pc \in {"idle", "next"}
            /\ hand.pc = "next" => hand.todo # <<>>
            /\ hand.event_id = 0
    BY <1>1, AdvanceHand
  <1>3. worker[w].event_id = 0
    BY <1>1 DEF Makes, AutomationInv, MakersReadNone
  <1>4. lost \subseteq lost' /\ UNCHANGED <<row, sync, made, live, tries>>
    BY <1>1
  <1> QED
    BY <1>2, <1>3, <1>4, HandKeeps

\* A pass that is given up forgets what it has made.
LEMMA GivingUpKeeps ==
    ASSUME AutomationInv, NEW w \in Workers, RunCollides(w) \/ RecordCollides(w) \/ Crash(w)
    PROVE  AutomationInv'
  <1>1. worker' = [worker EXCEPT ![w] = Idle] /\ UNCHANGED <<row, sync, made, live, tries>>
    BY DEF RunCollides, RecordCollides, Crash
  <1>2. lost \subseteq lost' /\ (worker[w].event_id # 0 => worker[w].event_id \in lost')
    <2>1. CASE RunCollides(w)
      BY <2>1 DEF RunCollides, Makes, AutomationInv, MakersReadNone
    <2>2. CASE RecordCollides(w) \/ Crash(w)
      <3>1. lost' = lost \cup ({worker[w].event_id} \ {0})
        BY <2>2 DEF RecordCollides, Crash
      <3> QED
        BY <3>1
    <2> QED
      BY <2>1, <2>2
  <1> QED
    BY <1>1, <1>2, IdleHand, HandKeeps

\* An event is only made for a record that holds none.
LEMMA CallsDecided ==
    ASSUME NEW task \in Tasks
    PROVE  Decide(task) \in CalendarCalls /\ (Decide(task) = "create" => sync.event = 0)
  <1>1. \A fn \in {"sync", "cancel"} : CalendarCall(fn) \in CalendarCalls /\ (CalendarCall(fn) = "create" => sync.event = 0)
    BY DEF CalendarCall, CalendarCalls
  <1>2. CreateFromBooking \in CalendarCalls /\ CreateFromBooking # "create"
    BY DEF CreateFromBooking, CalendarCalls
  <1>3. "none" \in CalendarCalls
    BY DEF CalendarCalls
  <1>4. task.fn \in {"sync", "create", "cancel", "not_applicable", "prep", "ensure"}
    BY DEF Tasks
  <1>5. CASE task.fn \in {"sync", "cancel"}
    <2>1. Decide(task) = CalendarCall(task.fn)
      BY <1>5 DEF Decide
    <2> QED
      BY <1>1, <1>5, <2>1
  <1>6. CASE task.fn = "create"
    <2>1. Decide(task) = CreateFromBooking
      BY <1>6 DEF Decide
    <2> QED
      BY <1>2, <2>1
  <1>7. CASE task.fn = "ensure"
    <2>1. Decide(task) = IF execution THEN "none" ELSE CreateFromBooking
      BY <1>7 DEF Decide
    <2> QED
      BY <1>2, <1>3, <2>1
  <1>8. CASE task.fn \in {"not_applicable", "prep"}
    <2>1. Decide(task) = "none"
      BY <1>8 DEF Decide
    <2> QED
      BY <1>3, <2>1
  <1> QED
    BY <1>4, <1>5, <1>6, <1>7, <1>8

LEMMA TaskInHand ==
    ASSUME AutomationInv, NEW w \in Workers, worker[w].pc # "idle"
    PROVE  Current(w) \in Tasks /\ Current(w).op \in Operations
  <1>1. worker[w].todo \in Seq(Tasks) /\ worker[w].todo # <<>>
    BY DEF AutomationInv, AutomationType, TriesCounted, InHands
  <1>2. Current(w) \in Tasks
    BY <1>1 DEF Current
  <1> QED
    BY <1>2 DEF Tasks

LEMMA RunKeeps ==
    ASSUME AutomationInv, NEW w \in Workers, RunOperation(w)
    PROVE  AutomationInv'
  <1>1. PICK o : o = Current(w).op
    OBVIOUS
  <1>2. PICK call : call = Decide(Current(w))
    OBVIOUS
  <1>3. PICK old : old = worker[w]
    OBVIOUS
  <1>4. /\ old.pc = "next" /\ old \in InHands /\ old.todo # <<>> /\ o \in Operations
        /\ call \in CalendarCalls /\ (call = "create" => sync.event = 0)
        /\ old.event_id = 0
    BY <1>1, <1>2, <1>3, TaskInHand, CallsDecided
       DEF RunOperation, AutomationInv, AutomationType, TriesCounted, MakersReadNone, Makes
  <1>5. PICK pc : pc = IF call \in {"create", "update", "delete"} THEN "call" ELSE "write"
    OBVIOUS
  <1>6. PICK new : new = (row[o].status = "none") /\ new \in BOOLEAN
    OBVIOUS
  <1>7. PICK ok : ok = (call # "refused") /\ ok \in BOOLEAN
    OBVIOUS
  <1>8. PICK hand : hand = [old EXCEPT !.pc = pc, !.attempts = row[o].attempts, !.new = new, !.read = sync,
                                       !.call = call, !.ok = ok]
    OBVIOUS
  <1>9. /\ worker' = [worker EXCEPT ![w] = hand]
        /\ tries' = [tries EXCEPT ![o] = IF tries[o] < MaxAttempts THEN tries[o] + 1 ELSE tries[o]]
        /\ UNCHANGED <<row, sync, made, live, lost>>
    BY <1>1, <1>2, <1>3, <1>5, <1>6, <1>7, <1>8 DEF RunOperation
  <1>10. /\ row \in [Operations -> StatusRows] /\ sync \in SyncRecords /\ worker \in [Workers -> InHands]
         /\ tries \in [Operations -> 0..MaxAttempts] /\ MaxAttempts \in Nat
    BY AutomationAssumption DEF AutomationInv, AutomationType
  <1>11. row[o].attempts \in 0..MaxAttempts
    BY <1>4, <1>10 DEF StatusRows
  <1>12. pc \in {"call", "write"} /\ (pc = "write" => call # "create")
    BY <1>5
  <1>13. hand = [event |-> old.event, todo |-> old.todo, pc |-> pc, attempts |-> row[o].attempts, new |-> new,
                 read |-> sync, call |-> call, ok |-> ok, event_id |-> old.event_id]
    BY <1>4, <1>8 DEF InHands
  <1>14. hand \in InHands
    BY <1>4, <1>6, <1>7, <1>10, <1>11, <1>12, <1>13 DEF InHands
  <1>15. /\ hand.pc = pc /\ hand.todo = old.todo /\ hand.attempts = row[o].attempts
         /\ hand.read = sync /\ hand.call = call /\ hand.event_id = 0
    BY <1>4, <1>13
  <1>16. worker' \in [Workers -> InHands] /\ worker'[w] = hand /\ \A v \in Workers : v # w => worker'[v] = worker[v]
    BY <1>9, <1>10, <1>14
  <1>17. /\ tries' \in [Operations -> 0..MaxAttempts]
         /\ \A p \in Operations : tries[p] <= tries'[p] /\ tries[p] \in 0..MaxAttempts /\ tries'[p] \in 0..MaxAttempts
         /\ tries[o] < tries'[o] \/ tries'[o] = MaxAttempts
    BY <1>4, <1>9, <1>10
  <1>18. AutomationType'
    BY <1>9, <1>16, <1>17 DEF AutomationInv, AutomationType
  <1>19. row[o].attempts <= tries[o]
    BY <1>4 DEF AutomationInv, TriedBeforeExhausted
  <1>20. TriesCounted'
    <2> SUFFICES ASSUME NEW v \in Workers
                 PROVE  /\ worker'[v].pc # "idle" => worker'[v].todo # <<>>
                        /\ worker'[v].pc \in {"call", "write"} =>
                              LET n == tries'[Head(worker'[v].todo).op]
                              IN  worker'[v].attempts < n \/ n = MaxAttempts
      BY DEF TriesCounted, Current
    <2>1. CASE v = w
      <3>1. Head(hand.todo).op = o
        BY <1>1, <1>3, <1>15 DEF Current
      <3>2. row[o].attempts < tries'[o] \/ tries'[o] = MaxAttempts
        BY <1>4, <1>11, <1>17, <1>19
      <3> QED
        BY <1>4, <1>15, <1>16, <2>1, <3>1, <3>2
    <2>2. CASE v # w
      <3>1. worker'[v] = worker[v]
        BY <1>16, <2>2
      <3>2. worker[v].pc # "idle" => worker[v].todo # <<>> /\ Head(worker[v].todo).op \in Operations
        BY TaskInHand DEF AutomationInv, TriesCounted, Current
      <3>3. worker[v].pc \in {"call", "write"} =>
                LET n == tries[Head(worker[v].todo).op] IN worker[v].attempts < n \/ n = MaxAttempts
        BY DEF AutomationInv, TriesCounted, Current
      <3>4. worker[v].attempts \in Nat
        BY <1>10 DEF InHands
      <3> QED
        BY <1>10, <1>17, <3>1, <3>2, <3>3, <3>4
    <2> QED
      BY <2>1, <2>2
  <1>21. TriedBeforeExhausted'
    <2> SUFFICES ASSUME NEW p \in Operations
                 PROVE  /\ row[p].status = "EXHAUSTED" => tries'[p] = MaxAttempts
                        /\ row[p].attempts <= tries'[p]
      BY <1>9 DEF TriedBeforeExhausted
    <2>1. /\ row[p].status = "EXHAUSTED" => tries[p] = MaxAttempts
          /\ row[p].attempts <= tries[p]
      BY DEF AutomationInv, TriedBeforeExhausted
    <2>2. row[p].attempts \in Nat
      BY <1>10 DEF StatusRows
    <2> QED
      BY <1>10, <1>17, <2>1, <2>2
  <1>22. MakersReadNone'
    BY <1>4, <1>9, <1>12, <1>15, <1>16 DEF AutomationInv, MakersReadNone, Makes
  <1>23. NoStrayEvent'
    BY <1>3, <1>4, <1>9, <1>15, <1>16, StrayKept DEF AutomationInv
  <1> QED
    BY <1>18, <1>20, <1>21, <1>22, <1>23 DEF AutomationInv

\* An event that is made is in hand, unless the answer was lost.
LEMMA AnswerKeeps ==
    ASSUME AutomationInv, NEW w \in Workers, CalendarAnswers(w)
    PROVE  AutomationInv'
  <1>1. PICK old : old = worker[w]
    OBVIOUS
  <1>2. old.pc = "call" /\ old \in InHands /\ UNCHANGED <<row, sync, tries>> /\ old.event_id = 0
    BY <1>1 DEF CalendarAnswers, AutomationInv, AutomationType, MakersReadNone, Makes
  <1>3. PICK ok \in BOOLEAN, done \in BOOLEAN, new \in {0, made + 1} :
            /\ new = IF old.call = "create" /\ done THEN made + 1 ELSE 0
            /\ ok => done
            /\ new <= MaxEvents
            /\ worker' = [worker EXCEPT ![w] = [old EXCEPT !.pc = "write", !.ok = ok, !.event_id = IF ok THEN new ELSE 0]]
            /\ made' = IF new # 0 THEN new ELSE made
            /\ live' = IF old.call = "delete" /\ done THEN live \ {old.read.event}
                       ELSE live \cup ({new} \ {0})
            /\ lost' = IF ok THEN lost ELSE lost \cup ({new} \ {0})
    BY <1>1 DEF CalendarAnswers
  <1>4. PICK id : id = IF ok THEN new ELSE 0
    OBVIOUS
  <1>5. made \in Nat /\ MaxEvents \in Nat
    BY AutomationAssumption DEF AutomationInv, AutomationType
  <1>6. new \in 0..MaxEvents /\ id \in 0..MaxEvents /\ (id # 0 <=> old.call = "create" /\ ok)
    BY <1>3, <1>4, <1>5
  <1>7. PICK hand : hand = [old EXCEPT !.pc = "write", !.ok = ok, !.event_id = id]
    OBVIOUS
  <1>8. hand = [event |-> old.event, todo |-> old.todo, pc |-> "write", attempts |-> old.attempts, new |-> old.new,
                read |-> old.read, call |-> old.call, ok |-> ok, event_id |-> id]
    BY <1>2, <1>7 DEF InHands
  <1>9. hand \in InHands
    BY <1>2, <1>6, <1>8 DEF InHands
  <1>10. /\ hand.pc = "write" /\ hand.todo = old.todo /\ hand.attempts = old.attempts /\ hand.read = old.read
         /\ hand.call = old.call /\ hand.ok = ok /\ hand.event_id = id
    BY <1>8
  <1>11. worker' = [worker EXCEPT ![w] = hand] /\ worker \in [Workers -> InHands]
    BY <1>3, <1>4, <1>7 DEF AutomationInv, AutomationType
  <1>12. worker' \in [Workers -> InHands] /\ worker'[w] = hand /\ \A v \in Workers : v # w => worker'[v] = worker[v]
    BY <1>9, <1>11
  <1>13. made' \in 0..MaxEvents /\ live' \subseteq 1..MaxEvents
    <2>1. made \in 0..MaxEvents /\ live \subseteq 1..MaxEvents
      BY DEF AutomationInv, AutomationType
    <2>2. made' \in 0..MaxEvents
      BY <1>3, <1>6, <2>1
    <2>3. \A e \in {new} \ {0} : e \in 1..MaxEvents
      BY <1>5, <1>6
    <2>4. live' \subseteq live \cup ({new} \ {0})
      BY <1>3
    <2> QED
      BY <2>1, <2>2, <2>3, <2>4
  <1>14. AutomationType'
    BY <1>2, <1>12, <1>13 DEF AutomationInv, AutomationType
  <1>15. TriesCounted'
    BY <1>1, <1>2, <1>10, <1>12 DEF AutomationInv, TriesCounted, Current
  <1>16. TriedBeforeExhausted'
    BY <1>2 DEF AutomationInv, TriedBeforeExhausted
  <1>17. MakersReadNone'
    BY <1>1, <1>2, <1>6, <1>10, <1>12 DEF AutomationInv, MakersReadNone, Makes
  <1>18. NoStrayEvent'
    <2>1. lost \subseteq lost' /\ (new # 0 => new = id \/ new \in lost')
      BY <1>3, <1>4
    <2>2. live' \subseteq live \cup {id} \cup lost'
      BY <1>3, <2>1
    <2>3. worker'[w].event_id = id /\ worker[w].event_id = 0 /\ sync' = sync
      BY <1>1, <1>2, <1>10, <1>12
    <2> QED
      BY <1>12, <2>1, <2>2, <2>3, StrayKept DEF AutomationInv
  <1> QED
    BY <1>14, <1>15, <1>16, <1>17, <1>18 DEF AutomationInv

\* What is counted as a failure stays below the attempts that were made.
LEMMA RowsCounted ==
    ASSUME AutomationInv, NEW w \in Workers, worker[w].pc = "write",
           NEW o, o = Current(w).op, NEW new, new = IF Failed(w) THEN RowAfterFailure(w)
                                                    ELSE [row[o] EXCEPT !.status = "SUCCESS"]
    PROVE  /\ new \in StatusRows
           /\ new.attempts <= tries[o]
           /\ new.status = "EXHAUSTED" => tries[o] = MaxAttempts
  <1>1. /\ o \in Operations /\ row[o] \in StatusRows /\ tries[o] \in 0..MaxAttempts /\ MaxAttempts \in Nat \ {0}
        /\ worker[w].attempts \in 0..MaxAttempts
        /\ row[o].attempts \in 0..MaxAttempts
    BY TaskInHand, AutomationAssumption DEF AutomationInv, AutomationType, StatusRows, InHands
  <1>2. worker[w].attempts < tries[o] \/ tries[o] = MaxAttempts
    BY DEF AutomationInv, TriesCounted
  <1>3. row[o].attempts <= tries[o]
    BY <1>1 DEF AutomationInv, TriedBeforeExhausted
  <1>4. CASE Failed(w)
    <2>1. PICK n : n = IF worker[w].attempts < MaxAttempts THEN worker[w].attempts + 1 ELSE MaxAttempts
      OBVIOUS
    <2>2. n \in 0..MaxAttempts /\ n <= tries[o]
      BY <1>1, <1>2, <2>1
    <2>3. new = [status |-> IF n >= MaxAttempts THEN "EXHAUSTED" ELSE "FAILED", attempts |-> n]
      BY <1>4, <2>1 DEF RowAfterFailure
    <2>4. new \in StatusRows
      BY <2>2, <2>3 DEF StatusRows
    <2>5. n >= MaxAttempts => tries[o] = MaxAttempts
      BY <1>1, <2>2
    <2> QED
      BY <2>2, <2>3, <2>4, <2>5
  <1>5. CASE ~Failed(w)
    <2>1. new = [row[o] EXCEPT !.status = "SUCCESS"]
      BY <1>5
    <2>2. new = [status |-> "SUCCESS", attempts |-> row[o].attempts]
      BY <1>1, <2>1 DEF StatusRows
    <2>3. new \in StatusRows
      BY <1>1, <2>2 DEF StatusRows
    <2> QED
      BY <1>3, <2>2, <2>3
  <1> QED
    BY <1>4, <1>5

\* What the sync record says after a call: an id it held is only replaced by
\* one that has just been made.
LEMMA SyncWritten ==
    ASSUME AutomationInv, NEW w \in Workers, worker[w].pc = "write", ~Collides(w)
    PROVE  /\ SyncAfter(w) \in SyncRecords
           /\ SyncAfter(w).status = "none" => SyncAfter(w).event = 0
           /\ worker[w].event_id # 0 => SyncAfter(w).event = worker[w].event_id
           /\ worker[w].event_id = 0 => SyncAfter(w).event = sync.event
  <1>1. PICK after : after = SyncAfter(w)
    OBVIOUS
  <1>2. PICK h : h = worker[w]
    OBVIOUS
  <1>3. /\ sync \in SyncRecords /\ sync.event \in 0..MaxEvents /\ (sync.status = "none" => sync.event = 0)
        /\ h.event_id \in 0..MaxEvents /\ (h.event_id # 0 <=> h.call = "create" /\ h.ok) /\ 0 \in 0..MaxEvents
    BY <1>2, AutomationAssumption DEF AutomationInv, AutomationType, MakersReadNone, Makes, SyncRecords, InHands
  <1>4. CASE h.call = "create" /\ h.ok
    <2>1. after = [status |-> "SYNCED", event |-> h.event_id]
      BY <1>1, <1>2, <1>4 DEF SyncAfter
    <2>2. after \in SyncRecords
      BY <1>3, <2>1 DEF SyncRecords
    <2> QED
      BY <1>1, <1>2, <1>3, <1>4, <2>1, <2>2
  <1>5. CASE h.call = "create" /\ ~h.ok /\ h.read.status = "none"
    <2>1. after = [status |-> "FAILED", event |-> 0]
      BY <1>1, <1>2, <1>5 DEF SyncAfter
    <2>2. after \in SyncRecords
      BY <1>3, <2>1 DEF SyncRecords
    <2>3. sync.status = "none" /\ sync.event = 0
      BY <1>2, <1>3, <1>5 DEF Collides
    <2> QED
      BY <1>1, <1>2, <1>3, <1>5, <2>1, <2>2, <2>3
  <1>6. CASE h.call \in {"update", "delete"} /\ after # sync
    <2>1. PICK to \in {"SYNCED", "CANCELLED"} : after = [sync EXCEPT !.status = to]
      BY <1>1, <1>2, <1>6 DEF SyncAfter
    <2>2. after = [status |-> to, event |-> sync.event]
      BY <1>3, <2>1 DEF SyncRecords
    <2>3. after \in SyncRecords
      BY <1>3, <2>2 DEF SyncRecords
    <2> QED
      BY <1>1, <1>2, <1>3, <1>6, <2>2, <2>3
  <1>7. CASE after = sync /\ ~(h.call = "create" /\ h.ok)
    BY <1>1, <1>2, <1>3, <1>7
  <1>8. CASE after # sync /\ h.call \notin {"update", "delete"} /\ ~(h.call = "create" /\ h.ok)
             /\ ~(h.call = "create" /\ ~h.ok /\ h.read.status = "none")
    <2>1. after = sync
      BY <1>1, <1>2, <1>8 DEF SyncAfter
    <2> QED
      BY <1>8, <2>1
  <1> QED
    BY <1>4, <1>5, <1>6, <1>7, <1>8

LEMMA RecordKeeps ==
    ASSUME AutomationInv, NEW w \in Workers, Record(w)
    PROVE  AutomationInv'
  <1>1. PICK o : o = Current(w).op
    OBVIOUS
  <1>2. PICK new : new = IF Failed(w) THEN RowAfterFailure(w) ELSE [row[o] EXCEPT !.status = "SUCCESS"]
    OBVIOUS
  <1>3. PICK after : after = SyncAfter(w)
    OBVIOUS
  <1>4. /\ worker[w].pc = "write" /\ ~Collides(w) /\ Advance(w)
        /\ sync' = after
        /\ row' = [row EXCEPT ![o] = new]
        /\ lost' = IF worker[w].event_id # 0 /\ worker[w].read.event = 0
                   THEN lost \cup ({sync.event} \ {0}) ELSE lost
        /\ UNCHANGED <<made, live, tries>>
    BY <1>1, <1>2, <1>3 DEF Record
  <1>5. PICK hand \in InHands :
            /\ worker' = [worker EXCEPT ![w] = hand]
            /\ hand.pc \in {"idle", "next"}
            /\ hand.pc = "next" => hand.todo # <<>>
            /\ hand.event_id = 0
    BY <1>4, AdvanceHand
  <1>6. /\ row \in [Operations -> StatusRows] /\ sync \in SyncRecords /\ worker \in [Workers -> InHands]
        /\ tries \in [Operations -> 0..MaxAttempts] /\ made \in 0..MaxEvents /\ live \subseteq 1..MaxEvents
    BY DEF AutomationInv, AutomationType
  <1>7. worker' \in [Workers -> InHands] /\ worker'[w] = hand /\ \A v \in Workers : v # w => worker'[v] = worker[v]
    BY <1>5, <1>6
  <1>8. o \in Operations
    BY <1>1, <1>4, TaskInHand
  <1>9. /\ new \in StatusRows
        /\ new.attempts <= tries[o]
        /\ new.status = "EXHAUSTED" => tries[o] = MaxAttempts
    BY <1>1, <1>2, <1>4, RowsCounted
  <1>10. row' \in [Operations -> StatusRows] /\ row'[o] = new /\ \A p \in Operations : p # o => row'[p] = row[p]
    BY <1>4, <1>6, <1>8, <1>9
  <1>11. /\ after \in SyncRecords
         /\ after.status = "none" => after.event = 0
         /\ worker[w].event_id # 0 => after.event = worker[w].event_id
         /\ worker[w].event_id = 0 => after.event = sync.event
    BY <1>3, <1>4, SyncWritten
  <1>12. worker[w].event_id # 0 => worker[w].read.event = 0
    BY <1>4 DEF AutomationInv, MakersReadNone, Makes
  <1>13. AutomationType'
    BY <1>4, <1>6, <1>7, <1>10, <1>11 DEF AutomationType
  <1>14. TriesCounted'
    BY <1>4, <1>5, <1>7 DEF AutomationInv, TriesCounted, Current
  <1>15. TriedBeforeExhausted'
    BY <1>4, <1>9, <1>10 DEF AutomationInv, TriedBeforeExhausted
  <1>16. MakersReadNone'
    BY <1>4, <1>5, <1>7, <1>11 DEF AutomationInv, MakersReadNone, Makes
  <1>17. NoStrayEvent'
    <2>1. /\ worker[w].event_id # 0 => sync'.event = worker[w].event_id /\ (sync.event # 0 => sync.event \in lost')
          /\ worker[w].event_id = 0 => sync'.event = sync.event
          /\ lost \subseteq lost' /\ live' = live
      BY <1>4, <1>11, <1>12
    <2>2. \A e \in {sync.event, worker[w].event_id} :
              e # 0 => e \in lost' \cup {sync'.event, worker'[w].event_id}
      BY <2>1
    <2> QED
      BY <1>7, <2>1, <2>2, StrayKept DEF AutomationInv
  <1> QED
    BY <1>13, <1>14, <1>15, <1>16, <1>17 DEF AutomationInv

LEMMA AutomationKept ==
    ASSUME AutomationInv, [AutomationNext]_automationVars
    PROVE  AutomationInv'
  <1>1. CASE Progress
    BY <1>1, OutsideKeeps DEF Progress, BookingMoves, outside
  <1>2. CASE CreateExecutionByHand
    BY <1>2, OutsideKeeps DEF CreateExecutionByHand, outside
  <1>3. CASE Connect \/ Disconnect
    BY <1>3, OutsideKeeps DEF Connect, Disconnect, ChangeConnection
  <1>4. CASE \E w \in Workers : TakesUp(w) \/ Works(w) \/ Crash(w)
    BY <1>4, TakesUpKeeps, SkipKeeps, RunKeeps, AnswerKeeps, RecordKeeps, GivingUpKeeps DEF Works
  <1>5. CASE UNCHANGED automationVars
    BY <1>5, OutsideKeeps DEF automationVars
  <1> QED
    BY <1>1, <1>2, <1>3, <1>4, <1>5 DEF AutomationNext

LEMMA AutomationHolds == AutomationSpec => []AutomationInv
  <1>1. AutomationInit => AutomationInv
    BY InitAutomation
  <1>2. AutomationInv /\ [AutomationNext]_automationVars => AutomationInv'
    BY AutomationKept
  <1> QED
    BY <1>1, <1>2, PTL DEF AutomationSpec

\* An operation is given up only after MAX_ATTEMPTS attempts, although
\* workers overwrite each other's counts.
THEOREM ExhaustedWasTried == AutomationSpec => []TriedBeforeExhausted
  <1>1. AutomationInv => TriedBeforeExhausted
    BY DEF AutomationInv
  <1> QED
    BY <1>1, AutomationHolds, PTL

\* Every event on the calendar is on record or in hand, or its own creation was
\* lost on the way.
THEOREM EventsAreRecorded == AutomationSpec => []NoStrayEvent
  <1>1. AutomationInv => NoStrayEvent
    BY DEF AutomationInv
  <1> QED
    BY <1>1, AutomationHolds, PTL
=============================================================================
