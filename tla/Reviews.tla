------------------------------ MODULE Reviews ------------------------------
(***************************************************************************)
(* Reviews of completed jobs, and the rating the business's profile shows. *)
(* The rating is a copy: a submission averages the visible reviews in its  *)
(* own transaction and stores the result, and nothing locks the profile.   *)
(* The rating is represented by the set of reviews it is the average of.   *)
(***************************************************************************)
EXTENDS Integers, FiniteSets

CONSTANTS
    Jobs,       \* service executions, at most one review each
    Writers     \* requests handled at the same time

VARIABLES
    job,        \* ServiceExecution.status with its booking and enquiry
    reviews,    \* the jobs with a committed review
    rating,     \* BusinessProfile.average_rating and review_count
    replied,    \* reviews with a response
    announced,  \* outbox keys of review events
    writing,    \* what each request has in hand
    stale       \* the last submission to write the rating was overtaken

reviewVars == <<job, reviews, rating, replied, announced, writing, stale>>

NoReview == [at |-> "idle", job |-> {}, counts |-> {}, loaded |-> [of |-> {}, count |-> 0],
             alone |-> TRUE]

ReviewsInit ==
    /\ job = [j \in Jobs |-> "underway"]
    /\ reviews = {} /\ replied = {} /\ announced = {}
    /\ rating = [of |-> {}, count |-> 0]
    /\ writing = [w \in Writers |-> NoReview]
    /\ stale = FALSE

\* A booking or an enquiry may be cancelled after the job was done.
Perform(j) ==
    /\ \/ job[j] = "underway" /\ job' = [job EXCEPT ![j] = "completed"]
       \/ job[j] # "withdrawn" /\ job' = [job EXCEPT ![j] = "withdrawn"]
    /\ UNCHANGED <<reviews, rating, replied, announced, writing, stale>>

Goes(w, from, to) ==
    /\ writing[w].at = from
    /\ writing' = [writing EXCEPT ![w].at = to]

Step == UNCHANGED <<job, reviews, rating, replied, announced, stale>>

\* submit_review up to its insert: every check reads what is committed.
SubmitReview(w, j) ==
    /\ writing[w].at = "idle"
    /\ job[j] = "completed"
    /\ j \notin reviews
    /\ writing' = [writing EXCEPT ![w] = [NoReview EXCEPT !.at = "eligible", !.job = {j}]]
    /\ Step

\* One review per execution: an insert waits for another open one, and
\* fails when that one was committed.
InsertReview(w) ==
    /\ \A v \in Writers \ {w} : writing[v].at \in {"idle", "eligible"} \/ writing[v].job # writing[w].job
    /\ writing[w].at = "eligible"
    /\ writing' = [writing EXCEPT ![w] =
          IF writing[w].job \subseteq reviews THEN NoReview ELSE [@ EXCEPT !.at = "inserted"]]
    /\ Step

\* get_average_rating_for_business: the committed reviews and its own.
Counted_WithoutOwn(w) == reviews
Counted(w) == reviews \cup writing[w].job

AverageReviews(w) ==
    /\ writing[w].at = "inserted"
    /\ writing' = [writing EXCEPT ![w].at = "averaged", ![w].counts = Counted(w)]
    /\ Step

LoadProfile(w) ==
    /\ writing[w].at = "averaged"
    /\ writing' = [writing EXCEPT ![w].at = "loaded", ![w].loaded = rating]
    /\ Step

\* The commit.  A column whose value is the one loaded is not written.
FinishReview(w) ==
    LET t == writing[w] IN
    /\ t.at = "loaded"
    /\ reviews' = reviews \cup t.job
    /\ rating' =
         [of    |-> IF t.counts = t.loaded.of THEN rating.of ELSE t.counts,
          count |-> IF Cardinality(t.counts) = t.loaded.count
                    THEN rating.count ELSE Cardinality(t.counts)]
    /\ announced' = announced \cup {<<"submitted", j>> : j \in t.job}
    /\ stale' = ~t.alone
    /\ writing' = [v \in Writers |->
          IF v = w THEN NoReview
          ELSE [writing[v] EXCEPT !.alone = @ /\ writing[v].at \in {"idle", "eligible", "inserted"}]]
    /\ UNCHANGED <<job, replied>>

FailReview(w) == writing[w].at # "idle" /\ writing' = [writing EXCEPT ![w] = NoReview] /\ Step

\* respond_to_review: its outbox key is one per review, so a second
\* response is rolled back.
RespondToReview(j) ==
    /\ j \in reviews
    /\ <<"responded", j>> \notin announced
    /\ replied' = replied \cup {j}
    /\ announced' = announced \cup {<<"responded", j>>}
    /\ UNCHANGED <<job, reviews, rating, writing, stale>>

ReviewsNext ==
    \/ \E j \in Jobs : Perform(j) \/ RespondToReview(j)
    \/ \E w \in Writers :
        \/ \E j \in Jobs : SubmitReview(w, j)
        \/ InsertReview(w) \/ AverageReviews(w) \/ LoadProfile(w)
        \/ FinishReview(w) \/ FailReview(w)

-----------------------------------------------------------------------------
\* The rating is the average of reviews that exist, and of all of them
\* unless the submission that wrote it last was overtaken by another
\* between its average and its commit: the next one that is not repairs it.
RatingIsEarned ==
    /\ rating.of \subseteq reviews
    /\ ~stale => rating = [of |-> reviews, count |-> Cardinality(reviews)]
=============================================================================
