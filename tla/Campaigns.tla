----------------------------- MODULE Campaigns -----------------------------
(***************************************************************************)
(* One voice campaign: its recipients, and the runs that go through them.  *)
(* A run is one request and one transaction.  It lists the recipients once *)
(* and decides on that list; each decision is followed by the write of the *)
(* recipient's row, which waits for a run that has written it; the phone   *)
(* rings before the commit.  A recipient never comes back to PENDING, so   *)
(* its idempotency key is always that of attempt 1 and it has at most one  *)
(* call.  The model covers one day of the frequency limits.                *)
(***************************************************************************)
EXTENDS Integers, FiniteSets

CONSTANTS
    Runs,           \* requests that may execute the campaign at the same time
    MaxRecipients,
    DailyCaps,      \* what CallAgentConfiguration.max_daily_attempts may be
    MaxFaults       \* runs that crash in a behaviour

ASSUME CampaignAssumption ==
    MaxRecipients \in Nat /\ DailyCaps \subseteq Nat /\ MaxFaults \in Nat

Recipients == 1..MaxRecipients     \* in the order of created_at

VARIABLES
    dailyCap,   \* the value it has
    campaign,   \* CommunicationCampaign.status
    recipient,  \* CampaignRecipient.status, "absent" before it is added
    contacts,   \* recipients with an attempt (attempt_count, last_attempt_at)
    call,       \* the VoiceCall of a recipient: none, dialled, refused (retryable), failed, over
    rung,       \* phones rung for a recipient, up to 2
    run,        \* what each run has read and written
    lost,       \* recipients whose phone rang in a run that was rolled back
    raced,      \* recipients whose row a run overwrote after somebody else had
    late,       \* phones a run has rung since the campaign stopped, up to 2
    faults

campaignVars == <<dailyCap, campaign, recipient, contacts, call, rung, run, lost, raced, late, faults>>

IdleRun == [pc |-> "idle", todo |-> {}, at |-> 0, decision |-> "none",
         wrote |-> [r \in Recipients |-> "none"], called |-> [r \in Recipients |-> "none"], rang |-> {}]

CampaignInit ==
    /\ dailyCap \in DailyCaps
    /\ campaign = "DRAFT"
    /\ recipient = [r \in Recipients |-> "absent"]
    /\ contacts = {}
    /\ call = [r \in Recipients |-> "none"]
    /\ rung = [r \in Recipients |-> 0]
    /\ run = [w \in Runs |-> IdleRun]
    /\ lost = {}
    /\ raced = {}
    /\ late = [w \in Runs |-> 0]
    /\ faults = 0

-----------------------------------------------------------------------------
(* The campaign and its recipients.                                        *)

CAMPAIGN_TRANSITIONS(s) ==
    CASE s = "DRAFT" -> {"SCHEDULED", "ACTIVE", "CANCELLED"}
      [] s = "SCHEDULED" -> {"ACTIVE", "CANCELLED"}
      [] s = "ACTIVE" -> {"PAUSED", "COMPLETED", "CANCELLED"}
      [] s = "PAUSED" -> {"ACTIVE", "CANCELLED"}
      [] OTHER -> {}

CAMPAIGN_RECIPIENT_TRANSITIONS(s) ==
    CASE s = "PENDING" -> {"ELIGIBLE", "SKIPPED", "SUPPRESSED", "FAILED"}
      [] s = "ELIGIBLE" -> {"CONTACTED", "SKIPPED", "SUPPRESSED", "FAILED"}
      [] s = "CONTACTED" -> {"COMPLETED", "FAILED"}
      [] OTHER -> {}

\* transition_campaign, and activate behind its gates.
TransitionCampaign(to) ==
    /\ to \in CAMPAIGN_TRANSITIONS(campaign)
    /\ campaign' = to
    /\ late' = [w \in Runs |-> 0]
    /\ UNCHANGED <<dailyCap, recipient, contacts, call, rung, run, lost, raced, faults>>

AddRecipient(r) ==
    /\ recipient[r] = "absent" /\ \A q \in 1..r-1 : recipient[q] # "absent"
    /\ recipient' = [recipient EXCEPT ![r] = "PENDING"]
    /\ UNCHANGED <<dailyCap, campaign, contacts, call, rung, run, lost, raced, late, faults>>

\* Callbacks and the agent take a dialled call to its end; nothing settles the recipient.
CallEnds(r) ==
    /\ call[r] = "dialled"
    /\ call' = [call EXCEPT ![r] = "over"]
    /\ UNCHANGED <<dailyCap, campaign, recipient, contacts, rung, run, lost, raced, late, faults>>

-----------------------------------------------------------------------------
(* A run.                                                                  *)

\* process_campaign up to its loop.
Execute(w) ==
    /\ run[w].pc = "idle"
    /\ campaign = "ACTIVE"
    /\ run' = [run EXCEPT ![w] =
                  [IdleRun EXCEPT !.pc = "decide", !.todo = {r \in Recipients : recipient[r] = "PENDING"}]]
    /\ UNCHANGED <<dailyCap, campaign, recipient, contacts, call, rung, lost, raced, late, faults>>

\* A mutant: recipients are taken in no particular order.
Following_AnyOrder(todo) == todo

\* list_for_campaign orders by created_at.
Following(todo) == {r \in todo : \A q \in todo : r <= q}

\* _attempts_in_window: what is committed, and what the run wrote itself.
Attempted(w) == contacts \cup {r \in Recipients : run[w].wrote[r] = "CONTACTED"}

\* Calling window, frequency and policy; the clock and the policy are free.
Decisions(w) ==
    IF Cardinality(Attempted(w)) >= dailyCap THEN {"SKIPPED"} ELSE {"SKIPPED", "SUPPRESSED", "ELIGIBLE"}

\* A mutant: the campaign's status is not read again.
Halted_Never == FALSE

\* The status is read again before every recipient.
Halted == campaign # "ACTIVE"

Decide(w, r, decision) ==
    /\ run[w].pc = "decide" /\ ~Halted
    /\ r \in Following(run[w].todo)
    /\ decision \in Decisions(w)
    /\ run' = [run EXCEPT ![w].pc = "write", ![w].at = r, ![w].decision = decision]
    /\ UNCHANGED <<dailyCap, campaign, recipient, contacts, call, rung, lost, raced, late, faults>>

\* Another run has written the row, or the call, and has not committed.
Locked(w, r) == \E v \in Runs \ {w} : run[v].wrote[r] # "none"

Writes(w, status, made) ==
    run' = [run EXCEPT ![w].pc = "decide", ![w].todo = @ \ {run[w].at},
                       ![w].wrote[run[w].at] = status, ![w].called[run[w].at] = made]

\* A recipient that is not called.
Dismiss(w) ==
    /\ run[w].pc = "write" /\ run[w].decision \in {"SKIPPED", "SUPPRESSED"} /\ ~Locked(w, run[w].at)
    /\ Writes(w, run[w].decision, "none")
    /\ UNCHANGED <<dailyCap, campaign, recipient, contacts, call, rung, lost, raced, late, faults>>

Rings(w, r) ==
    /\ rung' = [rung EXCEPT ![r] = IF @ < 2 THEN @ + 1 ELSE @]
    /\ late' = [late EXCEPT ![w] = IF campaign # "ACTIVE" /\ @ < 2 THEN @ + 1 ELSE @]

\* A mutant: a call on record does not stop the dial.
Dialable_Always(r) == TRUE

\* request_call found nothing, or a call initiate_call dials once more.
Dialable(r) == call[r] \in {"none", "refused"}

\* request_call, authorize_call and initiate_call: a terminal failure settles
\* the recipient, anything else makes it CONTACTED.
Contact(w, answer) ==
    LET r == run[w].at IN
    /\ run[w].pc = "write" /\ run[w].decision = "ELIGIBLE" /\ ~Locked(w, r)
    /\ Dialable(r)
    /\ IF answer = "dialled"
       THEN /\ Rings(w, r)
            /\ run' = [run EXCEPT ![w].pc = "decide", ![w].todo = @ \ {r}, ![w].rang = @ \cup {r},
                                  ![w].wrote[r] = "CONTACTED", ![w].called[r] = "dialled"]
       ELSE /\ Writes(w, IF answer = "failed" THEN "FAILED" ELSE "CONTACTED", answer)
            /\ UNCHANGED <<dailyCap, rung, late>>
    /\ UNCHANGED <<dailyCap, campaign, recipient, contacts, call, lost, raced, faults>>

\* The call holds a live reference: it is returned as it is.
ContactAgain(w) ==
    /\ run[w].pc = "write" /\ run[w].decision = "ELIGIBLE" /\ ~Locked(w, run[w].at)
    /\ call[run[w].at] = "dialled"
    /\ Writes(w, "CONTACTED", "none")
    /\ UNCHANGED <<dailyCap, campaign, recipient, contacts, call, rung, lost, raced, late, faults>>

RollBack(w) ==
    /\ run' = [run EXCEPT ![w] = IdleRun]
    /\ lost' = lost \cup run[w].rang
    /\ UNCHANGED <<dailyCap, campaign, recipient, contacts, call, rung, raced, late>>

\* The call is over, or its retry interval has not passed: initiate_call
\* raises and the whole run is rolled back, the phones it rang included.
Raise(w) ==
    /\ run[w].pc = "write" /\ run[w].decision = "ELIGIBLE" /\ ~Locked(w, run[w].at)
    /\ call[run[w].at] \in {"refused", "failed", "over"}
    /\ RollBack(w)
    /\ UNCHANGED faults

Crash(w) ==
    /\ run[w].pc # "idle" /\ faults < MaxFaults
    /\ faults' = faults + 1
    /\ RollBack(w)

\* The list is done, or the campaign has stopped: get_db_session commits.
CommitRun(w) ==
    /\ run[w].pc = "decide" /\ (run[w].todo = {} \/ Halted)
    /\ LET mine == {r \in Recipients : run[w].wrote[r] # "none"}
       IN  /\ recipient' = [r \in Recipients |-> IF r \in mine THEN run[w].wrote[r] ELSE recipient[r]]
           /\ contacts' = Attempted(w)
           /\ call' = [r \in Recipients |-> IF run[w].called[r] # "none" THEN run[w].called[r] ELSE call[r]]
           /\ raced' = raced \cup {r \in mine : recipient[r] # "PENDING"}
    /\ run' = [run EXCEPT ![w] = IdleRun]
    /\ UNCHANGED <<dailyCap, campaign, rung, lost, late, faults>>

-----------------------------------------------------------------------------
Step(w) ==
    \/ \E r \in Recipients, decision \in {"SKIPPED", "SUPPRESSED", "ELIGIBLE"} : Decide(w, r, decision)
    \/ Dismiss(w)
    \/ \E answer \in {"dialled", "refused", "failed"} : Contact(w, answer)
    \/ ContactAgain(w) \/ Raise(w) \/ CommitRun(w)

CampaignNext ==
    \/ \E to \in {"SCHEDULED", "ACTIVE", "PAUSED", "COMPLETED", "CANCELLED"} : TransitionCampaign(to)
    \/ \E r \in Recipients : AddRecipient(r) \/ CallEnds(r)
    \/ \E w \in Runs : Execute(w) \/ Step(w) \/ Crash(w)

\* A request that has started goes on.
CampaignSpec == CampaignInit /\ [][CampaignNext]_campaignVars /\ \A w \in Runs : WF_campaignVars(Step(w))

-----------------------------------------------------------------------------
(* Properties.                                                             *)

\* However many runs overlap, a recipient's phone rings once, unless the run
\* that rang it was rolled back with its record of having done so.
RungOnce == \A r \in Recipients : rung[r] > 1 => r \in lost

\* After the campaign has stopped, a run that is under way rings at most the
\* recipient it has already decided on.
StopsSoon == \A w \in Runs : late[w] <= 1

\* Runs that wait for each other's rows do not wait for ever: they lock the
\* recipients in one order.
RunsEnd == \A w \in Runs : run[w].pc # "idle" ~> run[w].pc = "idle"
=============================================================================
