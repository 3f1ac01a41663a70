--------------------------- MODULE Communications ---------------------------
(***************************************************************************)
(* What the communication policy lets through, and what the providers say  *)
(* happened to it.  Outbox tells when an event is handed to the pipeline;  *)
(* this module tells what the pipeline does with the event's target, a     *)
(* message to one customer of one business on one channel, while consent,  *)
(* configuration and the clock change and delivery receipts come back.     *)
(*                                                                         *)
(* A worker begins a transaction, decides, inserts the row, calls the      *)
(* provider and commits; only the commit shows the row to the others, and  *)
(* only the provider knows what was really sent when the worker stops in   *)
(* between.  The database dates the row by the transaction's begin, the    *)
(* policy counts by the clock at the decision.                             *)
(***************************************************************************)
EXTENDS Integers, FiniteSets

CONSTANTS
    Events,         \* outbox events, each with one communication target
    Marketing,      \* those whose purpose is MARKETING; the others are TRANSACTIONAL
    Workers,
    Brains,         \* active Brain versions the business may have, or NoBrain
    NoBrain,
    Providers,      \* which of "vonage" and "resend" carries the channel
    Hours,          \* hours in a day
    MaxTime,        \* hours that pass in a behaviour
    MaxEdits,       \* changes of consent and configuration in a behaviour
    MaxSends,       \* messages the provider accepts in a behaviour
    MaxReceipts     \* delivery receipts on record in a behaviour

\* communication_config and the strongest communication rule of a version;
\* zero stands for a limit or a window that is not configured.
Brain == [cap : Nat, quiet : BOOLEAN, from : 0..Hours, to : 0..Hours,
          rule : {"PASS", "DENY", "ESCALATE", "REQUIRE_APPROVAL"}, only : {"any", "MARKETING"}]

ASSUME CommunicationsAssumption ==
    /\ IsFiniteSet(Events) /\ IsFiniteSet(Workers)
    /\ Marketing \subseteq Events /\ "none" \notin Events
    /\ Brains \subseteq Brain \cup {NoBrain} /\ NoBrain \notin Brain
    /\ Providers \subseteq {"vonage", "resend"}
    /\ Hours \in Nat \ {0} /\ {MaxTime, MaxEdits, MaxSends, MaxReceipts} \subseteq Nat

VARIABLES
    inForce,      \* the Brain version in force, chosen once
    provider,   \* the provider of the channel, chosen once
    channel,    \* BusinessCommunicationChannel
    purpose,    \* BusinessCommunicationPurpose, by purpose
    pref,       \* CustomerCommunicationPreference for marketing, by scope
    row,        \* Communication: its status ("absent"), day, whether it was decided on
                \* a later one, and provider reference
    txn,        \* what each worker has in hand
    sends,      \* messages the provider accepted, by event
    hooks,      \* CommunicationWebhook rows: receipts that were accepted
    early,      \* receipts that found no committed attempt
    clock,
    edits

communicationsVars == <<inForce, provider, channel, purpose, pref, row, txn, sends,
          hooks, early, clock, edits>>
configVars == <<inForce, provider, channel, purpose, pref, edits>>
providerVars == <<sends, hooks, early>>

Scopes == <<"both", "channel", "purpose", "all">>
Purpose(e) == IF e \in Marketing THEN "MARKETING" ELSE "TRANSACTIONAL"
Message(e, k) == <<e, k>>
Messages == {m \in Events \X (1..MaxSends) : m[2] <= sends[m[1]]}
Hour == clock % Hours
Day == clock \div Hours
NoRow == [status |-> "absent", day |-> 0, late |-> FALSE, ref |-> 0]
NoTxn == [step |-> "idle", e |-> "none", day |-> 0, late |-> FALSE, ref |-> 0, out |-> FALSE]

CommunicationsInit ==
    /\ inForce \in Brains
    /\ provider \in Providers
    /\ channel \in {"absent", "on"}
    /\ purpose = [p \in {"MARKETING", "TRANSACTIONAL"} |-> "on"]
    /\ pref = [s \in {"both", "channel", "purpose", "all"} |-> "absent"]
    /\ row = [e \in Events |-> NoRow]
    /\ txn = [w \in Workers |-> NoTxn]
    /\ sends = [e \in Events |-> 0]
    /\ hooks = {}
    /\ early = {}
    /\ clock = 0
    /\ edits = 0

-----------------------------------------------------------------------------
(* The policy: the first check that does not pass decides.                 *)

ChannelVerdict ==
    CASE channel = "absent" -> "REQUIRE_APPROVAL"
      [] channel = "off" -> "DENY"
      [] channel = "on" -> "PASS"

\* "off" is a disabled purpose, or one whose permitted_channels do not name
\* this channel.
PurposeVerdict(p) ==
    CASE purpose[p] = "absent" -> "REQUIRE_APPROVAL"
      [] purpose[p] = "off" -> "DENY"
      [] purpose[p] = "on" -> "PASS"

\* The first of some positions in a list.
First(positions) == CHOOSE i \in positions : \A j \in positions : i <= j

Chosen == {i \in DOMAIN Scopes : pref[Scopes[i]] # "absent"}

\* Mutant: the broadest preference decides.
Governing_Broadest ==
    IF Chosen = {} THEN "absent"
    ELSE pref[Scopes[CHOOSE i \in Chosen : \A j \in Chosen : j <= i]]

\* The most specific preference there is.
Governing == IF Chosen = {} THEN "absent" ELSE pref[Scopes[First(Chosen)]]

ConsentVerdict(p) ==
    IF p = "TRANSACTIONAL" \/ Governing = "in" THEN "PASS" ELSE "REQUIRE_APPROVAL"

\* A window whose start is after its end spans midnight.
InQuietHours ==
    /\ inForce.quiet
    /\ IF inForce.from <= inForce.to
       THEN inForce.from <= Hour /\ Hour < inForce.to
       ELSE inForce.from <= Hour \/ Hour < inForce.to

TimingVerdict == IF inForce # NoBrain /\ InQuietHours THEN "DEFER" ELSE "PASS"

\* The communications created today, of any purpose and in any status.
CreatedToday == {e \in Events : row[e].status # "absent" /\ row[e].day >= Day}

\* Mutant: one message over the limit.
FrequencyVerdict_Over ==
    IF inForce # NoBrain /\ inForce.cap # 0 /\ Cardinality(CreatedToday) > inForce.cap
    THEN "DENY" ELSE "PASS"

FrequencyVerdict ==
    IF inForce # NoBrain /\ inForce.cap # 0 /\ Cardinality(CreatedToday) >= inForce.cap
    THEN "DENY" ELSE "PASS"

BrainVerdict(p) ==
    IF inForce = NoBrain THEN "REQUIRE_APPROVAL"
    ELSE IF inForce.only \in {"any", p} THEN inForce.rule ELSE "PASS"

Decision(p) ==
    LET verdicts == <<ChannelVerdict, PurposeVerdict(p), ConsentVerdict(p),
                      TimingVerdict, FrequencyVerdict, BrainVerdict(p)>>
        against == {i \in DOMAIN verdicts : verdicts[i] # "PASS"}
    IN  IF against = {} THEN "ALLOW" ELSE verdicts[First(against)]

-----------------------------------------------------------------------------
(* The pipeline.                                                           *)

\* The first statement begins the transaction, and created_at is its time.
BeginTxn(w) ==
    /\ txn[w].step = "idle"
    /\ txn' = [txn EXCEPT ![w] = [NoTxn EXCEPT !.step = "begun", !.day = Day]]
    /\ UNCHANGED <<configVars, providerVars, row, clock>>

\* The notification of an event is inserted first, under a unique key: a
\* second worker on the same event waits for the first.
Alone(w, e) == \A v \in Workers \ {w} : txn[v].e # e

Takes(w, e) == txn[w].step = "begun" /\ row[e].status = "absent" /\ Alone(w, e)

\* A target that is not allowed leaves an entry in the audit trail and
\* nothing else.
Insert(w, e) ==
    /\ Takes(w, e)
    /\ Decision(Purpose(e)) = "ALLOW"
    /\ txn' = [txn EXCEPT ![w] =
                  [step |-> "inserted", e |-> e, day |-> @.day, late |-> @.day # Day,
                   ref |-> 0, out |-> FALSE]]
    /\ UNCHANGED <<configVars, providerVars, row, clock>>

\* The provider accepts the message under a reference of its own, or the
\* adapter reports a failure.
Send(w) ==
    LET e == txn[w].e
        k == sends[e] + 1
    IN  /\ txn[w].step = "inserted"
        /\ \/ /\ Cardinality(Messages) < MaxSends
              /\ sends' = [sends EXCEPT ![e] = k]
              /\ txn' = [txn EXCEPT ![w].step = "sent", ![w].ref = k]
           \/ /\ txn' = [txn EXCEPT ![w].step = "sent"]
              /\ UNCHANGED sends
        /\ UNCHANGED <<configVars, row, hooks, early, clock>>

Commit(w) ==
    /\ txn[w].step = "sent"
    /\ row' = [row EXCEPT ![txn[w].e] =
                  [status |-> IF txn[w].ref = 0 THEN "FAILED" ELSE "SENT",
                   day |-> txn[w].day, late |-> txn[w].late, ref |-> txn[w].ref]]
    /\ txn' = [txn EXCEPT ![w] = NoTxn]
    /\ UNCHANGED <<configVars, providerVars, clock>>

\* The worker dies or its transaction fails: the row goes, the message stays
\* sent, and the event is handed out again.
Abort(w) ==
    /\ txn[w].step # "idle"
    /\ txn' = [txn EXCEPT ![w] = NoTxn]
    /\ UNCHANGED <<configVars, providerVars, row, clock>>

-----------------------------------------------------------------------------
(* Delivery receipts.                                                      *)

\* "read" counts as delivered, "rejected" as failed, "email.failed" as bounced;
\* "other" is any type the handlers do not know.
Receipts == IF provider = "vonage" THEN {"submitted", "delivered", "failed", "other"}
            ELSE {"email.delivered", "email.bounced", "email.complained", "other"}

VonageStatus(s) ==
    CASE s = "submitted" -> "SUCCESS"
      [] s = "delivered" -> "DELIVERED"
      [] s = "failed" -> "FAILED"

ResendStatus(s) ==
    CASE s = "email.delivered" -> "DELIVERED"
      [] s = "email.bounced" -> "BOUNCED"
      [] s = "email.complained" -> "COMPLAINED"

Status(s) == IF provider = "vonage" THEN VonageStatus(s) ELSE ResendStatus(s)

Delivered == {"delivered", "email.delivered", "email.complained"}
Undelivered == {"failed", "email.bounced"}

\* A provider does not report both that it delivered a message and that it
\* could not.
Honest(m, s) ==
    \A h \in hooks : h[1] = m =>
        /\ s \in Delivered => h[2] \notin Undelivered
        /\ s \in Undelivered => h[2] \notin Delivered

\* Vonage receipts are recognised by message and status.  The identifier of
\* a Resend event may be missing, and is then made up.
Recognised(m, s) == provider = "vonage" /\ <<m, s>> \in hooks

\* Mutant: whatever attempt the event had is updated.
Attempts_OfEvent(m) == {e \in Events : row[e].status # "absent" /\ m[1] = e}

\* Attempts are found by the provider's reference.
Attempts(m) == {e \in Events : row[e].status # "absent" /\ m = Message(e, row[e].ref)}

\* A receipt of an unknown type is stored and accepted like the others, and
\* changes nothing.
ReceiveWebhook(m, s) ==
    /\ Honest(m, s)
    /\ ~Recognised(m, s)
    /\ hooks' = hooks \cup {<<m, s>>} /\ Cardinality(hooks') <= MaxReceipts
    /\ IF s = "other" THEN UNCHANGED <<row, early>>
       ELSE /\ row' = [e \in Events |->
                          IF e \in Attempts(m) THEN [row[e] EXCEPT !.status = Status(s)] ELSE row[e]]
            /\ early' = IF Attempts(m) = {} THEN early \cup {<<m, s>>} ELSE early
    /\ UNCHANGED <<configVars, txn, sends, clock>>

-----------------------------------------------------------------------------
(* Consent, configuration and the clock.                                   *)

Edit == edits < MaxEdits /\ edits' = edits + 1

\* A message that a worker has decided on is not recalled.
Choose(s, v) ==
    /\ Edit
    /\ pref' = [pref EXCEPT ![s] = v]
    /\ txn' = [w \in Workers |-> IF v = "out" /\ txn[w].step \in {"inserted", "sent"}
                                 THEN [txn[w] EXCEPT !.out = TRUE] ELSE txn[w]]
    /\ UNCHANGED <<inForce, provider, channel, purpose, providerVars, row, clock>>

OptIn(s) == pref[s] # "in" /\ Choose(s, "in")
OptOut(s) == pref[s] # "out" /\ Choose(s, "out")

UpsertChannel(v) ==
    /\ Edit /\ channel # v
    /\ channel' = v
    /\ UNCHANGED <<inForce, provider, purpose, pref, providerVars, row, txn, clock>>

UpsertPurpose(p, v) ==
    /\ Edit /\ purpose[p] # v
    /\ purpose' = [purpose EXCEPT ![p] = v]
    /\ UNCHANGED <<inForce, provider, channel, pref, providerVars, row, txn, clock>>

Tick ==
    /\ clock < MaxTime /\ clock' = clock + 1
    /\ UNCHANGED <<configVars, providerVars, row, txn>>

CommunicationsNext ==
    \/ \E w \in Workers, e \in Events : Insert(w, e)
    \/ \E w \in Workers : BeginTxn(w) \/ Send(w) \/ Commit(w) \/ Abort(w)
    \/ \E m \in Messages, s \in Receipts : ReceiveWebhook(m, s)
    \/ \E s \in DOMAIN pref : OptIn(s) \/ OptOut(s)
    \/ \E v \in {"on", "off"} : UpsertChannel(v)
    \/ \E p \in DOMAIN purpose, v \in {"on", "off"} : UpsertPurpose(p, v)
    \/ Tick

CommunicationsSpec == CommunicationsInit /\ [][CommunicationsNext]_communicationsVars

-----------------------------------------------------------------------------
(* Properties                                                              *)

Recorded(e) == row[e].status # "absent"

\* max_per_day: the count is read before the row is there for others to
\* count, so each further worker may add one message over the limit of a
\* day; and each worker may add one that it decided after midnight in a
\* transaction begun before, which counted the next day's rows.  No more
\* than that, whatever is rolled back and handed out again.
CapHolds ==
    inForce # NoBrain /\ inForce.cap # 0 =>
        \A d \in 0..(MaxTime \div Hours) :
            LET dated == {e \in Events : Recorded(e) /\ row[e].day = d}
                late == {e \in dated : row[e].late}
            IN  /\ Cardinality(dated \ late) <= inForce.cap + Cardinality(Workers) - 1
                /\ Cardinality(late) <= Cardinality(Workers)

\* A marketing message is recorded only while the preference that governs
\* it is an opt-in, or when the customer opted out with the message already
\* under way; a broader opt-in never outweighs a narrower opt-out.
OptOutHonoured ==
    [][\A w \in Workers :
          (\E e \in Marketing : txn[w].e = e /\ ~Recorded(e) /\ Recorded(e)')
              => txn[w].out \/ \E s \in DOMAIN pref : pref[s] = "in" /\
                    \A i \in 1..4 : pref[Scopes[i]] = "out" => \E j \in 1..(i - 1) : Scopes[j] = s]_communicationsVars

\* A communication says DELIVERED only when the provider reported so of the
\* very message on record, not of one that a rolled-back attempt had sent;
\* and SENT only as long as no receipt of a known type was accepted for it
\* since it was recorded.
StatusIsEarned ==
    \A e \in Events :
        LET m == Message(e, row[e].ref)
        IN  /\ row[e].status = "DELIVERED" => \E h \in hooks : h[1] = m /\ h[2] \in Delivered
            /\ row[e].status = "SENT" => \A h \in hooks : h[1] = m /\ h[2] # "other" => h \in early
=============================================================================
