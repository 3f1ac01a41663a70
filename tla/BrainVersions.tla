--------------------------- MODULE BrainVersions ---------------------------
(***************************************************************************)
(* The Business Brain of one business: its versions, which of them governs *)
(* the business, and the proposals of the assistant the owner decides.     *)
(*                                                                         *)
(* Every request loads the brain with all its versions first (the          *)
(* authorization dependency does), decides on the rows it loaded, writes   *)
(* and commits; reading a row again inside the request does not refresh    *)
(* it.  A request is therefore a record of what it loaded and the writes   *)
(* that follow from it.  One that nobody overtakes is a single step; the   *)
(* others commit after any number of steps of others.  Only the brain row  *)
(* is ever locked, and only by an activation.                              *)
(***************************************************************************)
EXTENDS Integers, FiniteSets, FiniteSetsExt

CONSTANTS
    Clients,        \* requests that others may overtake at the same time
    MaxVersions,
    ConfigChanges,  \* things a version's configuration may say
    RuleChanges,    \* rules a version may hold
    BadRules,       \* those of a category-level type, which full validation refuses
    Proposals,      \* the changes the assistant may propose
    MaxProposals,   \* how many of them it proposes in a behaviour
    MaxDeleted,     \* rules deleted and not added again at any one time
    MaxStale        \* versions and proposals that are written from outdated rows in a behaviour

ASSUME BrainAssumption ==
    /\ MaxVersions \in Nat /\ MaxProposals \in Nat /\ MaxDeleted \in Nat /\ MaxStale \in Nat
    /\ BadRules \subseteq RuleChanges
    /\ Proposals \subseteq ConfigChanges \cup RuleChanges

Versions == 1..MaxVersions
Changes == ConfigChanges \cup RuleChanges
Tracked == ConfigChanges \cup Proposals     \* the changes an overlapping merge could lose

VARIABLES
    status,     \* BrainVersion.status, "absent" before it is created
    number,     \* BrainVersion.version_number
    content,    \* what its configuration and its rules say
    deleted,    \* the rules of each version that are only there as soft-deleted rows
    active,     \* BusinessBrain.active_version_id, 0 for none
    proposal,   \* BrainProposal.status, "none" before it is made
    request,    \* what each overtaken request has loaded
    reviewed,   \* the content a version had when it last entered REVIEW, {} back in DRAFT
    applied,    \* how often a proposal has been applied, up to 2
    home,       \* the version a change was last written to, 0 for none or taken out
    stale,      \* versions and proposals a request has written from an outdated row
    manual      \* versions that /transition has moved into or out of ACTIVE

vars == <<status, number, content, deleted, active, proposal, request, reviewed, applied, home, stale, manual>>

Idle == [op |-> "idle"]

Init ==
    /\ status = [v \in Versions |-> "absent"]
    /\ number = [v \in Versions |-> 0]
    /\ content = [v \in Versions |-> {}]
    /\ deleted = [v \in Versions |-> {}]
    /\ active = 0
    /\ proposal = [p \in Proposals |-> "none"]
    /\ request = [c \in Clients |-> Idle]
    /\ reviewed = [v \in Versions |-> {}]
    /\ applied = [p \in Proposals |-> 0]
    /\ home = [x \in Tracked |-> 0]
    /\ stale = {}
    /\ manual = {}

Existing == {v \in Versions : status[v] # "absent"}

BRAIN_VERSION_TRANSITIONS(s) ==
    CASE s = "draft" -> {"validating", "review"}
      [] s = "validating" -> {"review", "draft"}
      [] s = "review" -> {"approved", "draft"}
      [] s = "approved" -> {"active"}
      [] s = "active" -> {"superseded"}
      [] OTHER -> {}

-----------------------------------------------------------------------------
(* What requests load.  A request that fails on what it loaded changes     *)
(* nothing and is left out.                                                *)

\* get_next_version_number.
NextNumber == 1 + Max({0} \cup {number[v] : v \in Existing})

\* Mutant: a version may be edited while it is under review.
Mutable_Review(v) == status[v] \in {"draft", "validating", "review"}

\* _ensure_mutable.
Mutable(v) == status[v] = "draft"

\* validate_rule_data: the type is known, and the data has the type's fields
\* and a shape the evaluator reads.  Adding a rule checks less than this.
RuleValid(x) == x \notin BadRules

\* validate_brain_version_full, on the configuration and version.rules, where
\* the soft-deleted rules are too.
Structured(v) == \A x \in content[v] \cap RuleChanges : RuleValid(x)

\* approve_proposal and reject_proposal take a PENDING one.
Decidable(p) == proposal[p] = "pending"

\* The configurations a client sends of its own.
OwnConfigs == {{}} \cup {{x} : x \in ConfigChanges \ Proposals}

CreateVersion ==
    IF Existing = Versions THEN {}
    ELSE {[op |-> "create", next |-> NextNumber, config |-> config] : config \in OwnConfigs}

Edit(v, drop, add, delete) == [op |-> "edit", v |-> v, drop |-> drop, add |-> add, delete |-> delete]

Mutables == {v \in Existing : Mutable(v)}

\* PATCH of the configuration: the areas sent replace those of the version,
\* unless they say what was loaded, which is not written.
UpdateVersionConfig ==
    UNION {{Edit(v, ConfigChanges, config, {}) : config \in OwnConfigs \ {content[v] \cap ConfigChanges}} : v \in Mutables}

AddRule == {Edit(v, {}, {x}, {}) : v \in Mutables, x \in RuleChanges \ Proposals}

\* The rules of a version that are found by their id.
Kept(v) == (content[v] \cap RuleChanges) \ deleted[v]

\* The type of a rule stays and its new data is validated, so a rule that is
\* not valid keeps its data.  The data itself is abstracted.
UpdateRule == UNION {{Edit(v, {}, {}, {}) : x \in {y \in Kept(v) : RuleValid(y)}} : v \in Mutables}

\* The row stays among version.rules, which decide.
DeleteRule == UNION {{Edit(v, {}, {}, {x}) : x \in Kept(v)} : v \in Mutables}

TransitionVersion ==
    {[op |-> "transition", v |-> w[1], from |-> status[w[1]], to |-> w[2]] :
        w \in {x \in Existing \X {"draft", "validating", "review", "approved", "active", "superseded"} :
                  /\ x[2] \in BRAIN_VERSION_TRANSITIONS(status[x[1]])
                  /\ x[2] = "review" => Structured(x[1])}}

\* approve_version: an owner passes the default policy whatever the rules.
ApproveVersion ==
    {[op |-> "transition", v |-> v, from |-> "review", to |-> "approved"] :
        v \in {u \in Versions : status[u] = "review"}}

ActivateVersion ==
    {[op |-> "activate", v |-> v, from |-> status[v], pointer |-> active, retired |-> {u \in Versions : status[u] = "superseded"}] :
        v \in {u \in Versions : status[u] \in {"approved", "active"}}}

\* _get_or_create_draft_version: the draft with the highest number; 0 stands for
\* a new one.
Drafts ==
    LET drafts == {v \in Versions : status[v] = "draft"}
    IN  IF drafts = {} THEN {0} ELSE {v \in drafts : \A u \in drafts : number[u] <= number[v]}

\* approve_proposal (EDITED counts as APPROVED), and the configuration the draft
\* has, or takes over from the active version.
AcceptProposal ==
    {[op |-> "accept", p |-> p, v |-> v, next |-> NextNumber,
      config |-> LET base == IF v = 0 THEN active ELSE v
                 IN  IF base = 0 THEN {} ELSE content[base] \cap ConfigChanges] :
        p \in {q \in Proposals : Decidable(q)},
        v \in IF Existing = Versions THEN Drafts \ {0} ELSE Drafts}

RejectProposal == {[op |-> "reject", p |-> p] : p \in {q \in Proposals : Decidable(q)}}

Requests ==
    CreateVersion \cup UpdateVersionConfig \cup AddRule \cup UpdateRule \cup DeleteRule
    \cup TransitionVersion \cup ApproveVersion \cup ActivateVersion \cup AcceptProposal \cup RejectProposal

-----------------------------------------------------------------------------
(* What they write.                                                        *)

Fresh == CHOOSE v \in Versions : v \notin Existing

\* A new DRAFT takes the number that was next when the request looked.
NewDraft(r, config) ==
    /\ Existing # Versions
    /\ status' = [status EXCEPT ![Fresh] = "draft"]
    /\ number' = [number EXCEPT ![Fresh] = r.next]
    /\ content' = [content EXCEPT ![Fresh] = config]

Outnumbered(r) == IF r.next = NextNumber THEN {} ELSE {Fresh}

\* Where each change is after version v has been made to say what it says now.
Rehomed(v, old, new) ==
    [x \in Tracked |-> IF x \in new \ old THEN v ELSE IF x \in old \ new /\ home[x] = v THEN 0 ELSE home[x]]

WriteCreate(r) ==
    /\ r.op = "create"
    /\ NewDraft(r, r.config)
    /\ home' = Rehomed(Fresh, {}, r.config)
    /\ stale' = stale \cup Outnumbered(r)
    /\ UNCHANGED <<deleted, active, proposal, reviewed, applied, manual>>

\* The rule rows and the configuration columns are written, not the status.
WriteEdit(r) ==
    /\ r.op = "edit"
    /\ content' = [content EXCEPT ![r.v] = (@ \ r.drop) \cup r.add]
    /\ home' = Rehomed(r.v, content[r.v], content'[r.v])
    /\ deleted' = [deleted EXCEPT ![r.v] = (@ \ r.add) \cup r.delete]
    /\ stale' = IF Mutable(r.v) THEN stale ELSE stale \cup {r.v}
    /\ UNCHANGED <<status, number, active, proposal, reviewed, applied, manual>>

\* The partial unique index on the ACTIVE versions of a brain.
OneActive(s) == Cardinality({v \in Versions : s[v] = "active"}) <= 1

WriteTransition(r) ==
    LET outdated == \/ r.to \notin BRAIN_VERSION_TRANSITIONS(status[r.v])
                    \/ r.to = "review" /\ ~Structured(r.v)
    IN  /\ r.op = "transition"
        /\ status' = [status EXCEPT ![r.v] = r.to]
        /\ OneActive(status')
        /\ reviewed' = CASE r.to = "review" -> [reviewed EXCEPT ![r.v] = content[r.v]]
                         [] r.to = "draft" -> [reviewed EXCEPT ![r.v] = {}]
                         [] OTHER -> reviewed
        /\ manual' = IF "active" \in {r.to, r.from} THEN manual \cup {r.v} ELSE manual
        /\ stale' = IF outdated THEN stale \cup {r.v} ELSE stale
        /\ UNCHANGED <<number, content, deleted, active, proposal, applied, home>>

\* With the brain row locked, the ACTIVE version is looked up afresh; a version
\* the session has as SUPERSEDED is not written again.
Superseding(r) ==
    [v \in Versions |->
        CASE v # r.v /\ status[v] = "active" /\ v \notin r.retired -> "superseded"
          [] v = r.v /\ r.from = "approved" -> "active"
          [] OTHER -> status[v]]

\* The versions an activation leaves wrong by acting on an outdated row.  It does
\* not write what it loaded as it wants it: neither the status of a version it
\* loaded as ACTIVE nor the pointer to it, which may name another by now.
Overtaken(r) ==
    (IF r.pointer = r.v THEN {active} \ {0, r.v} ELSE {})
    \cup (IF status[r.v] \in {"approved", "active"} \/ (r.from = "active" /\ r.pointer = r.v) THEN {} ELSE {r.v})

\* Mutant: the brain's pointer is set only once.
WriteActivate_KeepsPointer(r) ==
    /\ r.op = "activate"
    /\ status' = Superseding(r)
    /\ OneActive(status')
    /\ active' = IF active = 0 THEN r.v ELSE active
    /\ stale' = stale \cup Overtaken(r)
    /\ UNCHANGED <<number, content, deleted, proposal, reviewed, applied, home, manual>>

WriteActivate(r) ==
    /\ r.op = "activate"
    /\ status' = Superseding(r)
    /\ OneActive(status')
    /\ active' = IF r.pointer = r.v THEN active ELSE r.v
    /\ stale' = stale \cup Overtaken(r)
    /\ UNCHANGED <<number, content, deleted, proposal, reviewed, applied, home, manual>>

\* Mutant: the area is replaced by the change alone.
Applied_NoMerge(old, r) ==
    IF r.p \in RuleChanges THEN old \cup {r.p} ELSE (old \ ConfigChanges) \cup {r.p}

\* _apply_proposal_to_brain: a rule is added, a configuration area is replaced
\* by what was loaded merged with the change.
Applied(old, r) ==
    IF r.p \in RuleChanges THEN old \cup {r.p}
    ELSE IF r.p \in r.config THEN old
    ELSE (old \ ConfigChanges) \cup r.config \cup {r.p}

\* A proposed rule may be refused: the exception is swallowed, the decision and
\* a new draft stay.  General knowledge becomes a rule of a category-level type.
WriteAccept(r) ==
    LET v == IF r.v = 0 THEN Fresh ELSE r.v
        outdated == \/ status[v] # "draft"
                    \/ r.p \in ConfigChanges /\ r.config # content[v] \cap ConfigChanges
    IN  /\ r.op = "accept"
        /\ \E ok \in IF r.p \in RuleChanges THEN BOOLEAN ELSE {TRUE} :
              /\ IF r.v = 0
                 THEN /\ NewDraft(r, IF ok THEN Applied(r.config, r) ELSE r.config)
                      /\ home' = Rehomed(v, {}, content'[v])
                      /\ UNCHANGED deleted
                 ELSE /\ content' = IF ok THEN [content EXCEPT ![v] = Applied(@, r)] ELSE content
                      /\ home' = IF ok THEN [home EXCEPT ![r.p] = v] ELSE home
                      /\ deleted' = IF ok THEN [deleted EXCEPT ![v] = @ \ {r.p}] ELSE deleted
                      /\ UNCHANGED <<status, number>>
              /\ proposal' = [proposal EXCEPT ![r.p] = IF ok THEN "applied" ELSE "approved"]
              /\ applied' = IF ok THEN [applied EXCEPT ![r.p] = IF @ = 0 THEN 1 ELSE 2] ELSE applied
        /\ stale' = stale \cup (IF Decidable(r.p) THEN {} ELSE {r.p})
                          \cup (IF r.v = 0 THEN Outnumbered(r) ELSE IF outdated THEN {v} ELSE {})
        /\ UNCHANGED <<active, reviewed, manual>>

WriteReject(r) ==
    /\ r.op = "reject"
    /\ proposal' = [proposal EXCEPT ![r.p] = "rejected"]
    /\ stale' = IF Decidable(r.p) THEN stale ELSE stale \cup {r.p}
    /\ UNCHANGED <<status, number, content, deleted, active, reviewed, applied, home, manual>>

Write(r) ==
    /\ \/ WriteCreate(r) \/ WriteEdit(r) \/ WriteTransition(r)
       \/ WriteActivate(r) \/ WriteAccept(r) \/ WriteReject(r)
    /\ Cardinality(stale') <= MaxStale
    /\ Cardinality(UNION {{v} \X deleted'[v] : v \in Versions}) <= MaxDeleted

-----------------------------------------------------------------------------
\* A request from its first statement to its commit.
Serve == \E r \in Requests : Write(r) /\ UNCHANGED request

\* A request that others will overtake has loaded its rows.
Begin(c) ==
    /\ request[c] = Idle
    /\ \E r \in Requests : request' = [request EXCEPT ![c] = r]
    /\ UNCHANGED <<status, number, content, deleted, active, proposal, reviewed, applied, home, stale, manual>>

Answered(c) == request[c] # Idle /\ request' = [request EXCEPT ![c] = Idle]

Commit(c) == Answered(c) /\ Write(request[c])

\* get_db_session: an exception or a crash rolls the whole request back.
RollBack(c) ==
    /\ Answered(c)
    /\ UNCHANGED <<status, number, content, deleted, active, proposal, reviewed, applied, home, stale, manual>>

\* send_owner_message, when the assistant's answer holds a proposal; a brain can
\* always have an ACTIVE conversation (get_or_create_active_conversation).
Propose(p) ==
    /\ proposal[p] = "none" /\ Cardinality({q \in Proposals : proposal[q] # "none"}) < MaxProposals
    /\ proposal' = [proposal EXCEPT ![p] = "pending"]
    /\ UNCHANGED <<status, number, content, deleted, active, request, reviewed, applied, home, stale, manual>>

Next ==
    \/ Serve
    \/ \E c \in Clients : Begin(c) \/ Commit(c) \/ RollBack(c)
    \/ \E p \in Proposals : Propose(p)

Spec == Init /\ [][Next]_vars

-----------------------------------------------------------------------------
(* Properties.                                                             *)

\* Every variable holds what its columns may hold.
TypeOK ==
    /\ status \in [Versions -> {"absent", "draft", "validating", "review", "approved", "active", "superseded"}]
    /\ number \in [Versions -> Nat]
    /\ content \in [Versions -> SUBSET Changes]
    /\ deleted \in [Versions -> SUBSET Changes]
    /\ active \in Versions \cup {0}
    /\ proposal \in [Proposals -> {"none", "pending", "approved", "applied", "rejected"}]
    /\ reviewed \in [Versions -> SUBSET Changes]
    /\ applied \in [Proposals -> 0..2]
    /\ home \in [Tracked -> Versions \cup {0}]
    /\ stale \subseteq Versions \cup Proposals
    /\ manual \subseteq Versions

\* The version the brain points to is its ACTIVE one and no other is, through
\* overlapping activations, unless /transition was used for it or a request
\* acted on an outdated row of it (activate_version).
PointerFollows == \A v \in Versions \ (stale \cup manual) : status[v] = "active" <=> active = v

\* What a version says after its submission is what was submitted, and it is
\* valid, unless it was written from an outdated row (_ensure_mutable, the
\* validation before REVIEW).
FrozenAfterReview ==
    \A v \in Versions \ stale :
        status[v] \in {"review", "approved", "active", "superseded"} =>
            content[v] = reviewed[v] /\ Structured(v)

\* A proposal whose decisions did not overlap is applied once at most, and never
\* when the owner rejected it (approve_proposal, reject_proposal).
DecidedOnce ==
    \A p \in Proposals \ stale : applied[p] <= 1 /\ (proposal[p] = "rejected" => applied[p] = 0)

\* What was written to a draft stays there until somebody takes it out, whatever
\* proposal is applied after it (the merge in _apply_proposal_to_brain).
NothingLost == \A x \in Tracked : home[x] \notin stale \cup {0} => x \in content[home[x]]

\* What an owner accepts takes effect once and for good: no second decision
\* applies it again, and no later one undoes it.
OnceAndForGood == DecidedOnce /\ NothingLost

=============================================================================
