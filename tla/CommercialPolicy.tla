-------------------------- MODULE CommercialPolicy --------------------------
(***************************************************************************)
(* Which commercial policy governs the platform's fee of one business.     *)
(*                                                                         *)
(* A request loads a policy, decides on the status it loaded, writes and   *)
(* commits.  One that activates the policy first sends its write and then  *)
(* looks for the active policies it is to supersede; it does not see those *)
(* that others have not committed.                                         *)
(***************************************************************************)
EXTENDS Integers, FiniteSets

CONSTANTS
    MaxPolicies,
    Editors,        \* requests that are open at the same time
    FeeTerms,       \* fee terms a policy may state
    Forms,          \* scope, target, code and dates a policy may be created with
    Forever,        \* the end of a policy that has none
    Nobody,
    MaxTime

Policies == 1..MaxPolicies      \* in the order of creation
Statuses == {"absent", "draft", "active", "inactive", "superseded"}

\* Lowest precedence first.
Scopes == <<"global_default", "category_default", "business_plan", "promotion", "business_specific">>
Targets == {"all", "category", "mine", "other"}
Form == [scope : {Scopes[i] : i \in 1..5}, target : Targets, code : BOOLEAN,
         from : Nat, until : Nat \cup {Forever}]

ASSUME PolicyAssumption ==
    /\ MaxPolicies \in Nat /\ MaxTime \in Nat
    /\ Forms \subseteq Form
    /\ Forever \notin Nat /\ Nobody \notin Policies

VARIABLES
    policyStatus,   \* CommercialPolicy.status
    form,           \* its scope, target, code and dates
    fee,            \* its fee terms
    edit,           \* what each open request has loaded
    blind,          \* the policies the last activation or late edit of a policy could not see
    now

policyVars == <<policyStatus, form, fee, edit, blind, now>>

NoEdit == [step |-> "idle"]

PolicyInit ==
    /\ policyStatus = [p \in Policies |-> "absent"]
    /\ form = [p \in Policies |-> Nobody]
    /\ fee = [p \in Policies |-> Nobody]
    /\ edit = [r \in Editors |-> NoEdit]
    /\ blind = [p \in Policies |-> {}]
    /\ now = 0

COMMERCIAL_POLICY_TRANSITIONS(s) ==
    CASE s = "draft" -> {"active", "inactive"}
      [] s = "active" -> {"inactive", "superseded"}
      [] s = "inactive" -> {"active"}
      [] OTHER -> {}

-----------------------------------------------------------------------------
(* Resolution.                                                             *)

InForce(p) ==
    /\ policyStatus[p] = "active"
    /\ form[p].from <= now
    /\ form[p].until = Forever \/ now < form[p].until

\* The policies that may govern a target; one that asks for a promotion code
\* governs nobody who gives none, and no caller gives one.
Applicable(p, target) ==
    CASE form[p].scope = "global_default" -> TRUE
      [] form[p].scope \in {"category_default", "business_plan", "business_specific"} ->
            form[p].target = target
      [] form[p].scope = "promotion" -> form[p].target \in {target, "all"} /\ ~form[p].code

EffectivePolicies(target) == {p \in Policies : InForce(p) /\ Applicable(p, target)}

Precedence(p) == CHOOSE i \in 1..5 : Scopes[i] = form[p].scope

\* The highest scope, and in it the policy that was created last.
EffectivePolicy ==
    LET candidates == EffectivePolicies("mine")
    IN  IF candidates = {} THEN Nobody
        ELSE CHOOSE p \in candidates : \A q \in candidates :
                Precedence(q) < Precedence(p) \/ (Precedence(q) = Precedence(p) /\ q <= p)

-----------------------------------------------------------------------------
(* Requests.                                                               *)

CreatePolicy(p, f, terms) ==
    /\ policyStatus[p] = "absent" /\ \A q \in Policies : q < p => policyStatus[q] # "absent"
    /\ policyStatus' = [policyStatus EXCEPT ![p] = "draft"]
    /\ form' = [form EXCEPT ![p] = f]
    /\ fee' = [fee EXCEPT ![p] = terms]
    /\ UNCHANGED <<edit, blind, now>>

\* The row a request has sent its write for stays locked until it ends.
Locked(r, p) ==
    \E t \in Editors \ {r} : edit[t].step = "looked" /\ edit[t].p = p

Open(r, op) ==
    /\ edit[r].step = "idle"
    /\ edit' = [edit EXCEPT ![r] = op]
    /\ UNCHANGED <<policyStatus, form, fee, blind, now>>

\* Only a draft may be edited.
LoadForUpdate(r, p, terms, until) ==
    /\ policyStatus[p] = "draft"
    /\ Open(r, [step |-> "update", p |-> p, terms |-> terms, until |-> until])

LoadForTransition(r, p, to) ==
    /\ to \in COMMERCIAL_POLICY_TRANSITIONS(policyStatus[p])
    /\ Open(r, [step |-> IF to = "active" THEN "activate" ELSE "move", p |-> p, to |-> to])

\* Mutant: only policies that began earlier are superseded.
Superseded_Earlier(p) ==
    IF form[p].from > now THEN {}
    ELSE {q \in EffectivePolicies(form[p].target) \ {p} :
            form[q].scope = form[p].scope /\ form[q].target = form[p].target /\ form[q].from < form[p].from}

\* The policies an activation supersedes: in force, of the same scope and
\* target.  A policy that is not in force yet supersedes nothing.
Superseded(p) ==
    IF form[p].from > now THEN {}
    ELSE {q \in EffectivePolicies(form[p].target) \ {p} :
            form[q].scope = form[p].scope /\ form[q].target = form[p].target}

Look(r) ==
    /\ edit[r].step = "activate"
    /\ LET p == edit[r].p
       IN  /\ ~Locked(r, p)
           /\ edit' = [edit EXCEPT ![r] =
                  [step |-> "looked", p |-> p, found |-> Superseded(p),
                   missed |-> IF form[p].from > now THEN Policies ELSE {}]]
    /\ UNCHANGED <<policyStatus, form, fee, blind, now>>

\* The others do not see what a request writes once they have looked.
Ends(r, written) ==
    edit' = [t \in Editors |->
        IF t = r THEN NoEdit
        ELSE IF edit[t].step = "looked"
        THEN [edit[t] EXCEPT !.missed = @ \cup written]
        ELSE edit[t]]

CommitUpdate(r) ==
    LET p == edit[r].p
    IN  /\ edit[r].step = "update" /\ ~Locked(r, p)
        /\ fee' = [fee EXCEPT ![p] = edit[r].terms]
        /\ form' = [form EXCEPT ![p].until = edit[r].until]
        /\ blind' = [blind EXCEPT ![p] = IF policyStatus[p] = "draft" THEN @ ELSE Policies]
        /\ Ends(r, {p})
        /\ UNCHANGED <<policyStatus, now>>

CommitMove(r) ==
    LET p == edit[r].p
    IN  /\ edit[r].step = "move" /\ ~Locked(r, p)
        /\ policyStatus' = [policyStatus EXCEPT ![p] = edit[r].to]
        /\ Ends(r, {p})
        /\ UNCHANGED <<form, fee, blind, now>>

CommitActivation(r) ==
    LET p == edit[r].p
    IN  /\ edit[r].step = "looked" /\ \A q \in edit[r].found : ~Locked(r, q)
        /\ policyStatus' = [q \in Policies |-> IF q \in edit[r].found THEN "superseded"
                                              ELSE IF q = p THEN "active" ELSE policyStatus[q]]
        /\ blind' = [blind EXCEPT ![p] = edit[r].missed]
        /\ Ends(r, edit[r].found \cup {p})
        /\ UNCHANGED <<form, fee, now>>

DropEdit(r) ==
    /\ edit[r].step # "idle"
    /\ edit' = [edit EXCEPT ![r] = NoEdit]
    /\ UNCHANGED <<policyStatus, form, fee, blind, now>>

Tick == now < MaxTime /\ now' = now + 1 /\ UNCHANGED <<policyStatus, form, fee, edit, blind>>

PolicyNext ==
    \/ \E p \in Policies, f \in Forms, terms \in FeeTerms : CreatePolicy(p, f, terms)
    \/ \E r \in Editors, p \in Policies :
          \/ \E terms \in FeeTerms, f \in Forms : LoadForUpdate(r, p, terms, f.until)
          \/ \E to \in Statuses : LoadForTransition(r, p, to)
    \/ \E r \in Editors :
          Look(r) \/ CommitUpdate(r) \/ CommitMove(r) \/ CommitActivation(r) \/ DropEdit(r)
    \/ Tick

PolicySpec == PolicyInit /\ [][PolicyNext]_policyVars

-----------------------------------------------------------------------------
(* Properties                                                              *)

\* Two policies of one scope and target, neither for holders of a code.
Rivals(p, q) ==
    /\ form[p].scope = form[q].scope /\ form[p].target = form[q].target
    /\ ~form[p].code /\ ~form[q].code

\* Of two rivals in force, one was activated when it could not see the
\* other: ahead of its time, or while the other's activation was not
\* committed; or it was edited by a request that took it for a draft.
OneGoverns ==
    \A p, q \in Policies : p # q /\ InForce(p) /\ InForce(q) /\ Rivals(p, q) =>
        q \in blind[p] \/ p \in blind[q]
=============================================================================
