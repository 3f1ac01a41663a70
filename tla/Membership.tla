----------------------------- MODULE Membership -----------------------------
(***************************************************************************)
(* The people of one business: its founder, whom owners add, invite,       *)
(* promote and remove, and the invitations they accept.  A request checks  *)
(* the caller's role and counts the owners on what is committed when it    *)
(* looks, and writes one row at its end; nothing is locked.  A request     *)
(* nobody overtakes is one step.                                           *)
(***************************************************************************)
EXTENDS Integers, FiniteSets

CONSTANTS
    People,
    Letters,    \* invitations
    Desks,      \* requests that others may overtake
    Roles       \* BusinessMemberRole, the ones given in a behaviour

VARIABLES
    member,     \* the row of each person: its role, and whether it is soft-deleted
    letter,     \* whom an invitation is for, as what, and what became of it
    desk,       \* what each overtaken request is about to write
    overtaken,  \* requests under way when somebody else took an owner away
    crossed     \* an overtaken request took an owner away

memberVars == <<member, letter, desk, overtaken, crossed>>

Stranger == [role |-> "none", gone |-> FALSE]
Unsent == [to |-> {}, role |-> "none", is |-> "unsent"]
NoRequest == [op |-> "idle"]

Belongs(p) == member[p].role # "none" /\ ~member[p].gone
Owners == {p \in People : Belongs(p) /\ member[p].role = "owner"}

\* create_business: who creates it is its owner.
MembershipInit ==
    /\ \E founder \in People :
          member = [p \in People |-> IF p = founder THEN [role |-> "owner", gone |-> FALSE] ELSE Stranger]
    /\ letter = [l \in Letters |-> Unsent]
    /\ desk = [d \in Desks |-> NoRequest]
    /\ overtaken = {} /\ crossed = FALSE

-----------------------------------------------------------------------------
(* What requests decide.  Every one but an acceptance is an owner's.       *)

\* Mutant: the owners are counted with those who left.
Spare_CountsGone(p) == p \in Owners => Cardinality({q \in People : member[q].role = "owner"}) > 1

\* The last owner is neither removed nor demoted.
Spare(p) == p \in Owners => Cardinality(Owners) > 1

\* An owner never removes their own row.
RemoveMember ==
    {[op |-> "remove", who |-> p] : p \in {q \in People : Belongs(q) /\ Spare(q) /\ Owners \ {q} # {}}}

UpdateMemberRole ==
    {[op |-> "role", who |-> w[1], was |-> member[w[1]].role, role |-> w[2]] :
        w \in {x \in People \X Roles :
                  /\ Owners # {} /\ Belongs(x[1])
                  /\ x[2] # "owner" => Spare(x[1])}}

AddMember ==
    {[op |-> "add", who |-> w[1], role |-> w[2]] :
        w \in {x \in People \X Roles : Owners # {} /\ ~Belongs(x[1])}}

Unused(p) == {l \in Letters : letter[l].to = {p} /\ letter[l].is \in {"open", "expired"}}

\* Two unused invitations to one address make the lookup itself fail.
InviteMember ==
    {[op |-> "invite", who |-> w[1], role |-> w[2]] :
        w \in {x \in People \X Roles :
                  /\ Owners # {} /\ ~Belongs(x[1])
                  /\ Cardinality(Unused(x[1])) <= 1
                  /\ \A l \in Unused(x[1]) : letter[l].is = "expired"}}

\* The invitation is for the caller's own address.
AcceptInvitation ==
    {[op |-> "accept", letter |-> l] :
        l \in {k \in Letters : letter[k].is = "open" /\ \A p \in letter[k].to : ~Belongs(p)}}

Decisions == RemoveMember \cup UpdateMemberRole \cup AddMember \cup InviteMember \cup AcceptInvitation

-----------------------------------------------------------------------------
(* What they write.                                                        *)

\* Soft-deleted rows keep the pair of user and business unique, so that who was
\* removed never joins again.
Join(p, role) ==
    /\ member[p] = Stranger
    /\ member' = [member EXCEPT ![p] = [role |-> role, gone |-> FALSE]]

WriteRemove(r) ==
    /\ r.op = "remove"
    /\ member' = [member EXCEPT ![r.who].gone = TRUE]
    /\ UNCHANGED letter

WriteRole(r) ==
    /\ r.op = "role"
    /\ member' = IF r.was = r.role THEN member ELSE [member EXCEPT ![r.who].role = r.role]
    /\ UNCHANGED letter

WriteAdd(r) == r.op = "add" /\ Join(r.who, r.role) /\ UNCHANGED letter

WriteInvite(r) ==
    /\ r.op = "invite"
    /\ \E l \in Letters :
          /\ letter[l] = Unsent
          /\ letter' = [letter EXCEPT ![l] = [to |-> {r.who}, role |-> r.role, is |-> "open"]]
    /\ UNCHANGED member

\* The audit event of an invitation can be written once.
WriteAccept(r) ==
    /\ r.op = "accept" /\ letter[r.letter].is # "used"
    /\ \E p \in letter[r.letter].to : Join(p, letter[r.letter].role)
    /\ letter' = [letter EXCEPT ![r.letter].is = "used"]

WriteMember(r) == WriteRemove(r) \/ WriteRole(r) \/ WriteAdd(r) \/ WriteInvite(r) \/ WriteAccept(r)

\* Who is under way when an owner goes has counted one too many.
Overtaking(ds) ==
    IF Owners \subseteq Owners' THEN UNCHANGED <<overtaken, crossed>>
    ELSE /\ overtaken' = {d \in Desks : desk'[d] # NoRequest}
         /\ crossed' = (crossed \/ ds \cap overtaken # {})

ServeMember == \E r \in Decisions : WriteMember(r) /\ UNCHANGED desk /\ Overtaking({})

BeginMember(d) ==
    /\ desk[d] = NoRequest
    /\ \E r \in Decisions : desk' = [desk EXCEPT ![d] = r]
    /\ overtaken' = overtaken \ {d}
    /\ UNCHANGED <<member, letter, crossed>>

Answer(d) == desk[d] # NoRequest /\ desk' = [desk EXCEPT ![d] = NoRequest]

CommitMember(d) == Answer(d) /\ WriteMember(desk[d]) /\ Overtaking({d})

\* A refused insert, two audit events in one second, a crash.
RollBackMember(d) == Answer(d) /\ UNCHANGED <<member, letter, overtaken, crossed>>

ExpireInvitation(l) ==
    /\ letter[l].is = "open"
    /\ letter' = [letter EXCEPT ![l].is = "expired"]
    /\ UNCHANGED <<member, desk, overtaken, crossed>>

MembershipNext ==
    \/ ServeMember
    \/ \E d \in Desks : BeginMember(d) \/ CommitMember(d) \/ RollBackMember(d)
    \/ \E l \in Letters : ExpireInvitation(l)

-----------------------------------------------------------------------------
\* The guard in remove_member and update_member_role: a business keeps an owner
\* through every order of removals, demotions and joins, unless the removals of
\* two owners overlapped.
OwnerRemains == crossed \/ Owners # {}
=============================================================================
