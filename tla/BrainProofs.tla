---------------------------- MODULE BrainProofs ----------------------------
(***************************************************************************)
(* Proofs about BrainVersions, for every number of versions and of         *)
(* requests that overtake one another, and every set of changes.           *)
(*                                                                         *)
(* A request writes what follows from rows that may have changed since it  *)
(* loaded them.  The inductive invariant therefore says, beside what the   *)
(* tables hold, what each loaded request still knows: which status the     *)
(* rows it loaded can have by now unless they were written from an         *)
(* outdated read or moved by /transition.                                  *)
(*                                                                         *)
(* And proofs about Quoting, for every list of rules, every service offer  *)
(* and every number of policies and editors: what the rules of a version   *)
(* let in and what they make of a price, which commercial policy governs   *)
(* the fee, and what is charged.  A sum is the number of its units, so     *)
(* that its order does not matter by a bijection; the greatest and the     *)
(* least of a set of numbers stand in for induction.                       *)
(***************************************************************************)
EXTENDS BrainVersions, Quoting, FiniteSetTheorems, NaturalsInduction, WellFoundedInduction, TLAPS

-----------------------------------------------------------------------------
(* The versions of a Brain and the proposals about them.                   *)

Excused == stale \cup manual

VersionStatus == {"draft", "validating", "review", "approved", "active", "superseded"}

\* What a request loaded, by the operation it is going to do.
Loaded(r) ==
    \/ r.op = "create" /\ r.next \in Nat /\ r.config \subseteq ConfigChanges
    \/ r.op = "edit" /\ r.v \in Existing /\ r.add \subseteq Changes /\ r.delete \subseteq Changes
    \/ r.op = "transition" /\ r.v \in Existing /\ r.to \in BRAIN_VERSION_TRANSITIONS(r.from)
    \/ r.op = "activate" /\ r.v \in Existing /\ r.from \in {"approved", "active"}
    \/ r.op = "accept" /\ r.p \in Proposals /\ r.v \in Existing \cup {0}
       /\ r.next \in Nat /\ r.config \subseteq ConfigChanges
    \/ r.op = "reject" /\ r.p \in Proposals

\* A version that was SUPERSEDED when an activation looked stays so, and the one
\* that was ACTIVE is so or SUPERSEDED, whatever others have committed since.
\* The pointer names an APPROVED version only where that is excused.
StillKnown(r) ==
    r.op = "activate" =>
        /\ r.pointer = r.v /\ r.v \notin Excused => r.from = "active"
        /\ \A u \in Versions \ Excused : u \in r.retired => status[u] = "superseded"
        /\ r.from = "active" /\ r.v \notin Excused => status[r.v] \in {"active", "superseded"}

RequestInv ==
    /\ DOMAIN request = Clients
    /\ \A c \in Clients : request[c] = Idle \/ (Loaded(request[c]) /\ StillKnown(request[c]))

\* A version number is the highest: Max is defined on what NextNumber asks it.
HighestExists == \E m \in {0} \cup {number[v] : v \in Existing} :
                    \A n \in {0} \cup {number[v] : v \in Existing} : m >= n

\* A proposal nobody has decided has not been applied.
UndecidedUnapplied == \A p \in Proposals \ stale : proposal[p] \in {"none", "pending"} => applied[p] = 0

\* A change was last written to a version that exists.
HomeExists == \A x \in Tracked : home[x] \in Existing \cup {0}

DataInv ==
    /\ TypeOK
    /\ HighestExists
    /\ HomeExists
    /\ PointerFollows
    /\ FrozenAfterReview
    /\ DecidedOnce
    /\ UndecidedUnapplied
    /\ NothingLost

IInv == DataInv /\ RequestInv

-----------------------------------------------------------------------------
\* The number a new version takes is a number.
LEMMA NextNumberIsNat ==
    ASSUME TypeOK, HighestExists
    PROVE  NextNumber \in Nat
  <1> DEFINE N == {0} \cup {number[v] : v \in Existing}
  <1>1. N \subseteq Nat
    BY DEF TypeOK, Existing
  <1>2. \E m \in N : \A n \in N : m >= n
    BY DEF HighestExists
  <1>3. Max(N) \in N
    BY <1>2 DEF Max
  <1> QED
    BY <1>1, <1>3 DEF NextNumber

\* The version a draft is stored as did not exist.
LEMMA FreshIsNew ==
    ASSUME Existing # Versions
    PROVE  Fresh \in Versions /\ Fresh \notin Existing /\ status[Fresh] = "absent"
  BY DEF Fresh, Existing

\* What a request loads is what the tables hold at that moment.
LEMMA LoadedNow ==
    ASSUME TypeOK, HighestExists, PointerFollows, NEW r \in Requests
    PROVE  Loaded(r) /\ StillKnown(r)
  <1> USE DEF Edit, Mutables
  <1>0. NextNumber \in Nat
    BY NextNumberIsNat
  <1>1. CASE r \in CreateVersion
    BY <1>0, <1>1 DEF CreateVersion, OwnConfigs, Loaded, StillKnown
  <1>2. CASE r \in UpdateVersionConfig
    BY <1>2 DEF UpdateVersionConfig, OwnConfigs, Loaded, StillKnown, Changes
  <1>3. CASE r \in AddRule
    BY <1>3 DEF AddRule, Loaded, StillKnown, Changes
  <1>4. CASE r \in UpdateRule
    BY <1>4 DEF UpdateRule, Kept, Loaded, StillKnown, Changes
  <1>5. CASE r \in DeleteRule
    BY <1>5 DEF DeleteRule, Kept, Loaded, StillKnown, Changes
  <1>6. CASE r \in TransitionVersion
    BY <1>6 DEF TransitionVersion, Loaded, StillKnown
  <1>7. CASE r \in ApproveVersion
    BY <1>7 DEF ApproveVersion, Loaded, StillKnown, Existing, BRAIN_VERSION_TRANSITIONS
  <1>8. CASE r \in ActivateVersion
    BY <1>8 DEF ActivateVersion, Loaded, StillKnown, Existing, PointerFollows, Excused
  <1>9. CASE r \in AcceptProposal
    <2>1. Drafts \subseteq Existing \cup {0}
      BY DEF Drafts, Existing
    <2>2. active \in Versions \cup {0} /\ content \in [Versions -> SUBSET Changes]
      BY DEF TypeOK
    <2> QED
      BY <1>0, <1>9, <2>1 DEF AcceptProposal, Loaded, StillKnown
  <1>10. CASE r \in RejectProposal
    BY <1>10 DEF RejectProposal, Loaded, StillKnown
  <1> QED
    BY <1>1, <1>2, <1>3, <1>4, <1>5, <1>6, <1>7, <1>8, <1>9, <1>10 DEF Requests

LEMMA InitIInv == Init => IInv
  <1> SUFFICES ASSUME Init PROVE IInv
    OBVIOUS
  <1>1. TypeOK
    BY DEF Init, TypeOK, Tracked
  <1>2. HighestExists
    BY DEF Init, HighestExists, Existing
  <1>3. HomeExists /\ PointerFollows /\ FrozenAfterReview /\ NothingLost
    BY DEF Init, HomeExists, PointerFollows, FrozenAfterReview, NothingLost, Versions
  <1>4. DecidedOnce /\ UndecidedUnapplied
    BY DEF Init, DecidedOnce, UndecidedUnapplied
  <1>5. RequestInv
    BY DEF Init, RequestInv
  <1> QED
    BY <1>1, <1>2, <1>3, <1>4, <1>5 DEF IInv, DataInv
-----------------------------------------------------------------------------
\* What the transition table allows.
LEMMA Transitions ==
    ASSUME NEW s, NEW t \in BRAIN_VERSION_TRANSITIONS(s)
    PROVE  /\ t \in VersionStatus
           /\ t = "approved" => s = "review"
           /\ t = "active" => s = "approved"
           /\ t = "superseded" <=> s = "active"
           /\ s \in VersionStatus \ {"superseded"}
  BY DEF BRAIN_VERSION_TRANSITIONS, VersionStatus

\* A new draft takes a version that did not exist, and leaves the others alone.
LEMMA NewDraftFacts ==
    ASSUME DataInv, NEW r, r.next \in Nat, NEW config \in SUBSET Changes, NewDraft(r, config)
    PROVE  /\ Fresh \in Versions /\ status[Fresh] = "absent"
           /\ \A v \in Versions \ {Fresh} : status'[v] = status[v] /\ content'[v] = content[v]
           /\ status'[Fresh] = "draft" /\ content'[Fresh] = config
           /\ status' \in [Versions -> VersionStatus \cup {"absent"}]
           /\ number' \in [Versions -> Nat]
           /\ content' \in [Versions -> SUBSET Changes]
           /\ Existing' = Existing \cup {Fresh}
           /\ HighestExists'
  <1> USE DEF NewDraft
  <1>1. Fresh \in Versions /\ Fresh \notin Existing /\ status[Fresh] = "absent"
    BY FreshIsNew
  <1>2. /\ status \in [Versions -> VersionStatus \cup {"absent"}]
        /\ number \in [Versions -> Nat]
        /\ content \in [Versions -> SUBSET Changes]
    BY DEF DataInv, TypeOK, VersionStatus
  <1>3. /\ \A v \in Versions \ {Fresh} : status'[v] = status[v] /\ content'[v] = content[v]
        /\ status'[Fresh] = "draft" /\ content'[Fresh] = config
        /\ status' \in [Versions -> VersionStatus \cup {"absent"}]
        /\ number' \in [Versions -> Nat]
        /\ content' \in [Versions -> SUBSET Changes]
    BY <1>1, <1>2 DEF VersionStatus
  <1>4. Existing' = Existing \cup {Fresh}
    BY <1>1, <1>3 DEF Existing
  <1>5. HighestExists'
    <2>1. PICK m \in {0} \cup {number[v] : v \in Existing} :
              \A n \in {0} \cup {number[v] : v \in Existing} : m >= n
      BY DEF DataInv, HighestExists
    <2>2. number'[Fresh] = r.next /\ \A v \in Existing : number'[v] = number[v]
      BY <1>1, <1>2 DEF Existing
    <2>3. m \in Nat
      BY <1>2, <2>1 DEF Existing
    <2>4. {0} \cup {number'[v] : v \in Existing'} = {0} \cup {number[v] : v \in Existing} \cup {r.next}
      BY <1>4, <2>2
    <2>5. CASE r.next > m
      <3>1. \A n \in {0} \cup {number'[v] : v \in Existing'} : r.next >= n
        BY <2>1, <2>3, <2>4, <2>5, <1>2 DEF Existing
      <3> QED
        BY <2>4, <3>1 DEF HighestExists
    <2>6. CASE ~(r.next > m)
      <3>1. \A n \in {0} \cup {number'[v] : v \in Existing'} : m >= n
        BY <2>1, <2>3, <2>4, <2>6, <1>2 DEF Existing
      <3> QED
        BY <2>1, <2>4, <3>1 DEF HighestExists
    <2> QED
      BY <2>5, <2>6
  <1> QED
    BY <1>1, <1>3, <1>4, <1>5

\* When no version is made and none disappears, the highest number stays.
LEMMA SameNumbers ==
    ASSUME HighestExists, UNCHANGED number, Existing' = Existing
    PROVE  HighestExists'
  BY DEF HighestExists
-----------------------------------------------------------------------------
(* What each write does to the tables.                                     *)

LEMMA CreateStep ==
    ASSUME DataInv, NEW r, Loaded(r), WriteCreate(r)
    PROVE  DataInv'
  <1> USE DEF WriteCreate, DataInv, TypeOK
  <1>1. r.next \in Nat /\ r.config \subseteq ConfigChanges
    BY DEF Loaded
  <1>2. /\ Fresh \in Versions /\ status[Fresh] = "absent"
        /\ \A v \in Versions \ {Fresh} : status'[v] = status[v] /\ content'[v] = content[v]
        /\ status'[Fresh] = "draft" /\ content'[Fresh] = r.config
        /\ status' \in [Versions -> VersionStatus \cup {"absent"}]
        /\ number' \in [Versions -> Nat]
        /\ content' \in [Versions -> SUBSET Changes]
        /\ Existing' = Existing \cup {Fresh}
        /\ HighestExists'
    BY <1>1, NewDraftFacts DEF Changes
  <1>3. \A x \in Tracked : home'[x] = IF x \in r.config THEN Fresh ELSE home[x]
    BY <1>2, <1>1 DEF Rehomed
  <1>4. TypeOK'
    BY <1>2, <1>3 DEF VersionStatus, Outnumbered, Rehomed
  <1>5. HomeExists' /\ NothingLost'
    <2>1. \A x \in Tracked : home[x] # Fresh
      BY <1>2 DEF HomeExists, Existing, Versions
    <2> QED
      BY <1>2, <1>3, <2>1 DEF HomeExists, NothingLost
  <1>6. PointerFollows'
    BY <1>2 DEF PointerFollows
  <1>7. FrozenAfterReview'
    BY <1>2 DEF FrozenAfterReview, Structured
  <1>8. DecidedOnce' /\ UndecidedUnapplied'
    BY DEF DecidedOnce, UndecidedUnapplied
  <1> QED
    BY <1>2, <1>4, <1>5, <1>6, <1>7, <1>8

LEMMA EditStep ==
    ASSUME DataInv, NEW r, Loaded(r), WriteEdit(r)
    PROVE  DataInv'
  <1> USE DEF WriteEdit, DataInv, TypeOK
  <1>1. r.v \in Versions /\ r.v \in Existing /\ r.add \subseteq Changes /\ r.delete \subseteq Changes
    BY DEF Loaded, Existing
  <1>2. content'[r.v] = (content[r.v] \ r.drop) \cup r.add
        /\ \A v \in Versions \ {r.v} : content'[v] = content[v]
    BY <1>1
  <1>3. \A x \in Tracked :
           home'[x] = IF x \in content'[r.v] \ content[r.v] THEN r.v
                      ELSE IF x \in content[r.v] \ content'[r.v] /\ home[x] = r.v THEN 0 ELSE home[x]
    BY DEF Rehomed
  <1>4. TypeOK'
    BY <1>1, <1>2, <1>3 DEF Rehomed
  <1>5. Existing' = Existing
    BY DEF Existing
  <1>6. HighestExists'
    BY <1>5, SameNumbers
  <1>7. HomeExists'
    BY <1>1, <1>3, <1>5 DEF HomeExists
  <1>8. NothingLost'
    BY <1>1, <1>2, <1>3 DEF NothingLost
  <1>9. PointerFollows'
    BY DEF PointerFollows
  <1>10. FrozenAfterReview'
    BY <1>1, <1>2 DEF FrozenAfterReview, Structured, Mutable
  <1>11. DecidedOnce' /\ UndecidedUnapplied'
    BY DEF DecidedOnce, UndecidedUnapplied
  <1> QED
    BY <1>4, <1>6, <1>7, <1>8, <1>9, <1>10, <1>11

LEMMA TransitionStep ==
    ASSUME DataInv, NEW r, Loaded(r), WriteTransition(r)
    PROVE  DataInv'
  <1> USE DEF WriteTransition, DataInv, TypeOK
  <1>1. r.v \in Versions /\ status[r.v] # "absent" /\ r.to \in BRAIN_VERSION_TRANSITIONS(r.from)
    BY DEF Loaded, Existing
  <1>2. r.to \in VersionStatus
    BY <1>1, Transitions
  <1>3. status'[r.v] = r.to /\ \A v \in Versions \ {r.v} : status'[v] = status[v]
    BY <1>1
  <1>4. r.v \notin stale' =>
           r.to \in BRAIN_VERSION_TRANSITIONS(status[r.v]) /\ (r.to = "review" => Structured(r.v))
    BY <1>1
  <1>5. /\ r.to = "review" => reviewed'[r.v] = content[r.v]
        /\ r.to \notin {"review", "draft"} => reviewed'[r.v] = reviewed[r.v]
        /\ \A v \in Versions \ {r.v} : reviewed'[v] = reviewed[v]
        /\ reviewed' \in [Versions -> SUBSET Changes]
    BY <1>1
  <1>6. TypeOK'
    BY <1>1, <1>2, <1>5 DEF VersionStatus
  <1>7. Existing' = Existing
    BY <1>1, <1>2, <1>3 DEF Existing, VersionStatus
  <1>8. HighestExists' /\ HomeExists' /\ NothingLost'
    BY <1>7, SameNumbers DEF HomeExists, NothingLost
  <1>9. PointerFollows'
    <2>1. ASSUME NEW v \in Versions, v \notin stale', v \notin manual'
          PROVE  status'[v] = "active" <=> active = v
      <3>1. CASE v # r.v
        BY <1>3, <2>1, <3>1 DEF PointerFollows
      <3>2. CASE v = r.v
        <4>1. r.to # "active" /\ r.from # "active"
          BY <2>1, <3>2
        <4>2. r.to # "superseded"
          BY <1>1, <4>1, Transitions
        <4>3. status[r.v] # "active"
          BY <1>4, <2>1, <3>2, <4>2, Transitions
        <4> QED
          BY <1>3, <2>1, <3>2, <4>1, <4>3 DEF PointerFollows
      <3> QED
        BY <3>1, <3>2
    <2> QED
      BY <2>1 DEF PointerFollows
  <1>10. FrozenAfterReview'
    <2>1. ASSUME NEW v \in Versions, v \notin stale',
                 status'[v] \in {"review", "approved", "active", "superseded"}
          PROVE  content[v] = reviewed'[v] /\ Structured(v)
      <3>1. CASE v # r.v
        BY <1>3, <1>5, <2>1, <3>1 DEF FrozenAfterReview
      <3>2. CASE v = r.v /\ r.to = "review"
        BY <1>4, <1>5, <2>1, <3>2
      <3>3. CASE v = r.v /\ r.to # "review"
        <4>1. status[v] \in {"review", "approved", "active"} /\ r.to # "draft"
          BY <1>3, <1>4, <2>1, <3>3, Transitions
        <4> QED
          BY <1>5, <2>1, <3>3, <4>1 DEF FrozenAfterReview
      <3> QED
        BY <3>1, <3>2, <3>3
    <2> QED
      BY <2>1 DEF FrozenAfterReview, Structured
  <1>11. DecidedOnce' /\ UndecidedUnapplied'
    BY DEF DecidedOnce, UndecidedUnapplied
  <1> QED
    BY <1>6, <1>8, <1>9, <1>10, <1>11

LEMMA ActivateStep ==
    ASSUME DataInv, NEW r, Loaded(r), StillKnown(r), WriteActivate(r)
    PROVE  DataInv'
  <1> USE DEF WriteActivate, DataInv, TypeOK
  <1>1. r.v \in Versions /\ status[r.v] # "absent" /\ r.from \in {"approved", "active"}
    BY DEF Loaded, Existing
  <1>2. /\ status'[r.v] = IF r.from = "approved" THEN "active" ELSE status[r.v]
        /\ \A v \in Versions \ {r.v} :
              status'[v] = IF status[v] = "active" /\ v \notin r.retired THEN "superseded" ELSE status[v]
        /\ status' \in [Versions -> VersionStatus \cup {"absent"}]
    BY <1>1 DEF Superseding, VersionStatus
  <1>3. /\ r.v \notin stale' => status[r.v] \in {"approved", "active"} \/ (r.from = "active" /\ r.pointer = r.v)
        /\ r.pointer = r.v => active \in {0, r.v} \cup stale'
        /\ stale \subseteq stale' /\ stale' \subseteq Versions \cup Proposals
    BY <1>1 DEF Overtaken
  <1>4. TypeOK'
    BY <1>1, <1>2, <1>3 DEF VersionStatus
  <1>5. Existing' = Existing
    BY <1>1, <1>2 DEF Existing
  <1>6. HighestExists' /\ HomeExists' /\ NothingLost'
    BY <1>5, SameNumbers DEF HomeExists, NothingLost
  <1>7. PointerFollows'
    <2>1. ASSUME NEW v \in Versions, v \notin stale', v \notin manual
          PROVE  status'[v] = "active" <=> active' = v
      <3>1. CASE v = r.v
        BY <1>1, <1>2, <1>3, <2>1, <3>1 DEF PointerFollows, StillKnown, Excused
      <3>2. CASE v # r.v
        <4>1. status'[v] # "active"
          BY <1>2, <1>3, <2>1, <3>2 DEF StillKnown, Excused
        <4>2. active' # v
          BY <1>3, <2>1, <3>2 DEF Versions
        <4> QED
          BY <4>1, <4>2
      <3> QED
        BY <3>1, <3>2
    <2> QED
      BY <2>1 DEF PointerFollows
  <1>8. FrozenAfterReview'
    BY <1>1, <1>2, <1>3 DEF FrozenAfterReview, Structured
  <1>9. DecidedOnce' /\ UndecidedUnapplied'
    BY DEF DecidedOnce, UndecidedUnapplied
  <1> QED
    BY <1>4, <1>6, <1>7, <1>8, <1>9
\* A proposal applied to a draft whose configuration was read in time adds to it.
LEMMA AppliedKeeps ==
    ASSUME NEW r, NEW old \in SUBSET Changes, r.p \in Proposals, r.config \subseteq ConfigChanges
    PROVE  /\ Applied(old, r) \in SUBSET Changes
           /\ Applied(r.config, r) = r.config \cup {r.p}
           /\ r.p \in RuleChanges \/ r.config = old \cap ConfigChanges =>
                 Applied(old, r) = old \cup {r.p}
  BY BrainAssumption DEF Applied, Changes

LEMMA AcceptStep ==
    ASSUME DataInv, NEW r, Loaded(r), WriteAccept(r)
    PROVE  DataInv'
  <1> USE DEF DataInv, TypeOK
  <1> DEFINE v == IF r.v = 0 THEN Fresh ELSE r.v
             outdated == \/ status[v] # "draft"
                         \/ r.p \in ConfigChanges /\ r.config # content[v] \cap ConfigChanges
  <1>1. /\ r.p \in Proposals /\ r.p \in Tracked /\ r.next \in Nat
        /\ r.config \subseteq ConfigChanges /\ r.config \in SUBSET Changes
        /\ r.v \in Existing \cup {0}
    BY DEF WriteAccept, Loaded, Tracked, Changes
  <1>2. PICK ok \in BOOLEAN :
           /\ IF r.v = 0
              THEN /\ NewDraft(r, IF ok THEN Applied(r.config, r) ELSE r.config)
                   /\ home' = Rehomed(v, {}, content'[v])
                   /\ UNCHANGED deleted
              ELSE /\ content' = IF ok THEN [content EXCEPT ![v] = Applied(@, r)] ELSE content
                   /\ home' = IF ok THEN [home EXCEPT ![r.p] = v] ELSE home
                   /\ deleted' = IF ok THEN [deleted EXCEPT ![v] = @ \ {r.p}] ELSE deleted
                   /\ UNCHANGED <<status, number>>
           /\ proposal' = [proposal EXCEPT ![r.p] = IF ok THEN "applied" ELSE "approved"]
           /\ applied' = IF ok THEN [applied EXCEPT ![r.p] = IF @ = 0 THEN 1 ELSE 2] ELSE applied
    BY DEF WriteAccept
  <1>3. /\ stale' = stale \cup (IF Decidable(r.p) THEN {} ELSE {r.p})
                          \cup (IF r.v = 0 THEN Outnumbered(r) ELSE IF outdated THEN {v} ELSE {})
        /\ UNCHANGED <<active, reviewed, manual>>
    BY DEF WriteAccept
  <1>4. proposal' \in [Proposals -> {"none", "pending", "approved", "applied", "rejected"}]
        /\ applied' \in [Proposals -> 0..2]
    BY <1>1, <1>2
  <1>5. DecidedOnce' /\ UndecidedUnapplied'
    BY <1>1, <1>2, <1>3 DEF DecidedOnce, UndecidedUnapplied, Decidable
  <1>6. CASE r.v = 0
    <2> DEFINE config == IF ok THEN Applied(r.config, r) ELSE r.config
    <2>1. config \in SUBSET Changes
      BY <1>1, AppliedKeeps
    <2>2. NewDraft(r, config) /\ v = Fresh
      BY <1>2, <1>6
    <2> HIDE DEF config
    <2>3. /\ Fresh \in Versions /\ status[Fresh] = "absent"
          /\ \A u \in Versions \ {Fresh} : status'[u] = status[u] /\ content'[u] = content[u]
          /\ status'[Fresh] = "draft" /\ content'[Fresh] = config
          /\ status' \in [Versions -> VersionStatus \cup {"absent"}]
          /\ number' \in [Versions -> Nat]
          /\ content' \in [Versions -> SUBSET Changes]
          /\ Existing' = Existing \cup {Fresh}
          /\ HighestExists'
      BY <1>1, <2>1, <2>2, NewDraftFacts
    <2>4. \A x \in Tracked : home'[x] = IF x \in config THEN Fresh ELSE home[x]
      BY <1>2, <1>6, <2>2, <2>3 DEF Rehomed
    <2>5. home' \in [Tracked -> Versions \cup {0}]
      BY <1>2, <1>6, <2>2, <2>3 DEF Rehomed
    <2>6. stale' \subseteq Versions \cup Proposals
      BY <1>1, <1>3, <1>6, <2>3 DEF Outnumbered
    <2>7. TypeOK'
      BY <1>2, <1>3, <1>4, <1>6, <2>3, <2>5, <2>6 DEF VersionStatus
    <2>8. HomeExists' /\ NothingLost'
      <3>1. \A x \in Tracked : home[x] # Fresh
        BY <2>3 DEF HomeExists, Existing, Versions
      <3> QED
        BY <1>3, <2>3, <2>4, <3>1 DEF HomeExists, NothingLost
    <2>9. PointerFollows' /\ FrozenAfterReview'
      BY <1>3, <2>3 DEF PointerFollows, FrozenAfterReview, Structured
    <2> QED
      BY <1>5, <2>3, <2>7, <2>8, <2>9
  <1>7. CASE r.v # 0
    <2>1. v = r.v /\ r.v \in Versions /\ r.v \in Existing
      BY <1>1, <1>7 DEF Existing
    <2>2. UNCHANGED <<status, number>> /\ Existing' = Existing
      BY <1>2, <1>7 DEF Existing
    <2>3. /\ Applied(content[r.v], r) \in SUBSET Changes
          /\ r.p \in RuleChanges \/ r.config = content[r.v] \cap ConfigChanges =>
                Applied(content[r.v], r) = content[r.v] \cup {r.p}
      BY <1>1, <2>1, AppliedKeeps
    <2>4. content' = (IF ok THEN [content EXCEPT ![r.v] = Applied(content[r.v], r)] ELSE content)
          /\ home' = IF ok THEN [home EXCEPT ![r.p] = r.v] ELSE home
      BY <1>2, <1>7, <2>1
    <2>5. r.v \notin stale' =>
             /\ status[r.v] = "draft"
             /\ r.p \in ConfigChanges => r.config = content[r.v] \cap ConfigChanges
      BY <1>3, <1>7, <2>1
    <2>6. stale \subseteq stale' /\ stale' \subseteq Versions \cup Proposals
      BY <1>1, <1>3, <1>7, <2>1
    <2> deleted' \in [Versions -> SUBSET Changes]
      BY <1>2, <1>7, <2>1
    <2>7. TypeOK'
      BY <1>1, <1>3, <1>4, <2>1, <2>2, <2>3, <2>4, <2>6
    <2>8. HighestExists'
      BY <2>2, SameNumbers
    <2>9. HomeExists'
      BY <1>1, <2>1, <2>2, <2>4 DEF HomeExists
    <2>10. NothingLost'
      <3>1. r.p \in RuleChanges \/ r.p \in ConfigChanges
        BY <1>1, BrainAssumption
      <3>2. r.v \notin stale' /\ ok => content'[r.v] = content[r.v] \cup {r.p}
        BY <2>1, <2>3, <2>4, <2>5, <3>1
      <3>3. \A u \in Versions \ {r.v} : content'[u] = content[u]
        BY <2>4
      <3> HIDE DEF TypeOK
      <3>4. ASSUME NEW x \in Tracked, home'[x] \notin stale' \cup {0}
            PROVE  x \in content'[home'[x]]
        <4>1. home[x] \in Versions \cup {0} /\ home'[x] = IF ok /\ x = r.p THEN r.v ELSE home[x]
          BY <1>1, <2>4 DEF TypeOK
        <4>2. CASE ok
          BY <2>6, <3>2, <3>3, <3>4, <4>1, <4>2 DEF NothingLost
        <4>3. CASE ~ok
          BY <2>4, <2>6, <3>4, <4>1, <4>3 DEF NothingLost
        <4> QED
          BY <4>2, <4>3
      <3> QED
        BY <3>4 DEF NothingLost
    <2>11. PointerFollows'
      BY <1>3, <2>2, <2>6 DEF PointerFollows
    <2>12. FrozenAfterReview'
      BY <1>3, <2>1, <2>2, <2>4, <2>5, <2>6 DEF FrozenAfterReview, Structured
    <2> QED
      BY <1>5, <2>7, <2>8, <2>9, <2>10, <2>11, <2>12
  <1> QED
    BY <1>6, <1>7

LEMMA RejectStep ==
    ASSUME DataInv, NEW r, Loaded(r), WriteReject(r)
    PROVE  DataInv'
  <1> USE DEF WriteReject, DataInv, TypeOK
  <1>1. r.p \in Proposals
    BY DEF Loaded
  <1>2. Existing' = Existing
    BY DEF Existing
  <1>3. TypeOK'
    BY <1>1
  <1>4. HighestExists' /\ HomeExists' /\ NothingLost'
    BY <1>2, SameNumbers DEF HomeExists, NothingLost
  <1>5. PointerFollows' /\ FrozenAfterReview'
    BY DEF PointerFollows, FrozenAfterReview, Structured
  <1>6. DecidedOnce' /\ UndecidedUnapplied'
    BY <1>1 DEF DecidedOnce, UndecidedUnapplied, Decidable
  <1> QED
    BY <1>3, <1>4, <1>5, <1>6

LEMMA WriteStep ==
    ASSUME DataInv, NEW r, Loaded(r), StillKnown(r), Write(r)
    PROVE  DataInv'
  BY CreateStep, EditStep, TransitionStep, ActivateStep, AcceptStep, RejectStep DEF Write

-----------------------------------------------------------------------------
\* Nothing that was excused becomes inexcusable, no version disappears, and one
\* that is not excused leaves ACTIVE for SUPERSEDED only, and SUPERSEDED never.
LEMMA WhatMoves ==
    ASSUME DataInv, NEW r, Loaded(r), Write(r)
    PROVE  /\ Excused \subseteq Excused'
           /\ Existing \subseteq Existing'
           /\ \A u \in Versions \ Excused' :
                 /\ status[u] = "superseded" => status'[u] = "superseded"
                 /\ status[u] = "active" => status'[u] \in {"active", "superseded"}
  <1> USE DEF Excused, Existing
  <1>1. status \in [Versions -> VersionStatus \cup {"absent"}]
    BY DEF DataInv, TypeOK, VersionStatus
  <1>2. CASE WriteCreate(r)
    BY <1>1, <1>2, FreshIsNew DEF WriteCreate, NewDraft
  <1>3. CASE WriteEdit(r) \/ WriteReject(r)
    BY <1>3 DEF WriteEdit, WriteReject
  <1>4. CASE WriteTransition(r)
    <2>1. r.v \in Versions /\ r.to \in BRAIN_VERSION_TRANSITIONS(r.from)
      BY <1>4 DEF WriteTransition, Loaded
    <2>2. status' = [status EXCEPT ![r.v] = r.to] /\ r.to # "absent"
      BY <1>4, <2>1, Transitions DEF WriteTransition, VersionStatus
    <2>3. Excused \subseteq Excused'
      BY <1>4 DEF WriteTransition
    <2>4. r.v \notin Excused' => r.to \in BRAIN_VERSION_TRANSITIONS(status[r.v])
      BY <1>4 DEF WriteTransition
    <2>5. r.v \notin Excused' => status[r.v] # "superseded" /\ (status[r.v] = "active" => r.to = "superseded")
      BY <2>4, Transitions
    <2> QED
      BY <1>1, <2>1, <2>2, <2>3, <2>5
  <1>5. CASE WriteActivate(r)
    <2>1. r.v \in Existing /\ r.from \in {"approved", "active"}
      BY <1>5 DEF WriteActivate, Loaded
    <2>2. /\ status'[r.v] = IF r.from = "approved" THEN "active" ELSE status[r.v]
          /\ \A v \in Versions \ {r.v} : status'[v] \in {status[v], "superseded"}
          /\ \A v \in Versions \ {r.v} : status'[v] # status[v] => status[v] = "active"
      BY <1>1, <1>5, <2>1 DEF WriteActivate, Superseding
    <2>3. Excused \subseteq Excused'
      BY <1>5 DEF WriteActivate
    <2>4. r.v \notin Excused' /\ r.from = "approved" => status[r.v] \in {"approved", "active"}
      BY <1>5 DEF WriteActivate, Overtaken
    <2>5. Existing \subseteq Existing'
      BY <2>1, <2>2
    <2>6. ASSUME NEW u \in Versions \ Excused'
          PROVE  /\ status[u] = "superseded" => status'[u] = "superseded"
                 /\ status[u] = "active" => status'[u] \in {"active", "superseded"}
      <3> HIDE DEF Excused
      <3>1. CASE u = r.v
        BY <2>1, <2>2, <2>4, <2>6, <3>1
      <3>2. CASE u # r.v
        BY <2>2, <2>6, <3>2
      <3> QED
        BY <3>1, <3>2
    <2> QED
      BY <2>3, <2>5, <2>6
  <1>6. CASE WriteAccept(r)
    <2>1. r.v \in Existing \cup {0} /\ Excused \subseteq Excused'
      BY <1>6 DEF WriteAccept, Loaded
    <2>2. status' = status \/ (Existing # Versions /\ status' = [status EXCEPT ![Fresh] = "draft"])
      BY <1>6 DEF WriteAccept, NewDraft
    <2> QED
      BY <1>1, <2>1, <2>2, FreshIsNew
  <1> QED
    BY <1>2, <1>3, <1>4, <1>5, <1>6 DEF Write

\* What a request loaded stays true of the tables while others write.
LEMMA OvertakenStep ==
    ASSUME DataInv, NEW r, Loaded(r), Write(r), NEW q, Loaded(q), StillKnown(q)
    PROVE  Loaded(q)' /\ StillKnown(q)'
  <1>1. /\ Excused \subseteq Excused'
        /\ Existing \subseteq Existing'
        /\ \A u \in Versions \ Excused' :
              /\ status[u] = "superseded" => status'[u] = "superseded"
              /\ status[u] = "active" => status'[u] \in {"active", "superseded"}
    BY WhatMoves
  <1>2. Loaded(q)'
    BY <1>1 DEF Loaded
  <1>3. q.op = "activate" => q.v \in Versions
    BY DEF Loaded, Existing
  <1> QED
    BY <1>1, <1>2, <1>3 DEF StillKnown

LEMMA InductiveStep == IInv /\ [Next]_vars => IInv'
  <1> SUFFICES ASSUME IInv, [Next]_vars PROVE IInv'
    OBVIOUS
  <1>1. DataInv /\ TypeOK /\ HighestExists /\ PointerFollows /\ RequestInv
    BY DEF IInv, DataInv
  <1>2. ASSUME NEW r, Loaded(r), StillKnown(r), Write(r),
               DOMAIN request' = Clients, \A c \in Clients : request'[c] \in {request[c], Idle}
        PROVE  IInv'
    <2>1. DataInv'
      BY <1>1, <1>2, WriteStep
    <2>2. ASSUME NEW c \in Clients, request'[c] # Idle
          PROVE  (Loaded(request[c]) /\ StillKnown(request[c]))'
      <3>1. PICK q : q = request[c]
        OBVIOUS
      <3>2. Loaded(q) /\ StillKnown(q) /\ request'[c] = q
        BY <1>1, <1>2, <2>2, <3>1 DEF RequestInv
      <3>3. Loaded(q)' /\ StillKnown(q)'
        BY <1>1, <1>2, <3>2, OvertakenStep
      <3> QED
        BY <3>2, <3>3 DEF Loaded, StillKnown
    <2>3. RequestInv'
      BY <1>2, <2>2 DEF RequestInv
    <2> QED
      BY <2>1, <2>3 DEF IInv
  <1>3. CASE Serve
    <2>1. PICK r \in Requests : Write(r) /\ UNCHANGED request
      BY <1>3 DEF Serve
    <2>2. Loaded(r) /\ StillKnown(r)
      BY <1>1, LoadedNow
    <2>3. DOMAIN request' = Clients /\ \A c \in Clients : request'[c] \in {request[c], Idle}
      BY <1>1, <2>1 DEF RequestInv
    <2> QED
      BY <1>2, <2>1, <2>2, <2>3
  <1>4. ASSUME UNCHANGED <<status, number, content, deleted, active, reviewed, applied, home, stale, manual>>,
               \/ UNCHANGED proposal
               \/ \E p \in Proposals : proposal[p] = "none" /\ proposal' = [proposal EXCEPT ![p] = "pending"]
        PROVE  /\ DataInv'
               /\ \A r : Loaded(r) /\ StillKnown(r) => Loaded(r)' /\ StillKnown(r)'
    <2>1. TypeOK'
      BY <1>1, <1>4 DEF TypeOK
    <2>2. HighestExists' /\ HomeExists' /\ PointerFollows' /\ FrozenAfterReview' /\ NothingLost'
      BY <1>1, <1>4 DEF DataInv, HighestExists, HomeExists, PointerFollows, FrozenAfterReview, NothingLost,
                        Structured, Existing
    <2>3. DecidedOnce' /\ UndecidedUnapplied'
      BY <1>1, <1>4 DEF DataInv, TypeOK, DecidedOnce, UndecidedUnapplied
    <2>4. \A r : Loaded(r) /\ StillKnown(r) => Loaded(r)' /\ StillKnown(r)'
      BY <1>4 DEF Loaded, StillKnown, Existing, Excused
    <2> QED
      BY <2>1, <2>2, <2>3, <2>4 DEF DataInv
  <1>5. ASSUME NEW c \in Clients, Begin(c) PROVE IInv'
    <2>1. PICK r \in Requests : request' = [request EXCEPT ![c] = r]
      BY <1>5 DEF Begin
    <2>2. Loaded(r) /\ StillKnown(r)
      BY <1>1, LoadedNow
    <2>3. UNCHANGED <<status, number, content, deleted, active, proposal, reviewed, applied, home, stale, manual>>
      BY <1>5 DEF Begin
    <2>4. DataInv' /\ \A q : Loaded(q) /\ StillKnown(q) => Loaded(q)' /\ StillKnown(q)'
      BY <1>4, <2>3
    <2>5. DOMAIN request' = Clients /\ \A d \in Clients : request'[d] = IF d = c THEN r ELSE request[d]
      BY <1>1, <2>1 DEF RequestInv
    <2>6. ASSUME NEW d \in Clients, request'[d] # Idle
          PROVE  (Loaded(request[d]) /\ StillKnown(request[d]))'
      <3>1. PICK q : q = request'[d]
        OBVIOUS
      <3>2. Loaded(q)' /\ StillKnown(q)'
        BY <1>1, <2>2, <2>4, <2>5, <2>6, <3>1 DEF RequestInv
      <3> QED
        BY <3>1, <3>2 DEF Loaded, StillKnown
    <2> QED
      BY <2>4, <2>5, <2>6 DEF IInv, RequestInv
  <1>6. ASSUME NEW c \in Clients, Answered(c)
        PROVE  DOMAIN request' = Clients /\ \A d \in Clients : request'[d] \in {request[d], Idle}
    BY <1>1, <1>6 DEF Answered, RequestInv
  <1>7. ASSUME NEW c \in Clients, Commit(c) PROVE IInv'
    <2>1. PICK r : r = request[c]
      OBVIOUS
    <2>2. Loaded(r) /\ StillKnown(r) /\ Write(r)
      BY <1>1, <1>7, <2>1 DEF Commit, Answered, RequestInv
    <2> QED
      BY <1>2, <1>6, <1>7, <2>2 DEF Commit
  <1>8. ASSUME UNCHANGED <<status, number, content, deleted, active, reviewed, applied, home, stale, manual>>,
               \/ UNCHANGED proposal
               \/ \E p \in Proposals : proposal[p] = "none" /\ proposal' = [proposal EXCEPT ![p] = "pending"],
               DOMAIN request' = Clients, \A d \in Clients : request'[d] \in {request[d], Idle}
        PROVE  IInv'
    <2>1. DataInv' /\ \A q : Loaded(q) /\ StillKnown(q) => Loaded(q)' /\ StillKnown(q)'
      BY <1>4, <1>8
    <2>2. ASSUME NEW d \in Clients, request'[d] # Idle
          PROVE  (Loaded(request[d]) /\ StillKnown(request[d]))'
      <3>1. PICK q : q = request[d]
        OBVIOUS
      <3>2. Loaded(q)' /\ StillKnown(q)' /\ request'[d] = q
        BY <1>1, <1>8, <2>1, <2>2, <3>1 DEF RequestInv
      <3> QED
        BY <3>2 DEF Loaded, StillKnown
    <2> QED
      BY <1>8, <2>1, <2>2 DEF IInv, RequestInv
  <1>9. ASSUME NEW c \in Clients, RollBack(c) PROVE IInv'
    BY <1>6, <1>8, <1>9 DEF RollBack
  <1>10. ASSUME NEW p \in Proposals, Propose(p) PROVE IInv'
    BY <1>1, <1>8, <1>10 DEF Propose, RequestInv
  <1>11. CASE UNCHANGED vars
    BY <1>1, <1>8, <1>11 DEF vars, RequestInv
  <1> QED
    BY <1>3, <1>5, <1>7, <1>9, <1>10, <1>11 DEF Next

-----------------------------------------------------------------------------
\* The invariant every theorem below rests on.
LEMMA InvariantHolds == Spec => []IInv
  BY InitIInv, InductiveStep, PTL DEF Spec

\* Versions, proposals and the pointer keep the values their columns allow,
\* however many requests overtake one another (BrainVersion, BrainProposal).
THEOREM TypeCorrect == Spec => []TypeOK
  <1>1. IInv => TypeOK
    BY DEF IInv, DataInv
  <1> QED
    BY <1>1, InvariantHolds, PTL

\* The brain points to its ACTIVE version, through any number of overlapping
\* activations (activate_version), for every version that was neither moved by
\* /transition nor written from an outdated row.
THEOREM PointerAgrees == Spec => []PointerFollows
  <1>1. IInv => PointerFollows
    BY DEF IInv, DataInv
  <1> QED
    BY <1>1, InvariantHolds, PTL

\* What governs is what was reviewed, and it is valid (_ensure_mutable,
\* validate_brain_version_full), for every version written from current rows.
THEOREM ReviewedGoverns == Spec => []FrozenAfterReview
  <1>1. IInv => FrozenAfterReview
    BY DEF IInv, DataInv
  <1> QED
    BY <1>1, InvariantHolds, PTL

\* A proposal is applied once at most, and never when it was rejected
\* (approve_proposal, reject_proposal), unless two decisions on it overlapped;
\* and no proposal applied later takes out what was written to a version before
\* (the merge in _apply_proposal_to_brain), unless it had read an older row.
THEOREM DecisionsStand == Spec => []OnceAndForGood
  <1>1. IInv => OnceAndForGood
    BY DEF IInv, DataInv, OnceAndForGood
  <1> QED
    BY <1>1, InvariantHolds, PTL

-----------------------------------------------------------------------------
(* Numbers.                                                                *)

\* A set of natural numbers has a least element: the form of induction that
\* needs no predicate for a parameter.
LEMMA LeastNumber ==
    ASSUME NEW T \in SUBSET Nat, T # {}
    PROVE  \E m \in T : \A n \in T : m <= n
  <1> DEFINE R == OpToRel(<, Nat)
  <1>1. \A m, n \in Nat : m < n => <<m, n>> \in R
    BY DEF OpToRel
  <1>2. IsWellFoundedOn(R, Nat)
    BY NatLessThanWellFounded
  <1> HIDE DEF R
  <1>3. PICK x \in T : \A y \in T : ~(<<y, x>> \in R)
    BY <1>2, WFMin
  <1>4. \A y \in T : ~(y < x)
    BY <1>1, <1>3
  <1>5. \A y \in T : x <= y
    BY <1>4
  <1> QED
    BY <1>5

LEMMA GreatestNumber ==
    ASSUME NEW n \in Nat, NEW S \in SUBSET (1..n), S # {}
    PROVE  \E m \in S : \A j \in S : j <= m
  <1> DEFINE Distances == {k \in Nat : \E i \in S : k = n - i}
  <1>1. PICK i \in S : TRUE
    OBVIOUS
  <1>2. n - i \in Distances
    BY <1>1
  <1>3. PICK k \in Distances : \A l \in Distances : k <= l
    BY <1>2, LeastNumber
  <1>4. PICK m \in S : k = n - m
    BY <1>3
  <1>5. ASSUME NEW j \in S PROVE j <= m
    <2>1. n - j \in Distances
      BY <1>5
    <2>2. n - m <= n - j
      BY <1>3, <1>4, <2>1
    <2> QED
      BY <1>4, <1>5, <2>2
  <1> QED
    BY <1>5

-----------------------------------------------------------------------------
(* What the rules of a Brain version decide.                               *)

\* What is left of a list of rules is its rules.
LEMMA Remaining ==
    ASSUME NEW rules \in Seq(Rule), NEW i \in DOMAIN rules
    PROVE  \A j \in DOMAIN RemoveAt(rules, i) :
              \E k \in DOMAIN rules : RemoveAt(rules, i)[j] = rules[k]
  <1>1. PICK n : n = Len(rules) /\ n \in Nat /\ DOMAIN rules = 1..n
    OBVIOUS
  <1>2. PICK A : A = SubSeq(rules, 1, i - 1)
    OBVIOUS
  <1>3. PICK B : B = SubSeq(rules, i + 1, n)
    OBVIOUS
  <1>4. A \in Seq(Rule) /\ Len(A) = i - 1 /\ \A j \in 1..(i - 1) : A[j] = rules[j]
    BY <1>1, <1>2
  <1>5. B \in Seq(Rule) /\ Len(B) = n - i /\ \A j \in 1..(n - i) : B[j] = rules[i + j]
    BY <1>1, <1>3
  <1>6. RemoveAt(rules, i) = A \o B
    BY <1>1, <1>2, <1>3 DEF RemoveAt
  <1>7. ASSUME NEW j \in 1..(n - 1) PROVE \E k \in DOMAIN rules : (A \o B)[j] = rules[k]
    <2>1. CASE j <= i - 1
      <3>1. (A \o B)[j] = A[j]
        BY <1>1, <1>4, <1>5, <2>1
      <3> QED
        BY <1>1, <1>4, <2>1, <3>1
    <2>2. CASE j > i - 1
      <3>1. (A \o B)[j] = B[j - (i - 1)]
        BY <1>1, <1>4, <1>5, <2>2
      <3>2. j - (i - 1) \in 1..(n - i)
        BY <1>1, <2>2
      <3>3. B[j - (i - 1)] = rules[j + 1]
        BY <1>1, <1>5, <3>2
      <3> QED
        BY <1>1, <2>2, <3>1, <3>3
    <2>3. j <= i - 1 \/ j > i - 1
      BY <1>1
    <2> QED
      BY <2>1, <2>2, <2>3
  <1>8. DOMAIN (A \o B) = 1..(n - 1)
    BY <1>1, <1>4, <1>5
  <1> QED
    BY <1>6, <1>7, <1>8

\* What an enquiry that is let in says of each rule.
Harmless(rule, context) ==
    rule.active => /\ Missing(rule, context) = {}
                   /\ Matches(rule, context) => rule.outcome \notin {"deny", "escalate", "require_approval"}

LEMMA AllowedIsHarmless ==
    ASSUME NEW rules, NEW context, EnquiryAllowed(rules, context)
    PROVE  \A i \in DOMAIN rules : Harmless(rules[i], context)
  <1>1. PICK outcomes : outcomes = {rules[i].outcome : i \in Matched(rules, context)}
    OBVIOUS
  <1>2. Decision(rules, context) = "ALLOW"
    BY DEF EnquiryAllowed
  <1>3. /\ "deny" \notin outcomes /\ "escalate" \notin outcomes /\ "require_approval" \notin outcomes
        /\ RequiredInformation(rules, context) = {}
    BY <1>1, <1>2 DEF Decision
  <1>4. ASSUME NEW i \in DOMAIN rules, rules[i].active PROVE Missing(rules[i], context) = {}
    BY <1>3, <1>4 DEF RequiredInformation
  <1>5. ASSUME NEW i \in DOMAIN rules, rules[i].active, Matches(rules[i], context)
        PROVE  rules[i].outcome \in outcomes
    BY <1>1, <1>4, <1>5 DEF Matched
  <1> QED
    BY <1>3, <1>4, <1>5 DEF Harmless

LEMMA HarmlessIsAllowed ==
    ASSUME NEW rules, NEW context, \A i \in DOMAIN rules : Harmless(rules[i], context)
    PROVE  EnquiryAllowed(rules, context)
  <1>1. PICK outcomes : outcomes = {rules[i].outcome : i \in Matched(rules, context)}
    OBVIOUS
  <1>2. \A i \in Matched(rules, context) : rules[i].outcome \notin {"deny", "escalate", "require_approval"}
    BY DEF Matched, Harmless
  <1>3. "deny" \notin outcomes /\ "escalate" \notin outcomes /\ "require_approval" \notin outcomes
    BY <1>1, <1>2
  <1>4. Conflicts(rules, context) = {}
    BY <1>2 DEF Conflicts
  <1>5. RequiredInformation(rules, context) = {}
    BY DEF RequiredInformation, Harmless
  <1> QED
    BY <1>1, <1>3, <1>4, <1>5 DEF EnquiryAllowed, Decision

LEMMA FewerRulesAllow ==
    ASSUME NEW rules \in Seq(Rule), NEW i \in DOMAIN rules, NEW context, EnquiryAllowed(rules, context)
    PROVE  EnquiryAllowed(RemoveAt(rules, i), context)
  <1>1. \A k \in DOMAIN rules : Harmless(rules[k], context)
    BY AllowedIsHarmless
  <1>2. \A j \in DOMAIN RemoveAt(rules, i) : Harmless(RemoveAt(rules, i)[j], context)
    BY <1>1, Remaining
  <1> QED
    BY <1>2, HarmlessIsAllowed

-----------------------------------------------------------------------------
(* What they make of the price.                                            *)

LEMMA UnitsAreFinite ==
    ASSUME NEW S, IsFiniteSet(S), NEW f \in [S -> Int]
    PROVE  IsFiniteSet(Units(f)) /\ Total(f) \in Nat
  <1>1. PICK T : T = {{i} \X (1 .. f[i]) : i \in S}
    OBVIOUS
  <1>2. PICK h : h = [i \in S |-> {i} \X (1 .. f[i])]
    OBVIOUS
  <1>3. h \in Surjection(S, T)
    BY <1>1, <1>2 DEF Surjection
  <1>4. IsFiniteSet(T)
    BY <1>3, FS_Surjection
  <1>5. ASSUME NEW i \in S PROVE IsFiniteSet({i} \X (1 .. f[i]))
    <2>1. IsFiniteSet({i})
      BY FS_Singleton
    <2>2. 1 \in Int /\ f[i] \in Int
      OBVIOUS
    <2>3. IsFiniteSet(1 .. f[i])
      BY <2>2, FS_Interval
    <2> QED
      BY <2>1, <2>3, FS_Product
  <1>6. \A U \in T : IsFiniteSet(U)
    BY <1>1, <1>5
  <1>7. Units(f) = UNION T
    BY <1>1 DEF Units
  <1>8. IsFiniteSet(Units(f))
    BY <1>4, <1>6, <1>7, FS_UNION
  <1> QED
    BY <1>8, FS_CardinalityType DEF Total

\* A sum does not depend on the order of what is summed.
LEMMA SumsAgree ==
    ASSUME NEW S, NEW T, IsFiniteSet(S), NEW f \in [S -> Int], NEW g \in [T -> Int],
           NEW h \in Bijection(S, T), \A i \in S : f[i] = g[h[i]]
    PROVE  Total(f) = Total(g)
  <1>1. /\ h \in [S -> T]
        /\ \A i, j \in S : h[i] = h[j] => i = j
        /\ \A k \in T : \E i \in S : h[i] = k
    BY DEF Bijection, Injection, Surjection, IsInjective
  <1>2. \A u : u \in Units(f) <=> \E i \in S : \E n \in 1 .. f[i] : u = <<i, n>>
    BY DEF Units
  <1>3. \A u : u \in Units(g) <=> \E k \in T : \E n \in 1 .. g[k] : u = <<k, n>>
    BY DEF Units
  <1>4. PICK H : H = [u \in Units(f) |-> <<h[u[1]], u[2]>>]
    OBVIOUS
  <1>5. ASSUME NEW i \in S, NEW n \in 1 .. f[i] PROVE H[<<i, n>>] = <<h[i], n>> /\ <<i, n>> \in Units(f)
    BY <1>2, <1>4
  <1>6. H \in [Units(f) -> Units(g)]
    <2> SUFFICES ASSUME NEW u \in Units(f) PROVE H[u] \in Units(g)
      BY <1>4
    <2>1. PICK i \in S, n \in Int : n \in 1 .. f[i] /\ u = <<i, n>>
      BY <1>2
    <2>2. h[i] \in T /\ n \in 1 .. g[h[i]]
      BY <1>1, <2>1
    <2> QED
      BY <1>3, <1>5, <2>1, <2>2
  <1>7. ASSUME NEW u \in Units(f), NEW v \in Units(f), H[u] = H[v] PROVE u = v
    <2>1. PICK i \in S, n \in Int : n \in 1 .. f[i] /\ u = <<i, n>>
      BY <1>2
    <2>2. PICK j \in S, m \in Int : m \in 1 .. f[j] /\ v = <<j, m>>
      BY <1>2
    <2>3. <<h[i], n>> = <<h[j], m>>
      BY <1>5, <1>7, <2>1, <2>2
    <2>4. h[i] = h[j] /\ n = m
      BY <2>3
    <2> QED
      BY <1>1, <2>1, <2>2, <2>4
  <1>8. ASSUME NEW w \in Units(g) PROVE \E u \in Units(f) : H[u] = w
    <2>1. PICK k \in T, n \in Int : n \in 1 .. g[k] /\ w = <<k, n>>
      BY <1>3
    <2>2. PICK i \in S : h[i] = k
      BY <1>1
    <2>3. n \in 1 .. f[i]
      BY <2>1, <2>2
    <2> QED
      BY <1>5, <2>1, <2>2, <2>3
  <1>9. H \in Bijection(Units(f), Units(g))
    BY <1>6, <1>7, <1>8 DEF Bijection, Injection, Surjection, IsInjective
  <1>10. IsFiniteSet(Units(f))
    BY UnitsAreFinite
  <1> QED
    BY <1>9, <1>10, FS_Bijection DEF ExistsBijection, Total

LEMMA ShareType ==
    ASSUME NEW amount \in Nat, NEW part \in Nat
    PROVE  Share(amount, part) \in Nat
  <1>1. PICK k : k = amount * part /\ k \in Nat
    OBVIOUS
  <1>2. PICK d : d = 2 * Whole /\ d \in Nat \ {0}
    BY WholeAssumption
  <1>3. 2 * amount * part + Whole = 2 * k + Whole /\ 2 * k + Whole \in Nat
    BY <1>1, WholeAssumption
  <1>4. (2 * k + Whole) \div d \in Nat
    BY <1>2, <1>3
  <1> QED
    BY <1>2, <1>3, <1>4 DEF Share

LEMMA BaseType ==
    ASSUME NEW offer \in Offers
    PROVE  BaseAmount(offer) \in Nat
  <1>1. offer.model \in PricingModels /\ offer.amount \in Nat /\ offer.hours \in Nat /\ offer.least \in Nat
    BY QuotingAssumption
  <1>2. Most(offer.hours, offer.least) \in Nat
    BY <1>1 DEF Most
  <1>3. Share(offer.amount, Most(offer.hours, offer.least)) \in Nat
    BY <1>1, <1>2, ShareType
  <1> QED
    BY <1>1, <1>3 DEF BaseAmount, PricingModels

LEMMA AdjustmentTypes ==
    ASSUME NEW rule \in Rule, NEW base \in Nat
    PROVE  Surcharge(rule, base) \in Int /\ Discount(rule, base) \in Int
  <1>1. /\ rule.percent \in Nat \cup {None}
        /\ rule.amount \in Int
        /\ rule.most \in Nat \cup {None}
    BY DEF Rule
  <1>2. rule.percent # None => Share(base, rule.percent) \in Nat
    BY <1>1, ShareType
  <1>3. Surcharge(rule, base) \in Int
    BY <1>1, <1>2 DEF Surcharge
  <1>4. Discount(rule, base) \in Int
    BY <1>1, <1>2 DEF Discount, Most, Least
  <1> QED
    BY <1>3, <1>4

\* The positions of a list and the amounts of its rules.
LEMMA PositionsOf ==
    ASSUME NEW rules \in Seq(Rule), NEW context, NEW type
    PROVE  /\ OfType(rules, context, type) \subseteq 1 .. Len(rules)
           /\ Len(rules) \in Nat
           /\ IsFiniteSet(OfType(rules, context, type))
           /\ \A i \in OfType(rules, context, type) : rules[i] \in Rule
  <1>1. OfType(rules, context, type) \subseteq 1 .. Len(rules) /\ Len(rules) \in Nat
    BY DEF OfType
  <1>2. IsFiniteSet(1 .. Len(rules))
    BY <1>1, FS_Interval
  <1> QED
    BY <1>1, <1>2, FS_Subset

LEMMA LastIsThere ==
    ASSUME NEW rules \in Seq(Rule), NEW context, NEW type, OfType(rules, context, type) # {}
    PROVE  LastOf(OfType(rules, context, type)) \in OfType(rules, context, type)
  <1>1. PICK S : S = OfType(rules, context, type)
    OBVIOUS
  <1>2. S \subseteq 1 .. Len(rules) /\ Len(rules) \in Nat
    BY <1>1, PositionsOf
  <1>3. \E i \in S : \A j \in S : j <= i
    BY <1>1, <1>2, GreatestNumber
  <1> QED
    BY <1>1, <1>3 DEF LastOf

LEMMA PriceType ==
    ASSUME NEW offer \in Offers, NEW rules \in Seq(Rule), NEW context
    PROVE  Price(offer, rules, context) \in Nat
  <1>1. PICK base : base = BaseAmount(offer) /\ base \in Nat
    BY BaseType
  <1>2. Surcharges(rules, context, base) \in Nat
    <2>1. PICK S : S = OfType(rules, context, "surcharge")
      OBVIOUS
    <2>2. IsFiniteSet(S) /\ \A i \in S : Surcharge(rules[i], base) \in Int
      BY <1>1, <2>1, PositionsOf, AdjustmentTypes
    <2>3. [i \in S |-> Surcharge(rules[i], base)] \in [S -> Int]
      BY <2>2
    <2> QED
      BY <2>1, <2>2, <2>3, UnitsAreFinite DEF Surcharges
  <1>3. Discounts(rules, context, base) \in Nat
    <2>1. PICK S : S = OfType(rules, context, "discount")
      OBVIOUS
    <2>2. IsFiniteSet(S) /\ \A i \in S : Discount(rules[i], base) \in Int
      BY <1>1, <2>1, PositionsOf, AdjustmentTypes
    <2>3. [i \in S |-> Discount(rules[i], base)] \in [S -> Int]
      BY <2>2
    <2> QED
      BY <2>1, <2>2, <2>3, UnitsAreFinite DEF Discounts
  <1>4. ASSUME NEW type, OfType(rules, context, type) # {}
        PROVE  rules[LastOf(OfType(rules, context, type))].amount \in Int
    <2>1. rules[LastOf(OfType(rules, context, type))] \in Rule
      BY <1>4, LastIsThere, PositionsOf
    <2> QED
      BY <2>1 DEF Rule
  <1>5. ASSUME NEW amount \in Int PROVE Raised(rules, context, amount) \in Int
    BY <1>4, <1>5 DEF Raised, Most
  <1>6. ASSUME NEW amount \in Int PROVE Capped(rules, context, amount) \in Int
    BY <1>4, <1>6 DEF Capped, Least
  <1>7. PICK running : /\ running = base + Surcharges(rules, context, base) - Discounts(rules, context, base)
                       /\ running \in Int
    BY <1>1, <1>2, <1>3
  <1>8. PICK capped : capped = Capped(rules, context, Raised(rules, context, running)) /\ capped \in Int
    BY <1>5, <1>6, <1>7
  <1>9. Price(offer, rules, context) = Most(capped, 0)
    BY <1>1, <1>7, <1>8 DEF Price
  <1> QED
    BY <1>8, <1>9 DEF Most

-----------------------------------------------------------------------------
(* The order in which the rules are loaded.                                *)

Reordered(rules, order) == [i \in DOMAIN rules |-> rules[order[i]]]

LEMMA OrderIsBijection ==
    ASSUME NEW rules \in Seq(Rule), NEW order \in SetToSeqs(DOMAIN rules)
    PROVE  /\ order \in [DOMAIN rules -> DOMAIN rules]
           /\ \A i, j \in DOMAIN rules : order[i] = order[j] => i = j
           /\ \A k \in DOMAIN rules : \E i \in DOMAIN rules : order[i] = k
  <1>1. PICK D : D = DOMAIN rules
    OBVIOUS
  <1>2. D = 1 .. Len(rules) /\ Len(rules) \in Nat
    BY <1>1
  <1>3. IsFiniteSet(D) /\ Cardinality(D) = Len(rules)
    BY <1>2, FS_Interval
  <1>4. order \in [D -> D] /\ \A i, j \in D : i # j => order[i] # order[j]
    BY <1>1, <1>2, <1>3 DEF SetToSeqs
  <1>5. order \in Injection(D, D)
    BY <1>4 DEF Injection, IsInjective
  <1>6. order \in Surjection(D, D)
    BY <1>3, <1>5, FS_Injection
  <1>7. \A k \in D : \E i \in D : order[i] = k
    BY <1>6 DEF Surjection
  <1> QED
    BY <1>1, <1>4, <1>7

LEMMA OfTypeReordered ==
    ASSUME NEW rules \in Seq(Rule), NEW order \in SetToSeqs(DOMAIN rules), NEW context, NEW type
    PROVE  OfType(Reordered(rules, order), context, type)
               = {i \in DOMAIN rules : order[i] \in OfType(rules, context, type)}
  <1>1. \A i \in DOMAIN rules : order[i] \in DOMAIN rules /\ Reordered(rules, order)[i] = rules[order[i]]
    BY OrderIsBijection DEF Reordered
  <1>2. DOMAIN Reordered(rules, order) = DOMAIN rules
    BY DEF Reordered
  <1> QED
    BY <1>1, <1>2 DEF OfType

\* The rules of one type, in the one order and in the other.
LEMMA SameRules ==
    ASSUME NEW rules \in Seq(Rule), NEW order \in SetToSeqs(DOMAIN rules), NEW context, NEW type
    PROVE  LET S == OfType(Reordered(rules, order), context, type)
               T == OfType(rules, context, type)
           IN  /\ IsFiniteSet(S) /\ IsFiniteSet(T)
               /\ [i \in S |-> order[i]] \in Bijection(S, T)
               /\ \A i \in S : Reordered(rules, order)[i] = rules[order[i]]
               /\ \A i \in S : order[i] \in T
  <1>1. PICK S : S = OfType(Reordered(rules, order), context, type)
    OBVIOUS
  <1>2. PICK T : T = OfType(rules, context, type)
    OBVIOUS
  <1>3. S = {i \in DOMAIN rules : order[i] \in T}
    BY <1>1, <1>2, OfTypeReordered
  <1>4. T \subseteq DOMAIN rules
    BY <1>2 DEF OfType
  <1>5. IsFiniteSet(DOMAIN rules)
    <2>1. DOMAIN rules = 1 .. Len(rules) /\ Len(rules) \in Nat
      OBVIOUS
    <2> QED
      BY <2>1, FS_Interval
  <1>6. IsFiniteSet(S) /\ IsFiniteSet(T)
    BY <1>3, <1>4, <1>5, FS_Subset
  <1>7. PICK h : h = [i \in S |-> order[i]]
    OBVIOUS
  <1>8. h \in [S -> T]
    BY <1>3, <1>7
  <1>9. \A i, j \in S : h[i] = h[j] => i = j
    BY <1>3, <1>7, OrderIsBijection
  <1>10. \A k \in T : \E i \in S : h[i] = k
    BY <1>3, <1>4, <1>7, OrderIsBijection
  <1>11. h \in Bijection(S, T)
    BY <1>8, <1>9, <1>10 DEF Bijection, Injection, Surjection, IsInjective
  <1>12. \A i \in S : Reordered(rules, order)[i] = rules[order[i]]
    BY <1>3 DEF Reordered
  <1>13. \A i \in S : order[i] \in T
    BY <1>3
  <1> QED
    BY <1>1, <1>2, <1>6, <1>7, <1>11, <1>12, <1>13

LEMMA SurchargesReordered ==
    ASSUME NEW rules \in Seq(Rule), NEW order \in SetToSeqs(DOMAIN rules), NEW context, NEW base \in Nat
    PROVE  Surcharges(Reordered(rules, order), context, base) = Surcharges(rules, context, base)
  <1>1. PICK S : S = OfType(Reordered(rules, order), context, "surcharge")
    OBVIOUS
  <1>2. PICK T : T = OfType(rules, context, "surcharge")
    OBVIOUS
  <1>3. PICK h : h = [i \in S |-> order[i]]
    OBVIOUS
  <1>4. /\ IsFiniteSet(S) /\ h \in Bijection(S, T)
        /\ \A i \in S : Reordered(rules, order)[i] = rules[order[i]]
        /\ \A i \in S : order[i] \in T
    BY <1>1, <1>2, <1>3, SameRules
  <1>5. PICK g : g = [i \in T |-> Surcharge(rules[i], base)]
    OBVIOUS
  <1>6. PICK f : f = [i \in S |-> Surcharge(Reordered(rules, order)[i], base)]
    OBVIOUS
  <1>7. \A i \in T : rules[i] \in Rule
    BY <1>2, PositionsOf
  <1>8. g \in [T -> Int]
    BY <1>5, <1>7, AdjustmentTypes
  <1>9. \A i \in S : f[i] = g[h[i]]
    BY <1>3, <1>4, <1>5, <1>6
  <1>10. f \in [S -> Int]
    BY <1>3, <1>4, <1>6, <1>8, <1>9
  <1>11. Total(f) = Total(g)
    BY <1>4, <1>8, <1>9, <1>10, SumsAgree
  <1> QED
    BY <1>1, <1>2, <1>5, <1>6, <1>11 DEF Surcharges

LEMMA DiscountsReordered ==
    ASSUME NEW rules \in Seq(Rule), NEW order \in SetToSeqs(DOMAIN rules), NEW context, NEW base \in Nat
    PROVE  Discounts(Reordered(rules, order), context, base) = Discounts(rules, context, base)
  <1>1. PICK S : S = OfType(Reordered(rules, order), context, "discount")
    OBVIOUS
  <1>2. PICK T : T = OfType(rules, context, "discount")
    OBVIOUS
  <1>3. PICK h : h = [i \in S |-> order[i]]
    OBVIOUS
  <1>4. /\ IsFiniteSet(S) /\ h \in Bijection(S, T)
        /\ \A i \in S : Reordered(rules, order)[i] = rules[order[i]]
        /\ \A i \in S : order[i] \in T
    BY <1>1, <1>2, <1>3, SameRules
  <1>5. PICK g : g = [i \in T |-> Discount(rules[i], base)]
    OBVIOUS
  <1>6. PICK f : f = [i \in S |-> Discount(Reordered(rules, order)[i], base)]
    OBVIOUS
  <1>7. \A i \in T : rules[i] \in Rule
    BY <1>2, PositionsOf
  <1>8. g \in [T -> Int]
    BY <1>5, <1>7, AdjustmentTypes
  <1>9. \A i \in S : f[i] = g[h[i]]
    BY <1>3, <1>4, <1>5, <1>6
  <1>10. f \in [S -> Int]
    BY <1>3, <1>4, <1>6, <1>8, <1>9
  <1>11. Total(f) = Total(g)
    BY <1>4, <1>8, <1>9, <1>10, SumsAgree
  <1> QED
    BY <1>1, <1>2, <1>5, <1>6, <1>11 DEF Discounts

\* Of a type of which one rule applies at most, the same rule comes last.
LEMMA LoneRule ==
    ASSUME NEW rules \in Seq(Rule), NEW order \in SetToSeqs(DOMAIN rules), NEW context, NEW type,
           Cardinality(OfType(rules, context, type)) <= 1
    PROVE  LET S == OfType(Reordered(rules, order), context, type)
               T == OfType(rules, context, type)
           IN  /\ S = {} <=> T = {}
               /\ S # {} => Reordered(rules, order)[LastOf(S)] = rules[LastOf(T)]
  <1>1. PICK S : S = OfType(Reordered(rules, order), context, type)
    OBVIOUS
  <1>2. PICK T : T = OfType(rules, context, type)
    OBVIOUS
  <1>3. PICK h : h = [i \in S |-> order[i]]
    OBVIOUS
  <1>4. /\ IsFiniteSet(T) /\ h \in Bijection(S, T)
        /\ \A i \in S : Reordered(rules, order)[i] = rules[order[i]]
        /\ \A i \in S : order[i] \in T
    BY <1>1, <1>2, <1>3, SameRules
  <1>5. /\ h \in [S -> T]
        /\ \A i, j \in S : h[i] = h[j] => i = j
        /\ \A k \in T : \E i \in S : h[i] = k
    BY <1>4 DEF Bijection, Injection, Surjection, IsInjective
  <1>6. S = {} <=> T = {}
    BY <1>5
  <1>7. ASSUME S # {} PROVE Reordered(rules, order)[LastOf(S)] = rules[LastOf(T)]
    <2>1. PICK k : k \in T
      BY <1>6, <1>7
    <2>2. Cardinality(T) \in Nat /\ Cardinality(T) # 0
      BY <1>4, <2>1, FS_EmptySet, FS_CardinalityType
    <2>3. Cardinality(T) = 1
      BY <1>2, <2>2
    <2>4. T = {k}
      BY <1>4, <2>1, <2>3, FS_Singleton
    <2>5. PICK i \in S : h[i] = k
      BY <1>5, <2>1
    <2>6. S = {i}
      BY <1>5, <2>4, <2>5
    <2>7. i \in Nat /\ k \in Nat
      <3>1. S \subseteq DOMAIN rules /\ T \subseteq DOMAIN rules /\ DOMAIN rules \subseteq Nat
        BY <1>1, <1>2 DEF OfType, Reordered
      <3> QED
        BY <2>1, <2>5, <3>1
    <2>8. LastOf(T) = k
      BY <2>4, <2>7 DEF LastOf
    <2>9. LastOf(S) = i
      BY <2>6, <2>7 DEF LastOf
    <2>10. order[i] = k
      BY <1>3, <2>5
    <2> QED
      BY <1>4, <2>5, <2>8, <2>9, <2>10
  <1> QED
    BY <1>1, <1>2, <1>6, <1>7

\* As long as one floor and one cap apply at most, the price is the same in
\* any order of the rules.
LEMMA OrderDoesNotPrice ==
    ASSUME NEW offer \in Offers, NEW rules \in Seq(Rule), NEW order \in SetToSeqs(DOMAIN rules), NEW context,
           Cardinality(OfType(rules, context, "price_floor")) <= 1,
           Cardinality(OfType(rules, context, "price_cap")) <= 1
    PROVE  Price(offer, Reordered(rules, order), context) = Price(offer, rules, context)
  <1>1. PICK other : other = Reordered(rules, order)
    OBVIOUS
  <1>2. PICK base : base = BaseAmount(offer) /\ base \in Nat
    BY BaseType
  <1>3. /\ Surcharges(other, context, base) = Surcharges(rules, context, base)
        /\ Discounts(other, context, base) = Discounts(rules, context, base)
    BY <1>1, <1>2, SurchargesReordered, DiscountsReordered
  <1>4. \A amount : Raised(other, context, amount) = Raised(rules, context, amount)
    <2>1. PICK S : S = OfType(other, context, "price_floor")
      OBVIOUS
    <2>2. PICK T : T = OfType(rules, context, "price_floor")
      OBVIOUS
    <2>3. (S = {} <=> T = {}) /\ (S # {} => other[LastOf(S)] = rules[LastOf(T)])
      BY <1>1, <2>1, <2>2, LoneRule
    <2> QED
      BY <2>1, <2>2, <2>3 DEF Raised
  <1>5. \A amount : Capped(other, context, amount) = Capped(rules, context, amount)
    <2>1. PICK S : S = OfType(other, context, "price_cap")
      OBVIOUS
    <2>2. PICK T : T = OfType(rules, context, "price_cap")
      OBVIOUS
    <2>3. (S = {} <=> T = {}) /\ (S # {} => other[LastOf(S)] = rules[LastOf(T)])
      BY <1>1, <2>1, <2>2, LoneRule
    <2> QED
      BY <2>1, <2>2, <2>3 DEF Capped
  <1> QED
    BY <1>1, <1>2, <1>3, <1>4, <1>5 DEF Price

-----------------------------------------------------------------------------
(* The commercial policies.                                                *)

\* What a request knows of the policy it has loaded.
Edits ==
    {NoEdit}
    \cup [step : {"update"}, p : Policies, terms : FeeTerms, until : Nat \cup {Forever}]
    \cup [step : {"activate", "move"}, p : Policies, to : Statuses \ {"absent"}]
    \cup [step : {"looked"}, p : Policies, found : SUBSET Policies, missed : SUBSET Policies]

PolicyType ==
    /\ policyStatus \in [Policies -> Statuses]
    /\ form \in [Policies -> Form \cup {Nobody}]
    /\ fee \in [Policies -> FeeTerms \cup {Nobody}]
    /\ edit \in [Editors -> Edits]
    /\ blind \in [Policies -> SUBSET Policies]
    /\ now \in Nat

\* A policy that exists states its form and its fee.
Stated ==
    \A p \in Policies : policyStatus[p] # "absent" => form[p] \in Form /\ fee[p] \in FeeTerms

\* A request works on a policy that exists; only an activation activates.
EditsFit ==
    \A r \in Editors :
        /\ edit[r].step # "idle" => policyStatus[edit[r].p] # "absent"
        /\ edit[r].step = "move" => edit[r].to # "active"
        /\ edit[r].step = "looked" => \A q \in edit[r].found : policyStatus[q] # "absent"

\* The lock on a row: two requests do not activate one policy at a time.
OneLooks ==
    \A r, t \in Editors :
        r # t /\ edit[r].step = "looked" /\ edit[t].step = "looked" => edit[r].p # edit[t].p

\* In force, or to be in force without another step on it.
Live(q) == policyStatus[q] = "active" /\ (form[q].until = Forever \/ now < form[q].until)

\* What was activated ahead of its time superseded nothing.
EarlyIsBlind ==
    \A p \in Policies : policyStatus[p] = "active" /\ form[p].from > now => blind[p] = Policies

\* OneGoverns, of the policies that are yet to begin as well.
LiveRivals ==
    \A p, q \in Policies : p # q /\ Live(p) /\ Live(q) /\ Rivals(p, q) => q \in blind[p] \/ p \in blind[q]

\* An activation under way has found each rival, or has missed it, or the
\* rival has missed it.
LookKnows(r) ==
    edit[r].step = "looked" =>
        LET p == edit[r].p
        IN  /\ form[p].from > now => edit[r].missed = Policies
            /\ \A q \in Policies : p # q /\ Live(q) /\ Rivals(p, q) =>
                  q \in edit[r].found \cup edit[r].missed \/ p \in blind[q]

PolicyInv ==
    /\ PolicyType /\ Stated /\ EditsFit /\ OneLooks /\ EarlyIsBlind /\ LiveRivals
    /\ \A r \in Editors : LookKnows(r)

LEMMA EditFields ==
    ASSUME PolicyType, NEW r \in Editors
    PROVE  /\ edit[r].step \in {"idle", "update", "activate", "move", "looked"}
           /\ edit[r].step # "idle" => edit[r].p \in Policies
           /\ edit[r].step = "update" => edit[r].terms \in FeeTerms /\ edit[r].until \in Nat \cup {Forever}
           /\ edit[r].step \in {"activate", "move"} => edit[r].to \in Statuses \ {"absent"}
           /\ edit[r].step = "looked" =>
                 edit[r] \in [step : {"looked"}, p : Policies, found : SUBSET Policies, missed : SUBSET Policies]
  <1>1. edit[r] \in Edits
    BY DEF PolicyType
  <1>2. CASE edit[r] = NoEdit
    BY <1>2 DEF NoEdit
  <1>3. CASE edit[r] \in [step : {"update"}, p : Policies, terms : FeeTerms, until : Nat \cup {Forever}]
    BY <1>3
  <1>4. CASE edit[r] \in [step : {"activate", "move"}, p : Policies, to : Statuses \ {"absent"}]
    BY <1>4
  <1>5. CASE edit[r] \in [step : {"looked"}, p : Policies, found : SUBSET Policies, missed : SUBSET Policies]
    BY <1>5
  <1> QED
    BY <1>1, <1>2, <1>3, <1>4, <1>5 DEF Edits

\* How the requests go on when one of them ends.
LEMMA OthersGoOn ==
    ASSUME PolicyType, NEW r \in Editors, NEW written \in SUBSET Policies, Ends(r, written)
    PROVE  /\ edit' \in [Editors -> Edits]
           /\ edit'[r].step = "idle"
           /\ \A t \in Editors : t # r =>
                 /\ edit'[t].step = edit[t].step
                 /\ edit[t].step # "idle" => edit'[t].p = edit[t].p
                 /\ edit[t].step = "move" => edit'[t].to = edit[t].to
                 /\ edit[t].step = "looked" =>
                       edit'[t].found = edit[t].found /\ edit'[t].missed = edit[t].missed \cup written
  <1>1. DOMAIN edit' = Editors /\ edit'[r] = NoEdit
    BY DEF Ends
  <1>2. NoEdit \in Edits /\ NoEdit.step = "idle"
    BY DEF Edits, NoEdit
  <1>3. ASSUME NEW t \in Editors, t # r
        PROVE  /\ edit'[t] \in Edits
               /\ edit'[t].step = edit[t].step
               /\ edit[t].step # "idle" => edit'[t].p = edit[t].p
               /\ edit[t].step = "move" => edit'[t].to = edit[t].to
               /\ edit[t].step = "looked" =>
                     edit'[t].found = edit[t].found /\ edit'[t].missed = edit[t].missed \cup written
    <2>1. CASE edit[t].step = "looked"
      <3>1. PICK e : e = edit[t]
        OBVIOUS
      <3>2. e \in [step : {"looked"}, p : Policies, found : SUBSET Policies, missed : SUBSET Policies]
        BY <2>1, <3>1, EditFields
      <3>3. edit'[t] = [e EXCEPT !.missed = e.missed \cup written]
        BY <1>3, <2>1, <3>1 DEF Ends
      <3>4. /\ edit'[t].step = e.step /\ edit'[t].p = e.p /\ edit'[t].found = e.found
            /\ edit'[t].missed = e.missed \cup written
        BY <3>2, <3>3
      <3>5. edit'[t] \in [step : {"looked"}, p : Policies, found : SUBSET Policies, missed : SUBSET Policies]
        BY <3>2, <3>3
      <3> QED
        BY <2>1, <3>1, <3>4, <3>5 DEF Edits
    <2>2. CASE edit[t].step # "looked"
      <3>1. edit'[t] = edit[t]
        BY <1>3, <2>2 DEF Ends
      <3> QED
        BY <2>2, <3>1 DEF PolicyType
    <2> QED
      BY <2>1, <2>2
  <1>4. ASSUME NEW t \in Editors PROVE edit'[t] \in Edits
    BY <1>1, <1>2, <1>3
  <1>5. edit' = [t \in Editors |-> edit'[t]]
    BY DEF Ends
  <1> QED
    BY <1>1, <1>2, <1>3, <1>4, <1>5

LEMMA InitPolicies ==
    ASSUME PolicyInit
    PROVE  PolicyInv
  <1>1. "absent" \in Statuses /\ NoEdit \in Edits /\ NoEdit.step = "idle"
    BY DEF Statuses, Edits, NoEdit
  <1>2. PolicyType
    BY <1>1 DEF PolicyInit, PolicyType
  <1>3. \A p \in Policies : policyStatus[p] = "absent"
    BY DEF PolicyInit
  <1>4. \A r \in Editors : edit[r].step = "idle"
    BY <1>1 DEF PolicyInit
  <1>5. Stated /\ EarlyIsBlind /\ LiveRivals
    BY <1>3 DEF Stated, EarlyIsBlind, LiveRivals, Live
  <1>6. EditsFit /\ OneLooks
    BY <1>4 DEF EditsFit, OneLooks
  <1>7. \A r \in Editors : LookKnows(r)
    BY <1>4 DEF LookKnows
  <1> QED
    BY <1>2, <1>5, <1>6, <1>7 DEF PolicyInv

LEMMA CreateKeepsPolicies ==
    ASSUME PolicyInv, NEW p \in Policies, NEW f \in Forms, NEW terms \in FeeTerms, CreatePolicy(p, f, terms)
    PROVE  PolicyInv'
  <1> USE DEF PolicyInv
  <1>1. /\ policyStatus[p] = "absent"
        /\ policyStatus' = [policyStatus EXCEPT ![p] = "draft"]
        /\ form' = [form EXCEPT ![p] = f]
        /\ fee' = [fee EXCEPT ![p] = terms]
        /\ UNCHANGED <<edit, blind, now>>
    BY DEF CreatePolicy
  <1>2. f \in Form
    BY PolicyAssumption
  <1>3. PolicyType'
    <2>1. "draft" \in Statuses
      BY DEF Statuses
    <2>2. policyStatus' \in [Policies -> Statuses]
      BY <1>1, <2>1 DEF PolicyType
    <2>3. form' \in [Policies -> Form \cup {Nobody}]
      BY <1>1, <1>2 DEF PolicyType
    <2>4. fee' \in [Policies -> FeeTerms \cup {Nobody}]
      BY <1>1 DEF PolicyType
    <2> QED
      BY <1>1, <2>2, <2>3, <2>4 DEF PolicyType
  <1>4. /\ \A q \in Policies : q # p => policyStatus'[q] = policyStatus[q] /\ form'[q] = form[q] /\ fee'[q] = fee[q]
        /\ policyStatus'[p] = "draft" /\ form'[p] = f /\ fee'[p] = terms
    BY <1>1 DEF PolicyType
  <1>5. Stated'
    BY <1>2, <1>4 DEF Stated
  <1>6. EditsFit'
    BY <1>1, <1>4, EditFields DEF EditsFit
  <1>7. OneLooks'
    BY <1>1 DEF OneLooks
  <1>8. EarlyIsBlind'
    BY <1>1, <1>4 DEF EarlyIsBlind
  <1>9. LiveRivals'
    BY <1>1, <1>4 DEF LiveRivals, Live, Rivals
  <1>10. ASSUME NEW r \in Editors PROVE LookKnows(r)'
    <2> SUFFICES ASSUME edit[r].step = "looked" PROVE LookKnows(r)'
      BY <1>1 DEF LookKnows
    <2>1. edit[r].p \in Policies /\ edit[r].p # p
      BY <1>1, EditFields DEF EditsFit
    <2> QED
      BY <1>1, <1>4, <2>1 DEF LookKnows, Live, Rivals
  <1> QED
    BY <1>3, <1>5, <1>6, <1>7, <1>8, <1>9, <1>10

\* A step that changes what requests know and nothing of the policies.
LEMMA RequestsKeepPolicies ==
    ASSUME PolicyInv, UNCHANGED <<policyStatus, form, fee, blind, now>>,
           edit' \in [Editors -> Edits], EditsFit', OneLooks', \A r \in Editors : LookKnows(r)'
    PROVE  PolicyInv'
  <1>1. PolicyType'
    BY DEF PolicyInv, PolicyType
  <1>2. Stated' /\ EarlyIsBlind'
    BY DEF PolicyInv, Stated, EarlyIsBlind
  <1>3. LiveRivals'
    BY DEF PolicyInv, LiveRivals, Live, Rivals
  <1> QED
    BY <1>1, <1>2, <1>3 DEF PolicyInv

LEMMA OpenKeepsPolicies ==
    ASSUME PolicyInv, NEW r \in Editors, NEW op \in Edits, Open(r, op),
           op.step \in {"update", "activate", "move"}, policyStatus[op.p] # "absent",
           op.step = "move" => op.to # "active"
    PROVE  PolicyInv'
  <1>1. edit' = [edit EXCEPT ![r] = op] /\ UNCHANGED <<policyStatus, form, fee, blind, now>>
    BY DEF Open
  <1>2. edit \in [Editors -> Edits]
    BY DEF PolicyInv, PolicyType
  <1>3. edit' \in [Editors -> Edits] /\ edit'[r] = op /\ \A t \in Editors : t # r => edit'[t] = edit[t]
    BY <1>1, <1>2
  <1>4. op.step # "looked"
    OBVIOUS
  <1>5. EditsFit'
    BY <1>1, <1>3 DEF EditsFit, PolicyInv
  <1>6. OneLooks'
    BY <1>3, <1>4 DEF OneLooks, PolicyInv
  <1>7. \A t \in Editors : LookKnows(t)'
    BY <1>1, <1>3, <1>4 DEF LookKnows, PolicyInv, Live, Rivals
  <1> QED
    BY <1>1, <1>3, <1>5, <1>6, <1>7, RequestsKeepPolicies

LEMMA LoadsKeepPolicies ==
    ASSUME PolicyInv, NEW r \in Editors, NEW p \in Policies
    PROVE  /\ \A terms \in FeeTerms, f \in Forms : LoadForUpdate(r, p, terms, f.until) => PolicyInv'
           /\ \A to \in Statuses : LoadForTransition(r, p, to) => PolicyInv'
  <1>1. ASSUME NEW terms \in FeeTerms, NEW f \in Forms, LoadForUpdate(r, p, terms, f.until) PROVE PolicyInv'
    <2>1. PICK op : op = [step |-> "update", p |-> p, terms |-> terms, until |-> f.until]
      OBVIOUS
    <2>2. f.until \in Nat \cup {Forever}
      BY PolicyAssumption DEF Form
    <2>3. op \in [step : {"update"}, p : Policies, terms : FeeTerms, until : Nat \cup {Forever}]
      BY <2>1, <2>2
    <2>4. op \in Edits
      BY <2>3 DEF Edits
    <2>5. Open(r, op) /\ policyStatus[p] = "draft"
      BY <1>1, <2>1 DEF LoadForUpdate
    <2>6. op.step = "update" /\ op.p = p
      BY <2>1
    <2> QED
      BY <2>4, <2>5, <2>6, OpenKeepsPolicies
  <1>2. ASSUME NEW to \in Statuses, LoadForTransition(r, p, to) PROVE PolicyInv'
    <2>1. PICK op : op = [step |-> IF to = "active" THEN "activate" ELSE "move", p |-> p, to |-> to]
      OBVIOUS
    <2>2. to \in COMMERCIAL_POLICY_TRANSITIONS(policyStatus[p]) /\ Open(r, op)
      BY <1>2, <2>1 DEF LoadForTransition
    <2>3. policyStatus[p] \in {"draft", "active", "inactive"} /\ to # "absent"
      BY <2>2 DEF COMMERCIAL_POLICY_TRANSITIONS
    <2>4. op \in [step : {"activate", "move"}, p : Policies, to : Statuses \ {"absent"}]
      BY <2>1, <2>3
    <2>5. op \in Edits
      BY <2>4 DEF Edits
    <2>6. op.p = p /\ op.step \in {"activate", "move"} /\ (op.step = "move" => op.to # "active")
      BY <2>1
    <2> QED
      BY <2>2, <2>3, <2>5, <2>6, OpenKeepsPolicies
  <1> QED
    BY <1>1, <1>2

\* An activation finds each rival in force; a rival that is yet to begin was
\* activated without a look at the others.
LEMMA LookKeepsPolicies ==
    ASSUME PolicyInv, NEW r \in Editors, Look(r)
    PROVE  PolicyInv'
  <1>1. PICK p : p = edit[r].p
    OBVIOUS
  <1>2. edit[r].step = "activate" /\ p \in Policies /\ policyStatus[p] # "absent"
    BY <1>1, EditFields DEF Look, PolicyInv, EditsFit
  <1>3. PICK look : look = [step |-> "looked", p |-> p, found |-> Superseded(p),
                            missed |-> IF form[p].from > now THEN Policies ELSE {}]
    OBVIOUS
  <1>4. /\ ~Locked(r, p) /\ edit' = [edit EXCEPT ![r] = look]
        /\ UNCHANGED <<policyStatus, form, fee, blind, now>>
    BY <1>1, <1>3 DEF Look
  <1>5. Superseded(p) \subseteq Policies
    BY DEF Superseded, EffectivePolicies
  <1>6. look \in [step : {"looked"}, p : Policies, found : SUBSET Policies, missed : SUBSET Policies]
    BY <1>2, <1>3, <1>5
  <1>7. look \in Edits
    BY <1>6 DEF Edits
  <1>8. edit \in [Editors -> Edits]
    BY DEF PolicyInv, PolicyType
  <1>9. edit' \in [Editors -> Edits] /\ edit'[r] = look /\ \A t \in Editors : t # r => edit'[t] = edit[t]
    BY <1>4, <1>7, <1>8
  <1>10. look.step = "looked" /\ look.p = p
    BY <1>3
  <1>11. EditsFit'
    <2>1. \A q \in look.found : policyStatus[q] # "absent"
      BY <1>3 DEF Superseded, EffectivePolicies, InForce
    <2> QED
      BY <1>2, <1>4, <1>9, <1>10, <2>1 DEF EditsFit, PolicyInv
  <1>12. OneLooks'
    BY <1>4, <1>9, <1>10 DEF OneLooks, PolicyInv, Locked
  <1>13. ASSUME NEW q \in Policies, p # q, Live(q), Rivals(p, q), ~(form[p].from > now)
         PROVE  q \in Superseded(p) \/ p \in blind[q]
    <2>1. form[p] \in Form /\ form[q] \in Form /\ policyStatus[q] = "active"
      BY <1>2, <1>13 DEF PolicyInv, Stated, Live
    <2>2. form[q].from \in Nat /\ now \in Nat
      BY <2>1 DEF PolicyInv, PolicyType, Form
    <2>3. CASE form[q].from > now
      BY <1>2, <2>1, <2>3 DEF PolicyInv, EarlyIsBlind
    <2>4. CASE form[q].from <= now
      <3>1. InForce(q)
        BY <1>13, <2>4 DEF InForce, Live
      <3>2. form[q].scope = form[p].scope /\ form[q].target = form[p].target /\ ~form[q].code
        BY <1>13 DEF Rivals
      <3>3. form[q].scope \in {"global_default", "category_default", "business_plan", "promotion",
                               "business_specific"}
        BY <2>1 DEF Form, Scopes
      <3>4. Applicable(q, form[p].target)
        BY <3>2, <3>3 DEF Applicable
      <3> QED
        BY <1>13, <3>1, <3>2, <3>4 DEF Superseded, EffectivePolicies
    <2> QED
      BY <2>2, <2>3, <2>4
  <1>14. LookKnows(r)'
    <2>1. form[p].from > now => look.missed = Policies
      BY <1>3
    <2>2. \A q \in Policies : p # q /\ Live(q) /\ Rivals(p, q) => q \in look.found \cup look.missed \/ p \in blind[q]
      BY <1>3, <1>13, <2>1
    <2> QED
      BY <1>4, <1>9, <1>10, <2>1, <2>2 DEF LookKnows, Live, Rivals
  <1>15. ASSUME NEW t \in Editors, t # r PROVE LookKnows(t)'
    BY <1>4, <1>9, <1>15 DEF LookKnows, Live, Rivals, PolicyInv
  <1> QED
    BY <1>4, <1>9, <1>11, <1>12, <1>14, <1>15, RequestsKeepPolicies

LEMMA DropKeepsPolicies ==
    ASSUME PolicyInv, NEW r \in Editors, DropEdit(r)
    PROVE  PolicyInv'
  <1>1. edit' = [edit EXCEPT ![r] = NoEdit] /\ UNCHANGED <<policyStatus, form, fee, blind, now>>
    BY DEF DropEdit
  <1>2. NoEdit \in Edits /\ NoEdit.step = "idle"
    BY DEF Edits, NoEdit
  <1>3. edit \in [Editors -> Edits]
    BY DEF PolicyInv, PolicyType
  <1>4. edit' \in [Editors -> Edits] /\ edit'[r] = NoEdit /\ \A t \in Editors : t # r => edit'[t] = edit[t]
    BY <1>1, <1>2, <1>3
  <1>5. EditsFit'
    BY <1>1, <1>2, <1>4 DEF EditsFit, PolicyInv
  <1>6. OneLooks'
    BY <1>2, <1>4 DEF OneLooks, PolicyInv
  <1>7. \A t \in Editors : LookKnows(t)'
    BY <1>1, <1>2, <1>4 DEF LookKnows, PolicyInv, Live, Rivals
  <1> QED
    BY <1>1, <1>4, <1>5, <1>6, <1>7, RequestsKeepPolicies

\* What the end of a request leaves of the others' knowledge.
LEMMA EndKeepsOthers ==
    ASSUME PolicyInv, NEW r \in Editors, NEW written \in SUBSET Policies, Ends(r, written),
           \A p \in Policies : policyStatus[p] # "absent" => policyStatus'[p] # "absent"
    PROVE  EditsFit' /\ OneLooks'
  <1>1. /\ edit'[r].step = "idle"
        /\ \A t \in Editors : t # r =>
              /\ edit'[t].step = edit[t].step
              /\ edit[t].step # "idle" => edit'[t].p = edit[t].p
              /\ edit[t].step = "move" => edit'[t].to = edit[t].to
              /\ edit[t].step = "looked" => edit'[t].found = edit[t].found
    BY OthersGoOn DEF PolicyInv
  <1>2. EditsFit'
    <2> SUFFICES ASSUME NEW t \in Editors
                 PROVE  /\ edit'[t].step # "idle" => policyStatus'[edit'[t].p] # "absent"
                        /\ edit'[t].step = "move" => edit'[t].to # "active"
                        /\ edit'[t].step = "looked" => \A q \in edit'[t].found : policyStatus'[q] # "absent"
      BY DEF EditsFit
    <2>1. CASE t = r
      BY <1>1, <2>1
    <2>2. CASE t # r
      <3>1. edit[t].step # "idle" => edit[t].p \in Policies /\ policyStatus[edit[t].p] # "absent"
        BY EditFields DEF PolicyInv, EditsFit
      <3>2. edit[t].step = "move" => edit[t].to # "active"
        BY DEF PolicyInv, EditsFit
      <3>3. edit[t].step = "looked" => \A q \in edit[t].found : q \in Policies /\ policyStatus[q] # "absent"
        BY EditFields DEF PolicyInv, EditsFit
      <3> QED
        BY <1>1, <2>2, <3>1, <3>2, <3>3
    <2> QED
      BY <2>1, <2>2
  <1>3. OneLooks'
    <2> SUFFICES ASSUME NEW s \in Editors, NEW t \in Editors, s # t,
                        edit'[s].step = "looked", edit'[t].step = "looked"
                 PROVE  edit'[s].p # edit'[t].p
      BY DEF OneLooks
    <2>1. s # r /\ t # r
      BY <1>1
    <2> QED
      BY <1>1, <2>1 DEF PolicyInv, OneLooks
  <1> QED
    BY <1>2, <1>3

\* An activation under way keeps its knowledge when a request ends that has
\* written other policies and told it so.
LEMMA EndKeepsLooks ==
    ASSUME PolicyInv, NEW r \in Editors, NEW written \in SUBSET Policies, Ends(r, written),
           NEW t \in Editors, t # r,
           edit[t].step = "looked" =>
               form'[edit[t].p] = form[edit[t].p] /\ blind'[edit[t].p] = blind[edit[t].p],
           \A q \in Policies \ written :
               policyStatus'[q] = policyStatus[q] /\ form'[q] = form[q] /\ blind'[q] = blind[q],
           now' = now
    PROVE  LookKnows(t)'
  <1>1. /\ edit'[t].step = edit[t].step
        /\ edit[t].step = "looked" =>
              /\ edit'[t].p = edit[t].p
              /\ edit'[t].found = edit[t].found
              /\ edit'[t].missed = edit[t].missed \cup written
    BY OthersGoOn DEF PolicyInv
  <1> SUFFICES ASSUME edit[t].step = "looked" PROVE LookKnows(t)'
    BY <1>1 DEF LookKnows
  <1>2. PICK p : p = edit[t].p
    OBVIOUS
  <1>3. p \in Policies /\ edit[t].missed \subseteq Policies
    BY <1>2, EditFields DEF PolicyInv
  <1>4. /\ form[p].from > now => edit[t].missed = Policies
        /\ \A q \in Policies : p # q /\ Live(q) /\ Rivals(p, q) =>
              q \in edit[t].found \cup edit[t].missed \/ p \in blind[q]
    BY <1>2 DEF PolicyInv, LookKnows
  <1>5. form'[p] = form[p]
    BY <1>2
  <1>6. form'[p].from > now' => edit'[t].missed = Policies
    BY <1>1, <1>3, <1>4, <1>5
  <1>7. ASSUME NEW q \in Policies, p # q, Live(q)', Rivals(p, q)'
        PROVE  q \in edit'[t].found \cup edit'[t].missed \/ p \in blind'[q]
    <2>1. CASE q \in written
      BY <1>1, <2>1
    <2>2. CASE q \notin written
      <3>1. policyStatus'[q] = policyStatus[q] /\ form'[q] = form[q] /\ blind'[q] = blind[q]
        BY <2>2
      <3>2. Live(q) /\ Rivals(p, q)
        BY <1>5, <1>7, <3>1 DEF Live, Rivals
      <3> QED
        BY <1>1, <1>4, <1>7, <3>1, <3>2
    <2> QED
      BY <2>1, <2>2
  <1> QED
    BY <1>1, <1>2, <1>6, <1>7 DEF LookKnows

LEMMA UpdateKeepsPolicies ==
    ASSUME PolicyInv, NEW r \in Editors, CommitUpdate(r)
    PROVE  PolicyInv'
  <1>1. PICK p : p = edit[r].p
    OBVIOUS
  <1>2. /\ edit[r].step = "update" /\ p \in Policies /\ policyStatus[p] # "absent"
        /\ edit[r].terms \in FeeTerms /\ edit[r].until \in Nat \cup {Forever}
    BY <1>1, EditFields DEF CommitUpdate, PolicyInv, EditsFit
  <1>3. /\ ~Locked(r, p)
        /\ fee' = [fee EXCEPT ![p] = edit[r].terms]
        /\ form' = [form EXCEPT ![p].until = edit[r].until]
        /\ blind' = [blind EXCEPT ![p] = IF policyStatus[p] = "draft" THEN blind[p] ELSE Policies]
        /\ Ends(r, {p})
        /\ policyStatus' = policyStatus /\ now' = now
    BY <1>1 DEF CommitUpdate
  <1>4. /\ policyStatus \in [Policies -> Statuses]
        /\ form \in [Policies -> Form \cup {Nobody}]
        /\ fee \in [Policies -> FeeTerms \cup {Nobody}]
        /\ blind \in [Policies -> SUBSET Policies]
        /\ now \in Nat
    BY DEF PolicyInv, PolicyType
  <1>5. PICK f : f = [form[p] EXCEPT !.until = edit[r].until]
    OBVIOUS
  <1>6. form[p] \in Form
    BY <1>2 DEF PolicyInv, Stated
  <1>7. /\ f \in Form
        /\ f.scope = form[p].scope /\ f.target = form[p].target /\ f.code = form[p].code /\ f.from = form[p].from
    BY <1>2, <1>5, <1>6 DEF Form
  <1>8. form' = [form EXCEPT ![p] = f]
    BY <1>3, <1>5
  <1>9. /\ \A q \in Policies : q # p => form'[q] = form[q] /\ blind'[q] = blind[q] /\ fee'[q] = fee[q]
        /\ form'[p] = f /\ fee'[p] = edit[r].terms
        /\ policyStatus[p] # "draft" => blind'[p] = Policies
    BY <1>2, <1>3, <1>4, <1>8
  <1>10. PolicyType'
    <2>1. form' \in [Policies -> Form \cup {Nobody}]
      BY <1>4, <1>7, <1>8
    <2>2. fee' \in [Policies -> FeeTerms \cup {Nobody}]
      BY <1>2, <1>3, <1>4
    <2>3. blind' \in [Policies -> SUBSET Policies]
      BY <1>2, <1>3, <1>4
    <2>4. edit' \in [Editors -> Edits]
      BY <1>2, <1>3, OthersGoOn DEF PolicyInv
    <2> QED
      BY <1>3, <1>4, <2>1, <2>2, <2>3, <2>4 DEF PolicyType
  <1>11. Stated'
    BY <1>2, <1>3, <1>7, <1>9 DEF Stated, PolicyInv
  <1>12. EditsFit' /\ OneLooks'
    BY <1>2, <1>3, EndKeepsOthers
  <1>13. EarlyIsBlind'
    <2> SUFFICES ASSUME NEW q \in Policies, policyStatus[q] = "active", form'[q].from > now
                 PROVE  blind'[q] = Policies
      BY <1>3 DEF EarlyIsBlind
    <2>1. CASE q = p
      BY <1>9, <2>1
    <2>2. CASE q # p
      BY <1>9, <2>2 DEF PolicyInv, EarlyIsBlind
    <2> QED
      BY <2>1, <2>2
  <1>14. LiveRivals'
    <2> SUFFICES ASSUME NEW a \in Policies, NEW b \in Policies, a # b, Live(a)', Live(b)', Rivals(a, b)'
                 PROVE  b \in blind'[a] \/ a \in blind'[b]
      BY DEF LiveRivals
    <2>1. CASE a = p \/ b = p
      <3>1. policyStatus[p] = "active"
        BY <1>3, <2>1 DEF Live
      <3> QED
        BY <1>9, <2>1, <3>1
    <2>2. CASE a # p /\ b # p
      <3>1. Live(a) /\ Live(b) /\ Rivals(a, b)
        BY <1>3, <1>9, <2>2 DEF Live, Rivals
      <3> QED
        BY <1>9, <2>2, <3>1 DEF PolicyInv, LiveRivals
    <2> QED
      BY <2>1, <2>2
  <1>15. ASSUME NEW t \in Editors PROVE LookKnows(t)'
    <2>1. CASE t = r
      <3>1. edit'[t].step = "idle"
        BY <1>2, <1>3, <2>1, OthersGoOn DEF PolicyInv
      <3> QED
        BY <3>1 DEF LookKnows
    <2>2. CASE t # r
      <3>1. edit[t].step = "looked" => edit[t].p # p /\ edit[t].p \in Policies
        BY <1>3, <2>2, EditFields DEF Locked, PolicyInv
      <3>2. edit[t].step = "looked" =>
                form'[edit[t].p] = form[edit[t].p] /\ blind'[edit[t].p] = blind[edit[t].p]
        BY <1>9, <3>1
      <3>3. \A q \in Policies \ {p} :
                policyStatus'[q] = policyStatus[q] /\ form'[q] = form[q] /\ blind'[q] = blind[q]
        BY <1>3, <1>9
      <3>4. {p} \in SUBSET Policies /\ now' = now /\ Ends(r, {p})
        BY <1>2, <1>3
      <3> QED
        BY <2>2, <3>2, <3>3, <3>4, EndKeepsLooks
    <2> QED
      BY <2>1, <2>2
  <1> QED
    BY <1>10, <1>11, <1>12, <1>13, <1>14, <1>15 DEF PolicyInv

LEMMA MoveKeepsPolicies ==
    ASSUME PolicyInv, NEW r \in Editors, CommitMove(r)
    PROVE  PolicyInv'
  <1>1. PICK p : p = edit[r].p
    OBVIOUS
  <1>2. /\ edit[r].step = "move" /\ p \in Policies /\ policyStatus[p] # "absent"
        /\ edit[r].to \in Statuses \ {"absent", "active"}
    BY <1>1, EditFields DEF CommitMove, PolicyInv, EditsFit
  <1>3. /\ ~Locked(r, p)
        /\ policyStatus' = [policyStatus EXCEPT ![p] = edit[r].to]
        /\ Ends(r, {p})
        /\ UNCHANGED <<form, fee, blind, now>>
    BY <1>1 DEF CommitMove
  <1>4. policyStatus \in [Policies -> Statuses]
    BY DEF PolicyInv, PolicyType
  <1>5. /\ \A q \in Policies : q # p => policyStatus'[q] = policyStatus[q]
        /\ policyStatus'[p] = edit[r].to
        /\ policyStatus' \in [Policies -> Statuses]
    BY <1>2, <1>3, <1>4
  <1>6. PolicyType'
    <2>1. edit' \in [Editors -> Edits]
      BY <1>2, <1>3, OthersGoOn DEF PolicyInv
    <2> QED
      BY <1>3, <1>5, <2>1 DEF PolicyInv, PolicyType
  <1>7. Stated'
    BY <1>2, <1>3, <1>5 DEF Stated, PolicyInv
  <1>8. EditsFit' /\ OneLooks'
    BY <1>2, <1>3, <1>5, EndKeepsOthers
  <1>9. EarlyIsBlind'
    BY <1>2, <1>3, <1>5 DEF PolicyInv, EarlyIsBlind
  <1>10. LiveRivals'
    BY <1>2, <1>3, <1>5 DEF PolicyInv, LiveRivals, Live, Rivals
  <1>11. ASSUME NEW t \in Editors PROVE LookKnows(t)'
    <2>1. CASE t = r
      <3>1. edit'[t].step = "idle"
        BY <1>2, <1>3, <2>1, OthersGoOn DEF PolicyInv
      <3> QED
        BY <3>1 DEF LookKnows
    <2>2. CASE t # r
      <3>1. \A q \in Policies \ {p} :
                policyStatus'[q] = policyStatus[q] /\ form'[q] = form[q] /\ blind'[q] = blind[q]
        BY <1>3, <1>5
      <3>2. {p} \in SUBSET Policies /\ now' = now /\ form' = form /\ blind' = blind /\ Ends(r, {p})
        BY <1>2, <1>3
      <3> QED
        BY <2>2, <3>1, <3>2, EndKeepsLooks
    <2> QED
      BY <2>1, <2>2
  <1> QED
    BY <1>6, <1>7, <1>8, <1>9, <1>10, <1>11 DEF PolicyInv

\* The activated policy is blind for what its activation has missed; what it
\* has found is in force no more.
LEMMA ActivationKeepsPolicies ==
    ASSUME PolicyInv, NEW r \in Editors, CommitActivation(r)
    PROVE  PolicyInv'
  <1>1. PICK p : p = edit[r].p
    OBVIOUS
  <1>2. PICK found : found = edit[r].found
    OBVIOUS
  <1>3. PICK missed : missed = edit[r].missed
    OBVIOUS
  <1>4. /\ edit[r].step = "looked" /\ p \in Policies /\ policyStatus[p] # "absent"
        /\ found \subseteq Policies /\ missed \subseteq Policies
    BY <1>1, <1>2, <1>3, EditFields DEF CommitActivation, PolicyInv, EditsFit
  <1>5. /\ \A q \in found : ~Locked(r, q)
        /\ policyStatus' = [q \in Policies |-> IF q \in found THEN "superseded"
                                              ELSE IF q = p THEN "active" ELSE policyStatus[q]]
        /\ blind' = [blind EXCEPT ![p] = missed]
        /\ Ends(r, found \cup {p})
        /\ UNCHANGED <<form, fee, now>>
    BY <1>1, <1>2, <1>3 DEF CommitActivation
  <1>6. /\ policyStatus \in [Policies -> Statuses]
        /\ blind \in [Policies -> SUBSET Policies]
    BY DEF PolicyInv, PolicyType
  <1>7. ASSUME NEW q \in Policies
        PROVE  /\ q \in found => policyStatus'[q] = "superseded"
               /\ q \notin found /\ q = p => policyStatus'[q] = "active"
               /\ q \notin found /\ q # p => policyStatus'[q] = policyStatus[q]
    BY <1>5
  <1>8. ASSUME NEW q \in Policies
        PROVE  blind'[q] = IF q = p THEN missed ELSE blind[q]
    BY <1>5, <1>6
  <1>9. PolicyType'
    <2>1. ASSUME NEW q \in Policies PROVE policyStatus'[q] \in Statuses
      <3>1. "superseded" \in Statuses /\ "active" \in Statuses
        BY DEF Statuses
      <3> QED
        BY <1>6, <1>7, <3>1
    <2>2. policyStatus' = [q \in Policies |-> policyStatus'[q]]
      BY <1>5
    <2>3. policyStatus' \in [Policies -> Statuses]
      BY <2>1, <2>2
    <2>4. blind' \in [Policies -> SUBSET Policies]
      BY <1>4, <1>5, <1>6
    <2>5. edit' \in [Editors -> Edits]
      BY <1>4, <1>5, OthersGoOn DEF PolicyInv
    <2> QED
      BY <1>5, <2>3, <2>4, <2>5 DEF PolicyInv, PolicyType
  <1>10. /\ form[p].from > now => missed = Policies
         /\ \A q \in Policies : p # q /\ Live(q) /\ Rivals(p, q) => q \in found \cup missed \/ p \in blind[q]
    BY <1>1, <1>2, <1>3, <1>4 DEF PolicyInv, LookKnows
  <1>11. Stated'
    <2> SUFFICES ASSUME NEW q \in Policies, policyStatus'[q] # "absent", policyStatus[q] = "absent"
                 PROVE  form[q] \in Form /\ fee[q] \in FeeTerms
      BY <1>5 DEF Stated, PolicyInv
    <2>1. q \in found
      BY <1>4, <1>7
    <2> QED
      BY <1>2, <1>4, <2>1 DEF PolicyInv, EditsFit
  <1>12. EditsFit' /\ OneLooks'
    BY <1>4, <1>5, <1>7, EndKeepsOthers
  <1>13. EarlyIsBlind'
    BY <1>5, <1>7, <1>8, <1>10 DEF PolicyInv, EarlyIsBlind
  <1>14. LiveRivals'
    <2> SUFFICES ASSUME NEW a \in Policies, NEW b \in Policies, a # b, Live(a)', Live(b)', Rivals(a, b)'
                 PROVE  b \in blind'[a] \/ a \in blind'[b]
      BY DEF LiveRivals
    <2>1. a \notin found /\ b \notin found
      BY <1>7 DEF Live
    <2>2. Rivals(a, b) /\ Rivals(b, a)
      BY <1>5 DEF Rivals
    <2>3. ASSUME NEW q \in {a, b}, q # p PROVE Live(q)
      BY <1>5, <1>7, <2>1, <2>3 DEF Live
    <2>4. CASE a = p
      <3>1. Live(b) /\ b # p
        BY <2>3, <2>4
      <3> QED
        BY <1>8, <1>10, <2>1, <2>2, <2>4, <3>1
    <2>5. CASE b = p
      <3>1. Live(a) /\ a # p
        BY <2>3, <2>5
      <3> QED
        BY <1>8, <1>10, <2>1, <2>2, <2>5, <3>1
    <2>6. CASE a # p /\ b # p
      BY <1>8, <2>2, <2>3, <2>6 DEF PolicyInv, LiveRivals
    <2> QED
      BY <2>4, <2>5, <2>6
  <1>15. ASSUME NEW t \in Editors PROVE LookKnows(t)'
    <2>1. CASE t = r
      <3>1. edit'[t].step = "idle"
        BY <1>4, <1>5, <2>1, OthersGoOn DEF PolicyInv
      <3> QED
        BY <3>1 DEF LookKnows
    <2>2. CASE t # r
      <3>1. edit[t].step = "looked" => edit[t].p # p /\ edit[t].p \in Policies
        BY <1>1, <1>4, <2>2, EditFields DEF OneLooks, PolicyInv
      <3>2. edit[t].step = "looked" => blind'[edit[t].p] = blind[edit[t].p]
        BY <1>8, <3>1
      <3>3. \A q \in Policies \ (found \cup {p}) :
                policyStatus'[q] = policyStatus[q] /\ form'[q] = form[q] /\ blind'[q] = blind[q]
        BY <1>5, <1>7, <1>8
      <3>4. found \cup {p} \in SUBSET Policies /\ now' = now /\ form' = form /\ Ends(r, found \cup {p})
        BY <1>4, <1>5
      <3> QED
        BY <2>2, <3>2, <3>3, <3>4, EndKeepsLooks
    <2> QED
      BY <2>1, <2>2
  <1> QED
    BY <1>9, <1>11, <1>12, <1>13, <1>14, <1>15 DEF PolicyInv

LEMMA TickKeepsPolicies ==
    ASSUME PolicyInv, Tick
    PROVE  PolicyInv'
  <1>1. now \in Nat /\ now' = now + 1 /\ UNCHANGED <<policyStatus, form, fee, edit, blind>>
    BY DEF Tick, PolicyInv, PolicyType
  <1>2. PolicyType'
    BY <1>1 DEF PolicyInv, PolicyType
  <1>3. ASSUME NEW p \in Policies, policyStatus[p] # "absent"
        PROVE  /\ form[p].from > now' => form[p].from > now
               /\ Live(p)' => Live(p)
    <2>1. form[p].from \in Nat /\ form[p].until \in Nat \cup {Forever}
      BY <1>3 DEF PolicyInv, Stated, Form
    <2> QED
      BY <1>1, <2>1 DEF Live
  <1>4. \A p, q \in Policies : Rivals(p, q)' = Rivals(p, q)
    BY <1>1 DEF Rivals
  <1>5. Stated' /\ EditsFit' /\ OneLooks'
    BY <1>1 DEF PolicyInv, Stated, EditsFit, OneLooks
  <1>6. EarlyIsBlind'
    BY <1>1, <1>3 DEF PolicyInv, EarlyIsBlind
  <1>7. \A p \in Policies : Live(p)' => Live(p)
    <2>1. \A p \in Policies : Live(p)' => policyStatus[p] # "absent"
      BY <1>1 DEF Live
    <2> QED
      BY <1>3, <2>1
  <1>8. LiveRivals'
    BY <1>1, <1>4, <1>7 DEF PolicyInv, LiveRivals
  <1>9. ASSUME NEW r \in Editors PROVE LookKnows(r)'
    <2> SUFFICES ASSUME edit[r].step = "looked" PROVE LookKnows(r)'
      BY <1>1 DEF LookKnows
    <2>1. edit[r].p \in Policies /\ policyStatus[edit[r].p] # "absent"
      BY EditFields DEF PolicyInv, EditsFit
    <2> QED
      BY <1>1, <1>3, <1>4, <1>7, <2>1 DEF PolicyInv, LookKnows
  <1> QED
    BY <1>2, <1>5, <1>6, <1>8, <1>9 DEF PolicyInv

LEMMA PoliciesKept ==
    ASSUME PolicyInv, PolicyNext
    PROVE  PolicyInv'
  <1>1. CASE \E p \in Policies, f \in Forms, terms \in FeeTerms : CreatePolicy(p, f, terms)
    BY <1>1, CreateKeepsPolicies
  <1>2. CASE \E r \in Editors, p \in Policies :
                \/ \E terms \in FeeTerms, f \in Forms : LoadForUpdate(r, p, terms, f.until)
                \/ \E to \in Statuses : LoadForTransition(r, p, to)
    BY <1>2, LoadsKeepPolicies
  <1>3. CASE \E r \in Editors :
                Look(r) \/ CommitUpdate(r) \/ CommitMove(r) \/ CommitActivation(r) \/ DropEdit(r)
    BY <1>3, LookKeepsPolicies, UpdateKeepsPolicies, MoveKeepsPolicies, ActivationKeepsPolicies, DropKeepsPolicies
  <1>4. CASE Tick
    BY <1>4, TickKeepsPolicies
  <1> QED
    BY <1>1, <1>2, <1>3, <1>4 DEF PolicyNext

LEMMA SamePolicies ==
    ASSUME PolicyInv, UNCHANGED policyVars
    PROVE  PolicyInv'
  <1>1. UNCHANGED <<policyStatus, form, fee, edit, blind, now>>
    BY DEF policyVars
  <1>2. edit' \in [Editors -> Edits]
    BY <1>1 DEF PolicyInv, PolicyType
  <1>3. EditsFit' /\ OneLooks'
    BY <1>1 DEF PolicyInv, EditsFit, OneLooks
  <1>4. \A r \in Editors : LookKnows(r)'
    BY <1>1 DEF PolicyInv, LookKnows, Live, Rivals
  <1> QED
    BY <1>1, <1>2, <1>3, <1>4, RequestsKeepPolicies

-----------------------------------------------------------------------------
(* The platform's fee, and the enquiry that is quoted and charged.         *)

\* A fee and the proceeds make up the amount.
Adds(evidence, amount) ==
    evidence # Nobody =>
        /\ evidence.fee >= 0 /\ evidence.proceeds >= 0
        /\ evidence.fee + evidence.proceeds = amount

QuoteInv ==
    /\ brain \in RuleLists
    /\ enquiry \in Offers \cup {Nobody}
    /\ enquiry # Nobody => EnquiryAllowed(brain, enquiry.context)
    /\ quote # Nobody => quote.amount \in Nat /\ Adds(quote.evidence, quote.amount)
    /\ invoice # Nobody =>
          /\ quote # Nobody
          /\ invoice.amount = quote.amount
          /\ quote.evidence # Nobody => invoice.evidence = quote.evidence
          /\ Adds(invoice.evidence, quote.amount)

\* A policy governs if one is in force: of the highest scope, the newest.
LEMMA OneIsEffective ==
    ASSUME PolicyInv, EffectivePolicy # Nobody
    PROVE  EffectivePolicy \in Policies /\ policyStatus[EffectivePolicy] = "active"
  <1>1. PICK candidates : candidates = EffectivePolicies("mine")
    OBVIOUS
  <1>2. candidates \subseteq Policies /\ \A p \in candidates : policyStatus[p] = "active"
    BY <1>1 DEF EffectivePolicies, InForce
  <1>3. candidates # {}
    BY <1>1 DEF EffectivePolicy
  <1>4. ASSUME NEW p \in candidates PROVE Precedence(p) \in 1..5
    <2>1. form[p] \in Form
      BY <1>2 DEF PolicyInv, Stated
    <2>2. \E i \in 1..5 : Scopes[i] = form[p].scope
      BY <2>1 DEF Form
    <2> QED
      BY <2>2 DEF Precedence
  <1>5. PICK ranks : ranks = {i \in 1..5 : \E p \in candidates : i = Precedence(p)}
    OBVIOUS
  <1>6. ranks \in SUBSET (1..5) /\ ranks # {}
    BY <1>3, <1>4, <1>5
  <1>7. PICK top \in ranks : \A i \in ranks : i <= top
    BY <1>6, GreatestNumber
  <1>8. PICK tops : tops = {p \in candidates : Precedence(p) = top}
    OBVIOUS
  <1>9. tops # {}
    BY <1>5, <1>7, <1>8
  <1>10. MaxPolicies \in Nat /\ tops \in SUBSET (1..MaxPolicies)
    BY <1>2, <1>8, PolicyAssumption DEF Policies
  <1>11. PICK p \in tops : \A q \in tops : q <= p
    BY <1>9, <1>10, GreatestNumber
  <1>12. ASSUME NEW q \in candidates
         PROVE  Precedence(q) < Precedence(p) \/ (Precedence(q) = Precedence(p) /\ q <= p)
    <2>1. Precedence(p) = top /\ Precedence(q) \in ranks
      BY <1>4, <1>5, <1>8
    <2>2. Precedence(q) <= top /\ top \in 1..5 /\ Precedence(q) \in 1..5
      BY <1>4, <1>6, <1>7, <2>1
    <2>3. CASE Precedence(q) = top
      BY <1>8, <1>11, <2>1, <2>3
    <2>4. CASE Precedence(q) # top
      BY <2>1, <2>2, <2>4
    <2> QED
      BY <2>3, <2>4
  <1>13. \E c \in candidates : \A q \in candidates :
            Precedence(q) < Precedence(c) \/ (Precedence(q) = Precedence(c) /\ q <= c)
    BY <1>8, <1>12
  <1>14. EffectivePolicy \in candidates
    BY <1>1, <1>3, <1>13 DEF EffectivePolicy
  <1> QED
    BY <1>2, <1>14

LEMMA FeeAndProceeds ==
    ASSUME NEW terms \in Terms, NEW amount \in Nat
    PROVE  /\ PlatformFee(terms, amount) \in Nat /\ BusinessProceeds(terms, amount) \in Nat
           /\ PlatformFee(terms, amount) + BusinessProceeds(terms, amount) = amount
  <1>1. terms.percent \in Nat /\ terms.fixed \in Nat
    BY WholeAssumption DEF Terms
  <1>2. PercentComponent(terms, amount) \in Nat
    BY <1>1, ShareType DEF PercentComponent
  <1>3. FixedComponent(terms) \in Nat
    BY <1>1 DEF FixedComponent
  <1>4. PlatformFee(terms, amount) \in Nat /\ PlatformFee(terms, amount) <= amount
    BY <1>2, <1>3 DEF PlatformFee, Least
  <1> QED
    BY <1>4 DEF BusinessProceeds

LEMMA EvidenceAdds ==
    ASSUME PolicyInv, NEW amount \in Nat
    PROVE  Adds(FeeEvidence(amount), amount)
  <1>1. CASE EffectivePolicy = Nobody
    BY <1>1 DEF Adds, FeeEvidence
  <1>2. CASE EffectivePolicy # Nobody
    <2>1. PICK terms : terms = fee[EffectivePolicy]
      OBVIOUS
    <2>2. terms \in Terms
      BY <1>2, <2>1, OneIsEffective, QuotingAssumption DEF PolicyInv, Stated
    <2>3. FeeEvidence(amount) = [policy |-> EffectivePolicy, fee |-> PlatformFee(terms, amount),
                                 proceeds |-> BusinessProceeds(terms, amount)]
      BY <1>2, <2>1 DEF FeeEvidence
    <2>4. /\ FeeEvidence(amount).fee = PlatformFee(terms, amount)
          /\ FeeEvidence(amount).proceeds = BusinessProceeds(terms, amount)
      BY <2>3
    <2>5. /\ PlatformFee(terms, amount) \in Nat /\ BusinessProceeds(terms, amount) \in Nat
          /\ PlatformFee(terms, amount) + BusinessProceeds(terms, amount) = amount
      BY <2>2, FeeAndProceeds
    <2> QED
      BY <2>4, <2>5 DEF Adds
  <1> QED
    BY <1>1, <1>2

LEMMA InitQuoting ==
    ASSUME QuotingInit
    PROVE  PolicyInv /\ QuoteInv
  BY InitPolicies DEF QuotingInit, QuoteInv

LEMMA EnquiryKeeps ==
    ASSUME PolicyInv, QuoteInv, NEW offer \in Offers, CreateEnquiry(offer)
    PROVE  PolicyInv' /\ QuoteInv'
  <1>1. UNCHANGED policyVars
    BY DEF CreateEnquiry
  <1>2. PolicyInv'
    BY <1>1, SamePolicies
  <1>3. /\ EnquiryAllowed(brain, offer.context) /\ enquiry' = offer
        /\ brain' = brain /\ quote' = quote /\ invoice' = invoice
    BY DEF CreateEnquiry
  <1>4. QuoteInv'
    BY <1>3 DEF QuoteInv, Adds
  <1> QED
    BY <1>2, <1>4

LEMMA QuoteKeeps ==
    ASSUME PolicyInv, QuoteInv, CreateQuote
    PROVE  PolicyInv' /\ QuoteInv'
  <1>1. PICK amount : amount = Price(enquiry, brain, enquiry.context)
    OBVIOUS
  <1>2. /\ enquiry # Nobody /\ quote = Nobody
        /\ quote' = [amount |-> amount, evidence |-> FeeEvidence(amount)]
        /\ brain' = brain /\ enquiry' = enquiry /\ invoice' = invoice /\ UNCHANGED policyVars
    BY <1>1 DEF CreateQuote
  <1>3. PolicyInv'
    BY <1>2, SamePolicies
  <1>4. enquiry \in Offers /\ brain \in Seq(Rule)
    BY <1>2, QuotingAssumption DEF QuoteInv
  <1>5. amount \in Nat
    BY <1>1, <1>4, PriceType
  <1>6. quote'.amount = amount /\ quote'.evidence = FeeEvidence(amount)
    BY <1>2
  <1>7. Adds(quote'.evidence, quote'.amount)
    BY <1>5, <1>6, EvidenceAdds
  <1>8. invoice' = Nobody
    BY <1>2 DEF QuoteInv
  <1> QED
    BY <1>2, <1>3, <1>5, <1>6, <1>7, <1>8 DEF QuoteInv, Adds

LEMMA InvoiceKeeps ==
    ASSUME PolicyInv, QuoteInv, CreateCompletionRecords
    PROVE  PolicyInv' /\ QuoteInv'
  <1>1. /\ quote # Nobody
        /\ invoice' = [amount |-> quote.amount, evidence |-> InvoiceEvidence]
        /\ brain' = brain /\ enquiry' = enquiry /\ quote' = quote /\ UNCHANGED policyVars
    BY DEF CreateCompletionRecords
  <1>2. PolicyInv'
    BY <1>1, SamePolicies
  <1>3. quote.amount \in Nat /\ Adds(quote.evidence, quote.amount)
    BY <1>1 DEF QuoteInv
  <1>4. Adds(InvoiceEvidence, quote.amount)
    BY <1>3, EvidenceAdds DEF InvoiceEvidence
  <1>5. quote.evidence # Nobody => InvoiceEvidence = quote.evidence
    BY DEF InvoiceEvidence
  <1>6. invoice'.amount = quote.amount /\ invoice'.evidence = InvoiceEvidence
    BY <1>1
  <1> QED
    BY <1>1, <1>2, <1>3, <1>4, <1>5, <1>6 DEF QuoteInv, Adds

LEMMA QuotingKept ==
    ASSUME PolicyInv, QuoteInv, [QuotingNext]_fullVars
    PROVE  PolicyInv' /\ QuoteInv'
  <1>1. CASE \E offer \in Offers : CreateEnquiry(offer)
    BY <1>1, EnquiryKeeps
  <1>2. CASE CreateQuote
    BY <1>2, QuoteKeeps
  <1>3. CASE CreateCompletionRecords
    BY <1>3, InvoiceKeeps
  <1>4. CASE PolicyNext /\ UNCHANGED quotingVars
    BY <1>4, PoliciesKept DEF quotingVars, QuoteInv, Adds
  <1>5. CASE UNCHANGED fullVars
    BY <1>5, SamePolicies DEF fullVars, quotingVars, QuoteInv, Adds
  <1> QED
    BY <1>1, <1>2, <1>3, <1>4, <1>5 DEF QuotingNext

\* However activations, edits and expiries interleave, of two rival policies
\* in force one was blind for the other.
THEOREM RivalsWereBlind == QuotingSpec => []OneGoverns
  <1>1. QuotingInit => PolicyInv /\ QuoteInv
    BY InitQuoting
  <1>2. PolicyInv /\ QuoteInv /\ [QuotingNext]_fullVars => (PolicyInv /\ QuoteInv)'
    BY QuotingKept
  <1>3. PolicyInv => OneGoverns
    BY DEF PolicyInv, LiveRivals, OneGoverns, InForce, Live
  <1> QED
    BY <1>1, <1>2, <1>3, PTL DEF QuotingSpec

\* An enquiry the Brain let in would have come in under fewer rules.
THEOREM FewerRulesLetIn == QuotingSpec => []RulesOnlyRestrict
  <1>1. QuotingInit => PolicyInv /\ QuoteInv
    BY InitQuoting
  <1>2. PolicyInv /\ QuoteInv /\ [QuotingNext]_fullVars => (PolicyInv /\ QuoteInv)'
    BY QuotingKept
  <1>3. QuoteInv => RulesOnlyRestrict
    BY FewerRulesAllow, QuotingAssumption DEF QuoteInv, RulesOnlyRestrict
  <1> QED
    BY <1>1, <1>2, <1>3, PTL DEF QuotingSpec

\* What was agreed is what is charged, and fee and proceeds make it up.
THEOREM QuoteIsCharged == QuotingSpec => []AgreedIsCharged
  <1>1. QuotingInit => PolicyInv /\ QuoteInv
    BY InitQuoting
  <1>2. PolicyInv /\ QuoteInv /\ [QuotingNext]_fullVars => (PolicyInv /\ QuoteInv)'
    BY QuotingKept
  <1>3. QuoteInv => AgreedIsCharged
    BY DEF QuoteInv, AgreedIsCharged, Adds
  <1> QED
    BY <1>1, <1>2, <1>3, PTL DEF QuotingSpec

\* The price does not depend on the order the rules are loaded in.
THEOREM OrderIsIrrelevant == QuotingSpec => PriceReproducible
  <1>1. QuotingInit => PolicyInv /\ QuoteInv
    BY InitQuoting
  <1>2. PolicyInv /\ QuoteInv /\ [QuotingNext]_fullVars => (PolicyInv /\ QuoteInv)'
    BY QuotingKept
  <1>3. ASSUME QuoteInv, [QuotingNext]_fullVars
        PROVE  [quote = Nobody /\ quote' # Nobody =>
                   LET Few(type) == Cardinality(OfType(brain, enquiry.context, type)) <= 1
                   IN  Few("price_floor") /\ Few("price_cap") =>
                       \A order \in SetToSeqs(DOMAIN brain) :
                           quote'.amount = Price(enquiry, [i \in DOMAIN brain |-> brain[order[i]]], enquiry.context)
               ]_fullVars
    <2> SUFFICES ASSUME quote = Nobody, quote' # Nobody,
                        Cardinality(OfType(brain, enquiry.context, "price_floor")) <= 1,
                        Cardinality(OfType(brain, enquiry.context, "price_cap")) <= 1,
                        NEW order \in SetToSeqs(DOMAIN brain)
                 PROVE  quote'.amount = Price(enquiry, [i \in DOMAIN brain |-> brain[order[i]]], enquiry.context)
      OBVIOUS
    <2>1. CreateQuote
      BY <1>3 DEF QuotingNext, CreateEnquiry, CreateCompletionRecords, quotingVars, fullVars
    <2>2. enquiry \in Offers /\ brain \in Seq(Rule)
      BY <2>1, QuotingAssumption, <1>3 DEF QuoteInv, CreateQuote
    <2>3. quote'.amount = Price(enquiry, brain, enquiry.context)
      BY <2>1 DEF CreateQuote
    <2>4. Price(enquiry, Reordered(brain, order), enquiry.context) = Price(enquiry, brain, enquiry.context)
      BY <2>2, OrderDoesNotPrice
    <2> QED
      BY <2>3, <2>4 DEF Reordered
  <1> QED
    BY <1>1, <1>2, <1>3, PTL DEF QuotingSpec, PriceReproducible
=============================================================================
