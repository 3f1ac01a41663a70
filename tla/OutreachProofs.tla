--------------------------- MODULE OutreachProofs ---------------------------
(***************************************************************************)
(* Proofs about what a business sends out of its own accord: the runs of a *)
(* voice campaign (Campaigns) and the messages the communication policy    *)
(* lets through (Communications).  They hold for any number of recipients, *)
(* overlapping runs, workers, events, limits and crashes.                  *)
(***************************************************************************)
EXTENDS Campaigns, Communications, FiniteSetTheorems, TLAPS

(***************************************************************************)
(* Campaigns.  A run's own rows are locked for the others, so what it has  *)
(* written and called stands until it commits; a phone that rang is known  *)
(* to the call on record, to the run that rang it, or to nobody any more.  *)
(***************************************************************************)

RunType ==
    [pc : {"idle", "decide", "write"}, todo : SUBSET Recipients, at : Recipients \cup {0},
     decision : {"none", "SKIPPED", "SUPPRESSED", "ELIGIBLE"},
     wrote : [Recipients -> {"none", "CONTACTED", "SKIPPED", "SUPPRESSED", "FAILED"}],
     called : [Recipients -> {"none", "dialled", "refused", "failed"}],
     rang : SUBSET Recipients]

CampaignType ==
    /\ recipient \in [Recipients -> {"absent", "PENDING", "CONTACTED", "SKIPPED", "SUPPRESSED", "FAILED"}]
    /\ contacts \subseteq Recipients
    /\ call \in [Recipients -> {"none", "dialled", "refused", "failed", "over"}]
    /\ rung \in [Recipients -> 0..2]
    /\ run \in [Runs -> RunType]
    /\ lost \subseteq Recipients /\ raced \subseteq Recipients
    /\ late \in [Runs -> 0..2]
    /\ faults \in 0..MaxFaults

\* What a run has read, written and dialled.
InHand(w) ==
    /\ run[w].pc = "idle" => run[w].rang = {}
    /\ run[w].pc = "write" => run[w].at \in run[w].todo
    /\ \A r \in Recipients :
          /\ run[w].wrote[r] # "none" => r \notin run[w].todo
          /\ run[w].called[r] # "none" => run[w].wrote[r] # "none" /\ call[r] \in {"none", "refused"}
          /\ r \in run[w].rang => run[w].called[r] = "dialled"

RowsLocked ==
    \A v, w \in Runs, r \in Recipients :
        run[v].wrote[r] # "none" /\ run[w].wrote[r] # "none" => v = w

RingsKnown ==
    \A r \in Recipients \ lost :
        /\ rung[r] <= 1
        /\ rung[r] = 1 => call[r] \in {"dialled", "over"} \/ \E w \in Runs : r \in run[w].rang

StopHeard ==
    \A w \in Runs : late[w] <= 1 /\ (late[w] = 1 => campaign # "ACTIVE" /\ run[w].pc # "write")

CampaignInv ==
    /\ CampaignType
    /\ \A w \in Runs : InHand(w)
    /\ RowsLocked
    /\ RingsKnown
    /\ StopHeard

LEMMA IdleRunTyped == IdleRun \in RunType /\ IdleRun.rang = {} /\ IdleRun.pc = "idle"
                      /\ \A r \in Recipients : IdleRun.wrote[r] = "none" /\ IdleRun.called[r] = "none"
BY DEF IdleRun, RunType

LEMMA CampaignBegins == CampaignInit => CampaignInv
<1> SUFFICES ASSUME CampaignInit PROVE CampaignInv
  OBVIOUS
<1>1. CampaignType
  BY IdleRunTyped, CampaignAssumption DEF CampaignInit, CampaignType, CampaignAssumption
<1>2. \A w \in Runs : InHand(w)
  BY IdleRunTyped DEF CampaignInit, InHand
<1>3. RowsLocked
  BY IdleRunTyped DEF CampaignInit, RowsLocked
<1>4. RingsKnown /\ StopHeard
  BY IdleRunTyped DEF CampaignInit, RingsKnown, StopHeard
<1> QED
  BY <1>1, <1>2, <1>3, <1>4 DEF CampaignInv

-----------------------------------------------------------------------------
(* One step of a run at a time.  A step that leaves the calls and the      *)
(* phones alone changes only what its run has in hand.                     *)

\* The run w goes on as t: what it wrote stays, and what it adds nobody else wrote.
GoesOn(w, t) ==
    /\ run' = [run EXCEPT ![w] = t]
    /\ t \in RunType
    /\ t.pc = "idle" => t.rang = {}
    /\ t.pc = "write" => t.at \in t.todo
    /\ \A r \in Recipients :
          /\ t.wrote[r] # "none" => r \notin t.todo
          /\ t.called[r] # "none" => t.wrote[r] # "none" /\ call[r] \in {"none", "refused"}
          /\ r \in t.rang => t.called[r] = "dialled"
          /\ t.wrote[r] # "none" => run[w].wrote[r] # "none" \/ ~Locked(w, r)

LEMMA RunGoesOn ==
    ASSUME CampaignInv, NEW w \in Runs, NEW t, GoesOn(w, t), UNCHANGED call
    PROVE  /\ run' \in [Runs -> RunType]
           /\ \A v \in Runs : InHand(v)'
           /\ RowsLocked'
<1> USE DEF GoesOn
<1>1. run \in [Runs -> RunType]
  BY DEF CampaignInv, CampaignType
<1>2. run'[w] = t /\ \A v \in Runs \ {w} : run'[v] = run[v]
  BY <1>1
<1>3. run' \in [Runs -> RunType]
  BY <1>1
<1>4. \A v \in Runs : InHand(v)'
  <2>1. InHand(w)'
    BY <1>2 DEF InHand
  <2>2. ASSUME NEW v \in Runs \ {w} PROVE InHand(v)'
    BY <1>2, <2>2 DEF CampaignInv, InHand
  <2> QED
    BY <2>1, <2>2
<1>5. RowsLocked'
  <2>1. ASSUME NEW r \in Recipients, NEW v \in Runs \ {w},
               run'[v].wrote[r] # "none", run'[w].wrote[r] # "none"
        PROVE  FALSE
    <3>1. run[v].wrote[r] # "none"
      BY <1>2, <2>1
    <3>2. run[w].wrote[r] # "none" \/ ~Locked(w, r)
      BY <1>2, <2>1
    <3> QED
      BY <3>1, <3>2 DEF CampaignInv, RowsLocked, Locked
  <2>2. ASSUME NEW r \in Recipients, NEW v \in Runs \ {w}, NEW u \in Runs \ {w},
               run'[v].wrote[r] # "none", run'[u].wrote[r] # "none"
        PROVE  v = u
    BY <1>2, <2>2 DEF CampaignInv, RowsLocked
  <2> QED
    BY <2>1, <2>2 DEF RowsLocked
<1> QED
  BY <1>3, <1>4, <1>5

LEMMA QuietRun ==
    ASSUME CampaignInv, NEW w \in Runs, NEW t, GoesOn(w, t),
           UNCHANGED <<campaign, recipient, contacts, call, rung, lost, raced, late, faults>>,
           run[w].rang \subseteq t.rang, t.pc = "write" => campaign = "ACTIVE"
    PROVE  CampaignInv'
<1>1. run'[w] = t /\ \A v \in Runs \ {w} : run'[v] = run[v]
  BY DEF CampaignInv, CampaignType, GoesOn
<1>2. run' \in [Runs -> RunType] /\ RowsLocked' /\ \A v \in Runs : InHand(v)'
  BY RunGoesOn
<1>3. CampaignType'
  BY <1>2 DEF CampaignInv, CampaignType
<1>4. RingsKnown'
  BY <1>1 DEF CampaignInv, RingsKnown
<1>5. StopHeard'
  BY <1>1 DEF CampaignInv, StopHeard
<1> QED
  BY <1>2, <1>3, <1>4, <1>5 DEF CampaignInv

LEMMA ExecuteStep == ASSUME CampaignInv, NEW w \in Runs, Execute(w) PROVE CampaignInv'
<1> DEFINE listed == {r \in Recipients : recipient[r] = "PENDING"}
<1>1. PICK t : t = [IdleRun EXCEPT !.pc = "decide", !.todo = listed]
  OBVIOUS
<1>2. t \in RunType /\ t.pc = "decide" /\ t.rang = {}
      /\ \A r \in Recipients : t.wrote[r] = "none" /\ t.called[r] = "none"
  BY <1>1, IdleRunTyped DEF RunType
<1>3. run' = [run EXCEPT ![w] = t] /\ run[w].rang = {}
  BY <1>1 DEF Execute, CampaignInv, InHand
<1>4. GoesOn(w, t)
  BY <1>2, <1>3 DEF GoesOn
<1> QED
  BY <1>2, <1>3, <1>4, QuietRun DEF Execute

LEMMA DecideStep ==
    ASSUME CampaignInv, NEW w \in Runs, NEW r \in Recipients,
           NEW decision \in {"SKIPPED", "SUPPRESSED", "ELIGIBLE"}, Decide(w, r, decision)
    PROVE  CampaignInv'
<1>0. run[w] \in RunType
  BY DEF CampaignInv, CampaignType
<1>1. PICK t : t = [run[w] EXCEPT !.pc = "write", !.at = r, !.decision = decision]
  OBVIOUS
<1>2. t \in RunType /\ t.pc = "write" /\ t.at = r /\ t.todo = run[w].todo
      /\ t.rang = run[w].rang /\ t.wrote = run[w].wrote /\ t.called = run[w].called
  BY <1>0, <1>1 DEF RunType
<1>3. run' = [run EXCEPT ![w] = t]
  BY <1>1 DEF Decide
<1>4. r \in run[w].todo
  BY DEF Decide, Following
<1>5. GoesOn(w, t)
  BY <1>2, <1>3, <1>4 DEF GoesOn, CampaignInv, InHand
<1> QED
  BY <1>2, <1>3, <1>5, QuietRun DEF Decide, Halted

\* The recipient a run is about to write is on its list, and its own.
LEMMA AtItsOwn ==
    ASSUME CampaignInv, NEW w \in Runs, run[w].pc = "write"
    PROVE  run[w] \in RunType /\ run[w].at \in Recipients /\ run[w].at \in run[w].todo
           /\ run[w].wrote[run[w].at] = "none"
BY DEF CampaignInv, CampaignType, InHand, RunType

\* A run after it has written the recipient it was at.
Written(w, status, made, phones) ==
    [run[w] EXCEPT !.pc = "decide", !.todo = @ \ {run[w].at}, !.wrote[run[w].at] = status,
                   !.called[run[w].at] = made, !.rang = phones]

WritesOn(w, status, made, phones) ==
    /\ run[w].pc = "write" /\ ~Locked(w, run[w].at)
    /\ status \in {"CONTACTED", "SKIPPED", "SUPPRESSED", "FAILED"}
    /\ made \in {"none", "dialled", "refused", "failed"}
    /\ made # "none" => call[run[w].at] \in {"none", "refused"}
    /\ \/ phones = run[w].rang
       \/ made = "dialled" /\ phones = run[w].rang \cup {run[w].at}
    /\ run' = [run EXCEPT ![w] = Written(w, status, made, phones)]

LEMMA WritesStep ==
    ASSUME CampaignInv, NEW w \in Runs, NEW s, NEW made, NEW phones, WritesOn(w, s, made, phones)
    PROVE  \E t : GoesOn(w, t) /\ t.pc = "decide" /\ t.rang = phones
<1> USE DEF WritesOn
<1> DEFINE a == run[w].at
<1>1. run[w] \in RunType /\ a \in Recipients /\ a \in run[w].todo
  BY AtItsOwn
<1>2. PICK t : t = [run[w] EXCEPT !.pc = "decide", !.todo = @ \ {a}, !.wrote[a] = s,
                                  !.called[a] = made, !.rang = phones]
  OBVIOUS
<1>3. /\ t \in RunType /\ t.pc = "decide" /\ t.todo = run[w].todo \ {a} /\ t.rang = phones
      /\ t.wrote = [run[w].wrote EXCEPT ![a] = s] /\ t.called = [run[w].called EXCEPT ![a] = made]
  BY <1>1, <1>2 DEF RunType
<1>4. run' = [run EXCEPT ![w] = t]
  BY <1>2 DEF Written
<1>5. ASSUME NEW r \in Recipients
      PROVE  /\ t.wrote[r] # "none" => r \notin t.todo
             /\ t.called[r] # "none" => t.wrote[r] # "none" /\ call[r] \in {"none", "refused"}
             /\ r \in t.rang => t.called[r] = "dialled"
             /\ t.wrote[r] # "none" => run[w].wrote[r] # "none" \/ ~Locked(w, r)
  <2>1. CASE r = a
    <3>1. t.wrote[r] = s /\ t.called[r] = made
      BY <1>1, <1>3, <2>1 DEF RunType
    <3>2. a \notin run[w].rang
      BY <1>1, AtItsOwn DEF CampaignInv, InHand
    <3> QED
      BY <1>3, <2>1, <3>1, <3>2
  <2>2. CASE r # a
    <3>1. t.wrote[r] = run[w].wrote[r] /\ t.called[r] = run[w].called[r]
      BY <1>1, <1>3, <2>2 DEF RunType
    <3> QED
      BY <1>3, <2>2, <3>1 DEF CampaignInv, InHand
  <2> QED
    BY <2>1, <2>2
<1> QED
  BY <1>3, <1>4, <1>5 DEF GoesOn

LEMMA WritesWritten ==
    ASSUME CampaignInv, NEW w \in Runs, NEW s, NEW made, Writes(w, s, made)
    PROVE  run' = [run EXCEPT ![w] = Written(w, s, made, run[w].rang)]
<1>1. run \in [Runs -> RunType] /\ run[w] \in RunType
  BY DEF CampaignInv, CampaignType
<1>2. [run[w] EXCEPT !.pc = "decide", !.todo = @ \ {run[w].at}, !.wrote[run[w].at] = s,
                     !.called[run[w].at] = made]
          = Written(w, s, made, run[w].rang)
  BY <1>1 DEF Written, RunType
<1> QED
  BY <1>1, <1>2 DEF Writes

LEMMA DismissStep == ASSUME CampaignInv, NEW w \in Runs, Dismiss(w) PROVE CampaignInv'
<1>1. PICK phones : phones = run[w].rang
  OBVIOUS
<1>3. PICK s \in {"SKIPPED", "SUPPRESSED"} : s = run[w].decision
  BY DEF Dismiss
<1>4. run' = [run EXCEPT ![w] = Written(w, s, "none", phones)]
  <2>1. Writes(w, s, "none")
    BY <1>3 DEF Dismiss
  <2> QED
    BY <1>1, <2>1, WritesWritten
<1>5. WritesOn(w, s, "none", phones)
  BY <1>1, <1>4 DEF Dismiss, WritesOn
<1>6. PICK t : GoesOn(w, t) /\ t.pc = "decide" /\ t.rang = phones
  BY <1>5, WritesStep
<1> QED
  BY <1>1, <1>6, QuietRun DEF Dismiss

LEMMA ContactAgainStep == ASSUME CampaignInv, NEW w \in Runs, ContactAgain(w) PROVE CampaignInv'
<1>1. PICK phones : phones = run[w].rang
  OBVIOUS
<1>3. run' = [run EXCEPT ![w] = Written(w, "CONTACTED", "none", phones)]
  BY <1>1, WritesWritten DEF ContactAgain
<1>4. WritesOn(w, "CONTACTED", "none", phones)
  BY <1>1, <1>3 DEF ContactAgain, WritesOn
<1>5. PICK t : GoesOn(w, t) /\ t.pc = "decide" /\ t.rang = phones
  BY <1>4, WritesStep
<1> QED
  BY <1>1, <1>5, QuietRun DEF ContactAgain

LEMMA ContactStep ==
    ASSUME CampaignInv, NEW w \in Runs, NEW answer \in {"dialled", "refused", "failed"},
           Contact(w, answer)
    PROVE  CampaignInv'
<1>1. PICK a \in Recipients : a = run[w].at
  BY AtItsOwn DEF Contact
<1>2. /\ run[w] \in RunType /\ a \in run[w].todo /\ run[w].wrote[a] = "none"
      /\ call[a] \in {"none", "refused"} /\ ~Locked(w, a)
  BY <1>1, AtItsOwn DEF Contact, Dialable
<1>3. CASE answer # "dialled"
  <2>1. PICK phones : phones = run[w].rang
    OBVIOUS
  <2>2. PICK s \in {"CONTACTED", "FAILED"} : s = IF answer = "failed" THEN "FAILED" ELSE "CONTACTED"
    OBVIOUS
  <2>3. run' = [run EXCEPT ![w] = Written(w, s, answer, phones)]
    <3>1. Writes(w, s, answer)
      BY <1>3, <2>2 DEF Contact, Writes
    <3> QED
      BY <2>1, <3>1, WritesWritten
  <2>4. PICK t : GoesOn(w, t) /\ t.pc = "decide" /\ t.rang = phones
    <3>1. WritesOn(w, s, answer, phones)
      BY <1>1, <1>2, <2>1, <2>3 DEF Contact, WritesOn
    <3> QED
      BY <3>1, WritesStep
  <2>5. UNCHANGED <<campaign, recipient, contacts, call, rung, lost, raced, late, faults>>
    BY <1>3 DEF Contact
  <2> QED
    BY <2>1, <2>4, <2>5, QuietRun
<1>4. CASE answer = "dialled"
  <2>1. PICK phones : phones = run[w].rang \cup {a}
    OBVIOUS
  <2>2. run' = [run EXCEPT ![w] = Written(w, "CONTACTED", "dialled", phones)]
    BY <1>1, <1>2, <1>4, <2>1 DEF Contact, Written, RunType, CampaignInv, CampaignType
  <2>3. UNCHANGED <<campaign, recipient, contacts, call, lost, raced, faults>>
    BY DEF Contact
  <2>4. PICK t : GoesOn(w, t) /\ t.pc = "decide" /\ t.rang = phones
    <3>1. WritesOn(w, "CONTACTED", "dialled", phones)
      BY <1>1, <1>2, <2>1, <2>2 DEF Contact, WritesOn
    <3> QED
      BY <3>1, WritesStep
  <2>5. run' \in [Runs -> RunType] /\ RowsLocked' /\ \A v \in Runs : InHand(v)'
    BY <2>3, <2>4, RunGoesOn
  <2>6. Rings(w, a)
    BY <1>1, <1>4 DEF Contact
  <2>7. CampaignType'
    BY <2>3, <2>5, <2>6 DEF Rings, CampaignInv, CampaignType
  <2>8. run'[w] = t /\ \A v \in Runs \ {w} : run'[v] = run[v]
    BY <2>4 DEF CampaignInv, CampaignType, GoesOn
  <2>9. RingsKnown'
    <3>1. a \notin lost => rung[a] = 0
      <4>1. \A v \in Runs : a \notin run[v].rang
        BY <1>2 DEF CampaignInv, InHand, Locked
      <4> QED
        BY <1>2, <4>1 DEF CampaignInv, CampaignType, RingsKnown
    <3>2. \A r \in Recipients \ {a} : rung'[r] = rung[r]
      BY <2>6 DEF Rings, CampaignInv, CampaignType
    <3>3. a \notin lost => rung'[a] = 1 /\ a \in run'[w].rang
      BY <2>1, <2>4, <2>6, <2>8, <3>1 DEF Rings, CampaignInv, CampaignType
    <3>4. \A v \in Runs : run[v].rang \subseteq run'[v].rang
      BY <2>1, <2>4, <2>8
    <3>5. ASSUME NEW r \in Recipients \ lost, r # a
          PROVE  rung'[r] <= 1 /\ (rung'[r] = 1 => call[r] \in {"dialled", "over"}
                                                  \/ \E v \in Runs : r \in run'[v].rang)
      BY <3>2, <3>4, <3>5 DEF CampaignInv, RingsKnown
    <3> QED
      BY <2>3, <3>3, <3>5 DEF RingsKnown
  <2>10. StopHeard'
    <3>1. late[w] = 0
      BY DEF Contact, CampaignInv, CampaignType, StopHeard
    <3>2. late' = [late EXCEPT ![w] = IF campaign # "ACTIVE" THEN 1 ELSE 0]
      BY <2>6, <3>1 DEF Rings
    <3> QED
      BY <2>3, <2>4, <2>8, <3>2 DEF CampaignInv, CampaignType, StopHeard
  <2> QED
    BY <2>5, <2>7, <2>9, <2>10 DEF CampaignInv
<1> QED
  BY <1>3, <1>4

LEMMA RollBackStep ==
    ASSUME CampaignInv, NEW w \in Runs, RollBack(w), faults' \in 0..MaxFaults
    PROVE  CampaignInv'
<1>1. PICK t : t = IdleRun
  OBVIOUS
<1>2. GoesOn(w, t) /\ UNCHANGED call /\ t.pc = "idle"
  BY <1>1, IdleRunTyped DEF GoesOn, RollBack
<1>3. run' \in [Runs -> RunType] /\ RowsLocked' /\ \A v \in Runs : InHand(v)'
  BY <1>2, RunGoesOn
<1>4. run[w] \in RunType /\ run'[w] = t /\ \A v \in Runs \ {w} : run'[v] = run[v]
  BY <1>2 DEF CampaignInv, CampaignType, GoesOn
<1>5. CampaignType'
  BY <1>3, <1>4 DEF RollBack, RunType, CampaignInv, CampaignType
<1>6. RingsKnown'
  BY <1>4 DEF RollBack, CampaignInv, RingsKnown
<1>7. StopHeard'
  BY <1>2, <1>4 DEF RollBack, CampaignInv, StopHeard
<1> QED
  BY <1>3, <1>5, <1>6, <1>7 DEF CampaignInv

LEMMA CommitRunStep == ASSUME CampaignInv, NEW w \in Runs, CommitRun(w) PROVE CampaignInv'
<1>0. run \in [Runs -> RunType] /\ run[w] \in RunType
  BY DEF CampaignInv, CampaignType
<1>1. /\ run' = [run EXCEPT ![w] = IdleRun]
      /\ UNCHANGED <<campaign, rung, lost, late, faults>>
      /\ call' = [r \in Recipients |-> IF run[w].called[r] # "none" THEN run[w].called[r] ELSE call[r]]
  BY DEF CommitRun
<1>2. run'[w] = IdleRun /\ \A v \in Runs \ {w} : run'[v] = run[v]
  BY <1>0, <1>1
<1>3. CampaignType'
  <2>1. run' \in [Runs -> RunType]
    BY <1>0, <1>1, IdleRunTyped
  <2>2. call' \in [Recipients -> {"none", "dialled", "refused", "failed", "over"}]
    BY <1>0, <1>1 DEF CampaignInv, CampaignType, RunType
  <2>3. recipient' \in [Recipients -> {"absent", "PENDING", "CONTACTED", "SKIPPED", "SUPPRESSED", "FAILED"}]
    BY <1>0 DEF CommitRun, CampaignInv, CampaignType, RunType
  <2>4. contacts' \subseteq Recipients /\ raced' \subseteq Recipients
    BY <1>0 DEF CommitRun, Attempted, CampaignInv, CampaignType
  <2> QED
    BY <1>1, <2>1, <2>2, <2>3, <2>4 DEF CampaignInv, CampaignType
<1>4. ASSUME NEW v \in Runs PROVE InHand(v)'
  <2>1. CASE v = w
    BY <1>2, <2>1, IdleRunTyped DEF InHand
  <2>2. CASE v # w
    <3>1. ASSUME NEW r \in Recipients, run[v].called[r] # "none" PROVE call'[r] = call[r]
      <4>1. run[v].wrote[r] # "none"
        BY <3>1 DEF CampaignInv, InHand
      <4>2. run[w].wrote[r] = "none"
        BY <2>2, <4>1 DEF CampaignInv, RowsLocked
      <4>3. run[w].called[r] = "none"
        BY <4>2 DEF CampaignInv, InHand
      <4> QED
        BY <1>1, <4>3
    <3> QED
      BY <1>2, <2>2, <3>1 DEF CampaignInv, InHand
  <2> QED
    BY <2>1, <2>2
<1>5. RowsLocked'
  BY <1>2, IdleRunTyped DEF CampaignInv, RowsLocked
<1>6. RingsKnown'
  <2>1. ASSUME NEW r \in Recipients \ lost, rung[r] = 1
        PROVE  call'[r] \in {"dialled", "over"} \/ \E v \in Runs : r \in run'[v].rang
    <3>1. CASE call[r] \in {"dialled", "over"}
      BY <1>1, <3>1 DEF CampaignInv, InHand
    <3>2. ASSUME NEW v \in Runs, r \in run[v].rang, v = w
          PROVE  call'[r] = "dialled"
      BY <1>1, <3>2 DEF CampaignInv, InHand
    <3>3. ASSUME NEW v \in Runs, r \in run[v].rang, v # w
          PROVE  r \in run'[v].rang
      BY <1>2, <3>3
    <3> QED
      BY <2>1, <3>1, <3>2, <3>3 DEF CampaignInv, RingsKnown
  <2> QED
    BY <1>1, <2>1 DEF CampaignInv, RingsKnown
<1>7. StopHeard'
  BY <1>1, <1>2, IdleRunTyped DEF CampaignInv, StopHeard
<1> QED
  BY <1>3, <1>4, <1>5, <1>6, <1>7 DEF CampaignInv

\* What happens beside the runs.
LEMMA BesideStep ==
    ASSUME CampaignInv,
           \/ \E to \in {"SCHEDULED", "ACTIVE", "PAUSED", "COMPLETED", "CANCELLED"} : TransitionCampaign(to)
           \/ \E r \in Recipients : AddRecipient(r) \/ CallEnds(r)
           \/ UNCHANGED campaignVars
    PROVE  CampaignInv'
<1>1. /\ UNCHANGED <<rung, run, lost>>
      /\ call' = call \/ \E r \in Recipients : call[r] = "dialled" /\ call' = [call EXCEPT ![r] = "over"]
      /\ UNCHANGED <<late, campaign>> \/ late' = [w \in Runs |-> 0]
  BY DEF TransitionCampaign, AddRecipient, CallEnds, campaignVars
<1>2. CampaignType'
  BY DEF TransitionCampaign, AddRecipient, CallEnds, campaignVars, CampaignInv, CampaignType
<1>3. \A r \in Recipients : \/ call'[r] = call[r]
                            \/ call[r] = "dialled" /\ call'[r] = "over"
  BY <1>1 DEF CampaignInv, CampaignType
<1>4. RowsLocked' /\ \A w \in Runs : InHand(w)'
  BY <1>1, <1>3 DEF CampaignInv, RowsLocked, InHand
<1>5. RingsKnown'
  BY <1>1, <1>3 DEF CampaignInv, RingsKnown
<1>6. StopHeard'
  BY <1>1 DEF CampaignInv, StopHeard
<1> QED
  BY <1>2, <1>4, <1>5, <1>6 DEF CampaignInv

LEMMA CampaignContinues == CampaignInv /\ [CampaignNext]_campaignVars => CampaignInv'
<1> SUFFICES ASSUME CampaignInv, [CampaignNext]_campaignVars PROVE CampaignInv'
  OBVIOUS
<1>1. ASSUME NEW w \in Runs, Execute(w) \/ Step(w) \/ Crash(w) PROVE CampaignInv'
  <2>1. CASE Execute(w)
    BY <2>1, ExecuteStep
  <2>2. CASE Step(w)
    <3>1. Raise(w) => CampaignInv'
      BY RollBackStep DEF Raise, CampaignInv, CampaignType
    <3> QED
      BY <2>2, <3>1, DecideStep, DismissStep, ContactStep, ContactAgainStep, CommitRunStep DEF Step
  <2>3. CASE Crash(w)
    <3>1. faults' \in 0..MaxFaults
      BY <2>3, CampaignAssumption DEF Crash, CampaignInv, CampaignType, CampaignAssumption
    <3> QED
      BY <2>3, <3>1, RollBackStep DEF Crash
  <2> QED
    BY <1>1, <2>1, <2>2, <2>3
<1> QED
  BY <1>1, BesideStep DEF CampaignNext

LEMMA CampaignStays == CampaignSpec => []CampaignInv
BY CampaignBegins, CampaignContinues, PTL DEF CampaignSpec

\* However many runs of a campaign overlap (execute_campaign locks nothing
\* of its own), a second ring needs a run that was rolled back after it rang.
THEOREM PhoneRingsOnce == CampaignSpec => []RungOnce
<1>1. CampaignInv => RungOnce
  BY DEF CampaignInv, CampaignType, RungOnce, RingsKnown
<1> QED
  BY <1>1, CampaignStays, PTL

\* A campaign that was paused, completed or cancelled costs at most one more
\* call for each run that was under way (process_campaign reads the status
\* before each recipient, not before each call).
THEOREM StopIsHeard == CampaignSpec => []StopsSoon
<1>1. CampaignInv => StopsSoon
  BY DEF CampaignInv, StopHeard, StopsSoon
<1> QED
  BY <1>1, CampaignStays, PTL

(***************************************************************************)
(* Communications.  A worker's event is its own until it commits or gives  *)
(* up, so the row it will insert is not there, no receipt meets it, and an *)
(* opt-out in between is marked.  For the daily limit, a day's rows and    *)
(* the messages in hand for that day are counted together; what a midnight *)
(* adds to the day before it are the transactions it finds open, one for   *)
(* each worker at most.                                                    *)
(***************************************************************************)

TxnType ==
    [step : {"idle", "begun", "inserted", "sent"}, e : Events \cup {"none"}, day : Int, late : BOOLEAN,
     ref : Nat, out : BOOLEAN]
RowType ==
    [status : {"absent", "SENT", "FAILED", "SUCCESS", "DELIVERED", "BOUNCED", "COMPLAINED"},
     day : Int, late : BOOLEAN, ref : Nat]

CommunicationsType ==
    /\ inForce \in Brains /\ provider \in Providers
    /\ channel \in {"absent", "on", "off"}
    /\ purpose \in [{"MARKETING", "TRANSACTIONAL"} -> {"on", "off"}]
    /\ pref \in [{"both", "channel", "purpose", "all"} -> {"absent", "in", "out"}]
    /\ row \in [Events -> RowType]
    /\ txn \in [Workers -> TxnType]
    /\ sends \in [Events -> Nat]
    /\ early \subseteq hooks
    /\ clock \in Nat

\* Some preference is an opt-in, and every opt-out is a broader one.
OptedIn ==
    \E s \in DOMAIN pref : pref[s] = "in" /\
        \A i \in 1..4 : pref[Scopes[i]] = "out" => \E j \in 1..(i - 1) : Scopes[j] = s

UnderWay(w) == txn[w].step \in {"inserted", "sent"}

WorkInv(w) ==
    /\ ~UnderWay(w) => txn[w].e = "none"
    /\ UnderWay(w) =>
          /\ txn[w].e \in Events /\ row[txn[w].e].status = "absent"
          /\ txn[w].ref <= sends[txn[w].e]
          /\ \A h \in hooks : h[1] = Message(txn[w].e, txn[w].ref) /\ h[2] # "other" => h \in early
          /\ txn[w].e \in Marketing => txn[w].out \/ OptedIn

OneHolds == \A v, w \in Workers : UnderWay(v) /\ UnderWay(w) /\ txn[v].e = txn[w].e => v = w

HooksKnown == \A h \in hooks : \E e \in Events : \E k \in 1..sends[e] : h[1] = Message(e, k)

OnTime(d) == {e \in Events : Recorded(e) /\ row[e].day = d /\ ~row[e].late}
HeldFor(d) == {w \in Workers : UnderWay(w) /\ txn[w].day = d /\ ~txn[w].late}

CapInv ==
    inForce # NoBrain /\ inForce.cap # 0 =>
        \A d \in Int :
            Cardinality(OnTime(d)) + Cardinality(HeldFor(d)) <= inForce.cap + Cardinality(Workers) - 1

LateOf(d) == {e \in Events : Recorded(e) /\ row[e].day = d /\ row[e].late}
OpenFor(d) == {w \in Workers : txn[w].step # "idle" /\ txn[w].day = d}

\* Nothing is dated ahead, and what was decided late is of a day that is over.
DatesInv ==
    /\ \A w \in Workers : txn[w].step # "idle" => txn[w].day <= Day
    /\ \A w \in Workers : txn[w].step # "idle" /\ txn[w].late => txn[w].day < Day
    /\ \A e \in Events : Recorded(e) /\ row[e].late => row[e].day < Day

LateInv ==
    \A d \in Int : d < Day => Cardinality(LateOf(d)) + Cardinality(OpenFor(d)) <= Cardinality(Workers)

CommunicationsInv ==
    /\ CommunicationsType
    /\ DatesInv
    /\ LateInv
    /\ \A w \in Workers : WorkInv(w)
    /\ OneHolds
    /\ HooksKnown
    /\ StatusIsEarned
    /\ CapInv

-----------------------------------------------------------------------------
(* The policy's operators.                                                 *)

LEMMA FirstIs ==
    ASSUME NEW S \in SUBSET (1..6), S # {}
    PROVE  First(S) \in S /\ \A j \in S : First(S) <= j
<1>1. \E i \in S : \A j \in S : i <= j
  <2>1. CASE 1 \in S
    BY <2>1
  <2>2. CASE 1 \notin S /\ 2 \in S
    BY <2>2
  <2>3. CASE 1 \notin S /\ 2 \notin S /\ 3 \in S
    BY <2>3
  <2>4. CASE 1 \notin S /\ 2 \notin S /\ 3 \notin S /\ 4 \in S
    BY <2>4
  <2>5. CASE 1 \notin S /\ 2 \notin S /\ 3 \notin S /\ 4 \notin S /\ 5 \in S
    BY <2>5
  <2>6. CASE 1 \notin S /\ 2 \notin S /\ 3 \notin S /\ 4 \notin S /\ 5 \notin S /\ 6 \in S
    BY <2>6
  <2>7. \E i \in 1..6 : i \in S
    OBVIOUS
  <2> QED
    BY <2>1, <2>2, <2>3, <2>4, <2>5, <2>6, <2>7
<1> QED
  BY <1>1 DEF First

\* The most specific preference is the first in the list of scopes.
LEMMA GoverningOptIn ==
    ASSUME pref \in [{"both", "channel", "purpose", "all"} -> {"absent", "in", "out"}],
           Governing = "in"
    PROVE  OptedIn
<1>1. DOMAIN Scopes = 1..4 /\ \A i \in 1..4 : Scopes[i] \in {"both", "channel", "purpose", "all"}
  BY DEF Scopes
<1>2. Chosen \in SUBSET (1..6) /\ Chosen # {}
  BY <1>1 DEF Governing, Chosen
<1>3. PICK k \in Chosen : k = First(Chosen) /\ \A j \in Chosen : k <= j
  BY <1>2, FirstIs
<1>4. pref[Scopes[k]] = "in" /\ k \in 1..4
  BY <1>1, <1>2, <1>3 DEF Governing, Chosen
<1>5. ASSUME NEW i \in 1..4, pref[Scopes[i]] = "out" PROVE k \in 1..(i - 1)
  <2>1. i \in Chosen
    BY <1>1, <1>5 DEF Chosen
  <2>2. k <= i /\ k # i
    BY <1>3, <1>4, <1>5, <2>1
  <2> QED
    BY <1>4, <2>2
<1> QED
  BY <1>1, <1>4, <1>5 DEF OptedIn

\* A message is let through only when no check stands against it.
LEMMA AllowedPasses ==
    ASSUME CommunicationsType, NEW p \in {"MARKETING", "TRANSACTIONAL"}, Decision(p) = "ALLOW"
    PROVE  ConsentVerdict(p) = "PASS" /\ FrequencyVerdict = "PASS"
<1>1. PICK verdicts : verdicts = <<ChannelVerdict, PurposeVerdict(p), ConsentVerdict(p),
                                   TimingVerdict, FrequencyVerdict, BrainVerdict(p)>>
  OBVIOUS
<1>2. /\ DOMAIN verdicts = 1..6
      /\ verdicts[1] = ChannelVerdict /\ verdicts[2] = PurposeVerdict(p)
      /\ verdicts[3] = ConsentVerdict(p) /\ verdicts[4] = TimingVerdict
      /\ verdicts[5] = FrequencyVerdict /\ verdicts[6] = BrainVerdict(p)
  BY <1>1
<1>3. PICK against : against = {i \in DOMAIN verdicts : verdicts[i] # "PASS"}
  OBVIOUS
<1>4. Decision(p) = IF against = {} THEN "ALLOW" ELSE verdicts[First(against)]
  BY <1>1, <1>3 DEF Decision
<1>5. against = {}
  <2>1. SUFFICES ASSUME against # {} PROVE FALSE
    OBVIOUS
  <2>2. First(against) \in against
    BY <1>2, <1>3, <2>1, FirstIs
  <2>3. verdicts[First(against)] = "ALLOW"
    BY <1>4, <2>1
  <2>4. ChannelVerdict # "ALLOW" /\ PurposeVerdict(p) # "ALLOW"
    BY DEF CommunicationsType, ChannelVerdict, PurposeVerdict
  <2>5. ConsentVerdict(p) # "ALLOW" /\ TimingVerdict # "ALLOW" /\ FrequencyVerdict # "ALLOW"
    BY DEF ConsentVerdict, TimingVerdict, FrequencyVerdict
  <2>6. BrainVerdict(p) # "ALLOW"
    BY CommunicationsAssumption DEF CommunicationsAssumption, CommunicationsType, BrainVerdict, Brain
  <2> QED
    BY <1>2, <1>3, <2>2, <2>3, <2>4, <2>5, <2>6
<1> QED
  BY <1>2, <1>3, <1>5

-----------------------------------------------------------------------------
(* Steps.                                                                  *)

LEMMA CountsAreNat ==
    /\ \A d \in Int : /\ IsFiniteSet(OnTime(d)) /\ Cardinality(OnTime(d)) \in Nat
                      /\ IsFiniteSet(HeldFor(d)) /\ Cardinality(HeldFor(d)) \in Nat
                      /\ Cardinality(HeldFor(d)) <= Cardinality(Workers)
    /\ \A d \in Int : /\ IsFiniteSet(LateOf(d)) /\ Cardinality(LateOf(d)) \in Nat
                      /\ IsFiniteSet(OpenFor(d)) /\ Cardinality(OpenFor(d)) \in Nat
                      /\ Cardinality(OpenFor(d)) <= Cardinality(Workers)
    /\ Cardinality(Workers) \in Nat
<1>1. IsFiniteSet(Events) /\ IsFiniteSet(Workers)
  BY CommunicationsAssumption DEF CommunicationsAssumption
<1>2. Cardinality(Workers) \in Nat
  BY <1>1, FS_CardinalityType
<1>3. ASSUME NEW d \in Int
      PROVE  /\ IsFiniteSet(OnTime(d)) /\ Cardinality(OnTime(d)) \in Nat
             /\ IsFiniteSet(HeldFor(d)) /\ Cardinality(HeldFor(d)) \in Nat
             /\ Cardinality(HeldFor(d)) <= Cardinality(Workers)
  <2>1. OnTime(d) \in SUBSET Events /\ HeldFor(d) \in SUBSET Workers
    BY DEF OnTime, HeldFor
  <2>2. IsFiniteSet(OnTime(d)) /\ IsFiniteSet(HeldFor(d))
        /\ Cardinality(HeldFor(d)) <= Cardinality(Workers)
    BY <1>1, <2>1, FS_Subset
  <2> QED
    BY <2>2, FS_CardinalityType
<1>4. ASSUME NEW d \in Int
      PROVE  /\ IsFiniteSet(LateOf(d)) /\ Cardinality(LateOf(d)) \in Nat
             /\ IsFiniteSet(OpenFor(d)) /\ Cardinality(OpenFor(d)) \in Nat
             /\ Cardinality(OpenFor(d)) <= Cardinality(Workers)
  <2>1. LateOf(d) \in SUBSET Events /\ OpenFor(d) \in SUBSET Workers
    BY DEF LateOf, OpenFor
  <2>2. IsFiniteSet(LateOf(d)) /\ IsFiniteSet(OpenFor(d))
        /\ Cardinality(OpenFor(d)) <= Cardinality(Workers)
    BY <1>1, <2>1, FS_Subset
  <2> QED
    BY <2>2, FS_CardinalityType
<1> QED
  BY <1>2, <1>3, <1>4

LEMMA DayIsInt == CommunicationsType => Day \in Int
BY CommunicationsAssumption DEF CommunicationsType, CommunicationsAssumption, Day

\* Nor does what a midnight adds to the day before it grow when the day goes
\* on and no worker opens a transaction dated back.
LEMMA LateStays ==
    ASSUME CommunicationsInv, Day' = Day,
           \A d \in Int : d < Day => LateOf(d)' \subseteq LateOf(d) /\ OpenFor(d)' \subseteq OpenFor(d)
    PROVE  LateInv'
<1> SUFFICES ASSUME NEW d \in Int, d < Day
             PROVE  Cardinality(LateOf(d)') + Cardinality(OpenFor(d)') <= Cardinality(Workers)
  BY DEF LateInv
<1>1. Cardinality(LateOf(d)) + Cardinality(OpenFor(d)) <= Cardinality(Workers)
  BY DEF CommunicationsInv, LateInv
<1>2. /\ Cardinality(LateOf(d)') <= Cardinality(LateOf(d)) /\ Cardinality(LateOf(d)') \in Nat
      /\ Cardinality(OpenFor(d)') <= Cardinality(OpenFor(d)) /\ Cardinality(OpenFor(d)') \in Nat
  BY CountsAreNat, FS_Subset, FS_CardinalityType
<1> QED
  BY <1>1, <1>2, CountsAreNat

\* The limit is kept when no row is added to a day and no worker takes up a message.
LEMMA CapStays ==
    ASSUME CommunicationsInv, inForce' = inForce,
           \A d \in Int : OnTime(d)' \subseteq OnTime(d) /\ HeldFor(d)' \subseteq HeldFor(d)
    PROVE  CapInv'
<1> SUFFICES ASSUME inForce # NoBrain, inForce.cap # 0, NEW d \in Int
             PROVE  Cardinality(OnTime(d)') + Cardinality(HeldFor(d)')
                        <= inForce.cap + Cardinality(Workers) - 1
  BY DEF CapInv
<1>1. inForce.cap \in Nat
  BY CommunicationsAssumption
     DEF CommunicationsAssumption, CommunicationsInv, CommunicationsType, Brain
<1>2. Cardinality(OnTime(d)) + Cardinality(HeldFor(d)) <= inForce.cap + Cardinality(Workers) - 1
  BY DEF CommunicationsInv, CapInv
<1>3. /\ Cardinality(OnTime(d)') <= Cardinality(OnTime(d)) /\ Cardinality(OnTime(d)') \in Nat
      /\ Cardinality(HeldFor(d)') <= Cardinality(HeldFor(d)) /\ Cardinality(HeldFor(d)') \in Nat
  BY CountsAreNat, FS_Subset, FS_CardinalityType
<1> QED
  BY <1>1, <1>2, <1>3, CountsAreNat

LEMMA IdleTyped ==
    NoTxn \in TxnType /\ NoTxn.step = "idle" /\ NoTxn.e = "none" /\ NoTxn.late = FALSE
BY DEF NoTxn, TxnType

LEMMA BeginStep == ASSUME CommunicationsInv, NEW w \in Workers, BeginTxn(w) PROVE CommunicationsInv'
<1>1. UNCHANGED <<inForce, provider, channel, purpose, pref, row, sends, hooks, early, clock>>
      /\ Day' = Day /\ Day \in Int
  BY DayIsInt DEF BeginTxn, configVars, providerVars, Day, CommunicationsInv
<1>2. PICK t : t = [NoTxn EXCEPT !.step = "begun", !.day = Day]
  OBVIOUS
<1>3. t \in TxnType /\ t.step = "begun" /\ t.e = "none" /\ t.day = Day /\ t.late = FALSE
  BY <1>1, <1>2 DEF NoTxn, TxnType
<1>4. txn' = [txn EXCEPT ![w] = t] /\ txn'[w] = t /\ \A v \in Workers \ {w} : txn'[v] = txn[v]
  BY <1>2 DEF BeginTxn, CommunicationsInv, CommunicationsType
<1>5. CommunicationsType' /\ OptedIn' = OptedIn
  BY <1>1, <1>3, <1>4 DEF CommunicationsInv, CommunicationsType, OptedIn
<1>6. \A v \in Workers : WorkInv(v)'
  BY <1>1, <1>3, <1>4, <1>5 DEF CommunicationsInv, WorkInv, UnderWay
<1>7. OneHolds'
  BY <1>3, <1>4 DEF CommunicationsInv, OneHolds, UnderWay
<1>8. HooksKnown' /\ StatusIsEarned'
  BY <1>1 DEF CommunicationsInv, HooksKnown, StatusIsEarned
<1>9. CapInv'
  <2>1. \A d \in Int : OnTime(d)' \subseteq OnTime(d)
    BY <1>1 DEF OnTime, Recorded
  <2>2. \A d \in Int : HeldFor(d)' \subseteq HeldFor(d)
    BY <1>3, <1>4 DEF HeldFor, UnderWay
  <2> QED
    BY <1>1, <2>1, <2>2, CapStays
<1>10. DatesInv'
  BY <1>1, <1>3, <1>4 DEF CommunicationsInv, DatesInv, Recorded
<1>11. LateInv'
  <2>1. \A d \in Int : LateOf(d)' \subseteq LateOf(d)
    BY <1>1 DEF LateOf, Recorded
  <2>2. \A d \in Int : d < Day => OpenFor(d)' \subseteq OpenFor(d)
    BY <1>1, <1>3, <1>4 DEF OpenFor
  <2> QED
    BY <1>1, <2>1, <2>2, LateStays
<1> QED
  BY <1>5, <1>6, <1>7, <1>8, <1>9, <1>10, <1>11 DEF CommunicationsInv

LEMMA InsertStep ==
    ASSUME CommunicationsInv, NEW w \in Workers, NEW e \in Events, Insert(w, e)
    PROVE  CommunicationsInv'
<1> USE DEF Insert
<1>0. Day \in Int /\ txn[w] \in TxnType /\ txn[w].step = "begun"
  BY DayIsInt DEF Takes, CommunicationsInv, CommunicationsType
<1>1. PICK t : t = [step |-> "inserted", e |-> e, day |-> txn[w].day, late |-> txn[w].day # Day,
                    ref |-> 0, out |-> FALSE]
  OBVIOUS
<1>2. /\ t \in TxnType /\ t.step = "inserted" /\ t.e = e /\ t.ref = 0
      /\ t.day = txn[w].day /\ (t.late <=> t.day # Day)
  BY <1>0, <1>1 DEF TxnType
<1>3. txn' = [txn EXCEPT ![w] = t] /\ txn'[w] = t /\ \A v \in Workers \ {w} : txn'[v] = txn[v]
  BY <1>1 DEF CommunicationsInv, CommunicationsType
<1>4. UNCHANGED <<inForce, provider, channel, purpose, pref, row, sends, hooks, early, clock>>
  BY DEF configVars, providerVars
<1>5. ~UnderWay(w) /\ row[e].status = "absent" /\ \A v \in Workers \ {w} : txn[v].e # e
  BY DEF Takes, Alone, UnderWay
<1>6. CommunicationsType'
  BY <1>2, <1>3, <1>4 DEF CommunicationsInv, CommunicationsType
<1>7. OptedIn' = OptedIn
  BY <1>4 DEF OptedIn
<1>8. WorkInv(w)'
  <2>1. e \in Marketing => OptedIn
    <3>1. e \in Marketing => ConsentVerdict("MARKETING") = "PASS"
      BY AllowedPasses DEF Purpose, CommunicationsInv
    <3>2. e \in Marketing => Governing = "in"
      BY <3>1 DEF ConsentVerdict
    <3> QED
      BY <3>2, GoverningOptIn DEF CommunicationsInv, CommunicationsType
  <2>2. \A h \in hooks : h[1] # Message(e, 0)
    BY DEF CommunicationsInv, CommunicationsType, HooksKnown, Message
  <2>3. sends[e] \in Nat
    BY DEF CommunicationsInv, CommunicationsType
  <2> QED
    BY <1>2, <1>3, <1>4, <1>5, <1>7, <2>1, <2>2, <2>3 DEF WorkInv, UnderWay
<1>9. ASSUME NEW v \in Workers \ {w} PROVE WorkInv(v)'
  BY <1>3, <1>4, <1>7 DEF CommunicationsInv, WorkInv, UnderWay
<1>10. OneHolds'
  BY <1>2, <1>3, <1>5 DEF CommunicationsInv, OneHolds, UnderWay
<1>11. HooksKnown' /\ StatusIsEarned'
  BY <1>4 DEF CommunicationsInv, HooksKnown, StatusIsEarned
<1>12. CapInv'
  <2> SUFFICES ASSUME inForce # NoBrain, inForce.cap # 0, NEW d \in Int
               PROVE  Cardinality(OnTime(d)') + Cardinality(HeldFor(d)')
                          <= inForce.cap + Cardinality(Workers) - 1
    BY <1>4 DEF CapInv
  <2>1. inForce.cap \in Nat
    BY CommunicationsAssumption
       DEF CommunicationsAssumption, CommunicationsInv, CommunicationsType, Brain
  <2>2. OnTime(d)' = OnTime(d)
    BY <1>4 DEF OnTime, Recorded
  <2>3. CASE d # Day
    <3>1. HeldFor(d)' = HeldFor(d)
      BY <1>0, <1>2, <1>3, <1>5, <2>3 DEF HeldFor, UnderWay
    <3> QED
      BY <2>2, <3>1 DEF CommunicationsInv, CapInv
  <2>4. CASE d = Day
    <3>1. Cardinality(OnTime(Day)) <= Cardinality(CreatedToday) /\ Cardinality(CreatedToday) \in Nat
      <4>1. OnTime(Day) \in SUBSET CreatedToday /\ CreatedToday \in SUBSET Events
        BY <1>0 DEF CreatedToday, OnTime, Recorded
      <4>2. IsFiniteSet(CreatedToday)
        BY <4>1, CommunicationsAssumption, FS_Subset DEF CommunicationsAssumption
      <4> QED
        BY <4>1, <4>2, FS_Subset, FS_CardinalityType
    <3>2. FrequencyVerdict = "PASS"
      BY AllowedPasses DEF Purpose, CommunicationsInv
    <3>3. ~(Cardinality(OnTime(Day)) >= inForce.cap)
      BY <1>0, <2>1, <3>1, <3>2, CountsAreNat DEF FrequencyVerdict
    <3>4. Cardinality(HeldFor(d)') <= Cardinality(Workers) /\ Cardinality(HeldFor(d)') \in Nat
      <4>1. HeldFor(d)' \in SUBSET Workers
        BY DEF HeldFor
      <4> QED
        BY <4>1, CommunicationsAssumption, FS_Subset, FS_CardinalityType DEF CommunicationsAssumption
    <3> QED
      BY <2>1, <2>2, <2>4, <3>3, <3>4, CountsAreNat
  <2> QED
    BY <2>3, <2>4
<1>13. Day' = Day
  BY <1>4 DEF Day
<1>14. DatesInv'
  <2>1. txn[w].day <= Day /\ txn[w].day \in Int
    BY <1>0 DEF CommunicationsInv, DatesInv, TxnType
  <2> QED
    BY <1>0, <1>2, <1>3, <1>4, <1>13, <2>1 DEF CommunicationsInv, DatesInv, Recorded
<1>15. LateInv'
  <2>1. \A d \in Int : LateOf(d)' \subseteq LateOf(d)
    BY <1>4 DEF LateOf, Recorded
  <2>2. \A d \in Int : OpenFor(d)' \subseteq OpenFor(d)
    BY <1>0, <1>2, <1>3 DEF OpenFor
  <2> QED
    BY <1>13, <2>1, <2>2, LateStays
<1> QED
  BY <1>6, <1>8, <1>9, <1>10, <1>11, <1>12, <1>14, <1>15 DEF CommunicationsInv

LEMMA SendStep == ASSUME CommunicationsInv, NEW w \in Workers, Send(w) PROVE CommunicationsInv'
<1>0. txn[w] \in TxnType /\ txn[w].step = "inserted" /\ UnderWay(w) /\ txn[w].e \in Events
  BY DEF Send, UnderWay, CommunicationsInv, CommunicationsType, WorkInv
<1>1. PICK e \in Events : e = txn[w].e
  BY <1>0
<1>2. PICK k : k = sends[e] + 1
  OBVIOUS
<1>3. k \in Nat \ {0} /\ sends[e] \in Nat
  BY <1>2 DEF CommunicationsInv, CommunicationsType
<1>4. UNCHANGED <<inForce, provider, channel, purpose, pref, row, hooks, early, clock>>
  BY DEF Send, configVars
<1>5. \/ /\ sends' = [sends EXCEPT ![e] = k]
         /\ txn' = [txn EXCEPT ![w].step = "sent", ![w].ref = k]
      \/ /\ txn' = [txn EXCEPT ![w].step = "sent"]
         /\ sends' = sends
  BY <1>1, <1>2 DEF Send
<1>6. /\ txn'[w] \in TxnType /\ txn'[w].step = "sent" /\ txn'[w].e = e /\ txn'[w].day = txn[w].day
      /\ txn'[w].out = txn[w].out /\ txn'[w].late = txn[w].late
      /\ txn'[w].ref = txn[w].ref \/ (txn'[w].ref = k /\ sends'[e] = k)
  BY <1>0, <1>1, <1>3, <1>5 DEF TxnType, CommunicationsInv, CommunicationsType
<1>7. \A v \in Workers \ {w} : txn'[v] = txn[v]
  BY <1>5 DEF CommunicationsInv, CommunicationsType
<1>8. txn' \in [Workers -> TxnType] /\ sends' \in [Events -> Nat]
  <2>1. DOMAIN txn' = Workers /\ txn' = [v \in Workers |-> txn'[v]]
    BY <1>5 DEF CommunicationsInv, CommunicationsType
  <2>2. \A v \in Workers : txn'[v] \in TxnType
    BY <1>6, <1>7 DEF CommunicationsInv, CommunicationsType
  <2> QED
    BY <1>3, <1>5, <2>1, <2>2 DEF CommunicationsInv, CommunicationsType
<1>9. \A f \in Events : sends[f] \in Nat /\ sends'[f] \in Nat /\ sends[f] <= sends'[f]
  BY <1>2, <1>5, <1>8 DEF CommunicationsInv, CommunicationsType
<1>10. CommunicationsType' /\ OptedIn' = OptedIn
  BY <1>4, <1>8 DEF CommunicationsInv, CommunicationsType, OptedIn
<1>11. ASSUME NEW v \in Workers PROVE WorkInv(v)'
  <2>1. CASE v = w
    <3>1. \A h \in hooks : h[1] # Message(e, k)
      BY <1>2, <1>3 DEF CommunicationsInv, HooksKnown, Message
    <3>2. txn'[w].ref <= sends'[e]
      BY <1>0, <1>1, <1>6, <1>9 DEF CommunicationsInv, WorkInv, TxnType
    <3> QED
      BY <1>0, <1>1, <1>4, <1>6, <1>10, <2>1, <3>1, <3>2 DEF CommunicationsInv, WorkInv, UnderWay
  <2>2. CASE v # w
    <3>1. txn[v].ref \in Nat
      BY DEF CommunicationsInv, CommunicationsType, TxnType
    <3> QED
      BY <1>4, <1>7, <1>9, <1>10, <2>2, <3>1 DEF CommunicationsInv, WorkInv, UnderWay
  <2> QED
    BY <2>1, <2>2
<1>12. OneHolds'
  BY <1>0, <1>1, <1>6, <1>7 DEF CommunicationsInv, OneHolds, UnderWay
<1>13. HooksKnown'
  BY <1>4, <1>9 DEF CommunicationsInv, HooksKnown
<1>14. StatusIsEarned'
  BY <1>4 DEF CommunicationsInv, StatusIsEarned
<1>15. CapInv'
  <2>1. \A d \in Int : OnTime(d)' \subseteq OnTime(d)
    BY <1>4 DEF OnTime, Recorded
  <2>2. \A d \in Int : HeldFor(d)' \subseteq HeldFor(d)
    BY <1>0, <1>6, <1>7 DEF HeldFor, UnderWay
  <2> QED
    BY <1>4, <2>1, <2>2, CapStays
<1>16. Day' = Day
  BY <1>4 DEF Day
<1>17. DatesInv'
  BY <1>4, <1>0, <1>6, <1>7, <1>16 DEF CommunicationsInv, DatesInv, Recorded
<1>18. LateInv'
  <2>1. \A d \in Int : LateOf(d)' \subseteq LateOf(d)
    BY <1>4 DEF LateOf, Recorded
  <2>2. \A d \in Int : OpenFor(d)' \subseteq OpenFor(d)
    BY <1>0, <1>6, <1>7 DEF OpenFor
  <2> QED
    BY <1>16, <2>1, <2>2, LateStays
<1> QED
  BY <1>10, <1>11, <1>12, <1>13, <1>14, <1>15, <1>17, <1>18 DEF CommunicationsInv

LEMMA AbortStep == ASSUME CommunicationsInv, NEW w \in Workers, Abort(w) PROVE CommunicationsInv'
<1>1. UNCHANGED <<inForce, provider, channel, purpose, pref, row, sends, hooks, early, clock>>
  BY DEF Abort, configVars, providerVars
<1>2. txn' = [txn EXCEPT ![w] = NoTxn] /\ txn'[w] = NoTxn /\ \A v \in Workers \ {w} : txn'[v] = txn[v]
  BY DEF Abort, CommunicationsInv, CommunicationsType
<1>3. CommunicationsType' /\ OptedIn' = OptedIn
  BY <1>1, <1>2, IdleTyped DEF CommunicationsInv, CommunicationsType, OptedIn
<1>4. \A v \in Workers : WorkInv(v)'
  BY <1>1, <1>2, <1>3, IdleTyped DEF CommunicationsInv, WorkInv, UnderWay
<1>5. OneHolds'
  BY <1>2, IdleTyped DEF CommunicationsInv, OneHolds, UnderWay
<1>6. HooksKnown' /\ StatusIsEarned'
  BY <1>1 DEF CommunicationsInv, HooksKnown, StatusIsEarned
<1>7. CapInv'
  <2>1. \A d \in Int : OnTime(d)' \subseteq OnTime(d)
    BY <1>1 DEF OnTime, Recorded
  <2>2. \A d \in Int : HeldFor(d)' \subseteq HeldFor(d)
    BY <1>2, IdleTyped DEF HeldFor, UnderWay
  <2> QED
    BY <1>1, <2>1, <2>2, CapStays
<1>8. Day' = Day
  BY <1>1 DEF Day
<1>9. DatesInv'
  BY <1>1, <1>2, IdleTyped, <1>8 DEF CommunicationsInv, DatesInv, Recorded
<1>10. LateInv'
  <2>1. \A d \in Int : LateOf(d)' \subseteq LateOf(d)
    BY <1>1 DEF LateOf, Recorded
  <2>2. \A d \in Int : OpenFor(d)' \subseteq OpenFor(d)
    BY <1>2, IdleTyped DEF OpenFor
  <2> QED
    BY <1>8, <2>1, <2>2, LateStays
<1> QED
  BY <1>3, <1>4, <1>5, <1>6, <1>7, <1>9, <1>10 DEF CommunicationsInv

LEMMA CommitStep == ASSUME CommunicationsInv, NEW w \in Workers, Commit(w) PROVE CommunicationsInv'
<1>0. txn[w] \in TxnType /\ UnderWay(w) /\ txn[w].e \in Events /\ row[txn[w].e].status = "absent"
  BY DEF Commit, UnderWay, CommunicationsInv, CommunicationsType, WorkInv
<1>1. PICK e \in Events : e = txn[w].e
  BY <1>0
<1>2. UNCHANGED <<inForce, provider, channel, purpose, pref, sends, hooks, early, clock>>
  BY DEF Commit, configVars, providerVars
<1>3. PICK new : new = [status |-> IF txn[w].ref = 0 THEN "FAILED" ELSE "SENT",
                        day |-> txn[w].day, late |-> txn[w].late, ref |-> txn[w].ref]
  OBVIOUS
<1>4. /\ new \in RowType /\ new.day = txn[w].day /\ new.ref = txn[w].ref /\ new.late = txn[w].late
      /\ new.status \in {"FAILED", "SENT"}
  BY <1>0, <1>3 DEF RowType, TxnType
<1>5. row' = [row EXCEPT ![e] = new] /\ row'[e] = new /\ \A f \in Events \ {e} : row'[f] = row[f]
  BY <1>1, <1>3 DEF Commit, CommunicationsInv, CommunicationsType
<1>6. txn' = [txn EXCEPT ![w] = NoTxn] /\ txn'[w] = NoTxn /\ \A v \in Workers \ {w} : txn'[v] = txn[v]
  BY DEF Commit, CommunicationsInv, CommunicationsType
<1>7. CommunicationsType' /\ OptedIn' = OptedIn
  BY <1>2, <1>4, <1>5, <1>6, IdleTyped DEF CommunicationsInv, CommunicationsType, OptedIn
<1>8. \A v \in Workers : WorkInv(v)'
  <2>1. ASSUME NEW v \in Workers \ {w}, UnderWay(v) PROVE txn[v].e # e
    BY <1>0, <1>1, <2>1 DEF CommunicationsInv, OneHolds
  <2> QED
    BY <1>2, <1>5, <1>6, <1>7, <2>1, IdleTyped DEF CommunicationsInv, WorkInv, UnderWay
<1>9. OneHolds'
  BY <1>6, IdleTyped DEF CommunicationsInv, OneHolds, UnderWay
<1>10. HooksKnown'
  BY <1>2 DEF CommunicationsInv, HooksKnown
<1>11. StatusIsEarned'
  <2>1. \A h \in hooks : h[1] = Message(e, new.ref) /\ h[2] # "other" => h \in early
    BY <1>0, <1>1, <1>4 DEF CommunicationsInv, WorkInv
  <2>2. ASSUME NEW f \in Events, f # e
        PROVE  /\ row'[f].status = "DELIVERED" =>
                     \E h \in hooks : h[1] = Message(f, row'[f].ref) /\ h[2] \in Delivered
               /\ row'[f].status = "SENT" =>
                     \A h \in hooks : h[1] = Message(f, row'[f].ref) /\ h[2] # "other" => h \in early
    BY <1>5, <2>2 DEF CommunicationsInv, StatusIsEarned
  <2> QED
    BY <1>2, <1>4, <1>5, <2>1, <2>2 DEF StatusIsEarned
<1>12. CapInv'
  <2> SUFFICES ASSUME inForce # NoBrain, inForce.cap # 0, NEW d \in Int
               PROVE  Cardinality(OnTime(d)') + Cardinality(HeldFor(d)')
                          <= inForce.cap + Cardinality(Workers) - 1
    BY <1>2 DEF CapInv
  <2>1. inForce.cap \in Nat
    BY CommunicationsAssumption
       DEF CommunicationsAssumption, CommunicationsInv, CommunicationsType, Brain
  <2>2. Cardinality(OnTime(d)) + Cardinality(HeldFor(d)) <= inForce.cap + Cardinality(Workers) - 1
    BY DEF CommunicationsInv, CapInv
  <2>3. CASE d # txn[w].day \/ txn[w].late
    <3>1. OnTime(d)' = OnTime(d)
      BY <1>0, <1>1, <1>4, <1>5, <2>3 DEF OnTime, Recorded
    <3>2. HeldFor(d)' = HeldFor(d)
      BY <1>6, <2>3, IdleTyped DEF HeldFor, UnderWay
    <3> QED
      BY <2>2, <3>1, <3>2
  <2>4. CASE d = txn[w].day /\ ~txn[w].late
    <3>1. OnTime(d)' = OnTime(d) \cup {e}
      BY <1>4, <1>5, <2>4 DEF OnTime, Recorded
    <3>2. Cardinality(OnTime(d)') <= Cardinality(OnTime(d)) + 1 /\ Cardinality(OnTime(d)') \in Nat
      <4>1. IsFiniteSet(OnTime(d)) /\ Cardinality(OnTime(d)) \in Nat
        BY CountsAreNat
      <4>2. Cardinality(OnTime(d) \cup {e}) =
                IF e \in OnTime(d) THEN Cardinality(OnTime(d)) ELSE Cardinality(OnTime(d)) + 1
        BY <4>1, FS_AddElement
      <4> QED
        BY <3>1, <4>1, <4>2
    <3>3. HeldFor(d)' = HeldFor(d) \ {w} /\ w \in HeldFor(d)
      BY <1>0, <1>6, <2>4, IdleTyped DEF HeldFor, UnderWay
    <3>4. Cardinality(HeldFor(d)') = Cardinality(HeldFor(d)) - 1
      BY <3>3, CountsAreNat, FS_RemoveElement
    <3> QED
      BY <2>1, <2>2, <3>2, <3>4, CountsAreNat
  <2> QED
    BY <2>3, <2>4
<1>13. Day' = Day
  BY <1>2 DEF Day
<1>14. DatesInv'
  BY <1>0, <1>1, <1>4, <1>5, <1>6, <1>13, IdleTyped DEF CommunicationsInv, DatesInv, Recorded, UnderWay
<1>15. LateInv'
  <2> SUFFICES ASSUME NEW d \in Int, d < Day
               PROVE  Cardinality(LateOf(d)') + Cardinality(OpenFor(d)') <= Cardinality(Workers)
    BY <1>13 DEF LateInv
  <2>1. Cardinality(LateOf(d)) + Cardinality(OpenFor(d)) <= Cardinality(Workers)
    BY DEF CommunicationsInv, LateInv
  <2>2. CASE d # txn[w].day
    <3>1. LateOf(d)' = LateOf(d)
      BY <1>0, <1>1, <1>4, <1>5, <2>2 DEF LateOf, Recorded
    <3>2. OpenFor(d)' = OpenFor(d)
      BY <1>6, <2>2, IdleTyped DEF OpenFor
    <3> QED
      BY <2>1, <3>1, <3>2
  <2>3. CASE d = txn[w].day
    <3>1. LateOf(d)' \subseteq LateOf(d) \cup {e}
      BY <1>5 DEF LateOf, Recorded
    <3>2. Cardinality(LateOf(d)') <= Cardinality(LateOf(d)) + 1 /\ Cardinality(LateOf(d)') \in Nat
      <4>1. IsFiniteSet(LateOf(d)) /\ Cardinality(LateOf(d)) \in Nat
        BY CountsAreNat
      <4>2. /\ IsFiniteSet(LateOf(d) \cup {e})
            /\ Cardinality(LateOf(d) \cup {e}) =
                  IF e \in LateOf(d) THEN Cardinality(LateOf(d)) ELSE Cardinality(LateOf(d)) + 1
        BY <4>1, FS_AddElement
      <4>3. Cardinality(LateOf(d)') <= Cardinality(LateOf(d) \cup {e}) /\ IsFiniteSet(LateOf(d)')
        BY <3>1, <4>2, FS_Subset
      <4>4. Cardinality(LateOf(d)') \in Nat
        BY <4>3, FS_CardinalityType
      <4> QED
        BY <4>1, <4>2, <4>3, <4>4
    <3>3. OpenFor(d)' = OpenFor(d) \ {w} /\ w \in OpenFor(d)
      BY <1>0, <1>6, <2>3, IdleTyped DEF OpenFor, UnderWay
    <3>4. Cardinality(OpenFor(d)') = Cardinality(OpenFor(d)) - 1
      BY <3>3, CountsAreNat, FS_RemoveElement
    <3> QED
      BY <2>1, <3>2, <3>4, CountsAreNat
  <2> QED
    BY <2>2, <2>3
<1> QED
  BY <1>7, <1>8, <1>9, <1>10, <1>11, <1>12, <1>14, <1>15 DEF CommunicationsInv

LEMMA ReceiveStep ==
    ASSUME CommunicationsInv, NEW m \in Messages, NEW s \in Receipts, ReceiveWebhook(m, s)
    PROVE  CommunicationsInv'
<1>1. UNCHANGED <<inForce, provider, channel, purpose, pref, txn, sends, clock>>
      /\ hooks' = hooks \cup {<<m, s>>}
  BY DEF ReceiveWebhook, configVars
<1>2. PICK f \in Events : \E k \in 1..sends[f] : m = Message(f, k)
  BY DEF Messages, Message, CommunicationsInv, CommunicationsType
<1>3. Attempts(m) \subseteq {f}
  BY <1>2 DEF Attempts, Message
<1>4. s # "other" =>
         /\ Status(s) \in {"SUCCESS", "DELIVERED", "FAILED", "BOUNCED", "COMPLAINED"}
         /\ Status(s) = "DELIVERED" => s \in Delivered
  BY DEF Receipts, Status, VonageStatus, ResendStatus, Delivered
<1>5. ASSUME NEW e \in Events
      PROVE  /\ row'[e] \in RowType /\ row'[e].day = row[e].day /\ row'[e].ref = row[e].ref
             /\ row'[e].late = row[e].late
             /\ Recorded(e)' <=> Recorded(e)
             /\ row'[e].status = IF s # "other" /\ e \in Attempts(m) THEN Status(s) ELSE row[e].status
  <2>1. row[e] \in RowType
    BY DEF CommunicationsInv, CommunicationsType
  <2>2. row'[e] = IF s # "other" /\ e \in Attempts(m) THEN [row[e] EXCEPT !.status = Status(s)] ELSE row[e]
    BY DEF ReceiveWebhook
  <2> QED
    BY <1>4, <2>1, <2>2 DEF RowType, Recorded, Attempts
<1>6. row' \in [Events -> RowType]
  BY <1>5 DEF ReceiveWebhook, CommunicationsInv, CommunicationsType
<1>7. early' = IF s # "other" /\ Attempts(m) = {} THEN early \cup {<<m, s>>} ELSE early
  BY DEF ReceiveWebhook
<1>8. CommunicationsType' /\ OptedIn' = OptedIn
  BY <1>1, <1>6, <1>7 DEF CommunicationsInv, CommunicationsType, OptedIn
<1>9. ASSUME NEW w \in Workers PROVE WorkInv(w)'
  <2>1. CASE ~UnderWay(w)
    BY <1>1, <2>1 DEF CommunicationsInv, WorkInv, UnderWay
  <2>2. CASE UnderWay(w)
    <3>1. txn[w].e \in Events /\ row[txn[w].e].status = "absent"
      BY <2>2 DEF CommunicationsInv, WorkInv
    <3>2. row'[txn[w].e].status = "absent"
      BY <1>5, <3>1 DEF Recorded
    <3>3. m = Message(txn[w].e, txn[w].ref) /\ s # "other" => <<m, s>> \in early'
      <4>1. SUFFICES ASSUME m = Message(txn[w].e, txn[w].ref) PROVE Attempts(m) = {}
        BY <1>7
      <4>2. txn[w].e = f
        BY <1>2, <4>1 DEF Message
      <4> QED
        BY <1>3, <3>1, <4>2 DEF Attempts
    <3>4. \A h \in hooks : h[1] = Message(txn[w].e, txn[w].ref) /\ h[2] # "other" => h \in early'
      BY <1>7, <2>2 DEF CommunicationsInv, WorkInv
    <3> QED
      BY <1>1, <1>8, <2>2, <3>1, <3>2, <3>3, <3>4 DEF CommunicationsInv, WorkInv, UnderWay
  <2> QED
    BY <2>1, <2>2
<1>10. OneHolds'
  BY <1>1 DEF CommunicationsInv, OneHolds, UnderWay
<1>11. HooksKnown'
  BY <1>1, <1>2 DEF CommunicationsInv, HooksKnown
<1>12. StatusIsEarned'
  <2> SUFFICES ASSUME NEW e \in Events
               PROVE  /\ row'[e].status = "DELIVERED" =>
                            \E h \in hooks' : h[1] = Message(e, row[e].ref) /\ h[2] \in Delivered
                      /\ row'[e].status = "SENT" =>
                            \A h \in hooks' : h[1] = Message(e, row[e].ref) /\ h[2] # "other" => h \in early'
    BY <1>5 DEF StatusIsEarned
  <2>1. CASE s # "other" /\ e \in Attempts(m)
    <3>1. m = Message(e, row[e].ref) /\ row'[e].status = Status(s)
      BY <1>5, <2>1 DEF Attempts
    <3>2. row'[e].status # "SENT"
      BY <1>4, <2>1, <3>1
    <3>3. ASSUME row'[e].status = "DELIVERED"
          PROVE  \E h \in hooks' : h[1] = Message(e, row[e].ref) /\ h[2] \in Delivered
      <4>1. s \in Delivered
        BY <1>4, <2>1, <3>1, <3>3
      <4>2. PICK h \in hooks' : h = <<m, s>>
        BY <1>1
      <4>3. h[1] = m /\ h[2] = s
        BY <4>2
      <4> QED
        BY <3>1, <4>1, <4>3
    <3> QED
      BY <3>2, <3>3
  <2>2. CASE s = "other" \/ e \notin Attempts(m)
    <3>1. row'[e].status = row[e].status
      BY <1>5, <2>2
    <3>2. row[e].status = "SENT" => s = "other" \/ m # Message(e, row[e].ref)
      BY <2>2 DEF Attempts
    <3>3. early \subseteq early'
      BY <1>7
    <3> QED
      BY <1>1, <3>1, <3>2, <3>3 DEF CommunicationsInv, StatusIsEarned
  <2> QED
    BY <2>1, <2>2
<1>13. CapInv'
  <2>1. \A d \in Int : OnTime(d)' \subseteq OnTime(d)
    BY <1>5 DEF OnTime
  <2>2. \A d \in Int : HeldFor(d)' \subseteq HeldFor(d)
    BY <1>1 DEF HeldFor, UnderWay
  <2> QED
    BY <1>1, <2>1, <2>2, CapStays
<1>14. Day' = Day
  BY <1>1 DEF Day
<1>15. DatesInv'
  BY <1>5, <1>1, <1>14 DEF CommunicationsInv, DatesInv, Recorded
<1>16. LateInv'
  <2>1. \A d \in Int : LateOf(d)' \subseteq LateOf(d)
    BY <1>5 DEF LateOf, Recorded
  <2>2. \A d \in Int : OpenFor(d)' \subseteq OpenFor(d)
    BY <1>1 DEF OpenFor
  <2> QED
    BY <1>14, <2>1, <2>2, LateStays
<1> QED
  BY <1>8, <1>9, <1>10, <1>11, <1>12, <1>13, <1>15, <1>16 DEF CommunicationsInv

\* Opting in or out: whoever is under way is told of an opt-out.
LEMMA ChooseStep ==
    ASSUME CommunicationsInv, NEW scope \in {"both", "channel", "purpose", "all"},
           NEW v \in {"in", "out"}, Choose(scope, v)
    PROVE  CommunicationsInv'
<1>1. UNCHANGED <<inForce, provider, channel, purpose, row, sends, hooks, early, clock>>
      /\ pref' = [pref EXCEPT ![scope] = v]
  BY DEF Choose, providerVars
<1>2. ASSUME NEW w \in Workers
      PROVE  /\ txn'[w] \in TxnType /\ txn'[w].step = txn[w].step /\ txn'[w].e = txn[w].e
             /\ txn'[w].day = txn[w].day /\ txn'[w].ref = txn[w].ref /\ txn'[w].late = txn[w].late
             /\ UnderWay(w) /\ (txn[w].out \/ v = "out") => txn'[w].out
  <2>1. txn[w] \in TxnType
    BY DEF CommunicationsInv, CommunicationsType
  <2>2. CASE v = "out" /\ UnderWay(w)
    <3>1. txn'[w] = [txn[w] EXCEPT !.out = TRUE]
      BY <2>2 DEF Choose, UnderWay
    <3> QED
      BY <2>1, <3>1 DEF TxnType
  <2>3. CASE ~(v = "out" /\ UnderWay(w))
    <3>1. txn'[w] = txn[w]
      BY <2>3 DEF Choose, UnderWay
    <3> QED
      BY <2>1, <2>3, <3>1
  <2> QED
    BY <2>2, <2>3
<1>3. txn' \in [Workers -> TxnType]
  BY <1>2 DEF Choose
<1>4. CommunicationsType'
  BY <1>1, <1>3 DEF CommunicationsInv, CommunicationsType
<1>5. v = "in" /\ OptedIn => OptedIn'
  BY <1>1 DEF OptedIn, Scopes, CommunicationsInv, CommunicationsType
<1>6. ASSUME NEW w \in Workers PROVE WorkInv(w)'
  <2>1. UnderWay(w)' <=> UnderWay(w)
    BY <1>2 DEF UnderWay
  <2>2. WorkInv(w)
    BY DEF CommunicationsInv
  <2>3. UnderWay(w) /\ txn[w].e \in Marketing => txn'[w].out \/ OptedIn'
    BY <1>2, <1>5, <2>2 DEF WorkInv
  <2> QED
    BY <1>1, <1>2, <2>1, <2>2, <2>3 DEF WorkInv
<1>7. OneHolds'
  BY <1>2 DEF CommunicationsInv, OneHolds, UnderWay
<1>8. HooksKnown' /\ StatusIsEarned'
  BY <1>1 DEF CommunicationsInv, HooksKnown, StatusIsEarned
<1>9. CapInv'
  <2>1. \A d \in Int : OnTime(d)' \subseteq OnTime(d)
    BY <1>1 DEF OnTime, Recorded
  <2>2. \A d \in Int : HeldFor(d)' \subseteq HeldFor(d)
    BY <1>2 DEF HeldFor, UnderWay
  <2> QED
    BY <1>1, <2>1, <2>2, CapStays
<1>10. Day' = Day
  BY <1>1 DEF Day
<1>11. DatesInv'
  BY <1>1, <1>2, <1>10 DEF CommunicationsInv, DatesInv, Recorded
<1>12. LateInv'
  <2>1. \A d \in Int : LateOf(d)' \subseteq LateOf(d)
    BY <1>1 DEF LateOf, Recorded
  <2>2. \A d \in Int : OpenFor(d)' \subseteq OpenFor(d)
    BY <1>2 DEF OpenFor
  <2> QED
    BY <1>10, <2>1, <2>2, LateStays
<1> QED
  BY <1>4, <1>6, <1>7, <1>8, <1>9, <1>11, <1>12 DEF CommunicationsInv

\* The clock goes on, and so do the days.
LEMMA DayGrows ==
    ASSUME clock \in Nat, clock' \in {clock, clock + 1}
    PROVE  Day <= Day'
<1>1. Hours \in Nat \ {0}
  BY CommunicationsAssumption DEF CommunicationsAssumption
<1> QED
  BY <1>1 DEF Day

\* Channels, purposes and the clock decide on later messages only.
LEMMA SurroundingsStep ==
    ASSUME CommunicationsInv, UNCHANGED <<inForce, provider, pref, row, txn, sends, hooks, early>>,
           channel' \in {"absent", "on", "off"}, clock' \in {clock, clock + 1},
           purpose' \in [{"MARKETING", "TRANSACTIONAL"} -> {"on", "off"}]
    PROVE  CommunicationsInv'
<1>1. CommunicationsType'
  BY DEF CommunicationsInv, CommunicationsType
<1>2. OneHolds' /\ \A w \in Workers : WorkInv(w)'
  BY DEF CommunicationsInv, OneHolds, WorkInv, UnderWay, OptedIn
<1>3. HooksKnown' /\ StatusIsEarned'
  BY DEF CommunicationsInv, HooksKnown, StatusIsEarned
<1>4. CapInv'
  <2>1. \A d \in Int : OnTime(d)' = OnTime(d) /\ HeldFor(d)' = HeldFor(d)
    BY DEF OnTime, Recorded, HeldFor, UnderWay
  <2> QED
    BY <2>1, CapStays
<1>5. Day <= Day' /\ Day \in Int /\ Day' \in Int
  <2>1. clock \in Nat /\ clock' \in Nat
    BY DEF CommunicationsInv, CommunicationsType
  <2>2. Day \in Int /\ Day' \in Int
    BY <2>1, CommunicationsAssumption DEF Day, CommunicationsAssumption
  <2> QED
    BY <2>1, <2>2, DayGrows
<1>6. DatesInv'
  <2>1. \A w \in Workers : txn[w].day \in Int
    BY DEF CommunicationsInv, CommunicationsType, TxnType
  <2>2. \A e \in Events : row[e].day \in Int
    BY DEF CommunicationsInv, CommunicationsType, RowType
  <2> QED
    BY <1>5, <2>1, <2>2 DEF CommunicationsInv, DatesInv, Recorded
<1>7. LateInv'
  <2> SUFFICES ASSUME NEW d \in Int
               PROVE  Cardinality(LateOf(d)) + Cardinality(OpenFor(d)) <= Cardinality(Workers)
    BY DEF LateInv, LateOf, OpenFor, Recorded
  <2>1. CASE d < Day
    BY <2>1 DEF CommunicationsInv, LateInv
  <2>2. CASE ~(d < Day)
    <3>1. LateOf(d) = {}
      BY <2>2 DEF CommunicationsInv, DatesInv, LateOf
    <3>2. Cardinality(LateOf(d)) = 0
      BY <3>1, FS_EmptySet
    <3> QED
      BY <3>2, CountsAreNat
  <2> QED
    BY <2>1, <2>2
<1> QED
  BY <1>1, <1>2, <1>3, <1>4, <1>6, <1>7 DEF CommunicationsInv

LEMMA CommunicationsBegins == CommunicationsInit => CommunicationsInv
<1> SUFFICES ASSUME CommunicationsInit PROVE CommunicationsInv
  OBVIOUS
<1>1. CommunicationsType
  BY IdleTyped DEF CommunicationsInit, CommunicationsType, NoRow, RowType
<1>2. OneHolds /\ HooksKnown /\ \A w \in Workers : WorkInv(w)
  BY IdleTyped DEF CommunicationsInit, OneHolds, HooksKnown, WorkInv, UnderWay
<1>3. StatusIsEarned
  BY DEF CommunicationsInit, StatusIsEarned, NoRow
<1>4. CapInv
  <2> SUFFICES ASSUME inForce # NoBrain, inForce.cap # 0, NEW d \in Int
               PROVE  Cardinality(OnTime(d)) + Cardinality(HeldFor(d))
                          <= inForce.cap + Cardinality(Workers) - 1
    BY DEF CapInv
  <2>1. OnTime(d) = {} /\ HeldFor(d) = {}
    BY IdleTyped DEF CommunicationsInit, OnTime, HeldFor, Recorded, NoRow, UnderWay
  <2>2. inForce.cap \in Nat
    BY CommunicationsAssumption DEF CommunicationsInit, CommunicationsAssumption, Brain
  <2>3. Cardinality(OnTime(d)) = 0 /\ Cardinality(HeldFor(d)) = 0
    BY <2>1, FS_EmptySet
  <2>4. Cardinality(Workers) \in Nat
    BY CountsAreNat
  <2>5. 0 + 0 <= inForce.cap + Cardinality(Workers) - 1
    BY <2>2, <2>4
  <2> QED
    BY <2>3, <2>5
<1>5. DatesInv
  <2>1. \A w \in Workers : txn[w].step = "idle"
    BY IdleTyped DEF CommunicationsInit
  <2>2. \A e \in Events : ~Recorded(e)
    BY DEF CommunicationsInit, Recorded, NoRow
  <2> QED
    BY <2>1, <2>2 DEF DatesInv
<1>6. LateInv
  <2> SUFFICES ASSUME NEW d \in Int
               PROVE  Cardinality(LateOf(d)) + Cardinality(OpenFor(d)) <= Cardinality(Workers)
    BY DEF LateInv
  <2>1. LateOf(d) = {} /\ OpenFor(d) = {}
    BY IdleTyped DEF CommunicationsInit, LateOf, OpenFor, Recorded, NoRow
  <2>2. Cardinality(LateOf(d)) = 0 /\ Cardinality(OpenFor(d)) = 0
    BY <2>1, FS_EmptySet
  <2> QED
    BY <2>2, CountsAreNat
<1> QED
  BY <1>1, <1>2, <1>3, <1>4, <1>5, <1>6 DEF CommunicationsInv

LEMMA CommunicationsContinues == CommunicationsInv /\ [CommunicationsNext]_communicationsVars => CommunicationsInv'
<1> SUFFICES ASSUME CommunicationsInv, [CommunicationsNext]_communicationsVars PROVE CommunicationsInv'
  OBVIOUS
<1>1. ASSUME NEW w \in Workers, BeginTxn(w) \/ Send(w) \/ Commit(w) \/ Abort(w) \/ \E e \in Events : Insert(w, e)
      PROVE  CommunicationsInv'
  BY <1>1, BeginStep, SendStep, CommitStep, AbortStep, InsertStep
<1>2. ASSUME NEW m \in Messages, NEW s \in Receipts, ReceiveWebhook(m, s) PROVE CommunicationsInv'
  BY <1>2, ReceiveStep
<1>3. ASSUME NEW s \in DOMAIN pref, OptIn(s) \/ OptOut(s) PROVE CommunicationsInv'
  <2>1. s \in {"both", "channel", "purpose", "all"}
    BY DEF CommunicationsInv, CommunicationsType
  <2> QED
    BY <1>3, <2>1, ChooseStep DEF OptIn, OptOut
<1>4. CASE \/ \E v \in {"on", "off"} : UpsertChannel(v)
           \/ \E p \in DOMAIN purpose, v \in {"on", "off"} : UpsertPurpose(p, v)
           \/ Tick \/ UNCHANGED communicationsVars
  <2>1. /\ UNCHANGED <<inForce, provider, pref, row, txn, sends, hooks, early>>
        /\ channel' \in {"absent", "on", "off"} /\ clock' \in {clock, clock + 1}
        /\ purpose' \in [{"MARKETING", "TRANSACTIONAL"} -> {"on", "off"}]
    BY <1>4 DEF UpsertChannel, UpsertPurpose, Tick, communicationsVars, configVars, providerVars,
       CommunicationsInv, CommunicationsType
  <2> QED
    BY <2>1, SurroundingsStep
<1> QED
  BY <1>1, <1>2, <1>3, <1>4 DEF CommunicationsNext

LEMMA CommunicationsStays == CommunicationsSpec => []CommunicationsInv
BY CommunicationsBegins, CommunicationsContinues, PTL DEF CommunicationsSpec

\* The messages decided on the day they are dated exceed max_per_day at most
\* by the workers that decided at the same time, less one (_check_frequency
\* counts what is committed); those decided later are at most one for each
\* worker, the transaction it had open at midnight.
THEOREM CapIsKept == CommunicationsSpec => []CapHolds
<1>1. CommunicationsInv => CapHolds
  <2> SUFFICES ASSUME CommunicationsInv, inForce # NoBrain, inForce.cap # 0,
                      NEW d \in 0..(MaxTime \div Hours)
               PROVE  /\ Cardinality(OnTime(d)) <= inForce.cap + Cardinality(Workers) - 1
                      /\ Cardinality(LateOf(d)) <= Cardinality(Workers)
    <3>1. ASSUME NEW d \in 0..(MaxTime \div Hours),
                 NEW dated, dated = {e \in Events : Recorded(e) /\ row[e].day = d},
                 NEW overdue, overdue = {e \in dated : row[e].late}
          PROVE  dated \ overdue = OnTime(d) /\ overdue = LateOf(d)
      BY <3>1 DEF OnTime, LateOf
    <3> QED
      BY <3>1 DEF CapHolds
  <2>1. d \in Int
    OBVIOUS
  <2>2. Cardinality(OnTime(d)) + Cardinality(HeldFor(d)) <= inForce.cap + Cardinality(Workers) - 1
    BY <2>1 DEF CommunicationsInv, CapInv
  <2>3. inForce.cap \in Nat
    BY CommunicationsAssumption
       DEF CommunicationsAssumption, CommunicationsInv, CommunicationsType, Brain
  <2>4. Cardinality(OnTime(d)) <= inForce.cap + Cardinality(Workers) - 1
    BY <2>1, <2>2, <2>3, CountsAreNat
  <2>5. CASE d < Day
    <3>1. Cardinality(LateOf(d)) + Cardinality(OpenFor(d)) <= Cardinality(Workers)
      BY <2>1, <2>5 DEF CommunicationsInv, LateInv
    <3> QED
      BY <2>1, <2>4, <3>1, CountsAreNat
  <2>6. CASE ~(d < Day)
    <3>1. LateOf(d) = {}
      BY <2>6 DEF CommunicationsInv, DatesInv, LateOf
    <3>2. Cardinality(LateOf(d)) = 0
      BY <3>1, FS_EmptySet
    <3> QED
      BY <2>4, <3>2, CountsAreNat
  <2> QED
    BY <2>5, <2>6
<1> QED
  BY <1>1, CommunicationsStays, PTL

\* A communication's DELIVERED comes from a receipt for the message on
\* record, and SENT outlives only receipts that came before the commit or are
\* of a type the handlers do not know (the webhook handlers find the attempt
\* by the provider's reference).
THEOREM StatusEarned == CommunicationsSpec => []StatusIsEarned
<1>1. CommunicationsInv => StatusIsEarned
  BY DEF CommunicationsInv
<1> QED
  BY <1>1, CommunicationsStays, PTL

\* Whatever is chosen while a worker is at it, a marketing message is
\* recorded under an opt-in that nothing narrower opts out of, or the
\* opt-out came after the decision (ConsentPolicy.evaluate decides once).
THEOREM OptOutIsHonoured == CommunicationsSpec => OptOutHonoured
<1>1. CommunicationsInv /\ [CommunicationsNext]_communicationsVars =>
          [\A w \in Workers :
              (\E e \in Marketing : txn[w].e = e /\ ~Recorded(e) /\ Recorded(e)')
                  => txn[w].out \/ OptedIn]_communicationsVars
  <2> SUFFICES ASSUME CommunicationsInv, NEW w \in Workers, txn[w].e \in Marketing
               PROVE  txn[w].out \/ OptedIn
    OBVIOUS
  <2>1. txn[w].e # "none"
    BY CommunicationsAssumption DEF CommunicationsAssumption
  <2> QED
    BY <2>1 DEF CommunicationsInv, WorkInv
<1> QED
  BY <1>1, CommunicationsStays, PTL DEF CommunicationsSpec, OptOutHonoured, OptedIn
=============================================================================
