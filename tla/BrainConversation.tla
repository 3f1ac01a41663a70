-------------------------- MODULE BrainConversation --------------------------
(***************************************************************************)
(* An owner's conversations with the assistant of the Business Brain.  The *)
(* newest ACTIVE one is used and a greeting opens one when there is none.  *)
(* A message is one transaction that spans the assistant's answer: the     *)
(* owner's text, the answer and at most one proposal appear together.      *)
(***************************************************************************)
EXTENDS Integers, FiniteSets

CONSTANTS
    Windows,        \* requests that wait for the assistant at the same time
    MaxTalks,       \* conversations opened in a behaviour
    MaxMessages,    \* and messages in one
    Allowed,        \* fields a qualification rule may ask for
    Forbidden,      \* _FORBIDDEN_QUALIFICATION_FIELDS
    Defaults        \* _DEFAULT_QUALIFICATION_FIELDS

ASSUME ConversationAssumption ==
    /\ MaxTalks \in Nat /\ MaxMessages \in Nat
    /\ Defaults \subseteq Allowed /\ Defaults # {} /\ Allowed \cap Forbidden = {}

Talks == 1..MaxTalks    \* in the order their openings began

VARIABLES
    talk,       \* BrainConversation.status, "absent" before it is committed
    messages,   \* how many messages it holds
    proposals,  \* PENDING proposals: their conversation, type, shape and fields
    window,     \* what each request under way has loaded
    rivals      \* conversations committed while another opening was under way

talkVars == <<talk, messages, proposals, window, rivals>>

Closed == [at |-> "closed"]

ConversationInit ==
    /\ talk = [c \in Talks |-> "absent"]
    /\ messages = [c \in Talks |-> 0]
    /\ proposals = {} /\ rivals = {}
    /\ window = [w \in Windows |-> Closed]

Active == {c \in Talks : talk[c] = "active"}

\* Mutant: a conversation is opened whatever there is.
Found_Nothing == {}

\* get_active_by_brain_id.
Found == {c \in Active : \A d \in Active : d <= c}

Begun == {c \in Talks : talk[c] # "absent" \/ \E w \in Windows : window[w].at = "opening" /\ window[w].talk = c}

\* get_or_create_active_conversation, when there is none.
OpenConversation(w) ==
    /\ window[w] = Closed /\ Found = {}
    /\ \E c \in Talks :
          /\ c \notin Begun /\ \A b \in Begun : b < c
          /\ window' = [window EXCEPT ![w] = [at |-> "opening", talk |-> c]]
          /\ rivals' = rivals \ {c}
    /\ UNCHANGED <<talk, messages, proposals>>

\* The greeting is written with the conversation.
CommitConversation(w) ==
    /\ window[w].at = "opening"
    /\ talk' = [talk EXCEPT ![window[w].talk] = "active"]
    /\ messages' = [messages EXCEPT ![window[w].talk] = 1]
    /\ window' = [window EXCEPT ![w] = Closed]
    /\ rivals' = rivals \cup {window[v].talk : v \in {u \in Windows \ {w} : window[u].at = "opening"}}
    /\ UNCHANGED proposals

\* send_owner_message, on the conversation as it was loaded.
LoadConversation(w, c) ==
    /\ window[w] = Closed
    /\ talk[c] = "active" /\ messages[c] + 2 <= MaxMessages
    /\ window' = [window EXCEPT ![w] = [at |-> "asking", talk |-> c]]
    /\ UNCHANGED <<talk, messages, proposals, rivals>>

\* What the assistant may propose: a qualification rule, whose fields stand in a
\* rule_data dict or, when that has another shape, beside it, or something else.
\* A type the system does not know becomes general knowledge.
Drafted ==
    [type : {"qualification_rule"}, shape : {"dict", "other"}, asks : SUBSET (Allowed \cup Forbidden)]
    \cup [type : {"pricing_rule", "general_knowledge"}, shape : {"other"}, asks : {{}}]

IsRuleDict(draft) == draft.type = "qualification_rule" /\ draft.shape = "dict"

\* Mutant: the defaults are put in before the forbidden fields are taken out.
Sanitized_Swapped(draft) ==
    IF ~IsRuleDict(draft) THEN draft
    ELSE [draft EXCEPT !.asks = (IF @ = {} THEN Defaults ELSE @) \ Forbidden]

\* _sanitize_proposal_data returns what has no rule_data dict as it is.
Sanitized(draft) ==
    IF ~IsRuleDict(draft) THEN draft
    ELSE [draft EXCEPT !.asks = IF @ \subseteq Forbidden THEN Defaults ELSE @ \ Forbidden]

\* The answer may hold no proposal, or one that does not parse.
Extracted == {{}} \cup {{draft} : draft \in Drafted}

\* A failing assistant is answered for with a fixed text and no proposal.
Responses == {{}} \cup {{Sanitized(draft) : draft \in found} : found \in Extracted}

Filed(c, found) == {[in |-> c, what |-> draft] : draft \in found}

AnswerOwner(w) ==
    LET c == window[w].talk
    IN  /\ window[w].at = "asking"
        /\ messages' = [messages EXCEPT ![c] = @ + 2]
        /\ \E found \in Responses : proposals' = proposals \cup Filed(c, found)
        /\ window' = [window EXCEPT ![w] = Closed]
        /\ UNCHANGED <<talk, rivals>>

ArchiveConversation(c) ==
    /\ talk[c] # "absent"
    /\ talk' = [talk EXCEPT ![c] = "archived"]
    /\ UNCHANGED <<messages, proposals, window, rivals>>

\* A crash, or a proposal whose confidence is no number: nothing is kept.
LoseTalk(w) ==
    /\ window[w] # Closed
    /\ window' = [window EXCEPT ![w] = Closed]
    /\ UNCHANGED <<talk, messages, proposals, rivals>>

ConversationNext ==
    \/ \E w \in Windows : OpenConversation(w) \/ CommitConversation(w) \/ AnswerOwner(w) \/ LoseTalk(w)
    \/ \E w \in Windows, c \in Talks : LoadConversation(w, c)
    \/ \E c \in Talks : ArchiveConversation(c)

-----------------------------------------------------------------------------
\* A rule's fields are some, and all may be asked of a customer.
MayAsk(draft) == draft.asks # {} /\ draft.asks \cap Forbidden = {}

\* A brain has two ACTIVE conversations only when their openings overlapped
\* (get_or_create_active_conversation, nothing makes it unique), and a
\* qualification proposal with a rule_data dict asks for something a customer
\* may be asked (_sanitize_proposal_data).
OneConversation ==
    /\ Cardinality(Active \ rivals) <= 1
    /\ \A p \in proposals : IsRuleDict(p.what) => MayAsk(p.what)
=============================================================================
