----------------------------- MODULE BrainRules -----------------------------
(***************************************************************************)
(* What the rules of a Brain version decide about an enquiry.  A rule      *)
(* holds conditions on a context and an outcome; a context gives every     *)
(* field a number, Blank for an empty text, or None when the caller did    *)
(* not supply the field.                                                   *)
(***************************************************************************)
EXTENDS Integers, Sequences, FiniteSets

Blank == -1
None == -2

\* A percentage or a limit is not negative, and may be absent.
Condition == [field : STRING, op : STRING, args : Seq(Int)]
Rule == [type : STRING, active : BOOLEAN, outcome : STRING, conditions : SUBSET Condition,
         percent : Nat \cup {None}, amount : Int, most : Nat \cup {None}]

\* _to_float: an empty text is not a number.
IsNumber(actual) == actual \notin {None, Blank}

\* _apply_operator.  Tests of texts (contains, starts_with, ends_with and
\* regular expressions) are "in" with the set of values they accept.
Applies(op, actual, args) ==
    CASE op = "is_empty" -> actual \in {None, Blank}
      [] op = "is_not_empty" -> actual \notin {None, Blank}
      [] op = "equals" -> actual # None /\ actual = args[1]
      [] op = "not_equals" -> actual # None /\ actual # args[1]
      [] op = "greater_than" -> IsNumber(actual) /\ actual > args[1]
      [] op = "less_than" -> IsNumber(actual) /\ actual < args[1]
      [] op = "greater_than_or_equal" -> IsNumber(actual) /\ actual >= args[1]
      [] op = "less_than_or_equal" -> IsNumber(actual) /\ actual <= args[1]
      [] op = "in" -> actual # None /\ \E i \in DOMAIN args : actual = args[i]
      [] op = "not_in" -> actual # None /\ \A i \in DOMAIN args : actual # args[i]
      [] op = "between" -> IsNumber(actual) /\ args[1] <= actual /\ actual <= args[2]
      [] OTHER -> FALSE

\* All conditions hold; a rule without conditions always applies.
Matches(rule, context) ==
    \A c \in rule.conditions : Applies(c.op, context[c.field], c.args)

\* The fields a rule asks about that the caller did not supply.
Missing(rule, context) == {c.field : c \in {d \in rule.conditions : context[d.field] = None}}

\* A rule that asks about a missing field is set aside, even one that tests
\* whether the field is empty.
Matched(rules, context) ==
    {i \in DOMAIN rules : rules[i].active /\ Missing(rules[i], context) = {}
                          /\ Matches(rules[i], context)}

RequiredInformation(rules, context) ==
    UNION {Missing(rules[i], context) : i \in {j \in DOMAIN rules : rules[j].active}}

\* Two matched rules of one type, one that allows and one that denies or
\* escalates.
Conflicts(rules, context) ==
    {p \in Matched(rules, context) \X Matched(rules, context) :
        /\ rules[p[1]].type = rules[p[2]].type
        /\ rules[p[1]].outcome = "allow" /\ rules[p[2]].outcome \in {"deny", "escalate"}}

\* Mutant: a rule that allows outweighs those it conflicts with.
Decision_AllowWins(rules, context) ==
    LET outcomes == {rules[i].outcome : i \in Matched(rules, context)}
    IN  IF Conflicts(rules, context) # {} THEN "ALLOW"
        ELSE IF "deny" \in outcomes THEN "DENY"
        ELSE IF "escalate" \in outcomes THEN "ESCALATE"
        ELSE IF "require_approval" \in outcomes THEN "REQUIRE_APPROVAL"
        ELSE IF RequiredInformation(rules, context) # {} THEN "NEEDS_INFORMATION"
        ELSE "ALLOW"

\* The first of these that applies.
Decision(rules, context) ==
    LET outcomes == {rules[i].outcome : i \in Matched(rules, context)}
    IN  IF Conflicts(rules, context) # {} THEN "ESCALATE"
        ELSE IF "deny" \in outcomes THEN "DENY"
        ELSE IF "escalate" \in outcomes THEN "ESCALATE"
        ELSE IF "require_approval" \in outcomes THEN "REQUIRE_APPROVAL"
        ELSE IF RequiredInformation(rules, context) # {} THEN "NEEDS_INFORMATION"
        ELSE "ALLOW"

\* Only an explicit ALLOW lets an enquiry in.
EnquiryAllowed(rules, context) == Decision(rules, context) = "ALLOW"
=============================================================================
