----------------------------- MODULE MCQuoting -----------------------------
(* Every list of up to three of eleven rules, on two offers of fixed and
   hourly price; and, for a business without a Brain, two commercial policies
   that two requests create, edit and move at the same time.               *)
EXTENDS Quoting, TLC

CONSTANTS r1, r2

Plain == [type |-> "policy", active |-> TRUE, outcome |-> "allow", conditions |-> {},
         percent |-> None, amount |-> 0, most |-> None]
Cond(f, o, a) == [field |-> f, op |-> o, args |-> a]
OnSite == Cond("delivery", "equals", <<1>>)

MCRules == {
    [Plain EXCEPT !.type = "qualification", !.conditions = {OnSite}],
    [Plain EXCEPT !.type = "qualification", !.outcome = "deny", !.conditions = {Cond("delivery", "in", <<0, 1>>)}],
    [Plain EXCEPT !.outcome = "escalate", !.conditions = {Cond("name", "is_empty", <<>>)}],
    [Plain EXCEPT !.outcome = "require_approval", !.conditions = {Cond("delivery", "between", <<0, 1>>),
                                                                 Cond("delivery", "not_equals", <<1>>)}],
    [Plain EXCEPT !.conditions = {Cond("guests", "greater_than", <<1>>)}],
    [Plain EXCEPT !.type = "surcharge", !.percent = 15],
    [Plain EXCEPT !.type = "surcharge", !.amount = 4, !.conditions = {OnSite}],
    [Plain EXCEPT !.type = "discount", !.percent = 50, !.most = 9, !.conditions = {Cond("delivery", "not_in", <<0>>)}],
    [Plain EXCEPT !.type = "discount", !.percent = 10, !.amount = 30],
    [Plain EXCEPT !.type = "price_floor", !.amount = 5],
    [Plain EXCEPT !.type = "price_cap", !.amount = 12, !.conditions = {Cond("delivery", "less_than_or_equal", <<1>>)}]}

MCRuleLists == {<<>>} \cup {<<a>> : a \in MCRules} \cup {<<a, b>> : a, b \in MCRules}
               \cup {<<a, b, c>> : a, b, c \in MCRules}

MCOffers == {
    [model |-> "fixed", amount |-> 15, hours |-> 0, least |-> 0,
     context |-> [delivery |-> 1, name |-> 7, guests |-> None]],
    [model |-> "hourly", amount |-> 9, hours |-> 150, least |-> 100,
     context |-> [delivery |-> 0, name |-> Blank, guests |-> None]]}

MCForms == {
    [scope |-> "global_default", target |-> "all", code |-> FALSE, from |-> 0, until |-> Forever],
    [scope |-> "business_specific", target |-> "mine", code |-> FALSE, from |-> 0, until |-> 1],
    [scope |-> "business_specific", target |-> "mine", code |-> FALSE, from |-> 1, until |-> Forever]}

MCEditors == {r1, r2}
MCFeeTerms == {[type |-> "combined", percent |-> 5, fixed |-> 1]}

\* With rules to price by, the policies stay as they are.
MCBound == brain # <<>> => \A p \in Policies : policyStatus[p] = "absent"

Symmetry == Permutations(MCEditors)
=============================================================================
