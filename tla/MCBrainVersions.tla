-------------------------- MODULE MCBrainVersions --------------------------
(* Model values for BrainVersions.                                         *)
EXTENDS BrainVersions

CONSTANTS client, area, other, rule, bad

MCClients == {client}
MCConfigChanges == {area, other}
MCRuleChanges == {rule, bad}
MCBadRules == {bad}
MCProposals == {area, rule}

\* A deleted rule and a row written from an old read are not followed together.
MCBound == stale = {} \/ \A v \in Versions : deleted[v] = {}
=============================================================================
