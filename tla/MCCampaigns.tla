---------------------------- MODULE MCCampaigns ----------------------------
(* Model values for Campaigns.                                             *)
EXTENDS Campaigns

CONSTANTS run1, run2

MCRuns == {run1, run2}
MCDailyCaps == {1, 2}
=============================================================================
