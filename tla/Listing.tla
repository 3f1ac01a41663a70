------------------------------- MODULE Listing -------------------------------
(***************************************************************************)
(* The status of a business and the one of its public profile.  Owners     *)
(* move the first and admins the second, each along its own table and on   *)
(* the status the request loaded.                                          *)
(***************************************************************************)
EXTENDS Integers, FiniteSets

CONSTANT Forms      \* transitions requested at the same time

VARIABLES
    business,   \* Business.status
    profile,    \* BusinessProfile.public_status
    form        \* what each request has loaded and asks for

listingVars == <<business, profile, form>>

BUSINESS_TRANSITIONS(s) ==
    CASE s = "pending" -> {"active", "deactivated"}
      [] s = "active" -> {"suspended", "deactivated"}
      [] s = "suspended" -> {"active", "deactivated"}
      [] OTHER -> {}

BUSINESS_PROFILE_TRANSITIONS(s) == IF s = "active" THEN {"suspended"} ELSE {"active"}

NoForm == [on |-> "none"]

ListingInit ==
    /\ business = "pending" /\ profile = "incomplete"
    /\ form = [f \in Forms |-> NoForm]

Filled(f, on, from, tos) ==
    /\ form[f] = NoForm
    /\ \E to \in tos : form' = [form EXCEPT ![f] = [on |-> on, from |-> from, to |-> to]]
    /\ UNCHANGED <<business, profile>>

AskTransition(f) == Filled(f, "business", business, BUSINESS_TRANSITIONS(business))

AskProfileUpdate(f) == Filled(f, "profile", profile, BUSINESS_PROFILE_TRANSITIONS(profile) \cup {profile})

Submitted(f, on) == form[f].on = on /\ form' = [form EXCEPT ![f] = NoForm]

\* Validated on the status it loaded, which nothing locks.
TransitionBusiness(f) ==
    /\ Submitted(f, "business")
    /\ business' = form[f].to
    /\ UNCHANGED profile

\* Mutant: whatever the request says is written.
UpdateBusinessProfile_Always(f) ==
    /\ Submitted(f, "profile")
    /\ profile' = form[f].to
    /\ UNCHANGED business

\* A status that does not change is not written.
UpdateBusinessProfile(f) ==
    /\ Submitted(f, "profile")
    /\ profile' = IF form[f].to = form[f].from THEN profile ELSE form[f].to
    /\ UNCHANGED business

\* Two audit events in one second, or a crash.
DropForm(f) ==
    /\ form[f] # NoForm /\ form' = [form EXCEPT ![f] = NoForm]
    /\ UNCHANGED <<business, profile>>

ListingNext ==
    \E f \in Forms :
        AskTransition(f) \/ AskProfileUpdate(f) \/ TransitionBusiness(f) \/ UpdateBusinessProfile(f) \/ DropForm(f)

-----------------------------------------------------------------------------
(* Properties                                                              *)

\* A public page that was suspended is shown again only by a request that
\* found it hidden: one that was filled while the page was shown, and leaves
\* the status as it was, does not undo a suspension that came in between.
SuspensionHolds ==
    [][profile = "suspended" /\ profile' # "suspended" =>
          \E f \in Forms : form[f].on = "profile" /\ form[f].from # "active" /\ form'[f] = NoForm]_listingVars
=============================================================================
