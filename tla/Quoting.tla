------------------------------ MODULE Quoting ------------------------------
(***************************************************************************)
(* From an enquiry to its invoice: the Brain's rules let the enquiry in    *)
(* and price it, the commercial policy that governs when it is quoted      *)
(* states the platform's fee, and the invoice takes both over while        *)
(* policies come and go.  Lifecycle tells in which order and how often;    *)
(* here one enquiry is quoted once.                                        *)
(***************************************************************************)
EXTENDS Pricing, CommercialPolicy, SequencesExt

CONSTANTS
    RuleLists,      \* rules of the active Brain version, in the order they are loaded; <<>> without a Brain
    Offers          \* service offers, each with its pricing and the context it gives

ASSUME QuotingAssumption ==
    /\ RuleLists \subseteq Seq(Rule)
    /\ FeeTerms \subseteq Terms
    /\ Nobody \notin Offers
    /\ \A offer \in Offers :
          offer.model \in PricingModels /\ {offer.amount, offer.hours, offer.least} \subseteq Nat

VARIABLES brain, enquiry, quote, invoice

quotingVars == <<brain, enquiry, quote, invoice>>
fullVars == <<quotingVars, policyVars>>

QuotingInit ==
    /\ PolicyInit
    /\ brain \in RuleLists
    /\ enquiry = Nobody
    /\ quote = Nobody
    /\ invoice = Nobody

\* calculate_fee.  It fails without a policy; the callers go on without fee.
FeeEvidence(amount) ==
    IF EffectivePolicy = Nobody THEN Nobody
    ELSE [policy |-> EffectivePolicy,
          fee |-> PlatformFee(fee[EffectivePolicy], amount),
          proceeds |-> BusinessProceeds(fee[EffectivePolicy], amount)]

CreateEnquiry(offer) ==
    /\ enquiry = Nobody
    /\ EnquiryAllowed(brain, offer.context)
    /\ enquiry' = offer
    /\ UNCHANGED <<brain, quote, invoice, policyVars>>

CreateQuote ==
    /\ enquiry # Nobody /\ quote = Nobody
    /\ Priceable(enquiry, brain, enquiry.context)
    /\ LET amount == Price(enquiry, brain, enquiry.context)
       IN  quote' = [amount |-> amount, evidence |-> FeeEvidence(amount)]
    /\ UNCHANGED <<brain, enquiry, invoice, policyVars>>

\* Mutant: the fee is always worked out anew.
InvoiceEvidence_Fresh == FeeEvidence(quote.amount)

InvoiceEvidence ==
    IF quote.evidence # Nobody THEN quote.evidence ELSE FeeEvidence(quote.amount)

CreateCompletionRecords ==
    /\ quote # Nobody /\ invoice = Nobody
    /\ invoice' = [amount |-> quote.amount, evidence |-> InvoiceEvidence]
    /\ UNCHANGED <<brain, enquiry, quote, policyVars>>

QuotingNext ==
    \/ \E offer \in Offers : CreateEnquiry(offer)
    \/ CreateQuote
    \/ CreateCompletionRecords
    \/ PolicyNext /\ UNCHANGED quotingVars

QuotingSpec == QuotingInit /\ [][QuotingNext]_fullVars

-----------------------------------------------------------------------------
(* Properties                                                              *)

\* More rules never let in what fewer rules keep out: an enquiry that came
\* in would also have come in without any one of the rules, whatever the
\* conflicts, the missing fields and the outcomes.
RulesOnlyRestrict ==
    enquiry # Nobody =>
        \A i \in DOMAIN brain : EnquiryAllowed(RemoveAt(brain, i), enquiry.context)

\* The rules are loaded in no particular order.  As long as one floor and
\* one cap apply at most, the price does not depend on it.
PriceReproducible ==
    [][quote = Nobody /\ quote' # Nobody =>
        LET Few(type) == Cardinality(OfType(brain, enquiry.context, type)) <= 1
        IN  Few("price_floor") /\ Few("price_cap") =>
                \A order \in SetToSeqs(DOMAIN brain) :
                    quote'.amount = Price(enquiry, [i \in DOMAIN brain |-> brain[order[i]]], enquiry.context)
      ]_fullVars

\* What was agreed is what is charged: the invoice keeps amount and fee of
\* the quote whatever happens to the policies in between, and a fee and
\* the proceeds always make up the amount.
AgreedIsCharged ==
    invoice # Nobody =>
        /\ invoice.amount = quote.amount
        /\ quote.evidence # Nobody => invoice.evidence = quote.evidence
        /\ invoice.evidence # Nobody =>
              /\ invoice.evidence.fee >= 0 /\ invoice.evidence.proceeds >= 0
              /\ invoice.evidence.fee + invoice.evidence.proceeds = invoice.amount
=============================================================================
