------------------------------ MODULE Pricing ------------------------------
(***************************************************************************)
(* The price of a service offer under the pricing rules of a Brain         *)
(* version.  Hours are in the units of percentages.  The rules that apply  *)
(* are known by their positions in the list that was loaded.               *)
(***************************************************************************)
EXTENDS BrainRules, Fees

PricingModels == {"hourly", "fixed", "starting_at", "custom", "quote_required"}

\* _resolve_base_amount.  An offer that is priced by hand starts from zero.
BaseAmount(offer) ==
    CASE offer.model = "hourly" -> Share(offer.amount, Most(offer.hours, offer.least))
      [] offer.model \in {"fixed", "starting_at", "custom"} -> offer.amount
      [] offer.model = "quote_required" -> 0

\* A percentage, if there is one, goes before a fixed amount.
Surcharge(rule, base) == IF rule.percent # None THEN Share(base, rule.percent) ELSE rule.amount

\* The larger of percentage and fixed amount, within max_discount and base.
Discount(rule, base) ==
    LET share == IF rule.percent # None THEN Share(base, rule.percent) ELSE 0
        wanted == Most(share, rule.amount)
        granted == IF rule.most # None THEN Least(wanted, rule.most) ELSE wanted
    IN  Least(granted, base)

\* Pricing asks no caller for missing fields: a condition decides on them.
OfType(rules, context, type) ==
    {i \in DOMAIN rules : rules[i].type = type /\ rules[i].active /\ Matches(rules[i], context)}

\* The sum of the amounts above zero, which counts their units.
Units(amount) == UNION {{i} \X (1 .. amount[i]) : i \in DOMAIN amount}
Total(amount) == Cardinality(Units(amount))

Surcharges(rules, context, base) ==
    Total([i \in OfType(rules, context, "surcharge") |-> Surcharge(rules[i], base)])
Discounts(rules, context, base) ==
    Total([i \in OfType(rules, context, "discount") |-> Discount(rules[i], base)])

LastOf(positions) == CHOOSE i \in positions : \A j \in positions : j <= i

\* Of several floors or caps the last one loaded counts.
Raised(rules, context, amount) ==
    LET floors == OfType(rules, context, "price_floor")
    IN  IF floors = {} THEN amount ELSE Most(amount, rules[LastOf(floors)].amount)
Capped(rules, context, amount) ==
    LET caps == OfType(rules, context, "price_cap")
    IN  IF caps = {} THEN amount ELSE Least(amount, rules[LastOf(caps)].amount)

\* Mutant: a discount is taken from the price with the surcharges of the
\* rules before it.
Price_Compounds(offer, rules, context) ==
    LET base == BaseAmount(offer)
        reached(i) == base + Surcharges([j \in 1..(i - 1) |-> rules[j]], context, base)
        running == base + Surcharges(rules, context, base)
                        - Total([i \in OfType(rules, context, "discount") |-> Discount(rules[i], reached(i))])
    IN  Most(Capped(rules, context, Raised(rules, context, running)), 0)

\* Surcharges and discounts are all taken of the base; the cap goes after the
\* floor.  base_pricing, quote_threshold and payment_terms leave it alone.
Price(offer, rules, context) ==
    LET base == BaseAmount(offer)
        running == base + Surcharges(rules, context, base) - Discounts(rules, context, base)
    IN  Most(Capped(rules, context, Raised(rules, context, running)), 0)

\* create_quote refuses an offer priced by hand that came out at zero.
Priceable(offer, rules, context) ==
    ~(offer.model = "quote_required" /\ Price(offer, rules, context) = 0)
=============================================================================
