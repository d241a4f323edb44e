------------------------------ MODULE StayPricing ------------------------------
(***************************************************************************)
(* What a night costs: the quote engine (domain/pricing.ts), the smart     *)
(* pricing of a host (smartPricingEngine.ts), the host's preview of it     *)
(* (host.routes.ts), and what a cancelled guest gets back                  *)
(* (cancellation.ts), while the host edits rules and prices, stays are     *)
(* booked and days pass.                                                   *)
(* Nightly prices are exact to a part of a cent, an amount charged is      *)
(* rounded.                                                                *)
(***************************************************************************)
EXTENDS Integers, FiniteSets, FiniteSetsExt, Functions

CONSTANTS Unit,        \* one whole amount of money: a hundred times the parts of a cent
          Horizon,     \* bound: days 0 .. Horizon
          Weekend,     \* the days that are Fridays and Saturdays
          Base,        \* the nightly price of the listing
          Overrides,   \* prices a night can be given
          SmartRules,  \* rule sets a host can send
          RateRules,   \* last-minute discounts of the rate rules, 0 .. 90
          Discounts,   \* long-stay and mobile discounts, 0 .. 90
          LongStay,    \* nights from which a stay is long
          FeePercent,  \* service fee and taxes together, in percent
          MaxStays,    \* bound: stays booked
          MaxPrices,   \* bound: nights with a price of their own
          None

VARIABLES rules,       \* listing.smart_pricing_rules, the rate rules, the discounts
          price,       \* the prices of calendar_night, None without one
          stays,       \* stays of pending and confirmed bookings
          today

vars == <<rules, price, stays, today>>

Day    == 0 .. Horizon
Night  == 0 .. Horizon - 1
Dates   == {s \in [from : Night, to : Day] : s.from < s.to}
Nights(s) == s.from .. s.to - 1

RoundTo(x, unit) == ((x + unit \div 2) \div unit) * unit
Round2(x) == RoundTo(x, Unit \div 100)
Round(x)  == RoundTo(x, Unit)
Percent(x, p) == (x * p) \div 100

TypeOK ==
    /\ rules \in [smart : SmartRules, lastMinute : RateRules, longStay : Discounts, mobile : Discounts]
    /\ price \in [Night -> Overrides \cup {None}]
    /\ stays \subseteq Dates
    /\ today \in Day

NoRules == [weekend |-> None, seasons |-> <<>>, early |-> None, last |-> None, occupancy |-> None,
            gap |-> None, floor |-> None, ceiling |-> None]

Init ==
    /\ rules = [smart |-> NoRules, lastMinute |-> 0, longStay |-> 0, mobile |-> 0]
    /\ price = [n \in Night |-> None]
    /\ stays = {}
    /\ today = 0

-------------------------------------------------------------------------------
(* computeNightPrice: the rules of one night, in their fixed order         *)

SmartActive(s) == s # NoRules

Adjusted(p, percent) == Percent(p, 100 + percent)

\* The shortest period that contains the night, the first one of those.
Season(s, n) ==
    LET in == {k \in DOMAIN s.seasons : n \in s.seasons[k].from .. s.seasons[k].to}
        length(k) == s.seasons[k].to - s.seasons[k].from
        best == {k \in in : \A j \in in : length(k) <= length(j)}
    IN  IF in = {} THEN 0 ELSE s.seasons[Min(best)].percent

OccupancyPercent(s, occupancy) ==
    CASE s.occupancy = None -> 0
      [] s.occupancy # None /\ occupancy >= s.occupancy.high -> s.occupancy.highPercent
      [] s.occupancy # None /\ occupancy < s.occupancy.high /\ occupancy <= s.occupancy.low ->
             s.occupancy.lowPercent
      [] OTHER -> 0

LeadPercent(s, ahead) ==
    CASE s.last # None /\ ahead >= 0 /\ ahead <= s.last.days -> -s.last.percent
      [] ~(s.last # None /\ ahead >= 0 /\ ahead <= s.last.days) /\ s.early # None
            /\ ahead >= s.early.days -> -s.early.percent
      [] OTHER -> 0

Ruled(s, n, ahead, occupancy, isGap) ==
    LET seasonal == Adjusted(Base, Season(s, n))
        weekend  == Adjusted(seasonal, IF s.weekend # None /\ n \in Weekend THEN s.weekend ELSE 0)
        demand   == Adjusted(weekend, OccupancyPercent(s, occupancy))
        lead     == Adjusted(demand, LeadPercent(s, ahead))
    IN  Adjusted(lead, IF s.gap # None /\ isGap THEN -s.gap.percent ELSE 0)

Clamp(s, p) ==
    LET raised == IF s.floor # None THEN Max({p, s.floor}) ELSE p
    IN  IF s.ceiling # None THEN Min({raised, s.ceiling}) ELSE raised

\* A price the host set skips every rule but the floor and the ceiling.
NightPrice(s, n, ahead, occupancy, isGap) ==
    Round2(Max({0, Clamp(s, IF price[n] # None THEN price[n]
                            ELSE Ruled(s, n, ahead, occupancy, isGap))}))

-------------------------------------------------------------------------------
(* smartContext and computeQuote                                           *)

TakenNights(booked) == {n \in Night : \E t \in booked : n \in Nights(t)}

\* Mutation of Occupancy: days before today are counted as well.
Occupancy_FromStart(s, booked) ==
    IF s.occupancy = None THEN 0
    ELSE LET window == s.occupancy.window IN
         (100 * Cardinality(TakenNights(booked) \cap 0 .. today + window - 1) + window \div 2) \div window

\* Percent of the coming days that are taken, rounded.
Occupancy(s, booked) ==
    IF s.occupancy = None THEN 0
    ELSE LET window == s.occupancy.window IN
         (100 * Cardinality(TakenNights(booked) \cap today .. today + window - 1) + window \div 2) \div window

\* One booking ends where the stay begins and one begins where it ends.
IsGap(s, stay, booked) ==
    /\ s.gap # None
    /\ stay.to - stay.from <= s.gap.nights
    /\ \E t \in booked : t.to = stay.from
    /\ \E t \in booked : t.from = stay.to

SmartNight(stay, n, booked) ==
    NightPrice(rules.smart, n, stay.from - today, Occupancy(rules.smart, booked),
               IsGap(rules.smart, stay, booked))

PlainNight(n) == IF price[n] # None THEN price[n] ELSE Base

BaseSubtotal(stay, booked) ==
    IF SmartActive(rules.smart)
    THEN Round(SumFunction([n \in Nights(stay) |-> SmartNight(stay, n, booked)]))
    ELSE SumFunction([n \in Nights(stay) |-> PlainNight(n)])

IsLong(stay) == stay.to - stay.from >= LongStay
IsLastMinute(stay) == stay.from - today \in 0 .. 7

\* The percents of the discount lines; smart pricing drops the last-minute line
\* of the rate rules.
Lines(stay, isMobile) ==
    [longStay   |-> IF IsLong(stay) THEN rules.longStay ELSE 0,
     mobile     |-> IF isMobile THEN rules.mobile ELSE 0,
     lastMinute |-> IF ~SmartActive(rules.smart) /\ IsLastMinute(stay) THEN rules.lastMinute ELSE 0]

\* computeQuote: discounts on the base, then fees on what is left.
Quote(stay, isMobile, booked) ==
    LET base     == BaseSubtotal(stay, booked)
        lines    == Lines(stay, isMobile)
        off      == SumFunction([k \in DOMAIN lines |-> Round(Percent(base, lines[k]))])
        subtotal == Max({0, base - off})
    IN  [base |-> base, subtotal |-> subtotal, total |-> subtotal + Round(Percent(subtotal, FeePercent))]

\* The preview of the rules as they are saved: each night on its own, no gaps,
\* its own count of the coming days.
PreviewOccupancy(s) ==
    LET window == s.occupancy.window
        taken  == {d \in today .. today + window - 1 : \E t \in stays : d \in t.from .. t.to - 1}
    IN  IF s.occupancy = None THEN 0 ELSE (100 * Cardinality(taken) + window \div 2) \div window

Preview(n) == NightPrice(rules.smart, n, n - today, PreviewOccupancy(rules.smart), FALSE)

-------------------------------------------------------------------------------
(* refundShare and refundFor, in percent and for whole amounts             *)

RefundShare(policy, days) ==
    CASE policy = "flexible" -> IF days >= 1 THEN 100 ELSE 0
      [] policy = "moderate" -> IF days >= 5 THEN 100 ELSE 50
      [] policy = "strict"   -> 0

RefundFor(policy, stay, day, total, by) ==
    Round(Percent(total, IF by = "guest" THEN RefundShare(policy, Max({0, stay.from - day})) ELSE 100))

-------------------------------------------------------------------------------
(* The host's edits, bookings and days                                     *)

\* Mutation of SaveSmartRules: the floor is not compared with the ceiling.
SaveSmartRules_Unchecked(s) ==
    /\ rules' = [rules EXCEPT !.smart = s]
    /\ UNCHANGED <<price, stays, today>>

\* PUT smart-pricing: a floor above the ceiling is refused.
SaveSmartRules(s) ==
    /\ s.floor # None /\ s.ceiling # None => s.floor <= s.ceiling
    /\ rules' = [rules EXCEPT !.smart = s]
    /\ UNCHANGED <<price, stays, today>>

\* PUT rate-rules, and the discounts saved with the listing.
SaveDiscounts(lastMinute, longStay, mobile) ==
    /\ rules' = [rules EXCEPT !.lastMinute = lastMinute, !.longStay = longStay, !.mobile = mobile]
    /\ UNCHANGED <<price, stays, today>>

\* PUT and DELETE of a night of the calendar.
SetPrice(n, p) ==
    /\ p # None => Cardinality({m \in Night \ {n} : price[m] # None}) < MaxPrices
    /\ price' = [price EXCEPT ![n] = p]
    /\ UNCHANGED <<rules, stays, today>>

BookStay(s) ==
    /\ s.from >= today /\ Cardinality(stays) < MaxStays
    /\ Nights(s) \cap TakenNights(stays) = {}
    /\ stays' = stays \cup {s}
    /\ UNCHANGED <<rules, price, today>>

\* A cancellation, a sweep or an erasure frees the nights.
CancelStay(s) ==
    /\ s \in stays
    /\ stays' = stays \ {s}
    /\ UNCHANGED <<rules, price, today>>

PassDay ==
    /\ today < Horizon
    /\ today' = today + 1
    /\ UNCHANGED <<rules, price, stays>>

Next ==
    \/ \E s \in SmartRules : SaveSmartRules(s)
    \/ \E l \in RateRules, d, m \in Discounts : SaveDiscounts(l, d, m)
    \/ \E n \in Night, p \in Overrides \cup {None} : SetPrice(n, p)
    \/ \E s \in Dates : BookStay(s)
    \/ \E s \in Dates : CancelStay(s)
    \/ PassDay

Spec == Init /\ [][Next]_vars

-------------------------------------------------------------------------------
(* Properties                                                              *)

Bookable == {s \in Dates : s.from >= today /\ Nights(s) \cap TakenNights(stays) = {}}

(***************************************************************************)
(* No guest is charged less than the host's floor or more than the ceiling *)
(* for a night, but for the rounding of each night to the cent and of the  *)
(* stay to a whole amount, which may take half of either, whichever way a  *)
(* half is rounded; also where the host priced the night by hand: the      *)
(* clamp comes after every rule of computeNightPrice, and the route that   *)
(* saves the rules keeps the two bounds apart.                             *)
(***************************************************************************)
NightsWithinBounds ==
    LET s == rules.smart
        cent == Unit \div 100
    IN  s.floor # None \/ s.ceiling # None => \A stay \in Bookable :
            LET nights == stay.to - stay.from
                base == Quote(stay, FALSE, stays).base
            IN  /\ s.floor # None => 2 * base + Unit >= nights * (2 * s.floor - cent)
                /\ s.ceiling # None => 2 * base - Unit <= nights * (2 * s.ceiling + cent)

(***************************************************************************)
(* The preview a host saves the rules by is what the next guest of one     *)
(* night is charged, unless the night is a gap between two bookings, which *)
(* the preview leaves out (host.routes.ts).                                *)
(***************************************************************************)
PreviewIsCharged ==
    SmartActive(rules.smart) =>
        \A stay \in Bookable :
            (stay.to = stay.from + 1 /\ ~IsGap(rules.smart, stay, stays)) =>
                Quote(stay, FALSE, stays).base = Round(Preview(stay.from))

(***************************************************************************)
(* A guest who waits never gets more back: on no day does the share of a   *)
(* booked stay grow, under any policy (cancellation.ts).                   *)
(***************************************************************************)
WaitingNeverPays ==
    \A s \in stays, day \in 0 .. today, policy \in {"flexible", "moderate", "strict"} :
        RefundFor(policy, s, today, 101 * Unit, "guest") <= RefundFor(policy, s, day, 101 * Unit, "guest")
===============================================================================
