------------------------------- MODULE MCMoney --------------------------------
(***************************************************************************)
(* What stays cost and where the money goes: the payouts, the prices, the  *)
(* settings of the platform, the payment credentials and the exchange      *)
(* rates.  They share no variable, so a behaviour is one of either and the *)
(* state spaces add up.                                                    *)
(***************************************************************************)
EXTENDS HostPayouts, Integers, FiniteSets, Sequences, TLC

CONSTANTS
    Call,                                      \* calls of settings, credentials and rates
    CacheTime, QueryTime, MaxChanges, SettingsTime,             \* of the settings
    Key, MaxSaves,                                              \* of the credentials
    MaxAge, Memo, StepTime, RatesTime,                          \* of the exchange rates
    Unit, Horizon, Weekend, Nightly, Overrides, SmartRules, RateRules, Discounts, LongStay,
    FeePercent, MaxStays, MaxPrices                             \* of the prices

VARIABLES
    part,
    pricingRules, pricingPrice, pricingStays, pricingToday,
    settingsRow, settingsChangedAt, settingsCache, settingsReq, settingsNow,
    configRows, configStored, configReq, configSaves, configChanges, configShown,
    configExcuse,
    ratesTable, ratesMemo, ratesReq, ratesLastFail, ratesNow

pricingVars == <<pricingRules, pricingPrice, pricingStays, pricingToday>>
settingsVars == <<settingsRow, settingsChangedAt, settingsCache, settingsReq,
                     settingsNow>>
configVars == <<configRows, configStored, configReq, configSaves, configChanges,
                   configShown, configExcuse>>
ratesVars == <<ratesTable, ratesMemo, ratesReq, ratesLastFail, ratesNow>>
sumVars == <<part, vars, pricingVars, settingsVars, configVars, ratesVars>>

\* Rule sets: none, demand with bounds, lead times with seasons and gaps, bounds
\* between two cents, and bounds that the route has to refuse.
NoRules == [weekend |-> None, seasons |-> <<>>, early |-> None, last |-> None,
            occupancy |-> None, gap |-> None, floor |-> None, ceiling |-> None]
RuleSets ==
    {NoRules,
     [NoRules EXCEPT
        !.weekend = 20, !.floor = 70 * Unit, !.ceiling = 130 * Unit,
        !.occupancy = [window |-> 4, high |-> 50, highPercent |-> 50, low |-> 20, lowPercent |-> -50]],
     [NoRules EXCEPT
        !.early = [days |-> 3, percent |-> 20], !.last = [days |-> 1, percent |-> 50],
        !.gap = [nights |-> 1, percent |-> 20],
        !.seasons = <<[from |-> 0, to |-> 5, percent |-> 50], [from |-> 2, to |-> 3, percent |-> -20]>>],
     [NoRules EXCEPT !.weekend = 20, !.floor = 995049, !.ceiling = 1020051],
     [NoRules EXCEPT !.floor = 130 * Unit, !.ceiling = 70 * Unit]}

\* What smartRulesSchema lets a host send, a rule that is off as None.
SentRules ==
    LET Early == [days : Nat, percent : Int]
        Season == [from : Int, to : Int, percent : Int]
        Demand == [window : Nat, high : Int, highPercent : Int, low : Int, lowPercent : Int]
    IN  [weekend : Int \cup {None}, seasons : Seq(Season), early : Early \cup {None},
         last : Early \cup {None}, occupancy : Demand \cup {None},
         gap : [nights : Nat, percent : Int] \cup {None},
         floor : Nat \cup {None}, ceiling : Nat \cup {None}]

ASSUME PricesAssumption ==
    /\ Unit \in Nat \ {0} /\ Unit % 100 = 0
    /\ Nightly \in Nat /\ Overrides \subseteq Nat
    /\ SmartRules \subseteq SentRules

ASSUME MoneyAssumption ==
    /\ {CacheTime, QueryTime, MaxChanges, SettingsTime, MaxSaves, MaxAge, Memo, StepTime,
        RatesTime, Horizon} \subseteq Nat
    /\ 0 \in RateRules /\ 0 \in Discounts /\ NoRules \in SmartRules
    /\ None \notin Nat
    /\ None \notin [value : Nat, expiresAt : Nat]
    /\ None \notin [rate : Nat, at : Nat]
    /\ None \notin [at : Nat, value : Nat \cup {None}]

Pricing == INSTANCE StayPricing WITH
    rules <- pricingRules, price <- pricingPrice, stays <- pricingStays,
    today <- pricingToday, Base <- Nightly

Settings == INSTANCE PlatformSettings WITH
    row <- settingsRow, changedAt <- settingsChangedAt, cache <- settingsCache,
    req <- settingsReq, now <- settingsNow, Req <- Call, MaxTime <- SettingsTime,
    Env <- {"dbDown"}

Config == INSTANCE IntegrationConfig WITH
    rows <- configRows, stored <- configStored, req <- configReq,
    saves <- configSaves, changes <- configChanges, shown <- configShown,
    excuse <- configExcuse, Req <- Call, Env <- {"dbDown", "crash"}

Rates == INSTANCE ExchangeRates WITH
    table <- ratesTable, memo <- ratesMemo, req <- ratesReq,
    lastFail <- ratesLastFail, now <- ratesNow, Req <- Call, MaxTime <- RatesTime,
    Env <- {"provider", "dbDown"}

\* The parts that do not run stay in one initial state.
SumInit ==
    /\ part \in {"payouts", "pricing", "settings", "config", "rates"}
    /\ Init /\ Pricing!Init /\ Settings!Init /\ Config!Init /\ Rates!Init
    /\ part # "payouts" => stay = [s \in Stay |-> CHOOSE r \in StayRow : r.status = "confirmed" /\ r.covered]

SumNext ==
    \/ part = "payouts" /\ Next
       /\ UNCHANGED <<part, pricingVars, settingsVars, configVars, ratesVars>>
    \/ part = "pricing" /\ Pricing!Next
       /\ UNCHANGED <<part, vars, settingsVars, configVars, ratesVars>>
    \/ part = "settings" /\ Settings!Next
       /\ UNCHANGED <<part, vars, pricingVars, configVars, ratesVars>>
    \/ part = "config" /\ Config!Next
       /\ UNCHANGED <<part, vars, pricingVars, settingsVars, ratesVars>>
    \/ part = "rates" /\ Rates!Next
       /\ UNCHANGED <<part, vars, pricingVars, settingsVars, configVars>>

SumSpec == SumInit /\ [][SumNext]_sumVars

TypesOK ==
    /\ part = "payouts" => TypeOK
    /\ part = "pricing" => Pricing!TypeOK
    /\ part = "settings" => Settings!TypeOK
    /\ part = "config" => Config!TypeOK
    /\ part = "rates" => Rates!TypeOK

\* What a night costs is what the host agreed to: between the bounds, as the preview
\* said, and no guest is paid for cancelling later.
PricesHold ==
    part = "pricing" =>
        Pricing!NightsWithinBounds /\ Pricing!PreviewIsCharged /\ Pricing!WaitingNeverPays

\* The copies in memory follow their rows: the settings within their time, the
\* credentials once a save is through, the exchange rates unless the provider
\* failed; each part keeps to its types.
CopiesAreCurrent ==
    /\ TypesOK
    /\ part = "settings" => Settings!RatesAreRecent
    /\ part = "config" => Config!CopyIsCurrent
    /\ part = "rates" => Rates!OldRatesAreExcused /\ Rates!OutageIsNotKept

-------------------------------------------------------------------------------
(* What comments of the code say and the model refutes (see the README).   *)

\* "the payout register must never pay that booking a second time" (host_settled
\* in db/registry/bookings.ts).
SettledNeverPaidAgain == \A s \in Items : ~stay[s].settled

\* "so they are not blocked by themselves" (createBooking): a guest who comes back
\* to a checkout is charged what the first attempt was.
RetryCostsTheSame ==
    \A s \in pricingStays : pricingToday <= s.from =>
        Pricing!Quote(s, FALSE, pricingStays) = Pricing!Quote(s, FALSE, pricingStays \ {s})

\* Calls are named by the model values of the payouts: one symmetry group
\* serves every part.
Symmetry ==
    Permutations(Stay) \cup Permutations(Payout) \cup Permutations(Currency) \cup Permutations(Req)
===============================================================================
