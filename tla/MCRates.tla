-------------------------------- MODULE MCRates --------------------------------
(* A small instance of ExchangeRates for the claim the model refutes. *)
EXTENDS ExchangeRates, TLC

\* "EUR-based exchange rates [...] cached in the `exchange_rate` table"
\* (currency.repository.ts): the rate the search converts with, where it asks for
\* the one to the euro, is the rate that was stored last.
SearchUsesTheRates ==
    \A b \in Base : table[b] # NoRow => SearchRate = table[b].rate

Symmetry == Permutations(Req)
===============================================================================
