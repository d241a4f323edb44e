----------------------------- MODULE MCCatalogue ------------------------------
(***************************************************************************)
(* What guests see of the listings: moderation, the cache in front of the  *)
(* search and the ratings.  The three share no variable, so a behaviour is *)
(* one of either and the state spaces add up.                              *)
(***************************************************************************)
EXTENDS ListingModeration, TLC

CONSTANTS Key, Search, Write,            \* of the cache
          SafetyTtl, MaxEntries, QueryTime, MaxChanges, MaxTime,
          Stay, Stars                    \* of the reviews

ASSUME CatalogueAssumption ==
    /\ SafetyTtl \in Nat /\ QueryTime \in Nat /\ MaxChanges \in Nat /\ MaxTime \in Nat
    /\ MaxEntries \in Nat \ {0}
    /\ None \notin [at : Nat, version : Nat, value : Nat, read : Nat]
    /\ None \notin Req

VARIABLES
    part,
    cacheDb, cacheMadeAt, cacheAnswered, cacheVersion, cacheEntries, cacheSearch,
    cacheWrite, cacheNow,
    reviewReview, reviewRating, reviewHolder, reviewReq, reviewBlind

cacheVars == <<cacheDb, cacheMadeAt, cacheAnswered, cacheVersion, cacheEntries,
                  cacheSearch, cacheWrite, cacheNow>>
reviewVars == <<reviewReview, reviewRating, reviewHolder, reviewReq, reviewBlind>>
sumVars == <<part, vars, cacheVars, reviewVars>>

Cache == INSTANCE CatalogueCache WITH
    db <- cacheDb, madeAt <- cacheMadeAt, answered <- cacheAnswered,
    version <- cacheVersion, entries <- cacheEntries, search <- cacheSearch,
    write <- cacheWrite, now <- cacheNow, Absent <- None

Reviews == INSTANCE ReviewRatings WITH
    review <- reviewReview, rating <- reviewRating, holder <- reviewHolder,
    req <- reviewReq, blind <- reviewBlind,
    Ops <- {"create", "edit", "reply", "hide", "restore", "delete"},
    Env <- {"dbDown"}

SumInit ==
    /\ part \in {"moderation", "cache", "review"}
    /\ Init /\ Cache!Init /\ Reviews!Init

SumNext ==
    \/ part = "moderation" /\ Next
       /\ UNCHANGED <<part, cacheVars, reviewVars>>
    \/ part = "cache" /\ Cache!Next
       /\ UNCHANGED <<part, vars, reviewVars>>
    \/ part = "review" /\ Reviews!Next
       /\ UNCHANGED <<part, vars, cacheVars>>

SumSpec == SumInit /\ [][SumNext]_sumVars

TypesOK ==
    /\ part = "moderation" => TypeOK
    /\ part = "cache" => Cache!TypeOK
    /\ part = "review" => Reviews!TypeOK

\* A search answers what the database holds: no answered write is missing, another
\* server's for a while only, from a cache that stays small; each part keeps to its
\* types.
AnswersAreCurrent ==
    /\ TypesOK
    /\ part = "cache" =>
           Cache!NoStaleAnswer /\ Cache!HiddenForAWhile /\ Cache!CacheIsBounded

\* The rating of a stay is that of its reviews (ReviewRatings).
RatingIsHonest == part = "review" => Reviews!RatingIsHonest

\* Searches are named by the model values of the requests, reviewed stays by those
\* of the cache keys: one small symmetry group serves every part.
Symmetry == Permutations(Req) \cup Permutations(Key)
===============================================================================
