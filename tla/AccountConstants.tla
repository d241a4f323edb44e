---------------------------- MODULE AccountConstants ----------------------------
(***************************************************************************)
(* What the stores of the accounts are instantiated with.                  *)
(***************************************************************************)
EXTENDS Naturals, FiniteSets

CONSTANTS Request,      \* requests the server handles at the same time
          Code,         \* codes for a forgotten password there are (4 digits)
          Ticket,       \* random tickets such a code is traded for
          MaxGuesses,   \* MAX_RESET_GUESSES
          MaxTokens,    \* bound: rows of password_reset_token
          MaxFaults,    \* bound: restarts of the process and requests lost
          Secret,       \* secrets generateTotpSecret may draw
          Link,         \* rows of email_verification_token
          None

ASSUME AccountAssumption ==
    /\ IsFiniteSet(Request)
    /\ Code # {} /\ Code \cap Ticket = {}
    /\ MaxGuesses \in Nat \ {0} /\ MaxTokens \in Nat /\ MaxFaults \in Nat
    /\ None \notin Secret \cup Link
===============================================================================
