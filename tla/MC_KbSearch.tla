----------------------------- MODULE MC_KbSearch -----------------------------
\* An instance of KbSearch for TLC.
EXTENDS KbSearch, TLC

CONSTANTS k1, k2

\* One subject is stopped by its calls, the others by their tokens.
Requests == [k \in Keys |-> IF k = k1 THEN 1 ELSE 2]
Tokens == [k \in Keys |-> IF k = k1 THEN 2 ELSE 1]
==============================================================================
