---------------------------- MODULE ServedVersion ----------------------------
(***************************************************************************)
(* What the knowledge base promises its readers, with no builder in sight: *)
(* at most one build is served, it is one that completed, a build that the *)
(* publish gates rejected is never served, and the served sequence number  *)
(* only moves forward.  BuildLifecycle is shown to implement it.           *)
(***************************************************************************)
EXTENDS Integers

CONSTANT None        \* nothing is served yet, or the registry was emptied

VARIABLES
    eligible,        \* build_seq values of completed, not yet judged builds
    served           \* build_seq of the active build, or None

vars == <<eligible, served>>

TypeOK == /\ eligible \subseteq Nat
          /\ served \in Nat \cup {None}

Init == eligible = {} /\ served = None

Newer(n) == /\ served # None => n > served
            /\ \A m \in eligible : n > m

\* A build completes.  It is the newest the registry knows.
Finish == /\ \E n \in eligible' : Newer(n) /\ eligible' = eligible \cup {n}
          /\ UNCHANGED served

\* The publish gates reject a build: it can never be served any more.
Reject == /\ \E n \in eligible : eligible' = eligible \ {n}
          /\ UNCHANGED served

\* The publish gates pass: the build replaces an older one.
Promote == \E n \in eligible : /\ served # None => n > served
                               /\ eligible' = eligible \ {n}
                               /\ served' = n

\* The registry is emptied by hand: nothing is served until the next build.
Wipe == eligible' = {} /\ served' = None

Next == Finish \/ Reject \/ Promote \/ Wipe

Spec == Init /\ [][Next]_vars
==============================================================================
