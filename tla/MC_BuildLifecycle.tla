-------------------------- MODULE MC_BuildLifecycle --------------------------
\* Instances of BuildLifecycle for TLC.
EXTENDS BuildLifecycle, TLC

\* Processes and build ids are interchangeable (safety runs only).
Symmetry == Permutations(Builders) \cup Permutations(BuildIds)
==============================================================================
