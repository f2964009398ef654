\* Every fault: two builders may work at once.  Nobody has to start a builder, so
\* the system may stop.  No symmetry, for liveness.
SPECIFICATION FairSpec
CONSTANTS
    Builders = {b1, b2}
    BuildIds = {x1, x2}
    Versions = {v1}
    NoBuilder = NoBuilder
    NoBuild = NoBuild
    Faults = {"lock_connection_lost", "database_recreated", "registry_wiped"}
CHECK_DEADLOCK FALSE
PROPERTIES
  VerdictsAreFinal
  LockIsReturned
