SPECIFICATION Spec
CONSTANTS
    Builders = {b1, b2}
    BuildIds = {x1, x2, x3}
    Versions = {v1, v2}
    NoBuilder = NoBuilder
    NoBuild = NoBuild
    Faults = {"registry_wiped"}
SYMMETRY Symmetry
INVARIANTS
  RegistryIsOrderly
  GatesMeasureTheBuildPromoted
PROPERTIES
  ImplementsServedVersion
