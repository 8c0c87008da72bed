\* Every program: what the cleanup blocks answer for is released.
CONSTANTS
  Rounds = 3
  Programs <- AllPrograms
SPECIFICATION Spec
INVARIANTS WellDefined ReleasesAll
