SPECIFICATION FairSpec
CONSTANTS
  Key = {k1, k2, k3}
  Foreign = {a1}
  NoKey = NoKey
INVARIANTS
  TypeOK
  ListingComplete
  ListingSound
  FailsOnlyOnDeletion
PROPERTIES
  Terminates
  WorkRunsOut
