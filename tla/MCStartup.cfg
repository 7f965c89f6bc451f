\* Three workers, two reactors, two seeds.
SPECIFICATION FairSpec
CONSTANTS
  N = 3
  R = 2
  Seeds <- MCSeeds
INVARIANTS TypeOK InitializedBeforeUse IInv
PROPERTY StartupCompletes
