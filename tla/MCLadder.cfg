SPECIFICATION FairSpec
CONSTANTS
  Ladders <- MCLadders
  Mutated <- MCMutated
  Lucky <- MCLucky
  Fresh <- MCFresh
  Seed <- MCSeed
  Draw <- MCDraw
  Structure <- MCStructure
  Mined <- MCMined
  Programs <- MCPrograms
  Generators <- MCGenerators
  Libraries <- MCLibraries
  NoProgram = NoProgram
  NoSnap = NoSnap
  Garbled = Garbled
  MaxFaults = 3
INVARIANTS
  TypeOK
  LadderIsUninterrupted
  SnapshotsAreLockStep
  NobodyLeftWaiting
  ShrinksCertified
PROPERTIES
  LadderFinishes
