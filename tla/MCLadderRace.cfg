SPECIFICATION Spec
CONSTANTS
  Ladders <- MCRaces
  Mutated <- MCMutated
  Lucky <- MCLucky
  Fresh <- MCFresh
  Seed <- MCSeed
  Draw <- MCDraw
  Structure <- MCStructure
  Mined <- MCMined
  Programs <- MCPrograms
  Generators <- MCGenerators
  Libraries <- MCLibraries
  NoProgram = NoProgram
  NoSnap = NoSnap
  Garbled = Garbled
  MaxFaults = 0
INVARIANTS
  NobodyLeftWaiting
CHECK_DEADLOCK FALSE
