SPECIFICATION Spec
CONSTANTS
  Ladders <- MCRaces
  Mutated <- MCMutated
  Lucky <- MCLucky
  Fresh <- MCFresh
  Seed <- MCSeed
  Draw <- MCDraw
  Structure <- MCStructure
  Mined <- MCMined
  Programs <- MCPrograms
  Generators <- MCGenerators
  Libraries <- MCLibraries
  NoProgram = NoProgram
  NoSnap = NoSnap
  Garbled = Garbled
  MaxFaults = 2
INVARIANTS
  LadderIsUninterrupted
CHECK_DEADLOCK FALSE
