SPECIFICATION Spec
CONSTANTS
  W = 3
  N = 4
  NoWord = NoWord
  Decoded <- MCDecoded
  ForcedDelay <- MCForcedDelay
  CountCap = 2
  ListCap = 2
  TopBar = 16
  ConstraintCap = 2
  WalkCap = 4
  Problems <- MCProblems
INVARIANTS
  TypeOK
  NothingLost
  ChampionsReproduce
  UnitsDisjoint
  UnitsAreValidSeeds
  TagsAreOpen
PROPERTIES
  Terminates
