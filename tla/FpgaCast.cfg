SPECIFICATION FamilySpec
CONSTANTS
  Families = {"fpga"}
  Place <- MCPlace
  Trans <- MCTrans
  Loss <- MCLoss
  pre <- MCPre
  post <- MCPost
  initial <- MCInitial
  None = None
  Blocked = None
  Modulus = 4
  Models <- PetriModels
  Bounds <- PetriBounds
  State <- PetriState
  Action <- PetriAction
  Initial <- PetriInitial
  Enabled <- PetriEnabled
  Step <- PetriStep
  Forbidden <- PetriForbidden
  FifoDepths <- PetriDepths
  NoVar = NoVar
  Nets <- ColouredNets
  NoState = NoState
  Trees <- BehaviourTrees
  TaskSets <- PeriodicTaskSets
  Alphas = {0, 2}
  Cycles = 2
  HorizonCap = 14
  Word = 16
  Gspns <- StochasticNets
  Marking <- StochasticMarkings
  Guard = 7
  Lost = Lost
  Pairs <- TruncatingPairs
  WordBits = 6
  InputBits = 2
  StateCeiling = 8
  Depth = 6
  UnionBits = 2
  PairCeiling = 40
  CheckBound = 30
INVARIANT ProjectionIsExact
CHECK_DEADLOCK FALSE
