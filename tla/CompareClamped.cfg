SPECIFICATION ToolSpec
CONSTANTS
  Commands = {"verdict"}
  s1 = s1
  s2 = s2
  s3 = s3
  None = None
  NoState = None
  Models <- MCModels
  Bounds <- MCBounds
  State <- MCState
  Action <- MCAction
  Initial <- LtsInitial
  Enabled <- LtsEnabled
  Step <- LtsStep
  Forbidden <- LtsForbidden
  e1 = e1
  e2 = e2
  d1 = d1
  d2 = d2
  NoDef = NoDef
  Proc = {p1}
  MaxRunning = 1
  Example = {e1, e2}
  entrypoint <- LoopsEntrypoint
  Lane = {"claude", "qwen"}
  Configured = {"claude"}
  Def = {d1, d2, broken}
  Typechecks = {d1, d2}
  Agrees <- LoopsAgrees
  extracted <- LoopsExtracted
  MaxIters = 3
  OVERFLOW = OVERFLOW
  NAN = NAN
  Missing = Missing
  Absent = None
  Nothing = None
  Comparisons <- AllComparisons
  Examples <- ProofExamples
  MaxProofs = 2
  Blocked = NoState
  Modulus = 4
  Exports <- ModelExports
  PipeCap = 4
  MaxLen = 2
  RustCaps = {4, 20}
  StreamCap = 3
  Descriptions <- FsmDescriptions
  Bar = "|"
  Chains <- SmallChains
  Terms = 3
  Networks <- QueueNetworks
  QueueCap = 2
  Plans <- TimedPlans
  Giga = 12
  MAX_FOLD = 4
  Unknown = Unknown
  Word = 16
  HorizonCap = 14
  RateMonotonic <- RmVerdict
  Jackson <- OpenNetwork
  Invocations <- DesignInvocations
  DEFAULT_BOUND = 3
  EXPLICIT_LIMIT = 6
  MaxDepth = 3
  MAX_UNION_INPUTS = 2
  MAX_PRODUCT_PAIRS = 6
  NoFsm = NoFsm
  Refused = Refused
  Specs <- SpecFiles
  Theory <- LeanTheory
  MaxCalls = 2
  MaxEdits = 1
INVARIANT DeclaredIsReal
CHECK_DEADLOCK FALSE
