------------------------------ MODULE MCTools -------------------------------
(***************************************************************************)
(* The commands of lift, for TLC: a behaviour is one exploration of        *)
(* `lift model check`, over every small transition system and ceiling, or  *)
(* one invocation of `lift verify` with its retries and its repair loop,   *)
(* one comparison of `lift verify`, a few calls of `lift prove` or of      *)
(* `lift model`, one export of a model as a program, one product of state  *)
(* machines, one Markov chain, one queueing network, or one run of         *)
(* `lift fpga`; the other parts stay where they are.                       *)
(***************************************************************************)
EXTENDS Checker, LiftProve, ModelCli, FpgaTiming, FpgaCli

CONSTANTS
  Commands,     \* those a behaviour may run
  s1, s2, s3,
  Proc, MaxRunning, Example, entrypoint, Lane, Configured, Def, Typechecks, Agrees,
  extracted, MaxIters, NoDef, e1, e2, d1, d2,
  Comparisons, OVERFLOW, NAN, Missing,
  Exports, PipeCap, MaxLen, RustCaps, StreamCap,
  Descriptions, Bar,
  Chains, Terms,
  Networks, QueueCap,
  Word, HorizonCap

VARIABLES
  tool,
  loop,
  pc, ex, kind, lane, cpp, def, prompt, iter, attempt, results, verdict, work, cache, replied,
  crowded,
  job, lines,
  export, step, witness, frontier, traces, partial, fed, stdin, hand, stdout, got, closure,
  doc, fsm, parts, joined,
  chain, a, e, pi, walk, sum, acc, term, k,
  desc, result, q, arrived, departed

(* Every partial transition function over three states and two actions,    *)
(* with a state that may be forbidden; ceilings below, at and above the    *)
(* number of states.                                                       *)
MCState == {s1, s2, s3}
MCAction == {"a", "b"}
MCModels ==
  [initial     : {s1},
   alphabet    : {<<"a", "b">>},
   transitions : [MCState \X MCAction -> MCState \cup {None}],
   forbid      : {{}, {s3}}]
MCBounds == 0..4

V == INSTANCE Verify
verifying ==
  <<pc, ex, kind, lane, cpp, def, prompt, iter, attempt, results, verdict, work, cache, replied,
    crowded>>

LoopsEntrypoint == [x \in Example |-> "kernel"]
LoopsAgrees == {<<e1, d1>>, <<e2, d2>>}
LoopsExtracted == [x \in Example |-> IF x = e1 THEN d1 ELSE d2]

E == INSTANCE ToolExamples
AllComparisons == E!AllComparisons
ProofExamples == E!ProofExamples
ModelExports == E!MixedExports
FsmDescriptions == E!FsmDocs
SmallChains == E!MarkovChains
QueueNetworks == E!QNets
TimedPlans == E!TimingPlans
DesignInvocations == E!FpgaInvocations
SpecFiles == E!CliSpecs
LeanTheory == E!CliTheory

K == INSTANCE Compare
X == INSTANCE Executor
S == INSTANCE Fsm
C == INSTANCE Ctmc
Q == INSTANCE Qnet
OpenNetwork(d) == Q!analyze(d)

(* The verdicts of rt.rs on a task set need none of its simulation.        *)
R == INSTANCE Rt
       WITH TaskSets <- {}, Alphas <- {}, Cycles <- 2, ts <- <<>>, alpha <- 0, now <- 0,
            pass <- "", remaining <- <<>>, released <- <<>>, active <- <<>>,
            missed <- {}, jobs <- 0
RmVerdict(set) == R!schedulable(set, "RM")

(* What the proofs assume of the constants.                                *)
ASSUME ToolAssumptions == FragmentAssumption /\ TheoryAssumption

loops == <<loop, vars, verifying>>
comparing == <<job, lines>>
exporting == <<export, step, witness, frontier, traces, partial, fed, stdin, hand,
               stdout, got, closure>>
fsms == <<doc, fsm, parts, joined>>
laws == <<chain, a, e, pi, walk, sum, acc, term, k>>
queues == <<desc, result, q, arrived, departed>>

LoopsInit ==
  /\ loop \in {"explore", "repair"}
  /\ loop = "repair" => bound = 0 /\ model = CHOOSE m \in Models : TRUE
  /\ loop = "explore" => /\ ex = [p \in Proc |-> e1]
                         /\ kind = [p \in Proc |-> "llm"]
                         /\ lane = [p \in Proc |-> "claude"]
  /\ Init
  /\ V!VerifyInit

LoopsNext ==
  /\ UNCHANGED loop
  /\ \/ loop = "explore" /\ Next /\ UNCHANGED verifying
     \/ loop = "repair" /\ V!VerifyNext /\ UNCHANGED vars

(* One state of the loops: they have not begun.                            *)
NoLoop ==
  /\ LoopsInit /\ loop = "repair"
  /\ \A p \in Proc : ex[p] = e1 /\ kind[p] = "llm" /\ lane[p] = "claude"
NoComparison == job = <<>> /\ lines = <<>>
NoExport ==
  /\ export = <<>> /\ step = <<>> /\ witness = <<>> /\ frontier = <<>> /\ traces = <<>>
  /\ partial = <<>> /\ fed = <<>> /\ stdin = <<>> /\ hand = <<>> /\ stdout = <<>>
  /\ got = <<>> /\ closure = <<>>
NoProduct == doc = <<>> /\ fsm = <<>> /\ parts = <<>> /\ joined = <<>>
NoChain ==
  /\ chain = <<>> /\ a = <<>> /\ e = <<>> /\ pi = <<>> /\ walk = <<>> /\ sum = <<>>
  /\ acc = <<>> /\ term = <<>> /\ k = <<>>
NoQueues == desc = <<>> /\ result = <<>> /\ q = <<>> /\ arrived = <<>> /\ departed = <<>>
(* One invocation that has not begun, of either FPGA command, on no module.*)
OnePlan == [verb |-> "timing", modules |-> <<>>]
OneDesign == [verb |-> "check", files |-> <<<<>>>>, emit |-> FALSE, prove |-> FALSE]
NoPlan == plan = OnePlan /\ certs = <<>> /\ status = Unknown
NoDesign == inv = OneDesign /\ done = 0 /\ jobs = <<>> /\ tally = Counters /\ code = NoFsm

ToolInit ==
  /\ tool \in Commands
  /\ IF tool = "loop" THEN LoopsInit ELSE NoLoop
  /\ IF tool = "verdict" THEN K!CompareInit ELSE NoComparison
  /\ ProveInit
  /\ IF tool = "export" THEN X!ExportInit ELSE NoExport
  /\ IF tool = "product" THEN S!FsmInit ELSE NoProduct
  /\ IF tool = "chain" THEN C!Init ELSE NoChain
  /\ IF tool = "queues" THEN Q!Init ELSE NoQueues
  /\ IF tool = "timing" THEN TimingInit ELSE NoPlan
  /\ IF tool = "design" THEN FpgaCliInit ELSE NoDesign
  /\ CliInit /\ (tool # "model" => \A t \in Theory : olean[t] = 1)

ToolNext ==
  /\ UNCHANGED tool
  /\ \/ /\ tool = "loop" /\ LoopsNext
        /\ UNCHANGED <<comparing, proving, exporting, fsms, laws,
                       queues, certifying, commands, cli>>
     \/ /\ tool = "verdict" /\ K!CompareNext
        /\ UNCHANGED <<loops, proving, exporting, fsms, laws,
                       queues, certifying, commands, cli>>
     \/ /\ tool = "proof" /\ ProveNext
        /\ UNCHANGED <<loops, comparing, exporting, fsms, laws,
                       queues, certifying, commands, cli>>
     \/ /\ tool = "export" /\ X!ExportNext
        /\ UNCHANGED <<loops, comparing, proving, fsms, laws,
                       queues, certifying, commands, cli>>
     \/ /\ tool = "product" /\ S!FsmStep
        /\ UNCHANGED <<loops, comparing, proving, exporting, laws,
                       queues, certifying, commands, cli>>
     \/ /\ tool = "chain" /\ C!Next
        /\ UNCHANGED <<loops, comparing, proving, exporting, fsms,
                       queues, certifying, commands, cli>>
     \/ /\ tool = "queues" /\ Q!Next
        /\ UNCHANGED <<loops, comparing, proving, exporting, fsms,
                       laws, certifying, commands, cli>>
     \/ /\ tool = "timing" /\ TimingNext
        /\ UNCHANGED <<loops, comparing, proving, exporting, fsms,
                       laws, queues, commands, cli>>
     \/ /\ tool = "design" /\ FpgaCliNext
        /\ UNCHANGED <<loops, comparing, proving, exporting, fsms,
                       laws, queues, certifying, cli>>
     \/ /\ tool = "model" /\ CliNext
        /\ UNCHANGED <<loops, comparing, proving, exporting, fsms,
                       laws, queues, certifying, commands>>

ToolSpec ==
  /\ ToolInit
  /\ [][ToolNext]_<<tool, loops, comparing, proving, exporting, fsms, laws, queues,
                    certifying, commands, cli>>

(* The program runs on in either loop: see Checker and Verify.             *)
FairTools ==
  /\ ToolSpec
  /\ WF_vars(tool = "loop" /\ loop = "explore" /\ Next)
  /\ \A p \in Proc : WF_verifying(tool = "loop" /\ loop = "repair" /\ V!StepOf(p))

-----------------------------------------------------------------------------
(* check.rs:61 and harness.rs:79-128: the exploration returns for every    *)
(* system and ceiling, and an invocation ends whatever the tools, the Lean *)
(* runner and the lanes do, since the repairs and the retries are counted. *)
ToolsEnd ==
  tool = "loop" =>
    /\ loop = "explore" => Terminates
    /\ loop = "repair" => V!EveryRunEnds

(* compare.rs: a model that is the kernel in checked arithmetic conforms,  *)
(* one that differs does not, and kernels meet their postconditions.       *)
ClassIsRight == tool = "verdict" => K!ClassIsRight

(* compare.rs:224-226: a divergence is only declared where the source wraps. *)
DeclaredIsReal == tool = "verdict" => K!DeclaredIsReal

(* compare.rs:312-318: a tolerance never masks a NaN, an infinity, or a    *)
(* difference that overflows, and holds of the exact difference.           *)
ToleranceIsSound == tool = "verdict" => K!ToleranceIsSound

(* codegen.rs:135-144: a program that passes the loop closure is the model,*)
(* unless the cap was reached.                                             *)
ConformanceIsComplete == tool = "export" => X!ConformanceIsComplete

(* codegen.rs: what the generator writes, if it compiles, passes.          *)
GeneratedCodeConforms == tool = "export" => X!GeneratedCodeConforms

(* format.rs: a product moves as its components do, each taking an event   *)
(* it knows and every event needing all who know it.                       *)
ProductIsSynchronous == tool = "product" => S!ProductIsSynchronous

(* gspn.rs: the steady state is the law that the chain's flow keeps, and   *)
(* uniformization is a stochastic law at every term.                       *)
LawsAreRight == tool = "chain" => C!SteadyStateIsStationary /\ C!UniformizedKeepsMass

(* gspn.rs: the chance of a state and the expected time satisfy the        *)
(* first-step equations wherever absorption is certain.                    *)
AbsorptionIsRight == tool = "chain" => C!AbsorptionIsRight

(* qnet.rs: the rates balance at every station of an open network, scale   *)
(* with the input, and are positive exactly where a job can get.           *)
FlowIsBalanced ==
  tool = "queues" => Q!FlowIsBalanced /\ Q!LoadIsLinear /\ Q!JobsFollowTheTraffic
=============================================================================
