----------------------------- MODULE MCFamilies -----------------------------
(***************************************************************************)
(* The model families of `lift model check`, for TLC: a behaviour takes    *)
(* one Petri net, one lossy net, one coloured net, one behaviour tree, one *)
(* task set, one stochastic net or two FPGA designs, as the dispatch on    *)
(* kind of the spec file does (src/src/models/mod.rs), and leaves the      *)
(* others alone.                                                           *)
(***************************************************************************)
EXTENDS PetriReport, CpnUnfold, Rt

CONSTANTS
  Families,     \* those a behaviour may take
  NoState,
  Trees,
  Gspns, Marking, Guard, Lost,
  Pairs, WordBits, InputBits, StateCeiling, Depth, UnionBits, PairCeiling,
  CheckBound

VARIABLES
  family,
  tree, visited, agenda, lts,
  gspn, tang, edges, mk, stage, left, from,
  rtl, part, state_set, idx, events, machines

(* A lossy link with retransmission credit: messages wait, are sent two at *)
(* a time, acknowledged one by one, and lost in flight or when queued.     *)
MCPlace == {"queued", "flying", "acked"}
MCTrans == {"send", "ack", "recycle"}
MCLoss == {"drop", "forget"}

At(q, f, a) == [p \in MCPlace |-> CASE p = "queued" -> q
                                    [] p = "flying" -> f
                                    [] p = "acked" -> a]
MCPre == [t \in MCTrans \cup MCLoss |->
            CASE t = "send" -> At(2, 0, 0) [] t = "ack" -> At(0, 1, 0)
              [] t = "recycle" -> At(0, 0, 1)
              [] t = "drop" -> At(0, 1, 0) [] t = "forget" -> At(1, 0, 1)]
MCPost == [t \in MCTrans \cup MCLoss |->
            CASE t = "send" -> At(0, 2, 0) [] t = "ack" -> At(0, 0, 1)
              [] t = "recycle" -> At(1, 0, 0)
              [] OTHER -> At(0, 0, 0)]
MCInitial == At(5, 2, 0)

(* The nets, trees, task sets and designs, and the modules of the families.*)
X == INSTANCE FamilyExamples
PetriModels == X!PtModels
PetriState == X!PtState
PetriAction == X!PtAction
PetriBounds == X!PtBounds
PetriInitial(m) == X!PtInitial(m)
PetriEnabled(m, s) == X!PtEnabled(m, s)
PetriStep(m, s, a) == X!PtStep(m, s, a)
PetriForbidden(m, s) == X!PtForbidden(m, s)
PetriDepths == X!SmallDepths
ColouredNets == X!CpnNets
MeetingNets == X!NamesakeNets
BehaviourTrees == X!BtTrees
PeriodicTaskSets == X!RtTaskSets
StochasticNets == X!GspnNets
StochasticMarkings == X!GspnMarkings
DesignPairs == X!FpgaPairs
TruncatingPairs == X!CastPairs

(* A name stands for one transition in all the nets but the namesakes.     *)
ASSUME KeysAssumption == Nets # MeetingNets => \A c \in Nets : NamesAreKeys(c)
ASSUME PetriModelsAssumption == PetriAssumption

B == INSTANCE Bt WITH seen <- visited, queue <- agenda
G == INSTANCE Gspn
F == INSTANCE FpgaEquiv

behaviour == <<tree, visited, agenda, lts>>
stochastic == <<gspn, tang, edges, mk, stage, left, from>>
hardware == <<rtl, part, state_set, idx, events, machines>>

(* A check that is never begun.                                            *)
NoCheck ==
  model = (CHOOSE m \in Models : TRUE) /\ bound = (CHOOSE b \in Bounds : TRUE) /\ Init
(* A coloured net that nothing can happen in.                              *)
NoNet ==
  /\ cpn = (CHOOSE c \in Nets : c.transitions = <<>>)
  /\ net = unfold_cpn(cpn) /\ unfolded = net.initial
NoTree == tree = <<>> /\ visited = <<>> /\ agenda = <<>> /\ lts = <<>>
(* A task set that stays where it starts: no simulation is run.            *)
NoTasks == ts = (CHOOSE set \in TaskSets : TRUE) /\ alpha = 2 /\ RtInit
NoGspn ==
  /\ gspn = <<>> /\ tang = <<>> /\ edges = <<>> /\ mk = <<>> /\ stage = <<>>
  /\ left = <<>> /\ from = <<>>
NoDesigns ==
  /\ rtl = <<>> /\ part = <<>> /\ state_set = <<>> /\ idx = <<>> /\ events = <<>>
  /\ machines = <<>>

FamilyInit ==
  /\ family \in Families
  /\ LossyInit
  /\ IF family = "petri" THEN Init ELSE NoCheck
  /\ IF family = "coloured" THEN UnfoldInit ELSE NoNet
  /\ IF family = "tree" THEN B!Init ELSE NoTree
  /\ IF family = "tasks" THEN RtInit ELSE NoTasks
  /\ IF family = "gspn" THEN G!Init ELSE NoGspn
  /\ IF family = "fpga" THEN F!Init ELSE NoDesigns

FamilyNext ==
  /\ UNCHANGED family
  /\ \/ /\ family = "lossy" /\ LossyNext
        /\ UNCHANGED <<vars, coloured, behaviour, sim, stochastic, hardware>>
     \/ /\ family = "petri" /\ Next
        /\ UNCHANGED <<lossy, coloured, behaviour, sim, stochastic, hardware>>
     \/ /\ family = "coloured" /\ UnfoldNext
        /\ UNCHANGED <<lossy, vars, behaviour, sim, stochastic, hardware>>
     \/ /\ family = "tree" /\ B!Next
        /\ UNCHANGED <<lossy, vars, coloured, sim, stochastic, hardware>>
     \/ /\ family = "tasks" /\ RtNext
        /\ UNCHANGED <<lossy, vars, coloured, behaviour, stochastic, hardware>>
     \/ /\ family = "gspn" /\ G!Next
        /\ UNCHANGED <<lossy, vars, coloured, behaviour, sim, hardware>>
     \/ /\ family = "fpga" /\ F!Next
        /\ UNCHANGED <<lossy, vars, coloured, behaviour, sim, stochastic>>

FamilySpec ==
  /\ FamilyInit
  /\ [][FamilyNext]_<<family, lossy, vars, coloured, behaviour, sim, stochastic, hardware>>

-----------------------------------------------------------------------------
(* bt.rs:16-19: the edges of the compiled system are the ticks of the tree,*)
(* its forbidden states those of the unsafe blackboards; and no action     *)
(* runs for ever without an effect.                                        *)
BtCompiledFaithfully ==
  family = "tree" => B!EdgesAreTicks /\ B!ForbidIsFaithful /\ B!RunningChanges

(* gspn.rs: the simulation walks along the chain that ctmc builds, and no  *)
(* probability mass is lost without an immediate cycle (gspn.rs:107-110).  *)
SimulationIsTheChain == family = "gspn" => G!SimulationIsTheChain /\ G!NoMassIsLost

(* gspn.rs:53-54, "Defined on an ERGODIC tangible CTMC (no absorbing       *)
(* state)": a chain that is never absorbed has its steady-state metrics.   *)
SteadyStateWhenErgodic == family = "gspn" => G!SteadyStateWhenErgodic

(* fpga_fsm.rs:18-24: the extracted machine is the design's, exactly.      *)
ProjectionIsExact == family = "fpga" => F!ProjectionIsExact

(* fpga_equiv.rs:13-17: equivalent means that no input tells them apart.   *)
EquivalenceIsDecided == family = "fpga" => F!EquivalenceIsDecided
=============================================================================
