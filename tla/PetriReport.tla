---------------------------- MODULE PetriReport ----------------------------
(***************************************************************************)
(* What is said of a Petri net.  Checked: the explorer of Checker, over    *)
(* nets, against what their Lean export proves.  On paper: the theory      *)
(* behind the report line "net is LOSSY: declared upper-bound safety is    *)
(* monotone under loss (survives)" of petri_notes (src/src/models/mod.rs), *)
(* over the firing rule of src/lean/LeanLift/Models/Petri.lean (natural    *)
(* numbers): a net runs with its losses, beside the same net without them. *)
(***************************************************************************)
EXTENDS Checker, PtNet

CONSTANT FifoDepths   \* of the FIFOs whose nets are checked

(* The markings of a net are as long as its list of places; counts are u32.*)
IsNet(net) ==
  LET Counts == [DOMAIN net.initial -> 0..(Modulus - 1)]
  IN  /\ IsFiniteSet(DOMAIN net.initial)
      /\ net.initial \in Counts /\ Blocked \notin Counts
      /\ net.transitions \in Seq(Range(net.transitions))
      /\ \A t \in Range(net.transitions) : t.pre \in Counts /\ t.post \in Counts
      /\ net.conserved \subseteq DOMAIN net.initial
      /\ \A i \in DOMAIN net.bounds : net.bounds[i].max \in Nat

(* The Model trait is PtNet's.                                             *)
PetriAssumption ==
  /\ Modulus \in Nat \ {0} /\ FifoDepths \subseteq Nat /\ None = Blocked
  /\ \A net \in Models :
       /\ IsNet(net)
       /\ Initial(net) = PtInitial(net)
       /\ \A mk \in State :
            /\ Enabled(net, mk) = PtEnabled(net, mk)
            /\ Forbidden(net, mk) = PtForbidden(net, mk)
            /\ \A a \in Action : Step(net, mk, a) = PtStep(net, mk, a)

(* lean.rs: what the Lean export proves of a net over the naturals, the    *)
(* sweep over wrapping counts never contradicts, however far it gets.      *)
(* fpga_fifo.rs:26-32: the sweep of a FIFO's net meets exactly as many     *)
(* markings as its bound was sized for, when the ceiling allows as many.   *)
PetriProvedIsSafe ==
  /\ report.violations # {} => ~LeanProves(model)
  /\ \A d \in FifoDepths :
       phase = "done" /\ model = fifo_net(d) /\ bound >= reachable_markings(d) =>
         Cardinality(seen) = reachable_markings(d) /\ ~truncated

-----------------------------------------------------------------------------
CONSTANTS
  Place,
  Trans,    \* the transitions of the net, the losses apart
  Loss,     \* its pure-loss transitions
  pre, post, initial

ASSUME NetAssumption ==
  /\ Trans \cap Loss = {}
  /\ pre \in [Trans \cup Loss -> [Place -> Nat]]
  /\ post \in [Trans \cup Loss -> [Place -> Nat]]
  /\ initial \in [Place -> Nat]

(* A loss consumes and produces nothing.                                   *)
ASSUME LossAssumption == \A t \in Loss : \A p \in Place : post[t][p] = 0

EnabledIn(m, t) == \A p \in Place : pre[t][p] <= m[p]

Monus(a, b) == IF a >= b THEN a - b ELSE 0
fire_added(m, t) == [p \in Place |-> m[p] + pre[t][p] + post[t][p]]  \* mutant: sign
fire(m, t) == [p \in Place |-> Monus(m[p], pre[t][p]) + post[t][p]]

VARIABLES
  marking,   \* of the lossy net
  ideal      \* of the same net without losses, taking the same transitions

lossy == <<marking, ideal>>

LossyInit == marking = initial /\ ideal = initial

FireUnchecked(t) ==                                   \* mutant: no guard
  /\ marking' = fire(marking, t)
  /\ ideal' = fire(ideal, t)
Fire(t) ==
  /\ EnabledIn(marking, t)
  /\ marking' = fire(marking, t)
  /\ ideal' = fire(ideal, t)

Lose(t) ==
  /\ EnabledIn(marking, t)
  /\ marking' = fire(marking, t)
  /\ UNCHANGED ideal

LossyNext == (\E t \in Trans : Fire(t)) \/ (\E t \in Loss : Lose(t))

LossySpec == LossyInit /\ [][LossyNext]_lossy

-----------------------------------------------------------------------------
MarkingsOK == marking \in [Place -> Nat] /\ ideal \in [Place -> Nat]

(* Loss only removes tokens: whatever the lossy net does, the loss-free    *)
(* net is at a marking with at least as many tokens everywhere.            *)
Covered == \A p \in Place : marking[p] <= ideal[p]

(* That marking is really one the loss-free net reaches: each transition   *)
(* the lossy net takes is enabled there, so the ideal run is a run.        *)
IdealIsARun == [][\A t \in Trans : Fire(t) => EnabledIn(ideal, t)]_lossy

=============================================================================
