----------------------------- MODULE FpgaEquiv -----------------------------
(***************************************************************************)
(* `lift fpga equiv` (equiv_cmd of src/src/models/fpga.rs, build_product   *)
(* of fpga_equiv.rs): the control machines of an implementation and of its *)
(* reference are extracted one after the other, then driven together by    *)
(* the same inputs, identified by name.  The machine of one design alone   *)
(* is what `lift fpga check` gives to the model checker.                   *)
(***************************************************************************)
EXTENDS FpgaFsm

CONSTANTS
  Pairs,        \* the pairs <<implementation, reference>> that may be compared
  UnionBits,    \* the ceiling on the inputs of the two together
  PairCeiling,  \* the ceiling on the pairs of states
  CheckBound    \* the bound of the checker that decides the product

VARIABLES
  rtl,          \* the two designs
  part,         \* "layout", "reach", "label" of the design being extracted,
                \* "product", "events", or the outcome
  state_set,    \* the states of that design, or the pairs, in the order met
  idx,          \* how many of them have been expanded, or valuations labelled
  events,       \* the successor vectors of the events so far
  machines      \* the machines extracted so far

vars == <<rtl, part, state_set, idx, events, machines>>

Design == rtl[Len(machines) + 1]

Init ==
  /\ rtl \in Pairs
  /\ part = "layout"
  /\ state_set = <<>>
  /\ idx = 0
  /\ events = <<>>
  /\ machines = <<>>

Goto(p) == part' = p

-----------------------------------------------------------------------------
(* extract_fsm.  Err ends the command, and so does a design without a      *)
(* control machine.                                                        *)
BeginReach ==
  /\ part = "layout"
  /\ IF Layout(Design) = "fsm"
       THEN Goto("reach") /\ state_set' = <<reset(Design)>>
       ELSE Goto(Layout(Design)) /\ UNCHANGED state_set
  /\ UNCHANGED <<rtl, idx, events, machines>>

Reach ==
  /\ part = "reach"
  /\ idx < Len(state_set)
  /\ LET met == Explored(Design, state_set, state_set[idx + 1])
     IN  IF Contains(met, Refused) \/ Len(met) > StateCeiling
           THEN Goto("refused") /\ UNCHANGED <<state_set, idx>>
           ELSE state_set' = met /\ idx' = idx + 1 /\ UNCHANGED part
  /\ UNCHANGED <<rtl, events, machines>>

BeginLabel ==
  /\ part = "reach"
  /\ idx = Len(state_set)
  /\ Goto("label")
  /\ idx' = 0
  /\ UNCHANGED <<rtl, state_set, events, machines>>

Label ==
  /\ part = "label"
  /\ idx < Len(valuations(used_inputs(Design)))
  /\ events' = WithEvent(events, Behaviour(Design, Range(state_set), idx), state_set[1])
  /\ idx' = idx + 1
  /\ UNCHANGED <<rtl, part, state_set, machines>>

moore_inputs(d) ==
  [b \in DOMAIN used_inputs(d) |-> d.ports[used_inputs(d)[b]].name]

Extract ==
  /\ part = "label"
  /\ idx = Len(valuations(used_inputs(Design)))
  /\ LET S == Range(state_set)
         V == Range(valuations(used_inputs(Design)))
     IN  machines' = Append(machines,
           [reset        |-> reset(Design),
            states       |-> S,
            moore_inputs |-> moore_inputs(Design),
            moore_step   |-> [e \in S \X V |-> step(Design, e[1], e[2])],
            events       |-> events,
            forbid       |-> derive_forbidden(Design, S)])
  /\ Goto(IF machines = <<>> THEN "layout" ELSE "union")
  /\ state_set' = <<>> /\ idx' = 0 /\ events' = <<>>
  /\ UNCHANGED rtl

-----------------------------------------------------------------------------
(* build_product.  The inputs of the two in the order of their names; a    *)
(* joint valuation is projected to each machine's own, bit by bit.         *)
union ==
  SetToSortSeq(Range(machines[1].moore_inputs) \cup Range(machines[2].moore_inputs), <)

project_by_place(u, m) ==                       \* mutant: bits taken by position
  u % 2^Len(m.moore_inputs)
project(u, m) ==
  FoldLeft(LAMBDA n, b : n + 2^(b - 1) * Bit(u, CHOOSE i \in DOMAIN union : union[i] = m.moore_inputs[b]),
           0, [b \in DOMAIN m.moore_inputs |-> b])

PairStep(p, u) ==
  [k \in 1..2 |-> machines[k].moore_step[p[k], project(u, machines[k])]]

Start == <<machines[1].reset, machines[2].reset>>

BeginProduct ==
  /\ part = "union"
  /\ IF Len(union) > UnionBits
       THEN Goto("refused") /\ UNCHANGED state_set
       ELSE Goto("product") /\ state_set' = <<Start>>
  /\ UNCHANGED <<rtl, idx, events, machines>>

Product ==
  /\ part = "product"
  /\ idx < Len(state_set)
  /\ LET met == FoldLeft(LAMBDA acc, u :
                           LET np == PairStep(state_set[idx + 1], u)
                           IN  IF np \in Range(acc) THEN acc ELSE Append(acc, np),
                         state_set, valuations(union))
     IN  IF Len(met) > PairCeiling
           THEN Goto("refused") /\ UNCHANGED <<state_set, idx>>
           ELSE state_set' = met /\ idx' = idx + 1 /\ UNCHANGED part
  /\ UNCHANGED <<rtl, events, machines>>

BeginEvents ==
  /\ part = "product"
  /\ idx = Len(state_set)
  /\ Goto("events")
  /\ idx' = 0
  /\ UNCHANGED <<rtl, state_set, events, machines>>

PairEvent ==
  /\ part = "events"
  /\ idx < Len(valuations(union))
  /\ events' = WithEvent(events, [p \in Range(state_set) |-> PairStep(p, idx)], Start)
  /\ idx' = idx + 1
  /\ UNCHANGED <<rtl, part, state_set, machines>>

(* The verdict: the outputs of a machine are its registers, packed.  The   *)
(* checker stops short of a product larger than its own bound.             *)
diverging == {p \in Range(state_set) : p[1] # p[2]}

Compared ==
  /\ part = "events"
  /\ idx = Len(valuations(union))
  /\ Goto(CASE Len(state_set) > CheckBound -> "inconclusive"
            [] diverging = {} -> "equivalent"
            [] OTHER -> "different")
  /\ UNCHANGED <<rtl, state_set, idx, events, machines>>

Next ==
  \/ BeginReach \/ Reach \/ BeginLabel \/ Label \/ Extract
  \/ BeginProduct \/ Product \/ BeginEvents \/ PairEvent \/ Compared

Spec == Init /\ [][Next]_vars

-----------------------------------------------------------------------------
(* The transitions of a machine or of the product, by event.               *)
EdgesOf(evs) == {[s \in DOMAIN evs[i] |-> evs[i][s]] : i \in DOMAIN evs}

(* fpga_fsm.rs:18-24, "mechanical, total, and exact": a machine that is    *)
(* extracted has exactly the reachable register values of the design for   *)
(* states; its events are exactly what an assignment of the inputs can do  *)
(* to all of them, neither lost nor added by merging; and a state is       *)
(* forbidden exactly when some property on the registers rules it out.     *)
ProjectionIsExact ==
  \A k \in DOMAIN machines :
    LET d == rtl[k]
        m == machines[k]
        R == HwReachable(d)
        P(r) == Pack(d, r)
        OnRegs == {p \in Range(d.props) : references_only_regs(p.expr)}
        Fails(p, r) == (Hw(d, p.expr, r, <<>>) # 0) = (p.kind = "never")
    IN  /\ m.states = {P(r) : r \in R}
        /\ Range(m.events) =
             {[s \in m.states |-> P(HwStep(d, CHOOSE r \in R : P(r) = s, in))] : in \in HwInputs(d)}
        /\ m.forbid = {P(r) : r \in {q \in R : \E p \in OnRegs : Fails(p, q)}}

(* The two designs, each driven through its own ports from an assignment   *)
(* of the names.                                                           *)
Names == {rtl[k].ports[i].name : k \in 1..2, i \in 1..2}
Driven(k, r, by) == HwStep(rtl[k], r, [i \in DOMAIN rtl[k].ports |-> by[rtl[k].ports[i].name]])

RECURSIVE Together(_)
Together(R) ==
  LET S == R \cup {[k \in 1..2 |-> Driven(k, r[k], by)] : r \in R, by \in [Names -> 0..1]}
  IN  IF S = R THEN R ELSE Together(S)

(* fpga_equiv.rs:13-17, "a PASS is a real equivalence and a FAIL carries a *)
(* concrete diverging input trace": the verdict is "equivalent" exactly if *)
(* no sequence of inputs makes the two designs show different registers.   *)
EquivalenceIsDecided ==
  part \in {"equivalent", "different"} =>
    (part = "equivalent" <=>
       \A r \in Together({<<HwReset(rtl[1]), HwReset(rtl[2])>>}) :
         Pack(rtl[1], r[1]) = Pack(rtl[2], r[2]))
=============================================================================
