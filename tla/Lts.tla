-------------------------------- MODULE Lts --------------------------------
(***************************************************************************)
(* An explicit transition system behind the Model trait (struct Lts and    *)
(* its impl Model in src/src/models/ir.rs): a record of its initial state, *)
(* its alphabet in order, its transitions, a map partial by omission       *)
(* (NoState), and the states its safety property forbids.                  *)
(***************************************************************************)
EXTENDS Sequences

CONSTANT NoState

LtsInitial(m) == m.initial
LtsStep(m, s, a) == m.transitions[s, a]
LtsEnabled(m, s) ==
  SelectSeq(m.alphabet, LAMBDA a : m.transitions[s, a] # NoState)
LtsForbidden(m, s) == s \in m.forbid
=============================================================================
