--------------------------------- MODULE Bt ---------------------------------
(***************************************************************************)
(* Behaviour trees compiled to a transition system (src/src/models/bt.rs): *)
(* a breadth-first sweep of the boolean blackboards, one tick of the tree  *)
(* from each.  A tree is a record                                          *)
(*                                                                         *)
(*   [vars : the names of the blackboard, in order, each a sequence of     *)
(*           words,  init : a blackboard,  root : a node,                  *)
(*    forbid : a set of sets of literals]                                  *)
(*                                                                         *)
(* a blackboard maps the index of each variable to a boolean, a literal is *)
(* a pair of an index and a boolean, and a node is one of                  *)
(*                                                                         *)
(*   [kind |-> "cond", var, want]    [kind |-> "act", name, guard, effect] *)
(*   [kind |-> "seq", children]      [kind |-> "fallback", children]       *)
(*                                                                         *)
(* guard and effect being sequences of literals.                           *)
(***************************************************************************)
EXTENDS Integers, Sequences, FiniteSets, SequencesExt, Lts

CONSTANT Trees    \* the trees that may be loaded

Running(action, next) == [status |-> "running", action |-> action, next |-> next]
Success == [status |-> "success"]
Failure == [status |-> "failure"]

Holds(lits, bb) == \A i \in DOMAIN lits : bb[lits[i][1]] = lits[i][2]

Established(effect, bb) == FoldLeft(LAMBDA b, lit : [b EXCEPT ![lit[1]] = lit[2]], bb, effect)

TickAction(a, bb) ==
  IF Holds(a.effect, bb) THEN Success
  ELSE IF Holds(a.guard, bb) THEN Running(a.name, Established(a.effect, bb))
  ELSE Failure

(* A composite returns the first child result that is not the one it       *)
(* passes over (Success for a sequence, Failure for a fallback).           *)
FirstOther(results, pass) ==
  LET others == SelectSeq(results, LAMBDA r : r # pass)
  IN  IF others = <<>> THEN pass ELSE others[1]

RECURSIVE tick(_, _)
tick(node, bb) ==
  CASE node.kind = "cond" -> IF bb[node.var] = node.want THEN Success ELSE Failure
    [] node.kind = "act" -> TickAction(node, bb)
    [] OTHER -> FirstOther([i \in DOMAIN node.children |-> tick(node.children[i], bb)],
                           IF node.kind = "seq" THEN Success ELSE Failure)

(* The state of the transition system a blackboard becomes: the variables  *)
(* that are set, joined by "_".                                            *)
name_of_first(t, bb) ==                         \* mutant: first variable only
  LET on == {i \in DOMAIN t.vars : bb[i]}
  IN  IF on = {} THEN <<"none">> ELSE t.vars[CHOOSE i \in on : \A j \in on : i <= j]

name_of(t, bb) ==
  LET on == {i \in DOMAIN t.vars : bb[i]}
  IN  IF on = {} THEN <<"none">>
      ELSE FlattenSeq([i \in DOMAIN t.vars |-> IF bb[i] THEN t.vars[i] ELSE <<>>])

forbidden(t, bb) == \E clause \in t.forbid : \A l \in clause : bb[l[1]] = l[2]

-----------------------------------------------------------------------------
VARIABLES
  tree,
  seen,         \* the blackboards met
  queue,        \* those not yet ticked
  lts           \* the transition system built so far

vars == <<tree, seen, queue, lts>>

ForbidOf(t, bb) == IF forbidden(t, bb) THEN {name_of(t, bb)} ELSE {}

Init ==
  /\ tree \in Trees
  /\ seen = {tree.init}
  /\ queue = <<tree.init>>
  /\ lts = [initial     |-> name_of(tree, tree.init),
            alphabet    |-> <<>>,
            transitions |-> [e \in {} |-> NoState],
            forbid      |-> ForbidOf(tree, tree.init)]

(* The unsafe states a newly met blackboard adds.                          *)
ForbidNew(bb) == IF bb \in seen THEN {} ELSE ForbidOf(tree, bb)

(* Tick the tree from the next blackboard.  transitions.insert overwrites. *)
AddEdge(bb, r) ==
  LET edge == <<name_of(tree, bb), r.action>>
      to == name_of(tree, r.next)
  IN  lts' = [lts EXCEPT
                !.alphabet = IF Contains(@, r.action) THEN @ ELSE Append(@, r.action),
                !.transitions = [e \in DOMAIN @ \cup {edge} |-> IF e = edge THEN to ELSE @[e]],
                !.forbid = @ \cup ForbidNew(r.next)]

TickNext ==
  /\ queue # <<>>
  /\ LET bb == Head(queue)
         r == tick(tree.root, bb)
     IN  \/ /\ r.status # "running"
            /\ queue' = Tail(queue)
            /\ UNCHANGED <<seen, lts>>
         \/ /\ r.status = "running"
            /\ AddEdge(bb, r)
            /\ seen' = seen \cup {r.next}
            /\ queue' = IF r.next \in seen THEN Tail(queue) ELSE Append(Tail(queue), r.next)
  /\ UNCHANGED tree

Next == TickNext

Spec == Init /\ [][Next]_vars

-----------------------------------------------------------------------------
(* bt.rs:16-19, "one tick from a blackboard yields at most one executing   *)
(* action => one LTS transition; a tick with no action is a terminal       *)
(* state": the compiled system has from the state of each blackboard met   *)
(* exactly the edge of its tick, so the checker's deadlocks are the        *)
(* quiescent blackboards and its paths are the tree's executions.          *)
EdgesAreTicks ==
  queue = <<>> =>
    \A bb \in seen :
      LET r == tick(tree.root, bb)
          out == {e \in DOMAIN lts.transitions : e[1] = name_of(tree, bb)}
      IN  IF r.status = "running"
            THEN /\ out = {<<name_of(tree, bb), r.action>>}
                 /\ lts.transitions[name_of(tree, bb), r.action] = name_of(tree, r.next)
                 /\ r.next \in seen
            ELSE out = {}

(* A state of the compiled system is forbidden exactly when the blackboard *)
(* it stands for matches a forbid clause: neither a missed violation nor a *)
(* false one.                                                              *)
ForbidIsFaithful ==
  queue = <<>> =>
    \A bb \in seen : name_of(tree, bb) \in lts.forbid <=> forbidden(tree, bb)

(* An executing action makes progress: unless an action contradicts        *)
(* itself, a tick never reports Running and leaves the blackboard as it is,*)
(* which would be a livelock that the checker takes for a live state.      *)
RunningChanges ==
  \A bb \in seen : tick(tree.root, bb).status = "running" => tick(tree.root, bb).next # bb
=============================================================================
