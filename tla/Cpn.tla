-------------------------------- MODULE Cpn --------------------------------
(***************************************************************************)
(* Coloured Petri nets and their unfolding to place/transition nets        *)
(* (src/src/models/cpn.rs).  A coloured net is a record                    *)
(*                                                                         *)
(*   [colours : a function from colour names to sequences of values,       *)
(*    places : a sequence of [name, colour, init : a sequence of values],  *)
(*    transitions : a sequence of [name, var, over, pre, post]]            *)
(*                                                                         *)
(* where var is NoVar or a variable ranging over the colour `over`, and    *)
(* pre and post are sequences of arcs [place, expr].  Names and values are *)
(* sequences of words, so that the code's "{a}_{b}" is a \o b.             *)
(***************************************************************************)
EXTENDS PtNet

CONSTANT NoVar

PlaceOf(c, name) ==
  c.places[CHOOSE i \in DOMAIN c.places : c.places[i].name = name]

(* The tokens (place, value) of a net: the origins of the unfolded places, *)
(* in their order.                                                         *)
Origin(c) ==
  FlattenSeq([i \in DOMAIN c.places |->
     LET vs == c.colours[c.places[i].colour]
     IN  [j \in DOMAIN vs |-> <<c.places[i].name, vs[j]>>]])

(* The values the variable of a transition ranges over, in order; a        *)
(* transition without variable has the one binding NoVar.                  *)
Bindings(c, t) == IF t.var = NoVar THEN <<NoVar>> ELSE c.colours[t.over]

(* The token an arc stands for under a binding b of the variable.          *)
resolve(t, arc, b) ==
  <<arc.place, IF t.var # NoVar /\ arc.expr = t.var THEN b ELSE arc.expr>>

(* How many arcs of a list stand for the token tk: counted by the          *)
(* occurrence rule (Demand) and, separately, by the unfolder (Weight).     *)
Demand(t, arcs, b, tk) ==
  Cardinality({i \in DOMAIN arcs : resolve(t, arcs[i], b) = tk})

WeightOnce(t, arcs, b, tk) ==                 \* mutant: = 1 in place of += 1
  IF \E i \in DOMAIN arcs : resolve(t, arcs[i], b) = tk THEN 1 ELSE 0
Weight(t, arcs, b, tk) ==
  Cardinality({i \in DOMAIN arcs : resolve(t, arcs[i], b) = tk})

(* A multiset of values in a place: how often the token tk occurs.         *)
InitialTokens(c, tk) ==
  LET init == PlaceOf(c, tk[1]).init
  IN  Cardinality({i \in DOMAIN init : init[i] = tk[2]})

(* One place transition per binding of a coloured one, the bound value     *)
(* appended to its name.                                                   *)
UnfoldTransitionFirst(c, t) ==               \* mutant: the first binding only
  LET b == Bindings(c, t)[1]
      places == Origin(c)
  IN  <<[name |-> t.name,
         pre  |-> [i \in DOMAIN places |-> Weight(t, t.pre, b, places[i])],
         post |-> [i \in DOMAIN places |-> Weight(t, t.post, b, places[i])]]>>

UnfoldTransition(c, t) ==
  LET bs == Bindings(c, t)
      places == Origin(c)
  IN  [k \in DOMAIN bs |->
         [name |-> IF bs[k] = NoVar THEN t.name ELSE t.name \o bs[k],
          pre  |-> [i \in DOMAIN places |-> Weight(t, t.pre, bs[k], places[i])],
          post |-> [i \in DOMAIN places |-> Weight(t, t.post, bs[k], places[i])]]]

unfold_cpn(c) ==
  [transitions |-> FlattenSeq([i \in DOMAIN c.transitions |->
                                 UnfoldTransition(c, c.transitions[i])]),
   initial     |-> [i \in DOMAIN Origin(c) |-> InitialTokens(c, Origin(c)[i])]]
=============================================================================
