---------------------------- MODULE CpnOccurrence ----------------------------
(***************************************************************************)
(* The coloured occurrence graph: enabling and firing directly over        *)
(* coloured markings, as the independent simulator occurrence_graph of     *)
(* src/src/models/cpn.rs does.                                             *)
(***************************************************************************)
EXTENDS Cpn

CONSTANT Nets    \* the coloured nets that may be loaded

VARIABLES cpn,   \* the net
          tokens \* its coloured marking: how many of each (place, value)

vars == <<cpn, tokens>>

Init ==
  /\ cpn \in Nets
  /\ tokens = [tk \in Range(Origin(cpn)) |-> InitialTokens(cpn, tk)]

Occurs(t, b) == \A tk \in DOMAIN tokens : Demand(t, t.pre, b, tk) <= tokens[tk]

Successor(t, b) ==
  [tk \in DOMAIN tokens |->
     Wrap(tokens[tk] - Demand(t, t.pre, b, tk) + Demand(t, t.post, b, tk))]

Occur(t, b) == Occurs(t, b) /\ tokens' = Successor(t, b) /\ UNCHANGED cpn

Next ==
  \E t \in Range(cpn.transitions) : \E b \in Range(Bindings(cpn, t)) : Occur(t, b)

Spec == Init /\ [][Next]_vars
=============================================================================
