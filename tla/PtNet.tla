------------------------------- MODULE PtNet -------------------------------
(***************************************************************************)
(* A place/transition net behind the Model trait (struct PtNet and its     *)
(* impl Model in src/src/models/ir.rs).  A net is a record                 *)
(*                                                                         *)
(*   [transitions : a sequence of [name, pre, post],  initial : a marking, *)
(*    bounds : a sequence of [places, max],  conserved : places]           *)
(*                                                                         *)
(* where a marking, a pre and a post are token counts indexed by place.    *)
(* The comma-joined encoding of markings is injective on nets that have a  *)
(* place, so the marking itself stands for the canonical state.  Counts    *)
(* are u32 and wrap as in a release build: Modulus is 2^32 in the code.    *)
(***************************************************************************)
EXTENDS Integers, Sequences, FiniteSets, SequencesExt, FiniteSetsExt

CONSTANTS Modulus,  \* a token count is below it
          Blocked   \* Rust's None

marking_enabled(mk, pre) == \A p \in DOMAIN mk : pre[p] <= mk[p]

(* The sum of two counts, wrapped.                                         *)
Wrap(n) == IF n >= Modulus THEN n - Modulus ELSE n

fire_place(have, pre, post) == Wrap(have - pre + post)

fire_marking(mk, pre, post) ==
  [p \in DOMAIN mk |-> fire_place(mk[p], pre[p], post[p])]

(* The tokens of a marking at some places, each by its place and a number; *)
(* how many there are; and the sum of the counts in the width of a count.  *)
TokensAt(mk, places) == UNION {{p} \X (1..mk[p]) : p \in places}
TokenCount(mk, places) == Cardinality(TokensAt(mk, places))
Tokens(mk, places) == TokenCount(mk, places) % Modulus

PtInitial(net) == net.initial

(* The names of the enabled transitions, in declaration order.             *)
PtEnabled(net, mk) ==
  LET listed(t) == IF marking_enabled(mk, t.pre) THEN <<t.name>> ELSE <<>>
  IN  FlattenSeq([i \in DOMAIN net.transitions |-> listed(net.transitions[i])])

(* step looks its action up by name and takes the FIRST transition called  *)
(* so, which may be blocked where a namesake is enabled.                   *)
PtStep(net, mk, a) ==
  LET named == {i \in DOMAIN net.transitions : net.transitions[i].name = a}
      t == net.transitions[Min(named)]
  IN  IF named = {} \/ ~marking_enabled(mk, t.pre)
        THEN Blocked
        ELSE fire_marking(mk, t.pre, t.post)

(* Some declared bound, sum(places) <= max, is exceeded.                   *)
PtForbidden(net, mk) ==
  \E i \in DOMAIN net.bounds :
    Tokens(mk, net.bounds[i].places) > net.bounds[i].max

-----------------------------------------------------------------------------
(* The canonical bounded FIFO of fpga_fifo.rs: place 1 is occ, 2 is free.  *)
fifo_leak == [name |-> "leak", pre |-> <<1, 0>>, post |-> <<0, 0>>]

fifo_net(depth) ==
  [transitions |-> <<[name |-> "enqueue", pre |-> <<0, 1>>, post |-> <<1, 0>>],
                     [name |-> "dequeue", pre |-> <<1, 0>>, post |-> <<0, 1>>],
                     fifo_leak>>,
   initial     |-> <<0, depth>>,
   bounds      |-> <<[places |-> {1}, max |-> depth]>>,
   conserved   |-> {1, 2}]

reachable_markings(d) == ((d + 1) * (d + 2)) \div 2

-----------------------------------------------------------------------------
(* What the Lean file of emit_petri proves.  Its markings are unbounded    *)
(* naturals, the bound it prints is a u32 sum: the tokens of the conserved *)
(* places never exceed it at the start (simp decides), nor after any       *)
(* transition that can fire below it (omega, a case each), which gives     *)
(* every declared bound (omega again).                                     *)
Mass(net) == Tokens(net.initial, net.conserved)

InvAtInit(net) == TokenCount(net.initial, net.conserved) <= Mass(net)

InvIsInductive(net) ==
  \A i \in DOMAIN net.transitions :
    LET taken == TokenCount(net.transitions[i].pre, net.conserved)
        put == TokenCount(net.transitions[i].post, net.conserved)
    IN  put <= taken \/ taken > Mass(net)

InvGivesBoundsAnywhere(net) ==            \* mutant: places outside conserved
  \A i \in DOMAIN net.bounds : Mass(net) <= net.bounds[i].max

InvGivesBounds(net) ==
  \A i \in DOMAIN net.bounds :
    net.bounds[i].places \subseteq net.conserved /\ Mass(net) <= net.bounds[i].max

LeanProves(net) == InvAtInit(net) /\ InvIsInductive(net) /\ InvGivesBounds(net)
=============================================================================
