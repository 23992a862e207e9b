--------------------------- MODULE FamilyExamples ---------------------------
(***************************************************************************)
(* What the families are checked on: Petri nets, coloured nets, behaviour  *)
(* trees, task sets, stochastic nets and pairs of FPGA designs.            *)
(***************************************************************************)
EXTENDS PtNet, FiniteSets

CONSTANTS NoVar

-----------------------------------------------------------------------------
(* Nets to check: the FIFO nets of small depths, and every net of two      *)
(* places and two transitions with arc weights up to one, started with two *)
(* tokens or with four, whose transitions may share one name.  Counts      *)
(* modulo four make the wrap-around of an unbounded net reachable, and     *)
(* that of the sum of an initial marking.                                  *)
SmallDepths == 1..3

Arcs == [1..2 -> 0..1]

SmallNets ==
  {[transitions |-> <<[name |-> n[1], pre |-> r1, post |-> o1],
                      [name |-> n[2], pre |-> r2, post |-> o2]>>,
    initial     |-> init,
    bounds      |-> <<[places |-> {1}, max |-> 2]>>,
    conserved   |-> c] :
     init \in {<<1, 1>>, <<2, 2>>}, n \in {<<"t", "u">>, <<"t", "t">>}, r1, o1, r2, o2 \in Arcs,
     c \in {{1}, {2}, {1, 2}}}

PtModels == SmallNets \cup {fifo_net(d) : d \in SmallDepths}
PtBounds == {4, 20}
PtState == [1..2 -> 0..(Modulus - 1)]
PtAction == {"t", "u", "enqueue", "dequeue", "leak"}

-----------------------------------------------------------------------------
(* Coloured nets to check: a resource held by processes, in every variant  *)
(* of its two transitions over variable and constant arcs, doubled arcs,   *)
(* doubled tokens and a transition without a variable.                     *)
proc1 == <<"p1">>
proc2 == <<"p2">>
lk == <<"lk">>

Colours == [Proc |-> <<proc1, proc2>>, Lock |-> <<lk>>]

Places(init) ==
  <<[name |-> <<"idle">>, colour |-> "Proc", init |-> init],
    [name |-> <<"crit">>, colour |-> "Proc", init |-> <<>>],
    [name |-> <<"lock">>, colour |-> "Lock", init |-> <<lk>>]>>

Arc(place, expr) == [place |-> place, expr |-> expr]
idle(e) == Arc(<<"idle">>, e)
crit(e) == Arc(<<"crit">>, e)
lock == Arc(<<"lock">>, lk)

holder == <<"p">>    \* the variable of the transitions

AcquirePre == {<<idle(holder), lock>>, <<idle(holder), idle(proc1)>>, <<idle(holder), idle(holder), lock>>}
AcquirePost == {<<crit(holder)>>, <<crit(holder), lock>>, <<crit(proc2)>>}
ReleasePre == {<<crit(holder)>>, <<crit(proc1), crit(holder)>>}
ReleasePost == {<<idle(holder), lock>>, <<idle(proc1)>>, <<>>}

Transition(name, pre, post) ==
  [name |-> name, var |-> holder, over |-> "Proc", pre |-> pre, post |-> post]

Reset == [name |-> <<"reset">>, var |-> NoVar, over |-> "Lock",
          pre |-> <<crit(proc1), crit(proc2)>>, post |-> <<idle(proc1), lock>>]

ResourceNets ==
  {[colours |-> Colours, places |-> Places(init),
    transitions |-> <<Transition(<<"acquire">>, r1, o1),
                      Transition(<<"release">>, r2, o2), Reset>>] :
     init \in {<<proc1, proc2>>, <<proc1, proc1, proc2>>},
     r1 \in AcquirePre, o1 \in AcquirePost, r2 \in ReleasePre, o2 \in ReleasePost}

(* A net without transitions.                                              *)
StillNet ==
  [colours |-> [Lock |-> <<lk>>], transitions |-> <<>>,
   places |-> <<[name |-> <<"lock">>, colour |-> "Lock", init |-> <<lk>>]>>]

(* No transition makes tokens, so the nets are bounded.                    *)
CpnNets ==
  {StillNet} \cup
  {c \in ResourceNets : \A i \in DOMAIN c.transitions :
                     Len(c.transitions[i].post) <= Len(c.transitions[i].pre)}

(* Two coloured transitions whose unfolded names meet: go over a_b, and    *)
(* go_a over bb.  TOML keys and values allow both.                          *)
ab == <<"a", "b">>
bb == <<"b">>

NamesakeNets ==
  {[colours |-> [Long |-> <<ab>>, Short |-> <<bb>>],
    places |-> <<[name |-> <<"src">>, colour |-> "Long", init |-> <<ab>>],
                 [name |-> <<"dst">>, colour |-> "Short", init |-> <<bb>>]>>,
    transitions |-> <<
      [name |-> <<"go">>, var |-> holder, over |-> "Long",
       pre |-> <<Arc(<<"src">>, holder)>>, post |-> <<>>],
      [name |-> <<"go", "a">>, var |-> holder, over |-> "Short",
       pre |-> <<Arc(<<"dst">>, holder)>>, post |-> <<>>]>>]}

-----------------------------------------------------------------------------
(* Every tree of shape k1(leaf, k2(leaf, leaf)) over a two-variable        *)
(* blackboard, four conditions and three actions, from every blackboard.   *)
Cond(v, w) == [kind |-> "cond", var |-> v, want |-> w]
Act(n, g, e) == [kind |-> "act", name |-> n, guard |-> g, effect |-> e]

Leaves ==
  {Cond(v, w) : v \in 1..2, w \in BOOLEAN} \cup
  {Act("drive", <<<<2, FALSE>>>>, <<<<1, TRUE>>>>),
   Act("relocalise", <<>>, <<<<2, FALSE>>>>),
   Act("return", <<<<1, TRUE>>>>, <<<<1, FALSE>>, <<2, TRUE>>>>)}

Kinds == {"seq", "fallback"}
Node(k, cs) == [kind |-> k, children |-> cs]

BtTrees ==
  {[vars |-> <<<<"atGoal">>, <<"lost">>>>, init |-> i,
    root |-> Node(k1, <<l1, Node(k2, <<l2, l3>>)>>),
    forbid |-> {{<<1, TRUE>>, <<2, TRUE>>}, {<<1, i[1]>>, <<2, ~i[2]>>}}] :
     i \in [1..2 -> BOOLEAN], k1, k2 \in Kinds, l1, l2, l3 \in Leaves}

-----------------------------------------------------------------------------
(* Task sets to check: every pair of tasks of periods two to four, one of  *)
(* them possibly scaled far past its deadline; pairs of periods four and   *)
(* six, two of which first overload past every period; and triples of      *)
(* short jobs.                                                             *)
Tasks(ts, cs) == {k \in [c : cs, t : ts, d : 1..6] : k.d <= k.t}

RtTaskSets ==
  {<<a, b>> : a \in Tasks({2, 3, 4}, {1, 2, 3}), b \in Tasks({2, 3, 4}, {1, 2})}
  \cup {<<a, b>> : a \in Tasks({2, 3}, {1}), b \in Tasks({3, 4}, {14, 15})}
  \cup {<<a, b>> : a \in Tasks({4}, {2}), b \in Tasks({6}, {3})}
  \cup {<<a, b, c>> : a \in Tasks({4}, {1, 2}), b \in Tasks({2}, {1}), c \in Tasks({3, 4}, {1})}

-----------------------------------------------------------------------------
(* Nets of three places: a timed ring 2, 3, 1 and two transitions of any   *)
(* kind that move a token from a place to another, back, or out of the net *)
(* (place 0), the first perhaps inhibited by a place.  None of them grows: *)
(* the code explores without a ceiling.                                    *)
Token(p) == [q \in 1..3 |-> IF q = p THEN 1 ELSE 0]

Move(imm, p, q, inh) ==
  [name |-> "t", immediate |-> imm, pre |-> Token(p), post |-> Token(q), inhibit |-> inh]

GspnNets ==
  {[transitions |-> <<Move(i1, p1, q1, h), Move(i2, p2, q2, {}),
                      Move(FALSE, 2, 3, {}), Move(FALSE, 3, 1, {})>>,
    initial     |-> init,
    bounds      |-> <<[places |-> {3}, max |-> 1]>>,
    conserved   |-> {1, 2, 3}] :
     i1, i2 \in BOOLEAN, p1, p2 \in 1..3, q1, q2 \in 0..3, h \in {{}, {2}},
     init \in {<<1, 0, 0>>, <<1, 1, 0>>}}

GspnMarkings == [1..3 -> 0..3]

-----------------------------------------------------------------------------
(* Designs of two registers, of two bits and one, and two inputs, declared *)
(* in either order: a counter, a wrapped subtraction feeding a comparison, *)
(* a wire; gates, properties; and designs that are passed over or refused. *)
Lit(v) == [e |-> "lit", v |-> v]
Absent == [e |-> "none"]
Reg(i) == [e |-> "ref", to |-> "reg", i |-> i]
Port(i) == [e |-> "ref", to |-> "port", i |-> i]
Wire(i) == [e |-> "ref", to |-> "wire", i |-> i]
Mux(c, t, f) == [e |-> "mux", cond |-> c, then |-> t, else |-> f]
Op(o, l, r, ty) == [e |-> "binop", op |-> o, lhs |-> l, rhs |-> r, ty |-> ty]
Un(o, v, ty) == [e |-> "unop", op |-> o, value |-> v, ty |-> ty]
Cast(v, to) == [e |-> "cast", value |-> v, to |-> to]

(* x and y are the positions of the inputs named 1 and 2.                  *)
NextA(x, y) ==
  {Mux(Port(x), Op("add", Reg(1), Lit(1), 2), Reg(1)),
   Mux(Op("gt", Op("sub", Reg(1), Lit(2), 2), Lit(1), 1), Lit(3), Op("or", Reg(1), Port(y), 2)),
   Mux(Wire(1), Op("xor", Reg(1), Lit(3), 2), Op("shl", Reg(1), Lit(1), 2))}
NextB(x, y) ==
  {Port(y), Op("logic_and", Port(x), Op("eq", Reg(1), Lit(3), 1), 1), Un("bitnot", Reg(2), 1),
   Op("and", Port(x), Port(y), 1)}
Gate(x, y) == {Absent, Port(x), Un("logic_not", Reg(2), 1)}

Props ==
  <<[kind |-> "assert", expr |-> Op("le", Reg(1), Lit(2), 1)],
    [kind |-> "never", expr |-> Op("logic_and", Reg(2), Op("eq", Reg(1), Lit(0), 1), 1)],
    [kind |-> "assert", expr |-> Port(1)]>>

TwoRegisters(x, y, a, b, g) ==
  [regs  |-> <<[width |-> 2, next |-> a, enable |-> g, reset |-> Lit(2)],
               [width |-> 1, next |-> b, enable |-> Absent, reset |-> Lit(0)]>>,
   ports |-> [i \in 1..2 |-> [name |-> IF i = x THEN 1 ELSE 2, bit |-> TRUE]],
   wires |-> <<Op("logic_and", Port(x), Un("logic_not", Reg(2), 1), 1)>>,
   props |-> Props]

Designs(x, y) ==
  {TwoRegisters(x, y, a, b, g) :
     a \in NextA(x, y), b \in NextB(x, y), g \in Gate(x, y)}

Toggle(next, width, bit) ==
  [regs  |-> IF width = 0 THEN <<>>
             ELSE <<[width |-> width, next |-> next, enable |-> Absent, reset |-> Lit(0)]>>,
   ports |-> <<[name |-> 1, bit |-> bit], [name |-> 2, bit |-> bit]>>,
   wires |-> <<Wire(1)>>,
   props |-> <<>>]

(* Designs with no control machine, and designs the projection refuses: an *)
(* input of several bits, an untyped result, a cycle of wires, more states *)
(* than the ceiling.                                                       *)
OtherDesigns ==
  {Toggle(Lit(0), 0, TRUE), Toggle(Lit(0), 8, TRUE),
   Toggle(Port(1), 1, FALSE), Toggle(Op("add", Reg(1), Port(1), 0), 2, TRUE),
   Toggle(Wire(1), 1, TRUE), Toggle(Op("add", Reg(1), Lit(1), 4), 4, TRUE)}

(* A design against itself with its inputs declared the other way round,   *)
(* against its neighbours, and the rest.                                   *)
FpgaPairs ==
  {<<d, e>> \in Designs(1, 2) \X Designs(2, 1) :
     d.regs[1].enable = Absent <=> e.regs[1].enable = Absent} \cup
  {<<d, d>> : d \in OtherDesigns}

(* A register of two bits that moves on as long as its low bits, taken by  *)
(* a cast, are zero, and should never be 3.                                *)
Advance(to) == Mux(Op("eq", Cast(Reg(1), to), Lit(0), 1), Op("add", Reg(1), Lit(1), 2), Reg(1))
Below3 == [kind |-> "assert", expr |-> Op("ne", Reg(1), Lit(3), 1)]

CastDesigns ==
  {[Toggle(Advance(to), 2, TRUE) EXCEPT !.regs[1].reset = Lit(start), !.props = <<Below3>>] :
     to \in 1..3, start \in {0, 2}}
CastPairs == CastDesigns \X CastDesigns
=============================================================================
