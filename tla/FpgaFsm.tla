------------------------------ MODULE FpgaFsm ------------------------------
(***************************************************************************)
(* The control machine of an FPGA design (src/src/models/fpga_fsm.rs): the *)
(* registers of a module packed into one integer, its next-state           *)
(* expressions interpreted for every state and every valuation of the      *)
(* inputs they read.  A design is a record                                 *)
(*                                                                         *)
(*   [regs  : a sequence of [width, next, enable, reset],                  *)
(*    ports : a sequence of [name, bit], the inputs,                       *)
(*    wires : a sequence of expressions,                                   *)
(*    props : a sequence of [kind, expr], the `always` properties]         *)
(*                                                                         *)
(* each in the order of their value-ids; names are numbered in their       *)
(* order.  An expression is one of                                         *)
(*                                                                         *)
(*   [e |-> "lit", v]                    [e |-> "none"], an absent enable  *)
(*   [e |-> "ref", to, i], to being "reg", "port" or "wire"                *)
(*   [e |-> "mux", cond, then, else]     [e |-> "cast", value, to]         *)
(*   [e |-> "binop", op, lhs, rhs, ty]   [e |-> "unop", op, value, ty]     *)
(*                                                                         *)
(* where ty and to are widths of unsigned integers, or Untyped.            *)
(***************************************************************************)
EXTENDS Integers, Sequences, FiniteSets, SequencesExt, FiniteSetsExt, Bitwise

CONSTANTS
  WordBits,     \* the width of the integer a state is packed into, less its sign
  InputBits,    \* the ceiling on guard inputs
  StateCeiling, \* the ceiling on reachable states
  Depth         \* the ceiling on the nesting of an evaluation

Untyped == 0
Refused == -1                             \* Rust's Err
Low(v, width) == v % 2^width

-----------------------------------------------------------------------------
(* What an expression refers to, wires not followed (walk_refs).           *)
Children(x) ==
  CASE x.e = "mux" -> {x.cond, x.then, x.else}
    [] x.e = "binop" -> {x.lhs, x.rhs}
    [] x.e \in {"unop", "cast"} -> {x.value}
    [] OTHER -> {}

RECURSIVE walk_refs(_)
walk_refs(x) ==
  IF x.e = "ref" THEN {<<x.to, x.i>>} ELSE UNION {walk_refs(c) : c \in Children(x)}

(* The inputs that some next or enable refers to, in id order.             *)
used_inputs(d) ==
  SetToSortSeq({i \in DOMAIN d.ports : \E k \in DOMAIN d.regs :
                  <<"port", i>> \in walk_refs(d.regs[k].next) \cup walk_refs(d.regs[k].enable)}, <)

references_only_regs(x) == \A r \in walk_refs(x) : r[1] = "reg"

-----------------------------------------------------------------------------
(* Packing: register k is the slice [Offset(k), Offset(k) + width).        *)
RECURSIVE Offset(_, _)
Offset(d, k) == IF k = 1 THEN 0 ELSE Offset(d, k - 1) + d.regs[k - 1].width

TotalBits(d) == Offset(d, Len(d.regs)) + Last(d.regs).width
Slice(d, packed, k) == Low(packed \div 2^Offset(d, k), d.regs[k].width)
Pack(d, values) == FoldFunctionOnSet(+, 0, [k \in DOMAIN values |-> values[k] * 2^Offset(d, k)], DOMAIN values)

(* Bit b of a valuation's index is the value of the b-th guard input.      *)
valuations(inputs) == [n \in 1..2^Len(inputs) |-> n - 1]
Bit(a, b) == (a \div 2^(b - 1)) % 2

-----------------------------------------------------------------------------
(* The interpreter.  Comparisons give 0 or 1, arithmetic wraps to the      *)
(* declared width, a shift count is taken modulo the size of the word, and *)
(* a cast passes its operand through.                                      *)
mask_arith(ty, raw) == IF ty \in 1..WordBits THEN Low(raw, ty) ELSE Refused

Truth(b) == IF b THEN 1 ELSE 0
Compare(op, l, r) ==
  CASE op = "eq" -> Truth(l = r) [] op = "ne" -> Truth(l # r)
    [] op = "lt" -> Truth(l < r) [] op = "le" -> Truth(l <= r)
    [] op = "gt" -> Truth(l > r) [] op = "ge" -> Truth(l >= r)
    [] op = "logic_and" -> Truth(l # 0 /\ r # 0)
    [] op = "logic_or" -> Truth(l # 0 \/ r # 0)
Comparisons == {"eq", "ne", "lt", "le", "gt", "ge", "logic_and", "logic_or"}

Arithmetic(op, l, r, count) ==
  CASE op = "add" -> l + r [] op = "sub" -> l - r [] op = "mul" -> l * r
    [] op = "and" -> l & r [] op = "or" -> l | r [] op = "xor" -> l ^^ r
    [] op = "shl" -> l * 2^count [] op = "shr" -> l \div 2^count

binop(x, l, r) ==
  IF Refused \in {l, r} THEN Refused
  ELSE IF x.op \in Comparisons THEN Compare(x.op, l, r)
  ELSE mask_arith(x.ty, Arithmetic(x.op, l, r, r % (WordBits + 1)))

unop(x, v) ==
  CASE v = Refused -> Refused
    [] x.op = "logic_not" -> Truth(v = 0)
    [] x.op = "bitnot" -> mask_arith(x.ty, -v - 1)
    [] x.op = "neg" -> mask_arith(x.ty, -v)

(* The value of x in packed state s under valuation a.                     *)
RECURSIVE eval(_, _, _, _, _)
eval(d, x, s, a, depth) ==
  LET inputs == used_inputs(d)
      Sub(y) == eval(d, y, s, a, depth + 1)
      Port == {b \in DOMAIN inputs : inputs[b] = x.i}
  IN  IF depth > Depth THEN Refused
      ELSE CASE x.e = "lit" -> x.v
             [] x.e = "ref" ->
                  (CASE x.to = "reg" -> Slice(d, s, x.i)
                     [] x.to = "port" -> IF Port = {} THEN Refused ELSE Bit(a, CHOOSE b \in Port : TRUE)
                     [] x.to = "wire" -> Sub(d.wires[x.i]))
             [] x.e = "mux" ->
                  LET c == Sub(x.cond)
                  IN  IF c = Refused THEN Refused ELSE Sub(IF c # 0 THEN x.then ELSE x.else)
             [] x.e = "binop" -> binop(x, Sub(x.lhs), Sub(x.rhs))
             [] x.e = "unop" -> unop(x, Sub(x.value))
             [] x.e = "cast" -> Sub(x.value)

(* The joint transition: a register whose enable is false holds its value. *)
Next1(d, k, s, a) ==
  LET r == d.regs[k]
      on == IF r.enable.e = "none" THEN 1 ELSE eval(d, r.enable, s, a, 0)
      v == eval(d, r.next, s, a, 0)
  IN  CASE on = Refused -> Refused
        [] on = 0 -> Slice(d, s, k)
        [] OTHER -> IF v = Refused THEN Refused ELSE Low(v, r.width)

step(d, s, a) ==
  LET values == [k \in DOMAIN d.regs |-> Next1(d, k, s, a)]
  IN  IF Refused \in Range(values) THEN Refused ELSE Pack(d, values)

-----------------------------------------------------------------------------
(* What is decided before any state is met: "none" for a datapath, which   *)
(* is passed over, "refused" for a machine that cannot be projected, else  *)
(* "fsm".  A width over WordBits stands for a register that is not an      *)
(* unsigned integer of a word; resets must be constants.                   *)
Layout(d) ==
  IF \/ d.regs = <<>>
     \/ \E k \in DOMAIN d.regs : d.regs[k].width > WordBits
     \/ TotalBits(d) > WordBits
    THEN "none"
  ELSE IF \/ \E b \in DOMAIN used_inputs(d) : ~d.ports[used_inputs(d)[b]].bit
          \/ Len(used_inputs(d)) > InputBits
          \/ \E k \in DOMAIN d.regs : walk_refs(d.regs[k].reset) # {}
          \/ \E k \in DOMAIN d.regs : eval(d, d.regs[k].reset, 0, 0, 0) = Refused
    THEN "refused"
  ELSE "fsm"

reset(d) ==
  Pack(d, [k \in DOMAIN d.regs |-> Low(eval(d, d.regs[k].reset, 0, 0, 0), d.regs[k].width)])

(* One turn of the reachability fixpoint: the states met, then those that  *)
(* state s adds.                                                           *)
Explored(d, met, s) ==
  FoldLeft(LAMBDA acc, a : LET t == step(d, s, a) IN IF t \in Range(acc) THEN acc ELSE Append(acc, t),
           met, valuations(used_inputs(d)))

(* Valuation a is the event of the first valuation that takes every state  *)
(* where a takes it, or a new event: events are successor vectors.         *)
Behaviour(d, states, a) == [s \in states |-> step(d, s, a)]
WithEventAtReset(events, b, start) ==                    \* mutant: dedup on one state
  IF \E i \in DOMAIN events : events[i][start] = b[start] THEN events ELSE Append(events, b)
WithEvent(events, b, start) == IF b \in Range(events) THEN events ELSE Append(events, b)

(* The properties on registers only that can be evaluated in every state   *)
(* met, and the states these rule out.                                     *)
usable(d, states) ==
  {p \in Range(d.props) : /\ references_only_regs(p.expr)
                          /\ \A s \in states : eval(d, p.expr, s, 0, 0) # Refused}
rules_out(d, p, s) ==
  IF p.kind = "never" THEN eval(d, p.expr, s, 0, 0) # 0 ELSE eval(d, p.expr, s, 0, 0) = 0
derive_forbidden(d, states) ==
  {s \in states : \E p \in usable(d, states) : rules_out(d, p, s)}

-----------------------------------------------------------------------------
(* The design itself: registers and inputs by position, an assignment of   *)
(* every input at every step, expressions with the meaning the hardware    *)
(* gives them: a cast cuts to its width, a shift shifts all the way out.   *)
RECURSIVE Hw(_, _, _, _)
Hw(d, x, r, in) ==
  LET Sub(y) == Hw(d, y, r, in)
  IN  CASE x.e = "lit" -> x.v
        [] x.e = "none" -> 1
        [] x.e = "ref" -> (CASE x.to = "reg" -> r[x.i]
                             [] x.to = "port" -> in[x.i]
                             [] x.to = "wire" -> Sub(d.wires[x.i]))
        [] x.e = "mux" -> IF Sub(x.cond) # 0 THEN Sub(x.then) ELSE Sub(x.else)
        [] x.e = "binop" ->
             IF x.op \in Comparisons THEN Compare(x.op, Sub(x.lhs), Sub(x.rhs))
             ELSE Low(Arithmetic(x.op, Sub(x.lhs), Sub(x.rhs), Sub(x.rhs)), x.ty)
        [] x.e = "unop" ->
             (CASE x.op = "logic_not" -> Truth(Sub(x.value) = 0)
                [] x.op = "bitnot" -> 2^x.ty - 1 - Sub(x.value)
                [] x.op = "neg" -> Low(2^x.ty - Sub(x.value), x.ty))
        [] x.e = "cast" -> Low(Sub(x.value), x.to)

HwReset(d) == [k \in DOMAIN d.regs |-> d.regs[k].reset.v]
HwStep(d, r, in) ==
  [k \in DOMAIN d.regs |->
     IF Hw(d, d.regs[k].enable, r, in) # 0
       THEN Low(Hw(d, d.regs[k].next, r, in), d.regs[k].width)
       ELSE r[k]]

HwInputs(d) == [DOMAIN d.ports -> 0..1]

RECURSIVE HwClosure(_, _)
HwClosure(d, R) ==
  LET S == R \cup {HwStep(d, r, in) : r \in R, in \in HwInputs(d)}
  IN  IF S = R THEN R ELSE HwClosure(d, S)
HwReachable(d) == HwClosure(d, {HwReset(d)})
=============================================================================
