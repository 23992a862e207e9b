-------------------------------- MODULE Core --------------------------------
(***************************************************************************)
(* What the cores of src/leanlift-loom have in common: threads that call   *)
(* operations on a shared memory, one step per memory access, each with    *)
(* local variables.                                                        *)
(***************************************************************************)
EXTENDS WeakMem

CONSTANT MaxCalls  \* MaxCalls[th]: the calls th makes at most

VARIABLES
  pc,      \* pc[th]     where th is in its call, or "idle"
  reg,     \* reg[th]    the local variables of th
  calls,   \* calls[th]  the calls th has begun
  out      \* what the calls that ended have returned

state == <<wm, pc, reg, calls, out>>

CoreInit(locals, results) ==
  /\ WMInit
  /\ pc = [th \in Thread |-> "idle"]
  /\ reg = [th \in Thread |-> [x \in locals |-> 0]]
  /\ calls = [th \in Thread |-> 0]
  /\ out = results

Goto(th, to) == pc' = [pc EXCEPT ![th] = to]
From(th, from) == pc[th] = from /\ UNCHANGED calls
Call(th) ==
  /\ pc[th] = "idle"
  /\ calls[th] < MaxCalls[th]
  /\ calls' = [calls EXCEPT ![th] = @ + 1]

Set(th, x, y) == reg' = [reg EXCEPT ![th][x] = y]

(* th loads l into its local variable x.                                   *)
LoadInto(th, x, l, o) ==
  \E i \in canLoad(th, l) : Load(th, l, i, o) /\ Set(th, x, val(l, i))
=============================================================================
