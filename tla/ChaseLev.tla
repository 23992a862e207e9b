------------------------------ MODULE ChaseLev ------------------------------
(***************************************************************************)
(* The Chase-Lev deque of src/leanlift-loom/src/chase_lev.rs, of fixed     *)
(* capacity: the owner pushes and takes at the bottom, thieves steal at    *)
(* the top.  The owner pushes 1, 2, ... in turn, and a value is new unless *)
(* its push found the deque full.                                          *)
(***************************************************************************)
EXTENDS Integers, Sequences

CONSTANTS N, Thief, MaxCalls

Owner == "owner"
Thread == Thief \cup {Owner}
top == <<"top", 0>>
bottom == <<"bottom", 0>>
slot(i) == <<"slot", i % N>>
Cell == {}
Loc == {top, bottom} \cup {slot(i) : i \in 0..(N - 1)}
initMem == [l \in Loc |-> 0]

(* A deque of no slots is left out: it refuses every push.                 *)
ChaseLevAssumption == N \in Nat \ {0} /\ Owner \notin Thief

VARIABLES hist, cur, acq, rel, sc, reads, race, pc, reg, calls, out

INSTANCE Core

(* out.pushed is the number of values pushed, out.got the values claimed,  *)
(* in the order of the claims.                                             *)
Init == CoreInit({"b", "t", "v"}, [pushed |-> 0, got |-> <<>>])

Claim(v) == out' = [out EXCEPT !.got = Append(@, v)]

-----------------------------------------------------------------------------
PushBottom(th) ==
  /\ Call(th)
  /\ LoadInto(th, "b", bottom, "Relaxed")
  /\ Goto(th, "push_top")
  /\ UNCHANGED out

Full(d) == d >= N

PushTop(th) ==
  /\ From(th, "push_top")
  /\ LoadInto(th, "t", top, "Acquire")
  /\ Goto(th, IF Full(reg[th].b - reg'[th].t) THEN "idle" ELSE "push_slot")
  /\ UNCHANGED out

PushSlot(th) ==
  /\ From(th, "push_slot")
  /\ Store(th, slot(reg[th].b), out.pushed + 1, "Relaxed")
  /\ Goto(th, "push_fence")
  /\ UNCHANGED <<reg, out>>

PushFence(th) ==
  /\ From(th, "push_fence")
  /\ FenceRelease(th)
  /\ Goto(th, "push_bottom")
  /\ UNCHANGED <<reg, out>>

PushPublish(th) ==
  /\ From(th, "push_bottom")
  /\ Store(th, bottom, reg[th].b + 1, "Relaxed")
  /\ out' = [out EXCEPT !.pushed = @ + 1]
  /\ Goto(th, "idle")
  /\ UNCHANGED reg

-----------------------------------------------------------------------------
TakeLoad(th) ==
  /\ Call(th)
  /\ \E i \in canLoad(th, bottom) :
       Load(th, bottom, i, "Relaxed") /\ Set(th, "b", val(bottom, i) - 1)
  /\ Goto(th, "take_bottom")
  /\ UNCHANGED out

TakeBottom(th) ==
  /\ From(th, "take_bottom")
  /\ Store(th, bottom, reg[th].b, "Relaxed")
  /\ Goto(th, "take_fence")
  /\ UNCHANGED <<reg, out>>

Unfenced(th) == NoFence                          \* mutant-chaselev
Fence(th) == FenceSeqCst(th)

TakeFence(th) ==
  /\ From(th, "take_fence")
  /\ Fence(th)
  /\ Goto(th, "take_top")
  /\ UNCHANGED <<reg, out>>

TakeTop(th) ==
  /\ From(th, "take_top")
  /\ LoadInto(th, "t", top, "Relaxed")
  /\ Goto(th, IF reg'[th].t > reg[th].b THEN "take_restore" ELSE "take_slot")
  /\ UNCHANGED out

(* With more than one element left, the value is taken without a CAS.      *)
TakeSlot(th) ==
  /\ From(th, "take_slot")
  /\ LoadInto(th, "v", slot(reg[th].b), "Relaxed")
  /\ IF reg[th].t = reg[th].b THEN Goto(th, "take_cas") /\ UNCHANGED out
     ELSE Goto(th, "idle") /\ Claim(reg'[th].v)

TakeCas(th) ==
  /\ From(th, "take_cas")
  /\ \/ Cas(th, top, reg[th].t, reg[th].t + 1, "SeqCst") /\ Claim(reg[th].v)
     \/ CasFails(th, top, reg[th].t, "Relaxed") /\ UNCHANGED out
  /\ Goto(th, "take_restore")
  /\ UNCHANGED reg

TakeRestore(th) ==
  /\ From(th, "take_restore")
  /\ Store(th, bottom, reg[th].b + 1, "Relaxed")
  /\ Goto(th, "idle")
  /\ UNCHANGED <<reg, out>>

-----------------------------------------------------------------------------
StealTop(th) ==
  /\ Call(th)
  /\ LoadInto(th, "t", top, "Acquire")
  /\ Goto(th, "steal_fence")
  /\ UNCHANGED out

StealFence(th) ==
  /\ From(th, "steal_fence")
  /\ FenceSeqCst(th)
  /\ Goto(th, "steal_bottom")
  /\ UNCHANGED <<reg, out>>

StealBottom(th) ==
  /\ From(th, "steal_bottom")
  /\ LoadInto(th, "b", bottom, "Acquire")
  /\ Goto(th, IF reg[th].t >= reg'[th].b THEN "idle" ELSE "steal_slot")
  /\ UNCHANGED out

StealSlot(th) ==
  /\ From(th, "steal_slot")
  /\ LoadInto(th, "v", slot(reg[th].t), "Relaxed")
  /\ Goto(th, "steal_cas")
  /\ UNCHANGED out

StealCas(th) ==
  /\ From(th, "steal_cas")
  /\ \/ Cas(th, top, reg[th].t, reg[th].t + 1, "SeqCst") /\ Claim(reg[th].v)
     \/ CasFails(th, top, reg[th].t, "Relaxed") /\ UNCHANGED out
  /\ Goto(th, "idle")
  /\ UNCHANGED reg

Push(th) == PushBottom(th) \/ PushTop(th) \/ PushSlot(th) \/ PushFence(th) \/ PushPublish(th)
Take(th) ==
  \/ TakeLoad(th) \/ TakeBottom(th) \/ TakeFence(th) \/ TakeTop(th)
  \/ TakeSlot(th) \/ TakeCas(th) \/ TakeRestore(th)
Steal(th) == StealTop(th) \/ StealFence(th) \/ StealBottom(th) \/ StealSlot(th) \/ StealCas(th)

Next == Push(Owner) \/ Take(Owner) \/ \E th \in Thief : Steal(th)

Spec == Init /\ [][Next]_state

-----------------------------------------------------------------------------
(* The owner is alone in storing bottom and the slots.                     *)
StoresAreLatest ==
  pc[Owner] # "idle" => cur[Owner][bottom] = Last(bottom)

(* No value is claimed twice, and none that was not pushed.                *)
ClaimedOnce ==
  /\ \A k, m \in DOMAIN out.got : out.got[k] = out.got[m] => k = m
  /\ \A k \in DOMAIN out.got : out.got[k] \in 1..out.pushed

(* No value is lost: while the owner is at rest, what was pushed and not   *)
(* claimed is in the slots from top to bottom, oldest at the top.          *)
NothingLost ==
  LET left == {v \in 1..out.pushed : \A k \in DOMAIN out.got : out.got[k] # v}
      kept == latest(top)..(latest(bottom) - 1)
  IN pc[Owner] = "idle" =>
       /\ left = {latest(slot(i)) : i \in kept}
       /\ \A i, j \in kept : i < j => latest(slot(i)) < latest(slot(j))

(* Owner and thieves never claim the same value, and none is lost or       *)
(* overwritten, though slots are reused.                                   *)
DequeClaimedOnce == NoRace /\ StoresAreLatest /\ ClaimedOnce /\ NothingLost
=============================================================================
