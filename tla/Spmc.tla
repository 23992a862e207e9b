-------------------------------- MODULE Spmc --------------------------------
(***************************************************************************)
(* The two seqlocks of src/leanlift-loom: the broadcast ring of spmc.rs,   *)
(* whose slots are seqlocks, and the snapshot of seqlock.rs, which is one  *)
(* such slot.  One writer, several readers.  The k-th write writes k into  *)
(* both words of slot (k - 1) % N.                                         *)
(***************************************************************************)
EXTENDS Naturals, Sequences

CONSTANTS
  N, Reader, MaxCalls,
  Ring      \* the ring of spmc.rs, or the snapshot of seqlock.rs?

Writer == "writer"

(* A ring of at least one slot, which has one writer; a snapshot is one    *)
(* slot.                                                                   *)
SpmcAssumption ==
  /\ N \in Nat \ {0} /\ Writer \notin Reader
  /\ Ring \in BOOLEAN /\ (~Ring => N = 1)

Thread == Reader \cup {Writer}
next == <<"next", 0>>
stamp(i) == <<"stamp", i % N>>
a(i) == <<"a", i % N>>
b(i) == <<"b", i % N>>
Slots == 0..(N - 1)
Cell == {}
Loc == {next} \cup {stamp(i) : i \in Slots} \cup {a(i) : i \in Slots} \cup {b(i) : i \in Slots}
initMem == [l \in Loc |-> 0]

VARIABLES hist, cur, acq, rel, sc, reads, race, pc, reg, calls, out

INSTANCE Core

(* out[th] is the sequence of the snapshots th has accepted.               *)
Init == CoreInit({"i", "st", "s1", "a", "b"}, [th \in Thread |-> <<>>])

-----------------------------------------------------------------------------
(* publish loads next, and then the stamp of that slot.                    *)
LoadNext(th) ==
  /\ Call(th)
  /\ LoadInto(th, "i", next, "Relaxed")
  /\ Goto(th, "load_stamp")
  /\ UNCHANGED out

LoadStamp(th) ==
  /\ From(th, "load_stamp")
  /\ LoadInto(th, "st", stamp(reg[th].i), "Relaxed")
  /\ Goto(th, "mark_odd")
  /\ UNCHANGED out

(* write starts with the only stamp there is.                              *)
LoadSeq(th) ==
  /\ Call(th)
  /\ LoadInto(th, "st", stamp(reg[th].i), "Relaxed")
  /\ Goto(th, "mark_odd")
  /\ UNCHANGED out

MarkOdd(th) ==
  /\ From(th, "mark_odd")
  /\ Store(th, stamp(reg[th].i), reg[th].st + 1, "Relaxed")
  /\ Goto(th, "release")
  /\ UNCHANGED <<reg, out>>

NoRelease(th) == NoFence                         \* mutant-spmc
ReleaseFence(th) == FenceRelease(th)

Release(th) ==
  /\ From(th, "release")
  /\ ReleaseFence(th)
  /\ Goto(th, "write_a")
  /\ UNCHANGED <<reg, out>>

WriteA(th) ==
  /\ From(th, "write_a")
  /\ Store(th, a(reg[th].i), calls[th], "Relaxed")
  /\ Goto(th, "write_b")
  /\ UNCHANGED <<reg, out>>

WriteB(th) ==
  /\ From(th, "write_b")
  /\ Store(th, b(reg[th].i), calls[th], "Relaxed")
  /\ Goto(th, "mark_even")
  /\ UNCHANGED <<reg, out>>

Publish(th) ==
  /\ From(th, "mark_even")
  /\ Store(th, stamp(reg[th].i), reg[th].st + 2, "Release")
  /\ Goto(th, IF Ring THEN "advance" ELSE "idle")
  /\ UNCHANGED <<reg, out>>

Advance(th) ==
  /\ From(th, "advance")
  /\ Store(th, next, reg[th].i + 1, "Release")
  /\ Goto(th, "idle")
  /\ UNCHANGED <<reg, out>>

-----------------------------------------------------------------------------
(* try_read(i) of any slot.                                                *)
FirstStamp(th) ==
  /\ Call(th)
  /\ \E s \in Slots : \E i \in canLoad(th, stamp(s)) :
       /\ Load(th, stamp(s), i, "Acquire")
       /\ reg' = [reg EXCEPT ![th].i = s, ![th].s1 = val(stamp(s), i)]
  /\ Goto(th, IF reg'[th].s1 % 2 = 1 THEN "idle" ELSE "read_a")
  /\ UNCHANGED out

ReadA(th) ==
  /\ From(th, "read_a")
  /\ LoadInto(th, "a", a(reg[th].i), "Relaxed")
  /\ Goto(th, "read_b")
  /\ UNCHANGED out

ReadB(th) ==
  /\ From(th, "read_b")
  /\ LoadInto(th, "b", b(reg[th].i), "Relaxed")
  /\ Goto(th, "acquire")
  /\ UNCHANGED out

AcquireFence(th) == FenceAcquire(th)

Acquire(th) ==
  /\ From(th, "acquire")
  /\ AcquireFence(th)
  /\ Goto(th, "second_stamp")
  /\ UNCHANGED <<reg, out>>

SecondStamp(th) ==
  /\ From(th, "second_stamp")
  /\ \E i \in canLoad(th, stamp(reg[th].i)) :
       /\ Load(th, stamp(reg[th].i), i, "Relaxed")
       /\ out' = IF val(stamp(reg[th].i), i) = reg[th].s1
                 THEN [out EXCEPT ![th] = Append(@, reg[th])] ELSE out
  /\ Goto(th, "idle")
  /\ UNCHANGED reg

Overwrite(th) == MarkOdd(th) \/ Release(th) \/ WriteA(th) \/ WriteB(th) \/ Publish(th)
PublishNext(th) == LoadNext(th) \/ LoadStamp(th) \/ Overwrite(th) \/ Advance(th)
Write(th) == LoadSeq(th) \/ Overwrite(th)

TryRead(th) ==
  FirstStamp(th) \/ ReadA(th) \/ ReadB(th) \/ Acquire(th) \/ SecondStamp(th)

Next == (IF Ring THEN PublishNext(Writer) ELSE Write(Writer)) \/ \E th \in Reader : TryRead(th)
Spec == Init /\ [][Next]_state

-----------------------------------------------------------------------------
(* The writer is alone in storing, and knows the last stamp and index.     *)
StoresAreLatest ==
  LET w == Writer IN
  /\ pc[w] # "idle" => cur[w][next] = Last(next)
  /\ pc[w] \notin {"idle", "load_stamp"} => cur[w][stamp(reg[w].i)] = Last(stamp(reg[w].i))

(* An accepted snapshot is whole, and is the one its stamp announces: the  *)
(* stamp 2n of slot i is that of the n-th write of the slot, which wrote   *)
(* (n - 1) * N + i + 1.                                                    *)
Announced(i, s) == IF s = 0 THEN 0 ELSE ((s \div 2) - 1) * N + i + 1
AcceptedIsWhole ==
  \A th \in Reader : \A k \in DOMAIN out[th] :
    LET r == out[th][k] IN r.a = r.b /\ r.a = Announced(r.i, r.s1)

(* No snapshot is torn, and no store is overtaken.                         *)
SnapshotsAreWhole == StoresAreLatest /\ AcceptedIsWhole
=============================================================================
