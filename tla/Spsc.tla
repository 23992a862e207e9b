-------------------------------- MODULE Spsc --------------------------------
(***************************************************************************)
(* The SPSC ring of src/leanlift-loom/src/spsc.rs, with one producer and   *)
(* one consumer.  The producer pushes 1, 2, ... in turn, and the same      *)
(* value again after a push that found the ring full.                      *)
(***************************************************************************)
EXTENDS Naturals, Sequences

CONSTANTS N, MaxCalls

(* A ring of no slots is left out: it refuses every push, as 0 - 0 = N.    *)
NAssumption == N \in Nat \ {0}

Thread == {"producer", "consumer"}
CallsAssumption == MaxCalls \in [Thread -> Nat]
head == <<"head", 0>>
tail == <<"tail", 0>>
buf(i) == <<"buf", i % N>>
Cell == {buf(i) : i \in 0..(N - 1)}
Loc == {head, tail} \cup Cell
initMem == [l \in Loc |-> 0]

VARIABLES hist, cur, acq, rel, sc, reads, race, pc, reg, calls, out

INSTANCE Core

(* out is the sequence of the values pop has returned.                     *)
Init == CoreInit({"t", "h", "v"}, <<>>)

-----------------------------------------------------------------------------
PushTail(th) ==
  /\ Call(th)
  /\ LoadInto(th, "t", tail, "Relaxed")
  /\ Goto(th, "push_head")
  /\ UNCHANGED out

FullLate(d) == d > N                             \* mutant: off by one
Full(d) == d = N

PushHead(th) ==
  /\ From(th, "push_head")
  /\ LoadInto(th, "h", head, "Acquire")
  /\ Goto(th, IF Full(reg[th].t - reg'[th].h) THEN "idle" ELSE "push_write")
  /\ UNCHANGED out

(* The value pushed at tail t is t + 1.                                    *)
PushWrite(th) ==
  /\ From(th, "push_write")
  /\ WriteCell(th, buf(reg[th].t), reg[th].t + 1)
  /\ Goto(th, "push_tail")
  /\ UNCHANGED <<reg, out>>

PushPublish(th) ==
  /\ From(th, "push_tail")
  /\ Store(th, tail, reg[th].t + 1, "Release")
  /\ Goto(th, "idle")
  /\ UNCHANGED <<reg, out>>

-----------------------------------------------------------------------------
PopHead(th) ==
  /\ Call(th)
  /\ LoadInto(th, "h", head, "Relaxed")
  /\ Goto(th, "pop_tail")
  /\ UNCHANGED out

TailRelaxed == "Relaxed"                         \* mutant-spsc
TailOrder == "Acquire"

PopTail(th) ==
  /\ From(th, "pop_tail")
  /\ LoadInto(th, "t", tail, TailOrder)
  /\ Goto(th, IF reg[th].h = reg'[th].t THEN "idle" ELSE "pop_read")
  /\ UNCHANGED out

PopRead(th) ==
  /\ From(th, "pop_read")
  /\ ReadCell(th, buf(reg[th].h))
  /\ Set(th, "v", latest(buf(reg[th].h)))
  /\ Goto(th, "pop_head")
  /\ UNCHANGED out

PopPublish(th) ==
  /\ From(th, "pop_head")
  /\ Store(th, head, reg[th].h + 1, "Release")
  /\ out' = Append(out, reg[th].v)
  /\ Goto(th, "idle")
  /\ UNCHANGED reg

Push(th) == PushTail(th) \/ PushHead(th) \/ PushWrite(th) \/ PushPublish(th)
Pop(th) == PopHead(th) \/ PopTail(th) \/ PopRead(th) \/ PopPublish(th)

Next == Push("producer") \/ Pop("consumer")

Spec == Init /\ [][Next]_state

-----------------------------------------------------------------------------
(* Each index has one writer, which knows its last value when it stores.   *)
StoresAreLatest ==
  /\ pc["producer"] = "push_tail" => cur["producer"][tail] = Last(tail)
  /\ pc["consumer"] = "pop_head" => cur["consumer"][head] = Last(head)

(* The cells of the ring are handed over by the two indices alone: no      *)
(* plain access of one races with another.                                 *)
RaceFree == NoRace /\ StoresAreLatest

(* The ring as a queue: the slots between the last head and the last tail. *)
(* It fills at the store of tail, and empties at the store of head.        *)
Contents == [k \in 1..(latest(tail) - latest(head)) |-> latest(buf(latest(head) + k - 1))]

Queue == INSTANCE Fifo WITH
  Value <- 1..MaxCalls["producer"], Capacity <- N, items <- Contents, taken <- out

(* Every behaviour of the ring is one of a FIFO queue of at most N values. *)
SpscIsAFifo == Queue!Init /\ [][Queue!Next]_<<Contents, out>>
=============================================================================
