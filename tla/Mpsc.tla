-------------------------------- MODULE Mpsc --------------------------------
(***************************************************************************)
(* The MPSC stamp queue of src/leanlift-loom/src/mpsc.rs: several          *)
(* producers and one consumer.  A push of th pushes the value <<th, n>> if *)
(* it is its n-th call.                                                    *)
(***************************************************************************)
EXTENDS Naturals, Sequences

CONSTANTS N, Producer, MaxCalls

(* With a single slot the stamp of a full cell is that of the cell freed   *)
(* for the next ticket, and the code is wrong.                             *)
MpscAssumption == N \in Nat /\ N >= 2 /\ "consumer" \notin Producer

Thread == Producer \cup {"consumer"}
head == <<"head", 0>>
tail == <<"tail", 0>>
stamp(i) == <<"stamp", i % N>>
cell(i) == <<"cell", i % N>>
Slots == 0..(N - 1)
Cell == {cell(i) : i \in Slots}
Loc == {head, tail} \cup {stamp(i) : i \in Slots} \cup Cell
Refused == <<>>
initMem == [l \in Loc |->
  IF l \in Cell THEN Refused ELSE IF l \in {head, tail} THEN 0 ELSE l[2]]

VARIABLES hist, cur, acq, rel, sc, reads, race, pc, reg, calls, out

INSTANCE Core

(* out.sent[t + 1] is the value of ticket t, or Refused,                   *)
(* and out.got the sequence of the values pop has returned.                *)
Init == CoreInit({"t", "h", "s", "v"}, [sent |-> <<>>, got |-> <<>>])

-----------------------------------------------------------------------------
TakeTicket(th) ==
  /\ Call(th)
  /\ Update(th, tail, latest(tail) + 1, "Relaxed")
  /\ Set(th, "t", latest(tail))
  /\ out' = [out EXCEPT !.sent = Append(@, <<th, calls'[th]>>)]
  /\ Goto(th, "push_stamp")

NotMyLapEver(s, t) == FALSE                      \* mutant: no check
NotMyLap(s, t) == s # t

PushStamp(th) ==
  /\ From(th, "push_stamp")
  /\ LoadInto(th, "s", stamp(reg[th].t), "Acquire")
  /\ IF NotMyLap(reg'[th].s, reg[th].t)
     THEN /\ Goto(th, "idle")
          /\ out' = [out EXCEPT !.sent[reg[th].t + 1] = Refused]
     ELSE Goto(th, "push_write") /\ UNCHANGED out

PushWrite(th) ==
  /\ From(th, "push_write")
  /\ WriteCell(th, cell(reg[th].t), <<th, calls[th]>>)
  /\ Goto(th, "push_publish")
  /\ UNCHANGED <<reg, out>>

PushPublish(th) ==
  /\ From(th, "push_publish")
  /\ Store(th, stamp(reg[th].t), reg[th].t + 1, "Release")
  /\ Goto(th, "idle")
  /\ UNCHANGED <<reg, out>>

-----------------------------------------------------------------------------
PopHead(th) ==
  /\ Call(th)
  /\ LoadInto(th, "h", head, "Relaxed")
  /\ Goto(th, "pop_stamp")
  /\ UNCHANGED out

PopStamp(th) ==
  /\ From(th, "pop_stamp")
  /\ LoadInto(th, "s", stamp(reg[th].h), "Acquire")
  /\ Goto(th, IF reg'[th].s # reg[th].h + 1 THEN "idle" ELSE "pop_read")
  /\ UNCHANGED out

PopRead(th) ==
  /\ From(th, "pop_read")
  /\ ReadCell(th, cell(reg[th].h))
  /\ Set(th, "v", latest(cell(reg[th].h)))
  /\ Goto(th, "pop_free")
  /\ UNCHANGED out

PopFree(th) ==
  /\ From(th, "pop_free")
  /\ Store(th, stamp(reg[th].h), reg[th].h + N, "Release")
  /\ Goto(th, "pop_head")
  /\ UNCHANGED <<reg, out>>

PopAdvance(th) ==
  /\ From(th, "pop_head")
  /\ Store(th, head, reg[th].h + 1, "Relaxed")
  /\ out' = [out EXCEPT !.got = Append(@, reg[th].v)]
  /\ Goto(th, "idle")
  /\ UNCHANGED reg

Push(th) == TakeTicket(th) \/ PushStamp(th) \/ PushWrite(th) \/ PushPublish(th)
Pop(th) == PopHead(th) \/ PopStamp(th) \/ PopRead(th) \/ PopFree(th) \/ PopAdvance(th)

Next == (\E th \in Producer : Push(th)) \/ Pop("consumer")

Spec == Init /\ [][Next]_state

-----------------------------------------------------------------------------
(* A stamp is stored by whoever it names alone: the producer of its ticket,*)
(* then the consumer.  The storing thread knows the last stamp.            *)
StoresAreLatest ==
  /\ \A th \in Producer :
       pc[th] = "push_publish" => cur[th][stamp(reg[th].t)] = Last(stamp(reg[th].t))
  /\ LET c == "consumer" IN
       /\ pc[c] = "pop_free" => cur[c][stamp(reg[c].h)] = Last(stamp(reg[c].h))
       /\ pc[c] = "pop_head" => cur[c][head] = Last(head)

(* Values come out once each and in the order of their tickets, and a      *)
(* refused push never comes out: what pop returns is the value of the next *)
(* ticket.                                                                 *)
InTicketOrder ==
  /\ Len(out.got) <= Len(out.sent)
  /\ \A k \in DOMAIN out.got : out.got[k] = out.sent[k] /\ out.got[k] # Refused

(* A push that returned true is not lost: whenever every thread is at rest *)
(* each accepted value has come out or its slot holds it under its stamp.  *)
AcceptedIsKept ==
  (\A th \in Thread : pc[th] = "idle") =>
    \A k \in DOMAIN out.sent :
      out.sent[k] # Refused /\ k > Len(out.got) =>
        latest(stamp(k - 1)) = k /\ latest(cell(k - 1)) = out.sent[k]

(* The queue keeps its values, in the order of their tickets.              *)
MpscKeepsOrder == NoRace /\ StoresAreLatest /\ InTicketOrder /\ AcceptedIsKept

(* A ticket whose push was refused is never published, so that the consumer*)
(* waits at it for ever: a value accepted behind it is not handed out.     *)
Wedged == \E k \in DOMAIN out.sent :
  /\ k = Len(out.got) + 1
  /\ out.sent[k] = Refused
  /\ \E m \in (k + 1)..Len(out.sent) : out.sent[m] # Refused
NeverWedged == ~((\A th \in Thread : pc[th] = "idle") /\ Wedged)
=============================================================================
