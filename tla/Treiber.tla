------------------------------ MODULE Treiber ------------------------------
(***************************************************************************)
(* The Treiber stack of src/leanlift-loom/src/treiber.rs: several pushers, *)
(* and one popper that frees what it pops, so that the allocator may hand  *)
(* the same node to a later push.  A push of th pushes <<th, n>> if it is  *)
(* its n-th call.                                                          *)
(***************************************************************************)
EXTENDS Naturals, Sequences, FiniteSets

CONSTANTS
  Pusher, MaxCalls,
  Node      \* the addresses the allocator hands out

Null == "null"
Popper == "popper"
Thread == Pusher \cup {Popper}

(* Null and popper are names of their own, and calls are counted.          *)
TreiberAssumption == Null \notin Node /\ Popper \notin Pusher
CallsAssumption == MaxCalls \in [Thread -> Nat]

head == <<"head", 0>>
node(n) == <<"node", n>>
Cell == {node(n) : n \in Node}
Loc == {head} \cup Cell
initMem == [l \in Loc |-> IF l = head THEN Null ELSE [val |-> Null, next |-> Null]]

VARIABLES hist, cur, acq, rel, sc, reads, race, pc, reg, calls, out

INSTANCE Core

(* out.free[n] is the view of whoever freed n last, if n is free, out.got  *)
(* the values pop has returned.                                            *)
NotFree == <<>>
Init == CoreInit({"n", "h", "next", "v"}, [free |-> [n \in Node |-> bot], got |-> <<>>])

Free(n) == out.free[n] # NotFree

-----------------------------------------------------------------------------
(* Box::new.  The two fields of a node are one cell.                       *)
New(th) ==
  /\ Call(th)
  /\ \E n \in {m \in Node : Free(m)} :
       /\ AllocateCell(th, node(n), [val |-> <<th, calls'[th]>>, next |-> Null], out.free[n])
       /\ Set(th, "n", n)
       /\ out' = [out EXCEPT !.free[n] = NotFree]
  /\ Goto(th, "push_load")

PushLoad(th) ==
  /\ From(th, "push_load")
  /\ LoadInto(th, "h", head, "Relaxed")
  /\ Goto(th, "push_link")
  /\ UNCHANGED out

PushLink(th) ==
  /\ From(th, "push_link")
  /\ LET c == node(reg[th].n) IN WriteCell(th, c, [latest(c) EXCEPT !.next = reg[th].h])
  /\ Goto(th, "push_cas")
  /\ UNCHANGED <<reg, out>>

PushBlindly(th) ==                               \* mutant: a store for the CAS
  /\ From(th, "push_cas")
  /\ Store(th, head, reg[th].n, "Release")
  /\ Goto(th, "idle")
  /\ UNCHANGED <<reg, out>>

PushCas(th) ==
  /\ From(th, "push_cas")
  /\ \/ Cas(th, head, reg[th].h, reg[th].n, "Release") /\ Goto(th, "idle")
     \/ CasFails(th, head, reg[th].h, "Relaxed") /\ Goto(th, "push_load")
  /\ UNCHANGED <<reg, out>>

-----------------------------------------------------------------------------
PopLoadWith(th) ==
  /\ LoadInto(th, "h", head, "Acquire")
  /\ Goto(th, IF reg'[th].h = Null THEN "idle" ELSE "pop_next")
  /\ UNCHANGED out
PopCall(th) == Call(th) /\ PopLoadWith(th)
PopLoad(th) == From(th, "pop_load") /\ PopLoadWith(th)

PopNext(th) ==
  /\ From(th, "pop_next")
  /\ ReadCell(th, node(reg[th].h))
  /\ Set(th, "next", latest(node(reg[th].h)).next)
  /\ Goto(th, "pop_val")
  /\ UNCHANGED out

PopVal(th) ==
  /\ From(th, "pop_val")
  /\ ReadCell(th, node(reg[th].h))
  /\ Set(th, "v", latest(node(reg[th].h)).val)
  /\ Goto(th, "pop_cas")
  /\ UNCHANGED out

(* The node is freed as soon as it is unlinked; nobody else can tell the   *)
(* two apart but the allocator.                                            *)
PopCas(th) ==
  /\ From(th, "pop_cas")
  /\ \/ /\ Cas(th, head, reg[th].h, reg[th].next, "Relaxed")
        /\ out' = [free |-> [out.free EXCEPT ![reg[th].h] = cur'[th]],
                   got |-> Append(out.got, reg[th].v)]
        /\ Goto(th, "idle")
     \/ /\ CasFails(th, head, reg[th].h, "Relaxed")
        /\ Goto(th, "pop_load")
        /\ UNCHANGED out
  /\ UNCHANGED reg

Push(th) == New(th) \/ PushLoad(th) \/ PushLink(th) \/ PushCas(th)
Pop(th) == PopCall(th) \/ PopLoad(th) \/ PopNext(th) \/ PopVal(th) \/ PopCas(th)

Next == (\E th \in Pusher : Push(th)) \/ Pop(Popper)

Spec == Init /\ [][Next]_state

-----------------------------------------------------------------------------
(* Nobody dereferences a freed node.                                       *)
NoUseAfterFree ==
  /\ \A th \in Pusher : pc[th] = "push_link" => ~Free(reg[th].n)
  /\ pc[Popper] \in {"pop_next", "pop_val"} => ~Free(reg[Popper].h)

(* The nodes from the head on, following the links: the k-th, or Null.     *)
Chain[k \in 1..Last(head)] ==
  IF k = 1 THEN latest(head)
  ELSE LET n == Chain[k - 1] IN IF n = Null THEN Null ELSE latest(node(n)).next
Linked == [k \in {j \in 1..Last(head) : Chain[j] # Null} |-> Chain[k]]

(* The stack is its list of nodes: a push is the CAS that installs a node, *)
(* a pop the CAS that unlinks the node it has read.                        *)
Contents == [k \in DOMAIN Linked |-> latest(node(Linked[k])).val]
Value == UNION {{th} \X (1..MaxCalls[th]) : th \in Pusher}
Lifo == INSTANCE Stack WITH items <- Contents, taken <- out.got

(* Every behaviour is one of a stack.                                      *)
TreiberIsAStack == Lifo!Init /\ [][Lifo!Next]_<<Contents, out.got>>

(* Every node is in the list, in the hands of a pusher, or free: the list  *)
(* has no cycle, no node is lost, and drop frees each node once.           *)
NodesAccounted ==
  \A n \in Node :
    LET places == {k \in DOMAIN Linked : Linked[k] = n}
        held == {th \in Pusher : pc[th] \in {"push_load", "push_link", "push_cas"} /\ reg[th].n = n}
    IN IF Free(n) THEN places = {} /\ held = {}
       ELSE Cardinality(places) + Cardinality(held) = 1

(* The orderings of the head alone, without an acquire in push and with a  *)
(* relaxed CAS in pop, keep the nodes from races, and none is lost.        *)
TreiberNodesAccounted == NoRace /\ NoUseAfterFree /\ NodesAccounted
=============================================================================
