-------------------------------- MODULE Fifo --------------------------------
(***************************************************************************)
(* What the ring of src/leanlift-loom/src/spsc.rs promises: a queue of at  *)
(* most Capacity values that come out in the order they went in.           *)
(***************************************************************************)
EXTENDS Naturals, Sequences

CONSTANTS Value, Capacity

VARIABLES items, taken

Init == items = <<>> /\ taken = <<>>

Put ==
  /\ Len(items) < Capacity
  /\ \E v \in Value : items' = Append(items, v)
  /\ UNCHANGED taken

Take ==
  /\ items # <<>>
  /\ items' = Tail(items)
  /\ taken' = Append(taken, Head(items))

Next == Put \/ Take

Spec == Init /\ [][Next]_<<items, taken>>
=============================================================================
