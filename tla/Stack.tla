------------------------------- MODULE Stack -------------------------------
(***************************************************************************)
(* What the Treiber stack of src/leanlift-loom/src/treiber.rs promises: a  *)
(* stack, of which pop returns and removes the top.                        *)
(***************************************************************************)
EXTENDS Sequences

CONSTANT Value

VARIABLES items, taken

Init == items = <<>> /\ taken = <<>>

Push == /\ \E v \in Value : items' = <<v>> \o items
        /\ UNCHANGED taken

Pop == /\ items # <<>>
       /\ taken' = Append(taken, Head(items))
       /\ items' = Tail(items)

Next == Push \/ Pop

Spec == Init /\ [][Next]_<<items, taken>>
=============================================================================
