------------------------------ MODULE MCVerify ------------------------------
(***************************************************************************)
(* Two invocations over two examples that share an entrypoint, each with   *)
(* one right definition, and a definition Lean rejects.  Contended bounds  *)
(* how they overlap.                                                       *)
(***************************************************************************)
EXTENDS Verify, TLC

CONSTANTS p1, p2, e1, e2, d1, d2, broken

MCProc == {p1, p2}
MCExample == {e1, e2}
MCEntrypoint == [e \in MCExample |-> "kernel"]
MCDef == {d1, d2, broken}
MCTypechecks == {d1, d2}
MCAgrees == {<<e1, d1>>, <<e2, d2>>}
MCExtracted == [e \in MCExample |-> IF e = e1 THEN d1 ELSE d2]

(* Two invocations that use the same entries of the cache, one of them     *)
(* being at it.                                                            *)
Contend(p, q) ==
  /\ kind[p] = "llm" /\ kind[q] = "llm" /\ ex[p] = ex[q] /\ lane[p] = lane[q]
  /\ {pc[p], pc[q]} \cap {"query", "ask", "create", "fill"} # {}

Contended ==
  \A p, q \in Proc : p # q /\ Running(p)' /\ Running(q)' => Contend(p, q)'

(* Processes are interchangeable, and so are the two examples when their   *)
(* definitions are exchanged with them.                                    *)
Exchange(S, a, b) == [x \in S |-> IF x = a THEN b ELSE IF x = b THEN a ELSE x]
SwapProcs == Exchange({p1, p2}, p1, p2)
SwapExamples == [x \in {e1, e2, d1, d2} |->
  CASE x = e1 -> e2 [] x = e2 -> e1 [] x = d1 -> d2 [] x = d2 -> d1]
Symmetry == {SwapProcs, SwapExamples, SwapProcs @@ SwapExamples}
=============================================================================
