------------------------------ MODULE CpnUnfold ------------------------------
(***************************************************************************)
(* The unfolded net of a coloured net, stepped as the checker steps it:    *)
(* by the name of an enabled transition.                                   *)
(***************************************************************************)
EXTENDS Cpn

CONSTANT Nets

IsSeq(s) == s \in Seq(Range(s))

(* The lists of a net are sequences, its places and colours list nothing   *)
(* twice, and Rust's None is no marking.                                   *)
ASSUME CpnAssumption ==
  /\ Modulus \in Nat
  /\ \A c \in Nets :
       /\ IsSeq(c.places) /\ IsSeq(c.transitions)
       /\ \A p \in Range(c.places) : IsSeq(p.init) /\ IsSeq(c.colours[p.colour])
       /\ \A t \in Range(c.transitions) :
            IsSeq(t.pre) /\ IsSeq(t.post) /\ IsSeq(Bindings(c, t))
       /\ IsInjective(Origin(c))
       /\ Blocked \notin [DOMAIN Origin(c) -> Nat]

VARIABLES
  cpn,       \* the coloured net
  net,       \* its unfolding
  unfolded   \* the marking the unfolded net is at

coloured == <<cpn, net, unfolded>>

UnfoldInit ==
  /\ cpn \in Nets
  /\ net = unfold_cpn(cpn)
  /\ unfolded = net.initial

(* The names PtEnabled lists.                                              *)
EnabledNames ==
  {t.name : t \in {u \in Range(net.transitions) : marking_enabled(unfolded, u.pre)}}

FireByName(a) ==
  /\ PtStep(net, unfolded, a) # Blocked
  /\ unfolded' = PtStep(net, unfolded, a)
  /\ UNCHANGED <<cpn, net>>

UnfoldNext == \E a \in EnabledNames : FireByName(a)

UnfoldSpec == UnfoldInit /\ [][UnfoldNext]_coloured

-----------------------------------------------------------------------------
(* A marking of the unfolded net read back through the origin.             *)
Image(mk) ==
  [tk \in Range(Origin(cpn)) |-> mk[CHOOSE i \in DOMAIN mk : Origin(cpn)[i] = tk]]

Occurrence == INSTANCE CpnOccurrence WITH tokens <- Image(unfolded)

(* What is needed for it: a name stands for one transition.                *)
NamesAreKeys(c) ==
  \A t, u \in Range(unfold_cpn(c).transitions) : t.name = u.name => t = u

(* cpn.rs:4-6, "the unfolded reachability graph IS the coloured occurrence *)
(* graph".  One half: every step of the unfolded net is an occurrence of a *)
(* coloured transition.                                                    *)
CpnOnlyOccurrences == Occurrence!Spec

(* The other half: every occurrence of a coloured transition is a step of  *)
(* the unfolded net, which the checker takes when it tries every action.   *)
CpnNoOccurrenceLost ==
  \A t \in Range(cpn.transitions) : \A b \in Range(Bindings(cpn, t)) :
    Occurrence!Occurs(t, b) =>
      \E a \in EnabledNames :
        /\ PtStep(net, unfolded, a) # Blocked
        /\ Image(PtStep(net, unfolded, a)) = Occurrence!Successor(t, b)
=============================================================================
