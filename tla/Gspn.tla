-------------------------------- MODULE Gspn --------------------------------
(***************************************************************************)
(* Generalised stochastic Petri nets (src/src/models/gspn.rs): the support *)
(* of the Markov chain that ctmc builds over the tangible markings, and    *)
(* the simulation it is checked against (`lift model simulate`).           *)
(*                                                                         *)
(* A net is a net of PtNet whose transitions also carry [immediate,        *)
(* inhibit].  Rates and weights are positive and stand for themselves:     *)
(* which markings may follow, not how often.  The code's Guard is 10 000.  *)
(***************************************************************************)
EXTENDS PtNet

CONSTANTS
  Gspns,     \* the nets that may be loaded
  Marking,   \* their markings
  Guard,     \* immediate firings after which a path is given up
  Lost       \* the probability mass of such a path

VARIABLES
  gspn,      \* the net
  tang,      \* ctmc: the tangible markings it indexes
  edges,     \* ctmc: the pairs with a positive rate in Q
  mk,        \* simulate: the marking
  stage,     \* "settle" (settle_immediate), "race" (timed), "absorbed"
  left,      \* immediate firings settle_immediate may still do
  from       \* history: the marking whose race was last decided

gvars == <<gspn, tang, edges, mk, stage, left, from>>

Closure(Succ(_), S) ==
  LET grow[T \in SUBSET Marking] ==
        LET U == T \cup UNION {Succ(m) : m \in T} IN IF U = T THEN T ELSE grow[U]
  IN  grow[S]

Transitions(net) == {net.transitions[i] : i \in DOMAIN net.transitions}

enabled_at(m, t) == marking_enabled(m, t.pre) /\ \A p \in t.inhibit : m[p] = 0

fire(m, t) == fire_marking(m, t.pre, t.post)

Firing(net, m, immediate) ==
  {t \in Transitions(net) : t.immediate = immediate /\ enabled_at(m, t)}

is_vanishing(net, m) == Firing(net, m, TRUE) # {}

(* Every enabled transition fires here, a timed one in a vanishing marking *)
(* too, where the simulation gives the immediate ones priority.            *)
all_markings(net) ==
  Closure(LAMBDA m : {fire(m, t) : t \in {u \in Transitions(net) : enabled_at(m, u)}},
          {net.initial})

(* The depth-first search looks for a cycle of immediate firings among the *)
(* vanishing markings: it finds one when some of them remain after those   *)
(* with no such firing left are removed, as often as possible.             *)
Cyclic(Succ(_), S) ==
  LET core[C \in SUBSET Marking] ==
        LET D == {m \in C : Succ(m) \cap C # {}} IN IF D = C THEN C ELSE core[D]
  IN  core[S] # {}

Settling(net, m) == {fire(m, t) : t \in Firing(net, m, TRUE)}

has_immediate_cycle(net) == Cyclic(LAMBDA m : Settling(net, m), all_markings(net))

(* The tangible markings that immediate firings lead to, and Lost when a   *)
(* path is given up.                                                       *)
tangible_dist(net, m) ==
  LET reach[depth \in 0..(Guard + 1), n \in Marking] ==
        IF depth > Guard THEN {Lost}
        ELSE IF ~is_vanishing(net, n) THEN {n}
        ELSE UNION {reach[depth + 1, k] : k \in Settling(net, n)}
  IN  reach[0, m]

Tangible(net) == {m \in all_markings(net) : ~is_vanishing(net, m)}

(* Off the diagonal of Q: the targets of the timed transitions of a row.   *)
Targets(net, m) ==
  UNION {tangible_dist(net, fire(m, t)) : t \in Firing(net, m, FALSE)}

ctmc_edges(net) ==
  {e \in Tangible(net) \X Tangible(net) : e[1] # e[2] /\ e[2] \in Targets(net, e[1])}

absorbing(m) == \A e \in edges : e[1] # m

start_dist == tangible_dist(gspn, gspn.initial)

(* evaluate, for the steady-state metrics: NaN for a chain with an         *)
(* absorbing marking.                                                      *)
HasSteadyState == \A m \in tang : ~absorbing(m)

-----------------------------------------------------------------------------
Init ==
  /\ gspn \in Gspns
  /\ tang = Tangible(gspn)
  /\ edges = ctmc_edges(gspn)
  /\ mk = gspn.initial
  /\ stage = "settle"
  /\ left = Guard
  /\ from = Lost

(* settle_immediate fires immediate transitions until none is enabled.     *)
Immediate ==
  /\ stage = "settle" /\ left > 0
  /\ mk' \in Settling(gspn, mk)
  /\ left' = left - 1
  /\ UNCHANGED <<gspn, tang, edges, stage, from>>

SettledAtOnce ==                                      \* mutant: a single firing
  /\ stage = "settle" /\ (left < Guard \/ ~is_vanishing(gspn, mk))
  /\ stage' = "race"
  /\ UNCHANGED <<gspn, tang, edges, mk, left, from>>
Settled ==
  /\ stage = "settle" /\ (left = 0 \/ ~is_vanishing(gspn, mk))
  /\ stage' = "race"
  /\ UNCHANGED <<gspn, tang, edges, mk, left, from>>

(* The enabled timed transitions race; with none, the simulation breaks.   *)
Race ==
  /\ stage = "race"
  /\ \/ /\ \E t \in Firing(gspn, mk, FALSE) : mk' = fire(mk, t)
        /\ from' = mk
        /\ left' = Guard
        /\ stage' = "settle"
     \/ /\ Firing(gspn, mk, FALSE) = {}
        /\ stage' = "absorbed"
        /\ UNCHANGED <<mk, from, left>>
  /\ UNCHANGED <<gspn, tang, edges>>

Next == Immediate \/ Settled \/ Race

Spec == Init /\ [][Next]_gvars

-----------------------------------------------------------------------------
(* The cross-check of `lift model simulate` compares like with like: every *)
(* sojourn of the simulation is a state of the chain, and the step into it *)
(* has a rate.                                                             *)
SimulationIsTheChain ==
  stage # "settle" /\ ~has_immediate_cycle(gspn) =>
    /\ mk \in tang
    /\ IF from = Lost THEN mk \in start_dist ELSE mk = from \/ <<from, mk>> \in edges

(* "Fail loudly instead" (gspn.rs:110): a net without an immediate cycle   *)
(* loses no probability mass in the elimination of its vanishing markings, *)
(* and each target it meets has a row.                                     *)
NoMassIsLost ==
  ~has_immediate_cycle(gspn) =>
    start_dist \cup UNION {Targets(gspn, m) : m \in tang} \subseteq tang

(* "Defined on an ERGODIC tangible CTMC (no absorbing state); evaluate to  *)
(* NaN otherwise" (gspn.rs:54): a chain that never gets absorbed has its   *)
(* metrics.                                                                *)
SteadyStateWhenErgodic ==
  LET entered == Closure(LAMBDA m : {e[2] : e \in {f \in edges : f[1] = m}}, start_dist)
  IN  ~has_immediate_cycle(gspn) /\ (\A m \in entered : ~absorbing(m)) => HasSteadyState
=============================================================================
