-------------------------------- MODULE Ctmc --------------------------------
(***************************************************************************)
(* The solvers of src/src/models/gspn.rs over the generator Q of a Markov  *)
(* chain: the stationary law by GTH reduction, the probability of and the  *)
(* time to absorption by elimination, the law at a time by uniformization. *)
(*                                                                         *)
(* A chain is [rate : off-diagonal rates, tokens : the tokens of the       *)
(* queried place in each state].  States are 1..n.                         *)
(***************************************************************************)
EXTENDS Linear, FiniteSets

CONSTANTS Chains, Terms    \* terms of the Poisson series that are summed

VARIABLES
  chain,    \* the chain
  a,        \* steady_state: the matrix under reduction
  e,        \* the state folded next
  pi,       \* the law found, empty before
  walk,     \* transient: the powers of the uniformized chain, from state 1
  sum, acc, \* the weighted sum of the walk and of its weights
  term, k   \* the weight and the number of the last term

cvars == <<chain, a, e, pi, walk, sum, acc, term, k>>

Dim(c) == Len(c.rate)
Out(c, i) == Sigma(LAMBDA j : c.rate[i][j], DOMAIN c.rate \ {i})
absorbing(c, i) == \A j \in DOMAIN c.rate : j = i \/ c.rate[i][j] = Zero
Absorbing(c) == {i \in DOMAIN c.rate : absorbing(c, i)}

(* transient_states, in order.                                             *)
transient_states(c) ==
  SelectSeq([i \in DOMAIN c.rate |-> i], LAMBDA i : ~absorbing(c, i))

jump(c, i, j) == IF i = j THEN Zero ELSE Over(c.rate[i][j], Out(c, i))

(* I - P on the transient states.                                          *)
Block(c) ==
  LET tr == transient_states(c)
  IN  [r \in DOMAIN tr |-> [s \in DOMAIN tr |->
         Less(IF r = s THEN One ELSE Zero, jump(c, tr[r], tr[s]))]]

(* The traps that meet the predicate.                                      *)
hit_any(c) == Absorbing(c)                             \* mutant: every trap
hit(c) == {j \in Absorbing(c) : c.tokens[j] > 0}

prob_reach(c) ==
  LET tr == transient_states(c)
  IN  solve_anyway(Block(c),
                   [r \in DOMAIN tr |-> Sigma(LAMBDA j : jump(c, tr[r], j), hit(c))])

expected_time(c) ==
  LET tr == transient_states(c)
  IN  solve_anyway(Block(c), [r \in DOMAIN tr |-> Over(One, Out(c, tr[r]))])

(* Uniformization: the largest outflow (its floor is 1e-12 in the code),   *)
(* and the stochastic matrix it gives.                                     *)
lam(c) == FoldSet(LAMBDA i, m : IF Below(m, Out(c, i)) THEN Out(c, i) ELSE m,
                  Frac(1, 100), DOMAIN c.rate)
punif_raw(c, i, j) == Over(c.rate[i][j], lam(c))          \* mutant: no diagonal
punif(c, i, j) ==
  IF i = j THEN Less(One, Over(Out(c, i), lam(c))) ELSE Over(c.rate[i][j], lam(c))

Unit(c, s) == [i \in DOMAIN c.rate |-> IF i = s THEN One ELSE Zero]

Init ==
  /\ chain \in Chains
  /\ a = chain.rate
  /\ e = Dim(chain)
  /\ pi = <<>>
  /\ walk = Unit(chain, 1) /\ sum = walk /\ acc = One /\ term = One /\ k = 0

(* One turn of the reduction: state e is folded into 1..e-1, the detours   *)
(* through it are added, and its column is normalised.                     *)

Reduce ==
  /\ e > 1
  /\ LET s == Sigma(LAMBDA j : a[e][j], 1..(e - 1))
     IN  a' = IF s = Zero THEN a
              ELSE [i \in DOMAIN a |-> [j \in DOMAIN a |->
                     CASE i < e /\ j < e ->
                            Plus(a[i][j], Over(Times(a[i][e], a[e][j]), s))
                       [] i < e /\ j = e -> Over(a[i][e], s)
                       [] OTHER -> a[i][j]]]
  /\ e' = e - 1
  /\ UNCHANGED <<chain, pi, walk, sum, acc, term, k>>

(* Back-substitution, then division by the total.                          *)
BackSubstitute ==
  /\ e = 1 /\ pi = <<>>
  /\ LET p[j \in DOMAIN a] ==
           IF j = 1 THEN One ELSE Sigma(LAMBDA i : Times(p[i], a[i][j]), 1..(j - 1))
     IN  pi' = [j \in DOMAIN a |-> Over(p[j], Total(p))]
  /\ UNCHANGED <<chain, a, e, walk, sum, acc, term, k>>

(* One turn of the series: the next power, its weight, and both sums.  The *)
(* common factor exp(-lam t) of the weights is left out, and t is 1 / lam. *)
AddTerm ==
  /\ pi # <<>> /\ k < Terms
  /\ k' = k + 1
  /\ walk' = [j \in DOMAIN walk |->
                Sigma(LAMBDA i : Times(walk[i], punif(chain, i, j)), DOMAIN walk)]
  /\ term' = Over(term, Whole(k + 1))
  /\ sum' = [j \in DOMAIN sum |-> Plus(sum[j], Times(term', walk'[j]))]
  /\ acc' = Plus(acc, term')
  /\ UNCHANGED <<chain, a, e, pi>>

Next == Reduce \/ BackSubstitute \/ AddTerm

Spec == Init /\ [][Next]_cvars

-----------------------------------------------------------------------------
(* evaluate, for the steady-state metrics over a law p.                    *)
mean(c, p) == Sigma(LAMBDA j : Times(p[j], Whole(c.tokens[j])), DOMAIN p)
full(c, p, level) == Sigma(LAMBDA j : p[j], {j \in DOMAIN p : c.tokens[j] >= level})
IsNan(c) == Absorbing(c) # {}

Solved == pi # <<>> /\ k = 0

Reach(c, i) ==
  LET grow[S \in SUBSET DOMAIN c.rate] ==
        LET T == S \cup {j \in DOMAIN c.rate : \E s \in S : s # j /\ c.rate[s][j] # Zero}
        IN  IF T = S THEN S ELSE grow[T]
  IN  grow[{i}]
Irreducible(c) == \A i \in DOMAIN c.rate : Reach(c, i) = DOMAIN c.rate

(* gspn.rs:448-455: the reduction finds the stationary law of an           *)
(* irreducible chain: nothing negative, total one, inflow equal to outflow *)
(* in every state; and the mean is the sum of the tails that full gives.   *)
SteadyStateIsStationary ==
  Solved /\ Irreducible(chain) /\ Dim(chain) > 1 =>
    /\ Total(pi) = One /\ \A j \in DOMAIN pi : ~Below(pi[j], Zero)
    /\ \A j \in DOMAIN pi :
         Sigma(LAMBDA i : Times(pi[i], chain.rate[i][j]), DOMAIN pi \ {j})
           = Times(pi[j], Out(chain, j))
    /\ ~IsNan(chain)
    /\ mean(chain, pi) = Sigma(LAMBDA l : full(chain, pi, l), 1..2)

(* The law at a time never gains or loses mass: what has been summed is a  *)
(* distribution times the weights summed, which the loop's test relies on. *)
UniformizedKeepsMass ==
  /\ Total(walk) = One /\ Total(sum) = acc
  /\ \A j \in DOMAIN sum : ~Below(sum[j], Zero)

(* The first-step equations of absorption: for the probability, where the  *)
(* queried place may be marked at the end, and zero elsewhere.             *)
AbsorbsSurely(c) == \A i \in DOMAIN c.rate : Reach(c, i) \cap Absorbing(c) # {}

ReachIsRight(c, states) ==
  LET tr == transient_states(c)
      x == prob_reach(c)
      met == {j \in Absorbing(c) : c.tokens[j] > 0}
      at(j) == IF j \in met THEN One
               ELSE IF Reach(c, j) \cap met = {} THEN Zero
               ELSE x[CHOOSE r \in DOMAIN tr : tr[r] = j]
  IN  \A r \in {q \in DOMAIN tr : tr[q] \in states} :
        x[r] = IF Reach(c, tr[r]) \cap met = {} THEN Zero
               ELSE Sigma(LAMBDA j : Times(jump(c, tr[r], j), at(j)), DOMAIN c.rate)

TimeIsRight(c) ==
  LET tr == transient_states(c)
      t == expected_time(c)
      at(j) == IF j \in Absorbing(c) THEN Zero ELSE t[CHOOSE r \in DOMAIN tr : tr[r] = j]
  IN  \A r \in DOMAIN tr :
        t[r] = Plus(Over(One, Out(c, tr[r])),
                    Sigma(LAMBDA j : Times(jump(c, tr[r], j), at(j)), DOMAIN c.rate))

(* gspn.rs:515-568: where absorption is certain, the probability and the   *)
(* time of it satisfy their first-step equations, which have one solution. *)
AbsorptionIsRight ==
  Solved /\ AbsorbsSurely(chain) => ReachIsRight(chain, DOMAIN chain.rate) /\ TimeIsRight(chain)

(* gspn.rs:423, of a singular system: "should not happen for these chains".*)
(* So the probability from a state that the whole chain is reached from,   *)
(* as it is from the initial marking, is right whatever the chain.         *)
ReachIsAlwaysRight ==
  Solved => ReachIsRight(chain, {i \in DOMAIN chain.rate : Reach(chain, i) = DOMAIN chain.rate})
=============================================================================
