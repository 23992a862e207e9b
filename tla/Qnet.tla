-------------------------------- MODULE Qnet --------------------------------
(***************************************************************************)
(* Open queueing networks (src/src/models/qnet.rs): what parse accepts,    *)
(* the traffic equations and the verdict of analyze, and the simulation    *)
(* that `lift model simulate` compares it with.                            *)
(*                                                                         *)
(* A description is [station : a sequence of [mu, servers, lambda],        *)
(* route : a sequence of [from, to, prob]], numbers being fractions.       *)
(* Which of the positive rates fires next is a choice; how long it takes   *)
(* is left out.                                                            *)
(***************************************************************************)
EXTENDS Linear, FiniteSets

CONSTANTS Networks, QueueCap   \* QueueCap bounds the queues that are followed

VARIABLES
  desc,       \* the description
  result,     \* the report of analyze, or a refusal
  q,          \* simulate: the jobs in each station
  arrived, departed   \* history: jobs that came in, jobs that left

qvars == <<desc, result, q, arrived, departed>>

Ill == [refused |-> TRUE]
Analyzed(r) == "refused" \notin DOMAIN r

Stations(d) == DOMAIN d.station

(* Routes between the same two stations add up.                            *)
routing(d) ==
  [i \in Stations(d) |-> [j \in Stations(d) |->
     Sigma(LAMBDA r : d.route[r].prob,
           {r \in DOMAIN d.route : d.route[r].from = i /\ d.route[r].to = j})]]

Within(x) == ~Below(x, Zero) /\ ~Below(One, x)

parses(d) ==
  /\ d.station # <<>>
  /\ \A i \in Stations(d) : /\ Below(Zero, d.station[i].mu)
                            /\ d.station[i].servers = 1
                            /\ ~Below(d.station[i].lambda, Zero)
  /\ \A r \in DOMAIN d.route : Within(d.route[r].prob)
  /\ \A i \in Stations(d) : ~Below(One, Total(routing(d)[i]))
  /\ Below(Zero, Sigma(LAMBDA i : d.station[i].lambda, Stations(d)))

scaled(d, s) ==
  [d EXCEPT !.station = [i \in DOMAIN @ |-> [@[i] EXCEPT !.lambda = Times(@, s)]]]

(* (I - P^T) lambda = lambda0.                                             *)
TrafficUntransposed(d) ==                               \* mutant: P for P^T
  [i \in Stations(d) |-> [j \in Stations(d) |->
     Less(IF i = j THEN One ELSE Zero, routing(d)[i][j])]]
Traffic(d) ==
  [i \in Stations(d) |-> [j \in Stations(d) |->
     Less(IF i = j THEN One ELSE Zero, routing(d)[j][i])]]

External(d) == [i \in Stations(d) |-> d.station[i].lambda]

(* Bottleneck: the first station of the largest utilization.               *)
FirstLargest(rho) ==
  Min({i \in DOMAIN rho : \A j \in DOMAIN rho : ~Below(rho[i], rho[j])})

analyze(d) ==
  LET lambda == solve(Traffic(d), External(d))
      rho == [i \in Stations(d) |-> Over(lambda[i], d.station[i].mu)]
      busy(i) == Below(rho[i], One)
      L == [i \in Stations(d) |-> IF busy(i) THEN Over(rho[i], Less(One, rho[i])) ELSE Zero]
  IN  IF IsSingular(Traffic(d), External(d)) \/ \E i \in Stations(d) : Below(lambda[i], Zero)
        THEN Ill
        ELSE [lambda |-> lambda, rho |-> rho, L |-> L,
              stable |-> \A i \in Stations(d) : busy(i),
              bottleneck |-> FirstLargest(rho),
              l_total |-> Total(L), throughput |-> Total(External(d))]

Init ==
  /\ desc \in Networks
  /\ result = IF parses(desc) THEN analyze(desc) ELSE Ill
  /\ q = [i \in Stations(desc) |-> 0]
  /\ arrived = 0 /\ departed = 0

Simulates == Analyzed(result) /\ result.stable
Waiting == arrived - departed

Arrive(i) ==
  /\ Simulates /\ Waiting < QueueCap
  /\ Below(Zero, desc.station[i].lambda)
  /\ q' = [q EXCEPT ![i] = @ + 1]
  /\ arrived' = arrived + 1
  /\ UNCHANGED <<desc, result, departed>>

(* A completion: the job leaves i, then goes where the dice say.           *)
Serve(i) ==
  /\ Simulates /\ q[i] > 0
  /\ \/ \E j \in Stations(desc) :
          /\ routing(desc)[i][j] # Zero
          /\ q' = [[q EXCEPT ![i] = @ - 1] EXCEPT ![j] = @ + 1]
          /\ UNCHANGED departed
     \/ /\ Below(Total(routing(desc)[i]), One)
        /\ q' = [q EXCEPT ![i] = @ - 1]
        /\ departed' = departed + 1
  /\ UNCHANGED <<desc, result, arrived>>

Next == arrived < 2 * QueueCap /\ \E i \in Stations(desc) : Arrive(i) \/ Serve(i)

Spec == Init /\ [][Next]_qvars

-----------------------------------------------------------------------------
(* Stations a job may go through before it leaves.                         *)
ReachesExit(d) ==
  LET exits == {i \in Stations(d) : Below(Total(routing(d)[i]), One)}
      back[S \in SUBSET Stations(d)] ==
        LET T == S \cup {i \in Stations(d) : \E j \in S : routing(d)[i][j] # Zero}
        IN  IF T = S THEN S ELSE back[T]
  IN  back[exits]

(* qnet.rs:143-146: a network is refused exactly when some station has no  *)
(* way out; otherwise the arrival rates balance at every station, and what *)
(* comes in goes out.                                                      *)
FlowIsBalanced ==
  q = [i \in Stations(desc) |-> 0] /\ parses(desc) =>
    IF ReachesExit(desc) # Stations(desc) THEN ~Analyzed(result)
    ELSE LET l == result.lambda
             P == routing(desc)
         IN  /\ \A i \in Stations(desc) :
                  /\ ~Below(l[i], Zero)
                  /\ l[i] = Plus(desc.station[i].lambda,
                                 Sigma(LAMBDA j : Times(l[j], P[j][i]), Stations(desc)))
             /\ Sigma(LAMBDA i : Times(l[i], Less(One, Total(P[i]))), Stations(desc))
                  = result.throughput

(* qnet.rs:128-130, the load knob: max rho scales with s, and the network  *)
(* is stable exactly below s* = 1 / max rho.                               *)
LoadIsLinear ==
  q = [i \in Stations(desc) |-> 0] /\ Analyzed(result) =>
    \A s \in {Frac(1, 2), One, Whole(2), Whole(3)} :
      LET r == analyze(scaled(desc, s))
          top == Times(s, result.rho[result.bottleneck])
      IN  /\ r.stable <=> Below(top, One)
          /\ r.bottleneck = result.bottleneck /\ r.rho[r.bottleneck] = top

(* The simulated jobs are those of the traffic equations: none is lost or  *)
(* made, and a station with jobs is one that the equations feed.           *)
JobsFollowTheTraffic ==
  /\ FoldFunction(LAMBDA n, total : n + total, 0, q) = arrived - departed
  /\ \A i \in Stations(desc) : q[i] > 0 => Below(Zero, result.lambda[i])
=============================================================================
