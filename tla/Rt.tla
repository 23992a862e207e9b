--------------------------------- MODULE Rt ---------------------------------
(***************************************************************************)
(* Periodic task sets (src/src/models/rt.rs): the analyses of `lift model  *)
(* check` (response-time analysis under a fixed priority, demand bound     *)
(* under EDF) as operators, and the unit-step simulation of `lift model    *)
(* simulate` as a machine.  A task is [c, t, d]: worst-case execution      *)
(* time, period and relative deadline, with 0 < c, 0 < d <= t as the       *)
(* parser requires; a task set is a sequence of tasks.                     *)
(***************************************************************************)
EXTENDS Integers, Sequences, FiniteSets, FiniteSetsExt, Functions

CONSTANTS
  TaskSets,    \* the task sets that may be loaded
  Alphas,      \* alpha, in halves: a job runs for at least alpha / 2 of c
  Cycles,      \* hyperperiods to simulate
  HorizonCap,  \* and the most instants (2 000 000 in the code)
  Word         \* u32 arithmetic is modulo Word

(* What the parser lets through.  It bounds t, and with it d, by 1 000 000,*)
(* so the sum of div_ceil, below, does not wrap while a response is within *)
(* the deadline: the last conjunct says just that of a word of any size.   *)
Task == [c : Nat, t : Nat, d : Nat]
IsTaskSet(tasks) ==
  /\ tasks \in Seq(Task) /\ tasks # <<>>
  /\ \A i \in DOMAIN tasks : 0 < tasks[i].c /\ 0 < tasks[i].d /\ tasks[i].d <= tasks[i].t
  /\ \A i, k \in DOMAIN tasks : tasks[i].d + tasks[k].t <= Word

ASSUME RtAssumption ==
  /\ \A tasks \in TaskSets : IsTaskSet(tasks)
  /\ Alphas \subseteq Nat
  /\ Cycles \in Nat /\ HorizonCap \in Nat /\ Word \in Nat \ {0}

Late == 0      \* Rust's None for a response time: past the deadline

Sum(f) == FoldFunction(LAMBDA x, y : x + y, 0, f)

(* The least common multiple of the periods, folded with gcd in the code.  *)
hyper(tasks) ==
  LET product == FoldFunction(LAMBDA x, y : x.t * y, 1, tasks)
  IN  Min({h \in 1..product : \A i \in DOMAIN tasks : h % tasks[i].t = 0})

-----------------------------------------------------------------------------
(* Fixed priorities.  RM sorts by period, DM by deadline; both sorts are   *)
(* stable, so the first declared of two equals goes first.                 *)
Key(task, policy) == IF policy = "DM" THEN task.d ELSE task.t

Higher(tasks, policy, i) ==
  {j \in DOMAIN tasks : \/ Key(tasks[j], policy) < Key(tasks[i], policy)
                        \/ Key(tasks[j], policy) = Key(tasks[i], policy) /\ j < i}

(* The sum wraps in a release build when a is within b of the word.        *)
div_ceil_floor(a, b) == a \div b                    \* mutant
div_ceil(a, b) == ((a + b - 1) % Word) \div b

(* The recurrence.  The products and sums are checked, and an overflow is  *)
(* a response past the deadline, as any value beyond d is.                 *)
Recur(c, hp, r) == c + Sum([k \in DOMAIN hp |-> div_ceil(r, hp[k].t) * hp[k].c])

response_time(c, d, hp) ==
  LET at[r \in Nat] == LET next == Recur(c, hp, r)
                       IN  IF next > d THEN Late ELSE IF next = r THEN r ELSE at[next]
  IN  at[c]

wcrt(tasks, policy, i) ==
  response_time(tasks[i].c, tasks[i].d, Restrict(tasks, Higher(tasks, policy, i)))

schedulable(tasks, policy) == \A i \in DOMAIN tasks : wcrt(tasks, policy, i) # Late

-----------------------------------------------------------------------------
(* The demand-bound test for EDF.  Utilisations are compared over the      *)
(* common denominator hyper.  The code computes them in f64: a sum that is *)
(* exactly one may come out just below it (below), and then the busy-period*)
(* bound is a division by a rounding error.                                *)
Load(tasks) == Sum([i \in DOMAIN tasks |-> tasks[i].c * (hyper(tasks) \div tasks[i].t)])
Slack(tasks) ==
  Sum([i \in DOMAIN tasks |->
         (tasks[i].t - tasks[i].d) * tasks[i].c * (hyper(tasks) \div tasks[i].t)])
max_d(tasks) == Max({tasks[i].d : i \in DOMAIN tasks})

Least(a, b) == IF a < b THEN a ELSE b
Most(a, b) == IF a < b THEN b ELSE a
Ceil(a, b) == (a + b - 1) \div b

(* The smaller of the two bounds, and never below the largest deadline.    *)
HorizonPeriod(tasks, below) == Max({tasks[i].t : i \in DOMAIN tasks})   \* mutant
Horizon(tasks, below) ==
  LET spare == hyper(tasks) - Load(tasks)
      busy == IF spare > 0 THEN Ceil(Slack(tasks), spare) + 1
              ELSE IF below /\ Slack(tasks) = 0 THEN 1 ELSE hyper(tasks)
  IN  Most(Least(hyper(tasks), busy), max_d(tasks))

(* The execution released and due within a window of length t.             *)
dbf(tasks, t) ==
  Sum([i \in {j \in DOMAIN tasks : tasks[j].d <= t} |->
         ((t - tasks[i].d) \div tasks[i].t + 1) * tasks[i].c])

Points(tasks, l) ==
  {t \in 1..l : \E i \in DOMAIN tasks :
                  t >= tasks[i].d /\ (t - tasks[i].d) % tasks[i].t = 0}

demand_bound_test(tasks, below) ==
  /\ Load(tasks) <= hyper(tasks)
  /\ \A t \in Points(tasks, Horizon(tasks, below)) : dbf(tasks, t) <= t

-----------------------------------------------------------------------------
(* simulate_miss, under RM whatever policy the set declares.  An instant   *)
(* of the loop is three passes: check the deadlines, release the periodic  *)
(* jobs, run one unit.  A last pass settles the deadlines at the horizon.  *)
VARIABLES
  ts,         \* the task set
  alpha,      \* how light a job may be, in halves of c
  now, pass,  \* the instant and the pass of the loop
  remaining,  \* execution left in a task's current job
  released,   \* when that job was released
  active,     \* whether it is still running or waiting
  missed, jobs

sim == <<ts, alpha, now, pass, remaining, released, active, missed, jobs>>

horizon == Most(1, Least(hyper(ts) * Cycles, HorizonCap))
deadline(i) == released[i] + ts[i].d
lightest(i) == Most(1, Least(ts[i].c, Ceil(alpha * ts[i].c, 2)))

RtInit ==
  /\ ts \in TaskSets
  /\ alpha \in Alphas
  /\ now = 0
  /\ pass = "check"
  /\ remaining = [i \in DOMAIN ts |-> 0]
  /\ released = [i \in DOMAIN ts |-> 0]
  /\ active = [i \in DOMAIN ts |-> FALSE]
  /\ missed = 0
  /\ jobs = 0

(* A job unfinished at its deadline is a miss and is abandoned.            *)
Check ==
  /\ pass = "check" /\ now < horizon
  /\ LET overdue == {i \in DOMAIN ts : active[i] /\ now >= deadline(i)}
     IN  /\ missed' = missed + Cardinality(overdue)
         /\ active' = [i \in DOMAIN ts |-> active[i] /\ i \notin overdue]
  /\ pass' = "release"
  /\ UNCHANGED <<ts, alpha, now, remaining, released, jobs>>

(* Only the jobs whose deadline falls within the horizon are counted.      *)
Counted(due) == {i \in due : now + ts[i].d <= horizon}

Release ==
  /\ pass = "release"
  /\ LET due == {i \in DOMAIN ts : now % ts[i].t = 0}
     IN  /\ \E run \in [due -> 1..Max({ts[i].c : i \in DOMAIN ts})] :
              /\ \A i \in due : run[i] \in lightest(i)..ts[i].c
              /\ remaining' = [i \in DOMAIN ts |-> IF i \in due THEN run[i] ELSE remaining[i]]
         /\ released' = [i \in DOMAIN ts |-> IF i \in due THEN now ELSE released[i]]
         /\ active' = [i \in DOMAIN ts |-> active[i] \/ i \in due]
         /\ jobs' = jobs + Cardinality(Counted(due))
  /\ pass' = "run"
  /\ UNCHANGED <<ts, alpha, now, missed>>

(* One unit of the first active task in the order of RM.                   *)
RunsLast(i) ==                                     \* mutant: sorted backwards
  /\ active[i] /\ remaining[i] > 0
  /\ \A j \in DOMAIN ts : i \in Higher(ts, "RM", j) => ~(active[j] /\ remaining[j] > 0)
Runs(i) ==
  /\ active[i] /\ remaining[i] > 0
  /\ \A j \in Higher(ts, "RM", i) : ~(active[j] /\ remaining[j] > 0)

Run ==
  /\ pass = "run"
  /\ \/ \E i \in DOMAIN ts :
          /\ Runs(i)
          /\ remaining' = [remaining EXCEPT ![i] = @ - 1]
          /\ active' = [active EXCEPT ![i] = remaining[i] > 1]
     \/ /\ \A i \in DOMAIN ts : ~(active[i] /\ remaining[i] > 0)
        /\ UNCHANGED <<remaining, active>>
  /\ now' = now + 1
  /\ pass' = "check"
  /\ UNCHANGED <<ts, alpha, released, missed, jobs>>

Sweep ==
  /\ pass = "check" /\ now = horizon
  /\ missed' = missed + Cardinality({i \in DOMAIN ts : active[i] /\ deadline(i) <= horizon})
  /\ pass' = "done"
  /\ UNCHANGED <<ts, alpha, now, remaining, released, active, jobs>>

RtNext == Check \/ Release \/ Run \/ Sweep

RtSpec == RtInit /\ [][RtNext]_sim

-----------------------------------------------------------------------------
(* rt.rs: response-time analysis is the limit of the simulation.  A set    *)
(* that it passes under RM misses no deadline, whatever its jobs take and  *)
(* wherever the simulation is cut off; one that it rejects does miss when  *)
(* every job takes its worst case.  And the fraction the simulation        *)
(* returns is one (rt.rs:331): no job is missed that was not counted, the  *)
(* ones due exactly at the horizon included.                               *)
HardVerdictIsExact ==
  /\ schedulable(ts, "RM") => missed = 0
  /\ pass = "done" /\ alpha = 2 /\ ~schedulable(ts, "RM") /\ horizon >= max_d(ts)
     => missed > 0
  /\ missed <= jobs

(* rt.rs: the worst case the certificate prints for a task is one: no job  *)
(* that completes takes longer, even when tasks of a lower priority, or    *)
(* that very task in other jobs, miss.  And it is attained: with every job *)
(* at its worst case, those released together at the start take just that. *)
InWorstCase(i) ==
  /\ pass = "run" /\ active[i] /\ ~active'[i]
  /\ wcrt(ts, "RM", i) # Late
  => now' - released[i] <= wcrt(ts, "RM", i)

AttainsWorstCase(i) ==
  /\ alpha = 2 /\ schedulable(ts, "RM")
  /\ pass = "run" /\ active[i] /\ ~active'[i] /\ released[i] = 0
  => now' = wcrt(ts, "RM", i)

WorstCaseIsExact ==
  [][\A i \in DOMAIN ts : InWorstCase(i) /\ AttainsWorstCase(i)]_sim

-----------------------------------------------------------------------------
(* rt.rs:204-227: the recurrence in machine arithmetic finds the least     *)
(* fixed point within the deadline, in the integers, whatever --scale has  *)
(* made of c.                                                              *)
RtaIsLeastFixedPoint ==
  \A i \in DOMAIN ts, policy \in {"RM", "DM"} :
    LET hp == Higher(ts, policy, i)
        fixed == {r \in ts[i].c..ts[i].d :
                    r = ts[i].c + Sum([j \in hp |-> Ceil(r, ts[j].t) * ts[j].c])}
    IN  wcrt(ts, policy, i) = IF fixed = {} THEN Late ELSE Min(fixed)

(* rt.rs:55-60: the shortened horizon misses no overload: the test decides *)
(* as a check of every window would, on either side of the rounding of a   *)
(* full load.                                                              *)
DemandIsExact ==
  \A below \in BOOLEAN :
    demand_bound_test(ts, below)
      <=> /\ Load(ts) <= hyper(ts)
          /\ \A t \in 1..(hyper(ts) + max_d(ts)) : dbf(ts, t) <= t

(* The three analyses agree as the theory orders them: what RM schedules   *)
(* DM schedules, and what DM schedules EDF schedules.                      *)
PoliciesAreOrdered ==
  /\ schedulable(ts, "RM") => schedulable(ts, "DM")
  /\ schedulable(ts, "DM") => demand_bound_test(ts, FALSE)

(* The three together: each analysis decides what it says it decides.      *)
AnalysesAreExact == RtaIsLeastFixedPoint /\ DemandIsExact /\ PoliciesAreOrdered
=============================================================================
