------------------------------ MODULE Checker ------------------------------
(***************************************************************************)
(* The native model checker of `lift model check` (src/src/models/         *)
(* check.rs): a breadth-first exploration, cut off at a bound, of one      *)
(* behavioural model behind the Model trait of src/src/models/ir.rs,       *)
(* followed by a scan of the states it met.                                *)
(*                                                                         *)
(* The model is behind four operators, as in the trait: Initial, Enabled   *)
(* (a Vec, hence a sequence), Step (an Option, hence None) and Forbidden.  *)
(* The families (a transition system, a Petri net, ...) are given for      *)
(* these by the modules that instantiate or extend this one.               *)
(***************************************************************************)
EXTENDS Integers, Sequences, FiniteSets, Functions

CONSTANTS
  Models,           \* the models that may be loaded
  Bounds,           \* the exploration ceilings that --bound may give
  State, Action,    \* canonical encodings of states and of actions
  None,             \* Rust's None
  Initial(_),       \* Initial(m)       the initial state of m
  Enabled(_, _),    \* Enabled(m, s)    the actions m lists at s
  Step(_, _, _),    \* Step(m, s, a)    the successor, or None when blocked
  Forbidden(_, _)   \* Forbidden(m, s)  does s violate m's safety property?

ASSUME BoundsAssumption == Bounds \subseteq Nat
ASSUME NoneAssumption == None \notin State
ASSUME TraitAssumption ==
  \A m \in Models :
    /\ Initial(m) \in State
    /\ \A s \in State :
         /\ Enabled(m, s) \in Seq(Action)
         /\ Forbidden(m, s) \in BOOLEAN
         /\ \A a \in Action : Step(m, s, a) \in State \cup {None}

VARIABLES
  model,      \* the model under exploration
  bound,      \* its ceiling
  seen,       \* HashSet of the states met
  queue,      \* VecDeque of the states met and not yet expanded
  cur,        \* the state being expanded, None between two of them
  todo,       \* the actions of cur not yet tried
  truncated,  \* a new state was dropped because the ceiling was reached
  phase,      \* "explore" (reachable_set), "done" (check has returned)
  report      \* the violations and deadlocks check has collected

vars == <<model, bound, seen, queue, cur, todo, truncated, phase, report>>

Init ==
  /\ model \in Models
  /\ bound \in Bounds
  /\ seen = {Initial(model)}
  /\ queue = <<Initial(model)>>
  /\ cur = None
  /\ todo = <<>>
  /\ truncated = FALSE
  /\ phase = "explore"
  /\ report = [violations |-> {}, deadlocks |-> {}]

(* A successor counts when it exists and is new; it is dropped when the    *)
(* ceiling is already reached.                                             *)
Fresh(t) == t # None /\ t \notin seen

AtCeiling == Cardinality(seen) >= bound

MustDropEarly(t) == t # None /\ AtCeiling                  \* mutant: test order
MustDrop(t) == Fresh(t) /\ AtCeiling

(* while let Some(s) = queue.pop_front()                                   *)
PopFront ==
  /\ phase = "explore" /\ cur = None /\ queue # <<>>
  /\ cur' = Head(queue)
  /\ queue' = Tail(queue)
  /\ todo' = Enabled(model, Head(queue))
  /\ UNCHANGED <<model, bound, seen, truncated, phase, report>>

(* One turn of `for a in model.enabled(&s)`.                               *)
DropSilently(t) ==                                         \* mutant: no flag
  /\ MustDrop(t)
  /\ UNCHANGED <<seen, queue, truncated>>

Drop(t) ==
  /\ MustDrop(t)
  /\ truncated' = TRUE
  /\ UNCHANGED <<seen, queue>>

Discover(t) ==
  /\ Fresh(t) /\ ~AtCeiling
  /\ seen' = seen \cup {t}
  /\ queue' = Append(queue, t)
  /\ UNCHANGED truncated

Pass(t) ==
  /\ ~Fresh(t) /\ ~MustDrop(t)
  /\ UNCHANGED <<seen, queue, truncated>>

TryAction ==
  /\ phase = "explore" /\ cur # None /\ todo # <<>>
  /\ todo' = Tail(todo)
  /\ LET t == Step(model, cur, Head(todo)) IN Drop(t) \/ Discover(t) \/ Pass(t)
  /\ UNCHANGED <<model, bound, cur, phase, report>>

(* The for loop over the actions of cur is over.                           *)
NextState ==
  /\ phase = "explore" /\ cur # None /\ todo = <<>>
  /\ cur' = None
  /\ UNCHANGED <<model, bound, seen, queue, todo, truncated, phase, report>>

(* The queue is empty: check scans the set that reachable_set returned.    *)
IsStuckOrLoops(s) ==                                       \* mutant: self loops
  \A a \in Range(Enabled(model, s)) : Step(model, s, a) = s
IsDeadlock(s) == Enabled(model, s) = <<>>

Report ==
  /\ phase = "explore" /\ cur = None /\ queue = <<>>
  /\ phase' = "done"
  /\ report' = [violations |-> {s \in seen : Forbidden(model, s)},
                deadlocks  |-> {s \in seen : IsDeadlock(s)}]
  /\ UNCHANGED <<model, bound, seen, queue, cur, todo, truncated>>

Next == PopFront \/ TryAction \/ NextState \/ Report

Fairness == WF_vars(Next)   \* one thread, no blocking call

Spec == Init /\ [][Next]_vars
FairSpec == Spec /\ Fairness

(* The headline verdict of the report.                                     *)
SafeAsFarAsSeen == report.violations = {}                  \* mutant: truncation
Safe == ~truncated /\ report.violations = {}

-----------------------------------------------------------------------------
(* What reachability means: the least set that holds the initial state and *)
(* every successor, by an enabled action, of its members.                  *)

ClosedUnderStep(m, S) ==
  \A s \in S : \A a \in Range(Enabled(m, s)) : Step(m, s, a) \in S \cup {None}

Reachable(m) ==
  {s \in State : \A S \in SUBSET State :
                   Initial(m) \in S /\ ClosedUnderStep(m, S) => s \in S}

-----------------------------------------------------------------------------
(* Types of the explorer's variables.                                      *)
TypeOK ==
  /\ model \in Models
  /\ bound \in Bounds
  /\ seen \in SUBSET State
  /\ queue \in Seq(State)
  /\ cur \in State \cup {None}
  /\ todo \in Seq(Action)
  /\ truncated \in BOOLEAN
  /\ phase \in {"explore", "done"}
  /\ report \in [violations : SUBSET State, deadlocks : SUBSET State]

(* check.rs:46-51, the loop's contract: unless truncated, the returned set *)
(* is exactly the reachable set: nothing spurious and nothing missed.      *)
ExactUnlessTruncated ==
  phase = "done" /\ ~truncated => seen = Reachable(model)

(* "Never diverge silently": truncated is raised exactly when some         *)
(* reachable state was left out, so a state space of exactly `bound`       *)
(* states is reported as fully explored.                                   *)
TruncationIsHonest ==
  phase = "done" => (truncated <=> seen # Reachable(model))

(* No false alarm, truncated or not: every violation and every deadlock    *)
(* of the report is a reachable state with that defect.                    *)
FindingsAreReal ==
  /\ \A s \in report.violations : s \in Reachable(model) /\ Forbidden(model, s)
  /\ \A s \in report.deadlocks : s \in Reachable(model) /\ Enabled(model, s) = <<>>

(* The verdict of safe(): no reachable state whatever is forbidden.        *)
SafeIsSound ==
  phase = "done" /\ Safe => \A s \in Reachable(model) : ~Forbidden(model, s)

(* The exploration of a finite or cut-off model ends.                      *)
Terminates == <>(phase = "done")
=============================================================================
