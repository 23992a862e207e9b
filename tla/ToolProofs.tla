----------------------------- MODULE ToolProofs -----------------------------
(***************************************************************************)
(* What the commands report.  The explorer, for every model and ceiling:   *)
(* what src/src/models/check.rs:46-51 leaves to "a Creusot deductive       *)
(* proof".  The reports and exit codes of `lift model`, level L3 of        *)
(* `lift prove`, what the report of a Petri net says of safety under loss, *)
(* the unfolding of coloured nets, the verdicts of `lift verify`, and the  *)
(* exit codes of `lift fpga`, for any files, examples, theory, fragments,  *)
(* nets, lanes and designs and any number of calls, kills and edits.       *)
(***************************************************************************)
EXTENDS PetriReport, LiftProve, ModelCli, CpnUnfold, Verify, FpgaTiming, FpgaCli,
        SequenceTheorems, FiniteSetTheorems, WellFoundedInduction, TLAPS

(* The explorer.                                                          *)
(* How the elements of a sequence change when it is popped or pushed.       *)
LEMMA RangeTail ==
  ASSUME NEW S, NEW q \in Seq(S), q # <<>>
  PROVE  Range(q) = {Head(q)} \cup Range(Tail(q))
<1>1. /\ DOMAIN q = 1..Len(q) /\ Len(q) \in Nat /\ Len(q) # 0
      /\ DOMAIN Tail(q) = 1..(Len(q) - 1)
      /\ \A i \in 1..(Len(q) - 1) : Tail(q)[i] = q[i + 1]
      /\ Head(q) = q[1]
  BY HeadTailProperties, LenProperties, EmptySeq
<1>2. ASSUME NEW i \in DOMAIN q PROVE q[i] \in {Head(q)} \cup Range(Tail(q))
  <2>1. CASE i = 1 BY <1>1, <2>1
  <2>2. CASE i # 1
    <3>1. i - 1 \in DOMAIN Tail(q) /\ Tail(q)[i - 1] = q[i] BY <1>1, <2>2
    <3>. QED BY <3>1 DEF Range
  <2>. QED BY <2>1, <2>2
<1>3. ASSUME NEW i \in DOMAIN Tail(q) PROVE Tail(q)[i] \in Range(q)
  <2>1. i + 1 \in DOMAIN q /\ Tail(q)[i] = q[i + 1] BY <1>1
  <2>. QED BY <2>1 DEF Range
<1>4. Head(q) \in Range(q)
  BY <1>1 DEF Range
<1>. QED BY <1>2, <1>3, <1>4 DEF Range

LEMMA RangeAppend ==
  ASSUME NEW S, NEW q \in Seq(S), NEW t \in S
  PROVE  Range(Append(q, t)) = Range(q) \cup {t}
<1>1. /\ DOMAIN q = 1..Len(q) /\ Len(q) \in Nat
      /\ DOMAIN Append(q, t) = 1..(Len(q) + 1)
      /\ \A i \in 1..Len(q) : Append(q, t)[i] = q[i]
      /\ Append(q, t)[Len(q) + 1] = t
  BY AppendProperties, LenProperties
<1>2. ASSUME NEW i \in DOMAIN Append(q, t)
      PROVE  Append(q, t)[i] \in Range(q) \cup {t}
  BY <1>1 DEF Range
<1>3. ASSUME NEW i \in DOMAIN q PROVE q[i] \in Range(Append(q, t))
  <2>1. i \in DOMAIN Append(q, t) /\ Append(q, t)[i] = q[i] BY <1>1
  <2>. QED BY <2>1 DEF Range
<1>4. t \in Range(Append(q, t))
  <2>1. Len(q) + 1 \in DOMAIN Append(q, t) BY <1>1
  <2>. QED BY <1>1, <2>1 DEF Range
<1>. QED BY <1>2, <1>3, <1>4 DEF Range

-----------------------------------------------------------------------------
(* Reachable(m) holds the initial state, is closed, and is the least such. *)
LEMMA ReachableInitial ==
  ASSUME NEW m \in Models
  PROVE  Initial(m) \in Reachable(m)
BY TraitAssumption DEF Reachable

LEMMA ReachableStep ==
  ASSUME NEW m \in Models, NEW s \in Reachable(m),
         NEW a \in Range(Enabled(m, s)), Step(m, s, a) # None
  PROVE  Step(m, s, a) \in Reachable(m)
<1>1. a \in Action
  BY TraitAssumption, RangeOfSeq DEF Reachable
<1>2. Step(m, s, a) \in State
  BY <1>1, TraitAssumption DEF Reachable
<1>3. ASSUME NEW S \in SUBSET State, Initial(m) \in S, ClosedUnderStep(m, S)
      PROVE  Step(m, s, a) \in S
  BY <1>3 DEF Reachable, ClosedUnderStep
<1>. QED
  BY <1>2, <1>3 DEF Reachable

LEMMA ReachableLeast ==
  ASSUME NEW m \in Models, NEW S \in SUBSET State,
         Initial(m) \in S, ClosedUnderStep(m, S)
  PROVE  Reachable(m) \subseteq S
BY DEF Reachable

-----------------------------------------------------------------------------
LEMMA InitTypeOK == Init => TypeOK
<1> SUFFICES ASSUME Init PROVE TypeOK
  OBVIOUS
<1>1. Initial(model) \in State
  BY TraitAssumption DEF Init
<1>2. ASSUME NEW s \in State PROVE <<s>> \in Seq(State)
  OBVIOUS
<1>3. queue \in Seq(State)
  BY <1>1, <1>2 DEF Init
<1>4. todo \in Seq(Action) /\ seen \in SUBSET State
  BY <1>1, EmptySeq DEF Init
<1>5. report \in [violations : SUBSET State, deadlocks : SUBSET State]
  BY DEF Init
<1>. QED BY <1>3, <1>4, <1>5 DEF Init, TypeOK

(* The explorer's variables keep their types.                              *)
THEOREM ExplorerTyped == Spec => []TypeOK
<1>1. Init => TypeOK
  BY InitTypeOK
<1>2. TypeOK /\ [Next]_vars => TypeOK'
  <2> SUFFICES ASSUME TypeOK, [Next]_vars PROVE TypeOK'
    OBVIOUS
  <2>1. CASE PopFront
    BY <2>1, HeadTailProperties, TraitAssumption DEF PopFront, TypeOK
  <2>2. CASE TryAction
    <3>1. todo' \in Seq(Action) /\ Head(todo) \in Action
      BY <2>2, HeadTailProperties DEF TryAction, TypeOK
    <3> DEFINE t == Step(model, cur, Head(todo))
    <3>2. t \in State \cup {None}
      BY <2>2, <3>1, TraitAssumption DEF TryAction, TypeOK
    <3>3. CASE Discover(t)
      BY <2>2, <3>1, <3>2, <3>3, AppendProperties DEF TryAction, Discover, Fresh, TypeOK
    <3>4. CASE Drop(t) \/ Pass(t)
      BY <2>2, <3>1, <3>4 DEF TryAction, Drop, Pass, TypeOK
    <3>. QED BY <2>2, <3>3, <3>4 DEF TryAction
  <2>3. CASE NextState
    BY <2>3 DEF NextState, TypeOK
  <2>4. CASE Report
    BY <2>4 DEF Report, TypeOK
  <2>5. CASE UNCHANGED vars
    BY <2>5 DEF vars, TypeOK
  <2>. QED BY <2>1, <2>2, <2>3, <2>4, <2>5 DEF Next
<1>. QED BY <1>1, <1>2, PTL DEF Spec

-----------------------------------------------------------------------------
(* The inductive invariant: everything met is reachable; everything met    *)
(* and no longer waiting has had its successors met, as far as they have   *)
(* been tried and nothing was dropped; and if something was dropped, some  *)
(* reachable state stays out for good, because the ceiling is reached.     *)
Worklist ==
  /\ IsFiniteSet(seen)
  /\ Initial(model) \in seen
  /\ seen \subseteq Reachable(model)
  /\ Range(queue) \subseteq seen
  /\ cur \in seen \cup {None}
  /\ cur # None => Range(todo) \subseteq Range(Enabled(model, cur))

Tried(s, a) == s \notin Range(queue) /\ (s = cur => a \notin Range(todo))

Expanded ==
  ~truncated =>
    \A s \in seen : \A a \in Range(Enabled(model, s)) :
      Tried(s, a) => Step(model, s, a) \in seen \cup {None}

Dropped ==
  truncated => Cardinality(seen) >= bound /\ \E t \in Reachable(model) : t \notin seen

Finished ==
  IF phase = "done"
    THEN /\ queue = <<>> /\ cur = None
         /\ report.violations = {s \in seen : Forbidden(model, s)}
         /\ report.deadlocks = {s \in seen : Enabled(model, s) = <<>>}
    ELSE report = [violations |-> {}, deadlocks |-> {}]

ExplorerInv == TypeOK /\ Worklist /\ Expanded /\ Dropped /\ Finished

LEMMA InitExplorerInv == Init => ExplorerInv
<1> SUFFICES ASSUME Init PROVE ExplorerInv
  OBVIOUS
<1>1. TypeOK
  BY InitTypeOK
<1>2. Range(queue) = {Initial(model)}
  BY DEF Init, Range
<1>3. Worklist
  BY <1>2, FS_Singleton, ReachableInitial DEF Init, Worklist
<1>. QED BY <1>1, <1>2, <1>3 DEF Init, ExplorerInv, Expanded, Tried, Dropped, Finished

-----------------------------------------------------------------------------
(* Each action preserves the invariant.                                    *)
LEMMA PopFrontStep == ExplorerInv /\ TypeOK' /\ PopFront => ExplorerInv'
<1> SUFFICES ASSUME ExplorerInv, TypeOK', PopFront PROVE ExplorerInv'
  OBVIOUS
<1> USE DEF ExplorerInv
<1>1. Range(queue) = {cur'} \cup Range(queue')
  BY RangeTail DEF PopFront, TypeOK
<1>2. Worklist'
  BY <1>1 DEF PopFront, Worklist
<1>3. Expanded'
  <2> SUFFICES ASSUME ~truncated, NEW s \in seen, NEW a \in Range(Enabled(model, s)),
                      s \notin Range(queue'), s = cur' => a \notin Range(todo')
               PROVE  Step(model, s, a) \in seen \cup {None}
    BY DEF PopFront, Expanded, Tried
  <2>1. s # cur'
    BY DEF PopFront
  <2>2. Tried(s, a)
    BY <1>1, <2>1, NoneAssumption DEF PopFront, Tried, TypeOK
  <2>. QED BY <2>2 DEF Expanded
<1>4. Dropped' /\ Finished'
  BY DEF PopFront, Dropped, Finished
<1>. QED BY <1>2, <1>3, <1>4

LEMMA TryActionStep == ExplorerInv /\ TypeOK' /\ TryAction => ExplorerInv'
<1> SUFFICES ASSUME ExplorerInv, TypeOK', TryAction PROVE ExplorerInv'
  OBVIOUS
<1> USE DEF ExplorerInv
<1> DEFINE a0 == Head(todo)
           t == Step(model, cur, a0)
<1>1. Range(todo) = {a0} \cup Range(todo')
  BY RangeTail DEF a0, TryAction, TypeOK
<1> HIDE DEF a0, t
<1>0. cur \in Reachable(model) /\ (t # None => t \in Reachable(model))
  <2>1. cur \in Reachable(model) /\ a0 \in Range(Enabled(model, cur))
    BY <1>1 DEF TryAction, Worklist
  <2>. QED BY <2>1, ReachableStep DEF t, TypeOK
<1>2. ASSUME NEW s \in seen, NEW a \in Range(Enabled(model, s)), ~truncated,
             s \notin Range(queue), s = cur => a \notin Range(todo')
      PROVE  Step(model, s, a) \in seen \cup {None} \/ (s = cur /\ a = a0)
  BY <1>1, <1>2 DEF Expanded, Tried
<1>3. CASE Pass(t)
  <2>1. seen' = seen /\ queue' = queue /\ truncated' = truncated
    BY <1>3 DEF Pass
  <2>2. truncated \/ t \in seen \cup {None}
    BY <1>3 DEF Pass, Fresh
  <2>3. Expanded'
    BY <1>2, <2>1, <2>2 DEF Expanded, Tried, TryAction, t
  <2>. QED BY <1>1, <2>1, <2>3 DEF TryAction, Worklist, Dropped, Finished
<1>4. CASE Drop(t)
  <2>1. t \in Reachable(model) /\ t \notin seen /\ Cardinality(seen) >= bound
    <3>1. t # None /\ t \notin seen /\ Cardinality(seen) >= bound
      BY <1>4 DEF Drop, MustDrop, Fresh, AtCeiling
    <3>. QED BY <3>1, <1>0
  <2>2. truncated' /\ seen' = seen /\ queue' = queue
    BY <1>4 DEF Drop
  <2>. QED BY <1>1, <2>1, <2>2 DEF TryAction, Worklist, Expanded, Dropped, Finished
<1>5. CASE Discover(t)
  <2>1. t \in Reachable(model) /\ t \notin seen /\ ~(Cardinality(seen) >= bound)
    <3>1. t # None /\ t \notin seen /\ ~(Cardinality(seen) >= bound)
      BY <1>5 DEF Discover, Fresh, AtCeiling
    <3>. QED BY <3>1, <1>0
  <2>2. ~truncated /\ ~truncated' /\ seen' = seen \cup {t}
    BY <1>5, <2>1 DEF Discover, Dropped
  <2>3. Range(queue') = Range(queue) \cup {t}
    BY <1>5, <2>1, RangeAppend DEF Discover, Reachable, TypeOK
  <2>4. Worklist'
    BY <1>1, <2>1, <2>2, <2>3, FS_AddElement DEF TryAction, Worklist
  <2>5. Expanded'
    BY <1>2, <2>2, <2>3 DEF Expanded, Tried, TryAction, t
  <2>6. Dropped' /\ Finished'
    BY <2>2 DEF TryAction, Dropped, Finished
  <2>. QED BY <2>4, <2>5, <2>6
<1>. QED BY <1>3, <1>4, <1>5 DEF TryAction, t, a0

LEMMA NextStateStep == ExplorerInv /\ TypeOK' /\ NextState => ExplorerInv'
<1> SUFFICES ASSUME ExplorerInv, TypeOK', NextState PROVE ExplorerInv'
  OBVIOUS
<1> USE DEF ExplorerInv
<1>1. Range(todo) = {}
  BY DEF NextState, Range
<1>2. Worklist' /\ Dropped' /\ Finished'
  BY DEF NextState, Worklist, Dropped, Finished
<1>3. Expanded'
  BY <1>1 DEF NextState, Expanded, Tried
<1>. QED BY <1>2, <1>3

LEMMA ReportStep == ExplorerInv /\ TypeOK' /\ Report => ExplorerInv'
BY DEF ExplorerInv, Report, Worklist, Expanded, Tried, Dropped, Finished, IsDeadlock

LEMMA ExplorerInductive == Spec => []ExplorerInv
<1>1. ExplorerInv /\ TypeOK' /\ [Next]_vars => ExplorerInv'
  <2>1. ExplorerInv /\ TypeOK' /\ UNCHANGED vars => ExplorerInv'
    BY DEF vars, ExplorerInv, Worklist, Expanded, Tried, Dropped, Finished
  <2>. QED
    BY <2>1, PopFrontStep, TryActionStep, NextStateStep, ReportStep DEF Next
<1>. QED BY InitExplorerInv, <1>1, ExplorerTyped, PTL DEF Spec

-----------------------------------------------------------------------------
(* check.rs:46-51: when it returns and is not truncated, the explorer has  *)
(* met exactly the reachable states.                                       *)
LEMMA DoneIsClosed ==
  ExplorerInv /\ phase = "done" /\ ~truncated => seen = Reachable(model)
<1> SUFFICES ASSUME ExplorerInv, phase = "done", ~truncated PROVE seen = Reachable(model)
  OBVIOUS
<1> USE DEF ExplorerInv
<1>1. Range(queue) = {}
  BY DEF Finished, Range
<1>2. ASSUME NEW s \in seen, NEW a \in Range(Enabled(model, s))
      PROVE  Step(model, s, a) \in seen \cup {None}
  <2>1. s # cur
    BY NoneAssumption DEF Finished, TypeOK
  <2>. QED BY <1>1, <1>2, <2>1 DEF Expanded, Tried
<1>3. ClosedUnderStep(model, seen)
  BY <1>2 DEF ClosedUnderStep
<1>. QED BY <1>3, ReachableLeast DEF Worklist, TypeOK

THEOREM Exact == Spec => []ExactUnlessTruncated
<1>1. ExplorerInv => ExactUnlessTruncated
  BY DoneIsClosed DEF ExactUnlessTruncated
<1>. QED BY <1>1, ExplorerInductive, PTL

(* The truncation flag never lies, in either direction, whatever the bound.*)
THEOREM Honest == Spec => []TruncationIsHonest
<1>1. ExplorerInv => TruncationIsHonest
  <2> SUFFICES ASSUME ExplorerInv, phase = "done"
               PROVE  truncated <=> seen # Reachable(model)
    BY DEF TruncationIsHonest
  <2>1. truncated => seen # Reachable(model)
    BY DEF ExplorerInv, Dropped
  <2>2. ~truncated => seen = Reachable(model)
    BY DoneIsClosed
  <2>. QED BY <2>1, <2>2 DEF ExplorerInv, TypeOK
<1>. QED BY <1>1, ExplorerInductive, PTL

(* A green verdict covers every reachable state of the model.              *)
THEOREM VerdictSound == Spec => []SafeIsSound
<1>1. ExplorerInv => SafeIsSound
  <2> SUFFICES ASSUME ExplorerInv, phase = "done", ~truncated, report.violations = {},
                      NEW s \in Reachable(model)
               PROVE  ~Forbidden(model, s)
    BY DEF SafeIsSound, Safe
  <2>1. s \in seen
    BY DoneIsClosed
  <2>. QED BY <2>1 DEF ExplorerInv, Finished
<1>. QED BY <1>1, ExplorerInductive, PTL

(* Every violation and deadlock of a report is genuine, even a partial one.*)
THEOREM Genuine == Spec => []FindingsAreReal
<1>1. ExplorerInv => FindingsAreReal
  BY DEF ExplorerInv, Worklist, Finished, FindingsAreReal
<1>. QED BY <1>1, ExplorerInductive, PTL

-----------------------------------------------------------------------------
(* `lift model`.                                                          *)
Label == Verbs \cup {"idle", "load", "theory", "emit", "elaborate"}

CliTypeOK ==
  /\ call \in [verb : Verbs, spec : Specs] \cup {Nothing}
  /\ at \in Label
  /\ source \in [Theory -> Nat \ {Partial}]
  /\ olean \in [Theory -> Nat \cup {Nothing}]
  /\ dated \in [Theory -> BOOLEAN]
  /\ proof \in [Stems -> Specs \cup {Nothing}]

(* A command is where its verb leads.                                      *)
Placed ==
  /\ at # "idle" \/ exit # Nothing => call \in [verb : Verbs, spec : Specs]
  /\ at \in Verbs => call.verb = at
  /\ at \in {"theory", "emit", "elaborate"} => call.verb = "prove"
  /\ at # "idle" => exit = Nothing

(* Past the dispatch, the file is one that the command takes.              *)
Admitted ==
  at \notin {"idle", "load"} => call.spec.parses /\ Applies(call.verb, call.spec)

(* A compiled module that its date says is current, is: or it is half of   *)
(* one, and Lean refuses it.  The theory is up to date from the moment it  *)
(* has been gone through until Lean has run.                               *)
Dated ==
  /\ \A t \in Theory : dated[t] => olean[t] \in {source[t], Partial}
  /\ at \in {"emit", "elaborate"} => \A t \in Theory : ~stale(t)

(* Lean is given the proof of the file of this call.                       *)
OwnProof == at = "elaborate" => proof[call.spec.stem] = call.spec

CliInv == CliTypeOK /\ Placed /\ Admitted /\ Dated /\ OwnProof /\ ReportIsTrue /\ ExitIsEarned

LEMMA ImportsAreThere ==
  ASSUME TheoryAssumption, NEW f \in Specs
  PROVE  Imports(f) \subseteq Theory
BY DEF TheoryAssumption, Imports

LEMMA InitCliInv == TheoryAssumption /\ CliInit => CliInv
<1> SUFFICES ASSUME TheoryAssumption, CliInit PROVE CliInv
  OBVIOUS
<1>1. CliTypeOK
  BY DEF CliInit, CliTypeOK, Label, Partial
<1>2. Placed /\ Admitted /\ OwnProof /\ ReportIsTrue /\ ExitIsEarned
  BY DEF CliInit, Placed, Admitted, OwnProof, ReportIsTrue, ExitIsEarned, Verbs, TheoryAssumption
<1>3. Dated
  BY DEF CliInit, Dated, Partial
<1>. QED BY <1>1, <1>2, <1>3 DEF CliInv

-----------------------------------------------------------------------------
(* No report is written but by the three commands that have one.           *)
LEMMA QuietStep ==
  ASSUME TheoryAssumption, CliInv,
         Invoke \/ Load \/ prove_cmd \/ ensure_models_lib \/ EmitProof \/ simulate_cmd
           \/ export_cmd \/ Kill \/ Edit
  PROVE  CliInv'
<1>1. ReportIsTrue'
  BY DEF CliInv, ReportIsTrue, Invoke, Load, prove_cmd, ensure_models_lib, EmitProof, simulate_cmd,
         export_cmd, Kill, Edit, disk
<1>2. ExitIsEarned'
  BY DEF CliInv, Placed, Admitted, ExitIsEarned, Verbs, TheoryAssumption, Exit, Invoke, Load, prove_cmd,
         ensure_models_lib, EmitProof, simulate_cmd, export_cmd, Kill, Edit
<1>4. Admitted'
  BY DEF CliInv, Placed, Admitted, Verbs, Exit, Invoke, Load, prove_cmd, ensure_models_lib,
         EmitProof, simulate_cmd, export_cmd, Kill, Edit
<1>3. CliTypeOK' /\ Placed' /\ Dated' /\ OwnProof'
  <2>. USE DEF CliInv, CliTypeOK, Placed, Dated, OwnProof, Label, Verbs, stale
  <2>1. CASE Invoke
    BY <2>1 DEF Invoke, disk
  <2>2. CASE Load
    BY <2>2 DEF Load, Exit, disk
  <2>3. CASE prove_cmd
    BY <2>3 DEF prove_cmd, disk
  <2>4. CASE ensure_models_lib
    <3>1. CASE Exit(2) /\ UNCHANGED <<olean, dated>>
      BY <2>4, <3>1 DEF ensure_models_lib, Exit
    <3>2. CASE (\A t \in Theory : ~stale(t)) /\ at' = "emit" /\ UNCHANGED <<olean, dated, exit>>
      BY <2>4, <3>2 DEF ensure_models_lib
    <3>3. ASSUME NEW t \in Theory,
                 olean' = [olean EXCEPT ![t] = source[t]], dated' = [dated EXCEPT ![t] = TRUE],
                 UNCHANGED <<at, exit>>
          PROVE  CliTypeOK' /\ Placed' /\ Dated' /\ OwnProof'
      <4>1. CliTypeOK' /\ Placed' /\ OwnProof'
        BY <2>4, <3>3 DEF ensure_models_lib
      <4>2. Dated'
        BY <2>4, <3>3 DEF ensure_models_lib
      <4>. QED BY <4>1, <4>2
    <3>. QED BY <2>4, <3>1, <3>2, <3>3 DEF ensure_models_lib
  <2>5. CASE EmitProof
    <3>1. call.spec.stem \in Stems /\ call.spec \in Specs
      BY <2>5 DEF EmitProof, Stems
    <3>2. CliTypeOK'
      BY <2>5, <3>1 DEF EmitProof, Exit
    <3>3. Placed' /\ Dated'
      BY <2>5 DEF EmitProof, Exit
    <3>4. OwnProof'
      BY <2>5, <3>1 DEF EmitProof, Exit
    <3>. QED BY <3>2, <3>3, <3>4
  <2>6. CASE simulate_cmd
    BY <2>6 DEF simulate_cmd, Exit, disk
  <2>7. CASE export_cmd
    BY <2>7 DEF export_cmd, Exit, disk
  <2>8. CASE Kill
    <3>1. CASE UNCHANGED <<olean, dated>>
      BY <2>8, <3>1 DEF Kill
    <3>2. ASSUME NEW t \in Theory,
                 olean' = [olean EXCEPT ![t] = Partial], dated' = [dated EXCEPT ![t] = TRUE]
          PROVE  CliTypeOK' /\ Placed' /\ Dated' /\ OwnProof'
      BY <2>8, <3>2 DEF Kill, Partial
    <3>. QED BY <2>8, <3>1, <3>2 DEF Kill
  <2>9. CASE Edit
    <3>1. PICK t \in Theory : /\ source' = [source EXCEPT ![t] = @ + 1]
                              /\ dated' = [dated EXCEPT ![t] = FALSE]
      BY <2>9 DEF Edit
    <3>. QED BY <2>9, <3>1 DEF Edit, Partial
  <2>. QED BY <2>1, <2>2, <2>3, <2>4, <2>5, <2>6, <2>7, <2>8, <2>9
<1>. QED BY <1>1, <1>2, <1>3, <1>4 DEF CliInv

LEMMA CheckStep == ASSUME TheoryAssumption, CliInv, check_cmd PROVE CliInv'
<1>1. at = "check" /\ call \in [verb : Verbs, spec : Specs] /\ call.verb = "check"
  BY DEF CliInv, check_cmd, Placed, Verbs
<1>2. CliTypeOK' /\ Placed' /\ Admitted' /\ Dated' /\ OwnProof'
  BY <1>1 DEF CliInv, CliTypeOK, Placed, Admitted, Dated, OwnProof, Label, Verbs, stale, check_cmd, Exit
<1>3. ExitIsEarned'
  BY <1>1 DEF CliInv, Admitted, ExitIsEarned, check_cmd, Exit
<1>4. ReportIsTrue'
  <2>1. CASE kept' = kept
    BY <2>1 DEF CliInv, ReportIsTrue
  <2>2. CASE Reported(printed', Nothing) /\ printed' = IF safe(call.spec) THEN "M1_checked" ELSE "M0_modelled"
    BY <1>1, <2>1, <2>2 DEF ReportIsTrue, Reported, Merits, safe
  <2>. QED BY <2>1, <2>2 DEF check_cmd
<1>. QED BY <1>2, <1>3, <1>4 DEF CliInv

(* Lean closes a proof only over whole modules, of a theorem that holds.   *)
LEMMA ElaborateStep == ASSUME TheoryAssumption, CliInv, Elaborate PROVE CliInv'
<1>1. at = "elaborate" /\ call \in [verb : Verbs, spec : Specs] /\ call.verb = "prove"
  BY DEF CliInv, Elaborate, Placed
<1>2. proof[call.spec.stem] = call.spec
  BY <1>1 DEF CliInv, OwnProof
<1>3. CliTypeOK' /\ Placed' /\ Admitted' /\ Dated' /\ OwnProof'
  BY <1>1 DEF CliInv, CliTypeOK, Placed, Admitted, Dated, OwnProof, Label, Verbs, stale, Elaborate, Exit
<1>4. CASE exit' = 2 /\ UNCHANGED <<printed, kept>>
  BY <1>1, <1>3, <1>4 DEF CliInv, ReportIsTrue, ExitIsEarned, Elaborate
<1>5. ASSUME NEW o \in LeanSays,
             printed' = CASE o = "rejects" -> "M1_checked"
                          [] o = "sorry"   -> "M2_unverified"
                          [] o = "closes"  -> "M3_proved",
             Reported(IF o = "closes" THEN "M3_proved" ELSE "M2_unverified", Nothing),
             Exit(IF o = "closes" THEN 0 ELSE 1)
      PROVE  CliInv'
  <2>1. o = "closes" => call.spec.provable
    BY <1>2, <1>5 DEF LeanSays
  <2>2. ReportIsTrue'
    BY <1>1, <1>5, <2>1 DEF CliInv, ReportIsTrue, Reported, Merits
  <2>3. ExitIsEarned'
    BY <1>1, <1>5, <2>1 DEF CliInv, Admitted, Elaborate, ExitIsEarned, Exit
  <2>. QED BY <1>3, <2>2, <2>3 DEF CliInv
<1>. QED BY <1>4, <1>5 DEF Elaborate, Exit

(* PRISM's answers count as a check only if there is one for every query.  *)
LEMMA PrismStep == ASSUME TheoryAssumption, CliInv, prism_cmd PROVE CliInv'
<1>1. at = "prism" /\ call \in [verb : Verbs, spec : Specs] /\ call.verb = "prism"
  BY DEF CliInv, prism_cmd, Placed, Verbs
<1>2. CliTypeOK' /\ Placed' /\ Admitted' /\ Dated' /\ OwnProof' /\ ExitIsEarned'
  BY <1>1 DEF CliInv, CliTypeOK, Placed, Admitted, Dated, OwnProof, ExitIsEarned, Label, Verbs, stale, prism_cmd, Exit
<1>3. CASE kept' = kept
  BY <1>2, <1>3 DEF CliInv, ReportIsTrue
<1>4. ASSUME Reported("M2_measured", [verdict |-> "self_checked", agreed |-> 0])
      PROVE  ReportIsTrue'
  BY <1>1, <1>4 DEF CliInv, ReportIsTrue, Reported, Merits
<1>5. ASSUME NEW n \in 0..2, NEW k \in 0..n,
             Reported("M2_measured", [verdict |-> run_prism_and_diff(n, k), agreed |-> k])
      PROVE  ReportIsTrue'
  BY <1>1, <1>5 DEF CliInv, ReportIsTrue, Reported, Merits, run_prism_and_diff
<1>. QED BY <1>2, <1>3, <1>4, <1>5 DEF CliInv, prism_cmd

LEMMA NextCliInv == TheoryAssumption /\ CliInv /\ [CliNext]_cli => CliInv'
<1> SUFFICES ASSUME TheoryAssumption, CliInv, [CliNext]_cli PROVE CliInv'
  OBVIOUS
<1>1. CASE UNCHANGED cli
  BY <1>1 DEF cli, CliInv, CliTypeOK, Placed, Admitted, Dated, OwnProof, ReportIsTrue, ExitIsEarned, stale
<1>. QED BY <1>1, QuietStep, CheckStep, ElaborateStep, PrismStep DEF CliNext

LEMMA CliInductive == ASSUME TheoryAssumption PROVE CliSpec => []CliInv
BY InitCliInv, NextCliInv, PTL DEF CliSpec

(* The report on disk is true of the file it names, and an exit 0 is       *)
(* earned by the file of that call, whatever was left behind               *)
(* (report.rs:5-8, mod.rs:91-470, 644-740).                                *)
THEOREM VerdictEarned == ASSUME TheoryAssumption PROVE CliSpec => []VerdictIsEarned
<1>1. CliInv => VerdictIsEarned
  BY DEF CliInv, VerdictIsEarned
<1>. QED BY <1>1, CliInductive, PTL

(* A proof is only reported closed over modules compiled from the sources  *)
(* as they are, however they were edited and whatever compiler was killed  *)
(* (mod.rs:798-832).                                                       *)
THEOREM Current == ASSUME TheoryAssumption PROVE CliSpec => TheoryIsCurrent
<1>1. ASSUME CliInv, Elaborate, printed' = "M3_proved"
      PROVE  printed = "M3_proved" \/ \A t \in Imports(call.spec) : olean[t] = source[t]
  <2>1. call \in [verb : Verbs, spec : Specs]
    BY <1>1 DEF CliInv, Placed, Elaborate
  <2>2. CASE "closes" \in LeanSays
    <3>1. \A t \in Imports(call.spec) : olean[t] \notin {Nothing, Partial}
      BY <2>2 DEF LeanSays, TheoryWhole
    <3>2. \A t \in Imports(call.spec) : t \in Theory /\ ~stale(t)
      BY <1>1, <2>1, ImportsAreThere DEF CliInv, Dated, Elaborate
    <3>. QED BY <1>1, <3>1, <3>2 DEF CliInv, Dated, stale
  <2>3. CASE "closes" \notin LeanSays
    BY <1>1, <2>3 DEF Elaborate, LeanSays
  <2>. QED BY <2>2, <2>3
<1>2. ASSUME CliInv, [CliNext]_cli
      PROVE  [printed' = "M3_proved" /\ printed # "M3_proved" =>
                \A t \in Imports(call.spec) : olean[t] = source[t]]_cli
  <2>1. CASE ~Elaborate
    BY <1>2, <2>1 DEF CliNext, Invoke, Load, check_cmd, prove_cmd, ensure_models_lib, EmitProof,
       simulate_cmd, export_cmd, prism_cmd, Kill, Edit, cli
  <2>. QED BY <1>1, <1>2, <2>1
<1>. QED BY <1>2, CliInductive, PTL DEF CliSpec, TheoryIsCurrent

-----------------------------------------------------------------------------
(* `lift prove`, with any failure of Charon, Aeneas or Lean.               *)
Stage == {"idle", "translate", "charon", "aeneas", "elaborate", "report"}

Subject == stage \in Stage /\ (stage # "idle" => subject \in Examples /\ subject.frag # Absent /\ ended = Absent)

(* The crate, and then the module, are of the example under way: the       *)
(* translation removes an older .llbc, and the directory is emptied.       *)
OwnFiles ==
  /\ stage = "charon" /\ subject.lane # "rust" => llbc = Absent
  /\ stage = "aeneas" /\ subject.lane # "rust" => llbc = subject.name
  /\ stage \in {"elaborate", "report"} => extract = origin(subject)

(* Between Lean and the certificate the report is that of this call.       *)
Reporting ==
  stage = "report" =>
    /\ rep.of = origin(subject)
    /\ level = IF rep.sorry_free THEN "L3_proved" ELSE "L2_unverified"

PInv == Subject /\ OwnFiles /\ Reporting /\ ProvedIsEarned

(* What no `sorry` reaches, of proofs that Lean took, is closed.           *)
LEMMA SorryFreeIsClosed ==
  ASSUME FragmentAssumption, NEW x \in Examples, x.frag # Absent,
         \A t \in Range(x.frag.theorems) : x.frag.proof[t] # "broken",
         \A t \in x.frag.audited : SorryFree(x.frag, t)
  PROVE  Earned(x, origin(x))
<1>1. ASSUME NEW t \in x.frag.audited, NEW u \in RestsOn(x.frag, t)
      PROVE  x.frag.proof[u] = "closed"
  <2>1. u \in Range(x.frag.theorems)
    BY <1>1 DEF RestsOn
  <2>2. x.frag.proof[u] # "sorry"
    BY <1>1 DEF SorryFree
  <2>. QED BY <2>1, <2>2 DEF FragmentAssumption
<1>. QED BY <1>1 DEF Earned

LEMMA InitPInv == FragmentAssumption /\ ProveInit => PInv
BY DEF FragmentAssumption, ProveInit, PInv, Stage, Subject, OwnFiles, Reporting, ProvedIsEarned

LEMMA LeanStep == ASSUME FragmentAssumption, PInv, prove_aeneas PROVE PInv'
<1>1. /\ stage = "elaborate" /\ subject \in Examples /\ subject.frag # Absent
      /\ ended = Absent /\ extract = origin(subject)
  BY DEF prove_aeneas, PInv, Subject, OwnFiles
<1>2. CASE Leave(1) /\ level' = "L1" /\ UNCHANGED rep
  BY <1>1, <1>2 DEF prove_aeneas, PInv, Subject, OwnFiles, Reporting, ProvedIsEarned, Leave, Stage
<1>3. CASE /\ \A t \in Range(subject.frag.theorems) : subject.frag.proof[t] # "broken"
           /\ rep' = [theorems |-> subject.frag.theorems, of |-> extract,
                      sorry_free |-> \A t \in subject.frag.audited : SorryFree(subject.frag, t)]
           /\ level' = IF rep'.sorry_free THEN "L3_proved" ELSE "L2_unverified"
           /\ stage' = "report" /\ UNCHANGED ended
  <2>1. Subject' /\ OwnFiles'
    BY <1>1, <1>3 DEF prove_aeneas, Subject, OwnFiles, Stage
  <2>2. rep'.of = origin(subject)
    BY <1>1, <1>3
  <2>3. Reporting'
    BY <1>3, <2>2 DEF Reporting, prove_aeneas
  <2>4. level' = "L3_proved" => Earned(subject, rep'.of)
    BY <1>1, <1>3, <2>2, SorryFreeIsClosed
  <2>5. ProvedIsEarned'
    BY <1>1, <1>3, <2>4 DEF prove_aeneas, ProvedIsEarned, PInv, FragmentAssumption
  <2>. QED BY <2>1, <2>3, <2>5 DEF PInv
<1>. QED BY <1>2, <1>3 DEF prove_aeneas

LEMMA NextPInv == FragmentAssumption /\ PInv /\ [ProveNext]_proving => PInv'
<1> SUFFICES ASSUME FragmentAssumption, PInv, [ProveNext]_proving PROVE PInv'
  OBVIOUS
<1>. USE DEF PInv, Subject, OwnFiles, Reporting, ProvedIsEarned, Stage, FragmentAssumption, Leave
<1>1. CASE StartProof
  BY <1>1 DEF StartProof
<1>2. CASE Translate
  BY <1>2 DEF Translate
<1>3. CASE Charon
  BY <1>3 DEF Charon
<1>4. CASE Aeneas
  BY <1>4 DEF Aeneas, Emptied, origin
<1>5. CASE prove_aeneas
  BY <1>5, LeanStep
<1>6. CASE Certify
  BY <1>6 DEF Certify
<1>7. CASE KillProof
  BY <1>7 DEF KillProof
<1>8. CASE UNCHANGED proving
  BY <1>8 DEF proving
<1>. QED BY <1>1, <1>2, <1>3, <1>4, <1>5, <1>6, <1>7, <1>8 DEF ProveNext

(* Level L3, on the terminal or in proof.json, is about the definition     *)
(* extracted from that very example, whatever earlier or killed calls left *)
(* in the work directory, and rests on closed proofs only; nothing but L3  *)
(* and a skip exits 0 (prove.rs:72-75, frontend.rs:353-356).               *)
THEOREM ProofEarned == ASSUME FragmentAssumption PROVE ProveSpec => []ProvedIsEarned
<1>1. PInv => ProvedIsEarned
  BY DEF PInv
<1>. QED BY <1>1, InitPInv, NextPInv, PTL DEF ProveSpec

-----------------------------------------------------------------------------
(* The line of the report on a lossy net: any places, weights and marking. *)
(* Firing gives a marking again.                                           *)
LEMMA FireType ==
  ASSUME NEW m \in [Place -> Nat], NEW t \in Trans \cup Loss
  PROVE  fire(m, t) \in [Place -> Nat]
<1>1. ASSUME NEW p \in Place PROVE Monus(m[p], pre[t][p]) + post[t][p] \in Nat
  BY NetAssumption DEF Monus
<1>. QED BY <1>1 DEF fire

(* Firing is monotone in the marking, and a loss only removes tokens.      *)
LEMMA FireMonotone ==
  ASSUME NEW m \in [Place -> Nat], NEW n \in [Place -> Nat],
         \A p \in Place : m[p] <= n[p], NEW t \in Trans \cup Loss, EnabledIn(m, t)
  PROVE  EnabledIn(n, t) /\ \A p \in Place : fire(m, t)[p] <= fire(n, t)[p]
<1>1. ASSUME NEW p \in Place
      PROVE  pre[t][p] <= n[p] /\ fire(m, t)[p] <= fire(n, t)[p]
  BY NetAssumption DEF EnabledIn, fire, Monus
<1>. QED BY <1>1 DEF EnabledIn

LEMMA LossDecreases ==
  ASSUME NEW m \in [Place -> Nat], NEW t \in Loss
  PROVE  \A p \in Place : fire(m, t)[p] <= m[p]
BY NetAssumption, LossAssumption DEF fire, Monus

(* The two markings stay counts of tokens, even where Lean's subtraction   *)
(* truncates.                                                              *)
THEOREM TokensCounted == LossySpec => []MarkingsOK
<1>1. LossyInit => MarkingsOK
  BY NetAssumption DEF LossyInit, MarkingsOK
<1>2. MarkingsOK /\ [LossyNext]_lossy => MarkingsOK'
  BY FireType DEF MarkingsOK, LossyNext, Fire, Lose, lossy
<1>. QED BY <1>1, <1>2, PTL DEF LossySpec

(* Every marking of the lossy net is covered by the loss-free run.         *)
THEOREM LossMonotone == LossySpec => []Covered
<1>1. LossyInit => Covered
  BY NetAssumption DEF LossyInit, Covered
<1>2. MarkingsOK /\ MarkingsOK' /\ Covered /\ [LossyNext]_lossy => Covered'
  <2> SUFFICES ASSUME MarkingsOK, MarkingsOK', Covered, [LossyNext]_lossy PROVE Covered'
    OBVIOUS
  <2>1. ASSUME NEW t \in Trans, Fire(t) PROVE Covered'
    BY <2>1, FireMonotone DEF Fire, Covered, MarkingsOK
  <2>2. ASSUME NEW t \in Loss, Lose(t) PROVE Covered'
    <3>1. \A p \in Place : marking'[p] <= marking[p]
      BY <2>2, LossDecreases DEF Lose, MarkingsOK
    <3>. QED BY <2>2, <3>1 DEF Lose, Covered, MarkingsOK
  <2>3. CASE UNCHANGED lossy
    BY <2>3 DEF lossy, Covered
  <2>. QED BY <2>1, <2>2, <2>3 DEF LossyNext
<1>. QED BY <1>1, <1>2, TokensCounted, PTL DEF LossySpec

(* ... and that run never takes a disabled transition.                     *)
THEOREM LossFreeRun == LossySpec => IdealIsARun
<1>1. MarkingsOK /\ Covered /\ [LossyNext]_lossy
        => [\A t \in Trans : Fire(t) => EnabledIn(ideal, t)]_lossy
  BY FireMonotone DEF Fire, Covered, MarkingsOK
<1>. QED BY <1>1, TokensCounted, LossMonotone, PTL DEF LossySpec, IdealIsARun

-----------------------------------------------------------------------------
(* What a verdict of `lift verify` is about, for any processes, examples,  *)
(* definitions and lanes, and any number of kills and failures, for an     *)
(* invocation that no other overlaps; and what the cache holds whatever    *)
(* overlaps.  Variables keep their types in any case.                      *)
Asking ==
  \A p \in Proc : /\ pc[p] \in {"query", "ask", "create", "fill"} => prompt[p] \in Prompt
                  /\ pc[p] \in {"create", "fill"} => def[p] \in Def

LEMMA FrontendIsALabel ==
  ASSUME NEW p \in Proc, kind \in [Proc -> Kinds]
  PROVE  Frontend(p) \in {"lane", "charon", "translate", "given"}
BY DEF Frontend, Kinds

LEMMA InitTyped == VerifyInit => VerifyTypeOK /\ Asking
BY ItersAssumption DEF VerifyInit, VerifyTypeOK, Asking, Labels, WorkDir, RunMap, NoRun

(* A repair asks again or gives up; either way the loop goes on typed.     *)
LEMMA RepairTyped ==
  ASSUME NEW p \in Proc, VerifyTypeOK, NEW why \in {"elaboration", "mismatch"}, Repair(p, why)
  PROVE  /\ pc' \in [Proc -> Labels]
         /\ iter' \in [Proc -> 0..MaxIters]
         /\ prompt' \in [Proc -> Prompt \cup {NoDef}]
         /\ pc'[p] = "query" => prompt'[p] \in Prompt
         /\ pc'[p] \notin {"ask", "create", "fill"}
         /\ \A q \in Proc \ {p} : pc'[q] = pc[q] /\ prompt'[q] = prompt[q]
<1>1. CASE iter[p] = MaxIters
  BY <1>1, ItersAssumption DEF Repair, VerifyTypeOK, Goto, Labels
<1>2. CASE iter[p] # MaxIters
  <2>1. iter[p] + 1 \in 0..MaxIters
    BY <1>2, ItersAssumption DEF VerifyTypeOK
  <2>2. [lane |-> lane[p], ex |-> ex[p], prev |-> def[p], why |-> why] \in Prompt
    BY DEF VerifyTypeOK, Prompt
  <2>. QED BY <1>2, <2>1, <2>2 DEF Repair, Ask, VerifyTypeOK, Goto, Labels
<1>. QED BY <1>1, <1>2

LEMMA LeanErrorTyped ==
  ASSUME NEW p \in Proc, VerifyTypeOK, LeanError(p)
  PROVE  /\ pc' \in [Proc -> Labels]
         /\ iter' \in [Proc -> 0..MaxIters]
         /\ prompt' \in [Proc -> Prompt \cup {NoDef}]
         /\ verdict' \in [Proc -> {"L1", "L0", "failed", "skipped", "none"}]
         /\ pc'[p] = "query" => prompt'[p] \in Prompt
         /\ pc'[p] \notin {"ask", "create", "fill"}
         /\ \A q \in Proc \ {p} : pc'[q] = pc[q] /\ prompt'[q] = prompt[q]
<1>1. CASE iter[p] > 0
  <2>1. Repair(p, "elaboration") /\ UNCHANGED verdict
    BY <1>1 DEF LeanError
  <2>. QED BY <2>1, RepairTyped DEF VerifyTypeOK
<1>2. CASE ~(iter[p] > 0)
  BY <1>2 DEF LeanError, EndWith, Goto, VerifyTypeOK, Labels
<1>. QED BY <1>1, <1>2

LEMMA StepTyped ==
  ASSUME NEW p \in Proc, VerifyTypeOK, Asking, StepOf(p)
  PROVE  VerifyTypeOK' /\ Asking'
<1>. USE DEF VerifyTypeOK, Asking, Goto, Labels, WorkDir, local, history
<1>1. CASE EnsureSupportLib(p)  BY <1>1 DEF EnsureSupportLib, EndWith
<1>2. CASE WriteVectors(p)      BY <1>2 DEF WriteVectors
<1>3. CASE BuildOracle(p)       BY <1>3 DEF BuildOracle, EndWith
<1>4. CASE RunOracle(p)
  <2>1. [of |-> work.oracle, on |-> work.vectors] \in RunMap
    BY DEF RunMap
  <2>. QED BY <1>4, <2>1, FrontendIsALabel DEF RunOracle, EndWith
<1>5. CASE Prewritten(p)        BY <1>5 DEF Prewritten
<1>6. CASE TranslateSource(p)         BY <1>6 DEF TranslateSource, StaleLlbc, EndWith
<1>7. CASE RunCharon(p)            BY <1>7 DEF RunCharon, EndWith
<1>8. CASE RunAeneas(p)            BY <1>8 DEF RunAeneas, Llbc, Cleared
<1>9. CASE Slice(p)             BY <1>9, DefAssumption DEF Slice, EndWith
<1>10. CASE ResolveLane(p)
  <2>1. [lane |-> lane[p], ex |-> ex[p], prev |-> NoDef, why |-> "translate"] \in Prompt
    BY DEF Prompt
  <2>. QED BY <1>10, <2>1, ItersAssumption DEF ResolveLane, Ask, EndWith
<1>11. CASE CacheHit(p)
  <2>1. \A c \in Hits(Key(p)) : Reads(c[2]) \subseteq Def \cup {NoDef}
    BY DEF Hits, Reads
  <2>. QED BY <1>11, <2>1 DEF CacheHit
<1>12. CASE CacheMiss(p)        BY <1>12 DEF CacheMiss
<1>13. CASE QueryLane(p)        BY <1>13 DEF QueryLane, EndWith
<1>14. CASE CreateEntry(p)
  <2>1. Entry(p, {}) \subseteq Prompt \X SUBSET Def
    BY <1>14 DEF CreateEntry, Entry, Key
  <2>. QED BY <1>14, <2>1 DEF CreateEntry
<1>15. CASE FillEntry(p)
  <2>1. Entry(p, {def[p]}) \subseteq Prompt \X SUBSET Def
    BY <1>15 DEF FillEntry, Entry, Key
  <2>2. \A c \in Hits(Key(p)) : Entry(p, c[2] \cup {def[p]}) \subseteq Prompt \X SUBSET Def
    BY <1>15 DEF FillEntry, Entry, Key, Hits
  <2>. QED BY <1>15, <2>1, <2>2 DEF FillEntry
<1>16. CASE WriteCandidate(p)   BY <1>16 DEF WriteCandidate
<1>17. CASE LeanVectors(p)      BY <1>17 DEF LeanVectors
<1>18. CASE LeanRejects(p)
  <2>1. LeanError(p)
    BY <1>18 DEF LeanRejects
  <2>2. UNCHANGED <<ex, kind, lane, cpp, def, attempt, results, work, cache, history>>
    BY <1>18 DEF LeanRejects
  <2>. QED BY <2>1, <2>2, LeanErrorTyped
<1>19. CASE LeanRuns(p)
  <2>1. [of |-> Candidate(p), on |-> work.vectors] \in RunMap
    BY <1>19, DefAssumption DEF LeanRuns, RunMap
  <2>. QED BY <1>19, <2>1 DEF LeanRuns
<1>20. CASE LeanFlakes(p)
  <2>1. CASE attempt[p] < 2
    BY <1>20, <2>1 DEF LeanFlakes, FlakeUsable
  <2>2. CASE ~(attempt[p] < 2)
    <3>1. LeanError(p) /\ UNCHANGED <<attempt, results>>
      BY <1>20, <2>2 DEF LeanFlakes, FlakeUsable
    <3>. QED BY <1>20, <3>1, LeanErrorTyped DEF LeanFlakes
  <2>. QED BY <2>1, <2>2
<1>21. CASE Settle(p)
  <2>1. CASE Conformant(p)
    BY <1>21, <2>1, ItersAssumption DEF Settle
  <2>2. CASE ~Conformant(p)
    <3>1. Repair(p, "mismatch")
      BY <1>21, <2>2 DEF Settle
    <3>. QED BY <1>21, <3>1, RepairTyped DEF Settle
  <2>. QED BY <2>1, <2>2
<1>22. CASE Assess(p)           BY <1>22 DEF Assess, EndWith
<1>. QED
  BY <1>1, <1>2, <1>3, <1>4, <1>5, <1>6, <1>7, <1>8, <1>9, <1>10, <1>11, <1>12, <1>13,
     <1>14, <1>15, <1>16, <1>17, <1>18, <1>19, <1>20, <1>21, <1>22 DEF StepOf

LEMMA NextTyped == VerifyTypeOK /\ Asking /\ [VerifyNext]_verifying => VerifyTypeOK' /\ Asking'
<1> SUFFICES ASSUME VerifyTypeOK, Asking, [VerifyNext]_verifying PROVE VerifyTypeOK' /\ Asking'
  OBVIOUS
<1>1. ASSUME NEW p \in Proc, Start(p) PROVE VerifyTypeOK' /\ Asking'
  <2>1. crowded' \subseteq Proc
    BY <1>1 DEF Start, VerifyTypeOK
  <2>. QED BY <1>1, <2>1 DEF Start, EndWith, Goto, VerifyTypeOK, Asking, Labels
<1>2. ASSUME NEW p \in Proc, Killed(p) PROVE VerifyTypeOK' /\ Asking'
  <2>1. NoRun \in RunMap /\ 0 \in 0..MaxIters
    BY ItersAssumption DEF NoRun, RunMap
  <2>. QED BY <1>2, <2>1 DEF Killed, Goto, VerifyTypeOK, Asking, Labels, history
<1>3. CASE UNCHANGED verifying
  BY <1>3 DEF verifying, local, history, VerifyTypeOK, Asking
<1>. QED BY <1>1, <1>2, <1>3, StepTyped DEF VerifyNext, Done

LEMMA AlwaysTyped == VerifySpec => [](VerifyTypeOK /\ Asking)
BY InitTyped, NextTyped, PTL DEF VerifySpec

(* The types of what processes hold and of the files they share.           *)
THEOREM VerifyTyped == VerifySpec => []VerifyTypeOK
BY AlwaysTyped, PTL

-----------------------------------------------------------------------------
(* A step of one process leaves alone what the others hold.                *)
Same(q) ==
  /\ pc'[q] = pc[q] /\ ex'[q] = ex[q] /\ kind'[q] = kind[q] /\ lane'[q] = lane[q]
  /\ cpp'[q] = cpp[q] /\ def'[q] = def[q] /\ prompt'[q] = prompt[q] /\ iter'[q] = iter[q]
  /\ attempt'[q] = attempt[q] /\ results'[q] = results[q] /\ verdict'[q] = verdict[q]

LEMMA Frame ==
  ASSUME NEW p \in Proc, VerifyTypeOK, Start(p) \/ StepOf(p) \/ Killed(p), NEW q \in Proc \ {p}
  PROVE  Same(q)
<1>. USE DEF Same, VerifyTypeOK, Goto, EndWith, Repair, Ask, local
<1>1. CASE Start(p) \/ Killed(p)
  BY <1>1 DEF Start, Killed
<1>2. CASE EnsureSupportLib(p) \/ WriteVectors(p) \/ BuildOracle(p) \/ RunOracle(p)
  BY <1>2 DEF EnsureSupportLib, WriteVectors, BuildOracle, RunOracle
<1>3. CASE Prewritten(p) \/ TranslateSource(p) \/ RunCharon(p) \/ RunAeneas(p) \/ Slice(p)
  BY <1>3 DEF Prewritten, TranslateSource, RunCharon, RunAeneas, Slice
<1>4. CASE \/ ResolveLane(p) \/ CacheHit(p) \/ CacheMiss(p) \/ QueryLane(p)
           \/ CreateEntry(p) \/ FillEntry(p) \/ WriteCandidate(p)
  BY <1>4 DEF ResolveLane, CacheHit, CacheMiss, QueryLane, CreateEntry, FillEntry, WriteCandidate
<1>5. CASE LeanVectors(p) \/ LeanRuns(p) \/ Assess(p)
  BY <1>5 DEF LeanVectors, LeanRuns, Assess
<1>6. CASE LeanRejects(p)
  BY <1>6 DEF LeanRejects, LeanError
<1>7. CASE LeanFlakes(p)
  BY <1>7 DEF LeanFlakes, LeanError, FlakeUsable
<1>8. CASE Settle(p)
  BY <1>8 DEF Settle
<1>. QED BY <1>1, <1>2, <1>3, <1>4, <1>5, <1>6, <1>7, <1>8 DEF StepOf

(* Only three steps touch the cache, and they follow one another.          *)
LEMMA CacheFrame ==
  ASSUME NEW p \in Proc, VerifyTypeOK, Start(p) \/ StepOf(p) \/ Killed(p),
         ~QueryLane(p), ~CreateEntry(p), ~FillEntry(p)
  PROVE  cache' = cache /\ replied' = replied /\ pc'[p] \notin {"create", "fill"}
<1>. USE DEF VerifyTypeOK, Goto, EndWith, Repair, local, history
<1>1. CASE Start(p) \/ Killed(p)
  BY <1>1 DEF Start, Killed
<1>2. CASE EnsureSupportLib(p) \/ WriteVectors(p) \/ BuildOracle(p)
  BY <1>2 DEF EnsureSupportLib, WriteVectors, BuildOracle
<1>3. CASE RunOracle(p)
  BY <1>3, FrontendIsALabel DEF RunOracle
<1>4. CASE Prewritten(p) \/ TranslateSource(p) \/ RunCharon(p) \/ RunAeneas(p) \/ Slice(p)
  BY <1>4 DEF Prewritten, TranslateSource, RunCharon, RunAeneas, Slice
<1>5. CASE ResolveLane(p) \/ CacheHit(p) \/ CacheMiss(p) \/ WriteCandidate(p)
  BY <1>5 DEF ResolveLane, CacheHit, CacheMiss, WriteCandidate
<1>6. CASE LeanVectors(p) \/ LeanRuns(p) \/ Assess(p)
  BY <1>6 DEF LeanVectors, LeanRuns, Assess
<1>7. CASE LeanRejects(p)
  BY <1>7 DEF LeanRejects, LeanError
<1>8. CASE LeanFlakes(p)
  BY <1>8 DEF LeanFlakes, LeanError, FlakeUsable
<1>9. CASE Settle(p)
  BY <1>9 DEF Settle
<1>. QED BY <1>1, <1>2, <1>3, <1>4, <1>5, <1>6, <1>7, <1>8, <1>9 DEF StepOf

(* A process that takes a step runs, and only a start can crowd others.    *)
LEMMA ActorRuns ==
  ASSUME NEW p \in Proc, StepOf(p) \/ Killed(p)
  PROVE  Running(p) /\ crowded' = crowded
<1>. USE DEF Running, local, history
<1>1. CASE EnsureSupportLib(p) \/ WriteVectors(p) \/ BuildOracle(p) \/ RunOracle(p)
  BY <1>1 DEF EnsureSupportLib, WriteVectors, BuildOracle, RunOracle
<1>2. CASE Prewritten(p) \/ TranslateSource(p) \/ RunCharon(p) \/ RunAeneas(p) \/ Slice(p)
  BY <1>2 DEF Prewritten, TranslateSource, RunCharon, RunAeneas, Slice
<1>3. CASE \/ ResolveLane(p) \/ CacheHit(p) \/ CacheMiss(p) \/ QueryLane(p)
           \/ CreateEntry(p) \/ FillEntry(p) \/ WriteCandidate(p)
  BY <1>3 DEF ResolveLane, CacheHit, CacheMiss, QueryLane, CreateEntry, FillEntry, WriteCandidate
<1>4. CASE LeanVectors(p) \/ LeanRejects(p) \/ LeanRuns(p) \/ LeanFlakes(p)
  BY <1>4 DEF LeanVectors, LeanRejects, LeanRuns, LeanFlakes
<1>5. CASE Settle(p) \/ Assess(p) \/ Killed(p)
  BY <1>5 DEF Settle, Assess, Killed
<1>. QED BY <1>1, <1>2, <1>3, <1>4, <1>5 DEF StepOf

(* No other process runs while one runs that nobody has crowded.           *)
Alone == \A p \in Proc \ crowded : Running(p) => \A q \in Proc \ {p} : ~Running(q)

LEMMA SoloStep ==
  ASSUME VerifyTypeOK, Alone, NEW p \in Proc, Start(p) \/ StepOf(p) \/ Killed(p)
  PROVE  /\ crowded \subseteq crowded'
         /\ \A q \in Proc \ {p} : q \notin crowded' => ~Running(q) /\ ~Running(q)'
         /\ p \notin crowded' => \A q \in Proc \ {p} : ~Running(q) /\ ~Running(q)'
<1>1. \A q \in Proc \ {p} : Running(q)' = Running(q)
  BY Frame DEF Same, Running
<1>2. CASE Start(p)
  BY <1>1, <1>2 DEF Start
<1>3. CASE StepOf(p) \/ Killed(p)
  BY <1>1, <1>3, ActorRuns DEF Alone
<1>. QED BY <1>2, <1>3

LEMMA AloneKept ==
  ASSUME VerifyTypeOK, Alone, NEW p \in Proc, Start(p) \/ StepOf(p) \/ Killed(p)
  PROVE  Alone'
<1> SUFFICES ASSUME NEW r \in Proc \ crowded', Running(r)', NEW q \in Proc \ {r}
             PROVE  ~Running(q)'
  BY DEF Alone
<1>1. r = p
  BY SoloStep
<1>. QED BY <1>1, SoloStep

-----------------------------------------------------------------------------
(* What is about to be written is what the lane has just replied, and an   *)
(* entry that nobody else has been at is still empty.                      *)
Filling == \A p \in Proc : pc[p] \in {"create", "fill"} => <<prompt[p], def[p]>> \in replied
StillEmpty == \A p \in Proc \ crowded : pc[p] = "fill" => \A c \in Hits(prompt[p]) : c[2] = {}

CacheInv == Alone /\ CacheIsKeyed /\ Filling /\ StillEmpty

LEMMA OneIsNotMixed == ~Mixed({}) /\ \A d : ~Mixed({d})
<1>1. ~Mixed({})
  <2>1. Cardinality({}) = 0
    BY FS_EmptySet
  <2>. QED BY <2>1 DEF Mixed
<1>2. ASSUME NEW d PROVE ~Mixed({d})
  <2>1. Cardinality({d}) = 1
    BY FS_Singleton
  <2>. QED BY <2>1 DEF Mixed
<1>. QED BY <1>1, <1>2

(* A new text keeps the cache keyed if it is made of answers to its prompt.*)
LEMMA EntryIsKeyed ==
  ASSUME CacheIsKeyed, NEW p \in Proc, NEW text, cache' = Entry(p, text),
         crowded \subseteq crowded', replied' = replied,
         \A d \in text : <<prompt[p], d>> \in replied, Mixed(text) => crowded' # {}
  PROVE  CacheIsKeyed'
<1> SUFFICES ASSUME NEW c \in cache'
             PROVE  (\A d \in c[2] : <<c[1], d>> \in replied) /\ (Mixed(c[2]) => crowded' # {})
  BY DEF CacheIsKeyed, Mixed
<1>1. CASE c \in cache
  BY <1>1 DEF CacheIsKeyed
<1>2. CASE c = <<prompt[p], text>>
  BY <1>2
<1>. QED BY <1>1, <1>2 DEF Entry, Key

(* Nobody else comes to write an entry by a step of p.                     *)
LEMMA OthersFill ==
  ASSUME NEW p \in Proc, VerifyTypeOK, Filling, Start(p) \/ StepOf(p) \/ Killed(p),
         replied \subseteq replied', NEW q \in Proc \ {p}, pc'[q] \in {"create", "fill"}
  PROVE  <<prompt'[q], def'[q]>> \in replied'
BY Frame DEF Same, Filling

LEMMA CacheStep ==
  ASSUME VerifyTypeOK, Asking, CacheInv, NEW p \in Proc, Start(p) \/ StepOf(p) \/ Killed(p)
  PROVE  CacheInv'
<1>1. Alone' /\ crowded \subseteq crowded'
  BY AloneKept, SoloStep DEF CacheInv
<1>2. ASSUME NEW q \in Proc \ crowded', q # p PROVE pc'[q] # "fill"
  BY <1>2, SoloStep DEF CacheInv, Running
<1>3. CASE QueryLane(p)
  <2>1. cache' = cache /\ replied \subseteq replied'
    BY <1>3 DEF QueryLane
  <2>2. pc'[p] # "fill"
    BY <1>3 DEF QueryLane, EndWith, Goto, VerifyTypeOK
  <2>3. pc'[p] = "create" => <<prompt'[p], def'[p]>> \in replied'
    BY <1>3 DEF QueryLane, EndWith, Goto, VerifyTypeOK
  <2>4. CacheIsKeyed'
    BY <1>1, <2>1 DEF CacheInv, CacheIsKeyed
  <2>5. Filling'
    BY <2>1, <2>2, <2>3, OthersFill DEF CacheInv, Filling
  <2>6. StillEmpty'
    BY <1>2, <2>2 DEF StillEmpty
  <2>. QED BY <1>1, <2>4, <2>5, <2>6 DEF CacheInv
<1>4. CASE CreateEntry(p)
  <2>1. prompt' = prompt /\ def' = def /\ replied' = replied
    BY <1>4 DEF CreateEntry, local, history
  <2>2. pc[p] = "create"
    BY <1>4 DEF CreateEntry
  <2>3. pc'[p] = "fill" => cache' = Entry(p, {})
    BY <1>4 DEF CreateEntry, Goto, VerifyTypeOK
  <2>4. cache' = cache \/ cache' = Entry(p, {})
    BY <1>4 DEF CreateEntry
  <2>5. CacheIsKeyed'
    <3>1. CASE cache' = cache
      BY <1>1, <2>1, <3>1 DEF CacheInv, CacheIsKeyed
    <3>2. CASE cache' = Entry(p, {})
      BY <1>1, <2>1, <3>2, OneIsNotMixed, EntryIsKeyed DEF CacheInv
    <3>. QED BY <2>4, <3>1, <3>2
  <2>6. Filling'
    BY <2>1, <2>2, OthersFill DEF CacheInv, Filling
  <2>7. StillEmpty'
    <3>1. pc'[p] = "fill" => \A c \in Hits(prompt[p])' : c[2] = {}
      BY <2>1, <2>3 DEF Hits, Entry, Key
    <3>. QED BY <1>2, <3>1 DEF StillEmpty, Hits
  <2>. QED BY <1>1, <2>5, <2>6, <2>7 DEF CacheInv
<1>5. CASE FillEntry(p)
  <2>1. prompt' = prompt /\ def' = def /\ replied' = replied /\ crowded' = crowded
    BY <1>5 DEF FillEntry, local, history
  <2>2. pc[p] = "fill" /\ <<prompt[p], def[p]>> \in replied
    BY <1>5 DEF FillEntry, CacheInv, Filling
  <2>3. pc'[p] = "propose"
    BY <1>5 DEF FillEntry, Goto, VerifyTypeOK
  <2>4. CacheIsKeyed'
    <3>1. CASE cache' = cache
      BY <2>1, <3>1 DEF CacheInv, CacheIsKeyed
    <3>2. CASE cache' = Entry(p, {def[p]})
      BY <2>1, <2>2, <3>2, OneIsNotMixed, EntryIsKeyed DEF CacheInv
    <3>3. ASSUME NEW c \in Hits(Key(p)), cache' = Entry(p, c[2] \cup {def[p]})
          PROVE  CacheIsKeyed'
      <4>1. c \in cache /\ c[1] = prompt[p]
        BY DEF Hits, Key
      <4>2. \A d \in c[2] \cup {def[p]} : <<prompt[p], d>> \in replied
        BY <2>2, <4>1 DEF CacheInv, CacheIsKeyed
      <4>3. Mixed(c[2] \cup {def[p]}) => crowded # {}
        <5>1. SUFFICES ASSUME crowded = {} PROVE ~Mixed(c[2] \cup {def[p]})
          OBVIOUS
        <5>2. c[2] = {}
          BY <2>2, <5>1 DEF CacheInv, StillEmpty, Key
        <5>3. c[2] \cup {def[p]} = {def[p]}
          BY <5>2
        <5>. QED BY <5>3, OneIsNotMixed
      <4>. QED BY <2>1, <3>3, <4>2, <4>3, EntryIsKeyed DEF CacheInv
    <3>. QED BY <1>5, <3>1, <3>2, <3>3 DEF FillEntry
  <2>5. Filling'
    BY <2>1, <2>3, OthersFill DEF CacheInv, Filling
  <2>6. StillEmpty'
    BY <1>2, <2>3 DEF StillEmpty
  <2>. QED BY <1>1, <2>4, <2>5, <2>6 DEF CacheInv
<1>6. CASE ~QueryLane(p) /\ ~CreateEntry(p) /\ ~FillEntry(p)
  <2>1. cache' = cache /\ replied' = replied /\ pc'[p] \notin {"create", "fill"}
    BY <1>6, CacheFrame
  <2>2. CacheIsKeyed'
    BY <1>1, <2>1 DEF CacheInv, CacheIsKeyed
  <2>3. Filling'
    BY <2>1, OthersFill DEF CacheInv, Filling
  <2>4. StillEmpty'
    BY <1>2, <2>1 DEF StillEmpty
  <2>. QED BY <1>1, <2>2, <2>3, <2>4 DEF CacheInv
<1>. QED BY <1>3, <1>4, <1>5, <1>6

LEMMA CacheInductive == VerifySpec => []CacheInv
<1>1. VerifyInit => CacheInv
  BY DEF VerifyInit, CacheInv, Alone, Running, CacheIsKeyed, Filling, StillEmpty
<1>2. VerifyTypeOK /\ Asking /\ CacheInv /\ [VerifyNext]_verifying => CacheInv'
  <2> SUFFICES ASSUME VerifyTypeOK, Asking, CacheInv, [VerifyNext]_verifying PROVE CacheInv'
    OBVIOUS
  <2>1. CASE UNCHANGED verifying
    BY <2>1 DEF verifying, local, history, CacheInv, Alone, Running, CacheIsKeyed, Filling, StillEmpty,
                Hits
  <2>. QED BY <2>1, CacheStep DEF VerifyNext, Done
<1>. QED BY <1>1, <1>2, AlwaysTyped, PTL DEF VerifySpec

(* The cache answers the prompt it is keyed by, even when invocations      *)
(* overlap between looking an entry up, asking, creating and filling it,   *)
(* and are killed: a text is made of answers of that lane to that prompt,  *)
(* and mixes two only if invocations have overlapped (harness.rs, query).  *)
THEOREM CacheKeyed == VerifySpec => []CacheIsKeyed
<1>1. CacheInv => CacheIsKeyed
  BY DEF CacheInv
<1>. QED BY <1>1, CacheInductive, PTL

-----------------------------------------------------------------------------
(* From here on: an invocation that ran alone.                             *)
(* Where each front-end and the repair loop can be.                        *)
Routed(p) ==
  /\ pc[p] = "given" => kind[p] = "prewritten"
  /\ pc[p] = "translate" => kind[p] = "cpp2rust"
  /\ pc[p] \in {"charon", "aeneas", "slice"} => kind[p] \in {"rust", "cpp2rust"}
  /\ pc[p] \in {"lane", "query", "ask", "create", "fill", "propose"} \/ iter[p] > 0 => kind[p] = "llm"

(* The files that a process is about to read are those it wrote, or those  *)
(* it removed what others had left in.                                     *)
Files(p) ==
  /\ pc[p] \in {"build", "oracle", "run"} => work.vectors = ex[p]
  /\ pc[p] = "oracle" => work.oracle = ex[p]
  /\ pc[p] = "charon" /\ kind[p] = "cpp2rust" => work.llbc = NoDef
  /\ pc[p] = "aeneas" => Llbc(p) = ex[p]
  /\ pc[p] = "slice" => work.extract \in {ex[p], NoDef}
  /\ pc[p] \in {"lean", "run", "compare"} => Candidate(p) = def[p]

(* The results it compares are the oracle's and its own candidate's.       *)
Measured(p) ==
  /\ pc[p] \in {"given", "translate", "charon", "aeneas", "slice", "lane", "query", "ask",
               "create", "fill", "propose", "lean", "run", "compare"} => cpp[p] = [of |-> ex[p], on |-> ex[p]]
  /\ pc[p] = "compare" => results[p] = [of |-> def[p], on |-> ex[p]] /\ def[p] \in Typechecks

(* A verdict ends the invocation and is true of it.                        *)
Claims(p) ==
  /\ verdict[p] # "none" => pc[p] = "end"
  /\ verdict[p] = "L1" => <<ex[p], def[p]>> \in Agrees
  /\ verdict[p] = "L0" => def[p] \in Typechecks /\ <<ex[p], def[p]>> \notin Agrees
  /\ kind[p] \in {"rust", "cpp2rust"} /\ def[p] # NoDef => def[p] = extracted[ex[p]]

Sound(p) == Routed(p) /\ Files(p) /\ Measured(p) /\ Claims(p)

VerifyInv == VerifyTypeOK /\ CacheInv /\ \A p \in Proc \ crowded : Sound(p) /\ OwnAnswer(p)

(* A process that does not run is not disturbed by one that does.          *)
LEMMA AsideSound ==
  ASSUME NEW q \in Proc, ~Running(q), Sound(q), Same(q)
  PROVE  Sound(q)' /\ OwnAnswer(q)'
BY DEF Sound, Routed, Files, Measured, Claims, OwnAnswer, Running, Same

(* One step of the process that runs.                                      *)
LEMMA StepSound ==
  ASSUME NEW p \in Proc, VerifyTypeOK, Sound(p), Start(p) \/ StepOf(p) \/ Killed(p)
  PROVE  Sound(p)'
<1>. USE DEF VerifyTypeOK, Sound, Routed, Files, Measured, Claims, Goto, EndWith, WorkDir, local,
             Llbc, Candidate
<1>1. CASE Start(p) \/ Killed(p)
  <2>1. CASE Start(p)
    BY <2>1 DEF Start
  <2>2. CASE Killed(p)
    BY <2>2 DEF Killed, Running
  <2>. QED BY <1>1, <2>1, <2>2
<1>2. CASE EnsureSupportLib(p) \/ WriteVectors(p) \/ BuildOracle(p)
  BY <1>2 DEF EnsureSupportLib, WriteVectors, BuildOracle
<1>3. CASE RunOracle(p)
  BY <1>3 DEF RunOracle, Frontend, Kinds
<1>4. CASE Prewritten(p)
  BY <1>4 DEF Prewritten
<1>5. CASE TranslateSource(p)
  BY <1>5 DEF TranslateSource, StaleLlbc
<1>6. CASE RunCharon(p)
  BY <1>6, DefAssumption DEF RunCharon
<1>7. CASE RunAeneas(p)
  BY <1>7 DEF RunAeneas, Cleared
<1>8. CASE Slice(p)
  BY <1>8, DefAssumption DEF Slice
<1>9. CASE \/ ResolveLane(p) \/ CacheHit(p) \/ CacheMiss(p) \/ QueryLane(p)
           \/ CreateEntry(p) \/ FillEntry(p)
  BY <1>9 DEF ResolveLane, CacheHit, CacheMiss, QueryLane, CreateEntry, FillEntry, Ask
<1>10. CASE WriteCandidate(p)
  BY <1>10 DEF WriteCandidate
<1>11. CASE LeanVectors(p)
  BY <1>11 DEF LeanVectors
<1>12. CASE LeanRejects(p)
  BY <1>12 DEF LeanRejects, LeanError, Repair, Ask
<1>13. CASE LeanRuns(p)
  BY <1>13 DEF LeanRuns
<1>14. CASE LeanFlakes(p)
  BY <1>14 DEF LeanFlakes, FlakeUsable, LeanError, Repair, Ask
<1>15. CASE Settle(p)
  BY <1>15 DEF Settle, Repair, Ask
<1>16. CASE Assess(p)
  BY <1>16 DEF Assess, Conformant
<1>. QED
  BY <1>1, <1>2, <1>3, <1>4, <1>5, <1>6, <1>7, <1>8, <1>9, <1>10, <1>11, <1>12, <1>13,
     <1>14, <1>15, <1>16 DEF StepOf

(* The candidate is the answer to its prompt, step by step.                *)
LEMMA StepAnswers ==
  ASSUME NEW p \in Proc, VerifyTypeOK, CacheInv, CacheInv', Sound(p), OwnAnswer(p),
         Start(p) \/ StepOf(p) \/ Killed(p)
  PROVE  OwnAnswer(p)'
<1>. USE DEF VerifyTypeOK, Goto, EndWith, local, history
<1>1. ASSUME pc'[p] \in {"create", "fill"} PROVE OwnAnswer(p)'
  BY <1>1 DEF CacheInv, Filling, OwnAnswer
<1>2. CASE CacheHit(p)
  <2>0. PICK c \in Hits(Key(p)) : \E d \in Reads(c[2]) : def' = [def EXCEPT ![p] = d]
    BY <1>2 DEF CacheHit
  <2>1. PICK d \in Reads(c[2]) : def' = [def EXCEPT ![p] = d]
    BY <2>0
  <2>2. prompt' = prompt /\ cache' = cache /\ replied' = replied
    BY <1>2 DEF CacheHit
  <2>3. c \in cache /\ c[1] = prompt[p] /\ def'[p] = d
    BY <2>1 DEF Hits, Key
  <2>4. d = NoDef \/ Mixed(c[2]) \/ <<prompt[p], d>> \in replied
    BY <2>3 DEF Reads, CacheInv, CacheIsKeyed
  <2>. QED BY <2>2, <2>3, <2>4 DEF OwnAnswer, Hits
<1>3. CASE CreateEntry(p) \/ FillEntry(p)
  <2>1. pc[p] \in {"create", "fill"} /\ prompt' = prompt /\ def' = def /\ replied' = replied
    BY <1>3 DEF CreateEntry, FillEntry
  <2>. QED BY <2>1 DEF CacheInv, Filling, OwnAnswer
<1>4. CASE WriteCandidate(p) \/ LeanVectors(p) \/ LeanRuns(p)
  <2>1. /\ pc[p] \in {"propose", "lean", "run"} /\ kind' = kind
        /\ prompt' = prompt /\ def' = def /\ replied' = replied /\ cache' = cache
    BY <1>4 DEF WriteCandidate, LeanVectors, LeanRuns
  <2>. QED BY <2>1 DEF OwnAnswer, Hits
<1>5. CASE LeanRejects(p) \/ LeanFlakes(p) \/ Settle(p)
  <2>1. /\ pc[p] \in {"run", "compare"} /\ kind' = kind
        /\ def' = def /\ replied' = replied /\ cache' = cache
    BY <1>5 DEF LeanRejects, LeanFlakes, Settle
  <2>2. prompt' = prompt \/ pc'[p] = "query" \/ pc'[p] = "end"
    BY <1>5 DEF LeanRejects, LeanFlakes, Settle, LeanError, Repair
  <2>. QED BY <2>1, <2>2 DEF OwnAnswer, Hits
<1>6. CASE Prewritten(p) \/ Slice(p)
  BY <1>6 DEF Prewritten, Slice, OwnAnswer, Sound, Routed
<1>7. CASE Start(p) \/ Killed(p) \/ Assess(p)
  BY <1>7 DEF Start, Killed, Assess, OwnAnswer
<1>8. CASE EnsureSupportLib(p) \/ WriteVectors(p) \/ BuildOracle(p)
  BY <1>8 DEF EnsureSupportLib, WriteVectors, BuildOracle, OwnAnswer
<1>9. CASE RunOracle(p)
  BY <1>9, FrontendIsALabel DEF RunOracle, OwnAnswer
<1>10. CASE TranslateSource(p) \/ RunCharon(p) \/ RunAeneas(p)
  BY <1>10 DEF TranslateSource, RunCharon, RunAeneas, OwnAnswer
<1>11. CASE ResolveLane(p) \/ CacheMiss(p)
  BY <1>11 DEF ResolveLane, CacheMiss, OwnAnswer
<1>12. CASE QueryLane(p)
  BY <1>1, <1>12 DEF QueryLane, OwnAnswer
<1>. QED
  BY <1>2, <1>3, <1>4, <1>5, <1>6, <1>7, <1>8, <1>9, <1>10, <1>11, <1>12 DEF StepOf

LEMMA StepVerifyInv ==
  VerifyInv /\ CacheInv' /\ VerifyTypeOK' /\ [VerifyNext]_verifying => VerifyInv'
<1> SUFFICES ASSUME VerifyInv, CacheInv', VerifyTypeOK', [VerifyNext]_verifying PROVE VerifyInv'
  OBVIOUS
<1>1. ASSUME NEW p \in Proc, Start(p) \/ StepOf(p) \/ Killed(p) PROVE VerifyInv'
  <2>1. ASSUME NEW q \in Proc \ crowded', q # p PROVE Sound(q)' /\ OwnAnswer(q)'
    <3>1. ~Running(q) /\ q \notin crowded
      BY <1>1, <2>1, SoloStep DEF VerifyInv, CacheInv
    <3>. QED BY <1>1, <2>1, <3>1, Frame, AsideSound DEF VerifyInv
  <2>2. ASSUME p \notin crowded' PROVE Sound(p)' /\ OwnAnswer(p)'
    <3>1. p \notin crowded
      BY <1>1, <2>2, SoloStep DEF VerifyInv, CacheInv
    <3>. QED BY <1>1, <3>1, StepSound, StepAnswers DEF VerifyInv
  <2>. QED BY <2>1, <2>2 DEF VerifyInv
<1>2. CASE UNCHANGED verifying
  <2>1. /\ crowded' = crowded /\ CacheInv'
        /\ \A p \in Proc : Sound(p)' = Sound(p) /\ OwnAnswer(p)' = OwnAnswer(p)
    BY <1>2 DEF verifying, local, history, Running, Sound, Routed, Files, Measured, Claims,
                Llbc, Candidate, OwnAnswer, Hits
  <2>. QED BY <2>1 DEF VerifyInv
<1>. QED BY <1>1, <1>2 DEF VerifyNext, Done

LEMMA VerifyInductive == VerifySpec => []VerifyInv
<1>1. VerifyInit /\ VerifyTypeOK /\ CacheInv => VerifyInv
  BY DEF VerifyInit, VerifyInv, Sound, Routed, Files, Measured, Claims, OwnAnswer
<1>. QED BY <1>1, StepVerifyInv, VerifyTyped, CacheInductive, PTL DEF VerifySpec

(* A verdict of an invocation that ran alone is about the invoked example  *)
(* and the definition obtained for it: L1 only if they agree, L0 only if   *)
(* Lean accepts the definition and they do not, whatever died, flaked or   *)
(* was left behind by kills and by invocations that overlapped before      *)
(* (main.rs, verify_cmd).                                                  *)
THEOREM VerdictsGenuine == VerifySpec => []VerdictsAreGenuine
<1>1. VerifyInv => VerdictsAreGenuine
  BY DEF VerifyInv, Sound, Claims, VerdictsAreGenuine, L1Genuine, L0IsMeasured
<1>. QED BY <1>1, VerifyInductive, PTL

(* ... and its candidate was extracted from its own source, or answered to *)
(* its own prompt.                                                         *)
THEOREM CandidateOwn == VerifySpec => []CandidateIsOwn
<1>1. VerifyInv => CandidateIsOwn
  BY DEF VerifyInv, CacheInv, Sound, Claims, CandidateIsOwn, OwnExtraction
<1>. QED BY <1>1, VerifyInductive, PTL

-----------------------------------------------------------------------------
LEMMA LeastNumber ==
  ASSUME NEW T, T \subseteq Nat, T # {}
  PROVE  \E n \in T : \A k \in T : n <= k
<1> DEFINE R == {ss \in Nat \X Nat : ss[1] < ss[2]}
<1>1. IsWellFoundedOn(R, Nat)
  BY NatLessThanWellFounded, Zenon DEF OpToRel
<1>2. ASSUME NEW k \in Nat, NEW n \in Nat, k < n PROVE <<k, n>> \in R
  <2> <<k, n>>[1] < <<k, n>>[2] BY <1>2
  <2>. QED OBVIOUS
<1> HIDE DEF R
<1>3. PICK n \in T : \A k \in T : <<k, n>> \notin R
  BY <1>1, WFMin, Zenon
<1>4. \A k \in T : ~(k < n)
  BY <1>2, <1>3
<1>. QED BY <1>4

LEMMA CountingUp ==
  ASSUME NEW T, 0 \in T, \A n \in Nat : n \in T => n + 1 \in T
  PROVE  \A n \in Nat : n \in T
<1> SUFFICES ASSUME Nat \ T # {} PROVE FALSE
  OBVIOUS
<1>1. PICK n \in Nat \ T : \A k \in Nat \ T : n <= k
  BY LeastNumber
<1>2. n # 0 /\ n - 1 \in Nat /\ n - 1 \in T
  BY <1>1
<1>. QED BY <1>1, <1>2

-----------------------------------------------------------------------------
(* The timing certificates.  Times are ordered by their cross products.     *)
LEMMA ScaleLe ==
  ASSUME NEW a \in Int, NEW b \in Int, NEW k \in Nat \ {0}
  PROVE  a <= b <=> a * k <= b * k
<1>1. (b - a) * k = b * k - a * k /\ a * k \in Int /\ b * k \in Int
  OBVIOUS
<1>2. ASSUME NEW x \in Int PROVE x >= 0 <=> x * k >= 0
  OBVIOUS
<1>3. b - a >= 0 <=> (b - a) * k >= 0
  <2>1. b - a \in Int OBVIOUS
  <2>. QED BY <2>1, <1>2
<1>. QED BY <1>1, <1>3

LEMMA NotBelow ==
  ASSUME NEW x \in Time, NEW y \in Time, NEW z \in Time, ~Below(x, y), ~Below(y, z)
  PROVE  ~Below(x, z)
<1> DEFINE a == x[1]
           b == x[2]
           c == y[1]
           d == y[2]
           e == z[1]
           f == z[2]
<1>1. /\ a \in Int /\ c \in Int /\ e \in Int
      /\ b \in Nat \ {0} /\ d \in Nat \ {0} /\ f \in Nat \ {0}
  BY DEF Time
<1>2. ~(a * d < c * b) /\ ~(c * f < e * d)
  BY DEF Below
<1>3. SUFFICES ~(a * f < e * b)
  BY DEF Below
<1> HIDE DEF a, b, c, d, e, f
<1>4. c * b <= a * d /\ e * d <= c * f
  <2>1. a * d \in Int /\ c * b \in Int /\ c * f \in Int /\ e * d \in Int
    BY <1>1
  <2>. QED BY <1>2, <2>1
<1>5. (c * b) * f <= (a * d) * f /\ (e * d) * b <= (c * f) * b
  <2>1. a * d \in Int /\ c * b \in Int /\ c * f \in Int /\ e * d \in Int
    BY <1>1
  <2>2. (c * b) * f <= (a * d) * f
    BY <1>1, <1>4, <2>1, ScaleLe
  <2>3. (e * d) * b <= (c * f) * b
    BY <1>1, <1>4, <2>1, ScaleLe
  <2>. QED BY <2>2, <2>3
<1>6. (c * b) * f = (c * f) * b /\ (a * d) * f = (a * f) * d /\ (e * d) * b = (e * b) * d
  BY <1>1
<1>7. /\ (c * b) * f \in Int /\ (a * d) * f \in Int /\ (e * d) * b \in Int
      /\ a * f \in Int /\ e * b \in Int
  BY <1>1
<1>8. (e * b) * d <= (a * f) * d
  BY <1>5, <1>6, <1>7
<1>9. e * b <= a * f
  BY <1>1, <1>7, <1>8, ScaleLe
<1>. QED BY <1>7, <1>9

LEMMA BelowOneWay ==
  ASSUME NEW x \in Time, NEW y \in Time, Below(x, y)
  PROVE  ~Below(y, x)
<1>1. x[1] \in Int /\ x[2] \in Int /\ y[1] \in Int /\ y[2] \in Int
  BY DEF Time
<1>2. x[1] * y[2] \in Int /\ y[1] * x[2] \in Int
  BY <1>1
<1>. QED BY <1>2 DEF Below

LEMMA GreatestIs ==
  ASSUME NEW v \in Seq(Time), v # <<>>
  PROVE  /\ Greatest(v) \in Time
         /\ \E s \in DOMAIN v : Greatest(v) = v[s]
         /\ \A s \in DOMAIN v : ~Below(Greatest(v), v[s])
<1> DEFINE T == {n \in Nat : n < Len(v) =>
                   \E s \in 1..(n + 1) : \A k \in 1..(n + 1) : ~Below(v[s], v[k])}
<1>1. Len(v) \in Nat \ {0} /\ DOMAIN v = 1..Len(v) /\ \A s \in 1..Len(v) : v[s] \in Time
  BY EmptySeq, LenProperties
<1>2. \A s \in 1..Len(v) : ~Below(v[s], v[s])
  BY <1>1, BelowOneWay
<1>3. 0 \in T
  <2>1. \A k \in 1..1 : k = 1 OBVIOUS
  <2>. QED BY <1>1, <1>2, <2>1
<1>4. ASSUME NEW n \in Nat, n \in T
      PROVE  n + 1 \in T
  <2> SUFFICES ASSUME n + 1 < Len(v)
               PROVE  \E s \in 1..(n + 2) : \A k \in 1..(n + 2) : ~Below(v[s], v[k])
    OBVIOUS
  <2>1. n < Len(v) /\ n + 2 \in 1..Len(v) /\ 1..(n + 1) \subseteq 1..Len(v)
    BY <1>1
  <2>2. PICK s \in 1..(n + 1) : \A k \in 1..(n + 1) : ~Below(v[s], v[k])
    BY <1>4, <2>1
  <2>3. v[s] \in Time /\ v[n + 2] \in Time
    BY <1>1, <2>1
  <2>4. CASE Below(v[s], v[n + 2])
    <3>1. ~Below(v[n + 2], v[s])
      BY <2>3, <2>4, BelowOneWay
    <3>2. ASSUME NEW k \in 1..(n + 1)
          PROVE  ~Below(v[n + 2], v[k])
      <4>1. v[k] \in Time BY <1>1, <2>1
      <4>. QED BY <2>2, <2>3, <3>1, <4>1, NotBelow
    <3>3. ~Below(v[n + 2], v[n + 2])
      BY <1>2, <2>1
    <3>4. \A k \in 1..(n + 2) : k \in 1..(n + 1) \/ k = n + 2
      OBVIOUS
    <3>5. n + 2 \in 1..(n + 2)
      OBVIOUS
    <3>. QED BY <3>2, <3>3, <3>4, <3>5
  <2>5. CASE ~Below(v[s], v[n + 2])
    <3>1. \A k \in 1..(n + 2) : k \in 1..(n + 1) \/ k = n + 2
      OBVIOUS
    <3>2. s \in 1..(n + 2)
      OBVIOUS
    <3>. QED BY <2>2, <2>5, <3>1, <3>2
  <2>. QED BY <2>4, <2>5
<1>5. Len(v) - 1 \in Nat /\ Len(v) - 1 < Len(v) /\ (Len(v) - 1) + 1 = Len(v)
  BY <1>1
<1>6. Len(v) - 1 \in T
  <2> HIDE DEF T
  <2>. QED BY <1>3, <1>4, <1>5, CountingUp
<1>7. PICK s \in 1..Len(v) : \A k \in 1..Len(v) : ~Below(v[s], v[k])
  BY <1>5, <1>6
<1>8. v[s] \in Range(v) /\ \A y \in Range(v) : ~Below(v[s], y)
  BY <1>1, <1>7 DEF Range
<1>9. Greatest(v) \in Range(v) /\ \A y \in Range(v) : ~Below(Greatest(v), y)
  BY <1>8 DEF Greatest
<1>. QED BY <1>1, <1>9 DEF Range

-----------------------------------------------------------------------------
(* A certificate holds exactly if nothing of the module contradicts it.     *)
LEMMA ClockIs ==
  ASSUME NEW m, IsModule(m)
  PROVE  clock_freq_hz(m) \in Maybe(Nat \ {0})
<1> DEFINE stated == {i \in DOMAIN m.domains : Known(m.domains[i])}
<1>1. m.freq \in Maybe(Nat) /\ m.domains \in Seq(Maybe(Nat \ {0}))
  BY DEF IsModule
<1>2. CASE Known(m.freq) /\ m.freq # 0
  BY <1>1, <1>2 DEF clock_freq_hz, Known, Maybe
<1>3. CASE ~(Known(m.freq) /\ m.freq # 0)
  <2>1. CASE stated = {}
    BY <1>3, <2>1 DEF clock_freq_hz, Maybe
  <2>2. CASE stated # {}
    <3>1. stated \subseteq Nat
      BY <1>1
    <3>2. PICK i \in stated : \A k \in stated : i <= k
      BY <2>2, <3>1, LeastNumber
    <3>3. Min(stated) \in stated
      BY <3>2 DEF Min
    <3>4. m.domains[Min(stated)] \in Maybe(Nat \ {0})
      <4>1. Min(stated) \in DOMAIN m.domains
        BY <3>3
      <4>2. \A k \in DOMAIN m.domains : m.domains[k] \in Maybe(Nat \ {0})
        BY <1>1
      <4>. QED BY <4>1, <4>2
    <3>. QED BY <1>3, <2>2, <3>4 DEF clock_freq_hz
  <2>. QED BY <2>1, <2>2
<1>. QED BY <1>2, <1>3

LEMMA PeriodIs ==
  ASSUME TimingAssumption, NEW m, IsModule(m)
  PROVE  LET hz == clock_freq_hz(m)
             freq_period == IF Known(hz) THEN <<Giga, hz>> ELSE Unknown
             period == OrElse(freq_period, m.target)
         IN  /\ freq_period \in Maybe(Time) /\ m.target \in Maybe(Time) /\ period \in Maybe(Time)
             /\ Known(freq_period) <=> Known(hz)
             /\ Period(m) = {freq_period, m.target} \ {Unknown}
             /\ Known(freq_period) => period = freq_period
             /\ ~Known(freq_period) => period = m.target
<1> DEFINE hz == clock_freq_hz(m)
           fp == IF Known(hz) THEN <<Giga, hz>> ELSE Unknown
<1>1. hz \in Maybe(Nat \ {0}) /\ m.target \in Maybe(Time)
  BY ClockIs DEF IsModule
<1>2. Known(hz) => <<Giga, hz>> \in Time /\ <<Giga, hz>> # Unknown
  BY <1>1 DEF Known, Maybe, Time, TimingAssumption
<1>3. fp \in Maybe(Time) /\ (Known(fp) <=> Known(hz))
  BY <1>2 DEF Known, Maybe
<1>4. Period(m) = {fp, m.target} \ {Unknown}
  BY <1>2 DEF Period, Known
<1>. QED BY <1>1, <1>3, <1>4 DEF OrElse, Maybe


LEMMA DerivedIs ==
  ASSUME NEW p, p.delays \in Seq(Maybe(Time))
  PROVE  /\ AllStages(p) => /\ derived_critical(p) \in Time
                            /\ \A s \in DOMAIN p.delays :
                                 p.delays[s] \in Time /\ ~Below(derived_critical(p), p.delays[s])
                            /\ \E s \in DOMAIN p.delays : derived_critical(p) = p.delays[s]
         /\ ~AllStages(p) => derived_critical(p) = Unknown
<1>1. CASE AllStages(p)
  <2>1. p.delays # <<>> /\ \A s \in DOMAIN p.delays : p.delays[s] \in Time
    <3>1. \A s \in DOMAIN p.delays : p.delays[s] \in Maybe(Time)
      OBVIOUS
    <3>. QED BY <1>1, <3>1 DEF AllStages, Maybe, Known
  <2>2. p.delays \in Seq(Time)
    <3>1. p.delays \in [1..Len(p.delays) -> Maybe(Time)] /\ Len(p.delays) \in Nat
      BY LenProperties
    <3>2. p.delays \in [1..Len(p.delays) -> Time]
      BY <2>1, <3>1
    <3>. QED BY <3>1, <3>2, SeqDef
  <2>3. derived_critical(p) = Greatest(p.delays)
    BY <1>1 DEF derived_critical, AllStages
  <2>. QED BY <1>1, <2>1, <2>2, <2>3, GreatestIs
<1>2. CASE ~AllStages(p)
  BY <1>2 DEF derived_critical, AllStages
<1>. QED BY <1>1, <1>2

LEMMA CertMatches ==
  ASSUME TimingAssumption, NEW m, IsModule(m), Known(m.pipeline)
  PROVE  /\ certify_timing(m) \in TimingCert
         /\ TimingOk(certify_timing(m)) <=> ~Contradicted(m)
<1> DEFINE p == m.pipeline
           ds == p.delays
           ii == AtLeastOne(p.ii)
           c_slow == AtLeastOne(m.c_slow)
           hz == clock_freq_hz(m)
           fp == IF Known(hz) THEN <<Giga, hz>> ELSE Unknown
           period == OrElse(fp, m.target)
           derived == derived_critical(p)
           path == OrElse(derived, m.critical)
           malformed == ii > MAX_FOLD \/ c_slow > MAX_FOLD
           closes == IF Known(path) /\ Known(period) THEN ~Below(period, path) ELSE Unknown
           clash == Known(fp) /\ Known(m.target) /\ Differ(fp, m.target)
           unlike == Known(derived) /\ Known(m.critical) /\ Differ(derived, m.critical)
           fold == ~malformed /\ fold_schedulable(c_slow, ii)
           short == ii = 1 /\ p.latency < p.num_stages
           crit == m.critical
           all == AllStages(p)
<1>1. certify_timing(m) = [closes |-> closes, mismatch |-> clash \/ unlike,
                           impossible |-> short, fold |-> fold]
  BY DEF certify_timing
<1>2. Contradicted(m) <=>
        \/ \E x, y \in Period(m) : Below(x, y)
        \/ all /\ \E s \in DOMAIN ds : \E t \in Period(m) : Below(t, ds[s])
        \/ all /\ Known(crit) /\ (\/ \E s \in DOMAIN ds : Below(crit, ds[s])
                                  \/ \A s \in DOMAIN ds : Below(ds[s], crit))
        \/ ~all /\ Known(crit) /\ \E t \in Period(m) : Below(t, crit)
        \/ p.ii <= 1 /\ p.latency < p.num_stages
        \/ p.ii > MAX_FOLD \/ m.c_slow > MAX_FOLD
        \/ AtLeastOne(m.c_slow) > AtLeastOne(p.ii)
  BY DEF Contradicted
<1>3. /\ p.num_stages \in Nat /\ p.latency \in Nat /\ p.ii \in Nat
      /\ ds \in Seq(Maybe(Time)) /\ m.c_slow \in Nat /\ crit \in Maybe(Time)
  <2>1. m.pipeline \in [num_stages : Nat, latency : Nat, ii : Nat, delays : Seq(Maybe(Time))]
    BY DEF IsModule, Maybe, Known
  <2>. QED BY <2>1 DEF IsModule
<1>4. /\ short <=> p.ii <= 1 /\ p.latency < p.num_stages
      /\ fold <=> ~ (p.ii > MAX_FOLD \/ m.c_slow > MAX_FOLD
                     \/ AtLeastOne(m.c_slow) > AtLeastOne(p.ii))
  <2>1. /\ ii \in Nat \ {0} /\ c_slow \in Nat \ {0} /\ MAX_FOLD \in Nat \ {0}
        /\ (ii = 1 <=> p.ii <= 1)
        /\ (malformed <=> p.ii > MAX_FOLD \/ m.c_slow > MAX_FOLD)
    BY <1>3 DEF AtLeastOne, TimingAssumption
  <2>2. ~malformed => ii \in 1..MAX_FOLD /\ c_slow \in 1..MAX_FOLD
    BY <2>1
  <2>3. ~malformed => (fold_schedulable(c_slow, ii) <=> c_slow <= ii)
    BY <2>2 DEF TimingAssumption
  <2>. QED BY <2>1, <2>3
<1>5. /\ fp \in Maybe(Time) /\ m.target \in Maybe(Time) /\ period \in Maybe(Time)
      /\ Period(m) = {fp, m.target} \ {Unknown}
      /\ Known(fp) => period = fp
      /\ ~Known(fp) => period = m.target
  BY PeriodIs
<1>6. /\ all => /\ derived \in Time
                /\ \A s \in DOMAIN ds : ds[s] \in Time /\ ~Below(derived, ds[s])
                /\ \E s \in DOMAIN ds : derived = ds[s]
      /\ ~all => derived = Unknown
  BY <1>3, DerivedIs
<1>7. Unknown \notin Time /\ Unknown \notin BOOLEAN
  BY DEF TimingAssumption
<1> HIDE DEF p, hz, fp, period, derived, all, crit
<1>8. all <=> Known(derived)
  BY <1>6, <1>7 DEF Known
<1>9. /\ all => path = derived
      /\ ~all => path = crit
      /\ path \in Maybe(Time)
  BY <1>3, <1>6, <1>8 DEF OrElse, Maybe, crit
<1>10. clash <=> \E x, y \in Period(m) : Below(x, y)
  <2>1. \A x \in Time : ~Below(x, x)
    BY BelowOneWay
  <2>. QED BY <1>5, <2>1 DEF Differ, Known, Maybe
<1>11. ASSUME ~clash, NEW d \in Time
       PROVE  (\E t \in Period(m) : Below(t, d)) <=> Known(period) /\ Below(period, d)
  <2>1. Known(period) => period \in Period(m)
    BY <1>5 DEF Known
  <2>2. ASSUME NEW t \in Period(m), Below(t, d)
        PROVE  Known(period) /\ Below(period, d)
    <3>1. t \in Time /\ period \in Time /\ Known(period)
      BY <1>5, <1>7 DEF Known, Maybe
    <3>2. ~Below(t, period)
      BY <1>10, <1>11, <2>1, <3>1
    <3>. QED BY <2>2, <3>1, <3>2, NotBelow
  <2>. QED BY <2>1, <2>2
<1>12. ASSUME all, Known(crit)
       PROVE  Differ(derived, crit) <=> \/ \E s \in DOMAIN ds : Below(crit, ds[s])
                                        \/ \A s \in DOMAIN ds : Below(ds[s], crit)
  <2>1. crit \in Time /\ derived \in Time
    BY <1>3, <1>6, <1>12 DEF Known, Maybe
  <2>2. ASSUME NEW s \in DOMAIN ds, Below(crit, ds[s]) PROVE Below(crit, derived)
    BY <1>6, <1>12, <2>1, <2>2, NotBelow
  <2>3. ASSUME Below(derived, crit), NEW s \in DOMAIN ds PROVE Below(ds[s], crit)
    BY <1>6, <1>12, <2>1, <2>3, NotBelow
  <2>. QED BY <1>6, <1>12, <2>2, <2>3 DEF Differ
<1>13. ASSUME all, ~clash
       PROVE  (\E s \in DOMAIN ds : \E t \in Period(m) : Below(t, ds[s]))
                <=> Known(period) /\ Below(period, derived)
  <2>1. \A s \in DOMAIN ds : (\E t \in Period(m) : Below(t, ds[s])) <=> Known(period) /\ Below(period, ds[s])
    BY <1>6, <1>11, <1>13
  <2>2. ASSUME Known(period), NEW s \in DOMAIN ds, Below(period, ds[s]) PROVE Below(period, derived)
    <3>1. period \in Time
      BY <1>5, <2>2 DEF Known, Maybe
    <3>. QED BY <1>6, <1>13, <2>2, <3>1, NotBelow
  <2>. QED BY <1>6, <1>13, <2>1, <2>2
<1>14. closes = FALSE <=> Known(path) /\ Known(period) /\ Below(period, path)
  BY <1>7
<1>15. ASSUME ~clash
       PROVE  closes = FALSE <=>
                \/ all /\ \E s \in DOMAIN ds : \E t \in Period(m) : Below(t, ds[s])
                \/ ~all /\ Known(crit) /\ \E t \in Period(m) : Below(t, crit)
  <2>1. CASE all
    BY <1>8, <1>9, <1>13, <1>14, <1>15, <2>1
  <2>2. CASE ~all
    <3>1. Known(crit) => crit \in Time
      BY <1>3 DEF Known, Maybe
    <3>2. Known(crit) => ((\E t \in Period(m) : Below(t, crit)) <=> Known(period) /\ Below(period, crit))
      BY <1>11, <1>15, <3>1
    <3>. QED BY <1>9, <1>14, <2>2, <3>2
  <2>. QED BY <2>1, <2>2
<1>16. unlike <=> all /\ Known(crit) /\ (\/ \E s \in DOMAIN ds : Below(crit, ds[s])
                                         \/ \A s \in DOMAIN ds : Below(ds[s], crit))
  BY <1>8, <1>12 DEF crit
<1>17. closes \in Maybe(BOOLEAN)
  BY DEF Maybe
<1>18. short \in BOOLEAN /\ fold \in BOOLEAN /\ (clash \/ unlike) \in BOOLEAN
  OBVIOUS
<1> DEFINE wrong == clash \/ unlike
<1> HIDE DEF closes, clash, unlike, short, fold, wrong
<1>19. certify_timing(m) = [closes |-> closes, mismatch |-> wrong, impossible |-> short, fold |-> fold]
  BY <1>1, Zenon DEF wrong
<1>20. certify_timing(m) \in TimingCert
  BY <1>17, <1>18, <1>19 DEF TimingCert, wrong
<1>21. TimingOk(certify_timing(m)) <=> closes # FALSE /\ fold /\ ~wrong /\ ~short
  <2> DEFINE c == certify_timing(m)
  <2>1. c.closes = closes /\ c.mismatch = wrong /\ c.impossible = short /\ c.fold = fold
    BY <1>19
  <2>2. TimingOk(c) <=> c.closes # FALSE /\ c.fold /\ ~c.mismatch /\ ~c.impossible
    BY Zenon DEF TimingOk
  <2> HIDE DEF c
  <2>. QED BY <2>1, <2>2, Zenon DEF c
<1>. QED BY <1>2, <1>4, <1>10, <1>15, <1>16, <1>20, <1>21 DEF wrong

(* The command: a certificate for every module there has been, and the      *)
(* exit code only once all of them are there.                               *)
TimingInv ==
  /\ plan \in Plans
  /\ certs \in Seq({CertOf(plan.modules[i]) : i \in DOMAIN plan.modules})
  /\ Len(certs) <= Len(plan.modules)
  /\ \A i \in DOMAIN certs : certs[i] = CertOf(plan.modules[i])
  /\ status # Unknown =>
       /\ Len(certs) = Len(plan.modules)
       /\ LET made == Range(certs) \ {Unknown}
          IN  status = IF made = {} THEN 2 ELSE IF \A c \in made : CertOk(c) THEN 0 ELSE 1

LEMMA TimingInductive == ASSUME TimingAssumption PROVE TimingSpec => []TimingInv
<1>1. TimingInit => TimingInv
  <2> SUFFICES ASSUME TimingInit PROVE TimingInv
    OBVIOUS
  <2>1. plan \in Plans /\ certs = <<>> /\ status = Unknown
    BY DEF TimingInit
  <2>2. Len(plan.modules) \in Nat
    BY <2>1, LenProperties DEF TimingAssumption
  <2>. QED BY <2>1, <2>2 DEF TimingInv
<1>2. TimingInv /\ [TimingNext]_certifying => TimingInv'
  <2> SUFFICES ASSUME TimingInv, [TimingNext]_certifying PROVE TimingInv'
    OBVIOUS
  <2> DEFINE ms == plan.modules
             C == {CertOf(ms[i]) : i \in DOMAIN ms}
  <2>1. /\ plan \in Plans /\ certs \in Seq(C) /\ Len(certs) <= Len(ms)
        /\ \A i \in DOMAIN certs : certs[i] = CertOf(ms[i])
    BY DEF TimingInv
  <2>2. ms \in Seq(Range(ms)) /\ DOMAIN ms = 1..Len(ms) /\ Len(ms) \in Nat
    BY <2>1, LenProperties DEF TimingAssumption
  <2>3. CASE CertifyModule
    <3> DEFINE n == Len(certs)
               new == CertOf(ms[n + 1])
    <3>1. /\ status = Unknown /\ status' = Unknown /\ plan' = plan /\ n < Len(ms)
          /\ certs' = Append(certs, new)
      BY <2>3 DEF CertifyModule
    <3>2. n \in Nat /\ DOMAIN certs = 1..n /\ n + 1 \in DOMAIN ms
      BY <2>1, <2>2, <3>1
    <3>3. new \in C
      BY <3>2
    <3> HIDE DEF C, new
    <3>4. /\ certs' \in Seq(C) /\ Len(certs') = n + 1
          /\ \A i \in 1..n : certs'[i] = certs[i]
          /\ certs'[n + 1] = new
      BY <2>1, <3>1, <3>3, AppendProperties
    <3>5. \A i \in DOMAIN certs' : certs'[i] = CertOf(ms[i])
      BY <2>1, <3>2, <3>4 DEF new
    <3>6. \A m : CertOf(m)' = CertOf(m)
      BY <3>1 DEF CertOf
    <3>7. C' = C
      BY <3>1, <3>6 DEF C
    <3>8. certs' \in Seq({CertOf(plan.modules[i]) : i \in DOMAIN plan.modules})'
      BY <3>1, <3>4, <3>7 DEF C
    <3>. QED BY <2>1, <2>2, <3>1, <3>2, <3>4, <3>5, <3>6, <3>8 DEF TimingInv
  <2>4. CASE Conclude
    <3>1. \A c : CertOk(c)' = CertOk(c)
      BY <2>4 DEF Conclude, CertOk
    <3>. QED BY <2>1, <2>4, <3>1 DEF TimingInv, Conclude, CertOf
  <2>5. CASE UNCHANGED certifying
    BY <2>5 DEF TimingInv, certifying, CertOf, CertOk
  <2>. QED BY <2>3, <2>4, <2>5 DEF TimingNext
<1>. QED BY <1>1, <1>2, PTL DEF TimingSpec

LEMMA ExitIsRight == ASSUME TimingAssumption, TimingInv PROVE TimingIsFailClosed
<1> SUFFICES ASSUME plan.verb = "timing", status # Unknown
             PROVE  /\ status = 0 => Pipelined(plan.modules) # {}
                    /\ status \in {0, 1} =>
                         (status = 1 <=> \E i \in Pipelined(plan.modules) : Contradicted(plan.modules[i]))
  BY DEF TimingIsFailClosed, TimingAssumption
<1> DEFINE ms == plan.modules
           made == Range(certs) \ {Unknown}
<1>1. /\ plan \in Plans /\ Len(certs) = Len(ms)
      /\ \A i \in DOMAIN certs : certs[i] = CertOf(ms[i])
      /\ status = IF made = {} THEN 2 ELSE IF \A c \in made : CertOk(c) THEN 0 ELSE 1
  BY DEF TimingInv
<1>2. DOMAIN certs = DOMAIN ms /\ \A i \in DOMAIN ms : IsModule(ms[i])
  <2>1. ms \in Seq(Range(ms)) /\ (\A m \in Range(ms) : IsModule(m))
    BY <1>1 DEF TimingAssumption
  <2>2. DOMAIN ms = 1..Len(ms)
    BY <2>1, LenProperties
  <2>3. DOMAIN certs = 1..Len(certs)
    BY DEF TimingInv
  <2>. QED BY <1>1, <2>1, <2>2, <2>3 DEF Range
<1>3. ASSUME NEW i \in DOMAIN ms
      PROVE  /\ i \in Pipelined(ms) <=> certs[i] # Unknown
             /\ i \in Pipelined(ms) => (CertOk(certs[i]) <=> ~Contradicted(ms[i]))
  <2>1. certs[i] = CertOf(ms[i]) /\ IsModule(ms[i])
    BY <1>1, <1>2
  <2>2. CASE ~Known(ms[i].pipeline)
    BY <2>1, <2>2 DEF Pipelined, CertOf
  <2>3. CASE Known(ms[i].pipeline)
    <3>1. certs[i] = certify_timing(ms[i])
      BY <2>1, <2>3 DEF CertOf
    <3>2. certs[i] \in TimingCert /\ (TimingOk(certs[i]) <=> ~Contradicted(ms[i]))
      BY <2>1, <2>3, <3>1, CertMatches
    <3>3. certs[i] # Unknown
      BY <3>2 DEF TimingAssumption
    <3>. QED BY <2>3, <3>2, <3>3 DEF Pipelined, CertOk
  <2>. QED BY <2>2, <2>3
<1>4. made = {certs[i] : i \in Pipelined(ms)}
  BY <1>2, <1>3 DEF Range, Pipelined
<1> HIDE DEF made
<1>. QED BY <1>1, <1>3, <1>4 DEF Pipelined

(* fpga.rs:517-527: `lift fpga timing` exits with 0 exactly if some module  *)
(* has a pipeline and nothing contradicts what the file says of one, for    *)
(* any file: no cross-check can be missed, and none fails a sound file.     *)
THEOREM TimingFailClosed == ASSUME TimingAssumption PROVE TimingSpec => []TimingIsFailClosed
<1>1. TimingInv => TimingIsFailClosed
  BY ExitIsRight
<1>. QED BY <1>1, TimingInductive, PTL

LEMMA GrowingSets ==
  ASSUME NEW D, IsFiniteSet(D), NEW T,
         \A s \in SUBSET D : (\A r \in SUBSET s : r # s => r \in T) => s \in T
  PROVE  D \in T
<1> SUFFICES ASSUME D \notin T PROVE FALSE
  OBVIOUS
<1> DEFINE sizes == {n \in Nat : \E s \in SUBSET D : s \notin T /\ Cardinality(s) = n}
<1>1. sizes # {}
  BY FS_CardinalityType
<1>2. PICK n \in sizes : \A k \in sizes : n <= k
  BY <1>1, LeastNumber
<1>3. PICK s \in SUBSET D : s \notin T /\ Cardinality(s) = n
  BY <1>2
<1>4. PICK r \in SUBSET s : r # s /\ r \notin T
  BY <1>3
<1>5. IsFiniteSet(s) /\ Cardinality(r) < Cardinality(s) /\ Cardinality(r) \in Nat
  BY <1>3, <1>4, FS_Subset, FS_CardinalityType
<1>6. Cardinality(r) \in sizes
  BY <1>3, <1>4, <1>5
<1>. QED BY <1>2, <1>3, <1>5, <1>6

(* A set that is grown until it no longer changes is the least closed set   *)
(* around it.                                                               *)
IsGrowth(g, T, U) == g = [S \in SUBSET U |-> IF T[S] = S THEN S ELSE g[T[S]]]

LEMMA GrowthExists ==
  ASSUME NEW U, NEW T \in [SUBSET U -> SUBSET U],
         \A S \in SUBSET U : S \subseteq T[S],
         \A S, R \in SUBSET U : S \subseteq R => T[S] \subseteq T[R]
  PROVE  \E g : IsGrowth(g, T, U)
<1> DEFINE closed(S) == {C \in SUBSET U : S \subseteq C /\ T[C] = C}
           least(S) == {x \in U : \A C \in closed(S) : x \in C}
           g == [S \in SUBSET U |-> least(S)]
<1>1. ASSUME NEW S \in SUBSET U PROVE g[S] = IF T[S] = S THEN S ELSE g[T[S]]
  <2>1. T[S] \in SUBSET U /\ S \subseteq T[S]
    OBVIOUS
  <2>2. CASE T[S] = S
    <3>1. S \in closed(S) /\ \A C \in closed(S) : S \subseteq C
      BY <2>2
    <3>2. least(S) = S
      BY <3>1
    <3>. QED BY <2>2, <3>2
  <2>3. CASE T[S] # S
    <3>1. closed(S) = closed(T[S])
      BY <2>1
    <3>2. least(S) = least(T[S])
      BY <3>1
    <3>. QED BY <2>1, <2>3, <3>2
  <2>. QED BY <2>2, <2>3
<1>2. g = [S \in SUBSET U |-> g[S]]
  OBVIOUS
<1> HIDE DEF g
<1>3. g = [S \in SUBSET U |-> IF T[S] = S THEN S ELSE g[T[S]]]
  BY <1>1, <1>2
<1>. QED BY <1>3 DEF IsGrowth

Grows(T, U) == T \in [SUBSET U -> SUBSET U] /\ \A S \in SUBSET U : S \subseteq T[S]
StaysIn(T, J) == \A S \in SUBSET J : T[S] \subseteq J

LEMMA GrowthWithin ==
  ASSUME NEW U, IsFiniteSet(U), NEW T, Grows(T, U), NEW g, IsGrowth(g, T, U),
         NEW J \in SUBSET U, StaysIn(T, J), NEW S \in SUBSET J
  PROVE  g[S] \subseteq J
<1> DEFINE W == {R \in SUBSET J : g[J \ R] \subseteq J}
<1>1. ASSUME NEW R \in SUBSET J, \A Q \in SUBSET R : Q # R => Q \in W
      PROVE  R \in W
  <2> DEFINE P == J \ R
  <2>1. P \in SUBSET J /\ P \in SUBSET U /\ T[P] \subseteq J /\ P \subseteq T[P]
    BY DEF Grows, StaysIn
  <2>2. g[P] = IF T[P] = P THEN P ELSE g[T[P]]
    BY <2>1 DEF IsGrowth
  <2>3. CASE T[P] = P
    BY <2>1, <2>2, <2>3
  <2>4. CASE T[P] # P
    <3> DEFINE Q == J \ T[P]
    <3>1. Q \in SUBSET R /\ Q # R /\ J \ Q = T[P]
      BY <2>1, <2>4
    <3>2. Q \in W
      BY <1>1, <3>1
    <3>. QED BY <2>2, <2>4, <3>1, <3>2
  <2>. QED BY <2>3, <2>4
<1>2. J \ S \in SUBSET J /\ IsFiniteSet(J \ S) /\ J \ (J \ S) = S
  BY FS_Subset
<1>3. J \ S \in W
  <2> HIDE DEF W
  <2>. QED BY <1>1, <1>2, GrowingSets
<1>. QED BY <1>2, <1>3

-----------------------------------------------------------------------------
(* Sums of counts, as sets of tokens.                                       *)
LEMMA TokensFinite ==
  ASSUME NEW P, IsFiniteSet(P), NEW mk \in [P -> Nat]
  PROVE  IsFiniteSet(TokensAt(mk, P)) /\ TokenCount(mk, P) \in Nat
<1> DEFINE At(p) == {p} \X (1..mk[p])
           Fs == {At(p) : p \in P}
<1>1. ASSUME NEW p \in P PROVE IsFiniteSet(At(p))
  <2> DEFINE I == 1..mk[p]
  <2>1. mk[p] \in Int
    OBVIOUS
  <2>2. IsFiniteSet(I)
    BY <2>1, FS_Interval
  <2> HIDE DEF I
  <2>3. IsFiniteSet({p} \X I)
    BY <2>2, FS_Singleton, FS_Product
  <2>. QED BY <2>3 DEF I
<1>2. IsFiniteSet(Fs)
  <2> HIDE DEF At
  <2> DEFINE f == [p \in P |-> At(p)]
  <2>1. f \in Surjection(P, Fs)
    BY DEF Surjection
  <2>. QED BY <2>1, FS_Surjection
<1>3. \A S \in Fs : IsFiniteSet(S)
  <2> HIDE DEF At
  <2>. QED BY <1>1
<1>4. TokensAt(mk, P) = UNION Fs
  BY DEF TokensAt
<1> HIDE DEF Fs
<1>5. IsFiniteSet(TokensAt(mk, P))
  BY <1>2, <1>3, <1>4, FS_UNION
<1>. QED BY <1>5, FS_CardinalityType DEF TokenCount

LEMMA TokenIs ==
  ASSUME NEW mk, NEW P, NEW x
  PROVE  x \in TokensAt(mk, P) <=> \E p \in P : \E k \in 1..mk[p] : x = <<p, k>>
BY DEF TokensAt

(* No fewer tokens anywhere, and at more places: no fewer in all.           *)
LEMMA TokensMonotone ==
  ASSUME NEW P, IsFiniteSet(P), NEW mk \in [P -> Nat],
         NEW Q \in SUBSET P, NEW few \in [P -> Nat], \A p \in Q : few[p] <= mk[p]
  PROVE  TokenCount(few, Q) <= TokenCount(mk, P)
<1>1. TokensAt(few, Q) \subseteq TokensAt(mk, P)
  <2> SUFFICES ASSUME NEW x \in TokensAt(few, Q) PROVE x \in TokensAt(mk, P)
    OBVIOUS
  <2>1. PICK p \in Q, k \in Nat : k \in 1..few[p] /\ x = <<p, k>>
    BY TokenIs
  <2>2. k \in 1..mk[p]
    BY <2>1
  <2>. QED BY <2>1, <2>2, TokenIs
<1>. QED BY <1>1, TokensFinite, FS_Subset DEF TokenCount

(* The tokens of a sum are those of its parts.                              *)
LEMMA TokensAdd ==
  ASSUME NEW P, IsFiniteSet(P), NEW f \in [P -> Nat], NEW g \in [P -> Nat], NEW h \in [P -> Nat],
         \A p \in P : h[p] = f[p] + g[p]
  PROVE  TokenCount(h, P) = TokenCount(f, P) + TokenCount(g, P)
<1> DEFINE F == TokensAt(f, P)
           G == TokensAt(g, P)
           shift == [x \in G |-> <<x[1], f[x[1]] + x[2]>>]
           S == {shift[x] : x \in G}
<1>1. IsFiniteSet(F) /\ IsFiniteSet(G)
  BY TokensFinite
<1>2. ASSUME NEW x \in G
      PROVE  /\ x[1] \in P /\ x[2] \in 1..g[x[1]] /\ x = <<x[1], x[2]>>
             /\ shift[x] = <<x[1], f[x[1]] + x[2]>>
  <2>1. PICK p \in P, k \in Nat : k \in 1..g[p] /\ x = <<p, k>>
    BY TokenIs
  <2>. QED BY <2>1
<1>3. ASSUME NEW x \in G, NEW y \in G, shift[x] = shift[y]
      PROVE  x = y
  <2>1. x[1] = y[1] /\ f[x[1]] + x[2] = f[y[1]] + y[2]
    BY <1>2, <1>3
  <2>2. x[2] \in Int /\ y[2] \in Int /\ f[x[1]] \in Int
    <3>1. x[1] \in P /\ x[2] \in 1..g[x[1]] /\ y[1] \in P /\ y[2] \in 1..g[y[1]]
      BY <1>2
    <3>2. g[x[1]] \in Nat /\ g[y[1]] \in Nat /\ f[x[1]] \in Nat
      BY <3>1
    <3> HIDE DEF G, shift
    <3>. QED BY <3>1, <3>2
  <2>3. x[2] = y[2]
    <3> DEFINE i == x[2]
               j == y[2]
               n == f[x[1]]
    <3>1. n + i = n + j
      BY <2>1
    <3> HIDE DEF i, j, n
    <3>. QED BY <2>2, <3>1 DEF i, j, n
  <2>4. x = <<x[1], x[2]>> /\ y = <<y[1], y[2]>>
    BY <1>2
  <2>. QED BY <2>1, <2>3, <2>4
<1>4. IsFiniteSet(S) /\ Cardinality(S) = Cardinality(G)
  <2>1. shift \in Bijection(G, S)
    <3>1. shift \in [G -> S]
      OBVIOUS
    <3> HIDE DEF G, shift
    <3>. QED BY <1>3, <3>1, Zenon DEF Bijection, Injection, Surjection, IsInjective
  <2> HIDE DEF G, S, shift
  <2>. QED BY <1>1, <2>1, FS_Bijection DEF ExistsBijection
<1>5. F \cap S = {}
  <2> SUFFICES ASSUME NEW x \in G, shift[x] \in F PROVE FALSE
    OBVIOUS
  <2>1. PICK p \in P, k \in Nat : k \in 1..f[p] /\ <<x[1], f[x[1]] + x[2]>> = <<p, k>>
    BY <1>2, TokenIs
  <2>2. x[1] = p /\ f[p] + x[2] = k /\ f[p] \in Nat
    BY <2>1
  <2>3. x[2] \in Nat /\ x[2] > 0
    <3>1. x[2] \in 1..g[x[1]] /\ g[x[1]] \in Nat
      BY <1>2
    <3>. QED BY <3>1
  <2>. QED BY <2>1, <2>2, <2>3
<1>6. TokensAt(h, P) = F \cup S
  <2>1. ASSUME NEW x \in TokensAt(h, P) PROVE x \in F \cup S
    <3>1. PICK p \in P, k \in Nat : k \in 1..h[p] /\ x = <<p, k>>
      BY TokenIs
    <3>2. CASE k <= f[p]
      <4>1. k \in 1..f[p]
        BY <3>1, <3>2
      <4>. QED BY <3>1, <4>1, TokenIs
    <3>3. CASE ~(k <= f[p])
      <4>1. k - f[p] \in 1..g[p] /\ f[p] + (k - f[p]) = k
        BY <3>1, <3>3
      <4>2. <<p, k - f[p]>> \in G
        BY <4>1, TokenIs
      <4>3. shift[<<p, k - f[p]>>] = <<p, f[p] + (k - f[p])>>
        <5> DEFINE j == k - f[p]
        <5> HIDE DEF j
        <5>1. shift[<<p, j>>] = <<p, f[p] + j>>
          BY <4>2 DEF j
        <5>. QED BY <5>1 DEF j
      <4>. QED BY <3>1, <4>1, <4>2, <4>3
    <3>. QED BY <3>2, <3>3
  <2>2. ASSUME NEW x \in F PROVE x \in TokensAt(h, P)
    <3>1. PICK p \in P, k \in Nat : k \in 1..f[p] /\ x = <<p, k>>
      BY TokenIs
    <3>2. k \in 1..h[p]
      BY <3>1
    <3>. QED BY <3>1, <3>2, TokenIs
  <2>3. ASSUME NEW x \in G PROVE shift[x] \in TokensAt(h, P)
    <3>1. x[1] \in P /\ x[2] \in 1..g[x[1]] /\ shift[x] = <<x[1], f[x[1]] + x[2]>>
      BY <1>2
    <3>2. h[x[1]] = f[x[1]] + g[x[1]] /\ f[x[1]] \in Nat /\ g[x[1]] \in Nat
      BY <3>1
    <3> HIDE DEF G, shift
    <3>3. f[x[1]] + x[2] \in 1..h[x[1]]
      BY <3>1, <3>2
    <3>. QED BY <3>1, <3>3, TokenIs
  <2>. QED BY <2>1, <2>2, <2>3
<1> HIDE DEF F, G, S
<1>7. Cardinality(F \cup S) = Cardinality(F) + Cardinality(S) - Cardinality({})
  BY <1>1, <1>4, <1>5, FS_Union
<1>. QED BY <1>1, <1>4, <1>6, <1>7, FS_EmptySet, FS_CardinalityType DEF TokenCount, F, G

LEMMA TokensOfOne ==
  ASSUME NEW p, NEW mk, mk[p] \in Nat
  PROVE  TokenCount(mk, {p}) = mk[p]
<1> DEFINE n == mk[p]
           I == 1..n
           one == {p}
<1>1. IsFiniteSet(one) /\ Cardinality(one) = 1
  BY FS_Singleton
<1>2. IsFiniteSet(I) /\ Cardinality(I) = n
  <2>1. 1 \in Int /\ n \in Int /\ n \in Nat
    OBVIOUS
  <2> HIDE DEF n
  <2>. QED BY <2>1, FS_Interval
<1>3. TokensAt(mk, {p}) = one \X I
  BY DEF TokensAt
<1>4. n \in Nat
  OBVIOUS
<1> HIDE DEF I, one, n
<1>5. Cardinality(one \X I) = Cardinality(one) * Cardinality(I)
  BY <1>1, <1>2, FS_Product
<1>6. Cardinality(one \X I) = n
  BY <1>1, <1>2, <1>4, <1>5
<1>. QED BY <1>3, <1>6 DEF TokenCount, one, n

LEMMA TokensOfTwo ==
  ASSUME NEW a \in Nat, NEW b \in Nat
  PROVE  TokenCount(<<a, b>>, {1, 2}) = a + b
<1> DEFINE F == TokensAt(<<a, b>>, {1})
           G == TokensAt(<<a, b>>, {2})
<1>1. Cardinality(F) = a /\ Cardinality(G) = b
  BY TokensOfOne DEF TokenCount
<1>2. IsFiniteSet(F) /\ IsFiniteSet(G)
  <2>1. F = {1} \X (1..a) /\ G = {2} \X (1..b)
    BY DEF TokensAt
  <2> DEFINE I == 1..a
             J == 1..b
  <2>2. IsFiniteSet(I) /\ IsFiniteSet(J)
    BY FS_Interval
  <2>3. F = {1} \X I /\ G = {2} \X J
    BY <2>1
  <2> HIDE DEF F, G, I, J
  <2>. QED BY <2>2, <2>3, FS_Singleton, FS_Product
<1>3. F \cap G = {}
  BY DEF TokensAt
<1>4. TokensAt(<<a, b>>, {1, 2}) = F \cup G
  BY DEF TokensAt
<1> HIDE DEF F, G
<1>5. Cardinality(F \cup G) = Cardinality(F) + Cardinality(G) - Cardinality({})
  BY <1>2, <1>3, FS_Union
<1>. QED BY <1>1, <1>4, <1>5, FS_EmptySet DEF TokenCount

(* A sum that a count has room for is not changed by its width.             *)
LEMMA Narrow ==
  ASSUME Modulus \in Nat \ {0}, NEW n \in Nat
  PROVE  /\ n % Modulus \in 0..(Modulus - 1)
         /\ n < Modulus => n % Modulus = n
OBVIOUS

-----------------------------------------------------------------------------
(* The markings of a FIFO.                                                  *)
Within(d) == {mk \in Markings : mk[1] + mk[2] <= d}

LEMMA MarkingsFinite ==
  ASSUME Modulus \in Nat
  PROVE  IsFiniteSet(Markings)
<1> DEFINE V == 0..(Modulus - 1)
           f == [x \in V \X V |-> <<x[1], x[2]>>]
<1>1. IsFiniteSet(V \X V)
  <2>1. IsFiniteSet(V)
    BY FS_Interval
  <2> HIDE DEF V
  <2>. QED BY <2>1, FS_Product
<1>2. ASSUME NEW mk \in Markings
      PROVE  \E x \in V \X V : f[x] = mk
  <2>1. <<mk[1], mk[2]>> \in V \X V /\ mk = <<mk[1], mk[2]>>
    BY DEF Markings
  <2>2. f[<<mk[1], mk[2]>>] = mk
    BY <2>1
  <2>. QED BY <2>1, <2>2
<1>3. ASSUME NEW x \in V \X V PROVE f[x] \in Markings
  BY DEF Markings
<1>4. f \in Surjection(V \X V, Markings)
  BY <1>2, <1>3 DEF Surjection
<1> HIDE DEF f, V
<1>. QED BY <1>1, <1>4, FS_Surjection

LEMMA FifoClosureIs ==
  ASSUME NEW d
  PROVE  FifoClosure(d) =
           (CHOOSE g : g = [S \in SUBSET Markings |->
                              IF Grown(fifo_net(d), S) = S THEN S ELSE g[Grown(fifo_net(d), S)]])[{fifo_net(d).initial}]
BY Zenon DEF FifoClosure

LEMMA FifoTransitions ==
  ASSUME NEW d
  PROVE  LET ts == fifo_net(d).transitions
         IN  /\ DOMAIN ts = 1..3
             /\ ts[1].name = "enqueue" /\ ts[1].pre = <<0, 1>> /\ ts[1].post = <<1, 0>>
             /\ ts[2].name = "dequeue" /\ ts[2].pre = <<1, 0>> /\ ts[2].post = <<0, 1>>
             /\ ts[3].name = "leak" /\ ts[3].pre = <<1, 0>> /\ ts[3].post = <<0, 0>>
BY DEF fifo_net, fifo_leak

LEMMA FifoStepIs ==
  ASSUME NEW d, NEW mk, NEW i \in 1..3
  PROVE  LET t == fifo_net(d).transitions[i]
         IN  PtStep(fifo_net(d), mk, t.name) =
               IF ~marking_enabled(mk, t.pre) THEN Blocked ELSE fire_marking(mk, t.pre, t.post)
<1> DEFINE ts == fifo_net(d).transitions
           a == ts[i].name
           named == {k \in DOMAIN ts : ts[k].name = a}
<1>1. named = {i}
  BY FifoTransitions
<1>2. Min(named) = i
  <2>1. \A x \in {i} : i <= x OBVIOUS
  <2>. QED BY <1>1, <2>1 DEF Min
<1> HIDE DEF ts
<1>3. named # {} BY <1>1
<1>. QED BY <1>2, <1>3 DEF PtStep, ts

LEMMA FifoStep ==
  ASSUME NEW d, Modulus \in Nat, NEW mk \in Markings, NEW i \in 1..3
  PROVE  LET r == PtStep(fifo_net(d), mk, fifo_net(d).transitions[i].name)
         IN  r # Blocked => /\ r \in Markings
                            /\ r[1] + r[2] <= mk[1] + mk[2]
<1> DEFINE ts == fifo_net(d).transitions
           a == ts[i].name
           r == PtStep(fifo_net(d), mk, a)
<1>3. r = IF ~marking_enabled(mk, ts[i].pre) THEN Blocked ELSE fire_marking(mk, ts[i].pre, ts[i].post)
  BY FifoStepIs
<1>4. mk[1] \in 0..(Modulus - 1) /\ mk[2] \in 0..(Modulus - 1) /\ DOMAIN mk = 1..2
  BY DEF Markings
<1> DEFINE takes == ts[i].pre
           puts == ts[i].post
<1>5. /\ takes[1] \in 0..1 /\ takes[2] \in 0..1 /\ puts[1] \in 0..1 /\ puts[2] \in 0..1
      /\ puts[1] + puts[2] <= takes[1] + takes[2]
  BY FifoTransitions
<1> SUFFICES ASSUME r # Blocked
             PROVE  r \in Markings /\ r[1] + r[2] <= mk[1] + mk[2]
  OBVIOUS
<1> HIDE DEF takes, puts, ts, r
<1>6. takes[1] <= mk[1] /\ takes[2] <= mk[2] /\ r = fire_marking(mk, takes, puts)
  BY <1>3, <1>4 DEF marking_enabled, takes, puts
<1>7. /\ r = [p \in 1..2 |-> Wrap(mk[p] - takes[p] + puts[p])]
  BY <1>4, <1>6 DEF fire_marking, fire_place
<1>8. ASSUME NEW p \in 1..2
      PROVE  /\ r[p] = Wrap(mk[p] - takes[p] + puts[p])
             /\ Wrap(mk[p] - takes[p] + puts[p]) \in 0..(Modulus - 1)
             /\ Wrap(mk[p] - takes[p] + puts[p]) <= mk[p] - takes[p] + puts[p]
  <2>1. /\ mk[p] \in 0..(Modulus - 1) /\ takes[p] \in 0..1 /\ puts[p] \in 0..1 /\ takes[p] <= mk[p]
    BY <1>4, <1>5, <1>6
  <2>. QED BY <1>7, <2>1 DEF Wrap
<1>9. r \in Markings
  BY <1>7, <1>8 DEF Markings
<1>10. r[1] <= mk[1] - takes[1] + puts[1] /\ r[2] <= mk[2] - takes[2] + puts[2] /\ r[1] \in Nat /\ r[2] \in Nat
  BY <1>8
<1>11. r[1] + r[2] <= mk[1] + mk[2]
  BY <1>4, <1>5, <1>10
<1>. QED BY <1>9, <1>11 DEF r

LEMMA FifoWithin ==
  ASSUME FileAssumption, NEW d \in 1..MaxDepth
  PROVE  FifoClosure(d) \subseteq Within(d)
<1> DEFINE T == [S \in SUBSET Markings |-> Grown(fifo_net(d), S)]
           g == CHOOSE h : IsGrowth(h, T, Markings)
           mk0 == fifo_net(d).initial
<1>1. Modulus \in Nat /\ d \in Nat /\ d < Modulus
  BY DEF FileAssumption
<1>2. IsFiniteSet(Markings)
  BY <1>1, MarkingsFinite
<1>3. DOMAIN fifo_net(d).transitions = 1..3
  BY FifoTransitions
<1>4. ASSUME NEW S \in SUBSET Markings
      PROVE  S \subseteq Grown(fifo_net(d), S) /\ Grown(fifo_net(d), S) \in SUBSET Markings
  <2>1. ASSUME NEW s \in S, NEW i \in 1..3,
               PtStep(fifo_net(d), s, fifo_net(d).transitions[i].name) # Blocked
        PROVE  PtStep(fifo_net(d), s, fifo_net(d).transitions[i].name) \in Markings
    BY <1>1, <2>1, FifoStep
  <2>. QED BY <1>3, <2>1 DEF Grown
<1>5. ASSUME NEW S \in SUBSET Within(d)
      PROVE  Grown(fifo_net(d), S) \subseteq Within(d)
  <2>1. ASSUME NEW s \in S, NEW i \in 1..3,
               PtStep(fifo_net(d), s, fifo_net(d).transitions[i].name) # Blocked
        PROVE  PtStep(fifo_net(d), s, fifo_net(d).transitions[i].name) \in Within(d)
    <3> DEFINE r == PtStep(fifo_net(d), s, fifo_net(d).transitions[i].name)
    <3>1. s \in Markings /\ s[1] + s[2] <= d /\ s[1] \in Nat /\ s[2] \in Nat
      BY DEF Within, Markings
    <3>2. r \in Markings /\ r[1] + r[2] <= s[1] + s[2]
      BY <1>1, <2>1, <3>1, FifoStep
    <3> HIDE DEF r
    <3>3. r[1] \in Nat /\ r[2] \in Nat
      BY <3>2 DEF Markings
    <3>4. r \in Within(d)
      BY <1>1, <3>1, <3>2, <3>3 DEF Within
    <3>. QED BY <3>4 DEF r
  <2>. QED BY <1>3, <2>1 DEF Grown
<1>6. \A S, R \in SUBSET Markings : S \subseteq R => Grown(fifo_net(d), S) \subseteq Grown(fifo_net(d), R)
  BY DEF Grown
<1>7. /\ T \in [SUBSET Markings -> SUBSET Markings]
      /\ \A S \in SUBSET Markings : T[S] = Grown(fifo_net(d), S)
  BY <1>4
<1> HIDE DEF T
<1>8. \A S \in SUBSET Markings : S \subseteq T[S]
  BY <1>4, <1>7
<1>9. \A S, R \in SUBSET Markings : S \subseteq R => T[S] \subseteq T[R]
  BY <1>6, <1>7
<1>10. IsGrowth(g, T, Markings)
  <2>1. \E h : IsGrowth(h, T, Markings)
    BY <1>7, <1>8, <1>9, GrowthExists
  <2>. QED BY <2>1
<1>11. FifoClosure(d) = g[{mk0}]
  <2>1. \A h : IsGrowth(h, T, Markings) <=>
               h = [S \in SUBSET Markings |-> IF Grown(fifo_net(d), S) = S THEN S ELSE h[Grown(fifo_net(d), S)]]
    BY <1>7 DEF IsGrowth
  <2>2. (CHOOSE h : IsGrowth(h, T, Markings))
          = (CHOOSE h : h = [S \in SUBSET Markings |->
                               IF Grown(fifo_net(d), S) = S THEN S ELSE h[Grown(fifo_net(d), S)]])
    BY <2>1
  <2>. QED BY <2>2, FifoClosureIs, Zenon DEF g, mk0
<1>12. mk0 \in Within(d)
  <2>1. mk0 = <<0, d>>
    BY DEF fifo_net
  <2>. QED BY <1>1, <2>1 DEF Within, Markings
<1>13. /\ Within(d) \in SUBSET Markings /\ {mk0} \in SUBSET Within(d)
       /\ \A S \in SUBSET Within(d) : T[S] \subseteq Within(d)
  BY <1>5, <1>7, <1>12 DEF Within
<1> HIDE DEF g, mk0
<1>14. g[{mk0}] \subseteq Within(d)
  <2> DEFINE W == Within(d)
             R == {mk0}
  <2>1. W \in SUBSET Markings /\ R \in SUBSET W /\ \A S \in SUBSET W : T[S] \subseteq W
    BY <1>13
  <2> HIDE DEF W, R
  <2>2. Grows(T, Markings) /\ StaysIn(T, W)
    BY <1>7, <1>8, <2>1 DEF Grows, StaysIn
  <2>3. g[R] \subseteq W
    BY <1>2, <1>10, <2>1, <2>2, GrowthWithin
  <2>. QED BY <2>3 DEF W, R
<1>. QED BY <1>11, <1>14

LEMMA Diagonal ==
  ASSUME NEW k \in Nat
  PROVE  LET D == {<<i, k - i>> : i \in 0..k}
         IN  IsFiniteSet(D) /\ Cardinality(D) = k + 1
<1> DEFINE D == {<<i, k - i>> : i \in 0..k}
           f == [i \in 0..k |-> <<i, k - i>>]
           I == 0..k
<1>1. IsFiniteSet(I) /\ Cardinality(I) = k + 1
  BY FS_Interval
<1>2. f \in Bijection(I, D)
  <2>1. ASSUME NEW i \in I, NEW j \in I, f[i] = f[j]
        PROVE  i = j
    <3>1. f[i][1] = i /\ f[j][1] = j
      OBVIOUS
    <3> HIDE DEF f
    <3>. QED BY <2>1, <3>1
  <2>2. f \in Surjection(I, D)
    BY DEF Surjection
  <2> HIDE DEF f, I, D
  <2>. QED BY <2>1, <2>2, Zenon DEF Bijection, Injection, Surjection, IsInjective
<1> HIDE DEF D, f, I
<1>3. IsFiniteSet(D) /\ Cardinality(D) = Cardinality(I)
  BY <1>1, <1>2, FS_Bijection DEF ExistsBijection
<1>. QED BY <1>1, <1>3 DEF D

LEMMA WithinCount ==
  ASSUME Modulus \in Nat, NEW d \in Nat, d < Modulus
  PROVE  IsFiniteSet(Within(d)) /\ 2 * Cardinality(Within(d)) = (d + 1) * (d + 2)
<1> DEFINE T == {n \in Nat : n < Modulus => 2 * Cardinality(Within(n)) = (n + 1) * (n + 2)}
<1>1. ASSUME NEW n \in Nat PROVE IsFiniteSet(Within(n)) /\ Cardinality(Within(n)) \in Nat
  BY MarkingsFinite, FS_Subset, FS_CardinalityType DEF Within
<1>2. ASSUME NEW n \in Nat, NEW mk \in Within(n)
      PROVE  mk[1] \in Nat /\ mk[2] \in Nat /\ mk[1] + mk[2] <= n /\ mk = <<mk[1], mk[2]>>
  BY DEF Within, Markings
<1>3. ASSUME NEW n \in Nat, n < Modulus, NEW i \in Nat, NEW j \in Nat, i + j <= n
      PROVE  <<i, j>> \in Within(n)
  <2>1. i \in 0..(Modulus - 1) /\ j \in 0..(Modulus - 1)
    BY <1>3
  <2>. QED BY <1>3, <2>1 DEF Within, Markings
<1>4. 0 \in T
  <2> SUFFICES ASSUME 0 < Modulus PROVE 2 * Cardinality(Within(0)) = 2
    OBVIOUS
  <2>1. Within(0) = {<<0, 0>>}
    <3>1. <<0, 0>> \in Within(0)
      BY <1>3
    <3>2. ASSUME NEW mk \in Within(0) PROVE mk = <<0, 0>>
      <4>1. mk[1] \in Nat /\ mk[2] \in Nat /\ mk[1] + mk[2] <= 0 /\ mk = <<mk[1], mk[2]>>
        <5>1. 0 \in Nat OBVIOUS
        <5>. QED BY <1>2, <5>1
      <4>2. mk[1] = 0 /\ mk[2] = 0
        BY <4>1
      <4>. QED BY <4>1, <4>2
    <3>. QED BY <3>1, <3>2
  <2> DEFINE mk0 == <<0, 0>>
  <2>2. Cardinality({mk0}) = 1
    <3> HIDE DEF mk0
    <3>. QED BY FS_Singleton, Zenon
  <2>3. Within(0) = {mk0}
    BY <2>1
  <2> HIDE DEF mk0
  <2>. QED BY <2>2, <2>3
<1>5. ASSUME NEW n \in Nat, n \in T
      PROVE  n + 1 \in T
  <2> SUFFICES ASSUME n + 1 < Modulus
               PROVE  2 * Cardinality(Within(n + 1)) = ((n + 1) + 1) * ((n + 1) + 2)
    OBVIOUS
  <2> DEFINE D == {<<i, (n + 1) - i>> : i \in 0..(n + 1)}
             W == Within(n)
  <2>1. IsFiniteSet(D) /\ Cardinality(D) = n + 2
    <3>1. n + 1 \in Nat OBVIOUS
    <3>2. IsFiniteSet(D) /\ Cardinality(D) = (n + 1) + 1
      BY <3>1, Diagonal
    <3> HIDE DEF D
    <3>. QED BY <3>2
  <2>2. Within(n + 1) \subseteq W \cup D
    <3> SUFFICES ASSUME NEW mk \in Within(n + 1), mk \notin W PROVE mk \in D
      OBVIOUS
    <3>1. mk[1] \in Nat /\ mk[2] \in Nat /\ mk[1] + mk[2] <= n + 1 /\ mk = <<mk[1], mk[2]>>
      BY <1>2
    <3>2. ~(mk[1] + mk[2] <= n)
      BY DEF Within
    <3>3. mk[1] \in 0..(n + 1) /\ mk[2] = (n + 1) - mk[1]
      BY <3>1, <3>2
    <3>. QED BY <3>1, <3>3
  <2>3. W \subseteq Within(n + 1)
    <3> SUFFICES ASSUME NEW mk \in W PROVE mk \in Within(n + 1)
      OBVIOUS
    <3>1. mk[1] \in Nat /\ mk[2] \in Nat /\ mk[1] + mk[2] <= n
      BY <1>2
    <3>2. mk[1] + mk[2] <= n + 1
      BY <3>1
    <3>. QED BY <3>2 DEF Within
  <2>4. ASSUME NEW i \in 0..(n + 1)
        PROVE  <<i, (n + 1) - i>> \in Within(n + 1) /\ <<i, (n + 1) - i>> \notin W
    <3> DEFINE j == (n + 1) - i
    <3>1. i \in Nat /\ j \in Nat /\ i + j = n + 1
      OBVIOUS
    <3> HIDE DEF j
    <3>2. <<i, j>> \in Within(n + 1)
      BY <1>3, <3>1
    <3>3. <<i, j>> \notin W
      BY <3>1 DEF Within
    <3>. QED BY <3>2, <3>3 DEF j
  <2>5. Within(n + 1) = W \cup D /\ W \cap D = {}
    BY <2>2, <2>3, <2>4
  <2> HIDE DEF D
  <2>6. IsFiniteSet(W) /\ Cardinality(W) \in Nat /\ 2 * Cardinality(W) = (n + 1) * (n + 2)
    BY <1>1, <1>5
  <2> HIDE DEF W
  <2>7. Cardinality(W \cup D) = Cardinality(W) + Cardinality(D) - Cardinality({})
    BY <2>1, <2>5, <2>6, FS_Union
  <2>8. 2 * Cardinality(Within(n + 1)) = (n + 1) * (n + 2) + 2 * (n + 2)
    <3>1. Cardinality(Within(n + 1)) = Cardinality(W) + (n + 2)
      <4>1. Cardinality({}) = 0
        BY FS_EmptySet
      <4> DEFINE c == Cardinality(W)
      <4>2. Cardinality(Within(n + 1)) = c + (n + 2) - 0
        BY <2>1, <2>5, <2>7, <4>1
      <4> HIDE DEF c
      <4>3. c \in Nat
        BY <2>6 DEF c
      <4>. QED BY <4>2, <4>3 DEF c
    <3>2. (n + 1) * (n + 2) \in Nat OBVIOUS
    <3>. QED BY <2>6, <3>1, <3>2
  <2>9. (n + 1) * (n + 2) + 2 * (n + 2) = ((n + 1) + 1) * ((n + 1) + 2)
    OBVIOUS
  <2>. QED BY <2>8, <2>9
<1> HIDE DEF T
<1>6. d \in T
  BY <1>4, <1>5, CountingUp
<1>. QED BY <1>1, <1>6 DEF T

(* What the Lean file states of a FIFO is provable.                         *)
LEMMA FifoProved ==
  ASSUME Modulus \in Nat, NEW d \in Nat, d < Modulus
  PROVE  LeanProves(fifo_net(d)) /\ Mass(fifo_net(d)) = d
<1> DEFINE drawn == fifo_net(d)
<1>1. /\ drawn.initial = <<0, d>> /\ drawn.conserved = {1, 2}
      /\ DOMAIN drawn.bounds = 1..1 /\ drawn.bounds[1].places = {1} /\ drawn.bounds[1].max = d
  BY DEF fifo_net
<1>2. TokenCount(drawn.initial, drawn.conserved) = d
  BY <1>1, TokensOfTwo
<1>3. Mass(drawn) = d
  BY <1>2, Narrow DEF Mass, Tokens
<1>4. InvAtInit(drawn) /\ InvGivesBounds(drawn)
  BY <1>1, <1>2, <1>3 DEF InvAtInit, InvGivesBounds
<1>5. InvIsInductive(drawn)
  <2>1. ASSUME NEW i \in DOMAIN drawn.transitions
        PROVE  TokenCount(drawn.transitions[i].post, {1, 2}) <= TokenCount(drawn.transitions[i].pre, {1, 2})
    <3>1. /\ TokenCount(<<0, 1>>, {1, 2}) = 1 /\ TokenCount(<<1, 0>>, {1, 2}) = 1
          /\ TokenCount(<<0, 0>>, {1, 2}) = 0
      BY TokensOfTwo
    <3>2. /\ DOMAIN drawn.transitions = 1..3
          /\ drawn.transitions[1].pre = <<0, 1>> /\ drawn.transitions[1].post = <<1, 0>>
          /\ drawn.transitions[2].pre = <<1, 0>> /\ drawn.transitions[2].post = <<0, 1>>
          /\ drawn.transitions[3].pre = <<1, 0>> /\ drawn.transitions[3].post = <<0, 0>>
      BY FifoTransitions
    <3> HIDE DEF drawn
    <3>3. i = 1 \/ i = 2 \/ i = 3
      BY <3>2
    <3>. QED BY <3>1, <3>2, <3>3
  <2>. QED BY <1>1, <2>1 DEF InvIsInductive
<1>. QED BY <1>3, <1>4, <1>5 DEF LeanProves

(* What check explores of a FIFO is safe and no more than it expects, and   *)
(* what prove states of it holds, for every depth.                          *)
LEMMA FifoFacts ==
  ASSUME FileAssumption, NEW d \in 1..MaxDepth
  PROVE  SafeFifo(d) /\ CheckedFifo(d) /\ LeanProves(fifo_net(d))
<1> DEFINE drawn == fifo_net(d)
<1>1. Modulus \in Nat /\ d \in Nat /\ d < Modulus /\ d > 0
  BY DEF FileAssumption
<1>2. FifoClosure(d) \subseteq Within(d)
  BY FifoWithin
<1>3. ASSUME NEW mk \in Within(d) PROVE ~PtForbidden(drawn, mk)
  <2>1. mk[1] \in 0..(Modulus - 1) /\ mk[2] \in Nat /\ mk[1] + mk[2] <= d
    BY DEF Within, Markings
  <2>2. TokenCount(mk, {1}) = mk[1] /\ mk[1] \in Nat /\ mk[1] < Modulus
    <3>1. mk[1] \in Nat /\ mk[1] < Modulus
      BY <1>1, <2>1
    <3>. QED BY <3>1, TokensOfOne
  <2>3. Tokens(mk, {1}) = mk[1] /\ mk[1] <= d
    <3>1. Modulus \in Nat \ {0}
      BY <1>1
    <3>2. mk[1] % Modulus = mk[1]
      BY <2>2, <3>1, Narrow
    <3>. QED BY <1>1, <2>1, <2>2, <3>2 DEF Tokens
  <2>4. DOMAIN drawn.bounds = 1..1 /\ drawn.bounds[1].places = {1} /\ drawn.bounds[1].max = d
    BY DEF fifo_net
  <2> HIDE DEF drawn
  <2>5. ASSUME NEW i \in DOMAIN drawn.bounds
        PROVE  ~(Tokens(mk, drawn.bounds[i].places) > drawn.bounds[i].max)
    <3>1. i = 1 /\ drawn.bounds[i].places = {1} /\ drawn.bounds[i].max = d
      BY <2>4
    <3>2. Tokens(mk, drawn.bounds[i].places) = mk[1]
      BY <2>3, <3>1
    <3>. QED BY <1>1, <2>1, <2>3, <3>1, <3>2
  <2>. QED BY <2>5 DEF PtForbidden
<1>4. SafeFifo(d)
  BY <1>2, <1>3 DEF SafeFifo
<1>5. Cardinality(FifoClosure(d)) <= reachable_markings(d) + 1
  <2> DEFINE c == Cardinality(FifoClosure(d))
             w == Cardinality(Within(d))
             n == (d + 1) * (d + 2)
  <2>1. IsFiniteSet(Within(d)) /\ 2 * w = n
    BY <1>1, WithinCount
  <2>2. c <= w /\ c \in Nat /\ w \in Nat
    BY <1>2, <2>1, FS_Subset, FS_CardinalityType
  <2>3. n \in Nat
    BY <1>1
  <2>4. reachable_markings(d) = n \div 2
    BY DEF reachable_markings
  <2> HIDE DEF c, w, n
  <2>. QED BY <2>1, <2>2, <2>3, <2>4 DEF c
<1>6. LeanProves(drawn)
  BY <1>1, FifoProved
<1>. QED BY <1>4, <1>5, <1>6 DEF CheckedFifo

-----------------------------------------------------------------------------
(* The obligations of a file.                                               *)
Flattens(f, ss, n) == f = [i \in 1..n |-> IF i = 1 THEN ss[i] ELSE f[i - 1] \o ss[i]]

LEMMA FlattenSeqIs ==
  ASSUME NEW ss, Len(ss) # 0
  PROVE  FlattenSeq(ss) = (CHOOSE f : Flattens(f, ss, Len(ss)))[Len(ss)]
BY Zenon DEF FlattenSeq, Flattens

LEMMA FlattenExists ==
  ASSUME NEW S, NEW ss \in Seq(Seq(S)), NEW n \in 1..Len(ss)
  PROVE  \E f : Flattens(f, ss, n)
<1> DEFINE T == {k \in Nat : k <= Len(ss) => \E f : Flattens(f, ss, k)}
<1>1. Len(ss) \in Nat
  BY LenProperties
<1>2. 0 \in T
  <2>1. Flattens([i \in 1..0 |-> i], ss, 0)
    BY DEF Flattens
  <2>. QED BY <2>1
<1>3. ASSUME NEW k \in Nat, k \in T
      PROVE  k + 1 \in T
  <2> SUFFICES ASSUME k + 1 <= Len(ss)
               PROVE  \E f : Flattens(f, ss, k + 1)
    OBVIOUS
  <2>1. PICK f : Flattens(f, ss, k)
    BY <1>1, <1>3
  <2> DEFINE E(g, i) == IF i = 1 THEN ss[i] ELSE g[i - 1] \o ss[i]
             h == [i \in 1..(k + 1) |-> IF i <= k THEN f[i] ELSE E(f, i)]
  <2>2. f = [i \in 1..k |-> E(f, i)]
    BY <2>1 DEF Flattens
  <2>3. \A i \in 1..k : f[i] = E(f, i)
    <3> HIDE DEF E
    <3>. QED BY <2>2
  <2>4. ASSUME NEW i \in 1..(k + 1)
        PROVE  h[i] = E(h, i)
    <3>1. i # 1 => i - 1 \in 1..k /\ i - 1 \in 1..(k + 1)
      OBVIOUS
    <3>2. i # 1 => h[i - 1] = f[i - 1]
      BY <3>1
    <3>3. h[i] = E(f, i)
      <4>1. CASE i <= k
        <5>1. i \in 1..k BY <4>1
        <5>2. f[i] = E(f, i) BY <2>3, <5>1
        <5> HIDE DEF E
        <5>. QED BY <4>1, <5>2
      <4>2. CASE ~(i <= k)
        BY <4>2
      <4>. QED BY <4>1, <4>2
    <3> HIDE DEF h
    <3>. QED BY <3>2, <3>3
  <2>5. h = [i \in 1..(k + 1) |-> h[i]]
    OBVIOUS
  <2> HIDE DEF h
  <2>6. h = [i \in 1..(k + 1) |-> E(h, i)]
    <3> HIDE DEF E
    <3>. QED BY <2>4, <2>5
  <2>7. Flattens(h, ss, k + 1)
    BY <2>6 DEF Flattens
  <2>. QED BY <2>7
<1> HIDE DEF T
<1>4. \A k \in Nat : k \in T
  BY <1>2, <1>3, CountingUp
<1>. QED BY <1>1, <1>4 DEF T

LEMMA Flattened ==
  ASSUME NEW S, NEW ss \in Seq(Seq(S))
  PROVE  /\ FlattenSeq(ss) \in Seq(S)
         /\ Range(FlattenSeq(ss)) = UNION {Range(ss[i]) : i \in DOMAIN ss}
<1> DEFINE n == Len(ss)
           f == CHOOSE g : Flattens(g, ss, n)
<1>1. n \in Nat /\ DOMAIN ss = 1..n /\ \A i \in 1..n : ss[i] \in Seq(S)
  BY LenProperties
<1>2. CASE n = 0
  <2>1. FlattenSeq(ss) = ss /\ ss = <<>>
    BY <1>2, EmptySeq DEF FlattenSeq
  <2>. QED BY <2>1 DEF Range
<1>3. CASE n # 0
  <2>1. n \in 1..n
    BY <1>1, <1>3
  <2>2. Flattens(f, ss, n)
    BY <2>1, FlattenExists
  <2>3. FlattenSeq(ss) = f[n]
    BY <1>3, FlattenSeqIs
  <2> HIDE DEF f
  <2> DEFINE E(i) == IF i = 1 THEN ss[i] ELSE f[i - 1] \o ss[i]
  <2>4. f = [i \in 1..n |-> E(i)]
    BY <2>2 DEF Flattens
  <2>5. \A i \in 1..n : f[i] = E(i)
    <3> HIDE DEF E, n
    <3>. QED BY <2>4
  <2> DEFINE R(k) == f[k] \in Seq(S) /\ Range(f[k]) = UNION {Range(ss[i]) : i \in 1..k}
             T == {k \in Nat : k + 1 <= n => R(k + 1)}
  <2>6. 0 \in T
    <3>1. f[1] = ss[1] /\ 1 \in 1..n
      BY <1>1, <1>3, <2>5
    <3>2. {Range(ss[i]) : i \in 1..1} = {Range(ss[1])}
      <4>1. \A i \in 1..1 : i = 1 OBVIOUS
      <4>. QED BY <4>1
    <3>. QED BY <1>1, <3>1, <3>2
  <2>7. ASSUME NEW k \in Nat, k \in T
        PROVE  k + 1 \in T
    <3> DEFINE j == k + 1
    <3> SUFFICES ASSUME j + 1 <= n PROVE R(j + 1)
      OBVIOUS
    <3>1. j \in Nat /\ j \in 1..n /\ j + 1 \in 1..n /\ j + 1 # 1 /\ (j + 1) - 1 = j
      BY <1>1
    <3>2. R(j)
      BY <1>1, <2>7
    <3>3. f[j + 1] = f[j] \o ss[j + 1]
      BY <2>5, <3>1
    <3>4. ss[j + 1] \in Seq(S)
      BY <1>1, <3>1
    <3>5. f[j + 1] \in Seq(S) /\ Range(f[j + 1]) = Range(f[j]) \cup Range(ss[j + 1])
      BY <3>2, <3>3, <3>4, ConcatProperties, RangeConcatenation
    <3> HIDE DEF j
    <3>6. 1..(j + 1) = 1..j \cup {j + 1}
      BY <3>1
    <3>7. UNION {Range(ss[i]) : i \in 1..(j + 1)} =
            (UNION {Range(ss[i]) : i \in 1..j}) \cup Range(ss[j + 1])
      BY <3>6
    <3>. QED BY <3>2, <3>5, <3>7
  <2>8. n - 1 \in T
    <3> HIDE DEF T
    <3>1. \A k \in Nat : k \in T
      BY <2>6, <2>7, CountingUp
    <3>. QED BY <1>1, <1>3, <3>1
  <2>9. R(n)
    <3>1. (n - 1) + 1 = n BY <1>1
    <3> HIDE DEF R
    <3>. QED BY <1>1, <2>8, <3>1
  <2>. QED BY <1>1, <2>3, <2>9
<1>. QED BY <1>2, <1>3

-----------------------------------------------------------------------------
(* What a module asks for, and what its refusals are.                       *)
IsFile(ms) == ms \in Seq(Range(ms)) /\ \A m \in Range(ms) : IsDesign(m)
Clean(m) == m.fsm # Refused /\ Range(m.depths) \subseteq 1..MaxDepth
JobsOf(m) == Range(ModuleJobs(m))
FileJobs(ms, n) == UNION {JobsOf(ms[i]) : i \in 1..n}

LEMMA FifoIsNoMachine == ASSUME NEW d PROVE ~IsMachine(Fifo(d)) /\ Fifo(d).depth = d
BY DEF IsMachine, Fifo

LEMMA FileModules ==
  ASSUME NEW ms, IsFile(ms)
  PROVE  /\ Len(ms) \in Nat /\ DOMAIN ms = 1..Len(ms)
         /\ \A i \in 1..Len(ms) : IsDesign(ms[i])
<1>1. Len(ms) \in Nat /\ DOMAIN ms = 1..Len(ms)
  BY DEF IsFile
<1>. QED BY <1>1 DEF IsFile, Range

LEMMA FsmPart ==
  ASSUME NEW m
  PROVE  /\ FsmJobs(m) \in Seq(Range(FsmJobs(m)))
         /\ Range(FsmJobs(m)) = {m.fsm} \ {NoFsm, Refused}
<1>1. CASE m.fsm \in {NoFsm, Refused}
  <2>1. FsmJobs(m) = <<>> BY <1>1 DEF FsmJobs
  <2>. QED BY <1>1, <2>1 DEF Range
<1>2. CASE m.fsm \notin {NoFsm, Refused}
  <2>1. FsmJobs(m) = <<m.fsm>> BY <1>2 DEF FsmJobs
  <2>2. Range(FsmJobs(m)) = {m.fsm} BY <2>1 DEF Range
  <2>. QED BY <1>2, <2>1, <2>2
<1>. QED BY <1>1, <1>2

LEMMA FifoPart ==
  ASSUME NEW m, IsDesign(m)
  PROVE  /\ FifoJobs(m) \in Seq(Range(FifoJobs(m)))
         /\ (extract_fifos(m) = Refused) <=> ~(Range(m.depths) \subseteq 1..MaxDepth)
         /\ extract_fifos(m) = Refused => Range(FifoJobs(m)) = {}
         /\ extract_fifos(m) # Refused => Range(FifoJobs(m)) = {Fifo(d) : d \in Range(m.depths)}
<1>1. (extract_fifos(m) = Refused) <=> ~(Range(m.depths) \subseteq 1..MaxDepth)
  BY DEF extract_fifos, IsDesign
<1>2. CASE extract_fifos(m) = Refused
  <2>1. FifoJobs(m) = <<>> BY <1>2 DEF FifoJobs
  <2>. QED BY <1>1, <1>2, <2>1 DEF Range
<1>3. CASE extract_fifos(m) # Refused
  <2> DEFINE n == Len(m.depths)
  <2>1. n \in Nat /\ DOMAIN m.depths = 1..n
    BY DEF IsDesign
  <2>2. FifoJobs(m) = [i \in 1..n |-> Fifo(m.depths[i])]
    BY <1>3, <2>1 DEF FifoJobs
  <2> HIDE DEF n
  <2>3. Range(FifoJobs(m)) = {Fifo(d) : d \in Range(m.depths)}
    BY <2>1, <2>2 DEF Range
  <2>4. FifoJobs(m) \in [1..n -> Range(FifoJobs(m))]
    BY <2>2 DEF Range
  <2>5. FifoJobs(m) \in Seq(Range(FifoJobs(m)))
    BY <2>1, <2>4, SeqDef
  <2>. QED BY <1>1, <1>3, <2>3, <2>5
<1>. QED BY <1>2, <1>3

LEMMA ModuleFacts ==
  ASSUME FileAssumption, NEW m, IsDesign(m)
  PROVE  /\ ModuleJobs(m) \in Seq(JobsOf(m))
         /\ JobsOf(m) = Range(FsmJobs(m)) \cup Range(FifoJobs(m))
         /\ Refusals(m) \in Nat
         /\ Refusals(m) = 0 <=> Clean(m)
         /\ \A job \in JobsOf(m) :
              \/ IsMachine(job) /\ job = m.fsm /\ job \notin {NoFsm, Refused}
              \/ ~IsMachine(job) /\ \E d \in Range(m.depths) \cap (1..MaxDepth) : job = Fifo(d)
         /\ m.fsm \notin {NoFsm, Refused} => m.fsm \in JobsOf(m) /\ IsMachine(m.fsm)
         /\ Clean(m) => \A d \in Range(m.depths) : Fifo(d) \in JobsOf(m)
<1> DEFINE F == FsmJobs(m)
           D == FifoJobs(m)
           S == Range(F) \cup Range(D)
<1>1. F \in Seq(Range(F)) /\ D \in Seq(Range(D))
  BY FsmPart, FifoPart
<1>2. F \in Seq(S) /\ D \in Seq(S)
  BY <1>1
<1>3. ModuleJobs(m) \in Seq(S) /\ JobsOf(m) = S
  <2> HIDE DEF F, D
  <2>1. ModuleJobs(m) = F \o D
    BY DEF ModuleJobs, F, D
  <2>2. F \o D \in Seq(S) /\ Range(F \o D) = S
    BY <1>2, ConcatProperties, RangeConcatenation
  <2>. QED BY <2>1, <2>2 DEF JobsOf
<1>4. Refusals(m) \in Nat /\ (Refusals(m) = 0 <=> Clean(m))
  BY FifoPart DEF Refusals, Clean
<1>5. m.fsm \notin {NoFsm, Refused} => IsMachine(m.fsm)
  BY DEF IsDesign, IsMachine
<1>6. \A job \in Range(F) : job = m.fsm /\ job \notin {NoFsm, Refused}
  BY FsmPart
<1>7. \A job \in Range(D) : \E d \in Range(m.depths) \cap (1..MaxDepth) : job = Fifo(d)
  BY FifoPart
<1>8. m.fsm \notin {NoFsm, Refused} => m.fsm \in Range(F)
  BY FsmPart
<1>9. Clean(m) => \A d \in Range(m.depths) : Fifo(d) \in Range(D)
  BY FifoPart DEF Clean
<1> HIDE DEF F, D
<1>10. ASSUME NEW job \in S
       PROVE  \/ IsMachine(job) /\ job = m.fsm /\ job \notin {NoFsm, Refused}
              \/ ~IsMachine(job) /\ \E d \in Range(m.depths) \cap (1..MaxDepth) : job = Fifo(d)
  BY <1>5, <1>6, <1>7, FifoIsNoMachine
<1>. QED BY <1>3, <1>4, <1>5, <1>8, <1>9, <1>10 DEF F, D

LEMMA FileIsSound ==
  ASSUME FileAssumption, NEW ms, IsFile(ms), \A i \in 1..Len(ms) : Clean(ms[i]),
         FileJobs(ms, Len(ms)) # {},
         \A job \in FileJobs(ms, Len(ms)) : IsMachine(job) => SafeMachine(job)
  PROVE  /\ ~AnyRefused(ms) /\ (Machines(ms) # {} \/ Fifos(ms) # {})
         /\ \A m \in Machines(ms) : SafeMachine(m)
         /\ \A d \in Fifos(ms) : SafeFifo(d) /\ LeanProves(fifo_net(d))
         /\ ~CheckRefutes(ms)
<1> DEFINE n == Len(ms)
<1>1. n \in Nat /\ DOMAIN ms = 1..n /\ \A i \in 1..n : IsDesign(ms[i])
  BY FileModules
<1>2. \A d \in Fifos(ms) : d \in 1..MaxDepth
  BY <1>1 DEF Fifos, Clean
<1>3. ~AnyRefused(ms)
  BY <1>1, <1>2 DEF AnyRefused, Clean
<1>4. ASSUME NEW m \in Machines(ms) PROVE SafeMachine(m)
  <2>1. PICK i \in 1..n : m = ms[i].fsm /\ m \notin {NoFsm, Refused}
    BY <1>1 DEF Machines
  <2>2. m \in JobsOf(ms[i]) /\ IsMachine(m)
    BY <1>1, <2>1, ModuleFacts
  <2>3. m \in FileJobs(ms, n)
    BY <2>2 DEF FileJobs
  <2>. QED BY <2>2, <2>3
<1>5. \A d \in Fifos(ms) : SafeFifo(d) /\ LeanProves(fifo_net(d))
  BY <1>2, FifoFacts
<1>6. Machines(ms) # {} \/ Fifos(ms) # {}
  <2>1. PICK i \in 1..n : JobsOf(ms[i]) # {}
    BY DEF FileJobs
  <2>2. PICK job \in JobsOf(ms[i]) : TRUE
    BY <2>1
  <2>3. \/ job = ms[i].fsm /\ job \notin {NoFsm, Refused}
        \/ \E d \in Range(ms[i].depths) : TRUE
    BY <1>1, <2>2, ModuleFacts
  <2>. QED BY <1>1, <2>3 DEF Machines, Fifos
<1>7. ~CheckRefutes(ms)
  BY <1>3, <1>4, <1>5 DEF CheckRefutes
<1>. QED BY <1>3, <1>4, <1>5, <1>6, <1>7

LEMMA Counted ==
  ASSUME NEW new, NEW S, new \in Seq(S), NEW P
  PROVE  LET C == {i \in DOMAIN new : new[i] \in P}
         IN  Cardinality(C) \in Nat /\ (Cardinality(C) = 0 <=> \A x \in Range(new) : x \notin P)
<1> DEFINE C == {i \in DOMAIN new : new[i] \in P}
<1>1. IsFiniteSet(DOMAIN new)
  BY FS_Interval
<1>2. IsFiniteSet(C)
  BY <1>1, FS_Subset
<1>3. Cardinality(C) \in Nat /\ (Cardinality(C) = 0 <=> C = {})
  BY <1>2, FS_CardinalityType, FS_EmptySet
<1>4. C = {} <=> \A x \in Range(new) : x \notin P
  BY DEF Range
<1>. QED BY <1>3, <1>4

LEMMA OneMachine ==
  ASSUME NEW ms, IsFile(ms)
  PROVE  IF IsMachine(one_fsm(ms))
         THEN /\ \A i \in DOMAIN ms : ms[i].fsm # Refused
              /\ Cardinality({i \in DOMAIN ms : ms[i].fsm # NoFsm}) = 1
              /\ Machines(ms) = {one_fsm(ms)}
         ELSE one_fsm(ms).exit \in {1, 2}
<1> DEFINE n == Len(ms)
           found == {i \in DOMAIN ms : ms[i].fsm # NoFsm}
           stop == {i \in DOMAIN ms : \/ ms[i].fsm = Refused
                                      \/ ms[i].fsm # NoFsm /\ \E j \in 1..(i - 1) : ms[j].fsm # NoFsm}
           v == IF ms[Min(stop)].fsm = Refused THEN 1 ELSE 2
<1>1. n \in Nat /\ DOMAIN ms = 1..n /\ \A i \in 1..n : IsDesign(ms[i])
  BY FileModules
<1>2. one_fsm(ms) = IF stop # {} THEN [exit |-> v]
                    ELSE IF found = {} THEN [exit |-> 2] ELSE ms[Min(found)].fsm
  BY Zenon DEF one_fsm
<1>3. \A w : ~IsMachine([exit |-> w])
  BY DEF IsMachine
<1>4. v \in {1, 2}
  OBVIOUS
<1> HIDE DEF v
<1>5. CASE stop # {} \/ found = {}
  <2> HIDE DEF stop, found
  <2>1. one_fsm(ms) = [exit |-> v] \/ one_fsm(ms) = [exit |-> 2]
    BY <1>2, <1>5
  <2>2. ~IsMachine(one_fsm(ms)) /\ one_fsm(ms).exit \in {1, 2}
    BY <1>3, <1>4, <2>1
  <2>. QED BY <2>2
<1>6. CASE stop = {} /\ found # {}
  <2>1. one_fsm(ms) = ms[Min(found)].fsm
    <3> HIDE DEF stop, found
    <3>. QED BY <1>2, <1>6
  <2>2. PICK x \in found : \A y \in found : x <= y
    BY <1>1, <1>6, LeastNumber
  <2>3. \A y \in found : y = x
    <3> SUFFICES ASSUME NEW y \in found, x < y PROVE FALSE
      BY <1>1, <2>2
    <3>1. y \in stop
      BY <1>1
    <3>. QED BY <1>6, <3>1
  <2>4. found = {x}
    BY <2>2, <2>3
  <2>5. Min(found) = x
    BY <1>1, <2>2, <2>3 DEF Min
  <2>6. \A i \in DOMAIN ms : ms[i].fsm # Refused
    BY <1>6
  <2>7. Machines(ms) = {ms[x].fsm}
    BY <2>2, <2>4, <2>6 DEF Machines
  <2>8. IsMachine(ms[x].fsm)
    BY <1>1, <2>2, <2>6 DEF IsDesign, IsMachine
  <2>9. Cardinality(found) = 1
    BY <2>4, FS_Singleton
  <2>. QED BY <2>1, <2>5, <2>6, <2>7, <2>8, <2>9
<1>. QED BY <1>5, <1>6

-----------------------------------------------------------------------------
(* The invariant of the three commands.                                     *)
Tallies == [errors : Nat, deferred : Nat, unsafe : Nat, proved : Nat, vacuous : Nat, failed : Nat]

Loaded ==
  /\ inv = [verb |-> inv.verb, files |-> inv.files, emit |-> inv.emit, prove |-> inv.prove]
  /\ inv.verb \in {"check", "prove", "equiv", "bisimulation"}
  /\ inv.files \in Seq(Range(inv.files))
  /\ Len(inv.files) = IF inv.verb \in {"equiv", "bisimulation"} THEN 2 ELSE 1
  /\ \A f \in Range(inv.files) : IsFile(f)
  /\ done \in Nat /\ tally \in Tallies

(* check has the obligations of the modules it has read and counts their    *)
(* refusals and the unsafe ones.                                            *)
CheckInv ==
  inv.verb = "check" =>
    /\ done <= Len(File)
    /\ jobs \in Seq(FileJobs(File, done)) /\ Range(jobs) = FileJobs(File, done)
    /\ tally.errors = 0 <=> \A i \in 1..done : Clean(File[i])
    /\ tally.unsafe = 0 <=> \A job \in Range(jobs) : ~Refuted(job)
    /\ ~Pending =>
         /\ done = Len(File)
         /\ code = IF jobs = <<>> /\ tally.errors = 0 THEN 2
                   ELSE IF tally.unsafe > 0 \/ tally.errors > 0 THEN 1 ELSE 0

(* prove goes on only with all the obligations of a file without refusals,  *)
(* and what has not failed holds.                                           *)
ProveInv ==
  inv.verb = "prove" =>
    /\ jobs = <<>> => done = 0 /\ code # 0
    /\ jobs # <<>> => jobs \in Seq(FileJobs(File, Len(File)))
                      /\ Range(jobs) = FileJobs(File, Len(File))
                      /\ done <= Len(jobs)
    /\ jobs # <<>> /\ code \in {NoFsm, 0} => \A i \in 1..Len(File) : Clean(File[i])
    /\ code \in {NoFsm, 0} /\ tally.failed = 0 =>
         tally.proved + tally.vacuous = done /\ \A i \in 1..done : Holds(jobs[i])
    /\ code = 0 => done = Len(jobs) /\ tally.failed = 0

EquivInv ==
  inv.verb \in {"equiv", "bisimulation"} =>
    LET m == one_fsm(inv.files[1])
        n == one_fsm(inv.files[2])
    IN  /\ code = 0 \/ inv.verb = "bisimulation" => IsMachine(m) /\ IsMachine(n)
        /\ code = 0 => Diverging(m, n) = {}

DesignInv == Loaded /\ CheckInv /\ ProveInv /\ EquivInv

(* The invariant gives what is said of an exit 0.                           *)
LEMMA PassIsSound ==
  ASSUME FileAssumption, DesignInv
  PROVE  PassIsAboutTheWholeFile
<1> USE DEF DesignInv
<1>0. NoFsm \notin 0..2 BY FileAssumption
<1>1. inv.verb \in {"check", "prove"} => IsFile(File)
  BY DEF Loaded, File, Range
<1>2. inv.verb \in {"equiv", "bisimulation"} => IsFile(inv.files[1]) /\ IsFile(inv.files[2])
  BY DEF Loaded, Range
<1>3. ASSUME inv.verb = "check", code = 0
      PROVE  /\ \A i \in 1..Len(File) : Clean(File[i])
             /\ FileJobs(File, Len(File)) # {} /\ Range(jobs) = FileJobs(File, Len(File))
             /\ \A job \in Range(jobs) : ~Refuted(job)
  <2>1. done = Len(File) /\ tally.unsafe = 0 /\ tally.errors = 0 /\ jobs # <<>>
    BY <1>0, <1>3 DEF CheckInv, Loaded, Tallies, Pending
  <2>2. Range(jobs) # {}
    BY <1>3, <2>1, EmptySeq DEF CheckInv, Range
  <2>. QED BY <1>3, <2>1, <2>2 DEF CheckInv
<1>4. ASSUME inv.verb = "prove", code = 0
      PROVE  /\ \A i \in 1..Len(File) : Clean(File[i])
             /\ FileJobs(File, Len(File)) # {} /\ Range(jobs) = FileJobs(File, Len(File))
             /\ \A job \in Range(jobs) : Holds(job)
             /\ tally.proved + tally.vacuous = Len(jobs)
  <2>1. jobs # <<>> /\ done = Len(jobs) /\ tally.failed = 0
    BY <1>4 DEF ProveInv
  <2>2. jobs \in Seq(Range(jobs)) /\ Range(jobs) = FileJobs(File, Len(File))
    BY <1>4, <2>1 DEF ProveInv
  <2>3. Range(jobs) # {}
    BY <2>1, <2>2, EmptySeq DEF Range
  <2>4. \A job \in Range(jobs) : Holds(job)
    <3>1. DOMAIN jobs = 1..Len(jobs)
      BY <2>2
    <3>. QED BY <1>4, <2>1, <3>1 DEF ProveInv, Range
  <2>. QED BY <1>4, <2>1, <2>2, <2>3, <2>4 DEF ProveInv
<1>5. \A job : IsMachine(job) /\ (Holds(job) \/ ~Refuted(job)) => SafeMachine(job)
  BY DEF Holds, Refuted, CheckedMachine
<1>6. ASSUME inv.verb \in {"check", "prove"}, code = 0
      PROVE  /\ ~AnyRefused(File) /\ (Machines(File) # {} \/ Fifos(File) # {})
             /\ \A m \in Machines(File) : SafeMachine(m)
             /\ \A d \in Fifos(File) : SafeFifo(d) /\ LeanProves(fifo_net(d))
             /\ ~CheckRefutes(File)
             /\ inv.verb = "prove" => tally.proved + tally.vacuous = Len(jobs)
  <2>1. /\ \A i \in 1..Len(File) : Clean(File[i])
        /\ FileJobs(File, Len(File)) # {}
        /\ \A job \in FileJobs(File, Len(File)) : IsMachine(job) => SafeMachine(job)
    BY <1>3, <1>4, <1>5, <1>6
  <2>2. inv.verb = "prove" => tally.proved + tally.vacuous = Len(jobs)
    BY <1>4, <1>6
  <2>. QED BY <1>1, <1>6, <2>1, <2>2, FileIsSound
<1>7. ASSUME inv.verb \in {"equiv", "bisimulation"}, code = 0
      PROVE  /\ \A f \in {1, 2} : /\ ~\E i \in DOMAIN inv.files[f] : inv.files[f][i].fsm = Refused
                                  /\ Cardinality({i \in DOMAIN inv.files[f] : inv.files[f][i].fsm # NoFsm}) = 1
             /\ \A m \in Machines(inv.files[1]), n \in Machines(inv.files[2]) : Diverging(m, n) = {}
  <2>1. /\ IsMachine(one_fsm(inv.files[1])) /\ IsMachine(one_fsm(inv.files[2]))
        /\ Diverging(one_fsm(inv.files[1]), one_fsm(inv.files[2])) = {}
    BY <1>7 DEF EquivInv
  <2>. QED BY <1>2, <1>7, <2>1, OneMachine
<1>8. PassIsEarned
  BY <1>6, <1>7 DEF PassIsEarned
<1>9. ASSUME inv.verb = "check", code = 0, NEW job \in Range(jobs)
      PROVE  "closed" \in Outcomes(Holds(job))
  <2>1. PICK i \in 1..Len(File) : job \in JobsOf(File[i])
    BY <1>3, <1>9 DEF FileJobs
  <2>2. IsDesign(File[i])
    BY <1>1, <1>9, FileModules
  <2>3. CASE IsMachine(job)
    BY <1>3, <1>5, <1>9, <2>3 DEF Holds, Outcomes
  <2>4. CASE ~IsMachine(job)
    <3>1. PICK d \in 1..MaxDepth : job = Fifo(d)
      BY <2>1, <2>2, <2>4, ModuleFacts
    <3>. QED BY <2>4, <3>1, FifoIsNoMachine, FifoFacts DEF Holds, Outcomes
  <2>. QED BY <2>3, <2>4
<1>10. ASSUME inv.verb = "check", code = 1, ~CheckRefutes(File)
       PROVE  \E m \in Machines(File) : ~WithinBound(m)
  <2>1. Len(File) \in Nat /\ DOMAIN File = 1..Len(File) /\ \A i \in 1..Len(File) : IsDesign(File[i])
    BY <1>1, <1>10, FileModules
  <2>2. \A i \in 1..Len(File) : Clean(File[i])
    BY <1>10, <2>1 DEF CheckRefutes, AnyRefused, Fifos, Clean
  <2>3. ~Pending
    BY <1>0, <1>10 DEF Pending
  <2>4. tally.errors = 0 /\ tally.unsafe > 0
    BY <1>10, <2>2, <2>3 DEF CheckInv
  <2>5. PICK job \in Range(jobs) : Refuted(job)
    BY <1>10, <2>4 DEF CheckInv
  <2>6. PICK i \in 1..Len(File) : job \in JobsOf(File[i])
    BY <1>10, <2>3, <2>5 DEF CheckInv, FileJobs
  <2>7. CASE IsMachine(job)
    <3>1. job = File[i].fsm /\ job \notin {NoFsm, Refused}
      BY <2>1, <2>6, <2>7, ModuleFacts
    <3>2. job \in Machines(File)
      BY <2>1, <3>1 DEF Machines
    <3>3. SafeMachine(job) /\ ~CheckedMachine(job)
      BY <1>10, <2>5, <2>7, <3>2 DEF CheckRefutes, Refuted
    <3>. QED BY <3>2, <3>3 DEF CheckedMachine
  <2>8. CASE ~IsMachine(job)
    <3>1. PICK d \in 1..MaxDepth : job = Fifo(d)
      BY <2>1, <2>6, <2>8, ModuleFacts
    <3>. QED BY <2>5, <2>8, <3>1, FifoIsNoMachine, FifoFacts DEF Refuted
  <2>. QED BY <2>7, <2>8
<1>11. CheckAgreesWithProve
  BY <1>6, <1>9, <1>10 DEF CheckAgreesWithProve
<1>. QED BY <1>8, <1>11 DEF PassIsAboutTheWholeFile

LEMMA DesignStarts == ASSUME FileAssumption, FpgaCliInit PROVE DesignInv
<1> DEFINE asked == inv
<1>0. NoFsm \notin 0..2 BY FileAssumption
<1>1. /\ asked = [verb |-> asked.verb, files |-> asked.files, emit |-> asked.emit, prove |-> asked.prove]
      /\ asked.verb \in {"check", "prove", "equiv"}
      /\ asked.files \in Seq(Range(asked.files))
      /\ Len(asked.files) = IF asked.verb = "equiv" THEN 2 ELSE 1
      /\ \A f \in Range(asked.files) : f \in Seq(Range(f)) /\ \A m \in Range(f) : IsDesign(m)
  BY FileAssumption DEF FpgaCliInit
<1>2. Loaded
  BY <1>1 DEF Loaded, IsFile, FpgaCliInit, Counters, Tallies
<1>3. ~(inv.verb = "bisimulation")
  BY <1>1
<1>4. CheckInv
  <2> SUFFICES ASSUME inv.verb = "check" PROVE CheckInv
    BY DEF CheckInv
  <2>1. IsFile(File)
    BY <1>2 DEF Loaded, File, Range
  <2>2. Len(File) \in Nat
    BY <2>1, FileModules
  <2>3. Range(jobs) = {} /\ FileJobs(File, done) = {}
    BY DEF FpgaCliInit, Range, FileJobs
  <2>4. jobs \in Seq(FileJobs(File, done)) /\ done <= Len(File)
    BY <2>2, EmptySeq DEF FpgaCliInit
  <2>5. \A i \in 1..done : Clean(File[i])
    BY DEF FpgaCliInit
  <2>6. tally.errors = 0 /\ tally.unsafe = 0 /\ Pending
    BY DEF FpgaCliInit, Counters, Pending
  <2>. QED BY <2>3, <2>4, <2>5, <2>6 DEF CheckInv
<1>5. ProveInv
  BY <1>0 DEF ProveInv, FpgaCliInit, Counters
<1>6. EquivInv
  BY <1>0, <1>3 DEF EquivInv, FpgaCliInit
<1>. QED BY <1>2, <1>4, <1>5, <1>6 DEF DesignInv

-----------------------------------------------------------------------------
(* check.                                                                   *)
LEMMA CountCheckIs ==
  ASSUME NEW c \in Tallies, NEW new, NEW S, new \in Seq(S), NEW r \in Nat
  PROVE  LET t == CountCheck([c EXCEPT !.errors = @ + r], new)
         IN  /\ t \in Tallies
             /\ t.errors = c.errors + r
             /\ t.unsafe = 0 <=> c.unsafe = 0 /\ \A job \in Range(new) : ~Refuted(job)
<1> DEFINE P == {x \in Range(new) : Refuted(x)}
           D == {x \in Range(new) : Deferred(x)}
<1>1. {i \in DOMAIN new : Refuted(new[i])} = {i \in DOMAIN new : new[i] \in P}
  BY DEF Range
<1>2. {i \in DOMAIN new : Deferred(new[i])} = {i \in DOMAIN new : new[i] \in D}
  BY DEF Range
<1> DEFINE p == Cardinality({i \in DOMAIN new : Refuted(new[i])})
           d == Cardinality({i \in DOMAIN new : Deferred(new[i])})
<1>3. p \in Nat /\ (p = 0 <=> \A x \in Range(new) : x \notin P)
  <2> HIDE DEF P
  <2>. QED BY <1>1, Counted
<1>4. d \in Nat
  <2> HIDE DEF D
  <2>. QED BY <1>2, Counted
<1>5. CountCheck([c EXCEPT !.errors = @ + r], new) =
        [[c EXCEPT !.errors = @ + r] EXCEPT !.deferred = @ + d, !.unsafe = @ + p]
  BY DEF CountCheck
<1>6. p = 0 <=> \A job \in Range(new) : ~Refuted(job)
  BY <1>3
<1> HIDE DEF p, d, P, D
<1> DEFINE t == CountCheck([c EXCEPT !.errors = @ + r], new)
<1>7. t \in Tallies /\ t.errors = c.errors + r /\ t.unsafe = c.unsafe + p
  <2> DEFINE b == [c EXCEPT !.errors = @ + r]
  <2>1. b \in Tallies /\ b.errors = c.errors + r /\ b.unsafe = c.unsafe
    BY DEF Tallies
  <2>2. p \in Nat
    BY <1>3
  <2>3. t = [b EXCEPT !.deferred = @ + d, !.unsafe = @ + p]
    BY <1>5
  <2> HIDE DEF b, t
  <2>4. t \in Tallies /\ t.errors = b.errors /\ t.unsafe = b.unsafe + p
    <3>1. b.deferred + d \in Nat /\ b.unsafe + p \in Nat
      BY <1>4, <2>1, <2>2 DEF Tallies
    <3>2. t = [errors |-> b.errors, deferred |-> b.deferred + d, unsafe |-> b.unsafe + p,
               proved |-> b.proved, vacuous |-> b.vacuous, failed |-> b.failed]
      BY <2>1, <2>3 DEF Tallies
    <3>. QED BY <2>1, <3>1, <3>2 DEF Tallies
  <2>. QED BY <2>1, <2>4
<1>8. c.unsafe \in Nat
  BY DEF Tallies
<1> HIDE DEF t
<1>9. t.unsafe = 0 <=> c.unsafe = 0 /\ p = 0
  BY <1>3, <1>7, <1>8
<1>. QED BY <1>6, <1>7, <1>9 DEF t

LEMMA ReadMore ==
  ASSUME NEW ms, NEW n \in Nat
  PROVE  FileJobs(ms, n + 1) = FileJobs(ms, n) \cup JobsOf(ms[n + 1])
<1>1. 1..(n + 1) = 1..n \cup {n + 1}
  OBVIOUS
<1>. QED BY <1>1 DEF FileJobs

LEMMA CheckGoesOn ==
  ASSUME FileAssumption, DesignInv, CheckModule
  PROVE  DesignInv'
<1> DEFINE m == File[done + 1]
           new == ModuleJobs(m)
<1>0. NoFsm \notin 0..2 BY FileAssumption
<1>1. /\ Pending /\ inv.verb = "check" /\ done < Len(File)
      /\ tally' = CountCheck([tally EXCEPT !.errors = @ + Refusals(m)], new)
      /\ jobs' = jobs \o new
      /\ done' = done + 1 /\ inv' = inv /\ code' = code
  BY DEF CheckModule
<1>2. IsFile(File) /\ done \in Nat /\ tally \in Tallies
  BY <1>1 DEF DesignInv, Loaded, File, Range
<1>3. Len(File) \in Nat /\ done + 1 \in 1..Len(File) /\ IsDesign(m)
  <2>1. Len(File) \in Nat /\ \A i \in 1..Len(File) : IsDesign(File[i])
    BY <1>2, FileModules
  <2>2. done + 1 \in 1..Len(File)
    BY <1>1, <1>2, <2>1
  <2>. QED BY <2>1, <2>2
<1>4. /\ new \in Seq(JobsOf(m)) /\ Range(new) = JobsOf(m)
      /\ Refusals(m) \in Nat /\ (Refusals(m) = 0 <=> Clean(m))
  BY <1>3, ModuleFacts DEF JobsOf
<1>5. /\ tally' \in Tallies
      /\ tally'.errors = tally.errors + Refusals(m)
      /\ tally'.unsafe = 0 <=> tally.unsafe = 0 /\ \A job \in Range(new) : ~Refuted(job)
  <2> HIDE DEF m, new
  <2>. QED BY <1>1, <1>2, <1>4, CountCheckIs
<1>6. Loaded'
  BY <1>1, <1>2, <1>5 DEF DesignInv, Loaded
<1>7. File' = File /\ Pending'
  BY <1>1 DEF File, Pending
<1>8. /\ jobs \in Seq(FileJobs(File, done)) /\ Range(jobs) = FileJobs(File, done)
      /\ tally.errors = 0 <=> \A i \in 1..done : Clean(File[i])
      /\ tally.unsafe = 0 <=> \A job \in Range(jobs) : ~Refuted(job)
  BY <1>1 DEF DesignInv, CheckInv
<1>9. FileJobs(File, done') = FileJobs(File, done) \cup JobsOf(m)
  BY <1>1, <1>2, ReadMore
<1>10. jobs' \in Seq(FileJobs(File, done')) /\ Range(jobs') = Range(jobs) \cup Range(new)
  <2> DEFINE S == FileJobs(File, done')
  <2>1. jobs \in Seq(S) /\ new \in Seq(S)
    BY <1>4, <1>8, <1>9
  <2> HIDE DEF S, new
  <2>2. jobs \o new \in Seq(S) /\ Range(jobs \o new) = Range(jobs) \cup Range(new)
    BY <2>1, ConcatProperties, RangeConcatenation
  <2>. QED BY <1>1, <2>2 DEF S
<1>11. tally'.errors = 0 <=> \A i \in 1..done' : Clean(File[i])
  <2>1. tally.errors \in Nat
    BY <1>2 DEF Tallies
  <2>2. tally'.errors = 0 <=> tally.errors = 0 /\ Clean(m)
    BY <1>4, <1>5, <2>1
  <2>3. 1..done' = 1..done \cup {done + 1}
    BY <1>1, <1>2
  <2>. QED BY <1>8, <2>2, <2>3
<1>12. CheckInv'
  <2>1. done' <= Len(File)
    BY <1>1, <1>3
  <2>2. Range(jobs') = FileJobs(File, done')
    BY <1>4, <1>8, <1>9, <1>10
  <2>3. tally'.unsafe = 0 <=> \A job \in Range(jobs') : ~Refuted(job)
    BY <1>5, <1>8, <1>10
  <2>. QED BY <1>7, <1>10, <1>11, <2>1, <2>2, <2>3 DEF CheckInv
<1>13. ProveInv' /\ EquivInv'
  BY <1>1 DEF ProveInv, EquivInv
<1>. QED BY <1>6, <1>12, <1>13 DEF DesignInv

LEMMA CheckEnds ==
  ASSUME FileAssumption, DesignInv, ConcludeCheck
  PROVE  DesignInv'
<1>0. NoFsm \notin 0..2 BY FileAssumption
<1>1. /\ Pending /\ inv.verb = "check" /\ done = Len(File)
      /\ code' = IF jobs = <<>> /\ tally.errors = 0 THEN 2
                 ELSE IF tally.unsafe > 0 \/ tally.errors > 0 THEN 1 ELSE 0
      /\ inv' = inv /\ done' = done /\ jobs' = jobs /\ tally' = tally
  BY DEF ConcludeCheck
<1>2. File' = File
  BY <1>1 DEF File
<1>3. Loaded'
  BY <1>1 DEF DesignInv, Loaded
<1>4. CheckInv'
  BY <1>1, <1>2 DEF DesignInv, CheckInv
<1>5. ProveInv' /\ EquivInv'
  BY <1>1 DEF ProveInv, EquivInv
<1>. QED BY <1>3, <1>4, <1>5 DEF DesignInv

-----------------------------------------------------------------------------
(* prove.                                                                   *)
LEMMA Collects ==
  ASSUME FileAssumption, DesignInv, Collect
  PROVE  DesignInv'
<1> DEFINE n == Len(File)
           ss == [i \in DOMAIN File |-> ModuleJobs(File[i])]
           all == FlattenSeq(ss)
<1>0. NoFsm \notin 0..2 BY FileAssumption
<1>1. /\ Pending /\ inv.verb = "prove" /\ done = 0 /\ jobs = <<>> /\ jobs' = all
      /\ code' = IF \E i \in DOMAIN File : Refusals(File[i]) > 0 THEN 1
                 ELSE IF all = <<>> \/ (inv.emit /\ Len(all) > 1) THEN 2
                 ELSE code
      /\ inv' = inv /\ done' = done /\ tally' = tally
  BY DEF Collect
<1>2. IsFile(File)
  BY <1>1 DEF DesignInv, Loaded, File, Range
<1>3. n \in Nat /\ DOMAIN File = 1..n /\ \A i \in 1..n : IsDesign(File[i])
  BY <1>2, FileModules
<1>4. File' = File /\ Loaded'
  BY <1>1 DEF DesignInv, Loaded, File
<1>5. \A i \in 1..n : /\ ModuleJobs(File[i]) \in Seq(JobsOf(File[i]))
                      /\ Refusals(File[i]) \in Nat
                      /\ Refusals(File[i]) = 0 <=> Clean(File[i])
  BY <1>3, ModuleFacts
<1>6. /\ all \in Seq(FileJobs(File, n))
      /\ Range(all) = FileJobs(File, n)
  <2> DEFINE S == FileJobs(File, n)
  <2>1. \A i \in 1..n : ModuleJobs(File[i]) \in Seq(S)
    <3> SUFFICES ASSUME NEW i \in 1..n PROVE ModuleJobs(File[i]) \in Seq(S)
      OBVIOUS
    <3>1. JobsOf(File[i]) \subseteq S
      BY DEF FileJobs
    <3>. QED BY <1>5, <3>1
  <2>2. ss \in [1..n -> Seq(S)]
    BY <1>3, <2>1
  <2>3. ss \in Seq(Seq(S)) /\ DOMAIN ss = 1..n /\ \A i \in 1..n : ss[i] = ModuleJobs(File[i])
    <3> HIDE DEF S
    <3>. QED BY <1>3, <2>2, SeqDef
  <2> HIDE DEF ss, S
  <2>4. all \in Seq(S) /\ Range(all) = UNION {Range(ss[i]) : i \in 1..n}
    BY <2>3, Flattened
  <2>5. {Range(ss[i]) : i \in 1..n} = {JobsOf(File[i]) : i \in 1..n}
    BY <2>3 DEF JobsOf
  <2>. QED BY <2>4, <2>5 DEF S, FileJobs
<1> HIDE DEF all
<1>7. /\ code # 0 /\ code' # 0
      /\ all = <<>> => code' # NoFsm
      /\ code' = NoFsm => \A i \in 1..n : Clean(File[i])
  BY <1>0, <1>1, <1>3, <1>5 DEF Pending
<1>8. ProveInv'
  <2>1. all # <<>> => 0 <= Len(all)
    BY <1>6
  <2>2. tally.failed = 0 => tally.proved + tally.vacuous = 0
    BY <1>1 DEF DesignInv, ProveInv, Pending
  <2>. QED BY <1>1, <1>4, <1>6, <1>7, <2>1, <2>2 DEF ProveInv
<1>9. CheckInv' /\ EquivInv'
  BY <1>1 DEF CheckInv, EquivInv
<1>. QED BY <1>4, <1>8, <1>9 DEF DesignInv

LEMMA CountProofIs ==
  ASSUME NEW c \in Tallies, NEW job, NEW o
  PROVE  LET t == CountProof(c, job, o)
         IN  /\ t \in Tallies
             /\ t.failed = 0 => o = "closed" /\ c.failed = 0
                                /\ t.proved + t.vacuous = c.proved + c.vacuous + 1
BY DEF CountProof, Tallies

LEMMA Proves ==
  ASSUME FileAssumption, DesignInv, ProveJob
  PROVE  DesignInv'
<1> DEFINE job == jobs[done + 1]
<1>0. NoFsm \notin 0..2 BY FileAssumption
<1>1. /\ Pending /\ inv.verb = "prove" /\ done < Len(jobs)
      /\ done' = done + 1 /\ inv' = inv /\ jobs' = jobs
  BY DEF ProveJob
<1>2. PICK o \in Outcomes(Holds(job)) :
        IF o = "broken" THEN code' = 2 /\ UNCHANGED tally
        ELSE tally' = CountProof(tally, job, o) /\ UNCHANGED code
  BY DEF ProveJob
<1>3. tally \in Tallies /\ done \in Nat
  BY DEF DesignInv, Loaded
<1>4. o = "closed" => Holds(job)
  BY <1>2 DEF Outcomes
<1> HIDE DEF job
<1>5. tally' \in Tallies
  BY <1>2, <1>3, CountProofIs
<1>6. File' = File /\ Loaded'
  BY <1>1, <1>3, <1>5 DEF DesignInv, Loaded, File
<1>7. jobs # <<>> /\ Len(jobs) \in Nat
  <2>1. CASE jobs = <<>>
    BY <1>1, <1>3, <2>1
  <2>2. CASE jobs # <<>>
    BY <1>1, <2>2 DEF DesignInv, ProveInv
  <2>. QED BY <2>1, <2>2
<1>8. code' \in {NoFsm, 2} /\ code = NoFsm
  BY <1>1, <1>2 DEF Pending
<1>9. ASSUME code' \in {NoFsm, 0}, tally'.failed = 0
      PROVE  /\ tally'.proved + tally'.vacuous = done'
             /\ \A i \in 1..done' : Holds(jobs[i])
  <2>1. o # "broken" /\ tally' = CountProof(tally, job, o)
    BY <1>0, <1>2, <1>9
  <2>2. /\ o = "closed" /\ tally.failed = 0
        /\ tally'.proved + tally'.vacuous = tally.proved + tally.vacuous + 1
    BY <1>3, <1>9, <2>1, CountProofIs
  <2>3. tally.proved + tally.vacuous = done /\ \A i \in 1..done : Holds(jobs[i])
    BY <1>1, <1>8, <2>2 DEF DesignInv, ProveInv
  <2>4. \A i \in 1..done' : i \in 1..done \/ i = done + 1
    BY <1>1, <1>3
  <2>5. Holds(jobs[done + 1])
    BY <1>4, <2>2 DEF job
  <2>. QED BY <1>1, <2>2, <2>3, <2>4, <2>5
<1>10. ProveInv'
  <2>1. /\ jobs \in Seq(FileJobs(File, Len(File))) /\ Range(jobs) = FileJobs(File, Len(File))
        /\ \A i \in 1..Len(File) : Clean(File[i])
    BY <1>1, <1>7, <1>8 DEF DesignInv, ProveInv
  <2>2. done' <= Len(jobs)
    BY <1>1, <1>3, <1>7
  <2>3. code' # 0
    BY <1>0, <1>8
  <2>. QED BY <1>1, <1>6, <1>7, <1>9, <2>1, <2>2, <2>3 DEF ProveInv
<1>11. CheckInv' /\ EquivInv'
  BY <1>1 DEF CheckInv, EquivInv
<1>. QED BY <1>6, <1>10, <1>11 DEF DesignInv

LEMMA ProveEnds ==
  ASSUME FileAssumption, DesignInv, ConcludeProve
  PROVE  DesignInv'
<1>0. NoFsm \notin 0..2 BY FileAssumption
<1>1. /\ Pending /\ inv.verb = "prove" /\ jobs # <<>> /\ done = Len(jobs)
      /\ code' = IF tally.failed = 0 THEN 0 ELSE 1
      /\ inv' = inv /\ done' = done /\ jobs' = jobs /\ tally' = tally
  BY DEF ConcludeProve
<1>2. File' = File /\ Loaded'
  BY <1>1 DEF DesignInv, Loaded, File
<1>3. ProveInv'
  BY <1>0, <1>1, <1>2 DEF DesignInv, ProveInv, Pending
<1>4. CheckInv' /\ EquivInv'
  BY <1>1 DEF CheckInv, EquivInv
<1>. QED BY <1>2, <1>3, <1>4 DEF DesignInv

-----------------------------------------------------------------------------
(* equiv.                                                                   *)
LEMMA Compares ==
  ASSUME FileAssumption, DesignInv, Equiv
  PROVE  DesignInv'
<1> DEFINE m == one_fsm(inv.files[1])
           n == one_fsm(inv.files[2])
<1>0. NoFsm \notin 0..2 BY FileAssumption
<1>1. /\ Pending /\ inv.verb = "equiv"
      /\ code' = IF ~IsMachine(m) THEN m.exit
                 ELSE IF ~IsMachine(n) THEN n.exit
                 ELSE IF ProductRefused(m, n) THEN 2
                 ELSE IF Cardinality(PairsOf(m, n)) > DEFAULT_BOUND \/ Diverging(m, n) # {} THEN 1
                 ELSE IF inv.prove THEN code ELSE 0
      /\ inv' = [inv EXCEPT !.verb = IF inv.prove /\ code' = NoFsm THEN "bisimulation" ELSE @]
      /\ done' = done /\ jobs' = jobs /\ tally' = tally
  BY DEF Equiv
<1>2. Loaded
  BY DEF DesignInv
<1>3. inv'.verb \in {"equiv", "bisimulation"} /\ inv'.files = inv.files
      /\ inv'.emit = inv.emit /\ inv'.prove = inv.prove
  BY <1>1, <1>2 DEF Loaded
<1>4. inv' = [verb |-> inv'.verb, files |-> inv'.files, emit |-> inv'.emit, prove |-> inv'.prove]
  BY <1>1, <1>2 DEF Loaded
<1>5. Loaded'
  BY <1>1, <1>2, <1>3, <1>4 DEF Loaded
<1>6. IsFile(inv.files[1]) /\ IsFile(inv.files[2])
  BY <1>1, <1>2 DEF Loaded, Range
<1>7. ASSUME code' \in {NoFsm, 0}
      PROVE  IsMachine(m) /\ IsMachine(n) /\ Diverging(m, n) = {}
  <2>1. ~IsMachine(m) => m.exit \in {1, 2}
    BY <1>6, OneMachine
  <2>2. ~IsMachine(n) => n.exit \in {1, 2}
    BY <1>6, OneMachine
  <2> HIDE DEF m, n
  <2>. QED BY <1>0, <1>1, <1>7, <2>1, <2>2
<1>8. EquivInv'
  <2> HIDE DEF m, n
  <2>1. inv'.verb = "bisimulation" => code' = NoFsm
    BY <1>1, <1>2 DEF Loaded
  <2>. QED BY <1>3, <1>7, <2>1 DEF EquivInv, m, n
<1>9. CheckInv' /\ ProveInv'
  BY <1>3 DEF CheckInv, ProveInv
<1>. QED BY <1>5, <1>8, <1>9 DEF DesignInv

LEMMA Bisimulates ==
  ASSUME FileAssumption, DesignInv, Bisimulation
  PROVE  DesignInv'
<1> DEFINE m == one_fsm(inv.files[1])
           n == one_fsm(inv.files[2])
<1>1. /\ inv.verb = "bisimulation"
      /\ inv' = inv /\ done' = done /\ jobs' = jobs /\ tally' = tally
  BY DEF Bisimulation
<1>2. PICK o \in Outcomes(Diverging(m, n) = {}) :
        code' = CASE o = "closed" -> 0 [] o = "broken" -> 2 [] OTHER -> 1
  BY DEF Bisimulation
<1>3. Loaded'
  BY <1>1 DEF DesignInv, Loaded
<1>4. EquivInv'
  <2>1. code' = 0 => o = "closed"
    BY <1>2 DEF Outcomes
  <2>2. code' = 0 => Diverging(m, n) = {}
    BY <1>2, <2>1 DEF Outcomes
  <2>. QED BY <1>1, <2>2 DEF DesignInv, EquivInv
<1>5. CheckInv' /\ ProveInv'
  BY <1>1 DEF CheckInv, ProveInv
<1>. QED BY <1>3, <1>4, <1>5 DEF DesignInv

LEMMA DesignInductive ==
  ASSUME FileAssumption, DesignInv, [FpgaCliNext]_commands
  PROVE  DesignInv'
<1>1. CASE CheckModule BY <1>1, CheckGoesOn
<1>2. CASE ConcludeCheck BY <1>2, CheckEnds
<1>3. CASE Collect BY <1>3, Collects
<1>4. CASE ProveJob BY <1>4, Proves
<1>5. CASE ConcludeProve BY <1>5, ProveEnds
<1>6. CASE Equiv BY <1>6, Compares
<1>7. CASE Bisimulation BY <1>7, Bisimulates
<1>8. CASE UNCHANGED commands
  BY <1>8 DEF commands, DesignInv, Loaded, CheckInv, ProveInv, EquivInv, File, Pending
<1>. QED
  BY <1>1, <1>2, <1>3, <1>4, <1>5, <1>6, <1>7, <1>8 DEF FpgaCliNext

(* fpga.rs:1317 and :1470: an exit 0 of check or of prove is about every    *)
(* machine and every FIFO of the file, and an exit 0 of equiv about the one *)
(* machine of either file, for every file and every depth up to MaxDepth.   *)
THEOREM WholeFile == FpgaCliSpec => []PassIsAboutTheWholeFile
<1>1. FpgaCliInit => DesignInv
  BY DesignStarts, FileAssumption
<1>2. DesignInv /\ [FpgaCliNext]_commands => DesignInv'
  BY DesignInductive, FileAssumption
<1>3. DesignInv => PassIsAboutTheWholeFile
  BY PassIsSound, FileAssumption
<1>. QED BY <1>1, <1>2, <1>3, PTL DEF FpgaCliSpec

-----------------------------------------------------------------------------
(* Coloured nets.                                                           *)
(* What the transition t becomes under the binding b.                       *)
Bound(c, t, b) ==
  [name |-> IF b = NoVar THEN t.name ELSE t.name \o b,
   pre  |-> [i \in DOMAIN Origin(c) |-> Weight(t, t.pre, b, Origin(c)[i])],
   post |-> [i \in DOMAIN Origin(c) |-> Weight(t, t.post, b, Origin(c)[i])]]

UnfoldInv ==
  /\ cpn \in Nets
  /\ net = unfold_cpn(cpn)
  /\ unfolded \in [DOMAIN Origin(cpn) -> Nat]

(* A list has a natural number of positions with a given property.          *)
LEMMA CountIsNatural ==
  ASSUME NEW s, IsSeq(s), NEW T, T \subseteq DOMAIN s
  PROVE  Cardinality(T) \in Nat
<1>1. IsFiniteSet(DOMAIN s)
  <2>1. Len(s) \in Nat /\ DOMAIN s = 1..Len(s)
    BY LenProperties DEF IsSeq
  <2>. QED BY <2>1, FS_Interval
<1>. QED BY <1>1, FS_Subset, FS_CardinalityType

LEMMA WeightIsNatural ==
  ASSUME NEW t, NEW arcs, IsSeq(arcs), NEW b, NEW tk
  PROVE  Weight(t, arcs, b, tk) \in Nat
<1> DEFINE T == {i \in DOMAIN arcs : resolve(t, arcs[i], b) = tk}
<1>1. T \subseteq DOMAIN arcs OBVIOUS
<1>2. Cardinality(T) \in Nat
  <2> HIDE DEF T
  <2>. QED BY <1>1, CountIsNatural
<1>. QED BY <1>2 DEF Weight

LEMMA Enumerated ==
  ASSUME NEW S, NEW n \in Nat, NEW s, s = [i \in 1..n |-> s[i]], \A i \in 1..n : s[i] \in S
  PROVE  s \in Seq(S)
<1>1. s \in [1..n -> S]
  OBVIOUS
<1>. QED BY <1>1

(* Unfolding makes one transition of every transition and binding.          *)
LEMMA UnfoldedTransitions ==
  ASSUME NEW c \in Nets
  PROVE  LET us == unfold_cpn(c).transitions
         IN  /\ Len(us) \in Nat /\ DOMAIN us = 1..Len(us)
             /\ \A u : u \in Range(us) <=>
                  \E t \in Range(c.transitions) : \E b \in Range(Bindings(c, t)) : u = Bound(c, t, b)
<1> DEFINE ss == [i \in DOMAIN c.transitions |-> UnfoldTransition(c, c.transitions[i])]
           S == UNION {Range(ss[i]) : i \in DOMAIN ss}
           us == unfold_cpn(c).transitions
<1>1. /\ Len(c.transitions) \in Nat /\ DOMAIN c.transitions = 1..Len(c.transitions)
      /\ \A i \in DOMAIN c.transitions : c.transitions[i] \in Range(c.transitions)
  <2>1. IsSeq(c.transitions) BY CpnAssumption
  <2>. QED BY <2>1, LenProperties DEF IsSeq, Range
<1>2. ASSUME NEW t \in Range(c.transitions)
      PROVE  /\ Len(Bindings(c, t)) \in Nat
             /\ UnfoldTransition(c, t) = [k \in 1..Len(Bindings(c, t)) |-> Bound(c, t, Bindings(c, t)[k])]
             /\ DOMAIN Bindings(c, t) = 1..Len(Bindings(c, t))
  <2>1. IsSeq(Bindings(c, t)) BY CpnAssumption
  <2>2. Len(Bindings(c, t)) \in Nat /\ DOMAIN Bindings(c, t) = 1..Len(Bindings(c, t))
    BY <2>1, LenProperties DEF IsSeq
  <2>. QED BY <2>2 DEF UnfoldTransition, Bound
<1>3. ASSUME NEW i \in DOMAIN c.transitions
      PROVE  ss[i] \in Seq(S)
  <2> DEFINE t == c.transitions[i]
             n == Len(Bindings(c, t))
  <2>1. t \in Range(c.transitions) BY <1>1
  <2>2. n \in Nat /\ ss[i] = [k \in 1..n |-> Bound(c, t, Bindings(c, t)[k])]
    BY <1>2, <2>1
  <2>3. \A k \in 1..n : ss[i][k] \in Range(ss[i])
    BY <2>2 DEF Range
  <2>4. Range(ss[i]) \subseteq S
    OBVIOUS
  <2> HIDE DEF S, ss
  <2>5. ss[i] = [k \in 1..n |-> ss[i][k]] /\ \A k \in 1..n : ss[i][k] \in S
    BY <2>2, <2>3, <2>4
  <2>. QED BY <2>2, <2>5
<1>4. ss \in Seq(Seq(S))
  <2> HIDE DEF S
  <2>1. ss = [i \in 1..Len(c.transitions) |-> ss[i]] /\ \A i \in 1..Len(c.transitions) : ss[i] \in Seq(S)
    BY <1>1, <1>3
  <2> HIDE DEF ss
  <2>. QED BY <1>1, <2>1, Enumerated
<1>5. us = FlattenSeq(ss)
  BY DEF unfold_cpn
<1>6. us \in Seq(S) /\ Range(us) = S
  <2> HIDE DEF ss
  <2>1. FlattenSeq(ss) \in Seq(S) /\ Range(FlattenSeq(ss)) = UNION {Range(ss[i]) : i \in DOMAIN ss}
    <3> HIDE DEF S
    <3>. QED BY <1>4, Flattened
  <2>. QED BY <1>5, <2>1
<1>7. ASSUME NEW u
      PROVE  u \in S <=> \E t \in Range(c.transitions) : \E b \in Range(Bindings(c, t)) : u = Bound(c, t, b)
  <2>1. ASSUME NEW t \in Range(c.transitions)
        PROVE  u \in Range(UnfoldTransition(c, t)) <=> \E b \in Range(Bindings(c, t)) : u = Bound(c, t, b)
    BY <1>2 DEF Range
  <2>2. u \in S <=> \E i \in DOMAIN c.transitions : u \in Range(UnfoldTransition(c, c.transitions[i]))
    OBVIOUS
  <2> HIDE DEF S
  <2>. QED BY <2>1, <2>2 DEF Range
<1>8. Len(us) \in Nat /\ DOMAIN us = 1..Len(us)
  <2> HIDE DEF us, S
  <2>. QED BY <1>6, LenProperties
<1>. QED BY <1>6, <1>7, <1>8

(* The tokens of a net are those of its places.                             *)
LEMMA OriginIsOfPlaces ==
  ASSUME NEW c \in Nets, NEW tk \in Range(Origin(c))
  PROVE  \E i \in DOMAIN c.places : tk[1] = c.places[i].name
<1> DEFINE V(i) == c.colours[c.places[i].colour]
           ss == [i \in DOMAIN c.places |-> [j \in DOMAIN V(i) |-> <<c.places[i].name, V(i)[j]>>]]
           S == UNION {Range(ss[i]) : i \in DOMAIN ss}
<1>1. /\ Len(c.places) \in Nat /\ DOMAIN c.places = 1..Len(c.places)
      /\ \A i \in DOMAIN c.places : c.places[i] \in Range(c.places)
  <2>1. IsSeq(c.places) BY CpnAssumption
  <2>. QED BY <2>1, LenProperties DEF IsSeq, Range
<1>2. ASSUME NEW i \in DOMAIN c.places
      PROVE  ss[i] \in Seq(S)
  <2>1. IsSeq(V(i))
    BY <1>1, CpnAssumption
  <2>2. Len(V(i)) \in Nat /\ DOMAIN V(i) = 1..Len(V(i))
    BY <2>1, LenProperties DEF IsSeq
  <2>3. ss[i] = [j \in 1..Len(V(i)) |-> ss[i][j]]
    BY <2>2
  <2>4. \A j \in 1..Len(V(i)) : ss[i][j] \in S
    <3>1. \A j \in 1..Len(V(i)) : ss[i][j] \in Range(ss[i])
      BY <2>2 DEF Range
    <3>2. Range(ss[i]) \subseteq S
      OBVIOUS
    <3> HIDE DEF S, ss, V
    <3>. QED BY <3>1, <3>2
  <2> HIDE DEF S, ss, V
  <2>. QED BY <2>2, <2>3, <2>4, Enumerated
<1>3. ss \in Seq(Seq(S))
  <2> HIDE DEF S
  <2>1. ss = [i \in 1..Len(c.places) |-> ss[i]] /\ \A i \in 1..Len(c.places) : ss[i] \in Seq(S)
    BY <1>1, <1>2
  <2> HIDE DEF ss
  <2>. QED BY <1>1, <2>1, Enumerated
<1>4. Origin(c) = FlattenSeq(ss)
  BY DEF Origin
<1>5. Range(Origin(c)) = S
  <2> HIDE DEF ss
  <2>1. Range(FlattenSeq(ss)) = UNION {Range(ss[i]) : i \in DOMAIN ss}
    <3> HIDE DEF S
    <3>. QED BY <1>3, Flattened
  <2>. QED BY <1>4, <2>1
<1>6. PICK i \in DOMAIN c.places : tk \in Range(ss[i])
  <2> HIDE DEF V
  <2>. QED BY <1>5
<1>7. PICK j \in DOMAIN V(i) : tk = <<c.places[i].name, V(i)[j]>>
  BY <1>6 DEF Range
<1>. QED BY <1>7

LEMMA InitialIsNatural ==
  ASSUME NEW c \in Nets, NEW tk \in Range(Origin(c))
  PROVE  InitialTokens(c, tk) \in Nat
<1> DEFINE k == CHOOSE i \in DOMAIN c.places : c.places[i].name = tk[1]
           init == c.places[k].init
           T == {i \in DOMAIN init : init[i] = tk[2]}
<1>1. k \in DOMAIN c.places
  BY OriginIsOfPlaces
<1>2. IsSeq(init)
  <2> HIDE DEF k
  <2>1. c.places[k] \in Range(c.places)
    BY <1>1 DEF Range
  <2>. QED BY <2>1, CpnAssumption
<1>3. T \subseteq DOMAIN init
  OBVIOUS
<1>4. Cardinality(T) \in Nat
  <2> HIDE DEF T, init
  <2>. QED BY <1>2, <1>3, CountIsNatural
<1>. QED BY <1>4 DEF InitialTokens, PlaceOf

(* A step by name is the firing of the transition of that name.             *)
LEMMA StepIsFiring ==
  ASSUME NEW c \in Nets, NamesAreKeys(c), NEW u \in Range(unfold_cpn(c).transitions), NEW m
  PROVE  PtStep(unfold_cpn(c), m, u.name) =
           IF ~marking_enabled(m, u.pre) THEN Blocked ELSE fire_marking(m, u.pre, u.post)
<1> DEFINE us == unfold_cpn(c).transitions
           named == {i \in DOMAIN us : us[i].name = u.name}
<1>1. \A i \in named : us[i] = u
  BY DEF NamesAreKeys, Range
<1>2. named # {} /\ named \subseteq Nat
  <2>1. DOMAIN us = 1..Len(us) /\ Len(us) \in Nat
    BY UnfoldedTransitions
  <2>2. u \in Range(us)
    OBVIOUS
  <2> HIDE DEF us
  <2>. QED BY <2>1, <2>2 DEF Range
<1>3. Min(named) \in named
  <2> HIDE DEF named
  <2>1. PICK n \in named : \A k \in named : n <= k
    BY <1>2, LeastNumber
  <2>. QED BY <2>1 DEF Min
<1>4. us[Min(named)] = u
  BY <1>1, <1>3
<1> HIDE DEF us, named
<1>5. PtStep(unfold_cpn(c), m, u.name) =
        IF named = {} \/ ~marking_enabled(m, us[Min(named)].pre) THEN Blocked
        ELSE fire_marking(m, us[Min(named)].pre, us[Min(named)].post)
  BY DEF PtStep, us, named
<1>. QED BY <1>2, <1>4, <1>5

LEMMA BoundIsOfTokens ==
  ASSUME NEW c \in Nets, NEW t \in Range(c.transitions), NEW b
  PROVE  /\ Bound(c, t, b).pre \in [DOMAIN Origin(c) -> Nat]
         /\ Bound(c, t, b).post \in [DOMAIN Origin(c) -> Nat]
<1>1. IsSeq(t.pre) /\ IsSeq(t.post)
  BY CpnAssumption
<1>. QED BY <1>1, WeightIsNatural DEF Bound

LEMMA FiredMarking ==
  ASSUME Modulus \in Nat, NEW D, NEW m \in [D -> Nat], NEW p \in [D -> Nat], NEW q \in [D -> Nat],
         marking_enabled(m, p)
  PROVE  /\ fire_marking(m, p, q) \in [D -> Nat]
         /\ \A i \in D : fire_marking(m, p, q)[i] = Wrap(m[i] - p[i] + q[i])
<1>1. ASSUME NEW i \in D
      PROVE  Wrap(m[i] - p[i] + q[i]) \in Nat
  <2>1. m[i] \in Nat /\ p[i] \in Nat /\ q[i] \in Nat /\ p[i] <= m[i]
    BY DEF marking_enabled
  <2>. QED BY <2>1 DEF Wrap
<1>. QED BY <1>1 DEF fire_marking, fire_place

(* Reading a marking back: the token of the i-th place counts what it has.  *)
LEMMA ImageIs ==
  ASSUME UnfoldInv, NEW m, DOMAIN m = DOMAIN Origin(cpn)
  PROVE  /\ DOMAIN Image(m) = Range(Origin(cpn))
         /\ \A i \in DOMAIN Origin(cpn) : Image(m)[Origin(cpn)[i]] = m[i]
<1>1. ASSUME NEW i \in DOMAIN Origin(cpn)
      PROVE  (CHOOSE k \in DOMAIN m : Origin(cpn)[k] = Origin(cpn)[i]) = i
  <2>1. IsInjective(Origin(cpn))
    BY CpnAssumption DEF UnfoldInv
  <2>2. \A k \in DOMAIN m : Origin(cpn)[k] = Origin(cpn)[i] <=> k = i
    BY <2>1 DEF IsInjective
  <2>. QED BY <2>2
<1>. QED BY <1>1 DEF Image, Range

(* The rule's own operators are the unfolder's.                             *)
LEMMA SameCardinality ==
  ASSUME NEW T
  PROVE  Occurrence!Cardinality(T) = Cardinality(T)
BY DEF Occurrence!Cardinality, Cardinality

LEMMA SameDemand ==
  ASSUME NEW t, NEW arcs, NEW b, NEW tk
  PROVE  Occurrence!Demand(t, arcs, b, tk) = Demand(t, arcs, b, tk)
BY SameCardinality DEF Occurrence!Demand, Demand, Occurrence!resolve, resolve

LEMMA SameOrigin ==
  ASSUME NEW c
  PROVE  Occurrence!Origin(c) = Origin(c)
BY DEF Occurrence!Origin, Origin, Occurrence!FlattenSeq, FlattenSeq

LEMMA SameInitial ==
  ASSUME NEW c, NEW tk
  PROVE  Occurrence!InitialTokens(c, tk) = InitialTokens(c, tk)
BY SameCardinality DEF Occurrence!InitialTokens, InitialTokens, Occurrence!PlaceOf, PlaceOf

LEMMA SameRange ==
  ASSUME NEW s PROVE Occurrence!Range(s) = Range(s)
BY DEF Occurrence!Range, Range

(* Enabling and firing agree with the occurrence rule.                      *)
LEMMA OccursIsEnabled ==
  ASSUME UnfoldInv, NEW t \in Range(cpn.transitions), NEW b
  PROVE  Occurrence!Occurs(t, b) <=> marking_enabled(unfolded, Bound(cpn, t, b).pre)
<1> DEFINE O == Origin(cpn)
<1>1. /\ DOMAIN unfolded = DOMAIN O
      /\ DOMAIN Image(unfolded) = Range(O)
      /\ \A i \in DOMAIN O : Image(unfolded)[O[i]] = unfolded[i]
  BY ImageIs DEF UnfoldInv
<1>2. Occurrence!Occurs(t, b) <=> \A tk \in Range(O) : Demand(t, t.pre, b, tk) <= Image(unfolded)[tk]
  BY <1>1, SameDemand DEF Occurrence!Occurs
<1>3. @ <=> \A i \in DOMAIN O : Demand(t, t.pre, b, O[i]) <= unfolded[i]
  BY <1>1 DEF Range
<1>4. \A i \in DOMAIN O : Bound(cpn, t, b).pre[i] = Demand(t, t.pre, b, O[i])
  BY DEF Bound, Weight, Demand
<1>5. marking_enabled(unfolded, Bound(cpn, t, b).pre)
        <=> \A i \in DOMAIN O : Demand(t, t.pre, b, O[i]) <= unfolded[i]
  BY <1>1, <1>4 DEF marking_enabled
<1>. QED BY <1>2, <1>3, <1>5

LEMMA FiredIsSuccessor ==
  ASSUME UnfoldInv, NEW t \in Range(cpn.transitions), NEW b,
         marking_enabled(unfolded, Bound(cpn, t, b).pre)
  PROVE  LET m == fire_marking(unfolded, Bound(cpn, t, b).pre, Bound(cpn, t, b).post)
         IN  m \in [DOMAIN Origin(cpn) -> Nat] /\ Image(m) = Occurrence!Successor(t, b)
<1> DEFINE O == Origin(cpn)
           p == Bound(cpn, t, b).pre
           q == Bound(cpn, t, b).post
           m == fire_marking(unfolded, p, q)
           next(tk) == Wrap(Image(unfolded)[tk] - Demand(t, t.pre, b, tk) + Demand(t, t.post, b, tk))
<1>1. /\ unfolded \in [DOMAIN O -> Nat] /\ cpn \in Nets /\ Modulus \in Nat
      /\ p \in [DOMAIN O -> Nat] /\ q \in [DOMAIN O -> Nat]
  BY BoundIsOfTokens, CpnAssumption DEF UnfoldInv
<1>2. /\ m \in [DOMAIN O -> Nat]
      /\ \A i \in DOMAIN O : m[i] = Wrap(unfolded[i] - p[i] + q[i])
  <2> HIDE DEF O, p, q
  <2>1. marking_enabled(unfolded, p) BY DEF p
  <2>. QED BY <1>1, <2>1, FiredMarking
<1>3. \A i \in DOMAIN O : p[i] = Demand(t, t.pre, b, O[i]) /\ q[i] = Demand(t, t.post, b, O[i])
  BY DEF Bound, Weight, Demand
<1>4. /\ DOMAIN Image(unfolded) = Range(O)
      /\ \A i \in DOMAIN O : Image(unfolded)[O[i]] = unfolded[i]
  BY <1>1, ImageIs
<1>5. DOMAIN Image(m) = Range(O) /\ \A i \in DOMAIN O : Image(m)[O[i]] = m[i]
  <2> HIDE DEF m
  <2>. QED BY <1>2, ImageIs
<1>6. \A i \in DOMAIN O : Image(m)[O[i]] = next(O[i])
  <2> HIDE DEF m, p, q, O
  <2>. QED BY <1>2, <1>3, <1>4, <1>5
<1>7. \A tk \in Range(O) : Image(m)[tk] = next(tk)
  <2> HIDE DEF m, O, next
  <2>. QED BY <1>6 DEF Range
<1>8. Occurrence!Successor(t, b) = [tk \in Range(O) |-> next(tk)]
  BY <1>4, SameDemand DEF Occurrence!Successor, Occurrence!Wrap, Wrap
<1>9. Image(m) = [tk \in Range(O) |-> Image(m)[tk]]
  BY <1>5 DEF Image
<1> HIDE DEF m, O, next
<1>10. Image(m) = Occurrence!Successor(t, b)
  BY <1>7, <1>8, <1>9
<1>. QED BY <1>2, <1>10 DEF m, O

(* The enabled names are those of the transitions that may fire.            *)
LEMMA EnabledTransitions ==
  ASSUME UnfoldInv, NamesAreKeys(cpn), NEW u \in Range(net.transitions)
  PROVE  /\ u.name \in EnabledNames <=> marking_enabled(unfolded, u.pre)
         /\ PtStep(net, unfolded, u.name) =
              IF ~marking_enabled(unfolded, u.pre) THEN Blocked
              ELSE fire_marking(unfolded, u.pre, u.post)
<1>1. u.name \in EnabledNames <=> marking_enabled(unfolded, u.pre)
  BY DEF EnabledNames, NamesAreKeys, UnfoldInv
<1>. QED BY <1>1, StepIsFiring DEF UnfoldInv

LEMMA UnfoldInitInv ==
  ASSUME UnfoldInit
  PROVE  UnfoldInv
<1>1. \A i \in DOMAIN Origin(cpn) : Origin(cpn)[i] \in Range(Origin(cpn))
  BY DEF Range
<1>2. unfolded = [i \in DOMAIN Origin(cpn) |-> InitialTokens(cpn, Origin(cpn)[i])]
  BY DEF UnfoldInit, unfold_cpn
<1>3. \A i \in DOMAIN Origin(cpn) : InitialTokens(cpn, Origin(cpn)[i]) \in Nat
  BY <1>1, InitialIsNatural DEF UnfoldInit
<1>. QED BY <1>2, <1>3 DEF UnfoldInit, UnfoldInv

(* The step by the name a fires one transition under one binding.           *)
LEMMA StepIsOccurrence ==
  ASSUME UnfoldInv, NamesAreKeys(cpn), UnfoldNext
  PROVE  UnfoldInv' /\ Occurrence!Next
<1>1. PICK u \in Range(net.transitions) :
        marking_enabled(unfolded, u.pre) /\ FireByName(u.name)
  BY DEF UnfoldNext, EnabledNames
<1>2. PICK t \in Range(cpn.transitions) : \E b \in Range(Bindings(cpn, t)) : u = Bound(cpn, t, b)
  BY UnfoldedTransitions DEF UnfoldInv
<1>3. PICK b \in Range(Bindings(cpn, t)) : u = Bound(cpn, t, b)
  BY <1>2
<1>4. /\ unfolded' = fire_marking(unfolded, Bound(cpn, t, b).pre, Bound(cpn, t, b).post)
      /\ cpn' = cpn /\ net' = net
  BY <1>1, <1>3, EnabledTransitions DEF FireByName
<1>5. unfolded' \in [DOMAIN Origin(cpn) -> Nat] /\ Image(unfolded') = Occurrence!Successor(t, b)
  BY <1>1, <1>3, <1>4, FiredIsSuccessor
<1>6. UnfoldInv'
  BY <1>4, <1>5 DEF UnfoldInv
<1>7. Image(unfolded)' = Image(unfolded')
  BY <1>4 DEF Image
<1>8. Occurrence!Occur(t, b)
  BY <1>1, <1>3, <1>4, <1>5, <1>7, OccursIsEnabled DEF Occurrence!Occur
<1>9. b \in Range(Occurrence!Bindings(cpn, t))
  BY DEF Occurrence!Bindings, Bindings
<1>. QED BY <1>6, <1>8, <1>9, SameRange DEF Occurrence!Next

LEMMA InitIsInitial ==
  ASSUME UnfoldInit
  PROVE  Occurrence!Init
<1>1. UnfoldInv BY UnfoldInitInv
<1>2. unfolded = [i \in DOMAIN Origin(cpn) |-> InitialTokens(cpn, Origin(cpn)[i])]
  BY DEF UnfoldInit, unfold_cpn
<1>3. /\ DOMAIN Image(unfolded) = Range(Origin(cpn))
      /\ \A i \in DOMAIN Origin(cpn) :
           Image(unfolded)[Origin(cpn)[i]] = InitialTokens(cpn, Origin(cpn)[i])
  BY <1>1, <1>2, ImageIs
<1>4. \A tk \in Range(Origin(cpn)) : Image(unfolded)[tk] = InitialTokens(cpn, tk)
  BY <1>3 DEF Range
<1>5. Image(unfolded) = [tk \in Range(Origin(cpn)) |-> InitialTokens(cpn, tk)]
  <2>1. Image(unfolded) = [tk \in Range(Origin(cpn)) |-> Image(unfolded)[tk]]
    BY <1>3 DEF Image
  <2>. QED BY <1>4, <2>1
<1>. QED BY <1>5, SameOrigin, SameInitial, SameRange DEF Occurrence!Init, UnfoldInit

(* cpn.rs:4-6: where a name stands for one transition, every step of the    *)
(* unfolded net is an occurrence of a coloured transition.                  *)
THEOREM UnfoldedStepsOccur ==
  ASSUME \A c \in Nets : NamesAreKeys(c)
  PROVE  UnfoldSpec => CpnOnlyOccurrences
<1>1. UnfoldInit => UnfoldInv /\ Occurrence!Init
  BY UnfoldInitInv, InitIsInitial
<1>2. UnfoldInv /\ [UnfoldNext]_coloured => UnfoldInv' /\ [Occurrence!Next]_(Occurrence!vars)
  <2> SUFFICES ASSUME UnfoldInv, [UnfoldNext]_coloured
               PROVE  UnfoldInv' /\ [Occurrence!Next]_(Occurrence!vars)
    OBVIOUS
  <2>1. CASE UnfoldNext
    BY <2>1, StepIsOccurrence DEF UnfoldInv
  <2>2. CASE UNCHANGED coloured
    BY <2>2 DEF coloured, UnfoldInv, Occurrence!vars, Image
  <2>. QED BY <2>1, <2>2
<1>. QED BY <1>1, <1>2, PTL DEF UnfoldSpec, CpnOnlyOccurrences, Occurrence!Spec

(* The other half: every occurrence is a step of the unfolded net.          *)
THEOREM EveryOccurrenceSteps ==
  ASSUME \A c \in Nets : NamesAreKeys(c)
  PROVE  UnfoldSpec => []CpnNoOccurrenceLost
<1>1. UnfoldInit => UnfoldInv
  BY UnfoldInitInv
<1>2. UnfoldInv /\ [UnfoldNext]_coloured => UnfoldInv'
  <2>1. CASE UnfoldNext
    BY <2>1, StepIsOccurrence DEF UnfoldInv
  <2>2. CASE UNCHANGED coloured
    BY <2>2 DEF coloured, UnfoldInv
  <2>. QED BY <2>1, <2>2
<1>3. UnfoldInv => CpnNoOccurrenceLost
  <2> SUFFICES ASSUME UnfoldInv,
                      NEW t \in Range(cpn.transitions), NEW b \in Range(Bindings(cpn, t)),
                      Occurrence!Occurs(t, b)
               PROVE  \E a \in EnabledNames :
                        /\ PtStep(net, unfolded, a) # Blocked
                        /\ Image(PtStep(net, unfolded, a)) = Occurrence!Successor(t, b)
    BY DEF CpnNoOccurrenceLost
  <2> DEFINE u == Bound(cpn, t, b)
             m == fire_marking(unfolded, u.pre, u.post)
  <2>1. u \in Range(net.transitions)
    BY UnfoldedTransitions DEF UnfoldInv
  <2>2. marking_enabled(unfolded, u.pre)
    BY OccursIsEnabled
  <2>3. m \in [DOMAIN Origin(cpn) -> Nat] /\ Image(m) = Occurrence!Successor(t, b)
    BY <2>2, FiredIsSuccessor
  <2>4. m # Blocked
    BY <2>3, CpnAssumption DEF UnfoldInv
  <2>5. u.name \in EnabledNames /\ PtStep(net, unfolded, u.name) = m
    <3> HIDE DEF u
    <3>. QED BY <2>1, <2>2, EnabledTransitions DEF UnfoldInv
  <2> HIDE DEF u, m
  <2>. QED BY <2>3, <2>4, <2>5
<1>. QED BY <1>1, <1>2, <1>3, PTL DEF UnfoldSpec

-----------------------------------------------------------------------------
(* A Petri net under the explorer.  A step takes the first transition of    *)
(* its name, which must be enabled.                                         *)
LEMMA StepFires ==
  ASSUME NEW m, IsNet(m), NEW mk, NEW a, PtStep(m, mk, a) # Blocked
  PROVE  \E i \in DOMAIN m.transitions :
           LET t == m.transitions[i]
           IN  marking_enabled(mk, t.pre) /\ PtStep(m, mk, a) = fire_marking(mk, t.pre, t.post)
<1> DEFINE named == {i \in DOMAIN m.transitions : m.transitions[i].name = a}
           i == Min(named)
<1>1. named # {} /\ marking_enabled(mk, m.transitions[i].pre)
      /\ PtStep(m, mk, a) = fire_marking(mk, m.transitions[i].pre, m.transitions[i].post)
  BY DEF PtStep
<1>2. named \subseteq Nat
  <2>1. DOMAIN m.transitions = 1..Len(m.transitions)
    BY LenProperties DEF IsNet
  <2>. QED BY <2>1
<1> HIDE DEF named
<1>3. \E n \in named : \A k \in named : n <= k
  BY <1>1, <1>2, LeastNumber
<1>4. i \in named
  BY <1>3 DEF Min
<1>. QED BY <1>1, <1>4 DEF named

(* The invariant of the Lean proof, at a marking of wrapping counts.        *)
Counts(m) == [DOMAIN m.initial -> 0..(Modulus - 1)]
InvAt(m, mk) == mk \in Counts(m) /\ TokenCount(mk, m.conserved) <= Mass(m)

LEMMA CountsAreNatural ==
  ASSUME Modulus \in Nat \ {0}, NEW m, IsNet(m), NEW mk \in Counts(m)
  PROVE  /\ mk \in [DOMAIN m.initial -> Nat] /\ IsFiniteSet(m.conserved)
         /\ TokenCount(mk, m.conserved) \in Nat
         /\ \A p \in m.conserved : mk[p] <= TokenCount(mk, m.conserved)
<1>1. /\ mk \in [DOMAIN m.initial -> Nat] /\ IsFiniteSet(m.conserved)
      /\ m.conserved \subseteq DOMAIN m.initial
  BY FS_Subset DEF IsNet, Counts
<1> DEFINE here == [p \in m.conserved |-> mk[p]]
<1>2. here \in [m.conserved -> Nat]
  BY <1>1
<1>3. TokenCount(here, m.conserved) = TokenCount(mk, m.conserved)
  BY DEF TokenCount, TokensAt
<1>4. ASSUME NEW p \in m.conserved PROVE mk[p] <= TokenCount(mk, m.conserved)
  <2>1. TokenCount(here, {p}) = mk[p]
    <3>1. here[p] = mk[p] /\ here[p] \in Nat
      BY <1>1
    <3>. QED BY <3>1, TokensOfOne
  <2> HIDE DEF here
  <2>2. TokenCount(here, {p}) <= TokenCount(here, m.conserved)
    BY <1>1, <1>2, TokensMonotone
  <2>. QED BY <1>3, <2>1, <2>2
<1> HIDE DEF here
<1>. QED BY <1>1, <1>2, <1>3, <1>4, TokensFinite

(* omega's cases: below the mass, no count of a conserved place wraps, and  *)
(* a transition that can fire takes no fewer tokens than it puts.           *)
LEMMA InvIsPreserved ==
  ASSUME Modulus \in Nat \ {0}, NEW m, IsNet(m), LeanProves(m),
         NEW mk, InvAt(m, mk), NEW i \in DOMAIN m.transitions,
         marking_enabled(mk, m.transitions[i].pre)
  PROVE  InvAt(m, fire_marking(mk, m.transitions[i].pre, m.transitions[i].post))
<1> DEFINE C == m.conserved
           D == DOMAIN m.initial
           takes == m.transitions[i].pre
           puts == m.transitions[i].post
           left == [p \in C |-> mk[p] - takes[p]]
           next == [p \in C |-> mk[p] - takes[p] + puts[p]]
           r == fire_marking(mk, takes, puts)
<1>1. takes \in Counts(m) /\ puts \in Counts(m) /\ mk \in Counts(m) /\ C \subseteq D
  BY DEF IsNet, Counts, InvAt, Range
<1>2. /\ takes \in [D -> Nat] /\ puts \in [D -> Nat] /\ mk \in [D -> Nat] /\ IsFiniteSet(C)
      /\ TokenCount(takes, C) \in Nat /\ TokenCount(puts, C) \in Nat /\ TokenCount(mk, C) \in Nat
  BY <1>1, CountsAreNatural
<1>3. TokenCount(mk, C) <= Mass(m) /\ Mass(m) \in 0..(Modulus - 1)
  <2>1. TokenCount(m.initial, C) \in Nat
    BY CountsAreNatural DEF IsNet, Counts
  <2>2. Mass(m) \in 0..(Modulus - 1)
    BY <2>1, Narrow DEF Mass, Tokens
  <2>. QED BY <2>2 DEF InvAt
<1>4. \A p \in D : takes[p] <= mk[p]
  BY <1>1 DEF marking_enabled, Counts
<1>5. TokenCount(puts, C) <= TokenCount(takes, C) \/ TokenCount(takes, C) > Mass(m)
  BY DEF LeanProves, InvIsInductive
<1> DEFINE onC(f) == [p \in C |-> f[p]]
<1>6. \A f : TokenCount(onC(f), C) = TokenCount(f, C)
  BY DEF TokenCount, TokensAt
<1>7. /\ onC(takes) \in [C -> Nat] /\ onC(puts) \in [C -> Nat] /\ onC(mk) \in [C -> Nat]
      /\ left \in [C -> Nat] /\ next \in [C -> Nat]
      /\ \A p \in C : onC(mk)[p] = left[p] + onC(takes)[p] /\ next[p] = left[p] + onC(puts)[p]
  <2>1. ASSUME NEW p \in C
        PROVE  takes[p] \in Nat /\ puts[p] \in Nat /\ mk[p] \in Nat /\ takes[p] <= mk[p]
    BY <1>1, <1>2, <1>4
  <2> HIDE DEF takes, puts
  <2>. QED BY <2>1
<1>8. /\ TokenCount(mk, C) = TokenCount(left, C) + TokenCount(takes, C)
      /\ TokenCount(next, C) = TokenCount(left, C) + TokenCount(puts, C)
  <2>1. IsFiniteSet(C) /\ TokenCount(onC(mk), C) = TokenCount(mk, C)
        /\ TokenCount(onC(takes), C) = TokenCount(takes, C) /\ TokenCount(onC(puts), C) = TokenCount(puts, C)
    BY <1>2, <1>6
  <2> DEFINE om == onC(mk)
             ot == onC(takes)
             op == onC(puts)
  <2>2. /\ ot \in [C -> Nat] /\ op \in [C -> Nat] /\ om \in [C -> Nat]
        /\ \A p \in C : om[p] = left[p] + ot[p] /\ next[p] = left[p] + op[p]
    BY <1>7
  <2> HIDE DEF om, ot, op, left, next, onC, C
  <2>3. TokenCount(om, C) = TokenCount(left, C) + TokenCount(ot, C)
    BY <1>7, <2>1, <2>2, TokensAdd
  <2>4. TokenCount(next, C) = TokenCount(left, C) + TokenCount(op, C)
    BY <1>7, <2>1, <2>2, TokensAdd
  <2>. QED BY <2>1, <2>3, <2>4 DEF om, ot, op
<1>9. TokenCount(left, C) \in Nat /\ TokenCount(next, C) \in Nat
  <2> HIDE DEF left, next, C
  <2>. QED BY <1>2, <1>7, TokensFinite
<1>10. TokenCount(next, C) <= Mass(m)
  <2> HIDE DEF left, next, C, takes, puts
  <2>. QED BY <1>2, <1>3, <1>5, <1>8, <1>9
<1>11. r \in Counts(m) /\ \A p \in D : r[p] = Wrap(mk[p] - takes[p] + puts[p])
  <2>1. DOMAIN mk = D
    BY <1>2
  <2>2. ASSUME NEW p \in D
        PROVE  Wrap(mk[p] - takes[p] + puts[p]) \in 0..(Modulus - 1)
    <3>1. /\ mk[p] \in 0..(Modulus - 1) /\ takes[p] \in 0..(Modulus - 1) /\ puts[p] \in 0..(Modulus - 1)
          /\ takes[p] <= mk[p]
      BY <1>1, <1>4 DEF Counts
    <3>. QED BY <3>1 DEF Wrap
  <2> HIDE DEF takes, puts
  <2>. QED BY <2>1, <2>2 DEF fire_marking, fire_place, Counts
<1>12. ASSUME NEW p \in C PROVE r[p] = next[p]
  <2>1. next[p] <= TokenCount(next, C) /\ next[p] \in Nat
    <3>1. TokenCount(next, {p}) = next[p] /\ next[p] \in Nat
      <4>1. next[p] \in Nat
        BY <1>7
      <4> HIDE DEF next
      <4>. QED BY <4>1, TokensOfOne
    <3> HIDE DEF next, C
    <3>2. TokenCount(next, {p}) <= TokenCount(next, C)
      BY <1>2, <1>7, TokensMonotone
    <3>. QED BY <3>1, <3>2
  <2>2. next[p] = mk[p] - takes[p] + puts[p] /\ p \in D
    BY <1>1
  <2>3. next[p] < Modulus
    <3> HIDE DEF next, C
    <3>. QED BY <1>3, <1>9, <1>10, <2>1
  <2> HIDE DEF next, r, takes, puts
  <2>. QED BY <1>11, <2>1, <2>2, <2>3 DEF Wrap
<1>13. TokenCount(r, C) = TokenCount(next, C)
  <2>1. \A p \in C : r[p] = next[p]
    BY <1>12
  <2> HIDE DEF r, next
  <2>. QED BY <2>1 DEF TokenCount, TokensAt
<1>. QED BY <1>10, <1>11, <1>13 DEF InvAt

(* ... and so no declared bound is exceeded.                                *)
LEMMA InvIsSafe ==
  ASSUME Modulus \in Nat \ {0}, NEW m, IsNet(m), LeanProves(m), NEW mk, InvAt(m, mk)
  PROVE  ~PtForbidden(m, mk)
<1> SUFFICES ASSUME NEW i \in DOMAIN m.bounds,
                    Tokens(mk, m.bounds[i].places) > m.bounds[i].max
             PROVE  FALSE
  BY DEF PtForbidden
<1> DEFINE C == m.conserved
           P == m.bounds[i].places
<1>1. P \subseteq C /\ Mass(m) <= m.bounds[i].max /\ m.bounds[i].max \in Nat
  BY DEF LeanProves, InvGivesBounds, IsNet
<1>2. /\ mk \in Counts(m) /\ TokenCount(mk, C) <= Mass(m) /\ TokenCount(mk, C) \in Nat
      /\ mk \in [DOMAIN m.initial -> Nat] /\ IsFiniteSet(C) /\ C \subseteq DOMAIN m.initial
  BY CountsAreNatural DEF InvAt, IsNet
<1> DEFINE here == [p \in C |-> mk[p]]
<1>3. /\ here \in [C -> Nat]
      /\ TokenCount(here, C) = TokenCount(mk, C) /\ TokenCount(here, P) = TokenCount(mk, P)
  BY <1>1, <1>2 DEF TokenCount, TokensAt
<1> HIDE DEF here, C, P
<1>4. TokenCount(here, P) <= TokenCount(here, C)
  BY <1>1, <1>2, <1>3, TokensMonotone
<1>5. TokenCount(here, P) \in Nat
  <2>1. IsFiniteSet(TokensAt(here, C)) /\ TokensAt(here, P) \subseteq TokensAt(here, C)
    BY <1>1, <1>2, <1>3, TokensFinite DEF TokensAt
  <2>. QED BY <2>1, FS_Subset, FS_CardinalityType DEF TokenCount
<1>6. Mass(m) \in 0..(Modulus - 1)
  <2>1. TokenCount(m.initial, m.conserved) \in Nat
    BY CountsAreNatural DEF IsNet, Counts
  <2>. QED BY <2>1, Narrow DEF Mass, Tokens
<1>7. Tokens(mk, P) = TokenCount(mk, P)
  BY <1>2, <1>3, <1>4, <1>5, <1>6, Narrow DEF Tokens
<1>. QED BY <1>1, <1>2, <1>3, <1>4, <1>5, <1>6, <1>7 DEF P

(* Every marking that is reached with wrapping counts has the invariant.    *)
LEMMA ReachedHasInv ==
  ASSUME PetriAssumption, NEW m \in Models, LeanProves(m), NEW mk \in Reachable(m)
  PROVE  InvAt(m, mk)
<1> DEFINE S == {s \in State : InvAt(m, s)}
<1>1. Modulus \in Nat \ {0} /\ IsNet(m) /\ None = Blocked /\ Initial(m) = m.initial
  BY DEF PetriAssumption, PtInitial
<1>2. Initial(m) \in S
  BY <1>1, TraitAssumption DEF LeanProves, InvAtInit, InvAt, Counts, IsNet
<1>3. ASSUME NEW s \in S, NEW a \in Range(Enabled(m, s)), Step(m, s, a) # None
      PROVE  Step(m, s, a) \in S
  <2>1. a \in Action
    BY TraitAssumption, RangeOfSeq
  <2>2. Step(m, s, a) = PtStep(m, s, a) /\ Step(m, s, a) \in State
    BY <1>3, <2>1, TraitAssumption DEF PetriAssumption
  <2>3. PICK i \in DOMAIN m.transitions :
          /\ marking_enabled(s, m.transitions[i].pre)
          /\ PtStep(m, s, a) = fire_marking(s, m.transitions[i].pre, m.transitions[i].post)
    BY <1>1, <1>3, <2>2, StepFires
  <2>4. InvAt(m, PtStep(m, s, a))
    BY <1>1, <2>3, InvIsPreserved
  <2>. QED BY <2>2, <2>4
<1>4. ClosedUnderStep(m, S)
  BY <1>3 DEF ClosedUnderStep
<1>5. Reachable(m) \subseteq S
  BY <1>2, <1>4, ReachableLeast
<1>. QED BY <1>5

-----------------------------------------------------------------------------
(* The names that are listed are those of the enabled transitions.          *)
LEMMA ListedNames ==
  ASSUME NEW m, NEW mk, m.transitions \in Seq(Range(m.transitions)),
         NEW i \in DOMAIN m.transitions, marking_enabled(mk, m.transitions[i].pre)
  PROVE  m.transitions[i].name \in Range(PtEnabled(m, mk))
<1> DEFINE ts == m.transitions
           N == {ts[k].name : k \in DOMAIN ts}
           one(t) == IF marking_enabled(mk, t.pre) THEN <<t.name>> ELSE <<>>
           ss == [k \in DOMAIN ts |-> one(ts[k])]
<1>1. ASSUME NEW k \in DOMAIN ts PROVE one(ts[k]) \in Seq(N)
  <2> DEFINE x == ts[k].name
  <2>1. x \in N
    OBVIOUS
  <2>2. <<x>> \in Seq(N) /\ <<>> \in Seq(N)
    <3> HIDE DEF x, N
    <3>. QED BY <2>1
  <2>. QED BY <2>2
<1>2. DOMAIN ts = 1..Len(ts) /\ Len(ts) \in Nat
  BY LenProperties
<1>3. ss \in Seq(Seq(N)) /\ DOMAIN ss = DOMAIN ts
  <2> HIDE DEF one, N
  <2>. QED BY <1>1, <1>2, IsASeq
<1>4. ss[i] = <<ts[i].name>>
  OBVIOUS
<1>5. PtEnabled(m, mk) = FlattenSeq(ss)
  BY Zenon DEF PtEnabled
<1> HIDE DEF ss, N
<1>6. Range(FlattenSeq(ss)) = UNION {Range(ss[k]) : k \in DOMAIN ss}
  BY <1>3, Flattened
<1>7. ts[i].name \in Range(ss[i])
  BY <1>4 DEF Range
<1>. QED BY <1>3, <1>5, <1>6, <1>7

(* Every transition of a FIFO that is enabled is taken, and does what its   *)
(* arcs say: the counts have room.                                          *)
LEMMA FifoMoves ==
  ASSUME PetriAssumption, NEW d \in Nat, d < Modulus, fifo_net(d) \in Models,
         NEW j \in Nat, NEW k \in Nat, <<j, k>> \in Reachable(fifo_net(d)),
         NEW i \in 1..3, NEW j1 \in 0..(Modulus - 1), NEW k1 \in 0..(Modulus - 1),
         LET t == fifo_net(d).transitions[i]
         IN  /\ t.pre[1] <= j /\ t.pre[2] <= k
             /\ j1 = j - t.pre[1] + t.post[1] /\ k1 = k - t.pre[2] + t.post[2]
  PROVE  <<j1, k1>> \in Reachable(fifo_net(d))
<1> DEFINE m == fifo_net(d)
           t == m.transitions[i]
           mk == <<j, k>>
<1>1. IsNet(m) /\ DOMAIN m.transitions = 1..3 /\ m.transitions \in Seq(Range(m.transitions))
  BY FifoTransitions DEF PetriAssumption, IsNet
<1>2. DOMAIN mk = 1..2 /\ mk[1] = j /\ mk[2] = k
  OBVIOUS
<1>3. marking_enabled(mk, t.pre)
  <2> HIDE DEF m, mk
  <2>. QED BY <1>2 DEF marking_enabled, m
<1>4. t.name \in Range(PtEnabled(m, mk))
  <2> HIDE DEF m, mk
  <2>. QED BY <1>1, <1>3, ListedNames
<1>5. mk \in State /\ Enabled(m, mk) = PtEnabled(m, mk)
  BY DEF Reachable, PetriAssumption
<1>6. t.name \in Action
  <2>1. Enabled(m, mk) \in Seq(Action)
    BY <1>5, TraitAssumption
  <2> HIDE DEF m, mk
  <2>. QED BY <1>4, <1>5, <2>1, RangeOfSeq
<1>7. Step(m, mk, t.name) = fire_marking(mk, t.pre, t.post)
  <2>1. Step(m, mk, t.name) = PtStep(m, mk, t.name)
    BY <1>5, <1>6 DEF PetriAssumption
  <2>2. PtStep(m, mk, t.name) = fire_marking(mk, t.pre, t.post)
    BY <1>3, FifoStepIs
  <2>. QED BY <2>1, <2>2
<1>8. fire_marking(mk, t.pre, t.post) = <<j1, k1>>
  <2>1. Wrap(j1) = j1 /\ Wrap(k1) = k1 /\ Modulus \in Nat
    BY DEF PetriAssumption, Wrap
  <2>2. fire_marking(mk, t.pre, t.post) = [p \in 1..2 |-> Wrap(mk[p] - t.pre[p] + t.post[p])]
    <3> HIDE DEF mk, t
    <3>. QED BY <1>2 DEF fire_marking, fire_place
  <2>3. /\ Wrap(mk[1] - t.pre[1] + t.post[1]) = j1
        /\ Wrap(mk[2] - t.pre[2] + t.post[2]) = k1
    BY <2>1
  <2> DEFINE n(p) == Wrap(mk[p] - t.pre[p] + t.post[p])
  <2>4. [p \in 1..2 |-> n(p)] = <<n(1), n(2)>>
    <3> HIDE DEF n
    <3>. QED OBVIOUS
  <2>. QED BY <2>2, <2>3, <2>4
<1>9. <<j1, k1>> # None
  <2>1. None = Blocked /\ Blocked \notin [DOMAIN m.initial -> 0..(Modulus - 1)]
    BY DEF PetriAssumption, IsNet
  <2>2. DOMAIN m.initial = 1..2
    BY DEF fifo_net
  <2>3. <<j1, k1>> \in [1..2 -> 0..(Modulus - 1)]
    OBVIOUS
  <2>. QED BY <2>1, <2>2, <2>3
<1> HIDE DEF m, mk, t
<1>. QED BY <1>4, <1>5, <1>7, <1>8, <1>9, ReachableStep DEF m, mk

(* A FIFO drains, one enqueue and one leak at a time, and then fills: every *)
(* marking of at most its tokens is reached.                                *)
LEMMA FifoReaches ==
  ASSUME PetriAssumption, NEW d \in Nat, d < Modulus, fifo_net(d) \in Models
  PROVE  Within(d) \subseteq Reachable(fifo_net(d))
<1> DEFINE R == Reachable(fifo_net(d))
           Drained == {k \in Nat : k <= d => <<0, d - k>> \in R}
<1>1. Modulus \in Nat
  BY DEF PetriAssumption
<1>3. <<0, d>> \in R
  <2>1. Initial(fifo_net(d)) = <<0, d>>
    BY DEF PetriAssumption, PtInitial, fifo_net
  <2>. QED BY <2>1, ReachableInitial
<1>4. ASSUME NEW j \in Nat, NEW k \in Nat, k > 0, j + k <= d, <<j, k>> \in R
      PROVE  <<j + 1, k - 1>> \in R
  <2>1. j + 1 \in 0..(Modulus - 1) /\ k - 1 \in 0..(Modulus - 1)
    BY <1>1, <1>4
  <2>2. LET t == fifo_net(d).transitions[1]
        IN  /\ t.pre[1] <= j /\ t.pre[2] <= k
            /\ j + 1 = j - t.pre[1] + t.post[1] /\ k - 1 = k - t.pre[2] + t.post[2]
    BY <1>4, FifoTransitions
  <2> DEFINE i == 1
             j1 == j + 1
             k1 == k - 1
  <2>3. i \in 1..3
    OBVIOUS
  <2>4. /\ j1 \in 0..(Modulus - 1) /\ k1 \in 0..(Modulus - 1)
        /\ LET t == fifo_net(d).transitions[i]
           IN  /\ t.pre[1] <= j /\ t.pre[2] <= k
               /\ j1 = j - t.pre[1] + t.post[1] /\ k1 = k - t.pre[2] + t.post[2]
    BY <2>1, <2>2
  <2> HIDE DEF i, j1, k1
  <2>5. <<j1, k1>> \in R
    BY <1>4, <2>3, <2>4, FifoMoves DEF R
  <2>. QED BY <2>5 DEF j1, k1
<1>5. ASSUME NEW j \in Nat, NEW k \in Nat, j > 0, j + k <= d, <<j, k>> \in R
      PROVE  <<j - 1, k>> \in R
  <2>1. j - 1 \in 0..(Modulus - 1) /\ k \in 0..(Modulus - 1)
    BY <1>1, <1>5
  <2>2. LET t == fifo_net(d).transitions[3]
        IN  /\ t.pre[1] <= j /\ t.pre[2] <= k
            /\ j - 1 = j - t.pre[1] + t.post[1] /\ k = k - t.pre[2] + t.post[2]
    BY <1>5, FifoTransitions
  <2> DEFINE i == 3
             j1 == j - 1
             k1 == k
  <2>3. i \in 1..3
    OBVIOUS
  <2>4. /\ j1 \in 0..(Modulus - 1) /\ k1 \in 0..(Modulus - 1)
        /\ LET t == fifo_net(d).transitions[i]
           IN  /\ t.pre[1] <= j /\ t.pre[2] <= k
               /\ j1 = j - t.pre[1] + t.post[1] /\ k1 = k - t.pre[2] + t.post[2]
    BY <2>1, <2>2
  <2> HIDE DEF i, j1, k1
  <2>5. <<j1, k1>> \in R
    BY <1>5, <2>3, <2>4, FifoMoves DEF R
  <2>. QED BY <2>5 DEF j1, k1
<1> HIDE DEF R
<1>6. \A k \in Nat : k \in Drained
  <2>1. 0 \in Drained
    BY <1>3
  <2>2. ASSUME NEW k \in Nat, k \in Drained
        PROVE  k + 1 \in Drained
    <3> SUFFICES ASSUME k + 1 <= d PROVE <<0, d - (k + 1)>> \in R
      OBVIOUS
    <3> DEFINE n == d - k
    <3>1. n \in Nat /\ n > 0 /\ n <= d /\ d - (k + 1) = n - 1 /\ n - 1 \in Nat
      OBVIOUS
    <3>2. <<0, n>> \in R
      BY <2>2
    <3> HIDE DEF n
    <3>3. <<0 + 1, n - 1>> \in R
      BY <1>4, <3>1, <3>2
    <3>4. <<1 - 1, n - 1>> \in R
      BY <1>5, <3>1, <3>3
    <3>. QED BY <3>1, <3>4
  <2> HIDE DEF Drained
  <2>. QED BY <2>1, <2>2, CountingUp
<1>7. ASSUME NEW s \in Nat, s <= d, NEW j \in Nat, j <= s
      PROVE  <<j, s - j>> \in R
  <2> DEFINE Filled == {n \in Nat : n <= s => <<n, s - n>> \in R}
  <2>1. 0 \in Filled
    <3> DEFINE k == d - s
    <3>1. k \in Nat /\ k <= d /\ d - k = s /\ s - 0 = s
      BY <1>7
    <3> HIDE DEF k
    <3>2. <<0, s>> \in R
      BY <1>6, <3>1
    <3>. QED BY <3>1, <3>2
  <2>2. ASSUME NEW n \in Nat, n \in Filled
        PROVE  n + 1 \in Filled
    <3> SUFFICES ASSUME n + 1 <= s PROVE <<n + 1, s - (n + 1)>> \in R
      OBVIOUS
    <3> DEFINE k == s - n
    <3>1. k \in Nat /\ k > 0 /\ n + k <= d /\ s - (n + 1) = k - 1
      BY <1>7
    <3>2. <<n, k>> \in R
      BY <2>2
    <3> HIDE DEF k
    <3>. QED BY <1>4, <3>1, <3>2
  <2> HIDE DEF Filled
  <2>3. \A n \in Nat : n \in Filled
    BY <2>1, <2>2, CountingUp
  <2>. QED BY <1>7, <2>3 DEF Filled
<1>8. ASSUME NEW mk \in Within(d) PROVE mk \in R
  <2>1. mk[1] \in Nat /\ mk[2] \in Nat /\ mk[1] + mk[2] <= d /\ mk = <<mk[1], mk[2]>>
    BY DEF Within, Markings
  <2> DEFINE s == mk[1] + mk[2]
             j == mk[1]
  <2>2. s \in Nat /\ s <= d /\ j \in Nat /\ j <= s /\ s - j = mk[2]
    BY <2>1
  <2> HIDE DEF s, j
  <2>3. <<j, s - j>> \in R
    BY <1>7, <2>2
  <2>. QED BY <2>1, <2>2, <2>3 DEF j
<1>. QED BY <1>8 DEF R

LEMMA FifoReachable ==
  ASSUME PetriAssumption, NEW d \in Nat, fifo_net(d) \in Models
  PROVE  /\ d < Modulus /\ Reachable(fifo_net(d)) = Within(d)
<1> DEFINE m == fifo_net(d)
<1>1. Modulus \in Nat \ {0} /\ IsNet(m)
  BY DEF PetriAssumption
<1>2. m.initial = <<0, d>> /\ m.conserved = {1, 2}
  BY DEF fifo_net
<1>3. d < Modulus
  <2>1. m.initial[2] \in 0..(Modulus - 1)
    <3>1. m.initial \in [DOMAIN m.initial -> 0..(Modulus - 1)] /\ 2 \in DOMAIN m.initial
      BY <1>1, <1>2 DEF IsNet
    <3> HIDE DEF m
    <3>. QED BY <3>1
  <2>. QED BY <1>1, <1>2, <2>1
<1>4. LeanProves(m) /\ Mass(m) = d
  BY <1>1, <1>3, FifoProved
<1>5. ASSUME NEW mk \in Reachable(m) PROVE mk \in Within(d)
  <2>1. InvAt(m, mk)
    <3> HIDE DEF m
    <3>. QED BY <1>4, <1>5, ReachedHasInv DEF m
  <2>2. mk \in Markings /\ TokenCount(mk, {1, 2}) <= d
    <3>1. DOMAIN m.initial = 1..2
      BY <1>2
    <3> HIDE DEF m
    <3>. QED BY <1>2, <1>4, <2>1, <3>1 DEF InvAt, Counts, Markings
  <2>3. mk[1] \in Nat /\ mk[2] \in Nat /\ mk = <<mk[1], mk[2]>>
    BY <2>2 DEF Markings
  <2> DEFINE a == mk[1]
             b == mk[2]
  <2>4. TokenCount(<<a, b>>, {1, 2}) = a + b
    <3>1. a \in Nat /\ b \in Nat
      BY <2>3
    <3> HIDE DEF a, b
    <3>. QED BY <3>1, TokensOfTwo
  <2>5. TokenCount(mk, {1, 2}) = a + b
    BY <2>3, <2>4
  <2>. QED BY <2>2, <2>5 DEF Within
<1>. QED BY <1>3, <1>5, FifoReaches

(* For every set of nets that are well formed, every ceiling and any width  *)
(* of the counts: a net that the kernel accepts has no violation in the     *)
(* report, although its counts wrap; and the sweep of a FIFO is complete    *)
(* under a ceiling of reachable_markings, and meets exactly as many.        *)
THEOREM ProvedIsSafe == ASSUME PetriAssumption PROVE Spec => []PetriProvedIsSafe
<1>1. ASSUME ExplorerInv, LeanProves(model)
      PROVE  report.violations = {}
  <2>1. model \in Models
    BY <1>1 DEF ExplorerInv, TypeOK
  <2>2. ASSUME NEW s \in Reachable(model) PROVE ~Forbidden(model, s)
    <3>1. Modulus \in Nat \ {0} /\ IsNet(model) /\ Forbidden(model, s) = PtForbidden(model, s)
      BY <2>1 DEF PetriAssumption, Reachable
    <3>2. InvAt(model, s)
      BY <1>1, <2>1, ReachedHasInv
    <3>. QED BY <1>1, <3>1, <3>2, InvIsSafe
  <2>. QED BY <1>1, <2>2 DEF ExplorerInv, Worklist, Finished
<1>2. ASSUME ExplorerInv, NEW d \in FifoDepths, phase = "done", model = fifo_net(d),
             bound >= reachable_markings(d)
      PROVE  Cardinality(seen) = reachable_markings(d) /\ ~truncated
  <2> DEFINE W == Within(d)
             n == (d + 1) * (d + 2)
  <2>1. d \in Nat /\ Modulus \in Nat /\ model \in Models
    BY <1>2 DEF PetriAssumption, ExplorerInv, TypeOK
  <2>2. d < Modulus /\ Reachable(model) = W
    BY <1>2, <2>1, FifoReachable
  <2>3. IsFiniteSet(W) /\ 2 * Cardinality(W) = n /\ Cardinality(W) \in Nat
    BY <2>1, <2>2, WithinCount, FS_CardinalityType
  <2>4. Cardinality(W) = reachable_markings(d)
    <3>1. reachable_markings(d) = n \div 2
      BY DEF reachable_markings
    <3> HIDE DEF n, W
    <3>. QED BY <2>3, <3>1
  <2> HIDE DEF W, n
  <2>5. ~truncated
    <3> SUFFICES ASSUME truncated PROVE FALSE
      OBVIOUS
    <3>1. Cardinality(seen) >= bound /\ seen \subseteq W /\ seen # W
      BY <1>2, <2>2 DEF ExplorerInv, Worklist, Dropped
    <3>2. Cardinality(seen) <= Cardinality(W) /\ Cardinality(seen) # Cardinality(W)
          /\ Cardinality(seen) \in Nat
      BY <2>3, <3>1, FS_Subset, FS_CardinalityType
    <3>3. bound \in Nat
      BY <1>2, BoundsAssumption DEF ExplorerInv, TypeOK
    <3>. QED BY <1>2, <2>3, <2>4, <3>1, <3>2, <3>3
  <2>6. seen = W
    BY <1>2, <2>2, <2>5, DoneIsClosed
  <2>. QED BY <2>4, <2>5, <2>6
<1>3. ExplorerInv => PetriProvedIsSafe
  BY <1>1, <1>2 DEF PetriProvedIsSafe
<1>. QED BY <1>3, ExplorerInductive, PTL
=============================================================================
