------------------------------ MODULE FpgaCli ------------------------------
(***************************************************************************)
(* `lift fpga check`, `prove` and `equiv` (check_cmd, prove_cmd, equiv_cmd *)
(* of src/src/models/fpga.rs, extract_fifos of fpga_fifo.rs): the          *)
(* obligations of a file of modules, what becomes of each of them, and the *)
(* exit code.  A module is                                                 *)
(*                                                                         *)
(*   [fsm : what extract_fsm gives, NoFsm, Refused or a machine of Lts     *)
(*    with the fields used, the number of its usable properties, and       *)
(*    inputs, the names that its guards read,                              *)
(*    depths : the depths of its FIFO nodes].                              *)
(*                                                                         *)
(* FpgaFsm and FpgaEquiv model the extraction and the product themselves.  *)
(* Lean is external: it closes a theorem only if it holds, and may fail at *)
(* any time.                                                               *)
(***************************************************************************)
EXTENDS PtNet, Lts

CONSTANTS
  Invocations,       \* [verb, files : one or two sequences of modules, emit, prove]
  DEFAULT_BOUND,     \* 100 000 in the code
  EXPLICIT_LIMIT,    \* 500 000 in the code
  MaxDepth,          \* 65 536 in the code
  MAX_UNION_INPUTS,  \* 20 in the code
  MAX_PRODUCT_PAIRS, \* 200 000 in the code
  NoFsm, Refused

VARIABLES
  inv,     \* the invocation
  done,    \* modules or jobs done
  jobs,    \* the obligations met, in order: machines and depths
  tally,   \* the counters of the command
  code     \* the exit code, NoFsm while it runs

commands == <<inv, done, jobs, tally, code>>

Counters == [errors |-> 0, deferred |-> 0, unsafe |-> 0, proved |-> 0, vacuous |-> 0, failed |-> 0]
Pending == code = NoFsm
File == inv.files[1]

(* All of a module's FIFOs, or a refusal if one depth is out of range.     *)
extract_fifos(m) == IF Range(m.depths) \subseteq 1..MaxDepth THEN m.depths ELSE Refused

-----------------------------------------------------------------------------
(* What check::check returns, as Checker shows: the closure of the initial *)
(* state, unless it outgrows the bound.                                    *)
LtsClosure(m) ==
  LET grow[S \in SUBSET Range(m.states)] ==
        LET T == S \cup ({LtsStep(m, s, a) : s \in S, a \in Range(m.alphabet)} \ {NoState})
        IN  IF T = S THEN S ELSE grow[T]
  IN  grow[{m.initial}]

Markings == [1..2 -> 0..(Modulus - 1)]
Grown(net, S) ==
  S \cup ({PtStep(net, s, net.transitions[i].name) : s \in S, i \in DOMAIN net.transitions}
            \ {Blocked})

FifoClosure(d) ==
  LET grow[S \in SUBSET Markings] ==
        IF Grown(fifo_net(d), S) = S THEN S ELSE grow[Grown(fifo_net(d), S)]
  IN  grow[{fifo_net(d).initial}]

SafeMachine(m) == \A s \in LtsClosure(m) : ~LtsForbidden(m, s)
SafeFifo(d) == \A s \in FifoClosure(d) : ~PtForbidden(fifo_net(d), s)

WithinBound(m) == Cardinality(LtsClosure(m)) <= DEFAULT_BOUND
CheckedMachine(m) == SafeMachine(m) /\ WithinBound(m)
CheckedFifo(d) == SafeFifo(d) /\ Cardinality(FifoClosure(d)) <= reachable_markings(d) + 1

IsMachine(job) == "states" \in DOMAIN job
Fifo(d) == [depth |-> d]

(* check_cmd: a FIFO too deep to explore is left to prove.                 *)
Deferred(job) == ~IsMachine(job) /\ reachable_markings(job.depth) > EXPLICIT_LIMIT
Refuted(job) ==
  IF IsMachine(job) THEN ~CheckedMachine(job)
  ELSE ~Deferred(job) /\ ~CheckedFifo(job.depth)

CountCheck(c, new) ==
  [c EXCEPT !.deferred = @ + Cardinality({i \in DOMAIN new : Deferred(new[i])}),
            !.unsafe = @ + Cardinality({i \in DOMAIN new : Refuted(new[i])})]

FsmJobs(m) == IF m.fsm \in {NoFsm, Refused} THEN <<>> ELSE <<m.fsm>>
FifoJobs(m) == IF extract_fifos(m) = Refused THEN <<>>
               ELSE [i \in DOMAIN m.depths |-> Fifo(m.depths[i])]
ModuleJobs(m) == FsmJobs(m) \o FifoJobs(m)
Refusals(m) ==
  (IF m.fsm = Refused THEN 1 ELSE 0) + IF extract_fifos(m) = Refused THEN 1 ELSE 0

FpgaCliInit ==
  /\ inv \in Invocations
  /\ done = 0 /\ jobs = <<>> /\ tally = Counters /\ code = NoFsm

CheckModule ==
  /\ Pending /\ inv.verb = "check" /\ done < Len(File)
  /\ LET m == File[done + 1]
         new == ModuleJobs(m)
     IN  /\ tally' = CountCheck([tally EXCEPT !.errors = @ + Refusals(m)], new)
         /\ jobs' = jobs \o new
  /\ done' = done + 1
  /\ UNCHANGED <<inv, code>>

ConcludeCheck ==
  /\ Pending /\ inv.verb = "check" /\ done = Len(File)
  /\ code' = IF jobs = <<>> /\ tally.errors = 0 THEN 2
             ELSE IF tally.unsafe > 0 \/ tally.errors > 0 THEN 1 ELSE 0
  /\ UNCHANGED <<inv, done, jobs, tally>>

-----------------------------------------------------------------------------
(* prove_cmd: all the obligations first; one refused extraction ends it.   *)
Collect ==
  /\ Pending /\ inv.verb = "prove" /\ done = 0 /\ jobs = <<>>
  /\ LET all == FlattenSeq([i \in DOMAIN File |-> ModuleJobs(File[i])])
     IN  /\ jobs' = all
         /\ code' = IF \E i \in DOMAIN File : Refusals(File[i]) > 0 THEN 1
                    ELSE IF all = <<>> \/ (inv.emit /\ Len(all) > 1) THEN 2
                    ELSE code
  /\ UNCHANGED <<inv, done, tally>>

(* elaborate_lean over the files of emit_fsm and emit_petri.               *)
Holds(job) == IF IsMachine(job) THEN SafeMachine(job) ELSE LeanProves(fifo_net(job.depth))
Outcomes(true) == {"rejected", "sorry", "broken"} \cup IF true THEN {"closed"} ELSE {}

CountProofKind(c, job, o) ==                     \* mutant: sorry passes
  IF o = "rejected" THEN [c EXCEPT !.failed = @ + 1]
  ELSE IF IsMachine(job) THEN IF job.used = 0 THEN [c EXCEPT !.vacuous = @ + 1]
                              ELSE [c EXCEPT !.proved = @ + 1]
  ELSE [c EXCEPT !.proved = @ + 1]
CountProof(c, job, o) ==
  IF o # "closed" THEN [c EXCEPT !.failed = @ + 1]
  ELSE IF IsMachine(job) THEN IF job.used = 0 THEN [c EXCEPT !.vacuous = @ + 1]
                              ELSE [c EXCEPT !.proved = @ + 1]
  ELSE [c EXCEPT !.proved = @ + 1]

ProveJob ==
  /\ Pending /\ inv.verb = "prove" /\ done < Len(jobs)
  /\ \E o \in Outcomes(Holds(jobs[done + 1])) :
       IF o = "broken" THEN code' = 2 /\ UNCHANGED tally
       ELSE tally' = CountProof(tally, jobs[done + 1], o) /\ UNCHANGED code
  /\ done' = done + 1
  /\ UNCHANGED <<inv, jobs>>

ConcludeProve ==
  /\ Pending /\ inv.verb = "prove" /\ jobs # <<>> /\ done = Len(jobs)
  /\ code' = IF tally.failed = 0 THEN 0 ELSE 1
  /\ UNCHANGED <<inv, done, jobs, tally>>

-----------------------------------------------------------------------------
(* equiv_cmd.  The modules in order; the first problem ends it.            *)
one_fsm(ms) ==
  LET stop == {i \in DOMAIN ms : \/ ms[i].fsm = Refused
                                 \/ ms[i].fsm # NoFsm /\ \E j \in 1..(i - 1) : ms[j].fsm # NoFsm}
      found == {i \in DOMAIN ms : ms[i].fsm # NoFsm}
  IN  IF stop # {} THEN [exit |-> IF ms[Min(stop)].fsm = Refused THEN 1 ELSE 2]
      ELSE IF found = {} THEN [exit |-> 2] ELSE ms[Min(found)].fsm

(* The pairs of states that the same events lead to.                       *)
PairsOf(m, n) ==
  LET grow[S \in SUBSET (Range(m.states) \X Range(n.states))] ==
        LET T == S \cup {<<LtsStep(m, p[1], a), LtsStep(n, p[2], a)>> :
                           p \in S, a \in Range(m.alphabet)}
        IN  IF T = S THEN S ELSE grow[T]
  IN  grow[{<<m.initial, n.initial>>}]

Diverging(m, n) == {p \in PairsOf(m, n) : p[1] # p[2]}

(* build_product refuses too many inputs before it meets the first pair.   *)
ProductRefused(m, n) ==
  \/ Cardinality(m.inputs \cup n.inputs) > MAX_UNION_INPUTS
  \/ Cardinality(PairsOf(m, n)) > MAX_PRODUCT_PAIRS

Equiv ==
  /\ Pending /\ inv.verb = "equiv"
  /\ LET m == one_fsm(inv.files[1])
         n == one_fsm(inv.files[2])
     IN  code' = IF ~IsMachine(m) THEN m.exit
                 ELSE IF ~IsMachine(n) THEN n.exit
                 ELSE IF ProductRefused(m, n) THEN 2
                 ELSE IF Cardinality(PairsOf(m, n)) > DEFAULT_BOUND \/ Diverging(m, n) # {} THEN 1
                 ELSE IF inv.prove THEN code ELSE 0
  /\ inv' = [inv EXCEPT !.verb = IF inv.prove /\ code' = NoFsm THEN "bisimulation" ELSE @]
  /\ UNCHANGED <<done, jobs, tally>>

Bisimulation ==
  /\ Pending /\ inv.verb = "bisimulation"
  /\ \E o \in Outcomes(Diverging(one_fsm(inv.files[1]), one_fsm(inv.files[2])) = {}) :
       code' = CASE o = "closed" -> 0 [] o = "broken" -> 2 [] OTHER -> 1
  /\ UNCHANGED <<inv, done, jobs, tally>>

FpgaCliNext ==
  \/ CheckModule \/ ConcludeCheck \/ Collect \/ ProveJob \/ ConcludeProve
  \/ Equiv \/ Bisimulation

FpgaCliSpec == FpgaCliInit /\ [][FpgaCliNext]_commands

-----------------------------------------------------------------------------
(* What load_raw and the two extractions give: a machine is told from the  *)
(* absence and the refusal of one, and exit codes are none of these.       *)
IsDesign(m) ==
  /\ m.fsm \notin {NoFsm, Refused} => "states" \in DOMAIN m.fsm
  /\ m.depths \in Seq(Nat) /\ m.depths # Refused

ASSUME FileAssumption ==
  /\ NoFsm \notin 0..2 /\ NoFsm # Refused
  /\ DEFAULT_BOUND \in Nat /\ EXPLICIT_LIMIT \in Nat
  /\ MaxDepth \in Nat /\ Modulus \in Nat /\ MaxDepth < Modulus
  /\ Blocked \notin Markings
  /\ \A i \in Invocations :
       /\ i = [verb |-> i.verb, files |-> i.files, emit |-> i.emit, prove |-> i.prove]
       /\ i.verb \in {"check", "prove", "equiv"}
       /\ i.files \in Seq(Range(i.files))
       /\ Len(i.files) = IF i.verb = "equiv" THEN 2 ELSE 1
       /\ \A f \in Range(i.files) : f \in Seq(Range(f)) /\ \A m \in Range(f) : IsDesign(m)

-----------------------------------------------------------------------------
Machines(ms) == {ms[i].fsm : i \in DOMAIN ms} \ {NoFsm, Refused}
Fifos(ms) == UNION {Range(ms[i].depths) : i \in DOMAIN ms}
AnyRefused(ms) == (\E i \in DOMAIN ms : ms[i].fsm = Refused) \/ Fifos(ms) \ (1..MaxDepth) # {}

(* fpga.rs:1317 and :1470: an exit 0 of check or of prove is about every   *)
(* machine and every FIFO of the file, none refused, and none of them can  *)
(* reach what its properties forbid: a FIFO that check leaves to prove is  *)
(* one that prove certifies, and a proof without a property is counted     *)
(* apart.  An exit 0 of equiv is about the one machine of either file.     *)
PassIsEarned ==
  /\ code = 0 /\ inv.verb \in {"check", "prove"} =>
    /\ ~AnyRefused(File) /\ (Machines(File) # {} \/ Fifos(File) # {})
    /\ \A m \in Machines(File) : SafeMachine(m)
    /\ \A d \in Fifos(File) : SafeFifo(d) /\ LeanProves(fifo_net(d))
    /\ inv.verb = "prove" => tally.proved + tally.vacuous = Len(jobs)
  /\ code = 0 /\ inv.verb \in {"equiv", "bisimulation"} =>
    /\ \A f \in {1, 2} : /\ ~\E i \in DOMAIN inv.files[f] : inv.files[f][i].fsm = Refused
                         /\ Cardinality({i \in DOMAIN inv.files[f] : inv.files[f][i].fsm # NoFsm}) = 1
    /\ \A m \in Machines(inv.files[1]), n \in Machines(inv.files[2]) : Diverging(m, n) = {}

(* The two commands agree: a file that check refutes, prove never passes,  *)
(* and one that check finds nothing wrong with is not refuted by a proof.  *)
CheckRefutes(ms) ==
  \/ AnyRefused(ms) \/ \E m \in Machines(ms) : ~SafeMachine(m)
  \/ \E d \in Fifos(ms) : d \in 1..MaxDepth /\ ~SafeFifo(d)

CheckAgreesWithProve ==
  /\ inv.verb = "prove" /\ code = 0 => ~CheckRefutes(File)
  /\ inv.verb = "check" /\ code = 0 =>
       \A job \in Range(jobs) : "closed" \in Outcomes(Holds(job))
  /\ inv.verb = "check" /\ code = 1 /\ ~CheckRefutes(File) =>
       \E m \in Machines(File) : ~WithinBound(m)

(* The two together: what an exit code of these commands is about.         *)
PassIsAboutTheWholeFile == PassIsEarned /\ CheckAgreesWithProve
=============================================================================
