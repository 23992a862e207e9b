------------------------------ MODULE Executor ------------------------------
(***************************************************************************)
(* `lift model export --verify` (src/src/models/codegen.rs and conformance *)
(* in mod.rs): a model is written out as a program in Rust, C++ or Go, the *)
(* program is compiled and fed one trace of events per line, and what it   *)
(* prints is compared with what the model itself does.                     *)
(*                                                                         *)
(* A model is an explicit transition system of Lts, whose states and forbid*)
(* are here sequences (the Vecs of the code), or a net of PtNet.  A name is*)
(* a sequence of symbols, since names meet where code makes identifiers of *)
(* them and where a line of events is split at blanks.  A program is a     *)
(* language and the model it is a program OF: the model it is checked      *)
(* against, or another one if the generator were wrong.                    *)
(***************************************************************************)
EXTENDS PtNet, Lts, Functions, TLC

CONSTANTS
  Exports,      \* records [model, of, lang, cap, samples]: what is exported
  PipeCap,      \* lines a pipe holds before its writer blocks
  MaxLen        \* the length of a random trace

VARIABLES
  export,     \* the export under way
  step,       \* "compile", "cover", "feed", "drain", "done"
  witness,    \* [state -> trace]  a path to every state met
  frontier,   \* the states met whose actions are not yet tried
  traces,     \* the traces to run
  partial,    \* the cap was reached
  fed, stdin, \* lines written so far; those the program has not read
  hand,       \* lines it has read and not yet answered
  stdout,     \* lines it has printed that are not yet collected
  got,        \* lines collected
  closure     \* "none", "conformant", "failed"

exporting == <<export, step, witness, frontier, traces, partial, fed, stdin, hand,
               stdout, got, closure>>

IsNet(m) == "bounds" \in DOMAIN m
Letters == {"a", "b", "t", "u", "w", "enqueue", "dequeue", "leak"}
Digits == {"1"}
Blank == " "

-----------------------------------------------------------------------------
(* The model behind its trait.                                             *)
NativeInitial(m) == IF IsNet(m) THEN PtInitial(m) ELSE LtsInitial(m)
NativeForbidden(m, s) ==
  IF IsNet(m) THEN PtForbidden(m, s) ELSE LtsForbidden([m EXCEPT !.forbid = Range(@)], s)
NativeStep(m, s, a) ==
  IF IsNet(m) THEN PtStep(m, s, a)
  ELSE IF <<s, a>> \in DOMAIN m.transitions THEN LtsStep(m, s, a) ELSE NoState

Stuck(s) == s \in {Blocked, NoState}

petri_alphabet(net) == [i \in DOMAIN net.transitions |-> net.transitions[i].name]
Alphabet(m) == IF IsNet(m) THEN petri_alphabet(m) ELSE m.alphabet

(* The text of a state: its name, or its counts joined with commas.        *)
encode(m, s) == IF IsNet(m) THEN <<ToString(s)>> ELSE s

(* join(" ") and split_whitespace.                                         *)
Join(words) ==
  IF words = <<>> THEN <<>>
  ELSE FoldLeft(LAMBDA text, w : text \o <<Blank>> \o w, Head(words), Tail(words))

Split(text) ==
  LET cut == FoldLeft(LAMBDA ws, c : IF c = Blank THEN Append(ws, <<>>)
                                     ELSE Append(Front(ws), Append(Last(ws), c)),
                      << <<>> >>, text)
  IN  SelectSeq(cut, LAMBDA w : w # <<>>)

Flag(bad) == IF bad THEN << <<"!">> >> ELSE <<>>

(* One line of the protocol: the words printed for a trace, where go is    *)
(* what an event does at a state and bad the flag of a state.              *)
Line(m, init, Go(_, _), Bad(_), known, trace) ==
  FoldLeft(
    LAMBDA at, ev :
      IF at.stop THEN at
      ELSE IF ev \notin known
        THEN [at EXCEPT !.stop = TRUE, !.out = Append(@, <<"BADEVENT">>)]
      ELSE LET t == Go(at.state, ev)
           IN  IF Stuck(t)
                 THEN [at EXCEPT !.stop = TRUE, !.out = Append(@, <<"BLOCKED">>)]
                 ELSE [stop |-> FALSE, state |-> t,
                       out |-> Append(at.out, encode(m, t)) \o Flag(Bad(t))],
    [stop |-> FALSE, state |-> init, out |-> <<encode(m, init)>> \o Flag(Bad(init))],
    trace).out

native_trace(m, trace) ==
  Join(Line(m, NativeInitial(m), LAMBDA s, a : NativeStep(m, s, a),
            LAMBDA s : NativeForbidden(m, s), Range(trace), trace))

-----------------------------------------------------------------------------
(* The identifier made of a name.                                          *)
vid(name) ==
  LET id == [i \in DOMAIN name |-> IF name[i] \in Letters \cup Digits \cup {"while"}
                                     THEN name[i] ELSE "_"]
  IN  IF id = <<>> \/ id[1] \in Digits THEN <<"S">> \o id ELSE id

Vids(names) == [i \in DOMAIN names |-> vid(names[i])]

(* Words that are no identifiers; Go puts S_ or E_ in front of each.       *)
Keywords == [rust |-> {<<"while">>, <<"_">>}, cpp |-> {<<"while">>}, go |-> {}]

Declares(m, lang) ==
  \A names \in {m.states, m.alphabet} :
    IsInjective(Vids(names)) /\ Range(Vids(names)) \cap Keywords[lang] = {}

(* Which programs their compiler takes.  Rust lets an arm be repeated, in  *)
(* C++ and Go two equal cases of a switch are an error.                    *)
rust(m) == Declares(m, "rust")
cpp(m) == Declares(m, "cpp") /\ IsInjective(m.forbid)
go(m) == Declares(m, "go") /\ IsInjective(m.forbid)
emit(m, lang) ==
  CASE lang = "rust" -> rust(m) [] lang = "cpp" -> cpp(m) [] lang = "go" -> go(m)

(* A bound over no place leaves an operator without its left operand.      *)
forbidden_expr(net) == \A i \in DOMAIN net.bounds : net.bounds[i].places # {}
petri_rust(net) == forbidden_expr(net)
petri_cpp(net) == forbidden_expr(net)
petri_go(net) == forbidden_expr(net) /\ IsInjective(petri_alphabet(net))
emit_petri(net, lang) ==
  CASE lang = "rust" -> petri_rust(net) [] lang = "cpp" -> petri_cpp(net)
    [] lang = "go" -> petri_go(net)

Compiles(m, lang) == IF IsNet(m) THEN emit_petri(m, lang) ELSE emit(m, lang)

(* Counts are u32 in Rust and C++, and wrap; Go's uint has twice the bits. *)
Go64 == INSTANCE PtNet WITH Modulus <- Modulus * Modulus

ProgramStepWide(m, lang, s, a) ==                \* mutant: 64-bit counts in C++ too
  IF IsNet(m) /\ lang # "rust" THEN Go64!PtStep(m, s, a) ELSE NativeStep(m, s, a)
ProgramStep(m, lang, s, a) ==
  IF IsNet(m) /\ lang = "go" THEN Go64!PtStep(m, s, a) ELSE NativeStep(m, s, a)
ProgramForbidden(m, lang, s) ==
  IF IsNet(m) /\ lang = "go" THEN Go64!PtForbidden(m, s) ELSE NativeForbidden(m, s)

(* What the program prints for a line of its input.                        *)
Prints(m, lang, text) ==
  Join(Line(m, NativeInitial(m), LAMBDA s, a : ProgramStep(m, lang, s, a),
            LAMBDA s : ProgramForbidden(m, lang, s), Range(Alphabet(m)), Split(text)))

(* The Rust program reads its whole input before it prints a line.         *)
Streams(lang) == lang # "rust"

-----------------------------------------------------------------------------
(* Coverage: a trace per state met and event, the path to the state then   *)
(* the event; the empty trace first.                                       *)
CoverEventNoEdge(at, s, a) ==                    \* mutant: refused events skipped
  LET t == NativeStep(export.model, s, a)
      trace == Append(at.witness[s], a)
  IN  IF Stuck(t) THEN at
      ELSE IF t \in DOMAIN at.witness
        THEN [at EXCEPT !.traces = Append(@, trace)]
      ELSE IF Cardinality(DOMAIN at.witness) >= export.cap
        THEN [at EXCEPT !.traces = Append(@, trace), !.partial = TRUE]
      ELSE [traces |-> Append(at.traces, trace), partial |-> at.partial,
            witness |-> at.witness @@ (t :> trace), frontier |-> Append(at.frontier, t)]

CoverEvent(at, s, a) ==
  LET t == NativeStep(export.model, s, a)
      trace == Append(at.witness[s], a)
      tried == [at EXCEPT !.traces = Append(@, trace)]
  IN  IF Stuck(t) \/ t \in DOMAIN at.witness THEN tried
      ELSE IF Cardinality(DOMAIN at.witness) >= export.cap
        THEN [tried EXCEPT !.partial = TRUE]
      ELSE [tried EXCEPT !.witness = @ @@ (t :> trace), !.frontier = Append(@, t)]

(* A random trace is any; there are export.samples of them.                *)
random_traces(alphabet, n, max_len) ==
  IF alphabet = <<>> \/ n = 0 THEN {<<>>}
  ELSE [1..n -> BoundedSeq(Range(alphabet), max_len)]

(* lines(): the text after the last newline counts if it is not empty.     *)
Lines(ts) ==
  LET text == [i \in DOMAIN ts |-> Join(ts[i])]
  IN  IF Last(text) = <<>> THEN Front(text) ELSE text

Native(m, lines) == [i \in DOMAIN lines |-> native_trace(m, Split(lines[i]))]

ExportInit ==
  /\ export \in Exports
  /\ step = "compile"
  /\ witness = NativeInitial(export.model) :> <<>>
  /\ frontier = <<NativeInitial(export.model)>>
  /\ traces = << <<>> >>
  /\ partial = FALSE
  /\ fed = 0 /\ stdin = <<>> /\ hand = <<>> /\ stdout = <<>> /\ got = <<>>
  /\ closure = "none"

pipes == <<fed, stdin, hand, stdout, got>>
coverage == <<witness, frontier, traces, partial>>

Compile ==
  /\ step = "compile"
  /\ IF Compiles(export.of, export.lang)
       THEN step' = "cover" /\ UNCHANGED closure
       ELSE step' = "done" /\ closure' = "failed"
  /\ UNCHANGED <<export, coverage, pipes>>

(* while let Some(s) = queue.pop_front(), with its loop over the alphabet. *)
Cover ==
  /\ step = "cover" /\ frontier # <<>>
  /\ LET s == Head(frontier)
         after == FoldLeft(LAMBDA at, a : CoverEvent(at, s, a),
                           [witness |-> witness, frontier |-> Tail(frontier),
                            traces |-> traces, partial |-> partial],
                           Alphabet(export.model))
     IN  /\ witness' = after.witness
         /\ frontier' = after.frontier
         /\ traces' = after.traces
         /\ partial' = after.partial
  /\ UNCHANGED <<export, step, pipes, closure>>

Spawn ==
  /\ step = "cover" /\ frontier = <<>>
  /\ \E extra \in random_traces(Alphabet(export.model), export.samples, MaxLen) :
       traces' = traces \o extra
  /\ step' = "feed"
  /\ UNCHANGED <<export, witness, frontier, partial, pipes, closure>>

(* write_all: the whole input goes down one pipe before the other is read. *)
Feed ==
  /\ step = "feed" /\ fed < Len(Lines(traces)) /\ Len(stdin) < PipeCap
  /\ fed' = fed + 1
  /\ stdin' = Append(stdin, Lines(traces)[fed + 1])
  /\ UNCHANGED <<export, step, coverage, hand, stdout, got, closure>>

CloseStdin ==
  /\ step = "feed" /\ fed = Len(Lines(traces))
  /\ step' = "drain"
  /\ UNCHANGED <<export, coverage, pipes, closure>>

(* wait_with_output, until the program has closed its output.              *)
Collect ==
  /\ step = "drain" /\ stdout # <<>>
  /\ got' = Append(got, Head(stdout))
  /\ stdout' = Tail(stdout)
  /\ UNCHANGED <<export, step, coverage, fed, stdin, hand, closure>>

(* The program: std::getline and sc.Scan() take a line when none is in     *)
(* hand; read_to_string takes all there are, and waits for the end.        *)
Read ==
  /\ step \in {"feed", "drain"} /\ stdin # <<>>
  /\ Streams(export.lang) => hand = <<>>
  /\ hand' = Append(hand, Head(stdin))
  /\ stdin' = Tail(stdin)
  /\ UNCHANGED <<export, step, coverage, fed, stdout, got, closure>>

Answer ==
  /\ step \in {"feed", "drain"} /\ hand # <<>> /\ Len(stdout) < PipeCap
  /\ ~Streams(export.lang) => step = "drain" /\ stdin = <<>>
  /\ stdout' = Append(stdout, Prints(export.of, export.lang, Head(hand)))
  /\ hand' = Tail(hand)
  /\ UNCHANGED <<export, step, coverage, fed, stdin, got, closure>>

Diverges(printed, native) == printed # native

Compare ==
  /\ step = "drain" /\ stdin = <<>> /\ hand = <<>> /\ stdout = <<>>
  /\ step' = "done"
  /\ closure' = IF Diverges(got, Native(export.model, Lines(traces)))
                  THEN "failed" ELSE "conformant"
  /\ UNCHANGED <<export, coverage, pipes>>

ExportNext ==
  Compile \/ Cover \/ Spawn \/ Feed \/ CloseStdin \/ Collect \/ Read \/ Answer \/ Compare

ExportSpec == ExportInit /\ [][ExportNext]_exporting

-----------------------------------------------------------------------------
(* Names that survive being written in a line of words and read back.      *)
Plain(name) == name # <<>> /\ Blank \notin Range(name)
               /\ name \notin {<<"!">>, <<"BLOCKED">>, <<"BADEVENT">>}
PlainModel(m) ==
  /\ Alphabet(m) # <<>> /\ \A i \in DOMAIN Alphabet(m) : Plain(Alphabet(m)[i])
  /\ ~IsNet(m) => \A i \in DOMAIN m.states : Plain(m.states[i])

(* The program behaves as the model wherever the model can get.            *)
Same(m, of, lang) ==
  LET alike(s) == NativeForbidden(m, s) = ProgramForbidden(of, lang, s)
  IN  /\ NativeInitial(of) = NativeInitial(m) /\ alike(NativeInitial(m))
      /\ \A s \in DOMAIN witness, a \in Range(Alphabet(m)) :
           LET t == NativeStep(m, s, a)
           IN  /\ Stuck(t) <=> a \notin Range(Alphabet(of))
                                   \/ Stuck(ProgramStep(of, lang, s, a))
               /\ ~Stuck(t) => ProgramStep(of, lang, s, a) = t /\ alike(t)

(* codegen.rs:135-144: the loop closure is "a complete equivalence check,  *)
(* not a random sample": a program that passes is the model, initial       *)
(* state, refusals and labels included, unless the cap was reached.        *)
ConformanceIsComplete ==
  closure = "conformant" /\ ~partial /\ PlainModel(export.model)
    => Same(export.model, export.of, export.lang)

(* No count, and no sum of counts, gets past the width of u32.             *)
Fits(net) ==
  \A s \in DOMAIN witness, a \in Range(Alphabet(net)) :
    LET t == Go64!PtStep(net, s, a) IN Stuck(t) \/ Go64!Tokens(t, DOMAIN t) < Modulus

(* codegen.rs: what the generator writes, if it compiles, passes; for Go   *)
(* as long as no count wraps, since Go's counts do not.                    *)
GeneratedCodeConforms ==
  /\ step = "done" /\ export.of = export.model /\ PlainModel(export.model)
  /\ Compiles(export.of, export.lang)
  /\ export.lang = "go" /\ IsNet(export.model) => Fits(export.model)
  => closure = "conformant"

(* mod.rs: an export that started to run its program can go on: not both   *)
(* the writer of the input and the writer of the output wait for the other.*)
NotWedged ==
  ~ /\ step = "feed" /\ fed < Len(Lines(traces)) /\ Len(stdin) = PipeCap
    /\ Streams(export.lang) /\ hand # <<>> /\ Len(stdout) = PipeCap
=============================================================================
