-------------------------------- MODULE Fsm --------------------------------
(***************************************************************************)
(* Finite state machines from a description (build_fsm, build_fsm_product  *)
(* and product in src/src/models/format.rs), one machine or the            *)
(* synchronous product of several, and the components run side by side as  *)
(* the reference.                                                          *)
(*                                                                         *)
(* A description is the tables of a file:                                  *)
(*   [machines, initial : sequences, states : the declared states of a     *)
(*    single machine, transition : a sequence of [machine, from, on, to],  *)
(*    forbid : a sequence of sequences of one state per machine].          *)
(* A state name is a sequence of symbols, "|" joins those of a product.    *)
(***************************************************************************)
EXTENDS Lts, Integers, FiniteSets, SequencesExt, FiniteSetsExt, Functions

CONSTANTS Descriptions, Bar

VARIABLES
  doc,     \* the description
  fsm,     \* the machine built from it, or a refusal
  parts,   \* the components' states
  joined   \* the state of fsm

fsms == <<doc, fsm, parts, joined>>

Refusal == [refused |-> TRUE]
Built(m) == "refused" \notin DOMAIN m

(* join("|")                                                               *)
JoinBar(names) ==
  FoldLeft(LAMBDA text, n : text \o <<Bar>> \o n, Head(names), Tail(names))

(* First occurrences, in order: push unless contained.                     *)
Push(acc, x) == IF Contains(acc, x) THEN acc ELSE Append(acc, x)

(* A map filled by insert in order; two entries for one key refuse it.     *)
Table(rows) ==
  [k \in {<<rows[i].from, rows[i].on>> : i \in DOMAIN rows} |->
     rows[Max({i \in DOMAIN rows : <<rows[i].from, rows[i].on>> = k})].to]
Deterministic(rows) == Cardinality(DOMAIN Table(rows)) = Len(rows)

Component(d, k) ==
  LET rows == SelectSeq(d.transition, LAMBDA t : t.machine = d.machines[k])
  IN  IF rows = <<>> \/ ~Deterministic(rows) THEN Refusal
      ELSE [states |-> FoldLeft(LAMBDA acc, t : Push(Push(acc, t.from), t.to),
                                <<d.initial[k]>>, rows),
            alphabet |-> FoldLeft(LAMBDA acc, t : Push(acc, t.on), <<>>, rows),
            initial |-> d.initial[k], transitions |-> Table(rows), forbid |-> {}]

(* Where a component goes: it stays when the event is another's.           *)
MovesEager(m, s, e) ==                   \* mutant: a shared event needs one side
  IF <<s, e>> \in DOMAIN m.transitions THEN m.transitions[s, e] ELSE s
Moves(m, s, e) ==
  IF ~Contains(m.alphabet, e) THEN s
  ELSE IF <<s, e>> \in DOMAIN m.transitions THEN m.transitions[s, e] ELSE NoState

(* Both move; of two pairs with one joined name the later overwrites.      *)
product(a, b) ==
  LET alphabet == FoldLeft(Push, a.alphabet, b.alphabet)
      pairs == FlattenSeq([i \in DOMAIN a.states |->
                             [j \in DOMAIN b.states |-> <<a.states[i], b.states[j]>>]])
      next(p, e) == <<Moves(a, p[1], e), Moves(b, p[2], e)>>
      rows == {<<p, e>> \in Range(pairs) \X Range(alphabet) :
                 NoState \notin Range(next(p, e))}
      last(s, e) == Last(SelectSeq(pairs, LAMBDA p : JoinBar(p) = s /\ <<p, e>> \in rows))
  IN  [states |-> [i \in DOMAIN pairs |-> JoinBar(pairs[i])],
       alphabet |-> alphabet,
       initial |-> JoinBar(<<a.initial, b.initial>>),
       transitions |-> [k \in {<<JoinBar(r[1]), r[2]>> : r \in rows} |->
                          JoinBar(next(last(k[1], k[2]), k[2]))],
       forbid |-> {}]

build_fsm_product(d) ==
  LET cs == [k \in DOMAIN d.machines |-> Component(d, k)]
      acc == FoldLeft(product, Head(cs), Tail(cs))
      bad == {JoinBar(d.forbid[i]) : i \in DOMAIN d.forbid}
  IN  IF Len(d.initial) # Len(d.machines) \/ Len(d.machines) < 2 THEN Refusal
      ELSE IF \E k \in DOMAIN cs : ~Built(cs[k]) THEN Refusal
      ELSE IF bad \subseteq Range(acc.states) THEN [acc EXCEPT !.forbid = bad] ELSE Refusal

build_fsm(d) ==
  LET named == {d.initial[1]} \cup {d.forbid[i][1] : i \in DOMAIN d.forbid} \cup
               UNION {{d.transition[i].from, d.transition[i].to} : i \in DOMAIN d.transition}
  IN  IF named \subseteq Range(d.states) /\ Deterministic(d.transition)
        THEN [states |-> d.states, initial |-> d.initial[1],
              alphabet |-> FoldLeft(LAMBDA acc, t : Push(acc, t.on), <<>>, d.transition),
              transitions |-> Table(d.transition),
              forbid |-> {d.forbid[i][1] : i \in DOMAIN d.forbid}]
        ELSE Refusal

(* A file with `machines` describes a product.                             *)
parse_fsm(d) == IF d.states = <<>> THEN build_fsm_product(d) ELSE build_fsm(d)

-----------------------------------------------------------------------------
(* The reference: what the rows of a machine say, and all of them at once. *)
Owns(d, k, e) == \E i \in DOMAIN d.transition :
                   d.transition[i].machine = d.machines[k] /\ d.transition[i].on = e
Rows(d, k, s, e) ==
  {t \in Range(d.transition) : t.machine = d.machines[k] /\ t.from = s /\ t.on = e}
Events(d) == {t.on : t \in Range(d.transition)}
Together(d, ss, e) ==
  {ts \in [DOMAIN ss -> Range(ss) \cup {t.to : t \in Range(d.transition)}] :
     \A k \in DOMAIN ss : IF Owns(d, k, e) THEN \E t \in Rows(d, k, ss[k], e) : t.to = ts[k]
                                           ELSE ts[k] = ss[k]}

FsmInit ==
  /\ doc \in Descriptions
  /\ fsm = parse_fsm(doc)
  /\ parts = doc.initial
  /\ joined = IF Built(fsm) THEN LtsInitial(fsm) ELSE NoState

Goes(s, e) == IF <<s, e>> \in DOMAIN fsm.transitions THEN LtsStep(fsm, s, e) ELSE NoState

FsmStep ==
  /\ Built(fsm)
  /\ \E e \in Events(doc) :
       /\ Goes(joined, e) # NoState
       /\ joined' = Goes(joined, e)
       /\ parts' \in Together(doc, parts, e)
  /\ UNCHANGED <<doc, fsm>>

FsmSpec == FsmInit /\ [][FsmStep]_fsms

(* format.rs:97-102: the machine built is the synchronous product, as long *)
(* as no component's state has the bar in its name: same states, an event  *)
(* blocked exactly if an owner blocks it, forbidden where the file says.   *)
NoBar == \A t \in Range(doc.transition) : Bar \notin Range(t.from) \cup Range(t.to)

ProductIsSynchronous ==
  Built(fsm) /\ (NoBar \/ Len(parts) = 1) =>
    /\ joined = JoinBar(parts)
    /\ LtsForbidden(fsm, joined) <=> parts \in Range(doc.forbid)
    /\ \A e \in Events(doc) :
         {JoinBar(ts) : ts \in Together(doc, parts, e)} = {Goes(joined, e)} \ {NoState}
=============================================================================
