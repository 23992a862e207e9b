------------------------------ MODULE WeakMem ------------------------------
(***************************************************************************)
(* C11 shared memory, by views: the model of src/leanlift-iris/            *)
(* LeanliftIris/PhaseB/WeakMem.lean (and SeqCst.lean for the global view), *)
(* with the fences, read-modify-writes and plain cells that the cores of   *)
(* src/leanlift-loom use beside it.                                        *)
(*                                                                         *)
(* A location has a history of messages, and a time is an index into it. A *)
(* view gives the latest time known of each location.  A store appends: it *)
(* is exact where every writer knows the last message, which the cores     *)
(* state as an invariant.  A plain (UnsafeCell) access that does not know  *)
(* the last write, or a plain write that does not know the last read, is a *)
(* data race.  SeqCst accesses are no stronger than AcqRel, as in loom;    *)
(* SeqCst fences are exact.  Like loom, the model has no load buffering.   *)
(***************************************************************************)
EXTENDS Naturals, Sequences

CONSTANTS
  Thread,
  Loc,       \* atomic locations and plain cells
  Cell,      \* the plain cells among them
  initMem    \* [Loc -> value]

VARIABLES
  hist,      \* hist[l]    the messages stored at l, oldest first
  cur,       \* cur[th]    the view of th
  acq,       \* acq[th]    what an acquire fence would add to it
  rel,       \* rel[th]    what the last release fence released
  sc,        \* the global SC view
  reads,     \* reads[c]   time of the last read of cell c
  race       \* has a data race happened?

wm == <<hist, cur, acq, rel, sc, reads, race>>

ReadOf(c) == <<"read", c>>
Clock == Loc \cup {ReadOf(c) : c \in Cell}

bot == [x \in Clock |-> 1]
join(V, W) == [x \in Clock |-> IF V[x] < W[x] THEN W[x] ELSE V[x]]
seen(V, x, i) == [V EXCEPT ![x] = IF @ < i THEN i ELSE @]

WMInit ==
  /\ hist = [l \in Loc |-> <<[val |-> initMem[l], rview |-> bot]>>]
  /\ cur = [th \in Thread |-> bot]
  /\ acq = [th \in Thread |-> bot]
  /\ rel = [th \in Thread |-> bot]
  /\ sc = bot
  /\ reads = [c \in Cell |-> 1]
  /\ race = FALSE

Acquires(o) == o \in {"Acquire", "AcqRel", "SeqCst"}
Releases(o) == o \in {"Release", "AcqRel", "SeqCst"}

Last(l) == Len(hist[l])
val(l, i) == hist[l][i].val
latest(l) == val(l, Last(l))

(* The messages of l that th may read: none older than what it has seen.   *)
canLoad(th, l) == cur[th][l]..Last(l)

loadView(V, l, i, o) ==
  IF Acquires(o) THEN join(seen(V, l, i), hist[l][i].rview) ELSE seen(V, l, i)

(* th reads message i of l.                                                *)
Load(th, l, i, o) ==
  /\ cur' = [cur EXCEPT ![th] = loadView(@, l, i, o)]
  /\ acq' = [acq EXCEPT ![th] = loadView(@, l, i, "Acquire")]
  /\ UNCHANGED <<hist, rel, sc, reads, race>>

(* The view a store releases: all that th knows, or what its last release  *)
(* fence knew.                                                             *)
released(th, V, o) == IF Releases(o) THEN V ELSE rel[th]

Store(th, l, v, o) ==
  LET i == Last(l) + 1
      V == seen(cur[th], l, i)
  IN /\ hist' = [hist EXCEPT ![l] =
          Append(@, [val |-> v, rview |-> seen(released(th, V, o), l, i)])]
     /\ cur' = [cur EXCEPT ![th] = V]
     /\ acq' = [acq EXCEPT ![th] = seen(@, l, i)]
     /\ UNCHANGED <<rel, sc, reads, race>>

(* A read-modify-write reads the last message and passes on what it        *)
(* released (release sequence).                                            *)
Update(th, l, v, o) ==
  LET i == Last(l) + 1
      V == seen(loadView(cur[th], l, i - 1, o), l, i)
  IN /\ hist' = [hist EXCEPT ![l] =
          Append(@, [val |-> v,
                     rview |-> join(hist[l][i - 1].rview, seen(released(th, V, o), l, i))])]
     /\ cur' = [cur EXCEPT ![th] = V]
     /\ acq' = [acq EXCEPT ![th] = seen(loadView(@, l, i - 1, "Acquire"), l, i)]
     /\ UNCHANGED <<rel, sc, reads, race>>

(* compare_exchange, which fails only on a message that holds another      *)
(* value, and then is a load.                                              *)
Cas(th, l, old, new, o) == latest(l) = old /\ Update(th, l, new, o)
CasFails(th, l, old, o) == \E i \in canLoad(th, l) : val(l, i) # old /\ Load(th, l, i, o)

FenceAcquire(th) ==
  /\ cur' = [cur EXCEPT ![th] = acq[th]]
  /\ UNCHANGED <<hist, acq, rel, sc, reads, race>>

FenceRelease(th) ==
  /\ rel' = [rel EXCEPT ![th] = cur[th]]
  /\ UNCHANGED <<hist, cur, acq, sc, reads, race>>

FenceSeqCst(th) ==
  LET V == join(acq[th], sc)
  IN /\ sc' = V
     /\ cur' = [cur EXCEPT ![th] = V]
     /\ acq' = [acq EXCEPT ![th] = V]
     /\ rel' = [rel EXCEPT ![th] = V]
     /\ UNCHANGED <<hist, reads, race>>

NoFence == UNCHANGED <<hist, cur, acq, rel, sc, reads, race>>

-----------------------------------------------------------------------------
(* Plain accesses of a cell (UnsafeCell with and with_mut).                *)
KnowsWrites(th, c) == cur[th][c] = Last(c)
KnowsReads(th, c) == cur[th][ReadOf(c)] = reads[c]

ReadCell(th, c) ==
  /\ reads' = [reads EXCEPT ![c] = @ + 1]
  /\ cur' = [cur EXCEPT ![th] = seen(@, ReadOf(c), reads[c] + 1)]
  /\ acq' = [acq EXCEPT ![th] = seen(@, ReadOf(c), reads[c] + 1)]
  /\ race' = (race \/ ~KnowsWrites(th, c))
  /\ UNCHANGED <<hist, rel, sc>>

WriteCell(th, c, v) ==
  LET i == Last(c) + 1
  IN /\ hist' = [hist EXCEPT ![c] = Append(@, [val |-> v, rview |-> bot])]
     /\ cur' = [cur EXCEPT ![th] = seen(@, c, i)]
     /\ acq' = [acq EXCEPT ![th] = seen(@, c, i)]
     /\ race' = (race \/ ~(KnowsWrites(th, c) /\ KnowsReads(th, c)))
     /\ UNCHANGED <<rel, sc, reads>>

(* The allocator hands the memory of c to th, after whoever freed it with  *)
(* view V, and th initialises it.                                          *)
AllocateCell(th, c, v, V) ==
  LET i == Last(c) + 1
  IN /\ hist' = [hist EXCEPT ![c] = Append(@, [val |-> v, rview |-> bot])]
     /\ cur' = [cur EXCEPT ![th] = seen(join(@, V), c, i)]
     /\ acq' = [acq EXCEPT ![th] = seen(join(@, V), c, i)]
     /\ UNCHANGED <<rel, sc, reads, race>>

-----------------------------------------------------------------------------
View == [Clock -> Nat]
WMTypeOK(Val) ==
  /\ hist \in [Loc -> Seq([val : Val, rview : View])]
  /\ cur \in [Thread -> View] /\ acq \in [Thread -> View] /\ rel \in [Thread -> View]
  /\ sc \in View
  /\ reads \in [Cell -> Nat]
  /\ race \in BOOLEAN

(* No plain access races: the orderings of the atomic accesses around it   *)
(* make every conflicting access happen before or after it.                *)
NoRace == ~race
=============================================================================
