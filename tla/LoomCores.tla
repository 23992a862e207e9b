----------------------------- MODULE LoomCores ------------------------------
(***************************************************************************)
(* The six cores of src/leanlift-loom side by side: a behaviour is one of  *)
(* one core.  They are instances of the modules of their proofs, so that   *)
(* what is proved of a core holds here.                                    *)
(***************************************************************************)
EXTENDS Naturals, TLAPS

CONSTANTS
  Cores,                                   \* those a behaviour may be of
  RingSize, RingCalls,                     \* spsc.rs: N, the calls of each thread
  Producers, QueueSize, QueueCalls,        \* mpsc.rs
  Watchers, CellCalls,                     \* seqlock.rs
  Readers, SnapshotSlots, SnapshotCalls,   \* spmc.rs
  Pushers, Nodes, StackCalls,              \* treiber.rs
  Thieves, DequeSize, DequeCalls           \* chase_lev.rs

VARIABLES core, hist, cur, acq, rel, sc, reads, race, pc, reg, calls, out

S == INSTANCE SpscProofs WITH N <- RingSize, MaxCalls <- RingCalls
Q == INSTANCE MpscProofs WITH N <- QueueSize, Producer <- Producers, MaxCalls <- QueueCalls
L == INSTANCE SpmcProofs WITH N <- 1, Ring <- FALSE, Reader <- Watchers, MaxCalls <- CellCalls
R == INSTANCE SpmcProofs WITH N <- SnapshotSlots, Ring <- TRUE, Reader <- Readers,
       MaxCalls <- SnapshotCalls
T == INSTANCE TreiberProofs WITH Pusher <- Pushers, Node <- Nodes, MaxCalls <- StackCalls
D == INSTANCE ChaseLevProofs WITH N <- DequeSize, Thief <- Thieves, MaxCalls <- DequeCalls

vars == <<core, hist, cur, acq, rel, sc, reads, race, pc, reg, calls, out>>

Init ==
  /\ core \in Cores
  /\ \/ core = "spsc" /\ S!Init
     \/ core = "mpsc" /\ Q!Init
     \/ core = "seqlock" /\ L!Init
     \/ core = "spmc" /\ R!Init
     \/ core = "treiber" /\ T!Init
     \/ core = "chase_lev" /\ D!Init

Next ==
  /\ UNCHANGED core
  /\ \/ core = "spsc" /\ S!Next
     \/ core = "mpsc" /\ Q!Next
     \/ core = "seqlock" /\ L!Next
     \/ core = "spmc" /\ R!Next
     \/ core = "treiber" /\ T!Next
     \/ core = "chase_lev" /\ D!Next

Spec == Init /\ [][Next]_vars

(* What the proofs assume of the constants.                                *)
CoreAssumptions ==
  /\ S!NAssumption /\ S!CallsAssumption /\ Q!MpscAssumption
  /\ L!SpmcAssumption /\ R!SpmcAssumption
  /\ T!TreiberAssumption /\ T!CallsAssumption /\ D!ChaseLevAssumption

-----------------------------------------------------------------------------
Is(c) == core = c
Of(c, P) == Is(c) => P

(* spsc.rs: no data race on a cell, and each counter is stored by a thread *)
(* that knows its last value.                                              *)
RaceFree == Of("spsc", S!RaceFree)

(* spsc.rs: every behaviour is one of a queue of at most N values.         *)
SpscIsAFifo ==
  /\ Of("spsc", S!Queue!Init)
  /\ [][Of("spsc", S!Queue!Next)]_<<core, S!Contents, out>>

(* mpsc.rs: pop returns the values in ticket order, each once, and none    *)
(* whose push was refused; one whose push returned true is never           *)
(* overwritten, and no access of a cell races.                             *)
MpscKeepsOrder == Of("mpsc", Q!MpscKeepsOrder)

(* seqlock.rs, spmc.rs: an accepted snapshot is not torn, and is that of   *)
(* its stamp.                                                              *)
SnapshotsAreWhole ==
  Of("seqlock", L!SnapshotsAreWhole) /\ Of("spmc", R!SnapshotsAreWhole)

(* treiber.rs: every behaviour is one of a stack.                          *)
TreiberIsAStack ==
  /\ Of("treiber", T!Lifo!Init)
  /\ [][Of("treiber", T!Lifo!Next)]_<<core, T!Contents, out.got>>

(* treiber.rs: no thread dereferences a freed node, accesses of nodes do   *)
(* not race, and no node is leaked, linked twice, or linked and free.      *)
TreiberNodesAccounted == Of("treiber", T!TreiberNodesAccounted)

(* chase_lev.rs: owner and thieves never claim the same value, no value is *)
(* lost or overwritten, and accesses of slots do not race.                 *)
DequeClaimedOnce == Of("chase_lev", D!DequeClaimedOnce)

(* mpsc.rs, as the test of tests/loom.rs has it, "lost or duplicated       *)
(* element": no value that was accepted stays in the queue for ever.       *)
MpscNeverWedged == Of("mpsc", Q!NeverWedged)
-----------------------------------------------------------------------------
(* A behaviour is of one core from the first state on: it is one of that   *)
(* core's own specification.                                               *)
LEMMA OneCore == ASSUME NEW c PROVE [Next]_vars => (Is(c)' <=> Is(c))
BY DEF Next, vars, Is

LEMMA RingAlone == Spec => S!Spec \/ []~Is("spsc")
<1>1. Init /\ Is("spsc") => S!Init
  BY DEF Init, Is
<1>2. [Next]_vars /\ Is("spsc") => [S!Next]_S!state
  BY DEF Next, vars, Is, S!state, S!wm
<1>3. [Next]_vars => (Is("spsc")' <=> Is("spsc"))
  BY OneCore
<1>. QED BY <1>1, <1>2, <1>3, PTL DEF Spec, S!Spec

LEMMA QueueAlone == Spec => Q!Spec \/ []~Is("mpsc")
<1>1. Init /\ Is("mpsc") => Q!Init
  BY DEF Init, Is
<1>2. [Next]_vars /\ Is("mpsc") => [Q!Next]_Q!state
  BY DEF Next, vars, Is, Q!state, Q!wm
<1>3. [Next]_vars => (Is("mpsc")' <=> Is("mpsc"))
  BY OneCore
<1>. QED BY <1>1, <1>2, <1>3, PTL DEF Spec, Q!Spec

LEMMA CellAlone == Spec => L!Spec \/ []~Is("seqlock")
<1>1. Init /\ Is("seqlock") => L!Init
  BY DEF Init, Is
<1>2. [Next]_vars /\ Is("seqlock") => [L!Next]_L!state
  BY DEF Next, vars, Is, L!state, L!wm
<1>3. [Next]_vars => (Is("seqlock")' <=> Is("seqlock"))
  BY OneCore
<1>. QED BY <1>1, <1>2, <1>3, PTL DEF Spec, L!Spec

LEMMA SnapshotsAlone == Spec => R!Spec \/ []~Is("spmc")
<1>1. Init /\ Is("spmc") => R!Init
  BY DEF Init, Is
<1>2. [Next]_vars /\ Is("spmc") => [R!Next]_R!state
  BY DEF Next, vars, Is, R!state, R!wm
<1>3. [Next]_vars => (Is("spmc")' <=> Is("spmc"))
  BY OneCore
<1>. QED BY <1>1, <1>2, <1>3, PTL DEF Spec, R!Spec

LEMMA StackAlone == Spec => T!Spec \/ []~Is("treiber")
<1>1. Init /\ Is("treiber") => T!Init
  BY DEF Init, Is
<1>2. [Next]_vars /\ Is("treiber") => [T!Next]_T!state
  BY DEF Next, vars, Is, T!state, T!wm
<1>3. [Next]_vars => (Is("treiber")' <=> Is("treiber"))
  BY OneCore
<1>. QED BY <1>1, <1>2, <1>3, PTL DEF Spec, T!Spec

LEMMA DequeAlone == Spec => D!Spec \/ []~Is("chase_lev")
<1>1. Init /\ Is("chase_lev") => D!Init
  BY DEF Init, Is
<1>2. [Next]_vars /\ Is("chase_lev") => [D!Next]_D!state
  BY DEF Next, vars, Is, D!state, D!wm
<1>3. [Next]_vars => (Is("chase_lev")' <=> Is("chase_lev"))
  BY OneCore
<1>. QED BY <1>1, <1>2, <1>3, PTL DEF Spec, D!Spec

-----------------------------------------------------------------------------
(* The ring has no race, for every capacity and number of calls.           *)
THEOREM RingSafe == ASSUME CoreAssumptions PROVE Spec => []RaceFree
<1>1. S!Spec => []S!RaceFree
  BY S!Safe DEF CoreAssumptions
<1>2. (S!RaceFree => RaceFree) /\ (~Is("spsc") => RaceFree)
  BY DEF RaceFree, Of
<1>. QED BY <1>1, <1>2, RingAlone, PTL

(* It is a queue of at most N values.                                      *)
THEOREM RingIsAFifo == ASSUME CoreAssumptions PROVE Spec => SpscIsAFifo
<1>1. S!Spec => S!SpscIsAFifo
  BY S!Refines DEF CoreAssumptions
<1>2. (S!Queue!Init \/ ~Is("spsc")) => Of("spsc", S!Queue!Init)
  BY DEF Of
<1>3. ~Is("spsc") /\ ~Is("spsc")' /\ [Next]_vars
        => [Of("spsc", S!Queue!Next)]_<<core, S!Contents, out>>
  BY DEF Of
<1>4. [Next]_vars /\ [S!Queue!Next]_<<S!Contents, out>>
        => [Of("spsc", S!Queue!Next)]_<<core, S!Contents, out>>
  BY DEF Of, Next, vars
<1>. QED BY <1>1, <1>2, <1>3, <1>4, RingAlone, PTL DEF Spec, S!SpscIsAFifo, SpscIsAFifo

(* The MPSC queue keeps ticket order and every value it accepts, for every *)
(* capacity from two on and any number of producers and calls.             *)
THEOREM QueueKeepsOrder == ASSUME CoreAssumptions PROVE Spec => []MpscKeepsOrder
<1>1. Q!Spec => []Q!MpscKeepsOrder
  BY Q!Correct DEF CoreAssumptions
<1>2. (Q!MpscKeepsOrder => MpscKeepsOrder) /\ (~Is("mpsc") => MpscKeepsOrder)
  BY DEF MpscKeepsOrder, Of
<1>. QED BY <1>1, <1>2, QueueAlone, PTL

(* Neither the snapshot cell nor the ring of cells hands out a torn        *)
(* snapshot, for any number of slots, readers and calls.                   *)
THEOREM NoTornSnapshot == ASSUME CoreAssumptions PROVE Spec => []SnapshotsAreWhole
<1>1. (L!Spec => []L!SnapshotsAreWhole) /\ (R!Spec => []R!SnapshotsAreWhole)
  BY L!Correct, R!Correct DEF CoreAssumptions
<1>2. (L!SnapshotsAreWhole \/ ~Is("seqlock")) /\ (R!SnapshotsAreWhole \/ ~Is("spmc"))
        => SnapshotsAreWhole
  BY DEF SnapshotsAreWhole, Of
<1>. QED BY <1>1, <1>2, CellAlone, SnapshotsAlone, PTL

(* No node is used after it is freed, lost, or linked twice, for any       *)
(* number of nodes, pushers and calls.                                     *)
THEOREM NodesSafe == ASSUME CoreAssumptions PROVE Spec => []TreiberNodesAccounted
<1>1. T!Spec => []T!TreiberNodesAccounted
  BY T!NodesSafe DEF CoreAssumptions
<1>2. (T!TreiberNodesAccounted \/ ~Is("treiber")) => TreiberNodesAccounted
  BY DEF TreiberNodesAccounted, Of
<1>. QED BY <1>1, <1>2, StackAlone, PTL

(* The Treiber stack is a stack.                                           *)
THEOREM StackIsAStack == ASSUME CoreAssumptions PROVE Spec => TreiberIsAStack
<1>1. T!Spec => T!TreiberIsAStack
  BY T!Refines DEF CoreAssumptions
<1>2. (T!Lifo!Init \/ ~Is("treiber")) => Of("treiber", T!Lifo!Init)
  BY DEF Of
<1>3. ~Is("treiber") /\ ~Is("treiber")' /\ [Next]_vars
        => [Of("treiber", T!Lifo!Next)]_<<core, T!Contents, out.got>>
  BY DEF Of
<1>4. [Next]_vars /\ [T!Lifo!Next]_<<T!Contents, out.got>>
        => [Of("treiber", T!Lifo!Next)]_<<core, T!Contents, out.got>>
  BY DEF Of, Next, vars
<1>. QED BY <1>1, <1>2, <1>3, <1>4, StackAlone, PTL
       DEF Spec, T!TreiberIsAStack, TreiberIsAStack

(* No value of the deque is claimed twice or lost, for every capacity and  *)
(* any number of thieves and calls.                                        *)
THEOREM DequeSafe == ASSUME CoreAssumptions PROVE Spec => []DequeClaimedOnce
<1>1. D!Spec => []D!DequeClaimedOnce
  BY D!Correct DEF CoreAssumptions
<1>2. (D!DequeClaimedOnce \/ ~Is("chase_lev")) => DequeClaimedOnce
  BY DEF DequeClaimedOnce, Of
<1>. QED BY <1>1, <1>2, DequeAlone, PTL
=============================================================================
