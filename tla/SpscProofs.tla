----------------------------- MODULE SpscProofs -----------------------------
(***************************************************************************)
(* The SPSC ring in the view-based memory, for any capacity and any number *)
(* of calls: its cells are free of data races, and it is a FIFO queue.     *)
(***************************************************************************)
EXTENDS Spsc, Integers, SequenceTheorems, TLAPS

P == "producer"
C == "consumer"

(* The indices as they are stored, the slots written and the slots read.   *)
T == Last(tail) - 1
H == Last(head) - 1
W == IF pc[P] = "push_tail" THEN T + 1 ELSE T
R == IF pc[C] = "pop_head" THEN H + 1 ELSE H

(* No slot from m up to n lies in cell c.                                  *)
Spared(c, m, n) == \A k \in m..(n - 1) : buf(k) # c

(* A view of messages there are.                                           *)
Bounded(V) ==
  /\ V \in View
  /\ \A l \in Loc : V[l] \in 1..Last(l)
  /\ \A c \in Cell : V[ReadOf(c)] <= reads[c]

(* V knows the last write of every cell not written since the tail was m,  *)
(* and the last read of every cell not read since the head was m.          *)
KnowsWritten(V, m) == \A c \in Cell : Spared(c, m, W) => V[c] = Last(c)
KnowsRead(V, m) == \A c \in Cell : Spared(c, m, R) => V[ReadOf(c)] = reads[c]

Message == [val : Nat, rview : View]

Label == {"idle", "push_head", "push_write", "push_tail", "pop_tail", "pop_read", "pop_head"}

TypeOK ==
  /\ hist \in [Loc -> Seq(Message)]
  /\ \A l \in Loc : hist[l] # <<>>
  /\ cur \in [Thread -> View]
  /\ reads \in [Cell -> Nat]
  /\ pc \in [Thread -> Label]
  /\ pc[P] \in {"idle", "push_head", "push_write", "push_tail"}
  /\ pc[C] \in {"idle", "pop_tail", "pop_read", "pop_head"}
  /\ reg \in [Thread -> [{"t", "h", "v"} -> Nat]]
  /\ calls \in [Thread -> Nat]

(* The messages of an index count up, and each releases what its writer    *)
(* knew: the writes of the slots below the tail, the reads of those below  *)
(* the head.                                                               *)
TailMessage(i, m) ==
  m.val = i - 1 /\ Bounded(m.rview) /\ m.rview[tail] = i /\ KnowsWritten(m.rview, i - 1)
HeadMessage(i, m) ==
  m.val = i - 1 /\ Bounded(m.rview) /\ m.rview[head] = i /\ KnowsRead(m.rview, i - 1)
Messages ==
  /\ \A i \in 1..Last(tail) : TailMessage(i, hist[tail][i])
  /\ \A i \in 1..Last(head) : HeadMessage(i, hist[head][i])

(* Each thread knows all of its own doing, and of the other's what the     *)
(* last index it has read says.                                            *)
Views ==
  /\ Bounded(cur[P]) /\ Bounded(cur[C])
  /\ cur[P][tail] = Last(tail) /\ \A c \in Cell : cur[P][c] = Last(c)
  /\ cur[C][head] = Last(head) /\ \A c \in Cell : cur[C][ReadOf(c)] = reads[c]
  /\ KnowsRead(cur[P], cur[P][head] - 1)
  /\ KnowsWritten(cur[C], cur[C][tail] - 1)

(* The producer stays within N of the head it has seen, the consumer       *)
(* behind the tail it has seen.                                            *)
Window ==
  /\ W <= cur[P][head] - 1 + N
  /\ R <= cur[C][tail] - 1

Locals ==
  /\ pc[P] # "idle" => reg[P].t = T
  /\ pc[P] = "push_write" => T < cur[P][head] - 1 + N
  /\ pc[C] # "idle" => reg[C].h = H
  /\ pc[C] = "pop_read" => H < cur[C][tail] - 1
  /\ pc[C] = "pop_head" => reg[C].v = H + 1

(* The slots in the ring hold what was pushed.                             *)
Filled == \A k \in H..(W - 1) : latest(buf(k)) = k + 1

Inv == TypeOK /\ Messages /\ Views /\ Window /\ Locals /\ Filled /\ NoRace

-----------------------------------------------------------------------------
(* Two slots of one cell are a whole ring apart.                           *)
LEMMA Division ==
  ASSUME NAssumption, NEW k \in Nat
  PROVE  k = N * (k \div N) + (k % N) /\ k % N \in 0..(N - 1) /\ k \div N \in Nat
BY SMTT(30) DEF NAssumption

LEMMA RingApart ==
  ASSUME NAssumption, NEW j \in Nat, NEW k \in Nat, j < k, k < j + N
  PROVE  buf(j) # buf(k)
<1>1. SUFFICES ASSUME j % N = k % N PROVE FALSE
  BY DEF buf
<1>2. N * (j \div N) < N * (k \div N) /\ N * (k \div N) < N * (j \div N) + N
  BY <1>1, Division DEF NAssumption
<1>3. ASSUME NEW p \in Nat, NEW q \in Nat, N * p < N * q PROVE N * p + N <= N * q
  <2>1. p < q
    BY <1>3 DEF NAssumption
  <2>2. PICK d \in Nat : q = p + 1 + d
    BY <2>1
  <2>3. N * q = N * p + N + N * d
    BY <2>2 DEF NAssumption
  <2>. QED BY <2>3 DEF NAssumption
<1>4. N * (j \div N) + N <= N * (k \div N)
  BY <1>2, <1>3, Division
<1>. QED BY <1>2, <1>4, Division DEF NAssumption

LEMMA CellOf == ASSUME NAssumption, NEW k \in Nat PROVE buf(k) \in Cell
<1>1. k % N \in 0..(N - 1) /\ (k % N) % N = k % N
  BY Division, SMTT(30) DEF NAssumption
<1>. QED BY <1>1 DEF Cell, buf

LEMMA Locations == /\ Loc = {head, tail} \cup Cell /\ head # tail
                   /\ head \notin Cell /\ tail \notin Cell
                   /\ \A c \in Cell : ReadOf(c) \notin Loc
                   /\ \A c, d \in Cell : ReadOf(c) = ReadOf(d) => c = d
                   /\ Clock = Loc \cup {ReadOf(c) : c \in Cell}
BY DEF Loc, head, tail, Cell, buf, ReadOf, Clock
-----------------------------------------------------------------------------
LEMMA Numbers ==
  ASSUME NAssumption, Inv
  PROVE  /\ Last(tail) \in Nat /\ Last(head) \in Nat
         /\ T \in Nat /\ H \in Nat /\ W \in Nat /\ R \in Nat
         /\ cur[P][head] \in 1..Last(head) /\ cur[C][tail] \in 1..Last(tail)
         /\ \A c \in Cell : Last(c) \in Nat /\ reads[c] \in Nat
         /\ H <= R /\ R <= cur[C][tail] - 1 /\ cur[C][tail] - 1 <= T /\ T <= W
         /\ W <= cur[P][head] - 1 + N /\ cur[P][head] - 1 <= H
<1>1. \A l \in Loc : Last(l) \in Nat \ {0}
  BY DEF Inv, TypeOK, Last
<1>2. cur[P][head] \in 1..Last(head) /\ cur[C][tail] \in 1..Last(tail)
  BY Locations DEF Inv, Views, Bounded
<1>3. /\ T \in Nat /\ H \in Nat /\ W \in Nat /\ R \in Nat /\ H <= R /\ T <= W
      /\ cur[C][tail] - 1 <= T /\ cur[P][head] - 1 <= H
  BY <1>1, <1>2, Locations DEF T, H, W, R
<1>4. R <= cur[C][tail] - 1 /\ W <= cur[P][head] - 1 + N
  BY DEF Inv, Window
<1>5. \A c \in Cell : reads[c] \in Nat
  BY DEF Inv, TypeOK
<1>. QED BY <1>1, <1>2, <1>3, <1>4, <1>5, Locations

(* What a load of an index, by whom it may be, adds to a view.             *)
LEMMA Joined ==
  ASSUME NEW V, NEW U, Bounded(V), Bounded(U)
  PROVE  /\ Bounded(join(V, U))
         /\ \A x \in Clock : join(V, U)[x] = IF V[x] < U[x] THEN U[x] ELSE V[x]
BY Locations DEF Bounded, join, View

LEMMA Seen ==
  ASSUME NEW V, NEW l \in Loc, NEW i \in 1..Last(l), Bounded(V), Last(l) \in Nat
  PROVE  /\ Bounded(seen(V, l, i))
         /\ seen(V, l, i)[l] = IF V[l] < i THEN i ELSE V[l]
         /\ \A x \in Clock \ {l} : seen(V, l, i)[x] = V[x]
BY Locations DEF Bounded, seen, View

LEMMA Loaded ==
  ASSUME NAssumption, Inv, NEW th \in Thread, NEW l \in {head, tail},
         NEW i \in canLoad(th, l), NEW o \in {"Relaxed", "Acquire"}
  PROVE  /\ i \in 1..Last(l) /\ val(l, i) = i - 1 /\ cur[th][l] <= i
         /\ Bounded(loadView(cur[th], l, i, o))
         /\ loadView(cur[th], l, i, o)[l] = i
         /\ o = "Relaxed" => \A x \in Clock \ {l} : loadView(cur[th], l, i, o)[x] = cur[th][x]
         /\ o = "Acquire" => \A x \in Clock \ {l} :
               loadView(cur[th], l, i, o)[x] =
                 IF cur[th][x] < hist[l][i].rview[x] THEN hist[l][i].rview[x] ELSE cur[th][x]
<1>1. Bounded(cur[th]) /\ l \in Loc
  BY Locations DEF Inv, Views, Thread, P, C
<1>2. Last(l) \in Nat /\ i \in 1..Last(l) /\ cur[th][l] <= i /\ cur[th][l] \in Nat
  BY <1>1, Numbers DEF canLoad, Bounded
<1>3. val(l, i) = i - 1 /\ Bounded(hist[l][i].rview) /\ hist[l][i].rview[l] = i
  <2>1. CASE l = tail
    BY <1>2, <2>1 DEF Inv, Messages, TailMessage, HeadMessage, val
  <2>2. CASE l = head
    BY <1>2, <2>2 DEF Inv, Messages, TailMessage, HeadMessage, val
  <2>. QED BY <2>1, <2>2
<1>4. /\ Bounded(seen(cur[th], l, i)) /\ seen(cur[th], l, i)[l] = i
      /\ \A x \in Clock \ {l} : seen(cur[th], l, i)[x] = cur[th][x]
  <2>1. /\ Bounded(seen(cur[th], l, i))
        /\ seen(cur[th], l, i)[l] = IF cur[th][l] < i THEN i ELSE cur[th][l]
        /\ \A x \in Clock \ {l} : seen(cur[th], l, i)[x] = cur[th][x]
    BY <1>1, <1>2, Seen
  <2>2. (IF cur[th][l] < i THEN i ELSE cur[th][l]) = i
    BY <1>2
  <2>. QED BY <2>1, <2>2
<1>5. CASE o = "Relaxed"
  BY <1>2, <1>3, <1>4, <1>5 DEF loadView, Acquires
<1>6. CASE o = "Acquire"
  <2>1. loadView(cur[th], l, i, o) = join(seen(cur[th], l, i), hist[l][i].rview)
    BY <1>6 DEF loadView, Acquires
  <2>2. l \in Clock
    BY <1>1, Locations
  <2>. QED BY <1>2, <1>3, <1>4, <1>6, <2>1, <2>2, Joined
<1>. QED BY <1>5, <1>6

(* The producer after its loads: of the tail, which it alone stores, and   *)
(* of the head, which brings the reads below it.                           *)
LEMMA ProducerLoads ==
  ASSUME NAssumption, Inv, NEW l \in {head, tail}, NEW i \in canLoad(P, l),
         NEW o \in {"Relaxed", "Acquire"}, (l = tail /\ o = "Relaxed") \/ (l = head /\ o = "Acquire"),
         NEW V, V = loadView(cur[P], l, i, o)
  PROVE  /\ Bounded(V) /\ V[tail] = Last(tail) /\ \A c \in Cell : V[c] = Last(c)
         /\ KnowsRead(V, V[head] - 1) /\ cur[P][head] <= V[head]
<1>1. P \in Thread
  BY DEF P, Thread
<1>. DEFINE U == hist[l][i].rview
<1>2. /\ i \in 1..Last(l) /\ cur[P][l] <= i /\ Bounded(V) /\ V[l] = i
      /\ o = "Relaxed" => \A x \in Clock \ {l} : V[x] = cur[P][x]
      /\ o = "Acquire" => \A x \in Clock \ {l} :
           V[x] = IF cur[P][x] < U[x] THEN U[x] ELSE cur[P][x]
  BY <1>1, Loaded
<1>3. Bounded(U)
  BY <1>2 DEF Inv, Messages, TailMessage, HeadMessage
<1>4. /\ Bounded(cur[P]) /\ cur[P][tail] = Last(tail) /\ \A c \in Cell : cur[P][c] = Last(c)
      /\ KnowsRead(cur[P], cur[P][head] - 1)
  BY DEF Inv, Views
<1>5. \A x \in Loc : V[x] \in 1..Last(x) /\ Last(x) \in Nat /\ cur[P][x] <= V[x] /\ cur[P][x] \in Nat
  BY <1>2, <1>3, <1>4, Numbers, Locations DEF Bounded
<1>6. V[tail] = Last(tail) /\ \A c \in Cell : V[c] = Last(c)
  BY <1>4, <1>5, Locations
<1>7. cur[P][head] <= V[head]
  BY <1>5, Locations
<1>8. KnowsRead(V, V[head] - 1)
  <2>1. CASE l = tail /\ o = "Relaxed"
    BY <1>2, <1>4, <2>1, Locations DEF KnowsRead
  <2>2. CASE l = head /\ o = "Acquire"
    <3>1. SUFFICES ASSUME NEW c \in Cell, Spared(c, i - 1, R) PROVE V[ReadOf(c)] = reads[c]
      BY <1>2, <2>2 DEF KnowsRead
    <3>2. U[ReadOf(c)] = reads[c]
      BY <1>2, <2>2, <3>1 DEF Inv, Messages, TailMessage, HeadMessage, KnowsRead
    <3>3. ReadOf(c) \in Clock \ {l} /\ cur[P][ReadOf(c)] \in Nat /\ cur[P][ReadOf(c)] <= reads[c]
      BY <1>4, Locations DEF Bounded, View
    <3>4. V[ReadOf(c)] = IF cur[P][ReadOf(c)] < reads[c] THEN reads[c] ELSE cur[P][ReadOf(c)]
      BY <1>2, <2>2, <3>2, <3>3
    <3>. QED BY <3>3, <3>4, Numbers
  <2>. QED BY <2>1, <2>2
<1>. QED BY <1>2, <1>6, <1>7, <1>8

LEMMA ConsumerLoads ==
  ASSUME NAssumption, Inv, NEW l \in {tail, head}, NEW i \in canLoad(C, l),
         NEW o \in {"Relaxed", "Acquire"}, (l = head /\ o = "Relaxed") \/ (l = tail /\ o = "Acquire"),
         NEW V, V = loadView(cur[C], l, i, o)
  PROVE  /\ Bounded(V) /\ V[head] = Last(head) /\ \A c \in Cell : V[ReadOf(c)] = reads[c]
         /\ KnowsWritten(V, V[tail] - 1) /\ cur[C][tail] <= V[tail]
<1>1. C \in Thread
  BY DEF C, Thread
<1>. DEFINE U == hist[l][i].rview
<1>2. /\ i \in 1..Last(l) /\ cur[C][l] <= i /\ Bounded(V) /\ V[l] = i
      /\ o = "Relaxed" => \A x \in Clock \ {l} : V[x] = cur[C][x]
      /\ o = "Acquire" => \A x \in Clock \ {l} :
           V[x] = IF cur[C][x] < U[x] THEN U[x] ELSE cur[C][x]
  BY <1>1, Loaded
<1>3. Bounded(U)
  BY <1>2 DEF Inv, Messages, TailMessage, HeadMessage
<1>4. /\ Bounded(cur[C]) /\ cur[C][head] = Last(head) /\ \A c \in Cell : cur[C][ReadOf(c)] = reads[c]
      /\ KnowsWritten(cur[C], cur[C][tail] - 1)
  BY DEF Inv, Views
<1>5. \A x \in Loc : V[x] \in 1..Last(x) /\ Last(x) \in Nat /\ cur[C][x] <= V[x] /\ cur[C][x] \in Nat
  BY <1>2, <1>3, <1>4, Numbers, Locations DEF Bounded
<1>6. V[head] = Last(head) /\ \A c \in Cell : V[ReadOf(c)] = reads[c]
  <2>1. V[head] = Last(head)
    BY <1>4, <1>5, Locations
  <2>2. ASSUME NEW c \in Cell PROVE V[ReadOf(c)] = reads[c]
    <3>1. /\ ReadOf(c) \in Clock \ {l} /\ cur[C][ReadOf(c)] = reads[c] /\ reads[c] \in Nat
          /\ V[ReadOf(c)] \in Nat /\ V[ReadOf(c)] <= reads[c] /\ U[ReadOf(c)] \in Nat
      BY <1>2, <1>3, <1>4, Numbers, Locations DEF Bounded, View
    <3>. QED BY <1>2, <3>1
  <2>. QED BY <2>1, <2>2
<1>7. cur[C][tail] <= V[tail]
  BY <1>5, Locations
<1>8. KnowsWritten(V, V[tail] - 1)
  <2>1. CASE l = head /\ o = "Relaxed"
    BY <1>2, <1>4, <2>1, Locations DEF KnowsWritten
  <2>2. CASE l = tail /\ o = "Acquire"
    <3>1. SUFFICES ASSUME NEW c \in Cell, Spared(c, i - 1, W) PROVE V[c] = Last(c)
      BY <1>2, <2>2 DEF KnowsWritten
    <3>2. U[c] = Last(c)
      BY <1>2, <2>2, <3>1 DEF Inv, Messages, TailMessage, HeadMessage, KnowsWritten
    <3>3. c \in Clock \ {l} /\ cur[C][c] \in 1..Last(c)
      BY <1>4, <2>2, Locations DEF Bounded
    <3>4. V[c] = IF cur[C][c] < Last(c) THEN Last(c) ELSE cur[C][c]
      BY <1>2, <2>2, <3>2, <3>3
    <3>. QED BY <3>3, <3>4, Numbers
  <2>. QED BY <2>1, <2>2
<1>. QED BY <1>2, <1>6, <1>7, <1>8
-----------------------------------------------------------------------------
(* A load leaves the memory as it is.                                      *)
QuietMemory ==
  /\ hist' = hist /\ reads' = reads /\ race' = race
  /\ pc'[P] = "push_tail" <=> pc[P] = "push_tail"
  /\ pc'[C] = "pop_head" <=> pc[C] = "pop_head"

LEMMA SameMemory ==
  ASSUME Inv, QuietMemory
  PROVE  /\ T' = T /\ H' = H /\ W' = W /\ R' = R
         /\ Messages' /\ Filled' /\ NoRace'
<1>1. T' = T /\ H' = H /\ W' = W /\ R' = R
  BY DEF QuietMemory, T, H, W, R, Last
<1>2. Messages'
  BY <1>1 DEF QuietMemory, Inv, Messages, TailMessage, HeadMessage, Bounded, KnowsWritten, KnowsRead, Spared, Last
<1>. QED BY <1>1, <1>2 DEF QuietMemory, Inv, Filled, NoRace, latest, val, Last

LEMMA ProducerSees ==
  ASSUME NAssumption, Inv, QuietMemory, NEW V, cur' = [cur EXCEPT ![P] = V],
         Bounded(V), V[tail] = Last(tail), \A c \in Cell : V[c] = Last(c),
         KnowsRead(V, V[head] - 1), cur[P][head] <= V[head]
  PROVE  Views' /\ Window' /\ cur' \in [Thread -> View] /\ cur'[C] = cur[C] /\ cur'[P] = V
<1>1. cur'[P] = V /\ cur'[C] = cur[C] /\ cur' \in [Thread -> View]
  BY DEF Inv, TypeOK, P, C, Thread, Bounded
<1>2. T' = T /\ H' = H /\ W' = W /\ R' = R
  BY SameMemory
<1>3. Views'
  BY <1>1, <1>2 DEF QuietMemory, Inv, Views, Bounded, KnowsRead, KnowsWritten, Spared, Last
<1>4. V[head] \in Nat
  BY Locations DEF Bounded, View
<1>. QED BY <1>1, <1>2, <1>3, <1>4, Numbers DEF Inv, Window, NAssumption

LEMMA ConsumerSees ==
  ASSUME NAssumption, Inv, QuietMemory, NEW V, cur' = [cur EXCEPT ![C] = V],
         Bounded(V), V[head] = Last(head), \A c \in Cell : V[ReadOf(c)] = reads[c],
         KnowsWritten(V, V[tail] - 1), cur[C][tail] <= V[tail]
  PROVE  Views' /\ Window' /\ cur' \in [Thread -> View] /\ cur'[P] = cur[P] /\ cur'[C] = V
<1>1. cur'[C] = V /\ cur'[P] = cur[P] /\ cur' \in [Thread -> View]
  BY DEF Inv, TypeOK, P, C, Thread, Bounded
<1>2. T' = T /\ H' = H /\ W' = W /\ R' = R
  BY SameMemory
<1>3. Views'
  BY <1>1, <1>2 DEF QuietMemory, Inv, Views, Bounded, KnowsRead, KnowsWritten, Spared, Last
<1>4. V[tail] \in Nat
  BY Locations DEF Bounded, View
<1>. QED BY <1>1, <1>2, <1>3, <1>4, Numbers DEF Inv, Window

LEMMA PushTailStep == ASSUME NAssumption, Inv, PushTail(P) PROVE Inv'
<1>1. PICK i \in canLoad(P, tail) : Load(P, tail, i, "Relaxed") /\ Set(P, "t", val(tail, i))
  BY DEF PushTail, LoadInto
<1>2. /\ pc[P] = "idle" /\ pc' = [pc EXCEPT ![P] = "push_head"]
      /\ calls' = [calls EXCEPT ![P] = @ + 1]
  BY DEF PushTail, Call, Goto
<1>. DEFINE V == loadView(cur[P], tail, i, "Relaxed")
<1>3. /\ hist' = hist /\ reads' = reads /\ race' = race /\ cur' = [cur EXCEPT ![P] = V]
      /\ reg' = [reg EXCEPT ![P]["t"] = val(tail, i)]
  BY <1>1 DEF Load, Set
<1>4. QuietMemory /\ pc'[P] = "push_head" /\ pc'[C] = pc[C] /\ pc' \in [Thread -> Label]
  <2>1. pc'[P] = "push_head" /\ pc'[C] = pc[C] /\ pc' \in [Thread -> Label]
    BY <1>2 DEF Inv, TypeOK, P, C, Thread, Label
  <2>. QED BY <1>2, <1>3, <2>1 DEF QuietMemory
<1>5. i \in 1..Last(tail) /\ val(tail, i) = i - 1 /\ V[tail] = i
  BY Loaded DEF P, Thread
<1>6. /\ Bounded(V) /\ V[tail] = Last(tail) /\ \A c \in Cell : V[c] = Last(c)
      /\ KnowsRead(V, V[head] - 1) /\ cur[P][head] <= V[head]
  BY ProducerLoads
<1>. HIDE DEF V
<1>7. /\ Views' /\ Window' /\ cur' \in [Thread -> View] /\ cur'[C] = cur[C]
      /\ T' = T /\ H' = H /\ Messages' /\ Filled' /\ NoRace'
  BY <1>3, <1>4, <1>6, ProducerSees, SameMemory
<1>8. /\ reg'[P].t = T /\ reg'[C] = reg[C] /\ reg' \in [Thread -> [{"t", "h", "v"} -> Nat]]
  BY <1>3, <1>5, <1>6, Numbers DEF Inv, TypeOK, T, P, C, Thread
<1>9. TypeOK'
  BY <1>2, <1>3, <1>4, <1>7, <1>8 DEF Inv, TypeOK, P, C, Thread
<1>10. Locals'
  BY <1>4, <1>7, <1>8 DEF Inv, Locals
<1>. QED BY <1>7, <1>9, <1>10 DEF Inv
LEMMA PushHeadStep == ASSUME NAssumption, Inv, PushHead(P) PROVE Inv'
<1>1. PICK i \in canLoad(P, head) : Load(P, head, i, "Acquire") /\ Set(P, "h", val(head, i))
  BY DEF PushHead, LoadInto
<1>2. pc[P] = "push_head" /\ calls' = calls
  BY DEF PushHead, From
<1>. DEFINE V == loadView(cur[P], head, i, "Acquire")
<1>3. /\ hist' = hist /\ reads' = reads /\ race' = race /\ cur' = [cur EXCEPT ![P] = V]
      /\ reg' = [reg EXCEPT ![P]["h"] = val(head, i)]
  BY <1>1 DEF Load, Set
<1>4. i \in 1..Last(head) /\ val(head, i) = i - 1 /\ V[head] = i
  BY Loaded DEF P, Thread
<1>5. /\ Bounded(V) /\ V[tail] = Last(tail) /\ \A c \in Cell : V[c] = Last(c)
      /\ KnowsRead(V, V[head] - 1) /\ cur[P][head] <= V[head]
  BY ProducerLoads
<1>. HIDE DEF V
<1>6. /\ reg'[P].t = reg[P].t /\ reg'[P].h = i - 1 /\ reg'[C] = reg[C]
      /\ reg' \in [Thread -> [{"t", "h", "v"} -> Nat]]
  <2>1. i - 1 \in Nat
    BY <1>4, Numbers
  <2>. QED BY <1>3, <1>4, <2>1 DEF Inv, TypeOK, P, C, Thread
<1>7. pc' = [pc EXCEPT ![P] = IF Full(reg[P].t - (i - 1)) THEN "idle" ELSE "push_write"]
  BY <1>6 DEF PushHead, Goto
<1>8. /\ QuietMemory /\ pc'[C] = pc[C] /\ pc' \in [Thread -> Label]
      /\ pc'[P] = IF Full(reg[P].t - (i - 1)) THEN "idle" ELSE "push_write"
  <2>1. /\ pc'[C] = pc[C] /\ pc' \in [Thread -> Label]
        /\ pc'[P] = IF Full(reg[P].t - (i - 1)) THEN "idle" ELSE "push_write"
    BY <1>7 DEF Inv, TypeOK, P, C, Thread, Label
  <2>. QED BY <1>2, <1>3, <2>1 DEF QuietMemory
<1>9. /\ Views' /\ Window' /\ cur' \in [Thread -> View] /\ cur'[C] = cur[C] /\ cur'[P] = V
      /\ T' = T /\ H' = H /\ Messages' /\ Filled' /\ NoRace'
  BY <1>3, <1>5, <1>8, ProducerSees, SameMemory
<1>10. TypeOK'
  BY <1>2, <1>3, <1>6, <1>8, <1>9 DEF Inv, TypeOK
<1>11. ASSUME pc'[P] = "push_write" PROVE T < V[head] - 1 + N
  <2>1. reg[P].t = T /\ T <= cur[P][head] - 1 + N
    BY <1>2, Numbers DEF Inv, Locals, NAssumption
  <2>2. T - (i - 1) # N
    BY <1>8, <1>11, <2>1 DEF Full
  <2>. QED BY <1>4, <1>5, <2>1, <2>2, Numbers DEF NAssumption
<1>12. Locals'
  BY <1>2, <1>6, <1>8, <1>9, <1>11 DEF Inv, Locals
<1>. QED BY <1>9, <1>10, <1>12 DEF Inv

LEMMA PopHeadStep == ASSUME NAssumption, Inv, PopHead(C) PROVE Inv'
<1>1. PICK i \in canLoad(C, head) : Load(C, head, i, "Relaxed") /\ Set(C, "h", val(head, i))
  BY DEF PopHead, LoadInto
<1>2. /\ pc[C] = "idle" /\ pc' = [pc EXCEPT ![C] = "pop_tail"]
      /\ calls' = [calls EXCEPT ![C] = @ + 1]
  BY DEF PopHead, Call, Goto
<1>. DEFINE V == loadView(cur[C], head, i, "Relaxed")
<1>3. /\ hist' = hist /\ reads' = reads /\ race' = race /\ cur' = [cur EXCEPT ![C] = V]
      /\ reg' = [reg EXCEPT ![C]["h"] = val(head, i)]
  BY <1>1 DEF Load, Set
<1>4. QuietMemory /\ pc'[C] = "pop_tail" /\ pc'[P] = pc[P] /\ pc' \in [Thread -> Label]
  <2>1. pc'[C] = "pop_tail" /\ pc'[P] = pc[P] /\ pc' \in [Thread -> Label]
    BY <1>2 DEF Inv, TypeOK, P, C, Thread, Label
  <2>. QED BY <1>2, <1>3, <2>1 DEF QuietMemory
<1>5. i \in 1..Last(head) /\ val(head, i) = i - 1 /\ V[head] = i
  BY Loaded DEF C, Thread
<1>6. /\ Bounded(V) /\ V[head] = Last(head) /\ \A c \in Cell : V[ReadOf(c)] = reads[c]
      /\ KnowsWritten(V, V[tail] - 1) /\ cur[C][tail] <= V[tail]
  BY ConsumerLoads
<1>. HIDE DEF V
<1>7. /\ Views' /\ Window' /\ cur' \in [Thread -> View] /\ cur'[P] = cur[P]
      /\ T' = T /\ H' = H /\ Messages' /\ Filled' /\ NoRace'
  BY <1>3, <1>4, <1>6, ConsumerSees, SameMemory
<1>8. /\ reg'[C].h = H /\ reg'[P] = reg[P] /\ reg' \in [Thread -> [{"t", "h", "v"} -> Nat]]
  BY <1>3, <1>5, <1>6, Numbers DEF Inv, TypeOK, H, P, C, Thread
<1>9. TypeOK'
  BY <1>2, <1>3, <1>4, <1>7, <1>8 DEF Inv, TypeOK, P, C, Thread
<1>10. Locals'
  BY <1>4, <1>7, <1>8 DEF Inv, Locals
<1>. QED BY <1>7, <1>9, <1>10 DEF Inv

LEMMA PopTailStep == ASSUME NAssumption, Inv, PopTail(C) PROVE Inv'
<1>1. PICK i \in canLoad(C, tail) : Load(C, tail, i, "Acquire") /\ Set(C, "t", val(tail, i))
  BY DEF PopTail, LoadInto, TailOrder
<1>2. pc[C] = "pop_tail" /\ calls' = calls
  BY DEF PopTail, From
<1>. DEFINE V == loadView(cur[C], tail, i, "Acquire")
<1>3. /\ hist' = hist /\ reads' = reads /\ race' = race /\ cur' = [cur EXCEPT ![C] = V]
      /\ reg' = [reg EXCEPT ![C]["t"] = val(tail, i)]
  BY <1>1 DEF Load, Set
<1>4. i \in 1..Last(tail) /\ val(tail, i) = i - 1 /\ V[tail] = i
  BY Loaded DEF C, Thread
<1>5. /\ Bounded(V) /\ V[head] = Last(head) /\ \A c \in Cell : V[ReadOf(c)] = reads[c]
      /\ KnowsWritten(V, V[tail] - 1) /\ cur[C][tail] <= V[tail]
  BY ConsumerLoads
<1>. HIDE DEF V
<1>6. /\ reg'[C].h = reg[C].h /\ reg'[C].t = i - 1 /\ reg'[P] = reg[P]
      /\ reg' \in [Thread -> [{"t", "h", "v"} -> Nat]]
  <2>1. i - 1 \in Nat
    BY <1>4, Numbers
  <2>. QED BY <1>3, <1>4, <2>1 DEF Inv, TypeOK, P, C, Thread
<1>7. pc' = [pc EXCEPT ![C] = IF reg[C].h = i - 1 THEN "idle" ELSE "pop_read"]
  BY <1>6 DEF PopTail, Goto
<1>8. /\ QuietMemory /\ pc'[P] = pc[P] /\ pc' \in [Thread -> Label]
      /\ pc'[C] = IF reg[C].h = i - 1 THEN "idle" ELSE "pop_read"
  <2>1. /\ pc'[P] = pc[P] /\ pc' \in [Thread -> Label]
        /\ pc'[C] = IF reg[C].h = i - 1 THEN "idle" ELSE "pop_read"
    BY <1>7 DEF Inv, TypeOK, P, C, Thread, Label
  <2>. QED BY <1>2, <1>3, <2>1 DEF QuietMemory
<1>9. /\ Views' /\ Window' /\ cur' \in [Thread -> View] /\ cur'[P] = cur[P] /\ cur'[C] = V
      /\ T' = T /\ H' = H /\ Messages' /\ Filled' /\ NoRace'
  BY <1>3, <1>5, <1>8, ConsumerSees, SameMemory
<1>10. TypeOK'
  BY <1>2, <1>3, <1>6, <1>8, <1>9 DEF Inv, TypeOK
<1>11. ASSUME pc'[C] = "pop_read" PROVE H < V[tail] - 1
  <2>1. reg[C].h = H /\ H <= cur[C][tail] - 1
    BY <1>2, Numbers DEF Inv, Locals
  <2>2. H # i - 1
    BY <1>8, <1>11, <2>1
  <2>. QED BY <1>4, <1>5, <2>1, <2>2, Numbers
<1>12. Locals'
  BY <1>2, <1>6, <1>8, <1>9, <1>11 DEF Inv, Locals
<1>. QED BY <1>9, <1>10, <1>12 DEF Inv
-----------------------------------------------------------------------------
(* A store adds a message to the history of one location.                  *)
LEMMA Stored ==
  ASSUME Inv, NEW l \in Loc, NEW m \in Message, hist' = [hist EXCEPT ![l] = Append(@, m)]
  PROVE  /\ hist' \in [Loc -> Seq(Message)] /\ \A x \in Loc : hist'[x] # <<>>
         /\ Last(l)' = Last(l) + 1 /\ Last(l) \in Nat \ {0} /\ hist'[l][Last(l) + 1] = m
         /\ \A k \in 1..Last(l) : hist'[l][k] = hist[l][k]
         /\ \A x \in Loc \ {l} : hist'[x] = hist[x] /\ Last(x)' = Last(x) /\ latest(x)' = latest(x)
         /\ latest(l)' = m.val
<1>1. hist[l] \in Seq(Message) /\ Len(hist[l]) \in Nat \ {0} /\ hist' \in [Loc -> Seq(Message)]
  BY DEF Inv, TypeOK
<1>2. hist'[l] = Append(hist[l], m) /\ \A x \in Loc \ {l} : hist'[x] = hist[x]
  BY DEF Inv, TypeOK
<1>3. Last(l)' = Last(l) + 1 /\ hist'[l][Last(l) + 1] = m
  BY <1>1, <1>2 DEF Last
<1>4. \A k \in 1..Last(l) : hist'[l][k] = hist[l][k]
  BY <1>1, <1>2 DEF Last
<1>5. \A x \in Loc \ {l} : Last(x)' = Last(x) /\ latest(x)' = latest(x)
  BY <1>2 DEF Last, latest, val
<1>6. \A x \in Loc : hist'[x] # <<>>
  <2>1. hist'[l] # <<>>
    BY <1>1, <1>3 DEF Last
  <2>. QED BY <1>2, <2>1 DEF Inv, TypeOK
<1>7. latest(l)' = m.val
  BY <1>3 DEF latest, val
<1>. QED BY <1>1, <1>2, <1>3, <1>4, <1>5, <1>6, <1>7 DEF Last

LEMMA Values == NAssumption /\ Inv => latest(tail) = T /\ latest(head) = H
BY Numbers DEF Inv, Messages, TailMessage, HeadMessage, latest, val, T, H

(* The producer writes the slot at the tail, which the consumer has read,  *)
(* and has told so by the head.                                            *)
LEMMA PushWriteStep == ASSUME NAssumption, Inv, PushWrite(P) PROVE Inv'
<1>. PICK c, V : c = buf(T) /\ V = seen(cur[P], c, Last(c) + 1)
  OBVIOUS
<1>1. /\ pc[P] = "push_write" /\ calls' = calls /\ reg' = reg /\ reg[P].t = T
      /\ pc' = [pc EXCEPT ![P] = "push_tail"]
  BY DEF PushWrite, From, Goto, Inv, Locals
<1>2. /\ hist' = [hist EXCEPT ![c] = Append(@, [val |-> T + 1, rview |-> bot])]
      /\ cur' = [cur EXCEPT ![P] = V] /\ reads' = reads
      /\ race' = (race \/ ~(KnowsWrites(P, c) /\ KnowsReads(P, c)))
  BY <1>1 DEF PushWrite, WriteCell
<1>3. c \in Cell /\ c \in Loc /\ c # head /\ c # tail /\ T \in Nat
  BY CellOf, Numbers, Locations
<1>4. [val |-> T + 1, rview |-> bot] \in Message
  BY <1>3 DEF Message, bot, View
<1>5. /\ hist' \in [Loc -> Seq(Message)] /\ \A x \in Loc : hist'[x] # <<>>
      /\ Last(c)' = Last(c) + 1 /\ Last(c) \in Nat \ {0} /\ latest(c)' = T + 1
      /\ \A x \in Loc \ {c} : hist'[x] = hist[x] /\ Last(x)' = Last(x) /\ latest(x)' = latest(x)
  BY <1>2, <1>3, <1>4, Stored
<1>6. pc'[P] = "push_tail" /\ pc'[C] = pc[C] /\ pc' \in [Thread -> Label]
  BY <1>1 DEF Inv, TypeOK, P, C, Thread, Label
<1>7. T' = T /\ H' = H /\ R' = R /\ W = T /\ W' = T + 1
  BY <1>1, <1>3, <1>5, <1>6, Locations DEF T, H, R, W
<1>8. /\ V \in View /\ V[c] = Last(c) + 1 /\ \A x \in Clock \ {c} : V[x] = cur[P][x]
      /\ cur'[P] = V /\ cur'[C] = cur[C] /\ cur' \in [Thread -> View]
  <2>1. cur[P] \in View /\ cur[P][c] = Last(c) /\ c \in Clock
    BY <1>3, Locations DEF Inv, Views, Bounded
  <2>2. V = [cur[P] EXCEPT ![c] = Last(c) + 1]
    BY <1>5, <2>1 DEF seen, View
  <2>3. V \in View /\ V[c] = Last(c) + 1 /\ \A x \in Clock \ {c} : V[x] = cur[P][x]
    BY <1>5, <2>1, <2>2 DEF View
  <2>. QED BY <1>2, <2>3 DEF Inv, TypeOK, P, C, Thread
<1>9. ASSUME NEW U, Bounded(U)
      PROVE  /\ Bounded(U)' /\ \A m \in Nat : KnowsRead(U, m) => KnowsRead(U, m)'
             /\ \A m \in 0..T : KnowsWritten(U, m) => KnowsWritten(U, m)'
  <2>1. Bounded(U)'
    BY <1>2, <1>3, <1>5, <1>9 DEF Bounded
  <2>2. \A m \in Nat : KnowsRead(U, m) => KnowsRead(U, m)'
    BY <1>2, <1>7 DEF KnowsRead, Spared
  <2>3. ASSUME NEW m \in 0..T, KnowsWritten(U, m), NEW d \in Cell, Spared(d, m, T + 1)
        PROVE  U[d] = Last(d)'
    <3>1. d # c
      BY <1>3, <2>3 DEF Spared
    <3>2. Spared(d, m, T)
      BY <1>3, <2>3 DEF Spared
    <3>. QED BY <1>5, <1>7, <2>3, <3>1, <3>2, Locations DEF KnowsWritten
  <2>. QED BY <1>7, <2>1, <2>2, <2>3 DEF KnowsWritten, Spared
<1>10. Messages'
  <2>1. hist'[tail] = hist[tail] /\ Last(tail)' = Last(tail) /\ hist'[head] = hist[head] /\ Last(head)' = Last(head)
    BY <1>3, <1>5, Locations
  <2>. QED BY <1>3, <1>9, <2>1, Numbers DEF Inv, Messages, TailMessage, HeadMessage, T
<1>11. T < cur[P][head] - 1 + N
  BY <1>1 DEF Inv, Locals
<1>12. \A k \in Nat : cur[P][head] - 1 <= k /\ k < T => buf(k) # c
  BY <1>3, <1>11, RingApart, Numbers DEF NAssumption
<1>13. Views'
  <2>1. /\ Bounded(cur[P]) /\ Bounded(cur[C])
        /\ cur[P][tail] = Last(tail) /\ \A d \in Cell : cur[P][d] = Last(d)
        /\ cur[C][head] = Last(head) /\ \A d \in Cell : cur[C][ReadOf(d)] = reads[d]
        /\ KnowsRead(cur[P], cur[P][head] - 1) /\ KnowsWritten(cur[C], cur[C][tail] - 1)
    BY DEF Inv, Views
  <2>2. Bounded(V)'
    <3>1. \A l \in Loc : V[l] \in 1..Last(l)'
      BY <1>3, <1>5, <1>8, <2>1, Locations, SMTT(40) DEF Bounded
    <3>2. \A d \in Cell : V[ReadOf(d)] <= reads'[d]
      BY <1>2, <1>3, <1>8, <2>1, Locations DEF Bounded
    <3>. QED BY <1>8, <3>1, <3>2 DEF Bounded
  <2>3. \A d \in Cell : V[d] = Last(d)'
    BY <1>3, <1>5, <1>8, <2>1, Locations
  <2>4. KnowsRead(V, V[head] - 1)'
    BY <1>2, <1>3, <1>7, <1>8, <2>1, Locations DEF KnowsRead, Spared
  <2>5. Bounded(cur[C])' /\ KnowsWritten(cur[C], cur[C][tail] - 1)'
    BY <1>8, <1>9, <2>1, Numbers
  <2>. QED BY <1>2, <1>3, <1>5, <1>8, <2>1, <2>2, <2>3, <2>4, <2>5, Locations DEF Views
<1>14. Window'
  BY <1>3, <1>7, <1>8, <1>11, Numbers, Locations DEF Window, NAssumption
<1>15. NoRace'
  <2>1. KnowsWrites(P, c)
    BY <1>3 DEF Inv, Views, KnowsWrites
  <2>2. Spared(c, cur[P][head] - 1, R)
    BY <1>12, Numbers DEF Spared
  <2>3. KnowsReads(P, c)
    BY <1>3, <2>2 DEF Inv, Views, KnowsRead, KnowsReads
  <2>. QED BY <1>2, <2>1, <2>3 DEF Inv, NoRace
<1>16. Filled'
  <2>1. ASSUME NEW k \in H..T PROVE latest(buf(k))' = k + 1
    <3>1. CASE k = T
      BY <1>5, <3>1
    <3>2. CASE k # T
      <4>1. k \in Nat /\ k \in H..(W - 1) /\ buf(k) # c
        BY <1>7, <1>12, <2>1, <3>2, Numbers
      <4>2. buf(k) \in Loc
        BY <4>1, CellOf, Locations
      <4>. QED BY <1>5, <4>1, <4>2 DEF Inv, Filled
    <3>. QED BY <3>1, <3>2
  <2>2. H' = H /\ W' - 1 = T
    BY <1>3, <1>7
  <2>. QED BY <2>1, <2>2 DEF Filled
<1>17. TypeOK'
  BY <1>1, <1>2, <1>5, <1>6, <1>8 DEF Inv, TypeOK
<1>18. Locals'
  BY <1>1, <1>6, <1>7, <1>8 DEF Inv, Locals
<1>. QED BY <1>10, <1>13, <1>14, <1>15, <1>16, <1>17, <1>18 DEF Inv
(* The store of the tail passes on all that the producer has written.      *)
LEMMA PushPublishStep == ASSUME NAssumption, Inv, PushPublish(P) PROVE Inv'
<1>. PICK n, V, U : /\ n = Last(tail) + 1 /\ V = seen(cur[P], tail, n) /\ U = seen(V, tail, n)
  OBVIOUS
<1>1. /\ pc[P] = "push_tail" /\ calls' = calls /\ reg' = reg /\ reg[P].t = T
      /\ pc' = [pc EXCEPT ![P] = "idle"]
  BY DEF PushPublish, From, Goto, Inv, Locals
<1>2. /\ hist' = [hist EXCEPT ![tail] = Append(@, [val |-> T + 1, rview |-> U])]
      /\ cur' = [cur EXCEPT ![P] = V] /\ reads' = reads /\ race' = race
  BY <1>1 DEF PushPublish, Store, released, Releases
<1>3. /\ tail \in Loc /\ head \in Loc /\ head # tail /\ T \in Nat /\ n = T + 2 /\ n \in Nat
      /\ Cell \subseteq Loc \ {head, tail} /\ Loc \subseteq Clock
      /\ \A c \in Cell : ReadOf(c) \in Clock \ Loc
  BY Numbers, Locations DEF T
<1>4. /\ V \in View /\ V[tail] = n /\ \A x \in Clock \ {tail} : V[x] = cur[P][x]
      /\ U \in View /\ U[tail] = n /\ \A x \in Clock \ {tail} : U[x] = cur[P][x]
      /\ cur'[P] = V /\ cur'[C] = cur[C] /\ cur' \in [Thread -> View]
  <2>1. V \in View /\ V[tail] = n /\ \A x \in Clock \ {tail} : V[x] = cur[P][x]
    BY <1>3 DEF seen, Inv, Views, Bounded, View
  <2>2. U \in View /\ U[tail] = n /\ \A x \in Clock \ {tail} : U[x] = V[x]
    BY <1>3, <2>1 DEF seen, View
  <2>. QED BY <1>2, <2>1, <2>2 DEF Inv, TypeOK, P, C, Thread
<1>5. /\ hist' \in [Loc -> Seq(Message)] /\ \A x \in Loc : hist'[x] # <<>>
      /\ Last(tail)' = n /\ hist'[tail][n] = [val |-> T + 1, rview |-> U]
      /\ \A k \in 1..Last(tail) : hist'[tail][k] = hist[tail][k]
      /\ \A x \in Loc \ {tail} : hist'[x] = hist[x] /\ Last(x)' = Last(x) /\ latest(x)' = latest(x)
  <2>1. [val |-> T + 1, rview |-> U] \in Message
    BY <1>3, <1>4 DEF Message
  <2>2. PICK m : m = [val |-> T + 1, rview |-> U]
    OBVIOUS
  <2>3. hist' = [hist EXCEPT ![tail] = Append(@, m)] /\ m \in Message
    BY <1>2, <2>1, <2>2
  <2>4. /\ hist' \in [Loc -> Seq(Message)] /\ \A x \in Loc : hist'[x] # <<>>
        /\ Last(tail)' = Last(tail) + 1 /\ hist'[tail][Last(tail) + 1] = m
        /\ \A k \in 1..Last(tail) : hist'[tail][k] = hist[tail][k]
        /\ \A x \in Loc \ {tail} : hist'[x] = hist[x] /\ Last(x)' = Last(x) /\ latest(x)' = latest(x)
    BY <1>3, <2>3, Stored
  <2>5. n = Last(tail) + 1
    OBVIOUS
  <2>. QED BY <2>2, <2>4, <2>5
<1>6. pc'[P] = "idle" /\ pc'[C] = pc[C] /\ pc' \in [Thread -> Label]
  BY <1>1 DEF Inv, TypeOK, P, C, Thread, Label
<1>7. T' = T + 1 /\ H' = H /\ R' = R /\ W = T + 1 /\ W' = T + 1
  <2>1. T' = T + 1
    BY <1>3, <1>5 DEF T
  <2>. QED BY <1>1, <1>3, <1>5, <1>6, <2>1 DEF H, R, W
<1>8. ASSUME NEW X, Bounded(X)
      PROVE  /\ Bounded(X)' /\ \A m \in Nat : KnowsRead(X, m) => KnowsRead(X, m)'
             /\ \A m \in Nat : KnowsWritten(X, m) => KnowsWritten(X, m)'
  <2>1. \A l \in Loc : X[l] \in 1..Last(l)'
    <3>1. X[tail] \in 1..Last(tail) /\ Last(tail) \in Nat /\ n = Last(tail) + 1
      BY <1>3, <1>8, Numbers DEF Bounded
    <3>. QED BY <1>5, <1>8, <3>1 DEF Bounded
  <2>2. Bounded(X)'
    BY <1>2, <1>8, <2>1 DEF Bounded
  <2>3. \A m \in Nat : KnowsRead(X, m) => KnowsRead(X, m)'
    BY <1>2, <1>7 DEF KnowsRead, Spared
  <2>4. \A m \in Nat : KnowsWritten(X, m) => KnowsWritten(X, m)'
    BY <1>3, <1>5, <1>7 DEF KnowsWritten, Spared
  <2>. QED BY <2>2, <2>3, <2>4
<1>9. /\ Bounded(cur[P]) /\ Bounded(cur[C]) /\ \A d \in Cell : cur[P][d] = Last(d)
      /\ cur[C][head] = Last(head) /\ \A d \in Cell : cur[C][ReadOf(d)] = reads[d]
      /\ KnowsRead(cur[P], cur[P][head] - 1) /\ KnowsWritten(cur[C], cur[C][tail] - 1)
  BY DEF Inv, Views
<1>10. ASSUME NEW X \in {V, U} PROVE Bounded(X)' /\ \A d \in Cell : X[d] = Last(d)'
  <2>1. X[tail] = n /\ X \in View /\ \A x \in Clock \ {tail} : X[x] = cur[P][x]
    BY <1>4
  <2>2. \A l \in Loc : X[l] \in 1..Last(l)'
    BY <1>3, <1>5, <1>9, <2>1 DEF Bounded
  <2>3. \A d \in Cell : X[ReadOf(d)] <= reads'[d]
    BY <1>2, <1>3, <1>9, <2>1 DEF Bounded
  <2>. QED BY <1>3, <1>5, <1>9, <2>1, <2>2, <2>3 DEF Bounded
<1>11. Messages'
  <2>1. ASSUME NEW i \in 1..n, NEW m, m = hist'[tail][i] PROVE TailMessage(i, m)'
    <3>1. CASE i = n
      <4>1. m.val = i - 1 /\ m.rview = U
        BY <1>3, <1>5, <2>1, <3>1
      <4>. QED BY <1>4, <1>10, <3>1, <4>1 DEF TailMessage, KnowsWritten
    <3>2. CASE i # n
      <4>1. i \in 1..Last(tail) /\ i - 1 \in Nat
        BY <2>1, <3>2, Numbers
      <4>2. TailMessage(i, m)
        BY <1>5, <2>1, <4>1 DEF Inv, Messages
      <4>. QED BY <1>8, <4>1, <4>2 DEF TailMessage
    <3>. QED BY <3>1, <3>2
  <2>2. ASSUME NEW i \in 1..Last(head), NEW m, m = hist'[head][i] PROVE HeadMessage(i, m)'
    <3>1. m = hist[head][i] /\ i - 1 \in Nat
      BY <1>3, <1>5, <2>2, Numbers
    <3>. QED BY <1>8, <2>2, <3>1 DEF Inv, Messages, HeadMessage
  <2>. QED BY <1>3, <1>5, <2>1, <2>2 DEF Messages
<1>12. Views'
  <2>1. KnowsRead(V, V[head] - 1)'
    BY <1>2, <1>3, <1>4, <1>7, <1>9 DEF KnowsRead, Spared
  <2>2. Bounded(cur[C])' /\ KnowsWritten(cur[C], cur[C][tail] - 1)'
    BY <1>4, <1>8, <1>9, Numbers
  <2>. QED BY <1>2, <1>3, <1>4, <1>5, <1>9, <1>10, <2>1, <2>2 DEF Views
<1>13. Window' /\ NoRace'
  BY <1>2, <1>3, <1>4, <1>7, Numbers DEF Window, NAssumption, Inv, NoRace
<1>14. Filled'
  <2>1. ASSUME NEW k \in H..T PROVE latest(buf(k))' = k + 1
    <3>1. k \in Nat /\ k \in H..(W - 1)
      BY <1>3, <1>7, Numbers
    <3>2. buf(k) \in Loc \ {tail}
      BY <1>3, <3>1, CellOf
    <3>. QED BY <1>5, <3>1, <3>2 DEF Inv, Filled
  <2>2. H' = H /\ W' - 1 = T
    BY <1>3, <1>7
  <2>. QED BY <2>1, <2>2 DEF Filled
<1>15. TypeOK'
  BY <1>1, <1>2, <1>4, <1>5, <1>6 DEF Inv, TypeOK
<1>16. Locals'
  BY <1>1, <1>4, <1>6, <1>7 DEF Inv, Locals
<1>. QED BY <1>11, <1>12, <1>13, <1>14, <1>15, <1>16 DEF Inv
(* The consumer reads the slot at the head, which the producer has written,*)
(* and has told so by the tail.                                            *)
LEMMA PopReadStep == ASSUME NAssumption, Inv, PopRead(C) PROVE Inv'
<1>. PICK c, n, V : c = buf(H) /\ n = reads[c] + 1 /\ V = seen(cur[C], ReadOf(c), n)
  OBVIOUS
<1>1. /\ pc[C] = "pop_read" /\ calls' = calls /\ reg[C].h = H
      /\ pc' = [pc EXCEPT ![C] = "pop_head"]
      /\ reg' = [reg EXCEPT ![C]["v"] = latest(c)]
  BY DEF PopRead, From, Goto, Set, Inv, Locals
<1>2. /\ hist' = hist /\ cur' = [cur EXCEPT ![C] = V]
      /\ reads' = [reads EXCEPT ![c] = n] /\ race' = (race \/ ~KnowsWrites(C, c))
  BY <1>1 DEF PopRead, ReadCell
<1>3. /\ c \in Cell /\ H \in Nat /\ n \in Nat /\ reads[c] \in Nat
      /\ \A d \in Cell : ReadOf(d) \in Clock \ Loc /\ (ReadOf(d) = ReadOf(c) => d = c)
      /\ Loc \subseteq Clock /\ head \in Loc /\ tail \in Loc /\ Cell \subseteq Loc
  BY CellOf, Numbers, Locations
<1>4. /\ reads' \in [Cell -> Nat] /\ reads'[c] = n /\ \A d \in Cell \ {c} : reads'[d] = reads[d]
  BY <1>2, <1>3 DEF Inv, TypeOK
<1>5. /\ V \in View /\ V[ReadOf(c)] = n /\ \A x \in Clock \ {ReadOf(c)} : V[x] = cur[C][x]
      /\ cur'[C] = V /\ cur'[P] = cur[P] /\ cur' \in [Thread -> View]
  <2>1. V \in View /\ V[ReadOf(c)] = n /\ \A x \in Clock \ {ReadOf(c)} : V[x] = cur[C][x]
    BY <1>3 DEF seen, Inv, Views, Bounded, View
  <2>. QED BY <1>2, <2>1 DEF Inv, TypeOK, P, C, Thread
<1>6. pc'[C] = "pop_head" /\ pc'[P] = pc[P] /\ pc' \in [Thread -> Label]
  BY <1>1 DEF Inv, TypeOK, P, C, Thread, Label
<1>7. T' = T /\ H' = H /\ W' = W /\ R = H /\ R' = H + 1
  BY <1>1, <1>2, <1>6 DEF T, H, R, W, Last
<1>8. ASSUME NEW X, Bounded(X)
      PROVE  /\ Bounded(X)' /\ \A m \in Nat : KnowsWritten(X, m) => KnowsWritten(X, m)'
             /\ \A m \in 0..H : KnowsRead(X, m) => KnowsRead(X, m)'
  <2>1. Bounded(X)'
    <3>1. \A l \in Loc : X[l] \in 1..Last(l)'
      BY <1>2, <1>8 DEF Bounded, Last
    <3>2. ASSUME NEW d \in Cell PROVE X[ReadOf(d)] <= reads'[d]
      <4>1. X[ReadOf(d)] \in Nat /\ X[ReadOf(d)] <= reads[d] /\ n = reads[c] + 1
        BY <1>3, <1>8 DEF Bounded, View
      <4>. QED BY <1>3, <1>4, <4>1
    <3>. QED BY <1>8, <3>1, <3>2 DEF Bounded
  <2>2. \A m \in Nat : KnowsWritten(X, m) => KnowsWritten(X, m)'
    BY <1>2, <1>7 DEF KnowsWritten, Spared, Last
  <2>3. ASSUME NEW m \in 0..H, KnowsRead(X, m), NEW d \in Cell, Spared(d, m, H + 1)
        PROVE  X[ReadOf(d)] = reads'[d]
    <3>1. d # c
      BY <1>3, <2>3 DEF Spared
    <3>2. Spared(d, m, H)
      BY <1>3, <2>3 DEF Spared
    <3>. QED BY <1>4, <1>7, <2>3, <3>1, <3>2 DEF KnowsRead
  <2>. QED BY <1>7, <2>1, <2>2, <2>3 DEF KnowsRead, Spared
<1>9. /\ Bounded(cur[P]) /\ Bounded(cur[C]) /\ \A d \in Cell : cur[P][d] = Last(d)
      /\ cur[C][head] = Last(head) /\ \A d \in Cell : cur[C][ReadOf(d)] = reads[d]
      /\ cur[P][tail] = Last(tail)
      /\ KnowsRead(cur[P], cur[P][head] - 1) /\ KnowsWritten(cur[C], cur[C][tail] - 1)
  BY DEF Inv, Views
<1>10. Messages'
  <2>1. \A i \in 1..Last(head) : i - 1 \in 0..H
    BY Numbers DEF H
  <2>2. \A i \in 1..Last(tail) : i - 1 \in Nat
    BY Numbers
  <2>3. ASSUME NEW i \in 1..Last(tail), NEW m, m = hist[tail][i] PROVE TailMessage(i, m)'
    BY <1>8, <2>2, <2>3 DEF Inv, Messages, TailMessage
  <2>4. ASSUME NEW i \in 1..Last(head), NEW m, m = hist[head][i] PROVE HeadMessage(i, m)'
    BY <1>8, <2>1, <2>4 DEF Inv, Messages, HeadMessage
  <2>. QED BY <1>2, <2>3, <2>4 DEF Messages, Last
<1>11. H < cur[C][tail] - 1
  BY <1>1 DEF Inv, Locals
<1>12. Views'
  <2>1. \A d \in Cell : V[ReadOf(d)] = reads'[d]
    BY <1>3, <1>4, <1>5, <1>9
  <2>2. Bounded(V)'
    <3>1. \A l \in Loc : V[l] \in 1..Last(l)'
      BY <1>2, <1>3, <1>5, <1>9 DEF Bounded, Last
    <3>. QED BY <1>4, <1>5, <2>1, <3>1 DEF Bounded
  <2>3. KnowsWritten(V, V[tail] - 1)'
    BY <1>2, <1>3, <1>5, <1>7, <1>9 DEF KnowsWritten, Spared, Last
  <2>4. Bounded(cur[P])' /\ KnowsRead(cur[P], cur[P][head] - 1)'
    BY <1>5, <1>8, <1>9, Numbers
  <2>. QED BY <1>2, <1>3, <1>5, <1>9, <2>1, <2>2, <2>3, <2>4 DEF Views, Last
<1>13. Window'
  BY <1>3, <1>5, <1>7, <1>11, Numbers DEF Window, NAssumption
<1>14. NoRace'
  <2>1. \A k \in Nat : H < k /\ k < W => buf(k) # c
    BY <1>3, RingApart, Numbers DEF NAssumption
  <2>2. Spared(c, cur[C][tail] - 1, W)
    BY <1>3, <1>11, <2>1, Numbers DEF Spared
  <2>3. KnowsWrites(C, c)
    BY <1>3, <1>9, <2>2 DEF KnowsWritten, KnowsWrites
  <2>. QED BY <1>2, <2>3 DEF Inv, NoRace
<1>15. Filled' /\ latest(c) = H + 1
  <2>1. H \in H..(W - 1)
    BY <1>3, <1>11, Numbers
  <2>. QED BY <1>2, <1>7, <2>1 DEF Inv, Filled, latest, val, Last
<1>16. reg' \in [Thread -> [{"t", "h", "v"} -> Nat]] /\ reg'[C].v = H + 1 /\ reg'[C].h = H /\ reg'[P] = reg[P]
  BY <1>1, <1>3, <1>15 DEF Inv, TypeOK, P, C, Thread
<1>17. TypeOK'
  BY <1>1, <1>2, <1>4, <1>5, <1>6, <1>16 DEF Inv, TypeOK
<1>18. Locals'
  BY <1>1, <1>5, <1>6, <1>7, <1>16 DEF Inv, Locals
<1>. QED BY <1>10, <1>12, <1>13, <1>14, <1>15, <1>17, <1>18 DEF Inv

(* The store of the head passes on that the slot has been read.            *)
LEMMA PopPublishStep == ASSUME NAssumption, Inv, PopPublish(C) PROVE Inv'
<1>. PICK n, V, U : /\ n = Last(head) + 1 /\ V = seen(cur[C], head, n) /\ U = seen(V, head, n)
  OBVIOUS
<1>1. /\ pc[C] = "pop_head" /\ calls' = calls /\ reg' = reg /\ reg[C].h = H
      /\ pc' = [pc EXCEPT ![C] = "idle"]
  BY DEF PopPublish, From, Goto, Inv, Locals
<1>2. /\ hist' = [hist EXCEPT ![head] = Append(@, [val |-> H + 1, rview |-> U])]
      /\ cur' = [cur EXCEPT ![C] = V] /\ reads' = reads /\ race' = race
  BY <1>1 DEF PopPublish, Store, released, Releases
<1>3. /\ head \in Loc /\ tail \in Loc /\ tail # head /\ H \in Nat /\ n = H + 2 /\ n \in Nat
      /\ Cell \subseteq Loc \ {tail, head} /\ Loc \subseteq Clock
      /\ \A c \in Cell : ReadOf(c) \in Clock \ Loc
  BY Numbers, Locations DEF H
<1>4. /\ V \in View /\ V[head] = n /\ \A x \in Clock \ {head} : V[x] = cur[C][x]
      /\ U \in View /\ U[head] = n /\ \A x \in Clock \ {head} : U[x] = cur[C][x]
      /\ cur'[C] = V /\ cur'[P] = cur[P] /\ cur' \in [Thread -> View]
  <2>1. V \in View /\ V[head] = n /\ \A x \in Clock \ {head} : V[x] = cur[C][x]
    BY <1>3 DEF seen, Inv, Views, Bounded, View
  <2>2. U \in View /\ U[head] = n /\ \A x \in Clock \ {head} : U[x] = V[x]
    BY <1>3, <2>1 DEF seen, View
  <2>. QED BY <1>2, <2>1, <2>2 DEF Inv, TypeOK, P, C, Thread
<1>5. /\ hist' \in [Loc -> Seq(Message)] /\ \A x \in Loc : hist'[x] # <<>>
      /\ Last(head)' = n /\ hist'[head][n] = [val |-> H + 1, rview |-> U]
      /\ \A k \in 1..Last(head) : hist'[head][k] = hist[head][k]
      /\ \A x \in Loc \ {head} : hist'[x] = hist[x] /\ Last(x)' = Last(x) /\ latest(x)' = latest(x)
  <2>1. [val |-> H + 1, rview |-> U] \in Message
    BY <1>3, <1>4 DEF Message
  <2>2. PICK m : m = [val |-> H + 1, rview |-> U]
    OBVIOUS
  <2>3. hist' = [hist EXCEPT ![head] = Append(@, m)] /\ m \in Message
    BY <1>2, <2>1, <2>2
  <2>4. /\ hist' \in [Loc -> Seq(Message)] /\ \A x \in Loc : hist'[x] # <<>>
        /\ Last(head)' = Last(head) + 1 /\ hist'[head][Last(head) + 1] = m
        /\ \A k \in 1..Last(head) : hist'[head][k] = hist[head][k]
        /\ \A x \in Loc \ {head} : hist'[x] = hist[x] /\ Last(x)' = Last(x) /\ latest(x)' = latest(x)
    BY <1>3, <2>3, Stored
  <2>5. n = Last(head) + 1
    OBVIOUS
  <2>. QED BY <2>2, <2>4, <2>5
<1>6. pc'[C] = "idle" /\ pc'[P] = pc[P] /\ pc' \in [Thread -> Label]
  BY <1>1 DEF Inv, TypeOK, P, C, Thread, Label
<1>7. H' = H + 1 /\ T' = T /\ W' = W /\ R = H + 1 /\ R' = H + 1
  <2>1. H' = H + 1
    BY <1>3, <1>5 DEF H
  <2>. QED BY <1>1, <1>3, <1>5, <1>6, <2>1 DEF T, R, W
<1>8. ASSUME NEW X, Bounded(X)
      PROVE  /\ Bounded(X)' /\ \A m \in Nat : KnowsWritten(X, m) => KnowsWritten(X, m)'
             /\ \A m \in Nat : KnowsRead(X, m) => KnowsRead(X, m)'
  <2>1. \A l \in Loc : X[l] \in 1..Last(l)'
    <3>1. X[head] \in 1..Last(head) /\ Last(head) \in Nat /\ n = Last(head) + 1
      BY <1>3, <1>8, Numbers DEF Bounded
    <3>. QED BY <1>5, <1>8, <3>1 DEF Bounded
  <2>2. Bounded(X)'
    BY <1>2, <1>8, <2>1 DEF Bounded
  <2>3. \A m \in Nat : KnowsWritten(X, m) => KnowsWritten(X, m)'
    BY <1>3, <1>5, <1>7 DEF KnowsWritten, Spared
  <2>4. \A m \in Nat : KnowsRead(X, m) => KnowsRead(X, m)'
    BY <1>2, <1>7 DEF KnowsRead, Spared
  <2>. QED BY <2>2, <2>3, <2>4
<1>9. /\ Bounded(cur[C]) /\ Bounded(cur[P]) /\ \A d \in Cell : cur[C][ReadOf(d)] = reads[d]
      /\ cur[P][tail] = Last(tail) /\ \A d \in Cell : cur[P][d] = Last(d)
      /\ KnowsWritten(cur[C], cur[C][tail] - 1) /\ KnowsRead(cur[P], cur[P][head] - 1)
  BY DEF Inv, Views
<1>10. ASSUME NEW X \in {V, U} PROVE Bounded(X)' /\ \A d \in Cell : X[ReadOf(d)] = reads'[d]
  <2>1. X[head] = n /\ X \in View /\ \A x \in Clock \ {head} : X[x] = cur[C][x]
    BY <1>4
  <2>2. \A l \in Loc : X[l] \in 1..Last(l)'
    BY <1>3, <1>5, <1>9, <2>1 DEF Bounded
  <2>3. \A d \in Cell : X[ReadOf(d)] = reads'[d] /\ reads'[d] \in Nat
    BY <1>2, <1>3, <1>9, <2>1, Numbers
  <2>. QED BY <2>1, <2>2, <2>3 DEF Bounded
<1>11. Messages'
  <2>1. ASSUME NEW i \in 1..n, NEW m, m = hist'[head][i] PROVE HeadMessage(i, m)'
    <3>1. CASE i = n
      <4>1. m.val = i - 1 /\ m.rview = U
        BY <1>3, <1>5, <2>1, <3>1
      <4>. QED BY <1>4, <1>10, <3>1, <4>1 DEF HeadMessage, KnowsRead
    <3>2. CASE i # n
      <4>1. i \in 1..Last(head) /\ i - 1 \in Nat
        BY <2>1, <3>2, Numbers
      <4>2. HeadMessage(i, m)
        BY <1>5, <2>1, <4>1 DEF Inv, Messages
      <4>. QED BY <1>8, <4>1, <4>2 DEF HeadMessage
    <3>. QED BY <3>1, <3>2
  <2>2. ASSUME NEW i \in 1..Last(tail), NEW m, m = hist'[tail][i] PROVE TailMessage(i, m)'
    <3>1. m = hist[tail][i] /\ i - 1 \in Nat
      BY <1>3, <1>5, <2>2, Numbers
    <3>. QED BY <1>8, <2>2, <3>1 DEF Inv, Messages, TailMessage
  <2>. QED BY <1>3, <1>5, <2>1, <2>2 DEF Messages
<1>12. Views'
  <2>1. KnowsWritten(V, V[tail] - 1)'
    <3>1. V[tail] = cur[C][tail] /\ \A d \in Cell : V[d] = cur[C][d] /\ Last(d)' = Last(d)
      BY <1>3, <1>4, <1>5
    <3>. QED BY <1>7, <1>9, <3>1 DEF KnowsWritten, Spared
  <2>2. Bounded(cur[P])' /\ KnowsRead(cur[P], cur[P][head] - 1)'
    BY <1>4, <1>8, <1>9, Numbers
  <2>. QED BY <1>2, <1>3, <1>4, <1>5, <1>9, <1>10, <2>1, <2>2 DEF Views
<1>13. Window' /\ NoRace'
  BY <1>2, <1>3, <1>4, <1>7, Numbers DEF Window, NAssumption, Inv, NoRace
<1>14. Filled'
  <2>1. ASSUME NEW k \in (H + 1)..(W - 1) PROVE latest(buf(k))' = k + 1
    <3>1. k \in Nat /\ k \in H..(W - 1)
      BY <1>3, Numbers
    <3>2. buf(k) \in Loc \ {head}
      BY <1>3, <3>1, CellOf
    <3>. QED BY <1>5, <3>1, <3>2 DEF Inv, Filled
  <2>. QED BY <1>7, <2>1 DEF Filled
<1>15. TypeOK'
  BY <1>1, <1>2, <1>4, <1>5, <1>6 DEF Inv, TypeOK
<1>16. Locals'
  BY <1>1, <1>4, <1>6, <1>7 DEF Inv, Locals
<1>. QED BY <1>11, <1>12, <1>13, <1>14, <1>15, <1>16 DEF Inv
-----------------------------------------------------------------------------
LEMMA InitInv == ASSUME NAssumption, Init PROVE Inv
<1>1. /\ hist = [l \in Loc |-> <<[val |-> 0, rview |-> bot]>>]
      /\ cur = [th \in Thread |-> bot] /\ reads = [c \in Cell |-> 1] /\ race = FALSE
      /\ pc = [th \in Thread |-> "idle"] /\ reg = [th \in Thread |-> [x \in {"t", "h", "v"} |-> 0]]
      /\ calls = [th \in Thread |-> 0]
  BY DEF Init, CoreInit, WMInit, initMem
<1>2. bot \in View /\ \A x \in Clock : bot[x] = 1
  BY DEF bot, View
<1>3. \A l \in Loc : hist[l] = <<[val |-> 0, rview |-> bot]>> /\ Last(l) = 1
  BY <1>1 DEF Last
<1>4. cur[P] = bot /\ cur[C] = bot /\ pc[P] = "idle" /\ pc[C] = "idle"
  BY <1>1 DEF P, C, Thread
<1>5. T = 0 /\ H = 0 /\ W = 0 /\ R = 0
  BY <1>3, <1>4, Locations DEF T, H, W, R
<1>6. TypeOK
  <2>1. [val |-> 0, rview |-> bot] \in Message
    BY <1>2 DEF Message
  <2>2. hist \in [Loc -> Seq(Message)] /\ \A l \in Loc : hist[l] # <<>>
    BY <1>1, <1>3, <2>1
  <2>. QED BY <1>1, <1>2, <1>4, <2>2 DEF TypeOK, Label
<1>7. Bounded(bot) /\ (\A m : KnowsWritten(bot, m)) /\ (\A m : KnowsRead(bot, m))
  BY <1>1, <1>2, <1>3, Locations DEF Bounded, KnowsWritten, KnowsRead
<1>8. Messages
  BY <1>2, <1>3, <1>7, Locations DEF Messages, TailMessage, HeadMessage
<1>9. Views
  BY <1>1, <1>2, <1>3, <1>4, <1>7, Locations DEF Views
<1>10. Window /\ Locals /\ Filled /\ NoRace
  BY <1>1, <1>2, <1>4, <1>5, Locations DEF Window, Locals, Filled, NoRace, NAssumption
<1>. QED BY <1>6, <1>8, <1>9, <1>10 DEF Inv

LEMMA NextInv == ASSUME NAssumption, Inv, [Next]_state PROVE Inv'
<1>1. CASE UNCHANGED state
  <2>1. UNCHANGED <<hist, cur, reads, race, pc, reg, calls>> /\ QuietMemory
    BY <1>1 DEF state, wm, QuietMemory
  <2>2. T' = T /\ H' = H /\ W' = W /\ R' = R /\ Messages' /\ Filled' /\ NoRace'
    BY <2>1, SameMemory
  <2>3. Views'
    BY <2>1, <2>2 DEF Inv, Views, Bounded, KnowsWritten, KnowsRead, Spared, Last
  <2>. QED BY <2>1, <2>2, <2>3 DEF Inv, TypeOK, Window, Locals
<1>2. CASE Push(P)
  BY <1>2, PushTailStep, PushHeadStep, PushWriteStep, PushPublishStep DEF Push
<1>3. CASE Pop(C)
  BY <1>3, PopHeadStep, PopTailStep, PopReadStep, PopPublishStep DEF Pop
<1>. QED BY <1>1, <1>2, <1>3 DEF Next, P, C

LEMMA Inductive == ASSUME NAssumption PROVE Spec => []Inv
BY InitInv, NextInv, PTL DEF Spec

(* No two accesses of a cell race, whatever the capacity: the release of   *)
(* an index and the acquire of it order every write of a cell and every    *)
(* read of it (spsc.rs:41-64); and each index is stored by a thread that   *)
(* knows its last value.                                                   *)
THEOREM Safe == ASSUME NAssumption PROVE Spec => []RaceFree
<1>1. Inv => RaceFree
  BY DEF Inv, Views, RaceFree, StoresAreLatest, P, C
<1>. QED BY <1>1, Inductive, PTL
-----------------------------------------------------------------------------
(* The ring as a queue of the numbers from the head to the tail.           *)
Run(h, t) == [k \in 1..(t - h) |-> h + k]

LEMMA RunSteps ==
  ASSUME NEW h \in Nat, NEW t \in Nat, h <= t
  PROVE  /\ Run(h, t) \in Seq(Nat) /\ Len(Run(h, t)) = t - h
         /\ Run(h, t + 1) = Append(Run(h, t), t + 1)
         /\ h < t => Run(h, t) # <<>> /\ Head(Run(h, t)) = h + 1 /\ Tail(Run(h, t)) = Run(h + 1, t)
         /\ h = t => Run(h, t) = <<>>
<1>1. ASSUME NEW a \in Nat, NEW b \in Nat, a <= b
      PROVE  /\ Run(a, b) \in Seq(Nat) /\ Len(Run(a, b)) = b - a
             /\ \A k \in 1..(b - a) : Run(a, b)[k] = a + k
  BY <1>1 DEF Run
<1>2. Run(h, t + 1) = Append(Run(h, t), t + 1)
  <2>1. /\ Append(Run(h, t), t + 1) \in Seq(Nat) /\ Len(Append(Run(h, t), t + 1)) = t + 1 - h
        /\ \A k \in 1..(t + 1 - h) : Append(Run(h, t), t + 1)[k] = h + k
    <3>1. /\ Run(h, t) \in Seq(Nat) /\ Len(Run(h, t)) = t - h /\ t + 1 \in Nat
          /\ \A k \in 1..(t - h) : Run(h, t)[k] = h + k
      BY <1>1
    <3>2. PICK s \in Seq(Nat) : s = Run(h, t)
      BY <3>1
    <3>3. /\ Append(s, t + 1) \in Seq(Nat) /\ Len(Append(s, t + 1)) = t - h + 1
          /\ \A k \in 1..(t - h) : Append(s, t + 1)[k] = s[k]
          /\ Append(s, t + 1)[t - h + 1] = t + 1
      BY <3>1, <3>2, AppendProperties
    <3>4. \A k \in 1..(t + 1 - h) : k \in 1..(t - h) \/ (k = t - h + 1 /\ h + k = t + 1)
      OBVIOUS
    <3>. QED BY <3>1, <3>2, <3>3, <3>4
  <2>2. /\ Run(h, t + 1) \in Seq(Nat) /\ Len(Run(h, t + 1)) = t + 1 - h
        /\ \A k \in 1..(t + 1 - h) : Run(h, t + 1)[k] = h + k
    BY <1>1
  <2>. QED BY <2>1, <2>2, SeqEqual
<1>3. ASSUME h < t
      PROVE  Run(h, t) # <<>> /\ Head(Run(h, t)) = h + 1 /\ Tail(Run(h, t)) = Run(h + 1, t)
  <2>1. Run(h, t) # <<>> /\ Head(Run(h, t)) = h + 1
    BY <1>1, <1>3, EmptySeq
  <2>2. /\ Tail(Run(h, t)) \in Seq(Nat) /\ Len(Tail(Run(h, t))) = t - h - 1
        /\ \A k \in 1..(t - h - 1) : Tail(Run(h, t))[k] = h + 1 + k
    BY <1>1, <1>3, <2>1, HeadTailProperties
  <2>3. /\ Run(h + 1, t) \in Seq(Nat) /\ Len(Run(h + 1, t)) = t - h - 1
        /\ \A k \in 1..(t - h - 1) : Run(h + 1, t)[k] = h + 1 + k
    BY <1>1, <1>3
  <2>. QED BY <2>1, <2>2, <2>3, SeqEqual, SMTT(40)
<1>4. ASSUME h = t PROVE Run(h, t) = <<>>
  BY <1>1, <1>4, EmptySeq
<1>. QED BY <1>1, <1>2, <1>3, <1>4

IsARun == Contents = Run(H, T) /\ H <= T

LEMMA RingIsARun == ASSUME NAssumption, Inv PROVE IsARun
<1>1. latest(tail) = T /\ latest(head) = H
  BY Values
<1>2. ASSUME NEW k \in 1..(T - H) PROVE latest(buf(H + k - 1)) = H + k
  <2>1. H + k - 1 \in H..(W - 1) /\ H + k - 1 + 1 = H + k
    BY <1>2, Numbers
  <2>. QED BY <2>1 DEF Inv, Filled
<1>. QED BY <1>1, <1>2, Numbers DEF IsARun, Contents, Run

(* The tail counts the calls that pushed.                                  *)
Counted ==
  calls[P] <= MaxCalls[P] /\ T + (IF pc[P] = "idle" THEN 0 ELSE 1) <= calls[P]

(* The two stores of an index; no other step moves one.                    *)
LEMMA PublishMoves ==
  ASSUME NAssumption, Inv, PushPublish(P)
  PROVE  /\ T' = T + 1 /\ H' = H /\ out' = out /\ calls' = calls
         /\ pc[P] = "push_tail" /\ pc'[P] = "idle" /\ T - H < N
<1>1. hist' = [hist EXCEPT ![tail] = Append(@, [val |-> reg[P].t + 1, rview |-> seen(seen(cur[P], tail, Last(tail) + 1), tail, Last(tail) + 1)])]
  BY DEF PushPublish, Store, released, Releases
<1>2. hist'[head] = hist[head] /\ Len(hist'[tail]) = Len(hist[tail]) + 1
  BY <1>1, Locations DEF Inv, TypeOK
<1>3. T' = T + 1 /\ H' = H
  BY <1>2, Numbers DEF T, H, Last
<1>4. pc[P] = "push_tail" /\ pc'[P] = "idle" /\ calls' = calls /\ out' = out
  BY DEF PushPublish, From, Goto, Inv, TypeOK, P, Thread
<1>5. T + 1 <= H + N
  BY <1>4, Numbers DEF W, NAssumption
<1>. QED BY <1>3, <1>4, <1>5, Numbers DEF NAssumption

LEMMA TakeMoves ==
  ASSUME NAssumption, Inv, PopPublish(C)
  PROVE  /\ T' = T /\ H' = H + 1 /\ H < T /\ out' = Append(out, H + 1)
         /\ calls' = calls /\ pc'[P] = pc[P]
<1>1. hist' = [hist EXCEPT ![head] = Append(@, [val |-> reg[C].h + 1, rview |-> seen(seen(cur[C], head, Last(head) + 1), head, Last(head) + 1)])]
  BY DEF PopPublish, Store, released, Releases
<1>2. hist'[tail] = hist[tail] /\ Len(hist'[head]) = Len(hist[head]) + 1
  BY <1>1, Locations DEF Inv, TypeOK
<1>3. T' = T /\ H' = H + 1
  BY <1>2, Numbers DEF T, H, Last
<1>4. pc[C] = "pop_head" /\ pc'[P] = pc[P] /\ calls' = calls /\ out' = Append(out, reg[C].v)
  BY DEF PopPublish, From, Goto, Inv, TypeOK, P, C, Thread
<1>5. H < T /\ reg[C].v = H + 1
  BY <1>4, Numbers DEF R, Inv, Locals
<1>. QED BY <1>3, <1>4, <1>5

LEMMA OthersStay ==
  ASSUME NAssumption, Inv,
         \/ UNCHANGED state
         \/ PushTail(P) \/ PushHead(P) \/ PushWrite(P)
         \/ PopHead(C) \/ PopTail(C) \/ PopRead(C)
  PROVE  /\ T' = T /\ H' = H /\ out' = out
         /\ \/ pc[P] = "idle" /\ calls[P] < MaxCalls[P] /\ calls'[P] = calls[P] + 1
            \/ calls'[P] = calls[P] /\ (pc[P] = "idle" => pc'[P] = "idle")
<1>1. hist'[head] = hist[head] /\ hist'[tail] = hist[tail]
  <2>1. CASE PushWrite(P)
    <3>1. \A k \in Nat : buf(k) # head /\ buf(k) # tail
      BY CellOf, Locations
    <3>2. reg[P].t \in Nat
      BY DEF Inv, TypeOK, P, Thread
    <3>. QED BY <2>1, <3>1, <3>2, Locations DEF PushWrite, WriteCell, Inv, TypeOK
  <2>. QED BY <2>1 DEF state, wm, PushTail, PushHead, PopHead, PopTail, PopRead, LoadInto, Load, ReadCell
<1>2. out' = out
  BY DEF state, PushTail, PushHead, PushWrite, PopHead, PopTail, PopRead
<1>3. \/ pc[P] = "idle" /\ calls[P] < MaxCalls[P] /\ calls'[P] = calls[P] + 1
      \/ calls'[P] = calls[P] /\ (pc[P] = "idle" => pc'[P] = "idle")
  BY DEF state, PushTail, PushHead, PushWrite, PopHead, PopTail, PopRead, Call, From, Goto,
         Inv, TypeOK, P, C, Thread
<1>. QED BY <1>1, <1>2, <1>3 DEF T, H, Last

LEMMA Steps ==
  ASSUME [Next]_state
  PROVE  \/ PushPublish(P) \/ PopPublish(C)
         \/ UNCHANGED state
         \/ PushTail(P) \/ PushHead(P) \/ PushWrite(P)
         \/ PopHead(C) \/ PopTail(C) \/ PopRead(C)
BY DEF Next, Push, Pop, P, C

LEMMA CountedStep ==
  ASSUME NAssumption, CallsAssumption, Inv, Counted, [Next]_state
  PROVE  Counted'
<1>. calls[P] \in Nat /\ MaxCalls[P] \in Nat /\ T \in Nat
  BY Numbers DEF Inv, TypeOK, P, Thread, CallsAssumption
<1>1. CASE PushPublish(P)
  BY <1>1, PublishMoves DEF Counted
<1>2. CASE PopPublish(C)
  BY <1>2, TakeMoves DEF Counted
<1>3. CASE /\ T' = T
           /\ \/ pc[P] = "idle" /\ calls[P] < MaxCalls[P] /\ calls'[P] = calls[P] + 1
              \/ calls'[P] = calls[P] /\ (pc[P] = "idle" => pc'[P] = "idle")
  BY <1>3 DEF Counted
<1>. QED BY <1>1, <1>2, <1>3, Steps, OthersStay

LEMMA QueueInit == ASSUME NAssumption, Init, Inv PROVE Queue!Init
<1>1. out = <<>> /\ T = 0 /\ H = 0
  BY Locations DEF Init, CoreInit, WMInit, T, H, Last
<1>2. Contents = <<>>
  BY <1>1, RingIsARun, RunSteps DEF IsARun
<1>. QED BY <1>1, <1>2 DEF Queue!Init

LEMMA QueueStep ==
  ASSUME NAssumption, CallsAssumption, Inv, Counted, IsARun', [Next]_state
  PROVE  [Queue!Next]_<<Contents, out>>
<1>1. Contents = Run(H, T) /\ Contents' = Run(H', T') /\ H <= T /\ H \in Nat /\ T \in Nat
  BY RingIsARun, Numbers DEF IsARun
<1>2. CASE PushPublish(P)
  <2>1. T' = T + 1 /\ H' = H /\ out' = out /\ T - H < N /\ pc[P] = "push_tail"
    BY <1>2, PublishMoves
  <2>2. T + 1 \in 1..MaxCalls["producer"]
    BY <1>1, <2>1 DEF Counted, Inv, TypeOK, P, Thread, CallsAssumption
  <2>3. Contents' = Append(Contents, T + 1) /\ Len(Contents) < N
    BY <1>1, <2>1, RunSteps
  <2>. QED BY <2>1, <2>2, <2>3 DEF Queue!Next, Queue!Put
<1>3. CASE PopPublish(C)
  <2>1. T' = T /\ H' = H + 1 /\ H < T /\ out' = Append(out, H + 1)
    BY <1>3, TakeMoves
  <2>2. Contents # <<>> /\ Head(Contents) = H + 1 /\ Contents' = Tail(Contents)
    BY <1>1, <2>1, RunSteps
  <2>. QED BY <2>1, <2>2 DEF Queue!Next, Queue!Take
<1>4. CASE T' = T /\ H' = H /\ out' = out
  BY <1>1, <1>4
<1>. QED BY <1>2, <1>3, <1>4, Steps, OthersStay

(* Whatever the capacity and the number of calls, every behaviour of the   *)
(* ring is one of a FIFO queue of at most N values: pop returns what was   *)
(* pushed, each value once and in order, and push only refuses when it     *)
(* knows of N values in the ring (spsc.rs:41-64).                          *)
THEOREM Refines ==
  ASSUME NAssumption, CallsAssumption PROVE Spec => SpscIsAFifo
<1>1. Init => Counted
  BY InitInv, Locations DEF Init, CoreInit, WMInit, Counted, T, Last, P, Thread,
       CallsAssumption
<1>2. Spec => []Counted
  BY <1>1, Inductive, CountedStep, PTL DEF Spec
<1>3. Init => Queue!Init
  BY InitInv, QueueInit
<1>4. Inv => IsARun
  BY RingIsARun
<1>. QED BY <1>2, <1>3, <1>4, Inductive, QueueStep, PTL DEF Spec, SpscIsAFifo
=============================================================================
