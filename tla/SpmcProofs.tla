----------------------------- MODULE SpmcProofs -----------------------------
(***************************************************************************)
(* The seqlock and the broadcast ring in the view-based memory, for any    *)
(* capacity and any number of readers and calls: an accepted snapshot is   *)
(* one write, whole, and the one its stamp announces.                      *)
(***************************************************************************)
EXTENDS Spmc, Integers, SequenceTheorems, TLAPS

Local == {"i", "st", "s1", "a", "b"}
Sight == [Clock -> Nat \ {0}]
Message == [val : Nat, rview : Sight]
WriterLabel == {"idle", "load_stamp", "mark_odd", "release", "write_a", "write_b", "mark_even", "advance"}
ReaderLabel == {"idle", "read_a", "read_b", "acquire", "second_stamp"}

TypeOK ==
  /\ hist \in [Loc -> Seq(Message)]
  /\ \A l \in Loc : hist[l] # <<>>
  /\ cur \in [Thread -> Sight] /\ acq \in [Thread -> Sight] /\ rel \in [Thread -> Sight]
  /\ pc \in [Thread -> WriterLabel \cup ReaderLabel]
  /\ pc[Writer] \in WriterLabel /\ \A th \in Reader : pc[th] \in ReaderLabel
  /\ reg \in [Thread -> [Local -> Nat]]
  /\ calls \in [Thread -> Nat]
  /\ out \in [Thread -> Seq([Local -> Nat])]

(* What the n-th write of slot s puts into its words.                      *)
Written(s, n) == IF n = 0 THEN 0 ELSE (n - 1) * N + s + 1

(* The messages of a stamp count up.  The even one that ends write k       *)
(* releases the words of that write; a word of write n was stored after a  *)
(* release fence that knew the odd stamp of that write.                    *)
StampMessage(s, j, m) ==
  m.val = j - 1 /\ \A k \in Nat : j = 2 * k + 1 => m.rview[a(s)] > k /\ m.rview[b(s)] > k
WordMessage(s, j, m) ==
  m.val = Written(s, j - 1) /\ m.rview[stamp(s)] >= 2 * (j - 1)
Messages ==
  /\ \A j \in 1..Last(next) : hist[next][j].val = j - 1
  /\ \A s \in Slots :
       /\ \A j \in 1..Last(stamp(s)) : StampMessage(s, j, hist[stamp(s)][j])
       /\ \A j \in 1..Last(a(s)) : WordMessage(s, j, hist[a(s)][j])
       /\ \A j \in 1..Last(b(s)) : WordMessage(s, j, hist[b(s)][j])

(* The writer's slot, the writes of each slot and of all that are done.    *)
Here == reg[Writer].i % N
Done(s) == (Last(stamp(s)) - 1) \div 2
Finished == IF pc[Writer] \in {"idle", "advance"} THEN calls[Writer] ELSE calls[Writer] - 1

(* How far the write of slot s that is going on has come: one more message *)
(* of a location that it has stored to, and none elsewhere.                *)
At(s, labels) == IF s = Here /\ pc[Writer] \in labels THEN 2 ELSE 1
Phases ==
  \A s \in Slots :
    /\ Last(stamp(s)) = 2 * Done(s) + At(s, {"release", "write_a", "write_b", "mark_even"})
    /\ Last(a(s)) = Done(s) + At(s, {"write_b", "mark_even"})
    /\ Last(b(s)) = Done(s) + At(s, {"mark_even"})

(* The slots are written in turn: the next write of slot s will be the     *)
(* first one that is not done and is s modulo N.                           *)
Turns == \A s \in Slots : N * Done(s) + s >= Finished /\ N * Done(s) + s < Finished + N

WriterKnows ==
  /\ \A l \in Loc : cur[Writer][l] = Last(l)
  /\ pc[Writer] # "idle" => calls[Writer] > 0 /\ Here = (calls[Writer] - 1) % N
  /\ Ring => Last(next) = IF pc[Writer] = "idle" THEN calls[Writer] + 1 ELSE calls[Writer]
  /\ Ring /\ pc[Writer] # "idle" => reg[Writer].i = calls[Writer] - 1
  /\ pc[Writer] = "advance" => Ring
  /\ pc[Writer] = "mark_odd" => Last(stamp(Here)) = reg[Writer].st + 1
  /\ pc[Writer] \in {"release", "write_a", "write_b", "mark_even"} =>
       Last(stamp(Here)) = reg[Writer].st + 2
  /\ pc[Writer] \in {"write_a", "write_b"} => rel[Writer][stamp(Here)] = Last(stamp(Here))

(* x is a word of slot s, of write m or of a later one, and V knows the    *)
(* odd stamp of the write it is of.                                        *)
Word(s, m, x, V) == \E n \in Nat : m <= n /\ x = Written(s, n) /\ V[stamp(s)] >= 2 * n

(* A reader that has read the even stamp of write m knows the words of     *)
(* that write, and the words it has read are no older; what they say of    *)
(* the stamp, it knows after the acquire fence.                            *)
Snapshot(th, m) ==
  LET r == reg[th]
      V == IF pc[th] = "second_stamp" THEN cur[th] ELSE acq[th]
  IN /\ r.s1 = 2 * m
     /\ pc[th] \in {"read_a", "read_b"} => cur[th][a(r.i)] > m /\ cur[th][b(r.i)] > m
     /\ pc[th] # "read_a" => Word(r.i, m, r.a, V)
     /\ pc[th] \in {"acquire", "second_stamp"} => Word(r.i, m, r.b, V)
ReadersKnow ==
  \A th \in Reader : reg[th].i \in Slots /\ (pc[th] # "idle" => \E m \in Nat : Snapshot(th, m))

Inv == TypeOK /\ Messages /\ Phases /\ Turns /\ WriterKnows /\ ReadersKnow /\ AcceptedIsWhole
-----------------------------------------------------------------------------
LEMMA Division ==
  ASSUME SpmcAssumption, NEW k \in Nat
  PROVE  k = N * (k \div N) + (k % N) /\ k % N \in Slots /\ k \div N \in Nat
BY SMTT(30) DEF SpmcAssumption, Slots

LEMMA SlotOf ==
  ASSUME SpmcAssumption, NEW k \in Nat
  PROVE  /\ k \in Slots => k % N = k
         /\ k % N \in Slots /\ stamp(k) = stamp(k % N) /\ a(k) = a(k % N) /\ b(k) = b(k % N)
<1>1. k \in Slots => k % N = k
  BY SMTT(30) DEF SpmcAssumption, Slots
<1>2. k % N \in Slots
  BY Division
<1>3. (k % N) % N = k % N
  BY <1>2, SMTT(30) DEF SpmcAssumption, Slots
<1>. QED BY <1>1, <1>2, <1>3 DEF stamp, a, b

LEMMA Locations ==
  ASSUME SpmcAssumption
  PROVE  /\ Clock = Loc
         /\ next \in Loc
         /\ \A s \in Slots : stamp(s) \in Loc /\ a(s) \in Loc /\ b(s) \in Loc
         /\ \A s \in Slots : stamp(s) # next /\ a(s) # next /\ b(s) # next
         /\ \A s, t \in Slots : stamp(s) # a(t) /\ stamp(s) # b(t) /\ a(s) # b(t)
         /\ \A s, t \in Slots : /\ stamp(s) = stamp(t) => s = t
                                /\ a(s) = a(t) => s = t
                                /\ b(s) = b(t) => s = t
<1>1. Clock = Loc /\ next \in Loc
  BY DEF Clock, Cell, Loc
<1>2. \A s \in Slots : stamp(s) \in Loc /\ a(s) \in Loc /\ b(s) \in Loc
  BY DEF Loc
<1>3. /\ \A s \in Slots : stamp(s) # next /\ a(s) # next /\ b(s) # next
      /\ \A s, t \in Slots : stamp(s) # a(t) /\ stamp(s) # b(t) /\ a(s) # b(t)
  BY DEF stamp, a, b, next
<1>4. ASSUME NEW s \in Slots, NEW t \in Slots
      PROVE  (stamp(s) = stamp(t) => s = t) /\ (a(s) = a(t) => s = t) /\ (b(s) = b(t) => s = t)
  <2>1. s % N = s /\ t % N = t
    BY SlotOf DEF Slots, SpmcAssumption
  <2>. QED BY <2>1 DEF stamp, a, b
<1>. QED BY <1>1, <1>2, <1>3, <1>4

(* The only turn a slot has among N in a row.                              *)
LEMMA OneTurn ==
  ASSUME SpmcAssumption, NEW d \in Nat, NEW f \in Nat, NEW s \in Slots,
         N * d + s >= f, N * d + s < f + N
  PROVE  s = f % N <=> N * d + s = f
<1>. DEFINE q == f \div N
            t == f % N
<1>1. f = N * q + t /\ t \in Slots /\ q \in Nat
  BY Division
<1>. HIDE DEF q, t
<1>2. ASSUME NEW x \in Nat, NEW y \in Nat, x < y PROVE N * y >= N * x + N
  <2>1. PICK z \in Nat : y = x + 1 + z
    BY <1>2
  <2>2. N * y = N * x + N + N * z /\ N * z \in Nat
    BY <2>1 DEF SpmcAssumption
  <2>. QED BY <2>2 DEF SpmcAssumption
<1>3. N * d \in Nat /\ N * q \in Nat /\ N \in Nat
  BY <1>1 DEF SpmcAssumption
<1>4. ASSUME s = t PROVE N * d + s = f
  <2>1. ~(d < q)
    BY <1>1, <1>2, <1>3, <1>4 DEF Slots
  <2>2. ~(q < d)
    BY <1>1, <1>2, <1>3, <1>4 DEF Slots
  <2>. QED BY <1>1, <1>4, <2>1, <2>2
<1>5. ASSUME N * d + s = f PROVE s = t
  <2>1. ~(d < q) /\ ~(q < d)
    BY <1>1, <1>2, <1>3, <1>5 DEF Slots
  <2>. QED BY <1>1, <1>3, <1>5, <2>1 DEF Slots
<1>. QED BY <1>4, <1>5 DEF t

LEMMA Seen ==
  ASSUME SpmcAssumption, NEW V \in Sight, NEW l \in Loc, NEW i \in Nat \ {0}
  PROVE  /\ seen(V, l, i) \in Sight
         /\ seen(V, l, i)[l] = IF V[l] < i THEN i ELSE V[l]
         /\ \A x \in Loc \ {l} : seen(V, l, i)[x] = V[x]
         /\ \A x \in Loc : seen(V, l, i)[x] >= V[x]
BY Locations DEF Sight, seen

LEMMA Joined ==
  ASSUME SpmcAssumption, NEW V \in Sight, NEW U \in Sight
  PROVE  join(V, U) \in Sight /\ \A x \in Loc : join(V, U)[x] >= V[x] /\ join(V, U)[x] >= U[x]
BY Locations DEF Sight, join

LEMMA Loaded ==
  ASSUME SpmcAssumption, Inv, NEW V \in Sight, NEW l \in Loc, NEW i \in 1..Last(l),
         NEW o \in {"Relaxed", "Acquire"}
  PROVE  /\ loadView(V, l, i, o) \in Sight
         /\ \A x \in Loc : loadView(V, l, i, o)[x] >= V[x]
         /\ o = "Relaxed" => loadView(V, l, i, o) = seen(V, l, i)
         /\ o = "Acquire" => \A x \in Loc : loadView(V, l, i, o)[x] >= hist[l][i].rview[x]
<1>1. i \in Nat \ {0} /\ hist[l][i] \in Message
  BY DEF Inv, TypeOK, Last
<1>. DEFINE U == seen(V, l, i)
            K == hist[l][i].rview
<1>2. U \in Sight /\ (\A x \in Loc : U[x] >= V[x]) /\ K \in Sight
  BY <1>1, Seen DEF Message
<1>3. \A x \in Loc : U[x] \in Nat /\ V[x] \in Nat
  BY <1>2, Locations DEF Sight
<1>4. CASE o = "Relaxed"
  BY <1>2, <1>4 DEF loadView, Acquires
<1>5. CASE o = "Acquire"
  <2>1. loadView(V, l, i, o) = join(U, K)
    BY <1>5 DEF loadView, Acquires
  <2>. HIDE DEF U, K
  <2>2. join(U, K) \in Sight /\ \A x \in Loc : join(U, K)[x] >= U[x] /\ join(U, K)[x] >= K[x]
    BY <1>2, Joined
  <2>3. \A x \in Loc : join(U, K)[x] \in Nat
    BY <2>2, Locations DEF Sight
  <2>4. \A x \in Loc : join(U, K)[x] >= V[x]
    BY <1>2, <1>3, <2>2, <2>3
  <2>. QED BY <1>5, <2>1, <2>2, <2>4 DEF K
<1>. QED BY <1>4, <1>5
-----------------------------------------------------------------------------
(* A step of a reader changes nothing but what is its own.                 *)
ReaderFrame(th) ==
  /\ hist' = hist /\ rel' = rel
  /\ \A t \in Thread \ {th} : /\ cur'[t] = cur[t] /\ acq'[t] = acq[t] /\ pc'[t] = pc[t]
                              /\ reg'[t] = reg[t] /\ calls'[t] = calls[t]

LEMMA ReaderStep ==
  ASSUME SpmcAssumption, Inv, NEW th \in Reader, ReaderFrame(th), AcceptedIsWhole',
         cur' \in [Thread -> Sight], acq' \in [Thread -> Sight], calls' \in [Thread -> Nat],
         pc' \in [Thread -> WriterLabel \cup ReaderLabel], reg' \in [Thread -> [Local -> Nat]],
         out' \in [Thread -> Seq([Local -> Nat])],
         pc'[th] \in ReaderLabel, reg'[th].i \in Slots,
         pc'[th] # "idle" => \E m \in Nat : Snapshot(th, m)'
  PROVE  Inv'
<1>1. Writer \in Thread \ {th}
  BY DEF SpmcAssumption, Thread
<1>2. /\ hist' = hist /\ rel' = rel /\ cur'[Writer] = cur[Writer] /\ pc'[Writer] = pc[Writer]
      /\ reg'[Writer] = reg[Writer] /\ calls'[Writer] = calls[Writer]
  BY <1>1 DEF ReaderFrame
<1>3. Here' = Here /\ Finished' = Finished /\ (\A l \in Loc : Last(l)' = Last(l))
      /\ \A s \in Slots : Done(s)' = Done(s)
  BY <1>2 DEF Here, Finished, Last, Done
<1>4. TypeOK'
  <2>1. \A t \in Reader : pc'[t] \in ReaderLabel
    BY DEF ReaderFrame, Inv, TypeOK, Thread
  <2>. QED BY <1>2, <2>1 DEF Inv, TypeOK
<1>5. Messages'
  BY <1>2 DEF Inv, Messages, StampMessage, WordMessage, Last
<1>6. Phases' /\ Turns'
  BY <1>2, <1>3, Locations DEF Inv, Phases, Turns, At, Done, Last
<1>7. WriterKnows'
  BY <1>2, <1>3 DEF Inv, WriterKnows, Last
<1>8. ReadersKnow'
  <2>1. SUFFICES ASSUME NEW t \in Reader \ {th}
                 PROVE  reg'[t].i \in Slots /\ (pc'[t] # "idle" => \E m \in Nat : Snapshot(t, m)')
    BY DEF ReadersKnow
  <2>2. cur'[t] = cur[t] /\ acq'[t] = acq[t] /\ pc'[t] = pc[t] /\ reg'[t] = reg[t]
    BY <2>1 DEF ReaderFrame, Thread
  <2>3. \A m \in Nat : Snapshot(t, m)' <=> Snapshot(t, m)
    BY <2>2 DEF Snapshot, Word
  <2>. QED BY <2>1, <2>2, <2>3 DEF Inv, ReadersKnow
<1>. QED BY <1>4, <1>5, <1>6, <1>7, <1>8 DEF Inv

LEMMA Even == \A i \in Nat \ {0} : (i - 1) % 2 # 1 => \E m \in Nat : i - 1 = 2 * m
<1>1. SUFFICES ASSUME NEW i \in Nat \ {0}, (i - 1) % 2 # 1 PROVE \E m \in Nat : i - 1 = 2 * m
  OBVIOUS
<1>2. i - 1 = 2 * ((i - 1) \div 2) /\ (i - 1) \div 2 \in Nat
  BY <1>1
<1>. QED BY <1>2

(* What reading a word or a stamp tells a reader.                          *)
LEMMA ReaderLoads ==
  ASSUME SpmcAssumption, Inv, NEW th \in Reader, NEW l \in Loc, NEW i \in canLoad(th, l),
         NEW o \in {"Relaxed", "Acquire"}, Load(th, l, i, o)
  PROVE  /\ i \in 1..Last(l) /\ i >= cur[th][l] /\ val(l, i) \in Nat
         /\ cur' \in [Thread -> Sight] /\ acq' \in [Thread -> Sight]
         /\ hist' = hist /\ rel' = rel
         /\ \A t \in Thread \ {th} : cur'[t] = cur[t] /\ acq'[t] = acq[t]
         /\ \A x \in Loc : cur'[th][x] >= cur[th][x] /\ acq'[th][x] >= acq[th][x]
         /\ \A x \in Loc : acq'[th][x] >= hist[l][i].rview[x]
         /\ o = "Acquire" => \A x \in Loc : cur'[th][x] >= hist[l][i].rview[x]
<1>1. th \in Thread /\ cur[th] \in Sight /\ acq[th] \in Sight
  BY DEF Inv, TypeOK, Thread
<1>2. i \in 1..Last(l) /\ i >= cur[th][l]
  <2>1. Last(l) \in Nat /\ cur[th][l] \in Nat \ {0}
    BY <1>1, Locations DEF Inv, TypeOK, Sight, Last
  <2>. QED BY <2>1 DEF canLoad
<1>3. val(l, i) \in Nat
  <2>1. hist[l][i] \in Message
    BY <1>2 DEF Inv, TypeOK, Last
  <2>. QED BY <2>1 DEF Message, val
<1>4. /\ cur' = [cur EXCEPT ![th] = loadView(cur[th], l, i, o)]
      /\ acq' = [acq EXCEPT ![th] = loadView(acq[th], l, i, "Acquire")]
      /\ hist' = hist /\ rel' = rel
  BY DEF Load
<1>5. /\ loadView(cur[th], l, i, o) \in Sight
      /\ \A x \in Loc : loadView(cur[th], l, i, o)[x] >= cur[th][x]
      /\ o = "Acquire" => \A x \in Loc : loadView(cur[th], l, i, o)[x] >= hist[l][i].rview[x]
  BY <1>1, <1>2, Loaded
<1>6. /\ loadView(acq[th], l, i, "Acquire") \in Sight
      /\ \A x \in Loc : loadView(acq[th], l, i, "Acquire")[x] >= acq[th][x]
      /\ \A x \in Loc : loadView(acq[th], l, i, "Acquire")[x] >= hist[l][i].rview[x]
  BY <1>1, <1>2, Loaded
<1>7. /\ cur' \in [Thread -> Sight] /\ acq' \in [Thread -> Sight]
      /\ cur'[th] = loadView(cur[th], l, i, o) /\ acq'[th] = loadView(acq[th], l, i, "Acquire")
      /\ \A t \in Thread \ {th} : cur'[t] = cur[t] /\ acq'[t] = acq[t]
  BY <1>1, <1>4, <1>5, <1>6 DEF Inv, TypeOK
<1>. QED BY <1>2, <1>3, <1>4, <1>5, <1>6, <1>7

LEMMA FirstStampStep == ASSUME SpmcAssumption, Inv, NEW th \in Reader, FirstStamp(th) PROVE Inv'
<1>1. PICK s \in Slots : \E i \in canLoad(th, stamp(s)) :
        /\ Load(th, stamp(s), i, "Acquire")
        /\ reg' = [reg EXCEPT ![th].i = s, ![th].s1 = val(stamp(s), i)]
  BY DEF FirstStamp
<1>2. PICK i \in canLoad(th, stamp(s)) :
        /\ Load(th, stamp(s), i, "Acquire")
        /\ reg' = [reg EXCEPT ![th].i = s, ![th].s1 = val(stamp(s), i)]
  BY <1>1
<1>3. stamp(s) \in Loc /\ a(s) \in Loc /\ b(s) \in Loc /\ s \in Nat /\ th \in Thread
  BY Locations DEF Slots, Thread, SpmcAssumption
<1>4. /\ i \in 1..Last(stamp(s)) /\ val(stamp(s), i) \in Nat
      /\ cur' \in [Thread -> Sight] /\ acq' \in [Thread -> Sight] /\ hist' = hist /\ rel' = rel
      /\ \A t \in Thread \ {th} : cur'[t] = cur[t] /\ acq'[t] = acq[t]
      /\ \A x \in Loc : cur'[th][x] >= hist[stamp(s)][i].rview[x]
  BY <1>2, <1>3, ReaderLoads
<1>5. StampMessage(s, i, hist[stamp(s)][i]) /\ hist[stamp(s)][i] \in Message
  BY <1>3, <1>4 DEF Inv, Messages, TypeOK, Last
<1>6. /\ reg' \in [Thread -> [Local -> Nat]] /\ reg'[th].i = s /\ reg'[th].s1 = i - 1
      /\ \A t \in Thread \ {th} : reg'[t] = reg[t]
  BY <1>2, <1>3, <1>4, <1>5 DEF Inv, TypeOK, Local, StampMessage, val
<1>7. /\ pc' = [pc EXCEPT ![th] = IF (i - 1) % 2 = 1 THEN "idle" ELSE "read_a"]
      /\ calls' = [calls EXCEPT ![th] = @ + 1] /\ out' = out
  BY <1>6 DEF FirstStamp, Goto, Call
<1>8. /\ pc' \in [Thread -> WriterLabel \cup ReaderLabel] /\ calls' \in [Thread -> Nat]
      /\ pc'[th] = IF (i - 1) % 2 = 1 THEN "idle" ELSE "read_a"
      /\ \A t \in Thread \ {th} : pc'[t] = pc[t] /\ calls'[t] = calls[t]
  BY <1>3, <1>7 DEF Inv, TypeOK, ReaderLabel
<1>9. ASSUME pc'[th] # "idle" PROVE \E m \in Nat : Snapshot(th, m)'
  <2>1. i \in Nat \ {0} /\ (i - 1) % 2 # 1 /\ pc'[th] = "read_a"
    BY <1>4, <1>8, <1>9
  <2>2. PICK m \in Nat : i - 1 = 2 * m
    BY <2>1, Even
  <2>3. hist[stamp(s)][i].rview[a(s)] > m /\ hist[stamp(s)][i].rview[b(s)] > m
    BY <2>1, <2>2, <1>5 DEF StampMessage
  <2>4. cur'[th][a(s)] > m /\ cur'[th][b(s)] > m
    <3>1. /\ cur'[th][a(s)] \in Nat /\ cur'[th][b(s)] \in Nat
          /\ hist[stamp(s)][i].rview[a(s)] \in Nat /\ hist[stamp(s)][i].rview[b(s)] \in Nat
      BY <1>3, <1>4, <1>5, Locations DEF Sight, Message
    <3>. QED BY <1>3, <1>4, <2>3, <3>1
  <2>5. Snapshot(th, m)'
    BY <1>6, <2>1, <2>2, <2>4 DEF Snapshot
  <2>. QED BY <2>5
<1>10. ReaderFrame(th) /\ AcceptedIsWhole'
  BY <1>4, <1>6, <1>7, <1>8 DEF ReaderFrame, Inv, AcceptedIsWhole
<1>11. out' \in [Thread -> Seq([Local -> Nat])] /\ pc'[th] \in ReaderLabel
  BY <1>7, <1>8 DEF Inv, TypeOK, ReaderLabel
<1>. QED BY <1>4, <1>6, <1>8, <1>9, <1>10, <1>11, ReaderStep

(* A word that a reader loads is of the write of its stamp or of a later   *)
(* one, and brings the odd stamp of its write.                             *)
LEMMA WordLoaded ==
  ASSUME SpmcAssumption, Inv, NEW th \in Reader, NEW s \in Slots, NEW l \in {a(s), b(s)},
         NEW i \in canLoad(th, l), Load(th, l, i, "Relaxed"), NEW m \in Nat, cur[th][l] > m
  PROVE  Word(s, m, val(l, i), acq'[th])
<1>1. l \in Loc /\ stamp(s) \in Loc /\ th \in Thread
  BY Locations DEF Thread
<1>2. /\ i \in 1..Last(l) /\ i >= cur[th][l] /\ acq' \in [Thread -> Sight]
      /\ acq'[th][stamp(s)] >= hist[l][i].rview[stamp(s)]
  BY <1>1, ReaderLoads
<1>3. WordMessage(s, i, hist[l][i]) /\ hist[l][i] \in Message
  BY <1>1, <1>2 DEF Inv, Messages, TypeOK, Last
<1>4. cur[th][l] \in Nat /\ hist[l][i].rview[stamp(s)] \in Nat /\ acq'[th][stamp(s)] \in Nat
  <2>1. cur[th] \in Sight /\ hist[l][i].rview \in Sight /\ acq'[th] \in Sight
    BY <1>1, <1>2, <1>3 DEF Inv, TypeOK, Message
  <2>. QED BY <1>1, <2>1, Locations DEF Sight
<1>5. i - 1 \in Nat /\ m <= i - 1 /\ acq'[th][stamp(s)] >= 2 * (i - 1)
  BY <1>2, <1>3, <1>4 DEF WordMessage
<1>6. val(l, i) = Written(s, i - 1)
  BY <1>3 DEF WordMessage, val
<1>. QED BY <1>5, <1>6 DEF Word

LEMMA WordKept ==
  ASSUME SpmcAssumption, NEW s \in Slots, NEW m \in Nat, NEW x, NEW V \in Sight, NEW U \in Sight,
         Word(s, m, x, V), U[stamp(s)] >= V[stamp(s)]
  PROVE  Word(s, m, x, U)
<1>1. V[stamp(s)] \in Nat /\ U[stamp(s)] \in Nat
  BY Locations DEF Sight
<1>. QED BY <1>1 DEF Word

LEMMA ReadAStep == ASSUME SpmcAssumption, Inv, NEW th \in Reader, ReadA(th) PROVE Inv'
<1>. DEFINE s == reg[th].i
<1>1. PICK i \in canLoad(th, a(s)) : Load(th, a(s), i, "Relaxed") /\ Set(th, "a", val(a(s), i))
  BY DEF ReadA, LoadInto
<1>2. /\ s \in Slots /\ s \in Nat /\ th \in Thread
      /\ stamp(s) \in Loc /\ a(s) \in Loc /\ b(s) \in Loc
  BY Locations DEF Inv, ReadersKnow, Thread, Slots, SpmcAssumption
<1>3. PICK m \in Nat : Snapshot(th, m)
  BY DEF ReadA, From, Inv, ReadersKnow
<1>4. pc[th] = "read_a" /\ reg[th].s1 = 2 * m /\ cur[th][a(s)] > m /\ cur[th][b(s)] > m
  BY <1>3 DEF ReadA, From, Snapshot
<1>5. /\ val(a(s), i) \in Nat
      /\ cur' \in [Thread -> Sight] /\ acq' \in [Thread -> Sight] /\ hist' = hist /\ rel' = rel
      /\ \A t \in Thread \ {th} : cur'[t] = cur[t] /\ acq'[t] = acq[t]
      /\ \A x \in Loc : cur'[th][x] >= cur[th][x]
  BY <1>1, <1>2, ReaderLoads
<1>6. Word(s, m, val(a(s), i), acq'[th])
  BY <1>1, <1>2, <1>4, WordLoaded
<1>7. /\ reg' \in [Thread -> [Local -> Nat]] /\ \A t \in Thread \ {th} : reg'[t] = reg[t]
      /\ reg'[th].i = s /\ reg'[th].s1 = 2 * m /\ reg'[th].a = val(a(s), i)
  BY <1>1, <1>2, <1>4, <1>5 DEF Inv, TypeOK, Local, Set
<1>8. /\ pc' \in [Thread -> WriterLabel \cup ReaderLabel] /\ pc'[th] = "read_b"
      /\ \A t \in Thread \ {th} : pc'[t] = pc[t]
      /\ calls' = calls /\ out' = out
  BY <1>2 DEF ReadA, Goto, From, Inv, TypeOK, ReaderLabel
<1>9. cur'[th][b(s)] > m /\ cur'[th][a(s)] > m
  <2>1. /\ cur'[th][b(s)] \in Nat /\ cur[th][b(s)] \in Nat
        /\ cur'[th][a(s)] \in Nat /\ cur[th][a(s)] \in Nat
    BY <1>2, <1>5, Locations DEF Inv, TypeOK, Sight
  <2>. QED BY <1>2, <1>4, <1>5, <2>1
<1>10. Snapshot(th, m)'
  BY <1>6, <1>7, <1>8, <1>9 DEF Snapshot
<1>11. ReaderFrame(th) /\ AcceptedIsWhole'
  BY <1>5, <1>7, <1>8 DEF ReaderFrame, Inv, AcceptedIsWhole
<1>12. /\ out' \in [Thread -> Seq([Local -> Nat])] /\ pc'[th] \in ReaderLabel
       /\ calls' \in [Thread -> Nat]
  BY <1>8 DEF Inv, TypeOK, ReaderLabel
<1>. QED BY <1>2, <1>5, <1>7, <1>8, <1>10, <1>11, <1>12, ReaderStep

LEMMA ReadBStep == ASSUME SpmcAssumption, Inv, NEW th \in Reader, ReadB(th) PROVE Inv'
<1>. DEFINE s == reg[th].i
<1>1. PICK i \in canLoad(th, b(s)) : Load(th, b(s), i, "Relaxed") /\ Set(th, "b", val(b(s), i))
  BY DEF ReadB, LoadInto
<1>2. /\ s \in Slots /\ s \in Nat /\ th \in Thread
      /\ stamp(s) \in Loc /\ a(s) \in Loc /\ b(s) \in Loc
  BY Locations DEF Inv, ReadersKnow, Thread, Slots, SpmcAssumption
<1>3. PICK m \in Nat : Snapshot(th, m)
  BY DEF ReadB, From, Inv, ReadersKnow
<1>4. /\ pc[th] = "read_b" /\ reg[th].s1 = 2 * m /\ cur[th][b(s)] > m
      /\ Word(s, m, reg[th].a, acq[th])
  BY <1>3 DEF ReadB, From, Snapshot
<1>5. /\ val(b(s), i) \in Nat
      /\ cur' \in [Thread -> Sight] /\ acq' \in [Thread -> Sight] /\ hist' = hist /\ rel' = rel
      /\ \A t \in Thread \ {th} : cur'[t] = cur[t] /\ acq'[t] = acq[t]
      /\ \A x \in Loc : acq'[th][x] >= acq[th][x]
  BY <1>1, <1>2, ReaderLoads
<1>6. Word(s, m, val(b(s), i), acq'[th])
  BY <1>1, <1>2, <1>4, WordLoaded
<1>7. /\ reg' \in [Thread -> [Local -> Nat]] /\ \A t \in Thread \ {th} : reg'[t] = reg[t]
      /\ reg'[th].i = s /\ reg'[th].s1 = 2 * m
      /\ reg'[th].a = reg[th].a /\ reg'[th].b = val(b(s), i)
  BY <1>1, <1>2, <1>4, <1>5 DEF Inv, TypeOK, Local, Set
<1>8. /\ pc' \in [Thread -> WriterLabel \cup ReaderLabel] /\ pc'[th] = "acquire"
      /\ \A t \in Thread \ {th} : pc'[t] = pc[t]
      /\ calls' = calls /\ out' = out
  BY <1>2 DEF ReadB, Goto, From, Inv, TypeOK, ReaderLabel
<1>9. Word(s, m, reg[th].a, acq'[th])
  <2>1. acq[th] \in Sight /\ acq'[th] \in Sight /\ acq'[th][stamp(s)] >= acq[th][stamp(s)]
    BY <1>2, <1>5 DEF Inv, TypeOK
  <2>. QED BY <1>2, <1>4, <2>1, WordKept
<1>10. Snapshot(th, m)'
  BY <1>6, <1>7, <1>8, <1>9 DEF Snapshot
<1>11. ReaderFrame(th) /\ AcceptedIsWhole'
  BY <1>5, <1>7, <1>8 DEF ReaderFrame, Inv, AcceptedIsWhole
<1>12. /\ out' \in [Thread -> Seq([Local -> Nat])] /\ pc'[th] \in ReaderLabel
       /\ calls' \in [Thread -> Nat]
  BY <1>8 DEF Inv, TypeOK, ReaderLabel
<1>. QED BY <1>2, <1>5, <1>7, <1>8, <1>10, <1>11, <1>12, ReaderStep

LEMMA AcquireStep == ASSUME SpmcAssumption, Inv, NEW th \in Reader, Acquire(th) PROVE Inv'
<1>1. th \in Thread
  BY DEF Thread
<1>2. PICK m \in Nat : Snapshot(th, m)
  BY DEF Acquire, From, Inv, ReadersKnow
<1>3. /\ pc[th] = "acquire" /\ reg[th].s1 = 2 * m /\ Word(reg[th].i, m, reg[th].a, acq[th])
      /\ Word(reg[th].i, m, reg[th].b, acq[th])
  BY <1>2 DEF Acquire, From, Snapshot
<1>4. /\ cur' = [cur EXCEPT ![th] = acq[th]] /\ pc' = [pc EXCEPT ![th] = "second_stamp"]
      /\ hist' = hist /\ acq' = acq /\ rel' = rel /\ reg' = reg /\ calls' = calls /\ out' = out
  BY DEF Acquire, AcquireFence, FenceAcquire, Goto, From
<1>5. /\ cur' \in [Thread -> Sight] /\ pc' \in [Thread -> WriterLabel \cup ReaderLabel]
      /\ cur'[th] = acq[th] /\ pc'[th] = "second_stamp" /\ pc'[th] \in ReaderLabel
      /\ \A t \in Thread \ {th} : cur'[t] = cur[t] /\ pc'[t] = pc[t]
  BY <1>1, <1>4 DEF Inv, TypeOK, ReaderLabel
<1>6. Snapshot(th, m)'
  BY <1>3, <1>4, <1>5 DEF Snapshot
<1>7. ReaderFrame(th) /\ AcceptedIsWhole'
  BY <1>4, <1>5 DEF ReaderFrame, Inv, AcceptedIsWhole
<1>8. reg'[th].i \in Slots
  BY <1>4 DEF Inv, ReadersKnow
<1>. QED BY <1>4, <1>5, <1>6, <1>7, <1>8, ReaderStep DEF Inv, TypeOK

(* A stamp that is the same again leaves no room for words of a later      *)
(* write: their odd stamp would have been read instead.                    *)
LEMMA SecondStampStep == ASSUME SpmcAssumption, Inv, NEW th \in Reader, SecondStamp(th) PROVE Inv'
<1>. DEFINE r == reg[th]
            s == reg[th].i
<1>1. PICK i \in canLoad(th, stamp(s)) :
        /\ Load(th, stamp(s), i, "Relaxed")
        /\ out' = IF val(stamp(s), i) = r.s1 THEN [out EXCEPT ![th] = Append(@, r)] ELSE out
  BY DEF SecondStamp
<1>2. /\ s \in Slots /\ s \in Nat /\ th \in Thread /\ stamp(s) \in Loc /\ r \in [Local -> Nat]
  BY Locations DEF Inv, TypeOK, ReadersKnow, Thread, Slots, SpmcAssumption
<1>3. PICK m \in Nat : Snapshot(th, m)
  BY DEF SecondStamp, From, Inv, ReadersKnow
<1>4. /\ pc[th] = "second_stamp" /\ r.s1 = 2 * m
      /\ Word(s, m, r.a, cur[th]) /\ Word(s, m, r.b, cur[th])
  BY <1>3 DEF SecondStamp, From, Snapshot
<1>5. /\ i \in 1..Last(stamp(s)) /\ i >= cur[th][stamp(s)]
      /\ cur' \in [Thread -> Sight] /\ acq' \in [Thread -> Sight] /\ hist' = hist /\ rel' = rel
      /\ \A t \in Thread \ {th} : cur'[t] = cur[t] /\ acq'[t] = acq[t]
  BY <1>1, <1>2, ReaderLoads
<1>6. val(stamp(s), i) = i - 1
  BY <1>2, <1>5 DEF Inv, Messages, StampMessage, val
<1>7. ASSUME val(stamp(s), i) = r.s1
      PROVE  r.a = r.b /\ r.a = Announced(r.i, r.s1)
  <2>1. cur[th][stamp(s)] \in Nat /\ cur[th][stamp(s)] <= 2 * m + 1
    <3>1. cur[th] \in Sight
      BY <1>2 DEF Inv, TypeOK
    <3>2. cur[th][stamp(s)] \in Nat
      BY <1>2, <3>1, Locations DEF Sight
    <3>. QED BY <1>4, <1>5, <1>6, <1>7, <3>2
  <2>2. ASSUME NEW x, Word(s, m, x, cur[th]) PROVE x = Written(s, m)
    <3>1. PICK n \in Nat : m <= n /\ x = Written(s, n) /\ cur[th][stamp(s)] >= 2 * n
      BY <2>2 DEF Word
    <3>2. n = m
      BY <2>1, <3>1
    <3>. QED BY <3>1, <3>2
  <2>3. r.a = Written(s, m) /\ r.b = Written(s, m)
    BY <1>4, <2>2
  <2>4. Announced(s, 2 * m) = Written(s, m)
    <3>1. (2 * m) \div 2 = m /\ (2 * m = 0 <=> m = 0)
      OBVIOUS
    <3>. QED BY <3>1 DEF Announced, Written
  <2>. QED BY <1>4, <2>3, <2>4
<1>8. /\ pc' = [pc EXCEPT ![th] = "idle"] /\ calls' = calls /\ reg' = reg
  BY DEF SecondStamp, Goto, From
<1>9. /\ pc' \in [Thread -> WriterLabel \cup ReaderLabel] /\ pc'[th] = "idle"
      /\ \A t \in Thread \ {th} : pc'[t] = pc[t]
  BY <1>2, <1>8 DEF Inv, TypeOK, ReaderLabel
<1>10. out' \in [Thread -> Seq([Local -> Nat])] /\ AcceptedIsWhole'
  <2>1. CASE out' = out
    BY <2>1 DEF Inv, TypeOK, AcceptedIsWhole
  <2>2. CASE out' = [out EXCEPT ![th] = Append(out[th], r)] /\ val(stamp(s), i) = r.s1
    <3>1. out[th] \in Seq([Local -> Nat])
      BY <1>2 DEF Inv, TypeOK
    <3>2. out' \in [Thread -> Seq([Local -> Nat])]
      BY <1>2, <2>2, <3>1 DEF Inv, TypeOK
    <3>3. ASSUME NEW t \in Reader, NEW k \in DOMAIN out'[t]
          PROVE  out'[t][k].a = out'[t][k].b /\ out'[t][k].a = Announced(out'[t][k].i, out'[t][k].s1)
      <4>1. CASE t = th /\ k = Len(out[th]) + 1
        <5>1. out'[t][k] = r
          BY <1>2, <2>2, <3>1, <4>1 DEF Inv, TypeOK
        <5>. QED BY <1>7, <2>2, <5>1
      <4>2. CASE t = th /\ k # Len(out[th]) + 1
        <5>1. k \in DOMAIN out[t] /\ out'[t][k] = out[t][k]
          BY <1>2, <2>2, <3>1, <3>3, <4>2 DEF Inv, TypeOK
        <5>. QED BY <5>1 DEF Inv, AcceptedIsWhole
      <4>3. CASE t # th
        <5>1. out'[t] = out[t]
          BY <1>2, <2>2, <4>3 DEF Inv, TypeOK, Thread
        <5>. QED BY <3>3, <5>1 DEF Inv, AcceptedIsWhole
      <4>. QED BY <4>1, <4>2, <4>3
    <3>. QED BY <3>2, <3>3 DEF AcceptedIsWhole
  <2>. QED BY <1>1, <2>1, <2>2
<1>11. ReaderFrame(th)
  BY <1>5, <1>8, <1>9 DEF ReaderFrame
<1>12. pc'[th] \in ReaderLabel /\ reg'[th].i \in Slots /\ reg' \in [Thread -> [Local -> Nat]]
       /\ calls' \in [Thread -> Nat]
  BY <1>2, <1>8, <1>9 DEF ReaderLabel, Inv, TypeOK
<1>. QED BY <1>5, <1>9, <1>10, <1>11, <1>12, ReaderStep
-----------------------------------------------------------------------------
LEMMA Current ==
  ASSUME SpmcAssumption, Inv
  PROVE  /\ Writer \in Thread /\ reg[Writer] \in [Local -> Nat] /\ calls[Writer] \in Nat
         /\ cur[Writer] \in Sight /\ acq[Writer] \in Sight /\ rel[Writer] \in Sight
         /\ Here \in Slots /\ Here \in Nat
         /\ stamp(reg[Writer].i) = stamp(Here) /\ a(reg[Writer].i) = a(Here) /\ b(reg[Writer].i) = b(Here)
         /\ \A l \in Loc : Last(l) \in Nat \ {0} /\ cur[Writer][l] = Last(l)
         /\ \A s \in Slots : Done(s) \in Nat
<1>1. /\ Writer \in Thread /\ reg[Writer] \in [Local -> Nat] /\ calls[Writer] \in Nat
      /\ cur[Writer] \in Sight /\ acq[Writer] \in Sight /\ rel[Writer] \in Sight
  BY DEF Inv, TypeOK, Thread
<1>2. reg[Writer].i \in Nat
  BY <1>1 DEF Local
<1>3. \A l \in Loc : Last(l) \in Nat \ {0} /\ cur[Writer][l] = Last(l)
  BY DEF Inv, TypeOK, WriterKnows, Last
<1>4. \A s \in Slots : Done(s) \in Nat
  <2>1. ASSUME NEW x \in Nat \ {0} PROVE (x - 1) \div 2 \in Nat
    OBVIOUS
  <2>. QED BY <1>3, <2>1, Locations DEF Done
<1>5. Here \in Slots /\ Here \in Nat
  BY <1>2, SlotOf DEF Here, Slots, SpmcAssumption
<1>. QED BY <1>1, <1>2, <1>3, <1>4, <1>5, SlotOf DEF Here

(* A step of the writer leaves to the readers what is theirs.              *)
WriterFrame ==
  /\ \A t \in Reader : cur'[t] = cur[t] /\ acq'[t] = acq[t] /\ pc'[t] = pc[t] /\ reg'[t] = reg[t]
  /\ out' = out

LEMMA ReadersStay == ASSUME Inv, WriterFrame PROVE ReadersKnow' /\ AcceptedIsWhole'
<1>1. ASSUME NEW t \in Reader, NEW m \in Nat, Snapshot(t, m) PROVE Snapshot(t, m)'
  BY <1>1 DEF WriterFrame, Snapshot, Word
<1>2. ASSUME NEW t \in Reader
      PROVE  reg'[t].i \in Slots /\ (pc'[t] # "idle" => \E m \in Nat : Snapshot(t, m)')
  <2>1. reg[t].i \in Slots /\ (pc[t] # "idle" => \E m \in Nat : Snapshot(t, m))
    BY DEF Inv, ReadersKnow
  <2>. QED BY <1>1, <2>1 DEF WriterFrame
<1>3. ReadersKnow'
  BY <1>2 DEF ReadersKnow
<1>. QED BY <1>3 DEF WriterFrame, Inv, AcceptedIsWhole

(* The writer moves on to a label, with local variables r.                 *)
LEMMA WriterMoves ==
  ASSUME SpmcAssumption, Inv, NEW to \in WriterLabel, NEW r \in [Local -> Nat],
         pc' = [pc EXCEPT ![Writer] = to], reg' = [reg EXCEPT ![Writer] = r], out' = out,
         \A t \in Thread \ {Writer} : cur'[t] = cur[t] /\ acq'[t] = acq[t]
  PROVE  /\ WriterFrame /\ pc'[Writer] = to /\ reg'[Writer] = r
         /\ pc' \in [Thread -> WriterLabel \cup ReaderLabel] /\ reg' \in [Thread -> [Local -> Nat]]
         /\ \A t \in Reader : pc'[t] \in ReaderLabel
<1>1. Writer \in Thread /\ Reader \subseteq Thread \ {Writer}
  BY DEF Thread, SpmcAssumption
<1>2. /\ pc'[Writer] = to /\ reg'[Writer] = r
      /\ pc' \in [Thread -> WriterLabel \cup ReaderLabel] /\ reg' \in [Thread -> [Local -> Nat]]
      /\ \A t \in Thread \ {Writer} : pc'[t] = pc[t] /\ reg'[t] = reg[t]
  BY <1>1 DEF Inv, TypeOK
<1>3. \A t \in Reader : pc'[t] \in ReaderLabel
  BY <1>1, <1>2 DEF Inv, TypeOK
<1>. QED BY <1>1, <1>2, <1>3 DEF WriterFrame

LEMMA WriterLoads ==
  ASSUME SpmcAssumption, Inv, NEW l \in Loc, NEW i \in canLoad(Writer, l),
         Load(Writer, l, i, "Relaxed")
  PROVE  /\ i = Last(l) /\ i \in 1..Last(l)
         /\ hist' = hist /\ rel' = rel /\ \A x \in Loc : Last(x)' = Last(x)
         /\ cur' \in [Thread -> Sight] /\ acq' \in [Thread -> Sight]
         /\ \A x \in Loc : cur'[Writer][x] = Last(x)
         /\ \A t \in Thread \ {Writer} : cur'[t] = cur[t] /\ acq'[t] = acq[t]
<1>1. i = Last(l) /\ i \in 1..Last(l)
  BY Current DEF canLoad
<1>2. /\ cur' = [cur EXCEPT ![Writer] = loadView(cur[Writer], l, i, "Relaxed")]
      /\ acq' = [acq EXCEPT ![Writer] = loadView(acq[Writer], l, i, "Acquire")]
      /\ hist' = hist /\ rel' = rel
  BY DEF Load
<1>3. /\ loadView(cur[Writer], l, i, "Relaxed") = seen(cur[Writer], l, i)
      /\ loadView(cur[Writer], l, i, "Relaxed") \in Sight
      /\ loadView(acq[Writer], l, i, "Acquire") \in Sight
  BY <1>1, Current, Loaded
<1>4. \A x \in Loc : seen(cur[Writer], l, i)[x] = Last(x)
  <2>1. i \in Nat \ {0} /\ cur[Writer] \in Sight
    BY <1>1, Current
  <2>2. /\ seen(cur[Writer], l, i)[l] = IF cur[Writer][l] < i THEN i ELSE cur[Writer][l]
        /\ \A x \in Loc \ {l} : seen(cur[Writer], l, i)[x] = cur[Writer][x]
    BY <2>1, Seen
  <2>. QED BY <1>1, <2>2, Current
<1>5. /\ cur' \in [Thread -> Sight] /\ acq' \in [Thread -> Sight]
      /\ cur'[Writer] = seen(cur[Writer], l, i)
      /\ \A t \in Thread \ {Writer} : cur'[t] = cur[t] /\ acq'[t] = acq[t]
  BY <1>2, <1>3, Current DEF Inv, TypeOK
<1>. QED BY <1>1, <1>2, <1>4, <1>5 DEF Last

(* What the writer stores.                                                 *)
LEMMA Stored ==
  ASSUME SpmcAssumption, Inv, NEW l \in Loc, NEW v \in Nat, NEW o \in {"Relaxed", "Release"},
         Store(Writer, l, v, o)
  PROVE  /\ hist' \in [Loc -> Seq(Message)] /\ \A x \in Loc : hist'[x] # <<>>
         /\ Last(l)' = Last(l) + 1 /\ \A x \in Loc \ {l} : Last(x)' = Last(x) /\ hist'[x] = hist[x]
         /\ \A k \in 1..Last(l) : hist'[l][k] = hist[l][k]
         /\ hist'[l][Last(l) + 1] \in Message /\ hist'[l][Last(l) + 1].val = v
         /\ \A x \in Loc \ {l} : hist'[l][Last(l) + 1].rview[x] =
              IF o = "Release" THEN Last(x) ELSE rel[Writer][x]
         /\ rel' = rel
         /\ cur' \in [Thread -> Sight] /\ acq' \in [Thread -> Sight]
         /\ \A x \in Loc : cur'[Writer][x] = Last(x)'
         /\ \A t \in Thread \ {Writer} : cur'[t] = cur[t] /\ acq'[t] = acq[t]
<1>. DEFINE i == Last(l) + 1
            V == seen(cur[Writer], l, i)
            K == seen(released(Writer, V, o), l, i)
            m == [val |-> v, rview |-> K]
<1>1. /\ hist' = [hist EXCEPT ![l] = Append(hist[l], m)]
      /\ cur' = [cur EXCEPT ![Writer] = V]
      /\ acq' = [acq EXCEPT ![Writer] = seen(acq[Writer], l, i)]
      /\ rel' = rel
  BY DEF Store
<1>2. i \in Nat \ {0} /\ Last(l) \in Nat /\ hist[l] \in Seq(Message)
  BY Current DEF Inv, TypeOK
<1>3. V \in Sight /\ V[l] = i /\ (\A x \in Loc \ {l} : V[x] = Last(x))
  <2>1. /\ V \in Sight /\ V[l] = IF cur[Writer][l] < i THEN i ELSE cur[Writer][l]
        /\ \A x \in Loc \ {l} : V[x] = cur[Writer][x]
    BY <1>2, Current, Seen
  <2>. QED BY <1>2, <2>1, Current
<1>4. K \in Sight /\ \A x \in Loc \ {l} : K[x] = IF o = "Release" THEN Last(x) ELSE rel[Writer][x]
  <2>1. released(Writer, V, o) = IF o = "Release" THEN V ELSE rel[Writer]
    BY DEF released, Releases
  <2>2. released(Writer, V, o) \in Sight
    BY <1>3, <2>1, Current
  <2>. HIDE DEF V
  <2>3. K \in Sight /\ \A x \in Loc \ {l} : K[x] = released(Writer, V, o)[x]
    BY <1>2, <2>2, Seen
  <2>. QED BY <1>3, <2>1, <2>3
<1>5. seen(acq[Writer], l, i) \in Sight
  BY <1>2, Current, Seen
<1>. HIDE DEF V, K
<1>6. m \in Message /\ m.val = v /\ m.rview = K
  BY <1>4 DEF Message
<1>. HIDE DEF m
<1>7. /\ hist' \in [Loc -> Seq(Message)] /\ hist'[l] = Append(hist[l], m)
      /\ \A x \in Loc \ {l} : hist'[x] = hist[x]
  BY <1>1, <1>2, <1>6 DEF Inv, TypeOK
<1>8. /\ Last(l)' = i /\ hist'[l][i] = m /\ \A k \in 1..Last(l) : hist'[l][k] = hist[l][k]
  BY <1>2, <1>6, <1>7 DEF Last
<1>9. \A x \in Loc : hist'[x] # <<>>
  <2>1. hist'[l] # <<>>
    BY <1>2, <1>8 DEF Last
  <2>. QED BY <1>7, <2>1 DEF Inv, TypeOK
<1>10. \A x \in Loc \ {l} : Last(x)' = Last(x)
  BY <1>7 DEF Last
<1>11. /\ cur' \in [Thread -> Sight] /\ acq' \in [Thread -> Sight] /\ cur'[Writer] = V
       /\ \A t \in Thread \ {Writer} : cur'[t] = cur[t] /\ acq'[t] = acq[t]
  BY <1>1, <1>3, <1>5, Current DEF Inv, TypeOK
<1>12. \A x \in Loc : cur'[Writer][x] = Last(x)'
  BY <1>3, <1>8, <1>10, <1>11
<1>. QED BY <1>1, <1>4, <1>6, <1>7, <1>8, <1>9, <1>10, <1>11, <1>12, ZenonT(60)

(* A message that is right where it is stored keeps all of them right.     *)
Fits(l, j, m) ==
  /\ l = next => m.val = j - 1
  /\ \A s \in Slots : /\ l = stamp(s) => StampMessage(s, j, m)
                      /\ l \in {a(s), b(s)} => WordMessage(s, j, m)

LEMMA MessagesKept ==
  ASSUME SpmcAssumption, Inv, NEW l \in Loc,
         Last(l)' = Last(l) + 1, \A x \in Loc \ {l} : Last(x)' = Last(x) /\ hist'[x] = hist[x],
         \A k \in 1..Last(l) : hist'[l][k] = hist[l][k],
         Fits(l, Last(l) + 1, hist'[l][Last(l) + 1])
  PROVE  Messages'
<1>1. \A x \in Loc : \A j \in 1..Last(x) : Fits(x, j, hist[x][j])
  BY Locations DEF Inv, Messages, Fits
<1>2. ASSUME NEW x \in Loc, NEW j \in 1..Last(x)' PROVE Fits(x, j, hist'[x][j])
  <2>1. CASE x # l
    BY <1>1, <2>1
  <2>2. CASE x = l /\ j \in 1..Last(l)
    BY <1>1, <2>2
  <2>3. CASE x = l /\ j = Last(l) + 1
    BY <2>3
  <2>. QED BY <1>2, <2>1, <2>2, <2>3, Current
<1>3. \A j \in 1..Last(next)' : hist'[next][j].val = j - 1
  BY <1>2, Locations DEF Fits
<1>4. ASSUME NEW s \in Slots
      PROVE  /\ \A j \in 1..Last(stamp(s))' : StampMessage(s, j, hist'[stamp(s)][j])
             /\ \A j \in 1..Last(a(s))' : WordMessage(s, j, hist'[a(s)][j])
             /\ \A j \in 1..Last(b(s))' : WordMessage(s, j, hist'[b(s)][j])
  <2>1. stamp(s) \in Loc /\ a(s) \in Loc /\ b(s) \in Loc
    BY Locations
  <2>. QED BY <1>2, <2>1 DEF Fits
<1>. QED BY <1>3, <1>4 DEF Messages, StampMessage, WordMessage
-----------------------------------------------------------------------------
Storing == {"release", "write_a", "write_b", "mark_even"}

(* While the writer stores nothing, every slot is at rest.                 *)
LEMMA Resting ==
  ASSUME SpmcAssumption, Inv, hist' = hist, pc[Writer] \notin Storing, pc'[Writer] \notin Storing,
         Finished' = Finished
  PROVE  Messages' /\ Phases' /\ Turns'
<1>1. Messages'
  BY DEF Inv, Messages, StampMessage, WordMessage, Last
<1>2. \A s \in Slots : Done(s)' = Done(s)
  BY DEF Done, Last
<1>3. \A s \in Slots : /\ At(s, Storing)' = 1 /\ At(s, {"write_b", "mark_even"})' = 1
                       /\ At(s, {"mark_even"})' = 1 /\ At(s, Storing) = 1
                       /\ At(s, {"write_b", "mark_even"}) = 1 /\ At(s, {"mark_even"}) = 1
  BY DEF At, Storing
<1>4. Phases'
  BY <1>2, <1>3 DEF Inv, Phases, Storing, Last
<1>5. Turns'
  BY <1>2 DEF Inv, Turns
<1>. QED BY <1>1, <1>4, <1>5

LEMMA LoadNextStep == ASSUME SpmcAssumption, Inv, Ring, LoadNext(Writer) PROVE Inv'
<1>1. PICK i \in canLoad(Writer, next) :
        Load(Writer, next, i, "Relaxed") /\ Set(Writer, "i", val(next, i))
  BY DEF LoadNext, LoadInto
<1>2. /\ i = Last(next) /\ i \in 1..Last(next) /\ hist' = hist /\ rel' = rel
      /\ \A x \in Loc : Last(x)' = Last(x) /\ cur'[Writer][x] = Last(x)
      /\ cur' \in [Thread -> Sight] /\ acq' \in [Thread -> Sight]
      /\ \A t \in Thread \ {Writer} : cur'[t] = cur[t] /\ acq'[t] = acq[t]
  BY <1>1, Locations, WriterLoads
<1>3. /\ pc[Writer] = "idle" /\ pc' = [pc EXCEPT ![Writer] = "load_stamp"] /\ out' = out
      /\ calls' = [calls EXCEPT ![Writer] = @ + 1]
  BY DEF LoadNext, Call, Goto
<1>4. val(next, i) = i - 1 /\ i = calls[Writer] + 1
  BY <1>2, <1>3 DEF Inv, Messages, WriterKnows, val
<1>. DEFINE r == [reg[Writer] EXCEPT !["i"] = val(next, i)]
<1>5. r \in [Local -> Nat] /\ r.i = calls[Writer] /\ r.st = reg[Writer].st
  BY <1>4, Current DEF Local
<1>6. reg' = [reg EXCEPT ![Writer] = r]
  BY <1>1 DEF Set
<1>. HIDE DEF r
<1>7. /\ WriterFrame /\ pc'[Writer] = "load_stamp" /\ reg'[Writer] = r
      /\ pc' \in [Thread -> WriterLabel \cup ReaderLabel] /\ reg' \in [Thread -> [Local -> Nat]]
      /\ \A t \in Reader : pc'[t] \in ReaderLabel
  BY <1>2, <1>3, <1>5, <1>6, WriterMoves DEF WriterLabel
<1>8. calls' \in [Thread -> Nat] /\ calls'[Writer] = calls[Writer] + 1
  BY <1>3, Current DEF Inv, TypeOK
<1>9. Finished' = Finished /\ calls[Writer] \in Nat
  BY <1>3, <1>7, <1>8, Current DEF Finished
<1>10. Messages' /\ Phases' /\ Turns'
  BY <1>2, <1>3, <1>7, <1>9, Resting DEF Storing
<1>11. TypeOK'
  BY <1>2, <1>3, <1>7, <1>8 DEF Inv, TypeOK, WriterLabel
<1>12. Here' = (calls'[Writer] - 1) % N
  BY <1>5, <1>7, <1>8, <1>9 DEF Here
<1>13. WriterKnows'
  BY <1>2, <1>3, <1>5, <1>7, <1>8, <1>9, <1>12, Locations DEF Inv, WriterKnows
<1>. QED BY <1>7, <1>10, <1>11, <1>13, ReadersStay DEF Inv

(* Loading the stamp, as the second step of publish or the first of write. *)
LEMMA StampLoaded ==
  ASSUME SpmcAssumption, Inv, NEW i \in canLoad(Writer, stamp(Here)),
         Load(Writer, stamp(Here), i, "Relaxed"), Set(Writer, "st", val(stamp(Here), i)),
         pc' = [pc EXCEPT ![Writer] = "mark_odd"], out' = out, pc[Writer] \in {"idle", "load_stamp"},
         calls' \in [Thread -> Nat],
         calls'[Writer] = IF pc[Writer] = "idle" THEN calls[Writer] + 1 ELSE calls[Writer],
         pc[Writer] = "idle" => ~Ring
  PROVE  Inv'
<1>1. stamp(Here) \in Loc /\ Here \in Slots
  BY Current, Locations
<1>2. /\ i = Last(stamp(Here)) /\ i \in 1..Last(stamp(Here)) /\ hist' = hist /\ rel' = rel
      /\ \A x \in Loc : Last(x)' = Last(x) /\ cur'[Writer][x] = Last(x)
      /\ cur' \in [Thread -> Sight] /\ acq' \in [Thread -> Sight]
      /\ \A t \in Thread \ {Writer} : cur'[t] = cur[t] /\ acq'[t] = acq[t]
  BY <1>1, WriterLoads
<1>3. val(stamp(Here), i) = i - 1
  BY <1>1, <1>2 DEF Inv, Messages, StampMessage, val
<1>. DEFINE r == [reg[Writer] EXCEPT !["st"] = val(stamp(Here), i)]
<1>4. r \in [Local -> Nat] /\ r.i = reg[Writer].i /\ r.st = i - 1
  BY <1>2, <1>3, Current DEF Local
<1>5. reg' = [reg EXCEPT ![Writer] = r]
  BY DEF Set
<1>. HIDE DEF r
<1>6. /\ WriterFrame /\ pc'[Writer] = "mark_odd" /\ reg'[Writer] = r
      /\ pc' \in [Thread -> WriterLabel \cup ReaderLabel] /\ reg' \in [Thread -> [Local -> Nat]]
      /\ \A t \in Reader : pc'[t] \in ReaderLabel
  BY <1>2, <1>4, <1>5, WriterMoves DEF WriterLabel
<1>7. Here' = Here
  BY <1>4, <1>6 DEF Here
<1>8. Finished' = Finished /\ calls[Writer] \in Nat
  BY <1>6, Current DEF Finished
<1>9. Messages' /\ Phases' /\ Turns'
  BY <1>2, <1>6, <1>8, Resting DEF Storing
<1>10. TypeOK'
  BY <1>2, <1>6 DEF Inv, TypeOK, WriterLabel
<1>11. calls'[Writer] > 0 /\ Here = (calls'[Writer] - 1) % N
  <2>1. CASE pc[Writer] = "load_stamp"
    BY <2>1 DEF Inv, WriterKnows
  <2>2. CASE pc[Writer] = "idle"
    <3>1. Slots = {0} /\ calls[Writer] % N \in Slots
      BY <1>8, <2>2, Division DEF SpmcAssumption, Slots
    <3>. QED BY <1>1, <1>8, <2>2, <3>1
  <2>. QED BY <2>1, <2>2
<1>12. WriterKnows'
  BY <1>1, <1>2, <1>4, <1>6, <1>7, <1>8, <1>11, Locations DEF Inv, WriterKnows
<1>. QED BY <1>6, <1>9, <1>10, <1>12, ReadersStay DEF Inv

LEMMA LoadStampStep == ASSUME SpmcAssumption, Inv, LoadStamp(Writer) PROVE Inv'
<1>1. PICK i \in canLoad(Writer, stamp(Here)) :
        /\ Load(Writer, stamp(Here), i, "Relaxed")
        /\ Set(Writer, "st", val(stamp(Here), i))
  BY Current DEF LoadStamp, LoadInto
<1>. QED BY <1>1, StampLoaded DEF LoadStamp, From, Goto, Inv, TypeOK

LEMMA LoadSeqStep == ASSUME SpmcAssumption, Inv, ~Ring, LoadSeq(Writer) PROVE Inv'
<1>1. PICK i \in canLoad(Writer, stamp(Here)) :
        /\ Load(Writer, stamp(Here), i, "Relaxed")
        /\ Set(Writer, "st", val(stamp(Here), i))
  BY Current DEF LoadSeq, LoadInto
<1>2. calls' \in [Thread -> Nat] /\ calls'[Writer] = calls[Writer] + 1
  BY Current DEF LoadSeq, Call, Inv, TypeOK
<1>. QED BY <1>1, <1>2, StampLoaded DEF LoadSeq, Call, Goto
-----------------------------------------------------------------------------
(* A store of the writer to l, which takes it to another label.            *)
LEMMA WriterStores ==
  ASSUME SpmcAssumption, Inv, NEW l \in Loc, NEW v \in Nat, NEW o \in {"Relaxed", "Release"},
         NEW to \in WriterLabel, Store(Writer, l, v, o), Goto(Writer, to), UNCHANGED <<reg, calls, out>>
  PROVE  /\ TypeOK' /\ ReadersKnow' /\ AcceptedIsWhole'
         /\ pc'[Writer] = to /\ Here' = Here /\ rel' = rel
         /\ \A x \in Loc : cur'[Writer][x] = Last(x)'
         /\ Last(l)' = Last(l) + 1 /\ \A x \in Loc \ {l} : Last(x)' = Last(x)
         /\ Fits(l, Last(l) + 1, hist'[l][Last(l) + 1]) => Messages'
         /\ hist'[l][Last(l) + 1].val = v
         /\ \A x \in Loc \ {l} : hist'[l][Last(l) + 1].rview[x] =
              IF o = "Release" THEN Last(x) ELSE rel[Writer][x]
<1>1. /\ hist' \in [Loc -> Seq(Message)] /\ \A x \in Loc : hist'[x] # <<>>
      /\ Last(l)' = Last(l) + 1 /\ \A x \in Loc \ {l} : Last(x)' = Last(x) /\ hist'[x] = hist[x]
      /\ \A k \in 1..Last(l) : hist'[l][k] = hist[l][k]
      /\ hist'[l][Last(l) + 1].val = v
      /\ \A x \in Loc \ {l} : hist'[l][Last(l) + 1].rview[x] =
           IF o = "Release" THEN Last(x) ELSE rel[Writer][x]
      /\ rel' = rel
      /\ cur' \in [Thread -> Sight] /\ acq' \in [Thread -> Sight]
      /\ \A x \in Loc : cur'[Writer][x] = Last(x)'
      /\ \A t \in Thread \ {Writer} : cur'[t] = cur[t] /\ acq'[t] = acq[t]
  BY Stored
<1>2. reg' = [reg EXCEPT ![Writer] = reg[Writer]]
  BY DEF Inv, TypeOK
<1>3. /\ WriterFrame /\ pc'[Writer] = to
      /\ pc' \in [Thread -> WriterLabel \cup ReaderLabel] /\ \A t \in Reader : pc'[t] \in ReaderLabel
  BY <1>1, <1>2, Current, WriterMoves DEF Goto
<1>4. TypeOK'
  BY <1>1, <1>3 DEF Inv, TypeOK
<1>5. Fits(l, Last(l) + 1, hist'[l][Last(l) + 1]) => Messages'
  BY <1>1, MessagesKept
<1>6. Here' = Here
  BY DEF Here
<1>. QED BY <1>1, <1>3, <1>4, <1>5, <1>6, ReadersStay

LEMMA Halves == \A d \in Nat : (2 * d + 1 - 1) \div 2 = d /\ (2 * d + 2 - 1) \div 2 = d
<1>1. ASSUME NEW d \in Nat PROVE (2 * d + 1 - 1) \div 2 = d /\ (2 * d + 2 - 1) \div 2 = d
  OBVIOUS
<1>. QED BY <1>1

(* The slot that is written is the one whose turn it is.                   *)
LEMMA MyTurn ==
  ASSUME SpmcAssumption, Inv, pc[Writer] \notin {"idle", "advance"}
  PROVE  /\ Finished = calls[Writer] - 1 /\ Finished \in Nat
         /\ N * Done(Here) + Here = Finished
         /\ \A s \in Slots \ {Here} : N * Done(s) + s # Finished
<1>1. Finished = calls[Writer] - 1 /\ Finished \in Nat /\ Here = Finished % N
  BY Current DEF Inv, WriterKnows, Finished
<1>2. \A s \in Slots : s = Here <=> N * Done(s) + s = Finished
  BY <1>1, Current, OneTurn DEF Inv, Turns
<1>. QED BY <1>1, <1>2, Current

LEMMA MarkOddStep == ASSUME SpmcAssumption, Inv, MarkOdd(Writer) PROVE Inv'
<1>1. PICK h \in Slots : h = Here
  BY Current
<1>2. PICK d \in Nat : d = Done(h)
  BY Current
<1>. DEFINE l == stamp(h)
<1>3. /\ pc[Writer] = "mark_odd" /\ calls' = calls /\ reg' = reg /\ out' = out
      /\ Store(Writer, l, reg[Writer].st + 1, "Relaxed") /\ Goto(Writer, "release")
  BY <1>1, Current DEF MarkOdd, From
<1>4. l \in Loc /\ reg[Writer].st + 1 \in Nat
  BY Current, Locations DEF Local
<1>5. Last(l) = reg[Writer].st + 1 /\ Last(l) = 2 * d + 1
  BY <1>1, <1>2, <1>3 DEF Inv, WriterKnows, Phases, At
<1>6. /\ TypeOK' /\ ReadersKnow' /\ AcceptedIsWhole'
      /\ pc'[Writer] = "release" /\ Here' = Here /\ rel' = rel
      /\ \A x \in Loc : cur'[Writer][x] = Last(x)'
      /\ Last(l)' = Last(l) + 1 /\ \A x \in Loc \ {l} : Last(x)' = Last(x)
      /\ Fits(l, Last(l) + 1, hist'[l][Last(l) + 1]) => Messages'
      /\ hist'[l][Last(l) + 1].val = reg[Writer].st + 1
  BY <1>3, <1>4, WriterStores DEF WriterLabel
<1>7. Messages'
  <2>1. \A k \in Nat : 2 * d + 2 # 2 * k + 1
    OBVIOUS
  <2>2. StampMessage(h, Last(l) + 1, hist'[l][Last(l) + 1])
    BY <1>5, <1>6, <2>1 DEF StampMessage
  <2>. QED BY <1>6, <2>2, Locations DEF Fits
<1>8. \A s \in Slots : Done(s)' = Done(s)
  <2>1. Done(h)' = Done(h)
    BY <1>5, <1>6, Halves DEF Done
  <2>2. \A s \in Slots \ {h} : stamp(s) \in Loc \ {l}
    BY Locations
  <2>3. \A s \in Slots \ {h} : Done(s)' = Done(s)
    BY <1>6, <2>2 DEF Done
  <2>. QED BY <2>1, <2>3
<1>9. Phases'
  <2>1. SUFFICES ASSUME NEW s \in Slots
        PROVE  /\ Last(stamp(s))' = 2 * Done(s) + IF s = h THEN 2 ELSE 1
               /\ Last(a(s))' = Done(s) + 1
               /\ Last(b(s))' = Done(s) + 1
    BY <1>1, <1>6, <1>8 DEF Phases, At
  <2>2. /\ Last(stamp(s)) = 2 * Done(s) + 1 /\ Last(a(s)) = Done(s) + 1 /\ Last(b(s)) = Done(s) + 1
    BY <1>3 DEF Inv, Phases, At
  <2>. QED BY <1>2, <1>5, <1>6, <2>2, Locations
<1>10. Turns'
  BY <1>3, <1>6, <1>8 DEF Inv, Turns, Finished
<1>11. Last(next)' = Last(next) /\ Last(stamp(h))' = reg[Writer].st + 2
  BY <1>4, <1>5, <1>6, Current, Locations DEF Local
<1>12. WriterKnows'
  BY <1>1, <1>3, <1>6, <1>11 DEF Inv, WriterKnows
<1>. QED BY <1>6, <1>7, <1>9, <1>10, <1>12 DEF Inv

LEMMA ReleaseStep == ASSUME SpmcAssumption, Inv, Release(Writer) PROVE Inv'
<1>1. /\ pc[Writer] = "release" /\ pc' = [pc EXCEPT ![Writer] = "write_a"]
      /\ rel' = [rel EXCEPT ![Writer] = cur[Writer]]
      /\ hist' = hist /\ cur' = cur /\ acq' = acq /\ calls' = calls /\ reg' = reg /\ out' = out
  BY DEF Release, ReleaseFence, FenceRelease, From, Goto
<1>2. reg' = [reg EXCEPT ![Writer] = reg[Writer]]
  BY <1>1 DEF Inv, TypeOK
<1>3. /\ WriterFrame /\ pc'[Writer] = "write_a"
      /\ pc' \in [Thread -> WriterLabel \cup ReaderLabel] /\ \A t \in Reader : pc'[t] \in ReaderLabel
  BY <1>1, <1>2, Current, WriterMoves DEF WriterLabel
<1>4. rel' \in [Thread -> Sight] /\ rel'[Writer] = cur[Writer]
  BY <1>1, Current DEF Inv, TypeOK
<1>5. TypeOK'
  BY <1>1, <1>3, <1>4 DEF Inv, TypeOK, WriterLabel
<1>6. Here' = Here /\ Finished' = Finished /\ \A s \in Slots : Done(s)' = Done(s)
  BY <1>1, <1>3 DEF Here, Finished, Done, Last
<1>7. Messages' /\ Turns'
  BY <1>1, <1>6 DEF Inv, Messages, StampMessage, WordMessage, Turns, Last
<1>8. Phases'
  BY <1>1, <1>3, <1>6 DEF Inv, Phases, At, Last
<1>9. rel'[Writer][stamp(Here)] = Last(stamp(Here))
  BY <1>4, Current, Locations
<1>10. WriterKnows'
  BY <1>1, <1>3, <1>6, <1>9 DEF Inv, WriterKnows, Last
<1>. QED BY <1>3, <1>5, <1>7, <1>8, <1>10, ReadersStay DEF Inv

(* What a word says is right: the write it is of is under way, and the     *)
(* release fence knew its odd stamp.                                       *)
LEMMA WordFits ==
  ASSUME SpmcAssumption, Inv, pc[Writer] \in {"write_a", "write_b"}, NEW h \in Slots, h = Here,
         NEW l \in {a(h), b(h)}, NEW j, j = Done(h) + 2, NEW m, m.val = calls[Writer],
         m.rview[stamp(h)] = rel[Writer][stamp(h)]
  PROVE  Fits(l, j, m)
<1>1. PICK d \in Nat : d = Done(h)
  BY Current
<1>2. N * d + h = calls[Writer] - 1 /\ calls[Writer] \in Nat /\ h \in Nat
  BY <1>1, MyTurn, Current
<1>3. m.val = Written(h, d + 1)
  <2>1. Written(h, d + 1) = d * N + h + 1
    BY <1>1 DEF Written
  <2>2. d * N = N * d /\ N * d \in Nat
    BY <1>1 DEF SpmcAssumption
  <2>. QED BY <1>2, <2>1, <2>2
<1>4. m.rview[stamp(h)] = 2 * d + 2
  BY <1>1 DEF Inv, WriterKnows, Phases, At
<1>5. j - 1 = d + 1
  BY <1>1
<1>6. WordMessage(h, j, m)
  BY <1>1, <1>3, <1>4, <1>5 DEF WordMessage
<1>7. l # next /\ \A s \in Slots : l # stamp(s) /\ (l \in {a(s), b(s)} => s = h)
  BY Locations
<1>. QED BY <1>6, <1>7 DEF Fits

LEMMA WriteAStep == ASSUME SpmcAssumption, Inv, WriteA(Writer) PROVE Inv'
<1>1. PICK h \in Slots : h = Here
  BY Current
<1>2. PICK d \in Nat : d = Done(h)
  BY Current
<1>. DEFINE l == a(h)
<1>3. /\ pc[Writer] = "write_a" /\ calls' = calls /\ reg' = reg /\ out' = out
      /\ Store(Writer, l, calls[Writer], "Relaxed") /\ Goto(Writer, "write_b")
  BY <1>1, Current DEF WriteA, From
<1>4. l \in Loc /\ calls[Writer] \in Nat /\ stamp(h) \in Loc \ {l}
  BY Current, Locations
<1>5. /\ TypeOK' /\ ReadersKnow' /\ AcceptedIsWhole'
      /\ pc'[Writer] = "write_b" /\ Here' = Here /\ rel' = rel
      /\ \A x \in Loc : cur'[Writer][x] = Last(x)'
      /\ Last(l)' = Last(l) + 1 /\ \A x \in Loc \ {l} : Last(x)' = Last(x)
      /\ Fits(l, Last(l) + 1, hist'[l][Last(l) + 1]) => Messages'
      /\ hist'[l][Last(l) + 1].val = calls[Writer]
      /\ hist'[l][Last(l) + 1].rview[stamp(h)] = rel[Writer][stamp(h)]
  BY <1>3, <1>4, WriterStores DEF WriterLabel
<1>6. Last(l) + 1 = Done(h) + 2
  BY <1>2, <1>3 DEF Inv, Phases, At
<1>7. Messages'
  <2>. HIDE DEF l
  <2>1. l \in {a(h), b(h)}
    BY DEF l
  <2>. QED BY <1>1, <1>3, <1>5, <1>6, <2>1, WordFits
<1>8. \A s \in Slots : Last(stamp(s))' = Last(stamp(s)) /\ Last(b(s))' = Last(b(s))
  BY <1>5, Locations
<1>9. \A s \in Slots : Done(s)' = Done(s)
  BY <1>8 DEF Done
<1>10. Phases'
  <2>1. SUFFICES ASSUME NEW s \in Slots
        PROVE  /\ Last(stamp(s))' = 2 * Done(s) + IF s = h THEN 2 ELSE 1
               /\ Last(a(s))' = Done(s) + IF s = h THEN 2 ELSE 1
               /\ Last(b(s))' = Done(s) + 1
    BY <1>1, <1>5, <1>9 DEF Phases, At
  <2>2. /\ Last(stamp(s)) = 2 * Done(s) + IF s = h THEN 2 ELSE 1
        /\ Last(a(s)) = Done(s) + 1 /\ Last(b(s)) = Done(s) + 1
    BY <1>1, <1>3 DEF Inv, Phases, At
  <2>3. s # h => a(s) \in Loc \ {l} /\ Last(a(s))' = Last(a(s))
    <3>1. s # h => a(s) \in Loc \ {l}
      BY Locations
    <3>. QED BY <1>5, <3>1
  <2>. QED BY <1>2, <1>5, <1>8, <2>2, <2>3
<1>11. Turns'
  BY <1>3, <1>5, <1>9 DEF Inv, Turns, Finished
<1>12. Last(next)' = Last(next)
  BY <1>5, Locations
<1>13. WriterKnows'
  BY <1>1, <1>3, <1>5, <1>8, <1>12 DEF Inv, WriterKnows
<1>. QED BY <1>5, <1>7, <1>10, <1>11, <1>13 DEF Inv

LEMMA WriteBStep == ASSUME SpmcAssumption, Inv, WriteB(Writer) PROVE Inv'
<1>1. PICK h \in Slots : h = Here
  BY Current
<1>2. PICK d \in Nat : d = Done(h)
  BY Current
<1>. DEFINE l == b(h)
<1>3. /\ pc[Writer] = "write_b" /\ calls' = calls /\ reg' = reg /\ out' = out
      /\ Store(Writer, l, calls[Writer], "Relaxed") /\ Goto(Writer, "mark_even")
  BY <1>1, Current DEF WriteB, From
<1>4. l \in Loc /\ calls[Writer] \in Nat /\ stamp(h) \in Loc \ {l}
  BY Current, Locations
<1>5. /\ TypeOK' /\ ReadersKnow' /\ AcceptedIsWhole'
      /\ pc'[Writer] = "mark_even" /\ Here' = Here /\ rel' = rel
      /\ \A x \in Loc : cur'[Writer][x] = Last(x)'
      /\ Last(l)' = Last(l) + 1 /\ \A x \in Loc \ {l} : Last(x)' = Last(x)
      /\ Fits(l, Last(l) + 1, hist'[l][Last(l) + 1]) => Messages'
      /\ hist'[l][Last(l) + 1].val = calls[Writer]
      /\ hist'[l][Last(l) + 1].rview[stamp(h)] = rel[Writer][stamp(h)]
  BY <1>3, <1>4, WriterStores DEF WriterLabel
<1>6. Last(l) + 1 = Done(h) + 2
  BY <1>2, <1>3 DEF Inv, Phases, At
<1>7. Messages'
  <2>. HIDE DEF l
  <2>1. l \in {a(h), b(h)}
    BY DEF l
  <2>. QED BY <1>1, <1>3, <1>5, <1>6, <2>1, WordFits
<1>8. \A s \in Slots : Last(stamp(s))' = Last(stamp(s)) /\ Last(a(s))' = Last(a(s))
  BY <1>5, Locations
<1>9. \A s \in Slots : Done(s)' = Done(s)
  BY <1>8 DEF Done
<1>10. Phases'
  <2>1. SUFFICES ASSUME NEW s \in Slots
        PROVE  /\ Last(stamp(s))' = 2 * Done(s) + IF s = h THEN 2 ELSE 1
               /\ Last(a(s))' = Done(s) + IF s = h THEN 2 ELSE 1
               /\ Last(b(s))' = Done(s) + IF s = h THEN 2 ELSE 1
    BY <1>1, <1>5, <1>9 DEF Phases, At
  <2>2. /\ Last(stamp(s)) = 2 * Done(s) + IF s = h THEN 2 ELSE 1
        /\ Last(a(s)) = Done(s) + IF s = h THEN 2 ELSE 1
        /\ Last(b(s)) = Done(s) + 1
    BY <1>1, <1>3 DEF Inv, Phases, At
  <2>3. s # h => b(s) \in Loc \ {l} /\ Last(b(s))' = Last(b(s))
    <3>1. s # h => b(s) \in Loc \ {l}
      BY Locations
    <3>. QED BY <1>5, <3>1
  <2>. QED BY <1>2, <1>5, <1>8, <2>2, <2>3
<1>11. Turns'
  BY <1>3, <1>5, <1>9 DEF Inv, Turns, Finished
<1>12. Last(next)' = Last(next)
  BY <1>5, Locations
<1>13. WriterKnows'
  BY <1>1, <1>3, <1>5, <1>8, <1>12 DEF Inv, WriterKnows
<1>. QED BY <1>5, <1>7, <1>10, <1>11, <1>13 DEF Inv
-----------------------------------------------------------------------------
LEMMA PublishStep == ASSUME SpmcAssumption, Inv, Publish(Writer) PROVE Inv'
<1>1. PICK h \in Slots : h = Here
  BY Current
<1>2. PICK d \in Nat : d = Done(h)
  BY Current
<1>3. PICK to \in WriterLabel : to = IF Ring THEN "advance" ELSE "idle"
  BY DEF WriterLabel
<1>. DEFINE l == stamp(h)
<1>4. /\ pc[Writer] = "mark_even" /\ calls' = calls /\ reg' = reg /\ out' = out
      /\ Store(Writer, l, reg[Writer].st + 2, "Release") /\ Goto(Writer, to)
  BY <1>1, <1>3, Current DEF Publish, From
<1>5. l \in Loc /\ reg[Writer].st + 2 \in Nat /\ a(h) \in Loc \ {l} /\ b(h) \in Loc \ {l}
  BY Current, Locations DEF Local
<1>6. /\ Last(l) = reg[Writer].st + 2 /\ Last(l) = 2 * d + 2
      /\ Last(a(h)) = d + 2 /\ Last(b(h)) = d + 2
  BY <1>1, <1>2, <1>4 DEF Inv, WriterKnows, Phases, At
<1>7. /\ TypeOK' /\ ReadersKnow' /\ AcceptedIsWhole'
      /\ pc'[Writer] = to /\ Here' = Here /\ rel' = rel
      /\ \A x \in Loc : cur'[Writer][x] = Last(x)'
      /\ Last(l)' = Last(l) + 1 /\ \A x \in Loc \ {l} : Last(x)' = Last(x)
      /\ Fits(l, Last(l) + 1, hist'[l][Last(l) + 1]) => Messages'
      /\ hist'[l][Last(l) + 1].val = reg[Writer].st + 2
      /\ \A x \in Loc \ {l} : hist'[l][Last(l) + 1].rview[x] = Last(x)
  BY <1>4, <1>5, WriterStores
<1>8. Messages'
  <2>1. hist'[l][Last(l) + 1].rview[a(h)] = d + 2 /\ hist'[l][Last(l) + 1].rview[b(h)] = d + 2
    BY <1>5, <1>6, <1>7
  <2>2. \A k \in Nat : 2 * d + 3 = 2 * k + 1 => d + 2 > k
    OBVIOUS
  <2>3. StampMessage(h, Last(l) + 1, hist'[l][Last(l) + 1])
    BY <1>6, <1>7, <2>1, <2>2 DEF StampMessage
  <2>. QED BY <1>7, <2>3, Locations DEF Fits
<1>9. Done(h)' = d + 1 /\ \A s \in Slots \ {h} : Done(s)' = Done(s)
  <2>1. Last(l)' = 2 * (d + 1) + 1
    BY <1>6, <1>7
  <2>2. Done(h)' = d + 1
    BY <2>1, Halves DEF Done
  <2>3. \A s \in Slots \ {h} : stamp(s) \in Loc \ {l}
    BY Locations
  <2>. QED BY <1>7, <2>2, <2>3 DEF Done
<1>10. Phases'
  <2>1. SUFFICES ASSUME NEW s \in Slots
        PROVE  /\ Last(stamp(s))' = 2 * Done(s)' + 1
               /\ Last(a(s))' = Done(s)' + 1
               /\ Last(b(s))' = Done(s)' + 1
    BY <1>3, <1>7 DEF Phases, At
  <2>2. Last(a(s))' = Last(a(s)) /\ Last(b(s))' = Last(b(s))
    BY <1>7, Locations
  <2>3. CASE s = h
    BY <1>2, <1>6, <1>7, <1>9, <2>2, <2>3
  <2>4. CASE s # h
    <3>1. /\ Last(stamp(s)) = 2 * Done(s) + 1 /\ Last(a(s)) = Done(s) + 1 /\ Last(b(s)) = Done(s) + 1
      BY <1>1, <2>4 DEF Inv, Phases, At
    <3>2. Last(stamp(s))' = Last(stamp(s))
      BY <1>7, <2>4, Locations
    <3>. QED BY <1>9, <2>2, <2>4, <3>1, <3>2
  <2>. QED BY <2>3, <2>4
<1>11. Finished' = Finished + 1
  <2>1. Finished = calls[Writer] - 1 /\ calls[Writer] \in Nat
    BY <1>4, MyTurn, Current
  <2>2. Finished' = calls[Writer]
    BY <1>3, <1>4, <1>7 DEF Finished
  <2>. QED BY <2>1, <2>2
<1>12. Turns'
  <2>1. SUFFICES ASSUME NEW s \in Slots
        PROVE  N * Done(s)' + s >= Finished + 1 /\ N * Done(s)' + s < Finished + 1 + N
    BY <1>11 DEF Turns
  <2>2. /\ N * Done(s) + s >= Finished /\ N * Done(s) + s < Finished + N
        /\ s \in Nat /\ Finished \in Nat /\ N \in Nat \ {0} /\ N * Done(s) \in Nat
    BY <1>4, MyTurn, Current DEF Inv, Turns, Slots, SpmcAssumption
  <2>3. CASE s = h
    <3>1. N * d + h = Finished
      BY <1>1, <1>2, <1>4, MyTurn
    <3>2. N * (d + 1) = N * d + N /\ N * d \in Nat
      BY <2>2
    <3>. QED BY <1>2, <1>9, <2>2, <2>3, <3>1, <3>2
  <2>4. CASE s # h
    <3>1. N * Done(s) + s # Finished
      BY <1>1, <1>4, <2>4, MyTurn
    <3>. QED BY <1>9, <2>2, <2>4, <3>1
  <2>. QED BY <2>3, <2>4
<1>13. Last(next)' = Last(next) /\ (~Ring => to = "idle") /\ (Ring => to = "advance")
  BY <1>3, <1>7, Locations
<1>14. WriterKnows'
  BY <1>3, <1>4, <1>7, <1>13 DEF Inv, WriterKnows
<1>. QED BY <1>7, <1>8, <1>10, <1>12, <1>14 DEF Inv

LEMMA AdvanceStep == ASSUME SpmcAssumption, Inv, Advance(Writer) PROVE Inv'
<1>1. /\ pc[Writer] = "advance" /\ calls' = calls /\ reg' = reg /\ out' = out
      /\ Store(Writer, next, reg[Writer].i + 1, "Release") /\ Goto(Writer, "idle")
  BY DEF Advance, From
<1>2. next \in Loc /\ reg[Writer].i + 1 \in Nat /\ calls[Writer] \in Nat
  BY Current, Locations DEF Local
<1>3. Ring /\ Last(next) = calls[Writer] /\ reg[Writer].i + 1 = calls[Writer]
  BY <1>1, <1>2 DEF Inv, WriterKnows
<1>4. /\ TypeOK' /\ ReadersKnow' /\ AcceptedIsWhole'
      /\ pc'[Writer] = "idle" /\ Here' = Here /\ rel' = rel
      /\ \A x \in Loc : cur'[Writer][x] = Last(x)'
      /\ Last(next)' = Last(next) + 1 /\ \A x \in Loc \ {next} : Last(x)' = Last(x)
      /\ Fits(next, Last(next) + 1, hist'[next][Last(next) + 1]) => Messages'
      /\ hist'[next][Last(next) + 1].val = reg[Writer].i + 1
  BY <1>1, <1>2, WriterStores DEF WriterLabel
<1>5. Messages'
  BY <1>2, <1>3, <1>4, Locations DEF Fits
<1>6. \A s \in Slots : /\ Last(stamp(s))' = Last(stamp(s)) /\ Last(a(s))' = Last(a(s))
                       /\ Last(b(s))' = Last(b(s))
  BY <1>4, Locations
<1>7. Finished' = Finished /\ \A s \in Slots : Done(s)' = Done(s)
  BY <1>1, <1>4, <1>6 DEF Finished, Done
<1>8. Phases'
  BY <1>1, <1>4, <1>6, <1>7 DEF Inv, Phases, At
<1>9. Turns'
  BY <1>7 DEF Inv, Turns
<1>10. WriterKnows'
  BY <1>1, <1>3, <1>4 DEF Inv, WriterKnows
<1>. QED BY <1>4, <1>5, <1>8, <1>9, <1>10 DEF Inv
-----------------------------------------------------------------------------
LEMMA InitInv == ASSUME SpmcAssumption, Init PROVE Inv
<1>1. /\ hist = [l \in Loc |-> <<[val |-> 0, rview |-> bot]>>]
      /\ cur = [th \in Thread |-> bot] /\ acq = [th \in Thread |-> bot]
      /\ rel = [th \in Thread |-> bot]
      /\ pc = [th \in Thread |-> "idle"] /\ reg = [th \in Thread |-> [x \in Local |-> 0]]
      /\ calls = [th \in Thread |-> 0] /\ out = [th \in Thread |-> <<>>]
  BY DEF Init, CoreInit, WMInit, initMem, Local
<1>2. bot \in Sight /\ \A x \in Loc : bot[x] = 1
  BY Locations DEF bot, Sight
<1>3. \A l \in Loc : hist[l] = <<[val |-> 0, rview |-> bot]>> /\ Last(l) = 1
  BY <1>1 DEF Last
<1>4. /\ Writer \in Thread /\ pc[Writer] = "idle" /\ calls[Writer] = 0 /\ cur[Writer] = bot
      /\ \A th \in Reader : th \in Thread /\ pc[th] = "idle" /\ reg[th].i = 0 /\ out[th] = <<>>
  BY <1>1 DEF Thread, Local
<1>5. TypeOK
  <2>1. [val |-> 0, rview |-> bot] \in Message
    BY <1>2 DEF Message
  <2>2. hist \in [Loc -> Seq(Message)] /\ \A l \in Loc : hist[l] # <<>>
    BY <1>1, <1>3, <2>1
  <2>. QED BY <1>1, <1>2, <1>4, <2>2 DEF TypeOK, WriterLabel, ReaderLabel
<1>6. Messages
  <2>1. \A s \in Slots : stamp(s) \in Loc /\ a(s) \in Loc /\ b(s) \in Loc
    BY Locations
  <2>2. \A s \in Slots : /\ StampMessage(s, 1, [val |-> 0, rview |-> bot])
                         /\ WordMessage(s, 1, [val |-> 0, rview |-> bot])
    BY <1>2, <2>1 DEF StampMessage, WordMessage, Written
  <2>. QED BY <1>3, <2>1, <2>2, Locations DEF Messages
<1>7. \A s \in Slots : Done(s) = 0
  <2>1. (1 - 1) \div 2 = 0
    OBVIOUS
  <2>. QED BY <1>3, <2>1, Locations DEF Done
<1>8. Phases
  BY <1>3, <1>4, <1>7, Locations DEF Phases, At
<1>9. Turns
  BY <1>4, <1>7 DEF Turns, Finished, Slots, SpmcAssumption
<1>10. WriterKnows
  BY <1>2, <1>3, <1>4, Locations DEF WriterKnows
<1>11. ReadersKnow /\ AcceptedIsWhole
  BY <1>4 DEF ReadersKnow, AcceptedIsWhole, Slots, SpmcAssumption
<1>. QED BY <1>5, <1>6, <1>8, <1>9, <1>10, <1>11 DEF Inv

LEMMA NextInv == ASSUME SpmcAssumption, Inv, [Next]_state PROVE Inv'
<1>1. CASE UNCHANGED state
  <2>1. UNCHANGED <<hist, cur, acq, rel, pc, reg, calls, out>>
    BY <1>1 DEF state, wm
  <2>2. TypeOK' /\ AcceptedIsWhole' /\ Messages'
    BY <2>1 DEF Inv, TypeOK, AcceptedIsWhole, Messages, Last
  <2>3. Here' = Here /\ Finished' = Finished /\ \A s \in Slots : Done(s)' = Done(s)
    BY <2>1 DEF Here, Finished, Done, Last
  <2>4. Phases' /\ Turns' /\ WriterKnows'
    BY <2>1, <2>3 DEF Inv, Phases, Turns, WriterKnows, At, Last
  <2>5. ReadersKnow'
    BY <2>1, ReadersStay DEF WriterFrame
  <2>. QED BY <2>2, <2>4, <2>5 DEF Inv
<1>2. CASE Ring /\ PublishNext(Writer)
  BY <1>2, LoadNextStep, LoadStampStep, MarkOddStep, ReleaseStep, WriteAStep, WriteBStep,
     PublishStep, AdvanceStep DEF PublishNext, Overwrite
<1>3. CASE ~Ring /\ Write(Writer)
  BY <1>3, LoadSeqStep, MarkOddStep, ReleaseStep, WriteAStep, WriteBStep, PublishStep
     DEF Write, Overwrite
<1>4. CASE \E th \in Reader : TryRead(th)
  BY <1>4, FirstStampStep, ReadAStep, ReadBStep, AcquireStep, SecondStampStep DEF TryRead
<1>. QED BY <1>1, <1>2, <1>3, <1>4 DEF Next

LEMMA Inductive == ASSUME SpmcAssumption PROVE Spec => []Inv
BY InitInv, NextInv, PTL DEF Spec

(* A snapshot that try_read accepts is the words of one write, that of its *)
(* stamp, for every number of slots, readers and calls: the release fence  *)
(* before the words and the acquire fence after them leave no torn read a  *)
(* stamp to be accepted with (seqlock.rs:30-57, spmc.rs:43-79).            *)
LEMMA Whole == ASSUME SpmcAssumption PROVE Spec => []AcceptedIsWhole
<1>1. Inv => AcceptedIsWhole
  BY DEF Inv
<1>. QED BY <1>1, Inductive, PTL

(* The writer alone stores, and what it has loaded of a location is always *)
(* the last message of it, so that no store of its own is overtaken        *)
(* (seqlock.rs:30-38, spmc.rs:43-52).                                      *)
LEMMA Latest == ASSUME SpmcAssumption PROVE Spec => []StoresAreLatest
<1>1. Inv => StoresAreLatest
  BY Current, Locations DEF StoresAreLatest
<1>. QED BY <1>1, Inductive, PTL

(* Both seqlocks, for every number of slots, readers and calls.            *)
THEOREM Correct == ASSUME SpmcAssumption PROVE Spec => []SnapshotsAreWhole
BY Whole, Latest, PTL DEF SnapshotsAreWhole
=============================================================================
