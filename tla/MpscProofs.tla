----------------------------- MODULE MpscProofs -----------------------------
(***************************************************************************)
(* The MPSC stamp queue in the view-based memory, for any capacity but one,*)
(* any number of producers and of calls: its cells are free of data races, *)
(* values come out in ticket order, and none that was accepted is lost.    *)
(***************************************************************************)
EXTENDS Mpsc, Integers, SequenceTheorems, TLAPS

C == "consumer"
Datum == Nat \cup {Refused} \cup (Producer \X Nat)
Message == [val : Datum, rview : View]
ProducerLabel == {"idle", "push_stamp", "push_write", "push_publish"}
ConsumerLabel == {"idle", "pop_stamp", "pop_read", "pop_free", "pop_head"}
Local == {"t", "h", "s", "v"}

(* The tickets taken, and those that are popped: the head is advanced only *)
(* after its slot is free.                                                 *)
T == Last(tail) - 1
H == Last(head) - 1
Popped == IF pc[C] = "pop_head" THEN H + 1 ELSE H

(* Ticket t is that of slot t % N in its lap.                              *)
slot(t) == t % N
lap(t) == t \div N

(* The stamp of a slot is stored twice in a lap.                           *)
Published(t) == Last(stamp(t)) \div 2
Freed(t) == (Last(stamp(t)) - 1) \div 2
Full(t) == Published(t) > lap(t)
Empty(t) == Freed(t) > lap(t)

(* A view of messages there are.                                           *)
Bounded(V) ==
  /\ V \in View
  /\ \A l \in Loc : V[l] \in 1..Last(l)
  /\ \A c \in Cell : V[ReadOf(c)] <= reads[c]

TypeOK ==
  /\ hist \in [Loc -> Seq(Message)]
  /\ \A l \in Loc : hist[l] # <<>>
  /\ cur \in [Thread -> View] /\ rel \in [Thread -> View]
  /\ reads \in [Cell -> Nat]
  /\ pc \in [Thread -> ProducerLabel \cup ConsumerLabel]
  /\ pc[C] \in ConsumerLabel /\ \A th \in Producer : pc[th] \in ProducerLabel
  /\ reg \in [Thread -> [Local -> Datum]]
  /\ reg[C].h \in Nat /\ \A th \in Producer : reg[th].t \in Nat
  /\ calls \in [Thread -> Nat]
  /\ out \in [{"sent", "got"} -> Seq(Datum)]
  /\ Len(out.sent) = T /\ Len(out.got) = H
  /\ \A th \in Thread : Bounded(cur[th])

(* The j-th message of the stamp of ticket t's slot.  The one that frees   *)
(* the slot for t brings the writes and the reads of all laps before, the  *)
(* one that publishes t also the write of t.                               *)
StampMessage(t, j, m) ==
  /\ Bounded(m.rview)
  /\ j = 2 * lap(t) + 1 =>
       m.val = t /\ m.rview[cell(t)] > lap(t) /\ m.rview[ReadOf(cell(t))] > lap(t)
  /\ j = 2 * lap(t) + 2 => m.val = t + 1 /\ m.rview[cell(t)] > lap(t) + 1
Messages ==
  /\ \A i \in 1..Last(tail) : hist[tail][i].val = i - 1
  /\ \A i \in 1..Last(head) : hist[head][i].val = i - 1
  /\ \A t \in Nat : \A j \in 1..Last(stamp(t)) : StampMessage(t, j, hist[stamp(t)][j])

(* The slots are freed in ticket order, and published only for tickets     *)
(* taken.  A cell is written once a lap and read once a lap, each before   *)
(* the stamp says so, and a full one holds the value of its ticket.        *)
AtPublish(t) == \E th \in Producer : pc[th] = "push_publish" /\ slot(reg[th].t) = slot(t)
AtFree(t) == pc[C] = "pop_free" /\ slot(reg[C].h) = slot(t)
Lap(t) ==
  /\ Empty(t) <=> t < Popped
  /\ Full(t) => t < T
  /\ Full(t) => out.sent[t + 1] # Refused
  /\ AtFree(t) => reads[cell(t)] = Freed(t) + 2
  /\ ~AtFree(t) => reads[cell(t)] = Freed(t) + 1
  /\ ~AtPublish(t) => Last(cell(t)) = Published(t) + 1
  /\ Full(t) /\ ~Empty(t) => latest(cell(t)) = out.sent[t + 1]
Laps == \A t \in Nat : Lap(t)

(* A producer has a ticket of its own, that is not published.  Once it has *)
(* read its stamp, the slot is its own too.                                *)
Ticket(th) ==
  LET t == reg[th].t IN
  /\ pc[th] # "idle" => t < T /\ out.sent[t + 1] = <<th, calls[th]>> /\ ~Full(t)
  /\ pc[th] \in {"push_write", "push_publish"} =>
       Last(stamp(t)) = 2 * lap(t) + 1 /\ cur[th][stamp(t)] = 2 * lap(t) + 1
  /\ pc[th] = "push_write" => cur[th][cell(t)] > lap(t) /\ cur[th][ReadOf(cell(t))] > lap(t)
  /\ pc[th] = "push_publish" => /\ Last(cell(t)) = lap(t) + 2 /\ cur[th][cell(t)] = lap(t) + 2
                                /\ latest(cell(t)) = <<th, calls[th]>>
Tickets ==
  /\ \A th \in Producer : Ticket(th)
  /\ \A th, u \in Producer :
       pc[th] # "idle" /\ pc[u] # "idle" /\ reg[th].t = reg[u].t => th = u

Consumes ==
  LET h == reg[C].h IN
  /\ cur[C][head] = Last(head)
  /\ pc[C] # "idle" => h = H
  /\ pc[C] \in {"pop_read", "pop_free"} =>
       /\ Last(stamp(h)) = 2 * lap(h) + 2 /\ cur[C][stamp(h)] = 2 * lap(h) + 2
       /\ cur[C][cell(h)] > lap(h) + 1
  /\ pc[C] = "pop_free" => cur[C][ReadOf(cell(h))] > lap(h) + 1
  /\ pc[C] \in {"pop_free", "pop_head"} => reg[C].v = out.sent[h + 1]

(* What became of the tickets.                                             *)
Outcomes ==
  /\ \A t \in 0..(T - 1) :
       \/ Full(t) \/ out.sent[t + 1] = Refused
       \/ \E th \in Producer : pc[th] # "idle" /\ reg[th].t = t
  /\ \A k \in 1..H : out.got[k] = out.sent[k]

Inv == TypeOK /\ Messages /\ Laps /\ Tickets /\ Consumes /\ Outcomes /\ NoRace

-----------------------------------------------------------------------------
LEMMA Division ==
  ASSUME MpscAssumption, NEW t \in Nat
  PROVE  t = N * lap(t) + slot(t) /\ slot(t) \in Slots /\ lap(t) \in Nat
BY SMTT(30) DEF MpscAssumption, Slots, lap, slot

LEMMA Times ==
  ASSUME MpscAssumption, NEW x \in Nat, NEW y \in Nat, x < y
  PROVE  N * x \in Nat /\ N * y \in Nat /\ N * y >= N * x + N
<1>1. PICK z \in Nat : y = x + 1 + z
  OBVIOUS
<1>2. N * y = N * x + N + N * z /\ N * z \in Nat /\ N * x \in Nat
  BY <1>1 DEF MpscAssumption
<1>. QED BY <1>2 DEF MpscAssumption

(* A ticket is one slot in one lap.                                        *)
LEMMA Unique ==
  ASSUME MpscAssumption, NEW m \in Nat, NEW q \in Nat, NEW s \in Slots, NEW r \in Slots,
         N * m + s = N * q + r
  PROVE  m = q /\ s = r
<1>1. N * m \in Nat /\ N * q \in Nat
  BY DEF MpscAssumption
<1>2. ~(m < q)
  BY <1>1, Times DEF Slots, MpscAssumption
<1>3. ~(q < m)
  BY <1>1, Times DEF Slots, MpscAssumption
<1>4. m = q
  BY <1>2, <1>3
<1>. QED BY <1>1, <1>4 DEF Slots

LEMMA SameTicket ==
  ASSUME MpscAssumption, NEW t \in Nat, NEW u \in Nat, slot(t) = slot(u), lap(t) = lap(u)
  PROVE  t = u
<1>1. t = N * lap(t) + slot(t) /\ u = N * lap(u) + slot(u)
  BY Division
<1>. QED BY <1>1

LEMMA TicketOf ==
  ASSUME MpscAssumption, NEW m \in Nat, NEW s \in Slots
  PROVE  \E t \in Nat : lap(t) = m /\ slot(t) = s
<1>1. N * m \in Nat /\ N * m + s \in Nat
  BY DEF MpscAssumption, Slots
<1>2. PICK t \in Nat : t = N * m + s
  BY <1>1
<1>3. t = N * lap(t) + slot(t) /\ slot(t) \in Slots /\ lap(t) \in Nat
  BY Division
<1>4. lap(t) = m /\ slot(t) = s
  BY <1>2, <1>3, Unique
<1>. QED BY <1>4

(* Two tickets in a row are never for one slot, as there are two of them.  *)
LEMMA NextSlot == ASSUME MpscAssumption, NEW t \in Nat PROVE slot(t + 1) # slot(t)
<1>1. /\ t = N * lap(t) + slot(t) /\ slot(t) \in Slots /\ lap(t) \in Nat
      /\ t + 1 = N * lap(t + 1) + slot(t + 1) /\ lap(t + 1) \in Nat
  BY Division
<1>2. SUFFICES ASSUME slot(t + 1) = slot(t) PROVE FALSE
  OBVIOUS
<1>3. N * lap(t) \in Nat /\ N * lap(t + 1) \in Nat
  BY <1>1 DEF MpscAssumption
<1>4. N * lap(t + 1) = N * lap(t) + 1
  BY <1>1, <1>2, <1>3 DEF Slots, MpscAssumption
<1>5. ~(lap(t) < lap(t + 1))
  BY <1>1, <1>3, <1>4, Times DEF MpscAssumption
<1>6. ~(lap(t + 1) < lap(t))
  BY <1>1, <1>3, <1>4, Times DEF MpscAssumption
<1>7. lap(t) = lap(t + 1)
  BY <1>1, <1>5, <1>6
<1>. QED BY <1>3, <1>4, <1>7

LEMMA NextLap ==
  ASSUME MpscAssumption, NEW t \in Nat
  PROVE  t + N \in Nat /\ slot(t + N) = slot(t) /\ lap(t + N) = lap(t) + 1
<1>1. t + N \in Nat
  BY DEF MpscAssumption
<1>2. /\ t = N * lap(t) + slot(t) /\ slot(t) \in Slots /\ lap(t) \in Nat
      /\ t + N = N * lap(t + N) + slot(t + N) /\ slot(t + N) \in Slots /\ lap(t + N) \in Nat
  BY <1>1, Division
<1>3. N * (lap(t) + 1) = N * lap(t) + N /\ N * lap(t) \in Nat
  BY <1>2 DEF MpscAssumption
<1>4. N * (lap(t) + 1) + slot(t) = N * lap(t + N) + slot(t + N)
  BY <1>2, <1>3 DEF Slots, MpscAssumption
<1>5. lap(t) + 1 = lap(t + N) /\ slot(t) = slot(t + N)
  BY <1>2, <1>4, Unique
<1>. QED BY <1>1, <1>5

LEMMA Locations ==
  ASSUME MpscAssumption
  PROVE  /\ Clock = Loc \cup {ReadOf(c) : c \in Cell} /\ Cell \subseteq Loc
         /\ head \in Loc /\ tail \in Loc /\ head # tail
         /\ \A t \in Nat : /\ stamp(t) \in Loc /\ stamp(t) \notin {head, tail} \cup Cell
                           /\ cell(t) \in Cell /\ cell(t) \notin {head, tail}
         /\ \A t, u \in Nat : /\ stamp(t) = stamp(u) <=> slot(t) = slot(u)
                              /\ cell(t) = cell(u) <=> slot(t) = slot(u)
         /\ \A l \in Loc \ {head, tail} : \E t \in Nat : l = stamp(t) \/ l = cell(t)
         /\ \A c \in Cell : \E t \in Nat : c = cell(t)
         /\ \A c \in Cell : ReadOf(c) \notin Loc
         /\ \A c, d \in Cell : ReadOf(c) = ReadOf(d) => c = d
<1>1. /\ Clock = Loc \cup {ReadOf(c) : c \in Cell} /\ Cell \subseteq Loc
      /\ head \in Loc /\ tail \in Loc /\ head # tail
  BY DEF Clock, Loc, head, tail
<1>2. \A t \in Nat : \E s \in Slots : stamp(t) = stamp(s) /\ cell(t) = cell(s)
  <2>1. SUFFICES ASSUME NEW t \in Nat PROVE \E s \in Slots : stamp(t) = stamp(s) /\ cell(t) = cell(s)
    OBVIOUS
  <2>2. \A s \in Slots : s % N = s
    BY SMTT(30) DEF Slots, MpscAssumption
  <2>3. slot(t) \in Slots
    BY Division
  <2>. QED BY <2>2, <2>3 DEF stamp, cell, slot
<1>3. \A t \in Nat : stamp(t) \in Loc /\ cell(t) \in Cell
  BY <1>2 DEF Loc, Cell
<1>4. \A t \in Nat : stamp(t) \notin {head, tail} \cup Cell /\ cell(t) \notin {head, tail}
  BY DEF stamp, cell, head, tail, Cell
<1>5. \A t, u \in Nat : /\ stamp(t) = stamp(u) <=> slot(t) = slot(u)
                        /\ cell(t) = cell(u) <=> slot(t) = slot(u)
  BY DEF stamp, cell, slot
<1>6. /\ \A l \in Loc \ {head, tail} : \E t \in Nat : l = stamp(t) \/ l = cell(t)
      /\ \A c \in Cell : \E t \in Nat : c = cell(t)
  BY DEF Loc, Cell, Slots, MpscAssumption
<1>7. /\ \A c \in Cell : ReadOf(c) \notin Loc
      /\ \A c, d \in Cell : ReadOf(c) = ReadOf(d) => c = d
  BY DEF ReadOf, Loc, Cell, head, tail, stamp, cell
<1>. QED BY <1>1, <1>3, <1>4, <1>5, <1>6, <1>7

(* What the number of messages of a stamp says of a ticket.                *)
LEMMA Halves ==
  ASSUME NEW x \in Nat \ {0}, NEW m \in Nat
  PROVE  /\ x \div 2 \in Nat /\ (x - 1) \div 2 \in Nat
         /\ x \div 2 > m <=> x >= 2 * m + 2
         /\ (x - 1) \div 2 > m <=> x >= 2 * m + 3
         /\ x = 2 * m + 1 => x \div 2 = m /\ (x - 1) \div 2 = m
         /\ x = 2 * m + 2 => x \div 2 = m + 1 /\ (x - 1) \div 2 = m
         /\ x = 2 * m + 3 => x \div 2 = m + 1 /\ (x - 1) \div 2 = m + 1
         /\ \E k \in Nat : x = 2 * k + 1 \/ x = 2 * k + 2
<1>1. /\ x \div 2 \in Nat /\ x = 2 * (x \div 2) + (x % 2) /\ x % 2 \in 0..1
      /\ (x - 1) \div 2 \in Nat /\ x - 1 = 2 * ((x - 1) \div 2) + ((x - 1) % 2) /\ (x - 1) % 2 \in 0..1
  OBVIOUS
<1>2. x = 2 * ((x - 1) \div 2) + 1 \/ x = 2 * ((x - 1) \div 2) + 2
  BY <1>1
<1>. QED BY <1>1, <1>2

-----------------------------------------------------------------------------
LEMMA Sizes ==
  ASSUME MpscAssumption, Inv
  PROVE  /\ C \in Thread /\ Producer \subseteq Thread /\ C \notin Producer
         /\ \A l \in Loc : Last(l) \in Nat \ {0}
         /\ T \in Nat /\ H \in Nat /\ Popped \in Nat
         /\ \A th \in Thread : cur[th] \in View /\ Bounded(cur[th])
         /\ \A th \in Thread, x \in Clock : cur[th][x] \in Nat
         /\ \A c \in Cell : reads[c] \in Nat
<1>1. C \in Thread /\ Producer \subseteq Thread /\ C \notin Producer
  BY DEF MpscAssumption, C, Thread
<1>2. \A l \in Loc : Last(l) \in Nat \ {0}
  BY DEF Inv, TypeOK, Last
<1>3. T \in Nat /\ H \in Nat /\ Popped \in Nat
  BY <1>2, Locations DEF T, H, Popped
<1>4. \A th \in Thread : cur[th] \in View /\ Bounded(cur[th])
  BY DEF Inv, TypeOK
<1>5. \A th \in Thread, x \in Clock : cur[th][x] \in Nat
  BY <1>4 DEF View
<1>. QED BY <1>1, <1>2, <1>3, <1>4, <1>5 DEF Inv, TypeOK

LEMMA Stamps ==
  ASSUME MpscAssumption, Inv, NEW t \in Nat
  PROVE  /\ lap(t) \in Nat /\ Last(stamp(t)) \in Nat \ {0}
         /\ Full(t) <=> Last(stamp(t)) >= 2 * lap(t) + 2
         /\ Empty(t) <=> Last(stamp(t)) >= 2 * lap(t) + 3
         /\ Last(stamp(t)) = 2 * lap(t) + 1 => Published(t) = lap(t) /\ Freed(t) = lap(t)
         /\ Last(stamp(t)) = 2 * lap(t) + 2 => Published(t) = lap(t) + 1 /\ Freed(t) = lap(t)
<1>1. lap(t) \in Nat /\ Last(stamp(t)) \in Nat \ {0}
  BY Sizes, Locations, Division
<1>. QED BY <1>1, Halves DEF Full, Empty, Published, Freed

(* A stamp that says t frees the slot for t, one that says t + 1 publishes *)
(* t, as N is at least 2.                                                  *)
LEMMA StampSays ==
  ASSUME MpscAssumption, Inv, NEW t \in Nat, NEW i \in 1..Last(stamp(t)),
         NEW m, m = hist[stamp(t)][i]
  PROVE  /\ m \in Message /\ Bounded(m.rview)
         /\ m.val = t =>
              i = 2 * lap(t) + 1 /\ m.rview[cell(t)] > lap(t) /\ m.rview[ReadOf(cell(t))] > lap(t)
         /\ m.val = t + 1 => i = 2 * lap(t) + 2 /\ m.rview[cell(t)] > lap(t) + 1
<1>1. stamp(t) \in Loc /\ slot(t) \in Slots /\ i \in Nat \ {0}
  <2>1. stamp(t) \in Loc /\ slot(t) \in Slots
    BY Locations, Division
  <2>2. Last(stamp(t)) \in Nat
    BY <2>1, Sizes
  <2>. QED BY <2>1, <2>2
<1>2. m \in Message
  BY <1>1 DEF Inv, TypeOK, Last
<1>3. PICK k \in Nat : i = 2 * k + 1 \/ i = 2 * k + 2
  BY <1>1, Halves
<1>4. PICK u \in Nat : lap(u) = k /\ slot(u) = slot(t)
  BY <1>1, TicketOf
<1>5. stamp(u) = stamp(t) /\ cell(u) = cell(t)
  BY <1>4, Locations
<1>6. StampMessage(u, i, m)
  BY <1>5 DEF Inv, Messages
<1>7. Bounded(m.rview)
  BY <1>6 DEF StampMessage
<1>8. CASE i = 2 * k + 1
  <2>1. m.val = u /\ m.rview[cell(t)] > k /\ m.rview[ReadOf(cell(t))] > k
    BY <1>4, <1>5, <1>6, <1>8 DEF StampMessage
  <2>2. u # t + 1
    BY <1>4, NextSlot
  <2>. QED BY <1>2, <1>4, <1>7, <1>8, <2>1, <2>2
<1>9. CASE i = 2 * k + 2
  <2>1. m.val = u + 1 /\ m.rview[cell(t)] > k + 1
    BY <1>4, <1>5, <1>6, <1>9 DEF StampMessage
  <2>2. u + 1 # t
    BY <1>4, NextSlot
  <2>3. u + 1 = t + 1 => u = t
    OBVIOUS
  <2>. QED BY <1>2, <1>4, <1>7, <1>9, <2>1, <2>2, <2>3
<1>. QED BY <1>3, <1>8, <1>9

LEMMA Seen ==
  ASSUME MpscAssumption, NEW V \in View, NEW x \in Clock, NEW i \in Nat
  PROVE  /\ seen(V, x, i) \in View
         /\ seen(V, x, i)[x] = IF V[x] < i THEN i ELSE V[x]
         /\ \A y \in Clock \ {x} : seen(V, x, i)[y] = V[y]
         /\ \A y \in Clock : seen(V, x, i)[y] >= V[y]
BY DEF View, seen

(* A time that is not older than what has been seen.                       *)
LEMMA SeenNew ==
  ASSUME MpscAssumption, NEW V \in View, NEW x \in Clock, NEW i \in Nat, V[x] <= i
  PROVE  /\ seen(V, x, i) \in View /\ seen(V, x, i)[x] = i
         /\ \A y \in Clock \ {x} : seen(V, x, i)[y] = V[y]
<1>1. V[x] \in Nat
  BY DEF View
<1>2. (IF V[x] < i THEN i ELSE V[x]) = i
  BY <1>1
<1>3. PICK w : w = IF V[x] < i THEN i ELSE V[x]
  OBVIOUS
<1>4. seen(V, x, i)[x] = w
  BY <1>3, Seen
<1>. QED BY <1>2, <1>3, <1>4, Seen

LEMMA Joined ==
  ASSUME NEW V \in View, NEW U \in View
  PROVE  /\ join(V, U) \in View
         /\ \A x \in Clock : join(V, U)[x] = IF V[x] < U[x] THEN U[x] ELSE V[x]
BY DEF View, join

(* A load gives a view of messages there are, that is no older than before *)
(* and no older than what the message releases.                            *)
LEMMA Loaded ==
  ASSUME MpscAssumption, Inv, NEW th \in Thread, NEW l \in Loc, NEW i \in canLoad(th, l),
         NEW o \in {"Relaxed", "Acquire"}, NEW V, V = loadView(cur[th], l, i, o),
         o = "Acquire" => Bounded(hist[l][i].rview)
  PROVE  /\ i \in 1..Last(l) /\ V \in View /\ Bounded(V) /\ V[l] >= i
         /\ \A x \in Clock : V[x] >= cur[th][x]
         /\ o = "Acquire" => \A x \in Clock : V[x] >= hist[l][i].rview[x]
         /\ o = "Relaxed" => V[l] = i
<1>1. /\ cur[th] \in View /\ Bounded(cur[th]) /\ l \in Clock
      /\ \A x \in Clock : cur[th][x] \in Nat
  BY Sizes, Locations
<1>2. i \in 1..Last(l) /\ cur[th][l] <= i /\ i \in Nat
  <2>1. Last(l) \in Nat /\ cur[th][l] \in 1..Last(l)
    BY <1>1, Sizes DEF Bounded
  <2>. QED BY <2>1 DEF canLoad
<1>. DEFINE U == seen(cur[th], l, i)
<1>3. /\ U \in View /\ U[l] = i /\ \A x \in Clock \ {l} : U[x] = cur[th][x]
      /\ \A x \in Clock : U[x] >= cur[th][x]
  <2>1. (IF cur[th][l] < i THEN i ELSE cur[th][l]) = i
    BY <1>1, <1>2
  <2>2. /\ U \in View /\ U[l] = IF cur[th][l] < i THEN i ELSE cur[th][l]
        /\ \A x \in Clock \ {l} : U[x] = cur[th][x]
        /\ \A x \in Clock : U[x] >= cur[th][x]
    BY <1>1, <1>2, Seen
  <2>. QED BY <2>1, <2>2
<1>4. Bounded(U)
  BY <1>1, <1>2, <1>3, Locations DEF Bounded
<1>. HIDE DEF U
<1>5. CASE o = "Relaxed"
  <2>1. V = U
    BY <1>5 DEF loadView, Acquires, U
  <2>. QED BY <1>2, <1>3, <1>4, <1>5, <2>1
<1>6. CASE o = "Acquire"
  <2>. DEFINE W == hist[l][i].rview
  <2>1. V = join(U, W) /\ W \in View /\ Bounded(W)
    BY <1>6 DEF loadView, Acquires, U, Bounded
  <2>. HIDE DEF W
  <2>2. V \in View /\ \A x \in Clock : V[x] = IF U[x] < W[x] THEN W[x] ELSE U[x]
    BY <1>3, <2>1, Joined
  <2>3. \A x \in Clock : U[x] \in Nat /\ W[x] \in Nat /\ cur[th][x] \in Nat
    BY <1>1, <1>3, <2>1 DEF View
  <2>4. Bounded(V)
    BY <1>4, <2>1, <2>2, Locations DEF Bounded
  <2>5. \A x \in Clock : V[x] >= cur[th][x] /\ V[x] >= W[x]
    BY <1>3, <2>2, <2>3
  <2>6. V[l] >= i
    BY <1>1, <1>2, <1>3, <2>2, <2>3
  <2>. QED BY <1>2, <1>6, <2>2, <2>4, <2>5, <2>6 DEF W
<1>. QED BY <1>5, <1>6

-----------------------------------------------------------------------------
(* The value of a ticket that is published is settled.                     *)
LEMMA Settled ==
  ASSUME MpscAssumption, Inv
  PROVE  /\ \A k \in Nat : Empty(k) => Full(k)
         /\ \A k \in Nat : k < H => Full(k)
         /\ pc[C] \in {"pop_read", "pop_free", "pop_head"} => Full(reg[C].h)
         /\ H <= T
<1>1. ASSUME NEW k \in Nat, Empty(k) PROVE Full(k)
  BY <1>1, Stamps
<1>2. ASSUME NEW k \in Nat, k < Popped PROVE Full(k)
  BY <1>1, <1>2 DEF Inv, Laps, Lap
<1>3. H <= Popped /\ H \in Nat /\ T \in Nat
  BY Sizes DEF Popped
<1>4. \A k \in Nat : k < H => Full(k)
  BY <1>2, <1>3, Sizes
<1>5. reg[C].h \in Nat
  BY DEF Inv, TypeOK
<1>6. ASSUME pc[C] \in {"pop_read", "pop_free"} PROVE Full(reg[C].h)
  BY <1>5, <1>6, Stamps DEF Inv, Consumes
<1>7. ASSUME pc[C] = "pop_head" PROVE Full(reg[C].h)
  BY <1>2, <1>3, <1>5, <1>7 DEF Inv, Consumes, Popped
<1>8. H <= T
  <2>1. H > 0 => Full(H - 1)
    BY <1>3, <1>4
  <2>2. H > 0 => H - 1 < T
    BY <1>3, <2>1 DEF Inv, Laps, Lap
  <2>. QED BY <1>3, <2>2
<1>. QED BY <1>1, <1>4, <1>6, <1>7, <1>8

(* Memory only grows.                                                      *)
Grown ==
  /\ \A l \in Loc : Last(l)' \in Nat /\ Last(l)' >= Last(l)
  /\ reads' \in [Cell -> Nat] /\ \A c \in Cell : reads'[c] >= reads[c]

LEMMA BoundedStays == ASSUME MpscAssumption, Inv, Grown, NEW V, Bounded(V) PROVE Bounded(V)'
<1>1. /\ V \in View /\ \A l \in Loc : V[l] \in 1..Last(l)
      /\ \A c \in Cell : V[ReadOf(c)] <= reads[c] /\ V[ReadOf(c)] \in Nat
  BY Locations DEF Bounded, View
<1>2. \A l \in Loc : V[l] \in 1..Last(l)'
  BY <1>1, Sizes DEF Grown
<1>3. \A c \in Cell : V[ReadOf(c)] <= reads'[c]
  BY <1>1, Sizes DEF Grown
<1>. QED BY <1>1, <1>2, <1>3 DEF Bounded

LEMMA ViewsStay ==
  ASSUME MpscAssumption, Inv, Grown, NEW th \in Thread, NEW V \in View, cur' = [cur EXCEPT ![th] = V],
         \A l \in Loc : V[l] \in 1..Last(l)', \A c \in Cell : V[ReadOf(c)] <= reads'[c]
  PROVE  /\ cur' \in [Thread -> View] /\ cur'[th] = V
         /\ \A u \in Thread \ {th} : cur'[u] = cur[u]
         /\ \A u \in Thread : Bounded(cur[u])'
<1>1. /\ cur' \in [Thread -> View] /\ cur'[th] = V
      /\ \A u \in Thread \ {th} : cur'[u] = cur[u]
  BY DEF Inv, TypeOK
<1>2. Bounded(cur[th])'
  BY <1>1 DEF Bounded
<1>3. ASSUME NEW u \in Thread \ {th} PROVE Bounded(cur[u])'
  <2>1. PICK U : U = cur[u]
    OBVIOUS
  <2>2. Bounded(U)'
    BY <2>1, BoundedStays, Sizes
  <2>3. cur'[u] = U
    BY <1>1, <2>1
  <2>. QED BY <2>2, <2>3 DEF Bounded
<1>. QED BY <1>1, <1>2, <1>3

LEMMA MessagesStay ==
  ASSUME MpscAssumption, Inv, Grown, \A t \in Nat : hist'[stamp(t)] = hist[stamp(t)],
         \A i \in 1..Last(tail)' : hist'[tail][i].val = i - 1,
         \A i \in 1..Last(head)' : hist'[head][i].val = i - 1
  PROVE  Messages'
<1>1. ASSUME NEW t \in Nat, NEW j \in 1..Last(stamp(t))'
      PROVE  StampMessage(t, j, hist[stamp(t)][j])'
  <2>1. Last(stamp(t))' = Last(stamp(t)) /\ hist'[stamp(t)][j] = hist[stamp(t)][j]
    BY DEF Last
  <2>2. PICK m : m = hist[stamp(t)][j]
    OBVIOUS
  <2>3. StampMessage(t, j, m) /\ m = hist'[stamp(t)][j]
    BY <1>1, <2>1, <2>2 DEF Inv, Messages
  <2>4. PICK U : U = m.rview
    OBVIOUS
  <2>5. Bounded(U)'
    BY <2>3, <2>4, BoundedStays DEF StampMessage
  <2>. QED BY <2>3, <2>4, <2>5 DEF StampMessage, Bounded
<1>. QED BY <1>1 DEF Messages

LEMMA StampsStay ==
  ASSUME MpscAssumption, \A t \in Nat : Last(stamp(t))' = Last(stamp(t))
  PROVE  \A t \in Nat : /\ Published(t)' = Published(t) /\ Freed(t)' = Freed(t)
                        /\ (Full(t)' <=> Full(t)) /\ (Empty(t)' <=> Empty(t))
BY DEF Published, Freed, Full, Empty

(* A load.                                                                 *)
Still == hist' = hist /\ reads' = reads /\ race' = race /\ rel' = rel

LEMMA StillMemory ==
  ASSUME MpscAssumption, Inv, Still
  PROVE  /\ Grown /\ Messages' /\ NoRace' /\ T' = T /\ H' = H
         /\ \A l \in Loc : Last(l)' = Last(l) /\ latest(l)' = latest(l)
         /\ \A t \in Nat : Last(stamp(t))' = Last(stamp(t))
<1>1. T' = T /\ H' = H /\ NoRace'
  BY DEF Still, Last, T, H, Inv, NoRace
<1>2. \A l : Last(l)' = Last(l) /\ latest(l)' = latest(l)
  BY DEF Still, Last, latest, val
<1>3. Grown
  BY <1>2, Sizes DEF Still, Grown, Inv, TypeOK
<1>4. Messages'
  BY <1>2, <1>3, MessagesStay DEF Still, Inv, Messages
<1>. QED BY <1>1, <1>2, <1>3, <1>4

(* What keeps the lap of a slot.                                           *)
LEMMA LapStays ==
  ASSUME MpscAssumption, Inv, NEW x \in Nat, Last(stamp(x))' = Last(stamp(x)),
         Popped' = Popped, T' \in Nat, T' >= T, reads'[cell(x)] = reads[cell(x)],
         AtFree(x)' <=> AtFree(x), AtPublish(x) => AtPublish(x)',
         Last(cell(x))' = Last(cell(x)), latest(cell(x))' = latest(cell(x)),
         Full(x) => out'.sent[x + 1] = out.sent[x + 1]
  PROVE  Lap(x)'
<1>1. Lap(x) /\ T \in Nat
  BY Sizes DEF Inv, Laps
<1>2. /\ Published(x)' = Published(x) /\ Freed(x)' = Freed(x)
      /\ (Full(x)' <=> Full(x)) /\ (Empty(x)' <=> Empty(x))
  BY DEF Published, Freed, Full, Empty
<1>. QED BY <1>1, <1>2 DEF Lap

LEMMA PushStampStep == ASSUME MpscAssumption, Inv, NEW th \in Producer, PushStamp(th) PROVE Inv'
<1>1. PICK t \in Nat : t = reg[th].t
  BY DEF Inv, TypeOK
<1>. DEFINE l == stamp(t)
<1>2. PICK i \in canLoad(th, l) : Load(th, l, i, "Acquire") /\ Set(th, "s", val(l, i))
  BY <1>1 DEF PushStamp, LoadInto
<1>3. th \in Thread /\ C \in Thread /\ C # th /\ l \in Loc
  BY Sizes, Locations
<1>4. pc[th] = "push_stamp" /\ calls' = calls
  BY DEF PushStamp, From
<1>5. PICK V : V = loadView(cur[th], l, i, "Acquire")
  OBVIOUS
<1>6. Still /\ cur' = [cur EXCEPT ![th] = V] /\ reg' = [reg EXCEPT ![th]["s"] = val(l, i)]
  BY <1>2, <1>5 DEF Load, Set, Still
<1>7. i \in 1..Last(l)
  <2>1. cur[th][l] \in 1..Last(l) /\ Last(l) \in Nat
    BY <1>3, Sizes DEF Bounded
  <2>. QED BY <2>1 DEF canLoad
<1>8. PICK m : m = hist[l][i]
  OBVIOUS
<1>9. /\ m \in Message /\ Bounded(m.rview)
      /\ m.val = t => i = 2 * lap(t) + 1 /\ m.rview[cell(t)] > lap(t) /\ m.rview[ReadOf(cell(t))] > lap(t)
  BY <1>7, <1>8, StampSays
<1>10. /\ V \in View /\ Bounded(V) /\ V[l] >= i
       /\ \A x \in Clock : V[x] >= cur[th][x] /\ V[x] >= m.rview[x]
  BY <1>3, <1>5, <1>8, <1>9, Loaded
<1>11. /\ Grown /\ Messages' /\ NoRace' /\ T' = T /\ H' = H
       /\ \A x \in Loc : Last(x)' = Last(x) /\ latest(x)' = latest(x)
       /\ \A x \in Nat : Last(stamp(x))' = Last(stamp(x))
  BY <1>6, StillMemory
<1>12. /\ cur' \in [Thread -> View] /\ cur'[th] = V /\ \A u \in Thread \ {th} : cur'[u] = cur[u]
       /\ \A u \in Thread : Bounded(cur[u])'
  <2>1. /\ \A x \in Loc : V[x] \in 1..Last(x)' /\ \A c \in Cell : V[ReadOf(c)] <= reads'[c]
    BY <1>6, <1>10, <1>11 DEF Bounded, Still
  <2>. QED BY <1>3, <1>6, <1>10, <1>11, <2>1, ViewsStay
<1>13. /\ reg' \in [Thread -> [Local -> Datum]] /\ reg'[th].t = t /\ reg'[th].s = m.val
       /\ \A u \in Thread \ {th} : reg'[u] = reg[u]
  BY <1>1, <1>3, <1>6, <1>8, <1>9 DEF Inv, TypeOK, Local, val, Message
<1>14. /\ t < T /\ out.sent[t + 1] = <<th, calls[th]>> /\ ~Full(t)
  BY <1>1, <1>4 DEF Inv, Tickets, Ticket
<1>15. PICK to \in {"idle", "push_write"} : pc' = [pc EXCEPT ![th] = to] /\ (to = "push_write" <=> m.val = t)
  BY <1>1, <1>13 DEF PushStamp, Goto, NotMyLap
<1>16. /\ pc'[th] = to /\ \A u \in Thread \ {th} : pc'[u] = pc[u]
       /\ pc' \in [Thread -> ProducerLabel \cup ConsumerLabel]
  BY <1>3, <1>15 DEF Inv, TypeOK, ProducerLabel
<1>17. /\ out' \in [{"sent", "got"} -> Seq(Datum)] /\ Len(out'.sent) = T /\ out'.got = out.got
       /\ \A x \in Nat : x < T /\ x # t => out'.sent[x + 1] = out.sent[x + 1]
       /\ IF to = "idle" THEN out'.sent[t + 1] = Refused ELSE out'.sent = out.sent
  <2>1. out \in [{"sent", "got"} -> Seq(Datum)] /\ Len(out.sent) = T /\ T \in Nat
    BY Sizes DEF Inv, TypeOK
  <2>2. CASE to = "idle"
    <3>1. out' = [out EXCEPT !.sent = [out.sent EXCEPT ![t + 1] = Refused]]
      BY <1>1, <1>13, <1>15, <2>2 DEF PushStamp, NotMyLap
    <3>2. Refused \in Datum /\ t + 1 \in 1..Len(out.sent)
      BY <1>14, <2>1 DEF Datum
    <3>3. PICK q : q = [out.sent EXCEPT ![t + 1] = Refused]
      OBVIOUS
    <3>4. q \in Seq(Datum) /\ Len(q) = T /\ \A j \in 1..T : q[j] = IF j = t + 1 THEN Refused ELSE out.sent[j]
      BY <2>1, <3>2, <3>3, ExceptSeq
    <3>5. out'.sent = q /\ out'.got = out.got /\ out' \in [{"sent", "got"} -> Seq(Datum)]
      BY <2>1, <3>1, <3>3, <3>4
    <3>. QED BY <1>14, <2>1, <2>2, <3>4, <3>5
  <2>3. CASE to = "push_write"
    <3>1. out' = out
      BY <1>1, <1>13, <1>15, <2>3 DEF PushStamp, NotMyLap
    <3>. QED BY <2>1, <2>3, <3>1
  <2>. QED BY <2>2, <2>3
<1>18. TypeOK'
  <2>1. hist' \in [Loc -> Seq(Message)] /\ (\A x \in Loc : hist'[x] # <<>>) /\ reads' \in [Cell -> Nat]
    BY <1>6 DEF Inv, TypeOK, Still
  <2>2. /\ pc'[C] \in ConsumerLabel /\ \A u \in Producer : pc'[u] \in ProducerLabel
        /\ reg'[C].h \in Nat /\ \A u \in Producer : reg'[u].t \in Nat
    BY <1>1, <1>3, <1>13, <1>15, <1>16, Sizes DEF Inv, TypeOK, ProducerLabel
  <2>3. Len(out.got)' = H
    BY <1>17 DEF Inv, TypeOK
  <2>. QED BY <1>4, <1>6, <1>11, <1>12, <1>13, <1>16, <1>17, <2>1, <2>2, <2>3 DEF Inv, TypeOK, Still
<1>. HIDE DEF l
<1>19. \A x \in Nat : Full(x) => x # t /\ x < T
  BY <1>14 DEF Inv, Laps, Lap
<1>20. Popped' = Popped
  BY <1>3, <1>11, <1>16 DEF Popped
<1>21. \A x \in Nat : /\ Published(x)' = Published(x) /\ Freed(x)' = Freed(x)
                      /\ (Full(x)' <=> Full(x)) /\ (Empty(x)' <=> Empty(x))
  BY <1>11, StampsStay
<1>22. Laps'
  <2>1. SUFFICES ASSUME NEW x \in Nat PROVE Lap(x)'
    BY DEF Laps
  <2>2. Full(x) => out'.sent[x + 1] = out.sent[x + 1]
    BY <1>17, <1>19
  <2>3. AtPublish(x) => AtPublish(x)'
    BY <1>4, <1>13, <1>16, Sizes DEF AtPublish
  <2>4. AtFree(x)' <=> AtFree(x)
    BY <1>3, <1>13, <1>16 DEF AtFree
  <2>5. Last(cell(x))' = Last(cell(x)) /\ latest(cell(x))' = latest(cell(x))
    BY <1>11, Locations
  <2>6. T' \in Nat /\ T' >= T /\ reads'[cell(x)] = reads[cell(x)]
    BY <1>6, <1>11, Sizes DEF Still
  <2>. QED BY <1>11, <1>20, <2>2, <2>3, <2>4, <2>5, <2>6, LapStays
<1>23. Tickets'
  <2>1. ASSUME NEW u \in Producer, u # th PROVE Ticket(u)'
    <3>1. /\ u \in Thread \ {th} /\ reg'[u] = reg[u] /\ pc'[u] = pc[u] /\ cur'[u] = cur[u]
          /\ reg[u].t \in Nat /\ Ticket(u) /\ (pc[u] # "idle" => reg[u].t # t)
      BY <1>1, <1>4, <1>12, <1>13, <1>16, <2>1, Sizes DEF Inv, TypeOK, Tickets
    <3>2. pc[u] # "idle" => out'.sent[reg[u].t + 1] = out.sent[reg[u].t + 1]
      BY <1>17, <3>1 DEF Ticket
    <3>. QED BY <1>4, <1>11, <1>21, <3>1, <3>2, Locations DEF Ticket
  <2>2. Ticket(th)'
    <3>1. CASE to = "idle"
      BY <1>16, <3>1 DEF Ticket
    <3>2. CASE to = "push_write"
      <4>1. /\ i = 2 * lap(t) + 1 /\ m.rview[cell(t)] > lap(t) /\ m.rview[ReadOf(cell(t))] > lap(t)
        BY <1>9, <1>15, <3>2
      <4>2. Last(stamp(t)) = 2 * lap(t) + 1 /\ V[stamp(t)] = 2 * lap(t) + 1
        <5>1. Last(stamp(t)) < 2 * lap(t) + 2 /\ lap(t) \in Nat /\ Last(stamp(t)) \in Nat
          BY <1>14, Stamps
        <5>2. V[stamp(t)] \in 1..Last(stamp(t))
          BY <1>10, Locations DEF Bounded
        <5>. QED BY <1>7, <1>10, <4>1, <5>1, <5>2 DEF l
      <4>3. V[cell(t)] > lap(t) /\ V[ReadOf(cell(t))] > lap(t)
        <5>1. cell(t) \in Clock /\ ReadOf(cell(t)) \in Clock /\ lap(t) \in Nat
          BY Locations, Stamps
        <5>2. \A x \in Clock : V[x] \in Nat /\ m.rview[x] \in Nat
          BY <1>9, <1>10 DEF View, Bounded
        <5>. QED BY <1>10, <4>1, <5>1, <5>2
      <4>. QED BY <1>4, <1>11, <1>12, <1>13, <1>14, <1>16, <1>17, <1>21, <3>2, <4>2, <4>3 DEF Ticket
    <3>. QED BY <3>1, <3>2
  <2>3. \A u, v \in Producer :
          pc'[u] # "idle" /\ pc'[v] # "idle" /\ reg'[u].t = reg'[v].t => u = v
    BY <1>1, <1>4, <1>13, <1>16, Sizes DEF Inv, Tickets
  <2>. QED BY <2>1, <2>2, <2>3 DEF Tickets
<1>24. Consumes'
  <2>1. reg'[C] = reg[C] /\ pc'[C] = pc[C] /\ cur'[C] = cur[C] /\ reg[C].h \in Nat
    BY <1>3, <1>12, <1>13, <1>16 DEF Inv, TypeOK
  <2>2. pc[C] \in {"pop_free", "pop_head"} => out'.sent[reg[C].h + 1] = out.sent[reg[C].h + 1]
    BY <1>17, <1>19, <2>1, Settled
  <2>. QED BY <1>11, <2>1, <2>2, Locations DEF Inv, Consumes
<1>25. Outcomes'
  <2>1. ASSUME NEW x \in 0..(T - 1)
        PROVE  \/ Full(x) \/ out'.sent[x + 1] = Refused
               \/ \E u \in Producer : pc'[u] # "idle" /\ reg'[u].t = x
    <3>1. CASE x = t
      BY <1>13, <1>15, <1>16, <1>17, <3>1
    <3>2. CASE x # t
      <4>1. out'.sent[x + 1] = out.sent[x + 1]
        BY <1>17, <3>2, Sizes
      <4>2. \A u \in Producer : pc[u] # "idle" /\ reg[u].t = x => pc'[u] # "idle" /\ reg'[u].t = x
        BY <1>1, <1>13, <1>16, <3>2, Sizes
      <4>. QED BY <4>1, <4>2 DEF Inv, Outcomes
    <3>. QED BY <3>1, <3>2
  <2>2. ASSUME NEW k \in 1..H PROVE out'.got[k] = out'.sent[k]
    <3>1. k - 1 \in Nat /\ k - 1 < H /\ (k - 1) + 1 = k
      BY Sizes
    <3>2. Full(k - 1)
      BY <3>1, Settled
    <3>3. out'.sent[(k - 1) + 1] = out.sent[(k - 1) + 1]
      BY <1>17, <1>19, <3>1, <3>2
    <3>. QED BY <1>17, <3>1, <3>3 DEF Inv, Outcomes
  <2>3. \A x \in 0..(T - 1) : Full(x)' <=> Full(x)
    BY <1>21, Sizes
  <2>. QED BY <1>11, <2>1, <2>2, <2>3 DEF Outcomes
<1>. QED BY <1>11, <1>18, <1>22, <1>23, <1>24, <1>25 DEF Inv

-----------------------------------------------------------------------------
(* A message more of one location.                                         *)
LEMMA Stored ==
  ASSUME MpscAssumption, Inv, NEW l \in Loc, NEW m \in Message,
         hist' = [hist EXCEPT ![l] = Append(@, m)]
  PROVE  /\ hist' \in [Loc -> Seq(Message)] /\ \A x \in Loc : hist'[x] # <<>>
         /\ Last(l)' = Last(l) + 1 /\ hist'[l][Last(l) + 1] = m /\ latest(l)' = m.val
         /\ \A j \in 1..Last(l) : hist'[l][j] = hist[l][j]
         /\ \A x \in Loc \ {l} : hist'[x] = hist[x] /\ Last(x)' = Last(x) /\ latest(x)' = latest(x)
         /\ \A x \in Loc : Last(x)' \in Nat /\ Last(x)' >= Last(x)
<1>1. hist \in [Loc -> Seq(Message)] /\ hist[l] \in Seq(Message) /\ \A x \in Loc : hist[x] # <<>>
  BY DEF Inv, TypeOK
<1>2. PICK q : q = Append(hist[l], m)
  OBVIOUS
<1>3. /\ q \in Seq(Message) /\ q # <<>> /\ Len(q) = Len(hist[l]) + 1
      /\ (\A j \in 1..Len(hist[l]) : q[j] = hist[l][j]) /\ q[Len(hist[l]) + 1] = m
  BY <1>1, <1>2, AppendProperties
<1>4. hist'[l] = q /\ \A x \in Loc \ {l} : hist'[x] = hist[x]
  BY <1>1, <1>2
<1>5. hist' \in [Loc -> Seq(Message)] /\ \A x \in Loc : hist'[x] # <<>>
  BY <1>1, <1>2, <1>3, <1>4
<1>6. Last(l)' = Last(l) + 1 /\ hist'[l][Last(l) + 1] = m
  BY <1>3, <1>4 DEF Last
<1>7. latest(l)' = m.val
  BY <1>3, <1>4 DEF latest, val, Last
<1>8. \A x \in Loc \ {l} : Last(x)' = Last(x) /\ latest(x)' = latest(x)
  BY <1>4 DEF latest, val, Last
<1>9. \A j \in 1..Last(l) : hist'[l][j] = hist[l][j]
  BY <1>3, <1>4 DEF Last
<1>10. \A x \in Loc : Last(x)' \in Nat /\ Last(x)' >= Last(x)
  BY <1>6, <1>8, Sizes
<1>. QED BY <1>4, <1>5, <1>6, <1>7, <1>8, <1>9, <1>10

LEMMA TakeTicketStep == ASSUME MpscAssumption, Inv, NEW th \in Producer, TakeTicket(th) PROVE Inv'
<1>1. th \in Thread /\ C \in Thread /\ C # th /\ tail \in Loc /\ tail # head
      /\ Last(tail) \in Nat \ {0} /\ T \in Nat /\ T = Last(tail) - 1
  BY Sizes, Locations DEF T
<1>2. /\ pc[th] = "idle" /\ calls' = [calls EXCEPT ![th] = @ + 1]
      /\ pc' = [pc EXCEPT ![th] = "push_stamp"]
  BY DEF TakeTicket, Call, Goto
<1>3. PICK k \in Nat : k = T
  BY <1>1
<1>4. PICK n \in Nat : n = k + 2
  OBVIOUS
<1>5. Last(tail) = k + 1 /\ Last(tail) = n - 1 /\ n - 1 = k + 1 /\ Last(tail) + 1 = n
  BY <1>1, <1>3, <1>4
<1>6. latest(tail) = k
  BY <1>5 DEF Inv, Messages, latest, val
<1>7. PICK V : V = seen(loadView(cur[th], tail, n - 1, "Relaxed"), tail, n)
  OBVIOUS
<1>8. PICK m : m = [val |-> k + 1,
                    rview |-> join(hist[tail][n - 1].rview, seen(rel[th], tail, n))]
  OBVIOUS
<1>9. /\ hist' = [hist EXCEPT ![tail] = Append(@, m)] /\ cur' = [cur EXCEPT ![th] = V]
      /\ rel' = rel /\ reads' = reads /\ race' = race
      /\ reg' = [reg EXCEPT ![th]["t"] = k]
      /\ out' = [out EXCEPT !.sent = Append(@, <<th, calls'[th]>>)]
  BY <1>6, <1>7, <1>8, <1>5 DEF TakeTicket, Update, released, Releases, Set
<1>10. cur[th] \in View /\ Bounded(cur[th]) /\ rel[th] \in View /\ tail \in Clock
       /\ hist[tail][n - 1] \in Message
  BY <1>1, <1>5, Sizes, Locations DEF Inv, TypeOK, Last
<1>11. V \in View /\ V[tail] = n /\ \A x \in Clock \ {tail} : V[x] = cur[th][x]
  <2>1. PICK U : U = loadView(cur[th], tail, n - 1, "Relaxed")
    OBVIOUS
  <2>2. U = seen(cur[th], tail, n - 1)
    BY <2>1 DEF loadView, Acquires
  <2>3. V = seen(U, tail, n)
    BY <1>7, <2>1
  <2>4. cur[th][tail] \in 1..Last(tail)
    BY <1>1, <1>10 DEF Bounded
  <2>5. cur[th][tail] <= n - 1 /\ n - 1 \in Nat /\ n - 1 <= n
    BY <1>5, <2>4
  <2>6. U \in View /\ U[tail] = n - 1 /\ \A x \in Clock \ {tail} : U[x] = cur[th][x]
    BY <1>10, <2>2, <2>5, SeenNew
  <2>7. V \in View /\ V[tail] = n /\ \A x \in Clock \ {tail} : V[x] = U[x]
    BY <1>10, <2>3, <2>5, <2>6, SeenNew
  <2>. QED BY <2>6, <2>7
<1>12. m \in Message
  <2>1. seen(rel[th], tail, n) \in View
    BY <1>1, <1>10, Seen
  <2>2. join(hist[tail][n - 1].rview, seen(rel[th], tail, n)) \in View
    BY <1>10, <2>1, Joined DEF Message
  <2>. QED BY <1>1, <1>8, <2>2 DEF Message, Datum
<1>13. /\ hist' \in [Loc -> Seq(Message)] /\ \A x \in Loc : hist'[x] # <<>>
       /\ Last(tail)' = n /\ hist'[tail][n] = m
       /\ \A j \in 1..Last(tail) : hist'[tail][j] = hist[tail][j]
       /\ \A x \in Loc \ {tail} : hist'[x] = hist[x] /\ Last(x)' = Last(x) /\ latest(x)' = latest(x)
       /\ \A x \in Loc : Last(x)' \in Nat /\ Last(x)' >= Last(x)
  BY <1>1, <1>9, <1>12, <1>5, Stored
<1>14. Grown
  BY <1>9, <1>13, Sizes DEF Grown, Inv, TypeOK
<1>15. T' = k + 1 /\ H' = H /\ \A x \in Nat : Last(stamp(x))' = Last(stamp(x))
  BY <1>1, <1>13, <1>4, <1>5, Locations DEF T, H
<1>16. Messages'
  <2>1. \A j \in 1..Last(tail)' : hist'[tail][j].val = j - 1
    BY <1>8, <1>13, <1>5, SMTT(40) DEF Inv, Messages
  <2>2. \A j \in 1..Last(head)' : hist'[head][j].val = j - 1
    BY <1>1, <1>13, Locations DEF Inv, Messages
  <2>. QED BY <1>13, <1>14, <2>1, <2>2, Locations, MessagesStay
<1>17. /\ cur' \in [Thread -> View] /\ cur'[th] = V /\ \A u \in Thread \ {th} : cur'[u] = cur[u]
       /\ \A u \in Thread : Bounded(cur[u])'
  <2>1. ASSUME NEW x \in Loc PROVE V[x] \in 1..Last(x)'
    <3>1. CASE x = tail
      BY <1>11, <1>13, <3>1 DEF Last
    <3>2. CASE x # tail
      <4>1. x \in Clock \ {tail} /\ cur[th][x] \in 1..Last(x)
        BY <1>10, <3>2, Locations DEF Bounded
      <4>. QED BY <1>11, <1>13, <3>2, <4>1
    <3>. QED BY <3>1, <3>2
  <2>2. \A c \in Cell : V[ReadOf(c)] <= reads'[c]
    BY <1>1, <1>9, <1>10, <1>11, Locations DEF Bounded
  <2>. QED BY <1>1, <1>9, <1>11, <1>14, <2>1, <2>2, ViewsStay
<1>18. /\ reg' \in [Thread -> [Local -> Datum]] /\ reg'[th].t = k
       /\ \A u \in Thread \ {th} : reg'[u] = reg[u]
  BY <1>1, <1>9 DEF Inv, TypeOK, Local, Datum
<1>19. /\ pc'[th] = "push_stamp" /\ \A u \in Thread \ {th} : pc'[u] = pc[u]
       /\ pc' \in [Thread -> ProducerLabel \cup ConsumerLabel]
  BY <1>1, <1>2 DEF Inv, TypeOK, ProducerLabel
<1>20. /\ calls' \in [Thread -> Nat] /\ calls'[th] \in Nat /\ \A u \in Thread \ {th} : calls'[u] = calls[u]
  BY <1>1, <1>2 DEF Inv, TypeOK
<1>21. /\ out' \in [{"sent", "got"} -> Seq(Datum)] /\ Len(out'.sent) = k + 1 /\ out'.got = out.got
       /\ \A x \in 1..k : out'.sent[x] = out.sent[x]
       /\ out'.sent[k + 1] = <<th, calls'[th]>>
  <2>1. out \in [{"sent", "got"} -> Seq(Datum)] /\ Len(out.sent) = k
    BY <1>3 DEF Inv, TypeOK
  <2>2. <<th, calls'[th]>> \in Datum
    BY <1>20 DEF Datum
  <2>3. PICK q : q = Append(out.sent, <<th, calls'[th]>>)
    OBVIOUS
  <2>4. /\ q \in Seq(Datum) /\ Len(q) = k + 1 /\ \A x \in 1..k : q[x] = out.sent[x]
        /\ q[k + 1] = <<th, calls'[th]>>
    BY <2>1, <2>2, <2>3, AppendProperties
  <2>5. out'.sent = q /\ out'.got = out.got /\ out' \in [{"sent", "got"} -> Seq(Datum)]
    BY <1>9, <2>1, <2>3, <2>4
  <2>. QED BY <2>4, <2>5
<1>22. TypeOK'
  <2>1. rel' \in [Thread -> View] /\ reads' \in [Cell -> Nat]
    BY <1>9 DEF Inv, TypeOK
  <2>2. /\ pc'[C] \in ConsumerLabel /\ \A u \in Producer : pc'[u] \in ProducerLabel
        /\ reg'[C].h \in Nat /\ \A u \in Producer : reg'[u].t \in Nat
    BY <1>1, <1>18, <1>19, Sizes DEF Inv, TypeOK, ProducerLabel
  <2>3. Len(out.got)' = H' /\ Len(out.sent)' = T'
    BY <1>15, <1>21 DEF Inv, TypeOK
  <2>. QED BY <1>13, <1>17, <1>18, <1>19, <1>20, <1>21, <2>1, <2>2, <2>3 DEF TypeOK
<1>23. Popped' = Popped
  BY <1>1, <1>15, <1>19 DEF Popped
<1>24. \A x \in Nat : /\ Published(x)' = Published(x) /\ Freed(x)' = Freed(x)
                      /\ (Full(x)' <=> Full(x)) /\ (Empty(x)' <=> Empty(x))
  BY <1>15, StampsStay
<1>25. \A x \in Nat : x < k => out'.sent[x + 1] = out.sent[x + 1]
  BY <1>21
<1>26. Laps'
  <2>1. SUFFICES ASSUME NEW x \in Nat PROVE Lap(x)'
    BY DEF Laps
  <2>2. Full(x) => out'.sent[x + 1] = out.sent[x + 1]
    BY <1>25, <1>3 DEF Inv, Laps, Lap
  <2>3. AtPublish(x) => AtPublish(x)'
    BY <1>2, <1>18, <1>19, Sizes DEF AtPublish
  <2>4. AtFree(x)' <=> AtFree(x)
    BY <1>1, <1>18, <1>19 DEF AtFree
  <2>5. cell(x) \in Loc \ {tail}
    BY Locations
  <2>6. Last(cell(x))' = Last(cell(x)) /\ latest(cell(x))' = latest(cell(x))
    BY <1>13, <2>5
  <2>7. T' \in Nat /\ T' >= T /\ reads'[cell(x)] = reads[cell(x)]
    BY <1>9, <1>15, <1>3
  <2>. QED BY <1>15, <1>23, <2>2, <2>3, <2>4, <2>6, <2>7, LapStays
<1>27. Tickets'
  <2>1. ASSUME NEW u \in Producer, u # th PROVE Ticket(u)'
    <3>1. /\ u \in Thread \ {th} /\ reg'[u] = reg[u] /\ pc'[u] = pc[u] /\ cur'[u] = cur[u]
          /\ calls'[u] = calls[u] /\ reg[u].t \in Nat /\ Ticket(u)
      BY <1>17, <1>18, <1>19, <1>20, <2>1, Sizes DEF Inv, TypeOK, Tickets
    <3>2. /\ cell(reg[u].t) \in Loc \ {tail} 
      BY <1>1, <3>1, Locations
    <3>3. pc[u] # "idle" => reg[u].t < k + 1 /\ out'.sent[reg[u].t + 1] = out.sent[reg[u].t + 1]
      BY <1>25, <1>3, <3>1 DEF Ticket
    <3>. QED BY <1>13, <1>15, <1>24, <3>1, <3>2, <3>3 DEF Ticket
  <2>2. Ticket(th)'
    <3>1. ~Full(k)
      BY <1>3 DEF Inv, Laps, Lap
    <3>2. ~Full(k)'
      BY <1>24, <3>1
    <3>3. reg'[th].t < T' /\ out'.sent[reg'[th].t + 1] = <<th, calls'[th]>>
      BY <1>15, <1>18, <1>21
    <3>. QED BY <1>18, <1>19, <3>2, <3>3 DEF Ticket
  <2>3. \A u, v \in Producer :
          pc'[u] # "idle" /\ pc'[v] # "idle" /\ reg'[u].t = reg'[v].t => u = v
    <3>1. \A u \in Producer : pc[u] # "idle" => reg[u].t # k
      BY <1>3 DEF Inv, TypeOK, Tickets, Ticket
    <3>. QED BY <1>18, <1>19, <3>1, Sizes DEF Inv, Tickets
  <2>. QED BY <2>1, <2>2, <2>3 DEF Tickets
<1>28. Consumes'
  <2>1. reg'[C] = reg[C] /\ pc'[C] = pc[C] /\ cur'[C] = cur[C] /\ reg[C].h \in Nat
    BY <1>1, <1>17, <1>18, <1>19 DEF Inv, TypeOK
  <2>2. pc[C] \in {"pop_free", "pop_head"} => out'.sent[reg[C].h + 1] = out.sent[reg[C].h + 1]
    BY <1>25, <1>3, <2>1, Settled DEF Inv, Laps, Lap
  <2>. QED BY <1>1, <1>13, <1>15, <2>1, <2>2, Locations DEF Inv, Consumes
<1>29. Outcomes'
  <2>1. ASSUME NEW x \in 0..k
        PROVE  \/ Full(x) \/ out'.sent[x + 1] = Refused
               \/ \E u \in Producer : pc'[u] # "idle" /\ reg'[u].t = x
    <3>1. CASE x = k
      BY <1>18, <1>19, <3>1
    <3>2. CASE x # k
      <4>1. x \in 0..(T - 1) /\ out'.sent[x + 1] = out.sent[x + 1]
        BY <1>25, <1>3, <3>2
      <4>2. \A u \in Producer : pc[u] # "idle" /\ reg[u].t = x => pc'[u] # "idle" /\ reg'[u].t = x
        BY <1>2, <1>18, <1>19, Sizes
      <4>. QED BY <4>1, <4>2 DEF Inv, Outcomes
    <3>. QED BY <3>1, <3>2
  <2>2. ASSUME NEW j \in 1..H PROVE out'.got[j] = out'.sent[j]
    <3>1. j \in 1..k
      BY <1>3, Settled, Sizes
    <3>. QED BY <1>21, <3>1 DEF Inv, Outcomes
  <2>3. (\A x \in 0..k : Full(x)' <=> Full(x)) /\ 0..(T' - 1) = 0..k
    BY <1>15, <1>24
  <2>. QED BY <1>15, <2>1, <2>2, <2>3 DEF Outcomes
<1>30. NoRace'
  BY <1>9 DEF Inv, NoRace
<1>. QED BY <1>16, <1>22, <1>26, <1>27, <1>28, <1>29, <1>30 DEF Inv

-----------------------------------------------------------------------------
(* A ticket that the step does not touch.                                  *)
LEMMA TicketStays ==
  ASSUME MpscAssumption, Inv, NEW u \in Producer, NEW t \in Nat, t = reg[u].t,
         reg'[u] = reg[u], pc'[u] = pc[u], cur'[u] = cur[u], calls'[u] = calls[u],
         T' = T, out'.sent = out.sent, pc[u] # "idle" => ~Full(t)',
         pc[u] \in {"push_write", "push_publish"} => Last(stamp(t))' = Last(stamp(t)),
         pc[u] = "push_publish" => Last(cell(t))' = Last(cell(t)) /\ latest(cell(t))' = latest(cell(t))
  PROVE  Ticket(u)'
<1>1. Ticket(u)
  BY DEF Inv, Tickets
<1>2. reg'[u].t = t
  OBVIOUS
<1>3. pc'[u] # "idle" => t < T' /\ out'.sent[t + 1] = <<u, calls'[u]>> /\ ~Full(t)'
  BY <1>1 DEF Ticket
<1>4. pc'[u] \in {"push_write", "push_publish"} =>
        Last(stamp(t))' = 2 * lap(t) + 1 /\ cur'[u][stamp(t)] = 2 * lap(t) + 1
  BY <1>1 DEF Ticket
<1>5. pc'[u] = "push_write" => cur'[u][cell(t)] > lap(t) /\ cur'[u][ReadOf(cell(t))] > lap(t)
  BY <1>1 DEF Ticket
<1>6. pc'[u] = "push_publish" =>
        /\ Last(cell(t))' = lap(t) + 2 /\ cur'[u][cell(t)] = lap(t) + 2
        /\ latest(cell(t))' = <<u, calls'[u]>>
  BY <1>1 DEF Ticket
<1>. QED BY <1>2, <1>3, <1>4, <1>5, <1>6 DEF Ticket

(* A step of the consumer, which stores at most into the head or into the  *)
(* stamp of its own slot.                                                  *)
ByConsumer ==
  /\ \A u \in Producer :
       reg'[u] = reg[u] /\ pc'[u] = pc[u] /\ cur'[u] = cur[u] /\ calls'[u] = calls[u]
  /\ T' = T /\ out'.sent = out.sent
  /\ \A x \in Nat : /\ (Full(x)' <=> Full(x))
                    /\ Last(cell(x))' = Last(cell(x)) /\ latest(cell(x))' = latest(cell(x))
  /\ \A u \in Producer : pc[u] \in {"push_write", "push_publish"} =>
       Last(stamp(reg[u].t))' = Last(stamp(reg[u].t))

LEMMA ProducersStay ==
  ASSUME MpscAssumption, Inv, ByConsumer
  PROVE  /\ Tickets' /\ (H' = H /\ out'.got = out.got => Outcomes')
         /\ \A x \in Nat : AtPublish(x)' <=> AtPublish(x)
<1>1. ASSUME NEW u \in Producer PROVE Ticket(u)'
  <2>1. PICK t \in Nat : t = reg[u].t
    BY DEF Inv, TypeOK
  <2>2. pc[u] # "idle" => ~Full(t)'
    BY <2>1 DEF ByConsumer, Inv, Tickets, Ticket
  <2>3. pc[u] \in {"push_write", "push_publish"} => Last(stamp(t))' = Last(stamp(t))
    <3>1. pc[u] \in {"push_write", "push_publish"} => Last(stamp(reg[u].t))' = Last(stamp(reg[u].t))
      BY DEF ByConsumer
    <3>2. reg'[u].t = t
      BY <2>1 DEF ByConsumer
    <3>. QED BY <2>1, <3>1, <3>2 DEF Last, stamp
  <2>. QED BY <2>1, <2>2, <2>3, TicketStays DEF ByConsumer
<1>2. Tickets'
  BY <1>1 DEF Tickets, ByConsumer, Inv
<1>3. ASSUME H' = H, out'.got = out.got PROVE Outcomes'
  <2>1. \A x \in 0..(T - 1) : Full(x)' <=> Full(x)
    BY Sizes DEF ByConsumer
  <2>. QED BY <1>3, <2>1 DEF ByConsumer, Inv, Outcomes
<1>4. \A x \in Nat : AtPublish(x)' <=> AtPublish(x)
  BY DEF ByConsumer, AtPublish
<1>. QED BY <1>2, <1>3, <1>4

(* A step of a producer.                                                   *)
LEMMA ConsumerStays ==
  ASSUME MpscAssumption, Inv, NEW h \in Nat, h = reg[C].h,
         reg'[C] = reg[C], pc'[C] = pc[C], cur'[C] = cur[C], H' = H, Last(head)' = Last(head),
         out'.sent = out.sent,
         pc[C] \in {"pop_read", "pop_free"} => Last(stamp(h))' = Last(stamp(h))
  PROVE  /\ Consumes' /\ Popped' = Popped
         /\ \A x \in Nat : AtFree(x)' <=> AtFree(x)
<1>1. Consumes /\ reg'[C].h = h
  BY DEF Inv
<1>2. cur'[C][head] = Last(head)' /\ (pc'[C] # "idle" => h = H')
  BY <1>1 DEF Consumes
<1>3. pc'[C] \in {"pop_read", "pop_free"} =>
        /\ Last(stamp(h))' = 2 * lap(h) + 2 /\ cur'[C][stamp(h)] = 2 * lap(h) + 2
        /\ cur'[C][cell(h)] > lap(h) + 1
  BY <1>1 DEF Consumes
<1>4. /\ pc'[C] = "pop_free" => cur'[C][ReadOf(cell(h))] > lap(h) + 1
      /\ pc'[C] \in {"pop_free", "pop_head"} => reg'[C].v = out'.sent[h + 1]
  BY <1>1 DEF Consumes
<1>5. Consumes'
  BY <1>1, <1>2, <1>3, <1>4 DEF Consumes
<1>. QED BY <1>5 DEF Popped, AtFree

-----------------------------------------------------------------------------
(* Whoever has seen its stamp has the slot for itself.                     *)
LEMMA Owned ==
  ASSUME MpscAssumption, Inv, NEW th \in Producer, pc[th] \in {"push_write", "push_publish"},
         NEW t \in Nat, t = reg[th].t
  PROVE  /\ pc[C] \in {"pop_read", "pop_free"} => slot(reg[C].h) # slot(t)
         /\ \A u \in Producer \ {th} :
              pc[u] \in {"push_write", "push_publish"} => slot(reg[u].t) # slot(t)
         /\ reads[cell(t)] = lap(t) + 1
         /\ Last(stamp(t)) = 2 * lap(t) + 1 /\ lap(t) \in Nat
<1>1. Last(stamp(t)) = 2 * lap(t) + 1 /\ lap(t) \in Nat
  BY Stamps DEF Inv, Tickets, Ticket
<1>2. ASSUME pc[C] \in {"pop_read", "pop_free"}, slot(reg[C].h) = slot(t) PROVE FALSE
  <2>1. PICK h \in Nat : h = reg[C].h
    BY DEF Inv, TypeOK
  <2>2. Last(stamp(h)) = 2 * lap(h) + 2 /\ lap(h) \in Nat
    BY <1>2, <2>1, Stamps DEF Inv, Consumes
  <2>3. stamp(h) = stamp(t)
    BY <1>2, <2>1, Locations
  <2>. QED BY <1>1, <2>2, <2>3
<1>3. ASSUME NEW u \in Producer \ {th}, pc[u] \in {"push_write", "push_publish"},
             slot(reg[u].t) = slot(t)
      PROVE  FALSE
  <2>1. PICK k \in Nat : k = reg[u].t
    BY <1>3 DEF Inv, TypeOK
  <2>2. Last(stamp(k)) = 2 * lap(k) + 1 /\ lap(k) \in Nat
    BY <1>3, <2>1, Stamps DEF Inv, Tickets, Ticket
  <2>3. stamp(k) = stamp(t) /\ slot(k) = slot(t)
    BY <1>3, <2>1, Locations
  <2>4. lap(k) = lap(t)
    BY <1>1, <2>2, <2>3
  <2>5. k = t
    BY <2>3, <2>4, SameTicket
  <2>. QED BY <1>3, <2>1, <2>5 DEF Inv, Tickets
<1>4. reads[cell(t)] = lap(t) + 1
  <2>1. ~AtFree(t) /\ Freed(t) = lap(t)
    BY <1>1, <1>2, Stamps DEF AtFree
  <2>. QED BY <2>1 DEF Inv, Laps, Lap
<1>. QED BY <1>1, <1>2, <1>3, <1>4

LEMMA PushWriteStep == ASSUME MpscAssumption, Inv, NEW th \in Producer, PushWrite(th) PROVE Inv'
<1>1. th \in Thread /\ C \in Thread /\ C # th
  BY Sizes
<1>2. /\ pc[th] = "push_write" /\ calls' = calls /\ pc' = [pc EXCEPT ![th] = "push_publish"]
      /\ reg' = reg /\ out' = out
  BY DEF PushWrite, From, Goto
<1>3. PICK t \in Nat : t = reg[th].t
  BY DEF Inv, TypeOK
<1>4. /\ pc[C] \in {"pop_read", "pop_free"} => slot(reg[C].h) # slot(t)
      /\ \A u \in Producer \ {th} :
           pc[u] \in {"push_write", "push_publish"} => slot(reg[u].t) # slot(t)
      /\ reads[cell(t)] = lap(t) + 1
      /\ Last(stamp(t)) = 2 * lap(t) + 1 /\ lap(t) \in Nat
  BY <1>2, <1>3, Owned
<1>5. PICK c \in Cell : c = cell(t)
  BY Locations
<1>6. c \in Loc /\ c \in Clock /\ ReadOf(c) \in Clock /\ c # ReadOf(c)
  BY Locations
<1>7. Last(c) = lap(t) + 1
  <2>1. ~AtPublish(t) /\ Published(t) = lap(t)
    BY <1>2, <1>4, Stamps DEF AtPublish
  <2>. QED BY <1>5, <2>1 DEF Inv, Laps, Lap
<1>8. /\ cur[th] \in View /\ Bounded(cur[th])
      /\ cur[th][c] > lap(t) /\ cur[th][ReadOf(c)] > lap(t)
  BY <1>1, <1>2, <1>3, <1>5, Sizes DEF Inv, Tickets, Ticket
<1>9. KnowsWrites(th, c) /\ KnowsReads(th, c)
  <2>1. cur[th][c] \in 1..Last(c) /\ cur[th][ReadOf(c)] <= reads[c] /\ cur[th][ReadOf(c)] \in Nat
    BY <1>6, <1>8 DEF Bounded, View
  <2>. QED BY <1>4, <1>5, <1>7, <1>8, <2>1 DEF KnowsWrites, KnowsReads
<1>10. PICK n \in Nat : n = lap(t) + 2
  BY <1>4
<1>11. PICK m : m = [val |-> <<th, calls[th]>>, rview |-> bot]
  OBVIOUS
<1>12. PICK V : V = seen(cur[th], c, n)
  OBVIOUS
<1>13. Last(c) + 1 = n
  BY <1>4, <1>7, <1>10
<1>14. /\ hist' = [hist EXCEPT ![c] = Append(@, m)] /\ cur' = [cur EXCEPT ![th] = V]
       /\ rel' = rel /\ reads' = reads /\ (race' <=> race)
  BY <1>2, <1>3, <1>5, <1>9, <1>11, <1>12, <1>13 DEF PushWrite, WriteCell
<1>15. V \in View /\ V[c] = n /\ \A x \in Clock \ {c} : V[x] = cur[th][x]
  <2>1. cur[th][c] <= n
    BY <1>4, <1>7, <1>9, <1>10 DEF KnowsWrites
  <2>. QED BY <1>6, <1>8, <1>12, <2>1, SeenNew
<1>16. m \in Message
  BY <1>1, <1>11 DEF Message, Datum, View, bot, Inv, TypeOK
<1>17. /\ hist' \in [Loc -> Seq(Message)] /\ \A x \in Loc : hist'[x] # <<>>
       /\ Last(c)' = n /\ latest(c)' = <<th, calls[th]>>
       /\ \A x \in Loc \ {c} : hist'[x] = hist[x] /\ Last(x)' = Last(x) /\ latest(x)' = latest(x)
       /\ \A x \in Loc : Last(x)' \in Nat /\ Last(x)' >= Last(x)
  BY <1>6, <1>11, <1>13, <1>14, <1>16, Stored
<1>18. Grown
  BY <1>14, <1>17, Sizes DEF Grown, Inv, TypeOK
<1>19. head \in Loc \ {c} /\ tail \in Loc \ {c} /\ \A x \in Nat : stamp(x) \in Loc \ {c}
  BY <1>5, Locations
<1>20. T' = T /\ H' = H /\ \A x \in Nat : Last(stamp(x))' = Last(stamp(x))
  BY <1>17, <1>19 DEF T, H
<1>21. Messages'
  <2>1. /\ \A x \in 1..Last(tail)' : hist'[tail][x].val = x - 1
        /\ \A x \in 1..Last(head)' : hist'[head][x].val = x - 1
    BY <1>17, <1>19 DEF Inv, Messages
  <2>. QED BY <1>17, <1>18, <1>19, <2>1, MessagesStay
<1>22. /\ cur' \in [Thread -> View] /\ cur'[th] = V /\ \A u \in Thread \ {th} : cur'[u] = cur[u]
       /\ \A u \in Thread : Bounded(cur[u])'
  <2>1. ASSUME NEW x \in Loc PROVE V[x] \in 1..Last(x)'
    <3>1. CASE x = c
      BY <1>10, <1>15, <1>17, <1>4, <3>1 DEF Last
    <3>2. CASE x # c
      <4>1. x \in Clock \ {c} /\ cur[th][x] \in 1..Last(x)
        BY <1>8, <3>2, Locations DEF Bounded
      <4>. QED BY <1>15, <1>17, <3>2, <4>1
    <3>. QED BY <3>1, <3>2
  <2>2. ASSUME NEW d \in Cell PROVE V[ReadOf(d)] <= reads'[d]
    <3>1. ReadOf(d) \in Clock \ {c} /\ cur[th][ReadOf(d)] <= reads[d]
      BY <1>6, <1>8, Locations DEF Bounded
    <3>. QED BY <1>14, <1>15, <3>1
  <2>. QED BY <1>1, <1>14, <1>15, <1>18, <2>1, <2>2, ViewsStay
<1>23. /\ pc'[th] = "push_publish" /\ \A u \in Thread \ {th} : pc'[u] = pc[u]
       /\ pc' \in [Thread -> ProducerLabel \cup ConsumerLabel]
  BY <1>1, <1>2 DEF Inv, TypeOK, ProducerLabel
<1>24. TypeOK'
  <2>1. pc'[C] \in ConsumerLabel /\ \A u \in Producer : pc'[u] \in ProducerLabel
    BY <1>1, <1>23, Sizes DEF Inv, TypeOK, ProducerLabel
  <2>2. rel' \in [Thread -> View] /\ reads' \in [Cell -> Nat]
    BY <1>14 DEF Inv, TypeOK
  <2>3. /\ reg' \in [Thread -> [Local -> Datum]]
        /\ reg'[C].h \in Nat /\ \A u \in Producer : reg'[u].t \in Nat
        /\ calls' \in [Thread -> Nat] /\ out' \in [{"sent", "got"} -> Seq(Datum)]
    BY <1>2 DEF Inv, TypeOK
  <2>4. Len(out.sent)' = T' /\ Len(out.got)' = H'
    BY <1>2, <1>20 DEF Inv, TypeOK
  <2>. QED BY <1>17, <1>22, <1>23, <2>1, <2>2, <2>3, <2>4 DEF TypeOK
<1>25. \A x \in Nat : (Full(x)' <=> Full(x)) /\ (Empty(x)' <=> Empty(x))
  BY <1>20, StampsStay
<1>26. Consumes' /\ Popped' = Popped /\ \A x \in Nat : AtFree(x)' <=> AtFree(x)
  <2>1. PICK h \in Nat : h = reg[C].h
    BY DEF Inv, TypeOK
  <2>2. Last(head)' = Last(head) /\ Last(stamp(h))' = Last(stamp(h))
    BY <1>17, <1>19
  <2>. QED BY <1>1, <1>2, <1>20, <1>22, <1>23, <2>1, <2>2, ConsumerStays
<1>27. Laps'
  <2>1. SUFFICES ASSUME NEW x \in Nat PROVE Lap(x)'
    BY DEF Laps
  <2>2. AtPublish(x) => AtPublish(x)'
    BY <1>1, <1>2, <1>23, Sizes DEF AtPublish
  <2>3. CASE slot(x) # slot(t)
    <3>1. cell(x) \in Loc \ {c}
      BY <1>5, <2>3, Locations
    <3>2. Last(cell(x))' = Last(cell(x)) /\ latest(cell(x))' = latest(cell(x))
      BY <1>17, <3>1
    <3>3. T' \in Nat /\ T' >= T /\ reads'[cell(x)] = reads[cell(x)] /\ out'.sent[x + 1] = out.sent[x + 1]
      BY <1>2, <1>14, <1>20, Sizes
    <3>. QED BY <1>20, <1>26, <2>2, <3>2, <3>3, LapStays
  <2>4. CASE slot(x) = slot(t)
    <3>1. AtPublish(x)'
      BY <1>2, <1>3, <1>23, <2>4 DEF AtPublish
    <3>2. ~(Full(x) /\ ~Empty(x))
      <4>1. stamp(x) = stamp(t)
        BY <2>4, Locations
      <4>2. lap(x) \in Nat /\ (Full(x) /\ ~Empty(x) => Last(stamp(t)) = 2 * lap(x) + 2)
        BY <4>1, Stamps
      <4>. QED BY <1>4, <4>2
    <3>3. Lap(x) /\ reads' = reads /\ T' = T /\ Popped' = Popped /\ out' = out
      BY <1>2, <1>14, <1>20, <1>26 DEF Inv, Laps
    <3>4. Freed(x)' = Freed(x)
      BY <1>20, StampsStay
    <3>. QED BY <1>25, <1>26, <3>1, <3>2, <3>3, <3>4 DEF Lap
  <2>. QED BY <2>3, <2>4
<1>28. Tickets'
  <2>1. ASSUME NEW u \in Producer, u # th PROVE Ticket(u)'
    <3>1. PICK k \in Nat : k = reg[u].t
      BY DEF Inv, TypeOK
    <3>2. /\ u \in Thread \ {th} /\ reg'[u] = reg[u] /\ pc'[u] = pc[u] /\ cur'[u] = cur[u]
          /\ calls'[u] = calls[u]
      BY <1>2, <1>22, <1>23, <2>1, Sizes
    <3>3. pc[u] # "idle" => ~Full(k)'
      BY <1>25, <3>1 DEF Inv, Tickets, Ticket
    <3>4. pc[u] = "push_publish" => Last(cell(k))' = Last(cell(k)) /\ latest(cell(k))' = latest(cell(k))
      <4>1. pc[u] = "push_publish" => cell(k) \in Loc \ {c}
        BY <1>4, <1>5, <2>1, <3>1, Locations
      <4>. QED BY <1>17, <4>1
    <3>5. Last(stamp(k))' = Last(stamp(k))
      BY <1>20
    <3>. QED BY <1>2, <1>20, <3>1, <3>2, <3>3, <3>4, <3>5, TicketStays
  <2>2. Ticket(th)'
    <3>1. t < T' /\ out'.sent[t + 1] = <<th, calls'[th]>> /\ ~Full(t)'
      BY <1>2, <1>3, <1>20, <1>25 DEF Inv, Tickets, Ticket
    <3>2. Last(stamp(t))' = 2 * lap(t) + 1 /\ cur'[th][stamp(t)] = 2 * lap(t) + 1
      <4>1. cur[th][stamp(t)] = 2 * lap(t) + 1
        BY <1>2, <1>3 DEF Inv, Tickets, Ticket
      <4>2. stamp(t) \in Clock \ {c}
        BY <1>19, Locations
      <4>. QED BY <1>4, <1>15, <1>20, <1>22, <4>1, <4>2
    <3>3. /\ Last(cell(t))' = lap(t) + 2 /\ cur'[th][cell(t)] = lap(t) + 2
          /\ latest(cell(t))' = <<th, calls'[th]>>
      <4>1. cell(t)' = c
        BY <1>5 DEF cell
      <4>. QED BY <1>2, <1>5, <1>10, <1>15, <1>17, <1>22, <4>1 DEF Last, latest, val
    <3>. QED BY <1>2, <1>3, <1>23, <3>1, <3>2, <3>3 DEF Ticket
  <2>3. \A u, v \in Producer :
          pc'[u] # "idle" /\ pc'[v] # "idle" /\ reg'[u].t = reg'[v].t => u = v
    BY <1>2, <1>23, Sizes DEF Inv, Tickets
  <2>. QED BY <2>1, <2>2, <2>3 DEF Tickets
<1>29. Outcomes'
  <2>1. \A u \in Producer : pc[u] # "idle" => pc'[u] # "idle"
    BY <1>23, Sizes
  <2>2. \A x \in 0..(T - 1) : Full(x)' <=> Full(x)
    BY <1>25, Sizes
  <2>. QED BY <1>2, <1>20, <2>1, <2>2 DEF Inv, Outcomes
<1>30. NoRace'
  BY <1>14 DEF Inv, NoRace
<1>. QED BY <1>21, <1>24, <1>26, <1>27, <1>28, <1>29, <1>30 DEF Inv

-----------------------------------------------------------------------------
(* th stamps the slot of ticket t with the message m, of the view V.       *)
Stamping(th, t, V, m) ==
  /\ m.rview = V
  /\ hist' = [hist EXCEPT ![stamp(t)] = Append(@, m)] /\ cur' = [cur EXCEPT ![th] = V]
  /\ rel' = rel /\ reads' = reads /\ race' = race
  /\ V[stamp(t)] = Last(stamp(t)) + 1
  /\ \A x \in Clock \ {stamp(t)} : V[x] = cur[th][x]

(* Its message is the one that is due.                                     *)
Due(t, V, m) ==
  \A x \in Nat : slot(x) = slot(t) =>
    /\ Last(stamp(t)) + 1 = 2 * lap(x) + 1 =>
         m.val = x /\ V[cell(x)] > lap(x) /\ V[ReadOf(cell(x))] > lap(x)
    /\ Last(stamp(t)) + 1 = 2 * lap(x) + 2 => m.val = x + 1 /\ V[cell(x)] > lap(x) + 1

LEMMA StampedStep ==
  ASSUME MpscAssumption, Inv, NEW th \in Thread, NEW t \in Nat, NEW v \in Nat,
         Store(th, stamp(t), v, "Release")
  PROVE  \E V \in View, m \in Message : m.val = v /\ Stamping(th, t, V, m)
<1>1. PICK l \in Loc : l = stamp(t)
  BY Locations
<1>2. PICK n \in Nat : n = Last(l) + 1
  BY Sizes
<1>3. l \in Clock /\ cur[th] \in View /\ cur[th][l] \in 1..Last(l) /\ Last(l) \in Nat
  BY Sizes, Locations DEF Bounded
<1>4. PICK V : V = seen(cur[th], l, n)
  OBVIOUS
<1>5. V \in View /\ V[l] = n /\ \A x \in Clock \ {l} : V[x] = cur[th][x]
  BY <1>2, <1>3, <1>4, SeenNew
<1>6. seen(V, l, n) = V
  <2>1. /\ seen(V, l, n) \in View /\ seen(V, l, n)[l] = n
        /\ \A x \in Clock \ {l} : seen(V, l, n)[x] = V[x]
    BY <1>3, <1>5, SeenNew
  <2>2. \A x \in Clock : seen(V, l, n)[x] = V[x]
    BY <1>5, <2>1
  <2>. QED BY <1>5, <2>1, <2>2 DEF View
<1>7. PICK m : m = [val |-> v, rview |-> V]
  OBVIOUS
<1>8. m \in Message /\ m.val = v /\ m.rview = V
  BY <1>5, <1>7 DEF Message, Datum
<1>9. /\ hist' = [hist EXCEPT ![l] = Append(@, [val |-> v, rview |-> seen(V, l, n)])]
      /\ cur' = [cur EXCEPT ![th] = V]
      /\ rel' = rel /\ reads' = reads /\ race' = race
  BY <1>1, <1>2, <1>4 DEF Store, released, Releases
<1>10. hist' = [hist EXCEPT ![l] = Append(@, m)]
  BY <1>6, <1>7, <1>9
<1>11. Stamping(th, t, V, m)
  BY <1>1, <1>2, <1>5, <1>8, <1>9, <1>10 DEF Stamping
<1>. QED BY <1>5, <1>8, <1>11

(* What it leaves: memory of the same shape, and only one stamp is more.   *)
LEMMA Stamped ==
  ASSUME MpscAssumption, Inv, NEW th \in Thread, NEW t \in Nat, NEW V \in View, NEW m \in Message,
         Stamping(th, t, V, m), Due(t, V, m)
  PROVE  /\ hist' \in [Loc -> Seq(Message)] /\ \A x \in Loc : hist'[x] # <<>>
         /\ \A x \in Nat : slot(x) = slot(t) => Last(stamp(x))' = Last(stamp(t)) + 1
         /\ \A x \in Nat : slot(x) # slot(t) => Last(stamp(x))' = Last(stamp(x))
         /\ \A c \in Cell : hist'[c] = hist[c] /\ Last(c)' = Last(c) /\ latest(c)' = latest(c)
         /\ hist'[head] = hist[head] /\ Last(head)' = Last(head) /\ T' = T /\ H' = H
         /\ Grown /\ Messages'
         /\ cur' \in [Thread -> View] /\ cur'[th] = V /\ \A u \in Thread \ {th} : cur'[u] = cur[u]
         /\ \A u \in Thread : Bounded(cur[u])'
<1>1. /\ m.rview = V
      /\ hist' = [hist EXCEPT ![stamp(t)] = Append(@, m)] /\ cur' = [cur EXCEPT ![th] = V]
      /\ reads' = reads
      /\ V[stamp(t)] = Last(stamp(t)) + 1
      /\ \A x \in Clock \ {stamp(t)} : V[x] = cur[th][x]
  BY DEF Stamping
<1>2. PICK l \in Loc : l = stamp(t)
  BY Locations
<1>3. PICK n \in Nat \ {0} : n = Last(l) + 1
  BY Sizes
<1>4. /\ hist' \in [Loc -> Seq(Message)] /\ \A x \in Loc : hist'[x] # <<>>
      /\ Last(l)' = n /\ hist'[l][n] = m
      /\ \A j \in 1..Last(l) : hist'[l][j] = hist[l][j]
      /\ \A x \in Loc \ {l} : hist'[x] = hist[x] /\ Last(x)' = Last(x) /\ latest(x)' = latest(x)
      /\ \A x \in Loc : Last(x)' \in Nat /\ Last(x)' >= Last(x)
  BY <1>2, <1>3, <1>1, Stored
<1>5. Grown
  BY <1>4, <1>1, Sizes DEF Grown, Inv, TypeOK
<1>6. \A x \in Nat : (slot(x) = slot(t) <=> stamp(x) = l) /\ stamp(x) \in Loc
  BY <1>2, Locations
<1>7. ASSUME NEW x \in Nat
      PROVE  /\ slot(x) = slot(t) => Last(stamp(x))' = Last(stamp(t)) + 1
             /\ slot(x) # slot(t) => Last(stamp(x))' = Last(stamp(x))
  <2>1. CASE slot(x) = slot(t)
    <3>1. stamp(x) = l /\ stamp(x)' = l
      BY <1>6, <2>1 DEF stamp
    <3>2. Last(stamp(x))' = n
      BY <1>4, <3>1 DEF Last
    <3>. QED BY <1>2, <1>3, <2>1, <3>2
  <2>2. CASE slot(x) # slot(t)
    BY <1>4, <1>6, <2>2
  <2>. QED BY <2>1, <2>2
<1>8. /\ \A c \in Cell : c \in Loc \ {l}
      /\ head \in Loc \ {l} /\ tail \in Loc \ {l}
  BY <1>2, Locations
<1>9. T' = T /\ H' = H
  BY <1>4, <1>8 DEF T, H
<1>10. Bounded(V)'
  <2>1. Bounded(cur[th])
    BY Sizes
  <2>2. ASSUME NEW x \in Loc PROVE V[x] \in 1..Last(x)'
    <3>1. CASE x = l
      BY <1>2, <1>3, <1>4, <1>1, <3>1 DEF Last
    <3>2. CASE x # l
      <4>1. x \in Clock \ {l} /\ cur[th][x] \in 1..Last(x)
        BY <2>1, <3>2, Locations DEF Bounded
      <4>. QED BY <1>2, <1>4, <1>1, <3>2, <4>1
    <3>. QED BY <3>1, <3>2
  <2>3. ASSUME NEW d \in Cell PROVE V[ReadOf(d)] <= reads'[d]
    <3>1. ReadOf(d) \in Clock \ {l} /\ cur[th][ReadOf(d)] <= reads[d]
      BY <2>1, Locations DEF Bounded
    <3>. QED BY <1>2, <1>1, <3>1
  <2>. QED BY <2>2, <2>3 DEF Bounded
<1>11. /\ cur' \in [Thread -> View] /\ cur'[th] = V /\ \A u \in Thread \ {th} : cur'[u] = cur[u]
       /\ \A u \in Thread : Bounded(cur[u])'
  BY <1>5, <1>10, <1>1, ViewsStay DEF Bounded
<1>12. ASSUME NEW x \in Nat, NEW j \in 1..Last(stamp(x))'
       PROVE  StampMessage(x, j, hist[stamp(x)][j])'
  <2>1. CASE slot(x) = slot(t) /\ j = n
    <3>1. stamp(x)' = l
      BY <1>6, <2>1 DEF stamp
    <3>2. hist'[l][j] = m
      BY <1>4, <2>1
    <3>3. /\ n = 2 * lap(x) + 1 => m.val = x /\ V[cell(x)] > lap(x) /\ V[ReadOf(cell(x))] > lap(x)
          /\ n = 2 * lap(x) + 2 => m.val = x + 1 /\ V[cell(x)] > lap(x) + 1
      BY <1>2, <1>3, <2>1 DEF Due
    <3>. QED BY <1>10, <1>1, <2>1, <3>1, <3>2, <3>3 DEF StampMessage, Bounded
  <2>2. CASE ~(slot(x) = slot(t) /\ j = n)
    <3>1. j \in 1..Last(stamp(x)) /\ hist'[stamp(x)][j] = hist[stamp(x)][j]
      <4>1. CASE slot(x) = slot(t)
        <5>1. stamp(x) = l /\ Last(stamp(x))' = n
          BY <1>2, <1>3, <1>6, <1>7, <4>1
        <5>2. j \in 1..n /\ j # n
          BY <1>12, <2>2, <4>1, <5>1
        <5>3. Last(l) = n - 1
          BY <1>3, Sizes
        <5>4. j \in 1..Last(l)
          BY <5>2, <5>3
        <5>. QED BY <1>4, <5>1, <5>4
      <4>2. CASE slot(x) # slot(t)
        BY <1>4, <1>6, <1>7, <1>12, <4>2
      <4>. QED BY <4>1, <4>2
    <3>2. PICK q : q = hist[stamp(x)][j]
      OBVIOUS
    <3>3. StampMessage(x, j, q) /\ q = hist'[stamp(x)][j]
      BY <3>1, <3>2 DEF Inv, Messages
    <3>4. PICK U : U = q.rview
      OBVIOUS
    <3>5. Bounded(U)'
      BY <1>5, <3>3, <3>4, BoundedStays DEF StampMessage
    <3>. QED BY <3>3, <3>4, <3>5 DEF StampMessage, Bounded
  <2>. QED BY <2>1, <2>2
<1>13. Messages'
  <2>1. /\ \A i \in 1..Last(tail)' : hist'[tail][i].val = i - 1
        /\ \A i \in 1..Last(head)' : hist'[head][i].val = i - 1
    BY <1>4, <1>8 DEF Inv, Messages
  <2>. QED BY <1>12, <2>1 DEF Messages
<1>. QED BY <1>4, <1>5, <1>7, <1>8, <1>9, <1>11, <1>13

LEMMA PushPublishStep == ASSUME MpscAssumption, Inv, NEW th \in Producer, PushPublish(th) PROVE Inv'
<1>1. th \in Thread /\ C \in Thread /\ C # th
  BY Sizes
<1>2. /\ pc[th] = "push_publish" /\ calls' = calls /\ pc' = [pc EXCEPT ![th] = "idle"]
      /\ reg' = reg /\ out' = out
  BY DEF PushPublish, From, Goto
<1>3. PICK t \in Nat : t = reg[th].t
  BY DEF Inv, TypeOK
<1>4. /\ pc[C] \in {"pop_read", "pop_free"} => slot(reg[C].h) # slot(t)
      /\ \A u \in Producer \ {th} :
           pc[u] \in {"push_write", "push_publish"} => slot(reg[u].t) # slot(t)
      /\ reads[cell(t)] = lap(t) + 1
      /\ Last(stamp(t)) = 2 * lap(t) + 1 /\ lap(t) \in Nat
  BY <1>2, <1>3, Owned
<1>5. /\ t < T /\ out.sent[t + 1] = <<th, calls[th]>>
      /\ Last(cell(t)) = lap(t) + 2 /\ cur[th][cell(t)] = lap(t) + 2
      /\ latest(cell(t)) = <<th, calls[th]>>
  BY <1>2, <1>3 DEF Inv, Tickets, Ticket
<1>6. Store(th, stamp(t), t + 1, "Release")
  BY <1>3 DEF PushPublish
<1>7. PICK V \in View, m \in Message : m.val = t + 1 /\ Stamping(th, t, V, m)
  BY <1>1, <1>6, StampedStep
<1>8. ASSUME NEW x \in Nat, slot(x) = slot(t)
      PROVE  /\ Last(stamp(t)) + 1 = 2 * lap(x) + 1 =>
                  m.val = x /\ V[cell(x)] > lap(x) /\ V[ReadOf(cell(x))] > lap(x)
             /\ Last(stamp(t)) + 1 = 2 * lap(x) + 2 => m.val = x + 1 /\ V[cell(x)] > lap(x) + 1
  <2>1. lap(x) \in Nat
    BY Stamps
  <2>2. lap(x) = lap(t) => x = t
    BY <1>8, SameTicket
  <2>3. cell(t) \in Clock \ {stamp(t)}
    BY Locations
  <2>4. V[cell(t)] > lap(t) + 1
    BY <1>4, <1>5, <1>7, <2>3 DEF Stamping
  <2>5. Last(stamp(t)) + 1 # 2 * lap(x) + 1
    BY <1>4, <2>1
  <2>6. Last(stamp(t)) + 1 = 2 * lap(x) + 2 => lap(x) = lap(t)
    <3>1. \A p, q \in Nat : 2 * p + 1 + 1 = 2 * q + 2 => q = p
      OBVIOUS
    <3>. QED BY <1>4, <2>1, <3>1
  <2>7. x = t => m.val = x + 1 /\ V[cell(x)] > lap(x) + 1
    BY <1>7, <2>4
  <2>. QED BY <2>2, <2>5, <2>6, <2>7
<1>9. Due(t, V, m)
  BY <1>8 DEF Due
<1>10. /\ hist' \in [Loc -> Seq(Message)] /\ \A x \in Loc : hist'[x] # <<>>
       /\ \A x \in Nat : slot(x) = slot(t) => Last(stamp(x))' = Last(stamp(t)) + 1
       /\ \A x \in Nat : slot(x) # slot(t) => Last(stamp(x))' = Last(stamp(x))
       /\ \A c \in Cell : hist'[c] = hist[c] /\ Last(c)' = Last(c) /\ latest(c)' = latest(c)
       /\ hist'[head] = hist[head] /\ Last(head)' = Last(head) /\ T' = T /\ H' = H
       /\ Grown /\ Messages'
       /\ cur' \in [Thread -> View] /\ cur'[th] = V /\ \A u \in Thread \ {th} : cur'[u] = cur[u]
       /\ \A u \in Thread : Bounded(cur[u])'
  BY <1>1, <1>7, <1>9, Stamped
<1>11. /\ pc'[th] = "idle" /\ \A u \in Thread \ {th} : pc'[u] = pc[u]
       /\ pc' \in [Thread -> ProducerLabel \cup ConsumerLabel]
  BY <1>1, <1>2 DEF Inv, TypeOK, ProducerLabel
<1>12. TypeOK'
  <2>1. pc'[C] \in ConsumerLabel /\ \A u \in Producer : pc'[u] \in ProducerLabel
    BY <1>1, <1>11, Sizes DEF Inv, TypeOK, ProducerLabel
  <2>2. rel' \in [Thread -> View] /\ reads' \in [Cell -> Nat]
    BY <1>7 DEF Inv, TypeOK, Stamping
  <2>3. /\ reg' \in [Thread -> [Local -> Datum]]
        /\ reg'[C].h \in Nat /\ \A u \in Producer : reg'[u].t \in Nat
        /\ calls' \in [Thread -> Nat] /\ out' \in [{"sent", "got"} -> Seq(Datum)]
    BY <1>2 DEF Inv, TypeOK
  <2>4. Len(out.sent)' = T' /\ Len(out.got)' = H'
    BY <1>2, <1>10 DEF Inv, TypeOK
  <2>. QED BY <1>10, <1>11, <2>1, <2>2, <2>3, <2>4 DEF TypeOK
(* t is published, and no other ticket is published or freed.              *)
<1>13. ASSUME NEW x \in Nat
       PROVE  /\ Full(x)' <=> Full(x) \/ x = t
              /\ Empty(x)' <=> Empty(x)
              /\ slot(x) = slot(t) => Freed(x)' = lap(t) /\ Freed(x) = lap(t) /\ Published(x)' = lap(t) + 1
              /\ slot(x) = slot(t) /\ Full(x)' /\ ~Empty(x)' => x = t
  <2>1. CASE slot(x) # slot(t)
    <3>1. Last(stamp(x))' = Last(stamp(x)) /\ x # t
      BY <1>10, <2>1
    <3>. QED BY <2>1, <3>1 DEF Full, Empty, Published, Freed
  <2>2. CASE slot(x) = slot(t)
    <3>1. PICK n \in Nat : n = 2 * lap(t) + 2
      BY <1>4
    <3>2. Last(stamp(x))' = n /\ Last(stamp(x)) = n - 1
      <4>1. stamp(x) = stamp(t)
        BY <2>2, Locations
      <4>2. Last(stamp(x)) = 2 * lap(t) + 1
        BY <1>4, <4>1
      <4>. QED BY <1>4, <1>10, <2>2, <3>1, <4>2
    <3>3. lap(x) \in Nat /\ (lap(x) = lap(t) <=> x = t)
      BY <2>2, SameTicket, Stamps
    <3>4. /\ Full(x)' <=> n >= 2 * lap(x) + 2
          /\ Empty(x)' <=> n >= 2 * lap(x) + 3
          /\ Published(x)' = lap(t) + 1 /\ Freed(x)' = lap(t)
      BY <1>4, <3>1, <3>2, <3>3, Halves DEF Full, Empty, Published, Freed
    <3>5. /\ Full(x) <=> n - 1 >= 2 * lap(x) + 2
          /\ Empty(x) <=> n - 1 >= 2 * lap(x) + 3
      BY <3>2, Stamps
    <3>6. Freed(x) = lap(t)
      <4>1. n - 1 \in Nat \ {0} /\ n - 1 = 2 * lap(t) + 1
        BY <1>4, <3>1
      <4>. QED BY <1>4, <3>2, <4>1, Halves DEF Freed
    <3>. QED BY <1>4, <2>2, <3>1, <3>3, <3>4, <3>5, <3>6
  <2>. QED BY <2>1, <2>2
<1>14. Consumes' /\ Popped' = Popped /\ \A x \in Nat : AtFree(x)' <=> AtFree(x)
  <2>1. PICK h \in Nat : h = reg[C].h
    BY DEF Inv, TypeOK
  <2>2. pc[C] \in {"pop_read", "pop_free"} => Last(stamp(h))' = Last(stamp(h))
    BY <1>4, <1>10, <2>1
  <2>. QED BY <1>1, <1>2, <1>10, <1>11, <2>1, <2>2, ConsumerStays
<1>15. Laps'
  <2>1. SUFFICES ASSUME NEW x \in Nat PROVE Lap(x)'
    BY DEF Laps
  <2>2. CASE slot(x) # slot(t)
    <3>1. AtPublish(x) => AtPublish(x)'
      BY <1>1, <1>2, <1>3, <1>11, <2>2, Sizes DEF AtPublish
    <3>2. /\ Last(cell(x))' = Last(cell(x)) /\ latest(cell(x))' = latest(cell(x))
          /\ Last(stamp(x))' = Last(stamp(x))
      BY <1>10, <2>2, Locations
    <3>3. T' \in Nat /\ T' >= T /\ reads'[cell(x)] = reads[cell(x)] /\ out'.sent[x + 1] = out.sent[x + 1]
      BY <1>2, <1>7, <1>10, Sizes DEF Stamping
    <3>. QED BY <1>14, <3>1, <3>2, <3>3, LapStays
  <2>3. CASE slot(x) = slot(t)
    <3>1. Lap(x) /\ cell(x) = cell(t) /\ cell(x) \in Cell
      BY <2>3, Locations DEF Inv, Laps
    <3>2. Empty(x)' <=> x < Popped'
      BY <1>13, <1>14, <3>1 DEF Lap
    <3>3. Full(x)' => x < T'
      BY <1>5, <1>10, <1>13, <3>1 DEF Lap
    <3>4. Full(x)' => out'.sent[x + 1] # Refused
      BY <1>2, <1>5, <1>13, <3>1 DEF Lap, Refused
    <3>5. /\ AtFree(x)' => reads'[cell(x)] = Freed(x)' + 2
          /\ ~AtFree(x)' => reads'[cell(x)] = Freed(x)' + 1
      BY <1>7, <1>13, <1>14, <2>3, <3>1 DEF Lap, Stamping
    <3>6. Last(cell(x))' = Published(x)' + 1
      <4>1. Last(cell(x))' = lap(t) + 2
        BY <1>5, <1>10, <3>1
      <4>2. Published(x)' = lap(t) + 1
        BY <1>13, <2>3
      <4>. QED BY <1>4, <4>1, <4>2
    <3>7. Full(x)' /\ ~Empty(x)' => latest(cell(x))' = out'.sent[x + 1]
      BY <1>2, <1>5, <1>10, <1>13, <2>3, <3>1
    <3>. QED BY <3>2, <3>3, <3>5, <3>6, <3>7, <3>4 DEF Lap
  <2>. QED BY <2>2, <2>3
<1>16. Tickets'
  <2>1. ASSUME NEW u \in Producer, u # th PROVE Ticket(u)'
    <3>1. PICK k \in Nat : k = reg[u].t
      BY DEF Inv, TypeOK
    <3>2. /\ u \in Thread \ {th} /\ reg'[u] = reg[u] /\ pc'[u] = pc[u] /\ cur'[u] = cur[u]
          /\ calls'[u] = calls[u]
      BY <1>2, <1>10, <1>11, <2>1, Sizes
    <3>3. pc[u] # "idle" => ~Full(k)'
      <4>1. pc[u] # "idle" => k # t /\ ~Full(k)
        BY <1>2, <1>3, <2>1, <3>1 DEF Inv, Tickets, Ticket
      <4>. QED BY <1>13, <4>1
    <3>4. Last(cell(k))' = Last(cell(k)) /\ latest(cell(k))' = latest(cell(k))
      BY <1>10, Locations
    <3>5. pc[u] \in {"push_write", "push_publish"} => Last(stamp(k))' = Last(stamp(k))
      BY <1>4, <1>10, <2>1, <3>1
    <3>. QED BY <1>2, <1>10, <3>1, <3>2, <3>3, <3>4, <3>5, TicketStays
  <2>2. Ticket(th)'
    BY <1>11 DEF Ticket
  <2>3. \A u, v \in Producer :
          pc'[u] # "idle" /\ pc'[v] # "idle" /\ reg'[u].t = reg'[v].t => u = v
    BY <1>2, <1>11, Sizes DEF Inv, Tickets
  <2>. QED BY <2>1, <2>2, <2>3 DEF Tickets
<1>17. Outcomes'
  <2>1. ASSUME NEW x \in 0..(T - 1)
        PROVE  \/ Full(x)' \/ out'.sent[x + 1] = Refused
               \/ \E u \in Producer : pc'[u] # "idle" /\ reg'[u].t = x
    <3>1. x \in Nat
      BY Sizes
    <3>2. CASE x = t
      BY <1>13, <3>1, <3>2
    <3>3. CASE x # t
      <4>1. \A u \in Producer : pc[u] # "idle" /\ reg[u].t = x => pc'[u] # "idle" /\ reg'[u].t = x
        BY <1>2, <1>3, <1>11, <3>3, Sizes
      <4>2. \/ Full(x) \/ out.sent[x + 1] = Refused
            \/ \E u \in Producer : pc[u] # "idle" /\ reg[u].t = x
        BY DEF Inv, Outcomes
      <4>. QED BY <1>2, <1>13, <3>1, <4>1, <4>2
    <3>. QED BY <3>2, <3>3
  <2>2. \A k \in 1..H : out'.got[k] = out'.sent[k]
    BY <1>2 DEF Inv, Outcomes
  <2>. QED BY <1>10, <2>1, <2>2 DEF Outcomes
<1>18. NoRace'
  BY <1>7 DEF Inv, NoRace, Stamping
<1>. QED BY <1>10, <1>12, <1>14, <1>15, <1>16, <1>17, <1>18 DEF Inv

-----------------------------------------------------------------------------
(* A load of the consumer into its local variable y.                       *)
LEMMA ConsumerLoads ==
  ASSUME MpscAssumption, Inv, NEW y \in {"h", "s"}, NEW l \in Loc, NEW o \in {"Relaxed", "Acquire"},
         LoadInto(C, y, l, o), out' = out, NEW from, NEW to \in ConsumerLabel,
         pc[C] = from, pc' = [pc EXCEPT ![C] = to], from \notin {"pop_free", "pop_head"},
         to \notin {"pop_free", "pop_head"}, calls' \in [Thread -> Nat],
         \A u \in Producer : calls'[u] = calls[u],
         y = "h" => l = head,
         o = "Acquire" => \A i \in 1..Last(l) : Bounded(hist[l][i].rview)
  PROVE  /\ TypeOK' /\ Messages' /\ Laps' /\ Tickets' /\ Outcomes' /\ NoRace'
         /\ pc'[C] = to /\ H' = H
         /\ \A x \in Loc : Last(x)' = Last(x)
         /\ \E i \in canLoad(C, l) :
              /\ i \in 1..Last(l)
              /\ reg' = [reg EXCEPT ![C][y] = val(l, i)]
              /\ cur' = [cur EXCEPT ![C] = loadView(cur[C], l, i, o)]
              /\ cur'[C] = loadView(cur[C], l, i, o)
<1>1. C \in Thread /\ C \notin Producer /\ Producer \subseteq Thread
  BY Sizes
<1>2. PICK i \in canLoad(C, l) : Load(C, l, i, o) /\ Set(C, y, val(l, i))
  BY DEF LoadInto
<1>3. i \in 1..Last(l)
  <2>1. cur[C][l] \in 1..Last(l) /\ Last(l) \in Nat
    BY <1>1, Sizes DEF Bounded
  <2>. QED BY <2>1 DEF canLoad
<1>4. PICK V : V = loadView(cur[C], l, i, o)
  OBVIOUS
<1>5. Still /\ cur' = [cur EXCEPT ![C] = V] /\ reg' = [reg EXCEPT ![C][y] = val(l, i)]
  BY <1>2, <1>4 DEF Load, Set, Still
<1>6. V \in View /\ Bounded(V)
  BY <1>1, <1>3, <1>4, Loaded
<1>7. /\ Grown /\ Messages' /\ NoRace' /\ T' = T /\ H' = H
      /\ \A x \in Loc : Last(x)' = Last(x) /\ latest(x)' = latest(x)
      /\ \A x \in Nat : Last(stamp(x))' = Last(stamp(x))
  BY <1>5, StillMemory
<1>8. /\ cur' \in [Thread -> View] /\ cur'[C] = V /\ \A u \in Thread \ {C} : cur'[u] = cur[u]
      /\ \A u \in Thread : Bounded(cur[u])'
  <2>1. /\ \A x \in Loc : V[x] \in 1..Last(x)' /\ \A c \in Cell : V[ReadOf(c)] <= reads'[c]
    BY <1>5, <1>6, <1>7 DEF Bounded, Still
  <2>. QED BY <1>1, <1>5, <1>6, <1>7, <2>1, ViewsStay
<1>9. val(l, i) \in Datum /\ (y = "h" => val(l, i) \in Nat)
  <2>1. hist[l][i] \in Message
    BY <1>3 DEF Inv, TypeOK, Last
  <2>2. l = head => hist[l][i].val = i - 1
    BY <1>3 DEF Inv, Messages
  <2>3. l = head => hist[l][i].val \in Nat
    BY <1>3, <2>2, Sizes
  <2>. QED BY <2>1, <2>3 DEF Message, val
<1>10. /\ reg' \in [Thread -> [Local -> Datum]] /\ reg'[C].h \in Nat
       /\ \A u \in Producer : reg'[u] = reg[u]
  BY <1>1, <1>5, <1>9 DEF Inv, TypeOK, Local
<1>11. /\ pc'[C] = to /\ \A u \in Producer : pc'[u] = pc[u]
       /\ pc' \in [Thread -> ProducerLabel \cup ConsumerLabel]
  BY <1>1 DEF Inv, TypeOK
<1>12. TypeOK'
  <2>1. hist' \in [Loc -> Seq(Message)] /\ (\A x \in Loc : hist'[x] # <<>>) /\ reads' \in [Cell -> Nat]
    BY <1>5 DEF Inv, TypeOK, Still
  <2>2. /\ pc'[C] \in ConsumerLabel /\ \A u \in Producer : pc'[u] \in ProducerLabel
        /\ \A u \in Producer : reg'[u].t \in Nat
    BY <1>10, <1>11 DEF Inv, TypeOK
  <2>3. /\ out' \in [{"sent", "got"} -> Seq(Datum)] /\ rel' \in [Thread -> View]
        /\ Len(out.sent)' = T' /\ Len(out.got)' = H'
    BY <1>5, <1>7 DEF Inv, TypeOK, Still
  <2>. QED BY <1>8, <1>10, <1>11, <2>1, <2>2, <2>3 DEF TypeOK
<1>13. ByConsumer
  <2>1. \A u \in Producer : Last(stamp(reg[u].t))' = Last(stamp(reg[u].t))
    BY <1>5, <1>10 DEF Last, Still, stamp
  <2>2. \A x \in Nat : Full(x)' <=> Full(x)
    BY <1>7, StampsStay
  <2>3. \A x \in Nat : Last(cell(x))' = Last(cell(x)) /\ latest(cell(x))' = latest(cell(x))
    BY <1>7, Locations
  <2>. QED BY <1>1, <1>7, <1>8, <1>10, <1>11, <2>1, <2>2, <2>3 DEF ByConsumer
<1>14. Tickets' /\ Outcomes' /\ \A x \in Nat : AtPublish(x)' <=> AtPublish(x)
  BY <1>7, <1>13, ProducersStay
<1>15. Laps'
  <2>1. SUFFICES ASSUME NEW x \in Nat PROVE Lap(x)'
    BY DEF Laps
  <2>2. Popped' = Popped /\ (AtFree(x)' <=> AtFree(x))
    BY <1>7, <1>11 DEF Popped, AtFree
  <2>3. T' \in Nat /\ T' >= T /\ reads'[cell(x)] = reads[cell(x)] /\ out'.sent[x + 1] = out.sent[x + 1]
    BY <1>5, <1>7, Sizes DEF Still
  <2>4. Last(cell(x))' = Last(cell(x)) /\ latest(cell(x))' = latest(cell(x))
    BY <1>7, Locations
  <2>. QED BY <1>7, <1>14, <2>2, <2>3, <2>4, LapStays
<1>. QED BY <1>3, <1>4, <1>5, <1>7, <1>8, <1>11, <1>12, <1>14, <1>15

LEMMA PopHeadStep == ASSUME MpscAssumption, Inv, PopHead(C) PROVE Inv'
<1>1. C \in Thread /\ C \notin Producer /\ head \in Loc /\ head \in Clock
  BY Sizes, Locations
<1>2. /\ pc[C] = "idle" /\ calls' = [calls EXCEPT ![C] = @ + 1] /\ pc' = [pc EXCEPT ![C] = "pop_stamp"]
      /\ out' = out /\ LoadInto(C, "h", head, "Relaxed")
  BY DEF PopHead, Call, Goto
<1>3. calls' \in [Thread -> Nat] /\ \A u \in Producer : calls'[u] = calls[u]
  BY <1>1, <1>2, Sizes DEF Inv, TypeOK
<1>4. /\ TypeOK' /\ Messages' /\ Laps' /\ Tickets' /\ Outcomes' /\ NoRace'
      /\ pc'[C] = "pop_stamp" /\ H' = H
      /\ \A x \in Loc : Last(x)' = Last(x)
      /\ \E i \in canLoad(C, head) :
           /\ i \in 1..Last(head)
           /\ reg' = [reg EXCEPT ![C]["h"] = val(head, i)]
           /\ cur' = [cur EXCEPT ![C] = loadView(cur[C], head, i, "Relaxed")]
           /\ cur'[C] = loadView(cur[C], head, i, "Relaxed")
  BY <1>1, <1>2, <1>3, ConsumerLoads DEF ConsumerLabel
<1>5. PICK i \in canLoad(C, head) :
        /\ i \in 1..Last(head)
        /\ reg' = [reg EXCEPT ![C]["h"] = val(head, i)]
        /\ cur'[C] = loadView(cur[C], head, i, "Relaxed")
  BY <1>4
(* The consumer alone advances the head, and so reads it as it is.         *)
<1>6. i = Last(head)
  <2>1. cur[C][head] = Last(head) /\ Last(head) \in Nat
    BY <1>1, Sizes DEF Inv, Consumes
  <2>. QED BY <2>1 DEF canLoad
<1>7. reg'[C].h = H
  <2>1. val(head, i) = H
    BY <1>5, <1>6 DEF Inv, Messages, val, H
  <2>. QED BY <1>1, <1>5, <2>1 DEF Inv, TypeOK, Local
<1>8. cur'[C][head] = Last(head)
  <2>1. cur'[C] = seen(cur[C], head, i)
    BY <1>5 DEF loadView, Acquires
  <2>2. cur[C][head] <= i /\ i \in Nat /\ cur[C] \in View
    BY <1>1, <1>5, <1>6, Sizes DEF Inv, Consumes
  <2>. QED BY <1>1, <1>6, <2>1, <2>2, SeenNew
<1>9. Consumes'
  BY <1>1, <1>4, <1>7, <1>8 DEF Consumes
<1>. QED BY <1>4, <1>9 DEF Inv

LEMMA PopStampStep == ASSUME MpscAssumption, Inv, PopStamp(C) PROVE Inv'
<1>1. PICK h \in Nat : h = reg[C].h
  BY DEF Inv, TypeOK
<1>2. C \in Thread /\ C \notin Producer /\ stamp(h) \in Loc /\ stamp(h) # head /\ head \in Loc
  BY Sizes, Locations
<1>3. /\ pc[C] = "pop_stamp" /\ calls' = calls /\ out' = out
      /\ LoadInto(C, "s", stamp(h), "Acquire")
  BY <1>1 DEF PopStamp, From
<1>4. PICK to \in {"idle", "pop_read"} :
        pc' = [pc EXCEPT ![C] = to] /\ (to = "pop_read" <=> reg'[C].s = reg[C].h + 1)
  BY DEF PopStamp, Goto
<1>5. calls' \in [Thread -> Nat] /\ \A u \in Producer : calls'[u] = calls[u]
  BY <1>3 DEF Inv, TypeOK
<1>6. \A i \in 1..Last(stamp(h)) : Bounded(hist[stamp(h)][i].rview)
  BY StampSays
<1>7. /\ TypeOK' /\ Messages' /\ Laps' /\ Tickets' /\ Outcomes' /\ NoRace'
      /\ pc'[C] = to /\ H' = H
      /\ \A x \in Loc : Last(x)' = Last(x)
      /\ \E i \in canLoad(C, stamp(h)) :
           /\ i \in 1..Last(stamp(h))
           /\ reg' = [reg EXCEPT ![C]["s"] = val(stamp(h), i)]
           /\ cur' = [cur EXCEPT ![C] = loadView(cur[C], stamp(h), i, "Acquire")]
           /\ cur'[C] = loadView(cur[C], stamp(h), i, "Acquire")
  BY <1>2, <1>3, <1>4, <1>5, <1>6, ConsumerLoads DEF ConsumerLabel
<1>8. PICK i \in canLoad(C, stamp(h)) :
        /\ i \in 1..Last(stamp(h))
        /\ reg' = [reg EXCEPT ![C]["s"] = val(stamp(h), i)]
        /\ cur'[C] = loadView(cur[C], stamp(h), i, "Acquire")
  BY <1>7
<1>9. PICK m : m = hist[stamp(h)][i]
  OBVIOUS
<1>10. reg'[C].s = m.val /\ reg'[C].h = h
  BY <1>1, <1>2, <1>8, <1>9 DEF Inv, TypeOK, Local, val
<1>11. /\ m \in Message /\ Bounded(m.rview)
       /\ m.val = h + 1 => i = 2 * lap(h) + 2 /\ m.rview[cell(h)] > lap(h) + 1
  BY <1>8, <1>9, StampSays
<1>12. PICK V : V = cur'[C]
  OBVIOUS
<1>13. /\ V \in View /\ Bounded(V) /\ V[stamp(h)] >= i
       /\ \A x \in Clock : V[x] >= cur[C][x] /\ V[x] >= m.rview[x]
  BY <1>2, <1>8, <1>9, <1>11, <1>12, Loaded
<1>14. h = H /\ ~Empty(h)
  BY <1>1, <1>3, Sizes DEF Inv, Consumes, Laps, Lap, Popped
<1>15. V[head] = Last(head)
  <2>1. V[head] >= cur[C][head] /\ V[head] \in 1..Last(head) /\ cur[C][head] = Last(head)
    BY <1>2, <1>13, Locations DEF Bounded, Inv, Consumes
  <2>. QED BY <1>2, <2>1, Sizes
<1>16. to = "pop_read" => /\ Last(stamp(h)) = 2 * lap(h) + 2 /\ V[stamp(h)] = 2 * lap(h) + 2
                          /\ V[cell(h)] > lap(h) + 1
  <2>1. SUFFICES ASSUME to = "pop_read"
                 PROVE  /\ Last(stamp(h)) = 2 * lap(h) + 2 /\ V[stamp(h)] = 2 * lap(h) + 2
                        /\ V[cell(h)] > lap(h) + 1
    OBVIOUS
  <2>2. i = 2 * lap(h) + 2 /\ m.rview[cell(h)] > lap(h) + 1
    BY <1>1, <1>4, <1>10, <1>11, <2>1
  <2>3. Last(stamp(h)) < 2 * lap(h) + 3 /\ lap(h) \in Nat /\ Last(stamp(h)) \in Nat
    BY <1>14, Stamps
  <2>4. V[stamp(h)] \in 1..Last(stamp(h))
    BY <1>2, <1>13 DEF Bounded
  <2>5. cell(h) \in Clock /\ V[cell(h)] >= m.rview[cell(h)]
    BY <1>13, Locations
  <2>6. V[cell(h)] \in Nat /\ m.rview[cell(h)] \in Nat
    BY <1>11, <1>13, <2>5 DEF View, Bounded
  <2>. QED BY <1>8, <1>13, <2>2, <2>3, <2>4, <2>5, <2>6
<1>17. Consumes'
  <2>1. Last(head)' = Last(head) /\ Last(stamp(h))' = Last(stamp(h))
    BY <1>2, <1>7
  <2>. QED BY <1>7, <1>10, <1>12, <1>14, <1>15, <1>16, <2>1 DEF Consumes
<1>. QED BY <1>7, <1>17 DEF Inv

(* While the consumer has a slot, no producer has it.                      *)
LEMMA Consuming ==
  ASSUME MpscAssumption, Inv, pc[C] \in {"pop_read", "pop_free"}, NEW h \in Nat, h = reg[C].h
  PROVE  /\ \A u \in Producer :
              pc[u] \in {"push_write", "push_publish"} => slot(reg[u].t) # slot(h)
         /\ Last(stamp(h)) = 2 * lap(h) + 2 /\ cur[C][stamp(h)] = 2 * lap(h) + 2 /\ lap(h) \in Nat
         /\ cur[C][cell(h)] > lap(h) + 1
         /\ Published(h) = lap(h) + 1 /\ Freed(h) = lap(h)
         /\ Last(cell(h)) = lap(h) + 2
         /\ h = H /\ Popped = H /\ Full(h) /\ ~Empty(h)
<1>1. /\ Last(stamp(h)) = 2 * lap(h) + 2 /\ cur[C][stamp(h)] = 2 * lap(h) + 2 /\ lap(h) \in Nat
      /\ cur[C][cell(h)] > lap(h) + 1 /\ h = H /\ Popped = H
  BY Stamps DEF Inv, Consumes, Popped
<1>2. Published(h) = lap(h) + 1 /\ Freed(h) = lap(h) /\ Full(h) /\ ~Empty(h)
  BY <1>1, Stamps
<1>3. ASSUME NEW u \in Producer, pc[u] \in {"push_write", "push_publish"}, slot(reg[u].t) = slot(h)
      PROVE  FALSE
  <2>1. PICK k \in Nat : k = reg[u].t
    BY DEF Inv, TypeOK
  <2>2. Last(stamp(k)) = 2 * lap(k) + 1 /\ lap(k) \in Nat
    BY <1>3, <2>1, Owned
  <2>3. stamp(k) = stamp(h)
    BY <1>3, <2>1, Locations
  <2>. QED BY <1>1, <2>2, <2>3
<1>4. Last(cell(h)) = lap(h) + 2
  <2>1. ~AtPublish(h)
    BY <1>3 DEF AtPublish
  <2>. QED BY <1>1, <1>2, <2>1 DEF Inv, Laps, Lap
<1>. QED BY <1>1, <1>2, <1>3, <1>4

LEMMA PopReadStep == ASSUME MpscAssumption, Inv, PopRead(C) PROVE Inv'
<1>1. C \in Thread /\ C \notin Producer /\ Producer \subseteq Thread
  BY Sizes
<1>2. /\ pc[C] = "pop_read" /\ calls' = calls /\ pc' = [pc EXCEPT ![C] = "pop_free"] /\ out' = out
  BY DEF PopRead, From, Goto
<1>3. PICK h \in Nat : h = reg[C].h
  BY DEF Inv, TypeOK
<1>4. PICK c \in Cell : c = cell(h)
  BY Locations
<1>5. /\ c \in Loc /\ c \in Clock /\ ReadOf(c) \in Clock /\ c # ReadOf(c)
      /\ stamp(h) \in Loc /\ head \in Loc
  BY Locations
<1>6. /\ Last(stamp(h)) = 2 * lap(h) + 2 /\ cur[C][stamp(h)] = 2 * lap(h) + 2 /\ lap(h) \in Nat
      /\ cur[C][c] > lap(h) + 1
      /\ Freed(h) = lap(h)
      /\ Last(c) = lap(h) + 2
      /\ h = H /\ Popped = H /\ Full(h) /\ ~Empty(h)
  BY <1>2, <1>3, <1>4, Consuming
<1>7. cur[C] \in View /\ Bounded(cur[C])
  BY <1>1, Sizes
<1>8. KnowsWrites(C, c)
  <2>1. cur[C][c] \in 1..Last(c)
    BY <1>5, <1>7 DEF Bounded
  <2>. QED BY <1>6, <2>1 DEF KnowsWrites
<1>9. reads[c] = lap(h) + 1
  <2>1. ~AtFree(h)
    BY <1>2 DEF AtFree
  <2>. QED BY <1>4, <1>6, <2>1 DEF Inv, Laps, Lap
<1>10. PICK n \in Nat : n = lap(h) + 2
  BY <1>6
<1>11. PICK V : V = seen(cur[C], ReadOf(c), n)
  OBVIOUS
<1>12. /\ hist' = hist /\ rel' = rel /\ (race' <=> race)
       /\ cur' = [cur EXCEPT ![C] = V] /\ reads' = [reads EXCEPT ![c] = n]
       /\ reg' = [reg EXCEPT ![C]["v"] = latest(c)]
  <2>1. reads[c] + 1 = n
    BY <1>6, <1>9, <1>10
  <2>. QED BY <1>3, <1>4, <1>8, <1>11, <2>1 DEF PopRead, ReadCell, Set
<1>13. V \in View /\ V[ReadOf(c)] = n /\ \A x \in Clock \ {ReadOf(c)} : V[x] = cur[C][x]
  <2>1. cur[C][ReadOf(c)] <= reads[c] /\ cur[C][ReadOf(c)] \in Nat
    BY <1>5, <1>7 DEF Bounded, View
  <2>2. cur[C][ReadOf(c)] <= n
    BY <1>6, <1>9, <1>10, <2>1
  <2>. QED BY <1>5, <1>7, <1>11, <2>2, SeenNew
<1>14. /\ \A x \in Loc : Last(x)' = Last(x) /\ latest(x)' = latest(x)
       /\ T' = T /\ H' = H
  BY <1>12 DEF Last, latest, val, T, H
<1>15. Grown
  BY <1>9, <1>6, <1>10, <1>12, <1>14, Sizes DEF Grown, Inv, TypeOK
<1>16. Messages'
  BY <1>12, <1>14, <1>15, Locations, MessagesStay DEF Inv, Messages
<1>17. \A d \in Cell \ {c} : reads'[d] = reads[d]
  BY <1>12 DEF Inv, TypeOK
<1>18. reads'[c] = n
  BY <1>12 DEF Inv, TypeOK
<1>19. /\ cur' \in [Thread -> View] /\ cur'[C] = V /\ \A u \in Thread \ {C} : cur'[u] = cur[u]
       /\ \A u \in Thread : Bounded(cur[u])'
  <2>1. \A x \in Loc : V[x] \in 1..Last(x)'
    BY <1>5, <1>7, <1>13, <1>14, Locations DEF Bounded
  <2>2. ASSUME NEW d \in Cell PROVE V[ReadOf(d)] <= reads'[d]
    <3>1. CASE d = c
      BY <1>13, <1>18, <3>1
    <3>2. CASE d # c
      <4>1. ReadOf(d) \in Clock \ {ReadOf(c)} /\ cur[C][ReadOf(d)] <= reads[d]
        BY <1>7, <3>2, Locations DEF Bounded
      <4>. QED BY <1>13, <1>17, <3>2, <4>1
    <3>. QED BY <3>1, <3>2
  <2>. QED BY <1>1, <1>12, <1>13, <1>15, <2>1, <2>2, ViewsStay
<1>20. /\ reg' \in [Thread -> [Local -> Datum]] /\ reg'[C].h = h /\ reg'[C].v = latest(c)
       /\ \A u \in Producer : reg'[u] = reg[u]
  <2>1. latest(c) \in Datum
    <3>1. hist[c] \in Seq(Message) /\ Last(c) \in 1..Len(hist[c])
      BY <1>5, Sizes DEF Inv, TypeOK, Last
    <3>2. hist[c][Last(c)] \in Message
      BY <3>1
    <3>. QED BY <3>2 DEF latest, val, Message
  <2>. QED BY <1>1, <1>3, <1>12, <2>1 DEF Inv, TypeOK, Local
<1>21. /\ pc'[C] = "pop_free" /\ \A u \in Producer : pc'[u] = pc[u]
       /\ pc' \in [Thread -> ProducerLabel \cup ConsumerLabel]
  BY <1>1, <1>2 DEF Inv, TypeOK, ConsumerLabel
<1>22. TypeOK'
  <2>1. hist' \in [Loc -> Seq(Message)] /\ (\A x \in Loc : hist'[x] # <<>>) /\ reads' \in [Cell -> Nat]
    BY <1>12, <1>15 DEF Inv, TypeOK, Grown
  <2>2. /\ pc'[C] \in ConsumerLabel /\ \A u \in Producer : pc'[u] \in ProducerLabel
        /\ reg'[C].h \in Nat /\ \A u \in Producer : reg'[u].t \in Nat
    BY <1>20, <1>21 DEF Inv, TypeOK, ConsumerLabel
  <2>3. /\ out' \in [{"sent", "got"} -> Seq(Datum)] /\ rel' \in [Thread -> View]
        /\ calls' \in [Thread -> Nat]
        /\ Len(out.sent)' = T' /\ Len(out.got)' = H'
    BY <1>2, <1>12, <1>14 DEF Inv, TypeOK
  <2>. QED BY <1>19, <1>20, <1>21, <2>1, <2>2, <2>3 DEF TypeOK
<1>23. \A x \in Nat : /\ Last(stamp(x))' = Last(stamp(x))
                      /\ Published(x)' = Published(x) /\ Freed(x)' = Freed(x)
                      /\ (Full(x)' <=> Full(x)) /\ (Empty(x)' <=> Empty(x))
  BY <1>14, Locations, StampsStay
<1>24. ByConsumer
  <2>1. \A u \in Producer : Last(stamp(reg[u].t))' = Last(stamp(reg[u].t))
    BY <1>12, <1>20 DEF Last, stamp
  <2>2. \A x \in Nat : Last(cell(x))' = Last(cell(x)) /\ latest(cell(x))' = latest(cell(x))
    BY <1>14, Locations
  <2>. QED BY <1>1, <1>2, <1>14, <1>19, <1>20, <1>21, <1>23, <2>1, <2>2 DEF ByConsumer
<1>25. Tickets' /\ Outcomes' /\ \A x \in Nat : AtPublish(x)' <=> AtPublish(x)
  BY <1>2, <1>14, <1>24, ProducersStay
<1>26. Popped' = Popped
  BY <1>2, <1>14, <1>21 DEF Popped
<1>27. Laps'
  <2>1. SUFFICES ASSUME NEW x \in Nat PROVE Lap(x)'
    BY DEF Laps
  <2>2. Lap(x) /\ ~AtFree(x) /\ (AtFree(x)' <=> slot(x) = slot(h))
    BY <1>2, <1>20, <1>21 DEF Inv, Laps, AtFree
  <2>3. Last(cell(x))' = Last(cell(x)) /\ latest(cell(x))' = latest(cell(x)) /\ cell(x) \in Cell
    BY <1>14, Locations
  <2>4. CASE slot(x) # slot(h)
    <3>1. reads'[cell(x)] = reads[cell(x)]
      BY <1>4, <1>17, <2>3, <2>4, Locations
    <3>2. T' \in Nat /\ T' >= T /\ out'.sent[x + 1] = out.sent[x + 1]
      BY <1>2, <1>14, Sizes
    <3>. QED BY <1>23, <1>25, <1>26, <2>2, <2>3, <2>4, <3>1, <3>2, LapStays
  <2>5. CASE slot(x) = slot(h)
    <3>1. cell(x) = c /\ stamp(x) = stamp(h)
      BY <1>4, <2>5, Locations
    <3>2. Freed(x) = lap(h)
      BY <1>6, <3>1 DEF Freed
    <3>3. reads'[cell(x)] = Freed(x)' + 2
      BY <1>6, <1>10, <1>18, <1>23, <3>1, <3>2
    <3>4. AtFree(x)'
      BY <2>2, <2>5
    <3>. QED BY <1>2, <1>14, <1>23, <1>25, <1>26, <2>2, <2>3, <3>3, <3>4 DEF Lap
  <2>. QED BY <2>4, <2>5
<1>28. Consumes'
  <2>1. cur[C][head] = Last(head) /\ head \in Clock \ {ReadOf(c)} /\ stamp(h) \in Clock \ {ReadOf(c)}
    BY Locations DEF Inv, Consumes
  <2>2. V[head] = Last(head) /\ V[stamp(h)] = 2 * lap(h) + 2 /\ V[c] > lap(h) + 1
    BY <1>5, <1>6, <1>13, <2>1
  <2>3. V[ReadOf(c)] > lap(h) + 1
    BY <1>6, <1>10, <1>13
  <2>4. latest(c) = out.sent[h + 1]
    BY <1>4, <1>6 DEF Inv, Laps, Lap
  <2>5. Last(head)' = Last(head) /\ Last(stamp(h))' = Last(stamp(h))
    BY <1>5, <1>14
  <2>. QED BY <1>2, <1>4, <1>6, <1>14, <1>19, <1>20, <1>21, <2>2, <2>3, <2>4, <2>5 DEF Consumes
<1>29. NoRace'
  BY <1>12 DEF Inv, NoRace
<1>. QED BY <1>16, <1>22, <1>25, <1>27, <1>28, <1>29 DEF Inv

LEMMA PopFreeStep == ASSUME MpscAssumption, Inv, PopFree(C) PROVE Inv'
<1>1. C \in Thread /\ C \notin Producer /\ Producer \subseteq Thread
  BY Sizes
<1>2. /\ pc[C] = "pop_free" /\ calls' = calls /\ pc' = [pc EXCEPT ![C] = "pop_head"]
      /\ out' = out /\ reg' = reg
  BY DEF PopFree, From, Goto
<1>3. PICK h \in Nat : h = reg[C].h
  BY DEF Inv, TypeOK
<1>4. /\ \A u \in Producer :
           pc[u] \in {"push_write", "push_publish"} => slot(reg[u].t) # slot(h)
      /\ Last(stamp(h)) = 2 * lap(h) + 2 /\ lap(h) \in Nat
      /\ cur[C][cell(h)] > lap(h) + 1
      /\ Published(h) = lap(h) + 1 /\ Freed(h) = lap(h)
      /\ h = H /\ Popped = H /\ ~Empty(h)
  BY <1>2, <1>3, Consuming
<1>5. cur[C][ReadOf(cell(h))] > lap(h) + 1 /\ reg[C].v = out.sent[h + 1] /\ cur[C][head] = Last(head)
  BY <1>2, <1>3 DEF Inv, Consumes
<1>6. PICK g \in Nat : g = h + N /\ slot(g) = slot(h) /\ lap(g) = lap(h) + 1
  BY NextLap
<1>7. Store(C, stamp(h), g, "Release")
  BY <1>3, <1>6 DEF PopFree
<1>8. PICK V \in View, m \in Message : m.val = g /\ Stamping(C, h, V, m)
  BY <1>1, <1>7, StampedStep
<1>9. Due(h, V, m)
  <2>1. SUFFICES ASSUME NEW x \in Nat, slot(x) = slot(h)
        PROVE  /\ Last(stamp(h)) + 1 = 2 * lap(x) + 1 =>
                    m.val = x /\ V[cell(x)] > lap(x) /\ V[ReadOf(cell(x))] > lap(x)
               /\ Last(stamp(h)) + 1 # 2 * lap(x) + 2
    BY DEF Due
  <2>2. lap(x) \in Nat /\ (lap(x) = lap(g) => x = g)
    BY <1>6, <2>1, SameTicket, Stamps
  <2>3. \A p, q \in Nat : 2 * p + 2 + 1 # 2 * q + 2 /\ (2 * p + 2 + 1 = 2 * q + 1 => q = p + 1)
    OBVIOUS
  <2>4. Last(stamp(h)) + 1 # 2 * lap(x) + 2 /\ (Last(stamp(h)) + 1 = 2 * lap(x) + 1 => x = g)
    BY <1>4, <1>6, <2>2, <2>3
  <2>5. /\ cell(g) = cell(h)
        /\ cell(h) \in Clock \ {stamp(h)} /\ ReadOf(cell(h)) \in Clock \ {stamp(h)}
    BY <1>6, Locations
  <2>6. V[cell(g)] > lap(g) /\ V[ReadOf(cell(g))] > lap(g)
    BY <1>4, <1>5, <1>6, <1>8, <2>5 DEF Stamping
  <2>. QED BY <1>8, <2>4, <2>6
<1>10. /\ hist' \in [Loc -> Seq(Message)] /\ \A x \in Loc : hist'[x] # <<>>
       /\ \A x \in Nat : slot(x) = slot(h) => Last(stamp(x))' = Last(stamp(h)) + 1
       /\ \A x \in Nat : slot(x) # slot(h) => Last(stamp(x))' = Last(stamp(x))
       /\ \A c \in Cell : hist'[c] = hist[c] /\ Last(c)' = Last(c) /\ latest(c)' = latest(c)
       /\ hist'[head] = hist[head] /\ Last(head)' = Last(head) /\ T' = T /\ H' = H
       /\ Grown /\ Messages'
       /\ cur' \in [Thread -> View] /\ cur'[C] = V /\ \A u \in Thread \ {C} : cur'[u] = cur[u]
       /\ \A u \in Thread : Bounded(cur[u])'
  BY <1>1, <1>8, <1>9, Stamped
<1>11. /\ pc'[C] = "pop_head" /\ \A u \in Producer : pc'[u] = pc[u]
       /\ pc' \in [Thread -> ProducerLabel \cup ConsumerLabel]
  BY <1>1, <1>2 DEF Inv, TypeOK, ConsumerLabel
<1>12. TypeOK'
  <2>1. rel' \in [Thread -> View] /\ reads' \in [Cell -> Nat]
    BY <1>8 DEF Inv, TypeOK, Stamping
  <2>2. /\ pc'[C] \in ConsumerLabel /\ \A u \in Producer : pc'[u] \in ProducerLabel
        /\ reg' \in [Thread -> [Local -> Datum]]
        /\ reg'[C].h \in Nat /\ \A u \in Producer : reg'[u].t \in Nat
    BY <1>2, <1>11 DEF Inv, TypeOK, ConsumerLabel
  <2>3. /\ out' \in [{"sent", "got"} -> Seq(Datum)] /\ calls' \in [Thread -> Nat]
        /\ Len(out.sent)' = T' /\ Len(out.got)' = H'
    BY <1>2, <1>10 DEF Inv, TypeOK
  <2>. QED BY <1>10, <1>11, <2>1, <2>2, <2>3 DEF TypeOK
(* The slot of h is empty, and no other.                                   *)
<1>13. ASSUME NEW x \in Nat
       PROVE  /\ Full(x)' <=> Full(x)
              /\ Empty(x)' <=> Empty(x) \/ x = h
              /\ slot(x) = slot(h) => /\ Freed(x)' = lap(h) + 1 /\ Published(x)' = lap(h) + 1
                                      /\ Published(x) = lap(h) + 1 /\ Freed(x) = lap(h)
                                      /\ ~(Full(x)' /\ ~Empty(x)')
  <2>1. CASE slot(x) # slot(h)
    <3>1. Last(stamp(x))' = Last(stamp(x)) /\ x # h
      BY <1>10, <2>1
    <3>. QED BY <2>1, <3>1 DEF Full, Empty, Published, Freed
  <2>2. CASE slot(x) = slot(h)
    <3>1. PICK n \in Nat : n = 2 * lap(h) + 3
      BY <1>4
    <3>2. stamp(x) = stamp(h)
      BY <2>2, Locations
    <3>3. Last(stamp(x))' = n /\ Last(stamp(x)) = n - 1
      <4>1. Last(stamp(x)) = 2 * lap(h) + 2
        BY <1>4, <3>2
      <4>. QED BY <1>4, <1>10, <2>2, <3>1, <4>1
    <3>4. lap(x) \in Nat /\ (lap(x) = lap(h) <=> x = h)
      BY <2>2, SameTicket, Stamps
    <3>5. /\ Full(x)' <=> n >= 2 * lap(x) + 2
          /\ Empty(x)' <=> n >= 2 * lap(x) + 3
          /\ Published(x)' = lap(h) + 1 /\ Freed(x)' = lap(h) + 1
      BY <1>4, <3>1, <3>3, <3>4, Halves DEF Full, Empty, Published, Freed
    <3>6. /\ Full(x) <=> n - 1 >= 2 * lap(x) + 2
          /\ Empty(x) <=> n - 1 >= 2 * lap(x) + 3
      BY <3>3, Stamps
    <3>7. Published(x) = lap(h) + 1 /\ Freed(x) = lap(h)
      BY <1>4, <3>2 DEF Published, Freed
    <3>. QED BY <1>4, <2>2, <3>1, <3>4, <3>5, <3>6, <3>7
  <2>. QED BY <2>1, <2>2
<1>14. Popped' = H + 1
  BY <1>10, <1>11 DEF Popped
<1>15. ByConsumer
  <2>1. ASSUME NEW u \in Producer, pc[u] \in {"push_write", "push_publish"}
        PROVE  Last(stamp(reg[u].t))' = Last(stamp(reg[u].t))
    <3>1. PICK k \in Nat : k = reg[u].t /\ k = reg'[u].t
      BY <1>2 DEF Inv, TypeOK
    <3>2. Last(stamp(k))' = Last(stamp(k))
      BY <1>4, <1>10, <2>1, <3>1
    <3>. QED BY <3>1, <3>2 DEF Last, stamp
  <2>2. \A x \in Nat : Last(cell(x))' = Last(cell(x)) /\ latest(cell(x))' = latest(cell(x))
    BY <1>10, Locations
  <2>. QED BY <1>1, <1>2, <1>10, <1>11, <1>13, <2>1, <2>2 DEF ByConsumer
<1>16. Tickets' /\ Outcomes' /\ \A x \in Nat : AtPublish(x)' <=> AtPublish(x)
  BY <1>2, <1>10, <1>15, ProducersStay
<1>17. Laps'
  <2>1. SUFFICES ASSUME NEW x \in Nat PROVE Lap(x)'
    BY DEF Laps
  <2>2. /\ Lap(x) /\ ~AtFree(x)' /\ (AtFree(x) <=> slot(x) = slot(h)) /\ reads' = reads
        /\ Last(cell(x))' = Last(cell(x)) /\ latest(cell(x))' = latest(cell(x))
    BY <1>2, <1>3, <1>8, <1>10, <1>11, Locations DEF Inv, Laps, AtFree, Stamping
  <2>3. Empty(x)' <=> x < Popped'
    BY <1>4, <1>13, <1>14, <2>2, Sizes DEF Lap
  <2>4. Full(x)' => x < T' /\ out'.sent[x + 1] # Refused
    BY <1>2, <1>10, <1>13, <2>2 DEF Lap
  <2>5. CASE slot(x) # slot(h)
    <3>1. Last(stamp(x))' = Last(stamp(x)) /\ x # h
      BY <1>10, <2>5
    <3>2. Published(x)' = Published(x) /\ Freed(x)' = Freed(x)
      BY <3>1 DEF Published, Freed
    <3>3. reads'[cell(x)] = Freed(x)' + 1
      BY <2>2, <2>5, <3>2 DEF Lap
    <3>4. ~AtPublish(x)' => Last(cell(x))' = Published(x)' + 1
      BY <1>16, <2>2, <3>2 DEF Lap
    <3>5. Full(x)' /\ ~Empty(x)' => latest(cell(x))' = out'.sent[x + 1]
      BY <1>2, <1>13, <2>2, <3>1 DEF Lap
    <3>. QED BY <2>2, <2>3, <2>4, <3>3, <3>4, <3>5 DEF Lap
  <2>6. CASE slot(x) = slot(h)
    <3>1. reads'[cell(x)] = Freed(x)' + 1
      BY <1>4, <1>13, <2>2, <2>6 DEF Lap
    <3>2. ~AtPublish(x)' => Last(cell(x))' = Published(x)' + 1
      BY <1>13, <1>16, <2>2, <2>6 DEF Lap
    <3>. QED BY <1>13, <2>2, <2>3, <2>4, <2>6, <3>1, <3>2 DEF Lap
  <2>. QED BY <2>5, <2>6
<1>18. Consumes'
  <2>1. head \in Clock \ {stamp(h)}
    BY Locations
  <2>2. V[head] = Last(head)
    BY <1>5, <1>8, <2>1 DEF Stamping
  <2>. QED BY <1>2, <1>3, <1>4, <1>5, <1>10, <1>11, <2>2 DEF Consumes
<1>19. NoRace'
  BY <1>8 DEF Inv, NoRace, Stamping
<1>. QED BY <1>10, <1>12, <1>16, <1>17, <1>18, <1>19 DEF Inv

LEMMA PopAdvanceStep == ASSUME MpscAssumption, Inv, PopAdvance(C) PROVE Inv'
<1>1. /\ C \in Thread /\ C \notin Producer /\ Producer \subseteq Thread
      /\ head \in Loc /\ head \in Clock /\ head # tail /\ tail \in Loc
  BY Sizes, Locations
<1>2. /\ pc[C] = "pop_head" /\ calls' = calls /\ pc' = [pc EXCEPT ![C] = "idle"] /\ reg' = reg
      /\ out' = [out EXCEPT !.got = Append(@, reg[C].v)]
  BY DEF PopAdvance, From, Goto
<1>3. PICK h \in Nat : h = reg[C].h
  BY DEF Inv, TypeOK
<1>4. /\ h = H /\ reg[C].v = out.sent[h + 1] /\ cur[C][head] = Last(head)
      /\ Last(head) = h + 1 /\ Popped = h + 1
  BY <1>1, <1>2, <1>3, Sizes DEF Inv, Consumes, H, Popped
<1>5. PICK n \in Nat : n = h + 2
  OBVIOUS
<1>6. PICK V : V = seen(cur[C], head, n)
  OBVIOUS
<1>7. PICK m : m = [val |-> h + 1, rview |-> seen(rel[C], head, n)]
  OBVIOUS
<1>8. /\ hist' = [hist EXCEPT ![head] = Append(@, m)] /\ cur' = [cur EXCEPT ![C] = V]
      /\ rel' = rel /\ reads' = reads /\ race' = race
  <2>1. Last(head) + 1 = n
    BY <1>4, <1>5
  <2>. QED BY <1>3, <1>6, <1>7, <2>1 DEF PopAdvance, Store, released, Releases
<1>9. cur[C] \in View /\ Bounded(cur[C]) /\ rel[C] \in View
  BY <1>1, Sizes DEF Inv, TypeOK
<1>10. V \in View /\ V[head] = n /\ \A x \in Clock \ {head} : V[x] = cur[C][x]
  <2>1. cur[C][head] <= n
    BY <1>4, <1>5
  <2>. QED BY <1>1, <1>6, <1>9, <2>1, SeenNew
<1>11. m \in Message
  BY <1>1, <1>7, <1>9, Seen DEF Message, Datum
<1>12. /\ hist' \in [Loc -> Seq(Message)] /\ \A x \in Loc : hist'[x] # <<>>
       /\ Last(head)' = n /\ hist'[head][n] = m
       /\ \A j \in 1..Last(head) : hist'[head][j] = hist[head][j]
       /\ \A x \in Loc \ {head} : hist'[x] = hist[x] /\ Last(x)' = Last(x) /\ latest(x)' = latest(x)
       /\ \A x \in Loc : Last(x)' \in Nat /\ Last(x)' >= Last(x)
  <2>1. Last(head) + 1 = n
    BY <1>4, <1>5
  <2>. QED BY <1>1, <1>8, <1>11, <2>1, Stored
<1>13. Grown
  BY <1>8, <1>12, Sizes DEF Grown, Inv, TypeOK
<1>14. H' = h + 1 /\ T' = T /\ \A x \in Nat : Last(stamp(x))' = Last(stamp(x))
  BY <1>1, <1>5, <1>12, Locations DEF T, H
<1>15. Messages'
  <2>1. \A j \in 1..Last(head)' : hist'[head][j].val = j - 1
    <3>1. hist'[head][n].val = n - 1
      BY <1>5, <1>7, <1>12
    <3>2. \A j \in 1..Last(head) : hist'[head][j].val = j - 1
      BY <1>12 DEF Inv, Messages
    <3>. QED BY <1>4, <1>5, <1>12, <3>1, <3>2
  <2>2. \A j \in 1..Last(tail)' : hist'[tail][j].val = j - 1
    BY <1>1, <1>12 DEF Inv, Messages
  <2>. QED BY <1>12, <1>13, <2>1, <2>2, Locations, MessagesStay
<1>16. /\ cur' \in [Thread -> View] /\ cur'[C] = V /\ \A u \in Thread \ {C} : cur'[u] = cur[u]
       /\ \A u \in Thread : Bounded(cur[u])'
  <2>1. ASSUME NEW x \in Loc PROVE V[x] \in 1..Last(x)'
    <3>1. CASE x = head
      BY <1>5, <1>10, <1>12, <3>1 DEF Last
    <3>2. CASE x # head
      <4>1. x \in Clock \ {head} /\ cur[C][x] \in 1..Last(x)
        BY <1>9, <3>2, Locations DEF Bounded
      <4>. QED BY <1>10, <1>12, <3>2, <4>1
    <3>. QED BY <3>1, <3>2
  <2>2. ASSUME NEW d \in Cell PROVE V[ReadOf(d)] <= reads'[d]
    <3>1. ReadOf(d) \in Clock \ {head} /\ cur[C][ReadOf(d)] <= reads[d]
      BY <1>9, Locations DEF Bounded
    <3>. QED BY <1>8, <1>10, <3>1
  <2>. QED BY <1>1, <1>8, <1>10, <1>13, <2>1, <2>2, ViewsStay
<1>17. /\ pc'[C] = "idle" /\ \A u \in Producer : pc'[u] = pc[u]
       /\ pc' \in [Thread -> ProducerLabel \cup ConsumerLabel]
  BY <1>1, <1>2 DEF Inv, TypeOK, ConsumerLabel
<1>18. /\ out' \in [{"sent", "got"} -> Seq(Datum)] /\ out'.sent = out.sent
       /\ Len(out'.got) = h + 1 /\ (\A x \in 1..h : out'.got[x] = out.got[x])
       /\ out'.got[h + 1] = out.sent[h + 1]
  <2>1. out \in [{"sent", "got"} -> Seq(Datum)] /\ Len(out.got) = h
    BY <1>4 DEF Inv, TypeOK
  <2>2. reg[C].v \in Datum
    BY <1>1 DEF Inv, TypeOK, Local
  <2>3. PICK q : q = Append(out.got, reg[C].v)
    OBVIOUS
  <2>4. /\ q \in Seq(Datum) /\ Len(q) = h + 1 /\ (\A x \in 1..h : q[x] = out.got[x])
        /\ q[h + 1] = reg[C].v
    BY <2>1, <2>2, <2>3, AppendProperties
  <2>5. out'.got = q /\ out'.sent = out.sent /\ out' \in [{"sent", "got"} -> Seq(Datum)]
    BY <1>2, <2>1, <2>3, <2>4
  <2>. QED BY <1>4, <2>4, <2>5
<1>19. TypeOK'
  <2>1. rel' \in [Thread -> View] /\ reads' \in [Cell -> Nat]
    BY <1>8 DEF Inv, TypeOK
  <2>2. /\ pc'[C] \in ConsumerLabel /\ \A u \in Producer : pc'[u] \in ProducerLabel
        /\ reg' \in [Thread -> [Local -> Datum]] /\ calls' \in [Thread -> Nat]
        /\ reg'[C].h \in Nat /\ \A u \in Producer : reg'[u].t \in Nat
    BY <1>2, <1>17 DEF Inv, TypeOK, ConsumerLabel
  <2>3. Len(out.sent)' = T' /\ Len(out.got)' = H'
    BY <1>14, <1>18 DEF Inv, TypeOK
  <2>. QED BY <1>12, <1>16, <1>17, <1>18, <2>1, <2>2, <2>3 DEF TypeOK
<1>20. \A x \in Nat : /\ Full(x)' <=> Full(x)
                      /\ Last(cell(x))' = Last(cell(x)) /\ latest(cell(x))' = latest(cell(x))
  BY <1>12, <1>14, Locations, StampsStay
<1>21. ByConsumer
  <2>1. ASSUME NEW u \in Producer PROVE Last(stamp(reg[u].t))' = Last(stamp(reg[u].t))
    <3>1. PICK k \in Nat : k = reg[u].t /\ k = reg'[u].t
      BY <1>2 DEF Inv, TypeOK
    <3>2. Last(stamp(k))' = Last(stamp(k))
      BY <1>14
    <3>. QED BY <3>1, <3>2 DEF Last, stamp
  <2>. QED BY <1>1, <1>2, <1>14, <1>16, <1>17, <1>18, <1>20, <2>1 DEF ByConsumer
<1>22. Tickets' /\ \A x \in Nat : AtPublish(x)' <=> AtPublish(x)
  BY <1>21, ProducersStay
<1>23. Laps'
  <2>1. SUFFICES ASSUME NEW x \in Nat PROVE Lap(x)'
    BY DEF Laps
  <2>2. Popped' = Popped /\ (AtFree(x)' <=> AtFree(x))
    BY <1>2, <1>4, <1>14, <1>17 DEF Popped, AtFree
  <2>3. T' \in Nat /\ T' >= T /\ reads'[cell(x)] = reads[cell(x)] /\ out'.sent[x + 1] = out.sent[x + 1]
    BY <1>8, <1>14, <1>18, Sizes
  <2>. QED BY <1>14, <1>20, <1>22, <2>2, <2>3, LapStays
<1>24. Consumes'
  BY <1>10, <1>12, <1>16, <1>17 DEF Consumes
<1>25. Outcomes'
  <2>1. ASSUME NEW x \in 0..(T - 1)
        PROVE  \/ Full(x)' \/ out'.sent[x + 1] = Refused
               \/ \E u \in Producer : pc'[u] # "idle" /\ reg'[u].t = x
    <3>1. \/ Full(x) \/ out.sent[x + 1] = Refused
          \/ \E u \in Producer : pc[u] # "idle" /\ reg[u].t = x
      BY DEF Inv, Outcomes
    <3>2. x \in Nat
      BY Sizes
    <3>. QED BY <1>2, <1>17, <1>18, <1>20, <3>1, <3>2
  <2>2. \A k \in 1..h : out'.got[k] = out'.sent[k]
    BY <1>4, <1>18 DEF Inv, Outcomes
  <2>3. \A k \in 1..(h + 1) : out'.got[k] = out'.sent[k]
    BY <1>18, <2>2
  <2>. QED BY <1>14, <2>1, <2>3 DEF Outcomes
<1>26. NoRace'
  BY <1>8 DEF Inv, NoRace
<1>. QED BY <1>15, <1>19, <1>22, <1>23, <1>24, <1>25, <1>26 DEF Inv

-----------------------------------------------------------------------------
LEMMA StutterStep == ASSUME MpscAssumption, Inv, UNCHANGED state PROVE Inv'
<1>1. /\ Still /\ cur' = cur /\ pc' = pc /\ reg' = reg /\ calls' = calls /\ out' = out
      /\ C \in Thread
  BY Sizes DEF state, wm, Still
<1>2. /\ Messages' /\ NoRace' /\ T' = T /\ H' = H
      /\ \A l \in Loc : Last(l)' = Last(l) /\ latest(l)' = latest(l)
      /\ \A x \in Nat : Last(stamp(x))' = Last(stamp(x))
  BY <1>1, StillMemory
<1>3. TypeOK'
  <2>1. \A u \in Thread : Bounded(cur[u])'
    BY <1>1 DEF Inv, TypeOK, Bounded, Still, Last
  <2>2. Len(out.sent)' = T' /\ Len(out.got)' = H'
    BY <1>1, <1>2 DEF Inv, TypeOK
  <2>. QED BY <1>1, <2>1, <2>2 DEF Inv, TypeOK, Still
<1>4. ByConsumer
  <2>1. \A x \in Nat : Full(x)' <=> Full(x)
    BY <1>2, StampsStay
  <2>2. \A u \in Producer : Last(stamp(reg[u].t))' = Last(stamp(reg[u].t))
    BY <1>1 DEF Still, Last, stamp
  <2>. QED BY <1>1, <1>2, <2>1, <2>2, Locations DEF ByConsumer
<1>5. Tickets' /\ Outcomes' /\ \A x \in Nat : AtPublish(x)' <=> AtPublish(x)
  BY <1>1, <1>2, <1>4, ProducersStay
<1>6. Consumes' /\ Popped' = Popped /\ \A x \in Nat : AtFree(x)' <=> AtFree(x)
  <2>1. PICK h \in Nat : h = reg[C].h
    BY DEF Inv, TypeOK
  <2>. QED BY <1>1, <1>2, <2>1, Locations, ConsumerStays
<1>7. Laps'
  <2>1. SUFFICES ASSUME NEW x \in Nat PROVE Lap(x)'
    BY DEF Laps
  <2>2. Last(cell(x))' = Last(cell(x)) /\ latest(cell(x))' = latest(cell(x))
    BY <1>2, Locations
  <2>3. T' \in Nat /\ T' >= T /\ reads'[cell(x)] = reads[cell(x)] /\ out'.sent[x + 1] = out.sent[x + 1]
    BY <1>1, <1>2, Sizes DEF Still
  <2>. QED BY <1>2, <1>5, <1>6, <2>2, <2>3, LapStays
<1>. QED BY <1>2, <1>3, <1>5, <1>6, <1>7 DEF Inv

LEMMA InitInv == ASSUME MpscAssumption, Init PROVE Inv
<1>1. /\ hist = [l \in Loc |-> <<[val |-> initMem[l], rview |-> bot]>>]
      /\ cur = [th \in Thread |-> bot] /\ rel = [th \in Thread |-> bot]
      /\ reads = [c \in Cell |-> 1] /\ race = FALSE
      /\ pc = [th \in Thread |-> "idle"]
      /\ reg = [th \in Thread |-> [x \in Local |-> 0]]
      /\ calls = [th \in Thread |-> 0] /\ out = [sent |-> <<>>, got |-> <<>>]
  BY DEF Init, CoreInit, WMInit, Local
<1>2. C \in Thread /\ Producer \subseteq Thread
  BY DEF MpscAssumption, C, Thread
<1>3. bot \in View /\ \A x \in Clock : bot[x] = 1
  BY DEF bot, View
<1>4. \A l \in Loc : Last(l) = 1 /\ hist[l] = <<[val |-> initMem[l], rview |-> bot]>>
                     /\ hist[l][1].val = initMem[l] /\ hist[l][1].rview = bot
  BY <1>1 DEF Last
<1>5. Bounded(bot)
  <2>1. \A c \in Cell : reads[c] = 1 /\ ReadOf(c) \in Clock
    BY <1>1, Locations
  <2>2. \A l \in Loc : l \in Clock /\ 1 \in 1..Last(l)
    <3>1. 1 \in 1..1
      OBVIOUS
    <3>. QED BY <1>4, <3>1, Locations
  <2>. QED BY <1>3, <2>1, <2>2 DEF Bounded
<1>6. initMem[head] = 0 /\ initMem[tail] = 0 /\ \A x \in Nat : initMem[stamp(x)] = slot(x)
  <2>1. \A x \in Nat : stamp(x)[2] = slot(x)
    BY DEF stamp, slot
  <2>. QED BY <2>1, Locations DEF initMem
<1>7. \A l \in Loc : initMem[l] \in Datum
  <2>1. \A x \in Nat : slot(x) \in Nat
    BY Division DEF Slots, MpscAssumption
  <2>2. \A c \in Cell : initMem[c] = Refused
    BY Locations DEF initMem
  <2>. QED BY <1>6, <2>1, <2>2, Locations DEF Datum
<1>8. T = 0 /\ H = 0 /\ Popped = 0
  BY <1>1, <1>2, <1>4, Locations DEF T, H, Popped
<1>9. TypeOK
  <2>1. \A l \in Loc : hist[l] \in Seq(Message) /\ hist[l] # <<>>
    <3>1. ASSUME NEW l \in Loc PROVE hist[l] \in Seq(Message) /\ hist[l] # <<>>
      <4>1. PICK m \in Message : m = [val |-> initMem[l], rview |-> bot]
        BY <1>3, <1>7 DEF Message
      <4>2. <<m>> \in Seq(Message) /\ <<m>> # <<>>
        BY <4>1
      <4>. QED BY <1>4, <4>1, <4>2
    <3>. QED BY <3>1
  <2>2. hist \in [Loc -> Seq(Message)]
    BY <1>1, <2>1
  <2>3. reg \in [Thread -> [Local -> Datum]]
    BY <1>1 DEF Datum
  <2>4. reg[C].h \in Nat /\ \A th \in Producer : reg[th].t \in Nat
    BY <1>1, <1>2 DEF Local
  <2>5. pc[C] \in ConsumerLabel /\ \A th \in Producer : pc[th] \in ProducerLabel
    BY <1>1, <1>2 DEF ConsumerLabel, ProducerLabel
  <2>6. out \in [{"sent", "got"} -> Seq(Datum)] /\ Len(out.sent) = T /\ Len(out.got) = H
    <3>1. <<>> \in Seq(Datum) /\ Len(<<>>) = 0
      BY EmptySeq
    <3>2. PICK q : q = <<>>
      OBVIOUS
    <3>3. out = [sent |-> q, got |-> q] /\ q \in Seq(Datum) /\ Len(q) = 0
      BY <1>1, <3>1, <3>2
    <3>4. DOMAIN out = {"sent", "got"} /\ out.sent = q /\ out.got = q
      BY <3>3
    <3>5. out = [x \in {"sent", "got"} |-> out[x]]
      BY <3>3, <3>4
    <3>6. \A x \in {"sent", "got"} : out[x] = q
      BY <3>4
    <3>7. out \in [{"sent", "got"} -> Seq(Datum)]
      BY <3>3, <3>5, <3>6
    <3>. QED BY <1>8, <3>3, <3>4, <3>7
  <2>7. pc \in [Thread -> ProducerLabel \cup ConsumerLabel]
    BY <1>1 DEF ProducerLabel
  <2>. QED BY <1>1, <1>3, <1>5, <2>1, <2>2, <2>3, <2>4, <2>5, <2>6, <2>7 DEF TypeOK
<1>10. \A x \in Nat : /\ Last(stamp(x)) = 1 /\ lap(x) \in Nat /\ Published(x) = 0 /\ Freed(x) = 0
                      /\ ~Full(x) /\ ~Empty(x)
  <2>1. \A x \in Nat : Last(stamp(x)) = 1 /\ lap(x) \in Nat
    BY <1>4, Division, Locations
  <2>2. 1 \div 2 = 0 /\ (1 - 1) \div 2 = 0
    OBVIOUS
  <2>. QED BY <2>1, <2>2 DEF Published, Freed, Full, Empty
<1>11. Messages
  <2>1. ASSUME NEW x \in Nat, NEW j \in 1..Last(stamp(x)) PROVE StampMessage(x, j, hist[stamp(x)][j])
    <3>1. j = 1 /\ hist[stamp(x)][j].val = slot(x) /\ hist[stamp(x)][j].rview = bot
      <4>1. j = 1
        BY <1>10
      <4>2. stamp(x) \in Loc
        BY Locations
      <4>. QED BY <1>4, <1>6, <4>1, <4>2
    <3>2. lap(x) = 0 => x = slot(x)
      BY Division DEF MpscAssumption, Slots
    <3>3. cell(x) \in Clock /\ ReadOf(cell(x)) \in Clock
      BY Locations
    <3>4. 1 = 2 * lap(x) + 1 => lap(x) = 0
      BY <1>10
    <3>5. 1 # 2 * lap(x) + 2
      BY <1>10
    <3>. QED BY <1>3, <1>5, <3>1, <3>2, <3>3, <3>4, <3>5 DEF StampMessage
  <2>2. /\ \A i \in 1..Last(tail) : hist[tail][i].val = i - 1
        /\ \A i \in 1..Last(head) : hist[head][i].val = i - 1
    <3>1. \A i \in 1..1 : i = 1 /\ i - 1 = 0
      OBVIOUS
    <3>2. /\ Last(tail) = 1 /\ hist[tail][1].val = 0
          /\ Last(head) = 1 /\ hist[head][1].val = 0
      BY <1>4, <1>6, Locations
    <3>. QED BY <3>1, <3>2
  <2>. QED BY <2>1, <2>2 DEF Messages
<1>12. Laps
  <2>1. ASSUME NEW x \in Nat PROVE Lap(x)
    <3>1. ~AtFree(x)
      BY <1>1, <1>2 DEF AtFree
    <3>2. reads[cell(x)] = 1 /\ Last(cell(x)) = 1
      BY <1>1, <1>4, Locations
    <3>. QED BY <1>8, <1>10, <3>1, <3>2 DEF Lap
  <2>. QED BY <2>1 DEF Laps
<1>13. Tickets /\ Consumes
  BY <1>1, <1>2, <1>3, <1>4, Locations DEF Tickets, Ticket, Consumes
<1>14. Outcomes /\ NoRace
  BY <1>1, <1>8 DEF Outcomes, NoRace
<1>. QED BY <1>9, <1>11, <1>12, <1>13, <1>14 DEF Inv

LEMMA NextInv == ASSUME MpscAssumption, Inv, [Next]_state PROVE Inv'
<1>1. CASE UNCHANGED state
  BY <1>1, StutterStep
<1>2. CASE \E th \in Producer : Push(th)
  BY <1>2, TakeTicketStep, PushStampStep, PushWriteStep, PushPublishStep DEF Push
<1>3. CASE Pop("consumer")
  BY <1>3, PopHeadStep, PopStampStep, PopReadStep, PopFreeStep, PopAdvanceStep DEF Pop, C
<1>. QED BY <1>1, <1>2, <1>3 DEF Next

LEMMA Inductive == ASSUME MpscAssumption PROVE Spec => []Inv
BY InitInv, NextInv, PTL DEF Spec

(* No two accesses of a cell race, and the store of a stamp or of the head *)
(* is by a thread that knows the last one, for every capacity but one and  *)
(* any number of producers: the ticket, and the acquire load of the stamp, *)
(* give the slot to one thread at a time (mpsc.rs:50-75).                  *)
LEMMA Safe == ASSUME MpscAssumption PROVE Spec => [](NoRace /\ StoresAreLatest)
<1>1. ASSUME Inv PROVE NoRace /\ StoresAreLatest
  <2>1. ASSUME NEW th \in Producer, pc[th] = "push_publish"
        PROVE  cur[th][stamp(reg[th].t)] = Last(stamp(reg[th].t))
    BY <1>1, <2>1 DEF Inv, Tickets, Ticket
  <2>2. pc[C] = "pop_free" => cur[C][stamp(reg[C].h)] = Last(stamp(reg[C].h))
    BY <1>1 DEF Inv, Consumes
  <2>3. cur[C][head] = Last(head) /\ NoRace
    BY <1>1 DEF Inv, Consumes
  <2>. QED BY <2>1, <2>2, <2>3 DEF StoresAreLatest, C
<1>. QED BY <1>1, Inductive, PTL

(* Values come out once each and in the order of their tickets, and never  *)
(* that of a push that was refused (mpsc.rs:65-75).                        *)
LEMMA InOrder == ASSUME MpscAssumption PROVE Spec => []InTicketOrder
<1>1. ASSUME Inv PROVE InTicketOrder
  <2>1. out.got \in Seq(Datum) /\ Len(out.got) = H /\ Len(out.sent) = T /\ H <= T
    BY <1>1, Settled DEF Inv, TypeOK
  <2>2. ASSUME NEW k \in 1..H PROVE out.got[k] = out.sent[k] /\ out.sent[k] # Refused
    <3>1. PICK t \in Nat : t = k - 1 /\ t + 1 = k /\ t < H
      BY <1>1, Sizes
    <3>2. Full(t)
      BY <1>1, <3>1, Settled
    <3>3. out.sent[t + 1] # Refused
      BY <1>1, <3>2 DEF Inv, Laps, Lap
    <3>. QED BY <1>1, <3>1, <3>3 DEF Inv, Outcomes
  <2>3. DOMAIN out.got = 1..H
    BY <2>1
  <2>. QED BY <2>1, <2>2, <2>3 DEF InTicketOrder
<1>. QED BY <1>1, Inductive, PTL

(* A push that returned true is not lost: when all threads are at rest its *)
(* value has come out, or its slot holds it under its stamp, whatever the  *)
(* other producers and the refusals in between (mpsc.rs:50-62).            *)
LEMMA Kept == ASSUME MpscAssumption PROVE Spec => []AcceptedIsKept
<1>1. ASSUME Inv PROVE AcceptedIsKept
  <2>1. SUFFICES ASSUME \A th \in Thread : pc[th] = "idle", NEW k \in DOMAIN out.sent,
                        out.sent[k] # Refused, k > Len(out.got)
                 PROVE  latest(stamp(k - 1)) = k /\ latest(cell(k - 1)) = out.sent[k]
    BY DEF AcceptedIsKept
  <2>2. k \in 1..T /\ k > H
    BY <1>1, <2>1 DEF Inv, TypeOK
  <2>3. PICK t \in Nat : t = k - 1 /\ t + 1 = k
    BY <1>1, <2>2, Sizes
  <2>4. t \in 0..(T - 1) /\ ~(t < Popped)
    BY <1>1, <2>1, <2>2, <2>3, Sizes DEF Popped
  <2>5. Full(t) /\ ~Empty(t)
    BY <1>1, <2>1, <2>3, <2>4, Sizes DEF Inv, Outcomes, Laps, Lap
  <2>6. Last(stamp(t)) = 2 * lap(t) + 2 /\ lap(t) \in Nat
    BY <1>1, <2>5, Stamps
  <2>7. latest(stamp(t)) = t + 1
    BY <1>1, <2>6 DEF Inv, Messages, StampMessage, latest, val
  <2>8. latest(cell(t)) = out.sent[t + 1]
    BY <1>1, <2>5 DEF Inv, Laps, Lap
  <2>. QED BY <2>3, <2>7, <2>8
<1>. QED BY <1>1, Inductive, PTL

(* The queue is safe, in order, and keeps what it has accepted, for every  *)
(* capacity but one and any number of producers and of calls (mpsc.rs).    *)
THEOREM Correct == ASSUME MpscAssumption PROVE Spec => []MpscKeepsOrder
BY Safe, InOrder, Kept, PTL DEF MpscKeepsOrder
=============================================================================
