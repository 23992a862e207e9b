--------------------------- MODULE ChaseLevProofs ---------------------------
(***************************************************************************)
(* The Chase-Lev deque, for any capacity, number of thieves and number of  *)
(* calls: each value is claimed once, and none is lost.                    *)
(***************************************************************************)
EXTENDS ChaseLev, SequenceTheorems, TLAPS

O == Owner
Slots == {slot(i) : i \in 0..(N - 1)}
Local == {"b", "t", "v"}
Message == [val : Int, rview : View]
OwnerLabel == {"idle", "push_top", "push_slot", "push_fence", "push_bottom", "take_bottom",
               "take_fence", "take_top", "take_slot", "take_cas", "take_restore"}
ThiefLabel == {"idle", "steal_fence", "steal_bottom", "steal_slot", "steal_cas"}

(* The indices as they are stored.                                         *)
T == Last(top) - 1
B == latest(bottom)

(* A take that has lowered bottom has one item more at its disposal, until *)
(* it has loaded it or lost it.  It has decided for it if it has seen more *)
(* than one item; thieves may claim those below Open.                      *)
Taking == pc[O] \in {"take_fence", "take_top", "take_slot", "take_cas", "take_restore"}
Decided == pc[O] = "take_slot" /\ reg[O].t # reg[O].b
End == IF Taking THEN B + 1 ELSE B
Open == IF Decided THEN B ELSE End

(* A view of messages there are.                                           *)
Bounded(V) == V \in View /\ \A l \in Loc : V[l] \in 1..Last(l)

Memory ==
  /\ hist \in [Loc -> Seq(Message)] /\ \A l \in Loc : hist[l] # <<>>
  /\ \A l \in Loc : \A i \in 1..Last(l) : Bounded(hist[l][i].rview)
  /\ cur \in [Thread -> View] /\ acq \in [Thread -> View] /\ rel \in [Thread -> View]
  /\ Bounded(sc)
  /\ \A th \in Thread : Bounded(cur[th]) /\ Bounded(acq[th]) /\ Bounded(rel[th])
  /\ \A th \in Thread : \A l \in Loc : cur[th][l] <= acq[th][l]

Control ==
  /\ pc \in [Thread -> OwnerLabel \cup ThiefLabel]
  /\ pc[O] \in OwnerLabel /\ \A th \in Thief : pc[th] \in ThiefLabel
  /\ reg \in [Thread -> [Local -> Int]]
  /\ out \in [pushed : Nat, got : Seq(Int)]

(* Top counts up.  All but its last step is known to the owner or to all   *)
(* that pass a fence.                                                      *)
Tops ==
  /\ \A i \in 1..Last(top) : val(top, i) = i - 1
  /\ T <= sc[top] \/ T <= cur[O][top]

(* The owner knows bottom and the slots, and so does whoever acquires what *)
(* it stores to bottom.                                                    *)
OwnerKnows ==
  /\ \A l \in Loc \ {top} : cur[O][l] = Last(l)
  /\ pc[O] # "push_fence" => \A s \in Slots : rel[O][s] = Last(s)

OwnerLocals ==
  LET r == reg[O] IN
  /\ pc[O] \in {"push_top", "push_slot", "push_fence", "push_bottom"} => r.b = B
  /\ pc[O] \in {"push_slot", "push_fence", "push_bottom"} => B - T < N
  /\ pc[O] \in {"push_fence", "push_bottom"} => latest(slot(B)) = out.pushed + 1
  /\ pc[O] = "take_bottom" => r.b = B - 1
  /\ Taking => r.b = B
  /\ pc[O] = "take_top" => sc[bottom] = Last(bottom) /\ (T > B => cur[O][top] >= T)
  /\ pc[O] \in {"take_slot", "take_cas"} => r.t <= B /\ r.t < cur[O][top]
  /\ pc[O] = "take_cas" => r.t = B /\ r.v = latest(slot(B))
  /\ pc[O] = "take_restore" => T > B

Window == T <= Open /\ End - T <= N

(* What was pushed is in the slots from top on, oldest first, or claimed.  *)
Claimed(v) == \E k \in 1..Len(out.got) : out.got[k] = v
Items ==
  /\ \A i \in T..(End - 1) : latest(slot(i)) \in 1..out.pushed /\ ~Claimed(latest(slot(i)))
  /\ \A i, j \in T..(End - 1) : i < j => latest(slot(i)) < latest(slot(j))
  /\ \A v \in 1..out.pushed : Claimed(v) \/ \E i \in T..(End - 1) : latest(slot(i)) = v

(* From message m on, bottom shows an index only while its item may be     *)
(* claimed, and releases the store of it.                                  *)
Shown(m, i) ==
  \A j \in m..Last(bottom) :
    val(bottom, j) > i => i < Open /\ hist[bottom][j].rview[slot(i)] = Last(slot(i))

(* So it is for all that pass a fence from now on ...                      *)
Posted == \A i \in Nat : T <= i => Shown(sc[bottom], i)

(* ... and for a thief that has passed its fence, as long as top is what   *)
(* it has read.  If the owner has passed a fence too, in a take that is    *)
(* after the same item, one of the two knows of the other.                 *)
Past(th) == pc[th] \in {"steal_bottom", "steal_slot", "steal_cas"}
Fresh(th) ==
  /\ Shown(cur[th][bottom], T)
  /\ pc[O] = "take_top" /\ T = B =>
       \/ cur[O][top] = Last(top)
       \/ pc[th] = "steal_bottom" /\ cur[th][bottom] = Last(bottom)
  /\ pc[th] = "steal_slot" => T < Open /\ cur[th][slot(T)] = Last(slot(T))
  /\ pc[th] = "steal_cas" => T < Open /\ reg[th].v = latest(slot(T))
Aims(th) ==
  /\ pc[th] # "idle" => reg[th].t \in 0..T /\ reg[th].t < acq[th][top]
  /\ Past(th) => reg[th].t < sc[top]
  /\ Past(th) /\ reg[th].t = T => Fresh(th)
ThievesAim == \A th \in Thief : Aims(th)

Inv == /\ Memory /\ Control /\ Tops /\ OwnerKnows /\ OwnerLocals /\ Window /\ Items
       /\ ClaimedOnce /\ Posted /\ ThievesAim /\ NoRace
-----------------------------------------------------------------------------
LEMMA Division ==
  ASSUME ChaseLevAssumption, NEW k \in Int
  PROVE  k = N * (k \div N) + (k % N) /\ k % N \in 0..(N - 1) /\ k \div N \in Int
BY SMTT(30) DEF ChaseLevAssumption

(* Fewer than N indices in a row are those of different slots.             *)
LEMMA SlotsDiffer ==
  ASSUME ChaseLevAssumption, NEW i \in Int, NEW j \in Int, i < j, j - i < N
  PROVE  slot(i) # slot(j)
<1>. DEFINE p == i \div N
            q == j \div N
            r == i % N
            s == j % N
<1>1. i = N * p + r /\ j = N * q + s /\ p \in Int /\ q \in Int /\ r \in 0..(N - 1) /\ s \in 0..(N - 1)
  BY Division
<1>2. SUFFICES ASSUME r = s PROVE FALSE
  BY DEF slot
<1>. HIDE DEF p, q, r, s
<1>3. N \in Nat /\ N * p \in Int /\ N * q \in Int
  BY <1>1 DEF ChaseLevAssumption
<1>4. CASE q <= p
  <2>1. PICK d \in Nat : p = q + d
    BY <1>1, <1>4
  <2>2. N * p = N * q + N * d /\ N * d \in Nat
    BY <1>1, <1>3, <2>1
  <2>. QED BY <1>1, <1>2, <1>3, <2>2
<1>5. CASE p < q
  <2>1. PICK d \in Nat : q = p + 1 + d
    BY <1>1, <1>5
  <2>2. N * q = N * p + N + N * d /\ N * d \in Nat
    BY <1>1, <1>3, <2>1
  <2>. QED BY <1>1, <1>2, <1>3, <2>2
<1>. QED BY <1>1, <1>4, <1>5

LEMMA Locations ==
  ASSUME ChaseLevAssumption
  PROVE  /\ Clock = Loc /\ Loc = {top, bottom} \cup Slots
         /\ top # bottom /\ top \notin Slots /\ bottom \notin Slots
         /\ \A i \in Int : slot(i) \in Slots
         /\ O \in Thread /\ O \notin Thief /\ Thread = Thief \cup {O}
<1>1. Clock = Loc /\ Loc = {top, bottom} \cup Slots
  BY DEF Clock, Cell, Loc, Slots
<1>2. top # bottom /\ top \notin Slots /\ bottom \notin Slots
  BY DEF top, bottom, Slots, slot
<1>3. ASSUME NEW i \in Int PROVE slot(i) \in Slots
  <2>1. i % N \in 0..(N - 1)
    BY Division
  <2>2. (i % N) % N = i % N
    BY <2>1, SMTT(30) DEF ChaseLevAssumption
  <2>. QED BY <2>1, <2>2 DEF slot, Slots
<1>. QED BY <1>1, <1>2, <1>3 DEF ChaseLevAssumption, O, Thread

LEMMA Numbers ==
  ASSUME ChaseLevAssumption, Memory
  PROVE  /\ \A l \in Loc : Last(l) \in Nat \ {0} /\ \A i \in 1..Last(l) : hist[l][i] \in Message /\ val(l, i) \in Int
         /\ \A V : Bounded(V) => \A x \in Loc : V[x] \in Nat /\ V[x] <= Last(x)
         /\ \A th \in Thread : \A x \in Loc : cur[th][x] \in Nat /\ acq[th][x] \in Nat /\ rel[th][x] \in Nat
         /\ \A x \in Loc : sc[x] \in Nat
         /\ \A th \in Thread : \A x \in Loc : cur[th][x] <= Last(x) /\ acq[th][x] <= Last(x) /\ rel[th][x] <= Last(x)
         /\ \A x \in Loc : sc[x] <= Last(x)
         /\ T \in Nat /\ B \in Int
<1>1. \A l \in Loc : Last(l) \in Nat \ {0} /\ \A i \in 1..Last(l) : hist[l][i] \in Message
  BY DEF Memory, Last
<1>2. \A m \in Message : m.val \in Int
  BY DEF Message
<1>3. \A V : Bounded(V) => \A x \in Loc : V[x] \in Nat /\ V[x] <= Last(x)
  BY <1>1 DEF Bounded
<1>4. T \in Nat /\ B \in Int
  BY <1>1, <1>2, Locations DEF T, B, latest, val
<1>. QED BY <1>1, <1>2, <1>3, <1>4 DEF Memory, val

-----------------------------------------------------------------------------
(* The accesses of the memory.                                             *)
LEMMA Joined ==
  ASSUME ChaseLevAssumption, Memory, NEW V, NEW U, Bounded(V), Bounded(U)
  PROVE  /\ Bounded(join(V, U))
         /\ \A x \in Loc : V[x] <= join(V, U)[x] /\ U[x] <= join(V, U)[x]
BY Locations DEF Bounded, join, View

LEMMA Seen ==
  ASSUME ChaseLevAssumption, NEW V \in View, NEW l \in Loc, NEW i \in Nat
  PROVE  /\ seen(V, l, i) \in View
         /\ seen(V, l, i)[l] = IF V[l] < i THEN i ELSE V[l]
         /\ \A x \in Loc \ {l} : seen(V, l, i)[x] = V[x]
BY Locations DEF seen, View

LEMMA LoadView ==
  ASSUME ChaseLevAssumption, Memory, NEW V, Bounded(V), NEW l \in Loc, NEW i \in 1..Last(l),
         NEW o \in {"Relaxed", "Acquire", "SeqCst"}
  PROVE  /\ Bounded(loadView(V, l, i, o))
         /\ \A x \in Loc : V[x] <= loadView(V, l, i, o)[x]
         /\ i <= loadView(V, l, i, o)[l]
         /\ o = "Acquire" => \A x \in Loc : hist[l][i].rview[x] <= loadView(V, l, i, o)[x]
<1>1. i \in Nat /\ V \in View /\ Bounded(hist[l][i].rview)
  BY Numbers DEF Bounded, Memory
<1>. DEFINE U == seen(V, l, i)
            W == hist[l][i].rview
<1>2. Bounded(U) /\ i <= U[l] /\ \A x \in Loc : V[x] <= U[x]
  <2>1. /\ U \in View /\ U[l] = (IF V[l] < i THEN i ELSE V[l])
        /\ \A x \in Loc \ {l} : U[x] = V[x]
    BY <1>1, Seen
  <2>. HIDE DEF U
  <2>2. \A x \in Loc : V[x] \in 1..Last(x) /\ Last(x) \in Nat
    BY Numbers DEF Bounded
  <2>3. \A x \in Loc : U[x] \in 1..Last(x) /\ V[x] <= U[x]
    BY <2>1, <2>2
  <2>. QED BY <1>1, <2>1, <2>2, <2>3 DEF Bounded
<1>. HIDE DEF U, W
<1>3. CASE o = "Relaxed"
  BY <1>2, <1>3 DEF loadView, Acquires, U
<1>4. CASE o # "Relaxed"
  <2>1. loadView(V, l, i, o) = join(U, W)
    BY <1>4 DEF loadView, Acquires, U, W
  <2>2. /\ Bounded(join(U, W))
        /\ \A x \in Loc : U[x] <= join(U, W)[x] /\ W[x] <= join(U, W)[x]
    BY <1>1, <1>2, Joined DEF W
  <2>3. \A x \in Loc : V[x] \in Nat /\ U[x] \in Nat /\ join(U, W)[x] \in Nat
    BY <1>2, <2>2, Numbers
  <2>. QED BY <1>1, <1>2, <2>1, <2>2, <2>3 DEF W
<1>. QED BY <1>3, <1>4

LEMMA Loads ==
  ASSUME ChaseLevAssumption, Memory, NEW th \in Thread, NEW l \in Loc, NEW i \in canLoad(th, l),
         NEW o \in {"Relaxed", "Acquire"}, Load(th, l, i, o)
  PROVE  /\ Memory' /\ UNCHANGED <<hist, rel, sc, race>>
         /\ i \in 1..Last(l) /\ cur[th][l] <= i
         /\ \A u \in Thread \ {th} : cur'[u] = cur[u] /\ acq'[u] = acq[u]
         /\ \A x \in Loc : cur[th][x] <= cur'[th][x] /\ acq[th][x] <= acq'[th][x]
         /\ i <= cur'[th][l] /\ i <= acq'[th][l]
         /\ o = "Acquire" => \A x \in Loc : hist[l][i].rview[x] <= cur'[th][x]
<1>1. i \in 1..Last(l) /\ cur[th][l] <= i
  <2>1. cur[th][l] \in 1..Last(l) /\ Last(l) \in Nat
    BY Numbers DEF Memory, Bounded
  <2>. QED BY <2>1 DEF canLoad
<1>. DEFINE V == loadView(cur[th], l, i, o)
            A == loadView(acq[th], l, i, "Acquire")
<1>2. /\ Bounded(V) /\ i <= V[l] /\ \A x \in Loc : cur[th][x] <= V[x]
      /\ o = "Acquire" => \A x \in Loc : hist[l][i].rview[x] <= V[x]
  BY <1>1, LoadView DEF Memory
<1>3. /\ Bounded(A) /\ i <= A[l] /\ \A x \in Loc : acq[th][x] <= A[x] /\ hist[l][i].rview[x] <= A[x]
  BY <1>1, LoadView DEF Memory
<1>4. \A x \in Loc : V[x] <= A[x]
  <2>. DEFINE C == seen(cur[th], l, i)
              D == seen(acq[th], l, i)
              W == hist[l][i].rview
  <2>1. i \in Nat /\ cur[th] \in View /\ acq[th] \in View /\ W \in View
    BY <1>1, Numbers DEF Memory, Bounded
  <2>2. /\ C[l] = (IF cur[th][l] < i THEN i ELSE cur[th][l]) /\ \A x \in Loc \ {l} : C[x] = cur[th][x]
        /\ D[l] = (IF acq[th][l] < i THEN i ELSE acq[th][l]) /\ \A x \in Loc \ {l} : D[x] = acq[th][x]
    BY <2>1, Seen
  <2>3. A = join(D, W) /\ (V = C \/ V = join(C, W))
    BY DEF loadView, Acquires
  <2>. HIDE DEF V, A, C, D, W
  <2>4. \A x \in Loc : W[x] \in Nat
    BY <2>1, Locations DEF View
  <2>5. \A x \in Loc : cur[th][x] \in Nat /\ acq[th][x] \in Nat /\ cur[th][x] <= acq[th][x]
    BY Numbers DEF Memory
  <2>6. \A x \in Loc : C[x] \in Nat /\ D[x] \in Nat /\ C[x] <= D[x]
    BY <2>1, <2>2, <2>5
  <2>. QED BY <2>3, <2>4, <2>6, Locations DEF join
<1>5. /\ cur' = [cur EXCEPT ![th] = V] /\ acq' = [acq EXCEPT ![th] = A]
      /\ UNCHANGED <<hist, rel, sc, race>>
  BY DEF Load
<1>. HIDE DEF V, A
<1>6. /\ cur' \in [Thread -> View] /\ cur'[th] = V /\ \A u \in Thread \ {th} : cur'[u] = cur[u]
      /\ acq' \in [Thread -> View] /\ acq'[th] = A /\ \A u \in Thread \ {th} : acq'[u] = acq[u]
  BY <1>2, <1>3, <1>5 DEF Memory, Bounded
<1>7. Memory'
  <2>1. \A u \in Thread : Bounded(cur'[u]) /\ Bounded(acq'[u]) /\ \A x \in Loc : cur'[u][x] <= acq'[u][x]
    BY <1>2, <1>3, <1>4, <1>6 DEF Memory
  <2>. QED BY <1>5, <1>6, <2>1 DEF Memory, Bounded, Last
<1>. QED BY <1>1, <1>2, <1>3, <1>5, <1>6, <1>7

(* Thread th adds message m to l, and has views V and A then.              *)
LEMMA Appended ==
  ASSUME ChaseLevAssumption, Memory, NEW l \in Loc, NEW m \in Message,
         hist' = [hist EXCEPT ![l] = Append(@, m)]
  PROVE  /\ hist' \in [Loc -> Seq(Message)] /\ \A k \in Loc : hist'[k] # <<>>
         /\ Last(l)' = Last(l) + 1 /\ latest(l)' = m.val /\ hist'[l][Last(l) + 1] = m
         /\ \A i \in 1..Last(l) : hist'[l][i] = hist[l][i]
         /\ \A k \in Loc \ {l} : hist'[k] = hist[k]
         /\ \A k \in Loc : Last(k) <= Last(k)'
         /\ \A V : Bounded(V) => Bounded(V)'
<1>1. hist[l] \in Seq(Message) /\ Last(l) \in Nat /\ hist \in [Loc -> Seq(Message)]
  BY Numbers DEF Memory
<1>2. /\ hist' \in [Loc -> Seq(Message)] /\ hist'[l] = Append(hist[l], m)
      /\ \A k \in Loc \ {l} : hist'[k] = hist[k]
  BY <1>1
<1>3. /\ Len(hist'[l]) = Last(l) + 1 /\ hist'[l][Last(l) + 1] = m /\ hist'[l] # <<>>
      /\ \A i \in 1..Last(l) : hist'[l][i] = hist[l][i]
  BY <1>1, <1>2 DEF Last
<1>4. Last(l)' = Last(l) + 1 /\ latest(l)' = m.val
  BY <1>3 DEF Last, latest, val
<1>5. \A k \in Loc : Last(k) \in Nat /\ Last(k)' \in Nat /\ Last(k) <= Last(k)'
  <2>1. \A k \in Loc : k # l => Last(k)' = Last(k)
    BY <1>2 DEF Last
  <2>. QED BY <1>1, <1>4, <2>1, Numbers
<1>6. \A V : Bounded(V) => Bounded(V)'
  BY <1>5 DEF Bounded
<1>. QED BY <1>2, <1>3, <1>4, <1>5, <1>6 DEF Memory

Writes(th, l, m, V, A) ==
  /\ hist' = [hist EXCEPT ![l] = Append(@, m)]
  /\ cur' = [cur EXCEPT ![th] = V] /\ acq' = [acq EXCEPT ![th] = A] /\ UNCHANGED <<rel, sc>>
  /\ Bounded(m.rview)' /\ Bounded(V)' /\ Bounded(A)' /\ \A x \in Loc : V[x] <= A[x]

LEMMA Wrote ==
  ASSUME ChaseLevAssumption, Memory, NEW th \in Thread, NEW l \in Loc, NEW m \in Message,
         NEW V, NEW A, Writes(th, l, m, V, A)
  PROVE  /\ Memory'
         /\ cur'[th] = V /\ \A u \in Thread \ {th} : cur'[u] = cur[u] /\ acq'[u] = acq[u]
<1>. /\ hist' = [hist EXCEPT ![l] = Append(@, m)]
     /\ cur' = [cur EXCEPT ![th] = V] /\ acq' = [acq EXCEPT ![th] = A] /\ rel' = rel /\ sc' = sc
     /\ Bounded(m.rview)' /\ Bounded(V)' /\ Bounded(A)' /\ \A x \in Loc : V[x] <= A[x]
  BY DEF Writes
<1>1. /\ hist' \in [Loc -> Seq(Message)] /\ \A k \in Loc : hist'[k] # <<>>
      /\ Last(l)' = Last(l) + 1 /\ hist'[l][Last(l) + 1] = m
      /\ \A i \in 1..Last(l) : hist'[l][i] = hist[l][i]
      /\ \A k \in Loc \ {l} : hist'[k] = hist[k]
      /\ \A U : Bounded(U) => Bounded(U)'
  BY Appended
<1>2. /\ cur' \in [Thread -> View] /\ cur'[th] = V /\ \A u \in Thread \ {th} : cur'[u] = cur[u]
      /\ acq' \in [Thread -> View] /\ acq'[th] = A /\ \A u \in Thread \ {th} : acq'[u] = acq[u]
  BY DEF Memory, Bounded
<1>3. ASSUME NEW k \in Loc, NEW i \in 1..Last(k)' PROVE Bounded(hist[k][i].rview)'
  <2>1. CASE k = l /\ i = Last(l) + 1
    BY <1>1, <2>1 DEF Bounded
  <2>2. CASE ~(k = l /\ i = Last(l) + 1)
    <3>1. i \in 1..Last(k) /\ hist'[k][i] = hist[k][i]
      BY <1>1, <2>2, Numbers DEF Last
    <3>2. PICK U : U = hist[k][i].rview /\ U = hist'[k][i].rview
      BY <3>1
    <3>3. Bounded(U)'
      BY <1>1, <3>1, <3>2 DEF Memory
    <3>. QED BY <3>2, <3>3 DEF Bounded
  <2>. QED BY <2>1, <2>2
<1>4. ASSUME NEW u \in Thread PROVE Bounded(cur[u])' /\ Bounded(acq[u])' /\ Bounded(rel[u])'
  <2>1. PICK C, D, R : C = cur[u] /\ D = acq[u] /\ R = rel[u]
    OBVIOUS
  <2>2. Bounded(C)' /\ Bounded(D)' /\ Bounded(R)'
    BY <1>1, <2>1 DEF Memory
  <2>3. CASE u = th
    BY <1>2, <2>1, <2>2, <2>3 DEF Bounded
  <2>4. CASE u # th
    BY <1>2, <2>1, <2>2, <2>4 DEF Bounded
  <2>. QED BY <2>3, <2>4
<1>5. Bounded(sc)'
  <2>1. PICK U : U = sc
    OBVIOUS
  <2>2. Bounded(U)'
    BY <1>1, <2>1 DEF Memory
  <2>. QED BY <2>1, <2>2 DEF Bounded
<1>6. \A u \in Thread : \A x \in Loc : cur'[u][x] <= acq'[u][x]
  BY <1>2 DEF Memory
<1>. QED BY <1>1, <1>2, <1>3, <1>4, <1>5, <1>6 DEF Memory

(* The owner stores v in bottom or a slot.                                 *)
LEMMA Stores ==
  ASSUME ChaseLevAssumption, Memory, NEW l \in Loc, NEW v \in Int, Store(O, l, v, "Relaxed")
  PROVE  /\ Memory' /\ UNCHANGED <<rel, sc, race>>
         /\ Last(l)' = Last(l) + 1 /\ latest(l)' = v
         /\ \A i \in 1..Last(l) : hist'[l][i] = hist[l][i]
         /\ \A k \in Loc \ {l} : hist'[k] = hist[k]
         /\ \A x \in Loc \ {l} : hist'[l][Last(l) + 1].rview[x] = rel[O][x]
         /\ cur'[O][l] = Last(l) + 1 /\ \A x \in Loc \ {l} : cur'[O][x] = cur[O][x]
         /\ \A u \in Thread \ {O} : cur'[u] = cur[u] /\ acq'[u] = acq[u]
<1>1. PICK i : i = Last(l) + 1
  OBVIOUS
<1>2. PICK V, A, R : V = seen(cur[O], l, i) /\ A = seen(acq[O], l, i) /\ R = seen(rel[O], l, i)
  OBVIOUS
<1>3. PICK m : m = [val |-> v, rview |-> R]
  OBVIOUS
<1>4. /\ hist' = [hist EXCEPT ![l] = Append(@, m)]
      /\ cur' = [cur EXCEPT ![O] = V] /\ acq' = [acq EXCEPT ![O] = A] /\ UNCHANGED <<rel, sc, race>>
  BY <1>1, <1>2, <1>3 DEF Store, released, Releases
<1>5. O \in Thread /\ i \in Nat \ {0} /\ Last(l) \in Nat
  BY <1>1, Locations, Numbers
<1>6. /\ Bounded(cur[O]) /\ Bounded(acq[O]) /\ Bounded(rel[O])
      /\ \A x \in Loc : cur[O][x] <= acq[O][x]
  BY <1>5 DEF Memory
<1>7. /\ V \in View /\ V[l] = i /\ \A x \in Loc \ {l} : V[x] = cur[O][x]
      /\ A \in View /\ A[l] = i /\ \A x \in Loc \ {l} : A[x] = acq[O][x]
      /\ R \in View /\ R[l] = i /\ \A x \in Loc \ {l} : R[x] = rel[O][x]
  <2>1. cur[O][l] < i /\ acq[O][l] < i /\ rel[O][l] < i
    BY <1>1, <1>5, <1>6, Numbers
  <2>. QED BY <1>2, <1>5, <1>6, <2>1, Seen DEF Bounded
<1>8. m \in Message /\ m.val = v /\ m.rview = R
  BY <1>3, <1>7 DEF Message
<1>9. /\ Last(l)' = i /\ latest(l)' = v /\ hist'[l][i] = m
      /\ \A k \in 1..Last(l) : hist'[l][k] = hist[l][k]
      /\ \A k \in Loc \ {l} : hist'[k] = hist[k]
  BY <1>1, <1>4, <1>8, Appended
<1>10. \A k \in Loc : k # l => Last(k)' = Last(k)
  BY <1>9 DEF Last
<1>11. Bounded(V)' /\ Bounded(A)' /\ Bounded(R)'
  BY <1>5, <1>6, <1>7, <1>9, <1>10 DEF Bounded
<1>12. \A x \in Loc : V[x] <= A[x]
  BY <1>5, <1>6, <1>7
<1>13. /\ Memory' /\ cur'[O] = V
       /\ \A u \in Thread \ {O} : cur'[u] = cur[u] /\ acq'[u] = acq[u]
  <2>1. Bounded(m.rview)'
    BY <1>8, <1>11 DEF Bounded
  <2>2. Writes(O, l, m, V, A)
    BY <1>4, <1>11, <1>12, <2>1 DEF Writes
  <2>. QED BY <1>5, <1>8, <2>2, Wrote
<1>14. /\ \A x \in Loc \ {l} : hist'[l][Last(l) + 1].rview[x] = rel[O][x]
       /\ cur'[O][l] = Last(l) + 1 /\ \A x \in Loc \ {l} : cur'[O][x] = cur[O][x]
  BY <1>1, <1>7, <1>8, <1>9, <1>13
<1>. QED BY <1>1, <1>4, <1>9, <1>13, <1>14

(* A SeqCst fence shares all that th knows with the fences before it.      *)
LEMMA Fences ==
  ASSUME ChaseLevAssumption, Memory, NEW th \in Thread, FenceSeqCst(th)
  PROVE  /\ Memory' /\ UNCHANGED <<hist, race>>
         /\ \A u \in Thread \ {th} : cur'[u] = cur[u] /\ acq'[u] = acq[u] /\ rel'[u] = rel[u]
         /\ cur'[th] = sc' /\ acq'[th] = sc' /\ rel'[th] = sc'
         /\ \A x \in Loc : /\ sc[x] <= sc'[x] /\ acq[th][x] <= sc'[x] /\ cur[th][x] <= sc'[x]
                           /\ sc'[x] \in Nat /\ sc'[x] <= Last(x)
<1>1. PICK V : V = join(acq[th], sc)
  OBVIOUS
<1>2. /\ sc' = V /\ cur' = [cur EXCEPT ![th] = V] /\ acq' = [acq EXCEPT ![th] = V]
      /\ rel' = [rel EXCEPT ![th] = V] /\ UNCHANGED <<hist, race>>
  BY <1>1 DEF FenceSeqCst
<1>3. Bounded(V) /\ \A x \in Loc : acq[th][x] <= V[x] /\ sc[x] <= V[x]
  BY <1>1, Joined DEF Memory
<1>4. \A x \in Loc : V[x] \in Nat /\ V[x] <= Last(x) /\ cur[th][x] <= V[x]
  <2>1. \A x \in Loc : V[x] \in Nat /\ V[x] <= Last(x) /\ acq[th][x] \in Nat /\ cur[th][x] \in Nat
    BY <1>3, Numbers
  <2>2. \A x \in Loc : cur[th][x] <= acq[th][x]
    BY DEF Memory
  <2>. QED BY <1>3, <2>1, <2>2
<1>5. /\ cur' \in [Thread -> View] /\ cur'[th] = V /\ \A u \in Thread \ {th} : cur'[u] = cur[u]
      /\ acq' \in [Thread -> View] /\ acq'[th] = V /\ \A u \in Thread \ {th} : acq'[u] = acq[u]
      /\ rel' \in [Thread -> View] /\ rel'[th] = V /\ \A u \in Thread \ {th} : rel'[u] = rel[u]
  BY <1>2, <1>3 DEF Memory, Bounded
<1>6. Memory'
  <2>1. \A u \in Thread : /\ Bounded(cur'[u]) /\ Bounded(acq'[u]) /\ Bounded(rel'[u])
                          /\ \A x \in Loc : cur'[u][x] <= acq'[u][x]
    BY <1>3, <1>4, <1>5 DEF Memory
  <2>. QED BY <1>2, <1>3, <1>5, <2>1 DEF Memory, Bounded, Last
<1>. QED BY <1>2, <1>3, <1>4, <1>5, <1>6

(* A successful CAS of top.                                                *)
LEMMA Updates ==
  ASSUME ChaseLevAssumption, Memory, NEW th \in Thread, NEW v \in Int, Update(th, top, v, "SeqCst")
  PROVE  /\ Memory' /\ UNCHANGED <<rel, sc, race>>
         /\ Last(top)' = Last(top) + 1 /\ latest(top)' = v
         /\ \A i \in 1..Last(top) : hist'[top][i] = hist[top][i]
         /\ \A k \in Loc \ {top} : hist'[k] = hist[k]
         /\ cur'[th][top] = Last(top) + 1 /\ \A x \in Loc : cur[th][x] <= cur'[th][x]
         /\ \A u \in Thread \ {th} : cur'[u] = cur[u] /\ acq'[u] = acq[u]
<1>1. PICK L : L = Last(top)
  OBVIOUS
<1>2. PICK C, D, U : /\ C = loadView(cur[th], top, L, "SeqCst") /\ D = loadView(acq[th], top, L, "Acquire")
                     /\ U = hist[top][L].rview
  OBVIOUS
<1>3. PICK t : t = Last(top) + 1
  OBVIOUS
<1>4. PICK V, A, R : V = seen(C, top, t) /\ A = seen(D, top, t) /\ R = join(U, seen(V, top, t))
  OBVIOUS
<1>5. PICK m : m = [val |-> v, rview |-> R]
  OBVIOUS
<1>6. top \in Loc /\ L \in Nat \ {0} /\ L \in 1..Last(top)
  BY <1>1, Locations, Numbers
<1>7. t \in Nat /\ t = L + 1 /\ t - 1 = L
  BY <1>3, <1>1, <1>6
<1>8. /\ hist' = [hist EXCEPT ![top] = Append(@, m)]
      /\ cur' = [cur EXCEPT ![th] = V] /\ acq' = [acq EXCEPT ![th] = A] /\ UNCHANGED <<rel, sc, race>>
  <2>1. released(th, V, "SeqCst") = V
    BY DEF released, Releases
  <2>2. cur' = [cur EXCEPT ![th] = V] /\ acq' = [acq EXCEPT ![th] = A]
    BY <1>3, <1>2, <1>4, <1>7 DEF Update
  <2>3. hist' = [hist EXCEPT ![top] = Append(hist[top], m)]
    BY <1>3, <1>2, <1>4, <1>5, <1>7, <2>1 DEF Update
  <2>. QED BY <2>2, <2>3 DEF Update
<1>9. /\ Bounded(C) /\ Bounded(D) /\ Bounded(U)
      /\ \A x \in Loc : cur[th][x] <= C[x] /\ acq[th][x] <= D[x]
  BY <1>1, <1>2, <1>6, LoadView DEF Memory
<1>10. \A x \in Loc : C[x] <= D[x]
  <2>1. C = join(seen(cur[th], top, L), U) /\ D = join(seen(acq[th], top, L), U)
    BY <1>2 DEF loadView, Acquires
  <2>2. PICK P, Q : P = seen(cur[th], top, L) /\ Q = seen(acq[th], top, L)
    OBVIOUS
  <2>3. cur[th] \in View /\ acq[th] \in View /\ U \in View
    BY <1>9 DEF Memory, Bounded
  <2>4. /\ P[top] = (IF cur[th][top] < L THEN L ELSE cur[th][top]) /\ \A x \in Loc \ {top} : P[x] = cur[th][x]
        /\ Q[top] = (IF acq[th][top] < L THEN L ELSE acq[th][top]) /\ \A x \in Loc \ {top} : Q[x] = acq[th][x]
    BY <1>6, <2>2, <2>3, Seen
  <2>5. \A x \in Loc : /\ cur[th][x] \in Nat /\ acq[th][x] \in Nat /\ U[x] \in Nat
                       /\ cur[th][x] <= acq[th][x]
    BY <1>9, Numbers DEF Memory
  <2>6. \A x \in Loc : P[x] \in Nat /\ Q[x] \in Nat /\ P[x] <= Q[x]
    BY <1>6, <2>4, <2>5
  <2>7. C = join(P, U) /\ D = join(Q, U)
    BY <2>1, <2>2
  <2>. QED BY <2>5, <2>6, <2>7, Locations DEF join
<1>11. /\ V \in View /\ V[top] = L + 1 /\ \A x \in Loc \ {top} : V[x] = C[x]
       /\ A \in View /\ A[top] = L + 1 /\ \A x \in Loc \ {top} : A[x] = D[x]
  <2>1. C \in View /\ D \in View /\ C[top] < L + 1 /\ D[top] < L + 1
    BY <1>1, <1>6, <1>9, Numbers DEF Bounded
  <2>. QED BY <1>4, <1>6, <1>7, <2>1, Seen
<1>12. /\ R \in View /\ R[top] = L + 1 /\ \A x \in Loc \ {top} : R[x] = U[x] \/ R[x] = C[x]
  <2>1. PICK W : W = seen(V, top, t)
    OBVIOUS
  <2>2. W \in View /\ W[top] = L + 1 /\ \A x \in Loc \ {top} : W[x] = V[x]
    BY <1>6, <1>11, <1>7, <2>1, Seen
  <2>3. U \in View /\ U[top] < L + 1
    BY <1>1, <1>6, <1>9, Numbers DEF Bounded
  <2>4. R = join(U, W)
    BY <1>4, <2>1
  <2>5. R \in View
    BY <2>2, <2>3, <2>4 DEF join, View
  <2>6. \A x \in Loc : R[x] = IF U[x] < W[x] THEN W[x] ELSE U[x]
    BY <2>4, Locations DEF join
  <2>. QED BY <1>6, <1>11, <2>2, <2>3, <2>5, <2>6
<1>13. m \in Message /\ m.val = v /\ m.rview = R
  BY <1>5, <1>12 DEF Message
<1>14. /\ Last(top)' = L + 1 /\ latest(top)' = v
       /\ \A k \in 1..Last(top) : hist'[top][k] = hist[top][k]
       /\ \A k \in Loc \ {top} : hist'[k] = hist[k]
  BY <1>1, <1>6, <1>8, <1>13, Appended
<1>15. \A k \in Loc : k # top => Last(k)' = Last(k)
  BY <1>14 DEF Last
<1>16. Bounded(V)' /\ Bounded(A)' /\ Bounded(R)'
  BY <1>6, <1>9, <1>11, <1>12, <1>14, <1>15 DEF Bounded
<1>17. \A x \in Loc : V[x] <= A[x] /\ cur[th][x] <= V[x]
  <2>1. cur[th][top] <= L + 1
    BY <1>1, <1>6, Numbers
  <2>. QED BY <1>6, <1>9, <1>10, <1>11, <2>1
<1>18. /\ Memory' /\ cur'[th] = V
       /\ \A u \in Thread \ {th} : cur'[u] = cur[u] /\ acq'[u] = acq[u]
  <2>1. Bounded(m.rview)'
    BY <1>13, <1>16 DEF Bounded
  <2>2. Writes(th, top, m, V, A)
    BY <1>8, <1>16, <1>17, <2>1 DEF Writes
  <2>. QED BY <1>6, <1>13, <2>2, Wrote
<1>19. cur'[th][top] = Last(top) + 1 /\ \A x \in Loc : cur[th][x] <= cur'[th][x]
  BY <1>1, <1>11, <1>17, <1>18
<1>. QED BY <1>1, <1>8, <1>14, <1>18, <1>19

-----------------------------------------------------------------------------
(* What a step leaves alone.                                               *)
LEMMA Ends == ASSUME ChaseLevAssumption, Memory PROVE End \in B..(B + 1) /\ Open \in B..End /\ End \in Int /\ Open \in Int
<1>1. B \in Int
  BY Numbers
<1>2. End \in B..(B + 1)
  BY <1>1 DEF End
<1>. QED BY <1>1, <1>2 DEF Open

LEMMA SameMemory ==
  ASSUME hist' = hist
  PROVE  /\ T' = T /\ B' = B
         /\ \A l : Last(l)' = Last(l) /\ latest(l)' = latest(l) /\ \A i : val(l, i)' = val(l, i)
BY DEF T, B, Last, latest, val

LEMMA ShownLater ==
  ASSUME ChaseLevAssumption, Memory, Memory', NEW m \in Nat, NEW n \in Nat, m <= n, NEW i \in Nat, Shown(m, i),
         hist'[bottom] = hist[bottom], hist'[slot(i)] = hist[slot(i)],
         i < Open => i < Open'
  PROVE  Shown(n, i)'
<1>1. Last(bottom)' = Last(bottom) /\ Last(slot(i))' = Last(slot(i)) /\ Last(bottom) \in Nat
  BY Numbers, Locations DEF Last
<1>2. SUFFICES ASSUME NEW j \in n..Last(bottom), val(bottom, j) > i
               PROVE  i < Open' /\ hist[bottom][j].rview[slot(i)] = Last(slot(i))
  BY <1>1 DEF Shown, val
<1>3. j \in m..Last(bottom)
  BY <1>1
<1>. QED BY <1>2, <1>3 DEF Shown

ThiefMoves(th) ==
  /\ hist' = hist /\ out' = out /\ race' = race
  /\ \A u \in Thread \ {th} : /\ cur'[u] = cur[u] /\ acq'[u] = acq[u] /\ rel'[u] = rel[u]
                              /\ pc'[u] = pc[u] /\ reg'[u] = reg[u]
  /\ \A x \in Loc : sc[x] <= sc'[x]

LEMMA ThiefStays ==
  ASSUME ChaseLevAssumption, Inv, NEW th \in Thief, Memory', Control', ThiefMoves(th), Aims(th)'
  PROVE  Inv'
<1>1. /\ hist' = hist /\ out' = out /\ race' = race /\ O \in Thread \ {th}
      /\ \A u \in Thread \ {th} : /\ cur'[u] = cur[u] /\ acq'[u] = acq[u] /\ rel'[u] = rel[u]
                                  /\ pc'[u] = pc[u] /\ reg'[u] = reg[u]
      /\ \A x \in Loc : sc[x] <= sc'[x]
  BY Locations DEF ThiefMoves
<1>2. /\ cur'[O] = cur[O] /\ rel'[O] = rel[O] /\ pc'[O] = pc[O] /\ reg'[O] = reg[O]
  BY <1>1
<1>3. /\ T' = T /\ B' = B
      /\ \A l : Last(l)' = Last(l) /\ latest(l)' = latest(l) /\ \A i : val(l, i)' = val(l, i)
  BY <1>1, SameMemory
<1>4. End' = End /\ Open' = Open
  BY <1>2, <1>3 DEF End, Open, Taking, Decided
<1>5. Memory /\ top \in Loc /\ bottom \in Loc
  BY Locations DEF Inv
<1>6. /\ sc[top] \in Nat /\ sc'[top] \in Nat /\ sc[bottom] \in Nat /\ sc'[bottom] \in Nat
      /\ T \in Nat /\ Last(bottom) \in Nat /\ sc'[bottom] <= Last(bottom) /\ cur[O][top] \in Nat
  <2>1. Bounded(sc)'
    BY DEF Memory
  <2>2. sc' \in View /\ sc'[bottom] \in 1..Last(bottom)
    BY <1>3, <1>5, <2>1 DEF Bounded
  <2>. QED BY <1>1, <1>5, <2>2, Numbers, Locations DEF View
<1>7. Tops'
  BY <1>1, <1>2, <1>3, <1>5, <1>6 DEF Inv, Tops
<1>8. OwnerKnows'
  BY <1>2, <1>3 DEF Inv, OwnerKnows
<1>9. OwnerLocals'
  <2>1. sc[bottom] = Last(bottom) => sc'[bottom] = Last(bottom)
    BY <1>1, <1>5, <1>6
  <2>. QED BY <1>1, <1>2, <1>3, <2>1 DEF Inv, OwnerLocals, Taking
<1>10. Window' /\ NoRace' /\ ClaimedOnce'
  BY <1>1, <1>3, <1>4 DEF Inv, Window, NoRace, ClaimedOnce
<1>11. Items'
  BY <1>1, <1>3, <1>4 DEF Inv, Items, Claimed
<1>12. Posted'
  <2>1. SUFFICES ASSUME NEW i \in Nat, T <= i PROVE Shown(sc[bottom], i)'
    BY <1>3 DEF Posted
  <2>2. PICK n \in Nat : n = sc'[bottom]
    BY <1>6
  <2>3. Shown(sc[bottom], i)
    BY <2>1 DEF Inv, Posted
  <2>4. Shown(n, i)'
    BY <1>1, <1>4, <1>5, <1>6, <2>2, <2>3, ShownLater
  <2>. QED BY <2>2, <2>4 DEF Shown
<1>13. ThievesAim'
  <2>1. SUFFICES ASSUME NEW u \in Thief, u # th PROVE Aims(u)'
    BY DEF ThievesAim
  <2>2. /\ cur'[u] = cur[u] /\ acq'[u] = acq[u] /\ pc'[u] = pc[u] /\ reg'[u] = reg[u]
        /\ Aims(u) /\ u \in Thread
    BY <1>1, <2>1, Locations DEF Inv, ThievesAim
  <2>3. Fresh(u) => Fresh(u)'
    BY <1>1, <1>2, <1>3, <1>4, <2>2 DEF Fresh, Shown
  <2>4. Past(u)' <=> Past(u)
    BY <2>2 DEF Past
  <2>5. Past(u) => reg[u].t < sc'[top]
    <3>1. Past(u) => reg[u].t \in Nat /\ reg[u].t < sc[top]
      BY <1>6, <2>2 DEF Aims, Past
    <3>. QED BY <1>1, <1>5, <1>6, <3>1
  <2>. QED BY <1>3, <2>2, <2>3, <2>4, <2>5 DEF Aims
<1>. QED BY <1>7, <1>8, <1>9, <1>10, <1>11, <1>12, <1>13 DEF Inv

(* A thread goes on to l, and may set a local variable.                    *)
Label(th) == IF th = O THEN OwnerLabel ELSE ThiefLabel

LEMMA Steps ==
  ASSUME ChaseLevAssumption, Control, NEW th \in Thread, NEW l \in Label(th), Goto(th, l), reg' = reg,
         out' \in [pushed : Nat, got : Seq(Int)]
  PROVE  Control' /\ pc'[th] = l /\ \A u \in Thread \ {th} : pc'[u] = pc[u] /\ reg'[u] = reg[u]
<1>1. l \in OwnerLabel \cup ThiefLabel
  BY DEF Label
<1>2. pc' = [pc EXCEPT ![th] = l]
  BY DEF Goto
<1>. QED BY <1>1, <1>2, Locations DEF Control, Label

LEMMA Assigns ==
  ASSUME ChaseLevAssumption, Control, NEW th \in Thread, NEW l \in Label(th), Goto(th, l),
         NEW x \in Local, NEW v \in Int, Set(th, x, v),
         out' \in [pushed : Nat, got : Seq(Int)]
  PROVE  /\ Control' /\ pc'[th] = l /\ \A u \in Thread \ {th} : pc'[u] = pc[u] /\ reg'[u] = reg[u]
         /\ reg'[th][x] = v /\ \A y \in Local \ {x} : reg'[th][y] = reg[th][y]
<1>1. l \in OwnerLabel \cup ThiefLabel
  BY DEF Label
<1>2. pc' = [pc EXCEPT ![th] = l] /\ reg' = [reg EXCEPT ![th] = [reg[th] EXCEPT ![x] = v]]
  BY DEF Goto, Set
<1>3. /\ reg' \in [Thread -> [Local -> Int]] /\ reg'[th] = [reg[th] EXCEPT ![x] = v]
      /\ \A u \in Thread \ {th} : reg'[u] = reg[u]
  BY <1>2 DEF Control
<1>4. reg'[th][x] = v /\ \A y \in Local \ {x} : reg'[th][y] = reg[th][y]
  BY <1>3 DEF Control
<1>. QED BY <1>1, <1>2, <1>3, <1>4, Locations DEF Control, Label

-----------------------------------------------------------------------------
(* The steps of a thief.                                                   *)
LEMMA StealTopStep == ASSUME ChaseLevAssumption, Inv, NEW th \in Thief, StealTop(th) PROVE Inv'
<1>1. PICK i \in canLoad(th, top) : Load(th, top, i, "Acquire") /\ Set(th, "t", val(top, i))
  BY DEF StealTop, LoadInto
<1>2. /\ th \in Thread /\ th # O /\ top \in Loc /\ Memory /\ Control
  BY Locations DEF Inv
<1>3. /\ Memory' /\ UNCHANGED <<hist, rel, sc, race>>
      /\ i \in 1..Last(top) /\ i <= acq'[th][top]
      /\ \A u \in Thread \ {th} : cur'[u] = cur[u] /\ acq'[u] = acq[u]
  BY <1>1, <1>2, Loads
<1>4. val(top, i) = i - 1 /\ i \in Nat \ {0} /\ i - 1 \in 0..T /\ T' = T /\ acq'[th][top] \in Nat
  <2>1. Last(top) \in Nat /\ T = Last(top) - 1
    BY <1>2, Numbers DEF T
  <2>2. T' = T
    BY <1>3, SameMemory
  <2>3. acq'[th][top] \in Nat
    BY <1>2, <1>3, Locations DEF Memory, View
  <2>. QED BY <1>3, <2>1, <2>2, <2>3 DEF Inv, Tops
<1>5. Goto(th, "steal_fence") /\ out' = out /\ "steal_fence" \in Label(th) /\ "t" \in Local
  BY <1>2 DEF StealTop, Label, ThiefLabel, Local
<1>6. /\ Control' /\ pc'[th] = "steal_fence" /\ reg'[th].t = i - 1
      /\ \A u \in Thread \ {th} : pc'[u] = pc[u] /\ reg'[u] = reg[u]
  BY <1>1, <1>2, <1>4, <1>5, Assigns DEF Control
<1>7. Aims(th)'
  BY <1>3, <1>4, <1>6 DEF Aims, Past
<1>8. ThiefMoves(th)
  <2>1. \A x \in Loc : sc[x] \in Nat
    BY <1>2, Numbers
  <2>. QED BY <1>3, <1>5, <1>6, <2>1 DEF ThiefMoves
<1>. QED BY <1>3, <1>6, <1>7, <1>8, ThiefStays

LEMMA StealFenceStep == ASSUME ChaseLevAssumption, Inv, NEW th \in Thief, StealFence(th) PROVE Inv'
<1>1. /\ th \in Thread /\ th # O /\ top \in Loc /\ bottom \in Loc /\ Memory /\ Control
      /\ pc[th] = "steal_fence" /\ Aims(th)
  BY Locations DEF Inv, ThievesAim, StealFence, From
<1>2. /\ Memory' /\ UNCHANGED <<hist, race>>
      /\ \A u \in Thread \ {th} : cur'[u] = cur[u] /\ acq'[u] = acq[u] /\ rel'[u] = rel[u]
      /\ cur'[th] = sc' /\ acq'[th] = sc' /\ rel'[th] = sc'
      /\ \A x \in Loc : /\ sc[x] <= sc'[x] /\ acq[th][x] <= sc'[x] /\ cur[th][x] <= sc'[x]
                        /\ sc'[x] \in Nat /\ sc'[x] <= Last(x)
  BY <1>1, Fences DEF StealFence
<1>3. Goto(th, "steal_bottom") /\ out' = out /\ reg' = reg /\ "steal_bottom" \in Label(th)
  BY <1>1 DEF StealFence, Label, ThiefLabel
<1>4. /\ Control' /\ pc'[th] = "steal_bottom"
      /\ \A u \in Thread \ {th} : pc'[u] = pc[u] /\ reg'[u] = reg[u]
  BY <1>1, <1>3, Steps DEF Control
<1>5. /\ T' = T /\ B' = B /\ Last(bottom)' = Last(bottom) /\ Last(top)' = Last(top)
  BY <1>2, SameMemory
<1>6. End' = End /\ Open' = Open /\ pc'[O] = pc[O] /\ cur'[O] = cur[O]
  BY <1>1, <1>2, <1>4, <1>5, Locations DEF End, Open, Taking, Decided
<1>7. reg[th].t \in 0..T /\ reg[th].t < acq[th][top] /\ reg[th].t < sc'[top] /\ T \in Nat
  <2>1. reg[th].t \in 0..T /\ reg[th].t < acq[th][top] /\ T \in Nat /\ acq[th][top] \in Nat
    BY <1>1, Numbers DEF Aims
  <2>. QED BY <1>1, <1>2, <2>1
<1>8. Shown(cur[th][bottom], T)'
  <2>1. PICK n \in Nat, i \in Nat : n = sc'[bottom] /\ i = T
    BY <1>1, <1>2, <1>7
  <2>2. Shown(sc[bottom], i) /\ sc[bottom] \in Nat
    BY <1>1, <2>1, Numbers DEF Inv, Posted
  <2>3. Shown(n, i)'
    BY <1>1, <1>2, <1>6, <2>1, <2>2, ShownLater
  <2>. QED BY <1>2, <1>5, <2>1, <2>3 DEF Shown
<1>9. pc[O] = "take_top" => cur'[th][bottom] = Last(bottom)
  <2>1. pc[O] = "take_top" => sc[bottom] = Last(bottom)
    BY DEF Inv, OwnerLocals
  <2>2. Last(bottom) \in Nat
    BY <1>1, Numbers
  <2>. QED BY <1>1, <1>2, <2>1, <2>2
<1>10. Fresh(th)'
  BY <1>4, <1>5, <1>6, <1>8, <1>9 DEF Fresh
<1>11. Aims(th)'
  BY <1>2, <1>3, <1>4, <1>5, <1>7, <1>10 DEF Aims, Past
<1>12. ThiefMoves(th)
  BY <1>2, <1>3, <1>4 DEF ThiefMoves
<1>. QED BY <1>2, <1>4, <1>11, <1>12, ThiefStays

LEMMA StealBottomStep == ASSUME ChaseLevAssumption, Inv, NEW th \in Thief, StealBottom(th) PROVE Inv'
<1>1. PICK i \in canLoad(th, bottom) : Load(th, bottom, i, "Acquire") /\ Set(th, "b", val(bottom, i))
  BY DEF StealBottom, LoadInto
<1>2. /\ th \in Thread /\ th # O /\ top \in Loc /\ bottom \in Loc /\ Memory /\ Control
      /\ pc[th] = "steal_bottom" /\ Aims(th)
  BY Locations DEF Inv, ThievesAim, StealBottom, From
<1>3. /\ Memory' /\ UNCHANGED <<hist, rel, sc, race>>
      /\ i \in 1..Last(bottom) /\ cur[th][bottom] <= i
      /\ \A u \in Thread \ {th} : cur'[u] = cur[u] /\ acq'[u] = acq[u]
      /\ \A x \in Loc : /\ cur[th][x] <= cur'[th][x] /\ acq[th][x] <= acq'[th][x]
                        /\ hist[bottom][i].rview[x] <= cur'[th][x]
      /\ i <= cur'[th][bottom]
  BY <1>1, <1>2, Loads
<1>4. /\ T' = T /\ B' = B /\ \A l : Last(l)' = Last(l) /\ latest(l)' = latest(l)
  BY <1>3, SameMemory
<1>5. PICK b \in Int : b = val(bottom, i)
  BY <1>2, <1>3, Numbers
<1>6. PICK l \in ThiefLabel : Goto(th, l) /\ l = IF reg[th].t >= reg'[th].b THEN "idle" ELSE "steal_slot"
  BY DEF StealBottom, ThiefLabel
<1>7. out' = out /\ l \in Label(th) /\ "b" \in Local
  BY <1>2 DEF StealBottom, Label, Local
<1>8. /\ Control' /\ pc'[th] = l /\ reg'[th].b = b /\ reg'[th].t = reg[th].t
      /\ \A u \in Thread \ {th} : pc'[u] = pc[u] /\ reg'[u] = reg[u]
  <2>1. /\ Control' /\ pc'[th] = l /\ reg'[th]["b"] = b /\ \A y \in Local \ {"b"} : reg'[th][y] = reg[th][y]
        /\ \A u \in Thread \ {th} : pc'[u] = pc[u] /\ reg'[u] = reg[u]
    BY <1>1, <1>2, <1>5, <1>6, <1>7, Assigns DEF Control
  <2>. QED BY <2>1 DEF Local
<1>9. End' = End /\ Open' = Open /\ pc'[O] = pc[O] /\ cur'[O] = cur[O]
  BY <1>2, <1>3, <1>4, <1>8, Locations DEF End, Open, Taking, Decided
<1>10. /\ reg[th].t \in 0..T /\ reg[th].t < acq'[th][top] /\ reg[th].t < sc'[top] /\ T \in Nat
  <2>1. reg[th].t \in 0..T /\ reg[th].t < acq[th][top] /\ T \in Nat /\ acq[th][top] \in Nat
    BY <1>2, Numbers DEF Aims
  <2>2. acq'[th][top] \in Nat
    BY <1>2, <1>3, Locations DEF Memory, View
  <2>. QED BY <1>2, <1>3, <2>1, <2>2 DEF Aims, Past
<1>11. ASSUME l = "steal_slot", reg[th].t = T PROVE Fresh(th)'
  <2>1. Fresh(th) /\ val(bottom, i) > T
    <3>1. Fresh(th)
      BY <1>2, <1>11 DEF Aims, Past
    <3>2. ~(reg[th].t >= reg'[th].b) /\ reg'[th].b = b
      BY <1>6, <1>8, <1>11
    <3>3. b > T
      BY <1>5, <1>10, <1>11, <3>2
    <3>. QED BY <1>5, <3>1, <3>3
  <2>2. cur[th][bottom] \in Nat /\ cur'[th][bottom] \in Nat /\ Last(bottom) \in Nat /\ slot(T) \in Loc
    <3>1. cur[th][bottom] \in Nat /\ Last(bottom) \in Nat
      BY <1>2, Numbers
    <3>2. cur'[th][bottom] \in Nat
      BY <1>2, <1>3, Locations DEF Memory, View
    <3>3. slot(T) \in Loc
      BY <1>10, Locations
    <3>. QED BY <3>1, <3>2, <3>3
  <2>3. T < Open /\ hist[bottom][i].rview[slot(T)] = Last(slot(T))
    BY <1>3, <2>1, <2>2 DEF Fresh, Shown
  <2>4. cur'[th][slot(T)] = Last(slot(T))
    <3>1. cur'[th] \in View /\ cur'[th][slot(T)] <= Last(slot(T)) /\ Last(slot(T)) \in Nat
      BY <1>2, <1>3, <1>4, <2>2, Numbers DEF Memory, Bounded
    <3>2. Last(slot(T)) <= cur'[th][slot(T)] /\ cur'[th][slot(T)] \in Nat
      BY <1>3, <2>2, <2>3, <3>1, Locations DEF View
    <3>. QED BY <3>1, <3>2
  <2>5. Shown(cur[th][bottom], T)'
    <3>1. PICK m \in Nat, n \in Nat, k \in Nat : m = cur[th][bottom] /\ n = cur'[th][bottom] /\ k = T
      BY <1>10, <2>2
    <3>2. Shown(n, k)'
      BY <1>2, <1>3, <1>9, <2>1, <3>1, ShownLater DEF Fresh
    <3>. QED BY <1>4, <3>1, <3>2 DEF Shown
  <2>6. pc[O] = "take_top" /\ T = B => cur[O][top] = Last(top)
    <3>1. ASSUME cur[th][bottom] = Last(bottom), T = B PROVE FALSE
      <4>1. i = Last(bottom)
        BY <1>3, <2>2, <3>1
      <4>. QED BY <1>10, <2>1, <3>1, <4>1 DEF B, latest
    <3>. QED BY <2>1, <3>1 DEF Fresh
  <2>. QED BY <1>4, <1>8, <1>9, <1>11, <2>3, <2>4, <2>5, <2>6 DEF Fresh
<1>12. Aims(th)'
  BY <1>4, <1>6, <1>8, <1>10, <1>11 DEF Aims, Past
<1>13. ThiefMoves(th)
  <2>1. \A x \in Loc : sc[x] \in Nat
    BY <1>2, Numbers
  <2>. QED BY <1>3, <1>7, <1>8, <2>1 DEF ThiefMoves
<1>. QED BY <1>3, <1>8, <1>12, <1>13, ThiefStays

LEMMA StealSlotStep == ASSUME ChaseLevAssumption, Inv, NEW th \in Thief, StealSlot(th) PROVE Inv'
<1>1. PICK l : l = slot(reg[th].t)
  OBVIOUS
<1>2. PICK i \in canLoad(th, l) : Load(th, l, i, "Relaxed") /\ Set(th, "v", val(l, i))
  BY <1>1 DEF StealSlot, LoadInto
<1>3. /\ th \in Thread /\ th # O /\ top \in Loc /\ bottom \in Loc /\ Memory /\ Control
      /\ pc[th] = "steal_slot" /\ Aims(th) /\ reg[th].t \in 0..T /\ T \in Nat
  BY Locations, Numbers DEF Inv, ThievesAim, StealSlot, From, Aims
<1>4. l \in Loc
  BY <1>1, <1>3, Locations
<1>5. /\ Memory' /\ UNCHANGED <<hist, rel, sc, race>>
      /\ i \in 1..Last(l) /\ cur[th][l] <= i
      /\ \A u \in Thread \ {th} : cur'[u] = cur[u] /\ acq'[u] = acq[u]
      /\ \A x \in Loc : cur[th][x] <= cur'[th][x] /\ acq[th][x] <= acq'[th][x]
  BY <1>2, <1>3, <1>4, Loads
<1>6. /\ T' = T /\ B' = B /\ \A k : Last(k)' = Last(k) /\ latest(k)' = latest(k)
  BY <1>5, SameMemory
<1>7. PICK v \in Int : v = val(l, i)
  BY <1>3, <1>4, <1>5, Numbers
<1>8. Goto(th, "steal_cas") /\ out' = out /\ "steal_cas" \in Label(th) /\ "v" \in Local
  BY <1>3 DEF StealSlot, Label, ThiefLabel, Local
<1>9. /\ Control' /\ pc'[th] = "steal_cas" /\ reg'[th].v = v /\ reg'[th].t = reg[th].t
      /\ \A u \in Thread \ {th} : pc'[u] = pc[u] /\ reg'[u] = reg[u]
  <2>1. /\ Control' /\ pc'[th] = "steal_cas" /\ reg'[th]["v"] = v
        /\ \A y \in Local \ {"v"} : reg'[th][y] = reg[th][y]
        /\ \A u \in Thread \ {th} : pc'[u] = pc[u] /\ reg'[u] = reg[u]
    BY <1>2, <1>3, <1>7, <1>8, Assigns DEF Control
  <2>. QED BY <2>1 DEF Local
<1>10. End' = End /\ Open' = Open /\ pc'[O] = pc[O] /\ cur'[O] = cur[O]
  BY <1>3, <1>5, <1>6, <1>9, Locations DEF End, Open, Taking, Decided
<1>11. reg[th].t < acq'[th][top] /\ reg[th].t < sc'[top]
  <2>1. reg[th].t < acq[th][top] /\ acq[th][top] \in Nat /\ acq'[th][top] \in Nat
    BY <1>3, <1>5, Numbers, Locations DEF Aims, Memory, View
  <2>. QED BY <1>3, <1>5, <2>1 DEF Aims, Past
<1>12. ASSUME reg[th].t = T PROVE Fresh(th)'
  <2>1. Fresh(th) /\ T < Open /\ cur[th][l] = Last(l) /\ l = slot(T)
    BY <1>1, <1>3, <1>12 DEF Aims, Past, Fresh
  <2>2. v = latest(slot(T))
    <3>1. Last(l) \in Nat
      BY <1>3, <1>4, Numbers
    <3>2. i = Last(l)
      BY <1>5, <2>1, <3>1
    <3>. QED BY <1>7, <2>1, <3>2 DEF latest
  <2>3. Shown(cur[th][bottom], T)'
    <3>1. PICK m \in Nat, n \in Nat, k \in Nat : m = cur[th][bottom] /\ n = cur'[th][bottom] /\ k = T
      BY <1>3, <1>5, Numbers, Locations DEF Memory, View
    <3>2. Shown(n, k)'
      BY <1>3, <1>5, <1>10, <2>1, <3>1, ShownLater DEF Fresh
    <3>. QED BY <1>6, <3>1, <3>2 DEF Shown
  <2>. QED BY <1>3, <1>6, <1>9, <1>10, <1>12, <2>1, <2>2, <2>3 DEF Fresh
<1>13. Aims(th)'
  BY <1>3, <1>6, <1>9, <1>11, <1>12 DEF Aims, Past
<1>14. ThiefMoves(th)
  <2>1. \A x \in Loc : sc[x] \in Nat
    BY <1>3, Numbers
  <2>. QED BY <1>5, <1>8, <1>9, <2>1 DEF ThiefMoves
<1>. QED BY <1>5, <1>9, <1>13, <1>14, ThiefStays

LEMMA StealFailsStep ==
  ASSUME ChaseLevAssumption, Inv, NEW th \in Thief, CasFails(th, top, reg[th].t, "Relaxed"),
         Goto(th, "idle"), reg' = reg, out' = out
  PROVE  Inv'
<1>1. PICK i \in canLoad(th, top) : Load(th, top, i, "Relaxed")
  BY DEF CasFails
<1>2. /\ th \in Thread /\ th # O /\ top \in Loc /\ Memory /\ Control /\ "idle" \in Label(th)
  BY Locations DEF Inv, Label, ThiefLabel
<1>3. /\ Memory' /\ UNCHANGED <<hist, rel, sc, race>>
      /\ \A u \in Thread \ {th} : cur'[u] = cur[u] /\ acq'[u] = acq[u]
  BY <1>1, <1>2, Loads
<1>4. /\ Control' /\ pc'[th] = "idle" /\ \A u \in Thread \ {th} : pc'[u] = pc[u] /\ reg'[u] = reg[u]
  BY <1>2, Steps DEF Control
<1>5. Aims(th)'
  BY <1>4 DEF Aims, Past
<1>6. ThiefMoves(th)
  <2>1. \A x \in Loc : sc[x] \in Nat
    BY <1>2, Numbers
  <2>. QED BY <1>3, <1>4, <2>1 DEF ThiefMoves
<1>. QED BY <1>3, <1>4, <1>5, <1>6, ThiefStays

-----------------------------------------------------------------------------
(* A value is claimed.                                                     *)
LEMMA Claims ==
  ASSUME Control, ClaimedOnce, NEW w \in 1..out.pushed, ~Claimed(w),
         out' = [out EXCEPT !.got = Append(@, w)]
  PROVE  /\ out' \in [pushed : Nat, got : Seq(Int)] /\ out'.pushed = out.pushed
         /\ \A v : Claimed(v)' <=> Claimed(v) \/ v = w
         /\ ClaimedOnce'
<1>1. out.got \in Seq(Int) /\ out.pushed \in Nat /\ w \in Int
  BY DEF Control
<1>2. /\ out'.got = Append(out.got, w) /\ out'.pushed = out.pushed
      /\ out' \in [pushed : Nat, got : Seq(Int)]
  <2>1. out \in [pushed : Nat, got : Seq(Int)]
    BY DEF Control
  <2>2. out' = [out EXCEPT !.got = Append(out.got, w)] /\ Append(out.got, w) \in Seq(Int)
    BY <1>1
  <2>. QED BY <2>1, <2>2
<1>3. PICK g \in Seq(Int) : g = out.got
  BY <1>1
<1>4. PICK n \in Nat : n = Len(g)
  OBVIOUS
<1>5. /\ Len(out'.got) = n + 1 /\ out'.got[n + 1] = w /\ \A k \in 1..n : out'.got[k] = g[k]
      /\ DOMAIN out'.got = 1..(n + 1) /\ DOMAIN g = 1..n
  BY <1>1, <1>2, <1>3, <1>4
<1>6. \A k \in 1..(n + 1) : k \in 1..n \/ k = n + 1
  BY <1>4
<1>7. \A v : Claimed(v)' <=> Claimed(v) \/ v = w
  BY <1>3, <1>4, <1>5, <1>6 DEF Claimed
<1>8. ClaimedOnce'
  <2>1. \A k \in 1..n : g[k] # w /\ g[k] \in 1..out.pushed
    BY <1>3, <1>4, <1>5 DEF ClaimedOnce, Claimed
  <2>2. \A k, m \in 1..n : g[k] = g[m] => k = m
    BY <1>3, <1>5 DEF ClaimedOnce
  <2>3. PICK h : h = out'.got
    OBVIOUS
  <2>4. h[n + 1] = w /\ DOMAIN h = 1..(n + 1) /\ \A k \in 1..n : h[k] = g[k]
    BY <1>5, <2>3
  <2>5. \A k, m \in 1..(n + 1) : h[k] = h[m] => k = m
    BY <1>6, <2>1, <2>2, <2>4
  <2>6. \A k \in 1..(n + 1) : h[k] \in 1..out'.pushed
    BY <1>2, <1>6, <2>1, <2>4
  <2>. QED BY <2>3, <2>4, <2>5, <2>6 DEF ClaimedOnce
<1>. QED BY <1>2, <1>7, <1>8

(* The item at top is claimed by a CAS, which only one thread can win.     *)
LEMMA TopMoves ==
  ASSUME ChaseLevAssumption, Inv, NEW th \in Thread, Update(th, top, T + 1, "SeqCst"),
         T < Open, out' = [out EXCEPT !.got = Append(@, latest(slot(T)))],
         th = O \/ T < sc[top], Control', OwnerLocals',
         Taking' <=> Taking, Decided' <=> Decided, pc'[O] = "push_fence" <=> pc[O] = "push_fence",
         pc'[th] \in {"idle", "take_restore"},
         \A u \in Thread \ {th} : pc'[u] = pc[u] /\ reg'[u] = reg[u]
  PROVE  Inv'
<1>1. /\ O \in Thread /\ top \in Loc /\ bottom \in Loc /\ top # bottom /\ Memory /\ Control
      /\ T \in Nat /\ T + 1 \in Int /\ Last(top) = T + 1 /\ B \in Int /\ End \in Int /\ Open \in Int /\ Open <= End
  BY Locations, Numbers, Ends DEF Inv, T
<1>2. /\ Memory' /\ UNCHANGED <<rel, sc, race>>
      /\ Last(top)' = Last(top) + 1 /\ latest(top)' = T + 1
      /\ \A i \in 1..Last(top) : hist'[top][i] = hist[top][i]
      /\ \A k \in Loc \ {top} : hist'[k] = hist[k]
      /\ cur'[th][top] = Last(top) + 1 /\ \A x \in Loc : cur[th][x] <= cur'[th][x]
      /\ \A u \in Thread \ {th} : cur'[u] = cur[u] /\ acq'[u] = acq[u]
  BY <1>1, Updates
<1>3. \A k \in Loc \ {top} : Last(k)' = Last(k) /\ latest(k)' = latest(k) /\ \A i : val(k, i)' = val(k, i)
  BY <1>2 DEF Last, latest, val
<1>4. T' = T + 1 /\ B' = B /\ End' = End /\ Open' = Open
  <2>1. T' = T + 1
    BY <1>1, <1>2 DEF T
  <2>2. B' = B
    BY <1>1, <1>3 DEF B
  <2>. QED BY <2>1, <2>2 DEF End, Open
<1>5. \A i \in Int : slot(i) \in Slots /\ slot(i) \in Loc \ {top} /\ latest(slot(i))' = latest(slot(i))
  BY <1>3, Locations
<1>6. PICK w : w = latest(slot(T))
  OBVIOUS
<1>7. w \in 1..out.pushed /\ ~Claimed(w) /\ T \in T..(End - 1) /\ out' = [out EXCEPT !.got = Append(@, w)]
  BY <1>1, <1>6 DEF Inv, Items
<1>8. /\ out'.pushed = out.pushed /\ \A v : Claimed(v)' <=> Claimed(v) \/ v = w
      /\ ClaimedOnce'
  BY <1>1, <1>7, Claims DEF Inv
<1>9. Items'
  <2>1. ASSUME NEW i \in (T + 1)..(End - 1)
        PROVE  latest(slot(i))' \in 1..out'.pushed /\ ~Claimed(latest(slot(i)))'
    <3>1. i \in T..(End - 1) /\ T < i /\ i \in Int
      BY <1>1
    <3>2. latest(slot(i)) \in 1..out.pushed /\ ~Claimed(latest(slot(i))) /\ w < latest(slot(i))
      BY <1>6, <1>7, <3>1 DEF Inv, Items
    <3>3. PICK v : v = latest(slot(i)) /\ v = latest(slot(i))'
      BY <1>5, <3>1
    <3>4. ~Claimed(v) /\ v # w
      BY <1>7, <3>2, <3>3
    <3>5. ~Claimed(v)'
      BY <1>8, <3>4
    <3>. QED BY <1>8, <3>2, <3>3, <3>5 DEF Claimed
  <2>2. ASSUME NEW i \in (T + 1)..(End - 1), NEW j \in (T + 1)..(End - 1), i < j
        PROVE  latest(slot(i))' < latest(slot(j))'
    <3>1. i \in T..(End - 1) /\ j \in T..(End - 1) /\ i \in Int /\ j \in Int
      BY <1>1
    <3>. QED BY <1>5, <2>2, <3>1 DEF Inv, Items
  <2>3. ASSUME NEW v \in 1..out.pushed
        PROVE  Claimed(v)' \/ \E i \in (T + 1)..(End - 1) : latest(slot(i))' = v
    <3>1. CASE Claimed(v)
      BY <1>8, <3>1
    <3>2. ASSUME NEW i \in T..(End - 1), latest(slot(i)) = v
          PROVE  Claimed(v)' \/ \E k \in (T + 1)..(End - 1) : latest(slot(k))' = v
      <4>1. CASE i = T
        BY <1>6, <1>8, <3>2, <4>1
      <4>2. CASE i # T
        <5>1. i \in (T + 1)..(End - 1) /\ i \in Int
          BY <1>1, <4>2
        <5>. QED BY <1>5, <3>2, <5>1
      <4>. QED BY <4>1, <4>2
    <3>. QED BY <3>1, <3>2 DEF Inv, Items
  <2>. QED BY <1>4, <1>8, <2>1, <2>2, <2>3 DEF Items
<1>10. Tops'
  <2>1. ASSUME NEW i \in 1..(T + 2) PROVE val(top, i)' = i - 1
    <3>1. CASE i = T + 2
      BY <1>1, <1>2, <3>1 DEF latest
    <3>2. CASE i # T + 2
      <4>1. i \in 1..Last(top)
        BY <1>1, <3>2
      <4>. QED BY <1>2, <4>1 DEF Inv, Tops, val
    <3>. QED BY <3>1, <3>2
  <2>2. T + 1 <= sc[top] \/ T + 1 <= cur'[O][top]
    <3>1. CASE th = O
      BY <1>1, <1>2, <3>1
    <3>2. CASE T < sc[top]
      BY <1>1, <3>2, Numbers
    <3>. QED BY <3>1, <3>2
  <2>. QED BY <1>1, <1>2, <1>4, <2>1, <2>2 DEF Tops
<1>11. OwnerKnows'
  <2>1. ASSUME NEW l \in Loc \ {top} PROVE cur'[O][l] = Last(l)'
    <3>1. cur[O][l] = Last(l) /\ Last(l)' = Last(l) /\ Last(l) \in Nat
      BY <1>1, <1>3, Numbers DEF Inv, OwnerKnows
    <3>2. cur[O][l] <= cur'[O][l]
      <4>1. cur[O][l] \in Nat
        BY <1>1, Numbers
      <4>. QED BY <1>1, <1>2, <4>1
    <3>3. cur'[O][l] \in 1..Last(l)
      BY <1>1, <1>2, <3>1 DEF Memory, Bounded
    <3>. QED BY <3>1, <3>2, <3>3
  <2>2. pc'[O] # "push_fence" => \A s \in Slots : rel'[O][s] = Last(s)'
    BY <1>2, <1>3, Locations DEF Inv, OwnerKnows
  <2>. QED BY <2>1, <2>2 DEF OwnerKnows
<1>12. Window'
  <2>1. N \in Nat /\ End - T <= N
    BY DEF Inv, Window, ChaseLevAssumption
  <2>. QED BY <1>1, <1>4, <2>1 DEF Window
<1>13. Posted'
  <2>1. SUFFICES ASSUME NEW i \in Nat, T + 1 <= i PROVE Shown(sc[bottom], i)'
    BY <1>4 DEF Posted
  <2>2. PICK n \in Nat : n = sc[bottom]
    BY <1>1, Numbers
  <2>3. Shown(n, i)
    BY <1>1, <2>1, <2>2 DEF Inv, Posted
  <2>4. hist'[bottom] = hist[bottom] /\ hist'[slot(i)] = hist[slot(i)]
    BY <1>1, <1>2, <1>5
  <2>5. Shown(n, i)'
    BY <1>1, <1>2, <1>4, <2>2, <2>3, <2>4, ShownLater
  <2>. QED BY <1>2, <2>2, <2>5 DEF Shown
<1>14. ThievesAim'
  <2>1. SUFFICES ASSUME NEW u \in Thief PROVE Aims(u)'
    BY DEF ThievesAim
  <2>2. CASE u = th
    <3>1. pc'[u] = "idle"
      BY <2>1, <2>2 DEF Control, ThiefLabel
    <3>. QED BY <3>1 DEF Aims, Past
  <2>3. CASE u # th
    <3>1. /\ acq'[u] = acq[u] /\ pc'[u] = pc[u] /\ reg'[u] = reg[u] /\ sc' = sc
          /\ Aims(u)
      BY <1>2, <2>1, <2>3, Locations DEF Inv, ThievesAim
    <3>2. pc[u] # "idle" => reg[u].t \in 0..(T + 1) /\ reg[u].t # T + 1
      BY <1>1, <3>1 DEF Aims
    <3>. QED BY <1>4, <3>1, <3>2 DEF Aims, Past
  <2>. QED BY <2>2, <2>3
<1>15. NoRace'
  BY <1>2 DEF Inv, NoRace
<1>. QED BY <1>2, <1>8, <1>9, <1>10, <1>11, <1>12, <1>13, <1>14, <1>15 DEF Inv

LEMMA Won ==
  ASSUME ChaseLevAssumption, Inv, NEW th \in Thread, NEW t \in Int, Cas(th, top, t, t + 1, "SeqCst")
  PROVE  /\ t = T /\ T \in Nat /\ Update(th, top, T + 1, "SeqCst")
         /\ T' = T + 1 /\ B' = B /\ sc' = sc
         /\ \A i \in Int : latest(slot(i))' = latest(slot(i))
         /\ \A u \in Thread \ {th} : cur'[u] = cur[u]
<1>1. top \in Loc /\ bottom \in Loc \ {top} /\ Memory /\ T \in Nat /\ T + 1 \in Int /\ Last(top) = T + 1
      /\ \A i \in Int : slot(i) \in Loc \ {top}
  BY Locations, Numbers DEF Inv, T
<1>2. latest(top) = T
  BY <1>1 DEF Inv, Tops, latest
<1>3. t = T /\ Update(th, top, T + 1, "SeqCst")
  BY <1>2 DEF Cas
<1>4. /\ Last(top)' = Last(top) + 1 /\ \A k \in Loc \ {top} : hist'[k] = hist[k]
      /\ sc' = sc /\ \A u \in Thread \ {th} : cur'[u] = cur[u]
  BY <1>1, <1>3, Updates
<1>5. T' = T + 1
  BY <1>1, <1>4 DEF T
<1>6. B' = B /\ \A i \in Int : latest(slot(i))' = latest(slot(i))
  BY <1>1, <1>4 DEF B, latest, val, Last
<1>. QED BY <1>1, <1>3, <1>4, <1>5, <1>6

LEMMA StealCasStep == ASSUME ChaseLevAssumption, Inv, NEW th \in Thief, StealCas(th) PROVE Inv'
<1>1. pc[th] = "steal_cas" /\ Goto(th, "idle") /\ reg' = reg
  BY DEF StealCas, From
<1>2. CASE CasFails(th, top, reg[th].t, "Relaxed") /\ UNCHANGED out
  BY <1>1, <1>2, StealFailsStep
<1>3. CASE Cas(th, top, reg[th].t, reg[th].t + 1, "SeqCst") /\ Claim(reg[th].v)
  <2>1. /\ th \in Thread /\ th # O /\ O \in Thread /\ Control /\ Aims(th) /\ B \in Int /\ End \in B..(B + 1)
        /\ Open \in B..End /\ "idle" \in Label(th) /\ reg[th].t \in Int /\ Last(top) = T + 1 /\ N \in Nat
    <3>1. "t" \in Local
      BY DEF Local
    <3>2. /\ th \in Thread /\ th # O /\ O \in Thread /\ Control /\ Memory /\ Aims(th)
          /\ "idle" \in Label(th) /\ N \in Nat
      BY Locations DEF Inv, ThievesAim, Label, ThiefLabel, ChaseLevAssumption
    <3>3. reg[th].t \in Int
      BY <3>1, <3>2 DEF Control
    <3>4. Last(top) = T + 1
      BY <3>2, Numbers, Locations DEF T
    <3>. QED BY <3>2, <3>3, <3>4, Numbers, Ends
  <2>2. /\ reg[th].t = T /\ T \in Nat /\ Update(th, top, T + 1, "SeqCst")
        /\ T' = T + 1 /\ B' = B /\ sc' = sc
        /\ \A i \in Int : latest(slot(i))' = latest(slot(i))
        /\ \A u \in Thread \ {th} : cur'[u] = cur[u]
    BY <1>3, <2>1, Won
  <2>3. Fresh(th) /\ T < Open /\ reg[th].v = latest(slot(T)) /\ T < sc[top]
    BY <1>1, <2>1, <2>2 DEF Aims, Past, Fresh
  <2>4. out' = [out EXCEPT !.got = Append(@, latest(slot(T)))]
    BY <1>3, <2>3 DEF Claim
  <2>5. latest(slot(T)) \in 1..out.pushed /\ ~Claimed(latest(slot(T)))
    <3>1. T \in T..(End - 1)
      BY <2>1, <2>2, <2>3
    <3>. QED BY <3>1 DEF Inv, Items
  <2>6. out' \in [pushed : Nat, got : Seq(Int)] /\ out'.pushed = out.pushed
    <3>1. PICK w : w = latest(slot(T))
      OBVIOUS
    <3>. QED BY <2>1, <2>4, <2>5, <3>1, Claims DEF Inv
  <2>7. Control' /\ pc'[th] = "idle" /\ \A u \in Thread \ {th} : pc'[u] = pc[u] /\ reg'[u] = reg[u]
    BY <1>1, <2>1, <2>6, Steps
  <2>8. pc'[O] = pc[O] /\ reg'[O] = reg[O] /\ cur'[O] = cur[O]
    BY <2>1, <2>2, <2>7
  <2>9. OwnerLocals'
    <3>1. B - T < N => B - (T + 1) < N
      BY <2>1, <2>2
    <3>2. ASSUME pc[O] = "take_top", T + 1 > B PROVE cur[O][top] >= T + 1
      <4>1. T = B
        BY <2>1, <2>2, <2>3, <3>2
      <4>2. cur[O][top] = Last(top)
        BY <1>1, <2>3, <3>2, <4>1 DEF Fresh
      <4>. QED BY <2>1, <2>2, <4>2
    <3>3. T > B => T + 1 > B
      BY <2>1, <2>2
    <3>4. pc[O] = "take_top" => sc[bottom] = Last(bottom) /\ Last(bottom)' = Last(bottom)
      <4>1. \A k \in Loc \ {top} : hist'[k] = hist[k]
        BY <2>1, <2>2, Updates DEF Inv
      <4>2. hist'[bottom] = hist[bottom]
        BY <4>1, Locations
      <4>. QED BY <4>2 DEF Inv, OwnerLocals, Last
    <3>. QED BY <2>1, <2>2, <2>6, <2>8, <3>1, <3>2, <3>3, <3>4 DEF Inv, OwnerLocals, Taking
  <2>10. (Taking' <=> Taking) /\ (Decided' <=> Decided)
    BY <2>8 DEF Taking, Decided
  <2>. QED BY <2>1, <2>2, <2>3, <2>4, <2>7, <2>8, <2>9, <2>10, TopMoves
<1>. QED BY <1>2, <1>3 DEF StealCas

-----------------------------------------------------------------------------
(* The steps of the owner, first those that store and claim nothing.       *)
OwnerMoves ==
  /\ hist' = hist /\ race' = race
  /\ \A u \in Thief : /\ cur'[u] = cur[u] /\ acq'[u] = acq[u]
                      /\ pc'[u] = pc[u] /\ reg'[u] = reg[u]
  /\ \A x \in Loc : cur[O][x] <= cur'[O][x] /\ sc[x] <= sc'[x]
  /\ pc'[O] # "push_fence" => \A s \in Slots : rel'[O][s] = Last(s)

LEMMA OwnerStays ==
  ASSUME ChaseLevAssumption, Inv, Memory', OwnerMoves
  PROVE  /\ Tops' /\ OwnerKnows' /\ NoRace' /\ T' = T /\ B' = B
         /\ \A l : Last(l)' = Last(l) /\ latest(l)' = latest(l)
         /\ \A u \in Thief : Past(u)' <=> Past(u)
         /\ (\A u \in Thief : Past(u) /\ reg[u].t = T => Fresh(u)') => ThievesAim'
<1>1. /\ hist' = hist /\ race' = race
      /\ \A u \in Thief : /\ cur'[u] = cur[u] /\ acq'[u] = acq[u]
                          /\ pc'[u] = pc[u] /\ reg'[u] = reg[u]
      /\ \A x \in Loc : cur[O][x] <= cur'[O][x] /\ sc[x] <= sc'[x]
      /\ pc'[O] # "push_fence" => \A s \in Slots : rel'[O][s] = Last(s)
  BY DEF OwnerMoves
<1>2. /\ O \in Thread /\ top \in Loc /\ Memory /\ T \in Nat
      /\ \A x \in Loc : /\ cur[O][x] \in Nat /\ cur'[O][x] \in Nat /\ sc[x] \in Nat /\ sc'[x] \in Nat
                        /\ cur'[O][x] <= Last(x) /\ Last(x) \in Nat
  <2>1. O \in Thread /\ top \in Loc /\ Memory
    BY Locations DEF Inv
  <2>2. \A x \in Loc : cur[O][x] \in Nat /\ sc[x] \in Nat /\ Last(x) \in Nat
    BY <2>1, Numbers
  <2>3. cur'[O] \in View /\ sc' \in View /\ \A x \in Loc : cur'[O][x] \in 1..Last(x)
    BY <1>1, <2>1 DEF Memory, Bounded, Last
  <2>. QED BY <2>1, <2>2, <2>3, Numbers, Locations DEF View
<1>3. /\ T' = T /\ B' = B
      /\ \A l : Last(l)' = Last(l) /\ latest(l)' = latest(l) /\ \A i : val(l, i)' = val(l, i)
  BY <1>1, SameMemory
<1>4. Tops'
  <2>1. T <= sc'[top] \/ T <= cur'[O][top]
    BY <1>1, <1>2 DEF Inv, Tops
  <2>. QED BY <1>3, <2>1 DEF Inv, Tops
<1>5. OwnerKnows'
  <2>1. \A l \in Loc \ {top} : cur'[O][l] = Last(l)
    BY <1>1, <1>2 DEF Inv, OwnerKnows
  <2>. QED BY <1>1, <1>3, <2>1 DEF OwnerKnows
<1>6. NoRace' /\ \A u \in Thief : Past(u)' <=> Past(u)
  BY <1>1 DEF Inv, NoRace, Past
<1>7. ASSUME \A u \in Thief : Past(u) /\ reg[u].t = T => Fresh(u)' PROVE ThievesAim'
  <2>1. SUFFICES ASSUME NEW u \in Thief PROVE Aims(u)'
    BY DEF ThievesAim
  <2>2. /\ cur'[u] = cur[u] /\ acq'[u] = acq[u] /\ pc'[u] = pc[u] /\ reg'[u] = reg[u]
        /\ Aims(u) /\ u \in Thread
    BY <1>1, <2>1, Locations DEF Inv, ThievesAim
  <2>3. Past(u) => reg[u].t < sc'[top]
    <3>1. Past(u) => reg[u].t \in Nat /\ reg[u].t < sc[top]
      BY <1>2, <2>2 DEF Aims, Past
    <3>. QED BY <1>1, <1>2, <3>1
  <2>. QED BY <1>3, <1>6, <1>7, <2>2, <2>3 DEF Aims
<1>. QED BY <1>3, <1>4, <1>5, <1>6, <1>7

(* The items that are there stay.                                          *)
LEMMA ItemsStay ==
  ASSUME ChaseLevAssumption, Inv, Memory', OwnerMoves, out' = out, End' = End, Open' = Open,
         Control', OwnerLocals',
         pc'[O] = "take_top" /\ T = B =>
           \A u \in Thief : Past(u) /\ reg[u].t = T => cur'[O][top] = Last(top)
  PROVE  Inv'
<1>1. /\ Tops' /\ OwnerKnows' /\ NoRace' /\ T' = T /\ B' = B
      /\ \A l : Last(l)' = Last(l) /\ latest(l)' = latest(l)
      /\ \A u \in Thief : Past(u)' <=> Past(u)
      /\ (\A u \in Thief : Past(u) /\ reg[u].t = T => Fresh(u)') => ThievesAim'
  BY OwnerStays
<1>2. /\ hist' = hist /\ \A u \in Thief : cur'[u] = cur[u] /\ pc'[u] = pc[u] /\ reg'[u] = reg[u]
      /\ \A x \in Loc : sc[x] <= sc'[x]
  BY DEF OwnerMoves
<1>3. Window' /\ ClaimedOnce' /\ Items'
  BY <1>1 DEF Inv, Window, ClaimedOnce, Items, Claimed
<1>4. Posted'
  <2>1. SUFFICES ASSUME NEW i \in Nat, T <= i PROVE Shown(sc[bottom], i)'
    BY <1>1 DEF Posted
  <2>2. PICK m \in Nat, n \in Nat : m = sc[bottom] /\ n = sc'[bottom]
    <3>1. sc' \in View
      BY DEF Memory, Bounded
    <3>. QED BY <3>1, Numbers, Locations DEF Inv, View
  <2>3. m <= n /\ Shown(m, i)
    BY <1>2, <2>1, <2>2, Locations DEF Inv, Posted
  <2>4. Shown(n, i)'
    BY <1>2, <2>3, ShownLater DEF Inv
  <2>. QED BY <2>2, <2>4 DEF Shown
<1>5. ASSUME NEW u \in Thief, Past(u), reg[u].t = T PROVE Fresh(u)'
  <2>1. Fresh(u)
    BY <1>5 DEF Inv, ThievesAim, Aims
  <2>2. Shown(cur[u][bottom], T)'
    BY <1>1, <1>2, <2>1 DEF Fresh, Shown, val
  <2>. QED BY <1>1, <1>2, <1>5, <2>1, <2>2 DEF Fresh
<1>. QED BY <1>1, <1>3, <1>4, <1>5 DEF Inv

LEMMA OwnerLoads ==
  ASSUME ChaseLevAssumption, Inv, NEW l \in Loc, NEW i \in canLoad(O, l), NEW o \in {"Relaxed", "Acquire"},
         Load(O, l, i, o), pc[O] # "push_fence",
         \A u \in Thread \ {O} : pc'[u] = pc[u] /\ reg'[u] = reg[u]
  PROVE  /\ Memory' /\ OwnerMoves /\ hist' = hist /\ sc' = sc
         /\ T' = T /\ B' = B /\ \A k : Last(k)' = Last(k) /\ latest(k)' = latest(k)
         /\ l # top => val(l, i) = latest(l)
         /\ l = top => /\ i - 1 \in 0..T /\ val(l, i) = i - 1
                       /\ i \in Nat /\ cur[O][top] <= i /\ i <= cur'[O][top]
         /\ cur[O][top] \in Nat /\ cur'[O][top] \in Nat /\ cur[O][top] <= cur'[O][top]
<1>1. O \in Thread /\ top \in Loc /\ Memory /\ \A u \in Thief : u \in Thread \ {O}
  BY Locations DEF Inv
<1>2. /\ Memory' /\ UNCHANGED <<hist, rel, sc, race>>
      /\ i \in 1..Last(l) /\ cur[O][l] <= i /\ i <= cur'[O][l]
      /\ \A u \in Thread \ {O} : cur'[u] = cur[u] /\ acq'[u] = acq[u]
      /\ \A x \in Loc : cur[O][x] <= cur'[O][x]
  BY <1>1, Loads
<1>3. OwnerMoves
  <2>1. \A x \in Loc : sc[x] \in Nat
    BY <1>1, Numbers
  <2>2. \A s \in Slots : rel[O][s] = Last(s)
    BY DEF Inv, OwnerKnows
  <2>. QED BY <1>1, <1>2, <2>1, <2>2 DEF OwnerMoves
<1>4. l # top => val(l, i) = latest(l)
  <2>1. l # top => cur[O][l] = Last(l)
    BY DEF Inv, OwnerKnows
  <2>2. Last(l) \in Nat
    BY <1>1, Numbers
  <2>. QED BY <1>2, <2>1, <2>2 DEF latest
<1>5. ASSUME l = top
      PROVE  /\ i - 1 \in 0..T /\ val(l, i) = i - 1
             /\ i \in Nat /\ cur[O][top] <= i /\ i <= cur'[O][top]
  <2>1. Last(top) \in Nat /\ T = Last(top) - 1
    BY <1>1, Numbers DEF T
  <2>. QED BY <1>2, <1>5, <2>1 DEF Inv, Tops
<1>6. cur[O][top] \in Nat /\ cur'[O][top] \in Nat /\ cur[O][top] <= cur'[O][top]
  <2>1. cur'[O] \in View
    BY <1>1, <1>2 DEF Memory
  <2>. QED BY <1>1, <1>2, <2>1, Numbers, Locations DEF View
<1>7. /\ T' = T /\ B' = B /\ \A k : Last(k)' = Last(k) /\ latest(k)' = latest(k)
  BY <1>2, SameMemory
<1>. QED BY <1>2, <1>3, <1>4, <1>5, <1>6, <1>7

LEMMA PushBottomStep == ASSUME ChaseLevAssumption, Inv, PushBottom(O) PROVE Inv'
<1>1. PICK i \in canLoad(O, bottom) : Load(O, bottom, i, "Relaxed") /\ Set(O, "b", val(bottom, i))
  BY DEF PushBottom, LoadInto
<1>2. /\ O \in Thread /\ bottom \in Loc /\ bottom # top /\ Memory /\ Control /\ B \in Int
      /\ pc[O] = "idle" /\ "push_top" \in Label(O) /\ "b" \in Local /\ out' = out /\ Goto(O, "push_top")
  BY Locations, Numbers DEF Inv, PushBottom, Call, Label, OwnerLabel, Local
<1>3. i \in 1..Last(bottom)
  BY <1>1, <1>2, Loads
<1>4. PICK v \in Int : v = val(bottom, i)
  BY <1>2, <1>3, Numbers
<1>5. /\ Control' /\ pc'[O] = "push_top" /\ \A u \in Thread \ {O} : pc'[u] = pc[u] /\ reg'[u] = reg[u]
      /\ reg'[O]["b"] = v
  BY <1>1, <1>2, <1>4, Assigns DEF Control
<1>6. /\ Memory' /\ OwnerMoves /\ T' = T /\ B' = B /\ v = B
  BY <1>1, <1>2, <1>4, <1>5, OwnerLoads DEF B
<1>7. End' = End /\ Open' = Open
  BY <1>2, <1>5, <1>6 DEF End, Open, Taking, Decided
<1>8. OwnerLocals'
  BY <1>5, <1>6 DEF OwnerLocals, Taking
<1>. QED BY <1>2, <1>5, <1>6, <1>7, <1>8, ItemsStay

LEMMA PushTopStep == ASSUME ChaseLevAssumption, Inv, PushTop(O) PROVE Inv'
<1>1. PICK i \in canLoad(O, top) : Load(O, top, i, "Acquire") /\ Set(O, "t", val(top, i))
  BY DEF PushTop, LoadInto
<1>2. /\ O \in Thread /\ top \in Loc /\ Memory /\ Control /\ B \in Int /\ N \in Nat /\ T \in Nat
      /\ pc[O] = "push_top" /\ "t" \in Local /\ out' = out /\ reg[O].b = B
  BY Locations, Numbers DEF Inv, PushTop, From, Local, OwnerLocals, ChaseLevAssumption
<1>3. i \in 1..Last(top)
  BY <1>1, <1>2, Loads
<1>4. PICK v \in Int : v = val(top, i)
  BY <1>2, <1>3, Numbers
<1>5. PICK l \in Label(O) : Goto(O, l) /\ l = IF Full(reg[O].b - reg'[O].t) THEN "idle" ELSE "push_slot"
  BY DEF PushTop, Label, OwnerLabel
<1>6. /\ Control' /\ pc'[O] = l /\ \A u \in Thread \ {O} : pc'[u] = pc[u] /\ reg'[u] = reg[u]
      /\ reg'[O].t = v /\ reg'[O].b = B
  <2>1. /\ Control' /\ pc'[O] = l /\ \A u \in Thread \ {O} : pc'[u] = pc[u] /\ reg'[u] = reg[u]
        /\ reg'[O]["t"] = v /\ \A y \in Local \ {"t"} : reg'[O][y] = reg[O][y]
    BY <1>1, <1>2, <1>4, <1>5, Assigns DEF Control
  <2>. QED BY <1>2, <2>1 DEF Local
<1>7. /\ Memory' /\ OwnerMoves /\ T' = T /\ B' = B /\ v = i - 1 /\ i - 1 \in 0..T
  BY <1>1, <1>2, <1>4, <1>6, OwnerLoads
<1>8. End' = End /\ Open' = Open
  BY <1>2, <1>5, <1>6, <1>7 DEF End, Open, Taking, Decided
<1>9. l = "push_slot" => B - T < N
  BY <1>2, <1>5, <1>6, <1>7 DEF Full
<1>10. OwnerLocals'
  BY <1>5, <1>6, <1>7, <1>9 DEF OwnerLocals, Taking
<1>. QED BY <1>2, <1>5, <1>6, <1>7, <1>8, <1>10, ItemsStay

LEMMA PushFenceStep == ASSUME ChaseLevAssumption, Inv, PushFence(O) PROVE Inv'
<1>1. /\ O \in Thread /\ Memory /\ Control /\ "push_bottom" \in Label(O)
      /\ pc[O] = "push_fence" /\ out' = out /\ reg' = reg /\ Goto(O, "push_bottom")
      /\ rel' = [rel EXCEPT ![O] = cur[O]] /\ UNCHANGED <<hist, cur, acq, sc, reads, race>>
  BY Locations DEF Inv, PushFence, From, FenceRelease, Label, OwnerLabel
<1>2. /\ rel' \in [Thread -> View] /\ rel'[O] = cur[O] /\ \A u \in Thread \ {O} : rel'[u] = rel[u]
  BY <1>1 DEF Memory
<1>3. Memory'
  <2>1. \A u \in Thread : Bounded(rel'[u])
    BY <1>1, <1>2 DEF Memory
  <2>. QED BY <1>1, <1>2, <2>1 DEF Memory, Bounded, Last
<1>4. /\ Control' /\ pc'[O] = "push_bottom" /\ \A u \in Thread \ {O} : pc'[u] = pc[u] /\ reg'[u] = reg[u]
  BY <1>1, Steps DEF Control
<1>5. OwnerMoves
  <2>1. \A x \in Loc : cur[O][x] \in Nat /\ sc[x] \in Nat
    BY <1>1, Numbers
  <2>2. \A s \in Slots : cur[O][s] = Last(s)
    BY Locations DEF Inv, OwnerKnows
  <2>. QED BY <1>1, <1>2, <1>4, <2>1, <2>2, Locations DEF OwnerMoves
<1>6. T' = T /\ B' = B /\ \A l : latest(l)' = latest(l)
  BY <1>1, SameMemory
<1>7. End' = End /\ Open' = Open
  BY <1>1, <1>4, <1>6 DEF End, Open, Taking, Decided
<1>8. OwnerLocals'
  BY <1>1, <1>4, <1>6 DEF Inv, OwnerLocals, Taking
<1>. QED BY <1>1, <1>3, <1>4, <1>5, <1>7, <1>8, ItemsStay

LEMMA TakeLoadStep == ASSUME ChaseLevAssumption, Inv, TakeLoad(O) PROVE Inv'
<1>1. PICK i \in canLoad(O, bottom) : Load(O, bottom, i, "Relaxed") /\ Set(O, "b", val(bottom, i) - 1)
  BY DEF TakeLoad
<1>2. /\ O \in Thread /\ bottom \in Loc /\ bottom # top /\ Memory /\ Control /\ B \in Int
      /\ pc[O] = "idle" /\ "take_bottom" \in Label(O) /\ "b" \in Local /\ out' = out /\ Goto(O, "take_bottom")
  BY Locations, Numbers DEF Inv, TakeLoad, Call, Label, OwnerLabel, Local
<1>3. i \in 1..Last(bottom)
  BY <1>1, <1>2, Loads
<1>4. PICK v \in Int : v = val(bottom, i) - 1
  BY <1>2, <1>3, Numbers
<1>5. /\ Control' /\ pc'[O] = "take_bottom" /\ \A u \in Thread \ {O} : pc'[u] = pc[u] /\ reg'[u] = reg[u]
      /\ reg'[O]["b"] = v
  BY <1>1, <1>2, <1>4, Assigns DEF Control
<1>6. /\ Memory' /\ OwnerMoves /\ T' = T /\ B' = B /\ v = B - 1
  BY <1>1, <1>2, <1>4, <1>5, OwnerLoads DEF B
<1>7. End' = End /\ Open' = Open
  BY <1>2, <1>5, <1>6 DEF End, Open, Taking, Decided
<1>8. OwnerLocals'
  BY <1>5, <1>6 DEF OwnerLocals, Taking
<1>. QED BY <1>2, <1>5, <1>6, <1>7, <1>8, ItemsStay

LEMMA TakeFenceStep == ASSUME ChaseLevAssumption, Inv, TakeFence(O) PROVE Inv'
<1>1. /\ O \in Thread /\ top \in Loc /\ bottom \in Loc /\ Memory /\ Control /\ "take_top" \in Label(O)
      /\ pc[O] = "take_fence" /\ out' = out /\ reg' = reg /\ Goto(O, "take_top") /\ FenceSeqCst(O)
      /\ T \in Nat /\ Last(top) = T + 1
  BY Locations, Numbers DEF Inv, TakeFence, Fence, From, Label, OwnerLabel, T
<1>2. /\ Memory' /\ UNCHANGED <<hist, race>>
      /\ \A u \in Thread \ {O} : cur'[u] = cur[u] /\ acq'[u] = acq[u] /\ rel'[u] = rel[u]
      /\ cur'[O] = sc' /\ acq'[O] = sc' /\ rel'[O] = sc'
      /\ \A x \in Loc : /\ sc[x] <= sc'[x] /\ acq[O][x] <= sc'[x] /\ cur[O][x] <= sc'[x]
                        /\ sc'[x] \in Nat /\ sc'[x] <= Last(x)
  BY <1>1, Fences
<1>3. /\ Control' /\ pc'[O] = "take_top" /\ \A u \in Thread \ {O} : pc'[u] = pc[u] /\ reg'[u] = reg[u]
      /\ reg'[O] = reg[O]
  BY <1>1, Steps DEF Control
<1>4. \A l \in Loc \ {top} : sc'[l] = Last(l)
  <2>1. \A l \in Loc \ {top} : cur[O][l] = Last(l) /\ Last(l) \in Nat
    BY <1>1, Numbers DEF Inv, OwnerKnows
  <2>. QED BY <1>2, <2>1
<1>5. OwnerMoves
  BY <1>2, <1>3, <1>4, Locations DEF OwnerMoves
<1>6. T' = T /\ B' = B /\ \A l : Last(l)' = Last(l) /\ latest(l)' = latest(l)
  BY <1>2, SameMemory
<1>7. End' = End /\ Open' = Open
  BY <1>1, <1>3, <1>6 DEF End, Open, Taking, Decided
<1>8. /\ sc[top] \in Nat /\ cur[O][top] \in Nat /\ cur'[O][top] \in Nat
      /\ sc[top] <= cur'[O][top] /\ cur[O][top] <= cur'[O][top] /\ cur'[O][top] <= Last(top)
  BY <1>1, <1>2, Numbers
<1>9. cur'[O][top] >= T
  BY <1>1, <1>8 DEF Inv, Tops
<1>10. OwnerLocals'
  <2>1. sc'[bottom] = Last(bottom)
    BY <1>4, Locations
  <2>. QED BY <1>1, <1>3, <1>6, <1>9, <2>1 DEF Inv, OwnerLocals, Taking
<1>11. ASSUME NEW u \in Thief, Past(u), reg[u].t = T PROVE cur'[O][top] = Last(top)
  <2>1. T < sc[top]
    BY <1>11 DEF Inv, ThievesAim, Aims
  <2>. QED BY <1>1, <1>8, <2>1
<1>. QED BY <1>1, <1>2, <1>3, <1>5, <1>7, <1>10, <1>11, ItemsStay

(* Having seen more than one item, the owner decides for the last: it had  *)
(* passed its fence, so all thieves that are after it know of that.        *)
LEMMA Decides ==
  ASSUME ChaseLevAssumption, Inv, Memory', Control', OwnerMoves, OwnerLocals', out' = out,
         pc[O] = "take_top", Decided', sc' = sc, T < B \/ (T = B /\ cur[O][top] < Last(top)), reg'[O].b = B
  PROVE  Inv'
<1>1. /\ Tops' /\ OwnerKnows' /\ NoRace' /\ T' = T /\ B' = B
      /\ \A l : Last(l)' = Last(l) /\ latest(l)' = latest(l)
      /\ \A u \in Thief : Past(u)' <=> Past(u)
      /\ (\A u \in Thief : Past(u) /\ reg[u].t = T => Fresh(u)') => ThievesAim'
  BY OwnerStays
<1>2. /\ hist' = hist /\ \A u \in Thief : cur'[u] = cur[u] /\ pc'[u] = pc[u] /\ reg'[u] = reg[u]
  BY DEF OwnerMoves
<1>3. /\ Memory /\ bottom \in Loc /\ top \in Loc /\ T \in Nat /\ B \in Int /\ Last(bottom) \in Nat
      /\ sc[bottom] = Last(bottom) /\ T <= B /\ cur[O][top] \in Nat /\ Last(top) \in Nat /\ O \in Thread
  <2>1. Memory /\ bottom \in Loc /\ top \in Loc /\ O \in Thread
    BY Locations DEF Inv
  <2>. QED BY <2>1, Numbers DEF Inv, OwnerLocals
<1>4. pc'[O] = "take_slot" /\ End' = End /\ Open' = B /\ End = B + 1 /\ Open = B + 1
  BY <1>1 DEF Decided, End, Open, Taking
<1>5. Window'
  BY <1>1, <1>3, <1>4 DEF Inv, Window
<1>6. Items' /\ ClaimedOnce'
  BY <1>1, <1>4 DEF Inv, Items, ClaimedOnce, Claimed
<1>7. Posted'
  <2>1. SUFFICES ASSUME NEW i \in Nat, T <= i PROVE Shown(sc[bottom], i)'
    BY <1>1 DEF Posted
  <2>2. Shown(sc[bottom], i)
    BY <2>1 DEF Inv, Posted
  <2>3. \A j \in sc[bottom]..Last(bottom) : j = Last(bottom) /\ val(bottom, j) = B
    BY <1>3 DEF B, latest
  <2>4. \A j \in sc[bottom]..Last(bottom) :
          val(bottom, j) > i => i < B /\ hist[bottom][j].rview[slot(i)] = Last(slot(i))
    BY <1>3, <2>2, <2>3 DEF Shown
  <2>. QED BY <1>1, <1>2, <1>4, <2>4 DEF Shown, val
<1>8. ASSUME NEW u \in Thief, Past(u), reg[u].t = T PROVE Fresh(u)'
  <2>1. Fresh(u) /\ Shown(cur[u][bottom], T)
    BY <1>8 DEF Inv, ThievesAim, Aims, Fresh
  <2>2. CASE T < B
    <3>1. Shown(cur[u][bottom], T)'
      BY <1>1, <1>2, <1>4, <2>1, <2>2 DEF Shown, val
    <3>. QED BY <1>1, <1>2, <1>4, <1>8, <2>1, <2>2, <3>1 DEF Fresh
  <2>3. CASE T = B /\ cur[O][top] < Last(top)
    <3>1. pc[u] = "steal_bottom" /\ cur[u][bottom] = Last(bottom)
      <4>1. cur[O][top] # Last(top)
        BY <1>3, <2>3
      <4>. QED BY <2>1, <2>3, <4>1 DEF Fresh
    <3>2. \A j \in cur[u][bottom]..Last(bottom) : j = Last(bottom) /\ ~(val(bottom, j) > T)
      BY <1>3, <2>3, <3>1 DEF B, latest
    <3>3. Shown(cur[u][bottom], T)'
      BY <1>1, <1>2, <3>2 DEF Shown, val
    <3>. QED BY <1>1, <1>2, <1>4, <3>1, <3>3 DEF Fresh
  <2>. QED BY <2>2, <2>3
<1>. QED BY <1>1, <1>5, <1>6, <1>7, <1>8 DEF Inv

LEMMA TakeTopStep == ASSUME ChaseLevAssumption, Inv, TakeTop(O) PROVE Inv'
<1>1. PICK i \in canLoad(O, top) : Load(O, top, i, "Relaxed") /\ Set(O, "t", val(top, i))
  BY DEF TakeTop, LoadInto
<1>2. /\ O \in Thread /\ top \in Loc /\ Memory /\ Control /\ B \in Int /\ T \in Nat /\ Last(top) = T + 1
      /\ pc[O] = "take_top" /\ "t" \in Local /\ out' = out /\ reg[O].b = B
      /\ T > B => cur[O][top] >= T
  BY Locations, Numbers DEF Inv, TakeTop, From, Local, OwnerLocals, Taking, T
<1>3. i \in 1..Last(top)
  BY <1>1, <1>2, Loads
<1>4. PICK v \in Int : v = val(top, i)
  BY <1>2, <1>3, Numbers
<1>5. PICK l \in Label(O) : Goto(O, l) /\ l = IF reg'[O].t > reg[O].b THEN "take_restore" ELSE "take_slot"
  BY DEF TakeTop, Label, OwnerLabel
<1>6. /\ Control' /\ pc'[O] = l /\ \A u \in Thread \ {O} : pc'[u] = pc[u] /\ reg'[u] = reg[u]
      /\ reg'[O].t = v /\ reg'[O].b = B
  <2>1. /\ Control' /\ pc'[O] = l /\ \A u \in Thread \ {O} : pc'[u] = pc[u] /\ reg'[u] = reg[u]
        /\ reg'[O]["t"] = v /\ \A y \in Local \ {"t"} : reg'[O][y] = reg[O][y]
    BY <1>1, <1>2, <1>4, <1>5, Assigns DEF Control
  <2>. QED BY <1>2, <2>1 DEF Local
<1>7. /\ Memory' /\ OwnerMoves /\ T' = T /\ B' = B /\ v = i - 1 /\ i - 1 \in 0..T /\ sc' = sc
      /\ i \in Nat /\ cur[O][top] <= i /\ i <= cur'[O][top] /\ cur[O][top] \in Nat /\ cur'[O][top] \in Nat
  BY <1>1, <1>2, <1>4, <1>6, OwnerLoads
<1>8. l = IF v > B THEN "take_restore" ELSE "take_slot"
  BY <1>2, <1>5, <1>6
<1>9. OwnerLocals'
  <2>1. v > B => T > B
    BY <1>2, <1>7
  <2>2. ~(v > B) => v <= B
    BY <1>2, <1>4
  <2>3. v < cur'[O][top]
    BY <1>7
  <2>. QED BY <1>6, <1>7, <1>8, <2>1, <2>2, <2>3 DEF OwnerLocals, Taking
<1>10. CASE v < B
  <2>1. Decided'
    BY <1>2, <1>6, <1>8, <1>10 DEF Decided
  <2>2. T < B \/ (T = B /\ cur[O][top] < Last(top))
    BY <1>2, <1>7, <1>10
  <2>. QED BY <1>2, <1>6, <1>7, <1>9, <2>1, <2>2, Decides
<1>11. CASE ~(v < B)
  <2>1. ~Decided' /\ Taking' /\ pc'[O] # "take_top"
    BY <1>2, <1>4, <1>6, <1>8, <1>11 DEF Decided, Taking
  <2>2. End' = End /\ Open' = Open
    BY <1>2, <1>7, <2>1 DEF End, Open, Taking, Decided
  <2>. QED BY <1>2, <1>6, <1>7, <1>9, <2>1, <2>2, ItemsStay
<1>. QED BY <1>10, <1>11

LEMMA TakeSlotStep == ASSUME ChaseLevAssumption, Inv, TakeSlot(O) PROVE Inv'
<1>1. PICK s : s = slot(reg[O].b)
  OBVIOUS
<1>2. PICK i \in canLoad(O, s) : Load(O, s, i, "Relaxed") /\ Set(O, "v", val(s, i))
  BY <1>1 DEF TakeSlot, LoadInto
<1>3. /\ O \in Thread /\ Memory /\ Control /\ B \in Int /\ T \in Nat /\ End = B + 1
      /\ pc[O] = "take_slot" /\ "v" \in Local /\ reg[O].b = B /\ reg[O].t <= B /\ reg[O].t < cur[O][top]
      /\ s = slot(B) /\ s \in Loc /\ s # top
  <2>1. pc[O] = "take_slot" /\ reg[O].b = B /\ reg[O].t <= B /\ reg[O].t < cur[O][top] /\ End = B + 1
    BY DEF TakeSlot, From, Inv, OwnerLocals, Taking, End
  <2>2. O \in Thread /\ Memory /\ Control /\ B \in Int /\ T \in Nat /\ "v" \in Local
    BY Locations, Numbers DEF Inv, Local
  <2>. QED BY <1>1, <2>1, <2>2, Locations
<1>4. i \in 1..Last(s)
  BY <1>2, <1>3, Loads
<1>5. PICK v \in Int : v = val(s, i)
  BY <1>3, <1>4, Numbers
<1>6. PICK l \in Label(O) : Goto(O, l) /\ l = IF reg[O].t = reg[O].b THEN "take_cas" ELSE "idle"
  BY DEF TakeSlot, Label, OwnerLabel
<1>7. /\ Set(O, "v", v) /\ reg'[O].v = v /\ reg'[O].b = B /\ reg'[O].t = reg[O].t
  <2>1. reg' = [reg EXCEPT ![O] = [reg[O] EXCEPT !["v"] = v]]
    BY <1>2, <1>5 DEF Set
  <2>. QED BY <1>2, <1>3, <1>5, <2>1 DEF Control, Local
<1>8. ASSUME out' \in [pushed : Nat, got : Seq(Int)]
      PROVE  /\ Control' /\ pc'[O] = l /\ \A u \in Thread \ {O} : pc'[u] = pc[u] /\ reg'[u] = reg[u]
             /\ Memory' /\ OwnerMoves /\ T' = T /\ B' = B /\ sc' = sc /\ hist' = hist /\ v = latest(s)
             /\ \A k : Last(k)' = Last(k) /\ latest(k)' = latest(k)
             /\ cur[O][top] \in Nat /\ cur'[O][top] \in Nat /\ cur[O][top] <= cur'[O][top]
  <2>1. /\ Control' /\ pc'[O] = l /\ \A u \in Thread \ {O} : pc'[u] = pc[u] /\ reg'[u] = reg[u]
    BY <1>3, <1>6, <1>7, <1>8, Assigns
  <2>. QED BY <1>2, <1>3, <1>5, <2>1, OwnerLoads
<1>9. CASE reg[O].t = B
  <2>1. out' = out /\ out' \in [pushed : Nat, got : Seq(Int)] /\ l = "take_cas" /\ ~Decided
    BY <1>3, <1>6, <1>9 DEF TakeSlot, Control, Decided
  <2>2. End' = End /\ Open' = Open
    BY <1>3, <1>8, <2>1 DEF End, Open, Taking, Decided
  <2>3. OwnerLocals'
    BY <1>3, <1>7, <1>8, <1>9, <2>1 DEF OwnerLocals, Taking
  <2>. QED BY <1>8, <2>1, <2>2, <2>3, ItemsStay
<1>10. CASE reg[O].t # B
  <2>1. out' = [out EXCEPT !.got = Append(@, v)] /\ l = "idle" /\ Decided /\ Open = B /\ T <= B
    BY <1>3, <1>6, <1>7, <1>10 DEF TakeSlot, Claim, Decided, Open, Inv, Window
  <2>2. v = latest(s)
    <3>1. cur[O][s] = Last(s) /\ Last(s) \in Nat /\ cur[O][s] <= i
      BY <1>2, <1>3, Numbers, Loads DEF Inv, OwnerKnows
    <3>. QED BY <1>4, <1>5, <3>1 DEF latest
  <2>3. v \in 1..out.pushed /\ ~Claimed(v) /\ B \in T..(End - 1)
    <3>1. B \in T..(End - 1)
      BY <1>3, <2>1
    <3>. QED BY <1>3, <2>2, <3>1 DEF Inv, Items
  <2>4. /\ out' \in [pushed : Nat, got : Seq(Int)] /\ out'.pushed = out.pushed
        /\ \A w : Claimed(w)' <=> Claimed(w) \/ w = v
        /\ ClaimedOnce'
    BY <1>3, <2>1, <2>3, Claims DEF Inv
  <2>5. /\ Control' /\ pc'[O] = "idle" /\ \A u \in Thread \ {O} : pc'[u] = pc[u] /\ reg'[u] = reg[u]
        /\ Memory' /\ OwnerMoves /\ T' = T /\ B' = B /\ sc' = sc /\ hist' = hist
        /\ \A k : Last(k)' = Last(k) /\ latest(k)' = latest(k)
    BY <1>8, <2>1, <2>4
  <2>6. End' = B /\ Open' = B
    BY <2>5 DEF End, Open, Taking, Decided
  <2>7. /\ Tops' /\ OwnerKnows' /\ NoRace'
        /\ \A u \in Thief : Past(u)' <=> Past(u)
        /\ (\A u \in Thief : Past(u) /\ reg[u].t = T => Fresh(u)') => ThievesAim'
    BY <2>5, OwnerStays
  <2>8. OwnerLocals'
    BY <2>5 DEF OwnerLocals, Taking
  <2>9. Window'
    <3>1. End - T <= N /\ N \in Nat
      BY DEF Inv, Window, ChaseLevAssumption
    <3>. QED BY <1>3, <2>1, <2>5, <2>6, <3>1 DEF Window
  <2>10. Items'
    <3>1. ASSUME NEW j \in T..(B - 1) PROVE latest(slot(j))' \in 1..out'.pushed /\ ~Claimed(latest(slot(j)))'
      <4>1. j \in T..(End - 1) /\ j < B
        BY <1>3, <3>1
      <4>2. latest(slot(j)) \in 1..out.pushed /\ ~Claimed(latest(slot(j))) /\ latest(slot(j)) < v
        BY <1>3, <2>2, <2>3, <4>1 DEF Inv, Items
      <4>3. PICK w : w = latest(slot(j)) /\ w = latest(slot(j))'
        BY <2>5
      <4>4. ~Claimed(w) /\ w # v
        BY <2>3, <4>2, <4>3
      <4>5. ~Claimed(w)'
        BY <2>4, <4>4
      <4>. QED BY <2>4, <4>2, <4>3, <4>5 DEF Claimed
    <3>2. ASSUME NEW j \in T..(B - 1), NEW k \in T..(B - 1), j < k PROVE latest(slot(j))' < latest(slot(k))'
      <4>1. j \in T..(End - 1) /\ k \in T..(End - 1)
        BY <1>3
      <4>. QED BY <2>5, <3>2, <4>1 DEF Inv, Items
    <3>3. ASSUME NEW w \in 1..out.pushed PROVE Claimed(w)' \/ \E j \in T..(B - 1) : latest(slot(j))' = w
      <4>1. CASE Claimed(w)
        BY <2>4, <4>1
      <4>2. ASSUME NEW j \in T..(End - 1), latest(slot(j)) = w
            PROVE  Claimed(w)' \/ \E k \in T..(B - 1) : latest(slot(k))' = w
        <5>1. CASE j = B
          BY <1>3, <2>2, <2>4, <4>2, <5>1
        <5>2. CASE j # B
          <6>1. j \in T..(B - 1)
            BY <1>3, <5>2
          <6>. QED BY <2>5, <4>2, <6>1
        <5>. QED BY <5>1, <5>2
      <4>. QED BY <4>1, <4>2 DEF Inv, Items
    <3>. QED BY <2>4, <2>5, <2>6, <3>1, <3>2, <3>3 DEF Items
  <2>11. Posted'
    <3>1. SUFFICES ASSUME NEW j \in Nat, T <= j PROVE Shown(sc[bottom], j)'
      BY <2>5 DEF Posted
    <3>2. Shown(sc[bottom], j)
      BY <3>1 DEF Inv, Posted
    <3>. QED BY <2>1, <2>5, <2>6, <3>2 DEF Shown, val
  <2>12. ASSUME NEW u \in Thief, Past(u), reg[u].t = T PROVE Fresh(u)'
    <3>1. Fresh(u) /\ Shown(cur[u][bottom], T) /\ u \in Thread \ {O}
      BY <2>12, Locations DEF Inv, ThievesAim, Aims, Fresh
    <3>2. cur'[u] = cur[u]
      BY <2>5 DEF OwnerMoves
    <3>3. Shown(cur[u][bottom], T)'
      BY <2>1, <2>5, <2>6, <3>1, <3>2 DEF Shown, val
    <3>. QED BY <2>1, <2>5, <2>6, <2>12, <3>1, <3>2, <3>3 DEF Fresh
  <2>. QED BY <2>4, <2>5, <2>7, <2>8, <2>9, <2>10, <2>11, <2>12 DEF Inv
<1>. QED BY <1>9, <1>10

LEMMA TakeCasStep == ASSUME ChaseLevAssumption, Inv, TakeCas(O) PROVE Inv'
<1>1. /\ O \in Thread /\ top \in Loc /\ Memory /\ Control /\ B \in Int /\ T \in Nat /\ Last(top) = T + 1
      /\ pc[O] = "take_cas" /\ "take_restore" \in Label(O) /\ reg' = reg /\ Goto(O, "take_restore")
      /\ reg[O].b = B /\ reg[O].t = B /\ reg[O].v = latest(slot(B)) /\ reg[O].t < cur[O][top]
      /\ End = B + 1 /\ Open = B + 1
  <2>1. pc[O] = "take_cas" /\ reg' = reg /\ Goto(O, "take_restore")
    BY DEF TakeCas, From
  <2>2. O \in Thread /\ top \in Loc /\ Memory /\ Control /\ B \in Int /\ T \in Nat /\ Last(top) = T + 1
    BY Locations, Numbers DEF Inv, T
  <2>. QED BY <2>1, <2>2 DEF Inv, OwnerLocals, Taking, Label, OwnerLabel, End, Open, Decided
<1>2. ASSUME out' \in [pushed : Nat, got : Seq(Int)]
      PROVE  /\ Control' /\ pc'[O] = "take_restore" /\ \A u \in Thread \ {O} : pc'[u] = pc[u] /\ reg'[u] = reg[u]
  BY <1>1, <1>2, Steps
<1>3. CASE CasFails(O, top, reg[O].t, "Relaxed") /\ UNCHANGED out
  <2>1. PICK i \in canLoad(O, top) : val(top, i) # B /\ Load(O, top, i, "Relaxed")
    BY <1>1, <1>3 DEF CasFails
  <2>2. /\ Control' /\ pc'[O] = "take_restore" /\ out' = out
        /\ \A u \in Thread \ {O} : pc'[u] = pc[u] /\ reg'[u] = reg[u]
    BY <1>1, <1>2, <1>3 DEF Control
  <2>3. /\ Memory' /\ OwnerMoves /\ T' = T /\ B' = B
        /\ i - 1 \in 0..T /\ val(top, i) = i - 1 /\ i \in Nat /\ cur[O][top] <= i /\ cur[O][top] \in Nat
    BY <1>1, <2>1, <2>2, OwnerLoads
  <2>4. T > B
    BY <1>1, <2>1, <2>3
  <2>5. End' = End /\ Open' = Open
    BY <1>1, <2>2, <2>3 DEF End, Open, Taking, Decided
  <2>6. OwnerLocals'
    BY <1>1, <2>2, <2>3, <2>4 DEF OwnerLocals, Taking
  <2>. QED BY <2>2, <2>3, <2>5, <2>6, ItemsStay
<1>4. CASE Cas(O, top, reg[O].t, reg[O].t + 1, "SeqCst") /\ Claim(reg[O].v)
  <2>1. /\ B = T /\ Update(O, top, T + 1, "SeqCst") /\ T' = T + 1 /\ B' = B
    BY <1>1, <1>4, Won
  <2>2. T < Open /\ T \in T..(End - 1) /\ out' = [out EXCEPT !.got = Append(@, latest(slot(T)))]
    BY <1>1, <1>4, <2>1 DEF Claim
  <2>3. out' \in [pushed : Nat, got : Seq(Int)]
    <3>1. PICK w : w = latest(slot(T))
      OBVIOUS
    <3>2. w \in 1..out.pushed /\ ~Claimed(w)
      BY <2>2, <3>1 DEF Inv, Items
    <3>. QED BY <1>1, <2>2, <3>1, <3>2, Claims DEF Inv
  <2>4. /\ Control' /\ pc'[O] = "take_restore" /\ \A u \in Thread \ {O} : pc'[u] = pc[u] /\ reg'[u] = reg[u]
    BY <1>2, <2>3
  <2>5. OwnerLocals'
    <3>1. T + 1 > B
      BY <1>1, <2>1
    <3>. QED BY <1>1, <2>1, <2>4, <3>1 DEF OwnerLocals, Taking
  <2>6. (Taking' <=> Taking) /\ (Decided' <=> Decided)
    BY <1>1, <2>4 DEF Taking, Decided
  <2>. QED BY <1>1, <2>1, <2>2, <2>4, <2>5, <2>6, TopMoves
<1>. QED BY <1>3, <1>4 DEF TakeCas

-----------------------------------------------------------------------------
(* The owner stores bottom: what is shown by that may be claimed, and is   *)
(* released by the store.                                                  *)
LEMMA BottomIs ==
  ASSUME ChaseLevAssumption, Inv, NEW v \in Int, Store(O, bottom, v, "Relaxed")
  PROVE  /\ T' = T /\ B' = v /\ \A i \in Int : latest(slot(i))' = latest(slot(i))
         /\ T \in Nat /\ B \in Int /\ N \in Nat /\ O \in Thread /\ Control /\ Memory
<1>1. bottom \in Loc /\ top \in Loc \ {bottom} /\ Memory /\ \A i \in Int : slot(i) \in Loc \ {bottom}
  BY Locations DEF Inv
<1>2. latest(bottom)' = v /\ \A k \in Loc \ {bottom} : hist'[k] = hist[k]
  BY <1>1, Stores
<1>3. T' = T /\ B' = v /\ \A i \in Int : latest(slot(i))' = latest(slot(i))
  BY <1>1, <1>2 DEF T, B, Last, latest, val
<1>. QED BY <1>1, <1>3, Numbers, Locations DEF Inv, ChaseLevAssumption

LEMMA BottomMoves ==
  ASSUME ChaseLevAssumption, Inv, NEW v \in Int, Store(O, bottom, v, "Relaxed"),
         pc[O] # "push_fence", pc'[O] \notin {"take_top", "push_fence"}, Open' \in Int, Open <= Open',
         \A i \in Nat : T <= i /\ v > i => i < Open',
         \A u \in Thread \ {O} : pc'[u] = pc[u] /\ reg'[u] = reg[u]
  PROVE  Memory' /\ Tops' /\ OwnerKnows' /\ Posted' /\ ThievesAim' /\ NoRace'
<1>1. /\ O \in Thread /\ bottom \in Loc /\ bottom \in Loc \ {top} /\ top \in Loc \ {bottom} /\ Memory
      /\ \A i \in Int : slot(i) \in Slots /\ slot(i) \in Loc \ {bottom}
      /\ \A u \in Thief : u \in Thread \ {O} /\ u \in Thread
  BY Locations DEF Inv
<1>2. /\ Memory' /\ UNCHANGED <<rel, sc, race>>
      /\ Last(bottom)' = Last(bottom) + 1 /\ latest(bottom)' = v
      /\ \A i \in 1..Last(bottom) : hist'[bottom][i] = hist[bottom][i]
      /\ \A k \in Loc \ {bottom} : hist'[k] = hist[k]
      /\ \A x \in Loc \ {bottom} : hist'[bottom][Last(bottom) + 1].rview[x] = rel[O][x]
      /\ cur'[O][bottom] = Last(bottom) + 1 /\ \A x \in Loc \ {bottom} : cur'[O][x] = cur[O][x]
      /\ \A u \in Thread \ {O} : cur'[u] = cur[u] /\ acq'[u] = acq[u]
  BY <1>1, Stores
<1>3. \A k \in Loc \ {bottom} : Last(k)' = Last(k) /\ latest(k)' = latest(k) /\ \A i : val(k, i)' = val(k, i)
  BY <1>2 DEF Last, latest, val
<1>4. T' = T /\ B' = v /\ T \in Nat /\ B \in Int /\ Open \in Int /\ Last(bottom) \in Nat \ {0}
  BY <1>1, BottomIs, Numbers, Ends
<1>5. Tops'
  BY <1>1, <1>2, <1>3, <1>4 DEF Inv, Tops
<1>6. OwnerKnows'
  <2>1. \A l \in Loc \ {top} : cur'[O][l] = Last(l)'
    BY <1>1, <1>2, <1>3 DEF Inv, OwnerKnows
  <2>2. \A s \in Slots : rel'[O][s] = Last(s)'
    BY <1>2, <1>3, Locations DEF Inv, OwnerKnows
  <2>. QED BY <2>1, <2>2 DEF OwnerKnows
<1>7. ASSUME NEW m \in Nat \ {0}, m <= Last(bottom), NEW i \in Nat, T <= i, Shown(m, i) PROVE Shown(m, i)'
  <2>1. SUFFICES ASSUME NEW j \in m..(Last(bottom) + 1), val(bottom, j)' > i
                 PROVE  i < Open' /\ hist'[bottom][j].rview[slot(i)] = Last(slot(i))'
    BY <1>2 DEF Shown
  <2>2. i \in Int /\ Last(slot(i))' = Last(slot(i))
    BY <1>1, <1>3
  <2>3. CASE j = Last(bottom) + 1
    <3>1. v > i
      BY <1>2, <2>1, <2>3 DEF latest
    <3>2. rel[O][slot(i)] = Last(slot(i))
      BY <1>1, <2>2 DEF Inv, OwnerKnows
    <3>. QED BY <1>1, <1>2, <1>7, <2>2, <2>3, <3>1, <3>2
  <2>4. CASE j # Last(bottom) + 1
    <3>1. j \in m..Last(bottom) /\ j \in 1..Last(bottom)
      BY <1>4, <1>7, <2>1, <2>4
    <3>2. val(bottom, j) > i /\ hist'[bottom][j] = hist[bottom][j]
      BY <1>2, <2>1, <3>1 DEF val
    <3>3. i < Open /\ hist[bottom][j].rview[slot(i)] = Last(slot(i))
      BY <1>7, <3>1, <3>2 DEF Shown
    <3>. QED BY <1>4, <2>2, <3>2, <3>3
  <2>. QED BY <2>3, <2>4
<1>8. Posted'
  <2>1. SUFFICES ASSUME NEW i \in Nat, T <= i PROVE Shown(sc[bottom], i)'
    BY <1>4 DEF Posted
  <2>2. PICK m \in Nat \ {0} : m = sc[bottom] /\ m <= Last(bottom)
    <3>1. sc[bottom] \in 1..Last(bottom)
      BY <1>1 DEF Memory, Bounded
    <3>. QED BY <1>4, <3>1
  <2>3. Shown(m, i)
    BY <2>1, <2>2 DEF Inv, Posted
  <2>4. Shown(m, i)'
    BY <1>7, <2>1, <2>2, <2>3
  <2>. QED BY <1>2, <2>2, <2>4 DEF Shown
<1>9. ThievesAim'
  <2>1. SUFFICES ASSUME NEW u \in Thief PROVE Aims(u)'
    BY DEF ThievesAim
  <2>2. /\ cur'[u] = cur[u] /\ acq'[u] = acq[u] /\ pc'[u] = pc[u] /\ reg'[u] = reg[u] /\ sc' = sc
        /\ Aims(u)
    BY <1>1, <1>2, <2>1 DEF Inv, ThievesAim
  <2>3. ASSUME Fresh(u) PROVE Fresh(u)'
    <3>1. PICK m \in Nat \ {0} : m = cur[u][bottom] /\ m <= Last(bottom)
      <4>1. cur[u][bottom] \in 1..Last(bottom)
        BY <1>1 DEF Memory, Bounded
      <4>. QED BY <1>4, <4>1
    <3>2. PICK i \in Nat : i = T
      BY <1>4
    <3>3. Shown(m, i)'
      BY <1>4, <1>7, <2>3, <3>1, <3>2 DEF Fresh
    <3>4. Shown(cur[u][bottom], T)'
      BY <1>4, <2>2, <3>1, <3>2, <3>3 DEF Shown
    <3>5. T < Open => T < Open'
      BY <1>4
    <3>6. slot(T) \in Loc \ {bottom}
      BY <1>1, <1>4
    <3>. QED BY <1>3, <1>4, <2>2, <2>3, <3>4, <3>5, <3>6 DEF Fresh
  <2>. QED BY <1>3, <1>4, <2>2, <2>3 DEF Aims, Past
<1>10. NoRace'
  BY <1>2 DEF Inv, NoRace
<1>. QED BY <1>2, <1>5, <1>6, <1>8, <1>9, <1>10

LEMMA TakeBottomStep == ASSUME ChaseLevAssumption, Inv, TakeBottom(O) PROVE Inv'
<1>1. /\ pc[O] = "take_bottom" /\ reg' = reg /\ out' = out /\ Goto(O, "take_fence") /\ reg[O].b = B - 1
      /\ Store(O, bottom, reg[O].b, "Relaxed")
  BY DEF TakeBottom, From, Inv, OwnerLocals
<1>2. PICK v \in Int : v = B - 1
  BY Numbers DEF Inv
<1>3. /\ T' = T /\ B' = v /\ \A i \in Int : latest(slot(i))' = latest(slot(i))
      /\ T \in Nat /\ B \in Int /\ O \in Thread /\ Control /\ Memory
  BY <1>1, <1>2, BottomIs
<1>4. /\ Control' /\ pc'[O] = "take_fence" /\ \A u \in Thread \ {O} : pc'[u] = pc[u] /\ reg'[u] = reg[u]
      /\ reg'[O].b = v
  <2>1. "take_fence" \in Label(O)
    BY DEF Label, OwnerLabel
  <2>. QED BY <1>1, <1>2, <1>3, <2>1, Steps DEF Control
<1>5. End = B /\ Open = B /\ End' = B /\ Open' = B
  BY <1>1, <1>2, <1>3, <1>4 DEF End, Open, Taking, Decided
<1>6. Memory' /\ Tops' /\ OwnerKnows' /\ Posted' /\ ThievesAim' /\ NoRace'
  <2>1. /\ Open' \in Int /\ Open <= Open' /\ \A i \in Nat : T <= i /\ v > i => i < Open'
        /\ Store(O, bottom, v, "Relaxed") /\ pc[O] # "push_fence" /\ pc'[O] \notin {"take_top", "push_fence"}
    BY <1>1, <1>2, <1>3, <1>4, <1>5
  <2>. QED BY <1>4, <2>1, BottomMoves
<1>7. OwnerLocals'
  BY <1>3, <1>4 DEF OwnerLocals, Taking
<1>8. Window' /\ ClaimedOnce'
  BY <1>1, <1>3, <1>5 DEF Inv, Window, ClaimedOnce
<1>9. Items'
  <2>1. \A i \in T..(End - 1) : i \in Int
    BY <1>3
  <2>. QED BY <1>1, <1>3, <1>5, <2>1 DEF Inv, Items, Claimed
<1>. QED BY <1>4, <1>6, <1>7, <1>8, <1>9 DEF Inv

LEMMA TakeRestoreStep == ASSUME ChaseLevAssumption, Inv, TakeRestore(O) PROVE Inv'
<1>1. /\ pc[O] = "take_restore" /\ reg' = reg /\ out' = out /\ Goto(O, "idle") /\ reg[O].b = B /\ T > B
      /\ Store(O, bottom, reg[O].b + 1, "Relaxed")
  BY DEF TakeRestore, From, Inv, OwnerLocals, Taking
<1>2. PICK v \in Int : v = B + 1
  BY Numbers DEF Inv
<1>3. /\ T' = T /\ B' = v /\ \A i \in Int : latest(slot(i))' = latest(slot(i))
      /\ T \in Nat /\ B \in Int /\ O \in Thread /\ Control /\ Memory
  BY <1>1, <1>2, BottomIs
<1>4. /\ Control' /\ pc'[O] = "idle" /\ \A u \in Thread \ {O} : pc'[u] = pc[u] /\ reg'[u] = reg[u]
  <2>1. "idle" \in Label(O)
    BY DEF Label, OwnerLabel
  <2>. QED BY <1>1, <1>3, <2>1, Steps DEF Control
<1>5. End = v /\ Open = v /\ End' = v /\ Open' = v
  BY <1>1, <1>2, <1>3, <1>4 DEF End, Open, Taking, Decided
<1>6. Memory' /\ Tops' /\ OwnerKnows' /\ Posted' /\ ThievesAim' /\ NoRace'
  <2>1. /\ Open' \in Int /\ Open <= Open' /\ \A i \in Nat : T <= i /\ v > i => i < Open'
        /\ Store(O, bottom, v, "Relaxed") /\ pc[O] # "push_fence" /\ pc'[O] \notin {"take_top", "push_fence"}
    BY <1>1, <1>2, <1>3, <1>4, <1>5
  <2>. QED BY <1>4, <2>1, BottomMoves
<1>7. OwnerLocals'
  BY <1>3, <1>4 DEF OwnerLocals, Taking
<1>8. Window' /\ ClaimedOnce'
  BY <1>1, <1>3, <1>5 DEF Inv, Window, ClaimedOnce
<1>9. Items'
  <2>1. \A i \in T..(End - 1) : i \in Int
    BY <1>3
  <2>. QED BY <1>1, <1>3, <1>5, <2>1 DEF Inv, Items, Claimed
<1>. QED BY <1>4, <1>6, <1>7, <1>8, <1>9 DEF Inv

LEMMA PushPublishStep == ASSUME ChaseLevAssumption, Inv, PushPublish(O) PROVE Inv'
<1>1. /\ pc[O] = "push_bottom" /\ reg' = reg /\ out' = [out EXCEPT !.pushed = @ + 1] /\ Goto(O, "idle")
      /\ reg[O].b = B /\ B - T < N /\ latest(slot(B)) = out.pushed + 1
      /\ Store(O, bottom, reg[O].b + 1, "Relaxed")
  BY DEF PushPublish, From, Inv, OwnerLocals
<1>2. PICK v \in Int : v = B + 1
  BY Numbers DEF Inv
<1>3. /\ T' = T /\ B' = v /\ \A i \in Int : latest(slot(i))' = latest(slot(i))
      /\ T \in Nat /\ B \in Int /\ O \in Thread /\ Control /\ Memory
  BY <1>1, <1>2, BottomIs
<1>4. /\ out.pushed \in Nat /\ out.got \in Seq(Int)
      /\ out'.pushed = out.pushed + 1 /\ out'.got = out.got /\ out' \in [pushed : Nat, got : Seq(Int)]
  <2>1. out \in [pushed : Nat, got : Seq(Int)]
    BY <1>3 DEF Control
  <2>2. PICK n \in Nat : n = out.pushed + 1
    BY <2>1
  <2>3. out' = [out EXCEPT !.pushed = n]
    BY <1>1, <2>2
  <2>. QED BY <2>1, <2>2, <2>3
<1>5. /\ Control' /\ pc'[O] = "idle" /\ \A u \in Thread \ {O} : pc'[u] = pc[u] /\ reg'[u] = reg[u]
  <2>1. "idle" \in Label(O)
    BY DEF Label, OwnerLabel
  <2>. QED BY <1>1, <1>3, <1>4, <2>1, Steps DEF Control
<1>6. End = B /\ Open = B /\ End' = v /\ Open' = v
  BY <1>1, <1>2, <1>3, <1>5 DEF End, Open, Taking, Decided
<1>7. Memory' /\ Tops' /\ OwnerKnows' /\ Posted' /\ ThievesAim' /\ NoRace'
  <2>1. /\ Open' \in Int /\ Open <= Open' /\ \A i \in Nat : T <= i /\ v > i => i < Open'
        /\ Store(O, bottom, v, "Relaxed") /\ pc[O] # "push_fence" /\ pc'[O] \notin {"take_top", "push_fence"}
    BY <1>1, <1>2, <1>3, <1>5, <1>6
  <2>. QED BY <1>5, <2>1, BottomMoves
<1>8. OwnerLocals'
  BY <1>3, <1>5 DEF OwnerLocals, Taking
<1>9. Window'
  <2>1. N \in Nat
    BY DEF ChaseLevAssumption
  <2>. QED BY <1>1, <1>2, <1>3, <1>6, <2>1 DEF Inv, Window
<1>10. ClaimedOnce'
  <2>1. \A k \in DOMAIN out.got : out.got[k] \in 1..(out.pushed + 1)
    BY <1>4 DEF Inv, ClaimedOnce
  <2>. QED BY <1>4, <2>1 DEF Inv, ClaimedOnce
<1>11. Items'
  <2>. DEFINE L(i) == latest(slot(i))
  <2>1. /\ \A i \in T..(B - 1) : L(i) \in 1..out.pushed /\ ~Claimed(L(i))
        /\ \A i, j \in T..(B - 1) : i < j => L(i) < L(j)
        /\ \A w \in 1..out.pushed : Claimed(w) \/ \E i \in T..(B - 1) : L(i) = w
    BY <1>6 DEF Inv, Items
  <2>2. \A w : Claimed(w)' <=> Claimed(w)
    BY <1>4 DEF Claimed
  <2>3. ~Claimed(out.pushed + 1)
    <3>1. \A k \in DOMAIN out.got : out.got[k] \in 1..out.pushed
      BY DEF Inv, ClaimedOnce
    <3>2. DOMAIN out.got = 1..Len(out.got)
      BY <1>4
    <3>. QED BY <1>4, <3>1, <3>2 DEF Claimed
  <2>4. L(B) = out.pushed + 1 /\ B \in T..(v - 1) /\ (v - 1) = B
    BY <1>1, <1>2, <1>3, <1>6 DEF Inv, Window
  <2>5. \A i \in T..B : i \in Int /\ (i = B \/ i \in T..(B - 1))
    BY <1>3
  <2>6. \A i \in T..(v - 1) : L(i)' = L(i)
    BY <1>3
  <2>. HIDE DEF L
  <2>7. \A i \in T..B : L(i) \in 1..(out.pushed + 1) /\ ~Claimed(L(i))
    BY <1>4, <2>1, <2>3, <2>4, <2>5
  <2>8. \A i, j \in T..B : i < j => L(i) < L(j)
    <3>1. SUFFICES ASSUME NEW i \in T..B, NEW j \in T..B, i < j PROVE L(i) < L(j)
      OBVIOUS
    <3>2. i \in T..(B - 1)
      BY <1>3, <3>1
    <3>3. CASE j = B
      BY <1>4, <2>1, <2>4, <3>2, <3>3
    <3>4. CASE j # B
      BY <2>1, <2>5, <3>1, <3>2, <3>4
    <3>. QED BY <3>3, <3>4
  <2>9. \A w \in 1..(out.pushed + 1) : Claimed(w) \/ \E i \in T..B : L(i) = w
    <3>1. SUFFICES ASSUME NEW w \in 1..(out.pushed + 1), ~Claimed(w) PROVE \E i \in T..B : L(i) = w
      OBVIOUS
    <3>2. CASE w = out.pushed + 1
      BY <2>4, <3>2
    <3>3. CASE w # out.pushed + 1
      <4>1. w \in 1..out.pushed
        BY <1>4, <3>1, <3>3
      <4>2. PICK i \in T..(B - 1) : L(i) = w
        BY <2>1, <3>1, <4>1
      <4>. QED BY <1>3, <4>2
    <3>. QED BY <3>2, <3>3
  <2>10. (End - 1)' = B /\ T' = T /\ out'.pushed = out.pushed + 1
    BY <1>3, <1>4, <1>6, <2>4
  <2>. QED BY <2>2, <2>4, <2>6, <2>7, <2>8, <2>9, <2>10 DEF Items, L
<1>. QED BY <1>5, <1>7, <1>8, <1>9, <1>10, <1>11 DEF Inv

(* The owner stores a value in a free slot, which nothing shows yet.       *)
LEMMA PushSlotStep == ASSUME ChaseLevAssumption, Inv, PushSlot(O) PROVE Inv'
<1>1. PICK s : s = slot(B)
  OBVIOUS
<1>2. /\ pc[O] = "push_slot" /\ reg' = reg /\ out' = out /\ Goto(O, "push_fence")
      /\ reg[O].b = B /\ B - T < N
      /\ Store(O, s, out.pushed + 1, "Relaxed")
  BY <1>1 DEF PushSlot, From, Inv, OwnerLocals
<1>3. /\ O \in Thread /\ top \in Loc /\ bottom \in Loc /\ bottom # top /\ Memory /\ Control
      /\ s \in Loc \ {top, bottom} /\ \A i \in Int : slot(i) \in Loc \ {top, bottom}
      /\ \A u \in Thief : u \in Thread \ {O} /\ u \in Thread
      /\ T \in Nat /\ B \in Int /\ Last(s) \in Nat /\ N \in Nat
  BY <1>1, Locations, Numbers DEF Inv, ChaseLevAssumption
<1>4. PICK v \in Int : v = out.pushed + 1 /\ Store(O, s, v, "Relaxed")
  BY <1>2, <1>3 DEF Control
<1>5. /\ Memory' /\ UNCHANGED <<rel, sc, race>>
      /\ Last(s)' = Last(s) + 1 /\ latest(s)' = v
      /\ \A k \in Loc \ {s} : hist'[k] = hist[k]
      /\ cur'[O][s] = Last(s) + 1 /\ \A x \in Loc \ {s} : cur'[O][x] = cur[O][x]
      /\ \A u \in Thread \ {O} : cur'[u] = cur[u] /\ acq'[u] = acq[u]
  BY <1>3, <1>4, Stores
<1>6. \A k \in Loc \ {s} : Last(k)' = Last(k) /\ latest(k)' = latest(k) /\ \A i : val(k, i)' = val(k, i)
  BY <1>5 DEF Last, latest, val
<1>7. T' = T /\ B' = B
  BY <1>3, <1>6 DEF T, B
<1>8. ASSUME NEW i \in Int, T <= i, i < B PROVE slot(i) \in Loc \ {s}
  <2>1. B - i < N
    BY <1>2, <1>3, <1>8
  <2>. QED BY <1>1, <1>3, <1>8, <2>1, SlotsDiffer
<1>9. latest(slot(B))' = v
  BY <1>1, <1>5, <1>7
<1>10. /\ Control' /\ pc'[O] = "push_fence" /\ \A u \in Thread \ {O} : pc'[u] = pc[u] /\ reg'[u] = reg[u]
  <2>1. "push_fence" \in Label(O)
    BY DEF Label, OwnerLabel
  <2>. QED BY <1>2, <1>3, <2>1, Steps DEF Control
<1>11. End = B /\ Open = B /\ End' = B /\ Open' = B
  BY <1>2, <1>7, <1>10 DEF End, Open, Taking, Decided
<1>12. Tops'
  BY <1>3, <1>5, <1>6, <1>7 DEF Inv, Tops
<1>13. OwnerKnows'
  <2>1. \A l \in Loc \ {top} : cur'[O][l] = Last(l)'
    BY <1>5, <1>6 DEF Inv, OwnerKnows
  <2>. QED BY <1>10, <2>1 DEF OwnerKnows
<1>14. OwnerLocals'
  BY <1>2, <1>4, <1>7, <1>9, <1>10 DEF OwnerLocals, Taking
<1>15. Window' /\ ClaimedOnce' /\ NoRace'
  BY <1>2, <1>5, <1>7, <1>11 DEF Inv, Window, ClaimedOnce, NoRace
<1>16. Items'
  <2>1. \A i \in T..(End - 1) : latest(slot(i))' = latest(slot(i))
    <3>1. \A i \in T..(End - 1) : i \in Int /\ T <= i /\ i < B
      BY <1>3, <1>11
    <3>. QED BY <1>6, <1>8, <3>1
  <2>. QED BY <1>2, <1>7, <1>11, <2>1 DEF Inv, Items, Claimed
<1>17. ASSUME NEW m, NEW i \in Nat, T <= i, Shown(m, i) PROVE Shown(m, i)'
  <2>1. SUFFICES ASSUME NEW j \in m..Last(bottom), val(bottom, j) > i
                 PROVE  i < Open' /\ hist'[bottom][j].rview[slot(i)] = Last(slot(i))'
    BY <1>3, <1>6 DEF Shown
  <2>2. i < Open /\ hist[bottom][j].rview[slot(i)] = Last(slot(i))
    BY <1>17, <2>1 DEF Shown
  <2>3. Last(slot(i))' = Last(slot(i))
    BY <1>6, <1>8, <1>11, <1>17, <2>2
  <2>. QED BY <1>3, <1>5, <1>11, <2>2, <2>3
<1>18. Posted'
  <2>1. SUFFICES ASSUME NEW i \in Nat, T <= i PROVE Shown(sc[bottom], i)'
    BY <1>7 DEF Posted
  <2>2. PICK m : m = sc[bottom]
    OBVIOUS
  <2>3. Shown(m, i)
    BY <2>1, <2>2 DEF Inv, Posted
  <2>4. Shown(m, i)'
    BY <1>17, <2>1, <2>3
  <2>. QED BY <1>5, <2>2, <2>4 DEF Shown
<1>19. ThievesAim'
  <2>1. SUFFICES ASSUME NEW u \in Thief PROVE Aims(u)'
    BY DEF ThievesAim
  <2>2. /\ cur'[u] = cur[u] /\ acq'[u] = acq[u] /\ pc'[u] = pc[u] /\ reg'[u] = reg[u] /\ sc' = sc
        /\ Aims(u)
    BY <1>3, <1>5, <1>10, <2>1 DEF Inv, ThievesAim
  <2>3. ASSUME Fresh(u) PROVE Fresh(u)'
    <3>1. PICK m : m = cur[u][bottom]
      OBVIOUS
    <3>2. PICK i \in Nat : i = T
      BY <1>3
    <3>3. Shown(m, i)'
      BY <1>3, <1>17, <2>3, <3>1, <3>2 DEF Fresh
    <3>4. Shown(cur[u][bottom], T)'
      BY <1>7, <2>2, <3>1, <3>2, <3>3 DEF Shown
    <3>5. T < Open => slot(T) \in Loc \ {s}
      BY <1>3, <1>8, <1>11
    <3>. QED BY <1>3, <1>6, <1>7, <1>10, <1>11, <2>2, <2>3, <3>4, <3>5 DEF Fresh
  <2>. QED BY <1>6, <1>7, <1>3, <2>2, <2>3 DEF Aims, Past
<1>. QED BY <1>5, <1>10, <1>12, <1>13, <1>14, <1>15, <1>16, <1>18, <1>19 DEF Inv

-----------------------------------------------------------------------------
LEMMA InitInv == ASSUME ChaseLevAssumption, Init PROVE Inv
<1>1. /\ hist = [l \in Loc |-> <<[val |-> 0, rview |-> bot]>>]
      /\ cur = [th \in Thread |-> bot] /\ acq = [th \in Thread |-> bot]
      /\ rel = [th \in Thread |-> bot] /\ sc = bot /\ race = FALSE
      /\ pc = [th \in Thread |-> "idle"] /\ reg = [th \in Thread |-> [x \in Local |-> 0]]
      /\ out = [pushed |-> 0, got |-> <<>>]
  BY DEF Init, CoreInit, WMInit, initMem, Local
<1>2. bot \in View /\ \A x \in Loc : bot[x] = 1
  BY Locations DEF bot, View
<1>3. \A l \in Loc : /\ hist[l] = <<[val |-> 0, rview |-> bot]>> /\ Last(l) = 1
                     /\ \A i \in 1..1 : hist[l][i] = [val |-> 0, rview |-> bot] /\ val(l, i) = 0
  <2>1. \A i \in 1..1 : i = 1
    OBVIOUS
  <2>. QED BY <1>1, <2>1 DEF Last, val
<1>4. Bounded(bot)
  BY <1>2, <1>3 DEF Bounded
<1>5. Memory
  <2>1. [val |-> 0, rview |-> bot] \in Message
    BY <1>2 DEF Message
  <2>2. hist \in [Loc -> Seq(Message)] /\ \A l \in Loc : hist[l] # <<>>
    BY <1>1, <1>3, <2>1
  <2>. QED BY <1>1, <1>2, <1>3, <1>4, <2>2 DEF Memory
<1>6. /\ O \in Thread /\ top \in Loc /\ bottom \in Loc
      /\ pc[O] = "idle" /\ \A th \in Thief : th \in Thread /\ pc[th] = "idle"
  BY <1>1, Locations
<1>7. Control
  BY <1>1, <1>6 DEF Control, OwnerLabel, ThiefLabel
<1>8. T = 0 /\ B = 0 /\ End = 0 /\ Open = 0
  BY <1>3, <1>6 DEF T, B, latest, End, Open, Taking, Decided
<1>9. Tops /\ OwnerKnows
  BY <1>1, <1>2, <1>3, <1>6, <1>8, Locations DEF Tops, OwnerKnows
<1>10. OwnerLocals /\ Window
  BY <1>6, <1>8 DEF OwnerLocals, Taking, Window, ChaseLevAssumption
<1>11. Items /\ ClaimedOnce
  BY <1>1, <1>8 DEF Items, ClaimedOnce
<1>12. Posted
  BY <1>1, <1>2, <1>3, <1>6 DEF Posted, Shown
<1>13. ThievesAim /\ NoRace
  BY <1>1, <1>6 DEF ThievesAim, Aims, Past, NoRace
<1>. QED BY <1>5, <1>7, <1>9, <1>10, <1>11, <1>12, <1>13 DEF Inv

LEMMA NextInv == ASSUME ChaseLevAssumption, Inv, [Next]_state PROVE Inv'
<1>1. CASE UNCHANGED state
  <2>1. /\ hist' = hist /\ cur' = cur /\ acq' = acq /\ rel' = rel /\ sc' = sc /\ race' = race
        /\ pc' = pc /\ reg' = reg /\ out' = out
    BY <1>1 DEF state, wm
  <2>2. /\ T' = T /\ B' = B
        /\ \A l : Last(l)' = Last(l) /\ latest(l)' = latest(l) /\ \A i : val(l, i)' = val(l, i)
    BY <2>1, SameMemory
  <2>3. End' = End /\ Open' = Open /\ (Taking' <=> Taking) /\ \A th : Past(th)' <=> Past(th)
    BY <2>1, <2>2 DEF End, Open, Taking, Decided, Past
  <2>4. Memory' /\ Control' /\ Tops' /\ OwnerKnows' /\ OwnerLocals' /\ Window'
    BY <2>1, <2>2, <2>3 DEF Inv, Memory, Bounded, Control, Tops, OwnerKnows, OwnerLocals, Window
  <2>5. Items' /\ ClaimedOnce' /\ NoRace'
    BY <2>1, <2>2, <2>3 DEF Inv, Items, Claimed, ClaimedOnce, NoRace
  <2>6. \A m, i : Shown(m, i) => Shown(m, i)'
    BY <2>1, <2>2, <2>3 DEF Shown
  <2>7. Posted'
    BY <2>1, <2>2, <2>6 DEF Inv, Posted, Shown
  <2>8. \A th : Fresh(th) => Fresh(th)'
    BY <2>1, <2>2, <2>3 DEF Fresh, Shown
  <2>9. ThievesAim'
    BY <2>1, <2>2, <2>3, <2>8 DEF Inv, ThievesAim, Aims
  <2>. QED BY <2>4, <2>5, <2>7, <2>9 DEF Inv
<1>2. CASE Push(Owner)
  BY <1>2, PushBottomStep, PushTopStep, PushSlotStep, PushFenceStep, PushPublishStep DEF Push, O
<1>3. CASE Take(Owner)
  BY <1>3, TakeLoadStep, TakeBottomStep, TakeFenceStep, TakeTopStep, TakeSlotStep, TakeCasStep,
     TakeRestoreStep DEF Take, O
<1>4. ASSUME NEW th \in Thief, Steal(th) PROVE Inv'
  BY <1>4, StealTopStep, StealFenceStep, StealBottomStep, StealSlotStep, StealCasStep DEF Steal
<1>. QED BY <1>1, <1>2, <1>3, <1>4 DEF Next

(* Inv holds in every state (chase_lev.rs:41-88).                         *)
LEMMA Inductive == ASSUME ChaseLevAssumption PROVE Spec => []Inv
BY InitInv, NextInv, PTL DEF Spec

(* While the owner is at rest, the values from top to bottom are those     *)
(* pushed and not claimed.                                                 *)
LEMMA AtRest == ASSUME ChaseLevAssumption, Inv PROVE NothingLost
<1>1. /\ Memory /\ T \in Nat /\ B \in Int /\ latest(top) = T /\ out.pushed \in Nat
      /\ Last(top) \in Nat \ {0} /\ out.got \in Seq(Int)
  <2>1. Memory /\ top \in Loc /\ Control
    BY Locations DEF Inv
  <2>2. Last(top) \in Nat \ {0}
    BY <2>1, Numbers
  <2>3. latest(top) = T
    BY <2>2 DEF Inv, Tops, latest, T
  <2>. QED BY <2>1, <2>2, <2>3, Numbers DEF Control
<1>2. SUFFICES ASSUME pc[Owner] = "idle"
               PROVE  /\ {v \in 1..out.pushed : \A k \in DOMAIN out.got : out.got[k] # v}
                           = {latest(slot(i)) : i \in T..(B - 1)}
                      /\ \A i, j \in T..(B - 1) : i < j => latest(slot(i)) < latest(slot(j))
  BY <1>1 DEF NothingLost, B
<1>3. End = B
  BY <1>2 DEF End, Taking, O
<1>4. \A v : Claimed(v) <=> \E k \in DOMAIN out.got : out.got[k] = v
  BY <1>1 DEF Claimed
<1>. QED BY <1>3, <1>4 DEF Inv, Items

(* Each value that is pushed is claimed by one thread at most, and while   *)
(* the owner is at rest those that nobody claimed are in the slots, in     *)
(* order, for every capacity, number of thieves and number of calls: with  *)
(* a fence in take and in steal, the CAS of top decides for the last item  *)
(* and no slot is reused before it is free (chase_lev.rs:41-88).          *)
THEOREM Correct == ASSUME ChaseLevAssumption PROVE Spec => []DequeClaimedOnce
<1>1. Inv => DequeClaimedOnce
  BY AtRest, Locations DEF Inv, OwnerKnows, StoresAreLatest, DequeClaimedOnce, O
<1>. QED BY <1>1, Inductive, PTL
=============================================================================
