---------------------------- MODULE TreiberProofs ----------------------------
(***************************************************************************)
(* The Treiber stack in the view-based memory, for any set of nodes, that  *)
(* the allocator may hand out again, any number of pushers and of calls:   *)
(* no race, no use after free, every node in one place, and a stack.       *)
(***************************************************************************)
EXTENDS Treiber, Integers, SequenceTheorems, FiniteSetTheorems, WellFoundedInduction, TLAPS

P == Popper
Item == (Pusher \X Nat) \cup {Null}
Record == [val : Item, next : Node \cup {Null}]
Message == [val : Node \cup {Null} \cup Record, rview : View]
PushLabel == {"idle", "push_load", "push_link", "push_cas"}
PopLabel == {"idle", "pop_load", "pop_next", "pop_val", "pop_cas"}
Local == {"n", "h", "next", "v"}
Datum == {0} \cup Node \cup {Null} \cup Item

(* A view of messages there are.                                           *)
Bounded(V) ==
  /\ V \in View
  /\ \A l \in Loc : V[l] \in 1..Last(l)
  /\ \A c \in Cell : V[ReadOf(c)] <= reads[c]

(* V knows all that was done with the memory of node n.                    *)
Knows(V, n) == V[node(n)] = Last(node(n)) /\ V[ReadOf(node(n))] = reads[node(n)]

Memory ==
  /\ hist \in [Loc -> Seq(Message)] /\ \A l \in Loc : hist[l] # <<>>
  /\ \A i \in 1..Last(head) : val(head, i) \in Node \cup {Null} /\ Bounded(hist[head][i].rview)
  /\ \A n \in Node : latest(node(n)) \in Record
  /\ cur \in [Thread -> View] /\ \A th \in Thread : Bounded(cur[th])
  /\ rel = [th \in Thread |-> bot]
  /\ reads \in [Cell -> Nat \ {0}]

Control ==
  /\ pc[P] \in PopLabel /\ \A th \in Pusher : pc[th] \in PushLabel
  /\ pc \in [Thread -> PushLabel \cup PopLabel]
  /\ reg \in [Thread -> [Local -> Datum]]
  /\ calls \in [Thread -> Nat]
  /\ out \in [free : [Node -> View \cup {NotFree}], got : Seq(Item)]

(* A pusher that has a node is alone in knowing of it, and knows all of    *)
(* it; so does the view under which a free node was freed.                 *)
Holds(th) == pc[th] \in {"push_load", "push_link", "push_cas"}
Owns(th) ==
  LET n == reg[th].n IN
  /\ n \in Node /\ ~Free(n) /\ Knows(cur[th], n)
  /\ latest(node(n)).val = <<th, calls[th]>>
  /\ pc[th] \in {"push_link", "push_cas"} => reg[th].h \in Node \cup {Null}
  /\ pc[th] = "push_cas" => latest(node(n)).next = reg[th].h
Owners ==
  /\ \A th \in Pusher : Holds(th) => Owns(th)
  /\ \A th, u \in Pusher : Holds(th) /\ Holds(u) /\ reg[th].n = reg[u].n => th = u
  /\ \A n \in Node : Free(n) => Bounded(out.free[n]) /\ Knows(out.free[n], n)

(* The popper alone reads nodes.  That of the head it has read is written, *)
(* and stays as it was read.                                               *)
Looks == pc[P] \in {"pop_next", "pop_val", "pop_cas"}
Pops ==
  /\ \A n \in Node : cur[P][ReadOf(node(n))] = reads[node(n)]
  /\ Looks => LET n == reg[P].h IN
       /\ n \in Node /\ cur[P][node(n)] = Last(node(n))
       /\ pc[P] # "pop_next" => reg[P].next = latest(node(n)).next
       /\ pc[P] = "pop_cas" => reg[P].v = latest(node(n)).val

(* The linked nodes S, from the bottom up.  A head that the popper may     *)
(* still read was installed after its last pop, by pushes only: it is in   *)
(* the stack, and releases the writes of all nodes from there down.        *)
Top(S, d) == IF d = 0 THEN Null ELSE S[d]
Depth(S, i) == Len(S) - (Last(head) - i)
Installed(S, i) ==
  /\ Depth(S, i) >= 0 /\ val(head, i) = Top(S, Depth(S, i))
  /\ \A k \in 1..Depth(S, i) : hist[head][i].rview[node(S[k])] = Last(node(S[k]))
Stacked(S) ==
  /\ S \in Seq(Node) /\ Len(S) < Last(head)
  /\ \A j, k \in 1..Len(S) : S[j] = S[k] => j = k
  /\ \A k \in 1..Len(S) :
       /\ ~Free(S[k]) /\ latest(node(S[k])).next = Top(S, k - 1)
       /\ \A th \in Pusher : Holds(th) => reg[th].n # S[k]
  /\ \A n \in Node :
       \/ Free(n) \/ \E th \in Pusher : Holds(th) /\ reg[th].n = n
       \/ \E k \in 1..Len(S) : S[k] = n
  /\ \A i \in cur[P][head]..Last(head) : Installed(S, i)
  /\ Looks => \E k \in 1..Len(S) : S[k] = reg[P].h

Inv(S) == Memory /\ Control /\ NoRace /\ Owners /\ Pops /\ Stacked(S)

-----------------------------------------------------------------------------
LEMMA Locations ==
  /\ Loc = {head} \cup Cell /\ head \notin Cell
  /\ \A n \in Node : node(n) \in Cell /\ node(n) # head
  /\ \A c \in Cell : ReadOf(c) \in Clock /\ ReadOf(c) \notin Loc
  /\ \A m, n \in Node : node(m) = node(n) => m = n
  /\ \A c, d \in Cell : ReadOf(c) = ReadOf(d) => c = d
  /\ Clock = Loc \cup {ReadOf(c) : c \in Cell}
  /\ P \in Thread /\ Pusher \subseteq Thread /\ \A th \in Thread : th # P => th \in Pusher
BY DEF Loc, head, node, Cell, ReadOf, Clock, P, Thread

LEMMA Numbers ==
  ASSUME Memory
  PROVE  /\ \A l \in Loc : Last(l) \in Nat \ {0} /\ hist[l][Last(l)] \in Message
         /\ \A c \in Cell : reads[c] \in Nat \ {0}
         /\ bot \in View /\ Bounded(bot)
<1>1. \A l \in Loc : Last(l) \in Nat \ {0} /\ hist[l][Last(l)] \in Message
  BY DEF Memory, Last
<1>2. \A c \in Cell : reads[c] \in Nat \ {0}
  BY DEF Memory
<1>3. bot \in View
  BY DEF bot, View
<1>4. \A x \in Clock : bot[x] = 1
  BY DEF bot
<1>. QED BY <1>1, <1>2, <1>3, <1>4, Locations DEF Bounded

(* What a load, or knowing of one more message, adds to a view.            *)
LEMMA Joined ==
  ASSUME Memory, NEW V, NEW U, Bounded(V), Bounded(U)
  PROVE  /\ Bounded(join(V, U))
         /\ \A x \in Clock : join(V, U)[x] = IF V[x] < U[x] THEN U[x] ELSE V[x]
BY Locations DEF Bounded, join, View

LEMMA Seen ==
  ASSUME Memory, NEW V, NEW l \in Loc, NEW i \in 1..Last(l), Bounded(V)
  PROVE  /\ Bounded(seen(V, l, i))
         /\ seen(V, l, i)[l] = IF V[l] < i THEN i ELSE V[l]
         /\ \A x \in Clock \ {l} : seen(V, l, i)[x] = V[x]
<1>1. Last(l) \in Nat
  BY Numbers
<1>. QED BY <1>1, Locations DEF Bounded, seen, View

(* A thread reads message i of the head.                                   *)
LEMMA Loaded ==
  ASSUME Memory, NEW th \in Thread, NEW i \in canLoad(th, head), NEW o \in {"Relaxed", "Acquire"},
         NEW V, V = loadView(cur[th], head, i, o)
  PROVE  /\ i \in 1..Last(head) /\ cur[th][head] <= i
         /\ Bounded(V) /\ \A x \in Clock : cur[th][x] <= V[x]
         /\ o = "Acquire" => \A x \in Clock : hist[head][i].rview[x] <= V[x]
<1>1. head \in Loc /\ Bounded(cur[th])
  BY Locations DEF Memory
<1>2. i \in 1..Last(head) /\ cur[th][head] <= i
  BY <1>1, Numbers DEF canLoad, Bounded
<1>3. /\ Bounded(seen(cur[th], head, i))
      /\ \A x \in Clock : cur[th][x] <= seen(cur[th], head, i)[x]
  <2>1. /\ Bounded(seen(cur[th], head, i))
        /\ seen(cur[th], head, i)[head] = IF cur[th][head] < i THEN i ELSE cur[th][head]
        /\ \A x \in Clock \ {head} : seen(cur[th], head, i)[x] = cur[th][x]
    BY <1>1, <1>2, Seen
  <2>2. \A x \in Clock : cur[th][x] \in Nat
    BY <1>1 DEF Bounded, View
  <2>. QED BY <1>2, <2>1, <2>2
<1>4. CASE o = "Relaxed"
  BY <1>2, <1>3, <1>4 DEF loadView, Acquires
<1>5. CASE o = "Acquire"
  <2>1. V = join(seen(cur[th], head, i), hist[head][i].rview)
    BY <1>5 DEF loadView, Acquires
  <2>2. Bounded(hist[head][i].rview)
    BY <1>2 DEF Memory
  <2>3. \A x \in Clock : seen(cur[th], head, i)[x] \in Nat /\ hist[head][i].rview[x] \in Nat /\ cur[th][x] \in Nat
    BY <1>1, <1>3, <2>2 DEF Bounded, View
  <2>4. /\ Bounded(V)
        /\ \A x \in Clock : V[x] = IF seen(cur[th], head, i)[x] < hist[head][i].rview[x]
                                     THEN hist[head][i].rview[x] ELSE seen(cur[th], head, i)[x]
    BY <1>3, <2>1, <2>2, Joined
  <2>. QED BY <1>2, <1>3, <2>3, <2>4
<1>. QED BY <1>4, <1>5

(* What a load leaves alone: all but one view, which grows.                *)
Grown(th, V) ==
  /\ cur' = [cur EXCEPT ![th] = V] /\ Bounded(V) /\ \A x \in Clock : cur[th][x] <= V[x]
  /\ UNCHANGED <<hist, rel, reads, race, out>>

LEMMA Quiet ==
  ASSUME NEW S, Inv(S), NEW th \in Thread, NEW V, Grown(th, V)
  PROVE  /\ Memory' /\ NoRace' /\ cur'[th] = V
         /\ \A u \in Thread, n \in Node : Knows(cur[u], n) => Knows(cur[u], n)'
         /\ \A u \in Thread, n \in Node : cur[u][node(n)] = Last(node(n)) => cur'[u][node(n)] = Last(node(n))'
         /\ \A n \in Node : Free(n) => Bounded(out.free[n])' /\ Knows(out.free[n], n)'
         /\ \A n \in Node : cur'[P][ReadOf(node(n))] = reads'[node(n)]
         /\ \A i \in cur'[P][head]..Last(head)' : Installed(S, i)'
<1>. /\ hist' = hist /\ rel' = rel /\ reads' = reads /\ race' = race /\ out' = out
     /\ cur' = [cur EXCEPT ![th] = V] /\ Bounded(V)
  BY DEF Grown
<1>1. \A W : Bounded(W) => Bounded(W)'
  BY DEF Bounded, Last
<1>2. /\ cur' \in [Thread -> View] /\ cur'[th] = V /\ \A u \in Thread : u # th => cur'[u] = cur[u]
  BY DEF Inv, Memory, Bounded
<1>3. \A u \in Thread : Bounded(cur[u])'
  BY <1>1, <1>2 DEF Inv, Memory, Bounded, Last
<1>4. Memory'
  BY <1>2, <1>3 DEF Inv, Memory, Bounded, Last, val, latest
<1>5. \A u \in Thread, x \in Clock : /\ cur[u][x] \in Nat /\ cur'[u][x] \in Nat
                                     /\ cur[u][x] <= cur'[u][x]
  BY <1>2 DEF Inv, Memory, View, Grown, Bounded
<1>6. \A u \in Thread, l \in Loc : cur'[u][l] <= Last(l) /\ Last(l) \in Nat
  BY <1>3, Numbers DEF Bounded, Last, Inv
<1>7. \A u \in Thread, c \in Cell : cur'[u][ReadOf(c)] <= reads[c] /\ reads[c] \in Nat
  BY <1>3, Numbers DEF Bounded, Inv
<1>8. \A u \in Thread, n \in Node : cur[u][node(n)] = Last(node(n)) => cur'[u][node(n)] = Last(node(n))
  BY <1>5, <1>6, Locations
<1>9. \A u \in Thread, n \in Node :
        cur[u][ReadOf(node(n))] = reads[node(n)] => cur'[u][ReadOf(node(n))] = reads[node(n)]
  BY <1>5, <1>7, Locations
<1>10. \A i \in cur'[P][head]..Last(head) : i \in cur[P][head]..Last(head)
  BY <1>5, <1>6, Locations
<1>11. \A i \in cur'[P][head]..Last(head)' : Installed(S, i)'
  BY <1>10 DEF Inv, Stacked, Installed, Depth, Last, val
<1>12. NoRace'
  BY DEF Inv, NoRace
<1>13. \A n \in Node : Free(n) => Bounded(out.free[n])' /\ Knows(out.free[n], n)'
  BY <1>1 DEF Inv, Owners, Knows, Last
<1>14. \A u \in Thread, n \in Node : Knows(cur[u], n) => Knows(cur[u], n)'
  BY <1>8, <1>9 DEF Knows, Last
<1>15. \A n \in Node : cur'[P][ReadOf(node(n))] = reads'[node(n)]
  BY <1>9, Locations DEF Inv, Pops
<1>. QED BY <1>2, <1>4, <1>8, <1>11, <1>12, <1>13, <1>14, <1>15 DEF Last

-----------------------------------------------------------------------------
(* The nodes stay where they are as long as none is linked or handed over. *)
LEMMA StackStays ==
  ASSUME NEW S, Stacked(S), UNCHANGED <<hist, out>>,
         \A th \in Pusher : (Holds(th)' <=> Holds(th)) /\ reg'[th].n = reg[th].n,
         \A i \in cur'[P][head]..Last(head)' : Installed(S, i)',
         Looks' => \E k \in 1..Len(S) : S[k] = reg'[P].h
  PROVE  Stacked(S)'
<1>1. S \in Seq(Node) /\ Len(S) < Last(head)' /\ \A j, k \in 1..Len(S) : S[j] = S[k] => j = k
  BY DEF Stacked, Last
<1>2. ASSUME NEW k \in 1..Len(S)
      PROVE  /\ ~Free(S[k])' /\ latest(node(S[k]))'.next = Top(S, k - 1)
             /\ \A th \in Pusher : Holds(th)' => reg'[th].n # S[k]
  BY DEF Stacked, Free, latest, val, Last
<1>3. ASSUME NEW n \in Node
      PROVE  \/ Free(n)' \/ \E th \in Pusher : Holds(th)' /\ reg'[th].n = n
             \/ \E k \in 1..Len(S) : S[k] = n
  BY DEF Stacked, Free
<1>. QED BY <1>1, <1>2, <1>3 DEF Stacked

(* A pusher that has read the head, or failed to replace it.               *)
LEMMA PusherLoads ==
  ASSUME TreiberAssumption, NEW S, Inv(S), NEW th \in Pusher, NEW V, Grown(th, V), Holds(th),
         NEW l \in {"push_load", "push_link"}, Goto(th, l), calls' = calls,
         NEW h \in Node \cup {Null},
         IF l = "push_link" THEN Set(th, "h", h) ELSE reg' = reg
  PROVE  Inv(S)'
<1>. /\ th \in Thread /\ P \in Thread /\ th # P /\ Pusher \subseteq Thread
     /\ hist' = hist /\ rel' = rel /\ reads' = reads /\ race' = race /\ out' = out
  BY Locations DEF Grown, TreiberAssumption, P
<1>1. /\ pc' = [pc EXCEPT ![th] = l] /\ pc'[th] = l /\ \A u \in Thread : u # th => pc'[u] = pc[u]
  BY DEF Goto, Inv, Control
<1>2. /\ reg' \in [Thread -> [Local -> Datum]] /\ reg'[th].n = reg[th].n
      /\ l = "push_link" => reg'[th].h = h
      /\ \A u \in Thread : u # th => reg'[u] = reg[u]
  <2>1. CASE l = "push_link"
    <3>1. reg' = [reg EXCEPT ![th] = [reg[th] EXCEPT !["h"] = h]]
      BY <2>1 DEF Set
    <3>2. reg[th] \in [Local -> Datum] /\ h \in Datum
      BY DEF Inv, Control, Datum
    <3>. QED BY <3>1, <3>2 DEF Inv, Control, Local
  <2>2. CASE l # "push_link"
    BY <2>2 DEF Inv, Control
  <2>. QED BY <2>1, <2>2
<1>3. Control'
  BY <1>1, <1>2 DEF Inv, Control, PushLabel, PopLabel, TreiberAssumption, P
<1>4. \A u \in Pusher : /\ Holds(u)' <=> Holds(u)
                        /\ u \in Thread /\ reg'[u].n = reg[u].n
  BY <1>1, <1>2, Locations DEF Holds
<1>5. /\ Memory' /\ NoRace' /\ cur'[th] = V
      /\ \A u \in Thread, n \in Node : Knows(cur[u], n) => Knows(cur[u], n)'
      /\ \A u \in Thread, n \in Node : cur[u][node(n)] = Last(node(n)) => cur'[u][node(n)] = Last(node(n))'
      /\ \A n \in Node : Free(n) => Bounded(out.free[n])' /\ Knows(out.free[n], n)'
      /\ \A n \in Node : cur'[P][ReadOf(node(n))] = reads'[node(n)]
      /\ \A i \in cur'[P][head]..Last(head)' : Installed(S, i)'
  BY Quiet
<1>6. \A n \in Node : Free(n)' <=> Free(n)
  BY DEF Free
<1>7. Owners'
  <2>1. ASSUME NEW u \in Pusher, Holds(u) PROVE Owns(u)'
    <3>1. Owns(u) /\ u \in Thread
      BY <2>1, Locations DEF Inv, Owners
    <3>2. /\ reg[u].n \in Node /\ ~Free(reg[u].n)' /\ Knows(cur[u], reg[u].n)'
          /\ latest(node(reg[u].n))' = latest(node(reg[u].n))
      BY <1>4, <1>5, <1>6, <3>1 DEF Owns, Knows, latest, val, Last
    <3>3. pc'[u] \in {"push_link", "push_cas"} => reg'[u].h \in Node \cup {Null}
      BY <1>1, <1>2, <3>1 DEF Owns
    <3>4. pc'[u] = "push_cas" => latest(node(reg[u].n)).next = reg'[u].h
      BY <1>1, <1>2, <3>1 DEF Owns
    <3>. QED BY <1>4, <3>1, <3>2, <3>3, <3>4 DEF Owns, Knows
  <2>. QED BY <1>4, <1>5, <1>6, <2>1 DEF Inv, Owners
<1>8. Pops'
  BY <1>1, <1>2, <1>5 DEF Inv, Pops, Looks, Last, latest, val
<1>9. Stacked(S)'
  <2>1. Looks' => \E k \in 1..Len(S) : S[k] = reg'[P].h
    BY <1>1, <1>2 DEF Inv, Stacked, Looks
  <2>. QED BY <1>4, <1>5, <2>1, StackStays DEF Inv
<1>. QED BY <1>3, <1>5, <1>7, <1>8, <1>9 DEF Inv

LEMMA PushLoadStep ==
  ASSUME TreiberAssumption, NEW S, Inv(S), NEW th \in Pusher, PushLoad(th) PROVE Inv(S)'
<1>1. PICK i \in canLoad(th, head) : Load(th, head, i, "Relaxed") /\ Set(th, "h", val(head, i))
  BY DEF PushLoad, LoadInto
<1>. DEFINE V == loadView(cur[th], head, i, "Relaxed")
<1>2. th \in Thread /\ i \in 1..Last(head) /\ Bounded(V) /\ \A x \in Clock : cur[th][x] <= V[x]
  BY Loaded, Locations DEF Inv
<1>3. Grown(th, V)
  BY <1>1, <1>2 DEF Load, Grown, PushLoad
<1>4. val(head, i) \in Node \cup {Null}
  BY <1>2 DEF Inv, Memory
<1>. QED BY <1>1, <1>3, <1>4, PusherLoads DEF PushLoad, From, Holds

LEMMA PushFailsStep ==
  ASSUME TreiberAssumption, NEW S, Inv(S), NEW th \in Pusher, pc[th] = "push_cas",
         CasFails(th, head, reg[th].h, "Relaxed"), Goto(th, "push_load"), UNCHANGED <<calls, reg, out>>
  PROVE  Inv(S)'
<1>1. PICK i \in canLoad(th, head) : Load(th, head, i, "Relaxed")
  BY DEF CasFails
<1>. DEFINE V == loadView(cur[th], head, i, "Relaxed")
<1>2. th \in Thread /\ Bounded(V) /\ \A x \in Clock : cur[th][x] <= V[x]
  BY Loaded, Locations DEF Inv
<1>3. Grown(th, V)
  BY <1>1, <1>2 DEF Load, Grown
<1>4. Holds(th) /\ Null \in Node \cup {Null}
  BY DEF Holds
<1>. QED BY <1>3, <1>4, PusherLoads

(* The popper, which then looks at the node that it has found on top.      *)
LEMMA PopperLoads ==
  ASSUME TreiberAssumption, NEW S, Inv(S), NEW V, Grown(P, V),
         NEW l \in PopLabel, Goto(P, l), calls' \in [Thread -> Nat],
         \A th \in Pusher : calls'[th] = calls[th],
         reg' \in [Thread -> [Local -> Datum]], \A th \in Pusher : reg'[th] = reg[th],
         l \notin {"pop_val", "pop_cas"},
         l = "pop_next" => /\ reg'[P].h \in Node /\ V[node(reg'[P].h)] = Last(node(reg'[P].h))
                           /\ \E k \in 1..Len(S) : S[k] = reg'[P].h
  PROVE  Inv(S)'
<1>. /\ P \in Thread /\ P \notin Pusher /\ Pusher \subseteq Thread
     /\ hist' = hist /\ rel' = rel /\ reads' = reads /\ race' = race /\ out' = out
  BY Locations DEF Grown, TreiberAssumption, P
<1>1. /\ pc' = [pc EXCEPT ![P] = l] /\ pc'[P] = l /\ \A u \in Pusher : pc'[u] = pc[u]
  BY DEF Goto, Inv, Control
<1>2. Control'
  BY <1>1 DEF Inv, Control
<1>3. \A u \in Pusher : /\ Holds(u)' <=> Holds(u)
                        /\ reg'[u] = reg[u] /\ pc'[u] = pc[u] /\ calls'[u] = calls[u]
  BY <1>1 DEF Holds
<1>4. /\ Memory' /\ NoRace' /\ cur'[P] = V
      /\ \A u \in Thread, n \in Node : Knows(cur[u], n) => Knows(cur[u], n)'
      /\ \A n \in Node : Free(n) => Bounded(out.free[n])' /\ Knows(out.free[n], n)'
      /\ \A n \in Node : cur'[P][ReadOf(node(n))] = reads'[node(n)]
      /\ \A i \in cur'[P][head]..Last(head)' : Installed(S, i)'
  BY Quiet
<1>5. \A n \in Node : Free(n)' <=> Free(n)
  BY DEF Free
<1>6. Owners'
  <2>1. ASSUME NEW u \in Pusher, Holds(u) PROVE Owns(u)'
    <3>1. Owns(u) /\ u \in Thread
      BY <2>1 DEF Inv, Owners
    <3>2. /\ reg[u].n \in Node /\ ~Free(reg[u].n)' /\ Knows(cur[u], reg[u].n)'
          /\ latest(node(reg[u].n))' = latest(node(reg[u].n))
      BY <1>3, <1>4, <1>5, <3>1 DEF Owns, Knows, latest, val, Last
    <3>. QED BY <1>3, <3>1, <3>2 DEF Owns, Knows
  <2>. QED BY <1>3, <1>4, <1>5, <2>1 DEF Inv, Owners
<1>7. Pops'
  BY <1>1, <1>4 DEF Pops, Looks, Last, PopLabel
<1>8. Stacked(S)'
  BY <1>1, <1>3, <1>4, StackStays DEF Inv, Looks, PopLabel
<1>. QED BY <1>2, <1>4, <1>6, <1>7, <1>8 DEF Inv

LEMMA PopLoadStep ==
  ASSUME TreiberAssumption, NEW S, Inv(S), PopCall(P) \/ PopLoad(P) PROVE Inv(S)'
<1>1. PICK i \in canLoad(P, head) : Load(P, head, i, "Acquire") /\ Set(P, "h", val(head, i))
  BY DEF PopCall, PopLoad, PopLoadWith, LoadInto
<1>. DEFINE V == loadView(cur[P], head, i, "Acquire")
            h == val(head, i)
<1>2. /\ P \in Thread /\ i \in 1..Last(head) /\ cur[P][head] <= i
      /\ Bounded(V) /\ \A x \in Clock : cur[P][x] <= V[x] /\ hist[head][i].rview[x] <= V[x]
  BY Loaded, Locations DEF Inv
<1>3. Grown(P, V)
  BY <1>1, <1>2 DEF Load, Grown, PopCall, PopLoad, PopLoadWith
<1>4. h \in Node \cup {Null}
  BY <1>2 DEF Inv, Memory
<1>5. /\ reg' = [reg EXCEPT ![P] = [reg[P] EXCEPT !["h"] = h]]
      /\ reg' \in [Thread -> [Local -> Datum]] /\ reg'[P].h = h
      /\ \A th \in Pusher : reg'[th] = reg[th]
  <2>1. reg' = [reg EXCEPT ![P] = [reg[P] EXCEPT !["h"] = h]]
    BY <1>1 DEF Set
  <2>2. reg[P] \in [Local -> Datum] /\ h \in Datum
    BY <1>2, <1>4 DEF Inv, Control, Datum
  <2>. QED BY <1>2, <2>1, <2>2, Locations DEF Inv, Control, Local, TreiberAssumption, P
<1>6. calls' \in [Thread -> Nat] /\ \A th \in Pusher : calls'[th] = calls[th]
  <2>1. calls \in [Thread -> Nat] /\ P \in Thread /\ P \notin Pusher /\ Pusher \subseteq Thread
    BY Locations DEF Inv, Control, TreiberAssumption, P
  <2>2. calls' = [calls EXCEPT ![P] = @ + 1] \/ calls' = calls
    BY DEF PopCall, PopLoad, Call, From
  <2>. QED BY <2>1, <2>2
<1>7. Goto(P, IF h = Null THEN "idle" ELSE "pop_next")
  BY <1>5 DEF PopCall, PopLoad, PopLoadWith
<1>8. ASSUME h # Null
      PROVE  V[node(h)] = Last(node(h)) /\ \E k \in 1..Len(S) : S[k] = h
  <2>. DEFINE d == Depth(S, i)
  <2>1. S \in Seq(Node) /\ Len(S) < Last(head) /\ Last(head) \in Nat /\ cur[P][head] \in Nat
    <3>1. Bounded(cur[P]) /\ Last(head) \in Nat
      BY <1>2, Numbers, Locations DEF Inv, Memory
    <3>. QED BY <3>1, Locations DEF Inv, Stacked, Bounded
  <2>. i \in cur[P][head]..Last(head)
    BY <1>2, <2>1
  <2>5. Installed(S, i)
    BY DEF Inv, Stacked
  <2>2. d \in 1..Len(S) /\ h = S[d]
    BY <1>2, <1>8, <2>1, <2>5 DEF Installed, Depth, Top
  <2>3. hist[head][i].rview[node(h)] = Last(node(h))
    <3>1. d \in 1..d
      BY <2>1, <2>2
    <3>2. hist[head][i].rview[node(S[d])] = Last(node(S[d]))
      BY <2>5, <3>1 DEF Installed
    <3>. QED BY <2>2, <3>2
  <2>4. node(h) \in Clock /\ node(h) \in Loc
    BY <1>4, <1>8, Locations
  <2>6. V[node(h)] \in 1..Last(node(h)) /\ Last(node(h)) \in Nat /\ Last(node(h)) <= V[node(h)]
    BY <1>2, <2>3, <2>4, Numbers DEF Bounded, Inv
  <2>. QED BY <2>2, <2>6
<1>. HIDE DEF V, h
<1>. QED
  BY <1>3, <1>4, <1>5, <1>6, <1>7, <1>8, PopperLoads DEF PopLabel

LEMMA PopFailsStep ==
  ASSUME TreiberAssumption, NEW S, Inv(S), CasFails(P, head, reg[P].h, "Relaxed"),
         Goto(P, "pop_load"), UNCHANGED <<calls, reg, out>>
  PROVE  Inv(S)'
<1>1. PICK i \in canLoad(P, head) : Load(P, head, i, "Relaxed")
  BY DEF CasFails
<1>. DEFINE V == loadView(cur[P], head, i, "Relaxed")
<1>2. P \in Thread /\ Bounded(V) /\ \A x \in Clock : cur[P][x] <= V[x]
  BY Loaded, Locations DEF Inv
<1>3. Grown(P, V)
  BY <1>1, <1>2 DEF Load, Grown
<1>4. calls \in [Thread -> Nat] /\ reg \in [Thread -> [Local -> Datum]]
  BY DEF Inv, Control
<1>. HIDE DEF V
<1>. QED BY <1>3, <1>4, PopperLoads DEF PopLabel

-----------------------------------------------------------------------------
(* A pusher writes the memory of a node that is its own.                   *)
Puts(th, n, v, W) ==
  /\ hist' = [hist EXCEPT ![node(n)] = Append(@, [val |-> v, rview |-> bot])]
  /\ cur' = [cur EXCEPT ![th] = seen(W, node(n), Last(node(n)) + 1)]
  /\ Bounded(W) /\ W[ReadOf(node(n))] = reads[node(n)]
  /\ UNCHANGED <<rel, reads>>

LEMMA Written ==
  ASSUME Memory, NEW th \in Thread, NEW n \in Node, NEW v \in Record, NEW W, Puts(th, n, v, W)
  PROVE  /\ Memory' /\ \A V : Bounded(V) => Bounded(V)'
         /\ Last(node(n))' = Last(node(n)) + 1 /\ latest(node(n))' = v
         /\ \A m \in Node \ {n} : Last(node(m))' = Last(node(m)) /\ latest(node(m))' = latest(node(m))
         /\ hist'[head] = hist[head]
         /\ Knows(cur[th], n)' /\ \A u \in Thread \ {th} : cur'[u] = cur[u]
<1>. DEFINE c == node(n)
            msg == [val |-> v, rview |-> bot]
<1>0. PICK U : U = seen(W, c, Last(c) + 1)
  OBVIOUS
<1>1. /\ c \in Loc /\ c \in Cell /\ c # head /\ head \in Loc /\ c \in Clock
      /\ ReadOf(c) \in Clock /\ ReadOf(c) # c
      /\ Last(c) \in Nat \ {0} /\ hist[c] \in Seq(Message) /\ msg \in Message
  <2>1. /\ c \in Loc /\ c \in Cell /\ c # head /\ head \in Loc /\ c \in Clock
        /\ ReadOf(c) \in Clock /\ ReadOf(c) # c
    BY Locations
  <2>2. Last(c) \in Nat \ {0} /\ bot \in View
    BY <2>1, Numbers
  <2>3. msg \in Message
    BY <2>2 DEF Message
  <2>. QED BY <2>1, <2>2, <2>3 DEF Memory
<1>2. hist' = [hist EXCEPT ![c] = Append(hist[c], msg)] /\ cur' = [cur EXCEPT ![th] = U]
      /\ Bounded(W) /\ W[ReadOf(c)] = reads[c] /\ rel' = rel /\ reads' = reads
  BY <1>0 DEF Puts
<1>. HIDE DEF c, msg
<1>3. /\ hist' \in [Loc -> Seq(Message)] /\ hist'[c] = Append(hist[c], msg)
      /\ \A l \in Loc : l # c => hist'[l] = hist[l]
  BY <1>1, <1>2 DEF Memory
<1>4. /\ Len(hist'[c]) = Last(c) + 1 /\ hist'[c][Last(c) + 1] = msg /\ hist'[c] # <<>>
  BY <1>1, <1>3 DEF Last
<1>5. Last(c)' = Last(c) + 1 /\ latest(c)' = v
  BY <1>4 DEF Last, latest, val, c, msg
<1>6. \A l \in Loc : l # c => Last(l)' = Last(l) /\ latest(l)' = latest(l)
  BY <1>3 DEF Last, latest, val
<1>7. \A l \in Loc : Last(l)' >= Last(l) /\ Last(l) \in Nat /\ Last(l)' \in Nat
  BY <1>5, <1>6, Numbers
<1>8. \A V : Bounded(V) => Bounded(V)'
  BY <1>2, <1>7 DEF Bounded
<1>9. U \in View /\ U[c] = Last(c) + 1 /\ \A x \in Clock : x # c => U[x] = W[x]
  <2>1. W \in View /\ W[c] \in 1..Last(c)
    BY <1>1, <1>2 DEF Bounded
  <2>. QED BY <1>0, <1>1, <2>1 DEF seen, View
<1>10. Bounded(U)'
  <2>1. \A l \in Loc : U[l] \in 1..Last(l)'
    <3>1. \A l \in Loc : l # c => U[l] \in 1..Last(l)
      BY <1>2, <1>9, Locations DEF Bounded
    <3>. QED BY <1>1, <1>5, <1>6, <1>9, <3>1
  <2>2. ASSUME NEW d \in Cell PROVE U[ReadOf(d)] <= reads'[d]
    <3>1. ReadOf(d) \in Clock /\ ReadOf(d) # c /\ W[ReadOf(d)] <= reads[d]
      BY <1>1, <1>2, Locations DEF Bounded
    <3>. QED BY <1>2, <1>9, <3>1
  <2>. QED BY <1>9, <2>1, <2>2 DEF Bounded
<1>11. /\ cur' \in [Thread -> View] /\ cur'[th] = U /\ \A u \in Thread \ {th} : cur'[u] = cur[u]
  BY <1>2, <1>9 DEF Memory
<1>12. \A u \in Thread : Bounded(cur[u])'
  <2>1. ASSUME NEW u \in Thread \ {th} PROVE Bounded(cur[u])'
    <3>1. PICK V : V = cur[u] /\ V = cur'[u]
      BY <1>11
    <3>2. Bounded(V) /\ Bounded(V)'
      BY <1>8, <3>1 DEF Memory
    <3>. QED BY <3>1, <3>2 DEF Bounded
  <2>2. Bounded(cur[th])'
    BY <1>10, <1>11 DEF Bounded
  <2>. QED BY <2>1, <2>2
<1>13. \A m \in Node \ {n} : Last(node(m))' = Last(node(m)) /\ latest(node(m))' = latest(node(m))
  BY <1>6, Locations DEF c
<1>14. \A m \in Node : latest(node(m))' \in Record
  BY <1>5, <1>13 DEF Memory, c
<1>15. hist'[head] = hist[head]
  BY <1>1, <1>3
<1>16. \A i \in 1..Last(head)' : val(head, i)' \in Node \cup {Null} /\ Bounded(hist[head][i].rview)'
  <2>1. ASSUME NEW i \in 1..Last(head) PROVE val(head, i)' \in Node \cup {Null} /\ Bounded(hist[head][i].rview)'
    BY <1>8, <1>15 DEF Memory, val, Bounded
  <2>. QED BY <1>15, <2>1 DEF Last
<1>17. Memory'
  <2>1. \A l \in Loc : hist'[l] # <<>>
    BY <1>3, <1>4 DEF Memory
  <2>. QED BY <1>2, <1>3, <1>11, <1>12, <1>14, <1>16, <2>1 DEF Memory
<1>18. Knows(cur[th], n)'
  BY <1>1, <1>2, <1>5, <1>9, <1>11 DEF Knows, c
<1>. QED BY <1>5, <1>8, <1>11, <1>13, <1>15, <1>17, <1>18 DEF c

LEMMA Handled ==
  ASSUME TreiberAssumption, NEW S, Inv(S), NEW th \in Pusher, NEW n \in Node, NEW v \in Record,
         NEW W, Puts(th, n, v, W), Control', NoRace', out'.got = out.got,
         \A u \in Thread : u # th => pc'[u] = pc[u] /\ reg'[u] = reg[u] /\ calls'[u] = calls[u],
         \A u \in Pusher : u # th /\ Holds(u) => reg[u].n # n,
         \A k \in 1..Len(S) : S[k] # n,
         Holds(th) => reg[th].n = n, Holds(th)', reg'[th].n = n,
         \A m \in Node : Free(m)' <=> Free(m) /\ m # n,
         \A m \in Node : m # n => out'.free[m] = out.free[m],
         v.val = <<th, calls'[th]>>, pc'[th] # "push_link",
         pc'[th] = "push_cas" => v.next = reg'[th].h /\ reg'[th].h \in Node \cup {Null}
  PROVE  Inv(S)'
<1>1. /\ th \in Thread /\ P \in Thread /\ th # P /\ Pusher \subseteq Thread /\ Memory
  BY Locations DEF TreiberAssumption, P, Inv
<1>2. /\ Memory' /\ \A V : Bounded(V) => Bounded(V)'
      /\ latest(node(n))' = v
      /\ \A m \in Node \ {n} : Last(node(m))' = Last(node(m)) /\ latest(node(m))' = latest(node(m))
      /\ hist'[head] = hist[head]
      /\ Knows(cur[th], n)' /\ \A u \in Thread \ {th} : cur'[u] = cur[u]
  BY <1>1, Written
<1>3. \A u \in Pusher : Holds(u)' <=> Holds(u) \/ u = th
  BY <1>1 DEF Holds
<1>4. reads' = reads
  BY DEF Puts
<1>5. Owners'
  <2>1. Owns(th)'
    BY <1>2 DEF Owns
  <2>2. ASSUME NEW u \in Pusher, Holds(u), u # th PROVE Owns(u)'
    <3>1. Owns(u) /\ u \in Thread /\ reg[u].n # n /\ reg'[u] = reg[u] /\ pc'[u] = pc[u] /\ calls'[u] = calls[u]
      BY <1>1, <2>2 DEF Inv, Owners
    <3>2. /\ reg[u].n \in Node \ {n} /\ ~Free(reg[u].n)' /\ Knows(cur[u], reg[u].n)'
          /\ latest(node(reg[u].n))' = latest(node(reg[u].n))
      BY <1>2, <1>4, <2>2, <3>1 DEF Owns, Knows
    <3>. QED BY <3>1, <3>2 DEF Owns, Knows
  <2>3. ASSUME NEW m \in Node, Free(m)' PROVE Bounded(out.free[m])' /\ Knows(out.free[m], m)'
    <3>1. m # n /\ Bounded(out.free[m]) /\ Knows(out.free[m], m) /\ out'.free[m] = out.free[m]
      BY <2>3 DEF Inv, Owners
    <3>2. Bounded(out.free[m])'
      BY <1>2, <3>1 DEF Bounded
    <3>. QED BY <1>2, <1>4, <3>1, <3>2 DEF Knows
  <2>4. ASSUME NEW u \in Pusher, NEW w \in Pusher, Holds(u)', Holds(w)', reg'[u].n = reg'[w].n
        PROVE  u = w
    <3>1. u # th => Holds(u) /\ reg'[u] = reg[u] /\ reg[u].n # n
      BY <1>1, <1>3, <2>4
    <3>2. w # th => Holds(w) /\ reg'[w] = reg[w] /\ reg[w].n # n
      BY <1>1, <1>3, <2>4
    <3>. QED BY <2>4, <3>1, <3>2 DEF Inv, Owners
  <2>. QED BY <1>3, <2>1, <2>2, <2>3, <2>4 DEF Owners
<1>6. \A k \in 1..Len(S) : S[k] \in Node \ {n}
  BY DEF Inv, Stacked
<1>7. /\ pc'[P] = pc[P] /\ reg'[P] = reg[P] /\ cur'[P] = cur[P]
  BY <1>1, <1>2
<1>8. Pops'
  <2>1. Looks => reg[P].h \in Node \ {n}
    BY <1>6 DEF Inv, Stacked
  <2>. QED BY <1>2, <1>4, <1>7, <2>1 DEF Inv, Pops, Looks
<1>9. Stacked(S)'
  <2>1. \A i : hist'[head][i] = hist[head][i] /\ Last(head)' = Last(head)
    BY <1>2 DEF Last
  <2>2. S \in Seq(Node) /\ Len(S) < Last(head)' /\ \A j, k \in 1..Len(S) : S[j] = S[k] => j = k
    BY <2>1 DEF Inv, Stacked
  <2>3. ASSUME NEW k \in 1..Len(S)
        PROVE  /\ ~Free(S[k])' /\ latest(node(S[k]))'.next = Top(S, k - 1)
               /\ \A u \in Pusher : Holds(u)' => reg'[u].n # S[k]
    <3>1. ~Free(S[k]) /\ latest(node(S[k])).next = Top(S, k - 1) /\ \A u \in Pusher : Holds(u) => reg[u].n # S[k]
      BY DEF Inv, Stacked
    <3>. QED BY <1>1, <1>2, <1>3, <1>6, <3>1
  <2>4. ASSUME NEW m \in Node
        PROVE  \/ Free(m)' \/ \E u \in Pusher : Holds(u)' /\ reg'[u].n = m
               \/ \E k \in 1..Len(S) : S[k] = m
    <3>1. CASE m = n
      BY <3>1
    <3>2. CASE m # n
      <4>1. \/ Free(m) \/ \E u \in Pusher : Holds(u) /\ reg[u].n = m
            \/ \E k \in 1..Len(S) : S[k] = m
        BY DEF Inv, Stacked
      <4>. QED BY <1>1, <1>3, <3>2, <4>1
    <3>. QED BY <3>1, <3>2
  <2>5. ASSUME NEW i \in cur'[P][head]..Last(head)' PROVE Installed(S, i)'
    <3>1. Installed(S, i)
      BY <1>7, <2>1, <2>5 DEF Inv, Stacked
    <3>2. S \in Seq(Node) /\ i \in Int /\ Last(head) \in Int
      BY <1>1, <2>2, Numbers, Locations
    <3>3. \A k \in 1..Depth(S, i) : k \in 1..Len(S)
      BY <2>1, <2>5, <3>2 DEF Depth
    <3>. QED BY <1>2, <1>6, <2>1, <3>1, <3>3 DEF Installed, Depth, val
  <2>6. Looks' => \E k \in 1..Len(S) : S[k] = reg'[P].h
    BY <1>7 DEF Inv, Stacked, Looks
  <2>. QED BY <2>2, <2>3, <2>4, <2>5, <2>6 DEF Stacked
<1>. QED BY <1>2, <1>5, <1>8, <1>9 DEF Inv

LEMMA NewStep ==
  ASSUME TreiberAssumption, NEW S, Inv(S), NEW th \in Pusher, New(th) PROVE Inv(S)'
<1>1. PICK n \in Node :
        /\ Free(n)
        /\ AllocateCell(th, node(n), [val |-> <<th, calls'[th]>>, next |-> Null], out.free[n])
        /\ Set(th, "n", n)
        /\ out' = [out EXCEPT !.free[n] = NotFree]
  BY DEF New
<1>2. PICK W : W = join(cur[th], out.free[n])
  OBVIOUS
<1>3. PICK v : v = [val |-> <<th, calls'[th]>>, next |-> Null]
  OBVIOUS
<1>4. /\ th \in Thread /\ node(n) \in Cell /\ ReadOf(node(n)) \in Clock /\ P # th /\ Pusher \subseteq Thread
  BY Locations DEF TreiberAssumption, P
<1>5. /\ pc[th] = "idle" /\ calls' = [calls EXCEPT ![th] = @ + 1] /\ pc' = [pc EXCEPT ![th] = "push_load"]
      /\ reg' = [reg EXCEPT ![th] = [reg[th] EXCEPT !["n"] = n]]
  BY <1>1 DEF New, Call, Goto, Set
<1>6. calls' \in [Thread -> Nat] /\ calls'[th] \in Nat /\ \A u \in Thread : u # th => calls'[u] = calls[u]
  BY <1>4, <1>5 DEF Inv, Control
<1>7. v \in Record
  BY <1>3, <1>6 DEF Record, Item
<1>8. /\ reg' \in [Thread -> [Local -> Datum]] /\ reg'[th].n = n /\ \A u \in Thread : u # th => reg'[u] = reg[u]
  <2>1. reg[th] \in [Local -> Datum] /\ n \in Datum
    BY <1>4 DEF Inv, Control, Datum
  <2>. QED BY <1>4, <1>5, <2>1 DEF Inv, Control, Local
<1>9. pc' \in [Thread -> PushLabel \cup PopLabel] /\ pc'[th] = "push_load" /\ \A u \in Thread : u # th => pc'[u] = pc[u]
  BY <1>4, <1>5 DEF Inv, Control, PushLabel
<1>10. /\ out' \in [free : [Node -> View \cup {NotFree}], got : Seq(Item)] /\ out'.got = out.got
       /\ out'.free[n] = NotFree /\ \A m \in Node : m # n => out'.free[m] = out.free[m]
  <2>1. out \in [free : [Node -> View \cup {NotFree}], got : Seq(Item)]
    BY DEF Inv, Control
  <2>2. out' = [out EXCEPT !.free = [out.free EXCEPT ![n] = NotFree]]
    BY <1>1
  <2>. QED BY <2>1, <2>2
<1>11. Control'
  BY <1>4, <1>6, <1>8, <1>9, <1>10, Locations DEF Inv, Control, PushLabel
<1>12. Bounded(cur[th]) /\ Bounded(out.free[n]) /\ Knows(out.free[n], n) /\ Memory
  BY <1>1, <1>4 DEF Inv, Memory, Owners
<1>13. Puts(th, n, v, W)
  <2>1. Bounded(W) /\ \A x \in Clock : W[x] = IF cur[th][x] < out.free[n][x] THEN out.free[n][x] ELSE cur[th][x]
    BY <1>2, <1>12, Joined
  <2>2. /\ cur[th][ReadOf(node(n))] <= reads[node(n)] /\ out.free[n][ReadOf(node(n))] = reads[node(n)]
        /\ reads[node(n)] \in Nat /\ cur[th][ReadOf(node(n))] \in Nat
    BY <1>4, <1>12, Numbers DEF Bounded, Knows, View
  <2>3. W[ReadOf(node(n))] = reads[node(n)]
    BY <1>4, <2>1, <2>2
  <2>. QED BY <1>1, <1>2, <1>3, <2>1, <2>3 DEF AllocateCell, Puts
<1>14. NoRace'
  BY <1>1 DEF AllocateCell, Inv, NoRace
<1>15. \A m \in Node : Free(m)' <=> Free(m) /\ m # n
  BY <1>10 DEF Free
<1>16. /\ \A u \in Pusher : Holds(u) => reg[u].n # n
       /\ \A k \in 1..Len(S) : S[k] # n
  BY <1>1 DEF Inv, Owners, Owns, Stacked
<1>17. ~Holds(th) /\ Holds(th)'
  BY <1>5, <1>9 DEF Holds
<1>. QED
  BY <1>3, <1>6, <1>7, <1>8, <1>9, <1>10, <1>11, <1>13, <1>14, <1>15, <1>16, <1>17, Handled

LEMMA PushLinkStep ==
  ASSUME TreiberAssumption, NEW S, Inv(S), NEW th \in Pusher, PushLink(th) PROVE Inv(S)'
<1>1. /\ pc[th] = "push_link" /\ pc' = [pc EXCEPT ![th] = "push_cas"]
      /\ calls' = calls /\ reg' = reg /\ out' = out
  BY DEF PushLink, From, Goto
<1>2. Holds(th)
  BY <1>1 DEF Holds
<1>3. PICK n \in Node : n = reg[th].n /\ Owns(th) /\ Knows(cur[th], n) /\ ~Free(n)
  BY <1>2 DEF Inv, Owners, Owns
<1>4. PICK v : v = [latest(node(n)) EXCEPT !.next = reg[th].h]
  OBVIOUS
<1>5. /\ th \in Thread /\ P # th /\ Pusher \subseteq Thread
  BY Locations DEF TreiberAssumption, P
<1>6. v \in Record /\ v.val = <<th, calls[th]>> /\ v.next = reg[th].h /\ reg[th].h \in Node \cup {Null}
  <2>1. latest(node(n)) \in Record /\ latest(node(n)).val = <<th, calls[th]>> /\ reg[th].h \in Node \cup {Null}
    BY <1>1, <1>3 DEF Inv, Memory, Owns
  <2>. QED BY <1>4, <2>1 DEF Record
<1>7. WriteCell(th, node(n), v)
  BY <1>1, <1>3, <1>4 DEF PushLink
<1>8. Puts(th, n, v, cur[th])
  BY <1>3, <1>5, <1>7 DEF Puts, WriteCell, Knows, Inv, Memory
<1>9. NoRace'
  BY <1>3, <1>7 DEF WriteCell, Inv, NoRace, KnowsWrites, KnowsReads, Knows
<1>10. pc' \in [Thread -> PushLabel \cup PopLabel] /\ pc'[th] = "push_cas" /\ \A u \in Thread : u # th => pc'[u] = pc[u]
  BY <1>1, <1>5 DEF Inv, Control, PushLabel
<1>11. Control'
  BY <1>1, <1>5, <1>10, Locations DEF Inv, Control, PushLabel
<1>12. /\ \A u \in Pusher : u # th /\ Holds(u) => reg[u].n # n
       /\ \A k \in 1..Len(S) : S[k] # n
  BY <1>2, <1>3 DEF Inv, Owners, Stacked
<1>13. Holds(th)' /\ \A m \in Node : Free(m)' <=> Free(m) /\ m # n
  BY <1>1, <1>3, <1>10 DEF Holds, Free
<1>. QED
  BY <1>1, <1>2, <1>3, <1>6, <1>8, <1>9, <1>10, <1>11, <1>12, <1>13, Handled

-----------------------------------------------------------------------------
(* The popper reads a field of the node it looks at.                       *)
LEMMA PopperReads ==
  ASSUME TreiberAssumption, NEW S, Inv(S), Looks, ReadCell(P, node(reg[P].h)),
         NEW l \in {"pop_val", "pop_cas"}, Goto(P, l), UNCHANGED <<calls, out>>,
         NEW x \in Local \ {"h"}, NEW y \in Datum, Set(P, x, y),
         LET r == latest(node(reg[P].h)) IN
           IF l = "pop_val" THEN x = "next" /\ y = r.next
           ELSE x = "v" /\ y = r.val /\ reg[P].next = r.next
  PROVE  Inv(S)'
<1>1. PICK h \in Node : h = reg[P].h /\ cur[P][node(h)] = Last(node(h)) /\ (\E k \in 1..Len(S) : S[k] = h)
  BY DEF Inv, Pops, Stacked
<1>. DEFINE c == node(h)
<1>2. PICK V : V = seen(cur[P], ReadOf(c), reads[c] + 1)
  OBVIOUS
<1>3. /\ P \in Thread /\ P \notin Pusher /\ Pusher \subseteq Thread
      /\ c \in Cell /\ ReadOf(c) \in Clock /\ ReadOf(c) \notin Loc /\ reads[c] \in Nat \ {0}
      /\ \A m \in Node : node(m) \in Cell /\ (m # h => node(m) # c)
  BY Locations, Numbers DEF TreiberAssumption, P, Inv
<1>4. /\ cur' = [cur EXCEPT ![P] = V] /\ reads' = [reads EXCEPT ![c] = @ + 1]
      /\ hist' = hist /\ rel' = rel /\ race' = (race \/ ~KnowsWrites(P, c))
  BY <1>1, <1>2 DEF ReadCell
<1>. HIDE DEF c
<1>5. /\ reads' \in [Cell -> Nat \ {0}] /\ reads'[c] = reads[c] + 1 /\ \A d \in Cell : d # c => reads'[d] = reads[d]
      /\ \A d \in Cell : reads'[d] >= reads[d] /\ reads[d] \in Nat
  BY <1>3, <1>4 DEF Inv, Memory
<1>6. /\ V \in View /\ V[ReadOf(c)] = reads[c] + 1 /\ \A z \in Clock : z # ReadOf(c) => V[z] = cur[P][z]
  <2>1. Bounded(cur[P])
    BY <1>3 DEF Inv, Memory
  <2>2. cur[P] \in View /\ cur[P][ReadOf(c)] <= reads[c] /\ cur[P][ReadOf(c)] \in Nat
    BY <1>3, <2>1 DEF Bounded, View
  <2>. QED BY <1>2, <1>3, <2>2 DEF seen, View
<1>7. \A W : Bounded(W) => Bounded(W)'
  <2>1. SUFFICES ASSUME NEW W, Bounded(W) PROVE Bounded(W)'
    OBVIOUS
  <2>2. ASSUME NEW d \in Cell PROVE W[ReadOf(d)] <= reads'[d]
    <3>1. W[ReadOf(d)] <= reads[d] /\ W[ReadOf(d)] \in Nat
      BY <2>1, Locations DEF Bounded, View
    <3>. QED BY <1>5, <3>1
  <2>. QED BY <1>4, <2>1, <2>2 DEF Bounded, Last
<1>8. Bounded(V)'
  <2>1. Bounded(cur[P])
    BY <1>3 DEF Inv, Memory
  <2>2. ASSUME NEW z \in Loc PROVE V[z] \in 1..Last(z)
    BY <1>3, <1>6, <2>1, Locations DEF Bounded
  <2>3. ASSUME NEW d \in Cell PROVE V[ReadOf(d)] <= reads'[d]
    <3>1. CASE d = c
      BY <1>5, <1>6, <3>1, <1>3
    <3>2. CASE d # c
      <4>1. ReadOf(d) # ReadOf(c) /\ ReadOf(d) \in Clock /\ cur[P][ReadOf(d)] <= reads[d]
        BY <1>3, <2>1, <3>2, Locations DEF Bounded
      <4>. QED BY <1>5, <1>6, <3>2, <4>1
    <3>. QED BY <3>1, <3>2
  <2>. QED BY <1>4, <1>6, <2>2, <2>3 DEF Bounded, Last
<1>9. /\ cur' \in [Thread -> View] /\ cur'[P] = V /\ \A u \in Pusher : cur'[u] = cur[u]
  BY <1>3, <1>4, <1>6 DEF Inv, Memory
<1>10. Memory'
  <2>1. ASSUME NEW u \in Thread PROVE Bounded(cur[u])'
    <3>1. CASE u = P
      BY <1>8, <1>9, <3>1 DEF Bounded
    <3>2. CASE u # P
      <4>1. PICK W : W = cur[u] /\ W = cur'[u]
        BY <1>9, <3>2, Locations
      <4>2. Bounded(W) /\ Bounded(W)'
        BY <1>7, <4>1 DEF Inv, Memory
      <4>. QED BY <4>1, <4>2 DEF Bounded
    <3>. QED BY <3>1, <3>2
  <2>2. ASSUME NEW i \in 1..Last(head)' PROVE val(head, i)' \in Node \cup {Null} /\ Bounded(hist[head][i].rview)'
    <3>1. val(head, i) \in Node \cup {Null} /\ Bounded(hist[head][i].rview)
      BY <1>4, <2>2 DEF Inv, Memory, Last
    <3>2. PICK W : W = hist[head][i].rview /\ W = hist'[head][i].rview
      BY <1>4
    <3>3. Bounded(W)'
      BY <1>7, <3>1, <3>2
    <3>. QED BY <1>4, <3>1, <3>2, <3>3 DEF Bounded, val
  <2>. QED BY <1>4, <1>5, <1>9, <2>1, <2>2 DEF Inv, Memory, Last, latest, val
<1>11. NoRace'
  BY <1>1, <1>4 DEF Inv, NoRace, KnowsWrites, c
<1>12. /\ pc' \in [Thread -> PushLabel \cup PopLabel] /\ pc'[P] = l /\ \A u \in Pusher : pc'[u] = pc[u]
  BY <1>3 DEF Goto, Inv, Control, PopLabel
<1>13. /\ reg' \in [Thread -> [Local -> Datum]] /\ reg'[P] = [reg[P] EXCEPT ![x] = y]
       /\ reg'[P].h = h /\ reg'[P][x] = y /\ (x = "v" => reg'[P].next = reg[P].next)
       /\ \A u \in Pusher : reg'[u] = reg[u]
  <2>1. reg' = [reg EXCEPT ![P] = [reg[P] EXCEPT ![x] = y]]
    BY DEF Set
  <2>2. reg[P] \in [Local -> Datum]
    BY <1>3 DEF Inv, Control
  <2>. QED BY <1>1, <1>3, <2>1, <2>2 DEF Inv, Control, Local
<1>14. Control'
  BY <1>12, <1>13 DEF Inv, Control, PopLabel
<1>15. \A u \in Pusher : /\ Holds(u)' <=> Holds(u)
                         /\ reg'[u] = reg[u] /\ pc'[u] = pc[u] /\ calls'[u] = calls[u]
  BY <1>12, <1>13 DEF Holds
<1>16. \A m \in Node : Free(m)' <=> Free(m)
  BY DEF Free
<1>17. \A m \in Node \ {h} : reads'[node(m)] = reads[node(m)]
  BY <1>3, <1>5
<1>18. ~Free(h) /\ \A u \in Pusher : Holds(u) => reg[u].n # h
  BY <1>1 DEF Inv, Stacked
<1>19. Owners'
  <2>1. ASSUME NEW u \in Pusher, Holds(u) PROVE Owns(u)'
    <3>1. Owns(u) /\ reg[u].n \in Node \ {h}
      BY <1>18, <2>1 DEF Inv, Owners, Owns
    <3>2. Knows(cur[u], reg[u].n)' /\ ~Free(reg[u].n)' /\ latest(node(reg[u].n))' = latest(node(reg[u].n))
      BY <1>4, <1>9, <1>15, <1>17, <3>1 DEF Owns, Knows, Last, latest, val, Free
    <3>. QED BY <1>15, <3>1, <3>2 DEF Owns, Knows
  <2>2. ASSUME NEW m \in Node, Free(m) PROVE Bounded(out.free[m])' /\ Knows(out.free[m], m)'
    <3>1. m # h /\ Bounded(out.free[m]) /\ Knows(out.free[m], m)
      BY <1>18, <2>2 DEF Inv, Owners
    <3>2. PICK W : W = out.free[m] /\ W = out'.free[m]
      OBVIOUS
    <3>3. Bounded(W)'
      BY <1>7, <3>1, <3>2
    <3>. QED BY <1>4, <1>17, <3>1, <3>2, <3>3 DEF Bounded, Knows, Last
  <2>. QED BY <1>15, <1>16, <2>1, <2>2 DEF Inv, Owners
<1>20. Pops'
  <2>1. ASSUME NEW m \in Node PROVE cur'[P][ReadOf(node(m))] = reads'[node(m)]
    <3>1. CASE m = h
      BY <1>5, <1>6, <1>9, <3>1 DEF c
    <3>2. CASE m # h
      <4>1. ReadOf(node(m)) # ReadOf(c) /\ ReadOf(node(m)) \in Clock
        BY <1>3, <3>2, Locations
      <4>. QED BY <1>6, <1>9, <1>17, <3>2, <4>1 DEF Inv, Pops
    <3>. QED BY <3>1, <3>2
  <2>2. cur'[P][node(h)] = Last(node(h))'
    <3>1. node(h) # ReadOf(c) /\ node(h) \in Clock
      BY <1>3, Locations
    <3>. QED BY <1>1, <1>4, <1>6, <1>9, <3>1 DEF Last
  <2>3. latest(node(h))' = latest(node(h))
    BY <1>4 DEF latest, val, Last
  <2>. QED BY <1>1, <1>12, <1>13, <2>1, <2>2, <2>3 DEF Pops, Looks
<1>21. Stacked(S)'
  <2>1. \A i \in cur'[P][head]..Last(head)' : Installed(S, i)'
    <3>1. cur'[P][head] = cur[P][head] /\ Last(head)' = Last(head)
      BY <1>3, <1>4, <1>6, <1>9, Locations DEF Last
    <3>. QED BY <1>4, <3>1, ZenonT(60) DEF Inv, Stacked, Installed, Depth, val, Last
  <2>2. Looks' => \E k \in 1..Len(S) : S[k] = reg'[P].h
    BY <1>1, <1>13
  <2>. QED BY <1>4, <1>15, <2>1, <2>2, StackStays DEF Inv
<1>. QED BY <1>10, <1>11, <1>14, <1>19, <1>20, <1>21 DEF Inv

LEMMA PopReadStep ==
  ASSUME TreiberAssumption, NEW S, Inv(S), PopNext(P) \/ PopVal(P) PROVE Inv(S)'
<1>1. Looks
  BY DEF PopNext, PopVal, From, Looks
<1>2. latest(node(reg[P].h)) \in Record
  BY <1>1 DEF Inv, Pops, Memory
<1>. DEFINE r == latest(node(reg[P].h))
<1>3. r.next \in Datum /\ r.val \in Datum
  BY <1>2 DEF Record, Datum
<1>4. CASE PopNext(P)
  BY <1>1, <1>3, <1>4, PopperReads DEF PopNext, From, Local
<1>5. CASE PopVal(P)
  <2>1. reg[P].next = r.next
    BY <1>1, <1>5 DEF Inv, Pops, PopVal, From
  <2>. QED BY <1>1, <1>3, <1>5, <2>1, PopperReads DEF PopVal, From, Local
<1>. QED BY <1>4, <1>5

-----------------------------------------------------------------------------
(* A successful CAS adds a message to the head, that passes on what the    *)
(* last one released; that of a push releases the writes of the pusher.    *)
LEMMA Updated ==
  ASSUME Memory, NEW th \in Thread, NEW x \in Node \cup {Null}, NEW o \in {"Release", "Relaxed"},
         Update(th, head, x, o)
  PROVE  /\ Memory' /\ \A V : Bounded(V) => Bounded(V)'
         /\ Last(head)' = Last(head) + 1 /\ latest(head)' = x
         /\ \A i \in 1..Last(head) : hist'[head][i] = hist[head][i]
         /\ \A n \in Node : hist'[node(n)] = hist[node(n)]
         /\ \A u \in Thread \ {th} : cur'[u] = cur[u]
         /\ cur'[th][head] = Last(head) + 1 /\ \A y \in Clock \ {head} : cur'[th][y] = cur[th][y]
         /\ reads' = reads /\ race' = race
         /\ \A n \in Node :
              LET U == hist[head][Last(head)].rview
                  R == hist'[head][Last(head) + 1].rview
                  k == Last(node(n))
              IN (U[node(n)] = k => R[node(n)] = k) /\ (o = "Release" /\ cur[th][node(n)] = k => R[node(n)] = k)
<1>1. /\ head \in Loc /\ head \in Clock /\ Last(head) \in Nat \ {0} /\ Bounded(cur[th])
      /\ Bounded(hist[head][Last(head)].rview) /\ Bounded(bot) /\ hist[head] \in Seq(Message)
  BY Locations, Numbers DEF Memory
<1>. PICK L : L = Last(head)
  OBVIOUS
<1>. PICK t : t = Last(head) + 1
  OBVIOUS
<1>0. L = Last(head) /\ t = Last(head) + 1 /\ t = L + 1 /\ t - 1 = L
  BY <1>1
<1>2. PICK V : V = seen(loadView(cur[th], head, L, o), head, t)
  OBVIOUS
<1>3. PICK U : U = hist[head][L].rview
  OBVIOUS
<1>4. PICK Q : Q = seen(IF o = "Release" THEN V ELSE bot, head, t)
  OBVIOUS
<1>5. PICK m : m = [val |-> x, rview |-> join(U, Q)]
  OBVIOUS
<1>6. /\ hist' = [hist EXCEPT ![head] = Append(hist[head], m)] /\ cur' = [cur EXCEPT ![th] = V]
      /\ rel' = rel /\ reads' = reads /\ race' = race
  <2>1. released(th, V, o) = IF o = "Release" THEN V ELSE bot
    BY DEF released, Releases, Memory
  <2>2. Q = seen(released(th, V, o), head, t)
    BY <1>4, <2>1
  <2>3. cur' = [cur EXCEPT ![th] = V]
    BY <1>0, <1>2 DEF Update
  <2>4. hist' = [hist EXCEPT ![head] = Append(hist[head], m)]
    BY <1>0, <1>2, <1>3, <1>5, <2>2 DEF Update
  <2>. QED BY <2>3, <2>4 DEF Update
<1>7. V \in View /\ V[head] = L + 1 /\ \A y \in Clock : y # head => V[y] = cur[th][y]
  <2>1. cur[th] \in View /\ cur[th][head] \in 1..L
    BY <1>0, <1>1 DEF Bounded
  <2>2. loadView(cur[th], head, L, o) = seen(cur[th], head, L)
    BY DEF loadView, Acquires
  <2>. QED BY <1>0, <1>1, <1>2, <2>1, <2>2 DEF seen, View
<1>8. Q \in View /\ Q[head] = L + 1 /\ \A y \in Clock : y # head => Q[y] = IF o = "Release" THEN cur[th][y] ELSE 1
  <2>1. bot \in View /\ \A y \in Clock : bot[y] = 1
    BY <1>0, <1>1 DEF Bounded, bot
  <2>. QED BY <1>0, <1>1, <1>4, <1>7, <2>1 DEF seen, View
<1>9. U \in View /\ Bounded(U)
  BY <1>0, <1>1, <1>3 DEF Bounded
<1>10. PICK R : R = join(U, Q) /\ m.rview = R /\ m.val = x
  BY <1>5
<1>11. R \in View /\ R[head] = L + 1 /\ \A y \in Clock : R[y] = IF U[y] < Q[y] THEN Q[y] ELSE U[y]
  <2>1. U[head] \in 1..L
    BY <1>0, <1>1, <1>9 DEF Bounded
  <2>2. R \in View /\ \A y \in Clock : R[y] = IF U[y] < Q[y] THEN Q[y] ELSE U[y]
    BY <1>0, <1>8, <1>9, <1>10 DEF join, View
  <2>. QED BY <1>0, <1>1, <1>8, <2>1, <2>2
<1>12. m \in Message
  BY <1>0, <1>5, <1>10, <1>11 DEF Message
<1>13. /\ hist' \in [Loc -> Seq(Message)] /\ hist'[head] = Append(hist[head], m)
       /\ \A l \in Loc : l # head => hist'[l] = hist[l]
  BY <1>0, <1>1, <1>6, <1>12 DEF Memory
<1>14. /\ L = Len(hist[head]) /\ Len(hist'[head]) = L + 1 /\ hist'[head][L + 1] = m /\ hist'[head] # <<>>
       /\ \A i \in 1..L : hist'[head][i] = hist[head][i]
  BY <1>0, <1>1, <1>12, <1>13 DEF Last
<1>15. Last(head)' = L + 1 /\ latest(head)' = x /\ \A l \in Loc : l # head => Last(l)' = Last(l)
  BY <1>0, <1>10, <1>13, <1>14 DEF Last, latest, val
<1>16. \A W : Bounded(W) => Bounded(W)'
  <2>1. \A l \in Loc : Last(l)' >= Last(l) /\ Last(l) \in Nat /\ Last(l)' \in Nat
    BY <1>0, <1>1, <1>15, Numbers
  <2>. QED BY <1>6, <2>1 DEF Bounded
<1>20. Bounded(V)' /\ Bounded(R)'
  <2>1. V[head] = L + 1 /\ R[head] = L + 1
    BY <1>0, <1>7, <1>11
  <2>2. ASSUME NEW y \in Clock PROVE U[y] \in Nat /\ cur[th][y] \in Nat
    BY <1>0, <1>1, <1>9 DEF Bounded, View
  <2>4. ASSUME NEW l \in Loc PROVE V[l] \in 1..Last(l)' /\ R[l] \in 1..Last(l)'
    <3>1. CASE l = head
      BY <1>0, <1>1, <1>15, <2>1, <3>1
    <3>2. CASE l # head
      <4>1. U[l] \in 1..Last(l) /\ cur[th][l] \in 1..Last(l) /\ Last(l) \in Nat \ {0} /\ l \in Clock
        BY <1>0, <1>1, <1>9, Numbers, Locations DEF Bounded
      <4>. QED BY <1>0, <1>7, <1>8, <1>11, <1>15, <3>2, <4>1
    <3>. QED BY <3>1, <3>2
  <2>5. ASSUME NEW c \in Cell PROVE V[ReadOf(c)] <= reads'[c] /\ R[ReadOf(c)] <= reads'[c]
    <3>1. /\ U[ReadOf(c)] <= reads[c] /\ cur[th][ReadOf(c)] <= reads[c] /\ reads[c] \in Nat \ {0}
          /\ ReadOf(c) \in Clock /\ ReadOf(c) # head
      BY <1>0, <1>1, <1>9, Numbers, Locations DEF Bounded
    <3>. QED BY <1>0, <1>6, <1>7, <1>8, <1>11, <2>2, <3>1
  <2>. QED BY <1>0, <1>7, <1>11, <2>4, <2>5 DEF Bounded
<1>21. /\ cur' \in [Thread -> View] /\ cur'[th] = V /\ \A u \in Thread \ {th} : cur'[u] = cur[u]
  BY <1>0, <1>6, <1>7 DEF Memory
<1>22. \A n \in Node : hist'[node(n)] = hist[node(n)]
  BY <1>0, <1>13, Locations
<1>23. Memory'
  <2>1. ASSUME NEW u \in Thread PROVE Bounded(cur[u])'
    <3>1. CASE u = th
      BY <1>0, <1>20, <1>21, <3>1 DEF Bounded
    <3>2. CASE u # th
      <4>1. PICK W : W = cur[u] /\ W = cur'[u]
        BY <1>0, <1>21, <3>2
      <4>2. Bounded(W)'
        BY <1>0, <1>16, <4>1 DEF Memory
      <4>. QED BY <4>1, <4>2 DEF Bounded
    <3>. QED BY <3>1, <3>2
  <2>2. ASSUME NEW i \in 1..Last(head)' PROVE val(head, i)' \in Node \cup {Null} /\ Bounded(hist[head][i].rview)'
    <3>1. CASE i = L + 1
      BY <1>0, <1>10, <1>14, <1>20, <3>1 DEF val, Bounded
    <3>2. CASE i # L + 1
      <4>1. i \in 1..L
        BY <1>0, <1>1, <1>15, <3>2
      <4>2. val(head, i) \in Node \cup {Null} /\ Bounded(hist[head][i].rview) /\ hist'[head][i] = hist[head][i]
        BY <1>0, <1>14, <4>1 DEF Memory
      <4>3. PICK W : W = hist[head][i].rview /\ W = hist'[head][i].rview
        BY <4>2
      <4>4. Bounded(W)'
        BY <1>0, <1>16, <4>2, <4>3
      <4>. QED BY <4>2, <4>3, <4>4 DEF Bounded, val
    <3>. QED BY <3>1, <3>2
  <2>3. \A l \in Loc : hist'[l] # <<>>
    BY <1>0, <1>13, <1>14 DEF Memory
  <2>4. \A n \in Node : latest(node(n))' \in Record
    BY <1>0, <1>22 DEF Memory, latest, val, Last
  <2>. QED BY <1>0, <1>6, <1>13, <1>21, <2>1, <2>2, <2>3, <2>4 DEF Memory
<1>24. ASSUME NEW n \in Node
       PROVE  /\ U[node(n)] = Last(node(n)) => R[node(n)] = Last(node(n))
              /\ o = "Release" /\ cur[th][node(n)] = Last(node(n)) => R[node(n)] = Last(node(n))
  <2>1. /\ node(n) \in Clock /\ node(n) # head
        /\ U[node(n)] \in 1..Last(node(n)) /\ cur[th][node(n)] \in 1..Last(node(n)) /\ Last(node(n)) \in Nat \ {0}
    BY <1>0, <1>1, <1>9, Numbers, Locations DEF Bounded
  <2>. QED BY <1>0, <1>8, <1>11, <2>1
<1>25. U = hist[head][Last(head)].rview /\ R = hist'[head][Last(head) + 1].rview
  BY <1>0, <1>3, <1>10, <1>14
<1>26. cur'[th][head] = L + 1 /\ \A y \in Clock \ {head} : cur'[th][y] = cur[th][y]
  BY <1>0, <1>7, <1>21
<1>. QED
  BY <1>0, <1>6, <1>14, <1>15, <1>16, <1>21, <1>22, <1>23, <1>24, <1>25, <1>26

(* The head is the top of the stack, and the popper may still read it.     *)
LEMMA TopIsHead ==
  ASSUME NEW S, Inv(S)
  PROVE  /\ S \in Seq(Node) /\ Len(S) \in Nat /\ Last(head) \in Nat \ {0} /\ Len(S) < Last(head)
         /\ cur[P][head] \in 1..Last(head) /\ latest(head) = Top(S, Len(S))
         /\ \A k \in 1..Len(S) : hist[head][Last(head)].rview[node(S[k])] = Last(node(S[k]))
<1>1. S \in Seq(Node) /\ Len(S) \in Nat /\ Len(S) < Last(head)
  BY DEF Inv, Stacked
<1>2. Last(head) \in Nat \ {0} /\ Bounded(cur[P]) /\ head \in Loc
  BY Numbers, Locations DEF Inv, Memory
<1>3. cur[P][head] \in 1..Last(head)
  BY <1>2 DEF Bounded
<1>4. Last(head) \in cur[P][head]..Last(head)
  BY <1>2, <1>3
<1>5. Installed(S, Last(head)) /\ Depth(S, Last(head)) = Len(S)
  BY <1>1, <1>2, <1>4 DEF Inv, Stacked, Depth
<1>. QED BY <1>1, <1>2, <1>3, <1>5 DEF Installed, latest

(* A push puts its node on top of the list.                                *)
LEMMA PushCasStep ==
  ASSUME TreiberAssumption, NEW S, Inv(S), NEW th \in Pusher, pc[th] = "push_cas",
         Cas(th, head, reg[th].h, reg[th].n, "Release"), Goto(th, "idle"), UNCHANGED <<calls, reg, out>>
  PROVE  Inv(Append(S, reg[th].n))'
<1>1. Holds(th)
  BY DEF Holds
<1>2. PICK n \in Node : /\ n = reg[th].n /\ n = reg'[th].n /\ Owns(th) /\ Knows(cur[th], n) /\ ~Free(n)
                        /\ latest(node(n)).next = latest(head)
  BY <1>1 DEF Inv, Owners, Owns, Cas
<1>3. /\ th \in Thread /\ P \in Thread /\ P # th /\ Pusher \subseteq Thread
      /\ head \in Clock /\ \A m \in Node : node(m) \in Clock \ {head} /\ ReadOf(node(m)) \in Clock \ {head}
  BY Locations DEF TreiberAssumption, P
<1>4. Update(th, head, n, "Release") /\ Memory
  BY <1>2 DEF Cas, Inv
<1>. DEFINE L == Last(head)
            R == hist'[head][L + 1].rview
<1>5. /\ Memory' /\ \A V : Bounded(V) => Bounded(V)'
      /\ Last(head)' = L + 1 /\ latest(head)' = n
      /\ \A i \in 1..L : hist'[head][i] = hist[head][i]
      /\ \A m \in Node : hist'[node(m)] = hist[node(m)]
      /\ \A u \in Thread \ {th} : cur'[u] = cur[u]
      /\ reads' = reads /\ race' = race
      /\ \A m \in Node : hist[head][L].rview[node(m)] = Last(node(m)) => R[node(m)] = Last(node(m))
      /\ cur[th][node(n)] = Last(node(n)) => R[node(n)] = Last(node(n))
  BY <1>3, <1>4, Updated
<1>6. /\ S \in Seq(Node) /\ Len(S) \in Nat /\ L \in Nat \ {0} /\ Len(S) < L
      /\ cur[P][head] \in 1..L /\ latest(head) = Top(S, Len(S))
      /\ \A k \in 1..Len(S) : hist[head][L].rview[node(S[k])] = Last(node(S[k]))
  BY TopIsHead
<1>7. PICK U : U = Append(S, n) /\ U = Append(S, reg[th].n) /\ U = Append(S, reg'[th].n)
  BY <1>2
<1>8. /\ U \in Seq(Node) /\ Len(U) = Len(S) + 1 /\ U[Len(S) + 1] = n
      /\ \A k \in 1..Len(S) : U[k] = S[k]
  <2>1. S \in Seq(Node) /\ U = Append(S, n) /\ n \in Node
    BY <1>6, <1>7
  <2>. QED BY <2>1, AppendProperties
<1>9. /\ pc' \in [Thread -> PushLabel \cup PopLabel] /\ pc'[th] = "idle" /\ \A u \in Thread : u # th => pc'[u] = pc[u]
      /\ calls' = calls /\ reg' = reg /\ out' = out
  BY <1>3 DEF Goto, Inv, Control, PushLabel
<1>10. Control'
  BY <1>3, <1>9, Locations DEF Inv, Control, PushLabel
<1>11. \A u \in Pusher : Holds(u)' <=> Holds(u) /\ u # th
  BY <1>3, <1>9 DEF Holds
<1>12. \A m \in Node : Last(node(m))' = Last(node(m)) /\ latest(node(m))' = latest(node(m)) /\ (Free(m)' <=> Free(m))
  BY <1>5, <1>9 DEF Last, latest, val, Free
<1>13. Owners'
  <2>1. ASSUME NEW u \in Pusher, Holds(u), u # th PROVE Owns(u)'
    <3>1. Owns(u) /\ u \in Thread
      BY <1>3, <2>1 DEF Inv, Owners
    <3>. QED BY <1>3, <1>5, <1>9, <1>12, <2>1, <3>1 DEF Owns, Knows
  <2>2. ASSUME NEW m \in Node, Free(m) PROVE Bounded(out.free[m])' /\ Knows(out.free[m], m)'
    <3>1. Bounded(out.free[m]) /\ Knows(out.free[m], m)
      BY <2>2 DEF Inv, Owners
    <3>2. PICK W : W = out.free[m] /\ W = out'.free[m]
      BY <1>9
    <3>3. Bounded(W)'
      BY <1>5, <3>1, <3>2
    <3>. QED BY <1>5, <1>12, <3>1, <3>2, <3>3 DEF Bounded, Knows
  <2>. QED BY <1>9, <1>11, <1>12, <2>1, <2>2 DEF Inv, Owners
<1>14. pc'[P] = pc[P] /\ reg'[P] = reg[P] /\ cur'[P] = cur[P]
  BY <1>3, <1>5, <1>9
<1>15. Pops'
  BY <1>5, <1>12, <1>14 DEF Inv, Pops, Looks
<1>16. ~(\E k \in 1..Len(S) : S[k] = n)
  BY <1>1, <1>2 DEF Inv, Stacked
<1>17. Stacked(U)'
  <2>1. \A j, k \in 1..Len(U) : U[j] = U[k] => j = k
    <3>1. \A j, k \in 1..Len(S) : S[j] = S[k] => j = k
      BY DEF Inv, Stacked
    <3>2. \A k \in 1..Len(U) : k \in 1..Len(S) \/ k = Len(S) + 1
      BY <1>6, <1>8
    <3>. QED BY <1>8, <1>16, <3>1, <3>2
  <2>2. ASSUME NEW k \in 1..Len(U)
        PROVE  /\ ~Free(U[k])' /\ latest(node(U[k]))'.next = Top(U, k - 1)
               /\ \A u \in Pusher : Holds(u)' => reg'[u].n # U[k]
    <3>1. CASE k = Len(S) + 1
      <4>1. U[k] = n
        BY <1>8, <3>1
      <4>2. latest(node(n)).next = Top(U, k - 1)
        BY <1>2, <1>6, <1>8, <3>1 DEF Top
      <4>3. \A u \in Pusher : Holds(u)' => reg'[u].n # n
        BY <1>1, <1>2, <1>9, <1>11 DEF Inv, Owners
      <4>. QED BY <1>2, <1>12, <4>1, <4>2, <4>3
    <3>2. CASE k # Len(S) + 1
      <4>1. k \in 1..Len(S) /\ U[k] = S[k] /\ S[k] \in Node /\ Top(U, k - 1) = Top(S, k - 1)
        BY <1>6, <1>8, <3>2 DEF Top
      <4>2. ~Free(S[k]) /\ latest(node(S[k])).next = Top(S, k - 1) /\ \A u \in Pusher : Holds(u) => reg[u].n # S[k]
        BY <4>1 DEF Inv, Stacked
      <4>. QED BY <1>9, <1>11, <1>12, <4>1, <4>2
    <3>. QED BY <3>1, <3>2
  <2>3. ASSUME NEW m \in Node
        PROVE  \/ Free(m)' \/ \E u \in Pusher : Holds(u)' /\ reg'[u].n = m
               \/ \E k \in 1..Len(U) : U[k] = m
    <3>1. CASE m = n
      <4>1. Len(S) + 1 \in 1..Len(U)
        BY <1>6, <1>8
      <4>. QED BY <1>8, <3>1, <4>1
    <3>2. CASE m # n
      <4>1. \/ Free(m) \/ \E u \in Pusher : Holds(u) /\ reg[u].n = m
            \/ \E k \in 1..Len(S) : S[k] = m
        BY DEF Inv, Stacked
      <4>2. \A k \in 1..Len(S) : k \in 1..Len(U)
        BY <1>6, <1>8
      <4>. QED BY <1>2, <1>8, <1>9, <1>11, <1>12, <3>2, <4>1, <4>2
    <3>. QED BY <3>1, <3>2
  <2>4. ASSUME NEW i \in cur'[P][head]..Last(head)' PROVE Installed(U, i)'
    <3>1. Last(head)' = L + 1 /\ i \in Nat /\ cur[P][head] <= i /\ i <= L + 1
      BY <1>5, <1>6, <1>14, <2>4
    <3>2. PICK d \in Int : d = Len(U) - (L + 1 - i)
      BY <1>6, <1>8, <3>1
    <3>3. d >= 0 /\ val(head, i)' = Top(U, d) /\ \A k \in 1..d : hist'[head][i].rview[node(U[k])] = Last(node(U[k]))
      <4>1. CASE i = L + 1
        <5>1. d = Len(S) + 1
          BY <1>6, <1>8, <3>2, <4>1
        <5>2. val(head, i)' = n
          BY <1>5, <4>1 DEF latest, val
        <5>3. ASSUME NEW k \in 1..d PROVE R[node(U[k])] = Last(node(U[k]))
          <6>1. CASE k = d
            BY <1>2, <1>5, <1>8, <5>1, <6>1 DEF Knows
          <6>2. CASE k # d
            <7>1. k \in 1..Len(S) /\ U[k] = S[k] /\ S[k] \in Node
              BY <1>6, <1>8, <5>1, <6>2
            <7>. QED BY <1>5, <1>6, <7>1
          <6>. QED BY <6>1, <6>2
        <5>. QED BY <1>6, <1>8, <4>1, <5>1, <5>2, <5>3 DEF Top
      <4>2. CASE i # L + 1
        <5>1. i \in cur[P][head]..L /\ i \in 1..L /\ d = Len(S) - (L - i) /\ d <= Len(S)
          <6>1. i <= L /\ cur[P][head] \in Nat \ {0}
            BY <1>6, <3>1, <4>2
          <6>. QED BY <1>6, <1>8, <3>1, <3>2, <6>1
        <5>2. Installed(S, i) /\ hist'[head][i] = hist[head][i] /\ d = Depth(S, i)
          BY <1>5, <5>1 DEF Inv, Stacked, Depth
        <5>3. d >= 0 /\ \A k \in 1..d : k \in 1..Len(S) /\ U[k] = S[k]
          BY <1>6, <1>8, <5>1, <5>2 DEF Installed
        <5>4. Top(U, d) = Top(S, d)
          BY <3>2, <5>1, <5>3 DEF Top
        <5>. QED BY <5>1, <5>2, <5>3, <5>4 DEF Installed, val
      <4>. QED BY <4>1, <4>2
    <3>4. \A k \in 1..d : U[k] \in Node
      <4>1. \A k \in 1..d : k \in 1..Len(U)
        BY <1>6, <1>8, <3>1, <3>2
      <4>. QED BY <1>8, <4>1
    <3>5. Depth(U, i)' = d
      <4>1. Depth(U, i)' = Len(U) - ((L + 1) - i)
        BY <3>1 DEF Depth
      <4>. QED BY <1>6, <1>8, <3>1, <3>2, <4>1
    <3>. QED BY <1>12, <3>3, <3>4, <3>5 DEF Installed
  <2>5. Looks' => \E k \in 1..Len(U) : U[k] = reg'[P].h
    <3>1. Looks' => \E k \in 1..Len(S) : S[k] = reg'[P].h
      BY <1>14 DEF Inv, Stacked, Looks
    <3>2. \A k \in 1..Len(S) : k \in 1..Len(U)
      BY <1>6, <1>8
    <3>. QED BY <1>8, <3>1, <3>2
  <2>6. Len(U) < Last(head)'
    BY <1>5, <1>6, <1>8
  <2>. QED BY <1>8, <2>1, <2>2, <2>3, <2>4, <2>5, <2>6 DEF Stacked
<1>18. NoRace'
  BY <1>5 DEF Inv, NoRace
<1>. QED BY <1>5, <1>7, <1>10, <1>13, <1>15, <1>17, <1>18 DEF Inv

LEMMA FirstOf ==
  ASSUME NEW X, NEW q \in Seq(X), NEW e \in Nat, \A k \in 1..e : k \in 1..Len(q)
  PROVE  /\ SubSeq(q, 1, e) \in Seq(X) /\ Len(SubSeq(q, 1, e)) = e
         /\ \A k \in 1..e : SubSeq(q, 1, e)[k] = q[k]
<1>1. \A k \in 1..e : q[k] \in X
  OBVIOUS
<1>2. /\ SubSeq(q, 1, e) \in Seq(X) /\ Len(SubSeq(q, 1, e)) = IF 1 <= e THEN e - 1 + 1 ELSE 0
      /\ \A k \in 1..e - 1 + 1 : SubSeq(q, 1, e)[k] = q[1 + k - 1]
  BY <1>1, SubSeqProperties
<1>3. \A k \in 1..e : k \in 1..e - 1 + 1 /\ 1 + k - 1 = k
  OBVIOUS
<1>4. Len(SubSeq(q, 1, e)) = e
  BY <1>2
<1>. QED BY <1>2, <1>3, <1>4

LEMMA ViewIsNotNotFree == \A V \in View : V # NotFree
<1>1. DOMAIN NotFree = {} /\ head \in Clock
  BY Locations DEF NotFree
<1>. QED BY <1>1 DEF View

(* A pop takes the node that it has read from the top, and frees it: it    *)
(* knows of all that was done with the node.  Of the heads it may read     *)
(* only its own remains, that passes on what the last push released.       *)
LEMMA PopCasStep ==
  ASSUME TreiberAssumption, NEW S, Inv(S), pc[P] = "pop_cas",
         Cas(P, head, reg[P].h, reg[P].next, "Relaxed"), Goto(P, "idle"), UNCHANGED <<calls, reg>>,
         out' = [free |-> [out.free EXCEPT ![reg[P].h] = cur'[P]], got |-> Append(out.got, reg[P].v)]
  PROVE  /\ Inv(SubSeq(S, 1, Len(S) - 1))'
         /\ Len(S) # 0 /\ S[Len(S)] = reg[P].h /\ reg[P].v = latest(node(reg[P].h)).val
<1>1. Looks
  BY DEF Looks
<1>2. PICK h \in Node : /\ h = reg[P].h /\ latest(head) = h /\ cur[P][node(h)] = Last(node(h))
                        /\ reg[P].next = latest(node(h)).next /\ reg[P].v = latest(node(h)).val
                        /\ cur[P][ReadOf(node(h))] = reads[node(h)]
  BY <1>1 DEF Inv, Pops, Cas
<1>3. /\ P \in Thread /\ P \notin Pusher /\ Pusher \subseteq Thread /\ \A u \in Thread : u # P => u \in Pusher
      /\ head \in Clock /\ \A m \in Node : node(m) \in Clock \ {head} /\ ReadOf(node(m)) \in Clock \ {head}
  BY Locations DEF TreiberAssumption, P
<1>. PICK L : L = Last(head)
  OBVIOUS
<1>4. /\ S \in Seq(Node) /\ Len(S) \in Nat /\ L \in Nat \ {0} /\ Len(S) < L
      /\ cur[P][head] \in 1..L /\ latest(head) = Top(S, Len(S))
      /\ \A k \in 1..Len(S) : hist[head][L].rview[node(S[k])] = Last(node(S[k]))
  BY TopIsHead
<1>5. Len(S) # 0 /\ h = S[Len(S)] /\ Len(S) \in 1..Len(S)
  BY <1>2, <1>4 DEF Top, TreiberAssumption
<1>6. /\ reg[P].next = Top(S, Len(S) - 1) /\ ~Free(h) /\ \A u \in Pusher : Holds(u) => reg[u].n # h
      /\ \A j, k \in 1..Len(S) : S[j] = S[k] => j = k
  BY <1>2, <1>5 DEF Inv, Stacked
<1>7. PICK x \in Node \cup {Null} : x = reg[P].next
  <2>1. latest(node(h)).next \in Node \cup {Null}
    BY DEF Inv, Memory, Record
  <2>. QED BY <1>2, <2>1
<1>8. PICK U : U = SubSeq(S, 1, Len(S) - 1)
  OBVIOUS
<1>9. U \in Seq(Node) /\ Len(U) = Len(S) - 1 /\ Len(U) \in Nat /\ \A k \in 1..Len(U) : U[k] = S[k]
  <2>1. Len(S) - 1 \in Nat /\ \A k \in 1..Len(S) - 1 : k \in 1..Len(S)
    BY <1>4, <1>5
  <2>. QED BY <1>4, <1>8, <2>1, FirstOf, ZenonT(60)
<1>. DEFINE R == hist'[head][L + 1].rview
<1>10. Update(P, head, x, "Relaxed") /\ Memory
  BY <1>2, <1>7 DEF Cas, Inv
<1>11. /\ Memory' /\ \A V : Bounded(V) => Bounded(V)'
       /\ Last(head)' = L + 1 /\ latest(head)' = x
       /\ \A m \in Node : hist'[node(m)] = hist[node(m)]
       /\ \A u \in Thread \ {P} : cur'[u] = cur[u]
       /\ cur'[P][head] = L + 1 /\ \A y \in Clock \ {head} : cur'[P][y] = cur[P][y]
       /\ reads' = reads /\ race' = race
       /\ \A m \in Node : hist[head][L].rview[node(m)] = Last(node(m)) => R[node(m)] = Last(node(m))
  BY <1>3, <1>10, Updated
<1>12. \A m \in Node : Last(node(m))' = Last(node(m)) /\ latest(node(m))' = latest(node(m))
  BY <1>11 DEF Last, latest, val
<1>13. PICK V : V = cur'[P] /\ V \in View /\ V # NotFree /\ Bounded(V)' /\ Knows(V, h)'
  <2>1. cur'[P] \in View /\ Bounded(cur[P])'
    BY <1>3, <1>11 DEF Memory
  <2>2. PICK V : V = cur'[P]
    OBVIOUS
  <2>3. V \in View /\ V # NotFree /\ Bounded(V)'
    BY <2>1, <2>2, ViewIsNotNotFree DEF Bounded
  <2>4. Knows(V, h)'
    BY <1>2, <1>3, <1>11, <1>12, <2>2 DEF Knows
  <2>. QED BY <2>2, <2>3, <2>4
<1>14. /\ out' \in [free : [Node -> View \cup {NotFree}], got : Seq(Item)]
       /\ out'.free[h] = V /\ \A m \in Node : m # h => out'.free[m] = out.free[m]
  <2>1. out \in [free : [Node -> View \cup {NotFree}], got : Seq(Item)]
    BY DEF Inv, Control
  <2>2. out.got \in Seq(Item) /\ reg[P].v \in Item
    BY <1>2, <2>1 DEF Inv, Memory, Record
  <2>3. Append(out.got, reg[P].v) \in Seq(Item)
    BY <2>2, AppendProperties
  <2>4. out' = [free |-> [out.free EXCEPT ![h] = V], got |-> Append(out.got, reg[P].v)]
    BY <1>2, <1>13
  <2>5. out.free \in [Node -> View \cup {NotFree}]
    BY <2>1
  <2>6. out'.free = [out.free EXCEPT ![h] = V] /\ out'.got = Append(out.got, reg[P].v)
    BY <2>4
  <2>7. [out.free EXCEPT ![h] = V] \in [Node -> View \cup {NotFree}]
    BY <1>13, <2>5
  <2>. QED BY <2>3, <2>4, <2>5, <2>6, <2>7
<1>15. \A m \in Node : Free(m)' <=> Free(m) \/ m = h
  BY <1>13, <1>14 DEF Free
<1>16. /\ pc' \in [Thread -> PushLabel \cup PopLabel] /\ pc'[P] = "idle" /\ \A u \in Pusher : pc'[u] = pc[u]
       /\ calls' = calls /\ reg' = reg
  BY <1>3 DEF Goto, Inv, Control, PushLabel
<1>17. Control'
  BY <1>3, <1>14, <1>16 DEF Inv, Control, PopLabel
<1>18. \A u \in Pusher : Holds(u)' <=> Holds(u)
  BY <1>16 DEF Holds
<1>19. Owners'
  <2>1. ASSUME NEW u \in Pusher, Holds(u) PROVE Owns(u)'
    <3>1. Owns(u) /\ u \in Thread \ {P} /\ reg[u].n # h
      BY <1>3, <1>6, <2>1 DEF Inv, Owners
    <3>. QED BY <1>3, <1>11, <1>12, <1>15, <1>16, <2>1, <3>1 DEF Owns, Knows
  <2>2. ASSUME NEW m \in Node, Free(m), m # h PROVE Bounded(out.free[m])' /\ Knows(out.free[m], m)'
    <3>1. Bounded(out.free[m]) /\ Knows(out.free[m], m)
      BY <2>2 DEF Inv, Owners
    <3>2. PICK W : W = out.free[m] /\ W = out'.free[m]
      BY <1>14, <2>2
    <3>3. Bounded(W)'
      BY <1>11, <3>1, <3>2
    <3>. QED BY <1>11, <1>12, <3>1, <3>2, <3>3 DEF Bounded, Knows
  <2>3. Bounded(out.free[h])' /\ Knows(out.free[h], h)'
    BY <1>13, <1>14 DEF Bounded, Knows
  <2>. QED BY <1>15, <1>16, <1>18, <2>1, <2>2, <2>3 DEF Inv, Owners
<1>20. Pops'
  BY <1>3, <1>11, <1>12, <1>16 DEF Inv, Pops, Looks
<1>21. Stacked(U)'
  <2>1. \A k \in 1..Len(U) : k \in 1..Len(S) /\ k # Len(S) /\ S[k] # h /\ S[k] \in Node
    <3>1. \A k \in 1..Len(U) : k \in 1..Len(S) /\ k # Len(S)
      BY <1>4, <1>9
    <3>2. \A k \in 1..Len(S) : S[k] \in Node
      BY <1>4
    <3>. QED BY <1>5, <1>6, <3>1, <3>2
  <2>2. \A j, k \in 1..Len(U) : U[j] = U[k] => j = k
    BY <1>6, <1>9, <2>1
  <2>3. ASSUME NEW k \in 1..Len(U)
        PROVE  /\ ~Free(U[k])' /\ latest(node(U[k]))'.next = Top(U, k - 1)
               /\ \A u \in Pusher : Holds(u)' => reg'[u].n # U[k]
    <3>1. k - 1 = 0 \/ k - 1 \in 1..Len(U)
      BY <1>9
    <3>2. U[k] = S[k] /\ Top(U, k - 1) = Top(S, k - 1)
      BY <1>9, <3>1 DEF Top
    <3>3. ~Free(S[k]) /\ latest(node(S[k])).next = Top(S, k - 1) /\ \A u \in Pusher : Holds(u) => reg[u].n # S[k]
      BY <2>1 DEF Inv, Stacked
    <3>. QED BY <1>12, <1>15, <1>16, <1>18, <2>1, <3>2, <3>3
  <2>4. ASSUME NEW m \in Node
        PROVE  \/ Free(m)' \/ \E u \in Pusher : Holds(u)' /\ reg'[u].n = m
               \/ \E k \in 1..Len(U) : U[k] = m
    <3>1. \/ Free(m) \/ \E u \in Pusher : Holds(u) /\ reg[u].n = m
          \/ \E k \in 1..Len(S) : S[k] = m
      BY DEF Inv, Stacked
    <3>2. \A k \in 1..Len(S) : k \in 1..Len(U) \/ k = Len(S)
      BY <1>4, <1>9
    <3>. QED BY <1>5, <1>9, <1>15, <1>16, <1>18, <3>1, <3>2
  <2>5. ASSUME NEW i \in cur'[P][head]..Last(head)' PROVE Installed(U, i)'
    <3>1. i = L + 1 /\ i \in Nat
      BY <1>4, <1>11, <2>5
    <3>2. Depth(U, i)' = Len(U)
      <4>1. Depth(U, i)' = Len(U) - ((L + 1) - i)
        BY <1>11 DEF Depth
      <4>. QED BY <1>4, <1>9, <3>1, <4>1
    <3>3. val(head, i)' = Top(U, Len(U))
      <4>1. val(head, i)' = x
        BY <1>11, <3>1 DEF latest
      <4>2. Len(U) = 0 \/ Len(U) \in 1..Len(U)
        BY <1>9
      <4>3. Top(U, Len(U)) = Top(S, Len(S) - 1)
        BY <1>9, <4>2 DEF Top
      <4>. QED BY <1>6, <1>7, <4>1, <4>3
    <3>4. ASSUME NEW k \in 1..Len(U) PROVE R[node(U[k])] = Last(node(U[k]))'
      <4>1. U[k] = S[k] /\ k \in 1..Len(S) /\ S[k] \in Node
        BY <1>9, <2>1
      <4>2. hist[head][L].rview[node(S[k])] = Last(node(S[k]))
        BY <1>4, <4>1
      <4>3. R[node(S[k])] = Last(node(S[k])) /\ Last(node(S[k]))' = Last(node(S[k]))
        BY <1>11, <1>12, <4>1, <4>2
      <4>. QED BY <4>1, <4>3
    <3>. QED BY <1>9, <3>1, <3>2, <3>3, <3>4 DEF Installed
  <2>6. Len(U) < Last(head)'
    BY <1>4, <1>9, <1>11
  <2>. QED BY <1>9, <1>16, <2>2, <2>3, <2>4, <2>5, <2>6 DEF Stacked, Looks
<1>22. NoRace'
  BY <1>11 DEF Inv, NoRace
<1>23. Inv(U)'
  BY <1>11, <1>17, <1>19, <1>20, <1>21, <1>22 DEF Inv
<1>. QED BY <1>2, <1>5, <1>8, <1>23

-----------------------------------------------------------------------------
LEMMA InitInv == ASSUME TreiberAssumption, Init PROVE Inv(<<>>)
<1>. PICK B : B = bot
  OBVIOUS
<1>1. /\ hist = [l \in Loc |-> <<[val |-> initMem[l], rview |-> B]>>]
      /\ cur = [th \in Thread |-> B] /\ rel = [th \in Thread |-> B]
      /\ reads = [c \in Cell |-> 1] /\ race = FALSE
      /\ pc = [th \in Thread |-> "idle"] /\ calls = [th \in Thread |-> 0]
      /\ reg = [th \in Thread |-> [x \in Local |-> 0]]
      /\ out = [free |-> [n \in Node |-> B], got |-> <<>>]
  BY DEF Init, CoreInit, WMInit, Local
<1>2. B \in View /\ \A x \in Clock : B[x] = 1
  BY DEF bot, View
<1>6. initMem[head] = Null /\ \A n \in Node : initMem[node(n)] = [val |-> Null, next |-> Null]
  BY Locations DEF initMem
<1>7. \A l \in Loc : initMem[l] \in Node \cup {Null} \cup Record
  BY DEF initMem, Record, Item
<1>3. ASSUME NEW l \in Loc
      PROVE  /\ hist[l] = <<hist[l][1]>> /\ Last(l) = 1 /\ hist[l] # <<>>
             /\ hist[l][1] \in Message /\ hist[l][1].val = initMem[l] /\ hist[l][1].rview = B
  <2>1. PICK m : m = [val |-> initMem[l], rview |-> B]
    OBVIOUS
  <2>2. hist[l] = <<m>>
    BY <1>1, <2>1
  <2>3. Len(<<m>>) = 1 /\ <<m>>[1] = m /\ <<m>> # <<>>
    OBVIOUS
  <2>4. m.val = initMem[l] /\ m.rview = B /\ m \in Message
    BY <1>2, <1>7, <2>1 DEF Message
  <2>. QED BY <2>1, <2>2, <2>3, <2>4 DEF Last
<1>4. \A l \in Loc : latest(l) = initMem[l] /\ val(l, 1) = initMem[l] /\ hist[l][1].rview = B
  <2>1. ASSUME NEW l \in Loc PROVE latest(l) = initMem[l] /\ val(l, 1) = initMem[l]
    <3>1. Last(l) = 1 /\ hist[l][1].val = initMem[l]
      BY <1>3
    <3>. QED BY <3>1 DEF latest, val
  <2>. QED BY <1>3, <2>1
<1>5. Bounded(B)
  <2>1. \A l \in Loc : Last(l) = 1 /\ B[l] = 1
    BY <1>2, <1>3, Locations
  <2>2. \A c \in Cell : reads[c] = 1 /\ B[ReadOf(c)] = 1
    BY <1>1, <1>2, Locations
  <2>. QED BY <1>2, <2>1, <2>2 DEF Bounded
<1>8. Memory
  <2>1. ASSUME NEW l \in Loc PROVE hist[l] \in Seq(Message) /\ hist[l] # <<>>
    <3>1. PICK m \in Message : m = hist[l][1]
      BY <1>3
    <3>2. <<m>> \in Seq(Message)
      OBVIOUS
    <3>. QED BY <1>3, <3>1, <3>2
  <2>2. hist \in [Loc -> Seq(Message)]
    BY <1>1, <2>1
  <2>3. \A i \in 1..Last(head) : val(head, i) \in Node \cup {Null} /\ Bounded(hist[head][i].rview)
    <3>1. Last(head) = 1 /\ val(head, 1) = Null /\ hist[head][1].rview = B
      BY <1>3, <1>4, <1>6, Locations
    <3>2. \A i \in 1..Last(head) : i = 1
      BY <3>1
    <3>. QED BY <1>5, <3>1, <3>2
  <2>4. \A n \in Node : latest(node(n)) \in Record
    <3>1. PICK r \in Record : r = [val |-> Null, next |-> Null]
      BY DEF Record, Item
    <3>2. \A n \in Node : latest(node(n)) = r
      BY <1>4, <1>6, <3>1, Locations
    <3>. QED BY <3>2
  <2>5. /\ cur \in [Thread -> View] /\ \A th \in Thread : Bounded(cur[th])
        /\ rel = [th \in Thread |-> bot] /\ reads \in [Cell -> Nat \ {0}]
    BY <1>1, <1>2, <1>5
  <2>. QED BY <2>1, <2>2, <2>3, <2>4, <2>5 DEF Memory
<1>9. \A n \in Node : Free(n) /\ out.free[n] = B /\ Knows(B, n)
  <2>1. B # NotFree
    BY <1>2, ViewIsNotNotFree
  <2>. QED BY <1>1, <1>2, <1>3, <2>1, Locations DEF Free, Knows
<1>10. \A th \in Pusher : ~Holds(th)
  BY <1>1, Locations DEF Holds
<1>11. pc[P] = "idle" /\ cur[P] = B /\ ~Looks
  BY <1>1, Locations DEF Looks
<1>12. Control
  <2>1. /\ out.free \in [Node -> View \cup {NotFree}] /\ out.got \in Seq(Item)
        /\ out = [free |-> out.free, got |-> out.got]
    BY <1>1, <1>2
  <2>2. out \in [free : [Node -> View \cup {NotFree}], got : Seq(Item)]
    BY <2>1
  <2>3. reg \in [Thread -> [Local -> Datum]]
    BY <1>1 DEF Datum
  <2>. QED BY <1>1, <1>11, <2>2, <2>3, Locations DEF Control, PushLabel, PopLabel
<1>13. Owners
  BY <1>5, <1>9, <1>10 DEF Owners
<1>14. Pops
  BY <1>1, <1>2, <1>11, Locations DEF Pops
<1>15. Stacked(<<>>)
  <2>1. Last(head) = 1 /\ val(head, 1) = Null /\ cur[P][head] = 1
    BY <1>2, <1>3, <1>4, <1>6, <1>11, Locations
  <2>2. Len(<<>>) = 0 /\ <<>> \in Seq(Node)
    OBVIOUS
  <2>3. \A i \in cur[P][head]..Last(head) : i = 1
    BY <2>1
  <2>4. Installed(<<>>, 1)
    BY <2>1, <2>2 DEF Installed, Depth, Top
  <2>. QED BY <1>9, <1>11, <2>1, <2>2, <2>3, <2>4 DEF Stacked
<1>. QED BY <1>1, <1>8, <1>12, <1>13, <1>14, <1>15 DEF Inv, NoRace

LEMMA StutterStep == ASSUME NEW S, Inv(S), UNCHANGED state PROVE Inv(S)'
<1>. UNCHANGED <<hist, cur, rel, reads, race, pc, reg, calls, out>>
  BY DEF state, wm
<1>1. \A V : Bounded(V) <=> Bounded(V)'
  BY DEF Bounded, Last
<1>2. Memory'
  BY <1>1 DEF Inv, Memory, Bounded, Last, val, latest
<1>3. Control' /\ NoRace' /\ Pops'
  BY DEF Inv, Control, NoRace, Pops, Looks, Last, val, latest
<1>4. Owners'
  BY DEF Inv, Owners, Owns, Holds, Free, Knows, Bounded, Last, val, latest
<1>5. Stacked(S)'
  BY DEF Inv, Stacked, Holds, Free, Looks, Installed, Depth, Last, val, latest
<1>. QED BY <1>2, <1>3, <1>4, <1>5 DEF Inv

(* What a step does to the list: nothing, a push, or a pop; the nodes that *)
(* were linked keep their contents.                                        *)
Intact(S) == \A k \in 1..Len(S) : latest(node(S[k]))' = latest(node(S[k]))
Keeps(S) == Inv(S)' /\ Intact(S) /\ out'.got = out.got
Grows(S) == \E th \in Pusher, n \in Node :
  /\ Holds(th) /\ Inv(Append(S, n))' /\ Intact(S) /\ out'.got = out.got
  /\ latest(node(n))'.val = <<th, calls[th]>>
Shrinks(S) ==
  /\ Len(S) # 0 /\ Inv(SubSeq(S, 1, Len(S) - 1))' /\ Intact(S)
  /\ out'.got = Append(out.got, latest(node(S[Len(S)])).val)

LEMMA IntactSteps ==
  ASSUME NEW S, Inv(S), NEW l \in Loc, NEW q, hist' = hist \/ hist' = [hist EXCEPT ![l] = q],
         l = head \/ \E n \in Node : l = node(n) /\ \A k \in 1..Len(S) : S[k] # n
  PROVE  /\ Intact(S)
         /\ l = head => \A n \in Node : latest(node(n))' = latest(node(n))
<1>1. S \in Seq(Node) /\ \A k \in 1..Len(S) : S[k] \in Node
  BY DEF Inv, Stacked
<1>2. \A m \in Node : node(m) # l => hist'[node(m)] = hist[node(m)]
  BY Locations DEF Inv, Memory
<1>3. \A m \in Node : node(m) # l => latest(node(m))' = latest(node(m))
  BY <1>2 DEF latest, val, Last
<1>. QED BY <1>1, <1>3, Locations DEF Intact

LEMMA PusherSteps ==
  ASSUME TreiberAssumption, NEW S, Inv(S), NEW th \in Pusher, Push(th) PROVE Keeps(S) \/ Grows(S)
<1>1. CASE New(th)
  <2>1. PICK n \in Node : Free(n) /\ \E q : hist' = [hist EXCEPT ![node(n)] = q]
    BY <1>1 DEF New, AllocateCell
  <2>2. PICK q : hist' = [hist EXCEPT ![node(n)] = q]
    BY <2>1
  <2>3. node(n) \in Loc /\ \A k \in 1..Len(S) : S[k] # n
    BY <2>1, Locations DEF Inv, Stacked
  <2>4. Intact(S)
    BY <2>2, <2>3, IntactSteps
  <2>5. out'.got = out.got
    BY <1>1 DEF New, Inv, Control
  <2>. QED BY <1>1, <2>4, <2>5, NewStep DEF Keeps
<1>2. CASE PushLoad(th)
  <2>1. hist' = hist /\ out' = out
    BY <1>2 DEF PushLoad, LoadInto, Load
  <2>. QED BY <1>2, <2>1, Locations, IntactSteps, PushLoadStep DEF Keeps
<1>3. CASE PushLink(th)
  <2>1. PICK n \in Node : n = reg[th].n /\ \A k \in 1..Len(S) : S[k] # n
    BY <1>3 DEF PushLink, From, Holds, Inv, Owners, Owns, Stacked
  <2>2. PICK q : hist' = [hist EXCEPT ![node(n)] = q] /\ out' = out
    BY <1>3, <2>1 DEF PushLink, WriteCell
  <2>3. node(n) \in Loc
    BY Locations
  <2>4. Intact(S)
    BY <2>1, <2>2, <2>3, IntactSteps
  <2>. QED BY <1>3, <2>2, <2>4, PushLinkStep DEF Keeps
<1>4. CASE PushCas(th)
  <2>1. pc[th] = "push_cas" /\ UNCHANGED <<calls, reg, out>> /\ Holds(th)
    BY <1>4 DEF PushCas, From, Holds
  <2>2. CASE Cas(th, head, reg[th].h, reg[th].n, "Release") /\ Goto(th, "idle")
    <3>1. PICK q : hist' = [hist EXCEPT ![head] = q]
      BY <2>2 DEF Cas, Update
    <3>2. Intact(S) /\ \A n \in Node : latest(node(n))' = latest(node(n))
      BY <3>1, Locations, IntactSteps
    <3>3. PICK n \in Node : n = reg[th].n /\ latest(node(n)).val = <<th, calls[th]>>
      BY <2>1 DEF Inv, Owners, Owns
    <3>4. Inv(Append(S, n))'
      <4>1. Inv(Append(S, reg[th].n))' /\ reg' = reg
        BY <2>1, <2>2, PushCasStep
      <4>. QED BY <3>3, <4>1
    <3>. QED BY <2>1, <3>2, <3>3, <3>4 DEF Grows
  <2>3. CASE CasFails(th, head, reg[th].h, "Relaxed") /\ Goto(th, "push_load")
    <3>1. hist' = hist
      BY <2>3 DEF CasFails, Load
    <3>. QED BY <2>1, <2>3, <3>1, Locations, IntactSteps, PushFailsStep DEF Keeps
  <2>. QED BY <1>4, <2>2, <2>3 DEF PushCas
<1>. QED BY <1>1, <1>2, <1>3, <1>4 DEF Push

LEMMA PopperSteps ==
  ASSUME TreiberAssumption, NEW S, Inv(S), Pop(P) PROVE Keeps(S) \/ Shrinks(S)
<1>1. CASE PopCall(P) \/ PopLoad(P)
  <2>1. hist' = hist /\ out' = out
    BY <1>1 DEF PopCall, PopLoad, PopLoadWith, LoadInto, Load
  <2>. QED BY <1>1, <2>1, Locations, IntactSteps, PopLoadStep DEF Keeps
<1>2. CASE PopNext(P) \/ PopVal(P)
  <2>1. hist' = hist /\ out' = out
    BY <1>2 DEF PopNext, PopVal, ReadCell
  <2>. QED BY <1>2, <2>1, Locations, IntactSteps, PopReadStep DEF Keeps
<1>3. CASE PopCas(P)
  <2>1. pc[P] = "pop_cas" /\ UNCHANGED <<calls, reg>>
    BY <1>3 DEF PopCas, From
  <2>2. CASE /\ Cas(P, head, reg[P].h, reg[P].next, "Relaxed")
             /\ out' = [free |-> [out.free EXCEPT ![reg[P].h] = cur'[P]],
                        got |-> Append(out.got, reg[P].v)]
             /\ Goto(P, "idle")
    <3>1. PICK q : hist' = [hist EXCEPT ![head] = q]
      BY <2>2 DEF Cas, Update
    <3>2. Intact(S)
      BY <3>1, Locations, IntactSteps
    <3>3. /\ Inv(SubSeq(S, 1, Len(S) - 1))' /\ Len(S) # 0
          /\ S[Len(S)] = reg[P].h /\ reg[P].v = latest(node(reg[P].h)).val
      BY <2>1, <2>2, PopCasStep
    <3>4. out'.got = Append(out.got, latest(node(S[Len(S)])).val)
      BY <2>2, <3>3
    <3>. QED BY <3>2, <3>3, <3>4 DEF Shrinks
  <2>3. CASE CasFails(P, head, reg[P].h, "Relaxed") /\ Goto(P, "pop_load") /\ UNCHANGED out
    <3>1. hist' = hist
      BY <2>3 DEF CasFails, Load
    <3>. QED BY <2>1, <2>3, <3>1, Locations, IntactSteps, PopFailsStep DEF Keeps
  <2>. QED BY <1>3, <2>2, <2>3 DEF PopCas
<1>. QED BY <1>1, <1>2, <1>3 DEF Pop

LEMMA Steps ==
  ASSUME TreiberAssumption, NEW S, Inv(S), [Next]_state PROVE Keeps(S) \/ Grows(S) \/ Shrinks(S)
<1>1. CASE UNCHANGED state
  <2>1. hist' = hist /\ out' = out
    BY <1>1 DEF state, wm
  <2>. QED BY <1>1, <2>1, Locations, IntactSteps, StutterStep DEF Keeps
<1>. QED BY <1>1, PusherSteps, PopperSteps DEF Next, P

Stacks == \E S : Inv(S)

LEMMA Inductive == ASSUME TreiberAssumption PROVE Spec => []Stacks
<1>1. Init => Stacks
  BY InitInv DEF Stacks
<1>2. Stacks /\ [Next]_state => Stacks'
  <2>. SUFFICES ASSUME NEW S, Inv(S), [Next]_state PROVE Stacks'
    BY DEF Stacks
  <2>1. Keeps(S) \/ Grows(S) \/ Shrinks(S)
    BY Steps
  <2>. QED BY <2>1 DEF Keeps, Grows, Shrinks, Stacks
<1>. QED BY <1>1, <1>2, PTL DEF Spec

-----------------------------------------------------------------------------
(* The least of a set of numbers.                                          *)
LEMMA Least ==
  ASSUME NEW B, B \subseteq Nat, B # {}
  PROVE  \E n \in B : \A m \in B : n <= m
<1>. DEFINE R == {ss \in Nat \X Nat : ss[1] < ss[2]}
<1>1. \E n \in B : \A m \in B : ~(<<m, n>> \in R)
  <2>1. IsWellFoundedOn(R, Nat)
    BY NatLessThanWellFounded, Zenon DEF OpToRel
  <2>. HIDE DEF R
  <2>. QED BY <2>1, WFMin, Zenon
<1>2. PICK n \in B : \A m \in B : ~(<<m, n>> \in R)
  BY <1>1
<1>3. ASSUME NEW m \in B PROVE n <= m
  <2>1. m \in Nat /\ n \in Nat
    OBVIOUS
  <2>2. ~(m < n)
    BY <1>2, <2>1
  <2>. QED BY <2>1, <2>2
<1>. QED BY <1>3

(* The list from the head on is S from the top down: where a link of the   *)
(* two differed first, the link before it would lead to one node.          *)
Unrolls(f) ==
  f = [k \in 1..Last(head) |->
         IF k = 1 THEN latest(head)
         ELSE LET n == f[k - 1] IN IF n = Null THEN Null ELSE latest(node(n)).next]

LEMMA ReadOff ==
  ASSUME TreiberAssumption, NEW S, Inv(S)
  PROVE  /\ Linked = [k \in 1..Len(S) |-> S[Len(S) + 1 - k]] /\ DOMAIN Linked = 1..Len(S)
         /\ Contents = [k \in 1..Len(S) |-> latest(node(S[Len(S) + 1 - k])).val]
<1>1. PICK K : K = Last(head) /\ K \in Nat \ {0} /\ Len(S) < K
  BY TopIsHead
<1>2. /\ S \in Seq(Node) /\ Len(S) \in Nat /\ latest(head) = Top(S, Len(S))
      /\ \A k \in 1..Len(S) : S[k] \in Node /\ S[k] # Null /\ latest(node(S[k])).next = Top(S, k - 1)
  BY TopIsHead DEF Inv, Stacked, TreiberAssumption
<1>. PICK d : d = Len(S)
  OBVIOUS
<1>3. PICK g : g = [k \in 1..K |-> IF k <= d THEN S[d + 1 - k] ELSE Null]
  OBVIOUS
<1>4. ASSUME NEW k \in 1..K
      PROVE  g[k] = IF k = 1 THEN latest(head)
                    ELSE LET n == g[k - 1] IN IF n = Null THEN Null ELSE latest(node(n)).next
  <2>1. g[k] = Top(S, IF k <= d THEN d + 1 - k ELSE 0)
    BY <1>1, <1>2, <1>3 DEF Top
  <2>2. CASE k = 1
    BY <1>2, <2>1, <2>2 DEF Top
  <2>3. CASE k # 1 /\ k <= d + 1
    <3>1. k - 1 \in 1..K /\ k - 1 <= d /\ d + 1 - (k - 1) \in 1..d /\ (d + 1 - (k - 1)) - 1 = d + 1 - k
      BY <1>1, <1>2, <2>3
    <3>2. g[k - 1] = S[d + 1 - (k - 1)]
      BY <1>3, <3>1
    <3>3. g[k - 1] # Null /\ latest(node(g[k - 1])).next = Top(S, d + 1 - k)
      BY <1>2, <3>1, <3>2
    <3>4. k <= d \/ d + 1 - k = 0
      BY <1>2, <2>3
    <3>. QED BY <2>1, <2>3, <3>3, <3>4 DEF Top
  <2>4. CASE k > d + 1
    <3>1. k - 1 \in 1..K /\ ~(k - 1 <= d) /\ k # 1 /\ ~(k <= d)
      BY <1>1, <1>2, <2>4
    <3>. QED BY <1>3, <3>1
  <2>. QED BY <1>1, <1>2, <2>2, <2>3, <2>4
<1>5. Unrolls(g)
  BY <1>1, <1>3, <1>4 DEF Unrolls
<1>6. Unrolls(Chain)
  BY <1>5 DEF Unrolls, Chain
<1>7. ASSUME NEW k \in 1..K
      PROVE  Chain[k] = IF k = 1 THEN latest(head)
                        ELSE LET n == Chain[k - 1] IN IF n = Null THEN Null ELSE latest(node(n)).next
  BY <1>1, <1>6 DEF Unrolls
<1>8. \A k \in 1..K : Chain[k] = g[k]
  <2>. DEFINE B == {k \in 1..K : Chain[k] # g[k]}
  <2>1. ASSUME B # {} PROVE FALSE
    <3>1. B \subseteq Nat
      BY <1>1
    <3>. HIDE DEF B
    <3>2. PICK k \in B : \A j \in B : k <= j
      BY <2>1, <3>1, Least
    <3>. USE DEF B
    <3>3. k \in 1..K /\ Chain[k] # g[k] /\ k # 1
      BY <1>4, <1>7
    <3>4. k - 1 \in 1..K /\ Chain[k - 1] = g[k - 1]
      BY <1>1, <3>2, <3>3
    <3>. QED BY <1>4, <1>7, <3>3, <3>4
  <2>. QED BY <2>1
<1>9. {j \in 1..Last(head) : Chain[j] # Null} = 1..d
  BY <1>1, <1>2, <1>3, <1>8
<1>10. Linked = [k \in 1..d |-> Chain[k]]
  BY <1>9 DEF Linked
<1>11. Linked = [k \in 1..d |-> S[d + 1 - k]]
  <2>1. \A k \in 1..d : k \in 1..K /\ k <= d
    BY <1>1, <1>2
  <2>2. \A k \in 1..d : Chain[k] = S[d + 1 - k]
    BY <1>3, <1>8, <2>1
  <2>. QED BY <1>10, <2>2
<1>12. Contents = [k \in 1..d |-> latest(node(S[d + 1 - k])).val]
  BY <1>11 DEF Contents
<1>. QED BY <1>11, <1>12

(* No race, no use after free, and every node in one place (treiber.rs:30- *)
(* 80): the acquire of pop makes it know of the node that it reads, and a  *)
(* push that finds an old node on top again links the node that is there.  *)
LEMMA Accounted ==
  ASSUME TreiberAssumption, NEW S, Inv(S) PROVE TreiberNodesAccounted
<1>1. /\ S \in Seq(Node) /\ Len(S) \in Nat /\ \A j, k \in 1..Len(S) : S[j] = S[k] => j = k
      /\ \A k \in 1..Len(S) : ~Free(S[k]) /\ \A th \in Pusher : Holds(th) => reg[th].n # S[k]
      /\ \A th \in Pusher : Holds(th) => ~Free(reg[th].n)
      /\ \A th, u \in Pusher : Holds(th) /\ Holds(u) /\ reg[th].n = reg[u].n => th = u
  BY DEF Inv, Stacked, Owners, Owns
<1>2. NoUseAfterFree
  <2>1. \A th \in Pusher : pc[th] = "push_link" => ~Free(reg[th].n)
    BY <1>1 DEF Holds
  <2>2. pc[P] \in {"pop_next", "pop_val"} => ~Free(reg[P].h)
    <3>1. Looks => \E k \in 1..Len(S) : S[k] = reg[P].h
      BY DEF Inv, Stacked
    <3>. QED BY <1>1, <3>1 DEF Looks
  <2>. QED BY <2>1, <2>2 DEF NoUseAfterFree, P
<1>. PICK d : d = Len(S)
  OBVIOUS
<1>3. DOMAIN Linked = 1..d /\ \A k \in 1..d : Linked[k] = S[d + 1 - k]
  BY ReadOff
<1>4. ASSUME NEW n \in Node
      PROVE  LET places == {k \in DOMAIN Linked : Linked[k] = n}
                 held == {th \in Pusher : pc[th] \in {"push_load", "push_link", "push_cas"} /\ reg[th].n = n}
             IN IF Free(n) THEN places = {} /\ held = {}
                ELSE Cardinality(places) + Cardinality(held) = 1
  <2>. DEFINE places == {k \in DOMAIN Linked : Linked[k] = n}
              held == {th \in Pusher : pc[th] \in {"push_load", "push_link", "push_cas"} /\ reg[th].n = n}
  <2>1. \A th \in Pusher : th \in held <=> Holds(th) /\ reg[th].n = n
    BY DEF Holds
  <2>2. \A k : k \in places <=> k \in 1..d /\ d + 1 - k \in 1..d /\ S[d + 1 - k] = n
    BY <1>1, <1>3
  <2>. HIDE DEF places, held
  <2>3. CASE Free(n)
    <3>1. held = {}
      BY <1>1, <2>1, <2>3 DEF held
    <3>2. places = {}
      BY <1>1, <2>2, <2>3
    <3>. QED BY <2>3, <3>1, <3>2 DEF places, held
  <2>4. CASE ~Free(n) /\ \E th \in Pusher : Holds(th) /\ reg[th].n = n
    <3>1. PICK th \in Pusher : Holds(th) /\ reg[th].n = n
      BY <2>4
    <3>2. held = {th}
      BY <1>1, <2>1, <3>1 DEF held
    <3>3. places = {}
      BY <1>1, <2>2, <3>1
    <3>4. Cardinality(held) = 1 /\ Cardinality(places) = 0
      BY <3>2, <3>3, FS_Singleton, FS_EmptySet
    <3>5. Cardinality(places) + Cardinality(held) = 1
      BY <3>4
    <3>. QED BY <2>4, <3>5 DEF places, held
  <2>5. CASE ~Free(n) /\ \E k \in 1..d : S[k] = n
    <3>1. PICK k \in 1..d : S[k] = n
      BY <2>5
    <3>2. held = {}
      BY <1>1, <2>1, <3>1 DEF held
    <3>3. d + 1 - k \in 1..d /\ d + 1 - (d + 1 - k) = k
      BY <1>1, <3>1
    <3>4. \A j \in places : j = d + 1 - k
      <4>1. ASSUME NEW j \in places PROVE j = d + 1 - k
        <5>1. j \in 1..d /\ d + 1 - j = k
          BY <1>1, <2>2, <3>1
        <5>. QED BY <1>1, <5>1
      <4>. QED BY <4>1
    <3>5. places = {d + 1 - k}
      BY <2>2, <3>1, <3>3, <3>4
    <3>6. Cardinality(held) = 0 /\ Cardinality(places) = 1
      BY <3>2, <3>5, FS_Singleton, FS_EmptySet
    <3>7. Cardinality(places) + Cardinality(held) = 1
      BY <3>6
    <3>. QED BY <2>5, <3>7 DEF places, held
  <2>. QED BY <2>3, <2>4, <2>5 DEF Inv, Stacked
<1>. QED BY <1>2, <1>4 DEF TreiberNodesAccounted, NodesAccounted, Inv

THEOREM NodesSafe == ASSUME TreiberAssumption PROVE Spec => []TreiberNodesAccounted
<1>1. Stacks => TreiberNodesAccounted
  BY Accounted DEF Stacks
<1>. QED BY <1>1, Inductive, PTL

-----------------------------------------------------------------------------
(* The contents of the stack, from the top, are the values q of the linked *)
(* nodes, from the bottom up, read backwards.                              *)
Backwards(q) == [k \in 1..Len(q) |-> q[Len(q) + 1 - k]]

LEMMA BackwardsProperties ==
  ASSUME NEW X, NEW q \in Seq(X)
  PROVE  /\ Backwards(q) \in Seq(X) /\ Len(Backwards(q)) = Len(q)
         /\ \A k \in 1..Len(q) : Backwards(q)[k] = q[Len(q) + 1 - k]
<1>1. Len(q) \in Nat /\ \A k \in 1..Len(q) : Len(q) + 1 - k \in 1..Len(q)
  OBVIOUS
<1>2. \A k \in 1..Len(q) : q[Len(q) + 1 - k] \in X
  BY <1>1
<1>. QED BY <1>1, <1>2 DEF Backwards

LEMMA PushBackwards ==
  ASSUME NEW X, NEW q \in Seq(X), NEW v \in X
  PROVE  Backwards(Append(q, v)) = <<v>> \o Backwards(q)
<1>. PICK a : a = Append(q, v)
  OBVIOUS
<1>. PICK d : d = Len(q)
  OBVIOUS
<1>1. a \in Seq(X) /\ d \in Nat /\ Len(a) = d + 1 /\ a[d + 1] = v /\ \A k \in 1..d : a[k] = q[k]
  BY AppendProperties
<1>2. /\ Backwards(a) \in Seq(X) /\ Len(Backwards(a)) = d + 1
      /\ \A k \in 1..d + 1 : Backwards(a)[k] = a[d + 1 + 1 - k]
  <2>1. /\ Backwards(a) \in Seq(X) /\ Len(Backwards(a)) = Len(a)
        /\ \A k \in 1..Len(a) : Backwards(a)[k] = a[Len(a) + 1 - k]
    BY <1>1, BackwardsProperties
  <2>. QED BY <1>1, <2>1
<1>3. /\ Backwards(q) \in Seq(X) /\ Len(Backwards(q)) = d
      /\ \A k \in 1..d : Backwards(q)[k] = q[d + 1 - k]
  BY BackwardsProperties
<1>4. <<v>> \in Seq(X) /\ Len(<<v>>) = 1 /\ <<v>>[1] = v
  OBVIOUS
<1>. PICK b : b = <<v>> \o Backwards(q)
  OBVIOUS
<1>5. /\ b \in Seq(X) /\ Len(b) = d + 1 /\ b[1] = v
      /\ \A k \in 1..d + 1 : k # 1 => b[k] = Backwards(q)[k - 1]
  <2>1. /\ b \in Seq(X) /\ Len(b) = 1 + d
        /\ \A k \in 1..1 + d : b[k] = IF k <= 1 THEN <<v>>[k] ELSE Backwards(q)[k - 1]
    BY <1>3, <1>4, ConcatProperties
  <2>. QED BY <1>1, <1>4, <2>1
<1>6. ASSUME NEW k \in 1..d + 1 PROVE Backwards(a)[k] = b[k]
  <2>1. CASE k = 1
    BY <1>1, <1>2, <1>5, <2>1
  <2>2. CASE k # 1
    <3>1. /\ k - 1 \in 1..d /\ d + 1 + 1 - k \in 1..d
          /\ d + 1 - (k - 1) = d + 1 + 1 - k
      BY <1>1, <2>2
    <3>2. Backwards(a)[k] = q[d + 1 + 1 - k]
      BY <1>1, <1>2, <3>1
    <3>3. b[k] = q[d + 1 - (k - 1)]
      BY <1>3, <1>5, <2>2, <3>1
    <3>. QED BY <3>1, <3>2, <3>3
  <2>. QED BY <2>1, <2>2
<1>. QED BY <1>2, <1>5, <1>6, SeqEqual

LEMMA PopBackwards ==
  ASSUME NEW X, NEW q \in Seq(X), Len(q) # 0
  PROVE  /\ Backwards(q) # <<>> /\ Head(Backwards(q)) = q[Len(q)]
         /\ Backwards(SubSeq(q, 1, Len(q) - 1)) = Tail(Backwards(q))
<1>. PICK d : d = Len(q)
  OBVIOUS
<1>. PICK r : r = SubSeq(q, 1, Len(q) - 1)
  OBVIOUS
<1>1. d \in Nat /\ d # 0 /\ d - 1 \in Nat /\ \A k \in 1..d : q[k] \in X
  OBVIOUS
<1>2. r \in Seq(X) /\ Len(r) = d - 1 /\ \A k \in 1..d - 1 : r[k] = q[k]
  <2>1. \A k \in 1..d - 1 : k \in 1..d
    BY <1>1
  <2>. QED BY <1>1, <2>1, FirstOf
<1>. PICK b : b = Backwards(q)
  OBVIOUS
<1>3. b \in Seq(X) /\ Len(b) = d /\ \A k \in 1..d : b[k] = q[d + 1 - k]
  BY BackwardsProperties
<1>4. b # <<>> /\ Head(b) = q[d]
  <2>1. b # <<>>
    BY <1>1, <1>3, EmptySeq
  <2>2. b[1] = q[d]
    BY <1>1, <1>3
  <2>. QED BY <1>1, <1>3, <2>1, <2>2
<1>5. Tail(b) \in Seq(X) /\ Len(Tail(b)) = d - 1 /\ \A k \in 1..d - 1 : Tail(b)[k] = b[k + 1]
  BY <1>3, <1>4, HeadTailProperties
<1>6. /\ Backwards(r) \in Seq(X) /\ Len(Backwards(r)) = d - 1
      /\ \A k \in 1..d - 1 : Backwards(r)[k] = r[d - 1 + 1 - k]
  <2>1. /\ Backwards(r) \in Seq(X) /\ Len(Backwards(r)) = Len(r)
        /\ \A k \in 1..Len(r) : Backwards(r)[k] = r[Len(r) + 1 - k]
    BY <1>2, BackwardsProperties, ZenonT(60)
  <2>. QED BY <1>1, <1>2, <2>1
<1>7. ASSUME NEW k \in 1..d - 1 PROVE Backwards(r)[k] = Tail(b)[k]
  <2>1. k + 1 \in 1..d /\ d - 1 + 1 - k \in 1..d - 1 /\ d + 1 - (k + 1) = d - 1 + 1 - k
    BY <1>1
  <2>2. Tail(b)[k] = q[d + 1 - (k + 1)]
    BY <1>3, <1>5, <2>1
  <2>3. Backwards(r)[k] = q[d - 1 + 1 - k]
    BY <1>2, <1>6, <2>1
  <2>. QED BY <2>1, <2>2, <2>3
<1>8. Backwards(r) = Tail(b)
  BY <1>5, <1>6, <1>7, SeqEqual
<1>. QED BY <1>4, <1>8

-----------------------------------------------------------------------------
Values(S) == [k \in 1..Len(S) |-> latest(node(S[k])).val]
Reads == \A S : Inv(S) => Contents = Backwards(Values(S))

LEMMA ValuesOf ==
  ASSUME NEW S, Inv(S)
  PROVE  /\ Values(S) \in Seq(Item) /\ Len(Values(S)) = Len(S) /\ Len(S) \in Nat
         /\ \A k \in 1..Len(S) : Values(S)[k] = latest(node(S[k])).val
<1>1. Len(S) \in Nat /\ \A k \in 1..Len(S) : S[k] \in Node
  BY DEF Inv, Stacked
<1>2. \A k \in 1..Len(S) : latest(node(S[k])).val \in Item
  BY <1>1 DEF Inv, Memory, Record
<1>. QED BY <1>1, <1>2 DEF Values

LEMMA ContentsRead == ASSUME TreiberAssumption PROVE Reads
<1>1. ASSUME NEW S, Inv(S) PROVE Contents = Backwards(Values(S))
  <2>1. Contents = [k \in 1..Len(S) |-> latest(node(S[Len(S) + 1 - k])).val]
    BY <1>1, ReadOff
  <2>2. /\ Values(S) \in Seq(Item) /\ Len(Values(S)) = Len(S) /\ Len(S) \in Nat
        /\ \A k \in 1..Len(S) : Values(S)[k] = latest(node(S[k])).val
    BY <1>1, ValuesOf
  <2>3. \A k \in 1..Len(S) : Len(S) + 1 - k \in 1..Len(S)
    BY <2>2
  <2>. QED BY <2>1, <2>2, <2>3 DEF Backwards
<1>. QED BY <1>1 DEF Reads

(* A pusher in a call has begun one, and no more than it may.              *)
Counted == \A th \in Pusher : calls[th] <= MaxCalls[th] /\ (pc[th] # "idle" => calls[th] >= 1)

LEMMA CountedStep ==
  ASSUME TreiberAssumption, CallsAssumption, NEW S, Inv(S), Counted, [Next]_state
  PROVE  Counted'
<1>1. /\ \A th \in Pusher : th \in Thread /\ th # P /\ calls[th] \in Nat /\ MaxCalls[th] \in Nat
      /\ calls \in [Thread -> Nat] /\ pc \in [Thread -> PushLabel \cup PopLabel]
  BY Locations DEF Inv, Control, TreiberAssumption, CallsAssumption, P
<1>2. CASE UNCHANGED state
  BY <1>2 DEF state, Counted
<1>3. ASSUME NEW th \in Pusher, Push(th) PROVE Counted'
  <2>1. \/ calls' = [calls EXCEPT ![th] = @ + 1] /\ calls[th] < MaxCalls[th]
        \/ calls' = calls /\ pc[th] # "idle"
    BY <1>3 DEF Push, New, PushLoad, PushLink, PushCas, Call, From
  <2>2. \E l : pc' = [pc EXCEPT ![th] = l]
    BY <1>3 DEF Push, New, PushLoad, PushLink, PushCas, Goto
  <2>. QED BY <1>1, <2>1, <2>2 DEF Counted
<1>4. ASSUME Pop(P) PROVE Counted'
  <2>1. calls' = [calls EXCEPT ![P] = @ + 1] \/ calls' = calls
    BY <1>4 DEF Pop, PopCall, PopLoad, PopNext, PopVal, PopCas, Call, From
  <2>2. \E l : pc' = [pc EXCEPT ![P] = l]
    BY <1>4 DEF Pop, PopCall, PopLoad, PopLoadWith, PopNext, PopVal, PopCas, Goto
  <2>. QED BY <1>1, <2>1, <2>2 DEF Counted
<1>. QED BY <1>2, <1>3, <1>4 DEF Next, P

LEMMA StackInit == ASSUME TreiberAssumption, Init PROVE Lifo!Init
<1>1. Contents = [k \in 1..Len(<<>>) |-> latest(node(<<>>[Len(<<>>) + 1 - k])).val] /\ DOMAIN Contents = 1..0
  <2>1. Len(<<>>) = 0
    OBVIOUS
  <2>. QED BY <2>1, InitInv, ReadOff
<1>2. Contents = <<>>
  BY <1>1
<1>3. out.got = <<>>
  BY DEF Init, CoreInit
<1>. QED BY <1>2, <1>3 DEF Lifo!Init

LEMMA StackStep ==
  ASSUME TreiberAssumption, CallsAssumption, NEW S, Inv(S), Counted, Reads, Reads',
         [Next]_state
  PROVE  [Lifo!Next]_<<Contents, out.got>>
<1>. PICK q : q = Values(S)
  OBVIOUS
<1>1. /\ q \in Seq(Item) /\ Len(q) = Len(S) /\ Len(S) \in Nat /\ Contents = Backwards(q)
      /\ \A k \in 1..Len(S) : q[k] = latest(node(S[k])).val
  BY ValuesOf DEF Reads
<1>2. CASE Keeps(S)
  <2>1. Contents' = Backwards(Values(S)')
    BY <1>2 DEF Keeps, Reads
  <2>2. Values(S)' = q
    BY <1>2 DEF Keeps, Intact, Values
  <2>. QED BY <1>1, <1>2, <2>1, <2>2 DEF Keeps
<1>3. CASE Grows(S)
  <2>1. PICK th \in Pusher, n \in Node :
          /\ Holds(th) /\ Inv(Append(S, n))' /\ Intact(S) /\ out'.got = out.got
          /\ latest(node(n))'.val = <<th, calls[th]>>
    BY <1>3 DEF Grows
  <2>. PICK v : v = <<th, calls[th]>>
    OBVIOUS
  <2>. PICK U : U = Append(S, n)
    OBVIOUS
  <2>2. v \in Value /\ v \in Item
    BY <2>1, Locations DEF Counted, Holds, Value, Item, Inv, Control, CallsAssumption
  <2>3. S \in Seq(Node) /\ Len(U) = Len(S) + 1 /\ U[Len(S) + 1] = n /\ \A k \in 1..Len(S) : U[k] = S[k]
    <3>1. S \in Seq(Node)
      BY DEF Inv, Stacked
    <3>. QED BY <3>1, AppendProperties
  <2>. PICK W : W = Values(U)'
    OBVIOUS
  <2>4. Contents' = Backwards(W)
    BY <2>1 DEF Reads
  <2>5. W = Append(q, v)
    <3>1. W = [k \in 1..Len(S) + 1 |-> latest(node(U[k]))'.val]
      BY <2>3 DEF Values
    <3>2. \A k \in 1..Len(S) + 1 : k \in 1..Len(S) \/ k = Len(S) + 1
      BY <1>1
    <3>3. ASSUME NEW k \in 1..Len(S) PROVE W[k] = q[k]
      BY <1>1, <2>1, <2>3, <3>1 DEF Intact
    <3>4. W[Len(S) + 1] = v
      BY <1>1, <2>1, <2>3, <3>1
    <3>5. \A k \in 1..Len(S) + 1 : W[k] \in Item
      <4>1. \A k \in 1..Len(S) : q[k] \in Item
        BY <1>1
      <4>. QED BY <2>2, <3>2, <3>3, <3>4, <4>1
    <3>6. W \in Seq(Item) /\ Len(W) = Len(S) + 1
      BY <1>1, <3>1, <3>5
    <3>7. /\ Append(q, v) \in Seq(Item) /\ Len(Append(q, v)) = Len(S) + 1
          /\ \A k \in 1..Len(S) : Append(q, v)[k] = q[k]
          /\ Append(q, v)[Len(S) + 1] = v
      BY <1>1, <2>2, AppendProperties, SMTT(40)
    <3>8. \A k \in 1..Len(S) + 1 : W[k] = Append(q, v)[k]
      BY <3>2, <3>3, <3>4, <3>7
    <3>. QED BY <3>6, <3>7, <3>8, SeqEqual
  <2>6. Contents' = <<v>> \o Contents
    BY <1>1, <2>2, <2>4, <2>5, PushBackwards
  <2>. QED BY <2>1, <2>2, <2>6 DEF Lifo!Next, Lifo!Push
<1>4. CASE Shrinks(S)
  <2>1. /\ Len(S) # 0 /\ Inv(SubSeq(S, 1, Len(S) - 1))' /\ Intact(S)
        /\ out'.got = Append(out.got, latest(node(S[Len(S)])).val)
    BY <1>4 DEF Shrinks
  <2>. PICK e : e = Len(S) - 1
    OBVIOUS
  <2>. PICK U : U = SubSeq(S, 1, e)
    OBVIOUS
  <2>2. e \in Nat /\ \A k \in 1..e : k \in 1..Len(S)
    BY <1>1, <2>1
  <2>3. Len(U) = e /\ \A k \in 1..e : U[k] = S[k]
    <3>1. S \in Seq(Node)
      BY DEF Inv, Stacked
    <3>. QED BY <2>2, <3>1, FirstOf
  <2>. PICK W : W = Values(U)'
    OBVIOUS
  <2>4. Contents' = Backwards(W)
    BY <2>1 DEF Reads
  <2>5. W = SubSeq(q, 1, e)
    <3>1. W = [k \in 1..e |-> latest(node(U[k]))'.val]
      BY <2>3 DEF Values
    <3>2. ASSUME NEW k \in 1..e PROVE W[k] = q[k] /\ q[k] \in Item
      <4>1. k \in 1..Len(S) /\ U[k] = S[k] /\ W[k] = latest(node(U[k]))'.val
        BY <2>2, <2>3, <3>1
      <4>2. latest(node(S[k]))' = latest(node(S[k])) /\ q[k] = latest(node(S[k])).val /\ q[k] \in Item
        BY <1>1, <2>1, <4>1 DEF Intact
      <4>. QED BY <4>1, <4>2
    <3>3. W \in Seq(Item) /\ Len(W) = e
      <4>1. \A k \in 1..e : W[k] \in Item
        BY <3>2
      <4>. QED BY <2>2, <3>1, <4>1
    <3>4. SubSeq(q, 1, e) \in Seq(Item) /\ Len(SubSeq(q, 1, e)) = e /\ \A k \in 1..e : SubSeq(q, 1, e)[k] = q[k]
      BY <1>1, <2>2, FirstOf
    <3>. QED BY <3>2, <3>3, <3>4, SeqEqual
  <2>6. /\ Contents # <<>> /\ Head(Contents) = q[Len(S)] /\ Contents' = Tail(Contents)
    BY <1>1, <2>1, <2>4, <2>5, PopBackwards
  <2>7. Len(S) \in 1..Len(S) /\ q[Len(S)] = latest(node(S[Len(S)])).val
    BY <1>1, <2>1
  <2>. QED BY <2>1, <2>6, <2>7 DEF Lifo!Next, Lifo!Pop
<1>. QED BY <1>2, <1>3, <1>4, Steps

THEOREM Refines ==
  ASSUME TreiberAssumption, CallsAssumption PROVE Spec => TreiberIsAStack
<1>1. Init => Counted
  BY Locations DEF Init, CoreInit, Counted, CallsAssumption
<1>2. Stacks /\ Counted /\ [Next]_state => Counted'
  BY CountedStep DEF Stacks
<1>3. Init => Lifo!Init
  BY StackInit
<1>4. Reads
  BY ContentsRead
<1>5. Stacks /\ Counted /\ Reads /\ Reads' /\ [Next]_state => [Lifo!Next]_<<Contents, out.got>>
  BY StackStep DEF Stacks
<1>. QED BY <1>1, <1>2, <1>3, <1>4, <1>5, Inductive, PTL DEF Spec, TreiberIsAStack
=============================================================================
