----------------------------- MODULE ChatProofs -----------------------------
(***************************************************************************)
(* Proofs about what a user's chat carries: the updates on their way to a  *)
(* turn (Inbound), and the answers to the questions of the agent           *)
(* (Approval), for every number of chats, updates, restarts and questions. *)
(***************************************************************************)
EXTENDS Approval, Inbound, Delivery, FiniteSetTheorems, SequenceTheorems, SelectionLemmas
-----------------------------------------------------------------------------
(* The way of a message to its turn.                                       *)

Within(i, m) == \E j \in DOMAIN m : m[j] = i
Grows(m) == \A j, k \in DOMAIN m : j < k => m[j] < m[k]

LEMMA WithinConcat ==
  ASSUME NEW S, NEW x \in Seq(S), NEW y \in Seq(S), NEW i
  PROVE  Within(i, x \o y) <=> Within(i, x) \/ Within(i, y)
<1>1. /\ x \o y \in Seq(S) /\ Len(x \o y) = Len(x) + Len(y)
      /\ \A j \in 1 .. Len(x) + Len(y) : (x \o y)[j] = IF j <= Len(x) THEN x[j] ELSE y[j - Len(x)]
  BY ConcatProperties
<1>2. /\ DOMAIN x = 1 .. Len(x) /\ DOMAIN y = 1 .. Len(y) /\ Len(x) \in Nat /\ Len(y) \in Nat
      /\ DOMAIN (x \o y) = 1 .. Len(x) + Len(y)
  BY <1>1
<1> DEFINE z == x \o y
<1> HIDE DEF z
<1>3. /\ DOMAIN z = 1 .. Len(x) + Len(y)
      /\ \A j \in 1 .. Len(x) + Len(y) : z[j] = IF j <= Len(x) THEN x[j] ELSE y[j - Len(x)]
  BY <1>1, <1>2 DEF z
<1>4. ASSUME Within(i, z) PROVE Within(i, x) \/ Within(i, y)
  <2>1. PICK j \in DOMAIN z : z[j] = i
    BY <1>4, Zenon DEF Within
  <2>2. CASE j <= Len(x)
    BY <1>2, <1>3, <2>1, <2>2 DEF Within
  <2>3. CASE ~(j <= Len(x))
    <3>1. j - Len(x) \in DOMAIN y /\ y[j - Len(x)] = i
      BY <1>2, <1>3, <2>1, <2>3
    <3> QED BY <3>1, Zenon DEF Within
  <2> QED BY <2>2, <2>3
<1>5. ASSUME Within(i, x) PROVE Within(i, z)
  BY <1>2, <1>3, <1>5 DEF Within
<1>6. ASSUME Within(i, y) PROVE Within(i, z)
  <2>1. PICK j \in DOMAIN y : y[j] = i
    BY <1>6, Zenon DEF Within
  <2>2. j + Len(x) \in DOMAIN z /\ z[j + Len(x)] = i
    BY <1>2, <1>3, <2>1
  <2> QED BY <2>2, Zenon DEF Within
<1> QED
  BY <1>4, <1>5, <1>6, Zenon DEF z

LEMMA GrowsConcat ==
  ASSUME NEW x \in Seq(Nat), NEW y \in Seq(Nat), Grows(x), Grows(y),
         \A j \in DOMAIN x : \A k \in DOMAIN y : x[j] < y[k]
  PROVE  Grows(x \o y)
<1>1. /\ x \o y \in Seq(Nat) /\ Len(x \o y) = Len(x) + Len(y)
      /\ \A j \in 1 .. Len(x) + Len(y) : (x \o y)[j] = IF j <= Len(x) THEN x[j] ELSE y[j - Len(x)]
  BY ConcatProperties
<1>2. /\ DOMAIN x = 1 .. Len(x) /\ DOMAIN y = 1 .. Len(y) /\ Len(x) \in Nat /\ Len(y) \in Nat
      /\ DOMAIN (x \o y) = 1 .. Len(x) + Len(y)
  BY <1>1
<1> DEFINE z == x \o y
<1> HIDE DEF z
<1>3. /\ DOMAIN z = 1 .. Len(x) + Len(y)
      /\ \A j \in 1 .. Len(x) + Len(y) : z[j] = IF j <= Len(x) THEN x[j] ELSE y[j - Len(x)]
  BY <1>1, <1>2 DEF z
<1>4. ASSUME NEW j \in DOMAIN z, NEW k \in DOMAIN z, j < k PROVE z[j] < z[k]
  <2>1. CASE k <= Len(x)
    BY <1>2, <1>3, <1>4, <2>1 DEF Grows
  <2>2. CASE j <= Len(x) /\ ~(k <= Len(x))
    <3>1. k - Len(x) \in DOMAIN y /\ j \in DOMAIN x /\ z[j] = x[j] /\ z[k] = y[k - Len(x)]
      BY <1>2, <1>3, <1>4, <2>2
    <3> QED BY <3>1
  <2>3. CASE ~(j <= Len(x))
    <3>1. /\ k - Len(x) \in DOMAIN y /\ j - Len(x) \in DOMAIN y /\ j - Len(x) < k - Len(x)
          /\ z[j] = y[j - Len(x)] /\ z[k] = y[k - Len(x)]
      BY <1>2, <1>3, <1>4, <2>3
    <3> QED BY <3>1, Zenon DEF Grows
  <2> QED BY <1>2, <1>3, <1>4, <2>1, <2>2, <2>3
<1>5. Grows(z)
  BY <1>4 DEF Grows
<1> QED
  BY <1>5, Zenon DEF z

(* The parts that are picked.                                              *)
LEMMA PickWithin ==
  ASSUME NEW s \in Seq(Nat), NEW I
  PROVE  /\ Picked(s, I) \in Seq(Nat)
         /\ \A i : Within(i, Picked(s, I)) <=> \E k \in DOMAIN s : k \in I /\ s[k] = i
         /\ Grows(s) => Grows(Picked(s, I))
<1> DEFINE q == Picked(s, I)
<1>1. q \in Seq(Nat) /\ \E at : Enumerates(at, q, s, I, Len(s))
  BY PickedMap
<1> HIDE DEF q
<1>2. PICK at : Enumerates(at, q, s, I, Len(s))
  BY <1>1
<1>3. /\ DOMAIN s = 1 .. Len(s) /\ DOMAIN q = 1 .. Len(q) /\ Len(s) \in Nat /\ Len(q) \in Nat
  BY <1>1
<1>4. /\ \A k \in DOMAIN q : at[k] \in DOMAIN s /\ at[k] \in I /\ q[k] = s[at[k]]
      /\ \A k, l \in DOMAIN q : k < l => at[k] < at[l]
      /\ \A i \in DOMAIN s : i \in I => \E k \in DOMAIN q : at[k] = i
  BY <1>2, <1>3 DEF Enumerates
<1>5. ASSUME NEW i PROVE Within(i, q) <=> \E k \in DOMAIN s : k \in I /\ s[k] = i
  <2>1. ASSUME Within(i, q) PROVE \E k \in DOMAIN s : k \in I /\ s[k] = i
    <3>1. PICK j \in DOMAIN q : q[j] = i
      BY <2>1, Zenon DEF Within
    <3> QED BY <1>4, <3>1, Zenon
  <2>2. ASSUME NEW k \in DOMAIN s, k \in I, s[k] = i PROVE Within(i, q)
    <3>1. PICK j \in DOMAIN q : at[j] = k
      BY <1>4, <2>2
    <3>2. q[j] = i
      BY <1>4, <2>2, <3>1
    <3> QED BY <3>2, Zenon DEF Within
  <2> QED BY <2>1, <2>2, Zenon
<1>6. Grows(s) => Grows(q)
  BY <1>4, Zenon DEF Grows
<1> QED
  BY <1>1, <1>5, <1>6, Zenon DEF q

(* The buffers that are flushed, each once.                                *)
Orders(order, ripe) ==
  /\ order \in Seq(ripe)
  /\ \A j, k \in DOMAIN order : order[j] = order[k] => j = k
  /\ \A b \in ripe : \E k \in DOMAIN order : order[k] = b

LEMMA SeqsAre ==
  ASSUME NEW T, IsFiniteSet(T), NEW s \in SetToSeqs(T)
  PROVE  Orders(s, T)
<1> DEFINE n == Cardinality(T)
<1>1. n \in Nat /\ ExistsBijection(1 .. n, T)
  BY FS_CardinalityType
<1>2. s \in [1 .. n -> T] /\ \A i, j \in 1 .. n : i # j => s[i] # s[j]
  BY Zenon DEF SetToSeqs
<1> HIDE DEF n
<1>3. s \in Seq(T) /\ DOMAIN s = 1 .. n
  BY <1>1, <1>2
<1>4. IsFiniteSet(1 .. n) /\ Cardinality(1 .. n) = n
  BY <1>1, FS_Interval, FS_CardinalityType
<1>5. s \in Injection(1 .. n, T)
  BY <1>2, Zenon DEF Injection, IsInjective
<1>6. s \in Surjection(1 .. n, T)
  BY <1>4, <1>5, FS_Injection, Zenon DEF n
<1>7. \A b \in T : \E k \in 1 .. n : s[k] = b
  BY <1>6, Zenon DEF Surjection
<1> QED
  BY <1>2, <1>3, <1>7, Zenon DEF Orders

Splits(ripe, A, T) == A = {k \in ripe : k[1] = "album"} /\ T = {k \in ripe : k[1] = "text"}

Joins(order, A, T) == \E x \in SetToSeqs(A), y \in SetToSeqs(T) : order = x \o y

LEMMA OrderParts ==
  ASSUME NEW ripe, NEW order, NEW A, NEW T, Splits(ripe, A, T), order \in FlushOrders(ripe)
  PROVE  Joins(order, A, T)
BY SMTT(60) DEF FlushOrders, Splits, Joins

LEMMA FlushOrdersAre ==
  ASSUME NEW ripe \in SUBSET Buffers, IsFiniteSet(ripe), NEW order \in FlushOrders(ripe)
  PROVE  Orders(order, ripe)
<1>a. PICK A, T : Splits(ripe, A, T)
  BY DEF Splits
<1>1. PICK x \in SetToSeqs(A), y \in SetToSeqs(T) : order = x \o y
  <2>1. order \in FlushOrders(ripe)
    OBVIOUS
  <2>2. Joins(order, A, T)
    BY <1>a, <2>1, OrderParts
  <2> QED BY <2>2 DEF Joins
<1>2. A \cup T = ripe /\ A \cap T = {} /\ A \subseteq ripe /\ T \subseteq ripe
  <2>1. \A k \in ripe : k[1] = "album" \/ k[1] = "text"
    BY DEF Buffers
  <2>2. "album" # "text"
    OBVIOUS
  <2> QED BY <1>a, <2>1, <2>2 DEF Splits
<1>3. IsFiniteSet(A) /\ IsFiniteSet(T)
  BY <1>2, FS_Subset, Zenon
<1>4. Orders(x, A) /\ Orders(y, T)
  BY <1>1, <1>3, SeqsAre
<1>5. x \in Seq(ripe) /\ y \in Seq(ripe)
  <2>1. x \in Seq(A) /\ y \in Seq(T)
    BY <1>4 DEF Orders
  <2> QED BY <1>2, <2>1
<1>6. /\ order \in Seq(ripe) /\ Len(order) = Len(x) + Len(y)
      /\ \A j \in 1 .. Len(x) + Len(y) : order[j] = IF j <= Len(x) THEN x[j] ELSE y[j - Len(x)]
  BY <1>1, <1>5, ConcatProperties
<1>7. /\ DOMAIN x = 1 .. Len(x) /\ DOMAIN y = 1 .. Len(y) /\ Len(x) \in Nat /\ Len(y) \in Nat
      /\ DOMAIN order = 1 .. Len(x) + Len(y)
      /\ \A j \in 1 .. Len(x) : x[j] \in A
      /\ \A j \in 1 .. Len(y) : y[j] \in T
  BY <1>4, <1>5, <1>6 DEF Orders
<1>8. ASSUME NEW j \in DOMAIN order, NEW k \in DOMAIN order, order[j] = order[k] PROVE j = k
  <2>1. CASE j <= Len(x) /\ k <= Len(x)
    BY <1>4, <1>6, <1>7, <1>8, <2>1 DEF Orders
  <2>2. CASE j <= Len(x) /\ ~(k <= Len(x))
    <3>1. order[j] \in A /\ order[k] \in T
      BY <1>6, <1>7, <2>2
    <3> QED BY <1>2, <1>8, <3>1
  <2>3. CASE ~(j <= Len(x)) /\ k <= Len(x)
    <3>1. order[k] \in A /\ order[j] \in T
      BY <1>6, <1>7, <2>3
    <3> QED BY <1>2, <1>8, <3>1
  <2>4. CASE ~(j <= Len(x)) /\ ~(k <= Len(x))
    <3>0. j \in 1 .. Len(x) + Len(y) /\ k \in 1 .. Len(x) + Len(y)
      BY <1>7
    <3>1. /\ j - Len(x) \in DOMAIN y /\ k - Len(x) \in DOMAIN y
          /\ y[j - Len(x)] = y[k - Len(x)]
      <4>1. order[j] = y[j - Len(x)] /\ order[k] = y[k - Len(x)]
        BY <1>6, <2>4, <3>0
      <4>2. j - Len(x) \in 1 .. Len(y) /\ k - Len(x) \in 1 .. Len(y)
        BY <1>7, <2>4, <3>0
      <4> QED BY <1>7, <1>8, <4>1, <4>2, Zenon
    <3>2. j - Len(x) = k - Len(x)
      BY <1>4, <3>1, Zenon DEF Orders
    <3> QED BY <1>7, <3>2
  <2> QED BY <2>1, <2>2, <2>3, <2>4
<1>9. ASSUME NEW b \in ripe PROVE \E k \in DOMAIN order : order[k] = b
  <2>1. CASE b \in A
    <3>1. PICK k \in DOMAIN x : x[k] = b
      BY <1>4, <2>1 DEF Orders
    <3>2. k \in DOMAIN order /\ order[k] = b
      BY <1>6, <1>7, <3>1
    <3> QED BY <3>2
  <2>2. CASE b \in T
    <3>1. PICK k \in DOMAIN y : y[k] = b
      BY <1>4, <2>2 DEF Orders
    <3>2. k + Len(x) \in DOMAIN order /\ order[k + Len(x)] = b
      BY <1>6, <1>7, <3>1
    <3> QED BY <3>2
  <2> QED BY <1>2, <2>1, <2>2
<1> QED
  BY <1>6, <1>8, <1>9, Zenon DEF Orders

(* Where update i is, if the buffers are P and the batches B: in a buffer, *)
(* in a batch, in the queue, with a task, or in a turn.                    *)
InHand(P, B, i, c, a, k) ==
  \/ c = "buffered" /\ a \in Buffers /\ k = 0 /\ Within(i, P[a])
  \/ c = "batch" /\ a \in Threads /\ k \in DOMAIN B[a] /\ Within(i, B[a][k])
InQueue(i, c, a, k) ==
  \/ c = "inbound" /\ a = 0 /\ k \in DOMAIN inbound /\ Within(i, inbound[k])
  \/ c = "spawned" /\ a \in spawned /\ k = 0 /\ Within(i, a)
  \/ c = "serving" /\ a \in Sessions /\ k = 0 /\ serving[a] # NONE /\ Within(i, serving[a])
At(P, B, i, c, a, k) == InHand(P, B, i, c, a, k) \/ InQueue(i, c, a, k)

Gathered(P, B, i) == \E c, a, k : InHand(P, B, i, c, a, k)
Located(P, B, i) == \E c, a, k : At(P, B, i, c, a, k)
Once(P, B) ==
  \A i, c, a, k, d, b, l :
    At(P, B, i, c, a, k) /\ At(P, B, i, d, b, l) => c = d /\ a = b /\ k = l

Long(i) == sent[i].kind \in {"long", "album"}
Holds(P) ==
  \A b \in Buffers : \A i : Within(i, P[b]) => i \in DOMAIN sent /\ Long(i) /\ BufferOf(sent[i]) = b

(* The updates ids come into buffers and batches.                          *)
Takes(ids, t, P, B) ==
  /\ \A b \in Buffers : \A i : Within(i, P[b]) <=>
       Within(i, buffered[b]) \/ (Within(i, ids) /\ Long(i) /\ BufferOf(sent[i]) = b)
  /\ \A u \in Threads : u # t => B[u] = batch[u]
  /\ \A k \in DOMAIN B[t] : \E i : Within(i, ids) /\ sent[i].kind = "short" /\ B[t][k] = <<i>>
  /\ \A j, k \in DOMAIN B[t] : B[t][j] = B[t][k] => j = k
  /\ \A i : Within(i, ids) /\ sent[i].kind = "short" => \E k \in DOMAIN B[t] : B[t][k] = <<i>>

LEMMA WithinOne ==
  ASSUME NEW i, NEW j, Within(i, <<j>>)
  PROVE  i = j
BY DEF Within

LEMMA TakeOnce ==
  ASSUME Once(buffered, batch), NEW t \in Threads, batch[t] = <<>>, NEW ids,
         \A i : Within(i, ids) => ~Located(buffered, batch, i),
         NEW P, NEW B, Takes(ids, t, P, B)
  PROVE  /\ Once(P, B)
         /\ \A i : Located(P, B, i) => Located(buffered, batch, i) \/ Within(i, ids)
<1>1. ASSUME NEW i, NEW c, NEW a, NEW k, At(P, B, i, c, a, k), ~Within(i, ids)
      PROVE  At(buffered, batch, i, c, a, k)
  <2>1. CASE InQueue(i, c, a, k)
    BY <2>1, Zenon DEF At
  <2>2. CASE c = "buffered" /\ a \in Buffers /\ k = 0 /\ Within(i, P[a])
    BY <1>1, <2>2, Zenon DEF At, InHand, Takes
  <2>3. CASE c = "batch" /\ a \in Threads /\ k \in DOMAIN B[a] /\ Within(i, B[a][k])
    <3>1. a # t
      <4>1. SUFFICES ASSUME a = t PROVE FALSE
        OBVIOUS
      <4>2. PICK j : Within(j, ids) /\ B[t][k] = <<j>>
        BY <2>3, <4>1, Zenon DEF Takes
      <4>3. i = j
        BY <2>3, <4>1, <4>2, WithinOne, Zenon
      <4> QED BY <1>1, <4>2, <4>3
    <3> QED BY <2>3, <3>1, Zenon DEF At, InHand, Takes
  <2> QED BY <1>1, <2>1, <2>2, <2>3, Zenon DEF At, InHand
<1>2. ASSUME NEW i, NEW c, NEW a, NEW k, At(P, B, i, c, a, k), Within(i, ids)
      PROVE  \/ c = "buffered" /\ a = BufferOf(sent[i]) /\ k = 0 /\ Long(i)
             \/ c = "batch" /\ a = t /\ k \in DOMAIN B[t] /\ B[t][k] = <<i>> /\ sent[i].kind = "short"
  <2>0. ~At(buffered, batch, i, c, a, k)
    BY <1>2, Zenon DEF Located
  <2>1. CASE InQueue(i, c, a, k)
    BY <2>0, <2>1, Zenon DEF At
  <2>2. CASE c = "buffered" /\ a \in Buffers /\ k = 0 /\ Within(i, P[a])
    BY <2>0, <2>2, Zenon DEF At, InHand, Takes
  <2>3. CASE c = "batch" /\ a \in Threads /\ k \in DOMAIN B[a] /\ Within(i, B[a][k])
    <3>1. a = t
      BY <2>0, <2>3, Zenon DEF At, InHand, Takes
    <3>2. PICK j : sent[j].kind = "short" /\ B[t][k] = <<j>>
      BY <2>3, <3>1, Zenon DEF Takes
    <3>3. i = j
      BY <2>3, <3>1, <3>2, WithinOne, Zenon
    <3> QED BY <2>3, <3>1, <3>2, <3>3, Zenon
  <2> QED BY <1>2, <2>1, <2>2, <2>3, Zenon DEF At, InHand
<1>3. Once(P, B)
  <2> SUFFICES ASSUME NEW i, NEW c, NEW a, NEW k, NEW d, NEW b, NEW l,
                      At(P, B, i, c, a, k), At(P, B, i, d, b, l)
               PROVE  c = d /\ a = b /\ k = l
    BY Zenon DEF Once
  <2>1. CASE Within(i, ids)
    <3>1. Long(i) => sent[i].kind # "short"
      BY DEF Long
    <3>2. \/ c = "buffered" /\ a = BufferOf(sent[i]) /\ k = 0 /\ Long(i)
          \/ c = "batch" /\ a = t /\ k \in DOMAIN B[t] /\ B[t][k] = <<i>> /\ sent[i].kind = "short"
      BY <1>2, <2>1, Zenon
    <3>3. \/ d = "buffered" /\ b = BufferOf(sent[i]) /\ l = 0 /\ Long(i)
          \/ d = "batch" /\ b = t /\ l \in DOMAIN B[t] /\ B[t][l] = <<i>> /\ sent[i].kind = "short"
      BY <1>2, <2>1, Zenon
    <3>4. CASE Long(i)
      BY <3>1, <3>2, <3>3, <3>4, Zenon
    <3>5. CASE ~Long(i)
      <4>1. k \in DOMAIN B[t] /\ l \in DOMAIN B[t] /\ B[t][k] = B[t][l]
        BY <3>2, <3>3, <3>5
      <4>2. k = l
        BY <4>1, Zenon DEF Takes
      <4> QED BY <3>2, <3>3, <3>5, <4>2
    <3> QED BY <3>4, <3>5
  <2>2. CASE ~Within(i, ids)
    <3>1. At(buffered, batch, i, c, a, k) /\ At(buffered, batch, i, d, b, l)
      BY <1>1, <2>2, Zenon
    <3> QED BY <3>1, Zenon DEF Once
  <2> QED BY <2>1, <2>2
<1>4. ASSUME NEW i, Located(P, B, i) PROVE Located(buffered, batch, i) \/ Within(i, ids)
  BY <1>1, <1>4, Zenon DEF Located
<1> QED
  BY <1>3, <1>4, Zenon

(* What was gathered stays so, and what is wanted is gathered.             *)
LEMMA TakeGathers ==
  ASSUME NEW t \in Threads, batch[t] = <<>>, NEW ids, NEW P, NEW B, Takes(ids, t, P, B),
         \A i : Within(i, ids) => i \in DOMAIN sent, sent \in Seq(Updates)
  PROVE  /\ \A i : Gathered(buffered, batch, i) => Gathered(P, B, i)
         /\ \A i : Within(i, ids) /\ Wanted(i) => Gathered(P, B, i)
         /\ Holds(buffered) => Holds(P)
<1>1. ASSUME NEW i, NEW c, NEW a, NEW k, InHand(buffered, batch, i, c, a, k) PROVE InHand(P, B, i, c, a, k)
  <2>1. CASE c = "buffered" /\ a \in Buffers /\ k = 0 /\ Within(i, buffered[a])
    BY <2>1, Zenon DEF InHand, Takes
  <2>2. CASE c = "batch" /\ a \in Threads /\ k \in DOMAIN batch[a] /\ Within(i, batch[a][k])
    <3>1. a # t
      BY <2>2
    <3> QED BY <2>2, <3>1, Zenon DEF InHand, Takes
  <2> QED BY <1>1, <2>1, <2>2, Zenon DEF InHand
<1>2. ASSUME NEW i, Within(i, ids), Wanted(i) PROVE Gathered(P, B, i)
  <2>1. sent[i] \in Updates
    BY <1>2
  <2>2. sent[i].kind = "short" \/ (Long(i) /\ BufferOf(sent[i]) \in Buffers)
    BY <1>2, <2>1 DEF Updates, Kinds, Long, Wanted, BufferOf, Buffers
  <2>3. CASE sent[i].kind = "short"
    <3>1. PICK k \in DOMAIN B[t] : B[t][k] = <<i>>
      BY <1>2, <2>3, Zenon DEF Takes
    <3>2. Within(i, <<i>>)
      BY DEF Within
    <3> QED BY <3>1, <3>2, Zenon DEF Gathered, InHand
  <2>4. CASE Long(i) /\ BufferOf(sent[i]) \in Buffers
    <3>1. Within(i, P[BufferOf(sent[i])])
      BY <1>2, <2>4, Zenon DEF Takes
    <3> QED BY <2>4, <3>1, Zenon DEF Gathered, InHand
  <2> QED BY <2>2, <2>3, <2>4
<1>3. ASSUME Holds(buffered) PROVE Holds(P)
  BY <1>3, Zenon DEF Holds, Takes
<1> QED
  BY <1>1, <1>2, <1>3, Zenon DEF Gathered

(* The buffers ripe are emptied into a batch, in the order of `order`.     *)
Flushes(P, B, t, ripe, order, P2, B2) ==
  /\ Orders(order, ripe)
  /\ \A b \in Buffers : P2[b] = IF b \in ripe THEN <<>> ELSE P[b]
  /\ \A u \in Threads : u # t => B2[u] = B[u]
  /\ Len(B[t]) \in Nat /\ DOMAIN B[t] = 1 .. Len(B[t])
  /\ DOMAIN B2[t] = 1 .. Len(B[t]) + Len(order)
  /\ \A k \in 1 .. Len(B[t]) : B2[t][k] = B[t][k]
  /\ \A k \in 1 .. Len(order) : B2[t][Len(B[t]) + k] = P[order[k]]

LEMMA FlushOnce ==
  ASSUME NEW t \in Threads, NEW ripe \in SUBSET Buffers, NEW order, NEW P, NEW B, NEW P2, NEW B2,
         Flushes(P, B, t, ripe, order, P2, B2), Once(P, B)
  PROVE  /\ Once(P2, B2)
         /\ \A i : Located(P2, B2, i) => Located(P, B, i)
<1> DEFINE n == Len(B[t])
           New(c, a, k) == c = "batch" /\ a = t /\ k \notin 1 .. n
<1>1. /\ n \in Nat /\ Len(order) \in Nat /\ DOMAIN order = 1 .. Len(order)
      /\ \A j \in 1 .. Len(order) : order[j] \in ripe
      /\ DOMAIN B[t] = 1 .. n /\ DOMAIN B2[t] = 1 .. n + Len(order)
  BY DEF Flushes, Orders
<1> HIDE DEF n
<1>2. ASSUME NEW i, NEW c, NEW a, NEW k, At(P2, B2, i, c, a, k), ~New(c, a, k)
      PROVE  At(P, B, i, c, a, k) /\ (c = "buffered" => a \notin ripe)
  <2>1. CASE InQueue(i, c, a, k)
    <3>1. c # "buffered"
      BY <2>1 DEF InQueue
    <3> QED BY <2>1, <3>1, Zenon DEF At
  <2>2. CASE c = "buffered" /\ a \in Buffers /\ k = 0 /\ Within(i, P2[a])
    <3>1. a \notin ripe
      <4>1. SUFFICES ASSUME a \in ripe PROVE FALSE
        OBVIOUS
      <4>2. P2[a] = <<>>
        BY <2>2, <4>1, Zenon DEF Flushes
      <4> QED BY <2>2, <4>2 DEF Within
    <3> QED BY <2>2, <3>1, Zenon DEF At, InHand, Flushes
  <2>3. CASE c = "batch" /\ a \in Threads /\ k \in DOMAIN B2[a] /\ Within(i, B2[a][k])
    <3>0. c # "buffered"
      BY <2>3
    <3>1. CASE a = t
      <4>1. k \in 1 .. n /\ k \in DOMAIN B[t]
        BY <1>1, <1>2, <2>3, <3>1
      <4>2. B2[t][k] = B[t][k]
        BY <4>1, Zenon DEF Flushes, n
      <4> QED BY <2>3, <3>0, <3>1, <4>1, <4>2, Zenon DEF At, InHand
    <3>2. CASE a # t
      BY <2>3, <3>0, <3>2, Zenon DEF At, InHand, Flushes
    <3> QED BY <3>1, <3>2
  <2> QED BY <1>2, <2>1, <2>2, <2>3, Zenon DEF At, InHand
<1>3. ASSUME NEW i, NEW c, NEW a, NEW k, At(P2, B2, i, c, a, k), New(c, a, k)
      PROVE  /\ k - n \in 1 .. Len(order) /\ k = n + (k - n) /\ order[k - n] \in ripe
             /\ At(P, B, i, "buffered", order[k - n], 0)
  <2>1. c = "batch" /\ a = t /\ k \in DOMAIN B2[t] /\ Within(i, B2[t][k])
    BY <1>3 DEF At, InHand, InQueue
  <2>2. k - n \in 1 .. Len(order) /\ k = n + (k - n)
    BY <1>1, <1>3, <2>1
  <2>3. B2[t][n + (k - n)] = P[order[k - n]]
    BY <2>2, Zenon DEF Flushes, n
  <2>4. order[k - n] \in Buffers /\ order[k - n] \in ripe
    BY <1>1, <2>2
  <2>5. Within(i, P[order[k - n]])
    BY <2>1, <2>2, <2>3, Zenon
  <2> QED BY <2>2, <2>4, <2>5, Zenon DEF At, InHand
<1>4. Once(P2, B2)
  <2> SUFFICES ASSUME NEW i, NEW c, NEW a, NEW k, NEW d, NEW b, NEW l,
                      At(P2, B2, i, c, a, k), At(P2, B2, i, d, b, l)
               PROVE  c = d /\ a = b /\ k = l
    BY Zenon DEF Once
  <2>1. CASE ~New(c, a, k) /\ ~New(d, b, l)
    <3>1. At(P, B, i, c, a, k) /\ At(P, B, i, d, b, l)
      BY <1>2, <2>1, Zenon
    <3> QED BY <3>1, Zenon DEF Once
  <2>2. CASE New(c, a, k) /\ ~New(d, b, l)
    <3>1. At(P, B, i, "buffered", order[k - n], 0) /\ order[k - n] \in ripe
      BY <1>3, <2>2, Zenon
    <3>2. At(P, B, i, d, b, l) /\ (d = "buffered" => b \notin ripe)
      BY <1>2, <2>2, Zenon
    <3>3. d = "buffered" /\ b = order[k - n]
      BY <3>1, <3>2, Zenon DEF Once
    <3> QED BY <3>1, <3>2, <3>3
  <2>3. CASE ~New(c, a, k) /\ New(d, b, l)
    <3>1. At(P, B, i, "buffered", order[l - n], 0) /\ order[l - n] \in ripe
      BY <1>3, <2>3, Zenon
    <3>2. At(P, B, i, c, a, k) /\ (c = "buffered" => a \notin ripe)
      BY <1>2, <2>3, Zenon
    <3>3. c = "buffered" /\ a = order[l - n]
      BY <3>1, <3>2, Zenon DEF Once
    <3> QED BY <3>1, <3>2, <3>3
  <2>4. CASE New(c, a, k) /\ New(d, b, l)
    <3>1. /\ At(P, B, i, "buffered", order[k - n], 0) /\ k - n \in DOMAIN order
          /\ At(P, B, i, "buffered", order[l - n], 0) /\ l - n \in DOMAIN order
          /\ k = n + (k - n) /\ l = n + (l - n)
      BY <1>1, <1>3, <2>4, Zenon
    <3>2. order[k - n] = order[l - n]
      BY <3>1, Zenon DEF Once
    <3>3. k - n = l - n
      BY <3>1, <3>2, Zenon DEF Flushes, Orders
    <3>4. k = l
      BY <3>1, <3>3, Zenon
    <3> QED BY <2>4, <3>4
  <2> QED BY <2>1, <2>2, <2>3, <2>4
<1>5. ASSUME NEW i, Located(P2, B2, i) PROVE Located(P, B, i)
  BY <1>2, <1>3, <1>5, Zenon DEF Located
<1> QED
  BY <1>4, <1>5, Zenon

LEMMA FlushGathers ==
  ASSUME NEW t \in Threads, NEW ripe \in SUBSET Buffers, NEW order, NEW P, NEW B, NEW P2, NEW B2,
         Flushes(P, B, t, ripe, order, P2, B2)
  PROVE  /\ \A i : Gathered(P, B, i) => Gathered(P2, B2, i)
         /\ Holds(P) => Holds(P2)
<1>1. /\ Len(B[t]) \in Nat /\ Len(order) \in Nat /\ DOMAIN order = 1 .. Len(order)
      /\ DOMAIN B[t] = 1 .. Len(B[t]) /\ DOMAIN B2[t] = 1 .. Len(B[t]) + Len(order)
  BY DEF Flushes, Orders
<1>2. ASSUME NEW i, NEW c, NEW a, NEW k, InHand(P, B, i, c, a, k) PROVE Gathered(P2, B2, i)
  <2>1. CASE c = "buffered" /\ a \in Buffers /\ k = 0 /\ Within(i, P[a])
    <3>1. CASE a \in ripe
      <4>1. PICK j \in 1 .. Len(order) : order[j] = a
        BY <1>1, <3>1 DEF Flushes, Orders
      <4>2. B2[t][Len(B[t]) + j] = P[a]
        BY <4>1, Zenon DEF Flushes
      <4>3. Len(B[t]) + j \in DOMAIN B2[t]
        BY <1>1, <4>1
      <4>4. InHand(P2, B2, i, "batch", t, Len(B[t]) + j)
        BY <2>1, <4>2, <4>3, Zenon DEF InHand
      <4> QED BY <4>4, Zenon DEF Gathered
    <3>2. CASE a \notin ripe
      BY <2>1, <3>2, Zenon DEF InHand, Gathered, Flushes
    <3> QED BY <3>1, <3>2
  <2>2. CASE c = "batch" /\ a \in Threads /\ k \in DOMAIN B[a] /\ Within(i, B[a][k])
    <3>1. CASE a = t
      <4>1. k \in DOMAIN B2[t] /\ k \in 1 .. Len(B[t])
        BY <1>1, <2>2, <3>1
      <4>2. B2[t][k] = B[t][k]
        BY <4>1, Zenon DEF Flushes
      <4> QED BY <2>2, <3>1, <4>1, <4>2, Zenon DEF InHand, Gathered
    <3>2. CASE a # t
      BY <2>2, <3>2, Zenon DEF InHand, Gathered, Flushes
    <3> QED BY <3>1, <3>2
  <2> QED BY <1>2, <2>1, <2>2, Zenon DEF InHand
<1>3. ASSUME Holds(P), NEW b \in Buffers, NEW i, Within(i, P2[b])
      PROVE  i \in DOMAIN sent /\ Long(i) /\ BufferOf(sent[i]) = b
  <2>1. b \notin ripe
    <3>1. SUFFICES ASSUME b \in ripe PROVE FALSE
      OBVIOUS
    <3>2. P2[b] = <<>>
      BY <3>1, Zenon DEF Flushes
    <3> QED BY <1>3, <3>2 DEF Within
  <2> QED BY <1>3, <2>1, Zenon DEF Holds, Flushes
<1> QED
  BY <1>2, <1>3, Zenon DEF Holds, Gathered

LEMMA FunIsSeq ==
  ASSUME NEW S, NEW n \in Nat, NEW g \in [1 .. n -> S]
  PROVE  g \in Seq(S) /\ Len(g) = n
OBVIOUS

(* process_update gathers.                                                 *)
Singles(ids) == [k \in DOMAIN Direct(ids) |-> <<Direct(ids)[k]>>]

LEMMA SinglesAre ==
  ASSUME NEW q \in Seq(Nat), NEW f, f = [k \in DOMAIN q |-> <<q[k]>>]
  PROVE  /\ f \in Seq(Seq(Nat)) /\ DOMAIN f = DOMAIN q /\ Len(f) = Len(q)
         /\ \A k \in DOMAIN f : f[k] = <<q[k]>>
<1>1. DOMAIN q = 1 .. Len(q) /\ Len(q) \in Nat /\ \A k \in DOMAIN q : q[k] \in Nat
  OBVIOUS
<1>2. \A k \in DOMAIN q : <<q[k]>> \in Seq(Nat)
  BY <1>1
<1>3. f \in [1 .. Len(q) -> Seq(Nat)]
  BY <1>1, <1>2
<1>4. DOMAIN f = DOMAIN q /\ \A k \in DOMAIN f : f[k] = <<q[k]>>
  OBVIOUS
<1>5. f \in Seq(Seq(Nat)) /\ Len(f) = Len(q)
  BY <1>1, <1>3
<1> QED
  BY <1>4, <1>5

LEMMA DirectIs ==
  ASSUME NEW ids \in Seq(Nat), Grows(ids)
  PROVE  /\ Direct(ids) \in Seq(Nat) /\ Grows(Direct(ids))
         /\ \A i : Within(i, Direct(ids)) <=> Within(i, ids) /\ sent[i].kind = "short"
<1> DEFINE I == {k \in DOMAIN ids : sent[ids[k]].kind = "short"}
           q == Picked(ids, I)
<1>1. Direct(ids) = q
  BY Zenon DEF Direct
<1>2. /\ q \in Seq(Nat) /\ Grows(q)
      /\ \A i : Within(i, q) <=> \E k \in DOMAIN ids : k \in I /\ ids[k] = i
  BY PickWithin
<1> HIDE DEF q
<1>3. ASSUME NEW i PROVE Within(i, q) <=> Within(i, ids) /\ sent[i].kind = "short"
  BY <1>2, Zenon DEF Within
<1> QED
  BY <1>1, <1>2, <1>3, Zenon

LEMMA BufferedIs ==
  ASSUME NEW ids \in Seq(Nat), Grows(ids), NEW b
  PROVE  /\ Buffered(ids, b) \in Seq(Nat) /\ Grows(Buffered(ids, b))
         /\ \A i : Within(i, Buffered(ids, b)) <=> Within(i, ids) /\ Long(i) /\ BufferOf(sent[i]) = b
<1> DEFINE I == {k \in DOMAIN ids :
                   sent[ids[k]].kind \in {"long", "album"} /\ BufferOf(sent[ids[k]]) = b}
           q == Picked(ids, I)
<1>1. Buffered(ids, b) = q
  BY Zenon DEF Buffered
<1>2. /\ q \in Seq(Nat) /\ Grows(q)
      /\ \A i : Within(i, q) <=> \E k \in DOMAIN ids : k \in I /\ ids[k] = i
  BY PickWithin
<1> HIDE DEF q
<1>3. ASSUME NEW i PROVE Within(i, q) <=> Within(i, ids) /\ Long(i) /\ BufferOf(sent[i]) = b
  BY <1>2, Zenon DEF Within, Long
<1> QED
  BY <1>1, <1>2, <1>3, Zenon

LEMMA TakesAre ==
  ASSUME NEW t \in Threads, batch \in [Threads -> Seq(Seq(Nat))], buffered \in [Buffers -> Seq(Nat)],
         NEW ids \in Seq(Nat), Grows(ids),
         NEW P, P = AfterUpdates(ids), NEW B, B = [batch EXCEPT ![t] = Singles(ids)]
  PROVE  /\ P \in [Buffers -> Seq(Nat)] /\ B \in [Threads -> Seq(Seq(Nat))]
         /\ Takes(ids, t, P, B)
<1>1. /\ Direct(ids) \in Seq(Nat) /\ Grows(Direct(ids))
      /\ \A i : Within(i, Direct(ids)) <=> Within(i, ids) /\ sent[i].kind = "short"
  BY DirectIs
<1> DEFINE f == Singles(ids)
<1>2. /\ f \in Seq(Seq(Nat)) /\ DOMAIN f = DOMAIN Direct(ids)
      /\ \A k \in DOMAIN f : f[k] = <<Direct(ids)[k]>>
  <2>1. f = [k \in DOMAIN Direct(ids) |-> <<Direct(ids)[k]>>]
    BY Zenon DEF Singles
  <2> HIDE DEF f
  <2> QED BY <1>1, <2>1, SinglesAre, Zenon
<1> HIDE DEF f
<1>3. B \in [Threads -> Seq(Seq(Nat))] /\ B[t] = f /\ \A u \in Threads : u # t => B[u] = batch[u]
  <2>1. B = [batch EXCEPT ![t] = f]
    BY Zenon DEF f
  <2> QED BY <1>2, <2>1
<1>4. \A b \in Buffers : P[b] = buffered[b] \o Buffered(ids, b)
  BY Zenon DEF AfterUpdates
<1>5. ASSUME NEW b \in Buffers
      PROVE  /\ P[b] \in Seq(Nat)
             /\ \A i : Within(i, P[b]) <=>
                  Within(i, buffered[b]) \/ (Within(i, ids) /\ Long(i) /\ BufferOf(sent[i]) = b)
  <2>1. /\ Buffered(ids, b) \in Seq(Nat) /\ buffered[b] \in Seq(Nat)
        /\ \A i : Within(i, Buffered(ids, b)) <=> Within(i, ids) /\ Long(i) /\ BufferOf(sent[i]) = b
    BY BufferedIs
  <2>2. \A i : Within(i, buffered[b] \o Buffered(ids, b)) <=> Within(i, buffered[b]) \/ Within(i, Buffered(ids, b))
    BY <2>1, WithinConcat
  <2>3. buffered[b] \o Buffered(ids, b) \in Seq(Nat)
    BY <2>1, ConcatProperties
  <2> QED BY <1>4, <2>1, <2>2, <2>3, Zenon
<1>6. P \in [Buffers -> Seq(Nat)]
  <2>1. P = [b \in Buffers |-> buffered[b] \o Buffered(ids, b)]
    BY Zenon DEF AfterUpdates
  <2> QED BY <1>5, <2>1, Zenon
<1>7. \A k \in DOMAIN f : Within(Direct(ids)[k], Direct(ids)) /\ f[k] = <<Direct(ids)[k]>>
  BY <1>2, Zenon DEF Within
<1>8. \A k \in DOMAIN f : \E i : Within(i, ids) /\ sent[i].kind = "short" /\ f[k] = <<i>>
  BY <1>1, <1>7, Zenon
<1>9. ASSUME NEW j \in DOMAIN f, NEW k \in DOMAIN f, f[j] = f[k] PROVE j = k
  <2>1. Direct(ids)[j] = Direct(ids)[k]
    <3>1. <<Direct(ids)[j]>> = <<Direct(ids)[k]>>
      BY <1>2, <1>9, Zenon
    <3> QED BY <3>1
  <2>2. j \in Nat /\ k \in Nat /\ Direct(ids)[j] \in Nat
    BY <1>1, <1>2
  <2>3. ~(j < k) /\ ~(k < j)
    BY <1>1, <1>2, <2>1, <2>2 DEF Grows
  <2> QED BY <2>2, <2>3
<1>10. ASSUME NEW i, Within(i, ids), sent[i].kind = "short" PROVE \E k \in DOMAIN f : f[k] = <<i>>
  <2>1. Within(i, Direct(ids))
    BY <1>1, <1>10, Zenon
  <2>2. PICK k \in DOMAIN f : Direct(ids)[k] = i
    BY <1>2, <2>1, Zenon DEF Within
  <2>3. f[k] = <<i>>
    BY <1>2, <2>2, Zenon
  <2> QED BY <2>3
<1>11. /\ \A k \in DOMAIN B[t] : \E i : Within(i, ids) /\ sent[i].kind = "short" /\ B[t][k] = <<i>>
       /\ \A j, k \in DOMAIN B[t] : B[t][j] = B[t][k] => j = k
       /\ \A i : Within(i, ids) /\ sent[i].kind = "short" => \E k \in DOMAIN B[t] : B[t][k] = <<i>>
  <2>1. B[t] = f
    BY <1>3
  <2>2. \A j, k \in DOMAIN f : f[j] = f[k] => j = k
    BY <1>9, Zenon
  <2>3. \A k \in DOMAIN B[t] : \E i : Within(i, ids) /\ sent[i].kind = "short" /\ B[t][k] = <<i>>
    BY <1>8, <2>1
  <2>4. \A j, k \in DOMAIN B[t] : B[t][j] = B[t][k] => j = k
    BY <2>1, <2>2
  <2>5. \A i : Within(i, ids) /\ sent[i].kind = "short" => \E k \in DOMAIN B[t] : B[t][k] = <<i>>
    BY <1>10, <2>1
  <2> QED BY <2>3, <2>4, <2>5, Zenon
<1>12. Takes(ids, t, P, B)
  BY <1>3, <1>5, <1>11, Zenon DEF Takes
<1> QED
  BY <1>3, <1>6, <1>12

(* The buffers that are emptied become messages.                           *)
Poured(B, t, order, P) == [B EXCEPT ![t] = B[t] \o [k \in DOMAIN order |-> P[order[k]]]]

LEMMA FlushesAre ==
  ASSUME NEW P \in [Buffers -> Seq(Nat)], NEW B \in [Threads -> Seq(Seq(Nat))], NEW t \in Threads,
         NEW ripe, ripe \subseteq Buffers, IsFiniteSet(ripe), NEW order, order \in FlushOrders(ripe)
  PROVE  /\ Emptied(P, ripe) \in [Buffers -> Seq(Nat)]
         /\ Poured(B, t, order, P) \in [Threads -> Seq(Seq(Nat))]
         /\ Flushes(P, B, t, ripe, order, Emptied(P, ripe), Poured(B, t, order, P))
<1>0. PICK P2, B2 : P2 = Emptied(P, ripe) /\ B2 = Poured(B, t, order, P)
  OBVIOUS
<1>1. Orders(order, ripe)
  BY FlushOrdersAre
<1>2. /\ order \in Seq(ripe) /\ DOMAIN order = 1 .. Len(order) /\ Len(order) \in Nat
      /\ \A k \in DOMAIN order : order[k] \in Buffers
  BY <1>1 DEF Orders
<1>3. PICK g : g = [k \in DOMAIN order |-> P[order[k]]]
  OBVIOUS
<1>4. /\ g \in Seq(Seq(Nat)) /\ Len(g) = Len(order) /\ \A k \in 1 .. Len(order) : g[k] = P[order[k]]
  <2>1. \A k \in DOMAIN order : P[order[k]] \in Seq(Nat)
    BY <1>2
  <2>2. g \in [1 .. Len(order) -> Seq(Nat)] /\ \A k \in 1 .. Len(order) : g[k] = P[order[k]]
    BY <1>2, <1>3, <2>1
  <2>3. g \in Seq(Seq(Nat)) /\ Len(g) = Len(order)
    BY <1>2, <2>2, FunIsSeq, Zenon
  <2> QED BY <2>2, <2>3
<1>5. PICK x : x = B[t] \o g
  OBVIOUS
<1>6. /\ B[t] \in Seq(Seq(Nat)) /\ x \in Seq(Seq(Nat)) /\ Len(x) = Len(B[t]) + Len(g)
      /\ \A i \in 1 .. Len(B[t]) + Len(g) : x[i] = IF i <= Len(B[t]) THEN B[t][i] ELSE g[i - Len(B[t])]
  <2>1. PICK y : y = B[t]
    OBVIOUS
  <2>2. y \in Seq(Seq(Nat)) /\ g \in Seq(Seq(Nat))
    BY <1>4, <2>1
  <2>3. /\ y \o g \in Seq(Seq(Nat)) /\ Len(y \o g) = Len(y) + Len(g)
        /\ \A i \in 1 .. Len(y) + Len(g) : (y \o g)[i] = IF i <= Len(y) THEN y[i] ELSE g[i - Len(y)]
    BY <2>2, ConcatProperties, Zenon
  <2> QED BY <1>5, <2>1, <2>2, <2>3, Zenon
<1>7. B2 \in [Threads -> Seq(Seq(Nat))] /\ B2[t] = x /\ \A u \in Threads : u # t => B2[u] = B[u]
  <2>1. B2 = [B EXCEPT ![t] = x]
    BY <1>0, <1>3, <1>5, Zenon DEF Poured
  <2> QED BY <1>6, <2>1
<1>8. P2 \in [Buffers -> Seq(Nat)] /\ \A b \in Buffers : P2[b] = IF b \in ripe THEN <<>> ELSE P[b]
  <2>1. P2 = [b \in Buffers |-> IF b \in ripe THEN <<>> ELSE P[b]]
    BY <1>0, Zenon DEF Emptied
  <2>2. <<>> \in Seq(Nat)
    OBVIOUS
  <2> QED BY <2>1, <2>2
<1>9. Len(B[t]) \in Nat /\ DOMAIN B[t] = 1 .. Len(B[t]) /\ DOMAIN x = 1 .. Len(B[t]) + Len(order)
  BY <1>4, <1>6
<1>10. /\ \A k \in 1 .. Len(B[t]) : x[k] = B[t][k]
       /\ \A k \in 1 .. Len(order) : x[Len(B[t]) + k] = P[order[k]]
  <2>1. ASSUME NEW k \in 1 .. Len(B[t]) PROVE x[k] = B[t][k]
    BY <1>2, <1>4, <1>6, <1>9
  <2>2. ASSUME NEW k \in 1 .. Len(order) PROVE x[Len(B[t]) + k] = P[order[k]]
    <3>1. /\ Len(B[t]) + k \in 1 .. Len(B[t]) + Len(g) /\ ~(Len(B[t]) + k <= Len(B[t]))
          /\ Len(B[t]) + k - Len(B[t]) = k
      BY <1>2, <1>4, <1>9
    <3>2. x[Len(B[t]) + k] = g[Len(B[t]) + k - Len(B[t])]
      BY <1>6, <3>1
    <3> QED BY <1>4, <3>1, <3>2
  <2> QED BY <2>1, <2>2
<1>11. Flushes(P, B, t, ripe, order, P2, B2)
  BY <1>1, <1>7, <1>8, <1>9, <1>10, Zenon DEF Flushes
<1> QED
  BY <1>0, <1>7, <1>8, <1>11, Zenon
-----------------------------------------------------------------------------
(* The invariant.                                                          *)

InboundTypes ==
  /\ sent \in Seq(Updates) /\ asked \subseteq DOMAIN sent
  /\ offset \in 0 .. Len(sent) + 1 /\ stored \in 0 .. Len(sent) + 1 /\ crashes \in Nat
  /\ buffered \in [Buffers -> Seq(Nat)] /\ quiet \subseteq Buffers /\ IsFiniteSet(quiet)
  /\ batch \in [Threads -> Seq(Seq(Nat))] /\ DOMAIN phase = Threads
  /\ inbound \in Seq(Seq(Nat)) /\ spawned \subseteq Seq(Nat)
  /\ serving \in [Sessions -> Seq(Nat) \cup {NONE}] /\ handled \in Seq(Seq(Nat))

(* What is merged is of one chat, and of growing ids when it is polled.    *)
Good(m) ==
  /\ m # <<>> /\ \A i : Within(i, m) => i \in DOMAIN sent /\ sent[i].chat = sent[m[1]].chat
  /\ ~Webhook => Grows(m)
MessagesGood ==
  /\ \A t \in Threads : \A k \in DOMAIN batch[t] : Good(batch[t][k])
  /\ \A k \in DOMAIN inbound : Good(inbound[k])
  /\ \A m \in spawned : Good(m)
  /\ \A s \in Sessions : serving[s] # NONE => Good(serving[s])
  /\ \A k \in DOMAIN handled : Good(handled[k])

BuffersMatch ==
  /\ Holds(buffered)
  /\ \A b \in quiet : buffered[b] # <<>>
  /\ ~Webhook => \A b \in Buffers : Grows(buffered[b])

(* Fetched in this life of the process.                                    *)
Fetched(i) == IF Webhook THEN i \in asked ELSE i < offset
TurnsOf(i) == {k \in DOMAIN handled : i \in ToSet(handled[k])}

(* An update has as many turns as there were lives of the process that     *)
(* fetched it, and not this life's while it is on its way.                 *)
TurnsCounted ==
  \A i \in Nat :
    /\ IsFiniteSet(TurnsOf(i))
    /\ Cardinality(TurnsOf(i)) <= crashes + (IF Fetched(i) THEN 1 ELSE 0)
    /\ Located(buffered, batch, i) => Fetched(i) /\ Cardinality(TurnsOf(i)) <= crashes

(* Update i is in the queue or beyond, or a restart has found it in memory. *)
Passed(i) ==
  \/ i \in forgotten
  \/ \E k \in DOMAIN handled : Within(i, handled[k])
  \/ \E k \in DOMAIN inbound : Within(i, inbound[k])
  \/ \E m \in spawned : Within(i, m)
  \/ \E s \in Sessions : serving[s] # NONE /\ Within(i, serving[s])
Kept(i) == Passed(i) \/ Gathered(buffered, batch, i)
NoneIsLost ==
  /\ \A t \in Threads : phase[t] = "poll" => batch[t] = <<>>
  /\ \A i \in DOMAIN sent : Wanted(i) /\ (Fetched(i) \/ i \in asked) => Kept(i)
  /\ Webhook => stored = 0
  /\ ~Webhook => /\ stored <= offset
                 /\ \A i \in DOMAIN sent :
                      sent[i].kind = "short" /\ (i \in asked \/ i < stored) => Passed(i)

InboundInv ==
  /\ InboundTypes /\ Once(buffered, batch)
  /\ MessagesGood /\ BuffersMatch /\ TurnsCounted /\ NoneIsLost

LEMMA SamePassed ==
  ASSUME UNCHANGED <<inbound, spawned, serving, handled, forgotten>>, NEW i
  PROVE  Passed(i)' <=> Passed(i)
<1>1. (\E k \in DOMAIN handled' : Within(i, handled[k])') <=> (\E k \in DOMAIN handled : Within(i, handled[k]))
  BY DEF Within
<1>2. (\E k \in DOMAIN inbound' : Within(i, inbound[k])') <=> (\E k \in DOMAIN inbound : Within(i, inbound[k]))
  BY DEF Within
<1>3. (\E m \in spawned' : Within(i, m)') <=> (\E m \in spawned : Within(i, m))
  BY DEF Within
<1>4. (\E s \in Sessions : (serving[s] # NONE)' /\ Within(i, serving[s])')
      <=> (\E s \in Sessions : serving[s] # NONE /\ Within(i, serving[s]))
  BY DEF Within
<1>5. i \in forgotten' <=> i \in forgotten
  OBVIOUS
<1> QED BY <1>1, <1>2, <1>3, <1>4, <1>5, Zenon DEF Passed

LEMMA NothingWithin == ASSUME NEW i PROVE ~Within(i, <<>>)
BY DEF Within

LEMMA WithinNat ==
  ASSUME NEW m \in Seq(Nat), NEW i, Within(i, m)
  PROVE  i \in Nat
BY DEF Within

LEMMA LocatedNat ==
  ASSUME InboundTypes, NEW i, Located(buffered, batch, i)
  PROVE  i \in Nat
<1>1. PICK c, a, k : At(buffered, batch, i, c, a, k)
  BY DEF Located
<1>2. CASE c = "buffered" /\ a \in Buffers /\ k = 0 /\ Within(i, buffered[a])
  <2>1. buffered[a] \in Seq(Nat)
    BY <1>2 DEF InboundTypes
  <2> QED BY <1>2, <2>1, WithinNat
<1>3. CASE c = "batch" /\ a \in Threads /\ k \in DOMAIN batch[a] /\ Within(i, batch[a][k])
  <2>1. batch[a] \in Seq(Seq(Nat))
    BY <1>3 DEF InboundTypes
  <2>2. batch[a][k] \in Seq(Nat)
    BY <1>3, <2>1, SeqIs
  <2> QED BY <1>3, <2>2, WithinNat
<1>4. CASE c = "inbound" /\ a = 0 /\ k \in DOMAIN inbound /\ Within(i, inbound[k])
  <2>1. inbound[k] \in Seq(Nat)
    BY <1>4, SeqIs DEF InboundTypes
  <2> QED BY <1>4, <2>1, WithinNat
<1>5. CASE c = "spawned" /\ a \in spawned /\ k = 0 /\ Within(i, a)
  BY <1>5, WithinNat DEF InboundTypes
<1>6. CASE c = "serving" /\ a \in Sessions /\ k = 0 /\ serving[a] # NONE /\ Within(i, serving[a])
  <2>1. serving[a] \in Seq(Nat)
    BY <1>6 DEF InboundTypes
  <2> QED BY <1>6, <2>1, WithinNat
<1> QED BY <1>1, <1>2, <1>3, <1>4, <1>5, <1>6, Zenon DEF At, InHand, InQueue

LEMMA InboundInvInit == InboundInit => InboundInv
<1> SUFFICES ASSUME InboundInit PROVE InboundInv
  OBVIOUS
<1>0. <<>> \in Seq(Nat) /\ <<>> \in Seq(Seq(Nat)) /\ <<>> \in Seq(Updates) /\ Len(<<>>) = 0 /\ DOMAIN <<>> = {}
  OBVIOUS
<1>1. InboundTypes
  <2>1. IsFiniteSet(quiet)
    BY FS_EmptySet DEF InboundInit
  <2>2. buffered \in [Buffers -> Seq(Nat)] /\ batch \in [Threads -> Seq(Seq(Nat))] /\ DOMAIN phase = Threads
    BY <1>0 DEF InboundInit
  <2>3. serving \in [Sessions -> Seq(Nat) \cup {NONE}]
    BY DEF InboundInit
  <2>4. /\ sent = <<>> /\ asked = {} /\ offset = 0 /\ stored = 0 /\ crashes = 0 /\ quiet = {}
        /\ inbound = <<>> /\ spawned = {} /\ handled = <<>>
    BY DEF InboundInit
  <2>5. /\ offset \in 0 .. Len(sent) + 1 /\ stored \in 0 .. Len(sent) + 1 /\ crashes \in Nat
    BY <1>0, <2>4
  <2>6. sent \in Seq(Updates) /\ inbound \in Seq(Seq(Nat)) /\ handled \in Seq(Seq(Nat))
    BY <1>0, <2>4, Zenon
  <2>7. asked \subseteq DOMAIN sent /\ quiet \subseteq Buffers /\ spawned \subseteq Seq(Nat)
    BY <2>4
  <2> QED BY <2>1, <2>2, <2>3, <2>5, <2>6, <2>7, Zenon DEF InboundTypes
<1>2. ASSUME NEW i PROVE ~Located(buffered, batch, i)
  <2>1. /\ \A b \in Buffers : buffered[b] = <<>>
        /\ \A u \in Threads : DOMAIN batch[u] = {}
        /\ DOMAIN inbound = {} /\ spawned = {} /\ \A s \in Sessions : serving[s] = NONE
    BY <1>0 DEF InboundInit
  <2> QED BY <2>1, NothingWithin, Zenon DEF Located, At, InHand, InQueue
<1>3. Once(buffered, batch)
  BY <1>2, Zenon DEF Once, Located
<1>4. MessagesGood
  BY <1>0 DEF InboundInit, MessagesGood
<1>5. BuffersMatch
  <2>1. \A b \in Buffers : buffered[b] = <<>>
    BY DEF InboundInit
  <2>2. Grows(<<>>)
    BY DEF Grows
  <2>3. quiet = {}
    BY DEF InboundInit
  <2> QED BY <2>1, <2>2, <2>3, NothingWithin, Zenon DEF BuffersMatch, Holds
<1>6. TurnsCounted
  <2>1. ASSUME NEW i \in Nat PROVE IsFiniteSet(TurnsOf(i)) /\ Cardinality(TurnsOf(i)) = 0
    <3>1. TurnsOf(i) = {}
      BY <1>0 DEF TurnsOf, InboundInit
    <3> QED BY <3>1, FS_EmptySet
  <2>2. crashes = 0
    BY DEF InboundInit
  <2> QED BY <1>2, <2>1, <2>2 DEF TurnsCounted
<1>7. NoneIsLost
  <2>1. sent = <<>> /\ asked = {} /\ stored = 0 /\ offset = 0 /\ DOMAIN sent = {}
        /\ \A t \in Threads : batch[t] = <<>>
    BY <1>0 DEF InboundInit
  <2> QED BY <2>1 DEF NoneIsLost
<1> QED BY <1>1, <1>3, <1>4, <1>5, <1>6, <1>7 DEF InboundInv

(* Steps that leave the queues alone.                                      *)
LEMMA SameQueues ==
  ASSUME UNCHANGED <<inbound, spawned, serving>>, NEW P, NEW B, buffered' = P, batch' = B
  PROVE  /\ Once(buffered, batch)' <=> Once(P, B)
         /\ \A i : Located(buffered, batch, i)' <=> Located(P, B, i)
         /\ \A i : Gathered(buffered, batch, i)' <=> Gathered(P, B, i)
<1>0. inbound' = inbound /\ spawned' = spawned /\ serving' = serving
  OBVIOUS
<1>1. ASSUME NEW i, NEW c, NEW a, NEW k PROVE InHand(buffered, batch, i, c, a, k)' <=> InHand(P, B, i, c, a, k)
  BY DEF InHand, Within
<1>2. ASSUME NEW i, NEW c, NEW a, NEW k PROVE InQueue(i, c, a, k)' <=> InQueue(i, c, a, k)
  BY <1>0 DEF InQueue, Within
<1>3. ASSUME NEW i, NEW c, NEW a, NEW k
      PROVE  At(buffered, batch, i, c, a, k)' <=> At(P, B, i, c, a, k)
  BY <1>1, <1>2, Zenon DEF At
<1>4. ASSUME NEW i PROVE Located(buffered, batch, i)' <=> Located(P, B, i)
  BY <1>3, Zenon DEF Located
<1>5. ASSUME NEW i PROVE Gathered(buffered, batch, i)' <=> Gathered(P, B, i)
  BY <1>1, Zenon DEF Gathered
<1>6. Once(buffered, batch)' <=> Once(P, B)
  <2>1. ASSUME Once(P, B) PROVE Once(buffered, batch)'
    <3> SUFFICES ASSUME NEW i, NEW c, NEW a, NEW k, NEW d, NEW b, NEW l,
                        At(buffered, batch, i, c, a, k)', At(buffered, batch, i, d, b, l)'
                 PROVE  c = d /\ a = b /\ k = l
      BY Zenon DEF Once
    <3>1. At(P, B, i, c, a, k) /\ At(P, B, i, d, b, l)
      BY <1>3, Zenon
    <3> QED BY <2>1, <3>1, Zenon DEF Once
  <2>2. ASSUME Once(buffered, batch)' PROVE Once(P, B)
    <3> SUFFICES ASSUME NEW i, NEW c, NEW a, NEW k, NEW d, NEW b, NEW l,
                        At(P, B, i, c, a, k), At(P, B, i, d, b, l)
                 PROVE  c = d /\ a = b /\ k = l
      BY Zenon DEF Once
    <3>1. At(buffered, batch, i, c, a, k)' /\ At(buffered, batch, i, d, b, l)'
      BY <1>3, Zenon
    <3> QED BY <2>2, <3>1, Zenon DEF Once
  <2> QED BY <2>1, <2>2
<1> QED
  BY <1>4, <1>5, <1>6

LEMMA SameGood ==
  ASSUME sent' = sent
  PROVE  /\ \A m : Good(m)' <=> Good(m)
         /\ \A P : Holds(P)' <=> Holds(P)
<1>1. ASSUME NEW m PROVE Good(m)' <=> Good(m)
  BY Zenon DEF Good, Within, Grows
<1>2. ASSUME NEW P PROVE Holds(P)' <=> Holds(P)
  BY Zenon DEF Holds, Within, Long, BufferOf
<1> QED BY <1>1, <1>2

LEMMA MoreGood ==
  ASSUME NEW u \in Updates, sent \in Seq(Updates), sent' = Append(sent, u)
  PROVE  /\ \A i \in DOMAIN sent : i \in DOMAIN sent' /\ sent'[i] = sent[i]
         /\ DOMAIN sent' = DOMAIN sent \cup {Len(sent) + 1}
         /\ sent' \in Seq(Updates) /\ Len(sent') = Len(sent) + 1
         /\ \A m : m \in Seq(Nat) /\ Good(m) => Good(m)'
         /\ \A P : Holds(P) => Holds(P)'
<1>1. /\ sent' \in Seq(Updates) /\ Len(sent') = Len(sent) + 1
      /\ \A i \in 1 .. Len(sent) : sent'[i] = sent[i]
  BY AppendProperties
<1>2. /\ DOMAIN sent = 1 .. Len(sent) /\ DOMAIN sent' = 1 .. Len(sent) + 1 /\ Len(sent) \in Nat
  BY <1>1
<1>3. \A i \in DOMAIN sent : i \in DOMAIN sent' /\ sent'[i] = sent[i]
  BY <1>1, <1>2
<1>4. ASSUME NEW m \in Seq(Nat), Good(m) PROVE Good(m)'
  <2>1. Within(m[1], m)
    BY <1>4 DEF Good, Within
  <2>2. ASSUME NEW i, Within(i, m) PROVE i \in DOMAIN sent' /\ sent'[i].chat = sent'[m[1]].chat
    <3>1. i \in DOMAIN sent /\ m[1] \in DOMAIN sent /\ sent[i].chat = sent[m[1]].chat
      BY <1>4, <2>1, <2>2, Zenon DEF Good
    <3> QED BY <1>3, <3>1
  <2>3. \A i : Within(i, m)' <=> Within(i, m)
    BY DEF Within
  <2>4. Grows(m)' <=> Grows(m)
    BY DEF Grows
  <2> QED BY <1>4, <2>2, <2>3, <2>4, Zenon DEF Good
<1>5. ASSUME NEW P, Holds(P) PROVE Holds(P)'
  <2>1. ASSUME NEW b \in Buffers, NEW i, Within(i, P[b])
        PROVE  i \in DOMAIN sent' /\ sent'[i].kind \in {"long", "album"} /\ BufferOf(sent'[i]) = b
    <3>1. i \in DOMAIN sent /\ sent[i].kind \in {"long", "album"} /\ BufferOf(sent[i]) = b
      BY <1>5, <2>1, Zenon DEF Holds, Long
    <3> QED BY <1>3, <3>1
  <2>2. \A b \in Buffers : \A i : Within(i, P[b])' <=> Within(i, P[b])
    BY DEF Within
  <2> QED BY <2>1, <2>2, Zenon DEF Holds, Long
<1>6. DOMAIN sent' = DOMAIN sent \cup {Len(sent) + 1}
  BY <1>2
<1> QED BY <1>1, <1>3, <1>4, <1>5, <1>6, Zenon

LEMMA MessagesAre ==
  ASSUME InboundTypes
  PROVE  /\ \A t \in Threads : \A k \in DOMAIN batch[t] : batch[t][k] \in Seq(Nat)
         /\ \A k \in DOMAIN inbound : inbound[k] \in Seq(Nat)
         /\ \A m \in spawned : m \in Seq(Nat)
         /\ \A s \in Sessions : serving[s] # NONE => serving[s] \in Seq(Nat)
         /\ \A k \in DOMAIN handled : handled[k] \in Seq(Nat)
<1>1. ASSUME NEW t \in Threads, NEW k \in DOMAIN batch[t] PROVE batch[t][k] \in Seq(Nat)
  <2>1. batch[t] \in Seq(Seq(Nat))
    BY DEF InboundTypes
  <2> QED BY <2>1, SeqIs
<1>2. inbound \in Seq(Seq(Nat)) /\ handled \in Seq(Seq(Nat))
  BY DEF InboundTypes
<1>3. /\ \A k \in DOMAIN inbound : inbound[k] \in Seq(Nat)
      /\ \A k \in DOMAIN handled : handled[k] \in Seq(Nat)
  BY <1>2, SeqIs
<1>4. /\ \A m \in spawned : m \in Seq(Nat)
      /\ \A s \in Sessions : serving[s] # NONE => serving[s] \in Seq(Nat)
  BY DEF InboundTypes
<1> QED BY <1>1, <1>3, <1>4

LEMMA UserSendsInv == ASSUME InboundInv, NEW u \in Updates, UserSends(u) PROVE InboundInv'
<1>1. InboundTypes /\ sent \in Seq(Updates) /\ sent' = Append(sent, u)
  BY DEF InboundInv, InboundTypes, UserSends
<1>2. UNCHANGED <<asked, offset, stored, buffered, quiet, phase, batch, inbound, spawned, serving,
                  handled, forgotten, crashes>>
  BY DEF UserSends
<1>3. /\ \A i \in DOMAIN sent : i \in DOMAIN sent' /\ sent'[i] = sent[i]
      /\ DOMAIN sent' = DOMAIN sent \cup {Len(sent) + 1}
      /\ sent' \in Seq(Updates) /\ Len(sent') = Len(sent) + 1
      /\ \A m : m \in Seq(Nat) /\ Good(m) => Good(m)'
      /\ \A P : Holds(P) => Holds(P)'
  BY <1>1, MoreGood
<1>4. Len(sent) \in Nat /\ DOMAIN sent = 1 .. Len(sent)
  BY <1>1
<1>5. InboundTypes'
  <2>1. /\ asked' \subseteq DOMAIN sent'
        /\ offset' \in 0 .. Len(sent') + 1 /\ stored' \in 0 .. Len(sent') + 1
    BY <1>1, <1>2, <1>3, <1>4 DEF InboundTypes
  <2> QED BY <1>1, <1>2, <1>3, <2>1 DEF InboundTypes
<1>a. PICK P, B : P = buffered /\ B = batch
  OBVIOUS
<1>6. /\ Once(buffered, batch)' <=> Once(buffered, batch)
      /\ \A i : Located(buffered, batch, i)' <=> Located(buffered, batch, i)
      /\ \A i : Gathered(buffered, batch, i)' <=> Gathered(buffered, batch, i)
  <2>1. buffered' = P /\ batch' = B /\ UNCHANGED <<inbound, spawned, serving>>
    BY <1>2, <1>a
  <2>2. /\ Once(buffered, batch)' <=> Once(P, B)
        /\ \A i : Located(buffered, batch, i)' <=> Located(P, B, i)
        /\ \A i : Gathered(buffered, batch, i)' <=> Gathered(P, B, i)
    BY <2>1, SameQueues
  <2> QED BY <1>a, <2>2, Zenon
<1>7. MessagesGood'
  BY <1>1, <1>2, <1>3, MessagesAre, Zenon DEF InboundInv, MessagesGood
<1>8. BuffersMatch'
  <2>1. Holds(buffered)'
    <3>1. Holds(P)'
      BY <1>3, <1>a, Zenon DEF InboundInv, BuffersMatch
    <3> QED BY <1>2, <1>a, <3>1, Zenon
  <2> QED BY <1>2, <2>1, Zenon DEF InboundInv, BuffersMatch, Grows
<1>9. TurnsCounted'
  <2>1. \A i : (TurnsOf(i)' = TurnsOf(i)) /\ (Fetched(i)' <=> Fetched(i))
    BY <1>2 DEF TurnsOf, Fetched
  <2> QED BY <1>2, <1>6, <2>1 DEF InboundInv, TurnsCounted
<1>10. NoneIsLost'
  <2>1. Len(sent) + 1 \notin asked /\ ~(Len(sent) + 1 < offset) /\ ~(Len(sent) + 1 < stored)
    BY <1>1, <1>4 DEF InboundTypes
  <2>0. ASSUME NEW i PROVE Passed(i)' <=> Passed(i)
    BY <1>2, SamePassed
  <2>2. ASSUME NEW i \in DOMAIN sent', Wanted(i)', Fetched(i)' \/ i \in asked' PROVE Kept(i)'
    <3>1. i # Len(sent) + 1
      BY <1>2, <2>1, <2>2 DEF Fetched
    <3>2. i \in DOMAIN sent /\ sent'[i] = sent[i]
      BY <1>3, <3>1
    <3>3. Wanted(i) /\ (Fetched(i) \/ i \in asked)
      BY <1>2, <2>2, <3>2 DEF Wanted, Fetched
    <3>4. Kept(i)
      BY <3>2, <3>3 DEF InboundInv, NoneIsLost
    <3> QED BY <2>0, <1>6, <3>4, Zenon DEF Kept
  <2>3. ASSUME NEW i \in DOMAIN sent', ~Webhook, sent'[i].kind = "short", i \in asked' \/ i < stored'
        PROVE  Passed(i)'
    <3>1. i # Len(sent) + 1
      BY <1>2, <2>1, <2>3
    <3>2. i \in DOMAIN sent /\ sent'[i] = sent[i]
      BY <1>3, <3>1
    <3>3. Passed(i)
      BY <1>2, <2>3, <3>2 DEF InboundInv, NoneIsLost
    <3> QED BY <2>0, <3>3
  <2> QED BY <1>2, <2>2, <2>3 DEF InboundInv, NoneIsLost
<1> QED BY <1>5, <1>6, <1>7, <1>8, <1>9, <1>10 DEF InboundInv

LEMMA MaturesInv == ASSUME InboundInv, NEW b \in Buffers, Matures(b) PROVE InboundInv'
<1>1. /\ buffered[b] # <<>> /\ quiet' = quiet \cup {b}
      /\ UNCHANGED <<sent, asked, offset, stored, buffered, phase, batch, inbound, spawned, serving,
                     handled, forgotten, crashes>>
  BY DEF Matures
<1>2. IsFiniteSet(quiet') /\ quiet' \subseteq Buffers
  BY <1>1, FS_AddElement DEF InboundInv, InboundTypes
<1>3. InboundTypes'
  BY <1>1, <1>2 DEF InboundInv, InboundTypes
<1>a. PICK P, B : P = buffered /\ B = batch
  OBVIOUS
<1>4. /\ Once(buffered, batch)' <=> Once(buffered, batch)
      /\ \A i : Located(buffered, batch, i)' <=> Located(buffered, batch, i)
      /\ \A i : Gathered(buffered, batch, i)' <=> Gathered(buffered, batch, i)
  <2>1. buffered' = P /\ batch' = B /\ UNCHANGED <<inbound, spawned, serving>>
    BY <1>1, <1>a
  <2>2. /\ Once(buffered, batch)' <=> Once(P, B)
        /\ \A i : Located(buffered, batch, i)' <=> Located(P, B, i)
        /\ \A i : Gathered(buffered, batch, i)' <=> Gathered(P, B, i)
    BY <2>1, SameQueues
  <2> QED BY <1>a, <2>2, Zenon
<1>5. /\ \A m : Good(m)' <=> Good(m)
      /\ \A Q : Holds(Q)' <=> Holds(Q)
  BY <1>1, SameGood
<1>6. MessagesGood'
  BY <1>1, <1>5, Zenon DEF InboundInv, MessagesGood
<1>7. BuffersMatch'
  <2>1. Holds(buffered)'
    BY <1>1, <1>5, <1>a, Zenon DEF InboundInv, BuffersMatch
  <2>2. \A c \in quiet' : buffered'[c] # <<>>
    BY <1>1 DEF InboundInv, BuffersMatch
  <2>3. ~Webhook => \A c \in Buffers : Grows(buffered[c])'
    BY <1>1, Zenon DEF InboundInv, BuffersMatch, Grows
  <2> QED BY <2>1, <2>2, <2>3, Zenon DEF BuffersMatch
<1>8. TurnsCounted'
  <2>1. \A i : (TurnsOf(i)' = TurnsOf(i)) /\ (Fetched(i)' <=> Fetched(i))
    BY <1>1 DEF TurnsOf, Fetched
  <2> QED BY <1>1, <1>4, <2>1 DEF InboundInv, TurnsCounted
<1>9. NoneIsLost'
  <2>0. ASSUME NEW i PROVE Passed(i)' <=> Passed(i)
    BY <1>1, SamePassed
  <2>1. \A i : (Kept(i)' <=> Kept(i)) /\ (Fetched(i)' <=> Fetched(i)) /\ (Wanted(i)' <=> Wanted(i))
    BY <1>1, <1>4, <2>0 DEF Kept, Fetched, Wanted
  <2> QED BY <1>1, <2>0, <2>1 DEF InboundInv, NoneIsLost
<1> QED BY <1>3, <1>4, <1>6, <1>7, <1>8, <1>9 DEF InboundInv

LEMMA PersistInv == ASSUME InboundInv, NEW t \in Threads, Persist(t) PROVE InboundInv'
<1>1. /\ phase[t] = "publish" /\ batch[t] = <<>>
      /\ stored' = stored \/ (~Webhook /\ offset > stored /\ stored' = offset)
      /\ phase' = [phase EXCEPT ![t] = "poll"]
      /\ UNCHANGED <<sent, asked, offset, buffered, quiet, batch, inbound, spawned, serving,
                     handled, forgotten, crashes>>
  BY DEF Persist
<1>2. InboundTypes'
  BY <1>1 DEF InboundInv, InboundTypes
<1>a. PICK P, B : P = buffered /\ B = batch
  OBVIOUS
<1>4. /\ Once(buffered, batch)' <=> Once(buffered, batch)
      /\ \A i : Located(buffered, batch, i)' <=> Located(buffered, batch, i)
      /\ \A i : Gathered(buffered, batch, i)' <=> Gathered(buffered, batch, i)
  <2>1. buffered' = P /\ batch' = B /\ UNCHANGED <<inbound, spawned, serving>>
    BY <1>1, <1>a
  <2>2. /\ Once(buffered, batch)' <=> Once(P, B)
        /\ \A i : Located(buffered, batch, i)' <=> Located(P, B, i)
        /\ \A i : Gathered(buffered, batch, i)' <=> Gathered(P, B, i)
    BY <2>1, SameQueues
  <2> QED BY <1>a, <2>2, Zenon
<1>5. /\ \A m : Good(m)' <=> Good(m)
      /\ \A Q : Holds(Q)' <=> Holds(Q)
  BY <1>1, SameGood
<1>6. MessagesGood'
  BY <1>1, <1>5, Zenon DEF InboundInv, MessagesGood
<1>7. BuffersMatch'
  <2>1. Holds(buffered)'
    BY <1>1, <1>5, <1>a, Zenon DEF InboundInv, BuffersMatch
  <2>2. ~Webhook => \A c \in Buffers : Grows(buffered[c])'
    BY <1>1, Zenon DEF InboundInv, BuffersMatch, Grows
  <2> QED BY <1>1, <2>1, <2>2, Zenon DEF InboundInv, BuffersMatch
<1>8. TurnsCounted'
  <2>1. \A i : (TurnsOf(i)' = TurnsOf(i)) /\ (Fetched(i)' <=> Fetched(i))
    BY <1>1 DEF TurnsOf, Fetched
  <2> QED BY <1>1, <1>4, <2>1 DEF InboundInv, TurnsCounted
<1>9. NoneIsLost'
  <2>0. ASSUME NEW i PROVE Passed(i)' <=> Passed(i)
    BY <1>1, SamePassed
  <2>1. \A i : (Kept(i)' <=> Kept(i)) /\ (Fetched(i)' <=> Fetched(i)) /\ (Wanted(i)' <=> Wanted(i))
    BY <1>1, <1>4, <2>0 DEF Kept, Fetched, Wanted
  <2>2. \A u \in Threads : phase'[u] = "poll" => batch'[u] = <<>>
    BY <1>1 DEF InboundInv, InboundTypes, NoneIsLost
  <2>3. Webhook => stored' = 0
    BY <1>1 DEF InboundInv, NoneIsLost
  <2>4. CASE ~Webhook
    <3>1. stored' <= offset'
      BY <1>1, <2>4 DEF InboundInv, InboundTypes, NoneIsLost
    <3>2. ASSUME NEW i \in DOMAIN sent, sent[i].kind = "short", i \in asked \/ i < stored'
          PROVE  Passed(i)
      <4>1. CASE i \in asked \/ i < stored
        BY <2>4, <3>2, <4>1 DEF InboundInv, NoneIsLost
      <4>2. CASE stored' = offset /\ i < offset
        <5>1. Wanted(i) /\ Fetched(i)
          BY <2>4, <3>2, <4>2 DEF Wanted, Fetched
        <5>2. Kept(i)
          BY <5>1 DEF InboundInv, NoneIsLost
        <5>3. ~Gathered(buffered, batch, i)
          <6>1. SUFFICES ASSUME NEW c, NEW a, NEW k, InHand(buffered, batch, i, c, a, k) PROVE FALSE
            BY Zenon DEF Gathered
          <6>2. CASE c = "buffered" /\ a \in Buffers /\ Within(i, buffered[a])
            BY <3>2, <6>2 DEF InboundInv, BuffersMatch, Holds, Long
          <6>3. CASE c = "batch" /\ a \in Threads /\ k \in DOMAIN batch[a]
            <7>1. a = t
              BY <2>4, <6>3, MessageAssumption, Zenon
            <7> QED BY <1>1, <6>3, <7>1
          <6> QED BY <6>1, <6>2, <6>3, Zenon DEF InHand
        <5> QED BY <2>4, <3>2, <5>2, <5>3 DEF Kept
      <4> QED BY <1>1, <3>2, <4>1, <4>2
    <3> QED BY <1>1, <2>0, <2>1, <2>2, <2>4, <3>1, <3>2 DEF InboundInv, NoneIsLost
  <2>5. CASE Webhook
    BY <1>1, <2>0, <2>1, <2>2, <2>3, <2>5 DEF InboundInv, NoneIsLost
  <2> QED BY <2>4, <2>5
<1> QED BY <1>2, <1>4, <1>6, <1>7, <1>8, <1>9 DEF InboundInv

(* What a step must do that takes updates in hand and leaves the queues.   *)
LEMMA GatherInv ==
  ASSUME InboundInv, NEW P, NEW B, buffered' = P, batch' = B,
         UNCHANGED <<sent, stored, inbound, spawned, serving, handled, forgotten, crashes>>,
         P \in [Buffers -> Seq(Nat)], B \in [Threads -> Seq(Seq(Nat))], Once(P, B), Holds(P),
         \A b \in Buffers : ~Webhook => Grows(P[b]),
         \A t \in Threads : \A k \in DOMAIN B[t] : Good(B[t][k]),
         quiet' \subseteq Buffers, IsFiniteSet(quiet'), \A b \in quiet' : P[b] # <<>>,
         DOMAIN phase' = Threads, \A t \in Threads : phase'[t] = "poll" => B[t] = <<>>,
         offset' \in 0 .. Len(sent) + 1, asked' \subseteq DOMAIN sent,
         \A i : Fetched(i) /\ i \in Nat => Fetched(i)',
         \A i : Located(P, B, i) => Located(buffered, batch, i) \/ (i \in Nat /\ ~Fetched(i) /\ Fetched(i)'),
         \A i : Gathered(buffered, batch, i) => Gathered(P, B, i),
         \A i \in DOMAIN sent : Wanted(i) /\ (Fetched(i)' \/ i \in asked') => Gathered(P, B, i) \/ Kept(i),
         ~Webhook => /\ stored <= offset'
                     /\ \A i \in asked' : sent[i].kind = "short" => Passed(i)
  PROVE  InboundInv'
<1>1. InboundTypes'
  BY DEF InboundInv, InboundTypes
<1>2. /\ Once(buffered, batch)'
      /\ \A i : Located(buffered, batch, i)' <=> Located(P, B, i)
      /\ \A i : Gathered(buffered, batch, i)' <=> Gathered(P, B, i)
  BY SameQueues
<1>3. /\ \A m : Good(m)' <=> Good(m)
      /\ \A Q : Holds(Q)' <=> Holds(Q)
  BY SameGood
<1>4. MessagesGood'
  BY <1>3, Zenon DEF InboundInv, MessagesGood
<1>5. BuffersMatch'
  <2>1. Holds(buffered)'
    BY <1>3, Zenon
  <2>2. ~Webhook => \A b \in Buffers : Grows(buffered[b])'
    BY Zenon DEF Grows
  <2>3. \A b \in quiet' : buffered'[b] # <<>>
    OBVIOUS
  <2> QED BY <2>1, <2>2, <2>3, Zenon DEF BuffersMatch
<1>6. TurnsCounted'
  <2>1. \A i : TurnsOf(i)' = TurnsOf(i)
    BY DEF TurnsOf
  <2>2. ASSUME NEW i \in Nat
        PROVE  /\ IsFiniteSet(TurnsOf(i))
               /\ Cardinality(TurnsOf(i)) <= crashes + (IF Fetched(i)' THEN 1 ELSE 0)
               /\ Located(buffered, batch, i)' => Fetched(i)' /\ Cardinality(TurnsOf(i)) <= crashes
    <3>1. /\ IsFiniteSet(TurnsOf(i))
          /\ Cardinality(TurnsOf(i)) <= crashes + (IF Fetched(i) THEN 1 ELSE 0)
          /\ Located(buffered, batch, i) => Fetched(i) /\ Cardinality(TurnsOf(i)) <= crashes
      BY DEF InboundInv, TurnsCounted
    <3>2. Cardinality(TurnsOf(i)) \in Nat /\ crashes \in Nat
      BY <3>1, FS_CardinalityType DEF InboundInv, InboundTypes
    <3>3. Fetched(i) => Fetched(i)'
      OBVIOUS
    <3>4. Located(buffered, batch, i)' => Located(buffered, batch, i) \/ (~Fetched(i) /\ Fetched(i)')
      BY <1>2, Zenon
    <3> QED BY <3>1, <3>2, <3>3, <3>4
  <2> QED BY <2>1, <2>2, Zenon DEF TurnsCounted
<1>7. NoneIsLost'
  <2>1. \A i : Wanted(i)' <=> Wanted(i)
    BY DEF Wanted
  <2>0. ASSUME NEW i PROVE Passed(i)' <=> Passed(i)
    BY SamePassed
  <2>2. \A i : Kept(i) => Kept(i)'
    BY <2>0, <1>2, Zenon DEF Kept
  <2>3. \A i : Gathered(P, B, i) => Kept(i)'
    BY <1>2, Zenon DEF Kept
  <2>4. \A i \in DOMAIN sent : Wanted(i) /\ (Fetched(i)' \/ i \in asked') => Kept(i)'
    BY <2>2, <2>3, Zenon
  <2>5. ~Webhook => \A i \in DOMAIN sent :
                      sent[i].kind = "short" /\ (i \in asked' \/ i < stored) => Passed(i)'
    BY <2>0, Zenon DEF InboundInv, NoneIsLost
  <2>6. Webhook => stored' = 0
    BY DEF InboundInv, NoneIsLost
  <2> QED BY <2>1, <2>4, <2>5, <2>6 DEF NoneIsLost
<1> QED BY <1>1, <1>2, <1>4, <1>5, <1>6, <1>7 DEF InboundInv

LEMMA BufferOfChat ==
  ASSUME NEW u, NEW v, BufferOf(u) = BufferOf(v)
  PROVE  u.chat = v.chat
<1>1. BufferOf(u)[2] = u.chat
  BY DEF BufferOf
<1>2. BufferOf(v)[2] = v.chat
  BY DEF BufferOf
<1> QED BY <1>1, <1>2

LEMMA BufferGood ==
  ASSUME NEW P, Holds(P), NEW b \in Buffers, P[b] \in Seq(Nat), P[b] # <<>>, ~Webhook => Grows(P[b])
  PROVE  Good(P[b])
<1>1. PICK m : m = P[b]
  OBVIOUS
<1>2. m \in Seq(Nat) /\ m # <<>>
  BY <1>1
<1>3. Within(m[1], m)
  BY <1>2 DEF Within
<1>4. ASSUME NEW i, Within(i, m) PROVE i \in DOMAIN sent /\ sent[i].chat = sent[m[1]].chat
  <2>1. i \in DOMAIN sent /\ BufferOf(sent[i]) = b /\ BufferOf(sent[m[1]]) = b
    BY <1>1, <1>3, <1>4, Zenon DEF Holds
  <2> QED BY <2>1, BufferOfChat, Zenon
<1>5. Good(m)
  BY <1>1, <1>2, <1>4, Zenon DEF Good
<1> QED BY <1>1, <1>5, Zenon

LEMMA SingleGood ==
  ASSUME NEW i \in DOMAIN sent
  PROVE  Good(<<i>>)
<1>1. \A j : Within(j, <<i>>) => j = i
  BY WithinOne
<1>2. <<i>>[1] = i /\ <<i>> # <<>> /\ Grows(<<i>>)
  BY DEF Grows
<1> QED BY <1>1, <1>2, Zenon DEF Good

LEMMA FlushGood ==
  ASSUME NEW t \in Threads, NEW ripe \in SUBSET Buffers, NEW order, NEW P \in [Buffers -> Seq(Nat)],
         NEW B, NEW P2, NEW B2,
         Flushes(P, B, t, ripe, order, P2, B2), Holds(P), \A b \in ripe : P[b] # <<>>,
         \A b \in Buffers : ~Webhook => Grows(P[b]),
         \A u \in Threads : \A k \in DOMAIN B[u] : Good(B[u][k])
  PROVE  /\ \A u \in Threads : \A k \in DOMAIN B2[u] : Good(B2[u][k])
         /\ \A b \in Buffers : ~Webhook => Grows(P2[b])
<1>1. /\ Len(B[t]) \in Nat /\ Len(order) \in Nat /\ DOMAIN order = 1 .. Len(order)
      /\ \A j \in 1 .. Len(order) : order[j] \in ripe
      /\ DOMAIN B[t] = 1 .. Len(B[t]) /\ DOMAIN B2[t] = 1 .. Len(B[t]) + Len(order)
  BY DEF Flushes, Orders
<1>2. ASSUME NEW k \in DOMAIN B2[t] PROVE Good(B2[t][k])
  <2>1. CASE k <= Len(B[t])
    <3>1. k \in 1 .. Len(B[t]) /\ k \in DOMAIN B[t]
      BY <1>1, <2>1
    <3>2. B2[t][k] = B[t][k]
      BY <3>1, Zenon DEF Flushes
    <3> QED BY <3>1, <3>2, Zenon
  <2>2. CASE ~(k <= Len(B[t]))
    <3>1. k - Len(B[t]) \in 1 .. Len(order) /\ k = Len(B[t]) + (k - Len(B[t]))
      BY <1>1, <2>2
    <3>2. B2[t][Len(B[t]) + (k - Len(B[t]))] = P[order[k - Len(B[t])]]
      BY <3>1, Zenon DEF Flushes
    <3>3. order[k - Len(B[t])] \in ripe /\ order[k - Len(B[t])] \in Buffers
      BY <1>1, <3>1
    <3>4. Good(P[order[k - Len(B[t])]])
      BY <3>3, BufferGood
    <3> QED BY <3>1, <3>2, <3>4, Zenon
  <2> QED BY <2>1, <2>2
<1>3. \A u \in Threads : \A k \in DOMAIN B2[u] : Good(B2[u][k])
  BY <1>2, Zenon DEF Flushes
<1>4. Grows(<<>>)
  BY DEF Grows
<1>5. \A b \in Buffers : ~Webhook => Grows(P2[b])
  BY <1>4, Zenon DEF Flushes
<1> QED BY <1>3, <1>5

(* What a request finds.                                                   *)
LEMMA AvailableIs ==
  ASSUME sent \in Seq(Updates)
  PROVE  /\ Available \in Seq(Nat) /\ Grows(Available)
         /\ \A i : Within(i, Available) <=> i \in DOMAIN sent /\ i >= offset /\ i \notin asked
<1> DEFINE I == {i \in DOMAIN sent : i >= offset /\ i \notin asked}
<1>1. PICK s : s = [i \in DOMAIN sent |-> i]
  OBVIOUS
<1>2. DOMAIN sent = 1 .. Len(sent) /\ Len(sent) \in Nat
  OBVIOUS
<1>3. s \in Seq(Nat) /\ DOMAIN s = DOMAIN sent /\ \A i \in DOMAIN sent : s[i] = i
  <2>1. s \in [1 .. Len(sent) -> Nat]
    BY <1>1, <1>2
  <2>2. s \in Seq(Nat)
    BY <1>2, <2>1, FunIsSeq
  <2> QED BY <1>1, <2>2
<1>4. Grows(s)
  BY <1>3 DEF Grows
<1>5. Available = Picked(s, I)
  BY <1>1, Zenon DEF Available
<1>6. /\ Picked(s, I) \in Seq(Nat) /\ Grows(Picked(s, I))
      /\ \A i : Within(i, Picked(s, I)) <=> \E k \in DOMAIN s : k \in I /\ s[k] = i
  BY <1>3, <1>4, PickWithin
<1>7. \A i : (\E k \in DOMAIN s : k \in I /\ s[k] = i) <=> i \in I
  BY <1>3, Zenon
<1> QED BY <1>5, <1>6, <1>7, Zenon

LEMMA OffsetIs ==
  ASSUME NEW ids \in Seq(Nat), Grows(ids), sent \in Seq(Updates), offset \in 0 .. Len(sent) + 1,
         \A i : Within(i, ids) => i \in DOMAIN sent
  PROVE  /\ OffsetAfter(ids) \in 0 .. Len(sent) + 1 /\ OffsetAfter(ids) >= offset
         /\ \A i : Within(i, ids) => i < OffsetAfter(ids)
         /\ ids = <<>> => OffsetAfter(ids) = offset
         /\ \A i \in Nat : offset <= i /\ i < OffsetAfter(ids) => \E j : Within(j, ids) /\ i <= j
<1>1. Len(sent) \in Nat /\ DOMAIN sent = 1 .. Len(sent)
  OBVIOUS
<1>2. CASE ids = <<>>
  <2>1. OffsetAfter(ids) = offset
    BY <1>2 DEF OffsetAfter
  <2>2. \A i : ~Within(i, ids)
    BY <1>2, NothingWithin
  <2> QED BY <1>1, <2>1, <2>2
<1>3. CASE ids # <<>>
  <2>1. Len(ids) \in Nat /\ Len(ids) # 0 /\ DOMAIN ids = 1 .. Len(ids) /\ Len(ids) \in DOMAIN ids
    BY <1>3
  <2> DEFINE l == Last(ids)
  <2>2. l = ids[Len(ids)] /\ Within(l, ids)
    BY <2>1 DEF Last, Within
  <2>3. l \in 1 .. Len(sent)
    BY <1>1, <2>2
  <2>4. OffsetAfter(ids) = IF l >= offset THEN l + 1 ELSE offset
    BY <1>3 DEF OffsetAfter
  <2> HIDE DEF l
  <2>5. ASSUME NEW i, Within(i, ids) PROVE i \in Nat /\ i <= l
    <3>1. PICK j \in DOMAIN ids : ids[j] = i
      BY <2>5 DEF Within
    <3>2. j = Len(ids) \/ j < Len(ids)
      BY <2>1, <3>1
    <3>3. i \in Nat
      BY <3>1
    <3>4. CASE j = Len(ids)
      BY <2>2, <2>3, <3>1, <3>4
    <3>5. CASE j < Len(ids)
      <4>1. ids[j] < ids[Len(ids)]
        BY <2>1, <3>1, <3>5 DEF Grows
      <4> QED BY <2>2, <2>3, <3>1, <3>3, <4>1
    <3> QED BY <3>2, <3>3, <3>4, <3>5
  <2>6. /\ OffsetAfter(ids) \in 0 .. Len(sent) + 1 /\ OffsetAfter(ids) >= offset
        /\ \A i : Within(i, ids) => i < OffsetAfter(ids)
    BY <1>1, <2>3, <2>4, <2>5
  <2>7. \A i \in Nat : offset <= i /\ i < OffsetAfter(ids) => Within(l, ids) /\ i <= l
    BY <1>1, <2>2, <2>3, <2>4
  <2> QED BY <1>3, <2>6, <2>7, Zenon
<1> QED BY <1>2, <1>3

LEMMA FlushInv == ASSUME InboundInv, NEW t \in Threads, Flush(t) PROVE InboundInv'
<1>1. PICK order \in FlushOrders(quiet) :
        batch' = [batch EXCEPT ![t] = @ \o [i \in DOMAIN order |-> buffered[order[i]]]]
  BY DEF Flush
<1>2. /\ buffered' = Emptied(buffered, quiet) /\ quiet' = {} /\ phase' = [phase EXCEPT ![t] = "publish"]
      /\ UNCHANGED <<sent, asked, offset, stored, inbound, spawned, serving, handled, forgotten, crashes>>
  BY DEF Flush
<1>3. PICK Q, C : Q = buffered' /\ C = batch'
  OBVIOUS
<1>4. InboundTypes /\ Once(buffered, batch) /\ MessagesGood /\ BuffersMatch /\ TurnsCounted /\ NoneIsLost
  BY DEF InboundInv
<1>5. /\ buffered \in [Buffers -> Seq(Nat)] /\ batch \in [Threads -> Seq(Seq(Nat))]
      /\ quiet \in SUBSET Buffers /\ IsFiniteSet(quiet) /\ DOMAIN phase = Threads
  BY <1>4 DEF InboundTypes
<1>6. /\ Q \in [Buffers -> Seq(Nat)] /\ C \in [Threads -> Seq(Seq(Nat))]
      /\ Flushes(buffered, batch, t, quiet, order, Q, C)
  <2>1. Q = Emptied(buffered, quiet)
    BY <1>2, <1>3
  <2>2. C = Poured(batch, t, order, buffered)
    BY <1>1, <1>3, Zenon DEF Poured
  <2>3. order \in FlushOrders(quiet)
    BY <1>1
  <2>4. /\ Emptied(buffered, quiet) \in [Buffers -> Seq(Nat)]
        /\ Poured(batch, t, order, buffered) \in [Threads -> Seq(Seq(Nat))]
        /\ Flushes(buffered, batch, t, quiet, order, Emptied(buffered, quiet), Poured(batch, t, order, buffered))
    BY <1>5, <2>3, FlushesAre
  <2> QED BY <1>5, <2>1, <2>2, <2>4, Zenon
<1>7. /\ Once(Q, C)
      /\ \A i : Located(Q, C, i) => Located(buffered, batch, i)
  BY <1>4, <1>5, <1>6, FlushOnce, Zenon
<1>8. /\ \A i : Gathered(buffered, batch, i) => Gathered(Q, C, i)
      /\ Holds(Q)
  BY <1>4, <1>5, <1>6, FlushGathers, Zenon DEF BuffersMatch
<1>9. /\ \A u \in Threads : \A k \in DOMAIN C[u] : Good(C[u][k])
      /\ \A b \in Buffers : ~Webhook => Grows(Q[b])
  BY <1>4, <1>5, <1>6, FlushGood, Zenon DEF BuffersMatch, MessagesGood
<1>10. /\ quiet' \subseteq Buffers /\ IsFiniteSet(quiet') /\ \A b \in quiet' : Q[b] # <<>>
  BY <1>2, FS_EmptySet
<1>11. DOMAIN phase' = Threads /\ \A u \in Threads : phase'[u] = "poll" => C[u] = <<>>
  <2>1. ASSUME NEW u \in Threads, phase'[u] = "poll" PROVE C[u] = <<>>
    <3>1. u # t /\ phase[u] = "poll"
      BY <1>2, <1>5, <2>1
    <3>2. C[u] = batch[u]
      BY <1>6, <3>1, Zenon DEF Flushes
    <3> QED BY <1>4, <3>1, <3>2 DEF NoneIsLost
  <2> QED BY <1>2, <1>5, <2>1
<1>12. \A i : Fetched(i)' <=> Fetched(i)
  BY <1>2 DEF Fetched
<1>13. ~Webhook => /\ stored <= offset'
                   /\ \A i \in asked' : sent[i].kind = "short" => Passed(i)
  BY <1>2, <1>4 DEF NoneIsLost, InboundTypes
<1>14. offset' \in 0 .. Len(sent) + 1 /\ asked' \subseteq DOMAIN sent
  BY <1>2, <1>4 DEF InboundTypes
<1>15. \A i \in DOMAIN sent : Wanted(i) /\ (Fetched(i)' \/ i \in asked') => Gathered(Q, C, i) \/ Kept(i)
  <2>1. \A i \in DOMAIN sent : Wanted(i) /\ (Fetched(i) \/ i \in asked) => Kept(i)
    BY <1>4, Zenon DEF NoneIsLost
  <2> QED BY <1>2, <1>12, <2>1
<1>16. /\ \A i : Fetched(i) /\ i \in Nat => Fetched(i)'
       /\ \A i : Located(Q, C, i) =>
                 Located(buffered, batch, i) \/ (i \in Nat /\ ~Fetched(i) /\ Fetched(i)')
  BY <1>7, <1>12, Zenon
<1>17. /\ buffered' = Q /\ batch' = C
       /\ UNCHANGED <<sent, stored, inbound, spawned, serving, handled, forgotten, crashes>>
  BY <1>2, <1>3
<1> QED
  BY <1>6, <1>7, <1>8, <1>9, <1>10, <1>11, <1>13, <1>14, <1>15, <1>16, <1>17, GatherInv, Zenon

LEMMA OneUpdate ==
  ASSUME NEW i \in Nat
  PROVE  /\ <<i>> \in Seq(Nat) /\ Grows(<<i>>) /\ \A j : Within(j, <<i>>) <=> j = i
         /\ Singles(<<i>>) = IF Direct(<<i>>) = <<>> THEN <<>> ELSE <<<<i>>>>
<1>1. <<i>> \in Seq(Nat) /\ Grows(<<i>>) /\ \A j : Within(j, <<i>>) <=> j = i
  BY DEF Grows, Within
<1>2. /\ Direct(<<i>>) \in Seq(Nat) /\ Grows(Direct(<<i>>))
      /\ \A j : Within(j, Direct(<<i>>)) => j = i
  BY <1>1, DirectIs, Zenon
<1>3. PICK d : d = Direct(<<i>>)
  OBVIOUS
<1>4. d = <<>> \/ d = <<i>>
  <2>1. DOMAIN d = 1 .. Len(d) /\ Len(d) \in Nat /\ \A k \in DOMAIN d : d[k] = i
    BY <1>2, <1>3 DEF Within
  <2>2. ~(Len(d) > 1)
    <3>1. SUFFICES ASSUME Len(d) > 1 PROVE FALSE
      OBVIOUS
    <3>2. 1 \in DOMAIN d /\ 2 \in DOMAIN d /\ d[1] = i /\ d[2] = i
      BY <2>1, <3>1
    <3>3. d[1] < d[2]
      BY <1>2, <1>3, <3>2 DEF Grows
    <3> QED BY <3>2, <3>3
  <2>3. Len(d) = 0 \/ Len(d) = 1
    BY <2>1, <2>2
  <2> QED BY <1>2, <1>3, <2>1, <2>3
<1>5. Singles(<<i>>) = [k \in DOMAIN d |-> <<d[k]>>]
  BY <1>3, Zenon DEF Singles
<1>6. CASE d = <<>>
  <2>1. [k \in DOMAIN d |-> <<d[k]>>] = <<>>
    BY <1>6
  <2> QED BY <1>1, <1>3, <1>5, <1>6, <2>1, Zenon
<1>7. CASE d = <<i>>
  <2>1. [k \in DOMAIN d |-> <<d[k]>>] = <<<<i>>>>
    BY <1>7
  <2>2. d # <<>>
    BY <1>7
  <2> QED BY <1>1, <1>3, <1>5, <2>1, <2>2, Zenon
<1> QED BY <1>1, <1>4, <1>6, <1>7

(* process_update in a step: what is gathered is kept together.            *)
LEMMA TakeInv ==
  ASSUME InboundInv, NEW t \in Threads, batch[t] = <<>>, NEW ids \in Seq(Nat), Grows(ids),
         \A i : Within(i, ids) => i \in DOMAIN sent /\ ~Fetched(i) /\ (~Webhook => i >= offset),
         NEW P, P = AfterUpdates(ids), NEW B, B = [batch EXCEPT ![t] = Singles(ids)]
  PROVE  /\ P \in [Buffers -> Seq(Nat)] /\ B \in [Threads -> Seq(Seq(Nat))]
         /\ Takes(ids, t, P, B) /\ Once(P, B) /\ Holds(P)
         /\ \A b \in Buffers : ~Webhook => Grows(P[b])
         /\ \A u \in Threads : \A k \in DOMAIN B[u] : Good(B[u][k])
         /\ \A i : Located(P, B, i) => Located(buffered, batch, i) \/ Within(i, ids)
         /\ \A i : Gathered(buffered, batch, i) => Gathered(P, B, i)
         /\ \A i : Within(i, ids) /\ Wanted(i) => Gathered(P, B, i)
<1>1. InboundTypes /\ Once(buffered, batch) /\ MessagesGood /\ BuffersMatch /\ TurnsCounted
  BY DEF InboundInv
<1>2. /\ buffered \in [Buffers -> Seq(Nat)] /\ batch \in [Threads -> Seq(Seq(Nat))] /\ sent \in Seq(Updates)
  BY <1>1 DEF InboundTypes
<1>3. /\ P \in [Buffers -> Seq(Nat)] /\ B \in [Threads -> Seq(Seq(Nat))] /\ Takes(ids, t, P, B)
  BY <1>2, TakesAre
<1>4. \A i : Located(buffered, batch, i) => i \in Nat /\ Fetched(i)
  BY <1>1, LocatedNat, Zenon DEF TurnsCounted
<1>5. \A i : Within(i, ids) => ~Located(buffered, batch, i)
  BY <1>4, Zenon
<1>6. /\ Once(P, B)
      /\ \A i : Located(P, B, i) => Located(buffered, batch, i) \/ Within(i, ids)
  BY <1>1, <1>3, <1>5, TakeOnce, Zenon
<1>7. /\ \A i : Gathered(buffered, batch, i) => Gathered(P, B, i)
      /\ \A i : Within(i, ids) /\ Wanted(i) => Gathered(P, B, i)
      /\ Holds(P)
  <2>1. \A i : Within(i, ids) => i \in DOMAIN sent
    OBVIOUS
  <2> QED BY <1>1, <1>2, <1>3, <2>1, TakeGathers, Zenon DEF BuffersMatch
<1>8. ASSUME NEW b \in Buffers, ~Webhook PROVE Grows(P[b])
  <2>1. Buffered(ids, b) \in Seq(Nat) /\ Grows(Buffered(ids, b))
        /\ \A i : Within(i, Buffered(ids, b)) => Within(i, ids)
    BY BufferedIs, Zenon
  <2>2. buffered[b] \in Seq(Nat) /\ Grows(buffered[b])
    BY <1>1, <1>2, <1>8 DEF BuffersMatch
  <2>3. ASSUME NEW j \in DOMAIN buffered[b], NEW k \in DOMAIN Buffered(ids, b)
        PROVE  buffered[b][j] < Buffered(ids, b)[k]
    <3>1. Within(buffered[b][j], buffered[b]) /\ Within(Buffered(ids, b)[k], Buffered(ids, b))
      BY Zenon DEF Within
    <3>2. Located(buffered, batch, buffered[b][j])
      BY <3>1, Zenon DEF Located, At, InHand
    <3>3. buffered[b][j] < offset
      BY <1>4, <1>8, <3>2, Zenon DEF Fetched
    <3>4. Buffered(ids, b)[k] >= offset
      BY <1>8, <2>1, <3>1, Zenon
    <3>5. buffered[b][j] \in Nat /\ Buffered(ids, b)[k] \in Nat
      BY <2>1, <2>2, <3>1, WithinNat, Zenon
    <3>6. offset \in Nat
      BY <1>1 DEF InboundTypes
    <3> QED BY <3>3, <3>4, <3>5, <3>6
  <2>4. Grows(buffered[b] \o Buffered(ids, b))
    BY <2>1, <2>2, <2>3, GrowsConcat
  <2>5. P[b] = buffered[b] \o Buffered(ids, b)
    BY Zenon DEF AfterUpdates
  <2> QED BY <2>4, <2>5, Zenon
<1>9. ASSUME NEW u \in Threads, NEW k \in DOMAIN B[u] PROVE Good(B[u][k])
  <2>1. CASE u = t
    <3>0. k \in DOMAIN B[t]
      BY <2>1
    <3>1. PICK i : Within(i, ids) /\ B[t][k] = <<i>>
      BY <1>3, <3>0, Zenon DEF Takes
    <3>2. i \in DOMAIN sent
      BY <3>1
    <3> QED BY <2>1, <3>1, <3>2, SingleGood, Zenon
  <2>2. CASE u # t
    <3>1. B[u] = batch[u]
      BY <1>3, <2>2, Zenon DEF Takes
    <3> QED BY <1>1, <3>1, Zenon DEF MessagesGood
  <2> QED BY <2>1, <2>2
<1> QED BY <1>3, <1>6, <1>7, <1>8, <1>9, Zenon

LEMMA TakeFills ==
  ASSUME InboundInv, NEW ids, NEW t, NEW P, NEW B, Takes(ids, t, P, B), NEW b \in StillQuiet(ids)
  PROVE  b \in quiet /\ b \in Buffers /\ P[b] # <<>>
<1>1. b \in quiet /\ b \in Buffers /\ buffered[b] # <<>> /\ buffered[b] \in Seq(Nat)
  BY DEF StillQuiet, InboundInv, InboundTypes, BuffersMatch
<1>2. Within(buffered[b][1], buffered[b])
  BY <1>1 DEF Within
<1>3. Within(buffered[b][1], P[b])
  BY <1>1, <1>2, Zenon DEF Takes
<1> QED BY <1>1, <1>3, NothingWithin, Zenon

LEMMA PushInv ==
  ASSUME InboundInv, NEW t \in Threads, NEW i \in DOMAIN sent, Push(t, i) PROVE InboundInv'
<1>1. /\ Webhook /\ phase[t] = "poll" /\ i \notin asked /\ asked' = asked \cup {i}
      /\ offset' = OffsetAfter(<<i>>) /\ buffered' = AfterUpdates(<<i>>) /\ quiet' = StillQuiet(<<i>>)
      /\ batch' = [batch EXCEPT ![t] = IF Direct(<<i>>) = <<>> THEN <<>> ELSE <<<<i>>>>]
      /\ phase' = [phase EXCEPT ![t] = "flush"]
      /\ UNCHANGED <<sent, stored, inbound, spawned, serving, handled, forgotten, crashes>>
  BY DEF Push
<1>2. InboundTypes /\ TurnsCounted /\ NoneIsLost
  BY DEF InboundInv
<1>3. i \in Nat /\ sent \in Seq(Updates) /\ offset \in 0 .. Len(sent) + 1 /\ batch[t] = <<>>
      /\ DOMAIN phase = Threads
  BY <1>1, <1>2 DEF InboundTypes, NoneIsLost
<1>4. PICK ids, P, B : ids = <<i>> /\ P = buffered' /\ B = batch'
  OBVIOUS
<1>5. /\ ids \in Seq(Nat) /\ Grows(ids) /\ \A j : Within(j, ids) <=> j = i
      /\ Singles(ids) = IF Direct(<<i>>) = <<>> THEN <<>> ELSE <<<<i>>>>
  BY <1>3, <1>4, OneUpdate, Zenon
<1>6. P = AfterUpdates(ids) /\ B = [batch EXCEPT ![t] = Singles(ids)]
  BY <1>1, <1>4, <1>5, Zenon
<1>7. \A j : Within(j, ids) => j \in DOMAIN sent /\ ~Fetched(j) /\ (~Webhook => j >= offset)
  BY <1>1, <1>5 DEF Fetched
<1>8. /\ P \in [Buffers -> Seq(Nat)] /\ B \in [Threads -> Seq(Seq(Nat))]
      /\ Takes(ids, t, P, B) /\ Once(P, B) /\ Holds(P)
      /\ \A b \in Buffers : ~Webhook => Grows(P[b])
      /\ \A u \in Threads : \A k \in DOMAIN B[u] : Good(B[u][k])
      /\ \A j : Located(P, B, j) => Located(buffered, batch, j) \/ Within(j, ids)
      /\ \A j : Gathered(buffered, batch, j) => Gathered(P, B, j)
      /\ \A j : Within(j, ids) /\ Wanted(j) => Gathered(P, B, j)
  BY <1>3, <1>5, <1>6, <1>7, TakeInv
<1>9. /\ quiet' \subseteq Buffers /\ IsFiniteSet(quiet') /\ \A b \in quiet' : P[b] # <<>>
  <2>1. ASSUME NEW b \in StillQuiet(ids) PROVE b \in quiet /\ b \in Buffers /\ P[b] # <<>>
    BY <1>8, <2>1, TakeFills, Zenon
  <2>2. IsFiniteSet(quiet)
    BY <1>2 DEF InboundTypes
  <2>3. IsFiniteSet(StillQuiet(ids))
    BY <2>1, <2>2, FS_Subset
  <2> QED BY <1>1, <1>4, <2>1, <2>3, Zenon
<1>10. DOMAIN phase' = Threads /\ \A u \in Threads : phase'[u] = "poll" => B[u] = <<>>
  <2>1. ASSUME NEW u \in Threads, phase'[u] = "poll" PROVE B[u] = <<>>
    <3>1. u # t /\ phase[u] = "poll"
      BY <1>1, <1>3, <2>1
    <3>2. B[u] = batch[u]
      BY <1>8, <3>1, Zenon DEF Takes
    <3> QED BY <1>2, <3>1, <3>2 DEF NoneIsLost
  <2> QED BY <1>1, <1>3, <2>1
<1>11. offset' \in 0 .. Len(sent) + 1 /\ asked' \subseteq DOMAIN sent
  <2>1. OffsetAfter(ids) \in 0 .. Len(sent) + 1
    BY <1>3, <1>5, <1>7, OffsetIs
  <2> QED BY <1>1, <1>2, <1>4, <2>1 DEF InboundTypes
<1>12. \A j : Fetched(j)' <=> Fetched(j) \/ j = i
  BY <1>1 DEF Fetched
<1>13. \A j : Located(P, B, j) => Located(buffered, batch, j) \/ (j \in Nat /\ ~Fetched(j) /\ Fetched(j)')
  BY <1>3, <1>5, <1>7, <1>8, <1>12, Zenon
<1>14. \A j \in DOMAIN sent : Wanted(j) /\ (Fetched(j)' \/ j \in asked') => Gathered(P, B, j) \/ Kept(j)
  <2>1. \A j : j \in asked' <=> Fetched(j)'
    BY <1>1 DEF Fetched
  <2> QED BY <1>2, <1>5, <1>8, <1>12, <2>1, Zenon DEF NoneIsLost
<1>15. \A j : Fetched(j) /\ j \in Nat => Fetched(j)'
  BY <1>12, Zenon
<1>16. buffered' = P /\ batch' = B
  BY <1>4
<1>17. ~Webhook => /\ stored <= offset'
                   /\ \A j \in asked' : sent[j].kind = "short" => Passed(j)
  BY <1>1
<1>18. UNCHANGED <<sent, stored, inbound, spawned, serving, handled, forgotten, crashes>>
  BY <1>1
<1> QED
  BY <1>8, <1>9, <1>10, <1>11, <1>13, <1>14, <1>15, <1>16, <1>17, <1>18, GatherInv, Zenon

LEMMA PollInv == ASSUME InboundInv, NEW t \in Threads, Poll(t) PROVE InboundInv'
<1>1. PICK ids, P, ripe : ids = Available /\ P = AfterUpdates(ids) /\ ripe = StillQuiet(ids)
  OBVIOUS
<1>2. PICK B, Q, C : B = [batch EXCEPT ![t] = Singles(ids)] /\ Q = buffered' /\ C = batch'
  OBVIOUS
<1>3. /\ ~Webhook /\ phase[t] = "poll"
      /\ quiet' = {} /\ asked' = asked \cup {i \in DOMAIN sent : i < offset}
      /\ phase' = [phase EXCEPT ![t] = "publish"]
      /\ UNCHANGED <<sent, stored, inbound, spawned, serving, handled, forgotten, crashes>>
  BY DEF Poll
<1>4. Q = Emptied(P, ripe) /\ offset' = OffsetAfter(ids)
  BY <1>1, <1>2, Zenon DEF Poll
<1>5. PICK order \in FlushOrders(ripe) :
        C = [batch EXCEPT ![t] = Singles(ids) \o [i \in DOMAIN order |-> P[order[i]]]]
  <2>1. \E order \in FlushOrders(ripe) :
          batch' = [batch EXCEPT ![t] = [i \in DOMAIN Direct(ids) |-> <<Direct(ids)[i]>>]
                                        \o [i \in DOMAIN order |-> P[order[i]]]]
    BY <1>1, Zenon DEF Poll
  <2> QED BY <1>2, <2>1, Zenon DEF Singles
<1>6. InboundTypes /\ TurnsCounted /\ NoneIsLost /\ BuffersMatch
  BY DEF InboundInv
<1>7. /\ sent \in Seq(Updates) /\ offset \in 0 .. Len(sent) + 1 /\ Len(sent) \in Nat
      /\ batch[t] = <<>> /\ \A u \in Threads : u = t
      /\ DOMAIN phase = Threads /\ stored \in 0 .. Len(sent) + 1
      /\ DOMAIN sent = 1 .. Len(sent)
  <2>1. \A u \in Threads : u = t
    BY <1>3, MessageAssumption
  <2> QED BY <1>3, <1>6, <2>1 DEF InboundTypes, NoneIsLost
<1>8. /\ ids \in Seq(Nat) /\ Grows(ids)
      /\ \A i : Within(i, ids) <=> i \in DOMAIN sent /\ i >= offset /\ i \notin asked
  BY <1>1, <1>7, AvailableIs, Zenon
<1>9. \A i : Within(i, ids) => i \in DOMAIN sent /\ ~Fetched(i) /\ (~Webhook => i >= offset)
  <2>1. \A i \in DOMAIN sent : i >= offset => ~(i < offset)
    BY <1>7
  <2> QED BY <1>3, <1>8, <2>1, Zenon DEF Fetched
<1>10. /\ P \in [Buffers -> Seq(Nat)] /\ B \in [Threads -> Seq(Seq(Nat))]
       /\ Takes(ids, t, P, B) /\ Once(P, B) /\ Holds(P)
       /\ \A b \in Buffers : ~Webhook => Grows(P[b])
       /\ \A u \in Threads : \A k \in DOMAIN B[u] : Good(B[u][k])
       /\ \A j : Located(P, B, j) => Located(buffered, batch, j) \/ Within(j, ids)
       /\ \A j : Gathered(buffered, batch, j) => Gathered(P, B, j)
       /\ \A j : Within(j, ids) /\ Wanted(j) => Gathered(P, B, j)
  <2>1. P = AfterUpdates(ids) /\ B = [batch EXCEPT ![t] = Singles(ids)] /\ batch[t] = <<>>
    BY <1>1, <1>2, <1>7
  <2>2. ids \in Seq(Nat) /\ Grows(ids)
    BY <1>8
  <2> QED BY <1>9, <2>1, <2>2, TakeInv
<1>11. ripe \subseteq Buffers /\ IsFiniteSet(ripe) /\ \A b \in ripe : P[b] # <<>>
  <2>1. ASSUME NEW b \in ripe PROVE b \in quiet /\ b \in Buffers /\ P[b] # <<>>
    BY <1>1, <1>10, <2>1, TakeFills, Zenon
  <2>2. IsFiniteSet(quiet)
    BY <1>6 DEF InboundTypes
  <2>3. IsFiniteSet(ripe)
    BY <2>1, <2>2, FS_Subset
  <2> QED BY <2>1, <2>3
<1>12. /\ Q \in [Buffers -> Seq(Nat)] /\ C \in [Threads -> Seq(Seq(Nat))]
       /\ Flushes(P, B, t, ripe, order, Q, C)
  <2>1. C = Poured(B, t, order, P)
    <3>1. B[t] = Singles(ids)
      BY <1>2, <1>6 DEF InboundTypes
    <3>2. PICK x : x = Singles(ids) \o [i \in DOMAIN order |-> P[order[i]]]
      OBVIOUS
    <3>3. C = [batch EXCEPT ![t] = x] /\ Poured(B, t, order, P) = [B EXCEPT ![t] = x]
      BY <1>5, <3>1, <3>2, Zenon DEF Poured
    <3>4. [B EXCEPT ![t] = x] = [batch EXCEPT ![t] = x]
      BY <1>2, <1>6 DEF InboundTypes
    <3> QED BY <3>3, <3>4
  <2>2. order \in FlushOrders(ripe)
    BY <1>5
  <2>3. /\ Emptied(P, ripe) \in [Buffers -> Seq(Nat)]
        /\ Poured(B, t, order, P) \in [Threads -> Seq(Seq(Nat))]
        /\ Flushes(P, B, t, ripe, order, Emptied(P, ripe), Poured(B, t, order, P))
    BY <1>10, <1>11, <2>2, FlushesAre
  <2> QED BY <1>4, <2>1, <2>3, Zenon
<1>13. /\ Once(Q, C)
       /\ \A j : Located(Q, C, j) => Located(P, B, j)
  <2>1. ripe \in SUBSET Buffers
    BY <1>11
  <2> QED BY <1>10, <1>12, <2>1, FlushOnce, Zenon
<1>14. /\ \A j : Gathered(P, B, j) => Gathered(Q, C, j)
       /\ Holds(Q)
  <2>1. ripe \in SUBSET Buffers
    BY <1>11
  <2> QED BY <1>10, <1>12, <2>1, FlushGathers, Zenon
<1>15. /\ \A u \in Threads : \A k \in DOMAIN C[u] : Good(C[u][k])
       /\ \A b \in Buffers : ~Webhook => Grows(Q[b])
  <2>1. ripe \in SUBSET Buffers
    BY <1>11
  <2> QED BY <1>10, <1>11, <1>12, <2>1, FlushGood, Zenon
<1>16. quiet' \subseteq Buffers /\ IsFiniteSet(quiet') /\ \A b \in quiet' : Q[b] # <<>>
  BY <1>3, FS_EmptySet
<1>17. DOMAIN phase' = Threads /\ \A u \in Threads : phase'[u] = "poll" => C[u] = <<>>
  BY <1>3, <1>7
<1>18. /\ offset' \in 0 .. Len(sent) + 1 /\ offset' >= offset
       /\ \A i : Within(i, ids) => i < offset'
       /\ \A i \in Nat : offset <= i /\ i < offset' => \E j : Within(j, ids) /\ i <= j
  <2>1. \A i : Within(i, ids) => i \in DOMAIN sent
    BY <1>8
  <2> QED BY <1>4, <1>7, <1>8, <2>1, OffsetIs, Zenon
<1>19. asked' \subseteq DOMAIN sent
  BY <1>3, <1>6 DEF InboundTypes
<1>20. \A i : Fetched(i) /\ i \in Nat => Fetched(i)'
  <2>1. \A i \in Nat : i < offset => i < offset'
    BY <1>7, <1>18
  <2> QED BY <1>3, <2>1, Zenon DEF Fetched
<1>21. \A i : Located(Q, C, i) => Located(buffered, batch, i) \/ (i \in Nat /\ ~Fetched(i) /\ Fetched(i)')
  <2>1. \A i : Within(i, ids) => i \in Nat /\ ~Fetched(i) /\ Fetched(i)'
    BY <1>3, <1>8, <1>9, <1>18, WithinNat, Zenon DEF Fetched
  <2> QED BY <1>10, <1>13, <2>1, Zenon
<1>22. \A i : Gathered(buffered, batch, i) => Gathered(Q, C, i)
  BY <1>10, <1>14, Zenon
<1>23. ASSUME NEW i \in DOMAIN sent, Wanted(i)
       PROVE  Gathered(Q, C, i) \/ Kept(i)
  <2>1. Fetched(i) \/ i >= offset
    BY <1>3, <1>7 DEF Fetched
  <2>2. CASE ~Fetched(i) /\ i \notin asked
    BY <1>8, <1>10, <1>14, <1>23, <2>1, <2>2, Zenon
  <2>3. CASE Fetched(i) \/ i \in asked
    BY <1>6, <1>23, <2>3, Zenon DEF NoneIsLost
  <2> QED BY <2>2, <2>3
<1>24. stored <= offset'
  BY <1>3, <1>6, <1>7, <1>18 DEF NoneIsLost
<1>26. ASSUME NEW i \in asked', sent[i].kind = "short" PROVE Passed(i)
  <2>1. CASE i \in asked
    BY <1>3, <1>6, <1>26, <2>1 DEF NoneIsLost, InboundTypes
  <2>2. CASE i \in DOMAIN sent /\ i < offset
    <3>1. Wanted(i) /\ Fetched(i)
      BY <1>3, <1>26, <2>2 DEF Wanted, Fetched
    <3>2. Kept(i)
      BY <1>6, <2>2, <3>1 DEF NoneIsLost
    <3>3. ~Gathered(buffered, batch, i)
      <4>1. SUFFICES ASSUME NEW c, NEW a, NEW k, InHand(buffered, batch, i, c, a, k) PROVE FALSE
        BY Zenon DEF Gathered
      <4>2. CASE c = "buffered" /\ a \in Buffers /\ Within(i, buffered[a])
        BY <1>6, <1>26, <4>2 DEF BuffersMatch, Holds, Long
      <4>3. CASE c = "batch" /\ a \in Threads /\ k \in DOMAIN batch[a]
        <5>1. a = t
          BY <1>7, <4>3
        <5> QED BY <1>7, <4>3, <5>1
      <4> QED BY <4>1, <4>2, <4>3, Zenon DEF InHand
    <3> QED BY <1>3, <1>26, <3>2, <3>3 DEF Kept
  <2> QED BY <1>3, <1>26, <2>1, <2>2
<1>27. /\ buffered' = Q /\ batch' = C
       /\ UNCHANGED <<sent, stored, inbound, spawned, serving, handled, forgotten, crashes>>
  BY <1>2, <1>3
<1>28. ~Webhook => /\ stored <= offset'
                   /\ \A i \in asked' : sent[i].kind = "short" => Passed(i)
  BY <1>24, <1>26, Zenon
<1>29. \A i \in DOMAIN sent : Wanted(i) /\ (Fetched(i)' \/ i \in asked') => Gathered(Q, C, i) \/ Kept(i)
  BY <1>23, Zenon
<1>30. offset' \in 0 .. Len(sent) + 1
  BY <1>18
<1> QED
  BY <1>12, <1>13, <1>14, <1>15, <1>16, <1>17, <1>19, <1>20, <1>21, <1>22, <1>27, <1>28, <1>29,
     <1>30, GatherInv, Zenon
(* What a step must do that hands messages on.                             *)
LEMMA QueueInv ==
  ASSUME InboundInv, InboundTypes', Once(buffered, batch)', MessagesGood',
         UNCHANGED <<sent, asked, offset, stored, buffered, quiet, phase, handled, crashes>>,
         \A i : Passed(i) => Passed(i)',
         \A i : Located(buffered, batch, i)' => Located(buffered, batch, i),
         \A i : Gathered(buffered, batch, i) => Gathered(buffered, batch, i)' \/ Passed(i)',
         \A u \in Threads : batch[u] = <<>> => batch'[u] = <<>>
  PROVE  InboundInv'
<1>1. BuffersMatch'
  <2>1. /\ \A P : Holds(P)' <=> Holds(P)
    BY SameGood
  <2>2. PICK P : P = buffered
    OBVIOUS
  <2>3. Holds(buffered)'
    BY <2>1, <2>2, Zenon DEF InboundInv, BuffersMatch
  <2>4. ~Webhook => \A c \in Buffers : Grows(buffered[c])'
    BY Zenon DEF InboundInv, BuffersMatch, Grows
  <2> QED BY <2>3, <2>4, Zenon DEF InboundInv, BuffersMatch
<1>2. TurnsCounted'
  <2>1. \A i : (TurnsOf(i)' = TurnsOf(i)) /\ (Fetched(i)' <=> Fetched(i))
    BY DEF TurnsOf, Fetched
  <2> QED BY <2>1, Zenon DEF InboundInv, TurnsCounted
<1>3. NoneIsLost'
  <2>1. \A i : (Fetched(i)' <=> Fetched(i)) /\ (Wanted(i)' <=> Wanted(i))
    BY DEF Fetched, Wanted
  <2>2. \A i : Kept(i) => Kept(i)'
    BY Zenon DEF Kept
  <2>3. \A i : Passed(i) => Passed(i)'
    OBVIOUS
  <2>4. Webhook => stored' = 0
    BY DEF InboundInv, NoneIsLost
  <2>5. \A t \in Threads : phase'[t] = "poll" => batch'[t] = <<>>
    BY DEF InboundInv, NoneIsLost
  <2>6. \A i \in DOMAIN sent : Wanted(i)' /\ (Fetched(i)' \/ i \in asked) => Kept(i)'
    BY <2>1, <2>2, Zenon DEF InboundInv, NoneIsLost
  <2>7. ~Webhook => /\ stored <= offset
                    /\ \A i \in DOMAIN sent :
                         sent[i].kind = "short" /\ (i \in asked \/ i < stored) => Passed(i)'
    BY <2>3, Zenon DEF InboundInv, NoneIsLost
  <2> QED BY <2>4, <2>5, <2>6, <2>7 DEF NoneIsLost
<1> QED BY <1>1, <1>2, <1>3 DEF InboundInv

LEMMA PublishInboundInv == ASSUME InboundInv, NEW t \in Threads, PublishInbound(t) PROVE InboundInv'
<1>1. /\ batch[t] # <<>> /\ inbound' = Append(inbound, Head(batch[t]))
      /\ batch' = [batch EXCEPT ![t] = Tail(batch[t])]
      /\ UNCHANGED <<sent, asked, offset, stored, buffered, quiet, phase, spawned, serving, handled,
                     forgotten, crashes>>
  BY DEF PublishInbound
<1>2. InboundTypes /\ Once(buffered, batch) /\ MessagesGood
  BY DEF InboundInv
<1>3. PICK b, h, n : b = batch[t] /\ h = Head(b) /\ n = Len(inbound)
  OBVIOUS
<1>4. /\ b \in Seq(Seq(Nat)) /\ b # <<>> /\ inbound \in Seq(Seq(Nat)) /\ n \in Nat
      /\ DOMAIN b = 1 .. Len(b) /\ Len(b) \in Nat /\ DOMAIN inbound = 1 .. n
  <2>1. b \in Seq(Seq(Nat)) /\ b # <<>> /\ inbound \in Seq(Seq(Nat))
    BY <1>1, <1>2, <1>3 DEF InboundTypes
  <2> QED BY <1>3, <2>1, SeqIs
<1>5. /\ h \in Seq(Nat) /\ h = b[1] /\ 1 \in DOMAIN b
      /\ Tail(b) \in Seq(Seq(Nat)) /\ Len(Tail(b)) = Len(b) - 1
      /\ DOMAIN Tail(b) = 1 .. Len(b) - 1
      /\ \A k \in 1 .. Len(b) - 1 : Tail(b)[k] = b[k + 1]
  <2>1. /\ Head(b) \in Seq(Nat) /\ Tail(b) \in Seq(Seq(Nat)) /\ Len(Tail(b)) = Len(b) - 1
        /\ \A k \in 1 .. Len(Tail(b)) : Tail(b)[k] = b[k + 1]
    BY <1>4, HeadTailProperties, Zenon
  <2>2. DOMAIN Tail(b) = 1 .. Len(Tail(b))
    BY <2>1, SeqIs
  <2>3. Head(b) = b[1] /\ 1 \in DOMAIN b
    BY <1>4
  <2> QED BY <1>3, <2>1, <2>2, <2>3, Zenon
<1>6. /\ inbound' \in Seq(Seq(Nat)) /\ DOMAIN inbound' = 1 .. n + 1
      /\ \A k \in 1 .. n : inbound'[k] = inbound[k]
      /\ inbound'[n + 1] = h
  <2>1. inbound' = Append(inbound, h)
    BY <1>1, <1>3, Zenon
  <2>2. /\ Append(inbound, h) \in Seq(Seq(Nat)) /\ Len(Append(inbound, h)) = n + 1
        /\ \A k \in 1 .. n : Append(inbound, h)[k] = inbound[k]
        /\ Append(inbound, h)[n + 1] = h
    <3>1. /\ Append(inbound, h) \in Seq(Seq(Nat)) /\ Len(Append(inbound, h)) = Len(inbound) + 1
          /\ \A k \in 1 .. Len(inbound) : Append(inbound, h)[k] = inbound[k]
          /\ Append(inbound, h)[Len(inbound) + 1] = h
      BY <1>4, <1>5, AppendProperties
    <3> QED BY <1>3, <3>1, Zenon
  <2>3. DOMAIN Append(inbound, h) = 1 .. Len(Append(inbound, h))
    BY <2>2, SeqIs
  <2> QED BY <2>1, <2>2, <2>3, Zenon
<1>7. /\ batch' \in [Threads -> Seq(Seq(Nat))] /\ batch'[t] = Tail(b)
      /\ \A u \in Threads : u # t => batch'[u] = batch[u]
  <2>1. batch \in [Threads -> Seq(Seq(Nat))]
    BY <1>2 DEF InboundTypes
  <2> QED BY <1>1, <1>3, <1>5, <2>1
<1>8. InboundTypes'
  BY <1>1, <1>2, <1>6, <1>7 DEF InboundTypes
<1>9. ASSUME NEW i, NEW c, NEW a, NEW k, At(buffered, batch, i, c, a, k)'
      PROVE  \/ c = "batch" /\ a = t /\ k \in Nat /\ k # 0 /\ At(buffered, batch, i, "batch", t, k + 1)
             \/ c = "inbound" /\ a = 0 /\ k = n + 1 /\ At(buffered, batch, i, "batch", t, 1)
             \/ ~(c = "batch" /\ a = t) /\ At(buffered, batch, i, c, a, k)
  <2>1. CASE c = "buffered" /\ a \in Buffers /\ k = 0 /\ Within(i, buffered[a])'
    <3>1. Within(i, buffered[a])
      BY <1>1, <2>1, Zenon DEF Within
    <3> QED BY <2>1, <3>1 DEF At, InHand
  <2>2. CASE c = "batch" /\ a \in Threads /\ k \in DOMAIN batch'[a] /\ Within(i, batch[a][k])'
    <3>1. CASE a = t
      <4>1. k \in 1 .. Len(b) - 1 /\ batch'[t][k] = b[k + 1] /\ k + 1 \in DOMAIN b
        BY <1>4, <1>5, <1>7, <2>2, <3>1
      <4>2. Within(i, batch[t][k + 1])
        BY <1>3, <2>2, <3>1, <4>1, Zenon DEF Within
      <4>3. At(buffered, batch, i, "batch", t, k + 1)
        BY <1>3, <4>1, <4>2, Zenon DEF At, InHand
      <4> QED BY <2>2, <3>1, <4>1, <4>3
    <3>2. CASE a # t
      <4>1. Within(i, batch[a][k]) /\ k \in DOMAIN batch[a]
        BY <1>7, <2>2, <3>2, Zenon DEF Within
      <4> QED BY <2>2, <3>2, <4>1, Zenon DEF At, InHand
    <3> QED BY <3>1, <3>2
  <2>3. CASE c = "inbound" /\ a = 0 /\ k \in DOMAIN inbound' /\ Within(i, inbound[k])'
    <3>1. CASE k = n + 1
      <4>1. Within(i, batch[t][1])
        BY <1>3, <1>5, <1>6, <2>3, <3>1, Zenon DEF Within
      <4>2. At(buffered, batch, i, "batch", t, 1)
        BY <1>3, <1>5, <4>1, Zenon DEF At, InHand
      <4> QED BY <2>3, <3>1, <4>2
    <3>2. CASE k # n + 1
      <4>1. k \in 1 .. n /\ c # "batch"
        BY <1>4, <1>6, <2>3, <3>2
      <4>2. Within(i, inbound[k]) /\ k \in DOMAIN inbound
        BY <1>4, <1>6, <2>3, <4>1, Zenon DEF Within
      <4> QED BY <2>3, <4>1, <4>2, Zenon DEF At, InQueue
    <3> QED BY <3>1, <3>2
  <2>4. CASE c = "spawned" /\ a \in spawned' /\ k = 0 /\ Within(i, a)
    <3>1. c # "batch"
      BY <2>4
    <3> QED BY <1>1, <2>4, <3>1, Zenon DEF At, InQueue
  <2>5. CASE c = "serving" /\ a \in Sessions /\ k = 0 /\ serving'[a] # NONE /\ Within(i, serving[a])'
    <3>1. c # "batch" /\ Within(i, serving[a]) /\ serving[a] # NONE
      BY <1>1, <2>5 DEF Within
    <3> QED BY <2>5, <3>1, Zenon DEF At, InQueue
  <2>6. Within(i, a)' <=> Within(i, a)
    BY DEF Within
  <2> QED BY <1>9, <2>1, <2>2, <2>3, <2>4, <2>5, <2>6, Zenon DEF At, InHand, InQueue
<1>10. Once(buffered, batch)'
  <2> SUFFICES ASSUME NEW i, NEW c, NEW a, NEW k, NEW d, NEW e, NEW l,
                      At(buffered, batch, i, c, a, k)', At(buffered, batch, i, d, e, l)'
               PROVE  c = d /\ a = e /\ k = l
    BY Zenon DEF Once
  <2>1. \A x, y, z, u, v, w :
          At(buffered, batch, i, x, y, z) /\ At(buffered, batch, i, u, v, w) => x = u /\ y = v /\ z = w
    BY <1>2, Zenon DEF Once
  <2>2. \A z \in Nat : z # 0 => z + 1 # 1
    OBVIOUS
  <2>3. \A z, w \in Nat : z + 1 = w + 1 => z = w
    OBVIOUS
  <2>4. \/ c = "batch" /\ a = t /\ k \in Nat /\ k # 0 /\ At(buffered, batch, i, "batch", t, k + 1)
        \/ c = "inbound" /\ a = 0 /\ k = n + 1 /\ At(buffered, batch, i, "batch", t, 1)
        \/ ~(c = "batch" /\ a = t) /\ At(buffered, batch, i, c, a, k)
    BY <1>9, Zenon
  <2>5. \/ d = "batch" /\ e = t /\ l \in Nat /\ l # 0 /\ At(buffered, batch, i, "batch", t, l + 1)
        \/ d = "inbound" /\ e = 0 /\ l = n + 1 /\ At(buffered, batch, i, "batch", t, 1)
        \/ ~(d = "batch" /\ e = t) /\ At(buffered, batch, i, d, e, l)
    BY <1>9, Zenon
  <2>6. CASE c = "batch" /\ a = t /\ k \in Nat /\ k # 0 /\ At(buffered, batch, i, "batch", t, k + 1)
    BY <2>1, <2>2, <2>3, <2>5, <2>6, Zenon
  <2>7. CASE c = "inbound" /\ a = 0 /\ k = n + 1 /\ At(buffered, batch, i, "batch", t, 1)
    BY <2>1, <2>2, <2>5, <2>7, Zenon
  <2>8. CASE ~(c = "batch" /\ a = t) /\ At(buffered, batch, i, c, a, k)
    BY <2>1, <2>2, <2>5, <2>8, Zenon
  <2> QED BY <2>4, <2>6, <2>7, <2>8
<1>11. \A i : Located(buffered, batch, i)' => Located(buffered, batch, i)
  BY <1>9, Zenon DEF Located
<1>12. MessagesGood'
  <2>1. \A m : Good(m)' <=> Good(m)
    BY <1>1, SameGood
  <2>2. ASSUME NEW u \in Threads, NEW k \in DOMAIN batch'[u] PROVE Good(batch'[u][k])
    <3>1. CASE u = t
      <4>1. k \in 1 .. Len(b) - 1 /\ batch'[t][k] = b[k + 1] /\ k + 1 \in DOMAIN b
        BY <1>4, <1>5, <1>7, <2>2, <3>1
      <4> QED BY <1>2, <1>3, <3>1, <4>1, Zenon DEF MessagesGood
    <3>2. CASE u # t
      BY <1>2, <1>7, <3>2, Zenon DEF MessagesGood
    <3> QED BY <3>1, <3>2
  <2>3. ASSUME NEW k \in DOMAIN inbound' PROVE Good(inbound'[k])
    <3>1. CASE k = n + 1
      <4>1. Good(batch[t][1])
        <5>1. 1 \in DOMAIN batch[t]
          BY <1>3, <1>5
        <5> QED BY <1>2, <5>1, Zenon DEF MessagesGood
      <4>2. inbound'[k] = batch[t][1]
        BY <1>3, <1>5, <1>6, <3>1
      <4> QED BY <4>1, <4>2
    <3>2. CASE k # n + 1
      <4>1. k \in 1 .. n
        BY <1>4, <1>6, <3>2
      <4> QED BY <1>2, <1>4, <1>6, <4>1, Zenon DEF MessagesGood
    <3> QED BY <3>1, <3>2
  <2>4. \A s \in Sessions : serving'[s] # NONE => Good(serving'[s])
    BY <1>1, <1>2, Zenon DEF MessagesGood
  <2> QED BY <1>1, <1>2, <2>1, <2>2, <2>3, <2>4, Zenon DEF MessagesGood
<1>13. ASSUME NEW i, Gathered(buffered, batch, i) PROVE Gathered(buffered, batch, i)' \/ Passed(i)'
  <2>1. PICK c, a, k : InHand(buffered, batch, i, c, a, k)
    BY <1>13 DEF Gathered
  <2>2. CASE c = "buffered" /\ a \in Buffers /\ k = 0 /\ Within(i, buffered[a])
    <3>1. Within(i, buffered[a])'
      BY <1>1, <2>2, Zenon DEF Within
    <3>2. InHand(buffered, batch, i, "buffered", a, 0)'
      BY <2>2, <3>1 DEF InHand
    <3> QED BY <3>2, Zenon DEF Gathered
  <2>3. CASE c = "batch" /\ a \in Threads /\ k \in DOMAIN batch[a] /\ Within(i, batch[a][k])
    <3>1. CASE a # t
      <4>1. Within(i, batch[a][k])' /\ k \in DOMAIN batch'[a]
        BY <1>7, <2>3, <3>1, Zenon DEF Within
      <4>2. InHand(buffered, batch, i, "batch", a, k)'
        BY <2>3, <4>1, Zenon DEF InHand
      <4> QED BY <4>2, Zenon DEF Gathered
    <3>2. CASE a = t /\ k = 1
      <4>1. Within(i, h)
        BY <1>3, <1>5, <2>3, <3>2, Zenon
      <4>2. n + 1 \in DOMAIN inbound' /\ Within(i, inbound[n + 1])'
        BY <1>4, <1>6, <4>1 DEF Within
      <4> QED BY <4>2, Zenon DEF Passed
    <3>3. CASE a = t /\ k # 1
      <4>1. k - 1 \in 1 .. Len(b) - 1 /\ (k - 1) + 1 = k
        BY <1>3, <1>4, <2>3, <3>3
      <4>2. batch'[t][k - 1] = b[k] /\ k - 1 \in DOMAIN batch'[t]
        BY <1>5, <1>7, <4>1, Zenon
      <4>3. Within(i, batch[t][k - 1])'
        BY <1>3, <2>3, <3>3, <4>2, Zenon DEF Within
      <4>4. InHand(buffered, batch, i, "batch", t, k - 1)'
        BY <4>2, <4>3, Zenon DEF InHand
      <4> QED BY <4>4, Zenon DEF Gathered
    <3> QED BY <3>1, <3>2, <3>3
  <2> QED BY <2>1, <2>2, <2>3, Zenon DEF InHand
<1>15. ASSUME NEW i, Passed(i) PROVE Passed(i)'
  <2>1. ASSUME NEW k \in DOMAIN inbound, Within(i, inbound[k]) PROVE Passed(i)'
    <3>1. k \in DOMAIN inbound' /\ inbound'[k] = inbound[k]
      BY <1>4, <1>6
    <3>2. Within(i, inbound[k])'
      BY <2>1, <3>1 DEF Within
    <3> QED BY <3>1, <3>2, Zenon DEF Passed
  <2>2. CASE i \in forgotten
    BY <1>1, <2>2 DEF Passed
  <2>3. ASSUME NEW k \in DOMAIN handled, Within(i, handled[k]) PROVE Passed(i)'
    <3>1. k \in DOMAIN handled' /\ Within(i, handled[k])'
      BY <1>1, <2>3 DEF Within
    <3> QED BY <3>1, Zenon DEF Passed
  <2>4. ASSUME NEW m \in spawned, Within(i, m) PROVE Passed(i)'
    <3>1. m \in spawned' /\ Within(i, m)'
      BY <1>1, <2>4 DEF Within
    <3> QED BY <3>1, Zenon DEF Passed
  <2>5. ASSUME NEW s \in Sessions, serving[s] # NONE, Within(i, serving[s]) PROVE Passed(i)'
    <3>1. (serving[s] # NONE)' /\ Within(i, serving[s])'
      BY <1>1, <2>5 DEF Within
    <3> QED BY <3>1, Zenon DEF Passed
  <2> QED BY <1>15, <2>1, <2>2, <2>3, <2>4, <2>5, Zenon DEF Passed
<1>14. \A u \in Threads : batch[u] = <<>> => batch'[u] = <<>>
  BY <1>1, <1>7
<1> QED
  BY <1>1, <1>8, <1>10, <1>11, <1>12, <1>13, <1>14, <1>15, QueueInv

LEMMA DispatchInv == ASSUME InboundInv, Dispatch PROVE InboundInv'
<1>1. /\ inbound # <<>> /\ spawned' = spawned \cup {Head(inbound)} /\ inbound' = Tail(inbound)
      /\ UNCHANGED <<sent, asked, offset, stored, buffered, quiet, phase, batch, serving, handled,
                     forgotten, crashes>>
  BY DEF Dispatch
<1>2. InboundTypes /\ Once(buffered, batch) /\ MessagesGood
  BY DEF InboundInv
<1>3. PICK h : h = Head(inbound)
  OBVIOUS
<1>4. inbound \in Seq(Seq(Nat)) /\ DOMAIN inbound = 1 .. Len(inbound) /\ Len(inbound) \in Nat
  BY <1>2 DEF InboundTypes
<1>5. /\ h \in Seq(Nat) /\ h = inbound[1] /\ 1 \in DOMAIN inbound
      /\ inbound' \in Seq(Seq(Nat)) /\ DOMAIN inbound' = 1 .. Len(inbound) - 1
      /\ \A k \in 1 .. Len(inbound) - 1 : inbound'[k] = inbound[k + 1]
  <2>1. /\ Head(inbound) \in Seq(Nat) /\ Tail(inbound) \in Seq(Seq(Nat))
        /\ Len(Tail(inbound)) = Len(inbound) - 1
        /\ \A k \in 1 .. Len(Tail(inbound)) : Tail(inbound)[k] = inbound[k + 1]
    BY <1>1, <1>4, HeadTailProperties, Zenon
  <2>2. DOMAIN Tail(inbound) = 1 .. Len(Tail(inbound))
    BY <2>1, SeqIs
  <2>3. Head(inbound) = inbound[1] /\ 1 \in DOMAIN inbound
    BY <1>1, <1>4
  <2> QED BY <1>1, <1>3, <2>1, <2>2, <2>3, Zenon
<1>6. InboundTypes'
  <2>1. spawned' \subseteq Seq(Nat)
    BY <1>1, <1>2, <1>3, <1>5 DEF InboundTypes
  <2> QED BY <1>1, <1>2, <1>5, <2>1 DEF InboundTypes
<1>7. ASSUME NEW i, NEW c, NEW a, NEW k, At(buffered, batch, i, c, a, k)'
      PROVE  \/ c = "inbound" /\ a = 0 /\ k \in Nat /\ k # 0 /\ At(buffered, batch, i, "inbound", 0, k + 1)
             \/ c = "spawned" /\ a = h /\ k = 0 /\ At(buffered, batch, i, "inbound", 0, 1)
             \/ c # "inbound" /\ ~(c = "spawned" /\ a = h) /\ At(buffered, batch, i, c, a, k)
  <2>1. CASE c = "buffered" /\ a \in Buffers /\ k = 0 /\ Within(i, buffered[a])'
    <3>1. Within(i, buffered[a]) /\ c # "inbound" /\ c # "spawned"
      BY <1>1, <2>1 DEF Within
    <3> QED BY <2>1, <3>1, Zenon DEF At, InHand
  <2>2. CASE c = "batch" /\ a \in Threads /\ k \in DOMAIN batch'[a] /\ Within(i, batch[a][k])'
    <3>1. Within(i, batch[a][k]) /\ k \in DOMAIN batch[a] /\ c # "inbound" /\ c # "spawned"
      BY <1>1, <2>2 DEF Within
    <3> QED BY <2>2, <3>1, Zenon DEF At, InHand
  <2>3. CASE c = "inbound" /\ a = 0 /\ k \in DOMAIN inbound' /\ Within(i, inbound[k])'
    <3>1. k \in Nat /\ k # 0 /\ inbound'[k] = inbound[k + 1] /\ k + 1 \in DOMAIN inbound
      BY <1>4, <1>5, <2>3
    <3>2. Within(i, inbound[k + 1])
      BY <2>3, <3>1, Zenon DEF Within
    <3>3. At(buffered, batch, i, "inbound", 0, k + 1)
      BY <3>1, <3>2, Zenon DEF At, InQueue
    <3> QED BY <2>3, <3>1, <3>3
  <2>4. CASE c = "spawned" /\ a \in spawned' /\ k = 0 /\ Within(i, a)
    <3>0. c # "inbound"
      BY <2>4
    <3>1. CASE a = h
      <4>1. At(buffered, batch, i, "inbound", 0, 1)
        BY <1>5, <2>4, <3>1, Zenon DEF At, InQueue
      <4> QED BY <2>4, <3>1, <4>1
    <3>2. CASE a # h
      <4>1. a \in spawned
        BY <1>1, <1>3, <2>4, <3>2
      <4> QED BY <2>4, <3>0, <3>2, <4>1, Zenon DEF At, InQueue
    <3> QED BY <3>1, <3>2
  <2>5. CASE c = "serving" /\ a \in Sessions /\ k = 0 /\ serving'[a] # NONE /\ Within(i, serving[a])'
    <3>1. c # "inbound" /\ c # "spawned" /\ Within(i, serving[a]) /\ serving[a] # NONE
      BY <1>1, <2>5 DEF Within
    <3> QED BY <2>5, <3>1, Zenon DEF At, InQueue
  <2>6. Within(i, a)' <=> Within(i, a)
    BY DEF Within
  <2> QED BY <1>7, <2>1, <2>2, <2>3, <2>4, <2>5, <2>6, Zenon DEF At, InHand, InQueue
<1>8. Once(buffered, batch)'
  <2> SUFFICES ASSUME NEW i, NEW c, NEW a, NEW k, NEW d, NEW e, NEW l,
                      At(buffered, batch, i, c, a, k)', At(buffered, batch, i, d, e, l)'
               PROVE  c = d /\ a = e /\ k = l
    BY Zenon DEF Once
  <2>1. \A x, y, z, u, v, w :
          At(buffered, batch, i, x, y, z) /\ At(buffered, batch, i, u, v, w) => x = u /\ y = v /\ z = w
    BY <1>2, Zenon DEF Once
  <2>2. \A z \in Nat : z # 0 => z + 1 # 1
    OBVIOUS
  <2>3. \A z, w \in Nat : z + 1 = w + 1 => z = w
    OBVIOUS
  <2>4. \/ c = "inbound" /\ a = 0 /\ k \in Nat /\ k # 0 /\ At(buffered, batch, i, "inbound", 0, k + 1)
        \/ c = "spawned" /\ a = h /\ k = 0 /\ At(buffered, batch, i, "inbound", 0, 1)
        \/ c # "inbound" /\ ~(c = "spawned" /\ a = h) /\ At(buffered, batch, i, c, a, k)
    BY <1>7, Zenon
  <2>5. \/ d = "inbound" /\ e = 0 /\ l \in Nat /\ l # 0 /\ At(buffered, batch, i, "inbound", 0, l + 1)
        \/ d = "spawned" /\ e = h /\ l = 0 /\ At(buffered, batch, i, "inbound", 0, 1)
        \/ d # "inbound" /\ ~(d = "spawned" /\ e = h) /\ At(buffered, batch, i, d, e, l)
    BY <1>7, Zenon
  <2>6. CASE c = "inbound" /\ a = 0 /\ k \in Nat /\ k # 0 /\ At(buffered, batch, i, "inbound", 0, k + 1)
    BY <2>1, <2>2, <2>3, <2>5, <2>6, Zenon
  <2>7. CASE c = "spawned" /\ a = h /\ k = 0 /\ At(buffered, batch, i, "inbound", 0, 1)
    BY <2>1, <2>2, <2>5, <2>7, Zenon
  <2>8. CASE c # "inbound" /\ ~(c = "spawned" /\ a = h) /\ At(buffered, batch, i, c, a, k)
    BY <2>1, <2>2, <2>5, <2>8, Zenon
  <2> QED BY <2>4, <2>6, <2>7, <2>8
<1>9. \A i : Located(buffered, batch, i)' => Located(buffered, batch, i)
  BY <1>7, Zenon DEF Located
<1>10. MessagesGood'
  <2>1. \A m : Good(m)' <=> Good(m)
    BY <1>1, SameGood
  <2>2. ASSUME NEW k \in DOMAIN inbound' PROVE Good(inbound'[k])
    <3>1. inbound'[k] = inbound[k + 1] /\ k + 1 \in DOMAIN inbound
      BY <1>4, <1>5
    <3> QED BY <1>2, <3>1, Zenon DEF MessagesGood
  <2>3. ASSUME NEW m \in spawned' PROVE Good(m)
    <3>1. Good(h)
      BY <1>2, <1>5, Zenon DEF MessagesGood
    <3>2. m = h \/ m \in spawned
      BY <1>1, <1>3
    <3> QED BY <1>2, <3>1, <3>2, Zenon DEF MessagesGood
  <2>4. \A s \in Sessions : serving'[s] # NONE => Good(serving'[s])
    BY <1>1, <1>2, Zenon DEF MessagesGood
  <2> QED BY <1>1, <1>2, <2>1, <2>2, <2>3, <2>4, Zenon DEF MessagesGood
<1>11. ASSUME NEW i, Gathered(buffered, batch, i) PROVE Gathered(buffered, batch, i)'
  <2>1. PICK c, a, k : InHand(buffered, batch, i, c, a, k)
    BY <1>11 DEF Gathered
  <2>2. InHand(buffered, batch, i, c, a, k)'
    BY <1>1, <2>1 DEF InHand, Within
  <2> QED BY <2>2, Zenon DEF Gathered
<1>13. ASSUME NEW i, Passed(i) PROVE Passed(i)'
  <2>1. ASSUME NEW k \in DOMAIN inbound, Within(i, inbound[k]) PROVE Passed(i)'
    <3>1. CASE k = 1
      <4>1. h \in spawned' /\ Within(i, h)'
        BY <1>1, <1>3, <1>5, <2>1, <3>1 DEF Within
      <4> QED BY <4>1, Zenon DEF Passed
    <3>2. CASE k # 1
      <4>1. k - 1 \in 1 .. Len(inbound) - 1 /\ (k - 1) + 1 = k
        BY <1>4, <2>1, <3>2
      <4>2. k - 1 \in DOMAIN inbound' /\ inbound'[k - 1] = inbound[k]
        BY <1>5, <4>1, Zenon
      <4>3. Within(i, inbound[k - 1])'
        BY <2>1, <4>2, Zenon DEF Within
      <4> QED BY <4>2, <4>3, Zenon DEF Passed
    <3> QED BY <3>1, <3>2
  <2>2. CASE i \in forgotten
    BY <1>1, <2>2 DEF Passed
  <2>3. ASSUME NEW k \in DOMAIN handled, Within(i, handled[k]) PROVE Passed(i)'
    <3>1. k \in DOMAIN handled' /\ Within(i, handled[k])'
      BY <1>1, <2>3 DEF Within
    <3> QED BY <3>1, Zenon DEF Passed
  <2>4. ASSUME NEW m \in spawned, Within(i, m) PROVE Passed(i)'
    <3>1. m \in spawned' /\ Within(i, m)'
      BY <1>1, <2>4 DEF Within
    <3> QED BY <3>1, Zenon DEF Passed
  <2>5. ASSUME NEW s \in Sessions, serving[s] # NONE, Within(i, serving[s]) PROVE Passed(i)'
    <3>1. (serving[s] # NONE)' /\ Within(i, serving[s])'
      BY <1>1, <2>5 DEF Within
    <3> QED BY <3>1, Zenon DEF Passed
  <2> QED BY <1>13, <2>1, <2>2, <2>3, <2>4, <2>5, Zenon DEF Passed
<1>12. \A u \in Threads : batch[u] = <<>> => batch'[u] = <<>>
  BY <1>1
<1> QED
  BY <1>1, <1>6, <1>8, <1>9, <1>10, <1>11, <1>12, <1>13, QueueInv

LEMMA BeginTurnInv == ASSUME InboundInv, NEW m \in spawned, BeginTurn(m) PROVE InboundInv'
<1>1. PICK s : s = SessionOf(ChatOf(m))
  OBVIOUS
<1>2. /\ serving[s] = NONE /\ spawned' = spawned \ {m} /\ serving' = [serving EXCEPT ![s] = m]
      /\ UNCHANGED <<sent, asked, offset, stored, buffered, quiet, phase, batch, inbound, handled,
                     forgotten, crashes>>
  BY <1>1 DEF BeginTurn
<1>3. InboundTypes /\ Once(buffered, batch) /\ MessagesGood
  BY DEF InboundInv
<1>4. m \in Seq(Nat) /\ Good(m) /\ m # NONE
  <2>1. m \in Seq(Nat)
    BY <1>3 DEF InboundTypes
  <2> QED BY <1>3, <2>1, MessageAssumption DEF MessagesGood
<1>5. s \in Sessions
  <2>1. m[1] \in DOMAIN sent
    <3>1. Within(m[1], m)
      BY <1>4 DEF Good, Within
    <3> QED BY <1>4, <3>1, Zenon DEF Good
  <2>2. sent[m[1]] \in Updates
    BY <1>3, <2>1 DEF InboundTypes
  <2>3. ChatOf(m) \in Chats
    BY <2>2 DEF ChatOf, Updates
  <2> QED BY <1>1, <2>3, Zenon DEF Sessions
<1>6. /\ serving' \in [Sessions -> Seq(Nat) \cup {NONE}] /\ serving'[s] = m
      /\ \A r \in Sessions : r # s => serving'[r] = serving[r]
  <2>1. serving \in [Sessions -> Seq(Nat) \cup {NONE}]
    BY <1>3 DEF InboundTypes
  <2> QED BY <1>2, <1>4, <1>5, <2>1
<1>7. InboundTypes'
  BY <1>2, <1>3, <1>6 DEF InboundTypes
<1>8. ASSUME NEW i, NEW c, NEW a, NEW k, At(buffered, batch, i, c, a, k)'
      PROVE  \/ c = "serving" /\ a = s /\ k = 0 /\ At(buffered, batch, i, "spawned", m, 0)
             \/ ~(c = "serving" /\ a = s) /\ ~(c = "spawned" /\ a = m) /\ At(buffered, batch, i, c, a, k)
  <2>1. CASE c = "buffered" /\ a \in Buffers /\ k = 0 /\ Within(i, buffered[a])'
    <3>1. Within(i, buffered[a]) /\ c # "serving" /\ c # "spawned"
      BY <1>2, <2>1 DEF Within
    <3> QED BY <2>1, <3>1, Zenon DEF At, InHand
  <2>2. CASE c = "batch" /\ a \in Threads /\ k \in DOMAIN batch'[a] /\ Within(i, batch[a][k])'
    <3>1. Within(i, batch[a][k]) /\ k \in DOMAIN batch[a] /\ c # "serving" /\ c # "spawned"
      BY <1>2, <2>2 DEF Within
    <3> QED BY <2>2, <3>1, Zenon DEF At, InHand
  <2>3. CASE c = "inbound" /\ a = 0 /\ k \in DOMAIN inbound' /\ Within(i, inbound[k])'
    <3>1. Within(i, inbound[k]) /\ k \in DOMAIN inbound /\ c # "serving" /\ c # "spawned"
      BY <1>2, <2>3 DEF Within
    <3> QED BY <2>3, <3>1, Zenon DEF At, InQueue
  <2>4. CASE c = "spawned" /\ a \in spawned' /\ k = 0 /\ Within(i, a)
    <3>1. a \in spawned /\ a # m /\ c # "serving"
      BY <1>2, <2>4
    <3> QED BY <2>4, <3>1, Zenon DEF At, InQueue
  <2>5. CASE c = "serving" /\ a \in Sessions /\ k = 0 /\ serving'[a] # NONE /\ Within(i, serving[a])'
    <3>0. c # "spawned"
      BY <2>5
    <3>1. CASE a = s
      <4>1. Within(i, m)
        BY <1>6, <2>5, <3>1, Zenon DEF Within
      <4> QED BY <2>5, <3>1, <4>1, Zenon DEF At, InQueue
    <3>2. CASE a # s
      <4>1. Within(i, serving[a]) /\ serving[a] # NONE
        BY <1>6, <2>5, <3>2, Zenon DEF Within
      <4> QED BY <2>5, <3>0, <3>2, <4>1, Zenon DEF At, InQueue
    <3> QED BY <3>1, <3>2
  <2>6. Within(i, a)' <=> Within(i, a)
    BY DEF Within
  <2> QED BY <1>8, <2>1, <2>2, <2>3, <2>4, <2>5, <2>6, Zenon DEF At, InHand, InQueue
<1>9. Once(buffered, batch)'
  <2> SUFFICES ASSUME NEW i, NEW c, NEW a, NEW k, NEW d, NEW e, NEW l,
                      At(buffered, batch, i, c, a, k)', At(buffered, batch, i, d, e, l)'
               PROVE  c = d /\ a = e /\ k = l
    BY Zenon DEF Once
  <2>1. \A x, y, z, u, v, w :
          At(buffered, batch, i, x, y, z) /\ At(buffered, batch, i, u, v, w) => x = u /\ y = v /\ z = w
    BY <1>3, Zenon DEF Once
  <2>2. \/ c = "serving" /\ a = s /\ k = 0 /\ At(buffered, batch, i, "spawned", m, 0)
        \/ ~(c = "serving" /\ a = s) /\ ~(c = "spawned" /\ a = m) /\ At(buffered, batch, i, c, a, k)
    BY <1>8, Zenon
  <2>3. \/ d = "serving" /\ e = s /\ l = 0 /\ At(buffered, batch, i, "spawned", m, 0)
        \/ ~(d = "serving" /\ e = s) /\ ~(d = "spawned" /\ e = m) /\ At(buffered, batch, i, d, e, l)
    BY <1>8, Zenon
  <2> QED BY <2>1, <2>2, <2>3, Zenon
<1>10. \A i : Located(buffered, batch, i)' => Located(buffered, batch, i)
  BY <1>8, Zenon DEF Located
<1>11. MessagesGood'
  <2>1. \A x : Good(x)' <=> Good(x)
    BY <1>2, SameGood
  <2>2. ASSUME NEW r \in Sessions, serving'[r] # NONE PROVE Good(serving'[r])
    BY <1>3, <1>4, <1>6, <2>2, Zenon DEF MessagesGood
  <2>3. \A x \in spawned' : x \in spawned
    BY <1>2
  <2> QED BY <1>2, <1>3, <2>1, <2>2, <2>3, Zenon DEF MessagesGood
<1>12. ASSUME NEW i, Gathered(buffered, batch, i) PROVE Gathered(buffered, batch, i)'
  <2>1. PICK c, a, k : InHand(buffered, batch, i, c, a, k)
    BY <1>12 DEF Gathered
  <2>2. InHand(buffered, batch, i, c, a, k)'
    BY <1>2, <2>1 DEF InHand, Within
  <2> QED BY <2>2, Zenon DEF Gathered
<1>14. ASSUME NEW i, Passed(i) PROVE Passed(i)'
  <2>1. ASSUME NEW k \in DOMAIN inbound, Within(i, inbound[k]) PROVE Passed(i)'
    <3>1. k \in DOMAIN inbound' /\ Within(i, inbound[k])'
      BY <1>2, <2>1 DEF Within
    <3> QED BY <3>1, Zenon DEF Passed
  <2>2. CASE i \in forgotten
    BY <1>2, <2>2 DEF Passed
  <2>3. ASSUME NEW k \in DOMAIN handled, Within(i, handled[k]) PROVE Passed(i)'
    <3>1. k \in DOMAIN handled' /\ Within(i, handled[k])'
      BY <1>2, <2>3 DEF Within
    <3> QED BY <3>1, Zenon DEF Passed
  <2>4. ASSUME NEW x \in spawned, Within(i, x) PROVE Passed(i)'
    <3>1. CASE x = m
      <4>1. (serving[s] # NONE)' /\ Within(i, serving[s])'
        BY <1>4, <1>6, <2>4, <3>1 DEF Within
      <4> QED BY <1>5, <4>1, Zenon DEF Passed
    <3>2. CASE x # m
      <4>1. x \in spawned' /\ Within(i, x)'
        BY <1>2, <2>4, <3>2 DEF Within
      <4> QED BY <4>1, Zenon DEF Passed
    <3> QED BY <3>1, <3>2
  <2>5. ASSUME NEW r \in Sessions, serving[r] # NONE, Within(i, serving[r]) PROVE Passed(i)'
    <3>1. r # s
      BY <1>2, <2>5
    <3>2. (serving[r] # NONE)' /\ Within(i, serving[r])'
      BY <1>6, <2>5, <3>1 DEF Within
    <3> QED BY <3>2, Zenon DEF Passed
  <2> QED BY <1>14, <2>1, <2>2, <2>3, <2>4, <2>5, Zenon DEF Passed
<1>13. \A u \in Threads : batch[u] = <<>> => batch'[u] = <<>>
  BY <1>2
<1> QED
  BY <1>2, <1>7, <1>9, <1>10, <1>11, <1>12, <1>13, <1>14, QueueInv

LEMMA EndTurnInv == ASSUME InboundInv, NEW s \in Sessions, EndTurn(s) PROVE InboundInv'
<1>1. PICK m, n : m = serving[s] /\ n = Len(handled)
  OBVIOUS
<1>2. /\ m # NONE /\ handled' = Append(handled, m) /\ serving' = [serving EXCEPT ![s] = NONE]
      /\ UNCHANGED <<sent, asked, offset, stored, buffered, quiet, phase, batch, inbound, spawned,
                     forgotten, crashes>>
  BY <1>1 DEF EndTurn
<1>3. /\ InboundTypes /\ Once(buffered, batch) /\ MessagesGood /\ BuffersMatch /\ TurnsCounted /\ NoneIsLost
  BY DEF InboundInv
<1>4. m \in Seq(Nat) /\ Good(m) /\ handled \in Seq(Seq(Nat)) /\ n \in Nat /\ DOMAIN handled = 1 .. n
  <2>1. m \in Seq(Nat) /\ handled \in Seq(Seq(Nat))
    BY <1>1, <1>2, <1>3 DEF InboundTypes
  <2> QED BY <1>1, <1>2, <1>3, <2>1 DEF MessagesGood
<1>5. /\ serving' \in [Sessions -> Seq(Nat) \cup {NONE}] /\ serving'[s] = NONE
      /\ \A r \in Sessions : r # s => serving'[r] = serving[r]
  BY <1>2, <1>3 DEF InboundTypes
<1>6. /\ handled' \in Seq(Seq(Nat)) /\ DOMAIN handled' = 1 .. n + 1
      /\ \A k \in 1 .. n : handled'[k] = handled[k]
      /\ handled'[n + 1] = m
  <2>2. /\ Append(handled, m) \in Seq(Seq(Nat)) /\ Len(Append(handled, m)) = n + 1
        /\ \A k \in 1 .. n : Append(handled, m)[k] = handled[k]
        /\ Append(handled, m)[n + 1] = m
    <3>1. /\ Append(handled, m) \in Seq(Seq(Nat)) /\ Len(Append(handled, m)) = Len(handled) + 1
          /\ \A k \in 1 .. Len(handled) : Append(handled, m)[k] = handled[k]
          /\ Append(handled, m)[Len(handled) + 1] = m
      BY <1>4, AppendProperties
    <3> QED BY <1>1, <3>1, Zenon
  <2>3. DOMAIN Append(handled, m) = 1 .. Len(Append(handled, m))
    BY <2>2, SeqIs
  <2> QED BY <1>2, <2>2, <2>3, Zenon
<1>7. InboundTypes'
  BY <1>2, <1>3, <1>5, <1>6 DEF InboundTypes
<1>8. ASSUME NEW i, NEW c, NEW a, NEW k, At(buffered, batch, i, c, a, k)'
      PROVE  ~(c = "serving" /\ a = s) /\ At(buffered, batch, i, c, a, k)
  <2>1. CASE c = "buffered" /\ a \in Buffers /\ k = 0 /\ Within(i, buffered[a])'
    <3>1. Within(i, buffered[a]) /\ c # "serving"
      BY <1>2, <2>1 DEF Within
    <3> QED BY <2>1, <3>1, Zenon DEF At, InHand
  <2>2. CASE c = "batch" /\ a \in Threads /\ k \in DOMAIN batch'[a] /\ Within(i, batch[a][k])'
    <3>1. Within(i, batch[a][k]) /\ k \in DOMAIN batch[a] /\ c # "serving"
      BY <1>2, <2>2 DEF Within
    <3> QED BY <2>2, <3>1, Zenon DEF At, InHand
  <2>3. CASE c = "inbound" /\ a = 0 /\ k \in DOMAIN inbound' /\ Within(i, inbound[k])'
    <3>1. Within(i, inbound[k]) /\ k \in DOMAIN inbound /\ c # "serving"
      BY <1>2, <2>3 DEF Within
    <3> QED BY <2>3, <3>1, Zenon DEF At, InQueue
  <2>4. CASE c = "spawned" /\ a \in spawned' /\ k = 0 /\ Within(i, a)
    <3>1. a \in spawned /\ c # "serving"
      BY <1>2, <2>4
    <3> QED BY <2>4, <3>1, Zenon DEF At, InQueue
  <2>5. CASE c = "serving" /\ a \in Sessions /\ k = 0 /\ serving'[a] # NONE /\ Within(i, serving[a])'
    <3>1. a # s
      BY <1>5, <2>5
    <3>2. Within(i, serving[a]) /\ serving[a] # NONE
      BY <1>5, <2>5, <3>1, Zenon DEF Within
    <3> QED BY <2>5, <3>1, <3>2, Zenon DEF At, InQueue
  <2>6. Within(i, a)' <=> Within(i, a)
    BY DEF Within
  <2> QED BY <1>8, <2>1, <2>2, <2>3, <2>4, <2>5, <2>6, Zenon DEF At, InHand, InQueue
<1>9. Once(buffered, batch)'
  <2> SUFFICES ASSUME NEW i, NEW c, NEW a, NEW k, NEW d, NEW e, NEW l,
                      At(buffered, batch, i, c, a, k)', At(buffered, batch, i, d, e, l)'
               PROVE  c = d /\ a = e /\ k = l
    BY Zenon DEF Once
  <2>1. At(buffered, batch, i, c, a, k) /\ At(buffered, batch, i, d, e, l)
    BY <1>8, Zenon
  <2> QED BY <1>3, <2>1, Zenon DEF Once
<1>10. ASSUME NEW i, Located(buffered, batch, i)' PROVE Located(buffered, batch, i) /\ ~Within(i, m)
  <2>1. PICK c, a, k : At(buffered, batch, i, c, a, k)'
    BY <1>10, Zenon DEF Located
  <2>2. ~(c = "serving" /\ a = s) /\ At(buffered, batch, i, c, a, k)
    BY <1>8, <2>1, Zenon
  <2>3. Within(i, m) => At(buffered, batch, i, "serving", s, 0)
    BY <1>1, <1>2, Zenon DEF At, InQueue
  <2> QED BY <1>3, <2>2, <2>3, Zenon DEF Located, Once
<1>11. MessagesGood'
  <2>1. \A x : Good(x)' <=> Good(x)
    BY <1>2, SameGood
  <2>2. ASSUME NEW r \in Sessions, serving'[r] # NONE PROVE Good(serving'[r])
    BY <1>3, <1>5, <2>2, Zenon DEF MessagesGood
  <2>3. ASSUME NEW k \in DOMAIN handled' PROVE Good(handled'[k])
    <3>1. CASE k = n + 1
      BY <1>4, <1>6, <3>1, Zenon
    <3>2. CASE k # n + 1
      <4>1. k \in 1 .. n
        BY <1>4, <1>6, <3>2
      <4> QED BY <1>3, <1>4, <1>6, <4>1, Zenon DEF MessagesGood
    <3> QED BY <3>1, <3>2
  <2> QED BY <1>2, <1>3, <2>1, <2>2, <2>3, Zenon DEF MessagesGood
<1>12. BuffersMatch'
  <2>1. \A P : Holds(P)' <=> Holds(P)
    BY <1>2, SameGood
  <2>2. PICK P : P = buffered
    OBVIOUS
  <2>3. Holds(buffered)'
    BY <1>2, <1>3, <2>1, <2>2, Zenon DEF BuffersMatch
  <2>4. ~Webhook => \A c \in Buffers : Grows(buffered[c])'
    BY <1>2, <1>3, Zenon DEF BuffersMatch, Grows
  <2> QED BY <1>2, <1>3, <2>3, <2>4, Zenon DEF BuffersMatch
<1>13. TurnsCounted'
  <2>1. ASSUME NEW i \in Nat
        PROVE  /\ IsFiniteSet(TurnsOf(i)')
               /\ Cardinality(TurnsOf(i)') <= crashes + (IF Fetched(i) THEN 1 ELSE 0)
               /\ Located(buffered, batch, i)' => Fetched(i) /\ Cardinality(TurnsOf(i)') <= crashes
    <3>1. /\ IsFiniteSet(TurnsOf(i))
          /\ Cardinality(TurnsOf(i)) <= crashes + (IF Fetched(i) THEN 1 ELSE 0)
          /\ Located(buffered, batch, i) => Fetched(i) /\ Cardinality(TurnsOf(i)) <= crashes
      BY <1>3 DEF TurnsCounted
    <3>2. Cardinality(TurnsOf(i)) \in Nat /\ crashes \in Nat
      BY <1>3, <3>1, FS_CardinalityType DEF InboundTypes
    <3>3. i \in ToSet(m) <=> Within(i, m)
      BY DEF ToSet, Within
    <3>4. \A k \in 1 .. n + 1 : k \in 1 .. n \/ k = n + 1
      BY <1>4
    <3>5. n + 1 \notin 1 .. n /\ n + 1 \in 1 .. n + 1 /\ \A k \in 1 .. n : k \in 1 .. n + 1
      BY <1>4
    <3>6. CASE Within(i, m)
      <4>1. TurnsOf(i)' = TurnsOf(i) \cup {n + 1}
        <5>1. TurnsOf(i) = {k \in 1 .. n : i \in ToSet(handled[k])}
          BY <1>4, Zenon DEF TurnsOf
        <5>2. TurnsOf(i)' = {k \in 1 .. n + 1 : i \in ToSet(handled'[k])}
          BY <1>6 DEF TurnsOf
        <5> QED BY <1>6, <3>3, <3>4, <3>5, <3>6, <5>1, <5>2
      <4>2. /\ IsFiniteSet(TurnsOf(i) \cup {n + 1})
            /\ Cardinality(TurnsOf(i) \cup {n + 1}) <= Cardinality(TurnsOf(i)) + 1
        <5>1. PICK T : T = TurnsOf(i)
          OBVIOUS
        <5>2. IsFiniteSet(T) /\ Cardinality(T) \in Nat
          BY <3>1, <3>2, <5>1, Zenon
        <5>3. /\ IsFiniteSet(T \cup {n + 1})
              /\ Cardinality(T \cup {n + 1}) = IF n + 1 \in T THEN Cardinality(T) ELSE Cardinality(T) + 1
          BY <5>2, FS_AddElement, Zenon
        <5>4. Cardinality(T \cup {n + 1}) <= Cardinality(T) + 1
          BY <5>2, <5>3
        <5> QED BY <5>1, <5>3, <5>4, Zenon
      <4>3. Located(buffered, batch, i)
        <5>1. At(buffered, batch, i, "serving", s, 0)
          BY <1>1, <1>2, <3>6, Zenon DEF At, InQueue
        <5> QED BY <5>1, Zenon DEF Located
      <4>4. ~(Located(buffered, batch, i)')
        BY <1>10, <3>6, Zenon
      <4>5. Cardinality(TurnsOf(i) \cup {n + 1}) \in Nat
        BY <4>2, FS_CardinalityType
      <4> QED BY <3>1, <3>2, <4>1, <4>2, <4>3, <4>4, <4>5
    <3>7. CASE ~Within(i, m)
      <4>1. TurnsOf(i)' = TurnsOf(i)
        <5>1. TurnsOf(i) = {k \in 1 .. n : i \in ToSet(handled[k])}
          BY <1>4, Zenon DEF TurnsOf
        <5>2. TurnsOf(i)' = {k \in 1 .. n + 1 : i \in ToSet(handled'[k])}
          BY <1>6 DEF TurnsOf
        <5> QED BY <1>6, <3>3, <3>4, <3>5, <3>7, <5>1, <5>2
      <4> QED BY <1>10, <3>1, <4>1, Zenon
    <3> QED BY <3>6, <3>7
  <2>2. \A i : Fetched(i)' <=> Fetched(i)
    BY <1>2 DEF Fetched
  <2> QED BY <1>2, <2>1, <2>2 DEF TurnsCounted
<1>14. NoneIsLost'
  <2>1. ASSUME NEW i, Gathered(buffered, batch, i) PROVE Gathered(buffered, batch, i)'
    <3>1. PICK c, a, k : InHand(buffered, batch, i, c, a, k)
      BY <2>1 DEF Gathered
    <3>2. InHand(buffered, batch, i, c, a, k)'
      BY <1>2, <3>1 DEF InHand, Within
    <3> QED BY <3>2, Zenon DEF Gathered
  <2>2. \A i : (Fetched(i)' <=> Fetched(i)) /\ (Wanted(i)' <=> Wanted(i))
    BY <1>2 DEF Fetched, Wanted
  <2>5. ASSUME NEW i, Passed(i) PROVE Passed(i)'
    <3>1. ASSUME NEW k \in DOMAIN inbound, Within(i, inbound[k]) PROVE Passed(i)'
      <4>1. k \in DOMAIN inbound' /\ Within(i, inbound[k])'
        BY <1>2, <3>1 DEF Within
      <4> QED BY <4>1, Zenon DEF Passed
    <3>2. CASE i \in forgotten
      BY <1>2, <3>2 DEF Passed
    <3>3. ASSUME NEW k \in DOMAIN handled, Within(i, handled[k]) PROVE Passed(i)'
      <4>1. k \in DOMAIN handled' /\ handled'[k] = handled[k]
        BY <1>4, <1>6
      <4>2. Within(i, handled[k])'
        BY <3>3, <4>1, Zenon DEF Within
      <4> QED BY <4>1, <4>2, Zenon DEF Passed
    <3>4. ASSUME NEW x \in spawned, Within(i, x) PROVE Passed(i)'
      <4>1. x \in spawned' /\ Within(i, x)'
        BY <1>2, <3>4 DEF Within
      <4> QED BY <4>1, Zenon DEF Passed
    <3>5. ASSUME NEW r \in Sessions, serving[r] # NONE, Within(i, serving[r]) PROVE Passed(i)'
      <4>1. CASE r = s
        <5>1. n + 1 \in DOMAIN handled' /\ handled'[n + 1] = m
          BY <1>4, <1>6
        <5>2. Within(i, handled[n + 1])'
          BY <1>1, <3>5, <4>1, <5>1, Zenon DEF Within
        <5> QED BY <5>1, <5>2, Zenon DEF Passed
      <4>2. CASE r # s
        <5>1. (serving[r] # NONE)' /\ Within(i, serving[r])'
          BY <1>5, <3>5, <4>2 DEF Within
        <5> QED BY <5>1, Zenon DEF Passed
      <4> QED BY <4>1, <4>2
    <3> QED BY <2>5, <3>1, <3>2, <3>3, <3>4, <3>5, Zenon DEF Passed
  <2>3. \A i : Kept(i) => Kept(i)'
    BY <2>1, <2>5, Zenon DEF Kept
  <2>4. \A i \in DOMAIN sent : Wanted(i)' /\ (Fetched(i)' \/ i \in asked) => Kept(i)'
    BY <1>3, <2>2, <2>3, Zenon DEF NoneIsLost
  <2>6. ~Webhook => \A i \in DOMAIN sent :
                      sent[i].kind = "short" /\ (i \in asked \/ i < stored) => Passed(i)'
    BY <1>3, <2>5, Zenon DEF NoneIsLost
  <2> QED BY <1>2, <1>3, <2>4, <2>6 DEF NoneIsLost
<1> QED BY <1>7, <1>9, <1>11, <1>12, <1>13, <1>14 DEF InboundInv

LEMMA ToSetIs == ASSUME NEW i, NEW m PROVE i \in ToSet(m) <=> Within(i, m)
BY DEF ToSet, Within

LEMMA RestartInv == ASSUME InboundInv, Restart PROVE InboundInv'
<1>1. /\ crashes' = crashes + 1 /\ offset' = IF Webhook THEN 0 ELSE stored
      /\ buffered' = [b \in Buffers |-> <<>>] /\ quiet' = {}
      /\ phase' = [t \in Threads |-> "poll"] /\ batch' = [t \in Threads |-> <<>>]
      /\ inbound' = <<>> /\ spawned' = {} /\ serving' = [s \in Sessions |-> NONE]
      /\ sent' = sent /\ asked' = asked /\ stored' = stored /\ handled' = handled
      /\ forgotten' = forgotten \cup LostAtRestart
  BY Zenon DEF Restart
<1>2. InboundTypes /\ MessagesGood /\ TurnsCounted /\ NoneIsLost
  BY Zenon DEF InboundInv
<1>3. <<>> \in Seq(Nat) /\ <<>> \in Seq(Seq(Nat)) /\ DOMAIN <<>> = {}
  OBVIOUS
<1>4. crashes \in Nat /\ crashes' \in Nat /\ crashes' > 0 /\ Len(sent) \in Nat
  BY <1>1, <1>2 DEF InboundTypes
<1>5. InboundTypes'
  <2>1. IsFiniteSet(quiet') /\ quiet' \subseteq Buffers
    BY <1>1, FS_EmptySet
  <2>2. /\ buffered' \in [Buffers -> Seq(Nat)] /\ batch' \in [Threads -> Seq(Seq(Nat))] /\ DOMAIN phase' = Threads
        /\ serving' \in [Sessions -> Seq(Nat) \cup {NONE}] /\ inbound' \in Seq(Seq(Nat)) /\ spawned' \subseteq Seq(Nat)
    BY <1>1, <1>3
  <2>3. offset' \in 0 .. Len(sent) + 1
    <3>1. stored \in 0 .. Len(sent) + 1
      BY <1>2, Zenon DEF InboundTypes
    <3> QED BY <1>1, <1>4, <3>1
  <2>4. /\ sent \in Seq(Updates) /\ asked \subseteq DOMAIN sent /\ stored \in 0 .. Len(sent) + 1
        /\ handled \in Seq(Seq(Nat))
    BY <1>2, Zenon DEF InboundTypes
  <2> QED BY <1>1, <1>4, <2>1, <2>2, <2>3, <2>4, Zenon DEF InboundTypes
<1>6. ASSUME NEW i PROVE ~(Located(buffered, batch, i)')
  <2>1. /\ \A b \in Buffers : buffered'[b] = <<>>
        /\ \A u \in Threads : DOMAIN batch'[u] = {}
        /\ DOMAIN inbound' = {} /\ spawned' = {} /\ \A s \in Sessions : serving'[s] = NONE
    BY <1>1, <1>3
  <2>2. \A b \in Buffers : ~(Within(i, buffered[b])')
    BY <2>1, NothingWithin, Zenon DEF Within
  <2> QED BY <2>1, <2>2, Zenon DEF Located, At, InHand, InQueue
<1>7. Once(buffered, batch)'
  BY <1>6, Zenon DEF Once, Located
<1>8. MessagesGood'
  <2>1. \A x : Good(x)' <=> Good(x)
    BY <1>1, SameGood, Zenon
  <2>2. /\ \A u \in Threads : DOMAIN batch'[u] = {}
        /\ DOMAIN inbound' = {} /\ spawned' = {} /\ \A s \in Sessions : serving'[s] = NONE
    BY <1>1, <1>3
  <2> QED BY <1>1, <1>2, <2>1, <2>2, Zenon DEF MessagesGood
<1>9. BuffersMatch'
  <2>1. \A b \in Buffers : buffered'[b] = <<>>
    BY <1>1
  <2>2. \A b \in Buffers : Grows(buffered'[b])
    BY <2>1, <1>3, Zenon DEF Grows
  <2>3. \A b \in Buffers : \A i : ~Within(i, buffered'[b])
    BY <2>1, NothingWithin, Zenon
  <2>4. \A b \in Buffers : \A i : ~(Within(i, buffered[b])')
    BY <2>3, Zenon DEF Within
  <2>5. \A b \in Buffers : Grows(buffered[b])'
    BY <2>2, Zenon DEF Grows
  <2> QED BY <1>1, <2>4, <2>5, Zenon DEF BuffersMatch, Holds
<1>10. TurnsCounted'
  <2>1. ASSUME NEW i \in Nat
        PROVE  IsFiniteSet(TurnsOf(i)') /\ Cardinality(TurnsOf(i)') <= crashes' + (IF Fetched(i)' THEN 1 ELSE 0)
    <3>1. PICK T : T = TurnsOf(i)
      OBVIOUS
    <3>2. TurnsOf(i)' = T
      BY <1>1, <3>1, Zenon DEF TurnsOf, ToSet
    <3>3. IsFiniteSet(T) /\ Cardinality(T) <= crashes + (IF Fetched(i) THEN 1 ELSE 0)
      BY <1>2, <3>1, Zenon DEF TurnsCounted
    <3>4. Cardinality(T) \in Nat
      BY <3>3, FS_CardinalityType
    <3>5. Cardinality(T) <= crashes' + (IF Fetched(i)' THEN 1 ELSE 0)
      BY <1>1, <1>4, <3>3, <3>4
    <3> QED BY <3>2, <3>3, <3>5, Zenon
  <2> QED BY <1>6, <2>1, Zenon DEF TurnsCounted
<1>11. NoneIsLost'
  <2>1. \A t \in Threads : batch'[t] = <<>>
    BY <1>1
  <2>5. ASSUME NEW i, Passed(i) PROVE Passed(i)'
    <3>1. CASE \E k \in DOMAIN handled : Within(i, handled[k])
      <4>1. \E k \in DOMAIN handled' : Within(i, handled[k])'
        BY <1>1, <3>1 DEF Within
      <4> QED BY <4>1, Zenon DEF Passed
    <3>2. CASE i \in forgotten
      BY <1>1, <3>2 DEF Passed
    <3>3. ASSUME NEW m \in InQueues, Within(i, m) PROVE Passed(i)'
      <4>1. i \in forgotten'
        BY <1>1, <3>3, ToSetIs, Zenon DEF LostAtRestart
      <4> QED BY <4>1, Zenon DEF Passed
    <3>4. ASSUME NEW k \in DOMAIN inbound, Within(i, inbound[k]) PROVE Passed(i)'
      <4>1. inbound[k] \in InQueues
        BY DEF InQueues, ToSet
      <4> QED BY <3>3, <3>4, <4>1
    <3>5. \A m \in spawned : m \in InQueues
      BY DEF InQueues
    <3>6. \A s \in Sessions : serving[s] # NONE => serving[s] \in InQueues
      BY DEF InQueues
    <3> QED BY <2>5, <3>1, <3>2, <3>3, <3>4, <3>5, <3>6, Zenon DEF Passed
  <2>6. ASSUME NEW i \in DOMAIN sent, Gathered(buffered, batch, i), Webhook \/ sent[i].kind # "short"
        PROVE  Passed(i)'
    <3>1. PICK c, a, k : InHand(buffered, batch, i, c, a, k)
      BY <2>6, Zenon DEF Gathered
    <3>2. CASE a \in Buffers /\ Within(i, buffered[a])
      <4>1. i \in Waiting
        BY <3>2, ToSetIs, Zenon DEF Waiting
      <4>2. i \in forgotten'
        BY <1>1, <4>1, Zenon DEF LostAtRestart
      <4> QED BY <4>2, Zenon DEF Passed
    <3>3. CASE a \in Threads /\ k \in DOMAIN batch[a] /\ Within(i, batch[a][k])
      <4>1. batch[a][k] \in ToSet(batch[a])
        BY <3>3, Zenon DEF ToSet
      <4>2. batch[a][k] \in InBatches
        BY <3>3, <4>1, Zenon DEF InBatches
      <4>3. i \in UNION {ToSet(m) : m \in InBatches}
        BY <3>3, <4>2, ToSetIs, Zenon
      <4>4. i \in LostInHand
        BY <2>6, <4>3, Zenon DEF LostInHand
      <4>5. i \in forgotten'
        BY <1>1, <4>4, Zenon DEF LostAtRestart
      <4> QED BY <4>5, Zenon DEF Passed
    <3> QED BY <3>1, <3>2, <3>3, Zenon DEF InHand
  <2>2. ASSUME NEW i \in DOMAIN sent', Wanted(i)', Fetched(i)' \/ i \in asked' PROVE Kept(i)'
    <3>1. i \in DOMAIN sent /\ Wanted(i) /\ (i \in asked \/ (~Webhook /\ i < stored))
      BY <1>1, <2>2 DEF Wanted, Fetched
    <3>2. Kept(i)
      <4>1. CASE i \in asked
        BY <1>2, <3>1, <4>1, Zenon DEF NoneIsLost
      <4>2. CASE ~Webhook /\ i < stored
        <5>1. i \in Nat /\ stored \in Nat /\ offset \in Nat /\ stored <= offset
          BY <1>2, <3>1, <4>2 DEF NoneIsLost, InboundTypes
        <5>2. Fetched(i)
          BY <4>2, <5>1 DEF Fetched
        <5> QED BY <1>2, <3>1, <5>2, Zenon DEF NoneIsLost
      <4> QED BY <3>1, <4>1, <4>2
    <3>3. CASE ~Webhook /\ sent[i].kind = "short"
      <4>1. Passed(i)
        BY <1>2, <3>1, <3>3, Zenon DEF NoneIsLost
      <4> QED BY <2>5, <4>1, Zenon DEF Kept
    <3>4. CASE Webhook \/ sent[i].kind # "short"
      BY <2>5, <2>6, <3>1, <3>2, <3>4, Zenon DEF Kept
    <3> QED BY <3>3, <3>4
  <2>3. Webhook => stored' = 0
    BY <1>1, <1>2, Zenon DEF NoneIsLost
  <2>4. ASSUME ~Webhook
        PROVE  /\ stored' <= offset'
               /\ \A i \in DOMAIN sent' :
                    sent'[i].kind = "short" /\ (i \in asked' \/ i < stored') => Passed(i)'
    <3>1. stored' = stored /\ offset' = stored /\ stored <= stored
      BY <1>1, <1>2, <2>4 DEF InboundTypes
    <3>2. \A i \in DOMAIN sent : sent[i].kind = "short" /\ (i \in asked \/ i < stored) => Passed(i)
      BY <1>2, <2>4, Zenon DEF NoneIsLost
    <3> QED BY <1>1, <2>5, <3>1, <3>2, Zenon
  <2> QED BY <2>1, <2>2, <2>3, <2>4, Zenon DEF NoneIsLost
<1> QED BY <1>5, <1>7, <1>8, <1>9, <1>10, <1>11, Zenon DEF InboundInv

LEMMA StutterInv == ASSUME InboundInv, UNCHANGED inVars PROVE InboundInv'
<1>1. /\ sent' = sent /\ asked' = asked /\ offset' = offset /\ stored' = stored /\ buffered' = buffered
      /\ quiet' = quiet /\ phase' = phase /\ batch' = batch /\ inbound' = inbound /\ spawned' = spawned
      /\ serving' = serving /\ handled' = handled /\ forgotten' = forgotten /\ crashes' = crashes
  BY DEF inVars
<1>2. /\ InboundTypes /\ Once(buffered, batch) /\ MessagesGood /\ BuffersMatch /\ TurnsCounted /\ NoneIsLost
  BY Zenon DEF InboundInv
<1>3. InboundTypes'
  BY <1>1, <1>2, Zenon DEF InboundTypes
<1>4. PICK P, B : P = buffered /\ B = batch
  OBVIOUS
<1>5. /\ Once(buffered, batch)' <=> Once(P, B)
      /\ \A i : Located(buffered, batch, i)' <=> Located(P, B, i)
      /\ \A i : Gathered(buffered, batch, i)' <=> Gathered(P, B, i)
  <2>1. UNCHANGED <<inbound, spawned, serving>> /\ buffered' = P /\ batch' = B
    BY <1>1, <1>4
  <2> QED BY <2>1, SameQueues
<1>6. Once(buffered, batch)'
  BY <1>2, <1>4, <1>5, Zenon
<1>7. MessagesGood'
  <2>1. \A m : Good(m)' <=> Good(m)
    BY <1>1, SameGood, Zenon
  <2> QED BY <1>1, <1>2, <2>1, Zenon DEF MessagesGood
<1>8. BuffersMatch'
  <2>1. Holds(buffered)'
    BY <1>1, <1>2, Zenon DEF BuffersMatch, Holds, Within, Long, BufferOf
  <2> QED BY <1>1, <1>2, <2>1, Zenon DEF BuffersMatch, Grows
<1>9. TurnsCounted'
  <2>1. \A i : (Fetched(i)' <=> Fetched(i)) /\ TurnsOf(i)' = TurnsOf(i)
    BY <1>1, Zenon DEF Fetched, TurnsOf, ToSet
  <2>2. \A i : Located(buffered, batch, i)' <=> Located(buffered, batch, i)
    BY <1>4, <1>5, Zenon
  <2> QED BY <1>1, <1>2, <2>1, <2>2, Zenon DEF TurnsCounted
<1>10. NoneIsLost'
  <2>1. \A i : (Fetched(i)' <=> Fetched(i)) /\ (Wanted(i)' <=> Wanted(i))
    BY <1>1, Zenon DEF Fetched, Wanted
  <2>2. \A i : Gathered(buffered, batch, i)' <=> Gathered(buffered, batch, i)
    BY <1>4, <1>5, Zenon
  <2>0. ASSUME NEW i PROVE Passed(i)' <=> Passed(i)
    BY <1>1, SamePassed
  <2>3. \A i : Kept(i)' <=> Kept(i)
    BY <2>0, <2>2, Zenon DEF Kept
  <2> QED BY <1>1, <1>2, <2>0, <2>1, <2>3, Zenon DEF NoneIsLost
<1> QED BY <1>3, <1>6, <1>7, <1>8, <1>9, <1>10, Zenon DEF InboundInv

LEMMA InboundInvStep == ASSUME InboundInv, [InboundNext]_inVars PROVE InboundInv'
<1>1. ASSUME NEW t \in Threads, Process(t) PROVE InboundInv'
  <2>1. CASE \E i \in DOMAIN sent : Push(t, i)
    BY <2>1, PushInv
  <2> QED BY <1>1, <2>1, PollInv, FlushInv, PublishInboundInv, PersistInv, Zenon DEF Process
<1>2. CASE SessionSteps
  BY <1>2, BeginTurnInv, EndTurnInv, Zenon DEF SessionSteps
<1>3. CASE InboundNext
  <2>1. CASE \E u \in Updates : UserSends(u)
    BY <2>1, UserSendsInv
  <2>2. CASE \E b \in Buffers : Matures(b)
    BY <2>2, MaturesInv
  <2> QED BY <1>1, <1>2, <1>3, <2>1, <2>2, DispatchInv, RestartInv, Zenon DEF InboundNext
<1> QED BY <1>3, StutterInv, Zenon

THEOREM InboundInvHolds == InboundSpec => []InboundInv
BY InboundInvInit, InboundInvStep, PTL DEF InboundSpec

(* What the invariant says of the sets the properties are about.           *)

LEMMA FewIn ==
  ASSUME NEW S, \A x, y \in S : x = y
  PROVE  /\ Cardinality(S) \in 0 .. 1 /\ (S = {} => Cardinality(S) = 0)
<1>1. CASE S = {}
  BY <1>1, FS_EmptySet
<1>2. CASE S # {}
  <2>1. PICK x : S = {x}
    BY <1>2
  <2> QED BY <1>2, <2>1, FS_Singleton
<1> QED BY <1>1, <1>2

MessageAt(c, a, k) ==
  IF c = "batch" THEN batch[a][k] ELSE IF c = "inbound" THEN inbound[k]
  ELSE IF c = "spawned" THEN a ELSE serving[a]

LEMMA MessageIsAt ==
  ASSUME NEW m \in InQueues \cup InBatches, NEW i, Within(i, m)
  PROVE  \E c, a, k : At(buffered, batch, i, c, a, k) /\ c # "buffered" /\ m = MessageAt(c, a, k)
<1>1. CASE m \in ToSet(inbound)
  <2>1. PICK k \in DOMAIN inbound : m = inbound[k]
    BY <1>1, Zenon DEF ToSet
  <2>2. At(buffered, batch, i, "inbound", 0, k) /\ m = MessageAt("inbound", 0, k)
    BY <2>1 DEF At, InQueue, MessageAt
  <2> QED BY <2>2
<1>2. CASE m \in spawned
  <2>1. At(buffered, batch, i, "spawned", m, 0) /\ m = MessageAt("spawned", m, 0)
    BY <1>2 DEF At, InQueue, MessageAt
  <2> QED BY <2>1
<1>3. CASE m \in {serving[s] : s \in Sessions} \ {NONE}
  <2>1. PICK s \in Sessions : m = serving[s] /\ serving[s] # NONE
    BY <1>3
  <2>2. At(buffered, batch, i, "serving", s, 0) /\ m = MessageAt("serving", s, 0)
    BY <2>1 DEF At, InQueue, MessageAt
  <2> QED BY <2>2
<1>4. CASE m \in InBatches
  <2>1. PICK t \in Threads : m \in ToSet(batch[t])
    BY <1>4, Zenon DEF InBatches
  <2>2. PICK k \in DOMAIN batch[t] : m = batch[t][k]
    BY <2>1, Zenon DEF ToSet
  <2>3. At(buffered, batch, i, "batch", t, k) /\ m = MessageAt("batch", t, k)
    BY <2>2 DEF At, InHand, MessageAt
  <2> QED BY <2>3
<1> QED BY <1>1, <1>2, <1>3, <1>4, Zenon DEF InQueues

LEMMA GatheredIsHeld ==
  ASSUME NEW i, Gathered(buffered, batch, i)
  PROVE  i \in Held
<1>1. PICK c, a, k : InHand(buffered, batch, i, c, a, k)
  BY Zenon DEF Gathered
<1>2. CASE a \in Buffers /\ Within(i, buffered[a])
  BY <1>2, ToSetIs, Zenon DEF Held, Waiting
<1>3. CASE a \in Threads /\ k \in DOMAIN batch[a] /\ Within(i, batch[a][k])
  <2>1. batch[a][k] \in ToSet(batch[a])
    BY <1>3, Zenon DEF ToSet
  <2>2. batch[a][k] \in InBatches
    BY <1>3, <2>1, Zenon DEF InBatches
  <2> QED BY <1>3, <2>2, ToSetIs, Zenon DEF Held
<1> QED BY <1>1, <1>2, <1>3, Zenon DEF InHand

LEMMA InvAcknowledged == ASSUME InboundInv PROVE AcknowledgedIsKept
<1>1. InboundTypes /\ NoneIsLost
  BY Zenon DEF InboundInv
<1> SUFFICES ASSUME NEW i \in DOMAIN sent, Wanted(i), i \in asked \/ i < stored
             PROVE  i \in Held \cup Taken \cup forgotten
  BY Zenon DEF AcknowledgedIsKept
<1>2. ASSUME Kept(i) PROVE i \in Held \cup Taken \cup forgotten
  <2>1. Gathered(buffered, batch, i) => i \in Held
    BY GatheredIsHeld
  <2>2. ASSUME NEW k \in DOMAIN handled, Within(i, handled[k]) PROVE i \in Taken
    <3>1. handled[k] \in ToSet(handled)
      BY Zenon DEF ToSet
    <3> QED BY <2>2, <3>1, ToSetIs, Zenon DEF Taken
  <2>3. ASSUME NEW m \in InQueues, Within(i, m) PROVE i \in Held
    BY <2>3, ToSetIs, Zenon DEF Held
  <2>4. \A k \in DOMAIN inbound : inbound[k] \in InQueues
    BY DEF InQueues, ToSet
  <2>5. \A m \in spawned : m \in InQueues
    BY DEF InQueues
  <2>6. \A s \in Sessions : serving[s] # NONE => serving[s] \in InQueues
    BY DEF InQueues
  <2> QED BY <1>2, <2>1, <2>2, <2>3, <2>4, <2>5, <2>6, Zenon DEF Kept, Passed
<1>3. Fetched(i) \/ i \in asked => Kept(i)
  BY <1>1, Zenon DEF NoneIsLost
<1>4. i \in Nat \ {0} /\ offset \in Nat /\ stored \in Nat
  <2>1. sent \in Seq(Updates)
    BY <1>1, Zenon DEF InboundTypes
  <2>2. DOMAIN sent = 1 .. Len(sent) /\ Len(sent) \in Nat
    BY <2>1
  <2> QED BY <1>1, <2>2 DEF InboundTypes
<1>5. CASE Webhook
  <2>1. Fetched(i)
    BY <1>1, <1>4, <1>5 DEF NoneIsLost, Fetched
  <2> QED BY <1>2, <1>3, <2>1
<1>6. CASE ~Webhook
  <2>1. stored <= offset
    BY <1>1, <1>6, Zenon DEF NoneIsLost
  <2>2. i < offset => Fetched(i)
    BY <1>6, Zenon DEF Fetched
  <2>3. i < stored => i < offset
    BY <1>4, <2>1
  <2> QED BY <1>2, <1>3, <2>1, <2>2, <2>3, Zenon
<1> QED BY <1>5, <1>6

LEMMA InvOnePlace == ASSUME InboundInv PROVE OnePlaceEach
<1>1. InboundTypes /\ Once(buffered, batch) /\ TurnsCounted
  BY Zenon DEF InboundInv
<1> SUFFICES ASSUME NEW i \in DOMAIN sent PROVE Places(i) <= 1 + crashes
  BY Zenon DEF OnePlaceEach
<1>2. i \in Nat
  <2>1. sent \in Seq(Updates)
    BY <1>1, Zenon DEF InboundTypes
  <2> QED BY <2>1
<1>3. PICK M, T, Q : /\ M = {m \in InQueues \cup InBatches : i \in ToSet(m)}
                     /\ T = {k \in DOMAIN handled : i \in ToSet(handled[k])}
                     /\ Q = {b \in Buffers : i \in ToSet(buffered[b])}
  OBVIOUS
<1>4. Places(i) = Cardinality(M) + Cardinality(T) + Cardinality(Q)
  BY <1>3, Zenon DEF Places
<1>5. /\ IsFiniteSet(T) /\ Cardinality(T) <= crashes + (IF Fetched(i) THEN 1 ELSE 0)
      /\ Located(buffered, batch, i) => Cardinality(T) <= crashes
  BY <1>1, <1>2, <1>3, Zenon DEF TurnsCounted, TurnsOf
<1>6. Cardinality(T) \in Nat /\ crashes \in Nat
  BY <1>1, <1>5, FS_CardinalityType DEF InboundTypes
<1>7. ASSUME NEW m \in M
      PROVE  \E c, a, k : At(buffered, batch, i, c, a, k) /\ c # "buffered" /\ m = MessageAt(c, a, k)
  <2>1. m \in InQueues \cup InBatches /\ i \in ToSet(m)
    BY <1>3, <1>7
  <2>2. Within(i, m)
    BY <2>1, ToSetIs
  <2> QED BY <2>1, <2>2, MessageIsAt
<1>8. ASSUME NEW b \in Q PROVE At(buffered, batch, i, "buffered", b, 0)
  BY <1>3, ToSetIs, Zenon DEF At, InHand
<1>9. \A m, x \in M : m = x
  <2> SUFFICES ASSUME NEW m \in M, NEW x \in M PROVE m = x
    OBVIOUS
  <2>1. PICK c, a, k : At(buffered, batch, i, c, a, k) /\ m = MessageAt(c, a, k)
    BY <1>7
  <2>2. PICK d, e, l : At(buffered, batch, i, d, e, l) /\ x = MessageAt(d, e, l)
    BY <1>7
  <2>3. c = d /\ a = e /\ k = l
    BY <1>1, <2>1, <2>2, Zenon DEF Once
  <2> QED BY <2>1, <2>2, <2>3, Zenon
<1>10. \A b, x \in Q : b = x
  BY <1>1, <1>8, Zenon DEF Once
<1>11. M = {} \/ Q = {}
  <2> SUFFICES ASSUME NEW m \in M, NEW b \in Q PROVE FALSE
    OBVIOUS
  <2>1. PICK c, a, k : At(buffered, batch, i, c, a, k) /\ c # "buffered"
    BY <1>7
  <2>2. c = "buffered"
    BY <1>1, <1>8, <2>1, Zenon DEF Once
  <2> QED BY <2>1, <2>2
<1>12. M # {} \/ Q # {} => Located(buffered, batch, i)
  BY <1>7, <1>8, Zenon DEF Located
<1>13. /\ Cardinality(M) \in 0 .. 1 /\ (M = {} => Cardinality(M) = 0)
       /\ Cardinality(Q) \in 0 .. 1 /\ (Q = {} => Cardinality(Q) = 0)
  BY <1>9, <1>10, FewIn
<1>14. Cardinality(M) + Cardinality(T) + Cardinality(Q) <= 1 + crashes
  BY <1>5, <1>6, <1>11, <1>12, <1>13
<1> QED BY <1>4, <1>14, Zenon

LEMMA InvInOrder == ASSUME InboundInv, ~Webhook PROVE MergedInOrder
<1>1. MessagesGood
  BY Zenon DEF InboundInv
<1>2. ASSUME NEW m \in InQueues \cup InBatches \cup ToSet(handled) PROVE Good(m)
  <2>1. CASE m \in ToSet(inbound)
    BY <1>1, <2>1, Zenon DEF ToSet, MessagesGood
  <2>2. CASE m \in spawned \/ m \in {serving[s] : s \in Sessions} \ {NONE}
    BY <1>1, <2>2 DEF MessagesGood
  <2>3. CASE m \in InBatches
    <3>1. PICK t \in Threads : m \in ToSet(batch[t])
      BY <2>3, Zenon DEF InBatches
    <3> QED BY <1>1, <3>1, Zenon DEF ToSet, MessagesGood
  <2>4. CASE m \in ToSet(handled)
    BY <1>1, <2>4, Zenon DEF ToSet, MessagesGood
  <2> QED BY <1>2, <2>1, <2>2, <2>3, <2>4, Zenon DEF InQueues
<1>3. ASSUME NEW m, Good(m), NEW j \in DOMAIN m, NEW k \in DOMAIN m, j < k
      PROVE  m[j] < m[k] /\ sent[m[j]].chat = sent[m[k]].chat
  <2>1. Within(m[j], m) /\ Within(m[k], m)
    BY Zenon DEF Within
  <2>2. sent[m[j]].chat = sent[m[1]].chat /\ sent[m[k]].chat = sent[m[1]].chat
    BY <1>3, <2>1, Zenon DEF Good
  <2>3. m[j] < m[k]
    BY <1>3, Zenon DEF Good, Grows
  <2> QED BY <2>2, <2>3
<1> QED BY <1>2, <1>3, Zenon DEF MergedInOrder

(* An update that Telegram will not send again is held or had its turn,    *)
(* unless a restart found it in the buffers, the queue, a task or a turn;  *)
(* and it is in one place, once for each life of the process. Updates are  *)
(* polled or pushed, and handlers, chats and restarts are any number.      *)
THEOREM UpdatesAreKept == InboundSpec => [](AcknowledgedIsKept /\ OnePlaceEach)
BY InboundInvHolds, InvAcknowledged, InvOnePlace, PTL

(* And when they are polled, a message is merged from one chat's updates   *)
(* in the order they were sent.                                            *)
THEOREM MessagesAreKept == ~Webhook /\ InboundSpec => []MessagesKept
<1>1. ASSUME ~Webhook PROVE InboundInv => MessagesKept
  BY <1>1, InvAcknowledged, InvOnePlace, InvInOrder, Zenon DEF MessagesKept
<1>2. ASSUME ~Webhook PROVE InboundSpec => []MessagesKept
  BY <1>1, <1>2, InboundInvHolds, PTL
<1> QED BY <1>2

-----------------------------------------------------------------------------
(* Human approval.                                                         *)

(* The inductive invariant.  GoAheadOnlyOnYes rests on what the channel    *)
(* carries, the channel on the acks, and the acks on the entries of the    *)
(* map, which WaitersReachable ties to the askers.                         *)
IInv ==
  /\ TypeOK /\ WaitersReachable /\ OneAck
  /\ AskerAgreesWithAck /\ GoAheadOnlyOnYes /\ TurnHeldByWaiter

USE AsksAssumption DEF Ids, Free, Asker, Wait, Channel, Reply

(* The typing facts of TypeOK, one function at a time. *)
LEMMA Typing ==
  ASSUME TypeOK
  PROVE  /\ nextId \in Nat \ {0} /\ pending \subseteq Ids /\ turn \in Ids \cup {Free}
         /\ asker \in [Ids -> Asker] /\ wait \in [Ids -> Wait] /\ channel \in [Ids -> Channel]
         /\ said \in SUBSET Reply /\ inbox \subseteq said
         /\ acks \in [Ids -> Seq({"approved", "denied"})]
BY DEF TypeOK

(* register keeps the invariant, with and without the session's turn. *)
LEMMA RegisterInv ==
  ASSUME IInv, AskFromSubagent \/ AskFromTurn
  PROVE  IInv'
<1> USE Typing DEF IInv, Register, AskFromSubagent, AskFromTurn
<1>1. /\ nextId \in Ids /\ nextId' = nextId + 1 /\ pending' = pending \cup {nextId}
      /\ wait' = [wait EXCEPT ![nextId] = "waiting"]
      /\ UNCHANGED <<channel, inbox, said, acks>>
  OBVIOUS
<1>2. wait[nextId] = "none" /\ nextId \notin pending /\ asker[nextId] = "none"
      /\ channel[nextId] = "empty" /\ acks[nextId] = <<>>
  BY <1>1 DEF TypeOK
<1>3. TypeOK'
  <2>1. turn' \in Ids \cup {Free} /\ asker' \in [Ids -> Asker]
    BY <1>1
  <2>2. wait' \in [Ids -> Wait] /\ pending' \subseteq Ids
    BY <1>1
  <2>3. \A i \in Ids : i # nextId => asker'[i] = asker[i]
    BY <1>1
  <2>4. \A i \in Ids : i >= nextId' =>
          /\ wait'[i] = "none" /\ i \notin pending' /\ asker'[i] = "none"
          /\ channel'[i] = "empty" /\ acks'[i] = <<>>
    <3> SUFFICES ASSUME NEW i \in Ids, i >= nextId'
                 PROVE  /\ wait'[i] = "none" /\ i \notin pending' /\ asker'[i] = "none"
                        /\ channel'[i] = "empty" /\ acks'[i] = <<>>
      OBVIOUS
    <3>1. i >= nextId /\ i # nextId
      BY <1>1
    <3>2. wait[i] = "none" /\ i \notin pending /\ asker[i] = "none" /\ channel[i] = "empty" /\ acks[i] = <<>>
      BY <3>1 DEF TypeOK
    <3>3. wait'[i] = wait[i] /\ asker'[i] = asker[i] /\ channel'[i] = channel[i] /\ acks'[i] = acks[i]
      BY <1>1, <2>3, <3>1
    <3>4. i \notin pending'
      BY <1>1, <3>1, <3>2
    <3> QED BY <3>2, <3>3, <3>4
  <2>5. nextId' \in Nat \ {0} /\ UNCHANGED <<channel, inbox, said, acks>>
    BY <1>1
  <2> QED BY <2>1, <2>2, <2>4, <2>5 DEF TypeOK
<1>4. WaitersReachable' /\ OneAck' /\ AskerAgreesWithAck' /\ GoAheadOnlyOnYes'
  BY <1>1, <1>2 DEF WaitersReachable, OneAck, AskerAgreesWithAck, GoAheadOnlyOnYes
<1>5. TurnHeldByWaiter'
  <2>1. CASE AskFromSubagent
    BY <1>1, <1>2, <2>1 DEF TurnHeldByWaiter
  <2>2. CASE AskFromTurn
    <3>1. turn = Free /\ turn' = nextId /\ asker' = [asker EXCEPT ![nextId] = "turn"]
      BY <2>2
    <3>2. \A i \in Ids : ~(asker[i] = "turn" /\ wait[i] \in {"waiting", "expired"})
      BY <3>1 DEF TurnHeldByWaiter
    <3> QED BY <1>1, <3>1, <3>2 DEF TurnHeldByWaiter
  <2> QED BY <2>1, <2>2
<1> QED BY <1>3, <1>4, <1>5

(* The asker's own steps keep the invariant: waking up with an answer,     *)
(* the timer, the clean-up and the abort.                                  *)
LEMMA AskerInv ==
  ASSUME IInv, NEW id \in Ids, Answered(id) \/ TimerFires(id) \/ CleanUp(id) \/ Abort(id)
  PROVE  IInv'
<1> USE Typing DEF IInv, ReleaseTurn, RemoveEntry, Woken
<1>1. /\ UNCHANGED <<nextId, asker, channel, inbox, said, acks>>
      /\ wait[id] \in {"waiting", "expired"}
      /\ \E w \in Wait \ {"none", "waiting"} : wait' = [wait EXCEPT ![id] = w]
  BY DEF Answered, TimerFires, CleanUp, Abort
<1>2. pending' \in {pending, pending \ {id}}
  BY DEF Answered, TimerFires, CleanUp, Abort
<1>3. turn' \in Ids \cup {Free}
  BY DEF Answered, TimerFires, CleanUp, Abort
<1>4. TypeOK'
  <2>1. wait' \in [Ids -> Wait] /\ pending' \subseteq pending /\ \A i \in Ids : i # id => wait'[i] = wait[i]
    BY <1>1, <1>2
  <2>2. id < nextId
    <3>1. id >= nextId => wait[id] = "none"
      BY DEF TypeOK
    <3> QED BY <1>1, <3>1
  <2>3. \A i \in Ids : i >= nextId' => wait'[i] = "none" /\ i \notin pending'
    BY <1>1, <2>1, <2>2 DEF TypeOK
  <2> QED BY <1>1, <1>3, <2>1, <2>3 DEF TypeOK
<1>5. WaitersReachable'
  <2>1. CASE Answered(id)
    BY <2>1 DEF Answered, WaitersReachable
  <2>2. CASE TimerFires(id)
    BY <2>2 DEF TimerFires, WaitersReachable
  <2>3. CASE CleanUp(id)
    BY <2>3 DEF CleanUp, WaitersReachable
  <2>4. CASE Abort(id)
    BY <2>4 DEF Abort, WaitersReachable
  <2> QED BY <2>1, <2>2, <2>3, <2>4
<1>6. OneAck'
  BY <1>1, <1>2 DEF OneAck
<1>7. AskerAgreesWithAck' /\ GoAheadOnlyOnYes'
  <2>1. CASE Answered(id)
    BY <2>1 DEF Answered, AskerAgreesWithAck, GoAheadOnlyOnYes
  <2>2. CASE TimerFires(id) \/ CleanUp(id) \/ Abort(id)
    <3>1. \E w \in {"expired", "timedout", "aborted"} : wait' = [wait EXCEPT ![id] = w]
      BY <2>2 DEF TimerFires, CleanUp, Abort
    <3> QED BY <1>1, <3>1 DEF AskerAgreesWithAck, GoAheadOnlyOnYes
  <2> QED BY <2>1, <2>2
<1>8. TurnHeldByWaiter'
  <2>1. CASE TimerFires(id)
    BY <2>1 DEF TimerFires, TurnHeldByWaiter
  <2>2. CASE Answered(id) \/ CleanUp(id) \/ Abort(id)
    <3>1. turn' = IF turn = id THEN Free ELSE turn
      BY <2>2 DEF Answered, CleanUp, Abort
    <3>2. \E w \in {"approved", "denied", "timedout", "aborted"} : wait' = [wait EXCEPT ![id] = w]
      BY <2>2 DEF Answered, CleanUp, Abort
    <3> QED BY <1>1, <3>1, <3>2 DEF TurnHeldByWaiter
  <2> QED BY <2>1, <2>2
<1> QED BY <1>4, <1>5, <1>6, <1>7, <1>8

(* The human's replies and their relay keep the invariant. *)
LEMMA ReplyInv ==
  ASSUME IInv, NEW r \in Reply, HumanReplies(r) \/ Relay(r)
  PROVE  IInv'
<1> USE Typing DEF IInv
<1>1. CASE HumanReplies(r)
  BY <1>1 DEF HumanReplies, TypeOK, WaitersReachable, OneAck, AskerAgreesWithAck, GoAheadOnlyOnYes,
     TurnHeldByWaiter
<1>2. CASE Relay(r) /\ r.id \notin pending
  <2>1. UNCHANGED <<nextId, asker, wait, turn, said, pending, channel, acks>> /\ inbox' \subseteq inbox
    BY <1>2 DEF Relay, Respond
  <2>2. TypeOK'
    BY <2>1 DEF TypeOK
  <2> QED BY <2>1, <2>2 DEF WaitersReachable, OneAck, AskerAgreesWithAck, GoAheadOnlyOnYes, TurnHeldByWaiter
<1>3. CASE Relay(r) /\ r.id \in pending
  <2> DEFINE ack == IF r.yes THEN "approved" ELSE "denied"
             value == IF r.yes THEN "yes" ELSE "no"
  <2>1. /\ r.id \in Ids /\ r \in said /\ r = [id |-> r.id, yes |-> r.yes]
        /\ UNCHANGED <<nextId, asker, wait, turn, said>> /\ inbox' = inbox \ {r}
        /\ pending' = pending \ {r.id}
        /\ channel' = [channel EXCEPT ![r.id] = IF wait[r.id] = "waiting" THEN value ELSE channel[r.id]]
        /\ acks' = [acks EXCEPT ![r.id] = Append(acks[r.id], ack)]
    BY <1>3 DEF Relay, Respond, RemoveEntry, SendAnswer, Send
  <2>2. acks[r.id] = <<>> /\ Append(acks[r.id], ack) = <<ack>> /\ <<ack>> \in Seq({"approved", "denied"})
    <3>1. acks[r.id] = <<>>
      BY <1>3, <2>1 DEF OneAck
    <3>2. ack \in {"approved", "denied"} /\ \A a : Append(<<>>, a) = <<a>>
      OBVIOUS
    <3>3. \A a \in {"approved", "denied"} : <<a>> \in Seq({"approved", "denied"})
      OBVIOUS
    <3> QED BY <3>1, <3>2, <3>3
  <2>3. TypeOK'
    <3>1. acks' \in [Ids -> Seq({"approved", "denied"})]
      BY <2>1, <2>2
    <3>2. channel' \in [Ids -> Channel] /\ pending' \subseteq Ids /\ inbox' \subseteq said
      BY <2>1
    <3>3. r.id < nextId
      BY <1>3, <2>1 DEF TypeOK
    <3>4. \A i \in Ids : i >= nextId => i # r.id
      BY <2>1, <3>3
    <3>5. \A i \in Ids : i # r.id =>
            channel'[i] = channel[i] /\ acks'[i] = acks[i] /\ (i \in pending' <=> i \in pending)
      BY <2>1
    <3> QED BY <2>1, <3>1, <3>2, <3>4, <3>5 DEF TypeOK
  <2>4. WaitersReachable'
    BY <1>3, <2>1 DEF WaitersReachable
  <2>5. OneAck'
    BY <2>1, <2>2 DEF OneAck
  <2>6. wait[r.id] \notin {"approved", "denied"} /\ channel[r.id] = "empty"
    <3>1. \A a : <<a>> # <<>>
      OBVIOUS
    <3>2. channel[r.id] \in Channel
      BY <2>1
    <3> QED BY <2>1, <2>2, <3>1, <3>2 DEF AskerAgreesWithAck
  <2>7. AskerAgreesWithAck'
    BY <2>1, <2>2, <2>6 DEF AskerAgreesWithAck
  <2>8. GoAheadOnlyOnYes'
    BY <2>1, <2>6 DEF GoAheadOnlyOnYes
  <2>9. TurnHeldByWaiter'
    BY <2>1 DEF TurnHeldByWaiter
  <2> QED BY <2>3, <2>4, <2>5, <2>7, <2>8, <2>9
<1> QED BY <1>1, <1>2, <1>3

(* The invariant holds initially and survives every step. *)
LEMMA Inductive == (Init => IInv) /\ (IInv /\ [Next]_vars => IInv')
<1>1. Init => IInv
  BY DEF Init, IInv, TypeOK, WaitersReachable, OneAck, AskerAgreesWithAck, GoAheadOnlyOnYes, TurnHeldByWaiter
<1>2. IInv /\ UNCHANGED vars => IInv'
  BY DEF vars, IInv, TypeOK, WaitersReachable, OneAck, AskerAgreesWithAck, GoAheadOnlyOnYes, TurnHeldByWaiter
<1>3. IInv /\ Next => IInv'
  BY RegisterInv, AskerInv, ReplyInv DEF Next
<1> QED BY <1>1, <1>2, <1>3

(* Every reachable state satisfies the inductive invariant. *)
THEOREM IInvHolds == Spec => []IInv
BY Inductive, PTL DEF Spec

(* Type correctness. *)
THEOREM TypeCorrect == Spec => []TypeOK
<1>1. IInv => TypeOK
  BY DEF IInv
<1> QED BY <1>1, IInvHolds, PTL

(* A waiting tool is never out of reach, and only an aborted one leaves    *)
(* its entry in the map.                                                   *)
THEOREM WaitersAreReachable == Spec => []WaitersReachable
<1>1. IInv => WaitersReachable
  BY DEF IInv
<1> QED BY <1>1, IInvHolds, PTL

(* request_approval returns an approval only after the human's yes. *)
THEOREM NoActionWithoutYes == Spec => []GoAheadOnlyOnYes
<1>1. IInv => GoAheadOnlyOnYes
  BY DEF IInv
<1> QED BY <1>1, IInvHolds, PTL

(* The asker never acts on an answer other than the acknowledged one. *)
THEOREM AskerAndRelayAgree == Spec => []AnswersAgree
<1>1. IInv => AnswersAgree
  BY DEF IInv, AnswersAgree
<1> QED BY <1>1, IInvHolds, PTL

(* A question is decided once, in favour only with the human's consent:    *)
(* the race of answer, timer and abort implements Decision.                *)
THEOREM ApprovalImplementsDecision == Spec => ImplementsDecision
<1> DEFINE view == [id \in Ids |-> DecisionOf(wait[id])]
           yes == {id \in Ids : [id |-> id, yes |-> TRUE] \in said}
<1>1. Init => Asked!DecisionInit
  BY DEF Init, Asked!DecisionInit, DecisionOf
<1>2. IInv /\ [Next]_vars => [Asked!DecisionStep]_(Asked!decisionVars)
  <2> SUFFICES ASSUME IInv, [Next]_vars
               PROVE  Asked!DecisionStep \/ UNCHANGED <<view, yes>>
    BY DEF Asked!decisionVars
  <2>0. TypeOK /\ wait \in [Ids -> Wait]
    BY Typing DEF IInv
  <2>1. CASE UNCHANGED vars
    BY <2>1 DEF vars
  <2>2. CASE AskFromSubagent \/ AskFromTurn
    <3>1. /\ nextId \in Ids /\ wait[nextId] = "none" /\ UNCHANGED said
          /\ wait' = [wait EXCEPT ![nextId] = "waiting"]
      <4>1. nextId \in Ids /\ UNCHANGED said /\ wait' = [wait EXCEPT ![nextId] = "waiting"]
        BY <2>2 DEF AskFromSubagent, AskFromTurn, Register
      <4>2. wait[nextId] = "none"
        BY <2>0, <4>1 DEF TypeOK
      <4> QED BY <4>1, <4>2
    <3>2. view[nextId] = "unasked" /\ view' = [view EXCEPT ![nextId] = "open"] /\ UNCHANGED yes
      BY <2>0, <3>1 DEF DecisionOf
    <3>3. Asked!Ask(nextId)
      BY <3>2 DEF Asked!Ask
    <3> QED BY <3>1, <3>3 DEF Asked!DecisionStep
  <2>3. ASSUME NEW id \in Ids, Answered(id) \/ CleanUp(id) \/ Abort(id)
        PROVE  Asked!DecisionStep
    <3>1. /\ wait[id] \in {"waiting", "expired"} /\ UNCHANGED said
          /\ \E w \in {"approved", "denied", "timedout", "aborted"} :
               wait' = [wait EXCEPT ![id] = w] /\ (w = "approved" => channel[id] = "yes")
      BY <2>0, <2>3 DEF Answered, CleanUp, Abort
    <3>2. channel[id] = "yes" => id \in yes
      BY DEF IInv, GoAheadOnlyOnYes
    <3>3. PICK w \in {"approved", "denied", "timedout", "aborted"} :
            wait' = [wait EXCEPT ![id] = w] /\ (w = "approved" => id \in yes)
      BY <3>1, <3>2
    <3>4. /\ DecisionOf(wait[id]) = "open" /\ DecisionOf(w) \in {"go", "stop"}
          /\ DecisionOf(w) = "go" => w = "approved"
      BY <3>1 DEF DecisionOf
    <3>5. view' = [view EXCEPT ![id] = DecisionOf(w)] /\ UNCHANGED yes
      BY <2>0, <3>1, <3>3
    <3>6. Asked!Decide(id)
      BY <3>3, <3>4, <3>5 DEF Asked!Decide
    <3> QED BY <3>6 DEF Asked!DecisionStep
  <2>4. ASSUME NEW id \in Ids, TimerFires(id)
        PROVE  UNCHANGED <<view, yes>>
    <3>1. wait[id] = "waiting" /\ wait' = [wait EXCEPT ![id] = "expired"] /\ UNCHANGED said
      BY <2>4 DEF TimerFires
    <3> QED BY <2>0, <3>1 DEF DecisionOf
  <2>5. ASSUME NEW r \in Reply, HumanReplies(r)
        PROVE  Asked!DecisionStep \/ UNCHANGED <<view, yes>>
    <3>1. r.id \in Ids /\ wait[r.id] # "none" /\ UNCHANGED wait /\ said' = said \cup {r}
          /\ r = [id |-> r.id, yes |-> r.yes] /\ r.yes \in BOOLEAN
      BY <2>5 DEF HumanReplies
    <3>2. CASE r.yes
      <4>1. yes' = yes \cup {r.id} /\ UNCHANGED view
        BY <3>1, <3>2
      <4>2. view[r.id] # "unasked"
        BY <2>0, <3>1 DEF DecisionOf
      <4>3. Asked!SayYes(r.id)
        BY <4>1, <4>2 DEF Asked!SayYes
      <4> QED BY <3>1, <4>3 DEF Asked!DecisionStep
    <3>3. CASE ~r.yes
      BY <3>1, <3>3
    <3> QED BY <3>2, <3>3
  <2>6. ASSUME NEW r \in Reply, Relay(r)
        PROVE  UNCHANGED <<view, yes>>
    BY <2>6 DEF Relay
  <2> QED BY <2>1, <2>2, <2>3, <2>4, <2>5, <2>6 DEF Next
<1> QED BY <1>1, <1>2, IInvHolds, PTL DEF Spec, ImplementsDecision, Asked!DecisionSpec

-----------------------------------------------------------------------------
(* The way of a reply to the screen.                                       *)

ModeNames == {"MarkdownV2", "HTML", "plain"}

(* The outcomes of a call in a mode, given those of the next mode.         *)
Level(mode, edit, next) ==
  UNION { IF a = "ok" THEN {Sent}
          ELSE IF a = "thread" /\ ~edit THEN {WithoutTopic(b, mode) : b \in Replies(edit)}
          ELSE IF a = "parse" /\ mode # "plain" THEN next
          ELSE {Failed(a)}
          : a \in Replies(edit) }
Plain(edit) == Level("plain", edit, {})
Html(edit) == Level("HTML", edit, Plain(edit))
Markdown(edit) == Level("MarkdownV2", edit, Html(edit))

LEMMA PlainEnds ==
  ASSUME NEW edit, NEW next PROVE Level("plain", edit, next) = Plain(edit)
BY DEF Level, Plain

LEMMA FormattedIs == ASSUME NEW edit \in BOOLEAN PROVE Formatted(edit) = Markdown(edit)
<1> DEFINE F(f) == [mode \in ModeNames |-> 
          UNION { IF a = "ok" THEN {Sent}
                  ELSE IF a = "thread" /\ ~edit THEN {WithoutTopic(b, mode) : b \in Replies(edit)}
                  ELSE IF a = "parse" /\ mode # "plain" THEN f[NextMode(mode)]
                  ELSE {Failed(a)}
                : a \in Replies(edit) }]
<1> DEFINE g == [mode \in ModeNames |->
                   IF mode = "plain" THEN Plain(edit) ELSE IF mode = "HTML" THEN Html(edit) ELSE Markdown(edit)]
<1>1. \A f : F(f) = [mode \in ModeNames |-> Level(mode, edit, f[NextMode(mode)])]
  BY DEF Level
<1> DEFINE G(f) == [mode \in ModeNames |-> Level(mode, edit, f[NextMode(mode)])]
<1>2. G(g) = g
  <2>1. g["plain"] = Plain(edit) /\ g["HTML"] = Html(edit) /\ g["MarkdownV2"] = Markdown(edit)
    BY DEF ModeNames
  <2>2. \A mode \in ModeNames : G(g)[mode] = g[mode]
    <3> HIDE DEF g
    <3>1. G(g)["plain"] = g["plain"]
      BY <2>1, PlainEnds DEF ModeNames
    <3>2. G(g)["HTML"] = g["HTML"]
      BY <2>1 DEF ModeNames, NextMode, Html
    <3>3. G(g)["MarkdownV2"] = g["MarkdownV2"]
      BY <2>1 DEF ModeNames, NextMode, Markdown
    <3> QED BY <3>1, <3>2, <3>3, Zenon DEF ModeNames
  <2>3. g = [mode \in ModeNames |-> g[mode]]
    OBVIOUS
  <2> HIDE DEF g
  <2>4. G(g) = [mode \in ModeNames |-> G(g)[mode]]
    OBVIOUS
  <2> QED BY <2>2, <2>3, <2>4
<1>3. ASSUME NEW f, f = G(f) PROVE f["MarkdownV2"] = Markdown(edit)
  <2>1. \A mode \in ModeNames : f[mode] = Level(mode, edit, f[NextMode(mode)])
    <3> HIDE DEF G
    <3>1. \A mode \in ModeNames : G(f)[mode] = Level(mode, edit, f[NextMode(mode)])
      BY DEF G
    <3> QED BY <3>1, <1>3, Zenon
  <2>2. f["plain"] = Plain(edit)
    BY <2>1, PlainEnds, Zenon DEF ModeNames
  <2>3. f["HTML"] = Html(edit)
    BY <2>1, <2>2 DEF ModeNames, NextMode, Html
  <2> QED BY <2>1, <2>3 DEF ModeNames, NextMode, Markdown
<1> DEFINE h == CHOOSE f : f = F(f)
<1>4. h = F(h)
  <2>1. g = F(g)
    BY <1>1, <1>2, Zenon
  <2> HIDE DEF F, g
  <2> QED BY <2>1, Zenon
<1>5. h = G(h)
  <2> HIDE DEF h
  <2> QED BY <1>4, <1>1, Zenon
<1>6. h["MarkdownV2"] = Markdown(edit)
  <2> HIDE DEF h, G
  <2> QED BY <1>3, <1>5, Zenon
<1>7. Formatted(edit) = h["MarkdownV2"]
  BY Zenon DEF Formatted, ModeNames
<1> QED BY <1>6, <1>7, Zenon

(* A call that returns an id has shown its text.                           *)
Outcomes == {o \in [ok : BOOLEAN, id : BOOLEAN, shown : BOOLEAN] : o.ok /\ o.id => o.shown}

LEMMA OutcomesAre ==
  ASSUME NEW edit \in BOOLEAN PROVE Formatted(edit) \subseteq Outcomes
<1>1. Sent \in Outcomes
  BY DEF Sent, Outcome, Outcomes
<1>2. ASSUME NEW a PROVE Failed(a) \in Outcomes
  BY DEF Failed, Outcome, Outcomes
<1>3. ASSUME NEW a, NEW mode PROVE WithoutTopic(a, mode) \in Outcomes
  <2>1. Outcome(TRUE, FALSE, FALSE) \in Outcomes
    BY DEF Outcome, Outcomes
  <2> QED BY <1>1, <1>2, <2>1, Zenon DEF WithoutTopic
<1>4. ASSUME NEW mode, NEW next \in SUBSET Outcomes PROVE Level(mode, edit, next) \subseteq Outcomes
  <2> DEFINE of(a) == IF a = "ok" THEN {Sent}
                      ELSE IF a = "thread" /\ ~edit THEN {WithoutTopic(b, mode) : b \in Replies(edit)}
                      ELSE IF a = "parse" /\ mode # "plain" THEN next
                      ELSE {Failed(a)}
  <2>1. ASSUME NEW a PROVE of(a) \subseteq Outcomes
    <3>1. CASE a = "ok"
      BY <3>1, <1>1
    <3>2. CASE a # "ok" /\ a = "thread" /\ ~edit
      <4>1. of(a) = {WithoutTopic(b, mode) : b \in Replies(edit)}
        BY <3>2
      <4> HIDE DEF of
      <4> QED BY <4>1, <1>3
    <3>3. CASE a # "ok" /\ ~ (a = "thread" /\ ~edit) /\ a = "parse" /\ mode # "plain"
      BY <3>3
    <3>4. CASE a # "ok" /\ ~ (a = "thread" /\ ~edit) /\ ~ (a = "parse" /\ mode # "plain")
      <4>1. of(a) = {Failed(a)}
        BY <3>4, Zenon
      <4> HIDE DEF of
      <4> QED BY <4>1, <1>2
    <3> QED BY <3>1, <3>2, <3>3, <3>4, Zenon
  <2>2. Level(mode, edit, next) = UNION {of(a) : a \in Replies(edit)}
    BY DEF Level
  <2> HIDE DEF of
  <2> QED BY <2>1, <2>2
<1>5. Plain(edit) \in SUBSET Outcomes
  BY <1>4 DEF Plain
<1>6. Html(edit) \in SUBSET Outcomes
  BY <1>4, <1>5 DEF Html
<1>7. Markdown(edit) \in SUBSET Outcomes
  BY <1>4, <1>6 DEF Markdown
<1> QED BY <1>7, FormattedIs

-----------------------------------------------------------------------------
(* Messages of the chat.                                                   *)
Tokens == Finals \X {"piece", "part", "file", "failure"} \X Nat
Messages == Seq(Tokens)
PartMessage(f, j) == <<<<f, "part", j>>>>
NoPart(m) == \A f \in Finals, j \in 1 .. 2 : \A i \in DOMAIN m : m[i] # <<f, "part", j>>
(* A message is a part of a final text or holds none.                      *)
Whole(m) == NoPart(m) \/ \E f \in Finals, j \in 1 .. 2 : m = PartMessage(f, j)
PlacesIn(scr, f) == {i \in DOMAIN scr : \E j \in 1 .. 2 : scr[i] = PartMessage(f, j)}

LEMMA SingleIs ==
  ASSUME NEW f \in Finals, NEW j \in 1 .. 2
  PROVE  PartMessage(f, j) \in Messages
<1>1. <<f, "part", j>> \in Tokens
  BY DEF Tokens
<1> QED BY <1>1 DEF PartMessage, Messages

LEMMA PartsDiffer ==
  ASSUME NEW f, NEW j, NEW g, NEW k, PartMessage(f, j) = PartMessage(g, k)
  PROVE  f = g /\ j = k
BY DEF PartMessage

LEMMA PlainIsNot ==
  ASSUME NEW m, NoPart(m), NEW f \in Finals, NEW j \in 1 .. 2
  PROVE  m # PartMessage(f, j)
<1> SUFFICES ASSUME m = PartMessage(f, j) PROVE FALSE
  OBVIOUS
<1>1. 1 \in DOMAIN m /\ m[1] = <<f, "part", j>>
  BY DEF PartMessage
<1> QED BY <1>1 DEF NoPart

LEMMA PlainConcat ==
  ASSUME NEW x \in Messages, NEW y \in Messages, NoPart(x), NoPart(y)
  PROVE  x \o y \in Messages /\ NoPart(x \o y)
<1> DEFINE g == x \o y
<1>1. /\ g \in Messages /\ Len(g) = Len(x) + Len(y)
      /\ \A i \in 1 .. Len(x) : g[i] = x[i]
      /\ \A i \in Len(x) + 1 .. Len(x) + Len(y) : g[i] = y[i - Len(x)]
  BY ConcatIs DEF Messages
<1> HIDE DEF g
<1>2. /\ DOMAIN g = 1 .. Len(g) /\ DOMAIN x = 1 .. Len(x) /\ DOMAIN y = 1 .. Len(y)
      /\ Len(x) \in Nat /\ Len(y) \in Nat
  BY <1>1, SeqIs DEF Messages
<1>3. ASSUME NEW i \in DOMAIN g
      PROVE  (\E k \in DOMAIN x : g[i] = x[k]) \/ (\E k \in DOMAIN y : g[i] = y[k])
  <2>1. CASE i <= Len(x)
    <3>1. i \in 1 .. Len(x)
      BY <1>1, <1>2, <2>1
    <3> QED BY <3>1, <1>1, <1>2
  <2>2. CASE i > Len(x)
    <3>1. i \in Len(x) + 1 .. Len(x) + Len(y) /\ i - Len(x) \in 1 .. Len(y)
      BY <1>1, <1>2, <2>2
    <3> QED BY <3>1, <1>1, <1>2
  <2> QED BY <2>1, <2>2, <1>1, <1>2
<1>4. NoPart(g)
  BY <1>3, Zenon DEF NoPart
<1> QED BY <1>1, <1>4 DEF g

(* What sending a final g may have made of the screen scr by its n-th      *)
(* part: up to base all is as it was, behind it nothing but parts of g,    *)
(* each once, and messages without parts.                                  *)
Progressed(base, g, scr, new, n) ==
  /\ new \in Seq(Messages) /\ base \in 0 .. Len(new) /\ base \in 0 .. Len(scr)
  /\ \A i \in 1 .. base : new[i] = scr[i]
  /\ \A i \in base + 1 .. Len(new) : NoPart(new[i]) \/ \E j \in 1 .. 2 : j <= n /\ new[i] = PartMessage(g, j)
  /\ \A i, k \in base + 1 .. Len(new) : \A j \in 1 .. 2 :
       new[i] = PartMessage(g, j) /\ new[k] = PartMessage(g, j) => i = k

LEMMA GrowMessage ==
  ASSUME NEW base, NEW g \in Finals, NEW scr, NEW new, NEW n \in 0 .. 2, NEW l \in 0 .. 2, NEW m \in Messages,
         Progressed(base, g, scr, new, l), l <= n,
         NoPart(m) \/ (l < n /\ m = PartMessage(g, n))
  PROVE  Progressed(base, g, scr, Append(new, m), n)
<1> DEFINE q == Append(new, m)
<1>1. new \in Seq(Messages) /\ base \in 0 .. Len(new) /\ base \in 0 .. Len(scr) /\ Len(new) \in Nat
  BY DEF Progressed
<1>2. q \in Seq(Messages) /\ Len(q) = Len(new) + 1 /\ q[Len(new) + 1] = m /\ \A i \in 1 .. Len(new) : q[i] = new[i]
  BY <1>1
<1> HIDE DEF q
<1>3. \A i \in 1 .. base : q[i] = scr[i]
  BY <1>1, <1>2 DEF Progressed
<1>4. ASSUME NEW i \in base + 1 .. Len(q)
      PROVE  NoPart(q[i]) \/ \E j \in 1 .. 2 : j <= n /\ q[i] = PartMessage(g, j)
  <2>1. CASE i = Len(new) + 1
    <3>1. CASE NoPart(m)
      BY <3>1, <2>1, <1>2
    <3>2. CASE l < n /\ m = PartMessage(g, n)
      <4>1. n \in 1 .. 2 /\ n <= n
        BY <3>2
      <4> QED BY <4>1, <3>2, <2>1, <1>2
    <3> QED BY <3>1, <3>2
  <2>2. CASE i # Len(new) + 1
    <3>1. i \in base + 1 .. Len(new) /\ i \in 1 .. Len(new) /\ q[i] = new[i]
      BY <2>2, <1>1, <1>2
    <3>2. NoPart(new[i]) \/ \E j \in 1 .. 2 : j <= l /\ new[i] = PartMessage(g, j)
      BY <3>1, Zenon DEF Progressed
    <3>3. CASE NoPart(new[i])
      BY <3>1, <3>3
    <3>4. ASSUME NEW j \in 1 .. 2, j <= l, new[i] = PartMessage(g, j)
          PROVE  j <= n /\ q[i] = PartMessage(g, j)
      BY <3>1, <3>4
    <3> QED BY <3>2, <3>3, <3>4, Zenon
  <2> QED BY <2>1, <2>2
<1>5. ASSUME NEW i \in base + 1 .. Len(new), NEW j \in 1 .. 2, new[i] = PartMessage(g, j)
      PROVE  j <= l
  <2>1. ~ NoPart(new[i])
    BY <1>5, PlainIsNot
  <2>2. PICK k \in 1 .. 2 : k <= l /\ new[i] = PartMessage(g, k)
    BY <2>1 DEF Progressed
  <2> QED BY <2>2, <1>5, PartsDiffer
<1>6. ASSUME NEW i \in base + 1 .. Len(new), NEW j \in 1 .. 2, new[i] = PartMessage(g, j)
      PROVE  m # PartMessage(g, j)
  <2>1. j <= l
    BY <1>5, <1>6
  <2>2. CASE NoPart(m)
    BY <2>2, PlainIsNot
  <2>3. CASE l < n /\ m = PartMessage(g, n)
    <3>1. SUFFICES ASSUME m = PartMessage(g, j) PROVE FALSE
      OBVIOUS
    <3>2. n = j
      BY <2>3, <3>1, PartsDiffer
    <3> QED BY <3>2, <2>1, <2>3
  <2> QED BY <2>2, <2>3
<1>7. ASSUME NEW i \in base + 1 .. Len(q), NEW k \in base + 1 .. Len(q), NEW j \in 1 .. 2,
             q[i] = PartMessage(g, j), q[k] = PartMessage(g, j)
      PROVE  i = k
  <2>1. \A x \in base + 1 .. Len(q) : x = Len(new) + 1 \/ (x \in base + 1 .. Len(new) /\ q[x] = new[x])
    BY <1>1, <1>2
  <2>2. CASE i = Len(new) + 1 /\ k = Len(new) + 1
    BY <2>2
  <2>3. CASE i = Len(new) + 1 /\ k \in base + 1 .. Len(new) /\ q[k] = new[k]
    BY <2>3, <1>6, <1>7, <1>2
  <2>4. CASE k = Len(new) + 1 /\ i \in base + 1 .. Len(new) /\ q[i] = new[i]
    BY <2>4, <1>6, <1>7, <1>2
  <2>5. CASE k \in base + 1 .. Len(new) /\ q[k] = new[k] /\ i \in base + 1 .. Len(new) /\ q[i] = new[i]
    BY <2>5, <1>7, Zenon DEF Progressed
  <2> QED BY <2>1, <2>2, <2>3, <2>4, <2>5, Zenon
<1>8. base \in 0 .. Len(q)
  BY <1>1, <1>2
<1>9. Progressed(base, g, scr, q, n)
  BY <1>1, <1>2, <1>3, <1>4, <1>7, <1>8, Zenon DEF Progressed
<1> QED BY <1>9 DEF q

LEMMA MoreParts ==
  ASSUME NEW base, NEW g, NEW scr, NEW new, NEW n \in 0 .. 2, NEW l \in 0 .. 2,
         Progressed(base, g, scr, new, l), l <= n
  PROVE  Progressed(base, g, scr, new, n)
<1>1. ASSUME NEW i \in base + 1 .. Len(new)
      PROVE  NoPart(new[i]) \/ \E j \in 1 .. 2 : j <= n /\ new[i] = PartMessage(g, j)
  <2>1. NoPart(new[i]) \/ \E j \in 1 .. 2 : j <= l /\ new[i] = PartMessage(g, j)
    BY Zenon DEF Progressed
  <2>2. \A j \in 1 .. 2 : j <= l => j <= n
    OBVIOUS
  <2> QED BY <2>1, <2>2, Zenon
<1> QED BY <1>1, Zenon DEF Progressed

(* The streamed message is the last: the first part may take its place.    *)
LEMMA TakeOver ==
  ASSUME NEW scr \in Seq(Messages), NEW at \in 1 .. Len(scr), at = Len(scr),
         NEW g \in Finals, NEW n \in 1 .. 2
  PROVE  Progressed(at - 1, g, scr, [scr EXCEPT ![at] = PartMessage(g, n)], n)
<1> DEFINE q == [scr EXCEPT ![at] = PartMessage(g, n)]
<1>1. PartMessage(g, n) \in Messages
  BY SingleIs
<1>2. Len(scr) \in Nat
  OBVIOUS
<1>3. /\ q \in Seq(Messages) /\ Len(q) = Len(scr) /\ q[at] = PartMessage(g, n)
      /\ \A i \in 1 .. Len(scr) : i # at => q[i] = scr[i]
  BY <1>1
<1> HIDE DEF q
<1>4. \A i \in (at - 1) + 1 .. Len(q) : i = at
  BY <1>2, <1>3
<1>5. \A i \in 1 .. at - 1 : q[i] = scr[i]
  BY <1>2, <1>3
<1>6. n <= n /\ at - 1 \in 0 .. Len(q) /\ at - 1 \in 0 .. Len(scr)
  BY <1>2, <1>3
<1>7. Progressed(at - 1, g, scr, q, n)
  BY <1>3, <1>4, <1>5, <1>6, Zenon DEF Progressed
<1> QED BY <1>7 DEF q

-----------------------------------------------------------------------------
(* Sending a final: the streamed message is the last and holds no part.    *)
StreamFits ==
  /\ screen \in Seq(Messages) /\ stream \in {0, Len(screen)}
  /\ stream # 0 => NoPart(screen[stream])
Base == IF stream # 0 THEN stream - 1 ELSE Len(screen)
Sending(p, g, n) ==
  /\ p = Progress(p.screen, p.edit, p.ok, p.faults) /\ p.ok \in BOOLEAN
  /\ p.edit \in {0, stream} /\ (p.edit # 0 => n = 0 /\ p.ok /\ p.screen = screen)
  /\ Progressed(Base, g, screen, p.screen, n)

LEMMA ProgressIs ==
  ASSUME NEW x, NEW e, NEW k, NEW n, NEW p, p = Progress(x, e, k, n)
  PROVE  p.screen = x /\ p.edit = e /\ p.ok = k /\ p.faults = n
BY DEF Progress

LEMMA SendingStarts ==
  ASSUME StreamFits, NEW g
  PROVE  Sending(Progress(screen, stream, TRUE, faults), g, 0)
<1> DEFINE p == Progress(screen, stream, TRUE, faults)
<1>1. p.screen = screen /\ p.edit = stream /\ p.ok = TRUE /\ p.faults = faults
  BY DEF Progress
<1>2. Len(screen) \in Nat /\ screen \in Seq(Messages) /\ stream \in {0, Len(screen)}
  BY DEF StreamFits
<1>3. Base \in 0 .. Len(screen)
  BY <1>2 DEF Base
<1>4. ASSUME NEW i \in Base + 1 .. Len(screen) PROVE i = Len(screen) /\ NoPart(screen[i])
  <2>1. stream # 0 /\ i = Len(screen) /\ i = stream
    BY <1>2 DEF Base
  <2> QED BY <2>1 DEF StreamFits
<1>5. ASSUME NEW i \in Base + 1 .. Len(screen), NEW k \in Base + 1 .. Len(screen) PROVE i = k
  BY <1>4
<1>6. Progressed(Base, g, screen, screen, 0)
  BY <1>2, <1>3, <1>4, <1>5, Zenon DEF Progressed
<1> HIDE DEF p
<1>7. p = Progress(p.screen, p.edit, p.ok, p.faults)
  BY <1>1, Zenon DEF p
<1>8. Sending(p, g, 0)
  BY <1>1, <1>2, <1>6, <1>7 DEF Sending
<1> QED BY <1>8 DEF p

LEMMA SendTextIs ==
  ASSUME NEW p, NEW text, NEW q \in SendText(p, text)
  PROVE  \/ ~p.ok /\ q = p
         \/ \E o \in Outcomes :
              /\ p.ok
              /\ q.edit = 0 /\ q.ok \in BOOLEAN /\ q = Progress(q.screen, q.edit, q.ok, q.faults)
              /\ q.screen = IF ~o.shown THEN p.screen
                            ELSE IF p.edit # 0 THEN [p.screen EXCEPT ![p.edit] = <<text>>]
                            ELSE Append(p.screen, <<text>>)
<1>1. CASE ~p.ok
  BY <1>1 DEF SendText
<1>2. CASE p.ok
  <2> DEFINE scr(o) == IF ~o.shown THEN p.screen
                       ELSE IF p.edit # 0 THEN [p.screen EXCEPT ![p.edit] = <<text>>]
                       ELSE Append(p.screen, <<text>>)
  <2> DEFINE to(o) == Progress(scr(o), 0, o.ok \/ p.edit # 0, p.faults + Cost(o))
  <2> DEFINE all == IF p.edit # 0 THEN EditOutcomes ELSE NewOutcomes
  <2>1. SendText(p, text) = {to(o) : o \in all}
    BY <1>2 DEF SendText
  <2>2. all \subseteq Outcomes
    BY OutcomesAre DEF EditOutcomes, NewOutcomes
  <2> HIDE DEF all, to
  <2>3. PICK o \in Outcomes : q = to(o)
    BY <2>1, <2>2
  <2> HIDE DEF scr
  <2>4. q = Progress(scr(o), 0, o.ok \/ p.edit # 0, p.faults + Cost(o))
    BY <2>3 DEF to
  <2>5. q.screen = scr(o) /\ q.edit = 0 /\ q.ok = (o.ok \/ p.edit # 0) /\ q.faults = p.faults + Cost(o)
    BY <2>4, ProgressIs
  <2>6. q = Progress(q.screen, q.edit, q.ok, q.faults)
    BY <2>4, <2>5, Zenon
  <2>7. o.ok \in BOOLEAN
    BY DEF Outcomes
  <2>8. q.ok \in BOOLEAN
    BY <2>5, <2>7, Zenon
  <2> QED BY <1>2, <2>5, <2>6, <2>8, Zenon DEF scr
<1> QED BY <1>1, <1>2, Zenon

LEMMA PartSends ==
  ASSUME StreamFits, NEW g \in Finals, NEW n \in 1 .. 2, NEW p, Sending(p, g, n - 1),
         NEW q \in SendText(p, <<g, "part", n>>)
  PROVE  Sending(q, g, n)
<1>0. n - 1 \in 0 .. 2 /\ n \in 0 .. 2 /\ n - 1 < n /\ n - 1 <= n /\ n <= n /\ n # 0
  OBVIOUS
<1>1. CASE ~p.ok /\ q = p
  <2>1. p.edit = 0
    BY <1>1 DEF Sending
  <2>2. Progressed(Base, g, screen, p.screen, n)
    BY <1>0, MoreParts DEF Sending
  <2> QED BY <1>1, <2>1, <2>2 DEF Sending
<1>2. ASSUME NEW o \in Outcomes, p.ok, q.edit = 0, q.ok \in BOOLEAN, q = Progress(q.screen, q.edit, q.ok, q.faults),
             q.screen = IF ~o.shown THEN p.screen
                        ELSE IF p.edit # 0 THEN [p.screen EXCEPT ![p.edit] = <<<<g, "part", n>>>>]
                        ELSE Append(p.screen, <<<<g, "part", n>>>>)
      PROVE  Sending(q, g, n)
  <2>1. CASE ~o.shown
    <3>1. Progressed(Base, g, screen, q.screen, n)
      BY <1>0, <1>2, <2>1, MoreParts DEF Sending
    <3> QED BY <1>2, <3>1, Zenon DEF Sending
  <2>2. CASE o.shown /\ p.edit # 0
    <3>1. p.edit = stream /\ stream # 0 /\ p.screen = screen
      BY <2>2 DEF Sending
    <3>2. screen \in Seq(Messages) /\ stream = Len(screen) /\ Len(screen) \in Nat
      BY <3>1 DEF StreamFits
    <3>3. stream \in 1 .. Len(screen)
      BY <3>1, <3>2
    <3>4. Progressed(Base, g, screen, [screen EXCEPT ![stream] = PartMessage(g, n)], n)
      <4>1. Base = stream - 1
        BY <3>1 DEF Base
      <4> QED BY <4>1, <3>2, <3>3, TakeOver
    <3>5. q.screen = [screen EXCEPT ![stream] = PartMessage(g, n)]
      BY <1>2, <2>2, <3>1 DEF PartMessage
    <3> QED BY <1>2, <3>4, <3>5, Zenon DEF Sending
  <2>3. CASE o.shown /\ p.edit = 0
    <3>1. q.screen = Append(p.screen, PartMessage(g, n))
      BY <1>2, <2>3 DEF PartMessage
    <3>2. PartMessage(g, n) \in Messages
      BY SingleIs
    <3>3. Progressed(Base, g, screen, p.screen, n - 1)
      BY DEF Sending
    <3>4. Progressed(Base, g, screen, q.screen, n)
      BY <1>0, <3>1, <3>2, <3>3, GrowMessage
    <3> QED BY <1>2, <3>4, Zenon DEF Sending
  <2> QED BY <2>1, <2>2, <2>3, Zenon
<1> QED BY <1>1, <1>2, SendTextIs, Zenon

(* A message without parts, sent once the streamed message is let go.      *)
LEMMA OtherSends ==
  ASSUME NEW g \in Finals, NEW tok \in Tokens, NoPart(<<tok>>), NEW p, Sending(p, g, 1),
         NEW q \in SendText(p, tok)
  PROVE  Sending(q, g, 1)
<1>1. CASE ~p.ok /\ q = p
  BY <1>1
<1>2. ASSUME NEW o \in Outcomes, p.ok, q.edit = 0, q.ok \in BOOLEAN, q = Progress(q.screen, q.edit, q.ok, q.faults),
             q.screen = IF ~o.shown THEN p.screen
                        ELSE IF p.edit # 0 THEN [p.screen EXCEPT ![p.edit] = <<tok>>]
                        ELSE Append(p.screen, <<tok>>)
      PROVE  Sending(q, g, 1)
  <2>1. p.edit = 0 /\ Progressed(Base, g, screen, p.screen, 1)
    BY DEF Sending
  <2>2. <<tok>> \in Messages
    BY DEF Messages
  <2>3. CASE ~o.shown
    BY <1>2, <2>1, <2>3, Zenon DEF Sending
  <2>4. CASE o.shown
    <3>1. q.screen = Append(p.screen, <<tok>>)
      BY <1>2, <2>1, <2>4
    <3>2. 1 \in 0 .. 2 /\ 1 <= 1
      OBVIOUS
    <3>3. Progressed(Base, g, screen, Append(p.screen, <<tok>>), 1)
      BY <2>1, <2>2, <3>2, GrowMessage, Zenon
    <3> QED BY <1>2, <3>1, <3>3, Zenon DEF Sending
  <2> QED BY <2>3, <2>4
<1> QED BY <1>1, <1>2, SendTextIs, Zenon

LEMMA OthersAre ==
  ASSUME NEW g \in Finals, NEW kind \in {"piece", "file", "failure"}, NEW n \in Nat
  PROVE  <<g, kind, n>> \in Tokens /\ NoPart(<<<<g, kind, n>>>>) /\ <<<<g, kind, n>>>> \in Messages
<1>1. <<g, kind, n>> \in Tokens
  BY DEF Tokens
<1> DEFINE m == <<<<g, kind, n>>>>
<1>2. \A i \in DOMAIN m : m[i] = <<g, kind, n>>
  OBVIOUS
<1> HIDE DEF m
<1>3. \A f, j : <<f, "part", j>> # <<g, kind, n>>
  OBVIOUS
<1>4. NoPart(m)
  BY <1>2, <1>3, Zenon DEF NoPart
<1> QED BY <1>1, <1>4 DEF m, Messages

LEMMA ChangesSend ==
  ASSUME NEW g, NEW p, Sending(p, g, 1), NEW scr, Progressed(Base, g, screen, scr, 1),
         NEW k \in BOOLEAN, NEW n, NEW q, q = Progress(scr, p.edit, k, n)
  PROVE  Sending(q, g, 1)
<1>1. p.edit = 0
  BY DEF Sending
<1>2. q.screen = scr /\ q.edit = 0 /\ q.ok = k /\ q.faults = n
  BY <1>1, ProgressIs
<1>3. q = Progress(q.screen, q.edit, q.ok, q.faults)
  BY <1>1, <1>2, Zenon
<1> QED BY <1>2, <1>3 DEF Sending

LEMMA FileSends ==
  ASSUME NEW g \in Finals, NEW p, Sending(p, g, 1), NEW r \in SendFile(p, g)
  PROVE  Sending(r, g, 1)
<1> DEFINE shown(x)  == Progress(Append(x.screen, <<<<g, "file", 1>>>>), x.edit, x.ok, x.faults)
           failed(x) == Progress(x.screen, x.edit, FALSE, x.faults + 1)
           anew(x)   == Progress(x.screen, x.edit, TRUE, x.faults)
           try(x)    == {shown(x), failed(x), failed(shown(x))}
           again(x)  == IF x.ok THEN {x} ELSE try(anew(x))
           told(x)   == IF x.ok THEN {x} ELSE SendText(anew(x), <<g, "failure", 1>>)
<1>1. ASSUME NEW x, Sending(x, g, 1)
      PROVE  Sending(shown(x), g, 1) /\ Sending(failed(x), g, 1) /\ Sending(anew(x), g, 1)
  <2>1. NoPart(<<<<g, "file", 1>>>>) /\ <<<<g, "file", 1>>>> \in Messages
    BY OthersAre
  <2>2. Progressed(Base, g, screen, x.screen, 1) /\ x.ok \in BOOLEAN
    BY <1>1, Zenon DEF Sending
  <2>3. 1 \in 0 .. 2 /\ 1 <= 1
    OBVIOUS
  <2>4. Progressed(Base, g, screen, Append(x.screen, <<<<g, "file", 1>>>>), 1)
    BY <2>1, <2>2, <2>3, GrowMessage, Zenon
  <2>5. Sending(shown(x), g, 1)
    BY <1>1, <2>2, <2>4, ChangesSend, Zenon
  <2>6. Sending(failed(x), g, 1) /\ Sending(anew(x), g, 1)
    BY <1>1, <2>2, ChangesSend, Zenon
  <2> QED BY <2>5, <2>6
<1>2. ASSUME NEW x, Sending(x, g, 1), NEW y \in try(x) PROVE Sending(y, g, 1)
  <2>1. y = shown(x) \/ y = failed(x) \/ y = failed(shown(x))
    OBVIOUS
  <2> HIDE DEF shown, failed
  <2> QED BY <2>1, <1>1, <1>2, Zenon
<1>3. ASSUME NEW x, Sending(x, g, 1), NEW y \in again(x) PROVE Sending(y, g, 1)
  <2> HIDE DEF try, anew
  <2>1. y = x \/ y \in try(anew(x))
    BY <1>3
  <2> QED BY <2>1, <1>1, <1>2, <1>3, Zenon
<1>4. ASSUME NEW x, Sending(x, g, 1), NEW y \in told(x) PROVE Sending(y, g, 1)
  <2> HIDE DEF anew
  <2>1. y = x \/ y \in SendText(anew(x), <<g, "failure", 1>>)
    BY <1>4
  <2>2. <<g, "failure", 1>> \in Tokens /\ NoPart(<<<<g, "failure", 1>>>>)
    BY OthersAre
  <2> QED BY <2>1, <2>2, <1>1, <1>4, OtherSends, Zenon
<1>5. SendFile(p, g) = UNION {told(x) : x \in UNION {again(q) : q \in try(p)}}
  BY DEF SendFile
<1> HIDE DEF try, again, told
<1>6. \E q \in try(p) : \E x \in again(q) : r \in told(x)
  BY <1>5
<1> QED BY <1>2, <1>3, <1>4, <1>6, Zenon

(* The texts of a final, sent one after the other from S.                  *)
After(texts, n, S) == UNION {SendText(p, texts[n]) : p \in S}

LEMMA TextsAre ==
  ASSUME NEW at, NEW texts, Len(texts) \in 0 .. 2
  PROVE  SendTexts(at, texts) = IF Len(texts) = 0 THEN {at}
                                ELSE IF Len(texts) = 1 THEN After(texts, 1, {at})
                                ELSE After(texts, 2, After(texts, 1, {at}))
<1> DEFINE L == Len(texts)
<1> DEFINE F(f) == [n \in 0 .. Len(texts) |->
                      IF n = 0 THEN {at} ELSE UNION {SendText(p, texts[n]) : p \in f[n - 1]}]
<1> DEFINE G(f) == [n \in 0 .. L |-> IF n = 0 THEN {at} ELSE After(texts, n, f[n - 1])]
<1>1. \A f : F(f) = G(f)
  BY DEF After
<1> DEFINE g == [n \in 0 .. L |-> IF n = 0 THEN {at} ELSE IF n = 1 THEN After(texts, 1, {at})
                                  ELSE After(texts, 2, After(texts, 1, {at}))]
<1> HIDE DEF F, L
<1>2. L \in 0 .. 2
  BY DEF L
<1>3. G(g) = g
  <2>1. ASSUME NEW n \in 0 .. L PROVE G(g)[n] = g[n]
    <3>1. n = 0 \/ n = 1 \/ n = 2
      BY <1>2
    <3>2. CASE n = 0
      BY <3>2
    <3>3. CASE n = 1
      <4>1. g[0] = {at} /\ g[1] = After(texts, 1, {at})
        BY <1>2, <3>3
      <4>2. n # 0 /\ n - 1 = 0
        BY <3>3
      <4> HIDE DEF g
      <4>3. G(g)[n] = After(texts, n, g[n - 1])
        BY <4>2
      <4> HIDE DEF G
      <4> QED BY <4>1, <4>2, <4>3, <3>3, Zenon
    <3>4. CASE n = 2
      <4>1. g[1] = After(texts, 1, {at}) /\ g[2] = After(texts, 2, After(texts, 1, {at}))
        BY <1>2, <3>4
      <4>2. n # 0 /\ n - 1 = 1
        BY <3>4
      <4> HIDE DEF g
      <4>3. G(g)[n] = After(texts, n, g[n - 1])
        BY <4>2
      <4> HIDE DEF G
      <4> QED BY <4>1, <4>2, <4>3, <3>4, Zenon
    <3> QED BY <3>1, <3>2, <3>3, <3>4, Zenon
  <2>2. g = [n \in 0 .. L |-> g[n]]
    OBVIOUS
  <2> HIDE DEF g
  <2>3. G(g) = [n \in 0 .. L |-> G(g)[n]]
    OBVIOUS
  <2> QED BY <2>1, <2>2, <2>3
<1> DEFINE h == CHOOSE f : f = F(f)
<1>4. h = F(h)
  <2>1. g = F(g)
    BY <1>1, <1>3, Zenon
  <2> HIDE DEF g
  <2> QED BY <2>1, Zenon
<1>5. h = G(h)
  <2> HIDE DEF h, G
  <2> QED BY <1>4, <1>1, Zenon
<1>6. SendTexts(at, texts) = h[L]
  BY Zenon DEF SendTexts, F, L
<1> HIDE DEF h
<1>7. ASSUME NEW n \in 0 .. L PROVE h[n] = IF n = 0 THEN {at} ELSE After(texts, n, h[n - 1])
  <2>1. G(h)[n] = IF n = 0 THEN {at} ELSE After(texts, n, h[n - 1])
    OBVIOUS
  <2> HIDE DEF G
  <2> QED BY <2>1, <1>5, Zenon
<1>8. h[0] = {at}
  <2>1. 0 \in 0 .. L
    BY <1>2
  <2> QED BY <1>7, <2>1, Zenon
<1>9. ASSUME L \in 1 .. 2 PROVE h[1] = After(texts, 1, {at})
  <2>1. 1 \in 0 .. L /\ 1 # 0 /\ 1 - 1 = 0
    BY <1>9
  <2>2. h[1] = After(texts, 1, h[1 - 1])
    BY <1>7, <2>1, Zenon
  <2> QED BY <2>1, <2>2, <1>8, Zenon
<1>10. ASSUME L = 2 PROVE h[2] = After(texts, 2, After(texts, 1, {at}))
  <2>1. 2 \in 0 .. L /\ 2 # 0 /\ 2 - 1 = 1 /\ L \in 1 .. 2
    BY <1>10
  <2>2. h[2] = After(texts, 2, h[2 - 1])
    BY <1>7, <2>1, Zenon
  <2> QED BY <2>1, <2>2, <1>9, Zenon
<1>11. L = 0 \/ L = 1 \/ L = 2
  BY <1>2
<1>12. L = 1 => L # 0 /\ L \in 1 .. 2
  OBVIOUS
<1>13. L = 2 => L # 0 /\ L # 1
  OBVIOUS
<1> HIDE DEF L
<1>14. SendTexts(at, texts) = IF L = 0 THEN {at} ELSE IF L = 1 THEN After(texts, 1, {at})
                              ELSE After(texts, 2, After(texts, 1, {at}))
  BY <1>6, <1>8, <1>9, <1>10, <1>11, <1>12, <1>13, Zenon
<1> QED BY <1>14 DEF L

(* The texts of a final are its parts.                                     *)
LEMMA FinalIs ==
  ASSUME NEW g, NEW k \in FinalKinds, NEW a
  PROVE  /\ FinalOf(g, k, a).stage = k /\ FinalOf(g, k, a).of = g /\ FinalOf(g, k, a).account = a
         /\ Len(FinalOf(g, k, a).text) \in 0 .. 2 /\ (k = "file" => Len(FinalOf(g, k, a).text) = 1)
         /\ \A n \in 1 .. Len(FinalOf(g, k, a).text) : FinalOf(g, k, a).text[n] = <<g, "part", n>>
<1> DEFINE c == CASE k = "silent" -> 0 [] k = "long" -> 2 [] OTHER -> 1
<1>1. c \in 0 .. 2 /\ (k = "file" => c = 1)
  OBVIOUS
<1> DEFINE x == [i \in 1 .. c |-> <<g, "part", i>>]
<1>2. FinalOf(g, k, a) = [stage |-> k, of |-> g, account |-> a, text |-> x]
  BY Zenon DEF FinalOf
<1> HIDE DEF c
<1>3. Len(x) = c /\ \A n \in 1 .. c : x[n] = <<g, "part", n>>
  BY <1>1
<1> HIDE DEF x
<1> QED BY <1>1, <1>2, <1>3

LEMMA TextsSend ==
  ASSUME StreamFits, NEW g \in Finals, NEW k \in FinalKinds, NEW a,
         NEW r \in SendTexts(Progress(screen, stream, TRUE, faults), FinalOf(g, k, a).text)
  PROVE  /\ r.ok \in BOOLEAN /\ Progressed(Base, g, screen, r.screen, 2)
         /\ k = "file" => Sending(r, g, 1)
<1> DEFINE at == Progress(screen, stream, TRUE, faults) texts == FinalOf(g, k, a).text
<1>1. /\ Len(texts) \in 0 .. 2 /\ (k = "file" => Len(texts) = 1)
      /\ \A n \in 1 .. Len(texts) : texts[n] = <<g, "part", n>>
  <2> HIDE DEF at
  <2>1. Len(texts) \in 0 .. 2
    BY FinalIs
  <2>2. k = "file" => Len(texts) = 1
    BY FinalIs
  <2>3. \A n \in 1 .. Len(texts) : texts[n] = <<g, "part", n>>
    BY FinalIs
  <2> QED BY <2>1, <2>2, <2>3
<1>2. Sending(at, g, 0)
  BY SendingStarts
<1>3. r \in SendTexts(at, texts)
  OBVIOUS
<1> HIDE DEF at, texts
<1>4. ASSUME NEW n \in 0 .. 2, Sending(r, g, n)
      PROVE  r.ok \in BOOLEAN /\ Progressed(Base, g, screen, r.screen, 2)
  BY <1>4, MoreParts DEF Sending
<1>5. CASE Len(texts) = 0
  <2>1. k # "file"
    BY <1>1, <1>5
  <2>2. SendTexts(at, texts) = {at}
    BY <1>1, <1>5, TextsAre
  <2>3. r = at
    BY <1>3, <2>2
  <2> QED BY <2>1, <2>3, <1>2, <1>4
<1>6. ASSUME Len(texts) \in 1 .. 2, NEW x, x \in After(texts, 1, {at}) PROVE Sending(x, g, 1)
  <2>1. x \in SendText(at, <<g, "part", 1>>)
    BY <1>1, <1>6 DEF After
  <2>2. 1 \in 1 .. 2 /\ 1 - 1 = 0
    OBVIOUS
  <2> QED BY <2>1, <2>2, <1>2, PartSends
<1>7. CASE Len(texts) = 1
  <2>1. r \in After(texts, 1, {at})
    BY <1>3, <1>7, TextsAre
  <2> QED BY <2>1, <1>4, <1>6, <1>7
<1>8. CASE Len(texts) = 2
  <2>1. r \in After(texts, 2, After(texts, 1, {at})) /\ k # "file"
    BY <1>1, <1>3, <1>8, TextsAre
  <2>2. PICK x \in After(texts, 1, {at}) : r \in SendText(x, texts[2])
    BY <2>1, Zenon DEF After
  <2>3. Sending(x, g, 1) /\ texts[2] = <<g, "part", 2>>
    BY <1>1, <1>6, <1>8
  <2>4. 2 \in 1 .. 2 /\ 2 - 1 = 1
    OBVIOUS
  <2>5. Sending(r, g, 2)
    BY <2>2, <2>3, <2>4, PartSends
  <2> QED BY <2>1, <2>5, <1>4
<1> QED BY <1>1, <1>5, <1>7, <1>8

-----------------------------------------------------------------------------
(* The inductive invariant: the draft and the streamed message hold no     *)
(* part and the streamed message is the last; a final is dispatched once,  *)
(* and a turn's only after its end; the parts of the screen stand in the   *)
(* order of the log, each once.                                            *)
Chunks == {c \in [stage : {"chunk"}, of : Turns, account : {"bot"}, text : Messages] : NoPart(c.text)}
FinalMessages == {FinalOf(f, k, a) : f \in Finals, k \in FinalKinds, a \in {"bot", "other", NoAccount}}
Entries == [of : Finals, ok : BOOLEAN, stage : FinalKinds \cup {"dropped"}]
TurnStages == {"new", "queued", "running", "ended", "replied"}

DelTypes ==
  /\ turns \in [Turns -> TurnStages] /\ pieces \in [Turns -> Nat]
  /\ out \in Seq(Chunks \cup FinalMessages) /\ log \in Seq(Entries)
  /\ draft \in Messages /\ NoPart(draft) /\ StreamFits

(* The finals that have been published.                                    *)
IsFinal(m) == m.stage # "chunk"
EachFinalOnce ==
  /\ \A i, j \in DOMAIN out : IsFinal(out[i]) /\ IsFinal(out[j]) /\ out[i].of = out[j].of => i = j
  /\ \A i, j \in DOMAIN log : log[i].of = log[j].of => i = j
  /\ \A i \in DOMAIN out, j \in DOMAIN log : IsFinal(out[i]) => out[i].of # log[j].of
RepliesOnce ==
  \A t \in Turns : turns[t] # "replied" =>
    /\ \A i \in DOMAIN out : IsFinal(out[i]) => out[i].of # t
    /\ \A i \in DOMAIN log : log[i].of # t
PartsLogged ==
  \A i \in DOMAIN screen : \/ NoPart(screen[i])
                          \/ \E k \in DOMAIN log, j \in 1 .. 2 : screen[i] = PartMessage(log[k].of, j)
LogOrder ==
  \A k, l \in DOMAIN log : k < l =>
    \A i \in PlacesIn(screen, log[k].of), j \in PlacesIn(screen, log[l].of) : i < j
PartsOnce ==
  \A i, k \in DOMAIN screen : \A f \in Finals, j \in 1 .. 2 :
    screen[i] = PartMessage(f, j) /\ screen[k] = PartMessage(f, j) => i = k

DelInv == DelTypes /\ EachFinalOnce /\ RepliesOnce /\ PartsLogged /\ LogOrder /\ PartsOnce

LEMMA MessageKinds ==
  /\ \A m \in Chunks : ~IsFinal(m) /\ m.of \in Turns /\ m.text \in Messages /\ NoPart(m.text)
  /\ \A m \in FinalMessages : IsFinal(m) /\ m.of \in Finals
  /\ \A f \in Finals, k \in FinalKinds, a \in {"bot", "other", NoAccount} :
       FinalOf(f, k, a) \in FinalMessages /\ IsFinal(FinalOf(f, k, a)) /\ FinalOf(f, k, a).of = f
<1>1. \A m \in Chunks : ~IsFinal(m) /\ m.of \in Turns /\ m.text \in Messages /\ NoPart(m.text)
  BY DEF Chunks, IsFinal
<1>2. ASSUME NEW f \in Finals, NEW k \in FinalKinds, NEW a
      PROVE  IsFinal(FinalOf(f, k, a)) /\ FinalOf(f, k, a).of = f
  <2>1. FinalOf(f, k, a).stage = k /\ FinalOf(f, k, a).of = f
    BY FinalIs
  <2> QED BY <2>1 DEF IsFinal, FinalKinds
<1>3. \A m \in FinalMessages : \E f \in Finals, k \in FinalKinds, a \in {"bot", "other", NoAccount} : m = FinalOf(f, k, a)
  BY DEF FinalMessages
<1>4. \A f \in Finals, k \in FinalKinds, a \in {"bot", "other", NoAccount} : FinalOf(f, k, a) \in FinalMessages
  BY DEF FinalMessages
<1>5. ASSUME NEW m \in FinalMessages PROVE IsFinal(m) /\ m.of \in Finals
  <2>1. PICK f \in Finals, k \in FinalKinds, a \in {"bot", "other", NoAccount} : m = FinalOf(f, k, a)
    BY <1>3
  <2> QED BY <2>1, <1>2
<1> QED BY <1>1, <1>2, <1>4, <1>5

(* A message at the end of the queue.                                      *)
LEMMA PublishIs ==
  ASSUME DelInv, NEW m, out' = Append(out, m)
  PROVE  /\ Len(out) \in Nat /\ DOMAIN out = 1 .. Len(out) /\ DOMAIN out' = 1 .. Len(out) + 1
         /\ out'[Len(out) + 1] = m /\ \A i \in DOMAIN out : out'[i] = out[i]
         /\ m \in Chunks \cup FinalMessages => out' \in Seq(Chunks \cup FinalMessages)
BY DEF DelInv, DelTypes

(* The log and the screen are left alone.                                  *)
LEMMA ScreenStays ==
  ASSUME DelInv, UNCHANGED <<screen, log, stream>>
  PROVE  /\ StreamFits' /\ PartsLogged' /\ LogOrder' /\ PartsOnce'
         /\ \A i, j \in DOMAIN log' : log'[i].of = log'[j].of => i = j
BY DEF DelInv, DelTypes, EachFinalOnce, StreamFits, PartsLogged, LogOrder, PartsOnce

LEMMA InitDel == DeliveryInit => DelInv
<1> SUFFICES ASSUME DeliveryInit PROVE DelInv
  OBVIOUS
<1> USE DEF DeliveryInit
<1>1. screen = <<>> /\ log = <<>> /\ out = <<>> /\ draft = <<>> /\ stream = 0
  OBVIOUS
<1>2. StreamFits
  BY <1>1 DEF StreamFits
<1>3. NoPart(draft) /\ draft \in Messages
  BY <1>1 DEF NoPart, Messages
<1>4. DelTypes
  BY <1>1, <1>2, <1>3 DEF DelTypes, TurnStages
<1>5. EachFinalOnce /\ RepliesOnce /\ PartsLogged /\ LogOrder /\ PartsOnce
  BY <1>1 DEF EachFinalOnce, RepliesOnce, PartsLogged, LogOrder, PartsOnce
<1> QED BY <1>4, <1>5 DEF DelInv

-----------------------------------------------------------------------------
(* The steps.                                                              *)
LEMMA TurnMoves ==
  ASSUME DelInv, UNCHANGED <<out, pieces, draft, stream, screen, log>>,
         turns' \in [Turns -> TurnStages], \A t \in Turns : turns'[t] # "replied" => turns[t] # "replied"
  PROVE  DelInv'
<1>1. DelTypes'
  BY DEF DelInv, DelTypes, StreamFits
<1>2. EachFinalOnce'
  BY DEF DelInv, EachFinalOnce
<1>3. RepliesOnce'
  BY DEF DelInv, RepliesOnce
<1>4. PartsLogged' /\ LogOrder' /\ PartsOnce'
  BY ScreenStays
<1> QED BY <1>1, <1>2, <1>3, <1>4 DEF DelInv

LEMMA QuietInv ==
  ASSUME DelInv,
         (\E t \in Turns : Arrive(t) \/ Begin(t) \/ End(t)) \/ SendTyping \/ InsertTyping \/ UNCHANGED dVars
  PROVE  DelInv'
<1>1. turns \in [Turns -> TurnStages]
  BY DEF DelInv, DelTypes
<1>2. ASSUME NEW t \in Turns, NEW v \in TurnStages \ {"replied"}, turns[t] # "replied", turns' = [turns EXCEPT ![t] = v],
             UNCHANGED <<out, pieces, draft, stream, screen, log>>
      PROVE  DelInv'
  <2>1. turns' \in [Turns -> TurnStages] /\ \A u \in Turns : turns'[u] # "replied" => turns[u] # "replied"
    BY <1>1, <1>2
  <2> QED BY <2>1, <1>2, TurnMoves
<1>3. ASSUME NEW t \in Turns, Arrive(t) PROVE DelInv'
  <2>1. /\ turns[t] = "new" /\ turns' = [turns EXCEPT ![t] = "queued"]
        /\ UNCHANGED <<out, pieces, draft, stream, screen, log>>
    BY <1>3 DEF Arrive, chatVars
  <2> QED BY <2>1, <1>2 DEF TurnStages
<1>4. ASSUME NEW t \in Turns, Begin(t) PROVE DelInv'
  <2>1. /\ turns[t] = "queued" /\ turns' = [turns EXCEPT ![t] = "running"]
        /\ UNCHANGED <<out, pieces, draft, stream, screen, log>>
    BY <1>4 DEF Begin, chatVars
  <2> QED BY <2>1, <1>2 DEF TurnStages
<1>5. ASSUME NEW t \in Turns, End(t) PROVE DelInv'
  <2>1. /\ turns[t] = "running" /\ turns' = [turns EXCEPT ![t] = "ended"]
        /\ UNCHANGED <<out, pieces, draft, stream, screen, log>>
    BY <1>5 DEF End, chatVars
  <2> QED BY <2>1, <1>2 DEF TurnStages
<1>6. ASSUME UNCHANGED <<turns, out, pieces, draft, stream, screen, log>> PROVE DelInv'
  BY <1>1, <1>6, TurnMoves
<1>7. CASE SendTyping
  BY <1>6, <1>7 DEF SendTyping
<1>8. CASE InsertTyping
  BY <1>6, <1>8 DEF InsertTyping
<1>9. CASE UNCHANGED dVars
  BY <1>6, <1>9 DEF dVars
<1> QED BY <1>3, <1>4, <1>5, <1>7, <1>8, <1>9

LEMMA StreamInv == ASSUME DelInv, NEW t \in Turns, Stream(t) PROVE DelInv'
<1> DEFINE m == [stage |-> "chunk", of |-> t, account |-> "bot", text |-> <<<<t, "piece", pieces[t] + 1>>>>]
<1>1. out' = Append(out, m) /\ UNCHANGED <<turns, draft, stream, screen, log>>
  BY DEF Stream, Publish, chatVars
<1>2. pieces[t] \in Nat /\ pieces' \in [Turns -> Nat]
  BY DEF DelInv, DelTypes, Stream
<1>3. m \in Chunks
  <2> DEFINE n == pieces[t] + 1
  <2>1. n \in Nat /\ t \in Finals
    BY <1>2 DEF Finals
  <2> HIDE DEF n
  <2>2. NoPart(<<<<t, "piece", n>>>>) /\ <<<<t, "piece", n>>>> \in Messages
    BY <2>1, OthersAre
  <2>3. [stage |-> "chunk", of |-> t, account |-> "bot", text |-> <<<<t, "piece", n>>>>] \in Chunks
    BY <2>2 DEF Chunks
  <2> QED BY <2>3 DEF n
<1>4. ~IsFinal(m)
  BY <1>3, MessageKinds
<1> HIDE DEF m
<1>5. /\ Len(out) \in Nat /\ DOMAIN out = 1 .. Len(out) /\ DOMAIN out' = 1 .. Len(out) + 1
      /\ out'[Len(out) + 1] = m /\ \A i \in DOMAIN out : out'[i] = out[i]
      /\ out' \in Seq(Chunks \cup FinalMessages)
  BY <1>1, <1>3, PublishIs
<1>6. DelTypes'
  BY <1>1, <1>2, <1>5, ScreenStays DEF DelInv, DelTypes
<1>7. \A i \in DOMAIN out' : IsFinal(out'[i]) => i \in DOMAIN out /\ out'[i] = out[i]
  BY <1>4, <1>5
<1>8. EachFinalOnce'
  BY <1>1, <1>7, ScreenStays DEF DelInv, EachFinalOnce, IsFinal
<1>9. RepliesOnce'
  BY <1>1, <1>7 DEF DelInv, RepliesOnce, IsFinal
<1> QED BY <1>1, <1>6, <1>8, <1>9, ScreenStays DEF DelInv

LEMMA PublishFinal ==
  ASSUME DelInv, NEW m \in FinalMessages, out' = Append(out, m), UNCHANGED <<pieces, draft, stream, screen, log>>,
         \A i \in DOMAIN out : IsFinal(out[i]) => out[i].of # m.of,
         \A i \in DOMAIN log : log[i].of # m.of,
         turns' \in [Turns -> TurnStages],
         \A t \in Turns : turns'[t] # "replied" => turns[t] # "replied" /\ m.of # t
  PROVE  DelInv'
<1>1. /\ Len(out) \in Nat /\ DOMAIN out = 1 .. Len(out) /\ DOMAIN out' = 1 .. Len(out) + 1
      /\ out'[Len(out) + 1] = m /\ \A i \in DOMAIN out : out'[i] = out[i]
      /\ out' \in Seq(Chunks \cup FinalMessages)
  BY PublishIs
<1>2. DelTypes'
  BY <1>1, ScreenStays DEF DelInv, DelTypes
<1>3. \A i \in DOMAIN out' : (out'[i] = m /\ i = Len(out) + 1) \/ (i \in DOMAIN out /\ out'[i] = out[i])
  BY <1>1
<1>4. EachFinalOnce'
  <2>1. ASSUME NEW i \in DOMAIN out', NEW j \in DOMAIN out', IsFinal(out'[i]), IsFinal(out'[j]), out'[i].of = out'[j].of
        PROVE  i = j
    BY <2>1, <1>3 DEF DelInv, EachFinalOnce
  <2>2. ASSUME NEW i \in DOMAIN out', NEW j \in DOMAIN log, IsFinal(out'[i]) PROVE out'[i].of # log[j].of
    BY <2>2, <1>3 DEF DelInv, EachFinalOnce
  <2>3. \A i, j \in DOMAIN log' : log'[i].of = log'[j].of => i = j
    BY ScreenStays
  <2> QED BY <2>1, <2>2, <2>3 DEF EachFinalOnce, IsFinal
<1>5. RepliesOnce'
  BY <1>3 DEF DelInv, RepliesOnce, IsFinal
<1> QED BY <1>2, <1>4, <1>5, ScreenStays DEF DelInv

LEMMA PublishReplyInv == ASSUME DelInv, NEW t \in Turns, PublishReply(t) PROVE DelInv'
<1>1. PICK k \in FinalKinds : out' = Append(out, FinalOf(t, k, "bot"))
  BY DEF PublishReply, Publish
<1> DEFINE m == FinalOf(t, k, "bot")
<1>2. t \in Finals
  BY DEF Finals
<1>3. m \in FinalMessages /\ m.of = t
  BY <1>2, MessageKinds
<1> HIDE DEF m
<1>4. turns[t] = "ended" /\ turns' = [turns EXCEPT ![t] = "replied"] /\ UNCHANGED <<pieces, draft, stream, screen, log>>
  BY DEF PublishReply, chatVars
<1>5. turns \in [Turns -> TurnStages]
  BY DEF DelInv, DelTypes
<1>6. turns' \in [Turns -> TurnStages] /\ \A u \in Turns : turns'[u] # "replied" => turns[u] # "replied" /\ m.of # u
  BY <1>3, <1>4, <1>5 DEF TurnStages
<1>7. turns[t] # "replied"
  BY <1>4
<1>8. (\A i \in DOMAIN out : IsFinal(out[i]) => out[i].of # m.of) /\ \A i \in DOMAIN log : log[i].of # m.of
  BY <1>3, <1>7 DEF DelInv, RepliesOnce
<1>9. out' = Append(out, m)
  BY <1>1 DEF m
<1> QED BY <1>3, <1>4, <1>6, <1>8, <1>9, PublishFinal

LEMMA NoteInv == ASSUME DelInv, NEW n \in Notes, NEW a \in {NoAccount, "other"}, Note(n, a) PROVE DelInv'
<1> DEFINE m == FinalOf(n, "text", a)
<1>1. n \in Finals /\ "text" \in FinalKinds
  BY DEF Finals, FinalKinds
<1>2. m \in FinalMessages /\ m.of = n
  BY <1>1, MessageKinds
<1> HIDE DEF m
<1>3. out' = Append(out, m) /\ UNCHANGED <<turns, pieces, draft, stream, screen, log>>
  BY DEF Note, Publish, chatVars, m
<1>4. (\A i \in DOMAIN out : IsFinal(out[i]) => out[i].of # m.of) /\ \A i \in DOMAIN log : log[i].of # m.of
  BY <1>2 DEF Note
<1>5. turns' \in [Turns -> TurnStages]
  BY <1>3 DEF DelInv, DelTypes
<1>6. \A t \in Turns : turns'[t] # "replied" => turns[t] # "replied" /\ m.of # t
  BY <1>2, <1>3, DeliveryAssumption
<1> QED BY <1>2, <1>3, <1>4, <1>5, <1>6, PublishFinal

(* A message off the head of the queue.                                    *)
LEMMA DequeueIs ==
  ASSUME DelInv, out # <<>>, Dequeue
  PROVE  /\ 1 \in DOMAIN out /\ Top = out[1] /\ Top \in Chunks \cup FinalMessages
         /\ out' \in Seq(Chunks \cup FinalMessages) /\ UNCHANGED <<turns, pieces>>
         /\ \A i \in DOMAIN out' : i + 1 \in DOMAIN out /\ out'[i] = out[i + 1] /\ i + 1 # 1
BY DEF DelInv, DelTypes, Dequeue, Top

LEMMA DequeueKeeps ==
  ASSUME DelInv, out # <<>>, Dequeue
  PROVE  /\ \A i, j \in DOMAIN out' : IsFinal(out'[i]) /\ IsFinal(out'[j]) /\ out'[i].of = out'[j].of => i = j
         /\ \A i \in DOMAIN out', j \in DOMAIN log : IsFinal(out'[i]) => out'[i].of # log[j].of
         /\ \A i \in DOMAIN out' : IsFinal(Top) /\ IsFinal(out'[i]) => out'[i].of # Top.of
         /\ \A t \in Turns : turns'[t] # "replied" => \A i \in DOMAIN out' : IsFinal(out'[i]) => out'[i].of # t
         /\ IsFinal(Top) => (\A i \in DOMAIN log : log[i].of # Top.of) /\ \A t \in Turns : turns'[t] # "replied" => Top.of # t
<1>1. DOMAIN out' \subseteq Nat
  BY DequeueIs
<1> QED BY <1>1, DequeueIs DEF DelInv, EachFinalOnce, RepliesOnce

(* A change of the screen that only touches messages without parts.        *)
LEMMA PlainChange ==
  ASSUME DelInv, log' = log,
         \A i \in DOMAIN screen' : NoPart(screen'[i]) \/ (i \in DOMAIN screen /\ screen'[i] = screen[i])
  PROVE  PartsLogged' /\ LogOrder' /\ PartsOnce'
<1>1. PartsLogged'
  BY DEF DelInv, PartsLogged
<1>2. ASSUME NEW f \in Finals, NEW i \in DOMAIN screen', NEW j \in 1 .. 2, screen'[i] = PartMessage(f, j)
      PROVE  i \in DOMAIN screen /\ screen'[i] = screen[i]
  BY <1>2, PlainIsNot
<1>3. log \in Seq(Entries)
  BY DEF DelInv, DelTypes
<1>4. \A k \in DOMAIN log : log[k].of \in Finals
  <2>1. \A k \in DOMAIN log : log[k] \in Entries
    BY <1>3, SeqIs
  <2>2. \A x \in Entries : x.of \in Finals
    BY DEF Entries
  <2> QED BY <2>1, <2>2, Zenon
<1>5. \A f \in Finals : PlacesIn(screen', f) \subseteq PlacesIn(screen, f)
  BY <1>2 DEF PlacesIn
<1>6. LogOrder'
  BY <1>4, <1>5 DEF DelInv, LogOrder
<1>7. PartsOnce'
  BY <1>2 DEF DelInv, PartsOnce
<1> QED BY <1>1, <1>6, <1>7

LEMMA ChunkInv == ASSUME DelInv, DispatchChunk PROVE DelInv'
<1>1. /\ out # <<>> /\ Top.stage = "chunk" /\ Dequeue /\ draft' = draft \o Top.text /\ log' = log
  BY DEF DispatchChunk
<1>2. Top \in Chunks
  BY <1>1, DequeueIs, MessageKinds DEF IsFinal
<1>3. draft' \in Messages /\ NoPart(draft')
  <2>1. Top.text \in Messages /\ NoPart(Top.text) /\ draft \in Messages /\ NoPart(draft)
    BY <1>2, MessageKinds DEF DelInv, DelTypes
  <2> QED BY <2>1, <1>1, PlainConcat
<1>4. screen \in Seq(Messages) /\ Len(screen) \in Nat /\ stream \in {0, Len(screen)} /\ (stream # 0 => NoPart(screen[stream]))
  BY DEF DelInv, DelTypes, StreamFits
<1>5. StreamFits' /\ \A i \in DOMAIN screen' : NoPart(screen'[i]) \/ (i \in DOMAIN screen /\ screen'[i] = screen[i])
  <2>1. CASE UNCHANGED <<stream, screen>>
    BY <2>1, <1>4 DEF StreamFits
  <2>2. CASE stream # 0 /\ screen' = [screen EXCEPT ![stream] = draft'] /\ stream' = stream
    <3>1. stream \in 1 .. Len(screen)
      BY <1>4, <2>2
    <3>2. /\ screen' \in Seq(Messages) /\ Len(screen') = Len(screen) /\ screen'[stream] = draft'
          /\ \A i \in DOMAIN screen' : i = stream \/ (i \in DOMAIN screen /\ screen'[i] = screen[i])
      BY <1>3, <1>4, <2>2, <3>1
    <3> QED BY <3>2, <1>3, <1>4, <2>2 DEF StreamFits
  <2>3. CASE stream = 0 /\ screen' = Append(screen, draft') /\ stream' \in {0, Len(screen')}
    <3>1. /\ screen' \in Seq(Messages) /\ Len(screen') = Len(screen) + 1 /\ screen'[Len(screen')] = draft'
          /\ \A i \in DOMAIN screen' : i = Len(screen') \/ (i \in DOMAIN screen /\ screen'[i] = screen[i])
      BY <1>3, <1>4, <2>3
    <3> QED BY <3>1, <1>3, <2>3 DEF StreamFits
  <2>4. CASE stream = 0 /\ screen' = screen /\ stream' = 0
    BY <2>1, <2>4
  <2>5. \/ UNCHANGED <<stream, screen>>
        \/ stream # 0 /\ screen' = [screen EXCEPT ![stream] = draft'] /\ stream' = stream
        \/ \E o \in Outcomes : /\ stream = 0 /\ screen' = IF o.shown THEN Append(screen, draft') ELSE screen
                             /\ stream' = IF o.ok /\ o.id THEN Len(screen') ELSE 0
    <3>1. NewOutcomes \subseteq Outcomes
      BY OutcomesAre DEF NewOutcomes
    <3> QED BY <3>1 DEF DispatchChunk
  <2>6. ASSUME NEW o \in Outcomes, stream = 0, screen' = IF o.shown THEN Append(screen, draft') ELSE screen,
               stream' = IF o.ok /\ o.id THEN Len(screen') ELSE 0
        PROVE  \/ screen' = Append(screen, draft') /\ stream' \in {0, Len(screen')}
               \/ screen' = screen /\ stream' = 0
    <3>1. o.ok /\ o.id => o.shown
      BY DEF Outcomes
    <3> QED BY <3>1, <2>6
  <2> QED BY <2>1, <2>2, <2>3, <2>4, <2>5, <2>6
<1>6. DelTypes'
  BY <1>1, <1>3, <1>5, DequeueIs DEF DelInv, DelTypes
<1>7. EachFinalOnce'
  BY <1>1, DequeueKeeps DEF DelInv, EachFinalOnce, IsFinal
<1>8. RepliesOnce'
  BY <1>1, DequeueKeeps, DequeueIs DEF DelInv, RepliesOnce, IsFinal
<1>9. PartsLogged' /\ LogOrder' /\ PartsOnce'
  BY <1>1, <1>5, PlainChange
<1> QED BY <1>6, <1>7, <1>8, <1>9 DEF DelInv

(* A final that is dispatched leaves what is older alone, and its parts    *)
(* stand behind all others.                                                *)
LEMMA FinalStep ==
  ASSUME DelInv, NEW g \in Finals, \A k \in DOMAIN log : log[k].of # g,
         Progressed(Base, g, screen, screen', 2), NEW e \in Entries, e.of = g, log' = Append(log, e)
  PROVE  /\ log' \in Seq(Entries) /\ (\A i, j \in DOMAIN log' : log'[i].of = log'[j].of => i = j)
         /\ PartsLogged' /\ LogOrder' /\ PartsOnce'
         /\ \A i \in DOMAIN log' : log'[i].of = g \/ \E j \in DOMAIN log : log'[i].of = log[j].of
<1>1. /\ log \in Seq(Entries) /\ Len(log) \in Nat /\ DOMAIN log = 1 .. Len(log)
      /\ screen \in Seq(Messages) /\ Len(screen) \in Nat /\ DOMAIN screen = 1 .. Len(screen)
  BY DEF DelInv, DelTypes, StreamFits
<1>2. /\ log' \in Seq(Entries) /\ DOMAIN log' = 1 .. Len(log) + 1 /\ log'[Len(log) + 1] = e
      /\ \A k \in DOMAIN log : log'[k] = log[k]
  BY <1>1
<1>3. \A i \in DOMAIN log' : (i = Len(log) + 1 /\ log'[i].of = g) \/ (i \in DOMAIN log /\ log'[i] = log[i])
  BY <1>1, <1>2
<1>4. \A i, j \in DOMAIN log' : log'[i].of = log'[j].of => i = j
  BY <1>3 DEF DelInv, EachFinalOnce
<1>5. /\ screen' \in Seq(Messages) /\ Base \in 0 .. Len(screen') /\ Base \in 0 .. Len(screen)
      /\ Len(screen') \in Nat /\ DOMAIN screen' = 1 .. Len(screen')
  BY DEF Progressed
<1>6. \A i \in DOMAIN screen' : \/ (i <= Base /\ i \in DOMAIN screen /\ screen'[i] = screen[i])
                              \/ (i > Base /\ i \in Base + 1 .. Len(screen'))
  <2>1. \A i \in 1 .. Base : screen'[i] = screen[i]
    BY DEF Progressed
  <2> QED BY <2>1, <1>1, <1>5
<1>7. ASSUME NEW i \in DOMAIN screen, NEW j \in 1 .. 2 PROVE screen[i] # PartMessage(g, j)
  <2>1. CASE NoPart(screen[i])
    BY <2>1, PlainIsNot
  <2>2. ASSUME NEW k \in DOMAIN log, NEW x \in 1 .. 2, screen[i] = PartMessage(log[k].of, x)
        PROVE  screen[i] # PartMessage(g, j)
    BY <2>2, PartsDiffer
  <2> QED BY <2>1, <2>2 DEF DelInv, PartsLogged
<1>8. ASSUME NEW i \in DOMAIN screen', i > Base, NEW f \in Finals, NEW j \in 1 .. 2, screen'[i] = PartMessage(f, j)
      PROVE  f = g
  <2>1. ~NoPart(screen'[i])
    BY <1>8, PlainIsNot
  <2>2. i \in Base + 1 .. Len(screen')
    BY <1>6, <1>8, <1>5
  <2>3. PICK x \in 1 .. 2 : screen'[i] = PartMessage(g, x)
    BY <2>1, <2>2 DEF Progressed
  <2>4. PartMessage(g, x) = PartMessage(f, j)
    BY <2>3, <1>8, Zenon
  <2> QED BY <2>4, PartsDiffer
<1>9. \A k \in DOMAIN log : log[k].of \in Finals
  <2>1. \A k \in DOMAIN log : log[k] \in Entries
    BY <1>1, SeqIs
  <2>2. \A x \in Entries : x.of \in Finals
    BY DEF Entries
  <2> QED BY <2>1, <2>2, Zenon
<1>10. PartsLogged'
  <2>1. ASSUME NEW i \in DOMAIN screen'
        PROVE  NoPart(screen'[i]) \/ \E k \in DOMAIN log', j \in 1 .. 2 : screen'[i] = PartMessage(log'[k].of, j)
    <3>1. CASE i \in DOMAIN screen /\ screen'[i] = screen[i]
      <4>1. NoPart(screen[i]) \/ \E k \in DOMAIN log, j \in 1 .. 2 : screen[i] = PartMessage(log[k].of, j)
        BY <3>1 DEF DelInv, PartsLogged
      <4>2. \A k \in DOMAIN log : k \in DOMAIN log' /\ log'[k].of = log[k].of
        BY <1>1, <1>2
      <4> QED BY <4>1, <4>2, <3>1
    <3>2. CASE i \in Base + 1 .. Len(screen')
      <4>1. NoPart(screen'[i]) \/ \E j \in 1 .. 2 : screen'[i] = PartMessage(g, j)
        BY <3>2 DEF Progressed
      <4>2. Len(log) + 1 \in DOMAIN log' /\ log'[Len(log) + 1].of = g
        BY <1>1, <1>2
      <4> QED BY <4>1, <4>2
    <3> QED BY <3>1, <3>2, <1>6
  <2> QED BY <2>1 DEF PartsLogged, NoPart, PartMessage
<1>11. ASSUME NEW f \in Finals, f # g PROVE PlacesIn(screen', f) \subseteq PlacesIn(screen, f) /\ \A i \in PlacesIn(screen', f) : i <= Base
  <2>1. ASSUME NEW i \in DOMAIN screen', NEW j \in 1 .. 2, screen'[i] = PartMessage(f, j)
        PROVE  i <= Base /\ i \in DOMAIN screen /\ screen'[i] = screen[i]
    BY <2>1, <1>6, <1>8, <1>11
  <2> QED BY <2>1 DEF PlacesIn
<1>12. ASSUME NEW i \in PlacesIn(screen', g) PROVE i > Base
  <2>1. PICK j \in 1 .. 2 : i \in DOMAIN screen' /\ screen'[i] = PartMessage(g, j)
    BY DEF PlacesIn
  <2> QED BY <2>1, <1>6, <1>7
<1>13. LogOrder'
  <2>1. ASSUME NEW k \in DOMAIN log', NEW l \in DOMAIN log', k < l,
               NEW i \in PlacesIn(screen', log'[k].of), NEW j \in PlacesIn(screen', log'[l].of)
        PROVE  i < j
    <3>1. k \in DOMAIN log /\ log'[k] = log[k] /\ log[k].of \in Finals /\ log[k].of # g
      BY <2>1, <1>1, <1>2, <1>3, <1>9
    <3>2. i \in PlacesIn(screen, log[k].of) /\ i <= Base
      BY <3>1, <1>11, <2>1
    <3>3. CASE l \in DOMAIN log /\ log'[l] = log[l]
      <4>1. log[l].of \in Finals /\ log[l].of # g
        BY <3>3, <1>9
      <4>2. j \in PlacesIn(screen, log[l].of)
        BY <4>1, <3>3, <1>11
      <4> QED BY <4>2, <3>1, <3>2, <3>3, <2>1 DEF DelInv, LogOrder
    <3>4. CASE log'[l].of = g
      <4>1. j > Base /\ j \in PlacesIn(screen', g)
        BY <3>4, <1>12
      <4>2. j \in Nat /\ i \in Nat /\ Base \in Nat
        <5>1. j \in DOMAIN screen' /\ i \in DOMAIN screen
          BY <4>1, <3>2 DEF PlacesIn
        <5> QED BY <5>1, <1>1, <1>5
      <4> QED BY <4>1, <4>2, <3>2
    <3> QED BY <3>3, <3>4, <1>3
  <2> QED BY <2>1 DEF LogOrder, PlacesIn, PartMessage
<1>14. PartsOnce'
  <2>1. ASSUME NEW i \in DOMAIN screen', NEW k \in DOMAIN screen', NEW f \in Finals, NEW j \in 1 .. 2,
               screen'[i] = PartMessage(f, j), screen'[k] = PartMessage(f, j)
        PROVE  i = k
    <3>1. CASE f = g
      <4>1. i \in Base + 1 .. Len(screen') /\ k \in Base + 1 .. Len(screen')
        BY <2>1, <3>1, <1>6, <1>7
      <4> QED BY <4>1, <2>1, <3>1 DEF Progressed
    <3>2. CASE f # g
      <4>1. i \in DOMAIN screen /\ screen'[i] = screen[i] /\ k \in DOMAIN screen /\ screen'[k] = screen[k]
        BY <2>1, <3>2, <1>6, <1>8
      <4> QED BY <4>1, <2>1 DEF DelInv, PartsOnce
    <3> QED BY <3>1, <3>2
  <2> QED BY <2>1 DEF PartsOnce, PartMessage
<1> QED BY <1>2, <1>3, <1>4, <1>10, <1>13, <1>14

LEMMA FinalDequeued ==
  ASSUME DelInv, out # <<>>, Dequeue, Top.stage # "chunk",
         Progressed(Base, Top.of, screen, screen', 2),
         NEW ok \in BOOLEAN, NEW stage \in FinalKinds \cup {"dropped"},
         log' = Append(log, [of |-> Top.of, ok |-> ok, stage |-> stage]),
         StreamFits', draft' \in Messages, NoPart(draft')
  PROVE  DelInv'
<1> DEFINE g == Top.of e == [of |-> g, ok |-> ok, stage |-> stage]
<1>1. IsFinal(Top)
  BY DEF IsFinal
<1>2. g \in Finals /\ Top \in FinalMessages
  BY <1>1, DequeueIs, MessageKinds
<1>3. \A k \in DOMAIN log : log[k].of # g
  BY <1>1, DequeueKeeps
<1>4. e \in Entries /\ e.of = g
  BY <1>2 DEF Entries
<1>5. log' = Append(log, e) /\ Progressed(Base, g, screen, screen', 2)
  OBVIOUS
<1>6. \A i \in DOMAIN out' : IsFinal(out'[i]) => out'[i].of # g
  BY <1>1, DequeueKeeps
<1>7. \A t \in Turns : turns'[t] # "replied" => g # t
  BY <1>1, DequeueKeeps
<1> HIDE DEF g, e
<1>8. /\ log' \in Seq(Entries) /\ (\A i, j \in DOMAIN log' : log'[i].of = log'[j].of => i = j)
      /\ PartsLogged' /\ LogOrder' /\ PartsOnce'
      /\ \A i \in DOMAIN log' : log'[i].of = g \/ \E j \in DOMAIN log : log'[i].of = log[j].of
  BY <1>2, <1>3, <1>4, <1>5, FinalStep
<1>9. DelTypes'
  BY <1>8, DequeueIs DEF DelInv, DelTypes
<1>10. EachFinalOnce'
  BY <1>6, <1>8, DequeueKeeps DEF EachFinalOnce, IsFinal
<1>11. RepliesOnce'
  BY <1>7, <1>8, DequeueKeeps, DequeueIs DEF DelInv, RepliesOnce, IsFinal
<1> QED BY <1>8, <1>9, <1>10, <1>11 DEF DelInv

LEMMA FinalInv == ASSUME DelInv, DispatchFinal PROVE DelInv'
<1>1. out # <<>> /\ Top.stage # "chunk" /\ Dequeue /\ draft' = <<>> /\ stream' = 0
  BY DEF DispatchFinal, ForgetStream
<1>2. Top \in FinalMessages
  BY <1>1, DequeueIs, MessageKinds DEF IsFinal
<1>3. PICK g \in Finals, k \in FinalKinds, a \in {"bot", "other", NoAccount} : Top = FinalOf(g, k, a)
  BY <1>2 DEF FinalMessages
<1>4. Top.stage = k /\ Top.of = g
  BY <1>3, FinalIs
<1>5. PICK r \in SendTexts(Progress(screen, stream, TRUE, faults), Top.text) :
         \E s \in IF r.ok /\ Top.stage = "file" THEN SendFile(r, Top.of) ELSE {r} :
            /\ screen' = s.screen
            /\ log' = Append(log, [of |-> Top.of, ok |-> s.ok, stage |-> Top.stage])
  BY DEF DispatchFinal
<1>6. PICK s \in IF r.ok /\ k = "file" THEN SendFile(r, g) ELSE {r} :
            /\ screen' = s.screen
            /\ log' = Append(log, [of |-> Top.of, ok |-> s.ok, stage |-> k])
  BY <1>4, <1>5
<1>7. StreamFits
  BY DEF DelInv, DelTypes
<1>8. /\ r.ok \in BOOLEAN /\ Progressed(Base, g, screen, r.screen, 2)
      /\ k = "file" => Sending(r, g, 1)
  BY <1>3, <1>5, <1>7, TextsSend
<1>9. s.ok \in BOOLEAN /\ Progressed(Base, g, screen, s.screen, 2)
  <2>1. CASE s = r
    BY <2>1, <1>8
  <2>2. CASE k = "file" /\ s \in SendFile(r, g)
    <3>1. Sending(s, g, 1)
      BY <2>2, <1>8, FileSends
    <3>2. 1 \in 0 .. 2 /\ 2 \in 0 .. 2 /\ 1 <= 2
      OBVIOUS
    <3> QED BY <3>1, <3>2, MoreParts DEF Sending
  <2> QED BY <2>1, <2>2, <1>6
<1>10. StreamFits' /\ draft' \in Messages /\ NoPart(draft')
  <2>1. screen' \in Seq(Messages)
    BY <1>6, <1>9 DEF Progressed
  <2> QED BY <2>1, <1>1 DEF StreamFits, NoPart, Messages
<1>11. Progressed(Base, Top.of, screen, screen', 2)
  BY <1>4, <1>6, <1>9
<1> QED BY <1>1, <1>6, <1>9, <1>10, <1>11, FinalDequeued

LEMMA NowhereInv == ASSUME DelInv, DispatchNowhere PROVE DelInv'
<1>1. /\ out # <<>> /\ Top.stage # "chunk" /\ Dequeue /\ UNCHANGED <<draft, stream, screen>>
      /\ log' = Append(log, [of |-> Top.of, ok |-> FALSE, stage |-> "dropped"])
  BY DEF DispatchNowhere
<1>2. Sending(Progress(screen, stream, TRUE, faults), Top.of, 0)
  BY SendingStarts DEF DelInv, DelTypes
<1>3. Progressed(Base, Top.of, screen, screen, 0)
  <2>1. Progress(screen, stream, TRUE, faults).screen = screen
    BY DEF Progress
  <2> QED BY <1>2, <2>1 DEF Sending
<1>4. 0 \in 0 .. 2 /\ 2 \in 0 .. 2 /\ 0 <= 2
  OBVIOUS
<1>5. Progressed(Base, Top.of, screen, screen', 2)
  BY <1>1, <1>3, <1>4, MoreParts
<1>6. StreamFits' /\ draft' \in Messages /\ NoPart(draft')
  BY <1>1 DEF DelInv, DelTypes, StreamFits
<1> QED BY <1>1, <1>5, <1>6, FinalDequeued

LEMMA DelStep == DelInv /\ [DeliveryNext]_dVars => DelInv'
BY QuietInv, StreamInv, PublishReplyInv, NoteInv, ChunkInv, FinalInv, NowhereInv DEF DeliveryNext

(* What the messages of the screen show.                                   *)
LEMMA ShowsIs ==
  ASSUME DelInv, NEW f \in Finals
  PROVE  PartPlaces(f) = PlacesIn(screen, f)
<1>1. ASSUME NEW i \in DOMAIN screen, NEW j \in 1 .. 2
      PROVE  <<f, "part", j>> \in ToSet(screen[i]) <=> screen[i] = PartMessage(f, j)
  <2>1. ASSUME screen[i] = PartMessage(f, j) PROVE <<f, "part", j>> \in ToSet(screen[i])
    <3>1. 1 \in DOMAIN screen[i] /\ screen[i][1] = <<f, "part", j>>
      BY <2>1 DEF PartMessage
    <3> QED BY <3>1, Zenon DEF ToSet
  <2>2. ASSUME <<f, "part", j>> \in ToSet(screen[i]) PROVE screen[i] = PartMessage(f, j)
    <3>1. PICK x \in DOMAIN screen[i] : screen[i][x] = <<f, "part", j>>
      BY <2>2, Zenon DEF ToSet
    <3>2. ~NoPart(screen[i])
      BY <3>1 DEF NoPart
    <3>3. PICK k \in DOMAIN log, y \in 1 .. 2 : screen[i] = PartMessage(log[k].of, y)
      BY <3>2 DEF DelInv, PartsLogged
    <3>4. <<f, "part", j>> = <<log[k].of, "part", y>>
      BY <3>1, <3>3 DEF PartMessage
    <3>5. log[k].of = f /\ y = j
      BY <3>4
    <3> QED BY <3>3, <3>5
  <2> QED BY <2>1, <2>2
<1>2. PartPlaces(f) = {i \in DOMAIN screen : \E j \in 1 .. 2 : <<f, "part", j>> \in ToSet(screen[i])}
  BY DEF PartPlaces, PartsOf, Shown
<1> QED BY <1>1, <1>2 DEF PlacesIn

LEMMA DelShown == DelInv => FinalsShown
<1> SUFFICES ASSUME DelInv PROVE FinalsShown
  OBVIOUS
<1>1. DraftIsNewest
  BY DEF DelInv, DelTypes, StreamFits, DraftIsNewest
<1>2. EachPartOnce
  <2>1. ASSUME NEW f \in Finals, NEW i \in PartPlaces(f), NEW j \in PartPlaces(f), screen[i] = screen[j]
        PROVE  i = j
    BY <2>1, ShowsIs DEF PlacesIn, DelInv, PartsOnce
  <2> QED BY <2>1 DEF EachPartOnce
<1>3. \A k \in DOMAIN log : log[k].of \in Finals
  <2>1. log \in Seq(Entries)
    BY DEF DelInv, DelTypes
  <2>2. \A k \in DOMAIN log : log[k] \in Entries
    BY <2>1, SeqIs
  <2>3. \A x \in Entries : x.of \in Finals
    BY DEF Entries
  <2> QED BY <2>2, <2>3, Zenon
<1>4. FinalsInOrder
  BY <1>3, ShowsIs DEF DelInv, LogOrder, FinalsInOrder
<1> QED BY <1>1, <1>2, <1>4 DEF FinalsShown

(* However streamed drafts, finals of turns and notes of others meet in    *)
(* the queue, and whichever of the requests for them fail or get lost,     *)
(* final texts are shown in the order of their dispatch, no part of them   *)
(* twice, and a draft is never edited from behind a newer message          *)
(* (send_stream_chunk, do_send_message and dispatch_message).              *)
THEOREM FinalsAreShown == DeliverySpec => []FinalsShown
<1>1. DeliverySpec => []DelInv
  BY InitDel, DelStep, PTL DEF DeliverySpec
<1> QED BY <1>1, DelShown, PTL
=============================================================================
