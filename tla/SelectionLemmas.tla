--------------------------- MODULE SelectionLemmas ---------------------------
(***************************************************************************)
(* What the proofs of several components need to know of sequences: parts  *)
(* picked by position, flattened sequences, least and greatest numbers of  *)
(* a set.  An induction is an argument about a least counterexample, since *)
(* an induction theorem that takes a predicate cannot be instantiated.     *)
(***************************************************************************)
EXTENDS Selection, Integers, SequencesExt, WellFoundedInduction, TLAPS

(* A set of naturals has a least element.                                  *)
LEMMA LeastOf ==
  ASSUME NEW T \in SUBSET Nat, T # {}
  PROVE  \E n \in T : \A m \in T : n <= m
<1> DEFINE R == OpToRel(<, Nat)
<1>1. PICK n \in T : \A m \in T : <<m, n>> \notin R
  BY NatLessThanWellFounded, WFMin
<1>2. R = {ss \in Nat \X Nat : ss[1] < ss[2]}
  BY Zenon DEF OpToRel
<1> HIDE DEF R
<1>3. ASSUME NEW m \in T PROVE n <= m
  <2>1. <<m, n>> \in Nat \X Nat
    BY Zenon
  <2>2. ~ (<<m, n>>[1] < <<m, n>>[2])
    BY <1>1, <1>2, <2>1, Zenon
  <2>3. ~ (m < n) /\ m \in Nat /\ n \in Nat
    BY <2>2
  <2> QED
    BY <2>3
<1> QED
  BY <1>3

(* Induction, with the numbers that have the property as a set.            *)
LEMMA Induction ==
  ASSUME NEW T, 0 \in T, \A n \in Nat : n \in T => n + 1 \in T
  PROVE  Nat \subseteq T
<1> SUFFICES ASSUME Nat \ T # {} PROVE FALSE
  OBVIOUS
<1>1. PICK n \in Nat \ T : \A m \in Nat \ T : n <= m
  BY LeastOf
<1>2. n # 0 /\ n - 1 \in Nat
  BY <1>1
<1>3. n - 1 \in T
  BY <1>1, <1>2
<1> QED
  BY <1>1, <1>2, <1>3

(* Min and Max of FiniteSetsExt find what they look for in a part of an    *)
(* interval.                                                               *)
LEMMA MinIs ==
  ASSUME NEW a \in Int, NEW T \in SUBSET Int, T # {}, \A x \in T : a <= x
  PROVE  Min(T) \in T /\ \A x \in T : Min(T) <= x
<1> DEFINE D == {n \in Nat : \E x \in T : n = x - a}
<1>1. D \in SUBSET Nat /\ D # {}
  <2>1. PICK x \in T : TRUE
    OBVIOUS
  <2>2. x - a \in D
    BY <2>1
  <2> QED
    BY <2>2
<1>2. PICK n \in D : \A m \in D : n <= m
  BY <1>1, LeastOf
<1>3. PICK x \in T : n = x - a
  OBVIOUS
<1>4. \A y \in T : y - a \in D
  OBVIOUS
<1>5. \A y \in T : x <= y
  BY <1>2, <1>3, <1>4
<1> QED
  BY <1>5 DEF Min

LEMMA MaxIs ==
  ASSUME NEW b \in Int, NEW T \in SUBSET Int, T # {}, \A x \in T : x <= b
  PROVE  Max(T) \in T /\ \A x \in T : x <= Max(T)
<1> DEFINE D == {n \in Nat : \E x \in T : n = b - x}
<1>1. D \in SUBSET Nat /\ D # {}
  <2>1. PICK x \in T : TRUE
    OBVIOUS
  <2>2. b - x \in D
    BY <2>1
  <2> QED
    BY <2>2
<1>2. PICK n \in D : \A m \in D : n <= m
  BY <1>1, LeastOf
<1>3. PICK x \in T : n = b - x
  OBVIOUS
<1>4. \A y \in T : b - y \in D
  OBVIOUS
<1>5. ASSUME NEW y \in T PROVE x >= y
  <2>1. n <= b - y
    BY <1>2, <1>4
  <2> QED
    BY <1>3, <2>1
<1>6. Max(T) \in T /\ \A y \in T : Max(T) >= y
  BY <1>5 DEF Max
<1> QED
  BY <1>6

LEMMA MaxOfTwo ==
  ASSUME NEW x \in Int, NEW y \in Int
  PROVE  Max({x, y}) = IF x >= y THEN x ELSE y
<1> DEFINE b == IF x >= y THEN x ELSE y
<1>1. b \in Int /\ {x, y} # {} /\ {x, y} \in SUBSET Int /\ \A z \in {x, y} : z <= b
  OBVIOUS
<1> HIDE DEF b
<1>2. Max({x, y}) \in {x, y} /\ \A z \in {x, y} : z <= Max({x, y})
  BY <1>1, MaxIs
<1> DEFINE m == Max({x, y})
<1>3. m = x \/ m = y
  BY <1>2, Zenon
<1>4. x <= m /\ y <= m
  BY <1>2, Zenon
<1> HIDE DEF m
<1>5. m = IF x >= y THEN x ELSE y
  BY <1>3, <1>4
<1> QED BY <1>5 DEF m

LEMMA MinOfTwo ==
  ASSUME NEW x \in Int, NEW y \in Int
  PROVE  Min({x, y}) = IF x <= y THEN x ELSE y
<1> DEFINE b == IF x <= y THEN x ELSE y
<1>1. b \in Int /\ {x, y} # {} /\ {x, y} \in SUBSET Int /\ \A z \in {x, y} : b <= z
  OBVIOUS
<1> HIDE DEF b
<1>2. Min({x, y}) \in {x, y} /\ \A z \in {x, y} : Min({x, y}) <= z
  BY <1>1, MinIs
<1> DEFINE m == Min({x, y})
<1>3. m = x \/ m = y
  BY <1>2, Zenon
<1>4. m <= x /\ m <= y
  BY <1>2, Zenon
<1> HIDE DEF m
<1>5. m = IF x <= y THEN x ELSE y
  BY <1>3, <1>4
<1> QED BY <1>5 DEF m

(* Elements and concatenations of sequences.                               *)
LEMMA SeqIs ==
  ASSUME NEW S, NEW s \in Seq(S)
  PROVE  DOMAIN s = 1 .. Len(s) /\ Len(s) \in Nat /\ \A k \in DOMAIN s : s[k] \in S
OBVIOUS

LEMMA ConcatIs ==
  ASSUME NEW S, NEW x \in Seq(S), NEW y \in Seq(S), NEW g, g = x \o y
  PROVE  /\ g \in Seq(S) /\ Len(g) = Len(x) + Len(y)
         /\ \A i \in 1 .. Len(x) : g[i] = x[i]
         /\ \A i \in Len(x) + 1 .. Len(x) + Len(y) : g[i] = y[i - Len(x)]
OBVIOUS

-----------------------------------------------------------------------------
(* Picked.                                                                 *)

(* The recursion of Picked, up to position n.                              *)
IsPick(p, s, I, n) ==
  /\ DOMAIN p = 0 .. n /\ p[0] = <<>>
  /\ \A k \in 1 .. n : p[k] = IF k \in I THEN Append(p[k - 1], s[k]) ELSE p[k - 1]

PickRec(p, s, I, n) ==
  p = [k \in 0 .. n |-> IF k = 0 THEN <<>>
                        ELSE IF k \in I THEN Append(p[k - 1], s[k]) ELSE p[k - 1]]

LEMMA PickExists ==
  ASSUME NEW s, NEW I, NEW n \in Nat
  PROVE  \E p : PickRec(p, s, I, n)
<1> DEFINE T == {m \in Nat : \E p : IsPick(p, s, I, m)}
<1>1. 0 \in T
  <2>1. IsPick([k \in 0 .. 0 |-> <<>>], s, I, 0)
    BY DEF IsPick
  <2> QED BY <2>1
<1>2. ASSUME NEW m \in Nat, m \in T PROVE m + 1 \in T
  <2>1. PICK p : IsPick(p, s, I, m)
    BY <1>2
  <2> DEFINE next == IF m + 1 \in I THEN Append(p[m], s[m + 1]) ELSE p[m]
             q == [k \in 0 .. m + 1 |-> IF k <= m THEN p[k] ELSE next]
  <2>2. q[m + 1] = next /\ \A k \in 0 .. m : q[k] = p[k]
    OBVIOUS
  <2>3. DOMAIN q = 0 .. m + 1
    OBVIOUS
  <2> HIDE DEF q
  <2>4. IsPick(q, s, I, m + 1)
    BY <2>1, <2>2, <2>3 DEF IsPick
  <2> QED
    BY <2>4
<1> HIDE DEF T
<1>3. Nat \subseteq T
  BY <1>1, <1>2, Induction
<1>4. PICK p : IsPick(p, s, I, n)
  BY <1>3 DEF T
<1> DEFINE r == [k \in 0 .. n |-> p[k]]
<1>5. ASSUME NEW k \in 0 .. n
      PROVE  r[k] = IF k = 0 THEN <<>> ELSE IF k \in I THEN Append(r[k - 1], s[k]) ELSE r[k - 1]
  <2>1. r[k] = p[k]
    OBVIOUS
  <2>2. CASE k = 0
    BY <1>4, <2>1, <2>2, Zenon DEF IsPick
  <2>3. CASE k # 0
    <3>1. k \in 1 .. n /\ k - 1 \in 0 .. n
      BY <2>3
    <3>2. r[k - 1] = p[k - 1]
      BY <3>1
    <3>3. p[k] = IF k \in I THEN Append(p[k - 1], s[k]) ELSE p[k - 1]
      BY <1>4, <3>1, Zenon DEF IsPick
    <3> QED
      BY <2>1, <2>3, <3>2, <3>3, Zenon
  <2> QED
    BY <2>2, <2>3
<1>6. r = [k \in 0 .. n |-> r[k]]
  BY Zenon
<1> HIDE DEF r
<1>7. PickRec(r, s, I, n)
  BY <1>5, <1>6, Zenon DEF PickRec
<1> QED
  BY <1>7, Zenon

LEMMA PickUnfold ==
  ASSUME NEW s, NEW I, NEW n \in Nat, NEW p, PickRec(p, s, I, n)
  PROVE  IsPick(p, s, I, n)
<1>1. \A k \in 0 .. n : p[k] = IF k = 0 THEN <<>>
                               ELSE IF k \in I THEN Append(p[k - 1], s[k]) ELSE p[k - 1]
  BY Zenon DEF PickRec
<1>2. DOMAIN p = 0 .. n
  BY Zenon DEF PickRec
<1>3. 0 \in 0 .. n
  OBVIOUS
<1>4. p[0] = <<>>
  BY <1>1, <1>3, Zenon
<1>5. ASSUME NEW k \in 1 .. n
      PROVE  p[k] = IF k \in I THEN Append(p[k - 1], s[k]) ELSE p[k - 1]
  <2>1. k \in 0 .. n /\ k # 0
    OBVIOUS
  <2> QED BY <1>1, <2>1, Zenon
<1> QED BY <1>2, <1>4, <1>5, Zenon DEF IsPick

LEMMA PickedIs ==
  ASSUME NEW S, NEW s \in Seq(S), NEW I
  PROVE  \E p : IsPick(p, s, I, Len(s)) /\ Picked(s, I) = p[Len(s)]
<1> DEFINE p == CHOOSE q : PickRec(q, s, I, Len(s))
<1>1. Len(s) \in Nat
  OBVIOUS
<1>2. \E q : PickRec(q, s, I, Len(s))
  BY <1>1, PickExists
<1>3. PickRec(p, s, I, Len(s))
  BY <1>2, Zenon
<1>4. Picked(s, I) = p[Len(s)]
  BY Zenon DEF Picked, PickRec
<1> HIDE DEF p
<1>5. IsPick(p, s, I, Len(s))
  BY <1>1, <1>3, PickUnfold
<1> QED
  BY <1>4, <1>5

(* q is what s has at the positions at[1] < at[2] < ..., which are those   *)
(* of I up to n.                                                           *)
Enumerates(at, q, s, I, n) ==
  /\ at \in [1 .. Len(q) -> 1 .. n]
  /\ \A k \in 1 .. Len(q) : at[k] \in I /\ q[k] = s[at[k]]
  /\ \A k, l \in 1 .. Len(q) : k < l => at[k] < at[l]
  /\ \A i \in 1 .. n : i \in I => \E k \in 1 .. Len(q) : at[k] = i

LEMMA PickedMap ==
  ASSUME NEW S, NEW s \in Seq(S), NEW I
  PROVE  /\ Picked(s, I) \in Seq(S)
         /\ \E at : Enumerates(at, Picked(s, I), s, I, Len(s))
<1>1. PICK p : IsPick(p, s, I, Len(s)) /\ Picked(s, I) = p[Len(s)]
  BY PickedIs
<1> DEFINE T == {n \in Nat : n <= Len(s) => p[n] \in Seq(S) /\ \E at : Enumerates(at, p[n], s, I, n)}
<1>2. 0 \in T
  <2>1. p[0] = <<>>
    BY <1>1 DEF IsPick
  <2>2. Enumerates(<<>>, p[0], s, I, 0)
    BY <2>1 DEF Enumerates
  <2>3. p[0] \in Seq(S)
    BY <2>1
  <2> QED
    BY <2>2, <2>3, Zenon
<1>3. ASSUME NEW n \in Nat, n \in T PROVE n + 1 \in T
  <2> SUFFICES ASSUME n + 1 <= Len(s)
               PROVE  p[n + 1] \in Seq(S) /\ \E at : Enumerates(at, p[n + 1], s, I, n + 1)
    OBVIOUS
  <2>1. p[n] \in Seq(S)
    BY <1>3
  <2>2. PICK at : Enumerates(at, p[n], s, I, n)
    BY <1>3
  <2>3. n + 1 \in 1 .. Len(s) /\ s[n + 1] \in S /\ (n + 1) - 1 = n
    OBVIOUS
  <2>4. CASE n + 1 \in I
    <3>1. p[n + 1] = Append(p[n], s[n + 1])
      BY <1>1, <2>3, <2>4 DEF IsPick
    <3> DEFINE to == [k \in 1 .. Len(p[n]) + 1 |-> IF k <= Len(p[n]) THEN at[k] ELSE n + 1]
    <3>2. Len(p[n + 1]) = Len(p[n]) + 1 /\ p[n + 1][Len(p[n]) + 1] = s[n + 1]
      BY <2>1, <2>3, <3>1
    <3>3. \A k \in 1 .. Len(p[n]) : p[n + 1][k] = p[n][k]
      BY <2>1, <2>3, <3>1
    <3>4. /\ \A k \in 1 .. Len(p[n]) : to[k] = at[k]
          /\ to[Len(p[n]) + 1] = n + 1
          /\ to \in [1 .. Len(p[n]) + 1 -> 1 .. n + 1]
      BY <2>1, <2>2 DEF Enumerates
    <3> HIDE DEF to
    <3>5. Enumerates(to, p[n + 1], s, I, n + 1)
      <4> DEFINE L == Len(p[n])
      <4>0. L \in Nat
        BY <2>1
      <4>1. to \in [1 .. Len(p[n + 1]) -> 1 .. n + 1]
        BY <3>2, <3>4
      <4>2. \A k \in 1 .. Len(p[n + 1]) : to[k] \in I /\ p[n + 1][k] = s[to[k]]
        BY <2>2, <2>4, <3>2, <3>3, <3>4, <4>0 DEF Enumerates
      <4>3. \A k, l \in 1 .. Len(p[n + 1]) : k < l => to[k] < to[l]
        BY <2>2, <3>2, <3>4, <4>0 DEF Enumerates
      <4>4. \A i \in 1 .. n + 1 : i \in I => \E k \in 1 .. Len(p[n + 1]) : to[k] = i
        <5> SUFFICES ASSUME NEW i \in 1 .. n + 1, i \in I
                     PROVE  \E k \in 1 .. L + 1 : to[k] = i
          BY <3>2
        <5>1. CASE i = n + 1
          BY <3>4, <4>0, <5>1
        <5>2. CASE i \in 1 .. n
          <6>1. PICK k \in 1 .. L : at[k] = i
            BY <2>2, <5>2 DEF Enumerates
          <6> QED BY <3>4, <4>0, <6>1
        <5> QED BY <5>1, <5>2
      <4> QED BY <4>1, <4>2, <4>3, <4>4 DEF Enumerates
    <3> QED
      BY <2>1, <2>3, <3>1, <3>5
  <2>5. CASE n + 1 \notin I
    <3>1. p[n + 1] = p[n]
      BY <1>1, <2>3, <2>5 DEF IsPick
    <3>2. Enumerates(at, p[n], s, I, n + 1)
      BY <2>1, <2>2, <2>5 DEF Enumerates
    <3> QED
      BY <2>1, <3>1, <3>2
  <2> QED
    BY <2>4, <2>5
<1> HIDE DEF T
<1>4. Len(s) \in T
  <2>1. Nat \subseteq T
    BY <1>2, <1>3, Induction
  <2> QED BY <2>1
<1> QED
  BY <1>1, <1>4 DEF T

(* Two enumerations of the same positions are one.                         *)
LEMMA EnumeratedOnce ==
  ASSUME NEW S, NEW p \in Seq(S), NEW q \in Seq(S), NEW s, NEW I, NEW n \in Nat,
         NEW a, NEW b, Enumerates(a, p, s, I, n), Enumerates(b, q, s, I, n)
  PROVE  p = q
<1> DEFINE P == Len(p)  Q == Len(q)
<1>1. P \in Nat /\ Q \in Nat
  OBVIOUS
<1>2. /\ \A k \in 1 .. P : a[k] \in 1 .. n /\ a[k] \in I /\ p[k] = s[a[k]]
      /\ \A k, l \in 1 .. P : k < l => a[k] < a[l]
      /\ \A i \in 1 .. n : i \in I => \E k \in 1 .. P : a[k] = i
  BY DEF Enumerates
<1>3. /\ \A k \in 1 .. Q : b[k] \in 1 .. n /\ b[k] \in I /\ q[k] = s[b[k]]
      /\ \A k, l \in 1 .. Q : k < l => b[k] < b[l]
      /\ \A i \in 1 .. n : i \in I => \E k \in 1 .. Q : b[k] = i
  BY DEF Enumerates
<1> HIDE DEF P, Q
<1> DEFINE T == { k \in Nat : k \in 1 .. P /\ k \in 1 .. Q /\ a[k] # b[k] }
<1>4. T = {}
  <2> SUFFICES ASSUME T # {} PROVE FALSE
    OBVIOUS
  <2>1. PICK k \in T : \A m \in T : k <= m
    BY LeastOf
  <2>2. k \in 1 .. P /\ k \in 1 .. Q /\ a[k] # b[k]
    OBVIOUS
  <2>3. \A l \in 1 .. k - 1 : l \in 1 .. P /\ l \in 1 .. Q /\ a[l] = b[l]
    BY <1>1, <2>1
  <2>4. PICK l \in 1 .. Q : b[l] = a[k]
    BY <1>2, <1>3, <2>2
  <2>5. PICK m \in 1 .. P : a[m] = b[k]
    BY <1>2, <1>3, <2>2
  <2>6. a[k] \in Int /\ b[k] \in Int
    BY <1>2, <1>3, <2>2
  <2>7. CASE a[k] < b[k]
    <3>1. l < k
      BY <1>3, <2>2, <2>4, <2>6, <2>7
    <3>2. l \in 1 .. P /\ a[l] = a[k]
      BY <2>3, <2>4, <3>1
    <3> QED BY <1>2, <2>2, <2>6, <3>1, <3>2
  <2>8. CASE b[k] < a[k]
    <3>1. m < k
      BY <1>2, <2>2, <2>5, <2>6, <2>8
    <3>2. m \in 1 .. Q /\ b[m] = b[k]
      BY <2>3, <2>5, <3>1
    <3> QED BY <1>3, <2>2, <2>6, <3>1, <3>2
  <2> QED BY <2>2, <2>6, <2>7, <2>8
<1>5. \A k \in 1 .. P : k \in 1 .. Q => a[k] = b[k]
  BY <1>1, <1>4
<1> HIDE DEF T
<1>6. ~(P < Q)
  <2> SUFFICES ASSUME P < Q PROVE FALSE
    OBVIOUS
  <2> DEFINE k == P + 1
  <2>1. k \in 1 .. Q /\ \A l \in 1 .. P : l \in 1 .. Q /\ l < k
    BY <1>1
  <2> HIDE DEF k
  <2>2. PICK l \in 1 .. P : a[l] = b[k]
    BY <1>2, <1>3, <2>1
  <2>3. b[l] = b[k] /\ b[l] < b[k] /\ b[k] \in Int
    BY <1>3, <1>5, <2>1, <2>2
  <2> QED BY <2>3
<1>7. ~(Q < P)
  <2> SUFFICES ASSUME Q < P PROVE FALSE
    OBVIOUS
  <2> DEFINE k == Q + 1
  <2>1. k \in 1 .. P /\ \A l \in 1 .. Q : l \in 1 .. P /\ l < k
    BY <1>1
  <2> HIDE DEF k
  <2>2. PICK l \in 1 .. Q : b[l] = a[k]
    BY <1>2, <1>3, <2>1
  <2>3. a[l] = a[k] /\ a[l] < a[k] /\ a[k] \in Int
    BY <1>2, <1>5, <2>1, <2>2
  <2> QED BY <2>3
<1>8. P = Q
  BY <1>1, <1>6, <1>7
<1>9. \A k \in 1 .. P : p[k] = q[k]
  BY <1>2, <1>3, <1>5, <1>8
<1> QED
  BY <1>8, <1>9 DEF P, Q

(* f takes the positions J of s to the positions I of h, in their order,   *)
(* where h has the same elements.                                          *)
Matches(f, s, J, h, I) ==
  /\ \A j \in 1 .. Len(s) : j \in J => f[j] \in 1 .. Len(h) /\ f[j] \in I /\ s[j] = h[f[j]]
  /\ \A j, k \in 1 .. Len(s) : j \in J /\ k \in J /\ j < k => f[j] < f[k]
  /\ \A i \in 1 .. Len(h) : i \in I => \E j \in 1 .. Len(s) : j \in J /\ f[j] = i

LEMMA PickedAgree ==
  ASSUME NEW S, NEW s, s \in Seq(S), NEW h, h \in Seq(S), NEW I, NEW J, NEW f,
         Matches(f, s, J, h, I)
  PROVE  Picked(s, J) = Picked(h, I)
<1> DEFINE p == Picked(s, J)  q == Picked(h, I)  N == Len(s)  H == Len(h)
<1>1. p \in Seq(S) /\ q \in Seq(S)
  BY PickedMap
<1>2. PICK a : Enumerates(a, p, s, J, N)
  BY PickedMap
<1>3. PICK b : Enumerates(b, q, h, I, H)
  BY PickedMap
<1>4. H \in Nat
  OBVIOUS
<1>m. /\ \A j \in 1 .. N : j \in J => f[j] \in 1 .. H /\ f[j] \in I /\ s[j] = h[f[j]]
      /\ \A j, k \in 1 .. N : j \in J /\ k \in J /\ j < k => f[j] < f[k]
      /\ \A i \in 1 .. H : i \in I => \E j \in 1 .. N : j \in J /\ f[j] = i
  BY Zenon DEF Matches
<1> HIDE DEF p, q, N, H
<1> DEFINE to == [k \in 1 .. Len(p) |-> f[a[k]]]
<1>5. \A k \in 1 .. Len(p) : a[k] \in 1 .. N /\ a[k] \in J /\ p[k] = s[a[k]]
  BY <1>2, Zenon DEF Enumerates
<1>6. \A k \in 1 .. Len(p) : to[k] = f[a[k]] /\ to[k] \in 1 .. H /\ to[k] \in I /\ p[k] = h[to[k]]
  BY <1>5, <1>m
<1>7. to \in [1 .. Len(p) -> 1 .. H]
  BY <1>6
<1>8. ASSUME NEW k \in 1 .. Len(p), NEW l \in 1 .. Len(p), k < l
      PROVE  to[k] < to[l]
  <2>1. a[k] < a[l]
    BY <1>2, <1>8, Zenon DEF Enumerates
  <2> QED BY <1>5, <1>6, <1>m, <2>1
<1>9. ASSUME NEW i \in 1 .. H, i \in I
      PROVE  \E k \in 1 .. Len(p) : to[k] = i
  <2>1. PICK j \in 1 .. N : j \in J /\ f[j] = i
    BY <1>9, <1>m
  <2>2. PICK k \in 1 .. Len(p) : a[k] = j
    BY <1>2, <2>1, Zenon DEF Enumerates
  <2> QED BY <1>6, <2>1, <2>2
<1> HIDE DEF to
<1>10. Enumerates(to, p, h, I, H)
  BY <1>6, <1>7, <1>8, <1>9, Zenon DEF Enumerates
<1>11. p = q
  BY <1>1, <1>3, <1>4, <1>10, EnumeratedOnce
<1> QED
  BY <1>11 DEF p, q

-----------------------------------------------------------------------------
(* FlattenSeq.                                                             *)

(* The recursion of FlattenSeq, up to the sequence at n.                   *)
FlatRec(p, seqs, n) ==
  p = [i \in 1 .. n |-> IF i = 1 THEN seqs[i] ELSE p[i - 1] \o seqs[i]]

IsFlat(p, seqs, n) ==
  /\ n > 0 => p[1] = seqs[1]
  /\ \A i \in 2 .. n : p[i] = p[i - 1] \o seqs[i]

LEMMA FlatExists ==
  ASSUME NEW seqs, NEW n \in Nat
  PROVE  \E p : FlatRec(p, seqs, n)
<1> DEFINE T == {m \in Nat : \E p : IsFlat(p, seqs, m)}
<1>1. 0 \in T
  <2>1. IsFlat(<<>>, seqs, 0)
    BY DEF IsFlat
  <2> QED BY <2>1
<1>2. ASSUME NEW m \in Nat, m \in T PROVE m + 1 \in T
  <2>1. PICK p : IsFlat(p, seqs, m)
    BY <1>2
  <2> DEFINE next == IF m = 0 THEN seqs[1] ELSE p[m] \o seqs[m + 1]
             q == [k \in 1 .. m + 1 |-> IF k <= m THEN p[k] ELSE next]
  <2>a. next = IF m = 0 THEN seqs[1] ELSE p[m] \o seqs[m + 1]
    OBVIOUS
  <2> HIDE DEF next
  <2>2. q[m + 1] = next /\ \A k \in 1 .. m : q[k] = p[k]
    OBVIOUS
  <2> HIDE DEF q
  <2>3. m + 1 > 0 => q[1] = seqs[1]
    <3>1. CASE m = 0
      BY <2>a, <2>2, <3>1
    <3>2. CASE m # 0
      BY <2>1, <2>2, <3>2 DEF IsFlat
    <3> QED
      BY <3>1, <3>2
  <2>4. ASSUME NEW i \in 2 .. m + 1 PROVE q[i] = q[i - 1] \o seqs[i]
    <3>1. CASE i = m + 1
      <4>1. m # 0 /\ i - 1 = m /\ m \in 1 .. m
        BY <3>1
      <4>2. q[i] = next /\ q[i - 1] = p[m]
        BY <2>2, <3>1, <4>1
      <4>3. next = p[m] \o seqs[m + 1]
        BY <2>a, <4>1, Zenon
      <4> QED
        BY <3>1, <4>2, <4>3, Zenon
    <3>2. CASE i \in 2 .. m
      <4>1. i \in 1 .. m /\ i - 1 \in 1 .. m
        BY <3>2
      <4>2. p[i] = p[i - 1] \o seqs[i]
        BY <2>1, <3>2, Zenon DEF IsFlat
      <4> QED
        BY <2>2, <4>1, <4>2, Zenon
    <3>3. i = m + 1 \/ i \in 2 .. m
      OBVIOUS
    <3> QED
      BY <3>1, <3>2, <3>3, Zenon
  <2>5. IsFlat(q, seqs, m + 1)
    BY <2>3, <2>4, Zenon DEF IsFlat
  <2> QED
    BY <2>5
<1> HIDE DEF T
<1>3. Nat \subseteq T
  BY <1>1, <1>2, Induction
<1>4. PICK p : IsFlat(p, seqs, n)
  BY <1>3 DEF T
<1> DEFINE r == [i \in 1 .. n |-> p[i]]
<1>5. ASSUME NEW i \in 1 .. n
      PROVE  r[i] = IF i = 1 THEN seqs[i] ELSE r[i - 1] \o seqs[i]
  <2>1. r[i] = p[i]
    OBVIOUS
  <2>2. CASE i = 1
    BY <1>4, <2>1, <2>2 DEF IsFlat
  <2>3. CASE i # 1
    <3>1. i \in 2 .. n /\ i - 1 \in 1 .. n
      BY <2>3
    <3>2. r[i - 1] = p[i - 1]
      BY <3>1
    <3>3. p[i] = p[i - 1] \o seqs[i]
      BY <1>4, <3>1, Zenon DEF IsFlat
    <3> QED
      BY <2>1, <2>3, <3>2, <3>3, Zenon
  <2> QED
    BY <2>2, <2>3
<1>6. r = [i \in 1 .. n |-> r[i]]
  BY Zenon
<1> HIDE DEF r
<1>7. FlatRec(r, seqs, n)
  BY <1>5, <1>6, Zenon DEF FlatRec
<1> QED
  BY <1>7, Zenon

LEMMA FlattenIs ==
  ASSUME NEW S, NEW seqs \in Seq(S), seqs # <<>>
  PROVE  \E p : IsFlat(p, seqs, Len(seqs)) /\ FlattenSeq(seqs) = p[Len(seqs)]
<1> DEFINE p == CHOOSE q : FlatRec(q, seqs, Len(seqs))
<1>1. Len(seqs) \in Nat /\ Len(seqs) # 0
  OBVIOUS
<1>2. FlatRec(p, seqs, Len(seqs))
  BY <1>1, FlatExists, Zenon
<1>3. FlattenSeq(seqs) = p[Len(seqs)]
  BY <1>1, Zenon DEF FlattenSeq, FlatRec
<1> HIDE DEF p
<1>4. \A i \in 1 .. Len(seqs) : p[i] = IF i = 1 THEN seqs[i] ELSE p[i - 1] \o seqs[i]
  BY <1>2, Zenon DEF FlatRec
<1>5. \A i \in 2 .. Len(seqs) : p[i] = p[i - 1] \o seqs[i]
  <2> TAKE i \in 2 .. Len(seqs)
  <2>1. i \in 1 .. Len(seqs) /\ i # 1
    BY <1>1
  <2> QED BY <1>4, <2>1, Zenon
<1>6. p[1] = seqs[1]
  <2>1. 1 \in 1 .. Len(seqs)
    BY <1>1
  <2> QED BY <1>4, <2>1, Zenon
<1>7. IsFlat(p, seqs, Len(seqs))
  BY <1>5, <1>6, Zenon DEF IsFlat
<1> QED
  BY <1>3, <1>7

(* The k-th element of q is the off[k]-th one of the sequence at of[k],    *)
(* and q has those of the sequences up to n, in their order.               *)
Flattens(of, off, q, seqs, n) ==
  /\ of \in [1 .. Len(q) -> 1 .. n] /\ off \in [1 .. Len(q) -> Nat]
  /\ \A k \in 1 .. Len(q) : off[k] \in 1 .. Len(seqs[of[k]]) /\ q[k] = seqs[of[k]][off[k]]
  /\ \A k, l \in 1 .. Len(q) : k < l => of[k] < of[l] \/ (of[k] = of[l] /\ off[k] < off[l])
  /\ \A i \in 1 .. n : \A o \in 1 .. Len(seqs[i]) : \E k \in 1 .. Len(q) : of[k] = i /\ off[k] = o

LEMMA FlattenStep ==
  ASSUME NEW S, NEW seqs, NEW n \in Nat, NEW q \in Seq(S), seqs[n + 1] \in Seq(S),
         NEW of, NEW off, Flattens(of, off, q, seqs, n)
  PROVE  /\ q \o seqs[n + 1] \in Seq(S)
         /\ \E of2, off2 : Flattens(of2, off2, q \o seqs[n + 1], seqs, n + 1)
<1> DEFINE s == seqs[n + 1]  r == q \o s  L == Len(q)  M == Len(s)
           of2 == [k \in 1 .. L + M |-> IF k <= L THEN of[k] ELSE n + 1]
           off2 == [k \in 1 .. L + M |-> IF k <= L THEN off[k] ELSE k - L]
<1>1. s \in Seq(S) /\ L \in Nat /\ M \in Nat /\ s = seqs[n + 1] /\ M = Len(seqs[n + 1])
  OBVIOUS
<1> HIDE DEF s
<1>4. /\ r \in Seq(S) /\ Len(r) = L + M
      /\ \A k \in 1 .. L : r[k] = q[k]
      /\ \A k \in L + 1 .. L + M : r[k] = s[k - L]
  BY <1>1
<1>7. /\ \A k \in 1 .. L : of[k] \in 1 .. n /\ off[k] \in 1 .. Len(seqs[of[k]])
                           /\ q[k] = seqs[of[k]][off[k]] /\ off[k] \in Nat
      /\ \A k, l \in 1 .. L : k < l => of[k] < of[l] \/ (of[k] = of[l] /\ off[k] < off[l])
      /\ \A i \in 1 .. n : \A o \in 1 .. Len(seqs[i]) : \E k \in 1 .. L : of[k] = i /\ off[k] = o
  BY DEF Flattens
<1> HIDE DEF r, L, M
<1>5. /\ \A k \in 1 .. L : of2[k] = of[k] /\ off2[k] = off[k]
      /\ \A k \in L + 1 .. L + M : of2[k] = n + 1 /\ off2[k] = k - L
  BY <1>1
<1>6. of2 \in [1 .. Len(r) -> 1 .. n + 1] /\ off2 \in [1 .. Len(r) -> Nat]
  BY <1>1, <1>4, <1>7
<1> HIDE DEF of2, off2
<1>8. \A k \in 1 .. Len(r) : off2[k] \in 1 .. Len(seqs[of2[k]]) /\ r[k] = seqs[of2[k]][off2[k]]
  <2> TAKE k \in 1 .. Len(r)
  <2>1. CASE k \in 1 .. L
    BY <1>4, <1>5, <1>7, <2>1, Zenon
  <2>2. CASE k \in L + 1 .. L + M
    <3>1. of2[k] = n + 1 /\ off2[k] = k - L /\ r[k] = s[k - L]
      BY <1>4, <1>5, <2>2
    <3>2. k - L \in 1 .. M
      BY <1>1, <2>2
    <3> QED
      BY <1>1, <3>1, <3>2, Zenon
  <2> QED
    BY <1>1, <1>4, <2>1, <2>2
<1>9. \A k, l \in 1 .. Len(r) : k < l => of2[k] < of2[l] \/ (of2[k] = of2[l] /\ off2[k] < off2[l])
  <2> TAKE k, l \in 1 .. Len(r)
  <2>1. CASE k \in 1 .. L /\ l \in 1 .. L
    BY <1>5, <1>7, <2>1
  <2>2. CASE k \in 1 .. L /\ l \in L + 1 .. L + M
    <3>1. of2[k] \in 1 .. n /\ of2[l] = n + 1
      BY <1>5, <1>7, <2>2
    <3> QED
      BY <3>1
  <2>3. CASE k \in L + 1 .. L + M /\ l \in L + 1 .. L + M
    <3>1. of2[k] = of2[l] /\ off2[k] = k - L /\ off2[l] = l - L
      BY <1>5, <2>3
    <3> QED
      BY <1>1, <2>3, <3>1
  <2> QED
    BY <1>1, <1>4, <2>1, <2>2, <2>3
<1>10. \A i \in 1 .. n + 1 : \A o \in 1 .. Len(seqs[i]) :
         \E k \in 1 .. Len(r) : of2[k] = i /\ off2[k] = o
  <2> TAKE i \in 1 .. n + 1
  <2> TAKE o \in 1 .. Len(seqs[i])
  <2>1. CASE i \in 1 .. n
    <3>1. PICK k \in 1 .. L : of[k] = i /\ off[k] = o
      BY <1>7, <2>1
    <3>2. k \in 1 .. Len(r)
      BY <1>1, <1>4
    <3> QED
      BY <1>5, <3>1, <3>2
  <2>2. CASE i = n + 1
    <3>1. o \in 1 .. M
      BY <1>1, <2>2, Zenon
    <3>2. o + L \in L + 1 .. L + M /\ o + L \in 1 .. Len(r) /\ (o + L) - L = o
      BY <1>1, <1>4, <3>1
    <3>3. of2[o + L] = n + 1 /\ off2[o + L] = o
      BY <1>5, <3>2
    <3> QED
      BY <2>2, <3>2, <3>3, Zenon
  <2> QED
    BY <2>1, <2>2
<1>11. Flattens(of2, off2, r, seqs, n + 1)
  BY <1>6, <1>8, <1>9, <1>10, Zenon DEF Flattens
<1> QED
  BY <1>4, <1>11, Zenon DEF r, s

LEMMA FlattenMap ==
  ASSUME NEW S, NEW seqs \in Seq(Seq(S))
  PROVE  /\ FlattenSeq(seqs) \in Seq(S)
         /\ \E of, off : Flattens(of, off, FlattenSeq(seqs), seqs, Len(seqs))
<1>0. CASE seqs = <<>>
  <2>1. FlattenSeq(seqs) = <<>>
    BY <1>0 DEF FlattenSeq
  <2>2. Flattens(<<>>, <<>>, <<>>, seqs, 0) /\ Len(seqs) = 0
    BY <1>0 DEF Flattens
  <2> QED
    BY <2>1, <2>2
<1> SUFFICES ASSUME seqs # <<>>
             PROVE  /\ FlattenSeq(seqs) \in Seq(S)
                    /\ \E of, off : Flattens(of, off, FlattenSeq(seqs), seqs, Len(seqs))
  BY <1>0
<1>1. PICK p : IsFlat(p, seqs, Len(seqs)) /\ FlattenSeq(seqs) = p[Len(seqs)]
  BY FlattenIs
<1> DEFINE Good(n) == p[n] \in Seq(S) /\ \E of, off : Flattens(of, off, p[n], seqs, n)
           T == {n \in Nat : n + 1 <= Len(seqs) => Good(n + 1)}
<1>2. Good(1)
  <2>1. p[1] = seqs[1] /\ seqs[1] \in Seq(S)
    BY <1>1 DEF IsFlat
  <2> DEFINE of == [k \in 1 .. Len(seqs[1]) |-> 1]
             off == [k \in 1 .. Len(seqs[1]) |-> k]
  <2>2. Flattens(of, off, p[1], seqs, 1)
    BY <2>1 DEF Flattens
  <2> QED
    BY <2>1, <2>2, Zenon
<1>3. ASSUME NEW n \in Nat, n > 0, n + 1 <= Len(seqs), Good(n) PROVE Good(n + 1)
  <2>1. n + 1 \in 2 .. Len(seqs) /\ (n + 1) - 1 = n
    BY <1>3
  <2>2. p[n + 1] = p[n] \o seqs[n + 1]
    BY <1>1, <2>1, Zenon DEF IsFlat
  <2>3. PICK of, off : Flattens(of, off, p[n], seqs, n)
    BY <1>3
  <2>4. p[n] \in Seq(S) /\ seqs[n + 1] \in Seq(S)
    BY <1>3
  <2>5. /\ p[n] \o seqs[n + 1] \in Seq(S)
        /\ \E of2, off2 : Flattens(of2, off2, p[n] \o seqs[n + 1], seqs, n + 1)
    BY <2>3, <2>4, FlattenStep
  <2> QED
    BY <2>2, <2>5, Zenon
<1>4. 0 \in T
  <2>1. 0 + 1 = 1 /\ 0 \in Nat
    OBVIOUS
  <2> HIDE DEF Good
  <2> QED BY <1>2, <2>1, Zenon
<1>5. ASSUME NEW n \in Nat, n \in T PROVE n + 1 \in T
  <2>1. n + 1 \in Nat /\ n + 1 > 0 /\ (n + 1 + 1 <= Len(seqs) => n + 1 <= Len(seqs))
    OBVIOUS
  <2> HIDE DEF Good
  <2> QED
    BY <1>3, <1>5, <2>1
<1> HIDE DEF T
<1>6. Nat \subseteq T
  BY <1>4, <1>5, Induction
<1> DEFINE m == Len(seqs) - 1
<1>7. m \in Nat /\ m + 1 = Len(seqs) /\ m + 1 <= Len(seqs)
  OBVIOUS
<1> HIDE DEF Good, m
<1>8. Good(m + 1)
  BY <1>6, <1>7, Zenon DEF T
<1>9. Good(Len(seqs))
  BY <1>7, <1>8, Zenon
<1> QED
  BY <1>1, <1>9, Zenon DEF Good
=============================================================================
