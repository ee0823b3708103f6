--------------------------- MODULE AlignmentProofs ---------------------------
(***************************************************************************)
(* Theorems about a receiver that is in step: where the messages begin in  *)
(* the stream, and what is handed to the handler of them.                  *)
(***************************************************************************)
EXTENDS FramingProofs, WellFoundedInduction

(* Induction over the natural numbers, for sets *)

LEMMA Least ==
  ASSUME NEW T, T \subseteq Nat, T # {}
  PROVE  \E n \in T : \A k \in T : n <= k
<1> DEFINE R == {p \in Nat \X Nat : p[1] < p[2]}
<1>1. IsWellFoundedOn(R, Nat) BY NatLessThanWellFounded, Zenon DEF OpToRel
<1>2. \A i, j \in Nat : i < j => <<i, j>> \in R OBVIOUS
<1>. HIDE DEF R
<1>3. PICK n \in T : \A k \in T : ~ (<<k, n>> \in R) BY <1>1, WFMin
<1>4. ASSUME NEW k \in T PROVE n <= k
  <2>1. k \in Nat /\ n \in Nat OBVIOUS
  <2>2. ~ (k < n) BY <1>2, <1>3, <2>1
  <2>. QED BY <2>1, <2>2
<1>. QED BY <1>4

LEMMA AllNumbers ==
  ASSUME NEW T, 0 \in T, \A n \in Nat : n \in T => n + 1 \in T
  PROVE  \A n \in Nat : n \in T
<1> DEFINE C == {n \in Nat : n \notin T}
<1>. SUFFICES ASSUME C # {} PROVE FALSE
  OBVIOUS
<1>1. C \subseteq Nat OBVIOUS
<1>. HIDE DEF C
<1>2. PICK n \in C : \A k \in C : n <= k BY <1>1, Least
<1>3. n \in Nat /\ n \notin T BY <1>2 DEF C
<1>4. n # 0 BY <1>3
<1>5. n - 1 \in Nat /\ (n - 1) + 1 = n /\ ~ (n <= n - 1) BY <1>3, <1>4
<1>6. n - 1 \in T BY <1>2, <1>5 DEF C
<1>. QED BY <1>3, <1>5, <1>6
-----------------------------------------------------------------------------
(* FlattenSeq *)

\* What FlattenSeq makes of the first i sequences of s, for each i up to n.
IsFlat(f, s, n) == f = [i \in 1 .. n |-> IF i = 1 THEN s[i] ELSE f[i - 1] \o s[i]]

LEMMA FlatExists ==
  ASSUME NEW s
  PROVE  \A n \in Nat : \E f : IsFlat(f, s, n)
<1> DEFINE T == {n \in Nat : \E f : IsFlat(f, s, n)}
<1>1. 0 \in T
  <2>1. IsFlat([i \in 1 .. 0 |-> s], s, 0)
    <3> DEFINE f == [i \in 1 .. 0 |-> s]
    <3>1. 1 .. 0 = {} OBVIOUS
    <3>. QED BY <3>1 DEF IsFlat
  <2>. QED BY <2>1
<1>2. ASSUME NEW n \in Nat, n \in T PROVE n + 1 \in T
  <2>1. PICK g : IsFlat(g, s, n) BY <1>2
  <2> DEFINE f == [i \in 1 .. n + 1 |->
                     IF i <= n THEN g[i] ELSE IF i = 1 THEN s[i] ELSE g[i - 1] \o s[i]]
             F == [i \in 1 .. n + 1 |-> IF i = 1 THEN s[i] ELSE f[i - 1] \o s[i]]
  <2>2. ASSUME NEW i \in 1 .. n + 1 PROVE f[i] = F[i]
    <3>1. CASE i = 1
      <4>1. F[i] = s[i] BY <3>1
      <4>2. i <= n => g[i] = s[i] BY <2>1, <3>1 DEF IsFlat
      <4>. QED BY <3>1, <4>1, <4>2
    <3>2. CASE i # 1
      <4>1. i - 1 \in 1 .. n + 1 /\ i - 1 <= n /\ i - 1 \in 1 .. n BY <3>2
      <4>2. f[i - 1] = g[i - 1] BY <4>1
      <4>3. F[i] = g[i - 1] \o s[i] BY <3>2, <4>2
      <4>4. i <= n => g[i] = g[i - 1] \o s[i]
        <5>1. i <= n => i \in 1 .. n OBVIOUS
        <5>2. g = [j \in 1 .. n |-> IF j = 1 THEN s[j] ELSE g[j - 1] \o s[j]]
          BY <2>1 DEF IsFlat
        <5>3. \A j \in 1 .. n : j # 1 => g[j] = g[j - 1] \o s[j] BY <5>2, Zenon
        <5>. QED BY <3>2, <5>1, <5>3, Zenon
      <4>. QED BY <3>2, <4>3, <4>4
    <3>. QED BY <3>1, <3>2
  <2>3. f = F BY <2>2
  <2>4. IsFlat(f, s, n + 1) BY <2>3 DEF IsFlat
  <2>. QED BY <2>4
<1>. HIDE DEF T
<1>3. \A n \in Nat : n \in T BY <1>1, <1>2, AllNumbers
<1>. QED BY <1>3 DEF T

LEMMA FlatIs ==
  ASSUME NEW s, Len(s) \in Nat, Len(s) # 0
  PROVE  \E f : IsFlat(f, s, Len(s)) /\ FlattenSeq(s) = f[Len(s)]
<1> DEFINE f == CHOOSE g : g = [i \in 1 .. Len(s) |-> IF i = 1 THEN s[i] ELSE g[i - 1] \o s[i]]
<1>1. FlattenSeq(s) = f[Len(s)] BY DEF FlattenSeq
<1>2. \E g : IsFlat(g, s, Len(s)) BY FlatExists
<1>3. IsFlat(f, s, Len(s)) BY <1>2 DEF IsFlat
<1>. QED BY <1>1, <1>3

LEMMA FlatSteps ==
  ASSUME NEW f, NEW s, NEW n \in Nat, IsFlat(f, s, n)
  PROVE  /\ n > 0 => f[1] = s[1]
         /\ \A i \in Nat : i > 0 /\ i < n => f[i + 1] = f[i] \o s[i + 1]
<1>1. f = [i \in 1 .. n |-> IF i = 1 THEN s[i] ELSE f[i - 1] \o s[i]] BY DEF IsFlat
<1>2. \A i \in 1 .. n : f[i] = IF i = 1 THEN s[i] ELSE f[i - 1] \o s[i] BY <1>1, Zenon
<1>3. n > 0 => 1 \in 1 .. n OBVIOUS
<1>4. n > 0 => f[1] = s[1] BY <1>2, <1>3, Zenon
<1>5. ASSUME NEW i \in Nat, i > 0, i < n PROVE f[i + 1] = f[i] \o s[i + 1]
  <2>1. i + 1 \in 1 .. n /\ i + 1 # 1 /\ (i + 1) - 1 = i BY <1>5
  <2>2. f[i + 1] = f[(i + 1) - 1] \o s[i + 1] BY <1>2, <2>1, Zenon
  <2>. QED BY <2>1, <2>2
<1>. QED BY <1>4, <1>5

LEMMA FlatType ==
  ASSUME NEW S, NEW s \in Seq(Seq(S)), NEW f, NEW n \in Nat, IsFlat(f, s, n), n <= Len(s)
  PROVE  \A i \in Nat : i > 0 /\ i <= n => f[i] \in Seq(S)
<1> DEFINE T == {i \in Nat : i > 0 /\ i <= n => f[i] \in Seq(S)}
<1>1. Len(s) \in Nat BY LenProperties
<1>2. \A i \in 1 .. n : s[i] \in Seq(S)
  <2>1. ASSUME NEW i \in 1 .. n PROVE s[i] \in Seq(S)
    <3>1. i \in 1 .. Len(s) BY <1>1
    <3>. QED BY <3>1, ElementOfSeq
  <2>. QED BY <2>1
<1>3. 0 \in T OBVIOUS
<1>4. ASSUME NEW i \in Nat, i \in T PROVE i + 1 \in T
  <2>. SUFFICES ASSUME i + 1 <= n PROVE f[i + 1] \in Seq(S)
    OBVIOUS
  <2>1. i + 1 \in 1 .. n /\ 1 \in 1 .. n /\ n > 0 OBVIOUS
  <2>2. s[i + 1] \in Seq(S) /\ s[1] \in Seq(S) BY <1>2, <2>1
  <2>3. CASE i = 0
    <3>1. f[1] = s[1] BY <2>1, FlatSteps
    <3>. QED BY <2>2, <2>3, <3>1
  <2>4. CASE i # 0
    <3>1. i > 0 /\ i < n /\ i <= n BY <2>4
    <3>2. f[i + 1] = f[i] \o s[i + 1] BY <3>1, FlatSteps
    <3>3. f[i] \in Seq(S) BY <1>4, <3>1
    <3>4. f[i] \o s[i + 1] \in Seq(S) BY <2>2, <3>3, ConcatProperties
    <3>. QED BY <3>2, <3>4
  <2>. QED BY <2>3, <2>4
<1>. HIDE DEF T
<1>5. \A i \in Nat : i \in T BY <1>3, <1>4, AllNumbers
<1>. QED BY <1>5 DEF T

\* Sequences that begin alike are flattened alike so far.
LEMMA FlatSame ==
  ASSUME NEW s, NEW t, NEW f, NEW g, NEW n \in Nat, NEW k \in Nat, k <= n,
         IsFlat(f, s, k), IsFlat(g, t, n), \A i \in 1 .. k : t[i] = s[i]
  PROVE  \A i \in Nat : i > 0 /\ i <= k => g[i] = f[i]
<1> DEFINE T == {i \in Nat : i > 0 /\ i <= k => g[i] = f[i]}
<1>1. 0 \in T OBVIOUS
<1>2. ASSUME NEW i \in Nat, i \in T PROVE i + 1 \in T
  <2>. SUFFICES ASSUME i + 1 <= k PROVE g[i + 1] = f[i + 1]
    OBVIOUS
  <2>1. i + 1 \in 1 .. k /\ 1 \in 1 .. k /\ k > 0 /\ n > 0 OBVIOUS
  <2>2. CASE i = 0
    <3>1. f[1] = s[1] BY <2>1, FlatSteps, ZenonT(60)
    <3>2. g[1] = t[1] BY <2>1, FlatSteps, ZenonT(60)
    <3>. QED BY <2>1, <2>2, <3>1, <3>2
  <2>3. CASE i # 0
    <3>1. i > 0 /\ i < k /\ i < n /\ i <= k BY <2>3
    <3>2. f[i + 1] = f[i] \o s[i + 1] BY <3>1, FlatSteps, ZenonT(60)
    <3>3. g[i + 1] = g[i] \o t[i + 1] BY <3>1, FlatSteps, ZenonT(60)
    <3>4. g[i] = f[i] BY <1>2, <3>1
    <3>. QED BY <2>1, <3>2, <3>3, <3>4
  <2>. QED BY <2>2, <2>3
<1>. HIDE DEF T
<1>3. \A i \in Nat : i \in T BY <1>1, <1>2, AllNumbers
<1>. QED BY <1>3 DEF T

Associative(S) == \A s, t, u \in Seq(S) : (s \o t) \o u = s \o (t \o u)

LEMMA Concatenation ==
  ASSUME NEW S
  PROVE  Associative(S)
BY ConcatAssociative DEF Associative

\* The first sequence can be put before the others at the end.
Shifted(f, g, first, n) ==
  \A i \in Nat : i > 0 /\ i <= n => f[i + 1] = first \o g[i]

LEMMA FlatShift ==
  ASSUME NEW S, NEW s \in Seq(Seq(S)), NEW t \in Seq(Seq(S)), NEW f, NEW g, NEW n \in Nat,
         n + 1 <= Len(s), n <= Len(t), IsFlat(f, s, n + 1), IsFlat(g, t, n),
         \A i \in 1 .. n : t[i] = s[i + 1]
  PROVE  Shifted(f, g, s[1], n)
<1>4. Associative(S) BY Concatenation, Zenon
<1> DEFINE T == {i \in Nat : i > 0 /\ i <= n => f[i + 1] = s[1] \o g[i]}
<1>1. Len(s) \in Nat /\ Len(t) \in Nat BY LenProperties
<1>2. \A i \in Nat : i > 0 /\ i <= n => g[i] \in Seq(S) BY FlatType
<1>3. s[1] \in Seq(S)
  <2>1. 1 \in 1 .. Len(s) BY <1>1
  <2>. QED BY <2>1, ElementOfSeq
<1> DEFINE N == n + 1
<1>8. IsFlat(f, s, N) /\ N \in Nat /\ N > 0 OBVIOUS
<1>. HIDE DEF N
<1>9. /\ N > 0 => f[1] = s[1]
      /\ \A i \in Nat : i > 0 /\ i < N => f[i + 1] = f[i] \o s[i + 1]
  BY <1>8, FlatSteps, ZenonT(60)
<1>10. f[1] = s[1] BY <1>8, <1>9
<1>5. 0 \in T OBVIOUS
<1>6. ASSUME NEW i \in Nat, i \in T PROVE i + 1 \in T
  <2>1. ASSUME i + 1 <= n PROVE f[(i + 1) + 1] = s[1] \o g[i + 1]
    <3>1. i + 1 \in 1 .. n /\ n > 0 /\ i + 1 > 0 /\ i + 1 < n + 1 /\ i + 1 \in Nat
          /\ n + 1 \in Nat /\ n + 1 > 0
      BY <2>1
    <3>6. i + 1 < N BY <3>1 DEF N
    <3>2. f[1] = s[1] /\ f[(i + 1) + 1] = f[i + 1] \o s[(i + 1) + 1]
      BY <1>9, <1>10, <3>1, <3>6, Zenon
    <3>3. t[i + 1] = s[(i + 1) + 1] BY <3>1
    <3>4. CASE i = 0
      <4>1. 0 + 1 = 1 OBVIOUS
      <4>2. g[1] = t[1] BY <3>1, FlatSteps, ZenonT(60)
      <4>. QED BY <3>2, <3>3, <3>4, <4>1, <4>2
    <3>5. CASE i # 0
      <4>1. i > 0 /\ i < n /\ i <= n BY <3>1, <3>5
      <4>2. g[i + 1] = g[i] \o t[i + 1] BY <4>1, FlatSteps, ZenonT(60)
      <4>3. f[i + 1] = s[1] \o g[i] BY <1>6, <4>1
      <4>4. t[i + 1] \in Seq(S)
        <5>1. i + 1 \in 1 .. Len(t) BY <1>1, <3>1
        <5>. QED BY <5>1, ElementOfSeq
      <4>5. g[i] \in Seq(S) BY <1>2, <4>1
      <4>6. (s[1] \o g[i]) \o t[i + 1] = s[1] \o (g[i] \o t[i + 1])
        <5>1. ASSUME NEW a \in Seq(S), NEW b \in Seq(S), NEW c \in Seq(S)
              PROVE  (a \o b) \o c = a \o (b \o c)
          BY <1>4 DEF Associative
        <5>. QED BY <1>3, <4>4, <4>5, <5>1
      <4>. QED BY <3>2, <3>3, <4>2, <4>3, <4>6, Zenon
    <3>. QED BY <3>4, <3>5
  <2>2. i + 1 \in Nat OBVIOUS
  <2>3. i + 1 > 0 /\ i + 1 <= n => f[(i + 1) + 1] = s[1] \o g[i + 1] BY <2>1, Zenon
  <2>. QED BY <2>2, <2>3, Zenon
<1>. HIDE DEF T
<1>7. \A i \in Nat : i \in T BY <1>5, <1>6, AllNumbers
<1>. QED BY <1>7 DEF T, Shifted

LEMMA FlattenNone ==
  ASSUME NEW S, NEW s \in Seq(S), Len(s) = 0
  PROVE  FlattenSeq(s) = <<>>
<1>1. FlattenSeq(s) = s BY DEF FlattenSeq
<1>. QED BY <1>1, EmptySeq

LEMMA FlattenType ==
  ASSUME NEW S, NEW s \in Seq(Seq(S))
  PROVE  FlattenSeq(s) \in Seq(S)
<1>1. Len(s) \in Nat BY LenProperties
<1>2. CASE Len(s) = 0
  <2>1. FlattenSeq(s) = <<>> BY <1>2, FlattenNone
  <2>. QED BY <2>1
<1>3. CASE Len(s) # 0
  <2>1. PICK f : IsFlat(f, s, Len(s)) /\ FlattenSeq(s) = f[Len(s)] BY <1>1, <1>3, FlatIs
  <2>2. \A i \in Nat : i > 0 /\ i <= Len(s) => f[i] \in Seq(S) BY <1>1, <2>1, FlatType, SMTT(30)
  <2>3. Len(s) > 0 /\ Len(s) <= Len(s) BY <1>1, <1>3
  <2>4. f[Len(s)] \in Seq(S) BY <1>1, <2>2, <2>3, Zenon
  <2>. QED BY <2>1, <2>4
<1>. QED BY <1>2, <1>3

\* A sequence more at the end.
LEMMA FlattenLast ==
  ASSUME NEW S, NEW s \in Seq(Seq(S)), NEW t \in Seq(S), NEW u \in Seq(Seq(S)),
         Len(u) = Len(s) + 1, \A i \in 1 .. Len(s) : u[i] = s[i], u[Len(s) + 1] = t
  PROVE  FlattenSeq(u) = FlattenSeq(s) \o t
<1> DEFINE n == Len(s)
<1>1. n \in Nat /\ n + 1 \in Nat /\ n + 1 # 0 BY LenProperties
<1>2. PICK g : IsFlat(g, u, n + 1) /\ FlattenSeq(u) = g[n + 1] BY <1>1, FlatIs
<1>3. CASE n = 0
  <2>1. FlattenSeq(s) = <<>> BY <1>3, FlattenNone
  <2>2. n + 1 = 1 /\ n + 1 > 0 BY <1>3
  <2>3. n + 1 > 0 => g[1] = u[1]
    <3> DEFINE N == n + 1
    <3>1. IsFlat(g, u, N) /\ N \in Nat BY <1>1, <1>2
    <3>. HIDE DEF N, n
    <3>2. N > 0 => g[1] = u[1] BY <3>1, FlatSteps
    <3>. QED BY <3>2 DEF N
  <2>4. FlattenSeq(u) = t BY <1>2, <2>2, <2>3
  <2>5. <<>> \o t = t OBVIOUS
  <2>. QED BY <2>1, <2>4, <2>5
<1>4. CASE n # 0
  <2>1. PICK f : IsFlat(f, s, n) /\ FlattenSeq(s) = f[n] BY <1>1, <1>4, FlatIs
  <2>. HIDE DEF n
  <2>2. n <= n + 1 /\ n > 0 /\ n <= n /\ n < n + 1 BY <1>1, <1>4
  <2>3. \A i \in 1 .. n : u[i] = s[i] BY DEF n
  <2>4. \A i \in Nat : i > 0 /\ i <= n => g[i] = f[i]
    BY <1>1, <1>2, <2>1, <2>2, <2>3, FlatSame, SMTT(30)
  <2>5. g[n] = f[n] BY <1>1, <2>2, <2>4, Zenon
  <2>6. g[n + 1] = g[n] \o u[n + 1]
    <3> DEFINE N == n + 1
    <3>1. IsFlat(g, u, N) /\ N \in Nat BY <1>1, <1>2
    <3>2. n < N BY <2>2
    <3>. HIDE DEF N
    <3>3. \A i \in Nat : i > 0 /\ i < N => g[i + 1] = g[i] \o u[i + 1]
      BY <3>1, FlatSteps, ZenonT(60)
    <3>. QED BY <1>1, <2>2, <3>2, <3>3, Zenon
  <2>7. u[n + 1] = t BY DEF n
  <2>. QED BY <1>2, <2>1, <2>5, <2>6, <2>7, Zenon
<1>. QED BY <1>3, <1>4

\* The first sequence and the others.
LEMMA FlattenFirst ==
  ASSUME NEW S, NEW s \in Seq(Seq(S)), NEW t \in Seq(Seq(S)),
         Len(s) = Len(t) + 1, \A i \in 1 .. Len(t) : t[i] = s[i + 1]
  PROVE  FlattenSeq(s) = s[1] \o FlattenSeq(t)
<1> DEFINE n == Len(t)
<1>1. n \in Nat /\ n + 1 \in Nat /\ n + 1 # 0 /\ n + 1 > 0 BY LenProperties
<1>2. PICK f : IsFlat(f, s, n + 1) /\ FlattenSeq(s) = f[n + 1] BY <1>1, FlatIs
<1>3. s[1] \in Seq(S)
  <2>1. 1 \in 1 .. Len(s) BY <1>1
  <2>. QED BY <2>1, ElementOfSeq
<1>4. CASE n = 0
  <2>1. FlattenSeq(t) = <<>> BY <1>4, FlattenNone
  <2>2. n + 1 = 1 BY <1>4
  <2>3. f[1] = s[1]
    <3> DEFINE N == n + 1
    <3>1. IsFlat(f, s, N) /\ N \in Nat /\ N > 0 BY <1>1, <1>2
    <3>. HIDE DEF N, n
    <3>. QED BY <3>1, FlatSteps, ZenonT(60)
  <2>4. s[1] \o <<>> = s[1] BY <1>3
  <2>. QED BY <1>2, <2>1, <2>2, <2>3, <2>4
<1>5. CASE n # 0
  <2>1. PICK g : IsFlat(g, t, n) /\ FlattenSeq(t) = g[n] BY <1>1, <1>5, FlatIs
  <2>2. n + 1 <= Len(s) /\ n <= Len(t) /\ n > 0 /\ n <= n BY <1>1, <1>5
  <2>3. \A i \in 1 .. n : t[i] = s[i + 1] OBVIOUS
  <2>. HIDE DEF n
  <2>4. Shifted(f, g, s[1], n) BY <1>1, <1>2, <2>1, <2>2, <2>3, FlatShift
  <2>5. f[n + 1] = s[1] \o g[n] BY <1>1, <2>2, <2>4, Zenon DEF Shifted
  <2>. QED BY <1>2, <2>1, <2>5, Zenon
<1>. QED BY <1>4, <1>5
-----------------------------------------------------------------------------
(* Sequences put together and cut *)

\* When a sequence is cut in two ways, the pieces begin alike.
LEMMA Beginnings ==
  ASSUME NEW S, NEW a \in Seq(S), NEW s \in Seq(S), NEW b \in Seq(S), NEW t \in Seq(S),
         NEW c, Glued(S, a, s, c), Glued(S, b, t, c), Len(a) <= Len(b)
  PROVE  /\ \A i \in 1 .. Len(a) : a[i] = b[i]
         /\ Len(a) = Len(b) => s = t
<1>1. /\ Len(a) \in Nat /\ Len(b) \in Nat /\ Len(s) \in Nat /\ Len(t) \in Nat
  BY LenProperties
<1>2. /\ Len(c) = Len(a) + Len(s) /\ \A i \in 1 .. Len(a) : c[i] = a[i]
      /\ \A i \in 1 .. Len(s) : c[Len(a) + i] = s[i]
  BY DEF Glued
<1>3. /\ Len(c) = Len(b) + Len(t) /\ \A i \in 1 .. Len(b) : c[i] = b[i]
      /\ \A i \in 1 .. Len(t) : c[Len(b) + i] = t[i]
  BY DEF Glued
<1>4. ASSUME NEW i \in 1 .. Len(a) PROVE a[i] = b[i]
  <2>1. i \in 1 .. Len(b) BY <1>1
  <2>. QED BY <1>2, <1>3, <2>1
<1>5. ASSUME Len(a) = Len(b) PROVE s = t
  <2>1. Len(s) = Len(t) BY <1>1, <1>2, <1>3, <1>5
  <2>2. \A i \in 1 .. Len(s) : s[i] = t[i] BY <1>2, <1>3, <1>5, <2>1
  <2>. QED BY <2>1, <2>2, SeqEqual
<1>. QED BY <1>4, <1>5

\* Three pieces may be put together in either order.
LEMMA Regrouped ==
  ASSUME NEW S, NEW a \in Seq(S), NEW b \in Seq(S), NEW c \in Seq(S),
         NEW ab, NEW bc, NEW d, Glued(S, a, b, ab), Glued(S, b, c, bc)
  PROVE  Glued(S, ab, c, d) <=> Glued(S, a, bc, d)
<1>1. Len(a) \in Nat /\ Len(b) \in Nat /\ Len(c) \in Nat BY LenProperties
<1>2. /\ Len(ab) = Len(a) + Len(b) /\ \A i \in 1 .. Len(a) : ab[i] = a[i]
      /\ \A i \in 1 .. Len(b) : ab[Len(a) + i] = b[i]
  BY DEF Glued
<1>3. /\ Len(bc) = Len(b) + Len(c) /\ \A i \in 1 .. Len(b) : bc[i] = b[i]
      /\ \A i \in 1 .. Len(c) : bc[Len(b) + i] = c[i]
  BY DEF Glued
<1> DEFINE k == Len(a)
           l == Len(b)
           n == Len(c)
           Whole == /\ d \in Seq(S) /\ Len(d) = k + l + n
                    /\ \A i \in 1 .. k : d[i] = a[i]
                    /\ \A i \in 1 .. l : d[k + i] = b[i]
                    /\ \A i \in 1 .. n : d[k + l + i] = c[i]
<1>. HIDE DEF k, l, n
<1>4. k \in Nat /\ l \in Nat /\ n \in Nat BY <1>1 DEF k, l, n
<1>5. Glued(S, ab, c, d) <=> Whole
  <2>1. /\ Len(ab) = k + l /\ \A i \in 1 .. k : ab[i] = a[i]
        /\ \A i \in 1 .. l : ab[k + i] = b[i]
    BY <1>2 DEF k, l
  <2>2. Glued(S, ab, c, d) <=> /\ d \in Seq(S) /\ Len(d) = (k + l) + n
                               /\ \A i \in 1 .. k + l : d[i] = ab[i]
                               /\ \A i \in 1 .. n : d[(k + l) + i] = c[i]
    BY <2>1 DEF Glued, n
  <2>3. (\A i \in 1 .. k + l : d[i] = ab[i])
          <=> (\A i \in 1 .. k : d[i] = a[i]) /\ (\A i \in 1 .. l : d[k + i] = b[i])
    <3>1. ASSUME \A i \in 1 .. k + l : d[i] = ab[i]
          PROVE  (\A i \in 1 .. k : d[i] = a[i]) /\ (\A i \in 1 .. l : d[k + i] = b[i])
      <4>1. ASSUME NEW i \in 1 .. k PROVE d[i] = a[i]
        <5>1. i \in 1 .. k + l BY <1>4
        <5>. QED BY <2>1, <3>1, <5>1
      <4>2. ASSUME NEW i \in 1 .. l PROVE d[k + i] = b[i]
        <5>1. k + i \in 1 .. k + l BY <1>4
        <5>. QED BY <2>1, <3>1, <5>1
      <4>. QED BY <4>1, <4>2
    <3>2. ASSUME \A i \in 1 .. k : d[i] = a[i], \A i \in 1 .. l : d[k + i] = b[i],
                 NEW i \in 1 .. k + l
          PROVE  d[i] = ab[i]
      <4>1. CASE i <= k
        <5>1. i \in 1 .. k BY <4>1
        <5>. QED BY <2>1, <3>2, <5>1
      <4>2. CASE ~ (i <= k)
        <5>1. i - k \in 1 .. l /\ k + (i - k) = i BY <1>4, <4>2
        <5>2. d[k + (i - k)] = b[i - k] BY <3>2, <5>1
        <5>3. ab[k + (i - k)] = b[i - k] BY <2>1, <5>1
        <5>. QED BY <5>1, <5>2, <5>3
      <4>. QED BY <4>1, <4>2
    <3>. QED BY <3>1, <3>2
  <2>. QED BY <2>2, <2>3
<1>6. Glued(S, a, bc, d) <=> Whole
  <2>1. /\ Len(bc) = l + n /\ \A i \in 1 .. l : bc[i] = b[i]
        /\ \A i \in 1 .. n : bc[l + i] = c[i]
    BY <1>3 DEF l, n
  <2>2. Glued(S, a, bc, d) <=> /\ d \in Seq(S) /\ Len(d) = k + (l + n)
                               /\ \A i \in 1 .. k : d[i] = a[i]
                               /\ \A i \in 1 .. l + n : d[k + i] = bc[i]
    BY <2>1 DEF Glued, k
  <2>3. (\A i \in 1 .. l + n : d[k + i] = bc[i])
          <=> (\A i \in 1 .. l : d[k + i] = b[i]) /\ (\A i \in 1 .. n : d[k + l + i] = c[i])
    <3>1. ASSUME \A i \in 1 .. l + n : d[k + i] = bc[i]
          PROVE  (\A i \in 1 .. l : d[k + i] = b[i]) /\ (\A i \in 1 .. n : d[k + l + i] = c[i])
      <4>1. ASSUME NEW i \in 1 .. l PROVE d[k + i] = b[i]
        <5>1. i \in 1 .. l + n BY <1>4
        <5>. QED BY <2>1, <3>1, <5>1
      <4>2. ASSUME NEW i \in 1 .. n PROVE d[k + l + i] = c[i]
        <5>1. l + i \in 1 .. l + n /\ k + (l + i) = k + l + i BY <1>4
        <5>2. d[k + (l + i)] = bc[l + i] BY <3>1, <5>1
        <5>. QED BY <2>1, <5>1, <5>2
      <4>. QED BY <4>1, <4>2
    <3>2. ASSUME \A i \in 1 .. l : d[k + i] = b[i], \A i \in 1 .. n : d[k + l + i] = c[i],
                 NEW i \in 1 .. l + n
          PROVE  d[k + i] = bc[i]
      <4>1. CASE i <= l
        <5>1. i \in 1 .. l BY <4>1
        <5>. QED BY <2>1, <3>2, <5>1
      <4>2. CASE ~ (i <= l)
        <5>1. i - l \in 1 .. n /\ l + (i - l) = i /\ k + l + (i - l) = k + i BY <1>4, <4>2
        <5>2. d[k + l + (i - l)] = c[i - l] BY <3>2, <5>1
        <5>3. bc[l + (i - l)] = c[i - l] BY <2>1, <5>1
        <5>. QED BY <5>1, <5>2, <5>3
      <4>. QED BY <4>1, <4>2
    <3>. QED BY <3>1, <3>2
  <2>4. k + (l + n) = k + l + n BY <1>4
  <2>. QED BY <2>2, <2>3, <2>4
<1>. QED BY <1>5, <1>6

\* A sequence is put together again from its two pieces.
LEMMA Pieces ==
  ASSUME NEW S, NEW s \in Seq(S), NEW n \in 0 .. Len(s)
  PROVE  /\ SubSeq(s, 1, n) \in Seq(S) /\ SubSeq(s, n + 1, Len(s)) \in Seq(S)
         /\ Len(SubSeq(s, 1, n)) = n /\ Len(SubSeq(s, n + 1, Len(s))) = Len(s) - n
         /\ Glued(S, SubSeq(s, 1, n), SubSeq(s, n + 1, Len(s)), s)
<1> DEFINE a == SubSeq(s, 1, n)
           b == SubSeq(s, n + 1, Len(s))
<1>1. Len(s) \in Nat /\ n \in Nat /\ n <= Len(s)
  <2>1. Len(s) \in Nat BY LenProperties
  <2>. QED BY <2>1
<1>2. \A i \in 1 .. Len(s) : s[i] \in S BY ElementOfSeq
<1>3. a \in Seq(S) /\ Len(a) = n /\ \A i \in 1 .. n : a[i] = s[i]
  <2>1. \A i \in 1 .. n : s[i] \in S BY <1>1, <1>2
  <2>2. /\ a \in Seq(S) /\ Len(a) = (IF 1 <= n THEN n - 1 + 1 ELSE 0)
        /\ \A i \in 1 .. n - 1 + 1 : a[i] = s[1 + i - 1]
    BY <1>1, <2>1, SubSeqProperties
  <2>. HIDE DEF a
  <2>3. Len(a) = n /\ n - 1 + 1 = n BY <1>1, <2>2
  <2>4. ASSUME NEW i \in 1 .. n PROVE a[i] = s[i]
    <3>1. i \in 1 .. n - 1 + 1 /\ 1 + i - 1 = i BY <1>1
    <3>2. a[i] = s[1 + i - 1] BY <2>2, <3>1
    <3>. QED BY <3>1, <3>2
  <2>. QED BY <2>2, <2>3, <2>4
<1>4. b \in Seq(S) /\ Len(b) = Len(s) - n /\ \A i \in 1 .. Len(s) - n : b[i] = s[n + i]
  <2> DEFINE k == Len(s)
  <2>1. \A i \in n + 1 .. k : s[i] \in S BY <1>1, <1>2
  <2>2. /\ b \in Seq(S) /\ Len(b) = (IF n + 1 <= k THEN k - (n + 1) + 1 ELSE 0)
        /\ \A i \in 1 .. k - (n + 1) + 1 : b[i] = s[(n + 1) + i - 1]
    BY <1>1, <2>1, SubSeqProperties
  <2>3. k \in Nat BY <1>1
  <2>4. n <= k BY <1>1
  <2>. HIDE DEF b, k
  <2>5. Len(b) = k - n BY <1>1, <2>2, <2>3, <2>4
  <2>6. ASSUME NEW i \in 1 .. k - n PROVE b[i] = s[n + i]
    <3>1. i \in 1 .. k - (n + 1) + 1 /\ (n + 1) + i - 1 = n + i BY <1>1, <2>3
    <3>2. b[i] = s[(n + 1) + i - 1] BY <2>2, <3>1
    <3>. QED BY <3>1, <3>2
  <2>. QED BY <2>2, <2>5, <2>6 DEF k
<1>. HIDE DEF a, b
<1>5. ASSUME NEW j \in 1 .. Len(b) PROVE s[Len(a) + j] = b[j]
  BY <1>3, <1>4
<1>6. Len(s) = Len(a) + Len(b) BY <1>1, <1>3, <1>4
<1>7. Glued(S, a, b, s) BY <1>3, <1>5, <1>6 DEF Glued
<1>. QED BY <1>3, <1>4, <1>7 DEF a, b

\* What a buffer holds.
LEMMA FrontHolds ==
  ASSUME NEW b, Sound(b)
  PROVE  Holds(b, ReadAllBytes(b)) /\ ReadAllBytes(b) \in Seq(Memory)
         /\ Len(ReadAllBytes(b)) = b.write
<1> DEFINE s == SubSeq(b.data, 1, b.write)
<1>1. b.data \in Seq(Memory) /\ b.write \in Nat /\ b.write <= Len(b.data) BY DEF Sound, Shape
<1>2. Len(b.data) \in Nat BY <1>1, LenProperties
<1>3. \A i \in 1 .. b.write : b.data[i] \in Memory BY <1>1, <1>2, ElementOfSeq
<1>4. /\ s \in Seq(Memory) /\ Len(s) = (IF 1 <= b.write THEN b.write - 1 + 1 ELSE 0)
      /\ \A i \in 1 .. b.write - 1 + 1 : s[i] = b.data[1 + i - 1]
  BY <1>1, <1>3, SubSeqProperties
<1>. HIDE DEF s
<1>5. Len(s) = b.write /\ b.write - 1 + 1 = b.write BY <1>1, <1>4
<1>6. ASSUME NEW i \in 1 .. Len(s) PROVE b.data[i] = s[i]
  <2>1. i \in 1 .. b.write - 1 + 1 /\ 1 + i - 1 = i BY <1>1, <1>5
  <2>2. s[i] = b.data[1 + i - 1] BY <1>4, <2>1
  <2>. QED BY <2>1, <2>2
<1>7. ReadAllBytes(b) = s BY DEF ReadAllBytes, s
<1>. QED BY <1>4, <1>5, <1>6, <1>7 DEF Holds

LEMMA HoldsFront ==
  ASSUME NEW b, NEW s, Holds(b, s)
  PROVE  ReadAllBytes(b) = s
<1>1. Sound(b) /\ s \in Seq(Memory) /\ b.write = Len(s) /\ \A i \in 1 .. Len(s) : b.data[i] = s[i]
  BY DEF Holds
<1> DEFINE t == ReadAllBytes(b)
<1>2. /\ t \in Seq(Memory) /\ Len(t) = b.write /\ \A i \in 1 .. Len(t) : b.data[i] = t[i]
  BY <1>1, FrontHolds DEF Holds
<1>. HIDE DEF t
<1>3. t = s BY <1>1, <1>2, SeqEqual
<1>. QED BY <1>3 DEF t

\* Receiving bytes for which there is room adds them to what the buffer holds.
LEMMA FrontGrows ==
  ASSUME NEW b, Sound(b), NEW bytes \in Seq(Memory), b.write + Len(bytes) <= Len(b.data)
  PROVE  /\ Glued(Memory, ReadAllBytes(b), bytes, ReadAllBytes(WriteBytes(b, bytes)))
         /\ Sound(WriteBytes(b, bytes)) /\ WriteBytes(b, bytes).write = b.write + Len(bytes)
         /\ Len(WriteBytes(b, bytes).data) = Len(b.data)
<1> DEFINE front == ReadAllBytes(b)
           both == front \o bytes
<1>1. Holds(b, front) /\ front \in Seq(Memory) /\ Len(front) = b.write BY FrontHolds
<1>. HIDE DEF front
<1>2. Holds(WriteBytes(b, bytes), both) BY <1>1, Appends
<1>4. Glued(Memory, front, bytes, both) BY <1>1, Joined
<1>. HIDE DEF both
<1>5. ReadAllBytes(WriteBytes(b, bytes)) = both BY <1>2, HoldsFront
<1>3. /\ Sound(WriteBytes(b, bytes)) /\ WriteBytes(b, bytes).write = b.write + Len(bytes)
      /\ Len(WriteBytes(b, bytes).data) = Len(b.data)
  BY WriteBytesContent
<1>. QED BY <1>3, <1>4, <1>5 DEF front

\* Making room for a message keeps what has been received of it.
LEMMA RoomForFront ==
  ASSUME NEW b, Sound(b), NEW size \in Nat, b.write <= size
  PROVE  ReadAllBytes(RoomFor(MoveReadForward(b, HeaderSize), size)) = ReadAllBytes(b)
<1> DEFINE c == MoveReadForward(b, HeaderSize)
           s == ReadAllBytes(b)
<1>1. Sound(c) /\ c.data = b.data /\ c.write = b.write
  BY MoveReadSound DEF HeaderSize
<1>. HIDE DEF c
<1>2. Holds(b, s) BY FrontHolds
<1>3. Holds(c, s) BY <1>1, <1>2 DEF Holds
<1>4. CASE Len(c.data) < size
  <2>1. RoomFor(c, size) = Realloc(c, size) BY <1>4 DEF RoomFor
  <2>2. /\ Sound(Realloc(c, size)) /\ Realloc(c, size).write = c.write
        /\ \A i \in 1 .. c.write : Realloc(c, size).data[i] = c.data[i]
    BY <1>1, ReallocLarger
  <2>. HIDE DEF s
  <2>3. Holds(Realloc(c, size), s) BY <1>3, <2>2 DEF Holds
  <2>. QED BY <2>1, <2>3, HoldsFront DEF c, s
<1>5. CASE ~ (Len(c.data) < size)
  <2>1. RoomFor(c, size) = c BY <1>5 DEF RoomFor
  <2>. HIDE DEF s
  <2>. QED BY <1>3, <2>1, HoldsFront DEF c, s
<1>. QED BY <1>4, <1>5
-----------------------------------------------------------------------------
(* The messages that are still to come *)

\* The bytes of the messages from the n-th on, the n-th excluded.
Later(q, n) == [i \in 1 .. Len(q) - n |-> BytesSent(q[n + i])]
Rest(q, n) == FlattenSeq(Later(q, n))

LEMMA SentType ==
  ASSUME NEW q \in Seq(Outgoing), NEW n \in 1 .. Len(q)
  PROVE  /\ q[n] \in Outgoing /\ q[n] \in Buildable /\ Worded(q[n]) /\ Sized(q[n])
         /\ Constructible(q[n])
         /\ BytesSent(q[n]) \in Seq(Memory)
<1>1. q[n] \in Outgoing BY ElementOfSeq
<1>2. q[n] \in Buildable /\ Constructible(q[n]) BY <1>1, OutgoingAssumption, RecordsBuildable
<1>3. Worded(q[n]) /\ Sized(q[n]) BY <1>2, ConstructibleFits
<1>4. BytesSent(q[n]) \in Seq(Memory) BY <1>2, BytesSentType
<1>. QED BY <1>1, <1>2, <1>3, <1>4

LEMMA LaterType ==
  ASSUME NEW q \in Seq(Outgoing), NEW n \in 0 .. Len(q)
  PROVE  /\ Later(q, n) \in Seq(Seq(Memory)) /\ Len(Later(q, n)) = Len(q) - n
         /\ \A i \in 1 .. Len(q) - n : Later(q, n)[i] = BytesSent(q[n + i])
<1>1. Len(q) \in Nat BY LenProperties
<1>2. n \in Nat /\ Len(q) - n \in Nat BY <1>1
<1>3. ASSUME NEW i \in 1 .. Len(q) - n PROVE BytesSent(q[n + i]) \in Seq(Memory)
  <2>1. n + i \in 1 .. Len(q) BY <1>1, <1>2
  <2>. QED BY <2>1, SentType
<1> DEFINE k == Len(q) - n
           s == Later(q, n)
<1>4. s = [i \in 1 .. k |-> BytesSent(q[n + i])] BY DEF Later
<1>5. k \in Nat BY <1>2
<1>6. \A i \in 1 .. k : BytesSent(q[n + i]) \in Seq(Memory) BY <1>3
<1>. HIDE DEF k, s
<1>7. s \in Seq(Seq(Memory)) /\ Len(s) = k /\ \A i \in 1 .. k : s[i] = BytesSent(q[n + i])
  BY <1>4, <1>5, <1>6
<1>. QED BY <1>7 DEF k, s

LEMMA RestType ==
  ASSUME NEW q \in Seq(Outgoing), NEW n \in 0 .. Len(q)
  PROVE  Rest(q, n) \in Seq(Memory)
BY LaterType, FlattenType DEF Rest

\* Nothing comes after the last message.
LEMMA RestNone ==
  ASSUME NEW q \in Seq(Outgoing)
  PROVE  Rest(q, Len(q)) = <<>>
<1>1. Len(q) \in Nat BY LenProperties
<1>2. Len(q) \in 0 .. Len(q) /\ Len(q) - Len(q) = 0 BY <1>1
<1>3. Later(q, Len(q)) \in Seq(Seq(Memory)) /\ Len(Later(q, Len(q))) = 0
  BY <1>2, LaterType
<1>. QED BY <1>3, FlattenNone DEF Rest

\* The next message comes first.
LEMMA RestNext ==
  ASSUME NEW q \in Seq(Outgoing), NEW n \in Nat, n < Len(q)
  PROVE  Glued(Memory, BytesSent(q[n + 1]), Rest(q, n + 1), Rest(q, n))
<1>1. Len(q) \in Nat BY LenProperties
<1>2. n \in 0 .. Len(q) /\ n + 1 \in 0 .. Len(q) BY <1>1
<1> DEFINE s == Later(q, n)
           t == Later(q, n + 1)
<1>3. /\ s \in Seq(Seq(Memory)) /\ Len(s) = Len(q) - n
      /\ \A i \in 1 .. Len(q) - n : s[i] = BytesSent(q[n + i])
  BY <1>2, LaterType
<1>4. /\ t \in Seq(Seq(Memory)) /\ Len(t) = Len(q) - (n + 1)
      /\ \A i \in 1 .. Len(q) - (n + 1) : t[i] = BytesSent(q[(n + 1) + i])
  BY <1>2, LaterType
<1>. HIDE DEF s, t
<1>5. Len(s) = Len(t) + 1 BY <1>1, <1>3, <1>4
<1>6. ASSUME NEW i \in 1 .. Len(t) PROVE t[i] = s[i + 1]
  <2>1. /\ i \in 1 .. Len(q) - (n + 1) /\ i + 1 \in 1 .. Len(q) - n
        /\ (n + 1) + i = n + (i + 1)
    BY <1>1, <1>4
  <2>2. t[i] = BytesSent(q[(n + 1) + i]) BY <1>4, <2>1
  <2>3. s[i + 1] = BytesSent(q[n + (i + 1)]) BY <1>3, <2>1
  <2>. QED BY <2>1, <2>2, <2>3
<1>7. s[1] = BytesSent(q[n + 1])
  <2>1. 1 \in 1 .. Len(q) - n BY <1>1
  <2>. QED BY <1>3, <2>1
<1> DEFINE first == s[1]
           rest == FlattenSeq(t)
           both == first \o rest
<1>8. FlattenSeq(s) = both BY <1>3, <1>4, <1>5, <1>6, FlattenFirst
<1>9. first \in Seq(Memory) /\ rest \in Seq(Memory)
  <2>1. 1 \in 1 .. Len(s) BY <1>1, <1>3
  <2>. QED BY <1>3, <1>4, <2>1, ElementOfSeq, FlattenType
<1>. HIDE DEF first, rest
<1>10. Glued(Memory, first, rest, both) BY <1>9, Joined
<1>. HIDE DEF both
<1>. QED BY <1>7, <1>8, <1>10 DEF Rest, s, t, first, rest

\* A message that is sent comes last.
LEMMA RestMore ==
  ASSUME NEW q \in Seq(Outgoing), NEW m \in Outgoing, NEW n \in 0 .. Len(q)
  PROVE  Glued(Memory, Rest(q, n), BytesSent(m), Rest(Append(q, m), n))
<1> DEFINE r == Append(q, m)
           s == Later(q, n)
           u == Later(r, n)
<1>1. Len(q) \in Nat BY LenProperties
<1>2. /\ r \in Seq(Outgoing) /\ Len(r) = Len(q) + 1 /\ r[Len(q) + 1] = m
      /\ \A i \in 1 .. Len(q) : r[i] = q[i]
  BY AppendProperties
<1>. HIDE DEF r
<1>3. n \in 0 .. Len(r) BY <1>1, <1>2
<1>4. /\ s \in Seq(Seq(Memory)) /\ Len(s) = Len(q) - n
      /\ \A i \in 1 .. Len(q) - n : s[i] = BytesSent(q[n + i])
  BY LaterType
<1>5. /\ u \in Seq(Seq(Memory)) /\ Len(u) = Len(r) - n
      /\ \A i \in 1 .. Len(r) - n : u[i] = BytesSent(r[n + i])
  BY <1>2, <1>3, LaterType
<1>. HIDE DEF s, u
<1>6. Len(u) = Len(s) + 1 BY <1>1, <1>2, <1>4, <1>5
<1>7. ASSUME NEW i \in 1 .. Len(s) PROVE u[i] = s[i]
  <2>1. i \in 1 .. Len(q) - n /\ i \in 1 .. Len(r) - n /\ n + i \in 1 .. Len(q)
    BY <1>1, <1>2, <1>4
  <2>. QED BY <1>2, <1>4, <1>5, <2>1
<1>8. u[Len(s) + 1] = BytesSent(m)
  <2>1. Len(s) + 1 \in 1 .. Len(r) - n /\ n + (Len(s) + 1) = Len(q) + 1 BY <1>1, <1>2, <1>4
  <2>2. u[Len(s) + 1] = BytesSent(r[n + (Len(s) + 1)]) BY <1>5, <2>1
  <2>. QED BY <1>2, <2>1, <2>2
<1>9. BytesSent(m) \in Seq(Memory)
  BY OutgoingAssumption, RecordsBuildable, BytesSentType
<1> DEFINE rest == FlattenSeq(s)
           last == BytesSent(m)
           both == rest \o last
<1>10. FlattenSeq(u) = both
  BY <1>4, <1>5, <1>6, <1>7, <1>8, <1>9, FlattenLast
<1>11. rest \in Seq(Memory) BY <1>4, FlattenType
<1>. HIDE DEF rest, last
<1>12. Glued(Memory, rest, last, both) BY <1>9, <1>11, Joined DEF last
<1>. HIDE DEF both
<1>. QED BY <1>10, <1>12 DEF Rest, r, s, u, rest, last
-----------------------------------------------------------------------------
(* In step *)

\* A buffer that holds at least a header of what is still to come holds the
\* beginning of the next message.
LEMMA NextArrives ==
  ASSUME NEW q \in Seq(Outgoing), NEW n \in 0 .. Len(q), NEW b, Sound(b),
         NEW s \in Seq(Memory), Glued(Memory, ReadAllBytes(b), s, Rest(q, n)),
         24 <= b.write
  PROVE  LET m == q[n + 1]
         IN  /\ n < Len(q)
             /\ HeaderArrived(b, m)
             /\ b.write <= 24 + BodyLen(m) =>
                  \A i \in 1 .. b.write : b.data[i] = BytesSent(m)[i]
             /\ b.write = 24 + BodyLen(m) => s = Rest(q, n + 1)
<1> DEFINE m == q[n + 1]
           front == ReadAllBytes(b)
           rest == Rest(q, n + 1)
           bytes == BytesSent(m)
           w == b.write
<1>1. /\ front \in Seq(Memory) /\ Len(front) = w
      /\ \A i \in 1 .. Len(front) : b.data[i] = front[i]
  BY FrontHolds DEF Holds
<1>2. Len(q) \in Nat /\ n \in Nat /\ n <= Len(q)
  <2>1. Len(q) \in Nat BY LenProperties
  <2>. QED BY <2>1
<1>3. /\ b.data \in Seq(Memory) /\ w \in Nat /\ w <= Len(b.data) /\ Len(b.data) \in Nat
  BY LenProperties DEF Sound, Shape
<1>4. n < Len(q)
  <2>. SUFFICES ASSUME n = Len(q) PROVE FALSE
    BY <1>2
  <2>2. Glued(Memory, front, s, <<>>) BY RestNone
  <2>3. Len(<<>>) = Len(front) + Len(s) BY <2>2 DEF Glued
  <2>4. Len(s) \in Nat /\ Len(<<>>) = 0 BY LenProperties
  <2>. HIDE DEF front, w
  <2>. QED BY <1>1, <1>3, <2>3, <2>4 DEF w
<1>5. n + 1 \in 1 .. Len(q) /\ n + 1 \in 0 .. Len(q) BY <1>2, <1>4
<1>6. /\ m \in Buildable /\ Worded(m) /\ bytes \in Seq(Memory) /\ rest \in Seq(Memory)
  BY <1>5, SentType, RestType
<1>7. /\ Len(bytes) = 24 + BodyLen(m) /\ BodyLen(m) \in Nat
      /\ \A i \in 1 .. 24 : bytes[i] = HeaderBytes(HeaderOf(m))[i]
  BY <1>6, BuiltBytes, BodyType
<1>8. /\ Glued(Memory, front, s, Rest(q, n))
      /\ Glued(Memory, bytes, rest, Rest(q, n))
  BY <1>2, <1>4, RestNext
<1>. HIDE DEF front, rest, bytes, m
<1>9. /\ Len(front) <= Len(bytes) => \A i \in 1 .. Len(front) : front[i] = bytes[i]
      /\ Len(front) = Len(bytes) => s = rest
  <2>1. ASSUME Len(front) <= Len(bytes)
        PROVE  /\ \A i \in 1 .. Len(front) : front[i] = bytes[i]
               /\ Len(front) = Len(bytes) => s = rest
    BY <1>1, <1>6, <1>8, <2>1, Beginnings
  <2>2. Len(front) = Len(bytes) => Len(front) <= Len(bytes) BY <1>1, <1>3
  <2>. QED BY <2>1, <2>2, Zenon
<1>10. Len(bytes) <= Len(front) => \A i \in 1 .. Len(bytes) : bytes[i] = front[i]
  BY <1>1, <1>6, <1>8, Beginnings
<1>15. /\ 24 <= Len(front) /\ Len(front) \in Nat
       /\ 24 <= Len(bytes) /\ Len(bytes) \in Nat
       /\ 24 <= w
  <2> DEFINE k == Len(front)
             l == Len(bytes)
             c == BodyLen(m)
  <2>1. 24 <= w OBVIOUS
  <2>2. k = w /\ l = 24 + c /\ c \in Nat /\ w \in Nat BY <1>1, <1>3, <1>7
  <2>. HIDE DEF w, k, l, c
  <2>3. 24 <= k /\ k \in Nat /\ 24 <= l /\ l \in Nat BY <2>1, <2>2
  <2>. QED BY <2>1, <2>3 DEF k, l
<1>. HIDE DEF w
<1>11. ASSUME NEW i \in 1 .. 24 PROVE b.data[i] = HeaderBytes(HeaderOf(m))[i]
  <2>1. i \in 1 .. Len(front) /\ i \in 1 .. Len(bytes) BY <1>15
  <2>2. Len(front) <= Len(bytes) \/ Len(bytes) <= Len(front) BY <1>15
  <2>3. front[i] = bytes[i] BY <1>9, <1>10, <2>1, <2>2
  <2>. QED BY <1>1, <1>7, <2>1, <2>3
<1>12. HeaderArrived(b, m)
  <2>1. 24 <= Len(b.data) BY <1>3, <1>15
  <2>. QED BY <1>11, <2>1 DEF HeaderArrived
<1>13. w <= 24 + BodyLen(m) => \A i \in 1 .. w : b.data[i] = bytes[i]
  BY <1>1, <1>7, <1>9
<1>14. w = 24 + BodyLen(m) => s = rest BY <1>1, <1>7, <1>9
<1>. QED BY <1>4, <1>12, <1>13, <1>14 DEF m, bytes, rest, w

\* What a receive takes from the stream it puts behind what is in the buffer.
LEMMA Receiving ==
  ASSUME stream \in Seq(Memory), NEW size \in Int, NEW bytes \in Received(size),
         NEW b, Sound(b), b.write + size <= Len(b.data),
         NEW c, Glued(Memory, ReadAllBytes(b), stream, c)
  PROVE  LET r == WriteBytes(b, bytes)
         IN  /\ Glued(Memory, ReadAllBytes(r), SubSeq(stream, Len(bytes) + 1, Len(stream)), c)
             /\ Sound(r) /\ r.write = b.write + Len(bytes) /\ r.write <= b.write + size
             /\ Len(r.data) = Len(b.data) /\ bytes \in Seq(Memory)
<1> DEFINE r == WriteBytes(b, bytes)
           rest == SubSeq(stream, Len(bytes) + 1, Len(stream))
           front == ReadAllBytes(b)
           w == b.write
           l == Len(bytes)
           d == Len(b.data)
<1>1. Len(stream) \in Nat BY LenProperties
<1>2. PICK n \in 1 .. Lesser(size, Len(stream)) : bytes = SubSeq(stream, 1, n)
  BY DEF Received
<1>3. n \in 0 .. Len(stream) /\ n <= size BY <1>1, <1>2 DEF Lesser
<1>4. bytes \in Seq(Memory) /\ l = n BY <1>2, <1>3, Pieces
<1>5. rest \in Seq(Memory) /\ Glued(Memory, bytes, rest, stream)
  BY <1>2, <1>3, <1>4, Pieces
<1>6. w \in Nat /\ d \in Nat /\ l \in Nat /\ l <= size /\ w + size <= d
  <2>1. b.data \in Seq(Memory) /\ w \in Nat BY DEF Sound, Shape
  <2>2. l \in Nat BY <1>3, <1>4
  <2>3. w + size <= d OBVIOUS
  <2>4. d \in Nat BY <2>1, LenProperties
  <2>. QED BY <1>3, <1>4, <2>1, <2>2, <2>3, <2>4
<1>. HIDE DEF w, d, l
<1>7. w + l <= d /\ w + l <= w + size BY <1>6
<1>8. w + l <= d BY <1>7
<1>9. /\ Glued(Memory, front, bytes, ReadAllBytes(r))
      /\ Sound(r) /\ r.write = w + l /\ Len(r.data) = d
  BY <1>4, <1>8, FrontGrows DEF w, l, d
<1>10. front \in Seq(Memory) BY FrontHolds
<1>. HIDE DEF r, rest, front
<1>11. Glued(Memory, front, stream, c) BY DEF front
<1>12. Glued(Memory, ReadAllBytes(r), rest, c)
  BY <1>4, <1>5, <1>9, <1>10, <1>11, Regrouped
<1>13. r.write <= w + size BY <1>7, <1>9
<1>. QED BY <1>4, <1>9, <1>12, <1>13 DEF r, rest, w, l, d
-----------------------------------------------------------------------------
\* The inductive invariant: as long as no receive has timed out in the middle of a
\* message, what is in the buffer and what is in the stream make up the messages
\* that are still to be read, and the size is that of the one that is being read.
InTurn ==
  /\ pc = "select" => stream = Rest(sent, messages)
  /\ pc \in {"header", "body"} =>
       Glued(Memory, ReadAllBytes(readBuffer), stream, Rest(sent, messages))
  /\ pc = "body" => /\ messages < Len(sent)
                    /\ reqSize = 24 + BodyLen(sent[messages + 1])
                    /\ 24 <= readBuffer.write /\ readBuffer.write <= reqSize
  /\ pc # "terminated"
Aligned == messages \in 0 .. Len(sent) /\ (InStep => InTurn)

\* A message of which a header has been read in step can be parsed, in whatever class.
LEMMA NoWrap ==
  ASSUME NEW m \in Buildable, Worded(m), Sized(m), NEW b, HeaderArrived(b, m), NEW class
  PROVE  ~ SizeWraps(class, ParseHeader(b))
<1> DEFINE h == ParseHeader(b)
           f == Len(m.flags)
           x == Len(m.expires)
           k == Len(m.key) % KeyLenLimit
           v == Len(m.value)
<1>1. h.keyLen = k /\ h.extrasLen = f + x /\ h.total = BodyLen(m)
  BY HeaderRead
<1>2. f \in Nat /\ x \in Nat /\ v \in Nat /\ k \in Nat BY PartsType
<1>3. BodyLen(m) = f + x + k + v BY DEF BodyLen
<1>. HIDE DEF f, x, k, v, h
<1>4. ~ (h.total < h.keyLen + h.extrasLen) BY <1>1, <1>2, <1>3
<1>. QED BY <1>4 DEF SizeWraps, h

\* In step, a message that is being read is the next one.
LEMMA Reading ==
  ASSUME ReadInv, ReadTypes, Aligned, InStep, pc = "body"
  PROVE  LET m == sent[messages + 1]
         IN  /\ messages + 1 \in 1 .. Len(sent) /\ m \in Outgoing /\ m \in Buildable
             /\ Worded(m) /\ Sized(m) /\ Constructible(m)
             /\ HeaderArrived(readBuffer, m)
             /\ \A i \in 1 .. readBuffer.write : readBuffer.data[i] = BytesSent(m)[i]
             /\ readBuffer.write >= reqSize => stream = Rest(sent, messages + 1)
<1>1. sent \in Seq(Outgoing) /\ stream \in Seq(Memory) /\ Sound(readBuffer)
  BY DEF ReadInv, ReadTypes
<1>2. /\ messages \in 0 .. Len(sent) /\ messages < Len(sent)
      /\ reqSize = 24 + BodyLen(sent[messages + 1])
      /\ 24 <= readBuffer.write /\ readBuffer.write <= reqSize
      /\ Glued(Memory, ReadAllBytes(readBuffer), stream, Rest(sent, messages))
  BY DEF Aligned, InTurn
<1>3. Len(sent) \in Nat BY <1>1, LenProperties
<1>4. messages + 1 \in 1 .. Len(sent) BY <1>2, <1>3
<1> DEFINE m == sent[messages + 1]
<1>5. /\ m \in Outgoing /\ m \in Buildable /\ Worded(m) /\ Sized(m) /\ Constructible(m)
  BY <1>1, <1>4, SentType
<1>6. /\ HeaderArrived(readBuffer, m)
      /\ readBuffer.write <= 24 + BodyLen(m) =>
           \A i \in 1 .. readBuffer.write : readBuffer.data[i] = BytesSent(m)[i]
      /\ readBuffer.write = 24 + BodyLen(m) => stream = Rest(sent, messages + 1)
  BY <1>1, <1>2, NextArrives
<1>. HIDE DEF m
<1>7. \A i \in 1 .. readBuffer.write : readBuffer.data[i] = BytesSent(m)[i]
  BY <1>2, <1>6 DEF m
<1>8. readBuffer.write >= reqSize => readBuffer.write = 24 + BodyLen(m)
  <2>1. readBuffer.write \in Nat /\ reqSize \in Nat BY <1>1 DEF ReadTypes, Sound, Shape
  <2>2. readBuffer.write >= reqSize => readBuffer.write = reqSize BY <1>2, <2>1
  <2>. QED BY <1>2, <2>2 DEF m
<1>. QED BY <1>4, <1>5, <1>6, <1>7, <1>8 DEF m

\* A dispatch in step: the next message has been taken from the stream or, when the
\* receive has timed out, the step is lost.  (Or there is no memory for the value.)
LEMMA DispatchAligned ==
  ASSUME ReadInv, ReadTypes, Aligned, pc = "body", Dispatch
  PROVE  /\ messages' \in 0 .. Len(sent')
         /\ InStep => /\ UNCHANGED <<sent, stream>>
                      /\ \/ pc' = "select" /\ messages' = messages + 1
                         \/ pc' = "exhausted"
<1>1. /\ UNCHANGED <<sent, stream>>
      /\ messages' = IF InStep /\ pc' = "select" THEN messages + 1 ELSE messages
  BY DEF Dispatch
<1>2. CASE ~ InStep BY <1>1, <1>2 DEF Aligned
<1>3. CASE InStep
  <2>1. PICK m : /\ messages + 1 \in 1 .. Len(sent) /\ m \in Buildable /\ Worded(m)
                 /\ Sized(m) /\ HeaderArrived(readBuffer, m)
    BY <1>3, Reading
  <2>2. \A class : ~ SizeWraps(class, ParseHeader(readBuffer)) BY <2>1, NoWrap
  <2>3. pc' \in {"select", "exhausted"} BY <2>2 DEF Dispatch
  <2>4. messages + 1 \in 0 .. Len(sent) BY <2>1
  <2>5. messages \in 0 .. Len(sent) BY DEF Aligned
  <2>. QED BY <1>1, <1>3, <2>3, <2>4, <2>5
<1>. QED BY <1>2, <1>3

LEMMA GluedOnce ==
  ASSUME NEW S, NEW a \in Seq(S), NEW b \in Seq(S), NEW c, NEW d,
         Glued(S, a, b, c), Glued(S, a, b, d)
  PROVE  c = d
<1>1. /\ c \in Seq(S) /\ Len(c) = Len(a) + Len(b) /\ \A i \in 1 .. Len(a) : c[i] = a[i]
      /\ \A i \in 1 .. Len(b) : c[Len(a) + i] = b[i]
  BY DEF Glued
<1>2. /\ d \in Seq(S) /\ Len(d) = Len(a) + Len(b) /\ \A i \in 1 .. Len(a) : d[i] = a[i]
      /\ \A i \in 1 .. Len(b) : d[Len(a) + i] = b[i]
  BY DEF Glued
<1> DEFINE k == Len(a)
           l == Len(b)
<1>3. k \in Nat /\ l \in Nat BY LenProperties
<1>4. /\ \A i \in 1 .. k : c[i] = d[i]
      /\ \A i \in 1 .. l : c[k + i] = d[k + i]
  BY <1>1, <1>2
<1>5. Len(c) = k + l /\ Len(d) = k + l BY <1>1, <1>2
<1>. HIDE DEF k, l
<1>6. ASSUME NEW i \in 1 .. Len(c) PROVE c[i] = d[i]
  <2>1. i \in Nat /\ i <= k + l /\ i >= 1 BY <1>3, <1>5
  <2>2. CASE i <= k BY <1>3, <1>4, <2>1, <2>2
  <2>3. CASE ~ (i <= k)
    <3>1. i - k \in 1 .. l /\ k + (i - k) = i BY <1>3, <2>1, <2>3
    <3>. QED BY <1>4, <3>1
  <2>. QED BY <2>2, <2>3
<1>. QED BY <1>1, <1>2, <1>5, <1>6, SeqEqual

\* Nothing in the buffer: the stream is all there is.
LEMMA FrontEmpty ==
  ASSUME NEW b, Sound(b), b.write = 0, NEW s \in Seq(Memory), NEW c \in Seq(Memory)
  PROVE  Glued(Memory, ReadAllBytes(b), s, c) <=> c = s
<1> DEFINE front == ReadAllBytes(b)
<1>1. front \in Seq(Memory) /\ Len(front) = 0 BY FrontHolds
<1>. HIDE DEF front
<1>2. Glued(Memory, front, s, s)
  <2>1. Len(s) \in Nat BY LenProperties
  <2>2. Len(s) = Len(front) + Len(s) BY <1>1, <2>1
  <2>3. \A i \in 1 .. Len(s) : s[Len(front) + i] = s[i] BY <1>1
  <2>4. \A i \in 1 .. Len(front) : s[i] = front[i] BY <1>1
  <2>. QED BY <2>2, <2>3, <2>4 DEF Glued
<1>3. Glued(Memory, front, s, c) => c = s BY <1>1, <1>2, GluedOnce
<1>. QED BY <1>2, <1>3 DEF front

\* A message more at the end of the stream.
LEMMA SendAligned ==
  ASSUME ReadInv, ReadTypes, Aligned, NEW m \in Outgoing, Send(m)
  PROVE  Aligned'
<1>1. /\ sent' = Append(sent, m) /\ stream' = stream \o BytesSent(m)
      /\ UNCHANGED <<pc, readBuffer, reqSize, messages, cuts>>
  BY DEF Send, handlerVars
<1>2. sent \in Seq(Outgoing) /\ stream \in Seq(Memory) /\ Sound(readBuffer)
  BY DEF ReadInv, ReadTypes
<1>3. /\ sent' \in Seq(Outgoing) /\ Len(sent') = Len(sent) + 1 /\ Len(sent) \in Nat
      /\ \A i \in 1 .. Len(sent) : sent'[i] = sent[i]
  BY <1>1, <1>2, AppendProperties, LenProperties
<1>4. messages \in 0 .. Len(sent) BY DEF Aligned
<1>5. messages' \in 0 .. Len(sent') BY <1>1, <1>3, <1>4
<1> DEFINE bytes == BytesSent(m)
           rest == Rest(sent, messages)
           more == Rest(sent', messages)
           front == ReadAllBytes(readBuffer)
<1>6. bytes \in Seq(Memory) BY OutgoingAssumption, RecordsBuildable, BytesSentType
<1>7. Glued(Memory, rest, bytes, more) BY <1>1, <1>2, <1>4, RestMore
<1>8. rest \in Seq(Memory) BY <1>2, <1>4, RestType
<1>9. Glued(Memory, stream, bytes, stream') BY <1>1, <1>2, <1>6, Joined
<1>10. front \in Seq(Memory) BY <1>2, FrontHolds
<1>. HIDE DEF bytes, rest, more, front
<1>11. ASSUME InStep, pc = "select" PROVE stream' = more
  <2>1. stream = rest BY <1>11 DEF Aligned, InTurn, rest
  <2>. QED BY <1>2, <1>6, <1>7, <1>9, <2>1, GluedOnce
<1>12. ASSUME InStep, pc \in {"header", "body"} PROVE Glued(Memory, front, stream', more)
  <2>1. Glued(Memory, front, stream, rest) BY <1>12 DEF Aligned, InTurn, front, rest
  <2>. QED BY <1>2, <1>6, <1>7, <1>9, <1>10, <2>1, Regrouped
<1>13. ASSUME InStep, pc = "body"
       PROVE  /\ messages < Len(sent') /\ sent'[messages + 1] = sent[messages + 1]
  <2>1. messages < Len(sent) BY <1>13 DEF Aligned, InTurn
  <2>2. messages + 1 \in 1 .. Len(sent) BY <1>3, <1>4, <2>1
  <2>. QED BY <1>3, <1>4, <2>1, <2>2
<1>14. ASSUME InStep PROVE InTurn'
  <2>1. pc' = "select" => stream' = Rest(sent', messages') BY <1>1, <1>11, <1>14 DEF more
  <2>2. pc' \in {"header", "body"} =>
          Glued(Memory, ReadAllBytes(readBuffer'), stream', Rest(sent', messages'))
    BY <1>1, <1>12, <1>14 DEF more, front
  <2>3. pc' = "body" => /\ messages' < Len(sent')
                        /\ reqSize' = 24 + BodyLen(sent'[messages' + 1])
                        /\ 24 <= readBuffer'.write /\ readBuffer'.write <= reqSize'
    BY <1>1, <1>13, <1>14 DEF Aligned, InTurn
  <2>4. pc' # "terminated" BY <1>1, <1>14 DEF Aligned, InTurn
  <2>. QED BY <2>1, <2>2, <2>3, <2>4 DEF InTurn
<1>15. InStep' <=> InStep BY <1>1 DEF InStep
<1>. QED BY <1>5, <1>14, <1>15 DEF Aligned

\* A header of which the length of the message wraps announces a body of almost 2^32
\* bytes.
LEMMA WrapsTotal ==
  ASSUME NEW b, Sound(b), 24 <= Len(b.data), Wraps(b)
  PROVE  (ParseHeader(b).total + 24) \div 65536 >= 65536
<1> DEFINE d == b.data
           w == SubSeq(d, 9, 12)
<1>1. d \in Seq(Memory) /\ Len(d) \in Nat BY LenProperties DEF Sound, Shape
<1>2. \A i \in 9 .. 12 : d[i] \in Memory
  <2>1. ASSUME NEW i \in 9 .. 12 PROVE i \in 1 .. Len(d) BY <1>1
  <2>. QED BY <1>1, <2>1, ElementOfSeq
<1>3. \A i \in 1 .. 12 - 9 + 1 : w[i] = d[9 + i - 1] BY <1>2, SubSeqProperties
<1>. HIDE DEF w
<1>4. w[1] = d[9] /\ w[2] = d[10] /\ w[3] = d[11] /\ w[4] = d[12]
  <2>1. 1 \in 1 .. 12 - 9 + 1 /\ 9 + 1 - 1 = 9 OBVIOUS
  <2>2. 2 \in 1 .. 12 - 9 + 1 /\ 9 + 2 - 1 = 10 OBVIOUS
  <2>3. 3 \in 1 .. 12 - 9 + 1 /\ 9 + 3 - 1 = 11 OBVIOUS
  <2>4. 4 \in 1 .. 12 - 9 + 1 /\ 9 + 4 - 1 = 12 OBVIOUS
  <2>. QED BY <1>3, <2>1, <2>2, <2>3, <2>4
<1>5. w[1] = 255 /\ w[2] = 255 /\ w[3] = 255 /\ w[4] \in 232 .. 255
  BY <1>4 DEF Wraps
<1>6. ParseHeader(b).total = Word32(w) BY DEF ParseHeader, w
<1>7. PICK z \in 232 .. 255 : w[4] = z BY <1>5
<1>8. Word32(w) = 16777216 * 255 + 65536 * 255 + 256 * 255 + z BY <1>5, <1>7, SMT DEF Word32
<1>9. \A n \in 232 .. 255 :
        (16777216 * 255 + 65536 * 255 + 256 * 255 + n + 24) \div 65536 >= 65536
  BY SMT
<1>10. (Word32(w) + 24) \div 65536 >= 65536 BY <1>8, <1>9, SMT
<1>. QED BY <1>6, <1>10

\* The first bytes of a message: when the header is complete, its size is known.
LEMMA HeaderAligned ==
  ASSUME ReadInv, ReadTypes, Aligned, ReadHeader
  PROVE  Aligned'
<1>1. /\ pc = "header" /\ UNCHANGED <<sent, messages, cuts>>
  BY DEF ReadHeader, handlerVars
<1>2. /\ sent \in Seq(Outgoing) /\ stream \in Seq(Memory) /\ Sound(readBuffer)
      /\ 24 <= Len(readBuffer.data)
  BY DEF ReadInv, ReadTypes, HeaderSize
<1>3. messages \in 0 .. Len(sent) /\ messages' \in 0 .. Len(sent')
  BY <1>1 DEF Aligned
<1>4. InStep' <=> InStep BY <1>1 DEF InStep
<1>. SUFFICES ASSUME InStep PROVE InTurn'
  BY <1>3, <1>4 DEF Aligned
<1>5. Glued(Memory, ReadAllBytes(readBuffer), stream, Rest(sent, messages))
  BY <1>1 DEF Aligned, InTurn
<1> DEFINE room == HeaderSize - readBuffer.write
           rest == Rest(sent, messages)
<1>6. PICK bytes \in Received(room) :
        /\ stream' = SubSeq(stream, Len(bytes) + 1, Len(stream))
        /\ LET b == WriteBytes(readBuffer, bytes)
           IN  IF b.write < HeaderSize
               THEN readBuffer' = b /\ UNCHANGED <<pc, reqSize>>
               ELSE IF TooLong(b)
               THEN pc' = "exhausted" /\ readBuffer' = b /\ UNCHANGED reqSize
               ELSE /\ pc' = "body" /\ reqSize' = MessageSize(b)
                    /\ readBuffer' = RoomFor(MoveReadForward(b, HeaderSize), MessageSize(b))
  BY DEF ReadHeader
<1> DEFINE b == WriteBytes(readBuffer, bytes)
           size == MessageSize(b)
<1>7. room \in Int /\ readBuffer.write + room = 24
  <2>1. readBuffer.write \in Nat BY <1>2 DEF Sound, Shape
  <2>. QED BY <2>1 DEF HeaderSize
<1>. HIDE DEF room, rest
<1>8. /\ Glued(Memory, ReadAllBytes(b), stream', rest)
      /\ Sound(b) /\ b.write <= 24 /\ Len(b.data) = Len(readBuffer.data)
      /\ bytes \in Seq(Memory)
  BY <1>2, <1>5, <1>6, <1>7, Receiving DEF rest
<1>9. stream' \in Seq(Memory) BY <1>2, <1>6, <1>7, ReceivedType
<1>. HIDE DEF b, size
<1>10. CASE b.write < HeaderSize
  <2>1. readBuffer' = b /\ pc' = "header" BY <1>1, <1>6, <1>10 DEF b
  <2>. QED BY <1>1, <1>8, <2>1 DEF InTurn, rest
<1>11. CASE ~ (b.write < HeaderSize) /\ TooLong(b)
  <2>1. pc' = "exhausted" BY <1>6, <1>11 DEF b
  <2>. QED BY <2>1 DEF InTurn
<1>12. CASE ~ (b.write < HeaderSize) /\ ~ TooLong(b)
  <2>1. pc' = "body" /\ reqSize' = size
        /\ readBuffer' = RoomFor(MoveReadForward(b, HeaderSize), size)
    BY <1>6, <1>12 DEF b, size
  <2>2. b.write = 24
    <3>1. b.write \in Nat BY <1>8 DEF Sound, Shape
    <3>. QED BY <1>8, <1>12, <3>1 DEF HeaderSize
  <2> DEFINE m == sent[messages + 1]
  <2>3. messages < Len(sent) /\ HeaderArrived(b, m)
    <3>1. 24 <= b.write BY <2>2
    <3>. QED BY <1>2, <1>3, <1>8, <1>9, <3>1, NextArrives DEF rest
  <2>4. m \in Buildable /\ Worded(m) /\ Sized(m) /\ Constructible(m)
    <3>1. Len(sent) \in Nat BY <1>2, LenProperties
    <3>2. messages + 1 \in 1 .. Len(sent) BY <1>3, <2>3, <3>1
    <3>. QED BY <1>2, <3>2, SentType
  <2>. HIDE DEF m
  <2>5. ParseHeader(b).total = BodyLen(m) BY <2>3, <2>4, HeaderRead
  <2>6. ParseHeader(b).total \in Nat BY <1>2, <1>8, LengthsType DEF HeaderSize
  <2>7. size = 24 + BodyLen(m) /\ size \in Nat /\ b.write <= size
    <3>1. (ParseHeader(b).total + 24) \div 65536 < 65536
      BY <2>4, <2>5 DEF Constructible, HeaderSize
    <3>2. ~ Wraps(b)
      <4>1. ASSUME Wraps(b) PROVE FALSE
        <5>1. (ParseHeader(b).total + 24) \div 65536 >= 65536
          BY <2>3, <4>1, WrapsTotal, SMTT(30) DEF HeaderArrived
        <5> DEFINE q == (ParseHeader(b).total + 24) \div 65536
        <5>2. q \in Int BY <2>6
        <5>3. q >= 65536 /\ q < 65536 BY <3>1, <5>1
        <5>. HIDE DEF q
        <5>. QED BY <5>2, <5>3
      <4>. QED BY <4>1
    <3>3. size = ParseHeader(b).total + 24 BY <3>2 DEF size, MessageSize, HeaderSize
    <3> DEFINE n == BodyLen(m)
    <3>4. n \in Nat /\ size = n + 24 BY <2>5, <2>6, <3>3
    <3>. HIDE DEF n
    <3>5. size = 24 + n /\ size \in Nat /\ b.write <= size BY <2>2, <3>4
    <3>. QED BY <3>5 DEF n
  <2>8. /\ ReadAllBytes(readBuffer') = ReadAllBytes(b) BY <1>8, <2>1, <2>7, RoomForFront
  <2>9. readBuffer'.write = 24
    <3>1. Sound(MoveReadForward(b, HeaderSize)) /\ MoveReadForward(b, HeaderSize).write = b.write
      BY <1>8, MoveReadSound DEF HeaderSize
    <3>. QED BY <2>1, <2>2, <2>7, <3>1, RoomForSound
  <2>10. Glued(Memory, ReadAllBytes(readBuffer'), stream', Rest(sent', messages'))
    BY <1>1, <1>8, <2>8 DEF rest
  <2>11. /\ messages' < Len(sent') /\ reqSize' = 24 + BodyLen(sent'[messages' + 1])
    BY <1>1, <2>1, <2>3, <2>7 DEF m
  <2>12. 24 <= readBuffer'.write /\ readBuffer'.write <= reqSize'
    BY <2>1, <2>2, <2>7, <2>9
  <2>. QED BY <2>1, <2>10, <2>11, <2>12 DEF InTurn
<1>. QED BY <1>10, <1>11, <1>12

\* More bytes of the body.
LEMMA BodyAligned ==
  ASSUME ReadInv, ReadTypes, Aligned, ReadBody
  PROVE  Aligned'
<1>1. /\ pc = "body" /\ UNCHANGED <<sent, messages, cuts, pc, reqSize>>
  BY DEF ReadBody, handlerVars
<1>2. /\ sent \in Seq(Outgoing) /\ stream \in Seq(Memory) /\ Sound(readBuffer)
      /\ reqSize \in Nat /\ reqSize <= Len(readBuffer.data)
  BY <1>1 DEF ReadInv, ReadTypes
<1>3. messages \in 0 .. Len(sent) /\ messages' \in 0 .. Len(sent')
  BY <1>1 DEF Aligned
<1>4. InStep' <=> InStep BY <1>1 DEF InStep
<1>. SUFFICES ASSUME InStep PROVE InTurn'
  BY <1>3, <1>4 DEF Aligned
<1>5. /\ Glued(Memory, ReadAllBytes(readBuffer), stream, Rest(sent, messages))
      /\ messages < Len(sent) /\ reqSize = 24 + BodyLen(sent[messages + 1])
      /\ 24 <= readBuffer.write
  BY <1>1 DEF Aligned, InTurn
<1> DEFINE room == reqSize - readBuffer.write
           rest == Rest(sent, messages)
<1>6. PICK bytes \in Received(room) :
        /\ readBuffer' = WriteBytes(readBuffer, bytes)
        /\ stream' = SubSeq(stream, Len(bytes) + 1, Len(stream))
  BY DEF ReadBody
<1>7. room \in Int /\ readBuffer.write + room = reqSize
  <2>1. readBuffer.write \in Nat BY <1>2 DEF Sound, Shape
  <2>. QED BY <1>2, <2>1
<1>. HIDE DEF room, rest
<1> DEFINE b == WriteBytes(readBuffer, bytes)
<1>8. /\ Glued(Memory, ReadAllBytes(b), stream', rest)
      /\ Sound(b) /\ b.write <= reqSize /\ b.write = readBuffer.write + Len(bytes)
      /\ bytes \in Seq(Memory)
  BY <1>2, <1>5, <1>6, <1>7, Receiving DEF rest
<1>9. 24 <= b.write
  <2>1. readBuffer.write \in Nat BY <1>2 DEF Sound, Shape
  <2>2. Len(bytes) \in Nat BY <1>8, LenProperties
  <2>. HIDE DEF b
  <2>. QED BY <1>5, <1>8, <2>1, <2>2
<1>. HIDE DEF b
<1>10. readBuffer' = b BY <1>6 DEF b
<1>. QED BY <1>1, <1>5, <1>8, <1>9, <1>10 DEF InTurn, rest

\* Reading begins with an empty buffer.
LEMMA BeginAligned ==
  ASSUME ReadInv, ReadTypes, Aligned, Peek \/ Call
  PROVE  Aligned'
<1>1. /\ pc = "select" /\ UNCHANGED <<sent, stream, messages, cuts>>
      /\ \/ pc' = "closed"
         \/ pc' = "header" /\ readBuffer' = Reset(readBuffer)
  BY DEF Peek, Call, handlerVars
<1>2. sent \in Seq(Outgoing) /\ stream \in Seq(Memory) /\ Sound(readBuffer)
  BY DEF ReadInv, ReadTypes
<1>3. messages \in 0 .. Len(sent) /\ messages' \in 0 .. Len(sent') BY <1>1 DEF Aligned
<1>4. InStep' <=> InStep BY <1>1 DEF InStep
<1>. SUFFICES ASSUME InStep PROVE InTurn'
  BY <1>3, <1>4 DEF Aligned
<1>5. CASE pc' = "closed" BY <1>5 DEF InTurn
<1>6. CASE pc' = "header" /\ readBuffer' = Reset(readBuffer)
  <2>1. stream = Rest(sent, messages) BY <1>1 DEF Aligned, InTurn
  <2>2. Sound(Reset(readBuffer)) /\ Reset(readBuffer).write = 0 BY <1>2, ResetSound
  <2>3. Glued(Memory, ReadAllBytes(readBuffer'), stream, stream)
    BY <1>2, <1>6, <2>2, FrontEmpty
  <2>. QED BY <1>1, <1>6, <2>1, <2>3 DEF InTurn
<1>. QED BY <1>1, <1>5, <1>6

LEMMA AlignedInit == Init => Aligned
<1>. SUFFICES ASSUME Init PROVE Aligned
  OBVIOUS
<1>1. sent = <<>> /\ stream = <<>> /\ pc = "select" /\ messages = 0 BY DEF Init
<1>2. <<>> \in Seq(Outgoing) /\ Len(<<>>) = 0 OBVIOUS
<1>3. Rest(<<>>, 0) = <<>> BY <1>2, RestNone
<1>4. messages \in 0 .. Len(sent) BY <1>1, <1>2
<1>. QED BY <1>1, <1>3, <1>4 DEF Aligned, InTurn

LEMMA AlignedStep == ReadInv /\ ReadTypes /\ HandlerTypes /\ Aligned /\ [Next]_vars => Aligned'
<1>. SUFFICES ASSUME ReadInv, ReadTypes, HandlerTypes, Aligned, [Next]_vars
              PROVE  Aligned'
  OBVIOUS
<1>1. ASSUME NEW m \in Outgoing, Send(m) PROVE Aligned' BY <1>1, SendAligned
<1>2. CASE Peek \/ Call BY <1>2, BeginAligned
<1>3. CASE ReadHeader BY <1>3, HeaderAligned
<1>4. CASE HeaderTimeout
  <2>1. /\ pc = "header" /\ pc' = "select"
        /\ UNCHANGED <<sent, stream, readBuffer, reqSize, messages>>
        /\ IF readBuffer.write = 0 THEN UNCHANGED cuts ELSE cuts' = cuts + 1
    BY <1>4 DEF HeaderTimeout
  <2>2. cuts \in Nat BY DEF HandlerTypes
  <2>3. messages' \in 0 .. Len(sent') BY <2>1 DEF Aligned
  <2>4. CASE readBuffer.write = 0
    <3>. SUFFICES ASSUME InStep PROVE stream = Rest(sent, messages)
      BY <2>1, <2>3, <2>4 DEF Aligned, InTurn, InStep
    <3>1. Glued(Memory, ReadAllBytes(readBuffer), stream, Rest(sent, messages))
      BY <2>1 DEF Aligned, InTurn
    <3>2. Sound(readBuffer) /\ stream \in Seq(Memory) BY DEF ReadInv
    <3>3. Rest(sent, messages) \in Seq(Memory) BY RestType DEF Aligned, ReadTypes
    <3>. QED BY <2>4, <3>1, <3>2, <3>3, FrontEmpty
  <2>5. CASE readBuffer.write # 0
    <3>1. ~ InStep' BY <2>1, <2>2, <2>5 DEF InStep
    <3>. QED BY <2>3, <3>1 DEF Aligned
  <2>. QED BY <2>4, <2>5
<1>5. CASE ReadBody BY <1>5, BodyAligned
<1>6. CASE ReadMessage
  <2>1. pc = "body" /\ readBuffer.write >= reqSize /\ Dispatch /\ UNCHANGED cuts
    BY <1>6 DEF ReadMessage
  <2>2. /\ messages' \in 0 .. Len(sent')
        /\ InStep => /\ UNCHANGED <<sent, stream>>
                     /\ \/ pc' = "select" /\ messages' = messages + 1
                        \/ pc' = "exhausted"
    BY <2>1, DispatchAligned
  <2>3. InStep => stream = Rest(sent, messages + 1) BY <2>1, Reading
  <2>4. InStep' <=> InStep BY <2>1 DEF InStep
  <2>5. InStep => InTurn' BY <2>2, <2>3 DEF InTurn
  <2>. QED BY <2>2, <2>4, <2>5 DEF Aligned
<1>7. CASE BodyTimeout
  <2>1. pc = "body" /\ Dispatch /\ cuts' = cuts + 1 BY <1>7 DEF BodyTimeout
  <2>2. cuts \in Nat BY DEF HandlerTypes
  <2>3. ~ InStep' BY <2>1, <2>2 DEF InStep
  <2>4. messages' \in 0 .. Len(sent') BY <2>1, DispatchAligned
  <2>. QED BY <2>3, <2>4 DEF Aligned
<1>8. CASE UNCHANGED vars
  BY <1>8 DEF vars, handlerVars, Aligned, InTurn, InStep
<1>. QED BY <1>1, <1>2, <1>3, <1>4, <1>5, <1>6, <1>7, <1>8 DEF Next

\* Everything that is known of a receiver.
InOrderInv == ReadInv /\ ReadTypes /\ HandlerTypes /\ Aligned

LEMMA InOrderInit == Init => InOrderInv
BY ReadInvInit, TypesInit, AlignedInit DEF InOrderInv

LEMMA InOrderStep == InOrderInv /\ [Next]_vars => InOrderInv'
BY ReadInvStep, TypesStep, AlignedStep DEF InOrderInv

\* ReadValue subtracts lengths without a test; the difference wraps, and the program
\* ends, only after a receive has timed out in the middle of a message.
THEOREM NoWrapInStep == Spec => []WrapsOnlyOutOfStep
<1>1. InOrderInv => WrapsOnlyOutOfStep
  BY DEF InOrderInv, Aligned, InTurn, WrapsOnlyOutOfStep
<1>. QED BY <1>1, InOrderInit, InOrderStep, PTL DEF Spec

\* Between two messages the stream is at the beginning of one, whatever the messages
\* are and however TCP cuts them: no header announces more or less than is sent, and
\* none is read that belongs to the message after it.
THEOREM StreamStaysAligned == Spec => []StreamAligned
<1>1. InOrderInv => StreamAligned
  BY DEF InOrderInv, Aligned, InTurn, StreamAligned, Rest, Later
<1>. QED BY <1>1, InOrderInit, InOrderStep, PTL DEF Spec
-----------------------------------------------------------------------------
(* What is handed to the handler *)

\* What the Parse of a class checks, after what has been sent.
Complete(m) ==
  m.magic = kMagicReq => m.key # <<>> /\ (m.opcode = kOpSet => m.value # <<>>)

LEMMA EmptyOrNot ==
  ASSUME NEW S, NEW s \in Seq(S)
  PROVE  Len(s) \in Nat /\ (s = <<>> <=> ~ (Len(s) > 0))
<1>1. Len(s) \in Nat BY LenProperties
<1>2. s = <<>> <=> Len(s) = 0 BY EmptySeq
<1>. QED BY <1>1, <1>2

LEMMA CheckedIs ==
  ASSUME NEW m \in Buildable, Worded(m), Sized(m), Known(m), OfClass(ClassOf(m), m),
         Len(m.key) < KeyLenLimit, NEW b, HeaderArrived(b, m)
  PROVE  Checked(ClassOf(m), ParseHeader(b)) <=> Complete(m)
<1> DEFINE h == ParseHeader(b)
           f == Len(m.flags)
           x == Len(m.expires)
           k == Len(m.key)
           v == Len(m.value)
<1>1. /\ h.magic = m.magic /\ h.opcode = m.opcode /\ h.keyLen = k % KeyLenLimit
      /\ h.extrasLen = f + x /\ h.total = BodyLen(m)
  BY HeaderRead
<1>2. f \in Nat /\ x \in Nat /\ k \in Nat /\ v \in Nat
      /\ (m.key # <<>> <=> k > 0) /\ (m.value # <<>> <=> v > 0)
  <2>1. /\ m.flags \in Seq(Memory) /\ m.expires \in Seq(Memory) /\ m.key \in Seq(Memory)
        /\ m.value \in Seq(Memory)
    BY DEF Buildable
  <2>. QED BY <2>1, EmptyOrNot
<1>3. k % KeyLenLimit = k
  <2>1. KeyLenLimit \in Nat /\ KeyLenLimit > 0 BY SizesType
  <2>2. k < KeyLenLimit OBVIOUS
  <2>. HIDE DEF k
  <2>. QED BY <1>2, <2>1, <2>2, SmallRemainder
<1>4. BodyLen(m) = f + x + (k % KeyLenLimit) + v BY DEF BodyLen
<1>. HIDE DEF h
<1>5. h.keyLen = k /\ BodyLen(m) = f + x + k + v BY <1>1, <1>3, <1>4
<1>6. CASE ClassOf(m) = "GetRequest"
  <2>1. m.magic = kMagicReq /\ m.opcode = kOpGet /\ m.opcode # kOpSet
    BY <1>6 DEF ClassOf, Known, kOpGet, kOpSet, kMagicReq, kMagicRes
  <2>2. f = 0 /\ x = 0 /\ v = 0
    <3>1. m.value = <<>> /\ f = 0 /\ x = 0 BY <1>6 DEF OfClass, HasFlags
    <3>. HIDE DEF f, x
    <3>2. v = 0 BY <3>1
    <3>. QED BY <3>1, <3>2
  <2>. HIDE DEF f, x, k, v
  <2>3. h.extrasLen = 0 /\ h.total = k BY <1>1, <1>2, <1>5, <2>2
  <2>4. Checked(ClassOf(m), h) <=> h.keyLen > 0 BY <1>1, <1>5, <1>6, <2>1, <2>3 DEF Checked
  <2>. QED BY <1>2, <1>5, <2>1, <2>4 DEF Complete, h
<1>7. CASE ClassOf(m) = "SetRequest"
  <2>1. m.magic = kMagicReq /\ m.opcode = kOpSet
    BY <1>7 DEF ClassOf, Known, kOpGet, kOpSet, kMagicReq, kMagicRes
  <2>2. f = 4 /\ x = 4 BY <1>7 DEF OfClass, HasFlags
  <2>. HIDE DEF f, x, k, v
  <2>3. h.extrasLen = 8 /\ (h.total > h.extrasLen + h.keyLen <=> v > 0)
    BY <1>1, <1>2, <1>5, <2>2
  <2>4. Checked(ClassOf(m), h) <=> h.keyLen > 0 /\ v > 0 BY <1>7, <2>3 DEF Checked
  <2>. QED BY <1>2, <1>5, <2>1, <2>4 DEF Complete, h
<1>8. CASE ClassOf(m) \notin {"GetRequest", "SetRequest"}
  <2>1. m.magic # kMagicReq BY <1>8 DEF ClassOf
  <2>2. Checked(ClassOf(m), h) BY <1>8 DEF Checked
  <2>. QED BY <2>1, <2>2 DEF Complete, h
<1>. QED BY <1>6, <1>7, <1>8

\* The header in the buffer tells the handler what the message is.
LEMMA HeaderInStep ==
  ASSUME ReadInv, ReadTypes, Aligned, InStep, pc = "body"
  PROVE  LET m == sent[messages + 1]
             h == ParseHeader(readBuffer)
         IN  /\ Handles(h) <=> Handles(m)
             /\ Handles(h) => Known(h) /\ Known(m) /\ ClassOf(h) = ClassOf(m)
             /\ h.status = m.status /\ ClassOf(m) \in Classes
<1> DEFINE m == sent[messages + 1]
           h == ParseHeader(readBuffer)
<1>1. m \in Buildable /\ Worded(m) /\ Sized(m) /\ HeaderArrived(readBuffer, m) BY Reading
<1>2. h.magic = m.magic /\ h.opcode = m.opcode /\ h.status = m.status BY <1>1, HeaderRead
<1>. HIDE DEF m, h
<1>3. Handles(h) <=> Handles(m) BY <1>2 DEF Handles
<1>4. Handles(h) => Known(h) /\ Known(m) BY <1>2 DEF Handles, Known
<1>5. ClassOf(h) = ClassOf(m) /\ ClassOf(m) \in Classes BY <1>2 DEF ClassOf, Classes
<1>. QED BY <1>2, <1>3, <1>4, <1>5 DEF m, h

\* What has arrived of the next message is parsed as it was built.
LEMMA ParsedInStep ==
  ASSUME ReadInv, ReadTypes, Aligned, InStep, pc = "body",
         Fits(sent[messages + 1]), Handles(sent[messages + 1])
  PROVE  LET m == sent[messages + 1]
             p == Parse(ClassOf(m), readBuffer)
         IN  /\ role = "server" /\ p.ok =>
                  /\ p.flags = m.flags /\ p.expires = m.expires /\ p.key = m.key
                  /\ Len(p.value) = Len(m.value)
                  /\ \A j \in 1 .. Len(m.value) : p.value[j] \in {m.value[j], Junk}
             /\ readBuffer.write >= reqSize =>
                  /\ p.ok <=> Complete(m)
                  /\ p.flags = m.flags /\ p.expires = m.expires /\ p.key = m.key
                  /\ p.value = m.value
<1> DEFINE m == sent[messages + 1]
           b == readBuffer
           h == ParseHeader(b)
           p == Parse(ClassOf(m), b)
           f == Len(m.flags)
           x == Len(m.expires)
           k == Len(m.key)
           v == Len(m.value)
           n == 24 + (f + x)
           w == b.write
<1>1. /\ m \in Buildable /\ Worded(m) /\ Sized(m) /\ Constructible(m)
      /\ HeaderArrived(b, m) /\ \A i \in 1 .. b.write : b.data[i] = BytesSent(m)[i]
  BY Reading
<1>2. /\ Known(m) /\ ClassOf(m) \in Classes /\ (Handles(h) <=> Handles(m)) BY HeaderInStep
<1>3. OfClass(ClassOf(m), m) BY <1>1, <1>2 DEF Constructible
<1>4. Len(m.key) < KeyLenLimit BY DEF Fits
<1>5. /\ reqSize = 24 + BodyLen(m) /\ 24 <= b.write /\ b.write <= reqSize
      /\ reqSize \in Nat /\ reqSize <= Len(b.data) /\ Ordered(b)
  BY DEF Aligned, InTurn, ReadInv, ReadTypes
<1>6. Arrived(b, m) BY <1>1, <1>5 DEF Arrived
<1>7. /\ n + k <= w =>
           /\ p.ok <=> Checked(ClassOf(m), h)
           /\ p.flags = m.flags /\ p.expires = m.expires /\ p.key = m.key
           /\ p.value \in Seq(Memory) /\ Len(p.value) = v
           /\ \A j \in 1 .. v : p.value[j] = IF n + k + j <= w THEN m.value[j] ELSE Junk
      /\ n + k > w /\ k > 0 => ~ p.ok
  BY <1>1, <1>2, <1>3, <1>4, <1>6, RoundTrip
<1>8. Checked(ClassOf(m), h) <=> Complete(m) BY <1>1, <1>2, <1>3, <1>4, CheckedIs
<1>9. f \in Nat /\ x \in Nat /\ k \in Nat /\ v \in Nat /\ w \in Nat /\ m.value \in Seq(Memory)
      /\ (m.key # <<>> <=> k > 0)
  <2>1. /\ m.flags \in Seq(Memory) /\ m.expires \in Seq(Memory) /\ m.key \in Seq(Memory)
        /\ m.value \in Seq(Memory)
    BY <1>1 DEF Buildable
  <2>2. f \in Nat /\ x \in Nat /\ k \in Nat /\ v \in Nat /\ (m.key # <<>> <=> k > 0)
    BY <2>1, EmptyOrNot
  <2>3. w \in Nat BY <1>5, OrderedType
  <2>. QED BY <2>1, <2>2, <2>3
<1>10. n \in Nat
  <2>1. \A i, j \in Nat : 24 + (i + j) \in Nat OBVIOUS
  <2>. QED BY <1>9, <2>1, Zenon
<1>11. reqSize = n + k + v
  <2>1. k % KeyLenLimit = k
    <3>1. KeyLenLimit \in Nat /\ KeyLenLimit > 0 BY SizesType
    <3>2. k < KeyLenLimit BY <1>4
    <3>. HIDE DEF k
    <3>. QED BY <1>9, <3>1, <3>2, SmallRemainder
  <2>2. BodyLen(m) = f + x + (k % KeyLenLimit) + v BY DEF BodyLen
  <2>. HIDE DEF f, x, k, v
  <2>3. reqSize = 24 + (f + x + k + v) BY <1>5, <2>1, <2>2
  <2>. QED BY <1>9, <2>3
<1>12. p.ok => Checked(ClassOf(m), h) BY DEF Parse
<1>13. ASSUME role = "server", p.ok
       PROVE  /\ p.flags = m.flags /\ p.expires = m.expires /\ p.key = m.key
              /\ Len(p.value) = v
              /\ \A j \in 1 .. v : p.value[j] \in {m.value[j], Junk}
  <2>1. m.magic = kMagicReq BY <1>13 DEF Handles
  <2>2. m.key # <<>>
    <3>1. Complete(m) BY <1>8, <1>12, <1>13
    <3>. QED BY <2>1, <3>1 DEF Complete
  <2>3. k > 0 BY <1>9, <2>2
  <2>. HIDE DEF m, h, p, k, v, n, w
  <2>4. n + k <= w BY <1>7, <1>9, <1>10, <1>13, <2>3
  <2>. QED BY <1>7, <2>4
<1>14. ASSUME w >= reqSize
       PROVE  /\ p.ok <=> Complete(m)
              /\ p.flags = m.flags /\ p.expires = m.expires /\ p.key = m.key
              /\ p.value = m.value
  <2>. HIDE DEF m, h, p, k, v, n, w
  <2>1. n + k <= w /\ \A j \in 1 .. v : n + k + j <= w BY <1>9, <1>10, <1>11, <1>14
  <2>2. /\ p.ok <=> Complete(m)
        /\ p.flags = m.flags /\ p.expires = m.expires /\ p.key = m.key
        /\ p.value \in Seq(Memory) /\ Len(p.value) = v
        /\ \A j \in 1 .. v : p.value[j] = m.value[j]
    BY <1>7, <1>8, <2>1
  <2>3. Len(p.value) = Len(m.value) /\ \A j \in 1 .. Len(p.value) : p.value[j] = m.value[j]
    BY <2>2 DEF v
  <2>4. p.value = m.value BY <1>9, <2>2, <2>3, SeqEqual
  <2>. QED BY <2>2, <2>4
<1>. QED BY <1>13, <1>14 DEF m, p, v

\* What a dispatch adds to the history.
LEMMA DispatchHandled ==
  ASSUME Dispatch
  PROVE  LET h == ParseHeader(readBuffer)
             p == Parse(ClassOf(h), readBuffer)
             entry == Content(ClassOf(h), h, p)
         IN  /\ \/ handled' = handled
                \/ Handles(h) /\ p.ok /\ pc' = "select" /\ handled' = Append(handled, entry)
             /\ Handles(h) /\ p.ok /\ pc' = "select" => handled' = Append(handled, entry)
             /\ ~ Handles(h) \/ ~ p.ok \/ pc' # "select" => handled' = handled
<1> DEFINE h == ParseHeader(readBuffer)
           class == IF Known(h) THEN ClassOf(h) ELSE current
           p == Parse(class, readBuffer)
           Added == handled' = IF p.ok /\ Handles(h)
                               THEN Append(handled, Content(class, h, p)) ELSE handled
<1>1. \/ handled' = handled /\ (class = "none" \/ pc' # "select")
      \/ Added /\ pc' = "select"
  BY DEF Dispatch, Handle
<1>2. Handles(h) => class = ClassOf(h) /\ class # "none"
  <2>1. Handles(h) => Known(h) BY DEF Handles, Known
  <2>2. ClassOf(h) # "none" BY DEF ClassOf
  <2>. QED BY <2>1, <2>2
<1>. HIDE DEF h, class
<1>3. CASE ~ Handles(h) BY <1>1, <1>3 DEF h
<1>4. CASE Handles(h)
  <2>1. class = ClassOf(h) /\ class # "none" BY <1>2, <1>4
  <2>. QED BY <1>1, <1>4, <2>1 DEF h
<1>. QED BY <1>3, <1>4

\* The messages that the receiver has been given keep their numbers.
SameSoFar == /\ Len(sent) \in Nat /\ Len(sent') \in Nat /\ Len(sent) <= Len(sent')
             /\ \A n \in 1 .. Len(sent) : sent'[n] = sent[n]

\* A step is a dispatch of a message or leaves the history alone.
LEMMA StepHandled ==
  ASSUME ReadTypes, HandlerTypes, [Next]_vars
  PROVE  /\ SameSoFar /\ UNCHANGED role
         /\ \/ UNCHANGED <<handled, messages>> /\ (InStep' => InStep)
            \/ ReadMessage
            \/ BodyTimeout
<1>1. sent \in Seq(Outgoing) /\ Len(sent) \in Nat /\ cuts \in Nat
  BY LenProperties DEF ReadTypes, HandlerTypes
<1>2. UNCHANGED sent => SameSoFar BY <1>1 DEF SameSoFar
<1>3. ASSUME NEW m \in Outgoing, Send(m) PROVE SameSoFar
  <2>1. sent' = Append(sent, m) BY <1>3 DEF Send
  <2>2. /\ Len(sent') = Len(sent) + 1 /\ \A n \in 1 .. Len(sent) : sent'[n] = sent[n]
    BY <1>1, <2>1, AppendProperties
  <2>. QED BY <1>1, <2>2 DEF SameSoFar
<1>4. ASSUME NEW m \in Outgoing, Send(m)
      PROVE  UNCHANGED <<role, handled, messages>> /\ (InStep' => InStep)
  BY <1>4 DEF Send, handlerVars, InStep
<1>5. CASE Peek \/ Call \/ ReadHeader \/ ReadBody
  <2>1. UNCHANGED <<role, sent, handled, messages>> /\ (InStep' => InStep)
    BY <1>5 DEF Peek, Call, ReadHeader, ReadBody, handlerVars, InStep
  <2>. QED BY <1>2, <2>1
<1>6. CASE HeaderTimeout
  <2>1. UNCHANGED <<role, sent, handled, messages>> /\ (cuts' = cuts \/ cuts' = cuts + 1)
    BY <1>6 DEF HeaderTimeout
  <2>2. InStep' => InStep BY <1>1, <2>1 DEF InStep
  <2>. QED BY <1>2, <2>1, <2>2
<1>7. CASE ReadMessage \/ BodyTimeout
  <2>1. UNCHANGED <<role, sent>> BY <1>7 DEF ReadMessage, BodyTimeout, Dispatch
  <2>. QED BY <1>2, <1>7, <2>1
<1>8. CASE UNCHANGED vars
  <2>1. UNCHANGED <<role, sent, handled, messages>> /\ (InStep' => InStep)
    BY <1>8 DEF vars, handlerVars, InStep
  <2>. QED BY <1>2, <2>1
<1>. QED BY <1>3, <1>4, <1>5, <1>6, <1>7, <1>8 DEF Next

\* What a dispatch counts.
LEMMA DispatchCounts ==
  ASSUME HandlerTypes, ReadTypes, Aligned, ReadMessage \/ BodyTimeout
  PROVE  /\ pc = "body" /\ Dispatch /\ UNCHANGED <<sent, role>>
         /\ messages \in Nat /\ messages' \in Nat /\ messages <= messages' /\ Len(sent) \in Nat
         /\ messages <= Len(sent)
         /\ messages' = IF InStep /\ pc' = "select" THEN messages + 1 ELSE messages
         /\ InStep' => InStep /\ ReadMessage
<1>1. /\ pc = "body" /\ Dispatch /\ UNCHANGED <<sent, role>>
      /\ messages' = IF InStep /\ pc' = "select" THEN messages + 1 ELSE messages
  BY DEF ReadMessage, BodyTimeout, Dispatch
<1>2. messages \in Nat /\ cuts \in Nat /\ Len(sent) \in Nat /\ messages \in 0 .. Len(sent)
  BY LenProperties DEF HandlerTypes, ReadTypes, Aligned
<1>3. InStep' => InStep /\ ReadMessage
  BY <1>2 DEF ReadMessage, BodyTimeout, InStep
<1>. QED BY <1>1, <1>2, <1>3

\* The inductive invariant: the histories of the handler tell numbers of messages that
\* have been read.
Numbered == \A i \in 1 .. Len(handled) : handled[i].n \in 0 .. messages
Kept(got, m) ==
  Fits(m) => /\ got.key = m.key /\ got.flags = m.flags /\ got.expires = m.expires
             /\ Len(got.value) = Len(m.value)
             /\ \A j \in 1 .. Len(m.value) : got.value[j] \in {m.value[j], Junk}
CutInv ==
  /\ Numbered
  /\ role = "server" =>
       \A i \in 1 .. Len(handled) : handled[i].n # 0 => Kept(handled[i], sent[handled[i].n])

LEMMA CutStep == InOrderInv /\ CutInv /\ [Next]_vars => CutInv'
<1>. SUFFICES ASSUME InOrderInv, CutInv, [Next]_vars PROVE CutInv'
  OBVIOUS
<1>. USE DEF InOrderInv
<1>1. SameSoFar /\ UNCHANGED role BY StepHandled
<1>2. messages \in 0 .. Len(sent) /\ Len(sent) \in Nat
  BY LenProperties DEF Aligned, ReadTypes
<1>3. ASSUME NEW i \in 1 .. Len(handled), handled[i].n # 0
      PROVE  sent'[handled[i].n] = sent[handled[i].n]
  <2>1. handled[i].n \in 0 .. messages BY DEF CutInv, Numbered
  <2>2. handled[i].n \in 1 .. Len(sent) BY <1>2, <1>3, <2>1
  <2>. QED BY <1>1, <2>2 DEF SameSoFar
<1>4. CASE UNCHANGED handled /\ messages' \in Nat /\ messages <= messages'
  <2>1. Numbered' BY <1>2, <1>4 DEF CutInv, Numbered
  <2>. QED BY <1>1, <1>3, <1>4, <2>1 DEF CutInv
<1>5. CASE ReadMessage \/ BodyTimeout
  <2> DEFINE m == sent[messages + 1]
             h == ParseHeader(readBuffer)
             p == Parse(ClassOf(h), readBuffer)
             entry == Content(ClassOf(h), h, p)
  <2>1. /\ pc = "body" /\ Dispatch /\ UNCHANGED <<sent, role>>
        /\ messages \in Nat /\ messages' \in Nat /\ messages <= messages'
        /\ messages' = IF InStep /\ pc' = "select" THEN messages + 1 ELSE messages
    BY <1>5, DispatchCounts
  <2>2. \/ handled' = handled
        \/ Handles(h) /\ p.ok /\ pc' = "select" /\ handled' = Append(handled, entry)
    BY <2>1, DispatchHandled
  <2>3. CASE handled' = handled BY <1>4, <2>1, <2>3
  <2>4. CASE Handles(h) /\ p.ok /\ pc' = "select" /\ handled' = Append(handled, entry)
    <3>1. entry.n \in 0 .. messages' /\ (entry.n # 0 => InStep /\ entry.n = messages + 1)
      <4>1. entry.n = IF InStep THEN messages + 1 ELSE 0 BY DEF Content
      <4>. HIDE DEF entry
      <4>. QED BY <2>1, <2>4, <4>1
    <3>2. /\ entry.key = p.key /\ entry.flags = p.flags /\ entry.expires = p.expires
          /\ entry.value = p.value
      BY DEF Content
    <3>3. ASSUME InStep, role = "server" PROVE Kept(entry, m)
      <4>1. (Handles(h) <=> Handles(m)) /\ (Handles(h) => ClassOf(h) = ClassOf(m))
        BY <2>1, <3>3, HeaderInStep
      <4>2. Handles(m) /\ ClassOf(h) = ClassOf(m) BY <2>4, <4>1
      <4>3. ASSUME Fits(m)
            PROVE  /\ p.flags = m.flags /\ p.expires = m.expires /\ p.key = m.key
                   /\ Len(p.value) = Len(m.value)
                   /\ \A j \in 1 .. Len(m.value) : p.value[j] \in {m.value[j], Junk}
        BY <2>1, <2>4, <3>3, <4>2, <4>3, ParsedInStep
      <4>. HIDE DEF m, h, p, entry
      <4>. QED BY <3>2, <4>3 DEF Kept
    <3>. HIDE DEF m, h, p, entry
    <3>4. /\ Len(handled') = Len(handled) + 1 /\ Len(handled) \in Nat
          /\ \A i \in 1 .. Len(handled) : handled'[i] = handled[i]
          /\ handled'[Len(handled) + 1] = entry
      BY <2>4, AppendAny DEF HandlerTypes
    <3>5. \A i \in 1 .. Len(handled') : i \in 1 .. Len(handled) \/ i = Len(handled) + 1
      BY <3>4
    <3>6. Numbered'
      <4>1. ASSUME NEW i \in 1 .. Len(handled') PROVE handled'[i].n \in 0 .. messages'
        <5>1. CASE i \in 1 .. Len(handled)
          <6>1. handled[i].n \in 0 .. messages BY <5>1 DEF CutInv, Numbered
          <6>. QED BY <2>1, <3>4, <5>1, <6>1
        <5>2. CASE i = Len(handled) + 1 BY <3>1, <3>4, <5>2
        <5>. QED BY <3>5, <5>1, <5>2
      <4>. QED BY <4>1 DEF Numbered
    <3>7. ASSUME role = "server", NEW i \in 1 .. Len(handled'), handled'[i].n # 0
          PROVE  Kept(handled'[i], sent'[handled'[i].n])
      <4>1. CASE i \in 1 .. Len(handled)
        BY <1>3, <3>4, <3>7, <4>1 DEF CutInv
      <4>2. CASE i = Len(handled) + 1
        BY <2>1, <3>1, <3>3, <3>4, <3>7, <4>2 DEF m
      <4>. QED BY <3>5, <4>1, <4>2
    <3>. QED BY <1>1, <3>6, <3>7 DEF CutInv
  <2>. QED BY <2>2, <2>3, <2>4
<1>6. CASE UNCHANGED <<handled, messages>> BY <1>2, <1>4, <1>6
<1>. QED BY <1>5, <1>6, StepHandled

\* Even a request that was cut off by a timeout is stored, if at all, under its own key
\* and with its own flags: what is missing is missing at the end of the value.
THEOREM CutsOnlyTheValue == Spec => []CutOnlyInValue
<1>1. Init => CutInv
  <2>1. Init => Len(handled) = 0 BY DEF Init
  <2>. QED BY <2>1 DEF CutInv, Numbered
<1>2. CutInv => CutOnlyInValue
  BY DEF CutInv, CutOnlyInValue, Kept
<1>. QED BY <1>1, <1>2, InOrderInit, InOrderStep, CutStep, PTL DEF Spec

\* What is handled in step is the content of a message, and every understood message is
\* handled.
AllFit == \A n \in 1 .. Len(sent) : Fits(sent[n])
IsContent(entry) ==
  entry.n \in 1 .. messages /\ Understood(sent[entry.n]) /\ entry = ContentOf(entry.n)
InSequence ==
  /\ \A i \in 1 .. Len(handled) : IsContent(handled[i])
  /\ \A i, j \in 1 .. Len(handled) : i < j => handled[i].n < handled[j].n
  /\ \A n \in 1 .. messages :
       Understood(sent[n]) => \E i \in 1 .. Len(handled) : handled[i].n = n

LEMMA InSequenceIs == HandledAsSent <=> (InStep /\ AllFit => InSequence)
BY DEF HandledAsSent, AllFit, InSequence, IsContent

\* A message that has been received completely is handled if it is understood.
LEMMA MessageHandled ==
  ASSUME InOrderInv, InStep, AllFit, ReadMessage, pc' = "select"
  PROVE  LET m == sent[messages + 1]
         IN  IF Understood(m) THEN handled' = Append(handled, ContentOf(messages + 1))
             ELSE handled' = handled
<1> DEFINE m == sent[messages + 1]
           b == readBuffer
           h == ParseHeader(b)
           p == Parse(ClassOf(h), b)
           entry == Content(ClassOf(h), h, p)
<1>. USE DEF InOrderInv
<1>1. pc = "body" /\ Dispatch /\ b.write >= reqSize BY DEF ReadMessage
<1>2. /\ messages + 1 \in 1 .. Len(sent) /\ m \in Buildable /\ Worded(m) /\ Sized(m)
      /\ HeaderArrived(b, m)
  BY <1>1, Reading
<1>3. Fits(m) BY <1>2 DEF AllFit
<1>4. /\ Handles(h) <=> Handles(m)
      /\ Handles(h) => ClassOf(h) = ClassOf(m)
      /\ h.status = m.status
  BY <1>1, HeaderInStep
<1>6. /\ Handles(h) /\ p.ok => handled' = Append(handled, entry)
      /\ ~ Handles(h) \/ ~ p.ok => handled' = handled
  BY <1>1, DispatchHandled
<1>7. Understood(m) <=> Handles(m) /\ Complete(m) BY DEF Understood, Complete
<1>8. p.status = h.status BY DEF Parse
<1>9. CASE ~ Handles(m)
  <2>. HIDE DEF m, h, p, entry
  <2>. QED BY <1>4, <1>6, <1>7, <1>9 DEF m
<1>10. CASE Handles(m)
  <2>1. ClassOf(h) = ClassOf(m) BY <1>4, <1>10
  <2>2. /\ p.ok <=> Complete(m)
        /\ p.flags = m.flags /\ p.expires = m.expires /\ p.key = m.key
        /\ p.value = m.value
    BY <1>1, <1>3, <1>10, <2>1, ParsedInStep
  <2>3. entry = [n |-> messages + 1, class |-> ClassOf(h), castTo |-> ClassOf(h),
                 key |-> p.key, flags |-> p.flags, expires |-> p.expires,
                 value |-> p.value, status |-> p.status]
    BY DEF Content
  <2>4. ContentOf(messages + 1) =
          [n |-> messages + 1, class |-> ClassOf(m), castTo |-> ClassOf(m),
           key |-> m.key, flags |-> m.flags, expires |-> m.expires,
           value |-> m.value, status |-> m.status]
    BY DEF ContentOf
  <2>. HIDE DEF m, h, p, entry
  <2>5. entry = ContentOf(messages + 1) BY <1>4, <1>8, <2>1, <2>2, <2>3, <2>4
  <2>6. Handles(h) BY <1>4, <1>10
  <2>. QED BY <1>6, <1>7, <1>10, <2>2, <2>5, <2>6 DEF m
<1>. QED BY <1>9, <1>10

LEMMA InSequenceStep == InOrderInv /\ HandledAsSent /\ [Next]_vars => HandledAsSent'
<1>. SUFFICES ASSUME InOrderInv, HandledAsSent, [Next]_vars, InStep', AllFit'
              PROVE  InSequence'
  BY InSequenceIs DEF HandledAsSent, AllFit, InSequence, IsContent
<1>. USE DEF InOrderInv
<1>1. SameSoFar /\ UNCHANGED role BY StepHandled
<1>2. messages \in 0 .. Len(sent) /\ Len(sent) \in Nat
  BY LenProperties DEF Aligned, ReadTypes
<1>3. AllFit
  <2>1. ASSUME NEW n \in 1 .. Len(sent) PROVE Fits(sent[n])
    <3>1. n \in 1 .. Len(sent') /\ sent'[n] = sent[n] BY <1>1 DEF SameSoFar
    <3>. QED BY <3>1 DEF AllFit
  <2>. QED BY <2>1 DEF AllFit
<1>4. ASSUME NEW n \in 1 .. messages
      PROVE  (Understood(sent[n]))' <=> Understood(sent[n])
  <2>1. n \in 1 .. Len(sent) BY <1>2
  <2>2. sent'[n] = sent[n] BY <1>1, <2>1 DEF SameSoFar
  <2>. QED BY <1>1, <2>2 DEF Understood, Handles
<1>5. ASSUME NEW n \in 1 .. messages PROVE ContentOf(n)' = ContentOf(n)
  <2>1. n \in 1 .. Len(sent) BY <1>2
  <2>2. sent'[n] = sent[n] BY <1>1, <2>1 DEF SameSoFar
  <2>. QED BY <2>2 DEF ContentOf
<1>6. CASE UNCHANGED <<handled, messages>> /\ (InStep' => InStep)
  <2>1. InSequence BY <1>3, <1>6, InSequenceIs
  <2>2. ASSUME NEW i \in 1 .. Len(handled') PROVE IsContent(handled[i])'
    <3>1. IsContent(handled[i]) BY <1>6, <2>1 DEF InSequence
    <3>. QED BY <1>4, <1>5, <1>6, <3>1 DEF IsContent
  <2>. QED BY <1>4, <1>6, <2>1, <2>2 DEF InSequence
<1>7. CASE (ReadMessage \/ BodyTimeout) /\ pc' # "select"
  <2>1. /\ Dispatch /\ messages' = IF InStep /\ pc' = "select" THEN messages + 1 ELSE messages
        /\ InStep
    BY <1>7, DispatchCounts
  <2>2. UNCHANGED handled BY <1>7, <2>1, DispatchHandled
  <2>. QED BY <1>6, <1>7, <2>1, <2>2
<1>8. CASE (ReadMessage \/ BodyTimeout) /\ pc' = "select"
  <2>14. PICK last, m, entry : /\ last = messages + 1 /\ m = sent[last]
                               /\ entry = ContentOf(last)
    OBVIOUS
  <2>1. /\ InStep /\ ReadMessage /\ messages' = last /\ UNCHANGED <<sent, role>>
        /\ messages \in Nat
    BY <1>8, <2>14, DispatchCounts
  <2>2. InSequence BY <1>3, <2>1, InSequenceIs
  <2>3. IF Understood(m) THEN handled' = Append(handled, entry) ELSE handled' = handled
    BY <1>3, <1>8, <2>14, <2>1, MessageHandled
  <2>4. last \in 1 .. last /\ \A n \in 1 .. last : n \in 1 .. messages \/ n = last
    BY <2>14, <2>1
  <2>5. (Understood(sent[last]))' <=> Understood(m)
    BY <2>14, <2>1 DEF Understood, Handles
  <2>6. ContentOf(last)' = entry BY <2>14, <2>1 DEF ContentOf
  <2>7. entry.n = last BY <2>14 DEF ContentOf
  <2>8. ASSUME NEW e, IsContent(e)
        PROVE  IsContent(e)' /\ e.n < last /\ e.n \in 1 .. messages
    <3>1. e.n \in 1 .. messages /\ e = ContentOf(e.n) /\ Understood(sent[e.n])
      BY <2>8 DEF IsContent
    <3>2. e.n < last /\ e.n \in 1 .. last BY <2>14, <2>1, <3>1
    <3>3. ContentOf(e.n)' = e /\ (Understood(sent[e.n]))' BY <1>4, <1>5, <3>1
    <3>. QED BY <2>1, <3>1, <3>2, <3>3 DEF IsContent
  <2>12. \A i \in 1 .. Len(handled) : IsContent(handled[i]) BY <2>2 DEF InSequence
  <2>13. Understood(m) => IsContent(entry)'
    BY <2>1, <2>4, <2>5, <2>6, <2>7 DEF IsContent
  <2>9. handled \in Seq(Contents) /\ Len(handled) \in Nat BY LenProperties DEF HandlerTypes
  <2>10. CASE ~ Understood(m)
    <3>1. handled' = handled BY <2>3, <2>10
    <3>2. ASSUME NEW i \in 1 .. Len(handled') PROVE IsContent(handled[i])'
      <4>1. IsContent(handled[i]) BY <2>12, <3>1
      <4>2. PICK e : e = handled[i] /\ e = handled'[i] BY <3>1
      <4>3. IsContent(e)' BY <2>8, <4>1, <4>2
      <4>. QED BY <4>2, <4>3 DEF IsContent
    <3>3. ASSUME NEW n \in 1 .. messages', (Understood(sent[n]))'
          PROVE  \E i \in 1 .. Len(handled') : handled'[i].n = n
      <4>1. n \in 1 .. messages BY <2>1, <2>4, <2>5, <2>10, <3>3
      <4>. QED BY <1>4, <2>2, <3>1, <3>3, <4>1 DEF InSequence
    <3>4. \A i, j \in 1 .. Len(handled') : i < j => handled'[i].n < handled'[j].n
      BY <2>2, <3>1 DEF InSequence
    <3>. QED BY <3>2, <3>3, <3>4 DEF InSequence
  <2>11. CASE Understood(m)
    <3>1. /\ Len(handled') = Len(handled) + 1
          /\ \A i \in 1 .. Len(handled) : handled'[i] = handled[i]
          /\ handled'[Len(handled) + 1] = entry
      BY <2>3, <2>9, <2>11, AppendProperties, AppendAny
    <3>2. \A i \in 1 .. Len(handled') : i \in 1 .. Len(handled) \/ i = Len(handled) + 1
      BY <2>9, <3>1
    <3>3. ASSUME NEW i \in 1 .. Len(handled') PROVE IsContent(handled[i])'
      <4>1. PICK e : e = handled'[i] OBVIOUS
      <4>2. CASE i \in 1 .. Len(handled)
        <5>1. IsContent(e) BY <2>12, <3>1, <4>1, <4>2
        <5>. QED BY <2>8, <4>1, <5>1 DEF IsContent
      <4>3. CASE i = Len(handled) + 1
        <5>1. e = entry BY <3>1, <4>1, <4>3
        <5>. QED BY <2>11, <2>13, <4>1, <5>1 DEF IsContent
      <4>. QED BY <3>2, <4>2, <4>3
    <3>4. ASSUME NEW i \in 1 .. Len(handled'), NEW j \in 1 .. Len(handled'), i < j
          PROVE  handled'[i].n < handled'[j].n
      <4>1. i \in 1 .. Len(handled) BY <2>9, <3>1, <3>4
      <4>2. CASE j \in 1 .. Len(handled)
        BY <2>2, <3>1, <3>4, <4>1, <4>2 DEF InSequence
      <4>3. CASE j = Len(handled) + 1 BY <2>7, <2>8, <2>12, <3>1, <4>1, <4>3
      <4>. QED BY <3>2, <4>2, <4>3
    <3>5. ASSUME NEW n \in 1 .. messages', (Understood(sent[n]))'
          PROVE  \E i \in 1 .. Len(handled') : handled'[i].n = n
      <4>1. CASE n \in 1 .. messages
        <5>1. PICK i \in 1 .. Len(handled) : handled[i].n = n
          BY <1>4, <2>2, <3>5, <4>1 DEF InSequence
        <5>2. i \in 1 .. Len(handled') BY <2>9, <3>1
        <5>. QED BY <3>1, <5>1, <5>2
      <4>2. CASE n = last
        <5>1. Len(handled) + 1 \in 1 .. Len(handled') BY <2>9, <3>1
        <5>. QED BY <2>7, <3>1, <4>2, <5>1
      <4>. QED BY <2>1, <2>4, <4>1, <4>2
    <3>. QED BY <3>3, <3>4, <3>5 DEF InSequence
  <2>. QED BY <2>10, <2>11
<1>. QED BY <1>6, <1>8, <1>7, StepHandled

\* As long as no receive has timed out in the middle of a message, the handler gets
\* every message it understands, once, in the order of sending and with the content it
\* was built from; the messages that it does not understand make no difference.
THEOREM HandledInOrder == Spec => []HandledAsSent
<1>1. Init => HandledAsSent
  <2>. SUFFICES ASSUME Init PROVE InSequence
    BY InSequenceIs
  <2>1. Len(handled) = 0 /\ messages = 0 BY DEF Init
  <2>. QED BY <2>1 DEF InSequence
<1>. QED BY <1>1, InOrderInit, InOrderStep, InSequenceStep, PTL DEF Spec
=============================================================================
