----------------------------- MODULE ListProofs -----------------------------
(***************************************************************************)
(* Facts about lists that the proofs about the session and its file need, by    *)
(* induction: on numbers, on lists, and on how a recursive function computes    *)
(* its values.  The induction theorems of the library take a predicate; these   *)
(* take the set of what has the property.  The last are about the order in which *)
(* lists of numbers go down, which the proofs of progress rest on.               *)
(***************************************************************************)
EXTENDS Lists, SequencesExt, NaturalsInduction, WellFoundedInduction, SequenceTheorems, TLAPS

LEMMA LeastExists ==
  ASSUME NEW T, T \subseteq Nat, T # {}
  PROVE  Min(T) \in T /\ \A y \in T : Min(T) <= y
<1> DEFINE less == {ss \in Nat \X Nat : ss[1] < ss[2]}
<1>1. IsWellFoundedOn(less, Nat)
  BY NatLessThanWellFounded DEF OpToRel
<1>2. \A x, y \in Nat : y < x => <<y, x>> \in less
  OBVIOUS
<1> HIDE DEF less
<1>3. PICK x \in T : \A y \in T : ~(<<y, x>> \in less)
  BY <1>1, WFMin
<1>4. ASSUME NEW y \in T PROVE x <= y
  <2>1. x \in Nat /\ y \in Nat
    OBVIOUS
  <2>2. ~(y < x)
    BY <1>2, <1>3, <2>1
  <2> QED BY <2>1, <2>2
<1> QED BY <1>4 DEF Min

LEMMA GreatestExists ==
  ASSUME NEW T, T # {}, NEW n \in Nat, T \subseteq 1..n
  PROVE  Max(T) \in T /\ \A x \in T : Max(T) >= x
<1> DEFINE bounds == {b \in Nat : \A x \in T : x <= b}
<1>1. bounds \subseteq Nat /\ n \in bounds
  OBVIOUS
<1> HIDE DEF bounds
<1> DEFINE b == Min(bounds)
<1>2. b \in bounds /\ \A c \in bounds : b <= c
  BY <1>1, LeastExists
<1> HIDE DEF b
<1>3. b \in Nat /\ \A x \in T : x <= b /\ x \in Nat /\ x >= 1
  BY <1>2 DEF bounds
<1>4. b \in T
  <2> SUFFICES ASSUME b \notin T PROVE FALSE
    OBVIOUS
  <2>1. PICK x \in T : TRUE
    OBVIOUS
  <2>2. x \in Nat /\ x < b
    BY <1>3
  <2>3. b - 1 \in Nat
    BY <1>3, <2>2
  <2>4. ASSUME NEW y \in T PROVE y <= b - 1
    BY <1>3
  <2>5. b - 1 \in bounds
    BY <2>3, <2>4 DEF bounds
  <2> QED BY <1>2, <1>3, <2>5
<1>5. \A x \in T : b >= x
  BY <1>3
<1> QED BY <1>4, <1>5 DEF Max

\* Induction up to a number, over a set.
LEMMA UpTo ==
  ASSUME NEW n \in Nat, NEW T, 0 \in T, \A i \in 1..n : i - 1 \in T => i \in T
  PROVE  \A i \in 0..n : i \in T
<1> DEFINE bad == (0..n) \ T
           less == {ss \in Nat \X Nat : ss[1] < ss[2]}
<1>1. IsWellFoundedOn(less, Nat)
  BY NatLessThanWellFounded DEF OpToRel
<1>2. \A x, y \in Nat : y < x => <<y, x>> \in less
  OBVIOUS
<1> HIDE DEF less
<1>3. ASSUME bad # {} PROVE FALSE
  <2>1. bad \subseteq Nat
    OBVIOUS
  <2> HIDE DEF bad
  <2>2. PICK m \in bad : \A y \in bad : ~(<<y, m>> \in less)
    BY <1>1, <1>3, <2>1, WFMin
  <2>3. m \in 0..n /\ m \notin T /\ m # 0
    BY <2>2 DEF bad
  <2>4. m \in 1..n /\ m - 1 \in 0..n /\ m - 1 \in Nat /\ m \in Nat /\ m - 1 < m
    BY <2>3
  <2>5. <<m - 1, m>> \in less
    BY <1>2, <2>4
  <2>6. m - 1 \in T
    BY <2>2, <2>4, <2>5 DEF bad
  <2> QED BY <2>3, <2>4, <2>6
<1> QED BY <1>3

\* Functions that begin alike and go on alike are the same.
Alike(f, g, n) == f[0] = g[0] /\ \A i \in 1..n : f[i - 1] = g[i - 1] => f[i] = g[i]

LEMMA AlikeAllAlong ==
  ASSUME NEW n \in Nat, NEW f, NEW g, Alike(f, g, n)
  PROVE  \A i \in 0..n : f[i] = g[i]
<1> DEFINE T == {i \in 0..n : f[i] = g[i]}
<1>1. 0 \in T /\ \A i \in 1..n : i - 1 \in T => i \in T
  BY DEF Alike
<1> HIDE DEF T
<1>2. \A i \in 0..n : i \in T
  BY <1>1, UpTo
<1> QED BY <1>2 DEF T

Iterates(f, n, V, v, next) ==
  f \in [0..n -> V] /\ f[0] = v /\ \A i \in 1..n : f[i] = next[<<i, f[i - 1]>>]

\* A list is computed one element after the other: each value from the one before.
LEMMA StepByStep ==
  ASSUME NEW n \in Nat, NEW V, NEW v \in V, NEW next \in [(1..n) \X V -> V]
  PROVE  \E f : Iterates(f, n, V, v, next)
<1> DEFINE T == {m \in 0..n : \E f : Iterates(f, m, V, v, next)}
<1>1. 0 \in T
  <2>1. Iterates([i \in 0..0 |-> v], 0, V, v, next)
    BY DEF Iterates
  <2> QED BY <2>1
<1>2. ASSUME NEW m \in 1..n, m - 1 \in T PROVE m \in T
  <2>1. PICK g : Iterates(g, m - 1, V, v, next)
    BY <1>2
  <2> DEFINE f == [i \in 0..m |-> IF i = m THEN next[<<m, g[m - 1]>>] ELSE g[i]]
  <2>2. g[m - 1] \in V /\ next[<<m, g[m - 1]>>] \in V
    BY <2>1 DEF Iterates
  <2>3. f \in [0..m -> V] /\ f[0] = v
    BY <2>1, <2>2 DEF Iterates
  <2>4. ASSUME NEW i \in 1..m PROVE f[i] = next[<<i, f[i - 1]>>]
    <3>1. i - 1 \in 0..m /\ i - 1 # m /\ i \in 0..m /\ f[i - 1] = g[i - 1]
      OBVIOUS
    <3>2. CASE i = m
      BY <3>1, <3>2
    <3>3. CASE i # m
      <4>1. i \in 1..(m - 1) /\ f[i] = g[i]
        BY <3>1, <3>3
      <4>2. g[i] = next[<<i, g[i - 1]>>]
        BY <2>1, <4>1 DEF Iterates
      <4> QED BY <3>1, <4>1, <4>2
    <3> QED BY <3>2, <3>3
  <2> HIDE DEF f
  <2>5. Iterates(f, m, V, v, next)
    BY <2>3, <2>4 DEF Iterates
  <2> QED BY <2>5
<1> HIDE DEF T
<1>3. \A i \in 0..n : i \in T
  BY <1>1, <1>2, UpTo
<1>4. n \in T
  BY <1>3
<1> QED BY <1>4 DEF T

\* What is left of the first so many elements.
Computes(kept, s, T) ==
  /\ kept[0] = <<>>
  /\ \A i \in 1..Len(s) :
       kept[i] = IF s[i] \in T THEN kept[i - 1] ELSE Append(kept[i - 1], s[i])
  /\ Without(s, T) = kept[Len(s)]

LEMMA WithoutIs ==
  ASSUME NEW S, NEW T, NEW s \in Seq(S)
  PROVE  \E kept \in [0..Len(s) -> Seq(S)] : Computes(kept, s, T)
<1> DEFINE n == Len(s)
           V == Seq(S)
           none == <<>>
           next == [p \in (1..n) \X V |->
                      IF s[p[1]] \in T THEN p[2] ELSE Append(p[2], s[p[1]])]
           kept[i \in 0..Len(s)] ==
             IF i = 0 THEN <<>>
             ELSE IF s[i] \in T THEN kept[i - 1] ELSE Append(kept[i - 1], s[i])
<1>1. n \in Nat /\ <<>> \in V /\ \A i \in 1..n : s[i] \in S
  BY LenProperties, EmptySeq
<1>2. next \in [(1..n) \X V -> V]
  <2>1. ASSUME NEW p \in (1..n) \X V
        PROVE  (IF s[p[1]] \in T THEN p[2] ELSE Append(p[2], s[p[1]])) \in V
    <3>1. s[p[1]] \in S /\ p[2] \in Seq(S)
      BY <1>1
    <3> QED BY <3>1, AppendProperties
  <2> QED BY <2>1
<1> HIDE DEF next
<1>3. PICK f \in [0..n -> V] : f[0] = <<>> /\ \A i \in 1..n : f[i] = next[<<i, f[i - 1]>>]
  <2>1. n \in Nat /\ none \in V
    BY <1>1
  <2> HIDE DEF n, V, none
  <2>2. \E f : Iterates(f, n, V, none, next)
    BY <1>2, <2>1, StepByStep
  <2> QED BY <2>2 DEF none, Iterates
<1>4. \A i \in 1..n : f[i] = IF s[i] \in T THEN f[i - 1] ELSE Append(f[i - 1], s[i])
  <2>1. ASSUME NEW i \in 1..n
        PROVE  f[i] = IF s[i] \in T THEN f[i - 1] ELSE Append(f[i - 1], s[i])
    <3>1. i - 1 \in 0..n /\ f[i - 1] \in V
      BY <1>1, <1>3
    <3> QED BY <1>3, <3>1 DEF next
  <2> QED BY <2>1
<1> HIDE DEF V
<1> HIDE DEF kept
<1>5. f = [i \in 0..n |-> IF i = 0 THEN <<>>
                          ELSE IF s[i] \in T THEN f[i - 1] ELSE Append(f[i - 1], s[i])]
  <2> DEFINE h == [i \in 0..n |-> IF i = 0 THEN <<>>
                                  ELSE IF s[i] \in T THEN f[i - 1] ELSE Append(f[i - 1], s[i])]
  <2>1. ASSUME NEW i \in 0..n PROVE f[i] = h[i]
    <3>1. CASE i = 0
      BY <1>3, <3>1
    <3>2. CASE i # 0
      <4>1. i \in 1..n
        BY <1>1, <3>2
      <4>2. h[i] = IF s[i] \in T THEN f[i - 1] ELSE Append(f[i - 1], s[i])
        BY <3>2
      <4> QED BY <1>4, <4>1, <4>2
    <3> QED BY <3>1, <3>2
  <2>2. DOMAIN h = 0..n /\ h = [i \in 0..n |-> h[i]] /\ f = [i \in 0..n |-> f[i]]
    BY <1>3
  <2> HIDE DEF h
  <2>3. f = h
    BY <2>1, <2>2
  <2> QED BY <2>3 DEF h
<1>6. kept = [i \in 0..n |-> IF i = 0 THEN <<>>
                          ELSE IF s[i] \in T THEN kept[i - 1] ELSE Append(kept[i - 1], s[i])]
  BY <1>5 DEF kept, n
<1>7. Without(s, T) = kept[n]
  BY DEF Without, kept, n
<1>8. \A i \in 0..n : kept[i] = IF i = 0 THEN <<>>
                          ELSE IF s[i] \in T THEN kept[i - 1] ELSE Append(kept[i - 1], s[i])
  BY <1>6
<1>9. \A i \in 0..n : kept[i] = f[i]
  <2>1. kept[0] = f[0]
    BY <1>1, <1>3, <1>8
  <2>2. ASSUME NEW i \in 1..n, kept[i - 1] = f[i - 1] PROVE kept[i] = f[i]
    <3>1. i \in 0..n /\ i # 0
      OBVIOUS
    <3> QED BY <1>4, <1>8, <2>2, <3>1
  <2>3. n \in Nat
    BY <1>1
  <2> HIDE DEF n
  <2>4. Alike(kept, f, n)
    BY <2>1, <2>2 DEF Alike
  <2> QED BY <2>3, <2>4, AlikeAllAlong
<1>10. \A i \in 1..n : f[i] = IF s[i] \in T THEN f[i - 1] ELSE Append(f[i - 1], s[i])
  BY <1>4
<1>11. kept[n] = f[n]
  BY <1>1, <1>9
<1>12. Computes(f, s, T)
  BY <1>3, <1>7, <1>10, <1>11 DEF Computes, n
<1> QED BY <1>3, <1>12 DEF n, V

-----------------------------------------------------------------------------
\* What holds of the empty list, and of a longer list if of the shorter, holds of every list.
LEMMA EveryList ==
  ASSUME NEW S, NEW T, <<>> \in T,
         \A s \in Seq(S) : \A e \in S : s \in T => Append(s, e) \in T
  PROVE  \A s \in Seq(S) : s \in T
<1> SUFFICES ASSUME NEW s \in Seq(S) PROVE s \in T
  OBVIOUS
<1> DEFINE n == Len(s)
           front(m) == SubSeq(s, 1, m)
           good == {m \in 0..Len(s) : front(m) \in T}
<1>1. n \in Nat /\ \A i \in 1..n : s[i] \in S
  BY LenProperties, ElementOfSeq
<1>2. \A m \in 0..n : /\ front(m) \in Seq(S) /\ Len(front(m)) = m
                      /\ \A i \in 1..m : front(m)[i] = s[i]
  <2> SUFFICES ASSUME NEW m \in 0..n
               PROVE  /\ front(m) \in Seq(S) /\ Len(front(m)) = m
                      /\ \A i \in 1..m : front(m)[i] = s[i]
    OBVIOUS
  <2>1. \A i \in 1..m : s[i] \in S
    BY <1>1
  <2>2. /\ SubSeq(s, 1, m) \in Seq(S)
        /\ Len(SubSeq(s, 1, m)) = IF 1 <= m THEN m - 1 + 1 ELSE 0
        /\ \A i \in 1..(m - 1 + 1) : SubSeq(s, 1, m)[i] = s[1 + i - 1]
    BY <1>1, <2>1, SubSeqProperties
  <2> QED BY <1>1, <2>2
<1> HIDE DEF front
<1>3. front(0) = <<>>
  BY <1>1, <1>2, EmptySeq
<1>4. ASSUME NEW m \in 1..n PROVE front(m) = Append(front(m - 1), s[m]) /\ s[m] \in S
  <2> DEFINE a == front(m - 1)
             b == front(m)
             e == s[m]
             c == Append(a, e)
  <2>1. /\ a \in Seq(S) /\ Len(a) = m - 1 /\ \A i \in 1..(m - 1) : a[i] = s[i]
        /\ b \in Seq(S) /\ Len(b) = m /\ \A i \in 1..m : b[i] = s[i]
        /\ e \in S /\ e = s[m]
    <3>1. m - 1 \in 0..n /\ m \in 0..n /\ m \in Nat /\ m - 1 \in Nat
      BY <1>1
    <3> QED BY <1>1, <1>2, <3>1
  <2> HIDE DEF a, b, e
  <2>2. /\ c \in Seq(S) /\ Len(c) = m
        /\ \A i \in 1..(m - 1) : c[i] = s[i] /\ c[m] = s[m]
        /\ c[m] = s[m]
    <3>1. /\ c \in Seq(S) /\ Len(c) = Len(a) + 1 /\ \A i \in 1..Len(a) : c[i] = a[i]
          /\ c[Len(a) + 1] = e
      BY <2>1, AppendProperties
    <3>2. Len(a) + 1 = m
      BY <2>1
    <3> QED BY <2>1, <3>1, <3>2
  <2> HIDE DEF c
  <2>3. \A i \in 1..m : i = m \/ i \in 1..(m - 1)
    OBVIOUS
  <2>4. b = c
    BY <2>1, <2>2, <2>3, SeqEqual
  <2> QED BY <2>1, <2>4 DEF a, b, c, e
<1>5. 0 \in good
  BY <1>1, <1>3
<1>6. ASSUME NEW m \in 1..n, m - 1 \in good PROVE m \in good
  <2>1. front(m - 1) \in Seq(S) /\ front(m - 1) \in T /\ m - 1 \in 0..n
    BY <1>2, <1>6
  <2>2. front(m) = Append(front(m - 1), s[m]) /\ s[m] \in S
    BY <1>4
  <2>3. Append(front(m - 1), s[m]) \in T
    BY <2>1, <2>2
  <2>4. m \in 0..Len(s)
    OBVIOUS
  <2> QED BY <2>2, <2>3, <2>4
<1> HIDE DEF good
<1>7. n \in good
  <2>1. n \in Nat
    BY <1>1
  <2> HIDE DEF n
  <2>2. \A m \in 0..n : m \in good
    BY <1>5, <1>6, <2>1, UpTo
  <2> QED BY <2>1, <2>2
<1>8. front(n) = s
  BY <1>1, <1>2, SeqEqual
<1> QED BY <1>7, <1>8 DEF good

LEMMA WithoutEmpty == ASSUME NEW T PROVE Without(<<>>, T) = <<>>
<1> DEFINE none == <<>>
<1>1. none \in Seq({}) /\ Len(none) = 0
  OBVIOUS
<1> HIDE DEF none
<1>2. \E kept \in [0..Len(none) -> Seq({})] : Computes(kept, none, T)
  BY <1>1, WithoutIs
<1> QED BY <1>1, <1>2 DEF Computes, none

LEMMA WithoutAppend ==
  ASSUME NEW S, NEW T, NEW s \in Seq(S), NEW e \in S
  PROVE  Without(Append(s, e), T) = IF e \in T THEN Without(s, T) ELSE Append(Without(s, T), e)
<1> DEFINE r == Append(s, e)
           n == Len(s)
<1>1. /\ r \in Seq(S) /\ Len(r) = n + 1 /\ n \in Nat
      /\ r[n + 1] = e /\ \A i \in 1..n : r[i] = s[i]
  BY AppendProperties, LenProperties
<1> HIDE DEF r
<1>2. PICK a \in [0..Len(s) -> Seq(S)] : Computes(a, s, T)
  BY WithoutIs
<1>3. PICK b \in [0..Len(r) -> Seq(S)] : Computes(b, r, T)
  BY <1>1, WithoutIs
<1>4. \A i \in 0..n : a[i] = b[i]
  <2>1. ASSUME NEW i \in 1..n, a[i - 1] = b[i - 1] PROVE a[i] = b[i]
    <3>1. i \in 1..Len(r) /\ r[i] = s[i]
      BY <1>1
    <3>2. /\ a[i] = IF s[i] \in T THEN a[i - 1] ELSE Append(a[i - 1], s[i])
          /\ b[i] = IF r[i] \in T THEN b[i - 1] ELSE Append(b[i - 1], r[i])
      BY <1>2, <1>3, <3>1 DEF Computes
    <3> QED BY <2>1, <3>1, <3>2
  <2>2. a[0] = b[0]
    BY <1>2, <1>3 DEF Computes
  <2>3. n \in Nat
    BY <1>1
  <2> HIDE DEF n
  <2>4. Alike(a, b, n)
    BY <2>1, <2>2 DEF Alike
  <2> QED BY <2>3, <2>4, AlikeAllAlong
<1>5. n + 1 \in 1..Len(r) /\ n + 1 - 1 = n /\ n \in 0..n
  BY <1>1
<1>6. b[n + 1] = IF e \in T THEN b[n] ELSE Append(b[n], e)
  <2>1. b[n + 1] = IF r[n + 1] \in T THEN b[n + 1 - 1] ELSE Append(b[n + 1 - 1], r[n + 1])
    BY <1>3, <1>5 DEF Computes
  <2>2. n + 1 - 1 = n /\ r[n + 1] = e
    BY <1>1, <1>5
  <2> HIDE DEF n
  <2> QED BY <2>1, <2>2
<1>7. a[n] = b[n] /\ Without(s, T) = a[n] /\ Without(r, T) = b[n + 1]
  BY <1>1, <1>2, <1>3, <1>4, <1>5 DEF Computes
<1> QED BY <1>6, <1>7 DEF r

\* What is left are elements of the list, and none of T.
LEMMA WithoutType ==
  ASSUME NEW S, NEW T, NEW s \in Seq(S)
  PROVE  Without(s, T) \in Seq(S \ T)
<1> DEFINE good == {r \in Seq(S) : Without(r, T) \in Seq(S \ T)}
           R == S \ T
<1>1. <<>> \in good
  BY WithoutEmpty, EmptySeq
<1>2. ASSUME NEW r \in Seq(S), NEW e \in S, r \in good PROVE Append(r, e) \in good
  <2>1. Append(r, e) \in Seq(S)
    BY AppendProperties
  <2>2. Without(Append(r, e), T) = IF e \in T THEN Without(r, T) ELSE Append(Without(r, T), e)
    BY WithoutAppend
  <2> DEFINE w == Without(r, T)
  <2>3. w \in Seq(R)
    BY <1>2
  <2> HIDE DEF w
  <2>4. e \notin T => e \in R
    OBVIOUS
  <2> HIDE DEF R
  <2>5. e \notin T => Append(w, e) \in Seq(R)
    BY <2>3, <2>4, AppendProperties
  <2> QED BY <2>1, <2>2, <2>3, <2>5 DEF w, R
<1> HIDE DEF good
<1>3. s \in good
  BY <1>1, <1>2, EveryList
<1> QED BY <1>3 DEF good

LEMMA WithoutNothing ==
  ASSUME NEW S, NEW T, NEW s \in Seq(S), \A i \in 1..Len(s) : s[i] \notin T
  PROVE  Without(s, T) = s
<1> DEFINE good == {r \in Seq(S) : (\A i \in 1..Len(r) : r[i] \notin T) => Without(r, T) = r}
<1>1. <<>> \in good
  BY WithoutEmpty, EmptySeq
<1>2. ASSUME NEW r \in Seq(S), NEW e \in S, r \in good PROVE Append(r, e) \in good
  <2> DEFINE a == Append(r, e)
  <2>1. /\ a \in Seq(S) /\ Len(a) = Len(r) + 1 /\ Len(r) \in Nat
        /\ a[Len(r) + 1] = e /\ \A i \in 1..Len(r) : a[i] = r[i]
    BY AppendProperties, LenProperties
  <2>2. Without(a, T) = IF e \in T THEN Without(r, T) ELSE Append(Without(r, T), e)
    BY WithoutAppend
  <2>3. a = Append(r, e)
    OBVIOUS
  <2> HIDE DEF a
  <2>4. ASSUME \A i \in 1..Len(a) : a[i] \notin T PROVE Without(a, T) = a
    <3>1. e \notin T
      <4>1. Len(r) + 1 \in 1..Len(a)
        BY <2>1
      <4> QED BY <2>1, <2>4, <4>1
    <3>2. ASSUME NEW i \in 1..Len(r) PROVE r[i] \notin T
      <4>1. i \in 1..Len(a)
        BY <2>1
      <4> QED BY <2>1, <2>4, <4>1
    <3>3. Without(r, T) = r
      BY <1>2, <3>2
    <3> QED BY <2>2, <2>3, <3>1, <3>3
  <2> QED BY <2>1, <2>4 DEF a
<1> HIDE DEF good
<1>3. s \in good
  BY <1>1, <1>2, EveryList
<1> QED BY <1>3 DEF good

-----------------------------------------------------------------------------
(* Elements, and lists put together.                                         *)

LEMMA ElementsOf ==
  ASSUME NEW S, NEW s \in Seq(S)
  PROVE  /\ Len(s) \in Nat /\ DOMAIN s = 1..Len(s)
         /\ \A i \in 1..Len(s) : s[i] \in S
         /\ ToSet(s) = {s[i] : i \in 1..Len(s)} /\ ToSet(s) \subseteq S
         /\ s \in Seq(ToSet(s))
         /\ s # <<>> => Len(s) >= 1
<1>1. Len(s) \in Nat /\ DOMAIN s = 1..Len(s) /\ \A i \in 1..Len(s) : s[i] \in S
  BY LenProperties, ElementOfSeq
<1>2. ToSet(s) = {s[i] : i \in 1..Len(s)}
  BY <1>1 DEF ToSet
<1>3. ToSet(s) \subseteq S
  BY <1>1, <1>2
<1>4. s \in Seq(ToSet(s))
  <2> DEFINE R == ToSet(s)
  <2>1. \A i \in 1..Len(s) : s[i] \in R
    BY <1>2
  <2> HIDE DEF R
  <2>2. s = [i \in 1..Len(s) |-> s[i]]
    BY LenProperties
  <2>3. s \in [1..Len(s) -> R]
    BY <2>1, <2>2
  <2>4. s \in Seq(R)
    BY <1>1, <2>3
  <2> QED BY <2>4 DEF R
<1>5. s # <<>> => Len(s) >= 1
  BY <1>1, EmptySeq
<1> QED BY <1>1, <1>2, <1>3, <1>4, <1>5

LEMMA Joined ==
  ASSUME NEW S, NEW s \in Seq(S), NEW t \in Seq(S)
  PROVE  /\ s \o t \in Seq(S) /\ Len(s \o t) = Len(s) + Len(t)
         /\ \A i \in 1..Len(s) : (s \o t)[i] = s[i]
         /\ \A i \in 1..Len(t) : (s \o t)[Len(s) + i] = t[i]
         /\ ToSet(s \o t) = ToSet(s) \cup ToSet(t)
<1> DEFINE r == s \o t
           m == Len(s)
           n == Len(t)
<1>1. /\ r \in Seq(S) /\ Len(r) = m + n /\ m \in Nat /\ n \in Nat
      /\ \A i \in 1..(m + n) : r[i] = IF i <= m THEN s[i] ELSE t[i - m]
  BY ConcatProperties, LenProperties
<1>2. ToSet(r) = {r[i] : i \in 1..Len(r)} /\ ToSet(s) = {s[i] : i \in 1..m}
      /\ ToSet(t) = {t[i] : i \in 1..n}
  BY <1>1, ElementsOf
<1> HIDE DEF r, m, n
<1>3. \A i \in 1..m : r[i] = s[i]
  BY <1>1
<1>4. ASSUME NEW i \in 1..n PROVE r[m + i] = t[i]
  <2>1. m + i \in 1..(m + n) /\ ~(m + i <= m) /\ m + i - m = i
    BY <1>1
  <2> QED BY <1>1, <2>1
<1>5. ToSet(r) \subseteq ToSet(s) \cup ToSet(t)
  <2>1. ASSUME NEW i \in 1..(m + n) PROVE r[i] \in ToSet(s) \cup ToSet(t)
    <3>1. CASE i <= m
      <4>1. i \in 1..m
        BY <1>1, <3>1
      <4> QED BY <1>2, <1>3, <4>1
    <3>2. CASE ~(i <= m)
      <4>1. i - m \in 1..n /\ r[i] = t[i - m]
        BY <1>1, <3>2
      <4> QED BY <1>2, <4>1
    <3> QED BY <3>1, <3>2
  <2> QED BY <1>1, <1>2, <2>1
<1>6. ToSet(s) \cup ToSet(t) \subseteq ToSet(r)
  <2>1. ASSUME NEW i \in 1..m PROVE s[i] \in ToSet(r)
    <3>1. i \in 1..Len(r)
      BY <1>1
    <3> QED BY <1>2, <1>3, <3>1
  <2>2. ASSUME NEW i \in 1..n PROVE t[i] \in ToSet(r)
    <3>1. m + i \in 1..Len(r)
      BY <1>1
    <3> QED BY <1>2, <1>4, <3>1
  <2> QED BY <1>2, <2>1, <2>2
<1> QED BY <1>1, <1>3, <1>4, <1>5, <1>6 DEF r, m, n

LEMMA OneElement ==
  ASSUME NEW S, NEW e \in S
  PROVE  /\ <<e>> \in Seq(S) /\ Len(<<e>>) = 1 /\ <<e>>[1] = e /\ <<e>> # <<>>
         /\ ToSet(<<e>>) = {e}
<1>1. <<e>> \in Seq(S) /\ Len(<<e>>) = 1 /\ <<e>>[1] = e
  OBVIOUS
<1>2. ToSet(<<e>>) = {<<e>>[i] : i \in 1..Len(<<e>>)}
  BY <1>1, ElementsOf
<1>3. ToSet(<<e>>) = {e}
  <2> DEFINE l == <<e>>
  <2>1. ToSet(l) = {l[i] : i \in 1..1} /\ l[1] = e
    BY <1>1, <1>2
  <2> HIDE DEF l
  <2>2. ToSet(l) = {e}
    BY <2>1
  <2> QED BY <2>2 DEF l
<1> QED BY <1>1, <1>3

\* A list is its front and its last element, its head and its tail.
LEMMA FrontAndLast ==
  ASSUME NEW S, NEW s \in Seq(S), s # <<>>
  PROVE  Front(s) \in Seq(S) /\ Last(s) \in S /\ s = Append(Front(s), Last(s))
<1> DEFINE n == Len(s)
           f == Front(s)
           e == Last(s)
           r == Append(f, e)
<1>1. n \in Nat /\ n >= 1 /\ \A i \in 1..n : s[i] \in S
  BY ElementsOf
<1>2. f \in Seq(S) /\ Len(f) = n - 1 /\ \A i \in 1..(n - 1) : f[i] = s[i]
  <2>1. /\ SubSeq(s, 1, n - 1) \in Seq(S)
        /\ Len(SubSeq(s, 1, n - 1)) = IF 1 <= n - 1 THEN n - 1 - 1 + 1 ELSE 0
        /\ \A i \in 1..(n - 1 - 1 + 1) : SubSeq(s, 1, n - 1)[i] = s[1 + i - 1]
    <3>1. \A i \in 1..(n - 1) : s[i] \in S
      BY <1>1
    <3>2. 1 \in Int /\ n - 1 \in Int
      BY <1>1
    <3> QED BY <3>1, <3>2, SubSeqProperties
  <2>2. f = SubSeq(s, 1, n - 1)
    BY DEF Front
  <2>3. n - 1 - 1 + 1 = n - 1 /\ (1 <= n - 1 \/ n - 1 = 0)
    <3>1. n \in Nat /\ n >= 1
      BY <1>1
    <3> HIDE DEF n
    <3> QED BY <3>1
  <2>4. \A i \in 1..(n - 1) : 1 + i - 1 = i
    OBVIOUS
  <2> HIDE DEF f, n
  <2> QED BY <2>1, <2>2, <2>3, <2>4
<1>3. e = s[n] /\ e \in S
  BY <1>1 DEF Last
<1> HIDE DEF f, e
<1>4. /\ r \in Seq(S) /\ Len(r) = Len(f) + 1
      /\ \A i \in 1..Len(f) : r[i] = f[i] /\ r[Len(f) + 1] = e
      /\ r[Len(f) + 1] = e
  BY <1>2, <1>3, AppendProperties
<1> HIDE DEF r
<1>5. ASSUME NEW i \in 1..n PROVE s[i] = r[i]
  <2>1. i = n \/ i \in 1..(n - 1)
    BY <1>1
  <2>2. Len(f) + 1 = n
    BY <1>1, <1>2
  <2> QED BY <1>2, <1>3, <1>4, <2>1, <2>2
<1>6. Len(r) = n
  BY <1>1, <1>2, <1>4
<1>7. s = r
  BY <1>4, <1>5, <1>6, SeqEqual
<1> QED BY <1>2, <1>3, <1>7 DEF f, e, r

LEMMA AppendToJoin ==
  ASSUME NEW S, NEW s \in Seq(S), NEW t \in Seq(S), NEW e \in S
  PROVE  s \o Append(t, e) = Append(s \o t, e)
<1>1. <<e>> \in Seq(S) /\ s \o t \in Seq(S)
  BY OneElement, ConcatProperties
<1>2. Append(t, e) = t \o <<e>> /\ Append(s \o t, e) = (s \o t) \o <<e>>
  BY <1>1, AppendIsConcat
<1> QED BY <1>1, <1>2, ConcatAssociative

-----------------------------------------------------------------------------
LEMMA WithoutJoin ==
  ASSUME NEW S, NEW T, NEW s \in Seq(S), NEW t \in Seq(S)
  PROVE  Without(s \o t, T) = Without(s, T) \o Without(t, T)
<1> DEFINE good == {r \in Seq(S) : Without(s \o r, T) = Without(s, T) \o Without(r, T)}
           w == Without(s, T)
<1>1. w \in Seq(S \ T) /\ S \ T \subseteq S
  BY WithoutType
<1>2. w \in Seq(S)
  BY <1>1, SeqMonotonic
<1>3. <<>> \in good
  <2>1. s \o <<>> = s /\ w \o <<>> = w /\ <<>> \in Seq(S)
    BY <1>2, ConcatEmptySeq, EmptySeq
  <2> QED BY <2>1, WithoutEmpty
<1>4. ASSUME NEW r \in Seq(S), NEW e \in S, r \in good PROVE Append(r, e) \in good
  <2> DEFINE a == Append(r, e)
             x == Without(r, T)
             sr == s \o r
  <2>1. a \in Seq(S) /\ sr \in Seq(S) /\ s \o a = Append(sr, e)
    BY AppendToJoin, AppendProperties, ConcatProperties
  <2>2. x \in Seq(S)
    BY WithoutType, SeqMonotonic, S \ T \subseteq S
  <2>3. Without(a, T) = IF e \in T THEN x ELSE Append(x, e)
    BY WithoutAppend
  <2>4. Without(sr, T) = w \o x
    BY <1>4
  <2> HIDE DEF a, sr, x, w
  <2>5. Without(Append(sr, e), T) = IF e \in T THEN Without(sr, T) ELSE Append(Without(sr, T), e)
    BY <2>1, WithoutAppend
  <2>6. w \o Append(x, e) = Append(w \o x, e)
    BY <1>2, <2>2, AppendToJoin
  <2>7. Without(s \o a, T) = w \o Without(a, T)
    BY <2>1, <2>3, <2>4, <2>5, <2>6
  <2> QED BY <2>1, <2>7 DEF a, w
<1> HIDE DEF good
<1>5. t \in good
  BY <1>3, <1>4, EveryList
<1> QED BY <1>5 DEF good

LEMMA WithoutKeeps ==
  ASSUME NEW S, NEW T, NEW s \in Seq(S)
  PROVE  ToSet(Without(s, T)) = ToSet(s) \ T
<1> DEFINE good == {r \in Seq(S) : ToSet(Without(r, T)) = ToSet(r) \ T}
<1>1. <<>> \in good
  <2>1. <<>> \in Seq(S) /\ ToSet(<<>>) = {}
    BY EmptySeq DEF ToSet
  <2> QED BY <2>1, WithoutEmpty
<1>2. ASSUME NEW r \in Seq(S), NEW e \in S, r \in good PROVE Append(r, e) \in good
  <2> DEFINE x == Without(r, T)
             l == <<e>>
  <2>1. x \in Seq(S)
    BY WithoutType, SeqMonotonic, S \ T \subseteq S
  <2>2. l \in Seq(S) /\ ToSet(l) = {e}
    BY OneElement
  <2>3. Append(r, e) = r \o l /\ Append(x, e) = x \o l /\ Append(r, e) \in Seq(S)
    BY <2>1, AppendIsConcat, AppendProperties
  <2>4. Without(Append(r, e), T) = IF e \in T THEN x ELSE Append(x, e)
    BY WithoutAppend
  <2>5. ToSet(x) = ToSet(r) \ T
    BY <1>2
  <2> HIDE DEF x, l
  <2>6. ToSet(r \o l) = ToSet(r) \cup {e} /\ ToSet(x \o l) = ToSet(x) \cup {e}
    BY <2>1, <2>2, Joined
  <2>7. ToSet(Without(Append(r, e), T)) = ToSet(Append(r, e)) \ T
    <3>1. CASE e \in T
      BY <2>3, <2>4, <2>5, <2>6, <3>1
    <3>2. CASE e \notin T
      BY <2>3, <2>4, <2>5, <2>6, <3>2
    <3> QED BY <3>1, <3>2
  <2> QED BY <2>3, <2>7
<1> HIDE DEF good
<1>3. s \in good
  BY <1>1, <1>2, EveryList
<1> QED BY <1>3 DEF good

Once(s) == \A i, j \in 1..Len(s) : s[i] = s[j] => i = j

LEMMA OnceJoin ==
  ASSUME NEW S, NEW s \in Seq(S), NEW t \in Seq(S),
         Once(s), Once(t), ToSet(s) \cap ToSet(t) = {}
  PROVE  Once(s \o t)
<1> DEFINE r == s \o t
           m == Len(s)
           n == Len(t)
<1>1. /\ Len(r) = m + n /\ \A i \in 1..m : r[i] = s[i]
      /\ \A i \in 1..n : r[m + i] = t[i]
  BY Joined
<1>2. /\ m \in Nat /\ n \in Nat
      /\ ToSet(s) = {s[i] : i \in 1..m} /\ ToSet(t) = {t[i] : i \in 1..n}
  BY ElementsOf
<1>3. /\ \A i, j \in 1..m : s[i] = s[j] => i = j
      /\ \A i, j \in 1..n : t[i] = t[j] => i = j
  BY DEF Once
<1>4. \A i \in 1..m : \A j \in 1..n : s[i] # t[j]
  BY <1>2
<1> HIDE DEF r, m, n
<1>5. ASSUME NEW i \in 1..(m + n)
      PROVE  i \in 1..m \/ \E k \in 1..n : i = m + k
  <2>1. CASE i <= m
    BY <1>2, <2>1
  <2>2. CASE ~(i <= m)
    <3>1. i - m \in 1..n /\ i = m + (i - m)
      BY <1>2, <2>2
    <3> QED BY <3>1
  <2> QED BY <2>1, <2>2
<1>6. ASSUME NEW i \in 1..(m + n), NEW j \in 1..(m + n), r[i] = r[j] PROVE i = j
  <2>1. CASE i \in 1..m /\ j \in 1..m
    BY <1>1, <1>3, <1>6, <2>1
  <2>2. ASSUME NEW k \in 1..n, NEW l \in 1..n, i = m + k, j = m + l PROVE i = j
    BY <1>1, <1>3, <1>6, <2>2
  <2>3. ASSUME i \in 1..m, NEW l \in 1..n, j = m + l PROVE FALSE
    BY <1>1, <1>4, <1>6, <2>3
  <2>4. ASSUME j \in 1..m, NEW l \in 1..n, i = m + l PROVE FALSE
    BY <1>1, <1>4, <1>6, <2>4
  <2> QED BY <1>5, <2>1, <2>2, <2>3, <2>4
<1>7. Once(r)
  BY <1>1, <1>6 DEF Once
<1> QED BY <1>7 DEF r

LEMMA OncePart ==
  ASSUME NEW S, NEW s \in Seq(S), NEW t \in Seq(S), Once(s \o t)
  PROVE  Once(s) /\ ToSet(s) \cap ToSet(t) = {}
<1> DEFINE r == s \o t
           m == Len(s)
           n == Len(t)
<1>1. /\ Len(r) = m + n /\ \A i \in 1..m : r[i] = s[i]
      /\ \A i \in 1..n : r[m + i] = t[i]
  BY Joined
<1>2. /\ m \in Nat /\ n \in Nat
      /\ ToSet(s) = {s[i] : i \in 1..m} /\ ToSet(t) = {t[i] : i \in 1..n}
  BY ElementsOf
<1>3. \A i, j \in 1..(m + n) : r[i] = r[j] => i = j
  BY <1>1 DEF Once
<1>4. \A i \in 1..m : i \in 1..(m + n)
  BY <1>2
<1>5. \A i \in 1..n : m + i \in 1..(m + n)
  BY <1>2
<1> HIDE DEF r, n
<1>6. Once(s)
  <2> SUFFICES ASSUME NEW i \in 1..m, NEW j \in 1..m, s[i] = s[j] PROVE i = j
    BY DEF Once
  <2> HIDE DEF m
  <2> QED BY <1>1, <1>3, <1>4
<1> HIDE DEF m
<1>7. ASSUME NEW i \in 1..m, NEW j \in 1..n, s[i] = t[j] PROVE FALSE
  <2>1. r[i] = r[m + j]
    BY <1>1, <1>7
  <2>2. i = m + j
    BY <1>3, <1>4, <1>5, <2>1
  <2> QED BY <1>2, <2>2
<1> QED BY <1>2, <1>6, <1>7

LEMMA WithoutOnce ==
  ASSUME NEW S, NEW T, NEW s \in Seq(S), Once(s)
  PROVE  Once(Without(s, T))
<1> DEFINE good == {r \in Seq(S) : Once(r) => Once(Without(r, T))}
<1>1. <<>> \in good
  <2>1. <<>> \in Seq(S)
    BY EmptySeq
  <2> QED BY <2>1, WithoutEmpty
<1>2. ASSUME NEW r \in Seq(S), NEW e \in S, r \in good PROVE Append(r, e) \in good
  <2> DEFINE x == Without(r, T)
             l == <<e>>
             a == Append(r, e)
  <2>1. x \in Seq(S) /\ ToSet(x) = ToSet(r) \ T
    BY WithoutType, WithoutKeeps, SeqMonotonic, S \ T \subseteq S
  <2>2. l \in Seq(S) /\ ToSet(l) = {e} /\ Once(l)
    BY OneElement DEF Once
  <2>3. a = r \o l /\ Append(x, e) = x \o l /\ a \in Seq(S)
    BY <2>1, AppendIsConcat, AppendProperties
  <2>4. Without(a, T) = IF e \in T THEN x ELSE Append(x, e)
    BY WithoutAppend
  <2>5. Once(r) => Once(x)
    BY <1>2
  <2> HIDE DEF x, l, a
  <2>6. ASSUME Once(a) PROVE Once(Without(a, T))
    <3>1. Once(r) /\ ToSet(r) \cap ToSet(l) = {}
      BY <2>2, <2>3, <2>6, OncePart
    <3>2. Once(x) /\ ToSet(x) \cap ToSet(l) = {}
      BY <2>1, <2>5, <3>1
    <3>3. Once(x \o l)
      BY <2>1, <2>2, <3>2, OnceJoin
    <3> QED BY <2>3, <2>4, <3>2, <3>3
  <2> QED BY <2>3, <2>6 DEF a
<1> HIDE DEF good
<1>3. s \in good
  BY <1>1, <1>2, EveryList
<1> QED BY <1>3 DEF good

-----------------------------------------------------------------------------
\* The lexicographic order of lists of numbers, which ranks what is left to do.
Below(s, t) == \E k \in DOMAIN s : s[k] < t[k] /\ \A j \in 1..(k - 1) : s[j] = t[j]

LEMMA BelowAt ==
  ASSUME NEW s, NEW t, NEW k \in DOMAIN s, s[k] < t[k],
         NEW n, n = k - 1, \A j \in 1..n : s[j] = t[j]
  PROVE  Below(s, t)
<1> SUFFICES \E kk \in DOMAIN s : s[kk] < t[kk] /\ \A j \in 1..(kk - 1) : s[j] = t[j]
  BY DEF Below
<1> WITNESS k \in DOMAIN s
<1> QED OBVIOUS

\* Every set of lists of one length has a list with none of the set below it.
LEMMA BelowHasLeast ==
  ASSUME NEW n \in Nat, NEW S, S \subseteq [1..n -> Nat], S # {}
  PROVE  \E t \in S : \A s \in S : ~Below(s, t)
<1> DEFINE LeastTo(k, t) ==
             \A s \in S : \A j \in 1..k : (\A i \in 1..(j - 1) : s[i] = t[i]) => t[j] <= s[j]
           good == {k \in 0..n : \E t \in S : LeastTo(k, t)}
<1>1. 0 \in good
  OBVIOUS
<1>2. ASSUME NEW k \in 1..n, k - 1 \in good PROVE k \in good
  <2>1. PICK t \in S : LeastTo(k - 1, t)
    BY <1>2
  <2> DEFINE same == {s \in S : \A i \in 1..(k - 1) : s[i] = t[i]}
             values == {s[k] : s \in same}
  <2>2. t \in same /\ \A s \in S : s[k] \in Nat
    OBVIOUS
  <2>3. values \subseteq Nat /\ t[k] \in values
    BY <2>2
  <2> HIDE DEF values
  <2>4. Min(values) \in values /\ \A y \in values : Min(values) <= y
    BY <2>3, LeastExists
  <2>5. PICK u \in same : u[k] = Min(values)
    BY <2>4 DEF values
  <2>6. \A s \in same : u[k] <= s[k]
    BY <2>4, <2>5 DEF values
  <2>7. u \in S /\ \A i \in 1..(k - 1) : u[i] = t[i]
    OBVIOUS
  <2>8. ASSUME NEW s \in S, NEW j \in 1..k, \A i \in 1..(j - 1) : s[i] = u[i]
        PROVE  u[j] <= s[j]
    <3>1. CASE j = k
      <4>1. \A i \in 1..(k - 1) : s[i] = t[i]
        BY <2>7, <2>8, <3>1
      <4>2. s \in same
        BY <4>1
      <4> QED BY <2>6, <3>1, <4>2
    <3>2. CASE j # k
      <4>1. j \in 1..(k - 1) /\ \A i \in 1..(j - 1) : i \in 1..(k - 1)
        BY <3>2
      <4>2. \A i \in 1..(j - 1) : s[i] = t[i]
        BY <2>7, <2>8, <4>1
      <4>3. t[j] <= s[j]
        BY <2>1, <4>1, <4>2
      <4> QED BY <2>7, <4>1, <4>3
    <3> QED BY <3>1, <3>2
  <2>9. LeastTo(k, u)
    BY <2>8
  <2> QED BY <2>7, <2>9
<1> HIDE DEF good
<1>3. n \in good
  <2>1. \A k \in 0..n : k \in good
    BY <1>1, <1>2, UpTo
  <2> QED BY <2>1
<1>4. PICK t \in S : LeastTo(n, t)
  BY <1>3 DEF good
<1>5. ASSUME NEW s \in S, Below(s, t) PROVE FALSE
  <2>1. PICK k \in DOMAIN s : s[k] < t[k] /\ \A j \in 1..(k - 1) : s[j] = t[j]
    BY <1>5 DEF Below
  <2>2. k \in 1..n
    BY <2>1
  <2>3. s[k] \in Nat /\ t[k] \in Nat
    BY <2>2
  <2>4. t[k] <= s[k]
    BY <1>4, <2>1, <2>2
  <2> QED BY <2>1, <2>3, <2>4
<1> QED BY <1>5

\* So nothing goes down for ever.
LEMMA NoEndlessDescent ==
  ASSUME NEW n \in Nat, NEW f \in [Nat -> [1..n -> Nat]]
  PROVE  \E i \in Nat : ~Below(f[i + 1], f[i])
<1> DEFINE S == {f[i] : i \in Nat}
<1>1. S \subseteq [1..n -> Nat] /\ f[0] \in S
  OBVIOUS
<1>2. S # {}
  BY <1>1
<1> HIDE DEF S
<1>3. PICK t \in S : \A s \in S : ~Below(s, t)
  BY <1>1, <1>2, BelowHasLeast
<1>4. PICK i \in Nat : t = f[i]
  BY DEF S
<1>5. f[i + 1] \in S
  BY DEF S
<1> QED BY <1>3, <1>4, <1>5
=============================================================================
