------------------------------ MODULE OrderLemmas ------------------------------
(***************************************************************************)
(* What Min() of the community modules is, for sets of natural numbers; and *)
(* what follows from it: induction and definition by recursion, with sets   *)
(* and functions in place of operators; and what concatenation does to      *)
(* lists in the order of a weight.                                          *)
(***************************************************************************)
EXTENDS Integers, SequencesExt, WellFoundedInduction, TLAPS

(* A set of natural numbers that has elements has a least one.              *)
LEMMA MinExists ==
  ASSUME NEW S \in SUBSET Nat, S # {}
  PROVE  Min(S) \in S /\ \A x \in S : Min(S) <= x
<1>1. PICK x \in S : \A y \in S : <<y, x>> \notin OpToRel(<, Nat)
  BY NatLessThanWellFounded, WFMin, Zenon
<1>2. \A y \in S : x <= y
  <2> SUFFICES ASSUME NEW y \in S PROVE x <= y OBVIOUS
  <2>1. <<y, x>> \notin OpToRel(<, Nat) BY <1>1
  <2>2. x \in Nat /\ y \in Nat OBVIOUS
  <2>3. <<y, x>> \in OpToRel(<, Nat) <=> y < x BY <2>2, Zenon DEF OpToRel
  <2>4. ~(y < x) BY <2>1, <2>3, Zenon
  <2>5. x \in Nat /\ y \in Nat OBVIOUS
  <2> QED BY <2>4, <2>5
<1> QED BY <1>2 DEF Min

(* And a set with an upper bound a greatest one.                            *)
LEMMA GreatestExists ==
  ASSUME NEW n \in Nat, NEW S \in SUBSET (0..n), S # {}
  PROVE  Max(S) \in S /\ \A x \in S : x <= Max(S)
<1> DEFINE T == {n - x : x \in S}
<1>1. T \subseteq Nat /\ T # {}
  <2>1. \A x \in S : n - x \in Nat OBVIOUS
  <2>2. PICK x \in S : TRUE OBVIOUS
  <2>3. n - x \in T OBVIOUS
  <2> QED BY <2>1, <2>3
<1>2. Min(T) \in T /\ \A y \in T : Min(T) <= y BY <1>1, MinExists
<1>3. PICK x \in S : Min(T) = n - x BY <1>2
<1>4. \A y \in S : n - x <= n - y BY <1>2, <1>3
<1>5. \A y \in S : x >= y BY <1>4
<1>6. Max(S) \in S /\ \A y \in S : Max(S) >= y BY <1>5 DEF Max
<1>7. \A y \in S : y \in Nat OBVIOUS
<1>8. Max(S) \in Nat BY <1>6, <1>7, Zenon
<1> DEFINE m == Max(S)
<1> HIDE DEF m
<1>9. m \in S /\ m \in Nat /\ \A y \in S : m >= y BY <1>6, <1>8 DEF m
<1>10. \A y \in S : y <= m BY <1>7, <1>9
<1> QED BY <1>9, <1>10 DEF m

(* Induction up to n: the least number that is not in the set follows one   *)
(* that is.                                                                 *)
LEMMA UpTo ==
  ASSUME NEW n \in Nat, NEW S, 0 \in S, \A i \in 1..n : i - 1 \in S => i \in S
  PROVE  0..n \subseteq S
<1> DEFINE T == (0..n) \ S
<1> SUFFICES ASSUME T # {} PROVE FALSE OBVIOUS
<1>1. T \in SUBSET Nat OBVIOUS
<1>2. Min(T) \in T /\ \A x \in T : Min(T) <= x BY <1>1, MinExists
<1> DEFINE m == Min(T)
<1> HIDE DEF m
<1>3. m \in 0..n /\ m \notin S /\ \A x \in T : m <= x BY <1>2 DEF m
<1>4. m \in 1..n /\ m - 1 \in 0..n BY <1>3
<1>5. m - 1 \notin T BY <1>3, <1>4
<1> QED BY <1>3, <1>4, <1>5

(* A function can be defined by recursion up to n.                          *)
Recurses(f, V, c, n, D) ==
  f \in [0..n -> V] /\ f[0] = c /\ \A i \in 1..n : f[i] = D[<<f[i - 1], i>>]

LEMMA Recursion ==
  ASSUME NEW V, NEW c \in V, NEW n \in Nat, NEW D \in [V \X (1..n) -> V]
  PROVE  \E f : Recurses(f, V, c, n, D)
<1> DEFINE Defines(f, k) ==
             f \in [0..k -> V] /\ f[0] = c /\ \A i \in 1..k : f[i] = D[<<f[i - 1], i>>]
           S == {k \in 0..n : \E f : Defines(f, k)}
<1>1. 0 \in S
  <2> DEFINE f == [i \in 0..0 |-> c]
  <2>1. Defines(f, 0) OBVIOUS
  <2> HIDE DEF f, Defines
  <2>2. \E g : Defines(g, 0) BY <2>1
  <2> QED BY <2>2
<1>2. \A k \in 1..n : k - 1 \in S => k \in S
  <2> SUFFICES ASSUME NEW k \in 1..n, k - 1 \in S PROVE k \in S OBVIOUS
  <2>0. PICK f : Defines(f, k - 1) OBVIOUS
  <2> DEFINE g == [i \in 0..k |-> IF i = k THEN D[<<f[k - 1], k>>] ELSE f[i]]
  <2>1. k - 1 \in 0..(k - 1) /\ f[k - 1] \in V BY <2>0
  <2>2. D[<<f[k - 1], k>>] \in V BY <2>1
  <2>3. \A i \in 0..k : g[i] = IF i = k THEN D[<<f[k - 1], k>>] ELSE f[i] OBVIOUS
  <2>4. g \in [0..k -> V]
    <3>1. \A i \in 0..k : (IF i = k THEN D[<<f[k - 1], k>>] ELSE f[i]) \in V BY <2>0, <2>2
    <3> QED BY <3>1
  <2>5. g[0] = c BY <2>0, <2>3
  <2>6. \A i \in 1..k : g[i] = D[<<g[i - 1], i>>]
    <3> SUFFICES ASSUME NEW i \in 1..k PROVE g[i] = D[<<g[i - 1], i>>] OBVIOUS
    <3>1. i - 1 \in 0..k /\ i - 1 # k /\ g[i - 1] = f[i - 1] BY <2>3
    <3>2. CASE i = k BY <2>3, <3>1, <3>2
    <3>3. CASE i # k
      <4>1. i \in 1..(k - 1) BY <3>3
      <4>2. f[i] = D[<<f[i - 1], i>>] BY <2>0, <4>1
      <4> QED BY <2>3, <3>1, <3>3, <4>1, <4>2
    <3> QED BY <3>2, <3>3
  <2>7. Defines(g, k) BY <2>4, <2>5, <2>6
  <2> HIDE DEF g, Defines
  <2>8. \E h : Defines(h, k) BY <2>7
  <2> QED BY <2>8
<1> HIDE DEF S
<1>3. 0..n \subseteq S BY <1>1, <1>2, UpTo
<1>4. n \in S BY <1>3
<1> QED BY <1>4 DEF S, Recurses

(* The elements of a list come in the order of their weights.               *)
Rising(W, s) == \A i, j \in DOMAIN s : i < j => W[s[i]] < W[s[j]]

(* Two lists that do, the second with greater weights, make one that does.  *)
LEMMA RisingConcat ==
  ASSUME NEW V, NEW W \in [V -> Int], NEW a \in Seq(V), NEW b \in Seq(V),
         Rising(W, a), Rising(W, b),
         \A x \in Range(a), y \in Range(b) : W[x] < W[y]
  PROVE  /\ a \o b \in Seq(V) /\ Range(a \o b) = Range(a) \union Range(b)
         /\ Rising(W, a \o b)
<1> DEFINE ab == a \o b
<1>1. /\ ab \in Seq(V) /\ Len(ab) = Len(a) + Len(b)
      /\ Len(a) \in Nat /\ DOMAIN a = 1..Len(a) /\ Len(b) \in Nat /\ DOMAIN b = 1..Len(b)
      /\ DOMAIN ab = 1..Len(ab)
      /\ \A i \in 1..Len(a) : ab[i] = a[i]
      /\ \A i \in 1..Len(b) : ab[Len(a) + i] = b[i]
  OBVIOUS
<1>2. \A i \in DOMAIN ab : \/ i \in DOMAIN a /\ ab[i] = a[i]
                           \/ i - Len(a) \in DOMAIN b /\ ab[i] = b[i - Len(a)]
  <2> SUFFICES ASSUME NEW i \in DOMAIN ab, i \notin DOMAIN a
               PROVE  i - Len(a) \in DOMAIN b /\ ab[i] = b[i - Len(a)]
    BY <1>1
  <2>1. i - Len(a) \in 1..Len(b) /\ Len(a) + (i - Len(a)) = i BY <1>1
  <2> QED BY <1>1, <2>1
<1> HIDE DEF ab
<1>3. Range(ab) \subseteq Range(a) \union Range(b) BY <1>2 DEF Range
<1>4. Range(a) \subseteq Range(ab)
  <2>1. \A i \in DOMAIN a : i \in DOMAIN ab /\ ab[i] = a[i] BY <1>1
  <2> QED BY <2>1 DEF Range
<1>5. Range(b) \subseteq Range(ab)
  <2>1. \A i \in DOMAIN b : Len(a) + i \in DOMAIN ab /\ ab[Len(a) + i] = b[i] BY <1>1
  <2> QED BY <2>1 DEF Range
<1>6. Rising(W, ab)
  <2> SUFFICES ASSUME NEW i \in DOMAIN ab, NEW j \in DOMAIN ab, i < j
               PROVE  W[ab[i]] < W[ab[j]]
    BY DEF Rising
  <2>1. CASE i \in DOMAIN a /\ j \in DOMAIN a BY <1>1, <2>1 DEF Rising
  <2>2. CASE i \in DOMAIN a /\ j \notin DOMAIN a
    <3>1. ab[i] \in Range(a) /\ ab[j] \in Range(b) BY <1>2, <2>2 DEF Range
    <3> QED BY <3>1
  <2>3. CASE i \notin DOMAIN a
    <3>1. i \in 1..Len(ab) /\ j \in 1..Len(ab) /\ j \notin DOMAIN a BY <1>1, <2>3
    <3>2. /\ i - Len(a) \in DOMAIN b /\ ab[i] = b[i - Len(a)]
          /\ j - Len(a) \in DOMAIN b /\ ab[j] = b[j - Len(a)]
      BY <1>2, <2>3, <3>1
    <3>3. i - Len(a) < j - Len(a) BY <3>1
    <3> QED BY <3>2, <3>3 DEF Rising
  <2> QED BY <2>1, <2>2, <2>3
<1> QED BY <1>1, <1>3, <1>4, <1>5, <1>6 DEF ab

(* FlattenSeq() of lists whose weights follow one another rises as well.    *)
LEMMA RisingFlat ==
  ASSUME NEW V, NEW W \in [V -> Int], NEW s \in Seq(Seq(V)),
         \A i \in DOMAIN s : Rising(W, s[i]),
         \A i, j \in DOMAIN s : i < j => \A x \in Range(s[i]), y \in Range(s[j]) : W[x] < W[y]
  PROVE  /\ FlattenSeq(s) \in Seq(V) /\ Rising(W, FlattenSeq(s))
         /\ Range(FlattenSeq(s)) = UNION {Range(s[i]) : i \in DOMAIN s}
<1>1. CASE s = <<>>
  <2>1. FlattenSeq(s) = <<>> /\ DOMAIN s = {} BY <1>1 DEF FlattenSeq
  <2>2. <<>> \in Seq(V) /\ Rising(W, <<>>) /\ Range(<<>>) = {} BY DEF Rising, Range
  <2> QED BY <2>1, <2>2
<1>2. CASE s # <<>>
  <2> DEFINE n == Len(s)
             Is(f) == f = [i \in 1..n |-> IF i = 1 THEN s[i] ELSE f[i - 1] \o s[i]]
             flat == CHOOSE f : Is(f)
             D == [x \in Seq(V) \X (1..(n - 1)) |-> x[1] \o s[x[2] + 1]]
  <2>1. n \in Nat /\ n # 0 /\ DOMAIN s = 1..n /\ \A i \in 1..n : s[i] \in Seq(V) BY <1>2
  <2>2. FlattenSeq(s) = flat[n] BY <2>1, Zenon DEF FlattenSeq
  <2> HIDE DEF n
  <2>3. n - 1 \in Nat /\ 1 \in 1..n /\ \A i \in 1..(n - 1) : i + 1 \in 1..n BY <2>1
  <2>4. Is(flat)
    <3>1. D \in [Seq(V) \X (1..(n - 1)) -> Seq(V)]
      <4>1. \A q \in Seq(V), i \in 1..(n - 1) : q \o s[i + 1] \in Seq(V) BY <2>1, <2>3
      <4>2. \A x \in Seq(V) \X (1..(n - 1)) : x[1] \o s[x[2] + 1] \in Seq(V)
        <5> SUFFICES ASSUME NEW q \in Seq(V), NEW i \in 1..(n - 1)
                     PROVE  q \o s[i + 1] \in Seq(V)
          OBVIOUS
        <5> QED BY <4>1
      <4> QED BY <4>2
    <3>2. \A q \in Seq(V), i \in 1..(n - 1) : D[<<q, i>>] = q \o s[i + 1] OBVIOUS
    <3> HIDE DEF D
    <3>3. s[1] \in Seq(V) BY <2>1, <2>3
    <3>4. PICK f : Recurses(f, Seq(V), s[1], n - 1, D) BY <2>3, <3>1, <3>3, Recursion, Zenon
    <3> DEFINE g == [i \in 1..n |-> f[i - 1]]
    <3>5. f \in [0..(n - 1) -> Seq(V)] /\ f[0] = s[1]
          /\ \A i \in 1..(n - 1) : f[i] = D[<<f[i - 1], i>>]
      BY <3>4 DEF Recurses
    <3>6. \A i \in 1..n : g[i] = IF i = 1 THEN s[i] ELSE g[i - 1] \o s[i]
      <4> SUFFICES ASSUME NEW i \in 1..n PROVE g[i] = IF i = 1 THEN s[i] ELSE g[i - 1] \o s[i]
        OBVIOUS
      <4>1. CASE i = 1 BY <3>5, <4>1
      <4>2. CASE i # 1
        <5>1. /\ i - 1 \in 1..(n - 1) /\ i - 1 \in 1..n /\ (i - 1) - 1 \in 0..(n - 1)
              /\ (i - 1) + 1 = i
          BY <2>1, <4>2
        <5>2. g[i] = f[i - 1] /\ g[i - 1] = f[(i - 1) - 1] BY <5>1
        <5>3. f[i - 1] = D[<<f[(i - 1) - 1], i - 1>>] BY <3>5, <5>1
        <5>4. f[(i - 1) - 1] \in Seq(V) BY <3>5, <5>1
        <5>5. D[<<f[(i - 1) - 1], i - 1>>] = f[(i - 1) - 1] \o s[(i - 1) + 1]
          BY <3>2, <5>1, <5>4
        <5> QED BY <4>2, <5>1, <5>2, <5>3, <5>5
      <4> QED BY <4>1, <4>2
    <3>7. g = [i \in 1..n |-> g[i]] OBVIOUS
    <3> HIDE DEF g
    <3>8. g = [i \in 1..n |-> IF i = 1 THEN s[i] ELSE g[i - 1] \o s[i]] BY <3>6, <3>7
    <3>9. Is(g) BY <3>8
    <3> HIDE DEF Is
    <3> QED BY <3>9, Zenon
  <2> HIDE DEF flat
  <2>5. flat[1] = s[1] /\ \A i \in 1..(n - 1) : flat[i + 1] = flat[i] \o s[i + 1]
    <3>1. \A i \in 1..n : flat[i] = IF i = 1 THEN s[i] ELSE flat[i - 1] \o s[i] BY <2>4, Zenon
    <3>2. \A i \in 1..(n - 1) : i + 1 # 1 /\ (i + 1) - 1 = i BY <2>1
    <3> QED BY <2>3, <3>1, <3>2
  <2> HIDE DEF Is
  <2> DEFINE Good(i) == /\ flat[i] \in Seq(V) /\ Rising(W, flat[i])
                        /\ Range(flat[i]) = UNION {Range(s[j]) : j \in 1..i}
             P == {i \in 0..(n - 1) : Good(i + 1)}
  <2>6. 0 \in P
    <3>1. 1..1 = {1} OBVIOUS
    <3>2. UNION {Range(s[j]) : j \in 1..1} = Range(s[1]) BY <3>1
    <3>3. Good(1) BY <2>1, <2>3, <2>5, <3>2
    <3>4. 0 + 1 = 1 /\ 0 \in 0..(n - 1) BY <2>3
    <3> HIDE DEF Good
    <3> QED BY <3>3, <3>4
  <2>7. \A i \in 1..(n - 1) : i - 1 \in P => i \in P
    <3> SUFFICES ASSUME NEW i \in 1..(n - 1), i - 1 \in P PROVE Good(i + 1)
      <4>1. \A i \in 1..(n - 1) : i \in 0..(n - 1) BY <2>1
      <4> HIDE DEF Good
      <4> QED BY <4>1
    <3>1. Good(i)
      <4>1. (i - 1) + 1 = i BY <2>1
      <4>2. Good((i - 1) + 1) OBVIOUS
      <4> HIDE DEF Good
      <4> QED BY <4>1, <4>2
    <3>2. flat[i + 1] = flat[i] \o s[i + 1] BY <2>5
    <3>3. s[i + 1] \in Seq(V) /\ Rising(W, s[i + 1]) BY <2>1, <2>3
    <3>4. \A x \in Range(flat[i]), y \in Range(s[i + 1]) : W[x] < W[y]
      <4> SUFFICES ASSUME NEW j \in 1..i, NEW x \in Range(s[j]), NEW y \in Range(s[i + 1])
                   PROVE  W[x] < W[y]
        BY <3>1
      <4>1. j \in 1..n /\ i + 1 \in 1..n /\ j < i + 1 BY <2>1
      <4> QED BY <2>1, <4>1
    <3> DEFINE a == flat[i]
               b == s[i + 1]
    <3>5. a \in Seq(V) /\ Rising(W, a) /\ b \in Seq(V) /\ Rising(W, b) BY <3>1, <3>3
    <3>6. \A x \in Range(a), y \in Range(b) : W[x] < W[y] BY <3>4
    <3> HIDE DEF a, b
    <3>7. /\ a \o b \in Seq(V) /\ Range(a \o b) = Range(a) \union Range(b)
          /\ Rising(W, a \o b)
      BY <3>5, <3>6, RisingConcat
    <3>8. UNION {Range(s[j]) : j \in 1..(i + 1)}
            = (UNION {Range(s[j]) : j \in 1..i}) \union Range(s[i + 1])
      <4>1. 1..(i + 1) = (1..i) \union {i + 1} BY <2>1
      <4> QED BY <4>1
    <3> QED BY <3>1, <3>2, <3>7, <3>8 DEF a, b
  <2> HIDE DEF P, Good
  <2>8. Good(n)
    <3>1. 0..(n - 1) \subseteq P BY <2>3, <2>6, <2>7, UpTo
    <3>2. n - 1 \in P BY <2>3, <3>1
    <3>3. (n - 1) + 1 = n BY <2>1
    <3> QED BY <3>2, <3>3 DEF P
  <2> QED BY <2>1, <2>2, <2>8 DEF Good
<1> QED BY <1>1, <1>2
================================================================================
