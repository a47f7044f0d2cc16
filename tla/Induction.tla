----------------------------- MODULE Induction ------------------------------
(***************************************************************************)
(* Induction over numbers, for sets of them, and what it gives for folds:  *)
(* a fold over a sequence has a value after each of its entries.           *)
(***************************************************************************)
EXTENDS Naturals, FiniteSets, SequencesExt, WellFoundedInduction, TLAPS

LEMMA LeastNumber ==
  ASSUME NEW T, T \subseteq Nat, T # {}
  PROVE  \E n \in T : \A m \in T : n <= m
<1>1. PICK R : R = OpToRel(<, Nat)
  OBVIOUS
<1>2. R = {ss \in Nat \X Nat : ss[1] < ss[2]}
  BY <1>1 DEF OpToRel
<1>3. IsWellFoundedOn(R, Nat)
  BY <1>1, NatLessThanWellFounded
<1>4. PICK n \in T : \A m \in T : <<m, n>> \notin R
  BY <1>3, WFMin
<1>5. \A m \in T : ~ (m < n)
  BY <1>2, <1>4
<1>6. QED
  BY <1>5

LEMMA NumberInduction ==
  ASSUME NEW T, 0 \in T, \A n \in Nat : n \in T => n + 1 \in T
  PROVE  Nat \subseteq T
<1> SUFFICES ASSUME Nat \ T # {} PROVE FALSE
  OBVIOUS
<1>1. PICK n \in Nat \ T : \A m \in Nat \ T : n <= m
  BY LeastNumber
<1>2. n # 0
  OBVIOUS
<1>3. n - 1 \in Nat /\ n - 1 \in T
  BY <1>1, <1>2
<1>4. QED
  BY <1>3

LEMMA IntervalInduction ==
  ASSUME NEW n \in Nat, NEW T, 0 \in T, \A k \in 1..n : k - 1 \in T => k \in T
  PROVE  0..n \subseteq T
<1> DEFINE U == {k \in Nat : k <= n => k \in T}
<1>1. 0 \in U
  OBVIOUS
<1>2. ASSUME NEW k \in Nat, k \in U
      PROVE  k + 1 \in U
  <2> SUFFICES ASSUME k + 1 <= n PROVE k + 1 \in T
    OBVIOUS
  <2>1. k \in T
    BY <1>2
  <2>2. k + 1 \in 1..n /\ (k + 1) - 1 = k
    OBVIOUS
  <2>3. QED
    BY <2>1, <2>2
<1>3. Nat \subseteq U
  <2> HIDE DEF U
  <2>1. QED
    BY <1>1, <1>2, NumberInduction
<1>4. QED
  BY <1>3

(* f is what step makes of base when it is taken up to n times.            *)
Iterates(f, base, step, n) ==
  f = [k \in 0..n |-> IF k = 0 THEN base ELSE step[f[k-1]]]

LEMMA IterationExists ==
  ASSUME NEW S, NEW base \in S, NEW step \in [S -> S], NEW n \in Nat
  PROVE  \E f \in [0..n -> S] : Iterates(f, base, step, n)
<1> DEFINE T == {k \in Nat : \E f \in [0..k -> S] : Iterates(f, base, step, k)}
<1>1. 0 \in T
  <2> DEFINE f == [k \in 0..0 |-> base]
  <2>1. f \in [0..0 -> S] /\ Iterates(f, base, step, 0)
    BY DEF Iterates
  <2>2. QED
    BY <2>1
<1>2. ASSUME NEW k \in Nat, k \in T
      PROVE  k + 1 \in T
  <2>1. PICK f \in [0..k -> S] : Iterates(f, base, step, k)
    BY <1>2
  <2> DEFINE g == [i \in 0..k+1 |-> IF i = k + 1 THEN step[f[k]] ELSE f[i]]
  <2>2. g \in [0..k+1 -> S]
    OBVIOUS
  <2>3. ASSUME NEW i \in 0..k+1
        PROVE  g[i] = IF i = 0 THEN base ELSE step[g[i-1]]
    <3>1. \A j \in 0..k : f[j] = IF j = 0 THEN base ELSE step[f[j-1]]
      BY <2>1 DEF Iterates
    <3>2. CASE i = k + 1
      <4>1. g[i] = step[f[k]] /\ i - 1 = k /\ g[k] = f[k] /\ i # 0
        BY <3>2
      <4>2. QED
        BY <4>1
    <3>3. CASE i \in 1..k
      <4>1. g[i] = f[i] /\ g[i-1] = f[i-1] /\ f[i] = step[f[i-1]]
        BY <3>1, <3>3
      <4>2. QED
        BY <3>3, <4>1
    <3>4. CASE i = 0
      BY <3>1, <3>4
    <3>5. QED
      BY <3>2, <3>3, <3>4
  <2>4. Iterates(g, base, step, k + 1)
    BY <2>3 DEF Iterates
  <2>5. QED
    BY <2>2, <2>4
<1>3. Nat \subseteq T
  <2> HIDE DEF T
  <2>1. QED
    BY <1>1, <1>2, NumberInduction
<1>4. QED
  BY <1>3

LEMMA MaxOfNumbers ==
  ASSUME NEW n \in Nat, NEW s \in SUBSET (1..n), s # {}
  PROVE  Max(s) \in s /\ \A y \in s : y <= Max(s)
<1> DEFINE gaps == {n - x : x \in s}
<1>1. gaps \subseteq Nat /\ gaps # {}
  <2>1. \A x \in s : x \in 1..n /\ n - x \in Nat
    OBVIOUS
  <2>2. QED
    BY <2>1
<1>2. PICK g \in gaps : \A h \in gaps : g <= h
  BY <1>1, LeastNumber
<1>3. PICK x \in s : g = n - x
  BY <1>2
<1>4. \A y \in s : n - y \in gaps /\ y \in 1..n
  OBVIOUS
<1>5. \A y \in s : x >= y
  <2> SUFFICES ASSUME NEW y \in s PROVE x >= y
    OBVIOUS
  <2>1. n - x <= n - y
    BY <1>2, <1>3, <1>4
  <2>2. QED
    BY <1>4, <2>1
<1>6. QED
  BY <1>5 DEF Max

(* iter is the function a fold over in is computed with.                   *)
Folds(iter, S, step, base, in, n) ==
  /\ iter \in [SUBSET (1..n) -> S]
  /\ iter = [s \in SUBSET (1..n) |->
               IF s = {} THEN base ELSE step[in[Max(s)]][iter[s \ {Max(s)}]]]

LEMMA FoldExists ==
  ASSUME NEW S, NEW A, NEW base \in S, NEW step \in [A -> [S -> S]],
         NEW n \in Nat, NEW in \in [1..n -> A]
  PROVE  \E iter : Folds(iter, S, step, base, in, n)
<1> DEFINE Fold(iter, m) ==
             /\ iter \in [SUBSET (1..m) -> S]
             /\ \A s \in SUBSET (1..m) :
                  iter[s] = IF s = {} THEN base ELSE step[in[Max(s)]][iter[s \ {Max(s)}]]
           T == {m \in Nat : m <= n => \E iter : Fold(iter, m)}
<1> HIDE DEF Fold
<1>1. 0 \in T
  <2> DEFINE iter == [s \in SUBSET (1..0) |-> base]
  <2>1. SUBSET (1..0) = {{}}
    OBVIOUS
  <2>2. Fold(iter, 0)
    BY <2>1 DEF Fold
  <2>3. QED
    BY <2>2
<1>2. ASSUME NEW m \in Nat, m \in T
      PROVE  m + 1 \in T
  <2> SUFFICES ASSUME m + 1 <= n PROVE \E iter : Fold(iter, m + 1)
    OBVIOUS
  <2>1. PICK g : Fold(g, m)
    BY <1>2
  <2> DEFINE iter == [s \in SUBSET (1..m+1) |->
                       IF m + 1 \in s THEN step[in[m + 1]][g[s \ {m + 1}]] ELSE g[s]]
  <2>2. in[m + 1] \in A
    OBVIOUS
  <2>3. ASSUME NEW s \in SUBSET (1..m+1)
        PROVE  /\ iter[s] \in S
               /\ iter[s] = IF s = {} THEN base ELSE step[in[Max(s)]][iter[s \ {Max(s)}]]
    <3>1. CASE m + 1 \in s
      <4>1. Max(s) = m + 1
        <5>1. m + 1 \in Nat /\ s # {}
          BY <3>1
        <5>2. Max(s) \in s /\ m + 1 <= Max(s)
          BY <3>1, <5>1, MaxOfNumbers
        <5>3. Max(s) \in 1..m+1
          BY <5>2
        <5>4. QED
          BY <5>2, <5>3
      <4>2. s \ {m + 1} \in SUBSET (1..m)
        OBVIOUS
      <4>3. iter[s \ {m + 1}] = g[s \ {m + 1}] /\ g[s \ {m + 1}] \in S
        BY <2>1, <4>2 DEF Fold
      <4>4. iter[s] = step[in[m + 1]][g[s \ {m + 1}]]
        BY <3>1
      <4>5. QED
        BY <2>2, <3>1, <4>1, <4>3, <4>4, ZenonT(60)
    <3>2. CASE m + 1 \notin s
      <4>1. s \in SUBSET (1..m) /\ s \ {Max(s)} \in SUBSET (1..m) /\ m + 1 \notin s \ {Max(s)}
        <5>1. \A x \in s : x \in 1..m+1 /\ x # m + 1
          BY <3>2
        <5>2. \A x \in s : x \in 1..m
          BY <5>1
        <5>3. QED
          BY <3>2, <5>2
      <4>2. iter[s] = g[s] /\ iter[s \ {Max(s)}] = g[s \ {Max(s)}]
        BY <3>2, <4>1
      <4>3. QED
        BY <2>1, <4>1, <4>2 DEF Fold
    <3>3. QED
      BY <3>1, <3>2
  <2>4. iter \in [SUBSET (1..m+1) -> S]
    BY <2>3
  <2>5. Fold(iter, m + 1)
    BY <2>3, <2>4 DEF Fold
  <2>6. QED
    BY <2>5
<1>3. n \in T
  <2> HIDE DEF T
  <2>1. QED
    BY <1>1, <1>2, NumberInduction
<1>4. PICK iter : Fold(iter, n)
  BY <1>3
<1>5. iter = [s \in SUBSET (1..n) |->
                IF s = {} THEN base ELSE step[in[Max(s)]][iter[s \ {Max(s)}]]]
  BY <1>4 DEF Fold
<1>6. QED
  BY <1>4, <1>5 DEF Fold, Folds

(* What a fold over the first k entries of n needs of the interval.        *)
LEMMA LastOfInterval ==
  ASSUME NEW n \in Nat, NEW k \in 1..n
  PROVE  /\ Max(1..k) = k
         /\ (1..k) \ {k} = 1..(k-1)
         /\ 1..k \in SUBSET (1..n) /\ 1..k # {}
<1>1. k \in Nat /\ k - 1 \in Nat /\ k \in 1..k /\ 1..k \in SUBSET (1..k)
  OBVIOUS
<1>2. Max(1..k) \in 1..k /\ \A y \in 1..k : y <= Max(1..k)
  BY <1>1, MaxOfNumbers
<1>3. Max(1..k) = k
  BY <1>1, <1>2
<1>4. \A i : i \in (1..k) \ {k} <=> i \in 1..(k-1)
  BY <1>1
<1>5. (1..k) \ {k} = 1..(k-1)
  BY <1>4
<1>6. \A i \in 1..k : i \in 1..n
  BY <1>1
<1>7. QED
  BY <1>1, <1>3, <1>5, <1>6

(* The least of some numbers.                                              *)
LEMMA MinOfNumbers ==
  ASSUME NEW T, T \subseteq Nat, T # {}
  PROVE  Min(T) \in T /\ \A m \in T : Min(T) <= m
<1>1. PICK n \in T : \A m \in T : n <= m
  BY LeastNumber
<1>2. QED
  BY <1>1 DEF Min

(* What an append does to a sequence.                                      *)
LEMMA Appended ==
  ASSUME NEW S, NEW s \in Seq(S), NEW x \in S
  PROVE  /\ Len(s) \in Nat
         /\ DOMAIN Append(s, x) = DOMAIN s \cup {Len(s) + 1}
         /\ Len(s) + 1 \notin DOMAIN s
         /\ \A n \in DOMAIN s : Append(s, x)[n] = s[n]
         /\ Append(s, x)[Len(s) + 1] = x
OBVIOUS
=============================================================================
