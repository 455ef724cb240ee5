------------------------- MODULE ProvideQueueProofs -------------------------
(***************************************************************************)
(* Proofs about the provide queue.                                          *)
(***************************************************************************)
EXTENDS ProvideQueue, SequenceTheorems, WellFoundedInduction, TLAPS

(* A set of natural numbers has a least element.                           *)
LEMMA LeastNat ==
  ASSUME NEW T, T \subseteq Nat, T # {}
  PROVE  \E x \in T : \A y \in T : x <= y
<1> DEFINE R == OpToRel(<, Nat)
<1>1. IsWellFoundedOn(R, Nat)
  BY NatLessThanWellFounded
<1>2. \A x, y \in Nat : x < y => <<x, y>> \in R
  BY DEF OpToRel
<1> HIDE DEF R
<1>3. PICK x \in T : \A y \in T : ~(<<y, x>> \in R)
  BY <1>1, WFMin, Zenon
<1>4. \A y \in T : ~(y < x)
  BY <1>2, <1>3, Zenon
<1>5. \A y \in T : x \in Nat /\ y \in Nat /\ (~(y < x) => x <= y)
  OBVIOUS
<1> QED
  BY <1>3, <1>4, <1>5

(* Induction over an interval, for a set of numbers.                       *)
LEMMA IntervalInduction ==
  ASSUME NEW n \in Nat, NEW P, 0 \in P, \A i \in 1..n : i - 1 \in P => i \in P
  PROVE  \A i \in 0..n : i \in P
<1> SUFFICES ASSUME {i \in 0..n : i \notin P} # {} PROVE FALSE
  OBVIOUS
<1> DEFINE T == {i \in 0..n : i \notin P}
<1>0. T \subseteq Nat /\ T # {}
  OBVIOUS
<1> HIDE DEF T
<1>1. PICK x \in T : \A y \in T : x <= y
  BY <1>0, LeastNat
<1> USE DEF T
<1>2. x \in 1..n /\ x - 1 \in 0..n /\ ~(x <= x - 1)
  BY <1>1
<1> QED
  BY <1>1, <1>2

(* A function defined by recursion over an interval: step[i] takes its     *)
(* value at i - 1 to that at i.                                            *)
Recursive(f, n, T, a, step) ==
    f \in [0..n -> T] /\ f[0] = a /\ \A i \in 1..n : f[i] = step[i][f[i - 1]]

(* Such a function exists.                                                 *)
LEMMA RecursionExists ==
  ASSUME NEW n \in Nat, NEW T, NEW a \in T, NEW step \in [1..n -> [T -> T]]
  PROVE  \E f : Recursive(f, n, T, a, step)
<1> DEFINE Good(m) == \E f \in [0..m -> T] : f[0] = a /\ \A i \in 1..m : f[i] = step[i][f[i - 1]]
           P == {m \in 0..n : Good(m)}
<1>1. 0 \in P
  <2> DEFINE z == [i \in 0..0 |-> a]
  <2>1. z \in [0..0 -> T] /\ z[0] = a /\ \A i \in 1..0 : z[i] = step[i][z[i - 1]]
    OBVIOUS
  <2> HIDE DEF z
  <2>2. Good(0)
    BY <2>1
  <2> HIDE DEF Good
  <2> QED
    BY <2>2
<1>2. ASSUME NEW m \in 1..n, m - 1 \in P PROVE m \in P
  <2>1. PICK f \in [0..(m - 1) -> T] : f[0] = a /\ \A i \in 1..(m - 1) : f[i] = step[i][f[i - 1]]
    BY <1>2
  <2> DEFINE g == [i \in 0..m |-> IF i = m THEN step[m][f[m - 1]] ELSE f[i]]
  <2>2. m - 1 \in 0..(m - 1) /\ f[m - 1] \in T
    OBVIOUS
  <2>3. step[m][f[m - 1]] \in T
    BY <2>2
  <2>4. g \in [0..m -> T]
    BY <2>3
  <2>5. g[0] = a /\ \A i \in 1..m : g[i] = step[i][g[i - 1]]
    <3>1. g[0] = a
      BY <2>1
    <3>2. ASSUME NEW i \in 1..m PROVE g[i] = step[i][g[i - 1]]
      <4>1. g[i - 1] = f[i - 1]
        OBVIOUS
      <4>2. CASE i = m
        BY <4>1, <4>2
      <4>3. CASE i # m
        <5>1. i \in 1..(m - 1) /\ g[i] = f[i]
          BY <4>3
        <5> QED
          BY <2>1, <4>1, <5>1
      <4> QED
        BY <4>2, <4>3
    <3> QED
      BY <3>1, <3>2
  <2> HIDE DEF g
  <2>6. Good(m)
    BY <2>4, <2>5
  <2> HIDE DEF Good
  <2> QED
    BY <2>6
<1> HIDE DEF P
<1>3. \A m \in 0..n : m \in P
  BY <1>1, <1>2, IntervalInduction
<1>4. n \in 0..n
  OBVIOUS
<1> QED
  BY <1>3, <1>4 DEF P, Recursive

(* What Append does to the elements of a sequence.                         *)
LEMMA AppendElements ==
  ASSUME NEW X, NEW s \in Seq(X), NEW x \in X
  PROVE  /\ Append(s, x) \in Seq(X)
         /\ Range(Append(s, x)) = Range(s) \cup {x}
         /\ IsInjective(s) /\ x \notin Range(s) => IsInjective(Append(s, x))
<1> DEFINE t == Append(s, x)
<1>1. /\ t \in Seq(X) /\ Len(t) = Len(s) + 1 /\ Len(s) \in Nat
      /\ DOMAIN s = 1..Len(s) /\ DOMAIN t = 1..(Len(s) + 1)
      /\ \A i \in 1..Len(s) : t[i] = s[i]
      /\ t[Len(s) + 1] = x
  BY AppendProperties, LenProperties
<1> HIDE DEF t
<1>2. \A i \in 1..(Len(s) + 1) : i \in 1..Len(s) \/ i = Len(s) + 1
  BY <1>1
<1>3. Range(t) = Range(s) \cup {x}
  <2>1. ASSUME NEW y \in Range(t) PROVE y \in Range(s) \cup {x}
    BY <1>1, <1>2, <2>1 DEF Range
  <2>2. ASSUME NEW y \in Range(s) \cup {x} PROVE y \in Range(t)
    <3>1. \A i \in 1..Len(s) : i \in 1..(Len(s) + 1)
      BY <1>1
    <3>2. Len(s) + 1 \in 1..(Len(s) + 1)
      BY <1>1
    <3> QED
      BY <1>1, <2>2, <3>1, <3>2 DEF Range
  <2> QED
    BY <2>1, <2>2
<1>4. ASSUME IsInjective(s), x \notin Range(s) PROVE IsInjective(t)
  <2>1. \A i \in 1..Len(s) : s[i] # x
    BY <1>1, <1>4 DEF Range
  <2>2. ASSUME NEW i \in DOMAIN t, NEW j \in DOMAIN t, t[i] = t[j] PROVE i = j
    BY <1>1, <1>2, <1>4, <2>1, <2>2 DEF IsInjective
  <2> QED
    BY <2>2 DEF IsInjective
<1> QED
  BY <1>1, <1>3, <1>4 DEF t

(* Without keeps exactly the elements that are not in the set, each as     *)
(* often as it was there.                                                  *)
LEMMA WithoutElements ==
  ASSUME NEW X, NEW seq \in Seq(X), NEW S
  PROVE  /\ Without(seq, S) \in Seq(X)
         /\ Range(Without(seq, S)) = Range(seq) \ S
         /\ IsInjective(seq) => IsInjective(Without(seq, S))
<1> DEFINE n == Len(seq)
           IsKept(f) == f = [i \in 0..n |->
                                IF i = 0 THEN <<>>
                                ELSE IF seq[i] \in S THEN f[i - 1] ELSE Append(f[i - 1], seq[i])]
           kept == CHOOSE f : IsKept(f)
<1>1. n \in Nat /\ DOMAIN seq = 1..n /\ \A i \in 1..n : seq[i] \in X
  BY LenProperties
<1>2. Without(seq, S) = kept[n]
  BY DEF Without
<1>3. IsKept(kept)
  <2> DEFINE step == [i \in 1..n |->
                         [t \in Seq(X) |-> IF seq[i] \in S THEN t ELSE Append(t, seq[i])]]
  <2>1. step \in [1..n -> [Seq(X) -> Seq(X)]]
    BY <1>1, AppendElements
  <2>2. <<>> \in Seq(X)
    BY EmptySeq
  <2> HIDE DEF n, step
  <2>3. PICK f \in [0..n -> Seq(X)] : f[0] = <<>> /\ \A i \in 1..n : f[i] = step[i][f[i - 1]]
    <3>1. \E f : Recursive(f, n, Seq(X), <<>>, step)
      BY <1>1, <2>1, <2>2, RecursionExists
    <3> QED
      BY <3>1 DEF Recursive
  <2>4. \A i \in 1..n : i - 1 \in 0..n /\ i \in 0..n
    BY <1>1
  <2>5. ASSUME NEW i \in 1..n
        PROVE  f[i] = IF seq[i] \in S THEN f[i - 1] ELSE Append(f[i - 1], seq[i])
    <3>1. f[i - 1] \in Seq(X)
      BY <2>4
    <3> QED
      BY <2>3, <3>1 DEF step
  <2>6. \A i \in 0..n : i = 0 \/ i \in 1..n
    BY <1>1
  <2>7. IsKept(f)
    <3>1. f = [i \in 0..n |-> f[i]]
      OBVIOUS
    <3>2. \A i \in 0..n : f[i] = IF i = 0 THEN <<>>
                                ELSE IF seq[i] \in S THEN f[i - 1] ELSE Append(f[i - 1], seq[i])
      BY <2>3, <2>5, <2>6
    <3> QED
      BY <3>1, <3>2, Zenon
  <2> QED
    BY <2>7, Zenon
<1> HIDE DEF kept
<1>4. /\ kept[0] = <<>>
      /\ \A i \in 1..n : kept[i] = IF seq[i] \in S THEN kept[i - 1] ELSE Append(kept[i - 1], seq[i])
  <2>1. 0 \in 0..n /\ \A i \in 1..n : i \in 0..n /\ i # 0
    BY <1>1
  <2> QED
    BY <1>3, <2>1
<1> HIDE DEF n, IsKept
<1> DEFINE Holds(i) == /\ kept[i] \in Seq(X)
                       /\ Range(kept[i]) = {seq[j] : j \in 1..i} \ S
                       /\ IsInjective(seq) => IsInjective(kept[i])
           P == {i \in 0..n : Holds(i)}
<1>5. 0 \in P
  <2>1. <<>> \in Seq(X) /\ Range(<<>>) = {} /\ IsInjective(<<>>) /\ 1..0 = {}
    BY EmptySeq DEF Range, IsInjective
  <2>2. Holds(0)
    BY <1>4, <2>1
  <2> HIDE DEF Holds
  <2> QED
    BY <1>1, <2>2
<1>6. ASSUME NEW i \in 1..n, i - 1 \in P PROVE i \in P
  <2>1. Holds(i - 1) /\ i \in 0..n
    BY <1>1, <1>6
  <2>2. {seq[j] : j \in 1..i} = {seq[j] : j \in 1..(i - 1)} \cup {seq[i]}
    <3>1. 1..i = (1..(i - 1)) \cup {i}
      BY <1>1
    <3> QED
      BY <3>1
  <2>3. CASE seq[i] \in S
    <3>1. kept[i] = kept[i - 1]
      BY <1>4, <2>3
    <3>2. Holds(i)
      BY <2>1, <2>2, <2>3, <3>1
    <3> HIDE DEF Holds
    <3> QED
      BY <2>1, <3>2
  <2>4. CASE seq[i] \notin S
    <3>1. kept[i] = Append(kept[i - 1], seq[i]) /\ seq[i] \in X
      BY <1>1, <1>4, <2>4
    <3>2. /\ kept[i] \in Seq(X) /\ Range(kept[i]) = Range(kept[i - 1]) \cup {seq[i]}
          /\ IsInjective(kept[i - 1]) /\ seq[i] \notin Range(kept[i - 1]) => IsInjective(kept[i])
      BY <2>1, <3>1, AppendElements
    <3>3. IsInjective(seq) => seq[i] \notin {seq[j] : j \in 1..(i - 1)}
      BY <1>1 DEF IsInjective
    <3>4. Range(kept[i]) = {seq[j] : j \in 1..i} \ S
      BY <2>1, <2>2, <2>4, <3>2
    <3>5. Holds(i)
      BY <2>1, <3>2, <3>3, <3>4
    <3> HIDE DEF Holds
    <3> QED
      BY <2>1, <3>5
  <2> QED
    BY <2>3, <2>4
<1> HIDE DEF P
<1>7. n \in P
  <2>1. \A i \in 0..n : i \in P
    BY <1>1, <1>5, <1>6, IntervalInduction
  <2> QED
    BY <1>1, <2>1
<1>8. {seq[j] : j \in 1..n} = Range(seq)
  BY <1>1 DEF Range
<1> QED
  BY <1>2, <1>7, <1>8 DEF P

-----------------------------------------------------------------------------
(* Prefixes.                                                               *)

Bits == Seq({0, 1})

(* A prefix is shorter and agrees with the longer string.                  *)
LEMMA CoversBits ==
  ASSUME NEW s \in Bits, NEW t \in Bits
  PROVE  Covers(s, t) <=> Len(s) <= Len(t) /\ \A i \in 1..Len(s) : s[i] = t[i]
<1>1. /\ Len(s) \in Nat /\ Len(t) \in Nat
      /\ \A i \in 1..Len(s) : s[i] \in {0, 1}
      /\ \A i \in 1..Len(t) : t[i] \in {0, 1}
  BY LenProperties DEF Bits
<1>2. ASSUME Len(s) <= Len(t)
      PROVE  SubSeq(t, 1, Len(s)) = s <=> \A i \in 1..Len(s) : s[i] = t[i]
  <2>1. \A i \in 1..Len(s) : t[i] \in {0, 1}
    BY <1>1, <1>2
  <2> DEFINE v == SubSeq(t, 1, Len(s))
  <2>2. v \in Seq({0, 1}) /\ Len(v) = Len(s) /\ \A i \in 1..Len(s) : v[i] = t[i]
    <3>1. 1 \in Int /\ Len(s) \in Int
      BY <1>1
    <3>2. /\ v \in Seq({0, 1}) /\ Len(v) = IF 1 <= Len(s) THEN Len(s) - 1 + 1 ELSE 0
          /\ \A i \in 1..(Len(s) - 1 + 1) : v[i] = t[1 + i - 1]
      BY <2>1, <3>1, SubSeqProperties
    <3> HIDE DEF v
    <3>3. Len(s) - 1 + 1 = Len(s) /\ \A i \in 1..Len(s) : 1 + i - 1 = i
      BY <1>1
    <3> QED
      BY <1>1, <3>2, <3>3
  <2> HIDE DEF v
  <2>3. v = s <=> \A i \in 1..Len(s) : s[i] = t[i]
    BY <2>2, SeqEqual DEF Bits
  <2> QED
    BY <2>3 DEF v
<1> QED
  BY <1>2 DEF Covers

(* A string is a prefix of itself.                                         *)
LEMMA CoversReflexive ==
  ASSUME NEW s \in Bits PROVE Covers(s, s)
<1>1. Len(s) \in Nat
  BY LenProperties DEF Bits
<1> QED
  BY <1>1, CoversBits

(* A prefix of a prefix is a prefix.                                       *)
LEMMA CoversTransitive ==
  ASSUME NEW s \in Bits, NEW t \in Bits, NEW u \in Bits, Covers(s, t), Covers(t, u)
  PROVE  Covers(s, u)
<1>1. Len(s) \in Nat /\ Len(t) \in Nat /\ Len(u) \in Nat
  BY LenProperties DEF Bits
<1>2. /\ Len(s) <= Len(t) /\ \A i \in 1..Len(s) : s[i] = t[i]
      /\ Len(t) <= Len(u) /\ \A i \in 1..Len(t) : t[i] = u[i]
  BY CoversBits
<1>3. Len(s) <= Len(u) /\ \A i \in 1..Len(s) : s[i] = u[i]
  BY <1>1, <1>2
<1> QED
  BY <1>3, CoversBits

(* The prefixes of a string are comparable.                                *)
LEMMA CoversComparable ==
  ASSUME NEW s \in Bits, NEW t \in Bits, NEW k \in Bits, Covers(s, k), Covers(t, k)
  PROVE  Covers(s, t) \/ Covers(t, s)
<1>1. Len(s) \in Nat /\ Len(t) \in Nat /\ Len(k) \in Nat
  BY LenProperties DEF Bits
<1>2. /\ \A i \in 1..Len(s) : s[i] = k[i]
      /\ \A i \in 1..Len(t) : t[i] = k[i]
  BY CoversBits
<1>3. CASE Len(s) <= Len(t)
  <2>1. \A i \in 1..Len(s) : s[i] = t[i]
    BY <1>1, <1>2, <1>3
  <2> QED
    BY <1>3, <2>1, CoversBits
<1>4. CASE Len(t) <= Len(s)
  <2>1. \A i \in 1..Len(t) : t[i] = s[i]
    BY <1>1, <1>2, <1>4
  <2> QED
    BY <1>4, <2>1, CoversBits
<1> QED
  BY <1>1, <1>3, <1>4

-----------------------------------------------------------------------------
(* The prefix queue.                                                       *)

Antichain(queue) == \A i, j \in DOMAIN queue : Covers(queue[i], queue[j]) => i = j

Disjoint(S) == \A r, s \in S : Covers(r, s) => r = s

(* No prefix of a queue is under another exactly when none occurs twice    *)
(* and its set of prefixes has no two comparable ones.                     *)
LEMMA AntichainElements ==
  ASSUME NEW queue \in Seq(Bits)
  PROVE  Antichain(queue) <=> IsInjective(queue) /\ Disjoint(Range(queue))
<1>1. \A i \in DOMAIN queue : queue[i] \in Bits /\ Covers(queue[i], queue[i])
  BY CoversReflexive, LenProperties, ElementOfSeq
<1>2. ASSUME Antichain(queue) PROVE IsInjective(queue) /\ Disjoint(Range(queue))
  BY <1>1, <1>2 DEF Antichain, IsInjective, Disjoint, Range
<1>3. ASSUME IsInjective(queue), Disjoint(Range(queue)) PROVE Antichain(queue)
  BY <1>3 DEF Antichain, IsInjective, Disjoint, Range
<1> QED
  BY <1>2, <1>3

(* What concatenation does to the elements of two sequences.               *)
LEMMA ConcatElements ==
  ASSUME NEW X, NEW s \in Seq(X), NEW t \in Seq(X)
  PROVE  /\ s \o t \in Seq(X)
         /\ Range(s \o t) = Range(s) \cup Range(t)
         /\ IsInjective(s) /\ IsInjective(t) /\ Range(s) \cap Range(t) = {} => IsInjective(s \o t)
<1> DEFINE u == s \o t
<1>1. /\ u \in Seq(X) /\ Len(u) = Len(s) + Len(t)
      /\ \A i \in 1..(Len(s) + Len(t)) : u[i] = IF i <= Len(s) THEN s[i] ELSE t[i - Len(s)]
      /\ Range(u) = Range(s) \cup Range(t)
  BY ConcatProperties, RangeConcatenation
<1>2. /\ Len(s) \in Nat /\ Len(t) \in Nat
      /\ DOMAIN s = 1..Len(s) /\ DOMAIN t = 1..Len(t) /\ DOMAIN u = 1..Len(u)
  BY <1>1, LenProperties
<1> HIDE DEF u
<1>3. ASSUME IsInjective(s), IsInjective(t), Range(s) \cap Range(t) = {} PROVE IsInjective(u)
  <2>1. \A i \in DOMAIN u : \/ i \in DOMAIN s /\ u[i] = s[i]
                            \/ i - Len(s) \in DOMAIN t /\ u[i] = t[i - Len(s)]
    BY <1>1, <1>2
  <2>2. ASSUME NEW i \in DOMAIN u, NEW j \in DOMAIN u, u[i] = u[j] PROVE i = j
    <3>1. CASE i \in DOMAIN s /\ u[i] = s[i] /\ j \in DOMAIN s /\ u[j] = s[j]
      BY <1>3, <2>2, <3>1 DEF IsInjective
    <3>2. CASE /\ i - Len(s) \in DOMAIN t /\ u[i] = t[i - Len(s)]
               /\ j - Len(s) \in DOMAIN t /\ u[j] = t[j - Len(s)]
      <4>1. i - Len(s) = j - Len(s)
        BY <1>3, <2>2, <3>2 DEF IsInjective
      <4> QED
        BY <1>1, <1>2, <4>1
    <3>3. ASSUME NEW a \in DOMAIN s, NEW b \in DOMAIN t, s[a] = t[b] PROVE FALSE
      <4>1. s[a] \in Range(s) /\ t[b] \in Range(t)
        BY DEF Range
      <4> QED
        BY <1>3, <3>3, <4>1
    <3> QED
      BY <2>1, <2>2, <3>1, <3>2, <3>3
  <2> QED
    BY <2>2 DEF IsInjective
<1> QED
  BY <1>1, <1>3 DEF u

(* The elements of a part of a sequence.                                   *)
LEMMA PartElements ==
  ASSUME NEW X, NEW s \in Seq(X), NEW m \in 1..(Len(s) + 1), NEW n \in (m - 1)..Len(s)
  PROVE  /\ SubSeq(s, m, n) \in Seq(X)
         /\ Range(SubSeq(s, m, n)) = {s[i] : i \in m..n}
         /\ IsInjective(s) => IsInjective(SubSeq(s, m, n))
<1>1. Len(s) \in Nat /\ DOMAIN s = 1..Len(s) /\ \A i \in 1..Len(s) : s[i] \in X
  BY LenProperties
<1>2. m \in Int /\ n \in Int /\ (\A i \in m..n : i \in 1..Len(s)) /\ m - 1 <= n
  BY <1>1
<1> DEFINE u == SubSeq(s, m, n)
<1>3. /\ u \in Seq(X) /\ Len(u) = n - m + 1
      /\ \A i \in 1..(n - m + 1) : u[i] = s[m + i - 1]
  <2>1. /\ u \in Seq(X) /\ Len(u) = IF m <= n THEN n - m + 1 ELSE 0
        /\ \A i \in 1..(n - m + 1) : u[i] = s[m + i - 1]
    BY <1>1, <1>2, SubSeqProperties
  <2> HIDE DEF u
  <2> QED
    BY <1>2, <2>1
<1>4. DOMAIN u = 1..(n - m + 1)
  BY <1>3, LenProperties
<1> HIDE DEF u
<1>5. Range(u) = {s[i] : i \in m..n}
  <2>1. ASSUME NEW i \in DOMAIN u PROVE u[i] \in {s[j] : j \in m..n}
    <3>1. m + i - 1 \in m..n
      BY <1>2, <1>4
    <3> QED
      BY <1>3, <1>4, <3>1
  <2>2. ASSUME NEW j \in m..n PROVE \E i \in DOMAIN u : u[i] = s[j]
    <3>1. j - m + 1 \in 1..(n - m + 1) /\ m + (j - m + 1) - 1 = j
      BY <1>2
    <3> QED
      BY <1>3, <1>4, <3>1
  <2> QED
    BY <2>1, <2>2 DEF Range
<1>6. ASSUME IsInjective(s) PROVE IsInjective(u)
  <2>1. ASSUME NEW i \in DOMAIN u, NEW j \in DOMAIN u, u[i] = u[j] PROVE i = j
    <3>1. m + i - 1 \in DOMAIN s /\ m + j - 1 \in DOMAIN s
      BY <1>1, <1>2, <1>4
    <3>2. s[m + i - 1] = s[m + j - 1]
      BY <1>3, <1>4, <2>1
    <3>3. m + i - 1 = m + j - 1
      BY <1>6, <3>1, <3>2 DEF IsInjective
    <3> QED
      BY <1>2, <1>4, <3>3
  <2> QED
    BY <2>1 DEF IsInjective
<1> QED
  BY <1>3, <1>5, <1>6 DEF u

(* Push keeps the prefixes disjoint, adds only the new one, and covers     *)
(* what was covered before and the new one.                                *)
LEMMA PushElements ==
  ASSUME NEW X, X \subseteq Bits, NEW queue \in Seq(X), NEW p \in X, Antichain(queue)
  PROVE  /\ Push(queue, p) \in Seq(X) /\ Antichain(Push(queue, p))
         /\ Range(Push(queue, p)) \subseteq Range(queue) \cup {p}
         /\ \A r \in Range(queue) \cup {p} : \E s \in Range(Push(queue, p)) : Covers(s, r)
<1>1. Len(queue) \in Nat /\ DOMAIN queue = 1..Len(queue) /\ \A i \in 1..Len(queue) : queue[i] \in X
  BY LenProperties
<1>2. Range(queue) \subseteq X
  BY RangeOfSeq
<1>3. queue \in Seq(Bits)
  BY SeqMonotonic
<1>4. IsInjective(queue) /\ Disjoint(Range(queue))
  BY <1>3, AntichainElements
<1>5. \A r \in X : Covers(r, r)
  BY CoversReflexive
<1> DEFINE new == Push(queue, p)
<1>6. CASE Superstrings(queue, p) # {}
  <2> DEFINE S == Superstrings(queue, p)
             first == Min(S)
             before == SubSeq(queue, 1, first - 1)
             after == SubSeq(queue, first + 1, Len(queue))
             D == {r \in Range(after) : Covers(p, r)}
  <2>1. first \in S /\ \A i \in S : first <= i
    <3>1. S \subseteq Nat
      BY <1>1 DEF Superstrings
    <3>2. \E x \in S : \A y \in S : x <= y
      BY <1>6, <3>1, LeastNat
    <3> QED
      BY <3>2 DEF Min
  <2> HIDE DEF first
  <2>2. first \in 1..Len(queue) /\ Covers(p, queue[first])
    BY <1>1, <2>1 DEF Superstrings
  <2>3. /\ before \in Seq(X) /\ Range(before) = {queue[i] : i \in 1..(first - 1)}
        /\ IsInjective(before)
    <3>1. 1 \in 1..(Len(queue) + 1) /\ first - 1 \in (1 - 1)..Len(queue)
      BY <1>1, <2>2
    <3> QED
      BY <1>4, <3>1, PartElements
  <2>4. /\ after \in Seq(X) /\ Range(after) = {queue[i] : i \in (first + 1)..Len(queue)}
        /\ IsInjective(after)
    <3>1. first + 1 \in 1..(Len(queue) + 1) /\ Len(queue) \in (first + 1 - 1)..Len(queue)
      BY <1>1, <2>2
    <3> QED
      BY <1>4, <3>1, PartElements
  <2> HIDE DEF before, after
  <2> DEFINE rest == Without(after, D)
  <2>5. rest \in Seq(X) /\ Range(rest) = Range(after) \ D /\ IsInjective(rest)
    BY <2>4, WithoutElements
  <2>6. new = before \o <<p>> \o rest
    BY <1>6 DEF Push, removeSuperstrings, first, before, after
  <2> HIDE DEF D, rest, new, S
  <2>7. ASSUME NEW i \in 1..(first - 1) PROVE ~Covers(p, queue[i])
    <3>1. i \in DOMAIN queue /\ ~(first <= i)
      BY <1>1, <2>2
    <3> QED
      BY <2>1, <3>1 DEF S, Superstrings
  <2>8. \A i \in DOMAIN queue : i \in 1..(first - 1) \/ i = first \/ i \in (first + 1)..Len(queue)
    BY <1>1, <2>2
  <2>9. \A i \in 1..(first - 1), j \in (first + 1)..Len(queue) :
            i \in DOMAIN queue /\ j \in DOMAIN queue /\ i # j
    BY <1>1, <2>2
  <2>10. /\ \A r \in Range(before) : r \in Range(queue) /\ ~Covers(p, r)
         /\ \A r \in Range(rest) : r \in Range(queue) /\ ~Covers(p, r)
         /\ Range(before) \cap Range(rest) = {}
    <3>1. \A r \in Range(before) : r \in Range(queue) /\ ~Covers(p, r)
      <4>1. \A i \in 1..(first - 1) : i \in DOMAIN queue
        BY <1>1, <2>2
      <4> QED
        BY <2>3, <2>7, <4>1 DEF Range
    <3>2. \A r \in Range(rest) : r \in Range(queue) /\ ~Covers(p, r)
      <4>1. \A i \in (first + 1)..Len(queue) : i \in DOMAIN queue
        BY <1>1, <2>2
      <4> QED
        BY <2>4, <2>5, <4>1 DEF Range, D
    <3>3. Range(before) \cap Range(after) = {}
      BY <1>4, <2>3, <2>4, <2>9 DEF IsInjective
    <3> QED
      BY <2>5, <3>1, <3>2, <3>3
  <2>11. <<p>> \in Seq(X) /\ Range(<<p>>) = {p} /\ IsInjective(<<p>>)
    BY DEF Range, IsInjective
  <2>12. p \notin Range(before) /\ p \notin Range(rest)
    BY <1>5, <2>10
  <2> DEFINE one == <<p>>
             front == before \o one
  <2>13. front \in Seq(X) /\ Range(front) = Range(before) \cup {p} /\ IsInjective(front)
    <3>1. one \in Seq(X) /\ Range(one) = {p} /\ IsInjective(one)
      BY <2>11
    <3> HIDE DEF one
    <3>2. Range(before) \cap Range(one) = {}
      BY <2>12, <3>1
    <3> QED
      BY <2>3, <3>1, <3>2, ConcatElements
  <2> HIDE DEF front
  <2>14. new \in Seq(X) /\ Range(new) = Range(before) \cup {p} \cup Range(rest) /\ IsInjective(new)
    <3>1. Range(front) \cap Range(rest) = {}
      BY <2>10, <2>12, <2>13
    <3>2. new = front \o rest
      BY <2>6 DEF front
    <3> QED
      BY <2>5, <2>13, <3>1, <3>2, ConcatElements
  <2>15. ASSUME NEW r \in Range(queue) PROVE ~Covers(r, p) \/ r = queue[first]
    <3>1. queue[first] \in Range(queue)
      BY <1>1, <2>2 DEF Range
    <3>2. ASSUME Covers(r, p) PROVE r = queue[first]
      <4>1. r \in Bits /\ p \in Bits /\ queue[first] \in Bits
        BY <1>2, <3>1
      <4>2. Covers(r, queue[first])
        BY <2>2, <3>2, <4>1, CoversTransitive
      <4> QED
        BY <1>4, <3>1, <4>2 DEF Disjoint
    <3> QED
      BY <3>2
  <2>16. Disjoint(Range(new))
    <3>1. ASSUME NEW r \in Range(new), NEW s \in Range(new), Covers(r, s) PROVE r = s
      <4>1. CASE r # p /\ s # p
        BY <1>4, <2>10, <2>14, <3>1, <4>1 DEF Disjoint
      <4>2. CASE r = p
        BY <2>10, <2>14, <3>1, <4>2
      <4>3. CASE r # p /\ s = p
        BY <2>2, <2>10, <2>14, <2>15, <3>1, <4>3
      <4> QED
        BY <4>1, <4>2, <4>3
    <3> QED
      BY <3>1 DEF Disjoint
  <2>17. new \in Seq(Bits)
    BY <2>14, SeqMonotonic
  <2>18. Antichain(new)
    BY <2>14, <2>16, <2>17, AntichainElements
  <2>19. Range(new) \subseteq Range(queue) \cup {p}
    BY <2>10, <2>14
  <2>20. ASSUME NEW r \in Range(queue) \cup {p} PROVE \E s \in Range(new) : Covers(s, r)
    <3>1. CASE r \in X /\ (r \in Range(before) \/ r \in Range(rest) \/ r = p)
      BY <1>5, <2>14, <3>1
    <3>2. CASE r = queue[first]
      BY <2>2, <2>14, <3>2
    <3>3. CASE r \in D
      BY <2>14, <3>3 DEF D
    <3>4. ASSUME NEW i \in DOMAIN queue, r = queue[i]
          PROVE  r \in Range(before) \/ r = queue[first] \/ r \in Range(after)
      BY <2>3, <2>4, <2>8, <3>4
    <3>5. r \in X /\ (r \in Range(before) \/ r = queue[first] \/ r \in Range(after) \/ r = p)
      BY <1>2, <3>4 DEF Range
    <3> QED
      BY <2>5, <3>1, <3>2, <3>3, <3>5
  <2> QED
    BY <2>14, <2>18, <2>19, <2>20 DEF new
<1>7. CASE Superstrings(queue, p) = {} /\ \E i \in DOMAIN queue : Covers(queue[i], p)
  <2>1. new = queue
    BY <1>7 DEF Push
  <2>2. \E s \in Range(queue) : Covers(s, p)
    BY <1>7 DEF Range
  <2> QED
    BY <1>2, <1>5, <2>1, <2>2
<1>8. CASE Superstrings(queue, p) = {} /\ ~(\E i \in DOMAIN queue : Covers(queue[i], p))
  <2>1. new = Append(queue, p)
    BY <1>8 DEF Push
  <2>2. \A r \in Range(queue) : ~Covers(r, p) /\ ~Covers(p, r)
    BY <1>8 DEF Range, Superstrings
  <2>3. p \notin Range(queue)
    BY <1>5, <2>2
  <2>4. new \in Seq(X) /\ Range(new) = Range(queue) \cup {p} /\ IsInjective(new)
    BY <1>4, <2>1, <2>3, AppendElements
  <2> HIDE DEF new
  <2>5. Disjoint(Range(new))
    BY <1>4, <2>2, <2>4 DEF Disjoint
  <2>6. new \in Seq(Bits)
    BY <2>4, SeqMonotonic
  <2>7. Antichain(new)
    BY <2>4, <2>5, <2>6, AntichainElements
  <2>8. \A r \in Range(queue) \cup {p} : \E s \in Range(new) : Covers(s, r)
    BY <1>2, <1>5, <2>4
  <2> QED
    BY <2>4, <2>7, <2>8 DEF new
<1> QED
  BY <1>6, <1>7, <1>8

-----------------------------------------------------------------------------
(* The provide queue.                                                      *)

(* A queue of keys of Y under prefixes of X.                               *)
QueueOK(x, X, Y) ==
    /\ X \subseteq Bits /\ Y \subseteq Bits
    /\ x.keys \subseteq Y /\ x.prefixes \in Seq(X) /\ WellFormed(x)

(* Its keys and prefixes are bit strings.                                  *)
LEMMA BitsOfKeys ==
  ASSUME NEW X, NEW Y, NEW x, QueueOK(x, X, Y) PROVE X \subseteq Bits /\ Y \subseteq Bits
  BY DEF QueueOK

(* A well-formed queue in terms of its set of prefixes.                    *)
LEMMA WellFormedElements ==
  ASSUME NEW x
  PROVE  WellFormed(x) <=> /\ \A k \in x.keys : \E r \in Range(x.prefixes) : Covers(r, k)
                           /\ \A r \in Range(x.prefixes) : Under(x.keys, r) # {}
                           /\ Antichain(x.prefixes)
<1>1. (\A k \in x.keys : \E r \in Range(x.prefixes) : Covers(r, k))
        <=> (\A k \in x.keys : \E i \in DOMAIN x.prefixes : Covers(x.prefixes[i], k))
  BY DEF Range
<1>2. (\A r \in Range(x.prefixes) : Under(x.keys, r) # {})
        <=> (\A i \in DOMAIN x.prefixes : Under(x.keys, x.prefixes[i]) # {})
  BY DEF Range
<1> QED
  BY <1>1, <1>2 DEF WellFormed, Antichain

(* The prefixes of a queue of regions.                                     *)
LEMMA QueueElements ==
  ASSUME NEW X, NEW Y, NEW x, QueueOK(x, X, Y)
  PROVE  /\ Range(x.prefixes) \subseteq X
         /\ \A k \in x.keys : k \in Bits /\ \E r \in Range(x.prefixes) : Covers(r, k)
         /\ \A r \in Range(x.prefixes) : r \in Bits /\ Under(x.keys, r) # {}
         /\ Antichain(x.prefixes) /\ IsInjective(x.prefixes) /\ Disjoint(Range(x.prefixes))
<1>1. Range(x.prefixes) \subseteq X
  BY RangeOfSeq DEF QueueOK
<1>2. x.prefixes \in Seq(Bits)
  BY BitsOfKeys, SeqMonotonic DEF QueueOK
<1>3. Antichain(x.prefixes)
  BY WellFormedElements DEF QueueOK
<1>4. IsInjective(x.prefixes) /\ Disjoint(Range(x.prefixes))
  BY <1>2, <1>3, AntichainElements
<1> QED
  BY <1>1, <1>3, <1>4, BitsOfKeys, WellFormedElements DEF QueueOK

(* A queue whose prefixes are some of those of a queue, none of which has  *)
(* lost all its keys, while every key has kept its prefix.                 *)
LEMMA QueueShrinks ==
  ASSUME NEW X, NEW Y, NEW x, QueueOK(x, X, Y), NEW queue \in Seq(X), NEW K,
         K \subseteq x.keys, IsInjective(queue), Range(queue) \subseteq Range(x.prefixes),
         \A k \in K : \E r \in Range(queue) : Covers(r, k),
         \A r \in Range(queue) : Under(K, r) # {}
  PROVE  QueueOK([prefixes |-> queue, keys |-> K], X, Y)
<1> DEFINE y == [prefixes |-> queue, keys |-> K]
<1>1. y.prefixes = queue /\ y.keys = K
  OBVIOUS
<1> HIDE DEF y
<1>2. Disjoint(Range(queue))
  BY QueueElements DEF Disjoint
<1>3. queue \in Seq(Bits)
  BY BitsOfKeys, SeqMonotonic
<1>4. Antichain(queue)
  BY <1>2, <1>3, AntichainElements
<1>5. WellFormed(y)
  BY <1>1, <1>4, WellFormedElements
<1>6. QueueOK(y, X, Y)
  BY <1>1, <1>5 DEF QueueOK
<1> QED
  BY <1>6 DEF y

(* Enqueue keeps the queue well formed and adds the keys.                  *)
LEMMA EnqueueQueue ==
  ASSUME NEW X, NEW Y, NEW x, QueueOK(x, X, Y), NEW p \in X, NEW K \in SUBSET Y,
         \A k \in K : Covers(p, k)
  PROVE  QueueOK(Enqueue(x, p, K), X, Y) /\ Enqueue(x, p, K).keys = x.keys \cup K
<1>1. CASE K = {}
  BY <1>1 DEF Enqueue
<1>2. CASE K # {}
  <2> DEFINE new == Push(x.prefixes, p)
             y == [prefixes |-> new, keys |-> x.keys \cup K]
  <2>1. Enqueue(x, p, K) = y
    BY <1>2 DEF Enqueue
  <2>2. y.prefixes = new /\ y.keys = x.keys \cup K
    OBVIOUS
  <2>3. x.prefixes \in Seq(X) /\ x.keys \subseteq Y
    BY DEF QueueOK
  <2>4. /\ Range(x.prefixes) \subseteq X
        /\ \A k \in x.keys : k \in Bits /\ \E r \in Range(x.prefixes) : Covers(r, k)
        /\ \A r \in Range(x.prefixes) : r \in Bits /\ Under(x.keys, r) # {}
        /\ Antichain(x.prefixes)
    BY QueueElements
  <2>5. /\ new \in Seq(X) /\ Antichain(new)
        /\ Range(new) \subseteq Range(x.prefixes) \cup {p}
        /\ \A r \in Range(x.prefixes) \cup {p} : \E s \in Range(new) : Covers(s, r)
    BY <2>3, <2>4, BitsOfKeys, PushElements
  <2> HIDE DEF new, y
  <2>6. ASSUME NEW k \in x.keys \cup K PROVE \E s \in Range(new) : Covers(s, k)
    <3>1. k \in Bits
      BY <2>3, BitsOfKeys
    <3>2. PICK r \in Range(x.prefixes) \cup {p} : Covers(r, k)
      BY <2>4
    <3>3. PICK s \in Range(new) : Covers(s, r)
      BY <2>5
    <3>4. r \in Bits /\ s \in Bits
      BY <2>4, <2>5, BitsOfKeys
    <3>5. Covers(s, k)
      BY <3>1, <3>2, <3>3, <3>4, CoversTransitive
    <3> QED
      BY <3>5
  <2>7. ASSUME NEW r \in Range(new) PROVE Under(x.keys \cup K, r) # {}
    <3>1. CASE r = p
      BY <1>2, <3>1 DEF Under
    <3>2. CASE r \in Range(x.prefixes)
      BY <2>4, <3>2 DEF Under
    <3> QED
      BY <2>5, <3>1, <3>2
  <2>8. WellFormed(y)
    BY <2>2, <2>5, <2>6, <2>7, WellFormedElements
  <2>9. QueueOK(y, X, Y)
    BY <2>2, <2>3, <2>5, <2>8 DEF QueueOK
  <2> QED
    BY <2>1, <2>2, <2>9
<1> QED
  BY <1>1, <1>2

(* Dequeue takes the first prefix and exactly the keys under it: no other  *)
(* prefix loses a key.                                                     *)
LEMMA DequeueQueue ==
  ASSUME NEW X, NEW Y, NEW x, QueueOK(x, X, Y), x.prefixes # <<>>
  PROVE  /\ Dequeue(x).prefix \in X
         /\ Dequeue(x).keys = Under(x.keys, Dequeue(x).prefix)
         /\ QueueOK(Dequeue(x).rest, X, Y)
         /\ Dequeue(x).rest.keys = x.keys \ Dequeue(x).keys
<1>0. /\ Range(x.prefixes) \subseteq X /\ IsInjective(x.prefixes) /\ Disjoint(Range(x.prefixes))
      /\ \A k \in x.keys : k \in Bits /\ \E r \in Range(x.prefixes) : Covers(r, k)
      /\ \A r \in Range(x.prefixes) : r \in Bits /\ Under(x.keys, r) # {}
  BY QueueElements
<1> DEFINE p == Head(x.prefixes)
           queue == Tail(x.prefixes)
           K == x.keys \ Under(x.keys, p)
<1>1. /\ Dequeue(x).prefix = p /\ Dequeue(x).keys = Under(x.keys, p)
      /\ Dequeue(x).rest = [prefixes |-> queue, keys |-> K]
  BY DEF Dequeue
<1>2. x.prefixes \in Seq(X)
  BY DEF QueueOK
<1>3. Len(x.prefixes) \in Nat \ {0} /\ DOMAIN x.prefixes = 1..Len(x.prefixes)
  BY <1>2, LenProperties, EmptySeq
<1>4. queue = SubSeq(x.prefixes, 2, Len(x.prefixes))
  BY <1>2, TailIsSubSeq
<1>5. p = x.prefixes[1]
  BY <1>2
<1> HIDE DEF p, queue
<1>6. /\ queue \in Seq(X) /\ IsInjective(queue)
      /\ Range(queue) = {x.prefixes[i] : i \in 2..Len(x.prefixes)}
  <2>1. 2 \in 1..(Len(x.prefixes) + 1) /\ Len(x.prefixes) \in (2 - 1)..Len(x.prefixes)
    BY <1>3
  <2> QED
    BY <1>0, <1>2, <1>4, <2>1, PartElements
<1>7. 1 \in DOMAIN x.prefixes /\ \A i \in 2..Len(x.prefixes) : i \in DOMAIN x.prefixes /\ i # 1
  BY <1>3
<1>8. Range(queue) = Range(x.prefixes) \ {p}
  <2>1. ASSUME NEW r \in Range(queue) PROVE r \in Range(x.prefixes) /\ r # p
    BY <1>0, <1>5, <1>6, <1>7 DEF Range, IsInjective
  <2>2. ASSUME NEW r \in Range(x.prefixes), r # p PROVE r \in Range(queue)
    <3>1. \A i \in DOMAIN x.prefixes : i = 1 \/ i \in 2..Len(x.prefixes)
      BY <1>3
    <3> QED
      BY <1>5, <1>6, <2>2, <3>1 DEF Range
  <2> QED
    BY <2>1, <2>2
<1>9. p \in Range(x.prefixes) /\ p \in X
  BY <1>0, <1>5, <1>7 DEF Range
<1>10. ASSUME NEW k \in K PROVE \E r \in Range(queue) : Covers(r, k)
  BY <1>0, <1>8 DEF Under
<1>11. ASSUME NEW r \in Range(queue) PROVE Under(K, r) # {}
  <2>1. r \in Range(x.prefixes) /\ r # p
    BY <1>8
  <2>2. PICK k \in x.keys : Covers(r, k)
    BY <1>0, <2>1 DEF Under
  <2>3. ~Covers(p, k)
    <3>1. k \in Bits /\ r \in Bits /\ p \in Bits
      BY <1>0, <1>9, <2>1
    <3> QED
      BY <1>0, <1>9, <2>1, <2>2, <3>1, CoversComparable DEF Disjoint
  <2> QED
    BY <2>2, <2>3 DEF Under
<1>12. QueueOK([prefixes |-> queue, keys |-> K], X, Y)
  BY <1>6, <1>8, <1>10, <1>11, QueueShrinks
<1> QED
  BY <1>1, <1>9, <1>12

(* DequeueMatching takes exactly the keys under a prefix, whatever the     *)
(* prefixes they were queued with.                                         *)
LEMMA DequeueMatchingQueue ==
  ASSUME NEW X, NEW Y, NEW x, QueueOK(x, X, Y), NEW p \in X
  PROVE  /\ QueueOK(DequeueMatching(x, p), X, Y)
         /\ DequeueMatching(x, p).keys = x.keys \ Under(x.keys, p)
<1>0. /\ x.prefixes \in Seq(X) /\ DOMAIN x.prefixes = 1..Len(x.prefixes) /\ p \in Bits
      /\ \A k \in x.keys : k \in Bits /\ \E r \in Range(x.prefixes) : Covers(r, k)
      /\ \A r \in Range(x.prefixes) : r \in Bits /\ Under(x.keys, r) # {}
      /\ IsInjective(x.prefixes) /\ Disjoint(Range(x.prefixes))
  <2>1. x.prefixes \in Seq(X) /\ DOMAIN x.prefixes = 1..Len(x.prefixes) /\ p \in Bits
    BY LenProperties DEF QueueOK
  <2> QED
    BY <2>1, QueueElements
<1> DEFINE K == x.keys \ Under(x.keys, p)
<1>1. CASE Under(x.keys, p) = {}
  BY <1>1 DEF DequeueMatching
<1>2. ASSUME NEW r \in Range(x.prefixes), ~Covers(p, r), ~Covers(r, p) PROVE Under(K, r) # {}
  <2>1. PICK k \in x.keys : Covers(r, k)
    BY <1>0 DEF Under
  <2>2. ~Covers(p, k)
    BY <1>0, <1>2, <2>1, CoversComparable
  <2> QED
    BY <2>1, <2>2 DEF Under
<1>3. CASE Under(x.keys, p) # {} /\ Superstrings(x.prefixes, p) # {}
  <2> DEFINE D == {r \in Range(x.prefixes) : Covers(p, r)}
             queue == Without(x.prefixes, D)
  <2>1. DequeueMatching(x, p) = [prefixes |-> queue, keys |-> K]
    BY <1>3 DEF DequeueMatching, removeSuperstrings
  <2>2. queue \in Seq(X) /\ Range(queue) = Range(x.prefixes) \ D /\ IsInjective(queue)
    BY <1>0, WithoutElements
  <2> HIDE DEF queue
  <2>3. PICK s \in Range(x.prefixes) : Covers(p, s)
    BY <1>3 DEF Superstrings, Range
  <2>4. ASSUME NEW k \in K PROVE \E r \in Range(queue) : Covers(r, k)
    <3>1. PICK r \in Range(x.prefixes) : Covers(r, k)
      BY <1>0
    <3>2. ~Covers(p, k)
      BY DEF Under
    <3>3. ~Covers(p, r)
      BY <1>0, <3>1, <3>2, CoversTransitive
    <3> QED
      BY <2>2, <3>1, <3>3
  <2>5. ASSUME NEW r \in Range(queue) PROVE Under(K, r) # {}
    <3>1. r \in Range(x.prefixes) /\ ~Covers(p, r)
      BY <2>2
    <3>2. ~Covers(r, p)
      <4>1. ASSUME Covers(r, p) PROVE FALSE
        <5>1. Covers(r, s)
          BY <1>0, <2>3, <3>1, <4>1, CoversTransitive
        <5>2. r = s
          BY <1>0, <3>1, <5>1 DEF Disjoint
        <5> QED
          BY <2>3, <3>1, <5>2
      <4> QED
        BY <4>1
    <3> QED
      BY <1>2, <3>1, <3>2
  <2>6. K \subseteq x.keys /\ Range(queue) \subseteq Range(x.prefixes)
    BY <2>2
  <2> HIDE DEF K
  <2>7. QueueOK([prefixes |-> queue, keys |-> K], X, Y)
    BY <2>2, <2>4, <2>5, <2>6, QueueShrinks
  <2> QED
    BY <2>1, <2>7 DEF K
<1>4. CASE Under(x.keys, p) # {} /\ Superstrings(x.prefixes, p) = {}
  <2> DEFINE D == {r \in Range(x.prefixes) : Covers(r, p) /\ Under(K, r) = {}}
             queue == Without(x.prefixes, D)
  <2>1. DequeueMatching(x, p) = [prefixes |-> queue, keys |-> K]
    BY <1>4 DEF DequeueMatching, removePrefixes
  <2>2. queue \in Seq(X) /\ Range(queue) = Range(x.prefixes) \ D /\ IsInjective(queue)
    BY <1>0, WithoutElements
  <2> HIDE DEF queue
  <2>3. \A r \in Range(x.prefixes) : ~Covers(p, r)
    BY <1>4 DEF Superstrings, Range
  <2>4. ASSUME NEW k \in K PROVE \E r \in Range(queue) : Covers(r, k)
    <3>1. PICK r \in Range(x.prefixes) : Covers(r, k)
      BY <1>0
    <3>2. k \in Under(K, r)
      BY <3>1 DEF Under
    <3> QED
      BY <2>2, <3>1, <3>2
  <2>5. ASSUME NEW r \in Range(queue) PROVE Under(K, r) # {}
    BY <1>2, <2>2, <2>3
  <2>6. K \subseteq x.keys /\ Range(queue) \subseteq Range(x.prefixes)
    BY <2>2
  <2> HIDE DEF K
  <2>7. QueueOK([prefixes |-> queue, keys |-> K], X, Y)
    BY <2>2, <2>4, <2>5, <2>6, QueueShrinks
  <2> QED
    BY <2>1, <2>7 DEF K
<1> QED
  BY <1>1, <1>3, <1>4

(* Remove takes the keys, and the prefixes that have no key left.          *)
LEMMA RemoveKeysQueue ==
  ASSUME NEW X, NEW Y, NEW x, QueueOK(x, X, Y), NEW R
  PROVE  QueueOK(RemoveKeys(x, R), X, Y) /\ RemoveKeys(x, R).keys = x.keys \ R
<1>0. /\ Range(x.prefixes) \subseteq X /\ IsInjective(x.prefixes) /\ Disjoint(Range(x.prefixes))
      /\ \A k \in x.keys : k \in Bits /\ \E r \in Range(x.prefixes) : Covers(r, k)
      /\ \A r \in Range(x.prefixes) : r \in Bits /\ Under(x.keys, r) # {}
  BY QueueElements
<1> DEFINE K == x.keys \ R
           D == {r \in Range(x.prefixes) : Under(R, r) # {} /\ Under(K, r) = {}}
           queue == Without(x.prefixes, D)
<1>1. RemoveKeys(x, R) = [prefixes |-> queue, keys |-> K]
  BY DEF RemoveKeys, removePrefixes
<1>2. queue \in Seq(X) /\ Range(queue) = Range(x.prefixes) \ D /\ IsInjective(queue)
  BY <1>0, WithoutElements DEF QueueOK
<1> HIDE DEF queue
<1>3. ASSUME NEW k \in K PROVE \E r \in Range(queue) : Covers(r, k)
  <2>1. PICK r \in Range(x.prefixes) : Covers(r, k)
    BY <1>0
  <2>2. k \in Under(K, r)
    BY <2>1 DEF Under
  <2> QED
    BY <1>2, <2>1, <2>2
<1>4. ASSUME NEW r \in Range(queue) PROVE Under(K, r) # {}
  <2>1. r \in Range(x.prefixes) /\ r \notin D
    BY <1>2
  <2>2. PICK k \in x.keys : Covers(r, k)
    BY <1>0, <2>1 DEF Under
  <2> QED
    BY <2>1, <2>2 DEF Under
<1>5. K \subseteq x.keys /\ Range(queue) \subseteq Range(x.prefixes)
  BY <1>2
<1> HIDE DEF K
<1>6. QueueOK([prefixes |-> queue, keys |-> K], X, Y)
  BY <1>2, <1>3, <1>4, <1>5, QueueShrinks
<1> QED
  BY <1>1, <1>6 DEF K

(* An empty queue is well formed.                                          *)
LEMMA NewQueue ==
  ASSUME NEW X, NEW Y, X \subseteq Bits, Y \subseteq Bits
  PROVE  QueueOK(NewProvideQueue, X, Y) /\ NewProvideQueue.keys = {}
<1> DEFINE e == <<>>
<1>1. e \in Seq(X) /\ Range(e) = {} /\ DOMAIN e = {}
  BY EmptySeq DEF Range
<1> HIDE DEF e
<1>2. NewProvideQueue.prefixes = e /\ NewProvideQueue.keys = {}
  BY DEF NewProvideQueue, e
<1>3. WellFormed(NewProvideQueue)
  BY <1>1, <1>2 DEF WellFormed
<1> QED
  BY <1>1, <1>2, <1>3 DEF QueueOK

Entry(X, Y) == [prefix : X, keys : SUBSET Y]

EntriesOK(entries, X, Y) ==
    /\ X \subseteq Bits /\ Y \subseteq Bits
    /\ entries \in Seq(Entry(X, Y))
    /\ \A i \in DOMAIN entries : \A k \in entries[i].keys : Covers(entries[i].prefix, k)

KeysOf(entries) == UNION {entries[i].keys : i \in DOMAIN entries}

(* What is persisted is the whole queue: every key is under the prefix of  *)
(* one of the entries.                                                     *)
LEMMA PersistEntries ==
  ASSUME NEW X, NEW Y, NEW x, QueueOK(x, X, Y)
  PROVE  EntriesOK(Persist(x), X, Y) /\ KeysOf(Persist(x)) = x.keys
<1>1. /\ x.prefixes \in Seq(X) /\ x.keys \subseteq Y
      /\ Len(x.prefixes) \in Nat /\ DOMAIN x.prefixes = 1..Len(x.prefixes)
  BY LenProperties DEF QueueOK
<1> DEFINE n == Len(x.prefixes)
           e == Persist(x)
<1>2. e = [i \in 1..n |-> [prefix |-> x.prefixes[i], keys |-> Under(x.keys, x.prefixes[i])]]
  BY <1>1 DEF Persist
<1> HIDE DEF e, n
<1>3. DOMAIN e = 1..n /\ n \in Nat
  BY <1>1, <1>2 DEF n
<1>4. ASSUME NEW i \in 1..n
      PROVE  e[i] \in Entry(X, Y) /\ e[i].prefix = x.prefixes[i] /\ e[i].keys = Under(x.keys, x.prefixes[i])
  <2>1. x.prefixes[i] \in X
    BY <1>1, ElementOfSeq DEF n
  <2>2. Under(x.keys, x.prefixes[i]) \in SUBSET Y
    BY <1>1 DEF Under
  <2> QED
    BY <1>2, <2>1, <2>2 DEF Entry
<1>5. e \in Seq(Entry(X, Y))
  <2>1. e \in [1..n -> Entry(X, Y)]
    BY <1>2, <1>4
  <2> QED
    BY <1>3, <2>1, SeqDef
<1>6. EntriesOK(e, X, Y)
  BY <1>3, <1>4, <1>5, BitsOfKeys DEF EntriesOK, Under
<1>7. ASSUME NEW k \in x.keys PROVE \E i \in 1..n : k \in e[i].keys
  <2>1. PICK i \in DOMAIN x.prefixes : Covers(x.prefixes[i], k)
    BY DEF QueueOK, WellFormed
  <2> QED
    BY <1>1, <1>4, <2>1 DEF Under, n
<1>8. \A i \in 1..n : e[i].keys \subseteq x.keys
  BY <1>4 DEF Under
<1>9. KeysOf(e) = x.keys
  BY <1>3, <1>7, <1>8 DEF KeysOf
<1> QED
  BY <1>6, <1>9 DEF e

(* What DrainDatastore leaves are entries as they were.                    *)
LEMMA UndrainedEntries ==
  ASSUME NEW X, NEW Y, NEW entries, EntriesOK(entries, X, Y) PROVE EntriesOK(Undrained(entries), X, Y)
<1> DEFINE e == Undrained(entries)
<1>1. entries \in Seq(Entry(X, Y))
  BY DEF EntriesOK
<1>2. e \in Seq(Entry(X, Y)) /\ Range(e) \subseteq Range(entries)
  BY <1>1, WithoutElements DEF Undrained
<1> HIDE DEF e
<1>3. \A x \in Range(entries) : \A k \in x.keys : Covers(x.prefix, k)
  BY DEF EntriesOK, Range
<1>4. \A i \in DOMAIN e : e[i] \in Range(e)
  BY DEF Range
<1> QED
  BY <1>2, <1>3, <1>4 DEF EntriesOK, e

(* DrainDatastore: the queue is well formed again, and has every key of    *)
(* every entry whose prefix is not the empty one.                          *)
LEMMA DrainQueue ==
  ASSUME NEW X, NEW Y, NEW entries, EntriesOK(entries, X, Y)
  PROVE  /\ QueueOK(DrainDatastore(NewProvideQueue, entries), X, Y)
         /\ \A i \in DOMAIN entries :
               Readable(entries[i]) => entries[i].keys \subseteq DrainDatastore(NewProvideQueue, entries).keys
<1> DEFINE n == Len(entries)
           next(i, x) == IF Readable(entries[i]) THEN Enqueue(x, entries[i].prefix, entries[i].keys) ELSE x
           IsDrained(f) == f = [i \in 0..n |-> IF i = 0 THEN NewProvideQueue ELSE next(i, f[i - 1])]
           drained == CHOOSE f : IsDrained(f)
           T == {x \in [prefixes : Seq(X), keys : SUBSET Y] : QueueOK(x, X, Y)}
<1>1. entries \in Seq(Entry(X, Y)) /\ n \in Nat /\ DOMAIN entries = 1..n /\ \A i \in 1..n : entries[i] \in Entry(X, Y)
  BY LenProperties DEF EntriesOK
<1>2. DrainDatastore(NewProvideQueue, entries) = drained[n]
  BY DEF DrainDatastore
<1>3. NewProvideQueue \in T /\ QueueOK(NewProvideQueue, X, Y) /\ NewProvideQueue.keys = {}
  <2>1. QueueOK(NewProvideQueue, X, Y) /\ NewProvideQueue.keys = {}
    BY NewQueue DEF EntriesOK
  <2> QED
    BY <2>1, EmptySeq DEF NewProvideQueue
<1>4. ASSUME NEW i \in 1..n, NEW x, QueueOK(x, X, Y)
      PROVE  /\ QueueOK(next(i, x), X, Y) /\ x.keys \subseteq next(i, x).keys
             /\ Readable(entries[i]) => entries[i].keys \subseteq next(i, x).keys
  <2>1. /\ entries[i].prefix \in X /\ entries[i].keys \in SUBSET Y
        /\ \A k \in entries[i].keys : Covers(entries[i].prefix, k)
    BY <1>1 DEF EntriesOK, Entry
  <2>2. /\ QueueOK(Enqueue(x, entries[i].prefix, entries[i].keys), X, Y)
        /\ Enqueue(x, entries[i].prefix, entries[i].keys).keys = x.keys \cup entries[i].keys
    <3> HIDE DEF next, n, IsDrained, drained, T
    <3> QED
      BY <1>4, <2>1, EnqueueQueue
  <2> QED
    BY <1>4, <2>2
<1>5. ASSUME NEW i \in 1..n, NEW x \in T PROVE next(i, x) \in T
  <2>1. QueueOK(next(i, x), X, Y)
    BY <1>4
  <2>2. next(i, x) \in [prefixes : Seq(X), keys : SUBSET Y]
    <3>1. next(i, x) = x \/ next(i, x) = [prefixes |-> next(i, x).prefixes, keys |-> next(i, x).keys]
      BY DEF Enqueue
    <3>2. next(i, x).prefixes \in Seq(X) /\ next(i, x).keys \in SUBSET Y
      BY <2>1 DEF QueueOK
    <3> HIDE DEF next
    <3> QED
      BY <3>1, <3>2
  <2> HIDE DEF next
  <2> QED
    BY <2>1, <2>2
<1> HIDE DEF next, T
<1>6. IsDrained(drained)
  <2> DEFINE step == [i \in 1..n |-> [x \in T |-> next(i, x)]]
  <2>1. step \in [1..n -> [T -> T]]
    BY <1>5
  <2> HIDE DEF n, step
  <2>2. PICK f : Recursive(f, n, T, NewProvideQueue, step)
    BY <1>1, <1>3, <2>1, RecursionExists
  <2>3. f \in [0..n -> T] /\ f[0] = NewProvideQueue /\ \A i \in 1..n : f[i] = step[i][f[i - 1]]
    BY <2>2 DEF Recursive
  <2>4. \A i \in 1..n : i - 1 \in 0..n /\ i \in 0..n
    BY <1>1
  <2>5. ASSUME NEW i \in 1..n PROVE f[i] = next(i, f[i - 1])
    <3>1. f[i - 1] \in T
      BY <2>3, <2>4
    <3> QED
      BY <2>3, <3>1 DEF step
  <2>6. \A i \in 0..n : i = 0 \/ i \in 1..n
    BY <1>1
  <2>7. IsDrained(f)
    <3>1. f = [i \in 0..n |-> f[i]]
      BY <2>3
    <3>2. \A i \in 0..n : f[i] = IF i = 0 THEN NewProvideQueue ELSE next(i, f[i - 1])
      BY <2>3, <2>5, <2>6
    <3> QED
      BY <3>1, <3>2, Zenon
  <2> QED
    BY <2>7, Zenon
<1> HIDE DEF drained
<1>7. drained[0] = NewProvideQueue /\ \A i \in 1..n : drained[i] = next(i, drained[i - 1])
  <2>1. 0 \in 0..n /\ \A i \in 1..n : i \in 0..n /\ i # 0
    BY <1>1
  <2> QED
    BY <1>6, <2>1
<1> HIDE DEF n, IsDrained
<1> DEFINE Holds(i) == /\ QueueOK(drained[i], X, Y)
                       /\ \A j \in 1..i : Readable(entries[j]) => entries[j].keys \subseteq drained[i].keys
           P == {i \in 0..n : Holds(i)}
<1>8. 0 \in P
  <2>1. Holds(0)
    BY <1>3, <1>7
  <2> HIDE DEF Holds
  <2> QED
    BY <1>1, <2>1
<1>9. ASSUME NEW i \in 1..n, i - 1 \in P PROVE i \in P
  <2>1. Holds(i - 1) /\ i \in 0..n
    BY <1>1, <1>9
  <2>2. /\ QueueOK(drained[i], X, Y) /\ drained[i - 1].keys \subseteq drained[i].keys
        /\ Readable(entries[i]) => entries[i].keys \subseteq drained[i].keys
    BY <1>4, <1>7, <2>1
  <2>3. \A j \in 1..i : j \in 1..(i - 1) \/ j = i
    BY <1>1
  <2>4. Holds(i)
    BY <2>1, <2>2, <2>3
  <2> HIDE DEF Holds
  <2> QED
    BY <2>1, <2>4
<1> HIDE DEF P
<1>10. n \in P
  <2>1. \A i \in 0..n : i \in P
    BY <1>1, <1>8, <1>9, IntervalInduction
  <2> QED
    BY <1>1, <2>1
<1> QED
  BY <1>1, <1>2, <1>10 DEF P
=============================================================================
