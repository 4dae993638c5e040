----------------------------- MODULE Induction ------------------------------
(***************************************************************************)
(* Facts about numbers, recursive functions, finite sets and sequences     *)
(* that proofs of other modules use.  Each is an induction, and none takes *)
(* an operator: a set of numbers stands for the property, and what is not  *)
(* in it has a least member.                                               *)
(***************************************************************************)
EXTENDS Integers, Sequences, SequencesExt, FiniteSetTheorems, WellFoundedInduction, TLAPS

\* A set with 0 and each successor of its numbers has all numbers.
LEMMA NatSets ==
    ASSUME NEW S, 0 \in S, \A n \in Nat : n \in S => n + 1 \in S
    PROVE  Nat \subseteq S
<1> DEFINE T == Nat \ S
           R == OpToRel(<, Nat)
<1>1. SUFFICES ASSUME T # {} PROVE FALSE
    OBVIOUS
<1>2. IsWellFoundedOn(R, Nat)
    BY NatLessThanWellFounded
<1>3. T \subseteq Nat
    OBVIOUS
<1> HIDE DEF T, R
<1>4. PICK x \in T : \A y \in T : ~(<<y, x>> \in R)
    BY <1>1, <1>2, <1>3, WFMin
<1>5. x \in Nat /\ x \notin S /\ x # 0
    BY DEF T
<1>6. x - 1 \in Nat /\ x - 1 < x /\ (x - 1) + 1 = x
    BY <1>5
<1>7. x - 1 \in T
    BY <1>5, <1>6 DEF T
<1>8. <<x - 1, x>> \in R
    BY <1>5, <1>6 DEF R, OpToRel
<1> QED
    BY <1>4, <1>7, <1>8

\* The same up to a bound.
LEMMA UpTo ==
    ASSUME NEW n \in Nat, NEW S, 0 \in S, \A i \in 0..n : i < n /\ i \in S => i + 1 \in S
    PROVE  0..n \subseteq S
<1> DEFINE T == {i \in Nat : i <= n => i \in S}
<1>1. 0 \in T
    OBVIOUS
<1>2. \A i \in Nat : i \in T => i + 1 \in T
    OBVIOUS
<1> HIDE DEF T
<1>3. Nat \subseteq T
    BY <1>1, <1>2, NatSets
<1> QED
    BY <1>3 DEF T

\* f starts at base and each next value is follow of its place and of the value before.
Recurs(f, base, follow, n) == f[0] = base /\ \A i \in 1..n : f[i] = follow[<<i, f[i - 1]>>]

\* A function on 0..n can be defined by what its first value is and how each follows.
LEMMA Recursion ==
    ASSUME NEW A, NEW base \in A, NEW follow \in [Nat \X A -> A], NEW n \in Nat
    PROVE  \E f \in [0..n -> A] : Recurs(f, base, follow, n)
<1> DEFINE Upto(f, m) == f[0] = base /\ \A i \in 1..m : f[i] = follow[<<i, f[i - 1]>>]
           S == {m \in Nat : \E f \in [0..m -> A] : Upto(f, m)}
<1>1. 0 \in S
    <2> DEFINE f == [i \in 0..0 |-> base]
    <2>1. f \in [0..0 -> A] /\ Upto(f, 0)
        OBVIOUS
    <2> QED
        BY <2>1
<1>2. ASSUME NEW m \in Nat, m \in S PROVE m + 1 \in S
    <2>1. PICK f \in [0..m -> A] : Upto(f, m)
        BY <1>2
    <2> DEFINE g == [i \in 0..m + 1 |-> IF i <= m THEN f[i] ELSE follow[<<m + 1, f[m]>>]]
    <2>2. g \in [0..m + 1 -> A]
        OBVIOUS
    <2>3. \A i \in 0..m : g[i] = f[i]
        OBVIOUS
    <2>4. g[m + 1] = follow[<<m + 1, f[m]>>]
        OBVIOUS
    <2> HIDE DEF g
    <2>5. g[0] = base
        BY <2>1, <2>3
    <2>6. ASSUME NEW i \in 1..m + 1 PROVE g[i] = follow[<<i, g[i - 1]>>]
        <3>1. CASE i <= m
            <4>1. i \in 1..m /\ i \in 0..m /\ i - 1 \in 0..m
                BY <3>1
            <4> QED
                BY <4>1, <2>1, <2>3
        <3>2. CASE ~(i <= m)
            <4>1. i = m + 1 /\ i - 1 = m /\ m \in 0..m
                BY <3>2
            <4> QED
                BY <4>1, <2>3, <2>4
        <3> QED
            BY <3>1, <3>2
    <2> QED
        BY <2>2, <2>5, <2>6
<1> HIDE DEF S
<1>3. Nat \subseteq S
    BY <1>1, <1>2, NatSets
<1> QED
    BY <1>3 DEF S, Recurs

\* Of some numbers one is the least.
LEMMA LeastOf ==
    ASSUME NEW T \in SUBSET Nat, T # {}
    PROVE  \E i \in T : \A j \in T : i <= j
<1> DEFINE S == {n \in Nat : \A m \in 0..n : m \notin T}
<1>1. SUFFICES ASSUME \A i \in T : \E j \in T : j < i PROVE FALSE
    OBVIOUS
<1>2. 0 \in S
    BY <1>1
<1>3. \A n \in Nat : n \in S => n + 1 \in S
    <2> SUFFICES ASSUME NEW n \in Nat, n \in S, n + 1 \in T PROVE FALSE
        OBVIOUS
    <2>1. PICK j \in T : j < n + 1
        BY <1>1
    <2>2. j \in 0..n
        BY <2>1
    <2> QED
        BY <2>1, <2>2
<1> HIDE DEF S
<1>4. Nat \subseteq S
    BY <1>2, <1>3, NatSets
<1>5. PICK i : i \in T
    OBVIOUS
<1>6. i \in S /\ i \in 0..i
    BY <1>4, <1>5
<1> QED
    BY <1>5, <1>6 DEF S

\* Of finitely many numbers one is the greatest.
LEMMA GreatestInt ==
    ASSUME NEW S \in SUBSET Int, IsFiniteSet(S), S # {}
    PROVE  \E m \in S : \A x \in S : x <= m
<1> DEFINE Has(T) == \E m \in T : \A x \in T : x <= m
           Good == {n \in Nat : \A T \in SUBSET S : T # {} /\ Cardinality(T) = n => Has(T)}
<1>0. \A T \in SUBSET S : IsFiniteSet(T) /\ Cardinality(T) \in Nat /\ T \subseteq Int
    BY FS_Subset, FS_CardinalityType
<1>1. 0 \in Good
    BY <1>0, FS_EmptySet
<1>2. ASSUME NEW n \in Nat, n \in Good PROVE n + 1 \in Good
    <2> SUFFICES ASSUME NEW T \in SUBSET S, T # {}, Cardinality(T) = n + 1 PROVE Has(T)
        OBVIOUS
    <2>1. PICK t : t \in T
        OBVIOUS
    <2> DEFINE U == T \ {t}
    <2>2. U \in SUBSET S /\ Cardinality(U) = n
        <3>1. Cardinality(U) = Cardinality(T) - 1
            BY <1>0, <2>1, FS_RemoveElement
        <3>2. Cardinality(U) = n
            BY <3>1
        <3>3. U \in SUBSET S
            OBVIOUS
        <3> QED
            BY <3>2, <3>3
    <2>3. t \in Int /\ \A x \in T : x \in Int
        BY <1>0, <2>1
    <2>4. CASE U = {}
        <3>1. \A x \in T : x = t
            BY <2>4
        <3> QED
            BY <2>1, <2>3, <3>1
    <2>5. CASE U # {}
        <3>1. PICK m \in U : \A x \in U : x <= m
            BY <1>2, <2>2, <2>5
        <3>2. CASE t <= m
            BY <3>1, <3>2
        <3>3. CASE ~(t <= m)
            <4>1. m \in Int /\ m <= t
                BY <2>3, <3>1, <3>3
            <4>2. \A x \in T : x <= t
                BY <2>3, <3>1, <4>1
            <4> QED
                BY <2>1, <4>2
        <3> QED
            BY <3>2, <3>3
    <2> QED
        BY <2>4, <2>5
<1> HIDE DEF Good
<1>3. Nat \subseteq Good
    BY <1>1, <1>2, NatSets
<1>4. Cardinality(S) \in Nat
    BY <1>0
<1> QED
    BY <1>3, <1>4 DEF Good

\* Some numbers, finitely many and at least one, have a greatest.
LEMMA GreatestOf ==
    ASSUME NEW S \in SUBSET Nat, IsFiniteSet(S), S # {}
    PROVE  \E m \in S : \A x \in S : x <= m
<1>1. S \in SUBSET Int
    OBVIOUS
<1> QED
    BY <1>1, GreatestInt

\* Sequences put end to end, one at a time.
LEMMA FlattenIs ==
    ASSUME NEW S, NEW seqs \in Seq(Seq(S))
    PROVE  \E f \in [0..Len(seqs) -> Seq(S)] :
               /\ f[0] = <<>>
               /\ \A i \in 1..Len(seqs) : f[i] = f[i - 1] \o seqs[i]
               /\ FlattenSeq(seqs) = f[Len(seqs)]
<1>0. CASE Len(seqs) = 0
    <2> DEFINE f == [i \in 0..Len(seqs) |-> <<>>]
    <2>1. f \in [0..Len(seqs) -> Seq(S)] /\ f[0] = <<>> /\ f[Len(seqs)] = <<>> /\ 1..Len(seqs) = {}
        BY <1>0
    <2>2. FlattenSeq(seqs) = <<>>
        BY <1>0 DEF FlattenSeq
    <2> QED
        BY <2>1, <2>2
<1> SUFFICES ASSUME Len(seqs) > 0
             PROVE  \E f \in [0..Len(seqs) -> Seq(S)] :
                        /\ f[0] = <<>>
                        /\ \A i \in 1..Len(seqs) : f[i] = f[i - 1] \o seqs[i]
                        /\ FlattenSeq(seqs) = f[Len(seqs)]
    <2>1. Len(seqs) = 0 \/ Len(seqs) > 0
        OBVIOUS
    <2> QED
        BY <1>0, <2>1
<1> DEFINE n == Len(seqs)
           A == Seq(S)
           Body(f) == [i \in 1..n |-> IF i = 1 THEN seqs[i] ELSE f[i - 1] \o seqs[i]]
           flatten == CHOOSE f : f = Body(f)
           follow == [p \in Nat \X A |-> IF p[1] \in 1..n THEN p[2] \o seqs[p[1]] ELSE p[2]]
<1>1. n \in Nat /\ n > 0 /\ \A i \in 1..n : seqs[i] \in A
    OBVIOUS
<1>2. FlattenSeq(seqs) = flatten[n]
    BY <1>1 DEF FlattenSeq
<1>3. \A s, t \in A : s \o t \in A
    OBVIOUS
<1>4. <<>> \in A /\ <<>> \o seqs[1] = seqs[1]
    BY <1>1
<1> HIDE DEF n, A
<1>5. follow \in [Nat \X A -> A]
    BY <1>1, <1>3
<1>6. \A i \in 1..n, s \in A : follow[<<i, s>>] = s \o seqs[i]
    <2>1. \A i \in 1..n : i \in Nat
        BY <1>1
    <2> QED
        BY <2>1
<1> HIDE DEF follow
<1>7. PICK f \in [0..n -> A] : Recurs(f, <<>>, follow, n)
    BY <1>1, <1>4, <1>5, Recursion
<1> DEFINE g == [i \in 1..n |-> f[i]]
<1>8. ASSUME NEW i \in 1..n PROVE f[i] = f[i - 1] \o seqs[i]
    <2>1. i - 1 \in 0..n
        BY <1>1
    <2>2. f[i - 1] \in A
        BY <2>1
    <2> QED
        BY <1>6, <1>7, <2>2 DEF Recurs
<1>9. f[1] = seqs[1] /\ f[0] = <<>>
    <2>1. 1 \in 1..n /\ 1 - 1 = 0
        BY <1>1
    <2>2. f[0] = <<>>
        BY <1>7 DEF Recurs
    <2> QED
        BY <1>4, <1>8, <2>1, <2>2
<1>10. ASSUME NEW i \in 1..n PROVE g[i] = IF i = 1 THEN seqs[i] ELSE g[i - 1] \o seqs[i]
    <2>1. CASE i = 1
        BY <1>9, <2>1
    <2>2. CASE i # 1
        <3>1. i - 1 \in 1..n
            BY <1>1, <2>2
        <3> QED
            BY <1>8, <2>2, <3>1
    <2> QED
        BY <2>1, <2>2
<1>11. g = Body(g)
    BY <1>10
<1>12. \A i \in 1..n : g[i] = f[i]
    OBVIOUS
<1> HIDE DEF g
<1>13. flatten = Body(flatten)
    BY <1>11
<1> HIDE DEF flatten
<1>14. \A i \in 1..n : flatten[i] = IF i = 1 THEN seqs[i] ELSE flatten[i - 1] \o seqs[i]
    BY <1>13
<1> DEFINE T == {i \in Nat : i \in 1..n => flatten[i] = f[i]}
<1>15. 0 \in T
    OBVIOUS
<1>16. ASSUME NEW i \in 0..n, i < n, i \in T PROVE i + 1 \in T
    <2>0. n \in Nat /\ i \in 0..n /\ i < n
        BY <1>1, <1>16
    <2>1. i + 1 \in 1..n /\ (i + 1) - 1 = i /\ i + 1 \in Nat
        BY ONLY <2>0
    <2>2. CASE i = 0
        BY <1>1, <1>9, <1>14, <2>1, <2>2
    <2>3. CASE i # 0
        <3>1. i \in 1..n /\ i + 1 # 1
            BY <1>1, <2>1, <2>3
        <3>2. flatten[i] = f[i]
            BY <1>16, <3>1
        <3>3. flatten[i + 1] = flatten[i] \o seqs[i + 1]
            BY <1>14, <2>1, <3>1
        <3>4. f[i + 1] = f[i] \o seqs[i + 1]
            BY <1>8, <2>1
        <3> QED
            BY <2>1, <3>2, <3>3, <3>4
    <2> QED
        BY <2>2, <2>3
<1> HIDE DEF T
<1>17. 0..n \subseteq T
    BY <1>1, <1>15, <1>16, UpTo
<1>18. n \in 1..n /\ n \in T
    BY <1>1, <1>17
<1> QED
    BY <1>2, <1>8, <1>9, <1>18 DEF T, A, n

\* Sequences put end to end are a sequence, and not an empty one if the first is not.
LEMMA FlattenType ==
    ASSUME NEW S, NEW seqs \in Seq(Seq(S))
    PROVE  FlattenSeq(seqs) \in Seq(S) /\ (Len(seqs) > 0 /\ seqs[1] # <<>> => FlattenSeq(seqs) # <<>>)
<1> DEFINE n == Len(seqs)
           A == Seq(S)
<1>1. PICK f \in [0..n -> A] :
               f[0] = <<>> /\ (\A i \in 1..n : f[i] = f[i - 1] \o seqs[i]) /\ FlattenSeq(seqs) = f[n]
    BY FlattenIs
<1>2. n \in Nat /\ \A i \in 1..n : seqs[i] \in A
    OBVIOUS
<1>3. \A s, t \in A : s # <<>> \/ t # <<>> => s \o t # <<>>
    OBVIOUS
<1>4. <<>> \in A
    OBVIOUS
<1> HIDE DEF n, A
<1> DEFINE T == {i \in Nat : i \in 1..n /\ seqs[1] # <<>> => f[i] # <<>>}
<1>5. 0 \in T
    OBVIOUS
<1>6. ASSUME NEW i \in 0..n, i < n, i \in T PROVE i + 1 \in T
    <2>0. n \in Nat /\ i \in 0..n /\ i < n
        BY <1>2, <1>6
    <2>1. i \in Nat /\ i + 1 \in 1..n /\ (i + 1) - 1 = i /\ (i # 0 => i \in 1..n)
        BY ONLY <2>0
    <2>2. f[i + 1] = f[i] \o seqs[i + 1] /\ f[i] \in A /\ seqs[i + 1] \in A
        BY <1>1, <1>2, <1>6, <2>1
    <2>3. seqs[1] # <<>> => f[i] # <<>> \/ seqs[i + 1] # <<>>
        <3>1. CASE i = 0
            BY <3>1
        <3>2. CASE i # 0
            BY <1>6, <2>1, <3>2
        <3> QED
            BY <3>1, <3>2
    <2> QED
        BY <1>3, <2>1, <2>2, <2>3
<1> HIDE DEF T
<1>7. 0..n \subseteq T
    BY <1>2, <1>5, <1>6, UpTo
<1>8. n \in 0..n /\ n \in T /\ (n > 0 => n \in 1..n)
    BY <1>2, <1>7
<1>9. f[n] \in A /\ (n > 0 /\ seqs[1] # <<>> => f[n] # <<>>)
    BY <1>1, <1>8 DEF T
<1> QED
    BY <1>1, <1>9 DEF A, n
=============================================================================
