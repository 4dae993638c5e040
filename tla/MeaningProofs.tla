--------------------------- MODULE MeaningProofs ---------------------------
(***************************************************************************)
(* Proofs that what is shown means what it should, for any machine and any *)
(* user.                                                                   *)
(*                                                                         *)
(* Health: for every machine whose sources are of the shape their programs *)
(* write, however many mounts, rows, arrays, disks and sensors, the rollup *)
(* names what is critical, all of it and once.  Each plugin's checks list  *)
(* what its source says, in the order of their source (Lists); the lists   *)
(* of two plugins name different kinds of things and so can be put end to  *)
(* end (ListsBoth), and ranking a list keeps what it names (OfRankIs,      *)
(* PageOf).  Two plugins read a source line by line: for each the state    *)
(* after i lines is tied to what the first i lines say (AttributesIs,      *)
(* RaidSoFar), by induction on i.                                          *)
(*                                                                         *)
(* Settings: for every file, wherever it is and however long, and every    *)
(* update, the words beside the figures and the commands handed on are     *)
(* those that the file says.  After i lines the table has the last value   *)
(* of each key the first i lines give (ConfigIs, ConfigSays); the limits   *)
(* are that table over what is built in (LimitsAre), a call's word is the  *)
(* most severe band its figure reaches (WordIs), and the last call for a   *)
(* figure leaves its word (WordsOfBoth, WordsOfParts), plugin by plugin.   *)
(***************************************************************************)
EXTENDS Health, Settings, Induction, SequenceTheorems

-----------------------------------------------------------------------------
(* Numbers in order.                                                       *)

\* Numbers in order are all of them, each once, least first, so that the place of
\* one is the count of those up to it.
LEMMA InOrderIs ==
    ASSUME NEW S \in SUBSET Nat, IsFiniteSet(S)
    PROVE  /\ InOrder(S) \in Seq(S) /\ Len(InOrder(S)) = Cardinality(S)
           /\ \A i \in S : LET n == Cardinality({j \in S : j <= i})
                            IN n \in 1..Cardinality(S) /\ InOrder(S)[n] = i
           /\ \A n, k \in 1..Cardinality(S) : n < k => InOrder(S)[n] < InOrder(S)[k]
<1> DEFINE card == Cardinality(S)
           upTo(i) == {j \in S : j <= i}
           rank == [i \in S |-> Cardinality(upTo(i))]
           nth(n) == CHOOSE i \in S : Cardinality({j \in S : j <= i}) = n
<1>1. card \in Nat /\ IsFiniteSet(1..card) /\ Cardinality(1..card) = card
    BY FS_CardinalityType, FS_Interval
<1>2. ASSUME NEW i \in S
      PROVE  IsFiniteSet(upTo(i)) /\ Cardinality(upTo(i)) \in 1..card
    <2>1. upTo(i) \in SUBSET S /\ i \in upTo(i)
        OBVIOUS
    <2> HIDE DEF upTo
    <2>2. IsFiniteSet(upTo(i)) /\ Cardinality(upTo(i)) <= card
        BY <2>1, FS_Subset
    <2>3. Cardinality(upTo(i)) \in Nat /\ Cardinality(upTo(i)) # 0
        BY <2>1, <2>2, FS_CardinalityType, FS_EmptySet
    <2> QED
        BY <2>2, <2>3, <1>1
<1>3. ASSUME NEW i \in S, NEW k \in S, i < k
      PROVE  rank[i] < rank[k]
    <2>0. /\ i \in Nat /\ k \in Nat /\ ~(k <= i) /\ k <= k
          /\ \A j \in S : j \in Nat /\ (j <= i => j <= k)
        BY <1>3
    <2>1. upTo(i) \in SUBSET upTo(k) /\ k \in upTo(k) /\ k \notin upTo(i)
        BY <2>0
    <2>2. rank[i] = Cardinality(upTo(i)) /\ rank[k] = Cardinality(upTo(k))
        OBVIOUS
    <2>3. IsFiniteSet(upTo(k)) /\ Cardinality(upTo(i)) \in 1..card /\ Cardinality(upTo(k)) \in 1..card
        BY <1>2
    <2> HIDE DEF upTo, rank
    <2>4. Cardinality(upTo(i)) <= Cardinality(upTo(k)) /\ Cardinality(upTo(i)) # Cardinality(upTo(k))
        BY <2>1, <2>3, FS_Subset
    <2>5. \A a, b \in 1..card : a <= b /\ a # b => a < b
        BY <1>1
    <2> QED
        BY <2>2, <2>3, <2>4, <2>5
<1>4. rank \in [S -> 1..card]
    BY <1>2
<1> HIDE DEF rank
<1>5. \A i, k \in S : rank[i] = rank[k] => i = k
    <2> SUFFICES ASSUME NEW i \in S, NEW k \in S, rank[i] = rank[k] PROVE i = k
        OBVIOUS
    <2>1. i \in Nat /\ k \in Nat /\ rank[i] \in 1..card /\ rank[k] \in 1..card
        BY <1>4
    <2>2. i < k \/ k < i \/ i = k
        BY <2>1
    <2>3. ~(rank[i] < rank[k]) /\ ~(rank[k] < rank[i])
        BY <2>1
    <2> QED
        BY <1>3, <2>2, <2>3
<1>6. rank \in Surjection(S, 1..card)
    <2>1. rank \in Injection(S, 1..card)
        BY <1>4, <1>5 DEF Injection, IsInjective
    <2> QED
        BY <1>1, <2>1, FS_Injection
<1>7. ASSUME NEW n \in 1..card PROVE nth(n) \in S /\ rank[nth(n)] = n
    <2>1. \E i \in S : rank[i] = n
        BY <1>6 DEF Surjection
    <2>2. \E i \in S : Cardinality({j \in S : j <= i}) = n
        BY <2>1 DEF rank
    <2>3. nth(n) \in S /\ Cardinality({j \in S : j <= nth(n)}) = n
        BY <2>2
    <2> QED
        BY <2>3 DEF rank
<1>8. InOrder(S) = [n \in 1..card |-> nth(n)]
    BY DEF InOrder
<1> HIDE DEF nth, upTo
<1>9. InOrder(S) \in Seq(S) /\ Len(InOrder(S)) = card
    BY <1>1, <1>7, <1>8, IsASeq
<1>10. ASSUME NEW i \in S PROVE Cardinality(upTo(i)) \in 1..card /\ InOrder(S)[Cardinality(upTo(i))] = i
    <2>1. rank[i] \in 1..card
        BY <1>4
    <2>2. nth(rank[i]) \in S /\ rank[nth(rank[i])] = rank[i]
        BY <1>7, <2>1
    <2>3. nth(rank[i]) = i
        BY <1>5, <2>2
    <2>4. rank[i] = Cardinality(upTo(i))
        BY DEF rank
    <2> QED
        BY <1>8, <2>1, <2>3, <2>4
<1>11. ASSUME NEW n \in 1..card, NEW k \in 1..card, n < k PROVE InOrder(S)[n] < InOrder(S)[k]
    <2>1. nth(n) \in S /\ nth(k) \in S /\ rank[nth(n)] = n /\ rank[nth(k)] = k
        BY <1>7
    <2>2. nth(n) \in Nat /\ nth(k) \in Nat /\ n \in Nat /\ k \in Nat
        <3>1. nth(n) \in Nat /\ nth(k) \in Nat
            BY <2>1
        <3>2. n \in Nat /\ k \in Nat
            OBVIOUS
        <3> QED
            BY <3>1, <3>2
    <2>3. nth(n) # nth(k)
        BY <2>1, <2>2, <1>11
    <2>4. ~(nth(k) < nth(n))
        <3> SUFFICES ASSUME nth(k) < nth(n) PROVE FALSE
            OBVIOUS
        <3>1. rank[nth(k)] < rank[nth(n)]
            BY <1>3, <2>1
        <3> QED
            BY <3>1, <2>1, <2>2, <1>11
    <2>5. nth(n) < nth(k)
        BY <2>2, <2>3, <2>4
    <2> QED
        BY <1>8, <2>5
<1> QED
    BY <1>9, <1>10, <1>11 DEF upTo

\* The places kept of some, as a function.
LEMMA PlacesIs ==
    ASSUME NEW S \in SUBSET Nat, IsFiniteSet(S)
    PROVE  LET p == InOrder(S)
           IN /\ Len(p) \in Nat /\ DOMAIN p = 1..Len(p) /\ \A n \in 1..Len(p) : p[n] \in S
              /\ \A i \in S : \E n \in 1..Len(p) : p[n] = i
              /\ \A n, k \in 1..Len(p) : p[n] = p[k] => n = k
<1> DEFINE p == InOrder(S)
           m == Cardinality(S)
<1>1. /\ p \in Seq(S) /\ Len(p) = m /\ m \in Nat
      /\ \A i \in S : \E n \in 1..m : p[n] = i
      /\ \A n, k \in 1..m : n < k => p[n] < p[k]
    BY InOrderIs, FS_CardinalityType
<1> HIDE DEF p, m
<1>2. DOMAIN p = 1..Len(p) /\ \A n \in 1..Len(p) : p[n] \in S
    BY <1>1
<1>3. ASSUME NEW n \in 1..m, NEW k \in 1..m, p[n] = p[k] PROVE n = k
    <2>1. p[n] \in Nat /\ p[k] \in Nat
        BY <1>1, <1>2
    <2>2. ~(p[n] < p[k]) /\ ~(p[k] < p[n])
        BY <1>3, <2>1
    <2>3. ~(n < k) /\ ~(k < n)
        BY <1>1, <2>2
    <2> QED
        BY <1>1, <2>3
<1> QED
    BY <1>1, <1>2, <1>3 DEF p

-----------------------------------------------------------------------------
(* What checks list.                                                       *)

\* Names of some kinds: a word, or a word and a number.
NamesOf(kinds) == {<<k>> : k \in kinds} \cup (kinds \X Nat)

\* Checks of some kinds, each thing once, of which those of a set are critical.
Lists(checks, kinds, crit) ==
    /\ checks \in Seq([name : NamesOf(kinds), rank : {Ok, Warn, Crit}])
    /\ \A i, j \in 1..Len(checks) : checks[i].name = checks[j].name => i = j
    /\ crit = {checks[i].name : i \in {j \in 1..Len(checks) : checks[j].rank = Crit}}

\* Names of different kinds differ.
LEMMA KindsApart ==
    ASSUME NEW K, NEW L
    PROVE  /\ NamesOf(K) \cup NamesOf(L) = NamesOf(K \cup L)
           /\ K \cap L = {} => NamesOf(K) \cap NamesOf(L) = {}
<1>1. NamesOf(K) \cup NamesOf(L) = NamesOf(K \cup L)
    BY DEF NamesOf
<1>2. ASSUME NEW n \in NamesOf(K), NEW m \in NamesOf(L), n = m PROVE \E k \in K : k \in L
    <2>1. \A J : \A x \in NamesOf(J) : x[1] \in J
        <3> SUFFICES ASSUME NEW J, NEW x \in NamesOf(J) PROVE x[1] \in J
            OBVIOUS
        <3>1. CASE x \in {<<k>> : k \in J}
            <4>1. PICK k \in J : x = <<k>>
                BY <3>1
            <4> QED
                BY <4>1
        <3>2. CASE x \in J \X Nat
            BY <3>2
        <3> QED
            BY <3>1, <3>2 DEF NamesOf
    <2>2. n[1] \in K /\ m[1] \in L
        BY <2>1
    <2> QED
        BY <1>2, <2>2
<1> QED
    BY <1>1, <1>2

\* A plugin that is not there says nothing.
LEMMA ListsNone ==
    ASSUME NEW K PROVE Lists(<<>>, K, {})
BY DEF Lists

\* Checks of different kinds put end to end.
LEMMA ListsBoth ==
    ASSUME NEW K, NEW L, K \cap L = {},
           NEW s, NEW t, NEW C, NEW D, Lists(s, K, C), Lists(t, L, D)
    PROVE  Lists(s \o t, K \cup L, C \cup D)
<1> DEFINE R == [name : NamesOf(K \cup L), rank : {Ok, Warn, Crit}]
           P == [name : NamesOf(K), rank : {Ok, Warn, Crit}]
           Q == [name : NamesOf(L), rank : {Ok, Warn, Crit}]
<1>1. NamesOf(K) \cup NamesOf(L) = NamesOf(K \cup L) /\ NamesOf(K) \cap NamesOf(L) = {}
    BY KindsApart
<1>2. s \in Seq(P) /\ t \in Seq(Q) /\ P \subseteq R /\ Q \subseteq R
    BY <1>1 DEF Lists
<1>3. \A e \in P : e \in R /\ e.name \in NamesOf(K)
    BY <1>2
<1>4. \A e \in Q : e \in R /\ e.name \in NamesOf(L)
    BY <1>2
<1> HIDE DEF R, P, Q
<1>5. s \in Seq(R) /\ t \in Seq(R)
    BY <1>2
<1> DEFINE u == s \o t
           n == Len(s)
           m == Len(t)
<1>6. u \in Seq(R) /\ Len(u) = n + m /\ n \in Nat /\ m \in Nat
    BY <1>5
<1>7. \A i \in 1..n : u[i] = s[i] /\ s[i] \in P
    BY <1>2, <1>5
<1>8. \A i \in n + 1..n + m : u[i] = t[i - n] /\ i - n \in 1..m /\ t[i - n] \in Q
    BY <1>2, <1>5
<1>9. \A i \in 1..n + m : i \in 1..n \/ i \in n + 1..n + m
    BY <1>6
<1>10. \A i \in 1..m : i + n \in n + 1..n + m /\ (i + n) - n = i
    BY <1>6
<1>11. \A i \in 1..n : i \in 1..n + m
    BY <1>6
<1>12. \A i \in n + 1..n + m : i \in 1..n + m
    BY <1>6
<1>13. /\ \A i, j \in 1..n : s[i].name = s[j].name => i = j
       /\ \A i, j \in 1..m : t[i].name = t[j].name => i = j
       /\ C = {s[i].name : i \in {j \in 1..n : s[j].rank = Crit}}
       /\ D = {t[i].name : i \in {j \in 1..m : t[j].rank = Crit}}
    BY DEF Lists
<1> HIDE DEF u
<1>14. ASSUME NEW i \in 1..n + m, NEW j \in 1..n + m, u[i].name = u[j].name PROVE i = j
    <2>1. CASE i \in 1..n /\ j \in 1..n
        BY <1>7, <1>13, <1>14, <2>1
    <2>2. CASE i \in n + 1..n + m /\ j \in n + 1..n + m
        <3>0. /\ u[i] = t[i - n] /\ i - n \in 1..m
              /\ u[j] = t[j - n] /\ j - n \in 1..m
            BY <1>8, <2>2
        <3>1. i - n = j - n
            BY <1>13, <1>14, <3>0
        <3> QED
            BY <3>1, <2>2, <1>6
    <2>3. CASE i \in 1..n /\ j \in n + 1..n + m
        <3>1. u[i].name \in NamesOf(K) /\ u[j].name \in NamesOf(L)
            BY <1>3, <1>4, <1>7, <1>8, <2>3
        <3> QED
            BY <3>1, <1>1, <1>14
    <2>4. CASE j \in 1..n /\ i \in n + 1..n + m
        <3>1. u[j].name \in NamesOf(K) /\ u[i].name \in NamesOf(L)
            BY <1>3, <1>4, <1>7, <1>8, <2>4
        <3> QED
            BY <3>1, <1>1, <1>14
    <2> QED
        BY <1>9, <2>1, <2>2, <2>3, <2>4
<1> DEFINE E == {u[i].name : i \in {j \in 1..n + m : u[j].rank = Crit}}
<1>15. ASSUME NEW x \in C PROVE x \in E
    <2>1. PICK i \in 1..n : s[i].rank = Crit /\ x = s[i].name
        BY <1>13
    <2>2. i \in 1..n + m /\ u[i] = s[i]
        BY <1>7, <1>11
    <2> QED
        BY <2>1, <2>2
<1>16. ASSUME NEW x \in D PROVE x \in E
    <2>1. PICK i \in 1..m : t[i].rank = Crit /\ x = t[i].name
        BY <1>13
    <2>2. i + n \in 1..n + m /\ u[i + n] = t[i]
        BY <1>8, <1>10, <1>12
    <2> QED
        BY <2>1, <2>2
<1>17. ASSUME NEW x \in E PROVE x \in C \cup D
    <2>1. PICK i \in 1..n + m : u[i].rank = Crit /\ x = u[i].name
        OBVIOUS
    <2>2. CASE i \in 1..n
        BY <1>7, <1>13, <2>1, <2>2
    <2>3. CASE i \in n + 1..n + m
        BY <1>8, <1>13, <2>1, <2>3
    <2> QED
        BY <1>9, <2>2, <2>3
<1>18. C \cup D = E
    BY <1>15, <1>16, <1>17
<1> QED
    BY <1>6, <1>14, <1>18 DEF Lists, R, u

\* The checks of a rank are those of that rank, in their order.
LEMMA OfRankIs ==
    ASSUME NEW S, NEW s \in Seq(S), NEW r
    PROVE  LET q == OfRank(s, r)
           IN /\ q \in Seq(S)
              /\ \A n \in 1..Len(q) : q[n].rank = r /\ \E i \in 1..Len(s) : q[n] = s[i]
              /\ \A i \in 1..Len(s) : s[i].rank = r => \E n \in 1..Len(q) : q[n] = s[i]
              /\ \A n, k \in 1..Len(q) : n # k => \E i, j \in 1..Len(s) : i # j /\ q[n] = s[i] /\ q[k] = s[j]
<1> DEFINE P == {i \in DOMAIN s : s[i].rank = r}
           p == InOrder(P)
           q == [n \in DOMAIN p |-> s[p[n]]]
           card == Cardinality(P)
<1>1. DOMAIN s = 1..Len(s) /\ Len(s) \in Nat
    OBVIOUS
<1>2. IsFiniteSet(1..Len(s))
    BY <1>1, FS_Interval
<1>3. P \in SUBSET (1..Len(s)) /\ P \in SUBSET Nat
    BY <1>1
<1>4. IsFiniteSet(P) /\ card \in Nat
    BY <1>2, <1>3, FS_Subset, FS_CardinalityType
<1>4a. \A i \in P : i \in 1..Len(s) /\ s[i].rank = r /\ s[i] \in S
    BY <1>1
<1>4b. \A i \in 1..Len(s) : s[i].rank = r => i \in P
    BY <1>1
<1>5. OfRank(s, r) = q
    BY DEF OfRank
<1> HIDE DEF P
<1>6. /\ p \in Seq(P) /\ Len(p) = card
      /\ \A i \in P : \E n \in 1..card : p[n] = i
      /\ \A n, k \in 1..card : p[n] = p[k] => n = k
    <2>1. p \in Seq(P) /\ Len(p) = card
        BY <1>3, <1>4, InOrderIs
    <2>2. /\ \A i \in P : \E n \in 1..Len(p) : p[n] = i
          /\ \A n, k \in 1..Len(p) : p[n] = p[k] => n = k
        BY <1>3, <1>4, PlacesIs
    <2> QED
        BY <2>1, <2>2
<1> HIDE DEF p
<1>7. DOMAIN p = 1..card /\ \A n \in 1..card : p[n] \in P
    BY <1>6
<1>8. \A n \in 1..card : q[n] = s[p[n]] /\ p[n] \in P
    BY <1>7
<1>9. q \in Seq(S) /\ Len(q) = card
    BY <1>4, <1>4a, <1>7, IsASeq
<1>10. \A n, k \in 1..card : n # k => p[n] # p[k]
    BY <1>6
<1> HIDE DEF q
<1>11. \A n \in 1..card : q[n].rank = r /\ \E i \in 1..Len(s) : q[n] = s[i]
    BY <1>8, <1>4a
<1>12. \A i \in 1..Len(s) : s[i].rank = r => \E n \in 1..card : q[n] = s[i]
    BY <1>4b, <1>6, <1>8
<1>13. \A n, k \in 1..card : n # k => \E i, j \in 1..Len(s) : i # j /\ q[n] = s[i] /\ q[k] = s[j]
    BY <1>4a, <1>8, <1>10
<1> QED
    BY <1>5, <1>9, <1>11, <1>12, <1>13

\* Three sequences put end to end.
LEMMA FlattenThree ==
    ASSUME NEW S, NEW seqs \in Seq(Seq(S)), Len(seqs) = 3
    PROVE  FlattenSeq(seqs) = (seqs[1] \o seqs[2]) \o seqs[3]
<1>1. PICK f \in [0..Len(seqs) -> Seq(S)] :
               /\ f[0] = <<>>
               /\ \A i \in 1..Len(seqs) : f[i] = f[i - 1] \o seqs[i]
               /\ FlattenSeq(seqs) = f[Len(seqs)]
    BY FlattenIs
<1>2. /\ 1 \in 1..Len(seqs) /\ 2 \in 1..Len(seqs) /\ 3 \in 1..Len(seqs)
      /\ 1 - 1 = 0 /\ 2 - 1 = 1 /\ 3 - 1 = 2
    OBVIOUS
<1>3. seqs[1] \in Seq(S)
    <2> DEFINE A == Seq(S)
    <2>1. seqs \in Seq(A)
        OBVIOUS
    <2> HIDE DEF A
    <2>2. seqs[1] \in A
        BY <1>2, <2>1, ElementOfSeq
    <2> QED
        BY <2>2 DEF A
<1>4. <<>> \o seqs[1] = seqs[1]
    BY <1>3
<1>5. f[1] = f[0] \o seqs[1]
    BY <1>1, <1>2
<1>6. f[2] = f[1] \o seqs[2]
    BY <1>1, <1>2
<1>7. f[3] = f[2] \o seqs[3]
    BY <1>1, <1>2
<1> QED
    BY <1>1, <1>4, <1>5, <1>6, <1>7

\* The page of some checks: those that are critical come first, and are all of them.
LEMMA PageOf ==
    ASSUME NEW K, NEW all, NEW C, Lists(all, K, C)
    PROVE  LET page == FlattenSeq([n \in 1..3 |-> OfRank(all, <<Crit, Warn, Ok>>[n])])
               k == Len(OfRank(page, Crit))
           IN /\ (k > 0) = (C # {})
              /\ k = Cardinality(C)
              /\ {page[i].name : i \in 1..k} = C
              /\ Cardinality({page[i].name : i \in DOMAIN page}) = Len(page)
              /\ \A i, j \in DOMAIN page : i < j => page[i].rank >= page[j].rank
<1> DEFINE R == [name : NamesOf(K), rank : {Ok, Warn, Crit}]
           a == OfRank(all, Crit)
           b == OfRank(all, Warn)
           c == OfRank(all, Ok)
           page == (a \o b) \o c
           Da == 1..Len(a)
           Db == Len(a) + 1..Len(a) + Len(b)
           Dc == Len(a) + Len(b) + 1..Len(a) + Len(b) + Len(c)
<1>1. /\ all \in Seq(R)
      /\ \A i, j \in 1..Len(all) : all[i].name = all[j].name => i = j
      /\ C = {all[i].name : i \in {j \in 1..Len(all) : all[j].rank = Crit}}
    BY DEF Lists
<1> DEFINE OfIt(q, r) ==
              /\ q \in Seq(R)
              /\ \A n \in 1..Len(q) : q[n].rank = r /\ \E i \in 1..Len(all) : q[n] = all[i]
              /\ \A i \in 1..Len(all) : all[i].rank = r => \E n \in 1..Len(q) : q[n] = all[i]
              /\ \A n, k \in 1..Len(q) : n # k => \E i, j \in 1..Len(all) : i # j /\ q[n] = all[i] /\ q[k] = all[j]
<1>2. OfIt(a, Crit) /\ OfIt(b, Warn) /\ OfIt(c, Ok)
    <2>1. \A r : OfIt(OfRank(all, r), r)
        <3> TAKE r
        <3> DEFINE q == OfRank(all, r)
        <3>1. all \in Seq(R)
            BY <1>1
        <3> HIDE DEF R
        <3>2. q \in Seq(R)
            BY ONLY <3>1, OfRankIs
        <3>3. \A n \in 1..Len(q) : q[n].rank = r /\ \E i \in 1..Len(all) : q[n] = all[i]
            BY ONLY <3>1, OfRankIs
        <3>4. \A i \in 1..Len(all) : all[i].rank = r => \E n \in 1..Len(q) : q[n] = all[i]
            BY ONLY <3>1, OfRankIs
        <3>5. \A n, k \in 1..Len(q) : n # k => \E i, j \in 1..Len(all) : i # j /\ q[n] = all[i] /\ q[k] = all[j]
            BY ONLY <3>1, OfRankIs
        <3> HIDE DEF q
        <3>6. OfIt(q, r)
            BY <3>2, <3>3, <3>4, <3>5
        <3> HIDE DEF OfIt
        <3> QED
            BY <3>6 DEF q
    <2> HIDE DEF OfIt
    <2> QED
        BY <2>1
<1>3. FlattenSeq([n \in 1..3 |-> OfRank(all, <<Crit, Warn, Ok>>[n])]) = page
    <2> DEFINE three == [n \in 1..3 |-> OfRank(all, <<Crit, Warn, Ok>>[n])]
    <2>1. three = <<a, b, c>>
        OBVIOUS
    <2> HIDE DEF a, b, c, R
    <2>2. a \in Seq(R) /\ b \in Seq(R) /\ c \in Seq(R)
        BY <1>2
    <2> HIDE DEF three
    <2>3. three \in Seq(Seq(R)) /\ Len(three) = 3 /\ three[1] = a /\ three[2] = b /\ three[3] = c
        BY <2>1, <2>2
    <2>4. FlattenSeq(three) = (three[1] \o three[2]) \o three[3]
        BY <2>3, FlattenThree
    <2> QED
        BY <2>3, <2>4 DEF three
<1> HIDE DEF a, b, c
<1>4. \A e \in R : e.name \in NamesOf(K)
    OBVIOUS
<1> HIDE DEF R
<1>5. /\ Len(a) \in Nat /\ Len(b) \in Nat /\ Len(c) \in Nat
      /\ page \in Seq(R) /\ Len(page) = Len(a) + Len(b) + Len(c) /\ DOMAIN page = 1..Len(page)
    BY <1>2
<1>6. /\ \A i \in Da : page[i] = a[i]
      /\ \A i \in Db : page[i] = b[i - Len(a)] /\ i - Len(a) \in 1..Len(b)
      /\ \A i \in Dc : page[i] = c[i - Len(a) - Len(b)] /\ i - Len(a) - Len(b) \in 1..Len(c)
    <2>1. a \o b \in Seq(R) /\ Len(a \o b) = Len(a) + Len(b)
        BY <1>2
    <2>2. \A i \in 1..Len(a) + Len(b) : page[i] = (a \o b)[i]
        BY <1>2, <1>5, <2>1
    <2>3. \A i \in Da : i \in 1..Len(a) + Len(b) /\ (a \o b)[i] = a[i]
        BY <1>2, <1>5
    <2>4. \A i \in Db : i \in 1..Len(a) + Len(b) /\ (a \o b)[i] = b[i - Len(a)] /\ i - Len(a) \in 1..Len(b)
        BY <1>2, <1>5
    <2>5. \A i \in Dc : page[i] = c[i - Len(a) - Len(b)] /\ i - Len(a) - Len(b) \in 1..Len(c)
        BY <1>2, <1>5, <2>1
    <2> QED
        BY <2>2, <2>3, <2>4, <2>5
<1> HIDE DEF page
<1>7. /\ \A i \in Da : page[i].rank = Crit
      /\ \A i \in Db : page[i].rank = Warn
      /\ \A i \in Dc : page[i].rank = Ok
    <2>1. /\ \A n \in 1..Len(a) : a[n].rank = Crit
          /\ \A n \in 1..Len(b) : b[n].rank = Warn
          /\ \A n \in 1..Len(c) : c[n].rank = Ok
        BY <1>2
    <2>2. \A i \in Da : page[i].rank = Crit
        BY <1>6, <2>1
    <2>3. \A i \in Db : page[i].rank = Warn
        BY <1>6, <2>1
    <2>4. \A i \in Dc : page[i].rank = Ok
        BY <1>6, <2>1
    <2> QED
        BY <2>2, <2>3, <2>4
<1>8. \A i \in 1..Len(page) : i \in Da \/ i \in Db \/ i \in Dc
    BY <1>5
<1>9. Crit # Warn /\ Crit # Ok /\ Warn # Ok
    BY DEF Crit, Warn, Ok
\* Each comes from a place of its own.
<1>10. ASSUME NEW i \in 1..Len(page), NEW j \in 1..Len(page), i # j
       PROVE  page[i].name # page[j].name
    <2>1. ASSUME NEW q, NEW r, OfIt(q, r), NEW n \in 1..Len(q), NEW k \in 1..Len(q), n # k
          PROVE  q[n].name # q[k].name
        <3>1. PICK x \in 1..Len(all), y \in 1..Len(all) : x # y /\ q[n] = all[x] /\ q[k] = all[y]
            BY <2>1
        <3>2. all[x].name # all[y].name
            BY <1>1, <3>1
        <3> QED
            BY <3>1, <3>2
    <2>2. \A e \in 1..Len(page) : \E x \in 1..Len(all) : page[e] = all[x]
        <3> SUFFICES ASSUME NEW e \in 1..Len(page) PROVE \E x \in 1..Len(all) : page[e] = all[x]
            OBVIOUS
        <3>0. /\ \A n \in 1..Len(a) : \E z \in 1..Len(all) : a[n] = all[z]
              /\ \A n \in 1..Len(b) : \E z \in 1..Len(all) : b[n] = all[z]
              /\ \A n \in 1..Len(c) : \E z \in 1..Len(all) : c[n] = all[z]
            BY <1>2
        <3>1. CASE e \in Da
            BY <3>0, <3>1, <1>6
        <3>2. CASE e \in Db
            <4>1. page[e] = b[e - Len(a)] /\ e - Len(a) \in 1..Len(b)
                BY <3>2, <1>6
            <4> QED
                BY <3>0, <4>1
        <3>3. CASE e \in Dc
            <4>1. page[e] = c[e - Len(a) - Len(b)] /\ e - Len(a) - Len(b) \in 1..Len(c)
                BY <3>3, <1>6
            <4> QED
                BY <3>0, <4>1
        <3> QED
            BY <1>8, <3>1, <3>2, <3>3
    <2>2a. \A q, r : OfIt(q, r) => \A n, k \in 1..Len(q) : n # k => q[n].name # q[k].name
        <3> HIDE DEF OfIt
        <3> QED
            BY <2>1
    <2>2b. /\ \A n, k \in 1..Len(a) : n # k => a[n].name # a[k].name
           /\ \A n, k \in 1..Len(b) : n # k => b[n].name # b[k].name
           /\ \A n, k \in 1..Len(c) : n # k => c[n].name # c[k].name
        <3> HIDE DEF OfIt
        <3> QED
            BY <1>2, <2>2a
    <2>3. CASE page[i].rank # page[j].rank
        <3>1. PICK x \in 1..Len(all) : page[i] = all[x]
            BY <2>2
        <3>2. PICK y \in 1..Len(all) : page[j] = all[y]
            BY <2>2
        <3> QED
            BY <1>1, <2>3, <3>1, <3>2
    <2>4. CASE i \in Da /\ j \in Da
        <3>1. a[i].name # a[j].name
            BY <1>10, <2>2b, <2>4
        <3> QED
            BY <1>6, <2>4, <3>1
    <2>5. CASE i \in Db /\ j \in Db
        <3>1. i - Len(a) # j - Len(a) /\ i - Len(a) \in 1..Len(b) /\ j - Len(a) \in 1..Len(b)
            BY <1>5, <1>6, <1>10, <2>5
        <3>2. b[i - Len(a)].name # b[j - Len(a)].name
            BY <2>2b, <3>1
        <3> QED
            BY <1>6, <2>5, <3>2
    <2>6. CASE i \in Dc /\ j \in Dc
        <3>0. i \in Int /\ j \in Int
            OBVIOUS
        <3>1. /\ i - Len(a) - Len(b) # j - Len(a) - Len(b)
              /\ i - Len(a) - Len(b) \in 1..Len(c) /\ j - Len(a) - Len(b) \in 1..Len(c)
            BY <1>5, <1>6, <1>10, <2>6, <3>0
        <3>2. c[i - Len(a) - Len(b)].name # c[j - Len(a) - Len(b)].name
            BY <2>2b, <3>1
        <3> QED
            BY <1>6, <2>6, <3>2
    <2> QED
        BY <1>7, <1>8, <1>9, <2>3, <2>4, <2>5, <2>6
\* Names are as many as places.
<1>11. ASSUME NEW n \in Nat, n <= Len(page)
       PROVE  Cardinality({page[i].name : i \in 1..n}) = n
    <2> DEFINE N == {page[i].name : i \in 1..n}
               g == [i \in 1..n |-> page[i].name]
    <2>0. \A i \in 1..n : i \in 1..Len(page)
        BY <1>5, <1>11
    <2>1. g \in [1..n -> N] /\ (\A i, j \in 1..n : g[i] = g[j] => i = j) /\ \A x \in N : \E i \in 1..n : g[i] = x
        BY <2>0, <1>10
    <2> HIDE DEF g, N
    <2>2. g \in Bijection(1..n, N)
        BY <2>1 DEF Bijection, Injection, Surjection, IsInjective
    <2>3. IsFiniteSet(1..n) /\ Cardinality(1..n) = n
        BY FS_Interval
    <2>4. Cardinality(N) = n
        BY <2>2, <2>3, FS_Bijection DEF ExistsBijection
    <2> QED
        BY <2>4 DEF N
\* What is critical comes first.
<1>12. {page[i].name : i \in Da} = C
    <2>1. ASSUME NEW i \in Da PROVE page[i].name \in C
        <3>1. PICK x \in 1..Len(all) : a[i] = all[x]
            BY <1>2
        <3>2. all[x].rank = Crit
            BY <1>2, <3>1
        <3> QED
            BY <1>1, <1>6, <3>1, <3>2
    <2>2. ASSUME NEW x \in 1..Len(all), all[x].rank = Crit PROVE \E i \in Da : page[i].name = all[x].name
        <3>1. PICK i \in 1..Len(a) : a[i] = all[x]
            BY <1>2, <2>2
        <3> QED
            BY <1>6, <3>1
    <2> QED
        BY <1>1, <2>1, <2>2
<1>13. Len(OfRank(page, Crit)) = Len(a)
    <2> DEFINE P == {i \in DOMAIN page : page[i].rank = Crit}
               p == InOrder(P)
    <2>1. P = 1..Len(a)
        BY <1>5, <1>7, <1>8, <1>9
    <2>2. IsFiniteSet(P) /\ Cardinality(P) = Len(a) /\ P \in SUBSET Nat
        <3>1. IsFiniteSet(1..Len(a)) /\ Cardinality(1..Len(a)) = Len(a)
            <4> DEFINE n == Len(a)
            <4>1. n \in Nat
                BY <1>5
            <4> HIDE DEF n
            <4>2. IsFiniteSet(1..n) /\ Cardinality(1..n) = n
                BY <4>1, FS_Interval
            <4> QED
                BY <4>2 DEF n
        <3>2. 1..Len(a) \in SUBSET Nat
            BY <1>5
        <3> HIDE DEF P
        <3> QED
            BY <2>1, <3>1, <3>2
    <2>3. OfRank(page, Crit) = [n \in DOMAIN p |-> page[p[n]]]
        BY DEF OfRank
    <2> HIDE DEF P
    <2>4. p \in Seq(P) /\ Len(p) = Len(a)
        BY <2>2, InOrderIs
    <2> HIDE DEF p
    <2>5. DOMAIN p = 1..Len(a)
        BY <2>4
    <2>6. \A n \in 1..Len(a) : page[p[n]] \in R
        <3>1. \A n \in 1..Len(a) : p[n] \in P
            BY <2>4, <2>5
        <3>2. \A n \in 1..Len(a) : p[n] \in 1..Len(page)
            BY <1>5, <2>1, <3>1
        <3> QED
            BY <1>5, <3>2
    <2> QED
        BY <1>5, <2>3, <2>5, <2>6, IsASeq
<1>14. Cardinality(C) = Len(a)
    <2>1. Len(a) <= Len(page)
        BY <1>5
    <2> QED
        BY <1>5, <1>11, <1>12, <2>1
<1>15. (Len(a) > 0) = (C # {})
    <2>1. CASE Len(a) > 0
        <3>1. 1 \in Da
            BY <1>5, <2>1
        <3> QED
            BY <1>12, <2>1, <3>1
    <2>2. CASE ~(Len(a) > 0)
        <3>1. Da = {}
            BY <1>5, <2>2
        <3> QED
            BY <1>12, <2>2, <3>1
    <2> QED
        BY <2>1, <2>2
<1>16. Cardinality({page[i].name : i \in DOMAIN page}) = Len(page)
    <2>1. Len(page) \in Nat /\ Len(page) <= Len(page)
        BY <1>5
    <2> QED
        BY <1>5, <1>11, <2>1
<1>17. ASSUME NEW i \in DOMAIN page, NEW j \in DOMAIN page, i < j PROVE page[i].rank >= page[j].rank
    <2>0. i \in 1..Len(page) /\ j \in 1..Len(page)
        BY <1>5
    <2>1. /\ i \in Db => j \notin Da
          /\ i \in Dc => j \notin Da /\ j \notin Db
        BY <1>5, <1>17, <2>0
    <2> QED
        BY <1>7, <1>8, <2>0, <2>1 DEF Ok, Warn, Crit
<1> QED
    BY <1>3, <1>12, <1>13, <1>14, <1>15, <1>16, <1>17

\* Eight sequences put end to end.
LEMMA FlattenEight ==
    ASSUME NEW S, NEW seqs \in Seq(Seq(S)), Len(seqs) = 8
    PROVE  FlattenSeq(seqs) =
               ((((((seqs[1] \o seqs[2]) \o seqs[3]) \o seqs[4]) \o seqs[5]) \o seqs[6]) \o seqs[7]) \o seqs[8]
<1>1. PICK f \in [0..Len(seqs) -> Seq(S)] :
               /\ f[0] = <<>>
               /\ \A i \in 1..Len(seqs) : f[i] = f[i - 1] \o seqs[i]
               /\ FlattenSeq(seqs) = f[Len(seqs)]
    BY FlattenIs
<1>2. \A i \in {1, 2, 3, 4, 5, 6, 7, 8} : i \in 1..Len(seqs)
    OBVIOUS
<1>3. 1 - 1 = 0 /\ 2 - 1 = 1 /\ 3 - 1 = 2 /\ 4 - 1 = 3 /\ 5 - 1 = 4 /\ 6 - 1 = 5 /\ 7 - 1 = 6 /\ 8 - 1 = 7
    OBVIOUS
<1>4. \A i \in {1, 2, 3, 4, 5, 6, 7, 8} : f[i] = f[i - 1] \o seqs[i]
    BY <1>1, <1>2
<1>5. seqs[1] \in Seq(S)
    <2> DEFINE A == Seq(S)
    <2>1. seqs \in Seq(A)
        OBVIOUS
    <2> HIDE DEF A
    <2>2. seqs[1] \in A
        BY <1>2, <2>1, ElementOfSeq
    <2> QED
        BY <2>2 DEF A
<1>6. <<>> \o seqs[1] = seqs[1]
    BY <1>5
<1>7. f[1] = seqs[1]
    BY <1>1, <1>3, <1>4, <1>6
<1>8. f[2] = f[1] \o seqs[2] /\ f[3] = f[2] \o seqs[3] /\ f[4] = f[3] \o seqs[4]
    BY <1>3, <1>4
<1>9. f[5] = f[4] \o seqs[5] /\ f[6] = f[5] \o seqs[6] /\ f[7] = f[6] \o seqs[7] /\ f[8] = f[7] \o seqs[8]
    BY <1>3, <1>4
<1> QED
    BY <1>1, <1>7, <1>8, <1>9

-----------------------------------------------------------------------------
(* The checks of all plugins.                                              *)

\* The checks of a plugin, and what they are about.
KindOf(p) ==
    CASE p = "alert" -> "alerts" [] p = "fs" -> "fs" [] p = "gpu" -> "gpu" [] p = "mem" -> "memory"
      [] p = "raid" -> "raid" [] p = "smart" -> "smart" [] p = "memswap" -> "swap" [] p = "sensors" -> "temperature"

Judged == {"alert", "fs", "mem", "memswap", "gpu", "sensors", "raid", "smart"}

PartOf(s, p) ==
    IF p \notin DOMAIN s THEN <<>>
    ELSE CASE p = "alert" -> AlertChecks(s[p])
           [] p = "fs" -> FsChecks(s[p])
           [] p = "mem" -> PctCheck("memory", s[p], 90, 95)
           [] p = "memswap" -> PctCheck("swap", s[p], 50, 90)
           [] p = "gpu" -> GpuChecks(s[p])
           [] p = "sensors" -> TemperatureCheck(s[p])
           [] p = "raid" -> RaidChecks(s[p])
           [] p = "smart" -> SmartChecks(s[p])

\* When the checks of each plugin are right, so are those of all.
LEMMA ChecksAre ==
    ASSUME NEW s, NEW crit, \A p \in Judged : Lists(PartOf(s, p), {KindOf(p)}, crit[p])
    PROVE  \E all :
               /\ Lists(all, {"alerts", "fs", "gpu", "memory", "raid", "smart", "swap", "temperature"},
                        UNION {crit[p] : p \in Judged})
               /\ ChecksOf(s) = FlattenSeq([n \in 1..3 |-> OfRank(all, <<Crit, Warn, Ok>>[n])])
<1> DEFINE a1 == PartOf(s, "alert")
           a2 == PartOf(s, "fs")
           a3 == PartOf(s, "gpu")
           a4 == PartOf(s, "mem")
           a5 == PartOf(s, "raid")
           a6 == PartOf(s, "smart")
           a7 == PartOf(s, "memswap")
           a8 == PartOf(s, "sensors")
           c(p) == crit[p]
           all == ((((((a1 \o a2) \o a3) \o a4) \o a5) \o a6) \o a7) \o a8
           parts == [p \in Judged |-> PartOf(s, p)]
           inOrder == FlattenSeq([n \in 1..8 |->
               parts[<<"alert", "fs", "gpu", "mem", "raid", "smart", "memswap", "sensors">>[n]]])
<1>1. /\ Lists(a1, {"alerts"}, c("alert")) /\ Lists(a2, {"fs"}, c("fs")) /\ Lists(a3, {"gpu"}, c("gpu"))
      /\ Lists(a4, {"memory"}, c("mem")) /\ Lists(a5, {"raid"}, c("raid")) /\ Lists(a6, {"smart"}, c("smart"))
      /\ Lists(a7, {"swap"}, c("memswap")) /\ Lists(a8, {"temperature"}, c("sensors"))
    <2>1. /\ KindOf("alert") = "alerts" /\ KindOf("fs") = "fs" /\ KindOf("gpu") = "gpu" /\ KindOf("mem") = "memory"
          /\ KindOf("raid") = "raid" /\ KindOf("smart") = "smart" /\ KindOf("memswap") = "swap"
          /\ KindOf("sensors") = "temperature"
        BY DEF KindOf
    <2>2. {"alert", "fs", "gpu", "mem", "raid", "smart", "memswap", "sensors"} \subseteq Judged
        BY DEF Judged
    <2> HIDE DEF a1, a2, a3, a4, a5, a6, a7, a8
    <2>3. Lists(a1, {"alerts"}, c("alert")) /\ Lists(a2, {"fs"}, c("fs"))
        BY <2>1, <2>2 DEF a1, a2
    <2>4. Lists(a3, {"gpu"}, c("gpu")) /\ Lists(a4, {"memory"}, c("mem"))
        BY <2>1, <2>2 DEF a3, a4
    <2>5. Lists(a5, {"raid"}, c("raid")) /\ Lists(a6, {"smart"}, c("smart"))
        BY <2>1, <2>2 DEF a5, a6
    <2>6. Lists(a7, {"swap"}, c("memswap")) /\ Lists(a8, {"temperature"}, c("sensors"))
        BY <2>1, <2>2 DEF a7, a8
    <2> QED
        BY <2>3, <2>4, <2>5, <2>6
<1>2. ChecksOf(s) = FlattenSeq([n \in 1..3 |-> OfRank(inOrder, <<Crit, Warn, Ok>>[n])])
    BY DEF ChecksOf, PartOf, Judged
<1> DEFINE T == [name : NamesOf({"alerts", "fs", "gpu", "memory", "raid", "smart", "swap", "temperature"}),
                 rank : {Ok, Warn, Crit}]
           eight == [n \in 1..8 |->
               parts[<<"alert", "fs", "gpu", "mem", "raid", "smart", "memswap", "sensors">>[n]]]
<1>3. inOrder = all
    <2>0. eight = <<a1, a2, a3, a4, a5, a6, a7, a8>>
        BY DEF Judged
    <2>1. /\ a1 \in Seq(T) /\ a2 \in Seq(T) /\ a3 \in Seq(T) /\ a4 \in Seq(T)
          /\ a5 \in Seq(T) /\ a6 \in Seq(T) /\ a7 \in Seq(T) /\ a8 \in Seq(T)
        <3>1. ASSUME NEW k \in {"alerts", "fs", "gpu", "memory", "raid", "smart", "swap", "temperature"},
                     NEW q, NEW C, Lists(q, {k}, C)
              PROVE  q \in Seq(T)
            <4> DEFINE U == [name : NamesOf({k}), rank : {Ok, Warn, Crit}]
            <4>1. U \subseteq T
                BY DEF NamesOf
            <4>2. q \in Seq(U)
                BY <3>1 DEF Lists
            <4> HIDE DEF U, T
            <4> QED
                BY <4>1, <4>2
        <3> HIDE DEF T, a1, a2, a3, a4, a5, a6, a7, a8
        <3>2. \A k \in {"alerts", "fs", "gpu", "memory", "raid", "smart", "swap", "temperature"} :
                  \A q, C : Lists(q, {k}, C) => q \in Seq(T)
            BY <3>1
        <3> QED
            BY <1>1, <3>2
    <2> HIDE DEF a1, a2, a3, a4, a5, a6, a7, a8, eight, T
    <2>2. /\ eight \in Seq(Seq(T)) /\ Len(eight) = 8
          /\ eight[1] = a1 /\ eight[2] = a2 /\ eight[3] = a3 /\ eight[4] = a4
          /\ eight[5] = a5 /\ eight[6] = a6 /\ eight[7] = a7 /\ eight[8] = a8
        BY <2>0, <2>1
    <2>3. FlattenSeq(eight) =
              ((((((eight[1] \o eight[2]) \o eight[3]) \o eight[4]) \o eight[5]) \o eight[6]) \o eight[7]) \o eight[8]
        BY <2>2, FlattenEight
    <2> QED
        BY <2>2, <2>3 DEF eight
<1> HIDE DEF a1, a2, a3, a4, a5, a6, a7, a8, c
<1>4. \A K, L : K \cap L = {} =>
          \A q, t, C, D : Lists(q, K, C) /\ Lists(t, L, D) => Lists(q \o t, K \cup L, C \cup D)
    BY ListsBoth
<1> DEFINE s2 == a1 \o a2
           s3 == s2 \o a3
           s4 == s3 \o a4
           s5 == s4 \o a5
           s6 == s5 \o a6
           s7 == s6 \o a7
           K2 == {"alerts"} \cup {"fs"}
           K3 == K2 \cup {"gpu"}
           K4 == K3 \cup {"memory"}
           K5 == K4 \cup {"raid"}
           K6 == K5 \cup {"smart"}
           K7 == K6 \cup {"swap"}
           K8 == K7 \cup {"temperature"}
           C2 == c("alert") \cup c("fs")
           C3 == C2 \cup c("gpu")
           C4 == C3 \cup c("mem")
           C5 == C4 \cup c("raid")
           C6 == C5 \cup c("smart")
           C7 == C6 \cup c("memswap")
           C8 == C7 \cup c("sensors")
<1>5. /\ {"alerts"} \cap {"fs"} = {} /\ K2 \cap {"gpu"} = {} /\ K3 \cap {"memory"} = {} /\ K4 \cap {"raid"} = {}
      /\ K5 \cap {"smart"} = {} /\ K6 \cap {"swap"} = {} /\ K7 \cap {"temperature"} = {}
      /\ K8 = {"alerts", "fs", "gpu", "memory", "raid", "smart", "swap", "temperature"}
    OBVIOUS
<1>6. UNION {crit[p] : p \in Judged} = C8
    BY DEF Judged, c
<1>7. all = s7 \o a8
    OBVIOUS
<1> HIDE DEF all
<1>8. Lists(s2, K2, C2)
    BY <1>1, <1>4, <1>5
<1> HIDE DEF K2, C2, s2
<1>9. Lists(s3, K3, C3)
    BY <1>1, <1>4, <1>5, <1>8
<1> HIDE DEF K3, C3, s3
<1>10. Lists(s4, K4, C4)
    BY <1>1, <1>4, <1>5, <1>9
<1> HIDE DEF K4, C4, s4
<1>11. Lists(s5, K5, C5)
    BY <1>1, <1>4, <1>5, <1>10
<1> HIDE DEF K5, C5, s5
<1>12. Lists(s6, K6, C6)
    BY <1>1, <1>4, <1>5, <1>11
<1> HIDE DEF K6, C6, s6
<1>13. Lists(s7, K7, C7)
    BY <1>1, <1>4, <1>5, <1>12
<1> HIDE DEF K7, C7, s7
<1>14. Lists(s7 \o a8, K8, C8)
    BY <1>1, <1>4, <1>5, <1>13
<1> HIDE DEF K8, C8
<1>15. Lists(all, {"alerts", "fs", "gpu", "memory", "raid", "smart", "swap", "temperature"}, UNION {crit[p] : p \in Judged})
    BY <1>5, <1>6, <1>7, <1>14
<1> QED
    BY <1>2, <1>3, <1>15 DEF all

\* What a sequence of checks lists.
LEMMA ListsIs ==
    ASSUME NEW K, NEW n \in Nat, NEW checks, NEW C,
           checks \in Seq([name : NamesOf(K), rank : {Ok, Warn, Crit}]), Len(checks) = n,
           \A i, j \in 1..n : checks[i].name = checks[j].name => i = j,
           \A i \in 1..n : checks[i].rank = Crit => checks[i].name \in C,
           \A x \in C : \E i \in 1..n : checks[i].rank = Crit /\ checks[i].name = x
    PROVE  Lists(checks, K, C)
BY DEF Lists

-----------------------------------------------------------------------------
(* Alerts, percents and temperatures.                                      *)

\* A share as so much of a hundred.
LEMMA BandIs ==
    ASSUME NEW v \in Int, NEW warn \in Int, NEW crit \in Int
    PROVE  /\ Band(ShareOf(v, 100), warn, crit) \in {Ok, Warn, Crit}
           /\ Band(ShareOf(v, 100), warn, crit) = Crit <=> v >= crit
<1>1. ShareOf(v, 100).n = v /\ ShareOf(v, 100).of = 100
    BY DEF ShareOf
<1>2. v * 100 >= crit * 100 <=> v >= crit
    OBVIOUS
<1> QED
    BY <1>1, <1>2 DEF Band, Ok, Warn, Crit

\* One check for the alerts: critical with a critical one of the last minute, or of unknown age.
LEMMA AlertsAre ==
    ASSUME NEW alerts \in Seq(Alert)
    PROVE  Lists(AlertChecks(alerts), {"alerts"}, CriticalOf("alert", alerts))
<1> DEFINE words == {alerts[i].word : i \in {j \in DOMAIN alerts : alerts[j].age = Unknown \/ alerts[j].age <= 60}}
           rank == IF "CRITICAL" \in words THEN Crit ELSE IF words \cap {"WARNING", "CAREFUL"} # {} THEN Warn ELSE Ok
           C == CriticalOf("alert", alerts)
           checks == <<Check(<<"alerts">>, rank)>>
<1>1. AlertChecks(alerts) = checks
    BY DEF AlertChecks
<1>2. \A i \in DOMAIN alerts : alerts[i].age \in Figure
    <2>1. \A i \in DOMAIN alerts : alerts[i] \in Alert
        OBVIOUS
    <2>2. \A e \in Alert : e.age \in Figure
        BY DEF Alert
    <2> QED
        BY <2>1, <2>2
<1>3. \A i \in DOMAIN alerts : (alerts[i].age = Unknown \/ alerts[i].age <= 60) <=> ~Over(alerts[i].age, 61)
    <2>1. \A v \in Figure : (v = Unknown \/ v <= 60) <=> ~Over(v, 61)
        <3> SUFFICES ASSUME NEW v \in Figure, v # Unknown PROVE v <= 60 <=> ~(v >= 61)
            BY DEF Over
        <3>1. v \in Int
            BY DEF Figure
        <3> QED
            BY <3>1
    <2> QED
        BY <1>2, <2>1
<1>4. "CRITICAL" \in words <=> \E i \in DOMAIN alerts : alerts[i].word = "CRITICAL" /\ ~Over(alerts[i].age, 61)
    BY <1>3
<1>5. C = {<<"alerts">> : i \in {j \in DOMAIN alerts : /\ alerts[j].word = "CRITICAL"
                                                       /\ ~Over(alerts[j].age, 61)}}
    BY DEF CriticalOf
<1>6. rank = Crit <=> "CRITICAL" \in words
    BY DEF Crit, Warn, Ok
<1>7. rank \in {Ok, Warn, Crit}
    OBVIOUS
<1>8. \A x : x \in C <=> x = <<"alerts">> /\ rank = Crit
    BY <1>4, <1>5, <1>6
<1> HIDE DEF rank, C, words
<1>9. /\ checks \in Seq([name : NamesOf({"alerts"}), rank : {Ok, Warn, Crit}]) /\ Len(checks) = 1
      /\ checks[1].name = <<"alerts">> /\ checks[1].rank = rank
    BY <1>7 DEF Check, NamesOf
<1>10. 1..1 = {1}
    OBVIOUS
<1> HIDE DEF checks
<1>11. Lists(checks, {"alerts"}, C)
    BY <1>8, <1>9, <1>10, ListsIs
<1> QED
    BY <1>1, <1>11 DEF C

\* A check of a percent, if there is one.
LEMMA PctIs ==
    ASSUME NEW kind, NEW percent \in Figure, NEW warn \in Int, NEW crit \in Int
    PROVE  Lists(PctCheck(kind, percent, warn, crit), {kind}, {<<kind>> : v \in {w \in {percent} : Over(w, crit)}})
<1> DEFINE rank == Band(ShareOf(percent, 100), warn, crit)
           C == {<<kind>> : v \in {w \in {percent} : Over(w, crit)}}
           checks == <<Check(<<kind>>, rank)>>
<1>1. CASE percent = Unknown
    <2>1. PctCheck(kind, percent, warn, crit) = <<>> /\ C = {}
        BY <1>1 DEF PctCheck, Over
    <2> QED
        BY <2>1, ListsNone
<1>2. CASE percent # Unknown
    <2>1. PctCheck(kind, percent, warn, crit) = checks
        BY <1>2 DEF PctCheck
    <2>2. percent \in Int
        BY <1>2 DEF Figure
    <2>3. rank \in {Ok, Warn, Crit} /\ (rank = Crit <=> percent >= crit)
        BY <2>2, BandIs
    <2>4. \A x : x \in C <=> x = <<kind>> /\ rank = Crit
        BY <1>2, <2>3 DEF Over
    <2> HIDE DEF rank, C
    <2>5. /\ checks \in Seq([name : NamesOf({kind}), rank : {Ok, Warn, Crit}]) /\ Len(checks) = 1
          /\ checks[1].name = <<kind>> /\ checks[1].rank = rank
        BY <2>3 DEF Check, NamesOf
    <2>6. 1..1 = {1}
        OBVIOUS
    <2> HIDE DEF checks
    <2>7. Lists(checks, {kind}, C)
        BY <2>4, <2>5, <2>6, ListsIs
    <2> QED
        BY <2>1, <2>7 DEF C
<1> QED
    BY <1>1, <1>2

\* One check for the hottest of the sensors that tell a temperature.
LEMMA TemperatureIs ==
    ASSUME NEW sensors \in Seq(Sensor)
    PROVE  Lists(TemperatureCheck(sensors), {"temperature"}, CriticalOf("sensors", sensors))
<1> DEFINE heard == {j \in DOMAIN sensors : sensors[j].kind = "temperature" /\ sensors[j].value # Unknown}
           temps == {sensors[i].value : i \in heard}
           hot == CHOOSE t \in temps : \A u \in temps : t >= u
           rank == Band(ShareOf(hot, 100), 85, 95)
           C == CriticalOf("sensors", sensors)
           checks == <<Check(<<"temperature">>, rank)>>
<1>1. C = {<<"temperature">> : i \in {j \in DOMAIN sensors : /\ sensors[j].kind = "temperature"
                                                             /\ Over(sensors[j].value, 95)}}
    BY DEF CriticalOf
<1>2. \A j \in DOMAIN sensors : sensors[j].value \in Figure
    <2>1. \A j \in DOMAIN sensors : sensors[j] \in Sensor
        OBVIOUS
    <2>2. \A e \in Sensor : e.value \in Figure
        BY DEF Sensor
    <2> QED
        BY <2>1, <2>2
<1>3. temps \subseteq Int
    BY <1>2 DEF Figure
<1>4. IsFiniteSet(temps)
    <2>1. IsFiniteSet(DOMAIN sensors)
        <3> DEFINE n == Len(sensors)
        <3>1. DOMAIN sensors = 1..n /\ n \in Nat
            OBVIOUS
        <3> HIDE DEF n
        <3> QED
            BY <3>1, FS_Interval
    <2>2. IsFiniteSet(heard)
        BY <2>1, FS_Subset
    <2> DEFINE f == [i \in heard |-> sensors[i].value]
    <2>3. f \in Surjection(heard, temps)
        BY DEF Surjection
    <2> HIDE DEF f, heard, temps
    <2> QED
        BY <2>2, <2>3, FS_Surjection
<1>5. \A x : x \in C <=> x = <<"temperature">> /\ \E t \in temps : t >= 95
    BY <1>1 DEF Over
<1>6. TemperatureCheck(sensors) = IF temps = {} THEN <<>> ELSE checks
    BY DEF TemperatureCheck
<1> HIDE DEF temps, heard
<1>7. CASE temps = {}
    <2>1. C = {}
        BY <1>5, <1>7
    <2> QED
        BY <1>6, <1>7, <2>1, ListsNone
<1>8. CASE temps # {}
    <2>1. \E t \in temps : \A u \in temps : u <= t
        BY <1>3, <1>4, <1>8, GreatestInt
    <2>2. \E t \in temps : \A u \in temps : t >= u
        BY <1>3, <2>1
    <2>3. hot \in temps /\ \A u \in temps : hot >= u
        BY <2>2
    <2> HIDE DEF hot
    <2>4. hot \in Int
        BY <1>3, <2>3
    <2>5. rank \in {Ok, Warn, Crit} /\ (rank = Crit <=> hot >= 95)
        BY <2>4, BandIs
    <2>6. (\E t \in temps : t >= 95) <=> hot >= 95
        <3>1. ASSUME NEW t \in temps, t >= 95 PROVE hot >= 95
            <4>1. t \in Int /\ hot >= t
                BY <1>3, <2>3
            <4> QED
                BY <2>4, <3>1, <4>1
        <3> QED
            BY <2>3, <3>1
    <2>7. \A x : x \in C <=> x = <<"temperature">> /\ rank = Crit
        BY <1>5, <2>5, <2>6
    <2> HIDE DEF rank, C
    <2>8. /\ checks \in Seq([name : NamesOf({"temperature"}), rank : {Ok, Warn, Crit}]) /\ Len(checks) = 1
          /\ checks[1].name = <<"temperature">> /\ checks[1].rank = rank
        BY <2>5 DEF Check, NamesOf
    <2>9. 1..1 = {1}
        OBVIOUS
    <2> HIDE DEF checks
    <2>10. Lists(checks, {"temperature"}, C)
        BY <2>7, <2>8, <2>9, ListsIs
    <2> QED
        BY <1>6, <1>8, <2>10 DEF C
<1> QED
    BY <1>7, <1>8

-----------------------------------------------------------------------------
(* Cards and mounts.                                                       *)

\* Checks named by the places of what they are about, of which those of C are critical.
Named(checks, kind, n, place, rank, C) ==
    /\ n \in Nat /\ checks = [k \in 1..n |-> Check(<<kind, place[k]>>, rank[k])]
    /\ \A k \in 1..n : place[k] \in Nat /\ rank[k] \in {Ok, Warn, Crit}
    /\ \A k, l \in 1..n : place[k] = place[l] => k = l
    /\ \A k \in 1..n : rank[k] = Crit => <<kind, place[k]>> \in C
    /\ \A x \in C : \E k \in 1..n : rank[k] = Crit /\ x = <<kind, place[k]>>

\* Such checks list their places.
LEMMA NamedIs ==
    ASSUME NEW kind, NEW n, NEW place, NEW rank, NEW checks, NEW C,
           Named(checks, kind, n, place, rank, C)
    PROVE  Lists(checks, {kind}, C)
<1> DEFINE R == [name : NamesOf({kind}), rank : {Ok, Warn, Crit}]
<1>0. /\ n \in Nat /\ checks = [k \in 1..n |-> Check(<<kind, place[k]>>, rank[k])]
      /\ \A k \in 1..n : place[k] \in Nat /\ rank[k] \in {Ok, Warn, Crit}
      /\ \A k, l \in 1..n : place[k] = place[l] => k = l
      /\ \A k \in 1..n : rank[k] = Crit => <<kind, place[k]>> \in C
      /\ \A x \in C : \E k \in 1..n : rank[k] = Crit /\ x = <<kind, place[k]>>
    BY DEF Named
<1>1. \A k \in 1..n : checks[k].name = <<kind, place[k]>> /\ checks[k].rank = rank[k]
    BY <1>0 DEF Check
<1>2. \A k \in 1..n : Check(<<kind, place[k]>>, rank[k]) \in R
    BY <1>0 DEF Check, NamesOf
<1> HIDE DEF R
<1>3. n \in Nat
    BY <1>0
<1>4. [k \in 1..n |-> Check(<<kind, place[k]>>, rank[k])] \in Seq(R)
    BY <1>2, <1>3, IsASeq
<1>5. checks \in Seq(R) /\ DOMAIN checks = 1..n
    BY <1>0, <1>4
<1>6. Len(checks) = n
    BY <1>3, <1>5
<1>7. \A k, l \in 1..n : checks[k].name = checks[l].name => k = l
    <2>1. \A x, y : <<kind, x>> = <<kind, y>> => x = y
        OBVIOUS
    <2> QED
        BY <1>0, <1>1, <2>1
<1>8. \A k \in 1..n : checks[k].rank = Crit => checks[k].name \in C
    BY <1>0, <1>1
<1>9. \A x \in C : \E k \in 1..n : checks[k].rank = Crit /\ checks[k].name = x
    <2> SUFFICES ASSUME NEW x \in C PROVE \E k \in 1..n : checks[k].rank = Crit /\ checks[k].name = x
        OBVIOUS
    <2>1. PICK k \in 1..n : rank[k] = Crit /\ x = <<kind, place[k]>>
        BY <1>0
    <2> QED
        BY <1>1, <2>1
<1> QED
    BY <1>3, <1>5, <1>6, <1>7, <1>8, <1>9, ListsIs DEF R

\* A check for every card that tells its temperature.
LEMMA GpusAre ==
    ASSUME NEW temps \in Seq(Figure)
    PROVE  Lists(GpuChecks(temps), {"gpu"}, CriticalOf("gpu", temps))
<1> DEFINE S == {i \in DOMAIN temps : temps[i] # Unknown}
           known == InOrder(S)
           n == Len(known)
           rank == [k \in 1..n |-> Band(ShareOf(temps[known[k]], 100), 80, 90)]
           checks == [k \in 1..n |-> Check(<<"gpu", known[k]>>, rank[k])]
           C == CriticalOf("gpu", temps)
<1>1. C = {<<"gpu", i>> : i \in {j \in DOMAIN temps : Over(temps[j], 90)}}
    BY DEF CriticalOf
<1>2. DOMAIN temps \in SUBSET Nat /\ IsFiniteSet(DOMAIN temps) /\ \A i \in DOMAIN temps : temps[i] \in Figure
    <2> DEFINE m == Len(temps)
    <2>1. DOMAIN temps = 1..m /\ m \in Nat /\ \A i \in DOMAIN temps : temps[i] \in Figure
        OBVIOUS
    <2> HIDE DEF m
    <2> QED
        BY <2>1, FS_Interval
<1>3. S \in SUBSET Nat /\ IsFiniteSet(S) /\ (\A i \in S : temps[i] \in Int)
      /\ \A i : i \in S <=> i \in DOMAIN temps /\ temps[i] # Unknown
    BY <1>2, FS_Subset DEF Figure
<1>4. GpuChecks(temps) = [k \in DOMAIN known |-> Check(<<"gpu", known[k]>>, Band(ShareOf(temps[known[k]], 100), 80, 90))]
    BY DEF GpuChecks
<1> HIDE DEF S
<1>5. /\ n \in Nat /\ DOMAIN known = 1..n /\ \A k \in 1..n : known[k] \in S
      /\ \A i \in S : \E k \in 1..n : known[k] = i
      /\ \A k, l \in 1..n : known[k] = known[l] => k = l
    BY <1>3, PlacesIs
<1> HIDE DEF known, n
<1>6. GpuChecks(temps) = checks
    BY <1>4, <1>5
<1>7. \A k \in 1..n : known[k] \in Nat /\ rank[k] \in {Ok, Warn, Crit} /\ (rank[k] = Crit <=> temps[known[k]] >= 90)
    <2> SUFFICES ASSUME NEW k \in 1..n
                 PROVE  known[k] \in Nat /\ rank[k] \in {Ok, Warn, Crit} /\ (rank[k] = Crit <=> temps[known[k]] >= 90)
        OBVIOUS
    <2>1. known[k] \in Nat /\ temps[known[k]] \in Int
        BY <1>3, <1>5
    <2>2. rank[k] = Band(ShareOf(temps[known[k]], 100), 80, 90)
        OBVIOUS
    <2> HIDE DEF rank
    <2> QED
        BY <2>1, <2>2, BandIs
<1> HIDE DEF rank
<1>8. \A k \in 1..n : rank[k] = Crit => <<"gpu", known[k]>> \in C
    BY <1>1, <1>3, <1>5, <1>7 DEF Over
<1>9. \A x \in C : \E k \in 1..n : rank[k] = Crit /\ x = <<"gpu", known[k]>>
    <2> SUFFICES ASSUME NEW x \in C PROVE \E k \in 1..n : rank[k] = Crit /\ x = <<"gpu", known[k]>>
        OBVIOUS
    <2>1. PICK i \in DOMAIN temps : Over(temps[i], 90) /\ x = <<"gpu", i>>
        BY <1>1
    <2>2. i \in S /\ temps[i] >= 90
        BY <1>3, <2>1 DEF Over
    <2> QED
        BY <1>5, <1>7, <2>1, <2>2
<1>10. Named(checks, "gpu", n, known, rank, C)
    <2> HIDE DEF C
    <2> QED
        BY <1>5, <1>7, <1>8, <1>9 DEF Named
<1> HIDE DEF C, checks
<1>11. Lists(checks, {"gpu"}, C)
    BY <1>10, NamedIs
<1> QED
    BY <1>6, <1>11 DEF C

\* The space of a mount in shares of what users may have.
LEMMA SpaceIs ==
    ASSUME NEW line \in MountLine, line.blocks # Unknown
    PROVE  LET percent == SpaceUsage(line.blocks).percent
           IN /\ Band(percent, 90, 95) \in {Ok, Warn, Crit}
              /\ Band(percent, 90, 95) = Crit <=>
                    /\ line.blocks.blocks > line.blocks.free
                    /\ 5 * (line.blocks.blocks - line.blocks.free) >= 95 * line.blocks.available
<1> DEFINE b == line.blocks
           used == Minus(b.blocks, b.free)
<1>1. b.blocks \in Nat /\ b.free \in Nat /\ b.available \in Nat
    BY DEF MountLine, Space
<1>2. SpaceUsage(b).percent.n = used /\ SpaceUsage(b).percent.of = used + b.available
    BY DEF SpaceUsage, ShareOf
<1> HIDE DEF b
<1>3. CASE b.blocks > b.free
    <2>1. used = b.blocks - b.free
        BY <1>3 DEF Minus
    <2> QED
        BY <1>1, <1>2, <1>3, <2>1 DEF Band, Ok, Warn, Crit, b
<1>4. CASE ~(b.blocks > b.free)
    <2>1. used = 0
        BY <1>4 DEF Minus
    <2>2. Band(SpaceUsage(b).percent, 90, 95) = Ok
        BY <1>1, <1>2, <2>1 DEF Band
    <2> QED
        BY <1>4, <2>2 DEF Ok, Warn, Crit, b
<1> QED
    BY <1>3, <1>4

\* A check for every mount that is read.
LEMMA MountsAre ==
    ASSUME NEW source, source.from = "mounts", source.table \in Seq(MountLine)
    PROVE  Lists(FsChecks(Mounts(source.table)), {"fs"}, CriticalOf("fs", source))
<1> DEFINE table == source.table
           S == {i \in DOMAIN table : /\ table[i].whole /\ ~ShouldSkip(table[i])
                                      /\ table[i].directory /\ table[i].blocks # Unknown}
           kept == InOrder(S)
           n == Len(kept)
           percent(i) == SpaceUsage(table[i].blocks).percent
           rows == [k \in 1..n |-> [name |-> kept[k], percent |-> percent(kept[k])]]
           rank == [k \in 1..n |-> Band(percent(kept[k]), 90, 95)]
           checks == [k \in 1..n |-> Check(<<"fs", kept[k]>>, rank[k])]
           C == CriticalOf("fs", source)
<1>1. C = {<<"fs", i>> : i \in {j \in DOMAIN table : Filled(table[j])}}
    BY DEF CriticalOf
<1>2. DOMAIN table \in SUBSET Nat /\ IsFiniteSet(DOMAIN table) /\ \A i \in DOMAIN table : table[i] \in MountLine
    <2> DEFINE m == Len(table)
    <2>1. DOMAIN table = 1..m /\ m \in Nat /\ \A i \in DOMAIN table : table[i] \in MountLine
        OBVIOUS
    <2> HIDE DEF m
    <2> QED
        BY <2>1, FS_Interval
<1>3. S \in SUBSET Nat /\ IsFiniteSet(S)
    BY <1>2, FS_Subset
<1>4. \A i : i \in S <=> /\ i \in DOMAIN table /\ table[i].whole /\ ~ShouldSkip(table[i])
                         /\ table[i].directory /\ table[i].blocks # Unknown
    OBVIOUS
<1>5. Mounts(table) = [k \in DOMAIN kept |-> [name |-> kept[k], percent |-> percent(kept[k])]]
    BY DEF Mounts
<1> HIDE DEF S
<1>6. /\ n \in Nat /\ DOMAIN kept = 1..n /\ \A k \in 1..n : kept[k] \in S
      /\ \A i \in S : \E k \in 1..n : kept[k] = i
      /\ \A k, l \in 1..n : kept[k] = kept[l] => k = l
    BY <1>3, PlacesIs
<1> HIDE DEF kept, n, percent
<1>7. Mounts(table) = rows
    BY <1>5, <1>6
<1>8. FsChecks(rows) = checks
    BY DEF FsChecks
<1>9. \A i \in S : /\ Band(percent(i), 90, 95) \in {Ok, Warn, Crit}
                   /\ Band(percent(i), 90, 95) = Crit <=> Filled(table[i])
    <2> SUFFICES ASSUME NEW i \in S
                 PROVE  /\ Band(percent(i), 90, 95) \in {Ok, Warn, Crit}
                        /\ Band(percent(i), 90, 95) = Crit <=> Filled(table[i])
        OBVIOUS
    <2> DEFINE line == table[i]
    <2>1. line \in MountLine /\ line.blocks # Unknown /\ line.whole /\ ~ShouldSkip(line) /\ line.directory
        BY <1>2, <1>4
    <2>2. percent(i) = SpaceUsage(line.blocks).percent
        BY DEF percent
    <2> HIDE DEF line
    <2>3. line.type = "real" /\ line.place = "plain"
        BY <2>1 DEF ShouldSkip, MountLine
    <2>4. /\ Band(percent(i), 90, 95) \in {Ok, Warn, Crit}
          /\ Band(percent(i), 90, 95) = Crit <=>
                /\ line.blocks.blocks > line.blocks.free
                /\ 5 * (line.blocks.blocks - line.blocks.free) >= 95 * line.blocks.available
        BY <2>1, <2>2, SpaceIs
    <2>5. Filled(line) <=> /\ line.blocks.blocks > line.blocks.free
                           /\ 5 * (line.blocks.blocks - line.blocks.free) >= 95 * line.blocks.available
        BY <2>1, <2>3 DEF Filled
    <2> QED
        BY <2>4, <2>5 DEF line
<1>10. \A i \in DOMAIN table : Filled(table[i]) => i \in S
    <2> SUFFICES ASSUME NEW i \in DOMAIN table, Filled(table[i]) PROVE i \in S
        OBVIOUS
    <2>1. ~ShouldSkip(table[i])
        BY DEF Filled, ShouldSkip
    <2> QED
        BY <1>4, <2>1 DEF Filled
<1>11. \A k \in 1..n : /\ kept[k] \in Nat /\ kept[k] \in DOMAIN table
                       /\ rank[k] \in {Ok, Warn, Crit} /\ (rank[k] = Crit <=> Filled(table[kept[k]]))
    <2>1. \A k \in 1..n : rank[k] = Band(percent(kept[k]), 90, 95)
        OBVIOUS
    <2>2. \A i \in S : i \in Nat /\ i \in DOMAIN table
        BY <1>3, <1>4
    <2> HIDE DEF rank
    <2> QED
        BY <1>6, <1>9, <2>1, <2>2
<1> HIDE DEF rank
<1>12. \A k \in 1..n : rank[k] = Crit => <<"fs", kept[k]>> \in C
    BY <1>1, <1>11
<1>13. \A x \in C : \E k \in 1..n : rank[k] = Crit /\ x = <<"fs", kept[k]>>
    <2> SUFFICES ASSUME NEW x \in C PROVE \E k \in 1..n : rank[k] = Crit /\ x = <<"fs", kept[k]>>
        OBVIOUS
    <2>1. PICK i \in DOMAIN table : Filled(table[i]) /\ x = <<"fs", i>>
        BY <1>1
    <2>2. i \in S
        BY <1>10, <2>1
    <2> QED
        BY <1>6, <1>11, <2>1, <2>2
<1>14. Named(checks, "fs", n, kept, rank, C)
    <2> HIDE DEF C
    <2> QED
        BY <1>6, <1>11, <1>12, <1>13 DEF Named
<1> HIDE DEF C, checks, rows
<1>15. Lists(checks, {"fs"}, C)
    BY <1>14, NamedIs
<1> QED
    BY <1>7, <1>8, <1>15 DEF C

\* An agent's share of units is that of their number.
LEMMA UnitsCancel ==
    ASSUME NEW a \in Nat, NEW u \in Nat, NEW v \in Nat, a > 0
    PROVE  (v * a) * 100 >= 95 * (a * u) <=> 100 * v >= 95 * u
<1> DEFINE x == 100 * v
           y == 95 * u
<1>1. (v * a) * 100 = a * x /\ 95 * (a * u) = a * y /\ x \in Nat /\ y \in Nat
    OBVIOUS
<1> HIDE DEF x, y
<1>2. a * x >= a * y <=> x >= y
    <2>1. CASE x >= y
        <3>1. a * (x - y) >= 0 /\ a * (x - y) = a * x - a * y
            BY <1>1, <2>1
        <3> QED
            BY <1>1, <2>1, <3>1
    <2>2. CASE ~(x >= y)
        <3>1. a * (y - x) > 0 /\ a * (y - x) = a * y - a * x
            BY <1>1, <2>2
        <3> QED
            BY <1>1, <2>2, <3>1
    <2> QED
        BY <2>1, <2>2
<1> QED
    BY <1>1, <1>2 DEF x, y

-----------------------------------------------------------------------------
(* An agent's table.                                                       *)

\* The cells of a row: those that are there, and 0 for those that are not.
CellOf(t, column, i) == IF <<column, i>> \in DOMAIN t.cells THEN t.cells[<<column, i>>] ELSE 0
SizeOf(t, i) == IF t.units THEN CellOf(t, "alloc", i) * CellOf(t, "units", i) ELSE CellOf(t, "total", i)
PercentOf(t, i) ==
    IF t.units THEN ShareOf(CellOf(t, "used", i) * CellOf(t, "alloc", i), SizeOf(t, i))
    ELSE ShareOf(CellOf(t, "percent", i), 100)

\* A cell that is asked for is a number.
LEMMA CellIs ==
    ASSUME NEW t, Table(t.cells), NEW i, NEW column \in {"alloc", "units", "total", "used", "percent"}
    PROVE  CellOf(t, column, i) \in Nat
<1>1. CASE <<column, i>> \in DOMAIN t.cells
    <2>1. <<column, i>>[1] # "path"
        OBVIOUS
    <2>2. t.cells[<<column, i>>] \in Nat
        BY <1>1, <2>1 DEF Table
    <2> QED
        BY <1>1, <2>2 DEF CellOf
<1>2. CASE <<column, i>> \notin DOMAIN t.cells
    BY <1>2 DEF CellOf
<1> QED
    BY <1>1, <1>2

\* A row with a path and a size is critical when it is full.
LEMMA RowIs ==
    ASSUME NEW t, t.units \in BOOLEAN, Table(t.cells), NEW i
    PROVE  /\ SizeOf(t, i) # 0 =>
                /\ Band(PercentOf(t, i), 90, 95) \in {Ok, Warn, Crit}
                /\ <<"path", i>> \in DOMAIN t.cells => (Band(PercentOf(t, i), 90, 95) = Crit <=> FullRow(t, i))
           /\ FullRow(t, i) => <<"path", i>> \in DOMAIN t.cells /\ SizeOf(t, i) # 0
<1> DEFINE has(column) == <<column, i>> \in DOMAIN t.cells
           alloc == CellOf(t, "alloc", i)
           units == CellOf(t, "units", i)
           used == CellOf(t, "used", i)
           total == CellOf(t, "total", i)
           percent == CellOf(t, "percent", i)
<1>1. alloc \in Nat /\ units \in Nat /\ used \in Nat /\ total \in Nat /\ percent \in Nat
    BY CellIs
<1>2. /\ has("alloc") => alloc = t.cells[<<"alloc", i>>]
      /\ has("units") => units = t.cells[<<"units", i>>]
      /\ has("used") => used = t.cells[<<"used", i>>]
      /\ has("total") => total = t.cells[<<"total", i>>]
      /\ has("percent") => percent = t.cells[<<"percent", i>>]
    BY DEF CellOf
<1>3. /\ ~has("alloc") => alloc = 0
      /\ ~has("units") => units = 0
      /\ ~has("used") => used = 0
      /\ ~has("total") => total = 0
      /\ ~has("percent") => percent = 0
    BY DEF CellOf
<1>4. CASE t.units
    <2>1. FullRow(t, i) <=>
              /\ has("path") /\ has("alloc") /\ has("units") /\ has("used")
              /\ t.cells[<<"alloc", i>>] > 0 /\ t.cells[<<"units", i>>] > 0
              /\ 100 * t.cells[<<"used", i>>] >= 95 * t.cells[<<"units", i>>]
        BY <1>4 DEF FullRow
    <2>2. SizeOf(t, i) = alloc * units /\ PercentOf(t, i) = ShareOf(used * alloc, alloc * units)
        BY <1>4 DEF SizeOf, PercentOf
    <2> HIDE DEF alloc, units, used, total, percent, has
    <2>3. alloc * units # 0 <=> alloc > 0 /\ units > 0
        BY <1>1
    <2>4. FullRow(t, i) <=> has("path") /\ alloc > 0 /\ units > 0 /\ 100 * used >= 95 * units
        <3>1. has("alloc") /\ has("units") /\ has("used") =>
                  (FullRow(t, i) <=> has("path") /\ alloc > 0 /\ units > 0 /\ 100 * used >= 95 * units)
            BY <1>2, <2>1
        <3>2. alloc > 0 => has("alloc")
            BY <1>1, <1>3
        <3>3. units > 0 => has("units")
            BY <1>1, <1>3
        <3>4. units > 0 /\ 100 * used >= 95 * units => has("used")
            BY <1>1, <1>3
        <3> QED
            BY <2>1, <3>1, <3>2, <3>3, <3>4
    <2>5. ASSUME alloc > 0, units > 0
          PROVE  Band(ShareOf(used * alloc, alloc * units), 90, 95) = Crit <=> 100 * used >= 95 * units
        <3> DEFINE n == used * alloc
                   of == alloc * units
        <3>1. n * 100 >= 95 * of <=> 100 * used >= 95 * units
            BY <1>1, <2>5, UnitsCancel
        <3>2. of # 0
            BY <1>1, <2>3, <2>5
        <3> HIDE DEF n, of
        <3>3. ShareOf(n, of).n = n /\ ShareOf(n, of).of = of
            BY DEF ShareOf
        <3>4. Band(ShareOf(n, of), 90, 95) = Crit <=> n * 100 >= 95 * of
            BY <3>2, <3>3 DEF Band, Crit, Warn, Ok
        <3> QED
            BY <3>1, <3>4 DEF n, of
    <2>6. Band(ShareOf(used * alloc, alloc * units), 90, 95) \in {Ok, Warn, Crit}
        BY DEF Band
    <2> QED
        BY <2>2, <2>3, <2>4, <2>5, <2>6 DEF has
<1>5. CASE ~t.units
    <2>1. FullRow(t, i) <=>
              /\ has("path") /\ has("total") /\ has("percent")
              /\ t.cells[<<"total", i>>] > 0 /\ t.cells[<<"percent", i>>] >= 95
        BY <1>5 DEF FullRow
    <2>2. SizeOf(t, i) = total /\ PercentOf(t, i) = ShareOf(percent, 100)
        BY <1>5 DEF SizeOf, PercentOf
    <2> HIDE DEF alloc, units, used, total, percent, has
    <2>3. FullRow(t, i) <=> has("path") /\ total > 0 /\ percent >= 95
        <3>1. has("total") /\ has("percent") =>
                  (FullRow(t, i) <=> has("path") /\ total > 0 /\ percent >= 95)
            BY <1>2, <2>1
        <3>2. total > 0 => has("total")
            BY <1>1, <1>3
        <3>3. percent >= 95 => has("percent")
            BY <1>1, <1>3
        <3> QED
            BY <2>1, <3>1, <3>2, <3>3
    <2>4. Band(ShareOf(percent, 100), 90, 95) \in {Ok, Warn, Crit}
          /\ (Band(ShareOf(percent, 100), 90, 95) = Crit <=> percent >= 95)
        <3>1. percent \in Int /\ 90 \in Int /\ 95 \in Int
            BY <1>1
        <3> QED
            BY <3>1, BandIs
    <2>5. total # 0 <=> total > 0
        BY <1>1
    <2> QED
        BY <2>2, <2>3, <2>4, <2>5 DEF has
<1> QED
    BY <1>4, <1>5

\* A check for every row of an agent's table with a path and a size.
LEMMA SnmpAre ==
    ASSUME NEW t, t.from = "snmp", t.units \in BOOLEAN, Table(t.cells)
    PROVE  Lists(FsChecks(SnmpMounts(t)), {"fs"}, CriticalOf("fs", t))
<1> DEFINE cells == DOMAIN t.cells
           rows == {c[2] : c \in cells}
           S == {i \in rows : <<"path", i>> \in cells /\ SizeOf(t, i) # 0}
           kept == InOrder(S)
           n == Len(kept)
           lines == [k \in 1..n |-> [name |-> kept[k], percent |-> PercentOf(t, kept[k])]]
           rank == [k \in 1..n |-> Band(PercentOf(t, kept[k]), 90, 95)]
           checks == [k \in 1..n |-> Check(<<"fs", kept[k]>>, rank[k])]
           C == CriticalOf("fs", t)
<1>1. C = {<<"fs", i>> : i \in {c[2] : c \in {d \in cells : FullRow(t, d[2])}}}
    <2>1. t.from # "mounts"
        OBVIOUS
    <2> QED
        BY <2>1 DEF CriticalOf
<1>2. IsFiniteSet(cells) /\ \A c \in cells : c \in STRING \X Nat
    BY DEF Table
<1>3. rows \in SUBSET Nat /\ IsFiniteSet(rows)
    <2>1. rows \in SUBSET Nat
        BY <1>2
    <2> DEFINE f == [c \in cells |-> c[2]]
    <2>2. f \in Surjection(cells, rows)
        BY DEF Surjection
    <2> HIDE DEF f, cells, rows
    <2> QED
        BY <1>2, <2>1, <2>2, FS_Surjection
<1>4. SnmpMounts(t) = [k \in DOMAIN kept |-> [name |-> kept[k], percent |-> PercentOf(t, kept[k])]]
    BY DEF SnmpMounts, PercentOf, SizeOf, CellOf
<1> HIDE DEF rows
<1>5. S \in SUBSET Nat /\ IsFiniteSet(S)
    BY <1>3, FS_Subset
<1>6. \A i : i \in S <=> i \in rows /\ <<"path", i>> \in cells /\ SizeOf(t, i) # 0
    OBVIOUS
<1>6a. ASSUME NEW i
       PROVE  /\ SizeOf(t, i) # 0 =>
                    /\ Band(PercentOf(t, i), 90, 95) \in {Ok, Warn, Crit}
                    /\ <<"path", i>> \in cells => (Band(PercentOf(t, i), 90, 95) = Crit <=> FullRow(t, i))
              /\ FullRow(t, i) => <<"path", i>> \in cells /\ SizeOf(t, i) # 0
    BY ONLY Table(t.cells), t.units \in BOOLEAN, RowIs
<1> HIDE DEF S
<1>7. /\ n \in Nat /\ DOMAIN kept = 1..n /\ \A k \in 1..n : kept[k] \in S
      /\ \A i \in S : \E k \in 1..n : kept[k] = i
      /\ \A k, l \in 1..n : kept[k] = kept[l] => k = l
    BY <1>5, PlacesIs
<1> HIDE DEF kept, n
<1>8. SnmpMounts(t) = lines
    BY <1>4, <1>7
<1>9. FsChecks(lines) = checks
    BY DEF FsChecks
<1>10. \A i \in S : /\ Band(PercentOf(t, i), 90, 95) \in {Ok, Warn, Crit}
                    /\ Band(PercentOf(t, i), 90, 95) = Crit <=> FullRow(t, i)
    BY <1>6, <1>6a
<1>11. \A i : i \in rows /\ FullRow(t, i) => i \in S
    BY <1>6, <1>6a
<1>12. \A x : x \in C <=> \E i \in rows : FullRow(t, i) /\ x = <<"fs", i>>
    BY <1>1 DEF rows
<1>13. \A k \in 1..n : /\ kept[k] \in Nat /\ kept[k] \in rows
                       /\ rank[k] \in {Ok, Warn, Crit} /\ (rank[k] = Crit <=> FullRow(t, kept[k]))
    <2>1. \A k \in 1..n : rank[k] = Band(PercentOf(t, kept[k]), 90, 95)
        OBVIOUS
    <2>2. \A i \in S : i \in Nat /\ i \in rows
        BY <1>5, <1>6
    <2> HIDE DEF rank
    <2> QED
        BY <1>7, <1>10, <2>1, <2>2
<1> HIDE DEF rank
<1>14. \A k \in 1..n : rank[k] = Crit => <<"fs", kept[k]>> \in C
    BY <1>12, <1>13
<1>15. \A x \in C : \E k \in 1..n : rank[k] = Crit /\ x = <<"fs", kept[k]>>
    <2> SUFFICES ASSUME NEW x \in C PROVE \E k \in 1..n : rank[k] = Crit /\ x = <<"fs", kept[k]>>
        OBVIOUS
    <2>1. PICK i \in rows : FullRow(t, i) /\ x = <<"fs", i>>
        BY <1>12
    <2>2. i \in S
        BY <1>11, <2>1
    <2> QED
        BY <1>7, <1>13, <2>1, <2>2
<1>16. Named(checks, "fs", n, kept, rank, C)
    <2> HIDE DEF C
    <2> QED
        BY <1>7, <1>13, <1>14, <1>15 DEF Named
<1> HIDE DEF C, checks, lines
<1>17. Lists(checks, {"fs"}, C)
    BY <1>16, NamedIs
<1> QED
    BY <1>8, <1>9, <1>17 DEF C

-----------------------------------------------------------------------------
(* Disks.                                                                  *)

\* A heading opens the table, a blank line or another heading closes it.
LEMMA TableStep ==
    ASSUME NEW lines, NEW n \in Nat, NEW i \in 1..n
    PROVE  /\ InTable(lines, i + 1) <=>
                  lines[i].kind = "ata" \/ (InTable(lines, i) /\ lines[i].kind \notin {"blank", "nvme"})
           /\ ~InTable(lines, 1)
<1> DEFINE open(k) == \E h \in 1..k : lines[h].kind = "ata" /\ \A j \in h + 1..k : lines[j].kind \notin {"blank", "nvme"}
<1>1. i \in Nat /\ i >= 1
    OBVIOUS
<1>2. (InTable(lines, i + 1) <=> open(i)) /\ (InTable(lines, i) <=> open(i - 1)) /\ ~InTable(lines, 1)
    <2>1. (i + 1) - 1 = i /\ 1 - 1 = 0 /\ 1..0 = {}
        BY <1>1
    <2> QED
        BY <2>1 DEF InTable
<1>3. ASSUME lines[i].kind = "ata" PROVE open(i)
    <2>1. i \in 1..i /\ i + 1..i = {}
        BY <1>1
    <2> QED
        BY <1>3, <2>1
<1>4. ASSUME open(i - 1), lines[i].kind \notin {"blank", "nvme"} PROVE open(i)
    <2>1. PICK h \in 1..i - 1 : lines[h].kind = "ata" /\ \A j \in h + 1..i - 1 : lines[j].kind \notin {"blank", "nvme"}
        BY <1>4
    <2>2. h \in 1..i /\ \A j \in h + 1..i : j \in h + 1..i - 1 \/ j = i
        BY <1>1
    <2> QED
        BY <1>4, <2>1, <2>2
<1>5. ASSUME open(i), lines[i].kind # "ata" PROVE open(i - 1) /\ lines[i].kind \notin {"blank", "nvme"}
    <2>1. PICK h \in 1..i : lines[h].kind = "ata" /\ \A j \in h + 1..i : lines[j].kind \notin {"blank", "nvme"}
        BY <1>5
    <2>2. h # i
        BY <1>5, <2>1
    <2>3. h \in 1..i - 1 /\ i \in h + 1..i /\ \A j \in h + 1..i - 1 : j \in h + 1..i
        BY <1>1, <2>2
    <2> QED
        BY <2>1, <2>3
<1> HIDE DEF open
<1> QED
    BY <1>2, <1>3, <1>4, <1>5

\* The rows of the table of attributes are read, and nothing else.
LEMMA AttributesIs ==
    ASSUME NEW lines \in Seq(SmartLine)
    PROVE  LET rows == Attributes(lines)
           IN (\E j \in DOMAIN rows : Failing(rows[j])) <=>
                  \E i \in DOMAIN lines :
                      lines[i].kind = "row" /\ InTable(lines, i)
                      /\ lines[i].threshold # 0 /\ lines[i].value <= lines[i].threshold
<1> DEFINE n == Len(lines)
           Row == [kind : {"row"}, value : Nat, threshold : Nat]
           State == [table : {"none", "nvme", "ata"}, rows : Seq(Row)]
           base == [table |-> "none", rows |-> <<>>]
           follow == [p \in Nat \X State |-> IF p[1] \in 1..n THEN AfterLine(p[2], lines[p[1]]) ELSE p[2]]
           Body(g) == [i \in 0..n |-> IF i = 0 THEN base ELSE AfterLine(g[i - 1], lines[i])]
           upTo == CHOOSE g : g = Body(g)
<1>1. n \in Nat /\ DOMAIN lines = 1..n
    OBVIOUS
<1>2. \A i \in 1..n : lines[i] \in SmartLine
    OBVIOUS
<1>3. Attributes(lines) = upTo[n].rows
    BY DEF Attributes
<1> HIDE DEF n
<1>4. \A i \in 1..n : lines[i].kind = "row" => lines[i] \in Row
    BY <1>2 DEF SmartLine
<1>5. \A s \in State : /\ s.table \in {"none", "nvme", "ata"} /\ s.rows \in Seq(Row)
                       /\ \A i \in 1..n : AfterLine(s, lines[i]) \in State
    <2> SUFFICES ASSUME NEW s \in State, NEW i \in 1..n PROVE AfterLine(s, lines[i]) \in State
        OBVIOUS
    <2>1. CASE lines[i].kind = "row" /\ s.table = "ata"
        <3>1. lines[i] \in Row /\ s.rows \in Seq(Row) /\ s.table \in {"none", "nvme", "ata"}
            BY <1>4, <2>1
        <3> DEFINE l == lines[i]
                   R == Row
        <3>2. AfterLine(s, l) = [s EXCEPT !.rows = Append(s.rows, l)]
            BY <2>1 DEF AfterLine
        <3> HIDE DEF l, R
        <3>3. Append(s.rows, l) \in Seq(R)
            BY <3>1 DEF l, R
        <3> QED
            BY <3>1, <3>2, <3>3 DEF l, R
    <2>2. CASE ~(lines[i].kind = "row" /\ s.table = "ata")
        <3> HIDE DEF Row
        <3> QED
            BY <2>2 DEF AfterLine
    <2> QED
        BY <2>1, <2>2
<1>6. base \in State
    OBVIOUS
<1> HIDE DEF State, Row
<1>7. follow \in [Nat \X State -> State]
    BY <1>5
<1>8. \A i \in 1..n, s \in State : follow[<<i, s>>] = AfterLine(s, lines[i])
    <2>1. \A i \in 1..n : i \in Nat
        BY <1>1
    <2> QED
        BY <2>1
<1> HIDE DEF follow, base
<1>9. PICK f \in [0..n -> State] : Recurs(f, base, follow, n)
    BY <1>1, <1>6, <1>7, Recursion
<1>10. f[0] = base
    BY <1>9 DEF Recurs
<1>11. ASSUME NEW i \in 1..n PROVE i - 1 \in 0..n /\ f[i - 1] \in State /\ f[i] = AfterLine(f[i - 1], lines[i])
    <2>1. i - 1 \in 0..n
        BY <1>1
    <2> QED
        BY <1>8, <1>9, <2>1 DEF Recurs
<1>12. f = Body(f)
    <2>1. ASSUME NEW i \in 0..n PROVE f[i] = IF i = 0 THEN base ELSE AfterLine(f[i - 1], lines[i])
        <3>1. i = 0 \/ i \in 1..n
            BY <1>1
        <3>2. ~(0 \in 1..n)
            BY <1>1
        <3> QED
            BY <1>10, <1>11, <3>1, <3>2
    <2> QED
        BY <2>1
<1>13. upTo = Body(upTo)
    BY <1>12
<1> HIDE DEF upTo
<1>14. upTo[0] = base /\ \A i \in 1..n : upTo[i] = AfterLine(upTo[i - 1], lines[i])
    <2>1. 0 \in 0..n /\ \A i \in 1..n : i \in 0..n /\ i # 0
        BY <1>1
    <2> QED
        BY <1>13, <2>1
<1> DEFINE good(s, i) ==
               /\ s \in State /\ (s.table = "ata" <=> InTable(lines, i + 1))
               /\ \A j \in 1..Len(s.rows) : \E k \in 1..i : /\ lines[k].kind = "row" /\ InTable(lines, k)
                                                            /\ s.rows[j] = lines[k]
               /\ \A k \in 1..i : lines[k].kind = "row" /\ InTable(lines, k) =>
                      \E j \in 1..Len(s.rows) : s.rows[j] = lines[k]
           T == {i \in Nat : i \in 0..n => good(upTo[i], i)}
<1>15. 0 \in T
    <2>1. good(base, 0)
        <3>1. ~InTable(lines, 0 + 1)
            <4>1. 1..(0 + 1) - 1 = {}
                OBVIOUS
            <4> QED
                BY <4>1 DEF InTable
        <3>2. base.table = "none" /\ base.rows = <<>>
            BY DEF base
        <3>3. 1..0 = {} /\ 1..Len(<<>>) = {}
            OBVIOUS
        <3> QED
            BY <1>6, <3>1, <3>2, <3>3
    <2> QED
        BY <1>14, <2>1
<1>16. ASSUME NEW i \in 0..n, i < n, i \in T PROVE i + 1 \in T
    <2> DEFINE s == upTo[i]
               k == i + 1
               l == lines[k]
               next == upTo[k]
    <2>1. i \in Nat /\ k \in 1..n /\ k \in Nat /\ k - 1 = i /\ 1..k = 1..i \cup {k}
        BY <1>1, <1>16
    <2>2. good(s, i)
        BY <1>16
    <2>3. next = AfterLine(s, l)
        BY <1>14, <2>1
    <2>4. next \in State
        BY <1>5, <2>1, <2>2, <2>3
    <2>5. InTable(lines, k + 1) <=> l.kind = "ata" \/ (InTable(lines, k) /\ l.kind \notin {"blank", "nvme"})
        BY <1>1, <2>1, TableStep
    <2> HIDE DEF T, next
    <2>6. CASE l.kind = "row" /\ s.table = "ata"
        <3>1. next.table = "ata" /\ next.rows = Append(s.rows, l)
            <4>1. next = [s EXCEPT !.rows = Append(s.rows, l)]
                BY <2>3, <2>6 DEF AfterLine
            <4> HIDE DEF l
            <4> QED
                BY <2>2, <2>6, <4>1 DEF State
        <3>2. InTable(lines, k) /\ InTable(lines, k + 1)
            BY <2>2, <2>5, <2>6
        <3> DEFINE rows == s.rows
                   m == Len(rows)
        <3>3. rows \in Seq(Row)
            BY <1>5, <2>2
        <3> HIDE DEF l, rows
        <3>4. m \in Nat /\ Len(Append(rows, l)) = m + 1 /\ Append(rows, l)[m + 1] = l
              /\ \A j \in 1..m : Append(rows, l)[j] = rows[j]
            BY <3>3
        <3>5. \A j \in 1..m + 1 : j \in 1..m \/ j = m + 1
            BY <3>4
        <3>6. (\A j \in 1..m : j \in 1..m + 1) /\ m + 1 \in 1..m + 1
            BY <3>4
        <3>7. next.rows = Append(rows, l)
            BY <3>1 DEF rows
        <3> HIDE DEF m
        <3>8. /\ \A j \in 1..m : \E q \in 1..i : /\ lines[q].kind = "row" /\ InTable(lines, q)
                                                 /\ rows[j] = lines[q]
              /\ \A q \in 1..i : lines[q].kind = "row" /\ InTable(lines, q) => \E j \in 1..m : rows[j] = lines[q]
            BY <2>2 DEF m, rows
        <3>9. ASSUME NEW j \in 1..m + 1
              PROVE  \E q \in 1..k : lines[q].kind = "row" /\ InTable(lines, q) /\ Append(rows, l)[j] = lines[q]
            <4>1. CASE j \in 1..m
                <5>1. PICK q \in 1..i : lines[q].kind = "row" /\ InTable(lines, q) /\ rows[j] = lines[q]
                    BY <3>8, <4>1
                <5>2. q \in 1..k /\ Append(rows, l)[j] = rows[j]
                    BY <2>1, <3>4, <4>1
                <5> QED
                    BY <5>1, <5>2
            <4>2. CASE j = m + 1
                <5>1. k \in 1..k
                    BY <2>1
                <5> QED
                    BY <2>6, <3>2, <3>4, <4>2, <5>1 DEF l
            <4> QED
                BY <3>5, <4>1, <4>2
        <3>10. ASSUME NEW q \in 1..k, lines[q].kind = "row" /\ InTable(lines, q)
               PROVE  \E j \in 1..m + 1 : Append(rows, l)[j] = lines[q]
            <4>1. CASE q \in 1..i
                BY <3>4, <3>6, <3>8, <3>10, <4>1
            <4>2. CASE q = k
                BY <3>4, <3>6, <4>2 DEF l
            <4> QED
                BY <2>1, <4>1, <4>2
        <3>11. Len(next.rows) = m + 1 /\ (next.table = "ata" <=> InTable(lines, k + 1))
            BY <3>1, <3>2, <3>4, <3>7
        <3>12. \A j \in 1..Len(next.rows) : \E q \in 1..k : /\ lines[q].kind = "row" /\ InTable(lines, q)
                                                          /\ next.rows[j] = lines[q]
            BY <3>7, <3>9, <3>11
        <3>13. \A q \in 1..k : lines[q].kind = "row" /\ InTable(lines, q) =>
                      \E j \in 1..Len(next.rows) : next.rows[j] = lines[q]
            BY <3>7, <3>10, <3>11
        <3> HIDE DEF k
        <3>14. good(next, k)
            BY <2>4, <3>11, <3>12, <3>13
        <3> QED
            BY <2>1, <3>14 DEF T, next, k
    <2>7. CASE ~(l.kind = "row" /\ s.table = "ata")
        <3>1. next.rows = s.rows
            BY <2>2, <2>3, <2>7 DEF AfterLine, State
        <3>2. next.table = "ata" <=> InTable(lines, k + 1)
            <4>1. next.table = "ata" <=> l.kind = "ata" \/ (s.table = "ata" /\ l.kind \notin {"blank", "nvme"})
                BY <2>2, <2>3, <2>7 DEF AfterLine, State
            <4> QED
                BY <2>2, <2>5, <4>1
        <3>3. ~(l.kind = "row" /\ InTable(lines, k))
            BY <2>2, <2>7
        <3>4. \A j \in 1..Len(s.rows) : \E q \in 1..k : /\ lines[q].kind = "row" /\ InTable(lines, q)
                                                        /\ s.rows[j] = lines[q]
            BY <2>1, <2>2
        <3>5. \A q \in 1..k : lines[q].kind = "row" /\ InTable(lines, q) =>
                      \E j \in 1..Len(s.rows) : s.rows[j] = lines[q]
            BY <2>1, <2>2, <3>3
        <3>6. good(next, k)
            <4> HIDE DEF s, k
            <4> QED
                BY <2>4, <3>1, <3>2, <3>4, <3>5
        <3> QED
            BY <2>1, <3>6 DEF T, next, k
    <2> QED
        BY <2>6, <2>7
<1> HIDE DEF T
<1>17. 0..n \subseteq T
    BY <1>1, <1>15, <1>16, UpTo
<1>18. n \in 0..n /\ n \in T
    BY <1>1, <1>17
<1>19. good(upTo[n], n)
    BY <1>18 DEF T
<1> DEFINE rows == upTo[n].rows
<1>20. rows \in Seq(Row)
    BY <1>5, <1>19
<1>21. \A r \in Row : Failing(r) <=> r.threshold # 0 /\ r.value <= r.threshold
    BY DEF Row, Failing
<1>22. /\ \A j \in 1..Len(rows) : \E k \in 1..n : /\ lines[k].kind = "row" /\ InTable(lines, k)
                                                  /\ rows[j] = lines[k]
       /\ \A k \in 1..n : lines[k].kind = "row" /\ InTable(lines, k) =>
              \E j \in 1..Len(rows) : rows[j] = lines[k]
    BY <1>19
<1> HIDE DEF rows
<1>23. DOMAIN rows = 1..Len(rows) /\ \A j \in 1..Len(rows) : rows[j] \in Row
    BY <1>20
<1>24. (\E j \in DOMAIN rows : Failing(rows[j])) <=>
                  \E i \in DOMAIN lines :
                      lines[i].kind = "row" /\ InTable(lines, i)
                      /\ lines[i].threshold # 0 /\ lines[i].value <= lines[i].threshold
    <2>1. ASSUME NEW j \in DOMAIN rows, Failing(rows[j])
          PROVE  \E i \in DOMAIN lines :
                      lines[i].kind = "row" /\ InTable(lines, i)
                      /\ lines[i].threshold # 0 /\ lines[i].value <= lines[i].threshold
        BY <1>1, <1>21, <1>22, <1>23, <2>1
    <2>2. ASSUME NEW i \in DOMAIN lines, lines[i].kind = "row", InTable(lines, i),
                 lines[i].threshold # 0, lines[i].value <= lines[i].threshold
          PROVE  \E j \in DOMAIN rows : Failing(rows[j])
        BY <1>1, <1>21, <1>22, <1>23, <2>2
    <2> QED
        BY <2>1, <2>2
<1> QED
    BY <1>3, <1>24 DEF rows

\* A check for every disk that is listed and reports.
LEMMA SmartAre ==
    ASSUME NEW disks \in Seq(Disk)
    PROVE  Lists(SmartChecks(Devices(disks)), {"smart"}, CriticalOf("smart", disks))
<1> DEFINE S == {i \in DOMAIN disks : disks[i].listed /\ disks[i].exit = 0}
           kept == InOrder(S)
           n == Len(kept)
           fails(i) == \E j \in DOMAIN Attributes(disks[i].lines) : Failing(Attributes(disks[i].lines)[j])
           devices == [k \in 1..n |-> [name |-> kept[k], rows |-> Attributes(disks[kept[k]].lines)]]
           rank == [k \in 1..n |-> IF fails(kept[k]) THEN Crit ELSE Ok]
           checks == [k \in 1..n |-> Check(<<"smart", kept[k]>>, rank[k])]
           C == CriticalOf("smart", disks)
<1>1. C = {<<"smart", i>> : i \in {j \in DOMAIN disks : DiskFails(disks[j])}}
    BY DEF CriticalOf
<1>2. DOMAIN disks \in SUBSET Nat /\ IsFiniteSet(DOMAIN disks) /\ \A i \in DOMAIN disks : disks[i] \in Disk
    <2> DEFINE m == Len(disks)
    <2>1. DOMAIN disks = 1..m /\ m \in Nat /\ \A i \in DOMAIN disks : disks[i] \in Disk
        OBVIOUS
    <2> HIDE DEF m
    <2> QED
        BY <2>1, FS_Interval
<1>3. S \in SUBSET Nat /\ IsFiniteSet(S)
    BY <1>2, FS_Subset
<1>4. \A i : i \in S <=> i \in DOMAIN disks /\ disks[i].listed /\ disks[i].exit = 0
    OBVIOUS
<1>5. Devices(disks) = [k \in DOMAIN kept |-> [name |-> kept[k], rows |-> Attributes(disks[kept[k]].lines)]]
    BY DEF Devices
<1> HIDE DEF S
<1>6. /\ n \in Nat /\ DOMAIN kept = 1..n /\ \A k \in 1..n : kept[k] \in S
      /\ \A i \in S : \E k \in 1..n : kept[k] = i
      /\ \A k, l \in 1..n : kept[k] = kept[l] => k = l
    BY <1>3, PlacesIs
<1> HIDE DEF kept, n
<1>7. Devices(disks) = devices
    BY <1>5, <1>6
<1>8. SmartChecks(devices) = checks
    BY DEF SmartChecks
<1> HIDE DEF fails
<1>9. \A i \in S : fails(i) <=> DiskFails(disks[i])
    <2> SUFFICES ASSUME NEW i \in S PROVE fails(i) <=> DiskFails(disks[i])
        OBVIOUS
    <2> DEFINE lines == disks[i].lines
    <2>1. lines \in Seq(SmartLine)
        BY <1>2, <1>4 DEF Disk
    <2>2. fails(i) <=> \E j \in DOMAIN Attributes(lines) : Failing(Attributes(lines)[j])
        BY DEF fails
    <2>3. DiskFails(disks[i]) <=>
              \E j \in DOMAIN lines :
                  lines[j].kind = "row" /\ InTable(lines, j)
                  /\ lines[j].threshold # 0 /\ lines[j].value <= lines[j].threshold
        BY <1>4 DEF DiskFails
    <2> HIDE DEF lines
    <2> QED
        BY <2>1, <2>2, <2>3, AttributesIs
<1>10. \A i \in DOMAIN disks : DiskFails(disks[i]) => i \in S
    BY <1>4 DEF DiskFails
<1>11. \A k \in 1..n : /\ kept[k] \in Nat /\ kept[k] \in DOMAIN disks
                       /\ rank[k] \in {Ok, Warn, Crit} /\ (rank[k] = Crit <=> DiskFails(disks[kept[k]]))
    <2>1. \A k \in 1..n : rank[k] = IF fails(kept[k]) THEN Crit ELSE Ok
        OBVIOUS
    <2>2. \A i \in S : i \in Nat /\ i \in DOMAIN disks
        BY <1>3, <1>4
    <2>3. Crit # Ok
        BY DEF Crit, Ok
    <2> HIDE DEF rank
    <2> QED
        BY <1>6, <1>9, <2>1, <2>2, <2>3
<1> HIDE DEF rank
<1>12. \A k \in 1..n : rank[k] = Crit => <<"smart", kept[k]>> \in C
    BY <1>1, <1>11
<1>13. \A x \in C : \E k \in 1..n : rank[k] = Crit /\ x = <<"smart", kept[k]>>
    <2> SUFFICES ASSUME NEW x \in C PROVE \E k \in 1..n : rank[k] = Crit /\ x = <<"smart", kept[k]>>
        OBVIOUS
    <2>1. PICK i \in DOMAIN disks : DiskFails(disks[i]) /\ x = <<"smart", i>>
        BY <1>1
    <2>2. i \in S
        BY <1>10, <2>1
    <2> QED
        BY <1>6, <1>11, <2>1, <2>2
<1>14. Named(checks, "smart", n, kept, rank, C)
    <2> HIDE DEF C
    <2> QED
        BY <1>6, <1>11, <1>12, <1>13 DEF Named
<1> HIDE DEF C, checks, devices
<1>15. Lists(checks, {"smart"}, C)
    BY <1>14, NamedIs
<1> QED
    BY <1>7, <1>8, <1>15 DEF C

-----------------------------------------------------------------------------
(* Arrays.                                                                 *)

\* How many of some numbers come up to one.
Below(S, i) == Cardinality({j \in S : j <= i})

\* They are the first of them in order.
LEMMA BelowIs ==
    ASSUME NEW S \in SUBSET Nat, IsFiniteSet(S), NEW i \in Nat
    PROVE  /\ Below(S, i) \in Nat /\ Below(S, i) <= Len(InOrder(S)) /\ Len(InOrder(S)) \in Nat
           /\ i + 1 \in S => /\ Below(S, i + 1) = Below(S, i) + 1
                             /\ Below(S, i) + 1 <= Len(InOrder(S)) /\ InOrder(S)[Below(S, i) + 1] = i + 1
           /\ i + 1 \notin S => Below(S, i + 1) = Below(S, i)
           /\ \A k \in 1..Below(S, i) : InOrder(S)[k] \in S /\ InOrder(S)[k] <= i
<1> DEFINE B == {j \in S : j <= i}
           D == {j \in S : j <= i + 1}
           p == InOrder(S)
           n == Len(p)
           c == Cardinality(B)
<1>1. IsFiniteSet(B) /\ c \in Nat /\ c <= Cardinality(S)
    <2>1. B \in SUBSET S
        OBVIOUS
    <2> HIDE DEF B
    <2> QED
        BY <2>1, FS_Subset, FS_CardinalityType
<1>2. /\ p \in Seq(S) /\ n = Cardinality(S)
      /\ \A q \in S : Below(S, q) \in 1..Cardinality(S) /\ p[Below(S, q)] = q
      /\ \A k, l \in 1..Cardinality(S) : k < l => p[k] < p[l]
    BY InOrderIs DEF Below
<1>3. n \in Nat /\ \A k \in 1..n : p[k] \in S
    BY <1>2
<1>4. Below(S, i) = c /\ Below(S, i + 1) = Cardinality(D)
    BY DEF Below
<1>5. i + 1 \notin B
    <2>1. ~(i + 1 <= i)
        OBVIOUS
    <2> QED
        BY <2>1
<1>6. D = IF i + 1 \in S THEN B \cup {i + 1} ELSE B
    <2>1. \A j \in S : j <= i + 1 <=> j <= i \/ j = i + 1
        OBVIOUS
    <2> QED
        BY <2>1
<1> HIDE DEF B, D, c
<1>7. i + 1 \in S => Cardinality(D) = c + 1
    BY <1>1, <1>5, <1>6, FS_AddElement DEF c
<1>8. i + 1 \notin S => Cardinality(D) = c
    BY <1>6 DEF c
<1> HIDE DEF p, n
<1>9. i + 1 \in S => c + 1 <= n /\ p[c + 1] = i + 1
    BY <1>2, <1>3, <1>4, <1>7
<1>10. ASSUME NEW k \in 1..c PROVE p[k] \in S /\ p[k] <= i
    <2>1. k \in 1..n /\ k \in Nat
        BY <1>1, <1>2, <1>3
    <2>2. p[k] \in S /\ p[k] \in Nat
        BY <1>3, <2>1
    <2> DEFINE h == p[k]
    <2>3. ASSUME ~(h <= i) PROVE FALSE
        <3> DEFINE E == {j \in S : j <= h}
        <3>1. i < h /\ h \in Nat /\ h \in S
            BY <2>2, <2>3
        <3> HIDE DEF h
        <3>2. B \subseteq E /\ h \in E /\ h \notin B /\ E \in SUBSET S
            <4>1. \A j \in S : j <= i => j <= h
                BY <3>1
            <4>2. h <= h /\ ~(h <= i)
                BY <3>1
            <4> QED
                BY <3>1, <4>1, <4>2 DEF B
        <3>3. Below(S, h) = Cardinality(E)
            BY DEF Below
        <3> HIDE DEF E
        <3>4. IsFiniteSet(E)
            BY <3>2, FS_Subset
        <3>5. c <= Cardinality(E) /\ Cardinality(E) \in Nat /\ c # Cardinality(E)
            BY <3>2, <3>4, FS_Subset, FS_CardinalityType DEF c
        <3>6. Below(S, h) \in 1..n /\ p[Below(S, h)] = h /\ p[k] = h
            BY <1>2, <3>1 DEF h
        <3>7. k < Below(S, h)
            BY <1>1, <2>1, <3>3, <3>5
        <3>8. p[k] < p[Below(S, h)]
            BY <1>2, <2>1, <3>6, <3>7
        <3> QED
            BY <3>1, <3>6, <3>8
    <2> QED
        BY <2>2, <2>3
<1> QED
    BY <1>1, <1>2, <1>3, <1>4, <1>7, <1>8, <1>9, <1>10 DEF p, n

\* What parse_mdstat has after some lines: the arrays that a blank line ended, and the open one.
Arr == [status : STRING, total : Nat, working : Nat, failed : Nat]
RaidState == [out : Seq(Arr), block : {<<>>} \cup {<<a>> : a \in Arr}]
HeaderOf(l) == [status |-> l.status, total |-> 0, working |-> 0, failed |-> 0]
CountedBy(a, l) ==
    [a EXCEPT !.total = l.total, !.working = l.working,
              !.failed = IF Minus(l.total, l.working) > l.down THEN Minus(l.total, l.working) ELSE l.down]
EndedAt(s) == [out |-> s.out \o s.block, block |-> <<>>]
AfterMdLine(s, l) ==
    CASE l.kind = "blank" -> EndedAt(s)
      [] l.kind = "header" -> [s EXCEPT !.block = <<HeaderOf(l)>>]
      [] l.kind = "counts" /\ s.block # <<>> -> [s EXCEPT !.block = <<CountedBy(s.block[1], l)>>]
      [] OTHER -> s

\* The lines of headers, a line that tells of a member that is down, and how far an array goes.
HeaderLines(lines) == {i \in DOMAIN lines : lines[i].kind = "header"}
TellsDown(lines, h, j) ==
    InBlock(lines, h, j) /\ lines[j].kind = "counts" /\ (lines[j].down > 0 \/ lines[j].working < lines[j].total)
ToldDown(lines, k, i) == \E j \in 1..i : TellsDown(lines, Heads(lines)[k], j)
Ended(lines, k, i) == \E j \in Heads(lines)[k]..i : lines[j].kind = "blank"

RaidSoFar(lines, s, i) ==
    /\ s \in RaidState
    /\ Below(HeaderLines(lines), i) = IF s.block = <<>> THEN Len(s.out) ELSE Len(s.out) + 1
    /\ \A k \in 1..Len(s.out) : (s.out[k].failed > 0 <=> ToldDown(lines, k, i)) /\ Ended(lines, k, i)
    /\ s.block # <<>> =>
        /\ s.block[1].failed > 0 <=> ToldDown(lines, Len(s.out) + 1, i)
        /\ \A j \in Heads(lines)[Len(s.out) + 1] + 1..i : lines[j].kind # "blank"

\* What a header starts and what a line of counts adds.
LEMMA MdLineIs ==
    ASSUME NEW l \in MdLine
    PROVE  /\ l.kind = "counts" => l.total \in Nat /\ l.working \in Nat /\ l.down \in Nat
           /\ l.kind = "header" => HeaderOf(l) \in Arr
           /\ l.kind = "counts" => \A a \in Arr : CountedBy(a, l) \in Arr
                                        /\ (CountedBy(a, l).failed > 0 <=> l.down > 0 \/ l.working < l.total)
<1>1. l.kind = "counts" => l.total \in Nat /\ l.working \in Nat /\ l.down \in Nat
    BY DEF MdLine
<1>2. l.kind = "header" => l.status \in STRING
    BY DEF MdLine
<1>3. l.kind = "header" => HeaderOf(l) \in Arr
    BY <1>2 DEF HeaderOf, Arr
<1>4. ASSUME l.kind = "counts", NEW a \in Arr
      PROVE  CountedBy(a, l) \in Arr /\ (CountedBy(a, l).failed > 0 <=> l.down > 0 \/ l.working < l.total)
    <2> DEFINE gone == Minus(l.total, l.working)
               failed == IF gone > l.down THEN gone ELSE l.down
    <2>1. gone \in Nat /\ (gone > 0 <=> l.working < l.total)
        BY <1>1, <1>4 DEF Minus
    <2> HIDE DEF gone
    <2>2. failed \in Nat /\ (failed > 0 <=> l.down > 0 \/ l.working < l.total)
        BY <1>1, <1>4, <2>1
    <2>3. CountedBy(a, l) = [a EXCEPT !.total = l.total, !.working = l.working, !.failed = failed]
        BY DEF CountedBy, gone
    <2> HIDE DEF failed
    <2> QED
        BY <1>1, <1>4, <2>2, <2>3 DEF Arr
<1> QED
    BY <1>1, <1>3, <1>4

\* The headers are finitely many lines.
LEMMA HeadersAre ==
    ASSUME NEW lines \in Seq(MdLine)
    PROVE  /\ HeaderLines(lines) \in SUBSET (1..Len(lines)) /\ HeaderLines(lines) \in SUBSET Nat
           /\ IsFiniteSet(HeaderLines(lines)) /\ Heads(lines) = InOrder(HeaderLines(lines))
<1> DEFINE n == Len(lines)
           S == HeaderLines(lines)
<1>1. n \in Nat /\ DOMAIN lines = 1..n
    OBVIOUS
<1>2. S \in SUBSET (1..n)
    BY <1>1 DEF HeaderLines
<1>3. Heads(lines) = InOrder(S)
    BY DEF Heads, HeaderLines
<1> HIDE DEF n, S
<1>4. IsFiniteSet(1..n)
    BY <1>1, FS_Interval
<1>5. IsFiniteSet(S)
    BY <1>2, <1>4, FS_Subset
<1>6. S \in SUBSET Nat
    BY <1>1, <1>2
<1> QED
    BY <1>2, <1>3, <1>5, <1>6 DEF n, S

\* One more line of mdstat.
LEMMA RaidStep ==
    ASSUME NEW lines \in Seq(MdLine), Apart(lines), NEW i \in Nat, i + 1 \in 1..Len(lines),
           NEW s, RaidSoFar(lines, s, i)
    PROVE  RaidSoFar(lines, AfterMdLine(s, lines[i + 1]), i + 1)
<1> DEFINE S == HeaderLines(lines)
           hd == Heads(lines)
           q == i + 1
           l == lines[q]
           b == Below(S, i)
           m == Len(s.out)
           next == AfterMdLine(s, l)
<1>1. /\ S \in SUBSET Nat /\ IsFiniteSet(S) /\ hd = InOrder(S)
      /\ DOMAIN lines = 1..Len(lines) /\ Len(lines) \in Nat /\ l \in MdLine
    BY HeadersAre
<1>2. \A j : j \in S <=> j \in 1..Len(lines) /\ lines[j].kind = "header"
    BY <1>1 DEF HeaderLines
<1> HIDE DEF S, hd
<1>3. /\ b \in Nat /\ (q \in S => Below(S, q) = b + 1 /\ hd[b + 1] = q)
      /\ q \notin S => Below(S, q) = b
      /\ \A k \in 1..b : hd[k] \in S /\ hd[k] <= i
    BY <1>1, BelowIs
<1>4. /\ s \in RaidState
      /\ b = IF s.block = <<>> THEN m ELSE m + 1
      /\ \A k \in 1..m : (s.out[k].failed > 0 <=> ToldDown(lines, k, i)) /\ Ended(lines, k, i)
      /\ s.block # <<>> =>
           /\ s.block[1].failed > 0 <=> ToldDown(lines, m + 1, i)
           /\ \A j \in hd[m + 1] + 1..i : lines[j].kind # "blank"
    BY DEF RaidSoFar, S, hd
<1>5. /\ s.out \in Seq(Arr) /\ s.block \in {<<>>} \cup {<<a>> : a \in Arr}
      /\ s = [out |-> s.out, block |-> s.block] /\ m \in Nat
    BY <1>4 DEF RaidState
<1>6. q \in 1..Len(lines) /\ q \in Nat /\ q - 1 = i /\ 1..q = 1..i \cup {q}
    OBVIOUS
<1> HIDE DEF b, q
<1>7. ASSUME NEW k PROVE ToldDown(lines, k, q) <=> ToldDown(lines, k, i) \/ TellsDown(lines, hd[k], q)
    BY <1>6 DEF ToldDown, hd
<1>8. ASSUME NEW k \in 1..b PROVE hd[k] \in Nat /\ hd[k] \in 1..i /\ hd[k] < q /\ lines[hd[k]].kind = "header"
    <2>1. hd[k] \in S /\ hd[k] <= i
        BY <1>3
    <2>2. hd[k] \in 1..Len(lines) /\ lines[hd[k]].kind = "header"
        BY <1>2, <2>1
    <2> QED
        BY <2>1, <2>2, <1>6 DEF q
<1>9. ASSUME NEW k \in 1..b, Ended(lines, k, i) PROVE ~TellsDown(lines, hd[k], q) /\ Ended(lines, k, q)
    <2>1. PICK j \in hd[k]..i : lines[j].kind = "blank"
        BY <1>9 DEF Ended, hd
    <2>2. hd[k] \in Nat /\ lines[hd[k]].kind = "header"
        BY <1>8
    <2>3. j # hd[k]
        BY <2>1, <2>2
    <2>4. j \in hd[k] + 1..q /\ j \in hd[k]..q
        BY <1>6, <2>1, <2>2, <2>3 DEF q
    <2> QED
        BY <2>1, <2>4 DEF TellsDown, InBlock, Ended, hd
<1>10. \A k \in 1..m : k \in 1..b
    BY <1>3, <1>4, <1>5
<1>11. \A k \in 1..m : (s.out[k].failed > 0 <=> ToldDown(lines, k, q)) /\ Ended(lines, k, q)
    BY <1>4, <1>7, <1>9, <1>10
<1>12. ASSUME NEW h, lines[q].kind # "counts" PROVE ~TellsDown(lines, h, q)
    BY <1>12 DEF TellsDown
<1>13. q \in S <=> l.kind = "header"
    BY <1>2, <1>6
<1>14. s.block # <<>> => m + 1 \in 1..b /\ b = m + 1
    BY <1>4, <1>5
<1>15. /\ l.kind = "counts" => l.total \in Nat /\ l.working \in Nat /\ l.down \in Nat
       /\ l.kind = "header" => HeaderOf(l) \in Arr
       /\ l.kind = "counts" => \A a \in Arr : CountedBy(a, l) \in Arr
                                        /\ (CountedBy(a, l).failed > 0 <=> l.down > 0 \/ l.working < l.total)
    BY <1>1, MdLineIs
<1>16. ASSUME s.block # <<>> PROVE \E a \in Arr : s.block = <<a>> /\ s.block[1] = a
    BY <1>5, <1>16
\* Two headers, and two lines of counts, have a blank line between them.
<1>17. ASSUME NEW j \in 1..i, lines[j].kind = l.kind, l.kind \in {"header", "counts"}
       PROVE  \E k \in j + 1..i : lines[k].kind = "blank"
    <2>1. j \in DOMAIN lines /\ q \in DOMAIN lines /\ j < q
        BY <1>1, <1>6 DEF q
    <2>2. PICK k \in j..q : lines[k].kind = "blank"
        BY <1>17, <2>1 DEF Apart
    <2>3. k # j /\ k # q
        BY <1>17, <2>2
    <2>4. k \in j + 1..i
        BY <2>3 DEF q
    <2> QED
        BY <2>2, <2>4
<1> HIDE DEF l, m
<1>20. CASE l.kind = "blank"
    <2>0. next = EndedAt(s) /\ Below(S, q) = b /\ ~(\E h : TellsDown(lines, h, q))
        BY <1>3, <1>12, <1>13, <1>20 DEF AfterMdLine, l
    <2>1. CASE s.block = <<>>
        <3>1. s.out \o s.block = s.out
            BY <1>5, <2>1
        <3>2. next = [out |-> s.out, block |-> <<>>]
            BY <2>0, <3>1 DEF EndedAt
        <3>3. next = s
            BY <1>5, <2>1, <3>2
        <3>4. Below(S, q) = m
            BY <1>4, <2>0, <2>1
        <3> HIDE DEF next
        <3> QED
            BY <1>4, <1>11, <2>1, <3>3, <3>4 DEF RaidSoFar, S, m, next, l, q
    <2>2. CASE s.block # <<>>
        <3>1. PICK a \in Arr : s.block = <<a>> /\ s.block[1] = a
            BY <1>16, <2>2
        <3> DEFINE out == s.out \o <<a>>
        <3>2. next = [out |-> out, block |-> <<>>]
            BY <2>0, <3>1 DEF EndedAt
        <3>3. out \in Seq(Arr) /\ Len(out) = m + 1 /\ out[m + 1] = a /\ \A k \in 1..m : out[k] = s.out[k]
            BY <1>5, <3>1 DEF m
        <3>4. Below(S, q) = m + 1
            BY <1>4, <2>0, <2>2
        <3>5. a.failed > 0 <=> ToldDown(lines, m + 1, q)
            BY <1>4, <1>7, <2>0, <2>2, <3>1
        <3>6. Ended(lines, m + 1, q)
            <4>1. hd[m + 1] \in Nat /\ hd[m + 1] < q
                BY <1>8, <1>14, <2>2
            <4>2. q \in hd[m + 1]..q
                BY <1>6, <4>1
            <4> QED
                BY <1>20, <4>2 DEF Ended, hd, l
        <3> HIDE DEF next, out
        <3>7. \A k \in 1..Len(out) : (out[k].failed > 0 <=> ToldDown(lines, k, q)) /\ Ended(lines, k, q)
            <4>1. \A k \in 1..m + 1 : k \in 1..m \/ k = m + 1
                BY <1>5
            <4> QED
                BY <1>11, <3>3, <3>5, <3>6, <4>1
        <3>8. next.out = out /\ next.block = <<>> /\ next \in RaidState
            BY <3>2, <3>3 DEF RaidState
        <3>9. RaidSoFar(lines, next, q)
            BY <3>3, <3>4, <3>7, <3>8 DEF RaidSoFar, S
        <3> QED
            BY <3>9 DEF next, l, q
    <2> QED
        BY <2>1, <2>2
<1>21. CASE l.kind = "header"
    <2>1. s.block = <<>>
        <3> SUFFICES ASSUME s.block # <<>> PROVE FALSE
            OBVIOUS
        <3>1. hd[m + 1] \in 1..i /\ lines[hd[m + 1]].kind = "header"
            BY <1>8, <1>14
        <3>2. \E k \in hd[m + 1] + 1..i : lines[k].kind = "blank"
            BY <1>17, <1>21, <3>1
        <3> QED
            BY <1>4, <3>2
    <2>2. Below(S, q) = m + 1 /\ hd[m + 1] = q
        BY <1>3, <1>4, <1>13, <1>21, <2>1
    <2> DEFINE a == HeaderOf(l)
    <2>3. a \in Arr /\ a.failed = 0
        BY <1>15, <1>21 DEF HeaderOf
    <2>4. next = [s EXCEPT !.block = <<a>>]
        BY <1>21 DEF AfterMdLine
    <2> HIDE DEF a, next
    <2>5. next.out = s.out /\ next.block = <<a>> /\ next \in RaidState
        BY <1>4, <2>3, <2>4 DEF RaidState
    <2>6. next.block # <<>> /\ next.block[1] = a
        BY <2>5
    <2>7. ~ToldDown(lines, m + 1, q)
        <3>1. ASSUME NEW j \in 1..q PROVE ~TellsDown(lines, q, j)
            <4>1. ~(q < j)
                BY <1>6
            <4> QED
                BY <4>1 DEF TellsDown, InBlock
        <3> QED
            BY <2>2, <3>1 DEF ToldDown, hd
    <2>8. \A j \in hd[m + 1] + 1..q : lines[j].kind # "blank"
        <3>1. hd[m + 1] + 1..q = {}
            BY <1>6, <2>2
        <3> QED
            BY <3>1
    <2>9. RaidSoFar(lines, next, q)
        BY <1>11, <2>2, <2>3, <2>5, <2>6, <2>7, <2>8 DEF RaidSoFar, S, hd, m
    <2> QED
        BY <2>9 DEF next, l, q
<1>22. CASE l.kind = "counts" /\ s.block # <<>>
    <2>1. PICK a \in Arr : s.block = <<a>> /\ s.block[1] = a
        BY <1>16, <1>22
    <2> DEFINE c == CountedBy(a, l)
    <2>2. c \in Arr /\ (c.failed > 0 <=> l.down > 0 \/ l.working < l.total)
        BY <1>15, <1>22
    <2>3. next = [s EXCEPT !.block = <<c>>]
        BY <1>22, <2>1 DEF AfterMdLine
    <2> HIDE DEF c, next
    <2>4. next.out = s.out /\ next.block = <<c>> /\ next \in RaidState
        BY <1>4, <2>2, <2>3 DEF RaidState
    <2>5. next.block # <<>> /\ next.block[1] = c
        BY <2>4
    <2>6. Below(S, q) = m + 1
        BY <1>3, <1>4, <1>13, <1>22
    <2>7. hd[m + 1] \in Nat /\ hd[m + 1] \in 1..i /\ hd[m + 1] < q
        BY <1>8, <1>14, <1>22
    <2>8. \A j \in hd[m + 1] + 1..q : lines[j].kind # "blank"
        <3>1. \A j \in hd[m + 1] + 1..q : j \in hd[m + 1] + 1..i \/ j = q
            BY <2>7 DEF q
        <3> QED
            BY <1>4, <1>22, <3>1 DEF l
    <2>9. TellsDown(lines, hd[m + 1], q) <=> l.down > 0 \/ l.working < l.total
        BY <1>22, <2>7, <2>8 DEF TellsDown, InBlock, l
    <2>10. ~ToldDown(lines, m + 1, i)
        <3> SUFFICES ASSUME NEW j \in 1..i, TellsDown(lines, hd[m + 1], j) PROVE FALSE
            BY DEF ToldDown, hd
        <3>1. hd[m + 1] < j /\ lines[j].kind = "counts"
            BY DEF TellsDown, InBlock
        <3>2. PICK k \in j + 1..i : lines[k].kind = "blank"
            BY <1>17, <1>22, <3>1
        <3>3. k \in hd[m + 1] + 1..i
            BY <2>7, <3>1
        <3> QED
            BY <1>4, <1>22, <3>2, <3>3
    <2>11. c.failed > 0 <=> ToldDown(lines, m + 1, q)
        BY <1>7, <2>2, <2>9, <2>10
    <2>12. RaidSoFar(lines, next, q)
        BY <1>11, <2>4, <2>5, <2>6, <2>8, <2>11 DEF RaidSoFar, S, hd, m
    <2> QED
        BY <2>12 DEF next, l, q
<1>23. CASE l.kind \notin {"blank", "header"} /\ ~(l.kind = "counts" /\ s.block # <<>>)
    <2>1. next = s /\ Below(S, q) = b
        BY <1>3, <1>13, <1>23 DEF AfterMdLine
    <2>2. ASSUME s.block # <<>>
          PROVE  /\ s.block[1].failed > 0 <=> ToldDown(lines, m + 1, q)
                 /\ \A j \in hd[m + 1] + 1..q : lines[j].kind # "blank"
        <3>1. ~TellsDown(lines, hd[m + 1], q)
            BY <1>12, <1>23, <2>2 DEF l
        <3>2. hd[m + 1] \in Nat
            BY <1>8, <1>14, <2>2
        <3>3. \A j \in hd[m + 1] + 1..q : j \in hd[m + 1] + 1..i \/ j = q
            BY <3>2 DEF q
        <3>4. \A j \in hd[m + 1] + 1..q : lines[j].kind # "blank"
            BY <1>4, <1>23, <2>2, <3>3 DEF l
        <3>5. s.block[1].failed > 0 <=> ToldDown(lines, m + 1, q)
            BY <1>4, <1>7, <2>2, <3>1
        <3> QED
            BY <3>4, <3>5
    <2> HIDE DEF next
    <2>3. RaidSoFar(lines, next, q)
        BY <1>4, <1>11, <2>1, <2>2 DEF RaidSoFar, S, hd, m
    <2> QED
        BY <2>3 DEF next, l, q
<1> QED
    BY <1>20, <1>21, <1>22, <1>23

\* The arrays of mdstat are its headers, and one has failed when its lines say so.
LEMMA ArraysAre ==
    ASSUME NEW lines \in Seq(MdLine), Apart(lines)
    PROVE  /\ Arrays(lines) \in Seq(Arr) /\ Len(Arrays(lines)) = Len(Heads(lines)) /\ Len(Heads(lines)) \in Nat
           /\ \A k \in 1..Len(Heads(lines)) : Arrays(lines)[k].failed > 0 <=> ArrayFails(lines, k)
<1> DEFINE n == Len(lines)
           S == HeaderLines(lines)
           base == [out |-> <<>>, block |-> <<>>]
           follow == [p \in Nat \X RaidState |-> IF p[1] \in 1..n THEN AfterMdLine(p[2], lines[p[1]]) ELSE p[2]]
           Body(g) == [i \in 0..n |-> IF i = 0 THEN base ELSE AfterMdLine(g[i - 1], lines[i])]
           upTo == CHOOSE g : g = Body(g)
<1>1. n \in Nat /\ DOMAIN lines = 1..n
    OBVIOUS
<1>2. \A i \in 1..n : lines[i] \in MdLine
    OBVIOUS
<1>3. Arrays(lines) = EndedAt(upTo[n]).out
    BY DEF Arrays, AfterMdLine, EndedAt, HeaderOf, CountedBy
<1> HIDE DEF n
<1>4. S \in SUBSET (1..n) /\ S \in SUBSET Nat /\ IsFiniteSet(S) /\ Heads(lines) = InOrder(S)
    BY HeadersAre DEF n
<1> HIDE DEF S
<1>5. \A s \in RaidState : \A l \in MdLine : AfterMdLine(s, l) \in RaidState
    <2> SUFFICES ASSUME NEW s \in RaidState, NEW l \in MdLine PROVE AfterMdLine(s, l) \in RaidState
        OBVIOUS
    <2>1. s.out \in Seq(Arr) /\ s.block \in {<<>>} \cup {<<a>> : a \in Arr}
        BY DEF RaidState
    <2>2. CASE l.kind = "blank"
        <3>1. s.block \in Seq(Arr)
            <4>1. \A a \in Arr : <<a>> \in Seq(Arr)
                OBVIOUS
            <4>2. <<>> \in Seq(Arr)
                OBVIOUS
            <4> QED
                BY <2>1, <4>1, <4>2
        <3>2. s.out \o s.block \in Seq(Arr)
            BY <2>1, <3>1
        <3> QED
            BY <2>2, <3>2 DEF AfterMdLine, EndedAt, RaidState
    <2>3. CASE l.kind = "header"
        <3> DEFINE a == HeaderOf(l)
        <3>1. a \in Arr
            BY <2>3, MdLineIs
        <3>2. AfterMdLine(s, l) = [s EXCEPT !.block = <<a>>]
            BY <2>3 DEF AfterMdLine
        <3> HIDE DEF a
        <3> QED
            BY <3>1, <3>2 DEF RaidState
    <2>4. CASE l.kind = "counts" /\ s.block # <<>>
        <3> DEFINE a == CountedBy(s.block[1], l)
        <3>0. s.block[1] \in Arr
            BY <2>1, <2>4
        <3>1. a \in Arr
            BY <2>4, <3>0, MdLineIs
        <3>2. AfterMdLine(s, l) = [s EXCEPT !.block = <<a>>]
            BY <2>4 DEF AfterMdLine
        <3> HIDE DEF a
        <3> QED
            BY <3>1, <3>2 DEF RaidState
    <2>5. CASE l.kind \notin {"blank", "header"} /\ ~(l.kind = "counts" /\ s.block # <<>>)
        BY <2>5 DEF AfterMdLine
    <2> QED
        BY <2>2, <2>3, <2>4, <2>5
<1>6. base \in RaidState
    BY DEF RaidState
<1>7. follow \in [Nat \X RaidState -> RaidState]
    BY <1>2, <1>5
<1>8. \A i \in 1..n, s \in RaidState : follow[<<i, s>>] = AfterMdLine(s, lines[i])
    <2>1. \A i \in 1..n : i \in Nat
        BY <1>1
    <2> QED
        BY <2>1
<1> HIDE DEF follow, base
<1>9. PICK f \in [0..n -> RaidState] : Recurs(f, base, follow, n)
    BY <1>1, <1>6, <1>7, Recursion
<1>10. f[0] = base
    BY <1>9 DEF Recurs
<1>11. ASSUME NEW i \in 1..n PROVE i - 1 \in 0..n /\ f[i - 1] \in RaidState /\ f[i] = AfterMdLine(f[i - 1], lines[i])
    <2>1. i - 1 \in 0..n
        BY <1>1
    <2> QED
        BY <1>8, <1>9, <2>1 DEF Recurs
<1>12. f = Body(f)
    <2>1. ASSUME NEW i \in 0..n PROVE f[i] = IF i = 0 THEN base ELSE AfterMdLine(f[i - 1], lines[i])
        <3>1. i = 0 \/ i \in 1..n
            BY <1>1
        <3>2. ~(0 \in 1..n)
            BY <1>1
        <3> QED
            BY <1>10, <1>11, <3>1, <3>2
    <2> QED
        BY <2>1
<1>13. upTo = Body(upTo)
    BY <1>12
<1> HIDE DEF upTo
<1>14. upTo[0] = base /\ \A i \in 1..n : upTo[i] = AfterMdLine(upTo[i - 1], lines[i])
    <2>1. 0 \in 0..n /\ \A i \in 1..n : i \in 0..n /\ i # 0
        BY <1>1
    <2> QED
        BY <1>13, <2>1
<1> DEFINE T == {i \in Nat : i \in 0..n => RaidSoFar(lines, upTo[i], i)}
<1>15. 0 \in T
    <2>1. base.out = <<>> /\ base.block = <<>>
        BY DEF base
    <2>2. Below(S, 0) = 0
        <3>1. \A j \in S : ~(j <= 0)
            BY <1>1, <1>4
        <3>2. {j \in S : j <= 0} = {}
            BY <3>1
        <3> QED
            BY <3>2, FS_EmptySet DEF Below
    <2>3. Len(<<>>) = 0 /\ 1..0 = {}
        OBVIOUS
    <2>4. RaidSoFar(lines, base, 0)
        BY <1>6, <2>1, <2>2, <2>3 DEF RaidSoFar, S
    <2> QED
        BY <1>14, <2>4
<1>16. ASSUME NEW i \in 0..n, i < n, i \in T PROVE i + 1 \in T
    <2>1. i \in Nat /\ i + 1 \in 1..n /\ i + 1 \in Nat /\ (i + 1) - 1 = i
        BY <1>1, <1>16
    <2>2. RaidSoFar(lines, upTo[i], i)
        BY <1>16
    <2>3. upTo[i + 1] = AfterMdLine(upTo[i], lines[i + 1])
        BY <1>14, <2>1
    <2>4. i + 1 \in 1..Len(lines)
        BY <2>1 DEF n
    <2> HIDE DEF T
    <2>5. RaidSoFar(lines, AfterMdLine(upTo[i], lines[i + 1]), i + 1)
        BY <2>1, <2>2, <2>4, RaidStep
    <2> QED
        BY <2>1, <2>3, <2>5 DEF T
<1> HIDE DEF T
<1>17. 0..n \subseteq T
    BY <1>1, <1>15, <1>16, UpTo
<1>18. n \in 0..n /\ n \in T
    BY <1>1, <1>17
<1> DEFINE s == upTo[n]
           m == Len(s.out)
           out == s.out \o s.block
<1>19. RaidSoFar(lines, s, n)
    BY <1>18 DEF T
<1> HIDE DEF s
<1>20. /\ s.out \in Seq(Arr) /\ s.block \in {<<>>} \cup {<<a>> : a \in Arr} /\ m \in Nat
       /\ Below(S, n) = IF s.block = <<>> THEN m ELSE m + 1
       /\ \A k \in 1..m : s.out[k].failed > 0 <=> ToldDown(lines, k, n)
       /\ s.block # <<>> => (s.block[1].failed > 0 <=> ToldDown(lines, m + 1, n))
    <2>1. s.out \in Seq(Arr) /\ s.block \in {<<>>} \cup {<<a>> : a \in Arr} /\ m \in Nat
        BY <1>19 DEF RaidSoFar, RaidState
    <2> QED
        BY <1>19, <2>1 DEF RaidSoFar, S
<1>21. Below(S, n) = Len(Heads(lines)) /\ Len(Heads(lines)) \in Nat
    <2>1. {j \in S : j <= n} = S
        BY <1>1, <1>4
    <2>2. Below(S, n) = Cardinality(S)
        BY <2>1 DEF Below
    <2> QED
        BY <1>4, <2>2, InOrderIs, FS_CardinalityType
<1>22. \A k : ToldDown(lines, k, n) <=> ArrayFails(lines, k)
    BY <1>1 DEF ToldDown, ArrayFails, TellsDown
<1>23. Arrays(lines) = out
    BY <1>3 DEF EndedAt, s
<1>24. CASE s.block = <<>>
    <2>1. out = s.out /\ Len(Heads(lines)) = m
        BY <1>20, <1>21, <1>24
    <2> QED
        BY <1>20, <1>21, <1>22, <1>23, <2>1
<1>25. CASE s.block # <<>>
    <2>1. PICK a \in Arr : s.block = <<a>> /\ s.block[1] = a
        BY <1>20, <1>25
    <2>2. out \in Seq(Arr) /\ Len(out) = m + 1 /\ out[m + 1] = a /\ \A k \in 1..m : out[k] = s.out[k]
        BY <1>20, <2>1
    <2>3. Len(Heads(lines)) = m + 1
        BY <1>20, <1>21, <1>25
    <2>4. \A k \in 1..m + 1 : k \in 1..m \/ k = m + 1
        BY <1>20
    <2>5. a.failed > 0 <=> ArrayFails(lines, m + 1)
        BY <1>20, <1>22, <1>25, <2>1
    <2>6. \A k \in 1..m : out[k].failed > 0 <=> ArrayFails(lines, k)
        BY <1>20, <1>22, <2>2
    <2> HIDE DEF out, m
    <2>7. \A k \in 1..m + 1 : out[k].failed > 0 <=> ArrayFails(lines, k)
        BY <2>2, <2>4, <2>5, <2>6
    <2> QED
        BY <1>21, <1>23, <2>2, <2>3, <2>7
<1> QED
    BY <1>24, <1>25

\* A check for every array.
LEMMA RaidsAre ==
    ASSUME NEW lines \in Seq(MdLine), Apart(lines)
    PROVE  Lists(RaidChecks(Arrays(lines)), {"raid"}, CriticalOf("raid", lines))
<1> DEFINE arrays == Arrays(lines)
           n == Len(Heads(lines))
           rankOf(a) == IF a.failed > 0 THEN Crit ELSE IF a.working < a.total \/ a.status # "active" THEN Warn ELSE Ok
           place == [k \in 1..n |-> k]
           rank == [k \in 1..n |-> rankOf(arrays[k])]
           checks == [k \in 1..n |-> Check(<<"raid", place[k]>>, rank[k])]
           C == CriticalOf("raid", lines)
<1>1. arrays \in Seq(Arr) /\ Len(arrays) = n /\ n \in Nat /\ \A k \in 1..n : arrays[k].failed > 0 <=> ArrayFails(lines, k)
    BY ArraysAre
<1>2. DOMAIN Heads(lines) = 1..n
    <2> DEFINE S == HeaderLines(lines)
    <2>1. S \in SUBSET Nat /\ IsFiniteSet(S) /\ Heads(lines) = InOrder(S)
        BY HeadersAre
    <2> HIDE DEF S
    <2> QED
        BY <2>1, PlacesIs
<1>3. C = {<<"raid", k>> : k \in {j \in 1..n : ArrayFails(lines, j)}}
    BY <1>2 DEF CriticalOf
<1>4. RaidChecks(arrays) = [i \in DOMAIN arrays |-> Check(<<"raid", i>>, rankOf(arrays[i]))]
    BY DEF RaidChecks
<1> HIDE DEF arrays, n
<1>5. DOMAIN arrays = 1..n
    BY <1>1
<1>6. RaidChecks(arrays) = checks
    BY <1>4, <1>5
<1>7. \A k \in 1..n : /\ place[k] = k /\ place[k] \in Nat
                      /\ rank[k] \in {Ok, Warn, Crit} /\ (rank[k] = Crit <=> ArrayFails(lines, k))
    <2> SUFFICES ASSUME NEW k \in 1..n
                 PROVE  /\ place[k] = k /\ place[k] \in Nat
                        /\ rank[k] \in {Ok, Warn, Crit} /\ (rank[k] = Crit <=> ArrayFails(lines, k))
        OBVIOUS
    <2>1. place[k] = k /\ k \in Nat
        BY <1>1
    <2>2. rank[k] = rankOf(arrays[k])
        OBVIOUS
    <2>3. arrays[k].failed > 0 <=> ArrayFails(lines, k)
        BY <1>1
    <2>4. rankOf(arrays[k]) \in {Ok, Warn, Crit} /\ (rankOf(arrays[k]) = Crit <=> arrays[k].failed > 0)
        BY DEF Crit, Warn, Ok
    <2> HIDE DEF place, rank, rankOf
    <2> QED
        BY <2>1, <2>2, <2>3, <2>4
<1> HIDE DEF place, rank
<1>8. \A k \in 1..n : rank[k] = Crit => <<"raid", place[k]>> \in C
    BY <1>3, <1>7
<1>9. \A x \in C : \E k \in 1..n : rank[k] = Crit /\ x = <<"raid", place[k]>>
    <2> SUFFICES ASSUME NEW x \in C PROVE \E k \in 1..n : rank[k] = Crit /\ x = <<"raid", place[k]>>
        OBVIOUS
    <2>1. PICK k \in 1..n : ArrayFails(lines, k) /\ x = <<"raid", k>>
        BY <1>3
    <2> QED
        BY <1>7, <2>1
<1>10. Named(checks, "raid", n, place, rank, C)
    <2> HIDE DEF C
    <2> QED
        BY <1>1, <1>7, <1>8, <1>9 DEF Named
<1> HIDE DEF C, checks
<1>11. Lists(checks, {"raid"}, C)
    BY <1>10, NamedIs
<1> QED
    BY <1>6, <1>11 DEF C, arrays

-----------------------------------------------------------------------------
(* The rollup.                                                             *)

\* What a plugin says of a machine that is as its sources may be.
StatsFrom(m) == [p \in DOMAIN m |-> StatsOf(p, m[p])]
CriticalFrom(m) == [p \in Judged |-> IF p \in DOMAIN m THEN CriticalOf(p, m[p]) ELSE {}]

\* The checks of each plugin are of what its source says.
LEMMA PartsAre ==
    ASSUME NEW m, MachineOK(m), NEW p \in Judged
    PROVE  Lists(PartOf(StatsFrom(m), p), {KindOf(p)}, CriticalFrom(m)[p])
<1> DEFINE s == StatsFrom(m)
<1>1. DOMAIN s = DOMAIN m /\ \A r \in DOMAIN m : s[r] = StatsOf(r, m[r])
    BY DEF StatsFrom
<1>2. CriticalFrom(m)[p] = IF p \in DOMAIN m THEN CriticalOf(p, m[p]) ELSE {}
    BY DEF CriticalFrom
<1> HIDE DEF s
<1>3. CASE p \notin DOMAIN m
    <2>1. PartOf(s, p) = <<>> /\ CriticalFrom(m)[p] = {}
        BY <1>1, <1>2, <1>3 DEF PartOf
    <2> QED
        BY <2>1, ListsNone DEF s
<1>4. CASE p \in DOMAIN m
    <2> DEFINE C == CriticalOf(p, m[p])
               v == m[p]
    <2>1. CriticalFrom(m)[p] = C /\ s[p] = StatsOf(p, v) /\ p \in DOMAIN s
        BY <1>1, <1>2, <1>4
    <2> SUFFICES Lists(PartOf(s, p), {KindOf(p)}, C)
        BY <2>1 DEF s
    <2>2. CASE p = "alert"
        <3>1. v \in Seq(Alert) /\ KindOf(p) = "alerts"
            BY <1>4, <2>2 DEF MachineOK, KindOf
        <3>2. PartOf(s, p) = AlertChecks(v)
            BY <2>1, <2>2 DEF PartOf, StatsOf
        <3> HIDE DEF v
        <3> QED
            BY <2>2, <3>1, <3>2, AlertsAre DEF v
    <2>3. CASE p = "fs"
        <3>1. /\ \/ v.from = "mounts" /\ v.table \in Seq(MountLine)
                 \/ v.from = "snmp" /\ v.units \in BOOLEAN /\ Table(v.cells)
              /\ KindOf(p) = "fs"
            BY <1>4, <2>3 DEF MachineOK, KindOf
        <3>2. PartOf(s, p) = FsChecks(IF v.from = "snmp" THEN SnmpMounts(v) ELSE Mounts(v.table))
            BY <2>1, <2>3 DEF PartOf, StatsOf
        <3> HIDE DEF v
        <3>3. CASE v.from = "mounts" /\ v.table \in Seq(MountLine)
            <4>1. v.from # "snmp"
                BY <3>3
            <4>2. PartOf(s, p) = FsChecks(Mounts(v.table))
                BY <3>2, <4>1
            <4> QED
                BY <2>3, <3>1, <3>3, <4>2, MountsAre DEF v
        <3>4. CASE v.from = "snmp" /\ v.units \in BOOLEAN /\ Table(v.cells)
            <4>1. PartOf(s, p) = FsChecks(SnmpMounts(v))
                BY <3>2, <3>4
            <4> QED
                BY <2>3, <3>1, <3>4, <4>1, SnmpAre DEF v
        <3> QED
            BY <3>1, <3>3, <3>4
    <2>4. CASE p = "gpu"
        <3>1. v \in Seq(Figure) /\ KindOf(p) = "gpu"
            BY <1>4, <2>4 DEF MachineOK, KindOf
        <3>2. PartOf(s, p) = GpuChecks(v)
            BY <2>1, <2>4 DEF PartOf, StatsOf
        <3> HIDE DEF v
        <3> QED
            BY <2>4, <3>1, <3>2, GpusAre DEF v
    <2>5. CASE p = "mem"
        <3>1. v \in Figure /\ KindOf(p) = "memory"
            BY <1>4, <2>5 DEF MachineOK, KindOf
        <3>2. PartOf(s, p) = PctCheck("memory", v, 90, 95)
            BY <2>1, <2>5 DEF PartOf, StatsOf
        <3>3. C = {<<"memory">> : x \in {w \in {v} : Over(w, 95)}}
            BY <2>5 DEF CriticalOf
        <3>4. Lists(PctCheck("memory", v, 90, 95), {"memory"}, {<<"memory">> : x \in {w \in {v} : Over(w, 95)}})
            <4>1. 90 \in Int /\ 95 \in Int
                OBVIOUS
            <4> HIDE DEF v
            <4> QED
                BY <3>1, <4>1, PctIs
        <3> HIDE DEF v, C
        <3> QED
            BY <3>1, <3>2, <3>3, <3>4
    <2>6. CASE p = "memswap"
        <3>1. v \in Figure /\ KindOf(p) = "swap"
            BY <1>4, <2>6 DEF MachineOK, KindOf
        <3>2. PartOf(s, p) = PctCheck("swap", v, 50, 90)
            BY <2>1, <2>6 DEF PartOf, StatsOf
        <3>3. C = {<<"swap">> : x \in {w \in {v} : Over(w, 90)}}
            BY <2>6 DEF CriticalOf
        <3>4. Lists(PctCheck("swap", v, 50, 90), {"swap"}, {<<"swap">> : x \in {w \in {v} : Over(w, 90)}})
            <4>1. 50 \in Int /\ 90 \in Int
                OBVIOUS
            <4> HIDE DEF v
            <4> QED
                BY <3>1, <4>1, PctIs
        <3> HIDE DEF v, C
        <3> QED
            BY <3>1, <3>2, <3>3, <3>4
    <2>7. CASE p = "sensors"
        <3>1. v \in Seq(Sensor) /\ KindOf(p) = "temperature"
            BY <1>4, <2>7 DEF MachineOK, KindOf
        <3>2. PartOf(s, p) = TemperatureCheck(v)
            BY <2>1, <2>7 DEF PartOf, StatsOf
        <3> HIDE DEF v
        <3> QED
            BY <2>7, <3>1, <3>2, TemperatureIs DEF v
    <2>8. CASE p = "raid"
        <3>1. v \in Seq(MdLine) /\ Apart(v) /\ KindOf(p) = "raid"
            BY <1>4, <2>8 DEF MachineOK, KindOf
        <3>2. PartOf(s, p) = RaidChecks(Arrays(v))
            BY <2>1, <2>8 DEF PartOf, StatsOf
        <3> HIDE DEF v
        <3> QED
            BY <2>8, <3>1, <3>2, RaidsAre DEF v
    <2>9. CASE p = "smart"
        <3>1. v \in Seq(Disk) /\ KindOf(p) = "smart"
            BY <1>4, <2>9 DEF MachineOK, KindOf
        <3>2. PartOf(s, p) = SmartChecks(Devices(v))
            BY <2>1, <2>9 DEF PartOf, StatsOf
        <3> HIDE DEF v
        <3> QED
            BY <2>9, <3>1, <3>2, SmartAre DEF v
    <2> QED
        BY <2>2, <2>3, <2>4, <2>5, <2>6, <2>7, <2>8, <2>9 DEF Judged
<1> QED
    BY <1>3, <1>4

\* What is critical is so for a plugin with checks.
LEMMA CriticalIs ==
    ASSUME NEW m
    PROVE  UNION {CriticalFrom(m)[p] : p \in Judged} = Critical(m)
<1>1. \A p \in Judged : CriticalFrom(m)[p] = IF p \in DOMAIN m THEN CriticalOf(p, m[p]) ELSE {}
    BY DEF CriticalFrom
<1>2. \A p : p \notin Judged => CriticalOf(p, m[p]) = {}
    BY DEF CriticalOf, Judged
<1>3. \A x : x \in Critical(m) <=> \E p \in DOMAIN m : x \in CriticalOf(p, m[p])
    BY DEF Critical
<1>4. \A x : x \in UNION {CriticalFrom(m)[p] : p \in Judged} <=> \E p \in Judged : x \in CriticalFrom(m)[p]
    OBVIOUS
<1>5. \A x : (\E p \in Judged : x \in CriticalFrom(m)[p]) <=> \E p \in DOMAIN m : x \in CriticalOf(p, m[p])
    BY <1>1, <1>2
<1> QED
    BY <1>3, <1>4, <1>5

\* The stats are those of the machine, and the machine is one that may be.
HealthInv == MachineOK(machine) /\ stats = StatsFrom(machine)

\* A tick shows the stats of one machine, whose sources are as they may be.
THEOREM HealthInvariant == HealthSpec => []HealthInv
<1>1. HealthInit => HealthInv
    BY DEF HealthInit, HealthInv, MachineOK, StatsFrom
<1>2. HealthInv /\ [HealthNext]_healthVars => HealthInv'
    <2> SUFFICES ASSUME HealthInv, [HealthNext]_healthVars PROVE HealthInv'
        OBVIOUS
    <2>1. CASE HealthNext
        <3>1. PICK m \in Machines : HealthTick(m)
            BY <2>1 DEF HealthNext
        <3>2. MachineOK(m)
            BY HealthAssumption
        <3> QED
            BY <3>1, <3>2 DEF HealthTick, HealthInv, StatsFrom
    <2>2. CASE UNCHANGED healthVars
        BY <2>2 DEF healthVars, HealthInv
    <2> QED
        BY <2>1, <2>2
<1> QED
    BY <1>1, <1>2, PTL DEF HealthSpec

\* Of such stats the rollup names what is critical.
LEMMA WorstFirst ==
    ASSUME HealthInv PROVE HealthIsWorst
<1> DEFINE crit == CriticalFrom(machine)
           K == {"alerts", "fs", "gpu", "memory", "raid", "smart", "swap", "temperature"}
           C == Critical(machine)
           page == ChecksOf(stats)
           k == Len(OfRank(page, Crit))
           w == Len(OfRank(page, Warn))
           h == HealthValue
<1>1. \A p \in Judged : Lists(PartOf(stats, p), {KindOf(p)}, crit[p])
    BY PartsAre DEF HealthInv
<1>2. UNION {crit[p] : p \in Judged} = C
    BY CriticalIs
<1> HIDE DEF crit, K, C
<1>3. \E all : /\ Lists(all, K, UNION {crit[p] : p \in Judged})
               /\ page = FlattenSeq([n \in 1..3 |-> OfRank(all, <<Crit, Warn, Ok>>[n])])
    BY <1>1, ChecksAre DEF K
<1>4. PICK all : Lists(all, K, C) /\ page = FlattenSeq([n \in 1..3 |-> OfRank(all, <<Crit, Warn, Ok>>[n])])
    BY <1>2, <1>3
<1>5. /\ h.status = IF k > 0 THEN Crit ELSE IF w > 0 THEN Warn ELSE Ok
      /\ h.critical = k /\ h.checks = page
    BY DEF HealthValue, Ok, Warn, Crit
<1> HIDE DEF page
<1> DEFINE q == FlattenSeq([n \in 1..3 |-> OfRank(all, <<Crit, Warn, Ok>>[n])])
<1>6. LET r == Len(OfRank(q, Crit))
      IN /\ (r > 0) = (C # {})
         /\ r = Cardinality(C)
         /\ {q[i].name : i \in 1..r} = C
         /\ Cardinality({q[i].name : i \in DOMAIN q}) = Len(q)
         /\ \A i, j \in DOMAIN q : i < j => q[i].rank >= q[j].rank
    BY ONLY <1>4, PageOf
<1>7. page = q
    BY <1>4
<1> HIDE DEF q
<1>8. /\ (k > 0) = (C # {})
      /\ k = Cardinality(C)
      /\ {page[i].name : i \in 1..k} = C
      /\ Cardinality({page[i].name : i \in DOMAIN page}) = Len(page)
      /\ \A i, j \in DOMAIN page : i < j => page[i].rank >= page[j].rank
    BY <1>6, <1>7
<1> HIDE DEF k, w, h
<1>9. (h.status = Crit) = (k > 0)
    BY <1>5 DEF Crit, Warn, Ok
<1>10. /\ (h.status = Crit) = (C # {})
       /\ h.critical = Cardinality(C)
       /\ {h.checks[i].name : i \in 1..h.critical} = C
       /\ Cardinality({h.checks[i].name : i \in DOMAIN h.checks}) = Len(h.checks)
       /\ \A i, j \in DOMAIN h.checks : i < j => h.checks[i].rank >= h.checks[j].rank
    BY <1>5, <1>8, <1>9
<1> QED
    BY <1>10 DEF HealthIsWorst, C, h

\* health_value: the rollup is critical when something is, names each such thing once and
\* first, and counts them right, whatever the sources say.
THEOREM HealthIsWorstAlways == HealthSpec => []HealthIsWorst
<1>1. HealthInv => HealthIsWorst
    BY WorstFirst
<1> QED
    BY <1>1, HealthInvariant, PTL

-----------------------------------------------------------------------------
(* The file.                                                               *)

\* The least of some places.
LEMMA FirstIs ==
    ASSUME NEW S \in SUBSET Nat, S # {}
    PROVE  FirstAmong(S) \in S /\ \A k \in S : FirstAmong(S) <= k
<1>1. \E n \in S : \A k \in S : n <= k
    BY LeastOf
<1> QED
    BY <1>1 DEF FirstAmong

\* What is kept of a file.
SomeValue == Int \cup {NoLimit} \cup Commands
SomeWhat == Bands \cup {"LOG", "once", "repeat"}
SomeSection == STRING \cup {"default"}
SomeKey == SomeSection \X Seq(STRING) \X SomeWhat
Parsed == [section : SomeSection, values : UNION {[D -> SomeValue] : D \in SUBSET SomeKey}]
Unparsed == [section |-> "default", values |-> EmptyMap]

\* A line is of one of the kinds, and has what lines of its kind have.
LEMMA LineIs ==
    ASSUME NEW l \in FileLines
    PROVE  /\ l.kind \in {"skip", "bad", "header", "entry"}
           /\ l.kind = "entry" =>
                  /\ l.stat \in Seq(STRING) /\ l.what \in Bands \cup {"LOG", "once", "repeat"}
                  /\ l.what \in Bands => l.value \in Int \cup {NoLimit}
                  /\ l.value \in SomeValue
           /\ l.kind = "header" => l.name \in STRING
BY DEF FileLines, Bands, SomeValue

\* What a setup is made of.
LEMMA SetupIs ==
    ASSUME NEW s \in Setup
    PROVE  /\ s.override \in BOOLEAN /\ s.xdg \in BOOLEAN /\ s.home \in BOOLEAN /\ s.prefix \in BOOLEAN
           /\ \A p \in {"override", "user", "system", "package", "cwd"} :
                  s.at[p] \in {Missing, Unreadable} \cup Seq(FileLines)
BY DEF Setup

\* The lines that count are those of the file that is read, if it has no bad line.
LEMMA FileIs ==
    ASSUME setup \in Setup
    PROVE  /\ Resolve(setup) \in {"override", "user", "system", "package", "cwd"}
           /\ LET file == setup.at[Resolve(setup)]
              IN FileMeant = IF file \in {Missing, Unreadable} \/ \E i \in DOMAIN file : file[i].kind = "bad"
                             THEN <<>> ELSE file
<1> DEFINE open(n) == CASE n = 1 -> setup.xdg \/ setup.home [] n = 2 -> setup.home [] n = 3 -> setup.prefix
           there == {n \in 1..3 : open(n) /\ setup.at[Probed[n]] # Missing}
           existing == {n \in CandidatePaths(setup) : setup.at[Probed[n]] # Missing}
           candidates == CandidatePaths(setup)
           file == setup.at[Resolve(setup)]
<1>1. candidates = {n \in 1..3 : open(n)}
    <2>1. ASSUME NEW n \in 1..3
          PROVE  open(n) <=> \/ n = 1 /\ (setup.xdg \/ setup.home)
                             \/ n = 2 /\ setup.home
                             \/ n = 3 /\ setup.prefix
        <3>1. n = 1 \/ n = 2 \/ n = 3
            OBVIOUS
        <3>2. CASE n = 1
            BY <3>2
        <3>3. CASE n = 2
            BY <3>3
        <3>4. CASE n = 3
            BY <3>4
        <3> QED
            BY <3>1, <3>2, <3>3, <3>4
    <2> HIDE DEF open
    <2>2. \A n \in 1..3 : n \in candidates <=> open(n)
        BY <2>1 DEF CandidatePaths
    <2>3. candidates \subseteq 1..3
        BY DEF CandidatePaths
    <2> HIDE DEF candidates
    <2> QED
        BY <2>2, <2>3
<1> HIDE DEF open
<1>2. there = existing /\ candidates \in SUBSET Nat /\ existing \in SUBSET Nat /\ candidates \subseteq 1..3
      /\ existing \subseteq candidates
    <2>1. 1..3 \in SUBSET Nat
        OBVIOUS
    <2> QED
        BY <1>1, <2>1
<1>3. \A n \in 1..3 : Probed[n] \in {"user", "system", "package"} /\ Probed[n] = <<"user", "system", "package">>[n]
    BY DEF Probed
<1>4. (candidates # {} <=> \E n \in 1..3 : open(n))
    BY <1>1
<1>5. setup.override \in BOOLEAN
    BY SetupIs
<1>6. (existing # {} => FirstAmong(existing) \in existing) /\ (candidates # {} => FirstAmong(candidates) \in candidates)
    BY <1>2, FirstIs
<1>7. there # {} => (CHOOSE n \in there : \A k \in there : n <= k) = FirstAmong(existing)
    BY <1>2 DEF FirstAmong
<1> DEFINE meant == CASE setup.override -> setup.at["override"]
                      [] ~setup.override /\ there # {} ->
                            setup.at[Probed[CHOOSE n \in there : \A k \in there : n <= k]]
                      [] ~setup.override /\ there = {} ->
                            IF \E n \in 1..3 : open(n) THEN Missing ELSE setup.at["cwd"]
<1>8. FileMeant = IF meant \in {Missing, Unreadable} THEN <<>>
                  ELSE IF \E i \in DOMAIN meant : meant[i].kind = "bad" THEN <<>> ELSE meant
    BY DEF FileMeant, Probed, open
<1> HIDE DEF there, existing, candidates
<1>9. Resolve(setup) = IF setup.override THEN "override"
                       ELSE IF existing # {} THEN Probed[FirstAmong(existing)]
                       ELSE IF candidates # {} THEN Probed[FirstAmong(candidates)]
                       ELSE "cwd"
    BY DEF Resolve, existing, candidates
<1>10. meant = file
    <2>1. CASE setup.override
        BY <2>1, <1>9
    <2>2. CASE ~setup.override /\ existing # {}
        BY <2>2, <1>2, <1>7, <1>9
    <2>3. CASE ~setup.override /\ existing = {} /\ candidates # {}
        <3>1. FirstAmong(candidates) \in candidates /\ FirstAmong(candidates) \notin existing
            BY <2>3, <1>6
        <3>2. setup.at[Probed[FirstAmong(candidates)]] = Missing
            BY <3>1 DEF existing, candidates
        <3> QED
            BY <2>3, <3>2, <1>2, <1>4, <1>9
    <2>4. CASE ~setup.override /\ existing = {} /\ candidates = {}
        BY <2>4, <1>2, <1>4, <1>9
    <2> QED
        BY <1>5, <2>1, <2>2, <2>3, <2>4
<1>11. Resolve(setup) \in {"override", "user", "system", "package", "cwd"}
    BY <1>2, <1>3, <1>6, <1>9
<1> HIDE DEF meant
<1> QED
    BY <1>8, <1>10, <1>11

\* A map with one more entry.
LEMMA WithEntryIs ==
    ASSUME NEW D \in SUBSET SomeKey, NEW f \in [D -> SomeValue], NEW key \in SomeKey, NEW v \in SomeValue
    PROVE  /\ WithEntry(f, key, v) \in [D \cup {key} -> SomeValue] /\ D \cup {key} \in SUBSET SomeKey
           /\ WithEntry(f, key, v)[key] = v
           /\ \A k \in D : k # key => WithEntry(f, key, v)[k] = f[k]
BY DEF WithEntry

\* A line keeps what is parsed of its shape.
LEMMA LineParses ==
    ASSUME NEW c \in Parsed, NEW l \in FileLines, l.kind # "bad"
    PROVE  AfterLineOf(c, l) \in Parsed
<1>1. c.section \in SomeSection /\ c.values \in UNION {[D -> SomeValue] : D \in SUBSET SomeKey}
    BY DEF Parsed
<1>2. PICK D \in SUBSET SomeKey : c.values \in [D -> SomeValue]
    BY <1>1
<1>3. CASE l.kind = "skip"
    BY <1>3 DEF AfterLineOf
<1>4. CASE l.kind = "header"
    <2>1. l.name \in SomeSection
        BY <1>4, LineIs DEF SomeSection
    <2>2. AfterLineOf(c, l) = [c EXCEPT !.section = l.name]
        BY <1>4 DEF AfterLineOf
    <2> QED
        BY <2>1, <2>2 DEF Parsed
<1>5. CASE l.kind = "entry"
    <2> DEFINE key == <<c.section, l.stat, l.what>>
               w == WithEntry(c.values, key, l.value)
    <2>1. AfterLineOf(c, l) = [c EXCEPT !.values = w]
        BY <1>5 DEF AfterLineOf
    <2>2. key \in SomeKey /\ l.value \in SomeValue
        BY <1>1, <1>5, LineIs DEF SomeKey, SomeWhat
    <2>3. w \in UNION {[E -> SomeValue] : E \in SUBSET SomeKey}
        <3> DEFINE E == D \cup {key}
        <3>1. w \in [E -> SomeValue] /\ E \in SUBSET SomeKey
            BY <1>2, <2>2, WithEntryIs
        <3> HIDE DEF w, E, key
        <3> QED
            BY <3>1
    <2> HIDE DEF w
    <2> QED
        BY <2>1, <2>3 DEF Parsed
<1> QED
    BY <1>3, <1>4, <1>5, LineIs

\* The lines are taken one at a time.
LEMMA ConfigIs ==
    ASSUME setup \in Setup
    PROVE  /\ FileMeant \in Seq(FileLines) /\ \A i \in 1..Len(FileMeant) : FileMeant[i].kind # "bad"
           /\ \E f \in [0..Len(FileMeant) -> Parsed] :
                  /\ f[0] = Unparsed
                  /\ \A i \in 1..Len(FileMeant) : f[i] = AfterLineOf(f[i - 1], FileMeant[i])
                  /\ Config(setup) = f[Len(FileMeant)].values
<1> DEFINE file == setup.at[Resolve(setup)]
           bad == \E i \in DOMAIN file : file[i].kind = "bad"
<1>1. file \in {Missing, Unreadable} \cup Seq(FileLines)
    BY FileIs, SetupIs
<1>2. FileMeant = IF file \in {Missing, Unreadable} \/ bad THEN <<>> ELSE file
    BY FileIs
<1>3. Unparsed \in Parsed /\ Unparsed.values = EmptyMap
    <2>1. EmptyMap \in [{} -> SomeValue]
        BY DEF EmptyMap
    <2>2. EmptyMap \in UNION {[D -> SomeValue] : D \in SUBSET SomeKey}
        BY <2>1
    <2> QED
        <3> DEFINE U == UNION {[D -> SomeValue] : D \in SUBSET SomeKey}
        <3>1. EmptyMap \in U /\ Parsed = [section : SomeSection, values : U]
            BY <2>2 DEF Parsed
        <3> HIDE DEF U
        <3>2. "default" \in SomeSection
            BY DEF SomeSection
        <3>3. Unparsed.section = "default" /\ Unparsed.values = EmptyMap
            BY DEF Unparsed
        <3>4. Unparsed \in [section : SomeSection, values : U]
            BY <3>1, <3>2 DEF Unparsed
        <3> QED
            BY <3>1, <3>3, <3>4
<1>4. CASE file \in {Missing, Unreadable} \/ bad
    <2> DEFINE f == [i \in 0..0 |-> Unparsed]
    <2>1. FileMeant = <<>> /\ Len(<<>>) = 0 /\ 1..0 = {} /\ <<>> \in Seq(FileLines)
        BY <1>2, <1>4
    <2>2. Config(setup) = EmptyMap
        BY <1>4 DEF Config
    <2>3. f \in [0..0 -> Parsed] /\ f[0] = Unparsed
        BY <1>3
    <2> QED
        BY <2>1, <2>2, <2>3, <1>3
<1>5. CASE ~(file \in {Missing, Unreadable} \/ bad)
    <2> DEFINE n == Len(file)
               follow == [p \in Nat \X Parsed |-> IF p[1] \in 1..n THEN AfterLineOf(p[2], file[p[1]]) ELSE p[2]]
               Body(g) == [i \in 0..n |-> IF i = 0 THEN [section |-> "default", values |-> EmptyMap]
                                          ELSE AfterLineOf(g[i - 1], file[i])]
               after == CHOOSE g : g = Body(g)
    <2>1. FileMeant = file /\ file \in Seq(FileLines) /\ n \in Nat /\ DOMAIN file = 1..n
        BY <1>1, <1>2, <1>5
    <2>2. \A i \in 1..n : file[i] \in FileLines /\ file[i].kind # "bad"
        BY <1>5, <2>1
    <2>3. Config(setup) = after[n].values
        BY <1>5 DEF Config
    <2> HIDE DEF n, file
    <2>4. follow \in [Nat \X Parsed -> Parsed]
        BY <2>2, LineParses
    <2>5. \A i \in 1..n, c \in Parsed : follow[<<i, c>>] = AfterLineOf(c, file[i])
        <3>1. \A i \in 1..n : i \in Nat
            BY <2>1
        <3> QED
            BY <3>1
    <2> HIDE DEF follow
    <2>6. PICK f \in [0..n -> Parsed] : Recurs(f, Unparsed, follow, n)
        BY <1>3, <2>1, <2>4, Recursion
    <2>7. f[0] = Unparsed
        BY <2>6 DEF Recurs
    <2>8. ASSUME NEW i \in 1..n PROVE f[i] = AfterLineOf(f[i - 1], file[i])
        <3>1. i - 1 \in 0..n
            BY <2>1
        <3> QED
            BY <2>5, <2>6, <3>1 DEF Recurs
    <2>9. f = Body(f)
        <3>1. ASSUME NEW i \in 0..n
              PROVE  f[i] = IF i = 0 THEN [section |-> "default", values |-> EmptyMap] ELSE AfterLineOf(f[i - 1], file[i])
            <4>1. i = 0 \/ i \in 1..n
                BY <2>1
            <4>2. ~(0 \in 1..n)
                BY <2>1
            <4> QED
                BY <2>7, <2>8, <4>1, <4>2 DEF Unparsed
        <3> QED
            BY <3>1
    <2>10. after = Body(after)
        BY <2>9
    <2> HIDE DEF after
    <2>11. after[0] = Unparsed /\ \A i \in 1..n : after[i] = AfterLineOf(after[i - 1], file[i])
        <3>1. 0 \in 0..n /\ \A i \in 1..n : i \in 0..n /\ i # 0
            BY <2>1
        <3> QED
            BY <2>10, <3>1 DEF Unparsed
    <2> DEFINE T == {i \in Nat : i \in 0..n => after[i] = f[i]}
    <2>12. 0 \in T
        BY <2>7, <2>11
    <2>13. ASSUME NEW i \in 0..n, i < n, i \in T PROVE i + 1 \in T
        <3>1. i \in Nat /\ i + 1 \in 1..n /\ (i + 1) - 1 = i
            BY <2>1, <2>13
        <3>2. after[i] = f[i]
            BY <2>13
        <3>3. after[i + 1] = f[i + 1]
            BY <2>8, <2>11, <3>1, <3>2
        <3> QED
            BY <3>1, <3>3
    <2> HIDE DEF T
    <2>14. 0..n \subseteq T
        BY <2>1, <2>12, <2>13, UpTo
    <2>15. n \in 0..n
        BY <2>1
    <2>16. after[n] = f[n]
        BY <2>14, <2>15 DEF T
    <2> QED
        BY <2>1, <2>2, <2>3, <2>6, <2>7, <2>8, <2>16 DEF n
<1> QED
    BY <1>4, <1>5

\* Line i is under a header of the plugin that is followed.
Under(file, i) ==
    \E h \in 1..i - 1 : /\ file[h].kind = "header" /\ file[h].name = followed
                        /\ \A j \in h + 1..i - 1 : file[j].kind # "header"

\* The lines up to n that give a key of it a value.
WrittenIn(file, stat, what, n) ==
    {i \in 1..n : /\ file[i].kind = "entry" /\ file[i].stat = stat /\ file[i].what = what
                  /\ Under(file, i)}

\* A header begins a section, and every other line is in that of the line before.
LEMMA UnderNext ==
    ASSUME NEW file, NEW n \in Nat, NEW k \in 1..n
    PROVE  Under(file, k + 1) <=> IF file[k].kind = "header" THEN file[k].name = followed ELSE Under(file, k)
<1>1. k \in Nat /\ (k + 1) - 1 = k /\ 1..k = 1..(k - 1) \cup {k} /\ k \in 1..k /\ k + 1..k = {}
      /\ \A h \in 1..k - 1 : h \in 1..k /\ k \in h + 1..k /\ h + 1..k = (h + 1..k - 1) \cup {k}
    OBVIOUS
<1>2. CASE file[k].kind = "header"
    <2>1. ASSUME NEW h \in 1..k, \A j \in h + 1..k : file[j].kind # "header" PROVE h = k
        BY <1>1, <1>2, <2>1
    <2> QED
        BY <1>1, <1>2, <2>1 DEF Under
<1>3. CASE file[k].kind # "header"
    <2>1. ASSUME NEW h \in 1..k - 1
          PROVE  (\A j \in h + 1..k : file[j].kind # "header") <=> (\A j \in h + 1..k - 1 : file[j].kind # "header")
        <3>1. h + 1..k = (h + 1..k - 1) \cup {k}
            BY <1>1
        <3> QED
            BY <1>3, <3>1
    <2>2. \A h \in 1..k : file[h].kind = "header" => h \in 1..k - 1
        BY <1>1, <1>3
    <2> QED
        BY <1>1, <1>3, <2>1, <2>2 DEF Under
<1> QED
    BY <1>2, <1>3

\* What is parsed of the first i lines is what they say, the last of a key.
LEMMA ConfigSays ==
    ASSUME setup \in Setup, followed # "default"
    PROVE  LET file == FileMeant
           IN \A t, w : LET key == <<followed, t, w>>
                            lines == WrittenIn(file, t, w, Len(file))
                        IN /\ key \in DOMAIN Config(setup) <=> lines # {}
                           /\ \A k \in lines : (\A j \in lines : j <= k) => Config(setup)[key] = file[k].value
<1> DEFINE file == FileMeant
           n == Len(file)
<1>1. PICK f \in [0..n -> Parsed] : /\ f[0] = Unparsed
                                    /\ \A i \in 1..n : f[i] = AfterLineOf(f[i - 1], file[i])
                                    /\ Config(setup) = f[n].values
    BY ConfigIs
<1>2. n \in Nat /\ \A i \in 1..n : file[i] \in FileLines /\ file[i].kind # "bad"
    BY ConfigIs
<1> HIDE DEF n, file
<1> DEFINE Holds(c, t, w, i) ==
               LET key == <<followed, t, w>>
                   lines == WrittenIn(file, t, w, i)
               IN /\ key \in DOMAIN c.values <=> lines # {}
                  /\ \A k \in lines : (\A j \in lines : j <= k) => c.values[key] = file[k].value
           Good(i) == (f[i].section = followed <=> Under(file, i + 1)) /\ \A t, w : Holds(f[i], t, w, i)
           T == {i \in Nat : i \in 0..n => Good(i)}
<1>3. 0 \in T
    <2>1. f[0].section = "default" /\ f[0].values = EmptyMap /\ DOMAIN EmptyMap = {}
        BY <1>1 DEF Unparsed, EmptyMap
    <2>2. ~Under(file, 0 + 1)
        <3>1. 1..(0 + 1) - 1 = {}
            OBVIOUS
        <3> QED
            BY <3>1 DEF Under
    <2>3. \A t, w : WrittenIn(file, t, w, 0) = {}
        <3>1. 1..0 = {}
            OBVIOUS
        <3> QED
            BY <3>1 DEF WrittenIn
    <2> QED
        BY <2>1, <2>2, <2>3
<1>4. ASSUME NEW i \in 0..n, i < n, i \in T PROVE i + 1 \in T
    <2> DEFINE k == i + 1
               l == file[k]
               c == f[i]
               d == f[k]
    <2>1. i \in Nat /\ k \in 1..n /\ k \in Nat /\ k \in 0..n /\ k - 1 = i /\ 1..k = 1..i \cup {k} /\ ~(k \in 1..i)
          /\ \A j \in 1..i : j <= k /\ ~(k <= j) /\ j \in Nat
        BY <1>2, <1>4
    <2>2. d = AfterLineOf(c, l) /\ c \in Parsed /\ l \in FileLines /\ l.kind # "bad"
        BY <1>1, <1>2, <2>1
    <2>0. Good(i)
        <3> HIDE DEF Good
        <3> QED
            BY <1>4
    <2>3. c.section = followed <=> Under(file, k)
        BY <2>0
    <2>4. \A t, w : Holds(c, t, w, i)
        BY <2>0
    <2>5. Under(file, k + 1) <=> IF l.kind = "header" THEN l.name = followed ELSE Under(file, k)
        BY <1>2, <2>1, UnderNext
    <2>6. SUFFICES (d.section = followed <=> Under(file, k + 1)) /\ \A t, w : Holds(d, t, w, k)
        <3>1. Good(k)
            BY <2>6
        <3> HIDE DEF Good
        <3> QED
            BY <2>1, <3>1
    <2> HIDE DEF T, Good, c, d
    <2>7. c.section \in SomeSection /\ c.values \in UNION {[D -> SomeValue] : D \in SUBSET SomeKey}
        BY <2>2 DEF Parsed
    <2>8. PICK D \in SUBSET SomeKey : c.values \in [D -> SomeValue]
        BY <2>7
    <2>9. c = [section |-> c.section, values |-> c.values]
        BY <2>2 DEF Parsed
    <2>10. \A t, w : WrittenIn(file, t, w, k) =
                WrittenIn(file, t, w, i) \cup
                IF l.kind = "entry" /\ l.stat = t /\ l.what = w /\ Under(file, k) THEN {k} ELSE {}
        <3> SUFFICES ASSUME NEW t, NEW w
                     PROVE  WrittenIn(file, t, w, k) =
                                WrittenIn(file, t, w, i) \cup
                                IF l.kind = "entry" /\ l.stat = t /\ l.what = w /\ Under(file, k) THEN {k} ELSE {}
            OBVIOUS
        <3> QED
            BY <2>1 DEF WrittenIn
    <2>11. CASE l.kind # "entry"
        <3>1. \A t, w : WrittenIn(file, t, w, k) = WrittenIn(file, t, w, i)
            BY <2>10, <2>11
        <3>2. d.values = c.values /\ d.section = IF l.kind = "header" THEN l.name ELSE c.section
            BY <2>2, <2>9, <2>11, LineIs DEF AfterLineOf
        <3> QED
            BY <2>3, <2>4, <2>5, <3>1, <3>2
    <2>12. CASE l.kind = "entry"
        <3> DEFINE key == <<c.section, l.stat, l.what>>
        <3>1. d.section = c.section /\ d.values = WithEntry(c.values, key, l.value)
            BY <2>2, <2>9, <2>12 DEF AfterLineOf
        <3>2. key \in SomeKey /\ l.value \in SomeValue
            BY <2>2, <2>7, <2>12, LineIs DEF SomeKey, SomeWhat
        <3>3. DOMAIN c.values = D /\ DOMAIN d.values = D \cup {key} /\ d.values[key] = l.value
              /\ \A x \in D : x # key => d.values[x] = c.values[x]
            <4> HIDE DEF key
            <4>1. /\ WithEntry(c.values, key, l.value) \in [D \cup {key} -> SomeValue]
                  /\ WithEntry(c.values, key, l.value)[key] = l.value
                  /\ \A x \in D : x # key => WithEntry(c.values, key, l.value)[x] = c.values[x]
                <5> DEFINE v == c.values
                           e == l.value
                <5>1. v \in [D -> SomeValue] /\ e \in SomeValue /\ D \in SUBSET SomeKey /\ key \in SomeKey
                    BY <2>8, <3>2
                <5> HIDE DEF v, e
                <5>2. /\ WithEntry(v, key, e) \in [D \cup {key} -> SomeValue] /\ WithEntry(v, key, e)[key] = e
                      /\ \A x \in D : x # key => WithEntry(v, key, e)[x] = v[x]
                    BY ONLY <5>1 DEF WithEntry
                <5> QED
                    BY <5>2 DEF v, e
            <4> QED
                BY <2>8, <3>1, <4>1
        <3>4. ASSUME NEW t, NEW w PROVE Holds(d, t, w, k)
            <4> DEFINE lines == WrittenIn(file, t, w, i)
                       after == WrittenIn(file, t, w, k)
                       asked == <<followed, t, w>>
            <4>1. Holds(c, t, w, i)
                BY <2>4
            <4>2. lines \subseteq 1..i
                BY DEF WrittenIn
            <4>3. CASE l.stat = t /\ l.what = w /\ Under(file, k)
                <5>1. asked = key /\ after = lines \cup {k}
                    BY <2>3, <2>10, <2>12, <4>3
                <5>2. \A j \in after : (\A m \in after : m <= j) => j = k
                    BY <2>1, <4>2, <5>1
                <5> HIDE DEF lines, after, key, asked
                <5>3. asked \in DOMAIN d.values /\ d.values[asked] = l.value /\ after # {}
                    BY <3>3, <5>1
                <5> QED
                    BY <5>2, <5>3 DEF lines, after, asked
            <4>4. CASE ~(l.stat = t /\ l.what = w /\ Under(file, k))
                <5>0. asked # key
                    BY <2>3, <4>4
                <5>1. asked # key /\ after = lines
                    BY <2>10, <2>12, <4>4, <5>0
                <5> HIDE DEF key
                <5>2. asked \in DOMAIN d.values <=> asked \in DOMAIN c.values
                    BY <3>3, <5>1
                <5>3. asked \in DOMAIN c.values => d.values[asked] = c.values[asked]
                    BY <3>3, <5>1
                <5>4. (asked \in DOMAIN c.values <=> lines # {})
                      /\ \A m \in lines : (\A j \in lines : j <= m) => c.values[asked] = file[m].value
                    BY <4>1
                <5> HIDE DEF lines, after, asked
                <5>5. /\ asked \in DOMAIN d.values <=> after # {}
                      /\ \A m \in after : (\A j \in after : j <= m) => d.values[asked] = file[m].value
                    BY <5>1, <5>2, <5>3, <5>4
                <5> QED
                    BY <5>5 DEF after, asked
            <4> QED
                BY <4>3, <4>4
        <3> QED
            BY <2>3, <2>5, <2>12, <3>1, <3>4
    <2> QED
        BY <2>11, <2>12
<1> HIDE DEF T
<1>5. 0..n \subseteq T
    BY <1>2, <1>3, <1>4, UpTo
<1>6. Good(n)
    <2> HIDE DEF Good
    <2>1. n \in 0..n
        BY <1>2
    <2> QED
        BY <1>5, <2>1 DEF T
<1>7. \A t, w : Holds(f[n], t, w, n)
    BY <1>6
<1> QED
    BY <1>1, <1>7 DEF n, file

-----------------------------------------------------------------------------
(* Limits.                                                                 *)

\* A name without the plugin's is what was put after it.
LEMMA NameAfter ==
    ASSUME NEW p, NEW s \in Seq(STRING)
    PROVE  /\ Tail(<<p>> \o s) = s
           /\ \A r \in Seq(STRING) : <<p>> \o r = <<p>> \o s => r = s
<1>1. ASSUME NEW r \in Seq(STRING) PROVE Tail(<<p>> \o r) = r
    <2>1. Len(<<p>> \o r) = Len(r) + 1 /\ <<p>> \o r # <<>> /\ <<p>> \o r \in Seq({p} \cup STRING)
        OBVIOUS
    <2>2. \A i \in 1..Len(r) : (<<p>> \o r)[i + 1] = r[i]
        OBVIOUS
    <2> QED
        BY <2>1, <2>2
<1> QED
    BY <1>1

\* The keys of a map of defaults and what is configured.
LEMMA WithDefaultsIs ==
    ASSUME NEW f, NEW g, NEW key
    PROVE  /\ key \in DOMAIN WithDefaults(f, g) <=> key \in DOMAIN f \/ key \in DOMAIN g
           /\ key \in DOMAIN g => WithDefaults(f, g)[key] = g[key]
           /\ key \in DOMAIN f /\ key \notin DOMAIN g => WithDefaults(f, g)[key] = f[key]
BY DEF WithDefaults

\* A limit is what the file says of it, else what is built in.
LEMMA LimitsAre ==
    ASSUME setup \in Setup, followed # "default", NEW t, NEW w
    PROVE  LET said == Says(FileMeant, t, w)
               given == LimitsOf(followed, Config(setup))
               builtIn == DefaultLimits(followed)
               key == <<t, w>>
           IN /\ said # {} => key \in DOMAIN given /\ said = {given[key]}
              /\ said = {} => /\ key \in DOMAIN given <=> key \in DOMAIN builtIn
                              /\ key \in DOMAIN builtIn => given[key] = builtIn[key]
<1> DEFINE file == FileMeant
           n == Len(file)
           config == Config(setup)
           own == {k \in DOMAIN config : k[1] = followed}
           names == {<<<<followed>> \o x[2], x[3]>> : x \in own}
           conf == [k \in names |-> config[<<followed, Tail(k[1]), k[2]>>]]
           key == <<t, w>>
           given == LimitsOf(followed, config)
           builtIn == DefaultLimits(followed)
           lines == {i \in DOMAIN file : /\ file[i].kind = "entry" /\ <<followed>> \o file[i].stat = t
                                         /\ file[i].what = w /\ Under(file, i)}
           said == Says(file, t, w)
<1>1. given = WithDefaults(builtIn, conf)
    BY DEF LimitsOf
<1>2. file \in Seq(FileLines) /\ n \in Nat /\ DOMAIN file = 1..n
    BY ConfigIs
<1>3. DOMAIN config \subseteq SomeKey
    <2>1. PICK f \in [0..n -> Parsed] : config = f[n].values
        BY ConfigIs
    <2>2. n \in 0..n
        BY <1>2
    <2>3. f[n].values \in UNION {[D -> SomeValue] : D \in SUBSET SomeKey}
        BY <2>1, <2>2 DEF Parsed
    <2> QED
        BY <2>1, <2>3
<1>4. \A s, v : LET k == <<followed, s, v>>
                    written == WrittenIn(file, s, v, n)
                IN /\ k \in DOMAIN config <=> written # {}
                   /\ \A i \in written : (\A j \in written : j <= i) => config[k] = file[i].value
    BY ConfigSays
<1>5. said = {file[i].value : i \in {k \in lines : \A j \in lines : j <= k}}
    BY DEF Says, Under
<1>6. \A i \in 1..n : file[i] \in FileLines /\ (file[i].kind = "entry" => file[i].stat \in Seq(STRING))
    BY <1>2, LineIs
<1> HIDE DEF file, n, config, said, builtIn, given
<1>7. CASE lines = {}
    <2>1. said = {}
        BY <1>5, <1>7
    <2>2. key \notin names
        <3> SUFFICES ASSUME NEW x \in own, key = <<<<followed>> \o x[2], x[3]>> PROVE FALSE
            OBVIOUS
        <3>1. x \in SomeKey /\ x[1] = followed /\ x \in DOMAIN config
            BY <1>3
        <3>2. x = <<followed, x[2], x[3]>>
            BY <3>1 DEF SomeKey
        <3>3. PICK i : i \in WrittenIn(file, x[2], x[3], n)
            BY <1>4, <3>1, <3>2
        <3>4. i \in lines
            BY <1>2, <3>3 DEF WrittenIn
        <3> QED
            BY <1>7, <3>4
    <2>3. DOMAIN conf = names
        OBVIOUS
    <2> HIDE DEF conf, names, key
    <2> QED
        BY <1>1, <2>1, <2>2, <2>3, WithDefaultsIs DEF key, file, config, said, builtIn, given
<1>8. CASE lines # {}
    <2>1. PICK i : i \in lines
        BY <1>8
    <2> DEFINE s == file[i].stat
               whole == <<followed, s, w>>
    <2>2. s \in Seq(STRING) /\ t = <<followed>> \o s /\ Tail(t) = s
        BY <1>2, <1>6, <2>1, NameAfter
    <2>3. lines = WrittenIn(file, s, w, n)
        <3>1. \A j \in 1..n : file[j].kind = "entry" => (<<followed>> \o file[j].stat = t <=> file[j].stat = s)
            BY <1>6, <2>2, NameAfter
        <3> HIDE DEF s
        <3> QED
            BY <1>2, <3>1 DEF WrittenIn
    <2>4. PICK m \in lines : \A j \in lines : j <= m
        <3>1. lines \in SUBSET Nat /\ IsFiniteSet(lines)
            <4>1. lines \in SUBSET (1..n) /\ IsFiniteSet(1..n) /\ 1..n \subseteq Nat
                BY <1>2, FS_Interval
            <4> HIDE DEF lines
            <4> QED
                BY <4>1, FS_Subset
        <3> HIDE DEF lines
        <3> QED
            BY <1>8, <3>1, GreatestOf
    <2>5. whole \in DOMAIN config /\ config[whole] = file[m].value
        BY <1>4, <2>3, <2>4
    <2>6. said = {file[m].value}
        <3>1. lines \subseteq Nat
            BY <1>2
        <3>2. \A k \in lines : (\A j \in lines : j <= k) => k = m
            <4> HIDE DEF lines
            <4> QED
                BY <2>4, <3>1
        <3> HIDE DEF lines
        <3> QED
            BY <1>5, <2>4, <3>2
    <2>7. key \in names /\ <<followed, Tail(key[1]), key[2]>> = whole
        <3>1. whole \in own /\ whole[2] = s /\ whole[3] = w
            BY <2>5
        <3>2. key = <<<<followed>> \o whole[2], whole[3]>>
            BY <2>2, <3>1
        <3>3. key[1] = t /\ key[2] = w
            OBVIOUS
        <3> HIDE DEF key, whole, own
        <3>4. key \in names
            BY <3>1, <3>2
        <3> QED
            BY <2>2, <3>3, <3>4 DEF whole
    <2>8. key \in DOMAIN conf /\ conf[key] = file[m].value
        <3> HIDE DEF names, key, whole
        <3> QED
            BY <2>5, <2>7
    <2> HIDE DEF conf, key
    <2> QED
        <3>1. key \in DOMAIN given /\ given[key] = file[m].value
            BY <1>1, <2>8, WithDefaultsIs
        <3>2. /\ said # {} => key \in DOMAIN given /\ said = {given[key]}
              /\ said = {} => /\ key \in DOMAIN given <=> key \in DOMAIN builtIn
                              /\ key \in DOMAIN builtIn => given[key] = builtIn[key]
            BY <2>6, <3>1
        <3> HIDE DEF lines
        <3> QED
            BY <3>2 DEF key, file, config, said, builtIn, given
<1> QED
    BY <1>7, <1>8

Followable == {"network", "diskio", "fs", "cpu", "load", "mem", "memswap", "quicklook"}

\* What is built in are the numbers of bands.
LEMMA BandedIs ==
    ASSUME NEW names, NEW x \in Int, NEW y \in Int, NEW z \in Int
    PROVE  /\ DOMAIN Banded(names, x, y, z) = names \X Bands
           /\ \A k \in names \X Bands : Banded(names, x, y, z)[k] \in Int
BY DEF Banded, Bands

\* Whatever is built in is a number of a band.
LEMMA BuiltInIs ==
    ASSUME NEW t, NEW w, <<t, w>> \in DOMAIN DefaultLimits(followed), followed \in Followable, NCpu \in Nat
    PROVE  w \in Bands /\ DefaultLimits(followed)[<<t, w>>] \in Int
<1> DEFINE key == <<t, w>>
           IsBanded(f) == /\ key \in DOMAIN f => w \in Bands /\ f[key] \in Int
<1>1. ASSUME NEW names, NEW x \in Int, NEW y \in Int, NEW z \in Int PROVE IsBanded(Banded(names, x, y, z))
    <2> DEFINE f == Banded(names, x, y, z)
    <2>1. DOMAIN f = names \X Bands /\ \A k \in names \X Bands : f[k] \in Int
        BY <1>1, BandedIs
    <2> HIDE DEF f
    <2> QED
        BY <2>1 DEF f
<1>2. ASSUME NEW names PROVE IsBanded(Standard(names))
    BY <1>1 DEF Standard
<1>3. ASSUME NEW f, NEW g, IsBanded(f), IsBanded(g) PROVE IsBanded(WithDefaults(f, g))
    <2> HIDE DEF key
    <2> QED
        BY <1>3, WithDefaultsIs
<1>4. IsBanded(EmptyMap)
    BY DEF EmptyMap
<1> HIDE DEF IsBanded
<1>5. IsBanded(DefaultLimits(followed))
    <2>1. CASE followed = "cpu"
        <3> DEFINE standard == Standard({<<followed, "user">>, <<followed, "system">>, <<followed, "steal">>, <<followed, "iowait">>})
                   switches == Banded({<<followed, "ctx_switches">>}, 400000 * NCpu, 450000 * NCpu, 500000 * NCpu)
        <3>1. DefaultLimits(followed) = WithDefaults(standard, switches)
            BY <2>1 DEF DefaultLimits
        <3>2. 400000 * NCpu \in Int /\ 450000 * NCpu \in Int /\ 500000 * NCpu \in Int
            OBVIOUS
        <3>3. IsBanded(standard) /\ IsBanded(switches)
            BY <1>1, <1>2, <3>2
        <3> HIDE DEF standard, switches
        <3> QED
            BY <1>3, <3>1, <3>3
    <2>2. CASE followed = "quicklook"
        BY <1>2, <2>2 DEF DefaultLimits
    <2>3. CASE followed = "load"
        <3>1. DefaultLimits(followed) = Banded({<<followed>>}, 7, 10, 50)
            BY <2>3 DEF DefaultLimits
        <3> QED
            BY <1>1, <3>1
    <2>4. CASE followed \in {"mem", "memswap", "fs"}
        BY <1>2, <2>4 DEF DefaultLimits
    <2>5. CASE followed = "network"
        BY <1>2, <2>5 DEF DefaultLimits
    <2>6. CASE followed = "diskio"
        BY <1>4, <2>6 DEF DefaultLimits
    <2> QED
        BY <2>1, <2>2, <2>3, <2>4, <2>5, <2>6 DEF Followable
<1> QED
    BY <1>5 DEF IsBanded

\* What a file says of a band is a number, or nothing that reads as one.
LEMMA SaysIs ==
    ASSUME setup \in Setup, NEW t, NEW w, NEW v \in Says(FileMeant, t, w)
    PROVE  w \in SomeWhat /\ (w \in Bands => v \in Int \cup {NoLimit})
<1>1. PICK i \in DOMAIN FileMeant : FileMeant[i].kind = "entry" /\ FileMeant[i].what = w /\ v = FileMeant[i].value
    BY DEF Says
<1>2. FileMeant[i] \in FileLines
    BY <1>1, ConfigIs
<1> QED
    BY <1>1, <1>2, LineIs DEF SomeWhat

\* The limit of a band that is looked up is the one meant.
LEMMA BoundIs ==
    ASSUME setup \in Setup, followed \in Followable, NCpu \in Nat, NoLimit \notin Int,
           limits = LimitsOf(followed, Config(setup)), NEW t, NEW b \in Bands
    PROVE  LET found == GetLimit(limits, <<followed>>, t, b)
           IN found \in Int \cup {NoLimit} /\ BoundOf(FileMeant, t, b) = {found} \ {NoLimit}
<1> DEFINE file == FileMeant
           builtIn == DefaultLimits(followed)
           own(x) == (IF Says(file, x, b) # {} THEN Says(file, x, b)
                      ELSE {builtIn[k] : k \in {<<x, b>>} \cap DOMAIN builtIn}) \ {NoLimit}
<1>0. followed # "default"
    BY DEF Followable
<1>1. ASSUME NEW x
      PROVE  LimitNumber(limits, <<x, b>>) \in Int \cup {NoLimit} /\ own(x) = {LimitNumber(limits, <<x, b>>)} \ {NoLimit}
    <2> DEFINE key == <<x, b>>
               said == Says(file, x, b)
               number == LimitNumber(limits, key)
    <2>1. /\ said # {} => key \in DOMAIN limits /\ said = {limits[key]}
          /\ said = {} => /\ key \in DOMAIN limits <=> key \in DOMAIN builtIn
                          /\ key \in DOMAIN builtIn => limits[key] = builtIn[key]
        BY <1>0, LimitsAre
    <2>2. \A v \in said : v \in Int \cup {NoLimit}
        BY SaysIs
    <2>3. key \in DOMAIN builtIn => builtIn[key] \in Int
        BY BuiltInIs
    <2>4. number = IF key \in DOMAIN limits THEN limits[key] ELSE NoLimit
        BY DEF LimitNumber
    <2> HIDE DEF said, number, builtIn
    <2>5. CASE said # {}
        <3>1. number = limits[key] /\ said = {number}
            BY <2>1, <2>4, <2>5
        <3> QED
            BY <2>2, <2>5, <3>1 DEF number, said
    <2>6. CASE said = {}
        <3> HIDE DEF key
        <3>1. {builtIn[k] : k \in {key} \cap DOMAIN builtIn} \ {NoLimit} = {number} \ {NoLimit}
            <4>1. CASE key \in DOMAIN builtIn
                <5>1. {key} \cap DOMAIN builtIn = {key} /\ number = builtIn[key]
                    BY <2>1, <2>4, <2>6, <4>1
                <5> QED
                    BY <5>1
            <4>2. CASE key \notin DOMAIN builtIn
                <5>1. {key} \cap DOMAIN builtIn = {} /\ number = NoLimit
                    BY <2>1, <2>4, <2>6, <4>2
                <5> QED
                    BY <5>1
            <4> QED
                BY <4>1, <4>2
        <3>2. number \in Int \cup {NoLimit}
            <4>1. key \in DOMAIN builtIn => limits[key] \in Int
                BY <2>1, <2>3, <2>6
            <4> QED
                BY <2>1, <2>4, <2>6, <4>1
        <3> QED
            BY <2>6, <3>1, <3>2 DEF number, said, key
    <2> QED
        BY <2>5, <2>6
<1>2. BoundOf(file, t, b) = IF own(t) # {} THEN own(t) ELSE own(<<followed>>)
    BY DEF BoundOf
<1> DEFINE first == LimitNumber(limits, <<t, b>>)
           second == LimitNumber(limits, <<<<followed>>, b>>)
<1>3. GetLimit(limits, <<followed>>, t, b) = IF first # NoLimit THEN first ELSE second
    BY DEF GetLimit
<1>4. own(t) = {first} \ {NoLimit} /\ own(<<followed>>) = {second} \ {NoLimit}
      /\ first \in Int \cup {NoLimit} /\ second \in Int \cup {NoLimit}
    BY <1>1
<1> HIDE DEF own, first, second, file
<1> QED
    BY <1>2, <1>3, <1>4 DEF file

\* The band chosen is the most severe one reached.
LEMMA ClassifyIs ==
    ASSUME NEW plugin, NEW stat, NEW m, ~(m.current < m.minimum)
    PROVE  LET limit(b) == GetLimit(limits, plugin, stat, b)
               reaches(b) == Reaches(m, limit(b))
           IN Classify(limits, plugin, stat, m) =
                  IF reaches("CRITICAL") THEN "CRITICAL" ELSE IF reaches("WARNING") THEN "WARNING"
                  ELSE IF reaches("CAREFUL") THEN "CAREFUL"
                  ELSE IF \E b \in Bands : limit(b) # NoLimit THEN "OK" ELSE "DEFAULT"
<1> DEFINE limit(b) == GetLimit(limits, plugin, stat, b)
           reaches(b) == Reaches(m, limit(b))
           reached == {b \in Bands : reaches(b)}
<1>1. Rank("CAREFUL") = 2 /\ Rank("WARNING") = 3 /\ Rank("CRITICAL") = 4
    BY DEF Rank
<1>2. Classify(limits, plugin, stat, m) =
          IF reached # {}
          THEN CHOOSE b \in reached : \A c \in reached : Rank(c) <= Rank(b)
          ELSE IF \E b \in Bands : limit(b) # NoLimit THEN "OK" ELSE "DEFAULT"
    BY DEF Classify
<1>3. \A b : b \in reached <=> b \in {"CAREFUL", "WARNING", "CRITICAL"} /\ reaches(b)
    BY DEF Bands
<1> DEFINE choice == CHOOSE b \in reached : \A c \in reached : Rank(c) <= Rank(b)
<1> HIDE DEF limit, reaches
<1>4. ASSUME NEW b \in reached, \A c \in reached : Rank(c) <= Rank(b) PROVE choice = b
    <2>1. choice \in reached /\ \A c \in reached : Rank(c) <= Rank(choice)
        BY <1>4
    <2> HIDE DEF choice
    <2>2. Rank(choice) <= Rank(b) /\ Rank(b) <= Rank(choice)
        BY <1>4, <2>1
    <2> HIDE DEF reached
    <2> QED
        BY <1>1, <1>3, <1>4, <2>1, <2>2
<1> HIDE DEF choice, reached
<1>5. CASE reaches("CRITICAL")
    <2>1. "CRITICAL" \in reached /\ \A c \in reached : Rank(c) <= Rank("CRITICAL")
        BY <1>1, <1>3, <1>5
    <2>2. choice = "CRITICAL"
        BY <1>4, <2>1
    <2> QED
        BY <1>2, <1>5, <2>1, <2>2 DEF choice, reaches, limit
<1>6. CASE ~reaches("CRITICAL") /\ reaches("WARNING")
    <2>1. "WARNING" \in reached /\ \A c \in reached : Rank(c) <= Rank("WARNING")
        BY <1>1, <1>3, <1>6
    <2>2. choice = "WARNING"
        BY <1>4, <2>1
    <2> QED
        BY <1>2, <1>6, <2>1, <2>2 DEF choice, reaches, limit
<1>7. CASE ~reaches("CRITICAL") /\ ~reaches("WARNING") /\ reaches("CAREFUL")
    <2>1. "CAREFUL" \in reached /\ \A c \in reached : Rank(c) <= Rank("CAREFUL")
        BY <1>1, <1>3, <1>7
    <2>2. choice = "CAREFUL"
        BY <1>4, <2>1
    <2> QED
        BY <1>2, <1>7, <2>1, <2>2 DEF choice, reaches, limit
<1>8. CASE ~reaches("CRITICAL") /\ ~reaches("WARNING") /\ ~reaches("CAREFUL")
    <2>1. reached = {}
        BY <1>3, <1>8
    <2> QED
        BY <1>2, <1>8, <2>1 DEF reaches, limit
<1> QED
    BY <1>5, <1>6, <1>7, <1>8

\* The word of a call is the one meant for its figure.
LEMMA WordIs ==
    ASSUME setup \in Setup, followed \in Followable, NCpu \in Nat, NoLimit \notin Int,
           limits = LimitsOf(followed, Config(setup)),
           NEW field, NEW stat, NEW log, NEW current \in Nat, NEW maximum \in Nat, NEW zeroCounts \in BOOLEAN
    PROVE  WordFor(AlertCall(field, stat, current, maximum, zeroCounts, log))
               = WordMeant(FileMeant, stat, current, maximum, zeroCounts)
<1> DEFINE c == AlertCall(field, stat, current, maximum, zeroCounts, log)
           whole == <<followed>> \o stat
           limit(b) == GetLimit(limits, <<followed>>, whole, b)
           bounds == [b \in Bands |-> BoundOf(FileMeant, whole, b)]
           words == <<"OK", "CAREFUL", "WARNING", "CRITICAL">>
           meets(v) == current * 1000 >= v * maximum
           reached == {n \in 2..4 : \E v \in bounds[words[n]] : meets(v)}
           reaches(b) == Reaches(c.m, limit(b))
           unclassified == maximum = 0 \/ (current = 0 /\ ~zeroCounts)
<1>1. c.stat = whole /\ c.m.current = 10 * current /\ c.m.minimum = 0 /\ c.m.maximum = maximum
      /\ c.m.highlightZero = zeroCounts
    BY DEF AlertCall
<1>2. WordMeant(FileMeant, stat, current, maximum, zeroCounts) =
          IF maximum = 0 \/ (current = 0 /\ ~zeroCounts) \/ \A b \in Bands : bounds[b] = {} THEN "DEFAULT"
          ELSE words[CHOOSE n \in {1} \cup reached : \A k \in reached : k <= n]
    BY DEF WordMeant
<1>3. ASSUME NEW b \in Bands
      PROVE  /\ limit(b) \in Int \cup {NoLimit} /\ bounds[b] = {limit(b)} \ {NoLimit}
             /\ reaches(b) <=> \E v \in bounds[b] : meets(v)
             /\ limit(b) # NoLimit <=> bounds[b] # {}
    <2>1. limit(b) \in Int \cup {NoLimit} /\ bounds[b] = {limit(b)} \ {NoLimit}
        BY BoundIs
    <2>2. reaches(b) <=> limit(b) # NoLimit /\ (10 * current) * 100 >= limit(b) * maximum
        BY <1>1 DEF Reaches
    <2>3. (10 * current) * 100 = current * 1000
        OBVIOUS
    <2> HIDE DEF bounds, limit, reaches, c
    <2> QED
        BY <2>1, <2>2, <2>3
<1>4. Unclassified(c.m) <=> unclassified
    <2>1. 10 * current = 0 <=> current = 0
        OBVIOUS
    <2> HIDE DEF c
    <2> QED
        BY <1>1, <2>1 DEF Unclassified
<1>5. WordFor(c) = IF unclassified THEN "DEFAULT" ELSE Classify(limits, <<followed>>, whole, c.m)
    <2> HIDE DEF c
    <2> QED
        BY <1>1, <1>4 DEF WordFor
<1>6. ~(c.m.current < c.m.minimum)
    BY <1>1
<1>7. Classify(limits, <<followed>>, whole, c.m) =
          IF reaches("CRITICAL") THEN "CRITICAL" ELSE IF reaches("WARNING") THEN "WARNING"
          ELSE IF reaches("CAREFUL") THEN "CAREFUL"
          ELSE IF \E b \in Bands : limit(b) # NoLimit THEN "OK" ELSE "DEFAULT"
    <2> HIDE DEF c
    <2> QED
        BY <1>6, ClassifyIs
<1>8. /\ 4 \in reached <=> reaches("CRITICAL")
      /\ 3 \in reached <=> reaches("WARNING")
      /\ 2 \in reached <=> reaches("CAREFUL")
      /\ reached \subseteq 2..4
    <2>1. words[4] = "CRITICAL" /\ words[3] = "WARNING" /\ words[2] = "CAREFUL"
        OBVIOUS
    <2>2. "CRITICAL" \in Bands /\ "WARNING" \in Bands /\ "CAREFUL" \in Bands
        BY DEF Bands
    <2>3. 4 \in 2..4 /\ 3 \in 2..4 /\ 2 \in 2..4
        OBVIOUS
    <2> HIDE DEF words, bounds, meets, reaches
    <2> QED
        BY <1>3, <2>1, <2>2, <2>3
<1> DEFINE top == CHOOSE n \in {1} \cup reached : \A k \in reached : k <= n
<1>9. /\ 4 \in reached => top = 4
      /\ 4 \notin reached /\ 3 \in reached => top = 3
      /\ 4 \notin reached /\ 3 \notin reached /\ 2 \in reached => top = 2
      /\ 4 \notin reached /\ 3 \notin reached /\ 2 \notin reached => top = 1
    <2> HIDE DEF reached
    <2>1. \A k \in reached : k = 2 \/ k = 3 \/ k = 4
        BY <1>8
    <2>2. ASSUME NEW n \in {1} \cup reached, \A k \in reached : k <= n,
                 \A x \in {1} \cup reached : (\A k \in reached : k <= x) => x = n
          PROVE  top = n
        BY <2>2
    <2> HIDE DEF top
    <2>3. CASE 4 \in reached
        BY <2>1, <2>2, <2>3
    <2>4. CASE 4 \notin reached /\ 3 \in reached
        BY <2>1, <2>2, <2>4
    <2>5. CASE 4 \notin reached /\ 3 \notin reached /\ 2 \in reached
        BY <2>1, <2>2, <2>5
    <2>6. CASE 4 \notin reached /\ 3 \notin reached /\ 2 \notin reached
        <3>1. reached = {}
            BY <2>1, <2>6
        <3> QED
            BY <2>2, <2>6, <3>1
    <2> QED
        BY <2>3, <2>4, <2>5, <2>6
<1>10. words[1] = "OK" /\ words[2] = "CAREFUL" /\ words[3] = "WARNING" /\ words[4] = "CRITICAL"
    OBVIOUS
<1>11. \A b \in Bands : reaches(b) => limit(b) # NoLimit
    BY DEF Reaches
<1>12. (\A b \in Bands : bounds[b] = {}) <=> ~\E b \in Bands : limit(b) # NoLimit
    <2> HIDE DEF bounds, limit
    <2> QED
        BY <1>3
<1>13. "CRITICAL" \in Bands /\ "WARNING" \in Bands /\ "CAREFUL" \in Bands
    BY DEF Bands
<1> HIDE DEF c, reached, reaches, limit, bounds, words, top, meets
<1>14. WordMeant(FileMeant, stat, current, maximum, zeroCounts) =
          IF unclassified \/ ~\E b \in Bands : limit(b) # NoLimit THEN "DEFAULT" ELSE words[top]
    BY <1>2, <1>12 DEF top
<1> QED
    BY <1>5, <1>7, <1>8, <1>9, <1>10, <1>11, <1>13, <1>14 DEF c

-----------------------------------------------------------------------------
(* Views.                                                                  *)

\* The calls that are the last for their figure, and what they leave.
LastOnes(calls) == {n \in DOMAIN calls : \A k \in DOMAIN calls : calls[k].field = calls[n].field => k <= n}
WordsOf(calls) == {<<calls[n].field, WordFor(calls[n])>> : n \in LastOnes(calls)}

\* Later words over earlier ones.
PutOver(earlier, later) == later \cup {p \in earlier : \A q \in later : q[1] # p[1]}

\* Every figure that is called for has a last call.
LEMMA LastIs ==
    ASSUME NEW S, NEW calls \in Seq(S), NEW k \in DOMAIN calls
    PROVE  \E n \in LastOnes(calls) : calls[n].field = calls[k].field
<1> DEFINE same == {n \in DOMAIN calls : calls[n].field = calls[k].field}
           len == Len(calls)
<1>1. same \subseteq 1..len /\ k \in same /\ DOMAIN calls = 1..len /\ len \in Nat
    OBVIOUS
<1>2. IsFiniteSet(1..len) /\ 1..len \subseteq Nat
    BY <1>1, FS_Interval
<1>3. IsFiniteSet(same) /\ same \in SUBSET Nat /\ same # {}
    <2> HIDE DEF same
    <2> QED
        BY <1>1, <1>2, FS_Subset
<1>4. PICK n \in same : \A x \in same : x <= n
    <2> HIDE DEF same
    <2> QED
        BY <1>3, GreatestOf
<1>5. n \in LastOnes(calls)
    BY <1>4 DEF LastOnes
<1> QED
    BY <1>4, <1>5

\* The views of a tick are the words of the last calls.
LEMMA ViewsAre ==
    ASSUME NEW S, NEW calls \in Seq(S)
    PROVE  {<<f, ViewsOf(calls)[f].word>> : f \in DOMAIN ViewsOf(calls)} = WordsOf(calls)
<1> DEFINE fields == {calls[n].field : n \in DOMAIN calls}
           last(f) == CHOOSE n \in DOMAIN calls : calls[n].field = f /\ \A k \in DOMAIN calls : calls[k].field = f => k <= n
           V == ViewsOf(calls)
<1>1. V = [f \in fields |-> Verdict(calls[last(f)])]
    BY DEF ViewsOf
<1>2. \A n \in DOMAIN calls : n \in Int
    OBVIOUS
<1>3. ASSUME NEW n \in LastOnes(calls) PROVE last(calls[n].field) = n /\ n \in DOMAIN calls
    <2> DEFINE m == last(calls[n].field)
    <2>1. n \in DOMAIN calls /\ \A k \in DOMAIN calls : calls[k].field = calls[n].field => k <= n
        BY <1>3 DEF LastOnes
    <2>2. m \in DOMAIN calls /\ calls[m].field = calls[n].field
          /\ \A k \in DOMAIN calls : calls[k].field = calls[n].field => k <= m
        BY <2>1
    <2> HIDE DEF m
    <2>3. m <= n /\ n <= m
        BY <2>1, <2>2
    <2> QED
        BY <1>2, <2>1, <2>2, <2>3 DEF m
<1>4. \A c : Verdict(c).word = WordFor(c)
    BY DEF Verdict
<1>5. DOMAIN V = fields /\ \A f \in fields : V[f].word = WordFor(calls[last(f)])
    BY <1>1, <1>4
<1>6. \A f \in fields : \E n \in LastOnes(calls) : calls[n].field = f
    BY LastIs
<1>7. \A n \in LastOnes(calls) : calls[n].field \in fields
    BY <1>3
<1> HIDE DEF fields, last, V
<1>8. \A f \in fields : <<f, V[f].word>> \in WordsOf(calls)
    <2> SUFFICES ASSUME NEW f \in fields PROVE <<f, V[f].word>> \in WordsOf(calls)
        OBVIOUS
    <2>1. PICK n \in LastOnes(calls) : calls[n].field = f
        BY <1>6
    <2> QED
        BY <1>3, <1>5, <2>1 DEF WordsOf
<1>9. \A n \in LastOnes(calls) : <<calls[n].field, WordFor(calls[n])>> = <<calls[n].field, V[calls[n].field].word>>
    BY <1>3, <1>5, <1>7
<1>10. {<<f, V[f].word>> : f \in fields} = WordsOf(calls)
    BY <1>7, <1>8, <1>9 DEF WordsOf
<1> QED
    BY <1>5, <1>10 DEF V

\* Calls that follow others leave their words over those.
LEMMA WordsOfBoth ==
    ASSUME NEW S, NEW a \in Seq(S), NEW b \in Seq(S)
    PROVE  WordsOf(a \o b) = PutOver(WordsOf(a), WordsOf(b))
<1> DEFINE c == a \o b
           m == Len(a)
           l == Len(b)
<1>1. /\ m \in Nat /\ l \in Nat /\ DOMAIN a = 1..m /\ DOMAIN b = 1..l /\ DOMAIN c = 1..(m + l)
      /\ \A n \in 1..m : c[n] = a[n] /\ n \in 1..(m + l)
      /\ \A n \in 1..l : c[m + n] = b[n] /\ m + n \in 1..(m + l)
    OBVIOUS
<1>2. \A n \in 1..(m + l) : n \in 1..m \/ \E k \in 1..l : n = m + k
    <2> SUFFICES ASSUME NEW n \in 1..(m + l), ~(n \in 1..m) PROVE \E k \in 1..l : n = m + k
        OBVIOUS
    <2>1. n - m \in 1..l /\ n = m + (n - m)
        BY <1>1
    <2> QED
        BY <2>1
<1> HIDE DEF c, m, l
<1>3. ASSUME NEW k \in 1..l PROVE m + k \in LastOnes(c) <=> k \in LastOnes(b)
    <2>1. \A n \in 1..m : n <= m + k
        BY <1>1
    <2>2. \A n \in 1..l : m + n <= m + k <=> n <= k
        BY <1>1
    <2> QED
        <3>1. ASSUME m + k \in LastOnes(c), NEW j \in 1..l, b[j].field = b[k].field PROVE j <= k
            <4>1. c[m + j].field = c[m + k].field /\ m + j \in DOMAIN c
                BY <1>1, <3>1
            <4> QED
                BY <2>2, <3>1, <4>1 DEF LastOnes
        <3>2. ASSUME k \in LastOnes(b), NEW x \in DOMAIN c, c[x].field = c[m + k].field PROVE x <= m + k
            <4>1. CASE x \in 1..m
                BY <2>1, <4>1
            <4>2. ASSUME NEW j \in 1..l, x = m + j PROVE x <= m + k
                <5>1. b[j].field = b[k].field /\ j \in DOMAIN b
                    BY <1>1, <3>2, <4>2
                <5> QED
                    BY <2>2, <3>2, <4>2, <5>1 DEF LastOnes
            <4> QED
                BY <1>1, <1>2, <4>1, <4>2
        <3>3. m + k \in DOMAIN c /\ k \in DOMAIN b
            BY <1>1
        <3>4. m + k \in LastOnes(c) => k \in LastOnes(b)
            BY <1>1, <3>1, <3>3 DEF LastOnes
        <3>5. k \in LastOnes(b) => m + k \in LastOnes(c)
            BY <3>2, <3>3 DEF LastOnes
        <3> QED
            BY <3>4, <3>5
<1>4. ASSUME NEW n \in 1..m
      PROVE  n \in LastOnes(c) <=> n \in LastOnes(a) /\ \A k \in 1..l : b[k].field # a[n].field
    <2>1. \A k \in 1..l : ~(m + k <= n)
        BY <1>1
    <2> QED
        <3>1. ASSUME n \in LastOnes(c), NEW x \in 1..m, a[x].field = a[n].field PROVE x <= n
            <4>1. c[x].field = c[n].field /\ x \in DOMAIN c
                BY <1>1, <3>1
            <4> QED
                BY <3>1, <4>1 DEF LastOnes
        <3>2. ASSUME n \in LastOnes(c), NEW k \in 1..l PROVE b[k].field # a[n].field
            <4>1. m + k \in DOMAIN c /\ c[m + k] = b[k] /\ c[n] = a[n]
                BY <1>1
            <4> QED
                BY <2>1, <3>2, <4>1 DEF LastOnes
        <3>3. ASSUME n \in LastOnes(a), \A k \in 1..l : b[k].field # a[n].field,
                     NEW x \in DOMAIN c, c[x].field = c[n].field
              PROVE  x <= n
            <4>1. c[n] = a[n]
                BY <1>1
            <4>2. CASE x \in 1..m
                <5>1. c[x] = a[x] /\ x \in DOMAIN a
                    BY <1>1, <4>2
                <5> QED
                    BY <3>3, <4>1, <5>1 DEF LastOnes
            <4>3. ASSUME NEW j \in 1..l, x = m + j PROVE FALSE
                <5>1. c[x] = b[j]
                    BY <1>1, <4>3
                <5> QED
                    BY <3>3, <4>1, <5>1
            <4> QED
                BY <1>1, <1>2, <4>2, <4>3
        <3>4. n \in DOMAIN c /\ n \in DOMAIN a /\ DOMAIN a = 1..m
            BY <1>1
        <3>5. n \in LastOnes(c) => n \in LastOnes(a) /\ \A k \in 1..l : b[k].field # a[n].field
            BY <3>1, <3>2, <3>4 DEF LastOnes
        <3>6. n \in LastOnes(a) /\ (\A k \in 1..l : b[k].field # a[n].field) => n \in LastOnes(c)
            BY <3>3, <3>4 DEF LastOnes
        <3> QED
            BY <3>5, <3>6
<1>5. \A k \in 1..l : \E q \in WordsOf(b) : q[1] = b[k].field
    <2> SUFFICES ASSUME NEW k \in 1..l PROVE \E q \in WordsOf(b) : q[1] = b[k].field
        OBVIOUS
    <2>1. PICK n \in LastOnes(b) : b[n].field = b[k].field
        BY <1>1, LastIs
    <2>2. <<b[n].field, WordFor(b[n])>> \in WordsOf(b)
        BY DEF WordsOf
    <2> QED
        BY <2>1, <2>2
<1>6. \A q \in WordsOf(b) : \E k \in 1..l : q[1] = b[k].field
    BY <1>1 DEF WordsOf, LastOnes
<1>7. ASSUME NEW p \in WordsOf(c) PROVE p \in PutOver(WordsOf(a), WordsOf(b))
    <2>1. PICK n \in LastOnes(c) : p = <<c[n].field, WordFor(c[n])>>
        BY DEF WordsOf
    <2>2. n \in 1..(m + l)
        BY <1>1 DEF LastOnes
    <2>3. CASE n \in 1..m
        <3>1. c[n] = a[n] /\ n \in LastOnes(a) /\ \A k \in 1..l : b[k].field # a[n].field
            BY <1>1, <1>4, <2>1, <2>3
        <3>2. p \in WordsOf(a) /\ p[1] = a[n].field
            BY <2>1, <3>1 DEF WordsOf
        <3> QED
            BY <1>6, <3>1, <3>2 DEF PutOver
    <2>4. ASSUME NEW k \in 1..l, n = m + k PROVE p \in PutOver(WordsOf(a), WordsOf(b))
        <3>1. c[n] = b[k] /\ k \in LastOnes(b)
            BY <1>1, <1>3, <2>1, <2>4
        <3>2. p \in WordsOf(b)
            BY <2>1, <3>1 DEF WordsOf
        <3> QED
            BY <3>2 DEF PutOver
    <2> QED
        BY <1>2, <2>2, <2>3, <2>4
<1>8. ASSUME NEW p \in PutOver(WordsOf(a), WordsOf(b)) PROVE p \in WordsOf(c)
    <2>1. CASE p \in WordsOf(b)
        <3>1. PICK k \in LastOnes(b) : p = <<b[k].field, WordFor(b[k])>>
            BY <2>1 DEF WordsOf
        <3>2. k \in 1..l
            BY <1>1 DEF LastOnes
        <3>3. m + k \in LastOnes(c) /\ c[m + k] = b[k]
            BY <1>1, <1>3, <3>1, <3>2
        <3> QED
            BY <3>1, <3>3 DEF WordsOf
    <2>2. CASE p \in WordsOf(a) /\ \A q \in WordsOf(b) : q[1] # p[1]
        <3>1. PICK n \in LastOnes(a) : p = <<a[n].field, WordFor(a[n])>>
            BY <2>2 DEF WordsOf
        <3>2. n \in 1..m /\ p[1] = a[n].field
            BY <1>1, <3>1 DEF LastOnes
        <3>3. \A k \in 1..l : b[k].field # a[n].field
            BY <1>5, <2>2, <3>2
        <3>4. n \in LastOnes(c) /\ c[n] = a[n]
            BY <1>1, <1>4, <3>1, <3>2, <3>3
        <3> QED
            BY <3>1, <3>4 DEF WordsOf
    <2> QED
        BY <2>1, <2>2 DEF PutOver
<1> QED
    BY <1>7, <1>8 DEF c

\* One call, or none.
LEMMA WordsOfOne ==
    /\ WordsOf(<<>>) = {}
    /\ \A c : WordsOf(<<c>>) = {<<c.field, WordFor(c)>>}
<1>1. WordsOf(<<>>) = {}
    BY DEF WordsOf, LastOnes
<1>2. ASSUME NEW c PROVE WordsOf(<<c>>) = {<<c.field, WordFor(c)>>}
    <2>1. DOMAIN <<c>> = {1} /\ <<c>>[1] = c
        OBVIOUS
    <2>2. LastOnes(<<c>>) = {1}
        <3> DEFINE s == <<c>>
        <3>1. DOMAIN s = {1} /\ 1 <= 1
            BY <2>1
        <3> HIDE DEF s
        <3>2. LastOnes(s) = {1}
            BY <3>1 DEF LastOnes
        <3> QED
            BY <3>2 DEF s
    <2> QED
        BY <2>1, <2>2 DEF WordsOf
<1> QED
    BY <1>1, <1>2

\* Two words for one figure are the same.
Agree(A, B) == \A p \in A, q \in B : p[1] = q[1] => p[2] = q[2]

\* Calls whose words agree leave all of them.
LEMMA WordsOfParts ==
    ASSUME NEW S, NEW parts \in Seq(Seq(S)),
           \A i, j \in DOMAIN parts : Agree(WordsOf(parts[i]), WordsOf(parts[j]))
    PROVE  WordsOf(FlattenSeq(parts)) = UNION {WordsOf(parts[i]) : i \in DOMAIN parts}
<1> DEFINE n == Len(parts)
           A == Seq(S)
           said == [i \in 1..n |-> WordsOf(parts[i])]
           sofar(i) == UNION {said[j] : j \in 1..i}
<1>1. PICK f \in [0..n -> A] :
               f[0] = <<>> /\ (\A i \in 1..n : f[i] = f[i - 1] \o parts[i]) /\ FlattenSeq(parts) = f[n]
    BY FlattenIs
<1>2. n \in Nat /\ DOMAIN parts = 1..n /\ \A i \in 1..n : parts[i] \in A
    OBVIOUS
<1>3. \A i \in 1..n : said[i] = WordsOf(parts[i])
    OBVIOUS
<1>4. \A i, j \in 1..n : Agree(said[i], said[j])
    BY <1>2
<1>5. \A a, b \in A : WordsOf(a \o b) = PutOver(WordsOf(a), WordsOf(b))
    BY WordsOfBoth
<1>6. \A i \in 1..n : \A p \in said[i] : p = <<p[1], p[2]>>
    BY DEF WordsOf
<1> HIDE DEF n, A, said
<1> DEFINE T == {i \in Nat : i \in 0..n => WordsOf(f[i]) = sofar(i)}
<1>7. 0 \in T
    <2>1. 1..0 = {}
        OBVIOUS
    <2> QED
        BY <1>1, <2>1, WordsOfOne
<1>8. ASSUME NEW i \in 0..n, i < n, i \in T PROVE i + 1 \in T
    <2> DEFINE k == i + 1
               before == sofar(i)
    <2>1. i \in Nat /\ k \in Nat /\ k \in 1..n /\ k - 1 = i /\ 1..k = 1..i \cup {k} /\ 1..i \subseteq 1..n
        BY <1>2, <1>8
    <2>2. WordsOf(f[i]) = before
        BY <1>8
    <2>3. f[k] = f[i] \o parts[k] /\ f[i] \in A /\ parts[k] \in A
        BY <1>1, <1>2, <1>8, <2>1
    <2>4. WordsOf(f[k]) = PutOver(before, said[k])
        BY <1>3, <1>5, <2>1, <2>2, <2>3
    <2>5. sofar(k) = before \cup said[k]
        BY <2>1
    <2>6. \A p \in before, q \in said[k] : p[1] = q[1] => p = q
        <3> SUFFICES ASSUME NEW p \in before, NEW q \in said[k], p[1] = q[1] PROVE p = q
            OBVIOUS
        <3>1. PICK j \in 1..i : p \in said[j]
            OBVIOUS
        <3>2. p[2] = q[2]
            BY <1>4, <2>1, <3>1 DEF Agree
        <3>3. p = <<p[1], p[2]>> /\ q = <<q[1], q[2]>>
            BY <1>6, <2>1, <3>1
        <3> QED
            BY <3>2, <3>3
    <2> HIDE DEF before
    <2>7. PutOver(before, said[k]) = before \cup said[k]
        BY <2>6 DEF PutOver
    <2> HIDE DEF sofar
    <2> QED
        BY <2>1, <2>4, <2>5, <2>7
<1> HIDE DEF T
<1>9. 0..n \subseteq T
    BY <1>2, <1>7, <1>8, UpTo
<1>10. n \in 0..n
    BY <1>2
<1>11. WordsOf(f[n]) = sofar(n)
    BY <1>9, <1>10 DEF T
<1>12. sofar(n) = UNION {WordsOf(parts[i]) : i \in DOMAIN parts}
    BY <1>2, <1>3
<1> QED
    BY <1>1, <1>11, <1>12

\* The limits are those of the file, and the constants what they must be.
Given ==
    /\ setup \in Setup /\ followed \in Followable /\ limits = LimitsOf(followed, Config(setup))
    /\ NCpu \in Nat /\ NoLimit \notin Int

\* The word of a call, by what is meant.
LEMMA CallIs ==
    ASSUME Given, NEW field, NEW stat, NEW log, NEW current \in Nat, NEW maximum \in Nat, NEW zeroCounts \in BOOLEAN
    PROVE  LET c == AlertCall(field, stat, current, maximum, zeroCounts, log)
           IN c.field = field /\ WordFor(c) = WordMeant(FileMeant, stat, current, maximum, zeroCounts)
<1>1. WordFor(AlertCall(field, stat, current, maximum, zeroCounts, log))
          = WordMeant(FileMeant, stat, current, maximum, zeroCounts)
    BY WordIs DEF Given
<1> QED
    BY <1>1 DEF AlertCall

\* Sequences of calls are sequences of one kind of things.
LEMMA PartsAreSequences ==
    ASSUME NEW n \in Nat, NEW parts, parts = [i \in 1..n |-> parts[i]],
           \A i \in 1..n : \E T : parts[i] \in Seq(T)
    PROVE  \E S : parts \in Seq(Seq(S))
<1> DEFINE S == UNION {{parts[i][k] : k \in DOMAIN parts[i]} : i \in 1..n}
           A == Seq(S)
<1>1. ASSUME NEW i \in 1..n PROVE parts[i] \in Seq(S)
    <2> DEFINE s == parts[i]
    <2>1. PICK T : s \in Seq(T)
        OBVIOUS
    <2>2. \A k \in DOMAIN s : s[k] \in S
        OBVIOUS
    <2> HIDE DEF s, S
    <2>3. s \in Seq(S)
        BY <2>1, <2>2
    <2> QED
        BY <2>3 DEF s
<1> HIDE DEF A
<1>2. \A i \in 1..n : parts[i] \in A
    BY <1>1 DEF A
<1>3. parts \in Seq(A)
    BY <1>2
<1> QED
    BY <1>3 DEF A

\* Two words, either of which may be put over.
LEMMA OverTwo ==
    ASSUME NEW f, NEW g, f # g, NEW u, NEW v
    PROVE  /\ PutOver({<<f, u>>}, {<<g, v>>}) = {<<f, u>>, <<g, v>>}
           /\ \A w : PutOver({<<f, u>>, <<g, v>>}, {<<f, w>>}) = {<<f, w>>, <<g, v>>}
           /\ \A w : PutOver({<<f, u>>, <<g, v>>}, {<<g, w>>}) = {<<f, u>>, <<g, w>>}
           /\ PutOver({<<f, u>>, <<g, v>>}, {}) = {<<f, u>>, <<g, v>>}
BY DEF PutOver

\* Two calls for two figures.
LEMMA TwoCalls ==
    ASSUME NEW c, NEW d, c.field # d.field
    PROVE  WordsOf(<<c, d>>) = {<<c.field, WordFor(c)>>, <<d.field, WordFor(d)>>}
<1> DEFINE s == <<c, d>>
<1>1. DOMAIN s = {1, 2} /\ s[1] = c /\ s[2] = d
    OBVIOUS
<1> HIDE DEF s
<1>2. LastOnes(s) = {1, 2}
    BY <1>1 DEF LastOnes
<1> QED
    BY <1>1, <1>2 DEF WordsOf, s

\* The word that a rate of an interface should have.
LinkWord(i, d, rate) ==
    LET own == WordMeant(FileMeant, <<i.real, d>>, 8 * rate, 100, TRUE)
    IN IF own # "DEFAULT" \/ i.speed = 0 THEN own ELSE WordMeant(FileMeant, <<d>>, 8 * rate, i.speed, FALSE)

\* An interface's rates are judged by its own limits, else by its link.
LEMMA InterfaceIs ==
    ASSUME Given, NEW i, i.rx \in Nat, i.tx \in Nat, i.speed \in Nat
    PROVE  /\ \E T : OfInterface(i) \in Seq(T)
           /\ WordsOf(OfInterface(i)) = {<<<<i.name, "rx">>, LinkWord(i, "rx", i.rx)>>,
                                         <<<<i.name, "tx">>, LinkWord(i, "tx", i.tx)>>}
<1> DEFINE f == <<i.name, "rx">>
           g == <<i.name, "tx">>
           rx == AlertCall(f, <<i.real, "rx">>, 8 * i.rx, 100, TRUE, FALSE)
           tx == AlertCall(g, <<i.real, "tx">>, 8 * i.tx, 100, TRUE, FALSE)
           rxLink == AlertCall(f, <<"rx">>, 8 * i.rx, i.speed, FALSE, FALSE)
           txLink == AlertCall(g, <<"tx">>, 8 * i.tx, i.speed, FALSE, FALSE)
           first == <<rx, tx>>
           second == Again(rx, f, <<"rx">>, 8 * i.rx, i.speed)
           third == Again(tx, g, <<"tx">>, 8 * i.tx, i.speed)
           S == {rx, tx, rxLink, txLink}
<1>1. 8 * i.rx \in Nat /\ 8 * i.tx \in Nat /\ 100 \in Nat /\ TRUE \in BOOLEAN /\ FALSE \in BOOLEAN
    OBVIOUS
<1>2. /\ rx.field = f /\ WordFor(rx) = WordMeant(FileMeant, <<i.real, "rx">>, 8 * i.rx, 100, TRUE)
      /\ tx.field = g /\ WordFor(tx) = WordMeant(FileMeant, <<i.real, "tx">>, 8 * i.tx, 100, TRUE)
      /\ rxLink.field = f /\ WordFor(rxLink) = WordMeant(FileMeant, <<"rx">>, 8 * i.rx, i.speed, FALSE)
      /\ txLink.field = g /\ WordFor(txLink) = WordMeant(FileMeant, <<"tx">>, 8 * i.tx, i.speed, FALSE)
    <2> DEFINE h == 100
               x == 8 * i.rx
               y == 8 * i.tx
               v == i.speed
               rs == <<i.real, "rx">>
               ts == <<i.real, "tx">>
               r == <<"rx">>
               t == <<"tx">>
               yes == TRUE
               no == FALSE
    <2>0. x \in Nat /\ y \in Nat /\ h \in Nat /\ v \in Nat /\ yes \in BOOLEAN /\ no \in BOOLEAN
        OBVIOUS
    <2> HIDE DEF h, x, y, v, rs, ts, r, t, f, g, yes, no
    <2>1. /\ AlertCall(f, rs, x, h, yes, no).field = f
          /\ WordFor(AlertCall(f, rs, x, h, yes, no)) = WordMeant(FileMeant, rs, x, h, yes)
        BY <2>0, CallIs
    <2>2. /\ AlertCall(g, ts, y, h, yes, no).field = g
          /\ WordFor(AlertCall(g, ts, y, h, yes, no)) = WordMeant(FileMeant, ts, y, h, yes)
        BY <2>0, CallIs
    <2>3. /\ AlertCall(f, r, x, v, no, no).field = f
          /\ WordFor(AlertCall(f, r, x, v, no, no)) = WordMeant(FileMeant, r, x, v, no)
        BY <2>0, CallIs
    <2>4. /\ AlertCall(g, t, y, v, no, no).field = g
          /\ WordFor(AlertCall(g, t, y, v, no, no)) = WordMeant(FileMeant, t, y, v, no)
        BY <2>0, CallIs
    <2>5. /\ rx = AlertCall(f, rs, x, h, yes, no) /\ tx = AlertCall(g, ts, y, h, yes, no)
          /\ rxLink = AlertCall(f, r, x, v, no, no) /\ txLink = AlertCall(g, t, y, v, no, no)
        BY DEF h, x, y, v, rs, ts, r, t, yes, no
    <2> HIDE DEF rx, tx, rxLink, txLink
    <2>6. /\ rx.field = f /\ WordFor(rx) = WordMeant(FileMeant, rs, x, h, yes)
          /\ tx.field = g /\ WordFor(tx) = WordMeant(FileMeant, ts, y, h, yes)
          /\ rxLink.field = f /\ WordFor(rxLink) = WordMeant(FileMeant, r, x, v, no)
          /\ txLink.field = g /\ WordFor(txLink) = WordMeant(FileMeant, t, y, v, no)
        BY <2>1, <2>2, <2>3, <2>4, <2>5
    <2> QED
        BY <2>6 DEF h, x, y, v, rs, ts, r, t, yes, no
<1>3. f # g
    OBVIOUS
<1>4. /\ second = IF WordFor(rx) = "DEFAULT" /\ i.speed > 0 THEN <<rxLink>> ELSE <<>>
      /\ third = IF WordFor(tx) = "DEFAULT" /\ i.speed > 0 THEN <<txLink>> ELSE <<>>
    BY DEF Again
<1>5. OfInterface(i) = first \o second \o third
    BY <1>2 DEF OfInterface
<1>6. i.speed > 0 <=> i.speed # 0
    OBVIOUS
<1>7. LinkWord(i, "rx", i.rx) = IF WordFor(rx) = "DEFAULT" /\ i.speed > 0 THEN WordFor(rxLink) ELSE WordFor(rx)
    BY <1>2, <1>6 DEF LinkWord
<1>8. LinkWord(i, "tx", i.tx) = IF WordFor(tx) = "DEFAULT" /\ i.speed > 0 THEN WordFor(txLink) ELSE WordFor(tx)
    BY <1>2, <1>6 DEF LinkWord
<1> HIDE DEF rx, tx, rxLink, txLink, f, g
<1>9. first \in Seq(S) /\ second \in Seq(S) /\ third \in Seq(S)
    <2>1. first \in Seq(S)
        OBVIOUS
    <2>2. <<>> \in Seq(S) /\ <<rxLink>> \in Seq(S) /\ <<txLink>> \in Seq(S)
        OBVIOUS
    <2> HIDE DEF S, first, second, third
    <2> QED
        BY <1>4, <2>1, <2>2
<1>10. WordsOf(first) = {<<f, WordFor(rx)>>, <<g, WordFor(tx)>>}
    BY <1>2, <1>3, TwoCalls
<1>11. /\ WordsOf(second) = IF WordFor(rx) = "DEFAULT" /\ i.speed > 0 THEN {<<f, WordFor(rxLink)>>} ELSE {}
       /\ WordsOf(third) = IF WordFor(tx) = "DEFAULT" /\ i.speed > 0 THEN {<<g, WordFor(txLink)>>} ELSE {}
    <2> HIDE DEF second, third
    <2> QED
        BY <1>2, <1>4, WordsOfOne
<1> HIDE DEF first, second, third, S
<1>12. first \o second \in Seq(S) /\ first \o second \o third \in Seq(S)
    BY <1>9
<1>13. WordsOf(first \o second) = {<<f, LinkWord(i, "rx", i.rx)>>, <<g, WordFor(tx)>>}
    <2>1. WordsOf(first \o second) = PutOver(WordsOf(first), WordsOf(second))
        BY <1>9, WordsOfBoth
    <2>2. CASE WordFor(rx) = "DEFAULT" /\ i.speed > 0
        <3>1. WordsOf(second) = {<<f, LinkWord(i, "rx", i.rx)>>}
            BY <1>7, <1>11, <2>2
        <3> QED
            BY <1>3, <1>10, <2>1, <3>1 DEF PutOver
    <2>3. CASE ~(WordFor(rx) = "DEFAULT" /\ i.speed > 0)
        <3>1. WordsOf(second) = {} /\ LinkWord(i, "rx", i.rx) = WordFor(rx)
            BY <1>7, <1>11, <2>3
        <3> QED
            BY <1>3, <1>10, <2>1, <3>1 DEF PutOver
    <2> QED
        BY <2>2, <2>3
<1>14. WordsOf(first \o second \o third) = {<<f, LinkWord(i, "rx", i.rx)>>, <<g, LinkWord(i, "tx", i.tx)>>}
    <2>1. WordsOf((first \o second) \o third) = PutOver(WordsOf(first \o second), WordsOf(third))
        BY <1>9, <1>12, WordsOfBoth
    <2>2. CASE WordFor(tx) = "DEFAULT" /\ i.speed > 0
        <3>1. WordsOf(third) = {<<g, LinkWord(i, "tx", i.tx)>>}
            BY <1>8, <1>11, <2>2
        <3> QED
            BY <1>3, <1>13, <2>1, <3>1 DEF PutOver
    <2>3. CASE ~(WordFor(tx) = "DEFAULT" /\ i.speed > 0)
        <3>1. WordsOf(third) = {} /\ LinkWord(i, "tx", i.tx) = WordFor(tx)
            BY <1>8, <1>11, <2>3
        <3> QED
            BY <1>3, <1>13, <2>1, <3>1 DEF PutOver
    <2> QED
        BY <2>2, <2>3
<1> QED
    BY <1>5, <1>12, <1>14 DEF f, g

\* Parts whose words agree leave all of them.
LEMMA PartsSay ==
    ASSUME NEW n \in Nat, NEW parts, parts = [i \in 1..n |-> parts[i]],
           \A i \in 1..n : \E T : parts[i] \in Seq(T),
           \A i, j \in 1..n : Agree(WordsOf(parts[i]), WordsOf(parts[j]))
    PROVE  \E S : /\ FlattenSeq(parts) \in Seq(S)
                  /\ WordsOf(FlattenSeq(parts)) = UNION {WordsOf(parts[i]) : i \in 1..n}
<1>1. PICK S : parts \in Seq(Seq(S))
    BY PartsAreSequences
<1>2. DOMAIN parts = 1..n
    OBVIOUS
<1>3. WordsOf(FlattenSeq(parts)) = UNION {WordsOf(parts[i]) : i \in DOMAIN parts}
    BY <1>1, <1>2, WordsOfParts
<1> DEFINE A == Seq(S)
<1>4. PICK f \in [0..Len(parts) -> A] :
               f[0] = <<>> /\ (\A i \in 1..Len(parts) : f[i] = f[i - 1] \o parts[i]) /\ FlattenSeq(parts) = f[Len(parts)]
    BY <1>1, FlattenIs
<1>5. Len(parts) \in 0..Len(parts)
    BY <1>1
<1>6. FlattenSeq(parts) \in A
    BY <1>4, <1>5
<1> QED
    BY <1>2, <1>3, <1>6

\* What the views of the last tick say is what is meant.
Said ==
    \E S : CallsFor(showing) \in Seq(S) /\ WordsOf(CallsFor(showing)) = WordsMeant(FileMeant)

\* The interfaces of a tick.
LEMMA NetworkSays ==
    ASSUME Given, followed = "network", IsUpdate("network", showing)
    PROVE  Said
<1> DEFINE n == Len(showing)
           parts == [i \in 1..n |-> OfInterface(showing[i])]
           both(i) == {<<<<showing[i].name, "rx">>, LinkWord(showing[i], "rx", showing[i].rx)>>,
                       <<<<showing[i].name, "tx">>, LinkWord(showing[i], "tx", showing[i].tx)>>}
<1>1. /\ showing \in Seq([name : STRING, real : STRING, rx : Nat, tx : Nat, speed : Nat])
      /\ \A i, j \in DOMAIN showing : showing[i].name = showing[j].name => i = j
    BY DEF IsUpdate, OneEach
<1>2. n \in Nat /\ DOMAIN showing = 1..n
      /\ \A i \in 1..n : showing[i].rx \in Nat /\ showing[i].tx \in Nat /\ showing[i].speed \in Nat
    <2> DEFINE R == [name : STRING, real : STRING, rx : Nat, tx : Nat, speed : Nat]
    <2>1. \A i \in R : i.rx \in Nat /\ i.tx \in Nat /\ i.speed \in Nat
        OBVIOUS
    <2>2. showing \in Seq(R)
        BY <1>1
    <2> HIDE DEF R
    <2>3. n \in Nat /\ DOMAIN showing = 1..n /\ \A i \in 1..n : showing[i] \in R
        BY <2>2
    <2> QED
        BY <2>1, <2>3
<1>3. \A i \in 1..n : (\E T : parts[i] \in Seq(T)) /\ WordsOf(parts[i]) = both(i)
    BY <1>2, InterfaceIs DEF LinkWord
<1>4. \A i, j \in 1..n : Agree(both(i), both(j))
    <2> SUFFICES ASSUME NEW i \in 1..n, NEW j \in 1..n, NEW p \in both(i), NEW q \in both(j), p[1] = q[1]
                 PROVE  p[2] = q[2]
        BY DEF Agree
    <2>1. p[1][1] = showing[i].name /\ q[1][1] = showing[j].name
        OBVIOUS
    <2>2. i = j
        BY <1>1, <1>2, <2>1
    <2> QED
        BY <2>2
<1>5. parts = [i \in 1..n |-> parts[i]]
    OBVIOUS
<1>6. CallsFor(showing) = FlattenSeq(parts)
    BY <1>2 DEF CallsFor
<1>7. WordsMeant(FileMeant) = UNION {both(i) : i \in 1..n}
    <2> DEFINE one(i) == {<<<<showing[i].name, d>>, LinkWord(showing[i], d, showing[i][d])>> : d \in {"rx", "tx"}}
    <2>1. WordsMeant(FileMeant) = {<<<<showing[i].name, d>>, LinkWord(showing[i], d, showing[i][d])>> :
                                       i \in DOMAIN showing, d \in {"rx", "tx"}}
        BY DEF WordsMeant, LinkWord
    <2>2. \A i \in 1..n : one(i) = both(i)
        OBVIOUS
    <2>3. WordsMeant(FileMeant) = UNION {one(i) : i \in 1..n}
        BY <1>2, <2>1
    <2> HIDE DEF one, both
    <2> QED
        BY <2>2, <2>3
<1>8. \A i, j \in 1..n : Agree(WordsOf(parts[i]), WordsOf(parts[j]))
    BY <1>3, <1>4
<1> HIDE DEF parts, both, n
<1>9. PICK S : /\ FlattenSeq(parts) \in Seq(S)
               /\ WordsOf(FlattenSeq(parts)) = UNION {WordsOf(parts[i]) : i \in 1..n}
    BY <1>2, <1>3, <1>5, <1>8, PartsSay
<1> QED
    BY <1>3, <1>6, <1>7, <1>9 DEF Said

\* The calls of one disk.
LEMMA DiskIs ==
    ASSUME Given, NEW d, d.rx \in Nat, d.tx \in Nat
    PROVE  /\ \E T : OfDisk(d) \in Seq(T)
           /\ WordsOf(OfDisk(d)) = {<<<<d.name, "rx">>, WordMeant(FileMeant, <<d.name, "rx">>, d.rx, 100, TRUE)>>,
                                    <<<<d.name, "tx">>, WordMeant(FileMeant, <<d.name, "tx">>, d.tx, 100, TRUE)>>}
<1> DEFINE f == <<d.name, "rx">>
           g == <<d.name, "tx">>
           x == d.rx
           y == d.tx
           h == 100
           yes == TRUE
           no == FALSE
           rx == AlertCall(f, f, x, h, yes, no)
           tx == AlertCall(g, g, y, h, yes, no)
<1>1. OfDisk(d) = <<rx, tx>> /\ f # g /\ x \in Nat /\ y \in Nat /\ h \in Nat /\ yes \in BOOLEAN /\ no \in BOOLEAN
    BY DEF OfDisk
<1> HIDE DEF f, g, x, y, h, yes, no
<1>2. rx.field = f /\ WordFor(rx) = WordMeant(FileMeant, f, x, h, yes)
    BY <1>1, CallIs
<1>3. tx.field = g /\ WordFor(tx) = WordMeant(FileMeant, g, y, h, yes)
    BY <1>1, CallIs
<1> HIDE DEF rx, tx
<1>4. <<rx, tx>> \in Seq({rx, tx})
    OBVIOUS
<1>5. WordsOf(<<rx, tx>>) = {<<f, WordMeant(FileMeant, f, x, h, yes)>>, <<g, WordMeant(FileMeant, g, y, h, yes)>>}
    BY <1>1, <1>2, <1>3, TwoCalls
<1>6. (\E T : OfDisk(d) \in Seq(T)) /\ WordsOf(OfDisk(d)) =
          {<<f, WordMeant(FileMeant, f, x, h, yes)>>, <<g, WordMeant(FileMeant, g, y, h, yes)>>}
    BY <1>1, <1>4, <1>5
<1> QED
    BY <1>6 DEF f, g, x, y, h, yes

\* The disks of a tick.
LEMMA DiskioSays ==
    ASSUME Given, followed = "diskio", IsUpdate("diskio", showing)
    PROVE  Said
<1> DEFINE n == Len(showing)
           parts == [i \in 1..n |-> OfDisk(showing[i])]
           word(i, d) == WordMeant(FileMeant, <<showing[i].name, d>>, showing[i][d], 100, TRUE)
           both(i) == {<<<<showing[i].name, "rx">>, word(i, "rx")>>, <<<<showing[i].name, "tx">>, word(i, "tx")>>}
<1>1. /\ showing \in Seq([name : STRING, rx : Nat, tx : Nat])
      /\ \A i, j \in DOMAIN showing : showing[i].name = showing[j].name => i = j
    BY DEF IsUpdate, OneEach
<1>2. n \in Nat /\ DOMAIN showing = 1..n /\ \A i \in 1..n : showing[i].rx \in Nat /\ showing[i].tx \in Nat
    <2> DEFINE R == [name : STRING, rx : Nat, tx : Nat]
    <2>1. \A i \in R : i.rx \in Nat /\ i.tx \in Nat
        OBVIOUS
    <2>2. showing \in Seq(R)
        BY <1>1
    <2> HIDE DEF R
    <2>3. n \in Nat /\ DOMAIN showing = 1..n /\ \A i \in 1..n : showing[i] \in R
        BY <2>2
    <2> QED
        BY <2>1, <2>3
<1>3. \A i \in 1..n : (\E T : parts[i] \in Seq(T)) /\ WordsOf(parts[i]) = both(i)
    BY <1>2, DiskIs
<1>4. \A i, j \in 1..n : Agree(both(i), both(j))
    <2> SUFFICES ASSUME NEW i \in 1..n, NEW j \in 1..n, NEW p \in both(i), NEW q \in both(j), p[1] = q[1]
                 PROVE  p[2] = q[2]
        BY DEF Agree
    <2> HIDE DEF word
    <2>1. p[1][1] = showing[i].name /\ q[1][1] = showing[j].name
        OBVIOUS
    <2>2. i = j
        BY <1>1, <1>2, <2>1
    <2> QED
        BY <2>2
<1>5. parts = [i \in 1..n |-> parts[i]]
    OBVIOUS
<1>6. CallsFor(showing) = FlattenSeq(parts)
    BY <1>2 DEF CallsFor
<1>7. WordsMeant(FileMeant) = UNION {both(i) : i \in 1..n}
    <2> DEFINE one(i) == {<<<<showing[i].name, d>>, word(i, d)>> : d \in {"rx", "tx"}}
    <2>1. WordsMeant(FileMeant) = {<<<<showing[i].name, d>>, word(i, d)>> : i \in DOMAIN showing, d \in {"rx", "tx"}}
        BY DEF WordsMeant
    <2> HIDE DEF word
    <2>2. \A i \in 1..n : one(i) = both(i)
        OBVIOUS
    <2>3. WordsMeant(FileMeant) = UNION {one(i) : i \in 1..n}
        BY <1>2, <2>1
    <2> HIDE DEF one, both
    <2> QED
        BY <2>2, <2>3
<1> HIDE DEF parts, both, n, word
<1>8. \A i, j \in 1..n : Agree(WordsOf(parts[i]), WordsOf(parts[j]))
    BY <1>3, <1>4
<1>9. PICK S : /\ FlattenSeq(parts) \in Seq(S)
               /\ WordsOf(FlattenSeq(parts)) = UNION {WordsOf(parts[i]) : i \in 1..n}
    BY <1>2, <1>3, <1>5, <1>8, PartsSay
<1> QED
    BY <1>3, <1>6, <1>7, <1>9 DEF Said

\* What one mount says: nothing, or one word.
MountSays(m) ==
    IF m.readOnly \/ m.size <= 0 THEN {}
    ELSE {<<<<m.name, "used">>, WordMeant(FileMeant, <<m.name>>, m.size - m.free, m.size, FALSE)>>}

\* The call of one mount, if it has one.
LEMMA MountIs ==
    ASSUME Given, NEW m, m.size \in Nat, m.free \in Nat, m.free <= m.size
    PROVE  (\E T : OfMount(m) \in Seq(T)) /\ WordsOf(OfMount(m)) = MountSays(m)
<1> DEFINE f == <<m.name, "used">>
           st == <<m.name>>
           x == m.size - m.free
           h == m.size
           no == FALSE
           c == AlertCall(f, st, x, h, no, no)
<1>1. OfMount(m) = IF m.readOnly \/ m.size <= 0 THEN <<>> ELSE <<c>>
    BY DEF OfMount
<1>2. x \in Nat /\ h \in Nat /\ no \in BOOLEAN
    OBVIOUS
<1>3. MountSays(m) = IF m.readOnly \/ m.size <= 0 THEN {} ELSE {<<f, WordMeant(FileMeant, st, x, h, no)>>}
    BY DEF MountSays
<1> HIDE DEF f, st, x, h, no
<1>4. c.field = f /\ WordFor(c) = WordMeant(FileMeant, st, x, h, no)
    BY <1>2, CallIs
<1> HIDE DEF c
<1>5. <<>> \in Seq({c}) /\ <<c>> \in Seq({c}) /\ WordsOf(<<>>) = {} /\ WordsOf(<<c>>) = {<<f, WordMeant(FileMeant, st, x, h, no)>>}
    BY <1>4, WordsOfOne
<1> QED
    BY <1>1, <1>3, <1>5

\* The mounts of a tick.
LEMMA FsSays ==
    ASSUME Given, followed = "fs", IsUpdate("fs", showing)
    PROVE  Said
<1> DEFINE n == Len(showing)
           parts == [i \in 1..n |-> OfMount(showing[i])]
           word(i) == WordMeant(FileMeant, <<showing[i].name>>, showing[i].size - showing[i].free, showing[i].size, FALSE)
           told == {i \in DOMAIN showing : ~showing[i].readOnly /\ showing[i].size > 0}
<1>1. /\ showing \in Seq([name : STRING, size : Nat, free : Nat, readOnly : BOOLEAN])
      /\ \A i, j \in DOMAIN showing :
             /\ showing[i].free <= showing[i].size
             /\ showing[i].name = showing[j].name => showing[i].size = showing[j].size /\ showing[i].free = showing[j].free
    <2>1. IsUpdate("fs", showing) <=>
              showing \in Seq([name : STRING, size : Nat, free : Nat, readOnly : BOOLEAN]) /\ SameRoom(showing)
        BY DEF IsUpdate
    <2> QED
        BY <2>1 DEF SameRoom
<1>2. n \in Nat /\ DOMAIN showing = 1..n /\ \A i \in 1..n : showing[i].size \in Nat /\ showing[i].free \in Nat
    <2> DEFINE R == [name : STRING, size : Nat, free : Nat, readOnly : BOOLEAN]
    <2>1. \A i \in R : i.size \in Nat /\ i.free \in Nat
        OBVIOUS
    <2>2. showing \in Seq(R)
        BY <1>1
    <2> HIDE DEF R
    <2>3. n \in Nat /\ DOMAIN showing = 1..n /\ \A i \in 1..n : showing[i] \in R
        BY <2>2
    <2> QED
        BY <2>1, <2>3
<1>3. \A i \in 1..n : (\E T : parts[i] \in Seq(T)) /\ WordsOf(parts[i]) = MountSays(showing[i])
    BY <1>1, <1>2, MountIs
<1>4. \A i, j \in 1..n : Agree(MountSays(showing[i]), MountSays(showing[j]))
    <2> SUFFICES ASSUME NEW i \in 1..n, NEW j \in 1..n, NEW p \in MountSays(showing[i]), NEW q \in MountSays(showing[j]),
                        p[1] = q[1]
                 PROVE  p[2] = q[2]
        BY DEF Agree
    <2>1. p = <<<<showing[i].name, "used">>, word(i)>> /\ q = <<<<showing[j].name, "used">>, word(j)>>
        BY DEF MountSays
    <2>2. showing[i].name = showing[j].name
        BY <2>1
    <2>3. word(i) = word(j)
        BY <1>1, <1>2, <2>2
    <2> HIDE DEF word
    <2> QED
        BY <2>1, <2>3
<1>5. parts = [i \in 1..n |-> parts[i]]
    OBVIOUS
<1>6. CallsFor(showing) = FlattenSeq(parts)
    BY <1>2 DEF CallsFor
<1>7. WordsMeant(FileMeant) = UNION {MountSays(showing[i]) : i \in 1..n}
    <2>1. WordsMeant(FileMeant) = {<<<<showing[i].name, "used">>, word(i)>> : i \in told}
        BY DEF WordsMeant
    <2>2. \A i \in 1..n : MountSays(showing[i]) = IF i \in told THEN {<<<<showing[i].name, "used">>, word(i)>>} ELSE {}
        BY <1>2 DEF MountSays
    <2>3. told \subseteq 1..n
        BY <1>2
    <2> DEFINE pair(i) == <<<<showing[i].name, "used">>, word(i)>>
    <2>4. /\ WordsMeant(FileMeant) = {pair(i) : i \in told}
          /\ \A i \in 1..n : MountSays(showing[i]) = IF i \in told THEN {pair(i)} ELSE {}
        BY <2>1, <2>2
    <2> HIDE DEF pair, told, n
    <2> QED
        BY <2>3, <2>4
<1>8. \A i, j \in 1..n : Agree(WordsOf(parts[i]), WordsOf(parts[j]))
    BY <1>3, <1>4
<1> HIDE DEF parts, n
<1>9. PICK S : /\ FlattenSeq(parts) \in Seq(S)
               /\ WordsOf(FlattenSeq(parts)) = UNION {WordsOf(parts[i]) : i \in 1..n}
    BY <1>2, <1>3, <1>5, <1>8, PartsSay
<1> QED
    BY <1>3, <1>6, <1>7, <1>9 DEF Said

\* The names of the figures of a processor, in the order of their calls.
CpuName(i) == IF i <= 6 THEN CpuStates[i] ELSE "ctx_switches"

\* No two figures of a processor have one name.
LEMMA CpuNames ==
    /\ \A i, j \in 1..7 : CpuName(i) = CpuName(j) => i = j
    /\ \A f \in Range(CpuStates) : \E i \in 1..6 : CpuStates[i] = f
    /\ \A i \in 1..6 : CpuStates[i] # "ctx_switches"
<1>1. /\ CpuName(1) = "total" /\ CpuName(2) = "user" /\ CpuName(3) = "system" /\ CpuName(4) = "iowait"
      /\ CpuName(5) = "dpc" /\ CpuName(6) = "steal" /\ CpuName(7) = "ctx_switches"
    BY DEF CpuName, CpuStates
<1>2. 1..7 = {1, 2, 3, 4, 5, 6, 7} /\ 1..6 = {1, 2, 3, 4, 5, 6} /\ DOMAIN CpuStates = 1..6
    BY DEF CpuStates
<1>3. \A i \in 1..6 : CpuName(i) = CpuStates[i]
    BY DEF CpuName
<1>4. \A i, j \in 1..7 : CpuName(i) = CpuName(j) => i = j
    BY <1>1, <1>2
<1>5. \A i \in 1..6 : CpuStates[i] # "ctx_switches"
    BY <1>1, <1>2, <1>3
<1> QED
    BY <1>2, <1>4, <1>5 DEF Range

\* What the call of one figure of a processor says.
CpuSaysOf(s, i) ==
    IF i <= 6 THEN IF CpuStates[i] \in DOMAIN s.percent
                   THEN {<<<<CpuStates[i]>>, WordMeant(FileMeant, <<CpuStates[i]>>, s.percent[CpuStates[i]], 100, FALSE)>>}
                   ELSE {}
    ELSE IF s.since = 0 THEN {}
    ELSE {<<<<"ctx_switches">>, WordMeant(FileMeant, <<"ctx_switches">>, s.ctx, 100 * s.cores, FALSE)>>}

\* The call of one state of a processor, and that of its context switches.
DescribedOf(s, f) ==
    IF f \in DOMAIN s.percent
    THEN <<AlertCall(<<f>>, <<f>>, s.percent[f], 100, FALSE, f # "steal")>> ELSE <<>>
SwitchesOf(s) ==
    IF s.since = 0 THEN <<>>
    ELSE <<AlertCall(<<"ctx_switches">>, <<"ctx_switches">>, s.ctx, 100 * s.cores, FALSE, FALSE)>>

\* One call says its word.
LEMMA OneSays ==
    ASSUME Given, NEW field, NEW stat, NEW log, NEW current \in Nat, NEW maximum \in Nat, NEW zeroCounts \in BOOLEAN
    PROVE  LET c == AlertCall(field, stat, current, maximum, zeroCounts, log)
           IN /\ \E T : <<c>> \in Seq(T)
              /\ WordsOf(<<c>>) = {<<field, WordMeant(FileMeant, stat, current, maximum, zeroCounts)>>}
<1> DEFINE c == AlertCall(field, stat, current, maximum, zeroCounts, log)
<1>1. c.field = field /\ WordFor(c) = WordMeant(FileMeant, stat, current, maximum, zeroCounts)
    BY CallIs
<1> HIDE DEF c
<1>2. WordsOf(<<c>>) = {<<field, WordMeant(FileMeant, stat, current, maximum, zeroCounts)>>}
    BY <1>1, WordsOfOne
<1>3. <<c>> \in Seq({c})
    OBVIOUS
<1> QED
    BY <1>2, <1>3 DEF c

\* A state of a processor has its word when it is known.
LEMMA DescribedIs ==
    ASSUME Given, NEW s, NEW f, f \in DOMAIN s.percent => s.percent[f] \in Nat
    PROVE  /\ \E T : DescribedOf(s, f) \in Seq(T)
           /\ WordsOf(DescribedOf(s, f)) = IF f \in DOMAIN s.percent
                                           THEN {<<<<f>>, WordMeant(FileMeant, <<f>>, s.percent[f], 100, FALSE)>>} ELSE {}
<1>1. CASE f \notin DOMAIN s.percent
    <2>1. <<>> \in Seq({}) /\ DescribedOf(s, f) = <<>>
        BY <1>1 DEF DescribedOf
    <2> QED
        BY <1>1, <2>1, WordsOfOne
<1>2. CASE f \in DOMAIN s.percent
    <2> DEFINE l == <<f>>
               x == s.percent[f]
               h == 100
               no == FALSE
               log == f # "steal"
    <2>1. x \in Nat /\ h \in Nat /\ no \in BOOLEAN /\ DescribedOf(s, f) = <<AlertCall(l, l, x, h, no, log)>>
        BY <1>2 DEF DescribedOf
    <2> HIDE DEF l, x, h, no, log
    <2>2. /\ \E T : <<AlertCall(l, l, x, h, no, log)>> \in Seq(T)
          /\ WordsOf(<<AlertCall(l, l, x, h, no, log)>>) = {<<l, WordMeant(FileMeant, l, x, h, no)>>}
        BY <2>1, OneSays
    <2>3. (\E T : DescribedOf(s, f) \in Seq(T)) /\ WordsOf(DescribedOf(s, f)) = {<<l, WordMeant(FileMeant, l, x, h, no)>>}
        BY <2>1, <2>2
    <2> QED
        BY <1>2, <2>3 DEF l, x, h, no
<1> QED
    BY <1>1, <1>2

\* Context switches have their word once a tick has passed.
LEMMA SwitchesAre ==
    ASSUME Given, NEW s, s.ctx \in Nat, s.cores \in Nat
    PROVE  /\ \E T : SwitchesOf(s) \in Seq(T)
           /\ WordsOf(SwitchesOf(s)) =
                  IF s.since = 0 THEN {}
                  ELSE {<<<<"ctx_switches">>, WordMeant(FileMeant, <<"ctx_switches">>, s.ctx, 100 * s.cores, FALSE)>>}
<1>1. CASE s.since = 0
    <2>1. <<>> \in Seq({}) /\ SwitchesOf(s) = <<>>
        BY <1>1 DEF SwitchesOf
    <2> QED
        BY <1>1, <2>1, WordsOfOne
<1>2. CASE s.since # 0
    <2> DEFINE l == <<"ctx_switches">>
               x == s.ctx
               h == 100 * s.cores
               no == FALSE
    <2>a. x \in Nat /\ h \in Nat /\ no \in BOOLEAN
        OBVIOUS
    <2>b. SwitchesOf(s) = <<AlertCall(l, l, x, h, no, no)>>
        BY <1>2 DEF SwitchesOf
    <2>1. x \in Nat /\ h \in Nat /\ no \in BOOLEAN /\ SwitchesOf(s) = <<AlertCall(l, l, x, h, no, no)>>
        BY <2>a, <2>b
    <2> HIDE DEF l, x, h, no
    <2>2. /\ \E T : <<AlertCall(l, l, x, h, no, no)>> \in Seq(T)
          /\ WordsOf(<<AlertCall(l, l, x, h, no, no)>>) = {<<l, WordMeant(FileMeant, l, x, h, no)>>}
        BY <2>1, OneSays
    <2>3. (\E T : SwitchesOf(s) \in Seq(T)) /\ WordsOf(SwitchesOf(s)) = {<<l, WordMeant(FileMeant, l, x, h, no)>>}
        BY <2>1, <2>2
    <2> QED
        BY <1>2, <2>3 DEF l, x, h, no
<1> QED
    BY <1>1, <1>2

\* The processor in a tick.
LEMMA CpuSays ==
    ASSUME Given, followed = "cpu", IsUpdate("cpu", showing)
    PROVE  Said
<1> DEFINE parts == [i \in 1..7 |-> IF i <= 6 THEN DescribedOf(showing, CpuStates[i]) ELSE SwitchesOf(showing)]
           says(i) == CpuSaysOf(showing, i)
           word(f) == WordMeant(FileMeant, <<f>>, showing.percent[f], 100, FALSE)
           switched == WordMeant(FileMeant, <<"ctx_switches">>, showing.ctx, 100 * showing.cores, FALSE)
<1>1. /\ showing.ctx \in Nat /\ showing.cores \in Nat /\ showing.since \in Nat
      /\ DOMAIN showing.percent \subseteq Range(CpuStates)
      /\ \A f \in DOMAIN showing.percent : showing.percent[f] \in Nat
    <2>1. PICK known \in SUBSET Range(CpuStates) :
                   showing \in [percent : [known -> Nat], ctx : Nat, cores : Nat, since : Nat]
        BY DEF IsUpdate
    <2> QED
        BY <2>1
<1>2. \A i \in 1..7 : (\E T : parts[i] \in Seq(T)) /\ WordsOf(parts[i]) = says(i)
    <2> SUFFICES ASSUME NEW i \in 1..7 PROVE (\E T : parts[i] \in Seq(T)) /\ WordsOf(parts[i]) = says(i)
        OBVIOUS
    <2>1. CASE i <= 6
        <3> DEFINE f == CpuStates[i]
        <3>1. parts[i] = DescribedOf(showing, f)
            BY <2>1
        <3>2. says(i) = IF f \in DOMAIN showing.percent THEN {<<<<f>>, word(f)>>} ELSE {}
            BY <2>1 DEF CpuSaysOf
        <3>3. f \in DOMAIN showing.percent => showing.percent[f] \in Nat
            BY <1>1
        <3> HIDE DEF f, parts, says
        <3> QED
            BY <3>1, <3>2, <3>3, DescribedIs
    <2>2. CASE ~(i <= 6)
        <3>1. parts[i] = SwitchesOf(showing)
            BY <2>2
        <3>2. says(i) = IF showing.since = 0 THEN {} ELSE {<<<<"ctx_switches">>, switched>>}
            BY <2>2 DEF CpuSaysOf
        <3> HIDE DEF parts, says
        <3> QED
            BY <1>1, <3>1, <3>2, SwitchesAre
    <2> QED
        BY <2>1, <2>2
<1>3. \A i \in 1..7 : \A p \in says(i) : p[1] = <<CpuName(i)>> /\ says(i) = {p}
    <2> SUFFICES ASSUME NEW i \in 1..7, NEW p \in says(i) PROVE p[1] = <<CpuName(i)>> /\ says(i) = {p}
        OBVIOUS
    <2> HIDE DEF word, switched
    <2>1. CASE i <= 6
        <3>1. says(i) = {<<<<CpuName(i)>>, word(CpuStates[i])>>}
            BY <2>1 DEF CpuSaysOf, CpuName, word
        <3> QED
            BY <3>1
    <2>2. CASE ~(i <= 6)
        <3>1. says(i) = {<<<<CpuName(i)>>, switched>>}
            BY <2>2 DEF CpuSaysOf, CpuName, switched
        <3> QED
            BY <3>1
    <2> QED
        BY <2>1, <2>2
<1>4. \A i, j \in 1..7 : Agree(says(i), says(j))
    <2> HIDE DEF says
    <2> SUFFICES ASSUME NEW i \in 1..7, NEW j \in 1..7, NEW p \in says(i), NEW q \in says(j), p[1] = q[1]
                 PROVE  p[2] = q[2]
        BY DEF Agree
    <2>1. CpuName(i) = CpuName(j)
        BY <1>3
    <2>2. i = j
        BY <2>1, CpuNames
    <2> QED
        BY <1>3, <2>2
<1>5. parts = [i \in 1..7 |-> parts[i]] /\ 7 \in Nat
    OBVIOUS
<1>6. CallsFor(showing) = FlattenSeq(parts)
    <2>1. CallsFor(showing) = OfCpu(showing)
        BY DEF CallsFor
    <2> QED
        BY <2>1 DEF OfCpu, DescribedOf, SwitchesOf
<1>7. WordsMeant(FileMeant) = UNION {says(i) : i \in 1..7}
    <2>1. WordsMeant(FileMeant) = {<<<<f>>, word(f)>> : f \in DOMAIN showing.percent}
                                  \cup {<<<<"ctx_switches">>, switched>> : k \in {1} \cap 1..showing.since}
        BY DEF WordsMeant
    <2>2. {1} \cap 1..showing.since = IF showing.since = 0 THEN {} ELSE {1}
        BY <1>1
    <2>3. says(7) = IF showing.since = 0 THEN {} ELSE {<<<<"ctx_switches">>, switched>>}
        BY DEF CpuSaysOf
    <2>4. \A i \in 1..6 : says(i) = IF CpuStates[i] \in DOMAIN showing.percent
                                    THEN {<<<<CpuStates[i]>>, word(CpuStates[i])>>} ELSE {}
        BY DEF CpuSaysOf
    <2>5. \A f \in DOMAIN showing.percent : \E i \in 1..6 : CpuStates[i] = f
        BY <1>1, CpuNames
    <2>6. 1..7 = 1..6 \cup {7}
        OBVIOUS
    <2> HIDE DEF says, word, switched
    <2>7. {<<<<"ctx_switches">>, switched>> : k \in {1} \cap 1..showing.since} = says(7)
        BY <2>2, <2>3
    <2>8. {<<<<f>>, word(f)>> : f \in DOMAIN showing.percent} = UNION {says(i) : i \in 1..6}
        BY <2>4, <2>5
    <2>9. UNION {says(i) : i \in 1..7} = (UNION {says(i) : i \in 1..6}) \cup says(7)
        BY <2>6
    <2> QED
        BY <2>1, <2>7, <2>8, <2>9
<1> HIDE DEF parts, says, word, switched
<1>8. \A i, j \in 1..7 : Agree(WordsOf(parts[i]), WordsOf(parts[j]))
    BY <1>2, <1>4
<1> DEFINE n == 7
<1>9. /\ n \in Nat /\ parts = [i \in 1..n |-> parts[i]]
      /\ \A i \in 1..n : \E T : parts[i] \in Seq(T)
      /\ \A i, j \in 1..n : Agree(WordsOf(parts[i]), WordsOf(parts[j]))
    BY <1>2, <1>5, <1>8
<1>10. WordsMeant(FileMeant) = UNION {WordsOf(parts[i]) : i \in 1..n}
    BY <1>2, <1>7
<1> HIDE DEF n
<1>11. PICK S : /\ FlattenSeq(parts) \in Seq(S)
                /\ WordsOf(FlattenSeq(parts)) = UNION {WordsOf(parts[i]) : i \in 1..n}
    BY <1>9, PartsSay
<1> QED
    BY <1>6, <1>10, <1>11 DEF Said

\* The loads of a tick.
LEMMA LoadSays ==
    ASSUME Given, followed = "load", IsUpdate("load", showing)
    PROVE  Said
<1> DEFINE f == <<"min15">>
           g == <<"min5">>
           st == <<>>
           x == showing.min15
           y == showing.min5
           h == 100 * showing.cores
           yes == TRUE
           no == FALSE
           c == AlertCall(f, st, x, h, no, yes)
           d == AlertCall(g, st, y, h, no, no)
           word(k) == WordMeant(FileMeant, <<>>, showing[k], 100 * showing.cores, FALSE)
<1>1. showing.min15 \in Nat /\ showing.min5 \in Nat /\ showing.cores \in Nat
    BY DEF IsUpdate
<1>2. x \in Nat /\ y \in Nat /\ h \in Nat /\ no \in BOOLEAN /\ f # g
    BY <1>1
<1>3. CallsFor(showing) = <<c, d>>
    BY DEF CallsFor, OfLoad
<1>4. WordsMeant(FileMeant) = {<<f, WordMeant(FileMeant, st, x, h, no)>>, <<g, WordMeant(FileMeant, st, y, h, no)>>}
    <2>1. WordsMeant(FileMeant) = {<<<<k>>, word(k)>> : k \in {"min5", "min15"}}
        BY DEF WordsMeant
    <2> HIDE DEF word
    <2>2. WordsMeant(FileMeant) = {<<<<"min5">>, word("min5")>>, <<<<"min15">>, word("min15")>>}
        BY <2>1
    <2> QED
        BY <2>2 DEF word
<1> HIDE DEF f, g, st, x, y, h, yes, no
<1>5. c.field = f /\ WordFor(c) = WordMeant(FileMeant, st, x, h, no)
    BY <1>2, CallIs
<1>6. d.field = g /\ WordFor(d) = WordMeant(FileMeant, st, y, h, no)
    BY <1>2, CallIs
<1> HIDE DEF c, d
<1>7. <<c, d>> \in Seq({c, d})
    OBVIOUS
<1>8. WordsOf(<<c, d>>) = {<<f, WordMeant(FileMeant, st, x, h, no)>>, <<g, WordMeant(FileMeant, st, y, h, no)>>}
    BY <1>2, <1>5, <1>6, TwoCalls
<1> QED
    BY <1>3, <1>4, <1>7, <1>8 DEF Said

\* The memory of a tick, or its swap.
LEMMA MemorySays ==
    ASSUME Given, followed \in {"mem", "memswap"}, IsUpdate(followed, showing)
    PROVE  Said
<1> DEFINE f == <<"percent">>
           st == <<>>
           x == showing.used
           h == showing.total
           yes == TRUE
           no == FALSE
           c == AlertCall(f, st, x, h, no, yes)
           word == WordMeant(FileMeant, <<>>, showing.used, showing.total, FALSE)
<1>1. showing.used \in Nat /\ showing.total \in Nat
    BY DEF IsUpdate
<1>2. x \in Nat /\ h \in Nat /\ no \in BOOLEAN
    BY <1>1
<1>3. CallsFor(showing) = IF h = 0 THEN <<>> ELSE <<c>>
    BY DEF CallsFor, OfMemory
<1>4. WordsMeant(FileMeant) = IF h = 0 THEN {} ELSE {<<f, WordMeant(FileMeant, st, x, h, no)>>}
    <2>1. WordsMeant(FileMeant) = {<<f, word>> : k \in {1} \cap 1..h}
        <3>1. CASE followed = "mem"
            BY <3>1 DEF WordsMeant
        <3>2. CASE followed = "memswap"
            BY <3>2 DEF WordsMeant
        <3> QED
            BY <3>1, <3>2
    <2>2. {1} \cap 1..h = IF h = 0 THEN {} ELSE {1}
        BY <1>1
    <2> HIDE DEF word, f, h
    <2>3. WordsMeant(FileMeant) = IF h = 0 THEN {} ELSE {<<f, word>>}
        BY <2>1, <2>2
    <2> QED
        BY <2>3 DEF word, h
<1> HIDE DEF f, st, x, h, yes, no
<1>5. /\ \E T : <<c>> \in Seq(T)
      /\ WordsOf(<<c>>) = {<<f, WordMeant(FileMeant, st, x, h, no)>>}
    BY <1>2, OneSays
<1> HIDE DEF c
<1>6. <<>> \in Seq({}) /\ WordsOf(<<>>) = {}
    BY WordsOfOne
<1> QED
    BY <1>3, <1>4, <1>5, <1>6 DEF Said

\* Three calls for three figures.
LEMMA ThreeCalls ==
    ASSUME NEW c, NEW d, NEW e, c.field # d.field, c.field # e.field, d.field # e.field
    PROVE  WordsOf(<<c, d, e>>) = {<<c.field, WordFor(c)>>, <<d.field, WordFor(d)>>, <<e.field, WordFor(e)>>}
<1> DEFINE s == <<c, d, e>>
<1>1. DOMAIN s = {1, 2, 3} /\ s[1] = c /\ s[2] = d /\ s[3] = e
    OBVIOUS
<1> HIDE DEF s
<1>2. LastOnes(s) = {1, 2, 3}
    BY <1>1 DEF LastOnes
<1> QED
    BY <1>1, <1>2 DEF WordsOf, s

\* The summary of a tick.
LEMMA QuicklookSays ==
    ASSUME Given, followed = "quicklook", IsUpdate("quicklook", showing)
    PROVE  Said
<1> DEFINE f == <<"cpu">>
           g == <<"mem">>
           k == <<"swap">>
           x == showing.cpu
           y == showing.mem
           z == showing.swap
           h == 100
           no == FALSE
           c == AlertCall(f, f, x, h, no, no)
           d == AlertCall(g, g, y, h, no, no)
           e == AlertCall(k, k, z, h, no, no)
           word(l) == WordMeant(FileMeant, <<l>>, showing[l], 100, FALSE)
           words == {<<f, WordMeant(FileMeant, f, x, h, no)>>, <<g, WordMeant(FileMeant, g, y, h, no)>>,
                     <<k, WordMeant(FileMeant, k, z, h, no)>>}
<1>1. x \in Nat /\ y \in Nat /\ z \in Nat
    BY DEF IsUpdate
<1>2. h \in Nat /\ no \in BOOLEAN /\ f # g /\ f # k /\ g # k
    OBVIOUS
<1>3. CallsFor(showing) = <<c, d, e>>
    BY DEF CallsFor, OfQuicklook
<1>4. WordsMeant(FileMeant) = words
    <2>1. WordsMeant(FileMeant) = {<<<<l>>, word(l)>> : l \in {"cpu", "mem", "swap"}}
        BY DEF WordsMeant
    <2> HIDE DEF word
    <2>2. WordsMeant(FileMeant) = {<<<<"cpu">>, word("cpu")>>, <<<<"mem">>, word("mem")>>, <<<<"swap">>, word("swap")>>}
        BY <2>1
    <2> QED
        BY <2>2 DEF word
<1> HIDE DEF f, g, k, x, y, z, h, no
<1>5. c.field = f /\ WordFor(c) = WordMeant(FileMeant, f, x, h, no)
    BY <1>1, <1>2, CallIs
<1>6. d.field = g /\ WordFor(d) = WordMeant(FileMeant, g, y, h, no)
    BY <1>1, <1>2, CallIs
<1>7. e.field = k /\ WordFor(e) = WordMeant(FileMeant, k, z, h, no)
    BY <1>1, <1>2, CallIs
<1> HIDE DEF c, d, e
<1>8. <<c, d, e>> \in Seq({c, d, e})
    OBVIOUS
<1>9. WordsOf(<<c, d, e>>) = words
    BY <1>2, <1>5, <1>6, <1>7, ThreeCalls
<1> QED
    BY <1>3, <1>4, <1>8, <1>9 DEF Said

\* Whatever plugin is followed.
LEMMA AllSay ==
    ASSUME Given, IsUpdate(followed, showing)
    PROVE  Said
BY NetworkSays, DiskioSays, FsSays, CpuSays, LoadSays, MemorySays, QuicklookSays DEF Given, Followable

\* The views of a tick, in the words that are meant.
LEMMA ViewsSay ==
    ASSUME Given, IsUpdate(followed, showing), views = ViewsOf(CallsFor(showing))
    PROVE  {<<f, views[f].word>> : f \in DOMAIN views} = WordsMeant(FileMeant)
<1>1. PICK S : CallsFor(showing) \in Seq(S) /\ WordsOf(CallsFor(showing)) = WordsMeant(FileMeant)
    BY AllSay DEF Said
<1> QED
    BY <1>1, ViewsAre

-----------------------------------------------------------------------------
(* Commands.                                                               *)

\* A command is given under a key exactly when the file says one.
LEMMA ActionIs ==
    ASSUME Given, NEW t, NEW how \in {"once", "repeat"}
    PROVE  /\ <<t, how>> \in DOMAIN limits <=> Says(FileMeant, t, how) # {}
           /\ <<t, how>> \in DOMAIN limits => Says(FileMeant, t, how) = {limits[<<t, how>>]}
<1>1. setup \in Setup /\ followed \in Followable /\ followed # "default" /\ NCpu \in Nat
    BY DEF Given, Followable
<1>2. limits = LimitsOf(followed, Config(setup))
    BY DEF Given
<1>3. how \notin Bands
    BY DEF Bands
<1>4. <<t, how>> \notin DOMAIN DefaultLimits(followed)
    BY <1>1, <1>3, BuiltInIs
<1>5. /\ Says(FileMeant, t, how) # {} => <<t, how>> \in DOMAIN limits /\ Says(FileMeant, t, how) = {limits[<<t, how>>]}
      /\ Says(FileMeant, t, how) = {} => (<<t, how>> \in DOMAIN limits <=> <<t, how>> \in DOMAIN DefaultLimits(followed))
    BY <1>1, <1>2, LimitsAre
<1> QED
    BY <1>4, <1>5

\* The command taken for a word is the one written for it.
LEMMA CommandIs ==
    ASSUME Given, NEW word, NEW stat, NEW k \in LimitAction(word, stat)
    PROVE  CommandMeant(FileMeant, stat, word) = {limits[k]}
<1> DEFINE t == stat \o <<word>>
           u == <<followed>> \o <<word>>
           file == FileMeant
           keys == <<<<t, "once">>, <<t, "repeat">>, <<u, "once">>, <<u, "repeat">>>>
           there == {n \in 1..4 : keys[n] \in DOMAIN limits}
<1>1. u = <<followed, word>>
    <2> DEFINE v == <<followed, word>>
               S == {followed, word}
    <2>1. u \in Seq(S) /\ v \in Seq(S) /\ Len(u) = 2 /\ Len(v) = 2
          /\ u[1] = v[1] /\ u[2] = v[2]
        OBVIOUS
    <2>2. 1..2 = {1, 2}
        OBVIOUS
    <2> HIDE DEF u, v, S
    <2>3. u = v
        BY <2>1, <2>2, SeqEqual
    <2> QED
        BY <2>3 DEF v
<1>2. LimitAction(word, stat) = {keys[n] : n \in {j \in there : \A i \in there : j <= i}}
    BY <1>1 DEF LimitAction
<1>3. PICK n \in there : k = keys[n] /\ \A i \in there : n <= i
    BY <1>2
<1>4. /\ keys[1] = <<t, "once">> /\ keys[2] = <<t, "repeat">> /\ keys[3] = <<u, "once">> /\ keys[4] = <<u, "repeat">>
    OBVIOUS
<1>5. 1..4 = {1, 2, 3, 4}
    OBVIOUS
<1>6. CommandMeant(file, stat, word) =
          CASE Says(file, t, "once") # {} -> Says(file, t, "once")
            [] Says(file, t, "once") = {} /\ Says(file, t, "repeat") # {} -> Says(file, t, "repeat")
            [] OTHER -> IF Says(file, u, "once") # {} THEN Says(file, u, "once") ELSE Says(file, u, "repeat")
    BY DEF CommandMeant
<1> HIDE DEF t, u, file
<1>7. /\ keys[1] \in DOMAIN limits <=> Says(file, t, "once") # {}
      /\ keys[1] \in DOMAIN limits => Says(file, t, "once") = {limits[keys[1]]}
    BY <1>4, ActionIs DEF file
<1>8. /\ keys[2] \in DOMAIN limits <=> Says(file, t, "repeat") # {}
      /\ keys[2] \in DOMAIN limits => Says(file, t, "repeat") = {limits[keys[2]]}
    BY <1>4, ActionIs DEF file
<1>9. /\ keys[3] \in DOMAIN limits <=> Says(file, u, "once") # {}
      /\ keys[3] \in DOMAIN limits => Says(file, u, "once") = {limits[keys[3]]}
    BY <1>4, ActionIs DEF file
<1>10. /\ keys[4] \in DOMAIN limits <=> Says(file, u, "repeat") # {}
       /\ keys[4] \in DOMAIN limits => Says(file, u, "repeat") = {limits[keys[4]]}
    BY <1>4, ActionIs DEF file
<1>11. n \in {1, 2, 3, 4} /\ keys[n] \in DOMAIN limits
       /\ \A i \in {1, 2, 3, 4} : keys[i] \in DOMAIN limits => n <= i
    BY <1>3, <1>5
<1> HIDE DEF keys, there
<1>12. CommandMeant(file, stat, word) = {limits[keys[n]]}
    <2>1. CASE n = 1
        BY <1>6, <1>7, <1>11, <2>1
    <2>2. CASE n = 2
        <3>1. ~(keys[1] \in DOMAIN limits)
            BY <1>11, <2>2
        <3> QED
            BY <1>6, <1>7, <1>8, <1>11, <2>2, <3>1
    <2>3. CASE n = 3
        <3>1. ~(keys[1] \in DOMAIN limits) /\ ~(keys[2] \in DOMAIN limits)
            BY <1>11, <2>3
        <3> QED
            BY <1>6, <1>7, <1>8, <1>9, <1>11, <2>3, <3>1
    <2>4. CASE n = 4
        <3>1. ~(keys[1] \in DOMAIN limits) /\ ~(keys[2] \in DOMAIN limits) /\ ~(keys[3] \in DOMAIN limits)
            BY <1>11, <2>4
        <3> QED
            BY <1>6, <1>7, <1>8, <1>9, <1>10, <1>11, <2>4, <3>1
    <2> QED
        BY <1>11, <2>1, <2>2, <2>3, <2>4
<1> QED
    BY <1>3, <1>12 DEF file

-----------------------------------------------------------------------------
(* The invariant.                                                          *)

\* What every step keeps: the limits are those of the file of this setup, the
\* views those of the figures shown under these limits, and a command that was
\* handed on is one that these limits have for the word.
SettingsInv ==
    /\ followed \in DOMAIN Setups /\ setup \in Setups[followed] /\ rounds \in Nat
    /\ rounds = 0 => acted = {}
    /\ rounds > 0 => limits = LimitsOf(followed, Config(setup))
    /\ rounds > 1 => \E s \in Updates[followed] : \E calls :
                         showing = s /\ calls = CallsFor(s) /\ views = ViewsOf(calls)
    /\ \A a \in acted : \E k \in LimitAction(a.word, a.stat) : a.command = limits[k]

\* The calls, the views and the actions depend on the limits and the plugin alone.
LEMMA SameLimits ==
    ASSUME limits' = limits, followed' = followed
    PROVE  /\ \A s : CallsFor(s)' = CallsFor(s)
           /\ \A calls : ViewsOf(calls)' = ViewsOf(calls)
           /\ \A word, stat : LimitAction(word, stat)' = LimitAction(word, stat)
<1>1. \A field, stat, current, maximum, zero, log :
          AlertCall(field, stat, current, maximum, zero, log)' = AlertCall(field, stat, current, maximum, zero, log)
    BY DEF AlertCall
<1>2. \A c : WordFor(c)' = WordFor(c)
    BY DEF WordFor
<1>3. \A stat, log : LimitLog(stat, log)' = LimitLog(stat, log)
    BY DEF LimitLog
<1>4. \A c : Verdict(c)' = Verdict(c)
    BY <1>2, <1>3 DEF Verdict
<1>5. \A calls : ViewsOf(calls)' = ViewsOf(calls)
    BY <1>4 DEF ViewsOf
<1>6. \A word, stat : LimitAction(word, stat)' = LimitAction(word, stat)
    BY DEF LimitAction
<1>7. \A i : OfInterface(i)' = OfInterface(i)
    BY <1>2 DEF OfInterface, Again, AlertCall
<1>8. \A d : OfDisk(d)' = OfDisk(d)
    BY DEF OfDisk, AlertCall
<1>9. \A f : OfMount(f)' = OfMount(f)
    BY DEF OfMount, AlertCall
<1>10. \A s : OfCpu(s)' = OfCpu(s)
    BY DEF OfCpu, AlertCall
<1>11. \A s : OfLoad(s)' = OfLoad(s)
    BY DEF OfLoad, AlertCall
<1>12. \A s : OfMemory(s)' = OfMemory(s)
    BY DEF OfMemory, AlertCall
<1>13. \A s : OfQuicklook(s)' = OfQuicklook(s)
    BY DEF OfQuicklook, AlertCall
<1>14. \A s : CallsFor(s)' = CallsFor(s)
    BY <1>7, <1>8, <1>9, <1>10, <1>11, <1>12, <1>13 DEF CallsFor
<1> QED
    BY <1>5, <1>6, <1>14

\* The constants are what the tables of the code can be.
LEMMA GivenIs ==
    ASSUME SettingsInv, rounds > 0
    PROVE  Given
BY SettingsAssumption DEF SettingsInv, Given, Followable

\* The limits mean what was written whenever the invariant holds.
LEMMA InvMeans ==
    ASSUME SettingsInv
    PROVE  LimitsAsWritten
<1> SUFFICES ASSUME rounds > 1
             PROVE  /\ {<<f, views[f].word>> : f \in DOMAIN views} = WordsMeant(FileMeant)
                    /\ \A a \in acted : CommandMeant(FileMeant, a.stat, a.word) = {a.command}
    BY DEF LimitsAsWritten
<1>1. rounds \in Nat /\ rounds > 0
    BY DEF SettingsInv
<1>2. Given
    BY <1>1, GivenIs
<1>3. showing \in Updates[followed] /\ views = ViewsOf(CallsFor(showing)) /\ followed \in DOMAIN Setups
    BY DEF SettingsInv
<1>4. IsUpdate(followed, showing)
    BY <1>3, SettingsAssumption
<1>5. {<<f, views[f].word>> : f \in DOMAIN views} = WordsMeant(FileMeant)
    BY <1>2, <1>3, <1>4, ViewsSay
<1>6. ASSUME NEW a \in acted PROVE CommandMeant(FileMeant, a.stat, a.word) = {a.command}
    <2>1. PICK k \in LimitAction(a.word, a.stat) : a.command = limits[k]
        BY DEF SettingsInv
    <2> QED
        BY <1>2, <2>1, CommandIs
<1> QED
    BY <1>5, <1>6

\* The invariant holds before the file is read.
LEMMA SettingsStarts == SettingsInit => SettingsInv
BY DEF SettingsInit, SettingsInv

\* Reading the file and every tick keep it.
LEMMA SettingsKeeps == SettingsInv /\ [SettingsNext]_settingsVars => SettingsInv'
<1> SUFFICES ASSUME SettingsInv, [SettingsNext]_settingsVars PROVE SettingsInv'
    OBVIOUS
<1>1. CASE ReadConfig
    <2>1. rounds = 0 /\ rounds' = 1 /\ limits' = LimitsOf(followed, Config(setup)) /\ acted = {} /\ acted' = {}
          /\ followed' = followed /\ setup' = setup
        BY <1>1 DEF ReadConfig, SettingsInv
    <2> QED
        BY <2>1 DEF SettingsInv
<1>2. ASSUME NEW s \in Updates[followed], AfterUpdate(s) PROVE SettingsInv'
    <2> DEFINE live == {t \in DOMAIN thresholds : thresholds[t] \in Bands}
    <2>1. /\ rounds \in 1..Rounds /\ rounds' = rounds + 1 /\ showing' = s
          /\ views' = ViewsOf(CallsFor(s))
          /\ followed' = followed /\ setup' = setup /\ limits' = limits
          /\ acted' = UNION {{[stat |-> t, word |-> thresholds[t], command |-> limits[k]] :
                                  k \in LimitAction(thresholds[t], t)} : t \in live}
        BY <1>2 DEF AfterUpdate
    <2>2. /\ \A c : CallsFor(c)' = CallsFor(c)
          /\ \A calls : ViewsOf(calls)' = ViewsOf(calls)
          /\ \A word, stat : LimitAction(word, stat)' = LimitAction(word, stat)
        BY <2>1, SameLimits
    <2>3. \A a \in acted' : \E k \in LimitAction(a.word, a.stat) : a.command = limits[k]
        BY <2>1
    <2>4. /\ (followed \in DOMAIN Setups /\ setup \in Setups[followed] /\ rounds \in Nat)'
          /\ (rounds = 0 => acted = {})'
          /\ (rounds > 0 => limits = LimitsOf(followed, Config(setup)))'
        BY <2>1, SettingsAssumption DEF SettingsInv
    <2>5. (\E x \in Updates[followed] : \E calls : showing = x /\ calls = CallsFor(x) /\ views = ViewsOf(calls))'
        BY <2>1, <2>2
    <2>6. (\A a \in acted : \E k \in LimitAction(a.word, a.stat) : a.command = limits[k])'
        BY <2>1, <2>2, <2>3
    <2> QED
        BY <2>4, <2>5, <2>6 DEF SettingsInv
<1>3. CASE UNCHANGED settingsVars
    <2>1. limits' = limits /\ followed' = followed /\ setup' = setup /\ rounds' = rounds /\ acted' = acted
          /\ showing' = showing /\ views' = views
        BY <1>3 DEF settingsVars
    <2>2. /\ \A c : CallsFor(c)' = CallsFor(c)
          /\ \A calls : ViewsOf(calls)' = ViewsOf(calls)
          /\ \A word, stat : LimitAction(word, stat)' = LimitAction(word, stat)
        BY <2>1, SameLimits
    <2> QED
        BY <2>1, <2>2 DEF SettingsInv
<1> QED
    BY <1>1, <1>2, <1>3 DEF SettingsNext

\* In every state the parts above hold, for any files and any updates.
THEOREM SettingsInvariant == SettingsSpec => []SettingsInv
BY SettingsStarts, SettingsKeeps, PTL DEF SettingsSpec

\* The words beside the figures and the commands handed on are those the user wrote.
THEOREM LimitsAsWrittenAlways == SettingsSpec => []LimitsAsWritten
BY SettingsInvariant, InvMeans, PTL
=============================================================================
