-------------------------- MODULE AlertTickProofs --------------------------
(***************************************************************************)
(* Proofs about AlertTick, for any plugins, limits, readings and log size: *)
(* its types, that a critical rollup has a recent breach behind it, that   *)
(* what a full clear dropped does not come back, and that a breach shows.  *)
(*                                                                         *)
(* The alerts are copied from the log, so each property is inductive only  *)
(* together with its counterpart for the log (AlertInv).  That a breach    *)
(* shows needs its event to last in the log from its plugin's turn to the  *)
(* copy: no more events come behind it than plugins have their turn after  *)
(* it, and a clear of the lower bands moves it no further from the end     *)
(* (ShowsInv).                                                             *)
(***************************************************************************)
EXTENDS AlertTick, FiniteSetTheorems, SequenceTheorems, TLAPS

-----------------------------------------------------------------------------
(* Classification.                                                         *)

\* Some band of a set of bands is the worst of it.
LEMMA WorstBand ==
    ASSUME NEW reached \in SUBSET Bands, reached # {}
    PROVE  LET w == CHOOSE b \in reached : \A c \in reached : Rank(c) <= Rank(b)
           IN w \in reached /\ \A c \in reached : Rank(c) <= Rank(w)
<1> DEFINE Worst(b) == \A c \in reached : Rank(c) <= Rank(b)
<1>1. \E b \in reached : Worst(b)
    <2>1. CASE "CRITICAL" \in reached BY <2>1 DEF Rank, Bands
    <2>2. CASE "CRITICAL" \notin reached /\ "WARNING" \in reached
        BY <2>2 DEF Rank, Bands
    <2>3. CASE "CRITICAL" \notin reached /\ "WARNING" \notin reached
        <3>1. reached = {"CAREFUL"}
            BY <2>3 DEF Bands
        <3> QED BY <3>1 DEF Rank
    <2> QED BY <2>1, <2>2, <2>3
<1> HIDE DEF Worst
<1>2. (CHOOSE b \in reached : Worst(b)) \in reached /\ Worst(CHOOSE b \in reached : Worst(b))
    BY <1>1
<1> QED BY <1>2 DEF Worst

\* A reading gets one of the words, and CRITICAL exactly when it is up at its
\* critical limit.
LEMMA CriticalIsBreach ==
    ASSUME NEW p, Classified(p)
    PROVE  /\ WordOf(p) \in Words
           /\ WordOf(p) = "CRITICAL" <=> Breaching(p)
<1> DEFINE limit(b) == GetLimit(Limits, p, p, b)
           reached == {b \in Bands : Reaches(reading[p], limit(b))}
           low == reading[p].current < reading[p].minimum
           worst == CHOOSE b \in reached : \A c \in reached : Rank(c) <= Rank(b)
           none == IF \E b \in Bands : limit(b) # NoLimit THEN "OK" ELSE "DEFAULT"
<1>1. WordOf(p) = IF low THEN "CAREFUL" ELSE IF reached # {} THEN worst ELSE none
    BY DEF WordOf, Classify
<1>2. Breaching(p) <=> ~low /\ "CRITICAL" \in reached
    BY DEF Breaching, Bands
<1>3. reached \in SUBSET Bands
    OBVIOUS
<1>4. none \in {"OK", "DEFAULT"}
    OBVIOUS
<1> HIDE DEF low, reached, none
<1>5. CASE low BY <1>1, <1>2, <1>5 DEF Words, Bands
<1>6. CASE ~low /\ reached = {} BY <1>1, <1>2, <1>4, <1>6 DEF Words, Bands
<1>7. CASE ~low /\ reached # {}
    <2>1. worst \in reached /\ \A c \in reached : Rank(c) <= Rank(worst)
        BY <1>3, <1>7, WorstBand
    <2> HIDE DEF worst
    <2>2. "CRITICAL" \in reached => worst = "CRITICAL"
        BY <1>3, <2>1 DEF Rank, Bands
    <2> QED BY <1>1, <1>2, <1>3, <1>7, <2>1, <2>2 DEF Words
<1> QED BY <1>5, <1>6, <1>7

-----------------------------------------------------------------------------
(* The log.                                                                *)

\* Older keeps ages ages and never reorders them.
LEMMA OlderAges ==
    /\ \A a \in Ages \cup {None} :
           /\ Older(a) \in Ages \cup {None}
           /\ Older(a) = None <=> a = None
           /\ a \in Ages => Older(a) \in Ages
    /\ \A a, b \in Ages : a <= b => Older(a) <= Older(b)
BY AlertAssumption DEF Older, Ages

\* The positions kept, counted in order, are 1..Cardinality(kept): Retain is a
\* sequence of kept entries, no longer than the original, and has all of them,
\* no further from the end.
LEMMA RetainPlaced ==
    ASSUME NEW S, NEW l \in Seq(S), NEW kept \in SUBSET DOMAIN l
    PROVE  /\ \A i \in kept : \E n \in DOMAIN Retain(l, kept) :
                  /\ Retain(l, kept)[n] = l[i]
                  /\ Len(Retain(l, kept)) - n <= Len(l) - i
           /\ Retain(l, kept) \in Seq(S)
           /\ Len(Retain(l, kept)) <= Len(l)
           /\ \A n \in DOMAIN Retain(l, kept) :
                  \E i \in DOMAIN l : Retain(l, kept)[n] = l[i]
<1> DEFINE upTo(i) == {j \in kept : j <= i}
           card == Cardinality(kept)
           rank == [i \in kept |-> Cardinality(upTo(i))]
           Nth(n) == CHOOSE i \in kept : Cardinality({j \in kept : j <= i}) = n
<1>1. DOMAIN l = 1..Len(l) /\ Len(l) \in Nat
    BY LenProperties
<1>2. IsFiniteSet(1..Len(l)) /\ Cardinality(1..Len(l)) = Len(l)
    <2>1. /\ IsFiniteSet(1..Len(l))
          /\ Cardinality(1..Len(l)) = IF 1 > Len(l) THEN 0 ELSE Len(l) - 1 + 1
        BY <1>1, FS_Interval, 1 \in Int, Len(l) \in Int
    <2> QED BY <1>1, <2>1
<1>3. IsFiniteSet(kept) /\ card <= Len(l) /\ card \in Nat
    BY <1>1, <1>2, FS_Subset, FS_CardinalityType
<1>4. ASSUME NEW i \in kept
      PROVE  /\ IsFiniteSet(upTo(i))
             /\ Cardinality(upTo(i)) \in 1..card
    <2>1. upTo(i) \in SUBSET kept /\ i \in upTo(i)
        BY <1>1
    <2>2. IsFiniteSet(upTo(i)) /\ Cardinality(upTo(i)) <= card
        BY <1>3, <2>1, FS_Subset
    <2>3. Cardinality(upTo(i)) \in Nat /\ Cardinality(upTo(i)) # 0
        BY <2>1, <2>2, FS_CardinalityType, FS_EmptySet
    <2> QED BY <2>2, <2>3, <1>3
<1>5. ASSUME NEW i \in kept, NEW k \in kept, i < k
      PROVE  Cardinality(upTo(i)) # Cardinality(upTo(k))
    <2>1. upTo(i) \in SUBSET upTo(k) /\ k \in upTo(k) /\ k \notin upTo(i)
        BY <1>1, <1>5
    <2> HIDE DEF upTo
    <2> QED BY <1>4, <2>1, FS_Subset
<1>6. rank \in Injection(kept, 1..card)
    <2>1. rank \in [kept -> 1..card]
        BY <1>4
    <2>2. \A i, k \in kept : rank[i] = rank[k] => i = k
        <3> TAKE i \in kept, k \in kept
        <3> HIDE DEF upTo
        <3>1. i \in Int /\ k \in Int
            BY <1>1
        <3> QED BY <1>5, <3>1
    <2> QED BY <2>1, <2>2 DEF Injection, IsInjective
<1>7. rank \in Surjection(kept, 1..card)
    <2>1. IsFiniteSet(1..card) /\ Cardinality(1..card) = card
        BY <1>3, FS_Interval
    <2> QED BY <1>6, <2>1, FS_Injection
<1>8. ASSUME NEW n \in 1..card
      PROVE  Nth(n) \in kept
    <2>1. \E i \in kept : rank[i] = n
        BY <1>7 DEF Surjection
    <2> QED BY <2>1
<1> DEFINE r == [n \in 1..card |-> l[Nth(n)]]
<1>9. Retain(l, kept) = r
    BY DEF Retain
<1>10. \A n \in 1..card : Nth(n) \in DOMAIN l /\ l[Nth(n)] \in S
    BY <1>8, ElementOfSeq, <1>1
<1>11. ASSUME NEW i \in kept
       PROVE  /\ rank[i] \in 1..card /\ Nth(rank[i]) = i
              /\ card - rank[i] <= Len(l) - i
    <2>1. rank[i] \in 1..card /\ Nth(rank[i]) \in kept
        BY <1>6, <1>8 DEF Injection
    <2>2. rank[Nth(rank[i])] = rank[i]
        BY <2>1
    <2>3. Nth(rank[i]) = i
        <3> HIDE DEF rank, Nth
        <3> QED BY <1>6, <2>1, <2>2 DEF Injection, IsInjective
    <2> DEFINE above == kept \ upTo(i)
    <2>4. i \in 1..Len(l) /\ above \in SUBSET ((i + 1)..Len(l)) /\ kept \cap upTo(i) = upTo(i)
        BY <1>1
    <2>5. rank[i] = Cardinality(upTo(i))
        OBVIOUS
    <2> HIDE DEF upTo, rank, Nth
    <2>6. Cardinality(above) = card - rank[i]
        <3>1. Cardinality(above) = Cardinality(kept) - Cardinality(kept \cap upTo(i))
            BY <1>3, FS_Difference
        <3> QED BY <2>4, <2>5, <3>1
    <2>7. /\ IsFiniteSet((i + 1)..Len(l))
          /\ Cardinality((i + 1)..Len(l)) = IF i + 1 > Len(l) THEN 0 ELSE Len(l) - (i + 1) + 1
        BY <1>1, <2>4, FS_Interval, i + 1 \in Int, Len(l) \in Int
    <2>8. Cardinality(above) <= Cardinality((i + 1)..Len(l))
        <3> HIDE DEF above
        <3> QED BY <2>4, <2>7, FS_Subset
    <2> QED BY <1>1, <1>3, <2>1, <2>3, <2>4, <2>6, <2>7, <2>8
<1> HIDE DEF Nth, rank
<1>12. r \in Seq(S) /\ Len(r) = card /\ DOMAIN r = 1..card
    BY <1>3, <1>10, IsASeq
<1>13. \A i \in kept : \E n \in DOMAIN r : r[n] = l[i] /\ Len(r) - n <= Len(l) - i
    <2> TAKE i \in kept
    <2>1. rank[i] \in DOMAIN r /\ r[rank[i]] = l[i]
        BY <1>11, <1>12
    <2> QED BY <1>11, <1>12, <2>1
<1> QED BY <1>3, <1>9, <1>10, <1>12, <1>13

\* What it keeps is from the original.
LEMMA RetainKeeps ==
    ASSUME NEW S, NEW l \in Seq(S), NEW kept \in SUBSET DOMAIN l
    PROVE  /\ Retain(l, kept) \in Seq(S)
           /\ Len(Retain(l, kept)) <= Len(l)
           /\ \A n \in DOMAIN Retain(l, kept) :
                  \E i \in DOMAIN l : Retain(l, kept)[n] = l[i]
BY RetainPlaced

\* What is kept keeps its distance to the end or gets nearer to it.
LEMMA RetainPlaces ==
    ASSUME NEW S, NEW l \in Seq(S), NEW kept \in SUBSET DOMAIN l, NEW i \in kept
    PROVE  \E n \in DOMAIN Retain(l, kept) :
               /\ Retain(l, kept)[n] = l[i]
               /\ Len(Retain(l, kept)) - n <= Len(l) - i
BY RetainPlaced

\* What is pushed is last, and what it does not evict is one further from it.
LEMMA PushPlaces ==
    ASSUME NEW l \in Seq(Events), Len(l) <= Cap, Cap >= 1, NEW e \in Events
    PROVE  /\ \E n \in DOMAIN Push(l, e) :
                  Push(l, e)[n] = e /\ Len(Push(l, e)) - n = 0
           /\ \A i \in DOMAIN l : Len(l) - i + 2 <= Cap =>
                  \E n \in DOMAIN Push(l, e) :
                      /\ Push(l, e)[n] = l[i]
                      /\ Len(Push(l, e)) - n = Len(l) - i + 1
<1>1. Cap \in Nat /\ Cap # 0 /\ DOMAIN l = 1..Len(l) /\ Len(l) \in Nat
    BY AlertAssumption, LenProperties
<1>2. Cap \in Nat /\ Len(l) \in Nat
    BY <1>1
<1> DEFINE rest == IF Len(l) < Cap THEN l ELSE Tail(l)
           shift == IF Len(l) < Cap THEN 0 ELSE 1
<1>3. /\ rest \in Seq(Events) /\ Len(rest) = Len(l) - shift
      /\ \A j \in 1..Len(rest) : rest[j] = l[j + shift]
    <2>1. CASE Len(l) < Cap
        BY <1>1, <2>1
    <2>2. CASE ~(Len(l) < Cap)
        <3>1. l # <<>>
            BY <1>1, <2>2
        <3>2. /\ Tail(l) \in Seq(Events) /\ Len(Tail(l)) = Len(l) - 1
              /\ \A j \in 1..Len(Tail(l)) : Tail(l)[j] = l[j + 1]
            BY <3>1, HeadTailProperties
        <3> QED BY <2>2, <3>2
    <2> QED BY <2>1, <2>2
<1>4. Push(l, e) = Append(rest, e)
    BY <1>1 DEF Push
<1>5. shift \in {0, 1} /\ (shift = 1 => Len(l) = Cap)
    <2>1. CASE Len(l) < Cap
        BY <2>1
    <2>2. CASE ~(Len(l) < Cap)
        <3>1. shift = 1
            BY <2>2
        <3>2. Len(l) = Cap
            BY <1>2, <2>2
        <3> QED BY <3>1, <3>2
    <2> QED BY <2>1, <2>2
<1> HIDE DEF rest, shift
<1>6. /\ Len(Push(l, e)) = Len(rest) + 1 /\ Len(rest) \in Nat
      /\ DOMAIN Push(l, e) = 1..Len(rest) + 1
      /\ Push(l, e)[Len(rest) + 1] = e
      /\ \A j \in 1..Len(rest) : Push(l, e)[j] = rest[j]
    <2>1. Append(rest, e) \in Seq(Events) /\ Len(rest) \in Nat
        BY <1>3, AppendProperties, LenProperties
    <2> QED BY <1>3, <1>4, <2>1, AppendProperties, LenProperties
<1>7. Len(rest) + 1 \in DOMAIN Push(l, e) /\ Len(Push(l, e)) - (Len(rest) + 1) = 0
    BY <1>6
<1>8. ASSUME NEW i \in DOMAIN l, Len(l) - i + 2 <= Cap
      PROVE  \E n \in DOMAIN Push(l, e) :
                 Push(l, e)[n] = l[i] /\ Len(Push(l, e)) - n = Len(l) - i + 1
    <2> DEFINE n == i - shift
    <2>1. i \in Nat /\ 1 <= i /\ i <= Len(l)
        BY <1>1
    <2>2. i - shift \in 1..Len(rest) /\ i - shift + shift = i
          /\ Len(rest) + 1 - (i - shift) = Len(l) - i + 1
        <3>1. Len(rest) \in Nat /\ Len(rest) = Len(l) - shift
            BY <1>3, <1>6
        <3>2. CASE shift = 0
            BY <1>2, <2>1, <3>1, <3>2
        <3>3. CASE shift = 1
            <4>1. 2 <= i
                BY <1>2, <1>5, <1>8, <2>1, <3>3
            <4> QED BY <1>2, <2>1, <3>1, <3>3, <4>1
        <3> QED BY <1>5, <3>2, <3>3
    <2>3. n \in 1..Len(rest) /\ n + shift = i
        BY <2>2
    <2>4. Push(l, e)[n] = l[i] /\ n \in DOMAIN Push(l, e)
        BY <1>3, <1>6, <2>3
    <2>5. Len(Push(l, e)) - n = Len(l) - i + 1
        BY <1>6, <2>2
    <2> HIDE DEF n
    <2> QED BY <2>4, <2>5
<1> QED BY <1>6, <1>7, <1>8

\* What push and clean leave was there before, or is what is pushed.
LEMMA PushClean ==
    ASSUME NEW l \in Seq(Events), Len(l) <= Cap
    PROVE  /\ \A e \in Events :
                  /\ Push(l, e) \in Seq(Events)
                  /\ Len(Push(l, e)) <= Cap
                  /\ \A n \in DOMAIN Push(l, e) :
                         Push(l, e)[n] = e \/ \E i \in DOMAIN l : Push(l, e)[n] = l[i]
           /\ \A all \in BOOLEAN :
                  /\ Clean(l, all) \in Seq(Events)
                  /\ Len(Clean(l, all)) <= Cap
                  /\ \A n \in DOMAIN Clean(l, all) :
                         \E i \in DOMAIN l : Clean(l, all)[n] = l[i]
<1>0. Cap \in Nat /\ DOMAIN l = 1..Len(l) /\ Len(l) \in Nat
    BY AlertAssumption, LenProperties
<1>1. ASSUME NEW e \in Events
      PROVE  /\ Push(l, e) \in Seq(Events)
             /\ Len(Push(l, e)) <= Cap
             /\ \A n \in DOMAIN Push(l, e) :
                    Push(l, e)[n] = e \/ \E i \in DOMAIN l : Push(l, e)[n] = l[i]
    <2>1. CASE Cap = 0
        BY <1>0, <2>1 DEF Push
    <2>2. CASE Cap # 0 /\ Len(l) < Cap
        <3>1. Push(l, e) = Append(l, e)
            BY <2>2 DEF Push
        <3> QED BY <1>0, <2>2, <3>1, AppendProperties
    <2>3. CASE Cap # 0 /\ ~(Len(l) < Cap)
        <3>1. Push(l, e) = Append(Tail(l), e) /\ l # <<>>
            BY <1>0, <2>3 DEF Push
        <3>2. /\ Tail(l) \in Seq(Events) /\ Len(Tail(l)) = Len(l) - 1
              /\ \A i \in 1..Len(Tail(l)) : Tail(l)[i] = l[i + 1]
            BY <3>1, HeadTailProperties
        <3> QED BY <1>0, <2>3, <3>1, <3>2, AppendProperties
    <2> QED BY <2>1, <2>2, <2>3
<1>2. ASSUME NEW all \in BOOLEAN
      PROVE  /\ Clean(l, all) \in Seq(Events)
             /\ Len(Clean(l, all)) <= Cap
             /\ \A n \in DOMAIN Clean(l, all) :
                    \E i \in DOMAIN l : Clean(l, all)[n] = l[i]
    <2>1. CASE all
        BY <1>0, <2>1, EmptySeq DEF Clean
    <2>2. CASE ~all
        <3> DEFINE kept == {i \in DOMAIN l : ~Minor(l[i])}
        <3>1. Clean(l, all) = Retain(l, kept) /\ kept \in SUBSET DOMAIN l
            BY <2>2 DEF Clean
        <3> HIDE DEF kept
        <3>2. /\ Retain(l, kept) \in Seq(Events)
              /\ Len(Retain(l, kept)) <= Len(l)
              /\ \A n \in DOMAIN Retain(l, kept) :
                     \E i \in DOMAIN l : Retain(l, kept)[n] = l[i]
            BY <3>1, RetainKeeps
        <3> QED BY <1>0, <3>1, <3>2, LenProperties
    <2> QED BY <2>1, <2>2
<1> QED BY <1>1, <1>2

\* Ageing keeps a log's entries but for their age; the copy reverses it.
LEMMA AgedReversed ==
    ASSUME NEW l \in Seq(Events)
    PROVE  /\ AgeEvents(l) \in Seq(Events) /\ Len(AgeEvents(l)) = Len(l)
           /\ \A i \in DOMAIN AgeEvents(l) :
                  /\ i \in DOMAIN l
                  /\ AgeEvents(l)[i] = [l[i] EXCEPT !.age = Older(l[i].age)]
           /\ NewestFirst(l) \in Seq(Events) /\ Len(NewestFirst(l)) = Len(l)
           /\ \A n \in DOMAIN NewestFirst(l) :
                  \E i \in DOMAIN l : NewestFirst(l)[n] = l[i]
<1>1. DOMAIN l = 1..Len(l) /\ Len(l) \in Nat /\ \A i \in 1..Len(l) : l[i] \in Events
    BY LenProperties, ElementOfSeq
<1>2. \A i \in 1..Len(l) : [l[i] EXCEPT !.age = Older(l[i].age)] \in Events
    BY <1>1, OlderAges DEF Events
<1>3. /\ AgeEvents(l) \in Seq(Events) /\ Len(AgeEvents(l)) = Len(l)
      /\ DOMAIN AgeEvents(l) = 1..Len(l)
    BY <1>1, <1>2, IsASeq DEF AgeEvents
<1>4. /\ NewestFirst(l) \in Seq(Events) /\ Len(NewestFirst(l)) = Len(l)
      /\ DOMAIN NewestFirst(l) = 1..Len(l)
    BY <1>1, IsASeq DEF NewestFirst
<1>5. \A n \in 1..Len(l) : Len(l) + 1 - n \in 1..Len(l)
    BY <1>1
<1> QED BY <1>1, <1>3, <1>4, <1>5 DEF AgeEvents, NewestFirst
-----------------------------------------------------------------------------
(* The invariant.                                                          *)

LEMMA AlertInit == Init => AlertInv
<1> SUFFICES ASSUME Init PROVE AlertInv
    OBVIOUS
<1>1. <<>> \in Seq(Events) /\ Len(<<>>) = 0 /\ DOMAIN <<>> = {}
    BY EmptySeq
<1>2. QuickPos \in Monitored /\ NPlugins \in Nat /\ 1 \in 1..NPlugins + 1
    BY AlertAssumption DEF Monitored, Plugins
<1>3. TypeOK
    BY <1>1, <1>2, AlertAssumption DEF Init, TypeOK
<1> QED BY <1>1, <1>3 DEF Init, AlertInv, Founded, NoneOlder, ClearReaches

\* A step that leaves the log, its copy, and their histories alone.
LEMMA Quiet ==
    ASSUME AlertInv, TypeOK', UNCHANGED <<log, alerts, critical, cleared>>
    PROVE  AlertInv'
BY DEF AlertInv, Founded, NoneOlder, ClearReaches

LEMMA TickTypes ==
    ASSUME TypeOK, StartTick \/ UpdateOk \/ UpdateFails \/ RunActions \/ FillQuicklook \/ EndGrace
    PROVE  TypeOK' /\ UNCHANGED <<log, alerts, critical, cleared>>
<1>0. /\ NPlugins \in Nat /\ MaxGap \in Nat /\ at \in Int
      /\ QuickPos \in Monitored /\ Zero \in Samples
    BY AlertAssumption DEF TypeOK, Monitored, Plugins
<1>1. CASE StartTick
    BY <1>0, <1>1 DEF StartTick, TypeOK
<1>2. NewReading => reading' \in [Monitored -> Samples \cup {Absent}]
    BY DEF NewReading, TypeOK
<1>3. CASE UpdateOk
    BY <1>0, <1>2, <1>3 DEF UpdateOk, TypeOK
<1>4. CASE UpdateFails
    <2>1. at \in 1..NPlugins
        BY <1>4 DEF UpdateFails, Plugins
    <2>2. lit' \in [Monitored -> BOOLEAN]
        <3>1. lit \in [Monitored -> BOOLEAN] /\ FALSE \in BOOLEAN
            BY DEF TypeOK
        <3>2. lit' = [lit EXCEPT ![at] = FALSE]
            BY <1>4 DEF UpdateFails
        <3> QED BY <3>1, <3>2
    <2> QED BY <1>0, <1>2, <1>4, <2>1, <2>2 DEF UpdateFails, TypeOK
<1>5. CASE RunActions
    <2>1. CASE at \in Monitored /\ Fires(at)
        <3>1. thresholds[at] \in Bands
            BY <2>1 DEF Fires
        <3>2. ran' \subseteq Monitored \X Bands /\ status' \in [Monitored -> Bands \cup {None}]
            BY <1>5, <2>1, <3>1 DEF RunActions, TypeOK
        <3> QED BY <1>5, <3>2 DEF RunActions, TypeOK
    <2>2. CASE ~(at \in Monitored /\ Fires(at))
        BY <1>5, <2>2 DEF RunActions, TypeOK
    <2> QED BY <2>1, <2>2
<1>6. CASE FillQuicklook
    <2>1. QuickSource \in Monitored
        BY AlertAssumption
    <2>2. reading' \in [Monitored -> Samples \cup {Absent}]
        BY <1>0, <1>6, <2>1 DEF FillQuicklook, TypeOK
    <2> QED BY <1>6, <2>2 DEF FillQuicklook, TypeOK
<1>7. CASE EndGrace
    BY <1>7 DEF EndGrace, TypeOK
<1>8. StartTick \/ UpdateOk \/ UpdateFails \/ RunActions \/ FillQuicklook \/ EndGrace
      => UNCHANGED <<log, alerts, critical, cleared>>
    BY DEF StartTick, UpdateOk, UpdateFails, RunActions, FillQuicklook, EndGrace
<1> QED BY <1>1, <1>3, <1>4, <1>5, <1>6, <1>7, <1>8

\* Classifying logs a CRITICAL event only in breach, at age 0.
LEMMA ClassifyKeeps ==
    ASSUME AlertInv, ClassifyViews
    PROVE  AlertInv'
<1> USE DEF AlertInv
<1>0. /\ at \in Monitored /\ at \in 1..NPlugins /\ NPlugins \in Nat
      /\ 0 \in Ages
    BY AlertAssumption DEF ClassifyViews, Monitored, Plugins, Ages
<1>1. at + 1 \in 1..NPlugins + 1
    BY <1>0
<1> DEFINE e == Event(at, WordOf(at))
           logs == Classified(at) /\ at \in Logged /\ Severe(WordOf(at))
<1>2. logs => e \in Events
    BY <1>0 DEF Event, Events, Severe
<1>3. log' = IF logs THEN Push(log, e) ELSE log
    BY DEF ClassifyViews
<1>4. log \in Seq(Events) /\ Len(log) <= Cap
    BY DEF TypeOK
<1>5. /\ log' \in Seq(Events) /\ Len(log') <= Cap
      /\ \A n \in DOMAIN log' :
             (logs /\ log'[n] = e) \/ \E i \in DOMAIN log : log'[n] = log[i]
    <2> HIDE DEF e, logs
    <2>1. CASE logs
        BY <1>2, <1>3, <1>4, <2>1, PushClean
    <2>2. CASE ~logs
        BY <1>3, <1>4, <2>2
    <2> QED BY <2>1, <2>2
<1>6. critical' = IF Breaching(at) THEN [critical EXCEPT ![at] = 0] ELSE critical
    BY DEF ClassifyViews
<1>7. /\ critical' \in [Monitored -> Ages \cup {None}]
      /\ thresholds' \in [Monitored -> Words \cup {None}]
      /\ lit' \in [Monitored -> BOOLEAN]
    <2>1. critical' \in [Monitored -> Ages \cup {None}]
        BY <1>0, <1>6 DEF TypeOK
    <2>2. thresholds' \in [Monitored -> Words \cup {None}]
        <3>1. CASE Classified(at)
            BY <1>0, <3>1, CriticalIsBreach DEF ClassifyViews, TypeOK
        <3>2. CASE ~Classified(at)
            BY <3>2 DEF ClassifyViews, TypeOK
        <3> QED BY <3>1, <3>2
    <2>3. Breaching(at) \in BOOLEAN
        BY DEF Breaching
    <2>4. lit' \in [Monitored -> BOOLEAN]
        BY <2>3 DEF ClassifyViews, TypeOK
    <2> QED BY <2>1, <2>2, <2>4
<1>8. TypeOK'
    BY <1>1, <1>5, <1>7 DEF ClassifyViews, TypeOK
\* Refreshing a breach keeps what was founded founded.
<1>9. ASSUME NEW p \in Monitored, NEW a \in Ages,
             critical[p] # None, critical[p] <= a
      PROVE  critical'[p] # None /\ critical'[p] <= a
    <2>1. CASE Breaching(at) /\ p = at
        BY <1>0, <1>6, <2>1, AlertAssumption DEF TypeOK, Ages
    <2>2. CASE ~(Breaching(at) /\ p = at)
        BY <1>6, <1>9, <2>2 DEF TypeOK
    <2> QED BY <2>1, <2>2
<1>10. \A l \in Seq(Events) : Founded(l, critical) => Founded(l, critical')
    <2> SUFFICES ASSUME NEW l \in Seq(Events), Founded(l, critical),
                        NEW i \in DOMAIN l, l[i].severity = "CRITICAL"
                 PROVE  /\ l[i].stat \in Logged
                        /\ critical'[l[i].stat] # None
                        /\ critical'[l[i].stat] <= l[i].age
        BY DEF Founded
    <2>1. l[i] \in Events
        BY ElementOfSeq, LenProperties
    <2>2. l[i].stat \in Monitored /\ l[i].age \in Ages
        BY <2>1 DEF Events
    <2> QED BY <1>9, <2>2 DEF Founded
<1>11. Founded(log, critical') /\ Founded(alerts, critical')
    BY <1>4, <1>10 DEF TypeOK
<1>12. Founded(log', critical')
    <2> SUFFICES ASSUME NEW n \in DOMAIN log', log'[n].severity = "CRITICAL"
                 PROVE  /\ log'[n].stat \in Logged
                        /\ critical'[log'[n].stat] # None
                        /\ critical'[log'[n].stat] <= log'[n].age
        BY DEF Founded
    <2>1. CASE logs /\ log'[n] = e
        <3>1. e.severity = WordOf(at) /\ e.stat = at /\ e.age = 0
            BY DEF Event
        <3>2. Breaching(at)
            BY <2>1, <3>1, CriticalIsBreach
        <3>3. critical'[at] = 0
            BY <1>0, <1>6, <3>2 DEF TypeOK
        <3>4. 0 # None
            BY <1>0, AlertAssumption
        <3> QED BY <2>1, <3>1, <3>3, <3>4
    <2>2. CASE \E i \in DOMAIN log : log'[n] = log[i]
        BY <1>11, <2>2 DEF Founded
    <2> QED BY <1>5, <2>1, <2>2
<1>13. NoneOlder(log', cleared)
    <2> SUFFICES ASSUME NEW n \in DOMAIN log', cleared.age # None
                 PROVE  log'[n].age <= cleared.age
        BY DEF NoneOlder
    <2>1. CASE logs /\ log'[n] = e
        <3>1. e.age = 0 /\ cleared.age \in Ages
            BY DEF Event, TypeOK
        <3> QED BY <2>1, <3>1 DEF Ages
    <2>2. CASE \E i \in DOMAIN log : log'[n] = log[i]
        BY <2>2 DEF NoneOlder
    <2> QED BY <1>5, <2>1, <2>2
<1>14. alerts' = alerts /\ cleared' = cleared
    BY DEF ClassifyViews
<1> QED BY <1>8, <1>11, <1>12, <1>13, <1>14 DEF ClearReaches

\* The copy has the log's events.
LEMMA CopyKeeps ==
    ASSUME AlertInv, CopyLog
    PROVE  AlertInv'
<1> USE DEF AlertInv
<1>0. /\ at \in Plugins /\ NPlugins \in Nat
      /\ at + 1 \in 1..NPlugins + 1
    BY AlertAssumption DEF CopyLog, Plugins
<1>1. alerts' = NewestFirst(log) /\ log \in Seq(Events) /\ Len(log) <= Cap
    BY DEF CopyLog, TypeOK
<1>2. /\ alerts' \in Seq(Events) /\ Len(alerts') <= Cap
      /\ \A n \in DOMAIN alerts' : \E i \in DOMAIN log : alerts'[n] = log[i]
    BY <1>1, AgedReversed
<1>3. TypeOK'
    BY <1>0, <1>2 DEF CopyLog, TypeOK
<1>4. Founded(alerts', critical) /\ NoneOlder(alerts', cleared)
    BY <1>2 DEF Founded, NoneOlder
<1>5. cleared'.age = cleared.age /\ critical' = critical /\ log' = log
    BY DEF CopyLog, TypeOK
<1> QED BY <1>3, <1>4, <1>5 DEF ClearReaches, Founded, NoneOlder

\* A clear only removes events, and a full one leaves none.
LEMMA ClearKeeps ==
    ASSUME AlertInv, ClearEvents
    PROVE  AlertInv'
<1> USE DEF AlertInv
<1>1. PICK all \in BOOLEAN :
          /\ log' = Clean(log, all)
          /\ cleared' = IF all THEN [age |-> 0, copied |-> FALSE] ELSE cleared
    BY DEF ClearEvents
<1>2. log \in Seq(Events) /\ Len(log) <= Cap
    BY DEF TypeOK
<1>3. /\ log' \in Seq(Events) /\ Len(log') <= Cap
      /\ \A n \in DOMAIN log' : \E i \in DOMAIN log : log'[n] = log[i]
    BY <1>1, <1>2, PushClean
<1>4. UNCHANGED <<alerts, critical>> /\ ran' = {}
    BY DEF ClearEvents
<1>5. TypeOK'
    <2>1. cleared' \in [age : Ages \cup {None}, copied : BOOLEAN]
        BY <1>1, AlertAssumption DEF TypeOK, Ages
    <2> QED BY <1>3, <2>1 DEF ClearEvents, TypeOK
<1>6. Founded(log', critical) /\ NoneOlder(log', cleared)
    BY <1>3 DEF Founded, NoneOlder
<1>7. CASE all
    <2>1. log' = <<>> /\ ~cleared'.copied
        BY <1>1, <1>7 DEF Clean
    <2>2. NoneOlder(log', cleared')
        BY <2>1, EmptySeq DEF NoneOlder
    <2> QED BY <1>4, <1>5, <1>6, <2>1, <2>2 DEF ClearReaches
<1>8. CASE ~all
    <2>1. cleared' = cleared
        BY <1>1, <1>8
    <2> QED BY <1>4, <1>5, <1>6, <2>1 DEF ClearReaches
<1> QED BY <1>7, <1>8

\* Everything gets older together.
LEMMA ElapseKeeps ==
    ASSUME AlertInv, Elapse
    PROVE  AlertInv'
<1> USE DEF AlertInv
<1>1. /\ log' = AgeEvents(log) /\ alerts' = AgeEvents(alerts)
      /\ log \in Seq(Events) /\ alerts \in Seq(Events)
      /\ Len(log) <= Cap /\ Len(alerts) <= Cap
    BY DEF Elapse, TypeOK
<1>2. /\ log' \in Seq(Events) /\ Len(log') <= Cap
      /\ alerts' \in Seq(Events) /\ Len(alerts') <= Cap
    BY <1>1, AgedReversed
<1>3. /\ critical' = [p \in Monitored |-> Older(critical[p])]
      /\ \A p \in Monitored : critical[p] \in Ages \cup {None}
    BY DEF Elapse, TypeOK
<1>4. critical' \in [Monitored -> Ages \cup {None}]
    BY <1>3, OlderAges
<1>5. /\ cleared.age \in Ages \cup {None}
      /\ cleared'.age = Older(cleared.age) /\ cleared'.copied = cleared.copied
    BY DEF Elapse, TypeOK
<1>6. cleared' \in [age : Ages \cup {None}, copied : BOOLEAN]
    BY <1>5, OlderAges DEF Elapse, TypeOK
<1>7. sinceTick' \in 0..MaxGap
    BY AlertAssumption DEF Elapse, TypeOK
<1>8. TypeOK'
    BY <1>2, <1>4, <1>6, <1>7 DEF Elapse, TypeOK
<1>9. ASSUME NEW l \in Seq(Events)
      PROVE  /\ Founded(l, critical) => Founded(AgeEvents(l), critical')
             /\ NoneOlder(l, cleared) => NoneOlder(AgeEvents(l), cleared')
    <2> DEFINE aged == AgeEvents(l)
    <2>1. ASSUME NEW i \in DOMAIN aged
          PROVE  /\ i \in DOMAIN l /\ l[i] \in Events
                 /\ l[i].age \in Ages /\ l[i].stat \in Monitored
                 /\ aged[i].severity = l[i].severity /\ aged[i].stat = l[i].stat
                 /\ aged[i].age = Older(l[i].age)
        <3>1. i \in DOMAIN l /\ aged[i] = [l[i] EXCEPT !.age = Older(l[i].age)]
            BY AgedReversed
        <3>2. l[i] \in Events
            BY <3>1, ElementOfSeq, LenProperties
        <3> QED BY <3>1, <3>2 DEF Events
    <2> HIDE DEF aged
    <2>2. ASSUME Founded(l, critical), NEW i \in DOMAIN aged,
                 aged[i].severity = "CRITICAL"
          PROVE  /\ aged[i].stat \in Logged
                 /\ critical'[aged[i].stat] # None
                 /\ critical'[aged[i].stat] <= aged[i].age
        <3> DEFINE p == l[i].stat
        <3>1. /\ p \in Logged /\ p \in Monitored
              /\ critical[p] # None /\ critical[p] <= l[i].age
            BY <2>1, <2>2 DEF Founded
        <3>2. critical[p] \in Ages
            BY <1>3, <3>1
        <3>3. Older(critical[p]) # None /\ Older(critical[p]) <= Older(l[i].age)
            BY <2>1, <2>2, <3>1, <3>2, OlderAges
        <3> QED BY <1>3, <2>1, <2>2, <3>1, <3>3
    <2>3. ASSUME NoneOlder(l, cleared), NEW i \in DOMAIN aged, cleared'.age # None
          PROVE  aged[i].age <= cleared'.age
        <3>1. cleared.age \in Ages
            BY <1>5, <2>3, OlderAges
        <3>2. cleared.age # None
            BY <3>1, AlertAssumption
        <3>3. l[i].age <= cleared.age
            BY <2>1, <2>3, <3>2 DEF NoneOlder
        <3> QED BY <1>5, <2>1, <2>3, <3>1, <3>3, OlderAges
    <2> QED BY <2>2, <2>3 DEF Founded, NoneOlder, aged
<1> QED BY <1>1, <1>5, <1>8, <1>9 DEF ClearReaches, NoneOlder

LEMMA AlertStep == AlertInv /\ [Next]_vars => AlertInv'
<1> SUFFICES ASSUME AlertInv, [Next]_vars PROVE AlertInv'
    OBVIOUS
<1>1. CASE StartTick \/ UpdateOk \/ UpdateFails \/ RunActions \/ FillQuicklook \/ EndGrace
    BY <1>1, TickTypes, Quiet DEF AlertInv
<1>2. CASE ClassifyViews
    BY <1>2, ClassifyKeeps
<1>3. CASE CopyLog
    BY <1>3, CopyKeeps
<1>4. CASE ClearEvents
    BY <1>4, ClearKeeps
<1>5. CASE Elapse
    BY <1>5, ElapseKeeps
<1>6. CASE UNCHANGED vars
    <2>1. TypeOK'
        BY <1>6 DEF AlertInv, TypeOK, vars
    <2> QED BY <1>6, <2>1, Quiet DEF vars
<1> QED BY <1>1, <1>2, <1>3, <1>4, <1>5, <1>6 DEF Next

-----------------------------------------------------------------------------
(* What a breach leaves, as far as the end of the tick and after it.       *)

\* p was in breach at its turn, in time for the copy, and nothing was cleared.
Unbroken(p) == p < AlertPos /\ lit[p] /\ ~ClearedSince(sinceTick)

\* The logged plugins that had their turn after p.
After(p) == {q \in Logged : p < q /\ q < at}

\* p's event is in the log, and no more came behind it than plugins after p.
InLog(p) ==
    \E i \in DOMAIN log :
        /\ log[i].severity = "CRITICAL" /\ log[i].age = 0
        /\ Len(log) - i <= Cardinality(After(p))

\* The copy has a critical event of the last tick.
InAlerts ==
    \E i \in DOMAIN alerts :
        alerts[i].severity = "CRITICAL" /\ alerts[i].age <= sinceTick

\* What makes BreachShows inductive: an event waits in the log for the copy,
\* and then in the copy for the next tick.
ShowsInv ==
    /\ stage # "sleep" => sinceTick = 0
    /\ Cardinality(Logged) <= Cap =>
           \A p \in Logged : Unbroken(p) =>
               IF stage = "sleep" \/ at > AlertPos THEN InAlerts
               ELSE p < at => InLog(p)

\* A log's entries are events, of a band, an age and a plugin.
LEMMA LogShape ==
    ASSUME TypeOK
    PROVE  /\ log \in Seq(Events) /\ Len(log) \in 0..Cap /\ DOMAIN log = 1..Len(log)
           /\ alerts \in Seq(Events) /\ DOMAIN alerts = 1..Len(alerts)
           /\ \A i \in DOMAIN log : log[i] \in Events
           /\ \A i \in DOMAIN alerts : alerts[i] \in Events
           /\ Cap \in Nat /\ Logged \subseteq Monitored /\ Monitored \subseteq Nat
           /\ at \in Nat /\ sinceTick \in Nat /\ AlertPos \in Nat
           /\ cleared.age \in Ages \cup {None}
<1>1. log \in Seq(Events) /\ Len(log) <= Cap /\ alerts \in Seq(Events)
    BY DEF TypeOK
<1>2. Cap \in Nat /\ NPlugins \in Nat /\ MaxGap \in Nat /\ Logged \subseteq Monitored
      /\ AlertPos \in Plugins
    BY AlertAssumption
<1>3. \A s \in Seq(Events) :
          Len(s) \in Nat /\ DOMAIN s = 1..Len(s) /\ \A i \in DOMAIN s : s[i] \in Events
    BY LenProperties, ElementOfSeq
<1>4. Monitored \subseteq Nat /\ AlertPos \in Nat
    BY <1>2 DEF Monitored, Plugins
<1>5. at \in Nat /\ sinceTick \in Nat /\ cleared.age \in Ages \cup {None}
    BY <1>2 DEF TypeOK
<1> QED BY <1>1, <1>2, <1>3, <1>4, <1>5

\* The plugins that had their turn after a logged one are fewer than are logged.
LEMMA AfterFewer ==
    ASSUME TypeOK, NEW p \in Logged
    PROVE  /\ IsFiniteSet(After(p)) /\ Cardinality(After(p)) \in Nat
           /\ IsFiniteSet(Logged) /\ Cardinality(Logged) \in Nat
           /\ Cardinality(Logged) >= 1
           /\ (at \in Logged /\ p < at) => Cardinality(After(p)) + 2 <= Cardinality(Logged)
<1>0. at \in Nat /\ p \in Nat /\ Logged \subseteq Nat
    BY LogShape
<1>1. IsFiniteSet(Logged)
    <2>1. NPlugins \in Nat /\ Logged \in SUBSET (1..NPlugins)
        BY AlertAssumption DEF Monitored, Plugins
    <2>2. IsFiniteSet(1..NPlugins)
        BY <2>1, FS_Interval, 1 \in Int, NPlugins \in Int
    <2> QED BY <2>1, <2>2, FS_Subset
<1>2. After(p) \in SUBSET Logged /\ p \notin After(p) /\ at \notin After(p)
    BY <1>0 DEF After
<1>3. IsFiniteSet(After(p)) /\ Cardinality(After(p)) \in Nat /\ Cardinality(Logged) \in Nat
    BY <1>1, <1>2, FS_Subset, FS_CardinalityType
<1>4. Cardinality(Logged) >= 1
    BY <1>1, <1>3, FS_EmptySet
<1>5. ASSUME at \in Logged, p < at
      PROVE  Cardinality(After(p)) + 2 <= Cardinality(Logged)
    <2> DEFINE one == After(p) \cup {p}
               both == one \cup {at}
    <2>1. IsFiniteSet(one) /\ Cardinality(one) = Cardinality(After(p)) + 1
        BY <1>2, <1>3, FS_AddElement
    <2>2. at \notin one
        BY <1>0, <1>2, <1>5
    <2> HIDE DEF one
    <2>3. IsFiniteSet(both) /\ Cardinality(both) = Cardinality(one) + 1
        BY <2>1, <2>2, FS_AddElement
    <2>4. both \in SUBSET Logged
        BY <1>2, <1>5 DEF one
    <2> HIDE DEF both
    <2>5. Cardinality(both) <= Cardinality(Logged)
        BY <1>1, <2>4, FS_Subset
    <2> QED BY <1>3, <2>1, <2>3, <2>5
<1> QED BY <1>1, <1>3, <1>4, <1>5

\* Each turn of a logged plugin makes them one more.
LEMMA AfterGrows ==
    ASSUME TypeOK, NEW p \in Logged, at' = at + 1
    PROVE  /\ Cardinality(After(p)) \in Nat /\ Cardinality(After(p)') \in Nat
           /\ Cardinality(After(p)') =
                  IF at \in Logged /\ p < at
                  THEN Cardinality(After(p)) + 1 ELSE Cardinality(After(p))
<1>0. at \in Nat /\ p \in Nat /\ Logged \subseteq Nat
    BY LogShape
<1>1. IsFiniteSet(After(p)) /\ Cardinality(After(p)) \in Nat
    BY AfterFewer
<1>2. After(p)' = {q \in Logged : p < q /\ q < at + 1}
    BY DEF After
<1>3. CASE at \in Logged /\ p < at
    <2>0. \A q \in Logged : (p < q /\ q < at + 1) <=> (p < q /\ q < at) \/ q = at
        BY <1>0, <1>3
    <2>1. After(p)' = After(p) \cup {at}
        <3>1. After(p)' = {q \in Logged : (p < q /\ q < at) \/ q = at}
            BY <1>2, <2>0
        <3>2. {q \in Logged : (p < q /\ q < at) \/ q = at} = After(p) \cup {at}
            BY <1>3 DEF After
        <3> HIDE DEF After
        <3> QED BY <3>1, <3>2
    <2>3. at \notin After(p)
        BY <1>0 DEF After
    <2>2. Cardinality(After(p) \cup {at}) = Cardinality(After(p)) + 1
        BY <1>1, <2>3, FS_AddElement
    <2> QED BY <1>1, <1>3, <2>1, <2>2
<1>4. CASE ~(at \in Logged /\ p < at)
    <2>1. \A q \in Logged : (p < q /\ q < at + 1) <=> (p < q /\ q < at)
        BY <1>0, <1>4
    <2>2. After(p)' = After(p)
        BY <1>2, <2>1 DEF After
    <2> QED BY <1>1, <1>4, <2>2
<1> QED BY <1>3, <1>4

LEMMA ShowsInit == Init => ShowsInv
<1> SUFFICES ASSUME Init PROVE ShowsInv
    OBVIOUS
<1>1. \A p \in Logged : lit[p] = FALSE
    BY AlertAssumption DEF Init
<1> QED BY <1>1 DEF Init, ShowsInv, Unbroken

\* Steps of a tick that log nothing and end no turn in breach.
LEMMA TickShows ==
    ASSUME AlertInv, ShowsInv, AlertInv',
           StartTick \/ UpdateOk \/ UpdateFails \/ RunActions \/ FillQuicklook \/ EndGrace
    PROVE  ShowsInv'
<1>0. TypeOK /\ UNCHANGED <<log, alerts, critical, cleared>>
    BY TickTypes DEF AlertInv
<1>1. at \in Nat /\ AlertPos \in Nat /\ Logged \subseteq Nat /\ Logged \subseteq Monitored
    BY <1>0, LogShape
<1>2. CASE StartTick
    <2>1. \A p \in Logged : ~(p < at')
        BY <1>1, <1>2, AlertAssumption DEF StartTick, Monitored, Plugins
    <2>2. stage' = "update" /\ sinceTick' = 0 /\ at' = 1 /\ ~(1 > AlertPos)
        BY <1>2, AlertAssumption DEF StartTick, Plugins
    <2> QED BY <2>1, <2>2 DEF ShowsInv
<1>3. CASE UpdateOk \/ RunActions \/ EndGrace
    <2>1. /\ UNCHANGED <<at, sinceTick, lit, log, alerts, cleared>>
          /\ stage' = "sleep" <=> stage = "sleep"
        BY <1>0, <1>3 DEF UpdateOk, RunActions, EndGrace
    <2> QED BY <2>1 DEF ShowsInv, Unbroken, ClearedSince, After, InLog, InAlerts
<1>4. CASE FillQuicklook
    <2>1. /\ UNCHANGED <<at, sinceTick, lit, log, alerts, cleared>>
          /\ stage' = "sleep" /\ stage = "update" /\ at > AlertPos
        BY <1>0, <1>4, AlertAssumption DEF FillQuicklook, Plugins
    <2> QED BY <2>1 DEF ShowsInv, Unbroken, ClearedSince, InAlerts
<1>5. CASE UpdateFails
    <2>1. /\ UNCHANGED <<sinceTick, log, alerts, cleared>>
          /\ stage' = stage /\ stage = "update" /\ at' = at + 1
          /\ at # AlertPos /\ at \in Monitored
          /\ lit' = [lit EXCEPT ![at] = FALSE]
        BY <1>0, <1>5 DEF UpdateFails, Monitored
    <2> SUFFICES ASSUME Cardinality(Logged) <= Cap, NEW p \in Logged, Unbroken(p)'
                 PROVE  IF at' > AlertPos THEN InAlerts' ELSE p < at' => InLog(p)'
        BY <2>1 DEF ShowsInv
    <2>2. p # at /\ Unbroken(p)
        BY <1>0, <1>1, <2>1 DEF Unbroken, ClearedSince, TypeOK
    <2>3. IF at > AlertPos THEN InAlerts ELSE p < at => InLog(p)
        BY <2>1, <2>2 DEF ShowsInv
    <2>4. CASE at' > AlertPos
        <3>1. at > AlertPos
            BY <1>1, <2>1, <2>4
        <3> QED BY <2>1, <2>3, <2>4, <3>1 DEF InAlerts
    <2>5. CASE ~(at' > AlertPos) /\ p < at'
        <3>1. ~(at > AlertPos) /\ p < at
            BY <1>1, <2>1, <2>2, <2>5
        <3>2. PICK i \in DOMAIN log : /\ log[i].severity = "CRITICAL" /\ log[i].age = 0
                                      /\ Len(log) - i <= Cardinality(After(p))
            BY <2>3, <3>1 DEF InLog
        <3>3. /\ Cardinality(After(p)) \in Nat /\ Cardinality(After(p)') \in Nat
              /\ Cardinality(After(p)) <= Cardinality(After(p)')
            BY <1>0, <2>1, AfterGrows
        <3>5. i \in Nat /\ Len(log) \in Nat
            BY <1>0, LogShape
        <3>6. Len(log) - i <= Cardinality(After(p)')
            BY <3>2, <3>3, <3>5
        <3>7. log' = log
            BY <2>1
        <3> QED BY <2>5, <3>2, <3>6, <3>7 DEF InLog
    <2> QED BY <2>4, <2>5
<1> QED BY <1>2, <1>3, <1>4, <1>5

\* A turn in breach logs its event; another's pushes it back by one at most.
LEMMA ClassifyShows ==
    ASSUME AlertInv, ShowsInv, ClassifyViews
    PROVE  ShowsInv'
<1>0. TypeOK
    BY DEF AlertInv
<1>1. /\ at \in Monitored /\ at # AlertPos /\ stage = "views" /\ stage' = "update"
      /\ at' = at + 1 /\ UNCHANGED <<sinceTick, alerts, cleared>>
      /\ lit' = [lit EXCEPT ![at] = Breaching(at)]
    BY DEF ClassifyViews, Monitored
<1>2. /\ log \in Seq(Events) /\ Len(log) \in 0..Cap /\ DOMAIN log = 1..Len(log)
      /\ Cap \in Nat /\ Logged \subseteq Monitored /\ Logged \subseteq Nat
      /\ at \in Nat /\ AlertPos \in Nat
    BY <1>0, LogShape
<1> DEFINE e == Event(at, WordOf(at))
           logs == Classified(at) /\ at \in Logged /\ Severe(WordOf(at))
<1>3. log' = IF logs THEN Push(log, e) ELSE log
    BY <1>1 DEF ClassifyViews
<1>4. e.severity = WordOf(at) /\ e.age = 0
    BY DEF Event
<1>5. logs => at \in Logged
    OBVIOUS
<1>6. Breaching(at) /\ at \in Logged => logs /\ WordOf(at) = "CRITICAL"
    BY CriticalIsBreach DEF Breaching, Severe, Bands
<1>7. e \in Events \/ ~logs
    BY <1>1, AlertAssumption DEF Event, Events, Severe, Ages
<1> HIDE DEF e, logs
<1> SUFFICES ASSUME Cardinality(Logged) <= Cap, NEW p \in Logged, Unbroken(p)'
             PROVE  IF at' > AlertPos THEN InAlerts' ELSE p < at' => InLog(p)'
    <2>1. stage' # "sleep" /\ sinceTick' = 0
        BY <1>1 DEF ShowsInv
    <2> QED BY <2>1 DEF ShowsInv
<1>8. Cap >= 1
    BY <1>0, <1>2, AfterFewer
<1>9. p \in Nat /\ p < AlertPos
    BY <1>2 DEF Unbroken
<1>10. CASE p = at
    <2>1. Breaching(at)
        BY <1>0, <1>1, <1>10 DEF Unbroken, TypeOK
    <2>2. log' = Push(log, e) /\ e.severity = "CRITICAL" /\ e \in Events
        BY <1>3, <1>4, <1>6, <1>7, <1>10, <2>1
    <2>3. ~(at' > AlertPos)
        BY <1>1, <1>2, <1>9, <1>10
    <2>4. \E n \in DOMAIN log' : log'[n] = e /\ Len(log') - n = 0
        BY <1>2, <1>8, <2>2, PushPlaces
    <2>5. Cardinality(After(p)') \in Nat
        BY <1>0, <1>1, AfterGrows
    <2>6. InLog(p)'
        BY <1>4, <2>2, <2>4, <2>5 DEF InLog
    <2> QED BY <2>3, <2>6
<1>11. CASE p # at
    <2>1. Unbroken(p)
        BY <1>0, <1>1, <1>2, <1>11 DEF Unbroken, ClearedSince, TypeOK
    <2>2. IF at > AlertPos THEN InAlerts ELSE p < at => InLog(p)
        BY <1>1, <2>1 DEF ShowsInv
    <2>3. CASE at' > AlertPos
        <3>1. at > AlertPos
            BY <1>1, <1>2, <2>3
        <3> QED BY <1>1, <2>2, <2>3, <3>1 DEF InAlerts
    <2>4. CASE ~(at' > AlertPos) /\ p < at'
        <3>1. ~(at > AlertPos) /\ p < at
            BY <1>1, <1>2, <1>9, <1>11, <2>4
        <3>2. PICK i \in DOMAIN log : /\ log[i].severity = "CRITICAL" /\ log[i].age = 0
                                      /\ Len(log) - i <= Cardinality(After(p))
            BY <2>2, <3>1 DEF InLog
        <3>3. /\ Cardinality(After(p)) \in Nat /\ Cardinality(After(p)') \in Nat
              /\ Cardinality(After(p)') =
                     IF at \in Logged /\ p < at
                     THEN Cardinality(After(p)) + 1 ELSE Cardinality(After(p))
            BY <1>0, <1>1, AfterGrows
        <3>4. CASE logs
            <4>1. /\ Cardinality(After(p)') = Cardinality(After(p)) + 1
                  /\ Cardinality(After(p)) + 2 <= Cardinality(Logged)
                  /\ Cardinality(Logged) \in Nat
                BY <1>0, <1>5, <3>1, <3>3, <3>4, AfterFewer
            <4>2. Len(log) - i + 2 <= Cap
                BY <1>2, <3>2, <3>3, <4>1
            <4>3. e \in Events /\ log' = Push(log, e)
                BY <1>3, <1>7, <3>4
            <4>4. \E n \in DOMAIN log' : log'[n] = log[i] /\ Len(log') - n = Len(log) - i + 1
                <5>1. Len(log) <= Cap /\ Cap >= 1 /\ e \in Events
                    BY <1>2, <1>8, <4>3
                <5>2. \E n \in DOMAIN Push(log, e) :
                          /\ Push(log, e)[n] = log[i]
                          /\ Len(Push(log, e)) - n = Len(log) - i + 1
                    BY <1>2, <4>2, <5>1, PushPlaces
                <5> QED BY <4>3, <5>2
            <4>5. i \in Nat /\ Len(log) \in Nat
                BY <1>2
            <4>6. Len(log) - i + 1 <= Cardinality(After(p)')
                BY <3>2, <3>3, <4>1, <4>5
            <4>7. InLog(p)'
                BY <3>2, <4>4, <4>6 DEF InLog
            <4> QED BY <2>4, <4>7
        <3>5. CASE ~logs
            <4>1. log' = log
                BY <1>3, <3>5
            <4>2. Len(log) - i <= Cardinality(After(p)')
                BY <1>2, <3>2, <3>3
            <4> QED BY <2>4, <3>2, <4>1, <4>2 DEF InLog
        <3> QED BY <3>4, <3>5
    <2> QED BY <2>3, <2>4
<1> QED BY <1>10, <1>11

\* The copy is made in time.
LEMMA CopyShows ==
    ASSUME AlertInv, ShowsInv, CopyLog
    PROVE  ShowsInv'
<1>0. TypeOK
    BY DEF AlertInv
<1>1. /\ at = AlertPos /\ at' = at + 1 /\ stage = "views" /\ stage' = "update"
      /\ UNCHANGED <<sinceTick, log, lit>> /\ cleared'.age = cleared.age
      /\ alerts' = NewestFirst(log)
    BY <1>0 DEF CopyLog, TypeOK
<1>2. log \in Seq(Events) /\ DOMAIN log = 1..Len(log) /\ AlertPos \in Nat /\ Len(log) \in Nat
    BY <1>0, LogShape
<1>3. sinceTick' = 0
    BY <1>1 DEF ShowsInv
<1> SUFFICES ASSUME Cardinality(Logged) <= Cap, NEW p \in Logged, Unbroken(p)'
             PROVE  InAlerts'
    BY <1>1, <1>2, <1>3 DEF ShowsInv
<1>4. Unbroken(p) /\ p < at
    BY <1>1 DEF Unbroken, ClearedSince
<1>5. PICK i \in DOMAIN log : log[i].severity = "CRITICAL" /\ log[i].age = 0
    BY <1>1, <1>2, <1>4 DEF ShowsInv, InLog
<1>6. /\ DOMAIN alerts' = 1..Len(log) /\ Len(log) + 1 - i \in 1..Len(log)
      /\ alerts'[Len(log) + 1 - i] = log[Len(log) + 1 - (Len(log) + 1 - i)]
    BY <1>1, <1>2 DEF NewestFirst
<1>7. Len(log) + 1 - (Len(log) + 1 - i) = i
    BY <1>2
<1> QED BY <1>3, <1>5, <1>6, <1>7 DEF InAlerts

\* A full clear ends the promise; the other keeps CRITICAL events, no further
\* from the end.
LEMMA ClearShows ==
    ASSUME AlertInv, ShowsInv, ClearEvents
    PROVE  ShowsInv'
<1>0. TypeOK
    BY DEF AlertInv
<1>1. PICK all \in BOOLEAN :
          /\ log' = Clean(log, all)
          /\ cleared' = IF all THEN [age |-> 0, copied |-> FALSE] ELSE cleared
    BY DEF ClearEvents
<1>2. UNCHANGED <<stage, at, alerts, sinceTick, lit>>
    BY DEF ClearEvents
<1>3. CASE all
    <2>1. ClearedSince(sinceTick)'
        BY <1>0, <1>1, <1>2, <1>3, LogShape, AlertAssumption DEF ClearedSince, Ages
    <2> QED BY <1>2, <2>1 DEF ShowsInv, Unbroken
<1>4. CASE ~all
    <2>1. cleared' = cleared /\ log' = Clean(log, FALSE)
        BY <1>1, <1>4
    <2>2. ASSUME NEW p \in Logged, InLog(p)
          PROVE  InLog(p)'
        <3>1. PICK i \in DOMAIN log : /\ log[i].severity = "CRITICAL" /\ log[i].age = 0
                                      /\ Len(log) - i <= Cardinality(After(p))
            BY <2>2 DEF InLog
        <3> DEFINE kept == {j \in DOMAIN log : ~Minor(log[j])}
        <3>2. i \in kept /\ kept \in SUBSET DOMAIN log
            BY <3>1 DEF Minor
        <3>3. log' = Retain(log, kept)
            BY <2>1 DEF Clean
        <3> HIDE DEF kept
        <3>4. log \in Seq(Events) /\ Len(log) \in Nat /\ DOMAIN log = 1..Len(log)
            BY <1>0, LogShape
        <3>5. PICK n \in DOMAIN log' : log'[n] = log[i] /\ Len(log') - n <= Len(log) - i
            BY <3>2, <3>3, <3>4, RetainPlaces
        <3>6. Len(log') \in Nat /\ n \in Nat
            <4>1. log' \in Seq(Events)
                BY <3>2, <3>3, <3>4, RetainKeeps
            <4> QED BY <4>1, LenProperties
        <3>7. After(p)' = After(p) /\ Cardinality(After(p)) \in Nat
            BY <1>0, <1>2, AfterFewer DEF After
        <3>8. Len(log') - n <= Cardinality(After(p))
            BY <3>1, <3>4, <3>5, <3>6, <3>7
        <3> QED BY <3>1, <3>5, <3>7, <3>8 DEF InLog
    <2> QED BY <1>2, <2>1, <2>2 DEF ShowsInv, Unbroken, ClearedSince, InAlerts
<1> QED BY <1>3, <1>4

\* The copy ages no faster than the time since the tick.
LEMMA ElapseShows ==
    ASSUME AlertInv, ShowsInv, Elapse
    PROVE  ShowsInv'
<1>0. TypeOK
    BY DEF AlertInv
<1>1. /\ stage = "sleep" /\ stage' = "sleep" /\ sinceTick' = sinceTick + 1
      /\ alerts' = AgeEvents(alerts) /\ UNCHANGED lit
      /\ cleared'.age = Older(cleared.age)
    BY <1>0 DEF Elapse, TypeOK
<1>2. /\ sinceTick \in Nat /\ Recency \in Nat /\ None \notin Ages
      /\ cleared.age \in Ages \cup {None} /\ alerts \in Seq(Events)
    BY <1>0, LogShape, AlertAssumption
<1> SUFFICES ASSUME Cardinality(Logged) <= Cap, NEW p \in Logged, Unbroken(p)'
             PROVE  InAlerts'
    BY <1>1 DEF ShowsInv
<1>3. ASSUME cleared.age \in Ages, cleared.age <= sinceTick
      PROVE  FALSE
    <2>1. Older(cleared.age) <= sinceTick + 1 /\ Older(cleared.age) # None
        BY <1>2, <1>3, OlderAges DEF Older, Ages
    <2> QED BY <1>1, <2>1 DEF Unbroken, ClearedSince
<1>4. Unbroken(p)
    BY <1>1, <1>2, <1>3 DEF Unbroken, ClearedSince
<1>5. PICK i \in DOMAIN alerts : alerts[i].severity = "CRITICAL" /\ alerts[i].age <= sinceTick
    BY <1>1, <1>4 DEF ShowsInv, InAlerts
<1>6. alerts[i] \in Events
    BY <1>0, LogShape
<1>7. alerts[i].age \in Ages
    BY <1>6 DEF Events
<1>8. Len(alerts) = Len(alerts') /\ i \in DOMAIN alerts'
    BY <1>1 DEF AgeEvents, Ages
<1>9. alerts'[i] = [alerts[i] EXCEPT !.age = Older(alerts[i].age)]
    BY <1>1, <1>2, <1>8, AgedReversed
<1>10. alerts'[i].severity = "CRITICAL" /\ alerts'[i].age = Older(alerts[i].age)
    BY <1>5, <1>6, <1>9 DEF Events
<1>11. Older(alerts[i].age) <= sinceTick + 1
    BY <1>2, <1>5, <1>7 DEF Older, Ages
<1> QED BY <1>1, <1>8, <1>10, <1>11 DEF InAlerts

LEMMA ShowsStep == AlertInv /\ ShowsInv /\ AlertInv' /\ [Next]_vars => ShowsInv'
<1> SUFFICES ASSUME AlertInv, ShowsInv, AlertInv', [Next]_vars PROVE ShowsInv'
    OBVIOUS
<1>1. CASE StartTick \/ UpdateOk \/ UpdateFails \/ RunActions \/ FillQuicklook \/ EndGrace
    BY <1>1, TickShows
<1>2. CASE ClassifyViews
    BY <1>2, ClassifyShows
<1>3. CASE CopyLog
    BY <1>3, CopyShows
<1>4. CASE ClearEvents
    BY <1>4, ClearShows
<1>5. CASE Elapse
    BY <1>5, ElapseShows
<1>6. CASE UNCHANGED vars
    BY <1>6 DEF vars, ShowsInv, Unbroken, ClearedSince, After, InLog, InAlerts
<1> QED BY <1>1, <1>2, <1>3, <1>4, <1>5, <1>6 DEF Next

-----------------------------------------------------------------------------
(* The theorems.                                                           *)

\* The invariant holds in every state: what the log and the alert plugin hold
\* is founded on breaches and not older than the last full clear.
THEOREM AlertInvariant == Spec => []AlertInv
BY AlertInit, AlertStep, PTL DEF Spec

\* The variables keep their types, the log and its copy their capacity.
THEOREM AlertTypeCorrect == Spec => []TypeOK
<1>1. AlertInv => TypeOK
    BY DEF AlertInv
<1> QED BY <1>1, AlertInvariant, PTL

\* The rollup is never critical for its alerts unless a logged reading was up
\* at its critical limit within the recency window (health.rs alert_check).
THEOREM CriticalIsFounded == Spec => []HealthHonest
<1>1. AlertInv => HealthHonest
    <2> SUFFICES ASSUME AlertInv, HealthWord = "critical"
                 PROVE  \E p \in Logged : IsRecent(critical[p])
        BY DEF HealthHonest
    <2>1. "CRITICAL" \in RecentWords
        BY DEF HealthWord
    <2>2. PICK i \in DOMAIN alerts : alerts[i].severity = "CRITICAL" /\ Recent(alerts[i])
        BY <2>1 DEF RecentWords
    <2> DEFINE p == alerts[i].stat
    <2>3. /\ p \in Logged /\ critical[p] # None /\ critical[p] <= alerts[i].age
        BY <2>2 DEF AlertInv, Founded
    <2>4. alerts[i] \in Events
        BY ElementOfSeq, LenProperties DEF AlertInv, TypeOK
    <2>5. p \in Monitored /\ alerts[i].age \in Ages /\ critical[p] \in Ages
        BY <2>3, <2>4 DEF AlertInv, TypeOK, Events
    <2>6. critical[p] <= Recency
        BY <2>2, <2>3, <2>5, AlertAssumption DEF Recent, Ages
    <2> QED BY <2>3, <2>6 DEF IsRecent
<1> QED BY <1>1, AlertInvariant, PTL

\* Once the alert plugin has copied the log after a full clear, it shows
\* nothing from before the clear (events.rs clean, plugins/alert.rs).
THEOREM ClearsStayCleared == Spec => []ClearReaches
<1>1. AlertInv => ClearReaches
    BY DEF AlertInv
<1> QED BY <1>1, AlertInvariant, PTL

\* A logged plugin before the alert plugin that was in breach in the last tick
\* shows as critical until the next, however full the log was and whatever came
\* behind it (stats.rs after_update, events.rs push, plugins/alert.rs, health.rs).
THEOREM BreachesShow == Spec => []BreachShows
<1>1. AlertInv /\ ShowsInv => BreachShows
    <2> SUFFICES ASSUME AlertInv, ShowsInv, stage = "sleep",
                        Cardinality(Logged) <= Cap, MaxGap <= Recency,
                        NEW p \in Logged, p < AlertPos, lit[p], ~ClearedSince(sinceTick)
                 PROVE  HealthWord = "critical"
        BY DEF BreachShows
    <2>1. PICK i \in DOMAIN alerts :
              alerts[i].severity = "CRITICAL" /\ alerts[i].age <= sinceTick
        BY DEF ShowsInv, Unbroken, InAlerts
    <2>2. alerts[i] \in Events
        BY LogShape DEF AlertInv
    <2>3. alerts[i].age \in Nat /\ sinceTick \in 0..MaxGap
          /\ MaxGap \in Nat /\ Recency \in Nat
        BY <2>2, AlertAssumption DEF Events, Ages, AlertInv, TypeOK
    <2>4. Recent(alerts[i])
        BY <2>1, <2>3 DEF Recent
    <2> QED BY <2>1, <2>4 DEF RecentWords, HealthWord
<1>2. Spec => []ShowsInv
    BY ShowsInit, ShowsStep, AlertInvariant, PTL DEF Spec
<1> QED BY <1>1, <1>2, AlertInvariant, PTL
=============================================================================
