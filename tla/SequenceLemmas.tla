---------------------------- MODULE SequenceLemmas ----------------------------
(***************************************************************************)
(* What the proofs about VirtualHandles, CommandQueue, InputQueue and      *)
(* HostSession need of sequences from which entries are taken out:         *)
(* RemoveAt, and how many of the entries are in a set.  What those about   *)
(* BottleConfig and SteamSurface need of sequences that are built up entry *)
(* by entry, and of those that Without leaves.                             *)
(***************************************************************************)
EXTENDS Filtering, Integers, SequencesExt, SequenceTheorems, FiniteSetTheorems,
        FunctionTheorems, WellFoundedInduction, TLAPS

\* Where the entries of s that are in X are.
Hits(s, X) == {j \in 1 .. Len(s) : s[j] \in X}

\* What remains after one entry is taken out, and where.
LEMMA RemoveAtProperties ==
  ASSUME NEW S, NEW s \in Seq(S), NEW i \in 1 .. Len(s)
  PROVE  /\ RemoveAt(s, i) \in Seq(S)
         /\ Len(RemoveAt(s, i)) = Len(s) - 1
         /\ \A j \in 1 .. Len(s) - 1 :
              RemoveAt(s, i)[j] = IF j < i THEN s[j] ELSE s[j + 1]
<1> DEFINE head == SubSeq(s, 1, i - 1)
           tail == SubSeq(s, i + 1, Len(s))
<1>1. \A j \in 1 .. Len(s) : s[j] \in S
  BY ElementOfSeq
<1>2. Len(s) \in Nat /\ i \in Nat /\ 1 <= i /\ i <= Len(s)
  BY LenProperties
<1>3. /\ head \in Seq(S) /\ Len(head) = i - 1
      /\ \A j \in 1 .. i - 1 : head[j] = s[j]
  <2>1. \A j \in 1 .. i - 1 : s[j] \in S
    BY <1>1, <1>2
  <2>2. i - 1 \in Int /\ (i - 1) - 1 + 1 = i - 1
    BY <1>2
  <2> HIDE DEF head
  <2>3. /\ head \in Seq(S) /\ Len(head) = IF 1 <= i - 1 THEN i - 1 - 1 + 1 ELSE 0
        /\ \A j \in 1 .. i - 1 - 1 + 1 : head[j] = s[1 + j - 1]
    BY <2>1, <2>2, SubSeqProperties DEF head
  <2> QED BY <2>3, <1>2
<1>4. /\ tail \in Seq(S) /\ Len(tail) = Len(s) - i
      /\ \A j \in 1 .. Len(s) - i : tail[j] = s[i + j]
  <2>1. \A j \in i + 1 .. Len(s) : s[j] \in S
    BY <1>1, <1>2
  <2> HIDE DEF tail
  <2>3. /\ tail \in Seq(S) /\ Len(tail) = IF i + 1 <= Len(s) THEN Len(s) - (i + 1) + 1 ELSE 0
        /\ \A j \in 1 .. Len(s) - (i + 1) + 1 : tail[j] = s[(i + 1) + j - 1]
    BY <2>1, <1>2, SubSeqProperties DEF tail
  <2> QED BY <2>3, <1>2
<1> HIDE DEF head, tail
<1>5. RemoveAt(s, i) = head \o tail
  BY DEF RemoveAt, head, tail
<1>6. /\ head \o tail \in Seq(S)
      /\ Len(head \o tail) = Len(head) + Len(tail)
      /\ \A j \in 1 .. Len(head) + Len(tail) :
           (head \o tail)[j] = IF j <= Len(head) THEN head[j] ELSE tail[j - Len(head)]
  BY <1>3, <1>4, ConcatProperties
<1>7. ASSUME NEW j \in 1 .. Len(s) - 1
      PROVE  RemoveAt(s, i)[j] = IF j < i THEN s[j] ELSE s[j + 1]
  <2>1. j \in 1 .. Len(head) + Len(tail)
    BY <1>2, <1>3, <1>4
  <2>2. CASE j < i
    BY <2>1, <2>2, <1>2, <1>3, <1>5, <1>6
  <2>3. CASE i <= j
    <3>1. j - (i - 1) \in 1 .. Len(s) - i /\ i + (j - (i - 1)) = j + 1
      BY <2>3, <1>2
    <3>2. (head \o tail)[j] = tail[j - (i - 1)]
      BY <2>1, <2>3, <1>2, <1>3, <1>6
    <3>3. tail[j - (i - 1)] = s[j + 1]
      BY <3>1, <1>4
    <3>4. ~(j < i)
      BY <2>3, <1>2
    <3> QED BY <3>2, <3>3, <3>4, <1>5
  <2> QED BY <2>2, <2>3, <1>2
<1> QED BY <1>2, <1>3, <1>4, <1>5, <1>6, <1>7

\* A sequence has finitely many hits.
LEMMA HitsFinite ==
  ASSUME NEW S, NEW s \in Seq(S), NEW X
  PROVE  IsFiniteSet(Hits(s, X)) /\ Cardinality(Hits(s, X)) \in Nat
<1>1. Len(s) \in Int
  BY LenProperties
<1>2. IsFiniteSet(1 .. Len(s))
  BY <1>1, FS_Interval
<1>3. Hits(s, X) \in SUBSET (1 .. Len(s))
  BY DEF Hits
<1>4. IsFiniteSet(Hits(s, X))
  BY <1>2, <1>3, FS_Subset
<1> QED BY <1>4, FS_CardinalityType

\* Taking entry i out takes it from the hits it is among, and no other.
LEMMA HitsOfRemoveAt ==
  ASSUME NEW S, NEW s \in Seq(S), NEW i \in 1 .. Len(s), NEW X
  PROVE  Cardinality(Hits(RemoveAt(s, i), X)) =
           IF s[i] \in X THEN Cardinality(Hits(s, X)) - 1 ELSE Cardinality(Hits(s, X))
<1> DEFINE t == RemoveAt(s, i)
           from == Hits(s, X) \ {i}
           Moved == [j \in from |-> IF j < i THEN j ELSE j - 1]
<1>1. /\ t \in Seq(S) /\ Len(t) = Len(s) - 1
      /\ \A j \in 1 .. Len(s) - 1 : t[j] = IF j < i THEN s[j] ELSE s[j + 1]
  BY RemoveAtProperties
<1>2. Len(s) \in Nat /\ i \in Nat /\ 1 <= i /\ i <= Len(s)
  BY LenProperties
<1> HIDE DEF t
<1>3. ASSUME NEW j \in from PROVE Moved[j] \in Hits(t, X)
  <2>1. j \in Nat /\ 1 <= j /\ j <= Len(s) /\ j # i /\ s[j] \in X
    BY <1>2 DEF Hits
  <2>2. CASE j < i
    BY <2>1, <2>2, <1>1, <1>2 DEF Hits
  <2>3. CASE i < j
    <3>1. j - 1 \in 1 .. Len(s) - 1 /\ ~(j - 1 < i) /\ (j - 1) + 1 = j
      BY <2>1, <2>3, <1>2
    <3>2. t[j - 1] = s[j]
      BY <3>1, <1>1
    <3> QED BY <3>1, <3>2, <2>1, <2>3, <1>1, <1>2 DEF Hits
  <2> QED BY <2>1, <2>2, <2>3, <1>2
<1>4. ASSUME NEW j \in from, NEW k \in from, Moved[j] = Moved[k] PROVE j = k
  <2>1. j \in Nat /\ k \in Nat /\ j # i /\ k # i
    BY <1>2 DEF Hits
  <2> QED BY <2>1, <1>4, <1>2
<1>5. ASSUME NEW k \in Hits(t, X) PROVE \E j \in from : Moved[j] = k
  <2>1. k \in Nat /\ 1 <= k /\ k <= Len(s) - 1 /\ t[k] \in X
    BY <1>1, <1>2 DEF Hits
  <2>2. CASE k < i
    <3>1. k \in from
      BY <2>1, <2>2, <1>1, <1>2 DEF Hits
    <3> QED BY <3>1, <2>2
  <2>3. CASE i <= k
    <3>1. k + 1 \in from
      BY <2>1, <2>3, <1>1, <1>2 DEF Hits
    <3>2. Moved[k + 1] = k
      BY <3>1, <2>1, <2>3, <1>2
    <3> QED BY <3>1, <3>2
  <2> QED BY <2>1, <2>2, <2>3, <1>2
<1> HIDE DEF from
<1>6. Moved \in [from -> Hits(t, X)]
  BY <1>3
<1> HIDE DEF Moved
<1>7. Moved \in Bijection(from, Hits(t, X))
  BY <1>4, <1>5, <1>6, Fun_IsBij
<1>8. ExistsBijection(from, Hits(t, X))
  BY <1>7 DEF ExistsBijection
<1>9. IsFiniteSet(Hits(s, X))
  BY HitsFinite
<1>10. /\ IsFiniteSet(from)
       /\ Cardinality(from) = IF i \in Hits(s, X) THEN Cardinality(Hits(s, X)) - 1
                                                  ELSE Cardinality(Hits(s, X))
  BY <1>9, FS_RemoveElement DEF from
<1>11. Cardinality(Hits(t, X)) = Cardinality(from)
  BY <1>8, <1>10, FS_Bijection
<1>12. i \in Hits(s, X) <=> s[i] \in X
  BY DEF Hits
<1> QED BY <1>10, <1>11, <1>12 DEF t

\* An entry appended is one more hit of the sets it is in.
LEMMA HitsOfAppend ==
  ASSUME NEW S, NEW s \in Seq(S), NEW e \in S, NEW X
  PROVE  Cardinality(Hits(Append(s, e), X)) =
           IF e \in X THEN Cardinality(Hits(s, X)) + 1 ELSE Cardinality(Hits(s, X))
<1> DEFINE t == Append(s, e)
           n == Len(s) + 1
<1>1. /\ Len(t) = n /\ t[n] = e
      /\ \A j \in 1 .. Len(s) : t[j] = s[j]
  BY AppendProperties
<1>2. Len(s) \in Nat
  BY LenProperties
<1> HIDE DEF t
<1>3. Hits(t, X) = IF e \in X THEN Hits(s, X) \cup {n} ELSE Hits(s, X)
  BY <1>1, <1>2 DEF Hits
<1>4. n \notin Hits(s, X)
  BY <1>2 DEF Hits
<1>5. IsFiniteSet(Hits(s, X))
  BY HitsFinite
<1>6. Cardinality(Hits(s, X) \cup {n}) = Cardinality(Hits(s, X)) + 1
  BY <1>4, <1>5, FS_AddElement
<1> QED BY <1>3, <1>6 DEF t

\* What is left was there before, in the same order, and nothing else is gone.
LEMMA RemoveAtKeeps ==
  ASSUME NEW S, NEW s \in Seq(S), NEW i \in 1 .. Len(s)
  PROVE  /\ \A j \in 1 .. Len(RemoveAt(s, i)) :
              \E k \in 1 .. Len(s) : /\ k = IF j < i THEN j ELSE j + 1
                                     /\ k # i /\ RemoveAt(s, i)[j] = s[k]
         /\ \A k \in 1 .. Len(s) : k # i => \E j \in 1 .. Len(RemoveAt(s, i)) : RemoveAt(s, i)[j] = s[k]
<1> DEFINE t == RemoveAt(s, i)
<1>1. /\ t \in Seq(S) /\ Len(t) = Len(s) - 1
      /\ \A j \in 1 .. Len(s) - 1 : t[j] = IF j < i THEN s[j] ELSE s[j + 1]
  BY RemoveAtProperties
<1>2. Len(s) \in Nat /\ i \in Nat /\ 1 <= i /\ i <= Len(s)
  BY LenProperties
<1> HIDE DEF t
<1>3. ASSUME NEW j \in 1 .. Len(t)
      PROVE  \E k \in 1 .. Len(s) :
               /\ k = IF j < i THEN j ELSE j + 1
               /\ k # i /\ t[j] = s[k]
  <2>1. j \in Nat /\ 1 <= j /\ j <= Len(s) - 1
    BY <1>1, <1>2
  <2>2. CASE j < i
    BY <2>1, <2>2, <1>1, <1>2
  <2>3. CASE ~(j < i)
    <3>1. j + 1 \in 1 .. Len(s) /\ j + 1 # i
      BY <2>1, <2>3, <1>2
    <3>2. t[j] = s[j + 1]
      BY <2>1, <2>3, <1>1
    <3> QED BY <3>1, <3>2, <2>3
  <2> QED BY <2>2, <2>3
<1>4. ASSUME NEW k \in 1 .. Len(s), k # i
      PROVE  \E j \in 1 .. Len(t) : t[j] = s[k]
  <2>1. CASE k < i
    <3>1. k \in 1 .. Len(t) /\ k \in 1 .. Len(s) - 1
      BY <2>1, <1>1, <1>2
    <3> QED BY <3>1, <2>1, <1>1
  <2>2. CASE i < k
    <3>1. k - 1 \in 1 .. Len(t) /\ k - 1 \in 1 .. Len(s) - 1 /\ ~(k - 1 < i) /\ (k - 1) + 1 = k
      BY <2>2, <1>1, <1>2
    <3>2. t[k - 1] = s[k]
      BY <3>1, <1>1
    <3> QED BY <3>1, <3>2
  <2> QED BY <2>1, <2>2, <1>4, <1>2
<1> QED BY <1>3, <1>4 DEF t

\* The tail is what is left without the first entry.
LEMMA TailIsRemoveAt ==
  ASSUME NEW S, NEW s \in Seq(S), s # << >>
  PROVE  Tail(s) = RemoveAt(s, 1) /\ 1 \in 1 .. Len(s)
<1>1. Tail(s) = SubSeq(s, 2, Len(s)) /\ Tail(s) \in Seq(S)
  BY TailIsSubSeq, HeadTailProperties
<1>2. SubSeq(s, 1, 0) = << >>
  BY SubSeqEmpty
<1>3. << >> \o Tail(s) = Tail(s)
  BY <1>1, ConcatEmptySeq
<1>4. Len(s) \in Nat /\ Len(s) # 0
  BY LenProperties, EmptySeq
<1>5. 1 - 1 = 0 /\ 1 + 1 = 2 /\ 1 \in 1 .. Len(s)
  BY <1>4
<1> QED BY <1>1, <1>2, <1>3, <1>5 DEF RemoveAt

\* A finite set of numbers that is not empty has a least one.
LEMMA LeastOf ==
  ASSUME NEW T, T \subseteq Nat, IsFiniteSet(T), T # {}
  PROVE  \E x \in T : \A y \in T : x <= y
<1> DEFINE Below(x) == {y \in T : y <= x}
           Belows   == {Below(x) : x \in T}
           R        == StrictSubsetOrdering(T)
<1>1. \A x \in T : Below(x) \in FiniteSubsetsOf(T)
  BY FS_Subset DEF FiniteSubsetsOf
<1>2. Belows \subseteq FiniteSubsetsOf(T) /\ Belows # {}
  BY <1>1
<1>3. PICK B \in Belows : \A C \in Belows : ~(<<C, B>> \in R)
  <2>1. IsWellFoundedOn(R, FiniteSubsetsOf(T))
    BY FS_StrictSubsetOrderingWellFounded
  <2> HIDE DEF Belows, R
  <2> QED BY <2>1, <1>2, WFMin
<1>4. PICK x \in T : B = Below(x)
  BY <1>3
<1>5. ASSUME NEW y \in T, y < x
      PROVE  FALSE
  <2>1. x \in Nat /\ y \in Nat /\ \A z \in T : z \in Nat
    OBVIOUS
  <2>2. x <= x /\ ~(x <= y) /\ \A z \in T : z <= y => z <= x
    BY <2>1, <1>5
  <2>3. Below(y) \subseteq Below(x) /\ x \in Below(x) /\ x \notin Below(y)
    BY <2>2
  <2>4. <<Below(y), Below(x)>> \in R
    BY <2>3 DEF StrictSubsetOrdering
  <2> QED BY <2>4, <1>3, <1>4
<1> QED BY <1>5

\* Counting up reaches every number of a set that counting does not leave.
LEMMA CountingUp ==
  ASSUME NEW n \in Nat, NEW T, 0 \in T, \A i \in 0 .. n - 1 : i \in T => i + 1 \in T
  PROVE  0 .. n \subseteq T
<1> DEFINE Missing == {i \in 0 .. n : i \notin T}
<1>1. Missing \subseteq Nat /\ IsFiniteSet(Missing)
  <2>1. IsFiniteSet(0 .. n)
    BY FS_Interval
  <2>2. Missing \subseteq 0 .. n /\ Missing \subseteq Nat
    OBVIOUS
  <2> QED BY <2>1, <2>2, FS_Subset
<1>2. CASE Missing # {}
  <2>1. PICK x \in Missing : \A y \in Missing : x <= y
    BY <1>1, <1>2, LeastOf
  <2>2. x # 0 /\ x - 1 \in 0 .. n - 1 /\ x - 1 \notin Missing /\ x - 1 \in 0 .. n
    BY <2>1
  <2>3. x - 1 + 1 = x
    BY <2>1
  <2> QED BY <2>1, <2>2, <2>3
<1> QED BY <1>2

\* A set with the empty sequence that appending does not leave has every sequence.
LEMMA AppendingReaches ==
  ASSUME NEW S, NEW T, << >> \in T,
         \A p \in Seq(S), d \in S : p \in T => Append(p, d) \in T
  PROVE  Seq(S) \subseteq T
<1> SUFFICES ASSUME NEW s \in Seq(S) PROVE s \in T
  OBVIOUS
<1> DEFINE Reached == {i \in 0 .. Len(s) : SubSeq(s, 1, i) \in T}
<1>1. Len(s) \in Nat /\ SubSeq(s, 1, Len(s)) = s /\ SubSeq(s, 1, 0) = << >>
  BY LenProperties, SubSeqFull, SubSeqEmpty
<1>2. 0 \in Reached
  <2>1. 0 \in 0 .. Len(s)
    BY <1>1
  <2>2. SubSeq(s, 1, 0) \in T
    BY <1>1, Zenon
  <2> QED BY <2>1, <2>2
<1>3. ASSUME NEW i \in 0 .. Len(s) - 1, i \in Reached PROVE i + 1 \in Reached
  <2> DEFINE p == SubSeq(s, 1, i)
             j == i + 1
  <2>1. /\ j \in 1 .. Len(s) /\ j \in 0 .. Len(s) /\ j - 1 = i /\ 1 \in 1 .. Len(s) /\ j \in 1 .. j
        /\ j \in 1 .. Len(s) /\ s[j] \in S /\ \A k \in 1 .. i : k \in 1 .. Len(s)
    BY <1>1, ElementOfSeq
  <2>2. SubSeq(s, 1, j) = SubSeq(s, 1, j - 1) \o << s[j] >>
    BY <2>1, SubSeqRecursiveSecond
  <2>3. p \in Seq(S)
    <3>1. \A k \in 1 .. i : s[k] \in S
      BY <2>1, ElementOfSeq
    <3> QED BY <3>1, SubSeqProperties
  <2> HIDE DEF p, j
  <2>4. p \in T
    BY <1>3 DEF p
  <2>5. Append(p, s[j]) \in T
    BY <2>1, <2>3, <2>4
  <2>6. Append(p, s[j]) = p \o << s[j] >>
    BY <2>1, <2>3, AppendIsConcat
  <2>7. SubSeq(s, 1, j) \in T
    BY <2>1, <2>2, <2>5, <2>6 DEF p
  <2> QED BY <2>1, <2>7 DEF j
<1> HIDE DEF Reached
<1>4. 0 .. Len(s) \subseteq Reached
  BY <1>1, <1>2, <1>3, CountingUp
<1>5. Len(s) \in Reached
  BY <1>1, <1>4
<1> QED BY <1>1, <1>5 DEF Reached

\* c is s and behind it t.
Concatenated(s, t, c) ==
  /\ Len(c) = Len(s) + Len(t)
  /\ \A i \in 1 .. Len(s) : c[i] = s[i]
  /\ \A i \in 1 .. Len(t) : c[Len(s) + i] = t[i]

LEMMA ConcatEntries ==
  ASSUME NEW S, NEW s \in Seq(S), NEW t \in Seq(S)
  PROVE  s \o t \in Seq(S) /\ Concatenated(s, t, s \o t)
<1>1. Len(s) \in Nat /\ Len(t) \in Nat
  BY LenProperties
<1>2. /\ s \o t \in Seq(S) /\ Len(s \o t) = Len(s) + Len(t)
      /\ \A i \in 1 .. Len(s) + Len(t) : (s \o t)[i] = IF i <= Len(s) THEN s[i] ELSE t[i - Len(s)]
  BY ConcatProperties
<1>3. ASSUME NEW i \in 1 .. Len(t) PROVE (s \o t)[Len(s) + i] = t[i]
  <2>1. /\ Len(s) + i \in 1 .. Len(s) + Len(t) /\ ~(Len(s) + i <= Len(s))
        /\ (Len(s) + i) - Len(s) = i
    BY <1>1
  <2> QED BY <2>1, <1>2
<1> QED BY <1>1, <1>2, <1>3 DEF Concatenated

-----------------------------------------------------------------------------
(* Filtering *)

\* The recursion of Without as far as the place m of s.
Keeps(s, X, m, g) ==
  g = [n \in 0 .. m |-> IF n = 0 THEN << >>
                        ELSE IF s[n] \in X THEN g[n - 1] ELSE Append(g[n - 1], s[n])]

Filters(s, X, m, g) ==
  /\ g[0] = << >>
  /\ \A i \in 1 .. m : g[i] = IF s[i] \in X THEN g[i - 1] ELSE Append(g[i - 1], s[i])

LEMMA KeepsAt ==
  ASSUME NEW s, NEW X, NEW m \in Nat, NEW g, Keeps(s, X, m, g)
  PROVE  Filters(s, X, m, g)
<1>1. 0 \in 0 .. m /\ \A i \in 1 .. m : i \in 0 .. m /\ i # 0
  OBVIOUS
<1> QED BY <1>1 DEF Keeps, Filters

LEMMA KeepsExists ==
  ASSUME NEW S, NEW s \in Seq(S), NEW X
  PROVE  \E g : Keeps(s, X, Len(s), g)
<1> DEFINE T == {m \in 0 .. Len(s) : \E g : Keeps(s, X, m, g)}
<1>1. Len(s) \in Nat
  BY LenProperties
<1>2. 0 \in T
  <2> DEFINE z == [n \in 0 .. 0 |-> << >>]
  <2>1. z = [n \in 0 .. 0 |-> IF n = 0 THEN << >>
                             ELSE IF s[n] \in X THEN z[n - 1] ELSE Append(z[n - 1], s[n])]
    OBVIOUS
  <2>2. 0 \in 0 .. Len(s)
    BY <1>1
  <2> HIDE DEF z
  <2>3. Keeps(s, X, 0, z)
    BY <2>1 DEF Keeps
  <2> QED BY <2>2, <2>3
<1>3. ASSUME NEW i \in 0 .. Len(s) - 1, i \in T PROVE i + 1 \in T
  <2>1. PICK g : Keeps(s, X, i, g)
    BY <1>3
  <2> DEFINE e == IF s[i + 1] \in X THEN g[i] ELSE Append(g[i], s[i + 1])
             h == [n \in 0 .. i + 1 |-> IF n = i + 1 THEN e ELSE g[n]]
  <2>2. ASSUME NEW n \in 0 .. i + 1
        PROVE  h[n] = IF n = 0 THEN << >>
                      ELSE IF s[n] \in X THEN h[n - 1] ELSE Append(h[n - 1], s[n])
    <3>1. CASE n = i + 1
      <4>1. n # 0 /\ n - 1 = i /\ h[i] = g[i] /\ h[n] = e
        BY <3>1, <1>1
      <4> QED BY <3>1, <4>1
    <3>2. CASE n # i + 1
      <4>1. n \in 0 .. i /\ h[n] = g[n] /\ (n # 0 => h[n - 1] = g[n - 1])
        BY <3>2, <1>1
      <4>2. g[n] = IF n = 0 THEN << >>
                   ELSE IF s[n] \in X THEN g[n - 1] ELSE Append(g[n - 1], s[n])
        BY <2>1, <4>1 DEF Keeps
      <4> QED BY <4>1, <4>2
    <3> QED BY <3>1, <3>2
  <2>3. h = [n \in 0 .. i + 1 |-> IF n = 0 THEN << >>
                   ELSE IF s[n] \in X THEN h[n - 1] ELSE Append(h[n - 1], s[n])]
    BY <2>2
  <2>4. i + 1 \in 0 .. Len(s)
    BY <1>1
  <2> HIDE DEF h
  <2> QED BY <2>3, <2>4 DEF Keeps
<1> HIDE DEF T
<1>4. 0 .. Len(s) \subseteq T
  BY <1>1, <1>2, <1>3, CountingUp
<1>5. Len(s) \in T
  BY <1>1, <1>4
<1> QED BY <1>5 DEF T

LEMMA WithoutKeeps ==
  ASSUME NEW S, NEW s \in Seq(S), NEW X
  PROVE  \E g : Keeps(s, X, Len(s), g) /\ Without(s, X) = g[Len(s)]
<1> DEFINE k == CHOOSE g : Keeps(s, X, Len(s), g)
<1>1. Keeps(s, X, Len(s), k)
  BY KeepsExists
<1>2. Without(s, X) = k[Len(s)]
  BY DEF Without, Keeps
<1> QED BY <1>1, <1>2

\* Without is filtering: nothing of nothing, and one entry after the other.
LEMMA WithoutNothing ==
  ASSUME NEW X
  PROVE  Without(<< >>, X) = << >>
<1>1. << >> \in Seq({}) /\ Len(<< >>) = 0
  BY EmptySeq
<1>2. PICK g : Keeps(<< >>, X, 0, g) /\ Without(<< >>, X) = g[0]
  BY <1>1, WithoutKeeps
<1> QED BY <1>2, KeepsAt DEF Filters

LEMMA WithoutOneMore ==
  ASSUME NEW S, NEW s \in Seq(S), NEW X, NEW d \in S
  PROVE  Without(Append(s, d), X) = IF d \in X THEN Without(s, X) ELSE Append(Without(s, X), d)
<1>1. Len(s) \in Nat
  BY LenProperties
<1> DEFINE t == Append(s, d)
           n == Len(s)
<1>3. /\ t \in Seq(S) /\ Len(t) = n + 1 /\ t[n + 1] = d
      /\ \A i \in 1 .. n : t[i] = s[i]
  BY AppendProperties
<1>4. PICK g : Keeps(s, X, n, g) /\ Without(s, X) = g[n]
  BY WithoutKeeps
<1>5. PICK h : Keeps(t, X, n + 1, h) /\ Without(t, X) = h[n + 1]
  BY <1>3, WithoutKeeps
<1> HIDE DEF t, n
<1>6. n \in Nat /\ n + 1 \in Nat /\ 0 \in 0 .. n
  BY <1>1 DEF n
<1>7. Filters(s, X, n, g)
  BY <1>4, <1>6, KeepsAt
<1>8. Filters(t, X, n + 1, h)
  BY <1>5, <1>6, KeepsAt
<1>9. h[n] = g[n]
  <2> DEFINE T == {i \in 0 .. n : h[i] = g[i]}
  <2>1. 0 \in T
    BY <1>6, <1>7, <1>8 DEF Filters
  <2>2. ASSUME NEW i \in 0 .. n - 1, i \in T PROVE i + 1 \in T
    <3>1. i + 1 \in 0 .. n /\ i + 1 \in 1 .. n /\ i + 1 \in 1 .. n + 1 /\ i + 1 - 1 = i
      BY <1>6
    <3>2. g[i + 1] = IF s[i + 1] \in X THEN g[i] ELSE Append(g[i], s[i + 1])
      BY <3>1, <1>7 DEF Filters
    <3>3. h[i + 1] = IF t[i + 1] \in X THEN h[i] ELSE Append(h[i], t[i + 1])
      BY <3>1, <1>8 DEF Filters
    <3> QED BY <2>2, <3>1, <3>2, <3>3, <1>3
  <2> HIDE DEF T
  <2>3. 0 .. n \subseteq T
    BY <1>6, <2>1, <2>2, CountingUp
  <2>4. n \in T
    BY <1>6, <2>3
  <2> QED BY <2>4 DEF T
<1>10. PICK l \in 1 .. n + 1 : l = n + 1 /\ l - 1 = n
  BY <1>6
<1>11. h[l] = IF t[l] \in X THEN h[l - 1] ELSE Append(h[l - 1], t[l])
  BY <1>8 DEF Filters
<1>12. h[n + 1] = IF t[n + 1] \in X THEN h[n] ELSE Append(h[n], t[n + 1])
  BY <1>10, <1>11
<1> QED BY <1>3, <1>4, <1>5, <1>9, <1>12 DEF t

Avoids(s, X) == \A i \in 1 .. Len(s) : s[i] \notin X

\* What filtering does: nothing of X is left; nothing else is taken out; and
\* filtering out more gives the same whether or not it was done before.
LEMMA WithoutAvoids ==
  ASSUME NEW S, NEW X, NEW s \in Seq(S)
  PROVE  /\ Without(s, X) \in Seq(S) /\ Avoids(Without(s, X), X)
         /\ Avoids(s, X) => Without(s, X) = s
<1> DEFINE Fact(p) == /\ Without(p, X) \in Seq(S) /\ Avoids(Without(p, X), X)
                      /\ Avoids(p, X) => Without(p, X) = p
           T == {p \in Seq(S) : Fact(p)}
<1>1. << >> \in T
  <2>1. << >> \in Seq(S) /\ Len(<< >>) = 0 /\ Avoids(<< >>, X)
    BY EmptySeq DEF Avoids
  <2> QED BY <2>1, WithoutNothing
<1>2. ASSUME NEW p \in Seq(S), NEW d \in S, p \in T PROVE Append(p, d) \in T
  <2> DEFINE q == Append(p, d)
             w == Without(p, X)
  <2>1. /\ q \in Seq(S) /\ Len(q) = Len(p) + 1 /\ q[Len(p) + 1] = d /\ Len(p) \in Nat
        /\ \A i \in 1 .. Len(p) : q[i] = p[i]
    BY AppendProperties, LenProperties
  <2>2. /\ w \in Seq(S) /\ Avoids(w, X) /\ (Avoids(p, X) => w = p)
        /\ Len(w) \in Nat
    BY <1>2, LenProperties
  <2>3. /\ Append(w, d) \in Seq(S) /\ Len(Append(w, d)) = Len(w) + 1
        /\ Append(w, d)[Len(w) + 1] = d /\ \A i \in 1 .. Len(w) : Append(w, d)[i] = w[i]
    BY <2>2, AppendProperties
  <2>4. Without(q, X) = IF d \in X THEN w ELSE Append(w, d)
    BY WithoutOneMore
  <2>5. Avoids(q, X) => d \notin X /\ Avoids(p, X)
    BY <2>1 DEF Avoids
  <2>6. d \notin X => Avoids(Append(w, d), X)
    BY <2>2, <2>3 DEF Avoids
  <2>7. Fact(q)
    <3>1. CASE d \in X
      BY <3>1, <2>2, <2>4, <2>5
    <3>2. CASE d \notin X
      BY <3>2, <2>2, <2>3, <2>4, <2>5, <2>6
    <3> QED BY <3>1, <3>2
  <2> QED BY <2>1, <2>7
<1> HIDE DEF T
<1>3. Seq(S) \subseteq T
  BY <1>1, <1>2, AppendingReaches
<1> QED BY <1>3 DEF T

LEMMA WithoutWithout ==
  ASSUME NEW S, NEW X, NEW Z, X \subseteq Z, NEW s \in Seq(S)
  PROVE  Without(Without(s, X), Z) = Without(s, Z)
<1> DEFINE T == {p \in Seq(S) : Without(Without(p, X), Z) = Without(p, Z)}
<1>1. << >> \in T
  BY EmptySeq, WithoutNothing
<1>2. ASSUME NEW p \in Seq(S), NEW d \in S, p \in T PROVE Append(p, d) \in T
  <2>1. Append(p, d) \in Seq(S) /\ Without(p, X) \in Seq(S)
    BY AppendProperties, WithoutAvoids
  <2>2. /\ Without(Append(p, d), X) = IF d \in X THEN Without(p, X) ELSE Append(Without(p, X), d)
        /\ Without(Append(p, d), Z) = IF d \in Z THEN Without(p, Z) ELSE Append(Without(p, Z), d)
    BY WithoutOneMore
  <2>3. Without(Append(Without(p, X), d), Z)
          = IF d \in Z THEN Without(Without(p, X), Z) ELSE Append(Without(Without(p, X), Z), d)
    BY <2>1, WithoutOneMore
  <2>4. Without(Without(Append(p, d), X), Z) = Without(Append(p, d), Z)
    <3>1. CASE d \in X
      BY <3>1, <1>2, <2>2
    <3>2. CASE d \notin X
      BY <3>2, <1>2, <2>2, <2>3
    <3> QED BY <3>1, <3>2
  <2> QED BY <2>1, <2>4
<1> HIDE DEF T
<1>3. Seq(S) \subseteq T
  BY <1>1, <1>2, AppendingReaches
<1> QED BY <1>3 DEF T

\* And nothing that is not in X is taken out.
LEMMA WithoutKeepsOthers ==
  ASSUME NEW S, NEW X, NEW s \in Seq(S), NEW i \in 1 .. Len(s), s[i] \notin X
  PROVE  \E j \in 1 .. Len(Without(s, X)) : Without(s, X)[j] = s[i]
<1> DEFINE Kept(p) == \A k \in 1 .. Len(p) : p[k] \notin X =>
                        \E j \in 1 .. Len(Without(p, X)) : Without(p, X)[j] = p[k]
           T == {p \in Seq(S) : Kept(p)}
<1>1. << >> \in T
  <2>1. << >> \in Seq(S) /\ 1 .. Len(<< >>) = {}
    BY EmptySeq
  <2> QED BY <2>1
<1>2. ASSUME NEW p \in Seq(S), NEW d \in S, p \in T PROVE Append(p, d) \in T
  <2> DEFINE q == Append(p, d)
             w == Without(p, X)
             v == Without(q, X)
  <2>1. /\ q \in Seq(S) /\ Len(q) = Len(p) + 1 /\ q[Len(p) + 1] = d /\ Len(p) \in Nat
        /\ \A k \in 1 .. Len(p) : q[k] = p[k]
    BY AppendProperties, LenProperties
  <2>2. w \in Seq(S) /\ Len(w) \in Nat
    BY WithoutAvoids, LenProperties
  <2>3. v = IF d \in X THEN w ELSE Append(w, d)
    BY WithoutOneMore
  <2>4. /\ Len(Append(w, d)) = Len(w) + 1 /\ Append(w, d)[Len(w) + 1] = d
        /\ \A j \in 1 .. Len(w) : Append(w, d)[j] = w[j]
    BY <2>2, AppendProperties
  <2>5. \A j \in 1 .. Len(w) : j \in 1 .. Len(v) /\ v[j] = w[j]
    BY <2>2, <2>3, <2>4
  <2>6. d \notin X => Len(w) + 1 \in 1 .. Len(v) /\ v[Len(w) + 1] = d
    BY <2>2, <2>3, <2>4
  <2>7. ASSUME NEW k \in 1 .. Len(q), q[k] \notin X
        PROVE  \E j \in 1 .. Len(v) : v[j] = q[k]
    <3>1. CASE k = Len(p) + 1
      BY <3>1, <2>1, <2>6, <2>7
    <3>2. CASE k # Len(p) + 1
      <4>1. k \in 1 .. Len(p) /\ p[k] = q[k]
        BY <3>2, <2>1
      <4>2. PICK j \in 1 .. Len(w) : w[j] = p[k]
        BY <1>2, <2>7, <4>1
      <4> QED BY <4>1, <4>2, <2>5
    <3> QED BY <3>1, <3>2
  <2> QED BY <2>1, <2>7
<1> HIDE DEF T
<1>3. Seq(S) \subseteq T
  BY <1>1, <1>2, AppendingReaches
<1> QED BY <1>3 DEF T
=============================================================================
