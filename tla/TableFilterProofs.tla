-------------------------- MODULE TableFilterProofs --------------------------
(***************************************************************************)
(* Proofs about TableFilter, for any columns, rows, filters and number of  *)
(* requests: the types, what is drawn around the table and in it, what the *)
(* server has stored, and the boxes of the rows selected.                  *)
(***************************************************************************)
EXTENDS TableFilter, SequenceLemmas, FunctionTheorems, FiniteSetTheorems

-----------------------------------------------------------------------------
(* The inductive invariant *)

\* Requests are numbered in the order they are sent.
NumbersInv ==
    /\ \A c \in calls : c.id \in 1..sent
    /\ \A c, d \in calls : c.id = d.id => c = d

\* The refresh that was sent last has the current configuration.
LatestInv ==
    /\ \A c \in Outstanding("refresh") : c.id <= latest
    /\ \A c \in calls : c.id = latest => c.kind = "refresh" /\ c.conf = cfg

IInv ==
    /\ TypeOK
    /\ FieldsFollowConfig
    /\ NumbersInv
    /\ LatestInv
    /\ TableShowsConfig

-----------------------------------------------------------------------------
(* The invariant about the boxes *)

\* A box is that of a row drawn, or the one of the header.
BoxesOfRows == boxes \ {All} \subseteq BoxesDrawn

\* While the ids "all" has asked for are fetched, every box is checked and
\* nothing is selected; if the configuration has changed meanwhile, then the
\* table is going to be drawn again or is not there any more.
IdsInv ==
    /\ \A c, d \in Outstanding("ids") : c = d
    /\ Outstanding("ids") /= {} => BoxesDrawn \subseteq boxes /\ selected = <<>>
    /\ \A c \in Outstanding("ids") :
          c.conf = cfg \/ Outstanding("refresh") /= {} \/ content.state /= "table"

\* The rows which are selected have their box checked, once the boxes are
\* those of the object being edited.
SelectedHasBox == bound => BoxesDrawn \cap ToSet(selected) \subseteq boxes

\* A box that is checked is that of a row selected, once nothing is on its way.
BoxIsSelected ==
    drawnBy = latest /\ Outstanding("refresh") = {} /\ Outstanding("ids") = {}
        => boxes \ {All} \subseteq ToSet(selected)

BoxesInv ==
    /\ BoxesOfRows
    /\ ~raced => /\ IsInjective(selected)
                 /\ IdsInv /\ SelectedHasBox /\ BoxIsSelected

-----------------------------------------------------------------------------
(* Walking over a set of numbers in their order *)

Rank(numbers, n) == Cardinality({k \in numbers : k < n})

\* The numbers of a finite set have ranks 0, 1, 2, ...: each rank once.
LEMMA Ranks ==
    ASSUME NEW N \in SUBSET Nat, IsFiniteSet(N)
    PROVE  /\ Cardinality(N) \in Nat
           /\ \A n \in N : Rank(N, n) + 1 \in 1..Cardinality(N)
           /\ \A m, n \in N : Rank(N, m) = Rank(N, n) => m = n
           /\ \A i \in 1..Cardinality(N) : \E n \in N : Rank(N, n) = i - 1
<1>1. PICK c \in Nat : c = Cardinality(N)
  BY FS_CardinalityType
<1>2. ASSUME NEW n \in N
      PROVE  /\ IsFiniteSet({k \in N : k < n})
             /\ Rank(N, n) \in Nat /\ Rank(N, n) < c
  <2>1. PICK B \in SUBSET N : B = {k \in N : k < n}
    OBVIOUS
  <2>2. IsFiniteSet(B) /\ Cardinality(B) <= c /\ (c = Cardinality(B) => N = B)
    BY <1>1, FS_Subset
  <2>3. n \notin B
    BY <2>1
  <2>4. Cardinality(B) \in Nat /\ Cardinality(B) < c
    BY <2>2, <2>3, FS_CardinalityType
  <2>5. QED
    BY <2>1, <2>2, <2>4 DEF Rank
<1>3. ASSUME NEW m \in N, NEW n \in N, m < n
      PROVE  Rank(N, m) < Rank(N, n)
  <2>1. PICK A : A = {k \in N : k < m}
    OBVIOUS
  <2>2. PICK B : B = {k \in N : k < n}
    OBVIOUS
  <2>3. A \in SUBSET B /\ m \in B /\ m \notin A
    <3>1. m \in Nat /\ n \in Nat /\ \A k \in N : k \in Nat
      OBVIOUS
    <3>2. ~(m < m) /\ \A k \in N : k < m => k < n
      BY <1>3, <3>1
    <3>3. m \in B /\ m \notin A
      BY <1>3, <2>1, <2>2, <3>2
    <3>4. \A k \in A : k \in B
      BY <2>1, <2>2, <3>2
    <3>5. QED
      BY <3>3, <3>4
  <2>4. IsFiniteSet(B)
    BY <1>2, <2>2
  <2>5. Cardinality(A) <= Cardinality(B) /\ (Cardinality(B) = Cardinality(A) => B = A)
    BY <2>3, <2>4, FS_Subset
  <2>6. Cardinality(A) = Rank(N, m) /\ Cardinality(B) = Rank(N, n)
    BY <2>1, <2>2 DEF Rank
  <2>7. Rank(N, m) \in Nat /\ Rank(N, n) \in Nat
    BY <1>2
  <2>8. QED
    BY <2>3, <2>5, <2>6, <2>7
<1>4. \A m, n \in N : Rank(N, m) = Rank(N, n) => m = n
  <2> SUFFICES ASSUME NEW m \in N, NEW n \in N, Rank(N, m) = Rank(N, n), m /= n
               PROVE  FALSE
    OBVIOUS
  <2>1. m < n \/ n < m
    OBVIOUS
  <2>2. Rank(N, m) < Rank(N, n) \/ Rank(N, n) < Rank(N, m)
    BY <1>3, <2>1
  <2>3. PICK a \in Nat : a = Rank(N, m)
    BY <1>2
  <2>4. a < a
    BY <2>2, <2>3
  <2>5. QED
    BY <2>4
<1>5. ASSUME NEW n \in N
      PROVE  Rank(N, n) + 1 \in 1..c
  <2>1. PICK a \in Nat : a = Rank(N, n)
    BY <1>2
  <2>2. a < c
    BY <1>2, <2>1
  <2>3. QED
    BY <2>1, <2>2
<1> DEFINE f == [n \in N |-> Rank(N, n) + 1]
<1>6. f \in Injection(N, 1..c)
  <2>1. f \in [N -> 1..c]
    BY <1>5
  <2>2. ASSUME NEW m \in N, NEW n \in N, f[m] = f[n]
        PROVE  m = n
    <3>1. PICK a \in Nat, b \in Nat : a = Rank(N, m) /\ b = Rank(N, n)
      BY <1>2
    <3>2. a = b
      BY <2>2, <3>1
    <3>3. QED
      BY <1>4, <3>1, <3>2
  <2> HIDE DEF f
  <2>3. QED
    BY <2>1, <2>2, Fun_IsInj
<1>7. IsFiniteSet(1..c) /\ Cardinality(1..c) = c
  BY FS_Interval
<1>8. \A i \in 1..c : \E n \in N : f[n] = i
  <2> HIDE DEF f
  <2>1. f \in Surjection(N, 1..c)
    BY <1>1, <1>6, <1>7, FS_Injection
  <2>2. QED
    BY <2>1, Fun_SurjectionProperties
<1>9. ASSUME NEW i \in 1..c
      PROVE  \E n \in N : Rank(N, n) = i - 1
  <2>1. PICK n \in N : f[n] = i
    BY <1>8
  <2>2. PICK a \in Nat : a = Rank(N, n)
    BY <1>2
  <2>3. a = i - 1
    BY <2>1, <2>2
  <2>4. QED
    BY <2>2, <2>3
<1>10. QED
  BY <1>1, <1>4, <1>5, <1>9

\* What is met is each number of the set, once.
LEMMA InOrderFacts ==
    ASSUME NEW N \in SUBSET Nat, IsFiniteSet(N)
    PROVE  /\ InOrder(N) \in Seq(N) /\ Len(InOrder(N)) = Cardinality(N)
           /\ \A i, j \in 1..Len(InOrder(N)) : InOrder(N)[i] = InOrder(N)[j] => i = j
           /\ \A n \in N : \E i \in 1..Len(InOrder(N)) : InOrder(N)[i] = n
<1>1. PICK c \in Nat : c = Cardinality(N)
  BY Ranks
<1>2. PICK seq : seq = InOrder(N)
  OBVIOUS
<1>3. seq = [i \in 1..c |-> CHOOSE n \in N : Rank(N, n) = i - 1]
  BY <1>1, <1>2 DEF InOrder, Rank
<1>4. \A i \in 1..c : seq[i] \in N /\ Rank(N, seq[i]) = i - 1
  <2> SUFFICES ASSUME NEW i \in 1..c
               PROVE  seq[i] \in N /\ Rank(N, seq[i]) = i - 1
    OBVIOUS
  <2>1. \E n \in N : Rank(N, n) = i - 1
    BY <1>1, Ranks
  <2>2. seq[i] = CHOOSE n \in N : Rank(N, n) = i - 1
    BY <1>3
  <2>3. QED
    BY <2>1, <2>2
<1>5. seq \in [1..c -> N]
  BY <1>3, <1>4
<1>6. seq \in Seq(N) /\ Len(seq) = c
  BY <1>5
<1>7. \A i, j \in 1..c : seq[i] = seq[j] => i = j
  BY <1>4
<1>8. ASSUME NEW n \in N
      PROVE  \E i \in 1..c : seq[i] = n
  <2>1. PICK a \in Int : a = Rank(N, n) /\ a + 1 \in 1..c
    <3>1. Rank(N, n) \in Nat
      BY FS_Subset, FS_CardinalityType DEF Rank
    <3>2. QED
      BY <1>1, <3>1, Ranks
  <2>2. PICK i \in 1..c : a = i - 1
    BY <2>1
  <2>3. seq[i] \in N /\ Rank(N, seq[i]) = Rank(N, n)
    BY <1>4, <2>1, <2>2
  <2>4. PICK m \in N : m = seq[i]
    BY <2>3
  <2>5. m = n
    BY <2>3, <2>4, Ranks
  <2>6. QED
    BY <2>4, <2>5
<1>9. QED
  BY <1>1, <1>2, <1>6, <1>7, <1>8

-----------------------------------------------------------------------------
(* The selection *)

\* The rows selected are those at its positions.
LEMMA SelectionFacts ==
    ASSUME NEW S, NEW seq \in Seq(S)
    PROVE  /\ ToSet(seq) \subseteq S
           /\ \A x : x \in ToSet(seq) <=> \E i \in 1..Len(seq) : seq[i] = x
           /\ IsInjective(seq) <=> \A i, j \in 1..Len(seq) : seq[i] = seq[j] => i = j
<1>1. DOMAIN seq = 1..Len(seq) /\ \A i \in 1..Len(seq) : seq[i] \in S
  OBVIOUS
<1>2. \A x : x \in ToSet(seq) <=> \E i \in 1..Len(seq) : seq[i] = x
  BY <1>1 DEF ToSet
<1>3. QED
  BY <1>1, <1>2 DEF IsInjective

\* Nothing is selected at first.
LEMMA NothingSelected ==
    ASSUME NEW S
    PROVE  <<>> \in Seq(S) /\ ToSet(<<>>) = {} /\ IsInjective(<<>>)
<1>1. <<>> \in Seq(S) /\ Len(<<>>) = 0 /\ 1..0 = {}
  OBVIOUS
<1>2. QED
  BY <1>1, SelectionFacts

\* A row that was not selected is selected once.
LEMMA SelectedOnce ==
    ASSUME NEW S, NEW seq \in Seq(S), NEW r \in S
    PROVE  /\ Append(seq, r) \in Seq(S)
           /\ ToSet(Append(seq, r)) = ToSet(seq) \cup {r}
           /\ IsInjective(seq) /\ r \notin ToSet(seq) => IsInjective(Append(seq, r))
<1>1. PICK n \in Nat : n = Len(seq)
  OBVIOUS
<1>2. PICK t \in Seq(S) : t = Append(seq, r)
  BY AppendProperties
<1>3. Len(t) = n + 1 /\ t[n + 1] = r /\ \A i \in 1..n : t[i] = seq[i]
  BY <1>1, <1>2, AppendProperties
<1>4. \A i \in 1..n + 1 : i \in 1..n \/ i = n + 1
  BY <1>1
<1>5. \A i \in 1..n : i \in 1..n + 1
  BY <1>1
<1>6. n + 1 \in 1..n + 1
  BY <1>1
<1>7. ToSet(t) = ToSet(seq) \cup {r}
  <2>1. \A x : x \in ToSet(t) <=> \E i \in 1..n + 1 : t[i] = x
    BY <1>3, SelectionFacts
  <2>2. \A x : x \in ToSet(seq) <=> \E i \in 1..n : seq[i] = x
    BY <1>1, SelectionFacts
  <2>3. QED
    BY <1>3, <1>4, <1>5, <1>6, <2>1, <2>2
<1>8. ASSUME IsInjective(seq), r \notin ToSet(seq)
      PROVE  IsInjective(t)
  <2>1. \A i, j \in 1..n : seq[i] = seq[j] => i = j
    BY <1>1, <1>8, SelectionFacts
  <2>2. \A i \in 1..n : seq[i] /= r
    BY <1>1, <1>8, SelectionFacts
  <2>3. \A i, j \in 1..n + 1 : t[i] = t[j] => i = j
    BY <1>3, <1>4, <2>1, <2>2
  <2>4. QED
    BY <1>3, <2>3, SelectionFacts
<1>9. QED
  BY <1>2, <1>7, <1>8

\* One occurrence of a row is removed, the only one if there is no other.
LEMMA RemovedOnce ==
    ASSUME NEW S, NEW seq \in Seq(S), NEW r
    PROVE  /\ RemoveFirst(seq, r) \in Seq(S)
           /\ IsInjective(seq) => /\ IsInjective(RemoveFirst(seq, r))
                                  /\ ToSet(RemoveFirst(seq, r)) = ToSet(seq) \ {r}
<1>1. PICK n \in Nat : n = Len(seq)
  OBVIOUS
<1>2. CASE ~\E i \in 1..n : seq[i] = r
  <2>1. RemoveFirst(seq, r) = seq
    BY <1>1, <1>2 DEF RemoveFirst
  <2>2. r \notin ToSet(seq)
    BY <1>1, <1>2, SelectionFacts
  <2>3. QED
    BY <2>1, <2>2
<1>3. CASE \E i \in 1..n : seq[i] = r
  <2>1. PICK I \in SUBSET (1..n) : I = {i \in 1..n : seq[i] = r}
    OBVIOUS
  <2>2. PICK m \in I : \A i \in I : m <= i
    <3>1. I \in SUBSET Nat /\ IsFiniteSet(I) /\ I /= {}
      <4>1. IsFiniteSet(1..n)
        BY FS_Interval
      <4>2. IsFiniteSet(I)
        BY <4>1, FS_Subset
      <4>3. I /= {}
        BY <1>3, <2>1
      <4>4. \A i \in 1..n : i \in Nat
        OBVIOUS
      <4>5. QED
        BY <4>2, <4>3, <4>4
    <3>2. Cardinality(I) \in Nat /\ Cardinality(I) /= 0
      BY <3>1, FS_CardinalityType, FS_EmptySet
    <3>3. PICK c \in Nat : c = Cardinality(I) /\ 1 \in 1..c
      BY <3>2
    <3>4. PICK m \in I : Rank(I, m) = 1 - 1
      BY <3>1, <3>3, Ranks
    <3>5. {k \in I : k < m} = {}
      <4>1. IsFiniteSet({k \in I : k < m})
        BY <3>1, FS_Subset
      <4>2. Cardinality({k \in I : k < m}) = 0
        BY <3>4 DEF Rank
      <4>3. QED
        BY <4>1, <4>2, FS_EmptySet
    <3>6. \A i \in I : ~(i < m)
      BY <3>5
    <3>7. QED
      BY <3>1, <3>6
  <2>3. \A k \in I : (\A i \in I : k <= i) => k = m
    BY <2>2
  <2>4. Min(I) = m
    BY <2>2, <2>3 DEF Min
  <2>5. SelectInSeq(seq, LAMBDA v : v = r) = m
    BY <1>1, <2>1, <2>2, <2>4 DEF SelectInSeq
  <2>6. RemoveFirst(seq, r) = RemoveAt(seq, m)
    BY <1>1, <1>3, <2>5 DEF RemoveFirst
  <2>7. m \in 1..Len(seq) /\ seq[m] = r
    BY <1>1, <2>1, <2>2
  <2>8. PICK t : t = RemoveAt(seq, m)
    OBVIOUS
  <2>9. t \in Seq(S) /\ Len(t) = n - 1
    BY <1>1, <2>7, <2>8, RemoveFacts
  <2>10. /\ \A i \in 1..n - 1 : \E k \in 1..n :
               k /= m /\ t[i] = seq[k] /\ k = IF i < m THEN i ELSE i + 1
         /\ \A k \in 1..n : k /= m => \E i \in 1..n - 1 : t[i] = seq[k]
    <3>1. /\ \A i \in 1..Len(seq) - 1 :
                \E k \in 1..Len(seq) : /\ k /= m /\ RemoveAt(seq, m)[i] = seq[k]
                                       /\ k = IF i < m THEN i ELSE i + 1
          /\ \A k \in 1..Len(seq) :
                k /= m => \E i \in 1..Len(seq) - 1 : RemoveAt(seq, m)[i] = seq[k]
      BY <2>7, RemovedPositions
    <3>2. QED
      BY <1>1, <2>8, <3>1
  <2>11. ASSUME IsInjective(seq)
         PROVE  IsInjective(t) /\ ToSet(t) = ToSet(seq) \ {r}
    <3>1. \A i, j \in 1..n : seq[i] = seq[j] => i = j
      BY <1>1, <2>11, SelectionFacts
    <3>2. ASSUME NEW i \in 1..n - 1, NEW j \in 1..n - 1, t[i] = t[j]
          PROVE  i = j
      <4>1. PICK k \in 1..n : t[i] = seq[k] /\ k = IF i < m THEN i ELSE i + 1
        BY <2>10
      <4>2. PICK l \in 1..n : t[j] = seq[l] /\ l = IF j < m THEN j ELSE j + 1
        BY <2>10
      <4>3. k = l
        BY <3>1, <3>2, <4>1, <4>2
      <4>4. m \in Int
        BY <2>2
      <4>5. QED
        BY <4>1, <4>2, <4>3, <4>4
    <3>3. IsInjective(t)
      BY <2>9, <3>2, SelectionFacts
    <3>4. \A x : x \in ToSet(t) <=> \E i \in 1..n - 1 : t[i] = x
      BY <2>9, SelectionFacts
    <3>5. \A x : x \in ToSet(seq) <=> \E i \in 1..n : seq[i] = x
      BY <1>1, SelectionFacts
    <3>6. m \in 1..n
      BY <2>2
    <3>7. ASSUME NEW x
          PROVE  x \in ToSet(t) <=> x \in ToSet(seq) /\ x /= r
      BY <2>7, <2>10, <3>1, <3>4, <3>5, <3>6
    <3>8. QED
      BY <3>3, <3>7
  <2>12. QED
    BY <2>6, <2>8, <2>9, <2>11
<1>4. QED
  BY <1>2, <1>3

\* The rows the filter keeps stay selected, and no others.
LEMMA PrunedFacts ==
    ASSUME NEW S, NEW seq \in Seq(S), NEW ids
    PROVE  /\ Pruned(seq, ids) \in Seq(S)
           /\ ToSet(Pruned(seq, ids)) = ToSet(seq) \cap ids
           /\ IsInjective(seq) => IsInjective(Pruned(seq, ids))
<1>1. PICK n \in Nat : n = Len(seq)
  OBVIOUS
<1>2. PICK N \in SUBSET (1..n) : N = {i \in DOMAIN seq : seq[i] \in ids}
  <2>1. DOMAIN seq = 1..n
    BY <1>1
  <2>2. {i \in DOMAIN seq : seq[i] \in ids} \in SUBSET (1..n)
    BY <2>1
  <2>3. QED
    BY <2>2
<1>3. N \in SUBSET Nat /\ IsFiniteSet(N)
  <2>1. IsFiniteSet(1..n)
    BY FS_Interval
  <2>2. IsFiniteSet(N)
    BY <2>1, FS_Subset
  <2>3. \A i \in 1..n : i \in Nat
    OBVIOUS
  <2>4. QED
    BY <2>2, <2>3
<1>4. PICK kept \in Seq(N) : kept = InOrder(N)
  BY <1>3, InOrderFacts
<1>5. PICK l \in Nat : l = Len(kept)
  OBVIOUS
<1>6. /\ \A i, j \in 1..l : kept[i] = kept[j] => i = j
      /\ \A k \in N : \E i \in 1..l : kept[i] = k
  BY <1>3, <1>4, <1>5, InOrderFacts
<1>7. DOMAIN kept = 1..l /\ \A i \in 1..l : kept[i] \in N
  BY <1>5
<1>8. \A k \in N : k \in 1..n /\ seq[k] \in S
  BY <1>1
<1>9. PICK t : t = [i \in 1..l |-> seq[kept[i]]]
  OBVIOUS
<1>10. Pruned(seq, ids) = t
  BY <1>2, <1>4, <1>7, <1>9 DEF Pruned
<1>11. t \in [1..l -> S]
  BY <1>7, <1>8, <1>9
<1>12. t \in Seq(S) /\ Len(t) = l
  BY <1>11
<1>13. \A i \in 1..l : t[i] = seq[kept[i]]
  BY <1>9
<1>14. \A x : x \in ToSet(t) <=> \E i \in 1..l : t[i] = x
  BY <1>12, SelectionFacts
<1>15. \A x : x \in ToSet(seq) <=> \E i \in 1..n : seq[i] = x
  BY <1>1, SelectionFacts
<1>16. \A k \in 1..n : k \in N <=> seq[k] \in ids
  BY <1>1, <1>2
<1>17. ASSUME NEW x
       PROVE  x \in ToSet(t) <=> x \in ToSet(seq) /\ x \in ids
  <2>1. ASSUME x \in ToSet(t)
        PROVE  x \in ToSet(seq) /\ x \in ids
    <3>1. PICK i \in 1..l : t[i] = x
      BY <1>14, <2>1
    <3>2. PICK k \in N : k = kept[i]
      BY <1>7
    <3>3. seq[k] = x /\ k \in 1..n
      BY <1>13, <3>1, <3>2
    <3>4. QED
      BY <1>15, <1>16, <3>2, <3>3
  <2>2. ASSUME x \in ToSet(seq), x \in ids
        PROVE  x \in ToSet(t)
    <3>1. PICK k \in 1..n : seq[k] = x
      BY <1>15, <2>2
    <3>2. k \in N
      BY <1>16, <2>2, <3>1
    <3>3. PICK i \in 1..l : kept[i] = k
      BY <1>6, <3>2
    <3>4. t[i] = x
      BY <1>13, <3>1, <3>3
    <3>5. QED
      BY <1>14, <3>4
  <2>3. QED
    BY <2>1, <2>2
<1>18. ASSUME IsInjective(seq)
       PROVE  IsInjective(t)
  <2>1. \A i, j \in 1..n : seq[i] = seq[j] => i = j
    BY <1>1, <1>18, SelectionFacts
  <2>2. ASSUME NEW i \in 1..l, NEW j \in 1..l, t[i] = t[j]
        PROVE  i = j
    <3>1. PICK k \in N, m \in N : k = kept[i] /\ m = kept[j]
      BY <1>7
    <3>2. k \in 1..n /\ m \in 1..n /\ seq[k] = seq[m]
      BY <1>8, <1>13, <2>2, <3>1
    <3>3. k = m
      BY <2>1, <3>2
    <3>4. QED
      BY <1>6, <3>1, <3>3
  <2>3. QED
    BY <1>12, <2>2, SelectionFacts
<1>19. QED
  BY <1>10, <1>12, <1>17, <1>18

-----------------------------------------------------------------------------
(* The rows and the configurations *)

\* The rows a filter keeps, and those a page shows, are finitely many numbers.
LEMMA MatchingRows ==
    ASSUME NEW conf
    PROVE  /\ RowsShown(conf) \subseteq Matching(conf) /\ Matching(conf) \subseteq Rows
           /\ Matching(conf) \in SUBSET Nat /\ IsFiniteSet(Matching(conf))
<1>1. RowsShown(conf) \subseteq Matching(conf) /\ Matching(conf) \subseteq Rows
  BY DEF RowsShown, Matching
<1>2. Rows \subseteq Nat /\ IsFiniteSet(Rows)
  BY RowsAssumption
<1>3. IsFiniteSet(Matching(conf))
  BY <1>1, <1>2, FS_Subset
<1>4. QED
  BY <1>1, <1>2, <1>3

\* The rows drawn are rows the filter of the table drawn keeps.
LEMMA DrawnRows ==
    /\ BoxesDrawn \subseteq Rows
    /\ content.state /= "table" => BoxesDrawn = {}
    /\ BoxesDrawn \subseteq Matching(content.conf)
BY MatchingRows DEF BoxesDrawn

\* What the widgets make of a configuration is a configuration.
LEMMA ConfigChanges ==
    ASSUME NEW conf \in Config
    PROVE  /\ \A chosen \in SUBSET Columns : [conf EXCEPT !.displayed = chosen] \in Config
           /\ \A chosen \in SUBSET Filterable :
                 [conf EXCEPT !.filtered = chosen, !.page = 0] \in Config
           /\ \A p \in Nat : [conf EXCEPT !.page = p] \in Config
           /\ \A c \in Filterable, v \in Values :
                 [conf EXCEPT !.value[c] = v, !.page = 0] \in Config
           /\ \A c \in Filterable : [conf EXCEPT !.filtered = @ \ {c}, !.page = 0] \in Config
           /\ \A c \in Sortable :
                 [conf EXCEPT !.sort = [d \in Sortable |->
                     IF d = c THEN Turned(conf.sort[c]) ELSE "UNSORTED"]] \in Config
<1>1. \A c \in Sortable : [d \in Sortable |->
          IF d = c THEN Turned(conf.sort[c]) ELSE "UNSORTED"] \in [Sortable -> SortTypes]
  BY DEF Turned, SortTypes
<1>2. QED
  BY <1>1 DEF Config

\* A request that was sent, or that changes on the way.
LEMMA CallChanges ==
    /\ \A i \in Nat, k \in Kinds, conf \in Config, f \in Filters \cup {Default} :
          (k = "change" => f \in Filters) =>
             [id |-> i, kind |-> k, conf |-> conf, filter |-> f, served |-> FALSE] \in Call
    /\ \A c \in Call :
          /\ c.id \in Nat /\ c.kind \in Kinds /\ c.conf \in Config /\ c.served \in BOOLEAN
          /\ c.kind = "change" => c.filter \in Filters
          /\ [c EXCEPT !.served = TRUE] \in Call
          /\ [c EXCEPT !.served = TRUE].id = c.id
          /\ [c EXCEPT !.served = TRUE].kind = c.kind
          /\ [c EXCEPT !.served = TRUE].conf = c.conf
          /\ [c EXCEPT !.served = TRUE].served = TRUE
          /\ [c EXCEPT !.kind = "act"] \in Call
          /\ [c EXCEPT !.kind = "act"].id = c.id
          /\ [c EXCEPT !.kind = "act"].kind = "act"
          /\ [c EXCEPT !.kind = "act"].conf = c.conf
BY DEF Call, Kinds

\* The rows that are selected, or drawn, are numbers; the box of the header
\* is not one of them.
LEMMA HeaderIsNoRow == All \notin Rows
BY RowsAssumption DEF All

-----------------------------------------------------------------------------
(* The requests *)

\* What the requests under way have in common.
LEMMA CallsFacts ==
    ASSUME IInv
    PROVE  /\ calls \subseteq Call /\ sent \in 0..MaxCalls /\ MaxCalls \in Nat
           /\ {latest, drawnBy, storedBy} \subseteq 0..sent
           /\ \A c \in calls : c.id \in 1..sent /\ c.id \in Nat
           /\ \A c, d \in calls : c.id = d.id => c = d
           /\ \A c \in Outstanding("refresh") : c.id <= latest
           /\ \A c \in calls : c.id = latest => c.kind = "refresh" /\ c.conf = cfg
<1>1. MaxCalls \in Nat
  BY ConfigsAssumption
<1>2. \A c \in calls : c.id \in 1..sent /\ c.id \in Nat
  BY <1>1 DEF IInv, NumbersInv, TypeOK
<1>3. QED
  BY <1>1, <1>2 DEF IInv, TypeOK, NumbersInv, LatestInv

\* The number of a request that is sent is a new one.
LEMMA NewRequest ==
    ASSUME IInv, NEW kind \in Kinds, NEW conf \in Config, NEW f \in Filters \cup {Default},
           kind = "change" => f \in Filters
    PROVE  /\ Numbered(kind, conf, f) \in Call
           /\ Numbered(kind, conf, f).id = sent + 1 /\ Numbered(kind, conf, f).kind = kind
           /\ Numbered(kind, conf, f).conf = conf /\ ~Numbered(kind, conf, f).served
           /\ Numbered(kind, conf, f).filter = f
<1>1. sent + 1 \in Nat
  BY CallsFacts
<1>2. QED
  BY <1>1, CallChanges DEF Numbered

\* A new refresh has the current configuration and is the last one.
LEMMA RefreshSent ==
    ASSUME IInv, NEW gone, sent < MaxCalls, sent' = sent + 1, latest' = sent + 1,
           cfg' \in Config, UNCHANGED <<drawnBy, server>>,
           calls' = (calls \ gone) \cup {Numbered("refresh", cfg', Default)}
    PROVE  /\ calls' \subseteq Call /\ sent' \in 0..MaxCalls
           /\ {latest, drawnBy, storedBy}' \subseteq 0..sent'
           /\ NumbersInv' /\ LatestInv' /\ TableShowsConfig'
           /\ Outstanding("refresh")' /= {}
<1>1. PICK new \in Call : /\ new = Numbered("refresh", cfg', Default)
                          /\ new.id = sent + 1 /\ new.kind = "refresh" /\ new.conf = cfg'
  BY NewRequest DEF Kinds
<1>2. \A c \in calls' : c = new \/ (c \in calls /\ c.id < sent + 1)
  BY <1>1, CallsFacts
<1>3. calls' \subseteq Call /\ sent' \in 0..MaxCalls
  BY <1>1, CallsFacts
<1>4. {latest, drawnBy, storedBy}' \subseteq 0..sent'
  BY CallsFacts DEF server
<1>5. NumbersInv'
  <2>1. \A c \in calls' : c.id \in 1..sent'
    BY <1>1, <1>2, CallsFacts
  <2>2. ASSUME NEW c \in calls', NEW d \in calls', c.id = d.id
        PROVE  c = d
    BY <1>1, <1>2, <2>2, CallsFacts
  <2>3. QED
    BY <2>1, <2>2 DEF NumbersInv
<1>6. LatestInv'
  <2>1. \A c \in calls' : c.id <= latest'
    BY <1>5, CallsFacts DEF NumbersInv
  <2>2. \A c \in calls' : c.id = latest' => c = new
    BY <1>1, <1>2, CallsFacts
  <2>3. QED
    BY <1>1, <2>1, <2>2 DEF LatestInv, Outstanding
<1>7. TableShowsConfig'
  <2>1. drawnBy' /= latest' /\ storedBy' /= latest'
    BY CallsFacts DEF server
  <2>2. QED
    BY <2>1 DEF TableShowsConfig
<1>8. new \in Outstanding("refresh")'
  BY <1>1 DEF Outstanding
<1>9. QED
  BY <1>3, <1>4, <1>5, <1>6, <1>7, <1>8

\* A step which leaves what is drawn, what is stored and the configuration.
LEMMA TableStays ==
    ASSUME IInv, UNCHANGED <<cfg, bound, content, drawnBy, latest, server>>
    PROVE  TableShowsConfig'
BY DEF IInv, TableShowsConfig, server

\* A request of another kind is sent.
LEMMA OtherSent ==
    ASSUME IInv, NEW kind \in Kinds \ {"refresh"}, NEW f \in Filters \cup {Default},
           kind = "change" => f \in Filters,
           Sends(kind, cfg, f), UNCHANGED <<cfg, drawnBy, storedBy>>
    PROVE  /\ calls' \subseteq Call /\ sent' \in 0..MaxCalls
           /\ {latest, drawnBy, storedBy}' \subseteq 0..sent'
           /\ NumbersInv' /\ LatestInv' /\ latest' = latest
           /\ Outstanding("refresh")' = Outstanding("refresh")
<1>1. cfg \in Config
  BY DEF IInv, TypeOK
<1>2. PICK new \in Call : /\ new = Numbered(kind, cfg, f)
                          /\ new.id = sent + 1 /\ new.kind = kind
  BY <1>1, NewRequest
<1>3. calls' = calls \cup {new} /\ sent' = sent + 1 /\ sent < MaxCalls /\ latest' = latest
  BY <1>2 DEF Sends
<1>4. calls' \subseteq Call /\ sent' \in 0..MaxCalls
  BY <1>3, CallsFacts
<1>5. {latest, drawnBy, storedBy}' \subseteq 0..sent'
  BY <1>3, CallsFacts
<1>6. Outstanding("refresh")' = Outstanding("refresh")
  BY <1>2, <1>3 DEF Outstanding
<1>7. NumbersInv'
  <2>1. \A c \in calls' : c.id \in 1..sent'
    BY <1>2, <1>3, CallsFacts
  <2>2. ASSUME NEW c \in calls', NEW d \in calls', c.id = d.id
        PROVE  c = d
    BY <1>2, <1>3, <2>2, CallsFacts
  <2>3. QED
    BY <2>1, <2>2 DEF NumbersInv
<1>8. LatestInv'
  <2>1. new.id /= latest
    BY <1>2, CallsFacts
  <2>2. QED
    BY <1>3, <1>6, <2>1, CallsFacts DEF LatestInv
<1>9. QED
  BY <1>3, <1>4, <1>5, <1>6, <1>7, <1>8

\* A request is answered, or gives place to its successor.
LEMMA CallLeaves ==
    ASSUME IInv, NEW call \in calls, UNCHANGED <<cfg, sent, latest>>,
           \/ calls' = calls \ {call}
           \/ calls' = (calls \ {call}) \cup {[call EXCEPT !.served = TRUE]}
           \/ call.kind = "prune" /\ calls' = (calls \ {call}) \cup {[call EXCEPT !.kind = "act"]}
    PROVE  calls' \subseteq Call /\ sent' \in 0..MaxCalls /\ NumbersInv' /\ LatestInv'
<1>1. PICK next \in Call :
          /\ next.id = call.id /\ next.conf = call.conf
          /\ next.kind = call.kind \/ (call.kind = "prune" /\ next.kind = "act")
          /\ \/ calls' = calls \ {call}
             \/ calls' = (calls \ {call}) \cup {next}
  <2>1. call \in Call
    BY CallsFacts
  <2>2. CASE calls' = calls \ {call}
    BY <2>1, <2>2
  <2>3. CASE calls' = (calls \ {call}) \cup {[call EXCEPT !.served = TRUE]}
    BY <2>1, <2>3, CallChanges
  <2>4. CASE call.kind = "prune" /\ calls' = (calls \ {call}) \cup {[call EXCEPT !.kind = "act"]}
    BY <2>1, <2>4, CallChanges
  <2>5. QED
    BY <2>2, <2>3, <2>4
<1>2. calls' \subseteq Call /\ sent' \in 0..MaxCalls
  BY <1>1, CallsFacts
<1>3. \A c \in calls' : c = next \/ (c \in calls /\ c /= call)
  BY <1>1
<1>4. \A c \in calls' : c.id \in 1..sent'
  BY <1>1, <1>3, CallsFacts
<1>5. ASSUME NEW c \in calls', NEW d \in calls', c.id = d.id
      PROVE  c = d
  BY <1>1, <1>3, <1>5, CallsFacts
<1>6. \A c \in Outstanding("refresh")' : c.id <= latest'
  BY <1>1, <1>3, CallsFacts DEF Outstanding
<1>7. \A c \in calls' : c.id = latest' => c.kind = "refresh" /\ c.conf = cfg'
  <2>1. call.id = latest => call.kind = "refresh" /\ call.conf = cfg
    BY CallsFacts
  <2>2. next.id = latest => next.kind = "refresh" /\ next.conf = cfg
    BY <1>1, <2>1
  <2>3. QED
    BY <1>3, <2>2, CallsFacts
<1>8. QED
  BY <1>2, <1>4, <1>5, <1>6, <1>7 DEF NumbersInv, LatestInv

-----------------------------------------------------------------------------
(* The inductive invariant holds at first and is preserved *)

\* The page as it is loaded.
LEMMA InitInv == Init => IInv
<1> SUFFICES ASSUME Init
             PROVE  IInv
  OBVIOUS
<1>1. FirstConfig \in Config /\ FirstConfig.compatible /\ MaxCalls \in Nat
  BY ConfigsAssumption
<1>2. TypeOK
  <2>1. /\ cfg \in Config /\ bound \in BOOLEAN /\ stored \in Config
        /\ boxes \subseteq Rows \cup {All} /\ calls \subseteq Call
        /\ selector \in Filters \cup {Default, Waiting} /\ raced \in BOOLEAN
    BY <1>1 DEF Init
  <2>2. sent \in 0..MaxCalls /\ {latest, drawnBy, storedBy} \subseteq 0..sent
    BY <1>1 DEF Init
  <2>3. selected \in Seq(Rows)
    BY NothingSelected DEF Init
  <2>4. fields \in [Filterable -> Values \cup {Absent}] /\ ticks \subseteq Filterable
    BY <1>1 DEF Init, Config
  <2>5. content \in [state: States, conf: Config, links: SUBSET Sortable]
    BY <1>1 DEF Init, States
  <2>6. QED
    BY <2>1, <2>2, <2>3, <2>4, <2>5 DEF TypeOK
<1>3. FieldsFollowConfig
  BY DEF Init, FieldsFollowConfig
<1>4. NumbersInv /\ LatestInv
  BY DEF Init, NumbersInv, LatestInv, Outstanding
<1>5. TableShowsConfig
  BY <1>1 DEF Init, TableShowsConfig, Kept
<1>6. QED
  BY <1>2, <1>3, <1>4, <1>5 DEF IInv

\* What the filter fields become, whenever all of them are drawn anew.
LEMMA FieldsDrawn ==
    ASSUME cfg' \in Config, fields' = Container(cfg', TRUE), ticks' = cfg'.filtered
    PROVE  /\ fields' \in [Filterable -> Values \cup {Absent}] /\ ticks' \subseteq Filterable
           /\ FieldsFollowConfig'
<1>1. fields' = [c \in Filterable |->
                    IF c \in cfg'.filtered THEN cfg'.value[c] ELSE Absent]
  BY DEF Container
<1>2. cfg'.value \in [Filterable -> Values] /\ cfg'.filtered \subseteq Filterable
  BY DEF Config
<1>3. QED
  BY <1>1, <1>2 DEF FieldsFollowConfig

\* What the stored filters hold.
LEMMA StoredFilters ==
    ASSUME NEW f \in Filters
    PROVE  StoredConfig[f].conf \in Config /\ StoredConfig[f].selected \in Seq(Rows)
BY ConfigsAssumption

\* A widget edits the configuration and the table is refreshed, or the server
\* is asked for a stored filter.
LEMMA WidgetsInv == IInv /\ Widgets => IInv'
<1> SUFFICES ASSUME IInv, Widgets
             PROVE  IInv'
  OBVIOUS
<1>1. TypeOK /\ FieldsFollowConfig /\ cfg \in Config
  BY DEF IInv, TypeOK
\* What every widget that refreshes the table has in common.
<1>2. ASSUME NEW conf \in Config, Refreshes(conf), UNCHANGED <<selector, drawn, server>>,
             bound' \in BOOLEAN, raced' \in BOOLEAN, selected' \in Seq(Rows),
             fields' \in [Filterable -> Values \cup {Absent}], ticks' \subseteq Filterable,
             FieldsFollowConfig'
      PROVE  IInv'
  <2>1. /\ sent < MaxCalls /\ sent' = sent + 1 /\ latest' = sent + 1 /\ cfg' = conf
        /\ calls' = (calls \ {}) \cup {Numbered("refresh", cfg', Default)}
    BY <1>2 DEF Refreshes, Sends
  <2>2. /\ calls' \subseteq Call /\ sent' \in 0..MaxCalls
        /\ {latest, drawnBy, storedBy}' \subseteq 0..sent'
        /\ NumbersInv' /\ LatestInv' /\ TableShowsConfig'
    BY <1>2, <2>1, RefreshSent DEF drawn
  <2>3. TypeOK'
    BY <1>1, <1>2, <2>1, <2>2 DEF TypeOK, drawn, server
  <2>4. QED
    BY <1>2, <2>2, <2>3 DEF IInv
\* The filters stay as they are.
<1>3. ASSUME NEW conf \in Config, Refreshes(conf),
             conf.filtered = cfg.filtered, conf.value = cfg.value,
             UNCHANGED <<selected, bound, fields, ticks, selector, drawn, server, raced>>
      PROVE  IInv'
  <2>1. cfg' = conf
    BY <1>3 DEF Refreshes
  <2>2. FieldsFollowConfig'
    BY <1>1, <1>3, <2>1 DEF FieldsFollowConfig
  <2>3. /\ bound' \in BOOLEAN /\ raced' \in BOOLEAN /\ selected' \in Seq(Rows)
        /\ fields' \in [Filterable -> Values \cup {Absent}] /\ ticks' \subseteq Filterable
        /\ UNCHANGED <<selector, drawn, server>>
    BY <1>1, <1>3 DEF TypeOK
  <2>4. QED
    BY <1>2, <1>3, <2>2, <2>3
<1>4. ASSUME NEW c \in Sortable, HeaderClick(c)
      PROVE  IInv'
  <2>1. PICK conf : conf = IF bound
                 THEN [cfg EXCEPT !.sort = [d \in Sortable |->
                          IF d = c THEN Turned(cfg.sort[c]) ELSE "UNSORTED"]]
                 ELSE cfg
    OBVIOUS
  <2>2. conf \in Config
    BY <1>1, <2>1, ConfigChanges
  <2>3. conf.filtered = cfg.filtered /\ conf.value = cfg.value
    BY <1>1, <2>1 DEF Config
  <2>4. Refreshes(conf) /\ UNCHANGED <<selected, bound, fields, ticks, selector, drawn, server, raced>>
    BY <1>4, <2>1 DEF HeaderClick
  <2>5. QED
    BY <1>3, <2>2, <2>3, <2>4
<1>5. ASSUME NEW p \in 0..Cardinality(Rows), PageClick(p)
      PROVE  IInv'
  <2>1. PICK conf : conf = [cfg EXCEPT !.page = p]
    OBVIOUS
  <2>2. conf \in Config
    <3>1. p \in Nat
      BY RowsAssumption, FS_CardinalityType
    <3>2. QED
      BY <1>1, <2>1, <3>1, ConfigChanges
  <2>3. conf.filtered = cfg.filtered /\ conf.value = cfg.value
    BY <1>1, <2>1 DEF Config
  <2>4. Refreshes(conf) /\ UNCHANGED <<selected, bound, fields, ticks, selector, drawn, server, raced>>
    BY <1>5, <2>1 DEF PageClick
  <2>5. QED
    BY <1>3, <2>2, <2>3, <2>4
\* The fields are drawn anew.
<1>6. ASSUME NEW conf \in Config, Refreshes(conf), fields' = Container(cfg', TRUE),
             ticks' = cfg'.filtered, bound' \in BOOLEAN, raced' \in BOOLEAN,
             selected' \in Seq(Rows), UNCHANGED <<selector, drawn, server>>
      PROVE  IInv'
  <2>1. cfg' \in Config
    BY <1>6 DEF Refreshes
  <2>2. QED
    BY <1>2, <1>6, <2>1, FieldsDrawn
<1>7. ASSUME UNCHANGED <<selected, bound, selector, drawn, server, raced>>
      PROVE  /\ bound' \in BOOLEAN /\ raced' \in BOOLEAN /\ selected' \in Seq(Rows)
             /\ UNCHANGED <<selector, drawn, server>>
  BY <1>1, <1>7 DEF TypeOK
<1>8. ASSUME NEW chosen \in SUBSET Columns, ColumnsSelected(chosen)
      PROVE  IInv'
  <2>1. PICK conf : conf = [cfg EXCEPT !.displayed = chosen]
    OBVIOUS
  <2>2. conf \in Config
    BY <1>1, <2>1, ConfigChanges
  <2>3. /\ Refreshes(conf) /\ fields' = Container(cfg', TRUE) /\ ticks' = cfg'.filtered
        /\ UNCHANGED <<selected, bound, selector, drawn, server, raced>>
    BY <1>8, <2>1 DEF ColumnsSelected
  <2>4. QED
    BY <1>6, <1>7, <2>2, <2>3
<1>9. ASSUME NEW chosen \in SUBSET Filterable, FiltersSelected(chosen)
      PROVE  IInv'
  <2>1. PICK conf : conf = [cfg EXCEPT !.filtered = chosen, !.page = 0]
    OBVIOUS
  <2>2. conf \in Config /\ conf.filtered = chosen
    BY <1>1, <2>1, ConfigChanges DEF Config
  <2>3. /\ Refreshes(conf) /\ fields' = Container(cfg', TRUE) /\ ticks' = chosen
        /\ UNCHANGED <<selected, bound, selector, drawn, server, raced>>
    BY <1>9, <2>1 DEF FiltersSelected
  <2>4. ticks' = cfg'.filtered
    BY <2>2, <2>3 DEF Refreshes
  <2>5. QED
    BY <1>6, <1>7, <2>2, <2>3, <2>4
<1>10. ASSUME Reload
       PROVE  IInv'
  <2>1. PICK f \in Filters : f = selector /\ Install(f)
    BY <1>10 DEF Reload
  <2>2. PICK conf \in Config : conf = StoredConfig[f].conf /\ cfg' = conf
    BY <2>1, StoredFilters DEF Install
  <2>3. /\ Refreshes(conf) /\ fields' = Container(cfg', TRUE) /\ ticks' = cfg'.filtered
        /\ bound' \in BOOLEAN /\ raced' \in BOOLEAN /\ selected' \in Seq(Rows)
        /\ UNCHANGED <<selector, drawn, server>>
    BY <1>1, <1>10, <2>1, <2>2, StoredFilters DEF Reload, Refreshes, Install, TypeOK
  <2>4. QED
    BY <1>6, <2>2, <2>3
<1>11. ASSUME NEW c \in Filterable, FieldRemoved(c)
       PROVE  IInv'
  <2>1. PICK conf : conf = [cfg EXCEPT !.filtered = @ \ {c}, !.page = 0]
    OBVIOUS
  <2>2. conf \in Config /\ conf.filtered = cfg.filtered \ {c} /\ conf.value = cfg.value
    BY <1>1, <2>1, ConfigChanges DEF Config
  <2>3. /\ Refreshes(conf) /\ fields' = Container(cfg', FALSE) /\ ticks' = cfg'.filtered
        /\ cfg' = conf /\ UNCHANGED <<selected, bound, selector, drawn, server, raced>>
    BY <1>11, <2>1 DEF FieldRemoved, Refreshes
  <2>4. \A d \in Filterable : d \in conf.filtered => fields[d] = conf.value[d]
    BY <1>1, <2>2 DEF FieldsFollowConfig
  <2>5. fields' = [d \in Filterable |->
                      IF d \in conf.filtered THEN conf.value[d] ELSE Absent]
    BY <2>3, <2>4 DEF Container
  <2>6. FieldsFollowConfig'
    BY <2>3, <2>5 DEF FieldsFollowConfig
  <2>7. fields' \in [Filterable -> Values \cup {Absent}] /\ ticks' \subseteq Filterable
    BY <2>2, <2>3, <2>5 DEF Config
  <2>8. QED
    BY <1>2, <1>7, <2>2, <2>3, <2>6, <2>7
<1>12. ASSUME NEW c \in Filterable, NEW v \in Values, FieldEdited(c, v)
       PROVE  IInv'
  <2>1. PICK conf : conf = [cfg EXCEPT !.value[c] = v, !.page = 0]
    OBVIOUS
  <2>2. /\ conf \in Config /\ conf.filtered = cfg.filtered
        /\ conf.value = [cfg.value EXCEPT ![c] = v] /\ cfg.value \in [Filterable -> Values]
    BY <1>1, <2>1, ConfigChanges DEF Config
  <2>3. /\ Refreshes(conf) /\ fields' = [fields EXCEPT ![c] = v] /\ fields[c] /= Absent
        /\ cfg' = conf /\ ticks' = ticks
        /\ UNCHANGED <<selected, bound, selector, drawn, server, raced>>
    BY <1>12, <2>1 DEF FieldEdited, Refreshes
  <2>4. /\ fields = [d \in Filterable |->
                        IF d \in cfg.filtered THEN cfg.value[d] ELSE Absent]
        /\ ticks = cfg.filtered
    BY <1>1 DEF FieldsFollowConfig
  <2>5. c \in cfg.filtered
    BY <2>3, <2>4
  <2>6. fields' = [d \in Filterable |->
                      IF d \in conf.filtered THEN conf.value[d] ELSE Absent]
    BY <2>2, <2>3, <2>4, <2>5
  <2>7. FieldsFollowConfig'
    BY <2>2, <2>3, <2>4, <2>6 DEF FieldsFollowConfig
  <2>8. fields' \in [Filterable -> Values \cup {Absent}] /\ ticks' \subseteq Filterable
    BY <1>1, <2>3 DEF TypeOK
  <2>9. QED
    BY <1>2, <1>7, <2>2, <2>3, <2>7, <2>8
<1>13. ASSUME NEW f \in Filters, ChangeAsked(f)
       PROVE  IInv'
  <2>1. /\ Sends("change", cfg, f) /\ selector' = Waiting
        /\ UNCHANGED <<cfg, selected, bound, fields, ticks, drawn, server, raced>>
    BY <1>13 DEF ChangeAsked
  <2>2. UNCHANGED <<content, boxes, drawnBy, stored, storedBy>>
    BY <2>1 DEF drawn, server
  <2>3. /\ calls' \subseteq Call /\ sent' \in 0..MaxCalls
        /\ {latest, drawnBy, storedBy}' \subseteq 0..sent'
        /\ NumbersInv' /\ LatestInv' /\ latest' = latest
    BY <2>1, <2>2, OtherSent DEF Kinds
  <2>4. TypeOK'
    BY <1>1, <2>1, <2>2, <2>3 DEF TypeOK
  <2>5. FieldsFollowConfig'
    BY <1>1, <2>1 DEF FieldsFollowConfig
  <2>6. TableShowsConfig'
    BY <2>1, <2>2, <2>3, TableStays
  <2>7. QED
    BY <2>3, <2>4, <2>5, <2>6 DEF IInv
<1>14. QED
  BY <1>4, <1>5, <1>8, <1>9, <1>10, <1>11, <1>12, <1>13 DEF Widgets

\* What the boxes change is the selection and the boxes, not the table.
LEMMA RowBoxesInv == IInv /\ RowBoxes => IInv'
<1> SUFFICES ASSUME IInv, RowBoxes
             PROVE  IInv'
  OBVIOUS
<1>1. TypeOK /\ FieldsFollowConfig /\ NumbersInv /\ LatestInv
  BY DEF IInv
\* What every box has in common.
<1>2. ASSUME UNCHANGED <<cfg, bound, fields, ticks, selector, content, drawnBy, server>>,
             calls' \subseteq Call, sent' \in 0..MaxCalls, latest' = latest,
             {latest, drawnBy, storedBy}' \subseteq 0..sent', NumbersInv', LatestInv',
             selected' \in Seq(Rows), boxes' \subseteq Rows \cup {All}, raced' \in BOOLEAN
      PROVE  IInv'
  <2>1. TypeOK'
    BY <1>1, <1>2 DEF TypeOK, server
  <2>2. FieldsFollowConfig'
    BY <1>1, <1>2 DEF FieldsFollowConfig
  <2>3. TableShowsConfig'
    BY <1>2, TableStays
  <2>4. QED
    BY <1>2, <2>1, <2>2, <2>3 DEF IInv
<1>3. ASSUME UNCHANGED <<cfg, drawnBy, requests, server>>
      PROVE  /\ calls' \subseteq Call /\ sent' \in 0..MaxCalls /\ latest' = latest
             /\ {latest, drawnBy, storedBy}' \subseteq 0..sent' /\ NumbersInv' /\ LatestInv'
  <2>1. UNCHANGED <<cfg, calls, sent, latest, drawnBy, stored, storedBy>>
    BY <1>3 DEF requests, server
  <2>2. NumbersInv'
    BY <1>1, <2>1 DEF NumbersInv
  <2>3. LatestInv'
    BY <1>1, <2>1 DEF LatestInv, Outstanding
  <2>4. QED
    BY <2>1, <2>2, <2>3, CallsFacts
<1>4. Races => raced' \in BOOLEAN
  BY <1>1 DEF Races, TypeOK
<1>5. selected \in Seq(Rows) /\ boxes \subseteq Rows \cup {All} /\ raced \in BOOLEAN
  BY <1>1 DEF TypeOK
<1>6. CASE CheckAll
  <2>1. Sends("ids", cfg, Default) /\ selected' = <<>> /\ boxes' = BoxesDrawn \cup {All}
        /\ Races /\ UNCHANGED <<cfg, bound, fields, ticks, selector, content, drawnBy, server>>
    BY <1>6 DEF CheckAll
  <2>2. selected' \in Seq(Rows) /\ boxes' \subseteq Rows \cup {All}
    BY <2>1, NothingSelected, DrawnRows
  <2>3. /\ calls' \subseteq Call /\ sent' \in 0..MaxCalls /\ latest' = latest
        /\ {latest, drawnBy, storedBy}' \subseteq 0..sent' /\ NumbersInv' /\ LatestInv'
    BY <2>1, OtherSent DEF Kinds, server
  <2>4. QED
    BY <1>2, <1>4, <2>1, <2>2, <2>3
<1>7. CASE UncheckAll
  <2>1. selected' = <<>> /\ boxes' = {} /\ Races
        /\ UNCHANGED <<cfg, bound, fields, ticks, selector, content, drawnBy, requests, server>>
    BY <1>7 DEF UncheckAll
  <2>2. selected' \in Seq(Rows) /\ boxes' \subseteq Rows \cup {All}
    BY <2>1, NothingSelected
  <2>3. QED
    BY <1>2, <1>3, <1>4, <2>1, <2>2
<1>8. CASE Trigger
  <2>1. /\ Sends("prune", cfg, Default)
        /\ UNCHANGED <<cfg, bound, fields, ticks, selector, content, drawnBy, server>>
        /\ UNCHANGED <<selected, boxes, raced>>
    BY <1>8 DEF Trigger, client, drawn
  <2>2. /\ calls' \subseteq Call /\ sent' \in 0..MaxCalls /\ latest' = latest
        /\ {latest, drawnBy, storedBy}' \subseteq 0..sent' /\ NumbersInv' /\ LatestInv'
    BY <2>1, OtherSent DEF Kinds, server
  <2>3. QED
    BY <1>2, <1>5, <2>1, <2>2
<1>9. ASSUME NEW r \in Rows, Check(r)
      PROVE  IInv'
  <2>1. selected' = Append(selected, r) /\ boxes' = boxes \cup {r} /\ Races
        /\ UNCHANGED <<cfg, bound, fields, ticks, selector, content, drawnBy, requests, server>>
    BY <1>9 DEF Check
  <2>2. selected' \in Seq(Rows) /\ boxes' \subseteq Rows \cup {All}
    BY <1>5, <2>1, SelectedOnce
  <2>3. QED
    BY <1>2, <1>3, <1>4, <2>1, <2>2
<1>10. ASSUME NEW r \in Rows, Uncheck(r)
       PROVE  IInv'
  <2>1. selected' = RemoveFirst(selected, r) /\ boxes' = boxes \ {r, All} /\ Races
        /\ UNCHANGED <<cfg, bound, fields, ticks, selector, content, drawnBy, requests, server>>
    BY <1>10 DEF Uncheck
  <2>2. selected' \in Seq(Rows) /\ boxes' \subseteq Rows \cup {All}
    BY <1>5, <2>1, RemovedOnce
  <2>3. QED
    BY <1>2, <1>3, <1>4, <2>1, <2>2
<1>11. QED
  BY <1>6, <1>7, <1>8, <1>9, <1>10 DEF RowBoxes

\* What the server keeps is a configuration.
LEMMA KeptConfig ==
    ASSUME NEW conf \in Config
    PROVE  Kept(conf) \in Config
BY ConfigsAssumption DEF Kept

\* The server processes a refresh or a change to a stored filter: what it
\* stores for the refresh sent last is the current configuration.
LEMMA ServeInv ==
    ASSUME IInv, NEW call \in calls, Serve(call) \/ ServeChange(call)
    PROVE  IInv'
<1>1. TypeOK /\ FieldsFollowConfig /\ call \in Call
  BY DEF IInv, TypeOK
<1>2. /\ calls' = (calls \ {call}) \cup {[call EXCEPT !.served = TRUE]}
      /\ storedBy' = call.id
      /\ UNCHANGED <<cfg, selected, bound, fields, ticks, selector, content, boxes, drawnBy>>
      /\ UNCHANGED <<sent, latest, raced>>
  BY DEF Serve, ServeChange, ServedNow, client, drawn
<1>3. calls' \subseteq Call /\ sent' \in 0..MaxCalls /\ NumbersInv' /\ LatestInv'
  BY <1>2, CallLeaves
<1>4. call.id = latest => call.kind = "refresh" /\ call.conf = cfg
  BY CallsFacts
<1>5. stored' \in Config /\ (call.id = latest => stored' = Kept(cfg))
  <2>1. CASE Serve(call)
    <3>1. stored' = Kept(call.conf)
      BY <2>1 DEF Serve
    <3>2. call.conf \in Config
      BY <1>1, CallChanges
    <3>3. QED
      BY <1>4, <3>1, <3>2, KeptConfig
  <2>2. CASE ServeChange(call)
    <3>1. call.kind = "change" /\ stored' = StoredConfig[call.filter].conf
      BY <2>2 DEF ServeChange
    <3>2. call.filter \in Filters
      BY <1>1, <3>1, CallChanges
    <3>3. QED
      BY <1>4, <3>1, <3>2, StoredFilters
  <2>3. QED
    BY <2>1, <2>2
<1>6. TypeOK'
  BY <1>1, <1>2, <1>3, <1>5, CallsFacts DEF TypeOK
<1>7. FieldsFollowConfig'
  BY <1>1, <1>2 DEF FieldsFollowConfig
<1>8. TableShowsConfig'
  <2>1. drawnBy = latest /\ content.state = "table" => content.conf = cfg /\ bound
    BY DEF IInv, TableShowsConfig
  <2>2. QED
    BY <1>2, <1>5, <2>1 DEF TableShowsConfig
<1>9. QED
  BY <1>3, <1>6, <1>7, <1>8 DEF IInv

\* The table is drawn anew, or something takes its place.
LEMMA TableDrawnInv ==
    ASSUME IInv, NEW call \in calls,
           Refreshed(call) \/ RefreshRefused(call) \/ RefreshFailed(call)
    PROVE  IInv'
<1>1. TypeOK /\ FieldsFollowConfig /\ call \in Call /\ selected \in Seq(Rows)
  BY DEF IInv, TypeOK
<1>2. /\ call.kind = "refresh" /\ calls' = calls \ {call} /\ drawnBy' = call.id
      /\ UNCHANGED <<cfg, selected, fields, ticks, selector, sent, latest>>
  BY DEF Refreshed, RefreshRefused, RefreshFailed, TableGone, client
<1>3. calls' \subseteq Call /\ sent' \in 0..MaxCalls /\ NumbersInv' /\ LatestInv'
  BY <1>2, CallLeaves
<1>4. /\ call.id = latest => call.conf = cfg
      /\ call.id \in 1..sent /\ call.id <= latest
  BY <1>2, CallsFacts DEF Outstanding
<1>5. FieldsFollowConfig'
  BY <1>1, <1>2 DEF FieldsFollowConfig
<1>6. storedBy = latest => stored = Kept(cfg)
  BY DEF IInv, TableShowsConfig
<1>7. CASE Refreshed(call)
  <2>1. /\ bound' = TRUE /\ raced' = (raced \/ Outstanding("ids") /= {})
        /\ content' = [state |-> "table", conf |-> call.conf,
                       links |-> Sortable \cap call.conf.displayed \cap cfg.displayed]
        /\ boxes' = RowsShown(call.conf) \cap ToSet(selected)
        /\ UNCHANGED <<stored, storedBy>>
    BY <1>7 DEF Refreshed, server
  <2>2. content' \in [state: States, conf: Config, links: SUBSET Sortable]
    BY <1>1, <2>1, CallChanges DEF States
  <2>3. boxes' \subseteq Rows \cup {All} /\ raced' \in BOOLEAN
    <3>1. ToSet(selected) \subseteq Rows
      BY <1>1, SelectionFacts
    <3>2. raced \in BOOLEAN
      BY <1>1 DEF TypeOK
    <3>3. QED
      BY <2>1, <3>1, <3>2
  <2>4. {latest, drawnBy, storedBy}' \subseteq 0..sent'
    BY <1>2, <1>4, <2>1, CallsFacts
  <2>5. TypeOK'
    BY <1>1, <1>2, <1>3, <2>1, <2>2, <2>3, <2>4 DEF TypeOK
  <2>6. TableShowsConfig'
    BY <1>2, <1>4, <1>6, <2>1 DEF TableShowsConfig
  <2>7. QED
    BY <1>3, <1>5, <2>5, <2>6 DEF IInv
<1>8. CASE RefreshRefused(call) \/ RefreshFailed(call)
  <2>1. PICK state \in States \ {"table"} : TableGone(call, state)
    BY <1>8 DEF RefreshRefused, RefreshFailed, States
  <2>2. /\ content' = [content EXCEPT !.state = state, !.links = {}]
        /\ boxes' = {} /\ bound' = bound /\ raced' = raced
    BY <2>1 DEF TableGone, client
  <2>3. content \in [state: States, conf: Config, links: SUBSET Sortable]
    BY <1>1 DEF TypeOK
  <2>4. /\ content' \in [state: States, conf: Config, links: SUBSET Sortable]
        /\ content'.state /= "table"
    BY <2>1, <2>2, <2>3
  <2>5. \/ stored' = stored /\ storedBy' = storedBy
        \/ stored' = call.conf /\ storedBy' = 0
    BY <1>8 DEF RefreshRefused, RefreshFailed, server
  <2>6. stored' \in Config /\ storedBy' \in 0..sent
    <3>1. call.conf \in Config /\ stored \in Config
      BY <1>1, CallChanges DEF TypeOK
    <3>2. storedBy \in 0..sent /\ 0 \in 0..sent
      BY CallsFacts
    <3>3. CASE stored' = stored /\ storedBy' = storedBy
      BY <3>1, <3>2, <3>3
    <3>4. CASE stored' = call.conf /\ storedBy' = 0
      BY <3>1, <3>2, <3>4
    <3>5. QED
      BY <2>5, <3>3, <3>4
  <2>7. {latest, drawnBy, storedBy}' \subseteq 0..sent'
    BY <1>2, <1>4, <2>6, CallsFacts
  <2>8. TypeOK'
    BY <1>1, <1>2, <1>3, <2>2, <2>4, <2>6, <2>7 DEF TypeOK
  <2>9. storedBy' = latest' => stored' = Kept(cfg')
    <3>1. latest /= 0
      BY <1>4, CallsFacts
    <3>2. QED
      BY <1>2, <1>6, <2>5, <3>1
  <2>10. TableShowsConfig'
    BY <2>4, <2>9 DEF TableShowsConfig
  <2>11. QED
    BY <1>3, <1>5, <2>8, <2>10 DEF IInv
<1>9. QED
  BY <1>7, <1>8

\* The requests for ids are answered, or they or a change are lost.
LEMMA IdsAnsweredInv ==
    ASSUME IInv, NEW call \in calls,
           IdsReceived(call) \/ IdsForAction(call) \/ Lost(call)
    PROVE  IInv'
<1>1. /\ TypeOK /\ FieldsFollowConfig /\ call \in Call
      /\ selected \in Seq(Rows) /\ raced \in BOOLEAN
  BY DEF IInv, TypeOK
<1>2. /\ UNCHANGED <<sent, latest>>
      /\ \/ calls' = calls \ {call}
         \/ call.kind = "prune" /\ calls' = (calls \ {call}) \cup {[call EXCEPT !.kind = "act"]}
      /\ UNCHANGED <<cfg, bound, fields, ticks, selector, content, boxes, drawnBy, stored, storedBy>>
  BY DEF IdsReceived, IdsForAction, Lost, client, drawn, server
<1>3. calls' \subseteq Call /\ sent' \in 0..MaxCalls /\ NumbersInv' /\ LatestInv'
  BY <1>2, CallLeaves
<1>4. TableShowsConfig'
  BY <1>2, TableStays DEF server
<1>5. FieldsFollowConfig'
  BY <1>1, <1>2 DEF FieldsFollowConfig
<1>6. selected' \in Seq(Rows) /\ raced' \in BOOLEAN
  <2>1. CASE IdsReceived(call)
    <3>1. PICK more : more = InOrder(Matching(call.conf))
      OBVIOUS
    <3>2. more \in Seq(Matching(call.conf))
      BY <3>1, MatchingRows, InOrderFacts
    <3>3. more \in Seq(Rows)
      <4>1. PICK M \in SUBSET Rows : M = Matching(call.conf)
        BY MatchingRows
      <4>2. QED
        BY <3>2, <4>1
    <3>4. selected' = selected \o more /\ raced' = raced
      BY <2>1, <3>1 DEF IdsReceived
    <3>5. selected' \in Seq(Rows)
      BY <1>1, <3>3, <3>4, ConcatProperties
    <3>6. QED
      BY <1>1, <3>4, <3>5
  <2>2. CASE IdsForAction(call)
    <3>1. /\ selected' = Pruned(selected, Matching(call.conf))
          /\ raced' = (raced \/ call.conf /= cfg)
      BY <2>2 DEF IdsForAction
    <3>2. selected' \in Seq(Rows)
      BY <1>1, <3>1, PrunedFacts
    <3>3. QED
      BY <1>1, <3>1, <3>2
  <2>3. CASE Lost(call)
    <3>1. selected' = selected /\ raced' = (raced \/ call.kind = "ids")
      BY <2>3 DEF Lost, client
    <3>2. QED
      BY <1>1, <3>1
  <2>4. QED
    BY <2>1, <2>2, <2>3
<1>7. TypeOK'
  BY <1>1, <1>2, <1>3, <1>6 DEF TypeOK
<1>8. QED
  BY <1>3, <1>4, <1>5, <1>7 DEF IInv

\* A row action has answered.
LEMMA ActionDoneInv ==
    ASSUME IInv, NEW call \in calls, ActionDone(call)
    PROVE  IInv'
<1>1. TypeOK /\ FieldsFollowConfig
  BY DEF IInv
<1>2. /\ sent < MaxCalls /\ sent' = sent + 1 /\ latest' = sent + 1
      /\ calls' = (calls \ {call}) \cup {Numbered("refresh", cfg, Default)}
      /\ UNCHANGED <<cfg, selected, bound, fields, ticks, selector, content, boxes, drawnBy>>
      /\ UNCHANGED <<server, raced>>
  BY DEF ActionDone, client, drawn
<1>3. calls' = (calls \ {call}) \cup {Numbered("refresh", cfg', Default)}
  BY <1>2
<1>4. cfg' \in Config
  BY <1>1, <1>2 DEF TypeOK
<1>5. /\ calls' \subseteq Call /\ sent' \in 0..MaxCalls
      /\ {latest, drawnBy, storedBy}' \subseteq 0..sent'
      /\ NumbersInv' /\ LatestInv' /\ TableShowsConfig'
  BY <1>2, <1>3, <1>4, RefreshSent
<1>6. TypeOK'
  BY <1>1, <1>2, <1>5 DEF TypeOK, server
<1>7. FieldsFollowConfig'
  BY <1>1, <1>2 DEF FieldsFollowConfig
<1>8. QED
  BY <1>5, <1>6, <1>7 DEF IInv

\* A stored filter is installed.
LEMMA ChangeAnsweredInv ==
    ASSUME IInv, NEW call \in calls, ChangeAnswered(call)
    PROVE  IInv'
<1>1. TypeOK /\ raced \in BOOLEAN
  BY DEF IInv, TypeOK
<1>2. PICK f \in Filters : f = call.filter
  BY CallsFacts, CallChanges DEF ChangeAnswered
<1>3. /\ cfg' = StoredConfig[f].conf /\ selected' = StoredConfig[f].selected
      /\ bound' = FALSE /\ fields' = Container(cfg', TRUE) /\ ticks' = cfg'.filtered
      /\ raced' = (raced \/ Outstanding("ids") /= {}) /\ selector' = f
      /\ sent < MaxCalls /\ sent' = sent + 1 /\ latest' = sent + 1
      /\ calls' = (calls \ {call}) \cup {Numbered("refresh", cfg', Default)}
      /\ UNCHANGED <<content, boxes, drawnBy, server>>
  BY <1>2 DEF ChangeAnswered, Install, drawn
<1>4. cfg' \in Config /\ selected' \in Seq(Rows)
  BY <1>3, StoredFilters
<1>5. /\ calls' \subseteq Call /\ sent' \in 0..MaxCalls
      /\ {latest, drawnBy, storedBy}' \subseteq 0..sent'
      /\ NumbersInv' /\ LatestInv' /\ TableShowsConfig'
  BY <1>3, <1>4, RefreshSent
<1>6. /\ fields' \in [Filterable -> Values \cup {Absent}] /\ ticks' \subseteq Filterable
      /\ FieldsFollowConfig'
  BY <1>3, <1>4, FieldsDrawn
<1>7. TypeOK'
  BY <1>1, <1>3, <1>4, <1>5, <1>6 DEF TypeOK, server
<1>8. QED
  BY <1>5, <1>6, <1>7 DEF IInv

\* Every step preserves the invariant.
LEMMA NextInv == IInv /\ [Next]_vars => IInv'
<1> SUFFICES ASSUME IInv, [Next]_vars
             PROVE  IInv'
  OBVIOUS
<1>1. CASE Answers
  <2>1. PICK call \in calls :
            \/ Serve(call) \/ ServeChange(call) \/ ChangeAnswered(call)
            \/ Refreshed(call) \/ RefreshRefused(call) \/ RefreshFailed(call)
            \/ IdsReceived(call) \/ IdsForAction(call) \/ ActionDone(call) \/ Lost(call)
    BY <1>1 DEF Answers
  <2>2. QED
    BY <2>1, ServeInv, TableDrawnInv, IdsAnsweredInv, ActionDoneInv, ChangeAnsweredInv
<1>2. CASE UNCHANGED vars
  <2>1. /\ UNCHANGED <<cfg, selected, bound, fields, ticks, selector, content, boxes, drawnBy>>
        /\ UNCHANGED <<calls, sent, latest, stored, storedBy, raced>>
    BY <1>2 DEF vars, client, drawn, requests, server
  <2>2. TypeOK' /\ FieldsFollowConfig' /\ NumbersInv' /\ TableShowsConfig'
    BY <2>1 DEF IInv, TypeOK, FieldsFollowConfig, NumbersInv, TableShowsConfig
  <2>3. LatestInv'
    BY <2>1 DEF IInv, LatestInv, Outstanding
  <2>4. QED
    BY <2>2, <2>3 DEF IInv
<1>3. QED
  BY <1>1, <1>2, WidgetsInv, RowBoxesInv DEF Next

-----------------------------------------------------------------------------
(* The theorems *)

\* Whatever the user does to a table and in whatever order the requests are
\* processed and answered (filtered_tableview, dynamic_tableview and main.js),
\* the page is in a state of the inductive invariant.
THEOREM InductiveInvariant == Spec => []IInv
BY InitInv, NextInv, PTL DEF Spec

\* The configuration, what is drawn from it, the selection and the requests
\* have the types the code gives them.
THEOREM TypeCorrect == Spec => []TypeOK
<1>1. IInv => TypeOK
  BY DEF IInv
<1>2. QED
  BY <1>1, InductiveInvariant, PTL

\* The filter fields and the ticks of the filter selector always show the
\* current configuration, also after another object was installed under them.
THEOREM WidgetsFollow == Spec => []FieldsFollowConfig
<1>1. IInv => FieldsFollowConfig
  BY DEF IInv
<1>2. QED
  BY <1>1, InductiveInvariant, PTL

\* However the answers come, a table drawn last by the refresh sent last
\* shows the current configuration and its headers edit it; a default filter
\* stored by this refresh is the current configuration, or the initial one.
THEOREM TableShows == Spec => []TableShowsConfig
<1>1. IInv => TableShowsConfig
  BY DEF IInv
<1>2. QED
  BY <1>1, InductiveInvariant, PTL

-----------------------------------------------------------------------------
(* The boxes *)

\* One request is added to those under way.
LEMMA OneSent ==
    ASSUME NEW kind, NEW conf, NEW f, Sends(kind, conf, f)
    PROVE  \E new : calls' = calls \cup {new} /\ new.kind = kind /\ new.conf = conf
<1>1. PICK new : new = Numbered(kind, conf, f)
  OBVIOUS
<1>2. calls' = calls \cup {new}
  BY <1>1 DEF Sends
<1>3. new.kind = kind /\ new.conf = conf
  BY <1>1 DEF Numbered
<1>4. QED
  BY <1>2, <1>3

\* A widget asks for a refresh, and for nothing else.
LEMMA RefreshAsked ==
    ASSUME NEW conf, Refreshes(conf)
    PROVE  Outstanding("refresh")' /= {} /\ Outstanding("ids")' = Outstanding("ids")
<1>1. PICK new : /\ calls' = calls \cup {new} /\ new.kind = "refresh"
  BY OneSent DEF Refreshes
<1>2. new \in Outstanding("refresh")'
  BY <1>1 DEF Outstanding
<1>3. Outstanding("ids")' = Outstanding("ids")
  BY <1>1 DEF Outstanding
<1>4. QED
  BY <1>2, <1>3

\* A step that touches neither the boxes nor the selection, and leaves the
\* ids that are asked for: either a refresh is under way after it, or the
\* same refreshes and the same configuration as before.
LEMMA BoxesStay ==
    ASSUME BoxesInv, UNCHANGED <<boxes, content, selected, bound>>, ~raced' => ~raced,
           Outstanding("ids")' = Outstanding("ids"),
           \/ Outstanding("refresh")' /= {}
           \/ /\ Outstanding("refresh")' = Outstanding("refresh")
              /\ UNCHANGED <<cfg, drawnBy, latest>>
    PROVE  BoxesInv'
<1>1. BoxesDrawn' = BoxesDrawn
  BY DEF BoxesDrawn
<1>2. BoxesOfRows'
  BY <1>1 DEF BoxesInv, BoxesOfRows
<1>3. ASSUME ~raced'
      PROVE  IsInjective(selected)' /\ IdsInv' /\ SelectedHasBox' /\ BoxIsSelected'
  <2>1. ~raced /\ IsInjective(selected) /\ IdsInv /\ SelectedHasBox /\ BoxIsSelected
    BY <1>3 DEF BoxesInv
  <2>2. IdsInv'
    BY <1>1, <2>1 DEF IdsInv
  <2>3. SelectedHasBox'
    BY <1>1, <2>1 DEF SelectedHasBox
  <2>4. BoxIsSelected'
    BY <2>1 DEF BoxIsSelected
  <2>5. QED
    BY <2>1, <2>2, <2>3, <2>4
<1>4. QED
  BY <1>2, <1>3 DEF BoxesInv

\* Another object brings its selection, and the table is to be drawn again.
LEMMA Installed ==
    ASSUME BoxesInv, NEW f \in Filters, Install(f), IsInjective(StoredConfig[f].selected),
           UNCHANGED <<boxes, content>>,
           Outstanding("refresh")' /= {}, Outstanding("ids")' = Outstanding("ids")
    PROVE  BoxesInv'
<1>1. /\ selected' = StoredConfig[f].selected /\ bound' = FALSE
      /\ raced' = (raced \/ Outstanding("ids") /= {})
  BY DEF Install
<1>2. BoxesOfRows'
  BY DEF BoxesInv, BoxesOfRows, BoxesDrawn
<1>3. IsInjective(selected)' /\ SelectedHasBox' /\ BoxIsSelected'
  BY <1>1 DEF SelectedHasBox, BoxIsSelected
<1>4. ~raced' => IdsInv'
  BY <1>1 DEF IdsInv
<1>5. QED
  BY <1>2, <1>3, <1>4 DEF BoxesInv

\* The widgets do not touch the boxes.
LEMMA WidgetsBoxes ==
    ASSUME IInv, BoxesInv, Widgets, \A f \in Filters : IsInjective(StoredConfig[f].selected)
    PROVE  BoxesInv'
<1>1. ASSUME NEW conf, Refreshes(conf), UNCHANGED <<selected, bound, drawn, raced>>
      PROVE  BoxesInv'
  <2>1. UNCHANGED <<boxes, content, selected, bound>> /\ raced' = raced
    BY <1>1 DEF drawn
  <2>2. Outstanding("refresh")' /= {} /\ Outstanding("ids")' = Outstanding("ids")
    BY <1>1, RefreshAsked
  <2>3. QED
    BY <2>1, <2>2, BoxesStay
<1>2. ASSUME NEW c \in Sortable, HeaderClick(c)
      PROVE  BoxesInv'
  BY <1>1, <1>2 DEF HeaderClick
<1>3. ASSUME NEW chosen \in SUBSET Columns, ColumnsSelected(chosen)
      PROVE  BoxesInv'
  BY <1>1, <1>3 DEF ColumnsSelected
<1>4. ASSUME NEW chosen \in SUBSET Filterable, FiltersSelected(chosen)
      PROVE  BoxesInv'
  BY <1>1, <1>4 DEF FiltersSelected
<1>5. ASSUME NEW c \in Filterable, FieldRemoved(c)
      PROVE  BoxesInv'
  BY <1>1, <1>5 DEF FieldRemoved
<1>6. ASSUME NEW c \in Filterable, NEW v \in Values, FieldEdited(c, v)
      PROVE  BoxesInv'
  BY <1>1, <1>6 DEF FieldEdited
<1>7. ASSUME NEW p \in 0..Cardinality(Rows), PageClick(p)
      PROVE  BoxesInv'
  BY <1>1, <1>7 DEF PageClick
<1>8. CASE Reload
  <2>1. PICK f \in Filters : Install(f) /\ Sends("refresh", cfg', Default)
    BY <1>8 DEF Reload
  <2>2. UNCHANGED <<boxes, content>>
    BY <1>8 DEF Reload, drawn
  <2>3. Outstanding("refresh")' /= {} /\ Outstanding("ids")' = Outstanding("ids")
    BY <2>1, RefreshAsked DEF Refreshes
  <2>4. QED
    BY <2>1, <2>2, <2>3, Installed
<1>9. ASSUME NEW f \in Filters, ChangeAsked(f)
      PROVE  BoxesInv'
  <2>1. /\ Sends("change", cfg, f)
        /\ UNCHANGED <<boxes, content, selected, bound, raced, cfg, drawnBy>>
    BY <1>9 DEF ChangeAsked, drawn
  <2>2. PICK new : calls' = calls \cup {new} /\ new.kind = "change"
    BY <2>1, OneSent
  <2>3. /\ Outstanding("ids")' = Outstanding("ids")
        /\ Outstanding("refresh")' = Outstanding("refresh")
    BY <2>2 DEF Outstanding
  <2>4. latest' = latest
    BY <2>1 DEF Sends
  <2>5. QED
    BY <2>1, <2>3, <2>4, BoxesStay
<1>10. QED
  BY <1>2, <1>3, <1>4, <1>5, <1>6, <1>7, <1>8, <1>9 DEF Widgets

\* A click on a box changes the box and the selection together.
LEMMA RowBoxesBoxes ==
    ASSUME IInv, BoxesInv, RowBoxes
    PROVE  BoxesInv'
<1>1. selected \in Seq(Rows)
  BY DEF IInv, TypeOK
<1>2. BoxesOfRows
  BY DEF BoxesInv
<1>3. content' = content => BoxesDrawn' = BoxesDrawn
  BY DEF BoxesDrawn
\* A click that does not race.
<1>4. ASSUME Races, ~raced'
      PROVE  /\ ~raced /\ bound /\ Outstanding("ids") = {} /\ IsInjective(selected)
             /\ BoxesDrawn \cap ToSet(selected) \subseteq boxes /\ BoxIsSelected
  <2>1. ~raced /\ bound /\ Outstanding("ids") = {}
    BY <1>4 DEF Races
  <2>2. QED
    BY <2>1 DEF BoxesInv, SelectedHasBox
<1>5. CASE CheckAll
  <2>1. /\ Races /\ boxes' = BoxesDrawn \cup {All} /\ selected' = <<>>
        /\ UNCHANGED <<cfg, content, bound>>
    BY <1>5 DEF CheckAll
  <2>2. PICK new : calls' = calls \cup {new} /\ new.kind = "ids" /\ new.conf = cfg
    BY <1>5, OneSent DEF CheckAll
  <2>3. /\ Outstanding("ids")' = Outstanding("ids") \cup {new}
        /\ Outstanding("refresh")' = Outstanding("refresh")
    BY <2>2 DEF Outstanding
  <2>4. BoxesOfRows'
    BY <1>3, <2>1 DEF BoxesOfRows
  <2>5. IsInjective(selected') /\ ToSet(selected') = {}
    BY <2>1, NothingSelected
  <2>6. ~raced' => IdsInv'
    <3>1. SUFFICES ASSUME ~raced'
                   PROVE  IdsInv'
      OBVIOUS
    <3>2. Outstanding("ids")' = {new}
      BY <1>4, <2>1, <2>3, <3>1
    <3>3. BoxesDrawn' \subseteq boxes'
      BY <1>3, <2>1
    <3>4. QED
      BY <2>1, <2>2, <3>2, <3>3 DEF IdsInv
  <2>7. SelectedHasBox'
    BY <2>5 DEF SelectedHasBox
  <2>8. BoxIsSelected'
    BY <2>3 DEF BoxIsSelected
  <2>9. QED
    BY <2>4, <2>5, <2>6, <2>7, <2>8 DEF BoxesInv
<1>6. ASSUME UNCHANGED calls
      PROVE  /\ Outstanding("ids")' = Outstanding("ids")
             /\ Outstanding("refresh")' = Outstanding("refresh")
  BY <1>6 DEF Outstanding
<1>7. CASE UncheckAll
  <2>1. /\ Races /\ boxes' = {} /\ selected' = <<>>
        /\ UNCHANGED <<cfg, content, bound, calls, drawnBy, latest>>
    BY <1>7 DEF UncheckAll, requests
  <2>2. BoxesOfRows' /\ BoxIsSelected'
    BY <2>1 DEF BoxesOfRows, BoxIsSelected
  <2>3. IsInjective(selected') /\ ToSet(selected') = {}
    BY <2>1, NothingSelected
  <2>4. SelectedHasBox'
    BY <2>3 DEF SelectedHasBox
  <2>5. ~raced' => IdsInv'
    BY <1>4, <1>6, <2>1 DEF IdsInv
  <2>6. QED
    BY <2>2, <2>3, <2>4, <2>5 DEF BoxesInv
<1>8. CASE Trigger
  <2>1. UNCHANGED <<cfg, boxes, content, selected, bound, drawnBy, latest, raced>>
    BY <1>8 DEF Trigger, Sends, client, drawn
  <2>2. PICK new : calls' = calls \cup {new} /\ new.kind = "prune"
    BY <1>8, OneSent DEF Trigger
  <2>3. /\ Outstanding("ids")' = Outstanding("ids")
        /\ Outstanding("refresh")' = Outstanding("refresh")
    BY <2>2 DEF Outstanding
  <2>4. QED
    BY <2>1, <2>3, BoxesStay
<1>9. ASSUME NEW r \in Rows, Check(r)
      PROVE  BoxesInv'
  <2>1. /\ r \in BoxesDrawn /\ r \notin boxes /\ Races
        /\ boxes' = boxes \cup {r} /\ selected' = Append(selected, r)
        /\ UNCHANGED <<cfg, content, bound, calls, drawnBy, latest>>
    BY <1>9 DEF Check, requests
  <2>2. BoxesOfRows'
    BY <1>2, <1>3, <2>1 DEF BoxesOfRows
  <2>3. ToSet(selected') = ToSet(selected) \cup {r}
    BY <1>1, <2>1, SelectedOnce
  <2>4. SUFFICES ASSUME ~raced'
                 PROVE  IsInjective(selected') /\ IdsInv' /\ SelectedHasBox' /\ BoxIsSelected'
    BY <2>2 DEF BoxesInv
  <2>5. /\ Outstanding("ids") = {} /\ IsInjective(selected) /\ BoxIsSelected
        /\ BoxesDrawn \cap ToSet(selected) \subseteq boxes
    BY <1>4, <2>1, <2>4
  <2>6. IsInjective(selected')
    <3>1. r \notin ToSet(selected)
      BY <2>1, <2>5
    <3>2. QED
      BY <1>1, <2>1, <2>5, <3>1, SelectedOnce
  <2>7. IdsInv'
    BY <1>6, <2>1, <2>5 DEF IdsInv
  <2>8. SelectedHasBox'
    BY <1>3, <2>1, <2>3, <2>5 DEF SelectedHasBox
  <2>9. BoxIsSelected'
    BY <1>6, <2>1, <2>3, <2>5 DEF BoxIsSelected
  <2>10. QED
    BY <2>6, <2>7, <2>8, <2>9
<1>10. ASSUME NEW r \in Rows, Uncheck(r)
       PROVE  BoxesInv'
  <2>1. /\ Races /\ boxes' = boxes \ {r, All} /\ selected' = RemoveFirst(selected, r)
        /\ UNCHANGED <<cfg, content, bound, calls, drawnBy, latest>>
    BY <1>10 DEF Uncheck, requests
  <2>2. BoxesOfRows'
    BY <1>2, <1>3, <2>1 DEF BoxesOfRows
  <2>3. SUFFICES ASSUME ~raced'
                 PROVE  IsInjective(selected') /\ IdsInv' /\ SelectedHasBox' /\ BoxIsSelected'
    BY <2>2 DEF BoxesInv
  <2>4. /\ Outstanding("ids") = {} /\ IsInjective(selected) /\ BoxIsSelected
        /\ BoxesDrawn \cap ToSet(selected) \subseteq boxes
    BY <1>4, <2>1, <2>3
  <2>5. IsInjective(selected') /\ ToSet(selected') = ToSet(selected) \ {r}
    BY <1>1, <2>1, <2>4, RemovedOnce
  <2>6. IdsInv'
    BY <1>6, <2>1, <2>4 DEF IdsInv
  <2>7. SelectedHasBox'
    <3>1. All \notin BoxesDrawn
      BY DrawnRows, HeaderIsNoRow
    <3>2. QED
      BY <1>3, <2>1, <2>4, <2>5, <3>1 DEF SelectedHasBox
  <2>8. BoxIsSelected'
    BY <1>6, <2>1, <2>4, <2>5 DEF BoxIsSelected
  <2>9. QED
    BY <2>5, <2>6, <2>7, <2>8
<1>11. QED
  BY <1>5, <1>7, <1>8, <1>9, <1>10 DEF RowBoxes

\* The answers draw the table with the boxes of the selection, fill the
\* selection once every box is checked, or correct it by the current filters.
LEMMA AnswersBoxes ==
    ASSUME IInv, BoxesInv, Answers, \A f \in Filters : IsInjective(StoredConfig[f].selected)
    PROVE  BoxesInv'
<1>1. selected \in Seq(Rows)
  BY DEF IInv, TypeOK
<1>2. BoxesOfRows
  BY DEF BoxesInv
<1>3. content' = content => BoxesDrawn' = BoxesDrawn
  BY DEF BoxesDrawn
\* What the table shows when the refresh sent last was drawn last.
<1>4. drawnBy = latest => BoxesDrawn \subseteq Matching(cfg)
  <2>1. CASE content.state = "table"
    BY <2>1, DrawnRows DEF IInv, TableShowsConfig
  <2>2. CASE content.state /= "table"
    BY <2>2, DrawnRows
  <2>3. QED
    BY <2>1, <2>2
<1>5. PICK call \in calls :
          \/ Serve(call) \/ ServeChange(call) \/ ChangeAnswered(call)
          \/ Refreshed(call) \/ RefreshRefused(call) \/ RefreshFailed(call)
          \/ IdsReceived(call) \/ IdsForAction(call) \/ ActionDone(call) \/ Lost(call)
  BY DEF Answers
<1>6. call \in Call
  BY DEF IInv, TypeOK
<1>7. CASE Serve(call) \/ ServeChange(call)
  <2>1. PICK next : /\ next = [call EXCEPT !.served = TRUE]
                    /\ next.kind = call.kind
    BY <1>6, CallChanges
  <2>2. /\ call.kind \in {"refresh", "change"} /\ calls' = (calls \ {call}) \cup {next}
        /\ UNCHANGED <<boxes, content, selected, bound, raced, cfg, drawnBy, latest>>
    BY <1>7, <2>1 DEF Serve, ServeChange, ServedNow, client, drawn
  <2>3. Outstanding("ids")' = Outstanding("ids")
    BY <2>1, <2>2 DEF Outstanding
  <2>4. \/ Outstanding("refresh")' /= {}
        \/ Outstanding("refresh")' = Outstanding("refresh")
    <3>1. CASE call.kind = "refresh"
      <4>1. next \in Outstanding("refresh")'
        BY <2>1, <2>2, <3>1 DEF Outstanding
      <4>2. QED
        BY <4>1
    <3>2. CASE call.kind = "change"
      BY <2>1, <2>2, <3>2 DEF Outstanding
    <3>3. QED
      BY <2>2, <3>1, <3>2
  <2>5. QED
    BY <2>2, <2>3, <2>4, BoxesStay
<1>8. CASE Refreshed(call)
  <2>1. /\ call.kind = "refresh" /\ calls' = calls \ {call}
        /\ boxes' = RowsShown(call.conf) \cap ToSet(selected)
        /\ selected' = selected /\ raced' = (raced \/ Outstanding("ids") /= {})
    BY <1>8 DEF Refreshed
  <2>2. BoxesDrawn' = RowsShown(call.conf)
    <3>1. content'.state = "table" /\ content'.conf = call.conf
      BY <1>8 DEF Refreshed
    <3>2. QED
      BY <3>1 DEF BoxesDrawn
  <2>3. BoxesOfRows' /\ SelectedHasBox' /\ BoxIsSelected'
    BY <2>1, <2>2 DEF BoxesOfRows, SelectedHasBox, BoxIsSelected
  <2>4. ASSUME ~raced'
        PROVE  IsInjective(selected') /\ IdsInv'
    <3>1. ~raced /\ Outstanding("ids")' = {}
      BY <2>1, <2>4 DEF Outstanding
    <3>2. QED
      BY <2>1, <3>1 DEF IdsInv, BoxesInv
  <2>5. QED
    BY <2>3, <2>4 DEF BoxesInv
<1>9. CASE RefreshRefused(call) \/ RefreshFailed(call)
  <2>1. PICK state \in States \ {"table"} : TableGone(call, state)
    BY <1>9 DEF RefreshRefused, RefreshFailed, States
  <2>2. /\ call.kind = "refresh" /\ calls' = calls \ {call} /\ boxes' = {}
        /\ content' = [content EXCEPT !.state = state, !.links = {}]
        /\ UNCHANGED <<selected, bound, raced>>
    BY <2>1 DEF TableGone, client
  <2>3. content'.state /= "table" /\ BoxesDrawn' = {}
    <3>1. content \in [state: States, conf: Config, links: SUBSET Sortable]
      BY DEF IInv, TypeOK
    <3>2. content'.state = state
      BY <2>2, <3>1
    <3>3. QED
      BY <2>1, <3>2 DEF BoxesDrawn
  <2>4. BoxesOfRows' /\ SelectedHasBox' /\ BoxIsSelected'
    BY <2>2, <2>3 DEF BoxesOfRows, SelectedHasBox, BoxIsSelected
  <2>5. ASSUME ~raced'
        PROVE  IsInjective(selected') /\ IdsInv'
    <3>1. ~raced /\ Outstanding("ids")' = Outstanding("ids")
      BY <2>2, <2>5 DEF Outstanding
    <3>2. QED
      BY <2>2, <2>3, <3>1 DEF IdsInv, BoxesInv
  <2>6. QED
    BY <2>4, <2>5 DEF BoxesInv
<1>10. CASE IdsReceived(call)
  <2>1. /\ call.kind = "ids" /\ calls' = calls \ {call}
        /\ selected' = selected \o InOrder(Matching(call.conf))
        /\ UNCHANGED <<cfg, bound, content, boxes, drawnBy, latest, raced>>
    BY <1>10 DEF IdsReceived, drawn
  <2>2. BoxesOfRows'
    BY <1>2, <1>3, <2>1 DEF BoxesOfRows
  <2>3. SUFFICES ASSUME ~raced'
                 PROVE  IsInjective(selected') /\ IdsInv' /\ SelectedHasBox' /\ BoxIsSelected'
    BY <2>2 DEF BoxesInv
  <2>4. call \in Outstanding("ids") /\ IdsInv
    BY <2>1, <2>3 DEF BoxesInv, Outstanding
  <2>5. /\ selected = <<>> /\ BoxesDrawn \subseteq boxes
        /\ call.conf = cfg \/ Outstanding("refresh") /= {} \/ content.state /= "table"
    BY <2>4 DEF IdsInv
  <2>6. Outstanding("ids")' = {} /\ Outstanding("refresh")' = Outstanding("refresh")
    BY <2>1, <2>4 DEF IdsInv, Outstanding
  <2>7. PICK M \in SUBSET Nat : M = Matching(call.conf) /\ IsFiniteSet(M)
    BY MatchingRows
  <2>8. PICK more \in Seq(M) : more = InOrder(M)
    BY <2>7, InOrderFacts
  <2>9. IsInjective(more) /\ ToSet(more) = M
    <3>1. /\ \A i, j \in 1..Len(more) : more[i] = more[j] => i = j
          /\ \A n \in M : \E i \in 1..Len(more) : more[i] = n
      <4>1. /\ \A i, j \in 1..Len(InOrder(M)) : InOrder(M)[i] = InOrder(M)[j] => i = j
            /\ \A n \in M : \E i \in 1..Len(InOrder(M)) : InOrder(M)[i] = n
        BY <2>7, InOrderFacts
      <4>2. QED
        BY <2>8, <4>1
    <3>2. IsInjective(more)
      BY <3>1, SelectionFacts
    <3>3. \A n : n \in ToSet(more) <=> \E i \in 1..Len(more) : more[i] = n
      BY SelectionFacts
    <3>4. ToSet(more) \subseteq M
      BY SelectionFacts
    <3>5. M \subseteq ToSet(more)
      BY <3>1, <3>3
    <3>6. QED
      BY <3>2, <3>4, <3>5
  <2>10. selected' = more
    BY <2>1, <2>5, <2>7, <2>8, ConcatEmptySeq
  <2>11. SelectedHasBox'
    BY <1>3, <2>1, <2>5 DEF SelectedHasBox
  <2>12. ASSUME drawnBy' = latest', Outstanding("refresh")' = {}
         PROVE  boxes' \ {All} \subseteq ToSet(selected')
    <3>1. drawnBy = latest /\ Outstanding("refresh") = {} /\ boxes' = boxes
      BY <2>1, <2>6, <2>12
    <3>2. CASE call.conf = cfg
      BY <1>2, <1>4, <2>7, <2>9, <2>10, <3>1, <3>2 DEF BoxesOfRows
    <3>3. CASE content.state /= "table"
      BY <1>2, <3>1, <3>3, DrawnRows DEF BoxesOfRows
    <3>4. QED
      BY <2>5, <3>1, <3>2, <3>3
  <2>13. BoxIsSelected'
    BY <2>12 DEF BoxIsSelected
  <2>14. IdsInv'
    BY <2>6 DEF IdsInv
  <2>15. QED
    BY <2>9, <2>10, <2>11, <2>13, <2>14
<1>11. CASE IdsForAction(call)
  <2>1. PICK next : next = [call EXCEPT !.kind = "act"] /\ next.kind = "act"
    <3>1. [call EXCEPT !.kind = "act"].kind = "act"
      BY <1>6, CallChanges
    <3>2. QED
      BY <3>1
  <2>2. /\ call.kind = "prune" /\ calls' = (calls \ {call}) \cup {next}
        /\ selected' = Pruned(selected, Matching(call.conf))
        /\ raced' = (raced \/ call.conf /= cfg)
        /\ UNCHANGED <<cfg, bound, content, boxes, drawnBy, latest>>
    BY <1>11, <2>1 DEF IdsForAction, drawn
  <2>3. /\ Outstanding("ids")' = Outstanding("ids")
        /\ Outstanding("refresh")' = Outstanding("refresh")
    BY <2>1, <2>2 DEF Outstanding
  <2>4. BoxesOfRows'
    BY <1>2, <1>3, <2>2 DEF BoxesOfRows
  <2>5. SUFFICES ASSUME ~raced'
                 PROVE  IsInjective(selected') /\ IdsInv' /\ SelectedHasBox' /\ BoxIsSelected'
    BY <2>4 DEF BoxesInv
  <2>6. /\ call.conf = cfg /\ IsInjective(selected)
        /\ IdsInv /\ SelectedHasBox /\ BoxIsSelected
    BY <2>2, <2>5 DEF BoxesInv
  <2>7. /\ selected' \in Seq(Rows) /\ IsInjective(selected')
        /\ ToSet(selected') = ToSet(selected) \cap Matching(cfg)
    BY <1>1, <2>2, <2>6, PrunedFacts
  <2>8. IdsInv'
    <3>1. ASSUME selected = <<>>
          PROVE  selected' = <<>>
      <4>1. ToSet(selected') = {}
        BY <2>7, <3>1, NothingSelected
      <4>2. ~\E i \in 1..Len(selected') : selected'[i] \in ToSet(selected')
        BY <4>1
      <4>3. PICK n \in Nat : n = Len(selected')
        BY <2>7
      <4>4. \A i \in 1..n : selected'[i] \in ToSet(selected')
        BY <2>7, <4>3, SelectionFacts
      <4>5. ~(1 \in 1..n)
        BY <4>2, <4>3, <4>4
      <4>6. n = 0
        BY <4>5
      <4>7. QED
        BY <2>7, <4>3, <4>6, EmptyByLength
    <3>2. QED
      BY <1>3, <2>2, <2>3, <2>6, <3>1 DEF IdsInv
  <2>9. SelectedHasBox'
    BY <1>3, <2>2, <2>6, <2>7 DEF SelectedHasBox
  <2>10. BoxIsSelected'
    BY <1>2, <1>4, <2>2, <2>3, <2>6, <2>7 DEF BoxIsSelected, BoxesOfRows
  <2>11. QED
    BY <2>7, <2>8, <2>9, <2>10
<1>12. CASE ActionDone(call)
  <2>1. PICK new : /\ calls' = (calls \ {call}) \cup {new} /\ new.kind = "refresh"
    <3>1. PICK new : new = Numbered("refresh", cfg, Default)
      OBVIOUS
    <3>2. calls' = (calls \ {call}) \cup {new}
      BY <1>12, <3>1 DEF ActionDone
    <3>3. new.kind = "refresh"
      BY <3>1 DEF Numbered
    <3>4. QED
      BY <3>2, <3>3
  <2>2. call.kind = "act" /\ UNCHANGED <<boxes, content, selected, bound, raced>>
    BY <1>12 DEF ActionDone, client, drawn
  <2>3. new \in Outstanding("refresh")' /\ Outstanding("ids")' = Outstanding("ids")
    BY <2>1, <2>2 DEF Outstanding
  <2>4. QED
    BY <2>2, <2>3, BoxesStay
<1>13. CASE Lost(call)
  <2>1. /\ call.kind /= "refresh" /\ calls' = calls \ {call}
        /\ raced' = (raced \/ call.kind = "ids")
        /\ UNCHANGED <<cfg, selected, bound, content, boxes, drawnBy, latest>>
    BY <1>13 DEF Lost, client, drawn
  <2>2. Outstanding("refresh")' = Outstanding("refresh")
    BY <2>1 DEF Outstanding
  <2>3. CASE call.kind = "ids"
    <3>1. raced'
      BY <2>1, <2>3
    <3>2. BoxesOfRows'
      BY <1>2, <1>3, <2>1 DEF BoxesOfRows
    <3>3. QED
      BY <3>1, <3>2 DEF BoxesInv
  <2>4. CASE call.kind /= "ids"
    <3>1. Outstanding("ids")' = Outstanding("ids")
      BY <2>1, <2>4 DEF Outstanding
    <3>2. QED
      BY <2>1, <2>2, <3>1, BoxesStay
  <2>5. QED
    BY <2>3, <2>4
<1>14. CASE ChangeAnswered(call)
  <2>1. PICK f \in Filters : f = call.filter
    BY <1>6, <1>14, CallChanges DEF ChangeAnswered
  <2>2. /\ call.kind = "change" /\ Install(f) /\ UNCHANGED <<boxes, content>>
        /\ calls' = (calls \ {call}) \cup {Numbered("refresh", cfg', Default)}
    BY <1>14, <2>1 DEF ChangeAnswered, drawn
  <2>3. PICK new : new = Numbered("refresh", cfg', Default) /\ new.kind = "refresh"
    <3>1. Numbered("refresh", cfg', Default).kind = "refresh"
      BY DEF Numbered
    <3>2. QED
      BY <3>1
  <2>4. new \in Outstanding("refresh")' /\ Outstanding("ids")' = Outstanding("ids")
    BY <2>2, <2>3 DEF Outstanding
  <2>5. QED
    BY <2>2, <2>4, Installed
<1>15. QED
  BY <1>5, <1>7, <1>8, <1>9, <1>10, <1>11, <1>12, <1>13, <1>14

\* Once no request is under way the boxes checked are those of the rows
\* selected - unless boxes or filters were changed while ids were fetched or
\* a stored filter was being installed, or an older answer was drawn last.  A
\* stored selection that names a row twice would break it: one click on its
\* box removes one of the two.
THEOREM BoxesFollow ==
    ASSUME \A f \in Filters : IsInjective(StoredConfig[f].selected)
    PROVE  Spec => []BoxesTellSelection
<1>1. Init => BoxesInv
  <2> SUFFICES ASSUME Init
               PROVE  BoxesInv
    OBVIOUS
  <2>1. boxes = {} /\ selected = <<>> /\ Outstanding("ids") = {}
    BY DEF Init, Outstanding
  <2>2. IsInjective(selected) /\ ToSet(selected) = {}
    BY <2>1, NothingSelected
  <2>3. QED
    BY <2>1, <2>2 DEF BoxesInv, BoxesOfRows, IdsInv, SelectedHasBox, BoxIsSelected
<1>2. IInv /\ BoxesInv /\ [Next]_vars => BoxesInv'
  <2> SUFFICES ASSUME IInv, BoxesInv, [Next]_vars
               PROVE  BoxesInv'
    OBVIOUS
  <2>1. CASE UNCHANGED vars
    <3>1. UNCHANGED <<cfg, selected, bound, content, boxes, calls, drawnBy, latest, raced>>
      BY <2>1 DEF vars, client, drawn, requests
    <3>2. /\ Outstanding("ids")' = Outstanding("ids")
          /\ Outstanding("refresh")' = Outstanding("refresh")
      BY <3>1 DEF Outstanding
    <3>3. QED
      BY <3>1, <3>2, BoxesStay
  <2>2. QED
    BY <2>1, WidgetsBoxes, RowBoxesBoxes, AnswersBoxes DEF Next
<1>3. IInv /\ BoxesInv => BoxesTellSelection
  <2> SUFFICES ASSUME IInv, BoxesInv, calls = {}, ~raced, drawnBy = latest
               PROVE  boxes \ {All} = BoxesDrawn \cap ToSet(selected)
    BY DEF BoxesTellSelection
  <2>1. Outstanding("refresh") = {} /\ Outstanding("ids") = {}
    BY DEF Outstanding
  <2>2. boxes \ {All} \subseteq BoxesDrawn \cap ToSet(selected)
    BY <2>1 DEF BoxesInv, BoxesOfRows, BoxIsSelected
  <2>3. All \notin BoxesDrawn
    BY DrawnRows, HeaderIsNoRow
  <2>4. BoxesDrawn \cap ToSet(selected) \subseteq boxes
    <3>1. CASE content.state = "table"
      BY <2>1, <3>1 DEF IInv, TableShowsConfig, BoxesInv, SelectedHasBox
    <3>2. CASE content.state /= "table"
      BY <3>2, DrawnRows
    <3>3. QED
      BY <3>1, <3>2
  <2>5. QED
    BY <2>2, <2>3, <2>4
<1>4. QED
  BY <1>1, <1>2, <1>3, InductiveInvariant, PTL DEF Spec
=============================================================================
