--------------------------- MODULE SequenceLemmas ---------------------------
(***************************************************************************)
(* What the operators on sequences do that the models are built from:      *)
(* lists that entries are appended to and removed from, and mailboxes.     *)
(***************************************************************************)
EXTENDS Integers, Sequences, SequencesExt, SequenceTheorems, TLAPS

\* The empty sequence is the one without positions.
LEMMA EmptyByLength ==
    ASSUME NEW S, NEW seq \in Seq(S)
    PROVE  Len(seq) = 0 <=> seq = <<>>
<1>1. seq /= <<>> => Len(seq) \in Nat \ {0}
  BY EmptySeq
<1>2. Len(<<>>) = 0
  BY EmptySeq
<1>3. QED
  BY <1>1, <1>2

\* The entries behind the one that is removed move up.
LEMMA RemoveFacts ==
    ASSUME NEW S, NEW seq \in Seq(S), NEW m \in 1..Len(seq)
    PROVE  /\ RemoveAt(seq, m) \in Seq(S) /\ Len(RemoveAt(seq, m)) = Len(seq) - 1
           /\ \A i \in 1..Len(seq) - 1 :
                 RemoveAt(seq, m)[i] = IF i < m THEN seq[i] ELSE seq[i + 1]
<1>1. PICK n \in Nat : n = Len(seq)
  OBVIOUS
<1>2. m \in 1..n /\ \A i \in 1..n : seq[i] \in S
  BY <1>1
<1> DEFINE a == SubSeq(seq, 1, m - 1)
<1>3. /\ a \in Seq(S) /\ Len(a) = m - 1
      /\ \A i \in 1..m - 1 : a[i] = seq[i]
  <2>1. \A i \in 1..m - 1 : seq[i] \in S
    BY <1>2
  <2>2. QED
    BY <1>2, <2>1, SubSeqProperties
<1>4. PICK q \in Int : q = m + 1
  BY <1>2
<1> DEFINE b == SubSeq(seq, q, n)
<1>5. /\ b \in Seq(S) /\ Len(b) = IF q <= n THEN n - q + 1 ELSE 0
      /\ \A i \in 1..n - q + 1 : b[i] = seq[q + i - 1]
  <2>1. n \in Int /\ \A i \in q..n : seq[i] \in S
    BY <1>2, <1>4
  <2>2. QED
    BY <1>4, <2>1, SubSeqProperties
<1>6. RemoveAt(seq, m) = a \o b
  BY <1>1, <1>4 DEF RemoveAt
<1> HIDE DEF a, b
<1>7. Len(b) = n - m /\ \A i \in 1..n - m : b[i] = seq[m + i]
  <2>1. n - q + 1 = n - m /\ (q <= n \/ n - m = 0)
    BY <1>2, <1>4
  <2>2. \A i \in 1..n - m : q + i - 1 = m + i
    BY <1>2, <1>4
  <2>3. QED
    BY <1>5, <2>1, <2>2
<1>8. /\ a \o b \in Seq(S) /\ Len(a \o b) = Len(a) + Len(b)
      /\ \A i \in 1..Len(a) + Len(b) :
            (a \o b)[i] = IF i <= Len(a) THEN a[i] ELSE b[i - Len(a)]
  BY <1>3, <1>5, ConcatProperties
<1>9. Len(a) + Len(b) = n - 1
  BY <1>2, <1>3, <1>7
<1>10. ASSUME NEW i \in 1..n - 1
       PROVE  (a \o b)[i] = IF i < m THEN seq[i] ELSE seq[i + 1]
  <2>1. (a \o b)[i] = IF i <= m - 1 THEN a[i] ELSE b[i - (m - 1)]
    BY <1>3, <1>8, <1>9
  <2>2. CASE i < m
    <3>1. i \in 1..m - 1 /\ i <= m - 1
      BY <1>2, <2>2
    <3>2. QED
      BY <1>3, <2>1, <2>2, <3>1
  <2>3. CASE ~(i < m)
    <3>1. i - (m - 1) \in 1..n - m /\ ~(i <= m - 1) /\ m + (i - (m - 1)) = i + 1
      BY <1>2, <2>3
    <3>2. QED
      BY <1>7, <2>1, <2>3, <3>1
  <2>4. QED
    BY <2>2, <2>3
<1>11. QED
  BY <1>1, <1>6, <1>8, <1>9, <1>10

\* An entry that is in a list once is the first of its kind.
LEMMA RemoveFirstFacts ==
    ASSUME NEW S, NEW seq \in Seq(S), NEW m \in 1..Len(seq),
           \A i \in 1..Len(seq) : seq[i] = seq[m] => i = m
    PROVE  RemoveFirst(seq, seq[m]) = RemoveAt(seq, m)
<1>1. PICK e : e = seq[m]
  OBVIOUS
<1>2. {i \in 1..Len(seq) : seq[i] = e} = {m}
  BY <1>1
<1>3. Min({m}) = m
  BY DEF Min
<1>4. SelectInSeq(seq, LAMBDA v : v = e) = m
  BY <1>2, <1>3 DEF SelectInSeq
<1>5. QED
  BY <1>1, <1>4 DEF RemoveFirst

\* The entries that are left after one is removed, and where they are.
LEMMA RemovedPositions ==
    ASSUME NEW S, NEW seq \in Seq(S), NEW m \in 1..Len(seq)
    PROVE  /\ \A i \in 1..Len(seq) - 1 :
                 \E k \in 1..Len(seq) : /\ k /= m /\ RemoveAt(seq, m)[i] = seq[k]
                                        /\ k = IF i < m THEN i ELSE i + 1
           /\ \A k \in 1..Len(seq) :
                 k /= m => \E i \in 1..Len(seq) - 1 : RemoveAt(seq, m)[i] = seq[k]
<1>1. PICK n \in Nat : n = Len(seq)
  OBVIOUS
<1>2. \A i \in 1..n - 1 : RemoveAt(seq, m)[i] = IF i < m THEN seq[i] ELSE seq[i + 1]
  BY <1>1, RemoveFacts
<1>3. \A i \in 1..n - 1 : \E k \in 1..n : /\ k /= m /\ RemoveAt(seq, m)[i] = seq[k]
                                          /\ k = IF i < m THEN i ELSE i + 1
  BY <1>1, <1>2
<1>4. ASSUME NEW k \in 1..n, k /= m
      PROVE  \E i \in 1..n - 1 : RemoveAt(seq, m)[i] = seq[k]
  <2>1. CASE k < m
    <3>1. k \in 1..n - 1
      BY <1>1, <2>1
    <3>2. QED
      BY <1>2, <2>1, <3>1
  <2>2. CASE ~(k < m)
    <3>1. k - 1 \in 1..n - 1 /\ ~(k - 1 < m) /\ (k - 1) + 1 = k
      BY <1>1, <1>4, <2>2
    <3>2. QED
      BY <1>2, <3>1
  <2>3. QED
    BY <2>1, <2>2
<1>5. QED
  BY <1>1, <1>3, <1>4

-----------------------------------------------------------------------------
(* Two sequences that follow each other: what is handled, and what waits *)

\* The head of the second becomes the end of the first.
LEMMA HeadMoves ==
    ASSUME NEW S, NEW s \in Seq(S), NEW t \in Seq(S), t /= <<>>
    PROVE  Append(s, Head(t)) \o Tail(t) = s \o t
<1>1. Head(t) \in S /\ Tail(t) \in Seq(S)
  BY HeadTailProperties
<1>2. PICK h \in S, u \in Seq(S) : h = Head(t) /\ u = Tail(t)
  BY <1>1
<1>3. <<h>> \in Seq(S) /\ Append(s, h) = s \o <<h>>
  BY <1>2, AppendIsConcat
<1>4. (s \o <<h>>) \o u = s \o (<<h>> \o u)
  BY <1>2, <1>3, ConcatAssociative
<1>5. <<h>> \o u = t
  <2>1. /\ <<h>> \o u \in Seq(S) /\ Len(<<h>> \o u) = Len(<<h>>) + Len(u)
        /\ \A i \in 1..Len(<<h>>) + Len(u) :
              (<<h>> \o u)[i] = IF i <= Len(<<h>>) THEN <<h>>[i] ELSE u[i - Len(<<h>>)]
    BY <1>2, <1>3, ConcatProperties
  <2>2. Len(<<h>>) = 1 /\ <<h>>[1] = h
    OBVIOUS
  <2>3. Len(u) = Len(t) - 1 /\ Len(t) \in Nat /\ \A i \in 1..Len(u) : u[i] = t[i + 1]
    BY <1>2, HeadTailProperties
  <2>4. h = t[1]
    BY <1>2
  <2>5. Len(<<h>> \o u) = Len(t)
    BY <2>1, <2>2, <2>3
  <2>6. ASSUME NEW i \in 1..Len(t)
        PROVE  (<<h>> \o u)[i] = t[i]
    <3>1. CASE i = 1
      BY <2>1, <2>2, <2>3, <2>4, <3>1
    <3>2. CASE i /= 1
      <4>1. i - 1 \in 1..Len(u) /\ (i - 1) + 1 = i /\ ~(i <= 1) /\ i \in 1..1 + Len(u)
        BY <2>3, <3>2
      <4>2. QED
        BY <2>1, <2>2, <2>3, <4>1
    <3>3. QED
      BY <3>1, <3>2
  <2>7. QED
    BY <2>1, <2>5, <2>6, SeqEqual
<1>6. QED
  BY <1>2, <1>3, <1>4, <1>5

\* What is appended to the second is appended to both.
LEMMA AppendBehind ==
    ASSUME NEW S, NEW s \in Seq(S), NEW t \in Seq(S), NEW e \in S
    PROVE  s \o Append(t, e) = Append(s \o t, e)
<1>1. <<e>> \in Seq(S) /\ s \o t \in Seq(S)
  OBVIOUS
<1>2. Append(t, e) = t \o <<e>> /\ Append(s \o t, e) = (s \o t) \o <<e>>
  BY <1>1, AppendIsConcat
<1>3. QED
  BY <1>1, <1>2, ConcatAssociative

\* What is removed from the first is removed from both.
LEMMA RemoveInFront ==
    ASSUME NEW S, NEW s \in Seq(S), NEW t \in Seq(S), NEW m \in 1..Len(s)
    PROVE  /\ m \in 1..Len(s \o t) /\ (s \o t)[m] = s[m]
           /\ RemoveAt(s, m) \o t = RemoveAt(s \o t, m)
<1>1. PICK n \in Nat, l \in Nat : n = Len(s) /\ l = Len(t)
  OBVIOUS
<1> DEFINE st == s \o t
           a == RemoveAt(s, m)
           b == RemoveAt(st, m)
<1>2. /\ st \in Seq(S) /\ Len(st) = n + l
      /\ \A i \in 1..n + l : st[i] = IF i <= n THEN s[i] ELSE t[i - n]
  BY <1>1, ConcatProperties
<1>3. m \in 1..Len(st) /\ st[m] = s[m]
  BY <1>1, <1>2
<1>4. /\ a \in Seq(S) /\ Len(a) = n - 1
      /\ \A i \in 1..n - 1 : a[i] = IF i < m THEN s[i] ELSE s[i + 1]
  BY <1>1, RemoveFacts
<1> HIDE DEF st, a
<1>5. /\ b \in Seq(S) /\ Len(b) = n + l - 1
      /\ \A i \in 1..n + l - 1 : b[i] = IF i < m THEN st[i] ELSE st[i + 1]
  <2>1. /\ b \in Seq(S) /\ Len(b) = Len(st) - 1
        /\ \A i \in 1..Len(st) - 1 : b[i] = IF i < m THEN st[i] ELSE st[i + 1]
    BY <1>2, <1>3, RemoveFacts
  <2> HIDE DEF b
  <2>2. QED
    BY <1>2, <2>1
<1>6. /\ a \o t \in Seq(S) /\ Len(a \o t) = Len(a) + Len(t)
      /\ \A i \in 1..Len(a) + Len(t) :
            (a \o t)[i] = IF i <= Len(a) THEN a[i] ELSE t[i - Len(a)]
  BY <1>4, ConcatProperties
<1> HIDE DEF b
<1>7. Len(a \o t) = Len(b) /\ Len(a) + Len(t) = n + l - 1
  BY <1>1, <1>4, <1>5, <1>6
<1>8. ASSUME NEW i \in 1..n + l - 1
      PROVE  (a \o t)[i] = b[i]
  <2>1. (a \o t)[i] = IF i <= n - 1 THEN a[i] ELSE t[i - (n - 1)]
    BY <1>1, <1>4, <1>6, <1>7
  <2>2. CASE i <= n - 1 /\ i < m
    <3>1. i \in 1..n - 1 /\ i <= n /\ i \in 1..n + l
      BY <1>1, <2>2
    <3>2. QED
      BY <1>2, <1>4, <1>5, <2>1, <2>2, <3>1
  <2>3. CASE i <= n - 1 /\ ~(i < m)
    <3>1. i \in 1..n - 1 /\ i + 1 <= n /\ i + 1 \in 1..n + l
      BY <1>1, <2>3
    <3>2. QED
      BY <1>2, <1>4, <1>5, <2>1, <2>3, <3>1
  <2>4. CASE ~(i <= n - 1)
    <3>1. ~(i < m) /\ ~(i + 1 <= n) /\ i + 1 \in 1..n + l /\ i + 1 - n = i - (n - 1)
      BY <1>1, <2>4
    <3>2. QED
      BY <1>2, <1>5, <2>1, <2>4, <3>1
  <2>5. QED
    BY <2>2, <2>3, <2>4
<1>9. a \o t = b
  BY <1>5, <1>6, <1>7, <1>8, SeqEqual
<1>10. QED
  BY <1>3, <1>9 DEF st, a, b
=============================================================================
