--------------------------- MODULE TextOrderProofs ---------------------------
(***************************************************************************)
(* Proofs about the order of the characters of a text in TextBuffer, for   *)
(* any number of replicas, edits and undos and any delivery of operations: *)
(* the replicas agree on it although each places an insertion by a look at *)
(* its own fragments only.                                                 *)
(***************************************************************************)
EXTENDS TextHistoryProofs

-----------------------------------------------------------------------------
(* How many of a set of positions are among the first n.                    *)
Upto(S, n) == Cardinality({i \in 1..n : i \in S})

LEMMA UptoFacts ==
    ASSUME NEW S, NEW n \in Nat
    PROVE  /\ Upto(S, n) \in Nat
           /\ Upto(S, n) <= n
           /\ Upto(S, 0) = 0
           /\ Upto(S, n + 1) = Upto(S, n) + (IF n + 1 \in S THEN 1 ELSE 0)
  <1>1. IsFiniteSet(1..n) /\ Cardinality(1..n) = n
    BY FS_Interval
  <1>2. IsFiniteSet({i \in 1..n : i \in S}) /\ Upto(S, n) <= n
    BY <1>1, FS_Subset DEF Upto
  <1>3. Upto(S, n) \in Nat
    BY <1>2, FS_CardinalityType DEF Upto
  <1>4. {i \in 1..0 : i \in S} = {}
    OBVIOUS
  <1>5. Upto(S, 0) = 0
    BY <1>4, FS_EmptySet DEF Upto
  <1>6. CASE n + 1 \in S
    <2>1. {i \in 1..(n + 1) : i \in S} = {i \in 1..n : i \in S} \cup {n + 1}
      BY <1>6
    <2>2. n + 1 \notin {i \in 1..n : i \in S}
      OBVIOUS
    <2>3. Upto(S, n + 1) = Upto(S, n) + 1
      BY <1>2, <2>1, <2>2, FS_AddElement DEF Upto
    <2> QED
      BY <1>2, <1>3, <1>5, <1>6, <2>3
  <1>7. CASE n + 1 \notin S
    <2>1. {i \in 1..(n + 1) : i \in S} = {i \in 1..n : i \in S}
      BY <1>7
    <2>2. Upto(S, n + 1) = Upto(S, n)
      BY <2>1 DEF Upto
    <2> QED
      BY <1>2, <1>3, <1>5, <1>7, <2>2
  <1> QED
    BY <1>6, <1>7

LEMMA UptoGrows ==
    ASSUME NEW S, NEW m \in Nat, NEW n \in Nat, m <= n
    PROVE  /\ Upto(S, m) <= Upto(S, n)
           /\ m < n /\ n \in S => Upto(S, m) < Upto(S, n)
           /\ Upto(S, m) = Upto(S, n) => \A i \in (m + 1)..n : i \notin S
  <1> DEFINE A == {i \in 1..m : i \in S}
             B == {i \in 1..n : i \in S}
  <1>1. IsFiniteSet(B) /\ A \subseteq B
    <2>1. IsFiniteSet(1..n) /\ B \subseteq 1..n
      BY FS_Interval
    <2> QED
      BY <2>1, FS_Subset
  <1>2. Cardinality(A) \in Nat /\ Cardinality(B) \in Nat
    BY <1>1, FS_Subset, FS_CardinalityType
  <1>3. Cardinality(A) <= Cardinality(B) /\ (Cardinality(A) = Cardinality(B) => A = B)
    <2> HIDE DEF A, B
    <2> QED
      BY <1>1, FS_Subset
  <1>4. m < n /\ n \in S => n \in B /\ n \notin A
    OBVIOUS
  <1>5. \A i \in (m + 1)..n : i \in S => i \in B /\ i \notin A
    OBVIOUS
  <1>6. Upto(S, m) = Cardinality(A) /\ Upto(S, n) = Cardinality(B)
    BY DEF Upto
  <1> HIDE DEF A, B
  <1>7. A # B => Cardinality(A) < Cardinality(B)
    BY <1>2, <1>3
  <1> QED
    BY <1>2, <1>3, <1>4, <1>5, <1>6, <1>7

(* Every count up to the greatest is reached, and reached last right before *)
(* a position of the set or at the end.                                     *)
LEMMA UptoReaches ==
    ASSUME NEW S, NEW N \in Nat, NEW c \in 0..Upto(S, N)
    PROVE  \E n \in 0..N : Upto(S, n) = c /\ (n < N => n + 1 \in S)
  <1> DEFINE A == {n \in 0..N : Upto(S, n) >= c}
             B == {n \in 0..N : Upto(S, n) = c}
  <1>0. Upto(S, N) \in Nat /\ c \in Nat /\ \A n \in 0..N : Upto(S, n) \in Nat
    BY UptoFacts
  <1>1. A \in SUBSET Nat /\ N \in A
    BY <1>0
  <1>2. PICK a \in A : \A n \in A : a <= n
    <2> HIDE DEF A
    <2> QED
      BY <1>1, LeastNatural
  <1>3. Upto(S, a) = c
    <2>1. CASE a = 0
      BY <1>0, <1>2, <2>1, UptoFacts
    <2>2. CASE a # 0
      <3>1. a - 1 \in 0..N /\ a - 1 \notin A /\ a = (a - 1) + 1
        BY <1>2, <2>2
      <3>2. Upto(S, a - 1) < c /\ Upto(S, a) >= c
        BY <1>0, <3>1
      <3>3. Upto(S, a) <= Upto(S, a - 1) + 1
        BY <1>0, <3>1, UptoFacts
      <3> QED
        BY <1>0, <3>1, <3>2, <3>3
    <2> QED
      BY <2>1, <2>2
  <1>4. B \in SUBSET Nat /\ B # {} /\ \A n \in B : n <= N
    BY <1>3
  <1>5. PICK b \in B : \A n \in B : n <= b
    <2> HIDE DEF B
    <2> QED
      BY <1>4, GreatestNatural
  <1>6. ASSUME b < N PROVE b + 1 \in S
    <2>1. b \in 0..N /\ b + 1 \in 0..N /\ Upto(S, b) = c
      BY <1>5, <1>6
    <2>2. b + 1 \notin B
      BY <1>5, <2>1
    <2>3. Upto(S, b + 1) # c
      BY <2>1, <2>2
    <2> QED
      BY <1>0, <2>1, <2>3, UptoFacts
  <1> QED
    BY <1>5, <1>6
-----------------------------------------------------------------------------
(* Fragments.                                                               *)

(* No character is there twice.                                             *)
Distinct(F) == \A i, j \in DOMAIN F : SameCharacter(F[i], F[j]) => i = j

LEMMA OffsetIsCount ==
    ASSUME NEW F, NEW v, NEW n \in Nat
    PROVE  FullOffset(F, v, n) = Upto({i \in Nat : Observed(v, F[i].timestamp)}, n)
  <1>1. {i \in 1..n : Observed(v, F[i].timestamp)} =
            {i \in 1..n : i \in {j \in Nat : Observed(v, F[j].timestamp)}}
    OBVIOUS
  <1> QED
    BY <1>1 DEF FullOffset, Upto

LEMMA OffsetFacts ==
    ASSUME NEW F, NEW v, NEW n \in Nat
    PROVE  /\ FullOffset(F, v, n) \in Nat
           /\ FullOffset(F, v, n) <= n
           /\ FullOffset(F, v, 0) = 0
  <1> DEFINE S == {i \in Nat : Observed(v, F[i].timestamp)}
  <1>1. FullOffset(F, v, n) = Upto(S, n) /\ FullOffset(F, v, 0) = Upto(S, 0)
    BY OffsetIsCount
  <1> HIDE DEF S
  <1> QED
    BY <1>1, UptoFacts

LEMMA OffsetGrows ==
    ASSUME NEW F, NEW v, NEW m \in Nat, NEW n \in Nat, m <= n
    PROVE  /\ FullOffset(F, v, m) <= FullOffset(F, v, n)
           /\ m < n /\ Observed(v, F[n].timestamp) => FullOffset(F, v, m) < FullOffset(F, v, n)
  <1> DEFINE S == {i \in Nat : Observed(v, F[i].timestamp)}
  <1>1. FullOffset(F, v, m) = Upto(S, m) /\ FullOffset(F, v, n) = Upto(S, n)
    BY OffsetIsCount
  <1>2. Observed(v, F[n].timestamp) => n \in S
    OBVIOUS
  <1> HIDE DEF S
  <1> QED
    BY <1>1, <1>2, UptoGrows

(* Two texts have as many characters of a version up to two places when     *)
(* those are the same characters.                                           *)
SameUpto(F, m, G, n, v) ==
    \A i \in 1..m : Observed(v, F[i].timestamp) => \E k \in 1..n : SameCharacter(F[i], G[k])

LEMMA SameCount ==
    ASSUME NEW F, NEW G, NEW v, NEW m \in Nat, NEW n \in Nat,
           1..m \subseteq DOMAIN F, 1..n \subseteq DOMAIN G, Distinct(F), Distinct(G),
           SameUpto(F, m, G, n, v), SameUpto(G, n, F, m, v)
    PROVE  FullOffset(F, v, m) = FullOffset(G, v, n)
  <1> DEFINE A == {i \in 1..m : Observed(v, F[i].timestamp)}
             B == {k \in 1..n : Observed(v, G[k].timestamp)}
             h == [i \in A |-> CHOOSE k \in B : SameCharacter(F[i], G[k])]
  <1>1. ASSUME NEW i \in A PROVE \E k \in B : SameCharacter(F[i], G[k])
    BY DEF SameUpto, SameCharacter
  <1>2. ASSUME NEW k \in B PROVE \E i \in A : SameCharacter(F[i], G[k])
    BY DEF SameUpto, SameCharacter
  <1>3. ASSUME NEW i \in A PROVE h[i] \in B /\ SameCharacter(F[i], G[h[i]])
    BY <1>1
  <1>4. A \subseteq DOMAIN F /\ B \subseteq DOMAIN G /\ h = [i \in A |-> h[i]]
    OBVIOUS
  <1>5. IsFiniteSet(A)
    <2>1. IsFiniteSet(1..m) /\ A \subseteq 1..m
      BY FS_Interval
    <2> QED
      BY <2>1, FS_Subset
  <1>6. FullOffset(F, v, m) = Cardinality(A) /\ FullOffset(G, v, n) = Cardinality(B)
    BY DEF FullOffset
  <1> HIDE DEF A, B, h
  <1>7. h \in [A -> B]
    BY <1>3, <1>4
  <1>8. ASSUME NEW i \in A, NEW j \in A, h[i] = h[j] PROVE i = j
    <2>1. SameCharacter(F[i], F[j])
      BY <1>3, <1>8 DEF SameCharacter
    <2> QED
      BY <1>4, <2>1 DEF Distinct
  <1>9. ASSUME NEW k \in B PROVE \E i \in A : h[i] = k
    <2>1. PICK i \in A : SameCharacter(F[i], G[k])
      BY <1>2
    <2>2. SameCharacter(G[h[i]], G[k]) /\ h[i] \in B
      BY <1>3, <2>1 DEF SameCharacter
    <2> QED
      BY <1>4, <2>2 DEF Distinct
  <1>10. h \in Bijection(A, B)
    BY <1>7, <1>8, <1>9 DEF Bijection, Injection, Surjection, IsInjective
  <1>11. Cardinality(A) = Cardinality(B)
    BY <1>5, <1>10, FS_Bijection DEF ExistsBijection
  <1> QED
    BY <1>6, <1>11

(* The place right after the character before an insertion, in the version  *)
(* of its author.                                                           *)
IsLanding(F, o, n) ==
    /\ n \in 0..Len(F)
    /\ FullOffset(F, o.version, n) = o.start
    /\ n > 0 => Observed(o.version, F[n].timestamp)

LEMMA OneLanding ==
    ASSUME NEW F, Len(F) \in Nat, NEW o, NEW m, NEW n, IsLanding(F, o, m), IsLanding(F, o, n)
    PROVE  m = n
  <1>1. m \in Nat /\ n \in Nat
    BY DEF IsLanding
  <1>2. FullOffset(F, o.version, m) = FullOffset(F, o.version, n) /\ FullOffset(F, o.version, n) \in Nat
    BY <1>1, OffsetFacts DEF IsLanding
  <1>3. ASSUME m < n PROVE FALSE
    <2>1. Observed(o.version, F[n].timestamp)
      BY <1>1, <1>3 DEF IsLanding
    <2>2. FullOffset(F, o.version, m) < FullOffset(F, o.version, n)
      BY <1>1, <1>3, <2>1, OffsetGrows
    <2> QED
      BY <1>2, <2>2
  <1>4. ASSUME n < m PROVE FALSE
    <2>1. Observed(o.version, F[m].timestamp)
      BY <1>1, <1>4 DEF IsLanding
    <2>2. FullOffset(F, o.version, n) < FullOffset(F, o.version, m)
      BY <1>1, <1>4, <2>1, OffsetGrows
    <2> QED
      BY <1>2, <2>2
  <1> QED
    BY <1>1, <1>3, <1>4
-----------------------------------------------------------------------------
(* Insertions.                                                              *)

Characters ==
    [timestamp : Timestamps, offset : Nat, visible : BOOLEAN, deletions : SUBSET Timestamps]

(* Where an insertion of len characters after place p takes a character.    *)
Moved(p, len, i) == IF i <= p THEN i ELSE i + len

LEMMA MovedFacts ==
    ASSUME NEW p \in Nat, NEW len \in Nat
    PROVE  /\ \A i \in Nat : Moved(p, len, i) \in Nat /\ i <= Moved(p, len, i)
           /\ \A i, j \in Nat : i < j <=> Moved(p, len, i) < Moved(p, len, j)
           /\ \A i, j \in Nat : i = j <=> Moved(p, len, i) = Moved(p, len, j)
           /\ \A i \in Nat : i <= p <=> Moved(p, len, i) <= p
           /\ \A i \in Nat : i > p <=> Moved(p, len, i) > p + len
           /\ \A i, n \in Nat : i \in 1..n => Moved(p, len, i) \in 1..(n + len)
           /\ Moved(p, len, 0) = 0
  BY DEF Moved

(* G is F with len characters of the edit t after place p.                  *)
InsertedAt(F, G, p, t, len) ==
    /\ p \in 0..Len(F)
    /\ len \in Nat
    /\ Len(G) = Len(F) + len
    /\ \A i \in 1..Len(F) : SameCharacter(G[Moved(p, len, i)], F[i])
    /\ \A k \in 1..len : G[p + k].timestamp = t /\ G[p + k].offset = k

LEMMA Origins ==
    ASSUME NEW F, NEW G, NEW p, NEW t, NEW len, InsertedAt(F, G, p, t, len), Len(F) \in Nat,
           NEW j \in 1..Len(G)
    PROVE  \/ \E i \in 1..Len(F) : j = Moved(p, len, i) /\ SameCharacter(G[j], F[i])
           \/ \E k \in 1..len : j = p + k /\ G[j].timestamp = t /\ G[j].offset = k
  <1>1. p \in 0..Len(F) /\ len \in Nat /\ Len(G) = Len(F) + len
    BY DEF InsertedAt
  <1>2. CASE j <= p
    <2>1. j \in 1..Len(F) /\ Moved(p, len, j) = j
      BY <1>1, <1>2 DEF Moved
    <2> QED
      BY <2>1 DEF InsertedAt
  <1>3. CASE j > p /\ j <= p + len
    <2>1. j - p \in 1..len /\ j = p + (j - p)
      BY <1>1, <1>3
    <2> QED
      BY <2>1 DEF InsertedAt
  <1>4. CASE j > p + len
    <2>1. j - len \in 1..Len(F) /\ Moved(p, len, j - len) = j
      BY <1>1, <1>4 DEF Moved
    <2> QED
      BY <2>1 DEF InsertedAt
  <1> QED
    BY <1>1, <1>2, <1>3, <1>4

LEMMA FragmentType ==
    ASSUME NEW t \in Timestamps, NEW k \in Nat
    PROVE  Fragment(t, k) \in Characters
  BY DEF Fragment, Characters

(* A fragment that is deleted once more.                                    *)
Struck(f, t) == [f EXCEPT !.visible = FALSE, !.deletions = @ \cup {t}]

LEMMA StruckFacts ==
    ASSUME NEW f \in Characters, NEW t \in Timestamps
    PROVE  /\ Struck(f, t) \in Characters
           /\ SameCharacter(Struck(f, t), f)
           /\ Struck(f, t).visible = FALSE
           /\ Struck(f, t).deletions = f.deletions \cup {t}
  BY DEF Struck, Characters, SameCharacter

LEMMA SpliceFacts ==
    ASSUME NEW F \in Seq(Characters), NEW p \in 0..Len(F), NEW t \in Timestamps, NEW len \in Nat,
           NEW gone
    PROVE  LET G == Splice(F, p, t, len, gone) IN
           /\ G \in Seq(Characters)
           /\ Len(G) = Len(F) + len
           /\ \A i \in 1..p : G[i] = F[i]
           /\ \A k \in 1..len : G[p + k] = Fragment(t, k)
           /\ \A i \in 1..Len(F) : i > p => G[i + len] = IF i \in gone THEN Struck(F[i], t) ELSE F[i]
  <1> DEFINE front == SubSeq(F, 1, p)
             mid == Insertion(t, len)
             back == [i \in 1..(Len(F) - p) |-> IF p + i \in gone THEN Struck(F[p + i], t) ELSE F[p + i]]
             G == Splice(F, p, t, len, gone)
  <1>1. Len(F) \in Nat /\ DOMAIN F = 1..Len(F) /\ \A i \in 1..Len(F) : F[i] \in Characters
    OBVIOUS
  <1>2. /\ front \in Seq(Characters) /\ Len(front) = p
        /\ \A i \in 1..p : front[i] = F[i]
    <2>1. \A i \in 1..p : F[i] \in Characters
      BY <1>1
    <2> QED
      BY <1>1, <2>1, SubSeqProperties
  <1>3. /\ mid \in Seq(Characters) /\ Len(mid) = len
        /\ \A k \in 1..len : mid[k] = Fragment(t, k)
    <2>1. \A k \in 1..len : Fragment(t, k) \in Characters
      BY FragmentType
    <2> QED
      BY <2>1 DEF Insertion
  <1>4. /\ back \in Seq(Characters) /\ Len(back) = Len(F) - p
        /\ \A i \in 1..(Len(F) - p) :
               back[i] = IF p + i \in gone THEN Struck(F[p + i], t) ELSE F[p + i]
    <2>1. \A i \in 1..(Len(F) - p) : p + i \in 1..Len(F)
      BY <1>1
    <2>2. \A i \in 1..(Len(F) - p) :
              (IF p + i \in gone THEN Struck(F[p + i], t) ELSE F[p + i]) \in Characters
      BY <1>1, <2>1, StruckFacts
    <2>3. Len(F) - p \in Nat
      BY <1>1
    <2> QED
      BY <2>2, <2>3
  <1>5. G = front \o mid \o back
    BY DEF Splice, Struck
  <1> HIDE DEF front, mid, back, G
  <1>6. /\ (front \o mid) \in Seq(Characters)
        /\ Len(front \o mid) = p + len
        /\ \A i \in 1..(p + len) : (front \o mid)[i] = IF i <= p THEN front[i] ELSE mid[i - p]
    BY <1>2, <1>3, ConcatProperties
  <1>7. /\ G \in Seq(Characters)
        /\ Len(G) = Len(front \o mid) + Len(back)
        /\ \A i \in 1..(Len(front \o mid) + Len(back)) :
               G[i] = IF i <= Len(front \o mid) THEN (front \o mid)[i]
                                                ELSE back[i - Len(front \o mid)]
    BY ZenonT(30), <1>4, <1>5, <1>6, ConcatProperties
  <1>8. Len(G) = Len(F) + len
    BY <1>1, <1>4, <1>6, <1>7
  <1>9. ASSUME NEW i \in 1..p PROVE G[i] = F[i]
    <2>1. i \in 1..(p + len) /\ i \in 1..(Len(front \o mid) + Len(back)) /\ i <= p
      BY <1>1, <1>4, <1>6
    <2>2. G[i] = (front \o mid)[i]
      BY <1>6, <1>7, <2>1
    <2> QED
      BY <1>2, <1>6, <2>1, <2>2
  <1>10. ASSUME NEW k \in 1..len PROVE G[p + k] = Fragment(t, k)
    <2>1. /\ p + k \in 1..(p + len) /\ p + k \in 1..(Len(front \o mid) + Len(back))
          /\ ~(p + k <= p) /\ p + k - p = k /\ p + k <= Len(front \o mid)
      BY <1>1, <1>4, <1>6
    <2>2. G[p + k] = (front \o mid)[p + k]
      BY <1>7, <2>1
    <2>3. (front \o mid)[p + k] = mid[k]
      <3>1. (front \o mid)[p + k] = IF p + k <= p THEN front[p + k] ELSE mid[p + k - p]
        BY <1>6, <2>1
      <3> QED
        BY <2>1, <3>1
    <2> QED
      BY <1>3, <2>2, <2>3
  <1>11. ASSUME NEW i \in 1..Len(F), i > p
         PROVE  G[i + len] = IF i \in gone THEN Struck(F[i], t) ELSE F[i]
    <2>1. /\ i + len \in 1..(Len(front \o mid) + Len(back)) /\ ~(i + len <= Len(front \o mid))
          /\ i + len - Len(front \o mid) = i - p
          /\ i - p \in 1..(Len(F) - p) /\ p + (i - p) = i
      BY <1>1, <1>4, <1>6, <1>11
    <2>2. G[i + len] = back[i - p]
      BY <1>7, <2>1
    <2>3. back[i - p] = IF p + (i - p) \in gone THEN Struck(F[p + (i - p)], t) ELSE F[p + (i - p)]
      BY <1>4, <2>1
    <2> QED
      BY <2>1, <2>2, <2>3
  <1> QED
    BY <1>7, <1>8, <1>9, <1>10, <1>11 DEF G

LEMMA SpliceInserts ==
    ASSUME NEW F \in Seq(Characters), NEW p \in 0..Len(F), NEW t \in Timestamps, NEW len \in Nat,
           NEW gone
    PROVE  InsertedAt(F, Splice(F, p, t, len, gone), p, t, len)
  <1> DEFINE G == Splice(F, p, t, len, gone)
  <1>1. /\ G \in Seq(Characters)
        /\ Len(G) = Len(F) + len
        /\ \A i \in 1..p : G[i] = F[i]
        /\ \A k \in 1..len : G[p + k] = Fragment(t, k)
        /\ \A i \in 1..Len(F) : i > p => G[i + len] = IF i \in gone THEN Struck(F[i], t) ELSE F[i]
    BY SpliceFacts
  <1> HIDE DEF G
  <1>2. Len(F) \in Nat /\ \A i \in 1..Len(F) : F[i] \in Characters
    OBVIOUS
  <1>3. ASSUME NEW i \in 1..Len(F) PROVE SameCharacter(G[Moved(p, len, i)], F[i])
    <2>1. CASE i <= p
      BY <1>1, <1>2, <2>1 DEF Moved, SameCharacter
    <2>2. CASE i > p
      <3>1. G[i + len] = Struck(F[i], t) \/ G[i + len] = F[i]
        BY <1>1, <2>2
      <3>2. SameCharacter(G[i + len], F[i])
        <4>1. SameCharacter(Struck(F[i], t), F[i])
          BY <1>2, StruckFacts
        <4>2. SameCharacter(F[i], F[i])
          BY DEF SameCharacter
        <4> QED
          BY <3>1, <4>1, <4>2
      <3> QED
        BY <1>2, <2>2, <3>2 DEF Moved
    <2> QED
      BY <1>2, <2>1, <2>2
  <1>4. ASSUME NEW k \in 1..len PROVE G[p + k].timestamp = t /\ G[p + k].offset = k
    <2>1. G[p + k] = Fragment(t, k)
      BY <1>1
    <2> QED
      BY <2>1 DEF Fragment
  <1> QED
    BY <1>1, <1>3, <1>4 DEF InsertedAt, G
-----------------------------------------------------------------------------
(* Every step of the system is one of these as far as the text goes.        *)

(* Replica r observes op, and nothing else is observed by anyone.           *)
Observes(r, op) ==
    /\ issued' = issued \cup {op}
    /\ ~Observed(version[r], op.timestamp)
    /\ ObservedAll(version[r], op.version)
    /\ \A s \in Replicas, o \in issued' :
           Observed(version'[s], o.timestamp) <=>
               \/ o \in issued /\ Observed(version[s], o.timestamp)
               \/ s = r /\ o = op
    /\ \A o \in issued : o.timestamp = op.timestamp => o = op

LocalEdit(r, op) ==
    /\ Observes(r, op)
    /\ op \notin issued /\ op.kind = "edit"
    /\ op.timestamp = EditTimestamp(r) /\ op.version = version[r]
    /\ op.length \in 0..MaxInsertion
    /\ \E start \in 0..VisibleLength(fragments[r]) : \E end \in start..VisibleLength(fragments[r]) :
           /\ op.start = LocalPlace(fragments[r], start)
           /\ op.end = LocalEnd(fragments[r], start, end)
           /\ fragments' = [fragments EXCEPT ![r] =
                               ApplyLocalEdit(@, op.timestamp, start, end, op.length)]
    /\ undoMap' = undoMap

RemoteEdit(r, op) ==
    /\ Observes(r, op)
    /\ op \in issued /\ op.kind = "edit"
    /\ fragments' = [fragments EXCEPT ![r] = ApplyRemoteEdit(@, op, undoMap[r])]
    /\ undoMap' = undoMap

AppliedUndo(r, op) ==
    /\ Observes(r, op)
    /\ op.kind = "undo"
    /\ undoMap' = [undoMap EXCEPT ![r] = WithUndo(@, op)]
    /\ fragments' = [fragments EXCEPT ![r] = ApplyUndo(@, op, WithUndo(undoMap[r], op))]

TextKept == UNCHANGED <<fragments, undoMap, version, issued>>

LEMMA SeenIsObserved ==
    ASSUME NEW v, NEW o \in issued
    PROVE  o.timestamp \in Seen(v) <=> Observed(v, o.timestamp)
  BY DEF Seen, Observed

LEMMA ReflexiveVersion ==
    ASSUME DeliveryTypeOK, NEW r \in Replicas
    PROVE  ObservedAll(version[r], version[r])
  BY Numbers DEF ObservedAll, DeliveryTypeOK

LEMMA IssueObserves ==
    ASSUME DeliveryTypeOK, Causality, NEW r \in Replicas, NEW op, IssueOf(r, op)
    PROVE  Observes(r, op) /\ op \notin issued
  <1>1. /\ issued' = issued \cup {op} /\ op.version = version[r]
        /\ \A s \in Replicas : ~Observed(version[s], op.timestamp)
        /\ \A o \in issued : o.timestamp # op.timestamp
    BY IssueUnseen DEF IssueOf
  <1>2. Applied' = [Applied EXCEPT ![r] = @ \cup {op.timestamp}]
    BY IssueIsIssue
  <1>3. ASSUME NEW s \in Replicas PROVE Applied[s] = Seen(version[s]) /\ Applied'[s] = Seen(version[s])'
    BY DEF Applied
  <1>4. ASSUME NEW s \in Replicas, NEW o \in issued'
        PROVE  Observed(version'[s], o.timestamp) <=>
                   \/ o \in issued /\ Observed(version[s], o.timestamp)
                   \/ s = r /\ o = op
    <2>1. Applied'[s] = IF s = r THEN Applied[s] \cup {op.timestamp} ELSE Applied[s]
      BY <1>2 DEF Applied
    <2>2. Observed(version'[s], o.timestamp) <=> o.timestamp \in Applied'[s]
      BY <1>3 DEF Seen, Observed
    <2>3. o \in issued => (Observed(version[s], o.timestamp) <=> o.timestamp \in Applied[s])
      BY <1>3, SeenIsObserved
    <2>4. op.timestamp \notin Applied[s]
      BY <1>1, <1>3 DEF Seen
    <2>5. o \in issued \/ o = op
      BY <1>1
    <2> QED
      BY <1>1, <2>1, <2>2, <2>3, <2>4, <2>5
  <1>5. ObservedAll(version[r], op.version)
    BY <1>1, ReflexiveVersion
  <1> QED
    BY <1>1, <1>4, <1>5 DEF Observes

LEMMA ApplyObserves ==
    ASSUME DeliveryTypeOK, Causality, NEW r \in Replicas, NEW op \in issued, UNCHANGED issued,
           AppliesOf(r, op), ObservedAll(version[r], op.version), ~Observed(version[r], op.timestamp)
    PROVE  Observes(r, op)
  <1>1. Applied' = [Applied EXCEPT ![r] = @ \cup {op.timestamp}]
    BY ApplyIsApply
  <1>2. ASSUME NEW s \in Replicas PROVE Applied[s] = Seen(version[s]) /\ Applied'[s] = Seen(version[s])'
    BY DEF Applied
  <1>3. ASSUME NEW o \in issued, o.timestamp = op.timestamp PROVE o = op
    BY <1>3, Numbers DEF Causality, OneAuthorInOrder, Precedes
  <1>4. ASSUME NEW s \in Replicas, NEW o \in issued'
        PROVE  Observed(version'[s], o.timestamp) <=>
                   \/ o \in issued /\ Observed(version[s], o.timestamp)
                   \/ s = r /\ o = op
    <2>1. Applied'[s] = IF s = r THEN Applied[s] \cup {op.timestamp} ELSE Applied[s]
      BY <1>1 DEF Applied
    <2>2. Observed(version'[s], o.timestamp) <=> o.timestamp \in Applied'[s]
      BY <1>2 DEF Seen, Observed
    <2>3. Observed(version[s], o.timestamp) <=> o.timestamp \in Applied[s]
      BY <1>2, SeenIsObserved
    <2> QED
      BY <1>3, <2>1, <2>2, <2>3
  <1> QED
    BY <1>3, <1>4 DEF Observes

LEMMA MakeEditIsLocalEdit ==
    ASSUME DeliveryTypeOK, Causality, NEW r \in Replicas, Idle, MakeEdit(r),
           UNCHANGED <<deferVars, call>>
    PROVE  \E op : LocalEdit(r, op)
  <1>1. PICK start \in 0..VisibleLength(fragments[r]), length \in 0..MaxInsertion :
           \E end \in start..VisibleLength(fragments[r]) :
              /\ fragments' = [fragments EXCEPT ![r] =
                               ApplyLocalEdit(@, EditTimestamp(r), start, end, length)]
              /\ Broadcast(r, [kind |-> "edit", timestamp |-> EditTimestamp(r),
                               version |-> version[r],
                               start |-> LocalPlace(fragments[r], start),
                               end |-> LocalEnd(fragments[r], start, end),
                               length |-> length])
    BY DEF MakeEdit
  <1>2. PICK end \in start..VisibleLength(fragments[r]) :
              /\ fragments' = [fragments EXCEPT ![r] =
                               ApplyLocalEdit(@, EditTimestamp(r), start, end, length)]
              /\ Broadcast(r, [kind |-> "edit", timestamp |-> EditTimestamp(r),
                               version |-> version[r],
                               start |-> LocalPlace(fragments[r], start),
                               end |-> LocalEnd(fragments[r], start, end),
                               length |-> length])
    BY <1>1
  <1> DEFINE op == [kind |-> "edit", timestamp |-> EditTimestamp(r), version |-> version[r],
                    start |-> LocalPlace(fragments[r], start),
                    end |-> LocalEnd(fragments[r], start, end), length |-> length]
  <1>3. /\ op.kind = "edit" /\ op.timestamp = EditTimestamp(r) /\ op.version = version[r]
        /\ op.start = LocalPlace(fragments[r], start) /\ op.end = LocalEnd(fragments[r], start, end)
        /\ op.length = length /\ Broadcast(r, op)
    BY <1>2
  <1> HIDE DEF op
  <1>4. IssueOf(r, op)
    <2>1. clock[r] \in Nat /\ clock[r] + 2 = (clock[r] + 1) + 1
      BY Numbers
    <2>2. op.timestamp.value = clock[r] + 1 /\ op.timestamp = Timestamp(r, op.timestamp.value)
      BY <1>3 DEF EditTimestamp, Timestamp
    <2>3. clock' = [clock EXCEPT ![r] = clock[r] + 2] /\ version' = [version EXCEPT ![r] = Observe(@, op.timestamp)]
      BY <1>3 DEF MakeEdit
    <2>4. clock' = [clock EXCEPT ![r] = op.timestamp.value + 1]
      BY <2>1, <2>2, <2>3
    <2> QED
      BY <1>3, <2>2, <2>3, <2>4 DEF IssueOf, Broadcast
  <1>5. undoMap' = undoMap
    BY DEF MakeEdit
  <1>6. LocalEdit(r, op)
    BY <1>2, <1>3, <1>4, <1>5, IssueObserves DEF LocalEdit
  <1> QED
    BY <1>6

LEMMA UndoIsAppliedUndo ==
    ASSUME DeliveryTypeOK, Causality, NEW r \in Replicas, NEW edits, Idle, UndoOrRedo(r, edits),
           UNCHANGED <<deferVars, call>>
    PROVE  AppliedUndo(r, UndoOp(r, edits)) /\ UndoOp(r, edits) \notin issued
  <1> DEFINE op == UndoOp(r, edits)
  <1>1. /\ op.kind = "undo" /\ op.timestamp = Timestamp(r, clock[r]) /\ op.version = version[r]
        /\ Broadcast(r, op)
        /\ undoMap' = [undoMap EXCEPT ![r] = WithUndo(undoMap[r], op)]
        /\ fragments' = [fragments EXCEPT ![r] = ApplyUndo(@, op, WithUndo(undoMap[r], op))]
        /\ version' = [version EXCEPT ![r] = Observe(@, op.timestamp)]
        /\ clock' = [clock EXCEPT ![r] = clock[r] + 1]
    BY DEF UndoOp, UndoOrRedo
  <1> HIDE DEF op
  <1>2. IssueOf(r, op)
    BY <1>1 DEF IssueOf, Broadcast, Timestamp
  <1> QED
    BY <1>1, <1>2, IssueObserves DEF AppliedUndo, op

LEMMA ApplyIsTextStep ==
    ASSUME DeliveryTypeOK, Causality, NEW r \in Replicas, NEW op \in issued, Apply(r, op),
           UNCHANGED issued, ObservedAll(version[r], op.version)
    PROVE  TextKept \/ RemoteEdit(r, op) \/ AppliedUndo(r, op)
  <1>1. CASE Observed(version[r], op.timestamp)
    BY <1>1 DEF Apply, TextKept, textVars, clockVars
  <1>2. CASE ~Observed(version[r], op.timestamp)
    <2>1. Observes(r, op)
      BY <1>2, ApplyEffect, ApplyObserves
    <2> QED
      BY <1>2, <2>1 DEF Apply, RemoteEdit, AppliedUndo, textVars
  <1> QED
    BY <1>1, <1>2

LEMMA ApplyStepIsTextStep ==
    ASSUME DeliveryTypeOK, Causality, NEW r \in Replicas, ApplyStep(r)
    PROVE  TextKept \/ \E op : RemoteEdit(r, op) \/ AppliedUndo(r, op)
  <1>1. issued' = issued
    BY DEF ApplyStep, ApplyFromBatch, StartFlush, ApplyFromQueue, EndFlush, netVars
  <1>2. CASE ApplyFromBatch(r)
    <2>1. call.batch \in Seq(issued) /\ call.batch # <<>>
      BY <1>2 DEF DeliveryTypeOK, Calls, ApplyFromBatch
    <2>2. Head(call.batch) \in issued
      BY <2>1
    <2>3. CASE Postpone(r, Head(call.batch))
      BY <1>1, <2>3 DEF Postpone, TextKept, textVars, clockVars
    <2>4. CASE CanApply(r, Head(call.batch)) /\ Apply(r, Head(call.batch))
      BY <1>1, <2>2, <2>4, ApplyIsTextStep DEF CanApply
    <2> QED
      BY <1>2, <2>3, <2>4 DEF ApplyFromBatch
  <1>3. CASE ApplyFromQueue(r)
    <2>1. PICK op \in call.draining : (CanApply(r, op) /\ Apply(r, op)) \/ Postpone(r, op)
      BY <1>3 DEF ApplyFromQueue
    <2>2. op \in issued
      BY DEF DeliveryTypeOK, Calls
    <2>3. CASE Postpone(r, op)
      BY <1>1, <2>3 DEF Postpone, TextKept, textVars, clockVars
    <2>4. CASE CanApply(r, op) /\ Apply(r, op)
      BY <1>1, <2>2, <2>4, ApplyIsTextStep DEF CanApply
    <2> QED
      BY <2>1, <2>3, <2>4
  <1>4. CASE StartFlush(r) \/ EndFlush(r)
    BY <1>1, <1>4 DEF StartFlush, EndFlush, TextKept, textVars, clockVars
  <1> QED
    BY <1>2, <1>3, <1>4 DEF ApplyStep

LEMMA TextSteps ==
    ASSUME DeliveryTypeOK, Causality, [Next]_vars
    PROVE  \/ TextKept
           \/ \E r \in Replicas : \E op : LocalEdit(r, op) \/ RemoteEdit(r, op) \/ AppliedUndo(r, op)
  <1>1. CASE UNCHANGED vars
    BY <1>1 DEF vars, TextKept, textVars, clockVars, netVars
  <1>2. ASSUME NEW r \in Replicas, Edit(r) PROVE \E op : LocalEdit(r, op)
    BY <1>2, MakeEditIsLocalEdit DEF Edit
  <1>3. ASSUME NEW r \in Replicas, Undo(r) \/ Redo(r) PROVE \E op : AppliedUndo(r, op)
    BY <1>3, UndoIsAppliedUndo DEF Undo, Redo
  <1>4. ASSUME NEW r \in Replicas, Receive(r) \/ SendRequest(r) PROVE TextKept
    BY <1>4 DEF Receive, SendRequest, TextKept, textVars, clockVars, netVars
  <1>5. ASSUME NEW i, AnswerRequest(i) PROVE \E op : LocalEdit(LOCAL_REPLICA, op)
    BY <1>5, MakeEditIsLocalEdit, ReplicasAssumption DEF AnswerRequest
  <1>6. ASSUME NEW i, ReceiveRequest(i) \/ ReceiveAnswer(i) \/ PushTransaction(i) PROVE TextKept
    BY <1>6 DEF ReceiveRequest, ReceiveAnswer, PushTransaction, TextKept, textVars, clockVars, netVars
  <1>7. CASE Next
    BY <1>2, <1>3, <1>4, <1>5, <1>6, <1>7, ApplyStepIsTextStep, ReplicasAssumption DEF Next, RequestStep
  <1> QED
    BY <1>1, <1>7
-----------------------------------------------------------------------------
(* The inductive invariant.                                                 *)

TextTypeOK ==
    /\ fragments \in [Replicas -> Seq(Characters)]
    /\ \A o \in Edits : o.length \in Nat /\ o.start \in Nat /\ 1 < o.timestamp.value

(* The k-th character of the insertion t is part of what r has observed.    *)
HasInserted(r, t, k) ==
    \/ t = BaseTimestamp /\ k \in 1..BaseLength
    \/ \E o \in Edits : o.timestamp = t /\ Observed(version[r], t) /\ k \in 1..o.length

(* A replica holds the characters of the edits it has observed and no other, *)
(* those of one edit in their order.                                        *)
HoldsOnly(r) ==
    \A i \in DOMAIN fragments[r] : HasInserted(r, fragments[r][i].timestamp, fragments[r][i].offset)

HoldsAll(r) ==
    \A t, k : HasInserted(r, t, k) =>
        \E i \in DOMAIN fragments[r] : fragments[r][i].timestamp = t /\ fragments[r][i].offset = k

InOffsetOrder(F) ==
    \A i, j \in DOMAIN F : i < j /\ F[i].timestamp = F[j].timestamp => F[i].offset < F[j].offset

CharactersOK == \A r \in Replicas : HoldsOnly(r) /\ HoldsAll(r) /\ InOffsetOrder(fragments[r])

(* All that stands between the landing of an edit and its last character is *)
(* its own or of later edits.                                               *)
Placed(F, o, n) ==
    /\ IsLanding(F, o, n)
    /\ \A j \in DOMAIN F : F[j].timestamp = o.timestamp =>
           /\ n < j
           /\ \A i \in (n + 1)..j :
                  F[i].timestamp = o.timestamp \/ Before(o.timestamp, F[i].timestamp)

EditsPlaced ==
    \A r \in Replicas, o \in Edits :
        Observed(version[r], o.timestamp) => \E n : Placed(fragments[r], o, n)

OrderInv == TextTypeOK /\ CharactersOK /\ EditsPlaced /\ OneOrder

-----------------------------------------------------------------------------
(* What the invariant says of one replica, and of two.                      *)

LEMMA OffsetOrderDistinct ==
    ASSUME NEW F \in Seq(Characters), InOffsetOrder(F)
    PROVE  Distinct(F)
  <1>1. DOMAIN F \subseteq Nat /\ \A i \in DOMAIN F : F[i] \in Characters
    OBVIOUS
  <1>2. \A i \in DOMAIN F : F[i].offset \in Nat
    BY <1>1 DEF Characters
  <1> QED
    BY <1>1, <1>2 DEF Distinct, SameCharacter, InOffsetOrder

LEMMA TextFacts ==
    ASSUME OrderInv, NEW r \in Replicas
    PROVE  /\ fragments[r] \in Seq(Characters)
           /\ Len(fragments[r]) \in Nat
           /\ DOMAIN fragments[r] = 1..Len(fragments[r])
           /\ \A i \in 1..Len(fragments[r]) :
                  /\ fragments[r][i] \in Characters
                  /\ fragments[r][i].timestamp \in Timestamps
           /\ Distinct(fragments[r])
           /\ InOffsetOrder(fragments[r])
           /\ HoldsOnly(r)
           /\ HoldsAll(r)
  <1>1. fragments[r] \in Seq(Characters)
    BY DEF OrderInv, TextTypeOK
  <1>2. HoldsOnly(r) /\ HoldsAll(r) /\ InOffsetOrder(fragments[r])
    BY DEF OrderInv, CharactersOK
  <1>3. \A i \in 1..Len(fragments[r]) : fragments[r][i] \in Characters
    BY <1>1
  <1>4. \A i \in 1..Len(fragments[r]) : fragments[r][i].timestamp \in Timestamps
    BY <1>3 DEF Characters
  <1> QED
    BY <1>1, <1>2, <1>3, <1>4, OffsetOrderDistinct

LEMMA TransitiveVersion ==
    ASSUME DeliveryTypeOK, NEW s \in Replicas, NEW v \in [Replicas -> Nat], ObservedAll(version[s], v),
           NEW t \in Timestamps, Observed(v, t)
    PROVE  Observed(version[s], t)
  <1>1. t.replica \in Replicas /\ t.value \in Nat
    BY DEF Timestamps
  <1>2. version[s][t.replica] \in Nat /\ v[t.replica] \in Nat
    BY <1>1, Numbers
  <1>3. version[s][t.replica] >= v[t.replica]
    BY <1>1 DEF ObservedAll
  <1> QED
    BY <1>1, <1>2, <1>3 DEF Observed

(* What one replica holds of a version, every one that has observed the     *)
(* version holds.                                                           *)
LEMMA HeldByBoth ==
    ASSUME DeliveryTypeOK, OrderInv, NEW r \in Replicas, NEW s \in Replicas,
           NEW v \in [Replicas -> Nat], ObservedAll(version[s], v),
           NEW i \in 1..Len(fragments[r]), Observed(v, fragments[r][i].timestamp)
    PROVE  \E k \in 1..Len(fragments[s]) : SameCharacter(fragments[r][i], fragments[s][k])
  <1> DEFINE f == fragments[r][i]
  <1>1. f.timestamp \in Timestamps /\ HasInserted(r, f.timestamp, f.offset)
    BY TextFacts DEF HoldsOnly
  <1>2. Observed(version[s], f.timestamp)
    BY <1>1, TransitiveVersion
  <1>3. HasInserted(s, f.timestamp, f.offset)
    BY <1>1, <1>2 DEF HasInserted
  <1>4. HoldsAll(s) /\ DOMAIN fragments[s] = 1..Len(fragments[s])
    BY TextFacts
  <1>5. \E k \in 1..Len(fragments[s]) : fragments[s][k].timestamp = f.timestamp /\ fragments[s][k].offset = f.offset
    <2> HIDE DEF f
    <2> QED
      BY <1>3, <1>4 DEF HoldsAll
  <1> QED
    BY <1>5 DEF SameCharacter

LEMMA OrderOf ==
    ASSUME OrderInv, NEW r \in Replicas, NEW s \in Replicas,
           NEW i \in 1..Len(fragments[r]), NEW j \in 1..Len(fragments[r]),
           NEW k \in 1..Len(fragments[s]), NEW l \in 1..Len(fragments[s]),
           SameCharacter(fragments[r][i], fragments[s][k]),
           SameCharacter(fragments[r][j], fragments[s][l])
    PROVE  i < j <=> k < l
  <1>1. DOMAIN fragments[r] = 1..Len(fragments[r]) /\ DOMAIN fragments[s] = 1..Len(fragments[s])
    BY TextFacts
  <1> QED
    BY <1>1 DEF OrderInv, OneOrder

(* The same character has as many of a version before it at both.           *)
LEMMA CountsAgree ==
    ASSUME DeliveryTypeOK, OrderInv, NEW r \in Replicas, NEW s \in Replicas,
           NEW v \in [Replicas -> Nat], ObservedAll(version[r], v), ObservedAll(version[s], v),
           NEW n \in 1..Len(fragments[r]), NEW m \in 1..Len(fragments[s]),
           SameCharacter(fragments[r][n], fragments[s][m])
    PROVE  FullOffset(fragments[r], v, n) = FullOffset(fragments[s], v, m)
  <1> DEFINE F == fragments[r]
             S == fragments[s]
  <1>1. /\ Len(F) \in Nat /\ DOMAIN F = 1..Len(F) /\ Distinct(F)
        /\ Len(S) \in Nat /\ DOMAIN S = 1..Len(S) /\ Distinct(S)
    BY TextFacts
  <1>2. ASSUME NEW i \in 1..n, Observed(v, F[i].timestamp)
        PROVE  \E k \in 1..m : SameCharacter(F[i], S[k])
    <2>1. i \in 1..Len(F)
      BY <1>1
    <2>2. PICK k \in 1..Len(S) : SameCharacter(F[i], S[k])
      BY <1>2, <2>1, HeldByBoth
    <2>3. n < i <=> m < k
      BY <2>1, <2>2, OrderOf
    <2>4. k \in 1..m
      BY <1>1, <2>1, <2>3
    <2> QED
      BY <2>2, <2>4
  <1>3. ASSUME NEW k \in 1..m, Observed(v, S[k].timestamp)
        PROVE  \E i \in 1..n : SameCharacter(S[k], F[i])
    <2>1. k \in 1..Len(S)
      BY <1>1
    <2>2. PICK i \in 1..Len(F) : SameCharacter(S[k], F[i])
      BY <1>3, <2>1, HeldByBoth
    <2>3. SameCharacter(F[i], S[k])
      BY <2>2 DEF SameCharacter
    <2>4. n < i <=> m < k
      BY <2>1, <2>2, <2>3, OrderOf
    <2>5. i \in 1..n
      BY <1>1, <2>1, <2>4
    <2> QED
      BY <2>2, <2>5
  <1>4. SameUpto(F, n, S, m, v) /\ SameUpto(S, m, F, n, v)
    BY <1>2, <1>3 DEF SameUpto
  <1>5. 1..n \subseteq DOMAIN F /\ 1..m \subseteq DOMAIN S /\ n \in Nat /\ m \in Nat
    BY <1>1
  <1> HIDE DEF F, S
  <1>6. FullOffset(F, v, n) = FullOffset(S, v, m)
    BY SMTT(30), <1>1, <1>4, <1>5, SameCount
  <1> QED
    BY <1>6 DEF F, S

(* An edit has its landing after the same character at both.                *)
SameLanding(F, n, S, m) ==
    /\ n = 0 <=> m = 0
    /\ n > 0 => SameCharacter(F[n], S[m])

LEMMA LandingCarries ==
    ASSUME DeliveryTypeOK, OrderInv, NEW r \in Replicas, NEW s \in Replicas,
           NEW o, o.version \in [Replicas -> Nat],
           ObservedAll(version[r], o.version), ObservedAll(version[s], o.version),
           NEW n, IsLanding(fragments[r], o, n)
    PROVE  \E m : IsLanding(fragments[s], o, m) /\ SameLanding(fragments[r], n, fragments[s], m)
  <1>1. n \in 0..Len(fragments[r]) /\ Len(fragments[r]) \in Nat /\ Len(fragments[s]) \in Nat
    BY TextFacts DEF IsLanding
  <1>2. CASE n = 0
    <2>1. o.start = 0 /\ FullOffset(fragments[s], o.version, 0) = 0
      BY <1>2, OffsetFacts DEF IsLanding
    <2>2. IsLanding(fragments[s], o, 0)
      BY <1>1, <2>1 DEF IsLanding
    <2> QED
      BY <1>2, <2>2 DEF SameLanding
  <1>3. CASE n > 0
    <2>1. n \in 1..Len(fragments[r]) /\ Observed(o.version, fragments[r][n].timestamp)
      BY <1>1, <1>3 DEF IsLanding
    <2>2. PICK m \in 1..Len(fragments[s]) : SameCharacter(fragments[r][n], fragments[s][m])
      BY <2>1, HeldByBoth
    <2>3. FullOffset(fragments[s], o.version, m) = o.start
      BY <2>1, <2>2, CountsAgree DEF IsLanding
    <2>4. IsLanding(fragments[s], o, m)
      BY <1>1, <2>1, <2>2, <2>3 DEF IsLanding, SameCharacter
    <2> QED
      BY <1>1, <1>3, <2>2, <2>4 DEF SameLanding
  <1> QED
    BY <1>1, <1>2, <1>3

LEMMA LandingsAgree ==
    ASSUME DeliveryTypeOK, OrderInv, NEW r \in Replicas, NEW s \in Replicas,
           NEW o, o.version \in [Replicas -> Nat],
           ObservedAll(version[r], o.version), ObservedAll(version[s], o.version),
           NEW n, IsLanding(fragments[r], o, n), NEW m, IsLanding(fragments[s], o, m)
    PROVE  SameLanding(fragments[r], n, fragments[s], m)
  <1>1. PICK l : IsLanding(fragments[s], o, l) /\ SameLanding(fragments[r], n, fragments[s], l)
    BY LandingCarries
  <1>2. l = m
    BY <1>1, TextFacts, OneLanding
  <1> QED
    BY <1>1, <1>2
-----------------------------------------------------------------------------
(* An insertion goes to the same side of a character at every replica.      *)

LEMMA BeforeFacts ==
    /\ \A t, u \in Timestamps : t # u => Before(t, u) \/ Before(u, t)
    /\ \A t, u \in Timestamps : Before(t, u) => t # u /\ ~Before(u, t)
    /\ \A t, u, w \in Timestamps : Before(t, u) /\ Before(u, w) => Before(t, w)
  <1> SUFFICES ASSUME NEW t \in Timestamps, NEW u \in Timestamps, NEW w \in Timestamps
               PROVE  /\ t # u => Before(t, u) \/ Before(u, t)
                      /\ Before(t, u) => t # u /\ ~Before(u, t)
                      /\ Before(t, u) /\ Before(u, w) => Before(t, w)
    OBVIOUS
  <1>1. /\ t.value \in Nat /\ u.value \in Nat /\ w.value \in Nat
        /\ t.replica \in Nat /\ u.replica \in Nat /\ w.replica \in Nat
    BY ReplicasAssumption DEF Timestamps
  <1>2. t.replica = u.replica /\ t.value = u.value => t = u
    BY DEF Timestamps
  <1> QED
    BY <1>1, <1>2 DEF Before

(* Where an insertion may go: after its landing and later ones.             *)
PlaceOK(F, o, n, p) ==
    /\ IsLanding(F, o, n)
    /\ p \in n..Len(F)
    /\ \A i \in (n + 1)..p : Before(o.timestamp, F[i].timestamp)
    /\ p < Len(F) => ~Before(o.timestamp, F[p + 1].timestamp)

LEMMA IssuedFacts ==
    ASSUME DeliveryTypeOK, Causality, NEW o \in Edits
    PROVE  /\ o \in issued /\ o.timestamp \in Timestamps /\ o.version \in [Replicas -> Nat]
           /\ \A r \in Replicas : Observed(version[r], o.timestamp) => ObservedAll(version[r], o.version)
           /\ \A q \in Edits : q.timestamp = o.timestamp => q = o
  <1>1. o \in issued /\ o.timestamp \in Timestamps /\ o.version \in [Replicas -> Nat]
    BY DEF Edits, DeliveryTypeOK
  <1>2. \A r \in Replicas : Observed(version[r], o.timestamp) => ObservedAll(version[r], o.version)
    BY <1>1 DEF Causality, AppliedInOrder
  <1>3. ASSUME NEW q \in Edits, q.timestamp = o.timestamp PROVE q = o
    <2>1. q \in issued /\ o.timestamp.value \in Nat
      BY Numbers DEF Edits
    <2> QED
      BY <1>1, <1>3, <2>1 DEF Causality, OneAuthorInOrder, Precedes
  <1> QED
    BY <1>1, <1>2, <1>3

(* An edit that has not been observed has no character.                     *)
LEMMA NotYetHeld ==
    ASSUME OrderInv, NEW r \in Replicas, NEW t, 1 < t.value, ~Observed(version[r], t),
           NEW i \in 1..Len(fragments[r])
    PROVE  fragments[r][i].timestamp # t
  <1>1. HasInserted(r, fragments[r][i].timestamp, fragments[r][i].offset)
    BY TextFacts DEF HoldsOnly
  <1>2. BaseTimestamp.value = 1
    BY DEF BaseTimestamp, Timestamp
  <1> QED
    BY <1>1, <1>2 DEF HasInserted

(* A character that is no part of the base is of an edit, with a landing.   *)
LEMMA CharacterPlaced ==
    ASSUME DeliveryTypeOK, Causality, OrderInv, NEW r \in Replicas, NEW i \in 1..Len(fragments[r]),
           1 < fragments[r][i].timestamp.value
    PROVE  \E o \in Edits : /\ o.timestamp = fragments[r][i].timestamp
                            /\ Observed(version[r], o.timestamp)
                            /\ \E n : Placed(fragments[r], o, n)
  <1>1. HasInserted(r, fragments[r][i].timestamp, fragments[r][i].offset)
    BY TextFacts DEF HoldsOnly
  <1>2. BaseTimestamp.value = 1
    BY DEF BaseTimestamp, Timestamp
  <1>3. PICK o \in Edits : o.timestamp = fragments[r][i].timestamp /\ Observed(version[r], o.timestamp)
    BY <1>1, <1>2 DEF HasInserted
  <1> QED
    BY <1>3 DEF OrderInv, EditsPlaced

(* Two replicas look for a character they both hold after the same one.     *)
LEMMA Descend ==
    ASSUME DeliveryTypeOK, Causality, OrderInv, NEW r \in Replicas, NEW s \in Replicas,
           NEW i \in 1..Len(fragments[r]), NEW k \in 1..Len(fragments[s]),
           SameCharacter(fragments[r][i], fragments[s][k]), 1 < fragments[r][i].timestamp.value
    PROVE  \E a \in Nat, b \in Nat :
               /\ a < i /\ b < k
               /\ SameLanding(fragments[r], a, fragments[s], b)
               /\ \A j \in (a + 1)..i : \/ fragments[r][j].timestamp = fragments[r][i].timestamp
                                        \/ Before(fragments[r][i].timestamp, fragments[r][j].timestamp)
               /\ \A l \in (b + 1)..k : \/ fragments[s][l].timestamp = fragments[r][i].timestamp
                                        \/ Before(fragments[r][i].timestamp, fragments[s][l].timestamp)
  <1> DEFINE t == fragments[r][i].timestamp
  <1>1. fragments[s][k].timestamp = t
    BY DEF SameCharacter
  <1>2. PICK o \in Edits : /\ o.timestamp = t
                           /\ Observed(version[r], o.timestamp)
                           /\ \E n : Placed(fragments[r], o, n)
    BY CharacterPlaced
  <1>3. PICK q \in Edits : /\ q.timestamp = t
                           /\ Observed(version[s], q.timestamp)
                           /\ \E n : Placed(fragments[s], q, n)
    BY <1>1, CharacterPlaced
  <1>4. q = o
    BY <1>2, <1>3, IssuedFacts
  <1>5. PICK a : Placed(fragments[r], o, a)
    BY <1>2
  <1>6. PICK b : Placed(fragments[s], o, b)
    BY <1>3, <1>4
  <1>7. /\ o.version \in [Replicas -> Nat]
        /\ ObservedAll(version[r], o.version) /\ ObservedAll(version[s], o.version)
    BY <1>2, <1>3, <1>4, IssuedFacts
  <1>8. SameLanding(fragments[r], a, fragments[s], b)
    BY <1>5, <1>6, <1>7, LandingsAgree DEF Placed
  <1>9. a \in Nat /\ b \in Nat
    BY <1>5, <1>6 DEF Placed, IsLanding
  <1>10. DOMAIN fragments[r] = 1..Len(fragments[r]) /\ DOMAIN fragments[s] = 1..Len(fragments[s])
    BY TextFacts
  <1>11. a < i /\ \A j \in (a + 1)..i : fragments[r][j].timestamp = t \/ Before(t, fragments[r][j].timestamp)
    BY <1>2, <1>5, <1>10 DEF Placed
  <1>12. b < k /\ \A l \in (b + 1)..k : fragments[s][l].timestamp = t \/ Before(t, fragments[s][l].timestamp)
    BY <1>1, <1>2, <1>6, <1>10 DEF Placed
  <1> HIDE DEF t
  <1>13. \E x \in Nat, y \in Nat :
               /\ x < i /\ y < k
               /\ SameLanding(fragments[r], x, fragments[s], y)
               /\ \A j \in (x + 1)..i : fragments[r][j].timestamp = t \/ Before(t, fragments[r][j].timestamp)
               /\ \A l \in (y + 1)..k : fragments[s][l].timestamp = t \/ Before(t, fragments[s][l].timestamp)
    BY <1>8, <1>9, <1>11, <1>12
  <1> QED
    BY <1>13 DEF t

(* s has observed the edit op, r has not and finds place p for it.          *)
LEMMA Sides ==
    ASSUME DeliveryTypeOK, Causality, OrderInv, NEW r \in Replicas, NEW s \in Replicas,
           NEW op \in Edits, ~Observed(version[r], op.timestamp), ObservedAll(version[r], op.version),
           NEW n, NEW p, PlaceOK(fragments[r], op, n, p),
           NEW m \in 1..Len(fragments[s]), fragments[s][m].timestamp = op.timestamp,
           NEW i \in 1..Len(fragments[r]), NEW k \in 1..Len(fragments[s]),
           SameCharacter(fragments[r][i], fragments[s][k])
    PROVE  k # m /\ (i <= p <=> k < m)
  <1> DEFINE F == fragments[r]
             S == fragments[s]
             t == op.timestamp
             late == {l \in 1..Len(S) : l < m /\ \E j \in 1..Len(F) : j > p /\ SameCharacter(F[j], S[l])}
             early == {j \in 1..Len(F) : j <= p /\ \E l \in 1..Len(S) : l > m /\ SameCharacter(F[j], S[l])}
  <1>1. /\ Len(F) \in Nat /\ DOMAIN F = 1..Len(F) /\ \A j \in 1..Len(F) : F[j].timestamp \in Timestamps
        /\ Len(S) \in Nat /\ DOMAIN S = 1..Len(S) /\ \A l \in 1..Len(S) : S[l].timestamp \in Timestamps
    BY TextFacts
  <1>2. /\ op.version \in [Replicas -> Nat] /\ t \in Timestamps /\ 1 < t.value /\ t.value \in Nat
    BY IssuedFacts DEF OrderInv, TextTypeOK, Timestamps
  <1>3. \A j \in 1..Len(F) : F[j].timestamp # t
    BY <1>2, NotYetHeld
  <1>4. /\ n \in Nat /\ p \in Nat /\ n <= p /\ p <= Len(F)
        /\ \A j \in (n + 1)..p : Before(t, F[j].timestamp)
        /\ p < Len(F) => ~Before(t, F[p + 1].timestamp)
        /\ IsLanding(F, op, n)
    BY <1>1 DEF PlaceOK, IsLanding
  <1>5. PICK o \in Edits : /\ o.timestamp = t
                           /\ Observed(version[s], o.timestamp)
                           /\ \E x : Placed(S, o, x)
    BY <1>2, CharacterPlaced
  <1>6. o = op
    BY <1>5, IssuedFacts
  <1>7. PICK ns : Placed(S, op, ns)
    BY <1>5, <1>6
  <1>8. ns \in Nat /\ ns < m /\ \A l \in (ns + 1)..m : S[l].timestamp = t \/ Before(t, S[l].timestamp)
    BY SMTT(30), <1>1, <1>7 DEF Placed, IsLanding
  <1>9. ObservedAll(version[s], op.version)
    BY <1>5, <1>6, IssuedFacts
  <1>10. SameLanding(F, n, S, ns)
    BY <1>2, <1>4, <1>7, <1>9, LandingsAgree DEF Placed
  <1>11. ASSUME NEW j \in 1..Len(F), NEW l \in 1..Len(S), SameCharacter(F[j], S[l])
         PROVE  n < j <=> ns < l
    <2>1. CASE n = 0
      BY <1>1, <1>10, <2>1 DEF SameLanding
    <2>2. CASE n # 0
      <3>1. n \in 1..Len(F) /\ ns # 0 /\ SameCharacter(F[n], S[ns])
        BY <1>1, <1>4, <1>10, <2>2 DEF SameLanding
      <3>2. ns \in 1..Len(S)
        BY <1>1, <1>8, <3>1
      <3> QED
        BY <1>11, <3>1, <3>2, OrderOf
    <2> QED
      BY <2>1, <2>2
  <1>12. ASSUME NEW j \in 1..Len(F), NEW l \in 1..Len(S), SameCharacter(F[j], S[l]), Before(t, F[j].timestamp)
         PROVE  \E a \in Nat, b \in Nat :
               /\ a < j /\ b < l
               /\ SameLanding(F, a, S, b)
               /\ \A x \in (a + 1)..j : Before(t, F[x].timestamp)
               /\ \A x \in (b + 1)..l : Before(t, S[x].timestamp)
    <2>1. F[j].timestamp \in Timestamps /\ F[j].timestamp.value \in Nat
      BY <1>1 DEF Timestamps
    <2>2. 1 < F[j].timestamp.value
      BY <1>2, <1>12, <2>1 DEF Before
    <2>3. PICK a \in Nat, b \in Nat :
               /\ a < j /\ b < l
               /\ SameLanding(F, a, S, b)
               /\ \A x \in (a + 1)..j : F[x].timestamp = F[j].timestamp \/ Before(F[j].timestamp, F[x].timestamp)
               /\ \A x \in (b + 1)..l : S[x].timestamp = F[j].timestamp \/ Before(F[j].timestamp, S[x].timestamp)
      BY <1>12, <2>2, Descend
    <2>4. \A x \in (a + 1)..j : x \in 1..Len(F)
      BY <1>1
    <2>5. \A x \in (b + 1)..l : x \in 1..Len(S)
      BY <1>1
    <2>6. ASSUME NEW x \in (a + 1)..j PROVE Before(t, F[x].timestamp)
      <3>1. F[x].timestamp \in Timestamps
        BY <1>1, <2>4
      <3>2. F[x].timestamp = F[j].timestamp \/ Before(F[j].timestamp, F[x].timestamp)
        BY <2>3
      <3> HIDE DEF F, t
      <3> QED
        BY <1>2, <1>12, <2>1, <3>1, <3>2, BeforeFacts
    <2>7. ASSUME NEW x \in (b + 1)..l PROVE Before(t, S[x].timestamp)
      <3>1. S[x].timestamp \in Timestamps
        BY <1>1, <2>5
      <3>2. S[x].timestamp = F[j].timestamp \/ Before(F[j].timestamp, S[x].timestamp)
        BY <2>3
      <3>3. t \in Timestamps /\ F[j].timestamp \in Timestamps /\ Before(t, F[j].timestamp)
        BY <1>2, <1>12, <2>1
      <3> DEFINE u == F[j].timestamp
                 w == S[x].timestamp
      <3> HIDE DEF u, w, t
      <3>4. Before(t, w)
        BY <3>1, <3>2, <3>3, BeforeFacts DEF u, w
      <3> QED
        BY <3>4 DEF w
    <2> QED
      BY <2>3, <2>6, <2>7
  <1>18. m \in Nat
    BY <1>1
  <1>13. late = {}
    <2> SUFFICES ASSUME late # {} PROVE FALSE
      OBVIOUS
    <2>1. late \in SUBSET Nat
      OBVIOUS
    <2>2. PICK l \in late : \A x \in late : l <= x
      <3> HIDE DEF late
      <3> QED
        BY <2>1, LeastNatural
    <2>3. l \in 1..Len(S) /\ l < m
      OBVIOUS
    <2>4. PICK j \in 1..Len(F) : j > p /\ SameCharacter(F[j], S[l])
      OBVIOUS
    <2>5. n < j /\ ns < l
      <3> HIDE DEF late, F, S
      <3>1. n < j
        BY <1>1, <1>4, <2>4
      <3> QED
        BY <1>11, <2>3, <2>4, <3>1
    <2>6. l \in (ns + 1)..m
      BY <1>8, <2>3, <2>5
    <2>7. F[j].timestamp = S[l].timestamp
      BY <2>4 DEF SameCharacter
    <2>8. Before(t, F[j].timestamp)
      BY <1>3, <1>8, <2>4, <2>6, <2>7
    <2> HIDE DEF late, F, S
    <2>9. PICK a \in Nat, b \in Nat :
               /\ a < j /\ b < l
               /\ SameLanding(F, a, S, b)
               /\ \A x \in (a + 1)..j : Before(t, F[x].timestamp)
      BY <1>12, <2>3, <2>4, <2>8
    <2>10. a > p
      <3> SUFFICES ASSUME a <= p PROVE FALSE
        BY <1>4, <2>9
      <3>1. p + 1 \in (a + 1)..j /\ p < Len(F)
        BY <1>1, <1>4, <2>4, <2>9
      <3> QED
        BY <1>4, <2>9, <3>1
    <2>11. a \in 1..Len(F) /\ b \in 1..Len(S) /\ SameCharacter(F[a], S[b])
      BY <1>1, <1>4, <2>3, <2>4, <2>9, <2>10 DEF SameLanding
    <2>12. b \in late
      BY <1>8, <2>3, <2>9, <2>10, <2>11 DEF late
    <2> QED
      BY <2>2, <2>3, <2>9, <2>11, <2>12
  <1>14. early = {}
    <2> SUFFICES ASSUME early # {} PROVE FALSE
      OBVIOUS
    <2>1. early \in SUBSET Nat
      OBVIOUS
    <2>2. PICK j \in early : \A x \in early : j <= x
      <3> HIDE DEF early
      <3> QED
        BY <2>1, LeastNatural
    <2>3. j \in 1..Len(F) /\ j <= p
      OBVIOUS
    <2>4. PICK l \in 1..Len(S) : l > m /\ SameCharacter(F[j], S[l])
      OBVIOUS
    <2>5. n < j
      BY <1>8, <1>11, <2>3, <2>4
    <2>6. j \in (n + 1)..p
      BY <1>4, <2>3, <2>5
    <2>7. Before(t, F[j].timestamp)
      BY <1>4, <2>6
    <2> HIDE DEF early, F, S
    <2>8. PICK a \in Nat, b \in Nat :
               /\ a < j /\ b < l
               /\ SameLanding(F, a, S, b)
               /\ \A x \in (b + 1)..l : Before(t, S[x].timestamp)
      BY <1>12, <2>3, <2>4, <2>7
    <2>9. b >= m
      <3> SUFFICES ASSUME b < m PROVE FALSE
        BY <1>1, <2>8
      <3>1. m \in (b + 1)..l
        BY <1>1, <2>4, <2>8
      <3>2. Before(t, S[m].timestamp) /\ S[m].timestamp = t
        BY <2>8, <3>1 DEF S
      <3> QED
        BY <1>2, <3>2, BeforeFacts
    <2>10. a \in 1..Len(F) /\ b \in 1..Len(S) /\ SameCharacter(F[a], S[b])
      BY <1>1, <2>3, <2>4, <2>8, <2>9 DEF SameLanding
    <2>11. b # m
      <3>1. S[m].timestamp = t
        BY DEF S
      <3> QED
        BY <1>3, <2>10, <3>1 DEF SameCharacter
    <2>12. a \in early
      <3>1. a <= p
        BY <1>1, <1>4, <2>3, <2>8
      <3>2. b > m
        BY <1>18, <2>8, <2>9, <2>11
      <3> QED
        BY <2>10, <3>1, <3>2 DEF early
    <2> QED
      BY <2>2, <2>3, <2>8, <2>10, <2>12
  <1>15. k # m
    BY <1>3 DEF SameCharacter
  <1>16. ASSUME i <= p PROVE k < m
    <2>1. ~(k > m)
      BY <1>14, <1>16
    <2> QED
      BY <1>15, <2>1
  <1>17. ASSUME i > p PROVE ~(k < m)
    BY <1>13, <1>17
  <1> HIDE DEF F, S, t, late, early
  <1> QED
    BY <1>1, <1>4, <1>15, <1>16, <1>17
-----------------------------------------------------------------------------
(* An insertion moves the landings of the edits that did not know of it.    *)

LEMMA OffsetMoves ==
    ASSUME NEW F \in Seq(Characters), NEW G \in Seq(Characters), Distinct(F), Distinct(G),
           NEW p, NEW t, NEW len, InsertedAt(F, G, p, t, len),
           NEW v, len = 0 \/ ~Observed(v, t), NEW n \in 0..Len(F)
    PROVE  FullOffset(G, v, Moved(p, len, n)) = FullOffset(F, v, n)
  <1> DEFINE m == Moved(p, len, n)
  <1>1. /\ Len(F) \in Nat /\ DOMAIN F = 1..Len(F)
        /\ Len(G) \in Nat /\ DOMAIN G = 1..Len(G)
        /\ p \in Nat /\ len \in Nat /\ Len(G) = Len(F) + len /\ n \in Nat
        /\ \A i \in 1..Len(F) : SameCharacter(G[Moved(p, len, i)], F[i])
    BY DEF InsertedAt
  <1>2. m \in Nat /\ 1..m \subseteq DOMAIN G /\ 1..n \subseteq DOMAIN F
    BY <1>1 DEF Moved
  <1>3. ASSUME NEW i \in 1..n PROVE \E k \in 1..m : SameCharacter(F[i], G[k])
    <2>1. i \in 1..Len(F) /\ i \in Nat
      BY <1>1
    <2>2. Moved(p, len, i) \in 1..m
      BY <1>1, <2>1 DEF Moved
    <2> QED
      BY <1>1, <2>1, <2>2 DEF SameCharacter
  <1>4. ASSUME NEW k \in 1..m, Observed(v, G[k].timestamp)
        PROVE  \E i \in 1..n : SameCharacter(G[k], F[i])
    <2>1. k \in 1..Len(G)
      BY <1>1, <1>2
    <2>2. CASE \E i \in 1..Len(F) : k = Moved(p, len, i) /\ SameCharacter(G[k], F[i])
      <3>1. PICK i \in 1..Len(F) : k = Moved(p, len, i) /\ SameCharacter(G[k], F[i])
        BY <2>2
      <3>2. i \in 1..n
        BY <1>1, <3>1 DEF Moved
      <3> QED
        BY <3>1, <3>2
    <2>3. CASE \E l \in 1..len : k = p + l /\ G[k].timestamp = t
      BY <1>1, <1>4, <2>3
    <2> HIDE DEF m
    <2> QED
      BY <1>1, <2>1, <2>2, <2>3, Origins
  <1>5. SameUpto(F, n, G, m, v) /\ SameUpto(G, m, F, n, v)
    BY <1>3, <1>4 DEF SameUpto
  <1> HIDE DEF m
  <1>6. FullOffset(F, v, n) = FullOffset(G, v, m)
    BY <1>1, <1>2, <1>5, SameCount
  <1> QED
    BY <1>6 DEF m

LEMMA LandingMoves ==
    ASSUME NEW F \in Seq(Characters), NEW G \in Seq(Characters), Distinct(F), Distinct(G),
           NEW p, NEW t, NEW len, InsertedAt(F, G, p, t, len),
           NEW o, len = 0 \/ ~Observed(o.version, t), NEW n, IsLanding(F, o, n)
    PROVE  IsLanding(G, o, Moved(p, len, n))
  <1>1. n \in 0..Len(F) /\ FullOffset(F, o.version, n) = o.start
    BY DEF IsLanding
  <1>2. FullOffset(G, o.version, Moved(p, len, n)) = o.start
    BY <1>1, OffsetMoves
  <1>3. Len(F) \in Nat /\ p \in Nat /\ len \in Nat /\ Len(G) = Len(F) + len
    BY DEF InsertedAt
  <1>4. Moved(p, len, n) \in 0..Len(G)
    BY <1>1, <1>3 DEF Moved
  <1>5. ASSUME Moved(p, len, n) > 0 PROVE Observed(o.version, G[Moved(p, len, n)].timestamp)
    <2>1. n \in 1..Len(F)
      BY <1>1, <1>3, <1>5 DEF Moved
    <2>2. SameCharacter(G[Moved(p, len, n)], F[n]) /\ Observed(o.version, F[n].timestamp)
      BY <2>1 DEF InsertedAt, IsLanding
    <2> QED
      BY <2>2 DEF SameCharacter
  <1> QED
    BY <1>2, <1>4, <1>5 DEF IsLanding

LEMMA TimestampOrigins ==
    ASSUME NEW F \in Seq(Characters), NEW G \in Seq(Characters),
           NEW p, NEW t, NEW len, InsertedAt(F, G, p, t, len)
    PROVE  \A k \in 1..Len(G) : \/ \E i \in 1..Len(F) : k = Moved(p, len, i) /\ G[k].timestamp = F[i].timestamp
                                \/ \E l \in 1..len : k = p + l /\ G[k].timestamp = t
  <1> TAKE k \in 1..Len(G)
  <1>1. \/ \E i \in 1..Len(F) : k = Moved(p, len, i) /\ SameCharacter(G[k], F[i])
        \/ \E l \in 1..len : k = p + l /\ G[k].timestamp = t /\ G[k].offset = l
    BY Origins
  <1> QED
    BY <1>1 DEF SameCharacter

LEMMA PlacedMoves ==
    ASSUME NEW F \in Seq(Characters), NEW G \in Seq(Characters), Distinct(F), Distinct(G),
           NEW p, NEW t, NEW len, InsertedAt(F, G, p, t, len),
           NEW o, NEW n, Placed(F, o, n),
           \/ len = 0
           \/ /\ ~Observed(o.version, t)
              /\ o.timestamp # t
              /\ n <= p => \A j \in (p + 1)..Len(F) :
                               F[j].timestamp = o.timestamp => Before(o.timestamp, t)
    PROVE  Placed(G, o, Moved(p, len, n))
  <1> DEFINE m == Moved(p, len, n)
             u == o.timestamp
  <1>1. /\ Len(F) \in Nat /\ DOMAIN F = 1..Len(F)
        /\ Len(G) \in Nat /\ DOMAIN G = 1..Len(G)
        /\ p \in Nat /\ len \in Nat /\ Len(G) = Len(F) + len
        /\ n \in 0..Len(F) /\ n \in Nat
    BY DEF InsertedAt, Placed, IsLanding
  <1>2. IsLanding(G, o, m)
    BY LandingMoves DEF Placed
  <1>3. \A k \in 1..Len(G) : \/ \E i \in 1..Len(F) : k = Moved(p, len, i) /\ G[k].timestamp = F[i].timestamp
                             \/ \E l \in 1..len : k = p + l /\ G[k].timestamp = t
    BY TimestampOrigins
  <1>4. \A j \in 1..Len(F) : F[j].timestamp = u =>
            n < j /\ \A i \in (n + 1)..j : F[i].timestamp = u \/ Before(u, F[i].timestamp)
    BY <1>1 DEF Placed
  <1>5. ASSUME NEW k \in 1..Len(G), G[k].timestamp = u
        PROVE  m < k /\ \A i \in (m + 1)..k : G[i].timestamp = u \/ Before(u, G[i].timestamp)
    <2>1. PICK j \in 1..Len(F) : k = Moved(p, len, j) /\ F[j].timestamp = u
      BY <1>1, <1>3, <1>5
    <2>2. n < j /\ \A i \in (n + 1)..j : F[i].timestamp = u \/ Before(u, F[i].timestamp)
      BY <1>4, <2>1
    <2>3. m < k
      BY <1>1, <2>1, <2>2 DEF Moved
    <2>4. ASSUME NEW i \in (m + 1)..k PROVE G[i].timestamp = u \/ Before(u, G[i].timestamp)
      <3>0. i \in 1..Len(G) /\ i \in Nat /\ m \in Nat
        BY <1>1 DEF Moved
      <3>1. CASE \E x \in 1..Len(F) : i = Moved(p, len, x) /\ G[i].timestamp = F[x].timestamp
        <4>1. PICK x \in 1..Len(F) : i = Moved(p, len, x) /\ G[i].timestamp = F[x].timestamp
          BY <3>1
        <4>2. x \in (n + 1)..j
          BY SMTT(30), <1>1, <2>1, <4>1 DEF Moved
        <4> QED
          BY <2>2, <4>1, <4>2
      <3>2. CASE \E l \in 1..len : i = p + l /\ G[i].timestamp = t
        <4>1. PICK l \in 1..len : i = p + l /\ G[i].timestamp = t
          BY <3>2
        <4>2. n <= p /\ j \in (p + 1)..Len(F) /\ len # 0
          BY <1>1, <2>1, <4>1 DEF Moved
        <4>3. Before(u, t)
          BY <2>1, <4>2
        <4> QED
          BY <4>1, <4>3
      <3> QED
        BY <1>3, <3>0, <3>1, <3>2
    <2> QED
      BY <2>3, <2>4
  <1>6. \A k \in DOMAIN G : G[k].timestamp = u =>
            m < k /\ \A i \in (m + 1)..k : G[i].timestamp = u \/ Before(u, G[i].timestamp)
    BY <1>1, <1>5
  <1> QED
    BY <1>2, <1>6 DEF Placed

-----------------------------------------------------------------------------
(* Steps that insert nothing.                                               *)

LEMMA ApplyUndoFacts ==
    ASSUME NEW F \in Seq(Characters), NEW undo, NEW undos
    PROVE  LET G == ApplyUndo(F, undo, undos) IN
           /\ G \in Seq(Characters)
           /\ Len(G) = Len(F)
           /\ \A i \in 1..Len(F) :
                  /\ SameCharacter(G[i], F[i])
                  /\ G[i].deletions = F[i].deletions
                  /\ G[i].visible =
                         IF (F[i].deletions \cup {F[i].timestamp}) \cap DOMAIN undo.counts # {}
                         THEN IsVisible(F[i], undos) ELSE F[i].visible
  <1> DEFINE G == ApplyUndo(F, undo, undos)
             New(f) == [f EXCEPT !.visible = IsVisible(f, undos)]
             touched(f) == (f.deletions \cup {f.timestamp}) \cap DOMAIN undo.counts # {}
  <1>1. Len(F) \in Nat /\ DOMAIN F = 1..Len(F) /\ \A i \in 1..Len(F) : F[i] \in Characters
    OBVIOUS
  <1>2. ASSUME NEW f \in Characters
        PROVE  /\ New(f) \in Characters /\ SameCharacter(New(f), f)
               /\ New(f).deletions = f.deletions /\ New(f).visible = IsVisible(f, undos)
    <2>1. IsVisible(f, undos) \in BOOLEAN
      BY DEF IsVisible
    <2> DEFINE b == IsVisible(f, undos)
    <2> HIDE DEF b
    <2>2. b \in BOOLEAN
      BY <2>1 DEF b
    <2>3. LET h == [f EXCEPT !.visible = b] IN
          /\ h \in Characters /\ SameCharacter(h, f)
          /\ h.deletions = f.deletions /\ h.visible = b
      BY <2>2 DEF Characters, SameCharacter
    <2> QED
      BY <2>3 DEF b
  <1>3. G = [i \in 1..Len(F) |-> IF touched(F[i]) THEN New(F[i]) ELSE F[i]]
    BY <1>1 DEF ApplyUndo
  <1> HIDE DEF G, New
  <1>4. ASSUME NEW i \in 1..Len(F)
        PROVE  G[i] = IF touched(F[i]) THEN New(F[i]) ELSE F[i]
    BY <1>3
  <1> HIDE DEF touched
  <1>5. \A i \in 1..Len(F) : (IF touched(F[i]) THEN New(F[i]) ELSE F[i]) \in Characters
    BY <1>1, <1>2
  <1>6. G \in Seq(Characters) /\ Len(G) = Len(F)
    BY <1>1, <1>3, <1>5
  <1>7. ASSUME NEW i \in 1..Len(F)
        PROVE  /\ SameCharacter(G[i], F[i])
               /\ G[i].deletions = F[i].deletions
               /\ G[i].visible = IF touched(F[i]) THEN IsVisible(F[i], undos) ELSE F[i].visible
    BY <1>1, <1>2, <1>4 DEF SameCharacter
  <1> QED
    BY <1>6, <1>7 DEF G, touched

(* Two texts of the same characters in the same order.                      *)
SameText(F, G) == Len(G) = Len(F) /\ \A i \in 1..Len(F) : SameCharacter(G[i], F[i])

LEMMA SameTextMoves ==
    ASSUME NEW F \in Seq(Characters), NEW G \in Seq(Characters), SameText(F, G), NEW t
    PROVE  /\ InsertedAt(F, G, Len(F), t, 0)
           /\ \A n \in 0..Len(F) : Moved(Len(F), 0, n) = n
  BY DEF InsertedAt, SameText, Moved

LEMMA SameTextOrder ==
    ASSUME OrderInv, Edits' = Edits,
           \A s \in Replicas, o \in Edits :
               Observed(version'[s], o.timestamp) <=> Observed(version[s], o.timestamp),
           fragments' \in [Replicas -> Seq(Characters)],
           \A s \in Replicas : SameText(fragments[s], fragments'[s])
    PROVE  OrderInv'
  <1>1. TextTypeOK'
    BY DEF OrderInv, TextTypeOK
  <1>2. ASSUME NEW s \in Replicas, NEW t, NEW k PROVE HasInserted(s, t, k)' <=> HasInserted(s, t, k)
    BY DEF HasInserted
  <1>3. ASSUME NEW s \in Replicas
        PROVE  /\ DOMAIN fragments[s] = 1..Len(fragments[s])
               /\ DOMAIN fragments'[s] = 1..Len(fragments[s])
               /\ fragments[s] \in Seq(Characters) /\ fragments'[s] \in Seq(Characters)
               /\ \A i \in 1..Len(fragments[s]) :
                      /\ fragments'[s][i].timestamp = fragments[s][i].timestamp
                      /\ fragments'[s][i].offset = fragments[s][i].offset
               /\ Distinct(fragments[s]) /\ HoldsOnly(s) /\ HoldsAll(s) /\ InOffsetOrder(fragments[s])
    BY TextFacts DEF SameText, SameCharacter
  <1>4. ASSUME NEW s \in Replicas
        PROVE  HoldsOnly(s)' /\ HoldsAll(s)' /\ InOffsetOrder(fragments'[s])
    <2>1. HoldsOnly(s)'
      BY <1>2, <1>3 DEF HoldsOnly
    <2>2. HoldsAll(s)'
      BY SMTT(30), <1>2, <1>3 DEF HoldsAll
    <2>3. InOffsetOrder(fragments'[s])
      BY <1>3 DEF InOffsetOrder
    <2> QED
      BY <2>1, <2>2, <2>3
  <1>5. CharactersOK'
    BY <1>4 DEF CharactersOK
  <1>6. ASSUME NEW s \in Replicas, NEW o \in Edits, Observed(version[s], o.timestamp)
        PROVE  \E n : Placed(fragments'[s], o, n)
    <2>1. PICK n : Placed(fragments[s], o, n)
      BY <1>6 DEF OrderInv, EditsPlaced
    <2>2. InsertedAt(fragments[s], fragments'[s], Len(fragments[s]), o.timestamp, 0)
      BY <1>3, SameTextMoves
    <2>3. Distinct(fragments'[s])
      BY <1>3, <1>4, OffsetOrderDistinct
    <2>4. Placed(fragments'[s], o, Moved(Len(fragments[s]), 0, n))
      BY <1>3, <2>1, <2>2, <2>3, PlacedMoves
    <2> QED
      BY <2>4
  <1>7. EditsPlaced'
    BY <1>6 DEF EditsPlaced
  <1>8. OneOrder'
    <2>1. ASSUME NEW r \in Replicas, NEW s \in Replicas,
                 NEW i \in DOMAIN fragments'[r], NEW j \in DOMAIN fragments'[r],
                 NEW k \in DOMAIN fragments'[s], NEW l \in DOMAIN fragments'[s],
                 SameCharacter(fragments'[r][i], fragments'[s][k]),
                 SameCharacter(fragments'[r][j], fragments'[s][l])
          PROVE  i < j <=> k < l
      <3>1. /\ i \in 1..Len(fragments[r]) /\ j \in 1..Len(fragments[r])
            /\ k \in 1..Len(fragments[s]) /\ l \in 1..Len(fragments[s])
        BY <1>3
      <3>2. SameCharacter(fragments[r][i], fragments[s][k])
        BY <1>3, <2>1, <3>1 DEF SameCharacter
      <3>3. SameCharacter(fragments[r][j], fragments[s][l])
        BY <1>3, <2>1, <3>1 DEF SameCharacter
      <3> QED
        BY <3>1, <3>2, <3>3, OrderOf
    <2> QED
      BY <2>1 DEF OneOrder
  <1> QED
    BY <1>1, <1>5, <1>7, <1>8 DEF OrderInv
-----------------------------------------------------------------------------
(* Steps that insert.                                                       *)

(* Replica r observes the edit op and inserts its characters after place p. *)
InsertsEdit(r, op, n, p) ==
    /\ Observes(r, op)
    /\ op.kind = "edit" /\ op.timestamp \in Timestamps /\ 1 < op.timestamp.value
    /\ op.length \in Nat /\ op.start \in Nat /\ op.version \in [Replicas -> Nat]
    /\ PlaceOK(fragments[r], op, n, p)
    /\ fragments' \in [Replicas -> Seq(Characters)]
    /\ \A s \in Replicas : s # r => fragments'[s] = fragments[s]
    /\ InsertedAt(fragments[r], fragments'[r], p, op.timestamp, op.length)

LEMMA InsertFacts ==
    ASSUME DeliveryTypeOK, Causality, OrderInv, NEW r \in Replicas, NEW op, NEW n, NEW p,
           InsertsEdit(r, op, n, p)
    PROVE  /\ Edits' = Edits \cup {op}
           /\ \A o \in Edits : o.timestamp = op.timestamp => o = op
           /\ \A s \in Replicas, o \in Edits' :
                  Observed(version'[s], o.timestamp) <=>
                      \/ o \in Edits /\ Observed(version[s], o.timestamp)
                      \/ s = r /\ o = op
           /\ ~Observed(version[r], op.timestamp)
           /\ \A i \in 1..Len(fragments[r]) : fragments[r][i].timestamp # op.timestamp
           /\ \A s \in Replicas : \A t, k :
                  HasInserted(s, t, k)' <=>
                      \/ HasInserted(s, t, k)
                      \/ s = r /\ t = op.timestamp /\ k \in 1..op.length
  <1>1. issued' = issued \cup {op} /\ op.kind = "edit" /\ 1 < op.timestamp.value
        /\ ~Observed(version[r], op.timestamp)
    BY DEF InsertsEdit, Observes
  <1>2. Edits' = Edits \cup {op}
    BY <1>1 DEF Edits
  <1>3. \A o \in Edits : o.timestamp = op.timestamp => o = op
    BY DEF Edits, InsertsEdit, Observes
  <1>4. \A s \in Replicas, o \in Edits' :
            Observed(version'[s], o.timestamp) <=>
                \/ o \in Edits /\ Observed(version[s], o.timestamp)
                \/ s = r /\ o = op
    BY <1>1 DEF Edits, InsertsEdit, Observes
  <1>5. \A i \in 1..Len(fragments[r]) : fragments[r][i].timestamp # op.timestamp
    BY <1>1, NotYetHeld
  <1>6. ASSUME NEW s \in Replicas, NEW t, NEW k
        PROVE  HasInserted(s, t, k)' <=>
                   \/ HasInserted(s, t, k)
                   \/ s = r /\ t = op.timestamp /\ k \in 1..op.length
    <2>1. HasInserted(s, t, k)' <=>
              \/ t = BaseTimestamp /\ k \in 1..BaseLength
              \/ \E o \in Edits' : o.timestamp = t /\ Observed(version'[s], t) /\ k \in 1..o.length
      BY DEF HasInserted
    <2>2. ASSUME NEW o \in Edits', o.timestamp = t, Observed(version'[s], t), k \in 1..o.length
          PROVE  HasInserted(s, t, k) \/ (s = r /\ t = op.timestamp /\ k \in 1..op.length)
      BY <1>4, <2>2 DEF HasInserted
    <2>3. ASSUME HasInserted(s, t, k) PROVE HasInserted(s, t, k)'
      <3>1. CASE t = BaseTimestamp /\ k \in 1..BaseLength
        BY <2>1, <3>1
      <3>2. CASE \E o \in Edits : o.timestamp = t /\ Observed(version[s], t) /\ k \in 1..o.length
        BY <1>2, <1>4, <2>1, <3>2
      <3> QED
        BY <2>3, <3>1, <3>2 DEF HasInserted
    <2>4. ASSUME s = r, t = op.timestamp, k \in 1..op.length PROVE HasInserted(s, t, k)'
      BY <1>2, <1>4, <2>1, <2>4
    <2>5. t = BaseTimestamp /\ k \in 1..BaseLength => HasInserted(s, t, k)
      BY DEF HasInserted
    <2> QED
      BY <2>1, <2>2, <2>3, <2>4, <2>5
  <1> QED
    BY <1>1, <1>2, <1>3, <1>4, <1>5, <1>6

LEMMA InsertCharacters ==
    ASSUME DeliveryTypeOK, Causality, OrderInv, NEW r \in Replicas, NEW op, NEW n, NEW p,
           InsertsEdit(r, op, n, p)
    PROVE  TextTypeOK' /\ CharactersOK'
  <1> DEFINE F == fragments[r]
             G == fragments'[r]
             t == op.timestamp
             len == op.length
  <1>1. /\ Edits' = Edits \cup {op}
        /\ \A i \in 1..Len(F) : F[i].timestamp # t
    BY InsertFacts
  <1>2. \A s \in Replicas : \A u, k : HasInserted(s, u, k)' <=>
                      \/ HasInserted(s, u, k)
                      \/ s = r /\ u = t /\ k \in 1..len
    BY InsertFacts
  <1>3. TextTypeOK'
    BY <1>1 DEF InsertsEdit, OrderInv, TextTypeOK
  <1>4. /\ InsertedAt(F, G, p, t, len)
        /\ Len(F) \in Nat /\ DOMAIN F = 1..Len(F)
        /\ G \in Seq(Characters) /\ Len(G) \in Nat /\ DOMAIN G = 1..Len(G)
        /\ HoldsOnly(r) /\ HoldsAll(r) /\ InOffsetOrder(F)
    BY TextFacts DEF InsertsEdit
  <1>5. p \in Nat /\ p <= Len(F) /\ len \in Nat /\ Len(G) = Len(F) + len
    BY <1>4 DEF InsertedAt
  <1>6. \A j \in 1..Len(G) :
            \/ \E i \in 1..Len(F) : /\ j = Moved(p, len, i)
                                    /\ G[j].timestamp = F[i].timestamp /\ G[j].offset = F[i].offset
            \/ \E k \in 1..len : j = p + k /\ G[j].timestamp = t /\ G[j].offset = k
    BY <1>4, Origins DEF SameCharacter
  <1>7. /\ \A i \in 1..Len(F) : /\ Moved(p, len, i) \in 1..Len(G)
                                /\ G[Moved(p, len, i)].timestamp = F[i].timestamp
                                /\ G[Moved(p, len, i)].offset = F[i].offset
        /\ \A k \in 1..len : p + k \in 1..Len(G) /\ G[p + k].timestamp = t /\ G[p + k].offset = k
    BY SMTT(30), <1>4, <1>5 DEF InsertedAt, Moved, SameCharacter
  <1>8. HoldsOnly(r)'
    <2>1. ASSUME NEW j \in 1..Len(G), NEW u, NEW k, u = G[j].timestamp, k = G[j].offset
          PROVE  HasInserted(r, u, k)'
      <3>1. CASE \E i \in 1..Len(F) : u = F[i].timestamp /\ k = F[i].offset
        <4>1. HasInserted(r, u, k)
          BY <1>4, <3>1 DEF HoldsOnly
        <4> QED
          BY <1>2, <4>1
      <3>2. CASE u = t /\ k \in 1..len
        BY <1>2, <3>2
      <3> QED
        BY <1>6, <2>1, <3>1, <3>2
    <2>2. HoldsOnly(r)' <=> \A i \in DOMAIN G : \E u, k :
              u = G[i].timestamp /\ k = G[i].offset /\ HasInserted(r, u, k)'
      BY DEF HoldsOnly, HasInserted
    <2> QED
      BY <1>4, <2>1, <2>2
  <1>9. HoldsAll(r)'
    <2>1. ASSUME NEW u, NEW k, HasInserted(r, u, k)'
          PROVE  \E j \in DOMAIN G : G[j].timestamp = u /\ G[j].offset = k
      <3>1. CASE HasInserted(r, u, k)
        <4>1. PICK i \in 1..Len(F) : F[i].timestamp = u /\ F[i].offset = k
          BY <1>4, <3>1 DEF HoldsAll
        <4> QED
          BY <1>4, <1>7, <4>1
      <3>2. CASE u = t /\ k \in 1..len
        BY <1>4, <1>7, <3>2
      <3> QED
        BY <1>2, <2>1, <3>1, <3>2
    <2> QED
      BY <2>1 DEF HoldsAll
  <1>10. InOffsetOrder(G)
    <2>1. ASSUME NEW i \in 1..Len(G), NEW j \in 1..Len(G), i < j, G[i].timestamp = G[j].timestamp
          PROVE  G[i].offset < G[j].offset
      <3>1. CASE G[i].timestamp = t
        <4>1. PICK k \in 1..len : i = p + k /\ G[i].offset = k
          BY <1>1, <1>6, <3>1
        <4>2. PICK l \in 1..len : j = p + l /\ G[j].offset = l
          BY <1>1, <1>6, <2>1, <3>1
        <4> QED
          BY <1>5, <2>1, <4>1, <4>2
      <3>2. CASE G[i].timestamp # t
        <4>1. PICK x \in 1..Len(F) : /\ i = Moved(p, len, x)
                                     /\ G[i].timestamp = F[x].timestamp /\ G[i].offset = F[x].offset
          BY <1>6, <3>2
        <4>2. PICK y \in 1..Len(F) : /\ j = Moved(p, len, y)
                                     /\ G[j].timestamp = F[y].timestamp /\ G[j].offset = F[y].offset
          BY <1>6, <2>1, <3>2
        <4>3. x < y
          BY <1>5, <2>1, <4>1, <4>2 DEF Moved
        <4> QED
          BY <1>4, <2>1, <4>1, <4>2, <4>3 DEF InOffsetOrder
      <3> QED
        BY <3>1, <3>2
    <2> QED
      BY <1>4, <2>1 DEF InOffsetOrder
  <1>11. ASSUME NEW s \in Replicas, s # r
         PROVE  HoldsOnly(s)' /\ HoldsAll(s)' /\ InOffsetOrder(fragments'[s])
    <2>1. fragments'[s] = fragments[s]
      BY <1>11 DEF InsertsEdit
    <2>2. HoldsOnly(s) /\ HoldsAll(s) /\ InOffsetOrder(fragments[s])
      BY TextFacts
    <2>3. \A u, k : HasInserted(s, u, k)' <=> HasInserted(s, u, k)
      BY <1>2, <1>11
    <2> QED
      BY <2>1, <2>2, <2>3 DEF HoldsOnly, HoldsAll
  <1> HIDE DEF G
  <1>12. \A s \in Replicas : HoldsOnly(s)' /\ HoldsAll(s)' /\ InOffsetOrder(fragments'[s])
    BY <1>8, <1>9, <1>10, <1>11 DEF G
  <1> QED
    BY <1>3, <1>12 DEF CharactersOK

LEMMA InsertPlaced ==
    ASSUME DeliveryTypeOK, Causality, OrderInv, NEW r \in Replicas, NEW op, NEW n, NEW p,
           InsertsEdit(r, op, n, p)
    PROVE  EditsPlaced'
  <1> DEFINE F == fragments[r]
             G == fragments'[r]
             t == op.timestamp
             len == op.length
  <1>1. /\ Edits' = Edits \cup {op}
        /\ \A o \in Edits : o.timestamp = t => o = op
        /\ ~Observed(version[r], t)
        /\ \A i \in 1..Len(F) : F[i].timestamp # t
    BY InsertFacts
  <1>2. \A s \in Replicas, o \in Edits' :
                  Observed(version'[s], o.timestamp) <=>
                      \/ o \in Edits /\ Observed(version[s], o.timestamp)
                      \/ s = r /\ o = op
    BY InsertFacts
  <1>3. /\ InsertedAt(F, G, p, t, len) /\ PlaceOK(F, op, n, p) /\ t \in Timestamps
        /\ F \in Seq(Characters) /\ Len(F) \in Nat /\ DOMAIN F = 1..Len(F)
        /\ G \in Seq(Characters) /\ Len(G) \in Nat /\ DOMAIN G = 1..Len(G)
        /\ Distinct(F)
        /\ \A i \in 1..Len(F) : F[i].timestamp \in Timestamps
    BY TextFacts DEF InsertsEdit
  <1>4. Distinct(G)
    <2>1. InOffsetOrder(G)
      BY InsertCharacters DEF CharactersOK
    <2> HIDE DEF G
    <2> QED
      BY <1>3, <2>1, OffsetOrderDistinct
  <1>5. p \in Nat /\ p <= Len(F) /\ n \in Nat /\ n <= p /\ len \in Nat /\ Len(G) = Len(F) + len
    BY <1>3 DEF InsertedAt, PlaceOK, IsLanding
  <1>6. ASSUME NEW o \in Edits, Observed(version[r], o.timestamp) PROVE \E m : Placed(G, o, m)
    <2>1. PICK m : Placed(F, o, m)
      BY <1>6 DEF OrderInv, EditsPlaced
    <2>2. o.timestamp # t /\ o.timestamp \in Timestamps
      BY <1>1, <1>6, IssuedFacts
    <2>3. ~Observed(o.version, t)
      <3>1. o.version \in [Replicas -> Nat] /\ ObservedAll(version[r], o.version)
        BY <1>6, IssuedFacts
      <3> HIDE DEF t
      <3> QED
        BY <1>1, <1>3, <3>1, TransitiveVersion
    <2>4. ASSUME m <= p, NEW j \in (p + 1)..Len(F), F[j].timestamp = o.timestamp
          PROVE  Before(o.timestamp, t)
      <3>1. j \in DOMAIN F /\ p + 1 \in (m + 1)..j /\ p < Len(F) /\ p + 1 \in 1..Len(F)
        BY <1>3, <1>5, <2>1, <2>4 DEF Placed, IsLanding
      <3>2. F[p + 1].timestamp = o.timestamp \/ Before(o.timestamp, F[p + 1].timestamp)
        BY <2>1, <2>4, <3>1 DEF Placed
      <3>3. ~Before(t, F[p + 1].timestamp)
        BY <1>3, <3>1 DEF PlaceOK
      <3>4. F[p + 1].timestamp # t /\ F[p + 1].timestamp \in Timestamps
        BY <1>1, <1>3, <3>1
      <3> DEFINE z == F[p + 1].timestamp
                 u == o.timestamp
      <3> HIDE DEF z, u, t
      <3>5. Before(u, t)
        BY <1>3, <2>2, <3>2, <3>3, <3>4, BeforeFacts DEF z, u
      <3> QED
        BY <3>5 DEF u
    <2>5. Placed(G, o, Moved(p, len, m))
      <3> HIDE DEF F, G, t, len
      <3> QED
        BY <1>3, <1>4, <2>1, <2>2, <2>3, <2>4, PlacedMoves
    <2> QED
      BY <2>5
  <1>7. Placed(G, op, n)
    <2>1. ~Observed(op.version, t)
      <3>1. ObservedAll(version[r], op.version) /\ op.version \in [Replicas -> Nat]
        BY DEF InsertsEdit, Observes
      <3> HIDE DEF t
      <3> QED
        BY <1>1, <1>3, <3>1, TransitiveVersion
    <2>2. IsLanding(F, op, n) /\ n \in Nat /\ n <= p /\ Moved(p, len, n) = n
      BY <1>3, <1>5 DEF PlaceOK, Moved
    <2>3. IsLanding(G, op, n)
      <3> HIDE DEF F, G, t, len
      <3>1. IsLanding(G, op, Moved(p, len, n))
        BY <1>3, <1>4, <2>1, <2>2, LandingMoves
      <3> QED
        BY <2>2, <3>1
    <2>4. ASSUME NEW i \in 1..Len(G)
          PROVE  \/ \E x \in 1..Len(F) : i = Moved(p, len, x) /\ G[i].timestamp = F[x].timestamp
                 \/ \E k \in 1..len : i = p + k /\ G[i].timestamp = t
      <3> HIDE DEF F, G, t, len
      <3> QED
        BY <1>3, Origins DEF SameCharacter
    <2>5. ASSUME NEW j \in 1..Len(G), G[j].timestamp = t PROVE n < j /\ j <= p + len
      <3>1. PICK k \in 1..len : j = p + k
        BY <1>1, <2>4, <2>5
      <3> QED
        BY <1>5, <3>1
    <2>6. ASSUME NEW j \in 1..Len(G), G[j].timestamp = t, NEW i \in (n + 1)..j, G[i].timestamp # t
          PROVE  Before(t, G[i].timestamp)
      <3>1. n < j /\ j <= p + len
        BY <2>5, <2>6
      <3>2. i \in 1..Len(G) /\ i <= p + len /\ n < i
        BY <1>3, <1>5, <3>1
      <3>3. PICK x \in 1..Len(F) : i = Moved(p, len, x) /\ G[i].timestamp = F[x].timestamp
        BY <2>4, <2>6, <3>2
      <3>4. x \in (n + 1)..p
        BY <1>5, <3>2, <3>3 DEF Moved
      <3>5. Before(t, F[x].timestamp)
        BY <1>3, <3>4 DEF PlaceOK
      <3> QED
        BY <3>3, <3>5
    <2> HIDE DEF F, G, t, len
    <2> QED
      BY <1>3, <2>3, <2>5, <2>6 DEF Placed, t
  <1>8. ASSUME NEW s \in Replicas, NEW o \in Edits', Observed(version'[s], o.timestamp)
        PROVE  \E m : Placed(fragments'[s], o, m)
    <2>1. CASE s = r /\ o = op
      BY <1>7, <2>1
    <2>2. CASE s = r /\ o \in Edits /\ Observed(version[s], o.timestamp)
      BY <1>6, <2>2
    <2>3. CASE s # r /\ o \in Edits /\ Observed(version[s], o.timestamp)
      <3>1. fragments'[s] = fragments[s]
        BY <2>3 DEF InsertsEdit
      <3>2. \E m : Placed(fragments[s], o, m)
        BY <2>3 DEF OrderInv, EditsPlaced
      <3> QED
        BY <3>1, <3>2
    <2> QED
      BY <1>2, <1>8, <2>1, <2>2, <2>3
  <1> QED
    BY <1>8 DEF EditsPlaced

(* The order of two texts agrees where they hold the same characters.       *)
Agree(F, S) ==
    \A i, j \in DOMAIN F, k, l \in DOMAIN S :
        SameCharacter(F[i], S[k]) /\ SameCharacter(F[j], S[l]) => (i < j <=> k < l)

LEMMA InsertAgrees ==
    ASSUME DeliveryTypeOK, Causality, OrderInv, NEW r \in Replicas, NEW op, NEW n, NEW p,
           InsertsEdit(r, op, n, p), NEW s \in Replicas
    PROVE  Agree(fragments'[r], fragments[s])
  <1> DEFINE F == fragments[r]
             G == fragments'[r]
             S == fragments[s]
             t == op.timestamp
             len == op.length
  <1>1. /\ InsertedAt(F, G, p, t, len) /\ PlaceOK(F, op, n, p)
        /\ Len(F) \in Nat /\ DOMAIN F = 1..Len(F)
        /\ G \in Seq(Characters) /\ Len(G) \in Nat /\ DOMAIN G = 1..Len(G)
        /\ Len(S) \in Nat /\ DOMAIN S = 1..Len(S)
        /\ HoldsOnly(s) /\ InOffsetOrder(S)
        /\ 1 < t.value
    BY TextFacts DEF InsertsEdit
  <1>2. p \in Nat /\ len \in Nat /\ Len(G) = Len(F) + len
    BY <1>1 DEF InsertedAt
  <1>3. /\ ~Observed(version[r], t) /\ ObservedAll(version[r], op.version)
        /\ \A o \in Edits : o.timestamp = t => o = op
    BY InsertFacts DEF InsertsEdit, Observes
  <1>4. ASSUME NEW k \in 1..Len(S), S[k].timestamp = t PROVE op \in Edits
    <2>1. HasInserted(s, t, S[k].offset)
      BY <1>1, <1>4 DEF HoldsOnly
    <2>2. t # BaseTimestamp
      BY <1>1 DEF BaseTimestamp, Timestamp
    <2> QED
      BY <1>3, <2>1, <2>2 DEF HasInserted
  <1>5. ASSUME NEW m \in 1..Len(S), S[m].timestamp = t,
               NEW i \in 1..Len(F), NEW k \in 1..Len(S), SameCharacter(F[i], S[k])
        PROVE  k # m /\ (i <= p <=> k < m)
    <2>1. op \in Edits
      BY <1>4, <1>5
    <2> QED
      BY <1>1, <1>3, <1>5, <2>1, Sides
  <1>6. ASSUME NEW i \in 1..Len(G)
        PROVE  \/ \E x \in 1..Len(F) : i = Moved(p, len, x) /\ SameCharacter(G[i], F[x])
               \/ \E k \in 1..len : i = p + k /\ G[i].timestamp = t /\ G[i].offset = k
    <2> HIDE DEF F, G, t, len
    <2> QED
      BY <1>1, Origins
  <1>7. ASSUME NEW i \in 1..Len(G), NEW j \in 1..Len(G), NEW k \in 1..Len(S), NEW l \in 1..Len(S),
               SameCharacter(G[i], S[k]), SameCharacter(G[j], S[l])
        PROVE  i < j <=> k < l
    <2>1. ASSUME NEW x \in 1..Len(F), i = Moved(p, len, x), SameCharacter(G[i], F[x]),
                 NEW y \in 1..Len(F), j = Moved(p, len, y), SameCharacter(G[j], F[y])
          PROVE  i < j <=> k < l
      <3>1. SameCharacter(F[x], S[k]) /\ SameCharacter(F[y], S[l])
        BY <1>7, <2>1 DEF SameCharacter
      <3>2. x < y <=> k < l
        BY <3>1, OrderOf
      <3>3. x \in Nat /\ y \in Nat
        BY <1>1
      <3>4. x < y <=> i < j
        BY <1>2, <2>1, <3>3 DEF Moved
      <3> QED
        BY <3>2, <3>4
    <2>2. ASSUME NEW a \in 1..len, i = p + a, G[i].timestamp = t,
                 NEW y \in 1..Len(F), j = Moved(p, len, y), SameCharacter(G[j], F[y])
          PROVE  i < j <=> k < l
      <3>1. S[k].timestamp = t /\ SameCharacter(F[y], S[l])
        BY <1>7, <2>2 DEF SameCharacter
      <3>2. l # k /\ (y <= p <=> l < k)
        BY <1>5, <3>1
      <3>3. i < j <=> ~(y <= p)
        BY <1>1, <1>2, <2>2 DEF Moved
      <3>4. k \in Nat /\ l \in Nat
        BY <1>1
      <3> QED
        BY <3>2, <3>3, <3>4
    <2>3. ASSUME NEW x \in 1..Len(F), i = Moved(p, len, x), SameCharacter(G[i], F[x]),
                 NEW b \in 1..len, j = p + b, G[j].timestamp = t
          PROVE  i < j <=> k < l
      <3>1. S[l].timestamp = t /\ SameCharacter(F[x], S[k])
        BY <1>7, <2>3 DEF SameCharacter
      <3>2. x <= p <=> k < l
        BY <1>5, <3>1
      <3>3. i < j <=> x <= p
        BY <1>1, <1>2, <2>3 DEF Moved
      <3> QED
        BY <3>2, <3>3
    <2>4. ASSUME NEW a \in 1..len, i = p + a, G[i].timestamp = t, G[i].offset = a,
                 NEW b \in 1..len, j = p + b, G[j].timestamp = t, G[j].offset = b
          PROVE  i < j <=> k < l
      <3>1. S[k].timestamp = t /\ S[l].timestamp = t /\ S[k].offset = a /\ S[l].offset = b
        BY <1>7, <2>4 DEF SameCharacter
      <3>2. k < l => a < b
        BY <1>1, <3>1 DEF InOffsetOrder
      <3>3. l < k => b < a
        BY <1>1, <3>1 DEF InOffsetOrder
      <3>4. k = l => a = b
        BY <3>1
      <3>5. /\ a \in Nat /\ b \in Nat /\ k \in Nat /\ l \in Nat
            /\ i < j <=> a < b
        <4>1. len \in Nat /\ p \in Nat /\ Len(S) \in Nat
          BY <1>1, <1>2
        <4>2. i = p + a /\ j = p + b
          BY <2>4
        <4> HIDE DEF S, len
        <4>3. a \in Nat /\ b \in Nat /\ k \in Nat /\ l \in Nat
          BY <4>1
        <4>4. i < j <=> a < b
          BY <4>1, <4>2, <4>3
        <4> QED
          BY <4>3, <4>4
      <3> QED
        BY <3>2, <3>3, <3>4, <3>5
    <2>5. \/ \E x \in 1..Len(F) : i = Moved(p, len, x) /\ SameCharacter(G[i], F[x])
          \/ \E a \in 1..len : i = p + a /\ G[i].timestamp = t /\ G[i].offset = a
      BY <1>6
    <2>6. \/ \E y \in 1..Len(F) : j = Moved(p, len, y) /\ SameCharacter(G[j], F[y])
          \/ \E b \in 1..len : j = p + b /\ G[j].timestamp = t /\ G[j].offset = b
      BY <1>6
    <2> HIDE DEF F, G, S, t, len
    <2> QED
      BY <2>1, <2>2, <2>3, <2>4, <2>5, <2>6
  <1> HIDE DEF F, G, S, t, len
  <1>8. Agree(G, S)
    BY <1>1, <1>7 DEF Agree
  <1> QED
    BY <1>8 DEF G, S

LEMMA InsertOrder ==
    ASSUME DeliveryTypeOK, Causality, OrderInv, NEW r \in Replicas, NEW op, NEW n, NEW p,
           InsertsEdit(r, op, n, p)
    PROVE  OneOrder'
  <1>1. \A s \in Replicas : s # r => fragments'[s] = fragments[s]
    BY DEF InsertsEdit
  <1>2. ASSUME NEW s \in Replicas PROVE Agree(fragments'[r], fragments[s])
    BY InsertAgrees
  <1>3. ASSUME NEW s \in Replicas PROVE Agree(fragments[s], fragments'[r])
    <2>1. \A f, g : SameCharacter(f, g) => SameCharacter(g, f)
      BY DEF SameCharacter
    <2> QED
      BY <1>2, <2>1 DEF Agree
  <1>4. ASSUME NEW x \in Replicas, NEW y \in Replicas PROVE Agree(fragments[x], fragments[y])
    BY DEF OrderInv, OneOrder, Agree
  <1>5. Agree(fragments'[r], fragments'[r])
    <2> DEFINE G == fragments'[r]
    <2>1. G \in Seq(Characters) /\ InOffsetOrder(G)
      BY InsertCharacters DEF CharactersOK, InsertsEdit
    <2> HIDE DEF G
    <2>2. Distinct(G)
      BY <2>1, OffsetOrderDistinct
    <2>3. ASSUME NEW i \in DOMAIN G, NEW j \in DOMAIN G, NEW k \in DOMAIN G, NEW l \in DOMAIN G,
                 SameCharacter(G[i], G[k]), SameCharacter(G[j], G[l])
          PROVE  i < j <=> k < l
      <3>1. i = k /\ j = l
        BY <2>2, <2>3 DEF Distinct
      <3> QED
        BY <3>1
    <2>4. Agree(G, G)
      BY <2>3 DEF Agree
    <2> QED
      BY <2>4 DEF G
  <1>6. ASSUME NEW x \in Replicas, NEW y \in Replicas PROVE Agree(fragments'[x], fragments'[y])
    <2>1. CASE x = r /\ y = r
      BY <1>5, <2>1
    <2>2. CASE x = r /\ y # r
      BY <1>1, <1>2, <2>2
    <2>3. CASE x # r /\ y = r
      BY <1>1, <1>3, <2>3
    <2>4. CASE x # r /\ y # r
      BY <1>1, <1>4, <2>4
    <2> QED
      BY <2>1, <2>2, <2>3, <2>4
  <1> QED
    BY <1>6 DEF OneOrder, Agree

LEMMA InsertKeepsOrder ==
    ASSUME DeliveryTypeOK, Causality, OrderInv, NEW r \in Replicas, NEW op, NEW n, NEW p,
           InsertsEdit(r, op, n, p)
    PROVE  OrderInv'
  BY InsertCharacters, InsertPlaced, InsertOrder DEF OrderInv

-----------------------------------------------------------------------------
(* The places that the code chooses.                                        *)

LEMMA RemotePlaceOK ==
    ASSUME NEW F, Len(F) \in Nat, NEW o, NEW m, IsLanding(F, o, m)
    PROVE  PlaceOK(F, o, m, RemotePlace(F, o))
  <1> DEFINE landing == CHOOSE n \in 0..Len(F) :
                 /\ FullOffset(F, o.version, n) = o.start
                 /\ n > 0 => Observed(o.version, F[n].timestamp)
             Fits(n) == /\ \A i \in (landing + 1)..n : Before(o.timestamp, F[i].timestamp)
                        /\ n < Len(F) => ~Before(o.timestamp, F[n + 1].timestamp)
  <1>1. IsLanding(F, o, landing)
    BY DEF IsLanding
  <1>2. landing = m
    <2> HIDE DEF landing
    <2> QED
      BY <1>1, OneLanding
  <1>3. RemotePlace(F, o) = CHOOSE n \in landing..Len(F) : Fits(n)
    BY DEF RemotePlace
  <1>4. m \in Nat /\ m <= Len(F)
    BY DEF IsLanding
  <1>5. \E n \in landing..Len(F) : Fits(n)
    <2> DEFINE S == {n \in m..Len(F) : n = Len(F) \/ ~Before(o.timestamp, F[n + 1].timestamp)}
    <2>1. S \in SUBSET Nat /\ Len(F) \in S
      BY <1>4
    <2>2. PICK n \in S : \A k \in S : n <= k
      <3> HIDE DEF S
      <3> QED
        BY <2>1, LeastNatural
    <2>3. ASSUME NEW i \in (m + 1)..n PROVE Before(o.timestamp, F[i].timestamp)
      <3>1. i - 1 \in m..Len(F) /\ i - 1 < n /\ n <= Len(F) /\ (i - 1) + 1 = i
        BY <1>4, <2>2
      <3>2. n \in Nat /\ i \in Nat
        BY <1>4
      <3>3. ASSUME i - 1 \in S PROVE FALSE
        <4>1. n <= i - 1
          BY <2>2, <3>3
        <4> QED
          BY <3>1, <3>2, <4>1
      <3> QED
        BY <3>1, <3>3
    <2>4. n \in m..Len(F) /\ (n < Len(F) => ~Before(o.timestamp, F[n + 1].timestamp))
      OBVIOUS
    <2> HIDE DEF S, landing
    <2> QED
      BY <1>2, <2>3, <2>4
  <1> HIDE DEF landing, Fits
  <1>6. RemotePlace(F, o) \in landing..Len(F) /\ Fits(RemotePlace(F, o))
    BY <1>3, <1>5
  <1> USE DEF Fits
  <1> QED
    BY <1>2, <1>6 DEF PlaceOK

(* The author of an edit holds it, and so has its landing.                  *)
LEMMA LandingExists ==
    ASSUME DeliveryTypeOK, Causality, OrderInv, NEW r \in Replicas, NEW op \in Edits,
           ObservedAll(version[r], op.version)
    PROVE  \E m : IsLanding(fragments[r], op, m)
  <1> DEFINE s == op.timestamp.replica
  <1>1. op \in issued /\ op.timestamp \in Timestamps /\ op.version \in [Replicas -> Nat]
    BY IssuedFacts
  <1>2. s \in Replicas /\ Observed(version[s], op.timestamp)
    BY <1>1, Numbers DEF Causality, AuthorsLead
  <1>3. ObservedAll(version[s], op.version)
    BY <1>2, IssuedFacts
  <1>4. PICK n : Placed(fragments[s], op, n)
    BY <1>2 DEF OrderInv, EditsPlaced
  <1>5. IsLanding(fragments[s], op, n)
    BY <1>4 DEF Placed
  <1> HIDE DEF s
  <1> QED
    BY <1>1, <1>2, <1>3, <1>5, LandingCarries

(* Replica r inserts op's characters after place p and deletes at gone.     *)
SplicesEdit(r, op, n, p, gone) ==
    /\ InsertsEdit(r, op, n, p)
    /\ fragments'[r] = Splice(fragments[r], p, op.timestamp, op.length, gone)

LEMMA RemoteEditInserts ==
    ASSUME DeliveryTypeOK, Causality, OrderInv, NEW r \in Replicas, NEW op, RemoteEdit(r, op)
    PROVE  \E n : SplicesEdit(r, op, n, RemotePlace(fragments[r], op),
                              RemoteGone(fragments[r], op, undoMap[r]))
  <1> DEFINE F == fragments[r]
             p == RemotePlace(F, op)
             gone == RemoteGone(F, op, undoMap[r])
  <1>1. /\ Observes(r, op) /\ op.kind = "edit" /\ op \in Edits
        /\ ObservedAll(version[r], op.version)
    BY DEF RemoteEdit, Observes, Edits
  <1>2. op.timestamp \in Timestamps /\ op.version \in [Replicas -> Nat]
    BY <1>1, IssuedFacts
  <1>3. op.length \in Nat /\ op.start \in Nat /\ 1 < op.timestamp.value
    BY <1>1 DEF OrderInv, TextTypeOK
  <1>4. F \in Seq(Characters) /\ Len(F) \in Nat
    BY TextFacts
  <1>5. PICK n : IsLanding(F, op, n)
    BY <1>1, LandingExists
  <1>6. PlaceOK(F, op, n, p)
    <2> HIDE DEF F
    <2> QED
      BY <1>4, <1>5, RemotePlaceOK
  <1>7. p \in 0..Len(F)
    BY <1>4, <1>6 DEF PlaceOK, IsLanding
  <1>8. fragments' = [fragments EXCEPT ![r] = Splice(F, p, op.timestamp, op.length, gone)]
    BY DEF RemoteEdit, ApplyRemoteEdit
  <1>9. fragments \in [Replicas -> Seq(Characters)]
    BY DEF OrderInv, TextTypeOK
  <1> DEFINE G == Splice(F, p, op.timestamp, op.length, gone)
  <1>10. G \in Seq(Characters) /\ InsertedAt(F, G, p, op.timestamp, op.length)
    <2> HIDE DEF F, p, gone
    <2> QED
      BY ZenonT(30), <1>2, <1>3, <1>4, <1>7, SpliceFacts, SpliceInserts
  <1> HIDE DEF F, p, gone, G
  <1>11. /\ fragments'[r] = G
         /\ fragments' \in [Replicas -> Seq(Characters)]
         /\ \A s \in Replicas : s # r => fragments'[s] = fragments[s]
    BY <1>8, <1>9, <1>10 DEF G
  <1>12. InsertsEdit(r, op, n, p)
    BY <1>1, <1>2, <1>3, <1>6, <1>10, <1>11 DEF InsertsEdit, F
  <1> QED
    BY <1>11, <1>12 DEF SplicesEdit, F, G, p, gone

LEMMA AllObserved ==
    ASSUME DeliveryTypeOK, Causality, OrderInv, NEW r \in Replicas, NEW i \in 1..Len(fragments[r])
    PROVE  /\ Observed(version[r], fragments[r][i].timestamp)
           /\ fragments[r][i].timestamp.value < clock[r]
  <1> DEFINE u == fragments[r][i].timestamp
  <1>1. HasInserted(r, u, fragments[r][i].offset) /\ u \in Timestamps
    BY TextFacts DEF HoldsOnly
  <1> DEFINE k == fragments[r][i].offset
  <1> HIDE DEF u, k
  <1>2. ASSUME u = BaseTimestamp, k \in 1..BaseLength PROVE Observed(version[r], u)
    <2>1. BaseLength > 0
      BY <1>2, BaseLengthAssumption
    <2>2. BaseTimestamp.replica = LOCAL_REPLICA /\ BaseTimestamp.value = 1
      BY DEF BaseTimestamp, Timestamp
    <2>3. BaseVersion[LOCAL_REPLICA] = 1
      BY <2>1, <2>2, ReplicasAssumption DEF BaseVersion, Observe
    <2>4. BaseVersion[LOCAL_REPLICA] <= version[r][LOCAL_REPLICA]
      BY ReplicasAssumption DEF Causality, AuthorsLead
    <2> QED
      BY <1>2, <2>2, <2>3, <2>4, Numbers, ReplicasAssumption DEF Observed
  <1>3. Observed(version[r], u)
    BY <1>1, <1>2 DEF HasInserted, k, u
  <1>4. u.replica \in Replicas /\ u.value \in Nat
    BY <1>1 DEF Timestamps
  <1>5. version[r][u.replica] < clock[r] /\ version[r][u.replica] \in Nat /\ clock[r] \in Nat
    BY <1>4, Numbers DEF Causality, AuthorsLead
  <1>6. u.value < clock[r]
    BY <1>3, <1>4, <1>5 DEF Observed
  <1> QED
    BY <1>3, <1>6 DEF u

LEMMA LocalPlaceType ==
    ASSUME NEW F, Len(F) \in Nat, NEW start \in 0..VisibleLength(F)
    PROVE  /\ LocalPlace(F, start) \in 0..Len(F)
           /\ VisibleOffset(F, LocalPlace(F, start)) = start
           /\ LocalPlace(F, start) < Len(F) => F[LocalPlace(F, start) + 1].visible
  <1> DEFINE S == {i \in Nat : F[i].visible}
  <1>1. ASSUME NEW n \in Nat PROVE VisibleOffset(F, n) = Upto(S, n)
    <2>1. {i \in 1..n : F[i].visible} = {i \in 1..n : i \in S}
      OBVIOUS
    <2> QED
      BY <2>1 DEF VisibleOffset, Upto
  <1>2. start \in 0..Upto(S, Len(F))
    BY <1>1 DEF VisibleLength
  <1>3. \A n \in 0..Len(F) : n < Len(F) => (n + 1 \in S <=> F[n + 1].visible)
    OBVIOUS
  <1> HIDE DEF S
  <1>4. \E n \in 0..Len(F) : Upto(S, n) = start /\ (n < Len(F) => n + 1 \in S)
    BY <1>2, UptoReaches
  <1>5. \E n \in 0..Len(F) : VisibleOffset(F, n) = start /\ (n < Len(F) => F[n + 1].visible)
    BY <1>1, <1>3, <1>4
  <1> QED
    BY <1>5 DEF LocalPlace

LEMMA LocalEditInserts ==
    ASSUME DeliveryTypeOK, Causality, OrderInv, NEW r \in Replicas, NEW op, LocalEdit(r, op)
    PROVE  \E start \in 0..VisibleLength(fragments[r]) :
           \E end \in start..VisibleLength(fragments[r]) :
               /\ op.start = LocalPlace(fragments[r], start)
               /\ op.end = LocalEnd(fragments[r], start, end)
               /\ SplicesEdit(r, op, LocalPlace(fragments[r], start), LocalPlace(fragments[r], start),
                              LocalGone(fragments[r], start, end))
  <1> DEFINE F == fragments[r]
             t == op.timestamp
  <1>1. /\ Observes(r, op) /\ op.kind = "edit"
        /\ t = EditTimestamp(r) /\ op.version = version[r]
        /\ op.length \in 0..MaxInsertion
    BY DEF LocalEdit
  <1>2. /\ t \in Timestamps /\ t.value = clock[r] + 1 /\ 1 < t.value /\ clock[r] \in Nat
        /\ op.version \in [Replicas -> Nat]
    <2>1. clock[r] \in Nat \ {0} /\ version[r] \in [Replicas -> Nat]
      BY DEF DeliveryTypeOK
    <2>2. t = [replica |-> r, value |-> clock[r] + 1]
      BY <1>1 DEF EditTimestamp, Timestamp
    <2> HIDE DEF t
    <2>3. t \in Timestamps /\ t.value = clock[r] + 1
      BY <2>1, <2>2 DEF Timestamps
    <2> QED
      BY <1>1, <2>1, <2>3
  <1>3. op.length \in Nat
    BY <1>1
  <1>4. F \in Seq(Characters) /\ Len(F) \in Nat
        /\ \A i \in 1..Len(F) : F[i].timestamp \in Timestamps
    BY TextFacts
  <1>5. PICK start \in 0..VisibleLength(F) : \E end \in start..VisibleLength(F) :
            /\ op.start = LocalPlace(F, start)
            /\ op.end = LocalEnd(F, start, end)
            /\ fragments' = [fragments EXCEPT ![r] = ApplyLocalEdit(F, t, start, end, op.length)]
    BY DEF LocalEdit
  <1>0. PICK end \in start..VisibleLength(F) :
            /\ op.start = LocalPlace(F, start)
            /\ op.end = LocalEnd(F, start, end)
            /\ fragments' = [fragments EXCEPT ![r] = ApplyLocalEdit(F, t, start, end, op.length)]
    BY <1>5
  <1> DEFINE p == LocalPlace(F, start)
             gone == LocalGone(F, start, end)
             G == Splice(F, p, t, op.length, gone)
  <1>6. p \in 0..Len(F)
    <2> HIDE DEF F
    <2> QED
      BY <1>4, LocalPlaceType
  <1>7. \A i \in 1..Len(F) : Observed(version[r], F[i].timestamp) /\ F[i].timestamp.value < clock[r]
    BY AllObserved
  <1>8. FullOffset(F, op.version, p) = p
    <2>1. {i \in 1..p : Observed(version[r], F[i].timestamp)} = 1..p
      <3> HIDE DEF F, p
      <3> QED
        BY <1>4, <1>6, <1>7
    <2>2. Cardinality(1..p) = p
      <3>1. p \in Nat /\ 1 \in Int /\ p \in Int
        BY <1>4, <1>6
      <3> HIDE DEF p
      <3>2. Cardinality(1..p) = IF 1 > p THEN 0 ELSE p - 1 + 1
        BY <3>1, FS_Interval
      <3> QED
        BY <3>1, <3>2
    <2> QED
      BY <1>1, <2>1, <2>2 DEF FullOffset
  <1>9. PlaceOK(F, op, p, p)
    <2>1. ASSUME p < Len(F) PROVE ~Before(t, F[p + 1].timestamp)
      <3> DEFINE u == F[p + 1].timestamp
      <3>1. p + 1 \in 1..Len(F)
        BY <1>4, <1>6, <2>1
      <3>2. u \in Timestamps /\ u.value < clock[r]
        BY <1>4, <1>7, <3>1
      <3>3. u.value \in Nat
        BY <3>2 DEF Timestamps
      <3> HIDE DEF u, t, p, F
      <3>4. ~Before(t, u)
        BY <1>2, <3>2, <3>3 DEF Before
      <3> QED
        BY <3>4 DEF u
    <2>2. p > 0 => Observed(op.version, F[p].timestamp)
      <3> HIDE DEF F, p
      <3> QED
        BY <1>1, <1>4, <1>6, <1>7
    <2>3. op.start = p
      BY <1>5
    <2> HIDE DEF F, p, t
    <2>4. p \in p..Len(F) /\ \A i \in (p + 1)..p : Before(op.timestamp, F[i].timestamp)
      BY <1>4, <1>6
    <2> QED
      BY <1>6, <1>8, <2>1, <2>2, <2>3, <2>4 DEF PlaceOK, IsLanding, t
  <1>10. fragments' = [fragments EXCEPT ![r] = G]
    BY <1>0 DEF ApplyLocalEdit
  <1>11. G \in Seq(Characters) /\ InsertedAt(F, G, p, t, op.length)
    <2> HIDE DEF F, p, gone, t
    <2> QED
      BY <1>2, <1>3, <1>4, <1>6, SpliceFacts, SpliceInserts
  <1>12. op.start \in Nat
    BY <1>5, <1>6
  <1>13. fragments \in [Replicas -> Seq(Characters)]
    BY DEF OrderInv, TextTypeOK
  <1> HIDE DEF F, p, gone, G, t
  <1>14. /\ fragments'[r] = G
         /\ fragments' \in [Replicas -> Seq(Characters)]
         /\ \A s \in Replicas : s # r => fragments'[s] = fragments[s]
    BY <1>10, <1>11, <1>13
  <1>15. InsertsEdit(r, op, p, p)
    BY <1>1, <1>2, <1>3, <1>9, <1>11, <1>12, <1>14 DEF InsertsEdit, F, t
  <1>16. SplicesEdit(r, op, p, p, gone)
    BY <1>14, <1>15 DEF SplicesEdit, F, G, t
  <1> QED
    BY <1>0, <1>16 DEF F, p, gone

-----------------------------------------------------------------------------
(* The invariant holds.                                                     *)

LEMMA UndoKeepsOrder ==
    ASSUME DeliveryTypeOK, Causality, OrderInv, NEW r \in Replicas, NEW op, AppliedUndo(r, op)
    PROVE  OrderInv'
  <1> DEFINE undos == WithUndo(undoMap[r], op)
  <1>1. /\ issued' = issued \cup {op} /\ op.kind = "undo"
        /\ fragments' = [fragments EXCEPT ![r] = ApplyUndo(@, op, undos)]
        /\ \A s \in Replicas, o \in issued' :
               Observed(version'[s], o.timestamp) <=>
                   \/ o \in issued /\ Observed(version[s], o.timestamp)
                   \/ s = r /\ o = op
    BY DEF AppliedUndo, Observes
  <1>2. Edits' = Edits
    BY <1>1 DEF Edits
  <1>3. \A s \in Replicas, o \in Edits :
            Observed(version'[s], o.timestamp) <=> Observed(version[s], o.timestamp)
    BY <1>1 DEF Edits
  <1>4. fragments \in [Replicas -> Seq(Characters)]
    BY DEF OrderInv, TextTypeOK
  <1> HIDE DEF undos
  <1>5. ASSUME NEW F \in Seq(Characters)
        PROVE  ApplyUndo(F, op, undos) \in Seq(Characters) /\ SameText(F, ApplyUndo(F, op, undos))
    BY ApplyUndoFacts DEF SameText
  <1>6. ASSUME NEW F \in Seq(Characters) PROVE SameText(F, F)
    BY DEF SameText, SameCharacter
  <1>7. ASSUME NEW s \in Replicas
        PROVE  fragments'[s] \in Seq(Characters) /\ SameText(fragments[s], fragments'[s])
    <2>1. fragments'[s] = IF s = r THEN ApplyUndo(fragments[s], op, undos) ELSE fragments[s]
      BY <1>1, <1>4
    <2>2. fragments[s] \in Seq(Characters)
      BY <1>4
    <2> QED
      BY <1>5, <1>6, <2>1, <2>2
  <1>8. fragments' \in [Replicas -> Seq(Characters)]
    BY <1>1, <1>4, <1>7
  <1> QED
    BY <1>2, <1>3, <1>7, <1>8, SameTextOrder

LEMMA OrderStep == DeliveryTypeOK /\ Causality /\ OrderInv /\ [Next]_vars => OrderInv'
  <1> SUFFICES ASSUME DeliveryTypeOK, Causality, OrderInv, [Next]_vars
               PROVE  OrderInv'
    OBVIOUS
  <1>1. CASE TextKept
    <2>1. fragments' = fragments /\ version' = version /\ issued' = issued
      BY <1>1 DEF TextKept
    <2>2. Edits' = Edits
      BY <2>1 DEF Edits
    <2>3. \A s \in Replicas, o \in Edits :
              Observed(version'[s], o.timestamp) <=> Observed(version[s], o.timestamp)
      BY <2>1
    <2>4. fragments' \in [Replicas -> Seq(Characters)]
          /\ \A s \in Replicas : SameText(fragments[s], fragments'[s])
      BY <2>1 DEF OrderInv, TextTypeOK, SameText, SameCharacter
    <2> QED
      BY <2>2, <2>3, <2>4, SameTextOrder
  <1>2. ASSUME NEW r \in Replicas, NEW op, LocalEdit(r, op) \/ RemoteEdit(r, op) PROVE OrderInv'
    <2>1. PICK n, p : InsertsEdit(r, op, n, p)
      BY <1>2, LocalEditInserts, RemoteEditInserts DEF SplicesEdit
    <2> QED
      BY <2>1, InsertKeepsOrder
  <1>3. ASSUME NEW r \in Replicas, NEW op, AppliedUndo(r, op) PROVE OrderInv'
    BY <1>3, UndoKeepsOrder
  <1> QED
    BY <1>1, <1>2, <1>3, TextSteps

LEMMA OrderInit == Init => OrderInv
  <1> SUFFICES ASSUME Init PROVE OrderInv
    OBVIOUS
  <1> DEFINE F == Insertion(BaseTimestamp, BaseLength)
  <1>1. BaseTimestamp \in Timestamps
    BY ReplicasAssumption DEF BaseTimestamp, Timestamp, Timestamps
  <1>2. /\ F \in Seq(Characters) /\ Len(F) = BaseLength /\ DOMAIN F = 1..BaseLength
        /\ \A i \in 1..BaseLength : F[i].timestamp = BaseTimestamp /\ F[i].offset = i
    <2>1. \A i \in 1..BaseLength : F[i] = Fragment(BaseTimestamp, i)
      BY DEF Insertion
    <2>2. \A i \in 1..BaseLength : Fragment(BaseTimestamp, i) \in Characters
      BY <1>1, FragmentType, BaseLengthAssumption
    <2>3. F \in [1..BaseLength -> Characters]
      BY <2>2 DEF Insertion
    <2>4. \A i \in 1..BaseLength : F[i].timestamp = BaseTimestamp /\ F[i].offset = i
      <3>1. ASSUME NEW t, NEW i PROVE Fragment(t, i).timestamp = t /\ Fragment(t, i).offset = i
        BY DEF Fragment
      <3> HIDE DEF F
      <3> QED
        BY <2>1, <3>1
    <2> HIDE DEF F
    <2> QED
      BY <2>3, <2>4, BaseLengthAssumption
  <1>3. fragments = [r \in Replicas |-> F] /\ Edits = {}
    BY DEF Init, Edits
  <1> HIDE DEF F
  <1>4. TextTypeOK
    BY <1>2, <1>3 DEF TextTypeOK
  <1>5. ASSUME NEW r \in Replicas, NEW t, NEW k
        PROVE  HasInserted(r, t, k) <=> t = BaseTimestamp /\ k \in 1..BaseLength
    BY <1>3 DEF HasInserted
  <1>6. ASSUME NEW r \in Replicas
        PROVE  HoldsOnly(r) /\ HoldsAll(r) /\ InOffsetOrder(fragments[r])
    <2>1. fragments[r] = F
      BY <1>3
    <2>2. HoldsOnly(r)
      BY <1>2, <1>5, <2>1 DEF HoldsOnly
    <2>3. HoldsAll(r)
      BY <1>2, <1>5, <2>1 DEF HoldsAll
    <2>4. InOffsetOrder(F)
      BY <1>2 DEF InOffsetOrder
    <2> QED
      BY <2>1, <2>2, <2>3, <2>4
  <1>7. EditsPlaced
    BY <1>3 DEF EditsPlaced
  <1>8. OneOrder
    BY <1>2, <1>3, BaseLengthAssumption DEF OneOrder, SameCharacter
  <1> QED
    BY <1>4, <1>6, <1>7, <1>8 DEF OrderInv, CharactersOK

LEMMA OrderInvariance == Spec => []OrderInv
  <1>1. IInv => DeliveryTypeOK /\ Causality
    BY DEF IInv
  <1> QED
    BY <1>1, OrderInit, OrderStep, Invariance, PTL DEF Spec

(* Replicas hold the characters that they both hold in the same order: an   *)
(* insertion gets the same neighbours wherever, whenever and after whatever *)
(* other operations apply_remote_edit is given it.                          *)
THEOREM ReplicasAgreeOnOrder == Spec => []OneOrder
  <1>1. OrderInv => OneOrder
    BY DEF OrderInv
  <1> QED
    BY <1>1, OrderInvariance, PTL
=============================================================================
