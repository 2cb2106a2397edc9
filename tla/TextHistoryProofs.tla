--------------------------- MODULE TextHistoryProofs ---------------------------
(***************************************************************************)
(* Proofs about the undo histories of TextBuffer, for any number of        *)
(* replicas, edits, undos and requests of any kind: no edit is in two      *)
(* histories, and what a history says of its edits is true at its replica. *)
(***************************************************************************)
EXTENDS TextBufferProofs, SequenceTheorems, FiniteSetTheorems, WellFoundedInduction

-----------------------------------------------------------------------------
(* Least and greatest numbers.                                              *)

LEMMA LeastNatural ==
    ASSUME NEW S \in SUBSET Nat, S # {}
    PROVE  \E m \in S : \A n \in S : m <= n
  <1> DEFINE R == OpToRel(<, Nat)
  <1>1. \A m, n \in Nat : <<n, m>> \in R <=> n < m
    BY DEF OpToRel
  <1>2. IsWellFoundedOn(R, Nat)
    BY NatLessThanWellFounded
  <1> HIDE DEF R
  <1>3. PICK m \in S : \A n \in S : ~ (<<n, m>> \in R)
    BY <1>2, WFMin
  <1>4. ASSUME NEW n \in S PROVE m <= n
    <2>1. m \in Nat /\ n \in Nat
      OBVIOUS
    <2>2. ~(n < m)
      BY <1>1, <1>3, <2>1
    <2> QED
      BY <2>1, <2>2
  <1> QED
    BY <1>4

LEMMA GreatestNatural ==
    ASSUME NEW S \in SUBSET Nat, S # {}, NEW b \in Nat, \A n \in S : n <= b
    PROVE  \E m \in S : \A n \in S : n <= m
  <1> DEFINE D == {d \in Nat : b - d \in S}
  <1>1. D \in SUBSET Nat /\ D # {}
    <2>1. PICK n \in S : TRUE
      OBVIOUS
    <2>2. b - n \in Nat /\ b - (b - n) = n
      BY <2>1
    <2> QED
      BY <2>1, <2>2
  <1>2. PICK d \in D : \A e \in D : d <= e
    <2> HIDE DEF D
    <2> QED
      BY <1>1, LeastNatural
  <1>3. ASSUME NEW n \in S PROVE n <= b - d
    <2>1. b - n \in D
      OBVIOUS
    <2> QED
      BY <1>2, <2>1
  <1> QED
    BY <1>2, <1>3

(* What FiniteSetsExt's Max chooses.                                        *)
LEMMA MaxFacts ==
    ASSUME NEW S \in SUBSET Nat, S # {}, NEW b \in Nat, \A n \in S : n <= b
    PROVE  Max(S) \in S /\ \A n \in S : n <= Max(S)
  <1>1. \E m \in S : \A n \in S : m >= n
    BY GreatestNatural
  <1> QED
    BY <1>1 DEF Max

LEMMA CountFacts ==
    ASSUME NEW E, NEW b \in Nat, \A u \in E : u.count \in 0..b
    PROVE  /\ GreatestCount(E) \in Nat
           /\ \A u \in E : u.count <= GreatestCount(E)
           /\ GreatestCount(E) = 0 \/ \E u \in E : GreatestCount(E) = u.count
  <1> DEFINE S == {0} \cup {u.count : u \in E}
  <1>1. S \in SUBSET Nat /\ S # {} /\ \A n \in S : n <= b
    OBVIOUS
  <1>2. Max(S) \in S /\ \A n \in S : n <= Max(S)
    <2> HIDE DEF S
    <2> QED
      BY <1>1, MaxFacts
  <1>3. GreatestCount(E) = Max(S)
    BY DEF GreatestCount
  <1> HIDE DEF S
  <1> USE <1>1, <1>2, <1>3
  <1>4. \A u \in E : u.count \in S
    BY DEF S
  <1>5. \A n \in S : n = 0 \/ \E u \in E : n = u.count
    BY DEF S
  <1> QED
    BY <1>4, <1>5
-----------------------------------------------------------------------------
(* Stacks of transactions.                                                  *)

Transactions == [edits : SUBSET Timestamps, sealed : BOOLEAN]

EditsIn(stack) == UNION {stack[i].edits : i \in DOMAIN stack}

Apart(stack) ==
    \A i, j \in DOMAIN stack : i # j => stack[i].edits \cap stack[j].edits = {}

LEMMA StackFacts ==
    ASSUME NEW stack \in Seq(Transactions)
    PROVE  /\ DOMAIN stack = 1..Len(stack)
           /\ Len(stack) \in Nat
           /\ \A i \in DOMAIN stack : stack[i] \in Transactions
           /\ \A i \in DOMAIN stack : stack[i].edits \subseteq EditsIn(stack)
           /\ EditsIn(stack) \subseteq Timestamps
           /\ EditsIn(stack) = UNION {e.edits : e \in Range(stack)}
  <1>1. DOMAIN stack = 1..Len(stack) /\ Len(stack) \in Nat
        /\ \A i \in DOMAIN stack : stack[i] \in Transactions
    OBVIOUS
  <1>2. \A i \in DOMAIN stack : stack[i].edits \subseteq EditsIn(stack)
    BY DEF EditsIn
  <1>3. EditsIn(stack) \subseteq Timestamps
    BY <1>1 DEF EditsIn, Transactions
  <1>4. EditsIn(stack) = UNION {e.edits : e \in Range(stack)}
    BY DEF EditsIn, Range
  <1> QED
    BY <1>1, <1>2, <1>3, <1>4

LEMMA EmptyStack ==
    <<>> \in Seq(Transactions) /\ EditsIn(<<>>) = {} /\ Apart(<<>>)
  BY DEF EditsIn, Apart

LEMMA PushStack ==
    ASSUME NEW stack \in Seq(Transactions), NEW e \in Transactions
    PROVE  /\ Append(stack, e) \in Seq(Transactions)
           /\ EditsIn(Append(stack, e)) = EditsIn(stack) \cup e.edits
           /\ Apart(stack) /\ e.edits \cap EditsIn(stack) = {} => Apart(Append(stack, e))
  <1> DEFINE s == Append(stack, e)
  <1>1. /\ s \in Seq(Transactions)
        /\ DOMAIN s = 1..(Len(stack) + 1)
        /\ DOMAIN stack = 1..Len(stack)
        /\ Len(stack) \in Nat
        /\ \A i \in 1..Len(stack) : s[i] = stack[i]
        /\ s[Len(stack) + 1] = e
    OBVIOUS
  <1> HIDE DEF s
  <1>2. \A t : t \in EditsIn(s) <=> \E i \in DOMAIN s : t \in s[i].edits
    BY DEF EditsIn
  <1>3. \A t : t \in EditsIn(stack) <=> \E i \in DOMAIN stack : t \in stack[i].edits
    BY DEF EditsIn
  <1>4. \A i \in DOMAIN s : i \in 1..Len(stack) \/ i = Len(stack) + 1
    BY <1>1
  <1>5. EditsIn(s) = EditsIn(stack) \cup e.edits
    BY <1>1, <1>2, <1>3, <1>4
  <1>6. ASSUME Apart(stack), e.edits \cap EditsIn(stack) = {} PROVE Apart(s)
    <2>1. ASSUME NEW i \in DOMAIN s, NEW j \in DOMAIN s, i # j, NEW t, t \in s[i].edits, t \in s[j].edits
          PROVE  FALSE
      <3>1. CASE i \in 1..Len(stack) /\ j \in 1..Len(stack)
        BY <1>1, <1>6, <2>1, <3>1 DEF Apart
      <3>2. CASE i = Len(stack) + 1
        BY <1>1, <1>3, <1>4, <1>6, <2>1, <3>2
      <3>3. CASE j = Len(stack) + 1
        BY <1>1, <1>3, <1>4, <1>6, <2>1, <3>3
      <3> QED
        BY <1>4, <3>1, <3>2, <3>3
    <2> QED
      BY <2>1 DEF Apart
  <1> QED
    BY <1>1, <1>5, <1>6 DEF s

(* Grouping moves edits from one transaction to another.                    *)
LEMMA GroupStack ==
    ASSUME NEW stack \in Seq(Transactions), NEW n \in 0..(Len(stack) - 1)
    PROVE  /\ GroupTrailing(stack, n) \in Seq(Transactions)
           /\ EditsIn(GroupTrailing(stack, n)) = EditsIn(stack)
           /\ Apart(stack) => Apart(GroupTrailing(stack, n))
  <1> DEFINE kept == Len(stack) - n
             base == SubSeq(stack, 1, kept)
             merged == UNION {stack[i].edits : i \in kept..Len(stack)}
             s == GroupTrailing(stack, n)
  <1>1. kept \in 1..Len(stack) /\ Len(stack) \in Nat /\ DOMAIN stack = 1..Len(stack)
    OBVIOUS
  <1>2. \A i \in 1..Len(stack) : stack[i] \in Transactions
    OBVIOUS
  <1>3. /\ base \in Seq(Transactions)
        /\ Len(base) = kept
        /\ \A i \in 1..kept : base[i] = stack[i]
    <2> HIDE DEF kept
    <2>1. \A i \in 1..kept : stack[i] \in Transactions
      BY <1>1, <1>2
    <2> QED
      BY <1>1, <2>1, SubSeqProperties
  <1>4. s = [base EXCEPT ![kept].edits = merged]
    BY DEF GroupTrailing
  <1>5. merged \in SUBSET Timestamps
    <2> HIDE DEF kept
    <2> QED
      BY <1>1, <1>2 DEF Transactions
  <1> HIDE DEF base, s, kept
  <1>6. /\ s \in Seq(Transactions)
        /\ DOMAIN s = 1..kept
        /\ \A i \in 1..(kept - 1) : s[i] = stack[i]
        /\ s[kept].edits = merged
    <2>1. base[kept] \in Transactions /\ DOMAIN base = 1..kept /\ kept \in 1..kept
      BY <1>1, <1>3
    <2>2. [base[kept] EXCEPT !.edits = merged] \in Transactions
      BY <1>5, <2>1 DEF Transactions
    <2>3. [base[kept] EXCEPT !.edits = merged].edits = merged
      BY <2>1 DEF Transactions
    <2> HIDE DEF merged
    <2>4. s = [base EXCEPT ![kept] = [base[kept] EXCEPT !.edits = merged]]
      BY <1>4
    <2>5. s \in Seq(Transactions) /\ DOMAIN s = 1..kept
      BY <1>3, <2>1, <2>2, <2>4
    <2> QED
      BY <1>1, <1>3, <2>1, <2>3, <2>4, <2>5
  <1>7. \A t : t \in EditsIn(s) <=> \E i \in DOMAIN s : t \in s[i].edits
    BY DEF EditsIn
  <1>8. \A t : t \in EditsIn(stack) <=> \E i \in DOMAIN stack : t \in stack[i].edits
    BY DEF EditsIn
  <1>9. \A t : t \in merged <=> \E i \in kept..Len(stack) : t \in stack[i].edits
    OBVIOUS
  <1> HIDE DEF merged
  <1>10. ASSUME NEW t PROVE t \in EditsIn(s) <=> t \in EditsIn(stack)
    <2>1. ASSUME NEW i \in 1..kept, t \in s[i].edits
          PROVE  \E j \in 1..Len(stack) : t \in stack[j].edits
      BY <1>1, <1>6, <1>9, <2>1
    <2>2. ASSUME NEW i \in 1..Len(stack), t \in stack[i].edits
          PROVE  \E j \in 1..kept : t \in s[j].edits
      BY <1>1, <1>6, <1>9, <2>2
    <2> QED
      BY <1>1, <1>6, <1>7, <1>8, <2>1, <2>2
  <1>11. ASSUME Apart(stack) PROVE Apart(s)
    <2>1. ASSUME NEW i \in 1..kept, NEW j \in 1..kept, i < j, NEW t, t \in s[i].edits, t \in s[j].edits
          PROVE  FALSE
      <3>1. i \in 1..(kept - 1) /\ t \in stack[i].edits /\ i \in DOMAIN stack
        BY <1>1, <1>6, <2>1
      <3>2. PICK k \in DOMAIN stack : k >= j /\ t \in stack[k].edits
        BY SMTT(30), <1>1, <1>6, <1>9, <2>1
      <3> QED
        BY <1>11, <2>1, <3>1, <3>2 DEF Apart
    <2>2. \A i, j \in 1..kept : i # j => i < j \/ j < i
      BY <1>1
    <2> QED
      BY <1>6, <2>1, <2>2 DEF Apart
  <1> QED
    BY <1>6, <1>10, <1>11 DEF s

LEMMA RemoveFromStack ==
    ASSUME NEW stack \in Seq(Transactions), NEW i \in DOMAIN stack
    PROVE  LET s == SubSeq(stack, 1, i - 1) \o SubSeq(stack, i + 1, Len(stack)) IN
           /\ s \in Seq(Transactions)
           /\ EditsIn(s) \subseteq EditsIn(stack)
           /\ Apart(stack) => Apart(s) /\ EditsIn(s) \cap stack[i].edits = {}
  <1> DEFINE front == SubSeq(stack, 1, i - 1)
             back == SubSeq(stack, i + 1, Len(stack))
             s == front \o back
             From(j) == IF j < i THEN j ELSE j + 1
  <1>1. i \in 1..Len(stack) /\ Len(stack) \in Nat /\ DOMAIN stack = 1..Len(stack)
    OBVIOUS
  <1>2. \A j \in 1..Len(stack) : stack[j] \in Transactions
    OBVIOUS
  <1>3. /\ front \in Seq(Transactions)
        /\ Len(front) = i - 1
        /\ \A j \in 1..(i - 1) : front[j] = stack[j]
    <2>1. \A j \in 1..(i - 1) : stack[j] \in Transactions
      BY <1>1, <1>2
    <2> QED
      BY <1>1, <2>1, SubSeqProperties
  <1>4. /\ back \in Seq(Transactions)
        /\ Len(back) = Len(stack) - i
        /\ \A j \in 1..(Len(stack) - i) : back[j] = stack[j + i]
    <2>1. \A j \in (i + 1)..Len(stack) : stack[j] \in Transactions
      BY <1>1, <1>2
    <2> QED
      BY <1>1, <2>1, SubSeqProperties
  <1> HIDE DEF front, back
  <1>5. /\ s \in Seq(Transactions)
        /\ Len(s) = Len(stack) - 1
        /\ \A j \in 1..(Len(stack) - 1) : s[j] = IF j <= i - 1 THEN front[j] ELSE back[j - (i - 1)]
    <2>1. /\ s \in Seq(Transactions)
          /\ Len(s) = Len(front) + Len(back)
          /\ \A j \in 1..(Len(front) + Len(back)) :
                 s[j] = IF j <= Len(front) THEN front[j] ELSE back[j - Len(front)]
      BY <1>3, <1>4, ConcatProperties
    <2>2. Len(front) + Len(back) = Len(stack) - 1
      BY <1>1, <1>3, <1>4
    <2> HIDE DEF s
    <2> QED
      BY <1>3, <2>1, <2>2
  <1> HIDE DEF s
  <1>6. DOMAIN s = 1..(Len(stack) - 1)
    BY <1>5
  <1>7. ASSUME NEW j \in DOMAIN s
        PROVE  From(j) \in DOMAIN stack /\ From(j) # i /\ s[j] = stack[From(j)]
    <2>1. j \in 1..(Len(stack) - 1)
      BY <1>6
    <2>2. CASE j <= i - 1
      <3>1. s[j] = front[j] /\ front[j] = stack[j]
        BY <1>1, <1>3, <1>5, <2>1, <2>2
      <3> QED
        BY <1>1, <2>1, <2>2, <3>1
    <2>3. CASE ~(j <= i - 1)
      <3>1. s[j] = back[j - (i - 1)]
        BY <1>5, <2>1, <2>3
      <3>2. j - (i - 1) \in 1..(Len(stack) - i) /\ j - (i - 1) + i = j + 1
        BY <1>1, <2>1, <2>3
      <3>3. back[j - (i - 1)] = stack[j + 1]
        BY <1>4, <3>2
      <3> QED
        BY <1>1, <2>1, <2>3, <3>1, <3>3
    <2> QED
      BY <2>2, <2>3
  <1>8. \A j, k \in DOMAIN s : j # k => From(j) # From(k)
    BY <1>1, <1>6
  <1> HIDE DEF From
  <1>9. EditsIn(s) \subseteq EditsIn(stack)
    BY <1>7 DEF EditsIn
  <1>10. ASSUME Apart(stack) PROVE Apart(s) /\ EditsIn(s) \cap stack[i].edits = {}
    <2>1. Apart(s)
      BY <1>7, <1>8, <1>10 DEF Apart
    <2>2. \A j \in DOMAIN s : s[j].edits \cap stack[i].edits = {}
      BY <1>7, <1>10 DEF Apart
    <2> QED
      BY <2>1, <2>2 DEF EditsIn
  <1> QED
    BY <1>5, <1>9, <1>10 DEF s, front, back

LEMMA SealStack ==
    ASSUME NEW stack \in Seq(Transactions)
    PROVE  /\ Sealed(stack) \in Seq(Transactions)
           /\ EditsIn(Sealed(stack)) = EditsIn(stack)
           /\ Apart(stack) => Apart(Sealed(stack))
  <1> DEFINE s == Sealed(stack)
  <1>1. DOMAIN stack = 1..Len(stack) /\ Len(stack) \in Nat
    OBVIOUS
  <1>2. DOMAIN s = DOMAIN stack
    BY DEF Sealed
  <1>3. \A i \in DOMAIN stack : s[i] \in Transactions /\ s[i].edits = stack[i].edits
    <2> SUFFICES ASSUME NEW i \in DOMAIN stack
                 PROVE  s[i] \in Transactions /\ s[i].edits = stack[i].edits
      OBVIOUS
    <2>1. stack[i] \in Transactions
      BY <1>1
    <2>2. s[i] = IF i = Len(stack) THEN Entry(stack[i].edits, TRUE) ELSE stack[i]
      BY DEF Sealed
    <2> QED
      BY <2>1, <2>2 DEF Entry, Transactions
  <1>4. s = [i \in 1..Len(stack) |-> s[i]]
    BY <1>1 DEF Sealed
  <1> HIDE DEF s
  <1>5. s \in [1..Len(stack) -> Transactions]
    BY <1>1, <1>3, <1>4
  <1>6. s \in Seq(Transactions)
    BY <1>1, <1>5
  <1>7. EditsIn(s) = EditsIn(stack) /\ (Apart(stack) => Apart(s))
    BY <1>2, <1>3 DEF EditsIn, Apart
  <1> QED
    BY <1>6, <1>7 DEF s

-----------------------------------------------------------------------------
(* How often an edit has been undone or redone.                             *)

(* An undo operation counts once more each edit it names, and no other.     *)
LEMMA CountOfOthers ==
    ASSUME NEW undos, NEW op, NEW t, t \notin DOMAIN op.counts
    PROVE  UndoCount(WithUndo(undos, op), t) = UndoCount(undos, t)
  <1>1. {u \in WithUndo(undos, op) : u.edit = t} = {u \in undos : u.edit = t}
    BY DEF WithUndo
  <1> QED
    BY <1>1 DEF UndoCount

LEMMA CountType ==
    ASSUME NEW undos, NEW t, NEW b \in Nat, \A u \in undos : u.count \in 0..b
    PROVE  UndoCount(undos, t) \in 0..b
  <1> DEFINE E == {u \in undos : u.edit = t}
  <1>1. \A u \in E : u.count \in 0..b
    OBVIOUS
  <1>2. UndoCount(undos, t) = GreatestCount(E)
    BY DEF UndoCount
  <1> HIDE DEF E
  <1> QED
    BY <1>1, <1>2, CountFacts

LEMMA CountOfNamed ==
    ASSUME NEW undos, NEW b \in Nat, \A u \in undos : u.count \in 0..b,
           NEW op, NEW t \in DOMAIN op.counts, op.counts[t] = UndoCount(undos, t) + 1
    PROVE  UndoCount(WithUndo(undos, op), t) = UndoCount(undos, t) + 1
  <1> DEFINE E == {u \in undos : u.edit = t}
             F == {u \in WithUndo(undos, op) : u.edit = t}
             n == UndoCount(undos, t)
             new == [edit |-> t, undo |-> op.timestamp, count |-> op.counts[t]]
  <1>1. F = E \cup {new}
    BY DEF WithUndo
  <1>2. \A u \in E : u.count \in 0..b
    OBVIOUS
  <1>3. n = GreatestCount(E) /\ UndoCount(WithUndo(undos, op), t) = GreatestCount(F)
    BY DEF UndoCount
  <1>4. n \in 0..b
    BY CountType
  <1>5. new.count = n + 1
    OBVIOUS
  <1> HIDE DEF E, F, n, new
  <1>6. \A u \in E : u.count <= n
    BY <1>2, <1>3, CountFacts
  <1>7. \A u \in F : u.count \in 0..(b + 1)
    BY <1>1, <1>2, <1>4, <1>5
  <1>8. /\ GreatestCount(F) \in Nat
        /\ \A u \in F : u.count <= GreatestCount(F)
        /\ GreatestCount(F) = 0 \/ \E u \in F : GreatestCount(F) = u.count
    BY <1>7, CountFacts
  <1>9. new \in F /\ \A u \in F : u \in E \/ u = new
    BY <1>1
  <1>10. GreatestCount(F) = n + 1
    BY <1>2, <1>4, <1>5, <1>6, <1>8, <1>9
  <1> QED
    BY <1>3, <1>10 DEF n

LEMMA NeverCounted ==
    ASSUME NEW undos, NEW t, \A u \in undos : u.edit # t
    PROVE  ~IsUndone(undos, t)
  <1>1. {u \in undos : u.edit = t} = {}
    OBVIOUS
  <1>2. GreatestCount({}) = 0
    <2>1. \A u \in {} : u.count \in 0..0
      OBVIOUS
    <2>2. GreatestCount({}) = 0 \/ \E u \in {} : GreatestCount({}) = u.count
      BY <2>1, CountFacts
    <2> QED
      BY <2>2
  <1> QED
    BY <1>1, <1>2 DEF IsUndone, UndoCount

(* Counting once more turns undone into done, and back.                     *)
LEMMA CountToggles ==
    ASSUME NEW undos, NEW b \in Nat, \A u \in undos : u.count \in 0..b,
           NEW op, NEW t \in DOMAIN op.counts, op.counts[t] = UndoCount(undos, t) + 1
    PROVE  IsUndone(WithUndo(undos, op), t) <=> ~IsUndone(undos, t)
  <1>1. UndoCount(undos, t) \in Nat
    BY CountType
  <1>2. UndoCount(WithUndo(undos, op), t) = UndoCount(undos, t) + 1
    BY CountOfNamed
  <1>3. \A n \in Nat : (n + 1) % 2 = 1 <=> n % 2 # 1
    OBVIOUS
  <1> QED
    BY <1>1, <1>2, <1>3 DEF IsUndone

-----------------------------------------------------------------------------
(* The inductive invariant.                                                 *)

Request(A) ==
    [stage : {"sent", "waiting", "answered", "pushing", "done"},
     from : Replicas \ {LOCAL_REPLICA}, kind : RequestKinds,
     edits : SUBSET Timestamps, version : [Replicas -> Nat], anchor : A]

RequestsOK == \E A : requests \in Seq(Request(A))

History == [r \in Replicas |-> EditsIn(undoStack[r]) \cup EditsIn(redoStack[r])]

(* The edits made for a guest that has yet to take them over.               *)
PendingEdits == [i \in DOMAIN requests |->
                IF requests[i].stage \in {"answered", "pushing"} THEN requests[i].edits ELSE {}]

HistoryTypeOK ==
    /\ undoStack \in [Replicas -> Seq(Transactions)]
    /\ redoStack \in [Replicas -> Seq(Transactions)]
    /\ RequestsOK
    /\ \A r \in Replicas : History[r] \subseteq EditTimestamps
    /\ \A i \in DOMAIN requests : requests[i].edits \subseteq EditTimestamps

(* An edit is in one place at most: a transaction of one of the two stacks  *)
(* of one replica, or a request.                                            *)
HistoriesApart ==
    /\ \A r \in Replicas : /\ Apart(undoStack[r]) /\ Apart(redoStack[r])
                           /\ EditsIn(undoStack[r]) \cap EditsIn(redoStack[r]) = {}
    /\ \A r, s \in Replicas : r # s => History[r] \cap History[s] = {}
    /\ \A i \in DOMAIN requests, r \in Replicas : PendingEdits[i] \cap History[r] = {}
    /\ \A i, j \in DOMAIN requests : i # j => PendingEdits[i] \cap PendingEdits[j] = {}

(* What undo operations say: their counts have a bound, and those of an     *)
(* edit that is in a history are that replica's own.                        *)
CountsBounded == \E b \in Nat : \A o \in Undos : \A t \in DOMAIN o.counts : o.counts[t] \in 1..b

OwnersToggle ==
    \A o \in Undos :
        /\ DOMAIN o.counts \subseteq EditTimestamps
        /\ \A r \in Replicas : r # o.timestamp.replica => DOMAIN o.counts \cap History[r] = {}
        /\ \A i \in DOMAIN requests : DOMAIN o.counts \cap PendingEdits[i] = {}

UndoEntry(o, t) == [edit |-> t, undo |-> o.timestamp, count |-> o.counts[t]]

UndoMapKnown ==
    \A r \in Replicas : \A u \in undoMap[r] :
        \E o \in Undos : \E t \in DOMAIN o.counts : u = UndoEntry(o, t)

(* What a replica may undo is done there, what it may redo is undone.       *)
HistoriesCurrent ==
    \A r \in Replicas :
        /\ \A t \in EditsIn(undoStack[r]) : ~IsUndone(undoMap[r], t)
        /\ \A t \in EditsIn(redoStack[r]) : IsUndone(undoMap[r], t)

UndoInv == CountsBounded /\ OwnersToggle /\ UndoMapKnown /\ DOMAIN undoMap = Replicas

HistoryInv == HistoryTypeOK /\ HistoriesApart /\ UndoInv /\ HistoriesCurrent

historyStateVars == <<undoMap, undoStack, redoStack, requests, issued>>

LEMMA HistoryUntouched ==
    HistoryInv /\ UNCHANGED historyStateVars => HistoryInv'
  <1> SUFFICES ASSUME HistoryInv, UNCHANGED historyStateVars PROVE HistoryInv'
    OBVIOUS
  <1> USE DEF historyStateVars
  <1>1. \A r \in Replicas : History'[r] = History[r]
    BY DEF History
  <1>2. \A i \in DOMAIN requests : PendingEdits'[i] = PendingEdits[i]
    BY DEF PendingEdits
  <1>3. EditTimestamps' = EditTimestamps /\ Undos' = Undos
    BY DEF EditTimestamps, Edits, Undos
  <1>4. HistoryTypeOK' /\ HistoriesApart'
    BY <1>1, <1>2, <1>3 DEF HistoryInv, HistoryTypeOK, RequestsOK, HistoriesApart
  <1>5. UndoInv'
    BY <1>1, <1>2, <1>3 DEF HistoryInv, UndoInv, CountsBounded, OwnersToggle, UndoMapKnown
  <1>6. HistoriesCurrent'
    BY DEF HistoryInv, HistoriesCurrent
  <1> QED
    BY <1>4, <1>5, <1>6 DEF HistoryInv

-----------------------------------------------------------------------------
(* Steps that change the stacks of one replica, or the requests.            *)

(* The timestamps a replica is about to draw name no operation.             *)
LEMMA FreshTimestamps ==
    ASSUME DeliveryTypeOK, Causality, NEW r \in Replicas
    PROVE  /\ clock[r] \in Nat \ {0}
           /\ Timestamp(r, clock[r]) \in Timestamps
           /\ EditTimestamp(r) \in Timestamps
           /\ \A o \in issued : o.timestamp # Timestamp(r, clock[r]) /\ o.timestamp # EditTimestamp(r)
  <1>1. clock[r] \in Nat \ {0}
    BY DEF DeliveryTypeOK
  <1>2. \A o \in issued : o.timestamp.replica = r => o.timestamp.value < clock[r]
    <2> SUFFICES ASSUME NEW o \in issued, o.timestamp.replica = r
                 PROVE  o.timestamp.value < clock[r]
      OBVIOUS
    <2>1. version[r][r] >= o.timestamp.value /\ version[r][r] < clock[r]
      BY DEF Causality, AuthorsLead, Observed
    <2>2. version[r][r] \in Nat /\ o.timestamp.value \in Nat
      BY Numbers
    <2> QED
      BY <1>1, <2>1, <2>2
  <1> QED
    BY <1>1, <1>2 DEF Timestamp, EditTimestamp, Timestamps

(* An edit that no undo operation names has not been undone anywhere.       *)
Unmentioned(t) == \A o \in Undos : t \notin DOMAIN o.counts

LEMMA UnmentionedIsDone ==
    ASSUME UndoMapKnown, NEW r \in Replicas, NEW t, Unmentioned(t)
    PROVE  ~IsUndone(undoMap[r], t)
  <1>1. \A u \in undoMap[r] : u.edit # t
    BY DEF UndoMapKnown, UndoEntry, Unmentioned
  <1> QED
    BY <1>1, NeverCounted

LEMMA MakeEditEffect ==
    ASSUME DeliveryTypeOK, Causality, NEW r \in Replicas, MakeEdit(r), OwnersToggle
    PROVE  /\ EditTimestamp(r) \in Timestamps
           /\ EditTimestamp(r) \notin EditTimestamps
           /\ EditTimestamps' = EditTimestamps \cup {EditTimestamp(r)}
           /\ Undos' = Undos
           /\ Unmentioned(EditTimestamp(r))
           /\ undoMap' = undoMap
  <1>0. PICK op : Broadcast(r, op) /\ op.kind = "edit" /\ op.timestamp = EditTimestamp(r)
    BY DEF MakeEdit
  <1>1. issued' = issued \cup {op} /\ op.kind = "edit" /\ op.timestamp = EditTimestamp(r)
    BY <1>0 DEF Broadcast
  <1>2. EditTimestamp(r) \in Timestamps /\ EditTimestamp(r) \notin EditTimestamps
    BY FreshTimestamps DEF EditTimestamps, Edits
  <1>3. Edits' = Edits \cup {op} /\ Undos' = Undos
    BY <1>1 DEF Edits, Undos
  <1>4. EditTimestamps' = EditTimestamps \cup {EditTimestamp(r)}
    BY <1>1, <1>3 DEF EditTimestamps
  <1>5. Unmentioned(EditTimestamp(r))
    BY <1>2 DEF OwnersToggle, Unmentioned
  <1> QED
    BY <1>2, <1>3, <1>4, <1>5 DEF MakeEdit

(* Only r's stacks change, into stacks in which edits are apart, and what is *)
(* new in them was in no other history.                                     *)
StacksChangeOf(r) ==
    /\ \E us, rs \in Seq(Transactions) :
           /\ undoStack' = [undoStack EXCEPT ![r] = us]
           /\ redoStack' = [redoStack EXCEPT ![r] = rs]
           /\ Apart(us) /\ Apart(rs) /\ EditsIn(us) \cap EditsIn(rs) = {}
    /\ \A t \in History'[r] : \/ t \in History[r]
                              \/ /\ t \in EditTimestamps'
                                 /\ \A s \in Replicas : s # r => t \notin History[s]

(* The requests stay apart, from one another and from the histories.        *)
RequestsChange ==
    /\ RequestsOK'
    /\ \A i \in DOMAIN requests' : requests'[i].edits \subseteq EditTimestamps'
    /\ \A i, j \in DOMAIN requests' : i # j => PendingEdits'[i] \cap PendingEdits'[j] = {}
    /\ \A i \in DOMAIN requests', s \in Replicas : PendingEdits'[i] \cap History'[s] = {}

LEMMA OtherHistories ==
    ASSUME HistoryTypeOK, NEW r \in Replicas, StacksChangeOf(r)
    PROVE  /\ undoStack' \in [Replicas -> Seq(Transactions)]
           /\ redoStack' \in [Replicas -> Seq(Transactions)]
           /\ Apart(undoStack'[r]) /\ Apart(redoStack'[r])
           /\ EditsIn(undoStack'[r]) \cap EditsIn(redoStack'[r]) = {}
           /\ \A s \in Replicas : s # r => undoStack'[s] = undoStack[s] /\ redoStack'[s] = redoStack[s]
           /\ \A s \in Replicas : s # r => History'[s] = History[s]
  <1>1. /\ undoStack \in [Replicas -> Seq(Transactions)]
        /\ redoStack \in [Replicas -> Seq(Transactions)]
    BY DEF HistoryTypeOK
  <1>2. PICK us \in Seq(Transactions), rs \in Seq(Transactions) :
           /\ undoStack' = [undoStack EXCEPT ![r] = us]
           /\ redoStack' = [redoStack EXCEPT ![r] = rs]
           /\ Apart(us) /\ Apart(rs) /\ EditsIn(us) \cap EditsIn(rs) = {}
    BY DEF StacksChangeOf
  <1>3. /\ undoStack' \in [Replicas -> Seq(Transactions)]
        /\ redoStack' \in [Replicas -> Seq(Transactions)]
        /\ undoStack'[r] = us /\ redoStack'[r] = rs
        /\ \A s \in Replicas : s # r => undoStack'[s] = undoStack[s] /\ redoStack'[s] = redoStack[s]
    BY <1>1, <1>2
  <1>4. \A s \in Replicas : s # r => History'[s] = History[s]
    BY <1>3 DEF History
  <1> QED
    BY <1>2, <1>3, <1>4

LEMMA StacksChange ==
    ASSUME HistoryTypeOK, HistoriesApart, NEW r \in Replicas, StacksChangeOf(r), RequestsChange,
           EditTimestamps \subseteq EditTimestamps'
    PROVE  HistoryTypeOK' /\ HistoriesApart'
  <1>1. /\ undoStack' \in [Replicas -> Seq(Transactions)]
        /\ redoStack' \in [Replicas -> Seq(Transactions)]
        /\ Apart(undoStack'[r]) /\ Apart(redoStack'[r])
        /\ EditsIn(undoStack'[r]) \cap EditsIn(redoStack'[r]) = {}
        /\ \A s \in Replicas : s # r => undoStack'[s] = undoStack[s] /\ redoStack'[s] = redoStack[s]
        /\ \A s \in Replicas : s # r => History'[s] = History[s]
    BY OtherHistories
  <1>2. \A s \in Replicas : History'[s] \subseteq EditTimestamps'
    BY <1>1 DEF HistoryTypeOK, StacksChangeOf
  <1>3. HistoryTypeOK'
    BY <1>1, <1>2 DEF HistoryTypeOK, RequestsChange
  <1>4. \A s \in Replicas : /\ Apart(undoStack'[s]) /\ Apart(redoStack'[s])
                            /\ EditsIn(undoStack'[s]) \cap EditsIn(redoStack'[s]) = {}
    BY <1>1 DEF HistoriesApart
  <1>5. ASSUME NEW s \in Replicas, s # r, NEW t \in History'[r] PROVE t \notin History'[s]
    <2>1. t \in History[r] => t \notin History[s]
      BY <1>5 DEF HistoriesApart
    <2>2. t \in History[r] \/ t \notin History[s]
      BY <1>5 DEF StacksChangeOf
    <2> QED
      BY <1>1, <1>5, <2>1, <2>2
  <1>6. ASSUME NEW s \in Replicas, NEW q \in Replicas, s # q
        PROVE  History'[s] \cap History'[q] = {}
    <2>1. CASE s # r /\ q # r
      BY <1>1, <1>6, <2>1 DEF HistoriesApart
    <2> QED
      BY <1>5, <1>6, <2>1
  <1>7. HistoriesApart'
    BY <1>4, <1>6 DEF HistoriesApart, RequestsChange
  <1> QED
    BY <1>3, <1>7

(* Steps that issue no undo operation.                                      *)
LEMMA OwnersChange ==
    ASSUME UndoInv, Undos' = Undos, EditTimestamps \subseteq EditTimestamps', undoMap' = undoMap,
           \A s \in Replicas : \A t \in History'[s] : t \in History[s] \/ Unmentioned(t),
           \A i \in DOMAIN requests' : \A t \in PendingEdits'[i] : Unmentioned(t)
    PROVE  UndoInv'
  <1>1. CountsBounded' /\ UndoMapKnown' /\ DOMAIN undoMap' = Replicas
    BY DEF UndoInv, CountsBounded, UndoMapKnown
  <1>2. OwnersToggle'
    BY DEF UndoInv, OwnersToggle, Unmentioned
  <1> QED
    BY <1>1, <1>2 DEF UndoInv

LEMMA EditHistory ==
    ASSUME IInv, HistoryInv, NEW r \in Replicas, Edit(r)
    PROVE  HistoryInv'
  <1> DEFINE t == EditTimestamp(r)
             top == Entry({t}, FALSE)
             stack == Append(undoStack[r], top)
  <1>1. /\ t \in Timestamps /\ t \notin EditTimestamps /\ Unmentioned(t)
        /\ EditTimestamps' = EditTimestamps \cup {t}
        /\ Undos' = Undos /\ undoMap' = undoMap
    BY MakeEditEffect DEF Edit, IInv, HistoryInv, UndoInv
  <1>2. undoStack[r] \in Seq(Transactions) /\ redoStack[r] \in Seq(Transactions)
    BY DEF HistoryInv, HistoryTypeOK
  <1>3. top \in Transactions /\ top.edits = {t}
    BY <1>1 DEF Entry, Transactions
  <1>4. History[r] \subseteq EditTimestamps
    BY DEF HistoryInv, HistoryTypeOK
  <1>5. {t} \cap EditsIn(undoStack[r]) = {}
    BY <1>1, <1>4 DEF History
  <1>6. /\ stack \in Seq(Transactions)
        /\ EditsIn(stack) = EditsIn(undoStack[r]) \cup {t}
        /\ Apart(stack)
    <2>1. Apart(undoStack[r])
      BY DEF HistoryInv, HistoriesApart
    <2> HIDE DEF t, top
    <2> QED
      BY <1>2, <1>3, <1>5, <2>1, PushStack
  <1>7. PICK n \in 0..(Len(stack) - 1) : undoStack' = [undoStack EXCEPT ![r] = GroupTrailing(stack, n)]
    BY DEF Edit
  <1> DEFINE us == GroupTrailing(stack, n)
  <1>8. us \in Seq(Transactions) /\ EditsIn(us) = EditsIn(stack) /\ Apart(us)
    <2> HIDE DEF stack
    <2> QED
      BY <1>6, GroupStack
  <1>9. redoStack' = [redoStack EXCEPT ![r] = <<>>] /\ requests' = requests
    BY DEF Edit
  <1>10. \A i \in DOMAIN requests : PendingEdits'[i] = PendingEdits[i] /\ PendingEdits[i] \subseteq EditTimestamps
    BY <1>9 DEF HistoryInv, HistoryTypeOK, PendingEdits
  <1>11. RequestsOK'
    BY <1>9 DEF HistoryInv, HistoryTypeOK, RequestsOK
  <1>12. \A i \in DOMAIN requests', s \in Replicas : PendingEdits'[i] \cap History[s] = {}
    BY <1>9, <1>10 DEF HistoryInv, HistoriesApart
  <1>13. EditsIn(us) \subseteq History[r] \cup {t}
    BY <1>6, <1>8 DEF History
  <1>14. \A i \in DOMAIN requests' : PendingEdits'[i] \cap EditsIn(us) = {}
    BY ZenonT(30), <1>1, <1>9, <1>10, <1>12, <1>13
  <1>15. \A i, j \in DOMAIN requests' : i # j => PendingEdits'[i] \cap PendingEdits'[j] = {}
    BY <1>9, <1>10 DEF HistoryInv, HistoriesApart
  <1>16. \A i \in DOMAIN requests' : requests'[i].edits \subseteq EditTimestamps'
    BY <1>1, <1>9 DEF HistoryInv, HistoryTypeOK
  <1>17. \A s \in Replicas : {t} \cap History[s] = {}
    BY <1>1 DEF HistoryInv, HistoryTypeOK
  <1> HIDE DEF us, t, stack
  <1>18. /\ StacksChangeOf(r)
         /\ \A u \in History'[r] : u \in History[r] \/ u = t
         /\ undoStack'[r] = us /\ redoStack'[r] = <<>>
    <2>1. undoStack' = [undoStack EXCEPT ![r] = us]
      BY <1>7 DEF us
    <2>2. undoStack'[r] = us /\ redoStack'[r] = <<>>
      BY <1>9, <2>1 DEF HistoryInv, HistoryTypeOK
    <2>3. History'[r] = EditsIn(us)
      BY <2>2, EmptyStack DEF History
    <2>4. /\ \E vs, rs \in Seq(Transactions) :
               /\ undoStack' = [undoStack EXCEPT ![r] = vs]
               /\ redoStack' = [redoStack EXCEPT ![r] = rs]
               /\ Apart(vs) /\ Apart(rs) /\ EditsIn(vs) \cap EditsIn(rs) = {}
      BY <1>8, <1>9, <2>1, EmptyStack
    <2> QED
      BY <1>1, <1>13, <1>17, <2>2, <2>3, <2>4 DEF StacksChangeOf
  <1>21. \A s \in Replicas : s # r => /\ History'[s] = History[s]
                                      /\ undoStack'[s] = undoStack[s]
                                      /\ redoStack'[s] = redoStack[s]
    BY <1>18, OtherHistories DEF HistoryInv
  <1>22. RequestsChange
    <2>1. \A i \in DOMAIN requests', s \in Replicas : PendingEdits'[i] \cap History'[s] = {}
      BY <1>1, <1>9, <1>10, <1>12, <1>18, <1>21
    <2> QED
      BY <1>11, <1>15, <1>16, <2>1 DEF RequestsChange
  <1>23. HistoryTypeOK' /\ HistoriesApart'
    BY <1>1, <1>18, <1>22, StacksChange DEF HistoryInv
  <1>19. UndoInv'
    <2>1. \A s \in Replicas : \A u \in History'[s] : u \in History[s] \/ Unmentioned(u)
      BY <1>1, <1>18, <1>21
    <2>2. \A i \in DOMAIN requests' : \A u \in PendingEdits'[i] : Unmentioned(u)
      BY <1>9, <1>10 DEF HistoryInv, UndoInv, OwnersToggle, Unmentioned
    <2> QED
      BY <1>1, <2>1, <2>2, OwnersChange DEF HistoryInv
  <1>20. HistoriesCurrent'
    <2>1. ~IsUndone(undoMap[r], t)
      BY <1>1, UnmentionedIsDone DEF HistoryInv, UndoInv
    <2>3. EditsIn(us) \subseteq EditsIn(undoStack[r]) \cup {t}
      BY <1>6, <1>8
    <2> QED
      BY <1>1, <1>18, <1>21, <2>1, <2>3, EmptyStack DEF HistoryInv, HistoriesCurrent
  <1> QED
    BY <1>19, <1>20, <1>23 DEF HistoryInv

LEMMA RequestUpdate ==
    ASSUME RequestsOK, NEW i \in DOMAIN requests, NEW E \in SUBSET Timestamps,
           NEW st \in {"sent", "waiting", "answered", "pushing", "done"},
           \/ requests' = [requests EXCEPT ![i].stage = st] /\ E = requests[i].edits
           \/ requests' = [requests EXCEPT ![i].stage = st, ![i].edits = E]
    PROVE  /\ RequestsOK'
           /\ DOMAIN requests' = DOMAIN requests
           /\ requests'[i] = [requests[i] EXCEPT !.stage = st, !.edits = E]
           /\ requests'[i].stage = st /\ requests'[i].edits = E
           /\ \A j \in DOMAIN requests : j # i => requests'[j] = requests[j]
  <1>1. PICK A : requests \in Seq(Request(A))
    BY DEF RequestsOK
  <1>2. requests[i] \in Request(A) /\ i \in 1..Len(requests) /\ DOMAIN requests = 1..Len(requests)
    BY <1>1
  <1> DEFINE q == [requests[i] EXCEPT !.stage = st, !.edits = E]
  <1>3. q \in Request(A) /\ q.stage = st /\ q.edits = E
    BY <1>2 DEF Request
  <1>4. requests' = [requests EXCEPT ![i] = q]
    <2>1. CASE requests' = [requests EXCEPT ![i].stage = st] /\ E = requests[i].edits
      <3>1. [requests[i] EXCEPT !.stage = st] = q
        BY <1>2, <2>1 DEF Request
      <3> QED
        BY <2>1, <3>1
    <2>2. CASE requests' = [requests EXCEPT ![i].stage = st, ![i].edits = E]
      BY <1>2, <2>2
    <2> QED
      BY <2>1, <2>2
  <1> HIDE DEF q
  <1>5. requests' \in Seq(Request(A))
    BY <1>1, <1>2, <1>3, <1>4
  <1>6. DOMAIN requests' = DOMAIN requests /\ requests'[i] = q
        /\ \A j \in DOMAIN requests : j # i => requests'[j] = requests[j]
    BY <1>1, <1>2, <1>4
  <1> QED
    BY <1>3, <1>5, <1>6 DEF RequestsOK, q

LEMMA RequestFacts ==
    ASSUME RequestsOK
    PROVE  \A i \in DOMAIN requests :
               /\ requests[i].stage \in {"sent", "waiting", "answered", "pushing", "done"}
               /\ requests[i].from \in Replicas \ {LOCAL_REPLICA}
               /\ requests[i].kind \in RequestKinds
               /\ requests[i].edits \in SUBSET Timestamps
               /\ requests[i].version \in [Replicas -> Nat]
  <1>1. PICK A : requests \in Seq(Request(A))
    BY DEF RequestsOK
  <1>2. \A i \in DOMAIN requests : requests[i] \in Request(A)
    BY <1>1
  <1> QED
    BY <1>2 DEF Request

(* Steps that only move a request on, or send one.                          *)
LEMMA RequestMoves ==
    ASSUME HistoryInv, NEW i \in DOMAIN requests,
           NEW st \in {"sent", "waiting", "answered", "pushing", "done"},
           requests' = [requests EXCEPT ![i].stage = st],
           st \in {"answered", "pushing"} => requests[i].stage \in {"answered", "pushing"},
           UNCHANGED <<undoMap, undoStack, redoStack, issued>>
    PROVE  HistoryInv'
  <1>1. /\ RequestsOK'
        /\ DOMAIN requests' = DOMAIN requests
        /\ requests'[i].stage = st /\ requests'[i].edits = requests[i].edits
        /\ \A j \in DOMAIN requests : j # i => requests'[j] = requests[j]
    <2>1. RequestsOK /\ requests[i].edits \in SUBSET Timestamps
      BY RequestFacts DEF HistoryInv, HistoryTypeOK
    <2> QED
      BY ZenonT(30), <2>1, RequestUpdate
  <1>2. \A j \in DOMAIN requests : PendingEdits'[j] \subseteq PendingEdits[j]
    BY <1>1 DEF PendingEdits
  <1>3. History' = History
    BY DEF History
  <1>4. EditTimestamps' = EditTimestamps /\ Undos' = Undos
    BY DEF EditTimestamps, Edits, Undos
  <1>5. HistoryTypeOK'
    BY <1>1, <1>3, <1>4 DEF HistoryInv, HistoryTypeOK
  <1>6. HistoriesApart'
    BY <1>1, <1>2, <1>3 DEF HistoryInv, HistoriesApart
  <1>7. UndoInv'
    BY <1>1, <1>2, <1>3, <1>4 DEF HistoryInv, UndoInv, CountsBounded, OwnersToggle, UndoMapKnown
  <1>8. HistoriesCurrent'
    BY DEF HistoryInv, HistoriesCurrent
  <1> QED
    BY <1>5, <1>6, <1>7, <1>8 DEF HistoryInv

LEMMA SendRequestHistory ==
    ASSUME IInv, HistoryInv, NEW r \in Replicas, SendRequest(r)
    PROVE  HistoryInv'
  <1>0. PICK kind \in RequestKinds :
            \E anchor \in {f.timestamp : f \in Range(fragments[r])} :
                requests' = Append(requests, [stage |-> "sent", from |-> r, kind |-> kind, edits |-> {},
                                              version |-> version[r], anchor |-> anchor])
    BY DEF SendRequest
  <1>1. PICK anchor \in {f.timestamp : f \in Range(fragments[r])} :
            requests' = Append(requests, [stage |-> "sent", from |-> r, kind |-> kind, edits |-> {},
                                          version |-> version[r], anchor |-> anchor])
    BY <1>0
  <1>2. PICK A : requests \in Seq(Request(A))
    BY DEF HistoryInv, HistoryTypeOK, RequestsOK
  <1> DEFINE q == [stage |-> "sent", from |-> r, kind |-> kind, edits |-> {},
                   version |-> version[r], anchor |-> anchor]
             B == A \cup {anchor}
  <1>3. q \in Request(B) /\ q.stage = "sent" /\ q.edits = {}
    BY DEF SendRequest, Request, IInv, DeliveryTypeOK
  <1>4. requests \in Seq(Request(B))
    <2>1. Request(A) \subseteq Request(B)
      BY DEF Request
    <2> HIDE DEF B
    <2> QED
      BY <1>2, <2>1, SeqMonotonic
  <1> HIDE DEF q, B
  <1>5. requests' \in Seq(Request(B)) /\ DOMAIN requests' = DOMAIN requests \cup {Len(requests) + 1}
        /\ requests'[Len(requests) + 1] = q
        /\ \A i \in DOMAIN requests : requests'[i] = requests[i]
    BY <1>1, <1>3, <1>4 DEF q
  <1>6. RequestsOK'
    BY <1>5 DEF RequestsOK
  <1>7. UNCHANGED <<undoMap, undoStack, redoStack, issued>>
    BY DEF SendRequest, textVars, historyVars, netVars
  <1>8. \A j \in DOMAIN requests' :
            PendingEdits'[j] = IF j \in DOMAIN requests THEN PendingEdits[j] ELSE {}
    BY <1>3, <1>5 DEF PendingEdits
  <1>9. History' = History
    BY <1>7 DEF History
  <1>10. EditTimestamps' = EditTimestamps /\ Undos' = Undos
    BY <1>7 DEF EditTimestamps, Edits, Undos
  <1>11. HistoryTypeOK'
    BY <1>3, <1>5, <1>6, <1>7, <1>9, <1>10 DEF HistoryInv, HistoryTypeOK
  <1>12. HistoriesApart'
    BY <1>7, <1>8, <1>9 DEF HistoryInv, HistoriesApart
  <1>13. UndoInv'
    BY <1>7, <1>8, <1>9, <1>10 DEF HistoryInv, UndoInv, CountsBounded, OwnersToggle, UndoMapKnown
  <1>14. HistoriesCurrent'
    BY <1>7 DEF HistoryInv, HistoriesCurrent
  <1> QED
    BY <1>11, <1>12, <1>13, <1>14 DEF HistoryInv

(* The host's edit goes to the request.                                     *)
LEMMA AnswerRequestHistory ==
    ASSUME IInv, HistoryInv, NEW i \in DOMAIN requests, AnswerRequest(i)
    PROVE  HistoryInv'
  <1> DEFINE r == LOCAL_REPLICA
             t == EditTimestamp(r)
             us == Sealed(undoStack[r])
  <1>0. r \in Replicas
    BY ReplicasAssumption
  <1>1. /\ t \in Timestamps /\ t \notin EditTimestamps /\ Unmentioned(t)
        /\ EditTimestamps' = EditTimestamps \cup {t}
        /\ Undos' = Undos /\ undoMap' = undoMap
    BY <1>0, MakeEditEffect DEF AnswerRequest, IInv, HistoryInv, UndoInv
  <1>2. undoStack[r] \in Seq(Transactions) /\ Apart(undoStack[r]) /\ RequestsOK
    BY <1>0 DEF HistoryInv, HistoryTypeOK, HistoriesApart
  <1>3. us \in Seq(Transactions) /\ EditsIn(us) = EditsIn(undoStack[r]) /\ Apart(us)
    BY <1>2, SealStack
  <1>4. /\ requests[i].stage = "waiting"
        /\ requests' = [requests EXCEPT ![i].stage = "answered", ![i].edits = {t}]
        /\ undoStack' = [undoStack EXCEPT ![r] = us]
        /\ redoStack' = [redoStack EXCEPT ![r] = <<>>]
    BY DEF AnswerRequest
  <1>5. \A s \in Replicas : History[s] \subseteq EditTimestamps
    BY DEF HistoryInv, HistoryTypeOK
  <1>6. \A j \in DOMAIN requests : requests[j].edits \subseteq EditTimestamps
    BY DEF HistoryInv, HistoryTypeOK
  <1> HIDE DEF t, us, r
  <1>7. /\ RequestsOK'
        /\ DOMAIN requests' = DOMAIN requests
        /\ requests'[i].edits = {t}
        /\ \A j \in DOMAIN requests : j # i => requests'[j] = requests[j]
    <2> DEFINE E == {t}
    <2>1. E \in SUBSET Timestamps /\ requests' = [requests EXCEPT ![i].stage = "answered", ![i].edits = E]
      BY <1>1, <1>4
    <2> HIDE DEF E
    <2>2. /\ RequestsOK'
          /\ DOMAIN requests' = DOMAIN requests
          /\ requests'[i].edits = E
          /\ \A j \in DOMAIN requests : j # i => requests'[j] = requests[j]
      BY <1>2, <2>1, RequestUpdate
    <2> QED
      BY <2>2 DEF E
  <1>8. \A j \in DOMAIN requests : PendingEdits[j] \subseteq EditTimestamps
    BY <1>6 DEF PendingEdits
  <1>9. \A j \in DOMAIN requests : \/ PendingEdits'[j] = PendingEdits[j]
                                   \/ j = i /\ PendingEdits'[j] \subseteq {t}
    BY <1>7 DEF PendingEdits
  <1>10. /\ undoStack'[r] = us /\ redoStack'[r] = <<>>
         /\ History'[r] = EditsIn(us) /\ EditsIn(us) \subseteq History[r]
    <2>1. undoStack'[r] = us /\ redoStack'[r] = <<>>
      BY <1>0, <1>4 DEF HistoryInv, HistoryTypeOK
    <2> QED
      BY <1>0, <1>3, <2>1, EmptyStack DEF History
  <1>11. StacksChangeOf(r)
    <2>1. \E vs, rs \in Seq(Transactions) :
               /\ undoStack' = [undoStack EXCEPT ![r] = vs]
               /\ redoStack' = [redoStack EXCEPT ![r] = rs]
               /\ Apart(vs) /\ Apart(rs) /\ EditsIn(vs) \cap EditsIn(rs) = {}
      BY <1>3, <1>4, EmptyStack
    <2> QED
      BY <1>10, <2>1 DEF StacksChangeOf
  <1>12. \A s \in Replicas : s # r => /\ History'[s] = History[s]
                                      /\ undoStack'[s] = undoStack[s]
                                      /\ redoStack'[s] = redoStack[s]
    BY <1>0, <1>11, OtherHistories DEF HistoryInv
  <1>13. \A s \in Replicas : History'[s] \subseteq History[s]
    BY <1>10, <1>12
  <1>14. RequestsChange
    <2>1. \A j \in DOMAIN requests', s \in Replicas : PendingEdits'[j] \cap History'[s] = {}
      BY <1>1, <1>5, <1>7, <1>9, <1>13 DEF HistoryInv, HistoriesApart
    <2>2. \A j, k \in DOMAIN requests' : j # k => PendingEdits'[j] \cap PendingEdits'[k] = {}
      BY <1>1, <1>7, <1>8, <1>9 DEF HistoryInv, HistoriesApart
    <2>3. \A j \in DOMAIN requests' : requests'[j].edits \subseteq EditTimestamps'
      BY <1>1, <1>6, <1>7
    <2> QED
      BY <1>7, <2>1, <2>2, <2>3 DEF RequestsChange
  <1>15. HistoryTypeOK' /\ HistoriesApart'
    BY <1>0, <1>1, <1>11, <1>14, StacksChange DEF HistoryInv
  <1>16. UndoInv'
    <2>1. \A j \in DOMAIN requests' : \A u \in PendingEdits'[j] : Unmentioned(u)
      BY <1>1, <1>7, <1>9 DEF HistoryInv, UndoInv, OwnersToggle, Unmentioned
    <2> QED
      BY <1>1, <1>13, <2>1, OwnersChange DEF HistoryInv
  <1>17. HistoriesCurrent'
    BY <1>0, <1>1, <1>3, <1>10, <1>12, EmptyStack DEF HistoryInv, HistoriesCurrent
  <1> QED
    BY <1>15, <1>16, <1>17 DEF HistoryInv

(* ... and from there to the history of the guest.                          *)
LEMMA PushTransactionHistory ==
    ASSUME HistoryInv, NEW i \in DOMAIN requests, PushTransaction(i)
    PROVE  HistoryInv'
  <1> DEFINE r == requests[i].from
             E == requests[i].edits
             top == Entry(E, TRUE)
             us == Append(undoStack[r], top)
  <1>1. RequestsOK /\ r \in Replicas /\ E \in SUBSET Timestamps
    BY RequestFacts DEF HistoryInv, HistoryTypeOK
  <1>2. /\ undoStack[r] \in Seq(Transactions) /\ redoStack[r] \in Seq(Transactions)
        /\ Apart(undoStack[r]) /\ Apart(redoStack[r])
        /\ EditsIn(undoStack[r]) \cap EditsIn(redoStack[r]) = {}
    BY <1>1 DEF HistoryInv, HistoryTypeOK, HistoriesApart
  <1>3. /\ requests[i].stage = "pushing"
        /\ requests' = [requests EXCEPT ![i].stage = "done"]
        /\ undoStack' = [undoStack EXCEPT ![r] = us]
        /\ redoStack' = redoStack /\ undoMap' = undoMap /\ issued' = issued
    BY DEF PushTransaction, textVars, netVars
  <1>4. PendingEdits[i] = E
    BY <1>3 DEF PendingEdits
  <1>5. top \in Transactions /\ top.edits = E
    BY <1>1 DEF Entry, Transactions
  <1>6. /\ \A s \in Replicas : E \cap History[s] = {}
        /\ E \cap EditsIn(undoStack[r]) = {} /\ E \cap EditsIn(redoStack[r]) = {}
    <2>1. \A s \in Replicas : E \cap History[s] = {}
      BY <1>4 DEF HistoryInv, HistoriesApart
    <2> QED
      BY <1>1, <2>1 DEF History
  <1> HIDE DEF E, r, top
  <1>7. us \in Seq(Transactions) /\ EditsIn(us) = EditsIn(undoStack[r]) \cup E /\ Apart(us)
    BY <1>2, <1>5, <1>6, PushStack
  <1> HIDE DEF us
  <1>8. /\ RequestsOK'
        /\ DOMAIN requests' = DOMAIN requests
        /\ requests'[i].edits = E /\ requests'[i].stage = "done"
        /\ \A j \in DOMAIN requests : j # i => requests'[j] = requests[j]
    BY <1>1, <1>3, RequestUpdate DEF E
  <1>9. /\ PendingEdits'[i] = {}
        /\ \A j \in DOMAIN requests : j # i => PendingEdits'[j] = PendingEdits[j]
    BY <1>8 DEF PendingEdits
  <1>10. EditTimestamps' = EditTimestamps /\ Undos' = Undos
    BY <1>3 DEF EditTimestamps, Edits, Undos
  <1>11. E \subseteq EditTimestamps
    BY DEF HistoryInv, HistoryTypeOK, E
  <1>12. undoStack'[r] = us /\ redoStack'[r] = redoStack[r] /\ History'[r] = History[r] \cup E
    <2>1. undoStack'[r] = us /\ redoStack'[r] = redoStack[r]
      BY <1>1, <1>3 DEF HistoryInv, HistoryTypeOK
    <2> QED
      BY <1>1, <1>7, <2>1 DEF History
  <1>13. StacksChangeOf(r)
    <2>1. redoStack' = [redoStack EXCEPT ![r] = redoStack[r]]
      BY <1>3 DEF HistoryInv, HistoryTypeOK
    <2>2. EditsIn(us) \cap EditsIn(redoStack[r]) = {}
      BY <1>2, <1>6, <1>7
    <2>3. \E vs, rs \in Seq(Transactions) :
               /\ undoStack' = [undoStack EXCEPT ![r] = vs]
               /\ redoStack' = [redoStack EXCEPT ![r] = rs]
               /\ Apart(vs) /\ Apart(rs) /\ EditsIn(vs) \cap EditsIn(rs) = {}
      BY <1>2, <1>3, <1>7, <2>1, <2>2
    <2>4. \A t \in History'[r] : \/ t \in History[r]
                              \/ /\ t \in EditTimestamps'
                                 /\ \A s \in Replicas : s # r => t \notin History[s]
      BY <1>6, <1>10, <1>11, <1>12
    <2> QED
      BY <2>3, <2>4 DEF StacksChangeOf
  <1>14. \A s \in Replicas : s # r => /\ History'[s] = History[s]
                                      /\ undoStack'[s] = undoStack[s]
                                      /\ redoStack'[s] = redoStack[s]
    BY <1>1, <1>13, OtherHistories DEF HistoryInv
  <1>15. RequestsChange
    <2>1. \A j \in DOMAIN requests : j # i => PendingEdits[j] \cap E = {}
      BY <1>4 DEF HistoryInv, HistoriesApart
    <2>2. \A j \in DOMAIN requests', s \in Replicas : PendingEdits'[j] \cap History'[s] = {}
      BY <1>8, <1>9, <1>12, <1>14, <2>1 DEF HistoryInv, HistoriesApart
    <2>3. \A j, k \in DOMAIN requests' : j # k => PendingEdits'[j] \cap PendingEdits'[k] = {}
      BY <1>8, <1>9 DEF HistoryInv, HistoriesApart
    <2>4. \A j \in DOMAIN requests' : requests'[j].edits \subseteq EditTimestamps'
      BY <1>8, <1>10, <1>11 DEF HistoryInv, HistoryTypeOK
    <2> QED
      BY <1>8, <2>2, <2>3, <2>4 DEF RequestsChange
  <1>16. HistoryTypeOK' /\ HistoriesApart'
    BY <1>1, <1>10, <1>13, <1>15, StacksChange DEF HistoryInv
  <1>17. \A t \in E : Unmentioned(t)
    BY <1>4 DEF HistoryInv, UndoInv, OwnersToggle, Unmentioned
  <1>18. UndoInv'
    <2>1. \A j \in DOMAIN requests' : \A u \in PendingEdits'[j] : Unmentioned(u)
      BY <1>8, <1>9 DEF HistoryInv, UndoInv, OwnersToggle, Unmentioned
    <2>2. \A s \in Replicas : \A u \in History'[s] : u \in History[s] \/ Unmentioned(u)
      BY <1>12, <1>14, <1>17
    <2> QED
      BY <1>3, <1>10, <2>1, <2>2, OwnersChange DEF HistoryInv
  <1>19. HistoriesCurrent'
    <2>1. \A t \in E : ~IsUndone(undoMap[r], t)
      BY <1>1, <1>17, UnmentionedIsDone DEF HistoryInv, UndoInv
    <2> QED
      BY <1>3, <1>7, <1>12, <1>14, <2>1 DEF HistoryInv, HistoriesCurrent
  <1> QED
    BY <1>16, <1>18, <1>19 DEF HistoryInv

-----------------------------------------------------------------------------
(* Undo and redo.                                                           *)

(* The operation by which r undoes or redoes edits.                         *)
UndoOp(r, edits) ==
    [kind |-> "undo", timestamp |-> Timestamp(r, clock[r]), version |-> version[r],
     counts |-> [e \in edits |-> UndoCount(undoMap[r], e) + 1]]

LEMMA UndoOpFacts ==
    ASSUME NEW r, NEW edits
    PROVE  /\ UndoOp(r, edits).kind = "undo"
           /\ UndoOp(r, edits).timestamp.replica = r
           /\ DOMAIN UndoOp(r, edits).counts = edits
           /\ \A e \in edits : UndoOp(r, edits).counts[e] = UndoCount(undoMap[r], e) + 1
           /\ UndoOrRedo(r, edits) =>
                  /\ issued' = issued \cup {UndoOp(r, edits)}
                  /\ undoMap' = [undoMap EXCEPT ![r] = WithUndo(@, UndoOp(r, edits))]
  BY DEF UndoOp, Timestamp, UndoOrRedo, Broadcast

(* The counts of an undo map are those of undo operations.                  *)
LEMMA CountsOfMap ==
    ASSUME CountsBounded, UndoMapKnown
    PROVE  \E b \in Nat : /\ \A o \in Undos : \A t \in DOMAIN o.counts : o.counts[t] \in 1..b
                          /\ \A r \in Replicas : \A u \in undoMap[r] : u.count \in 0..b
  <1>1. PICK b \in Nat : \A o \in Undos : \A t \in DOMAIN o.counts : o.counts[t] \in 1..b
    BY DEF CountsBounded
  <1>2. ASSUME NEW r \in Replicas, NEW u \in undoMap[r] PROVE u.count \in 0..b
    <2>0. PICK o \in Undos : \E t \in DOMAIN o.counts : u = UndoEntry(o, t)
      BY DEF UndoMapKnown
    <2>1. PICK t \in DOMAIN o.counts : u = UndoEntry(o, t)
      BY <2>0
    <2>2. o.counts[t] \in 1..b /\ u.count = o.counts[t]
      BY <1>1, <2>1 DEF UndoEntry
    <2> QED
      BY <2>2
  <1> QED
    BY <1>1, <1>2

LEMMA WithUndoKnown ==
    ASSUME NEW undos, NEW op, NEW u \in WithUndo(undos, op)
    PROVE  u \in undos \/ \E t \in DOMAIN op.counts : u = UndoEntry(op, t)
  BY DEF WithUndo, UndoEntry

(* Undoing or redoing edits of one's own history toggles them, and only     *)
(* them.                                                                    *)
LEMMA UndoOrRedoEffect ==
    ASSUME HistoryInv, NEW r \in Replicas, NEW edits \in SUBSET History[r],
           UndoOrRedo(r, edits), requests' = requests,
           \A s \in Replicas : History'[s] \subseteq History[s]
    PROVE  /\ UndoInv'
           /\ EditTimestamps' = EditTimestamps
           /\ \A t : t \in edits => (IsUndone(undoMap'[r], t) <=> ~IsUndone(undoMap[r], t))
           /\ \A t : t \notin edits => (IsUndone(undoMap'[r], t) <=> IsUndone(undoMap[r], t))
           /\ \A s \in Replicas : s # r => undoMap'[s] = undoMap[s]
  <1> DEFINE op == UndoOp(r, edits)
  <1>1. /\ op.kind = "undo" /\ op.timestamp.replica = r /\ DOMAIN op.counts = edits
        /\ \A e \in edits : op.counts[e] = UndoCount(undoMap[r], e) + 1
        /\ issued' = issued \cup {op}
        /\ undoMap' = [undoMap EXCEPT ![r] = WithUndo(@, op)]
    BY UndoOpFacts
  <1> HIDE DEF op
  <1>2. Undos' = Undos \cup {op} /\ EditTimestamps' = EditTimestamps
    BY <1>1 DEF Undos, Edits, EditTimestamps
  <1>3. /\ undoMap'[r] = WithUndo(undoMap[r], op)
        /\ \A s \in Replicas : s # r => undoMap'[s] = undoMap[s]
        /\ DOMAIN undoMap' = Replicas
    BY <1>1 DEF HistoryInv, UndoInv
  <1>4. PICK b \in Nat : /\ \A o \in Undos : \A t \in DOMAIN o.counts : o.counts[t] \in 1..b
                         /\ \A s \in Replicas : \A u \in undoMap[s] : u.count \in 0..b
    BY CountsOfMap DEF HistoryInv, UndoInv
  <1>5. \A t : UndoCount(undoMap[r], t) \in 0..b
    BY <1>4, CountType
  <1>6. CountsBounded'
    <2>1. \A t \in DOMAIN op.counts : op.counts[t] \in 1..(b + 1)
      BY <1>1, <1>5
    <2>2. \A o \in Undos' : \A t \in DOMAIN o.counts : o.counts[t] \in 1..(b + 1)
      BY <1>2, <1>4, <2>1
    <2>3. b + 1 \in Nat
      OBVIOUS
    <2> QED
      BY <2>2, <2>3 DEF CountsBounded
  <1>7. PendingEdits' = PendingEdits
    BY DEF PendingEdits
  <1>8. OwnersToggle'
    <2>1. edits \subseteq EditTimestamps
      BY DEF HistoryInv, HistoryTypeOK
    <2>2. \A s \in Replicas : s # r => edits \cap History[s] = {}
      BY DEF HistoryInv, HistoriesApart
    <2>3. \A i \in DOMAIN requests : edits \cap PendingEdits[i] = {}
      BY DEF HistoryInv, HistoriesApart
    <2>4. ASSUME NEW o \in Undos'
          PROVE  /\ DOMAIN o.counts \subseteq EditTimestamps'
                 /\ \A s \in Replicas : s # o.timestamp.replica => DOMAIN o.counts \cap History'[s] = {}
                 /\ \A i \in DOMAIN requests' : DOMAIN o.counts \cap PendingEdits'[i] = {}
      <3>1. CASE o \in Undos
        BY <1>2, <1>7, <3>1 DEF HistoryInv, UndoInv, OwnersToggle
      <3>2. CASE o = op
        BY <1>1, <1>2, <1>7, <2>1, <2>2, <2>3, <3>2
      <3> QED
        BY <1>2, <2>4, <3>1, <3>2
    <2> QED
      BY <2>4 DEF OwnersToggle
  <1>9. UndoMapKnown'
    <2>1. ASSUME NEW s \in Replicas, NEW u \in undoMap'[s]
          PROVE  \E o \in Undos' : \E t \in DOMAIN o.counts : u = UndoEntry(o, t)
      <3>1. CASE u \in undoMap[s]
        BY <1>2, <3>1 DEF HistoryInv, UndoInv, UndoMapKnown
      <3>2. CASE u \notin undoMap[s]
        <4>1. s = r /\ u \in WithUndo(undoMap[r], op)
          BY <1>3, <2>1, <3>2
        <4>2. \E t \in DOMAIN op.counts : u = UndoEntry(op, t)
          BY <3>2, <4>1, WithUndoKnown
        <4> QED
          BY <1>2, <4>2
      <3> QED
        BY <3>1, <3>2
    <2> QED
      BY <2>1 DEF UndoMapKnown, UndoEntry
  <1>10. \A t : t \in edits => (IsUndone(undoMap'[r], t) <=> ~IsUndone(undoMap[r], t))
    BY <1>1, <1>3, <1>4, CountToggles
  <1>11. \A t : t \notin edits => (IsUndone(undoMap'[r], t) <=> IsUndone(undoMap[r], t))
    BY <1>1, <1>3, CountOfOthers DEF IsUndone
  <1> QED
    BY <1>2, <1>3, <1>6, <1>8, <1>9, <1>10, <1>11 DEF UndoInv

(* Undoing and redoing move a transaction from one stack to the other.      *)
LEMMA MoveEntry ==
    ASSUME HistoryInv, NEW r \in Replicas, NEW e \in Transactions, UndoOrRedo(r, e.edits),
           NEW us \in Seq(Transactions), NEW rs \in Seq(Transactions),
           undoStack' = [undoStack EXCEPT ![r] = us],
           redoStack' = [redoStack EXCEPT ![r] = rs],
           requests' = requests,
           Apart(us), Apart(rs), EditsIn(us) \cap EditsIn(rs) = {},
           \/ /\ e.edits \subseteq EditsIn(undoStack[r])
              /\ EditsIn(us) \subseteq EditsIn(undoStack[r]) \ e.edits
              /\ EditsIn(rs) = EditsIn(redoStack[r]) \cup e.edits
           \/ /\ e.edits \subseteq EditsIn(redoStack[r])
              /\ EditsIn(rs) \subseteq EditsIn(redoStack[r]) \ e.edits
              /\ EditsIn(us) = EditsIn(undoStack[r]) \cup e.edits
    PROVE  HistoryInv'
  <1>1. undoStack'[r] = us /\ redoStack'[r] = rs
    BY DEF HistoryInv, HistoryTypeOK
  <1>2. History[r] = EditsIn(undoStack[r]) \cup EditsIn(redoStack[r])
        /\ History'[r] = EditsIn(us) \cup EditsIn(rs)
    BY <1>1 DEF History
  <1>3. History'[r] \subseteq History[r]
    BY <1>2
  <1>4. StacksChangeOf(r)
    BY <1>3 DEF StacksChangeOf
  <1>5. \A s \in Replicas : s # r => /\ History'[s] = History[s]
                                     /\ undoStack'[s] = undoStack[s]
                                     /\ redoStack'[s] = redoStack[s]
    BY <1>4, OtherHistories DEF HistoryInv
  <1>6. \A s \in Replicas : History'[s] \subseteq History[s]
    BY <1>3, <1>5
  <1> DEFINE E == e.edits
  <1>7. E \in SUBSET History[r] /\ UndoOrRedo(r, E)
    BY <1>2
  <1> HIDE DEF E
  <1>8. /\ UndoInv'
        /\ EditTimestamps' = EditTimestamps
        /\ \A t : t \in E => (IsUndone(undoMap'[r], t) <=> ~IsUndone(undoMap[r], t))
        /\ \A t : t \notin E => (IsUndone(undoMap'[r], t) <=> IsUndone(undoMap[r], t))
        /\ \A s \in Replicas : s # r => undoMap'[s] = undoMap[s]
    BY <1>6, <1>7, UndoOrRedoEffect
  <1>9. RequestsChange
    <2>1. RequestsOK' /\ PendingEdits' = PendingEdits
      BY DEF PendingEdits, HistoryInv, HistoryTypeOK, RequestsOK
    <2>2. \A i, j \in DOMAIN requests' : i # j => PendingEdits'[i] \cap PendingEdits'[j] = {}
      BY <2>1 DEF HistoryInv, HistoriesApart
    <2>3. \A i \in DOMAIN requests', s \in Replicas : PendingEdits'[i] \cap History'[s] = {}
      BY <1>6, <2>1 DEF HistoryInv, HistoriesApart
    <2>4. \A i \in DOMAIN requests' : requests'[i].edits \subseteq EditTimestamps'
      BY <1>8 DEF HistoryInv, HistoryTypeOK
    <2> QED
      BY <2>1, <2>2, <2>3, <2>4 DEF RequestsChange
  <1>10. HistoryTypeOK' /\ HistoriesApart'
    BY <1>4, <1>8, <1>9, StacksChange DEF HistoryInv
  <1>11. HistoriesCurrent'
    <2>1. /\ \A t \in EditsIn(us) : ~IsUndone(undoMap'[r], t)
          /\ \A t \in EditsIn(rs) : IsUndone(undoMap'[r], t)
      <3>1. /\ \A t \in EditsIn(undoStack[r]) : ~IsUndone(undoMap[r], t)
            /\ \A t \in EditsIn(redoStack[r]) : IsUndone(undoMap[r], t)
            /\ EditsIn(undoStack[r]) \cap EditsIn(redoStack[r]) = {}
        BY DEF HistoryInv, HistoriesCurrent, HistoriesApart
      <3> QED
        BY <1>8, <3>1 DEF E
    <2>2. ASSUME NEW s \in Replicas, s # r
          PROVE  /\ \A t \in EditsIn(undoStack'[s]) : ~IsUndone(undoMap'[s], t)
                 /\ \A t \in EditsIn(redoStack'[s]) : IsUndone(undoMap'[s], t)
      BY <1>5, <1>8, <2>2 DEF HistoryInv, HistoriesCurrent
    <2> QED
      BY <1>1, <2>1, <2>2 DEF HistoriesCurrent
  <1> QED
    BY <1>8, <1>10, <1>11 DEF HistoryInv

LEMMA UndoHistory ==
    ASSUME HistoryInv, NEW r \in Replicas, Undo(r)
    PROVE  HistoryInv'
  <1>1. PICK i \in DOMAIN undoStack[r] :
           /\ UndoOrRedo(r, undoStack[r][i].edits)
           /\ undoStack' = [undoStack EXCEPT ![r] = SubSeq(@, 1, i - 1) \o SubSeq(@, i + 1, Len(@))]
           /\ redoStack' = [redoStack EXCEPT ![r] = Append(@, undoStack[r][i])]
    BY DEF Undo
  <1> DEFINE stack == undoStack[r]
             e == stack[i]
             us == SubSeq(stack, 1, i - 1) \o SubSeq(stack, i + 1, Len(stack))
             rs == Append(redoStack[r], e)
  <1>2. /\ stack \in Seq(Transactions) /\ redoStack[r] \in Seq(Transactions)
        /\ Apart(stack) /\ Apart(redoStack[r])
        /\ EditsIn(stack) \cap EditsIn(redoStack[r]) = {}
    BY DEF HistoryInv, HistoryTypeOK, HistoriesApart
  <1>3. UndoOrRedo(r, e.edits) /\ requests' = requests
        /\ undoStack' = [undoStack EXCEPT ![r] = us]
        /\ redoStack' = [redoStack EXCEPT ![r] = rs]
    BY <1>1 DEF Undo, HistoryInv, HistoryTypeOK
  <1>4. /\ us \in Seq(Transactions)
        /\ EditsIn(us) \subseteq EditsIn(stack)
        /\ Apart(us) /\ EditsIn(us) \cap e.edits = {}
    <2> HIDE DEF stack
    <2> QED
      BY <1>2, RemoveFromStack DEF stack
  <1>5. e \in Transactions /\ e.edits \subseteq EditsIn(stack)
    <2> HIDE DEF stack
    <2> QED
      BY <1>2, StackFacts DEF stack
  <1> HIDE DEF us, e, stack
  <1>6. /\ rs \in Seq(Transactions)
        /\ EditsIn(rs) = EditsIn(redoStack[r]) \cup e.edits
        /\ Apart(rs)
    <2>1. e.edits \cap EditsIn(redoStack[r]) = {}
      BY <1>2, <1>5
    <2> QED
      BY <1>2, <1>5, <2>1, PushStack
  <1> HIDE DEF rs
  <1>7. EditsIn(us) \cap EditsIn(rs) = {} /\ EditsIn(us) \subseteq EditsIn(stack) \ e.edits
    BY <1>2, <1>4, <1>6
  <1> QED
    BY <1>3, <1>4, <1>5, <1>6, <1>7, MoveEntry DEF stack

LEMMA PopStack ==
    ASSUME NEW stack \in Seq(Transactions), Len(stack) > 0
    PROVE  LET s == SubSeq(stack, 1, Len(stack) - 1)
               e == stack[Len(stack)] IN
           /\ s \in Seq(Transactions)
           /\ EditsIn(s) \subseteq EditsIn(stack)
           /\ Apart(stack) => Apart(s) /\ EditsIn(s) \cap e.edits = {}
           /\ e \in Transactions /\ e.edits \subseteq EditsIn(stack)
  <1> DEFINE n == Len(stack)
             s == SubSeq(stack, 1, n - 1)
  <1>1. n \in DOMAIN stack /\ n \in Nat
    OBVIOUS
  <1>2. s \in Seq(Transactions)
    <2>1. \A j \in 1..(n - 1) : stack[j] \in Transactions
      BY <1>1
    <2> QED
      BY <1>1, <2>1, SubSeqProperties
  <1>3. SubSeq(stack, n + 1, n) = <<>>
    BY <1>1, SubSeqEmpty
  <1>4. s \o SubSeq(stack, n + 1, n) = s
    BY <1>2, <1>3, ConcatEmptySeq
  <1>5. /\ EditsIn(s) \subseteq EditsIn(stack)
        /\ Apart(stack) => Apart(s) /\ EditsIn(s) \cap stack[n].edits = {}
    BY <1>1, <1>4, RemoveFromStack
  <1> QED
    BY <1>1, <1>2, <1>5, StackFacts

LEMMA RedoHistory ==
    ASSUME HistoryInv, NEW r \in Replicas, Redo(r)
    PROVE  HistoryInv'
  <1> DEFINE stack == redoStack[r]
             e == stack[Len(stack)]
             rs == SubSeq(stack, 1, Len(stack) - 1)
             us == Append(undoStack[r], e)
  <1>2. /\ stack \in Seq(Transactions) /\ undoStack[r] \in Seq(Transactions)
        /\ Apart(stack) /\ Apart(undoStack[r])
        /\ EditsIn(undoStack[r]) \cap EditsIn(stack) = {}
    BY DEF HistoryInv, HistoryTypeOK, HistoriesApart
  <1>3. UndoOrRedo(r, e.edits) /\ requests' = requests /\ Len(stack) > 0
        /\ undoStack' = [undoStack EXCEPT ![r] = us]
        /\ redoStack' = [redoStack EXCEPT ![r] = rs]
    BY DEF Redo, HistoryInv, HistoryTypeOK
  <1> HIDE DEF stack
  <1>4. /\ rs \in Seq(Transactions)
        /\ EditsIn(rs) \subseteq EditsIn(stack)
        /\ Apart(rs) /\ EditsIn(rs) \cap e.edits = {}
        /\ e \in Transactions /\ e.edits \subseteq EditsIn(stack)
    BY <1>2, <1>3, PopStack
  <1> HIDE DEF e, rs
  <1>6. /\ us \in Seq(Transactions)
        /\ EditsIn(us) = EditsIn(undoStack[r]) \cup e.edits
        /\ Apart(us)
    <2>1. e.edits \cap EditsIn(undoStack[r]) = {}
      BY <1>2, <1>4
    <2> QED
      BY <1>2, <1>4, <2>1, PushStack
  <1> HIDE DEF us
  <1>7. EditsIn(us) \cap EditsIn(rs) = {} /\ EditsIn(rs) \subseteq EditsIn(stack) \ e.edits
    BY <1>2, <1>4, <1>6
  <1> QED
    BY <1>3, <1>4, <1>6, <1>7, MoveEntry DEF stack

-----------------------------------------------------------------------------
(* The operations of others.                                                *)

(* The effect of Apply on the undo map.                                     *)
LEMMA ApplyUndoMap ==
    ASSUME NEW r \in Replicas, NEW op \in issued, Apply(r, op)
    PROVE  \/ undoMap' = undoMap
           \/ /\ ~Observed(version[r], op.timestamp)
              /\ op \in Undos
              /\ undoMap' = [undoMap EXCEPT ![r] = WithUndo(@, op)]
  BY DEF Apply, Undos, textVars

(* An undo operation of another replica toggles nothing in r's history.     *)
LEMMA ApplyHistory ==
    ASSUME IInv, HistoryInv, NEW r \in Replicas, NEW op \in issued, Apply(r, op),
           UNCHANGED <<undoStack, redoStack, requests, issued>>
    PROVE  HistoryInv'
  <1>1. CASE undoMap' = undoMap
    BY <1>1, HistoryUntouched DEF historyStateVars
  <1>2. CASE undoMap' # undoMap
    <2>1. /\ ~Observed(version[r], op.timestamp)
          /\ op \in Undos
          /\ undoMap' = [undoMap EXCEPT ![r] = WithUndo(@, op)]
      BY <1>2, ApplyUndoMap
    <2>2. op.timestamp.replica # r
      BY <2>1 DEF IInv, Causality, AuthorsLead
    <2>3. DOMAIN op.counts \cap History[r] = {}
      BY <2>1, <2>2 DEF HistoryInv, UndoInv, OwnersToggle
    <2>4. /\ undoMap'[r] = WithUndo(undoMap[r], op)
          /\ \A s \in Replicas : s # r => undoMap'[s] = undoMap[s]
          /\ DOMAIN undoMap' = Replicas
      BY <2>1 DEF HistoryInv, UndoInv
    <2>5. History' = History /\ PendingEdits' = PendingEdits
      BY DEF History, PendingEdits
    <2>6. EditTimestamps' = EditTimestamps /\ Undos' = Undos
      BY DEF EditTimestamps, Edits, Undos
    <2>7. HistoryTypeOK' /\ HistoriesApart'
      BY <2>5, <2>6 DEF HistoryInv, HistoryTypeOK, RequestsOK, HistoriesApart
    <2>8. UndoMapKnown'
      <3>1. ASSUME NEW s \in Replicas, NEW u \in undoMap'[s]
            PROVE  \E o \in Undos' : \E t \in DOMAIN o.counts : u = UndoEntry(o, t)
        <4>1. CASE u \in undoMap[s]
          BY <2>6, <4>1 DEF HistoryInv, UndoInv, UndoMapKnown
        <4>2. CASE u \notin undoMap[s]
          <5>1. u \in WithUndo(undoMap[r], op) /\ u \notin undoMap[r]
            BY <2>4, <3>1, <4>2
          <5>2. \E t \in DOMAIN op.counts : u = UndoEntry(op, t)
            BY <5>1, WithUndoKnown
          <5> QED
            BY <2>1, <2>6, <5>2
        <4> QED
          BY <4>1, <4>2
      <3> QED
        BY <3>1 DEF UndoMapKnown, UndoEntry
    <2>9. UndoInv'
      BY <2>4, <2>5, <2>6, <2>8 DEF HistoryInv, UndoInv, CountsBounded, OwnersToggle
    <2>10. \A t \in History[r] : IsUndone(undoMap'[r], t) <=> IsUndone(undoMap[r], t)
      BY <2>3, <2>4, CountOfOthers DEF IsUndone
    <2>11. HistoriesCurrent'
      <3>1. EditsIn(undoStack[r]) \subseteq History[r] /\ EditsIn(redoStack[r]) \subseteq History[r]
        BY DEF History
      <3> QED
        BY <2>4, <2>10, <3>1 DEF HistoryInv, HistoriesCurrent
    <2> QED
      BY <2>7, <2>9, <2>11 DEF HistoryInv
  <1> QED
    BY <1>1, <1>2

LEMMA ApplyStepHistory ==
    ASSUME IInv, HistoryInv, NEW r \in Replicas, ApplyStep(r)
    PROVE  HistoryInv'
  <1>1. UNCHANGED <<undoStack, redoStack, requests, issued>>
    BY DEF ApplyStep, ApplyFromBatch, StartFlush, ApplyFromQueue, EndFlush, historyVars, netVars
  <1>2. CASE UNCHANGED undoMap
    BY <1>1, <1>2, HistoryUntouched DEF historyStateVars
  <1>3. CASE ~UNCHANGED undoMap
    <2>1. CASE ApplyFromBatch(r)
      <3>1. Apply(r, Head(call.batch)) /\ call.batch # <<>>
        BY <1>3, <2>1 DEF ApplyFromBatch, Postpone, textVars
      <3>2. Head(call.batch) \in issued
        <4>1. call.batch \in Seq(issued)
          BY DEF IInv, DeliveryTypeOK, Calls
        <4> QED
          BY <3>1, <4>1
      <3> QED
        BY <1>1, <3>1, <3>2, ApplyHistory
    <2>2. CASE ApplyFromQueue(r)
      <3>1. PICK op \in call.draining : Apply(r, op)
        BY <1>3, <2>2 DEF ApplyFromQueue, Postpone, textVars
      <3>2. op \in issued
        BY DEF IInv, DeliveryTypeOK, Calls
      <3> QED
        BY <1>1, <3>1, <3>2, ApplyHistory
    <2> QED
      BY <1>3, <2>1, <2>2 DEF ApplyStep, StartFlush, EndFlush, textVars
  <1> QED
    BY <1>2, <1>3

LEMMA RequestStepHistory ==
    ASSUME IInv, HistoryInv, NEW i \in DOMAIN requests, RequestStep(i)
    PROVE  HistoryInv'
  <1>1. CASE ReceiveRequest(i)
    BY <1>1, RequestMoves DEF ReceiveRequest, textVars, historyVars, netVars
  <1>2. CASE ReceiveAnswer(i)
    BY <1>2, RequestMoves DEF ReceiveAnswer, textVars, historyVars, netVars
  <1> QED
    BY <1>1, <1>2, AnswerRequestHistory, PushTransactionHistory DEF RequestStep

LEMMA HistoryInit == Init => HistoryInv
  <1> SUFFICES ASSUME Init PROVE HistoryInv
    OBVIOUS
  <1> USE DEF Init
  <1>1. Edits = {} /\ Undos = {} /\ EditTimestamps = {}
    BY DEF Edits, Undos, EditTimestamps
  <1>2. \A r \in Replicas : undoStack[r] = <<>> /\ redoStack[r] = <<>> /\ undoMap[r] = {}
    OBVIOUS
  <1>3. \A r \in Replicas : History[r] = {}
    BY <1>2, EmptyStack DEF History
  <1>4. RequestsOK
    <2>1. requests \in Seq(Request({}))
      OBVIOUS
    <2> QED
      BY <2>1 DEF RequestsOK
  <1>5. HistoryTypeOK
    BY <1>3, <1>4, EmptyStack DEF HistoryTypeOK
  <1>6. HistoriesApart
    BY <1>2, <1>3, EmptyStack DEF HistoriesApart
  <1>7. UndoInv
    <2>1. CountsBounded
      <3>1. 0 \in Nat
        OBVIOUS
      <3> QED
        BY <1>1, <3>1 DEF CountsBounded
    <2> QED
      BY <1>1, <1>2, <2>1 DEF UndoInv, OwnersToggle, UndoMapKnown
  <1>8. HistoriesCurrent
    BY <1>2, EmptyStack DEF HistoriesCurrent
  <1> QED
    BY <1>5, <1>6, <1>7, <1>8 DEF HistoryInv

LEMMA HistoryStep == IInv /\ HistoryInv /\ [Next]_vars => HistoryInv'
  <1> SUFFICES ASSUME IInv, HistoryInv, [Next]_vars PROVE HistoryInv'
    OBVIOUS
  <1>1. ASSUME NEW r \in Replicas, Receive(r) PROVE HistoryInv'
    BY <1>1, HistoryUntouched DEF Receive, historyStateVars, textVars, historyVars
  <1>2. CASE UNCHANGED vars
    BY <1>2, HistoryUntouched DEF vars, historyStateVars, textVars, historyVars, netVars
  <1>3. CASE Next
    BY <1>1, <1>3, EditHistory, UndoHistory, RedoHistory, ApplyStepHistory, SendRequestHistory,
       RequestStepHistory DEF Next
  <1> QED
    BY <1>2, <1>3

LEMMA HistoryInvariance == Spec => []HistoryInv
  BY HistoryInit, HistoryStep, Invariance, PTL DEF Spec

(* The edits of a history, as the properties write them.                    *)
LEMMA HistoryEdits ==
    ASSUME HistoryTypeOK, NEW r \in Replicas
    PROVE  /\ UNION {e.edits : e \in Range(undoStack[r])} = EditsIn(undoStack[r])
           /\ UNION {e.edits : e \in Range(redoStack[r])} = EditsIn(redoStack[r])
           /\ UNION {e.edits : e \in Range(undoStack[r]) \cup Range(redoStack[r])} = History[r]
  <1>1. undoStack[r] \in Seq(Transactions) /\ redoStack[r] \in Seq(Transactions)
    BY DEF HistoryTypeOK
  <1>2. /\ UNION {e.edits : e \in Range(undoStack[r])} = EditsIn(undoStack[r])
        /\ UNION {e.edits : e \in Range(redoStack[r])} = EditsIn(redoStack[r])
    BY <1>1, StackFacts
  <1> QED
    BY <1>2 DEF History

(* No edit is in the undo histories of two replicas, so that no two replicas *)
(* undo or redo the same one: an edit that a language server made for a     *)
(* guest leaves the host's history (push_transaction, forget_transaction).  *)
THEOREM EditsHaveOneHistory == Spec => []OneHistoryPerEdit
  <1>1. HistoryInv => OneHistoryPerEdit
    BY HistoryEdits DEF HistoryInv, HistoriesApart, OneHistoryPerEdit
  <1> QED
    BY <1>1, HistoryInvariance, PTL

(* What undo and redo go by is right: the transactions a replica can undo   *)
(* are done there, and those it can redo are undone (Buffer::undo, redo,    *)
(* undo_or_redo and UndoMap::undo_count).                                   *)
THEOREM UndoHistoryStaysCurrent == Spec => []UndoHistoryIsCurrent
  <1>1. HistoryInv => UndoHistoryIsCurrent
    BY HistoryEdits DEF HistoryInv, HistoriesCurrent, UndoHistoryIsCurrent
  <1> QED
    BY <1>1, HistoryInvariance, PTL
=============================================================================
