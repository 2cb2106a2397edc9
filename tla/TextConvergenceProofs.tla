------------------------- MODULE TextConvergenceProofs -------------------------
(***************************************************************************)
(* Proofs about the texts and the undo maps of TextBuffer, for any number  *)
(* of replicas, edits and undos and any delivery of operations: replicas   *)
(* that have observed the same operations hold the same text, and the      *)
(* flags of their fragments are what the undo map says.  Then what each    *)
(* replica waits for, and the types of all variables.                      *)
(***************************************************************************)
EXTENDS TextOrderProofs

-----------------------------------------------------------------------------
(* The undo map of a replica is what the undo operations it has observed    *)
(* say.                                                                     *)

EntriesOf(o) == {UndoEntry(o, t) : t \in DOMAIN o.counts}

ObservedUndos(r) == {o \in Undos : Observed(version[r], o.timestamp)}

UndoMapExact ==
    /\ DOMAIN undoMap = Replicas
    /\ \A r \in Replicas : undoMap[r] = UNION {EntriesOf(o) : o \in ObservedUndos(r)}

LEMMA WithUndoEntries ==
    ASSUME NEW undos, NEW op
    PROVE  WithUndo(undos, op) = undos \cup EntriesOf(op)
  BY DEF WithUndo, EntriesOf, UndoEntry

LEMMA UndosAfter ==
    ASSUME NEW r \in Replicas, NEW op, Observes(r, op), NEW s \in Replicas
    PROVE  ObservedUndos(s)' = IF s = r /\ op.kind = "undo" THEN ObservedUndos(s) \cup {op}
                                                          ELSE ObservedUndos(s)
  <1>1. /\ issued' = issued \cup {op}
        /\ \A o \in issued' :
               Observed(version'[s], o.timestamp) <=>
                   \/ o \in issued /\ Observed(version[s], o.timestamp)
                   \/ s = r /\ o = op
    BY DEF Observes
  <1>2. ObservedUndos(s)' = {o \in issued' : o.kind = "undo" /\ Observed(version'[s], o.timestamp)}
    BY DEF ObservedUndos, Undos
  <1>3. ObservedUndos(s) = {o \in issued : o.kind = "undo" /\ Observed(version[s], o.timestamp)}
    BY DEF ObservedUndos, Undos
  <1> QED
    BY <1>1, <1>2, <1>3

LEMMA UndoMapStep ==
    ASSUME DeliveryTypeOK, Causality, UndoMapExact, [Next]_vars
    PROVE  UndoMapExact'
  <1>0. UndoMapExact' <=> /\ DOMAIN undoMap' = Replicas
                          /\ \A s \in Replicas : undoMap'[s] = UNION {EntriesOf(o) : o \in ObservedUndos(s)'}
    BY DEF UndoMapExact
  <1>1. CASE TextKept
    <2>1. undoMap' = undoMap /\ \A s \in Replicas : ObservedUndos(s)' = ObservedUndos(s)
      BY <1>1 DEF TextKept, ObservedUndos, Undos
    <2> QED
      BY <1>0, <2>1 DEF UndoMapExact
  <1>2. ASSUME NEW r \in Replicas, NEW op, LocalEdit(r, op) \/ RemoteEdit(r, op)
        PROVE  UndoMapExact'
    <2>1. undoMap' = undoMap /\ op.kind = "edit" /\ Observes(r, op)
      BY <1>2 DEF LocalEdit, RemoteEdit
    <2>2. \A s \in Replicas : ObservedUndos(s)' = ObservedUndos(s)
      BY <2>1, UndosAfter
    <2> QED
      BY <1>0, <2>1, <2>2 DEF UndoMapExact
  <1>3. ASSUME NEW r \in Replicas, NEW op, AppliedUndo(r, op)
        PROVE  UndoMapExact'
    <2>1. op.kind = "undo" /\ Observes(r, op)
          /\ undoMap' = [undoMap EXCEPT ![r] = WithUndo(@, op)]
      BY <1>3 DEF AppliedUndo
    <2>2. ASSUME NEW s \in Replicas
          PROVE  undoMap'[s] = UNION {EntriesOf(o) : o \in ObservedUndos(s)'}
      <3>1. undoMap[s] = UNION {EntriesOf(o) : o \in ObservedUndos(s)}
        BY DEF UndoMapExact
      <3>2. undoMap'[s] = IF s = r THEN undoMap[s] \cup EntriesOf(op) ELSE undoMap[s]
        BY <2>1, WithUndoEntries DEF UndoMapExact
      <3>3. ObservedUndos(s)' = IF s = r THEN ObservedUndos(s) \cup {op} ELSE ObservedUndos(s)
        BY <2>1, UndosAfter
      <3> QED
        BY <3>1, <3>2, <3>3
    <2> QED
      BY <1>0, <2>1, <2>2 DEF UndoMapExact
  <1> QED
    BY <1>1, <1>2, <1>3, TextSteps

(* An entry of an undo map is of an undo operation that was observed.       *)
LEMMA EntryFacts ==
    ASSUME UndoMapExact, NEW r \in Replicas, NEW u \in undoMap[r]
    PROVE  \E o \in Undos : /\ Observed(version[r], o.timestamp)
                            /\ u.undo = o.timestamp
                            /\ u.edit \in DOMAIN o.counts
  <1>1. PICK o \in ObservedUndos(r) : u \in EntriesOf(o)
    BY DEF UndoMapExact
  <1>2. PICK t \in DOMAIN o.counts : u = UndoEntry(o, t)
    BY <1>1 DEF EntriesOf
  <1> QED
    BY <1>2 DEF ObservedUndos, UndoEntry

-----------------------------------------------------------------------------
(* What an edit does to the characters of a replica.                        *)

LEMMA StruckOrKept ==
    ASSUME NEW F \in Seq(Characters), NEW p \in 0..Len(F), NEW t \in Timestamps, NEW len \in Nat,
           NEW gone, NEW i \in 1..Len(F)
    PROVE  Splice(F, p, t, len, gone)[Moved(p, len, i)] =
               IF p < i /\ i \in gone THEN Struck(F[i], t) ELSE F[i]
  <1> DEFINE G == Splice(F, p, t, len, gone)
  <1>1. /\ \A j \in 1..p : G[j] = F[j]
        /\ \A j \in 1..Len(F) : j > p => G[j + len] = IF j \in gone THEN Struck(F[j], t) ELSE F[j]
    BY SpliceFacts
  <1>2. i \in Nat /\ p \in Nat /\ Len(F) \in Nat
    OBVIOUS
  <1> HIDE DEF G
  <1>3. CASE i <= p
    BY <1>1, <1>2, <1>3 DEF Moved, G
  <1>4. CASE p < i
    BY <1>1, <1>2, <1>4 DEF Moved, G
  <1> QED
    BY <1>2, <1>3, <1>4

LEMMA SpliceOrigins ==
    ASSUME NEW F \in Seq(Characters), NEW p \in 0..Len(F), NEW t \in Timestamps, NEW len \in Nat,
           NEW gone, NEW j \in 1..Len(Splice(F, p, t, len, gone))
    PROVE  \/ \E k \in 1..len : Splice(F, p, t, len, gone)[j] = Fragment(t, k)
           \/ \E i \in 1..Len(F) :
                  /\ j = Moved(p, len, i)
                  /\ Splice(F, p, t, len, gone)[j] =
                         IF p < i /\ i \in gone THEN Struck(F[i], t) ELSE F[i]
  <1> DEFINE G == Splice(F, p, t, len, gone)
  <1>1. /\ Len(G) = Len(F) + len
        /\ \A k \in 1..len : G[p + k] = Fragment(t, k)
    BY SpliceFacts
  <1>2. \A i \in 1..Len(F) : G[Moved(p, len, i)] = IF p < i /\ i \in gone THEN Struck(F[i], t) ELSE F[i]
    BY StruckOrKept
  <1>3. j \in Nat /\ p \in Nat /\ Len(F) \in Nat /\ j \in 1..Len(G)
    BY <1>1
  <1> HIDE DEF G
  <1>4. CASE j <= p
    <2>1. j \in 1..Len(F) /\ j = Moved(p, len, j)
      BY <1>3, <1>4 DEF Moved
    <2> QED
      BY <1>2, <2>1 DEF G
  <1>5. CASE p < j /\ j <= p + len
    <2>1. j - p \in 1..len /\ p + (j - p) = j
      BY <1>3, <1>5
    <2>2. G[j] = Fragment(t, j - p)
      BY <1>1, <2>1
    <2> QED
      BY <2>1, <2>2 DEF G
  <1>6. CASE p + len < j
    <2>1. j - len \in 1..Len(F) /\ j = Moved(p, len, j - len)
      BY <1>1, <1>3, <1>6 DEF Moved
    <2> QED
      BY <1>2, <2>1 DEF G
  <1> QED
    BY <1>3, <1>4, <1>5, <1>6

(* The replica that makes or receives the edit op.                          *)
LEMMA SplicedText ==
    ASSUME OrderInv, NEW r \in Replicas, NEW op, NEW n, NEW p, NEW gone,
           SplicesEdit(r, op, n, p, gone)
    PROVE  /\ fragments[r] \in Seq(Characters)
           /\ fragments'[r] \in Seq(Characters)
           /\ p \in 0..Len(fragments[r])
           /\ op.timestamp \in Timestamps
           /\ op.length \in Nat
           /\ fragments'[r] = Splice(fragments[r], p, op.timestamp, op.length, gone)
           /\ \A s \in Replicas : s # r => fragments'[s] = fragments[s]
           /\ Observes(r, op) /\ op.kind = "edit"
  <1>1. fragments[r] \in Seq(Characters)
    BY TextFacts
  <1>2. InsertsEdit(r, op, n, p)
    BY DEF SplicesEdit
  <1>3. p \in 0..Len(fragments[r])
    BY <1>2 DEF InsertsEdit, InsertedAt
  <1> QED
    BY <1>1, <1>2, <1>3 DEF SplicesEdit, InsertsEdit

-----------------------------------------------------------------------------
(* An operation that a replica observes is unknown to those it observed.    *)

LEMMA UnknownToEarlier ==
    ASSUME DeliveryTypeOK, Causality, NEW r \in Replicas, NEW op, op.timestamp \in Timestamps,
           Observes(r, op)
    PROVE  /\ \A o \in issued : Observed(version[r], o.timestamp) => ~Observed(o.version, op.timestamp)
           /\ op.version \in [Replicas -> Nat] => ~Observed(op.version, op.timestamp)
  <1> DEFINE t == op.timestamp
  <1>1. t.replica \in Replicas /\ t.value \in Nat
    BY DEF Timestamps
  <1>2. ~(version[r][t.replica] >= t.value) /\ ObservedAll(version[r], op.version)
    BY DEF Observes, Observed
  <1>3. version[r][t.replica] \in Nat
    BY <1>1, Numbers
  <1> HIDE DEF t
  <1>4. ASSUME NEW v \in [Replicas -> Nat], ObservedAll(version[r], v)
        PROVE  ~Observed(v, t)
    BY <1>1, <1>2, <1>3, <1>4 DEF Observed, ObservedAll
  <1>5. ASSUME NEW o \in issued, Observed(version[r], o.timestamp)
        PROVE  ~Observed(o.version, t)
    <2>1. o.version \in [Replicas -> Nat]
      BY DEF DeliveryTypeOK
    <2>2. ObservedAll(version[r], o.version)
      BY <1>5 DEF Causality, AppliedInOrder
    <2> QED
      BY <1>4, <2>1, <2>2
  <1> QED
    BY <1>2, <1>4, <1>5 DEF t

(* The edits a replica has observed after a step.                           *)
LEMMA EditsAfter ==
    ASSUME NEW r \in Replicas, NEW op, Observes(r, op), NEW s \in Replicas, NEW o \in Edits',
           Observed(version'[s], o.timestamp)
    PROVE  \/ o \in Edits /\ Observed(version[s], o.timestamp)
           \/ s = r /\ o = op
  BY DEF Observes, Edits

LEMMA EditsStay ==
    ASSUME NEW r \in Replicas, NEW op, Observes(r, op), NEW s \in Replicas, NEW o \in Edits,
           Observed(version[s], o.timestamp)
    PROVE  o \in Edits' /\ Observed(version'[s], o.timestamp)
  BY DEF Observes, Edits

-----------------------------------------------------------------------------
(* What is deleted was deleted by edits that were observed.                 *)

KnownEdit(r, d) == \E o \in Edits : o.timestamp = d /\ Observed(version[r], d)

MarksKnown ==
    \A r \in Replicas : \A i \in DOMAIN fragments[r] :
        \A d \in fragments[r][i].deletions : KnownEdit(r, d)

LEMMA KnownStays ==
    ASSUME NEW r \in Replicas, NEW op, Observes(r, op), NEW s \in Replicas, NEW d, KnownEdit(s, d)
    PROVE  KnownEdit(s, d)'
  <1>1. PICK o \in Edits : o.timestamp = d /\ Observed(version[s], d)
    BY DEF KnownEdit
  <1>2. o \in Edits' /\ Observed(version'[s], o.timestamp)
    BY <1>1, EditsStay
  <1> QED
    BY <1>1, <1>2 DEF KnownEdit

LEMMA SpliceMarks ==
    ASSUME OrderInv, MarksKnown, NEW r \in Replicas, NEW op, NEW n, NEW p, NEW gone,
           SplicesEdit(r, op, n, p, gone)
    PROVE  MarksKnown'
  <1> DEFINE F == fragments[r]
             G == fragments'[r]
             t == op.timestamp
  <1>1. /\ F \in Seq(Characters) /\ G \in Seq(Characters) /\ p \in 0..Len(F) /\ t \in Timestamps
        /\ op.length \in Nat /\ G = Splice(F, p, t, op.length, gone)
        /\ \A s \in Replicas : s # r => fragments'[s] = fragments[s]
        /\ Observes(r, op) /\ op.kind = "edit"
    BY SplicedText
  <1>2. KnownEdit(r, t)'
    <2>1. op \in Edits' /\ op \in issued'
      BY <1>1 DEF Observes, Edits
    <2>2. Observed(version'[r], op.timestamp)
      BY <1>1, <2>1 DEF Observes
    <2> QED
      BY <2>1, <2>2 DEF KnownEdit
  <1>3. ASSUME NEW i \in 1..Len(F) PROVE \A d \in F[i].deletions : KnownEdit(r, d)
    BY <1>1 DEF MarksKnown
  <1>4. \A s \in Replicas : \A d : KnownEdit(s, d) => KnownEdit(s, d)'
    <2>1. ASSUME NEW s \in Replicas, NEW d, KnownEdit(s, d) PROVE KnownEdit(s, d)'
      BY <1>1, <2>1, KnownStays
    <2> QED
      BY <2>1
  <1>5. DOMAIN G = 1..Len(G)
    BY <1>1
  <1> HIDE DEF F, G, t
  <1>6. ASSUME NEW j \in 1..Len(G), NEW d \in G[j].deletions PROVE KnownEdit(r, d)'
    <2>1. CASE \E k \in 1..op.length : G[j] = Fragment(t, k)
      BY <1>6, <2>1 DEF Fragment
    <2>2. CASE \E i \in 1..Len(F) : G[j] = IF p < i /\ i \in gone THEN Struck(F[i], t) ELSE F[i]
      <3>1. PICK i \in 1..Len(F) : G[j] = IF p < i /\ i \in gone THEN Struck(F[i], t) ELSE F[i]
        BY <2>2
      <3>2. F[i] \in Characters
        BY <1>1
      <3>3. Struck(F[i], t).deletions = F[i].deletions \cup {t}
        BY <1>1, <3>2, StruckFacts
      <3>4. d \in F[i].deletions \cup {t}
        BY <1>6, <3>1, <3>3
      <3> QED
        BY <1>2, <1>3, <1>4, <3>4
    <2> QED
      BY <1>1, <2>1, <2>2, SpliceOrigins
  <1>7. ASSUME NEW s \in Replicas, s # r, NEW j \in DOMAIN fragments'[s],
               NEW d \in fragments'[s][j].deletions
        PROVE  KnownEdit(s, d)'
    BY <1>1, <1>4, <1>7 DEF MarksKnown
  <1> QED
    BY <1>5, <1>6, <1>7 DEF MarksKnown, G

(* An undo operation changes the visibility of characters, no more.         *)
LEMMA UndoneText ==
    ASSUME OrderInv, NEW r \in Replicas, NEW op, AppliedUndo(r, op)
    PROVE  /\ fragments[r] \in Seq(Characters)
           /\ fragments'[r] \in Seq(Characters)
           /\ Len(fragments'[r]) = Len(fragments[r])
           /\ \A i \in 1..Len(fragments[r]) :
                  /\ SameCharacter(fragments'[r][i], fragments[r][i])
                  /\ fragments'[r][i].deletions = fragments[r][i].deletions
                  /\ fragments'[r][i].visible =
                         IF (fragments[r][i].deletions \cup {fragments[r][i].timestamp})
                                \cap DOMAIN op.counts # {}
                         THEN IsVisible(fragments[r][i], WithUndo(undoMap[r], op))
                         ELSE fragments[r][i].visible
           /\ \A s \in Replicas : s # r => fragments'[s] = fragments[s]
           /\ Observes(r, op) /\ op.kind = "undo"
  <1>1. fragments[r] \in Seq(Characters) /\ fragments \in [Replicas -> Seq(Characters)]
    BY DEF OrderInv, TextTypeOK
  <1> DEFINE undos == WithUndo(undoMap[r], op)
             F == fragments[r]
             G == ApplyUndo(F, op, undos)
  <1>2. /\ fragments' = [fragments EXCEPT ![r] = ApplyUndo(fragments[r], op, WithUndo(undoMap[r], op))]
        /\ Observes(r, op) /\ op.kind = "undo"
    BY DEF AppliedUndo
  <1>3. fragments'[r] = G /\ \A s \in Replicas : s # r => fragments'[s] = fragments[s]
    BY <1>1, <1>2
  <1> HIDE DEF undos, F
  <1>4. F \in Seq(Characters)
    BY <1>1 DEF F
  <1>5. /\ G \in Seq(Characters)
        /\ Len(G) = Len(F)
        /\ \A i \in 1..Len(F) :
               /\ SameCharacter(G[i], F[i])
               /\ G[i].deletions = F[i].deletions
               /\ G[i].visible = IF (F[i].deletions \cup {F[i].timestamp}) \cap DOMAIN op.counts # {}
                                 THEN IsVisible(F[i], undos) ELSE F[i].visible
    BY <1>4, ApplyUndoFacts
  <1> HIDE DEF G
  <1> QED
    BY <1>2, <1>3, <1>4, <1>5 DEF F, undos

LEMMA MarksStep ==
    ASSUME DeliveryTypeOK, Causality, OrderInv, MarksKnown, [Next]_vars
    PROVE  MarksKnown'
  <1>1. CASE TextKept
    BY <1>1 DEF TextKept, MarksKnown, KnownEdit, Edits
  <1>2. ASSUME NEW r \in Replicas, NEW op, LocalEdit(r, op) \/ RemoteEdit(r, op)
        PROVE  MarksKnown'
    <2>1. \E n, p, gone : SplicesEdit(r, op, n, p, gone)
      BY <1>2, LocalEditInserts, RemoteEditInserts
    <2> QED
      BY <2>1, SpliceMarks
  <1>3. ASSUME NEW r \in Replicas, NEW op, AppliedUndo(r, op)
        PROVE  MarksKnown'
    <2>1. /\ fragments[r] \in Seq(Characters) /\ fragments'[r] \in Seq(Characters)
          /\ Len(fragments'[r]) = Len(fragments[r])
          /\ \A i \in 1..Len(fragments[r]) : fragments'[r][i].deletions = fragments[r][i].deletions
          /\ \A s \in Replicas : s # r => fragments'[s] = fragments[s]
          /\ Observes(r, op)
      BY <1>3, UndoneText
    <2>2. ASSUME NEW s \in Replicas, NEW j \in DOMAIN fragments'[s], NEW d \in fragments'[s][j].deletions
          PROVE  KnownEdit(s, d)'
      <3>1. j \in DOMAIN fragments[s] /\ d \in fragments[s][j].deletions
        BY <2>1, <2>2
      <3>2. KnownEdit(s, d)
        BY <3>1 DEF MarksKnown
      <3> QED
        BY <2>1, <3>2, KnownStays
    <2> QED
      BY <2>2 DEF MarksKnown
  <1> QED
    BY <1>1, <1>2, <1>3, TextSteps

-----------------------------------------------------------------------------
(* What is undone, or may be, is known to whom undoes it.                   *)

(* An undo operation is about edits that its author had observed.           *)
UndosKnow == \A o \in Undos : \A t \in DOMAIN o.counts : Observed(o.version, t)

HistoryKnown == \A r \in Replicas : \A t \in History[r] : Observed(version[r], t)

(* The guest of a request has observed the edits it is told of, or waits.   *)
Awaited(i, t) == \E w \in editWaiters[requests[i].from] : w.request = i /\ w.edit = t

AnswersKnown ==
    \A i \in DOMAIN requests : requests[i].stage = "pushing" =>
        \A t \in requests[i].edits : Observed(version[requests[i].from], t) \/ Awaited(i, t)

KnownInv == UndosKnow /\ HistoryKnown /\ AnswersKnown /\ DOMAIN editWaiters = Replicas

(* What a step may do to the histories, the requests and the waiters.       *)
NewUndosKnow ==
    \A o \in Undos' : o \in Undos \/ \E r \in Replicas : /\ o.version = version[r]
                                                       /\ DOMAIN o.counts \subseteq History[r]

NewHistoryKnown ==
    \A r \in Replicas : \A t \in History'[r] : t \in History[r] \/ Observed(version'[r], t)

WaitersKept ==
    /\ DOMAIN editWaiters' = Replicas
    /\ \A r \in Replicas : \A w \in editWaiters[r] :
           w \in editWaiters'[r] \/ Observed(version'[r], w.edit)

NewAnswersKnown ==
    \A i \in DOMAIN requests' : requests'[i].stage = "pushing" =>
        \/ i \in DOMAIN requests /\ requests'[i] = requests[i]
        \/ \A t \in requests'[i].edits : \/ Observed(version'[requests'[i].from], t)
                                         \/ \E w \in editWaiters'[requests'[i].from] :
                                                w.request = i /\ w.edit = t

LEMMA EditStaysObserved ==
    ASSUME DeliveryTypeOK, Causality, [Next]_vars, NEW r \in Replicas, NEW t \in EditTimestamps,
           Observed(version[r], t)
    PROVE  Observed(version'[r], t)
  <1>1. PICK o \in issued : o.timestamp = t
    BY DEF EditTimestamps, Edits
  <1> QED
    BY <1>1, StaysObserved

LEMMA KnownKept ==
    ASSUME IInv, HistoryInv, KnownInv, [Next]_vars,
           NewUndosKnow, NewHistoryKnown, WaitersKept, NewAnswersKnown
    PROVE  KnownInv'
  <1>1. DeliveryTypeOK /\ Causality
    BY DEF IInv
  <1>2. UndosKnow'
    <2>1. ASSUME NEW o \in Undos', NEW t \in DOMAIN o.counts PROVE Observed(o.version, t)
      <3>1. CASE o \in Undos
        BY <3>1 DEF KnownInv, UndosKnow
      <3>2. CASE \E r \in Replicas : o.version = version[r] /\ DOMAIN o.counts \subseteq History[r]
        BY <2>1, <3>2 DEF KnownInv, HistoryKnown
      <3> QED
        BY <3>1, <3>2 DEF NewUndosKnow
    <2> QED
      BY <2>1 DEF UndosKnow, Observed
  <1>3. HistoryKnown'
    <2>1. ASSUME NEW r \in Replicas, NEW t \in History'[r] PROVE Observed(version'[r], t)
      <3>1. CASE t \in History[r]
        <4>1. t \in EditTimestamps
          BY <3>1 DEF HistoryInv, HistoryTypeOK
        <4> QED
          BY <1>1, <3>1, <4>1, EditStaysObserved DEF KnownInv, HistoryKnown
      <3> QED
        BY <3>1 DEF NewHistoryKnown
    <2> QED
      BY <2>1 DEF HistoryKnown
  <1>4. AnswersKnown'
    <2>1. ASSUME NEW i \in DOMAIN requests', requests'[i].stage = "pushing",
                 NEW t \in requests'[i].edits
          PROVE  \/ Observed(version'[requests'[i].from], t)
                 \/ \E w \in editWaiters'[requests'[i].from] : w.request = i /\ w.edit = t
      <3>1. CASE i \in DOMAIN requests /\ requests'[i] = requests[i]
        <4>1. requests[i].from \in Replicas
          BY <3>1, RequestFacts DEF HistoryInv, HistoryTypeOK
        <4>2. t \in EditTimestamps
          BY <2>1, <3>1 DEF HistoryInv, HistoryTypeOK
        <4>3. CASE Observed(version[requests[i].from], t)
          BY <1>1, <3>1, <4>1, <4>2, <4>3, EditStaysObserved
        <4>4. CASE Awaited(i, t)
          <5>1. PICK w \in editWaiters[requests[i].from] : w.request = i /\ w.edit = t
            BY <4>4 DEF Awaited
          <5> QED
            BY <3>1, <4>1, <5>1 DEF WaitersKept
        <4> QED
          BY <2>1, <3>1, <4>3, <4>4 DEF KnownInv, AnswersKnown
      <3> QED
        BY <2>1, <3>1 DEF NewAnswersKnown
    <2> QED
      BY <2>1 DEF AnswersKnown, Awaited
  <1> QED
    BY <1>2, <1>3, <1>4 DEF KnownInv, WaitersKept

(* Steps that keep the histories, the requests and the waiters.             *)
LEMMA QuietAnswers ==
    ASSUME requests' = requests
    PROVE  NewAnswersKnown
  BY DEF NewAnswersKnown

LEMMA QuietWaiters ==
    ASSUME KnownInv, editWaiters' = editWaiters
    PROVE  WaitersKept
  BY DEF WaitersKept, KnownInv

LEMMA QuietUndos ==
    ASSUME Undos' = Undos
    PROVE  NewUndosKnow
  BY DEF NewUndosKnow

LEMMA QuietHistory ==
    ASSUME UNCHANGED <<undoStack, redoStack>>
    PROVE  NewHistoryKnown
  BY DEF NewHistoryKnown, History

LEMMA MadeEditObserved ==
    ASSUME IInv, HistoryInv, NEW r \in Replicas, Idle, MakeEdit(r), UNCHANGED <<deferVars, call>>
    PROVE  Observed(version'[r], EditTimestamp(r)) /\ Undos' = Undos
  <1>1. PICK op : LocalEdit(r, op)
    BY MakeEditIsLocalEdit DEF IInv
  <1>2. op \in issued' /\ op.timestamp = EditTimestamp(r) /\ Observes(r, op)
    BY <1>1 DEF LocalEdit, Observes
  <1>3. Observed(version'[r], op.timestamp)
    BY <1>2 DEF Observes
  <1>4. Undos' = Undos
    BY MakeEditEffect DEF IInv, HistoryInv, UndoInv
  <1> QED
    BY <1>2, <1>3, <1>4

LEMMA EditKnown ==
    ASSUME IInv, HistoryInv, KnownInv, NEW r \in Replicas, Edit(r)
    PROVE  KnownInv'
  <1> DEFINE t == EditTimestamp(r)
             top == Entry({t}, FALSE)
             stack == Append(undoStack[r], top)
  <1>1. Observed(version'[r], t) /\ Undos' = Undos
    BY MadeEditObserved DEF Edit
  <1>2. t \in Timestamps
    BY FreshTimestamps DEF IInv
  <1>3. undoStack[r] \in Seq(Transactions)
    BY DEF HistoryInv, HistoryTypeOK
  <1>4. top \in Transactions /\ top.edits = {t}
    BY <1>2 DEF Entry, Transactions
  <1>5. PICK n \in 0..(Len(stack) - 1) : undoStack' = [undoStack EXCEPT ![r] = GroupTrailing(stack, n)]
    BY DEF Edit
  <1>6. redoStack' = [redoStack EXCEPT ![r] = <<>>]
        /\ UNCHANGED <<editWaiters, requests>>
    BY DEF Edit, waitVars
  <1> HIDE DEF t, top
  <1>7. stack \in Seq(Transactions) /\ EditsIn(stack) = EditsIn(undoStack[r]) \cup {t}
    BY <1>3, <1>4, PushStack
  <1> HIDE DEF stack
  <1>8. EditsIn(GroupTrailing(stack, n)) = EditsIn(undoStack[r]) \cup {t}
    BY <1>7, GroupStack
  <1>9. NewHistoryKnown
    <2>1. ASSUME NEW s \in Replicas, NEW u \in History'[s]
          PROVE  u \in History[s] \/ Observed(version'[s], u)
      <3>1. undoStack \in [Replicas -> Seq(Transactions)] /\ redoStack \in [Replicas -> Seq(Transactions)]
        BY DEF HistoryInv, HistoryTypeOK
      <3>2. CASE s = r
        <4>1. undoStack'[s] = GroupTrailing(stack, n) /\ redoStack'[s] = <<>>
          BY <1>5, <1>6, <3>1, <3>2
        <4>2. History'[s] = EditsIn(undoStack[r]) \cup {t}
          BY <1>8, <4>1, EmptyStack DEF History
        <4> QED
          BY <1>1, <2>1, <3>2, <4>2 DEF History, t
      <3>3. CASE s # r
        <4>1. undoStack'[s] = undoStack[s] /\ redoStack'[s] = redoStack[s]
          BY <1>5, <1>6, <3>1, <3>3
        <4> QED
          BY <2>1, <4>1 DEF History
      <3> QED
        BY <3>2, <3>3
    <2> QED
      BY <2>1 DEF NewHistoryKnown
  <1>10. [Next]_vars
    BY DEF Next
  <1> QED
    BY <1>1, <1>6, <1>9, <1>10, KnownKept, QuietAnswers, QuietWaiters, QuietUndos

LEMMA OneHistoryChanges ==
    ASSUME HistoryInv, NEW r \in Replicas, NEW us, NEW rs,
           undoStack' = [undoStack EXCEPT ![r] = us],
           redoStack' = [redoStack EXCEPT ![r] = rs],
           \A t \in EditsIn(us) \cup EditsIn(rs) : t \in History[r] \/ Observed(version'[r], t)
    PROVE  NewHistoryKnown
  <1>1. undoStack \in [Replicas -> Seq(Transactions)] /\ redoStack \in [Replicas -> Seq(Transactions)]
    BY DEF HistoryInv, HistoryTypeOK
  <1>2. \A s \in Replicas : /\ undoStack'[s] = IF s = r THEN us ELSE undoStack[s]
                            /\ redoStack'[s] = IF s = r THEN rs ELSE redoStack[s]
    BY <1>1
  <1>3. \A s \in Replicas : History'[s] = IF s = r THEN EditsIn(us) \cup EditsIn(rs) ELSE History[s]
    BY <1>2 DEF History
  <1> QED
    BY <1>3 DEF NewHistoryKnown

LEMMA UndoOrRedoKnown ==
    ASSUME NEW r \in Replicas, NEW edits \in SUBSET History[r], UndoOrRedo(r, edits)
    PROVE  NewUndosKnow
  <1>1. /\ DOMAIN UndoOp(r, edits).counts = edits
        /\ issued' = issued \cup {UndoOp(r, edits)}
    BY UndoOpFacts
  <1>2. UndoOp(r, edits).version = version[r]
    BY DEF UndoOp
  <1> QED
    BY <1>1, <1>2 DEF NewUndosKnow, Undos

LEMMA UndoKnown ==
    ASSUME IInv, HistoryInv, KnownInv, NEW r \in Replicas, Undo(r)
    PROVE  KnownInv'
  <1>1. PICK i \in DOMAIN undoStack[r] :
           /\ UndoOrRedo(r, undoStack[r][i].edits)
           /\ undoStack' = [undoStack EXCEPT ![r] = SubSeq(@, 1, i - 1) \o SubSeq(@, i + 1, Len(@))]
           /\ redoStack' = [redoStack EXCEPT ![r] = Append(@, undoStack[r][i])]
    BY DEF Undo
  <1> DEFINE stack == undoStack[r]
             e == stack[i]
             us == SubSeq(stack, 1, i - 1) \o SubSeq(stack, i + 1, Len(stack))
             rs == Append(redoStack[r], e)
  <1>2. stack \in Seq(Transactions) /\ redoStack[r] \in Seq(Transactions)
    BY DEF HistoryInv, HistoryTypeOK
  <1>3. /\ undoStack' = [undoStack EXCEPT ![r] = us]
        /\ redoStack' = [redoStack EXCEPT ![r] = rs]
        /\ UNCHANGED <<editWaiters, requests>>
    BY <1>1 DEF Undo, HistoryInv, HistoryTypeOK, waitVars
  <1>4. EditsIn(us) \subseteq EditsIn(stack)
    <2> HIDE DEF stack
    <2> QED
      BY <1>2, RemoveFromStack DEF stack
  <1>5. e \in Transactions /\ e.edits \subseteq EditsIn(stack)
    <2> HIDE DEF stack
    <2> QED
      BY <1>2, StackFacts DEF stack
  <1>6. UndoOrRedo(r, e.edits)
    BY <1>1
  <1> HIDE DEF us, e
  <1>7. EditsIn(rs) = EditsIn(redoStack[r]) \cup e.edits
    BY <1>2, <1>5, PushStack
  <1> HIDE DEF rs
  <1>8. History[r] = EditsIn(stack) \cup EditsIn(redoStack[r])
    BY DEF History
  <1> HIDE DEF stack
  <1>9. NewHistoryKnown
    BY <1>3, <1>4, <1>5, <1>7, <1>8, OneHistoryChanges
  <1>10. NewUndosKnow
    <2>1. e.edits \in SUBSET History[r]
      BY <1>5, <1>8
    <2> QED
      BY <1>6, <2>1, UndoOrRedoKnown
  <1>11. [Next]_vars
    BY DEF Next
  <1> QED
    BY <1>3, <1>9, <1>10, <1>11, KnownKept, QuietAnswers, QuietWaiters

LEMMA RedoKnown ==
    ASSUME IInv, HistoryInv, KnownInv, NEW r \in Replicas, Redo(r)
    PROVE  KnownInv'
  <1> DEFINE stack == redoStack[r]
             e == stack[Len(stack)]
             rs == SubSeq(stack, 1, Len(stack) - 1)
             us == Append(undoStack[r], e)
  <1>2. stack \in Seq(Transactions) /\ undoStack[r] \in Seq(Transactions)
    BY DEF HistoryInv, HistoryTypeOK
  <1>3. /\ UndoOrRedo(r, e.edits) /\ Len(stack) > 0
        /\ undoStack' = [undoStack EXCEPT ![r] = us]
        /\ redoStack' = [redoStack EXCEPT ![r] = rs]
        /\ UNCHANGED <<editWaiters, requests>>
    BY DEF Redo, HistoryInv, HistoryTypeOK, waitVars
  <1>4. History[r] = EditsIn(undoStack[r]) \cup EditsIn(stack)
    BY DEF History
  <1> HIDE DEF stack
  <1>5. /\ EditsIn(rs) \subseteq EditsIn(stack)
        /\ e \in Transactions /\ e.edits \subseteq EditsIn(stack)
    BY <1>2, <1>3, PopStack
  <1> HIDE DEF e, rs
  <1>6. EditsIn(us) = EditsIn(undoStack[r]) \cup e.edits
    BY <1>2, <1>5, PushStack
  <1> HIDE DEF us
  <1>7. NewHistoryKnown
    BY <1>3, <1>4, <1>5, <1>6, OneHistoryChanges
  <1>8. NewUndosKnow
    <2>1. e.edits \in SUBSET History[r]
      BY <1>4, <1>5
    <2> QED
      BY <1>3, <2>1, UndoOrRedoKnown
  <1>9. [Next]_vars
    BY DEF Next
  <1> QED
    BY <1>3, <1>7, <1>8, <1>9, KnownKept, QuietAnswers, QuietWaiters

(* An edit that wakes those who wait for it is observed.                    *)
LEMMA ApplyWaiters ==
    ASSUME DeliveryTypeOK, Causality, DOMAIN editWaiters = Replicas,
           NEW r \in Replicas, NEW op \in issued, Apply(r, op)
    PROVE  WaitersKept
  <1>1. Observed(version'[r], op.timestamp)
    BY ApplyEffect, AppliedIsObserved
  <1>2. \/ editWaiters' = editWaiters
        \/ editWaiters' = [editWaiters EXCEPT ![r] = {w \in @ : w.edit # op.timestamp}]
    BY DEF Apply
  <1> QED
    BY <1>1, <1>2 DEF WaitersKept

LEMMA ApplyStepWaiters ==
    ASSUME DeliveryTypeOK, Causality, DOMAIN editWaiters = Replicas, NEW r \in Replicas, ApplyStep(r)
    PROVE  WaitersKept
  <1>1. CASE editWaiters' = editWaiters
    BY <1>1 DEF WaitersKept
  <1>2. CASE editWaiters' # editWaiters
    <2>1. CASE ApplyFromBatch(r)
      <3>1. Apply(r, Head(call.batch)) /\ call.batch # <<>>
        BY <1>2, <2>1 DEF ApplyFromBatch, Postpone, waitVars
      <3>2. Head(call.batch) \in issued
        <4>1. call.batch \in Seq(issued)
          BY DEF DeliveryTypeOK, Calls
        <4> QED
          BY <3>1, <4>1
      <3> QED
        BY <3>1, <3>2, ApplyWaiters
    <2>2. CASE ApplyFromQueue(r)
      <3>1. PICK op \in call.draining : Apply(r, op)
        BY <1>2, <2>2 DEF ApplyFromQueue, Postpone, waitVars
      <3>2. op \in issued
        BY DEF DeliveryTypeOK, Calls
      <3> QED
        BY <3>1, <3>2, ApplyWaiters
    <2> QED
      BY <1>2, <2>1, <2>2 DEF ApplyStep, StartFlush, EndFlush, waitVars
  <1> QED
    BY <1>1, <1>2

LEMMA ApplyStepKnown ==
    ASSUME IInv, HistoryInv, KnownInv, NEW r \in Replicas, ApplyStep(r)
    PROVE  KnownInv'
  <1>1. UNCHANGED <<undoStack, redoStack, requests, issued>>
    BY DEF ApplyStep, ApplyFromBatch, StartFlush, ApplyFromQueue, EndFlush, historyVars, netVars
  <1>2. WaitersKept
    BY ApplyStepWaiters DEF IInv, KnownInv
  <1>3. Undos' = Undos
    BY <1>1 DEF Undos
  <1>4. [Next]_vars
    BY DEF Next
  <1> QED
    BY <1>1, <1>2, <1>3, <1>4, KnownKept, QuietAnswers, QuietUndos, QuietHistory

(* A request that moves on keeps the rest.                                  *)
LEMMA RequestKeeps ==
    ASSUME RequestsOK, NEW i \in DOMAIN requests,
           NEW st \in {"sent", "waiting", "answered", "pushing", "done"},
           requests' = [requests EXCEPT ![i].stage = st]
    PROVE  /\ DOMAIN requests' = DOMAIN requests
           /\ requests'[i].stage = st
           /\ requests'[i].from = requests[i].from
           /\ requests'[i].edits = requests[i].edits
           /\ requests'[i].anchor = requests[i].anchor
           /\ requests'[i].version = requests[i].version
           /\ \A j \in DOMAIN requests : j # i => requests'[j] = requests[j]
  <1>1. PICK A : requests \in Seq(Request(A))
    BY DEF RequestsOK
  <1>2. requests[i] \in Request(A)
    BY <1>1
  <1>3. requests'[i] = [requests[i] EXCEPT !.stage = st]
    BY <1>1
  <1>4. /\ requests'[i].stage = st
        /\ requests'[i].from = requests[i].from
        /\ requests'[i].edits = requests[i].edits
        /\ requests'[i].anchor = requests[i].anchor
        /\ requests'[i].version = requests[i].version
    BY <1>2, <1>3 DEF Request
  <1> QED
    BY <1>1, <1>4

LEMMA SendRequestKnown ==
    ASSUME IInv, HistoryInv, KnownInv, NEW r \in Replicas, SendRequest(r)
    PROVE  KnownInv'
  <1>1. PICK q : requests' = Append(requests, q) /\ q.stage = "sent"
    <2>1. PICK kind \in RequestKinds :
            \E anchor \in {f.timestamp : f \in Range(fragments[r])} :
                requests' = Append(requests, [stage |-> "sent", from |-> r, kind |-> kind, edits |-> {},
                                              version |-> version[r], anchor |-> anchor])
      BY DEF SendRequest
    <2>2. PICK anchor \in {f.timestamp : f \in Range(fragments[r])} :
            requests' = Append(requests, [stage |-> "sent", from |-> r, kind |-> kind, edits |-> {},
                                          version |-> version[r], anchor |-> anchor])
      BY <2>1
    <2> DEFINE q == [stage |-> "sent", from |-> r, kind |-> kind, edits |-> {},
                     version |-> version[r], anchor |-> anchor]
    <2>3. q.stage = "sent"
      OBVIOUS
    <2> QED
      BY <2>2, <2>3
  <1>2. PICK A : requests \in Seq(Request(A))
    BY DEF HistoryInv, HistoryTypeOK, RequestsOK
  <1>3. \A i \in DOMAIN requests' : i \notin DOMAIN requests => requests'[i] = q
    BY <1>1, <1>2
  <1>4. \A i \in DOMAIN requests : requests'[i] = requests[i]
    BY <1>1, <1>2
  <1>5. NewAnswersKnown
    BY <1>1, <1>3, <1>4 DEF NewAnswersKnown
  <1>6. UNCHANGED <<undoStack, redoStack, issued, editWaiters>>
    BY DEF SendRequest, historyVars, netVars, waitVars
  <1>7. [Next]_vars /\ Undos' = Undos
    BY <1>6 DEF Next, Undos
  <1> QED
    BY <1>5, <1>6, <1>7, KnownKept, QuietUndos, QuietHistory, QuietWaiters

LEMMA ReceiveRequestKnown ==
    ASSUME IInv, HistoryInv, KnownInv, NEW i \in DOMAIN requests, ReceiveRequest(i)
    PROVE  KnownInv'
  <1>1. requests' = [requests EXCEPT ![i].stage = "waiting"]
    BY DEF ReceiveRequest
  <1>2. /\ DOMAIN requests' = DOMAIN requests /\ requests'[i].stage = "waiting"
        /\ \A j \in DOMAIN requests : j # i => requests'[j] = requests[j]
    BY <1>1, RequestKeeps DEF HistoryInv, HistoryTypeOK
  <1>3. NewAnswersKnown
    BY <1>2 DEF NewAnswersKnown
  <1>4. UNCHANGED <<undoStack, redoStack, issued>>
    BY DEF ReceiveRequest, historyVars, netVars
  <1>5. WaitersKept
    <2>1. \/ editWaiters' = editWaiters
          \/ \E W : editWaiters' = [editWaiters EXCEPT ![LOCAL_REPLICA] = @ \cup W]
      <3>1. CASE editWaiters' = editWaiters
        BY <3>1
      <3>2. CASE editWaiters' = [editWaiters EXCEPT ![LOCAL_REPLICA] =
                     IF Observed(version[LOCAL_REPLICA], requests[i].anchor) THEN @
                     ELSE @ \cup {[request |-> i, edit |-> requests[i].anchor]}]
        <4>1. editWaiters' = [editWaiters EXCEPT ![LOCAL_REPLICA] = @ \cup
                     IF Observed(version[LOCAL_REPLICA], requests[i].anchor) THEN {}
                     ELSE {[request |-> i, edit |-> requests[i].anchor]}]
          BY <3>2
        <4> QED
          BY <4>1
      <3> QED
        BY <3>1, <3>2 DEF ReceiveRequest
    <2> QED
      BY <2>1 DEF KnownInv, WaitersKept
  <1>6. [Next]_vars /\ Undos' = Undos
    BY <1>4 DEF Next, RequestStep, Undos
  <1> QED
    BY <1>3, <1>4, <1>5, <1>6, KnownKept, QuietUndos, QuietHistory

LEMMA AnswerRequestKnown ==
    ASSUME IInv, HistoryInv, KnownInv, NEW i \in DOMAIN requests, AnswerRequest(i)
    PROVE  KnownInv'
  <1> DEFINE r == LOCAL_REPLICA
             t == EditTimestamp(r)
             us == Sealed(undoStack[r])
  <1>0. r \in Replicas
    BY ReplicasAssumption
  <1>1. Undos' = Undos
    BY <1>0, MadeEditObserved DEF AnswerRequest
  <1>2. undoStack[r] \in Seq(Transactions) /\ RequestsOK
    BY <1>0 DEF HistoryInv, HistoryTypeOK
  <1>3. EditsIn(us) = EditsIn(undoStack[r])
    BY <1>2, SealStack
  <1>4. /\ requests' = [requests EXCEPT ![i].stage = "answered", ![i].edits = {t}]
        /\ undoStack' = [undoStack EXCEPT ![r] = us]
        /\ redoStack' = [redoStack EXCEPT ![r] = <<>>]
        /\ UNCHANGED editWaiters
    BY DEF AnswerRequest, waitVars
  <1>5. t \in Timestamps
    BY <1>0, FreshTimestamps DEF IInv
  <1> HIDE DEF t, us, r
  <1>6. NewAnswersKnown
    <2> DEFINE E == {t}
    <2>1. E \in SUBSET Timestamps /\ requests' = [requests EXCEPT ![i].stage = "answered", ![i].edits = E]
      BY <1>4, <1>5
    <2> HIDE DEF E
    <2>2. /\ DOMAIN requests' = DOMAIN requests
          /\ requests'[i].stage = "answered"
          /\ \A j \in DOMAIN requests : j # i => requests'[j] = requests[j]
      BY <1>2, <2>1, RequestUpdate
    <2> QED
      BY <2>2 DEF NewAnswersKnown
  <1>7. NewHistoryKnown
    <2>1. EditsIn(us) \cup EditsIn(<<>>) \subseteq History[r]
      BY <1>0, <1>3, EmptyStack DEF History
    <2> QED
      BY <1>0, <1>4, <2>1, OneHistoryChanges
  <1>8. [Next]_vars
    BY DEF Next, RequestStep
  <1> QED
    BY <1>1, <1>4, <1>6, <1>7, <1>8, KnownKept, QuietUndos, QuietWaiters

(* No guest asks the host to format as it types.  One that does takes the  *)
(* edits into its history without having observed them (ReceiveAnswer), and *)
(* may undo them.                                                           *)
NoFormatting == "onTypeFormatting" \notin RequestKinds

(* The guest of a rename waits for the edits that it has not observed.      *)
LEMMA ReceiveAnswerKnown ==
    ASSUME NoFormatting, IInv, HistoryInv, KnownInv, NEW i \in DOMAIN requests, ReceiveAnswer(i)
    PROVE  KnownInv'
  <1> DEFINE r == requests[i].from
             E == requests[i].edits
             W == {[request |-> i, edit |-> e] : e \in {t \in E : ~Observed(version[r], t)}}
  <1>1. r \in Replicas /\ requests[i].kind \in RequestKinds
    BY RequestFacts DEF HistoryInv, HistoryTypeOK
  <1>2. requests' = [requests EXCEPT ![i].stage = "pushing"]
        /\ UNCHANGED <<undoStack, redoStack, issued, version>>
    BY DEF ReceiveAnswer, historyVars, netVars, clockVars
  <1>3. editWaiters' = [editWaiters EXCEPT ![r] = @ \cup W]
    BY <1>1 DEF ReceiveAnswer, NoFormatting
  <1>4. /\ DOMAIN requests' = DOMAIN requests
        /\ requests'[i].from = r /\ requests'[i].edits = E
        /\ \A j \in DOMAIN requests : j # i => requests'[j] = requests[j]
    BY <1>2, RequestKeeps DEF HistoryInv, HistoryTypeOK
  <1>5. W \subseteq editWaiters'[r]
    BY <1>1, <1>3 DEF KnownInv
  <1>6. WaitersKept
    <2> HIDE DEF W
    <2> QED
      BY <1>3 DEF WaitersKept, KnownInv
  <1>7. ASSUME NEW t \in E, ~Observed(version[r], t)
        PROVE  \E w \in editWaiters'[r] : w.request = i /\ w.edit = t
    <2>1. [request |-> i, edit |-> t] \in W
      BY <1>7
    <2>2. [request |-> i, edit |-> t].request = i /\ [request |-> i, edit |-> t].edit = t
      OBVIOUS
    <2> HIDE DEF W
    <2> QED
      BY <1>5, <2>1, <2>2
  <1> HIDE DEF W, r, E
  <1>8. NewAnswersKnown
    <2>1. version' = version
      BY <1>2
    <2>2. \A t \in requests'[i].edits :
              \/ Observed(version'[requests'[i].from], t)
              \/ \E w \in editWaiters'[requests'[i].from] : w.request = i /\ w.edit = t
      BY <1>4, <1>7, <2>1
    <2> QED
      BY <1>4, <2>2 DEF NewAnswersKnown
  <1>9. [Next]_vars /\ Undos' = Undos
    BY <1>2 DEF Next, RequestStep, Undos
  <1> QED
    BY <1>2, <1>6, <1>8, <1>9, KnownKept, QuietUndos, QuietHistory

(* The transaction is pushed when its edits have arrived.                   *)
LEMMA PushTransactionKnown ==
    ASSUME IInv, HistoryInv, KnownInv, NEW i \in DOMAIN requests, PushTransaction(i)
    PROVE  KnownInv'
  <1> DEFINE r == requests[i].from
             E == requests[i].edits
             top == Entry(E, TRUE)
             us == Append(undoStack[r], top)
  <1>1. r \in Replicas /\ E \in SUBSET Timestamps
    BY RequestFacts DEF HistoryInv, HistoryTypeOK
  <1>2. /\ requests[i].stage = "pushing" /\ NoWaiter(r, i)
        /\ requests' = [requests EXCEPT ![i].stage = "done"]
        /\ undoStack' = [undoStack EXCEPT ![r] = us]
        /\ UNCHANGED <<redoStack, issued, version, editWaiters>>
    BY DEF PushTransaction, netVars, clockVars, waitVars
  <1>3. \A t \in E : Observed(version'[r], t)
    BY <1>2 DEF KnownInv, AnswersKnown, Awaited, NoWaiter
  <1>4. undoStack[r] \in Seq(Transactions) /\ DOMAIN redoStack = Replicas
    BY <1>1 DEF HistoryInv, HistoryTypeOK
  <1>5. top \in Transactions /\ top.edits = E
    BY <1>1 DEF Entry, Transactions
  <1>6. /\ DOMAIN requests' = DOMAIN requests /\ requests'[i].stage = "done"
        /\ \A j \in DOMAIN requests : j # i => requests'[j] = requests[j]
    BY <1>2, RequestKeeps DEF HistoryInv, HistoryTypeOK
  <1> HIDE DEF r, E, top
  <1>7. EditsIn(us) = EditsIn(undoStack[r]) \cup E
    BY <1>4, <1>5, PushStack
  <1> HIDE DEF us
  <1>8. NewHistoryKnown
    <2>1. redoStack' = [redoStack EXCEPT ![r] = redoStack[r]]
      BY <1>1, <1>2, <1>4 DEF HistoryInv, HistoryTypeOK
    <2>2. \A t \in EditsIn(us) \cup EditsIn(redoStack[r]) : t \in History[r] \/ Observed(version'[r], t)
      BY <1>1, <1>3, <1>7 DEF History
    <2> QED
      BY <1>1, <1>2, <2>1, <2>2, OneHistoryChanges
  <1>9. NewAnswersKnown
    BY <1>6 DEF NewAnswersKnown
  <1>10. [Next]_vars /\ Undos' = Undos
    BY <1>2 DEF Next, RequestStep, Undos
  <1> QED
    BY <1>2, <1>8, <1>9, <1>10, KnownKept, QuietUndos, QuietWaiters

LEMMA KnownStep == NoFormatting /\ IInv /\ HistoryInv /\ KnownInv /\ [Next]_vars => KnownInv'
  <1> SUFFICES ASSUME NoFormatting, IInv, HistoryInv, KnownInv, [Next]_vars PROVE KnownInv'
    OBVIOUS
  <1>1. ASSUME UNCHANGED <<undoStack, redoStack, requests, issued, editWaiters>>
        PROVE  KnownInv'
    <2>1. Undos' = Undos
      BY <1>1 DEF Undos
    <2> QED
      BY <1>1, <2>1, KnownKept, QuietUndos, QuietHistory, QuietWaiters, QuietAnswers
  <1>2. ASSUME NEW r \in Replicas, Receive(r) PROVE KnownInv'
    BY <1>1, <1>2 DEF Receive, historyVars, waitVars
  <1>3. CASE UNCHANGED vars
    BY <1>1, <1>3 DEF vars, historyVars, waitVars, netVars
  <1>4. CASE Next
    <2>1. ASSUME NEW r \in Replicas,
                 Edit(r) \/ Undo(r) \/ Redo(r) \/ Receive(r) \/ ApplyStep(r) \/ SendRequest(r)
          PROVE  KnownInv'
      BY <1>2, <2>1, EditKnown, UndoKnown, RedoKnown, ApplyStepKnown, SendRequestKnown
    <2>2. ASSUME NEW i \in DOMAIN requests, RequestStep(i) PROVE KnownInv'
      BY <2>2, ReceiveRequestKnown, AnswerRequestKnown, ReceiveAnswerKnown, PushTransactionKnown
         DEF RequestStep
    <2> QED
      BY <1>4, <2>1, <2>2 DEF Next
  <1> QED
    BY <1>3, <1>4

-----------------------------------------------------------------------------
(* The flag of a character is what its insertion and its deletions, and the *)
(* undos of them, amount to.                                                *)

FlagsCurrent ==
    \A r \in Replicas : \A i \in DOMAIN fragments[r] :
        fragments[r][i].visible <=> IsVisible(fragments[r][i], undoMap[r])

LEMMA FlagsAreVisible ==
    ASSUME OrderInv, FlagsCurrent
    PROVE  VisibleIsCurrent
  <1>1. ASSUME NEW r \in Replicas, NEW i \in DOMAIN fragments[r]
        PROVE  fragments[r][i].visible = IsVisible(fragments[r][i], undoMap[r])
    <2>1. fragments[r][i] \in Characters
      BY TextFacts
    <2>2. fragments[r][i].visible \in BOOLEAN
      BY <2>1 DEF Characters
    <2>3. IsVisible(fragments[r][i], undoMap[r]) \in BOOLEAN
      BY DEF IsVisible
    <2>4. fragments[r][i].visible <=> IsVisible(fragments[r][i], undoMap[r])
      BY DEF FlagsCurrent
    <2> QED
      BY <2>2, <2>3, <2>4
  <1> QED
    BY <1>1 DEF VisibleIsCurrent, Range

(* An edit that is observed has not been undone before.                     *)
LEMMA FreshEdit ==
    ASSUME DeliveryTypeOK, Causality, HistoryInv, UndoMapExact, UndosKnow,
           NEW r \in Replicas, NEW op, Observes(r, op)
    PROVE  ~IsUndone(undoMap[r], op.timestamp)
  <1>1. ~Observed(version[r], op.timestamp)
    BY DEF Observes
  <1>2. ASSUME NEW u \in undoMap[r] PROVE u.edit # op.timestamp
    <2>1. PICK o \in Undos : Observed(version[r], o.timestamp) /\ u.edit \in DOMAIN o.counts
      BY EntryFacts
    <2>2. o \in issued /\ o.version \in [Replicas -> Nat]
      BY DEF Undos, DeliveryTypeOK
    <2>3. ObservedAll(version[r], o.version)
      BY <2>1, <2>2 DEF Causality, AppliedInOrder
    <2>4. Observed(o.version, u.edit)
      BY <2>1 DEF UndosKnow
    <2>5. u.edit \in EditTimestamps
      BY <2>1 DEF HistoryInv, UndoInv, OwnersToggle
    <2>6. u.edit \in Timestamps
      BY <2>5 DEF EditTimestamps, Edits, DeliveryTypeOK
    <2>7. Observed(version[r], u.edit)
      BY <2>2, <2>3, <2>4, <2>6, TransitiveVersion
    <2> QED
      BY <1>1, <2>7
  <1> QED
    BY <1>2, NeverCounted

LEMMA SpliceFlags ==
    ASSUME OrderInv, FlagsCurrent, NEW r \in Replicas, NEW op, NEW n, NEW p, NEW gone,
           SplicesEdit(r, op, n, p, gone), undoMap' = undoMap,
           ~IsUndone(undoMap[r], op.timestamp)
    PROVE  FlagsCurrent'
  <1> DEFINE F == fragments[r]
             G == fragments'[r]
             t == op.timestamp
             U == undoMap[r]
  <1>1. /\ F \in Seq(Characters) /\ G \in Seq(Characters) /\ p \in 0..Len(F) /\ t \in Timestamps
        /\ op.length \in Nat /\ G = Splice(F, p, t, op.length, gone)
        /\ \A s \in Replicas : s # r => fragments'[s] = fragments[s]
    BY SplicedText
  <1>2. \A i \in 1..Len(F) : F[i].visible <=> IsVisible(F[i], U)
    BY <1>1 DEF FlagsCurrent
  <1>3. DOMAIN G = 1..Len(G) /\ ~IsUndone(U, t)
    BY <1>1
  <1> HIDE DEF F, G, t, U
  <1>4. ASSUME NEW j \in 1..Len(G) PROVE G[j].visible <=> IsVisible(G[j], U)
    <2>1. CASE \E k \in 1..op.length : G[j] = Fragment(t, k)
      BY <1>3, <2>1 DEF Fragment, IsVisible
    <2>2. CASE \E i \in 1..Len(F) : G[j] = IF p < i /\ i \in gone THEN Struck(F[i], t) ELSE F[i]
      <3>1. PICK i \in 1..Len(F) : G[j] = IF p < i /\ i \in gone THEN Struck(F[i], t) ELSE F[i]
        BY <2>2
      <3>2. F[i] \in Characters
        BY <1>1
      <3>3. Struck(F[i], t).deletions = F[i].deletions \cup {t} /\ Struck(F[i], t).visible = FALSE
        BY <1>1, <3>2, StruckFacts
      <3>4. ~IsVisible(Struck(F[i], t), U)
        BY <1>3, <3>3 DEF IsVisible
      <3> QED
        BY <1>2, <3>1, <3>3, <3>4
    <2> QED
      BY SMTT(30), <1>1, <2>1, <2>2, SpliceOrigins
  <1>5. ASSUME NEW s \in Replicas, NEW j \in DOMAIN fragments'[s]
        PROVE  fragments'[s][j].visible <=> IsVisible(fragments'[s][j], undoMap'[s])
    <2>1. CASE s = r
      BY <1>3, <1>4, <1>5, <2>1 DEF G, U
    <2>2. CASE s # r
      BY <1>1, <1>5, <2>2 DEF FlagsCurrent
    <2> QED
      BY <2>1, <2>2
  <1> QED
    BY <1>5 DEF FlagsCurrent

LEMMA UndoFlags ==
    ASSUME OrderInv, FlagsCurrent, DOMAIN undoMap = Replicas, NEW r \in Replicas, NEW op,
           AppliedUndo(r, op)
    PROVE  FlagsCurrent'
  <1> DEFINE F == fragments[r]
             G == fragments'[r]
             U == undoMap[r]
             V == WithUndo(U, op)
  <1>1. /\ F \in Seq(Characters) /\ G \in Seq(Characters) /\ Len(G) = Len(F)
        /\ \A i \in 1..Len(F) :
               /\ SameCharacter(G[i], F[i])
               /\ G[i].deletions = F[i].deletions
               /\ G[i].visible = IF (F[i].deletions \cup {F[i].timestamp}) \cap DOMAIN op.counts # {}
                                 THEN IsVisible(F[i], V) ELSE F[i].visible
        /\ \A s \in Replicas : s # r => fragments'[s] = fragments[s]
    BY UndoneText
  <1>2. \A i \in 1..Len(F) : F[i].visible <=> IsVisible(F[i], U)
    BY <1>1 DEF FlagsCurrent
  <1>3. undoMap' = [undoMap EXCEPT ![r] = V]
    BY DEF AppliedUndo
  <1>4. \A s \in Replicas : undoMap'[s] = IF s = r THEN V ELSE undoMap[s]
    BY <1>3
  <1>5. \A t : t \notin DOMAIN op.counts => (IsUndone(V, t) <=> IsUndone(U, t))
    BY CountOfOthers DEF IsUndone
  <1>6. DOMAIN G = 1..Len(F)
    BY <1>1
  <1> HIDE DEF F, G, U, V
  <1>7. ASSUME NEW i \in 1..Len(F) PROVE G[i].visible <=> IsVisible(G[i], V)
    <2>1. IsVisible(G[i], V) <=> IsVisible(F[i], V)
      BY <1>1 DEF SameCharacter, IsVisible
    <2>2. CASE (F[i].deletions \cup {F[i].timestamp}) \cap DOMAIN op.counts # {}
      BY <1>1, <2>1, <2>2
    <2>3. CASE (F[i].deletions \cup {F[i].timestamp}) \cap DOMAIN op.counts = {}
      <3>1. F[i].timestamp \notin DOMAIN op.counts /\ \A d \in F[i].deletions : d \notin DOMAIN op.counts
        BY <2>3
      <3>2. IsVisible(F[i], V) <=> IsVisible(F[i], U)
        BY <1>5, <3>1 DEF IsVisible
      <3>3. G[i].visible = F[i].visible
        BY <1>1, <2>3
      <3> QED
        BY <1>2, <2>1, <3>2, <3>3
    <2> QED
      BY <2>2, <2>3
  <1>8. ASSUME NEW s \in Replicas, NEW j \in DOMAIN fragments'[s]
        PROVE  fragments'[s][j].visible <=> IsVisible(fragments'[s][j], undoMap'[s])
    <2>1. CASE s = r
      BY <1>4, <1>6, <1>7, <1>8, <2>1 DEF G
    <2>2. CASE s # r
      BY <1>1, <1>4, <1>8, <2>2 DEF FlagsCurrent
    <2> QED
      BY <2>1, <2>2
  <1> QED
    BY <1>8 DEF FlagsCurrent

LEMMA FlagsStep ==
    ASSUME DeliveryTypeOK, Causality, OrderInv, HistoryInv, UndoMapExact, UndosKnow, FlagsCurrent,
           [Next]_vars
    PROVE  FlagsCurrent'
  <1>1. CASE TextKept
    BY <1>1 DEF TextKept, FlagsCurrent
  <1>2. ASSUME NEW r \in Replicas, NEW op, LocalEdit(r, op) \/ RemoteEdit(r, op)
        PROVE  FlagsCurrent'
    <2>1. \E n, p, gone : SplicesEdit(r, op, n, p, gone)
      BY <1>2, LocalEditInserts, RemoteEditInserts
    <2>2. undoMap' = undoMap /\ Observes(r, op)
      BY <1>2 DEF LocalEdit, RemoteEdit
    <2>3. ~IsUndone(undoMap[r], op.timestamp)
      BY <2>2, FreshEdit
    <2> QED
      BY <2>1, <2>2, <2>3, SpliceFlags
  <1>3. ASSUME NEW r \in Replicas, NEW op, AppliedUndo(r, op)
        PROVE  FlagsCurrent'
    BY <1>3, UndoFlags DEF UndoMapExact
  <1> QED
    BY <1>1, <1>2, <1>3, TextSteps

-----------------------------------------------------------------------------
(* What an edit has deleted is what apply_remote_edit would delete if it    *)
(* were given the edit again, now, whatever was inserted, deleted or undone *)
(* since.                                                                   *)

DeletionsExact ==
    \A r \in Replicas, o \in Edits : Observed(version[r], o.timestamp) =>
        \A i \in DOMAIN fragments[r] :
            o.timestamp \in fragments[r][i].deletions
                <=> i \in RemoteGone(fragments[r], o, undoMap[r])

(* Whether a character was visible at a version depends on what that        *)
(* version knows.                                                           *)
LEMMA WasUndoneSame ==
    ASSUME NEW v, NEW U, NEW V, U \subseteq V, \A u \in V : u \notin U => ~Observed(v, u.undo), NEW t
    PROVE  WasUndone(U, t, v) <=> WasUndone(V, t, v)
  <1>1. {u \in U : u.edit = t /\ Observed(v, u.undo)} = {u \in V : u.edit = t /\ Observed(v, u.undo)}
    OBVIOUS
  <1> QED
    BY <1>1 DEF WasUndone

LEMMA WasVisibleSame ==
    ASSUME NEW f, NEW g, NEW v, NEW U, NEW V, SameCharacter(f, g),
           \A d : Observed(v, d) => (d \in f.deletions <=> d \in g.deletions),
           U \subseteq V, \A u \in V : u \notin U => ~Observed(v, u.undo)
    PROVE  WasVisible(f, v, U) <=> WasVisible(g, v, V)
  <1>1. \A t : WasUndone(U, t, v) <=> WasUndone(V, t, v)
    BY WasUndoneSame
  <1>2. f.timestamp = g.timestamp
    BY DEF SameCharacter
  <1> QED
    BY <1>1, <1>2 DEF WasVisible

LEMMA GoneSame ==
    ASSUME NEW F \in Seq(Characters), NEW G \in Seq(Characters), NEW i \in 1..Len(F),
           NEW j \in 1..Len(G), NEW o, NEW U, NEW V, SameCharacter(F[i], G[j]),
           \A d : Observed(o.version, d) => (d \in F[i].deletions <=> d \in G[j].deletions),
           U \subseteq V, \A u \in V : u \notin U => ~Observed(o.version, u.undo),
           FullOffset(G, o.version, j) = FullOffset(F, o.version, i)
    PROVE  i \in RemoteGone(F, o, U) <=> j \in RemoteGone(G, o, V)
  <1>1. WasVisible(F[i], o.version, U) <=> WasVisible(G[j], o.version, V)
    BY WasVisibleSame
  <1> QED
    BY <1>1 DEF RemoteGone

(* An insertion goes before all it deletes.                                 *)
LEMMA GoneAfterPlace ==
    ASSUME NEW F \in Seq(Characters), NEW o, o.version \in [Replicas -> Nat],
           o.timestamp \in Timestamps, o.start \in Nat,
           \A a \in Replicas : o.version[a] < o.timestamp.value,
           NEW n, NEW p, PlaceOK(F, o, n, p),
           NEW U, NEW i \in 1..Len(F), i \in RemoteGone(F, o, U)
    PROVE  p < i
  <1>1. /\ Observed(o.version, F[i].timestamp)
        /\ FullOffset(F, o.version, i) \in (o.start + 1)..o.end
    BY DEF RemoteGone, WasVisible
  <1>2. /\ n \in 0..Len(F) /\ FullOffset(F, o.version, n) = o.start
        /\ p \in n..Len(F)
        /\ \A k \in (n + 1)..p : Before(o.timestamp, F[k].timestamp)
    BY DEF PlaceOK, IsLanding
  <1>3. Len(F) \in Nat /\ n \in Nat /\ p \in Nat /\ i \in Nat
    BY <1>2
  <1>4. ~(i <= n)
    <2>1. FullOffset(F, o.version, i) \in Nat
      BY <1>3, OffsetFacts
    <2>2. FullOffset(F, o.version, i) > o.start
      BY <1>1, <2>1
    <2>3. i <= n => FullOffset(F, o.version, i) <= FullOffset(F, o.version, n)
      BY <1>3, OffsetGrows
    <2> QED
      BY <1>2, <2>1, <2>2, <2>3
  <1>5. ~(i \in (n + 1)..p)
    <2>0. F[i] \in Characters
      OBVIOUS
    <2>1. F[i].timestamp \in Timestamps
      BY <2>0 DEF Characters
    <2> DEFINE u == F[i].timestamp
    <2>2. u.replica \in Replicas /\ u.value \in Nat /\ o.timestamp.value \in Nat
      BY <2>1 DEF Timestamps
    <2>3. o.version[u.replica] >= u.value
      BY <1>1 DEF Observed
    <2>4. o.version[u.replica] < o.timestamp.value /\ o.version[u.replica] \in Nat
      BY <2>2
    <2>5. i \in (n + 1)..p => Before(o.timestamp, u)
      BY <1>2
    <2> HIDE DEF u
    <2> QED
      BY <2>2, <2>3, <2>4, <2>5 DEF Before
  <1> QED
    BY <1>3, <1>4, <1>5

LEMMA SpliceDeletions ==
    ASSUME DeliveryTypeOK, Causality, OrderInv, MarksKnown, DeletionsExact,
           NEW r \in Replicas, NEW op, NEW n, NEW p, NEW gone,
           SplicesEdit(r, op, n, p, gone), undoMap' = undoMap,
           \A a \in Replicas : op.version[a] < op.timestamp.value,
           \A i \in 1..Len(fragments[r]) : i \in gone <=> i \in RemoteGone(fragments[r], op, undoMap[r])
    PROVE  DeletionsExact'
  <1> DEFINE F == fragments[r]
             G == fragments'[r]
             t == op.timestamp
             U == undoMap[r]
  <1>1. /\ F \in Seq(Characters) /\ G \in Seq(Characters) /\ p \in 0..Len(F) /\ t \in Timestamps
        /\ op.length \in Nat /\ G = Splice(F, p, t, op.length, gone)
        /\ \A s \in Replicas : s # r => fragments'[s] = fragments[s]
        /\ Observes(r, op)
    BY SplicedText
  <1>2. /\ op.version \in [Replicas -> Nat] /\ op.start \in Nat
        /\ PlaceOK(F, op, n, p)
        /\ InsertedAt(F, G, p, t, op.length)
    BY DEF SplicesEdit, InsertsEdit
  <1>3. /\ \A o \in issued : Observed(version[r], o.timestamp) => ~Observed(o.version, t)
        /\ ~Observed(op.version, t)
    BY <1>1, <1>2, UnknownToEarlier
  <1>4. Distinct(F) /\ Distinct(G)
    <2>1. Distinct(F)
      BY TextFacts
    <2>2. InsertsEdit(r, op, n, p)
      BY DEF SplicesEdit
    <2>3. InOffsetOrder(G)
      BY <2>2, InsertCharacters DEF CharactersOK
    <2> QED
      BY <1>1, <2>1, <2>3, OffsetOrderDistinct
  <1>5. \A i \in 1..Len(F) : i \in gone => p < i
    <2>1. ASSUME NEW i \in 1..Len(F), i \in gone PROVE p < i
      <3>1. i \in RemoteGone(F, op, U)
        BY <2>1
      <3> HIDE DEF F, G, U
      <3> QED
        BY <1>1, <1>2, <2>1, <3>1, GoneAfterPlace DEF t
    <2> QED
      BY <2>1
  <1>6. \A i \in 1..Len(F) : t \notin F[i].deletions
    <2>1. \A i \in 1..Len(F) : \A d \in F[i].deletions : Observed(version[r], d)
      BY <1>1 DEF MarksKnown, KnownEdit
    <2>2. ~Observed(version[r], t)
      BY <1>1 DEF Observes
    <2> QED
      BY <2>1, <2>2
  <1>7. DOMAIN F = 1..Len(F) /\ DOMAIN G = 1..Len(G) /\ p \in Nat
    BY <1>1
  <1>8. \A i \in 1..Len(F) : i \in gone <=> i \in RemoteGone(F, op, U)
    OBVIOUS
  <1>9. \A o \in Edits : Observed(version[r], o.timestamp) =>
            /\ o \in issued /\ o.timestamp # t
            /\ \A i \in 1..Len(F) : o.timestamp \in F[i].deletions <=> i \in RemoteGone(F, o, U)
    <2>1. ~Observed(version[r], t)
      BY <1>1 DEF Observes
    <2> QED
      BY <1>7, <2>1 DEF DeletionsExact, Edits
  <1> HIDE DEF F, G, t, U
  (* What is inserted is not deleted, by anyone who did not know of it.     *)
  <1>10. ASSUME NEW o, ~Observed(o.version, t), NEW j \in 1..Len(G), NEW k, G[j] = Fragment(t, k)
         PROVE  o.timestamp \notin G[j].deletions /\ j \notin RemoteGone(G, o, U)
    BY <1>10 DEF Fragment, RemoteGone, WasVisible
  (* What is moved stays as it was for who did not know of the edit.        *)
  <1>11. ASSUME NEW o, ~Observed(o.version, t), NEW i \in 1..Len(F), NEW j \in 1..Len(G),
                j = Moved(p, op.length, i),
                G[j] = IF p < i /\ i \in gone THEN Struck(F[i], t) ELSE F[i]
         PROVE  /\ j \in RemoteGone(G, o, U) <=> i \in RemoteGone(F, o, U)
                /\ G[j].deletions = IF i \in gone THEN F[i].deletions \cup {t} ELSE F[i].deletions
    <2>1. F[i] \in Characters
      BY <1>1
    <2>2. Struck(F[i], t).deletions = F[i].deletions \cup {t} /\ SameCharacter(Struck(F[i], t), F[i])
      BY <1>1, <2>1, StruckFacts
    <2>3. G[j].deletions = IF i \in gone THEN F[i].deletions \cup {t} ELSE F[i].deletions
      BY <1>5, <1>11, <2>2
    <2>4. SameCharacter(F[i], G[j])
      BY <1>11, <2>2 DEF SameCharacter
    <2>5. \A d : Observed(o.version, d) => (d \in F[i].deletions <=> d \in G[j].deletions)
      BY <1>11, <2>3
    <2>6. FullOffset(G, o.version, j) = FullOffset(F, o.version, i)
      <3>1. i \in 0..Len(F)
        BY <1>1
      <3> QED
        BY <1>1, <1>2, <1>4, <1>11, <3>1, OffsetMoves
    <2>7. i \in RemoteGone(F, o, U) <=> j \in RemoteGone(G, o, U)
      BY SMTT(30), <1>1, <2>4, <2>5, <2>6, GoneSame
    <2> QED
      BY <2>3, <2>7
  <1>12. ASSUME NEW o \in Edits', Observed(version'[r], o.timestamp), NEW j \in 1..Len(G)
         PROVE  o.timestamp \in G[j].deletions <=> j \in RemoteGone(G, o, U)
    <2>1. \/ o \in Edits /\ Observed(version[r], o.timestamp)
          \/ o = op
      BY <1>1, <1>12, EditsAfter
    <2>2. ~Observed(o.version, t)
      BY <1>3, <1>9, <2>1
    <2>3. CASE \E k \in 1..op.length : G[j] = Fragment(t, k)
      BY <1>10, <2>2, <2>3
    <2>4. CASE \E i \in 1..Len(F) :
                   /\ j = Moved(p, op.length, i)
                   /\ G[j] = IF p < i /\ i \in gone THEN Struck(F[i], t) ELSE F[i]
      <3>1. PICK i \in 1..Len(F) :
                   /\ j = Moved(p, op.length, i)
                   /\ G[j] = IF p < i /\ i \in gone THEN Struck(F[i], t) ELSE F[i]
        BY <2>4
      <3>2. /\ j \in RemoteGone(G, o, U) <=> i \in RemoteGone(F, o, U)
            /\ G[j].deletions = IF i \in gone THEN F[i].deletions \cup {t} ELSE F[i].deletions
        BY <1>11, <2>2, <3>1
      <3>3. CASE o = op
        BY <1>6, <1>8, <3>2, <3>3 DEF t
      <3>4. CASE o \in Edits /\ Observed(version[r], o.timestamp)
        BY <1>9, <3>2, <3>4
      <3> QED
        BY <2>1, <3>3, <3>4
    <2> QED
      BY <1>1, <2>3, <2>4, SpliceOrigins
  <1>13. ASSUME NEW s \in Replicas, NEW o \in Edits', Observed(version'[s], o.timestamp),
                NEW j \in DOMAIN fragments'[s]
         PROVE  o.timestamp \in fragments'[s][j].deletions
                    <=> j \in RemoteGone(fragments'[s], o, undoMap'[s])
    <2>1. CASE s = r
      BY <1>7, <1>12, <1>13, <2>1 DEF G, U
    <2>2. CASE s # r
      <3>1. o \in Edits /\ Observed(version[s], o.timestamp)
        BY <1>1, <1>13, <2>2, EditsAfter
      <3>2. fragments'[s] = fragments[s]
        BY <1>1, <2>2
      <3> QED
        BY <1>13, <3>1, <3>2 DEF DeletionsExact
    <2> QED
      BY <2>1, <2>2
  <1> QED
    BY <1>13 DEF DeletionsExact

LEMMA UndoDeletions ==
    ASSUME DeliveryTypeOK, Causality, OrderInv, DOMAIN undoMap = Replicas, DeletionsExact,
           NEW r \in Replicas, NEW op, op.timestamp \in Timestamps, AppliedUndo(r, op)
    PROVE  DeletionsExact'
  <1> DEFINE F == fragments[r]
             G == fragments'[r]
             U == undoMap[r]
             V == WithUndo(U, op)
  <1>1. /\ F \in Seq(Characters) /\ G \in Seq(Characters) /\ Len(G) = Len(F)
        /\ \A i \in 1..Len(F) : SameCharacter(G[i], F[i]) /\ G[i].deletions = F[i].deletions
        /\ \A s \in Replicas : s # r => fragments'[s] = fragments[s]
        /\ Observes(r, op) /\ op.kind = "undo"
    BY UndoneText
  <1>2. undoMap' = [undoMap EXCEPT ![r] = V]
    BY DEF AppliedUndo
  <1>3. \A s \in Replicas : undoMap'[s] = IF s = r THEN V ELSE undoMap[s]
    BY <1>2
  <1>4. U \subseteq V /\ \A u \in V : u \notin U => u.undo = op.timestamp
    <2>1. V = U \cup EntriesOf(op)
      BY WithUndoEntries
    <2>2. \A u \in EntriesOf(op) : u.undo = op.timestamp
      BY DEF EntriesOf, UndoEntry
    <2> QED
      BY <2>1, <2>2
  <1>5. \A o \in issued : Observed(version[r], o.timestamp) => ~Observed(o.version, op.timestamp)
    BY <1>1, UnknownToEarlier
  <1>6. DOMAIN F = 1..Len(F) /\ DOMAIN G = 1..Len(F)
    BY <1>1
  <1>7. \A o \in Edits : Observed(version[r], o.timestamp) =>
            /\ o \in issued
            /\ \A i \in 1..Len(F) : o.timestamp \in F[i].deletions <=> i \in RemoteGone(F, o, U)
    BY <1>6 DEF DeletionsExact, Edits
  <1> HIDE DEF F, G, U, V
  <1>8. ASSUME NEW o \in Edits, Observed(version[r], o.timestamp), NEW i \in 1..Len(F)
        PROVE  o.timestamp \in G[i].deletions <=> i \in RemoteGone(G, o, V)
    <2>1. SameCharacter(F[i], G[i]) /\ G[i].deletions = F[i].deletions
      BY <1>1 DEF SameCharacter
    <2>2. FullOffset(G, o.version, i) = FullOffset(F, o.version, i)
      <3>1. \A k \in 1..i : G[k].timestamp = F[k].timestamp
        BY <1>1 DEF SameCharacter
      <3> QED
        BY <3>1 DEF FullOffset
    <2>3. \A u \in V : u \notin U => ~Observed(o.version, u.undo)
      BY <1>4, <1>5, <1>7, <1>8
    <2>4. i \in 1..Len(G)
      BY <1>1
    <2>5. i \in RemoteGone(F, o, U) <=> i \in RemoteGone(G, o, V)
      BY <1>1, <1>4, <2>1, <2>2, <2>3, <2>4, GoneSame
    <2> QED
      BY <1>7, <1>8, <2>1, <2>5
  <1>9. ASSUME NEW s \in Replicas, NEW o \in Edits', Observed(version'[s], o.timestamp),
               NEW j \in DOMAIN fragments'[s]
        PROVE  o.timestamp \in fragments'[s][j].deletions
                   <=> j \in RemoteGone(fragments'[s], o, undoMap'[s])
    <2>1. o \in Edits /\ Observed(version[s], o.timestamp)
      BY <1>1, <1>9, EditsAfter DEF Edits
    <2>2. CASE s = r
      BY <1>3, <1>6, <1>8, <1>9, <2>1, <2>2 DEF G
    <2>3. CASE s # r
      <3>1. fragments'[s] = fragments[s] /\ undoMap'[s] = undoMap[s]
        BY <1>1, <1>3, <2>3
      <3> QED
        BY <1>9, <2>1, <3>1 DEF DeletionsExact
    <2> QED
      BY <2>2, <2>3
  <1> QED
    BY <1>9 DEF DeletionsExact

-----------------------------------------------------------------------------
(* What the author of an edit deletes, which looks at what is visible to it *)
(* now, is what apply_remote_edit deletes by its version.                   *)

LEMMA CountOfAll ==
    ASSUME DeliveryTypeOK, Causality, OrderInv, NEW r \in Replicas,
           NEW i \in 1..Len(fragments[r])
    PROVE  FullOffset(fragments[r], version[r], i) = i
  <1>1. Len(fragments[r]) \in Nat
    BY TextFacts
  <1>2. \A k \in 1..Len(fragments[r]) : Observed(version[r], fragments[r][k].timestamp)
    BY AllObserved
  <1>3. {k \in 1..i : Observed(version[r], fragments[r][k].timestamp)} = 1..i
    BY <1>1, <1>2
  <1>4. Cardinality(1..i) = i
    <2>1. i \in Nat /\ i >= 1
      BY <1>1
    <2>2. Cardinality(1..i) = IF 1 > i THEN 0 ELSE i - 1 + 1
      BY <2>1, FS_Interval
    <2> QED
      BY <2>1, <2>2
  <1> QED
    BY <1>3, <1>4 DEF FullOffset

LEMMA VisibleToAuthor ==
    ASSUME DeliveryTypeOK, Causality, OrderInv, MarksKnown, UndoMapExact, FlagsCurrent,
           NEW r \in Replicas, NEW i \in 1..Len(fragments[r])
    PROVE  WasVisible(fragments[r][i], version[r], undoMap[r]) <=> fragments[r][i].visible
  <1> DEFINE f == fragments[r][i]
             U == undoMap[r]
             v == version[r]
  <1>1. Observed(v, f.timestamp)
    BY AllObserved
  <1>2. i \in DOMAIN fragments[r]
    BY TextFacts
  <1>3. \A d \in f.deletions : Observed(v, d)
    BY <1>2 DEF MarksKnown, KnownEdit
  <1>4. \A u \in U : Observed(v, u.undo)
    BY EntryFacts
  <1>5. f.visible <=> IsVisible(f, U)
    BY <1>2 DEF FlagsCurrent
  <1> HIDE DEF f, U, v
  <1>6. ASSUME NEW t PROVE WasUndone(U, t, v) <=> IsUndone(U, t)
    <2>1. {u \in U : u.edit = t /\ Observed(v, u.undo)} = {u \in U : u.edit = t}
      BY <1>4
    <2> QED
      BY <2>1 DEF WasUndone, IsUndone, UndoCount
  <1> QED
    BY <1>1, <1>3, <1>5, <1>6 DEF WasVisible, IsVisible, f, U, v

LEMMA VisibleOffsetGrows ==
    ASSUME NEW F, NEW m \in Nat, NEW n \in Nat, m <= n
    PROVE  /\ VisibleOffset(F, m) \in Nat /\ VisibleOffset(F, n) \in Nat
           /\ VisibleOffset(F, m) <= VisibleOffset(F, n)
           /\ m < n /\ F[n].visible => VisibleOffset(F, m) < VisibleOffset(F, n)
  <1> DEFINE S == {i \in Nat : F[i].visible}
  <1>1. ASSUME NEW k \in Nat PROVE VisibleOffset(F, k) = Upto(S, k)
    <2>1. {i \in 1..k : F[i].visible} = {i \in 1..k : i \in S}
      OBVIOUS
    <2> QED
      BY <2>1 DEF VisibleOffset, Upto
  <1>2. F[n].visible => n \in S
    OBVIOUS
  <1> HIDE DEF S
  <1>3. Upto(S, m) \in Nat /\ Upto(S, n) \in Nat
    BY UptoFacts
  <1>4. Upto(S, m) <= Upto(S, n) /\ (m < n /\ n \in S => Upto(S, m) < Upto(S, n))
    BY UptoGrows
  <1> QED
    BY <1>1, <1>2, <1>3, <1>4

LEMMA LocalEndFacts ==
    ASSUME NEW F, Len(F) \in Nat, NEW start \in 0..VisibleLength(F), NEW end
    PROVE  /\ LocalEnd(F, start, end) \in Nat
           /\ LocalPlace(F, start) <= LocalEnd(F, start, end)
           /\ \A i \in LocalGone(F, start, end) : i <= LocalEnd(F, start, end)
           /\ \/ LocalEnd(F, start, end) = LocalPlace(F, start)
              \/ LocalEnd(F, start, end) \in LocalGone(F, start, end)
  <1> DEFINE P == LocalPlace(F, start)
             D == LocalGone(F, start, end)
             S == {P} \cup D
  <1>1. P \in 0..Len(F)
    BY LocalPlaceType
  <1>2. D \subseteq 1..Len(F)
    BY DEF LocalGone
  <1> HIDE DEF P, D
  <1>3. S \in SUBSET Nat /\ S # {} /\ \A k \in S : k <= Len(F)
    BY <1>1, <1>2
  <1> HIDE DEF S
  <1>4. Max(S) \in S /\ \A k \in S : k <= Max(S)
    BY <1>3, MaxFacts
  <1>5. LocalEnd(F, start, end) = Max(S)
    BY DEF LocalEnd, S, P, D
  <1> QED
    BY <1>3, <1>4, <1>5 DEF S, P, D

LEMMA LocalRange ==
    ASSUME NEW F, Len(F) \in Nat, NEW start \in 0..VisibleLength(F), NEW end \in Nat,
           NEW i \in 1..Len(F), F[i].visible
    PROVE  VisibleOffset(F, i) \in (start + 1)..end
               <=> i \in (LocalPlace(F, start) + 1)..LocalEnd(F, start, end)
  <1> DEFINE P == LocalPlace(F, start)
             E == LocalEnd(F, start, end)
             D == LocalGone(F, start, end)
             O(k) == VisibleOffset(F, k)
  <1>1. P \in 0..Len(F) /\ O(P) = start
    BY LocalPlaceType
  <1>2. E \in Nat /\ P <= E /\ (\A k \in D : k <= E) /\ (E = P \/ E \in D)
    BY LocalEndFacts
  <1>3. i \in D <=> O(i) \in (start + 1)..end
    BY DEF LocalGone
  <1>4. E \in D => O(E) \in (start + 1)..end
    BY DEF LocalGone
  <1>5. start \in Nat
    <2>1. VisibleLength(F) \in Nat
      BY VisibleOffsetGrows DEF VisibleLength
    <2> QED
      BY <2>1
  <1> HIDE DEF P, E, D, O
  <1>6. i \in Nat /\ P \in Nat
    BY <1>1
  <1>7. O(i) \in Nat
    BY <1>6, VisibleOffsetGrows DEF O
  <1>8. P < i <=> start < O(i)
    <2>1. P < i => O(P) < O(i)
      BY <1>6, VisibleOffsetGrows DEF O
    <2>2. i <= P => O(i) <= O(P)
      BY <1>6, VisibleOffsetGrows DEF O
    <2> QED
      BY <1>1, <1>5, <1>6, <1>7, <2>1, <2>2
  <1>9. i <= E => O(i) <= O(E)
    BY <1>2, <1>6, VisibleOffsetGrows DEF O
  <1>10. O(E) \in Nat
    BY <1>2, VisibleOffsetGrows DEF O
  <1>11. ASSUME O(i) \in (start + 1)..end PROVE i \in (P + 1)..E
    BY <1>2, <1>3, <1>5, <1>6, <1>7, <1>8, <1>11
  <1>12. ASSUME i \in (P + 1)..E PROVE O(i) \in (start + 1)..end
    <2>1. E \in D /\ start < O(i) /\ O(i) <= O(E)
      BY <1>2, <1>6, <1>8, <1>9, <1>12
    <2> QED
      BY <1>4, <1>5, <1>7, <1>10, <2>1
  <1> QED
    BY <1>11, <1>12 DEF O, P, E

LEMMA LocalGoneIsRemote ==
    ASSUME DeliveryTypeOK, Causality, OrderInv, MarksKnown, UndoMapExact, FlagsCurrent,
           NEW r \in Replicas, NEW op, op.version = version[r],
           NEW start \in 0..VisibleLength(fragments[r]), NEW end \in start..VisibleLength(fragments[r]),
           op.start = LocalPlace(fragments[r], start), op.end = LocalEnd(fragments[r], start, end),
           NEW i \in 1..Len(fragments[r])
    PROVE  i \in LocalGone(fragments[r], start, end) <=> i \in RemoteGone(fragments[r], op, undoMap[r])
  <1> DEFINE F == fragments[r]
  <1>1. Len(F) \in Nat
    BY TextFacts
  <1>2. FullOffset(F, op.version, i) = i
    BY CountOfAll
  <1>3. WasVisible(F[i], op.version, undoMap[r]) <=> F[i].visible
    BY VisibleToAuthor
  <1>4. i \in RemoteGone(F, op, undoMap[r]) <=> F[i].visible /\ i \in (op.start + 1)..op.end
    BY <1>2, <1>3 DEF RemoteGone
  <1>5. i \in LocalGone(F, start, end) <=> F[i].visible /\ VisibleOffset(F, i) \in (start + 1)..end
    BY DEF LocalGone
  <1>6. end \in Nat
    <2>1. VisibleLength(F) \in Nat
      BY <1>1, VisibleOffsetGrows DEF VisibleLength
    <2> QED
      BY <2>1
  <1> HIDE DEF F
  <1>7. F[i].visible => (VisibleOffset(F, i) \in (start + 1)..end <=> i \in (op.start + 1)..op.end)
    BY <1>1, <1>6, LocalRange DEF F
  <1> QED
    BY <1>4, <1>5, <1>7 DEF F

LEMMA LocalDeletions ==
    ASSUME DeliveryTypeOK, Causality, OrderInv, MarksKnown, UndoMapExact, FlagsCurrent,
           DeletionsExact, NEW r \in Replicas, NEW op, LocalEdit(r, op)
    PROVE  DeletionsExact'
  <1> DEFINE F == fragments[r]
  <1>1. PICK start \in 0..VisibleLength(F) : \E end \in start..VisibleLength(F) :
               /\ op.start = LocalPlace(F, start)
               /\ op.end = LocalEnd(F, start, end)
               /\ SplicesEdit(r, op, LocalPlace(F, start), LocalPlace(F, start), LocalGone(F, start, end))
    BY LocalEditInserts
  <1>2. PICK end \in start..VisibleLength(F) :
               /\ op.start = LocalPlace(F, start)
               /\ op.end = LocalEnd(F, start, end)
               /\ SplicesEdit(r, op, LocalPlace(F, start), LocalPlace(F, start), LocalGone(F, start, end))
    BY <1>1
  <1>3. /\ undoMap' = undoMap /\ op.version = version[r]
        /\ op.timestamp = EditTimestamp(r)
    BY DEF LocalEdit
  <1>4. \A i \in 1..Len(F) : i \in LocalGone(F, start, end) <=> i \in RemoteGone(F, op, undoMap[r])
    BY <1>2, <1>3, LocalGoneIsRemote
  <1>5. \A a \in Replicas : op.version[a] < op.timestamp.value
    <2>1. op.timestamp.value = clock[r] + 1
      BY <1>3 DEF EditTimestamp, Timestamp
    <2>2. ASSUME NEW a \in Replicas PROVE version[r][a] < clock[r] + 1
      <3>1. version[r][a] < clock[r] /\ version[r][a] \in Nat /\ clock[r] \in Nat
        BY Numbers DEF Causality, AuthorsLead
      <3> QED
        BY <3>1
    <2> QED
      BY <1>3, <2>1, <2>2
  <1> QED
    BY <1>2, <1>3, <1>4, <1>5, SpliceDeletions

LEMMA RemoteDeletions ==
    ASSUME DeliveryTypeOK, Causality, OrderInv, MarksKnown, DeletionsExact,
           NEW r \in Replicas, NEW op, RemoteEdit(r, op)
    PROVE  DeletionsExact'
  <1>1. PICK n : SplicesEdit(r, op, n, RemotePlace(fragments[r], op), RemoteGone(fragments[r], op, undoMap[r]))
    BY RemoteEditInserts
  <1>2. undoMap' = undoMap /\ op \in issued
    BY DEF RemoteEdit
  <1>3. \A a \in Replicas : op.version[a] < op.timestamp.value
    BY <1>2 DEF Causality, AuthorsLead
  <1> QED
    BY <1>1, <1>2, <1>3, SpliceDeletions

LEMMA DeletionsStep ==
    ASSUME DeliveryTypeOK, Causality, OrderInv, MarksKnown, UndoMapExact, FlagsCurrent,
           DeletionsExact, [Next]_vars
    PROVE  DeletionsExact'
  <1>1. CASE TextKept
    BY <1>1 DEF TextKept, DeletionsExact, Edits
  <1>2. ASSUME NEW r \in Replicas, NEW op, LocalEdit(r, op)
        PROVE  DeletionsExact'
    BY <1>2, LocalDeletions
  <1>3. ASSUME NEW r \in Replicas, NEW op, RemoteEdit(r, op)
        PROVE  DeletionsExact'
    BY <1>3, RemoteDeletions
  <1>4. ASSUME NEW r \in Replicas, NEW op, AppliedUndo(r, op)
        PROVE  DeletionsExact'
    <2>1. op \in issued'
      BY <1>4 DEF AppliedUndo, Observes
    <2>2. DeliveryTypeOK'
      BY TypeStep
    <2>3. op.timestamp \in Timestamps
      BY <2>1, <2>2 DEF DeliveryTypeOK
    <2> QED
      BY <1>4, <2>3, UndoDeletions DEF UndoMapExact
  <1> QED
    BY <1>1, <1>2, <1>3, <1>4, TextSteps

-----------------------------------------------------------------------------
(* The inductive invariant.                                                 *)

ConvergenceInv == KnownInv /\ UndoMapExact /\ MarksKnown /\ FlagsCurrent /\ DeletionsExact

LEMMA ConvergenceInit == Init => ConvergenceInv
  <1> SUFFICES ASSUME Init PROVE ConvergenceInv
    OBVIOUS
  <1>1. /\ issued = {} /\ Edits = {} /\ Undos = {} /\ requests = <<>>
        /\ undoMap = [r \in Replicas |-> {}]
        /\ undoStack = [r \in Replicas |-> <<>>] /\ redoStack = [r \in Replicas |-> <<>>]
        /\ DOMAIN editWaiters = Replicas
        /\ fragments = [r \in Replicas |-> Insertion(BaseTimestamp, BaseLength)]
    BY DEF Init, Edits, Undos
  <1>2. KnownInv
    <2>1. UndosKnow
      BY <1>1 DEF UndosKnow
    <2>2. HistoryKnown
      <3>1. \A r \in Replicas : History[r] = {}
        BY <1>1, EmptyStack DEF History
      <3> QED
        BY <3>1 DEF HistoryKnown
    <2>3. AnswersKnown
      BY <1>1 DEF AnswersKnown
    <2> QED
      BY <1>1, <2>1, <2>2, <2>3 DEF KnownInv
  <1>3. UndoMapExact
    <2>1. \A r \in Replicas : ObservedUndos(r) = {}
      BY <1>1 DEF ObservedUndos
    <2>2. \A r \in Replicas : UNION {EntriesOf(o) : o \in ObservedUndos(r)} = {}
      BY <2>1
    <2> QED
      BY <1>1, <2>2 DEF UndoMapExact
  <1>4. ASSUME NEW r \in Replicas, NEW i \in DOMAIN fragments[r]
        PROVE  /\ fragments[r][i].deletions = {} /\ fragments[r][i].visible
    BY <1>1 DEF Insertion, Fragment
  <1>5. MarksKnown
    BY <1>4 DEF MarksKnown
  <1>6. FlagsCurrent
    <2>1. ASSUME NEW r \in Replicas, NEW i \in DOMAIN fragments[r]
          PROVE  ~IsUndone(undoMap[r], fragments[r][i].timestamp)
      <3>1. undoMap[r] = {}
        BY <1>1
      <3> QED
        BY <3>1, NeverCounted
    <2> QED
      BY <1>4, <2>1 DEF FlagsCurrent, IsVisible
  <1>7. DeletionsExact
    BY <1>1 DEF DeletionsExact
  <1> QED
    BY <1>2, <1>3, <1>5, <1>6, <1>7 DEF ConvergenceInv

LEMMA ConvergenceStep ==
    NoFormatting /\ IInv /\ HistoryInv /\ OrderInv /\ ConvergenceInv /\ [Next]_vars => ConvergenceInv'
  <1> SUFFICES ASSUME NoFormatting, IInv, HistoryInv, OrderInv, ConvergenceInv, [Next]_vars
               PROVE  ConvergenceInv'
    OBVIOUS
  <1>1. DeliveryTypeOK /\ Causality
    BY DEF IInv
  <1>2. KnownInv /\ UndosKnow /\ UndoMapExact /\ MarksKnown /\ FlagsCurrent /\ DeletionsExact
    BY DEF ConvergenceInv, KnownInv
  <1>3. KnownInv'
    BY <1>2, KnownStep
  <1>4. UndoMapExact'
    BY <1>1, <1>2, UndoMapStep
  <1>5. MarksKnown'
    BY <1>1, <1>2, MarksStep
  <1>6. FlagsCurrent'
    BY <1>1, <1>2, FlagsStep
  <1>7. DeletionsExact'
    BY <1>1, <1>2, DeletionsStep
  <1> QED
    BY <1>3, <1>4, <1>5, <1>6, <1>7 DEF ConvergenceInv

LEMMA ConvergenceInvariance == NoFormatting => (Spec => []ConvergenceInv)
  <1> SUFFICES ASSUME NoFormatting PROVE Spec => []ConvergenceInv
    OBVIOUS
  <1>1. IInv /\ HistoryInv /\ OrderInv /\ ConvergenceInv /\ [Next]_vars => ConvergenceInv'
    BY ConvergenceStep
  <1> QED
    BY <1>1, ConvergenceInit, Invariance, HistoryInvariance, OrderInvariance, PTL DEF Spec

-----------------------------------------------------------------------------
(* Two replicas that have observed the same operations.                     *)

LEMMA SameUndos ==
    ASSUME UndoMapExact, NEW r \in Replicas, NEW s \in Replicas, version[r] = version[s]
    PROVE  undoMap[r] = undoMap[s]
  <1>1. ObservedUndos(r) = ObservedUndos(s)
    BY DEF ObservedUndos
  <1> QED
    BY <1>1 DEF UndoMapExact

LEMMA SameCharacters ==
    ASSUME DeliveryTypeOK, Causality, OrderInv, NEW r \in Replicas, NEW s \in Replicas,
           version[r] = version[s], NEW i \in 1..Len(fragments[r])
    PROVE  /\ i \in 1..Len(fragments[s])
           /\ SameCharacter(fragments[r][i], fragments[s][i])
  <1>1. /\ version[r] \in [Replicas -> Nat]
        /\ ObservedAll(version[r], version[r]) /\ ObservedAll(version[s], version[r])
    BY ReflexiveVersion DEF DeliveryTypeOK
  <1>2. Observed(version[r], fragments[r][i].timestamp)
    BY AllObserved
  <1>3. PICK k \in 1..Len(fragments[s]) : SameCharacter(fragments[r][i], fragments[s][k])
    BY <1>1, <1>2, HeldByBoth
  <1>4. FullOffset(fragments[r], version[r], i) = FullOffset(fragments[s], version[r], k)
    BY <1>1, <1>3, CountsAgree
  <1>5. FullOffset(fragments[r], version[r], i) = i /\ FullOffset(fragments[s], version[s], k) = k
    BY CountOfAll
  <1> QED
    BY <1>3, <1>4, <1>5

LEMMA SameLength ==
    ASSUME DeliveryTypeOK, Causality, OrderInv, NEW r \in Replicas, NEW s \in Replicas,
           version[r] = version[s]
    PROVE  Len(fragments[r]) = Len(fragments[s])
  <1>1. Len(fragments[r]) \in Nat /\ Len(fragments[s]) \in Nat
    BY TextFacts
  <1>2. \A i \in 1..Len(fragments[r]) : i \in 1..Len(fragments[s])
    BY SameCharacters
  <1>3. \A i \in 1..Len(fragments[s]) : i \in 1..Len(fragments[r])
    BY SameCharacters
  <1> QED
    BY <1>1, <1>2, <1>3

(* A deletion that only one of them has made would be of an edit; take the  *)
(* earliest such edit.  What it had to look at, which is what its author    *)
(* knew, is the same at both, and so is what it has deleted.                *)
LEMMA SameDeletions ==
    ASSUME DeliveryTypeOK, Causality, OrderInv, UndoMapExact, MarksKnown, DeletionsExact,
           NEW r \in Replicas, NEW s \in Replicas, version[r] = version[s]
    PROVE  \A i \in 1..Len(fragments[r]) : fragments[r][i].deletions = fragments[s][i].deletions
  <1> DEFINE F == fragments[r]
             G == fragments[s]
             Differ(i, d) == ~(d \in F[i].deletions <=> d \in G[i].deletions)
             Wrong == {o \in Edits : Observed(version[r], o.timestamp) /\ \E i \in 1..Len(F) : Differ(i, o.timestamp)}
             Values == {o.timestamp.value : o \in Wrong}
  <1>1. /\ F \in Seq(Characters) /\ G \in Seq(Characters)
        /\ DOMAIN F = 1..Len(F) /\ DOMAIN G = 1..Len(F) /\ Len(G) = Len(F)
    BY TextFacts, SameLength
  <1>2. \A i \in 1..Len(F) : SameCharacter(F[i], G[i])
    BY SameCharacters
  <1>3. undoMap[r] = undoMap[s]
    BY SameUndos
  <1>4. ASSUME NEW i \in 1..Len(F), NEW d, Differ(i, d)
        PROVE  \E o \in Wrong : o.timestamp = d
    <2>1. KnownEdit(r, d) \/ KnownEdit(s, d)
      BY <1>1, <1>4 DEF MarksKnown
    <2>2. PICK o \in Edits : o.timestamp = d /\ Observed(version[r], d)
      BY <2>1 DEF KnownEdit
    <2> QED
      BY <1>4, <2>2
  <1>5. ASSUME NEW o \in Wrong, \A q \in Wrong : o.timestamp.value <= q.timestamp.value
        PROVE  FALSE
    <2>1. o \in Edits /\ Observed(version[r], o.timestamp) /\ Observed(version[s], o.timestamp)
      OBVIOUS
    <2>2. PICK i \in 1..Len(F) : Differ(i, o.timestamp)
      OBVIOUS
    <2>3. /\ o \in issued /\ o.version \in [Replicas -> Nat] /\ o.timestamp \in Timestamps
          /\ ObservedAll(version[r], o.version) /\ ObservedAll(version[s], o.version)
      BY <2>1, IssuedFacts
    <2>4. ASSUME NEW d, Observed(o.version, d), Differ(i, d) PROVE FALSE
      <3>1. PICK q \in Wrong : q.timestamp = d
        BY <1>4, <2>4
      <3>2. q \in Edits /\ q \in issued
        BY DEF Edits
      <3>3. d \in Timestamps /\ d.replica \in Replicas /\ d.value \in Nat
        BY <3>1, <3>2, Numbers
      <3>4. o.version[d.replica] < o.timestamp.value /\ o.version[d.replica] \in Nat
            /\ o.timestamp.value \in Nat
        BY <2>3, <3>3, Numbers DEF Causality, AuthorsLead
      <3>5. o.version[d.replica] >= d.value
        BY <2>4 DEF Observed
      <3>6. o.timestamp.value <= d.value
        BY <1>5, <3>1
      <3> HIDE DEF Differ, Wrong
      <3> QED
        BY <3>3, <3>4, <3>5, <3>6
    <2>5. \A d : Observed(o.version, d) => (d \in F[i].deletions <=> d \in G[i].deletions)
      BY <2>4
    <2>6. FullOffset(G, o.version, i) = FullOffset(F, o.version, i)
      BY <1>1, <1>2, <2>3, CountsAgree
    <2>7. i \in RemoteGone(F, o, undoMap[r]) <=> i \in RemoteGone(G, o, undoMap[s])
      <3>1. \A u \in undoMap[s] : u \notin undoMap[r] => ~Observed(o.version, u.undo)
        BY <1>3
      <3>2. i \in 1..Len(G) /\ undoMap[r] \subseteq undoMap[s] /\ SameCharacter(F[i], G[i])
        BY <1>1, <1>2, <1>3
      <3> HIDE DEF F, G, Differ, Wrong, Values
      <3> QED
        BY <1>1, <2>5, <2>6, <3>1, <3>2, GoneSame
    <2>8. /\ o.timestamp \in F[i].deletions <=> i \in RemoteGone(F, o, undoMap[r])
          /\ o.timestamp \in G[i].deletions <=> i \in RemoteGone(G, o, undoMap[s])
      BY <1>1, <2>1 DEF DeletionsExact
    <2> QED
      BY <2>2, <2>7, <2>8
  <1>6. Values \in SUBSET Nat
    <2>1. \A o \in Wrong : o \in issued
      BY DEF Edits
    <2>2. \A o \in Wrong : o.timestamp.value \in Nat
      BY <2>1, Numbers
    <2> HIDE DEF Wrong
    <2> QED
      BY <2>2
  <1>7. Wrong = {}
    <2>1. ASSUME NEW p \in Wrong PROVE FALSE
      <3>1. Values # {}
        BY <2>1
      <3>2. \E m \in Values : \A n \in Values : m <= n
        <4> HIDE DEF Values
        <4> QED
          BY <1>6, <3>1, LeastNatural
      <3>3. PICK o \in Wrong : \A q \in Wrong : o.timestamp.value <= q.timestamp.value
        <4> HIDE DEF Wrong
        <4> QED
          BY <3>2
      <3> HIDE DEF Wrong
      <3> QED
        BY <1>5, <3>3
    <2> HIDE DEF Wrong
    <2> QED
      BY <2>1
  <1> HIDE DEF Wrong
  <1>8. \A i \in 1..Len(F) : \A d : ~Differ(i, d)
    BY <1>4, <1>7
  <1>9. ASSUME NEW i \in 1..Len(F) PROVE F[i].deletions = G[i].deletions
    BY <1>8
  <1> QED
    BY <1>9

LEMMA SameVersionText ==
    ASSUME DeliveryTypeOK, Causality, OrderInv, ConvergenceInv,
           NEW r \in Replicas, NEW s \in Replicas, version[r] = version[s]
    PROVE  fragments[r] = fragments[s]
  <1> DEFINE F == fragments[r]
             G == fragments[s]
             U == undoMap[r]
  <1>1. UndoMapExact /\ MarksKnown /\ FlagsCurrent /\ DeletionsExact
    BY DEF ConvergenceInv
  <1>2. /\ F \in Seq(Characters) /\ G \in Seq(Characters)
        /\ DOMAIN F = 1..Len(F) /\ DOMAIN G = 1..Len(F) /\ Len(G) = Len(F)
    BY TextFacts, SameLength
  <1>3. \A i \in 1..Len(F) : SameCharacter(F[i], G[i]) /\ F[i].deletions = G[i].deletions
    BY <1>1, SameCharacters, SameDeletions
  <1>4. \A i \in 1..Len(F) : (F[i].visible <=> IsVisible(F[i], U)) /\ (G[i].visible <=> IsVisible(G[i], U))
    BY <1>1, <1>2, SameUndos DEF FlagsCurrent
  <1> HIDE DEF F, G, U
  <1>5. ASSUME NEW i \in 1..Len(F) PROVE F[i] = G[i]
    <2>1. F[i] \in Characters /\ G[i] \in Characters
      BY <1>2
    <2>2. F[i].timestamp = G[i].timestamp /\ F[i].offset = G[i].offset /\ F[i].deletions = G[i].deletions
      BY <1>3 DEF SameCharacter
    <2>3. F[i].visible <=> G[i].visible
      BY <1>4, <2>2 DEF IsVisible
    <2>4. F[i].visible = G[i].visible
      BY <2>1, <2>3 DEF Characters
    <2> QED
      BY <2>1, <2>2, <2>4 DEF Characters
  <1>6. F = G
    BY <1>2, <1>5
  <1> QED
    BY <1>6 DEF F, G

-----------------------------------------------------------------------------
(* Who waits, waits for something that exists and has not come.             *)

Reached(v) == v \in [Replicas -> Nat] /\ \A a \in Replicas : v[a] <= version[a][a]

AnchorNamed(t) == t \in EditTimestamps \/ (t = BaseTimestamp /\ BaseLength > 0)

WaitersNamed ==
    /\ DOMAIN versionWaiters = Replicas /\ DOMAIN editWaiters = Replicas
    /\ \A r \in Replicas : /\ \A w \in versionWaiters[r] : Reached(w.version)
                          /\ \A w \in editWaiters[r] : w.edit \in EditTimestamps

RequestsNamed ==
    \A i \in DOMAIN requests : Reached(requests[i].version) /\ AnchorNamed(requests[i].anchor)

WaitInv == WaitersNamed /\ RequestsNamed /\ WaitersWait

LEMMA EditTimestampsGrow ==
    ASSUME DeliveryTypeOK, Causality, [Next]_vars
    PROVE  EditTimestamps \subseteq EditTimestamps'
  <1>1. issued \subseteq issued'
    BY TextSteps DEF TextKept, LocalEdit, RemoteEdit, AppliedUndo, Observes
  <1> QED
    BY <1>1 DEF EditTimestamps, Edits

LEMMA AuthorsGrow ==
    ASSUME DeliveryTypeOK, Causality, [Next]_vars, NEW a \in Replicas
    PROVE  version[a][a] \in Nat /\ version'[a][a] \in Nat /\ version[a][a] <= version'[a][a]
  <1>1. version'[a][a] \in Nat /\ version[a][a] \in Nat
    BY TypeStep, Numbers DEF DeliveryTypeOK
  <1>2. CASE version' = version
    BY <1>1, <1>2
  <1>3. ASSUME NEW r \in Replicas, NEW op, IssueOf(r, op)
        PROVE  version[a][a] <= version'[a][a]
    <2>1. version[r][r] < clock[r] /\ version[r][r] \in Nat /\ clock[r] \in Nat
      BY Numbers DEF Causality, AuthorsLead
    <2> QED
      BY <1>1, <1>3, <2>1, IssueNumbers DEF Causality
  <1>4. ASSUME NEW r \in Replicas, Receive(r)
        PROVE  version' = version
    BY <1>4, ReceiveAfter DEF clockVars
  <1>5. ASSUME NEW r \in Replicas, ApplyStep(r)
        PROVE  version[a][a] <= version'[a][a]
    <2>1. CASE UNCHANGED clockVars
      BY <1>2, <2>1 DEF clockVars
    <2>2. ASSUME NEW op \in issued, AppliesOf(r, op)
          PROVE  version[a][a] <= version'[a][a]
      BY <1>1, <2>2, ApplyNumbers, Numbers DEF Causality
    <2> QED
      BY <1>5, <2>1, <2>2, CallApplies
  <1> QED
    BY <1>1, <1>2, <1>3, <1>4, <1>5, Steps DEF deliveryVars, clockVars

LEMMA ReachedStays ==
    ASSUME DeliveryTypeOK, Causality, [Next]_vars, NEW v, Reached(v)
    PROVE  Reached(v)'
  <1>1. ASSUME NEW a \in Replicas PROVE v[a] <= version'[a][a]
    <2>1. v[a] \in Nat /\ v[a] <= version[a][a]
      BY DEF Reached
    <2>2. version[a][a] \in Nat /\ version'[a][a] \in Nat /\ version[a][a] <= version'[a][a]
      BY AuthorsGrow
    <2> QED
      BY <2>1, <2>2
  <1> QED
    BY <1>1 DEF Reached

(* New and changed requests name what exists.                               *)
LEMMA RequestsStayNamed ==
    ASSUME DeliveryTypeOK, Causality, RequestsNamed, [Next]_vars,
           \A i \in DOMAIN requests' :
               \/ /\ i \in DOMAIN requests
                  /\ requests'[i].version = requests[i].version
                  /\ requests'[i].anchor = requests[i].anchor
               \/ Reached(requests'[i].version) /\ AnchorNamed(requests'[i].anchor)
    PROVE  RequestsNamed'
  <1>1. ASSUME NEW i \in DOMAIN requests'
        PROVE  Reached(requests[i].version)' /\ AnchorNamed(requests[i].anchor)'
    <2> DEFINE v == requests'[i].version
               t == requests'[i].anchor
    <2>1. Reached(v) /\ AnchorNamed(t)
      BY DEF RequestsNamed
    <2>2. PICK w : w = v
      OBVIOUS
    <2>3. Reached(w)'
      <3>1. Reached(w)
        BY <2>1, <2>2
      <3> QED
        BY <3>1, ReachedStays
    <2>4. AnchorNamed(requests[i].anchor)'
      BY <2>1, EditTimestampsGrow DEF AnchorNamed
    <2> QED
      BY <2>2, <2>3, <2>4 DEF Reached
  <1> QED
    BY <1>1 DEF RequestsNamed

(* Waiters come and go while nothing is observed.                           *)
LEMMA WaitersComeAndGo ==
    ASSUME DeliveryTypeOK, Causality, WaitersNamed, WaitersWait, [Next]_vars, version' = version,
           DOMAIN versionWaiters' = Replicas, DOMAIN editWaiters' = Replicas,
           \A r \in Replicas : \A w \in versionWaiters'[r] :
               \/ w \in versionWaiters[r]
               \/ Reached(w.version) /\ ~ObservedAll(version[r], w.version),
           \A r \in Replicas : \A w \in editWaiters'[r] :
               \/ w \in editWaiters[r]
               \/ w.edit \in EditTimestamps /\ ~Observed(version[r], w.edit)
    PROVE  WaitersNamed' /\ WaitersWait'
  <1>1. ASSUME NEW r \in Replicas, NEW w \in versionWaiters'[r]
        PROVE  Reached(w.version)' /\ ~ObservedAll(version[r], w.version)
    <2>1. Reached(w.version) /\ ~ObservedAll(version[r], w.version)
      BY DEF WaitersNamed, WaitersWait
    <2> QED
      BY <2>1, ReachedStays
  <1>2. ASSUME NEW r \in Replicas, NEW w \in editWaiters'[r]
        PROVE  w.edit \in EditTimestamps' /\ ~Observed(version[r], w.edit)
    BY EditTimestampsGrow DEF WaitersNamed, WaitersWait
  <1>3. WaitersNamed'
    BY <1>1, <1>2 DEF WaitersNamed
  <1>4. WaitersWait'
    BY <1>1, <1>2 DEF WaitersWait
  <1> QED
    BY <1>3, <1>4

(* A replica's own operations are nothing that it waits for.                *)
LEMMA IssueWaiters ==
    ASSUME DeliveryTypeOK, Causality, WaitersNamed, WaitersWait, [Next]_vars,
           NEW r \in Replicas, NEW op, IssueOf(r, op), UNCHANGED waitVars
    PROVE  WaitersNamed' /\ WaitersWait'
  <1>1. Observes(r, op) /\ op \notin issued
    BY IssueObserves
  <1>2. versionWaiters' = versionWaiters /\ editWaiters' = editWaiters
    BY DEF waitVars
  <1>3. ASSUME NEW s \in Replicas, NEW w \in versionWaiters[s]
        PROVE  Reached(w.version)' /\ ~ObservedAll(version'[s], w.version)
    <2>1. Reached(w.version) /\ ~ObservedAll(version[s], w.version)
      BY DEF WaitersNamed, WaitersWait
    <2>2. DOMAIN w.version = Replicas
      BY <2>1 DEF Reached
    <2>3. PICK a \in Replicas : ~(version[s][a] >= w.version[a])
      BY <2>1, <2>2 DEF ObservedAll
    <2>4. ~(s = r /\ a = r)
      BY <2>1, <2>3, Numbers DEF Reached
    <2>5. version'[s][a] = version[s][a]
      BY <2>4, IssueNumbers DEF Causality
    <2>6. ~ObservedAll(version'[s], w.version)
      BY <2>2, <2>3, <2>5 DEF ObservedAll
    <2> QED
      BY <2>1, <2>6, ReachedStays
  <1>4. ASSUME NEW s \in Replicas, NEW w \in editWaiters[s]
        PROVE  w.edit \in EditTimestamps' /\ ~Observed(version'[s], w.edit)
    <2>1. w.edit \in EditTimestamps /\ ~Observed(version[s], w.edit)
      BY DEF WaitersNamed, WaitersWait
    <2>2. PICK o \in issued : o.timestamp = w.edit
      BY <2>1 DEF EditTimestamps, Edits
    <2>3. ~Observed(version'[s], o.timestamp)
      BY <1>1, <2>1, <2>2 DEF Observes
    <2> QED
      BY <2>1, <2>2, <2>3, EditTimestampsGrow
  <1>5. WaitersNamed'
    BY <1>2, <1>3, <1>4 DEF WaitersNamed
  <1>6. WaitersWait'
    BY <1>2, <1>3, <1>4 DEF WaitersWait
  <1> QED
    BY <1>5, <1>6

(* apply_op wakes those who waited for what it has observed.                *)
LEMMA ApplyWakes ==
    ASSUME DeliveryTypeOK, Causality, WaitersNamed, WaitersWait, [Next]_vars, UNCHANGED issued,
           NEW r \in Replicas, NEW op \in issued, Apply(r, op), ObservedAll(version[r], op.version)
    PROVE  WaitersNamed' /\ WaitersWait'
  <1>1. /\ DOMAIN versionWaiters = Replicas /\ DOMAIN editWaiters = Replicas
        /\ versionWaiters' = [versionWaiters EXCEPT ![r] = {w \in @ : ~ObservedAll(version'[r], w.version)}]
    BY DEF Apply, WaitersNamed
  <1>2. CASE Observed(version[r], op.timestamp)
    <2>1. version' = version /\ editWaiters' = editWaiters
      BY <1>2 DEF Apply, clockVars
    <2>2. \A s \in Replicas : \A w \in versionWaiters'[s] : w \in versionWaiters[s]
      BY <1>1
    <2>3. DOMAIN versionWaiters' = Replicas
      BY <1>1
    <2> QED
      BY <1>1, <2>1, <2>2, <2>3, WaitersComeAndGo
  <1>3. CASE ~Observed(version[r], op.timestamp)
    <2>1. Observes(r, op)
      BY <1>3, ApplyEffect, ApplyObserves
    <2>2. \A s \in Replicas : s # r => version'[s] = version[s]
      <3>1. version' = [version EXCEPT ![r] = Observe(@, op.timestamp)]
        BY <1>3 DEF Apply
      <3> QED
        BY <3>1 DEF DeliveryTypeOK
    <2>3. ASSUME NEW s \in Replicas, NEW w \in versionWaiters'[s]
          PROVE  Reached(w.version)' /\ ~ObservedAll(version'[s], w.version)
      <3>1. w \in versionWaiters[s] /\ (s = r => ~ObservedAll(version'[r], w.version))
        BY <1>1
      <3>2. Reached(w.version) /\ ~ObservedAll(version[s], w.version)
        BY <3>1 DEF WaitersNamed, WaitersWait
      <3>3. s # r => ~ObservedAll(version'[s], w.version)
        BY <2>2, <3>2
      <3> QED
        BY <3>1, <3>2, <3>3, ReachedStays
    <2>4. \/ /\ op.kind = "edit"
             /\ editWaiters' = [editWaiters EXCEPT ![r] = {w \in @ : w.edit # op.timestamp}]
          \/ op.kind = "undo" /\ editWaiters' = editWaiters
      BY <1>3 DEF Apply
    <2>5. ASSUME NEW s \in Replicas, NEW w \in editWaiters'[s]
          PROVE  w.edit \in EditTimestamps' /\ ~Observed(version'[s], w.edit)
      <3>1. w \in editWaiters[s] /\ (s = r /\ op.kind = "edit" => w.edit # op.timestamp)
        BY <1>1, <2>4
      <3>2. w.edit \in EditTimestamps /\ ~Observed(version[s], w.edit)
        BY <3>1 DEF WaitersNamed, WaitersWait
      <3>3. PICK o \in issued : o.timestamp = w.edit /\ o.kind = "edit"
        BY <3>2 DEF EditTimestamps, Edits
      <3>4. ~(s = r /\ o = op)
        BY <2>4, <3>1, <3>3
      <3>5. ~Observed(version'[s], o.timestamp)
        BY <2>1, <3>2, <3>3, <3>4 DEF Observes
      <3> QED
        BY <3>2, <3>3, <3>5, EditTimestampsGrow
    <2>6. DOMAIN versionWaiters' = Replicas /\ DOMAIN editWaiters' = Replicas
      BY <1>1, <2>4
    <2>7. WaitersNamed'
      BY <2>3, <2>5, <2>6 DEF WaitersNamed
    <2>8. WaitersWait'
      BY <2>3, <2>5 DEF WaitersWait
    <2> QED
      BY <2>7, <2>8
  <1> QED
    BY <1>2, <1>3

LEMMA BaseObserved ==
    ASSUME DeliveryTypeOK, Causality, BaseLength > 0, NEW r \in Replicas
    PROVE  Observed(version[r], BaseTimestamp)
  <1>1. BaseTimestamp.replica = LOCAL_REPLICA /\ BaseTimestamp.value = 1
    BY DEF BaseTimestamp, Timestamp
  <1>2. BaseVersion[LOCAL_REPLICA] = 1
    BY <1>1, ReplicasAssumption DEF BaseVersion, Observe
  <1>3. BaseVersion[LOCAL_REPLICA] <= version[r][LOCAL_REPLICA]
    BY ReplicasAssumption DEF Causality, AuthorsLead
  <1> QED
    BY <1>1, <1>2, <1>3, Numbers, ReplicasAssumption DEF Observed

LEMMA OwnStepWaits ==
    ASSUME IInv, HistoryInv, WaitInv, [Next]_vars, NEW r \in Replicas, NEW op, IssueOf(r, op),
           UNCHANGED waitVars,
           \A i \in DOMAIN requests' : /\ i \in DOMAIN requests
                                       /\ requests'[i].version = requests[i].version
                                       /\ requests'[i].anchor = requests[i].anchor
    PROVE  WaitInv'
  <1>1. DeliveryTypeOK /\ Causality /\ WaitersNamed /\ WaitersWait /\ RequestsNamed
    BY DEF IInv, WaitInv
  <1>2. WaitersNamed' /\ WaitersWait'
    BY <1>1, IssueWaiters
  <1>3. RequestsNamed'
    BY <1>1, RequestsStayNamed
  <1> QED
    BY <1>2, <1>3 DEF WaitInv

LEMMA QuietStepWaits ==
    ASSUME IInv, WaitInv, [Next]_vars, UNCHANGED <<version, waitVars>>,
           \A i \in DOMAIN requests' :
               \/ /\ i \in DOMAIN requests
                  /\ requests'[i].version = requests[i].version
                  /\ requests'[i].anchor = requests[i].anchor
               \/ Reached(requests'[i].version) /\ AnchorNamed(requests'[i].anchor)
    PROVE  WaitInv'
  <1>1. DeliveryTypeOK /\ Causality /\ WaitersNamed /\ WaitersWait /\ RequestsNamed
    BY DEF IInv, WaitInv
  <1>2. version' = version /\ versionWaiters' = versionWaiters /\ editWaiters' = editWaiters
    BY DEF waitVars
  <1>3. DOMAIN versionWaiters' = Replicas /\ DOMAIN editWaiters' = Replicas
    BY <1>1, <1>2 DEF WaitersNamed
  <1>4. WaitersNamed' /\ WaitersWait'
    BY <1>1, <1>2, <1>3, WaitersComeAndGo
  <1>5. RequestsNamed'
    BY <1>1, RequestsStayNamed
  <1> QED
    BY <1>4, <1>5 DEF WaitInv

LEMMA ApplyStepWaits ==
    ASSUME IInv, WaitInv, NEW r \in Replicas, ApplyStep(r)
    PROVE  WaitInv'
  <1>1. DeliveryTypeOK /\ Causality /\ WaitersNamed /\ WaitersWait
    BY DEF IInv, WaitInv
  <1>2. UNCHANGED <<requests, issued>>
    BY DEF ApplyStep, ApplyFromBatch, StartFlush, ApplyFromQueue, EndFlush, netVars
  <1>3. [Next]_vars
    BY DEF Next
  <1>4. CASE UNCHANGED <<version, waitVars>>
    BY <1>2, <1>3, <1>4, QuietStepWaits
  <1>5. ASSUME NEW op \in issued, CanApply(r, op), Apply(r, op)
        PROVE  WaitInv'
    <2>1. WaitersNamed' /\ WaitersWait'
      BY <1>1, <1>2, <1>3, <1>5, ApplyWakes DEF CanApply
    <2>2. RequestsNamed'
      BY <1>1, <1>2, <1>3, RequestsStayNamed DEF WaitInv
    <2> QED
      BY <2>1, <2>2 DEF WaitInv
  <1>6. CASE ApplyFromBatch(r)
    <2>1. Head(call.batch) \in issued
      <3>1. call.batch \in Seq(issued) /\ call.batch # <<>>
        BY <1>1, <1>6 DEF DeliveryTypeOK, Calls, ApplyFromBatch
      <3> QED
        BY <3>1
    <2> QED
      BY <1>4, <1>5, <1>6, <2>1 DEF ApplyFromBatch, Postpone, clockVars
  <1>7. CASE ApplyFromQueue(r)
    <2>1. call.draining \subseteq issued
      BY <1>1 DEF DeliveryTypeOK, Calls
    <2> QED
      BY <1>4, <1>5, <1>7, <2>1 DEF ApplyFromQueue, Postpone, clockVars
  <1>8. CASE StartFlush(r) \/ EndFlush(r)
    BY <1>4, <1>8 DEF StartFlush, EndFlush, clockVars
  <1> QED
    BY <1>6, <1>7, <1>8 DEF ApplyStep

(* A guest names its version and an insertion whose text it holds.          *)
LEMMA SendRequestWaits ==
    ASSUME IInv, HistoryInv, OrderInv, WaitInv, NEW r \in Replicas, SendRequest(r)
    PROVE  WaitInv'
  <1>1. DeliveryTypeOK /\ Causality
    BY DEF IInv
  <1>2. PICK kind \in RequestKinds :
            \E anchor \in {f.timestamp : f \in Range(fragments[r])} :
                requests' = Append(requests, [stage |-> "sent", from |-> r, kind |-> kind, edits |-> {},
                                              version |-> version[r], anchor |-> anchor])
    BY DEF SendRequest
  <1>3. PICK anchor \in {f.timestamp : f \in Range(fragments[r])} :
            requests' = Append(requests, [stage |-> "sent", from |-> r, kind |-> kind, edits |-> {},
                                          version |-> version[r], anchor |-> anchor])
    BY <1>2
  <1> DEFINE q == [stage |-> "sent", from |-> r, kind |-> kind, edits |-> {},
                   version |-> version[r], anchor |-> anchor]
  <1>4. q.version = version[r] /\ q.anchor = anchor /\ requests' = Append(requests, q)
    BY <1>3
  <1> HIDE DEF q
  <1>5. Reached(version[r])
    BY <1>1 DEF Reached, DeliveryTypeOK, Causality, AuthorsLead
  <1>6. AnchorNamed(anchor)
    <2>1. PICK j \in DOMAIN fragments[r] : anchor = fragments[r][j].timestamp
      BY DEF Range
    <2>2. HasInserted(r, anchor, fragments[r][j].offset)
      BY <2>1, TextFacts DEF HoldsOnly
    <2>3. \A k : k \in 1..BaseLength => BaseLength > 0
      BY BaseLengthAssumption
    <2> QED
      BY <2>2, <2>3 DEF HasInserted, AnchorNamed, EditTimestamps
  <1>7. PICK A : requests \in Seq(Request(A))
    BY DEF HistoryInv, HistoryTypeOK, RequestsOK
  <1>8. \A i \in DOMAIN requests' : (i \in DOMAIN requests /\ requests'[i] = requests[i]) \/ requests'[i] = q
    BY <1>4, <1>7
  <1>9. UNCHANGED <<version, waitVars>>
    BY DEF SendRequest, clockVars
  <1>10. [Next]_vars
    BY DEF Next
  <1>11. \A i \in DOMAIN requests' :
             \/ /\ i \in DOMAIN requests
                /\ requests'[i].version = requests[i].version
                /\ requests'[i].anchor = requests[i].anchor
             \/ Reached(requests'[i].version) /\ AnchorNamed(requests'[i].anchor)
    BY <1>4, <1>5, <1>6, <1>8
  <1> QED
    BY <1>9, <1>10, <1>11, QuietStepWaits

LEMMA RequestMember ==
    ASSUME HistoryInv
    PROVE  \E A : requests \in Seq(Request(A)) /\ \A i \in DOMAIN requests : requests[i] \in Request(A)
  BY DEF HistoryInv, HistoryTypeOK, RequestsOK

LEMMA RequestNames ==
    ASSUME HistoryInv, NEW i \in DOMAIN requests,
           NEW st \in {"sent", "waiting", "answered", "pushing", "done"},
           \/ requests' = [requests EXCEPT ![i].stage = st]
           \/ \E E : requests' = [requests EXCEPT ![i].stage = st, ![i].edits = E]
    PROVE  \A j \in DOMAIN requests' : /\ j \in DOMAIN requests
                                       /\ requests'[j].version = requests[j].version
                                       /\ requests'[j].anchor = requests[j].anchor
  <1>1. PICK A : requests \in Seq(Request(A)) /\ \A j \in DOMAIN requests : requests[j] \in Request(A)
    BY RequestMember
  <1>2. requests[i] \in Request(A)
    BY <1>1
  <1>3. DOMAIN requests' = DOMAIN requests /\ \A j \in DOMAIN requests : j # i => requests'[j] = requests[j]
    BY <1>1
  <1>4. \/ requests'[i] = [requests[i] EXCEPT !.stage = st]
        \/ \E E : requests'[i] = [requests[i] EXCEPT !.stage = st, !.edits = E]
    BY <1>1
  <1>5. requests'[i].version = requests[i].version /\ requests'[i].anchor = requests[i].anchor
    BY <1>2, <1>4 DEF Request
  <1> QED
    BY <1>3, <1>5

LEMMA ReceiveRequestWaits ==
    ASSUME IInv, HistoryInv, WaitInv, NEW i \in DOMAIN requests, ReceiveRequest(i)
    PROVE  WaitInv'
  <1>1. DeliveryTypeOK /\ Causality /\ WaitersNamed /\ WaitersWait /\ RequestsNamed
        /\ LOCAL_REPLICA \in Replicas
    BY ReplicasAssumption DEF IInv, WaitInv
  <1>2. version' = version /\ requests' = [requests EXCEPT ![i].stage = "waiting"]
    BY DEF ReceiveRequest, clockVars
  <1>3. [Next]_vars
    BY DEF Next, RequestStep
  <1>4. Reached(requests[i].version) /\ AnchorNamed(requests[i].anchor)
    BY <1>1 DEF RequestsNamed
  <1>5. /\ DOMAIN versionWaiters = Replicas /\ DOMAIN editWaiters = Replicas
    BY <1>1 DEF WaitersNamed
  <1> DEFINE v == requests[i].version
             t == requests[i].anchor
             N == IF ObservedAll(version[LOCAL_REPLICA], v) THEN {} ELSE {[request |-> i, version |-> v]}
             M == IF Observed(version[LOCAL_REPLICA], t) THEN {} ELSE {[request |-> i, edit |-> t]}
  <1>6. \A w \in N : Reached(w.version) /\ ~ObservedAll(version[LOCAL_REPLICA], w.version)
    <2>1. [request |-> i, version |-> v].version = v
      OBVIOUS
    <2> HIDE DEF v
    <2> QED
      BY <1>4, <2>1 DEF v
  <1>7. \A w \in M : w.edit \in EditTimestamps /\ ~Observed(version[LOCAL_REPLICA], w.edit)
    <2>1. [request |-> i, edit |-> t].edit = t
      OBVIOUS
    <2> HIDE DEF t
    <2> QED
      BY <1>1, <1>4, <2>1, BaseObserved DEF AnchorNamed, t
  <1>8. \/ /\ versionWaiters' = [versionWaiters EXCEPT ![LOCAL_REPLICA] = @ \cup N]
           /\ editWaiters' = editWaiters
        \/ /\ editWaiters' = [editWaiters EXCEPT ![LOCAL_REPLICA] = @ \cup M]
           /\ versionWaiters' = versionWaiters
    BY DEF ReceiveRequest
  <1> HIDE DEF v, t, N, M
  <1>9. DOMAIN versionWaiters' = Replicas /\ DOMAIN editWaiters' = Replicas
    BY <1>5, <1>8
  <1>10. \A r \in Replicas : \A w \in versionWaiters'[r] :
             w \in versionWaiters[r] \/ (Reached(w.version) /\ ~ObservedAll(version[r], w.version))
    BY <1>5, <1>6, <1>8
  <1>11. \A r \in Replicas : \A w \in editWaiters'[r] :
             w \in editWaiters[r] \/ (w.edit \in EditTimestamps /\ ~Observed(version[r], w.edit))
    BY <1>5, <1>7, <1>8
  <1>12. WaitersNamed' /\ WaitersWait'
    BY <1>1, <1>2, <1>3, <1>9, <1>10, <1>11, WaitersComeAndGo
  <1>13. RequestsNamed'
    BY <1>1, <1>2, <1>3, RequestNames, RequestsStayNamed
  <1> QED
    BY <1>12, <1>13 DEF WaitInv

LEMMA ReceiveAnswerWaits ==
    ASSUME IInv, HistoryInv, WaitInv, NEW i \in DOMAIN requests, ReceiveAnswer(i)
    PROVE  WaitInv'
  <1> DEFINE r == requests[i].from
             E == requests[i].edits
             M == {[request |-> i, edit |-> e] : e \in {t \in E : ~Observed(version[r], t)}}
  <1>1. DeliveryTypeOK /\ Causality /\ WaitersNamed /\ WaitersWait /\ RequestsNamed
    BY DEF IInv, WaitInv
  <1>2. /\ version' = version /\ versionWaiters' = versionWaiters
        /\ requests' = [requests EXCEPT ![i].stage = "pushing"]
        /\ \/ editWaiters' = [editWaiters EXCEPT ![r] = @ \cup M]
           \/ editWaiters' = editWaiters
    BY DEF ReceiveAnswer, clockVars
  <1>3. [Next]_vars
    BY DEF Next, RequestStep
  <1>4. E \subseteq EditTimestamps
    BY DEF HistoryInv, HistoryTypeOK
  <1>5. DOMAIN versionWaiters = Replicas /\ DOMAIN editWaiters = Replicas
    BY <1>1 DEF WaitersNamed
  <1>6. \A w \in M : w.edit \in EditTimestamps /\ ~Observed(version[r], w.edit)
    <2>1. \A t : [request |-> i, edit |-> t].edit = t
      OBVIOUS
    <2> HIDE DEF E, r
    <2> QED
      BY <1>4, <2>1
  <1> HIDE DEF r, E, M
  <1>7. DOMAIN editWaiters' = Replicas
    BY <1>2, <1>5
  <1>8. \A s \in Replicas : \A w \in editWaiters'[s] :
            w \in editWaiters[s] \/ (w.edit \in EditTimestamps /\ ~Observed(version[s], w.edit))
    BY <1>2, <1>5, <1>6
  <1>9. WaitersNamed' /\ WaitersWait'
    BY <1>1, <1>2, <1>3, <1>5, <1>7, <1>8, WaitersComeAndGo
  <1>10. RequestsNamed'
    BY <1>1, <1>2, <1>3, RequestNames, RequestsStayNamed
  <1> QED
    BY <1>9, <1>10 DEF WaitInv

LEMMA WaitStep == IInv /\ HistoryInv /\ OrderInv /\ WaitInv /\ [Next]_vars => WaitInv'
  <1> SUFFICES ASSUME IInv, HistoryInv, OrderInv, WaitInv, [Next]_vars PROVE WaitInv'
    OBVIOUS
  <1>1. DeliveryTypeOK
    BY DEF IInv
  <1>2. ASSUME NEW r \in Replicas, Edit(r) \/ Undo(r) \/ Redo(r) PROVE WaitInv'
    <2>1. requests' = requests /\ UNCHANGED waitVars
      BY <1>2 DEF Edit, Undo, Redo
    <2>2. \E op : IssueOf(r, op)
      BY <1>1, <1>2, EditIssues, UndoIssues DEF Edit, Undo, Redo
    <2> QED
      BY <2>1, <2>2, OwnStepWaits
  <1>3. ASSUME NEW i \in DOMAIN requests, AnswerRequest(i) PROVE WaitInv'
    <2>1. requests' = [requests EXCEPT ![i].stage = "answered", ![i].edits = {EditTimestamp(LOCAL_REPLICA)}]
          /\ UNCHANGED waitVars
      BY <1>3 DEF AnswerRequest
    <2>2. \E op : IssueOf(LOCAL_REPLICA, op)
      BY <1>1, <1>3, EditIssues, ReplicasAssumption DEF AnswerRequest
    <2> QED
      BY <2>1, <2>2, RequestNames, OwnStepWaits, ReplicasAssumption
  <1>4. ASSUME NEW i \in DOMAIN requests, PushTransaction(i) PROVE WaitInv'
    <2>1. /\ requests' = [requests EXCEPT ![i].stage = "done"]
          /\ UNCHANGED <<version, waitVars>>
      BY <1>4 DEF PushTransaction, clockVars
    <2> QED
      BY <2>1, RequestNames, QuietStepWaits
  <1>5. ASSUME UNCHANGED <<version, waitVars, requests>> PROVE WaitInv'
    BY <1>5, QuietStepWaits
  <1>6. ASSUME NEW r \in Replicas, Receive(r) PROVE WaitInv'
    BY <1>5, <1>6 DEF Receive, clockVars
  <1>7. CASE UNCHANGED vars
    BY <1>5, <1>7 DEF vars, clockVars
  <1>8. CASE Next
    <2>1. ASSUME NEW r \in Replicas,
                 Edit(r) \/ Undo(r) \/ Redo(r) \/ Receive(r) \/ ApplyStep(r) \/ SendRequest(r)
          PROVE  WaitInv'
      BY <1>2, <1>6, <2>1, ApplyStepWaits, SendRequestWaits
    <2>2. ASSUME NEW i \in DOMAIN requests, RequestStep(i) PROVE WaitInv'
      BY <1>3, <1>4, <2>2, ReceiveRequestWaits, ReceiveAnswerWaits DEF RequestStep
    <2> QED
      BY <1>8, <2>1, <2>2 DEF Next
  <1> QED
    BY <1>7, <1>8

LEMMA WaitInit == Init => WaitInv
  <1> SUFFICES ASSUME Init PROVE WaitInv
    OBVIOUS
  <1>1. /\ versionWaiters = [r \in Replicas |-> {}] /\ editWaiters = [r \in Replicas |-> {}]
        /\ requests = <<>>
    BY DEF Init
  <1> QED
    BY <1>1 DEF WaitInv, WaitersNamed, WaitersWait, RequestsNamed

LEMMA WaitInvariance == Spec => []WaitInv
  BY WaitInit, WaitStep, Invariance, HistoryInvariance, OrderInvariance, PTL DEF Spec

-----------------------------------------------------------------------------
(* The types of what is edited and undone.                                  *)

(* A transaction with edits.                                                *)
Filled == {e \in Transactions : e.edits # {}}

StacksFilled ==
    \A r \in Replicas : undoStack[r] \in Seq(Filled) /\ redoStack[r] \in Seq(Filled)

AnswersFilled ==
    \A i \in DOMAIN requests :
        requests[i].stage \in {"answered", "pushing"} => requests[i].edits # {}

EditRanges == \A o \in Edits : o.end \in Nat /\ o.start <= o.end

TypeInv == StacksFilled /\ AnswersFilled /\ EditRanges /\ MarksKnown

LEMMA GroupFilled ==
    ASSUME NEW stack \in Seq(Filled), NEW n \in 0..(Len(stack) - 1)
    PROVE  GroupTrailing(stack, n) \in Seq(Filled)
  <1> DEFINE kept == Len(stack) - n
             base == SubSeq(stack, 1, kept)
             merged == UNION {stack[i].edits : i \in kept..Len(stack)}
             top == [base[kept] EXCEPT !.edits = merged]
  <1>1. kept \in 1..Len(stack) /\ Len(stack) \in Nat
    OBVIOUS
  <1>2. \A i \in 1..Len(stack) : stack[i] \in Filled
    OBVIOUS
  <1>3. /\ base \in Seq(Filled)
        /\ Len(base) = kept
        /\ \A i \in 1..kept : base[i] = stack[i]
    <2> HIDE DEF kept
    <2>1. \A i \in 1..kept : stack[i] \in Filled
      BY <1>1, <1>2
    <2> QED
      BY <1>1, <2>1, SubSeqProperties
  <1>4. GroupTrailing(stack, n) = [base EXCEPT ![kept].edits = merged]
    BY DEF GroupTrailing
  <1> HIDE DEF base, kept
  <1>5. merged \in SUBSET Timestamps /\ merged # {}
    <2>1. \A i \in kept..Len(stack) : stack[i].edits \subseteq Timestamps
      BY <1>1, <1>2 DEF Filled, Transactions
    <2>2. stack[kept].edits # {} /\ kept \in kept..Len(stack)
      BY <1>1, <1>2 DEF Filled
    <2> QED
      BY <2>1, <2>2
  <1>6. base[kept] \in Transactions /\ kept \in DOMAIN base
    BY <1>1, <1>2, <1>3 DEF Filled
  <1>7. top \in Filled
    BY <1>5, <1>6 DEF Filled, Transactions
  <1>8. GroupTrailing(stack, n) = [base EXCEPT ![kept] = top]
    BY <1>4
  <1> HIDE DEF top, merged
  <1> QED
    BY <1>3, <1>6, <1>7, <1>8

LEMMA SealFilled ==
    ASSUME NEW stack \in Seq(Filled)
    PROVE  Sealed(stack) \in Seq(Filled)
  <1>1. DOMAIN stack = 1..Len(stack) /\ Len(stack) \in Nat /\ \A i \in 1..Len(stack) : stack[i] \in Filled
    OBVIOUS
  <1>2. \A i \in 1..Len(stack) : Entry(stack[i].edits, TRUE) \in Filled
    BY <1>1 DEF Entry, Filled, Transactions
  <1>3. Sealed(stack) \in [1..Len(stack) -> Filled]
    BY <1>1, <1>2 DEF Sealed
  <1> QED
    BY <1>1, <1>3

LEMMA RemoveFilled ==
    ASSUME NEW stack \in Seq(Filled), NEW i \in 1..Len(stack)
    PROVE  /\ SubSeq(stack, 1, i - 1) \o SubSeq(stack, i + 1, Len(stack)) \in Seq(Filled)
           /\ SubSeq(stack, 1, i - 1) \in Seq(Filled)
           /\ stack[i] \in Filled
  <1>1. Len(stack) \in Nat /\ \A j \in 1..Len(stack) : stack[j] \in Filled
    OBVIOUS
  <1>2. SubSeq(stack, 1, i - 1) \in Seq(Filled)
    <2>1. \A j \in 1..(i - 1) : stack[j] \in Filled
      BY <1>1
    <2> QED
      BY <1>1, <2>1, SubSeqProperties
  <1>3. SubSeq(stack, i + 1, Len(stack)) \in Seq(Filled)
    <2>1. \A j \in (i + 1)..Len(stack) : stack[j] \in Filled
      BY <1>1
    <2> QED
      BY <1>1, <2>1, SubSeqProperties
  <1> QED
    BY <1>1, <1>2, <1>3, ConcatProperties

(* One replica's stacks change.                                             *)
LEMMA FilledStays ==
    ASSUME HistoryInv, StacksFilled, NEW r \in Replicas, NEW us \in Seq(Filled), NEW rs \in Seq(Filled),
           undoStack' = [undoStack EXCEPT ![r] = us], redoStack' = [redoStack EXCEPT ![r] = rs]
    PROVE  StacksFilled'
  <1>1. \A s \in Replicas : /\ undoStack'[s] = IF s = r THEN us ELSE undoStack[s]
                            /\ redoStack'[s] = IF s = r THEN rs ELSE redoStack[s]
    BY DEF HistoryInv, HistoryTypeOK
  <1> QED
    BY <1>1 DEF StacksFilled

LEMMA StacksFilledStep ==
    ASSUME IInv, HistoryInv, StacksFilled, AnswersFilled, [Next]_vars
    PROVE  StacksFilled'
  <1>1. \A r \in Replicas : undoStack[r] \in Seq(Filled) /\ redoStack[r] \in Seq(Filled)
    BY DEF StacksFilled
  <1>2. <<>> \in Seq(Filled)
    OBVIOUS
  <1>3. CASE UNCHANGED historyVars
    BY <1>3 DEF historyVars, StacksFilled
  <1>4. ASSUME NEW r \in Replicas, Edit(r) PROVE StacksFilled'
    <2> DEFINE top == Entry({EditTimestamp(r)}, FALSE)
               stack == Append(undoStack[r], top)
    <2>1. EditTimestamp(r) \in Timestamps
      BY <1>4, MakeEditEffect DEF Edit, IInv, HistoryInv, UndoInv
    <2>2. top \in Filled
      BY <2>1 DEF Entry, Filled, Transactions
    <2> HIDE DEF top
    <2>3. stack \in Seq(Filled)
      BY <1>1, <2>2
    <2>4. PICK n \in 0..(Len(stack) - 1) : undoStack' = [undoStack EXCEPT ![r] = GroupTrailing(stack, n)]
      BY <1>4 DEF Edit, top
    <2>5. redoStack' = [redoStack EXCEPT ![r] = <<>>]
      BY <1>4 DEF Edit
    <2> HIDE DEF stack
    <2> QED
      BY <1>2, <2>3, <2>4, <2>5, GroupFilled, FilledStays
  <1>5. ASSUME NEW r \in Replicas, Undo(r) PROVE StacksFilled'
    <2>1. PICK i \in DOMAIN undoStack[r] :
             /\ undoStack' = [undoStack EXCEPT ![r] = SubSeq(@, 1, i - 1) \o SubSeq(@, i + 1, Len(@))]
             /\ redoStack' = [redoStack EXCEPT ![r] = Append(@, undoStack[r][i])]
      BY <1>5 DEF Undo
    <2> DEFINE stack == undoStack[r]
               us == SubSeq(stack, 1, i - 1) \o SubSeq(stack, i + 1, Len(stack))
               rs == Append(redoStack[r], stack[i])
    <2>2. /\ undoStack' = [undoStack EXCEPT ![r] = us] /\ redoStack' = [redoStack EXCEPT ![r] = rs]
          /\ stack \in Seq(Filled) /\ i \in 1..Len(stack)
      BY <1>1, <2>1 DEF HistoryInv, HistoryTypeOK
    <2>3. us \in Seq(Filled) /\ stack[i] \in Filled
      <3> HIDE DEF stack
      <3> QED
        BY <2>2, RemoveFilled
    <2>4. rs \in Seq(Filled)
      BY <1>1, <2>3
    <2> HIDE DEF us, rs
    <2> QED
      BY <2>2, <2>3, <2>4, FilledStays
  <1>6. ASSUME NEW r \in Replicas, Redo(r) PROVE StacksFilled'
    <2> DEFINE stack == redoStack[r]
               last == Len(stack)
               us == Append(undoStack[r], stack[last])
               rs == SubSeq(stack, 1, last - 1)
    <2>1. /\ undoStack' = [undoStack EXCEPT ![r] = us] /\ redoStack' = [redoStack EXCEPT ![r] = rs]
          /\ last > 0 /\ stack \in Seq(Filled)
      BY <1>1, <1>6 DEF Redo, HistoryInv, HistoryTypeOK
    <2>2. rs \in Seq(Filled) /\ stack[last] \in Filled
      <3>1. last \in 1..Len(stack)
        BY <2>1
      <3> HIDE DEF last, stack
      <3> QED
        BY <2>1, <3>1, RemoveFilled
    <2>3. us \in Seq(Filled)
      BY <1>1, <2>2
    <2> HIDE DEF us, rs
    <2> QED
      BY <2>1, <2>2, <2>3, FilledStays
  <1>7. ASSUME NEW i \in DOMAIN requests, AnswerRequest(i) PROVE StacksFilled'
    <2>1. /\ undoStack' = [undoStack EXCEPT ![LOCAL_REPLICA] = Sealed(undoStack[LOCAL_REPLICA])]
          /\ redoStack' = [redoStack EXCEPT ![LOCAL_REPLICA] = <<>>]
      BY <1>7 DEF AnswerRequest
    <2>2. Sealed(undoStack[LOCAL_REPLICA]) \in Seq(Filled)
      BY <1>1, SealFilled, ReplicasAssumption
    <2> QED
      BY <1>2, <2>1, <2>2, FilledStays, ReplicasAssumption
  <1>8. ASSUME NEW i \in DOMAIN requests, PushTransaction(i) PROVE StacksFilled'
    <2> DEFINE r == requests[i].from
               e == Entry(requests[i].edits, TRUE)
               us == Append(undoStack[r], e)
    <2>1. r \in Replicas /\ requests[i].edits \in SUBSET Timestamps
      BY RequestFacts DEF HistoryInv, HistoryTypeOK
    <2>2. requests[i].edits # {}
      BY <1>8 DEF PushTransaction, AnswersFilled
    <2>3. e \in Filled
      BY <2>1, <2>2 DEF Entry, Filled, Transactions
    <2>4. undoStack' = [undoStack EXCEPT ![r] = us] /\ redoStack' = redoStack
      BY <1>8 DEF PushTransaction
    <2> HIDE DEF r, e
    <2>5. us \in Seq(Filled)
      BY <1>1, <2>1, <2>3
    <2>6. redoStack' = [redoStack EXCEPT ![r] = redoStack[r]]
      BY <2>4 DEF HistoryInv, HistoryTypeOK
    <2> HIDE DEF us
    <2> QED
      BY <1>1, <2>1, <2>4, <2>5, <2>6, FilledStays
  <1>9. ASSUME NEW r \in Replicas, Receive(r) \/ ApplyStep(r) \/ SendRequest(r) PROVE UNCHANGED historyVars
    BY <1>9 DEF Receive, ApplyStep, ApplyFromBatch, ApplyFromQueue, StartFlush, EndFlush, SendRequest
  <1>10. ASSUME NEW i \in DOMAIN requests, ReceiveRequest(i) \/ ReceiveAnswer(i) PROVE UNCHANGED historyVars
    BY <1>10 DEF ReceiveRequest, ReceiveAnswer
  <1>11. CASE UNCHANGED vars
    BY <1>3, <1>11 DEF vars
  <1>12. CASE Next
    BY <1>3, <1>4, <1>5, <1>6, <1>7, <1>8, <1>9, <1>10, <1>12 DEF Next, RequestStep
  <1> QED
    BY <1>11, <1>12

LEMMA AnswersFilledStep ==
    ASSUME HistoryInv, AnswersFilled, [Next]_vars
    PROVE  AnswersFilled'
  <1>0. RequestsOK
    BY DEF HistoryInv, HistoryTypeOK
  <1>1. CASE requests' = requests
    BY <1>1 DEF AnswersFilled
  <1>2. ASSUME NEW i \in DOMAIN requests, NEW st \in {"sent", "waiting", "answered", "pushing", "done"},
               requests' = [requests EXCEPT ![i].stage = st],
               st \in {"answered", "pushing"} => requests[i].stage \in {"answered", "pushing"}
        PROVE  AnswersFilled'
    <2>1. requests[i].edits \in SUBSET Timestamps
      BY <1>0, RequestFacts
    <2>2. /\ DOMAIN requests' = DOMAIN requests
          /\ requests'[i].stage = st /\ requests'[i].edits = requests[i].edits
          /\ \A j \in DOMAIN requests : j # i => requests'[j] = requests[j]
      BY ZenonT(30), <1>0, <1>2, <2>1, RequestUpdate
    <2> QED
      BY <1>2, <2>2 DEF AnswersFilled
  <1>3. ASSUME NEW i \in DOMAIN requests, AnswerRequest(i) PROVE AnswersFilled'
    <2>1. requests' = [requests EXCEPT ![i].stage = "answered", ![i].edits = {EditTimestamp(LOCAL_REPLICA)}]
      BY <1>3 DEF AnswerRequest
    <2>2. PICK A : requests \in Seq(Request(A)) /\ \A j \in DOMAIN requests : requests[j] \in Request(A)
      BY RequestMember
    <2>3. requests[i] \in Request(A) /\ DOMAIN requests' = DOMAIN requests
          /\ \A j \in DOMAIN requests : j # i => requests'[j] = requests[j]
      BY <2>1, <2>2
    <2>4. requests'[i] = [requests[i] EXCEPT !.stage = "answered", !.edits = {EditTimestamp(LOCAL_REPLICA)}]
      BY <2>1, <2>2
    <2>5. requests'[i].edits = {EditTimestamp(LOCAL_REPLICA)}
      BY <2>3, <2>4 DEF Request
    <2> QED
      BY <2>3, <2>5 DEF AnswersFilled
  <1>4. ASSUME NEW r \in Replicas, SendRequest(r) PROVE AnswersFilled'
    <2>1. PICK q : requests' = Append(requests, q) /\ q.stage = "sent"
      BY <1>4 DEF SendRequest
    <2>2. PICK A : requests \in Seq(Request(A)) /\ \A j \in DOMAIN requests : requests[j] \in Request(A)
      BY RequestMember
    <2>3. \A j \in DOMAIN requests' : (j \in DOMAIN requests /\ requests'[j] = requests[j]) \/ requests'[j] = q
      BY <2>1, <2>2
    <2> QED
      BY <2>1, <2>3 DEF AnswersFilled
  <1>5. ASSUME NEW i \in DOMAIN requests, ReceiveRequest(i) \/ ReceiveAnswer(i) \/ PushTransaction(i)
        PROVE  AnswersFilled'
    BY <1>2, <1>5 DEF ReceiveRequest, ReceiveAnswer, PushTransaction
  <1>6. ASSUME NEW r \in Replicas, Edit(r) \/ Undo(r) \/ Redo(r) \/ Receive(r) \/ ApplyStep(r)
        PROVE  requests' = requests
    BY <1>6 DEF Edit, Undo, Redo, Receive, ApplyStep, ApplyFromBatch, ApplyFromQueue, StartFlush, EndFlush
  <1>7. CASE UNCHANGED vars
    BY <1>1, <1>7 DEF vars
  <1>8. CASE Next
    BY <1>1, <1>3, <1>4, <1>5, <1>6, <1>8 DEF Next, RequestStep
  <1> QED
    BY <1>7, <1>8

LEMMA EditRangesStep ==
    ASSUME DeliveryTypeOK, Causality, OrderInv, EditRanges, [Next]_vars
    PROVE  EditRanges'
  <1>1. CASE TextKept
    BY <1>1 DEF TextKept, EditRanges, Edits
  <1>2. ASSUME NEW r \in Replicas, NEW op, LocalEdit(r, op)
        PROVE  EditRanges'
    <2> DEFINE F == fragments[r]
    <2>1. PICK start \in 0..VisibleLength(F) : \E end \in start..VisibleLength(F) :
              op.start = LocalPlace(F, start) /\ op.end = LocalEnd(F, start, end)
      BY <1>2 DEF LocalEdit
    <2>2. PICK end : op.start = LocalPlace(F, start) /\ op.end = LocalEnd(F, start, end)
      BY <2>1
    <2>3. Len(F) \in Nat
      BY TextFacts
    <2> HIDE DEF F
    <2>4. op.end \in Nat /\ op.start <= op.end
      BY <2>2, <2>3, LocalEndFacts
    <2>5. Edits' \subseteq Edits \cup {op}
      BY <1>2 DEF LocalEdit, Observes, Edits
    <2> QED
      BY <2>4, <2>5 DEF EditRanges
  <1>3. ASSUME NEW r \in Replicas, NEW op, RemoteEdit(r, op) \/ AppliedUndo(r, op)
        PROVE  EditRanges'
    <2>1. Edits' = Edits
      BY <1>3 DEF RemoteEdit, AppliedUndo, Observes, Edits
    <2> QED
      BY <2>1 DEF EditRanges
  <1> QED
    BY <1>1, <1>2, <1>3, TextSteps

LEMMA TypeInvInit == Init => TypeInv
  <1> SUFFICES ASSUME Init PROVE TypeInv
    OBVIOUS
  <1>1. /\ undoStack = [r \in Replicas |-> <<>>] /\ redoStack = [r \in Replicas |-> <<>>]
        /\ requests = <<>> /\ Edits = {}
        /\ fragments = [r \in Replicas |-> Insertion(BaseTimestamp, BaseLength)]
    BY DEF Init, Edits
  <1>2. \A r \in Replicas : \A i \in DOMAIN fragments[r] : fragments[r][i].deletions = {}
    BY <1>1 DEF Insertion, Fragment
  <1> QED
    BY <1>1, <1>2 DEF TypeInv, StacksFilled, AnswersFilled, EditRanges, MarksKnown

LEMMA TypeInvStep == IInv /\ HistoryInv /\ OrderInv /\ TypeInv /\ [Next]_vars => TypeInv'
  <1> SUFFICES ASSUME IInv, HistoryInv, OrderInv, TypeInv, [Next]_vars PROVE TypeInv'
    OBVIOUS
  <1>1. DeliveryTypeOK /\ Causality
    BY DEF IInv
  <1>2. StacksFilled /\ AnswersFilled /\ EditRanges /\ MarksKnown
    BY DEF TypeInv
  <1>3. StacksFilled' /\ AnswersFilled'
    BY <1>2, StacksFilledStep, AnswersFilledStep
  <1>4. EditRanges' /\ MarksKnown'
    BY <1>1, <1>2, EditRangesStep, MarksStep
  <1> QED
    BY <1>3, <1>4 DEF TypeInv

LEMMA TypeInvariance == Spec => []TypeInv
  BY TypeInvInit, TypeInvStep, Invariance, HistoryInvariance, OrderInvariance, PTL DEF Spec

LEMMA TypesHold ==
    ASSUME IInv, HistoryInv, OrderInv, TypeInv
    PROVE  TypeOK
  <1>1. DeliveryTypeOK
    BY DEF IInv
  <1>2. \A o \in Edits : o.start \in Nat /\ o.end \in Nat /\ o.start <= o.end /\ o.length \in Nat
    BY DEF OrderInv, TextTypeOK, TypeInv, EditRanges
  <1>3. \A o \in Undos : /\ DOMAIN o.counts \subseteq EditTimestamps
                         /\ \A e \in DOMAIN o.counts : o.counts[e] \in Nat \ {0}
    <2>1. \A o \in Undos : DOMAIN o.counts \subseteq EditTimestamps
      BY DEF HistoryInv, UndoInv, OwnersToggle
    <2>2. PICK b \in Nat : \A o \in Undos : \A t \in DOMAIN o.counts : o.counts[t] \in 1..b
      BY DEF HistoryInv, UndoInv, CountsBounded
    <2> QED
      BY <2>1, <2>2
  <1>4. fragments \in [Replicas -> Seq(Character)]
    <2>1. fragments \in [Replicas -> Seq(Characters)]
      BY DEF OrderInv, TextTypeOK
    <2>2. ASSUME NEW r \in Replicas PROVE fragments[r] \in Seq(Character)
      <3>1. fragments[r] \in Seq(Characters) /\ DOMAIN fragments[r] = 1..Len(fragments[r])
            /\ Len(fragments[r]) \in Nat
        BY <2>1
      <3>2. ASSUME NEW i \in 1..Len(fragments[r]) PROVE fragments[r][i] \in Character
        <4>1. fragments[r][i] \in Characters
          BY <3>1
        <4>2. fragments[r][i].deletions \subseteq EditTimestamps
          BY <3>1, <3>2 DEF TypeInv, MarksKnown, KnownEdit, EditTimestamps
        <4> QED
          BY <4>1, <4>2 DEF Characters, Character
      <3>3. fragments[r] = [i \in 1..Len(fragments[r]) |-> fragments[r][i]]
        BY <3>1
      <3> QED
        BY <3>1, <3>2, <3>3
    <2> QED
      BY <2>1, <2>2
  <1>5. ASSUME NEW r \in Replicas, NEW u \in undoMap[r]
        PROVE  \E o \in Undos : /\ u.undo = o.timestamp
                                /\ u.edit \in DOMAIN o.counts
                                /\ u.count = o.counts[u.edit]
    <2>1. PICK o \in Undos : \E t \in DOMAIN o.counts : u = UndoEntry(o, t)
      BY <1>5 DEF HistoryInv, UndoInv, UndoMapKnown
    <2>2. PICK t \in DOMAIN o.counts : u = UndoEntry(o, t)
      BY <2>1
    <2> QED
      BY <2>2 DEF UndoEntry
  <1>6. ASSUME NEW r \in Replicas, NEW e \in Range(undoStack[r]) \cup Range(redoStack[r])
        PROVE  e.edits \subseteq EditTimestamps /\ e.edits # {} /\ e.sealed \in BOOLEAN
    <2>1. e \in Filled
      <3>1. undoStack[r] \in Seq(Filled) /\ redoStack[r] \in Seq(Filled)
        BY DEF TypeInv, StacksFilled
      <3> QED
        BY <3>1 DEF Range
    <2>2. e.edits \subseteq History[r]
      BY DEF History, EditsIn, Range
    <2>3. History[r] \subseteq EditTimestamps
      BY DEF HistoryInv, HistoryTypeOK
    <2> QED
      BY <2>1, <2>2, <2>3 DEF Filled, Transactions
  <1> QED
    BY <1>1, <1>2, <1>3, <1>4, <1>5, <1>6 DEF TypeOK

-----------------------------------------------------------------------------
(* The theorems.                                                            *)

(* Replicas that have observed the same operations hold the same text, down *)
(* to the order of deleted characters, whatever the order and the messages  *)
(* in which apply_ops was given them, as long as no guest formats while it  *)
(* types: on_type_format lets the guest undo an edit it has yet to observe. *)
THEOREM SameOperationsSameText == NoFormatting => (Spec => []SameVersionSameText)
  <1> SUFFICES ASSUME NoFormatting PROVE Spec => []SameVersionSameText
    OBVIOUS
  <1>1. IInv /\ OrderInv /\ ConvergenceInv => SameVersionSameText
    BY SameVersionText DEF IInv, SameVersionSameText
  <1>2. Spec => []ConvergenceInv
    BY ConvergenceInvariance
  <1> QED
    BY <1>1, <1>2, Invariance, OrderInvariance, PTL

(* Under the same condition, the flag that apply_local_edit,                *)
(* apply_remote_edit and apply_undo leave on a fragment is always what its  *)
(* insertion, its deletions and all undos of them amount to.                *)
THEOREM FlagsStayCurrent == NoFormatting => (Spec => []VisibleIsCurrent)
  <1> SUFFICES ASSUME NoFormatting PROVE Spec => []VisibleIsCurrent
    OBVIOUS
  <1>1. OrderInv /\ ConvergenceInv => VisibleIsCurrent
    BY FlagsAreVisible DEF ConvergenceInv
  <1>2. Spec => []ConvergenceInv
    BY ConvergenceInvariance
  <1> QED
    BY <1>1, <1>2, OrderInvariance, PTL

(* Nobody waits for a version or an edit that has been observed, guests     *)
(* that format as they type included: wait_for_version and wait_for_edits   *)
(* look before they wait, apply_ops wakes whom it concerns, and the edits   *)
(* and undos a replica makes itself, which wake nobody, are never what      *)
(* anyone there waits for.                                                  *)
THEOREM WaitersStillWait == Spec => []WaitersWait
  <1>1. WaitInv => WaitersWait
    BY DEF WaitInv
  <1> QED
    BY <1>1, WaitInvariance, PTL

(* Every variable keeps its type.  Among it: an edit operation ends at or   *)
(* after its start, a character is deleted by edits only that were made,    *)
(* a transaction of the undo history is never empty, and an undo map says   *)
(* what some undo operation said.                                           *)
THEOREM TypeCorrect == Spec => []TypeOK
  <1>1. IInv /\ HistoryInv /\ OrderInv /\ TypeInv => TypeOK
    BY TypesHold
  <1> QED
    BY <1>1, Invariance, HistoryInvariance, OrderInvariance, TypeInvariance, PTL
=============================================================================
