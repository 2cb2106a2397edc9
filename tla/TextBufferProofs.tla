--------------------------- MODULE TextBufferProofs ---------------------------
(***************************************************************************)
(* Proofs about the delivery of operations in TextBuffer, for any number of *)
(* replicas, edits, undos, messages and repetitions.                       *)
(***************************************************************************)
EXTENDS TextBuffer, TLAPS

deliveryVars == <<clockVars, deferVars, call, issued, inbox>>

-----------------------------------------------------------------------------
(* Every step of the system is one of these as far as delivery goes.        *)

(* A replica issues an operation of its own.                                *)
IssueOf(r, op) ==
    /\ Idle
    /\ op.timestamp = Timestamp(r, op.timestamp.value)
    /\ op.timestamp.value \in {clock[r], clock[r] + 1}
    /\ op.version = version[r]
    /\ issued' = issued \cup {op}
    /\ inbox' = [q \in Replicas |-> IF q = r THEN inbox[q] ELSE inbox[q] \cup {op}]
    /\ version' = [version EXCEPT ![r] = Observe(@, op.timestamp)]
    /\ clock' = [clock EXCEPT ![r] = op.timestamp.value + 1]
    /\ UNCHANGED <<deferVars, call>>

(* An operation is applied, or was before.                                  *)
AppliesOf(r, op) ==
    \/ Observed(version[r], op.timestamp) /\ UNCHANGED clockVars
    \/ /\ ~Observed(version[r], op.timestamp)
       /\ version' = [version EXCEPT ![r] = Observe(@, op.timestamp)]
       /\ clock' = [clock EXCEPT ![r] = Advance(@, op.timestamp)]

LEMMA ApplyEffect ==
    ASSUME NEW r, NEW op, Apply(r, op)
    PROVE  AppliesOf(r, op)
  BY DEF Apply, AppliesOf, textVars, clockVars

LEMMA EditIssues ==
    ASSUME DeliveryTypeOK, NEW r \in Replicas, Idle, MakeEdit(r), UNCHANGED <<deferVars, call>>
    PROVE  \E op : IssueOf(r, op)
  <1>1. PICK op : /\ Broadcast(r, op)
                  /\ op.timestamp = EditTimestamp(r)
                  /\ op.version = version[r]
    BY DEF MakeEdit
  <1>2. /\ version' = [version EXCEPT ![r] = Observe(@, op.timestamp)]
        /\ clock' = [clock EXCEPT ![r] = clock[r] + 2]
        /\ clock[r] \in Nat
    BY <1>1 DEF MakeEdit, DeliveryTypeOK
  <1>3. /\ op.timestamp.value = clock[r] + 1
        /\ op.timestamp = Timestamp(r, op.timestamp.value)
    BY <1>1 DEF EditTimestamp, Timestamp
  <1>4. clock[r] + 2 = op.timestamp.value + 1
    BY <1>2, <1>3
  <1>5. clock' = [clock EXCEPT ![r] = op.timestamp.value + 1]
    BY <1>2, <1>4
  <1>6. IssueOf(r, op)
    BY <1>1, <1>2, <1>3, <1>5 DEF IssueOf, Broadcast
  <1> QED
    BY <1>6

LEMMA UndoIssues ==
    ASSUME DeliveryTypeOK, NEW r \in Replicas, NEW edits, Idle, UndoOrRedo(r, edits),
           UNCHANGED <<deferVars, call>>
    PROVE  \E op : IssueOf(r, op)
  <1>1. PICK op : /\ Broadcast(r, op)
                  /\ op.timestamp = Timestamp(r, clock[r])
                  /\ op.version = version[r]
                  /\ version' = [version EXCEPT ![r] = Observe(@, op.timestamp)]
    BY DEF UndoOrRedo
  <1>2. clock' = [clock EXCEPT ![r] = clock[r] + 1]
    BY DEF UndoOrRedo
  <1>3. /\ op.timestamp.value = clock[r]
        /\ op.timestamp = Timestamp(r, op.timestamp.value)
    BY <1>1 DEF Timestamp
  <1>4. IssueOf(r, op)
    BY <1>1, <1>2, <1>3 DEF IssueOf, Broadcast
  <1> QED
    BY <1>4

LEMMA Steps ==
    ASSUME DeliveryTypeOK, [Next]_vars
    PROVE  \/ \E r \in Replicas : \E op : IssueOf(r, op)
           \/ \E r \in Replicas : Receive(r) \/ ApplyStep(r)
           \/ UNCHANGED deliveryVars
  <1>1. CASE UNCHANGED vars
    BY <1>1 DEF vars, deliveryVars, netVars
  <1>2. ASSUME NEW r \in Replicas, Edit(r) \/ Undo(r) \/ Redo(r)
        PROVE  \E op : IssueOf(r, op)
    BY <1>2, EditIssues, UndoIssues DEF Edit, Undo, Redo
  <1>3. ASSUME NEW r \in Replicas, SendRequest(r)
        PROVE  UNCHANGED deliveryVars
    BY <1>3 DEF SendRequest, deliveryVars, netVars
  <1>4. ASSUME NEW i, AnswerRequest(i)
        PROVE  \E r \in Replicas : \E op : IssueOf(r, op)
    BY <1>4, EditIssues, ReplicasAssumption DEF AnswerRequest
  <1>5. ASSUME NEW i, ReceiveRequest(i) \/ ReceiveAnswer(i) \/ PushTransaction(i)
        PROVE  UNCHANGED deliveryVars
    BY <1>5 DEF ReceiveRequest, ReceiveAnswer, PushTransaction, deliveryVars, netVars
  <1>6. CASE Next
    BY <1>2, <1>3, <1>4, <1>5, <1>6 DEF Next, RequestStep
  <1> QED
    BY <1>1, <1>6

-----------------------------------------------------------------------------
(* Type correctness.                                                        *)

LEMMA ObserveFacts ==
    ASSUME NEW v \in [Replicas -> Nat], NEW t \in Timestamps
    PROVE  /\ Observe(v, t) \in [Replicas -> Nat]
           /\ \A a \in Replicas : a # t.replica => Observe(v, t)[a] = v[a]
           /\ Observe(v, t)[t.replica] = IF v[t.replica] < t.value THEN t.value ELSE v[t.replica]
  BY DEF Observe, Timestamps

LEMMA BaseFacts ==
    /\ BaseVersion \in [Replicas -> Nat]
    /\ \A a \in Replicas : BaseVersion[a] \in {0, 1}
    /\ BaseLength = 0 => \A a \in Replicas : BaseVersion[a] = 0
  <1> DEFINE none == [r \in Replicas |-> 0]
  <1>1. none \in [Replicas -> Nat]
    OBVIOUS
  <1>2. BaseTimestamp \in Timestamps /\ BaseTimestamp.value = 1
    BY ReplicasAssumption DEF BaseTimestamp, Timestamp, Timestamps
  <1>3. Observe(none, BaseTimestamp) \in [Replicas -> {0, 1}]
    BY <1>1, <1>2, ObserveFacts DEF Timestamps
  <1> QED
    BY <1>1, <1>3, BaseLengthAssumption DEF BaseVersion

LEMMA ApplyType ==
    ASSUME DeliveryTypeOK, NEW r \in Replicas, NEW op \in issued, AppliesOf(r, op)
    PROVE  /\ version' \in [Replicas -> [Replicas -> Nat]]
           /\ clock' \in [Replicas -> Nat \ {0}]
  <1>1. version[r] \in [Replicas -> Nat] /\ op.timestamp \in Timestamps /\ clock[r] \in Nat
    BY DEF DeliveryTypeOK
  <1>2. Observe(version[r], op.timestamp) \in [Replicas -> Nat]
    BY <1>1, ObserveFacts
  <1>3. Advance(clock[r], op.timestamp) \in Nat \ {0}
    BY <1>1 DEF Advance, Timestamps
  <1>4. version \in [Replicas -> [Replicas -> Nat]] /\ clock \in [Replicas -> Nat \ {0}]
    BY DEF DeliveryTypeOK
  <1> QED
    BY <1>2, <1>3, <1>4 DEF AppliesOf, clockVars

LEMMA TypeInit == Init => DeliveryTypeOK
  <1> SUFFICES ASSUME Init PROVE DeliveryTypeOK
    OBVIOUS
  <1>1. clock \in [Replicas -> Nat \ {0}]
    BY DEF Init, Advance, BaseTimestamp, Timestamp
  <1>2. NoCall \in Calls
    BY ReplicasAssumption DEF NoCall, Calls
  <1> QED
    BY <1>1, <1>2, BaseFacts DEF Init, DeliveryTypeOK

LEMMA IssueType ==
    ASSUME DeliveryTypeOK, NEW r \in Replicas, NEW op, IssueOf(r, op)
    PROVE  /\ op.timestamp \in Timestamps /\ op.timestamp.replica = r
           /\ op.version \in [Replicas -> Nat]
           /\ DeliveryTypeOK'
  <1>1. version[r] \in [Replicas -> Nat] /\ clock[r] \in Nat \ {0}
    BY DEF DeliveryTypeOK
  <1>2. op.timestamp \in Timestamps /\ op.timestamp.replica = r /\ op.version \in [Replicas -> Nat]
    BY <1>1 DEF IssueOf, Timestamp, Timestamps
  <1>3. Observe(version[r], op.timestamp) \in [Replicas -> Nat]
    BY <1>1, <1>2, ObserveFacts
  <1>4. op.timestamp.value + 1 \in Nat \ {0}
    BY <1>2 DEF Timestamps
  <1>5. version' \in [Replicas -> [Replicas -> Nat]] /\ clock' \in [Replicas -> Nat \ {0}]
    BY <1>3, <1>4 DEF IssueOf, DeliveryTypeOK
  <1>6. \A o \in issued' : o.timestamp \in Timestamps /\ o.version \in [Replicas -> Nat]
    BY <1>2 DEF IssueOf, DeliveryTypeOK
  <1>7. inbox' \in [Replicas -> SUBSET issued']
    BY DEF IssueOf, DeliveryTypeOK
  <1>8. deferredOps' \in [Replicas -> SUBSET issued'] /\ deferredReplicas' \in [Replicas -> SUBSET Replicas]
    BY DEF IssueOf, DeliveryTypeOK, deferVars
  <1>9. call' \in Calls'
    BY ReplicasAssumption DEF IssueOf, Idle, NoCall, Calls
  <1> QED
    BY <1>2, <1>5, <1>6, <1>7, <1>8, <1>9 DEF DeliveryTypeOK

LEMMA ReceiveType ==
    ASSUME DeliveryTypeOK, NEW r \in Replicas, Receive(r)
    PROVE  DeliveryTypeOK'
  <1>1. PICK n \in 1..MaxBatch : \E batch \in [1..n -> {o \in issued : o.timestamp.replica # r}] :
            /\ inbox' = [inbox EXCEPT ![r] = @ \ {batch[i] : i \in 1..n}]
            /\ call' = [NoCall EXCEPT !.phase = "batch", !.replica = r, !.batch = batch]
    BY DEF Receive
  <1>2. PICK batch \in [1..n -> {o \in issued : o.timestamp.replica # r}] :
            /\ inbox' = [inbox EXCEPT ![r] = @ \ {batch[i] : i \in 1..n}]
            /\ call' = [NoCall EXCEPT !.phase = "batch", !.replica = r, !.batch = batch]
    BY <1>1
  <1>3. issued' = issued
    BY DEF Receive
  <1>4. batch \in Seq(issued)
    OBVIOUS
  <1>5. call' \in Calls'
    BY <1>2, <1>3, <1>4 DEF NoCall, Calls
  <1>6. inbox' \in [Replicas -> SUBSET issued]
    BY <1>2 DEF DeliveryTypeOK
  <1> QED
    BY <1>5, <1>6 DEF DeliveryTypeOK, Receive, clockVars, deferVars

(* What a call of apply_ops does with an operation it has at hand.          *)
LEMMA HandledType ==
    ASSUME DeliveryTypeOK, NEW r \in Replicas, NEW op \in issued,
           UNCHANGED <<issued, inbox, deferredOps>>,
           \/ AppliesOf(r, op) /\ UNCHANGED deferredReplicas
           \/ Postpone(r, op),
           call' \in Calls'
    PROVE  DeliveryTypeOK'
  <1>1. op.timestamp.replica \in Replicas
    BY DEF DeliveryTypeOK, Timestamps
  <1>2. deferredReplicas' \in [Replicas -> SUBSET Replicas]
    BY <1>1 DEF DeliveryTypeOK, Postpone
  <1>3. version' \in [Replicas -> [Replicas -> Nat]] /\ clock' \in [Replicas -> Nat \ {0}]
    BY ApplyType DEF DeliveryTypeOK, Postpone, clockVars
  <1> QED
    BY <1>2, <1>3 DEF DeliveryTypeOK

LEMMA ApplyStepType ==
    ASSUME DeliveryTypeOK, NEW r \in Replicas, ApplyStep(r)
    PROVE  DeliveryTypeOK'
  <1>1. /\ call.batch \in Seq(issued) /\ call.draining \subseteq issued
        /\ call.postponed \subseteq issued /\ deferredOps[r] \subseteq issued
    BY DEF DeliveryTypeOK, Calls
  <1>2. CASE ApplyFromBatch(r)
    <2>1. Head(call.batch) \in issued /\ Tail(call.batch) \in Seq(issued)
      BY <1>1, <1>2 DEF ApplyFromBatch
    <2>2. \/ call' = [call EXCEPT !.batch = Tail(@)]
          \/ call' = [call EXCEPT !.batch = Tail(@), !.postponed = @ \cup {Head(call.batch)}]
      BY <1>2 DEF ApplyFromBatch
    <2>3. issued' = issued /\ call \in Calls
      BY <1>2 DEF ApplyFromBatch, netVars, DeliveryTypeOK
    <2>4. call' \in Calls'
      <3>1. CASE call' = [call EXCEPT !.batch = Tail(@)]
        BY <2>1, <2>3, <3>1 DEF Calls
      <3>2. CASE call' = [call EXCEPT !.batch = Tail(@), !.postponed = @ \cup {Head(call.batch)}]
        BY <2>1, <2>3, <3>2 DEF Calls
      <3> QED
        BY <2>2, <3>1, <3>2
    <2>5. \/ AppliesOf(r, Head(call.batch)) /\ UNCHANGED deferredReplicas
          \/ Postpone(r, Head(call.batch))
      BY <1>2, ApplyEffect DEF ApplyFromBatch
    <2> QED
      BY <1>2, <2>1, <2>5, <2>4, HandledType DEF ApplyFromBatch, netVars
  <1>3. CASE StartFlush(r)
    <2>1. call' \in Calls'
      BY <1>1, <1>3 DEF StartFlush, DeliveryTypeOK, Calls, netVars
    <2> QED
      BY <1>3, <2>1 DEF StartFlush, DeliveryTypeOK, clockVars, netVars
  <1>4. CASE ApplyFromQueue(r)
    <2>1. PICK op \in call.draining :
             /\ \/ /\ Apply(r, op) /\ UNCHANGED deferredReplicas
                   /\ call' = [call EXCEPT !.draining = @ \ {op}]
                \/ /\ Postpone(r, op)
                   /\ call' = [call EXCEPT !.draining = @ \ {op}, !.postponed = @ \cup {op}]
      BY <1>4 DEF ApplyFromQueue
    <2>2. op \in issued
      BY <1>1, <2>1
    <2>3. issued' = issued /\ call \in Calls
      BY <1>4 DEF ApplyFromQueue, netVars, DeliveryTypeOK
    <2>4. call' \in Calls'
      <3>1. CASE call' = [call EXCEPT !.draining = @ \ {op}]
        BY <2>3, <3>1 DEF Calls
      <3>2. CASE call' = [call EXCEPT !.draining = @ \ {op}, !.postponed = @ \cup {op}]
        BY <2>2, <2>3, <3>2 DEF Calls
      <3> QED
        BY <2>1, <3>1, <3>2
    <2>5. (AppliesOf(r, op) /\ UNCHANGED deferredReplicas) \/ Postpone(r, op)
      BY <2>1, ApplyEffect
    <2> QED
      BY <1>4, <2>2, <2>4, <2>5, HandledType DEF ApplyFromQueue, netVars
  <1>5. CASE EndFlush(r)
    <2>1. call' \in Calls'
      BY <1>5, ReplicasAssumption DEF EndFlush, NoCall, Calls, netVars
    <2> QED
      BY <1>1, <1>5, <2>1 DEF EndFlush, DeliveryTypeOK, clockVars, netVars
  <1> QED
    BY <1>2, <1>3, <1>4, <1>5 DEF ApplyStep

LEMMA TypeStep == DeliveryTypeOK /\ [Next]_vars => DeliveryTypeOK'
  <1> SUFFICES ASSUME DeliveryTypeOK, [Next]_vars PROVE DeliveryTypeOK'
    OBVIOUS
  <1>1. CASE UNCHANGED deliveryVars
    BY <1>1 DEF DeliveryTypeOK, Calls, deliveryVars, clockVars, deferVars
  <1> QED
    BY <1>1, Steps, IssueType, ReceiveType, ApplyStepType

(* The variables that deliver operations keep their types.                  *)
THEOREM DeliveryTypeCorrect == Spec => []DeliveryTypeOK
  BY TypeInit, TypeStep, PTL DEF Spec

-----------------------------------------------------------------------------
(* The inductive invariant.                                                 *)

(* Nobody has observed more of an author than the author, whose clock is    *)
(* past everything it has observed.                                         *)
AuthorsLead ==
    /\ \A r, a \in Replicas : /\ version[r][a] < clock[r]
                              /\ version[r][a] <= version[a][a]
                              /\ BaseVersion[a] <= version[r][a]
    /\ \A o \in issued :
           /\ Observed(version[o.timestamp.replica], o.timestamp)
           /\ \A a \in Replicas : /\ o.version[a] < o.timestamp.value
                                  /\ o.version[a] <= version[a][a]

(* An entry of an operation's version above the base is an operation.       *)
Known(v) ==
    \A a \in Replicas :
        v[a] <= BaseVersion[a] \/ \E p \in issued : p.timestamp = Timestamp(a, v[a])

EntriesIssued ==
    /\ \A r \in Replicas : Known(version[r])
    /\ \A o \in issued : Known(o.version)

(* The operations of one author know of one another.                        *)
Precedes(p, q) == p.timestamp.value < q.timestamp.value /\ Observed(q.version, p.timestamp)

OneAuthorInOrder ==
    \A p, q \in issued :
        p.timestamp.replica = q.timestamp.replica => p = q \/ Precedes(p, q) \/ Precedes(q, p)

(* Who has observed an operation has observed all that its author had.      *)
AppliedInOrder ==
    \A r \in Replicas, o \in issued :
        Observed(version[r], o.timestamp) => ObservedAll(version[r], o.version)

Causality == AuthorsLead /\ EntriesIssued /\ OneAuthorInOrder /\ AppliedInOrder

(* The parts of a call of apply_ops that are in use.                        *)
CallShape ==
    /\ call.phase # "batch" => call.batch = <<>>
    /\ call.phase # "flush" => call.draining = {}
    /\ call.phase = "none" => call = NoCall
    /\ call.phase = "flush" => deferredOps[call.replica] = {}

(* What a flush has put aside cannot be applied, is earlier than what it    *)
(* has yet to look at, and is the reason for each replica that is deferred. *)
FlushInOrder ==
    call.phase = "flush" =>
        /\ \A p \in call.postponed : ~ObservedAll(version[call.replica], p.version)
        /\ \A p \in call.postponed, o \in call.draining : Before(p.timestamp, o.timestamp)
        /\ \A a \in deferredReplicas[call.replica] :
               \E p \in call.postponed : p.timestamp.replica = a

(* While no message is being taken, deferred operations cannot be applied.  *)
DeferredWait ==
    \A r \in Replicas :
        (call.phase = "batch" => call.replica # r) =>
            \A o \in deferredOps[r] : ~ObservedAll(version[r], o.version)

IInv == DeliveryTypeOK /\ Causality /\ CallShape /\ FlushInOrder /\ DeferredWait /\ NoOperationLost
-----------------------------------------------------------------------------
(* Causality is invariant.                                                  *)

LEMMA Numbers ==
    ASSUME DeliveryTypeOK
    PROVE  /\ \A r, a \in Replicas : version[r][a] \in Nat /\ clock[r] \in Nat
           /\ \A a \in Replicas : BaseVersion[a] \in Nat
           /\ \A o \in issued : /\ o.timestamp \in Timestamps
                               /\ o.timestamp.value \in Nat \ {0}
                               /\ o.timestamp.replica \in Replicas
                               /\ DOMAIN o.version = Replicas
                               /\ \A a \in Replicas : o.version[a] \in Nat
  BY BaseFacts DEF DeliveryTypeOK, Timestamps

(* The numbers after a replica has issued an operation.                     *)
LEMMA IssueNumbers ==
    ASSUME DeliveryTypeOK, AuthorsLead, NEW r \in Replicas, NEW op, IssueOf(r, op)
    PROVE  /\ op.timestamp.replica = r
           /\ op.timestamp.value \in Nat
           /\ clock[r] <= op.timestamp.value
           /\ version'[r][r] = op.timestamp.value
           /\ clock'[r] = op.timestamp.value + 1
           /\ \A a \in Replicas : op.version[a] = version[r][a]
           /\ \A s, a \in Replicas : s # r \/ a # r => version'[s][a] = version[s][a]
           /\ \A s \in Replicas : s # r => clock'[s] = clock[s]
  <1>1. op.timestamp \in Timestamps /\ op.timestamp.replica = r
    BY IssueType
  <1>2. /\ version \in [Replicas -> [Replicas -> Nat]]
        /\ clock \in [Replicas -> Nat \ {0}]
        /\ version[r] \in [Replicas -> Nat]
    BY DEF DeliveryTypeOK
  <1>3. /\ version' = [version EXCEPT ![r] = Observe(version[r], op.timestamp)]
        /\ clock' = [clock EXCEPT ![r] = op.timestamp.value + 1]
        /\ op.timestamp.value \in {clock[r], clock[r] + 1}
        /\ op.version = version[r]
    BY DEF IssueOf
  <1>4. version[r][r] < clock[r]
    BY DEF AuthorsLead
  <1>5. op.timestamp.value \in Nat /\ clock[r] \in Nat /\ version[r][r] \in Nat
    BY <1>1, <1>2 DEF Timestamps
  <1>6. clock[r] <= op.timestamp.value /\ version[r][r] < op.timestamp.value
    BY <1>3, <1>4, <1>5
  <1>7. /\ Observe(version[r], op.timestamp)[r] = op.timestamp.value
        /\ \A a \in Replicas : a # r => Observe(version[r], op.timestamp)[a] = version[r][a]
    BY <1>1, <1>2, <1>6, ObserveFacts
  <1> QED
    BY <1>1, <1>2, <1>3, <1>5, <1>6, <1>7

LEMMA IssueCausality ==
    ASSUME DeliveryTypeOK, Causality, NEW r \in Replicas, NEW op, IssueOf(r, op)
    PROVE  Causality'
  <1> USE DEF Observed
  <1>1. /\ op.timestamp.replica = r
        /\ op.timestamp.value \in Nat
        /\ clock[r] <= op.timestamp.value
        /\ version'[r][r] = op.timestamp.value
        /\ clock'[r] = op.timestamp.value + 1
        /\ \A a \in Replicas : op.version[a] = version[r][a]
        /\ \A s, a \in Replicas : s # r \/ a # r => version'[s][a] = version[s][a]
        /\ \A s \in Replicas : s # r => clock'[s] = clock[s]
    BY IssueNumbers DEF Causality
  <1>2. /\ issued' = issued \cup {op}
        /\ op.timestamp = Timestamp(r, op.timestamp.value)
        /\ op.version = version[r]
    BY DEF IssueOf
  <1>3. version[r][r] < op.timestamp.value
    BY <1>1, Numbers DEF Causality, AuthorsLead
  <1>4. \A s, a \in Replicas : version[s][a] <= version'[s][a]
    BY <1>1, <1>3, Numbers
  <1>5. AuthorsLead'
    <2>1. ASSUME NEW s \in Replicas, NEW a \in Replicas
          PROVE  /\ version'[s][a] < clock'[s]
                 /\ version'[s][a] <= version'[a][a]
                 /\ BaseVersion[a] <= version'[s][a]
      BY <1>1, <1>3, <1>4, Numbers DEF Causality, AuthorsLead
    <2>2. ASSUME NEW o \in issued
          PROVE  /\ Observed(version'[o.timestamp.replica], o.timestamp)
                 /\ \A a \in Replicas : /\ o.version[a] < o.timestamp.value
                                        /\ o.version[a] <= version'[a][a]
      <3>1. Observed(version'[o.timestamp.replica], o.timestamp)
        BY <1>1, <1>4, Numbers, IssueType DEF Causality, AuthorsLead, DeliveryTypeOK, Timestamps
      <3>2. \A a \in Replicas : o.version[a] < o.timestamp.value /\ o.version[a] <= version[a][a]
        BY DEF Causality, AuthorsLead
      <3> QED
        BY <1>4, <3>1, <3>2, Numbers, IssueType DEF DeliveryTypeOK
    <2>3. /\ Observed(version'[op.timestamp.replica], op.timestamp)
          /\ \A a \in Replicas : op.version[a] < op.timestamp.value /\ op.version[a] <= version'[a][a]
      BY <1>1, <1>4, <2>1, Numbers DEF Causality, AuthorsLead
    <2> QED
      BY <1>2, <2>1, <2>2, <2>3 DEF AuthorsLead
  <1>6. EntriesIssued'
    <2>1. ASSUME NEW s \in Replicas, NEW a \in Replicas
          PROVE  \/ version'[s][a] <= BaseVersion[a]
                 \/ \E p \in issued' : p.timestamp = Timestamp(a, version'[s][a])
      <3>1. CASE s = r /\ a = r
        BY <1>1, <1>2, <3>1
      <3>2. CASE s # r \/ a # r
        BY <1>1, <1>2, <3>2 DEF Causality, EntriesIssued, Known
      <3> QED
        BY <3>1, <3>2
    <2>2. ASSUME NEW o \in issued', NEW a \in Replicas
          PROVE  \/ o.version[a] <= BaseVersion[a]
                 \/ \E p \in issued' : p.timestamp = Timestamp(a, o.version[a])
      BY <1>1, <1>2 DEF Causality, EntriesIssued, Known
    <2> QED
      BY <2>1, <2>2 DEF EntriesIssued, Known
  <1>7. OneAuthorInOrder'
    <2>1. ASSUME NEW p \in issued, p.timestamp.replica = r
          PROVE  Precedes(p, op)
      BY <1>1, <1>2, <1>3, <2>1, Numbers DEF Causality, AuthorsLead, Precedes
    <2> QED
      BY <1>1, <1>2, <2>1 DEF Causality, OneAuthorInOrder
  <1>8. AppliedInOrder'
    <2> SUFFICES ASSUME NEW s \in Replicas, NEW o \in issued', Observed(version'[s], o.timestamp)
                 PROVE  ObservedAll(version'[s], o.version)
      BY DEF AppliedInOrder
    <2>1. CASE o \in issued
      <3>1. Observed(version[s], o.timestamp)
        BY <1>1, <2>1, Numbers DEF Causality, AuthorsLead
      <3>2. ObservedAll(version[s], o.version)
        BY <2>1, <3>1 DEF Causality, AppliedInOrder
      <3> QED
        BY <1>4, <2>1, <3>2, Numbers, IssueType DEF ObservedAll, DeliveryTypeOK
    <2>2. CASE o = op
      <3>1. s = r
        BY <1>1, <1>3, <2>2, Numbers DEF Causality, AuthorsLead
      <3> QED
        BY <1>1, <1>2, <1>4, <2>2, <3>1, IssueType, Numbers DEF ObservedAll, DeliveryTypeOK
    <2> QED
      BY <1>2, <2>1, <2>2
  <1> QED
    BY <1>5, <1>6, <1>7, <1>8 DEF Causality

(* The numbers after a replica has applied an operation.                    *)
LEMMA ApplyNumbers ==
    ASSUME DeliveryTypeOK, AuthorsLead, NEW r \in Replicas, NEW op \in issued, AppliesOf(r, op)
    PROVE  /\ version'[r][op.timestamp.replica] =
                  IF version[r][op.timestamp.replica] < op.timestamp.value
                  THEN op.timestamp.value ELSE version[r][op.timestamp.replica]
           /\ \A s, a \in Replicas :
                  s # r \/ a # op.timestamp.replica => version'[s][a] = version[s][a]
           /\ \A s \in Replicas : clock[s] <= clock'[s]
           /\ op.timestamp.value < clock'[r]
  <1>1. op.timestamp \in Timestamps /\ op.timestamp.value \in Nat /\ op.timestamp.replica \in Replicas
    BY Numbers
  <1>2. /\ version \in [Replicas -> [Replicas -> Nat]]
        /\ clock \in [Replicas -> Nat \ {0}]
        /\ version[r] \in [Replicas -> Nat]
    BY DEF DeliveryTypeOK
  <1>3. CASE Observed(version[r], op.timestamp) /\ UNCHANGED clockVars
    <2>1. op.timestamp.value <= version[r][op.timestamp.replica]
      BY <1>1, <1>2, <1>3 DEF Observed
    <2>2. version[r][op.timestamp.replica] < clock[r]
      BY <1>1 DEF AuthorsLead
    <2> QED
      BY <1>1, <1>2, <1>3, <2>1, <2>2 DEF clockVars
  <1>4. CASE /\ version' = [version EXCEPT ![r] = Observe(@, op.timestamp)]
             /\ clock' = [clock EXCEPT ![r] = Advance(@, op.timestamp)]
    <2>1. clock[r] \in Nat
      BY <1>2
    <2>2. /\ Advance(clock[r], op.timestamp) \in Nat
          /\ clock[r] <= Advance(clock[r], op.timestamp)
          /\ op.timestamp.value < Advance(clock[r], op.timestamp)
      BY <1>1, <2>1 DEF Advance
    <2>3. clock'[r] = Advance(clock[r], op.timestamp) /\ \A s \in Replicas : s # r => clock'[s] = clock[s]
      BY <1>2, <1>4
    <2>4. \A s \in Replicas : clock[s] \in Nat
      BY <1>2
    <2>5. \A s \in Replicas : clock[s] <= clock'[s]
      BY <2>2, <2>3, <2>4
    <2> QED
      BY <1>1, <1>2, <1>4, <2>2, <2>3, <2>5, ObserveFacts
  <1> QED
    BY <1>3, <1>4 DEF AppliesOf

LEMMA ApplyCausality ==
    ASSUME DeliveryTypeOK, DeliveryTypeOK', Causality, NEW r \in Replicas, NEW op \in issued,
           AppliesOf(r, op), ObservedAll(version[r], op.version), UNCHANGED issued
    PROVE  Causality'
  <1> DEFINE b == op.timestamp.replica
  <1> USE DEF Observed
  <1>1. /\ version'[r][b] = IF version[r][b] < op.timestamp.value THEN op.timestamp.value ELSE version[r][b]
        /\ \A s, a \in Replicas : s # r \/ a # b => version'[s][a] = version[s][a]
        /\ \A s \in Replicas : clock[s] <= clock'[s]
        /\ op.timestamp.value < clock'[r]
    BY ApplyNumbers DEF Causality
  <1>2. /\ op.timestamp.value \in Nat /\ b \in Replicas
        /\ \A s \in Replicas : clock'[s] \in Nat
    BY Numbers DEF DeliveryTypeOK
  <1>3. \A s, a \in Replicas : version[s][a] <= version'[s][a]
    BY <1>1, <1>2, Numbers
  <1>4. op.timestamp.value <= version[b][b]
    BY DEF Causality, AuthorsLead
  <1>5. AuthorsLead'
    <2>1. ASSUME NEW s \in Replicas, NEW a \in Replicas
          PROVE  /\ version'[s][a] < clock'[s]
                 /\ version'[s][a] <= version'[a][a]
                 /\ BaseVersion[a] <= version'[s][a]
      <3>1. /\ version[s][a] < clock[s] /\ version[s][a] <= version[a][a]
            /\ BaseVersion[a] <= version[s][a] /\ version[b][b] <= version'[b][b]
            /\ version[a][a] <= version'[a][a] /\ clock[s] <= clock'[s]
        BY <1>1, <1>2, <1>3 DEF Causality, AuthorsLead
      <3>2. /\ version[s][a] \in Nat /\ version[a][a] \in Nat /\ version[b][b] \in Nat
            /\ clock[s] \in Nat /\ BaseVersion[a] \in Nat /\ version'[a][a] \in Nat
            /\ version'[s][a] \in Nat /\ clock'[s] \in Nat /\ version'[b][b] \in Nat
        BY <1>2, Numbers DEF DeliveryTypeOK
      <3>3. CASE s = r /\ a = b
        BY <1>1, <1>2, <1>4, <3>1, <3>2, <3>3
      <3>4. CASE s # r \/ a # b
        BY <1>1, <3>1, <3>2, <3>4
      <3> QED
        BY <3>3, <3>4
    <2>2. ASSUME NEW o \in issued
          PROVE  /\ Observed(version'[o.timestamp.replica], o.timestamp)
                 /\ \A a \in Replicas : /\ o.version[a] < o.timestamp.value
                                        /\ o.version[a] <= version'[a][a]
      <3>1. /\ o.timestamp.value <= version[o.timestamp.replica][o.timestamp.replica]
            /\ o.timestamp.replica \in Replicas /\ o.timestamp.value \in Nat
        BY Numbers DEF Causality, AuthorsLead
      <3>2. /\ \A s, a \in Replicas : version'[s][a] \in Nat
            /\ \A a \in Replicas : o.version[a] \in Nat
        BY Numbers DEF DeliveryTypeOK
      <3>3. \A a \in Replicas : o.version[a] < o.timestamp.value /\ o.version[a] <= version[a][a]
        BY DEF Causality, AuthorsLead
      <3> QED
        BY <1>3, <3>1, <3>2, <3>3, Numbers
    <2> QED
      BY <2>1, <2>2 DEF AuthorsLead
  <1>6. EntriesIssued'
    <2>1. ASSUME NEW s \in Replicas, NEW a \in Replicas
          PROVE  \/ version'[s][a] <= BaseVersion[a]
                 \/ \E p \in issued : p.timestamp = Timestamp(a, version'[s][a])
      <3>1. CASE version'[s][a] = version[s][a]
        BY <3>1 DEF Causality, EntriesIssued, Known
      <3>2. CASE a = b /\ version'[s][a] = op.timestamp.value
        <4>1. op.timestamp = Timestamp(a, version'[s][a])
          BY <3>2, Numbers DEF Timestamp, Timestamps
        <4> QED
          BY <4>1
      <3> QED
        BY <1>1, <1>2, <3>1, <3>2
    <2> QED
      BY <2>1 DEF Causality, EntriesIssued, Known
  <1>7. OneAuthorInOrder'
    BY DEF Causality, OneAuthorInOrder, Precedes
  <1>8. AppliedInOrder'
    <2> SUFFICES ASSUME NEW s \in Replicas, NEW o \in issued, Observed(version'[s], o.timestamp)
                 PROVE  ObservedAll(version[s], o.version)
      BY <1>3, Numbers DEF AppliedInOrder, ObservedAll, DeliveryTypeOK
    <2>1. CASE Observed(version[s], o.timestamp)
      BY <2>1 DEF Causality, AppliedInOrder
    <2>2. CASE ~Observed(version[s], o.timestamp)
      <3>1. s = r /\ o.timestamp.replica = b /\ o.timestamp.value <= op.timestamp.value
        BY <1>1, <1>2, <2>2, Numbers
      <3>2. o = op \/ Precedes(o, op) \/ Precedes(op, o)
        BY <3>1 DEF Causality, OneAuthorInOrder
      <3>3. ~Precedes(op, o)
        BY <3>1, Numbers DEF Precedes
      <3>4. ~Precedes(o, op)
        <4>1. SUFFICES ASSUME Precedes(o, op) PROVE FALSE
          OBVIOUS
        <4>2. o.timestamp.value <= op.version[b] /\ op.version[b] <= version[r][b]
          BY <1>2, <3>1, <4>1, Numbers DEF Precedes, ObservedAll
        <4> QED
          BY <1>2, <2>2, <3>1, <4>2, Numbers
      <3> QED
        BY <3>1, <3>2, <3>3, <3>4
    <2> QED
      BY <2>1, <2>2
  <1> QED
    BY <1>5, <1>6, <1>7, <1>8 DEF Causality

LEMMA InitCausality == Init => Causality
  <1> SUFFICES ASSUME Init PROVE Causality
    OBVIOUS
  <1>1. \A r, a \in Replicas : version[r][a] = BaseVersion[a] /\ version[r][a] < clock[r]
    <2> SUFFICES ASSUME NEW r \in Replicas, NEW a \in Replicas
                 PROVE  version[r][a] = BaseVersion[a] /\ version[r][a] < clock[r]
      OBVIOUS
    <2>1. version[r][a] = BaseVersion[a]
      BY DEF Init
    <2>2. CASE BaseLength > 0
      <3>1. clock[r] = 2
        BY <2>2 DEF Init, Advance, BaseTimestamp, Timestamp
      <3> QED
        BY <2>1, <3>1, BaseFacts
    <2>3. CASE ~(BaseLength > 0)
      <3>1. clock[r] = 1 /\ BaseLength = 0
        BY <2>3, BaseLengthAssumption DEF Init
      <3> QED
        BY <2>1, <3>1, BaseFacts
    <2> QED
      BY <2>2, <2>3
  <1>2. issued = {}
    BY DEF Init
  <1>3. AuthorsLead
    BY <1>1, <1>2, BaseFacts DEF AuthorsLead
  <1>4. EntriesIssued
    BY <1>1, <1>2, BaseFacts DEF EntriesIssued, Known
  <1> QED
    BY <1>2, <1>3, <1>4 DEF Causality, OneAuthorInOrder, AppliedInOrder

LEMMA SameCausality ==
    ASSUME Causality, UNCHANGED <<clockVars, issued>>
    PROVE  Causality'
  BY DEF Causality, AuthorsLead, EntriesIssued, Known, OneAuthorInOrder, Precedes, AppliedInOrder,
         clockVars

(* All that a call of apply_ops does to clocks is to apply operations.      *)
LEMMA CallApplies ==
    ASSUME DeliveryTypeOK, NEW r \in Replicas, ApplyStep(r)
    PROVE  /\ UNCHANGED <<issued, inbox>>
           /\ call.replica = r
           /\ \/ UNCHANGED clockVars
              \/ \E op \in issued : ObservedAll(version[r], op.version) /\ AppliesOf(r, op)
  <1>1. call.batch \in Seq(issued) /\ call.draining \subseteq issued
    BY DEF DeliveryTypeOK, Calls
  <1>2. CASE ApplyFromBatch(r)
    <2>1. Head(call.batch) \in issued
      BY <1>1, <1>2 DEF ApplyFromBatch
    <2> QED
      BY <1>2, <2>1, ApplyEffect DEF ApplyFromBatch, CanApply, Postpone, netVars
  <1>3. CASE ApplyFromQueue(r)
    <2>1. PICK op \in call.draining : (CanApply(r, op) /\ Apply(r, op)) \/ Postpone(r, op)
      BY <1>3 DEF ApplyFromQueue
    <2>2. op \in issued
      BY <1>1
    <2>3. CASE Postpone(r, op)
      BY <1>3, <2>3 DEF ApplyFromQueue, Postpone, netVars
    <2>4. CASE CanApply(r, op) /\ Apply(r, op)
      BY <1>3, <2>2, <2>4, ApplyEffect DEF ApplyFromQueue, CanApply, netVars
    <2> QED
      BY <2>1, <2>3, <2>4
  <1>4. CASE StartFlush(r) \/ EndFlush(r)
    BY <1>4 DEF StartFlush, EndFlush, netVars
  <1> QED
    BY <1>2, <1>3, <1>4 DEF ApplyStep

LEMMA CausalityStep == DeliveryTypeOK /\ Causality /\ [Next]_vars => Causality'
  <1> SUFFICES ASSUME DeliveryTypeOK, Causality, [Next]_vars PROVE Causality'
    OBVIOUS
  <1>1. CASE UNCHANGED deliveryVars
    BY <1>1, SameCausality DEF deliveryVars
  <1>2. ASSUME NEW r \in Replicas, Receive(r) PROVE Causality'
    BY <1>2, SameCausality DEF Receive
  <1>3. ASSUME NEW r \in Replicas, ApplyStep(r) PROVE Causality'
    <2>1. DeliveryTypeOK'
      BY TypeStep
    <2> QED
      BY <1>3, <2>1, CallApplies, ApplyCausality, SameCausality
  <1> QED
    BY <1>1, <1>2, <1>3, Steps, IssueCausality

-----------------------------------------------------------------------------
(* The flush of deferred operations.                                        *)

(* An operation that cannot be applied still cannot when one that is not    *)
(* earlier has been.                                                        *)
LEMMA StaysUnready ==
    ASSUME DeliveryTypeOK, Causality, NEW r \in Replicas, NEW p \in issued, NEW op \in issued,
           ~ObservedAll(version[r], p.version), ObservedAll(version[r], op.version),
           p.timestamp.value <= op.timestamp.value, AppliesOf(r, op)
    PROVE  ~ObservedAll(version'[r], p.version)
  <1>1. PICK b \in Replicas : version[r][b] < p.version[b]
    BY Numbers DEF ObservedAll
  <1>2. CASE op.timestamp.replica # b
    <2>1. version'[r][b] = version[r][b]
      BY <1>2, ApplyNumbers DEF Causality
    <2> QED
      BY <1>1, <2>1, Numbers DEF ObservedAll
  <1>3. CASE op.timestamp.replica = b
    <2>1. ~(p.version[b] <= BaseVersion[b])
      BY <1>1, Numbers DEF Causality, AuthorsLead
    <2>2. PICK q \in issued : q.timestamp = Timestamp(b, p.version[b])
      BY <2>1 DEF Causality, EntriesIssued, Known
    <2>3. q.timestamp.replica = b /\ q.timestamp.value = p.version[b]
      BY <2>2 DEF Timestamp
    <2>4. q.timestamp.value < op.timestamp.value
      BY <2>3, Numbers DEF Causality, AuthorsLead
    <2>5. Precedes(q, op)
      BY <1>3, <2>3, <2>4, Numbers DEF Causality, OneAuthorInOrder, Precedes
    <2>6. p.version[b] <= op.version[b] /\ op.version[b] <= version[r][b]
      BY <2>3, <2>5, Numbers DEF Precedes, Observed, ObservedAll
    <2> QED
      BY <1>1, <2>6, Numbers
  <1> QED
    BY <1>2, <1>3

(* Nor can one whose author has an earlier one that cannot be applied.      *)
LEMMA BlockedUnready ==
    ASSUME DeliveryTypeOK, Causality, NEW r \in Replicas, NEW p \in issued, NEW op \in issued,
           ~ObservedAll(version[r], p.version), Before(p.timestamp, op.timestamp),
           p.timestamp.replica = op.timestamp.replica
    PROVE  ~ObservedAll(version[r], op.version)
  <1>1. p.timestamp.value < op.timestamp.value
    BY Numbers, ReplicasAssumption DEF Before
  <1>2. Precedes(p, op)
    BY <1>1, Numbers DEF Causality, OneAuthorInOrder, Precedes
  <1>3. ~Observed(version[r], p.timestamp)
    BY DEF Causality, AppliedInOrder
  <1> QED
    BY <1>2, <1>3, Numbers DEF Precedes, Observed, ObservedAll

(* What a flush finds it cannot apply lacks something.                      *)
LEMMA PostponedUnready ==
    ASSUME DeliveryTypeOK, Causality, FlushInOrder, NEW r \in Replicas, call.replica = r,
           call.phase = "flush", NEW op \in call.draining, ~CanApply(r, op)
    PROVE  ~ObservedAll(version[r], op.version)
  <1>1. op \in issued /\ call.postponed \subseteq issued
    BY DEF DeliveryTypeOK, Calls
  <1>2. CASE op.timestamp.replica \in deferredReplicas[r]
    <2>1. PICK p \in call.postponed : p.timestamp.replica = op.timestamp.replica
      BY <1>2 DEF FlushInOrder
    <2>2. ~ObservedAll(version[r], p.version) /\ Before(p.timestamp, op.timestamp)
      BY DEF FlushInOrder
    <2> QED
      BY <1>1, <2>1, <2>2, BlockedUnready
  <1> QED
    BY <1>2 DEF CanApply

LEMMA FlushStep ==
    ASSUME DeliveryTypeOK, Causality, FlushInOrder, NEW r \in Replicas, ApplyFromQueue(r)
    PROVE  FlushInOrder'
  <1>1. /\ call.phase = "flush" /\ call.replica = r
        /\ call.draining \subseteq issued /\ call.postponed \subseteq issued /\ call \in Calls
    BY DEF ApplyFromQueue, DeliveryTypeOK, Calls
  <1>2. /\ \A p \in call.postponed : ~ObservedAll(version[r], p.version)
        /\ \A p \in call.postponed, o \in call.draining : Before(p.timestamp, o.timestamp)
        /\ \A a \in deferredReplicas[r] : \E p \in call.postponed : p.timestamp.replica = a
    BY <1>1 DEF FlushInOrder
  <1>3. PICK op \in call.draining :
           /\ Earliest(call.draining, op)
           /\ \/ /\ CanApply(r, op)
                 /\ Apply(r, op)
                 /\ call' = [call EXCEPT !.draining = @ \ {op}]
                 /\ UNCHANGED deferredReplicas
              \/ /\ ~CanApply(r, op)
                 /\ Postpone(r, op)
                 /\ call' = [call EXCEPT !.draining = @ \ {op}, !.postponed = @ \cup {op}]
    BY DEF ApplyFromQueue
  <1>4. CASE CanApply(r, op)
    <2>1. /\ call'.postponed = call.postponed /\ call'.draining = call.draining \ {op}
          /\ call'.replica = r /\ deferredReplicas' = deferredReplicas
      BY <1>1, <1>3, <1>4 DEF Calls
    <2>2. AppliesOf(r, op) /\ ObservedAll(version[r], op.version)
      BY <1>3, <1>4, ApplyEffect DEF CanApply
    <2>3. \A p \in call.postponed : p.timestamp.value <= op.timestamp.value
      BY <1>1, <1>2, Numbers DEF Before
    <2>4. \A p \in call.postponed : ~ObservedAll(version'[r], p.version)
      BY <1>1, <1>2, <2>2, <2>3, StaysUnready
    <2> QED
      BY <1>2, <2>1, <2>4 DEF FlushInOrder
  <1>5. CASE ~CanApply(r, op)
    <2>1. /\ call'.postponed = call.postponed \cup {op} /\ call'.draining = call.draining \ {op}
          /\ call'.replica = r /\ version' = version
          /\ deferredReplicas' = [deferredReplicas EXCEPT ![r] = @ \cup {op.timestamp.replica}]
      BY <1>1, <1>3, <1>5 DEF Calls, Postpone, clockVars
    <2>2. ~ObservedAll(version[r], op.version)
      BY <1>1, <1>5, PostponedUnready
    <2>3. \A o \in call'.draining : Before(op.timestamp, o.timestamp)
      BY <1>3, <2>1 DEF Earliest
    <2>4. deferredReplicas'[r] = deferredReplicas[r] \cup {op.timestamp.replica}
      BY <2>1 DEF DeliveryTypeOK
    <2>5. \A a \in deferredReplicas'[r] : \E p \in call'.postponed : p.timestamp.replica = a
      BY <1>2, <2>1, <2>4
    <2> QED
      BY <1>2, <2>1, <2>2, <2>3, <2>5 DEF FlushInOrder
  <1> QED
    BY <1>4, <1>5
-----------------------------------------------------------------------------
(* The rest of the invariant.                                               *)

LEMMA IdleFacts ==
    ASSUME Idle
    PROVE  /\ call.phase = "none" /\ call.batch = <<>>
           /\ call.draining = {} /\ call.postponed = {} /\ call.replica = LOCAL_REPLICA
  BY DEF Idle, NoCall

(* The calls of apply_ops that each step leads to.                          *)
LEMMA CallAfter ==
    ASSUME DeliveryTypeOK, NEW r \in Replicas, ApplyStep(r)
    PROVE  \/ /\ ApplyFromBatch(r)
              /\ call'.phase = call.phase /\ call'.replica = r /\ call'.draining = call.draining
              /\ UNCHANGED deferredOps
           \/ /\ StartFlush(r)
              /\ call'.phase = "flush" /\ call'.replica = r
              /\ call'.batch = <<>> /\ call'.postponed = {}
              /\ call'.draining = deferredOps[r] \cup call.postponed
              /\ deferredOps' = [deferredOps EXCEPT ![r] = {}]
              /\ deferredReplicas' = [deferredReplicas EXCEPT ![r] = {}]
              /\ UNCHANGED clockVars
           \/ /\ ApplyFromQueue(r)
              /\ call'.phase = "flush" /\ call'.replica = r /\ call'.batch = call.batch
              /\ UNCHANGED deferredOps
           \/ /\ EndFlush(r)
              /\ call' = NoCall
              /\ deferredOps' = [deferredOps EXCEPT ![r] = call.postponed]
              /\ UNCHANGED clockVars
  <1>1. call \in Calls
    BY DEF DeliveryTypeOK
  <1>2. CASE ApplyFromBatch(r)
    <2>1. \/ call' = [call EXCEPT !.batch = Tail(@)]
          \/ call' = [call EXCEPT !.batch = Tail(@), !.postponed = @ \cup {Head(call.batch)}]
      BY <1>2 DEF ApplyFromBatch
    <2> QED
      BY <1>1, <1>2, <2>1 DEF ApplyFromBatch, Calls
  <1>3. CASE StartFlush(r)
    BY <1>1, <1>3 DEF StartFlush, Calls
  <1>4. CASE ApplyFromQueue(r)
    <2>1. PICK op \in call.draining :
             \/ call' = [call EXCEPT !.draining = @ \ {op}]
             \/ call' = [call EXCEPT !.draining = @ \ {op}, !.postponed = @ \cup {op}]
      BY <1>4 DEF ApplyFromQueue
    <2> QED
      BY <1>1, <1>4, <2>1 DEF ApplyFromQueue, Calls
  <1>5. CASE EndFlush(r)
    BY <1>5 DEF EndFlush
  <1> QED
    BY <1>2, <1>3, <1>4, <1>5 DEF ApplyStep

LEMMA ReceiveAfter ==
    ASSUME NEW r \in Replicas, Receive(r)
    PROVE  /\ call'.phase = "batch" /\ call'.replica = r /\ call'.draining = {}
           /\ inbox \in [Replicas -> SUBSET issued] => inbox[r] \subseteq inbox'[r] \cup Range(call'.batch)
           /\ \A s \in Replicas : s # r => inbox'[s] = inbox[s]
           /\ UNCHANGED <<clockVars, deferVars, issued>>
  <1>1. PICK n \in 1..MaxBatch : \E batch \in [1..n -> {o \in issued : o.timestamp.replica # r}] :
            /\ inbox' = [inbox EXCEPT ![r] = @ \ {batch[i] : i \in 1..n}]
            /\ call' = [NoCall EXCEPT !.phase = "batch", !.replica = r, !.batch = batch]
    BY DEF Receive
  <1>2. PICK batch \in [1..n -> {o \in issued : o.timestamp.replica # r}] :
            /\ inbox' = [inbox EXCEPT ![r] = @ \ {batch[i] : i \in 1..n}]
            /\ call' = [NoCall EXCEPT !.phase = "batch", !.replica = r, !.batch = batch]
    BY <1>1
  <1>3. /\ call'.phase = "batch" /\ call'.replica = r /\ call'.draining = {} /\ call'.batch = batch
    BY <1>2 DEF NoCall
  <1>4. Range(call'.batch) = {batch[i] : i \in 1..n}
    BY <1>3 DEF Range
  <1>5. inbox \in [Replicas -> SUBSET issued] => inbox[r] \subseteq inbox'[r] \cup Range(call'.batch)
    BY <1>2, <1>4
  <1>6. inbox' = [inbox EXCEPT ![r] = @ \ {batch[i] : i \in 1..n}]
    BY <1>2
  <1> QED
    BY <1>3, <1>5, <1>6 DEF Receive

LEMMA CallShapeStep == DeliveryTypeOK /\ CallShape /\ [Next]_vars => CallShape'
  <1> SUFFICES ASSUME DeliveryTypeOK, CallShape, [Next]_vars PROVE CallShape'
    OBVIOUS
  <1>1. CASE UNCHANGED deliveryVars
    BY <1>1 DEF CallShape, deliveryVars, deferVars
  <1>2. ASSUME NEW r \in Replicas, NEW op, IssueOf(r, op) PROVE CallShape'
    BY <1>2 DEF CallShape, IssueOf, deferVars
  <1>3. ASSUME NEW r \in Replicas, Receive(r) PROVE CallShape'
    BY <1>3, ReceiveAfter DEF CallShape
  <1>4. ASSUME NEW r \in Replicas, ApplyStep(r) PROVE CallShape'
    <2>1. CASE ApplyFromBatch(r)
      BY <1>4, <2>1, CallAfter DEF CallShape, ApplyFromBatch, StartFlush, ApplyFromQueue, EndFlush
    <2>2. CASE StartFlush(r)
      BY <1>4, <2>2, CallAfter DEF CallShape, DeliveryTypeOK, ApplyFromBatch, StartFlush,
            ApplyFromQueue, EndFlush
    <2>3. CASE ApplyFromQueue(r)
      <3>1. /\ call'.phase = "flush" /\ call'.replica = r /\ call'.batch = call.batch
            /\ UNCHANGED deferredOps /\ call.phase = "flush" /\ call.replica = r
        BY <1>4, <2>3, CallAfter DEF ApplyFromBatch, StartFlush, ApplyFromQueue, EndFlush, NoCall
      <3> QED
        BY <3>1 DEF CallShape
    <2>4. CASE EndFlush(r)
      BY <2>4 DEF CallShape, EndFlush, NoCall
    <2> QED
      BY <1>4, <2>1, <2>2, <2>3, <2>4 DEF ApplyStep
  <1> QED
    BY <1>1, <1>2, <1>3, <1>4, Steps

LEMMA FlushInOrderStep ==
    DeliveryTypeOK /\ Causality /\ FlushInOrder /\ [Next]_vars => FlushInOrder'
  <1> SUFFICES ASSUME DeliveryTypeOK, Causality, FlushInOrder, [Next]_vars PROVE FlushInOrder'
    OBVIOUS
  <1>1. CASE UNCHANGED deliveryVars
    BY <1>1 DEF FlushInOrder, deliveryVars, deferVars, clockVars
  <1>2. ASSUME NEW r \in Replicas, NEW op, IssueOf(r, op) PROVE FlushInOrder'
    BY <1>2, IdleFacts DEF FlushInOrder, IssueOf
  <1>3. ASSUME NEW r \in Replicas, Receive(r) PROVE FlushInOrder'
    BY <1>3, ReceiveAfter DEF FlushInOrder
  <1>4. ASSUME NEW r \in Replicas, ApplyStep(r) PROVE FlushInOrder'
    <2>1. CASE ApplyFromBatch(r)
      BY <2>1, <1>4, CallAfter DEF FlushInOrder, ApplyFromBatch, StartFlush, ApplyFromQueue, EndFlush, NoCall
    <2>2. CASE StartFlush(r)
      <3>1. call'.phase = "flush" /\ call'.replica = r /\ call'.postponed = {} /\ deferredReplicas'[r] = {}
        BY <2>2 DEF StartFlush, DeliveryTypeOK, Calls
      <3> QED
        BY <3>1 DEF FlushInOrder
    <2>3. CASE ApplyFromQueue(r)
      BY <2>3, FlushStep
    <2>4. CASE EndFlush(r)
      BY <2>4 DEF FlushInOrder, EndFlush, NoCall
    <2> QED
      BY <1>4, <2>1, <2>2, <2>3, <2>4 DEF ApplyStep
  <1> QED
    BY <1>1, <1>2, <1>3, <1>4, Steps

(* A step of a call changes what its own replica has observed and deferred. *)
LEMMA OthersKeep ==
    ASSUME DeliveryTypeOK, NEW r \in Replicas, ApplyStep(r), NEW s \in Replicas, s # r
    PROVE  version'[s] = version[s] /\ deferredOps'[s] = deferredOps[s]
  <1>1. version \in [Replicas -> [Replicas -> Nat]] /\ deferredOps \in [Replicas -> SUBSET issued]
    BY DEF DeliveryTypeOK
  <1>2. version'[s] = version[s]
    BY <1>1, CallApplies DEF AppliesOf, clockVars
  <1>3. deferredOps'[s] = deferredOps[s]
    BY <1>1, CallAfter
  <1> QED
    BY <1>2, <1>3

LEMMA DeferredWaitStep ==
    /\ DeliveryTypeOK /\ Causality /\ CallShape /\ FlushInOrder /\ DeferredWait
    /\ [Next]_vars
    => DeferredWait'
  <1> SUFFICES ASSUME DeliveryTypeOK, Causality, CallShape, FlushInOrder, DeferredWait, [Next]_vars
               PROVE  DeferredWait'
    OBVIOUS
  <1>1. CASE UNCHANGED deliveryVars
    BY <1>1 DEF DeferredWait, deliveryVars, deferVars, clockVars
  <1>2. ASSUME NEW r \in Replicas, NEW op, IssueOf(r, op) PROVE DeferredWait'
    <2>1. ASSUME NEW s \in Replicas, NEW o \in deferredOps[s]
          PROVE  ~ObservedAll(version'[s], o.version)
      <3>1. o \in issued
        BY DEF DeliveryTypeOK
      <3>2. ~ObservedAll(version[s], o.version)
        BY <1>2, IdleFacts DEF DeferredWait, IssueOf
      <3>3. PICK b \in Replicas : version[s][b] < o.version[b]
        BY <3>1, <3>2, Numbers DEF ObservedAll
      <3>4. o.version[b] <= version[b][b]
        BY <3>1 DEF Causality, AuthorsLead
      <3>5. s # r \/ b # r
        BY <3>1, <3>3, <3>4, Numbers
      <3>6. version'[s][b] = version[s][b]
        BY <1>2, <3>5, IssueNumbers DEF Causality
      <3> QED
        BY <3>1, <3>3, <3>6, Numbers DEF ObservedAll
    <2> QED
      BY <1>2, <2>1 DEF DeferredWait, IssueOf, deferVars
  <1>3. ASSUME NEW r \in Replicas, Receive(r) PROVE DeferredWait'
    BY <1>3, ReceiveAfter, IdleFacts DEF DeferredWait, Receive, clockVars, deferVars
  <1>4. ASSUME NEW r \in Replicas, ApplyStep(r) PROVE DeferredWait'
    <2>1. call.replica = r /\ (call'.phase = "batch" => call'.replica = r)
      BY <1>4, CallApplies, CallAfter DEF NoCall
    <2>2. ASSUME NEW s \in Replicas, s # r, NEW o \in deferredOps'[s]
          PROVE  ~ObservedAll(version'[s], o.version)
      BY <1>4, <2>1, <2>2, OthersKeep DEF DeferredWait
    <2>3. ASSUME call'.phase = "batch" => call'.replica # r, NEW o \in deferredOps'[r]
          PROVE  ~ObservedAll(version'[r], o.version)
      <3>1. CASE ApplyFromBatch(r)
        BY <1>4, <2>3, <3>1, CallAfter DEF ApplyFromBatch, StartFlush, ApplyFromQueue, EndFlush
      <3>2. CASE StartFlush(r)
        BY <2>3, <3>2 DEF StartFlush, DeliveryTypeOK
      <3>3. CASE ApplyFromQueue(r)
        BY <2>3, <3>3 DEF ApplyFromQueue, CallShape
      <3>4. CASE EndFlush(r)
        BY <2>3, <3>4 DEF EndFlush, FlushInOrder, DeliveryTypeOK, clockVars
      <3> QED
        BY <1>4, <3>1, <3>2, <3>3, <3>4 DEF ApplyStep
    <2> QED
      BY <2>2, <2>3 DEF DeferredWait
  <1> QED
    BY <1>1, <1>2, <1>3, <1>4, Steps

-----------------------------------------------------------------------------
(* No operation is lost.                                                    *)

(* What a replica has observed it has observed for good.                    *)
LEMMA StaysObserved ==
    ASSUME DeliveryTypeOK, Causality, [Next]_vars, NEW s \in Replicas, NEW o \in issued,
           Observed(version[s], o.timestamp)
    PROVE  Observed(version'[s], o.timestamp)
  <1> DEFINE a == o.timestamp.replica
  <1>1. a \in Replicas /\ o.timestamp.value \in Nat /\ version[s][a] >= o.timestamp.value
    BY Numbers DEF Observed
  <1>2. version'[s][a] \in Nat /\ version[s][a] \in Nat
    BY <1>1, TypeStep, Numbers DEF DeliveryTypeOK
  <1>3. CASE UNCHANGED deliveryVars
    BY <1>3 DEF deliveryVars, clockVars
  <1>4. ASSUME NEW r \in Replicas, NEW op, IssueOf(r, op)
        PROVE  version[s][a] <= version'[s][a]
    <2>1. version[r][r] < clock[r] /\ version[r][r] \in Nat /\ clock[r] \in Nat
      BY Numbers DEF Causality, AuthorsLead
    <2> QED
      BY <1>1, <1>2, <1>4, <2>1, IssueNumbers DEF Causality
  <1>5. ASSUME NEW r \in Replicas, Receive(r)
        PROVE  version' = version
    BY <1>5, ReceiveAfter DEF clockVars
  <1>6. ASSUME NEW r \in Replicas, ApplyStep(r)
        PROVE  version[s][a] <= version'[s][a]
    <2>1. CASE UNCHANGED clockVars
      BY <1>2, <2>1 DEF clockVars
    <2>2. ASSUME NEW op \in issued, AppliesOf(r, op)
          PROVE  version[s][a] <= version'[s][a]
      BY <1>1, <1>2, <2>2, ApplyNumbers, Numbers DEF Causality
    <2> QED
      BY <1>6, <2>1, <2>2, CallApplies
  <1> QED
    BY <1>1, <1>2, <1>3, <1>4, <1>5, <1>6, Steps DEF Observed

(* What a call of apply_ops takes in hand is observed or put aside.         *)
LEMMA AppliedIsObserved ==
    ASSUME DeliveryTypeOK, Causality, NEW r \in Replicas, NEW op \in issued, AppliesOf(r, op)
    PROVE  Observed(version'[r], op.timestamp)
  <1>1. /\ op.timestamp.value \in Nat /\ op.timestamp.replica \in Replicas
        /\ version[r][op.timestamp.replica] \in Nat
    BY Numbers
  <1> QED
    BY <1>1, ApplyNumbers DEF Causality, Observed

LEMMA RangeOfHead ==
    ASSUME NEW S, NEW s \in Seq(S), s # <<>>
    PROVE  Range(s) \subseteq {Head(s)} \cup Range(Tail(s))
  <1> SUFFICES ASSUME NEW i \in 1..Len(s)
               PROVE  s[i] \in {Head(s)} \cup Range(Tail(s))
    BY DEF Range
  <1>1. CASE i = 1
    BY <1>1
  <1>2. CASE i # 1
    <2>1. /\ i - 1 \in 1..Len(Tail(s))
          /\ Tail(s)[i - 1] = s[i]
          /\ DOMAIN Tail(s) = 1..Len(Tail(s))
      BY <1>2
    <2> QED
      BY <2>1 DEF Range
  <1> QED
    BY <1>1, <1>2

InHand(c) == Range(c.batch) \cup c.draining \cup c.postponed

LEMMA CallKeeps ==
    ASSUME DeliveryTypeOK, Causality, CallShape, NEW r \in Replicas, ApplyStep(r),
           NEW o \in deferredOps[r] \cup InHand(call)
    PROVE  \/ Observed(version'[r], o.timestamp)
           \/ o \in deferredOps'[r] \cup InHand(call')
  <1>1. /\ call \in Calls /\ call.batch \in Seq(issued) /\ call.draining \subseteq issued
        /\ deferredOps \in [Replicas -> SUBSET issued]
    BY DEF DeliveryTypeOK, Calls
  <1>2. CASE ApplyFromBatch(r)
    <2> DEFINE op == Head(call.batch)
    <2>1. /\ call.batch # <<>> /\ op \in issued /\ Tail(call.batch) \in Seq(issued)
          /\ UNCHANGED deferredOps
      BY <1>1, <1>2 DEF ApplyFromBatch
    <2>2. Range(call.batch) \subseteq {op} \cup Range(Tail(call.batch))
      BY <1>1, <2>1, RangeOfHead
    <2>3. CASE Apply(r, op) /\ call' = [call EXCEPT !.batch = Tail(@)]
      <3>1. InHand(call) \subseteq {op} \cup InHand(call')
        BY <1>1, <2>2, <2>3 DEF InHand, Calls
      <3>2. Observed(version'[r], op.timestamp)
        BY <2>1, <2>3, ApplyEffect, AppliedIsObserved
      <3> QED
        BY <2>1, <3>1, <3>2
    <2>4. CASE call' = [call EXCEPT !.batch = Tail(@), !.postponed = @ \cup {op}]
      <3>1. InHand(call) \subseteq InHand(call')
        BY <1>1, <2>2, <2>4 DEF InHand, Calls
      <3> QED
        BY <2>1, <3>1
    <2> QED
      BY <1>2, <2>3, <2>4 DEF ApplyFromBatch
  <1>3. CASE StartFlush(r)
    <2>1. /\ call.batch = <<>> /\ call.draining = {}
          /\ call'.draining = deferredOps[r] \cup call.postponed
      BY <1>1, <1>3 DEF StartFlush, CallShape, Calls
    <2> QED
      BY <2>1 DEF InHand, Range
  <1>4. CASE ApplyFromQueue(r)
    <2>1. PICK op \in call.draining :
             \/ Apply(r, op) /\ call' = [call EXCEPT !.draining = @ \ {op}]
             \/ call' = [call EXCEPT !.draining = @ \ {op}, !.postponed = @ \cup {op}]
      BY <1>4 DEF ApplyFromQueue
    <2>2. op \in issued /\ UNCHANGED deferredOps
      BY <1>1, <1>4, <2>1 DEF ApplyFromQueue
    <2>3. CASE Apply(r, op) /\ call' = [call EXCEPT !.draining = @ \ {op}]
      <3>1. InHand(call) \subseteq {op} \cup InHand(call')
        BY <1>1, <2>3 DEF InHand, Calls
      <3>2. Observed(version'[r], op.timestamp)
        BY <2>2, <2>3, ApplyEffect, AppliedIsObserved
      <3> QED
        BY <2>2, <3>1, <3>2
    <2>4. CASE call' = [call EXCEPT !.draining = @ \ {op}, !.postponed = @ \cup {op}]
      <3>1. InHand(call) \subseteq InHand(call')
        BY <1>1, <2>4 DEF InHand, Calls
      <3> QED
        BY <2>2, <3>1
    <2> QED
      BY <2>1, <2>3, <2>4
  <1>5. CASE EndFlush(r)
    <2>1. /\ call.batch = <<>> /\ call.draining = {} /\ deferredOps[r] = {}
          /\ deferredOps'[r] = call.postponed
      BY <1>1, <1>5 DEF EndFlush, CallShape
    <2> QED
      BY <2>1 DEF InHand, Range
  <1> QED
    BY <1>2, <1>3, <1>4, <1>5 DEF ApplyStep

(* Where NoOperationLost looks for what replica s has not observed.         *)
Pending(s) == inbox[s] \cup deferredOps[s] \cup (IF call.replica = s THEN InHand(call) ELSE {})

LEMMA LostOrPending ==
    NoOperationLost <=>
        \A s \in Replicas : \A o \in issued : Observed(version[s], o.timestamp) \/ o \in Pending(s)
  BY DEF NoOperationLost, Pending, InHand

LEMMA PendingStep ==
    ASSUME DeliveryTypeOK, Causality, CallShape, [Next]_vars,
           NEW s \in Replicas, NEW o \in issued, o \in Pending(s)
    PROVE  Observed(version'[s], o.timestamp) \/ o \in Pending(s)'
  <1>1. CASE UNCHANGED deliveryVars
    BY <1>1 DEF Pending, InHand, deliveryVars, deferVars
  <1>2. ASSUME NEW r \in Replicas, NEW op, IssueOf(r, op) PROVE o \in Pending(s)'
    BY <1>2 DEF Pending, InHand, IssueOf, deferVars
  <1>3. ASSUME NEW r \in Replicas, Receive(r) PROVE o \in Pending(s)'
    <2>1. InHand(call) = {}
      BY <1>3, IdleFacts DEF Receive, InHand, Range
    <2>2. o \in inbox[s] \cup deferredOps[s]
      BY <2>1 DEF Pending
    <2>3. CASE s = r
      BY <1>3, <2>2, <2>3, ReceiveAfter DEF Pending, InHand, deferVars, DeliveryTypeOK
    <2>4. CASE s # r
      BY <1>3, <2>2, <2>4, ReceiveAfter DEF Pending, deferVars
    <2> QED
      BY <2>3, <2>4
  <1>4. ASSUME NEW r \in Replicas, ApplyStep(r)
        PROVE  Observed(version'[s], o.timestamp) \/ o \in Pending(s)'
    <2>1. inbox' = inbox /\ call.replica = r
      BY <1>4, CallApplies
    <2>2. CASE s # r
      <3>1. o \in inbox[s] \cup deferredOps[s]
        BY <2>1, <2>2 DEF Pending
      <3> QED
        BY <1>4, <2>1, <2>2, <3>1, OthersKeep DEF Pending
    <2>3. CASE s = r
      <3>1. CASE o \in inbox[s]
        BY <2>1, <3>1 DEF Pending
      <3>2. CASE o \in deferredOps[r] \cup InHand(call)
        <4>1. Observed(version'[r], o.timestamp) \/ o \in deferredOps'[r] \cup InHand(call')
          BY <1>4, <3>2, CallKeeps
        <4>2. call'.replica = r \/ InHand(call') = {}
          BY <1>4, CallAfter DEF NoCall, InHand, Range
        <4> QED
          BY <2>3, <4>1, <4>2 DEF Pending, InHand
      <3> QED
        BY <2>1, <2>3, <3>1, <3>2 DEF Pending
    <2> QED
      BY <2>2, <2>3
  <1> QED
    BY <1>1, <1>2, <1>3, <1>4, Steps

LEMMA NoOperationLostStep ==
    DeliveryTypeOK /\ Causality /\ CallShape /\ NoOperationLost /\ [Next]_vars => NoOperationLost'
  <1> SUFFICES ASSUME DeliveryTypeOK, Causality, CallShape, NoOperationLost, [Next]_vars,
                      NEW s \in Replicas, NEW o \in issued'
               PROVE  Observed(version'[s], o.timestamp) \/ o \in Pending(s)'
    BY LostOrPending DEF NoOperationLost, Pending, InHand
  <1>1. CASE o \in issued
    BY <1>1, LostOrPending, StaysObserved, PendingStep
  <1>2. CASE o \notin issued
    <2>1. PICK r \in Replicas : \E op : IssueOf(r, op)
      BY <1>2, Steps, ReceiveAfter, CallApplies DEF deliveryVars
    <2>2. IssueOf(r, o)
      BY <1>2, <2>1 DEF IssueOf
    <2>3. CASE s = r
      BY <2>2, <2>3, IssueNumbers DEF Causality, Observed
    <2>4. CASE s # r
      BY <2>2, <2>4 DEF IssueOf, Pending
    <2> QED
      BY <2>3, <2>4
  <1> QED
    BY <1>1, <1>2

-----------------------------------------------------------------------------
(* The invariant and what follows from it.                                  *)

LEMMA InvariantInit == Init => IInv
  <1> SUFFICES ASSUME Init PROVE IInv
    OBVIOUS
  <1>1. /\ call = NoCall /\ issued = {}
        /\ \A r \in Replicas : deferredOps[r] = {}
    BY DEF Init
  <1>2. CallShape /\ FlushInOrder
    BY <1>1 DEF CallShape, FlushInOrder, NoCall
  <1>3. DeferredWait /\ NoOperationLost
    BY <1>1 DEF DeferredWait, NoOperationLost
  <1> QED
    BY <1>2, <1>3, TypeInit, InitCausality DEF IInv

LEMMA InvariantStep == IInv /\ [Next]_vars => IInv'
  BY TypeStep, CausalityStep, CallShapeStep, FlushInOrderStep, DeferredWaitStep, NoOperationLostStep
     DEF IInv

LEMMA Invariance == Spec => []IInv
  BY InvariantInit, InvariantStep, PTL DEF Spec

(* No operation is lost: what a replica lacks is on its way to it, deferred *)
(* by it or in the hands of its call of apply_ops, whatever the batches,    *)
(* their order, and the operations delivered again.                         *)
THEOREM NoOperationIsLost == Spec => []NoOperationLost
  <1>1. IInv => NoOperationLost
    BY DEF IInv
  <1> QED
    BY <1>1, Invariance, PTL

(* One pass through the queue in the order of timestamps is enough: when    *)
(* apply_ops returns, no deferred operation has all it depends on.          *)
THEOREM NothingReadyStaysDeferred == Spec => []NothingReadyIsDeferred
  <1>1. IInv => NothingReadyIsDeferred
    BY IdleFacts DEF IInv, DeferredWait, NothingReadyIsDeferred
  <1> QED
    BY <1>1, Invariance, PTL

-----------------------------------------------------------------------------
(* The delivery of operations implements CausalDelivery.                    *)

(* The ids of the operations observed in a version.                         *)
Seen(v) == {o.timestamp : o \in {q \in issued : Observed(v, q.timestamp)}}

(* The state of CausalDelivery.                                             *)
Operations == {[id |-> o.timestamp, after |-> Seen(o.version)] : o \in issued}
Applied == [r \in Replicas |-> Seen(version[r])]

(* A new operation is beyond what any replica or operation has observed.    *)
LEMMA IssueUnseen ==
    ASSUME DeliveryTypeOK, Causality, NEW r \in Replicas, NEW op, IssueOf(r, op)
    PROVE  /\ \A s \in Replicas : ~Observed(version[s], op.timestamp)
           /\ \A o \in issued : ~Observed(o.version, op.timestamp) /\ o.timestamp # op.timestamp
  <1>1. /\ op.timestamp.replica = r /\ op.timestamp.value \in Nat
        /\ version[r][r] < op.timestamp.value
    BY IssueNumbers, Numbers DEF Causality, AuthorsLead
  <1>2. \A s \in Replicas : ~Observed(version[s], op.timestamp)
    BY <1>1, Numbers DEF Causality, AuthorsLead, Observed
  <1>3. \A o \in issued : ~Observed(o.version, op.timestamp)
    BY <1>1, Numbers DEF Causality, AuthorsLead, Observed
  <1>4. \A o \in issued : o.timestamp # op.timestamp
    BY <1>2, Numbers DEF Causality, AuthorsLead
  <1> QED
    BY <1>2, <1>3, <1>4

LEMMA IssueIsIssue ==
    ASSUME DeliveryTypeOK, Causality, NEW r \in Replicas, NEW op, IssueOf(r, op)
    PROVE  /\ Operations' = Operations \cup {[id |-> op.timestamp, after |-> Applied[r]]}
           /\ Applied' = [Applied EXCEPT ![r] = @ \cup {op.timestamp}]
           /\ op.timestamp \notin {o.id : o \in Operations}
  <1>1. issued' = issued \cup {op} /\ op.version = version[r]
    BY DEF IssueOf
  <1>2. ASSUME NEW v, ~Observed(v, op.timestamp)
        PROVE  {o.timestamp : o \in {q \in issued' : Observed(v, q.timestamp)}} = Seen(v)
    BY <1>1, <1>2 DEF Seen
  <1>3. Operations' = Operations \cup {[id |-> op.timestamp, after |-> Applied[r]]}
    <2>1. Operations' = {[id |-> o.timestamp,
                          after |-> {p.timestamp : p \in {q \in issued' : Observed(o.version, q.timestamp)}}] :
                             o \in issued'}
      BY DEF Operations, Seen
    <2>2. \A o \in issued' :
              {p.timestamp : p \in {q \in issued' : Observed(o.version, q.timestamp)}} = Seen(o.version)
      BY <1>1, <1>2, IssueUnseen
    <2>3. Operations' = {[id |-> o.timestamp, after |-> Seen(o.version)] : o \in issued'}
      BY <2>1, <2>2
    <2> QED
      BY <1>1, <2>3 DEF Operations, Applied
  <1>4. Applied' = [Applied EXCEPT ![r] = @ \cup {op.timestamp}]
    <2>1. Applied' = [s \in Replicas |->
                         {o.timestamp : o \in {q \in issued' : Observed(version'[s], q.timestamp)}}]
      BY DEF Applied, Seen
    <2>2. ASSUME NEW s \in Replicas, s # r
          PROVE  version'[s] = version[s]
      BY <2>2 DEF IssueOf, DeliveryTypeOK
    <2>3. ASSUME NEW o \in issued
          PROVE  Observed(version'[r], o.timestamp) <=> Observed(version[r], o.timestamp)
      <3>1. /\ o.timestamp.replica \in Replicas /\ o.timestamp.value \in Nat
            /\ o.timestamp.replica = r => version[r][r] >= o.timestamp.value
        BY Numbers DEF Causality, AuthorsLead, Observed
      <3>2. /\ version[r][r] < op.timestamp.value /\ version[r][r] \in Nat
            /\ op.timestamp.value \in Nat
        BY IssueNumbers, Numbers DEF Causality, AuthorsLead
      <3> QED
        BY <3>1, <3>2, IssueNumbers DEF Causality, Observed
    <2>4. Observed(version'[r], op.timestamp)
      BY IssueNumbers DEF Causality, Observed
    <2>5. {o.timestamp : o \in {q \in issued' : Observed(version'[r], q.timestamp)}}
              = Seen(version[r]) \cup {op.timestamp}
      BY <1>1, <2>3, <2>4 DEF Seen
    <2>6. \A s \in Replicas : s # r =>
              {o.timestamp : o \in {q \in issued' : Observed(version'[s], q.timestamp)}} = Seen(version[s])
      BY <1>2, <2>2, IssueUnseen
    <2> QED
      BY <2>1, <2>5, <2>6 DEF Applied
  <1>5. op.timestamp \notin {o.id : o \in Operations}
    BY IssueUnseen DEF Operations
  <1> QED
    BY <1>3, <1>4, <1>5

LEMMA ApplyIsApply ==
    ASSUME DeliveryTypeOK, Causality, NEW r \in Replicas, NEW op \in issued, UNCHANGED issued,
           AppliesOf(r, op), ObservedAll(version[r], op.version), ~Observed(version[r], op.timestamp)
    PROVE  /\ Operations' = Operations
           /\ Applied' = [Applied EXCEPT ![r] = @ \cup {op.timestamp}]
           /\ op.timestamp \notin Applied[r]
           /\ Seen(op.version) \subseteq Applied[r]
  <1> DEFINE b == op.timestamp.replica
  <1>1. Operations' = Operations
    BY DEF Operations, Seen
  <1>2. b \in Replicas /\ op.timestamp.value \in Nat /\ version[r][b] \in Nat
    BY Numbers
  <1>3. version[r][b] < op.timestamp.value
    BY <1>2 DEF Observed
  <1>4. version'[r][b] = op.timestamp.value /\ \A a \in Replicas : a # b => version'[r][a] = version[r][a]
    BY <1>2, <1>3, ApplyNumbers DEF Causality
  <1>5. ASSUME NEW o \in issued, o # op
        PROVE  Observed(version'[r], o.timestamp) <=> Observed(version[r], o.timestamp)
    <2>1. o.timestamp.replica \in Replicas /\ o.timestamp.value \in Nat
      BY Numbers
    <2>2. CASE o.timestamp.replica # b
      BY <1>4, <2>1, <2>2 DEF Observed
    <2>3. CASE o.timestamp.replica = b
      <3>1. Precedes(o, op) \/ Precedes(op, o)
        BY <1>5, <2>3 DEF Causality, OneAuthorInOrder
      <3>2. CASE Precedes(o, op)
        <4>1. /\ o.timestamp.value <= op.version[b] /\ op.version[b] <= version[r][b]
              /\ op.version[b] \in Nat
          BY <1>2, <2>1, <2>3, <3>2, Numbers DEF Precedes, Observed, ObservedAll
        <4> QED
          BY <1>2, <1>3, <1>4, <2>1, <2>3, <4>1 DEF Observed
      <3>3. CASE Precedes(op, o)
        BY <1>2, <1>3, <1>4, <2>1, <2>3, <3>3 DEF Precedes, Observed
      <3> QED
        BY <3>1, <3>2, <3>3
    <2> QED
      BY <2>2, <2>3
  <1>6. Observed(version'[r], op.timestamp)
    BY AppliedIsObserved
  <1>7. Applied' = [Applied EXCEPT ![r] = @ \cup {op.timestamp}]
    <2>1. Applied' = [s \in Replicas |->
                         {o.timestamp : o \in {q \in issued : Observed(version'[s], q.timestamp)}}]
      BY DEF Applied, Seen
    <2>2. \A s \in Replicas : s # r => version'[s] = version[s]
      BY DEF AppliesOf, clockVars, DeliveryTypeOK
    <2>3. {o.timestamp : o \in {q \in issued : Observed(version'[r], q.timestamp)}}
              = Seen(version[r]) \cup {op.timestamp}
      BY <1>5, <1>6 DEF Seen
    <2>4. \A s \in Replicas : s # r =>
              {o.timestamp : o \in {q \in issued : Observed(version'[s], q.timestamp)}} = Seen(version[s])
      BY <2>2 DEF Seen
    <2> QED
      BY <2>1, <2>3, <2>4 DEF Applied
  <1>8. op.timestamp \notin Applied[r]
    BY DEF Applied, Seen
  <1>9. Seen(op.version) \subseteq Applied[r]
    <2> SUFFICES ASSUME NEW o \in issued, Observed(op.version, o.timestamp)
                 PROVE  Observed(version[r], o.timestamp)
      BY DEF Applied, Seen
    <2> QED
      BY Numbers DEF Observed, ObservedAll
  <1> QED
    BY <1>1, <1>7, <1>8, <1>9

LEMMA DeliveryStep ==
    ASSUME IInv, [Next]_vars
    PROVE  [Delivery!Next]_<<Operations, Applied>>
  <1> USE DEF IInv
  <1>1. ASSUME UNCHANGED <<version, issued>>
        PROVE  UNCHANGED <<Operations, Applied>>
    BY <1>1 DEF Operations, Applied, Seen
  <1>2. ASSUME NEW r \in Replicas, NEW op, IssueOf(r, op)
        PROVE  Delivery!Issue(r)
    <2> DEFINE o == [id |-> op.timestamp, after |-> Applied[r]]
    <2>1. /\ Operations' = Operations \cup {o}
          /\ Applied' = [Applied EXCEPT ![r] = @ \cup {op.timestamp}]
          /\ op.timestamp \notin {q.id : q \in Operations}
      BY <1>2, IssueIsIssue
    <2> HIDE DEF Operations, Applied
    <2>2. o \in Operations' /\ o.id = op.timestamp /\ o.after = Applied[r]
      BY <2>1
    <2> QED
      BY <2>1, <2>2 DEF Delivery!Issue, Delivery!Ids, Operations, Applied, Seen
  <1>3. ASSUME NEW r \in Replicas, ApplyStep(r)
        PROVE  Delivery!Apply(r) \/ UNCHANGED <<Operations, Applied>>
    <2>1. UNCHANGED issued
      BY <1>3, CallApplies
    <2>2. CASE version' = version
      BY <1>1, <2>1, <2>2
    <2>3. CASE version' # version
      <3>1. PICK op \in issued : /\ AppliesOf(r, op)
                                 /\ ObservedAll(version[r], op.version)
                                 /\ ~Observed(version[r], op.timestamp)
        BY <1>3, <2>3, CallApplies DEF AppliesOf, clockVars
      <3> DEFINE o == [id |-> op.timestamp, after |-> Seen(op.version)]
      <3>2. /\ Operations' = Operations
            /\ Applied' = [Applied EXCEPT ![r] = @ \cup {o.id}]
            /\ o.id \notin Applied[r]
            /\ o.after \subseteq Applied[r]
        BY <2>1, <3>1, ApplyIsApply
      <3>3. o \in Operations
        BY <3>1 DEF Operations
      <3> QED
        BY <3>2, <3>3 DEF Delivery!Apply, Operations, Applied, Seen
    <2> QED
      BY <2>2, <2>3
  <1>4. ASSUME NEW r \in Replicas, Receive(r)
        PROVE  UNCHANGED <<version, issued>>
    BY <1>4, ReceiveAfter DEF clockVars
  <1>5. UNCHANGED deliveryVars => UNCHANGED <<version, issued>>
    BY DEF deliveryVars, clockVars
  <1> QED
    BY <1>1, <1>2, <1>3, <1>4, <1>5, Steps DEF Delivery!Next

(* Each replica applies every operation at most once, after all that its    *)
(* author had applied before: the version vector stands for the set of      *)
(* operations observed, although it only holds the latest of each author.   *)
THEOREM DeliversInCausalOrder == Spec => DeliversCausally
  <1>1. Init => Delivery!Init
    BY DEF Init, Delivery!Init
  <1>2. IInv /\ [Next]_vars => [Delivery!Next]_(Delivery!vars)
    BY DeliveryStep DEF Delivery!vars, Operations, Applied, Seen
  <1> QED
    BY <1>1, <1>2, Invariance, PTL DEF Spec, DeliversCausally, Delivery!Spec
=============================================================================
