------------------------------ MODULE TextBuffer ------------------------------
(***************************************************************************)
(* The replicas of one text buffer (Buffer, crates/text/src/text.rs) that  *)
(* the host of a project and its guests edit at the same time: the edits   *)
(* and undos each makes, the operations they exchange, the delivery of     *)
(* those operations in causal order, and the requests a guest makes of the *)
(* language server that runs at the host (crates/project/src).             *)
(*                                                                         *)
(* The network loses nothing for good, but delivers in any order and more  *)
(* than once: a guest that reconnects is sent again what it may lack.      *)
(*                                                                         *)
(* Every operation of a buffer runs to its end in one turn of one thread.  *)
(* apply_ops is modelled one operation at a time, and nothing else happens *)
(* during a call: replicas share no state, so that whatever another one    *)
(* does meanwhile could as well be done before or after.                   *)
(***************************************************************************)
EXTENDS Fragments

CONSTANTS
    Replicas,       \* the ReplicaIds of the host and its guests
    BaseLength,     \* characters of the text the buffer is opened with
    MaxInsertion,   \* bound: characters inserted by an edit
    MaxEdits,       \* bound: edits made by all replicas
    MaxUndos,       \* bound: undos and redos made by all replicas
    MaxBatch,       \* bound: operations in one message
    MaxRepeats,     \* bound: operations delivered again
    MaxRequests,    \* bound: requests made of the language server
    RequestKinds    \* which of "rename", "onTypeFormatting" guests make

LOCAL_REPLICA == 0   \* ReplicaId::LOCAL, the host of a local project

ASSUME ReplicasAssumption == Replicas \subseteq Nat /\ LOCAL_REPLICA \in Replicas
ASSUME BaseLengthAssumption == BaseLength \in Nat
ASSUME RequestKindsAssumption == RequestKinds \subseteq {"rename", "onTypeFormatting"}

VARIABLES
    fragments,         \* BufferSnapshot's fragments (and insertion_slices)
    undoMap,           \* its undo_map
    version,           \* its version
    clock,             \* the next value of lamport_clock
    deferredOps,       \* deferred_ops
    deferredReplicas,  \* deferred_replicas
    undoStack,         \* history.undo_stack
    redoStack,         \* history.redo_stack
    versionWaiters,    \* wait_for_version_txs
    editWaiters,       \* edit_id_resolvers
    call,              \* the call of apply_ops that runs, if any
    issued,            \* history: every operation issued
    inbox,             \* operations on their way to each replica
    repeats,           \* number of operations delivered again
    requests           \* requests made of the language server, oldest first

textVars == <<fragments, undoMap>>
clockVars == <<version, clock>>
deferVars == <<deferredOps, deferredReplicas>>
historyVars == <<undoStack, redoStack>>
waitVars == <<versionWaiters, editWaiters>>
netVars == <<issued, inbox, repeats>>
vars == <<textVars, clockVars, deferVars, historyVars, waitVars, netVars, call, requests>>

-----------------------------------------------------------------------------

Timestamps == [replica : Replicas, value : Nat \ {0}]

(* The insertion of the text the buffer is opened with, which every replica *)
(* has observed.                                                            *)
BaseTimestamp == Timestamp(LOCAL_REPLICA, 1)

BaseVersion ==
    LET none == [r \in Replicas |-> 0] IN
    IF BaseLength > 0 THEN Observe(none, BaseTimestamp) ELSE none

(* A transaction of the undo history: its edits, and whether later ones may *)
(* no longer be grouped with it (suppress_grouping).                        *)
Entry(edits, sealed) == [edits |-> edits, sealed |-> sealed]

(* No call of apply_ops runs.                                               *)
NoCall == [phase |-> "none", replica |-> LOCAL_REPLICA,
           batch |-> <<>>, draining |-> {}, postponed |-> {}]

Idle == call = NoCall

Edits == {o \in issued : o.kind = "edit"}
Undos == {o \in issued : o.kind = "undo"}

Init ==
    /\ fragments = [r \in Replicas |-> Insertion(BaseTimestamp, BaseLength)]
    /\ undoMap = [r \in Replicas |-> {}]
    /\ version = [r \in Replicas |-> BaseVersion]
    /\ clock = [r \in Replicas |-> IF BaseLength > 0 THEN Advance(1, BaseTimestamp) ELSE 1]
    /\ deferredOps = [r \in Replicas |-> {}]
    /\ deferredReplicas = [r \in Replicas |-> {}]
    /\ undoStack = [r \in Replicas |-> <<>>]
    /\ redoStack = [r \in Replicas |-> <<>>]
    /\ versionWaiters = [r \in Replicas |-> {}]
    /\ editWaiters = [r \in Replicas |-> {}]
    /\ call = NoCall
    /\ issued = {}
    /\ inbox = [r \in Replicas |-> {}]
    /\ repeats = 0
    /\ requests = <<>>

-----------------------------------------------------------------------------
(* What a replica does to its own text, and sends to the others.            *)

Broadcast(r, op) ==
    /\ issued' = issued \cup {op}
    /\ inbox' = [q \in Replicas |-> IF q = r THEN inbox[q] ELSE inbox[q] \cup {op}]
    /\ UNCHANGED repeats

(* Edit replica r's text, in a transaction of its own.  The transaction     *)
(* draws the first value of the clock for its id, the edit the next one.    *)
EditTimestamp(r) == Timestamp(r, clock[r] + 1)

MakeEdit(r) ==
    /\ Cardinality(Edits) < MaxEdits
    /\ \E start \in 0..VisibleLength(fragments[r]), length \in 0..MaxInsertion :
       \E end \in start..VisibleLength(fragments[r]) :
           /\ start < end \/ length > 0
           /\ fragments' = [fragments EXCEPT ![r] =
                               ApplyLocalEdit(@, EditTimestamp(r), start, end, length)]
           /\ Broadcast(r, [kind |-> "edit", timestamp |-> EditTimestamp(r),
                            version |-> version[r],
                            start |-> LocalPlace(fragments[r], start),
                            end |-> LocalEnd(fragments[r], start, end),
                            length |-> length])
    /\ version' = [version EXCEPT ![r] = Observe(@, EditTimestamp(r))]
    /\ clock' = [clock EXCEPT ![r] = @ + 2]
    /\ UNCHANGED undoMap

(* Merge the last n transactions of a stack into the one before them.       *)
GroupTrailing(stack, n) ==
    LET kept == Len(stack) - n IN
    [SubSeq(stack, 1, kept) EXCEPT ![kept].edits =
        UNION {stack[i].edits : i \in kept..Len(stack)}]

(* The transactions grouped are those less than group_interval apart, which *)
(* is any number of the last ones, up to one that is sealed.                *)
Edit(r) ==
    /\ Idle
    /\ MakeEdit(r)
    /\ LET stack == Append(undoStack[r], Entry({EditTimestamp(r)}, FALSE)) IN
       \E n \in 0..(Len(stack) - 1) :
           /\ \A i \in (Len(stack) - n)..(Len(stack) - 1) : ~stack[i].sealed
           /\ undoStack' = [undoStack EXCEPT ![r] = GroupTrailing(stack, n)]
    /\ redoStack' = [redoStack EXCEPT ![r] = <<>>]
    /\ UNCHANGED <<deferVars, waitVars, call, requests>>

(* Mutant: an undo operation always counts 1.                               *)
UndoOrRedoCountingOne(r, edits) ==
    LET op == [kind |-> "undo", timestamp |-> Timestamp(r, clock[r]), version |-> version[r],
               counts |-> [e \in edits |-> 1]]
        undos == WithUndo(undoMap[r], op)
    IN /\ Cardinality(Undos) < MaxUndos
       /\ undoMap' = [undoMap EXCEPT ![r] = undos]
       /\ fragments' = [fragments EXCEPT ![r] = ApplyUndo(@, op, undos)]
       /\ version' = [version EXCEPT ![r] = Observe(@, op.timestamp)]
       /\ clock' = [clock EXCEPT ![r] = @ + 1]
       /\ Broadcast(r, op)

(* Undo the edits, or redo those already undone: one more than the count    *)
(* each had.                                                                *)
UndoOrRedo(r, edits) ==
    LET op == [kind |-> "undo", timestamp |-> Timestamp(r, clock[r]), version |-> version[r],
               counts |-> [e \in edits |-> UndoCount(undoMap[r], e) + 1]]
        undos == WithUndo(undoMap[r], op)
    IN /\ Cardinality(Undos) < MaxUndos
       /\ undoMap' = [undoMap EXCEPT ![r] = undos]
       /\ fragments' = [fragments EXCEPT ![r] = ApplyUndo(@, op, undos)]
       /\ version' = [version EXCEPT ![r] = Observe(@, op.timestamp)]
       /\ clock' = [clock EXCEPT ![r] = @ + 1]
       /\ Broadcast(r, op)

(* undo takes the last transaction, undo_transaction any.                   *)
Undo(r) ==
    /\ Idle
    /\ \E i \in DOMAIN undoStack[r] :
           /\ UndoOrRedo(r, undoStack[r][i].edits)
           /\ undoStack' = [undoStack EXCEPT ![r] = SubSeq(@, 1, i - 1) \o SubSeq(@, i + 1, Len(@))]
           /\ redoStack' = [redoStack EXCEPT ![r] = Append(@, undoStack[r][i])]
    /\ UNCHANGED <<deferVars, waitVars, call, requests>>

Redo(r) ==
    /\ Idle
    /\ LET last == Len(redoStack[r]) IN
       /\ last > 0
       /\ UndoOrRedo(r, redoStack[r][last].edits)
       /\ undoStack' = [undoStack EXCEPT ![r] = Append(@, redoStack[r][last])]
       /\ redoStack' = [redoStack EXCEPT ![r] = SubSeq(@, 1, last - 1)]
    /\ UNCHANGED <<deferVars, waitVars, call, requests>>

-----------------------------------------------------------------------------
(* The operations of other replicas.                                        *)

(* A message arrives: operations on their way, and some delivered before.   *)
Receive(r) ==
    /\ Idle
    /\ \E n \in 1..MaxBatch :
       \E batch \in [1..n -> {o \in issued : o.timestamp.replica # r}] :
           /\ repeats' = repeats + Cardinality({i \in 1..n : batch[i] \notin inbox[r]})
           /\ repeats' <= MaxRepeats
           /\ inbox' = [inbox EXCEPT ![r] = @ \ {batch[i] : i \in 1..n}]
           /\ call' = [NoCall EXCEPT !.phase = "batch", !.replica = r, !.batch = batch]
    /\ UNCHANGED <<textVars, clockVars, deferVars, historyVars, waitVars, issued, requests>>

(* Mutant: an operation does not wait for those it depends on.              *)
CanApplyOnArrival(r, op) == op.timestamp.replica \notin deferredReplicas[r]

CanApply(r, op) ==
    /\ op.timestamp.replica \notin deferredReplicas[r]
    /\ ObservedAll(version[r], op.version)

(* Mutant: an edit that arrives wakes nobody who waits for it.              *)
ApplyWithoutResolving(r, op) ==
    LET undos == WithUndo(undoMap[r], op) IN
    /\ IF Observed(version[r], op.timestamp)
       THEN UNCHANGED <<textVars, clockVars>>
       ELSE /\ version' = [version EXCEPT ![r] = Observe(@, op.timestamp)]
            /\ clock' = [clock EXCEPT ![r] = Advance(@, op.timestamp)]
            /\ \/ /\ op.kind = "edit"
                  /\ fragments' = [fragments EXCEPT ![r] = ApplyRemoteEdit(@, op, undoMap[r])]
                  /\ UNCHANGED undoMap
               \/ /\ op.kind = "undo"
                  /\ undoMap' = [undoMap EXCEPT ![r] = undos]
                  /\ fragments' = [fragments EXCEPT ![r] = ApplyUndo(@, op, undos)]
    /\ UNCHANGED editWaiters
    /\ versionWaiters' = [versionWaiters EXCEPT ![r] =
                             {w \in @ : ~ObservedAll(version'[r], w.version)}]

(* An operation that was observed before changes nothing.                   *)
Apply(r, op) ==
    LET undos == WithUndo(undoMap[r], op) IN
    /\ IF Observed(version[r], op.timestamp)
       THEN UNCHANGED <<textVars, clockVars, editWaiters>>
       ELSE /\ version' = [version EXCEPT ![r] = Observe(@, op.timestamp)]
            /\ clock' = [clock EXCEPT ![r] = Advance(@, op.timestamp)]
            /\ \/ /\ op.kind = "edit"
                  /\ fragments' = [fragments EXCEPT ![r] = ApplyRemoteEdit(@, op, undoMap[r])]
                  /\ editWaiters' = [editWaiters EXCEPT ![r] =
                                        {w \in @ : w.edit # op.timestamp}]
                  /\ UNCHANGED undoMap
               \/ /\ op.kind = "undo"
                  /\ undoMap' = [undoMap EXCEPT ![r] = undos]
                  /\ fragments' = [fragments EXCEPT ![r] = ApplyUndo(@, op, undos)]
                  /\ UNCHANGED editWaiters
    /\ versionWaiters' = [versionWaiters EXCEPT ![r] =
                             {w \in @ : ~ObservedAll(version'[r], w.version)}]

Postpone(r, op) ==
    /\ deferredReplicas' = [deferredReplicas EXCEPT ![r] = @ \cup {op.timestamp.replica}]
    /\ UNCHANGED <<textVars, clockVars, waitVars>>

(* Take the operations of the message in their order.                       *)
ApplyFromBatch(r) ==
    /\ call.phase = "batch" /\ call.replica = r /\ call.batch # <<>>
    /\ LET op == Head(call.batch) IN
       \/ /\ CanApply(r, op)
          /\ Apply(r, op)
          /\ call' = [call EXCEPT !.batch = Tail(@)]
          /\ UNCHANGED deferredReplicas
       \/ /\ ~CanApply(r, op)
          /\ Postpone(r, op)
          /\ call' = [call EXCEPT !.batch = Tail(@), !.postponed = @ \cup {op}]
    /\ UNCHANGED <<deferredOps, historyVars, netVars, requests>>

(* Mutant: deferred_replicas is not cleared, so that nobody is let through. *)
StartFlushWithoutClearing(r) ==
    /\ call.phase = "batch" /\ call.replica = r /\ call.batch = <<>>
    /\ call' = [call EXCEPT !.phase = "flush", !.postponed = {},
                            !.draining = deferredOps[r] \cup call.postponed]
    /\ deferredOps' = [deferredOps EXCEPT ![r] = {}]
    /\ UNCHANGED <<textVars, clockVars, deferredReplicas, historyVars, waitVars, netVars, requests>>

(* Then try every deferred operation once more.                             *)
StartFlush(r) ==
    /\ call.phase = "batch" /\ call.replica = r /\ call.batch = <<>>
    /\ call' = [call EXCEPT !.phase = "flush", !.postponed = {},
                            !.draining = deferredOps[r] \cup call.postponed]
    /\ deferredOps' = [deferredOps EXCEPT ![r] = {}]
    /\ deferredReplicas' = [deferredReplicas EXCEPT ![r] = {}]
    /\ UNCHANGED <<textVars, clockVars, historyVars, waitVars, netVars, requests>>

(* ... in the order of their timestamps, in which the queue keeps them.     *)
Earliest(ops, op) ==
    /\ op \in ops
    /\ \A o \in ops \ {op} : Before(op.timestamp, o.timestamp)

ApplyFromQueue(r) ==
    /\ call.phase = "flush" /\ call.replica = r
    /\ \E op \in call.draining :
       /\ Earliest(call.draining, op)
       /\ \/ /\ CanApply(r, op)
             /\ Apply(r, op)
             /\ call' = [call EXCEPT !.draining = @ \ {op}]
             /\ UNCHANGED deferredReplicas
          \/ /\ ~CanApply(r, op)
             /\ Postpone(r, op)
             /\ call' = [call EXCEPT !.draining = @ \ {op}, !.postponed = @ \cup {op}]
    /\ UNCHANGED <<deferredOps, historyVars, netVars, requests>>

(* Mutant: what is still not applicable is not put back into the queue.     *)
EndFlushDropping(r) ==
    /\ call.phase = "flush" /\ call.replica = r /\ call.draining = {}
    /\ call' = NoCall
    /\ UNCHANGED <<textVars, clockVars, deferVars, historyVars, waitVars, netVars, requests>>

EndFlush(r) ==
    /\ call.phase = "flush" /\ call.replica = r /\ call.draining = {}
    /\ deferredOps' = [deferredOps EXCEPT ![r] = call.postponed]
    /\ call' = NoCall
    /\ UNCHANGED <<textVars, clockVars, deferredReplicas, historyVars, waitVars, netVars, requests>>

-----------------------------------------------------------------------------
(* A guest asks the host's language server to change the text.  The host    *)
(* makes the edit and forgets its transaction, which becomes the guest's.   *)

SendRequest(r) ==
    /\ Idle
    /\ r # LOCAL_REPLICA
    /\ Len(requests) < MaxRequests
    /\ \E kind \in RequestKinds, anchor \in {f.timestamp : f \in Range(fragments[r])} :
           requests' = Append(requests, [stage |-> "sent", from |-> r, kind |-> kind, edits |-> {},
                                         version |-> version[r], anchor |-> anchor])
    /\ UNCHANGED <<textVars, clockVars, deferVars, historyVars, waitVars, netVars, call>>

(* The host waits for the guest's version, in PerformRename::from_proto, or *)
(* for the edit that inserted the text at the guest's cursor: to format as  *)
(* the guest types, handle_on_type_formatting (lsp_store.rs 10300-10326)    *)
(* calls apply_on_type_formatting (5585-5589) and no from_proto.            *)
ReceiveRequest(i) ==
    LET q == requests[i] IN
    /\ Idle
    /\ q.stage = "sent"
    /\ requests' = [requests EXCEPT ![i].stage = "waiting"]
    /\ \/ /\ q.kind = "rename"
          /\ versionWaiters' = [versionWaiters EXCEPT ![LOCAL_REPLICA] =
                 IF ObservedAll(version[LOCAL_REPLICA], q.version) THEN @
                 ELSE @ \cup {[request |-> i, version |-> q.version]}]
          /\ UNCHANGED editWaiters
       \/ /\ q.kind = "onTypeFormatting"
          /\ editWaiters' = [editWaiters EXCEPT ![LOCAL_REPLICA] =
                 IF Observed(version[LOCAL_REPLICA], q.anchor) THEN @
                 ELSE @ \cup {[request |-> i, edit |-> q.anchor]}]
          /\ UNCHANGED versionWaiters
    /\ UNCHANGED <<textVars, clockVars, deferVars, historyVars, netVars, call>>

NoWaiter(r, i) == \A w \in versionWaiters[r] \cup editWaiters[r] : w.request # i

(* finalize_last_transaction                                                *)
Sealed(stack) == [i \in DOMAIN stack |-> IF i = Len(stack) THEN Entry(stack[i].edits, TRUE)
                                                          ELSE stack[i]]

(* Mutant: the guest is told the id of the transaction, not of its edit.    *)
AnswerRequestWithTransactionId(i) ==
    LET r == LOCAL_REPLICA IN
    /\ Idle
    /\ requests[i].stage = "waiting"
    /\ NoWaiter(r, i)
    /\ MakeEdit(r)
    /\ requests' = [requests EXCEPT ![i].stage = "answered", ![i].edits = {Timestamp(r, clock[r])}]
    /\ undoStack' = [undoStack EXCEPT ![r] = Sealed(@)]
    /\ redoStack' = [redoStack EXCEPT ![r] = <<>>]
    /\ UNCHANGED <<deferVars, waitVars, call>>

(* Mutant: the host keeps the transaction in its own history too.           *)
AnswerRequestKeeping(i) ==
    LET r == LOCAL_REPLICA IN
    /\ Idle
    /\ requests[i].stage = "waiting"
    /\ NoWaiter(r, i)
    /\ MakeEdit(r)
    /\ requests' = [requests EXCEPT ![i].stage = "answered", ![i].edits = {EditTimestamp(r)}]
    /\ undoStack' = [undoStack EXCEPT ![r] = Append(Sealed(@), Entry({EditTimestamp(r)}, TRUE))]
    /\ redoStack' = [redoStack EXCEPT ![r] = <<>>]
    /\ UNCHANGED <<deferVars, waitVars, call>>

AnswerRequest(i) ==
    LET r == LOCAL_REPLICA IN
    /\ Idle
    /\ requests[i].stage = "waiting"
    /\ NoWaiter(r, i)
    /\ MakeEdit(r)
    /\ requests' = [requests EXCEPT ![i].stage = "answered", ![i].edits = {EditTimestamp(r)}]
    /\ undoStack' = [undoStack EXCEPT ![r] = Sealed(@)]
    /\ redoStack' = [redoStack EXCEPT ![r] = <<>>]
    /\ UNCHANGED <<deferVars, waitVars, call>>

(* Mutant: the guest waits for edits without a look at what it has observed. *)
ReceiveAnswerUnchecked(i) ==
    LET q == requests[i] IN
    /\ Idle
    /\ q.stage = "answered"
    /\ requests' = [requests EXCEPT ![i].stage = "pushing"]
    /\ editWaiters' = [editWaiters EXCEPT ![q.from] = @ \cup
                           {[request |-> i, edit |-> e] : e \in q.edits}]
    /\ UNCHANGED <<textVars, clockVars, deferVars, historyVars, netVars, versionWaiters, call>>

(* The guest waits for the edits, except when it formatted as it typed.     *)
ReceiveAnswer(i) ==
    LET q == requests[i] IN
    /\ Idle
    /\ q.stage = "answered"
    /\ requests' = [requests EXCEPT ![i].stage = "pushing"]
    /\ \/ /\ q.kind = "rename"
          /\ editWaiters' = [editWaiters EXCEPT ![q.from] = @ \cup
                 {[request |-> i, edit |-> e] :
                     e \in {t \in q.edits : ~Observed(version[q.from], t)}}]
       \/ /\ q.kind = "onTypeFormatting"
          /\ UNCHANGED editWaiters
    /\ UNCHANGED <<textVars, clockVars, deferVars, historyVars, netVars, versionWaiters, call>>

(* push_transaction, finalize_last_transaction                              *)
PushTransaction(i) ==
    LET q == requests[i] IN
    /\ Idle
    /\ q.stage = "pushing"
    /\ NoWaiter(q.from, i)
    /\ requests' = [requests EXCEPT ![i].stage = "done"]
    /\ undoStack' = [undoStack EXCEPT ![q.from] = Append(@, Entry(q.edits, TRUE))]
    /\ UNCHANGED <<textVars, clockVars, deferVars, redoStack, waitVars, netVars, call>>

-----------------------------------------------------------------------------

ApplyStep(r) == ApplyFromBatch(r) \/ StartFlush(r) \/ ApplyFromQueue(r) \/ EndFlush(r)

RequestStep(i) == ReceiveRequest(i) \/ AnswerRequest(i) \/ ReceiveAnswer(i) \/ PushTransaction(i)

Next ==
    \/ \E r \in Replicas :
           Edit(r) \/ Undo(r) \/ Redo(r) \/ Receive(r) \/ ApplyStep(r) \/ SendRequest(r)
    \/ \E i \in DOMAIN requests : RequestStep(i)

Spec == Init /\ [][Next]_vars

(* What is sent is delivered in the end, a call of apply_ops goes on to its *)
(* end, and so does the handling of a request.                              *)
Deliver(r) == Receive(r) /\ inbox'[r] # inbox[r]

FairSpec ==
    /\ Spec
    /\ \A r \in Replicas : WF_vars(Deliver(r)) /\ WF_vars(ApplyStep(r))
    /\ \A i \in 1..MaxRequests : WF_vars(i \in DOMAIN requests /\ RequestStep(i))

-----------------------------------------------------------------------------
(* Type correctness.                                                        *)

EditTimestamps == {e.timestamp : e \in Edits}

Character ==
    [timestamp : Timestamps, offset : Nat, visible : BOOLEAN, deletions : SUBSET EditTimestamps]

Calls ==
    [phase : {"none", "batch", "flush"}, replica : Replicas, batch : Seq(issued),
     draining : SUBSET issued, postponed : SUBSET issued]

(* The variables of the delivery of operations.                             *)
DeliveryTypeOK ==
    /\ version \in [Replicas -> [Replicas -> Nat]]
    /\ clock \in [Replicas -> Nat \ {0}]
    /\ \A o \in issued : o.timestamp \in Timestamps /\ o.version \in [Replicas -> Nat]
    /\ inbox \in [Replicas -> SUBSET issued]
    /\ deferredOps \in [Replicas -> SUBSET issued]
    /\ deferredReplicas \in [Replicas -> SUBSET Replicas]
    /\ call \in Calls

TypeOK ==
    /\ DeliveryTypeOK
    /\ \A o \in Edits : o.start \in Nat /\ o.end \in Nat /\ o.start <= o.end /\ o.length \in Nat
    /\ \A o \in Undos : /\ DOMAIN o.counts \subseteq EditTimestamps
                       /\ \A e \in DOMAIN o.counts : o.counts[e] \in Nat \ {0}
    /\ fragments \in [Replicas -> Seq(Character)]
    /\ \A r \in Replicas : \A u \in undoMap[r] :
           \E o \in Undos : /\ u.undo = o.timestamp
                           /\ u.edit \in DOMAIN o.counts
                           /\ u.count = o.counts[u.edit]
    /\ \A r \in Replicas : \A e \in Range(undoStack[r]) \cup Range(redoStack[r]) :
           e.edits \subseteq EditTimestamps /\ e.edits # {} /\ e.sealed \in BOOLEAN

-----------------------------------------------------------------------------
(* Safety.                                                                  *)

(* Replicas that have observed the same operations hold the same text, down *)
(* to the order of deleted characters, in whatever order, grouping and      *)
(* repetition apply_ops was given the operations: what test_random_         *)
(* concurrent_edits asserts of the final texts, at every moment.            *)
SameVersionSameText ==
    \A r, s \in Replicas : version[r] = version[s] => fragments[r] = fragments[s]

(* The characters that two replicas both hold stand in the same order at    *)
(* both, at every moment: apply_remote_edit finds the place of an insertion *)
(* without a look at where any other replica put it.                        *)
SameCharacter(f, g) == f.timestamp = g.timestamp /\ f.offset = g.offset

OneOrder ==
    \A r, s \in Replicas : \A i \in DOMAIN fragments[r], k \in DOMAIN fragments[s] :
        SameCharacter(fragments[r][i], fragments[s][k]) =>
            \A j \in DOMAIN fragments[r], l \in DOMAIN fragments[s] :
                SameCharacter(fragments[r][j], fragments[s][l]) => (i < j <=> k < l)

(* The flag that a fragment carries from one operation to the next is what  *)
(* its insertion, its deletions and all undos of them amount to: apply_undo *)
(* and apply_remote_edit only ever update the fragments they touch.         *)
VisibleIsCurrent ==
    \A r \in Replicas : \A f \in Range(fragments[r]) : f.visible = IsVisible(f, undoMap[r])

(* An operation a replica has not observed is on its way to it, deferred by *)
(* it, or in the hands of its call of apply_ops.                            *)
NoOperationLost ==
    \A r \in Replicas : \A o \in issued :
        \/ Observed(version[r], o.timestamp)
        \/ o \in inbox[r] \cup deferredOps[r]
        \/ call.replica = r /\ o \in Range(call.batch) \cup call.draining \cup call.postponed

(* apply_ops leaves no operation deferred that could be applied, although   *)
(* flush_deferred_ops goes through the queue only once.                     *)
NothingReadyIsDeferred ==
    Idle => \A r \in Replicas : \A o \in deferredOps[r] : ~ObservedAll(version[r], o.version)

(* Nobody waits for a version or an edit that has been observed: apply_op   *)
(* looks for waiters to wake, the replica's own edits and undos do not.     *)
WaitersWait ==
    \A r \in Replicas :
        /\ \A w \in versionWaiters[r] : ~ObservedAll(version[r], w.version)
        /\ \A w \in editWaiters[r] : ~Observed(version[r], w.edit)

(* Each transaction that a replica could undo is done there, each one it    *)
(* could redo is undone, whatever was grouped, undone out of order, undone  *)
(* at the same time elsewhere or taken over from the host.                  *)
UndoHistoryIsCurrent ==
    \A r \in Replicas :
        /\ \A e \in Range(undoStack[r]) : \A t \in e.edits : ~IsUndone(undoMap[r], t)
        /\ \A e \in Range(redoStack[r]) : \A t \in e.edits : IsUndone(undoMap[r], t)

(* A transaction is in one undo history at most, so that no two replicas    *)
(* toggle the same edits.                                                   *)
OneHistoryPerEdit ==
    \A r, s \in Replicas : r # s =>
        (UNION {e.edits : e \in Range(undoStack[r]) \cup Range(redoStack[r])})
            \cap (UNION {e.edits : e \in Range(undoStack[s]) \cup Range(redoStack[s])}) = {}

(* The version vector says which operations were applied, and each was      *)
(* applied once, after all those its author had applied before.             *)
Delivery == INSTANCE CausalDelivery WITH
    issued <- {[id |-> o.timestamp,
                after |-> {p.timestamp : p \in {q \in issued : Observed(o.version, q.timestamp)}}] :
                   o \in issued},
    applied <- [r \in Replicas |->
                   {o.timestamp : o \in {q \in issued : Observed(version[r], q.timestamp)}}]

DeliversCausally == Delivery!Spec

-----------------------------------------------------------------------------
(* Liveness.                                                                *)

(* Every replica gets to observe every operation.                           *)
Converges == <>[](\A r \in Replicas, o \in issued : Observed(version[r], o.timestamp))

(* The host gets to know the version a request waits for, and the guest the *)
(* edits made for it.                                                       *)
RequestsProceed ==
    \A i \in 1..MaxRequests :
        LET At(stages) == i \in DOMAIN requests /\ requests[i].stage \in stages IN
        /\ At({"sent"}) ~> (At({"waiting"}) /\ NoWaiter(LOCAL_REPLICA, i))
        /\ At({"answered"}) ~> At({"done"})
=============================================================================
