------------------------ MODULE RemoteChannelProofs --------------------------
(***************************************************************************)
(* Proofs about RemoteChannel, for any number of sending threads, sends and *)
(* lost connections; the last one, that nothing is lost, for any number of  *)
(* sends of one thread at each end and one lost connection.                 *)
(***************************************************************************)
EXTENDS RemoteChannel, SequenceTheorems, FiniteSetTheorems, TLAPS

(* Dropping the acknowledged prefix of a buffer leaves a buffer.            *)
LEMMA DropPrefixType ==
    ASSUME NEW S, NEW b \in Seq(S), NEW ack, NEW k \in AckedPrefix(b, ack)
    PROVE  DropPrefix(b, k) \in Seq(S)
  <1>1. k \in 0..Len(b)
    BY DEF AckedPrefix
  <1>2. \A i \in (k + 1)..Len(b) : b[i] \in S
    BY <1>1
  <1> QED
    BY <1>1, <1>2, SubSeqProperties DEF DropPrefix

(* The envelopes an end posts of its own accord are envelopes.              *)
LEMMA ConstantTypes ==
    /\ RemoteStartedEnvelope \in Envelope
    /\ Idle \in Draft
    /\ \A i, j \in Nat : AckEnvelope(i, j) \in Envelope
  BY DEF RemoteStartedEnvelope, Idle, Draft, AckEnvelope, Envelope, Kind, None

LEMMA PostType ==
    ASSUME TypeOK, NEW e \in Endpoint, NEW msgs \in Seq(Envelope), Post(e, msgs)
    PROVE  outgoing' \in [Endpoint -> Seq(Envelope)]
  BY DEF TypeOK, Post

LEMMA PopAckedType ==
    ASSUME TypeOK, NEW e \in Endpoint, NEW m, PopAcked(e, m)
    PROVE  buffer' \in [Endpoint -> Seq(Envelope)]
  <1>1. PICK k \in AckedPrefix(buffer[e], m.ack) :
            buffer' = [buffer EXCEPT ![e] = DropPrefix(@, k)]
    BY DEF PopAcked
  <1>2. buffer[e] \in Seq(Envelope)
    BY DEF TypeOK
  <1>3. DropPrefix(buffer[e], k) \in Seq(Envelope)
    BY <1>2, DropPrefixType
  <1> QED
    BY <1>1, <1>3 DEF TypeOK

(* What a message loop takes from its queue is an envelope.                 *)
LEMMA TakingType ==
    ASSUME TypeOK, NEW e \in Endpoint, Taking(e)
    PROVE  /\ Head(incoming[e]) \in Envelope
           /\ incoming' \in [Endpoint -> Seq(Envelope)]
  BY DEF TypeOK, Taking

LEMMA PeerType == \A e \in Endpoint : Peer(e) \in Endpoint
  BY DEF Peer, Endpoint

LEMMA TypeInit == Init => TypeOK
  BY ConstantTypes DEF Init, TypeOK, None

LEMMA AllocateType ==
    ASSUME TypeOK, NEW e \in Endpoint, NEW t \in Threads(e), NEW kind \in Kind,
           NEW resp \in Nat \cup {None}, Allocate(e, t, kind, resp),
           sends' \in [Endpoint -> Nat],
           DOMAIN answering' = Endpoint,
           \A f \in Endpoint : answering'[f] \subseteq answering[f],
           boot' \in {"starting", "pinging", "connected"}
    PROVE  TypeOK'
  <1> DEFINE m == [id |-> nextId[e], ack |-> None, resp |-> resp, kind |-> kind]
  <1>1. nextId[e] \in Nat
    BY DEF TypeOK
  <1>2. [stage |-> "allocated", msg |-> m] \in Draft
    BY <1>1 DEF Draft, Envelope, None
  <1>3. DOMAIN draft' = Endpoint /\ \A f \in Endpoint : draft'[f] \in [Threads(f) -> Draft]
    BY <1>2 DEF TypeOK, Allocate
  <1>4. nextId' \in [Endpoint -> Nat]
    BY DEF TypeOK, Allocate
  <1>5. responseChannels' \in [Endpoint -> SUBSET Nat]
    BY <1>1 DEF TypeOK, Allocate
  <1>6. \A f \in Endpoint : answering'[f] \subseteq 1..Len(handled'[f])
    BY DEF TypeOK, Allocate
  <1> QED
    BY <1>3, <1>4, <1>5, <1>6 DEF TypeOK, Allocate, queueVars, linkVars

LEMMA PingType ==
    ASSUME TypeOK, SendPing
    PROVE  TypeOK'
  <1>1. "client" \in Endpoint /\ "main" \in Threads("client") /\ "Request" \in Kind
    BY DEF Endpoint, Threads, Kind
  <1>2. /\ Allocate("client", "main", "Request", None)
        /\ boot' = "pinging"
        /\ UNCHANGED <<sends, answering>>
    BY DEF SendPing
  <1> QED
    BY <1>1, <1>2, AllocateType DEF TypeOK

LEMMA SendingType ==
    ASSUME TypeOK, NEW e \in Endpoint, NEW t \in Threads(e), Sending(e, t)
    PROVE  TypeOK'
  <1>1. answering' = answering /\ boot' = boot /\ sends' = [sends EXCEPT ![e] = @ + 1]
    BY DEF Sending, SendNotice, SendRequest
  <1>3. sends' \in [Endpoint -> Nat]
    BY <1>1 DEF TypeOK
  <1>2. \E kind \in Kind : Allocate(e, t, kind, None)
    BY DEF Sending, SendNotice, SendRequest, Kind
  <1> QED
    BY <1>1, <1>2, <1>3, AllocateType DEF TypeOK

LEMMA FinishingType ==
    ASSUME TypeOK, NEW e \in Endpoint, NEW t \in Threads(e), Finishing(e, t)
    PROVE  TypeOK'
  <1>1. CASE \E i \in answering[e] : SendResponse(e, t, i)
    <2>1. PICK i \in answering[e] : SendResponse(e, t, i)
      BY <1>1
    <2>2. handled[e][i].id \in Nat
      <3>1. handled[e] \in Seq(Envelope) /\ i \in 1..Len(handled[e])
        BY DEF TypeOK
      <3>2. handled[e][i] \in Envelope
        BY <3>1, ElementOfSeq
      <3> QED
        BY <3>2 DEF Envelope
    <2>3. sends' \in [Endpoint -> Nat] /\ DOMAIN answering' = Endpoint
      BY <2>1 DEF TypeOK, SendResponse
    <2>4. \A f \in Endpoint : answering'[f] \subseteq answering[f]
      BY <2>1 DEF TypeOK, SendResponse
    <2>5. Allocate(e, t, "Response", handled[e][i].id) /\ boot' = boot
      BY <2>1 DEF SendResponse
    <2> QED
      BY <2>2, <2>3, <2>4, <2>5, AllocateType DEF Kind, TypeOK
  <1>2. CASE Enbuffer(e, t)
    <2> DEFINE m == [draft[e][t].msg EXCEPT !.ack = maxReceived[e]]
    <2>1. m \in Envelope
      <3>1. draft[e][t] \in Draft /\ maxReceived[e] \in Nat
        BY DEF TypeOK
      <3>2. draft[e][t].msg \in Envelope
        BY <3>1 DEF Draft
      <3> QED
        BY <3>1, <3>2 DEF Envelope
    <2>2. [stage |-> "buffered", msg |-> m] \in Draft
      BY <2>1 DEF Draft
    <2>3. DOMAIN draft' = Endpoint /\ \A f \in Endpoint : draft'[f] \in [Threads(f) -> Draft]
      BY <1>2, <2>2 DEF TypeOK, Enbuffer
    <2>4. buffer' \in [Endpoint -> Seq(Envelope)] /\ sent' \in [Endpoint -> SUBSET Envelope]
      <3>1. /\ buffer' = [buffer EXCEPT ![e] = Append(@, m)]
            /\ sent' = [sent EXCEPT ![e] = @ \cup {m}]
        BY <1>2 DEF Enbuffer
      <3>2. buffer[e] \in Seq(Envelope) /\ sent[e] \cup {m} \subseteq Envelope
        BY <2>1 DEF TypeOK
      <3>3. Append(buffer[e], m) \in Seq(Envelope)
        BY <2>1, <3>2
      <3> QED
        BY <3>1, <3>2, <3>3 DEF TypeOK
    <2> QED
      BY <1>2, <2>3, <2>4 DEF TypeOK, Enbuffer, queueVars, linkVars
  <1>3. CASE PostDraft(e, t)
    <2>1. draft[e][t].msg \in Envelope
      BY DEF TypeOK, Draft
    <2>2. outgoing' \in [Endpoint -> Seq(Envelope)]
      <3>1. <<draft[e][t].msg>> \in Seq(Envelope)
        BY <2>1
      <3>2. Post(e, <<draft[e][t].msg>>)
        BY <1>3 DEF PostDraft
      <3> QED
        BY <3>1, <3>2, PostType
    <2>3. DOMAIN draft' = Endpoint /\ \A f \in Endpoint : draft'[f] \in [Threads(f) -> Draft]
      BY <1>3, ConstantTypes DEF TypeOK, PostDraft
    <2> QED
      BY <1>3, <2>2, <2>3 DEF TypeOK, PostDraft, endVars, linkVars
  <1> QED
    BY <1>1, <1>2, <1>3 DEF Finishing

LEMMA LoopingType ==
    ASSUME TypeOK, NEW e \in Endpoint, Looping(e)
    PROVE  TypeOK'
  <1> DEFINE m == Head(incoming[e])
  <1>0. nextId[e] \in Nat /\ nextId[e] + 1 \in Nat
    BY DEF TypeOK
  <1>1. CASE StartLoop(e)
    <2>1. outgoing' \in [Endpoint -> Seq(Envelope)]
      <3>1. <<RemoteStartedEnvelope>> \in Seq(Envelope)
        BY ConstantTypes
      <3>2. Post(e, <<RemoteStartedEnvelope>>)
        BY <1>1 DEF StartLoop
      <3> QED
        BY <3>1, <3>2, PostType
    <2> QED
      BY <1>1, <2>1 DEF TypeOK, StartLoop, linkVars, appVars
  <1>2. CASE HandleFlush(e)
    <2>1. m \in Envelope /\ incoming' \in [Endpoint -> Seq(Envelope)]
      BY <1>2, TakingType DEF HandleFlush
    <2>2. buffer' \in [Endpoint -> Seq(Envelope)]
      BY <1>2, PopAckedType DEF HandleFlush
    <2>3. AckEnvelope(nextId[e], m.id) \in Envelope
      BY <1>0, <2>1, ConstantTypes DEF Envelope
    <2>4. outgoing' \in [Endpoint -> Seq(Envelope)]
      <3>1. buffer'[e] \in Seq(Envelope)
        BY <2>2
      <3>2. Append(buffer'[e], AckEnvelope(nextId[e], m.id)) \in Seq(Envelope)
        BY <2>3, <3>1
      <3>3. Post(e, Append(buffer'[e], AckEnvelope(nextId[e], m.id)))
        BY <1>2 DEF HandleFlush
      <3> QED
        BY <3>2, <3>3, PostType
    <2>5. nextId' \in [Endpoint -> Nat]
      BY <1>2 DEF TypeOK, HandleFlush
    <2> QED
      BY <1>2, <2>1, <2>2, <2>4, <2>5 DEF TypeOK, HandleFlush, linkVars, appVars
  <1>3. CASE HandleRemoteStarted(e)
    <2>1. m \in Envelope /\ incoming' \in [Endpoint -> Seq(Envelope)]
      BY <1>3, TakingType DEF HandleRemoteStarted
    <2>2. buffer' \in [Endpoint -> Seq(Envelope)]
      BY <1>3, PopAckedType DEF HandleRemoteStarted
    <2>3. AckEnvelope(nextId[e], m.id) \in Envelope
      BY <1>0, <2>1, ConstantTypes DEF Envelope
    <2>4. outgoing' \in [Endpoint -> Seq(Envelope)]
      <3>1. <<AckEnvelope(nextId[e], m.id)>> \in Seq(Envelope)
        BY <2>3
      <3>2. Post(e, <<AckEnvelope(nextId[e], m.id)>>)
        BY <1>3 DEF HandleRemoteStarted
      <3> QED
        BY <3>1, <3>2, PostType
    <2>5. nextId' \in [Endpoint -> Nat] /\ remoteStarted' \in [Endpoint -> BOOLEAN]
      BY <1>3 DEF TypeOK, HandleRemoteStarted
    <2> QED
      BY <1>3, <2>1, <2>2, <2>4, <2>5 DEF TypeOK, HandleRemoteStarted, linkVars, appVars
  <1>4. CASE HandleAnswer(e)
    <2>1. m \in Envelope /\ incoming' \in [Endpoint -> Seq(Envelope)]
      BY <1>4, TakingType DEF HandleAnswer
    <2>2. buffer' \in [Endpoint -> Seq(Envelope)]
      BY <1>4, PopAckedType DEF HandleAnswer
    <2>3. m.id \in Nat
      BY <2>1 DEF Envelope
    <2>4. /\ maxReceived' \in [Endpoint -> Nat]
          /\ responseChannels' \in [Endpoint -> SUBSET Nat]
          /\ resync' \in {"none", "swapped", "waiting", "resuming"}
      BY <1>4, <2>3 DEF TypeOK, HandleAnswer
    <2>5. /\ handled' \in [Endpoint -> Seq(Envelope)]
          /\ DOMAIN answering' = Endpoint
          /\ \A f \in Endpoint : answering'[f] \subseteq 1..Len(handled'[f])
      BY <1>4, <2>1 DEF TypeOK, HandleAnswer
    <2> QED
      BY <1>4, <2>1, <2>2, <2>4, <2>5 DEF TypeOK, HandleAnswer
  <1>5. CASE HandleMessage(e)
    <2>1. m \in Envelope /\ incoming' \in [Endpoint -> Seq(Envelope)]
      BY <1>5, TakingType DEF HandleMessage
    <2>2. buffer' \in [Endpoint -> Seq(Envelope)]
      BY <1>5, PopAckedType DEF HandleMessage
    <2>3. m.id \in Nat
      BY <2>1 DEF Envelope
    <2>4. maxReceived' \in [Endpoint -> Nat]
      BY <1>5, <2>3 DEF TypeOK, HandleMessage
    <2>5. /\ handled' \in [Endpoint -> Seq(Envelope)]
          /\ DOMAIN answering' = Endpoint
          /\ \A f \in Endpoint : answering'[f] \subseteq 1..Len(handled'[f])
      <3>1. handled' = [handled EXCEPT ![e] = Append(@, m)]
        BY <1>5 DEF HandleMessage
      <3>2. handled[e] \in Seq(Envelope) /\ Len(handled[e]) \in Nat
        BY DEF TypeOK
      <3>3. Append(handled[e], m) \in Seq(Envelope) /\ Len(Append(handled[e], m)) = Len(handled[e]) + 1
        BY <2>1, <3>2
      <3>4. /\ DOMAIN answering' = Endpoint
            /\ answering'[e] \subseteq answering[e] \cup {Len(handled[e]) + 1}
            /\ \A f \in Endpoint \ {e} : answering'[f] = answering[f]
        BY <1>5 DEF TypeOK, HandleMessage
      <3>5. ASSUME NEW f \in Endpoint
            PROVE  answering'[f] \subseteq 1..Len(handled'[f])
        <4>1. CASE f = e
          BY <3>1, <3>2, <3>3, <3>4, <4>1 DEF TypeOK
        <4>2. CASE f # e
          BY <3>1, <3>4, <4>2 DEF TypeOK
        <4> QED
          BY <4>1, <4>2
      <3> QED
        BY <3>1, <3>3, <3>4, <3>5 DEF TypeOK
    <2> QED
      BY <1>5, <2>1, <2>2, <2>4, <2>5 DEF TypeOK, HandleMessage, linkVars
  <1> QED
    BY <1>1, <1>2, <1>3, <1>4, <1>5 DEF Looping

(* The steps of the link and of the client's reconnect.                     *)
LinkStep ==
    \/ \E e \in Endpoint : Deliver(e)
    \/ Disconnect
    \/ ServerWriteLost
    \/ ServerBreak
    \/ ServerAccept
    \/ Reconnect
    \/ RequestFlush
    \/ ResumeResync

LEMMA LinkStepType ==
    ASSUME TypeOK, LinkStep
    PROVE  TypeOK'
  <1> USE DEF endVars, queueVars, linkVars, appVars
  <1>1. ASSUME NEW e \in Endpoint, Deliver(e)
        PROVE  TypeOK'
    <2>1. Head(outgoing[e]) \in Envelope /\ Tail(outgoing[e]) \in Seq(Envelope)
      BY <1>1 DEF TypeOK, Deliver
    <2>2. outgoing' \in [Endpoint -> Seq(Envelope)]
      BY <1>1, <2>1 DEF TypeOK, Deliver
    <2>3. Peer(e) \in Endpoint
      BY PeerType
    <2>4. Append(incoming[Peer(e)], Head(outgoing[e])) \in Seq(Envelope)
      BY <2>1, <2>3, AppendProperties DEF TypeOK
    <2>5. incoming' \in [Endpoint -> Seq(Envelope)]
      BY <1>1, <2>3, <2>4 DEF TypeOK, Deliver
    <2> QED
      BY <1>1, <2>2, <2>5 DEF TypeOK, Deliver
  <1>2. CASE Disconnect
    <2>1. outgoing' = [outgoing EXCEPT !["client"] = <<>>]
      BY <1>2 DEF Disconnect
    <2>2. outgoing' \in [Endpoint -> Seq(Envelope)]
      BY <2>1, EmptySeq DEF TypeOK
    <2> QED
      BY <1>2, <2>2 DEF TypeOK, Disconnect
  <1>3. CASE ServerWriteLost
    <2>1. outgoing' \in [Endpoint -> Seq(Envelope)]
      BY <1>3 DEF TypeOK, ServerWriteLost, Endpoint
    <2> QED
      BY <1>3, <2>1 DEF TypeOK, ServerWriteLost
  <1>4. CASE ServerBreak
    BY <1>4 DEF TypeOK, ServerBreak
  <1>5. CASE ServerAccept
    BY <1>5 DEF TypeOK, ServerAccept
  <1>6. CASE Reconnect
    <2>1. incoming' = [incoming EXCEPT !["client"] = <<>>]
      BY <1>6 DEF Reconnect
    <2>2. incoming' \in [Endpoint -> Seq(Envelope)]
      BY <2>1, EmptySeq DEF TypeOK
    <2> QED
      BY <1>6, <2>2 DEF TypeOK, Reconnect
  <1>7. CASE RequestFlush
    <2> DEFINE flush == [id |-> nextId["client"], ack |-> maxReceived["client"],
                         resp |-> None, kind |-> "FlushBufferedMessages"]
    <2>1. "client" \in Endpoint
      BY DEF Endpoint
    <2>2. flush \in Envelope
      BY <2>1 DEF TypeOK, Envelope, Kind
    <2>3. outgoing' \in [Endpoint -> Seq(Envelope)]
      <3>1. <<flush>> \in Seq(Envelope)
        BY <2>2
      <3>2. Post("client", <<flush>>)
        BY <1>7 DEF RequestFlush
      <3> QED
        BY <2>1, <3>1, <3>2, PostType
    <2>4. /\ nextId' \in [Endpoint -> Nat]
          /\ responseChannels' \in [Endpoint -> SUBSET Nat]
          /\ flushId' \in Nat
      BY <1>7, <2>1 DEF TypeOK, RequestFlush
    <2> QED
      BY <1>7, <2>3, <2>4 DEF TypeOK, RequestFlush
  <1>8. CASE ResumeResync
    <2>1. "client" \in Endpoint
      BY DEF Endpoint
    <2>2. outgoing' \in [Endpoint -> Seq(Envelope)]
      BY <1>8, <2>1, PostType DEF ResumeResync, TypeOK
    <2> QED
      BY <1>8, <2>2 DEF TypeOK, ResumeResync
  <1> QED
    BY <1>1, <1>2, <1>3, <1>4, <1>5, <1>6, <1>7, <1>8 DEF LinkStep

LEMMA NextSplit ==
    ASSUME Next
    PROVE  \/ SendPing
           \/ \E e \in Endpoint : \E t \in Threads(e) : Sending(e, t)
           \/ \E e \in Endpoint : \E t \in Threads(e) : Finishing(e, t)
           \/ \E e \in Endpoint : Looping(e)
           \/ LinkStep
  BY DEF Next, LinkStep

LEMMA TypeStep == TypeOK /\ [Next]_vars => TypeOK'
  <1> SUFFICES ASSUME TypeOK, [Next]_vars
               PROVE  TypeOK'
    OBVIOUS
  <1>1. CASE Next
    BY <1>1, NextSplit, PingType, SendingType, FinishingType, LoopingType, LinkStepType
  <1>2. CASE UNCHANGED vars
    BY <1>2 DEF TypeOK, vars, endVars, queueVars, linkVars, appVars
  <1> QED
    BY <1>1, <1>2

(* Every counter, queue and buffer keeps its type, and a handler is only    *)
(* ever left to answer a request its end has taken in.                      *)
THEOREM TypeCorrect == Spec => []TypeOK
  <1>1. Init => TypeOK
    BY TypeInit
  <1>2. TypeOK /\ [Next]_vars => TypeOK'
    BY TypeStep
  <1> QED
    BY <1>1, <1>2, PTL DEF Spec

-----------------------------------------------------------------------------
(* The channel keeps its promise: nothing reaches an application that its   *)
(* peer did not send.  KeepsPromise is not inductive by itself: between the *)
(* sender's buffer and the handler an envelope passes through a draft, two  *)
(* queues and possibly a resend, and OnlySent says so of each of them.      *)

ChannelOwn ==
    {m \in Envelope : m.kind \in {"RemoteStarted", "FlushBufferedMessages", "Ack"}}

Carried(e) == sent[e] \cup ChannelOwn

OnlySent ==
    /\ \A e \in Endpoint : buffer[e] \in Seq(sent[e])
    /\ \A e \in Endpoint : outgoing[e] \in Seq(Carried(e))
    /\ \A e \in Endpoint : incoming[e] \in Seq(Carried(Peer(e)))
    /\ \A e \in Endpoint : handled[e] \in Seq(sent[Peer(e)])
    /\ \A e \in Endpoint : \A t \in Threads(e) :
           draft[e][t].stage = "buffered" => draft[e][t].msg \in sent[e]

IInv == TypeOK /\ OnlySent

LEMMA SeqWider ==
    ASSUME NEW S, NEW T, S \subseteq T, NEW s \in Seq(S)
    PROVE  s \in Seq(T)
  OBVIOUS

LEMMA PostCarried ==
    ASSUME OnlySent, TypeOK, NEW e \in Endpoint, NEW msgs \in Seq(Carried(e)), Post(e, msgs)
    PROVE  \A f \in Endpoint : outgoing'[f] \in Seq(Carried(f))
  <1>1. outgoing[e] \o msgs \in Seq(Carried(e))
    BY DEF OnlySent
  <1>2. outgoing' = outgoing \/ outgoing' = [outgoing EXCEPT ![e] = @ \o msgs]
    BY DEF Post
  <1> QED
    BY <1>1, <1>2 DEF OnlySent, TypeOK

LEMMA PopAckedSent ==
    ASSUME OnlySent, TypeOK, NEW e \in Endpoint, NEW m, PopAcked(e, m)
    PROVE  \A f \in Endpoint : buffer'[f] \in Seq(sent[f])
  <1>1. PICK k \in AckedPrefix(buffer[e], m.ack) :
            buffer' = [buffer EXCEPT ![e] = DropPrefix(@, k)]
    BY DEF PopAcked
  <1>2. buffer[e] \in Seq(sent[e])
    BY DEF OnlySent
  <1>3. DropPrefix(buffer[e], k) \in Seq(sent[e])
    BY <1>2, DropPrefixType
  <1> QED
    BY <1>1, <1>3 DEF OnlySent, TypeOK

(* An application envelope taken from the queue was sent by the peer.       *)
LEMMA TakingCarried ==
    ASSUME OnlySent, TypeOK, NEW e \in Endpoint, Taking(e)
    PROVE  /\ Head(incoming[e]) \in Carried(Peer(e))
           /\ \A f \in Endpoint : incoming'[f] \in Seq(Carried(Peer(f)))
  <1>1. incoming[e] \in Seq(Carried(Peer(e))) /\ incoming[e] # <<>>
    BY DEF OnlySent, Taking
  <1>2. Head(incoming[e]) \in Carried(Peer(e)) /\ Tail(incoming[e]) \in Seq(Carried(Peer(e)))
    BY <1>1
  <1>3. incoming' = [incoming EXCEPT ![e] = Tail(@)]
    BY DEF Taking
  <1> QED
    BY <1>2, <1>3 DEF OnlySent, TypeOK

LEMMA OwnEnvelopes ==
    /\ RemoteStartedEnvelope \in ChannelOwn
    /\ \A i, j \in Nat : AckEnvelope(i, j) \in ChannelOwn
  BY ConstantTypes DEF ChannelOwn, RemoteStartedEnvelope, AckEnvelope

LEMMA OnlySentInit == Init => OnlySent
  <1> SUFFICES ASSUME Init PROVE OnlySent
    OBVIOUS
  <1>1. \A e \in Endpoint : \A t \in Threads(e) : draft[e][t].stage = "idle"
    BY DEF Init, Idle
  <1> QED
    BY <1>1, PeerType, EmptySeq DEF Init, OnlySent

LEMMA AllocateOnlySent ==
    ASSUME IInv, NEW e \in Endpoint, NEW t \in Threads(e), NEW kind, NEW resp,
           Allocate(e, t, kind, resp)
    PROVE  OnlySent'
  <1>1. /\ UNCHANGED <<buffer, outgoing, incoming, handled, sent>>
        /\ draft'[e][t].stage = "allocated"
        /\ \A f \in Endpoint : \A u \in Threads(f) :
              <<f, u>> # <<e, t>> => draft'[f][u] = draft[f][u]
    BY DEF Allocate, queueVars, IInv, TypeOK
  <1>2. \A f \in Endpoint : \A u \in Threads(f) :
            draft'[f][u].stage = "buffered" => draft'[f][u].msg \in sent[f]
    BY <1>1 DEF IInv, OnlySent
  <1> QED
    BY <1>1, <1>2 DEF IInv, OnlySent, Carried

LEMMA FinishingOnlySent ==
    ASSUME IInv, NEW e \in Endpoint, NEW t \in Threads(e), Finishing(e, t)
    PROVE  OnlySent'
  <1>1. CASE \E i \in answering[e] : SendResponse(e, t, i)
    BY <1>1, AllocateOnlySent DEF SendResponse
  <1>2. CASE Enbuffer(e, t)
    <2> DEFINE m == [draft[e][t].msg EXCEPT !.ack = maxReceived[e]]
    <2>1. /\ sent' = [sent EXCEPT ![e] = @ \cup {m}]
          /\ buffer' = [buffer EXCEPT ![e] = Append(@, m)]
          /\ draft' = [draft EXCEPT ![e][t] = [stage |-> "buffered", msg |-> m]]
          /\ UNCHANGED <<outgoing, incoming, handled>>
      BY <1>2 DEF Enbuffer, queueVars
    <2>2. \A f \in Endpoint : sent[f] \subseteq sent'[f] /\ Carried(f) \subseteq Carried(f)'
      BY <2>1 DEF Carried, IInv, TypeOK
    <2>3. ASSUME NEW f \in Endpoint
          PROVE  buffer'[f] \in Seq(sent'[f])
      <3>1. buffer[f] \in Seq(sent'[f])
        BY <2>2, SeqWider DEF IInv, OnlySent
      <3>2. CASE f = e
        <4>1. m \in sent'[f] /\ buffer'[f] = Append(buffer[f], m)
          BY <2>1, <3>2 DEF IInv, TypeOK
        <4>2. Append(buffer[f], m) \in Seq(sent'[f])
          BY <3>1, <4>1, AppendProperties
        <4> QED
          BY <4>1, <4>2
      <3>3. CASE f # e
        BY <2>1, <3>1, <3>3 DEF IInv, TypeOK
      <3> QED
        BY <3>2, <3>3
    <2>4. ASSUME NEW f \in Endpoint
          PROVE  /\ outgoing'[f] \in Seq(Carried(f)')
                 /\ incoming'[f] \in Seq(Carried(Peer(f))')
                 /\ handled'[f] \in Seq(sent'[Peer(f)])
      <3>1. Peer(f) \in Endpoint
        BY PeerType
      <3>2. /\ outgoing[f] \in Seq(Carried(f))
            /\ incoming[f] \in Seq(Carried(Peer(f)))
            /\ handled[f] \in Seq(sent[Peer(f)])
        BY DEF IInv, OnlySent
      <3> QED
        BY <2>1, <2>2, <3>1, <3>2, SeqWider
    <2>5. ASSUME NEW f \in Endpoint, NEW u \in Threads(f), draft'[f][u].stage = "buffered"
          PROVE  draft'[f][u].msg \in sent'[f]
      <3>1. CASE f = e /\ u = t
        BY <2>1, <3>1 DEF IInv, TypeOK
      <3>2. CASE ~(f = e /\ u = t)
        <4>1. draft'[f][u] = draft[f][u]
          BY <2>1, <3>2 DEF IInv, TypeOK
        <4> QED
          BY <2>2, <2>5, <4>1 DEF IInv, OnlySent
      <3> QED
        BY <3>1, <3>2
    <2> QED
      BY <2>3, <2>4, <2>5 DEF OnlySent, Carried, Peer
  <1>3. CASE PostDraft(e, t)
    <2>1. draft[e][t].msg \in Carried(e)
      BY <1>3 DEF PostDraft, IInv, OnlySent, Carried
    <2>2. <<draft[e][t].msg>> \in Seq(Carried(e))
      BY <2>1
    <2>3. Post(e, <<draft[e][t].msg>>)
      BY <1>3 DEF PostDraft
    <2>4. \A f \in Endpoint : outgoing'[f] \in Seq(Carried(f))
      BY <2>2, <2>3, PostCarried DEF IInv
    <2>5. /\ UNCHANGED <<buffer, incoming, handled, sent>>
          /\ draft' = [draft EXCEPT ![e][t] = Idle]
      BY <1>3 DEF PostDraft, endVars
    <2>6. \A f \in Endpoint : \A u \in Threads(f) :
              draft'[f][u].stage = "buffered" => draft'[f][u].msg \in sent[f]
      BY <2>5 DEF Idle, IInv, OnlySent, TypeOK
    <2> QED
      BY <2>4, <2>5, <2>6 DEF IInv, OnlySent, Carried
  <1> QED
    BY <1>1, <1>2, <1>3 DEF Finishing

LEMMA LoopingOnlySent ==
    ASSUME IInv, NEW e \in Endpoint, Looping(e)
    PROVE  OnlySent'
  <1> DEFINE m == Head(incoming[e])
  <1> USE DEF IInv
  <1>0. nextId[e] \in Nat /\ Peer(e) \in Endpoint
    BY PeerType DEF TypeOK
  <1>1. CASE StartLoop(e)
    <2>1. <<RemoteStartedEnvelope>> \in Seq(Carried(e))
      BY OwnEnvelopes DEF Carried
    <2>2. Post(e, <<RemoteStartedEnvelope>>)
      BY <1>1 DEF StartLoop
    <2>3. \A f \in Endpoint : outgoing'[f] \in Seq(Carried(f))
      BY <2>1, <2>2, PostCarried
    <2>4. UNCHANGED <<buffer, incoming, handled, sent, draft>>
      BY <1>1 DEF StartLoop, appVars
    <2> QED
      BY <2>3, <2>4 DEF OnlySent, Carried
  <1>2. CASE HandleFlush(e)
    <2>1. \A f \in Endpoint : incoming'[f] \in Seq(Carried(Peer(f)))
      BY <1>2, TakingCarried DEF HandleFlush
    <2>2. \A f \in Endpoint : buffer'[f] \in Seq(sent[f])
      BY <1>2, PopAckedSent DEF HandleFlush
    <2>3. m.id \in Nat
      BY <1>2, TakingType DEF HandleFlush, Envelope
    <2>4. AckEnvelope(nextId[e], m.id) \in Carried(e)
      BY <1>0, <2>3, OwnEnvelopes DEF Carried
    <2>5. buffer'[e] \in Seq(Carried(e))
      BY <2>2, SeqWider DEF Carried
    <2>6. Append(buffer'[e], AckEnvelope(nextId[e], m.id)) \in Seq(Carried(e))
      BY <2>4, <2>5, AppendProperties
    <2>7. Post(e, Append(buffer'[e], AckEnvelope(nextId[e], m.id)))
      BY <1>2 DEF HandleFlush
    <2>8. \A f \in Endpoint : outgoing'[f] \in Seq(Carried(f))
      BY <2>6, <2>7, PostCarried
    <2>9. UNCHANGED <<handled, sent, draft>>
      BY <1>2 DEF HandleFlush, appVars
    <2> QED
      BY <2>1, <2>2, <2>8, <2>9 DEF OnlySent, Carried
  <1>3. CASE HandleRemoteStarted(e)
    <2>1. \A f \in Endpoint : incoming'[f] \in Seq(Carried(Peer(f)))
      BY <1>3, TakingCarried DEF HandleRemoteStarted
    <2>2. \A f \in Endpoint : buffer'[f] \in Seq(sent[f])
      BY <1>3, PopAckedSent DEF HandleRemoteStarted
    <2>3. m.id \in Nat
      BY <1>3, TakingType DEF HandleRemoteStarted, Envelope
    <2>4. <<AckEnvelope(nextId[e], m.id)>> \in Seq(Carried(e))
      BY <1>0, <2>3, OwnEnvelopes DEF Carried
    <2>5. Post(e, <<AckEnvelope(nextId[e], m.id)>>)
      BY <1>3 DEF HandleRemoteStarted
    <2>6. \A f \in Endpoint : outgoing'[f] \in Seq(Carried(f))
      BY <2>4, <2>5, PostCarried
    <2>7. UNCHANGED <<handled, sent, draft>>
      BY <1>3 DEF HandleRemoteStarted, appVars
    <2> QED
      BY <2>1, <2>2, <2>6, <2>7 DEF OnlySent, Carried
  <1>4. CASE HandleAnswer(e) \/ HandleMessage(e)
    <2>1. Taking(e) /\ PopAcked(e, m) /\ UNCHANGED <<outgoing, draft, sent>>
      BY <1>4 DEF HandleAnswer, HandleMessage
    <2>2. /\ m \in Carried(Peer(e))
          /\ \A f \in Endpoint : incoming'[f] \in Seq(Carried(Peer(f)))
      BY <2>1, TakingCarried
    <2>3. \A f \in Endpoint : buffer'[f] \in Seq(sent[f])
      BY <2>1, PopAckedSent
    <2>4. \/ handled' = handled
          \/ /\ m.kind \in {"Response", "Notice", "Request"}
             /\ handled' = [handled EXCEPT ![e] = Append(@, m)]
      BY <1>4 DEF HandleAnswer, HandleMessage
    <2>5. ASSUME NEW f \in Endpoint
          PROVE  handled'[f] \in Seq(sent[Peer(f)])
      <3>1. CASE handled' = handled
        BY <3>1 DEF OnlySent
      <3>2. CASE /\ m.kind \in {"Response", "Notice", "Request"}
                 /\ handled' = [handled EXCEPT ![e] = Append(@, m)]
        <4>1. m \in sent[Peer(e)]
          BY <2>2, <3>2 DEF Carried, ChannelOwn
        <4>2. Append(handled[e], m) \in Seq(sent[Peer(e)])
          BY <4>1, AppendProperties DEF OnlySent
        <4> QED
          BY <3>2, <4>2 DEF OnlySent, TypeOK
      <3> QED
        BY <2>4, <3>1, <3>2
    <2> QED
      BY <2>1, <2>2, <2>3, <2>5 DEF OnlySent, Carried
  <1> QED
    BY <1>1, <1>2, <1>3, <1>4 DEF Looping

LEMMA LinkStepOnlySent ==
    ASSUME IInv, LinkStep
    PROVE  OnlySent'
  <1> USE DEF IInv
  <1>0. /\ "client" \in Endpoint
        /\ "server" \in Endpoint
        /\ \A e \in Endpoint : Peer(e) \in Endpoint /\ Peer(Peer(e)) = e
    BY DEF Endpoint, Peer
  <1>1. ASSUME NEW e \in Endpoint, Deliver(e)
        PROVE  OnlySent'
    <2>1. outgoing[e] \in Seq(Carried(e)) /\ outgoing[e] # <<>>
      BY <1>1 DEF OnlySent, Deliver
    <2>2. Head(outgoing[e]) \in Carried(e) /\ Tail(outgoing[e]) \in Seq(Carried(e))
      BY <2>1
    <2>3. Append(incoming[Peer(e)], Head(outgoing[e])) \in Seq(Carried(e))
      BY <1>0, <2>2, AppendProperties DEF OnlySent
    <2>4. /\ incoming' = [incoming EXCEPT ![Peer(e)] = Append(@, Head(outgoing[e]))]
          /\ outgoing' = [outgoing EXCEPT ![e] = Tail(@)]
          /\ UNCHANGED <<buffer, handled, sent, draft>>
      BY <1>1 DEF Deliver, endVars, appVars
    <2>5. \A f \in Endpoint : outgoing'[f] \in Seq(Carried(f))
      BY <2>2, <2>4 DEF OnlySent, TypeOK
    <2>6. \A f \in Endpoint : incoming'[f] \in Seq(Carried(Peer(f)))
      BY <1>0, <2>3, <2>4 DEF OnlySent, TypeOK
    <2> QED
      BY <2>4, <2>5, <2>6 DEF OnlySent, Carried
  <1>2. CASE Disconnect \/ ServerWriteLost
    <2>1. /\ \/ outgoing' = [outgoing EXCEPT !["client"] = <<>>]
             \/ /\ outgoing["server"] # <<>>
                /\ outgoing' = [outgoing EXCEPT !["server"] = Tail(@)]
          /\ UNCHANGED <<buffer, incoming, handled, sent, draft>>
      BY <1>2 DEF Disconnect, ServerWriteLost, endVars, appVars
    <2>2. outgoing["server"] # <<>> => Tail(outgoing["server"]) \in Seq(Carried("server"))
      BY <1>0 DEF OnlySent
    <2>3. ASSUME NEW f \in Endpoint
          PROVE  outgoing'[f] \in Seq(Carried(f))
      <3>1. CASE outgoing' = [outgoing EXCEPT !["client"] = <<>>]
        BY <3>1, EmptySeq DEF OnlySent, TypeOK
      <3>2. CASE /\ outgoing["server"] # <<>>
                 /\ outgoing' = [outgoing EXCEPT !["server"] = Tail(@)]
        BY <2>2, <3>2 DEF OnlySent, TypeOK
      <3> QED
        BY <2>1, <3>1, <3>2
    <2> QED
      BY <2>1, <2>3 DEF OnlySent, Carried
  <1>3. CASE ServerBreak \/ ServerAccept
    BY <1>3 DEF ServerBreak, ServerAccept, endVars, queueVars, appVars, OnlySent, Carried
  <1>4. CASE Reconnect
    <2>1. /\ incoming' = [incoming EXCEPT !["client"] = <<>>]
          /\ UNCHANGED <<buffer, outgoing, handled, sent, draft>>
      BY <1>4 DEF Reconnect, appVars
    <2>2. \A f \in Endpoint : incoming'[f] \in Seq(Carried(Peer(f)))
      BY <2>1, EmptySeq DEF OnlySent, TypeOK
    <2> QED
      BY <2>1, <2>2 DEF OnlySent, Carried
  <1>5. CASE RequestFlush
    <2> DEFINE flush == [id |-> nextId["client"], ack |-> maxReceived["client"],
                         resp |-> None, kind |-> "FlushBufferedMessages"]
    <2>1. flush \in ChannelOwn
      BY <1>0 DEF TypeOK, ChannelOwn, Envelope, Kind
    <2>2. <<flush>> \in Seq(Carried("client"))
      BY <2>1 DEF Carried
    <2>3. Post("client", <<flush>>) /\ UNCHANGED <<buffer, incoming, handled, sent, draft>>
      BY <1>5 DEF RequestFlush, appVars
    <2>4. \A f \in Endpoint : outgoing'[f] \in Seq(Carried(f))
      BY <1>0, <2>2, <2>3, PostCarried
    <2> QED
      BY <2>3, <2>4 DEF OnlySent, Carried
  <1>6. CASE ResumeResync
    <2>1. buffer["client"] \in Seq(Carried("client"))
      BY <1>0, SeqWider DEF OnlySent, Carried
    <2>2. Post("client", buffer["client"])
      BY <1>6 DEF ResumeResync
    <2>3. UNCHANGED <<buffer, incoming, handled, sent, draft>>
      BY <1>6 DEF ResumeResync, endVars, appVars
    <2>4. \A f \in Endpoint : outgoing'[f] \in Seq(Carried(f))
      BY <1>0, <2>1, <2>2, PostCarried
    <2> QED
      BY <2>3, <2>4 DEF OnlySent, Carried
  <1> QED
    BY <1>1, <1>2, <1>3, <1>4, <1>5, <1>6 DEF LinkStep

LEMMA OnlySentStep == IInv /\ [Next]_vars => OnlySent'
  <1> SUFFICES ASSUME IInv, [Next]_vars
               PROVE  OnlySent'
    OBVIOUS
  <1>1. ASSUME NEW e \in Endpoint, NEW t \in Threads(e), Sending(e, t)
        PROVE  OnlySent'
    BY <1>1, AllocateOnlySent DEF Sending, SendNotice, SendRequest
  <1>2. CASE SendPing
    <2>1. "client" \in Endpoint /\ "main" \in Threads("client")
      BY DEF Endpoint, Threads
    <2> QED
      BY <1>2, <2>1, AllocateOnlySent DEF SendPing
  <1>3. CASE Next
    BY <1>1, <1>3, <1>2, NextSplit, FinishingOnlySent, LoopingOnlySent, LinkStepOnlySent
  <1>4. CASE UNCHANGED vars
    BY <1>4 DEF vars, endVars, queueVars, appVars, IInv, OnlySent, Carried
  <1> QED
    BY <1>3, <1>4

(* Types, and that only what was sent travels, hold throughout.             *)
THEOREM Invariance == Spec => []IInv
  <1>1. Init => IInv
    BY TypeInit, OnlySentInit DEF IInv
  <1>2. IInv /\ [Next]_vars => IInv'
    BY TypeStep, OnlySentStep DEF IInv
  <1> QED
    BY <1>1, <1>2, PTL DEF Spec

LEMMA OtherIsPeer == \A e \in Endpoint : Promise!Other(e) = Peer(e)
  BY DEF Promise!Other, Peer, Endpoint

LEMMA ElementsAppend ==
    ASSUME NEW S, NEW s \in Seq(S), NEW m \in S
    PROVE  Elements(Append(s, m)) = Elements(s) \cup {m}
  <1>1. /\ Len(Append(s, m)) = Len(s) + 1
        /\ \A i \in 1..Len(s) : Append(s, m)[i] = s[i]
        /\ Append(s, m)[Len(s) + 1] = m
    OBVIOUS
  <1>2. Len(s) \in Nat
    OBVIOUS
  <1>3. 1..(Len(s) + 1) = 1..Len(s) \cup {Len(s) + 1}
    BY <1>2
  <1> QED
    BY <1>1, <1>3 DEF Elements

(* The envelopes that have reached each application, as AtLeastOnce has it. *)
Received == [e \in Endpoint |-> Elements(handled[e])]

LEMMA PromiseStep ==
    ASSUME IInv, [Next]_vars
    PROVE  [Promise!Next]_<<sent, Received>>
  <1> USE DEF IInv
  <1>1. CASE UNCHANGED <<sent, handled>>
    BY <1>1 DEF Received
  <1>2. ASSUME NEW e \in Endpoint, NEW t \in Threads(e), Enbuffer(e, t)
        PROVE  Promise!Send(e)
    <2> DEFINE m == [draft[e][t].msg EXCEPT !.ack = maxReceived[e]]
    <2>1. sent' = [sent EXCEPT ![e] = @ \cup {m}] /\ handled' = handled
      BY <1>2 DEF Enbuffer
    <2>2. m \in sent'[e]
      BY <2>1 DEF TypeOK
    <2> QED
      BY <2>1, <2>2 DEF Promise!Send, Received
  <1>3. ASSUME NEW e \in Endpoint, HandleAnswer(e) \/ HandleMessage(e),
               ~ UNCHANGED <<sent, handled>>
        PROVE  Promise!Receive(e) \/ UNCHANGED <<sent, Received>>
    <2> DEFINE m == Head(incoming[e])
    <2>1. /\ Taking(e)
          /\ sent' = sent
          /\ m.kind \in {"Response", "Notice", "Request"}
          /\ handled' = [handled EXCEPT ![e] = Append(@, m)]
      BY <1>3 DEF HandleAnswer, HandleMessage
    <2>2. m \in sent[Peer(e)] /\ m \in Envelope
      BY <2>1, TakingCarried, TakingType DEF Carried, ChannelOwn
    <2>3. Elements(Append(handled[e], m)) = Elements(handled[e]) \cup {m}
      BY <2>2, ElementsAppend DEF TypeOK
    <2>4. Received' = [Received EXCEPT ![e] = @ \cup {m}]
      BY <2>1, <2>3 DEF Received, TypeOK
    <2>5. CASE m \in Received[e]
      <3>1. Received[e] \cup {m} = Received[e]
        BY <2>5
      <3>2. Received' = Received
        BY <2>4, <3>1 DEF Received
      <3> QED
        BY <2>1, <3>2
    <2>6. CASE m \notin Received[e]
      BY <2>1, <2>2, <2>4, <2>6, OtherIsPeer DEF Promise!Receive, Received
    <2> QED
      BY <2>5, <2>6
  <1>4. ASSUME NEW e \in Endpoint, NEW t \in Threads(e), Sending(e, t) \/ Finishing(e, t),
               ~ Enbuffer(e, t)
        PROVE  UNCHANGED <<sent, handled>>
    BY <1>4 DEF Sending, Finishing, SendNotice, SendRequest, SendResponse, Allocate, PostDraft
  <1>5. ASSUME NEW e \in Endpoint, StartLoop(e) \/ HandleFlush(e) \/ HandleRemoteStarted(e)
        PROVE  UNCHANGED <<sent, handled>>
    BY <1>5 DEF StartLoop, HandleFlush, HandleRemoteStarted, appVars
  <1>6. ASSUME LinkStep
        PROVE  UNCHANGED <<sent, handled>>
    BY <1>6 DEF LinkStep, Deliver, Disconnect, ServerWriteLost, ServerBreak, ServerAccept,
                Reconnect, RequestFlush, ResumeResync, appVars
  <1>7. ASSUME SendPing
        PROVE  UNCHANGED <<sent, handled>>
    BY <1>7 DEF SendPing, Allocate
  <1>8. CASE UNCHANGED vars
    BY <1>1, <1>8 DEF vars, appVars
  <1>9. CASE Next
    <2>1. CASE UNCHANGED <<sent, handled>>
      BY <1>1, <2>1
    <2>2. CASE ~ UNCHANGED <<sent, handled>>
      <3>1. \/ \E e \in Endpoint : \E t \in Threads(e) : Enbuffer(e, t)
            \/ \E e \in Endpoint : HandleAnswer(e) \/ HandleMessage(e)
        BY <1>4, <1>5, <1>6, <1>9, <1>7, <2>2, NextSplit DEF Looping, Finishing
      <3> QED
        BY <1>2, <1>3, <2>2, <3>1 DEF Promise!Next
    <2> QED
      BY <2>1, <2>2
  <1> QED
    BY <1>8, <1>9

(* Whatever the threads, the losses and the number of reconnects: what      *)
(* reaches an application was sent by its peer's application.               *)
THEOREM ChannelKeepsPromise == Spec => KeepsPromise
  <1>1. Init => Promise!Init
    <2> SUFFICES ASSUME Init PROVE Promise!Init
      OBVIOUS
    <2>1. Received = [e \in Endpoint |-> {}]
      BY DEF Init, Received, Elements
    <2> QED
      BY <2>1 DEF Promise!Init, Init, Received
  <1>2. IInv /\ [Next]_vars => [Promise!Next]_<<sent, Received>>
    BY PromiseStep
  <1>3. IInv /\ [Next]_vars => [Promise!Next]_<<sent, [e \in Endpoint |-> Elements(handled[e])]>>
    BY <1>2 DEF Received
  <1> QED
    BY <1>1, <1>3, Invariance, PTL DEF Spec, KeepsPromise, Promise!Spec

-----------------------------------------------------------------------------
(* Answers.  An id is drawn once: by a send, by a flush request or by an    *)
(* acknowledgement.  What an Ack answers is no request, because a flush's   *)
(* id was drawn for it alone, and because no request has id 0, which        *)
(* RemoteStarted has: an end makes requests only after it has heard its     *)
(* peer, and acknowledging that took an id.                                 *)

Applications == {"Notice", "Request", "Response"}

(* The threads whose envelope has an id and is not yet in the buffer.       *)
Allocated == [e \in Endpoint |-> {t \in Threads(e) : draft[e][t].stage = "allocated"}]

Sends == [e \in Endpoint |-> {t \in Threads(e) : draft[e][t].stage # "idle"}]

Numbering ==
    \A e \in Endpoint :
        /\ \A m \in sent[e] : m.id < nextId[e] /\ m.kind \in Applications
        /\ \A m, n \in sent[e] : m.id = n.id => m = n
        /\ \A t \in Sends[e] : draft[e][t].msg.id < nextId[e] /\ draft[e][t].msg.kind \in Applications
        /\ \A t, u \in Sends[e] : draft[e][t].msg.id = draft[e][u].msg.id => t = u
        /\ \A t \in Allocated[e] : \A m \in sent[e] : m.id # draft[e][t].msg.id

RequestIds ==
    [e \in Endpoint |->
        {m.id : m \in {n \in sent[e] : n.kind = "Request"}} \cup
        {draft[e][t].msg.id : t \in {u \in Allocated[e] : draft[e][u].msg.kind = "Request"}}]

(* The ids that no request of e has or will have.                           *)
FreeIds == [e \in Endpoint |-> {i \in Nat : (i = 0 \/ i < nextId[e]) /\ i \notin RequestIds[e]}]

RequestsComeLater ==
    /\ \A e \in Endpoint : (remoteStarted[e] => nextId[e] > 0) /\ 0 \notin RequestIds[e]
    /\ boot = "connected" => nextId["client"] > 0

InFlight == [e \in Endpoint |-> Elements(outgoing[e]) \cup Elements(incoming[Peer(e)])]

(* What an end posts of its own accord.                                     *)
OwnEnvelope(e, m) ==
    /\ m.kind = "RemoteStarted" => m.id = 0
    /\ m.kind = "FlushBufferedMessages" => m.id \in FreeIds[e]
    /\ m.kind = "Ack" => m.resp \in FreeIds[Peer(e)]

OwnAnswers == \A e \in Endpoint : \A m \in InFlight[e] : OwnEnvelope(e, m)

(* The ids of the requests that have reached e.                             *)
TakenIds == [e \in Endpoint |-> {m.id : m \in {n \in Elements(handled[e]) : n.kind = "Request"}}]

ResponsesAnswer ==
    \A e \in Endpoint :
        /\ \A i \in answering[e] : handled[e][i].kind = "Request"
        /\ \A m \in sent[e] : m.kind = "Response" => m.resp \in TakenIds[e]
        /\ \A t \in Allocated[e] :
               draft[e][t].msg.kind = "Response" => draft[e][t].msg.resp \in TakenIds[e]

RequestsWait ==
    \A e \in Endpoint : RequestIds[e] \subseteq responseChannels[e] \cup TakenIds[Peer(e)]

AnswerInv == Numbering /\ RequestsComeLater /\ OwnAnswers /\ ResponsesAnswer /\ RequestsWait

LEMMA Peers ==
    /\ "client" \in Endpoint /\ "server" \in Endpoint
    /\ \A e \in Endpoint : Peer(e) \in Endpoint /\ Peer(Peer(e)) = e /\ Peer(e) # e
  BY DEF Endpoint, Peer

(* What envelopes have.                                                     *)
LEMMA EnvelopeFacts ==
    ASSUME TypeOK
    PROVE  /\ \A e \in Endpoint : nextId[e] \in Nat /\ sent[e] \in SUBSET Envelope
           /\ \A m \in Envelope : m.id \in Nat /\ m.resp \in Nat \cup {None}
           /\ \A e \in Endpoint : \A t \in Threads(e) :
                  draft[e][t].msg \in Envelope /\ draft[e][t].stage \in {"idle", "allocated", "buffered"}
           /\ \A e \in Endpoint : Allocated[e] \subseteq Sends[e] /\ Sends[e] \subseteq Threads(e)
  BY DEF TypeOK, Envelope, Draft, Allocated, Sends

LEMMA ElementsFacts ==
    ASSUME NEW S, NEW q \in Seq(S)
    PROVE  /\ Elements(q) \subseteq S
           /\ \A m \in S : Elements(Append(q, m)) = Elements(q) \cup {m}
           /\ q # <<>> => /\ Head(q) \in Elements(q)
                          /\ Elements(q) = Elements(Tail(q)) \cup {Head(q)}
  <1>1. Elements(q) \subseteq S
    BY DEF Elements
  <1>2. \A m \in S : Elements(Append(q, m)) = Elements(q) \cup {m}
    BY ElementsAppend
  <1>3. ASSUME q # <<>>
        PROVE  Head(q) \in Elements(q) /\ Elements(q) = Elements(Tail(q)) \cup {Head(q)}
    <2>1. /\ Len(q) \in Nat /\ Len(q) >= 1
          /\ Len(Tail(q)) = Len(q) - 1
          /\ \A i \in 1..(Len(q) - 1) : Tail(q)[i] = q[i + 1]
          /\ Head(q) = q[1]
      BY <1>3
    <2>2. Head(q) \in Elements(q)
      BY <2>1 DEF Elements
    <2>3. ASSUME NEW m \in Elements(q) PROVE m \in Elements(Tail(q)) \cup {Head(q)}
      <3>1. PICK i \in 1..Len(q) : m = q[i]
        BY <2>3 DEF Elements
      <3>2. CASE i = 1
        BY <2>1, <3>1, <3>2
      <3>3. CASE i # 1
        <4>1. i - 1 \in 1..(Len(q) - 1) /\ (i - 1) + 1 = i
          BY <2>1, <3>3
        <4>2. m = Tail(q)[i - 1]
          BY <2>1, <3>1, <4>1
        <4> QED
          BY <2>1, <4>1, <4>2 DEF Elements
      <3> QED
        BY <3>2, <3>3
    <2>4. ASSUME NEW m \in Elements(Tail(q)) PROVE m \in Elements(q)
      <3>1. PICK i \in 1..Len(Tail(q)) : m = Tail(q)[i]
        BY <2>4 DEF Elements
      <3>2. m = q[i + 1] /\ i + 1 \in 1..Len(q)
        BY <2>1, <3>1
      <3> QED
        BY <3>2 DEF Elements
    <2> QED
      BY <2>2, <2>3, <2>4
  <1> QED
    BY <1>1, <1>2, <1>3

LEMMA ElementsConcat ==
    ASSUME NEW S, NEW q \in Seq(S), NEW r \in Seq(S)
    PROVE  Elements(q \o r) = Elements(q) \cup Elements(r)
  <1>1. /\ Len(q) \in Nat /\ Len(r) \in Nat
        /\ Len(q \o r) = Len(q) + Len(r)
        /\ \A i \in 1..(Len(q) + Len(r)) : (q \o r)[i] = IF i <= Len(q) THEN q[i] ELSE r[i - Len(q)]
    BY ConcatProperties
  <1>2. ASSUME NEW m \in Elements(q \o r) PROVE m \in Elements(q) \cup Elements(r)
    <2>1. PICK i \in 1..(Len(q) + Len(r)) : m = (q \o r)[i]
      BY <1>1, <1>2 DEF Elements
    <2>2. CASE i <= Len(q)
      BY <1>1, <2>1, <2>2 DEF Elements
    <2>3. CASE ~(i <= Len(q))
      <3>1. m = r[i - Len(q)] /\ i - Len(q) \in 1..Len(r)
        BY <1>1, <2>1, <2>3
      <3> QED
        BY <3>1 DEF Elements
    <2> QED
      BY <2>2, <2>3
  <1>3. ASSUME NEW m \in Elements(q) PROVE m \in Elements(q \o r)
    <2>1. PICK i \in 1..Len(q) : m = q[i]
      BY <1>3 DEF Elements
    <2>2. i \in 1..(Len(q) + Len(r)) /\ (q \o r)[i] = q[i]
      BY <1>1
    <2> QED
      BY <1>1, <2>1, <2>2 DEF Elements
  <1>4. ASSUME NEW m \in Elements(r) PROVE m \in Elements(q \o r)
    <2>1. PICK i \in 1..Len(r) : m = r[i]
      BY <1>4 DEF Elements
    <2>2. i + Len(q) \in 1..(Len(q) + Len(r)) /\ ~(i + Len(q) <= Len(q)) /\ (i + Len(q)) - Len(q) = i
      BY <1>1
    <2>3. (q \o r)[i + Len(q)] = r[i]
      BY <1>1, <2>2
    <2> QED
      BY <1>1, <2>1, <2>2, <2>3 DEF Elements
  <1> QED
    BY <1>2, <1>3, <1>4

LEMMA FreeStays ==
    ASSUME TypeOK, TypeOK', NEW e \in Endpoint, nextId[e] <= nextId'[e],
           \A i \in RequestIds'[e] : i \in RequestIds[e] \/ (i > 0 /\ i >= nextId[e])
    PROVE  FreeIds[e] \subseteq FreeIds'[e]
  <1>1. nextId[e] \in Nat /\ nextId'[e] \in Nat
    BY DEF TypeOK
  <1>2. ASSUME NEW i \in FreeIds[e] PROVE i \in FreeIds'[e]
    <2>1. i \in Nat /\ (i = 0 \/ i < nextId[e]) /\ i \notin RequestIds[e]
      BY <1>2 DEF FreeIds
    <2>2. i = 0 \/ i < nextId'[e]
      BY <1>1, <2>1
    <2>3. i \notin RequestIds'[e]
      BY <1>1, <2>1
    <2> QED
      BY <2>1, <2>2, <2>3 DEF FreeIds
  <1> QED
    BY <1>2

(* What is in flight after a step was so before, is an application's, or is *)
(* as OwnEnvelope has it.                                                   *)
NewFlight ==
    \A e \in Endpoint : \A m \in InFlight'[e] :
        m \in InFlight[e] \/ m.kind \in Applications \/ OwnEnvelope(e, m)'

LEMMA OwnAnswersKept ==
    ASSUME OwnAnswers, NewFlight, \A e \in Endpoint : FreeIds[e] \subseteq FreeIds'[e]
    PROVE  OwnAnswers'
  <1> SUFFICES ASSUME NEW e \in Endpoint, NEW m \in InFlight'[e] PROVE OwnEnvelope(e, m)'
    BY DEF OwnAnswers
  <1>1. CASE m \in InFlight[e]
    <2>1. OwnEnvelope(e, m) /\ Peer(e) \in Endpoint
      BY <1>1, Peers DEF OwnAnswers
    <2> QED
      BY <2>1 DEF OwnEnvelope
  <1>2. CASE m.kind \in Applications
    BY <1>2 DEF OwnEnvelope, Applications
  <1> QED
    BY <1>1, <1>2 DEF NewFlight

(* Steps by which nobody sends: everything but the three steps of a send.   *)
Quiet ==
    /\ sent' = sent /\ draft' = draft
    /\ \A e \in Endpoint : /\ nextId[e] <= nextId'[e]
                           /\ remoteStarted'[e] => remoteStarted[e] \/ nextId[e] < nextId'[e]
    /\ boot' = "connected" => boot = "connected" \/ nextId["client"] > 0
    /\ \A e \in Endpoint : TakenIds[e] \subseteq TakenIds'[e]
    /\ \A e \in Endpoint : \A i \in answering'[e] : handled'[e][i].kind = "Request"
    /\ \A e \in Endpoint : \A i \in responseChannels[e] :
           i \in responseChannels'[e] \/ i \in FreeIds[e] \/ i \in TakenIds[Peer(e)]

LEMMA QuietNumbers ==
    ASSUME TypeOK, TypeOK', Quiet
    PROVE  /\ RequestIds' = RequestIds
           /\ \A e \in Endpoint : FreeIds[e] \subseteq FreeIds'[e]
  <1>1. RequestIds' = RequestIds
    BY DEF Quiet, RequestIds, Allocated
  <1> QED
    BY <1>1, FreeStays DEF Quiet

LEMMA QuietStep ==
    ASSUME TypeOK, TypeOK', AnswerInv, Quiet, NewFlight
    PROVE  AnswerInv'
  <1>1. Allocated' = Allocated /\ Sends' = Sends
    BY DEF Quiet, Allocated, Sends
  <1>2. RequestIds' = RequestIds /\ \A e \in Endpoint : FreeIds[e] \subseteq FreeIds'[e]
    BY QuietNumbers
  <1>3. \A e \in Endpoint : nextId[e] \in Nat /\ nextId'[e] \in Nat /\ nextId[e] <= nextId'[e]
    BY DEF Quiet, TypeOK
  <1>4. Numbering'
    <2> SUFFICES ASSUME NEW e \in Endpoint
                 PROVE  /\ \A m \in sent'[e] : m.id < nextId'[e] /\ m.kind \in Applications
                        /\ \A m, n \in sent'[e] : m.id = n.id => m = n
                        /\ \A t \in Sends'[e] : draft'[e][t].msg.id < nextId'[e] /\ draft'[e][t].msg.kind \in Applications
                        /\ \A t, u \in Sends'[e] : draft'[e][t].msg.id = draft'[e][u].msg.id => t = u
                        /\ \A t \in Allocated'[e] : \A m \in sent'[e] : m.id # draft'[e][t].msg.id
      BY DEF Numbering
    <2>1. \A m \in sent[e] : m.id \in Nat
      BY EnvelopeFacts
    <2>2. \A t \in Sends[e] : draft[e][t].msg.id \in Nat
      BY EnvelopeFacts
    <2>3. \A i \in Nat : i < nextId[e] => i < nextId'[e]
      BY <1>3
    <2>4. \A m \in sent[e] : m.id < nextId'[e] /\ m.kind \in Applications
      BY <2>1, <2>3 DEF AnswerInv, Numbering
    <2>5. \A t \in Sends[e] : draft[e][t].msg.id < nextId'[e] /\ draft[e][t].msg.kind \in Applications
      BY <2>2, <2>3 DEF AnswerInv, Numbering
    <2> QED
      BY <1>1, <2>4, <2>5 DEF AnswerInv, Numbering, Quiet
  <1>5. RequestsComeLater'
    BY <1>2, <1>3, Peers DEF AnswerInv, RequestsComeLater, Quiet
  <1>6. OwnAnswers'
    BY <1>2, OwnAnswersKept DEF AnswerInv
  <1>7. ResponsesAnswer'
    BY <1>1 DEF AnswerInv, ResponsesAnswer, Quiet
  <1>8. RequestsWait'
    <2> SUFFICES ASSUME NEW e \in Endpoint, NEW i \in RequestIds[e], i \in responseChannels[e]
                 PROVE  i \in responseChannels'[e] \cup TakenIds'[Peer(e)]
      BY <1>2, Peers DEF AnswerInv, RequestsWait, Quiet
    <2>1. i \notin FreeIds[e]
      BY DEF FreeIds
    <2> QED
      BY <2>1, Peers DEF Quiet
  <1> QED
    BY <1>4, <1>5, <1>6, <1>7, <1>8 DEF AnswerInv

-----------------------------------------------------------------------------
(* The steps of a send.                                                     *)

(* t's draft becomes d, and the others stay.                                *)
DraftBecomes(e, t, d) ==
    /\ draft'[e][t] = d
    /\ \A f \in Endpoint : \A u \in Threads(f) : f # e \/ u # t => draft'[f][u] = draft[f][u]

LEMMA DraftUpdate ==
    ASSUME TypeOK, NEW e \in Endpoint, NEW t \in Threads(e), NEW d,
           draft' = [draft EXCEPT ![e][t] = d]
    PROVE  DraftBecomes(e, t, d)
  BY DEF TypeOK, DraftBecomes

LEMMA AllocatedThen ==
    ASSUME NEW e \in Endpoint, NEW t \in Threads(e), NEW d, DraftBecomes(e, t, d)
    PROVE  /\ \A f \in Endpoint : f # e => Allocated'[f] = Allocated[f] /\ Sends'[f] = Sends[f]
           /\ \A u \in Threads(e) : u # t => /\ u \in Allocated'[e] <=> u \in Allocated[e]
                                             /\ u \in Sends'[e] <=> u \in Sends[e]
           /\ t \in Allocated'[e] <=> d.stage = "allocated"
           /\ t \in Sends'[e] <=> d.stage # "idle"
  BY DEF DraftBecomes, Allocated, Sends

LEMMA AllocateAnswers ==
    ASSUME IInv, TypeOK', AnswerInv, NEW e \in Endpoint, NEW t \in Threads(e),
           NEW kind \in Applications, NEW resp, Allocate(e, t, kind, resp),
           kind = "Request" => nextId[e] > 0,
           kind = "Response" => resp \in TakenIds[e],
           boot' = "connected" => boot = "connected",
           \A f \in Endpoint : answering'[f] \subseteq answering[f]
    PROVE  AnswerInv'
  <1> DEFINE m == [id |-> nextId[e], ack |-> None, resp |-> resp, kind |-> kind]
             d == [stage |-> "allocated", msg |-> m]
  <1>1. DraftBecomes(e, t, d)
    BY DraftUpdate DEF IInv, Allocate
  <1>2. t \notin Sends[e] /\ t \notin Allocated[e]
    BY DEF Allocate, Idle, Sends, Allocated
  <1>3. /\ UNCHANGED <<sent, handled, remoteStarted, outgoing, incoming>>
        /\ nextId[e] \in Nat /\ nextId'[e] = nextId[e] + 1
        /\ \A f \in Endpoint : f # e => nextId'[f] = nextId[f]
        /\ \A f \in Endpoint : nextId[f] <= nextId'[f]
    <2>1. nextId \in [Endpoint -> Nat]
      BY DEF IInv, TypeOK
    <2>2. nextId' = [nextId EXCEPT ![e] = @ + 1]
      BY DEF Allocate
    <2>3. UNCHANGED <<sent, handled, remoteStarted, outgoing, incoming>>
      BY DEF Allocate, queueVars
    <2> QED
      BY <2>1, <2>2, <2>3
  <1>4. responseChannels' = IF kind = "Request"
                            THEN [responseChannels EXCEPT ![e] = @ \cup {nextId[e]}]
                            ELSE responseChannels
    BY DEF Allocate
  <1>5. d.stage = "allocated" /\ d.msg = m /\ m.id = nextId[e] /\ m.kind = kind /\ m.resp = resp
    OBVIOUS
  <1> HIDE DEF d, m
  <1>6. /\ \A f \in Endpoint : f # e => Allocated'[f] = Allocated[f] /\ Sends'[f] = Sends[f]
        /\ Allocated'[e] = Allocated[e] \cup {t}
        /\ Sends'[e] = Sends[e] \cup {t}
    <2>1. /\ \A f \in Endpoint : f # e => Allocated'[f] = Allocated[f] /\ Sends'[f] = Sends[f]
          /\ \A u \in Threads(e) : u # t => /\ u \in Allocated'[e] <=> u \in Allocated[e]
                                            /\ u \in Sends'[e] <=> u \in Sends[e]
          /\ t \in Allocated'[e] /\ t \in Sends'[e]
      BY <1>1, <1>5, AllocatedThen
    <2>2. /\ Allocated[e] \subseteq Threads(e) /\ Allocated'[e] \subseteq Threads(e)
          /\ Sends[e] \subseteq Threads(e) /\ Sends'[e] \subseteq Threads(e)
      BY DEF Allocated, Sends
    <2> QED
      BY <2>1, <2>2
  <1>7. /\ draft'[e][t] = d
        /\ \A u \in Sends[e] : u # t => draft'[e][u] = draft[e][u]
        /\ \A f \in Endpoint : f # e => \A u \in Sends[f] : draft'[f][u] = draft[f][u]
    BY <1>1, EnvelopeFacts DEF DraftBecomes, IInv
  <1>8. \A f \in Endpoint : \A i \in RequestIds'[f] :
            \/ i \in RequestIds[f]
            \/ f = e /\ kind = "Request" /\ i = nextId[e]
    <2> SUFFICES ASSUME NEW f \in Endpoint, NEW i \in RequestIds'[f]
                 PROVE  i \in RequestIds[f] \/ (f = e /\ kind = "Request" /\ i = nextId[e])
      OBVIOUS
    <2>1. CASE \E n \in sent'[f] : n.kind = "Request" /\ i = n.id
      BY <1>3, <2>1 DEF RequestIds
    <2>2. CASE \E u \in Allocated'[f] : draft'[f][u].msg.kind = "Request" /\ i = draft'[f][u].msg.id
      <3>1. PICK u \in Allocated'[f] : draft'[f][u].msg.kind = "Request" /\ i = draft'[f][u].msg.id
        BY <2>2
      <3>2. CASE f = e /\ u = t
        BY <1>5, <1>7, <3>1, <3>2
      <3>3. CASE f # e \/ u # t
        <4>1. u \in Allocated[f] /\ u \in Threads(f)
          BY <1>6, <3>1, <3>3 DEF Allocated
        <4>2. draft'[f][u] = draft[f][u]
          BY <1>1, <3>3, <4>1 DEF DraftBecomes
        <4> QED
          BY <3>1, <4>1, <4>2 DEF RequestIds
      <3> QED
        BY <3>2, <3>3
    <2> QED
      BY <2>1, <2>2 DEF RequestIds
  <1>9. \A f \in Endpoint : FreeIds[f] \subseteq FreeIds'[f]
    <2> SUFFICES ASSUME NEW f \in Endpoint PROVE FreeIds[f] \subseteq FreeIds'[f]
      OBVIOUS
    <2>1. \A i \in RequestIds'[f] : i \in RequestIds[f] \/ (i > 0 /\ i >= nextId[f])
      BY <1>3, <1>8
    <2> QED
      BY <1>3, <2>1, FreeStays DEF IInv
  <1>10. TakenIds' = TakenIds /\ InFlight' = InFlight
    BY <1>3 DEF TakenIds, InFlight
  <1>11. Numbering'
    <2> SUFFICES ASSUME NEW f \in Endpoint
                 PROVE  /\ \A n \in sent'[f] : n.id < nextId'[f] /\ n.kind \in Applications
                        /\ \A n, k \in sent'[f] : n.id = k.id => n = k
                        /\ \A u \in Sends'[f] : draft'[f][u].msg.id < nextId'[f] /\ draft'[f][u].msg.kind \in Applications
                        /\ \A u, v \in Sends'[f] : draft'[f][u].msg.id = draft'[f][v].msg.id => u = v
                        /\ \A u \in Allocated'[f] : \A n \in sent'[f] : n.id # draft'[f][u].msg.id
      BY DEF Numbering
    <2>0. /\ \A n \in sent[f] : n.id < nextId[f] /\ n.kind \in Applications
          /\ \A n, k \in sent[f] : n.id = k.id => n = k
          /\ \A u \in Sends[f] : draft[f][u].msg.id < nextId[f] /\ draft[f][u].msg.kind \in Applications
          /\ \A u, v \in Sends[f] : draft[f][u].msg.id = draft[f][v].msg.id => u = v
          /\ \A u \in Allocated[f] : \A n \in sent[f] : n.id # draft[f][u].msg.id
      BY DEF AnswerInv, Numbering
    <2>1. CASE f # e
      <3>1. Allocated'[f] = Allocated[f] /\ Sends'[f] = Sends[f] /\ nextId'[f] = nextId[f] /\ sent' = sent
        BY <1>3, <1>6, <2>1
      <3>2. \A u \in Sends[f] : draft'[f][u] = draft[f][u]
        BY <1>7, <2>1
      <3>3. Allocated[f] \subseteq Sends[f]
        BY EnvelopeFacts DEF IInv
      <3> QED
        BY <2>0, <3>1, <3>2, <3>3
    <2>2. CASE f = e
      <3>1. \A n \in sent[e] : n.id \in Nat
        BY EnvelopeFacts DEF IInv
      <3>2. \A u \in Sends[e] : draft[e][u].msg.id \in Nat /\ u # t
        BY <1>2, EnvelopeFacts DEF IInv
      <3>3. \A n \in sent'[e] : n.id < nextId'[e] /\ n.kind \in Applications /\ n.id # nextId[e]
        BY <1>3, <2>0, <2>2, <3>1
      <3>4. \A u \in Sends[e] : /\ draft'[e][u] = draft[e][u]
                                /\ draft[e][u].msg.id < nextId[e] + 1
                                /\ draft[e][u].msg.id # nextId[e]
        BY <1>3, <1>7, <2>0, <2>2, <3>2
      <3>5. \A u \in Sends'[e] : u \in Sends[e] \/ u = t
        BY <1>6
      <3>6. draft'[e][t].msg.id = nextId[e] /\ draft'[e][t].msg.kind \in Applications
        BY <1>5, <1>7
      <3>7. \A u \in Sends'[e] : draft'[e][u].msg.id < nextId'[e] /\ draft'[e][u].msg.kind \in Applications
        BY <1>3, <2>0, <2>2, <3>4, <3>5, <3>6
      <3>8. \A u, v \in Sends'[e] : draft'[e][u].msg.id = draft'[e][v].msg.id => u = v
        BY <2>0, <2>2, <3>4, <3>5, <3>6
      <3>9. Allocated[e] \subseteq Sends[e]
        BY EnvelopeFacts DEF IInv
      <3>10. \A u \in Allocated'[e] : \A n \in sent'[e] : n.id # draft'[e][u].msg.id
        BY <1>3, <1>6, <2>0, <2>2, <3>3, <3>4, <3>6, <3>9
      <3> QED
        BY <1>3, <2>0, <2>2, <3>3, <3>7, <3>8, <3>10
    <2> QED
      BY <2>1, <2>2
  <1>12. RequestsComeLater'
    <2>1. \A f \in Endpoint : nextId[f] \in Nat /\ nextId'[f] \in Nat
      BY DEF IInv, TypeOK
    <2> QED
      BY <1>3, <1>8, <2>1, Peers DEF AnswerInv, RequestsComeLater
  <1>13. OwnAnswers'
    BY <1>9, <1>10, OwnAnswersKept DEF AnswerInv, NewFlight
  <1>14. ResponsesAnswer'
    <2>1. \A f \in Endpoint : \A u \in Allocated'[f] :
              draft'[f][u].msg.kind = "Response" => draft'[f][u].msg.resp \in TakenIds[f]
      <3> SUFFICES ASSUME NEW f \in Endpoint, NEW u \in Allocated'[f],
                          draft'[f][u].msg.kind = "Response"
                   PROVE  draft'[f][u].msg.resp \in TakenIds[f]
        OBVIOUS
      <3>1. CASE f = e /\ u = t
        BY <1>5, <1>7, <3>1
      <3>2. CASE f # e \/ u # t
        <4>1. u \in Allocated[f] /\ u \in Threads(f)
          BY <1>6, <3>2 DEF Allocated
        <4>2. draft'[f][u] = draft[f][u]
          BY <1>1, <3>2, <4>1 DEF DraftBecomes
        <4> QED
          BY <4>1, <4>2 DEF AnswerInv, ResponsesAnswer
      <3> QED
        BY <3>1, <3>2
    <2> QED
      BY <1>3, <1>10, <2>1 DEF AnswerInv, ResponsesAnswer
  <1>15. RequestsWait'
    <2> SUFFICES ASSUME NEW f \in Endpoint, NEW i \in RequestIds'[f]
                 PROVE  i \in responseChannels'[f] \cup TakenIds[Peer(f)]
      BY <1>10 DEF RequestsWait
    <2>1. responseChannels[f] \subseteq responseChannels'[f]
      BY <1>4 DEF IInv, TypeOK
    <2>2. CASE i \in RequestIds[f]
      BY <2>1, <2>2 DEF AnswerInv, RequestsWait
    <2>3. CASE f = e /\ kind = "Request" /\ i = nextId[e]
      BY <1>4, <2>3 DEF IInv, TypeOK
    <2> QED
      BY <1>8, <2>2, <2>3
  <1> QED
    BY <1>11, <1>12, <1>13, <1>14, <1>15 DEF AnswerInv

LEMMA EnbufferAnswers ==
    ASSUME IInv, TypeOK', AnswerInv, NEW e \in Endpoint, NEW t \in Threads(e), Enbuffer(e, t)
    PROVE  AnswerInv'
  <1> DEFINE o == draft[e][t].msg
             m == [o EXCEPT !.ack = maxReceived[e]]
             d == [stage |-> "buffered", msg |-> m]
  <1>1. DraftBecomes(e, t, d)
    BY DraftUpdate DEF IInv, Enbuffer
  <1>2. t \in Sends[e] /\ t \in Allocated[e]
    BY DEF Enbuffer, Sends, Allocated
  <1>3. /\ UNCHANGED <<nextId, responseChannels, handled, answering, boot, remoteStarted, outgoing, incoming>>
        /\ sent'[e] = sent[e] \cup {m}
        /\ \A f \in Endpoint : f # e => sent'[f] = sent[f]
    BY DEF Enbuffer, queueVars, IInv, TypeOK
  <1>4. m.id = o.id /\ m.kind = o.kind /\ m.resp = o.resp
    <2>1. o \in Envelope
      BY EnvelopeFacts DEF IInv
    <2> QED
      BY <2>1 DEF Envelope
  <1>5. d.stage = "buffered" /\ d.msg = m
    OBVIOUS
  <1> HIDE DEF d, m
  <1>6. /\ \A f \in Endpoint : f # e => Allocated'[f] = Allocated[f]
        /\ Sends' = Sends
        /\ Allocated'[e] = Allocated[e] \ {t}
    <2>1. /\ \A f \in Endpoint : f # e => Allocated'[f] = Allocated[f] /\ Sends'[f] = Sends[f]
          /\ \A u \in Threads(e) : u # t => /\ u \in Allocated'[e] <=> u \in Allocated[e]
                                            /\ u \in Sends'[e] <=> u \in Sends[e]
          /\ t \notin Allocated'[e] /\ t \in Sends'[e]
      BY <1>1, <1>5, AllocatedThen
    <2>2. /\ Allocated[e] \subseteq Threads(e) /\ Allocated'[e] \subseteq Threads(e)
          /\ Sends[e] \subseteq Threads(e) /\ Sends'[e] \subseteq Threads(e)
      BY DEF Allocated, Sends
    <2>3. Sends'[e] = Sends[e]
      BY <1>2, <2>1, <2>2
    <2>4. Sends = [f \in Endpoint |-> Sends[f]] /\ Sends' = [f \in Endpoint |-> Sends'[f]]
      BY DEF Sends
    <2>5. Sends' = Sends
      BY <2>1, <2>3, <2>4
    <2> QED
      BY <2>1, <2>2, <2>5
  <1>7. /\ draft'[e][t].msg = m
        /\ \A u \in Sends[e] : u # t => draft'[e][u] = draft[e][u]
        /\ \A f \in Endpoint : f # e => \A u \in Sends[f] : draft'[f][u] = draft[f][u]
    BY <1>1, <1>5, EnvelopeFacts DEF DraftBecomes, IInv
  <1>8. \A f \in Endpoint : RequestIds'[f] = RequestIds[f]
    <2>1. \A f \in Endpoint : f # e => RequestIds'[f] = RequestIds[f]
      <3> SUFFICES ASSUME NEW f \in Endpoint, f # e PROVE RequestIds'[f] = RequestIds[f]
        OBVIOUS
      <3>1. Allocated'[f] = Allocated[f] /\ sent'[f] = sent[f] /\ \A u \in Allocated[f] : draft'[f][u] = draft[f][u]
        BY <1>3, <1>6, <1>7, EnvelopeFacts DEF IInv
      <3> QED
        BY <3>1 DEF RequestIds
    <2>2. ASSUME NEW i PROVE i \in RequestIds'[e] <=> i \in RequestIds[e]
      <3>1. i \in RequestIds'[e] <=> \/ \E n \in sent'[e] : n.kind = "Request" /\ i = n.id
                                     \/ \E u \in Allocated'[e] : draft'[e][u].msg.kind = "Request" /\ i = draft'[e][u].msg.id
        BY DEF RequestIds
      <3>2. i \in RequestIds[e] <=> \/ \E n \in sent[e] : n.kind = "Request" /\ i = n.id
                                    \/ \E u \in Allocated[e] : draft[e][u].msg.kind = "Request" /\ i = draft[e][u].msg.id
        BY DEF RequestIds
      <3>3. \A u \in Allocated'[e] : draft'[e][u] = draft[e][u] /\ u \in Allocated[e]
        BY <1>6, <1>7, EnvelopeFacts DEF IInv
      <3>4. \A u \in Allocated[e] : u \in Allocated'[e] \/ u = t
        BY <1>6
      <3> QED
        BY <1>2, <1>3, <1>4, <3>1, <3>2, <3>3, <3>4
    <2>3. RequestIds'[e] = RequestIds[e]
      BY <2>2
    <2> QED
      BY <2>1, <2>3
  <1>9. \A f \in Endpoint : FreeIds[f] \subseteq FreeIds'[f]
    BY <1>3, <1>8 DEF FreeIds
  <1>10. TakenIds' = TakenIds /\ InFlight' = InFlight
    BY <1>3 DEF TakenIds, InFlight
  <1>11. Numbering'
    <2> SUFFICES ASSUME NEW f \in Endpoint
                 PROVE  /\ \A n \in sent'[f] : n.id < nextId'[f] /\ n.kind \in Applications
                        /\ \A n, k \in sent'[f] : n.id = k.id => n = k
                        /\ \A u \in Sends'[f] : draft'[f][u].msg.id < nextId'[f] /\ draft'[f][u].msg.kind \in Applications
                        /\ \A u, v \in Sends'[f] : draft'[f][u].msg.id = draft'[f][v].msg.id => u = v
                        /\ \A u \in Allocated'[f] : \A n \in sent'[f] : n.id # draft'[f][u].msg.id
      BY DEF Numbering
    <2>0. /\ \A n \in sent[f] : n.id < nextId[f] /\ n.kind \in Applications
          /\ \A n, k \in sent[f] : n.id = k.id => n = k
          /\ \A u \in Sends[f] : draft[f][u].msg.id < nextId[f] /\ draft[f][u].msg.kind \in Applications
          /\ \A u, v \in Sends[f] : draft[f][u].msg.id = draft[f][v].msg.id => u = v
          /\ \A u \in Allocated[f] : \A n \in sent[f] : n.id # draft[f][u].msg.id
      BY DEF AnswerInv, Numbering
    <2>3. Allocated[f] \subseteq Sends[f]
      BY EnvelopeFacts DEF IInv
    <2>1. CASE f # e
      BY <1>3, <1>6, <1>7, <2>0, <2>1, <2>3
    <2>2. CASE f = e
      <3>1. o.id < nextId[e] /\ o.kind \in Applications /\ \A n \in sent[e] : n.id # o.id
        BY <1>2, <2>0, <2>2
      <3>2. \A u \in Sends[e] : draft'[e][u].msg.id = draft[e][u].msg.id /\ draft'[e][u].msg.kind = draft[e][u].msg.kind
        BY <1>4, <1>7
      <3>3. \A n \in sent'[e] : n \in sent[e] \/ n = m
        BY <1>3
      <3>4. /\ \A n \in sent'[f] : n.id < nextId'[f] /\ n.kind \in Applications
            /\ \A n, k \in sent'[f] : n.id = k.id => n = k
        BY <1>3, <1>4, <2>0, <2>2, <3>1, <3>3
      <3>5. /\ \A u \in Sends'[f] : draft'[f][u].msg.id < nextId'[f] /\ draft'[f][u].msg.kind \in Applications
            /\ \A u, v \in Sends'[f] : draft'[f][u].msg.id = draft'[f][v].msg.id => u = v
        BY <1>3, <1>6, <2>0, <2>2, <3>2
      <3>6. \A u \in Allocated'[f] : \A n \in sent'[f] : n.id # draft'[f][u].msg.id
        <4>1. \A u \in Allocated[e] \ {t} : draft[e][u].msg.id # o.id
          BY <1>2, <2>0, <2>2, <2>3
        <4> QED
          BY <1>4, <1>6, <2>0, <2>2, <2>3, <3>2, <3>3, <4>1
      <3> QED
        BY <3>4, <3>5, <3>6
    <2> QED
      BY <2>1, <2>2
  <1>12. RequestsComeLater' /\ RequestsWait'
    BY <1>3, <1>8, <1>10 DEF AnswerInv, RequestsComeLater, RequestsWait
  <1>13. OwnAnswers'
    BY <1>9, <1>10, OwnAnswersKept DEF AnswerInv, NewFlight
  <1>14. ResponsesAnswer'
    <2> SUFFICES ASSUME NEW f \in Endpoint
                 PROVE  /\ \A i \in answering'[f] : handled'[f][i].kind = "Request"
                        /\ \A n \in sent'[f] : n.kind = "Response" => n.resp \in TakenIds'[f]
                        /\ \A u \in Allocated'[f] :
                               draft'[f][u].msg.kind = "Response" => draft'[f][u].msg.resp \in TakenIds'[f]
      BY DEF ResponsesAnswer
    <2>0. /\ \A i \in answering[f] : handled[f][i].kind = "Request"
          /\ \A n \in sent[f] : n.kind = "Response" => n.resp \in TakenIds[f]
          /\ \A u \in Allocated[f] :
                 draft[f][u].msg.kind = "Response" => draft[f][u].msg.resp \in TakenIds[f]
      BY DEF AnswerInv, ResponsesAnswer
    <2>1. \A n \in sent'[f] : n \in sent[f] \/ (f = e /\ n = m)
      BY <1>3
    <2>2. \A u \in Allocated'[f] : u \in Allocated[f] /\ draft'[f][u] = draft[f][u]
      BY <1>6, <1>7, EnvelopeFacts DEF IInv
    <2> QED
      BY <1>2, <1>3, <1>4, <1>10, <2>0, <2>1, <2>2
  <1> QED
    BY <1>11, <1>12, <1>13, <1>14 DEF AnswerInv

(* What is posted is added to what is in flight, at most.                   *)
LEMMA PostFlight ==
    ASSUME TypeOK, NEW e \in Endpoint, NEW msgs \in Seq(Envelope), Post(e, msgs)
    PROVE  \A f \in Endpoint : Elements(outgoing'[f]) \subseteq
               Elements(outgoing[f]) \cup (IF f = e THEN Elements(msgs) ELSE {})
  <1>1. outgoing[e] \in Seq(Envelope)
    BY DEF TypeOK
  <1>2. Elements(outgoing[e] \o msgs) = Elements(outgoing[e]) \cup Elements(msgs)
    BY <1>1, ElementsConcat
  <1>3. outgoing' = outgoing \/ outgoing' = [outgoing EXCEPT ![e] = @ \o msgs]
    BY DEF Post
  <1> QED
    BY <1>2, <1>3 DEF TypeOK

LEMMA OneElement == \A m : Elements(<<m>>) = {m}
  BY DEF Elements

LEMMA PostDraftAnswers ==
    ASSUME IInv, TypeOK', AnswerInv, NEW e \in Endpoint, NEW t \in Threads(e), PostDraft(e, t)
    PROVE  AnswerInv'
  <1> DEFINE o == draft[e][t].msg
  <1>1. DraftBecomes(e, t, Idle)
    BY DraftUpdate DEF IInv, PostDraft
  <1>2. t \in Sends[e] /\ t \notin Allocated[e]
    BY DEF PostDraft, Sends, Allocated
  <1>3. UNCHANGED <<nextId, responseChannels, handled, answering, boot, remoteStarted, incoming, sent>>
    BY DEF PostDraft, endVars
  <1>4. Idle.stage = "idle"
    BY DEF Idle
  <1>5. Allocated' = Allocated /\ \A f \in Endpoint : Sends'[f] \subseteq Sends[f] /\ (f = e => t \notin Sends'[f])
    <2>1. /\ \A f \in Endpoint : f # e => Allocated'[f] = Allocated[f] /\ Sends'[f] = Sends[f]
          /\ \A u \in Threads(e) : u # t => /\ u \in Allocated'[e] <=> u \in Allocated[e]
                                            /\ u \in Sends'[e] <=> u \in Sends[e]
          /\ t \notin Allocated'[e] /\ t \notin Sends'[e]
      BY <1>1, <1>4, AllocatedThen
    <2>2. /\ Allocated[e] \subseteq Threads(e) /\ Allocated'[e] \subseteq Threads(e)
          /\ Sends[e] \subseteq Threads(e) /\ Sends'[e] \subseteq Threads(e)
      BY DEF Allocated, Sends
    <2>3. Allocated'[e] = Allocated[e] /\ Sends'[e] \subseteq Sends[e]
      BY <1>2, <2>1, <2>2
    <2>4. Allocated = [f \in Endpoint |-> Allocated[f]] /\ Allocated' = [f \in Endpoint |-> Allocated'[f]]
      BY DEF Allocated
    <2> QED
      BY <2>1, <2>3, <2>4
  <1>6. \A f \in Endpoint : /\ \A u \in Sends'[f] : draft'[f][u] = draft[f][u]
                            /\ \A u \in Allocated[f] : draft'[f][u] = draft[f][u]
    BY <1>1, <1>2, <1>5, EnvelopeFacts DEF DraftBecomes, IInv
  <1>7. RequestIds' = RequestIds
    <2>1. \A f \in Endpoint : RequestIds'[f] = RequestIds[f]
      <3> SUFFICES ASSUME NEW f \in Endpoint PROVE RequestIds'[f] = RequestIds[f]
        OBVIOUS
      <3>1. Allocated'[f] = Allocated[f] /\ sent'[f] = sent[f] /\ \A u \in Allocated[f] : draft'[f][u] = draft[f][u]
        BY <1>3, <1>5, <1>6
      <3> QED
        BY <3>1 DEF RequestIds
    <2>2. RequestIds = [f \in Endpoint |-> RequestIds[f]] /\ RequestIds' = [f \in Endpoint |-> RequestIds'[f]]
      BY DEF RequestIds
    <2> QED
      BY <2>1, <2>2
  <1>8. FreeIds' = FreeIds /\ TakenIds' = TakenIds
    BY <1>3, <1>7 DEF FreeIds, TakenIds
  <1>9. Numbering'
    <2>1. \A f \in Endpoint : Allocated[f] \subseteq Sends[f]
      BY EnvelopeFacts DEF IInv
    <2> QED
      BY <1>3, <1>5, <1>6, <2>1 DEF AnswerInv, Numbering
  <1>10. RequestsComeLater' /\ RequestsWait'
    BY <1>3, <1>7, <1>8 DEF AnswerInv, RequestsComeLater, RequestsWait
  <1>11. ResponsesAnswer'
    BY <1>3, <1>5, <1>6, <1>8 DEF AnswerInv, ResponsesAnswer
  <1>12. OwnAnswers'
    <2>1. o \in sent[e] /\ o \in Envelope
      BY EnvelopeFacts DEF IInv, OnlySent, PostDraft
    <2>2. o.kind \in Applications
      BY <2>1 DEF AnswerInv, Numbering
    <2>3. <<o>> \in Seq(Envelope) /\ Post(e, <<o>>)
      BY <2>1 DEF PostDraft
    <2>4. \A f \in Endpoint : Elements(outgoing'[f]) \subseteq
               Elements(outgoing[f]) \cup (IF f = e THEN {o} ELSE {})
      BY <2>3, PostFlight, OneElement DEF IInv
    <2> HIDE DEF o
    <2>5. NewFlight
      BY <1>3, <2>2, <2>4 DEF NewFlight, InFlight
    <2> QED
      BY <1>8, <2>5, OwnAnswersKept DEF AnswerInv
  <1> QED
    BY <1>9, <1>10, <1>11, <1>12 DEF AnswerInv

-----------------------------------------------------------------------------
(* The message loops and the link.                                          *)

(* What a message loop takes was in flight from its peer.                   *)
LEMMA TakingFlight ==
    ASSUME IInv, NEW e \in Endpoint, Taking(e)
    PROVE  /\ Head(incoming[e]) \in InFlight[Peer(e)]
           /\ Head(incoming[e]) \in Envelope
           /\ Head(incoming[e]).kind \in Applications => Head(incoming[e]) \in sent[Peer(e)]
           /\ \A f \in Endpoint : Elements(incoming'[f]) \subseteq Elements(incoming[f])
  <1>1. incoming[e] \in Seq(Envelope) /\ incoming[e] # <<>>
        /\ incoming' = [incoming EXCEPT ![e] = Tail(@)]
    BY DEF IInv, TypeOK, Taking
  <1>2. Head(incoming[e]) \in Elements(incoming[e]) /\ Elements(Tail(incoming[e])) \subseteq Elements(incoming[e])
    BY <1>1, ElementsFacts
  <1>3. Head(incoming[e]) \in InFlight[Peer(e)]
    BY <1>2, Peers DEF InFlight
  <1>4. Head(incoming[e]) \in Carried(Peer(e)) /\ Head(incoming[e]) \in Envelope
    BY TakingCarried, TakingType DEF IInv
  <1> QED
    BY <1>1, <1>2, <1>3, <1>4 DEF Carried, ChannelOwn, Applications, IInv, TypeOK

(* handled only ever grows.                                                 *)
LEMMA HandledGrows ==
    ASSUME TypeOK, NEW e \in Endpoint, NEW m \in Envelope,
           handled' = [handled EXCEPT ![e] = Append(@, m)]
    PROVE  /\ \A f \in Endpoint : TakenIds[f] \subseteq TakenIds'[f]
           /\ \A f \in Endpoint : \A i \in answering[f] : handled'[f][i] = handled[f][i]
           /\ handled'[e][Len(handled[e]) + 1] = m
  <1>1. \A f \in Endpoint : handled[f] \in Seq(Envelope) /\ answering[f] \subseteq 1..Len(handled[f])
    BY DEF TypeOK
  <1>2. handled'[e] = Append(handled[e], m) /\ \A f \in Endpoint : f # e => handled'[f] = handled[f]
    BY DEF TypeOK
  <1>3. Elements(handled'[e]) = Elements(handled[e]) \cup {m}
    BY <1>1, <1>2, ElementsAppend
  <1>4. \A f \in Endpoint : Elements(handled[f]) \subseteq Elements(handled'[f])
    BY <1>2, <1>3
  <1>5. \A i \in 1..Len(handled[e]) : Append(handled[e], m)[i] = handled[e][i]
    BY <1>1
  <1>6. Append(handled[e], m)[Len(handled[e]) + 1] = m
    BY <1>1
  <1>7. \A f \in Endpoint : TakenIds[f] \subseteq TakenIds'[f]
    BY <1>4 DEF TakenIds
  <1>8. \A f \in Endpoint : \A i \in answering[f] : handled'[f][i] = handled[f][i]
    BY <1>1, <1>2, <1>5
  <1> QED
    BY <1>2, <1>6, <1>7, <1>8

LEMMA NextIdGrows ==
    ASSUME TypeOK, NEW e \in Endpoint, nextId' = [nextId EXCEPT ![e] = @ + 1]
    PROVE  /\ \A f \in Endpoint : nextId[f] <= nextId'[f]
           /\ nextId[e] < nextId'[e]
  <1>1. nextId \in [Endpoint -> Nat]
    BY DEF TypeOK
  <1> QED
    BY <1>1

LEMMA SameNextId ==
    ASSUME TypeOK, nextId' = nextId
    PROVE  \A f \in Endpoint : nextId[f] <= nextId'[f]
  BY DEF TypeOK

LEMMA PostedFlight ==
    ASSUME TypeOK, NEW e \in Endpoint, NEW msgs \in Seq(Envelope), Post(e, msgs),
           \A f \in Endpoint : Elements(incoming'[f]) \subseteq Elements(incoming[f]),
           \A m \in Elements(msgs) : m.kind \in Applications \/ OwnEnvelope(e, m)'
    PROVE  NewFlight
  <1>1. \A f \in Endpoint : Elements(outgoing'[f]) \subseteq
            Elements(outgoing[f]) \cup (IF f = e THEN Elements(msgs) ELSE {})
    BY PostFlight
  <1>2. \A f \in Endpoint : Elements(incoming'[Peer(f)]) \subseteq Elements(incoming[Peer(f)])
    BY Peers
  <1>3. ASSUME NEW f \in Endpoint, NEW m \in InFlight'[f]
        PROVE  m \in InFlight[f] \/ m.kind \in Applications \/ OwnEnvelope(f, m)'
    <2>1. m \in Elements(outgoing'[f]) \/ m \in Elements(incoming'[Peer(f)])
      BY <1>3 DEF InFlight
    <2>2. m \in InFlight[f] \/ (f = e /\ m \in Elements(msgs))
      BY <1>1, <1>2, <2>1 DEF InFlight
    <2> QED
      BY <2>2
  <1> QED
    BY <1>3 DEF NewFlight

LEMMA SmallerFlight ==
    ASSUME \A e \in Endpoint : InFlight'[e] \subseteq InFlight[e]
    PROVE  NewFlight
  BY DEF NewFlight

LEMMA FlushAnswers ==
    ASSUME IInv, TypeOK', AnswerInv, NEW e \in Endpoint, HandleFlush(e)
    PROVE  AnswerInv'
  <1> DEFINE m == Head(incoming[e])
             ack == AckEnvelope(nextId[e], m.id)
             msgs == Append(buffer'[e], ack)
  <1>1. /\ Taking(e) /\ m.kind = "FlushBufferedMessages"
        /\ Post(e, msgs)
        /\ nextId' = [nextId EXCEPT ![e] = @ + 1]
        /\ UNCHANGED <<responseChannels, remoteStarted, boot, draft, handled, answering, sent>>
    BY DEF HandleFlush, appVars
  <1>2. m \in InFlight[Peer(e)] /\ m \in Envelope
        /\ \A f \in Endpoint : Elements(incoming'[f]) \subseteq Elements(incoming[f])
    BY <1>1, TakingFlight
  <1>3. m.id \in FreeIds[Peer(e)]
    BY <1>1, <1>2, Peers DEF AnswerInv, OwnAnswers, OwnEnvelope
  <1>4. ack \in Envelope /\ ack.kind = "Ack" /\ ack.resp = m.id
    <2>1. nextId[e] \in Nat /\ m.id \in Nat
      BY <1>2, EnvelopeFacts DEF IInv
    <2> QED
      BY <2>1, ConstantTypes DEF AckEnvelope
  <1>5. buffer'[e] \in Seq(Envelope) /\ Elements(buffer'[e]) \subseteq sent[e]
    <2>1. PopAcked(e, m)
      BY DEF HandleFlush
    <2>2. buffer'[e] \in Seq(sent[e])
      BY <2>1, PopAckedSent DEF IInv
    <2>3. buffer'[e] \in Seq(Envelope)
      BY DEF TypeOK
    <2> QED
      BY <2>2, <2>3, ElementsFacts
  <1> HIDE DEF m, ack
  <1>6. msgs \in Seq(Envelope) /\ Elements(msgs) = Elements(buffer'[e]) \cup {ack}
    BY <1>4, <1>5, ElementsFacts
  <1>7. Quiet
    BY <1>1, NextIdGrows DEF Quiet, IInv, TakenIds, AnswerInv, ResponsesAnswer
  <1>8. \A f \in Endpoint : FreeIds[f] \subseteq FreeIds'[f]
    BY <1>7, QuietNumbers DEF IInv
  <1>9. \A a : a = ack => OwnEnvelope(e, a)'
    BY <1>3, <1>4, <1>8, Peers DEF OwnEnvelope
  <1> HIDE DEF msgs
  <1>10. \A n \in Elements(msgs) : n.kind \in Applications \/ OwnEnvelope(e, n)'
    BY <1>5, <1>6, <1>9 DEF AnswerInv, Numbering
  <1>11. NewFlight
    BY <1>1, <1>2, <1>6, <1>10, PostedFlight DEF IInv
  <1> QED
    BY <1>7, <1>11, QuietStep DEF IInv

LEMMA RemoteStartedAnswers ==
    ASSUME IInv, TypeOK', AnswerInv, NEW e \in Endpoint, HandleRemoteStarted(e)
    PROVE  AnswerInv'
  <1> DEFINE m == Head(incoming[e])
             ack == AckEnvelope(nextId[e], m.id)
             msgs == <<ack>>
  <1>1. /\ Taking(e) /\ m.kind = "RemoteStarted"
        /\ Post(e, msgs)
        /\ nextId' = [nextId EXCEPT ![e] = @ + 1]
        /\ remoteStarted' = [remoteStarted EXCEPT ![e] = TRUE]
        /\ UNCHANGED <<responseChannels, boot, draft, handled, answering, sent>>
    BY DEF HandleRemoteStarted, appVars
  <1>2. m \in InFlight[Peer(e)] /\ m \in Envelope
        /\ \A f \in Endpoint : Elements(incoming'[f]) \subseteq Elements(incoming[f])
    BY <1>1, TakingFlight
  <1>3. m.id \in FreeIds[Peer(e)]
    <2>1. m.id = 0
      BY <1>1, <1>2, Peers DEF AnswerInv, OwnAnswers, OwnEnvelope
    <2> QED
      BY <2>1, Peers DEF AnswerInv, RequestsComeLater, FreeIds
  <1>4. ack \in Envelope /\ ack.kind = "Ack" /\ ack.resp = m.id
    <2>1. nextId[e] \in Nat /\ m.id \in Nat
      BY <1>2, EnvelopeFacts DEF IInv
    <2> QED
      BY <2>1, ConstantTypes DEF AckEnvelope
  <1> HIDE DEF m, ack
  <1>6. msgs \in Seq(Envelope) /\ Elements(msgs) = {ack}
    BY <1>4, OneElement
  <1>7. Quiet
    BY <1>1, NextIdGrows DEF Quiet, IInv, TypeOK, TakenIds, AnswerInv, ResponsesAnswer
  <1>8. \A f \in Endpoint : FreeIds[f] \subseteq FreeIds'[f]
    BY <1>7, QuietNumbers DEF IInv
  <1>9. \A a : a = ack => OwnEnvelope(e, a)'
    BY <1>3, <1>4, <1>8, Peers DEF OwnEnvelope
  <1> HIDE DEF msgs
  <1>10. \A n \in Elements(msgs) : n.kind \in Applications \/ OwnEnvelope(e, n)'
    BY <1>6, <1>9
  <1>11. NewFlight
    BY <1>1, <1>2, <1>6, <1>10, PostedFlight DEF IInv
  <1> QED
    BY <1>7, <1>11, QuietStep DEF IInv

LEMMA TakingAnswers ==
    ASSUME IInv, TypeOK', AnswerInv, NEW e \in Endpoint, HandleAnswer(e) \/ HandleMessage(e)
    PROVE  AnswerInv'
  <1> DEFINE m == Head(incoming[e])
  <1>1. /\ Taking(e)
        /\ UNCHANGED <<nextId, remoteStarted, outgoing, draft, sent>>
    BY DEF HandleAnswer, HandleMessage
  <1>2. /\ m \in InFlight[Peer(e)] /\ m \in Envelope
        /\ m.kind \in Applications => m \in sent[Peer(e)]
        /\ \A f \in Endpoint : Elements(incoming'[f]) \subseteq Elements(incoming[f])
    BY <1>1, TakingFlight
  <1>3. handled' = handled \/ handled' = [handled EXCEPT ![e] = Append(@, m)]
    BY DEF HandleAnswer, HandleMessage
  <1>4. /\ \A f \in Endpoint : TakenIds[f] \subseteq TakenIds'[f]
        /\ \A f \in Endpoint : \A i \in answering[f] : handled'[f][i] = handled[f][i]
        /\ handled' # handled => handled'[e][Len(handled[e]) + 1] = m
    <2>1. CASE handled' = handled
      BY <2>1 DEF TakenIds
    <2>2. CASE handled' = [handled EXCEPT ![e] = Append(@, m)]
      <3> HIDE DEF m
      <3> QED
        BY <1>2, <2>2, HandledGrows DEF IInv
    <2> QED
      BY <1>3, <2>1, <2>2
  <1>5. \A f \in Endpoint : \A i \in answering'[f] : handled'[f][i].kind = "Request"
    <2>1. \A f \in Endpoint : \A i \in answering[f] : handled'[f][i].kind = "Request"
      BY <1>4 DEF AnswerInv, ResponsesAnswer
    <2>2. CASE answering' = answering
      BY <2>1, <2>2
    <2>3. CASE /\ m.kind = "Request"
               /\ answering' = [answering EXCEPT ![e] = @ \cup {Len(handled[e]) + 1}]
               /\ handled' = [handled EXCEPT ![e] = Append(@, m)]
      <3>1. handled'[e][Len(handled[e]) + 1] = m
        <4> HIDE DEF m
        <4> QED
          BY <1>2, <2>3, HandledGrows DEF IInv
      <3>2. \A f \in Endpoint : \A i \in answering'[f] :
                i \in answering[f] \/ (f = e /\ i = Len(handled[e]) + 1)
        BY <2>3 DEF IInv, TypeOK
      <3> QED
        BY <2>1, <2>3, <3>1, <3>2
    <2> QED
      BY <2>2, <2>3 DEF HandleAnswer, HandleMessage
  <1>6. m.kind = "Response" => m.resp \in TakenIds[Peer(e)]
    BY <1>2, Peers DEF Applications, AnswerInv, ResponsesAnswer
  <1>7. m.kind = "Ack" => m.resp \in FreeIds[e]
    BY <1>2, Peers DEF AnswerInv, OwnAnswers, OwnEnvelope
  <1>8. \A f \in Endpoint : \A i \in responseChannels[f] :
           i \in responseChannels'[f] \/ i \in FreeIds[f] \/ i \in TakenIds[Peer(f)]
    <2>1. CASE responseChannels' = responseChannels
      BY <2>1
    <2>2. CASE m.kind \in {"Ack", "Response"} /\ responseChannels' = [responseChannels EXCEPT ![e] = @ \ {m.resp}]
      <3>1. \A f \in Endpoint : \A i \in responseChannels[f] : i \in responseChannels'[f] \/ (f = e /\ i = m.resp)
        BY <2>2 DEF IInv, TypeOK
      <3> QED
        BY <1>6, <1>7, <2>2, <3>1
    <2> QED
      BY <2>1, <2>2 DEF HandleAnswer, HandleMessage
  <1>9. boot' = "connected" => boot = "connected" \/ nextId["client"] > 0
    <2>1. CASE boot' = boot
      BY <2>1
    <2>2. CASE e = "client" /\ m.kind = "Response"
      <3>1. m.resp \in TakenIds["server"]
        BY <1>6, <2>2 DEF Peer
      <3>2. PICK n \in Elements(handled["server"]) : n.id = m.resp
        BY <3>1, Peers DEF TakenIds
      <3>3. n \in sent["client"]
        <4>1. handled["server"] \in Seq(sent["client"])
          BY Peers DEF IInv, OnlySent, Peer
        <4> QED
          BY <4>1, ElementsFacts
      <3>4. n.id < nextId["client"] /\ n.id \in Nat /\ nextId["client"] \in Nat
        BY <3>3, EnvelopeFacts, Peers DEF IInv, AnswerInv, Numbering
      <3> QED
        BY <3>4
    <2> QED
      BY <2>1, <2>2 DEF HandleAnswer, HandleMessage
  <1> HIDE DEF m
  <1>10. Quiet
    BY <1>1, <1>4, <1>5, <1>8, <1>9, SameNextId DEF Quiet, IInv
  <1>11. NewFlight
    <2>1. \A f \in Endpoint : InFlight'[f] \subseteq InFlight[f]
      BY <1>1, <1>2, Peers DEF InFlight
    <2> QED
      BY <2>1, SmallerFlight
  <1> QED
    BY <1>10, <1>11, QuietStep DEF IInv

(* Steps that touch nothing but the queues and the link.                    *)
LEMMA QuietQueues ==
    ASSUME TypeOK, AnswerInv,
           UNCHANGED <<sent, draft, nextId, remoteStarted, boot, handled, answering, responseChannels>>
    PROVE  Quiet
  BY SameNextId DEF Quiet, TakenIds, AnswerInv, ResponsesAnswer

LEMMA StartLoopAnswers ==
    ASSUME IInv, TypeOK', AnswerInv, NEW e \in Endpoint, StartLoop(e)
    PROVE  AnswerInv'
  <1>1. Quiet
    BY QuietQueues DEF StartLoop, appVars, IInv
  <1>2. \A m \in Elements(<<RemoteStartedEnvelope>>) : OwnEnvelope(e, m)'
    BY OneElement DEF OwnEnvelope, RemoteStartedEnvelope
  <1>3. <<RemoteStartedEnvelope>> \in Seq(Envelope)
    BY ConstantTypes
  <1>4. Post(e, <<RemoteStartedEnvelope>>) /\ incoming' = incoming
    BY DEF StartLoop
  <1> QED
    BY <1>1, <1>2, <1>3, <1>4, PostedFlight, QuietStep DEF IInv

LEMMA RequestFlushAnswers ==
    ASSUME IInv, TypeOK', AnswerInv, RequestFlush
    PROVE  AnswerInv'
  <1> DEFINE flush == [id |-> nextId["client"], ack |-> maxReceived["client"],
                       resp |-> None, kind |-> "FlushBufferedMessages"]
             msgs == <<flush>>
  <1>1. /\ Post("client", msgs)
        /\ nextId' = [nextId EXCEPT !["client"] = @ + 1]
        /\ responseChannels' = [responseChannels EXCEPT !["client"] = @ \cup {nextId["client"]}]
        /\ UNCHANGED <<incoming, remoteStarted, boot, draft, handled, answering, sent>>
    BY DEF RequestFlush, appVars
  <1>2. flush \in Envelope /\ flush.kind = "FlushBufferedMessages" /\ flush.id = nextId["client"]
    BY Peers DEF IInv, TypeOK, Envelope, Kind
  <1> HIDE DEF flush
  <1>3. msgs \in Seq(Envelope) /\ Elements(msgs) = {flush}
    BY <1>2, OneElement
  <1>4. \A f \in Endpoint : nextId[f] <= nextId'[f]
    BY <1>1, NextIdGrows, Peers DEF IInv
  <1>5. Quiet
    BY <1>1, <1>4 DEF Quiet, IInv, TypeOK, TakenIds, AnswerInv, ResponsesAnswer
  <1>6. RequestIds' = RequestIds
    BY <1>5, QuietNumbers DEF IInv
  <1>7. nextId["client"] \in FreeIds'["client"]
    <2>1. nextId["client"] \in Nat /\ nextId'["client"] = nextId["client"] + 1
      BY <1>1, Peers DEF IInv, TypeOK
    <2>2. nextId["client"] \notin RequestIds["client"]
      <3>1. \A m \in sent["client"] : m.id < nextId["client"] /\ m.id \in Nat
        BY EnvelopeFacts, Peers DEF IInv, AnswerInv, Numbering
      <3>2. \A t \in Allocated["client"] : draft["client"][t].msg.id < nextId["client"] /\ draft["client"][t].msg.id \in Nat
        BY EnvelopeFacts, Peers DEF IInv, AnswerInv, Numbering
      <3> QED
        BY <2>1, <3>1, <3>2, Peers DEF RequestIds
    <2> QED
      BY <1>6, <2>1, <2>2, Peers DEF FreeIds
  <1>8. \A a : a = flush => OwnEnvelope("client", a)'
    BY <1>2, <1>7 DEF OwnEnvelope
  <1>9. \A n \in Elements(msgs) : n.kind \in Applications \/ OwnEnvelope("client", n)'
    BY <1>3, <1>8
  <1> HIDE DEF msgs
  <1>10. NewFlight
    BY <1>1, <1>3, <1>9, PostedFlight, Peers DEF IInv
  <1> QED
    BY <1>5, <1>10, QuietStep DEF IInv

LEMMA LinkAnswers ==
    ASSUME IInv, TypeOK', AnswerInv, LinkStep
    PROVE  AnswerInv'
  <1> USE DEF endVars, queueVars, linkVars, appVars
  <1>1. CASE RequestFlush
    BY <1>1, RequestFlushAnswers
  <1>2. CASE ~RequestFlush
    <2>1. UNCHANGED <<sent, draft, nextId, remoteStarted, boot, handled, answering, responseChannels>>
      BY <1>2 DEF LinkStep, Deliver, Disconnect, ServerWriteLost, ServerBreak, ServerAccept,
                  Reconnect, ResumeResync
    <2>2. Quiet
      BY <2>1, QuietQueues DEF IInv
    <2>3. ASSUME NEW e \in Endpoint, Deliver(e) PROVE NewFlight
      <3>1. /\ outgoing[e] \in Seq(Envelope) /\ outgoing[e] # <<>>
            /\ incoming[Peer(e)] \in Seq(Envelope) /\ Head(outgoing[e]) \in Envelope
        BY <2>3, Peers DEF IInv, TypeOK, Deliver
      <3>2. /\ Elements(outgoing[e]) = Elements(Tail(outgoing[e])) \cup {Head(outgoing[e])}
            /\ Elements(Append(incoming[Peer(e)], Head(outgoing[e])))
                   = Elements(incoming[Peer(e)]) \cup {Head(outgoing[e])}
        BY <3>1, ElementsFacts
      <3>3. /\ outgoing'[e] = Tail(outgoing[e])
            /\ incoming'[Peer(e)] = Append(incoming[Peer(e)], Head(outgoing[e]))
            /\ \A f \in Endpoint : f # e => outgoing'[f] = outgoing[f] /\ incoming'[Peer(f)] = incoming[Peer(f)]
        BY <2>3, Peers DEF IInv, TypeOK, Deliver
      <3>4. \A f \in Endpoint : InFlight'[f] \subseteq InFlight[f]
        BY <3>2, <3>3 DEF InFlight
      <3> QED
        BY <3>4, SmallerFlight
    <2>4. ASSUME Disconnect \/ ServerWriteLost \/ ServerBreak \/ ServerAccept \/ Reconnect
          PROVE  NewFlight
      <3>1. Elements(<<>>) = {}
        BY DEF Elements
      <3>2. serverLoop = "lost" /\ outgoing["server"] # <<>> =>
                Elements(Tail(outgoing["server"])) \subseteq Elements(outgoing["server"])
        <4>1. outgoing["server"] \in Seq(Envelope)
          BY Peers DEF IInv, TypeOK
        <4> QED
          BY <4>1, ElementsFacts
      <3>3. \A f \in Endpoint : Elements(outgoing'[f]) \subseteq Elements(outgoing[f])
        BY <2>4, <3>1, <3>2 DEF IInv, TypeOK, Disconnect, ServerWriteLost, ServerBreak, ServerAccept, Reconnect
      <3>4. \A f \in Endpoint : Elements(incoming'[f]) \subseteq Elements(incoming[f])
        BY <2>4, <3>1 DEF IInv, TypeOK, Disconnect, ServerWriteLost, ServerBreak, ServerAccept, Reconnect
      <3>5. \A f \in Endpoint : InFlight'[f] \subseteq InFlight[f]
        BY <3>3, <3>4, Peers DEF InFlight
      <3> QED
        BY <3>5, SmallerFlight
    <2>5. ASSUME ResumeResync PROVE NewFlight
      <3>1. /\ buffer["client"] \in Seq(Envelope)
            /\ buffer["client"] \in Seq(sent["client"])
            /\ Post("client", buffer["client"]) /\ incoming' = incoming
        BY <2>5, Peers DEF IInv, TypeOK, OnlySent, ResumeResync
      <3>2. Elements(buffer["client"]) \subseteq sent["client"]
        BY <3>1, ElementsFacts
      <3>3. \A m \in Elements(buffer["client"]) : m.kind \in Applications
        BY <3>2, Peers DEF AnswerInv, Numbering
      <3> QED
        BY <3>1, <3>3, PostedFlight, Peers DEF IInv
    <2>6. NewFlight
      BY <1>2, <2>3, <2>4, <2>5 DEF LinkStep
    <2> QED
      BY <2>2, <2>6, QuietStep DEF IInv
  <1> QED
    BY <1>1, <1>2

LEMMA SendingAnswers ==
    ASSUME IInv, TypeOK', AnswerInv, NEW e \in Endpoint, NEW t \in Threads(e),
           Sending(e, t) \/ (SendPing /\ e = "client" /\ t = "main")
    PROVE  AnswerInv'
  <1>1. CASE SendNotice(e, t)
    BY <1>1, AllocateAnswers DEF SendNotice, Applications
  <1>2. CASE SendRequest(e, t)
    <2>1. nextId[e] > 0
      BY <1>2, Peers DEF SendRequest, AnswerInv, RequestsComeLater
    <2> QED
      BY <1>2, <2>1, AllocateAnswers DEF SendRequest, Applications
  <1>3. CASE SendPing /\ e = "client" /\ t = "main"
    <2>1. nextId[e] > 0
      BY <1>3, Peers DEF SendPing, AnswerInv, RequestsComeLater
    <2> QED
      BY <1>3, <2>1, AllocateAnswers DEF SendPing, Applications
  <1> QED
    BY <1>1, <1>2, <1>3 DEF Sending

LEMMA ResponseAnswers ==
    ASSUME IInv, TypeOK', AnswerInv, NEW e \in Endpoint, NEW t \in Threads(e),
           NEW i \in answering[e], SendResponse(e, t, i)
    PROVE  AnswerInv'
  <1>1. i \in 1..Len(handled[e])
    BY DEF IInv, TypeOK
  <1>2. handled[e][i].kind = "Request"
    BY DEF AnswerInv, ResponsesAnswer
  <1>3. handled[e][i].id \in TakenIds[e]
    BY <1>1, <1>2 DEF TakenIds, Elements
  <1>4. \A f \in Endpoint : answering'[f] \subseteq answering[f]
    BY DEF SendResponse, IInv, TypeOK
  <1> QED
    BY <1>3, <1>4, AllocateAnswers DEF SendResponse, Applications

LEMMA AnswerInvStep == IInv /\ TypeOK' /\ AnswerInv /\ [Next]_vars => AnswerInv'
  <1> SUFFICES ASSUME IInv, TypeOK', AnswerInv, [Next]_vars PROVE AnswerInv'
    OBVIOUS
  <1>1. CASE SendPing
    <2>1. "client" \in Endpoint /\ "main" \in Threads("client")
      BY DEF Endpoint, Threads
    <2> QED
      BY <1>1, <2>1, SendingAnswers
  <1>2. ASSUME NEW e \in Endpoint, NEW t \in Threads(e), Sending(e, t) PROVE AnswerInv'
    BY <1>2, SendingAnswers
  <1>3. ASSUME NEW e \in Endpoint, NEW t \in Threads(e), Finishing(e, t) PROVE AnswerInv'
    BY <1>3, ResponseAnswers, EnbufferAnswers, PostDraftAnswers DEF Finishing
  <1>4. ASSUME NEW e \in Endpoint, Looping(e) PROVE AnswerInv'
    BY <1>4, StartLoopAnswers, FlushAnswers, RemoteStartedAnswers, TakingAnswers DEF Looping
  <1>5. CASE UNCHANGED vars
    <2>1. Quiet
      BY <1>5, QuietQueues DEF vars, endVars, appVars, IInv
    <2>2. NewFlight
      BY <1>5 DEF vars, queueVars, NewFlight, InFlight
    <2> QED
      BY <2>1, <2>2, QuietStep DEF IInv
  <1>6. CASE Next
    BY <1>1, <1>2, <1>3, <1>4, <1>6, NextSplit, LinkAnswers
  <1> QED
    BY <1>5, <1>6

LEMMA AnswerInvInit == Init => AnswerInv
  <1> SUFFICES ASSUME Init PROVE AnswerInv
    OBVIOUS
  <1>1. \A e \in Endpoint : Allocated[e] = {} /\ Sends[e] = {}
    BY DEF Init, Idle, Allocated, Sends
  <1>2. \A e \in Endpoint : /\ sent[e] = {} /\ handled[e] = <<>> /\ answering[e] = {}
                            /\ outgoing[e] = <<>> /\ incoming[e] = <<>> /\ ~remoteStarted[e]
    BY DEF Init
  <1>3. Elements(<<>>) = {}
    BY DEF Elements
  <1>4. \A e \in Endpoint : RequestIds[e] = {} /\ InFlight[e] = {}
    BY <1>1, <1>2, <1>3, Peers DEF RequestIds, InFlight
  <1>5. boot # "connected"
    BY DEF Init
  <1> QED
    BY <1>1, <1>2, <1>4, <1>5 DEF AnswerInv, Numbering, RequestsComeLater, OwnAnswers,
                                  ResponsesAnswer, RequestsWait

LEMMA AnswerInvariance == Spec => []AnswerInv
  <1>1. IInv /\ IInv' => TypeOK'
    BY DEF IInv
  <1> QED
    BY <1>1, AnswerInvInit, AnswerInvStep, Invariance, PTL DEF Spec

(* An acknowledgement, of a flush or of RemoteStarted, never stands for the *)
(* answer to a request (start_handling_messages: responding_to).            *)
THEOREM AcksAnswerNoRequest == Spec => []NoFalseAnswer
  <1>1. AnswerInv => NoFalseAnswer
    <2> SUFFICES ASSUME AnswerInv, NEW e \in Endpoint, NEW m \in Elements(incoming[e]), m.kind = "Ack"
                 PROVE  m.resp \notin Ids(Requests(e)) \cap responseChannels[e]
      BY DEF NoFalseAnswer
    <2>1. m \in InFlight[Peer(e)]
      BY Peers DEF InFlight
    <2>2. m.resp \in FreeIds[e]
      BY <2>1, Peers DEF AnswerInv, OwnAnswers, OwnEnvelope
    <2> QED
      BY <2>2 DEF FreeIds, RequestIds, Ids, Requests
  <1> QED
    BY <1>1, AnswerInvariance, PTL

(* A request stops waiting only when its peer's application has taken it,   *)
(* over any number of reconnects: ids are never confused.                   *)
THEOREM RequestsAreResolvedByPeer == Spec => []ResolvedByPeer
  <1>1. IInv /\ AnswerInv => ResolvedByPeer
    <2> SUFFICES ASSUME IInv, AnswerInv, NEW e \in Endpoint, NEW m \in Requests(e),
                        m.id \notin responseChannels[e]
                 PROVE  m \in Elements(handled[Peer(e)])
      BY DEF ResolvedByPeer
    <2>1. m \in sent[e] /\ m.kind = "Request"
      BY DEF Requests
    <2>2. m.id \in TakenIds[Peer(e)]
      BY <2>1 DEF AnswerInv, RequestsWait, RequestIds
    <2>3. PICK n \in Elements(handled[Peer(e)]) : n.id = m.id
      BY <2>2, Peers DEF TakenIds
    <2>4. n \in sent[e]
      <3>1. handled[Peer(e)] \in Seq(sent[e])
        BY Peers DEF IInv, OnlySent
      <3> QED
        BY <3>1, ElementsFacts
    <2>5. n = m
      BY <2>1, <2>3, <2>4 DEF AnswerInv, Numbering
    <2> QED
      BY <2>5
  <1> QED
    BY <1>1, AnswerInvariance, Invariance, PTL

-----------------------------------------------------------------------------
(* How many positions of a sequence hold one of S.                          *)

HowMany(q, S) == Cardinality({i \in 1..Len(q) : q[i] \in S})

LEMMA HowManyFinite ==
    ASSUME NEW T, NEW q \in Seq(T), NEW S
    PROVE  IsFiniteSet({i \in 1..Len(q) : q[i] \in S}) /\ HowMany(q, S) \in Nat
  <1>1. IsFiniteSet(1..Len(q))
    BY FS_Interval
  <1>2. {i \in 1..Len(q) : q[i] \in S} \in SUBSET (1..Len(q))
    OBVIOUS
  <1>3. IsFiniteSet({i \in 1..Len(q) : q[i] \in S})
    BY <1>1, <1>2, FS_Subset
  <1> QED
    BY <1>3, FS_CardinalityType DEF HowMany

LEMMA HowManyConcat ==
    ASSUME NEW T, NEW q \in Seq(T), NEW r \in Seq(T), NEW S
    PROVE  HowMany(q \o r, S) = HowMany(q, S) + HowMany(r, S)
  <1> DEFINE A == {i \in 1..Len(q) : q[i] \in S}
             B == {i \in 1..Len(r) : r[i] \in S}
             C == {i \in 1..Len(q \o r) : (q \o r)[i] \in S}
             D == {i + Len(q) : i \in B}
             f == [i \in B |-> i + Len(q)]
  <1>1. /\ Len(q) \in Nat /\ Len(r) \in Nat
        /\ Len(q \o r) = Len(q) + Len(r)
        /\ \A i \in 1..(Len(q) + Len(r)) : (q \o r)[i] = IF i <= Len(q) THEN q[i] ELSE r[i - Len(q)]
    BY ConcatProperties
  <1>2. A \subseteq C
    BY <1>1
  <1>3. D \subseteq C
    <2> SUFFICES ASSUME NEW j \in B PROVE j + Len(q) \in C
      OBVIOUS
    <2>1. j + Len(q) \in 1..(Len(q) + Len(r)) /\ ~(j + Len(q) <= Len(q)) /\ (j + Len(q)) - Len(q) = j
      BY <1>1
    <2>2. (q \o r)[j + Len(q)] = r[j]
      BY <1>1, <2>1
    <2> QED
      BY <1>1, <2>1, <2>2
  <1>4. C \subseteq A \cup D
    <2> SUFFICES ASSUME NEW i \in C, i \notin A PROVE i \in D
      OBVIOUS
    <2>1. i \in 1..(Len(q) + Len(r)) /\ (q \o r)[i] \in S
      BY <1>1
    <2>2. ~(i <= Len(q))
      BY <1>1, <2>1
    <2>3. i - Len(q) \in 1..Len(r) /\ r[i - Len(q)] \in S /\ i = (i - Len(q)) + Len(q)
      BY <1>1, <2>1, <2>2
    <2> QED
      BY <2>3
  <1>5. C = A \cup D
    BY <1>2, <1>3, <1>4
  <1>6. A \cap D = {}
    BY <1>1
  <1>7. IsFiniteSet(A) /\ IsFiniteSet(B) /\ Cardinality(A) \in Nat /\ Cardinality(B) \in Nat
    BY HowManyFinite DEF HowMany
  <1>8. f \in Bijection(B, D)
    BY <1>1 DEF Bijection, Injection, Surjection, IsInjective
  <1>9. IsFiniteSet(D) /\ Cardinality(D) = Cardinality(B)
    BY <1>7, <1>8, FS_Bijection DEF ExistsBijection
  <1> HIDE DEF A, B, C, D, f
  <1>10. Cardinality(C) = Cardinality(A) + Cardinality(D) - Cardinality(A \cap D)
    BY <1>5, <1>7, <1>9, FS_Union
  <1>11. Cardinality(A \cap D) = 0
    BY <1>6, FS_EmptySet
  <1>12. Cardinality(C) = Cardinality(A) + Cardinality(B)
    BY <1>7, <1>9, <1>10, <1>11
  <1>13. HowMany(q, S) = Cardinality(A)
    BY DEF HowMany, A
  <1>14. HowMany(r, S) = Cardinality(B)
    BY DEF HowMany, B
  <1>15. HowMany(q \o r, S) = Cardinality(C)
    BY DEF HowMany, C
  <1> QED
    BY <1>12, <1>13, <1>14, <1>15

LEMMA HowManyOne ==
    ASSUME NEW m, NEW S
    PROVE  HowMany(<<m>>, S) = IF m \in S THEN 1 ELSE 0
  <1>1. {i \in 1..Len(<<m>>) : <<m>>[i] \in S} = IF m \in S THEN {1} ELSE {}
    OBVIOUS
  <1>2. Cardinality({1}) = 1 /\ Cardinality({}) = 0
    BY FS_Singleton, FS_EmptySet
  <1> QED
    BY <1>1, <1>2 DEF HowMany

LEMMA HowManyNone == \A S : HowMany(<<>>, S) = 0
  <1>1. \A S : {i \in 1..Len(<<>>) : <<>>[i] \in S} = {}
    OBVIOUS
  <1> QED
    BY <1>1, FS_EmptySet DEF HowMany

LEMMA HowManyEnds ==
    ASSUME NEW T, NEW q \in Seq(T), NEW S
    PROVE  /\ \A m \in T : HowMany(Append(q, m), S) = HowMany(q, S) + (IF m \in S THEN 1 ELSE 0)
           /\ q # <<>> => HowMany(q, S) = HowMany(Tail(q), S) + (IF Head(q) \in S THEN 1 ELSE 0)
  <1>1. ASSUME NEW m \in T
        PROVE  HowMany(Append(q, m), S) = HowMany(q, S) + (IF m \in S THEN 1 ELSE 0)
    <2>1. Append(q, m) = q \o <<m>> /\ <<m>> \in Seq(T)
      OBVIOUS
    <2>2. HowMany(q \o <<m>>, S) = HowMany(q, S) + HowMany(<<m>>, S)
      BY <2>1, HowManyConcat
    <2> QED
      BY <2>1, <2>2, HowManyOne
  <1>2. ASSUME q # <<>>
        PROVE  HowMany(q, S) = HowMany(Tail(q), S) + (IF Head(q) \in S THEN 1 ELSE 0)
    <2> DEFINE h == <<Head(q)>>
               t == Tail(q)
    <2>1. q = h \o t /\ h \in Seq(T) /\ t \in Seq(T)
      BY <1>2
    <2>2. HowMany(h, S) = IF Head(q) \in S THEN 1 ELSE 0
      BY HowManyOne
    <2> HIDE DEF h, t
    <2>3. HowMany(h \o t, S) = HowMany(h, S) + HowMany(t, S)
      BY <2>1, HowManyConcat
    <2>4. HowMany(q, S) = HowMany(h, S) + HowMany(t, S)
      BY <2>1, <2>3
    <2>5. HowMany(t, S) \in Nat
      BY <2>1, HowManyFinite
    <2>6. HowMany(q, S) = HowMany(t, S) + (IF Head(q) \in S THEN 1 ELSE 0)
      BY <2>2, <2>4, <2>5
    <2> QED
      BY <2>6 DEF t
  <1> QED
    BY <1>1, <1>2

(* Where no two positions have the same id, an id is found once at most.    *)
LEMMA HowManyDistinct ==
    ASSUME NEW T, NEW q \in Seq(T), NEW S,
           \A i, j \in 1..Len(q) : q[i] \in S /\ q[j] \in S => i = j
    PROVE  HowMany(q, S) <= 1
  <1> DEFINE A == {i \in 1..Len(q) : q[i] \in S}
  <1>1. CASE A = {}
    BY <1>1, FS_EmptySet DEF HowMany
  <1>2. CASE A # {}
    <2>1. PICK i \in A : TRUE
      BY <1>2
    <2>2. A = {i}
      BY <2>1
    <2>3. Cardinality({i}) = 1
      BY FS_Singleton
    <2>4. HowMany(q, S) = Cardinality(A)
      BY DEF HowMany
    <2>5. HowMany(q, S) = 1
      BY <2>2, <2>3, <2>4
    <2> QED
      BY <2>5
  <1> QED
    BY <1>1, <1>2

-----------------------------------------------------------------------------
(* Repetitions.  A copy of an envelope is one that the peer's application   *)
(* has taken or takes without another resend.  A reconnect pays for one     *)
(* resend at each end: the client's by resync, the server's by the flush    *)
(* request.  Until they are made, lost or given up they are owed, so copies *)
(* never outnumber the first posting and the resends that are over.         *)

CopiesOf(id) == {m \in Envelope : m.kind \in Applications /\ m.id = id}

FlushRequests == {m \in Envelope : m.kind = "FlushBufferedMessages"}

(* The ids of the drafts that are in the buffer and not yet posted.         *)
HeldIds == [e \in Endpoint |->
    {draft[e][t].msg.id : t \in {u \in Threads(e) : draft[e][u].stage = "buffered"}}]

Copies == [e \in Endpoint |-> [id \in Nat |->
    HowMany(handled[Peer(e)], CopiesOf(id)) + HowMany(incoming[Peer(e)], CopiesOf(id))
    + HowMany(outgoing[e], CopiesOf(id)) + (IF id \in HeldIds[e] THEN 1 ELSE 0)]]

(* The flush requests that the client has to post and the daemon to take.   *)
Flushes == HowMany(outgoing["client"], FlushRequests) + HowMany(incoming["server"], FlushRequests)
           + (IF resync = "swapped" THEN 1 ELSE 0)

Owed == [e \in Endpoint |-> IF e = "server" THEN Flushes ELSE IF resync = "none" THEN 0 ELSE 1]

Spent == [e \in Endpoint |-> reconnects - Owed[e]]

CopiesBounded ==
    \A e \in Endpoint : Spent[e] >= 0 /\ \A id \in Nat : Copies[e][id] <= 1 + Spent[e]

BufferedOnce ==
    \A e \in Endpoint : \A i, j \in 1..Len(buffer[e]) :
        buffer[e][i].id = buffer[e][j].id => i = j

ClientFlushes == \A m \in InFlight["server"] : m.kind # "FlushBufferedMessages"

CopyInv == CopiesBounded /\ BufferedOnce /\ ClientFlushes

LEMMA CopyTypes ==
    ASSUME TypeOK
    PROVE  /\ \A e \in Endpoint : Owed[e] \in Nat /\ Spent[e] \in Int
           /\ \A e \in Endpoint : \A id \in Nat : Copies[e][id] \in Nat
           /\ \A e \in Endpoint : \A S : /\ HowMany(handled[e], S) \in Nat
                                         /\ HowMany(incoming[e], S) \in Nat
                                         /\ HowMany(outgoing[e], S) \in Nat
  <1>1. \A e \in Endpoint : /\ handled[e] \in Seq(Envelope) /\ incoming[e] \in Seq(Envelope)
                            /\ outgoing[e] \in Seq(Envelope)
    BY DEF TypeOK
  <1>2. \A e \in Endpoint : \A S : /\ HowMany(handled[e], S) \in Nat
                                   /\ HowMany(incoming[e], S) \in Nat
                                   /\ HowMany(outgoing[e], S) \in Nat
    BY <1>1, HowManyFinite
  <1>3. Flushes \in Nat
    BY <1>2, Peers DEF Flushes
  <1>4. \A e \in Endpoint : Owed[e] \in Nat
    BY <1>3 DEF Owed
  <1>5. \A e \in Endpoint : Spent[e] \in Int
    BY <1>4 DEF Spent, TypeOK
  <1>6. \A e \in Endpoint : \A id \in Nat : Copies[e][id] \in Nat
    BY SMTT(30), <1>2, Peers DEF Copies
  <1> QED
    BY <1>2, <1>4, <1>5, <1>6

(* What has passed, or is to pass, from an end to its peer's application.   *)
Passed == [e \in Endpoint |-> [S \in SUBSET Envelope |->
    HowMany(handled[Peer(e)], S) + HowMany(incoming[Peer(e)], S) + HowMany(outgoing[e], S)]]

CopySums ==
    \A e \in Endpoint : \A id \in Nat :
        Copies[e][id] = Passed[e][CopiesOf(id)] + (IF id \in HeldIds[e] THEN 1 ELSE 0)

LEMMA CopiesAreEnvelopes == \A id : CopiesOf(id) \in SUBSET Envelope
  BY DEF CopiesOf

LEMMA CopiesPassed == CopySums
  <1>1. ASSUME NEW e \in Endpoint, NEW id \in Nat
        PROVE  Copies[e][id] = Passed[e][CopiesOf(id)] + (IF id \in HeldIds[e] THEN 1 ELSE 0)
    <2>1. Passed[e][CopiesOf(id)] = HowMany(handled[Peer(e)], CopiesOf(id))
              + HowMany(incoming[Peer(e)], CopiesOf(id)) + HowMany(outgoing[e], CopiesOf(id))
      BY CopiesAreEnvelopes DEF Passed
    <2>2. Copies[e][id] = HowMany(handled[Peer(e)], CopiesOf(id))
              + HowMany(incoming[Peer(e)], CopiesOf(id)) + HowMany(outgoing[e], CopiesOf(id))
              + (IF id \in HeldIds[e] THEN 1 ELSE 0)
      BY DEF Copies
    <2> QED
      BY <2>1, <2>2
  <1> QED
    BY <1>1 DEF CopySums

LEMMA CopiesPassedNext == CopySums'
  BY CopiesPassed, PTL

LEMMA PassedType ==
    ASSUME TypeOK
    PROVE  \A e \in Endpoint : \A S \in SUBSET Envelope : Passed[e][S] \in Nat
  <1>1. ASSUME NEW e \in Endpoint, NEW S \in SUBSET Envelope PROVE Passed[e][S] \in Nat
    <2>1. HowMany(handled[Peer(e)], S) \in Nat /\ HowMany(incoming[Peer(e)], S) \in Nat
          /\ HowMany(outgoing[e], S) \in Nat
      BY CopyTypes, Peers
    <2>2. Passed[e][S] = HowMany(handled[Peer(e)], S) + HowMany(incoming[Peer(e)], S)
                         + HowMany(outgoing[e], S)
      BY DEF Passed
    <2> QED
      BY <2>1, <2>2
  <1> QED
    BY <1>1

(* The counts are numbers, before and after a step.                         *)
CountTypes ==
    /\ \A e \in Endpoint : Owed[e] \in Nat
    /\ \A e \in Endpoint : Spent[e] \in Int
    /\ \A e \in Endpoint : \A id \in Nat : Copies[e][id] \in Nat
    /\ \A e \in Endpoint : \A S \in SUBSET Envelope : Passed[e][S] \in Nat

LEMMA CountsTyped == TypeOK => CountTypes
  <1> SUFFICES ASSUME TypeOK PROVE CountTypes
    OBVIOUS
  <1>1. \A e \in Endpoint : Owed[e] \in Nat
    BY CopyTypes
  <1>2. \A e \in Endpoint : Spent[e] \in Int
    BY CopyTypes
  <1>3. \A e \in Endpoint : \A id \in Nat : Copies[e][id] \in Nat
    BY CopyTypes
  <1>4. \A e \in Endpoint : \A S \in SUBSET Envelope : Passed[e][S] \in Nat
    BY PassedType
  <1> QED
    BY <1>1, <1>2, <1>3, <1>4 DEF CountTypes

LEMMA CountsTypedNext == TypeOK' => CountTypes'
  BY CountsTyped, PTL

(* A step adds a copy only of an envelope that has none, or at the cost of  *)
(* a resend.                                                                *)
LEMMA CopiesKept ==
    ASSUME TypeOK, TypeOK', CopiesBounded,
           \A e \in Endpoint : Spent[e] <= Spent'[e],
           \A e \in Endpoint : \A id \in Nat :
               Copies'[e][id] <= Copies[e][id] + (Spent'[e] - Spent[e]) \/ Copies'[e][id] <= 1
    PROVE  CopiesBounded'
  <1> SUFFICES ASSUME NEW e \in Endpoint
               PROVE  Spent'[e] >= 0 /\ \A id \in Nat : Copies'[e][id] <= 1 + Spent'[e]
    BY DEF CopiesBounded
  <1>1. Spent[e] \in Int /\ \A id \in Nat : Copies[e][id] \in Nat
    BY CopyTypes
  <1>2. Spent'[e] \in Int /\ \A id \in Nat : Copies'[e][id] \in Nat
    <2>1. TypeOK' => Spent'[e] \in Int /\ \A id \in Nat : Copies'[e][id] \in Nat
      BY CountsTypedNext DEF CountTypes
    <2> QED
      BY <2>1
  <1>3. Spent[e] >= 0 /\ \A id \in Nat : Copies[e][id] <= 1 + Spent[e]
    BY DEF CopiesBounded
  <1> QED
    BY <1>1, <1>2, <1>3

LEMMA PostCounts ==
    ASSUME TypeOK, NEW e \in Endpoint, NEW msgs \in Seq(Envelope), Post(e, msgs)
    PROVE  /\ \A S : HowMany(outgoing'[e], S) <= HowMany(outgoing[e], S) + HowMany(msgs, S)
           /\ \A f \in Endpoint : f # e => outgoing'[f] = outgoing[f]
  <1>1. outgoing[e] \in Seq(Envelope)
    BY DEF TypeOK
  <1>2. \A S : /\ HowMany(outgoing[e] \o msgs, S) = HowMany(outgoing[e], S) + HowMany(msgs, S)
               /\ HowMany(outgoing[e], S) \in Nat /\ HowMany(msgs, S) \in Nat
    BY <1>1, HowManyConcat, HowManyFinite
  <1>3. outgoing' = outgoing \/ outgoing' = [outgoing EXCEPT ![e] = @ \o msgs]
    BY DEF Post
  <1>4. outgoing'[e] = outgoing[e] \/ outgoing'[e] = outgoing[e] \o msgs
    BY <1>3 DEF TypeOK
  <1>5. \A f \in Endpoint : f # e => outgoing'[f] = outgoing[f]
    BY <1>3 DEF TypeOK
  <1>6. ASSUME NEW S
        PROVE  HowMany(outgoing'[e], S) <= HowMany(outgoing[e], S) + HowMany(msgs, S)
    <2>1. HowMany(outgoing[e] \o msgs, S) = HowMany(outgoing[e], S) + HowMany(msgs, S)
      BY <1>2
    <2>2. HowMany(outgoing[e], S) \in Nat /\ HowMany(msgs, S) \in Nat
      BY <1>2
    <2>3. HowMany(outgoing'[e], S) = HowMany(outgoing[e], S)
          \/ HowMany(outgoing'[e], S) = HowMany(outgoing[e] \o msgs, S)
      BY <1>4
    <2> QED
      BY <2>1, <2>2, <2>3
  <1> QED
    BY <1>5, <1>6

LEMMA TakingCounts ==
    ASSUME TypeOK, NEW e \in Endpoint, Taking(e)
    PROVE  /\ \A S : HowMany(incoming[e], S)
                       = HowMany(incoming'[e], S) + (IF Head(incoming[e]) \in S THEN 1 ELSE 0)
           /\ \A f \in Endpoint : f # e => incoming'[f] = incoming[f]
  <1>1. incoming[e] \in Seq(Envelope) /\ incoming[e] # <<>>
        /\ incoming' = [incoming EXCEPT ![e] = Tail(@)]
    BY DEF TypeOK, Taking
  <1>2. incoming'[e] = Tail(incoming[e])
    BY <1>1 DEF TypeOK
  <1> QED
    BY <1>1, <1>2, HowManyEnds DEF TypeOK

(* Steps that add no copy.                                                  *)
LEMMA SpentGrows ==
    ASSUME TypeOK, TypeOK', reconnects' = reconnects, Flushes' <= Flushes,
           resync = "none" => resync' = "none"
    PROVE  \A e \in Endpoint : Spent[e] <= Spent'[e]
  <1> SUFFICES ASSUME NEW e \in Endpoint PROVE Spent[e] <= Spent'[e]
    OBVIOUS
  <1>1. Owed[e] \in Nat /\ reconnects \in Nat
    BY CopyTypes DEF TypeOK
  <1>2. Owed'[e] \in Nat
    <2>1. TypeOK' => Owed'[e] \in Nat
      BY CountsTypedNext DEF CountTypes
    <2> QED
      BY <2>1
  <1>3. Owed'[e] <= Owed[e]
    BY DEF Owed
  <1> QED
    BY <1>1, <1>2, <1>3 DEF Spent

LEMMA CopiesFall ==
    ASSUME TypeOK, TypeOK', CopiesBounded,
           \A e \in Endpoint : HeldIds'[e] \subseteq HeldIds[e],
           \A e \in Endpoint : Spent[e] <= Spent'[e],
           \A e \in Endpoint : \A id \in Nat : Passed'[e][CopiesOf(id)] <= Passed[e][CopiesOf(id)]
    PROVE  CopiesBounded'
  <1>1. \A e \in Endpoint : \A id \in Nat :
            /\ Copies[e][id] = Passed[e][CopiesOf(id)] + (IF id \in HeldIds[e] THEN 1 ELSE 0)
            /\ Copies'[e][id] = Passed'[e][CopiesOf(id)] + (IF id \in HeldIds'[e] THEN 1 ELSE 0)
    BY CopiesPassed, CopiesPassedNext DEF CopySums
  <1>2. \A e \in Endpoint : \A id \in Nat : Passed[e][CopiesOf(id)] \in Nat
    BY PassedType, CopiesAreEnvelopes
  <1>3. \A e \in Endpoint : \A id \in Nat : Passed'[e][CopiesOf(id)] \in Nat
    <2>1. TypeOK' => \A e \in Endpoint : \A S \in SUBSET Envelope : Passed'[e][S] \in Nat
      BY CountsTypedNext DEF CountTypes
    <2> QED
      BY <2>1, CopiesAreEnvelopes
  <1>4. \A e \in Endpoint : Spent[e] \in Int
    BY CopyTypes
  <1>5. \A e \in Endpoint : Spent'[e] \in Int
    <2>1. TypeOK' => \A e \in Endpoint : Spent'[e] \in Int
      BY CountsTypedNext DEF CountTypes
    <2> QED
      BY <2>1
  <1>6. \A e \in Endpoint : \A id \in Nat :
            Copies'[e][id] <= Copies[e][id] + (Spent'[e] - Spent[e])
    <2> SUFFICES ASSUME NEW e \in Endpoint, NEW id \in Nat
                 PROVE  Copies'[e][id] <= Copies[e][id] + (Spent'[e] - Spent[e])
      OBVIOUS
    <2>1. Copies'[e][id] <= Copies[e][id] /\ Copies[e][id] \in Nat /\ Copies'[e][id] \in Nat
      BY <1>1, <1>2, <1>3
    <2> QED
      BY <1>4, <1>5, <2>1
  <1> QED
    BY <1>6, CopiesKept

LEMMA FlightKept ==
    ASSUME TypeOK, ClientFlushes,
           NEW e \in Endpoint, NEW msgs \in Seq(Envelope), Post(e, msgs),
           \A f \in Endpoint : Elements(incoming'[f]) \subseteq Elements(incoming[f]),
           e = "server" => \A m \in Elements(msgs) : m.kind # "FlushBufferedMessages"
    PROVE  ClientFlushes'
  <1>1. \A f \in Endpoint : Elements(outgoing'[f]) \subseteq
            Elements(outgoing[f]) \cup (IF f = e THEN Elements(msgs) ELSE {})
    BY PostFlight
  <1>2. Elements(incoming'[Peer("server")]) \subseteq Elements(incoming[Peer("server")])
    BY Peers
  <1> QED
    BY <1>1, <1>2, Peers DEF ClientFlushes, InFlight

LEMMA FlightSmaller ==
    ASSUME ClientFlushes, InFlight'["server"] \subseteq InFlight["server"]
    PROVE  ClientFlushes'
  BY DEF ClientFlushes

(* Acknowledged or not, no id is twice in the buffer.                       *)
LEMMA PopAckedOnce ==
    ASSUME TypeOK, BufferedOnce, NEW e \in Endpoint, NEW m, PopAcked(e, m)
    PROVE  BufferedOnce'
  <1>1. PICK k \in AckedPrefix(buffer[e], m.ack) :
            buffer' = [buffer EXCEPT ![e] = DropPrefix(@, k)]
    BY DEF PopAcked
  <1>2. buffer[e] \in Seq(Envelope) /\ k \in 0..Len(buffer[e])
    BY DEF TypeOK, AckedPrefix
  <1>3. /\ Len(DropPrefix(buffer[e], k)) = Len(buffer[e]) - k
        /\ \A i \in 1..(Len(buffer[e]) - k) : DropPrefix(buffer[e], k)[i] = buffer[e][k + i]
    BY SMTT(30), <1>2, SubSeqProperties DEF DropPrefix
  <1>4. buffer'[e] = DropPrefix(buffer[e], k) /\ \A f \in Endpoint : f # e => buffer'[f] = buffer[f]
    BY <1>1 DEF TypeOK
  <1>5. ASSUME NEW i \in 1..Len(buffer'[e]), NEW j \in 1..Len(buffer'[e]),
               buffer'[e][i].id = buffer'[e][j].id
        PROVE  i = j
    <2>1. i \in 1..(Len(buffer[e]) - k) /\ j \in 1..(Len(buffer[e]) - k)
      BY <1>3, <1>4
    <2>2. k + i \in 1..Len(buffer[e]) /\ k + j \in 1..Len(buffer[e])
      BY <1>2, <2>1
    <2>3. buffer[e][k + i].id = buffer[e][k + j].id
      BY <1>3, <1>4, <1>5, <2>1
    <2>4. k + i = k + j
      BY <2>2, <2>3 DEF BufferedOnce
    <2> QED
      BY <1>2, <2>1, <2>4
  <1> QED
    BY <1>4, <1>5 DEF BufferedOnce

(* The loop of e takes an envelope and posts msgs.                          *)
Posted(e, msgs) ==
    /\ \A S : HowMany(outgoing'[e], S) <= HowMany(outgoing[e], S) + HowMany(msgs, S)
    /\ \A f \in Endpoint : f # e => outgoing'[f] = outgoing[f]

Dispatched(e) ==
    \/ handled' = handled
    \/ handled' = [handled EXCEPT ![e] = Append(@, Head(incoming[e]))]

LEMMA HandledCounts ==
    ASSUME TypeOK, NEW e \in Endpoint, Taking(e), Dispatched(e)
    PROVE  /\ \A S : HowMany(handled'[e], S)
                         <= HowMany(handled[e], S) + (IF Head(incoming[e]) \in S THEN 1 ELSE 0)
           /\ \A f \in Endpoint : f # e => handled'[f] = handled[f]
  <1>1. handled[e] \in Seq(Envelope) /\ Head(incoming[e]) \in Envelope
    BY TakingType DEF TypeOK
  <1> DEFINE h == Head(incoming[e])
             a == Append(handled[e], h)
  <1>3. handled'[e] = handled[e] \/ handled'[e] = Append(handled[e], Head(incoming[e]))
    BY DEF TypeOK, Dispatched
  <1>4. \A f \in Endpoint : f # e => handled'[f] = handled[f]
    BY DEF TypeOK, Dispatched
  <1>5. ASSUME NEW S
        PROVE  HowMany(handled'[e], S) <= HowMany(handled[e], S) + (IF h \in S THEN 1 ELSE 0)
    <2>1. h \in Envelope
      BY <1>1
    <2>2. handled'[e] = handled[e] \/ handled'[e] = a
      BY <1>3
    <2> HIDE DEF h
    <2>3. HowMany(a, S) = HowMany(handled[e], S) + (IF h \in S THEN 1 ELSE 0)
      BY <1>1, <2>1, HowManyEnds
    <2>4. HowMany(handled[e], S) \in Nat
      BY <1>1, HowManyFinite
    <2> HIDE DEF a
    <2>5. HowMany(handled'[e], S) = HowMany(handled[e], S) \/ HowMany(handled'[e], S) = HowMany(a, S)
      BY <2>2
    <2> QED
      BY <2>3, <2>4, <2>5
  <1> QED
    BY <1>4, <1>5

LEMMA TakingPassed ==
    ASSUME TypeOK, TypeOK', NEW e \in Endpoint, Taking(e), Dispatched(e),
           NEW msgs \in Seq(Envelope), Posted(e, msgs)
    PROVE  \A S \in SUBSET Envelope :
               /\ Passed'[Peer(e)][S] <= Passed[Peer(e)][S]
               /\ Passed'[e][S] <= Passed[e][S] + HowMany(msgs, S)
  <1> SUFFICES ASSUME NEW S \in SUBSET Envelope
               PROVE  /\ Passed'[Peer(e)][S] <= Passed[Peer(e)][S]
                      /\ Passed'[e][S] <= Passed[e][S] + HowMany(msgs, S)
    OBVIOUS
  <1>1. HowMany(handled'[e], S) <= HowMany(handled[e], S) + (IF Head(incoming[e]) \in S THEN 1 ELSE 0)
        /\ handled'[Peer(e)] = handled[Peer(e)]
    BY HandledCounts, Peers
  <1>2. HowMany(incoming[e], S) = HowMany(incoming'[e], S) + (IF Head(incoming[e]) \in S THEN 1 ELSE 0)
        /\ incoming'[Peer(e)] = incoming[Peer(e)]
    BY TakingCounts, Peers
  <1>3. HowMany(outgoing'[e], S) <= HowMany(outgoing[e], S) + HowMany(msgs, S)
        /\ outgoing'[Peer(e)] = outgoing[Peer(e)]
    BY Peers DEF Posted
  <1>4. \A f \in Endpoint : /\ HowMany(handled[f], S) \in Nat /\ HowMany(incoming[f], S) \in Nat
                            /\ HowMany(outgoing[f], S) \in Nat
    BY CopyTypes
  <1>5. \A f \in Endpoint : /\ HowMany(handled'[f], S) \in Nat /\ HowMany(incoming'[f], S) \in Nat
                            /\ HowMany(outgoing'[f], S) \in Nat
    <2>1. \A f \in Endpoint : /\ handled'[f] \in Seq(Envelope) /\ incoming'[f] \in Seq(Envelope)
                              /\ outgoing'[f] \in Seq(Envelope)
      BY DEF TypeOK
    <2> QED
      BY <2>1, HowManyFinite
  <1>6. HowMany(msgs, S) \in Nat
    BY HowManyFinite
  <1>7. Passed[Peer(e)][S] = HowMany(handled[e], S) + HowMany(incoming[e], S) + HowMany(outgoing[Peer(e)], S)
        /\ Passed'[Peer(e)][S] = HowMany(handled'[e], S) + HowMany(incoming'[e], S) + HowMany(outgoing'[Peer(e)], S)
    BY Peers DEF Passed
  <1>8. Passed[e][S] = HowMany(handled[Peer(e)], S) + HowMany(incoming[Peer(e)], S) + HowMany(outgoing[e], S)
        /\ Passed'[e][S] = HowMany(handled'[Peer(e)], S) + HowMany(incoming'[Peer(e)], S) + HowMany(outgoing'[e], S)
    BY Peers DEF Passed
  <1>9. Passed'[Peer(e)][S] <= Passed[Peer(e)][S]
    <2>1. /\ HowMany(handled[e], S) \in Nat /\ HowMany(incoming[e], S) \in Nat
          /\ HowMany(handled'[e], S) \in Nat /\ HowMany(incoming'[e], S) \in Nat
          /\ HowMany(outgoing[Peer(e)], S) \in Nat
      BY <1>4, <1>5, Peers
    <2>2. HowMany(outgoing'[Peer(e)], S) = HowMany(outgoing[Peer(e)], S)
      BY <1>3
    <2>3. HowMany(handled'[e], S) + HowMany(incoming'[e], S) <= HowMany(handled[e], S) + HowMany(incoming[e], S)
      BY <1>1, <1>2, <2>1
    <2> QED
      BY <1>7, <2>1, <2>2, <2>3
  <1>10. Passed'[e][S] <= Passed[e][S] + HowMany(msgs, S)
    <2>1. /\ HowMany(handled[Peer(e)], S) \in Nat /\ HowMany(incoming[Peer(e)], S) \in Nat
          /\ HowMany(outgoing[e], S) \in Nat /\ HowMany(outgoing'[e], S) \in Nat
      BY <1>4, <1>5, Peers
    <2>2. HowMany(handled'[Peer(e)], S) = HowMany(handled[Peer(e)], S)
      BY <1>1
    <2>3. HowMany(incoming'[Peer(e)], S) = HowMany(incoming[Peer(e)], S)
      BY <1>2
    <2>4. HowMany(outgoing'[e], S) <= HowMany(outgoing[e], S) + HowMany(msgs, S)
      BY <1>3
    <2> QED
      BY <1>6, <1>8, <2>1, <2>2, <2>3, <2>4
  <1> QED
    BY <1>9, <1>10

(* A flush request taken is one less, and none other is posted here.        *)
LEMMA TakingFlushes ==
    ASSUME TypeOK, TypeOK', NEW e \in Endpoint, Taking(e),
           NEW msgs \in Seq(Envelope), Posted(e, msgs),
           e = "client" => HowMany(msgs, FlushRequests) = 0,
           resync' = "swapped" => resync = "swapped"
    PROVE  /\ Flushes' <= Flushes
           /\ e = "server" /\ Head(incoming[e]) \in FlushRequests => Flushes' <= Flushes - 1
  <1>1. \A f \in Endpoint : /\ HowMany(incoming[f], FlushRequests) \in Nat
                            /\ HowMany(outgoing[f], FlushRequests) \in Nat
    BY CopyTypes
  <1>2. \A f \in Endpoint : /\ HowMany(incoming'[f], FlushRequests) \in Nat
                            /\ HowMany(outgoing'[f], FlushRequests) \in Nat
    <2>1. \A f \in Endpoint : incoming'[f] \in Seq(Envelope) /\ outgoing'[f] \in Seq(Envelope)
      BY DEF TypeOK
    <2> QED
      BY <2>1, HowManyFinite
  <1>3. HowMany(incoming[e], FlushRequests)
            = HowMany(incoming'[e], FlushRequests) + (IF Head(incoming[e]) \in FlushRequests THEN 1 ELSE 0)
        /\ \A f \in Endpoint : f # e => incoming'[f] = incoming[f]
    BY TakingCounts
  <1>4. /\ HowMany(outgoing'[e], FlushRequests) <= HowMany(outgoing[e], FlushRequests) + HowMany(msgs, FlushRequests)
        /\ \A f \in Endpoint : f # e => outgoing'[f] = outgoing[f]
    BY DEF Posted
  <1>5. CASE e = "client"
    <2>1. incoming'["server"] = incoming["server"]
      BY <1>3, <1>5, Peers
    <2>2. HowMany(outgoing'["client"], FlushRequests) <= HowMany(outgoing["client"], FlushRequests)
      BY <1>1, <1>2, <1>4, <1>5
    <2> QED
      BY <1>1, <1>2, <1>5, <2>1, <2>2, Peers DEF Flushes
  <1>6. CASE e = "server"
    <2>1. outgoing'["client"] = outgoing["client"]
      BY <1>4, <1>6, Peers
    <2>2. HowMany(incoming["server"], FlushRequests)
            = HowMany(incoming'["server"], FlushRequests) + (IF Head(incoming["server"]) \in FlushRequests THEN 1 ELSE 0)
      BY <1>3, <1>6
    <2> QED
      BY <1>1, <1>2, <1>6, <2>1, <2>2, Peers DEF Flushes
  <1> QED
    BY <1>5, <1>6 DEF Endpoint

(* The loop takes anything but a flush request.                             *)
LEMMA LoopCopies ==
    ASSUME IInv, TypeOK', CopyInv, NEW e \in Endpoint, Taking(e), Dispatched(e),
           PopAcked(e, Head(incoming[e])),
           NEW msgs \in Seq(Envelope), Posted(e, msgs), ClientFlushes',
           \A id \in Nat : HowMany(msgs, CopiesOf(id)) = 0, HowMany(msgs, FlushRequests) = 0,
           resync' = resync \/ (resync = "waiting" /\ resync' = "resuming"),
           draft' = draft, reconnects' = reconnects
    PROVE  CopyInv'
  <1>1. BufferedOnce'
    BY PopAckedOnce DEF IInv, CopyInv
  <1>2. HeldIds' = HeldIds
    BY DEF HeldIds
  <1>3. Flushes' <= Flushes
    BY TakingFlushes DEF IInv
  <1>4. \A f \in Endpoint : Spent[f] <= Spent'[f]
    BY <1>3, SpentGrows DEF IInv
  <1>5. ASSUME NEW f \in Endpoint, NEW id \in Nat
        PROVE  Passed'[f][CopiesOf(id)] <= Passed[f][CopiesOf(id)]
    <2>1. CopiesOf(id) \in SUBSET Envelope
      BY CopiesAreEnvelopes
    <2>2. /\ Passed'[Peer(e)][CopiesOf(id)] <= Passed[Peer(e)][CopiesOf(id)]
          /\ Passed'[e][CopiesOf(id)] <= Passed[e][CopiesOf(id)] + HowMany(msgs, CopiesOf(id))
      BY <2>1, TakingPassed DEF IInv
    <2>3. Passed[e][CopiesOf(id)] \in Nat /\ HowMany(msgs, CopiesOf(id)) = 0
      BY <2>1, PassedType DEF IInv
    <2>4. f = e \/ f = Peer(e)
      BY DEF Endpoint, Peer
    <2> QED
      BY <2>2, <2>3, <2>4
  <1>6. CopiesBounded'
    BY <1>2, <1>4, <1>5, CopiesFall DEF IInv, CopyInv
  <1> QED
    BY <1>1, <1>6 DEF CopyInv

LEMMA OwnCounts ==
    ASSUME NEW m, m.kind \in {"RemoteStarted", "Ack"}
    PROVE  /\ \A id : HowMany(<<m>>, CopiesOf(id)) = 0
           /\ HowMany(<<m>>, FlushRequests) = 0
  <1>1. \A id : m \notin CopiesOf(id)
    BY DEF CopiesOf, Applications
  <1>2. m \notin FlushRequests
    BY DEF FlushRequests
  <1> QED
    BY <1>1, <1>2, HowManyOne

LEMMA TakingElements ==
    ASSUME TypeOK, NEW e \in Endpoint, Taking(e)
    PROVE  /\ Head(incoming[e]) \in Envelope
           /\ Head(incoming[e]) \in Elements(incoming[e])
           /\ \A f \in Endpoint : Elements(incoming'[f]) \subseteq Elements(incoming[f])
  <1>1. incoming[e] \in Seq(Envelope) /\ incoming[e] # <<>>
        /\ incoming' = [incoming EXCEPT ![e] = Tail(@)]
    BY DEF TypeOK, Taking
  <1>2. /\ Head(incoming[e]) \in Elements(incoming[e])
        /\ Elements(incoming[e]) = Elements(Tail(incoming[e])) \cup {Head(incoming[e])}
    BY <1>1, ElementsFacts
  <1> QED
    BY SMTT(30), <1>1, <1>2 DEF TypeOK

LEMMA RemoteStartedCopies ==
    ASSUME IInv, TypeOK', CopyInv, NEW e \in Endpoint, HandleRemoteStarted(e)
    PROVE  CopyInv'
  <1> DEFINE m == Head(incoming[e])
             ack == AckEnvelope(nextId[e], m.id)
             msgs == <<ack>>
  <1>1. /\ Taking(e) /\ Post(e, msgs) /\ PopAcked(e, m)
        /\ UNCHANGED <<draft, handled, reconnects, resync>>
    BY DEF HandleRemoteStarted, linkVars, appVars
  <1>2. m \in Envelope /\ \A f \in Endpoint : Elements(incoming'[f]) \subseteq Elements(incoming[f])
    BY <1>1, TakingElements DEF IInv
  <1>3. ack \in Envelope /\ ack.kind = "Ack"
    <2>1. nextId[e] \in Nat /\ m.id \in Nat
      BY <1>2, EnvelopeFacts DEF IInv
    <2> QED
      BY <2>1, ConstantTypes DEF AckEnvelope
  <1> HIDE DEF ack
  <1>4. msgs \in Seq(Envelope) /\ Elements(msgs) = {ack}
    BY <1>3, OneElement
  <1>5. (\A id : HowMany(msgs, CopiesOf(id)) = 0) /\ HowMany(msgs, FlushRequests) = 0
    BY <1>3, OwnCounts
  <1> HIDE DEF msgs
  <1>6. Posted(e, msgs)
    BY <1>1, <1>4, PostCounts DEF Posted, IInv
  <1>7. ClientFlushes'
    BY <1>1, <1>2, <1>3, <1>4, FlightKept DEF IInv, CopyInv
  <1>8. Dispatched(e)
    BY <1>1 DEF Dispatched
  <1> QED
    BY <1>1, <1>4, <1>5, <1>6, <1>7, <1>8, LoopCopies DEF m

LEMMA TakingCopies ==
    ASSUME IInv, TypeOK', CopyInv, NEW e \in Endpoint, HandleAnswer(e) \/ HandleMessage(e)
    PROVE  CopyInv'
  <1>1. /\ Taking(e) /\ PopAcked(e, Head(incoming[e])) /\ Dispatched(e)
        /\ UNCHANGED <<draft, reconnects, outgoing>>
        /\ resync' = resync \/ (resync = "waiting" /\ resync' = "resuming")
    BY DEF HandleAnswer, HandleMessage, Dispatched, linkVars
  <1>2. \A f \in Endpoint : Elements(incoming'[f]) \subseteq Elements(incoming[f])
    BY <1>1, TakingElements DEF IInv
  <1>3. InFlight'["server"] \subseteq InFlight["server"]
    BY <1>1, <1>2, Peers DEF InFlight
  <1>4. ClientFlushes'
    BY <1>3, FlightSmaller DEF CopyInv
  <1>5. Posted(e, <<>>)
    <2>1. \A S : HowMany(outgoing[e], S) \in Nat
      BY CopyTypes DEF IInv
    <2> QED
      BY <1>1, <2>1, HowManyNone DEF Posted
  <1>6. <<>> \in Seq(Envelope)
    OBVIOUS
  <1> QED
    BY <1>1, <1>4, <1>5, <1>6, HowManyNone, LoopCopies

LEMMA FlushCopies ==
    ASSUME IInv, TypeOK', AnswerInv, CopyInv, NEW e \in Endpoint, HandleFlush(e)
    PROVE  CopyInv'
  <1> DEFINE m == Head(incoming[e])
             ack == AckEnvelope(nextId[e], m.id)
             msgs == Append(buffer'[e], ack)
  <1>1. /\ Taking(e) /\ Post(e, msgs) /\ PopAcked(e, m)
        /\ m.kind = "FlushBufferedMessages"
        /\ UNCHANGED <<draft, handled, reconnects, resync>>
    BY DEF HandleFlush, linkVars, appVars
  <1>2. /\ m \in Envelope /\ m \in Elements(incoming[e])
        /\ \A f \in Endpoint : Elements(incoming'[f]) \subseteq Elements(incoming[f])
    BY <1>1, TakingElements DEF IInv
  <1>3. e = "server"
    <2>1. e = "client" => m \in InFlight["server"]
      BY <1>2, Peers DEF InFlight, Peer
    <2> QED
      BY <1>1, <2>1 DEF CopyInv, ClientFlushes, Endpoint
  <1>4. ack \in Envelope /\ ack.kind = "Ack"
    <2>1. nextId[e] \in Nat /\ m.id \in Nat
      BY <1>2, EnvelopeFacts DEF IInv
    <2> QED
      BY <2>1, ConstantTypes DEF AckEnvelope
  <1>5. buffer'[e] \in Seq(Envelope) /\ Elements(buffer'[e]) \subseteq sent[e]
    <2>1. buffer'[e] \in Seq(sent[e])
      BY <1>1, PopAckedSent DEF IInv
    <2>2. buffer'[e] \in Seq(Envelope)
      BY DEF TypeOK
    <2> QED
      BY <2>1, <2>2, ElementsFacts
  <1> HIDE DEF m, ack
  <1>6. msgs \in Seq(Envelope) /\ Elements(msgs) = Elements(buffer'[e]) \cup {ack}
    BY <1>4, <1>5, ElementsFacts
  <1>7. BufferedOnce'
    BY <1>1, PopAckedOnce DEF IInv, CopyInv
  <1>8. ASSUME NEW id \in Nat PROVE HowMany(msgs, CopiesOf(id)) <= 1
    <2>1. ack \notin CopiesOf(id)
      BY <1>4 DEF CopiesOf, Applications
    <2>2. HowMany(msgs, CopiesOf(id)) = HowMany(buffer'[e], CopiesOf(id)) + 0
      BY <1>4, <1>5, <2>1, HowManyEnds
    <2>3. \A i, j \in 1..Len(buffer'[e]) :
              buffer'[e][i] \in CopiesOf(id) /\ buffer'[e][j] \in CopiesOf(id) => i = j
      BY <1>7 DEF BufferedOnce, CopiesOf
    <2>4. HowMany(buffer'[e], CopiesOf(id)) <= 1 /\ HowMany(buffer'[e], CopiesOf(id)) \in Nat
      BY <1>5, <2>3, HowManyDistinct, HowManyFinite
    <2> QED
      BY <2>2, <2>4
  <1>9. \A n \in Elements(msgs) : n.kind # "FlushBufferedMessages"
    BY <1>4, <1>5, <1>6 DEF AnswerInv, Numbering, Applications
  <1> HIDE DEF msgs
  <1>10. Posted(e, msgs)
    BY <1>1, <1>6, PostCounts DEF Posted, IInv
  <1>11. ClientFlushes'
    BY <1>1, <1>2, <1>6, <1>9, FlightKept DEF IInv, CopyInv
  <1>12. Dispatched(e)
    BY <1>1 DEF Dispatched
  <1>13. Flushes' <= Flushes - 1
    <2>1. m \in FlushRequests
      BY <1>1, <1>2 DEF FlushRequests
    <2> QED
      BY <1>1, <1>3, <1>6, <1>10, <2>1, TakingFlushes DEF IInv, m
  <1>14. /\ Spent'["client"] = Spent["client"]
         /\ Spent'["server"] >= Spent["server"] + 1
    <2>1. /\ Owed["client"] = Owed'["client"]
          /\ Owed["server"] = Flushes /\ Owed'["server"] = Flushes'
      BY <1>1, Peers DEF Owed
    <2>2. Owed["server"] \in Nat /\ reconnects \in Nat
      BY Peers, CopyTypes DEF IInv, TypeOK
    <2>3. Owed'["server"] \in Nat
      <3>1. TypeOK' => Owed'["server"] \in Nat
        BY Peers, CountsTypedNext DEF CountTypes
      <3> QED
        BY <3>1
    <2> QED
      BY <1>1, <1>13, <2>1, <2>2, <2>3, Peers DEF Spent
  <1>15. \A f \in Endpoint : Spent[f] \in Int
    BY CopyTypes DEF IInv
  <1>16. \A f \in Endpoint : Spent'[f] \in Int
    <2>1. TypeOK' => \A f \in Endpoint : Spent'[f] \in Int
      BY CountsTypedNext DEF CountTypes
    <2> QED
      BY <2>1
  <1>17. HeldIds' = HeldIds
    BY <1>1 DEF HeldIds
  <1>18. ASSUME NEW f \in Endpoint, NEW id \in Nat
         PROVE  Copies'[f][id] <= Copies[f][id] + (Spent'[f] - Spent[f])
    <2>1. CopiesOf(id) \in SUBSET Envelope
      BY CopiesAreEnvelopes
    <2>2. /\ Passed'[Peer(e)][CopiesOf(id)] <= Passed[Peer(e)][CopiesOf(id)]
          /\ Passed'[e][CopiesOf(id)] <= Passed[e][CopiesOf(id)] + HowMany(msgs, CopiesOf(id))
      BY <1>1, <1>6, <1>10, <1>12, <2>1, TakingPassed DEF IInv
    <2>3. Passed[f][CopiesOf(id)] \in Nat
      BY <2>1, PassedType DEF IInv
    <2>4. Passed'[f][CopiesOf(id)] \in Nat
      <3>1. TypeOK' => \A S \in SUBSET Envelope : Passed'[f][S] \in Nat
        BY CountsTypedNext DEF CountTypes
      <3> QED
        BY <2>1, <3>1
    <2>5. HowMany(msgs, CopiesOf(id)) \in Nat /\ HowMany(msgs, CopiesOf(id)) <= 1
      BY <1>6, <1>8, HowManyFinite
    <2>6. /\ Copies[f][id] = Passed[f][CopiesOf(id)] + (IF id \in HeldIds[f] THEN 1 ELSE 0)
          /\ Copies'[f][id] = Passed'[f][CopiesOf(id)] + (IF id \in HeldIds'[f] THEN 1 ELSE 0)
      BY CopiesPassed, CopiesPassedNext DEF CopySums
    <2>7. CASE f = "server"
      <3>1. Passed'[f][CopiesOf(id)] <= Passed[f][CopiesOf(id)] + 1
        BY <1>3, <2>2, <2>3, <2>4, <2>5, <2>7
      <3> QED
        BY <1>14, <1>15, <1>16, <1>17, <2>3, <2>4, <2>6, <2>7, <3>1
    <2>8. CASE f = "client"
      <3>1. Passed'[f][CopiesOf(id)] <= Passed[f][CopiesOf(id)]
        BY <1>3, <2>2, <2>8 DEF Peer
      <3> QED
        BY <1>14, <1>15, <1>17, <2>3, <2>4, <2>6, <2>8, <3>1
    <2> QED
      BY <2>7, <2>8 DEF Endpoint
  <1>19. \A f \in Endpoint : Spent[f] <= Spent'[f]
    BY <1>14, <1>15, <1>16 DEF Endpoint
  <1>20. CopiesBounded'
    BY <1>18, <1>19, CopiesKept DEF IInv, CopyInv
  <1> QED
    BY <1>7, <1>11, <1>20 DEF CopyInv

(* Posting without taking anything.                                         *)
LEMMA PostingPassed ==
    ASSUME TypeOK, TypeOK', NEW e \in Endpoint, NEW msgs \in Seq(Envelope), Posted(e, msgs),
           incoming' = incoming, handled' = handled
    PROVE  /\ \A S \in SUBSET Envelope :
                  /\ Passed'[Peer(e)][S] = Passed[Peer(e)][S]
                  /\ Passed'[e][S] <= Passed[e][S] + HowMany(msgs, S)
           /\ Flushes' <= Flushes + HowMany(msgs, FlushRequests)
                        + (IF resync' = "swapped" THEN 1 ELSE 0) - (IF resync = "swapped" THEN 1 ELSE 0)
  <1>1. \A f \in Endpoint : \A S : /\ HowMany(handled[f], S) \in Nat /\ HowMany(incoming[f], S) \in Nat
                                   /\ HowMany(outgoing[f], S) \in Nat
    BY CopyTypes
  <1>2. \A f \in Endpoint : \A S : HowMany(outgoing'[f], S) \in Nat
    <2>1. \A f \in Endpoint : outgoing'[f] \in Seq(Envelope)
      BY DEF TypeOK
    <2> QED
      BY <2>1, HowManyFinite
  <1>3. \A S : HowMany(msgs, S) \in Nat
    BY HowManyFinite
  <1>4. /\ \A S : HowMany(outgoing'[e], S) <= HowMany(outgoing[e], S) + HowMany(msgs, S)
        /\ outgoing'[Peer(e)] = outgoing[Peer(e)]
    BY Peers DEF Posted
  <1>5. ASSUME NEW S \in SUBSET Envelope
        PROVE  /\ Passed'[Peer(e)][S] = Passed[Peer(e)][S]
               /\ Passed'[e][S] <= Passed[e][S] + HowMany(msgs, S)
    <2>1. Passed'[Peer(e)][S] = Passed[Peer(e)][S]
      BY <1>4, Peers DEF Passed
    <2>2. Passed[e][S] = HowMany(handled[Peer(e)], S) + HowMany(incoming[Peer(e)], S) + HowMany(outgoing[e], S)
          /\ Passed'[e][S] = HowMany(handled[Peer(e)], S) + HowMany(incoming[Peer(e)], S) + HowMany(outgoing'[e], S)
      BY Peers DEF Passed
    <2>3. /\ HowMany(handled[Peer(e)], S) \in Nat /\ HowMany(incoming[Peer(e)], S) \in Nat
          /\ HowMany(outgoing[e], S) \in Nat
      BY <1>1, Peers
    <2>4. HowMany(outgoing'[e], S) \in Nat
      BY <1>2
    <2>5. HowMany(msgs, S) \in Nat
      BY <1>3
    <2>6. HowMany(outgoing'[e], S) <= HowMany(outgoing[e], S) + HowMany(msgs, S)
      BY <1>4
    <2>7. Passed'[e][S] <= Passed[e][S] + HowMany(msgs, S)
      BY <2>2, <2>3, <2>4, <2>5, <2>6
    <2> QED
      BY <2>1, <2>7
  <1>6. HowMany(outgoing'["client"], FlushRequests) <= HowMany(outgoing["client"], FlushRequests)
                                                       + HowMany(msgs, FlushRequests)
    <2>1. CASE e = "client"
      BY <1>4, <2>1
    <2>2. CASE e = "server"
      <3>1. outgoing'["client"] = outgoing["client"]
        BY <1>4, <2>2 DEF Peer
      <3> QED
        BY <1>1, <1>3, <3>1, Peers
    <2> QED
      BY <2>1, <2>2 DEF Endpoint
  <1>7. Flushes' <= Flushes + HowMany(msgs, FlushRequests)
                   + (IF resync' = "swapped" THEN 1 ELSE 0) - (IF resync = "swapped" THEN 1 ELSE 0)
    <2>1. /\ HowMany(outgoing["client"], FlushRequests) \in Nat
          /\ HowMany(incoming["server"], FlushRequests) \in Nat
      BY <1>1, Peers
    <2>2. HowMany(outgoing'["client"], FlushRequests) \in Nat
      BY <1>2, Peers
    <2>3. HowMany(msgs, FlushRequests) \in Nat
      BY <1>3
    <2>4. HowMany(incoming'["server"], FlushRequests) = HowMany(incoming["server"], FlushRequests)
      OBVIOUS
    <2> QED
      BY <1>6, <2>1, <2>2, <2>3, <2>4 DEF Flushes
  <1> QED
    BY <1>5, <1>7

(* Posting what is nobody's copy.                                           *)
LEMMA PostingCopies ==
    ASSUME IInv, TypeOK', CopyInv, NEW e \in Endpoint,
           NEW msgs \in Seq(Envelope), Post(e, msgs),
           \A id \in Nat : HowMany(msgs, CopiesOf(id)) = 0,
           Flushes' <= Flushes, resync = "none" => resync' = "none",
           e = "server" => \A m \in Elements(msgs) : m.kind # "FlushBufferedMessages",
           UNCHANGED <<buffer, draft, handled, incoming, reconnects>>
    PROVE  CopyInv'
  <1>1. BufferedOnce'
    BY DEF BufferedOnce, CopyInv
  <1>2. ClientFlushes'
    BY FlightKept DEF IInv, CopyInv
  <1>3. HeldIds' = HeldIds
    BY DEF HeldIds
  <1>4. \A f \in Endpoint : Spent[f] <= Spent'[f]
    BY SpentGrows DEF IInv
  <1>5. Posted(e, msgs)
    BY PostCounts DEF Posted, IInv
  <1>6. ASSUME NEW f \in Endpoint, NEW id \in Nat
        PROVE  Passed'[f][CopiesOf(id)] <= Passed[f][CopiesOf(id)]
    <2>1. CopiesOf(id) \in SUBSET Envelope
      BY CopiesAreEnvelopes
    <2>2. /\ Passed'[Peer(e)][CopiesOf(id)] = Passed[Peer(e)][CopiesOf(id)]
          /\ Passed'[e][CopiesOf(id)] <= Passed[e][CopiesOf(id)] + HowMany(msgs, CopiesOf(id))
      BY <1>5, <2>1, PostingPassed DEF IInv
    <2>3. \A g \in Endpoint : Passed[g][CopiesOf(id)] \in Nat
      BY <2>1, PassedType DEF IInv
    <2>4. f = e \/ f = Peer(e)
      BY DEF Endpoint, Peer
    <2> QED
      BY <2>2, <2>3, <2>4, Peers
  <1>7. CopiesBounded'
    BY <1>3, <1>4, <1>6, CopiesFall DEF IInv, CopyInv
  <1> QED
    BY <1>1, <1>2, <1>7 DEF CopyInv

LEMMA StartLoopCopies ==
    ASSUME IInv, TypeOK', CopyInv, NEW e \in Endpoint, StartLoop(e)
    PROVE  CopyInv'
  <1> DEFINE msgs == <<RemoteStartedEnvelope>>
  <1>1. Post(e, msgs) /\ UNCHANGED <<buffer, draft, handled, incoming, reconnects, resync>>
    BY DEF StartLoop, linkVars, appVars
  <1>2. RemoteStartedEnvelope \in Envelope /\ RemoteStartedEnvelope.kind = "RemoteStarted"
    BY ConstantTypes DEF RemoteStartedEnvelope
  <1>3. msgs \in Seq(Envelope) /\ Elements(msgs) = {RemoteStartedEnvelope}
    BY <1>2, OneElement
  <1>4. (\A id : HowMany(msgs, CopiesOf(id)) = 0) /\ HowMany(msgs, FlushRequests) = 0
    BY <1>2, OwnCounts
  <1> HIDE DEF msgs
  <1>5. Flushes' <= Flushes
    <2>1. Posted(e, msgs)
      BY <1>1, <1>3, PostCounts DEF Posted, IInv
    <2>2. Flushes' <= Flushes + HowMany(msgs, FlushRequests)
                        + (IF resync' = "swapped" THEN 1 ELSE 0) - (IF resync = "swapped" THEN 1 ELSE 0)
      BY <1>1, <1>3, <2>1, PostingPassed DEF IInv
    <2>3. Flushes \in Nat
      BY CopyTypes, Peers DEF IInv, Owed
    <2> QED
      BY <1>1, <1>4, <2>2, <2>3
  <1> QED
    BY <1>1, <1>2, <1>3, <1>4, <1>5, PostingCopies

LEMMA RequestFlushCopies ==
    ASSUME IInv, TypeOK', CopyInv, RequestFlush
    PROVE  CopyInv'
  <1> DEFINE flush == [id |-> nextId["client"], ack |-> maxReceived["client"],
                       resp |-> None, kind |-> "FlushBufferedMessages"]
             msgs == <<flush>>
  <1>1. /\ Post("client", msgs) /\ resync = "swapped" /\ resync' = "waiting"
        /\ UNCHANGED <<buffer, draft, handled, incoming, reconnects>>
    BY DEF RequestFlush, appVars
  <1>2. flush \in Envelope /\ flush.kind = "FlushBufferedMessages"
    BY Peers DEF IInv, TypeOK, Envelope, Kind
  <1> HIDE DEF flush
  <1>3. msgs \in Seq(Envelope)
    BY <1>2
  <1>4. (\A id : HowMany(msgs, CopiesOf(id)) = 0) /\ HowMany(msgs, FlushRequests) = 1
    <2>1. (\A id : flush \notin CopiesOf(id)) /\ flush \in FlushRequests
      BY <1>2 DEF CopiesOf, FlushRequests, Applications
    <2> QED
      BY <2>1, HowManyOne
  <1> HIDE DEF msgs
  <1>5. Flushes' <= Flushes
    <2>1. Posted("client", msgs)
      BY <1>1, <1>3, PostCounts, Peers DEF Posted, IInv
    <2>2. Flushes' <= Flushes + HowMany(msgs, FlushRequests)
                        + (IF resync' = "swapped" THEN 1 ELSE 0) - (IF resync = "swapped" THEN 1 ELSE 0)
      BY <1>1, <1>3, <2>1, PostingPassed, Peers DEF IInv
    <2>3. Flushes \in Nat
      BY CopyTypes, Peers DEF IInv, Owed
    <2> QED
      BY <1>1, <1>4, <2>2, <2>3
  <1> QED
    BY <1>1, <1>3, <1>4, <1>5, PostingCopies, Peers

(* The client's resend: one copy more of what is in its buffer.             *)
LEMMA ResumeResyncCopies ==
    ASSUME IInv, TypeOK', AnswerInv, CopyInv, ResumeResync
    PROVE  CopyInv'
  <1> DEFINE msgs == buffer["client"]
  <1>1. /\ Post("client", msgs) /\ resync = "resuming" /\ resync' = "none"
        /\ UNCHANGED <<buffer, draft, handled, incoming, reconnects>>
    BY DEF ResumeResync, endVars, appVars
  <1>2. msgs \in Seq(Envelope) /\ Elements(msgs) \subseteq sent["client"]
    <2>1. buffer["client"] \in Seq(Envelope) /\ buffer["client"] \in Seq(sent["client"])
      BY Peers DEF IInv, TypeOK, OnlySent
    <2> QED
      BY <2>1, ElementsFacts
  <1>3. ASSUME NEW id \in Nat PROVE HowMany(msgs, CopiesOf(id)) <= 1
    <2>1. \A i, j \in 1..Len(msgs) : msgs[i] \in CopiesOf(id) /\ msgs[j] \in CopiesOf(id) => i = j
      BY Peers DEF CopyInv, BufferedOnce, CopiesOf
    <2> QED
      BY <1>2, <2>1, HowManyDistinct
  <1>4. HowMany(msgs, FlushRequests) = 0
    <2>1. \A n \in Elements(msgs) : n \notin FlushRequests
      BY <1>2, Peers DEF AnswerInv, Numbering, Applications, FlushRequests
    <2>2. {i \in 1..Len(msgs) : msgs[i] \in FlushRequests} = {}
      BY <2>1 DEF Elements
    <2> QED
      BY <2>2, FS_EmptySet DEF HowMany
  <1>5. BufferedOnce'
    BY <1>1 DEF CopyInv, BufferedOnce
  <1> HIDE DEF msgs
  <1>6. Posted("client", msgs)
    BY <1>1, <1>2, PostCounts, Peers DEF Posted, IInv
  <1>7. ClientFlushes'
    BY <1>1, <1>2, FlightKept, Peers DEF IInv, CopyInv
  <1>8. Flushes' <= Flushes
    <2>1. Flushes' <= Flushes + HowMany(msgs, FlushRequests)
                        + (IF resync' = "swapped" THEN 1 ELSE 0) - (IF resync = "swapped" THEN 1 ELSE 0)
      BY <1>1, <1>2, <1>6, PostingPassed, Peers DEF IInv
    <2>2. Flushes \in Nat
      BY CopyTypes, Peers DEF IInv, Owed
    <2> QED
      BY <1>1, <1>4, <2>1, <2>2
  <1>9. \A f \in Endpoint : Spent[f] \in Int /\ Owed[f] \in Nat
    BY CopyTypes DEF IInv
  <1>10. \A f \in Endpoint : Spent'[f] \in Int /\ Owed'[f] \in Nat
    <2>1. TypeOK' => \A f \in Endpoint : Spent'[f] \in Int /\ Owed'[f] \in Nat
      BY CountsTypedNext DEF CountTypes
    <2> QED
      BY <2>1
  <1>11. Spent'["client"] = Spent["client"] + 1 /\ Spent'["server"] >= Spent["server"]
    <2>1. /\ Owed["client"] = 1 /\ Owed'["client"] = 0
          /\ Owed["server"] = Flushes /\ Owed'["server"] = Flushes'
      BY <1>1, Peers DEF Owed
    <2>2. reconnects \in Nat
      BY DEF IInv, TypeOK
    <2> QED
      BY <1>1, <1>8, <1>9, <1>10, <2>1, <2>2, Peers DEF Spent
  <1>12. HeldIds' = HeldIds
    BY <1>1 DEF HeldIds
  <1>13. ASSUME NEW f \in Endpoint, NEW id \in Nat
         PROVE  Copies'[f][id] <= Copies[f][id] + (Spent'[f] - Spent[f])
    <2>1. CopiesOf(id) \in SUBSET Envelope
      BY CopiesAreEnvelopes
    <2>2. /\ Passed'[Peer("client")][CopiesOf(id)] = Passed[Peer("client")][CopiesOf(id)]
          /\ Passed'["client"][CopiesOf(id)] <= Passed["client"][CopiesOf(id)] + HowMany(msgs, CopiesOf(id))
      BY <1>1, <1>2, <1>6, <2>1, PostingPassed, Peers DEF IInv
    <2>3. Passed[f][CopiesOf(id)] \in Nat
      BY <2>1, PassedType DEF IInv
    <2>4. Passed'[f][CopiesOf(id)] \in Nat
      <3>1. TypeOK' => \A S \in SUBSET Envelope : Passed'[f][S] \in Nat
        BY CountsTypedNext DEF CountTypes
      <3> QED
        BY <2>1, <3>1
    <2>5. HowMany(msgs, CopiesOf(id)) \in Nat /\ HowMany(msgs, CopiesOf(id)) <= 1
      BY <1>2, <1>3, HowManyFinite
    <2>6. /\ Copies[f][id] = Passed[f][CopiesOf(id)] + (IF id \in HeldIds[f] THEN 1 ELSE 0)
          /\ Copies'[f][id] = Passed'[f][CopiesOf(id)] + (IF id \in HeldIds'[f] THEN 1 ELSE 0)
      BY CopiesPassed, CopiesPassedNext DEF CopySums
    <2>7. CASE f = "client"
      BY <1>9, <1>10, <1>11, <1>12, <2>2, <2>3, <2>4, <2>5, <2>6, <2>7
    <2>8. CASE f = "server"
      <3>1. Passed'[f][CopiesOf(id)] = Passed[f][CopiesOf(id)]
        BY <2>2, <2>8 DEF Peer
      <3> QED
        BY <1>9, <1>10, <1>11, <1>12, <2>3, <2>6, <2>8, <3>1
    <2> QED
      BY <2>7, <2>8 DEF Endpoint
  <1>14. \A f \in Endpoint : Spent[f] <= Spent'[f]
    BY <1>9, <1>10, <1>11 DEF Endpoint
  <1>15. CopiesBounded'
    BY <1>13, <1>14, CopiesKept DEF IInv, CopyInv
  <1> QED
    BY <1>5, <1>7, <1>15 DEF CopyInv

(* Steps of a send.                                                         *)
LEMMA HeldThen ==
    ASSUME NEW e \in Endpoint, NEW t \in Threads(e), NEW d, DraftBecomes(e, t, d)
    PROVE  /\ \A f \in Endpoint : f # e => HeldIds'[f] = HeldIds[f]
           /\ \A id \in HeldIds'[e] : id \in HeldIds[e] \/ (d.stage = "buffered" /\ id = d.msg.id)
           /\ HeldIds'[e] = {draft[e][u].msg.id : u \in {w \in Threads(e) \ {t} : draft[e][w].stage = "buffered"}}
                            \cup (IF d.stage = "buffered" THEN {d.msg.id} ELSE {})
  <1>1. \A f \in Endpoint : f # e => HeldIds'[f] = HeldIds[f]
    BY DEF HeldIds, DraftBecomes
  <1>2. draft'[e][t] = d /\ \A u \in Threads(e) : u # t => draft'[e][u] = draft[e][u]
    BY DEF DraftBecomes
  <1>3. HeldIds'[e] = {draft'[e][u].msg.id : u \in {w \in Threads(e) : draft'[e][w].stage = "buffered"}}
    BY DEF HeldIds
  <1>4. HeldIds[e] = {draft[e][u].msg.id : u \in {w \in Threads(e) : draft[e][w].stage = "buffered"}}
    BY DEF HeldIds
  <1>5. ASSUME NEW id \in HeldIds'[e] PROVE id \in HeldIds[e] \/ (d.stage = "buffered" /\ id = d.msg.id)
    <2>1. PICK u \in Threads(e) : draft'[e][u].stage = "buffered" /\ id = draft'[e][u].msg.id
      BY <1>3
    <2>2. CASE u = t
      BY <1>2, <2>1, <2>2
    <2>3. CASE u # t
      BY <1>2, <1>4, <2>1, <2>3
    <2> QED
      BY <2>2, <2>3
  <1>6. HeldIds'[e] = {draft[e][u].msg.id : u \in {w \in Threads(e) \ {t} : draft[e][w].stage = "buffered"}}
                     \cup (IF d.stage = "buffered" THEN {d.msg.id} ELSE {})
    BY <1>2, <1>3
  <1> QED
    BY <1>1, <1>5, <1>6

LEMMA AllocateCopies ==
    ASSUME IInv, TypeOK', CopyInv, NEW e \in Endpoint, NEW t \in Threads(e), NEW kind, NEW resp,
           Allocate(e, t, kind, resp)
    PROVE  CopyInv'
  <1> DEFINE d == [stage |-> "allocated",
                   msg |-> [id |-> nextId[e], ack |-> None, resp |-> resp, kind |-> kind]]
  <1>1. UNCHANGED <<buffer, handled, incoming, outgoing, reconnects, resync>> /\ draft[e][t].stage = "idle"
    BY DEF Allocate, queueVars, linkVars, Idle
  <1>2. DraftBecomes(e, t, d)
    BY DraftUpdate DEF IInv, Allocate
  <1>3. d.stage = "allocated"
    OBVIOUS
  <1> HIDE DEF d
  <1>4. \A f \in Endpoint : HeldIds'[f] \subseteq HeldIds[f]
    <2>1. \A f \in Endpoint : f # e => HeldIds'[f] = HeldIds[f]
      BY <1>2, HeldThen
    <2>2. \A id \in HeldIds'[e] : id \in HeldIds[e] \/ (d.stage = "buffered" /\ id = d.msg.id)
      BY <1>2, HeldThen
    <2> QED
      BY <1>3, <2>1, <2>2
  <1>5. \A f \in Endpoint : Spent[f] <= Spent'[f]
    <2>1. Flushes' = Flushes
      BY <1>1 DEF Flushes
    <2>2. Flushes \in Nat
      BY CopyTypes, Peers DEF IInv, Owed
    <2> QED
      BY <1>1, <2>1, <2>2, SpentGrows DEF IInv
  <1>6. Passed' = Passed
    BY <1>1 DEF Passed
  <1>7. \A f \in Endpoint : \A id \in Nat : Passed[f][CopiesOf(id)] \in Nat
    BY PassedType, CopiesAreEnvelopes DEF IInv
  <1>8. CopiesBounded'
    BY <1>4, <1>5, <1>6, <1>7, CopiesFall DEF IInv, CopyInv
  <1> QED
    BY <1>1, <1>8 DEF CopyInv, BufferedOnce, ClientFlushes, InFlight

(* Before an envelope enters the buffer there is no copy of it.             *)
LEMMA NoCopyBefore ==
    ASSUME IInv, AnswerInv, NEW e \in Endpoint, NEW t \in Allocated[e]
    PROVE  /\ draft[e][t].msg.id \notin HeldIds[e]
           /\ Passed[e][CopiesOf(draft[e][t].msg.id)] = 0
           /\ \A i \in 1..Len(buffer[e]) : buffer[e][i].id # draft[e][t].msg.id
  <1> DEFINE id == draft[e][t].msg.id
  <1>1. \A m \in sent[e] : m.id # id
    BY DEF AnswerInv, Numbering
  <1>2. id \notin HeldIds[e]
    <2>1. \A u \in Threads(e) : draft[e][u].stage = "buffered" => draft[e][u].msg \in sent[e]
      BY DEF IInv, OnlySent
    <2> QED
      BY <1>1, <2>1 DEF HeldIds
  <1>3. ASSUME NEW q \in Seq(Carried(e)) PROVE HowMany(q, CopiesOf(id)) = 0
    <2>1. \A i \in 1..Len(q) : q[i] \notin CopiesOf(id)
      <3> SUFFICES ASSUME NEW i \in 1..Len(q), q[i] \in CopiesOf(id) PROVE FALSE
        OBVIOUS
      <3>1. q[i] \in Carried(e)
        OBVIOUS
      <3>2. q[i].kind \in Applications /\ q[i].id = id
        BY DEF CopiesOf
      <3> QED
        BY <1>1, <3>1, <3>2 DEF Carried, ChannelOwn, Applications
    <2>2. {i \in 1..Len(q) : q[i] \in CopiesOf(id)} = {}
      BY <2>1
    <2> QED
      BY <2>2, FS_EmptySet DEF HowMany
  <1>4. /\ outgoing[e] \in Seq(Carried(e)) /\ incoming[Peer(e)] \in Seq(Carried(e))
        /\ handled[Peer(e)] \in Seq(sent[e])
    BY Peers DEF IInv, OnlySent
  <1>5. handled[Peer(e)] \in Seq(Carried(e))
    BY <1>4, SeqWider DEF Carried
  <1>6. Passed[e][CopiesOf(id)] = 0
    <2>1. CopiesOf(id) \in SUBSET Envelope
      BY CopiesAreEnvelopes
    <2> QED
      BY <1>3, <1>4, <1>5, <2>1 DEF Passed
  <1>7. \A i \in 1..Len(buffer[e]) : buffer[e][i].id # id
    <2>1. buffer[e] \in Seq(sent[e])
      BY DEF IInv, OnlySent
    <2>2. \A i \in 1..Len(buffer[e]) : buffer[e][i] \in sent[e]
      BY <2>1
    <2> QED
      BY <1>1, <2>2
  <1> QED
    BY <1>2, <1>6, <1>7

LEMMA EnbufferCopies ==
    ASSUME IInv, TypeOK', AnswerInv, CopyInv, NEW e \in Endpoint, NEW t \in Threads(e), Enbuffer(e, t)
    PROVE  CopyInv'
  <1> DEFINE o == draft[e][t].msg
             m == [o EXCEPT !.ack = maxReceived[e]]
             d == [stage |-> "buffered", msg |-> m]
  <1>1. DraftBecomes(e, t, d)
    BY DraftUpdate DEF IInv, Enbuffer
  <1>2. t \in Allocated[e]
    BY DEF Enbuffer, Allocated
  <1>3. /\ UNCHANGED <<handled, outgoing, incoming, reconnects, resync>>
        /\ buffer' = [buffer EXCEPT ![e] = Append(@, m)]
    BY DEF Enbuffer, queueVars, linkVars
  <1>4. o \in Envelope
    BY EnvelopeFacts DEF IInv
  <1>5. m.id = o.id
    BY <1>4 DEF Envelope
  <1>6. d.stage = "buffered" /\ d.msg.id = o.id
    BY <1>5
  <1> HIDE DEF d, m
  <1>7. /\ \A f \in Endpoint : f # e => HeldIds'[f] = HeldIds[f]
        /\ HeldIds'[e] \subseteq HeldIds[e] \cup {o.id}
    <2>1. \A f \in Endpoint : f # e => HeldIds'[f] = HeldIds[f]
      BY <1>1, HeldThen
    <2>2. \A id \in HeldIds'[e] : id \in HeldIds[e] \/ (d.stage = "buffered" /\ id = d.msg.id)
      BY <1>1, HeldThen
    <2> QED
      BY <1>6, <2>1, <2>2
  <1>8. /\ o.id \notin HeldIds[e]
        /\ Passed[e][CopiesOf(o.id)] = 0
        /\ \A i \in 1..Len(buffer[e]) : buffer[e][i].id # o.id
    BY <1>2, NoCopyBefore
  <1>9. \A f \in Endpoint : Spent[f] <= Spent'[f]
    <2>1. Flushes' = Flushes
      BY <1>3 DEF Flushes
    <2>2. Flushes \in Nat
      BY CopyTypes, Peers DEF IInv, Owed
    <2> QED
      BY <1>3, <2>1, <2>2, SpentGrows DEF IInv
  <1>10. Passed' = Passed
    BY <1>3 DEF Passed
  <1>11. \A f \in Endpoint : Spent[f] \in Int
    BY CopyTypes DEF IInv
  <1>12. \A f \in Endpoint : Spent'[f] \in Int
    <2>1. TypeOK' => \A f \in Endpoint : Spent'[f] \in Int
      BY CountsTypedNext DEF CountTypes
    <2> QED
      BY <2>1
  <1>13. ASSUME NEW f \in Endpoint, NEW id \in Nat
         PROVE  Copies'[f][id] <= Copies[f][id] + (Spent'[f] - Spent[f]) \/ Copies'[f][id] <= 1
    <2>1. Passed[f][CopiesOf(id)] \in Nat
      BY PassedType, CopiesAreEnvelopes DEF IInv
    <2>2. /\ Copies[f][id] = Passed[f][CopiesOf(id)] + (IF id \in HeldIds[f] THEN 1 ELSE 0)
          /\ Copies'[f][id] = Passed'[f][CopiesOf(id)] + (IF id \in HeldIds'[f] THEN 1 ELSE 0)
      BY CopiesPassed, CopiesPassedNext DEF CopySums
    <2>3. Passed'[f][CopiesOf(id)] = Passed[f][CopiesOf(id)]
      BY <1>10
    <2>4. CASE f = e /\ id = o.id
      <3>1. Passed[f][CopiesOf(id)] = 0
        BY <1>8, <2>4
      <3>2. Copies'[f][id] = 0 + (IF id \in HeldIds'[f] THEN 1 ELSE 0)
        BY <2>2, <2>3, <3>1
      <3> QED
        BY <3>2
    <2>5. CASE ~(f = e /\ id = o.id)
      <3>1. id \in HeldIds'[f] => id \in HeldIds[f]
        BY <1>7, <2>5
      <3>2. Copies'[f][id] <= Copies[f][id] /\ Copies[f][id] \in Nat
        BY <2>1, <2>2, <2>3, <3>1
      <3> QED
        BY <1>9, <1>11, <1>12, <2>1, <2>2, <2>3, <3>2
    <2> QED
      BY <2>4, <2>5
  <1>14. CopiesBounded'
    BY <1>9, <1>13, CopiesKept DEF IInv, CopyInv
  <1>15. BufferedOnce'
    <2>1. buffer[e] \in Seq(Envelope) /\ buffer'[e] = Append(buffer[e], m)
          /\ \A f \in Endpoint : f # e => buffer'[f] = buffer[f]
      BY <1>3 DEF IInv, TypeOK
    <2>2. /\ Len(buffer'[e]) = Len(buffer[e]) + 1 /\ Len(buffer[e]) \in Nat
          /\ \A i \in 1..Len(buffer[e]) : buffer'[e][i] = buffer[e][i]
          /\ buffer'[e][Len(buffer[e]) + 1] = m
      BY <2>1
    <2>3. \A i, j \in 1..Len(buffer[e]) : buffer[e][i].id = buffer[e][j].id => i = j
      BY DEF CopyInv, BufferedOnce
    <2>4. ASSUME NEW i \in 1..Len(buffer'[e]), NEW j \in 1..Len(buffer'[e]),
                 buffer'[e][i].id = buffer'[e][j].id
          PROVE  i = j
      <3>1. CASE i \in 1..Len(buffer[e]) /\ j \in 1..Len(buffer[e])
        BY <2>2, <2>3, <2>4, <3>1
      <3>2. CASE i = Len(buffer[e]) + 1 /\ j \in 1..Len(buffer[e])
        BY <1>5, <1>8, <2>2, <2>4, <3>2
      <3>3. CASE j = Len(buffer[e]) + 1 /\ i \in 1..Len(buffer[e])
        BY <1>5, <1>8, <2>2, <2>4, <3>3
      <3> QED
        BY <2>2, <3>1, <3>2, <3>3
    <2> QED
      BY <2>1, <2>4 DEF CopyInv, BufferedOnce
  <1>16. ClientFlushes'
    BY <1>3 DEF CopyInv, ClientFlushes, InFlight
  <1> QED
    BY <1>14, <1>15, <1>16 DEF CopyInv

(* The posted clone takes the place of the draft.                           *)
LEMMA PostDraftCopies ==
    ASSUME IInv, TypeOK', AnswerInv, CopyInv, NEW e \in Endpoint, NEW t \in Threads(e), PostDraft(e, t)
    PROVE  CopyInv'
  <1> DEFINE o == draft[e][t].msg
             msgs == <<o>>
  <1>1. /\ Post(e, msgs) /\ draft[e][t].stage = "buffered"
        /\ UNCHANGED <<buffer, handled, incoming, reconnects, resync>>
    BY DEF PostDraft, endVars, linkVars
  <1>2. DraftBecomes(e, t, Idle)
    BY DraftUpdate DEF IInv, PostDraft
  <1>3. o \in Envelope /\ o.kind \in Applications
    <2>1. t \in Sends[e]
      BY <1>1 DEF Sends
    <2> QED
      BY <2>1, EnvelopeFacts DEF IInv, AnswerInv, Numbering
  <1>4. /\ \A f \in Endpoint : f # e => HeldIds'[f] = HeldIds[f]
        /\ HeldIds'[e] \subseteq HeldIds[e] \ {o.id}
        /\ o.id \in HeldIds[e]
    <2>1. /\ \A f \in Endpoint : f # e => HeldIds'[f] = HeldIds[f]
          /\ HeldIds'[e] = {draft[e][u].msg.id : u \in {w \in Threads(e) \ {t} : draft[e][w].stage = "buffered"}}
      BY <1>2, HeldThen DEF Idle
    <2>2. \A u, w \in Sends[e] : draft[e][u].msg.id = draft[e][w].msg.id => u = w
      BY DEF AnswerInv, Numbering
    <2>3. \A u \in Threads(e) : draft[e][u].stage = "buffered" => u \in Sends[e]
      BY DEF Sends
    <2>4. ASSUME NEW i \in HeldIds'[e] PROVE i \in HeldIds[e] \ {o.id}
      <3>1. PICK u \in Threads(e) \ {t} : draft[e][u].stage = "buffered" /\ i = draft[e][u].msg.id
        BY <2>1, <2>4
      <3>2. i # o.id
        BY <1>1, <2>2, <2>3, <3>1
      <3> QED
        BY <3>1, <3>2 DEF HeldIds
    <2>5. o.id \in HeldIds[e]
      BY <1>1 DEF HeldIds
    <2> QED
      BY <2>1, <2>4, <2>5
  <1> HIDE DEF o
  <1>5. msgs \in Seq(Envelope) /\ Elements(msgs) = {o}
    BY <1>3, OneElement
  <1>6. /\ \A id \in Nat : HowMany(msgs, CopiesOf(id)) = IF id = o.id THEN 1 ELSE 0
        /\ HowMany(msgs, FlushRequests) = 0
    <2>1. \A id \in Nat : o \in CopiesOf(id) <=> id = o.id
      BY <1>3 DEF CopiesOf
    <2>2. o \notin FlushRequests
      BY <1>3 DEF FlushRequests, Applications
    <2> QED
      BY <2>1, <2>2, HowManyOne
  <1> HIDE DEF msgs
  <1>7. Posted(e, msgs)
    BY <1>1, <1>5, PostCounts DEF Posted, IInv
  <1>8. ClientFlushes'
    BY <1>1, <1>3, <1>5, FlightKept DEF IInv, CopyInv, Applications
  <1>9. BufferedOnce'
    BY <1>1 DEF BufferedOnce, CopyInv
  <1>10. \A f \in Endpoint : Spent[f] <= Spent'[f]
    <2>1. Flushes' <= Flushes + HowMany(msgs, FlushRequests)
                        + (IF resync' = "swapped" THEN 1 ELSE 0) - (IF resync = "swapped" THEN 1 ELSE 0)
      BY <1>1, <1>5, <1>7, PostingPassed DEF IInv
    <2>2. Flushes \in Nat
      BY CopyTypes, Peers DEF IInv, Owed
    <2>3. Flushes' <= Flushes
      BY <1>1, <1>6, <2>1, <2>2
    <2> QED
      BY <1>1, <2>3, SpentGrows DEF IInv
  <1>11. \A f \in Endpoint : Spent[f] \in Int
    BY CopyTypes DEF IInv
  <1>12. \A f \in Endpoint : Spent'[f] \in Int
    <2>1. TypeOK' => \A f \in Endpoint : Spent'[f] \in Int
      BY CountsTypedNext DEF CountTypes
    <2> QED
      BY <2>1
  <1>13. ASSUME NEW f \in Endpoint, NEW id \in Nat
         PROVE  Copies'[f][id] <= Copies[f][id] + (Spent'[f] - Spent[f])
    <2>1. CopiesOf(id) \in SUBSET Envelope
      BY CopiesAreEnvelopes
    <2>2. /\ Passed'[Peer(e)][CopiesOf(id)] = Passed[Peer(e)][CopiesOf(id)]
          /\ Passed'[e][CopiesOf(id)] <= Passed[e][CopiesOf(id)] + HowMany(msgs, CopiesOf(id))
      BY <1>1, <1>5, <1>7, <2>1, PostingPassed DEF IInv
    <2>3. Passed[f][CopiesOf(id)] \in Nat
      BY <2>1, PassedType DEF IInv
    <2>4. Passed'[f][CopiesOf(id)] \in Nat
      <3>1. TypeOK' => \A S \in SUBSET Envelope : Passed'[f][S] \in Nat
        BY CountsTypedNext DEF CountTypes
      <3> QED
        BY <2>1, <3>1
    <2>5. /\ Copies[f][id] = Passed[f][CopiesOf(id)] + (IF id \in HeldIds[f] THEN 1 ELSE 0)
          /\ Copies'[f][id] = Passed'[f][CopiesOf(id)] + (IF id \in HeldIds'[f] THEN 1 ELSE 0)
      BY CopiesPassed, CopiesPassedNext DEF CopySums
    <2>6. Copies'[f][id] <= Copies[f][id] /\ Copies[f][id] \in Nat /\ Copies'[f][id] \in Nat
      <3>1. CASE f # e
        <4>1. f = Peer(e)
          BY <3>1 DEF Endpoint, Peer
        <4>2. Passed'[f][CopiesOf(id)] = Passed[f][CopiesOf(id)] /\ HeldIds'[f] = HeldIds[f]
          BY <1>4, <2>2, <3>1, <4>1
        <4> QED
          BY <2>3, <2>5, <4>2
      <3>2. CASE f = e /\ id = o.id
        <4>1. Passed'[f][CopiesOf(id)] <= Passed[f][CopiesOf(id)] + 1
          BY <1>6, <2>2, <3>2
        <4>2. id \in HeldIds[f] /\ id \notin HeldIds'[f]
          BY <1>4, <3>2
        <4> QED
          BY <2>3, <2>4, <2>5, <4>1, <4>2
      <3>3. CASE f = e /\ id # o.id
        <4>1. Passed'[f][CopiesOf(id)] <= Passed[f][CopiesOf(id)] + 0
          BY <1>6, <2>2, <3>3
        <4>2. id \in HeldIds'[f] => id \in HeldIds[f]
          BY <1>4, <3>3
        <4> QED
          BY <2>3, <2>4, <2>5, <4>1, <4>2
      <3> QED
        BY <3>1, <3>2, <3>3
    <2> QED
      BY <1>10, <1>11, <1>12, <2>6
  <1>14. CopiesBounded'
    BY <1>10, <1>13, CopiesKept DEF IInv, CopyInv
  <1> QED
    BY <1>8, <1>9, <1>14 DEF CopyInv

(* The link only moves copies from the one end to the other, or loses them. *)
LEMMA DeliverCounts ==
    ASSUME TypeOK, NEW e \in Endpoint, Deliver(e)
    PROVE  /\ \A f \in Endpoint : \A S :
                  HowMany(incoming'[Peer(f)], S) + HowMany(outgoing'[f], S)
                      = HowMany(incoming[Peer(f)], S) + HowMany(outgoing[f], S)
           /\ \A f \in Endpoint : InFlight'[f] \subseteq InFlight[f]
  <1>1. /\ outgoing[e] \in Seq(Envelope) /\ outgoing[e] # <<>>
        /\ incoming[Peer(e)] \in Seq(Envelope) /\ Head(outgoing[e]) \in Envelope
        /\ Tail(outgoing[e]) \in Seq(Envelope)
    <2>1. outgoing[e] \in Seq(Envelope) /\ incoming[Peer(e)] \in Seq(Envelope)
      BY Peers DEF TypeOK
    <2>2. outgoing[e] # <<>>
      BY DEF Deliver
    <2> QED
      BY <2>1, <2>2, HeadTailProperties
  <1>2. /\ outgoing'[e] = Tail(outgoing[e])
        /\ incoming'[Peer(e)] = Append(incoming[Peer(e)], Head(outgoing[e]))
        /\ \A f \in Endpoint : f # e => outgoing'[f] = outgoing[f] /\ incoming'[Peer(f)] = incoming[Peer(f)]
    BY Peers DEF TypeOK, Deliver
  <1>3. ASSUME NEW S
        PROVE  HowMany(incoming'[Peer(e)], S) + HowMany(outgoing'[e], S)
                   = HowMany(incoming[Peer(e)], S) + HowMany(outgoing[e], S)
    <2>1. HowMany(Append(incoming[Peer(e)], Head(outgoing[e])), S)
            = HowMany(incoming[Peer(e)], S) + (IF Head(outgoing[e]) \in S THEN 1 ELSE 0)
      BY <1>1, HowManyEnds
    <2>2. HowMany(outgoing[e], S) = HowMany(Tail(outgoing[e]), S) + (IF Head(outgoing[e]) \in S THEN 1 ELSE 0)
      BY <1>1, HowManyEnds
    <2>3. HowMany(incoming[Peer(e)], S) \in Nat /\ HowMany(Tail(outgoing[e]), S) \in Nat
      BY <1>1, HowManyFinite
    <2> QED
      BY <1>2, <2>1, <2>2, <2>3
  <1>4. /\ Elements(outgoing[e]) = Elements(Tail(outgoing[e])) \cup {Head(outgoing[e])}
        /\ Elements(Append(incoming[Peer(e)], Head(outgoing[e])))
               = Elements(incoming[Peer(e)]) \cup {Head(outgoing[e])}
    BY <1>1, ElementsFacts
  <1>5. \A f \in Endpoint : InFlight'[f] \subseteq InFlight[f]
    BY <1>2, <1>4 DEF InFlight
  <1> QED
    BY <1>2, <1>3, <1>5

LEMMA LosingCounts ==
    ASSUME TypeOK, Disconnect \/ ServerWriteLost \/ ServerBreak \/ ServerAccept \/ Reconnect
    PROVE  /\ \A f \in Endpoint : \A S : /\ HowMany(incoming'[f], S) <= HowMany(incoming[f], S)
                                         /\ HowMany(outgoing'[f], S) <= HowMany(outgoing[f], S)
           /\ \A f \in Endpoint : InFlight'[f] \subseteq InFlight[f]
  <1>1. \A f \in Endpoint : \A S : HowMany(incoming[f], S) \in Nat /\ HowMany(outgoing[f], S) \in Nat
    BY CopyTypes
  <1>2. Elements(<<>>) = {} /\ \A S : HowMany(<<>>, S) = 0
    BY HowManyNone DEF Elements
  <1>3. outgoing["server"] # <<>> =>
            /\ Elements(Tail(outgoing["server"])) \subseteq Elements(outgoing["server"])
            /\ \A S : HowMany(Tail(outgoing["server"]), S) <= HowMany(outgoing["server"], S)
    <2>1. outgoing["server"] \in Seq(Envelope)
      BY Peers DEF TypeOK
    <2>2. ASSUME outgoing["server"] # <<>>, NEW S
          PROVE  HowMany(Tail(outgoing["server"]), S) <= HowMany(outgoing["server"], S)
      <3>1. Tail(outgoing["server"]) \in Seq(Envelope)
        BY <2>1, <2>2
      <3>2. HowMany(Tail(outgoing["server"]), S) \in Nat
        BY <3>1, HowManyFinite
      <3>3. HowMany(outgoing["server"], S) = HowMany(Tail(outgoing["server"]), S)
                                             + (IF Head(outgoing["server"]) \in S THEN 1 ELSE 0)
        BY <2>1, <2>2, HowManyEnds
      <3> QED
        BY <3>2, <3>3
    <2> QED
      BY <2>1, <2>2, ElementsFacts
  <1>4. \A f \in Endpoint : \/ outgoing'[f] = outgoing[f]
                            \/ outgoing'[f] = <<>>
                            \/ f = "server" /\ outgoing["server"] # <<>> /\ outgoing'[f] = Tail(outgoing["server"])
    BY DEF TypeOK, Disconnect, ServerWriteLost, ServerBreak, ServerAccept, Reconnect, queueVars
  <1>5. \A f \in Endpoint : incoming'[f] = incoming[f] \/ incoming'[f] = <<>>
    BY DEF TypeOK, Disconnect, ServerWriteLost, ServerBreak, ServerAccept, Reconnect, queueVars
  <1>6. ASSUME NEW f \in Endpoint, NEW S
        PROVE  /\ HowMany(incoming'[f], S) <= HowMany(incoming[f], S)
               /\ HowMany(outgoing'[f], S) <= HowMany(outgoing[f], S)
    <2>1. HowMany(incoming'[f], S) <= HowMany(incoming[f], S)
      <3>1. CASE incoming'[f] = incoming[f]
        BY <1>1, <3>1
      <3>2. CASE incoming'[f] = <<>>
        BY <1>1, <1>2, <3>2
      <3> QED
        BY <1>5, <3>1, <3>2
    <2>2. HowMany(outgoing'[f], S) <= HowMany(outgoing[f], S)
      <3>1. CASE outgoing'[f] = outgoing[f]
        BY <1>1, <3>1
      <3>2. CASE outgoing'[f] = <<>>
        BY <1>1, <1>2, <3>2
      <3>3. CASE f = "server" /\ outgoing["server"] # <<>> /\ outgoing'[f] = Tail(outgoing["server"])
        BY <1>3, <3>3
      <3> QED
        BY <1>4, <3>1, <3>2, <3>3
    <2> QED
      BY <2>1, <2>2
  <1>7. \A f \in Endpoint : Elements(outgoing'[f]) \subseteq Elements(outgoing[f])
    BY <1>2, <1>3, <1>4
  <1>8. \A f \in Endpoint : Elements(incoming'[f]) \subseteq Elements(incoming[f])
    BY <1>2, <1>5
  <1>9. \A f \in Endpoint : InFlight'[f] \subseteq InFlight[f]
    BY <1>7, <1>8, Peers DEF InFlight
  <1> QED
    BY <1>6, <1>9

LEMMA LinkCopies ==
    ASSUME IInv, TypeOK', AnswerInv, CopyInv, LinkStep
    PROVE  CopyInv'
  <1> USE DEF endVars, queueVars, linkVars, appVars
  <1>1. CASE RequestFlush
    BY <1>1, RequestFlushCopies
  <1>2. CASE ResumeResync
    BY <1>2, ResumeResyncCopies
  <1>3. ASSUME NEW a \in Endpoint, \/ Deliver(a)
                                   \/ Disconnect \/ ServerWriteLost \/ ServerBreak \/ ServerAccept \/ Reconnect
        PROVE  CopyInv'
    <2>1. UNCHANGED <<buffer, draft, handled>>
      BY <1>3 DEF Deliver, Disconnect, ServerWriteLost, ServerBreak, ServerAccept, Reconnect
    <2>2. \A f \in Endpoint : \A S : /\ HowMany(incoming[f], S) \in Nat /\ HowMany(outgoing[f], S) \in Nat
                                     /\ HowMany(handled[f], S) \in Nat
      BY CopyTypes DEF IInv
    <2>3. \A f \in Endpoint : \A S : HowMany(incoming'[f], S) \in Nat /\ HowMany(outgoing'[f], S) \in Nat
      <3>1. \A f \in Endpoint : incoming'[f] \in Seq(Envelope) /\ outgoing'[f] \in Seq(Envelope)
        BY DEF TypeOK
      <3> QED
        BY <3>1, HowManyFinite
    <2>4. /\ \A f \in Endpoint : \A S :
                 HowMany(incoming'[Peer(f)], S) + HowMany(outgoing'[f], S)
                     <= HowMany(incoming[Peer(f)], S) + HowMany(outgoing[f], S)
          /\ \A f \in Endpoint : InFlight'[f] \subseteq InFlight[f]
      <3>1. CASE Deliver(a)
        <4>1. /\ \A f \in Endpoint : \A S :
                     HowMany(incoming'[Peer(f)], S) + HowMany(outgoing'[f], S)
                         = HowMany(incoming[Peer(f)], S) + HowMany(outgoing[f], S)
              /\ \A f \in Endpoint : InFlight'[f] \subseteq InFlight[f]
          BY <3>1, DeliverCounts DEF IInv
        <4> QED
          BY SMTT(30), <2>2, <4>1, Peers
      <3>2. CASE Disconnect \/ ServerWriteLost \/ ServerBreak \/ ServerAccept \/ Reconnect
        <4>1. /\ \A f \in Endpoint : \A S : /\ HowMany(incoming'[f], S) <= HowMany(incoming[f], S)
                                            /\ HowMany(outgoing'[f], S) <= HowMany(outgoing[f], S)
              /\ \A f \in Endpoint : InFlight'[f] \subseteq InFlight[f]
          BY <3>2, LosingCounts DEF IInv
        <4>2. ASSUME NEW f \in Endpoint, NEW S
              PROVE  HowMany(incoming'[Peer(f)], S) + HowMany(outgoing'[f], S)
                         <= HowMany(incoming[Peer(f)], S) + HowMany(outgoing[f], S)
          <5>1. HowMany(incoming'[Peer(f)], S) <= HowMany(incoming[Peer(f)], S)
            BY <4>1, Peers
          <5>2. HowMany(outgoing'[f], S) <= HowMany(outgoing[f], S)
            BY <4>1
          <5> QED
            BY <2>2, <2>3, <5>1, <5>2, Peers
        <4> QED
          BY <4>1, <4>2
      <3> QED
        BY <1>3, <3>1, <3>2
    <2>5. \A f \in Endpoint : \A id \in Nat : Passed'[f][CopiesOf(id)] <= Passed[f][CopiesOf(id)]
      <3> SUFFICES ASSUME NEW f \in Endpoint, NEW id \in Nat
                   PROVE  Passed'[f][CopiesOf(id)] <= Passed[f][CopiesOf(id)]
        OBVIOUS
      <3> DEFINE S == CopiesOf(id)
      <3>1. S \in SUBSET Envelope
        BY CopiesAreEnvelopes
      <3> HIDE DEF S
      <3>2. /\ Passed[f][S] = HowMany(handled[Peer(f)], S) + HowMany(incoming[Peer(f)], S) + HowMany(outgoing[f], S)
            /\ Passed'[f][S] = HowMany(handled'[Peer(f)], S) + HowMany(incoming'[Peer(f)], S) + HowMany(outgoing'[f], S)
        BY <3>1 DEF Passed
      <3>3. handled'[Peer(f)] = handled[Peer(f)]
        BY <2>1
      <3>4. HowMany(incoming'[Peer(f)], S) + HowMany(outgoing'[f], S)
                <= HowMany(incoming[Peer(f)], S) + HowMany(outgoing[f], S)
        BY <2>4
      <3>5. Passed'[f][S] <= Passed[f][S]
        BY <2>2, <2>3, <3>2, <3>3, <3>4, Peers
      <3> QED
        BY <3>5 DEF S
    <2>6. \A f \in Endpoint : Spent[f] <= Spent'[f]
      <3>1. HowMany(outgoing'["client"], FlushRequests) + HowMany(incoming'["server"], FlushRequests)
                <= HowMany(outgoing["client"], FlushRequests) + HowMany(incoming["server"], FlushRequests)
        <4>1. HowMany(incoming'[Peer("client")], FlushRequests) + HowMany(outgoing'["client"], FlushRequests)
                <= HowMany(incoming[Peer("client")], FlushRequests) + HowMany(outgoing["client"], FlushRequests)
          BY <2>4, Peers
        <4> QED
          BY <2>2, <2>3, <4>1, Peers DEF Peer
      <3>2. CASE ~Reconnect
        <4>1. reconnects' = reconnects /\ resync' = resync
          BY <1>3, <3>2 DEF Deliver, Disconnect, ServerWriteLost, ServerBreak, ServerAccept
        <4>2. Flushes' <= Flushes
          BY <2>2, <2>3, <3>1, <4>1, Peers DEF Flushes
        <4> QED
          BY <4>1, <4>2, SpentGrows DEF IInv
      <3>3. CASE Reconnect
        <4>1. reconnects' = reconnects + 1 /\ resync' = "swapped" /\ resync # "swapped"
          BY <3>3 DEF Reconnect, MainFree
        <4>2. Flushes' <= Flushes + 1
          BY <2>2, <2>3, <3>1, <4>1, Peers DEF Flushes
        <4>3. \A f \in Endpoint : Owed[f] \in Nat
          BY CopyTypes DEF IInv
        <4>4. \A f \in Endpoint : Owed'[f] \in Nat
          <5>1. TypeOK' => \A f \in Endpoint : Owed'[f] \in Nat
            BY CountsTypedNext DEF CountTypes
          <5> QED
            BY <5>1
        <4>5. reconnects \in Nat
          BY DEF IInv, TypeOK
        <4>6. \A f \in Endpoint : Owed'[f] <= Owed[f] + 1
          <5>1. Owed'["server"] = Flushes' /\ Owed["server"] = Flushes /\ Owed'["client"] = 1
            BY <4>1, Peers DEF Owed
          <5>2. Owed'["server"] <= Owed["server"] + 1
            BY <4>2, <5>1
          <5>3. Owed'["client"] <= Owed["client"] + 1
            BY <4>3, <5>1, Peers
          <5> QED
            BY <5>2, <5>3 DEF Endpoint
        <4> QED
          BY <4>1, <4>3, <4>4, <4>5, <4>6 DEF Spent
      <3> QED
        BY <3>2, <3>3
    <2>7. HeldIds' = HeldIds
      BY <2>1 DEF HeldIds
    <2>8. CopiesBounded'
      BY <2>5, <2>6, <2>7, CopiesFall DEF IInv, CopyInv
    <2>9. ClientFlushes'
      BY <2>4, FlightSmaller, Peers DEF CopyInv
    <2>10. BufferedOnce'
      BY <2>1 DEF BufferedOnce, CopyInv
    <2> QED
      BY <2>8, <2>9, <2>10 DEF CopyInv
  <1>4. \E a \in Endpoint : TRUE
    BY Peers
  <1> QED
    BY <1>1, <1>2, <1>3, <1>4 DEF LinkStep

LEMMA CopyInvStep == IInv /\ TypeOK' /\ AnswerInv /\ CopyInv /\ [Next]_vars => CopyInv'
  <1> SUFFICES ASSUME IInv, TypeOK', AnswerInv, CopyInv, [Next]_vars PROVE CopyInv'
    OBVIOUS
  <1>1. CASE SendPing
    <2>1. "client" \in Endpoint /\ "main" \in Threads("client")
      BY DEF Endpoint, Threads
    <2> QED
      BY <1>1, <2>1, AllocateCopies DEF SendPing
  <1>2. ASSUME NEW e \in Endpoint, NEW t \in Threads(e), Sending(e, t) PROVE CopyInv'
    BY <1>2, AllocateCopies DEF Sending, SendNotice, SendRequest
  <1>3. ASSUME NEW e \in Endpoint, NEW t \in Threads(e), Finishing(e, t) PROVE CopyInv'
    <2>1. ASSUME NEW i \in answering[e], SendResponse(e, t, i) PROVE CopyInv'
      BY <2>1, AllocateCopies DEF SendResponse
    <2> QED
      BY <1>3, <2>1, EnbufferCopies, PostDraftCopies DEF Finishing
  <1>4. ASSUME NEW e \in Endpoint, Looping(e) PROVE CopyInv'
    BY <1>4, StartLoopCopies, FlushCopies, RemoteStartedCopies, TakingCopies DEF Looping
  <1>5. CASE UNCHANGED vars
    BY <1>5 DEF vars, endVars, queueVars, linkVars, appVars, CopyInv, CopiesBounded, Spent, Owed, Flushes,
                Copies, HeldIds, BufferedOnce, ClientFlushes, InFlight
  <1>6. CASE Next
    BY <1>1, <1>2, <1>3, <1>4, <1>6, NextSplit, LinkCopies
  <1> QED
    BY <1>5, <1>6

LEMMA CopyInvInit == Init => CopyInv
  <1> SUFFICES ASSUME Init PROVE CopyInv
    OBVIOUS
  <1>1. \A e \in Endpoint : /\ buffer[e] = <<>> /\ handled[e] = <<>> /\ outgoing[e] = <<>> /\ incoming[e] = <<>>
    BY DEF Init
  <1>2. \A e \in Endpoint : HeldIds[e] = {}
    BY DEF Init, Idle, HeldIds
  <1>3. reconnects = 0 /\ resync = "none"
    BY DEF Init
  <1>4. Elements(<<>>) = {}
    BY DEF Elements
  <1>5. \A e \in Endpoint : Owed[e] = 0
    BY <1>1, <1>3, HowManyNone, Peers DEF Owed, Flushes
  <1>6. \A e \in Endpoint : Spent[e] = 0
    BY <1>3, <1>5 DEF Spent
  <1>7. \A e \in Endpoint : \A id \in Nat : Copies[e][id] = 0
    BY <1>1, <1>2, HowManyNone, Peers DEF Copies
  <1>8. CopiesBounded
    BY <1>6, <1>7 DEF CopiesBounded
  <1>9. BufferedOnce
    BY <1>1 DEF BufferedOnce
  <1>10. ClientFlushes
    BY <1>1, <1>4, Peers DEF ClientFlushes, InFlight
  <1> QED
    BY <1>8, <1>9, <1>10 DEF CopyInv

LEMMA CopyInvariance == Spec => []CopyInv
  <1>1. IInv /\ IInv' => TypeOK'
    BY DEF IInv
  <1> QED
    BY <1>1, CopyInvInit, CopyInvStep, AnswerInvariance, Invariance, PTL DEF Spec

LEMMA HandledCopies ==
    ASSUME IInv, AnswerInv, CopyInv, NEW e \in Endpoint, NEW id \in Nat
    PROVE  /\ IsFiniteSet({i \in 1..Len(handled[e]) : handled[e][i].id = id})
           /\ Cardinality({i \in 1..Len(handled[e]) : handled[e][i].id = id}) <= reconnects + 1
  <1>1. handled[e] \in Seq(Envelope) /\ handled[e] \in Seq(sent[Peer(e)])
    BY DEF IInv, TypeOK, OnlySent
  <1>2. \A i \in 1..Len(handled[e]) : handled[e][i] \in Envelope /\ handled[e][i].kind \in Applications
    BY <1>1, Peers DEF AnswerInv, Numbering
  <1>3. {i \in 1..Len(handled[e]) : handled[e][i].id = id}
            = {i \in 1..Len(handled[e]) : handled[e][i] \in CopiesOf(id)}
    BY <1>2 DEF CopiesOf
  <1>4. HowMany(handled[e], CopiesOf(id)) <= reconnects + 1
    <2> DEFINE f == Peer(e)
    <2>1. f \in Endpoint /\ Peer(f) = e
      BY Peers
    <2> HIDE DEF f
    <2>2. Copies[f][id] <= 1 + Spent[f]
      BY <2>1 DEF CopyInv, CopiesBounded
    <2>3. Copies[f][id] = HowMany(handled[e], CopiesOf(id)) + HowMany(incoming[e], CopiesOf(id))
                          + HowMany(outgoing[f], CopiesOf(id)) + (IF id \in HeldIds[f] THEN 1 ELSE 0)
      BY <2>1 DEF Copies
    <2>4. /\ HowMany(handled[e], CopiesOf(id)) \in Nat /\ HowMany(incoming[e], CopiesOf(id)) \in Nat
          /\ HowMany(outgoing[f], CopiesOf(id)) \in Nat
      BY <2>1, CopyTypes DEF IInv
    <2>5. Owed[f] \in Nat /\ reconnects \in Nat
      BY <2>1, CopyTypes DEF IInv, TypeOK
    <2>6. Spent[f] = reconnects - Owed[f]
      BY <2>1 DEF Spent
    <2> QED
      BY <2>2, <2>3, <2>4, <2>5, <2>6
  <1> QED
    BY <1>1, <1>3, <1>4, HowManyFinite DEF HowMany

(* A reconnect repeats an envelope at most once, whatever is lost and when: *)
(* the flush request and resync between them post the buffer again once at  *)
(* each end (FlushBufferedMessages, resync).                                *)
THEOREM ReconnectRepeatsOnce == Spec => []RepeatedOncePerReconnect
  <1>1. IInv /\ AnswerInv /\ CopyInv => RepeatedOncePerReconnect
    <2> SUFFICES ASSUME IInv, AnswerInv, CopyInv, NEW e \in Endpoint, NEW m \in Elements(handled[e])
                 PROVE  Cardinality({i \in 1..Len(handled[e]) : handled[e][i].id = m.id}) <= reconnects + 1
      BY DEF RepeatedOncePerReconnect
    <2>1. m.id \in Nat
      <3>1. handled[e] \in Seq(Envelope)
        BY DEF IInv, TypeOK
      <3>2. m \in Envelope
        BY <3>1, ElementsFacts
      <3> QED
        BY <3>2 DEF Envelope
    <2> QED
      BY <2>1, HandledCopies
  <1> QED
    BY <1>1, CopyInvariance, AnswerInvariance, Invariance, PTL

(* On its first connection the channel repeats nothing at all, however many *)
(* threads send.                                                            *)
THEOREM FirstConnectionRepeatsNothing == Spec => [](reconnects = 0 => AtMostOnce)
  <1>1. IInv /\ AnswerInv /\ CopyInv => (reconnects = 0 => AtMostOnce)
    <2> SUFFICES ASSUME IInv, AnswerInv, CopyInv, reconnects = 0, NEW e \in Endpoint,
                        NEW i \in 1..Len(handled[e]), NEW j \in 1..Len(handled[e]), i # j,
                        handled[e][i].id = handled[e][j].id
                 PROVE  FALSE
      BY DEF AtMostOnce
    <2> DEFINE id == handled[e][i].id
               A == {k \in 1..Len(handled[e]) : handled[e][k].id = id}
    <2>1. id \in Nat
      <3>1. handled[e][i] \in Envelope
        BY DEF IInv, TypeOK
      <3> QED
        BY <3>1 DEF Envelope
    <2>2. i \in A /\ j \in A
      OBVIOUS
    <2> HIDE DEF id
    <2>3. IsFiniteSet(A) /\ Cardinality(A) <= 1
      BY <2>1, HandledCopies
    <2> HIDE DEF A
    <2>4. Cardinality({i, j}) = 2 /\ {i, j} \in SUBSET A
      <3>1. IsFiniteSet({i}) /\ Cardinality({i}) = 1 /\ j \notin {i} /\ {i, j} = {i} \cup {j}
        BY FS_Singleton
      <3>2. Cardinality({i} \cup {j}) = Cardinality({i}) + 1
        <4> DEFINE I == {i}
        <4>1. IsFiniteSet(I) /\ j \notin I
          BY <3>1
        <4> HIDE DEF I
        <4>2. Cardinality(I \cup {j}) = Cardinality(I) + 1
          BY <4>1, FS_AddElement
        <4> QED
          BY <4>2 DEF I
      <3>3. Cardinality({i, j}) = Cardinality({i} \cup {j})
        BY <3>1
      <3>4. {i, j} \in SUBSET A
        BY <2>2
      <3>5. Cardinality({i, j}) = 2
        BY <3>1, <3>2, <3>3
      <3> QED
        BY <3>4, <3>5
    <2>5. Cardinality({i, j}) <= Cardinality(A) /\ Cardinality(A) \in Nat
      BY <2>3, <2>4, FS_Subset, FS_CardinalityType
    <2> QED
      BY <2>3, <2>4, <2>5
  <1> QED
    BY <1>1, CopyInvariance, AnswerInvariance, Invariance, PTL
-----------------------------------------------------------------------------
(* Nothing is lost, over one lost connection, as long as each end sends     *)
(* from one thread.  NoLoss is far from inductive: an envelope leaves the   *)
(* buffer when it is acknowledged, and an acknowledgement is an id, so all  *)
(* depends on which envelopes the peer has taken when it says that it has   *)
(* taken that one.  On a first connection everything arrives in the order   *)
(* of the ids.  After a reconnect it does not: what the flush request and   *)
(* resync post again comes after later envelopes.  The invariant says until *)
(* when the acknowledgements that reach an end can be relied on, and that   *)
(* it has posted its whole buffer again by then: the daemon, when it takes  *)
(* the flush request; the client, when it takes the answer to it.           *)

OneThread == \A e \in Endpoint : Background[e] = {}

(* Nothing has been lost yet.                                               *)
First == reconnects = 0 /\ up

(* What e has posted, in the order in which its peer is to take it.         *)
Way == [e \in Endpoint |-> incoming[Peer(e)] \o outgoing[e]]

Flushing == \E m \in InFlight["client"] : m.kind = "FlushBufferedMessages"

(* The daemon has posted its buffer again; the client has.                  *)
Flushed == reconnects = 1 /\ resync # "swapped" /\ ~Flushing

Resent == reconnects = 1 /\ resync = "none"

(* Every id from Top[e] on has yet to enter e's buffer.                     *)
Top == [e \in Endpoint |->
    IF draft[e]["main"].stage = "allocated" THEN nextId[e] - 1 ELSE nextId[e]]

Reached == [e \in Endpoint |-> HandledIds(Peer(e))]

(* The peer's application has nothing from e yet.  Until then max_received  *)
(* is 0 without envelope 0 having been taken, and the peer acknowledges it. *)
Unheard == [e \in Endpoint |-> handled[Peer(e)] = <<>>]

(* That the peer has taken n means that it has taken all up to n.           *)
Settled(e, n) ==
    /\ n < Top[e] \/ n <= 0
    /\ \A x \in sent[e] : x.id <= n => x.id \in Reached[e] \/ (x.id = 0 /\ Unheard[e])

(* Envelope id is among the first i on e's way.                             *)
Comes(e, i, id) == \E j \in 1..i : Way[e][j].kind \in Applications /\ Way[e][j].id = id

(* All up to the i-th envelope on e's way is taken no later than it.        *)
Arrives(e, i) ==
    Way[e][i].kind \in Applications \cup {"Ack"} =>
        /\ Way[e][i].id < Top[e]
        /\ \A x \in sent[e] : x.id <= Way[e][i].id => x.id \in Reached[e] \/ Comes(e, i, x.id)

(* How far the order of the first connection reaches: in the daemon, to the *)
(* flush request; in the client, to what it had read when it was cut off.   *)
InReach(e, i) ==
    IF e = "client"
    THEN ~Flushed /\ \A j \in 1..i : Way[e][j].kind # "FlushBufferedMessages"
    ELSE reconnects = 0 /\ (up \/ i <= Len(incoming["client"]))

OrderInv == \A e \in Endpoint : \A i \in 1..Len(Way[e]) : InReach(e, i) => Arrives(e, i)

(* Everything e has sent is on its way, and is not lost any more.           *)
Complete(e) == First \/ (IF e = "server" THEN Flushed ELSE Resent)

Covers(e, x) ==
    \/ x.id \in Reached[e]
    \/ Comes(e, Len(Way[e]), x.id)
    \/ draft[e]["main"].stage = "buffered" /\ draft[e]["main"].msg.id = x.id

CoveredInv == \A e \in Endpoint : Complete(e) => \A x \in sent[e] : Covers(e, x)

(* Until e has posted its buffer again, it has all that may be lost.        *)
Keeping(e) == IF e = "server" THEN ~Flushed ELSE ~Resent

Keeps(e, x) ==
    \/ x.id \in Reached[e]
    \/ x.id \in Ids(Elements(buffer[e]))
    \/ x.id = 0 /\ Unheard[e]

KeptInv == \A e \in Endpoint : Keeping(e) => \A x \in sent[e] : Keeps(e, x)

(* While e takes in order, what it acknowledges is settled.                 *)
Early(e) == IF e = "server" THEN ~Flushed ELSE reconnects = 0 \/ resync = "swapped"

EarlyInv ==
    \A e \in Endpoint : Early(e) =>
        /\ Settled(Peer(e), maxReceived[e])
        /\ \A m \in sent[e] : Settled(Peer(e), m.ack)

(* The envelope at which e posts its buffer again.                          *)
Barrier(e, m) ==
    IF e = "server"
    THEN m.kind = "FlushBufferedMessages"
    ELSE resync = "waiting" /\ m.kind \in {"Ack", "Response"} /\ m.resp = flushId

(* e has not come to its barrier.                                           *)
Before(e) == IF e = "server" THEN ~Flushed ELSE reconnects = 0 \/ resync \in {"swapped", "waiting"}

AckInv ==
    \A e \in Endpoint : Before(e) => \A i \in 1..Len(Way[Peer(e)]) :
        (\A j \in 1..(i - 1) : ~Barrier(e, Way[Peer(e)][j])) => Settled(e, Way[Peer(e)][i].ack)

TopInv ==
    \A e \in Endpoint :
        /\ \A x \in sent[e] : x.id < Top[e]
        /\ draft[e]["main"].stage = "allocated" => draft[e]["main"].msg.id = Top[e]

LinkInv ==
    /\ reconnects \in {0, 1}
    /\ reconnects = 1 => up
    /\ reconnects = 0 => resync = "none"
    /\ First \/ boot = "connected"
    /\ First => serverLoop # "lost"
    /\ ~up => outgoing["client"] = <<>>
    /\ boot = "connected" => ~Unheard["client"] /\ ~Unheard["server"]
    /\ resync = "swapped" => outgoing["client"] = <<>> /\ draft["client"]["main"] = Idle
    /\ reconnects = 1 /\ resync # "swapped" =>
           serverLoop = "attached" \/ \E m \in Elements(outgoing["client"]) : m.kind = "FlushBufferedMessages"

FlushInv ==
    /\ \A m \in InFlight["client"] :
           m.kind = "FlushBufferedMessages" => resync = "waiting" /\ m.id = flushId
    /\ resync = "waiting" => flushId > 0 /\ (Flushing <=> \A m \in InFlight["server"] : ~Barrier("client", m))

FlowInv == /\ TopInv /\ LinkInv /\ FlushInv /\ OrderInv
           /\ CoveredInv /\ KeptInv /\ EarlyInv /\ AckInv

WayOK ==
    \A e \in Endpoint :
        /\ Way[e] \in Seq(Carried(e)) /\ Way[e] \in Seq(Envelope)
        /\ Way[e] = incoming[Peer(e)] \o outgoing[e]
        /\ Len(Way[e]) = Len(incoming[Peer(e)]) + Len(outgoing[e])
        /\ Elements(Way[e]) = InFlight[e]

LEMMA WayTypes == IInv => WayOK
  <1> SUFFICES ASSUME IInv, NEW e \in Endpoint
               PROVE  /\ Way[e] \in Seq(Carried(e)) /\ Way[e] \in Seq(Envelope)
                      /\ Way[e] = incoming[Peer(e)] \o outgoing[e]
                      /\ Len(Way[e]) = Len(incoming[Peer(e)]) + Len(outgoing[e])
                      /\ Elements(Way[e]) = InFlight[e]
    BY DEF WayOK
  <1> DEFINE q == incoming[Peer(e)]
             r == outgoing[e]
  <1>1. q \in Seq(Envelope) /\ r \in Seq(Envelope) /\ q \in Seq(Carried(e)) /\ r \in Seq(Carried(e))
    <2>1. Peer(e) \in Endpoint /\ Peer(Peer(e)) = e
      BY Peers
    <2>2. q \in Seq(Envelope) /\ r \in Seq(Envelope)
      BY <2>1 DEF IInv, TypeOK
    <2>3. q \in Seq(Carried(Peer(Peer(e)))) /\ r \in Seq(Carried(e))
      BY <2>1 DEF IInv, OnlySent
    <2> QED
      BY <2>1, <2>2, <2>3
  <1>2. Way[e] = q \o r
    BY DEF Way
  <1>3. InFlight[e] = Elements(r) \cup Elements(q)
    BY DEF InFlight
  <1> HIDE DEF q, r
  <1>4. q \o r \in Seq(Carried(e)) /\ q \o r \in Seq(Envelope) /\ Len(q \o r) = Len(q) + Len(r)
    BY <1>1
  <1>5. Elements(q \o r) = Elements(q) \cup Elements(r)
    BY <1>1, ElementsConcat
  <1> QED
    BY <1>2, <1>3, <1>4, <1>5 DEF q, r

LEMMA WayTypesNext == IInv' => WayOK'
  BY WayTypes, PTL

(* A position on the way holds what is in flight.                           *)
LEMMA WayElements ==
    ASSUME NEW S, NEW q \in Seq(S)
    PROVE  /\ Len(q) \in Nat
           /\ \A i \in 1..Len(q) : q[i] \in S /\ q[i] \in Elements(q)
           /\ \A m \in Elements(q) : \E i \in 1..Len(q) : q[i] = m
  BY DEF Elements

-----------------------------------------------------------------------------
(* What a step does to a way.                                               *)

LEMMA TopTypes ==
    ASSUME TypeOK
    PROVE  \A e \in Endpoint : Top[e] \in Int /\ nextId[e] \in Nat /\ Top[e] <= nextId[e]
  BY DEF TypeOK, Top

(* The first n positions of e's way were the ones after the first d, and    *)
(* these have been taken.                                                   *)
Follows(e, d, n) ==
    /\ n + d <= Len(Way[e]) /\ n <= Len(Way'[e])
    /\ \A i \in 1..n : Way'[e][i] = Way[e][i + d]
    /\ \A i \in 1..d : Way[e][i].kind \in Applications => Way[e][i].id \in Reached'[e]

(* What a step may not do to what e has sent and its peer has taken.        *)
Forward(e) ==
    /\ Top[e] <= Top'[e]
    /\ Reached[e] \subseteq Reached'[e]
    /\ \A x \in sent'[e] : x \in sent[e] \/ (x.id >= Top[e] /\ (x.id = 0 => Unheard'[e]))
    /\ Unheard[e] => Unheard'[e] \/ \A x \in sent[e] : x.id = 0 => x.id \in Reached'[e]

LEMMA SettledStays ==
    ASSUME TypeOK, TypeOK', NEW e \in Endpoint, Forward(e), NEW n \in Int, Settled(e, n)
    PROVE  Settled(e, n)'
  <1>1. Top[e] \in Int /\ Top'[e] \in Int
    <2>1. nextId[e] \in Nat /\ nextId'[e] \in Nat
      BY DEF TypeOK
    <2> QED
      BY <2>1 DEF Top
  <1>2. n < Top'[e] \/ n <= 0
    BY <1>1 DEF Forward, Settled
  <1>3. ASSUME NEW x \in sent'[e], x.id <= n PROVE x.id \in Reached'[e] \/ (x.id = 0 /\ Unheard'[e])
    <2>1. x.id \in Nat
      <3>1. sent'[e] \in SUBSET Envelope
        BY DEF TypeOK
      <3> QED
        BY <3>1, EnvelopeFacts
    <2>2. CASE x \in sent[e]
      BY <1>3, <2>2 DEF Forward, Settled
    <2>3. CASE x.id >= Top[e] /\ (x.id = 0 => Unheard'[e])
      BY <1>1, <1>3, <2>1, <2>3 DEF Settled
    <2> QED
      BY <2>2, <2>3 DEF Forward
  <1> QED
    BY <1>2, <1>3 DEF Settled

LEMMA ArrivesStays ==
    ASSUME IInv, IInv', NEW e \in Endpoint, Forward(e), NEW d \in Nat, NEW n \in Nat, Follows(e, d, n),
           NEW i \in 1..n, Arrives(e, i + d)
    PROVE  Arrives(e, i)'
  <1>1. Top[e] \in Int /\ Top'[e] \in Int /\ Top[e] <= Top'[e]
    <2>1. Top[e] \in Int
      BY TopTypes DEF IInv
    <2>2. nextId'[e] \in Nat
      BY DEF IInv, TypeOK
    <2>3. Top'[e] \in Int
      BY <2>2 DEF Top
    <2> QED
      BY <2>1, <2>3 DEF Forward
  <1>2. Way'[e][i] = Way[e][i + d]
    BY DEF Follows
  <1> DEFINE m == Way[e][i + d]
  <1>3. m.id \in Nat
    <2>1. Way[e] \in Seq(Envelope)
      BY WayTypes DEF WayOK
    <2>3. i + d \in 1..Len(Way[e])
      BY <2>1 DEF Follows
    <2>2. m \in Envelope
      BY <2>1, <2>3
    <2> QED
      BY <2>2 DEF Envelope
  <1>4. SUFFICES ASSUME m.kind \in Applications \cup {"Ack"}
                 PROVE  /\ m.id < Top'[e]
                        /\ \A x \in sent'[e] : x.id <= m.id => x.id \in Reached'[e] \/ Comes(e, i, x.id)'
    BY <1>2 DEF Arrives
  <1>5. /\ m.id < Top[e]
        /\ \A x \in sent[e] : x.id <= m.id => x.id \in Reached[e] \/ Comes(e, i + d, x.id)
    BY <1>4 DEF Arrives
  <1> HIDE DEF m
  <1>6. ASSUME NEW x \in sent'[e], x.id <= m.id PROVE x.id \in Reached'[e] \/ Comes(e, i, x.id)'
    <2>1. x.id \in Nat
      <3>1. sent'[e] \in SUBSET Envelope
        BY DEF IInv, TypeOK
      <3>2. x \in Envelope
        BY <3>1
      <3>3. TypeOK
        BY DEF IInv
      <3> QED
        BY <3>2, <3>3, EnvelopeFacts
    <2>2. x \in sent[e]
      BY <1>1, <1>3, <1>5, <1>6, <2>1 DEF Forward
    <2>3. CASE x.id \in Reached[e]
      BY <2>3 DEF Forward
    <2>4. CASE Comes(e, i + d, x.id)
      <3>1. PICK j \in 1..(i + d) : Way[e][j].kind \in Applications /\ Way[e][j].id = x.id
        BY <2>4 DEF Comes
      <3>2. CASE j <= d
        <4>1. j \in 1..d
          BY <3>1, <3>2
        <4>2. x.id \in Reached'[e]
          BY <3>1, <4>1 DEF Follows
        <4> QED
          BY <4>2
      <3>3. CASE j > d
        <4>1. j - d \in 1..i /\ j - d \in 1..n /\ (j - d) + d = j
          BY <3>3
        <4>2. Way'[e][j - d] = Way[e][j]
          BY <4>1 DEF Follows
        <4> QED
          BY <3>1, <4>1, <4>2 DEF Comes
      <3> QED
        BY <3>2, <3>3
    <2> QED
      BY <1>5, <1>6, <2>2, <2>3, <2>4
  <1> QED
    BY <1>1, <1>3, <1>5, <1>6

LEMMA Associative ==
    ASSUME NEW S, NEW q \in Seq(S), NEW r \in Seq(S), NEW s \in Seq(S)
    PROVE  (q \o r) \o s = q \o (r \o s)
  BY ConcatAssociative

(* How the three kinds of steps move the ways.                              *)
LEMMA WayPost ==
    ASSUME IInv, NEW e \in Endpoint, NEW msgs \in Seq(Envelope), Post(e, msgs),
           incoming' = incoming
    PROVE  /\ Way'[Peer(e)] = Way[Peer(e)]
           /\ IF e = "client" /\ ~up THEN Way'[e] = Way[e] ELSE Way'[e] = Way[e] \o msgs
  <1>1. Peer(e) # e /\ Peer(e) \in Endpoint
    BY Peers
  <1>2. outgoing'[Peer(e)] = outgoing[Peer(e)]
    BY <1>1 DEF Post, IInv, TypeOK
  <1>3. IF e = "client" /\ ~up THEN outgoing' = outgoing ELSE outgoing'[e] = outgoing[e] \o msgs
    BY DEF Post, IInv, TypeOK
  <1>4. (incoming[Peer(e)] \o outgoing[e]) \o msgs = incoming[Peer(e)] \o (outgoing[e] \o msgs)
    <2> DEFINE q == incoming[Peer(e)]
               r == outgoing[e]
    <2>1. q \in Seq(Envelope) /\ r \in Seq(Envelope)
      BY <1>1 DEF IInv, TypeOK
    <2> HIDE DEF q, r
    <2>2. (q \o r) \o msgs = q \o (r \o msgs)
      BY <2>1, Associative
    <2> QED
      BY <2>2 DEF q, r
  <1> QED
    BY <1>1, <1>2, <1>3, <1>4 DEF Way

LEMMA TailConcat ==
    ASSUME NEW S, NEW q \in Seq(S), NEW r \in Seq(S), q # <<>>
    PROVE  /\ q \o r # <<>> /\ Head(q \o r) = Head(q) /\ (q \o r)[1] = Head(q) /\ Len(q \o r) >= 1
           /\ Tail(q \o r) = Tail(q) \o r
  OBVIOUS

LEMMA WayTake ==
    ASSUME IInv, NEW e \in Endpoint, Taking(e), outgoing'[Peer(e)] = outgoing[Peer(e)]
    PROVE  /\ Way[Peer(e)] # <<>> /\ Len(Way[Peer(e)]) >= 1
           /\ Way[Peer(e)][1] = Head(incoming[e])
           /\ Way'[Peer(e)] = Tail(Way[Peer(e)])
           /\ incoming'[Peer(e)] = incoming[Peer(e)]
  <1>1. Peer(e) # e /\ Peer(e) \in Endpoint /\ Peer(Peer(e)) = e
    BY Peers
  <1>2. incoming'[e] = Tail(incoming[e]) /\ incoming[e] # <<>> /\ incoming'[Peer(e)] = incoming[Peer(e)]
    BY <1>1 DEF Taking, IInv, TypeOK
  <1>3. incoming[e] \in Seq(Envelope) /\ outgoing[Peer(e)] \in Seq(Envelope)
    BY <1>1 DEF IInv, TypeOK
  <1>4. Way[Peer(e)] = incoming[e] \o outgoing[Peer(e)] /\ Way'[Peer(e)] = incoming'[e] \o outgoing'[Peer(e)]
    BY <1>1 DEF Way
  <1> DEFINE q == incoming[e]
             r == outgoing[Peer(e)]
  <1>5. /\ q \o r # <<>> /\ (q \o r)[1] = Head(q) /\ Len(q \o r) >= 1
        /\ Tail(q \o r) = Tail(q) \o r
    BY <1>2, <1>3, TailConcat
  <1> QED
    BY <1>2, <1>4, <1>5

(* The loop of e takes an envelope and posts msgs.                          *)
LEMMA WayTakePost ==
    ASSUME IInv, NEW e \in Endpoint, Taking(e), NEW msgs \in Seq(Envelope), Post(e, msgs)
    PROVE  /\ Way[Peer(e)] # <<>> /\ Len(Way[Peer(e)]) >= 1
           /\ Way[Peer(e)][1] = Head(incoming[e])
           /\ Way'[Peer(e)] = Tail(Way[Peer(e)])
           /\ incoming'[Peer(e)] = incoming[Peer(e)]
           /\ IF e = "client" /\ ~up THEN Way'[e] = Way[e] ELSE Way'[e] = Way[e] \o msgs
  <1>1. Peer(e) # e /\ Peer(e) \in Endpoint /\ Peer(Peer(e)) = e
    BY Peers
  <1>2. outgoing'[Peer(e)] = outgoing[Peer(e)]
    BY <1>1 DEF Post, IInv, TypeOK
  <1>3. IF e = "client" /\ ~up THEN outgoing' = outgoing ELSE outgoing'[e] = outgoing[e] \o msgs
    BY DEF Post, IInv, TypeOK
  <1>4. incoming'[Peer(e)] = incoming[Peer(e)]
    BY <1>2, WayTake
  <1>5. (incoming[Peer(e)] \o outgoing[e]) \o msgs = incoming[Peer(e)] \o (outgoing[e] \o msgs)
    <2> DEFINE q == incoming[Peer(e)]
               r == outgoing[e]
    <2>1. q \in Seq(Envelope) /\ r \in Seq(Envelope)
      BY <1>1 DEF IInv, TypeOK
    <2> HIDE DEF q, r
    <2>2. (q \o r) \o msgs = q \o (r \o msgs)
      BY <2>1, Associative
    <2> QED
      BY <2>2 DEF q, r
  <1>6. IF e = "client" /\ ~up THEN Way'[e] = Way[e] ELSE Way'[e] = Way[e] \o msgs
    BY <1>3, <1>4, <1>5 DEF Way
  <1> QED
    BY <1>2, <1>6, WayTake

LEMMA WayDeliver ==
    ASSUME IInv, NEW e \in Endpoint, Deliver(e)
    PROVE  Way' = Way
  <1>1. /\ outgoing[e] \in Seq(Envelope) /\ outgoing[e] # <<>>
        /\ incoming[Peer(e)] \in Seq(Envelope)
    BY Peers DEF Deliver, IInv, TypeOK
  <1>2. /\ outgoing'[e] = Tail(outgoing[e])
        /\ incoming'[Peer(e)] = Append(incoming[Peer(e)], Head(outgoing[e]))
        /\ \A f \in Endpoint : f # e => outgoing'[f] = outgoing[f] /\ incoming'[Peer(f)] = incoming[Peer(f)]
    BY Peers DEF IInv, TypeOK, Deliver
  <1>3. Append(incoming[Peer(e)], Head(outgoing[e])) \o Tail(outgoing[e]) = incoming[Peer(e)] \o outgoing[e]
    <2> DEFINE q == incoming[Peer(e)]
               r == outgoing[e]
    <2>1. r \in Seq(Envelope) /\ r # <<>> /\ q \in Seq(Envelope)
      BY <1>1
    <2> HIDE DEF q, r
    <2>2. <<Head(r)>> \in Seq(Envelope) /\ Tail(r) \in Seq(Envelope) /\ r = <<Head(r)>> \o Tail(r)
      BY <2>1
    <2>3. Append(q, Head(r)) = q \o <<Head(r)>>
      BY <2>1
    <2>4. (q \o <<Head(r)>>) \o Tail(r) = q \o (<<Head(r)>> \o Tail(r))
      BY <2>1, <2>2, Associative
    <2>5. Append(q, Head(r)) \o Tail(r) = q \o r
      BY <2>2, <2>3, <2>4
    <2> QED
      BY <2>5 DEF q, r
  <1>4. \A f \in Endpoint : incoming'[Peer(f)] \o outgoing'[f] = incoming[Peer(f)] \o outgoing[f]
    BY <1>2, <1>3
  <1> QED
    BY <1>4 DEF Way

(* What stays in place when msgs are posted, and when the head is taken.    *)
LEMMA PostFollows ==
    ASSUME IInv, IInv', NEW e \in Endpoint, NEW msgs \in Seq(Envelope), Way'[e] = Way[e] \o msgs
    PROVE  /\ Follows(e, 0, Len(Way[e]))
           /\ Len(Way'[e]) = Len(Way[e]) + Len(msgs)
           /\ \A i \in (Len(Way[e]) + 1)..Len(Way'[e]) :
                  /\ i - Len(Way[e]) \in 1..Len(msgs)
                  /\ Way'[e][i] = msgs[i - Len(Way[e])]
  <1>1. Way[e] \in Seq(Envelope)
    BY WayTypes DEF WayOK
  <1>2. /\ Len(Way[e]) \in Nat /\ Len(msgs) \in Nat
        /\ Len(Way'[e]) = Len(Way[e]) + Len(msgs)
        /\ \A i \in 1..(Len(Way[e]) + Len(msgs)) :
               Way'[e][i] = IF i <= Len(Way[e]) THEN Way[e][i] ELSE msgs[i - Len(Way[e])]
    BY <1>1, ConcatProperties
  <1> QED
    BY <1>2 DEF Follows

LEMMA SameFollows ==
    ASSUME IInv, NEW e \in Endpoint, Way'[e] = Way[e]
    PROVE  Follows(e, 0, Len(Way[e])) /\ Len(Way[e]) \in Nat /\ Len(Way'[e]) = Len(Way[e])
  <1>1. Len(Way[e]) \in Nat
    BY WayTypes DEF WayOK
  <1> QED
    BY <1>1 DEF Follows

LEMMA TakeFollows ==
    ASSUME IInv, NEW e \in Endpoint, Way[e] # <<>>, Way'[e] = Tail(Way[e]),
           Way[e][1].kind \in Applications => Way[e][1].id \in Reached'[e]
    PROVE  /\ Follows(e, 1, Len(Way[e]) - 1)
           /\ Len(Way[e]) - 1 \in Nat /\ Len(Way'[e]) = Len(Way[e]) - 1
  <1>1. Way[e] \in Seq(Envelope)
    BY WayTypes DEF WayOK
  <1>2. /\ Len(Way[e]) - 1 \in Nat /\ Len(Way'[e]) = Len(Way[e]) - 1
        /\ \A i \in 1..(Len(Way[e]) - 1) : Way'[e][i] = Way[e][i + 1]
    BY <1>1
  <1> QED
    BY <1>2 DEF Follows

-----------------------------------------------------------------------------
(* The flush request.                                                       *)

LEMMA HowManySmall ==
    ASSUME NEW T, NEW q \in Seq(T), NEW S
    PROVE  /\ HowMany(q, S) = 0 => \A i \in 1..Len(q) : q[i] \notin S
           /\ HowMany(q, S) <= 1 => \A i, j \in 1..Len(q) : q[i] \in S /\ q[j] \in S => i = j
  <1> DEFINE A == {i \in 1..Len(q) : q[i] \in S}
  <1>1. IsFiniteSet(A) /\ Cardinality(A) \in Nat
    BY HowManyFinite DEF HowMany
  <1>2. ASSUME HowMany(q, S) = 0 PROVE \A i \in 1..Len(q) : q[i] \notin S
    <2>1. Cardinality(A) = 0
      BY <1>2 DEF HowMany
    <2>2. A = {}
      <3> HIDE DEF A
      <3> QED
        BY <1>1, <2>1, FS_EmptySet
    <2> QED
      BY <2>2
  <1>3. ASSUME HowMany(q, S) <= 1, NEW i \in 1..Len(q), NEW j \in 1..Len(q), q[i] \in S, q[j] \in S, i # j
        PROVE  FALSE
    <2>1. i \in A /\ j \in A
      BY <1>3
    <2>2. Cardinality(A) <= 1
      BY <1>3 DEF HowMany
    <2> HIDE DEF A
    <2> DEFINE I == {i}
    <2>3. IsFiniteSet(I) /\ Cardinality(I) = 1 /\ j \notin I
      BY <1>3, FS_Singleton
    <2>4. I \cup {j} \in SUBSET A
      BY <2>1
    <2> HIDE DEF I
    <2>5. Cardinality(I \cup {j}) = Cardinality(I) + 1
      BY <2>3, FS_AddElement
    <2>6. Cardinality(I \cup {j}) <= Cardinality(A)
      BY <1>1, <2>4, FS_Subset
    <2> QED
      BY <1>1, <2>2, <2>3, <2>5, <2>6
  <1> QED
    BY <1>2, <1>3

FlushSeen == \E i \in 1..Len(Way["client"]) : Way["client"][i].kind = "FlushBufferedMessages"

LEMMA FlushingOnWay == IInv => (Flushing <=> FlushSeen)
  <1> SUFFICES ASSUME IInv PROVE Flushing <=> FlushSeen
    OBVIOUS
  <1>1. Way["client"] \in Seq(Envelope) /\ Elements(Way["client"]) = InFlight["client"]
    BY WayTypes, Peers DEF WayOK
  <1> QED
    BY <1>1, WayElements DEF Flushing, FlushSeen

LEMMA FlushingOnWayNext == IInv' => (Flushing' <=> FlushSeen')
  BY FlushingOnWay, PTL

(* A reconnect makes one flush request, which is taken once.                *)
LEMMA OneFlush ==
    ASSUME IInv, CopyInv, reconnects \in {0, 1}
    PROVE  /\ reconnects = 0 \/ resync = "swapped" => ~Flushing
           /\ \A i, j \in 1..Len(Way["client"]) :
                  /\ Way["client"][i].kind = "FlushBufferedMessages"
                  /\ Way["client"][j].kind = "FlushBufferedMessages"
                  => i = j
  <1> DEFINE q == incoming["server"]
             r == outgoing["client"]
  <1>1. q \in Seq(Envelope) /\ r \in Seq(Envelope) /\ Peer("client") = "server"
    BY Peers DEF IInv, TypeOK, Peer
  <1>2. Way["client"] = q \o r
    BY <1>1, Peers DEF Way
  <1>3. Flushes = HowMany(r, FlushRequests) + HowMany(q, FlushRequests) + (IF resync = "swapped" THEN 1 ELSE 0)
    BY DEF Flushes
  <1>4. Flushes <= reconnects
    <2>1. Spent["server"] >= 0 /\ Spent["server"] = reconnects - Owed["server"] /\ Owed["server"] = Flushes
      BY Peers DEF CopyInv, CopiesBounded, Spent, Owed
    <2>2. Flushes \in Nat
      BY <2>1, Peers, CopyTypes DEF IInv
    <2> QED
      BY <2>1, <2>2
  <1> HIDE DEF q, r
  <1>5. HowMany(q \o r, FlushRequests) = HowMany(q, FlushRequests) + HowMany(r, FlushRequests)
    BY <1>1, HowManyConcat
  <1>6. HowMany(q, FlushRequests) \in Nat /\ HowMany(r, FlushRequests) \in Nat
    BY <1>1, HowManyFinite
  <1>7. /\ HowMany(q \o r, FlushRequests) <= 1
        /\ reconnects = 0 \/ resync = "swapped" => HowMany(q \o r, FlushRequests) = 0
    BY <1>3, <1>4, <1>5, <1>6
  <1>8. q \o r \in Seq(Envelope)
    BY <1>1
  <1> DEFINE s == q \o r
  <1> HIDE DEF s
  <1>9. /\ HowMany(s, FlushRequests) = 0 => \A i \in 1..Len(s) : s[i] \notin FlushRequests
        /\ HowMany(s, FlushRequests) <= 1 =>
               \A i, j \in 1..Len(s) : s[i] \in FlushRequests /\ s[j] \in FlushRequests => i = j
    BY <1>8, HowManySmall DEF s
  <1>10. \A i \in 1..Len(s) : s[i] \in FlushRequests <=> s[i].kind = "FlushBufferedMessages"
    BY <1>8 DEF FlushRequests, s
  <1>11. Way["client"] = s
    BY <1>2 DEF s
  <1>12. ASSUME reconnects = 0 \/ resync = "swapped" PROVE ~Flushing
    <2>1. \A i \in 1..Len(s) : s[i].kind # "FlushBufferedMessages"
      BY <1>7, <1>9, <1>10, <1>12 DEF s
    <2> QED
      BY <1>11, <2>1, FlushingOnWay DEF FlushSeen
  <1> QED
    BY <1>7, <1>9, <1>10, <1>11, <1>12 DEF s

-----------------------------------------------------------------------------
(* Each part of the invariant, over any step.                               *)

LEMMA OrderStep ==
    ASSUME IInv, IInv', OrderInv, NEW e \in Endpoint, Forward(e),
           NEW d \in Nat, NEW n \in Nat, Follows(e, d, n),
           \A i \in 1..n : InReach(e, i)' => InReach(e, i + d),
           \A i \in (n + 1)..Len(Way'[e]) : InReach(e, i)' => Arrives(e, i)'
    PROVE  \A i \in 1..Len(Way'[e]) : InReach(e, i)' => Arrives(e, i)'
  <1> SUFFICES ASSUME NEW i \in 1..Len(Way'[e]), InReach(e, i)'
               PROVE  Arrives(e, i)'
    OBVIOUS
  <1>1. CASE i <= n
    <2>1. i \in 1..n /\ i + d \in 1..Len(Way[e])
      BY <1>1 DEF Follows
    <2>2. Arrives(e, i + d)
      BY <2>1 DEF OrderInv
    <2> QED
      BY <2>1, <2>2, ArrivesStays
  <1>2. CASE i > n
    <2>1. i \in (n + 1)..Len(Way'[e])
      BY <1>2
    <2> QED
      BY <2>1
  <1> QED
    BY <1>1, <1>2

LEMMA CoversStays ==
    ASSUME NEW e \in Endpoint, Forward(e), NEW d \in Nat, NEW n \in Nat, Follows(e, d, n),
           n + d = Len(Way[e]), Len(Way'[e]) \in Nat, NEW x, Covers(e, x),
           draft[e]["main"].stage = "buffered" /\ draft[e]["main"].msg.id = x.id => Covers(e, x)'
    PROVE  Covers(e, x)'
  <1>1. CASE x.id \in Reached[e]
    BY <1>1 DEF Forward, Covers
  <1>2. CASE Comes(e, Len(Way[e]), x.id)
    <2>1. PICK j \in 1..(n + d) : Way[e][j].kind \in Applications /\ Way[e][j].id = x.id
      BY <1>2 DEF Comes
    <2>2. CASE j <= d
      BY <2>1, <2>2 DEF Follows, Covers
    <2>3. CASE j > d
      <3>1. j - d \in 1..n /\ (j - d) + d = j /\ n <= Len(Way'[e])
        BY <2>3 DEF Follows
      <3>2. Way'[e][j - d] = Way[e][j]
        BY <3>1 DEF Follows
      <3>3. j - d \in 1..Len(Way'[e])
        BY <3>1
      <3> QED
        BY <2>1, <3>2, <3>3 DEF Comes, Covers
    <2> QED
      BY <2>2, <2>3
  <1> QED
    BY <1>1, <1>2 DEF Covers

LEMMA KeepsStays ==
    ASSUME NEW e \in Endpoint, Forward(e), NEW x \in sent[e], Keeps(e, x),
           x.id \in Ids(Elements(buffer[e])) => Keeps(e, x)'
    PROVE  Keeps(e, x)'
  BY DEF Forward, Keeps

(* What an acknowledgement that is settled removes from the buffer has been *)
(* taken.                                                                   *)
LEMMA PopKeeps ==
    ASSUME IInv, NEW e \in Endpoint, Forward(e), NEW m, PopAcked(e, m), Settled(e, m.ack),
           NEW x \in sent[e], x.id \in Ids(Elements(buffer[e]))
    PROVE  Keeps(e, x)'
  <1>1. PICK k \in AckedPrefix(buffer[e], m.ack) :
            buffer' = [buffer EXCEPT ![e] = DropPrefix(@, k)]
    BY DEF PopAcked
  <1>2. buffer[e] \in Seq(Envelope) /\ k \in 0..Len(buffer[e])
    BY DEF IInv, TypeOK, AckedPrefix
  <1>3. /\ Len(DropPrefix(buffer[e], k)) = Len(buffer[e]) - k
        /\ \A i \in 1..(Len(buffer[e]) - k) : DropPrefix(buffer[e], k)[i] = buffer[e][k + i]
    BY SMTT(30), <1>2, SubSeqProperties DEF DropPrefix
  <1>4. buffer'[e] = DropPrefix(buffer[e], k)
    BY <1>1 DEF IInv, TypeOK
  <1>5. PICK i \in 1..Len(buffer[e]) : buffer[e][i].id = x.id
    BY DEF Ids, Elements
  <1>6. CASE i <= k
    <2>1. x.id <= m.ack
      BY <1>2, <1>5, <1>6 DEF AckedPrefix
    <2>2. x.id \in Reached[e] \/ (x.id = 0 /\ Unheard[e])
      BY <2>1 DEF Settled
    <2> QED
      BY <2>2 DEF Forward, Keeps
  <1>7. CASE i > k
    <2>1. i - k \in 1..(Len(buffer[e]) - k) /\ k + (i - k) = i
      BY <1>2, <1>7
    <2>2. buffer'[e][i - k] = buffer[e][i] /\ i - k \in 1..Len(buffer'[e])
      BY <1>3, <1>4, <2>1
    <2>3. buffer[e][i] \in Elements(buffer'[e])
      BY <2>2 DEF Elements
    <2> QED
      BY <1>5, <2>3 DEF Ids, Keeps
  <1> QED
    BY <1>2, <1>6, <1>7

LEMMA EarlyStays ==
    ASSUME IInv, IInv', EarlyInv, NEW e \in Endpoint, Forward(Peer(e)), Early(e)' => Early(e),
           Early(e)' => maxReceived'[e] = maxReceived[e] \/ Settled(Peer(e), maxReceived[e])',
           \A m \in sent'[e] : m \in sent[e] \/ m.ack = maxReceived'[e]
    PROVE  Early(e)' => /\ Settled(Peer(e), maxReceived[e])'
                        /\ \A m \in sent'[e] : Settled(Peer(e), m.ack)'
  <1> SUFFICES ASSUME Early(e)'
               PROVE  /\ Settled(Peer(e), maxReceived[e])'
                      /\ \A m \in sent'[e] : Settled(Peer(e), m.ack)'
    OBVIOUS
  <1> DEFINE p == Peer(e)
  <1>1. p \in Endpoint
    BY Peers
  <1>2. /\ \A n \in Int : Settled(p, n) => Settled(p, n)'
        /\ maxReceived[e] \in Int /\ \A m \in sent[e] : m.ack \in Int
    <2>1. maxReceived[e] \in Int /\ \A m \in sent[e] : m.ack \in Int
      <3>1. maxReceived[e] \in Nat /\ sent[e] \in SUBSET Envelope
        BY DEF IInv, TypeOK
      <3>2. \A m \in Envelope : m.ack \in Int
        BY DEF Envelope, None
      <3> QED
        BY <3>1, <3>2
    <2>2. TypeOK /\ TypeOK'
      BY DEF IInv
    <2> QED
      BY <1>1, <2>1, <2>2, SettledStays
  <1>3. Settled(p, maxReceived[e]) /\ \A m \in sent[e] : Settled(p, m.ack)
    BY DEF EarlyInv
  <1> HIDE DEF p
  <1>4. Settled(p, maxReceived[e])'
    <2>1. CASE maxReceived'[e] = maxReceived[e]
      <3>1. PICK n \in Int : n = maxReceived[e]
        BY <1>2
      <3>2. Settled(p, n)'
        BY <1>2, <1>3, <3>1
      <3> QED
        BY <2>1, <3>1, <3>2 DEF Settled
    <2>2. CASE Settled(p, maxReceived[e])'
      BY <2>2
    <2> QED
      BY <2>1, <2>2 DEF p
  <1>5. ASSUME NEW m \in sent'[e] PROVE Settled(p, m.ack)'
    <2>1. CASE m \in sent[e]
      BY <1>2, <1>3, <2>1
    <2>2. CASE m.ack = maxReceived'[e]
      BY <1>4, <2>2 DEF Settled
    <2> QED
      BY <2>1, <2>2
  <1> QED
    BY <1>4, <1>5 DEF p

LEMMA AckStays ==
    ASSUME IInv, IInv', AckInv, NEW e \in Endpoint, NEW p \in Endpoint, p = Peer(e), Forward(e),
           NEW d \in Nat, NEW n \in Nat, Follows(p, d, n),
           Before(e)' => Before(e),
           Before(e)' => \A m : Barrier(e, m) => Barrier(e, m)',
           Before(e)' => \A j \in 1..d : ~Barrier(e, Way[p][j]),
           \A i \in (n + 1)..Len(Way'[p]) :
               Before(e)' /\ (\A j \in 1..(i - 1) : ~Barrier(e, Way[p][j])') => Settled(e, Way[p][i].ack)'
    PROVE  Before(e)' => \A i \in 1..Len(Way'[p]) :
               (\A j \in 1..(i - 1) : ~Barrier(e, Way[p][j])') => Settled(e, Way[p][i].ack)'
  <1> SUFFICES ASSUME Before(e)', NEW i \in 1..Len(Way'[p]),
                      \A j \in 1..(i - 1) : ~Barrier(e, Way[p][j])'
               PROVE  Settled(e, Way[p][i].ack)'
    OBVIOUS
  <1>1. CASE i <= n
    <2>1. i \in 1..n /\ i + d \in 1..Len(Way[p]) /\ Way'[p][i] = Way[p][i + d]
      BY <1>1 DEF Follows
    <2>2. ASSUME NEW j \in 1..(i + d - 1) PROVE ~Barrier(e, Way[p][j])
      <3>1. CASE j <= d
        BY <3>1
      <3>2. CASE j > d
        <4>1. j - d \in 1..(i - 1) /\ j - d \in 1..n /\ (j - d) + d = j
          BY <2>1, <3>2
        <4>2. Way'[p][j - d] = Way[p][j]
          BY <4>1 DEF Follows
        <4>3. ~Barrier(e, Way[p][j - d])'
          BY <4>1
        <4>4. ~Barrier(e, Way[p][j])
          <5>1. PICK w : w = Way[p][j]
            OBVIOUS
          <5>2. ~Barrier(e, w)'
            BY <4>2, <4>3, <5>1 DEF Barrier
          <5>3. Barrier(e, w) => Barrier(e, w)'
            OBVIOUS
          <5> QED
            BY <5>1, <5>2, <5>3
        <4> QED
          BY <4>4
      <3> QED
        BY <3>1, <3>2
    <2>3. Settled(e, Way[p][i + d].ack)
      <3>1. PICK k \in 1..Len(Way[p]) : k = i + d
        BY <2>1
      <3>2. \A j \in 1..(k - 1) : ~Barrier(e, Way[p][j])
        BY <2>2, <3>1
      <3>3. Settled(e, Way[p][k].ack)
        BY <3>2 DEF AckInv
      <3> QED
        BY <3>1, <3>3
    <2>4. Way[p][i + d].ack \in Int
      <3>1. Way[p] \in Seq(Envelope)
        BY WayTypes DEF WayOK
      <3>2. Way[p][i + d] \in Envelope
        BY <2>1, <3>1
      <3> QED
        BY <3>2 DEF Envelope, None
    <2>5. PICK a \in Int : a = Way[p][i + d].ack
      BY <2>4
    <2>6. Settled(e, a)'
      BY <2>3, <2>5, SettledStays DEF IInv
    <2> QED
      BY <2>1, <2>5, <2>6 DEF Settled
  <1>2. CASE i > n
    <2>1. i \in (n + 1)..Len(Way'[p])
      BY <1>2
    <2> QED
      BY <2>1
  <1> QED
    BY <1>1, <1>2

-----------------------------------------------------------------------------
(* Steps over which the reconnect and resync stay where they are.           *)

Plain ==
    /\ reconnects' = reconnects /\ resync' = resync /\ flushId' = flushId /\ up' = up
    /\ Flushing' <=> Flushing

LEMMA PlainModes ==
    ASSUME Plain
    PROVE  /\ First' <=> First
           /\ Flushed' <=> Flushed
           /\ Resent' <=> Resent
           /\ \A e \in Endpoint : /\ Complete(e)' <=> Complete(e)
                                  /\ Keeping(e)' <=> Keeping(e)
                                  /\ Early(e)' <=> Early(e)
                                  /\ Before(e)' <=> Before(e)
                                  /\ \A m : Barrier(e, m)' <=> Barrier(e, m)
  <1>1. (First' <=> First) /\ (Flushed' <=> Flushed) /\ (Resent' <=> Resent)
    BY DEF Plain, First, Flushed, Resent
  <1>2. ASSUME NEW e \in Endpoint
        PROVE  /\ Complete(e)' <=> Complete(e)
               /\ Keeping(e)' <=> Keeping(e)
               /\ Early(e)' <=> Early(e)
               /\ Before(e)' <=> Before(e)
    BY <1>1 DEF Plain, Complete, Keeping, Early, Before
  <1>3. ASSUME NEW e \in Endpoint, NEW m PROVE Barrier(e, m)' <=> Barrier(e, m)
    BY DEF Plain, Barrier
  <1> QED
    BY <1>1, <1>2, <1>3

LEMMA NoneSettledNext ==
    ASSUME TypeOK', NEW e \in Endpoint
    PROVE  Settled(e, None)'
  <1>1. \A x \in sent'[e] : x.id \in Nat
    BY DEF TypeOK, Envelope
  <1> QED
    BY <1>1 DEF Settled, None

(* What f posts at the end of its way, in such a step.                      *)
Posting(f) ==
    LET m == Way'[f][Len(Way'[f])] IN
    /\ m.kind # "FlushBufferedMessages"
    /\ m.kind \in Applications \cup {"Ack"} => m.id < Top'[f]
    /\ m.ack = None \/ m \in sent'[f]
    /\ draft'[f]["main"].stage # "buffered"
    /\ IF f = "client" THEN up /\ resync # "swapped" ELSE Len(Way'[f]) > Len(incoming'["client"])

(* d[f] of what is on f's way has been taken, and one is posted at most.    *)
Moving(d) ==
    /\ d \in [Endpoint -> {0, 1}]
    /\ \A f \in Endpoint :
           /\ d[f] <= Len(Way[f]) /\ Follows(f, d[f], Len(Way[f]) - d[f])
           /\ d[f] = 1 => /\ Way[f][1].kind # "FlushBufferedMessages"
                          /\ ~Barrier(Peer(f), Way[f][1])
           /\ \/ Len(Way'[f]) = Len(Way[f]) - d[f]
              \/ Len(Way'[f]) = Len(Way[f]) - d[f] + 1 /\ Posting(f)
    /\ up \/ Len(incoming'["client"]) = Len(incoming["client"]) - d["server"]

LEMMA PlainOrder ==
    ASSUME FlowInv, IInv, IInv', Plain, LinkInv', CoveredInv', NEW d, Moving(d),
           \A f \in Endpoint : Forward(f)
    PROVE  OrderInv'
  <1> SUFFICES ASSUME NEW f \in Endpoint
               PROVE  \A i \in 1..Len(Way'[f]) : InReach(f, i)' => Arrives(f, i)'
    BY DEF OrderInv
  <1> DEFINE n == Len(Way[f]) - d[f]
  <1>1. /\ d[f] \in {0, 1} /\ n \in Nat /\ Len(Way[f]) \in Nat /\ n + d[f] = Len(Way[f])
        /\ Len(Way'[f]) \in Nat
        /\ Follows(f, d[f], n)
    <2>1. Way[f] \in Seq(Envelope) /\ Way'[f] \in Seq(Envelope)
      BY WayTypes, WayTypesNext DEF WayOK
    <2>2. d[f] \in {0, 1} /\ Follows(f, d[f], n)
      BY DEF Moving
    <2>3. Len(Way[f]) \in Nat /\ Len(Way'[f]) \in Nat
      BY <2>1
    <2>4. d[f] <= Len(Way[f])
      BY DEF Moving
    <2> QED
      BY <2>2, <2>3, <2>4
  <1>2. (First' <=> First) /\ (Flushed' <=> Flushed) /\ reconnects' = reconnects /\ up' = up /\ resync' = resync
    BY PlainModes DEF Plain
  <1> HIDE DEF n
  <1>3. ASSUME NEW i \in 1..n, InReach(f, i)' PROVE InReach(f, i + d[f])
    <2>1. CASE f = "client"
      <3>1. ~Flushed /\ \A j \in 1..i : Way'[f][j].kind # "FlushBufferedMessages"
        BY <1>2, <1>3, <2>1 DEF InReach
      <3>2. ASSUME NEW j \in 1..(i + d[f]) PROVE Way[f][j].kind # "FlushBufferedMessages"
        <4>1. CASE j <= d[f]
          <5>1. d[f] = 1 /\ j = 1
            BY <1>1, <4>1
          <5> QED
            BY <5>1 DEF Moving
        <4>2. CASE j > d[f]
          <5>1. j - d[f] \in 1..n /\ j - d[f] \in 1..i /\ (j - d[f]) + d[f] = j
            BY <1>1, <4>2
          <5>2. Way'[f][j - d[f]] = Way[f][j]
            BY <1>1, <5>1 DEF Follows
          <5> QED
            BY <3>1, <5>1, <5>2
        <4> QED
          BY <1>1, <4>1, <4>2
      <3> QED
        BY <2>1, <3>1, <3>2 DEF InReach
    <2>2. CASE f # "client"
      <3>1. reconnects = 0 /\ (up \/ i <= Len(incoming'["client"])) /\ f = "server"
        BY <1>2, <1>3, <2>2 DEF InReach, Endpoint
      <3>2. up \/ Len(incoming'["client"]) = Len(incoming["client"]) - d[f]
        BY <3>1 DEF Moving
      <3>3. Len(incoming["client"]) \in Nat
        BY Peers DEF IInv, TypeOK
      <3>4. up \/ i + d[f] <= Len(incoming["client"])
        BY <1>1, <3>1, <3>2, <3>3
      <3> QED
        BY <2>2, <3>1, <3>4 DEF InReach
    <2> QED
      BY <2>1, <2>2
  <1>4. ASSUME NEW i \in (n + 1)..Len(Way'[f]), InReach(f, i)' PROVE Arrives(f, i)'
    <2>1. Len(Way'[f]) = n + 1 /\ Posting(f) /\ i = Len(Way'[f])
      <3>1. Len(Way'[f]) = n \/ (Len(Way'[f]) = n + 1 /\ Posting(f))
        BY <1>1 DEF Moving, n
      <3> QED
        BY <1>1, <1>4, <3>1
    <2>2. First'
      <3>1. CASE f = "client"
        <4>1. ~Flushed' /\ \A j \in 1..i : Way'[f][j].kind # "FlushBufferedMessages"
          BY <1>4, <3>1 DEF InReach
        <4>2. ~Flushing'
          BY <2>1, <3>1, <4>1, FlushingOnWayNext DEF FlushSeen
        <4>3. up /\ resync # "swapped"
          BY <2>1, <3>1 DEF Posting
        <4>4. reconnects' \in {0, 1}
          BY DEF LinkInv
        <4> QED
          BY <1>2, <4>1, <4>2, <4>3, <4>4 DEF Flushed, First
      <3>2. CASE f # "client"
        <4>1. reconnects' = 0 /\ (up' \/ i <= Len(incoming'["client"]))
          BY <1>4, <3>2 DEF InReach
        <4>2. Len(Way'[f]) > Len(incoming'["client"])
          BY <2>1, <3>2 DEF Posting
        <4>3. Len(incoming'["client"]) \in Nat
          BY Peers DEF IInv, TypeOK
        <4> QED
          BY <1>1, <2>1, <4>1, <4>2, <4>3 DEF First
      <3> QED
        BY <3>1, <3>2
    <2>3. \A x \in sent'[f] : Covers(f, x)'
      BY <2>2 DEF CoveredInv, Complete
    <2>4. draft'[f]["main"].stage # "buffered"
      BY <2>1 DEF Posting
    <2>5. \A x \in sent'[f] : x.id \in Reached'[f] \/ Comes(f, i, x.id)'
      BY <2>1, <2>3, <2>4 DEF Covers, Comes
    <2>6. Way'[f][i].kind \in Applications \cup {"Ack"} => Way'[f][i].id < Top'[f]
      BY <2>1 DEF Posting
    <2> QED
      BY <2>5, <2>6 DEF Arrives
  <1>5. OrderInv /\ Forward(f) /\ d[f] \in Nat
    BY <1>1 DEF FlowInv
  <1> QED
    BY <1>1, <1>3, <1>4, <1>5, OrderStep

LEMMA PlainAck ==
    ASSUME FlowInv, IInv, IInv', Plain, LinkInv', EarlyInv', NEW d, Moving(d),
           \A f \in Endpoint : Forward(f)
    PROVE  AckInv'
  <1> SUFFICES ASSUME NEW e \in Endpoint, NEW p \in Endpoint, p = Peer(e)
               PROVE  Before(e)' => \A i \in 1..Len(Way'[p]) :
                          (\A j \in 1..(i - 1) : ~Barrier(e, Way[p][j])') => Settled(e, Way[p][i].ack)'
    BY Peers DEF AckInv
  <1> DEFINE n == Len(Way[p]) - d[p]
  <1>1. /\ d[p] \in {0, 1} /\ n \in Nat /\ Len(Way[p]) \in Nat /\ n + d[p] = Len(Way[p])
        /\ Len(Way'[p]) \in Nat
        /\ Follows(p, d[p], n)
    <2>1. Way[p] \in Seq(Envelope) /\ Way'[p] \in Seq(Envelope)
      BY WayTypes, WayTypesNext DEF WayOK
    <2>2. d[p] \in {0, 1} /\ Follows(p, d[p], n)
      BY DEF Moving
    <2>3. Len(Way[p]) \in Nat /\ Len(Way'[p]) \in Nat
      BY <2>1
    <2>4. d[p] <= Len(Way[p])
      BY DEF Moving
    <2> QED
      BY <2>2, <2>3, <2>4
  <1> HIDE DEF n
  <1>2. Before(e)' => Before(e)
    BY PlainModes
  <1>3. \A m : Barrier(e, m) => Barrier(e, m)'
    BY PlainModes
  <1>4. \A j \in 1..d[p] : ~Barrier(e, Way[p][j])
    <2>1. Peer(p) = e
      BY Peers
    <2>2. d[p] = 1 => ~Barrier(e, Way[p][1])
      BY <2>1 DEF Moving
    <2> QED
      BY <1>1, <2>2
  <1>5. ASSUME NEW i \in (n + 1)..Len(Way'[p]), Before(e)',
               \A j \in 1..(i - 1) : ~Barrier(e, Way[p][j])'
        PROVE  Settled(e, Way[p][i].ack)'
    <2>1. Len(Way'[p]) = n + 1 /\ Posting(p) /\ i = Len(Way'[p])
      <3>1. Len(Way'[p]) = n \/ (Len(Way'[p]) = n + 1 /\ Posting(p))
        BY <1>1 DEF Moving, n
      <3> QED
        BY <1>1, <1>5, <3>1
    <2>2. CASE Way'[p][i].ack = None
      <3>1. Settled(e, None)'
        BY NoneSettledNext DEF IInv
      <3> QED
        BY <2>2, <3>1 DEF Settled, None
    <2>3. CASE Way'[p][i] \in sent'[p] /\ Early(p)'
      <3>1. \A m \in sent'[p] : Settled(Peer(p), m.ack)'
        BY <2>3 DEF EarlyInv
      <3>2. Peer(p) = e
        BY Peers
      <3> QED
        BY <2>3, <3>1, <3>2 DEF Settled
    <2>4. Early(p)'
      <3> SUFFICES ASSUME ~Early(p) PROVE FALSE
        BY PlainModes
      <3>1. Before(e)
        BY <1>2, <1>5
      <3>2. \A j \in 1..n : ~Barrier(e, Way[p][j + d[p]])
        <4> SUFFICES ASSUME NEW j \in 1..n PROVE ~Barrier(e, Way[p][j + d[p]])
          OBVIOUS
        <4>1. j \in 1..(i - 1) /\ Way'[p][j] = Way[p][j + d[p]]
          <5>1. i = n + 1
            BY <2>1
          <5>2. j \in 1..(i - 1)
            BY <1>1, <5>1
          <5>3. Way'[p][j] = Way[p][j + d[p]]
            BY <1>1 DEF Follows
          <5> QED
            BY <5>2, <5>3
        <4>2. PICK w : w = Way'[p][j]
          OBVIOUS
        <4>3. ~Barrier(e, w)'
          BY <1>5, <4>1, <4>2 DEF Barrier
        <4>4. ~Barrier(e, w)
          BY <1>3, <4>3
        <4> QED
          BY <4>1, <4>2, <4>4
      <3>3. \A j \in 1..Len(Way[p]) : ~Barrier(e, Way[p][j])
        <4> SUFFICES ASSUME NEW j \in 1..Len(Way[p]) PROVE ~Barrier(e, Way[p][j])
          OBVIOUS
        <4>1. CASE j <= d[p]
          BY <1>4, <4>1
        <4>2. CASE j > d[p]
          <5>1. j - d[p] \in 1..n /\ (j - d[p]) + d[p] = j
            BY <1>1, <4>2
          <5> QED
            BY <3>2, <5>1
        <4> QED
          BY <1>1, <4>1, <4>2
      <3>4. \A m \in InFlight[p] : ~Barrier(e, m)
        <4>1. Way[p] \in Seq(Envelope) /\ Elements(Way[p]) = InFlight[p]
          BY WayTypes DEF WayOK
        <4>2. \A m \in InFlight[p] : \E j \in 1..Len(Way[p]) : Way[p][j] = m
          BY <4>1, WayElements
        <4> QED
          BY <3>3, <4>2
      <3>5. LinkInv /\ FlushInv
        BY DEF FlowInv
      <3>6. CASE e = "server"
        <4>1. p = "client"
          BY <3>6, Peers DEF Peer
        <4>2. ~Flushing
          BY <3>4, <3>6, <4>1 DEF Flushing, Barrier
        <4> QED
          BY <3>1, <3>5, <3>6, <4>1, <4>2 DEF Before, Early, Flushed, LinkInv
      <3>7. CASE e = "client"
        <4>1. p = "server"
          BY <3>7, Peers DEF Peer
        <4>2. Flushed
          BY <4>1 DEF Early
        <4>3. resync = "waiting"
          BY <3>1, <3>7, <4>2 DEF Before, Flushed
        <4> QED
          BY <3>4, <3>5, <3>7, <4>1, <4>2, <4>3 DEF Flushed, FlushInv
      <3> QED
        BY <3>6, <3>7 DEF Endpoint
    <2>5. Way'[p][i].ack = None \/ Way'[p][i] \in sent'[p]
      BY <2>1 DEF Posting
    <2> QED
      BY <2>2, <2>3, <2>4, <2>5
  <1>6. AckInv /\ Forward(e) /\ d[p] \in Nat
    BY <1>1 DEF FlowInv
  <1> QED
    BY <1>1, <1>2, <1>3, <1>4, <1>5, <1>6, AckStays

LEMMA PlainFlow ==
    ASSUME FlowInv, IInv, IInv', Plain, TopInv', LinkInv', FlushInv', CoveredInv', KeptInv', EarlyInv',
           NEW d, Moving(d), \A f \in Endpoint : Forward(f)
    PROVE  FlowInv'
  BY PlainOrder, PlainAck DEF FlowInv

-----------------------------------------------------------------------------
(* The parts that most steps leave alone.                                   *)

LEMMA LinkKept ==
    ASSUME LinkInv, reconnects' = reconnects, up' = up, resync' = resync, serverLoop' = serverLoop,
           boot = "connected" => boot' = "connected",
           boot' = "connected" => ~Unheard'["client"] /\ ~Unheard'["server"],
           ~up \/ resync = "swapped" => outgoing'["client"] = outgoing["client"],
           resync = "swapped" => draft'["client"]["main"] = draft["client"]["main"],
           \A m \in Elements(outgoing["client"]) :
               m.kind = "FlushBufferedMessages" => m \in Elements(outgoing'["client"]) \/ serverLoop = "attached"
    PROVE  LinkInv'
  BY DEF LinkInv, First

LEMMA FlushKept ==
    ASSUME FlushInv, resync' = resync, flushId' = flushId,
           \A m \in InFlight'["client"] : m.kind = "FlushBufferedMessages" => m \in InFlight["client"],
           Flushing => Flushing',
           resync = "waiting" =>
               ((\E m \in InFlight'["server"] : Barrier("client", m)) <=>
                (\E m \in InFlight["server"] : Barrier("client", m)))
    PROVE  FlushInv' /\ (Flushing' <=> Flushing)
  <1>1. Flushing' <=> Flushing
    BY DEF Flushing
  <1>2. \A m : Barrier("client", m)' <=> Barrier("client", m)
    BY DEF Barrier
  <1> QED
    BY <1>1, <1>2 DEF FlushInv

LEMMA InFlightMoves ==
    ASSUME IInv, IInv', NEW e \in Endpoint
    PROVE  /\ Way'[e] = Way[e] => InFlight'[e] = InFlight[e]
           /\ \A msgs \in Seq(Envelope) :
                  Way'[e] = Way[e] \o msgs => InFlight'[e] = InFlight[e] \cup Elements(msgs)
           /\ Way[e] # <<>> /\ Way'[e] = Tail(Way[e]) => InFlight[e] = InFlight'[e] \cup {Way[e][1]}
  <1>1. /\ Way[e] \in Seq(Envelope) /\ Elements(Way[e]) = InFlight[e]
        /\ Elements(Way'[e]) = InFlight'[e]
    BY WayTypes, WayTypesNext DEF WayOK, Elements
  <1>2. ASSUME NEW msgs \in Seq(Envelope), Way'[e] = Way[e] \o msgs
        PROVE  InFlight'[e] = InFlight[e] \cup Elements(msgs)
    <2> DEFINE q == Way[e]
    <2>1. q \in Seq(Envelope) /\ Way'[e] = q \o msgs
      BY <1>1, <1>2
    <2> HIDE DEF q
    <2>2. Elements(q \o msgs) = Elements(q) \cup Elements(msgs)
      BY <2>1, ElementsConcat
    <2> QED
      BY <1>1, <2>1, <2>2 DEF q
  <1>3. ASSUME Way[e] # <<>>, Way'[e] = Tail(Way[e])
        PROVE  InFlight[e] = InFlight'[e] \cup {Way[e][1]}
    <2>1. Elements(Way[e]) = Elements(Tail(Way[e])) \cup {Head(Way[e])}
      BY <1>1, <1>3, ElementsFacts
    <2>2. Head(Way[e]) = Way[e][1]
      BY <1>1, <1>3
    <2> QED
      BY <1>1, <1>3, <2>1, <2>2
  <1>4. Way'[e] = Way[e] => InFlight'[e] = InFlight[e]
    BY <1>1
  <1> QED
    BY <1>2, <1>3, <1>4

(* A step by which nothing enters a buffer or reaches an application.       *)
LEMMA QuietFlow ==
    ASSUME FlowInv, IInv, IInv', Plain, TopInv', LinkInv', FlushInv',
           sent' = sent, handled' = handled, maxReceived' = maxReceived,
           \A f \in Endpoint : Top[f] <= Top'[f],
           NEW d, Moving(d),
           \A f \in Endpoint : \A x \in sent[f] :
               /\ Complete(f) /\ draft[f]["main"].stage = "buffered" /\ draft[f]["main"].msg.id = x.id
                  => Covers(f, x)'
               /\ Keeping(f) /\ x.id \in Ids(Elements(buffer[f])) => Keeps(f, x)'
    PROVE  FlowInv'
  <1>1. Reached' = Reached /\ Unheard' = Unheard
    BY DEF Reached, Unheard, HandledIds
  <1>2. \A f \in Endpoint : Forward(f)
    BY <1>1 DEF Forward
  <1>3. CoveredInv'
    <2> SUFFICES ASSUME NEW f \in Endpoint, Complete(f), NEW x \in sent[f] PROVE Covers(f, x)'
      BY PlainModes DEF CoveredInv
    <2>1. Covers(f, x)
      BY DEF FlowInv, CoveredInv
    <2> DEFINE n == Len(Way[f]) - d[f]
    <2>2. d[f] \in Nat /\ n \in Nat /\ n + d[f] = Len(Way[f]) /\ Follows(f, d[f], n) /\ Len(Way'[f]) \in Nat
      <3>1. d[f] \in {0, 1} /\ d[f] <= Len(Way[f]) /\ Follows(f, d[f], n)
        BY DEF Moving
      <3>2. Way[f] \in Seq(Envelope) /\ Way'[f] \in Seq(Envelope)
        BY WayTypes, WayTypesNext DEF WayOK
      <3>3. Len(Way[f]) \in Nat /\ Len(Way'[f]) \in Nat
        BY <3>2
      <3> QED
        BY <3>1, <3>3
    <2> HIDE DEF n
    <2> QED
      BY <1>2, <2>1, <2>2, CoversStays
  <1>4. KeptInv'
    <2> SUFFICES ASSUME NEW f \in Endpoint, Keeping(f), NEW x \in sent[f] PROVE Keeps(f, x)'
      BY PlainModes DEF KeptInv
    <2>1. Keeps(f, x)
      BY DEF FlowInv, KeptInv
    <2> QED
      BY <1>2, <2>1, KeepsStays
  <1>5. EarlyInv'
    <2> SUFFICES ASSUME NEW f \in Endpoint
                 PROVE  Early(f)' => /\ Settled(Peer(f), maxReceived[f])'
                                     /\ \A m \in sent'[f] : Settled(Peer(f), m.ack)'
      BY DEF EarlyInv
    <2>1. Early(f)' => Early(f)
      BY PlainModes
    <2>2. EarlyInv /\ Forward(Peer(f)) /\ maxReceived'[f] = maxReceived[f] /\ \A m \in sent'[f] : m \in sent[f]
      BY <1>2, Peers DEF FlowInv
    <2> QED
      BY <2>1, <2>2, EarlyStays
  <1> QED
    BY <1>2, <1>3, <1>4, <1>5, PlainFlow

LEMMA PostMoves ==
    ASSUME IInv, IInv', NEW e \in Endpoint, up \/ incoming' = incoming, Way'[Peer(e)] = Way[Peer(e)],
           \/ Way'[e] = Way[e]
           \/ \E m \in Envelope : Way'[e] = Way[e] \o <<m>> /\ Posting(e)
    PROVE  Moving([f \in Endpoint |-> 0])
  <1> DEFINE d == [f \in Endpoint |-> 0]
  <1>1. \A f \in Endpoint : f = e \/ f = Peer(e)
    BY DEF Endpoint, Peer
  <1>2. \A f \in Endpoint : Len(Way[f]) \in Nat
    BY WayTypes DEF WayOK
  <1>3. /\ Follows(e, 0, Len(Way[e]))
        /\ Len(Way'[e]) = Len(Way[e]) \/ (Len(Way'[e]) = Len(Way[e]) + 1 /\ Posting(e))
    <2>1. CASE Way'[e] = Way[e]
      BY <2>1, SameFollows
    <2>2. CASE \E m \in Envelope : Way'[e] = Way[e] \o <<m>> /\ Posting(e)
      <3>1. PICK m \in Envelope : Way'[e] = Way[e] \o <<m>> /\ Posting(e)
        BY <2>2
      <3> DEFINE msgs == <<m>>
      <3>2. msgs \in Seq(Envelope) /\ Len(msgs) = 1 /\ Way'[e] = Way[e] \o msgs
        BY <3>1
      <3> HIDE DEF msgs
      <3>3. Follows(e, 0, Len(Way[e])) /\ Len(Way'[e]) = Len(Way[e]) + Len(msgs)
        BY <3>2, PostFollows
      <3> QED
        BY <3>1, <3>2, <3>3
    <2> QED
      BY <2>1, <2>2
  <1>4. Follows(Peer(e), 0, Len(Way[Peer(e)])) /\ Len(Way'[Peer(e)]) = Len(Way[Peer(e)])
    BY Peers, SameFollows
  <1>5. up \/ Len(incoming'["client"]) = Len(incoming["client"]) - 0
    <2>1. incoming["client"] \in Seq(Envelope)
      BY Peers DEF IInv, TypeOK
    <2> QED
      BY <2>1
  <1>6. \A f \in Endpoint : /\ Follows(f, 0, Len(Way[f]) - 0) /\ 0 <= Len(Way[f])
                            /\ Len(Way'[f]) = Len(Way[f]) - 0 \/ (Len(Way'[f]) = Len(Way[f]) - 0 + 1 /\ Posting(f))
    <2>1. \A f \in Endpoint : Len(Way[f]) - 0 = Len(Way[f])
      BY <1>2
    <2> QED
      BY <1>1, <1>2, <1>3, <1>4, <2>1
  <1> QED
    BY <1>5, <1>6, Peers DEF Moving

LEMMA TakeMoves ==
    ASSUME IInv, IInv', NEW e \in Endpoint, NEW p \in Endpoint, p = Peer(e), Taking(e),
           Way[p] # <<>>, Way'[p] = Tail(Way[p]), incoming'[p] = incoming[p],
           Way[p][1].kind # "FlushBufferedMessages", ~Barrier(e, Way[p][1]),
           Way[p][1].kind \in Applications => Way[p][1].id \in Reached'[p],
           \/ Way'[e] = Way[e]
           \/ \E m \in Envelope : Way'[e] = Way[e] \o <<m>> /\ Posting(e)
    PROVE  Moving([f \in Endpoint |-> IF f = p THEN 1 ELSE 0])
  <1> DEFINE d == [f \in Endpoint |-> IF f = p THEN 1 ELSE 0]
  <1>1. (\A f \in Endpoint : f = e \/ f = p) /\ Peer(p) = e /\ p # e
    BY Peers DEF Endpoint, Peer
  <1>2. \A f \in Endpoint : Len(Way[f]) \in Nat
    BY WayTypes DEF WayOK
  <1>3. /\ Follows(e, 0, Len(Way[e]))
        /\ Len(Way'[e]) = Len(Way[e]) \/ (Len(Way'[e]) = Len(Way[e]) + 1 /\ Posting(e))
    <2>1. CASE Way'[e] = Way[e]
      BY <2>1, SameFollows
    <2>2. CASE \E m \in Envelope : Way'[e] = Way[e] \o <<m>> /\ Posting(e)
      <3>1. PICK m \in Envelope : Way'[e] = Way[e] \o <<m>> /\ Posting(e)
        BY <2>2
      <3> DEFINE msgs == <<m>>
      <3>2. msgs \in Seq(Envelope) /\ Len(msgs) = 1 /\ Way'[e] = Way[e] \o msgs
        BY <3>1
      <3> HIDE DEF msgs
      <3>3. Follows(e, 0, Len(Way[e])) /\ Len(Way'[e]) = Len(Way[e]) + Len(msgs)
        BY <3>2, PostFollows
      <3> QED
        BY <3>1, <3>2, <3>3
    <2> QED
      BY <2>1, <2>2
  <1>4. /\ Follows(p, 1, Len(Way[p]) - 1) /\ Len(Way'[p]) = Len(Way[p]) - 1 /\ 1 <= Len(Way[p])
    <2>1. Follows(p, 1, Len(Way[p]) - 1) /\ Len(Way'[p]) = Len(Way[p]) - 1 /\ Len(Way[p]) - 1 \in Nat
      BY TakeFollows
    <2> QED
      BY <1>2, <2>1
  <1>5. Len(incoming'["client"]) = Len(incoming["client"]) - d["server"]
    <2>1. /\ \A f \in Endpoint : incoming[f] \in Seq(Envelope)
          /\ incoming'[e] = Tail(incoming[e]) /\ incoming[e] # <<>>
      BY DEF IInv, TypeOK, Taking
    <2>2. \A f \in Endpoint : Len(incoming[f]) \in Nat
      BY <2>1
    <2>3. CASE e = "client"
      <3>1. p = "server" /\ d["server"] = 1
        BY <2>3, Peers DEF Peer
      <3>2. Len(Tail(incoming[e])) = Len(incoming[e]) - 1
        BY <2>1
      <3> QED
        BY <2>1, <2>3, <3>1, <3>2
    <2>4. CASE e = "server"
      <3>1. p = "client" /\ d["server"] = 0
        BY <2>4, Peers DEF Peer
      <3> QED
        BY <2>2, <3>1, Peers
    <2> QED
      BY <2>3, <2>4 DEF Endpoint
  <1>6. /\ d \in [Endpoint -> {0, 1}]
        /\ d[p] = 1 /\ d[e] = 0
    BY <1>1
  <1>7. \A f \in Endpoint :
           /\ d[f] <= Len(Way[f]) /\ Follows(f, d[f], Len(Way[f]) - d[f])
           /\ \/ Len(Way'[f]) = Len(Way[f]) - d[f]
              \/ Len(Way'[f]) = Len(Way[f]) - d[f] + 1 /\ Posting(f)
    <2>1. Len(Way[e]) - 0 = Len(Way[e]) /\ 0 <= Len(Way[e])
      BY <1>2
    <2> QED
      BY <1>1, <1>3, <1>4, <1>6, <2>1
  <1>8. \A f \in Endpoint : d[f] = 1 => /\ Way[f][1].kind # "FlushBufferedMessages"
                                        /\ ~Barrier(Peer(f), Way[f][1])
    BY <1>1, <1>6
  <1> HIDE DEF d
  <1>9. Moving(d)
    BY <1>5, <1>6, <1>7, <1>8 DEF Moving
  <1> QED
    BY <1>9 DEF d

LEMMA TopKept ==
    ASSUME TypeOK, TypeOK', TopInv, sent' = sent, draft' = draft,
           \A f \in Endpoint : \/ nextId'[f] = nextId[f]
                               \/ nextId'[f] = nextId[f] + 1 /\ draft[f]["main"].stage # "allocated"
    PROVE  TopInv' /\ \A f \in Endpoint : Top[f] <= Top'[f]
  <1> SUFFICES ASSUME NEW f \in Endpoint
               PROVE  /\ Top[f] <= Top'[f]
                      /\ \A x \in sent[f] : x.id < Top'[f]
                      /\ draft[f]["main"].stage = "allocated" => draft[f]["main"].msg.id = Top'[f]
    BY DEF TopInv
  <1>1. /\ \A x \in sent[f] : x.id < Top[f]
        /\ draft[f]["main"].stage = "allocated" => draft[f]["main"].msg.id = Top[f]
    BY DEF TopInv
  <1>2. nextId[f] \in Nat /\ Top[f] \in Int /\ \A x \in sent[f] : x.id \in Nat
    <2>1. nextId[f] \in Nat /\ Top[f] \in Int
      BY TopTypes
    <2>2. sent[f] \in SUBSET Envelope
      BY DEF TypeOK
    <2> QED
      BY <2>1, <2>2, EnvelopeFacts
  <1>3. Top'[f] = Top[f] \/ (Top'[f] = Top[f] + 1 /\ draft[f]["main"].stage # "allocated")
    BY <1>2 DEF Top
  <1> QED
    BY <1>1, <1>2, <1>3

LEMMA SameQueues ==
    ASSUME incoming' = incoming, outgoing' = outgoing
    PROVE  Way' = Way /\ InFlight' = InFlight /\ (Flushing' <=> Flushing)
  BY DEF Way, InFlight, Flushing

-----------------------------------------------------------------------------
(* The steps of a send, but the one into the buffer.                        *)

LEMMA AllocateFlow ==
    ASSUME OneThread, FlowInv, IInv, IInv', NEW e \in Endpoint, NEW kind, NEW resp,
           Allocate(e, "main", kind, resp), boot' = "connected" <=> boot = "connected"
    PROVE  FlowInv'
  <1>1. /\ TopInv /\ LinkInv /\ FlushInv
        /\ \A f \in Endpoint : "main" \in Threads(f)
    BY DEF FlowInv, Threads
  <1>2. /\ UNCHANGED <<buffer, maxReceived, incoming, outgoing, resync, flushId, up, serverLoop,
                       reconnects, handled, sent>>
        /\ draft[e]["main"].stage = "idle"
        /\ e = "client" => resync # "swapped"
        /\ nextId'[e] = nextId[e] + 1 /\ \A f \in Endpoint : f # e => nextId'[f] = nextId[f]
        /\ nextId[e] \in Nat
    BY DEF Allocate, MainFree, Idle, queueVars, linkVars, IInv, TypeOK
  <1>3. /\ draft'[e]["main"].stage = "allocated" /\ draft'[e]["main"].msg.id = nextId[e]
        /\ \A f \in Endpoint : f # e => draft'[f]["main"] = draft[f]["main"]
    <2> DEFINE a == [stage |-> "allocated",
                     msg |-> [id |-> nextId[e], ack |-> None, resp |-> resp, kind |-> kind]]
    <2>1. draft' = [draft EXCEPT ![e]["main"] = a]
      BY DEF Allocate
    <2>2. a.stage = "allocated" /\ a.msg.id = nextId[e]
      OBVIOUS
    <2> HIDE DEF a
    <2>3. DraftBecomes(e, "main", a)
      BY <1>1, <2>1, DraftUpdate DEF IInv
    <2> QED
      BY <1>1, <2>2, <2>3 DEF DraftBecomes
  <1>4. Way' = Way /\ InFlight' = InFlight /\ (Flushing' <=> Flushing)
    BY <1>2, SameQueues
  <1>5. Plain
    BY <1>2, <1>4 DEF Plain
  <1>6. Top' = Top
    <2>1. \A f \in Endpoint : Top'[f] = Top[f]
      BY <1>2, <1>3 DEF Top
    <2> QED
      BY <2>1 DEF Top
  <1>7. TopInv'
    <2>1. draft'[e]["main"].msg.id = Top'[e]
      BY <1>2, <1>3, <1>6 DEF Top
    <2> QED
      BY <1>1, <1>2, <1>3, <1>6, <2>1 DEF TopInv
  <1>8. LinkInv'
    <2>1. boot' = "connected" => ~Unheard'["client"] /\ ~Unheard'["server"]
      BY <1>1, <1>2, Peers DEF LinkInv, Unheard
    <2>2. resync = "swapped" => draft'["client"]["main"] = draft["client"]["main"]
      BY <1>2, <1>3, Peers
    <2> QED
      BY <1>1, <1>2, <2>1, <2>2, LinkKept
  <1>9. FlushInv'
    BY <1>1, <1>2, <1>4, FlushKept
  <1> DEFINE d == [f \in Endpoint |-> 0]
  <1>10. Moving(d)
    BY <1>2, <1>4, Peers, PostMoves
  <1> HIDE DEF d
  <1>11. \A f \in Endpoint : Top[f] <= Top'[f]
    BY <1>6, TopTypes DEF IInv
  <1>12. ASSUME NEW f \in Endpoint, NEW x \in sent[f]
         PROVE  /\ draft[f]["main"].stage = "buffered" /\ draft[f]["main"].msg.id = x.id => Covers(f, x)'
                /\ x.id \in Ids(Elements(buffer[f])) => Keeps(f, x)'
    <2>1. draft[f]["main"].stage = "buffered" => draft'[f]["main"] = draft[f]["main"]
      BY <1>2, <1>3
    <2> QED
      BY <1>2, <2>1 DEF Covers, Keeps
  <1> QED
    BY <1>2, <1>5, <1>7, <1>8, <1>9, <1>10, <1>11, <1>12, QuietFlow

(* An envelope of e's own, or e's draft, is posted by itself.               *)
LEMMA PostingFacts ==
    ASSUME IInv, IInv', NEW e \in Endpoint, NEW m \in Envelope, Way'[e] = Way[e] \o <<m>>,
           m.kind # "FlushBufferedMessages",
           m.kind \in Applications \cup {"Ack"} => m.id < Top'[e],
           m.ack = None \/ m \in sent'[e],
           draft'[e]["main"].stage # "buffered",
           IF e = "client" THEN up /\ resync # "swapped" ELSE Len(incoming'["client"]) <= Len(incoming["client"])
    PROVE  /\ Posting(e)
           /\ Len(Way'[e]) \in Nat \ {0} /\ Way'[e][Len(Way'[e])] = m
           /\ InFlight'[e] = InFlight[e] \cup {m}
  <1>1. Way[e] \in Seq(Envelope) /\ Len(Way[e]) = Len(incoming[Peer(e)]) + Len(outgoing[e])
    BY WayTypes DEF WayOK
  <1>2. Len(Way'[e]) = Len(Way[e]) + 1 /\ Len(Way[e]) \in Nat /\ Way'[e][Len(Way'[e])] = m
    <2> DEFINE q == Way[e]
    <2>1. q \in Seq(Envelope) /\ Way'[e] = q \o <<m>>
      BY <1>1
    <2> HIDE DEF q
    <2>2. Len(q \o <<m>>) = Len(q) + 1 /\ Len(q) \in Nat /\ (q \o <<m>>)[Len(q) + 1] = m
      BY <2>1
    <2>3. Len(Way'[e]) = Len(q) + 1 /\ Len(q) \in Nat /\ Way'[e][Len(q) + 1] = m
      BY <2>1, <2>2
    <2> QED
      BY <2>3 DEF q
  <1>3. e # "client" => Len(Way'[e]) > Len(incoming'["client"])
    <2> SUFFICES ASSUME e # "client" PROVE Len(Way'[e]) > Len(incoming'["client"])
      OBVIOUS
    <2>1. Peer(e) = "client"
      BY DEF Peer
    <2>2. \A f \in Endpoint : incoming[f] \in Seq(Envelope) /\ outgoing[f] \in Seq(Envelope) /\ incoming'[f] \in Seq(Envelope)
      BY DEF IInv, TypeOK
    <2>3. Len(incoming["client"]) \in Nat /\ Len(outgoing[e]) \in Nat /\ Len(incoming'["client"]) \in Nat
      BY <2>2, Peers
    <2>4. Len(Way[e]) = Len(incoming["client"]) + Len(outgoing[e]) /\ Len(Way'[e]) = Len(Way[e]) + 1
      BY <1>1, <1>2, <2>1
    <2>5. Len(incoming'["client"]) <= Len(incoming["client"])
      OBVIOUS
    <2> DEFINE i == Len(incoming["client"])
               j == Len(outgoing[e])
               k == Len(incoming'["client"])
               l == Len(Way'[e])
    <2>6. i \in Nat /\ j \in Nat /\ k \in Nat /\ k <= i /\ l = i + j + 1
      BY <2>3, <2>4, <2>5
    <2> HIDE DEF i, j, k, l
    <2>7. l > k
      BY <2>6
    <2> QED
      BY <2>7 DEF k, l
  <1>4. InFlight'[e] = InFlight[e] \cup {m}
    <2> DEFINE msgs == <<m>>
    <2>1. msgs \in Seq(Envelope) /\ Way'[e] = Way[e] \o msgs /\ Elements(msgs) = {m}
      BY OneElement
    <2> HIDE DEF msgs
    <2> QED
      BY <2>1, InFlightMoves
  <1> QED
    BY <1>2, <1>3, <1>4 DEF Posting

LEMMA StartLoopFlow ==
    ASSUME FlowInv, IInv, IInv', NEW e \in Endpoint, StartLoop(e)
    PROVE  FlowInv'
  <1> DEFINE m == RemoteStartedEnvelope
  <1>1. TopInv /\ LinkInv /\ FlushInv
    BY DEF FlowInv
  <1>2. /\ UNCHANGED <<buffer, maxReceived, nextId, incoming, resync, flushId, up, serverLoop,
                       reconnects, boot, draft, handled, sent>>
        /\ draft[e]["main"].stage = "idle"
        /\ e = "client" => resync # "swapped"
        /\ Post(e, <<m>>)
    BY DEF StartLoop, MainFree, Idle, linkVars, appVars
  <1>3. m \in Envelope /\ m.kind = "RemoteStarted" /\ m.ack = None
    BY ConstantTypes DEF RemoteStartedEnvelope
  <1> HIDE DEF m
  <1>4. /\ Way'[Peer(e)] = Way[Peer(e)]
        /\ IF e = "client" /\ ~up THEN Way'[e] = Way[e] ELSE Way'[e] = Way[e] \o <<m>>
    <2>1. <<m>> \in Seq(Envelope)
      BY <1>3
    <2> QED
      BY <1>2, <2>1, WayPost
  <1>5. Way'[e] = Way[e] \o <<m>> => /\ Posting(e) /\ InFlight'[e] = InFlight[e] \cup {m}
    <2> SUFFICES ASSUME Way'[e] = Way[e] \o <<m>>, ~(e = "client" /\ ~up)
                 PROVE  /\ Posting(e) /\ InFlight'[e] = InFlight[e] \cup {m}
      <3>1. Way[e] \in Seq(Envelope)
        BY WayTypes DEF WayOK
      <3>2. Way[e] # Way[e] \o <<m>>
        BY <1>3, <3>1
      <3> QED
        BY <1>4, <3>2
    <2>1. Len(incoming'["client"]) <= Len(incoming["client"])
      <3>1. incoming["client"] \in Seq(Envelope)
        BY Peers DEF IInv, TypeOK
      <3> QED
        BY <1>2, <3>1
    <2>2. m.kind \notin Applications \cup {"Ack"} /\ m.kind # "FlushBufferedMessages"
      BY <1>3 DEF Applications
    <2> QED
      BY <1>2, <1>3, <2>1, <2>2, PostingFacts
  <1>6. InFlight'[Peer(e)] = InFlight[Peer(e)] /\ (InFlight'[e] = InFlight[e] \/ InFlight'[e] = InFlight[e] \cup {m})
    BY <1>4, <1>5, Peers, InFlightMoves
  <1>7. \A f \in Endpoint : InFlight'[f] = InFlight[f] \/ InFlight'[f] = InFlight[f] \cup {m}
    BY <1>6 DEF Endpoint, Peer
  <1>8. FlushInv' /\ (Flushing' <=> Flushing)
    <2>1. \A n \in InFlight'["client"] : n.kind = "FlushBufferedMessages" => n \in InFlight["client"]
      BY <1>3, <1>7, Peers
    <2>2. Flushing => Flushing'
      BY <1>7, Peers DEF Flushing
    <2>3. (\E n \in InFlight'["server"] : Barrier("client", n)) <=> (\E n \in InFlight["server"] : Barrier("client", n))
      BY <1>3, <1>7, Peers DEF Barrier
    <2> QED
      BY <1>1, <1>2, <2>1, <2>2, <2>3, FlushKept
  <1>9. Plain
    BY <1>2, <1>8 DEF Plain
  <1>10. TopInv' /\ \A f \in Endpoint : Top[f] <= Top'[f]
    BY <1>1, <1>2, TopKept DEF IInv
  <1>11. LinkInv'
    <2>1. boot' = "connected" => ~Unheard'["client"] /\ ~Unheard'["server"]
      BY <1>1, <1>2 DEF LinkInv, Unheard
    <2>2. ~up \/ resync = "swapped" => outgoing'["client"] = outgoing["client"]
      BY <1>2, Peers DEF Post, IInv, TypeOK
    <2>3. Elements(outgoing["client"]) \subseteq Elements(outgoing'["client"])
      <3>1. outgoing'["client"] = outgoing["client"] \/ outgoing'["client"] = outgoing["client"] \o <<m>>
        BY <1>2, Peers DEF Post, IInv, TypeOK
      <3>2. Elements(outgoing["client"] \o <<m>>) = Elements(outgoing["client"]) \cup Elements(<<m>>)
        <4>1. outgoing["client"] \in Seq(Envelope) /\ <<m>> \in Seq(Envelope)
          BY <1>3, Peers DEF IInv, TypeOK
        <4>2. PICK q \in Seq(Envelope) : q = outgoing["client"]
          BY <4>1
        <4>3. PICK r \in Seq(Envelope) : r = <<m>>
          BY <4>1
        <4>4. Elements(q \o r) = Elements(q) \cup Elements(r)
          BY ElementsConcat
        <4> QED
          BY <4>2, <4>3, <4>4
      <3> QED
        BY <3>1, <3>2
    <2> QED
      BY <1>1, <1>2, <2>1, <2>2, <2>3, LinkKept
  <1> DEFINE d == [f \in Endpoint |-> 0]
  <1>12. Moving(d)
    BY <1>2, <1>3, <1>4, <1>5, PostMoves
  <1> HIDE DEF d
  <1>13. ASSUME NEW f \in Endpoint, NEW x \in sent[f]
         PROVE  /\ draft[f]["main"].stage = "buffered" /\ draft[f]["main"].msg.id = x.id => Covers(f, x)'
                /\ x.id \in Ids(Elements(buffer[f])) => Keeps(f, x)'
    BY <1>2 DEF Covers, Keeps
  <1> QED
    BY <1>2, <1>8, <1>9, <1>10, <1>11, <1>12, <1>13, QuietFlow

-----------------------------------------------------------------------------
(* No answer to a request is mistaken for the one to the flush while the    *)
(* flush request is under way.                                              *)
LEMMA NoRequestFlushed ==
    ASSUME IInv, AnswerInv, FlushInv, resync = "waiting", Flushing,
           NEW m \in sent["server"]
    PROVE  ~Barrier("client", m)
  <1> SUFFICES ASSUME m.kind = "Response", m.resp = flushId PROVE FALSE
    <2>1. m.kind \in Applications
      BY Peers DEF AnswerInv, Numbering
    <2> QED
      BY <2>1 DEF Barrier, Applications
  <1>1. flushId \notin RequestIds["client"]
    <2>1. PICK w \in InFlight["client"] : w.kind = "FlushBufferedMessages"
      BY DEF Flushing
    <2>2. w.id = flushId /\ OwnEnvelope("client", w)
      BY <2>1, Peers DEF FlushInv, AnswerInv, OwnAnswers
    <2> QED
      BY <2>1, <2>2, Peers DEF OwnEnvelope, FreeIds
  <1>2. PICK n \in Elements(handled["server"]) : n.kind = "Request" /\ n.id = flushId
    BY Peers DEF AnswerInv, ResponsesAnswer, TakenIds
  <1>3. n \in sent["client"]
    <2>1. handled["server"] \in Seq(sent["client"])
      <3>1. Peer("server") = "client"
        BY DEF Peer
      <3> QED
        BY <3>1, Peers DEF IInv, OnlySent
    <2> QED
      BY <2>1 DEF Elements
  <1> QED
    BY <1>1, <1>2, <1>3, Peers DEF RequestIds

LEMMA PostDraftFlow ==
    ASSUME OneThread, FlowInv, IInv, IInv', AnswerInv, NEW e \in Endpoint, PostDraft(e, "main")
    PROVE  FlowInv'
  <1> DEFINE m == draft[e]["main"].msg
  <1>1. /\ TopInv /\ LinkInv /\ FlushInv
        /\ \A f \in Endpoint : "main" \in Threads(f)
    BY DEF FlowInv, Threads
  <1>2. /\ UNCHANGED <<buffer, maxReceived, nextId, incoming, resync, flushId, up, serverLoop,
                       reconnects, boot, handled, sent>>
        /\ draft[e]["main"].stage = "buffered"
        /\ Post(e, <<m>>)
        /\ draft' = [draft EXCEPT ![e]["main"] = Idle]
    BY DEF PostDraft, endVars, linkVars
  <1>3. m \in sent[e] /\ m \in Envelope /\ m.kind \in Applications /\ m.id < nextId[e]
    <2>1. m \in sent[e]
      BY <1>1, <1>2 DEF IInv, OnlySent
    <2>2. sent[e] \in SUBSET Envelope
      BY DEF IInv, TypeOK
    <2>3. \A n \in sent[e] : n.id < nextId[e] /\ n.kind \in Applications
      BY DEF AnswerInv, Numbering
    <2> QED
      BY <2>1, <2>2, <2>3
  <1>4. e = "client" => resync # "swapped"
    BY <1>1, <1>2 DEF LinkInv, Idle
  <1>5. draft'[e]["main"] = Idle /\ \A f \in Endpoint : f # e => draft'[f]["main"] = draft[f]["main"]
    <2>1. DraftBecomes(e, "main", Idle)
      BY <1>1, <1>2, DraftUpdate DEF IInv
    <2> QED
      BY <1>1, <2>1 DEF DraftBecomes
  <1>6. Idle.stage = "idle"
    BY DEF Idle
  <1>7. Top' = Top
    <2>1. \A f \in Endpoint : Top'[f] = Top[f]
      BY <1>2, <1>5, <1>6 DEF Top
    <2> QED
      BY <2>1 DEF Top
  <1>8. Top'[e] = nextId[e]
    BY <1>2, <1>7 DEF Top
  <1>9. draft[e]["main"].msg = m
    OBVIOUS
  <1> HIDE DEF m
  <1>10. <<m>> \in Seq(Envelope)
    BY <1>3
  <1>11. /\ Way'[Peer(e)] = Way[Peer(e)]
         /\ IF e = "client" /\ ~up THEN Way'[e] = Way[e] ELSE Way'[e] = Way[e] \o <<m>>
    BY <1>2, <1>10, WayPost
  <1>12. Way'[e] = Way[e] \o <<m>> => /\ Posting(e) /\ InFlight'[e] = InFlight[e] \cup {m}
                                      /\ Len(Way'[e]) \in Nat \ {0} /\ Way'[e][Len(Way'[e])] = m
    <2> SUFFICES ASSUME Way'[e] = Way[e] \o <<m>>, ~(e = "client" /\ ~up)
                 PROVE  /\ Posting(e) /\ InFlight'[e] = InFlight[e] \cup {m}
                        /\ Len(Way'[e]) \in Nat \ {0} /\ Way'[e][Len(Way'[e])] = m
      <3>1. Way[e] \in Seq(Envelope)
        BY WayTypes DEF WayOK
      <3>2. Way[e] # Way[e] \o <<m>>
        BY <1>3, <3>1
      <3> QED
        BY <1>11, <3>2
    <2>1. Len(incoming'["client"]) <= Len(incoming["client"])
      <3>1. incoming["client"] \in Seq(Envelope)
        BY Peers DEF IInv, TypeOK
      <3> QED
        BY <1>2, <3>1
    <2>2. m.kind # "FlushBufferedMessages" /\ m.id < Top'[e] /\ m \in sent'[e] /\ draft'[e]["main"].stage # "buffered"
      BY <1>2, <1>3, <1>5, <1>6, <1>8 DEF Applications
    <2>3. IF e = "client" THEN up /\ resync # "swapped" ELSE Len(incoming'["client"]) <= Len(incoming["client"])
      BY <1>4, <2>1
    <2> QED
      BY <1>3, <2>2, <2>3, PostingFacts
  <1>13. InFlight'[Peer(e)] = InFlight[Peer(e)] /\ (InFlight'[e] = InFlight[e] \/ InFlight'[e] = InFlight[e] \cup {m})
    BY <1>11, <1>12, Peers, InFlightMoves
  <1>14. \A f \in Endpoint : InFlight'[f] = InFlight[f] \/ (InFlight'[f] = InFlight[f] \cup {m} /\ f = e)
    BY <1>13 DEF Endpoint, Peer
  <1>15. FlushInv' /\ (Flushing' <=> Flushing)
    <2>1. \A n \in InFlight'["client"] : n.kind = "FlushBufferedMessages" => n \in InFlight["client"]
      BY <1>3, <1>14, Peers DEF Applications
    <2>2. Flushing => Flushing'
      BY <1>14, Peers DEF Flushing
    <2>3. resync = "waiting" =>
             ((\E n \in InFlight'["server"] : Barrier("client", n)) <=> (\E n \in InFlight["server"] : Barrier("client", n)))
      <3> SUFFICES ASSUME resync = "waiting", e = "server"
                   PROVE  (\E n \in InFlight'["server"] : Barrier("client", n)) <=> (\E n \in InFlight["server"] : Barrier("client", n))
        BY <1>14, Peers
      <3>1. CASE Flushing
        <4>1. ~Barrier("client", m)
          BY <1>1, <1>3, <3>1, NoRequestFlushed
        <4> QED
          BY <1>14, <4>1, Peers
      <3>2. CASE ~Flushing
        <4>1. \E n \in InFlight["server"] : Barrier("client", n)
          BY <1>1, <3>2 DEF FlushInv
        <4> QED
          BY <1>14, <4>1, Peers
      <3> QED
        BY <3>1, <3>2
    <2> QED
      BY <1>1, <1>2, <2>1, <2>2, <2>3, FlushKept
  <1>16. Plain
    BY <1>2, <1>15 DEF Plain
  <1>17. TopInv' /\ \A f \in Endpoint : Top[f] <= Top'[f]
    <2>1. \A f \in Endpoint : Top[f] <= Top'[f]
      BY <1>7, TopTypes DEF IInv
    <2>2. \A f \in Endpoint : draft'[f]["main"].stage = "allocated" => draft'[f]["main"] = draft[f]["main"]
      BY <1>5, <1>6
    <2> QED
      BY <1>1, <1>2, <1>7, <2>1, <2>2 DEF TopInv
  <1>18. LinkInv'
    <2>1. boot' = "connected" => ~Unheard'["client"] /\ ~Unheard'["server"]
      BY <1>1, <1>2 DEF LinkInv, Unheard
    <2>2. ~up \/ resync = "swapped" => outgoing'["client"] = outgoing["client"]
      BY <1>2, <1>4, Peers DEF Post, IInv, TypeOK
    <2>3. Elements(outgoing["client"]) \subseteq Elements(outgoing'["client"])
      <3>1. outgoing'["client"] = outgoing["client"] \/ outgoing'["client"] = outgoing["client"] \o <<m>>
        BY <1>2, Peers DEF Post, IInv, TypeOK
      <3>2. Elements(outgoing["client"] \o <<m>>) = Elements(outgoing["client"]) \cup Elements(<<m>>)
        <4>1. outgoing["client"] \in Seq(Envelope)
          BY Peers DEF IInv, TypeOK
        <4> QED
          <5>1. PICK q \in Seq(Envelope) : q = outgoing["client"]
            BY <4>1
          <5>2. PICK r \in Seq(Envelope) : r = <<m>>
            BY <1>10
          <5>3. Elements(q \o r) = Elements(q) \cup Elements(r)
            BY ElementsConcat
          <5> QED
            BY <5>1, <5>2, <5>3
      <3> QED
        BY <3>1, <3>2
    <2>4. resync = "swapped" => draft'["client"]["main"] = draft["client"]["main"]
      BY <1>4, <1>5, Peers
    <2> QED
      BY <1>1, <1>2, <2>1, <2>2, <2>3, <2>4, LinkKept
  <1> DEFINE d == [f \in Endpoint |-> 0]
  <1>19. Moving(d)
    BY <1>2, <1>3, <1>11, <1>12, PostMoves
  <1> HIDE DEF d
  <1>20. ASSUME NEW f \in Endpoint, NEW x \in sent[f], Complete(f),
                draft[f]["main"].stage = "buffered", draft[f]["main"].msg.id = x.id
         PROVE  Covers(f, x)'
    <2>1. CASE f = e
      <3>1. ~(e = "client" /\ ~up)
        BY <1>1, <1>20, <2>1 DEF Complete, First, Resent, LinkInv
      <3>2. Way'[e] = Way[e] \o <<m>>
        BY <1>11, <3>1
      <3>3. Len(Way'[e]) \in 1..Len(Way'[e]) /\ Way'[e][Len(Way'[e])] = m
        BY <1>12, <3>2
      <3> QED
        BY <1>3, <1>9, <1>20, <2>1, <3>3 DEF Covers, Comes
    <2>2. CASE f # e
      BY <1>5, <1>20, <2>2 DEF Covers
    <2> QED
      BY <2>1, <2>2
  <1>21. ASSUME NEW f \in Endpoint, NEW x \in sent[f], x.id \in Ids(Elements(buffer[f]))
         PROVE  Keeps(f, x)'
    BY <1>2, <1>21 DEF Keeps
  <1>22. \A f \in Endpoint : \A x \in sent[f] :
             /\ Complete(f) /\ draft[f]["main"].stage = "buffered" /\ draft[f]["main"].msg.id = x.id => Covers(f, x)'
             /\ Keeping(f) /\ x.id \in Ids(Elements(buffer[f])) => Keeps(f, x)'
    BY <1>20, <1>21
  <1> QED
    BY <1>2, <1>15, <1>16, <1>17, <1>18, <1>19, <1>22, QuietFlow

-----------------------------------------------------------------------------
(* The link, while the connection lasts.                                    *)

LEMMA DeliverFlow ==
    ASSUME FlowInv, IInv, IInv', NEW e \in Endpoint, Deliver(e)
    PROVE  FlowInv'
  <1>1. /\ UNCHANGED <<nextId, buffer, maxReceived, resync, flushId, up, serverLoop,
                       reconnects, boot, draft, handled, sent>>
        /\ up /\ serverLoop = "attached" /\ outgoing[e] # <<>>
        /\ outgoing' = [outgoing EXCEPT ![e] = Tail(@)]
        /\ TopInv /\ LinkInv /\ FlushInv
    BY DEF Deliver, endVars, linkVars, appVars, FlowInv
  <1>2. Way' = Way
    BY WayDeliver
  <1>3. \A f \in Endpoint : Way'[f] = Way[f] /\ InFlight'[f] = InFlight[f]
    BY <1>2, InFlightMoves
  <1>4. FlushInv' /\ (Flushing' <=> Flushing)
    <2>1. Flushing => Flushing'
      BY <1>3, Peers DEF Flushing
    <2>2. \A m \in InFlight'["client"] : m \in InFlight["client"]
      BY <1>3, Peers
    <2>3. (\E m \in InFlight'["server"] : Barrier("client", m)) <=> (\E m \in InFlight["server"] : Barrier("client", m))
      BY <1>3, Peers
    <2> QED
      BY <1>1, <2>1, <2>2, <2>3, FlushKept
  <1>5. Plain
    BY <1>1, <1>4 DEF Plain
  <1>6. TopInv' /\ \A f \in Endpoint : Top[f] <= Top'[f]
    BY <1>1, TopKept DEF IInv
  <1>7. LinkInv'
    <2>1. boot' = "connected" => ~Unheard'["client"] /\ ~Unheard'["server"]
      BY <1>1 DEF LinkInv, Unheard
    <2>2. resync = "swapped" => outgoing'["client"] = outgoing["client"]
      <3> SUFFICES ASSUME resync = "swapped" PROVE outgoing'["client"] = outgoing["client"]
        OBVIOUS
      <3>1. outgoing["client"] = <<>>
        BY <1>1 DEF LinkInv
      <3>2. e # "client"
        BY <1>1, <3>1
      <3> QED
        BY <1>1, <3>2, Peers DEF IInv, TypeOK
    <2> QED
      BY <1>1, <2>1, <2>2, LinkKept
  <1> DEFINE d == [f \in Endpoint |-> 0]
  <1>8. Moving(d)
    <2>1. Way'[e] = Way[e] /\ Way'[Peer(e)] = Way[Peer(e)]
      BY <1>3, Peers
    <2> QED
      BY <1>1, <2>1, PostMoves
  <1> HIDE DEF d
  <1>9. ASSUME NEW f \in Endpoint, NEW x \in sent[f]
        PROVE  /\ draft[f]["main"].stage = "buffered" /\ draft[f]["main"].msg.id = x.id => Covers(f, x)'
               /\ x.id \in Ids(Elements(buffer[f])) => Keeps(f, x)'
    BY <1>1 DEF Covers, Keeps
  <1> QED
    BY <1>1, <1>4, <1>5, <1>6, <1>7, <1>8, <1>9, QuietFlow

(* The daemon's socket loop leaves one connection, and takes the next.      *)
LEMMA ServerLoopFlow ==
    ASSUME FlowInv, IInv, IInv', ServerBreak \/ ServerAccept
    PROVE  FlowInv'
  <1>1. /\ UNCHANGED <<nextId, buffer, maxReceived, outgoing, incoming, resync, flushId, up,
                       reconnects, boot, draft, handled, sent>>
        /\ serverLoop' # "lost"
        /\ serverLoop # "attached"
        /\ TopInv /\ LinkInv /\ FlushInv
    BY DEF ServerBreak, ServerAccept, endVars, queueVars, appVars, FlowInv
  <1>2. Way' = Way /\ InFlight' = InFlight /\ (Flushing' <=> Flushing)
    BY <1>1, SameQueues
  <1>3. Plain
    BY <1>1, <1>2 DEF Plain
  <1>4. TopInv' /\ \A f \in Endpoint : Top[f] <= Top'[f]
    BY <1>1, TopKept DEF IInv
  <1>5. FlushInv'
    BY <1>1, <1>2, FlushKept
  <1>6. LinkInv'
    <2>1. Unheard' = Unheard
      BY <1>1 DEF Unheard
    <2> QED
      BY <1>1, <2>1 DEF LinkInv, First
  <1> DEFINE d == [f \in Endpoint |-> 0]
  <1>7. Moving(d)
    BY <1>1, <1>2, Peers, PostMoves
  <1> HIDE DEF d
  <1>8. ASSUME NEW f \in Endpoint, NEW x \in sent[f]
        PROVE  /\ draft[f]["main"].stage = "buffered" /\ draft[f]["main"].msg.id = x.id => Covers(f, x)'
               /\ x.id \in Ids(Elements(buffer[f])) => Keeps(f, x)'
    BY <1>1 DEF Covers, Keeps
  <1> QED
    BY <1>1, <1>3, <1>4, <1>5, <1>6, <1>7, <1>8, QuietFlow

-----------------------------------------------------------------------------
(* The message loops.                                                       *)

LEMMA TakenAck ==
    ASSUME IInv, LinkInv, AckInv, NEW e \in Endpoint, Taking(e)
    PROVE  /\ Way[Peer(e)] # <<>> /\ Way[Peer(e)][1] = Head(incoming[e])
           /\ Head(incoming[e]) \in InFlight[Peer(e)]
           /\ Before(e) => Settled(e, Head(incoming[e]).ack)
           /\ Keeping(e) => Before(e)
  <1>1. /\ Peer(e) \in Endpoint /\ Peer(Peer(e)) = e
        /\ incoming[e] \in Seq(Envelope) /\ outgoing[Peer(e)] \in Seq(Envelope) /\ incoming[e] # <<>>
    BY Peers DEF IInv, TypeOK, Taking
  <1>2. Way[Peer(e)] = incoming[e] \o outgoing[Peer(e)]
    BY <1>1 DEF Way
  <1>3. Way[Peer(e)] # <<>> /\ Way[Peer(e)][1] = Head(incoming[e]) /\ Len(Way[Peer(e)]) >= 1
    BY <1>1, <1>2, TailConcat
  <1>4. Way[Peer(e)] \in Seq(Envelope)
    BY <1>1, WayTypes DEF WayOK
  <1>5. 1 \in 1..Len(Way[Peer(e)])
    BY <1>3, <1>4
  <1>6. Before(e) => Settled(e, Way[Peer(e)][1].ack)
    BY <1>5 DEF AckInv
  <1>7. Keeping(e) => Before(e)
    <2>1. CASE e = "server"
      BY <2>1 DEF Keeping, Before
    <2>2. CASE e = "client"
      <3>1. resync \in {"none", "waiting"}
        BY <2>2 DEF Taking, MainFree, IInv, TypeOK
      <3>2. reconnects = 0 \/ reconnects = 1
        BY DEF LinkInv
      <3> QED
        BY <2>2, <3>1, <3>2 DEF Keeping, Before, Resent
    <2> QED
      BY <2>1, <2>2 DEF Endpoint
  <1> QED
    BY <1>3, <1>6, <1>7, TakingFlight

(* What a loop removes from the buffer has been taken.                      *)
LEMMA TakingKeeps ==
    ASSUME IInv, LinkInv, AckInv, NEW e \in Endpoint, Taking(e), PopAcked(e, Head(incoming[e])), Forward(e)
    PROVE  \A f \in Endpoint : \A x \in sent[f] :
               Keeping(f) /\ x.id \in Ids(Elements(buffer[f])) =>
                   \/ f # e /\ buffer'[f] = buffer[f]
                   \/ f = e /\ Keeps(f, x)'
  <1> SUFFICES ASSUME NEW f \in Endpoint, NEW x \in sent[f], Keeping(f), x.id \in Ids(Elements(buffer[f]))
               PROVE  \/ f # e /\ buffer'[f] = buffer[f]
                      \/ f = e /\ Keeps(f, x)'
    OBVIOUS
  <1>1. CASE f = e
    <2>1. Settled(e, Head(incoming[e]).ack)
      BY <1>1, TakenAck
    <2>2. PICK m : m = Head(incoming[e])
      OBVIOUS
    <2>3. PopAcked(e, m) /\ Settled(e, m.ack)
      BY <2>1, <2>2
    <2>4. x \in sent[e] /\ x.id \in Ids(Elements(buffer[e]))
      BY <1>1
    <2>5. Keeps(e, x)'
      BY <2>3, <2>4, PopKeeps
    <2> QED
      BY <1>1, <2>5
  <1>2. CASE f # e
    BY <1>2 DEF PopAcked, IInv, TypeOK
  <1> QED
    BY <1>1, <1>2

LEMMA RemoteStartedFlow ==
    ASSUME FlowInv, IInv, IInv', AnswerInv, NEW e \in Endpoint, HandleRemoteStarted(e)
    PROVE  FlowInv'
  <1> DEFINE h == Head(incoming[e])
             a == AckEnvelope(nextId[e], h.id)
             p == Peer(e)
  <1>1. /\ TopInv /\ LinkInv /\ FlushInv /\ AckInv
        /\ p \in Endpoint /\ p # e /\ Peer(p) = e /\ \A f \in Endpoint : f = e \/ f = p
    BY Peers DEF FlowInv, Endpoint, Peer
  <1>2. /\ UNCHANGED <<maxReceived, resync, flushId, up, serverLoop, reconnects, boot, draft, handled, sent>>
        /\ Taking(e) /\ PopAcked(e, h) /\ Post(e, <<a>>) /\ h.kind = "RemoteStarted"
        /\ nextId' = [nextId EXCEPT ![e] = @ + 1]
    BY DEF HandleRemoteStarted, linkVars, appVars
  <1>3. h \in InFlight[p] /\ h \in Envelope /\ h.id = 0
    <2>1. h \in InFlight[p] /\ h \in Envelope
      BY <1>2, TakingFlight
    <2>2. OwnEnvelope(p, h)
      BY <1>1, <2>1 DEF AnswerInv, OwnAnswers
    <2> QED
      BY <1>2, <2>1, <2>2 DEF OwnEnvelope
  <1>4. a \in Envelope /\ a.kind = "Ack" /\ a.ack = None /\ a.resp = 0 /\ a.id = nextId[e]
    <2>1. nextId[e] \in Nat
      BY DEF IInv, TypeOK
    <2> QED
      BY <1>3, <2>1, ConstantTypes DEF AckEnvelope
  <1>5. Way[p][1] = h
    BY <1>1, <1>2, TakenAck
  <1>6. e = "client" => resync # "swapped"
    BY <1>2 DEF Taking, MainFree
  <1>7. draft[e]["main"].stage = "idle"
    BY <1>2 DEF Taking, MainFree, Idle
  <1>8. nextId'[e] = nextId[e] + 1 /\ nextId[e] \in Nat /\ \A f \in Endpoint : f # e => nextId'[f] = nextId[f]
    BY <1>2 DEF IInv, TypeOK
  <1> HIDE DEF h, a, p
  <1>9. /\ Way[p] # <<>> /\ Way'[p] = Tail(Way[p]) /\ incoming'[p] = incoming[p]
        /\ IF e = "client" /\ ~up THEN Way'[e] = Way[e] ELSE Way'[e] = Way[e] \o <<a>>
    <2>1. <<a>> \in Seq(Envelope)
      BY <1>4
    <2> QED
      BY <1>2, <2>1, WayTakePost DEF p
  <1>10. Top'[e] = nextId[e] + 1
    BY <1>2, <1>7, <1>8 DEF Top
  <1>11. Way'[e] = Way[e] \o <<a>> => Posting(e) /\ InFlight'[e] = InFlight[e] \cup {a}
    <2> SUFFICES ASSUME Way'[e] = Way[e] \o <<a>>, ~(e = "client" /\ ~up)
                 PROVE  Posting(e) /\ InFlight'[e] = InFlight[e] \cup {a}
      <3>1. Way[e] \in Seq(Envelope)
        BY WayTypes DEF WayOK
      <3>2. Way[e] # Way[e] \o <<a>>
        BY <1>4, <3>1
      <3> QED
        BY <1>9, <3>2
    <2>1. e # "client" => Len(incoming'["client"]) <= Len(incoming["client"])
      <3> SUFFICES ASSUME e # "client" PROVE Len(incoming'["client"]) <= Len(incoming["client"])
        OBVIOUS
      <3>1. p = "client" /\ incoming["client"] \in Seq(Envelope)
        BY <1>1, Peers DEF IInv, TypeOK
      <3> QED
        BY <1>9, <3>1
    <2>2. a.id < Top'[e]
      BY <1>4, <1>8, <1>10
    <2>3. draft'[e]["main"].stage # "buffered"
      BY <1>2, <1>7
    <2>4. IF e = "client" THEN up /\ resync # "swapped" ELSE Len(incoming'["client"]) <= Len(incoming["client"])
      BY <1>6, <2>1
    <2> QED
      BY <1>4, <2>2, <2>3, <2>4, PostingFacts
  <1>12. /\ InFlight[p] = InFlight'[p] \cup {h}
         /\ InFlight'[e] = InFlight[e] \/ InFlight'[e] = InFlight[e] \cup {a}
    <2>1. InFlight[p] = InFlight'[p] \cup {h}
      BY <1>1, <1>5, <1>9, InFlightMoves
    <2>2. InFlight'[e] = InFlight[e] \/ InFlight'[e] = InFlight[e] \cup {a}
      BY <1>9, <1>11, InFlightMoves
    <2> QED
      BY <2>1, <2>2
  <1>13. FlushInv' /\ (Flushing' <=> Flushing)
    <2>1. \A f \in Endpoint : /\ InFlight'[f] \subseteq InFlight[f] \cup {a}
                              /\ InFlight[f] \subseteq InFlight'[f] \cup {h}
      BY <1>1, <1>12
    <2>2. \A n \in InFlight'["client"] : n.kind = "FlushBufferedMessages" => n \in InFlight["client"]
      BY <1>4, <2>1, Peers
    <2>3. Flushing => Flushing'
      BY <1>2, <2>1, Peers DEF Flushing
    <2>4. resync = "waiting" => ~Barrier("client", a) /\ ~Barrier("client", h)
      BY <1>1, <1>2, <1>4 DEF FlushInv, Barrier
    <2>5. resync = "waiting" =>
             ((\E n \in InFlight'["server"] : Barrier("client", n)) <=> (\E n \in InFlight["server"] : Barrier("client", n)))
      BY <2>1, <2>4, Peers
    <2> QED
      BY <1>1, <1>2, <2>2, <2>3, <2>5, FlushKept
  <1>14. Plain
    BY <1>2, <1>13 DEF Plain
  <1>15. TopInv' /\ \A f \in Endpoint : Top[f] <= Top'[f]
    <2>1. \A f \in Endpoint : \/ nextId'[f] = nextId[f]
                              \/ nextId'[f] = nextId[f] + 1 /\ draft[f]["main"].stage # "allocated"
      BY <1>7, <1>8
    <2> QED
      BY <1>1, <1>2, <2>1, TopKept DEF IInv
  <1>16. LinkInv'
    <2>1. boot' = "connected" => ~Unheard'["client"] /\ ~Unheard'["server"]
      BY <1>1, <1>2 DEF LinkInv, Unheard
    <2>2. ~up \/ resync = "swapped" => outgoing'["client"] = outgoing["client"]
      BY <1>2, <1>6, Peers DEF Post, IInv, TypeOK
    <2>3. Elements(outgoing["client"]) \subseteq Elements(outgoing'["client"])
      <3>1. outgoing'["client"] = outgoing["client"] \/ outgoing'["client"] = outgoing["client"] \o <<a>>
        BY <1>2, Peers DEF Post, IInv, TypeOK
      <3>2. Elements(outgoing["client"] \o <<a>>) = Elements(outgoing["client"]) \cup Elements(<<a>>)
        <4>1. outgoing["client"] \in Seq(Envelope) /\ <<a>> \in Seq(Envelope)
          BY <1>4, Peers DEF IInv, TypeOK
        <4>2. PICK q \in Seq(Envelope) : q = outgoing["client"]
          BY <4>1
        <4>3. PICK r \in Seq(Envelope) : r = <<a>>
          BY <4>1
        <4>4. Elements(q \o r) = Elements(q) \cup Elements(r)
          BY ElementsConcat
        <4> QED
          BY <4>2, <4>3, <4>4
      <3> QED
        BY <3>1, <3>2
    <2> QED
      BY <1>1, <1>2, <2>1, <2>2, <2>3, LinkKept
  <1> DEFINE d == [f \in Endpoint |-> IF f = p THEN 1 ELSE 0]
  <1>17. Moving(d)
    <2>1. Way[p][1].kind # "FlushBufferedMessages" /\ ~Barrier(e, Way[p][1]) /\ Way[p][1].kind \notin Applications
      BY <1>2, <1>5 DEF Barrier, Applications
    <2>2. \/ Way'[e] = Way[e]
          \/ \E m \in Envelope : Way'[e] = Way[e] \o <<m>> /\ Posting(e)
      BY <1>4, <1>9, <1>11
    <2>3. p = Peer(e)
      BY DEF p
    <2> QED
      BY <1>1, <1>2, <1>9, <2>1, <2>2, <2>3, TakeMoves
  <1> HIDE DEF d
  <1>18. Forward(e)
    <2>1. Reached' = Reached /\ Unheard' = Unheard
      BY <1>2 DEF Reached, Unheard, HandledIds
    <2> QED
      BY <1>2, <1>15, <2>1 DEF Forward
  <1>19. ASSUME NEW f \in Endpoint, NEW x \in sent[f], Keeping(f), x.id \in Ids(Elements(buffer[f]))
         PROVE  Keeps(f, x)'
    <2>1. PopAcked(e, Head(incoming[e]))
      BY <1>2 DEF h
    <2>3. Keeps(f, x)' \/ buffer'[f] = buffer[f]
      BY <1>1, <1>2, <1>18, <1>19, <2>1, TakingKeeps
    <2> QED
      BY <1>19, <2>3 DEF Keeps
  <1>20. \A f \in Endpoint : \A x \in sent[f] :
            /\ Complete(f) /\ draft[f]["main"].stage = "buffered" /\ draft[f]["main"].msg.id = x.id => Covers(f, x)'
            /\ Keeping(f) /\ x.id \in Ids(Elements(buffer[f])) => Keeps(f, x)'
    BY <1>2, <1>19 DEF Covers
  <1> QED
    BY <1>2, <1>13, <1>14, <1>15, <1>16, <1>17, <1>20, QuietFlow

-----------------------------------------------------------------------------
(* An envelope enters the buffer.                                           *)
LEMMA EnbufferFlow ==
    ASSUME OneThread, FlowInv, IInv, IInv', NEW e \in Endpoint, Enbuffer(e, "main")
    PROVE  FlowInv'
  <1> DEFINE m == [draft[e]["main"].msg EXCEPT !.ack = maxReceived[e]]
  <1>1. /\ TopInv /\ LinkInv /\ FlushInv /\ KeptInv /\ CoveredInv /\ EarlyInv
        /\ \A f \in Endpoint : "main" \in Threads(f)
    BY DEF FlowInv, Threads
  <1>2. /\ UNCHANGED <<nextId, maxReceived, incoming, outgoing, resync, flushId, up, serverLoop,
                       reconnects, boot, handled>>
        /\ draft[e]["main"].stage = "allocated"
        /\ buffer' = [buffer EXCEPT ![e] = Append(@, m)]
        /\ sent' = [sent EXCEPT ![e] = @ \cup {m}]
        /\ draft' = [draft EXCEPT ![e]["main"] = [stage |-> "buffered", msg |-> m]]
    BY DEF Enbuffer, queueVars, linkVars
  <1>3. m.id = Top[e] /\ m.ack = maxReceived[e] /\ m \in Envelope
    <2>1. draft[e]["main"].msg \in Envelope
      BY <1>1, EnvelopeFacts DEF IInv
    <2>2. draft[e]["main"].msg.id = Top[e]
      BY <1>1, <1>2 DEF TopInv
    <2>3. maxReceived[e] \in Nat
      BY DEF IInv, TypeOK
    <2> QED
      BY <2>1, <2>2, <2>3 DEF Envelope
  <1> HIDE DEF m
  <1>4. /\ sent'[e] = sent[e] \cup {m} /\ buffer'[e] = Append(buffer[e], m)
        /\ \A f \in Endpoint : f # e => sent'[f] = sent[f] /\ buffer'[f] = buffer[f]
    BY <1>2 DEF IInv, TypeOK
  <1>5. /\ draft'[e]["main"].stage = "buffered" /\ draft'[e]["main"].msg = m
        /\ \A f \in Endpoint : f # e => draft'[f]["main"] = draft[f]["main"]
    <2> DEFINE a == [stage |-> "buffered", msg |-> m]
    <2>1. a.stage = "buffered" /\ a.msg = m
      OBVIOUS
    <2>2. draft' = [draft EXCEPT ![e]["main"] = a]
      BY <1>2
    <2> HIDE DEF a
    <2>3. DraftBecomes(e, "main", a)
      BY <1>1, <2>2, DraftUpdate DEF IInv
    <2> QED
      BY <1>1, <2>1, <2>3 DEF DraftBecomes
  <1>6. /\ Top[e] = nextId[e] - 1 /\ Top'[e] = nextId[e] /\ Top[e] \in Nat /\ nextId[e] \in Nat
        /\ \A f \in Endpoint : f # e => Top'[f] = Top[f]
        /\ \A f \in Endpoint : Top[f] \in Int
    <2>1. Top[e] \in Nat
      BY <1>3 DEF Envelope
    <2>2. \A f \in Endpoint : Top[f] \in Int /\ nextId[f] \in Nat
      BY TopTypes DEF IInv
    <2> QED
      BY <1>2, <1>5, <2>1, <2>2 DEF Top
  <1>7. Way' = Way /\ InFlight' = InFlight /\ (Flushing' <=> Flushing)
    BY <1>2, SameQueues
  <1>8. Plain
    BY <1>2, <1>7 DEF Plain
  <1>9. Reached' = Reached /\ Unheard' = Unheard
    BY <1>2 DEF Reached, Unheard, HandledIds
  <1>10. \A f \in Endpoint : \A x \in sent[f] : x.id \in Nat /\ x.id < Top[f]
    <2>1. \A f \in Endpoint : \A x \in sent[f] : x.id < Top[f]
      BY <1>1 DEF TopInv
    <2>2. \A f \in Endpoint : \A x \in sent[f] : x \in Envelope
      BY EnvelopeFacts DEF IInv
    <2> QED
      BY <2>1, <2>2, EnvelopeFacts DEF IInv
  <1>11. m.id = 0 => Unheard[e]
    <2> SUFFICES ASSUME m.id = 0, handled[Peer(e)] # <<>> PROVE FALSE
      BY DEF Unheard
    <2>1. handled[Peer(e)] \in Seq(sent[e])
      BY Peers DEF IInv, OnlySent
    <2>2. handled[Peer(e)][1] \in sent[e]
      BY <2>1
    <2> QED
      BY <1>3, <1>10, <2>2
  <1>12. \A f \in Endpoint : Forward(f)
    <2> SUFFICES ASSUME NEW f \in Endpoint PROVE Forward(f)
      OBVIOUS
    <2>1. Top[f] <= Top'[f]
      BY <1>6
    <2>2. \A x \in sent'[f] : x \in sent[f] \/ (x.id >= Top[f] /\ (x.id = 0 => Unheard'[f]))
      BY <1>3, <1>4, <1>6, <1>9, <1>11
    <2> QED
      BY <1>9, <2>1, <2>2 DEF Forward
  <1>13. TopInv'
    <2> SUFFICES ASSUME NEW f \in Endpoint
                 PROVE  /\ \A x \in sent'[f] : x.id < Top'[f]
                        /\ draft'[f]["main"].stage = "allocated" => draft'[f]["main"].msg.id = Top'[f]
      BY DEF TopInv
    <2>1. CASE f = e
      <3>1. m.id < Top'[e] /\ Top[e] < Top'[e]
        BY <1>3, <1>6
      <3>2. \A x \in sent[e] : x.id < Top'[e]
        BY <1>6, <1>10
      <3> QED
        BY <1>4, <1>5, <2>1, <3>1, <3>2
    <2>2. CASE f # e
      BY <1>1, <1>4, <1>5, <1>6, <2>2 DEF TopInv
    <2> QED
      BY <2>1, <2>2
  <1>14. LinkInv'
    <2>1. boot' = "connected" => ~Unheard'["client"] /\ ~Unheard'["server"]
      BY <1>1, <1>2, <1>9 DEF LinkInv
    <2>2. resync = "swapped" => draft'["client"]["main"] = draft["client"]["main"]
      <3>1. resync = "swapped" => e # "client"
        BY <1>1, <1>2 DEF LinkInv, Idle
      <3> QED
        BY <1>5, <3>1, Peers
    <2> QED
      BY <1>1, <1>2, <2>1, <2>2, LinkKept
  <1>15. FlushInv'
    BY <1>1, <1>2, <1>7, FlushKept
  <1> DEFINE d == [f \in Endpoint |-> 0]
  <1>16. Moving(d)
    BY <1>2, <1>7, Peers, PostMoves
  <1> HIDE DEF d
  <1>17. CoveredInv'
    <2> SUFFICES ASSUME NEW f \in Endpoint, Complete(f), NEW x \in sent'[f] PROVE Covers(f, x)'
      BY <1>8, PlainModes DEF CoveredInv
    <2>1. CASE f = e /\ x = m
      BY <1>5, <2>1 DEF Covers
    <2>2. CASE x \in sent[f]
      <3>1. Covers(f, x)
        BY <1>1, <2>2 DEF CoveredInv
      <3>2. draft[f]["main"].stage = "buffered" /\ draft[f]["main"].msg.id = x.id => Covers(f, x)'
        BY <1>2, <1>5 DEF Covers
      <3>3. Follows(f, 0, Len(Way[f])) /\ Len(Way[f]) \in Nat /\ Len(Way'[f]) \in Nat
        BY <1>7, SameFollows
      <3> QED
        BY <1>12, <3>1, <3>2, <3>3, CoversStays
    <2> QED
      BY <1>4, <2>1, <2>2
  <1>18. KeptInv'
    <2> SUFFICES ASSUME NEW f \in Endpoint, Keeping(f), NEW x \in sent'[f] PROVE Keeps(f, x)'
      BY <1>8, PlainModes DEF KeptInv
    <2>1. Elements(buffer[f]) \subseteq Elements(buffer'[f]) /\ (f = e => m \in Elements(buffer'[f]))
      <3>1. buffer[e] \in Seq(Envelope)
        BY DEF IInv, TypeOK
      <3>2. Elements(Append(buffer[e], m)) = Elements(buffer[e]) \cup {m}
        BY <1>3, <3>1, ElementsAppend
      <3> QED
        BY <1>4, <3>2
    <2>2. CASE f = e /\ x = m
      BY <2>1, <2>2 DEF Keeps, Ids
    <2>3. CASE x \in sent[f]
      <3>1. Keeps(f, x)
        BY <1>1, <2>3 DEF KeptInv
      <3>2. x.id \in Ids(Elements(buffer[f])) => Keeps(f, x)'
        BY <2>1 DEF Keeps, Ids
      <3> QED
        BY <1>12, <2>3, <3>1, <3>2, KeepsStays
    <2> QED
      BY <1>4, <2>2, <2>3
  <1>19. EarlyInv'
    <2> SUFFICES ASSUME NEW f \in Endpoint
                 PROVE  Early(f)' => /\ Settled(Peer(f), maxReceived[f])'
                                     /\ \A n \in sent'[f] : Settled(Peer(f), n.ack)'
      BY DEF EarlyInv
    <2>1. Early(f)' => Early(f)
      BY <1>8, PlainModes
    <2>2. Forward(Peer(f)) /\ maxReceived'[f] = maxReceived[f] /\ \A n \in sent'[f] : n \in sent[f] \/ n.ack = maxReceived'[f]
      BY <1>2, <1>3, <1>4, <1>12, Peers
    <2> QED
      BY <1>1, <2>1, <2>2, EarlyStays
  <1> QED
    BY <1>8, <1>12, <1>13, <1>14, <1>15, <1>16, <1>17, <1>18, <1>19, PlainFlow

-----------------------------------------------------------------------------
(* A loop takes an envelope that is not its barrier, and posts nothing.     *)

Takes(e) ==
    LET h == Head(incoming[e]) IN
    /\ Taking(e) /\ PopAcked(e, h) /\ h.kind \in Applications \cup {"Ack"}
    /\ maxReceived' = [maxReceived EXCEPT ![e] = h.id]
    /\ handled' = IF h.kind = "Ack" THEN handled ELSE [handled EXCEPT ![e] = Append(@, h)]
    /\ UNCHANGED <<nextId, outgoing, up, flushId, serverLoop, reconnects, draft, sent>>
    /\ boot = "connected" => boot' = "connected"
    /\ boot' # boot => e = "client" /\ h.kind = "Response"

(* In order, what is taken leaves nothing behind.                           *)
TakesFacts(e, p, h) ==
    /\ p = Peer(e) /\ h = Head(incoming[e]) /\ h \in Envelope
    /\ Way[p] # <<>> /\ Way[p][1] = h /\ Way'[p] = Tail(Way[p]) /\ Way'[e] = Way[e]
    /\ incoming'[p] = incoming[p]
    /\ Reached'[p] = (IF h.kind = "Ack" THEN Reached[p] ELSE Reached[p] \cup {h.id})
    /\ Reached'[e] = Reached[e] /\ Unheard'[e] = Unheard[e]
    /\ h.kind # "Ack" => ~Unheard'[p]
    /\ h.kind = "Ack" => Unheard'[p] = Unheard[p]
    /\ maxReceived'[e] = h.id /\ maxReceived'[p] = maxReceived[p]
    /\ Top' = Top

LEMMA TakesHave ==
    ASSUME IInv, LinkInv, AckInv, NEW e \in Endpoint, NEW p \in Endpoint, p = Peer(e),
           NEW h, h = Head(incoming[e]), Takes(e)
    PROVE  TakesFacts(e, p, h)
  <1>1. Taking(e) /\ outgoing' = outgoing /\ Peer(p) = e /\ p # e
    BY Peers DEF Takes
  <1>2. h \in Envelope /\ Way[p] # <<>> /\ Way[p][1] = h
    BY <1>1, TakenAck, TakingFlight
  <1>3. Way'[p] = Tail(Way[p]) /\ incoming'[p] = incoming[p]
    BY <1>1, WayTake
  <1>4. Way'[e] = Way[e]
    BY <1>1, <1>3 DEF Way
  <1>5. maxReceived'[e] = h.id /\ maxReceived'[p] = maxReceived[p]
    BY <1>1 DEF Takes, IInv, TypeOK
  <1>6. Top' = Top
    BY DEF Takes, Top
  <1>7. /\ Reached'[e] = Reached[e] /\ Unheard'[e] = Unheard[e]
        /\ h.kind # "Ack" => handled'[e] = Append(handled[e], h)
        /\ h.kind = "Ack" => handled'[e] = handled[e]
    BY <1>1 DEF Takes, Reached, Unheard, HandledIds, IInv, TypeOK
  <1>8. /\ Reached'[p] = (IF h.kind = "Ack" THEN Reached[p] ELSE Reached[p] \cup {h.id})
        /\ h.kind # "Ack" => ~Unheard'[p]
        /\ h.kind = "Ack" => Unheard'[p] = Unheard[p]
    <2>1. handled[e] \in Seq(Envelope)
      BY DEF IInv, TypeOK
    <2>2. CASE h.kind = "Ack"
      BY <1>1, <1>7, <2>2 DEF Reached, Unheard, HandledIds
    <2>3. CASE h.kind # "Ack"
      <3>1. Elements(Append(handled[e], h)) = Elements(handled[e]) \cup {h}
        BY <1>2, <2>1, ElementsAppend
      <3>2. Append(handled[e], h) # <<>>
        BY <1>2, <2>1
      <3>3. Ids(Elements(handled[e]) \cup {h}) = Ids(Elements(handled[e])) \cup {h.id}
        BY DEF Ids
      <3> QED
        BY <1>1, <1>7, <2>3, <3>1, <3>2, <3>3 DEF Reached, Unheard, HandledIds
    <2> QED
      BY <2>2, <2>3
  <1> QED
    BY <1>2, <1>3, <1>4, <1>5, <1>6, <1>7, <1>8 DEF TakesFacts

LEMMA TakesInOrder ==
    ASSUME IInv, OrderInv, NEW e \in Endpoint, NEW p \in Endpoint, NEW h, TakesFacts(e, p, h),
           Takes(e), InReach(p, 1)
    PROVE  Settled(p, h.id)'
  <1>1. h.kind \in Applications \cup {"Ack"}
    BY DEF Takes, TakesFacts
  <1>2. Arrives(p, 1)
    <2>1. Way[p] \in Seq(Envelope) /\ Way[p] # <<>>
      BY WayTypes DEF WayOK, TakesFacts
    <2>2. 1 \in 1..Len(Way[p])
      BY <2>1
    <2> QED
      BY <2>2 DEF OrderInv
  <1>3. /\ h.id < Top[p]
        /\ \A x \in sent[p] : x.id <= h.id => x.id \in Reached[p] \/ Comes(p, 1, x.id)
    BY <1>1, <1>2 DEF Arrives, TakesFacts
  <1>4. ASSUME NEW x \in sent[p], x.id <= h.id PROVE x.id \in Reached'[p]
    <2>1. CASE x.id \in Reached[p]
      BY <2>1 DEF TakesFacts
    <2>2. CASE Comes(p, 1, x.id)
      <3>1. PICK j \in 1..1 : Way[p][j].kind \in Applications /\ Way[p][j].id = x.id
        BY <2>2 DEF Comes
      <3>2. j = 1
        BY <3>1
      <3>3. x.id = h.id /\ h.kind # "Ack"
        BY <3>1, <3>2 DEF TakesFacts, Applications
      <3> QED
        BY <3>3 DEF TakesFacts
    <2> QED
      BY <1>3, <1>4, <2>1, <2>2
  <1>5. sent' = sent /\ Top'[p] = Top[p]
    BY DEF Takes, TakesFacts
  <1> QED
    BY <1>3, <1>4, <1>5 DEF Settled

LEMMA TakesReach ==
    ASSUME IInv, NEW e \in Endpoint, NEW p \in Endpoint, NEW h, TakesFacts(e, p, h), Takes(e), Early(e)
    PROVE  InReach(p, 1)
  <1>1. h.kind # "FlushBufferedMessages" /\ Way[p][1] = h
    BY DEF Takes, TakesFacts, Applications
  <1>2. CASE e = "server"
    <2>1. p = "client"
      BY <1>2 DEF TakesFacts, Peer
    <2>2. \A j \in 1..1 : Way[p][j].kind # "FlushBufferedMessages"
      BY <1>1
    <2> QED
      BY <1>2, <2>1, <2>2 DEF Early, InReach
  <1>3. CASE e = "client"
    <2>1. p = "server"
      BY <1>3 DEF TakesFacts, Peer
    <2>2. reconnects = 0
      BY <1>3 DEF Early, Takes, Taking, MainFree
    <2>3. incoming["client"] \in Seq(Envelope) /\ incoming["client"] # <<>>
      BY <1>3 DEF Takes, Taking, IInv, TypeOK
    <2>4. 1 <= Len(incoming["client"])
      BY <2>3
    <2> QED
      BY <2>1, <2>2, <2>4 DEF InReach
  <1> QED
    BY <1>2, <1>3 DEF Endpoint

LEMMA TakesForward ==
    ASSUME IInv, LinkInv, OrderInv, NEW e \in Endpoint, NEW p \in Endpoint, NEW h, TakesFacts(e, p, h), Takes(e)
    PROVE  \A f \in Endpoint : Forward(f)
  <1>1. \A f \in Endpoint : f = e \/ f = p
    BY DEF TakesFacts, Endpoint, Peer
  <1>2. sent' = sent /\ \A f \in Endpoint : Top[f] <= Top'[f]
    <2>1. \A f \in Endpoint : Top[f] \in Int
      BY TopTypes DEF IInv
    <2> QED
      BY <2>1 DEF Takes, TakesFacts
  <1>3. Forward(e)
    BY <1>2 DEF TakesFacts, Forward
  <1>4. Forward(p)
    <2>1. Reached[p] \subseteq Reached'[p]
      BY DEF TakesFacts
    <2>2. ASSUME Unheard[p], ~Unheard'[p], NEW x \in sent[p], x.id = 0 PROVE x.id \in Reached'[p]
      <3>1. First
        <4>1. boot # "connected"
          BY <2>2 DEF LinkInv, Endpoint
        <4> QED
          BY <4>1 DEF LinkInv
      <3>2. Early(e)
        BY <3>1 DEF First, Early, Flushed
      <3>3. InReach(p, 1)
        BY <3>2, TakesReach
      <3>4. Settled(p, h.id)'
        BY <3>3, TakesInOrder
      <3>5. h.id \in Nat
        BY EnvelopeFacts DEF IInv, TakesFacts
      <3>6. x \in sent'[p] /\ x.id <= h.id
        BY <1>2, <2>2, <3>5
      <3> QED
        BY <2>2, <3>4, <3>6 DEF Settled
    <2> QED
      BY <1>2, <2>1, <2>2 DEF Forward
  <1> QED
    BY <1>1, <1>3, <1>4

LEMMA TakesCovered ==
    ASSUME IInv, IInv', CoveredInv, NEW e \in Endpoint, NEW p \in Endpoint, NEW h, TakesFacts(e, p, h), Takes(e),
           NEW f \in Endpoint, Forward(f), Complete(f)
    PROVE  \A x \in sent'[f] : Covers(f, x)'
  <1> SUFFICES ASSUME NEW x \in sent[f] PROVE Covers(f, x)'
    BY DEF Takes
  <1>1. Covers(f, x)
    BY DEF CoveredInv
  <1>2. draft[f]["main"].stage = "buffered" /\ draft[f]["main"].msg.id = x.id => Covers(f, x)'
    BY DEF Takes, Covers
  <1>3. Way[f] \in Seq(Envelope) /\ Way'[f] \in Seq(Envelope)
    BY WayTypes, WayTypesNext DEF WayOK
  <1>4. Len(Way[f]) \in Nat /\ Len(Way'[f]) \in Nat
    BY <1>3
  <1>5. CASE f = p
    <2>1. Way[f][1].kind \in Applications => Way[f][1].id \in Reached'[f]
      BY <1>5 DEF TakesFacts, Applications
    <2>2. Way[f] # <<>> /\ Way'[f] = Tail(Way[f])
      BY <1>5 DEF TakesFacts
    <2>3. Follows(f, 1, Len(Way[f]) - 1) /\ Len(Way[f]) - 1 \in Nat
      BY <2>1, <2>2, TakeFollows
    <2>4. (Len(Way[f]) - 1) + 1 = Len(Way[f])
      BY <1>4
    <2> DEFINE n == Len(Way[f]) - 1
    <2>5. n \in Nat /\ Follows(f, 1, n) /\ n + 1 = Len(Way[f])
      BY <2>3, <2>4
    <2> HIDE DEF n
    <2> QED
      BY <1>1, <1>2, <1>4, <2>5, CoversStays
  <1>6. CASE f # p
    <2>1. Way'[f] = Way[f]
      BY <1>6 DEF TakesFacts, Endpoint, Peer
    <2>2. Follows(f, 0, Len(Way[f]))
      BY <2>1, SameFollows
    <2> QED
      BY <1>1, <1>2, <1>4, <2>2, CoversStays
  <1> QED
    BY <1>5, <1>6

LEMMA TakesKept ==
    ASSUME IInv, LinkInv, AckInv, KeptInv, NEW e \in Endpoint, Takes(e),
           NEW f \in Endpoint, Forward(e), Forward(f), Keeping(f)
    PROVE  \A x \in sent'[f] : Keeps(f, x)'
  <1> SUFFICES ASSUME NEW x \in sent[f] PROVE Keeps(f, x)'
    BY DEF Takes
  <1>1. Keeps(f, x)
    BY DEF KeptInv
  <1>2. x.id \in Ids(Elements(buffer[f])) => Keeps(f, x)'
    <2> SUFFICES ASSUME x.id \in Ids(Elements(buffer[f])) PROVE Keeps(f, x)'
      OBVIOUS
    <2>1. Taking(e) /\ PopAcked(e, Head(incoming[e]))
      BY DEF Takes
    <2>2. Keeps(f, x)' \/ buffer'[f] = buffer[f]
      BY <2>1, TakingKeeps
    <2> QED
      BY <2>2 DEF Keeps
  <1> QED
    BY <1>1, <1>2, KeepsStays

LEMMA TakesLink ==
    ASSUME IInv, LinkInv, AnswerInv, NEW e \in Endpoint, NEW p \in Endpoint, NEW h, TakesFacts(e, p, h), Takes(e),
           resync' = resync \/ (resync = "waiting" /\ resync' = "resuming")
    PROVE  LinkInv'
  <1>1. \A f \in Endpoint : f = e \/ f = p
    BY DEF TakesFacts, Endpoint, Peer
  <1>2. \A f \in Endpoint : ~Unheard[f] => ~Unheard'[f]
    BY <1>1 DEF TakesFacts
  <1>3. boot' = "connected" => ~Unheard'["client"] /\ ~Unheard'["server"]
    <2>1. CASE boot = "connected"
      BY <1>2, <2>1, Peers DEF LinkInv
    <2>2. CASE boot # "connected" /\ boot' = "connected"
      <3>1. e = "client" /\ h.kind = "Response" /\ p = "server"
        BY <2>2 DEF Takes, TakesFacts, Peer
      <3>2. ~Unheard'["server"]
        BY <3>1 DEF TakesFacts
      <3>3. h \in sent["server"]
        BY <3>1, TakingFlight DEF Takes, TakesFacts, Applications
      <3>4. h.resp \in TakenIds["server"]
        BY <3>1, <3>3, Peers DEF AnswerInv, ResponsesAnswer
      <3>5. handled["server"] # <<>>
        <4>1. PICK n \in Elements(handled["server"]) : TRUE
          BY <3>4, Peers DEF TakenIds
        <4>2. Elements(<<>>) = {}
          BY DEF Elements
        <4> QED
          BY <4>1, <4>2
      <3>6. ~Unheard["client"]
        BY <3>5, Peers DEF Unheard, Peer
      <3> QED
        BY <1>2, <3>2, <3>6, Peers
    <2> QED
      BY <2>1, <2>2
  <1>4. /\ UNCHANGED <<reconnects, up, serverLoop, outgoing, draft>>
        /\ boot = "connected" => boot' = "connected"
    BY DEF Takes
  <1>5. CASE resync' = resync
    BY <1>3, <1>4, <1>5, LinkKept
  <1>6. CASE resync = "waiting" /\ resync' = "resuming"
    BY <1>3, <1>4, <1>6 DEF LinkInv, First
  <1> QED
    BY <1>5, <1>6

LEMMA TakesTop ==
    ASSUME TypeOK, TypeOK', TopInv, NEW e, Takes(e)
    PROVE  TopInv'
  <1>1. sent' = sent /\ draft' = draft /\ nextId' = nextId
    BY DEF Takes
  <1> QED
    BY <1>1, TopKept

LEMMA TakesFlow ==
    ASSUME FlowInv, IInv, IInv', AnswerInv, NEW e \in Endpoint, Takes(e), resync' = resync,
           ~Barrier(e, Head(incoming[e]))
    PROVE  FlowInv'
  <1>1. /\ TopInv /\ LinkInv /\ FlushInv /\ KeptInv /\ CoveredInv /\ EarlyInv /\ OrderInv /\ AckInv
    BY DEF FlowInv
  <1>2. PICK p \in Endpoint : p = Peer(e)
    BY Peers
  <1>3. PICK h : h = Head(incoming[e])
    OBVIOUS
  <1>4. TakesFacts(e, p, h)
    BY <1>1, <1>2, <1>3, TakesHave
  <1>5. \A f \in Endpoint : Forward(f)
    BY <1>1, <1>4, TakesForward
  <1>6. TopInv' /\ LinkInv'
    BY <1>1, <1>4, TakesLink, TakesTop DEF IInv
  <1>7. h.kind \in Applications \cup {"Ack"} /\ ~Barrier(e, h)
    BY <1>3 DEF Takes
  <1>8. FlushInv' /\ (Flushing' <=> Flushing)
    <2>1. \A f \in Endpoint : f = e \/ f = p
      BY <1>2 DEF Endpoint, Peer
    <2>2. InFlight'[e] = InFlight[e] /\ InFlight[p] = InFlight'[p] \cup {h}
      BY <1>4, InFlightMoves DEF TakesFacts
    <2>3. \A f \in Endpoint : InFlight'[f] \subseteq InFlight[f] /\ InFlight[f] \subseteq InFlight'[f] \cup {h}
      BY <2>1, <2>2
    <2>4. Flushing => Flushing'
      BY <1>7, <2>3, Peers DEF Flushing, Applications
    <2>5. (\E n \in InFlight'["server"] : Barrier("client", n)) <=> (\E n \in InFlight["server"] : Barrier("client", n))
      <3>1. CASE e = "client"
        BY <1>7, <2>3, <3>1, Peers
      <3>2. CASE e = "server"
        BY <2>2, <3>2
      <3> QED
        BY <3>1, <3>2 DEF Endpoint
    <2>6. \A m \in InFlight'["client"] : m \in InFlight["client"]
      BY <2>3, Peers
    <2>7. flushId' = flushId
      BY DEF Takes
    <2> QED
      BY <1>1, <2>4, <2>5, <2>6, <2>7, FlushKept
  <1>9. Plain
    BY <1>8 DEF Plain, Takes
  <1> DEFINE d == [f \in Endpoint |-> IF f = p THEN 1 ELSE 0]
  <1>10. Moving(d)
    <2>1. /\ Taking(e) /\ Way[p] # <<>> /\ Way'[p] = Tail(Way[p]) /\ incoming'[p] = incoming[p]
          /\ Way'[e] = Way[e] /\ Way[p][1] = h
      BY <1>4 DEF Takes, TakesFacts
    <2>2. /\ Way[p][1].kind # "FlushBufferedMessages" /\ ~Barrier(e, Way[p][1])
          /\ Way[p][1].kind \in Applications => Way[p][1].id \in Reached'[p]
      BY <1>4, <1>7, <2>1 DEF TakesFacts, Applications
    <2> QED
      BY <1>2, <2>1, <2>2, TakeMoves
  <1> HIDE DEF d
  <1>11. CoveredInv'
    <2> SUFFICES ASSUME NEW f \in Endpoint, Complete(f) PROVE \A x \in sent'[f] : Covers(f, x)'
      BY <1>9, PlainModes DEF CoveredInv
    <2> QED
      BY <1>1, <1>4, <1>5, TakesCovered
  <1>12. KeptInv'
    <2> SUFFICES ASSUME NEW f \in Endpoint, Keeping(f) PROVE \A x \in sent'[f] : Keeps(f, x)'
      BY <1>9, PlainModes DEF KeptInv
    <2> QED
      BY <1>1, <1>5, TakesKept
  <1>13. EarlyInv'
    <2> SUFFICES ASSUME NEW f \in Endpoint
                 PROVE  Early(f)' => /\ Settled(Peer(f), maxReceived[f])'
                                     /\ \A n \in sent'[f] : Settled(Peer(f), n.ack)'
      BY DEF EarlyInv
    <2>1. Early(f)' => Early(f)
      BY <1>9, PlainModes
    <2>2. Early(f)' => maxReceived'[f] = maxReceived[f] \/ Settled(Peer(f), maxReceived[f])'
      <3>1. CASE f = e
        <4> SUFFICES ASSUME Early(f)' PROVE Settled(Peer(f), maxReceived[f])'
          OBVIOUS
        <4>1. InReach(p, 1)
          BY <1>4, <2>1, <3>1, TakesReach
        <4>2. Settled(p, h.id)'
          BY <1>1, <1>4, <4>1, TakesInOrder
        <4>3. maxReceived'[f] = h.id /\ Peer(f) = p
          BY <1>2, <1>4, <3>1 DEF TakesFacts
        <4> QED
          BY <4>2, <4>3 DEF Settled
      <3>2. CASE f # e
        BY <1>2, <1>4, <3>2 DEF TakesFacts, Endpoint, Peer
      <3> QED
        BY <3>1, <3>2
    <2>3. Forward(Peer(f)) /\ \A n \in sent'[f] : n \in sent[f]
      BY <1>5, Peers DEF Takes
    <2> QED
      BY <1>1, <2>1, <2>2, <2>3, EarlyStays
  <1> QED
    BY <1>5, <1>6, <1>8, <1>9, <1>10, <1>11, <1>12, <1>13, PlainFlow

(* The client takes the answer to its flush request.                        *)
LEMMA BarrierFlow ==
    ASSUME FlowInv, IInv, IInv', AnswerInv, NEW e \in Endpoint, Takes(e), e = "client",
           resync = "waiting", resync' = "resuming", Barrier(e, Head(incoming[e]))
    PROVE  FlowInv'
  <1>1. /\ TopInv /\ LinkInv /\ FlushInv /\ KeptInv /\ CoveredInv /\ EarlyInv /\ OrderInv /\ AckInv
    BY DEF FlowInv
  <1>2. PICK p \in Endpoint : p = Peer(e)
    BY Peers
  <1>3. PICK h : h = Head(incoming[e])
    OBVIOUS
  <1>4. TakesFacts(e, p, h) /\ p = "server"
    BY <1>1, <1>2, <1>3, TakesHave DEF Peer
  <1>5. \A f \in Endpoint : Forward(f)
    BY <1>1, <1>4, TakesForward
  <1>6. TopInv' /\ LinkInv'
    BY <1>1, <1>4, TakesLink, TakesTop DEF IInv
  <1>7. /\ UNCHANGED <<reconnects, up, flushId, sent>> /\ reconnects = 1
    BY <1>1 DEF Takes, LinkInv
  <1>8. ~Flushing
    <2>1. h \in InFlight["server"]
      BY <1>3, <1>4, TakingFlight DEF Takes, TakesFacts
    <2> QED
      BY <1>1, <1>3, <2>1 DEF FlushInv
  <1>9. ~Flushing'
    <2>1. InFlight'["client"] = InFlight["client"]
      BY <1>4, InFlightMoves DEF TakesFacts
    <2> QED
      BY <1>8, <2>1 DEF Flushing
  <1>10. Flushed /\ Flushed' /\ ~Resent /\ ~Resent' /\ ~First /\ ~First'
    BY <1>7, <1>8, <1>9 DEF Flushed, Resent, First
  <1>11. FlushInv'
    BY <1>9 DEF FlushInv, Flushing
  <1>12. OrderInv' /\ EarlyInv' /\ AckInv'
    BY <1>7, <1>10 DEF OrderInv, InReach, EarlyInv, Early, AckInv, Before
  <1>13. CoveredInv'
    <2> SUFFICES ASSUME NEW f \in Endpoint, Complete(f)' PROVE \A x \in sent'[f] : Covers(f, x)'
      BY DEF CoveredInv
    <2>1. Complete(f)
      BY <1>10 DEF Complete
    <2> QED
      BY <1>1, <1>4, <1>5, <2>1, TakesCovered
  <1>14. KeptInv'
    <2> SUFFICES ASSUME NEW f \in Endpoint, Keeping(f)' PROVE \A x \in sent'[f] : Keeps(f, x)'
      BY DEF KeptInv
    <2>1. Keeping(f)
      BY <1>10 DEF Keeping
    <2> QED
      BY <1>1, <1>5, <2>1, TakesKept
  <1> QED
    BY <1>6, <1>11, <1>12, <1>13, <1>14 DEF FlowInv

LEMMA HandleAnswerFlow ==
    ASSUME FlowInv, IInv, IInv', AnswerInv, NEW e \in Endpoint, HandleAnswer(e)
    PROVE  FlowInv'
  <1>1. Takes(e)
    <2>1. Head(incoming[e]).kind \in {"Ack", "Response"}
      BY DEF HandleAnswer
    <2>2. Head(incoming[e]).kind # "Response" <=> Head(incoming[e]).kind = "Ack"
      BY <2>1
    <2> QED
      BY <2>1, <2>2 DEF HandleAnswer, Takes, Applications
  <1>2. CASE e = "client" /\ resync = "waiting" /\ Head(incoming[e]).resp = flushId
    <2>1. resync' = "resuming" /\ Barrier(e, Head(incoming[e]))
      BY <1>2 DEF HandleAnswer, Barrier
    <2> QED
      BY <1>1, <1>2, <2>1, BarrierFlow
  <1>3. CASE ~(e = "client" /\ resync = "waiting" /\ Head(incoming[e]).resp = flushId)
    <2>1. resync' = resync
      BY <1>3 DEF HandleAnswer
    <2>2. ~Barrier(e, Head(incoming[e]))
      <3>1. Head(incoming[e]).kind # "FlushBufferedMessages"
        BY DEF HandleAnswer
      <3>2. e = "client" \/ e = "server"
        BY DEF Endpoint
      <3> QED
        BY <1>3, <3>1, <3>2 DEF Barrier
    <2> QED
      BY <1>1, <2>1, <2>2, TakesFlow
  <1> QED
    BY <1>2, <1>3

LEMMA HandleMessageFlow ==
    ASSUME FlowInv, IInv, IInv', AnswerInv, NEW e \in Endpoint, HandleMessage(e)
    PROVE  FlowInv'
  <1>1. Head(incoming[e]).kind \in {"Notice", "Request"}
    BY DEF HandleMessage
  <1>2. Takes(e)
    BY <1>1 DEF HandleMessage, Takes, Applications, linkVars
  <1>3. resync' = resync
    BY DEF HandleMessage, linkVars
  <1>4. ~Barrier(e, Head(incoming[e]))
    BY <1>1 DEF Barrier
  <1> QED
    BY <1>2, <1>3, <1>4, TakesFlow

-----------------------------------------------------------------------------
(* The daemon takes the flush request: it posts its buffer again.           *)
LEMMA HandleFlushFlow ==
    ASSUME FlowInv, IInv, IInv', AnswerInv, CopyInv, NEW e \in Endpoint, HandleFlush(e)
    PROVE  FlowInv'
  <1> DEFINE h == Head(incoming[e])
             a == AckEnvelope(nextId[e], h.id)
             b == buffer'[e]
             msgs == Append(b, a)
  <1>1. /\ TopInv /\ LinkInv /\ FlushInv /\ KeptInv /\ CoveredInv /\ EarlyInv /\ OrderInv /\ AckInv
    BY DEF FlowInv
  <1>2. /\ UNCHANGED <<maxReceived, resync, flushId, up, serverLoop, reconnects, boot, draft, handled, sent>>
        /\ Taking(e) /\ PopAcked(e, h) /\ Post(e, msgs) /\ h.kind = "FlushBufferedMessages"
        /\ nextId' = [nextId EXCEPT ![e] = @ + 1]
    BY DEF HandleFlush, linkVars, appVars
  <1>3. h \in InFlight[Peer(e)] /\ h \in Envelope
    BY <1>2, TakingFlight
  <1>4. e = "server" /\ Peer(e) = "client" /\ Peer("client") = e
    BY <1>2, <1>3 DEF CopyInv, ClientFlushes, Endpoint, Peer
  <1>5. resync = "waiting" /\ h.id = flushId
    BY <1>1, <1>2, <1>3, <1>4 DEF FlushInv
  <1>6. Flushing
    BY <1>2, <1>3, <1>4 DEF Flushing
  <1>7. reconnects = 1 /\ boot = "connected" /\ ~Unheard["client"] /\ ~Unheard["server"]
    BY <1>1, <1>5 DEF LinkInv, First
  <1>8. a \in Envelope /\ a.kind = "Ack" /\ a.ack = None /\ a.resp = flushId
    <2>1. nextId[e] \in Nat
      BY DEF IInv, TypeOK
    <2>2. h.id \in Nat
      BY <1>3, EnvelopeFacts DEF IInv
    <2> QED
      BY <1>5, <2>1, <2>2, ConstantTypes DEF AckEnvelope
  <1>9. nextId'[e] = nextId[e] + 1 /\ nextId[e] \in Nat /\ \A f \in Endpoint : f # e => nextId'[f] = nextId[f]
    BY <1>2 DEF IInv, TypeOK
  <1>10. draft[e]["main"].stage = "idle"
    BY <1>2 DEF Taking, MainFree, Idle
  <1>11. /\ b \in Seq(sent[e]) /\ b \in Seq(Envelope) /\ buffer'["client"] = buffer["client"]
    <2>1. b \in Seq(sent[e])
      BY <1>2, PopAckedSent DEF IInv
    <2>2. b \in Seq(Envelope)
      BY DEF IInv, TypeOK
    <2>3. buffer'["client"] = buffer["client"]
      BY <1>2, <1>4 DEF PopAcked, IInv, TypeOK
    <2> QED
      BY <2>1, <2>2, <2>3
  <1>12. Way["client"][1] = h
    BY <1>1, <1>2, <1>4, TakenAck
  <1> HIDE DEF a
  <1>13. /\ msgs \in Seq(Envelope) /\ Len(msgs) = Len(b) + 1 /\ Len(b) \in Nat
         /\ msgs[Len(b) + 1] = a
         /\ \A i \in 1..Len(b) : msgs[i] = b[i]
         /\ Elements(msgs) = Elements(b) \cup {a}
    <2> HIDE DEF b
    <2>1. Elements(msgs) = Elements(b) \cup {a}
      BY <1>8, <1>11, ElementsAppend
    <2> QED
      BY <1>8, <1>11, <2>1
  <1>14. \A i \in 1..Len(b) : b[i] \in sent[e] /\ b[i].kind \in Applications
    <2>1. \A i \in 1..Len(b) : b[i] \in sent[e]
      BY <1>11
    <2> QED
      BY <2>1 DEF AnswerInv, Numbering
  <1> HIDE DEF h, msgs
  <1>15. /\ Way["client"] # <<>> /\ Way'["client"] = Tail(Way["client"])
         /\ Way'[e] = Way[e] \o msgs
    BY <1>2, <1>4, <1>13, WayTakePost
  <1>16. TopInv' /\ \A f \in Endpoint : Top[f] <= Top'[f]
    <2>1. \A f \in Endpoint : \/ nextId'[f] = nextId[f]
                              \/ nextId'[f] = nextId[f] + 1 /\ draft[f]["main"].stage # "allocated"
      BY <1>9, <1>10
    <2> QED
      BY <1>1, <1>2, <2>1, TopKept DEF IInv
  <1>17. Reached' = Reached /\ Unheard' = Unheard
    BY <1>2 DEF Reached, Unheard, HandledIds
  <1>18. \A f \in Endpoint : Forward(f)
    BY <1>2, <1>16, <1>17 DEF Forward
  <1>19. LinkInv'
    <2>1. boot' = "connected" => ~Unheard'["client"] /\ ~Unheard'["server"]
      BY <1>1, <1>2, <1>17 DEF LinkInv
    <2>2. outgoing'["client"] = outgoing["client"]
      BY <1>2, <1>4, Peers DEF Post, IInv, TypeOK
    <2> QED
      BY <1>1, <1>2, <2>1, <2>2, LinkKept
  <1>20. ~Flushing'
    <2> SUFFICES ASSUME NEW i \in 1..Len(Way'["client"]), Way'["client"][i].kind = "FlushBufferedMessages" PROVE FALSE
      BY FlushingOnWayNext DEF FlushSeen
    <2>1. Way["client"] \in Seq(Envelope)
      BY Peers, WayTypes DEF WayOK
    <2>2. i + 1 \in 1..Len(Way["client"]) /\ Way'["client"][i] = Way["client"][i + 1] /\ 1 \in 1..Len(Way["client"]) /\ i + 1 # 1
      BY <1>15, <2>1
    <2>3. reconnects \in {0, 1}
      BY <1>7
    <2> QED
      BY <1>2, <1>12, <2>2, <2>3, OneFlush
  <1>21. Flushed' /\ ~Flushed /\ ~Resent /\ ~Resent' /\ ~First /\ ~First' /\ reconnects' = 1
    BY <1>2, <1>5, <1>6, <1>7, <1>20, <1>1 DEF Flushed, Resent, First
  <1>22. a \in InFlight'["server"]
    <2>1. InFlight'[e] = InFlight[e] \cup Elements(msgs)
      BY <1>13, <1>15, InFlightMoves
    <2> QED
      BY <1>4, <1>13, <2>1
  <1>23. FlushInv'
    <2>1. PICK w : w = a
      OBVIOUS
    <2>2. w \in InFlight'["server"] /\ w.kind = "Ack" /\ w.resp = flushId
      BY <1>8, <1>22, <2>1
    <2>3. Barrier("client", w)'
      BY <1>2, <1>5, <2>2 DEF Barrier
    <2>4. ~\A n \in InFlight'["server"] : ~Barrier("client", n)'
      BY <2>2, <2>3
    <2>5. ~Flushing' /\ flushId' > 0
      BY <1>1, <1>2, <1>5, <1>20 DEF FlushInv
    <2> QED
      BY <2>4, <2>5 DEF FlushInv, Flushing
  <1>24. OrderInv' /\ EarlyInv'
    BY <1>2, <1>5, <1>21 DEF OrderInv, InReach, EarlyInv, Early
  <1>25. /\ Follows(e, 0, Len(Way[e]))
         /\ Len(Way'[e]) = Len(Way[e]) + Len(msgs)
         /\ \A i \in (Len(Way[e]) + 1)..Len(Way'[e]) :
                /\ i - Len(Way[e]) \in 1..Len(msgs)
                /\ Way'[e][i] = msgs[i - Len(Way[e])]
    BY <1>13, <1>15, PostFollows
  <1>26. Len(Way[e]) \in Nat /\ Len(msgs) \in Nat
    <2>1. Way[e] \in Seq(Envelope)
      BY WayTypes DEF WayOK
    <2> QED
      BY <1>13, <2>1
  <1>27. CoveredInv'
    <2> SUFFICES ASSUME NEW x \in sent[e] PROVE Covers(e, x)'
      BY <1>2, <1>4, <1>21 DEF CoveredInv, Complete, Endpoint
    <2>1. Keeps(e, x)
      BY <1>1, <1>4, <1>21 DEF KeptInv, Keeping
    <2>2. x.id \in Ids(Elements(buffer[e])) => Keeps(e, x)'
      <3>1. Settled(e, h.ack)
        <4>1. Before(e)
          BY <1>4, <1>21 DEF Before
        <4> QED
          BY <1>1, <1>2, <4>1, TakenAck DEF h
      <3> QED
        BY <1>2, <1>18, <3>1, PopKeeps
    <2>3. Keeps(e, x)'
      BY <1>18, <2>1, <2>2, KeepsStays
    <2>4. CASE x.id \in Reached'[e]
      BY <2>4 DEF Covers
    <2>5. CASE x.id \in Ids(Elements(b))
      <3>1. PICK i \in 1..Len(b) : b[i].id = x.id
        BY <2>5 DEF Ids, Elements
      <3>2. i + Len(Way[e]) \in 1..Len(Way'[e]) /\ i \in 1..Len(msgs)
            /\ i + Len(Way[e]) \in (Len(Way[e]) + 1)..Len(Way'[e]) /\ (i + Len(Way[e])) - Len(Way[e]) = i
        <4> DEFINE k == Len(Way[e])
                   l == Len(Way'[e])
                   n == Len(msgs)
                   o == Len(b)
        <4>1. k \in Nat /\ n \in Nat /\ o \in Nat /\ n = o + 1 /\ l = k + n /\ i \in 1..o
          BY <1>13, <1>25, <1>26
        <4> HIDE DEF k, l, n, o
        <4>2. i + k \in 1..l /\ i \in 1..n /\ i + k \in (k + 1)..l /\ (i + k) - k = i
          BY <4>1
        <4> QED
          BY <4>2 DEF k, l, n
      <3>3. Way'[e][i + Len(Way[e])] = b[i]
        BY <1>13, <1>25, <3>2
      <3> QED
        BY <1>14, <3>1, <3>2, <3>3 DEF Covers, Comes
    <2>6. CASE x.id = 0 /\ Unheard'[e]
      BY <1>4, <1>7, <1>17, <2>6
    <2> QED
      BY <2>3, <2>4, <2>5, <2>6 DEF Keeps
  <1>28. KeptInv'
    <2> SUFFICES ASSUME NEW x \in sent["client"] PROVE Keeps("client", x)'
      BY <1>2, <1>21 DEF KeptInv, Keeping, Endpoint
    <2>1. Keeps("client", x)
      BY <1>1, <1>21, Peers DEF KeptInv, Keeping
    <2> QED
      BY <1>11, <1>17, <2>1 DEF Keeps
  <1>29. AckInv'
    <2> DEFINE c == "client"
    <2>1. c \in Endpoint /\ e = Peer(c) /\ \A f \in Endpoint : f = c \/ f = e
      BY <1>4 DEF Endpoint, Peer
    <2>2. ~Before(e)'
      BY <1>4, <1>21 DEF Before
    <2>3. ASSUME NEW i \in (Len(Way[e]) + 1)..Len(Way'[e]) PROVE Settled(c, Way[e][i].ack)'
      <3>1. i - Len(Way[e]) \in 1..Len(msgs) /\ Way'[e][i] = msgs[i - Len(Way[e])]
        BY <1>25
      <3>2. PICK j \in 1..Len(msgs) : Way'[e][i] = msgs[j]
        BY <3>1
      <3>3. CASE j = Len(b) + 1
        <4>1. Way'[e][i].ack = None
          BY <1>8, <1>13, <3>2, <3>3
        <4>2. Settled(c, None)'
          BY <2>1, NoneSettledNext DEF IInv
        <4> QED
          BY <4>1, <4>2 DEF Settled, None
      <3>4. CASE j # Len(b) + 1
        <4>1. j \in 1..Len(b)
          BY <1>13, <3>4
        <4>2. Way'[e][i] = b[j] /\ b[j] \in sent[e]
          BY <1>13, <1>14, <3>2, <4>1
        <4>3. Settled(c, b[j].ack)
          <5>1. Early(e)
            BY <1>4, <1>21 DEF Early
          <5> QED
            BY <1>1, <1>4, <4>2, <5>1 DEF EarlyInv
        <4>4. b[j].ack \in Int
          <5>1. b[j] \in Envelope
            BY <1>11, <4>1
          <5> QED
            BY <5>1 DEF Envelope, None
        <4>5. PICK n \in Int : n = b[j].ack
          BY <4>4
        <4>6. Settled(c, n)'
          BY <1>18, <2>1, <4>3, <4>5, SettledStays DEF IInv
        <4> QED
          BY <4>2, <4>5, <4>6 DEF Settled
      <3> QED
        BY <3>3, <3>4
    <2>4. Before(c)' => Before(c)
      BY <1>2 DEF Before
    <2>5. \A m : Barrier(c, m) => Barrier(c, m)'
      BY <1>2 DEF Barrier
    <2> HIDE DEF c
    <2>6. Before(c)' => \A i \in 1..Len(Way'[e]) :
               (\A j \in 1..(i - 1) : ~Barrier(c, Way[e][j])') => Settled(c, Way[e][i].ack)'
      <3>1. Forward(c)
        BY <1>18, <2>1
      <3>2. \A i \in (Len(Way[e]) + 1)..Len(Way'[e]) :
               Before(c)' /\ (\A j \in 1..(i - 1) : ~Barrier(c, Way[e][j])') => Settled(c, Way[e][i].ack)'
        BY <2>3
      <3>3. Before(c)' => \A j \in 1..0 : ~Barrier(c, Way[e][j])
        OBVIOUS
      <3> QED
        BY <1>1, <1>25, <1>26, <2>1, <2>4, <2>5, <3>1, <3>2, <3>3, AckStays
    <2> QED
      BY <2>1, <2>2, <2>6 DEF AckInv
  <1> QED
    BY <1>16, <1>19, <1>23, <1>24, <1>27, <1>28, <1>29 DEF FlowInv

-----------------------------------------------------------------------------
(* A connection is lost, and made again.                                    *)

LEMMA SameSettled ==
    ASSUME sent' = sent, handled' = handled, draft' = draft, nextId' = nextId
    PROVE  /\ Top' = Top /\ Reached' = Reached /\ Unheard' = Unheard
           /\ \A e \in Endpoint, n \in Int : Settled(e, n)' <=> Settled(e, n)
  <1>1. Top' = Top /\ Reached' = Reached /\ Unheard' = Unheard
    BY DEF Top, Reached, Unheard, HandledIds
  <1> QED
    BY <1>1 DEF Settled

LEMMA SameForward ==
    ASSUME TypeOK, sent' = sent, handled' = handled, draft' = draft, nextId' = nextId
    PROVE  \A e \in Endpoint : Forward(e)
  <1>1. \A e \in Endpoint : Top[e] \in Int
    BY TopTypes
  <1> QED
    BY <1>1, SameSettled DEF Forward

(* Every acknowledgement on its way to e, up to e's barrier, is settled.    *)
AckSettled(e) == \A i \in 1..Len(Way[Peer(e)]) :
    (\A j \in 1..(i - 1) : ~Barrier(e, Way[Peer(e)][j])) => Settled(e, Way[Peer(e)][i].ack)

LEMMA AckAll ==
    ASSUME IInv, AckInv, NEW e \in Endpoint, NEW p \in Endpoint, p = Peer(e), Before(e),
           \A m \in InFlight[p] : ~Barrier(e, m)
    PROVE  \A m \in InFlight[p] : m.ack \in Int /\ Settled(e, m.ack)
  <1>1. Way[p] \in Seq(Envelope) /\ Elements(Way[p]) = InFlight[p]
    BY WayTypes DEF WayOK
  <1>2. \A i \in 1..Len(Way[p]) : Way[p][i] \in Envelope /\ Way[p][i] \in InFlight[p]
    BY <1>1, WayElements
  <1>3. \A i \in 1..Len(Way[p]) : \A j \in 1..(i - 1) : j \in 1..Len(Way[p])
    BY <1>1
  <1>4. \A i \in 1..Len(Way[p]) : Settled(e, Way[p][i].ack)
    BY <1>2, <1>3 DEF AckInv
  <1>5. \A m \in InFlight[p] : \E i \in 1..Len(Way[p]) : Way[p][i] = m
    BY <1>1, WayElements
  <1>6. \A m \in Envelope : m.ack \in Int
    BY DEF Envelope, None
  <1> QED
    BY <1>2, <1>4, <1>5, <1>6

LEMMA AckFromNext ==
    ASSUME IInv', NEW e \in Endpoint, \A m \in InFlight'[Peer(e)] : Settled(e, m.ack)'
    PROVE  AckSettled(e)'
  <1>1. Way'[Peer(e)] \in Seq(Envelope) /\ Elements(Way'[Peer(e)]) = InFlight'[Peer(e)]
    BY Peers, WayTypesNext DEF WayOK, Elements
  <1>2. \A i \in 1..Len(Way'[Peer(e)]) : Way'[Peer(e)][i] \in InFlight'[Peer(e)]
    BY <1>1, WayElements
  <1>3. \A i \in 1..Len(Way'[Peer(e)]) : Settled(e, Way[Peer(e)][i].ack)'
    BY <1>2 DEF Settled
  <1> QED
    BY <1>3 DEF AckSettled

LEMMA DisconnectFlow ==
    ASSUME MaxReconnects <= 1, FlowInv, IInv, IInv', CopyInv, Disconnect
    PROVE  FlowInv'
  <1>1. /\ TopInv /\ LinkInv /\ FlushInv /\ KeptInv /\ CoveredInv /\ EarlyInv /\ OrderInv /\ AckInv
    BY DEF FlowInv
  <1>2. /\ UNCHANGED <<nextId, buffer, maxReceived, incoming, resync, flushId,
                       reconnects, boot, draft, handled, sent>>
        /\ up /\ boot = "connected" /\ reconnects < MaxReconnects /\ ~up'
        /\ outgoing' = [outgoing EXCEPT !["client"] = <<>>]
    BY DEF Disconnect, endVars, appVars
  <1>3. reconnects = 0 /\ resync = "none"
    <2>1. reconnects \in Nat /\ MaxReconnects \in Nat
      BY MaxReconnectsAssumption DEF IInv, TypeOK
    <2>2. reconnects = 0
      BY <1>2, <2>1
    <2> QED
      BY <1>1, <2>2 DEF LinkInv
  <1>4. outgoing'["client"] = <<>> /\ outgoing'["server"] = outgoing["server"]
    BY <1>2, Peers DEF IInv, TypeOK
  <1>5. Way'["server"] = Way["server"] /\ Way'["client"] = incoming["server"] \o <<>>
        /\ Way["client"] = incoming["server"] \o outgoing["client"]
    <2>1. Peer("client") = "server" /\ Peer("server") = "client" /\ "client" \in Endpoint /\ "server" \in Endpoint
      BY Peers DEF Peer
    <2>2. incoming' = incoming
      BY <1>2
    <2>3. Way'["server"] = Way["server"]
      BY <1>4, <2>1, <2>2 DEF Way
    <2>4. Way'["client"] = incoming["server"] \o <<>>
      BY <1>4, <2>1, <2>2 DEF Way
    <2>5. Way["client"] = incoming["server"] \o outgoing["client"]
      BY <2>1 DEF Way
    <2> QED
      BY <2>3, <2>4, <2>5
  <1> DEFINE q == incoming["server"]
             n == Len(q)
  <1>6. q \in Seq(Envelope) /\ outgoing["client"] \in Seq(Envelope)
    BY Peers DEF IInv, TypeOK
  <1> HIDE DEF q
  <1>7. n \in Nat /\ Follows("client", 0, n) /\ Len(Way'["client"]) = n
    <2>1. Way["client"] = q \o outgoing["client"] /\ Way'["client"] = q \o <<>>
      BY <1>5 DEF q
    <2>2. q \o <<>> = q
      BY <1>6
    <2>3. /\ Len(q) \in Nat /\ Len(Way["client"]) = Len(q) + Len(outgoing["client"])
          /\ Len(outgoing["client"]) \in Nat
          /\ \A i \in 1..Len(q) : Way["client"][i] = q[i]
      BY <1>6, <2>1
    <2>4. \A i \in 1..Len(q) : i + 0 = i
      BY <2>3
    <2> QED
      BY <2>1, <2>2, <2>3, <2>4 DEF Follows
  <1> HIDE DEF n
  <1>8. InFlight'["client"] \subseteq InFlight["client"] /\ InFlight'["server"] = InFlight["server"]
    <2>1. Elements(<<>>) = {}
      BY DEF Elements
    <2> QED
      BY <1>2, <1>4, <2>1, Peers DEF InFlight
  <1>9. ~Flushing /\ ~Flushing'
    <2>1. ~Flushing
      BY <1>3, OneFlush
    <2> QED
      BY <1>8, <2>1 DEF Flushing
  <1>10. /\ Top' = Top /\ Reached' = Reached /\ Unheard' = Unheard
         /\ \A e \in Endpoint, i \in Int : Settled(e, i)' <=> Settled(e, i)
         /\ \A e \in Endpoint : Forward(e)
    BY <1>2, SameSettled, SameForward DEF IInv
  <1>11. /\ reconnects' = 0 /\ ~First' /\ ~Flushed /\ ~Flushed' /\ ~Resent /\ ~Resent'
         /\ \A e \in Endpoint : /\ Keeping(e) /\ Early(e) /\ Early(e)' /\ Before(e) /\ Before(e)'
                                /\ ~Complete(e)'
    BY <1>2, <1>3 DEF First, Flushed, Resent, Keeping, Early, Before, Complete
  <1>12. \A e \in Endpoint : \A m : Barrier(e, m)' <=> Barrier(e, m)
    BY <1>2 DEF Barrier
  <1>13. TopInv'
    BY <1>1, <1>2, <1>10 DEF TopInv
  <1>14. LinkInv'
    BY <1>1, <1>2, <1>3, <1>4, <1>10, <1>11 DEF LinkInv
  <1>15. FlushInv'
    BY <1>2, <1>3, <1>9 DEF FlushInv, Flushing
  <1>16. OrderInv'
    <2>1. \A i \in 1..Len(Way'["client"]) : InReach("client", i)' => Arrives("client", i)'
      <3>1. ASSUME NEW i \in 1..n, InReach("client", i)' PROVE InReach("client", i + 0)
        <4>1. \A j \in 1..i : j \in 1..n /\ j + 0 = j /\ Way'["client"][j] = Way["client"][j + 0]
          BY <1>7 DEF Follows
        <4>2. i + 0 = i
          BY <1>7
        <4> QED
          BY <1>11, <3>1, <4>1, <4>2 DEF InReach
      <3>2. \A i \in (n + 1)..Len(Way'["client"]) : InReach("client", i)' => Arrives("client", i)'
        BY <1>7
      <3> QED
        BY <1>1, <1>7, <1>10, <3>1, <3>2, Peers, OrderStep
    <2>2. \A i \in 1..Len(Way'["server"]) : InReach("server", i)' => Arrives("server", i)'
      <3>1. Follows("server", 0, Len(Way["server"])) /\ Len(Way["server"]) \in Nat /\ Len(Way'["server"]) = Len(Way["server"])
        BY <1>5, Peers, SameFollows
      <3>2. \A i \in 1..Len(Way["server"]) : InReach("server", i)' => InReach("server", i + 0)
        BY <1>2, <1>3 DEF InReach
      <3>3. \A i \in (Len(Way["server"]) + 1)..Len(Way'["server"]) : InReach("server", i)' => Arrives("server", i)'
        BY <3>1
      <3> QED
        BY <1>1, <1>10, <3>1, <3>2, <3>3, Peers, OrderStep
    <2> QED
      BY <2>1, <2>2 DEF OrderInv, Endpoint
  <1>17. CoveredInv'
    BY <1>11 DEF CoveredInv
  <1>18. KeptInv'
    BY <1>1, <1>2, <1>10, <1>11 DEF KeptInv, Keeps
  <1>19. EarlyInv'
    <2> SUFFICES ASSUME NEW e \in Endpoint
                 PROVE  Settled(Peer(e), maxReceived[e])' /\ \A m \in sent'[e] : Settled(Peer(e), m.ack)'
      BY DEF EarlyInv
    <2> QED
      BY <1>1, <1>2, <1>10, <1>11, Peers, EarlyStays
  <1>20. AckInv'
    <2> SUFFICES ASSUME NEW e \in Endpoint PROVE AckSettled(e)'
      BY DEF AckInv, AckSettled
    <2> DEFINE p == Peer(e)
    <2>1. p \in Endpoint
      BY Peers
    <2>2. InFlight'[p] \subseteq InFlight[p]
      BY <1>8, <2>1 DEF Endpoint
    <2>3. \A m \in InFlight[p] : ~Barrier(e, m)
      <3>1. e = "server" => p = "client"
        BY DEF Peer
      <3> QED
        BY <1>3, <1>9, <3>1 DEF Barrier, Flushing
    <2>4. \A m \in InFlight[p] : m.ack \in Int /\ Settled(e, m.ack)
      BY <1>1, <1>11, <2>1, <2>3, AckAll
    <2>5. \A m \in InFlight'[p] : Settled(e, m.ack)'
      <3> SUFFICES ASSUME NEW m \in InFlight'[p] PROVE Settled(e, m.ack)'
        OBVIOUS
      <3>1. PICK a \in Int : a = m.ack /\ Settled(e, a)
        BY <2>2, <2>4
      <3>2. Settled(e, a)'
        BY <1>10, <3>1
      <3> QED
        BY <3>1, <3>2
    <2> QED
      BY <2>5, AckFromNext
  <1> QED
    BY <1>13, <1>14, <1>15, <1>16, <1>17, <1>18, <1>19, <1>20 DEF FlowInv

(* What the daemon wrote is lost with the connection.                       *)
LEMMA ServerWriteLostFlow ==
    ASSUME FlowInv, IInv, IInv', ServerWriteLost
    PROVE  FlowInv'
  <1>1. /\ TopInv /\ LinkInv /\ FlushInv /\ KeptInv /\ CoveredInv /\ EarlyInv /\ OrderInv /\ AckInv
    BY DEF FlowInv
  <1>2. /\ UNCHANGED <<nextId, buffer, maxReceived, incoming, resync, flushId, up, serverLoop,
                       reconnects, boot, draft, handled, sent>>
        /\ serverLoop = "lost" /\ outgoing["server"] # <<>>
        /\ outgoing' = [outgoing EXCEPT !["server"] = Tail(@)]
    BY DEF ServerWriteLost, endVars, linkVars, appVars
  <1>3. outgoing'["client"] = outgoing["client"] /\ outgoing'["server"] = Tail(outgoing["server"])
    BY <1>2, Peers DEF IInv, TypeOK
  <1>4. Peer("client") = "server" /\ Peer("server") = "client" /\ "client" \in Endpoint /\ "server" \in Endpoint
    BY Peers DEF Peer
  <1>5. Way'["client"] = Way["client"]
    <2>1. incoming' = incoming
      BY <1>2
    <2> QED
      BY <1>3, <1>4, <2>1 DEF Way
  <1>6. InFlight'["client"] = InFlight["client"] /\ InFlight'["server"] \subseteq InFlight["server"]
    <2>1. outgoing["server"] \in Seq(Envelope)
      BY <1>4 DEF IInv, TypeOK
    <2>2. Elements(Tail(outgoing["server"])) \subseteq Elements(outgoing["server"])
      BY <1>2, <2>1, ElementsFacts
    <2> QED
      BY <1>2, <1>3, <1>4, <2>2 DEF InFlight
  <1>7. Flushing' <=> Flushing
    BY <1>6 DEF Flushing
  <1>8. Plain
    BY <1>2, <1>7 DEF Plain
  <1>9. ~First /\ ~Flushed /\ ~Resent
    <2>1. ~First
      BY <1>1, <1>2 DEF LinkInv
    <2>2. ASSUME reconnects = 1, resync # "swapped" PROVE Flushing
      <3>1. \E m \in Elements(outgoing["client"]) : m.kind = "FlushBufferedMessages"
        BY <1>1, <1>2, <2>2 DEF LinkInv
      <3> QED
        BY <1>4, <3>1 DEF Flushing, InFlight
    <2>3. Flushing => resync = "waiting"
      BY <1>1 DEF FlushInv, Flushing
    <2> QED
      BY <2>1, <2>2, <2>3 DEF Flushed, Resent
  <1>10. \A e \in Endpoint : ~Complete(e) /\ ~Complete(e)'
    <2>1. \A e \in Endpoint : ~Complete(e)
      BY <1>9 DEF Complete
    <2> QED
      BY <1>8, <2>1, PlainModes
  <1>11. /\ Top' = Top /\ Reached' = Reached /\ Unheard' = Unheard
         /\ \A e \in Endpoint, i \in Int : Settled(e, i)' <=> Settled(e, i)
         /\ \A e \in Endpoint : Forward(e)
    BY <1>2, SameSettled, SameForward DEF IInv
  <1>12. TopInv'
    BY <1>1, <1>2, <1>11 DEF TopInv
  <1>13. LinkInv'
    <2>1. boot' = "connected" => ~Unheard'["client"] /\ ~Unheard'["server"]
      BY <1>1, <1>2, <1>11 DEF LinkInv
    <2> QED
      BY <1>1, <1>2, <1>3, <2>1, LinkKept
  <1>14. resync = "waiting" => \A m \in InFlight["server"] : ~Barrier("client", m)
    <2>1. resync = "waiting" => reconnects = 1
      BY <1>1 DEF LinkInv
    <2>2. resync = "waiting" => Flushing
      BY <1>9, <2>1 DEF Flushed
    <2> QED
      BY <1>1, <2>2 DEF FlushInv
  <1>15. \A e \in Endpoint : \A m : Barrier(e, m)' <=> Barrier(e, m)
    BY <1>8, PlainModes
  <1>16. FlushInv'
    <2>1. resync = "waiting" =>
             ((\E m \in InFlight'["server"] : Barrier("client", m)) <=> (\E m \in InFlight["server"] : Barrier("client", m)))
      BY <1>6, <1>14
    <2> QED
      BY <1>1, <1>2, <1>6, <1>7, <2>1, FlushKept
  <1>17. OrderInv'
    <2>1. \A i \in 1..Len(Way'["client"]) : InReach("client", i)' => Arrives("client", i)'
      <3>1. Follows("client", 0, Len(Way["client"])) /\ Len(Way["client"]) \in Nat /\ Len(Way'["client"]) = Len(Way["client"])
        BY <1>4, <1>5, SameFollows
      <3>2. \A i \in 1..Len(Way["client"]) : InReach("client", i)' => InReach("client", i + 0)
        <4> SUFFICES ASSUME NEW i \in 1..Len(Way["client"]), InReach("client", i)' PROVE InReach("client", i + 0)
          OBVIOUS
        <4>1. i + 0 = i
          BY <3>1
        <4> QED
          BY <1>5, <1>9, <4>1 DEF InReach
      <3>3. \A i \in (Len(Way["client"]) + 1)..Len(Way'["client"]) : InReach("client", i)' => Arrives("client", i)'
        BY <3>1
      <3> QED
        BY <1>1, <1>4, <1>11, <3>1, <3>2, <3>3, OrderStep
    <2>2. \A i \in 1..Len(Way'["server"]) : InReach("server", i)' => Arrives("server", i)'
      <3> DEFINE q == incoming["client"]
                 r == outgoing["server"]
                 n == Len(q)
      <3>1. q \in Seq(Envelope) /\ r \in Seq(Envelope) /\ r # <<>>
        BY <1>2, <1>4 DEF IInv, TypeOK
      <3>2. Way["server"] = q \o r /\ Way'["server"] = q \o Tail(r)
        BY <1>2, <1>3, <1>4 DEF Way
      <3> HIDE DEF q, r
      <3>3. /\ n \in Nat /\ Len(q \o r) >= n /\ Len(q \o Tail(r)) >= n
            /\ \A i \in 1..n : (q \o Tail(r))[i] = (q \o r)[i] /\ i + 0 = i
        BY <3>1
      <3>4. n \in Nat /\ Follows("server", 0, n)
        BY <3>2, <3>3 DEF Follows
      <3>5. ASSUME NEW i \in 1..Len(Way'["server"]), InReach("server", i)' PROVE i <= n /\ InReach("server", i + 0)
        <4>1. reconnects = 0 /\ (up \/ i <= n)
          BY <1>2, <3>5 DEF InReach, q
        <4>2. ~up
          BY <1>9, <4>1 DEF First
        <4>3. i <= n /\ i + 0 = i
          BY <4>1, <4>2
        <4> QED
          BY <4>1, <4>3 DEF InReach, q
      <3> HIDE DEF n
      <3>6. n <= Len(Way'["server"]) /\ Len(Way'["server"]) \in Nat
        <4>1. Way'["server"] \in Seq(Envelope)
          BY <1>4, WayTypesNext DEF WayOK
        <4> QED
          BY <3>4, <4>1 DEF Follows
      <3>7. \A i \in 1..n : InReach("server", i)' => InReach("server", i + 0)
        BY <3>4, <3>5, <3>6
      <3>8. \A i \in (n + 1)..Len(Way'["server"]) : InReach("server", i)' => Arrives("server", i)'
        <4> SUFFICES ASSUME NEW i \in (n + 1)..Len(Way'["server"]), InReach("server", i)' PROVE FALSE
          OBVIOUS
        <4>1. i \in 1..Len(Way'["server"]) /\ ~(i <= n)
          BY <3>4, <3>6
        <4> QED
          BY <3>5, <4>1
      <3> QED
        BY <1>1, <1>4, <1>11, <3>4, <3>7, <3>8, OrderStep
    <2> QED
      BY <2>1, <2>2 DEF OrderInv, Endpoint
  <1>18. CoveredInv'
    BY <1>10 DEF CoveredInv
  <1>19. KeptInv'
    <2>1. \A e \in Endpoint : Keeping(e)' <=> Keeping(e)
      BY <1>8, PlainModes
    <2> QED
      BY <1>1, <1>2, <1>11, <2>1 DEF KeptInv, Keeps
  <1>20. EarlyInv'
    <2> SUFFICES ASSUME NEW e \in Endpoint
                 PROVE  Early(e)' => /\ Settled(Peer(e), maxReceived[e])'
                                     /\ \A m \in sent'[e] : Settled(Peer(e), m.ack)'
      BY DEF EarlyInv
    <2>1. Early(e)' => Early(e)
      BY <1>8, PlainModes
    <2>2. maxReceived'[e] = maxReceived[e] /\ Forward(Peer(e)) /\ \A m \in sent'[e] : m \in sent[e]
      BY <1>2, <1>11, Peers
    <2> QED
      BY <1>1, <2>1, <2>2, EarlyStays
  <1>21. AckInv'
    <2>1. Before("client") => \A m \in InFlight["server"] : m.ack \in Int /\ Settled("client", m.ack)
      <3>1. \A m \in InFlight["server"] : ~Barrier("client", m)
        BY <1>14 DEF Barrier
      <3> QED
        BY <1>1, <1>4, <3>1, AckAll
    <2>2. Before("client")' => AckSettled("client")'
      <3> SUFFICES ASSUME Before("client") PROVE AckSettled("client")'
        BY <1>4, <1>8, PlainModes
      <3>1. \A m \in InFlight'["server"] : Settled("client", m.ack)'
        <4> SUFFICES ASSUME NEW m \in InFlight'["server"] PROVE Settled("client", m.ack)'
          OBVIOUS
        <4>1. PICK a \in Int : a = m.ack /\ Settled("client", a)
          BY <1>6, <2>1
        <4>2. Settled("client", a)'
          BY <1>4, <1>11, <4>1
        <4> QED
          BY <4>1, <4>2
      <3> QED
        BY <1>4, <3>1, AckFromNext
    <2>3. Before("server")' => AckSettled("server")'
      <3> SUFFICES ASSUME Before("server")' PROVE AckSettled("server")'
        OBVIOUS
      <3> DEFINE e == "server"
                 p == "client"
      <3>1. e \in Endpoint /\ p \in Endpoint /\ p = Peer(e)
        BY <1>4
      <3>2. Follows(p, 0, Len(Way[p])) /\ Len(Way[p]) \in Nat /\ Len(Way'[p]) = Len(Way[p])
        BY <1>4, <1>5, SameFollows
      <3>3. Before(e)' => Before(e)
        BY <1>4, <1>8, PlainModes
      <3>4. \A m : Barrier(e, m) => Barrier(e, m)'
        BY <1>4, <1>15
      <3>5. Forward(e)
        BY <1>4, <1>11
      <3>6. Before(e)'
        OBVIOUS
      <3> HIDE DEF e, p
      <3>7. \A i \in (Len(Way[p]) + 1)..Len(Way'[p]) :
               Before(e)' /\ (\A j \in 1..(i - 1) : ~Barrier(e, Way[p][j])') => Settled(e, Way[p][i].ack)'
        BY <3>2
      <3>8. Before(e)' => \A j \in 1..0 : ~Barrier(e, Way[p][j])
        OBVIOUS
      <3>9. Before(e)' => \A i \in 1..Len(Way'[p]) :
               (\A j \in 1..(i - 1) : ~Barrier(e, Way[p][j])') => Settled(e, Way[p][i].ack)'
        BY <1>1, <3>1, <3>2, <3>3, <3>4, <3>5, <3>7, <3>8, AckStays
      <3>10. AckSettled(e)'
        BY <3>1, <3>6, <3>9 DEF AckSettled
      <3> QED
        BY <3>10 DEF e
    <2> QED
      BY <2>2, <2>3 DEF AckInv, AckSettled, Endpoint
  <1> QED
    BY <1>12, <1>13, <1>16, <1>17, <1>18, <1>19, <1>20, <1>21 DEF FlowInv

(* The client is on a new connection.                                       *)
LEMMA ReconnectFlow ==
    ASSUME FlowInv, IInv, IInv', CopyInv, Reconnect
    PROVE  FlowInv'
  <1>1. /\ TopInv /\ LinkInv /\ FlushInv /\ KeptInv /\ CoveredInv /\ EarlyInv /\ OrderInv /\ AckInv
    BY DEF FlowInv
  <1>2. /\ UNCHANGED <<nextId, buffer, maxReceived, outgoing, serverLoop, boot, draft, handled, sent>>
        /\ ~up /\ up' /\ reconnects' = reconnects + 1 /\ resync' = "swapped"
        /\ draft["client"]["main"] = Idle
        /\ incoming' = [incoming EXCEPT !["client"] = <<>>]
    BY DEF Reconnect, MainFree, appVars
  <1>3. reconnects = 0 /\ reconnects' = 1 /\ resync = "none" /\ boot = "connected"
    <2>1. reconnects = 0
      BY <1>1, <1>2 DEF LinkInv
    <2> QED
      BY <1>1, <1>2, <2>1 DEF LinkInv, First
  <1>4. Peer("client") = "server" /\ Peer("server") = "client" /\ "client" \in Endpoint /\ "server" \in Endpoint
    BY Peers DEF Peer
  <1>5. incoming'["client"] = <<>> /\ incoming'["server"] = incoming["server"]
    BY <1>2, <1>4 DEF IInv, TypeOK
  <1>6. Way'["client"] = Way["client"]
    <2>1. outgoing' = outgoing
      BY <1>2
    <2> QED
      BY <1>4, <1>5, <2>1 DEF Way
  <1>7. InFlight'["client"] = InFlight["client"] /\ InFlight'["server"] \subseteq InFlight["server"]
    <2>1. Elements(<<>>) = {}
      BY DEF Elements
    <2> QED
      BY <1>2, <1>4, <1>5, <2>1 DEF InFlight
  <1>8. ~Flushing /\ ~Flushing'
    <2>1. ~Flushing
      BY <1>3, OneFlush
    <2> QED
      BY <1>7, <2>1 DEF Flushing
  <1>9. /\ Top' = Top /\ Reached' = Reached /\ Unheard' = Unheard
        /\ \A e \in Endpoint, i \in Int : Settled(e, i)' <=> Settled(e, i)
        /\ \A e \in Endpoint : Forward(e)
    BY <1>2, SameSettled, SameForward DEF IInv
  <1>10. /\ ~First' /\ ~Flushed /\ ~Flushed' /\ ~Resent /\ ~Resent'
         /\ \A e \in Endpoint : /\ Keeping(e) /\ Early(e) /\ Early(e)' /\ Before(e) /\ Before(e)'
                                /\ ~Complete(e)'
    BY <1>2, <1>3 DEF First, Flushed, Resent, Keeping, Early, Before, Complete
  <1>11. TopInv'
    BY <1>1, <1>2, <1>9 DEF TopInv
  <1>12. LinkInv'
    BY <1>1, <1>2, <1>3, <1>9, <1>10 DEF LinkInv
  <1>13. FlushInv'
    BY <1>2, <1>8 DEF FlushInv, Flushing
  <1>14. OrderInv'
    <2>1. \A i \in 1..Len(Way'["client"]) : InReach("client", i)' => Arrives("client", i)'
      <3>1. Follows("client", 0, Len(Way["client"])) /\ Len(Way["client"]) \in Nat /\ Len(Way'["client"]) = Len(Way["client"])
        BY <1>4, <1>6, SameFollows
      <3>2. \A i \in 1..Len(Way["client"]) : InReach("client", i)' => InReach("client", i + 0)
        <4> SUFFICES ASSUME NEW i \in 1..Len(Way["client"]), InReach("client", i)' PROVE InReach("client", i + 0)
          OBVIOUS
        <4>1. i + 0 = i
          BY <3>1
        <4> QED
          BY <1>6, <1>10, <4>1 DEF InReach
      <3>3. \A i \in (Len(Way["client"]) + 1)..Len(Way'["client"]) : InReach("client", i)' => Arrives("client", i)'
        BY <3>1
      <3> QED
        BY <1>1, <1>4, <1>9, <3>1, <3>2, <3>3, OrderStep
    <2>2. \A i \in 1..Len(Way'["server"]) : ~InReach("server", i)'
      BY <1>3 DEF InReach
    <2> QED
      BY <2>1, <2>2 DEF OrderInv, Endpoint
  <1>15. CoveredInv'
    BY <1>10 DEF CoveredInv
  <1>16. KeptInv'
    BY <1>1, <1>2, <1>9, <1>10 DEF KeptInv, Keeps
  <1>17. EarlyInv'
    <2> SUFFICES ASSUME NEW e \in Endpoint
                 PROVE  Settled(Peer(e), maxReceived[e])' /\ \A m \in sent'[e] : Settled(Peer(e), m.ack)'
      BY DEF EarlyInv
    <2> QED
      BY <1>1, <1>2, <1>9, <1>10, Peers, EarlyStays
  <1>18. AckInv'
    <2> SUFFICES ASSUME NEW e \in Endpoint PROVE AckSettled(e)'
      BY DEF AckInv, AckSettled
    <2> DEFINE p == Peer(e)
    <2>1. p \in Endpoint
      BY Peers
    <2>2. InFlight'[p] \subseteq InFlight[p]
      BY <1>7, <2>1 DEF Endpoint
    <2>3. \A m \in InFlight[p] : ~Barrier(e, m)
      <3>1. e = "server" => p = "client"
        BY DEF Peer
      <3> QED
        BY <1>3, <1>8, <3>1 DEF Barrier, Flushing
    <2>4. \A m \in InFlight[p] : m.ack \in Int /\ Settled(e, m.ack)
      BY <1>1, <1>10, <2>1, <2>3, AckAll
    <2>5. \A m \in InFlight'[p] : Settled(e, m.ack)'
      <3> SUFFICES ASSUME NEW m \in InFlight'[p] PROVE Settled(e, m.ack)'
        OBVIOUS
      <3>1. PICK a \in Int : a = m.ack /\ Settled(e, a)
        BY <2>2, <2>4
      <3>2. Settled(e, a)'
        BY <1>9, <3>1
      <3> QED
        BY <3>1, <3>2
    <2> QED
      BY <2>5, AckFromNext
  <1> QED
    BY <1>11, <1>12, <1>13, <1>14, <1>15, <1>16, <1>17, <1>18 DEF FlowInv

(* The client asks for what it has missed.                                  *)
LEMMA RequestFlushFlow ==
    ASSUME FlowInv, IInv, IInv', AnswerInv, CopyInv, RequestFlush
    PROVE  FlowInv'
  <1> DEFINE flush == [id |-> nextId["client"], ack |-> maxReceived["client"],
                       resp |-> None, kind |-> "FlushBufferedMessages"]
  <1>1. /\ TopInv /\ LinkInv /\ FlushInv /\ KeptInv /\ CoveredInv /\ EarlyInv /\ OrderInv /\ AckInv
    BY DEF FlowInv
  <1>2. /\ UNCHANGED <<buffer, maxReceived, incoming, up, serverLoop, reconnects, boot, draft, handled, sent>>
        /\ resync = "swapped" /\ resync' = "waiting"
        /\ nextId' = [nextId EXCEPT !["client"] = @ + 1]
        /\ Post("client", <<flush>>)
    BY DEF RequestFlush, appVars
  <1>3. PICK m : m = flush
    OBVIOUS
  <1>4. /\ m.id = nextId["client"] /\ m.ack = maxReceived["client"] /\ m.kind = "FlushBufferedMessages"
        /\ m \in Envelope /\ flushId' = m.id /\ Post("client", <<m>>)
    <2>1. nextId["client"] \in Nat /\ maxReceived["client"] \in Nat
      BY Peers DEF IInv, TypeOK
    <2>2. m \in Envelope
      BY <1>3, <2>1 DEF Envelope, Kind
    <2>3. flushId' = m.id
      BY <1>3 DEF RequestFlush
    <2> QED
      BY <1>2, <1>3, <2>2, <2>3
  <1> HIDE DEF flush
  <1>5. reconnects = 1 /\ up /\ boot = "connected" /\ outgoing["client"] = <<>> /\ draft["client"]["main"].stage = "idle"
    <2>1. reconnects = 1
      BY <1>1, <1>2 DEF LinkInv
    <2> QED
      BY <1>1, <1>2, <2>1 DEF LinkInv, First, Idle
  <1>6. Peer("client") = "server" /\ Peer("server") = "client" /\ "client" \in Endpoint /\ "server" \in Endpoint
    BY Peers DEF Peer
  <1>7. /\ nextId'["client"] = nextId["client"] + 1 /\ nextId["client"] \in Nat /\ nextId["client"] > 0
        /\ nextId'["server"] = nextId["server"]
    <2>1. nextId["client"] > 0
      BY <1>5 DEF AnswerInv, RequestsComeLater
    <2> QED
      BY <1>2, <1>6, <2>1 DEF IInv, TypeOK
  <1>8. <<m>> \in Seq(Envelope) /\ Way'["server"] = Way["server"] /\ Way'["client"] = Way["client"] \o <<m>>
    <2>1. <<m>> \in Seq(Envelope)
      BY <1>4
    <2> QED
      BY <1>2, <1>4, <1>5, <1>6, <2>1, WayPost
  <1>9. InFlight'["client"] = InFlight["client"] \cup {m} /\ InFlight'["server"] = InFlight["server"]
    <2>1. Elements(<<m>>) = {m}
      BY OneElement
    <2>2. InFlight'["client"] = InFlight["client"] \cup Elements(<<m>>)
      <3> DEFINE msgs == <<m>>
      <3>1. msgs \in Seq(Envelope) /\ Way'["client"] = Way["client"] \o msgs
        BY <1>8
      <3> HIDE DEF msgs
      <3>2. InFlight'["client"] = InFlight["client"] \cup Elements(msgs)
        BY <1>6, <3>1, InFlightMoves
      <3> QED
        BY <3>2 DEF msgs
    <2> QED
      BY <1>6, <1>8, <2>1, <2>2, InFlightMoves
  <1>10. ~Flushing /\ Flushing'
    <2>1. ~Flushing
      BY <1>2, <1>5, OneFlush
    <2> QED
      BY <1>4, <1>9, <2>1 DEF Flushing
  <1>11. TopInv' /\ \A f \in Endpoint : Top[f] <= Top'[f]
    <2>1. \A f \in Endpoint : \/ nextId'[f] = nextId[f]
                              \/ nextId'[f] = nextId[f] + 1 /\ draft[f]["main"].stage # "allocated"
      BY <1>5, <1>7 DEF Endpoint
    <2> QED
      BY <1>1, <1>2, <2>1, TopKept DEF IInv
  <1>12. Reached' = Reached /\ Unheard' = Unheard
    BY <1>2 DEF Reached, Unheard, HandledIds
  <1>13. \A f \in Endpoint : Forward(f)
    BY <1>2, <1>11, <1>12 DEF Forward
  <1>14. /\ ~First' /\ ~Flushed /\ ~Flushed' /\ ~Resent /\ ~Resent'
         /\ \A e \in Endpoint : Keeping(e) /\ Early(e) /\ Before(e) /\ Before(e)' /\ ~Complete(e)'
         /\ Early("server")' /\ ~Early("client")'
    BY <1>2, <1>5, <1>10 DEF First, Flushed, Resent, Keeping, Early, Before, Complete
  <1>15. outgoing'["client"] = <<m>>
    BY <1>4, <1>5, <1>6, <1>8 DEF Post, IInv, TypeOK
  <1>16. LinkInv'
    <2>1. m \in Elements(outgoing'["client"])
      BY <1>15, OneElement
    <2> QED
      BY <1>1, <1>2, <1>4, <1>5, <1>12, <1>14, <2>1 DEF LinkInv
  <1>17. \A n \in InFlight["server"] : ~(n.kind \in {"Ack", "Response"} /\ n.resp = m.id)
    <2> SUFFICES ASSUME NEW n \in InFlight["server"], n.kind \in {"Ack", "Response"}, n.resp = nextId["client"] PROVE FALSE
      BY <1>4
    <2>1. CASE n.kind = "Ack"
      <3>1. n.resp \in FreeIds["client"]
        BY <1>6, <2>1 DEF AnswerInv, OwnAnswers, OwnEnvelope
      <3> QED
        BY <1>6, <1>7, <3>1 DEF FreeIds
    <2>2. CASE n.kind = "Response"
      <3>1. n \in sent["server"]
        <4>1. Way["server"] \in Seq(Carried("server")) /\ Elements(Way["server"]) = InFlight["server"]
          BY <1>6, WayTypes DEF WayOK
        <4>2. n \in Carried("server")
          BY <4>1 DEF Elements
        <4> QED
          BY <2>2, <4>2 DEF Carried, ChannelOwn
      <3>2. n.resp \in TakenIds["server"]
        BY <1>6, <2>2, <3>1 DEF AnswerInv, ResponsesAnswer
      <3>3. PICK w \in Elements(handled["server"]) : w.id = nextId["client"]
        BY <1>6, <3>2 DEF TakenIds
      <3>4. w \in sent["client"]
        <4>1. handled["server"] \in Seq(sent["client"])
          BY <1>6 DEF IInv, OnlySent
        <4> QED
          BY <4>1 DEF Elements
      <3>5. w.id < nextId["client"]
        BY <1>6, <3>4 DEF AnswerInv, Numbering
      <3> QED
        BY <1>7, <3>3, <3>5
    <2> QED
      BY <2>1, <2>2
  <1>18. FlushInv'
    <2>1. \A n \in InFlight'["client"] : n.kind = "FlushBufferedMessages" => n = m
      BY <1>9, <1>10 DEF Flushing
    <2>2. \A n \in InFlight'["server"] : ~Barrier("client", n)'
      BY <1>4, <1>9, <1>17 DEF Barrier
    <2>3. flushId' > 0
      BY <1>4, <1>7
    <2> QED
      BY <1>2, <1>4, <1>10, <2>1, <2>2, <2>3 DEF FlushInv
  <1>19. /\ Follows("client", 0, Len(Way["client"])) /\ Len(Way["client"]) \in Nat
         /\ Len(Way'["client"]) = Len(Way["client"]) + 1
         /\ \A i \in (Len(Way["client"]) + 1)..Len(Way'["client"]) : i = Len(Way'["client"]) /\ Way'["client"][i] = m
    <2> DEFINE msgs == <<m>>
               k == Len(Way["client"])
               l == Len(Way'["client"])
    <2>1. msgs \in Seq(Envelope) /\ Way'["client"] = Way["client"] \o msgs /\ Len(msgs) = 1 /\ msgs[1] = m
      BY <1>8
    <2> HIDE DEF msgs
    <2>2. /\ Follows("client", 0, Len(Way["client"])) /\ l = k + Len(msgs)
          /\ \A i \in (k + 1)..l : i - k \in 1..Len(msgs) /\ Way'["client"][i] = msgs[i - k]
      BY <1>6, <2>1, PostFollows
    <2>3. k \in Nat
      <3>1. Way["client"] \in Seq(Envelope)
        BY <1>6, WayTypes DEF WayOK
      <3> QED
        BY <3>1
    <2> HIDE DEF k, l
    <2>4. l = k + 1 /\ \A i \in (k + 1)..l : i = l /\ i - k = 1
      BY <2>1, <2>2, <2>3
    <2>5. \A i \in (k + 1)..l : i = l /\ Way'["client"][i] = m
      BY <2>1, <2>2, <2>4
    <2> QED
      BY <2>2, <2>3, <2>4, <2>5 DEF k, l
  <1>20. OrderInv'
    <2>1. \A i \in 1..Len(Way["client"]) : InReach("client", i)' => InReach("client", i + 0)
      <3> SUFFICES ASSUME NEW i \in 1..Len(Way["client"]), InReach("client", i)' PROVE InReach("client", i + 0)
        OBVIOUS
      <3>1. \A j \in 1..i : j \in 1..Len(Way["client"]) /\ j + 0 = j /\ Way'["client"][j] = Way["client"][j + 0]
        BY <1>19 DEF Follows
      <3>2. i + 0 = i
        BY <1>19
      <3> QED
        BY <1>14, <3>1, <3>2 DEF InReach
    <2>2. \A i \in (Len(Way["client"]) + 1)..Len(Way'["client"]) : InReach("client", i)' => Arrives("client", i)'
      <3> SUFFICES ASSUME NEW i \in (Len(Way["client"]) + 1)..Len(Way'["client"]), InReach("client", i)' PROVE FALSE
        OBVIOUS
      <3>1. Way'["client"][i] = m /\ i \in 1..i
        BY <1>19
      <3> QED
        BY <1>4, <3>1 DEF InReach
    <2>3. \A i \in 1..Len(Way'["client"]) : InReach("client", i)' => Arrives("client", i)'
      BY <1>1, <1>6, <1>13, <1>19, <2>1, <2>2, OrderStep
    <2>4. \A i \in 1..Len(Way'["server"]) : ~InReach("server", i)'
      BY <1>2, <1>5 DEF InReach
    <2> QED
      BY <2>3, <2>4 DEF OrderInv, Endpoint
  <1>21. CoveredInv'
    BY <1>14 DEF CoveredInv
  <1>22. KeptInv'
    BY <1>1, <1>2, <1>12, <1>14 DEF KeptInv, Keeps
  <1>23. EarlyInv'
    <2> SUFFICES ASSUME NEW e \in Endpoint
                 PROVE  Early(e)' => /\ Settled(Peer(e), maxReceived[e])'
                                     /\ \A n \in sent'[e] : Settled(Peer(e), n.ack)'
      BY DEF EarlyInv
    <2>1. Forward(Peer(e)) /\ maxReceived'[e] = maxReceived[e] /\ \A n \in sent'[e] : n \in sent[e]
      BY <1>2, <1>13, Peers
    <2> QED
      BY <1>1, <1>14, <2>1, EarlyStays
  <1>24. AckSettled("server")'
    <2> DEFINE e == "server"
               p == "client"
    <2>1. e \in Endpoint /\ p \in Endpoint /\ p = Peer(e) /\ Forward(e) /\ Before(e)' /\ Before(e)
      BY <1>6, <1>13, <1>14
    <2>2. Follows(p, 0, Len(Way[p])) /\ Len(Way[p]) \in Nat
      BY <1>19
    <2>3. \A n : Barrier(e, n) => Barrier(e, n)'
      BY DEF Barrier
    <2>4. Settled(e, m.ack)'
      <3>1. maxReceived["client"] \in Int
        BY <1>6 DEF IInv, TypeOK
      <3>2. PICK a \in Int : a = m.ack /\ a = maxReceived["client"]
        BY <1>4, <3>1
      <3>3. Settled(e, a)
        BY <1>1, <1>6, <1>14, <3>2 DEF EarlyInv
      <3>4. Settled(e, a)'
        BY <2>1, <3>3, SettledStays DEF IInv
      <3> QED
        BY <3>2, <3>4
    <2>5. \A i \in (Len(Way[p]) + 1)..Len(Way'[p]) : Settled(e, Way[p][i].ack)'
      BY <1>19, <2>4 DEF Settled
    <2> HIDE DEF e, p
    <2>6. \A i \in (Len(Way[p]) + 1)..Len(Way'[p]) :
             Before(e)' /\ (\A j \in 1..(i - 1) : ~Barrier(e, Way[p][j])') => Settled(e, Way[p][i].ack)'
      BY <2>5
    <2>7. Before(e)' => \A j \in 1..0 : ~Barrier(e, Way[p][j])
      OBVIOUS
    <2>8. Before(e)' => \A i \in 1..Len(Way'[p]) :
             (\A j \in 1..(i - 1) : ~Barrier(e, Way[p][j])') => Settled(e, Way[p][i].ack)'
      BY <1>1, <2>1, <2>2, <2>3, <2>6, <2>7, AckStays
    <2>9. AckSettled(e)'
      BY <2>1, <2>8 DEF AckSettled
    <2> QED
      BY <2>9 DEF e
  <1>25. AckSettled("client")'
    <2>1. \A n \in InFlight["server"] : ~Barrier("client", n)
      BY <1>2 DEF Barrier
    <2>2. \A n \in InFlight["server"] : n.ack \in Int /\ Settled("client", n.ack)
      BY <1>1, <1>6, <1>14, <2>1, AckAll
    <2>3. \A n \in InFlight'["server"] : Settled("client", n.ack)'
      <3> SUFFICES ASSUME NEW n \in InFlight'["server"] PROVE Settled("client", n.ack)'
        OBVIOUS
      <3>1. PICK a \in Int : a = n.ack /\ Settled("client", a)
        BY <1>9, <2>2
      <3>2. Settled("client", a)'
        BY <1>6, <1>13, <3>1, SettledStays DEF IInv
      <3> QED
        BY <3>1, <3>2
    <2> QED
      BY <1>6, <2>3, AckFromNext
  <1>26. AckInv'
    BY <1>24, <1>25 DEF AckInv, AckSettled, Endpoint
  <1> QED
    BY <1>11, <1>16, <1>18, <1>20, <1>21, <1>22, <1>23, <1>26 DEF FlowInv

(* The client posts its buffer again.                                       *)
LEMMA ResumeResyncFlow ==
    ASSUME FlowInv, IInv, IInv', AnswerInv, ResumeResync
    PROVE  FlowInv'
  <1> DEFINE b == buffer["client"]
             e == "client"
  <1>1. /\ TopInv /\ LinkInv /\ FlushInv /\ KeptInv /\ CoveredInv /\ EarlyInv /\ OrderInv /\ AckInv
    BY DEF FlowInv
  <1>2. /\ UNCHANGED <<nextId, buffer, maxReceived, incoming, up, serverLoop, reconnects, boot, draft, handled, sent>>
        /\ resync = "resuming" /\ resync' = "none"
        /\ Post(e, b)
    BY DEF ResumeResync, endVars, appVars
  <1>3. reconnects = 1 /\ up /\ boot = "connected" /\ ~Unheard["client"] /\ ~Unheard["server"]
    <2>1. reconnects = 1
      BY <1>1, <1>2 DEF LinkInv
    <2> QED
      BY <1>1, <2>1 DEF LinkInv, First
  <1>4. Peer("client") = "server" /\ Peer("server") = "client" /\ "client" \in Endpoint /\ "server" \in Endpoint
    BY Peers DEF Peer
  <1>5. b \in Seq(Envelope) /\ b \in Seq(sent[e]) /\ Len(b) \in Nat
    <2>1. b \in Seq(Envelope)
      BY <1>4 DEF IInv, TypeOK
    <2>2. b \in Seq(sent[e])
      BY <1>4 DEF IInv, OnlySent
    <2> QED
      BY <2>1, <2>2
  <1>6. \A i \in 1..Len(b) : b[i] \in sent[e] /\ b[i].kind \in Applications
    <2>1. \A i \in 1..Len(b) : b[i] \in sent[e]
      BY <1>5
    <2> QED
      BY <1>4, <2>1 DEF AnswerInv, Numbering
  <1>7. Way'["server"] = Way["server"] /\ Way'[e] = Way[e] \o b
    BY <1>2, <1>3, <1>4, <1>5, WayPost
  <1>8. InFlight'[e] = InFlight[e] \cup Elements(b) /\ InFlight'["server"] = InFlight["server"]
    BY <1>4, <1>5, <1>7, InFlightMoves
  <1>9. ~Flushing /\ ~Flushing'
    <2>1. ~Flushing
      BY <1>1, <1>2 DEF FlushInv, Flushing
    <2>2. \A n \in Elements(b) : n.kind # "FlushBufferedMessages"
      BY <1>6 DEF Elements, Applications
    <2> QED
      BY <1>8, <2>1, <2>2 DEF Flushing
  <1>10. /\ Top' = Top /\ Reached' = Reached /\ Unheard' = Unheard
         /\ \A f \in Endpoint : Forward(f)
    BY <1>2, SameSettled, SameForward DEF IInv
  <1>11. ~First' /\ ~First /\ Flushed /\ Flushed' /\ ~Resent /\ Resent'
    BY <1>2, <1>3, <1>9 DEF First, Flushed, Resent
  <1>12. TopInv'
    BY <1>1, <1>2, <1>10 DEF TopInv
  <1>13. LinkInv'
    <2>1. outgoing'["client"] = outgoing["client"] \o b
      BY <1>2, <1>3, <1>4 DEF Post, IInv, TypeOK
    <2>2. Elements(outgoing'["client"]) = Elements(outgoing["client"]) \cup Elements(b)
      <3>1. outgoing["client"] \in Seq(Envelope)
        BY <1>4 DEF IInv, TypeOK
      <3> HIDE DEF b
      <3> QED
        BY <1>5, <2>1, <3>1, ElementsConcat
    <2> QED
      BY <1>1, <1>2, <1>3, <1>10, <1>11, <2>2 DEF LinkInv
  <1>14. FlushInv'
    BY <1>2, <1>9 DEF FlushInv, Flushing
  <1>15. OrderInv' /\ EarlyInv' /\ AckInv'
    BY <1>2, <1>3, <1>11 DEF OrderInv, InReach, EarlyInv, Early, AckInv, Before
  <1>16. KeptInv'
    BY <1>11 DEF KeptInv, Keeping
  <1>17. \A x \in sent["server"] : Covers("server", x)'
    <2> SUFFICES ASSUME NEW x \in sent["server"] PROVE Covers("server", x)'
      OBVIOUS
    <2>1. Covers("server", x)
      BY <1>1, <1>4, <1>11 DEF CoveredInv, Complete
    <2>2. Follows("server", 0, Len(Way["server"])) /\ Len(Way["server"]) \in Nat /\ Len(Way'["server"]) \in Nat
      BY <1>4, <1>7, SameFollows
    <2>3. draft["server"]["main"].stage = "buffered" /\ draft["server"]["main"].msg.id = x.id => Covers("server", x)'
      BY <1>2 DEF Covers
    <2>4. Forward("server")
      BY <1>4, <1>10
    <2> QED
      BY <1>4, <2>1, <2>2, <2>3, <2>4, CoversStays
  <1>18. \A x \in sent[e] : Covers(e, x)'
    <2> SUFFICES ASSUME NEW x \in sent[e] PROVE Covers(e, x)'
      OBVIOUS
    <2>1. Keeps(e, x)
      BY <1>1, <1>4, <1>11 DEF KeptInv, Keeping
    <2>2. CASE x.id \in Reached[e]
      BY <1>10, <2>2 DEF Covers
    <2>3. CASE x.id \in Ids(Elements(b))
      <3>1. PICK i \in 1..Len(b) : b[i].id = x.id
        BY <2>3 DEF Ids, Elements
      <3> DEFINE k == Len(Way[e])
                 l == Len(Way'[e])
      <3>2. /\ l = k + Len(b)
            /\ \A j \in (k + 1)..l : j - k \in 1..Len(b) /\ Way'[e][j] = b[j - k]
        BY <1>4, <1>5, <1>7, PostFollows
      <3>3. k \in Nat
        <4>1. Way[e] \in Seq(Envelope)
          BY <1>4, WayTypes DEF WayOK
        <4> QED
          BY <4>1
      <3> DEFINE n == Len(b)
      <3>4. l = k + n /\ k \in Nat /\ n \in Nat /\ i \in 1..n
        BY <1>5, <3>2, <3>3
      <3> HIDE DEF k, l, n
      <3>5. i + k \in (k + 1)..l /\ i + k \in 1..l /\ (i + k) - k = i
        BY <3>4
      <3>6. Way'[e][i + k] = b[i]
        BY <3>2, <3>5
      <3> QED
        BY <1>6, <3>1, <3>5, <3>6 DEF Covers, Comes, l
    <2>4. CASE x.id = 0 /\ Unheard[e]
      BY <1>3, <2>4
    <2> QED
      BY <2>1, <2>2, <2>3, <2>4 DEF Keeps
  <1>19. CoveredInv'
    BY <1>2, <1>17, <1>18 DEF CoveredInv, Endpoint
  <1> QED
    BY <1>12, <1>13, <1>14, <1>15, <1>16, <1>19 DEF FlowInv

-----------------------------------------------------------------------------
(* Every step.                                                              *)

LEMMA SendFlow ==
    ASSUME OneThread, FlowInv, IInv, IInv', AnswerInv, NEW e \in Endpoint, NEW t \in Threads(e),
           Sending(e, t) \/ Finishing(e, t)
    PROVE  FlowInv'
  <1>1. t = "main"
    BY DEF OneThread, Threads
  <1>2. CASE SendNotice(e, t)
    BY <1>1, <1>2, AllocateFlow DEF SendNotice
  <1>3. CASE SendRequest(e, t)
    BY <1>1, <1>3, AllocateFlow DEF SendRequest
  <1>4. CASE \E i \in answering[e] : SendResponse(e, t, i)
    BY <1>1, <1>4, AllocateFlow DEF SendResponse
  <1>5. CASE Enbuffer(e, t)
    BY <1>1, <1>5, EnbufferFlow
  <1>6. CASE PostDraft(e, t)
    BY <1>1, <1>6, PostDraftFlow
  <1> QED
    BY <1>2, <1>3, <1>4, <1>5, <1>6 DEF Sending, Finishing

LEMMA LoopFlow ==
    ASSUME FlowInv, IInv, IInv', AnswerInv, CopyInv, NEW e \in Endpoint, Looping(e) \/ Deliver(e)
    PROVE  FlowInv'
  BY StartLoopFlow, HandleFlushFlow, RemoteStartedFlow, HandleAnswerFlow, HandleMessageFlow, DeliverFlow
     DEF Looping

LEMMA PingFlow ==
    ASSUME OneThread, FlowInv, IInv, IInv', SendPing
    PROVE  FlowInv'
  <1>1. Allocate("client", "main", "Request", None) /\ (boot' = "connected" <=> boot = "connected")
    BY DEF SendPing
  <1> QED
    BY <1>1, Peers, AllocateFlow

LEMMA StutterFlow ==
    ASSUME FlowInv, UNCHANGED vars
    PROVE  FlowInv'
  <1>1. UNCHANGED <<nextId, buffer, maxReceived, outgoing, incoming, resync, flushId, up, serverLoop,
                    reconnects, boot, draft, handled, sent>>
    BY DEF vars, endVars, queueVars, linkVars, appVars
  <1>2. Way' = Way /\ InFlight' = InFlight /\ (Flushing' <=> Flushing)
    BY <1>1, SameQueues
  <1>3. /\ Top' = Top /\ Reached' = Reached /\ Unheard' = Unheard
        /\ \A e \in Endpoint : \A n : Settled(e, n)' <=> Settled(e, n)
    BY <1>1 DEF Top, Reached, Unheard, HandledIds, Settled
  <1>4. Plain
    BY <1>1, <1>2 DEF Plain
  <1>5. \A e \in Endpoint : /\ Complete(e)' <=> Complete(e)
                            /\ Keeping(e)' <=> Keeping(e)
                            /\ Early(e)' <=> Early(e)
                            /\ Before(e)' <=> Before(e)
                            /\ \A m : Barrier(e, m)' <=> Barrier(e, m)
    BY <1>4, PlainModes
  <1>6. (First' <=> First) /\ (Flushed' <=> Flushed)
    BY <1>4, PlainModes
  <1>7. TopInv' /\ LinkInv' /\ FlushInv'
    BY <1>1, <1>2, <1>3, <1>6 DEF FlowInv, TopInv, LinkInv, FlushInv, Barrier
  <1>8. OrderInv'
    BY <1>1, <1>2, <1>3, <1>6 DEF FlowInv, OrderInv, InReach, Arrives, Comes
  <1>9. CoveredInv' /\ KeptInv' /\ EarlyInv'
    <2>1. CoveredInv'
      <3>1. \A e \in Endpoint : \A x : Covers(e, x)' <=> Covers(e, x)
        BY <1>1, <1>2, <1>3 DEF Covers, Comes
      <3> QED
        BY <1>1, <1>5, <3>1 DEF FlowInv, CoveredInv
    <2>2. KeptInv'
      <3>1. \A e \in Endpoint : \A x : Keeps(e, x)' <=> Keeps(e, x)
        BY <1>1, <1>3 DEF Keeps
      <3> QED
        BY <1>1, <1>5, <3>1 DEF FlowInv, KeptInv
    <2>3. EarlyInv'
      <3>1. /\ maxReceived' = maxReceived /\ sent' = sent
            /\ \A e \in Endpoint : \A n : Settled(Peer(e), n)' <=> Settled(Peer(e), n)
        BY <1>3, Peers DEF vars, endVars, appVars
      <3>2. ASSUME NEW e \in Endpoint, Early(e)
            PROVE  Settled(Peer(e), maxReceived[e])' /\ \A m \in sent'[e] : Settled(Peer(e), m.ack)'
        <4>1. Settled(Peer(e), maxReceived[e]) /\ \A m \in sent[e] : Settled(Peer(e), m.ack)
          BY <3>2 DEF FlowInv, EarlyInv
        <4>2. PICK n : n = maxReceived[e]
          OBVIOUS
        <4>3. Settled(Peer(e), n)'
          BY <3>1, <4>1, <4>2
        <4>4. Settled(Peer(e), maxReceived[e])'
          BY <3>1, <4>2, <4>3 DEF Settled
        <4> QED
          BY <3>1, <4>1, <4>4
      <3> QED
        BY <1>5, <3>2 DEF EarlyInv
    <2> QED
      BY <2>1, <2>2, <2>3
  <1>10. AckInv'
    <2>1. \A e \in Endpoint : \A i : Barrier(e, Way[Peer(e)][i])' <=> Barrier(e, Way[Peer(e)][i])
      BY <1>1, <1>2 DEF Barrier
    <2>2. \A e \in Endpoint : \A i : Settled(e, Way[Peer(e)][i].ack)' <=> Settled(e, Way[Peer(e)][i].ack)
      BY <1>1, <1>2, <1>3 DEF Settled
    <2> QED
      BY <1>2, <1>5, <2>1, <2>2 DEF FlowInv, AckInv
  <1> QED
    BY <1>7, <1>8, <1>9, <1>10 DEF FlowInv

LEMMA FlowInvStep ==
    ASSUME OneThread, MaxReconnects <= 1, IInv, IInv', AnswerInv, CopyInv, FlowInv, [Next]_vars
    PROVE  FlowInv'
  <1>1. CASE SendPing
    BY <1>1, PingFlow
  <1>2. CASE \E e \in Endpoint : \E t \in Threads(e) : Sending(e, t) \/ Finishing(e, t)
    BY <1>2, SendFlow
  <1>3. CASE \E e \in Endpoint : Looping(e) \/ Deliver(e)
    BY <1>3, LoopFlow
  <1>4. CASE Disconnect
    BY <1>4, DisconnectFlow
  <1>5. CASE ServerWriteLost
    BY <1>5, ServerWriteLostFlow
  <1>6. CASE ServerBreak \/ ServerAccept
    BY <1>6, ServerLoopFlow
  <1>7. CASE Reconnect
    BY <1>7, ReconnectFlow
  <1>8. CASE RequestFlush
    BY <1>8, RequestFlushFlow
  <1>9. CASE ResumeResync
    BY <1>9, ResumeResyncFlow
  <1>10. CASE UNCHANGED vars
    BY <1>10, StutterFlow
  <1> QED
    BY <1>1, <1>2, <1>3, <1>4, <1>5, <1>6, <1>7, <1>8, <1>9, <1>10 DEF Next

LEMMA FlowInit == Init => FlowInv
  <1> SUFFICES ASSUME Init PROVE FlowInv
    OBVIOUS
  <1>1. /\ \A e \in Endpoint : nextId[e] = 0 /\ buffer[e] = <<>> /\ maxReceived[e] = 0 /\ outgoing[e] = <<>>
                               /\ incoming[e] = <<>> /\ handled[e] = <<>> /\ sent[e] = {}
        /\ \A e \in Endpoint : draft[e]["main"].stage = "idle"
        /\ boot = "starting" /\ resync = "none" /\ up /\ serverLoop = "accepting" /\ reconnects = 0
    BY DEF Init, Idle, Threads
  <1>2. \A e \in Endpoint : Way[e] = <<>> /\ Len(Way[e]) = 0 /\ Way[Peer(e)] = <<>> /\ InFlight[e] = {}
    <2>1. Elements(<<>>) = {} /\ <<>> \o <<>> = <<>> /\ Len(<<>>) = 0
      BY DEF Elements
    <2>2. \A e \in Endpoint : Way[e] = <<>>
      BY <1>1, <2>1, Peers DEF Way
    <2>3. \A e \in Endpoint : InFlight[e] = {}
      BY <1>1, <2>1, Peers DEF InFlight
    <2> QED
      BY <2>1, <2>2, <2>3, Peers
  <1>3. 1..0 = {}
    OBVIOUS
  <1>4. TopInv
    BY <1>1 DEF TopInv
  <1>5. LinkInv
    BY <1>1 DEF LinkInv, First
  <1>6. FlushInv
    BY <1>1, <1>2, Peers DEF FlushInv
  <1>7. OrderInv
    BY <1>2, <1>3 DEF OrderInv
  <1>8. CoveredInv /\ KeptInv
    BY <1>1 DEF CoveredInv, KeptInv
  <1>9. EarlyInv
    BY <1>1, Peers DEF EarlyInv, Settled
  <1>10. AckInv
    BY <1>2, <1>3, Peers DEF AckInv
  <1> QED
    BY <1>4, <1>5, <1>6, <1>7, <1>8, <1>9, <1>10 DEF FlowInv

LEMMA FlowLosesNothing ==
    ASSUME OneThread, IInv, FlowInv
    PROVE  NoLoss
  <1> SUFFICES ASSUME NEW e \in Endpoint, NEW x \in sent[e]
               PROVE  x.id \in HandledIds(Peer(e)) \cup Ids(Elements(buffer[e]))
                               \cup Ids(Elements(outgoing[e])) \cup Ids(Elements(incoming[Peer(e)]))
                               \cup {draft[e][t].msg.id : t \in Threads(e)}
    BY DEF NoLoss, SentIds, Ids
  <1>1. LinkInv /\ CoveredInv /\ KeptInv
    BY DEF FlowInv
  <1>2. CASE Complete(e)
    <2>1. Covers(e, x)
      BY <1>1, <1>2 DEF CoveredInv
    <2>2. CASE x.id \in Reached[e]
      BY <2>2 DEF Reached
    <2>3. CASE Comes(e, Len(Way[e]), x.id)
      <3>1. Way[e] \in Seq(Envelope) /\ Elements(Way[e]) = InFlight[e]
        BY WayTypes DEF WayOK
      <3>2. PICK j \in 1..Len(Way[e]) : Way[e][j].id = x.id
        BY <2>3 DEF Comes
      <3>3. Way[e][j] \in InFlight[e]
        BY <3>1, <3>2, WayElements
      <3>4. Way[e][j] \in Elements(outgoing[e]) \/ Way[e][j] \in Elements(incoming[Peer(e)])
        BY <3>3 DEF InFlight
      <3> QED
        BY <3>2, <3>4 DEF Ids
    <2>4. CASE draft[e]["main"].msg.id = x.id
      BY <2>4 DEF Threads
    <2> QED
      BY <2>1, <2>2, <2>3, <2>4 DEF Covers
  <1>3. CASE ~Complete(e)
    <2>1. Keeping(e) /\ ~First
      BY <1>3 DEF Complete, Keeping
    <2>2. ~Unheard[e]
      BY <1>1, <2>1 DEF LinkInv, Endpoint
    <2>3. Keeps(e, x)
      BY <1>1, <2>1 DEF KeptInv
    <2> QED
      BY <2>2, <2>3 DEF Keeps, Reached
  <1> QED
    BY <1>2, <1>3

(* Nothing is lost over one lost connection, whatever each end sends from   *)
(* its main thread: what has entered a buffer has reached the peer's        *)
(* application, or is on its way, or is still there to be posted again.  It *)
(* takes the barrier at which the client's loop waits for resync (1493),    *)
(* and that both the flush and resync post the whole buffer.  Both          *)
(* hypotheses are needed: see the runs channel_background_send and          *)
(* channel_two_drops.                                                       *)
THEOREM OneReconnectLosesNothing ==
    ASSUME OneThread, MaxReconnects <= 1
    PROVE  Spec => []NoLoss
  <1>1. Init => FlowInv
    BY FlowInit
  <1>2. IInv /\ IInv' /\ AnswerInv /\ CopyInv /\ FlowInv /\ [Next]_vars => FlowInv'
    BY FlowInvStep
  <1>3. IInv /\ FlowInv => NoLoss
    BY FlowLosesNothing
  <1> QED
    BY <1>1, <1>2, <1>3, Invariance, AnswerInvariance, CopyInvariance, PTL DEF Spec
=============================================================================
