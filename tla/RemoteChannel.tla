---------------------------- MODULE RemoteChannel ----------------------------
(***************************************************************************)
(* The message channel between an editor and its remote development server *)
(* (ChannelClient, crates/remote/src/remote_client.rs), over a link that   *)
(* drops and is re-established.                                            *)
(*                                                                         *)
(* Both ends run the same ChannelClient: it numbers envelopes, keeps the   *)
(* ones not yet acknowledged in a buffer, and piggybacks on everything it  *)
(* sends the id of the last envelope it took in.  The editor's end         *)
(* ("client") re-creates its two queues on every reconnect and asks for    *)
(* what it missed with FlushBufferedMessages; the daemon's end ("server")  *)
(* keeps its queues for life, and only its socket loop (start_server,      *)
(* crates/remote_server/src/server.rs) moves from one connection to the    *)
(* next.                                                                   *)
(*                                                                         *)
(* ChannelClient is shared between threads: a send takes its id, enters    *)
(* the buffer and enters the outgoing queue in three separate steps, which *)
(* interleave with the other threads of that end.  The message loop and    *)
(* the client's reconnect run on the main thread, between two sends of it. *)
(***************************************************************************)
EXTENDS Integers, Sequences, FiniteSets

CONSTANTS
    Background,     \* Background[e]: threads of end e that send, main aside
    MaxSends,       \* bound: notices and requests each end sends of its own
    MaxReconnects   \* bound: connections lost and re-established

Endpoint == {"client", "server"}

Peer(e) == IF e = "client" THEN "server" ELSE "client"

Threads(e) == {"main"} \cup Background[e]

ASSUME BackgroundAssumption == DOMAIN Background = Endpoint
ASSUME MaxSendsAssumption == MaxSends \in [Endpoint -> Nat]
ASSUME MaxReconnectsAssumption == MaxReconnects \in Nat

-----------------------------------------------------------------------------
(* Envelopes.  None is the protobuf field left unset; it is below every id, *)
(* so an envelope without ack_id acknowledges nothing.                      *)

None == -1

Kind == {"RemoteStarted", "FlushBufferedMessages", "Ack",
         "Notice", "Request", "Response"}

Envelope == [id : Nat, ack : Nat \cup {None}, resp : Nat \cup {None}, kind : Kind]

RemoteStartedEnvelope ==
    [id |-> 0, ack |-> None, resp |-> None, kind |-> "RemoteStarted"]

AckEnvelope(id, resp) == [id |-> id, ack |-> None, resp |-> resp, kind |-> "Ack"]

(* A send in progress on a thread: "allocated" has its id, "buffered" is    *)
(* also in the buffer and only the outgoing queue is left.                  *)
Idle == [stage |-> "idle", msg |-> RemoteStartedEnvelope]

Draft == [stage : {"idle", "allocated", "buffered"}, msg : Envelope]

VARIABLES
    boot,             \* how far RemoteClient::new has come
    nextId,           \* nextId[e]: next_message_id
    buffer,           \* buffer[e]: sent and not yet acknowledged
    maxReceived,      \* maxReceived[e]: max_received
    responseChannels, \* responseChannels[e]: ids of requests not yet resolved
    remoteStarted,    \* remoteStarted[e]: the signal has been set
    running,          \* running[e]: the message loop has announced itself
    outgoing,         \* outgoing[e]: posted by e, not yet read by the peer
    incoming,         \* incoming[e]: read by e, not yet taken by its loop
    draft,            \* draft[e][t]: the send in progress on thread t of e
    resync,           \* how far the client's reconnect and resync have come
    flushId,          \* the flush request resync awaits, or None
    up,               \* the client has a live connection
    serverLoop,       \* the server's socket loop
    reconnects,       \* connections made after the first
    sends,            \* sends[e]: notices and requests sent so far
    handled,          \* history: handled[e], what reached e's application
    answering,        \* answering[e]: positions of handled[e] still to answer
    sent              \* history: sent[e], what entered e's buffer

endVars == <<nextId, buffer, maxReceived, responseChannels, remoteStarted, running>>
queueVars == <<outgoing, incoming>>
linkVars == <<resync, flushId, up, serverLoop, reconnects>>
appVars == <<boot, draft, sends, handled, answering, sent>>
vars == <<endVars, queueVars, linkVars, appVars>>

TypeOK ==
    /\ boot \in {"starting", "pinging", "connected"}
    /\ nextId \in [Endpoint -> Nat]
    /\ buffer \in [Endpoint -> Seq(Envelope)]
    /\ maxReceived \in [Endpoint -> Nat]
    /\ responseChannels \in [Endpoint -> SUBSET Nat]
    /\ remoteStarted \in [Endpoint -> BOOLEAN]
    /\ running \in [Endpoint -> BOOLEAN]
    /\ outgoing \in [Endpoint -> Seq(Envelope)]
    /\ incoming \in [Endpoint -> Seq(Envelope)]
    /\ DOMAIN draft = Endpoint
    /\ \A e \in Endpoint : draft[e] \in [Threads(e) -> Draft]
    /\ resync \in {"none", "swapped", "waiting", "resuming"}
    /\ flushId \in Nat \cup {None}
    /\ up \in BOOLEAN
    /\ serverLoop \in {"accepting", "attached", "lost"}
    /\ reconnects \in Nat
    /\ sends \in [Endpoint -> Nat]
    /\ handled \in [Endpoint -> Seq(Envelope)]
    /\ DOMAIN answering = Endpoint
    /\ \A e \in Endpoint : answering[e] \subseteq 1..Len(handled[e])
    /\ sent \in [Endpoint -> SUBSET Envelope]

(* The editor has spawned the proxy and the daemon is about to accept it;   *)
(* neither message loop has run.                                            *)
Init ==
    /\ boot = "starting"
    /\ nextId = [e \in Endpoint |-> 0]
    /\ buffer = [e \in Endpoint |-> <<>>]
    /\ maxReceived = [e \in Endpoint |-> 0]
    /\ responseChannels = [e \in Endpoint |-> {}]
    /\ remoteStarted = [e \in Endpoint |-> FALSE]
    /\ running = [e \in Endpoint |-> FALSE]
    /\ outgoing = [e \in Endpoint |-> <<>>]
    /\ incoming = [e \in Endpoint |-> <<>>]
    /\ draft = [e \in Endpoint |-> [t \in Threads(e) |-> Idle]]
    /\ resync = "none"
    /\ flushId = None
    /\ up = TRUE
    /\ serverLoop = "accepting"
    /\ reconnects = 0
    /\ sends = [e \in Endpoint |-> 0]
    /\ handled = [e \in Endpoint |-> <<>>]
    /\ answering = [e \in Endpoint |-> {}]
    /\ sent = [e \in Endpoint |-> {}]

-----------------------------------------------------------------------------
(* outgoing_tx.unbounded_send(..).ok(): without a connection the client's   *)
(* receiver is gone and the envelope is dropped; the daemon's never is.     *)
Post(e, msgs) ==
    outgoing' = IF e = "client" /\ ~up
                THEN outgoing
                ELSE [outgoing EXCEPT ![e] = @ \o msgs]

(* The lengths of prefix of b that "while front.id <= ack { pop_front }"    *)
(* removes: there is exactly one.                                           *)
AckedPrefix(b, ack) ==
    {k \in 0..Len(b) : /\ \A j \in 1..k : b[j].id <= ack
                       /\ k < Len(b) => b[k + 1].id > ack}

DropPrefix(b, k) == SubSeq(b, k + 1, Len(b))

(* The main thread is neither inside a send nor between the two halves of   *)
(* a reconnect.                                                             *)
MainFree(e) ==
    /\ draft[e]["main"] = Idle
    /\ e = "client" => resync # "swapped"

(* start_handling_messages, up to its loop: every (re)created loop first    *)
(* posts a RemoteStarted with id 0, outside the buffer.                     *)
StartLoop(e) ==
    /\ MainFree(e)
    /\ ~running[e]
    /\ running' = [running EXCEPT ![e] = TRUE]
    /\ Post(e, <<RemoteStartedEnvelope>>)
    /\ UNCHANGED <<nextId, buffer, maxReceived, responseChannels, remoteStarted,
                   incoming, linkVars, appVars>>

-----------------------------------------------------------------------------
(* Sending.  Any thread of an end may send at any time; the three steps of  *)
(* request_dynamic / send_dynamic and send_buffered interleave with the     *)
(* other threads and with the message loop.                                 *)

(* next_message_id.fetch_add, and for a request the response channel.       *)
Allocate(e, t, kind, resp) ==
    /\ draft[e][t] = Idle
    /\ t = "main" => MainFree(e)
    /\ draft' = [draft EXCEPT ![e][t] =
            [stage |-> "allocated",
             msg |-> [id |-> nextId[e], ack |-> None, resp |-> resp, kind |-> kind]]]
    /\ nextId' = [nextId EXCEPT ![e] = @ + 1]
    /\ responseChannels' = IF kind = "Request"
                           THEN [responseChannels EXCEPT ![e] = @ \cup {nextId[e]}]
                           ELSE responseChannels
    /\ UNCHANGED <<buffer, maxReceived, remoteStarted, running,
                   queueVars, linkVars, handled, sent>>

(* RemoteClient::new pings the server once it has announced itself; nobody  *)
(* else has the client before the answer.                                   *)
SendPing ==
    /\ boot = "starting"
    /\ remoteStarted["client"]
    /\ Allocate("client", "main", "Request", None)
    /\ boot' = "pinging"
    /\ UNCHANGED <<sends, answering>>

(* The daemon may report on its settings before it has heard the editor.    *)
SendNotice(e, t) ==
    /\ sends[e] < MaxSends[e]
    /\ e = "client" => boot = "connected"
    /\ Allocate(e, t, "Notice", None)
    /\ sends' = [sends EXCEPT ![e] = @ + 1]
    /\ UNCHANGED <<boot, answering>>

(* The daemon's requests come from what the editor has asked of it.         *)
SendRequest(e, t) ==
    /\ sends[e] < MaxSends[e]
    /\ IF e = "client" THEN boot = "connected" ELSE remoteStarted[e]
    /\ Allocate(e, t, "Request", None)
    /\ sends' = [sends EXCEPT ![e] = @ + 1]
    /\ UNCHANGED <<boot, answering>>

(* The handler of the request at position i of handled[e] answers it.       *)
SendResponse(e, t, i) ==
    /\ i \in answering[e]
    /\ Allocate(e, t, "Response", handled[e][i].id)
    /\ answering' = [answering EXCEPT ![e] = @ \ {i}]
    /\ UNCHANGED <<boot, sends>>

(* send_buffered: load max_received into ack_id, push to the buffer.        *)
Enbuffer(e, t) ==
    LET m == [draft[e][t].msg EXCEPT !.ack = maxReceived[e]] IN
    /\ draft[e][t].stage = "allocated"
    /\ buffer' = [buffer EXCEPT ![e] = Append(@, m)]
    /\ sent' = [sent EXCEPT ![e] = @ \cup {m}]
    /\ draft' = [draft EXCEPT ![e][t] = [stage |-> "buffered", msg |-> m]]
    /\ UNCHANGED <<nextId, maxReceived, responseChannels, remoteStarted, running,
                   queueVars, linkVars, boot, sends, handled, answering>>

(* send_buffered: hand the clone to the outgoing queue, ignoring failure.   *)
PostDraft(e, t) ==
    /\ draft[e][t].stage = "buffered"
    /\ Post(e, <<draft[e][t].msg>>)
    /\ draft' = [draft EXCEPT ![e][t] = Idle]
    /\ UNCHANGED <<endVars, incoming, linkVars, boot, sends, handled, answering, sent>>

-----------------------------------------------------------------------------
(* The message loop of end e takes the envelope at the head of its queue.   *)
(* After handing over the answer to the flush it waits for resync to have   *)
(* been resumed.                                                            *)
(* Mutant: no barrier, the loop goes on while resync is being resumed.      *)
TakingWithoutBarrier(e) ==
    /\ MainFree(e)
    /\ running[e]
    /\ incoming[e] # <<>>
    /\ incoming' = [incoming EXCEPT ![e] = Tail(@)]

Taking(e) ==
    /\ MainFree(e)
    /\ running[e]
    /\ incoming[e] # <<>>
    /\ e = "client" => resync # "resuming"
    /\ incoming' = [incoming EXCEPT ![e] = Tail(@)]

PopAcked(e, m) ==
    \E k \in AckedPrefix(buffer[e], m.ack) :
        buffer' = [buffer EXCEPT ![e] = DropPrefix(@, k)]

(* Mutant: the flush is acknowledged without sending the buffer again.      *)
HandleFlushWithoutResend(e) ==
    LET m == Head(incoming[e]) IN
    /\ Taking(e)
    /\ m.kind = "FlushBufferedMessages"
    /\ PopAcked(e, m)
    /\ Post(e, <<AckEnvelope(nextId[e], m.id)>>)
    /\ nextId' = [nextId EXCEPT ![e] = @ + 1]
    /\ UNCHANGED <<maxReceived, responseChannels, remoteStarted, running,
                   linkVars, appVars>>

HandleFlush(e) ==
    LET m == Head(incoming[e]) IN
    /\ Taking(e)
    /\ m.kind = "FlushBufferedMessages"
    /\ PopAcked(e, m)
    /\ Post(e, Append(buffer'[e], AckEnvelope(nextId[e], m.id)))
    /\ nextId' = [nextId EXCEPT ![e] = @ + 1]
    /\ UNCHANGED <<maxReceived, responseChannels, remoteStarted, running,
                   linkVars, appVars>>

(* Mutant: the acknowledgement keeps id 0 instead of taking a fresh one.    *)
HandleRemoteStartedUnnumbered(e) ==
    LET m == Head(incoming[e]) IN
    /\ Taking(e)
    /\ m.kind = "RemoteStarted"
    /\ PopAcked(e, m)
    /\ remoteStarted' = [remoteStarted EXCEPT ![e] = TRUE]
    /\ Post(e, <<AckEnvelope(0, m.id)>>)
    /\ UNCHANGED <<nextId, maxReceived, responseChannels, running, linkVars, appVars>>

(* Mutant: RemoteStarted is answered like a flush.                          *)
HandleRemoteStartedAsFlush(e) ==
    LET m == Head(incoming[e]) IN
    /\ Taking(e)
    /\ m.kind = "RemoteStarted"
    /\ PopAcked(e, m)
    /\ remoteStarted' = [remoteStarted EXCEPT ![e] = TRUE]
    /\ Post(e, Append(buffer'[e], AckEnvelope(nextId[e], m.id)))
    /\ nextId' = [nextId EXCEPT ![e] = @ + 1]
    /\ UNCHANGED <<maxReceived, responseChannels, running, linkVars, appVars>>

(* Mutant: "continue" is missing and RemoteStarted is dispatched as well.   *)
HandleRemoteStartedAndDispatch(e) ==
    LET m == Head(incoming[e]) IN
    /\ Taking(e)
    /\ m.kind = "RemoteStarted"
    /\ PopAcked(e, m)
    /\ remoteStarted' = [remoteStarted EXCEPT ![e] = TRUE]
    /\ Post(e, <<AckEnvelope(nextId[e], m.id)>>)
    /\ nextId' = [nextId EXCEPT ![e] = @ + 1]
    /\ maxReceived' = [maxReceived EXCEPT ![e] = m.id]
    /\ handled' = [handled EXCEPT ![e] = Append(@, m)]
    /\ UNCHANGED <<responseChannels, running, linkVars, boot, draft, sends, answering, sent>>

HandleRemoteStarted(e) ==
    LET m == Head(incoming[e]) IN
    /\ Taking(e)
    /\ m.kind = "RemoteStarted"
    /\ PopAcked(e, m)
    /\ remoteStarted' = [remoteStarted EXCEPT ![e] = TRUE]
    /\ Post(e, <<AckEnvelope(nextId[e], m.id)>>)
    /\ nextId' = [nextId EXCEPT ![e] = @ + 1]
    /\ UNCHANGED <<maxReceived, responseChannels, running, linkVars, appVars>>

(* Mutant: the answer's ack_id is stored where its id belongs.              *)
HandleAnswerStoringAck(e) ==
    LET m == Head(incoming[e]) IN
    /\ Taking(e)
    /\ m.kind \in {"Ack", "Response"}
    /\ PopAcked(e, m)
    /\ maxReceived' = [maxReceived EXCEPT ![e] = m.ack]
    /\ responseChannels' = [responseChannels EXCEPT ![e] = @ \ {m.resp}]
    /\ resync' = IF e = "client" /\ resync = "waiting" /\ m.resp = flushId
                 THEN "resuming"
                 ELSE resync
    /\ handled' = IF m.kind = "Response"
                  THEN [handled EXCEPT ![e] = Append(@, m)]
                  ELSE handled
    /\ boot' = IF e = "client" /\ m.kind = "Response" THEN "connected" ELSE boot
    /\ UNCHANGED <<nextId, remoteStarted, running, outgoing,
                   flushId, up, serverLoop, reconnects,
                   draft, sends, answering, sent>>

(* An envelope with responding_to: its request, if still known, is removed  *)
(* and resumed; the flush request's resumption is ResumeResync.             *)
HandleAnswer(e) ==
    LET m == Head(incoming[e]) IN
    /\ Taking(e)
    /\ m.kind \in {"Ack", "Response"}
    /\ PopAcked(e, m)
    /\ maxReceived' = [maxReceived EXCEPT ![e] = m.id]
    /\ responseChannels' = [responseChannels EXCEPT ![e] = @ \ {m.resp}]
    /\ resync' = IF e = "client" /\ resync = "waiting" /\ m.resp = flushId
                 THEN "resuming"
                 ELSE resync
    /\ handled' = IF m.kind = "Response"
                  THEN [handled EXCEPT ![e] = Append(@, m)]
                  ELSE handled
    /\ boot' = IF e = "client" /\ m.kind = "Response" THEN "connected" ELSE boot
    /\ UNCHANGED <<nextId, remoteStarted, running, outgoing,
                   flushId, up, serverLoop, reconnects,
                   draft, sends, answering, sent>>

(* Everything else is dispatched to its handler; a request's handler is     *)
(* left to answer it (with an error if no handler is registered).           *)
HandleMessage(e) ==
    LET m == Head(incoming[e]) IN
    /\ Taking(e)
    /\ m.kind \in {"Notice", "Request"}
    /\ PopAcked(e, m)
    /\ maxReceived' = [maxReceived EXCEPT ![e] = m.id]
    /\ handled' = [handled EXCEPT ![e] = Append(@, m)]
    /\ answering' = IF m.kind = "Request"
                    THEN [answering EXCEPT ![e] = @ \cup {Len(handled[e]) + 1}]
                    ELSE answering
    /\ UNCHANGED <<nextId, responseChannels, remoteStarted, running, outgoing,
                   linkVars, boot, draft, sends, sent>>

-----------------------------------------------------------------------------
(* The link.  Each direction is FIFO while both ends are on the same        *)
(* connection; outgoing[e] is the queue and the bytes in flight together.   *)

Deliver(e) ==
    /\ up
    /\ serverLoop = "attached"
    /\ outgoing[e] # <<>>
    /\ incoming' = [incoming EXCEPT ![Peer(e)] = Append(@, Head(outgoing[e]))]
    /\ outgoing' = [outgoing EXCEPT ![e] = Tail(@)]
    /\ UNCHANGED <<endVars, linkVars, appVars>>

(* The client's connection ends (network, proxy exit, kill after a timed    *)
(* out resync).  Its outgoing queue dies with the connection's tasks; what  *)
(* it has read stays with the message loop.  (Before the ping is answered,  *)
(* the client ends with its connection: see RemoteClient.)                  *)
Disconnect ==
    /\ up
    /\ boot = "connected"
    /\ reconnects < MaxReconnects
    /\ up' = FALSE
    /\ outgoing' = [outgoing EXCEPT !["client"] = <<>>]
    /\ serverLoop' = IF serverLoop = "attached" THEN "lost" ELSE serverLoop
    /\ UNCHANGED <<endVars, incoming, resync, flushId, reconnects, appVars>>

(* What the daemon wrote to a connection that is gone: in flight when it    *)
(* dropped, written before the drop was noticed, or failed to write.        *)
ServerWriteLost ==
    /\ serverLoop = "lost"
    /\ outgoing["server"] # <<>>
    /\ outgoing' = [outgoing EXCEPT !["server"] = Tail(@)]
    /\ UNCHANGED <<endVars, incoming, linkVars, appVars>>

(* The daemon's inner loop breaks and it waits for the next connection.     *)
ServerBreak ==
    /\ serverLoop = "lost"
    /\ serverLoop' = "accepting"
    /\ UNCHANGED <<endVars, queueVars, resync, flushId, up, reconnects, appVars>>

ServerAccept ==
    /\ serverLoop = "accepting"
    /\ up
    /\ serverLoop' = "attached"
    /\ UNCHANGED <<endVars, queueVars, resync, flushId, up, reconnects, appVars>>

(* RemoteClient::reconnect on a new connection: ChannelClient::reconnect    *)
(* swaps in new queues and a new message loop, whose first poll comes later. *)
Reconnect ==
    /\ MainFree("client")
    /\ ~up
    /\ resync # "resuming"
    /\ up' = TRUE
    /\ reconnects' = reconnects + 1
    /\ running' = [running EXCEPT !["client"] = FALSE]
    /\ incoming' = [incoming EXCEPT !["client"] = <<>>]
    /\ resync' = "swapped"
    /\ flushId' = None
    /\ UNCHANGED <<nextId, buffer, maxReceived, responseChannels, remoteStarted,
                   outgoing, serverLoop, appVars>>

(* Mutant: the buffer is posted with the request as well as after it.       *)
RequestFlushEagerly ==
    LET flush == [id |-> nextId["client"], ack |-> maxReceived["client"],
                  resp |-> None, kind |-> "FlushBufferedMessages"] IN
    /\ resync = "swapped"
    /\ resync' = "waiting"
    /\ flushId' = flush.id
    /\ nextId' = [nextId EXCEPT !["client"] = @ + 1]
    /\ responseChannels' = [responseChannels EXCEPT !["client"] = @ \cup {flush.id}]
    /\ Post("client", <<flush>> \o buffer["client"])
    /\ UNCHANGED <<buffer, maxReceived, remoteStarted, running, incoming,
                   up, serverLoop, reconnects, appVars>>

(* resync, up to its first await: the flush request, outside the buffer.    *)
RequestFlush ==
    LET flush == [id |-> nextId["client"], ack |-> maxReceived["client"],
                  resp |-> None, kind |-> "FlushBufferedMessages"] IN
    /\ resync = "swapped"
    /\ resync' = "waiting"
    /\ flushId' = flush.id
    /\ nextId' = [nextId EXCEPT !["client"] = @ + 1]
    /\ responseChannels' = [responseChannels EXCEPT !["client"] = @ \cup {flush.id}]
    /\ Post("client", <<flush>>)
    /\ UNCHANGED <<buffer, maxReceived, remoteStarted, running, incoming,
                   up, serverLoop, reconnects, appVars>>

(* Mutant: resync is over once the server has flushed.                      *)
ResumeResyncWithoutResend ==
    /\ MainFree("client")
    /\ resync = "resuming"
    /\ resync' = "none"
    /\ flushId' = None
    /\ UNCHANGED <<endVars, outgoing, incoming, up, serverLoop, reconnects, appVars>>

(* resync, resumed with the answer: the whole buffer is posted again under  *)
(* its lock, and the message loop is let past the barrier.                  *)
ResumeResync ==
    /\ MainFree("client")
    /\ resync = "resuming"
    /\ resync' = "none"
    /\ flushId' = None
    /\ Post("client", buffer["client"])
    /\ UNCHANGED <<endVars, incoming, up, serverLoop, reconnects, appVars>>

-----------------------------------------------------------------------------
Sending(e, t) ==
    \/ SendNotice(e, t)
    \/ SendRequest(e, t)

Finishing(e, t) ==
    \/ \E i \in answering[e] : SendResponse(e, t, i)
    \/ Enbuffer(e, t)
    \/ PostDraft(e, t)

Looping(e) ==
    \/ StartLoop(e)
    \/ HandleFlush(e)
    \/ HandleRemoteStarted(e)
    \/ HandleAnswer(e)
    \/ HandleMessage(e)

Next ==
    \/ SendPing
    \/ \E e \in Endpoint : \E t \in Threads(e) : Sending(e, t) \/ Finishing(e, t)
    \/ \E e \in Endpoint : Looping(e) \/ Deliver(e)
    \/ Disconnect
    \/ ServerWriteLost
    \/ ServerBreak
    \/ ServerAccept
    \/ Reconnect
    \/ RequestFlush
    \/ ResumeResync

Spec == Init /\ [][Next]_vars

(* The executors run every task that is ready, the transport delivers what  *)
(* it does not lose, the daemon stays up and accepts, and RemoteClient      *)
(* reconnects after every disconnect.  Nothing makes an application send.   *)
Fairness ==
    /\ WF_vars(SendPing)
    /\ \A e \in Endpoint : \A t \in Threads(e) : WF_vars(Finishing(e, t))
    /\ \A e \in Endpoint : WF_vars(Looping(e)) /\ WF_vars(Deliver(e))
    /\ WF_vars(ServerBreak)
    /\ WF_vars(ServerAccept)
    /\ WF_vars(Reconnect)
    /\ WF_vars(RequestFlush)
    /\ WF_vars(ResumeResync)

FairSpec == Spec /\ Fairness

-----------------------------------------------------------------------------
(* Properties.                                                              *)

Elements(q) == {q[i] : i \in 1..Len(q)}

Ids(S) == {m.id : m \in S}

SentIds(e) == Ids(sent[e])

HandledIds(e) == Ids(Elements(handled[e]))

Requests(e) == {m \in sent[e] : m.kind = "Request"}

(* Reconnecting loses nothing: whatever end e has sent has reached the      *)
(* peer's application, or e can still send it again, or it is on its way.   *)
NoLoss ==
    \A e \in Endpoint :
        SentIds(e) \subseteq HandledIds(Peer(e))
                             \cup Ids(Elements(buffer[e]))
                             \cup Ids(Elements(outgoing[e]))
                             \cup Ids(Elements(incoming[Peer(e)]))
                             \cup {draft[e][t].msg.id : t \in Threads(e)}

(* Reconnecting repeats nothing: no envelope reaches the application twice. *)
AtMostOnce ==
    \A e \in Endpoint : \A i, j \in 1..Len(handled[e]) :
        i # j => handled[e][i].id # handled[e][j].id

(* An acknowledgement (of a flush, or of RemoteStarted, which has id 0 like *)
(* the first numbered envelope) never resolves an application's request.    *)
NoFalseAnswer ==
    \A e \in Endpoint : \A m \in Elements(incoming[e]) :
        m.kind = "Ack" => m.resp \notin Ids(Requests(e)) \cap responseChannels[e]

(* A request stops waiting only when the peer's application has taken it:   *)
(* the id spaces of the two ends, of the unnumbered envelopes and of        *)
(* earlier connections are never confused.                                  *)
ResolvedByPeer ==
    \A e \in Endpoint : \A m \in Requests(e) :
        m.id \notin responseChannels[e] => m \in Elements(handled[Peer(e)])

(* A reconnect repeats an envelope at most once: it is posted again by the  *)
(* flush or by resync, never by both and never twice.                       *)
RepeatedOncePerReconnect ==
    \A e \in Endpoint : \A m \in Elements(handled[e]) :
        Cardinality({i \in 1..Len(handled[e]) : handled[e][i].id = m.id})
            <= reconnects + 1

(* Every request is resolved in the end: no future waits for ever.          *)
EventuallyResolved ==
    \A e \in Endpoint : <>[](Ids(Requests(e)) \cap responseChannels[e] = {})

(* What the channel promises its users: see AtLeastOnce.  The messages are  *)
(* the envelopes the applications exchange; unbuffered ones are its own.    *)
Promise == INSTANCE AtLeastOnce WITH
    End <- Endpoint,
    sent <- sent,
    received <- [e \in Endpoint |-> Elements(handled[e])]

(* Nothing reaches an application that its peer did not send.               *)
KeepsPromise == Promise!Spec

(* And everything sent does, in the end, although connections were lost.    *)
KeepsPromiseInTheEnd == Promise!FairSpec
=============================================================================
