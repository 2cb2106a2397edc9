-------------------------------- MODULE RpcPeer --------------------------------
(***************************************************************************)
(* One connection between two peers of the collaboration protocol          *)
(* (crates/rpc/src/peer.rs), seen at both ends: requests from any thread,  *)
(* the future that does the connection's input and output (handle_io) with *)
(* the guard that cleans up after it, the stream of incoming messages that *)
(* hands responses to the requests that wait for them, and the connection  *)
(* lost at either end at any moment.                                       *)
(*                                                                         *)
(* Payloads are left out: a message is a request, the response to one, or  *)
(* a notice.  What an end has sent is one sequence with three positions,   *)
(* for the queues between the ends neither reorder nor repeat: beyond      *)
(* `written` are the messages in the sender's outgoing queue, between      *)
(* `read` and `written` those in the network, and up to `read` those in    *)
(* the receiver's incoming buffer.  Streams of responses (request_stream,  *)
(* which nothing in the workspace calls) are left out.                     *)
(***************************************************************************)
EXTENDS Naturals, Sequences, FiniteSets

CONSTANTS
    Ends,
    Other,     \* the end at the other side
    Requests,
    Notices,   \* messages that want no answer
    From,      \* the end that makes a request, or sends a notice
    Buffer,    \* INCOMING_BUFFER_SIZE, with the place of the one sender
    None

ASSUME OtherAssumption ==
    /\ Other \in [Ends -> Ends]
    /\ \A e \in Ends : Other[e] # e /\ Other[Other[e]] = e
ASSUME FromAssumption == From \in [Requests \cup Notices -> Ends]
ASSUME NoticesAssumption == Requests \cap Notices = {}
ASSUME BufferAssumption == Buffer \in Nat \ {0}
ASSUME NoneAssumption == None \notin Requests /\ \A S \in SUBSET Requests : S # None

VARIABLES
    connected,  \* is the connection in Peer::connections?
    io,         \* how far handle_io is
    channels,   \* response_channels: the requests that have a sender in it;
                \* None once the guard has taken it
    said,       \* what an end has sent, in the order of its outgoing queue
    written,    \* how many messages of an end handle_io has written
    read,       \* how many of them the other end's handle_io has read
    handled,    \* how many of them the other end's stream has gone through
    listening,  \* does the application still hold the incoming stream?
    handing,    \* the request that the incoming stream waits to see resumed
    future,     \* where the future of a request is
    slot,       \* its oneshot channel: the position of the response, or 0
    todo,       \* the requests that an end has got and not answered yet
    got         \* the position of the last message that an end's application
                \* got from the other

queueVars == <<said, written, read, handled>>
vars == <<connected, io, channels, queueVars, listening, handing, future, slot, todo, got>>

Message == [kind : {"request", "response"}, of : Requests] \cup [kind : {"notice"}, of : Notices]

Says(kind, x) == [kind |-> kind, of |-> x]

(* Has some end sent it?                                                    *)
Sent(m) == \E e \in Ends : \E i \in DOMAIN said[e] : said[e][i] = m

(* handle_io has not been polled yet; runs; its guard has taken the         *)
(* channels; it is gone, with outgoing_rx.                                  *)
IoStates == {"new", "running", "taken", "gone"}

Init ==
    /\ connected = [e \in Ends |-> TRUE]
    /\ io = [e \in Ends |-> "new"]
    /\ channels = [e \in Ends |-> {}]
    /\ said = [e \in Ends |-> <<>>]
    /\ written = [e \in Ends |-> 0]
    /\ read = [e \in Ends |-> 0]
    /\ handled = [e \in Ends |-> 0]
    /\ listening = [e \in Ends |-> TRUE]
    /\ handing = [e \in Ends |-> None]
    /\ future = [r \in Requests |-> "unmade"]
    /\ slot = [r \in Requests |-> 0]
    /\ todo = [e \in Ends |-> {}]
    /\ got = [e \in Ends |-> 0]
-----------------------------------------------------------------------------
(***************************************************************************)
(* Sending.                                                                *)
(***************************************************************************)
(* unbounded_send fails once outgoing_rx has been dropped.                  *)
CanPush(e) == io[e] # "gone"

Push(e, m) == said' = [said EXCEPT ![e] = Append(@, m)]

(* request_dynamic, when it is called: look the connection up ...           *)
LookUp(r) ==
    /\ future[r] = "unmade"
    /\ future' = [future EXCEPT ![r] = IF connected[From[r]] THEN "found" ELSE "failed"]
    /\ UNCHANGED <<connected, io, channels, queueVars, listening, handing, slot, todo, got>>

(* Mutant: put the channels back if they have been taken.                   *)
RegisterAlways(r) ==
    LET e == From[r]
    IN  /\ future[r] = "found"
        /\ channels' = [channels EXCEPT ![e] = IF @ = None THEN {r} ELSE @ \cup {r}]
        /\ future' = [future EXCEPT ![r] = "registered"]
        /\ UNCHANGED <<connected, io, queueVars, listening, handing, slot, todo, got>>

(* ... put the sender of its oneshot channel among the response channels,   *)
(* under their lock ...                                                     *)
Register(r) ==
    LET e == From[r]
    IN  /\ future[r] = "found"
        /\ IF channels[e] = None
           THEN /\ future' = [future EXCEPT ![r] = "failed"]
                /\ UNCHANGED channels
           ELSE /\ channels' = [channels EXCEPT ![e] = @ \cup {r}]
                /\ future' = [future EXCEPT ![r] = "registered"]
        /\ UNCHANGED <<connected, io, queueVars, listening, handing, slot, todo, got>>

(* ... and queue the message.                                               *)
SendRequest(r) ==
    LET e == From[r]
    IN  /\ future[r] = "registered"
        /\ IF CanPush(e)
           THEN /\ Push(e, Says("request", r))
                /\ future' = [future EXCEPT ![r] = "waiting"]
           ELSE /\ future' = [future EXCEPT ![r] = "failed"]
                /\ UNCHANGED said
        /\ UNCHANGED <<connected, io, channels, written, read, handled, listening,
                       handing, slot, todo, got>>

(* send                                                                     *)
SendNotice(n) ==
    LET e == From[n]
    IN  /\ ~Sent(Says("notice", n))
        /\ connected[e] /\ CanPush(e)
        /\ Push(e, Says("notice", n))
        /\ UNCHANGED <<connected, io, channels, written, read, handled, listening,
                       handing, future, slot, todo, got>>

(* respond, respond_with_error: the handler of a request is done.           *)
Respond(r) ==
    LET e == Other[From[r]]
    IN  /\ r \in todo[e]
        /\ todo' = [todo EXCEPT ![e] = @ \ {r}]
        /\ IF connected[e] /\ CanPush(e) THEN Push(e, Says("response", r)) ELSE UNCHANGED said
        /\ UNCHANGED <<connected, io, channels, written, read, handled, listening,
                       handing, future, slot, got>>
-----------------------------------------------------------------------------
(***************************************************************************)
(* handle_io.                                                              *)
(***************************************************************************)
SetIo(e, old, new) == io[e] = old /\ io' = [io EXCEPT ![e] = new]

(* It is polled for the first time, and makes its guard.                    *)
Start(e) ==
    /\ SetIo(e, "new", "running")
    /\ UNCHANGED <<connected, channels, queueVars, listening, handing, future, slot, todo, got>>

(* It is dropped before it has been polled, so that there is no guard: the  *)
(* server gives a connection up if its first messages cannot be made        *)
(* (handle_connection, send_initial_client_update).                         *)
GiveUp(e) ==
    /\ SetIo(e, "new", "gone")
    /\ listening' = [listening EXCEPT ![e] = FALSE]
    /\ UNCHANGED <<connected, channels, queueVars, handing, future, slot, todo, got>>

Write(e) ==
    /\ io[e] = "running"
    /\ written[e] < Len(said[e])
    /\ written' = [written EXCEPT ![e] = @ + 1]
    /\ UNCHANGED <<connected, io, channels, said, read, handled, listening, handing,
                   future, slot, todo, got>>

(* Something has arrived that handle_io has not read.                       *)
Arrived(e) == read[Other[e]] < written[Other[e]]

HasRoom(e) == read[Other[e]] - handled[Other[e]] < Buffer

(* Mutant: the incoming buffer has no limit.                                *)
ReadAhead(e) ==
    /\ io[e] = "running"
    /\ Arrived(e)
    /\ read' = [read EXCEPT ![Other[e]] = @ + 1]
    /\ UNCHANGED <<connected, io, channels, said, written, handled, listening, handing,
                   future, slot, todo, got>>

Read(e) ==
    /\ io[e] = "running"
    /\ Arrived(e)
    /\ HasRoom(e)
    /\ read' = [read EXCEPT ![Other[e]] = @ + 1]
    /\ UNCHANGED <<connected, io, channels, said, written, handled, listening, handing,
                   future, slot, todo, got>>

(* A request that has looked the connection up holds a sender of its        *)
(* outgoing queue.                                                          *)
Flushed(e) ==
    /\ ~connected[e]
    /\ written[e] = Len(said[e])
    /\ \A r \in Requests : future[r] \in {"found", "registered"} => From[r] # e

(* When handle_io cannot but return: its queue is closed and written, the   *)
(* other end is gone and what it wrote has been read (or nothing more of it *)
(* arrives for RECEIVE_TIMEOUT), or a message has arrived that nobody takes *)
(* for WRITE_TIMEOUT.                                                       *)
MustEnd(e) ==
    /\ io[e] = "running"
    /\ \/ Flushed(e)
       \/ ~Arrived(e) /\ io[Other[e]] \notin {"new", "running"}
       \/ Arrived(e) /\ ~HasRoom(e)

(* It returns, or is dropped: any read or write may fail or time out, and   *)
(* the server drops it when it shuts down.  Its guard first takes the       *)
(* response channels, and so drops all their senders, ...                   *)
End(e) ==
    /\ SetIo(e, "running", "taken")
    /\ channels' = [channels EXCEPT ![e] = None]
    /\ UNCHANGED <<connected, queueVars, listening, handing, future, slot, todo, got>>

(* ... then removes the connection; at last outgoing_rx is dropped.         *)
EndRemove(e) ==
    /\ SetIo(e, "taken", "gone")
    /\ connected' = [connected EXCEPT ![e] = FALSE]
    /\ UNCHANGED <<channels, queueVars, listening, handing, future, slot, todo, got>>

(* disconnect, teardown                                                     *)
Disconnect(e) ==
    /\ connected[e]
    /\ connected' = [connected EXCEPT ![e] = FALSE]
    /\ UNCHANGED <<io, channels, queueVars, listening, handing, future, slot, todo, got>>
-----------------------------------------------------------------------------
(***************************************************************************)
(* The incoming stream, polled by the application.                         *)
(***************************************************************************)
Alive(r) == future[r] \in {"found", "registered", "waiting"}

Upcoming(e) == said[Other[e]][handled[Other[e]] + 1]

(* The next message is taken from the buffer.                               *)
Take(e) ==
    /\ listening[e]
    /\ handing[e] = None
    /\ handled[Other[e]] < read[Other[e]]
    /\ handled' = [handled EXCEPT ![Other[e]] = @ + 1]
    /\ UNCHANGED <<connected, io, said, written, read, listening, future>>

(* Mutant: a response goes to whichever request is there.                   *)
HandleResponseToAny(e) ==
    LET m == Upcoming(e)
    IN  /\ Take(e)
        /\ m.kind = "response"
        /\ IF channels[e] \in {None, {}}
           THEN UNCHANGED <<channels, slot, handing>>
           ELSE LET r == CHOOSE x \in channels[e] : TRUE
                IN  /\ channels' = [channels EXCEPT ![e] = @ \ {r}]
                    /\ slot' = [slot EXCEPT ![r] = handled'[Other[e]]]
                    /\ handing' = [handing EXCEPT ![e] = r]
        /\ UNCHANGED <<todo, got>>

(* Mutant: go on without waiting for the requester.                         *)
HandleResponseAtOnce(e) ==
    LET m == Upcoming(e)
    IN  /\ Take(e)
        /\ m.kind = "response"
        /\ IF channels[e] # None /\ m.of \in channels[e]
           THEN /\ channels' = [channels EXCEPT ![e] = @ \ {m.of}]
                /\ slot' = IF Alive(m.of) THEN [slot EXCEPT ![m.of] = handled'[Other[e]]] ELSE slot
           ELSE UNCHANGED <<channels, slot>>
        /\ UNCHANGED <<handing, todo, got>>

(* A response is sent to the request, if that still waits, and the stream   *)
(* waits until it has been resumed.  The response is dropped if the         *)
(* channels have been taken, or the request is unknown.                     *)
HandleResponse(e) ==
    LET m == Upcoming(e)
    IN  /\ Take(e)
        /\ m.kind = "response"
        /\ IF channels[e] # None /\ m.of \in channels[e]
           THEN /\ channels' = [channels EXCEPT ![e] = @ \ {m.of}]
                /\ IF Alive(m.of)
                   THEN /\ slot' = [slot EXCEPT ![m.of] = handled'[Other[e]]]
                        /\ handing' = [handing EXCEPT ![e] = m.of]
                   ELSE UNCHANGED <<slot, handing>>
           ELSE UNCHANGED <<channels, slot, handing>>
        /\ UNCHANGED <<todo, got>>

(* Anything else is handed to the application.                              *)
HandleMessage(e) ==
    LET m == Upcoming(e)
    IN  /\ Take(e)
        /\ m.kind # "response"
        /\ todo' = IF m.kind = "request" THEN [todo EXCEPT ![e] = @ \cup {m.of}] ELSE todo
        /\ got' = [got EXCEPT ![e] = handled'[Other[e]]]
        /\ UNCHANGED <<channels, slot, handing>>

(* The application drops the stream, and the handlers of its messages: the  *)
(* server does with the end of handle_io, a client goes on to the end of    *)
(* the stream.                                                              *)
StopListening(e) ==
    /\ io[e] \notin {"new", "running"}
    /\ listening[e]
    /\ listening' = [listening EXCEPT ![e] = FALSE]
    /\ handing' = [handing EXCEPT ![e] = None]
    /\ todo' = [todo EXCEPT ![e] = {}]
    /\ UNCHANGED <<connected, io, channels, queueVars, future, slot, got>>
-----------------------------------------------------------------------------
(***************************************************************************)
(* The future of a request, polled by whoever made it.                     *)
(***************************************************************************)
Passed(r) == [e \in Ends |-> IF handing[e] = r THEN None ELSE handing[e]]

(* It gets its response, and lets the incoming stream go on.                *)
Resume(r) ==
    /\ future[r] = "waiting"
    /\ slot[r] # 0
    /\ future' = [future EXCEPT ![r] = "answered"]
    /\ got' = [got EXCEPT ![From[r]] = slot[r]]
    /\ handing' = Passed(r)
    /\ UNCHANGED <<connected, io, channels, queueVars, listening, slot, todo>>

(* Nobody holds the response channels any more: neither the connection nor  *)
(* handle_io nor the incoming stream.                                       *)
ChannelsDropped(e) ==
    channels[e] = None \/ (~connected[e] /\ io[e] = "gone" /\ ~listening[e])

(* Its sender has been dropped: "connection was closed".                    *)
Fail(r) ==
    /\ future[r] = "waiting"
    /\ slot[r] = 0
    /\ ChannelsDropped(From[r])
    /\ future' = [future EXCEPT ![r] = "failed"]
    /\ UNCHANGED <<connected, io, channels, queueVars, listening, handing, slot, todo, got>>

(* It is dropped instead; its sender stays among the channels.              *)
DropFuture(r) ==
    /\ future[r] = "waiting"
    /\ future' = [future EXCEPT ![r] = "dropped"]
    /\ handing' = Passed(r)
    /\ UNCHANGED <<connected, io, channels, queueVars, listening, slot, todo, got>>
-----------------------------------------------------------------------------
Io(e) == Start(e) \/ GiveUp(e) \/ Write(e) \/ Read(e) \/ End(e) \/ EndRemove(e)

Handle(e) == HandleResponse(e) \/ HandleMessage(e)

Next ==
    \/ \E r \in Requests :
           \/ LookUp(r) \/ Register(r) \/ SendRequest(r) \/ Respond(r)
           \/ Resume(r) \/ Fail(r) \/ DropFuture(r)
    \/ \E n \in Notices : SendNotice(n)
    \/ \E e \in Ends : Io(e) \/ Handle(e) \/ Disconnect(e) \/ StopListening(e)

Spec == Init /\ [][Next]_vars

(* What handle_io does by itself, and what the future of a request does.    *)
IoTends(e) ==
    Start(e) \/ GiveUp(e) \/ Write(e) \/ Read(e) \/ (MustEnd(e) /\ End(e)) \/ EndRemove(e)

FutureTends(r) == Register(r) \/ SendRequest(r) \/ Resume(r) \/ Fail(r)

(* Tasks run and timers fire; the application polls the incoming stream and *)
(* its requests, and every handler ends.                                    *)
Fairness ==
    /\ \A e \in Ends : WF_vars(IoTends(e)) /\ WF_vars(Handle(e))
    /\ \A r \in Requests : WF_vars(FutureTends(r)) /\ WF_vars(Respond(r))

FairSpec == Spec /\ Fairness
-----------------------------------------------------------------------------
TypeOK ==
    /\ connected \in [Ends -> BOOLEAN]
    /\ io \in [Ends -> IoStates]
    /\ channels \in [Ends -> (SUBSET Requests) \cup {None}]
    /\ said \in [Ends -> Seq(Message)]
    /\ written \in [Ends -> Nat]
    /\ read \in [Ends -> Nat]
    /\ handled \in [Ends -> Nat]
    /\ \A e \in Ends :
           /\ handled[e] <= read[e]
           /\ read[e] <= written[e]
           /\ written[e] <= Len(said[e])
           /\ read[e] - handled[e] <= Buffer
    /\ listening \in [Ends -> BOOLEAN]
    /\ handing \in [Ends -> Requests \cup {None}]
    /\ future \in [Requests -> {"unmade", "found", "registered", "waiting", "answered",
                                "failed", "dropped"}]
    /\ slot \in [Requests -> Nat]
    /\ todo \in [Ends -> SUBSET Requests]
    /\ got \in [Ends -> Nat]

(* The application at an end is affected by what the other end sent in the  *)
(* order in which that was sent: a response, by the requester going on      *)
(* before anything that was sent after it is handed over.                   *)
InOrder == [][\A e \in Ends : got'[e] >= got[e]]_vars

(* A request that waits has its response, or a sender from which it will    *)
(* get one or hear that there is none.  The guard, and the lock under which *)
(* a request puts its sender among the channels, leave no gap, as long as   *)
(* handle_io was ever polled.                                               *)
NoneStranded ==
    \A r \in Requests :
        LET e == From[r]
        IN  future[r] = "waiting" =>
                \/ slot[r] # 0
                \/ ChannelsDropped(e)
                \/ channels[e] # None /\ r \in channels[e]

Outcome(r) ==
    CASE future[r] = "unmade" -> "unasked"
      [] future[r] \in {"found", "registered", "waiting"} -> "asked"
      [] OTHER -> future[r]

Service == INSTANCE RequestService WITH
    outcome <- [r \in Requests |-> Outcome(r)],
    replied <- {r \in Requests : Sent(Says("response", r))},
    up <- {e \in Ends : connected[e] /\ io[e] \in {"new", "running"}}

(* Requests are served as RequestService promises.                          *)
ServesRequests == Service!Spec

(* In the end no request waits any more, whatever happens to the            *)
(* connection, unless handle_io was dropped before it was ever polled and   *)
(* the connection is still among Peer::connections.                         *)
EventuallyResolved ==
    <>[](\A r \in Requests :
            future[r] = "waiting" => connected[From[r]] /\ io[From[r]] = "gone")
=============================================================================
