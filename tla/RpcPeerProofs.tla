----------------------------- MODULE RpcPeerProofs -----------------------------
(***************************************************************************)
(* Proofs about RpcPeer, for any number of connections, requests and       *)
(* notices, and any size of the incoming buffer.                           *)
(***************************************************************************)
EXTENDS RpcPeer, TLAPS

LEMMA MessageParts ==
    ASSUME NEW m \in Message
    PROVE  /\ m.kind \in {"request", "response", "notice"}
           /\ m.kind # "notice" => m.of \in Requests
  BY DEF Message

LEMMA SaysMessage ==
    /\ \A r \in Requests : Says("request", r) \in Message /\ Says("response", r) \in Message
    /\ \A n \in Notices : Says("notice", n) \in Message
  BY DEF Says, Message

(* The next message of an incoming buffer is one that the other end sent.   *)
LEMMA UpcomingMessage ==
    ASSUME TypeOK, NEW e \in Ends, Take(e)
    PROVE  /\ handled[Other[e]] + 1 \in DOMAIN said[Other[e]]
           /\ Upcoming(e) = said[Other[e]][handled[Other[e]] + 1]
           /\ Upcoming(e) \in Message
           /\ handled'[Other[e]] = handled[Other[e]] + 1
           /\ Upcoming(e).kind # "notice" => Upcoming(e).of \in Requests
  <1> USE OtherAssumption DEF TypeOK
  <1> DEFINE o == Other[e]
  <1>1. /\ o \in Ends
        /\ handled[o] \in Nat /\ read[o] \in Nat /\ written[o] \in Nat
        /\ said[o] \in Seq(Message)
    OBVIOUS
  <1>2. handled[o] < read[o] /\ read[o] <= written[o] /\ written[o] <= Len(said[o])
    BY <1>1 DEF Take
  <1>3. handled[o] + 1 \in 1 .. Len(said[o])
    BY <1>1, <1>2
  <1>4. said[o][handled[o] + 1] \in Message /\ DOMAIN said[o] = 1 .. Len(said[o])
    BY <1>1, <1>3
  <1>5. handled'[o] = handled[o] + 1
    BY <1>1 DEF Take
  <1> QED
    BY <1>3, <1>4, <1>5, MessageParts DEF Upcoming

LEMMA TypeStep ==
    ASSUME TypeOK, [Next]_vars
    PROVE  TypeOK'
  <1> USE OtherAssumption, FromAssumption, BufferAssumption DEF TypeOK
  <1>1. ASSUME NEW r \in Requests, LookUp(r) \/ Register(r) \/ Resume(r) \/ Fail(r) \/ DropFuture(r)
        PROVE  TypeOK'
    <2>1. CASE LookUp(r)
      BY <2>1 DEF LookUp, queueVars
    <2>2. CASE Register(r)
      <3>1. channels[From[r]] # None => channels[From[r]] \cup {r} \in SUBSET Requests
        <4>1. From[r] \in Ends
          OBVIOUS
        <4>2. channels[From[r]] \in (SUBSET Requests) \cup {None}
          BY <4>1
        <4> QED
          BY <4>2
      <3>2. channels' \in [Ends -> (SUBSET Requests) \cup {None}]
        <4>1. CASE channels[From[r]] = None
          BY <2>2, <4>1 DEF Register
        <4>2. CASE channels[From[r]] # None
          <5>1. channels' = [channels EXCEPT ![From[r]] = channels[From[r]] \cup {r}]
            BY <2>2, <4>2 DEF Register
          <5> QED
            BY <3>1, <4>2, <5>1
        <4> QED
          BY <4>1, <4>2
      <3>3. future' \in [Requests -> {"unmade", "found", "registered", "waiting", "answered",
                                      "failed", "dropped"}]
        BY <2>2 DEF Register
      <3> QED
        BY <2>2, <3>2, <3>3 DEF Register, queueVars
    <2>3. CASE Resume(r)
      BY <2>3 DEF Resume, Passed, queueVars
    <2>4. CASE Fail(r)
      BY <2>4 DEF Fail, queueVars
    <2>5. CASE DropFuture(r)
      BY <2>5 DEF DropFuture, Passed, queueVars
    <2> QED
      BY <1>1, <2>1, <2>2, <2>3, <2>4, <2>5
  <1>2. ASSUME NEW e \in Ends, NEW m \in Message, Push(e, m), UNCHANGED <<written, read, handled>>
        PROVE  /\ said' \in [Ends -> Seq(Message)]
               /\ \A x \in Ends : Len(said'[x]) >= Len(said[x])
    BY <1>2 DEF Push
  <1>3. ASSUME NEW r \in Requests, SendRequest(r)
        PROVE  TypeOK'
    <2>1. CASE CanPush(From[r])
      <3>1. /\ said' \in [Ends -> Seq(Message)]
            /\ \A x \in Ends : Len(said'[x]) >= Len(said[x])
        BY <1>2, <1>3, <2>1, SaysMessage DEF SendRequest
      <3>2. future' \in [Requests -> {"unmade", "found", "registered", "waiting", "answered",
                                      "failed", "dropped"}]
        BY <1>3, <2>1 DEF SendRequest
      <3>3. \A x \in Ends : written[x] <= Len(said'[x])
        BY <3>1
      <3> QED
        BY <1>3, <2>1, <3>1, <3>2, <3>3 DEF SendRequest
    <2>2. CASE ~CanPush(From[r])
      BY <1>3, <2>2 DEF SendRequest
    <2> QED
      BY <2>1, <2>2
  <1>4. ASSUME NEW n \in Notices, SendNotice(n)
        PROVE  TypeOK'
    <2>1. /\ said' \in [Ends -> Seq(Message)]
          /\ \A x \in Ends : Len(said'[x]) >= Len(said[x])
      BY <1>2, <1>4, SaysMessage DEF SendNotice
    <2>2. \A x \in Ends : written[x] <= Len(said'[x])
      BY <2>1
    <2> QED
      BY <1>4, <2>1, <2>2 DEF SendNotice
  <1>5. ASSUME NEW r \in Requests, Respond(r)
        PROVE  TypeOK'
    <2>1. CASE connected[Other[From[r]]] /\ CanPush(Other[From[r]])
      <3>1. /\ said' \in [Ends -> Seq(Message)]
            /\ \A x \in Ends : Len(said'[x]) >= Len(said[x])
        BY <1>2, <1>5, <2>1, SaysMessage DEF Respond
      <3>2. \A x \in Ends : written[x] <= Len(said'[x])
        BY <3>1
      <3>3. todo' \in [Ends -> SUBSET Requests]
        BY <1>5 DEF Respond
      <3> QED
        BY <1>5, <2>1, <3>1, <3>2, <3>3 DEF Respond
    <2>2. CASE ~(connected[Other[From[r]]] /\ CanPush(Other[From[r]]))
      BY <1>5, <2>2 DEF Respond
    <2> QED
      BY <2>1, <2>2
  <1>6. ASSUME NEW e \in Ends, Start(e) \/ GiveUp(e) \/ End(e) \/ EndRemove(e) \/ Disconnect(e)
                               \/ StopListening(e)
        PROVE  TypeOK'
    <2>1. CASE Start(e) \/ GiveUp(e)
      <3>1. io' \in [Ends -> IoStates]
        BY <2>1 DEF Start, GiveUp, SetIo, IoStates
      <3>2. listening' \in [Ends -> BOOLEAN]
        BY <2>1, Zenon DEF Start, GiveUp
      <3> QED
        BY <2>1, <3>1, <3>2 DEF Start, GiveUp, queueVars
    <2>2. CASE End(e)
      <3>1. channels' \in [Ends -> (SUBSET Requests) \cup {None}]
        BY <2>2 DEF End
      <3> QED
        BY <2>2, <3>1 DEF End, SetIo, IoStates, queueVars
    <2>3. CASE EndRemove(e) \/ Disconnect(e)
      <3>1. io' \in [Ends -> IoStates]
        BY <2>3 DEF EndRemove, Disconnect, SetIo, IoStates
      <3>2. connected' \in [Ends -> BOOLEAN]
        BY <2>3, Zenon DEF EndRemove, Disconnect
      <3> QED
        BY <2>3, <3>1, <3>2 DEF EndRemove, Disconnect, queueVars
    <2>4. CASE StopListening(e)
      BY <2>4 DEF StopListening, queueVars
    <2> QED
      BY <1>6, <2>1, <2>2, <2>3, <2>4
  <1>7. ASSUME NEW e \in Ends, Write(e)
        PROVE  TypeOK'
    BY <1>7 DEF Write
  <1>8. ASSUME NEW e \in Ends, Read(e)
        PROVE  TypeOK'
    <2> DEFINE o == Other[e]
    <2>1. o \in Ends /\ read[o] \in Nat /\ written[o] \in Nat /\ handled[o] \in Nat
      OBVIOUS
    <2>2. read' = [read EXCEPT ![o] = read[o] + 1] /\ read[o] < written[o] /\ read[o] - handled[o] < Buffer
      BY <1>8 DEF Read, Arrived, HasRoom
    <2>3. read' \in [Ends -> Nat]
      BY <2>1, <2>2
    <2>4. \A x \in Ends : handled[x] <= read'[x] /\ read'[x] <= written[x] /\ read'[x] - handled[x] <= Buffer
      BY <2>1, <2>2
    <2> QED
      BY <1>8, <2>3, <2>4 DEF Read
  <1>9. ASSUME NEW e \in Ends, Handle(e)
        PROVE  TypeOK'
    <2>1. Take(e)
      BY <1>9 DEF Handle, HandleResponse, HandleMessage
    <2>2. /\ handled' = [handled EXCEPT ![Other[e]] = handled[Other[e]] + 1]
          /\ handled[Other[e]] < read[Other[e]]
          /\ UNCHANGED <<connected, io, said, written, read, listening, future>>
      BY <2>1 DEF Take
    <2>3. /\ handled' \in [Ends -> Nat]
          /\ \A x \in Ends : handled'[x] <= read[x] /\ read[x] - handled'[x] <= Buffer
      BY <2>2
    <2>4. /\ Upcoming(e).kind # "notice" => Upcoming(e).of \in Requests
          /\ handled'[Other[e]] \in Nat
      BY <2>1, <2>3, UpcomingMessage
    <2>5. CASE HandleResponse(e)
      <3> DEFINE r == Upcoming(e).of
      <3>1. r \in Requests
        BY <2>4, <2>5 DEF HandleResponse
      <3>2. channels' \in [Ends -> (SUBSET Requests) \cup {None}]
        <4>1. CASE channels[e] # None /\ r \in channels[e]
          <5>1. channels[e] \ {r} \in SUBSET Requests
            BY <4>1
          <5> QED
            BY <2>5, <4>1, <5>1 DEF HandleResponse
        <4>2. CASE ~(channels[e] # None /\ r \in channels[e])
          BY <2>5, <4>2 DEF HandleResponse
        <4> QED
          BY <4>1, <4>2
      <3>3. slot' \in [Requests -> Nat] /\ handing' \in [Ends -> Requests \cup {None}]
        BY <2>4, <2>5, <3>1 DEF HandleResponse
      <3> QED
        BY <2>2, <2>3, <2>5, <3>2, <3>3 DEF HandleResponse
    <2>6. CASE HandleMessage(e)
      <3>1. todo' \in [Ends -> SUBSET Requests] /\ got' \in [Ends -> Nat]
        BY <2>4, <2>6 DEF HandleMessage
      <3> QED
        BY <2>2, <2>3, <2>6, <3>1 DEF HandleMessage
    <2> QED
      BY <1>9, <2>5, <2>6 DEF Handle
  <1>10. CASE UNCHANGED vars
    BY <1>10 DEF vars, queueVars
  <1> QED
    BY <1>1, <1>3, <1>4, <1>5, <1>6, <1>7, <1>8, <1>9, <1>10 DEF Next, Io

(* The type invariant; with it, that the incoming buffer keeps its size and *)
(* no position overtakes the one before it.                                 *)
THEOREM TypeCorrect == Spec => []TypeOK
  <1>1. Init => TypeOK
    BY BufferAssumption DEF Init, TypeOK, IoStates
  <1>2. TypeOK /\ [Next]_vars => TypeOK'
    BY TypeStep
  <1> QED
    BY <1>1, <1>2, PTL DEF Spec

-----------------------------------------------------------------------------
(* Nobody but the guard empties the response channels, and each end's hold  *)
(* requests of that end.                                                    *)
ChannelsInv ==
    \A e \in Ends :
        /\ channels[e] = None => io[e] \in {"taken", "gone"}
        /\ channels[e] # None => \A r \in channels[e] : From[r] = e
        /\ handing[e] # None => From[handing[e]] = e

(* A request that is still waited for and has its response is the one the   *)
(* incoming stream waits for, and nothing has been taken from the buffer    *)
(* since; one that has none is still among the channels.                    *)
ResponseInv ==
    \A r \in Requests :
        /\ future[r] = "unmade" => slot[r] = 0
        /\ slot[r] # 0 /\ Alive(r) =>
               /\ slot[r] = handled[Other[From[r]]]
               /\ handing[From[r]] = r \/ ~listening[From[r]]
        /\ slot[r] = 0 /\ future[r] \in {"registered", "waiting"} =>
               channels[From[r]] = None \/ r \in channels[From[r]]

GotInv == \A e \in Ends : got[e] <= handled[Other[e]]

(* Only what has been asked is answered, and only what has been answered    *)
(* arrives as a response.                                                   *)
AskedInv ==
    \A r \in Requests :
        /\ Sent(Says("request", r)) => future[r] # "unmade"
        /\ \A e \in Ends : r \in todo[e] => future[r] # "unmade"
        /\ slot[r] # 0 => Sent(Says("response", r))

IInv == TypeOK /\ ChannelsInv /\ ResponseInv /\ GotInv /\ AskedInv

LEMMA PushedIsSent ==
    ASSUME TypeOK, NEW e \in Ends, NEW m \in Message, Push(e, m)
    PROVE  \A x : Sent(x)' <=> Sent(x) \/ x = m
  <1>1. /\ said \in [Ends -> Seq(Message)]
        /\ said' = [said EXCEPT ![e] = Append(said[e], m)]
    BY DEF TypeOK, Push
  <1>2. /\ \A d \in Ends : d # e => said'[d] = said[d]
        /\ DOMAIN said'[e] = DOMAIN said[e] \cup {Len(said[e]) + 1}
        /\ \A i \in DOMAIN said[e] : said'[e][i] = said[e][i]
        /\ said'[e][Len(said[e]) + 1] = m
    BY <1>1
  <1> QED
    BY <1>2 DEF Sent

LEMMA SaysOnce ==
    \A k1, k2, x1, x2 : Says(k1, x1) = Says(k2, x2) => k1 = k2 /\ x1 = x2
  BY DEF Says

(* What a step adds to the messages that have been sent.                    *)
LEMMA SentSteps ==
    ASSUME TypeOK, [Next]_vars, NEW x
    PROVE  /\ Sent(x) => Sent(x)'
           /\ Sent(x)' => \/ Sent(x)
                          \/ \E r \in Requests : SendRequest(r) /\ x = Says("request", r)
                          \/ \E r \in Requests : Respond(r) /\ x = Says("response", r)
                          \/ \E n \in Notices : SendNotice(n) /\ x = Says("notice", n)
  <1> USE OtherAssumption, FromAssumption
  <1>1. ASSUME UNCHANGED said
        PROVE  Sent(x)' <=> Sent(x)
    BY <1>1 DEF Sent
  <1>2. ASSUME NEW r \in Requests, SendRequest(r)
        PROVE  said' = said \/ Push(From[r], Says("request", r))
    BY <1>2 DEF SendRequest
  <1>3. ASSUME NEW r \in Requests, Respond(r)
        PROVE  said' = said \/ Push(Other[From[r]], Says("response", r))
    BY <1>3 DEF Respond
  <1>4. ASSUME NEW n \in Notices, SendNotice(n)
        PROVE  Push(From[n], Says("notice", n))
    BY <1>4 DEF SendNotice
  <1>5. CASE \E r \in Requests : SendRequest(r)
    BY <1>1, <1>2, <1>5, PushedIsSent, SaysMessage
  <1>6. CASE \E r \in Requests : Respond(r)
    BY <1>1, <1>3, <1>6, PushedIsSent, SaysMessage
  <1>7. CASE \E n \in Notices : SendNotice(n)
    BY <1>4, <1>7, PushedIsSent, SaysMessage
  <1>8. CASE \/ \E r \in Requests : LookUp(r) \/ Register(r) \/ Resume(r) \/ Fail(r) \/ DropFuture(r)
             \/ \E e \in Ends : Io(e) \/ Handle(e) \/ Disconnect(e) \/ StopListening(e)
             \/ UNCHANGED vars
    <2>1. UNCHANGED said
      BY <1>8 DEF LookUp, Register, Resume, Fail, DropFuture, Io, Start, GiveUp, Write, Read, End,
                  EndRemove, Handle, HandleResponse, HandleMessage, Take, Disconnect,
                  StopListening, queueVars, vars
    <2> QED
      BY <1>1, <2>1
  <1> QED
    BY <1>5, <1>6, <1>7, <1>8 DEF Next

LEMMA ChannelsStep ==
    ASSUME IInv, [Next]_vars
    PROVE  ChannelsInv'
  <1> USE OtherAssumption, FromAssumption, NoneAssumption DEF IInv, ChannelsInv
  <1>1. ASSUME NEW r \in Requests,
               LookUp(r) \/ SendRequest(r) \/ Respond(r) \/ Fail(r)
        PROVE  ChannelsInv'
    BY <1>1 DEF LookUp, SendRequest, Respond, Fail
  <1>2. ASSUME NEW r \in Requests, Register(r)
        PROVE  ChannelsInv'
    <2>1. CASE channels[From[r]] = None
      BY <1>2, <2>1 DEF Register
    <2>2. CASE channels[From[r]] # None
      <3>1. /\ channels' = [channels EXCEPT ![From[r]] = channels[From[r]] \cup {r}]
            /\ UNCHANGED <<io, handing>>
        BY <1>2, <2>2 DEF Register
      <3> QED
        BY <2>2, <3>1 DEF TypeOK
    <2> QED
      BY <2>1, <2>2
  <1>3. ASSUME NEW r \in Requests, Resume(r) \/ DropFuture(r)
        PROVE  ChannelsInv'
    BY <1>3 DEF Resume, DropFuture, Passed, TypeOK
  <1>4. ASSUME NEW n \in Notices, SendNotice(n)
        PROVE  ChannelsInv'
    BY <1>4 DEF SendNotice
  <1>5. ASSUME NEW e \in Ends, Io(e) \/ Disconnect(e) \/ StopListening(e)
        PROVE  ChannelsInv'
    BY <1>5 DEF Io, Start, GiveUp, Write, Read, End, EndRemove, Disconnect, StopListening, SetIo, TypeOK
  <1>6. ASSUME NEW e \in Ends, HandleMessage(e)
        PROVE  ChannelsInv'
    BY <1>6 DEF HandleMessage, Take
  <1>7. ASSUME NEW e \in Ends, HandleResponse(e)
        PROVE  ChannelsInv'
    <2> DEFINE r == Upcoming(e).of
    <2>1. r \in Requests /\ io' = io
      BY <1>7, UpcomingMessage DEF HandleResponse, Take
    <2>2. CASE channels[e] # None /\ r \in channels[e]
      <3>1. channels' = [channels EXCEPT ![e] = channels[e] \ {r}]
        BY <1>7, <2>2 DEF HandleResponse
      <3>2. handing' = handing \/ handing' = [handing EXCEPT ![e] = r]
        BY <1>7, <2>2 DEF HandleResponse
      <3>3. From[r] = e
        BY <2>2
      <3>4. channels \in [Ends -> (SUBSET Requests) \cup {None}] /\ DOMAIN handing = Ends
        BY DEF TypeOK
      <3>5. channels'[e] = channels[e] \ {r} /\ channels[e] \in SUBSET Requests
        BY <2>2, <3>1, <3>4
      <3>6. \A d \in Ends : d # e => channels'[d] = channels[d]
        BY <3>1, <3>4
      <3>7. \A d \in Ends : handing'[d] = handing[d] \/ (d = e /\ handing'[d] = r)
        BY <3>2, <3>4
      <3> QED
        BY <2>1, <2>2, <3>3, <3>5, <3>6, <3>7
    <2>3. CASE ~(channels[e] # None /\ r \in channels[e])
      BY <1>7, <2>1, <2>3 DEF HandleResponse
    <2> QED
      BY <2>2, <2>3
  <1>8. CASE UNCHANGED vars
    BY <1>8 DEF vars
  <1> QED
    BY <1>1, <1>2, <1>3, <1>4, <1>5, <1>6, <1>7, <1>8 DEF Next, Handle

LEMMA GotStep ==
    ASSUME IInv, [Next]_vars
    PROVE  GotInv'
  <1> USE OtherAssumption, FromAssumption DEF IInv, GotInv
  <1>1. ASSUME NEW r \in Requests,
               LookUp(r) \/ Register(r) \/ SendRequest(r) \/ Respond(r) \/ Fail(r) \/ DropFuture(r)
        PROVE  GotInv'
    BY <1>1 DEF LookUp, Register, SendRequest, Respond, Fail, DropFuture, queueVars
  <1>2. ASSUME NEW r \in Requests, Resume(r)
        PROVE  GotInv'
    <2>1. slot[r] = handled[Other[From[r]]]
      BY <1>2 DEF Resume, ResponseInv, Alive
    <2>2. got \in [Ends -> Nat] /\ handled \in [Ends -> Nat] /\ From[r] \in Ends
      BY DEF TypeOK
    <2>3. got' = [got EXCEPT ![From[r]] = slot[r]] /\ handled' = handled
      BY <1>2 DEF Resume, queueVars
    <2> QED
      BY <2>1, <2>2, <2>3
  <1>3. ASSUME NEW n \in Notices, SendNotice(n)
        PROVE  GotInv'
    BY <1>3 DEF SendNotice
  <1>4. ASSUME NEW e \in Ends, Io(e) \/ Disconnect(e) \/ StopListening(e)
        PROVE  GotInv'
    BY <1>4 DEF Io, Start, GiveUp, Write, Read, End, EndRemove, Disconnect, StopListening, queueVars
  <1>5. ASSUME NEW e \in Ends, Handle(e)
        PROVE  GotInv'
    <2>1. /\ handled' = [handled EXCEPT ![Other[e]] = handled[Other[e]] + 1]
          /\ got' = got \/ got' = [got EXCEPT ![e] = handled'[Other[e]]]
      BY <1>5 DEF Handle, HandleResponse, HandleMessage, Take
    <2>2. got \in [Ends -> Nat] /\ handled \in [Ends -> Nat] /\ Other[e] \in Ends
      BY DEF TypeOK
    <2>3. \A x \in Ends : handled'[x] \in Nat /\ handled'[x] >= handled[x]
      BY <2>1, <2>2
    <2>4. CASE got' = got
      BY <2>2, <2>3, <2>4
    <2>5. CASE got' = [got EXCEPT ![e] = handled'[Other[e]]]
      BY <2>2, <2>3, <2>5
    <2> QED
      BY <2>1, <2>4, <2>5
  <1>6. CASE UNCHANGED vars
    BY <1>6 DEF vars, queueVars
  <1> QED
    BY <1>1, <1>2, <1>3, <1>4, <1>5, <1>6 DEF Next

LEMMA AskedStep ==
    ASSUME IInv, [Next]_vars
    PROVE  AskedInv'
  <1> USE OtherAssumption, FromAssumption DEF IInv
  <1>1. \A r \in Requests : future[r] # "unmade" => future'[r] # "unmade"
    BY SMTT(30) DEF TypeOK, Next, LookUp, Register, SendRequest, Respond, Resume, Fail, DropFuture,
           SendNotice, Io, Start, GiveUp, Write, Read, End, EndRemove, Handle, HandleResponse,
           HandleMessage, Take, Disconnect, StopListening, vars
  <1>2. ASSUME NEW r \in Requests, Sent(Says("request", r))'
        PROVE  future'[r] # "unmade"
    <2>1. CASE Sent(Says("request", r))
      BY <1>1, <2>1 DEF AskedInv
    <2>2. CASE SendRequest(r)
      BY <1>1, <2>2 DEF SendRequest
    <2> QED
      BY <1>2, <2>1, <2>2, SentSteps, SaysOnce
  <1>3. ASSUME NEW r \in Requests, NEW e \in Ends, r \in todo'[e]
        PROVE  future'[r] # "unmade"
    <2>1. r \in todo[e] \/ (HandleMessage(e) /\ Upcoming(e) = Says("request", r))
      <3>1. CASE \E d \in Ends : HandleMessage(d)
        <4>1. PICK d \in Ends : HandleMessage(d)
          BY <3>1
        <4>2. Upcoming(d) \in Message
          BY <4>1, UpcomingMessage DEF HandleMessage
        <4>3. Upcoming(d).kind = "request" => Upcoming(d) = Says("request", Upcoming(d).of)
          BY <4>2 DEF Message, Says
        <4> QED
          BY <1>3, <4>1, <4>3 DEF HandleMessage, TypeOK
      <3>2. CASE todo' = todo \/ \E d \in Ends : todo' = [todo EXCEPT ![d] = {}]
        BY <1>3, <3>2 DEF TypeOK
      <3>3. CASE \E q \in Requests : Respond(q)
        BY <1>3, <3>3 DEF Respond, TypeOK
      <3> QED
        BY <3>1, <3>2, <3>3
        DEF Next, LookUp, Register, SendRequest, Resume, Fail, DropFuture, SendNotice, Io, Start,
            GiveUp, Write, Read, End, EndRemove, Handle, HandleResponse, Disconnect,
            StopListening, vars
    <2>2. CASE r \in todo[e]
      BY <1>1, <2>2 DEF AskedInv
    <2>3. CASE HandleMessage(e) /\ Upcoming(e) = Says("request", r)
      <3>1. Sent(Says("request", r))
        BY <2>3, UpcomingMessage DEF HandleMessage, Sent
      <3> QED
        BY <1>1, <3>1 DEF AskedInv
    <2> QED
      BY <2>1, <2>2, <2>3
  <1>4. ASSUME NEW r \in Requests, slot'[r] # 0
        PROVE  Sent(Says("response", r))'
    <2>1. CASE slot[r] # 0
      BY <2>1, SentSteps DEF AskedInv
    <2>2. CASE slot[r] = 0
      <3>1. PICK e \in Ends : HandleResponse(e) /\ Upcoming(e).of = r
        <4>1. \E e \in Ends : HandleResponse(e)
          BY <1>4, <2>2 DEF Next, LookUp, Register, SendRequest, Respond, Resume, Fail, DropFuture,
                     SendNotice, Io, Start, GiveUp, Write, Read, End, EndRemove, Handle,
                     HandleMessage, Disconnect, StopListening, vars
        <4> QED
          BY <1>4, <2>2, <4>1 DEF HandleResponse, TypeOK
      <3>2. Upcoming(e) = Says("response", r)
        BY <3>1, UpcomingMessage DEF HandleResponse, Message, Says
      <3>3. Sent(Says("response", r))
        BY <3>1, <3>2, UpcomingMessage DEF HandleResponse, Sent
      <3> QED
        BY <3>3, SentSteps
    <2> QED
      BY <2>1, <2>2 DEF TypeOK
  <1> QED
    BY <1>2, <1>3, <1>4 DEF AskedInv

LEMMA ResponseStep ==
    ASSUME IInv, [Next]_vars
    PROVE  ResponseInv'
  <1> USE OtherAssumption, FromAssumption DEF IInv, ResponseInv, Alive
  <1>a. /\ channels \in [Ends -> (SUBSET Requests) \cup {None}]
        /\ handled \in [Ends -> Nat]
        /\ DOMAIN handing = Ends
        /\ DOMAIN listening = Ends
        /\ DOMAIN future = Requests
        /\ slot \in [Requests -> Nat]
    BY DEF TypeOK
  <1>1. ASSUME NEW r \in Requests,
               LookUp(r) \/ SendRequest(r) \/ Respond(r) \/ Fail(r)
        PROVE  ResponseInv'
    BY <1>1, <1>a DEF LookUp, SendRequest, Respond, Fail, queueVars
  <1>2. ASSUME NEW r \in Requests, Register(r)
        PROVE  ResponseInv'
    <2>1. CASE channels[From[r]] = None
      BY <1>2, <1>a, <2>1 DEF Register, queueVars
    <2>2. CASE channels[From[r]] # None
      <3>1. /\ channels' = [channels EXCEPT ![From[r]] = channels[From[r]] \cup {r}]
            /\ future' = [future EXCEPT ![r] = "registered"]
            /\ future[r] = "found"
            /\ UNCHANGED <<slot, handled, handing, listening>>
        BY <1>2, <2>2 DEF Register, queueVars
      <3> QED
        BY <1>a, <2>2, <3>1
    <2> QED
      BY <2>1, <2>2
  <1>3. ASSUME NEW r \in Requests, Resume(r) \/ DropFuture(r)
        PROVE  ResponseInv'
    <2>1. /\ future'[r] \in {"answered", "dropped"}
          /\ \A q \in Requests : q # r => future'[q] = future[q]
          /\ \A e \in Ends : handing'[e] = handing[e] \/ handing[e] = r
          /\ UNCHANGED <<slot, handled, channels, listening>>
      BY <1>3, <1>a DEF Resume, DropFuture, Passed, queueVars
    <2> QED
      BY <2>1
  <1>4. ASSUME NEW n \in Notices, SendNotice(n)
        PROVE  ResponseInv'
    BY <1>4 DEF SendNotice
  <1>5. ASSUME NEW e \in Ends, Io(e) \/ Disconnect(e) \/ StopListening(e)
        PROVE  ResponseInv'
    <2>1. /\ UNCHANGED <<future, slot, handled>>
          /\ \A d \in Ends : channels'[d] = channels[d] \/ channels'[d] = None
          /\ \A d \in Ends : \/ ~listening'[d]
                             \/ listening'[d] = listening[d] /\ handing'[d] = handing[d]
      BY <1>5, <1>a DEF Io, Start, GiveUp, Write, Read, End, EndRemove, Disconnect, StopListening, queueVars
    <2> QED
      BY <2>1
  <1>6. ASSUME NEW e \in Ends, Handle(e)
        PROVE  ResponseInv'
    <2>1. /\ \A x \in Ends : x # Other[e] => handled'[x] = handled[x]
          /\ handing[e] = None /\ listening[e]
          /\ UNCHANGED <<listening, future>>
      BY <1>6, <1>a DEF Handle, HandleResponse, HandleMessage, Take
    <2>2. \A r \in Requests : slot[r] # 0 /\ Alive(r) => From[r] # e
      BY <2>1, NoneAssumption
    <2>c. \A q \in Requests :
              From[q] # e => handled'[Other[From[q]]] = handled[Other[From[q]]]
      BY <2>1
    <2>3. CASE UNCHANGED <<channels, slot, handing>>
      BY <2>1, <2>2, <2>3, <2>c
    <2>4. CASE ~UNCHANGED <<channels, slot, handing>>
      <3> DEFINE r == Upcoming(e).of
      <3>1. /\ HandleResponse(e)
            /\ channels[e] # None /\ r \in channels[e]
        BY <1>6, <2>4 DEF Handle, HandleResponse, HandleMessage
      <3>2. r \in Requests /\ From[r] = e /\ handled'[Other[e]] # 0
        BY <1>a, <3>1, UpcomingMessage DEF HandleResponse, ChannelsInv
      <3>3. channels' = [channels EXCEPT ![e] = channels[e] \ {r}]
        BY <3>1 DEF HandleResponse
      <3>4. \A q \in Requests :
                q # r /\ (channels[From[q]] = None \/ q \in channels[From[q]]) =>
                    channels'[From[q]] = None \/ q \in channels'[From[q]]
        <4>1. /\ channels'[e] = channels[e] \ {r}
              /\ \A d \in Ends : d # e => channels'[d] = channels[d]
          BY <1>a, <3>3
        <4> QED
          BY <3>1, <4>1
      <3>5. CASE Alive(r)
        <4>1. /\ slot' = [slot EXCEPT ![r] = handled'[Other[e]]]
              /\ handing' = [handing EXCEPT ![e] = r]
          BY <3>1, <3>5 DEF HandleResponse
        <4>2. /\ slot'[r] = handled'[Other[e]]
              /\ handing'[e] = r
              /\ \A q \in Requests : q # r => slot'[q] = slot[q]
              /\ \A d \in Ends : d # e => handing'[d] = handing[d] /\ channels'[d] = channels[d]
          BY <1>a, <3>2, <3>3, <4>1
        <4>3. \A q \in Requests :
                  slot'[q] # 0 /\ Alive(q)' =>
                      /\ slot'[q] = handled'[Other[From[q]]]
                      /\ handing'[From[q]] = q \/ ~listening'[From[q]]
          BY <2>1, <2>2, <2>c, <3>2, <4>2
        <4>4. \A q \in Requests : slot'[q] = 0 /\ future'[q] \in {"registered", "waiting"} =>
                  channels'[From[q]] = None \/ q \in channels'[From[q]]
          <5>1. slot'[r] # 0
            BY <3>2, <4>2
          <5>2. \A q \in Requests : slot'[q] = 0 => q # r /\ slot[q] = 0
            BY <5>1, <4>2
          <5> QED
            BY <2>1, <3>4, <5>2
        <4>5. \A q \in Requests : future'[q] = "unmade" => slot'[q] = 0
          BY <2>1, <3>5, <4>2
        <4> QED
          BY <4>3, <4>4, <4>5
      <3>6. CASE ~Alive(r)
        <4>1. UNCHANGED <<slot, handing>>
          BY <3>1, <3>6 DEF HandleResponse
        <4>2. \A d \in Ends : d # e => channels'[d] = channels[d]
          BY <1>a, <3>3
        <4>3. \A q \in Requests :
                  slot'[q] # 0 /\ Alive(q)' =>
                      /\ slot'[q] = handled'[Other[From[q]]]
                      /\ handing'[From[q]] = q \/ ~listening'[From[q]]
          BY <2>1, <2>2, <2>c, <4>1
        <4>4. \A q \in Requests : slot'[q] = 0 /\ future'[q] \in {"registered", "waiting"} =>
                  channels'[From[q]] = None \/ q \in channels'[From[q]]
          <5>1. \A q \in Requests : future'[q] \in {"registered", "waiting"} => q # r
            BY <2>1, <3>6
          <5> QED
            BY <2>1, <3>4, <4>1, <5>1
        <4> QED
          BY <2>1, <4>1, <4>3, <4>4
      <3> QED
        BY <3>5, <3>6
    <2> QED
      BY <2>3, <2>4
  <1>7. CASE UNCHANGED vars
    BY <1>7 DEF vars, queueVars
  <1> QED
    BY <1>1, <1>2, <1>3, <1>4, <1>5, <1>6, <1>7 DEF Next

LEMMA Invariance == Spec => []IInv
  <1>1. Init => IInv
    <2>1. Init => TypeOK
      BY BufferAssumption DEF Init, TypeOK, IoStates
    <2>2. Init => ChannelsInv /\ ResponseInv /\ GotInv
      BY NoneAssumption, OtherAssumption DEF Init, ChannelsInv, ResponseInv, GotInv, Alive
    <2>3. Init => AskedInv
      BY DEF Init, AskedInv, Sent
    <2> QED
      BY <2>1, <2>2, <2>3 DEF IInv
  <1>2. IInv /\ [Next]_vars => IInv'
    BY TypeStep, ChannelsStep, ResponseStep, GotStep, AskedStep DEF IInv
  <1> QED
    BY <1>1, <1>2, PTL DEF Spec

(* A request that waits has its response or a sender it will hear from.     *)
THEOREM NeverStranded == Spec => []NoneStranded
  <1>1. IInv => NoneStranded
    BY FromAssumption DEF IInv, ResponseInv, NoneStranded, ChannelsDropped
  <1> QED
    BY <1>1, Invariance, PTL

(* What the other end sent takes effect in the order in which it was sent.  *)
THEOREM TakesEffectInOrder == Spec => InOrder
  <1>1. ASSUME IInv, [Next]_vars
        PROVE  [\A e \in Ends : got'[e] >= got[e]]_vars
    <2> USE <1>1, OtherAssumption, FromAssumption DEF IInv
    <2>1. got \in [Ends -> Nat] /\ handled \in [Ends -> Nat]
      BY DEF TypeOK
    <2>2. ASSUME NEW r \in Requests, Resume(r)
          PROVE  \A e \in Ends : got'[e] >= got[e]
      <3>1. slot[r] = handled[Other[From[r]]]
        BY <2>2 DEF Resume, ResponseInv, Alive
      <3>2. got' = [got EXCEPT ![From[r]] = slot[r]]
        BY <2>2 DEF Resume
      <3> QED
        BY <2>1, <3>1, <3>2 DEF GotInv
    <2>3. ASSUME NEW d \in Ends, HandleMessage(d)
          PROVE  \A e \in Ends : got'[e] >= got[e]
      <3>1. /\ got' = [got EXCEPT ![d] = handled'[Other[d]]]
            /\ handled'[Other[d]] = handled[Other[d]] + 1
        BY <2>3, UpcomingMessage DEF HandleMessage
      <3> QED
        BY <2>1, <3>1 DEF GotInv
    <2>4. CASE got' = got
      BY <2>1, <2>4
    <2> QED
      BY <2>2, <2>3, <2>4
      DEF Next, LookUp, Register, SendRequest, Respond, Fail, DropFuture, SendNotice, Io, Start,
          GiveUp, Write, Read, End, EndRemove, Handle, HandleResponse, Disconnect, StopListening, vars
  <1> QED
    BY <1>1, Invariance, PTL DEF Spec, InOrder

-----------------------------------------------------------------------------
Outcomes == [r \in Requests |-> Outcome(r)]
Replied == {r \in Requests : Sent(Says("response", r))}
Up == {e \in Ends : connected[e] /\ io[e] \in {"new", "running"}}

LEMMA SameOutcomes ==
    ASSUME UNCHANGED future
    PROVE  Outcomes' = Outcomes
  BY DEF Outcomes, Outcome

LEMMA NewOutcome ==
    ASSUME TypeOK, NEW r \in Requests, NEW f, future' = [future EXCEPT ![r] = f]
    PROVE  Outcomes' = [Outcomes EXCEPT ![r] = Outcome(r)']
  <1>1. /\ future'[r] = f
        /\ \A q \in Requests : q # r => future'[q] = future[q]
    BY DEF TypeOK
  <1>2. \A q \in Requests : q # r => Outcome(q)' = Outcome(q)
    BY <1>1 DEF Outcome
  <1> QED
    BY <1>1, <1>2 DEF Outcomes

LEMMA SameReplied ==
    ASSUME TypeOK, [Next]_vars, \A r \in Requests : ~Respond(r)
    PROVE  Replied' = Replied
  BY SentSteps, SaysOnce DEF Replied

LEMMA Becomes ==
    ASSUME TypeOK, NEW r \in Requests, NEW f, future' = [future EXCEPT ![r] = f]
    PROVE  Service!Become(r, Outcome(r), Outcome(r)')
  BY NewOutcome DEF Service!Become, Outcomes

LEMMA DownEnds ==
    ASSUME ChannelsInv, NEW e \in Ends
    PROVE  /\ ~connected[e] => e \notin Up
           /\ ChannelsDropped(e) => e \notin Up
           /\ ~CanPush(e) => e \notin Up
  BY DEF ChannelsInv, ChannelsDropped, CanPush, Up

(* A request that is refused, or fails, is refused by the service.          *)
LEMMA FailsAsRefused ==
    ASSUME TypeOK, NEW r \in Requests, From[r] \notin Up,
           future[r] \in {"unmade", "found", "registered", "waiting"},
           future' = [future EXCEPT ![r] = "failed"],
           Replied' = Replied, Up' = Up
    PROVE  Service!Refuse(r) \/ Service!Fail(r)
  <1>1. Outcome(r)' = "failed" /\ Outcome(r) \in {"unasked", "asked"}
    BY DEF Outcome, TypeOK
  <1>2. Service!Become(r, Outcome(r), "failed")
    BY <1>1, Becomes
  <1> QED
    BY <1>1, <1>2 DEF Service!Refuse, Service!Fail, Replied, Up

LEMMA ServiceStep ==
    ASSUME IInv, [Next]_vars
    PROVE  Service!Next \/ UNCHANGED Service!vars
  <1> USE OtherAssumption, FromAssumption DEF IInv
  <1>a. UNCHANGED <<Outcomes, Replied, Up>> => UNCHANGED Service!vars
    BY DEF Service!vars, Outcomes, Replied, Up
  <1>1. ASSUME NEW r \in Requests, LookUp(r) \/ Register(r) \/ Fail(r)
        PROVE  Service!Next \/ UNCHANGED Service!vars
    <2>1. Replied' = Replied /\ Up' = Up
      BY <1>1, SentSteps DEF LookUp, Register, Fail, Replied, Up, Sent, queueVars
    <2>2. CASE future' = [future EXCEPT ![r] = "failed"]
      <3>1. From[r] \notin Up /\ future[r] \in {"unmade", "found", "waiting"}
        BY <1>1, <2>2, DownEnds DEF LookUp, Register, Fail, ChannelsDropped, TypeOK
      <3> QED
        BY <2>1, <2>2, <3>1, FailsAsRefused DEF Service!Next
    <2>3. CASE future[r] = "unmade" /\ future' = [future EXCEPT ![r] = "found"]
      <3>1. Outcome(r) = "unasked" /\ Outcome(r)' = "asked"
        BY <2>3 DEF Outcome, TypeOK
      <3>2. Service!Ask(r)
        BY <2>1, <2>3, <3>1, Becomes DEF Service!Ask, Replied, Up
      <3> QED
        BY <3>2 DEF Service!Next
    <2>4. CASE future[r] = "found" /\ future' = [future EXCEPT ![r] = "registered"]
      <3>1. \A q \in Requests : Outcome(q)' = Outcome(q)
        BY <2>4 DEF Outcome, TypeOK
      <3> QED
        BY <1>a, <2>1, <3>1 DEF Outcomes
    <2> QED
      BY <1>1, <2>2, <2>3, <2>4 DEF LookUp, Register, Fail
  <1>2. ASSUME NEW r \in Requests, SendRequest(r)
        PROVE  Service!Next \/ UNCHANGED Service!vars
    <2>1. /\ Up' = Up
          /\ \A q \in Requests : ~Respond(q)
      BY <1>2 DEF SendRequest, Respond, Up, TypeOK
    <2>2. Replied' = Replied
      BY <2>1, SameReplied
    <2>3. CASE CanPush(From[r])
      <3>1. \A q \in Requests : Outcome(q)' = Outcome(q)
        BY <1>2, <2>3 DEF SendRequest, Outcome, TypeOK
      <3> QED
        BY <1>a, <2>1, <2>2, <3>1 DEF Outcomes
    <2>4. CASE ~CanPush(From[r])
      BY <1>2, <2>1, <2>2, <2>4, DownEnds, FailsAsRefused DEF SendRequest, Service!Next
    <2> QED
      BY <2>3, <2>4
  <1>3. ASSUME NEW r \in Requests, Respond(r)
        PROVE  Service!Next \/ UNCHANGED Service!vars
    <2>1. Up' = Up /\ Outcomes' = Outcomes
      BY <1>3, SameOutcomes DEF Respond, Up
    <2>2. CASE UNCHANGED said
      BY <1>a, <2>1, <2>2 DEF Replied, Sent
    <2>3. CASE Push(Other[From[r]], Says("response", r))
      <3>1. Replied' = Replied \cup {r}
        BY <2>3, PushedIsSent, SaysMessage, SaysOnce DEF Replied
      <3>2. CASE r \in Replied
        BY <1>a, <2>1, <3>1, <3>2
      <3>3. CASE r \notin Replied
        <4>1. Outcomes[r] # "unasked"
          BY <1>3 DEF Respond, AskedInv, Outcomes, Outcome, TypeOK
        <4>2. Service!Reply(r)
          BY <2>1, <3>1, <3>3, <4>1 DEF Service!Reply, Outcomes, Replied, Up
        <4> QED
          BY <4>2 DEF Service!Next
      <3> QED
        BY <3>2, <3>3
    <2> QED
      BY <1>3, <2>2, <2>3 DEF Respond
  <1>4. ASSUME NEW r \in Requests, Resume(r) \/ DropFuture(r)
        PROVE  Service!Next \/ UNCHANGED Service!vars
    <2>1. Replied' = Replied /\ Up' = Up
      BY <1>4 DEF Resume, DropFuture, Replied, Up, Sent, queueVars
    <2>2. Outcome(r) = "asked" /\ Outcome(r)' = future'[r]
      BY <1>4 DEF Resume, DropFuture, Outcome, TypeOK
    <2>3. CASE Resume(r)
      <3>1. Service!Become(r, "asked", "answered")
        BY <2>2, <2>3, Becomes DEF Resume, TypeOK
      <3>2. r \in Replied
        BY <2>3 DEF Resume, AskedInv, Replied
      <3>3. Service!Answer(r)
        BY <2>1, <3>1, <3>2 DEF Service!Answer, Replied, Up
      <3> QED
        BY <3>3 DEF Service!Next
    <2>4. CASE DropFuture(r)
      <3>1. Service!Become(r, "asked", "dropped")
        BY <2>2, <2>4, Becomes DEF DropFuture, TypeOK
      <3>2. Service!Abandon(r)
        BY <2>1, <3>1 DEF Service!Abandon, Replied, Up
      <3> QED
        BY <3>2 DEF Service!Next
    <2> QED
      BY <1>4, <2>3, <2>4
  <1>5. ASSUME NEW n \in Notices, SendNotice(n)
        PROVE  Service!Next \/ UNCHANGED Service!vars
    <2>1. Replied' = Replied
      BY <1>5, PushedIsSent, SaysMessage, SaysOnce DEF SendNotice, Replied
    <2> QED
      BY <1>5, <1>a, <2>1, SameOutcomes DEF SendNotice, Up
  <1>6. ASSUME NEW e \in Ends, Io(e) \/ Disconnect(e) \/ StopListening(e)
        PROVE  Service!Next \/ UNCHANGED Service!vars
    <2>1. Replied' = Replied /\ Outcomes' = Outcomes
      BY <1>6, SameOutcomes
      DEF Io, Start, GiveUp, Write, Read, End, EndRemove, Disconnect, StopListening, Replied, Sent, queueVars
    <2>2. Up' = Up \/ Up' = Up \ {e}
      <3>1. \A d \in Ends \ {e} : d \in Up' <=> d \in Up
        BY <1>6
        DEF Io, Start, GiveUp, Write, Read, End, EndRemove, Disconnect, StopListening, SetIo, Up, TypeOK
      <3>2. e \in Up' => e \in Up
        BY <1>6
        DEF Io, Start, GiveUp, Write, Read, End, EndRemove, Disconnect, StopListening, SetIo, Up, TypeOK
      <3>3. Up \subseteq Ends /\ Up' \subseteq Ends
        BY DEF Up
      <3> HIDE DEF Up
      <3> QED
        BY <3>1, <3>2, <3>3
    <2>3. CASE Up' # Up
      <3>1. e \in Up /\ Up' = Up \ {e}
        BY <2>2, <2>3
      <3>2. Service!End(e)
        BY <2>1, <3>1 DEF Service!End, Outcomes, Replied, Up
      <3> QED
        BY <3>2 DEF Service!Next
    <2> QED
      BY <1>a, <2>1, <2>3
  <1>7. ASSUME NEW e \in Ends, Handle(e)
        PROVE  Service!Next \/ UNCHANGED Service!vars
    BY <1>7, <1>a, SameOutcomes DEF Handle, HandleResponse, HandleMessage, Take, Replied, Sent, Up
  <1>8. CASE UNCHANGED vars
    BY <1>8, <1>a, SameOutcomes DEF vars, queueVars, Replied, Sent, Up
  <1> QED
    BY <1>1, <1>2, <1>3, <1>4, <1>5, <1>6, <1>7, <1>8 DEF Next

(* Requests are served as RequestService promises: answered once and by the *)
(* receiver's own answer, or failed, and then because the caller's end of   *)
(* the connection is no more.                                               *)
THEOREM ServesAsPromised == Spec => ServesRequests
  <1>1. Init => Service!Init
    BY DEF Init, Service!Init, Outcome, Sent
  <1>2. IInv /\ [Next]_vars => [Service!Next]_(Service!vars)
    BY ServiceStep
  <1> QED
    BY <1>1, <1>2, Invariance, PTL DEF Spec, ServesRequests, Service!Spec
=============================================================================
