----------------------------- MODULE CollabRooms -----------------------------
(***************************************************************************)
(* Calls on the collaboration server (crates/collab): the connections of   *)
(* its users (rpc.rs), the rooms and their participants in the database    *)
(* (db/queries/rooms.rs), and the transactions by which the handlers of    *)
(* all connections change them (db.rs).                                    *)
(*                                                                         *)
(* A handler reaches the database through one of three kinds of            *)
(* transaction.  room_transaction takes the room's mutex, runs, commits    *)
(* and returns a guard under which the handler sends the new room to its   *)
(* participants.  optional_room_transaction runs first, because only its   *)
(* queries tell which room is concerned, and takes the mutex before it     *)
(* commits.  transaction takes no mutex.  Each statement reads what is     *)
(* committed when it starts (ReadCommitted).  A row that a transaction has *)
(* found is not locked: it may change before the transaction deletes it by *)
(* its id.  Between this and its commit the transaction holds the row;     *)
(* nobody else sees its changes, and whoever wants to write them waits.    *)
(*                                                                         *)
(* In a test build Database::run blocks the only thread on a transaction,  *)
(* so that transactions never overlap; in a production build they do.      *)
(*                                                                         *)
(* A participant row with an answering connection is someone in the room;  *)
(* one without is somebody who is being called.  The rooms of channels,    *)
(* projects, roles, locations and failing queries are left out.            *)
(***************************************************************************)
EXTENDS Naturals, FiniteSets

CONSTANTS
    Users,
    Rooms,        \* the ids of the rooms that are ever created
    Connections,  \* the ids of the connections that are ever opened
    Owner,        \* the user whose credentials a connection presents
    None,
    Starter,      \* the task of Server::start that clears stale rooms
    Builds,       \* the builds considered: "test", "production"
    MaxRestarts,  \* bound: restarts of the server
    LateAnswers,  \* may a call be answered before the client that answers, and
                  \* every other of its user's, has acknowledged the ring?
    EarlyInvites  \* may a client invite others to a room that it has still to
                  \* rejoin?

ASSUME OwnerAssumption == Owner \in [Connections -> Users]
ASSUME NoneAssumption == None \notin Users \cup Rooms \cup Connections
ASSUME StarterAssumption == Starter \notin Connections \cup {None}
ASSUME BuildsAssumption == Builds \subseteq {"test", "production"}
ASSUME MaxRestartsAssumption == MaxRestarts \in Nat
ASSUME LateAnswersAssumption == LateAnswers \in BOOLEAN
ASSUME EarlyInvitesAssumption == EarlyInvites \in BOOLEAN

VARIABLES
    build,        \* how the server was built
    rooms,        \* table rooms: "unborn", "open" or "deleted"
    participant,  \* table room_participants: the row of a user (user_id is
                  \* unique), or None
    found,        \* the rows that an open transaction has found, and will
                  \* delete by their ids
    conn,         \* a connection at the server
    task,         \* the open transaction of a connection's handlers, of what
                  \* follows its loss, or of the Starter; else None
    ringing,      \* the call whose callee a handler of a connection is ringing
    holder,       \* who holds the mutex of a room (Database.rooms)
    cleanup,      \* Server::start: the rooms it has still to clear
    restarts,
    using,        \* the live connections that a client still uses
    joined,       \* the room in which the client of a connection takes part
    view          \* the room last sent to a connection, while it lives

dbVars == <<rooms, participant, found>>
clientVars == <<using, joined>>
startVars == <<cleanup, restarts>>
vars == <<build, dbVars, conn, task, ringing, holder, startVars, clientVars, view>>

Workers == Connections \cup {Starter}

(* The operations, by the kind of their transaction.                        *)
LockedOps == {"call", "call_failed", "cancel", "join", "rejoin", "clear"}
OptionalOps == {"leave", "expire", "decline", "offline"}

(* A row of room_participants.                                              *)
Row == [room : Rooms, answering : Connections \cup {None},
        caller : Users, via : Connections]

ASSUME NoRowAssumption == None \notin Row

(* What a room message says of a room: its participants with their          *)
(* connections, and its pending participants.                               *)
View == SUBSET (Users \X (Connections \cup {None}))

(* What an open transaction has done: nothing, found its own row, deleted   *)
(* it and found the calls to delete next, read the room, deleted the room.  *)
Stages == {"open", "found", "calls", "read", "deleted"}

(* A transaction: its arguments, how far it is, the rows it has deleted and *)
(* the room it read after that.                                             *)
Task == [op : LockedOps \cup OptionalOps, room : Rooms \cup {None},
         other : Users \cup {None}, stage : Stages, gone : SUBSET Users,
         snapshot : View]

Ask(op, r, u) == [op |-> op, room |-> r, other |-> u, stage |-> "open",
                  gone |-> {}, snapshot |-> {}]

Ring == [room : Rooms, user : Users, sent : BOOLEAN, targets : SUBSET Connections]

Init ==
    /\ build \in Builds
    /\ rooms = [r \in Rooms |-> "unborn"]
    /\ participant = [u \in Users |-> None]
    /\ found = [w \in Workers |-> {}]
    /\ conn = [c \in Connections |-> "unused"]
    /\ task = [w \in Workers |-> None]
    /\ ringing = [c \in Connections |-> None]
    /\ holder = [r \in Rooms |-> None]
    /\ cleanup = [phase |-> "idle", todo |-> {}]
    /\ restarts = 0
    /\ using = {}
    /\ joined = [c \in Connections |-> None]
    /\ view = [c \in Connections |-> {}]
-----------------------------------------------------------------------------
(***************************************************************************)
(* The tables.                                                             *)
(***************************************************************************)
InRoom(table, u, r) == table[u] # None /\ table[u].room = r
Answered(table, u) == table[u] # None /\ table[u].answering # None
Pending(table, u) == table[u] # None /\ table[u].answering = None
AnsweredBy(u, c) == participant[u] # None /\ participant[u].answering = c

(* get_room, get_channel_room: the room as clients see it.                  *)
RoomView(table, r) ==
    {<<u, table[u].answering>> : u \in {v \in Users : InRoom(table, v, r)}}

Inhabited(table, r) == \E u \in Users : InRoom(table, u, r) /\ Answered(table, u)

(* Mutant: the calls of someone who leaves are not cancelled.               *)
CalledByIgnored(U) == {}

(* The rows of those whom one of U is calling, in whatever room.            *)
CalledBy(U) == {v \in Users : Pending(participant, v) /\ participant[v].caller \in U}

Without(U) == [u \in Users |-> IF u \in U THEN None ELSE participant[u]]

(* rooms is referenced by room_participants: a room in which somebody, even *)
(* a callee, is left cannot be deleted.                                     *)
Undeletable(table, r) == \E u \in Users : InRoom(table, u, r)

(* No other transaction has deleted one of these rows and not committed.    *)
RowsFree(w, U) ==
    \A x \in Workers \ {w} : task[x] # None => task[x].gone \cap U = {}

(* The pool (rpc/connection_pool.rs): a connection is in it until its loss  *)
(* is noticed.                                                              *)
UserConnections(u) == {c \in Connections : Owner[c] = u /\ conn[c] = "live"}
IsUserOnline(u) == UserConnections(u) # {}

(* room_updated: everybody in the room is sent the room.                    *)
RoomUpdated(snapshot) ==
    view' = [c \in Connections |->
                IF <<Owner[c], c>> \in snapshot /\ conn[c] = "live"
                THEN snapshot ELSE view[c]]

(* The table is written.  A row that has gone is found no more: another of  *)
(* the same user has another id.                                            *)
Write(table) ==
    /\ participant' = table
    /\ found' = [w \in Workers |-> {u \in found[w] : table[u] # None}]

Changed(table, r) == Write(table) /\ RoomUpdated(RoomView(table, r))
-----------------------------------------------------------------------------
(***************************************************************************)
(* The statements of the transactions that hold the mutex, with their      *)
(* commit and the message sent under the guard.  Nobody else sees a        *)
(* statement before the commit, and none of these waits for the row of     *)
(* another while it has changed one itself.  t is the transaction.         *)
(***************************************************************************)
(* The row of the callee refers to the room: its insertion waits for a      *)
(* transaction that is deleting the room.                                   *)
RoomFree(w, r) ==
    \A x \in Workers \ {w} :
        task[x] # None => ~(task[x].stage = "deleted" /\ task[x].room = r)

(* The deletion of a room waits for another one, and for whoever has        *)
(* deleted a row that refers to it.                                         *)
FreeToDelete(w, r) ==
    RoomFree(w, r) /\ RowsFree(w, {u \in Users : InRoom(participant, u, r)})

(* call: the row of the callee, then the handler goes on to ring.           *)
Call(c, t) ==
    LET row == [room |-> t.room, answering |-> None, caller |-> Owner[c], via |-> c]
    IN  /\ RowsFree(c, {t.other})
        /\ RoomFree(c, t.room)
        /\ IF InRoom(participant, Owner[c], t.room) /\ participant[t.other] = None
           THEN /\ Changed([participant EXCEPT ![t.other] = row], t.room)
                /\ ringing' = [ringing EXCEPT ![c] = [room |-> t.room, user |-> t.other,
                                                      sent |-> FALSE, targets |-> {}]]
           ELSE UNCHANGED <<participant, found, view, ringing>>
        /\ UNCHANGED <<rooms, cleanup, joined>>

(* call_failed: whatever row the callee has in the room.                    *)
CallFailed(c, t) ==
    /\ RowsFree(c, {t.other})
    /\ IF rooms[t.room] = "open"
       THEN Changed([participant EXCEPT ![t.other] = IF InRoom(participant, t.other, t.room)
                                                     THEN None ELSE @], t.room)
       ELSE UNCHANGED <<participant, found, view>>
    /\ ringing' = [ringing EXCEPT ![c] = None]
    /\ UNCHANGED <<rooms, cleanup, joined>>

(* cancel_call: only from the connection that called.                       *)
CancelCall(c, t) ==
    /\ RowsFree(c, {t.other})
    /\ IF /\ InRoom(participant, t.other, t.room)
          /\ Pending(participant, t.other)
          /\ participant[t.other].via = c
       THEN Changed([participant EXCEPT ![t.other] = None], t.room)
       ELSE UNCHANGED <<participant, found, view>>
    /\ UNCHANGED <<rooms, ringing, cleanup, joined>>

(* join_room: answer the call.                                              *)
JoinRoom(c, t) ==
    LET u == Owner[c]
    IN  /\ RowsFree(c, {u})
        /\ IF InRoom(participant, u, t.room) /\ Pending(participant, u)
           THEN /\ Changed([participant EXCEPT ![u].answering = c], t.room)
                /\ joined' = [joined EXCEPT ![c] = t.room]
           ELSE UNCHANGED <<participant, found, view, joined>>
        /\ UNCHANGED <<rooms, ringing, cleanup>>

(* Mutant: the seat passes without the participants being told.             *)
RejoinRoomSilently(c, t) ==
    LET u == Owner[c]
    IN  /\ RowsFree(c, {u})
        /\ IF InRoom(participant, u, t.room) /\ Answered(participant, u)
           THEN Write([participant EXCEPT ![u].answering = c])
           ELSE UNCHANGED <<participant, found>>
        /\ UNCHANGED <<rooms, ringing, cleanup, joined, view>>

(* rejoin_room: the seat of the user passes to this connection.             *)
RejoinRoom(c, t) ==
    LET u == Owner[c]
    IN  /\ RowsFree(c, {u})
        /\ IF InRoom(participant, u, t.room) /\ Answered(participant, u)
           THEN Changed([participant EXCEPT ![u].answering = c], t.room)
           ELSE UNCHANGED <<participant, found, view>>
        /\ UNCHANGED <<rooms, ringing, cleanup, joined>>

(* Users whose row in the room was answered on an earlier server.           *)
StaleUsers(r) ==
    {u \in Users : /\ InRoom(participant, u, r)
                   /\ Answered(participant, u)
                   /\ conn[participant[u].answering] = "stale"}

(* clear_stale_room_participants: the stale rows and the calls found after  *)
(* their deletion, which in production is a step of its own (DeleteStale).  *)
ClearStale(w, t) ==
    LET r == t.room
        gone == IF t.stage = "calls" THEN t.gone \cup found[w]
                ELSE StaleUsers(r) \cup CalledBy(StaleUsers(r))
        left == Without(gone)
    IN  /\ RowsFree(w, gone)
        /\ Inhabited(left, r) \/ FreeToDelete(w, r)
        /\ IF rooms[r] # "open" \/ (~Inhabited(left, r) /\ Undeletable(left, r))
           THEN UNCHANGED <<dbVars, view>>
           ELSE /\ Changed(left, r)
                /\ rooms' = IF Inhabited(left, r) THEN rooms
                            ELSE [rooms EXCEPT ![r] = "deleted"]
        /\ cleanup' = [cleanup EXCEPT !.todo = @ \ {r}]
        /\ UNCHANGED <<ringing, joined>>

Statements(w, t) ==
    \/ t.op = "call" /\ Call(w, t)
    \/ t.op = "call_failed" /\ CallFailed(w, t)
    \/ t.op = "cancel" /\ CancelCall(w, t)
    \/ t.op = "join" /\ JoinRoom(w, t)
    \/ t.op = "rejoin" /\ RejoinRoom(w, t)
    \/ t.op = "clear" /\ ClearStale(w, t)
-----------------------------------------------------------------------------
(***************************************************************************)
(* Transactions (db.rs).  Database::run of a test build blocks the only    *)
(* thread, so that there a transaction is one step.                        *)
(***************************************************************************)
Served(w) ==
    /\ task' = [task EXCEPT ![w] = None]
    /\ holder' = [r \in Rooms |-> IF holder[r] = w THEN None ELSE holder[r]]

(* room_transaction: the mutex first, under which the statements ...        *)
RoomTransaction(w, t) ==
    /\ task[w] = None
    /\ holder[t.room] = None
    /\ \/ /\ build = "test"
          /\ Statements(w, t)
          /\ UNCHANGED <<task, holder>>
       \/ /\ build = "production"
          /\ task' = [task EXCEPT ![w] = t]
          /\ holder' = [holder EXCEPT ![t.room] = w]
          /\ UNCHANGED <<dbVars, ringing, cleanup, joined, view>>
    /\ UNCHANGED <<build, conn, restarts, using>>

(* ... run in production when they need not wait for rows any more.         *)
Proceed(w) ==
    /\ task[w] # None
    /\ task[w].op \in LockedOps
    /\ task[w].op = "clear" => task[w].stage = "calls"
    /\ Statements(w, task[w])
    /\ Served(w)
    /\ UNCHANGED <<build, conn, restarts, using>>

(* The calls of the cleared may be in rooms whose mutex is not taken: they  *)
(* are found, then deleted by id.                                           *)
DeleteStale(w) ==
    /\ task[w] # None
    /\ task[w].op = "clear"
    /\ task[w].stage = "open"
    /\ LET stale == StaleUsers(task[w].room)
       IN  /\ RowsFree(w, stale)
           /\ task' = [task EXCEPT ![w].stage = "calls", ![w].gone = stale]
           /\ found' = [found EXCEPT ![w] = CalledBy(stale)]
    /\ UNCHANGED <<build, rooms, participant, conn, ringing, holder, startVars,
                   clientVars, view>>

(* Mutant: the row of the user is found, whichever connection answered it.  *)
FoundOfUser(c, t) ==
    LET u == Owner[c]
    IN  CASE t.op \in {"leave", "expire"} -> IF Answered(participant, u) THEN {u} ELSE {}
          [] t.op \in {"decline", "offline"} ->
                 IF Pending(participant, u) /\ t.room \in {None, participant[u].room}
                 THEN {u} ELSE {}

(* The row that leave_room and decline_call look for.                       *)
Found(c, t) ==
    LET u == Owner[c]
    IN  CASE t.op \in {"leave", "expire"} -> IF AnsweredBy(u, c) THEN {u} ELSE {}
          [] t.op \in {"decline", "offline"} ->
                 IF Pending(participant, u) /\ t.room \in {None, participant[u].room}
                 THEN {u} ELSE {}

Leaves(t) == t.op \in {"leave", "expire"}

(* leave_room deletes a room in which it sees nobody any more.              *)
DeletesRoom(t) == Leaves(t) /\ \A seat \in t.snapshot : seat[2] = None

(* The last query of the statements: the room as it is without the deleted. *)
HasRead(t) ==
    [t EXCEPT !.stage = "read", !.snapshot = RoomView(Without(t.gone), t.room)]

(* All the statements at once, as in a test build.                          *)
Executed(c, t) ==
    LET U == Found(c, t)
    IN  HasRead([t EXCEPT !.room = participant[Owner[c]].room,
                          !.gone = IF Leaves(t) THEN U \cup CalledBy(U) ELSE U])

(* connection_lost goes on, whatever has become of the transaction.         *)
AfterOptional(c, t) ==
    conn' = [conn EXCEPT ![c] = CASE t.op = "expire" -> "left"
                                  [] t.op = "offline" -> "closed"
                                  [] OTHER -> @]

(* Mutant: an empty room is kept.                                           *)
CommitKeepingRoom(c, t) ==
    /\ Write(Without(t.gone))
    /\ RoomUpdated(t.snapshot)
    /\ AfterOptional(c, t)
    /\ UNCHANGED rooms

(* The commit, and the room to its participants.                            *)
Commit(c, t) ==
    /\ Write(Without(t.gone))
    /\ rooms' = IF DeletesRoom(t) THEN [rooms EXCEPT ![t.room] = "deleted"] ELSE rooms
    /\ RoomUpdated(t.snapshot)
    /\ AfterOptional(c, t)

(* optional_room_transaction: the statements first.  There may be nothing   *)
(* to do.  In a test build the rest is one step, which fails if the room    *)
(* does not let itself be deleted; in production the row is only found.     *)
OptionalRoomTransaction(c, t) ==
    LET x == Executed(c, t)
    IN  /\ task[c] = None
        /\ \/ /\ Found(c, t) = {}
              /\ AfterOptional(c, t)
              /\ UNCHANGED <<dbVars, task, view>>
           \/ /\ Found(c, t) # {}
              /\ build = "test"
              /\ IF DeletesRoom(x) /\ x.snapshot # {}
                 THEN AfterOptional(c, t) /\ UNCHANGED <<dbVars, view>>
                 ELSE Commit(c, x)
              /\ UNCHANGED task
           \/ /\ Found(c, t) # {}
              /\ build = "production"
              /\ task' = [task EXCEPT ![c] = [t EXCEPT !.room = participant[Owner[c]].room,
                                                       !.stage = "found"]]
              /\ found' = [found EXCEPT ![c] = Found(c, t)]
              /\ UNCHANGED <<rooms, participant, conn, view>>
        /\ UNCHANGED <<build, ringing, holder, startVars, using>>

(* Then, in production, the row is deleted by its id, and leave_room finds  *)
(* the calls of its user while decline_call reads the room.  The deletion   *)
(* and the next query are one step: in between the row is held, and nobody  *)
(* else sees any difference.                                                *)
DeleteRow(c) ==
    LET x == [task[c] EXCEPT !.gone = found[c]]
    IN  /\ task[c] # None
        /\ task[c].stage = "found"
        /\ RowsFree(c, found[c])
        /\ \/ /\ Leaves(x)
              /\ task' = [task EXCEPT ![c] = [x EXCEPT !.stage = "calls"]]
              /\ found' = [found EXCEPT ![c] = CalledBy({Owner[c]})]
           \/ /\ ~Leaves(x)
              /\ task' = [task EXCEPT ![c] = HasRead(x)]
              /\ found' = [found EXCEPT ![c] = {}]
        /\ UNCHANGED <<build, rooms, participant, conn, ringing, holder, startVars,
                       clientVars, view>>

(* leave_room deletes those calls by their ids, and reads the room.         *)
DeleteCalls(c) ==
    /\ task[c] # None
    /\ task[c].op \in OptionalOps
    /\ task[c].stage = "calls"
    /\ RowsFree(c, found[c])
    /\ task' = [task EXCEPT ![c] = HasRead([task[c] EXCEPT !.gone = @ \cup found[c]])]
    /\ found' = [found EXCEPT ![c] = {}]
    /\ UNCHANGED <<build, rooms, participant, conn, ringing, holder, startVars,
                   clientVars, view>>

(* If it saw nobody, it deletes the room and forgets the room's mutex:      *)
(* whoever comes next gets a new one.  A room to which a row refers again   *)
(* does not let itself be deleted, and everything is rolled back.           *)
DeleteRoom(c) ==
    LET t == task[c]
    IN  /\ t # None
        /\ t.stage = "read"
        /\ DeletesRoom(t)
        /\ FreeToDelete(c, t.room)
        /\ IF Undeletable(Without(t.gone), t.room)
           THEN Served(c) /\ AfterOptional(c, t)
           ELSE /\ task' = [task EXCEPT ![c].stage = "deleted"]
                /\ holder' = [holder EXCEPT ![t.room] = None]
                /\ UNCHANGED conn
        /\ UNCHANGED <<build, dbVars, ringing, startVars, clientVars, view>>

(* Last the mutex and the commit.                                           *)
ProceedOptional(c) ==
    LET t == task[c]
    IN  /\ t # None
        /\ t.stage = "deleted" \/ (t.stage = "read" /\ ~DeletesRoom(t))
        /\ holder[t.room] = None
        /\ Commit(c, t)
        /\ Served(c)
        /\ UNCHANGED <<build, ringing, startVars, clientVars>>
-----------------------------------------------------------------------------
(***************************************************************************)
(* Clients and their requests.  A request is served some time after it was *)
(* made; it is modelled from the moment its transaction starts, and a      *)
(* request that comes too late is one that has no effect.                  *)
(***************************************************************************)
(* The handlers of a connection share its session's one handle of the       *)
(* database, so that their transactions run one at a time.                  *)
Acts(c) == c \in using /\ task[c] = None

(* handle_connection: a new client, or one that reconnects and remembers    *)
(* the room it was in.                                                      *)
Connect(u, old) ==
    LET c == CHOOSE d \in Connections : Owner[d] = u /\ conn[d] = "unused"
    IN  /\ \E d \in Connections : Owner[d] = u /\ conn[d] = "unused"
        /\ old # None => conn[old] # "unused" /\ Owner[old] = u
        /\ conn' = [conn EXCEPT ![c] = "live"]
        /\ using' = (using \ {old}) \cup {c}
        /\ joined' = [d \in Connections |->
                         CASE d = old -> None
                           [] d = c /\ old # None -> joined[old]
                           [] OTHER -> joined[d]]
        /\ UNCHANGED <<build, dbVars, task, ringing, holder, startVars, view>>

(* A client quits, or its network does.                                     *)
Quit(c) ==
    /\ c \in using
    /\ using' = using \ {c}
    /\ UNCHANGED <<build, dbVars, conn, task, ringing, holder, startVars, joined, view>>

(* create_room: no mutex, since nobody knows the room.                      *)
CreateRoom(c) ==
    LET r == CHOOSE x \in Rooms : rooms[x] = "unborn"
        u == Owner[c]
        row == [room |-> r, answering |-> c, caller |-> u, via |-> c]
    IN  /\ Acts(c)
        /\ joined[c] = None
        /\ \E x \in Rooms : rooms[x] = "unborn"
        /\ RowsFree(c, {u})
        /\ participant[u] = None
        /\ rooms' = [rooms EXCEPT ![r] = "open"]
        /\ Changed([participant EXCEPT ![u] = row], r)
        /\ joined' = [joined EXCEPT ![c] = r]
        /\ UNCHANGED <<build, conn, task, ringing, holder, startVars, using>>

BeingRung(u) == \E c \in Connections : ringing[c] # None /\ ringing[c].user = u

(* accept_incoming                                                          *)
AcceptIncoming(c) ==
    /\ Acts(c)
    /\ joined[c] = None
    /\ Pending(participant, Owner[c])
    /\ LateAnswers \/ ~BeingRung(Owner[c])
    /\ RoomTransaction(c, Ask("join", participant[Owner[c]].room, None))

(* maintain_connection: after a reconnection.                               *)
Rejoin(c) ==
    /\ Acts(c)
    /\ joined[c] # None
    /\ ~AnsweredBy(Owner[c], c)
    /\ RoomTransaction(c, Ask("rejoin", joined[c], None))

(* hang_up, leave_room: also when the client could not rejoin.              *)
HangUp(c) ==
    /\ Acts(c)
    /\ joined[c] # None
    /\ OptionalRoomTransaction(c, Ask("leave", None, None))
    /\ joined' = [joined EXCEPT ![c] = None]

(* invite: also by a client whose room is Rejoining.                        *)
Invite(c, u) ==
    /\ Acts(c)
    /\ joined[c] # None
    /\ EarlyInvites \/ AnsweredBy(Owner[c], c)
    /\ ringing[c] = None
    /\ u # Owner[c]
    /\ participant[u] = None
    /\ RoomTransaction(c, Ask("call", joined[c], u))

(* cancel_invite                                                            *)
CancelInvite(c, u) ==
    /\ Acts(c)
    /\ joined[c] # None
    /\ InRoom(participant, u, joined[c])
    /\ Pending(participant, u)
    /\ RoomTransaction(c, Ask("cancel", joined[c], u))

(* decline_incoming                                                         *)
DeclineIncoming(c) ==
    /\ Acts(c)
    /\ joined[c] = None
    /\ Pending(participant, Owner[c])
    /\ OptionalRoomTransaction(c, Ask("decline", participant[Owner[c]].room, None))
    /\ UNCHANGED joined
-----------------------------------------------------------------------------
(***************************************************************************)
(* The rest of the call handler: ring every connection of the callee; the  *)
(* first answer ends it, and if there is none the call has failed.         *)
(***************************************************************************)
RingUser(c) ==
    /\ ringing[c] # None
    /\ ~ringing[c].sent
    /\ ringing' = [ringing EXCEPT ![c].sent = TRUE,
                                  ![c].targets = UserConnections(ringing[c].user)]
    /\ UNCHANGED <<build, dbVars, conn, task, holder, startVars, clientVars, view>>

(* handle_incoming_call: a client acknowledges when it has looked up the    *)
(* users of the call ...                                                    *)
RingAnswered(c) ==
    /\ ringing[c] # None
    /\ ringing[c].targets \cap using # {}
    /\ ringing' = [ringing EXCEPT ![c] = None]
    /\ UNCHANGED <<build, dbVars, conn, task, holder, startVars, clientVars, view>>

(* ... and answers with an error if it could not.                           *)
RingRefused(c) ==
    /\ ringing[c] # None
    /\ \E d \in ringing[c].targets \cap using :
           ringing' = [ringing EXCEPT ![c].targets = @ \ {d}]
    /\ UNCHANGED <<build, dbVars, conn, task, holder, startVars, clientVars, view>>

(* Mutant: the first request that fails makes the call fail.                *)
RingFailsForOne(c) ==
    /\ ringing[c] # None
    /\ ringing[c].sent
    /\ \E d \in ringing[c].targets : conn[d] # "live"
    /\ RoomTransaction(c, Ask("call_failed", ringing[c].room, ringing[c].user))

(* Every request has failed, by such an answer or because its connection    *)
(* ended.                                                                   *)
RingFails(c) ==
    /\ ringing[c] # None
    /\ ringing[c].sent
    /\ \A d \in ringing[c].targets : conn[d] # "live"
    /\ RoomTransaction(c, Ask("call_failed", ringing[c].room, ringing[c].user))
-----------------------------------------------------------------------------
(***************************************************************************)
(* The end of a connection, and of the server.                             *)
(***************************************************************************)
(* handle_connection leaves its loop: its handlers are dropped, with the    *)
(* transaction one of them has open, and connection_lost takes the          *)
(* connection out of the pool and waits for RECONNECT_TIMEOUT.              *)
Lose(c) ==
    /\ conn[c] = "live"
    /\ conn' = [conn EXCEPT ![c] = "lost"]
    /\ ringing' = [ringing EXCEPT ![c] = None]
    /\ using' = using \ {c}
    /\ view' = [view EXCEPT ![c] = {}]
    /\ found' = [found EXCEPT ![c] = {}]
    /\ Served(c)
    /\ UNCHANGED <<build, rooms, participant, startVars, joined>>

(* Mutant: not while the user has another connection.                       *)
ExpireIfOffline(c) ==
    /\ conn[c] = "lost"
    /\ ~IsUserOnline(Owner[c])
    /\ OptionalRoomTransaction(c, Ask("expire", None, None))
    /\ UNCHANGED joined

(* ... then it leaves the room ...                                          *)
Expire(c) ==
    /\ conn[c] = "lost"
    /\ OptionalRoomTransaction(c, Ask("expire", None, None))
    /\ UNCHANGED joined

(* ... and looks whether the user has another connection: if not, nobody    *)
(* can answer a call any more.                                              *)
CheckOnline(c) ==
    /\ conn[c] = "left"
    /\ conn' = [conn EXCEPT ![c] = IF IsUserOnline(Owner[c]) THEN "closed" ELSE "offline"]
    /\ UNCHANGED <<build, dbVars, task, ringing, holder, startVars, clientVars, view>>

DeclineOffline(c) ==
    /\ conn[c] = "offline"
    /\ OptionalRoomTransaction(c, Ask("offline", None, None))
    /\ UNCHANGED joined

(* Mutant: clients are taken for connected to the new server.               *)
RestartKeepingClients ==
    /\ restarts < MaxRestarts
    /\ restarts' = restarts + 1
    /\ conn' = [c \in Connections |-> IF conn[c] = "unused" THEN "unused" ELSE "stale"]
    /\ task' = [w \in Workers |-> None]
    /\ found' = [w \in Workers |-> {}]
    /\ ringing' = [c \in Connections |-> None]
    /\ holder' = [r \in Rooms |-> None]
    /\ cleanup' = [phase |-> "waiting", todo |-> {}]
    /\ view' = [c \in Connections |-> {}]
    /\ UNCHANGED <<build, rooms, participant, clientVars>>

(* The server goes down, with everything it was doing, and another starts   *)
(* with an id of its own.                                                   *)
Restart ==
    /\ restarts < MaxRestarts
    /\ restarts' = restarts + 1
    /\ conn' = [c \in Connections |-> IF conn[c] = "unused" THEN "unused" ELSE "stale"]
    /\ task' = [w \in Workers |-> None]
    /\ found' = [w \in Workers |-> {}]
    /\ ringing' = [c \in Connections |-> None]
    /\ holder' = [r \in Rooms |-> None]
    /\ cleanup' = [phase |-> "waiting", todo |-> {}]
    /\ using' = {}
    /\ view' = [c \in Connections |-> {}]
    /\ UNCHANGED <<build, rooms, participant, joined>>

(* stale_server_resource_ids, after CLEANUP_TIMEOUT: the rooms in which     *)
(* somebody has not come back.                                              *)
StartCleanup ==
    /\ cleanup.phase = "waiting"
    /\ cleanup' = [phase |-> "clearing", todo |-> {r \in Rooms : StaleUsers(r) # {}}]
    /\ UNCHANGED <<build, dbVars, conn, task, ringing, holder, restarts, clientVars, view>>

ClearRoom(r) ==
    /\ r \in cleanup.todo
    /\ RoomTransaction(Starter, Ask("clear", r, None))

(* delete_stale_servers: rows answered there go with them (ON DELETE        *)
(* CASCADE).                                                                *)
FinishCleanup ==
    LET gone == UNION {StaleUsers(r) : r \in Rooms}
    IN  /\ cleanup.phase = "clearing"
        /\ cleanup.todo = {}
        /\ task[Starter] = None
        /\ RowsFree(Starter, gone)
        /\ Write(Without(gone))
        /\ cleanup' = [cleanup EXCEPT !.phase = "idle"]
        /\ UNCHANGED <<build, rooms, conn, task, ringing, holder, restarts, clientVars, view>>
-----------------------------------------------------------------------------
Requests(c) ==
    \/ CreateRoom(c) \/ AcceptIncoming(c) \/ Rejoin(c) \/ HangUp(c) \/ DeclineIncoming(c)
    \/ \E u \in Users : Invite(c, u) \/ CancelInvite(c, u)

(* What follows the loss of a connection.                                   *)
Outlives(c) == Expire(c) \/ CheckOnline(c) \/ DeclineOffline(c)

Cleanup == StartCleanup \/ (\E r \in Rooms : ClearRoom(r)) \/ FinishCleanup

(* What is left of an optional transaction.                                 *)
Continues(c) == DeleteRow(c) \/ DeleteCalls(c) \/ DeleteRoom(c) \/ ProceedOptional(c)

Next ==
    \/ \E w \in Workers : DeleteStale(w) \/ Proceed(w)
    \/ \E c \in Connections :
           \/ Continues(c) \/ Requests(c)
           \/ RingUser(c) \/ RingAnswered(c) \/ RingRefused(c) \/ RingFails(c)
           \/ Quit(c) \/ Lose(c) \/ Outlives(c)
    \/ \E u \in Users, old \in Connections \cup {None} : Connect(u, old)
    \/ Restart
    \/ Cleanup

Spec == Init /\ [][Next]_vars

(* The tasks of the server run, its timers fire, and a connection that its  *)
(* client does not use any more is noticed to be dead (RECEIVE_TIMEOUT).    *)
(* Clients need not do anything.                                            *)
Tends(c) ==
    \/ Proceed(c) \/ Continues(c)
    \/ RingUser(c) \/ RingFails(c)
    \/ Outlives(c)
    \/ (c \notin using /\ Lose(c))

Fairness ==
    /\ \A c \in Connections : WF_vars(Tends(c))
    /\ WF_vars(Cleanup \/ DeleteStale(Starter) \/ Proceed(Starter))

FairSpec == Spec /\ Fairness
-----------------------------------------------------------------------------
TypeOK ==
    /\ build \in Builds
    /\ rooms \in [Rooms -> {"unborn", "open", "deleted"}]
    /\ participant \in [Users -> Row \cup {None}]
    /\ found \in [Workers -> SUBSET Users]
    /\ conn \in [Connections ->
                    {"unused", "live", "lost", "left", "offline", "closed", "stale"}]
    /\ task \in [Workers -> Task \cup {None}]
    /\ ringing \in [Connections -> Ring \cup {None}]
    /\ holder \in [Rooms -> Workers \cup {None}]
    /\ cleanup \in [phase : {"idle", "waiting", "clearing"}, todo : SUBSET Rooms]
    /\ restarts \in 0 .. MaxRestarts
    /\ using \subseteq {c \in Connections : conn[c] = "live"}
    /\ joined \in [Connections -> Rooms \cup {None}]
    /\ view \in [Connections -> View]

(* Whoever is being called is called by somebody who is in that room.  When *)
(* the caller leaves, quits, or is cleared away after a restart, the calls  *)
(* go too: otherwise the callee would stay busy, and the room could not be  *)
(* deleted.  Only where transactions do not overlap: in production a call   *)
(* may be inserted between the statements of the caller's leave and their   *)
(* commit.                                                                  *)
PendingHasCaller ==
    build = "test" =>
        \A u \in Users : Pending(participant, u) =>
            LET v == participant[u].caller
            IN  InRoom(participant, v, participant[u].room) /\ Answered(participant, v)

(* A room exists as long as somebody is in it, and no longer.  Only where   *)
(* transactions do not overlap: of two leaves that do, each sees the other  *)
(* still there.                                                             *)
RoomsInhabited ==
    build = "test" => \A r \in Rooms : rooms[r] = "open" <=> Inhabited(participant, r)

(* The last room a participant was sent is the room as it is.  Only where   *)
(* transactions do not overlap, for the same reason.                        *)
ViewIsCurrent ==
    build = "test" =>
        \A c \in Connections :
            conn[c] = "live" /\ AnsweredBy(Owner[c], c) =>
                view[c] = RoomView(participant, participant[Owner[c]].room)

(* A client that is in a room, on the connection that has its seat.         *)
Seated(c) == c \in using /\ joined[c] # None /\ AnsweredBy(Owner[c], c)

(* The rows that a transaction has found or deleted.                        *)
Marked(w) == found[w] \cup (IF task[w] = None THEN {} ELSE task[w].gone)

(* Another transaction marked the row before the client took the seat.      *)
Overtaken(c) == \E w \in Workers \ {c} : Owner[c] \in Marked(w)

(* A call that rings in the room of u fails.  It is u who is called: it has *)
(* answered without waiting for the rings to be acknowledged.               *)
CallFails(u) ==
    /\ LateAnswers \/ build = "production"
    /\ \E d \in Connections :
           /\ ringing[d] # None
           /\ ringing[d].user = u
           /\ InRoom(participant, u, ringing[d].room)
           /\ ringing[d].sent
           /\ \A e \in ringing[d].targets : conn[e] # "live"
           /\ ringing'[d] = None

(* Who puts a client out of the room, other than itself: a transaction that *)
(* found its row when it was still called, or answered by an earlier        *)
(* connection, and the failure of the call that it has answered.  No timer  *)
(* that fires later, no declining of another client, no call that ends in   *)
(* another way, no restart.  (Another client of the same user may take the  *)
(* seat.)                                                                   *)
StaysUntilItLeaves ==
    [][\A c \in Connections :
           Seated(c) =>
               \/ /\ InRoom(participant', Owner[c], participant[Owner[c]].room)
                  /\ Answered(participant', Owner[c])
               \/ c \notin using' \/ joined'[c] = None
               \/ Overtaken(c)
               \/ CallFails(Owner[c])]_vars

(* While a client has a seat, no transaction but its own comes to mark the  *)
(* row: whoever puts it out had found the row before it sat down.           *)
SeatNotMarked ==
    [][\A c \in Connections, w \in Workers :
           Seated(c) /\ w # c /\ Owner[c] \in Marked(w)' => Owner[c] \in Marked(w)]_vars

(* The updates sent to clients are serialized with the changes of the       *)
(* database: when no transaction is open, the last room a participant was   *)
(* sent is the room as it is.  The code does not keep this in production:   *)
(* an optional transaction reads the room before it takes the mutex.        *)
UpdatesSerialized ==
    (\A w \in Workers : task[w] = None) =>
        \A c \in Connections :
            conn[c] = "live" /\ AnsweredBy(Owner[c], c) =>
                view[c] = RoomView(participant, participant[Owner[c]].room)

(* Again and again there is a moment at which no seat is kept for a         *)
(* connection that no client uses: each such seat is taken over or given    *)
(* up, also when the server restarts.  Only where transactions do not       *)
(* overlap: in production handlers can wait for each other for ever.        *)
LostResolved ==
    []<>(build = "test" =>
            \A c \in Connections : AnsweredBy(Owner[c], c) => c \in using)

(* Once the connection of a participant has been lost for long enough, and  *)
(* its leave has been served, it has no seat any more.  Only where          *)
(* transactions do not overlap, as above.                                   *)
SeatGivenUp ==
    build = "test" =>
        \A c \in Connections :
            conn[c] \in {"left", "offline", "closed"} => ~AnsweredBy(Owner[c], c)
=============================================================================
