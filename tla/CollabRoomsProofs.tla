--------------------------- MODULE CollabRoomsProofs ---------------------------
(***************************************************************************)
(* Proofs about CollabRooms, for any users, connections and rooms and any  *)
(* number of restarts.                                                     *)
(***************************************************************************)
EXTENDS CollabRooms, TLAPS

(* What the arguments of a transaction are, by its kind.                    *)
Formed(w, t) ==
    /\ t \in Task
    /\ t.room \in Rooms
    /\ t.op # "clear" => w \in Connections
    /\ t.op \in {"call", "call_failed", "cancel"} => t.other \in Users

TaskInv == \A w \in Workers : task[w] # None => Formed(w, task[w])

(* connection_lost works on a connection that has left the pool.            *)
OpInv ==
    \A c \in Connections :
        task[c] # None =>
            /\ task[c].op = "expire" => conn[c] = "lost"
            /\ task[c].op = "offline" => conn[c] = "offline"

TypeInv == TypeOK /\ TaskInv /\ OpInv
-----------------------------------------------------------------------------
LEMMA RowParts ==
    ASSUME NEW table \in [Users -> Row \cup {None}], NEW u \in Users, table[u] # None
    PROVE  /\ table[u] \in Row
           /\ table[u].room \in Rooms
           /\ table[u].answering \in Connections \cup {None}
           /\ table[u].caller \in Users
           /\ table[u].via \in Connections
  BY DEF Row

LEMMA RoomViewType ==
    ASSUME NEW table \in [Users -> Row \cup {None}], NEW r
    PROVE  RoomView(table, r) \in View
  <1>1. ASSUME NEW u \in Users, InRoom(table, u, r)
        PROVE  <<u, table[u].answering>> \in Users \X (Connections \cup {None})
    BY <1>1, RowParts DEF InRoom
  <1> QED
    BY <1>1 DEF RoomView, View

LEMMA WriteType ==
    ASSUME TypeOK, NEW table \in [Users -> Row \cup {None}], Write(table)
    PROVE  /\ participant' \in [Users -> Row \cup {None}]
           /\ found' \in [Workers -> SUBSET Users]
  BY DEF Write, TypeOK

LEMMA ChangedType ==
    ASSUME TypeOK, NEW table \in [Users -> Row \cup {None}], NEW r, Changed(table, r)
    PROVE  /\ participant' \in [Users -> Row \cup {None}]
           /\ found' \in [Workers -> SUBSET Users]
           /\ view' \in [Connections -> View]
  <1>1. RoomView(table, r) \in View
    BY RoomViewType
  <1>2. Write(table) /\ RoomUpdated(RoomView(table, r))
    BY DEF Changed
  <1> QED
    BY <1>1, <1>2, WriteType DEF RoomUpdated, TypeOK

LEMMA WithoutType ==
    ASSUME TypeOK, NEW U
    PROVE  Without(U) \in [Users -> Row \cup {None}]
  BY DEF TypeOK, Without

LEMMA TasksApart ==
    /\ LockedOps \cap OptionalOps = {}
    /\ \A c \in Connections : c \in Workers
    /\ Starter \in Workers
  BY DEF LockedOps, OptionalOps, Workers
-----------------------------------------------------------------------------
(* The statements of the transactions that hold the mutex keep the types of *)
(* what they change.                                                        *)
LEMMA StatementsType ==
    ASSUME TypeOK, NEW w \in Workers, NEW t, Formed(w, t), Statements(w, t)
    PROVE  /\ rooms' \in [Rooms -> {"unborn", "open", "deleted"}]
           /\ participant' \in [Users -> Row \cup {None}]
           /\ found' \in [Workers -> SUBSET Users]
           /\ ringing' \in [Connections -> Ring \cup {None}]
           /\ cleanup' \in [phase : {"idle", "waiting", "clearing"}, todo : SUBSET Rooms]
           /\ joined' \in [Connections -> Rooms \cup {None}]
           /\ view' \in [Connections -> View]
  <1> DEFINE Goal == /\ rooms' \in [Rooms -> {"unborn", "open", "deleted"}]
                     /\ participant' \in [Users -> Row \cup {None}]
                     /\ found' \in [Workers -> SUBSET Users]
                     /\ ringing' \in [Connections -> Ring \cup {None}]
                     /\ cleanup' \in [phase : {"idle", "waiting", "clearing"},
                                      todo : SUBSET Rooms]
                     /\ joined' \in [Connections -> Rooms \cup {None}]
                     /\ view' \in [Connections -> View]
  <1>p. participant \in [Users -> Row \cup {None}]
    BY DEF TypeOK
  <1>t. t.room \in Rooms
    BY DEF Formed
  <1>u. /\ rooms \in [Rooms -> {"unborn", "open", "deleted"}]
        /\ ringing \in [Connections -> Ring \cup {None}]
        /\ cleanup \in [phase : {"idle", "waiting", "clearing"}, todo : SUBSET Rooms]
        /\ joined \in [Connections -> Rooms \cup {None}]
        /\ view \in [Connections -> View]
        /\ found \in [Workers -> SUBSET Users]
    BY DEF TypeOK
  <1>1. CASE t.op = "call" /\ Call(w, t)
    <2>1. w \in Connections /\ t.other \in Users
      BY <1>1 DEF Formed
    <2>2. Owner[w] \in Users
      BY <2>1, OwnerAssumption
    <2> DEFINE row == [room |-> t.room, answering |-> None, caller |-> Owner[w], via |-> w]
               table == [participant EXCEPT ![t.other] = row]
               ring == [room |-> t.room, user |-> t.other, sent |-> FALSE, targets |-> {}]
    <2>3. row \in Row /\ ring \in Ring
      BY <1>t, <2>1, <2>2 DEF Row, Ring
    <2>4. table \in [Users -> Row \cup {None}]
      BY <1>p, <2>3
    <2>5. CASE InRoom(participant, Owner[w], t.room) /\ participant[t.other] = None
      <3>1. Changed(table, t.room) /\ ringing' = [ringing EXCEPT ![w] = ring]
        BY <1>1, <2>5 DEF Call
      <3> HIDE DEF table
      <3>2. /\ participant' \in [Users -> Row \cup {None}] /\ view' \in [Connections -> View]
           /\ found' \in [Workers -> SUBSET Users]
        BY <2>4, <3>1, ChangedType
      <3>3. ringing' \in [Connections -> Ring \cup {None}]
        BY <1>u, <2>3, <3>1
      <3> QED
        BY <1>1, <1>u, <3>2, <3>3 DEF Call
    <2>6. CASE ~(InRoom(participant, Owner[w], t.room) /\ participant[t.other] = None)
      BY <1>1, <1>u, <1>p, <2>6 DEF Call
    <2> QED
      BY <2>5, <2>6
  <1>2. CASE t.op = "call_failed" /\ CallFailed(w, t)
    <2>1. w \in Connections /\ t.other \in Users
      BY <1>2 DEF Formed
    <2> DEFINE table == [participant EXCEPT ![t.other] =
                            IF InRoom(participant, t.other, t.room) THEN None ELSE @]
    <2>2. table \in [Users -> Row \cup {None}]
      BY <1>p, <2>1
    <2>3. ringing' \in [Connections -> Ring \cup {None}]
      BY <1>2, <1>u DEF CallFailed
    <2>4. /\ participant' \in [Users -> Row \cup {None}] /\ view' \in [Connections -> View]
         /\ found' \in [Workers -> SUBSET Users]
      <3>1. rooms[t.room] = "open" => Changed(table, t.room)
        BY <1>2 DEF CallFailed
      <3>2. rooms[t.room] # "open" => UNCHANGED <<participant, found, view>>
        BY <1>2 DEF CallFailed
      <3> HIDE DEF table
      <3> QED
        BY <1>p, <1>u, <2>2, <3>1, <3>2, ChangedType
    <2> QED
      BY <1>2, <1>u, <2>3, <2>4 DEF CallFailed
  <1>3. CASE t.op = "cancel" /\ CancelCall(w, t)
    <2>1. t.other \in Users
      BY <1>3 DEF Formed
    <2> DEFINE table == [participant EXCEPT ![t.other] = None]
    <2>2. table \in [Users -> Row \cup {None}]
      BY <1>p, <2>1
    <2>3. Changed(table, t.room) \/ UNCHANGED <<participant, found, view>>
      BY <1>3 DEF CancelCall
    <2>4. /\ participant' \in [Users -> Row \cup {None}] /\ view' \in [Connections -> View]
         /\ found' \in [Workers -> SUBSET Users]
      <3> HIDE DEF table
      <3> QED
        BY <1>p, <1>u, <2>2, <2>3, ChangedType
    <2> QED
      BY <1>3, <1>u, <2>4 DEF CancelCall
  <1>4. CASE t.op = "join" /\ JoinRoom(w, t)
    <2>1. w \in Connections /\ Owner[w] \in Users
      BY <1>4, OwnerAssumption DEF Formed
    <2> DEFINE table == [participant EXCEPT ![Owner[w]].answering = w]
    <2>2. CASE InRoom(participant, Owner[w], t.room) /\ Pending(participant, Owner[w])
      <3>1. participant[Owner[w]] \in Row
        BY <1>p, <2>1, <2>2 DEF InRoom
      <3>2. [participant[Owner[w]] EXCEPT !.answering = w] \in Row
        BY <2>1, <3>1 DEF Row
      <3>3. table \in [Users -> Row \cup {None}]
        BY <1>p, <2>1, <3>2
      <3>4. Changed(table, t.room) /\ joined' = [joined EXCEPT ![w] = t.room]
        BY <1>4, <2>2 DEF JoinRoom
      <3> HIDE DEF table
      <3>5. /\ participant' \in [Users -> Row \cup {None}] /\ view' \in [Connections -> View]
           /\ found' \in [Workers -> SUBSET Users]
        BY <3>3, <3>4, ChangedType
      <3> QED
        BY <1>4, <1>u, <1>t, <3>4, <3>5 DEF JoinRoom
    <2>3. CASE ~(InRoom(participant, Owner[w], t.room) /\ Pending(participant, Owner[w]))
      BY <1>4, <1>u, <1>p, <2>3 DEF JoinRoom
    <2> QED
      BY <2>2, <2>3
  <1>5. CASE t.op = "rejoin" /\ RejoinRoom(w, t)
    <2>1. w \in Connections /\ Owner[w] \in Users
      BY <1>5, OwnerAssumption DEF Formed
    <2> DEFINE table == [participant EXCEPT ![Owner[w]].answering = w]
    <2>2. CASE InRoom(participant, Owner[w], t.room) /\ Answered(participant, Owner[w])
      <3>1. participant[Owner[w]] \in Row
        BY <1>p, <2>1, <2>2 DEF InRoom
      <3>2. [participant[Owner[w]] EXCEPT !.answering = w] \in Row
        BY <2>1, <3>1 DEF Row
      <3>3. table \in [Users -> Row \cup {None}]
        BY <1>p, <2>1, <3>2
      <3>4. Changed(table, t.room)
        BY <1>5, <2>2 DEF RejoinRoom
      <3> HIDE DEF table
      <3>5. /\ participant' \in [Users -> Row \cup {None}] /\ view' \in [Connections -> View]
           /\ found' \in [Workers -> SUBSET Users]
        BY <3>3, <3>4, ChangedType
      <3> QED
        BY <1>5, <1>u, <3>5 DEF RejoinRoom
    <2>3. CASE ~(InRoom(participant, Owner[w], t.room) /\ Answered(participant, Owner[w]))
      BY <1>5, <1>u, <1>p, <2>3 DEF RejoinRoom
    <2> QED
      BY <2>2, <2>3
  <1>6. CASE t.op = "clear" /\ ClearStale(w, t)
    <2> DEFINE left == Without(IF t.stage = "calls" THEN t.gone \cup found[w]
                               ELSE StaleUsers(t.room) \cup CalledBy(StaleUsers(t.room)))
    <2>1. left \in [Users -> Row \cup {None}]
      BY WithoutType
    <2>2. \/ UNCHANGED <<dbVars, view>>
          \/ /\ Changed(left, t.room)
             /\ rooms' \in {rooms, [rooms EXCEPT ![t.room] = "deleted"]}
      BY <1>6 DEF ClearStale
    <2>3. cleanup' = [cleanup EXCEPT !.todo = @ \ {t.room}]
      BY <1>6 DEF ClearStale
    <2>4. cleanup' \in [phase : {"idle", "waiting", "clearing"}, todo : SUBSET Rooms]
      BY <1>u, <2>3
    <2>5. /\ participant' \in [Users -> Row \cup {None}] /\ view' \in [Connections -> View]
          /\ found' \in [Workers -> SUBSET Users]
          /\ rooms' \in [Rooms -> {"unborn", "open", "deleted"}]
      <3> HIDE DEF left
      <3> QED
        BY <1>p, <1>u, <2>1, <2>2, ChangedType DEF dbVars
    <2> QED
      BY <1>6, <1>u, <2>4, <2>5 DEF ClearStale
  <1> QED
    BY <1>1, <1>2, <1>3, <1>4, <1>5, <1>6 DEF Statements
-----------------------------------------------------------------------------
LEMMA ServedType ==
    ASSUME TypeInv, NEW w \in Workers, Served(w)
    PROVE  /\ task' \in [Workers -> Task \cup {None}]
           /\ holder' \in [Rooms -> Workers \cup {None}]
           /\ task'[w] = None
           /\ \A x \in Workers \ {w} : task'[x] = task[x]
  BY DEF TypeInv, TypeOK, Served

(* A connection that neither has nor gets a task does not disturb OpInv.    *)
LEMMA TasksStay ==
    ASSUME TypeInv,
           task' \in [Workers -> Task \cup {None}],
           \A x \in Workers : task'[x] \in {None, task[x]},
           \A c \in Connections : task'[c] # None => conn'[c] = conn[c]
    PROVE  TaskInv' /\ OpInv'
  <1>1. TaskInv'
    BY DEF TypeInv, TaskInv, Formed
  <1>2. OpInv'
    BY TasksApart DEF TypeInv, OpInv
  <1> QED
    BY <1>1, <1>2

LEMMA RoomTransactionType ==
    ASSUME TypeInv, NEW w \in Workers, NEW t, Formed(w, t), t.op \in LockedOps,
           RoomTransaction(w, t)
    PROVE  TypeInv'
  <1>1. UNCHANGED <<build, conn, restarts, using>>
    BY DEF RoomTransaction
  <1>2. CASE Statements(w, t) /\ UNCHANGED <<task, holder>>
    <2>1. TypeOK'
      BY <1>1, <1>2, StatementsType DEF TypeInv, TypeOK
    <2>2. TaskInv' /\ OpInv'
      BY <1>1, <1>2 DEF TypeInv, TaskInv, OpInv, Formed
    <2> QED
      BY <2>1, <2>2 DEF TypeInv
  <1>3. CASE /\ task' = [task EXCEPT ![w] = t]
             /\ holder' = [holder EXCEPT ![t.room] = w]
             /\ UNCHANGED <<dbVars, ringing, cleanup, joined, view>>
    <2>1. t \in Task
      BY DEF Formed
    <2>2. /\ task' \in [Workers -> Task \cup {None}]
          /\ holder' \in [Rooms -> Workers \cup {None}]
          /\ \A x \in Workers : task'[x] = IF x = w THEN t ELSE task[x]
      BY <1>3, <2>1 DEF TypeInv, TypeOK
    <2>3. TypeOK'
      BY <1>1, <1>3, <2>2 DEF TypeInv, TypeOK, dbVars
    <2>4. TaskInv'
      BY <2>2 DEF TypeInv, TaskInv, Formed
    <2>5. OpInv'
      <3>1. t.op \notin {"expire", "offline"}
        BY TasksApart DEF LockedOps, OptionalOps
      <3>2. ASSUME NEW c \in Connections, task'[c] # None
            PROVE  /\ task'[c].op = "expire" => conn'[c] = "lost"
                   /\ task'[c].op = "offline" => conn'[c] = "offline"
        BY <1>1, <2>2, <3>1, <3>2, TasksApart DEF TypeInv, OpInv
      <3> QED
        BY <3>2 DEF OpInv
    <2> QED
      BY <2>3, <2>4, <2>5 DEF TypeInv
  <1> QED
    BY <1>2, <1>3 DEF RoomTransaction

LEMMA ProceedType ==
    ASSUME TypeInv, NEW w \in Workers, Proceed(w)
    PROVE  TypeInv'
  <1>1. Formed(w, task[w])
    BY DEF Proceed, TypeInv, TaskInv
  <1>2. /\ Statements(w, task[w]) /\ Served(w)
        /\ UNCHANGED <<build, conn, restarts, using>>
    BY DEF Proceed
  <1>3. TypeOK'
    BY <1>1, <1>2, StatementsType, ServedType DEF TypeInv, TypeOK
  <1>4. TaskInv' /\ OpInv'
    BY <1>2, ServedType, TasksStay
  <1> QED
    BY <1>3, <1>4 DEF TypeInv
-----------------------------------------------------------------------------
(* A transaction that gets ahead leaves everything else as it is.           *)
LEMMA TaskAdvances ==
    ASSUME TypeInv, NEW w \in Workers, NEW x \in Task, task[w] # None,
           x.op = task[w].op, x.room = task[w].room, x.other = task[w].other,
           task' = [task EXCEPT ![w] = x],
           found' \in [Workers -> SUBSET Users],
           holder' \in [Rooms -> Workers \cup {None}],
           UNCHANGED <<build, rooms, participant, conn, ringing, startVars, clientVars, view>>
    PROVE  TypeInv'
  <1>1. \A y \in Workers : task'[y] = IF y = w THEN x ELSE task[y]
    BY DEF TypeInv, TypeOK
  <1>2. TypeOK'
    BY DEF TypeInv, TypeOK, startVars, clientVars
  <1>3. TaskInv'
    BY <1>1 DEF TypeInv, TaskInv, Formed
  <1>4. OpInv'
    <2>1. ASSUME NEW c \in Connections, task'[c] # None
          PROVE  /\ task'[c].op = "expire" => conn'[c] = "lost"
                 /\ task'[c].op = "offline" => conn'[c] = "offline"
      BY <1>1, <2>1, TasksApart DEF TypeInv, OpInv
    <2> QED
      BY <2>1 DEF OpInv
  <1> QED
    BY <1>2, <1>3, <1>4 DEF TypeInv

LEMMA HasReadType ==
    ASSUME TypeOK, NEW t \in Task
    PROVE  /\ HasRead(t) \in Task
           /\ HasRead(t).op = t.op
           /\ HasRead(t).room = t.room
           /\ HasRead(t).other = t.other
           /\ HasRead(t).gone = t.gone
           /\ HasRead(t).snapshot = RoomView(Without(t.gone), t.room)
  <1> DEFINE seen == RoomView(Without(t.gone), t.room)
  <1>1. seen \in View
    BY WithoutType, RoomViewType
  <1>2. HasRead(t) = [t EXCEPT !.stage = "read", !.snapshot = seen]
    BY DEF HasRead
  <1> HIDE DEF seen
  <1>3. /\ HasRead(t) \in Task
        /\ HasRead(t).op = t.op
        /\ HasRead(t).room = t.room
        /\ HasRead(t).other = t.other
        /\ HasRead(t).gone = t.gone
        /\ HasRead(t).snapshot = seen
    BY <1>1, <1>2 DEF Task, Stages
  <1> QED
    BY <1>3 DEF seen

LEMMA DeleteStaleType ==
    ASSUME TypeInv, NEW w \in Workers, DeleteStale(w)
    PROVE  TypeInv'
  <1> DEFINE stale == StaleUsers(task[w].room)
             x == [task[w] EXCEPT !.stage = "calls", !.gone = stale]
  <1>1. task[w] \in Task /\ task[w] # None
    BY DEF DeleteStale, TypeInv, TaskInv, Formed
  <1>2. stale \in SUBSET Users /\ CalledBy(stale) \in SUBSET Users
    BY DEF StaleUsers, CalledBy
  <1>3. /\ task' = [task EXCEPT ![w] = x]
        /\ found' = [found EXCEPT ![w] = CalledBy(stale)]
        /\ UNCHANGED <<build, rooms, participant, conn, ringing, holder, startVars,
                       clientVars, view>>
    BY DEF DeleteStale
  <1> HIDE DEF stale
  <1>4. /\ x \in Task /\ x.op = task[w].op /\ x.room = task[w].room
        /\ x.other = task[w].other
    BY <1>1, <1>2 DEF Task, Stages
  <1>5. /\ found' \in [Workers -> SUBSET Users]
        /\ holder' \in [Rooms -> Workers \cup {None}]
    BY <1>2, <1>3 DEF TypeInv, TypeOK
  <1> HIDE DEF x
  <1> QED
    BY <1>1, <1>3, <1>4, <1>5, TaskAdvances
-----------------------------------------------------------------------------
LEMMA FoundType ==
    ASSUME TypeOK, NEW c \in Connections, NEW t, t.op \in OptionalOps
    PROVE  /\ Found(c, t) \subseteq Users
           /\ Found(c, t) # {} => /\ Found(c, t) = {Owner[c]}
                                  /\ participant[Owner[c]] # None
                                  /\ participant[Owner[c]].room \in Rooms
  BY OwnerAssumption, RowParts DEF TypeOK, Found, OptionalOps, AnsweredBy, Pending

(* What a transaction deletes, whose statements are one step.               *)
Gone(c, t) == IF Leaves(t) THEN Found(c, t) \cup CalledBy(Found(c, t)) ELSE Found(c, t)

LEMMA ExecutedFormed ==
    ASSUME TypeOK, NEW c \in Connections, NEW t \in Task, t.op \in OptionalOps,
           Found(c, t) # {}
    PROVE  /\ Formed(c, Executed(c, t))
           /\ Executed(c, t).op = t.op
           /\ Executed(c, t).gone = Gone(c, t)
           /\ Executed(c, t).room = participant[Owner[c]].room
           /\ Executed(c, t).snapshot =
                  RoomView(Without(Gone(c, t)), participant[Owner[c]].room)
  <1> DEFINE r == participant[Owner[c]].room
             G == Gone(c, t)
             y == [t EXCEPT !.room = r, !.gone = G]
  <1>1. G \in SUBSET Users /\ r \in Rooms
    BY FoundType DEF Gone, CalledBy
  <1>2. Executed(c, t) = HasRead(y)
    BY DEF Executed, Gone
  <1> HIDE DEF G, r
  <1>3. y \in Task /\ y.op = t.op /\ y.room = r /\ y.gone = G
    BY <1>1 DEF Task
  <1> HIDE DEF y
  <1>4. /\ Executed(c, t) \in Task
        /\ Executed(c, t).op = t.op
        /\ Executed(c, t).gone = G
        /\ Executed(c, t).room = r
        /\ Executed(c, t).snapshot = RoomView(Without(G), r)
    BY <1>2, <1>3, HasReadType
  <1>5. t.op \notin {"call", "call_failed", "cancel"}
    BY DEF OptionalOps
  <1>6. t.op # "clear"
    BY DEF OptionalOps
  <1> QED
    BY <1>1, <1>4, <1>5, <1>6 DEF Formed, r, G

(* Which states of a connection follow an operation that no mutex guards.   *)
LEMMA AfterOptionalType ==
    ASSUME TypeOK, NEW c \in Connections, NEW t, AfterOptional(c, t),
           t.op \in {"expire", "offline"} => conn[c] # "live",
           UNCHANGED using
    PROVE  /\ conn' \in [Connections -> {"unused", "live", "lost", "left", "offline",
                                         "closed", "stale"}]
           /\ using' \subseteq {d \in Connections : conn'[d] = "live"}
           /\ \A d \in Connections \ {c} : conn'[d] = conn[d]
           /\ t.op \notin {"expire", "offline"} => conn' = conn
  BY DEF TypeOK, AfterOptional

LEMMA CommitType ==
    ASSUME TypeOK, NEW c \in Connections, NEW t, Formed(c, t), Commit(c, t)
    PROVE  /\ rooms' \in [Rooms -> {"unborn", "open", "deleted"}]
           /\ participant' \in [Users -> Row \cup {None}]
           /\ found' \in [Workers -> SUBSET Users]
           /\ view' \in [Connections -> View]
  <1>1. t.snapshot \in View
    BY DEF Formed, Task
  <1>2. view' \in [Connections -> View]
    BY <1>1 DEF Commit, RoomUpdated, TypeOK
  <1>3. /\ participant' \in [Users -> Row \cup {None}]
        /\ found' \in [Workers -> SUBSET Users]
    BY WithoutType, WriteType DEF Commit
  <1>4. rooms' \in [Rooms -> {"unborn", "open", "deleted"}]
    BY DEF Commit, TypeOK
  <1> QED
    BY <1>2, <1>3, <1>4

LEMMA OptionalTransactionType ==
    ASSUME TypeInv, NEW c \in Connections, NEW t \in Task, t.op \in OptionalOps,
           t.op = "expire" => conn[c] = "lost",
           t.op = "offline" => conn[c] = "offline",
           joined' \in [Connections -> Rooms \cup {None}],
           OptionalRoomTransaction(c, t)
    PROVE  TypeInv'
  <1> DEFINE x == Executed(c, t)
             y == [t EXCEPT !.room = participant[Owner[c]].room, !.stage = "found"]
  <1>1. TypeOK /\ UNCHANGED <<build, ringing, holder, cleanup, restarts, using>>
    BY DEF OptionalRoomTransaction, TypeInv, startVars
  <1>2. task[c] = None
    BY DEF OptionalRoomTransaction
  <1>3. CASE AfterOptional(c, t) /\ UNCHANGED <<dbVars, view, task>>
    <2>1. TypeOK'
      BY <1>1, <1>3, AfterOptionalType DEF TypeOK, dbVars
    <2>2. \A d \in Connections : task'[d] # None => conn'[d] = conn[d]
      BY <1>1, <1>2, <1>3, AfterOptionalType
    <2>3. task' \in [Workers -> Task \cup {None}] /\ \A v \in Workers : task'[v] = task[v]
      BY <1>1, <1>3 DEF TypeOK
    <2> QED
      BY <2>1, <2>2, <2>3, TasksStay DEF TypeInv
  <1>4. CASE /\ Found(c, t) # {}
             /\ Commit(c, x)
             /\ UNCHANGED task
    <2>1. Formed(c, x) /\ x.op = t.op
      BY <1>1, <1>4, ExecutedFormed
    <2>2. AfterOptional(c, x)
      BY <1>4 DEF Commit
    <2> HIDE DEF x
    <2>3. TypeOK'
      BY <1>1, <1>4, <2>1, <2>2, CommitType, AfterOptionalType DEF TypeOK
    <2>4. \A d \in Connections : task'[d] # None => conn'[d] = conn[d]
      BY <1>1, <1>2, <1>4, <2>1, <2>2, AfterOptionalType
    <2>5. task' \in [Workers -> Task \cup {None}] /\ \A v \in Workers : task'[v] = task[v]
      BY <1>1, <1>4 DEF TypeOK
    <2> QED
      BY <2>3, <2>4, <2>5, TasksStay DEF TypeInv
  <1>5. CASE /\ Found(c, t) # {}
             /\ task' = [task EXCEPT ![c] = y]
             /\ found' = [found EXCEPT ![c] = Found(c, t)]
             /\ UNCHANGED <<rooms, participant, conn, view>>
    <2>1. Found(c, t) \in SUBSET Users /\ participant[Owner[c]].room \in Rooms
      BY <1>1, <1>5, FoundType
    <2>2. y \in Task /\ c \in Workers /\ y.op = t.op /\ y.room \in Rooms
      BY <2>1, TasksApart DEF Task, Stages
    <2>f. Formed(c, y)
      BY <2>2 DEF Formed, OptionalOps
    <2> HIDE DEF y
    <2>3. /\ task' \in [Workers -> Task \cup {None}]
          /\ \A v \in Workers : task'[v] = IF v = c THEN y ELSE task[v]
      BY <1>1, <1>5, <2>2 DEF TypeOK
    <2>4. found' \in [Workers -> SUBSET Users]
      BY <1>1, <1>5, <2>1 DEF TypeOK
    <2>5. TypeOK'
      BY <1>1, <1>5, <2>3, <2>4 DEF TypeOK
    <2>6. TaskInv'
      BY <2>f, <2>3 DEF TypeInv, TaskInv, Formed
    <2>7. OpInv'
      <3>1. ASSUME NEW d \in Connections, task'[d] # None
            PROVE  /\ task'[d].op = "expire" => conn'[d] = "lost"
                   /\ task'[d].op = "offline" => conn'[d] = "offline"
        BY <1>5, <2>2, <2>3, <3>1, TasksApart DEF TypeInv, OpInv
      <3> QED
        BY <3>1 DEF OpInv
    <2> QED
      BY <2>5, <2>6, <2>7 DEF TypeInv
  <1> QED
    BY <1>3, <1>4, <1>5 DEF OptionalRoomTransaction

LEMMA DeleteRowType ==
    ASSUME TypeInv, NEW c \in Connections, DeleteRow(c) \/ DeleteCalls(c)
    PROVE  TypeInv'
  <1>t. TypeOK /\ c \in Workers
    BY TasksApart DEF TypeInv
  <1>1. task[c] # None /\ task[c] \in Task /\ found[c] \in SUBSET Users
    BY <1>t DEF DeleteRow, DeleteCalls, TypeOK
  <1>3. UNCHANGED <<build, rooms, participant, conn, ringing, holder, startVars,
                    clientVars, view>>
    BY DEF DeleteRow, DeleteCalls
  <1>4. CalledBy({Owner[c]}) \in SUBSET Users
    BY DEF CalledBy
  <1> DEFINE x == [task[c] EXCEPT !.gone = found[c]]
             y == [x EXCEPT !.stage = "calls"]
             z == [task[c] EXCEPT !.gone = @ \cup found[c]]
  <1>5. /\ x \in Task /\ x.op = task[c].op /\ x.room = task[c].room
        /\ x.other = task[c].other
    BY <1>1 DEF Task
  <1>6. /\ y \in Task /\ y.op = task[c].op /\ y.room = task[c].room
        /\ y.other = task[c].other
    BY <1>1 DEF Task, Stages
  <1>7. /\ z \in Task /\ z.op = task[c].op /\ z.room = task[c].room
        /\ z.other = task[c].other
    BY <1>1 DEF Task
  <1>8. CASE DeleteRow(c)
    <2>1. \/ /\ task' = [task EXCEPT ![c] = y]
             /\ found' = [found EXCEPT ![c] = CalledBy({Owner[c]})]
          \/ /\ task' = [task EXCEPT ![c] = HasRead(x)]
             /\ found' = [found EXCEPT ![c] = {}]
      BY <1>8 DEF DeleteRow
    <2> HIDE DEF x, y, z
    <2> DEFINE h == HasRead(x)
    <2>2. /\ h \in Task /\ h.op = task[c].op /\ h.room = task[c].room
          /\ h.other = task[c].other
      BY <1>t, <1>5, HasReadType
    <2>3. /\ found' \in [Workers -> SUBSET Users]
          /\ holder' \in [Rooms -> Workers \cup {None}]
      BY <1>t, <1>3, <1>4, <2>1 DEF TypeOK
    <2> HIDE DEF h
    <2> QED
      <3>1. CASE task' = [task EXCEPT ![c] = y]
        BY <1>t, <1>1, <1>3, <1>6, <2>3, <3>1, TaskAdvances
      <3>2. CASE task' = [task EXCEPT ![c] = h]
        BY <1>t, <1>1, <1>3, <2>2, <2>3, <3>2, TaskAdvances
      <3> QED
        BY <2>1, <3>1, <3>2 DEF h
  <1>9. CASE DeleteCalls(c)
    <2>1. /\ task' = [task EXCEPT ![c] = HasRead(z)]
          /\ found' = [found EXCEPT ![c] = {}]
      BY <1>9 DEF DeleteCalls
    <2> HIDE DEF x, y, z
    <2> DEFINE h == HasRead(z)
    <2>2. /\ h \in Task /\ h.op = task[c].op /\ h.room = task[c].room
          /\ h.other = task[c].other
      BY <1>t, <1>7, HasReadType
    <2>3. /\ found' \in [Workers -> SUBSET Users]
          /\ holder' \in [Rooms -> Workers \cup {None}]
      BY <1>t, <1>3, <1>4, <2>1 DEF TypeOK
    <2> HIDE DEF h
    <2> QED
      <3>1. task' = [task EXCEPT ![c] = h]
        BY <2>1 DEF h
      <3> QED
        BY <1>t, <1>1, <1>3, <2>2, <2>3, <3>1, TaskAdvances
  <1> QED
    BY <1>8, <1>9

LEMMA EndOfOptional ==
    ASSUME TypeInv, NEW c \in Connections, task[c] # None,
           AfterOptional(c, task[c]), Served(c),
           rooms' \in [Rooms -> {"unborn", "open", "deleted"}],
           participant' \in [Users -> Row \cup {None}],
           found' \in [Workers -> SUBSET Users],
           view' \in [Connections -> View],
           UNCHANGED <<build, ringing, startVars, clientVars>>
    PROVE  TypeInv'
  <1>1. TypeOK /\ c \in Workers
    BY TasksApart DEF TypeInv
  <1>2. UNCHANGED <<build, ringing, cleanup, restarts, using, joined>>
    BY DEF startVars, clientVars
  <1>4. task[c].op \in {"expire", "offline"} => conn[c] # "live"
    BY DEF TypeInv, OpInv
  <1>5. TypeOK'
    BY <1>1, <1>2, <1>4, ServedType, AfterOptionalType DEF TypeOK
  <1>6. \A d \in Connections : task'[d] # None => conn'[d] = conn[d]
    BY <1>1, <1>2, <1>4, ServedType, AfterOptionalType, TasksApart
  <1>7. TaskInv' /\ OpInv'
    BY <1>1, <1>6, ServedType, TasksStay
  <1> QED
    BY <1>5, <1>7 DEF TypeInv

LEMMA DeleteRoomType ==
    ASSUME TypeInv, NEW c \in Connections, DeleteRoom(c)
    PROVE  TypeInv'
  <1>1. TypeOK /\ c \in Workers /\ task[c] # None /\ task[c] \in Task
    BY TasksApart DEF DeleteRoom, TypeInv, TypeOK
  <1>2. UNCHANGED <<build, dbVars, ringing, startVars, clientVars, view>>
    BY DEF DeleteRoom
  <1>3. CASE Served(c) /\ AfterOptional(c, task[c])
    BY <1>1, <1>2, <1>3, EndOfOptional DEF TypeOK, dbVars
  <1>4. CASE /\ task' = [task EXCEPT ![c].stage = "deleted"]
             /\ holder' = [holder EXCEPT ![task[c].room] = None]
             /\ UNCHANGED conn
    <2> DEFINE x == [task[c] EXCEPT !.stage = "deleted"]
    <2>1. /\ x \in Task /\ x.op = task[c].op /\ x.room = task[c].room
          /\ x.other = task[c].other
      BY <1>1 DEF Task, Stages
    <2>2. task' = [task EXCEPT ![c] = x]
      BY <1>4
    <2>3. /\ found' \in [Workers -> SUBSET Users]
          /\ holder' \in [Rooms -> Workers \cup {None}]
      BY <1>1, <1>2, <1>4 DEF TypeOK, dbVars
    <2>4. UNCHANGED <<build, rooms, participant, conn, ringing, startVars, clientVars, view>>
      BY <1>2, <1>4 DEF dbVars
    <2> HIDE DEF x
    <2> QED
      BY <1>1, <2>1, <2>2, <2>3, <2>4, TaskAdvances
  <1> QED
    BY <1>3, <1>4 DEF DeleteRoom

LEMMA ProceedOptionalType ==
    ASSUME TypeInv, NEW c \in Connections, ProceedOptional(c)
    PROVE  TypeInv'
  <1>1. TypeOK /\ c \in Workers /\ task[c] # None /\ Formed(c, task[c])
    BY TasksApart DEF ProceedOptional, TypeInv, TaskInv
  <1>2. /\ Commit(c, task[c]) /\ Served(c)
        /\ UNCHANGED <<build, ringing, startVars, clientVars>>
    BY DEF ProceedOptional
  <1>3. AfterOptional(c, task[c])
    BY <1>2 DEF Commit
  <1> QED
    BY <1>1, <1>2, <1>3, CommitType, EndOfOptional

LEMMA ContinuesType ==
    ASSUME TypeInv, NEW c \in Connections, Continues(c)
    PROVE  TypeInv'
  BY DeleteRowType, DeleteRoomType, ProceedOptionalType DEF Continues
-----------------------------------------------------------------------------
(* The arguments that clients and timers give to transactions.              *)
LEMMA AskFormed ==
    ASSUME NEW w \in Workers, NEW op \in LockedOps, NEW r \in Rooms,
           NEW u \in Users \cup {None},
           op # "clear" => w \in Connections,
           op \in {"call", "call_failed", "cancel"} => u \in Users
    PROVE  Formed(w, Ask(op, r, u)) /\ Ask(op, r, u).op = op /\ Ask(op, r, u).room = r
             /\ Ask(op, r, u).other = u
  BY DEF Ask, Formed, Task, View, Stages

LEMMA AskOptional ==
    ASSUME NEW op \in OptionalOps, NEW r \in Rooms \cup {None}
    PROVE  Ask(op, r, None) \in Task /\ Ask(op, r, None).op = op
             /\ Ask(op, r, None).room = r
  BY DEF Ask, Task, View, Stages

LEMMA RequestsType ==
    ASSUME TypeInv, NEW c \in Connections, Requests(c)
    PROVE  TypeInv'
  <1>t. TypeOK /\ c \in Workers /\ Owner[c] \in Users
    BY TasksApart, OwnerAssumption DEF TypeInv
  <1>j. joined \in [Connections -> Rooms \cup {None}]
    BY <1>t DEF TypeOK
  <1>p. Pending(participant, Owner[c]) => participant[Owner[c]].room \in Rooms
    BY <1>t, RowParts DEF TypeOK, Pending
  <1>1. CASE CreateRoom(c)
    <2> DEFINE r == CHOOSE x \in Rooms : rooms[x] = "unborn"
               row == [room |-> r, answering |-> c, caller |-> Owner[c], via |-> c]
               table == [participant EXCEPT ![Owner[c]] = row]
    <2>1. r \in Rooms
      BY <1>1 DEF CreateRoom
    <2>2. /\ rooms' = [rooms EXCEPT ![r] = "open"]
          /\ Changed(table, r)
          /\ joined' = [joined EXCEPT ![c] = r]
          /\ UNCHANGED <<build, conn, task, ringing, holder, cleanup, restarts, using>>
      BY <1>1 DEF CreateRoom, startVars
    <2>3. row \in Row
      BY <1>t, <2>1 DEF Row
    <2>4. table \in [Users -> Row \cup {None}]
      BY <1>t, <2>3 DEF TypeOK
    <2> HIDE DEF r, table
    <2>5. /\ participant' \in [Users -> Row \cup {None}]
          /\ found' \in [Workers -> SUBSET Users]
          /\ view' \in [Connections -> View]
      BY <1>t, <2>2, <2>4, ChangedType
    <2>6. TypeOK'
      BY <1>t, <2>1, <2>2, <2>5 DEF TypeOK
    <2>7. TaskInv' /\ OpInv'
      BY <2>2 DEF TypeInv, TaskInv, OpInv, Formed
    <2> QED
      BY <2>6, <2>7 DEF TypeInv
  <1>2. CASE AcceptIncoming(c)
    <2>1. Formed(c, Ask("join", participant[Owner[c]].room, None))
      BY <1>t, <1>p, <1>2, AskFormed DEF AcceptIncoming, LockedOps
    <2> QED
      BY <1>t, <1>2, <2>1, RoomTransactionType DEF AcceptIncoming, Ask, LockedOps
  <1>3. CASE Rejoin(c)
    <2>1. Formed(c, Ask("rejoin", joined[c], None))
      BY <1>t, <1>j, <1>3, AskFormed DEF Rejoin, LockedOps
    <2> QED
      BY <1>t, <1>3, <2>1, RoomTransactionType DEF Rejoin, Ask, LockedOps
  <1>4. CASE HangUp(c)
    <2>1. Ask("leave", None, None) \in Task /\ Ask("leave", None, None).op = "leave"
      BY AskOptional DEF OptionalOps
    <2>2. joined' \in [Connections -> Rooms \cup {None}]
      BY <1>j, <1>4 DEF HangUp
    <2> QED
      BY <1>4, <2>1, <2>2, OptionalTransactionType DEF HangUp, OptionalOps
  <1>5. CASE DeclineIncoming(c)
    <2> DEFINE t == Ask("decline", participant[Owner[c]].room, None)
    <2>1. t \in Task /\ t.op = "decline"
      BY <1>p, <1>5, AskOptional DEF DeclineIncoming, OptionalOps
    <2>2. joined' \in [Connections -> Rooms \cup {None}] /\ OptionalRoomTransaction(c, t)
      BY <1>j, <1>5 DEF DeclineIncoming
    <2> HIDE DEF t
    <2> QED
      BY <2>1, <2>2, OptionalTransactionType DEF OptionalOps
  <1>6. ASSUME NEW u \in Users, Invite(c, u) \/ CancelInvite(c, u)
        PROVE  TypeInv'
    <2>1. joined[c] \in Rooms
      BY <1>j, <1>6 DEF Invite, CancelInvite
    <2>2. CASE Invite(c, u)
      <3>1. Formed(c, Ask("call", joined[c], u))
        BY <1>t, <2>1, AskFormed DEF LockedOps
      <3> QED
        BY <1>t, <2>2, <3>1, RoomTransactionType DEF Invite, Ask, LockedOps
    <2>3. CASE CancelInvite(c, u)
      <3>1. Formed(c, Ask("cancel", joined[c], u))
        BY <1>t, <2>1, AskFormed DEF LockedOps
      <3> QED
        BY <1>t, <2>3, <3>1, RoomTransactionType DEF CancelInvite, Ask, LockedOps
    <2> QED
      BY <1>6, <2>2, <2>3
  <1> QED
    BY <1>1, <1>2, <1>3, <1>4, <1>5, <1>6 DEF Requests

LEMMA RingType ==
    ASSUME TypeInv, NEW c \in Connections,
           RingUser(c) \/ RingAnswered(c) \/ RingRefused(c) \/ RingFails(c)
    PROVE  TypeInv'
  <1>t. TypeOK /\ c \in Workers
    BY TasksApart DEF TypeInv
  <1>r. ringing[c] # None => ringing[c] \in Ring
    BY <1>t DEF TypeOK
  <1>1. CASE RingUser(c)
    <2> DEFINE ring == [ringing[c] EXCEPT !.sent = TRUE,
                                          !.targets = UserConnections(ringing[c].user)]
    <2>1. ring \in Ring
      <3>1. UserConnections(ringing[c].user) \in SUBSET Connections
        BY DEF UserConnections
      <3> QED
        BY <1>r, <1>1, <3>1 DEF RingUser, Ring
    <2>2. ringing' = [ringing EXCEPT ![c] = ring]
      BY <1>1 DEF RingUser
    <2>3. ringing' \in [Connections -> Ring \cup {None}]
      <3> HIDE DEF ring
      <3> QED
        BY <1>t, <2>1, <2>2 DEF TypeOK
    <2>4. UNCHANGED <<build, dbVars, conn, task, holder, startVars, clientVars, view>>
      BY <1>1 DEF RingUser
    <2> QED
      BY <2>3, <2>4 DEF TypeInv, TypeOK, TaskInv, OpInv, Formed, dbVars, startVars, clientVars
  <1>2. CASE RingAnswered(c)
    BY <1>2 DEF RingAnswered, TypeInv, TypeOK, TaskInv, OpInv, Formed, dbVars, startVars,
       clientVars
  <1>3. CASE RingFails(c)
    <2>1. ringing[c].room \in Rooms /\ ringing[c].user \in Users
      BY <1>r, <1>3 DEF RingFails, Ring
    <2>2. Formed(c, Ask("call_failed", ringing[c].room, ringing[c].user))
      BY <1>t, <2>1, AskFormed DEF LockedOps
    <2> QED
      BY <1>t, <1>3, <2>2, RoomTransactionType DEF RingFails, Ask, LockedOps
  <1>4. CASE RingRefused(c)
    <2>1. PICK d \in ringing[c].targets \cap using :
              ringing' = [ringing EXCEPT ![c].targets = @ \ {d}]
      BY <1>4 DEF RingRefused
    <2> DEFINE ring == [ringing[c] EXCEPT !.targets = @ \ {d}]
    <2>2. ring \in Ring
      BY <1>r, <1>4 DEF RingRefused, Ring
    <2>3. ringing' = [ringing EXCEPT ![c] = ring]
      BY <2>1
    <2>4. ringing' \in [Connections -> Ring \cup {None}]
      <3> HIDE DEF ring
      <3> QED
        BY <1>t, <2>2, <2>3 DEF TypeOK
    <2>5. UNCHANGED <<build, dbVars, conn, task, holder, startVars, clientVars, view>>
      BY <1>4 DEF RingRefused
    <2> QED
      BY <2>4, <2>5 DEF TypeInv, TypeOK, TaskInv, OpInv, Formed, dbVars, startVars, clientVars
  <1> QED
    BY <1>1, <1>2, <1>3, <1>4

LEMMA EndsType ==
    ASSUME TypeInv,
           NEW c \in Connections, Quit(c) \/ Lose(c) \/ Outlives(c)
    PROVE  TypeInv'
  <1>t. TypeOK /\ c \in Workers
    BY TasksApart DEF TypeInv
  <1>1. CASE Quit(c)
    BY <1>1 DEF Quit, TypeInv, TypeOK, TaskInv, OpInv, Formed, dbVars, startVars
  <1>2. CASE Lose(c)
    <2>1. Served(c) /\ UNCHANGED <<build, rooms, participant, startVars, joined>>
      BY <1>2 DEF Lose
    <2>2. /\ conn' = [conn EXCEPT ![c] = "lost"]
          /\ found' = [found EXCEPT ![c] = {}]
          /\ ringing' = [ringing EXCEPT ![c] = None]
          /\ using' = using \ {c}
          /\ view' = [view EXCEPT ![c] = {}]
      BY <1>2 DEF Lose
    <2>3. TypeOK'
      BY <1>t, <2>1, <2>2, ServedType DEF TypeOK, View, startVars
    <2>4. \A d \in Connections : task'[d] # None => conn'[d] = conn[d]
      BY <1>t, <2>1, <2>2, ServedType DEF TypeOK
    <2>5. TaskInv' /\ OpInv'
      BY <1>t, <2>1, <2>4, ServedType, TasksStay
    <2> QED
      BY <2>3, <2>5 DEF TypeInv
  <1>3. CASE Expire(c)
    <2> DEFINE t == Ask("expire", None, None)
    <2>1. t \in Task /\ t.op = "expire"
      BY AskOptional DEF OptionalOps
    <2>2. /\ joined' \in [Connections -> Rooms \cup {None}]
          /\ OptionalRoomTransaction(c, t) /\ conn[c] = "lost"
      BY <1>t, <1>3 DEF Expire, TypeOK
    <2> HIDE DEF t
    <2> QED
      BY <2>1, <2>2, OptionalTransactionType DEF OptionalOps
  <1>4. CASE CheckOnline(c)
    <2>1. /\ conn[c] = "left"
          /\ conn' \in {[conn EXCEPT ![c] = "closed"], [conn EXCEPT ![c] = "offline"]}
          /\ UNCHANGED <<build, dbVars, task, ringing, holder, startVars, clientVars, view>>
      BY <1>4 DEF CheckOnline
    <2>2. TypeOK'
      BY <1>t, <2>1 DEF TypeOK, dbVars, startVars, clientVars
    <2>3. TaskInv'
      BY <2>1 DEF TypeInv, TaskInv, Formed
    <2>4. OpInv'
      <3>1. ASSUME NEW d \in Connections, task'[d] # None
            PROVE  /\ task'[d].op = "expire" => conn'[d] = "lost"
                   /\ task'[d].op = "offline" => conn'[d] = "offline"
        BY <1>t, <2>1, <3>1 DEF TypeInv, OpInv, TypeOK
      <3> QED
        BY <3>1 DEF OpInv
    <2> QED
      BY <2>2, <2>3, <2>4 DEF TypeInv
  <1>5. CASE DeclineOffline(c)
    <2> DEFINE t == Ask("offline", None, None)
    <2>1. t \in Task /\ t.op = "offline"
      BY AskOptional DEF OptionalOps
    <2>2. /\ joined' \in [Connections -> Rooms \cup {None}]
          /\ OptionalRoomTransaction(c, t) /\ conn[c] = "offline"
      BY <1>t, <1>5 DEF DeclineOffline, TypeOK
    <2> HIDE DEF t
    <2> QED
      BY <2>1, <2>2, OptionalTransactionType DEF OptionalOps
  <1> QED
    BY <1>1, <1>2, <1>3, <1>4, <1>5 DEF Outlives

LEMMA ConnectType ==
    ASSUME TypeInv, NEW u \in Users, NEW old \in Connections \cup {None}, Connect(u, old)
    PROVE  TypeInv'
  <1> DEFINE c == CHOOSE d \in Connections : Owner[d] = u /\ conn[d] = "unused"
  <1>t. TypeOK
    BY DEF TypeInv
  <1>1. c \in Connections /\ conn[c] = "unused"
    BY DEF Connect
  <1>2. /\ old # None => conn[old] # "unused"
        /\ conn' = [conn EXCEPT ![c] = "live"]
        /\ using' = (using \ {old}) \cup {c}
        /\ joined' = [d \in Connections |->
                         CASE d = old -> None
                           [] d = c /\ old # None -> joined[old]
                           [] OTHER -> joined[d]]
        /\ UNCHANGED <<build, dbVars, task, ringing, holder, startVars, view>>
    BY DEF Connect
  <1> HIDE DEF c
  <1>3. joined' \in [Connections -> Rooms \cup {None}]
    BY <1>t, <1>2 DEF TypeOK
  <1>4. TypeOK'
    BY <1>t, <1>1, <1>2, <1>3 DEF TypeOK, dbVars, startVars
  <1>5. TaskInv'
    BY <1>2 DEF TypeInv, TaskInv, Formed
  <1>6. OpInv'
    <2>1. ASSUME NEW d \in Connections, task'[d] # None
          PROVE  /\ task'[d].op = "expire" => conn'[d] = "lost"
                 /\ task'[d].op = "offline" => conn'[d] = "offline"
      BY <1>t, <1>1, <1>2, <2>1 DEF TypeInv, OpInv, TypeOK
    <2> QED
      BY <2>1 DEF OpInv
  <1> QED
    BY <1>4, <1>5, <1>6 DEF TypeInv

LEMMA RestartType ==
    ASSUME TypeInv, Restart
    PROVE  TypeInv'
  <1>1. TypeOK'
    BY MaxRestartsAssumption DEF Restart, TypeInv, TypeOK, View
  <1>2. /\ \A x \in Workers : task'[x] = None
        /\ task' \in [Workers -> Task \cup {None}]
    BY DEF Restart
  <1>3. TaskInv' /\ OpInv'
    BY <1>2, TasksApart DEF TaskInv, OpInv
  <1> QED
    BY <1>1, <1>3 DEF TypeInv

LEMMA CleanupType ==
    ASSUME TypeInv, Cleanup
    PROVE  TypeInv'
  <1>t. TypeOK
    BY DEF TypeInv
  <1>1. CASE StartCleanup
    BY <1>1 DEF StartCleanup, TypeInv, TypeOK, TaskInv, OpInv, Formed, dbVars, clientVars
  <1>2. ASSUME NEW r \in Rooms, ClearRoom(r)
        PROVE  TypeInv'
    <2>1. Formed(Starter, Ask("clear", r, None))
      BY AskFormed, TasksApart DEF LockedOps
    <2> QED
      BY <1>2, <2>1, RoomTransactionType, TasksApart DEF ClearRoom, Ask, LockedOps
  <1>3. CASE FinishCleanup
    <2> DEFINE gone == UNION {StaleUsers(r) : r \in Rooms}
    <2>1. /\ Write(Without(gone))
          /\ cleanup' = [cleanup EXCEPT !.phase = "idle"]
          /\ UNCHANGED <<build, rooms, conn, task, ringing, holder, restarts, clientVars, view>>
      BY <1>3 DEF FinishCleanup
    <2> HIDE DEF gone
    <2>2. /\ participant' \in [Users -> Row \cup {None}]
          /\ found' \in [Workers -> SUBSET Users]
      BY <1>t, <2>1, WithoutType, WriteType
    <2>3. TypeOK'
      BY <1>t, <2>1, <2>2 DEF TypeOK, clientVars
    <2> QED
      BY <2>1, <2>3 DEF TypeInv, TaskInv, OpInv, Formed
  <1> QED
    BY <1>1, <1>2, <1>3 DEF Cleanup

LEMMA TypeStep ==
    ASSUME TypeInv, [Next]_vars
    PROVE  TypeInv'
  <1>1. ASSUME NEW w \in Workers, DeleteStale(w) \/ Proceed(w)
        PROVE  TypeInv'
    BY <1>1, DeleteStaleType, ProceedType
  <1>2. ASSUME NEW c \in Connections,
               \/ Continues(c) \/ Requests(c)
               \/ RingUser(c) \/ RingAnswered(c) \/ RingRefused(c) \/ RingFails(c)
               \/ Quit(c) \/ Lose(c) \/ Outlives(c)
        PROVE  TypeInv'
    BY <1>2, ContinuesType, RequestsType, RingType, EndsType
  <1>3. ASSUME NEW u \in Users, NEW old \in Connections \cup {None}, Connect(u, old)
        PROVE  TypeInv'
    BY <1>3, ConnectType
  <1>4. CASE Restart
    BY <1>4, RestartType
  <1>5. CASE Cleanup
    BY <1>5, CleanupType
  <1>6. CASE UNCHANGED vars
    BY <1>6 DEF vars, dbVars, clientVars, startVars, TypeInv, TypeOK, TaskInv, OpInv, Formed
  <1> QED
    BY <1>1, <1>2, <1>3, <1>4, <1>5, <1>6 DEF Next

(* The server's type invariant, in test and production builds: among other  *)
(* things, no client uses a connection that the server has given up.        *)
THEOREM TypeCorrect == Spec => []TypeOK
  <1>1. Init => TypeInv
    BY MaxRestartsAssumption
    DEF Init, TypeInv, TypeOK, TaskInv, OpInv, View, Row, Workers
  <1>2. TypeInv /\ [Next]_vars => TypeInv'
    BY TypeStep
  <1>3. TypeInv => TypeOK
    BY DEF TypeInv
  <1> QED
    BY <1>1, <1>2, <1>3, PTL DEF Spec
-----------------------------------------------------------------------------
(***************************************************************************)
(* Where transactions do not overlap.  The inductive invariant says beside *)
(* what is to be proved that no transaction is open, that a seat belongs   *)
(* to the user of its connection and is not kept for one that has left,    *)
(* that a call is rung only until it is answered, and that the cleanup     *)
(* after a restart has still to come to every room where somebody has not  *)
(* come back.                                                              *)
(***************************************************************************)
Idle == \A w \in Workers : task[w] = None

SeatsInv ==
    \A u \in Users :
        Answered(participant, u) =>
            LET c == participant[u].answering
            IN  Owner[c] = u /\ conn[c] \in {"live", "lost", "stale"}

RingInv ==
    \A c \in Connections :
        ringing[c] # None =>
            LET r == ringing[c].room
                u == ringing[c].user
            IN  rooms[r] # "unborn" /\ ~(InRoom(participant, u, r) /\ Answered(participant, u))

CleanupInv ==
    cleanup.phase = "clearing" => \A r \in Rooms : StaleUsers(r) # {} => r \in cleanup.todo

(* What an operation on the participants of a room has to establish; RingInv *)
(* is shown for each operation by itself.                                    *)
TablesInv ==
    Idle /\ SeatsInv /\ CleanupInv /\ PendingHasCaller /\ RoomsInhabited /\ ViewIsCurrent

Safe == TablesInv /\ RingInv

IInv == TypeInv /\ (build = "test" => Safe)
-----------------------------------------------------------------------------
(* Only rows of the room r differ.                                          *)
Local(table, r) ==
    \A u \in Users :
        \/ table[u] = participant[u]
        \/ /\ participant[u] = None \/ participant[u].room = r
           /\ table[u] = None \/ table[u].room = r

LEMMA OtherRooms ==
    ASSUME NEW table, NEW r, Local(table, r), NEW q, q # r
    PROVE  /\ \A u \in Users : InRoom(table, u, q) <=> InRoom(participant, u, q)
           /\ \A u \in Users : InRoom(table, u, q) => table[u] = participant[u]
           /\ RoomView(table, q) = RoomView(participant, q)
           /\ Inhabited(table, q) <=> Inhabited(participant, q)
  <1>1. /\ \A u \in Users : InRoom(table, u, q) <=> InRoom(participant, u, q)
        /\ \A u \in Users : InRoom(table, u, q) => table[u] = participant[u]
    BY DEF Local, InRoom
  <1>2. RoomView(table, q) = RoomView(participant, q)
    BY <1>1 DEF RoomView
  <1>3. Inhabited(table, q) <=> Inhabited(participant, q)
    BY <1>1 DEF Inhabited, Answered
  <1> QED
    BY <1>1, <1>2, <1>3

(* The message that follows a change of a room is enough to keep everybody  *)
(* informed, also those of other rooms.                                     *)
LEMMA ViewsAfter ==
    ASSUME TypeOK, build = "test", ViewIsCurrent,
           NEW table, NEW r, Local(table, r),
           participant' = table, RoomUpdated(RoomView(table, r)),
           \A c \in Connections : conn'[c] = "live" => conn[c] = "live"
    PROVE  ViewIsCurrent'
  <1>1. SUFFICES ASSUME NEW c \in Connections, conn'[c] = "live", AnsweredBy(Owner[c], c)'
                 PROVE  view'[c] = RoomView(table, table[Owner[c]].room)
    BY DEF ViewIsCurrent
  <1> DEFINE u == Owner[c]
             q == table[u].room
  <1>2. /\ u \in Users /\ table[u] # None /\ table[u].answering = c
        /\ InRoom(table, u, q) /\ conn[c] = "live"
    BY <1>1, OwnerAssumption DEF AnsweredBy, InRoom
  <1>3. CASE q = r
    <2>1. <<u, c>> \in RoomView(table, r)
      BY <1>2, <1>3 DEF RoomView
    <2> QED
      BY <1>2, <1>3, <2>1 DEF RoomUpdated
  <1>4. CASE q # r
    <2>1. table[u] = participant[u] /\ RoomView(table, q) = RoomView(participant, q)
      <3> HIDE DEF u, q
      <3> QED
        BY <1>2, <1>4, OtherRooms
    <2>2. view[c] = RoomView(participant, q)
      BY <1>2, <2>1 DEF ViewIsCurrent, AnsweredBy
    <2>3. <<u, c>> \notin RoomView(table, r)
      BY <1>2, <1>4 DEF RoomView, InRoom
    <2>4. view'[c] = view[c]
      BY <2>3 DEF RoomUpdated
    <2> QED
      BY <2>1, <2>2, <2>4
  <1> QED
    BY <1>3, <1>4

(* Somebody is still where a row refers to.                                 *)
LEMMA RowsInOpenRooms ==
    ASSUME TypeOK, build = "test", PendingHasCaller, RoomsInhabited,
           NEW u \in Users, participant[u] # None
    PROVE  participant[u].room \in Rooms /\ rooms[participant[u].room] = "open"
  <1> DEFINE r == participant[u].room
  <1>1. r \in Rooms /\ participant[u].caller \in Users
    BY RowParts DEF TypeOK
  <1>2. Inhabited(participant, r)
    BY <1>1 DEF Inhabited, PendingHasCaller, Pending, Answered, InRoom
  <1> QED
    BY <1>1, <1>2 DEF RoomsInhabited

(* A change of rows of callees: nobody takes or loses a seat.               *)
SeatsSame(table) ==
    \A u \in Users :
        /\ Answered(table, u) <=> Answered(participant, u)
        /\ Answered(table, u) => table[u] = participant[u]

LEMMA CalleesStep ==
    ASSUME TypeOK, build = "test", TablesInv,
           NEW table, NEW r, Local(table, r), SeatsSame(table), Changed(table, r),
           \A u \in Users : Pending(table, u) =>
               \/ table[u] = participant[u]
               \/ /\ table[u].caller \in Users
                  /\ InRoom(participant, table[u].caller, table[u].room)
                  /\ Answered(participant, table[u].caller),
           UNCHANGED <<build, rooms, task, cleanup>>,
           \A c \in Connections :
               \/ conn'[c] = conn[c]
               \/ conn[c] \notin {"live", "lost", "stale"} /\ conn'[c] \notin {"live", "stale"}
    PROVE  TablesInv'
  <1>1. participant' = table /\ RoomUpdated(RoomView(table, r))
    BY DEF Changed, Write
  <1>p. \A u \in Users : participant[u] # None =>
            participant[u].answering \in Connections \cup {None} /\ participant[u].caller \in Users
    BY RowParts DEF TypeOK
  <1>2. Idle'
    BY DEF TablesInv, Idle
  <1>3. SeatsInv'
    BY <1>1, <1>p DEF TablesInv, SeatsInv, SeatsSame, Answered
  <1>4. CleanupInv'
    BY <1>1, <1>p DEF TablesInv, CleanupInv, SeatsInv, StaleUsers, SeatsSame, Answered, InRoom
  <1>5. PendingHasCaller'
    BY <1>1, <1>p DEF TablesInv, PendingHasCaller, SeatsSame, Answered, InRoom, Pending
  <1>6. RoomsInhabited'
    BY <1>1 DEF TablesInv, RoomsInhabited, Inhabited, SeatsSame, InRoom, Answered
  <1>7. ViewIsCurrent'
    <2>1. \A c \in Connections : conn'[c] = "live" => conn[c] = "live"
      OBVIOUS
    <2> QED
      BY <1>1, <2>1, ViewsAfter DEF TablesInv
  <1> QED
    BY <1>2, <1>3, <1>4, <1>5, <1>6, <1>7 DEF TablesInv

(* A seat is taken, by answering a call or over from another connection.    *)
LEMMA SeatStep ==
    ASSUME TypeOK, build = "test", TablesInv,
           NEW c \in Connections, conn[c] = "live",
           NEW r, InRoom(participant, Owner[c], r),
           NEW table, table = [participant EXCEPT ![Owner[c]].answering = c],
           Changed(table, r),
           UNCHANGED <<build, rooms, task, cleanup, conn>>
    PROVE  TablesInv'
  <1> DEFINE u == Owner[c]
  <1>0. u \in Users
    BY OwnerAssumption
  <1>1. participant' = table /\ RoomUpdated(RoomView(table, r))
    BY DEF Changed, Write
  <1>2. participant[u] \in Row /\ participant[u].room = r /\ c # None
    BY <1>0, RowParts, NoneAssumption DEF TypeOK, InRoom
  <1>3. /\ table[u] = [participant[u] EXCEPT !.answering = c]
        /\ \A v \in Users \ {u} : table[v] = participant[v]
    BY <1>0 DEF TypeOK
  <1>4. /\ table[u] # None /\ table[u].room = r /\ table[u].answering = c
    BY <1>2, <1>3, NoRowAssumption DEF Row
  <1> HIDE DEF u
  <1>5. Local(table, r)
    BY <1>2, <1>3, <1>4 DEF Local
  <1>p. \A v \in Users : participant[v] # None =>
            participant[v].answering \in Connections \cup {None} /\ participant[v].caller \in Users
    BY RowParts DEF TypeOK
  <1>6. Idle'
    BY DEF TablesInv, Idle
  <1>7. SeatsInv'
    BY <1>1, <1>3, <1>4, <1>p DEF TablesInv, SeatsInv, Answered, u
  <1>8. CleanupInv'
    <2>1. ASSUME NEW q \in Rooms, NEW v \in StaleUsers(q)'
          PROVE  v \in StaleUsers(q)
      <3>1. v # u
        BY <1>1, <1>4, <2>1 DEF StaleUsers
      <3> QED
        BY <1>1, <1>3, <2>1, <3>1 DEF StaleUsers, InRoom, Answered
    <2> QED
      BY <2>1 DEF TablesInv, CleanupInv
  <1>9. PendingHasCaller'
    BY <1>1, <1>2, <1>3, <1>4, <1>p, NoneAssumption
    DEF TablesInv, PendingHasCaller, Answered, InRoom, Pending
  <1>10. RoomsInhabited'
    <2>1. ASSUME NEW q \in Rooms
          PROVE  rooms'[q] = "open" <=> Inhabited(table, q)
      <3>1. CASE q = r
        <4>1. rooms[r] = "open"
          BY <1>0, <1>2, RowsInOpenRooms, NoneAssumption DEF u, TablesInv, InRoom
        <4>2. Inhabited(table, r)
          BY <1>0, <1>4, NoneAssumption DEF u, Inhabited, InRoom, Answered
        <4> QED
          BY <3>1, <4>1, <4>2
      <3>2. CASE q # r
        BY <1>5, <3>2, OtherRooms DEF TablesInv, RoomsInhabited
      <3> QED
        BY <3>1, <3>2
    <2> QED
      BY <1>1, <2>1 DEF RoomsInhabited
  <1>11. ViewIsCurrent'
    BY <1>1, <1>5, ViewsAfter DEF TablesInv
  <1> QED
    BY <1>6, <1>7, <1>8, <1>9, <1>10, <1>11 DEF TablesInv
-----------------------------------------------------------------------------
(* Participants S of the room r go, with the calls they made.               *)
LEMMA RemovalTable ==
    ASSUME TypeOK, build = "test", PendingHasCaller,
           NEW r, NEW S \in SUBSET Users,
           \A u \in S : InRoom(participant, u, r) /\ Answered(participant, u),
           NEW table, table = Without(S \cup CalledBy(S))
    PROVE  /\ Local(table, r)
           /\ \A u \in Users : table[u] \in {None, participant[u]}
           /\ \A u \in Users : Answered(table, u) <=> Answered(participant, u) /\ u \notin S
           /\ \A u \in Users : Pending(table, u) =>
                  LET v == table[u].caller
                  IN  v \in Users /\ InRoom(table, v, table[u].room) /\ Answered(table, v)
           /\ (\E u \in Users : InRoom(table, u, r)) => Inhabited(table, r)
  <1>p. \A u \in Users : participant[u] # None => participant[u].caller \in Users
    BY RowParts DEF TypeOK
  <1>1. \A u \in Users : table[u] = IF u \in S \cup CalledBy(S) THEN None ELSE participant[u]
    BY DEF Without
  <1>2. \A u \in CalledBy(S) : participant[u] # None /\ participant[u].room = r
    BY DEF CalledBy, PendingHasCaller, Pending, InRoom
  <1>3. Local(table, r)
    BY <1>1, <1>2 DEF Local, InRoom
  <1>4. \A u \in Users : table[u] \in {None, participant[u]}
    BY <1>1
  <1>5. ASSUME NEW u \in Users
        PROVE  Answered(table, u) <=> Answered(participant, u) /\ u \notin S
    BY <1>1 DEF Answered, CalledBy, Pending
  <1>6. ASSUME NEW u \in Users, Pending(table, u)
        PROVE  /\ table[u].caller \in Users
               /\ InRoom(table, table[u].caller, table[u].room)
               /\ Answered(table, table[u].caller)
    <2> DEFINE v == table[u].caller
    <2>1. table[u] = participant[u] /\ u \notin CalledBy(S) /\ Pending(participant, u)
      BY <1>1, <1>6 DEF Pending
    <2>2. v \in Users /\ v \notin S
      BY <1>p, <2>1 DEF CalledBy, Pending
    <2>3. InRoom(participant, v, table[u].room) /\ Answered(participant, v)
      BY <2>1 DEF PendingHasCaller
    <2>4. table[v] = participant[v]
      <3>1. v \notin CalledBy(S)
        BY <2>3 DEF CalledBy, Pending, Answered
      <3>2. v \in Users /\ v \notin S \cup CalledBy(S)
        BY <2>2, <3>1
      <3> HIDE DEF v
      <3> QED
        BY <1>1, <3>2
    <2> QED
      BY <2>2, <2>3, <2>4 DEF InRoom, Answered
  <1>7. ASSUME NEW u \in Users, InRoom(table, u, r)
        PROVE  Inhabited(table, r)
    BY <1>6, <1>7 DEF Inhabited, InRoom, Pending, Answered
  <1> QED
    BY <1>3, <1>4, <1>5, <1>6, <1>7

LEMMA RemovalStep ==
    ASSUME TypeOK, build = "test", TablesInv,
           NEW r \in Rooms, NEW S \in SUBSET Users,
           \A u \in S : InRoom(participant, u, r) /\ Answered(participant, u),
           NEW table, table = Without(S \cup CalledBy(S)),
           Changed(table, r),
           rooms' = IF Inhabited(table, r) THEN rooms ELSE [rooms EXCEPT ![r] = "deleted"],
           UNCHANGED <<build, task>>,
           \A c \in Connections : conn'[c] = "live" => conn[c] = "live",
           \A c \in Connections : conn'[c] = "stale" => conn[c] = "stale",
           \A u \in Users \ S : Answered(participant, u) =>
               conn'[participant[u].answering] = conn[participant[u].answering],
           cleanup'.phase = cleanup.phase,
           \A q \in Rooms : q \in cleanup.todo /\ q \notin cleanup'.todo =>
               q = r /\ StaleUsers(r) \subseteq S
    PROVE  TablesInv'
  <1>1. participant' = table /\ RoomUpdated(RoomView(table, r))
    BY DEF Changed, Write
  <1>2. /\ Local(table, r)
        /\ \A u \in Users : table[u] \in {None, participant[u]}
        /\ \A u \in Users : Answered(table, u) <=> Answered(participant, u) /\ u \notin S
        /\ \A u \in Users : Pending(table, u) =>
               LET v == table[u].caller
               IN  v \in Users /\ InRoom(table, v, table[u].room) /\ Answered(table, v)
    BY SMTT(30), RemovalTable DEF TablesInv
  <1>3. Idle'
    BY DEF TablesInv, Idle
  <1>4. SeatsInv'
    <2>1. ASSUME NEW u \in Users, Answered(table, u)
          PROVE  /\ Answered(participant, u) /\ u \notin S
                 /\ table[u].answering = participant[u].answering
      BY <1>2, <2>1 DEF Answered
    <2>2. ASSUME NEW u \in Users, Answered(table, u)
          PROVE  /\ Owner[table[u].answering] = u
                 /\ conn'[table[u].answering] \in {"live", "lost", "stale"}
      <3> DEFINE d == participant[u].answering
      <3>1. conn'[d] = conn[d]
        BY <2>1, <2>2
      <3>2. Owner[d] = u /\ conn[d] \in {"live", "lost", "stale"}
        BY <2>1, <2>2 DEF TablesInv, SeatsInv
      <3> QED
        BY <2>1, <2>2, <3>1, <3>2
    <2> QED
      BY <1>1, <2>2 DEF SeatsInv
  <1>5. CleanupInv'
    <2>1. ASSUME NEW q \in Rooms, NEW v \in StaleUsers(q)'
          PROVE  v \in StaleUsers(q) /\ v \notin S
      <3>1. Answered(participant, v) /\ v \notin S /\ table[v] = participant[v]
        BY <1>1, <1>2, <2>1 DEF StaleUsers, Answered
      <3> QED
        BY <1>1, <2>1, <3>1 DEF StaleUsers, InRoom
    <2>2. ASSUME cleanup'.phase = "clearing", NEW q \in Rooms, StaleUsers(q)' # {}
          PROVE  q \in cleanup'.todo
      <3>1. PICK v : v \in StaleUsers(q)'
        BY <2>2
      <3>2. v \in StaleUsers(q) /\ v \notin S
        BY <2>1, <3>1
      <3>3. q \in cleanup.todo
        BY <2>2, <3>2 DEF TablesInv, CleanupInv
      <3> QED
        BY <3>2, <3>3
    <2> QED
      BY <2>2 DEF CleanupInv
  <1>6. PendingHasCaller'
    BY <1>1, <1>2 DEF PendingHasCaller
  <1>7. RoomsInhabited'
    <2>1. ASSUME NEW q \in Rooms
          PROVE  rooms'[q] = "open" <=> Inhabited(table, q)
      <3>1. CASE q = r
        <4>1. Inhabited(table, r) => Inhabited(participant, r)
          BY <1>2 DEF Inhabited, InRoom, Answered
        <4> QED
          BY <3>1, <4>1 DEF TypeOK, TablesInv, RoomsInhabited
      <3>2. CASE q # r
        BY <1>2, <3>2, OtherRooms DEF TypeOK, TablesInv, RoomsInhabited
      <3> QED
        BY <3>1, <3>2
    <2> QED
      BY <1>1, <2>1 DEF RoomsInhabited
  <1>8. ViewIsCurrent'
    BY <1>1, <1>2, ViewsAfter DEF TablesInv
  <1> QED
    BY <1>3, <1>4, <1>5, <1>6, <1>7, <1>8 DEF TablesInv
-----------------------------------------------------------------------------
(* The operations, each as one step.                                        *)
LEMMA TestTransaction ==
    ASSUME build = "test", NEW w, NEW t, RoomTransaction(w, t)
    PROVE  Statements(w, t) /\ UNCHANGED <<task, holder, build, conn, restarts, using>>
  BY DEF RoomTransaction

LEMMA TablesUnchanged ==
    ASSUME TablesInv, UNCHANGED <<build, rooms, participant, conn, task, cleanup, view>>
    PROVE  TablesInv'
  BY DEF TablesInv, Idle, SeatsInv, CleanupInv, StaleUsers, PendingHasCaller, RoomsInhabited,
     ViewIsCurrent, Answered, Pending, InRoom, Inhabited, RoomView, AnsweredBy

LEMMA InviteSafe ==
    ASSUME TypeInv, build = "test", Safe, ~EarlyInvites,
           NEW c \in Connections, NEW u \in Users, Invite(c, u)
    PROVE  Safe'
  <1> DEFINE t == Ask("call", joined[c], u)
             r == joined[c]
             row == [room |-> r, answering |-> None, caller |-> Owner[c], via |-> c]
             table == [participant EXCEPT ![u] = row]
             ring == [room |-> r, user |-> u, sent |-> FALSE, targets |-> {}]
  <1>1. /\ TypeOK /\ Owner[c] \in Users /\ TablesInv /\ RingInv
        /\ AnsweredBy(Owner[c], c) /\ participant[u] = None /\ u # Owner[c]
        /\ r \in Rooms
    BY OwnerAssumption DEF TypeInv, TypeOK, Safe, Invite
  <1>2. Call(c, t) /\ UNCHANGED <<task, holder, build, conn, restarts, using>>
    <2>1. Statements(c, t) /\ UNCHANGED <<task, holder, build, conn, restarts, using>>
      BY TestTransaction DEF Invite
    <2> QED
      BY <2>1 DEF Statements, Ask
  <1>3. t.room = r /\ t.other = u
    BY DEF Ask
  <1>4. CASE InRoom(participant, Owner[c], r)
    <2>1. /\ Changed(table, r)
          /\ ringing' = [ringing EXCEPT ![c] = ring]
          /\ UNCHANGED <<rooms, cleanup>>
      BY <1>1, <1>2, <1>3, <1>4 DEF Call
    <2>2. Answered(participant, Owner[c])
      BY <1>1, NoneAssumption DEF AnsweredBy, Answered
    <2>3. /\ table[u] = row /\ row.room = r /\ row.answering = None /\ row.caller = Owner[c]
          /\ \A v \in Users \ {u} : table[v] = participant[v]
      BY <1>1 DEF TypeOK
    <2> HIDE DEF table, row
    <2>4. Local(table, r)
      BY <1>1, <2>3 DEF Local
    <2>5. SeatsSame(table)
      BY <1>1, <2>3 DEF SeatsSame, Answered
    <2>6. ASSUME NEW v \in Users, Pending(table, v)
          PROVE  \/ table[v] = participant[v]
                 \/ /\ table[v].caller \in Users
                    /\ InRoom(participant, table[v].caller, table[v].room)
                    /\ Answered(participant, table[v].caller)
      BY <1>1, <1>4, <2>2, <2>3
    <2>7. TablesInv'
      BY <1>1, <1>2, <2>1, <2>4, <2>5, <2>6, CalleesStep
    <2>8. RingInv'
      <3>1. rooms[r] = "open"
        BY <1>1, <1>4, <2>2, RowsInOpenRooms DEF TablesInv, InRoom
      <3>2. participant' = table
        BY <2>1 DEF Changed, Write
      <3>3. ASSUME NEW d \in Connections, ringing'[d] # None
            PROVE  /\ rooms'[ringing'[d].room] # "unborn"
                   /\ ~(/\ InRoom(table, ringing'[d].user, ringing'[d].room)
                        /\ Answered(table, ringing'[d].user))
        <4>1. CASE d = c
          <5>1. ringing'[d] = ring /\ ring.room = r /\ ring.user = u
            BY <1>1, <2>1, <4>1 DEF TypeOK
          <5>2. ~Answered(table, u)
            BY <2>3 DEF Answered
          <5> QED
            BY <2>1, <3>1, <5>1, <5>2
        <4>2. CASE d # c
          <5>1. ringing'[d] = ringing[d] /\ ringing[d].user \in Users
            BY <1>1, <2>1, <3>3, <4>2 DEF TypeOK, Ring
          <5>2. CASE ringing[d].user = u
            BY <1>1, <2>1, <2>3, <3>3, <5>1, <5>2 DEF RingInv, Answered
          <5>3. CASE ringing[d].user # u
            BY <1>1, <2>1, <2>3, <3>3, <5>1, <5>3 DEF RingInv, Answered, InRoom
          <5> QED
            BY <5>2, <5>3
        <4> QED
          BY <4>1, <4>2
      <3> QED
        BY <3>2, <3>3 DEF RingInv
    <2> QED
      BY <2>7, <2>8 DEF Safe
  <1>5. CASE ~InRoom(participant, Owner[c], r)
    <2>1. UNCHANGED <<participant, view, ringing, rooms, cleanup>>
      BY <1>2, <1>3, <1>5 DEF Call
    <2>2. TablesInv'
      BY <1>1, <1>2, <2>1, TablesUnchanged
    <2> QED
      BY <1>1, <2>1, <2>2 DEF Safe, RingInv, InRoom, Answered
  <1> QED
    BY <1>4, <1>5

(* A pending callee of the room r is let go.                                *)
LEMMA CalleeGoes ==
    ASSUME TypeOK, build = "test", Safe, NEW u \in Users, NEW r,
           NEW table, table = [participant EXCEPT ![u] = None], Changed(table, r),
           Pending(participant, u), participant[u].room = r,
           UNCHANGED <<build, rooms, task, cleanup>>,
           \A c \in Connections :
               \/ conn'[c] = conn[c]
               \/ conn[c] \notin {"live", "lost", "stale"} /\ conn'[c] \notin {"live", "stale"},
           \A c \in Connections : ringing'[c] \in {None, ringing[c]}
    PROVE  Safe'
  <1>1. /\ table[u] = None
        /\ \A v \in Users \ {u} : table[v] = participant[v]
        /\ participant' = table
    BY DEF TypeOK, Changed, Write
  <1>2. TablesInv'
    <2>1. Local(table, r)
      BY <1>1 DEF Local
    <2>2. SeatsSame(table)
      BY <1>1 DEF SeatsSame, Answered, Pending
    <2>3. \A v \in Users : Pending(table, v) => table[v] = participant[v]
      BY <1>1 DEF Pending
    <2> QED
      BY <2>1, <2>2, <2>3, CalleesStep DEF Safe
  <1>3. RingInv'
    <2>1. ASSUME NEW d \in Connections, ringing'[d] # None
          PROVE  /\ rooms'[ringing'[d].room] # "unborn"
                 /\ ~(/\ InRoom(table, ringing'[d].user, ringing'[d].room)
                      /\ Answered(table, ringing'[d].user))
      <3>1. ringing'[d] = ringing[d] /\ ringing[d] # None /\ ringing[d].user \in Users
        BY <2>1 DEF TypeOK, Ring
      <3>2. table[ringing[d].user] \in {None, participant[ringing[d].user]}
        BY <1>1, <3>1
      <3> QED
        BY <3>1, <3>2 DEF Safe, RingInv, Answered, InRoom
    <2> QED
      BY <1>1, <2>1 DEF RingInv
  <1> QED
    BY <1>2, <1>3 DEF Safe

(* Nothing changes but that calls stop to be rung.                          *)
LEMMA TablesStay ==
    ASSUME Safe, UNCHANGED <<build, rooms, participant, conn, task, cleanup, view>>,
           \A c \in Connections : ringing'[c] \in {None, ringing[c]}
    PROVE  Safe'
  <1>1. TablesInv'
    BY TablesUnchanged DEF Safe
  <1>2. RingInv'
    BY DEF Safe, RingInv, InRoom, Answered
  <1> QED
    BY <1>1, <1>2 DEF Safe

LEMMA CancelInviteSafe ==
    ASSUME TypeInv, build = "test", Safe,
           NEW c \in Connections, NEW u \in Users, CancelInvite(c, u)
    PROVE  Safe'
  <1> DEFINE t == Ask("cancel", joined[c], u)
  <1>1. CancelCall(c, t) /\ UNCHANGED <<task, holder, build, conn, restarts, using>>
    <2>1. Statements(c, t) /\ UNCHANGED <<task, holder, build, conn, restarts, using>>
      BY TestTransaction DEF CancelInvite
    <2> QED
      BY <2>1 DEF Statements, Ask
  <1>2. t.room = joined[c] /\ t.other = u
    BY DEF Ask
  <1>3. UNCHANGED <<rooms, ringing, cleanup>>
    BY <1>1 DEF CancelCall
  <1>4. \/ /\ Pending(participant, u) /\ participant[u].room = joined[c]
           /\ Changed([participant EXCEPT ![u] = None], joined[c])
        \/ UNCHANGED <<participant, view>>
    BY <1>1, <1>2 DEF CancelCall, InRoom
  <1> QED
    BY <1>1, <1>3, <1>4, CalleeGoes, TablesStay DEF TypeInv

LEMMA RingFailsSafe ==
    ASSUME TypeInv, build = "test", Safe, NEW c \in Connections, RingFails(c)
    PROVE  Safe'
  <1> DEFINE r == ringing[c].room
             u == ringing[c].user
             t == Ask("call_failed", r, u)
             table == [participant EXCEPT ![u] = None]
  <1>1. TypeOK /\ u \in Users /\ ringing[c] # None
    BY DEF RingFails, TypeInv, TypeOK, Ring
  <1>2. CallFailed(c, t) /\ UNCHANGED <<task, holder, build, conn, restarts, using>>
    <2>1. Statements(c, t) /\ UNCHANGED <<task, holder, build, conn, restarts, using>>
      BY TestTransaction DEF RingFails
    <2> QED
      BY <2>1 DEF Statements, Ask
  <1>3. t.room = r /\ t.other = u
    BY DEF Ask
  <1>4. UNCHANGED <<rooms, cleanup>> /\ \A d \in Connections : ringing'[d] \in {None, ringing[d]}
    BY <1>1, <1>2 DEF CallFailed, TypeOK
  <1>5. CASE rooms[r] = "open" /\ InRoom(participant, u, r)
    <2>1. Changed(table, r)
      BY <1>2, <1>3, <1>5 DEF CallFailed
    <2>2. Pending(participant, u) /\ participant[u].room = r
      BY <1>1, <1>5 DEF Safe, RingInv, InRoom, Pending, Answered
    <2> QED
      BY <1>1, <1>2, <1>4, <2>1, <2>2, CalleeGoes
  <1>6. CASE rooms[r] = "open" /\ ~InRoom(participant, u, r)
    <2>1. Changed(participant, r)
      <3>1. [participant EXCEPT ![u] = participant[u]] = participant
        BY <1>1 DEF TypeOK
      <3> QED
        BY <1>2, <1>3, <1>6, <3>1 DEF CallFailed
    <2>2. Local(participant, r) /\ SeatsSame(participant)
      BY DEF Local, SeatsSame
    <2>3. TablesInv'
      BY <1>1, <1>2, <1>4, <2>1, <2>2, CalleesStep DEF Safe
    <2>4. RingInv'
      BY <1>4, <2>1 DEF Safe, RingInv, InRoom, Answered, Changed, Write
    <2> QED
      BY <2>3, <2>4 DEF Safe
  <1>7. CASE rooms[r] # "open"
    <2>1. UNCHANGED <<participant, view>>
      BY <1>2, <1>3, <1>7 DEF CallFailed
    <2> QED
      BY <1>2, <1>4, <2>1, TablesStay
  <1> QED
    BY <1>5, <1>6, <1>7

LEMMA AcceptIncomingSafe ==
    ASSUME TypeInv, build = "test", Safe, ~LateAnswers,
           NEW c \in Connections, AcceptIncoming(c)
    PROVE  Safe'
  <1> DEFINE u == Owner[c]
             r == participant[u].room
             t == Ask("join", r, None)
             table == [participant EXCEPT ![u].answering = c]
  <1>1. /\ TypeOK /\ u \in Users /\ Pending(participant, u) /\ ~BeingRung(u)
        /\ conn[c] = "live"
    BY OwnerAssumption DEF TypeInv, TypeOK, AcceptIncoming, Acts
  <1>2. JoinRoom(c, t) /\ UNCHANGED <<task, holder, build, conn, restarts, using>>
    <2>1. Statements(c, t) /\ UNCHANGED <<task, holder, build, conn, restarts, using>>
      BY TestTransaction DEF AcceptIncoming
    <2> QED
      BY <2>1 DEF Statements, Ask
  <1>3. InRoom(participant, u, r)
    BY <1>1 DEF Pending, InRoom
  <1>4. Changed(table, r) /\ UNCHANGED <<rooms, ringing, cleanup>>
    BY <1>1, <1>2, <1>3 DEF JoinRoom, Ask
  <1>5. TablesInv'
    <2> HIDE DEF r
    <2> QED
      BY <1>1, <1>2, <1>3, <1>4, SeatStep DEF Safe
  <1>6. RingInv'
    <2>1. \A d \in Connections : ringing[d] # None => ringing[d].user # u
      BY <1>1 DEF BeingRung
    <2>2. \A v \in Users \ {u} : participant'[v] = participant[v]
      BY <1>1, <1>4 DEF Changed, Write, TypeOK
    <2>3. \A d \in Connections : ringing[d] # None => ringing[d].user \in Users
      BY <1>1 DEF TypeOK, Ring
    <2> QED
      BY <1>4, <2>1, <2>2, <2>3 DEF Safe, RingInv, InRoom, Answered
  <1> QED
    BY <1>5, <1>6 DEF Safe

LEMMA RejoinSafe ==
    ASSUME TypeInv, build = "test", Safe, NEW c \in Connections, Rejoin(c)
    PROVE  Safe'
  <1> DEFINE u == Owner[c]
             r == joined[c]
             t == Ask("rejoin", r, None)
             table == [participant EXCEPT ![u].answering = c]
  <1>1. TypeOK /\ u \in Users /\ conn[c] = "live"
    BY OwnerAssumption DEF TypeInv, TypeOK, Rejoin, Acts
  <1>2. RejoinRoom(c, t) /\ UNCHANGED <<task, holder, build, conn, restarts, using>>
    <2>1. Statements(c, t) /\ UNCHANGED <<task, holder, build, conn, restarts, using>>
      BY TestTransaction DEF Rejoin
    <2> QED
      BY <2>1 DEF Statements, Ask
  <1>3. UNCHANGED <<rooms, ringing, cleanup>>
    BY <1>2 DEF RejoinRoom
  <1>4. CASE InRoom(participant, u, r) /\ Answered(participant, u)
    <2>1. Changed(table, r)
      BY <1>2, <1>4 DEF RejoinRoom, Ask
    <2>2. TablesInv'
      <3> HIDE DEF r
      <3> QED
        BY <1>1, <1>2, <1>3, <1>4, <2>1, SeatStep DEF Safe
    <2>3. RingInv'
      <3>1. participant[u] \in Row /\ participant[u].room = r
        BY <1>1, <1>4, RowParts DEF TypeOK, InRoom
      <3>2. /\ participant'[u] = [participant[u] EXCEPT !.answering = c]
            /\ \A v \in Users \ {u} : participant'[v] = participant[v]
        BY <1>1, <2>1 DEF Changed, Write, TypeOK
      <3>3. participant'[u].room = r
        BY <3>1, <3>2 DEF Row
      <3>4. \A d \in Connections : ringing[d] # None => ringing[d].user \in Users
        BY <1>1 DEF TypeOK, Ring
      <3>5. ASSUME NEW d \in Connections, ringing[d] # None
            PROVE  ~(/\ InRoom(participant', ringing[d].user, ringing[d].room)
                     /\ Answered(participant', ringing[d].user))
        <4>1. CASE ringing[d].user = u
          BY <1>4, <3>3, <3>5, <4>1 DEF Safe, RingInv, InRoom
        <4>2. CASE ringing[d].user # u
          BY <3>2, <3>4, <3>5, <4>2 DEF Safe, RingInv, InRoom, Answered
        <4> QED
          BY <4>1, <4>2
      <3> QED
        BY <1>3, <3>5 DEF Safe, RingInv
    <2> QED
      BY <2>2, <2>3 DEF Safe
  <1>5. CASE ~(InRoom(participant, u, r) /\ Answered(participant, u))
    <2>1. UNCHANGED <<participant, view>>
      BY <1>2, <1>5 DEF RejoinRoom, Ask
    <2> QED
      BY <1>2, <1>3, <2>1, TablesStay
  <1> QED
    BY <1>4, <1>5

LEMMA CreateRoomSafe ==
    ASSUME TypeInv, build = "test", Safe, NEW c \in Connections, CreateRoom(c)
    PROVE  Safe'
  <1> DEFINE r == CHOOSE x \in Rooms : rooms[x] = "unborn"
             u == Owner[c]
             row == [room |-> r, answering |-> c, caller |-> u, via |-> c]
             table == [participant EXCEPT ![u] = row]
  <1>1. /\ TypeOK /\ TablesInv /\ u \in Users /\ conn[c] = "live" /\ participant[u] = None
        /\ c # None
    BY OwnerAssumption, NoneAssumption DEF TypeInv, TypeOK, CreateRoom, Acts, Safe
  <1>2. r \in Rooms /\ rooms[r] = "unborn"
    BY DEF CreateRoom
  <1>3. /\ rooms' = [rooms EXCEPT ![r] = "open"]
        /\ Changed(table, r)
        /\ UNCHANGED <<build, conn, task, ringing, cleanup>>
    BY DEF CreateRoom, startVars
  <1>4. row \in Row /\ row.room = r /\ row.answering = c
    BY <1>1, <1>2 DEF Row
  <1>5. /\ table[u] = row /\ row # None
        /\ \A v \in Users \ {u} : table[v] = participant[v]
    BY <1>1, <1>4, NoRowAssumption DEF TypeOK
  <1>6. participant' = table /\ RoomUpdated(RoomView(table, r))
    BY <1>3 DEF Changed, Write
  <1> HIDE DEF table, row, r, u
  <1>7. Local(table, r)
    BY <1>1, <1>4, <1>5 DEF Local
  <1>p. \A v \in Users : participant[v] # None =>
            participant[v].answering \in Connections \cup {None} /\ participant[v].caller \in Users
    BY <1>1, RowParts DEF TypeOK
  <1>8. Idle'
    BY <1>1, <1>3 DEF TablesInv, Idle
  <1>9. SeatsInv'
    BY <1>1, <1>3, <1>4, <1>5, <1>6 DEF TablesInv, SeatsInv, Answered, u
  <1>10. CleanupInv'
    <2>1. ASSUME NEW q \in Rooms, NEW v \in StaleUsers(q)'
          PROVE  v \in StaleUsers(q)
      <3>1. v # u
        BY <1>1, <1>3, <1>4, <1>5, <1>6, <2>1 DEF StaleUsers
      <3> QED
        BY <1>3, <1>5, <1>6, <2>1, <3>1 DEF StaleUsers, InRoom, Answered
    <2> QED
      BY <1>1, <1>3, <2>1 DEF TablesInv, CleanupInv
  <1>11. PendingHasCaller'
    BY <1>1, <1>4, <1>5, <1>6, <1>p DEF TablesInv, PendingHasCaller, Answered, InRoom, Pending
  <1>12. RoomsInhabited'
    <2>1. ASSUME NEW q \in Rooms
          PROVE  rooms'[q] = "open" <=> Inhabited(table, q)
      <3>1. CASE q = r
        <4>1. Inhabited(table, r)
          BY <1>1, <1>4, <1>5 DEF Inhabited, InRoom, Answered
        <4> QED
          BY <1>1, <1>2, <1>3, <3>1, <4>1 DEF TypeOK
      <3>2. CASE q # r
        <4>1. Inhabited(table, q) <=> Inhabited(participant, q)
          BY <1>7, <3>2, OtherRooms
        <4>2. rooms'[q] = rooms[q]
          BY <1>1, <1>3, <3>2 DEF TypeOK
        <4> QED
          BY <1>1, <4>1, <4>2 DEF TablesInv, RoomsInhabited
      <3> QED
        BY <3>1, <3>2
    <2> QED
      BY <1>6, <2>1 DEF RoomsInhabited
  <1>13. ViewIsCurrent'
    BY <1>1, <1>3, <1>6, <1>7, ViewsAfter DEF TablesInv
  <1>14. RingInv'
    <2>1. ASSUME NEW d \in Connections, ringing[d] # None
          PROVE  /\ rooms'[ringing[d].room] # "unborn"
                 /\ ~(/\ InRoom(table, ringing[d].user, ringing[d].room)
                      /\ Answered(table, ringing[d].user))
      <3>1. ringing[d].user \in Users /\ ringing[d].room \in Rooms
        BY <1>1, <2>1 DEF TypeOK, Ring
      <3>2. ringing[d].room # r
        BY <1>2, <2>1 DEF Safe, RingInv
      <3>3. CASE ringing[d].user = u
        BY <1>1, <1>3, <1>4, <1>5, <2>1, <3>1, <3>2, <3>3 DEF Safe, RingInv, InRoom, TypeOK
      <3>4. CASE ringing[d].user # u
        BY <1>1, <1>3, <1>5, <2>1, <3>1, <3>2, <3>4
        DEF Safe, RingInv, InRoom, Answered, TypeOK
      <3> QED
        BY <3>3, <3>4
    <2> QED
      BY <1>3, <1>6, <2>1 DEF RingInv
  <1> QED
    BY <1>8, <1>9, <1>10, <1>11, <1>12, <1>13, <1>14 DEF Safe, TablesInv
-----------------------------------------------------------------------------
(* A connection that has no seat changes its state.                         *)
LEMMA SeatlessStep ==
    ASSUME TypeOK, build = "test", Safe,
           NEW c \in Connections, ~AnsweredBy(Owner[c], c),
           NEW state, conn' = [conn EXCEPT ![c] = state],
           UNCHANGED <<build, rooms, participant, task, view, cleanup>>,
           \A d \in Connections : ringing'[d] \in {None, ringing[d]}
    PROVE  Safe'
  <1>1. \A d \in Connections : d # c => conn'[d] = conn[d]
    BY DEF TypeOK
  <1>2. \A u \in Users : Answered(participant, u) =>
            /\ participant[u].answering \in Connections
            /\ participant[u].answering # c
    BY RowParts DEF Safe, TablesInv, SeatsInv, AnsweredBy, Answered, TypeOK
  <1>3. Idle'
    BY DEF Safe, TablesInv, Idle
  <1>4. SeatsInv'
    BY <1>1, <1>2 DEF Safe, TablesInv, SeatsInv, Answered
  <1>5. CleanupInv'
    <2>1. \A r \in Rooms : StaleUsers(r)' = StaleUsers(r)
      BY <1>1, <1>2 DEF StaleUsers, Answered, InRoom
    <2> QED
      BY <2>1 DEF Safe, TablesInv, CleanupInv
  <1>6. PendingHasCaller' /\ RoomsInhabited'
    BY DEF Safe, TablesInv, PendingHasCaller, RoomsInhabited, Inhabited, Answered, Pending, InRoom
  <1>7. ViewIsCurrent'
    <2>1. ASSUME NEW d \in Connections, conn'[d] = "live", AnsweredBy(Owner[d], d)
          PROVE  view[d] = RoomView(participant, participant[Owner[d]].room)
      <3>1. d # c
        BY <2>1
      <3> QED
        BY <1>1, <2>1, <3>1 DEF Safe, TablesInv, ViewIsCurrent
    <2> QED
      BY <2>1 DEF ViewIsCurrent, AnsweredBy, RoomView, InRoom
  <1>8. RingInv'
    BY DEF Safe, RingInv, InRoom, Answered
  <1> QED
    BY <1>3, <1>4, <1>5, <1>6, <1>7, <1>8 DEF Safe, TablesInv

(* One participant goes, with the calls it made.                            *)
LEMMA LeaverTable ==
    ASSUME TypeOK, build = "test", PendingHasCaller,
           NEW r, NEW u \in Users, InRoom(participant, u, r), Answered(participant, u),
           NEW table, table = Without({u} \cup CalledBy({u}))
    PROVE  /\ \A v \in Users : table[v] \in {None, participant[v]}
           /\ \A v \in Users : Answered(table, v) <=> Answered(participant, v) /\ v # u
           /\ (\E v \in Users : InRoom(table, v, r)) => Inhabited(table, r)
  <1>1. PICK S \in SUBSET Users : S = {u}
    OBVIOUS
  <1>2. table = Without(S \cup CalledBy(S))
    BY <1>1
  <1>3. \A v \in S : InRoom(participant, v, r) /\ Answered(participant, v)
    BY <1>1
  <1>4. /\ \A v \in Users : table[v] \in {None, participant[v]}
        /\ \A v \in Users : Answered(table, v) <=> Answered(participant, v) /\ v \notin S
        /\ (\E v \in Users : InRoom(table, v, r)) => Inhabited(table, r)
    BY <1>2, <1>3, RemovalTable
  <1> QED
    BY <1>1, <1>4

(* leave_room never fails: whoever is still being called has a caller in    *)
(* the room.                                                                *)
LEMMA LeaveSafe ==
    ASSUME TypeInv, build = "test", Safe,
           NEW c \in Connections, NEW t \in Task, t.op \in {"leave", "expire"},
           OptionalRoomTransaction(c, t)
    PROVE  Safe'
  <1> DEFINE u == Owner[c]
             x == Executed(c, t)
             r == participant[u].room
             table == Without({u} \cup CalledBy({u}))
  <1>1. /\ TypeOK /\ TablesInv /\ u \in Users /\ t.op \in OptionalOps
        /\ UNCHANGED <<build, ringing, cleanup>>
    BY OwnerAssumption DEF TypeInv, OptionalRoomTransaction, startVars, OptionalOps, Safe
  <1>2. CASE ~AnsweredBy(u, c)
    <2>1. Found(c, t) = {}
      BY <1>1, <1>2 DEF Found
    <2>2. AfterOptional(c, t) /\ UNCHANGED <<dbVars, view, task, holder>>
      BY <1>1, <2>1 DEF OptionalRoomTransaction
    <2>3. \E state : conn' = [conn EXCEPT ![c] = state]
      BY <2>2 DEF AfterOptional
    <2>4. UNCHANGED <<build, rooms, participant, task, view, cleanup>>
            /\ \A d \in Connections : ringing'[d] \in {None, ringing[d]}
      BY <1>1, <2>2 DEF dbVars
    <2> QED
      BY <1>1, <1>2, <2>3, <2>4, SeatlessStep
  <1>3. CASE AnsweredBy(u, c)
    <2>1. Found(c, t) = {u} /\ Gone(c, t) = {u} \cup CalledBy({u})
      BY <1>1, <1>3 DEF Found, Gone, Leaves
    <2>2. /\ x.op = t.op /\ x.gone = Gone(c, t) /\ x.room = r
          /\ x.snapshot = RoomView(table, r)
      BY <1>1, <2>1, ExecutedFormed
    <2>3. /\ r \in Rooms /\ InRoom(participant, u, r) /\ Answered(participant, u)
          /\ {u} \in SUBSET Users
      BY <1>1, <1>3, RowParts, NoneAssumption DEF TypeOK, AnsweredBy, InRoom, Answered
    <2> HIDE DEF x, r, table
    <2>4. /\ \A v \in Users : table[v] \in {None, participant[v]}
          /\ \A v \in Users : Answered(table, v) <=> Answered(participant, v) /\ v # u
          /\ (\E v \in Users : InRoom(table, v, r)) => Inhabited(table, r)
      <3>1. table = Without({u} \cup CalledBy({u}))
        BY DEF table
      <3>2. TypeOK /\ PendingHasCaller
        BY <1>1 DEF TablesInv
      <3>3. /\ u \in Users /\ InRoom(participant, u, r) /\ Answered(participant, u)
        BY <1>1, <2>3
      <3> HIDE DEF u
      <3> QED
        BY SMTT(30), <3>1, <3>2, <3>3, LeaverTable
    <2>5. DeletesRoom(x) <=> ~Inhabited(table, r)
      <3>1. DeletesRoom(x) <=> \A seat \in RoomView(table, r) : seat[2] = None
        BY <2>2 DEF DeletesRoom, Leaves
      <3>2. (\A seat \in RoomView(table, r) : seat[2] = None)
              <=> \A v \in Users : InRoom(table, v, r) => table[v].answering = None
        <4>1. \A seat \in RoomView(table, r) :
                  \E v \in Users : InRoom(table, v, r) /\ seat = <<v, table[v].answering>>
          BY DEF RoomView
        <4>2. \A v \in Users : InRoom(table, v, r) => <<v, table[v].answering>> \in RoomView(table, r)
          BY DEF RoomView
        <4>3. \A v : <<v, table[v].answering>>[2] = table[v].answering
          OBVIOUS
        <4> QED
          BY <4>1, <4>2, <4>3
      <3>3. (\A v \in Users : InRoom(table, v, r) => table[v].answering = None)
              <=> ~Inhabited(table, r)
        BY DEF Inhabited, InRoom, Answered
      <3> QED
        BY <3>1, <3>2, <3>3
    <2>6. DeletesRoom(x) => x.snapshot = {}
      BY <2>2, <2>4, <2>5 DEF RoomView
    <2>x. x = Executed(c, t)
      BY DEF x
    <2>7. Commit(c, x) /\ UNCHANGED <<task, holder>>
      BY <2>1, <2>6, <2>x DEF OptionalRoomTransaction
    <2>8. /\ Changed(table, r)
          /\ rooms' = IF Inhabited(table, r) THEN rooms ELSE [rooms EXCEPT ![r] = "deleted"]
      BY <2>1, <2>2, <2>5, <2>7 DEF Commit, Changed, table
    <2>p. participant' = table
      BY <2>8 DEF Changed, Write
    <2>9. \/ conn' = conn
          \/ conn' = [conn EXCEPT ![c] = "left"]
      BY <1>1, <2>2, <2>7 DEF Commit, AfterOptional, TypeOK
    <2>10. \A v \in Users \ {u} : Answered(participant, v) =>
               conn'[participant[v].answering] = conn[participant[v].answering]
      BY <1>1, <2>9, RowParts DEF TypeOK, Answered, TablesInv, SeatsInv
    <2>11. /\ \A d \in Connections : conn'[d] = "live" => conn[d] = "live"
           /\ \A d \in Connections : conn'[d] = "stale" => conn[d] = "stale"
      BY <1>1, <2>9 DEF TypeOK
    <2>12. TablesInv'
      BY <1>1, <2>3, <2>7, <2>8, <2>10, <2>11, RemovalStep DEF table
    <2>13. RingInv'
      <3>1. ASSUME NEW d \in Connections, ringing[d] # None
            PROVE  /\ rooms'[ringing[d].room] # "unborn"
                   /\ ~(/\ InRoom(table, ringing[d].user, ringing[d].room)
                        /\ Answered(table, ringing[d].user))
        <4>1. ringing[d].user \in Users /\ ringing[d].room \in Rooms
          BY <1>1, <3>1 DEF TypeOK, Ring
        <4>2. rooms'[ringing[d].room] # "unborn"
          BY <1>1, <2>8, <3>1, <4>1 DEF TypeOK, Safe, RingInv
        <4> QED
          BY <2>4, <3>1, <4>1, <4>2 DEF Safe, RingInv, InRoom, Answered
      <3> QED
        BY <1>1, <2>p, <3>1 DEF RingInv
    <2> QED
      BY <2>12, <2>13 DEF Safe
  <1> QED
    BY <1>2, <1>3

LEMMA DeclineSafe ==
    ASSUME TypeInv, build = "test", Safe,
           NEW c \in Connections, NEW t \in Task, t.op \in {"decline", "offline"},
           t.op = "offline" => conn[c] = "offline",
           OptionalRoomTransaction(c, t)
    PROVE  Safe'
  <1> DEFINE u == Owner[c]
             x == Executed(c, t)
             r == participant[u].room
             table == Without({u})
  <1>1. /\ TypeOK /\ TablesInv /\ u \in Users /\ t.op \in OptionalOps
        /\ UNCHANGED <<build, ringing, cleanup>>
    BY OwnerAssumption DEF TypeInv, OptionalRoomTransaction, startVars, OptionalOps, Safe
  <1>2. ASSUME NEW y, y.op = t.op, AfterOptional(c, y)
        PROVE  \A d \in Connections :
                   \/ conn'[d] = conn[d]
                   \/ conn[d] \notin {"live", "lost", "stale"} /\ conn'[d] \notin {"live", "stale"}
    BY <1>1, <1>2 DEF AfterOptional, TypeOK
  <1>3. CASE Found(c, t) = {}
    <2>1. AfterOptional(c, t) /\ UNCHANGED <<dbVars, view, task, holder>>
      BY <1>1, <1>3 DEF OptionalRoomTransaction
    <2>2. CASE t.op = "decline"
      <3>1. conn' = conn
        BY <1>1, <2>1, <2>2 DEF AfterOptional, TypeOK
      <3> QED
        BY <1>1, <2>1, <3>1, TablesStay DEF dbVars
    <2>3. CASE t.op = "offline"
      <3>1. conn' = [conn EXCEPT ![c] = "closed"]
        BY <2>1, <2>3 DEF AfterOptional
      <3>2. ~AnsweredBy(u, c)
        BY <1>1, <2>3, NoneAssumption DEF TablesInv, SeatsInv, Answered, AnsweredBy
      <3>3. UNCHANGED <<build, rooms, participant, task, view, cleanup>>
              /\ \A d \in Connections : ringing'[d] \in {None, ringing[d]}
        BY <1>1, <2>1 DEF dbVars
      <3> QED
        BY <1>1, <3>1, <3>2, <3>3, SeatlessStep
    <2> QED
      BY <2>2, <2>3
  <1>4. CASE Found(c, t) # {}
    <2>1. Found(c, t) = {u} /\ Gone(c, t) = {u} /\ Pending(participant, u)
      BY <1>1, <1>4 DEF Found, Gone, Leaves
    <2>2. /\ x.op = t.op /\ x.gone = Gone(c, t) /\ x.room = r
          /\ x.snapshot = RoomView(table, r)
      BY <1>1, <1>4, <2>1, ExecutedFormed
    <2>3. ~DeletesRoom(x)
      BY <2>2 DEF DeletesRoom, Leaves
    <2>x. x = Executed(c, t)
      OBVIOUS
    <2>4. Commit(c, x) /\ UNCHANGED <<task, holder>>
      <3> HIDE DEF x
      <3> QED
        BY <1>4, <2>3, <2>x DEF OptionalRoomTransaction
    <2>5. /\ Changed(table, r) /\ rooms' = rooms /\ AfterOptional(c, x)
      <3> HIDE DEF x
      <3> QED
        BY <2>1, <2>2, <2>3, <2>4 DEF Commit, Changed
    <2>6. table = [participant EXCEPT ![u] = None]
      BY <1>1 DEF Without, TypeOK
    <2>7. \A d \in Connections :
              \/ conn'[d] = conn[d]
              \/ conn[d] \notin {"live", "lost", "stale"} /\ conn'[d] \notin {"live", "stale"}
      BY <1>2, <2>2, <2>5
    <2> HIDE DEF x, r, table
    <2> QED
      BY <1>1, <2>1, <2>4, <2>5, <2>6, <2>7, CalleeGoes DEF r
  <1> QED
    BY <1>3, <1>4

LEMMA RequestsSafe ==
    ASSUME TypeInv, build = "test", Safe, ~LateAnswers, ~EarlyInvites,
           NEW c \in Connections, Requests(c)
    PROVE  Safe'
  <1>1. CASE HangUp(c)
    <2>1. Ask("leave", None, None) \in Task /\ Ask("leave", None, None).op = "leave"
      BY AskOptional DEF OptionalOps
    <2> QED
      BY <1>1, <2>1, LeaveSafe DEF HangUp
  <1>2. CASE DeclineIncoming(c)
    <2> DEFINE t == Ask("decline", participant[Owner[c]].room, None)
    <2>1. participant[Owner[c]].room \in Rooms
      BY <1>2, RowParts, OwnerAssumption DEF TypeInv, TypeOK, DeclineIncoming, Pending
    <2>2. t \in Task /\ t.op = "decline"
      BY <2>1, AskOptional DEF OptionalOps
    <2>3. OptionalRoomTransaction(c, t)
      BY <1>2 DEF DeclineIncoming
    <2> HIDE DEF t
    <2> QED
      BY <2>2, <2>3, DeclineSafe
  <1> QED
    BY <1>1, <1>2, CreateRoomSafe, AcceptIncomingSafe, RejoinSafe, InviteSafe, CancelInviteSafe
    DEF Requests

LEMMA RingSafe ==
    ASSUME TypeInv, build = "test", Safe,
           NEW c \in Connections, RingUser(c) \/ RingAnswered(c) \/ RingRefused(c)
    PROVE  Safe'
  <1>1. CASE RingUser(c) \/ RingRefused(c)
    <2>1. UNCHANGED <<build, rooms, participant, conn, task, cleanup, view>>
      BY <1>1 DEF RingUser, RingRefused, dbVars, startVars
    <2>2. TablesInv'
      BY <2>1, TablesUnchanged DEF Safe
    <2>3. ringing[c] \in Ring /\ ringing[c] # None
      BY <1>1 DEF RingUser, RingRefused, TypeInv, TypeOK
    <2>4. \A d \in Connections : ringing'[d] # None =>
              /\ ringing[d] # None
              /\ ringing'[d].room = ringing[d].room
              /\ ringing'[d].user = ringing[d].user
      <3>1. /\ ringing'[c].room = ringing[c].room
            /\ ringing'[c].user = ringing[c].user
        BY <1>1, <2>3 DEF RingUser, RingRefused, TypeInv, TypeOK, Ring
      <3>2. \A d \in Connections : d # c => ringing'[d] = ringing[d]
        BY <1>1 DEF RingUser, RingRefused, TypeInv, TypeOK
      <3> QED
        BY <2>3, <3>1, <3>2
    <2>5. RingInv'
      BY <2>1, <2>4 DEF Safe, RingInv, InRoom, Answered
    <2> QED
      BY <2>2, <2>5 DEF Safe
  <1>2. CASE RingAnswered(c)
    <2>1. UNCHANGED <<build, rooms, participant, conn, task, cleanup, view>>
      BY <1>2 DEF RingAnswered, dbVars, startVars
    <2>2. \A d \in Connections : ringing'[d] \in {None, ringing[d]}
      BY <1>2 DEF RingAnswered, TypeInv, TypeOK
    <2> QED
      BY <2>1, <2>2, TablesStay
  <1> QED
    BY <1>1, <1>2

LEMMA LoseSafe ==
    ASSUME TypeInv, build = "test", Safe, NEW c \in Connections, Lose(c)
    PROVE  Safe'
  <1>1. /\ TypeOK /\ TablesInv /\ RingInv /\ conn[c] = "live"
        /\ UNCHANGED <<build, rooms, participant, cleanup>>
    BY DEF Lose, TypeInv, Safe, dbVars, startVars
  <1>2. /\ \A d \in Connections : conn'[d] = IF d = c THEN "lost" ELSE conn[d]
        /\ \A d \in Connections : d # c => view'[d] = view[d]
        /\ \A d \in Connections : ringing'[d] \in {None, ringing[d]}
    BY <1>1 DEF Lose, TypeOK
  <1>3. Idle'
    BY DEF Lose, Served, Safe, TablesInv, Idle
  <1>4. SeatsInv'
    <2>1. \A u \in Users : Answered(participant, u) => participant[u].answering \in Connections
      BY <1>1, RowParts DEF TypeOK, Answered
    <2> QED
      BY <1>1, <1>2, <2>1 DEF TablesInv, SeatsInv, Answered
  <1>5. CleanupInv'
    <2>1. ASSUME NEW r \in Rooms, NEW u \in StaleUsers(r)'
          PROVE  u \in StaleUsers(r)
      <3>1. participant[u].answering \in Connections
        BY <1>1, <2>1, RowParts DEF TypeOK, StaleUsers, Answered
      <3> QED
        BY <1>1, <1>2, <2>1, <3>1 DEF StaleUsers, InRoom, Answered
    <2> QED
      BY <1>1, <2>1 DEF TablesInv, CleanupInv
  <1>6. PendingHasCaller' /\ RoomsInhabited'
    BY <1>1 DEF TablesInv, PendingHasCaller, RoomsInhabited, Inhabited, Answered, Pending, InRoom
  <1>7. ViewIsCurrent'
    BY <1>1, <1>2 DEF TablesInv, ViewIsCurrent, AnsweredBy, RoomView, InRoom
  <1>8. RingInv'
    BY <1>1, <1>2 DEF RingInv, InRoom, Answered
  <1> QED
    BY <1>3, <1>4, <1>5, <1>6, <1>7, <1>8 DEF Safe, TablesInv

LEMMA OutlivesSafe ==
    ASSUME TypeInv, build = "test", Safe, NEW c \in Connections, Outlives(c)
    PROVE  Safe'
  <1>1. CASE Expire(c)
    <2>1. Ask("expire", None, None) \in Task /\ Ask("expire", None, None).op = "expire"
      BY AskOptional DEF OptionalOps
    <2> QED
      BY <1>1, <2>1, LeaveSafe DEF Expire
  <1>2. CASE CheckOnline(c)
    <2>1. \E state : conn' = [conn EXCEPT ![c] = state]
      BY <1>2 DEF CheckOnline
    <2>2. /\ UNCHANGED <<build, rooms, participant, task, view, cleanup>>
          /\ \A d \in Connections : ringing'[d] \in {None, ringing[d]}
      BY <1>2 DEF CheckOnline, dbVars, startVars
    <2>3. ~AnsweredBy(Owner[c], c)
      BY <1>2, OwnerAssumption, NoneAssumption
      DEF CheckOnline, Safe, TablesInv, SeatsInv, Answered, AnsweredBy
    <2> QED
      BY <2>1, <2>2, <2>3, SeatlessStep DEF TypeInv
  <1>3. CASE DeclineOffline(c)
    <2>1. Ask("offline", None, None) \in Task /\ Ask("offline", None, None).op = "offline"
      BY AskOptional DEF OptionalOps
    <2> QED
      BY <1>3, <2>1, DeclineSafe DEF DeclineOffline
  <1> QED
    BY <1>1, <1>2, <1>3 DEF Outlives

LEMMA ConnectSafe ==
    ASSUME TypeInv, build = "test", Safe,
           NEW u \in Users, NEW old \in Connections \cup {None}, Connect(u, old)
    PROVE  Safe'
  <1> DEFINE c == CHOOSE d \in Connections : Owner[d] = u /\ conn[d] = "unused"
  <1>1. c \in Connections /\ conn[c] = "unused"
    BY DEF Connect
  <1>2. /\ conn' = [conn EXCEPT ![c] = "live"]
        /\ UNCHANGED <<build, rooms, participant, task, view, cleanup>>
        /\ \A d \in Connections : ringing'[d] \in {None, ringing[d]}
    BY DEF Connect, dbVars, startVars
  <1> HIDE DEF c
  <1>3. ~AnsweredBy(Owner[c], c)
    BY <1>1, OwnerAssumption, NoneAssumption
    DEF Safe, TablesInv, SeatsInv, Answered, AnsweredBy
  <1> QED
    BY <1>1, <1>2, <1>3, SeatlessStep DEF TypeInv

LEMMA RestartSafe ==
    ASSUME TypeInv, build = "test", Safe, Restart
    PROVE  Safe'
  <1>1. /\ TypeOK /\ TablesInv
        /\ UNCHANGED <<build, rooms, participant>>
        /\ \A d \in Connections : conn'[d] = IF conn[d] = "unused" THEN "unused" ELSE "stale"
        /\ \A d \in Connections : ringing'[d] = None
        /\ \A w \in Workers : task'[w] = None
        /\ cleanup'.phase = "waiting"
    BY DEF Restart, TypeInv, Safe, dbVars
  <1>2. Idle' /\ RingInv' /\ CleanupInv'
    BY <1>1 DEF Idle, RingInv, CleanupInv
  <1>3. SeatsInv'
    <2>1. \A u \in Users : Answered(participant, u) => participant[u].answering \in Connections
      BY <1>1, RowParts DEF TypeOK, Answered
    <2> QED
      BY <1>1, <2>1 DEF TablesInv, SeatsInv, Answered
  <1>4. PendingHasCaller' /\ RoomsInhabited'
    BY <1>1 DEF TablesInv, PendingHasCaller, RoomsInhabited, Inhabited, Answered, Pending, InRoom
  <1>5. ViewIsCurrent'
    BY <1>1 DEF ViewIsCurrent
  <1> QED
    BY <1>2, <1>3, <1>4, <1>5 DEF Safe, TablesInv

(* clear_stale_room_participants never fails either.                        *)
LEMMA ClearRoomSafe ==
    ASSUME TypeInv, build = "test", Safe, NEW r \in Rooms, ClearRoom(r)
    PROVE  Safe'
  <1> DEFINE t == Ask("clear", r, None)
             S == StaleUsers(r)
             table == Without(S \cup CalledBy(S))
  <1>1. ClearStale(Starter, t) /\ UNCHANGED <<task, holder, build, conn, restarts, using>>
    <2>1. /\ Statements(Starter, t)
          /\ UNCHANGED <<task, holder, build, conn, restarts, using>>
      BY TestTransaction DEF ClearRoom
    <2> QED
      BY <2>1 DEF Statements, Ask
  <1>2. /\ TypeOK /\ TablesInv /\ PendingHasCaller /\ t.room = r /\ S \in SUBSET Users
        /\ \A u \in S : InRoom(participant, u, r) /\ Answered(participant, u)
        /\ t.stage # "calls"
    BY DEF TypeInv, Safe, TablesInv, Ask, StaleUsers
  <1>3. cleanup' = [cleanup EXCEPT !.todo = @ \ {r}] /\ ringing' = ringing
    BY <1>1, <1>2 DEF ClearStale
  <1>4. cleanup'.phase = cleanup.phase /\ cleanup'.todo = cleanup.todo \ {r}
    BY <1>2, <1>3 DEF TypeOK
  <1>5. /\ \A u \in Users : table[u] \in {None, participant[u]}
        /\ (\E u \in Users : InRoom(table, u, r)) => Inhabited(table, r)
    <2>1. /\ table = Without(S \cup CalledBy(S))
          /\ TypeOK /\ PendingHasCaller /\ S \in SUBSET Users
          /\ \A u \in S : InRoom(participant, u, r) /\ Answered(participant, u)
      BY <1>2
    <2> HIDE DEF table, S, t
    <2> QED
      BY ONLY build = "test", <2>1, RemovalTable, Zenon
  <1>6. CASE rooms[r] # "open"
    <2>1. UNCHANGED <<rooms, participant, view>>
      BY <1>1, <1>2, <1>6 DEF ClearStale, dbVars
    <2>2. S = {}
      BY <1>2, <1>6 DEF TablesInv, RoomsInhabited, Inhabited
    <2>3. CleanupInv'
      <3>1. \A q \in Rooms : StaleUsers(q)' = StaleUsers(q)
        BY <1>1, <2>1 DEF StaleUsers, InRoom, Answered
      <3> QED
        BY <1>2, <1>4, <2>2, <3>1 DEF TablesInv, CleanupInv
    <2>4. Idle' /\ SeatsInv' /\ PendingHasCaller' /\ RoomsInhabited' /\ ViewIsCurrent'
      BY <1>1, <1>2, <2>1 DEF TablesInv, Idle, SeatsInv, PendingHasCaller, RoomsInhabited,
         ViewIsCurrent, Inhabited, Answered, Pending, InRoom, AnsweredBy, RoomView
    <2>5. RingInv'
      BY <1>3, <2>1 DEF Safe, RingInv, InRoom, Answered
    <2> QED
      BY <2>3, <2>4, <2>5 DEF Safe, TablesInv
  <1>7. CASE rooms[r] = "open"
    <2>1. /\ Changed(table, r)
          /\ rooms' = IF Inhabited(table, r) THEN rooms ELSE [rooms EXCEPT ![r] = "deleted"]
      BY <1>1, <1>2, <1>5, <1>7 DEF ClearStale, Undeletable
    <2>2. TablesInv'
      <3>1. table = Without(S \cup CalledBy(S)) /\ StaleUsers(r) \subseteq S
        OBVIOUS
      <3> HIDE DEF table, S
      <3>2. \A q \in Rooms : q \in cleanup.todo /\ q \notin cleanup'.todo =>
                q = r /\ StaleUsers(r) \subseteq S
        BY <1>4, <3>1
      <3>3. /\ \A c \in Connections : conn'[c] = "live" => conn[c] = "live"
            /\ \A c \in Connections : conn'[c] = "stale" => conn[c] = "stale"
            /\ \A u \in Users \ S : Answered(participant, u) =>
                   conn'[participant[u].answering] = conn[participant[u].answering]
            /\ UNCHANGED <<build, task>>
        BY <1>1
      <3> QED
        BY <1>2, <1>4, <2>1, <3>1, <3>2, <3>3, RemovalStep
    <2>3. RingInv'
      <3>1. participant' = table
        BY <2>1 DEF Changed, Write
      <3>2. ASSUME NEW d \in Connections, ringing[d] # None
            PROVE  /\ rooms'[ringing[d].room] # "unborn"
                   /\ ~(/\ InRoom(participant', ringing[d].user, ringing[d].room)
                        /\ Answered(participant', ringing[d].user))
        <4>1. ringing[d].user \in Users /\ ringing[d].room \in Rooms
          BY <1>2, <3>2 DEF TypeOK, Ring
        <4>2. rooms'[ringing[d].room] # "unborn"
          BY <1>2, <2>1, <3>2, <4>1 DEF TypeOK, Safe, RingInv
        <4>3. participant'[ringing[d].user] \in {None, participant[ringing[d].user]}
          BY <1>5, <3>1, <4>1
        <4> QED
          BY <3>2, <4>1, <4>2, <4>3 DEF Safe, RingInv, InRoom, Answered
      <3> QED
        BY <1>3, <3>2 DEF RingInv
    <2> QED
      BY <2>2, <2>3 DEF Safe
  <1> QED
    BY <1>6, <1>7

(* When all rooms are cleared, no row is left that delete_stale_servers     *)
(* would take along without a word to anybody.                              *)
LEMMA FinishCleanupSafe ==
    ASSUME TypeInv, build = "test", Safe, FinishCleanup
    PROVE  Safe' /\ participant' = participant
  <1> DEFINE gone == UNION {StaleUsers(r) : r \in Rooms}
  <1>1. gone = {}
    BY DEF FinishCleanup, Safe, TablesInv, CleanupInv
  <1>2. /\ participant' = Without(gone)
        /\ cleanup' = [cleanup EXCEPT !.phase = "idle"]
        /\ UNCHANGED <<build, rooms, conn, task, ringing, view>>
    BY DEF FinishCleanup, Write
  <1>3. participant' = participant
    BY <1>1, <1>2 DEF Without, TypeInv, TypeOK
  <1>4. cleanup'.phase = "idle"
    BY <1>2 DEF TypeInv, TypeOK
  <1>5. CleanupInv'
    BY <1>4 DEF CleanupInv
  <1>6. TablesInv'
    <2>1. UNCHANGED <<build, rooms, conn, task, view, participant>>
      BY <1>2, <1>3
    <2>2. Idle' /\ SeatsInv'
      BY <2>1 DEF Safe, TablesInv, Idle, SeatsInv, Answered
    <2>3. PendingHasCaller' /\ RoomsInhabited'
      BY <2>1 DEF Safe, TablesInv, PendingHasCaller, RoomsInhabited, Inhabited, Answered,
         Pending, InRoom
    <2>4. ViewIsCurrent'
      BY <2>1 DEF Safe, TablesInv, ViewIsCurrent, AnsweredBy, RoomView, InRoom
    <2> QED
      BY <1>5, <2>2, <2>3, <2>4 DEF TablesInv
  <1>7. RingInv'
    BY <1>2, <1>3 DEF Safe, RingInv, InRoom, Answered
  <1> QED
    BY <1>3, <1>5, <1>6, <1>7 DEF Safe, TablesInv

LEMMA StartCleanupSafe ==
    ASSUME build = "test", Safe, StartCleanup
    PROVE  Safe'
  <1>1. /\ cleanup'.todo = {r \in Rooms : StaleUsers(r) # {}}
        /\ UNCHANGED <<build, rooms, participant, conn, task, ringing, view>>
    BY DEF StartCleanup, dbVars
  <1>2. CleanupInv'
    <2>1. \A r \in Rooms : StaleUsers(r)' = StaleUsers(r)
      BY <1>1 DEF StaleUsers, InRoom, Answered
    <2> QED
      BY <1>1, <2>1 DEF CleanupInv
  <1>3. Idle' /\ SeatsInv' /\ PendingHasCaller' /\ RoomsInhabited' /\ ViewIsCurrent'
    BY <1>1 DEF Safe, TablesInv, Idle, SeatsInv, PendingHasCaller, RoomsInhabited,
       ViewIsCurrent, Inhabited, Answered, Pending, InRoom, AnsweredBy, RoomView
  <1>4. RingInv'
    BY <1>1 DEF Safe, RingInv, InRoom, Answered
  <1> QED
    BY <1>2, <1>3, <1>4 DEF Safe, TablesInv
-----------------------------------------------------------------------------
(* No transaction is ever found open.                                       *)
LEMMA NothingProceeds ==
    ASSUME Safe
    PROVE  /\ \A w \in Workers : ~DeleteStale(w) /\ ~Proceed(w)
           /\ \A c \in Connections : ~Continues(c)
  <1>1. \A w \in Workers : task[w] = None
    BY DEF Safe, TablesInv, Idle
  <1>2. ASSUME NEW w \in Workers
        PROVE  ~DeleteStale(w) /\ ~Proceed(w)
    BY <1>1 DEF DeleteStale, Proceed
  <1>3. ASSUME NEW c \in Connections
        PROVE  ~DeleteRow(c) /\ ~DeleteCalls(c) /\ ~DeleteRoom(c) /\ ~ProceedOptional(c)
    <2>1. task[c] = None
      BY <1>1, TasksApart
    <2> QED
      BY <2>1 DEF DeleteRow, DeleteCalls, DeleteRoom, ProceedOptional
  <1> QED
    BY <1>2, <1>3 DEF Continues

LEMMA BuildStays ==
    ASSUME [Next]_vars
    PROVE  build' = build
  <1>1. ASSUME NEW w, NEW t, RoomTransaction(w, t) \/ OptionalRoomTransaction(w, t)
        PROVE  build' = build
    BY <1>1 DEF RoomTransaction, OptionalRoomTransaction
  <1>2. ASSUME NEW c \in Connections, Requests(c)
        PROVE  build' = build
    <2>1. ASSUME NEW u \in Users, Invite(c, u) \/ CancelInvite(c, u)
          PROVE  build' = build
      BY <1>1, <2>1 DEF Invite, CancelInvite
    <2>2. CASE CreateRoom(c)
      BY <2>2 DEF CreateRoom
    <2>3. CASE AcceptIncoming(c) \/ Rejoin(c) \/ HangUp(c) \/ DeclineIncoming(c)
      BY <1>1, <2>3 DEF AcceptIncoming, Rejoin, HangUp, DeclineIncoming
    <2> QED
      BY <1>2, <2>1, <2>2, <2>3 DEF Requests
  <1>3. ASSUME NEW c \in Connections,
               \/ RingUser(c) \/ RingAnswered(c) \/ RingRefused(c) \/ RingFails(c)
               \/ Quit(c) \/ Lose(c) \/ Outlives(c) \/ Continues(c)
        PROVE  build' = build
    BY <1>1, <1>3 DEF RingUser, RingAnswered, RingRefused, RingFails, Quit, Lose, Outlives,
       Expire, CheckOnline, DeclineOffline, Continues, DeleteRow, DeleteCalls, DeleteRoom,
       ProceedOptional
  <1>4. ASSUME NEW u \in Users, NEW old \in Connections \cup {None}, Connect(u, old)
        PROVE  build' = build
    BY <1>4 DEF Connect
  <1>5. CASE Restart
    BY <1>5 DEF Restart
  <1>6. CASE Cleanup
    <2>1. ASSUME NEW r \in Rooms, ClearRoom(r)
          PROVE  build' = build
      BY <1>1, <2>1 DEF ClearRoom
    <2> QED
      BY <1>6, <2>1 DEF Cleanup, StartCleanup, FinishCleanup
  <1>7. ASSUME NEW w \in Workers, DeleteStale(w) \/ Proceed(w)
        PROVE  build' = build
    BY <1>7 DEF DeleteStale, Proceed
  <1>8. CASE UNCHANGED vars
    BY <1>8 DEF vars
  <1> QED
    BY <1>2, <1>3, <1>4, <1>5, <1>6, <1>7, <1>8 DEF Next

LEMMA SafeStep ==
    ASSUME IInv, [Next]_vars, ~LateAnswers, ~EarlyInvites
    PROVE  IInv'
  <1>1. TypeInv'
    BY TypeStep DEF IInv
  <1>2. build' = build
    BY BuildStays
  <1>3. ASSUME build = "test"
        PROVE  Safe'
    <2>1. TypeInv /\ Safe
      BY <1>3 DEF IInv
    <2>2. ASSUME NEW c \in Connections,
                 \/ Requests(c)
                 \/ RingUser(c) \/ RingAnswered(c) \/ RingRefused(c) \/ RingFails(c)
                 \/ Lose(c) \/ Outlives(c)
          PROVE  Safe'
      BY <1>3, <2>1, <2>2, RequestsSafe, RingSafe, RingFailsSafe, LoseSafe, OutlivesSafe
    <2>3. ASSUME NEW c \in Connections, Quit(c)
          PROVE  Safe'
      BY <2>1, <2>3, TablesStay DEF Quit, dbVars, startVars
    <2>4. ASSUME NEW u \in Users, NEW old \in Connections \cup {None}, Connect(u, old)
          PROVE  Safe'
      BY <1>3, <2>1, <2>4, ConnectSafe
    <2>5. CASE Restart
      BY <1>3, <2>1, <2>5, RestartSafe
    <2>6. CASE Cleanup
      BY <1>3, <2>1, <2>6, StartCleanupSafe, ClearRoomSafe, FinishCleanupSafe DEF Cleanup
    <2>7. CASE UNCHANGED vars
      BY <2>1, <2>7, TablesStay DEF vars, dbVars, startVars
    <2> QED
      BY <2>1, <2>2, <2>3, <2>4, <2>5, <2>6, <2>7, NothingProceeds DEF Next
  <1> QED
    BY <1>1, <1>2, <1>3 DEF IInv

LEMMA SafeInit ==
    ASSUME Init
    PROVE  IInv
  <1>1. TypeInv
    BY MaxRestartsAssumption
    DEF Init, TypeInv, TypeOK, TaskInv, OpInv, View, Row, Workers
  <1>2. Safe
    BY DEF Init, Safe, TablesInv, Idle, SeatsInv, RingInv, CleanupInv, PendingHasCaller,
       RoomsInhabited, ViewIsCurrent, Inhabited, Answered, Pending, InRoom, AnsweredBy
  <1> QED
    BY <1>1, <1>2 DEF IInv

(* If callers are in the room when they call, and calls are answered after  *)
(* they have been acknowledged: whoever is being called is called by        *)
(* somebody who is in the room; a room exists as long as somebody is in it; *)
(* the last message about a room says how it is; and the seat of a          *)
(* connection is given up when its leave has been served, which therefore   *)
(* never fails.                                                             *)
THEOREM RoomsAreKept ==
    ASSUME ~LateAnswers, ~EarlyInvites
    PROVE  Spec => []PendingHasCaller /\ []RoomsInhabited /\ []ViewIsCurrent /\ []SeatGivenUp
  <1>1. Init => IInv
    BY SafeInit
  <1>2. IInv /\ [Next]_vars => IInv'
    BY SafeStep
  <1>3. IInv => PendingHasCaller /\ RoomsInhabited /\ ViewIsCurrent
    BY DEF IInv, Safe, TablesInv, PendingHasCaller, RoomsInhabited, ViewIsCurrent
  <1>4. IInv => SeatGivenUp
    BY OwnerAssumption, NoneAssumption
    DEF IInv, Safe, TablesInv, SeatsInv, SeatGivenUp, AnsweredBy, Answered
  <1> QED
    BY <1>1, <1>2, <1>3, <1>4, PTL DEF Spec
-----------------------------------------------------------------------------
(***************************************************************************)
(* A client keeps its seat, in both builds and whatever clients do.  The   *)
(* invariant says of an open transaction what its handler relies on: the   *)
(* client that leaves or declines is in no room, and all requests of the   *)
(* ring that has failed have failed for good.                              *)
(***************************************************************************)
Fails(w, t) ==
    /\ ringing[w] # None
    /\ ringing[w].room = t.room
    /\ ringing[w].user = t.other
    /\ ringing[w].sent
    /\ \A d \in ringing[w].targets : conn[d] # "live"

TargetsInv ==
    \A c \in Connections :
        ringing[c] # None => \A d \in ringing[c].targets : conn[d] # "unused"

OpenInv ==
    \A c \in Connections :
        task[c] # None =>
            /\ task[c].op # "clear"
            /\ task[c].op \in LockedOps => task[c].stage = "open"
            /\ task[c].op \in {"leave", "decline"} => conn[c] # "unused" /\ joined[c] = None
            /\ task[c].op = "call_failed" => Fails(c, task[c])

(* In a test build whose clients wait for the rings: nobody who has a seat  *)
(* is being rung for it.                                                    *)
BornInv == \A u \in Users : participant[u] # None => rooms[participant[u].room] # "unborn"

Prompt == build = "test" /\ ~LateAnswers

SeatInv == TypeInv /\ TargetsInv /\ OpenInv /\ (Prompt => Idle /\ BornInv /\ RingInv)
-----------------------------------------------------------------------------
(* What the statements under the mutex leave alone.                         *)
LEMMA StatementsElsewhere ==
    ASSUME TypeOK, NEW w \in Workers, NEW t, Formed(w, t), Statements(w, t)
    PROVE  /\ \A d \in Connections : d # w => ringing'[d] = ringing[d] /\ joined'[d] = joined[d]
           /\ \A d \in Connections : ringing'[d] # None =>
                  ringing'[d] = ringing[d] \/ ringing'[d].targets = {}
  <1>1. CASE t.op = "call" /\ Call(w, t)
    <2> DEFINE ring == [room |-> t.room, user |-> t.other, sent |-> FALSE, targets |-> {}]
    <2>1. joined' = joined
      BY <1>1 DEF Call
    <2>2. ringing' = [ringing EXCEPT ![w] = ring] \/ ringing' = ringing
      BY <1>1 DEF Call
    <2>3. ring.targets = {}
      OBVIOUS
    <2> HIDE DEF ring
    <2> QED
      BY <2>1, <2>2, <2>3 DEF TypeOK
  <1>2. CASE t.op = "call_failed" /\ CallFailed(w, t)
    BY <1>2 DEF CallFailed, TypeOK
  <1>3. CASE t.op = "cancel" /\ CancelCall(w, t)
    BY <1>3 DEF CancelCall
  <1>4. CASE t.op = "join" /\ JoinRoom(w, t)
    <2>1. ringing' = ringing
      BY <1>4 DEF JoinRoom
    <2>2. joined' = [joined EXCEPT ![w] = t.room] \/ joined' = joined
      BY <1>4 DEF JoinRoom
    <2> QED
      BY <2>1, <2>2 DEF TypeOK
  <1>5. CASE t.op = "rejoin" /\ RejoinRoom(w, t)
    BY <1>5 DEF RejoinRoom
  <1>6. CASE t.op = "clear" /\ ClearStale(w, t)
    BY <1>6 DEF ClearStale
  <1> QED
    BY <1>1, <1>2, <1>3, <1>4, <1>5, <1>6 DEF Statements

(* Connections come to life once.                                           *)
ConnAges ==
    \A c \in Connections :
        /\ conn'[c] = "unused" => conn[c] = "unused"
        /\ conn'[c] = "live" => conn[c] \in {"unused", "live"}

(* The transactions of connections end or get ahead; none is opened.        *)
LEMMA OpenOnesGoOn ==
    ASSUME TypeInv, TargetsInv, OpenInv, ConnAges,
           \A c \in Connections : task'[c] # None =>
               /\ task[c] # None
               /\ \/ task'[c] = task[c]
                  \/ task'[c].op = task[c].op /\ task[c].op \in OptionalOps
               /\ task[c].op \in {"leave", "decline"} => joined'[c] \in {None, joined[c]}
               /\ task[c].op = "call_failed" => ringing'[c] = ringing[c],
           TargetsInv'
    PROVE  OpenInv'
  <1>1. SUFFICES ASSUME NEW c \in Connections, task'[c] # None
                 PROVE  /\ task'[c].op # "clear"
                        /\ task'[c].op \in LockedOps => task'[c].stage = "open"
                        /\ task'[c].op \in {"leave", "decline"} =>
                               conn'[c] # "unused" /\ joined'[c] = None
                        /\ task'[c].op = "call_failed" => Fails(c, task[c])'
    BY DEF OpenInv
  <1>2. /\ task[c] # None /\ task[c].op # "clear"
        /\ task[c].op \in LockedOps => task[c].stage = "open"
        /\ task[c].op \in {"leave", "decline"} => conn[c] # "unused" /\ joined[c] = None
        /\ task[c].op = "call_failed" => Fails(c, task[c])
    BY <1>1 DEF OpenInv
  <1>3. /\ task'[c].op = task[c].op
        /\ task'[c].op # "clear"
        /\ task'[c].op \in {"leave", "decline"} => conn'[c] # "unused" /\ joined'[c] = None
    BY <1>1, <1>2 DEF ConnAges
  <1>4. task'[c].op \in LockedOps => task'[c].stage = "open"
    BY <1>1, <1>2, TasksApart
  <1>5. ASSUME task'[c].op = "call_failed"
        PROVE  Fails(c, task[c])'
    <2>1. task'[c] = task[c] /\ ringing'[c] = ringing[c]
      BY <1>1, <1>3, <1>5 DEF OptionalOps
    <2>2. Fails(c, task[c])
      BY <1>2, <1>3, <1>5
    <2>3. ringing[c].targets \subseteq Connections
      BY <2>2 DEF Fails, TypeInv, TypeOK, Ring
    <2>4. \A d \in ringing[c].targets : conn'[d] # "live"
      BY <2>2, <2>3 DEF Fails, TargetsInv, ConnAges
    <2> QED
      BY <2>1, <2>2, <2>4 DEF Fails
  <1> QED
    BY <1>3, <1>4, <1>5

(* The ringing goes on while everybody stays.                               *)
LEMMA TargetsStay ==
    ASSUME TypeOK, TargetsInv, ConnAges,
           \A c \in Connections : ringing'[c] # None =>
               \/ ringing'[c].targets = {}
               \/ ringing[c] # None /\ ringing'[c].targets \subseteq ringing[c].targets
    PROVE  TargetsInv'
  <1>1. SUFFICES ASSUME NEW c \in Connections, ringing'[c] # None,
                        NEW d \in ringing'[c].targets
                 PROVE  conn'[d] # "unused"
    BY DEF TargetsInv
  <1>2. ringing[c] # None /\ d \in ringing[c].targets
    BY <1>1
  <1>3. d \in Connections /\ conn[d] # "unused"
    BY <1>2 DEF TargetsInv, TypeOK, Ring
  <1> QED
    BY <1>3 DEF ConnAges

(* A transaction that may wait for a mutex is opened.                       *)
LEMMA RoomTransactionOpens ==
    ASSUME TypeInv, TargetsInv, OpenInv, NEW w \in Workers, NEW t, Formed(w, t),
           t.op \in LockedOps, t.stage = "open",
           w \in Connections => t.op # "clear",
           t.op = "call_failed" => Fails(w, t),
           RoomTransaction(w, t)
    PROVE  TargetsInv' /\ OpenInv'
  <1>1. /\ TypeOK /\ ConnAges /\ task[w] = None /\ conn' = conn
    BY DEF RoomTransaction, TypeInv, ConnAges
  <1>2. CASE Statements(w, t) /\ UNCHANGED task
    <2>1. TargetsInv'
      BY <1>1, <1>2, StatementsElsewhere, TargetsStay
    <2> QED
      BY <1>1, <1>2, <2>1, StatementsElsewhere, OpenOnesGoOn
  <1>3. CASE /\ task' = [task EXCEPT ![w] = t]
             /\ UNCHANGED <<ringing, joined>>
    <2>1. TargetsInv'
      BY <1>1, <1>3 DEF TargetsInv
    <2>2. ASSUME NEW c \in Connections, task'[c] # None
          PROVE  /\ task'[c].op # "clear"
                 /\ task'[c].op \in LockedOps => task'[c].stage = "open"
                 /\ task'[c].op \in {"leave", "decline"} =>
                        conn'[c] # "unused" /\ joined'[c] = None
                 /\ task'[c].op = "call_failed" => Fails(c, task[c])'
      <3>1. CASE c = w
        <4>1. task'[c] = t
          BY <1>1, <1>3, <3>1 DEF TypeOK
        <4>2. t.op \notin {"leave", "decline"}
          BY DEF LockedOps
        <4>3. t.op = "call_failed" => Fails(c, task[c])'
          BY <1>1, <1>3, <3>1, <4>1 DEF Fails
        <4> QED
          BY <1>1, <3>1, <4>1, <4>2, <4>3
      <3>2. CASE c # w
        <4>1. task'[c] = task[c]
          BY <1>1, <1>3, <3>2 DEF TypeOK
        <4> QED
          BY <1>1, <1>3, <2>2, <4>1 DEF OpenInv, Fails
      <3> QED
        BY <3>1, <3>2
    <2> QED
      BY <2>1, <2>2 DEF OpenInv
  <1> QED
    BY <1>2, <1>3 DEF RoomTransaction

LEMMA OptionalOpens ==
    ASSUME TypeInv, TargetsInv, OpenInv, NEW c \in Connections, NEW t \in Task,
           t.op \in OptionalOps, conn[c] # "unused",
           t.op \in {"leave", "decline"} => joined'[c] = None,
           t.op = "expire" => conn[c] = "lost",
           t.op = "offline" => conn[c] = "offline",
           \A d \in Connections : joined'[d] \in {None, joined[d]},
           OptionalRoomTransaction(c, t)
    PROVE  TargetsInv' /\ OpenInv'
  <1> DEFINE x == Executed(c, t)
             y == [t EXCEPT !.room = participant[Owner[c]].room, !.stage = "found"]
  <1>1. TypeOK /\ task[c] = None /\ UNCHANGED ringing /\ c \in Workers
    BY TasksApart DEF OptionalRoomTransaction, TypeInv
  <1>a. ASSUME NEW z, z.op = t.op, AfterOptional(c, z)
        PROVE  ConnAges
    BY <1>1, <1>a DEF AfterOptional, ConnAges, TypeOK
  <1>2. CASE ConnAges /\ UNCHANGED task
    <2>1. TargetsInv'
      BY <1>1, <1>2, TargetsStay
    <2> QED
      BY <1>1, <1>2, <2>1, OpenOnesGoOn
  <1>3. CASE AfterOptional(c, t) /\ UNCHANGED task
    BY <1>2, <1>3, <1>a
  <1>4. CASE Found(c, t) # {} /\ Commit(c, x) /\ UNCHANGED task
    <2>1. x.op = t.op /\ AfterOptional(c, x)
      BY <1>1, <1>4, ExecutedFormed DEF Commit
    <2> HIDE DEF x
    <2> QED
      BY <1>2, <1>4, <1>a, <2>1
  <1>5. CASE task' = [task EXCEPT ![c] = y] /\ UNCHANGED conn
    <2>1. TargetsInv'
      BY <1>1, <1>5 DEF TargetsInv
    <2>2. y.op = t.op
      BY DEF Task
    <2> HIDE DEF y
    <2>3. ASSUME NEW d \in Connections, task'[d] # None
          PROVE  /\ task'[d].op # "clear"
                 /\ task'[d].op \in LockedOps => task'[d].stage = "open"
                 /\ task'[d].op \in {"leave", "decline"} =>
                        conn'[d] # "unused" /\ joined'[d] = None
                 /\ task'[d].op = "call_failed" => Fails(d, task[d])'
      <3>1. CASE d = c
        <4>1. task'[d].op = t.op
          BY <1>1, <1>5, <2>2, <3>1 DEF TypeOK
        <4>2. t.op \notin LockedOps /\ t.op \notin {"clear", "call_failed"}
          BY DEF OptionalOps, LockedOps
        <4> QED
          BY <1>5, <3>1, <4>1, <4>2
      <3>2. CASE d # c
        <4>1. task'[d] = task[d]
          BY <1>1, <1>5, <3>2 DEF TypeOK
        <4> QED
          BY <1>1, <1>5, <2>3, <4>1 DEF OpenInv, Fails
      <3> QED
        BY <3>1, <3>2
    <2> QED
      BY <2>1, <2>3 DEF OpenInv
  <1> QED
    BY <1>3, <1>4, <1>5 DEF OptionalRoomTransaction

(* A transaction ends, and nothing is opened.                               *)
LEMMA ServedOpen ==
    ASSUME TypeInv, TargetsInv, OpenInv, NEW w \in Workers, Served(w), ConnAges,
           \A d \in Connections : d # w => ringing'[d] = ringing[d] /\ joined'[d] = joined[d],
           \A d \in Connections : ringing'[d] # None =>
               ringing'[d] = ringing[d] \/ ringing'[d].targets = {}
    PROVE  TargetsInv' /\ OpenInv'
  <1>1. TargetsInv'
    BY TargetsStay DEF TypeInv
  <1>2. task'[w] = None /\ \A x \in Workers \ {w} : task'[x] = task[x]
    BY ServedType
  <1>3. \A d \in Connections : d # w => task'[d] = task[d]
    BY <1>2, TasksApart
  <1> QED
    BY <1>1, <1>2, <1>3, OpenOnesGoOn

LEMMA ProceedOpen ==
    ASSUME TypeInv, TargetsInv, OpenInv, NEW w \in Workers, Proceed(w)
    PROVE  TargetsInv' /\ OpenInv'
  <1>1. /\ TypeOK /\ Formed(w, task[w]) /\ Statements(w, task[w]) /\ Served(w)
        /\ ConnAges
    BY DEF Proceed, TypeInv, TaskInv, ConnAges
  <1>2. /\ \A d \in Connections : d # w => ringing'[d] = ringing[d] /\ joined'[d] = joined[d]
        /\ \A d \in Connections : ringing'[d] # None =>
               ringing'[d] = ringing[d] \/ ringing'[d].targets = {}
    BY <1>1, StatementsElsewhere
  <1> QED
    BY <1>1, <1>2, ServedOpen

LEMMA DeleteStaleOpen ==
    ASSUME TypeInv, TargetsInv, OpenInv, NEW w \in Workers, DeleteStale(w)
    PROVE  TargetsInv' /\ OpenInv'
  <1>1. UNCHANGED <<conn, ringing, joined>> /\ TypeOK
    BY DEF DeleteStale, clientVars, TypeInv
  <1>2. w \notin Connections
    BY DEF DeleteStale, OpenInv
  <1>3. \A d \in Connections : task'[d] = task[d]
    BY <1>1, <1>2, TasksApart DEF DeleteStale, TypeOK
  <1>4. ConnAges
    BY <1>1 DEF ConnAges
  <1>5. TargetsInv'
    BY <1>1, <1>4, TargetsStay
  <1> QED
    BY <1>1, <1>3, <1>4, <1>5, OpenOnesGoOn

LEMMA ContinuesOpen ==
    ASSUME TypeInv, TargetsInv, OpenInv, NEW c \in Connections, Continues(c)
    PROVE  TargetsInv' /\ OpenInv'
  <1>1. TypeOK /\ c \in Workers /\ UNCHANGED <<ringing, joined>>
    BY TasksApart DEF Continues, DeleteRow, DeleteCalls, DeleteRoom, ProceedOptional, clientVars,
       TypeInv
  <1>2. task[c] # None /\ task[c] \in Task /\ task[c].op \in OptionalOps
    <2>1. task[c] # None /\ task[c] \in Task
      BY <1>1 DEF Continues, DeleteRow, DeleteCalls, DeleteRoom, ProceedOptional, TypeOK
    <2>2. task[c].stage # "open" \/ task[c].op \in OptionalOps
      BY DEF Continues, DeleteRow, DeleteCalls, DeleteRoom, ProceedOptional
    <2>3. task[c].op \in LockedOps \cup OptionalOps
      BY <2>1 DEF Task
    <2> QED
      BY <2>1, <2>2, <2>3 DEF OpenInv
  <1>3. CASE Served(c) /\ AfterOptional(c, task[c])
    <2>1. ConnAges
      BY <1>1, <1>3 DEF AfterOptional, ConnAges, TypeOK
    <2> QED
      BY <1>1, <1>3, <2>1, ServedOpen
  <1>4. ASSUME NEW x, x.op = task[c].op, task' = [task EXCEPT ![c] = x], UNCHANGED conn
        PROVE  TargetsInv' /\ OpenInv'
    <2>1. ConnAges
      BY <1>4 DEF ConnAges
    <2>2. TargetsInv'
      BY <1>1, <2>1, TargetsStay
    <2>3. \A d \in Connections : d # c => task'[d] = task[d]
      BY <1>1, <1>4 DEF TypeOK
    <2>4. task'[c].op = task[c].op
      BY <1>1, <1>4 DEF TypeOK
    <2>5. task[c].op # "call_failed"
      BY <1>2 DEF OptionalOps
    <2> QED
      BY <1>1, <1>2, <2>1, <2>2, <2>3, <2>4, OpenOnesGoOn
  <1>5. CASE DeleteRow(c)
    <2> DEFINE x == [task[c] EXCEPT !.gone = found[c]]
               y == [x EXCEPT !.stage = "calls"]
    <2>1. \/ task' = [task EXCEPT ![c] = y]
          \/ task' = [task EXCEPT ![c] = HasRead(x)]
      BY <1>5 DEF DeleteRow
    <2>2. conn' = conn
      BY <1>5 DEF DeleteRow
    <2>3. /\ x \in Task /\ x.op = task[c].op /\ y.op = task[c].op
      <3>1. found[c] \in SUBSET Users
        BY <1>1 DEF TypeOK
      <3> QED
        BY <1>2, <3>1 DEF Task
    <2> HIDE DEF x, y
    <2>4. HasRead(x).op = task[c].op
      BY <1>1, <2>3, HasReadType
    <2> DEFINE h == HasRead(x)
    <2>5. h = HasRead(x) /\ h.op = task[c].op
      BY <2>4
    <2> HIDE DEF h
    <2> QED
      BY <1>4, <2>1, <2>2, <2>3, <2>5
  <1>6. CASE DeleteCalls(c)
    <2> DEFINE x == [task[c] EXCEPT !.gone = @ \cup found[c]]
    <2>1. task' = [task EXCEPT ![c] = HasRead(x)] /\ conn' = conn
      BY <1>6 DEF DeleteCalls
    <2>2. x \in Task /\ x.op = task[c].op
      <3>1. found[c] \in SUBSET Users
        BY <1>1 DEF TypeOK
      <3> QED
        BY <1>2, <3>1 DEF Task
    <2> HIDE DEF x
    <2>3. HasRead(x).op = task[c].op
      BY <1>1, <2>2, HasReadType
    <2> DEFINE h == HasRead(x)
    <2>4. h = HasRead(x) /\ h.op = task[c].op
      BY <2>3
    <2> HIDE DEF h
    <2> QED
      BY <1>4, <2>1, <2>4
  <1>7. CASE DeleteRoom(c)
    <2> DEFINE x == [task[c] EXCEPT !.stage = "deleted"]
    <2>1. \/ Served(c) /\ AfterOptional(c, task[c])
          \/ task' = [task EXCEPT ![c] = x] /\ UNCHANGED conn
      BY <1>7 DEF DeleteRoom
    <2>2. x.op = task[c].op
      BY <1>2 DEF Task
    <2> HIDE DEF x
    <2> QED
      BY <1>3, <1>4, <2>1, <2>2
  <1>8. CASE ProceedOptional(c)
    BY <1>3, <1>8 DEF ProceedOptional, Commit
  <1> QED
    BY <1>5, <1>6, <1>7, <1>8 DEF Continues

LEMMA AskOpen ==
    ASSUME NEW op, NEW r, NEW u
    PROVE  /\ Ask(op, r, u).op = op /\ Ask(op, r, u).room = r /\ Ask(op, r, u).other = u
           /\ Ask(op, r, u).stage = "open" /\ Ask(op, r, u).gone = {}
  BY DEF Ask

LEMMA RequestsOpen ==
    ASSUME TypeInv, TargetsInv, OpenInv, NEW c \in Connections, Requests(c)
    PROVE  TargetsInv' /\ OpenInv'
  <1>t. /\ TypeOK /\ c \in Workers /\ Owner[c] \in Users
        /\ joined \in [Connections -> Rooms \cup {None}]
    BY TasksApart, OwnerAssumption DEF TypeInv, TypeOK
  <1>l. conn[c] = "live" /\ task[c] = None
    BY <1>t DEF Requests, CreateRoom, AcceptIncoming, Rejoin, HangUp, DeclineIncoming, Invite,
       CancelInvite, Acts, TypeOK
  <1>r. ASSUME NEW op \in {"call", "cancel", "join", "rejoin"}, NEW r \in Rooms,
               NEW u \in Users \cup {None}, op \in {"call", "cancel"} => u \in Users,
               RoomTransaction(c, Ask(op, r, u))
        PROVE  TargetsInv' /\ OpenInv'
    <2> DEFINE t == Ask(op, r, u)
    <2>1. op \in LockedOps /\ op \notin {"clear", "call_failed"}
      BY DEF LockedOps
    <2>2. Formed(c, t)
      BY <1>r, <1>t, <2>1, AskFormed
    <2>3. t.op = op /\ t.stage = "open"
      BY AskOpen
    <2>4. RoomTransaction(c, t)
      BY <1>r
    <2> HIDE DEF t
    <2> QED
      BY <1>l, <1>t, <2>1, <2>2, <2>3, <2>4, RoomTransactionOpens
  <1>1. CASE CreateRoom(c)
    <2>1. /\ UNCHANGED <<conn, task, ringing>>
          /\ \E r : joined' = [joined EXCEPT ![c] = r]
      BY <1>1 DEF CreateRoom
    <2>2. ConnAges /\ \A d \in Connections : d # c => joined'[d] = joined[d]
      BY <1>t, <2>1 DEF ConnAges
    <2>3. TargetsInv'
      BY <1>t, <2>1, <2>2, TargetsStay
    <2> QED
      BY <1>l, <2>1, <2>2, <2>3, OpenOnesGoOn
  <1>2. CASE AcceptIncoming(c)
    <2>1. participant[Owner[c]].room \in Rooms
      BY <1>t, <1>2, RowParts DEF AcceptIncoming, Pending, TypeOK
    <2> QED
      BY <1>2, <1>r, <2>1 DEF AcceptIncoming
  <1>3. CASE Rejoin(c)
    <2>1. joined[c] \in Rooms
      BY <1>t, <1>3 DEF Rejoin
    <2> QED
      BY <1>3, <1>r, <2>1 DEF Rejoin
  <1>4. CASE HangUp(c)
    <2> DEFINE t == Ask("leave", None, None)
    <2>1. t \in Task /\ t.op = "leave"
      BY AskOptional DEF OptionalOps
    <2>2. OptionalRoomTransaction(c, t) /\ joined'[c] = None
            /\ \A d \in Connections : joined'[d] \in {None, joined[d]}
      BY <1>t, <1>4 DEF HangUp
    <2> HIDE DEF t
    <2> QED
      BY <1>l, <2>1, <2>2, OptionalOpens DEF OptionalOps
  <1>5. CASE DeclineIncoming(c)
    <2> DEFINE t == Ask("decline", participant[Owner[c]].room, None)
    <2>1. participant[Owner[c]].room \in Rooms
      BY <1>t, <1>5, RowParts DEF DeclineIncoming, Pending, TypeOK
    <2>2. t \in Task /\ t.op = "decline"
      BY <2>1, AskOptional DEF OptionalOps
    <2>3. OptionalRoomTransaction(c, t) /\ joined' = joined /\ joined[c] = None
      BY <1>5 DEF DeclineIncoming
    <2> HIDE DEF t
    <2> QED
      BY <1>l, <2>2, <2>3, OptionalOpens DEF OptionalOps
  <1>6. ASSUME NEW u \in Users, Invite(c, u) \/ CancelInvite(c, u)
        PROVE  TargetsInv' /\ OpenInv'
    <2>1. joined[c] \in Rooms
      BY <1>t, <1>6 DEF Invite, CancelInvite
    <2>2. RoomTransaction(c, Ask("call", joined[c], u)) \/ RoomTransaction(c, Ask("cancel", joined[c], u))
      BY <1>6 DEF Invite, CancelInvite
    <2> QED
      BY <1>r, <2>1, <2>2
  <1> QED
    BY <1>1, <1>2, <1>3, <1>4, <1>5, <1>6 DEF Requests

LEMMA RingOpen ==
    ASSUME TypeInv, TargetsInv, OpenInv, NEW c \in Connections,
           RingUser(c) \/ RingAnswered(c) \/ RingRefused(c) \/ RingFails(c)
    PROVE  TargetsInv' /\ OpenInv'
  <1>t. TypeOK /\ c \in Workers
    BY TasksApart DEF TypeInv
  <1>r. ringing[c] # None /\ ringing[c] \in Ring
    BY <1>t DEF TypeOK, RingUser, RingAnswered, RingRefused, RingFails
  <1>1. CASE RingFails(c)
    <2> DEFINE t == Ask("call_failed", ringing[c].room, ringing[c].user)
    <2>1. ringing[c].room \in Rooms /\ ringing[c].user \in Users
      BY <1>r DEF Ring
    <2>2. Formed(c, t) /\ "call_failed" \in LockedOps
      BY <1>t, <2>1, AskFormed DEF LockedOps
    <2>3. /\ t.op = "call_failed" /\ t.room = ringing[c].room /\ t.other = ringing[c].user
          /\ t.stage = "open"
      BY AskOpen
    <2>4. Fails(c, t)
      BY <1>1, <1>r, <2>3 DEF Fails, RingFails
    <2>5. RoomTransaction(c, t)
      BY <1>1 DEF RingFails
    <2> HIDE DEF t
    <2> QED
      BY <1>t, <2>2, <2>3, <2>4, <2>5, RoomTransactionOpens
  <1>2. CASE RingUser(c) \/ RingAnswered(c) \/ RingRefused(c)
    <2>1. UNCHANGED <<conn, task, joined>> /\ \A d \in Connections : d # c => ringing'[d] = ringing[d]
      BY <1>t, <1>2 DEF RingUser, RingAnswered, RingRefused, clientVars, TypeOK
    <2>2. ConnAges
      BY <2>1 DEF ConnAges
    <2>3. task[c] # None => task[c].op # "call_failed"
      <3>1. SUFFICES ASSUME Fails(c, task[c])
                     PROVE  FALSE
        BY DEF OpenInv
      <3>2. using \subseteq {d \in Connections : conn[d] = "live"}
        BY <1>t DEF TypeOK
      <3> QED
        BY <1>2, <3>1, <3>2 DEF Fails, RingUser, RingAnswered, RingRefused
    <2>4. TargetsInv'
      <3>1. CASE RingUser(c)
        <4>1. ringing'[c].targets = UserConnections(ringing[c].user)
          BY <1>r, <1>t, <3>1 DEF RingUser, TypeOK, Ring
        <4> QED
          BY <2>1, <4>1 DEF TargetsInv, UserConnections
      <3>2. CASE RingAnswered(c)
        <4>1. ringing'[c] = None
          BY <1>t, <3>2 DEF RingAnswered, TypeOK
        <4> QED
          BY <1>t, <2>1, <2>2, <4>1, TargetsStay
      <3>3. CASE RingRefused(c)
        <4>1. PICK d : ringing' = [ringing EXCEPT ![c].targets = @ \ {d}]
          BY <3>3 DEF RingRefused
        <4>2. ringing'[c].targets \subseteq ringing[c].targets
          BY <1>r, <1>t, <4>1 DEF TypeOK, Ring
        <4> QED
          BY <1>r, <1>t, <2>1, <2>2, <4>2, TargetsStay
      <3> QED
        BY <1>2, <3>1, <3>2, <3>3
    <2> QED
      BY <2>1, <2>2, <2>3, <2>4, OpenOnesGoOn
  <1> QED
    BY <1>1, <1>2

LEMMA EndsOpen ==
    ASSUME TypeInv, TargetsInv, OpenInv, NEW c \in Connections,
           Quit(c) \/ Lose(c) \/ Outlives(c)
    PROVE  TargetsInv' /\ OpenInv'
  <1>t. TypeOK /\ c \in Workers
    BY TasksApart DEF TypeInv
  <1>1. CASE Quit(c) \/ CheckOnline(c)
    <2>1. UNCHANGED <<task, ringing, joined>> /\ ConnAges
      BY <1>t, <1>1 DEF Quit, CheckOnline, ConnAges, clientVars, TypeOK
    <2>2. TargetsInv'
      BY <1>t, <2>1, TargetsStay
    <2> QED
      BY <2>1, <2>2, OpenOnesGoOn
  <1>2. CASE Lose(c)
    <2>1. /\ Served(c) /\ joined' = joined /\ ConnAges
          /\ \A d \in Connections : ringing'[d] = IF d = c THEN None ELSE ringing[d]
      BY <1>t, <1>2 DEF Lose, ConnAges, TypeOK
    <2> QED
      BY <1>t, <2>1, ServedOpen
  <1>3. CASE Expire(c)
    <2> DEFINE t == Ask("expire", None, None)
    <2>1. t \in Task /\ t.op = "expire"
      BY AskOptional DEF OptionalOps
    <2>2. OptionalRoomTransaction(c, t) /\ conn[c] = "lost" /\ joined' = joined
      BY <1>3 DEF Expire
    <2> HIDE DEF t
    <2> QED
      BY <2>1, <2>2, OptionalOpens DEF OptionalOps
  <1>4. CASE DeclineOffline(c)
    <2> DEFINE t == Ask("offline", None, None)
    <2>1. t \in Task /\ t.op = "offline"
      BY AskOptional DEF OptionalOps
    <2>2. OptionalRoomTransaction(c, t) /\ conn[c] = "offline" /\ joined' = joined
      BY <1>4 DEF DeclineOffline
    <2> HIDE DEF t
    <2> QED
      BY <2>1, <2>2, OptionalOpens DEF OptionalOps
  <1> QED
    BY <1>1, <1>2, <1>3, <1>4 DEF Outlives

LEMMA ConnectOpen ==
    ASSUME TypeInv, TargetsInv, OpenInv,
           NEW u \in Users, NEW old \in Connections \cup {None}, Connect(u, old)
    PROVE  TargetsInv' /\ OpenInv'
  <1> DEFINE c == CHOOSE d \in Connections : Owner[d] = u /\ conn[d] = "unused"
  <1>1. c \in Connections /\ conn[c] = "unused" /\ TypeOK
    BY DEF Connect, TypeInv
  <1>2. /\ conn' = [conn EXCEPT ![c] = "live"]
        /\ joined' = [d \in Connections |->
                         CASE d = old -> None
                           [] d = c /\ old # None -> joined[old]
                           [] OTHER -> joined[d]]
        /\ UNCHANGED <<task, ringing>>
    BY DEF Connect
  <1> HIDE DEF c
  <1>3. ConnAges
    BY <1>1, <1>2 DEF ConnAges, TypeOK
  <1>4. task[c] # None => task[c].op \notin {"leave", "decline"}
    BY <1>1 DEF OpenInv
  <1>5. \A d \in Connections : d # c => joined'[d] \in {None, joined[d]}
    BY <1>2
  <1>6. TargetsInv'
    BY <1>1, <1>2, <1>3, TargetsStay
  <1> QED
    BY <1>2, <1>3, <1>4, <1>5, <1>6, OpenOnesGoOn

LEMMA CleanupOpen ==
    ASSUME TypeInv, TargetsInv, OpenInv, Restart \/ Cleanup
    PROVE  TargetsInv' /\ OpenInv'
  <1>t. TypeOK /\ Starter \in Workers /\ Starter \notin Connections
    BY TasksApart, StarterAssumption DEF TypeInv
  <1>1. CASE Restart
    <2>1. \A d \in Connections : ringing'[d] = None /\ task'[d] = None
      BY <1>1, TasksApart DEF Restart
    <2> QED
      BY <2>1 DEF TargetsInv, OpenInv
  <1>2. CASE StartCleanup \/ FinishCleanup
    <2>1. UNCHANGED <<conn, task, ringing, joined>>
      BY <1>2 DEF StartCleanup, FinishCleanup, clientVars
    <2>2. ConnAges
      BY <2>1 DEF ConnAges
    <2>3. TargetsInv'
      BY <1>t, <2>1, <2>2, TargetsStay
    <2> QED
      BY <2>1, <2>2, <2>3, OpenOnesGoOn
  <1>3. ASSUME NEW r \in Rooms, ClearRoom(r)
        PROVE  TargetsInv' /\ OpenInv'
    <2> DEFINE t == Ask("clear", r, None)
    <2>1. Formed(Starter, t) /\ "clear" \in LockedOps
      BY AskFormed, TasksApart DEF LockedOps
    <2>2. t.op = "clear" /\ t.stage = "open"
      BY AskOpen
    <2>3. RoomTransaction(Starter, t)
      BY <1>3 DEF ClearRoom
    <2> HIDE DEF t
    <2> QED
      BY <1>t, <2>1, <2>2, <2>3, RoomTransactionOpens
  <1> QED
    BY <1>1, <1>2, <1>3 DEF Cleanup

LEMMA OpenStep ==
    ASSUME TypeInv, TargetsInv, OpenInv, [Next]_vars
    PROVE  TargetsInv' /\ OpenInv'
  <1>1. ASSUME NEW w \in Workers, DeleteStale(w) \/ Proceed(w)
        PROVE  TargetsInv' /\ OpenInv'
    BY <1>1, DeleteStaleOpen, ProceedOpen
  <1>2. ASSUME NEW c \in Connections,
               \/ Continues(c) \/ Requests(c)
               \/ RingUser(c) \/ RingAnswered(c) \/ RingRefused(c) \/ RingFails(c)
               \/ Quit(c) \/ Lose(c) \/ Outlives(c)
        PROVE  TargetsInv' /\ OpenInv'
    BY <1>2, ContinuesOpen, RequestsOpen, RingOpen, EndsOpen
  <1>3. ASSUME NEW u \in Users, NEW old \in Connections \cup {None}, Connect(u, old)
        PROVE  TargetsInv' /\ OpenInv'
    BY <1>3, ConnectOpen
  <1>4. CASE Restart \/ Cleanup
    BY <1>4, CleanupOpen
  <1>5. CASE UNCHANGED vars
    <2>1. UNCHANGED <<conn, task, ringing, joined>>
      BY <1>5 DEF vars, clientVars
    <2> QED
      BY <2>1 DEF TargetsInv, OpenInv, Fails
  <1> QED
    BY <1>1, <1>2, <1>3, <1>4, <1>5 DEF Next
-----------------------------------------------------------------------------
(* Rows go, or keep their room and are not answered newly; calls are rung   *)
(* no longer; no room is unborn again.                                      *)
RowsShrink ==
    \A u \in Users : participant'[u] # None =>
        /\ participant[u] # None
        /\ participant'[u].room = participant[u].room
        /\ participant'[u].answering # None => participant[u].answering # None

RingsShrink ==
    \A c \in Connections : ringing'[c] # None =>
        /\ ringing[c] # None
        /\ ringing'[c].room = ringing[c].room
        /\ ringing'[c].user = ringing[c].user

RoomsStay == \A r \in Rooms : rooms[r] # "unborn" => rooms'[r] # "unborn"

LEMMA CallsShrink ==
    ASSUME TypeOK, BornInv, RingInv, RowsShrink, RingsShrink, RoomsStay
    PROVE  BornInv' /\ RingInv'
  <1>1. \A u \in Users : participant[u] # None => participant[u].room \in Rooms
    BY RowParts DEF TypeOK
  <1>2. \A c \in Connections : ringing[c] # None =>
            ringing[c].room \in Rooms /\ ringing[c].user \in Users
    BY DEF TypeOK, Ring
  <1>3. BornInv'
    BY <1>1 DEF BornInv, RowsShrink, RoomsStay
  <1>4. ASSUME NEW c \in Connections, ringing'[c] # None
        PROVE  /\ rooms'[ringing'[c].room] # "unborn"
               /\ ~(/\ InRoom(participant', ringing'[c].user, ringing'[c].room)
                    /\ Answered(participant', ringing'[c].user))
    <2>1. /\ ringing[c] # None
          /\ ringing'[c].room = ringing[c].room /\ ringing'[c].user = ringing[c].user
      BY <1>4 DEF RingsShrink
    <2>2. ringing[c].room \in Rooms /\ ringing[c].user \in Users
      BY <1>2, <2>1
    <2> QED
      BY <2>1, <2>2 DEF RingInv, RoomsStay, RowsShrink, InRoom, Answered
  <1>5. RingInv'
    BY <1>4 DEF RingInv
  <1> QED
    BY <1>3, <1>5

(* A call is made and rung, of somebody who was nowhere.                    *)
LEMMA CallRings ==
    ASSUME TypeOK, BornInv, RingInv, NEW w \in Workers, NEW t, Formed(w, t),
           t.op = "call", Call(w, t)
    PROVE  BornInv' /\ RingInv'
  <1> DEFINE u == t.other
             row == [room |-> t.room, answering |-> None, caller |-> Owner[w], via |-> w]
             ring == [room |-> t.room, user |-> u, sent |-> FALSE, targets |-> {}]
  <1>1. /\ w \in Connections /\ u \in Users /\ t.room \in Rooms /\ rooms' = rooms
        /\ Owner[w] \in Users
    BY OwnerAssumption DEF Formed, Call
  <1>2. CASE InRoom(participant, Owner[w], t.room) /\ participant[u] = None
    <2>1. /\ participant' = [participant EXCEPT ![u] = row]
          /\ ringing' = [ringing EXCEPT ![w] = ring]
      BY <1>2 DEF Call, Changed, Write
    <2>2. /\ participant'[u].room = t.room /\ participant'[u].answering = None
          /\ \A v \in Users \ {u} : participant'[v] = participant[v]
      BY <1>1, <2>1 DEF TypeOK
    <2>3. ringing'[w].room = t.room /\ ringing'[w].user = u
      BY <1>1, <2>1 DEF TypeOK
    <2>4. rooms[t.room] # "unborn"
      BY <1>1, <1>2 DEF BornInv, InRoom
    <2> HIDE DEF row, ring
    <2>5. BornInv'
      BY <1>1, <2>2, <2>4 DEF BornInv
    <2>6. ASSUME NEW d \in Connections, ringing'[d] # None
          PROVE  /\ rooms'[ringing'[d].room] # "unborn"
                 /\ ~(/\ InRoom(participant', ringing'[d].user, ringing'[d].room)
                      /\ Answered(participant', ringing'[d].user))
      <3>1. CASE d = w
        BY <1>1, <2>2, <2>3, <2>4, <3>1 DEF Answered
      <3>2. CASE d # w
        <4>1. ringing'[d] = ringing[d] /\ ringing[d].user \in Users
          BY <2>1, <2>6, <3>2 DEF TypeOK, Ring
        <4> QED
          BY <1>1, <2>2, <2>6, <4>1 DEF RingInv, InRoom, Answered
      <3> QED
        BY <3>1, <3>2
    <2> QED
      BY <2>5, <2>6 DEF RingInv
  <1>3. CASE ~(InRoom(participant, Owner[w], t.room) /\ participant[u] = None)
    <2>1. UNCHANGED <<participant, ringing, rooms>>
      BY <1>1, <1>3 DEF Call
    <2> QED
      BY <2>1 DEF BornInv, RingInv, InRoom, Answered
  <1> QED
    BY <1>2, <1>3

LEMMA StatementsRing ==
    ASSUME TypeOK, BornInv, RingInv, NEW w \in Workers, NEW t, Formed(w, t),
           t.op = "join" => ~BeingRung(Owner[w]),
           Statements(w, t)
    PROVE  BornInv' /\ RingInv'
  <1>r. t.room \in Rooms
    BY DEF Formed
  <1>1. CASE t.op = "call" /\ Call(w, t)
    BY <1>1, CallRings
  <1>2. CASE t.op = "call_failed" /\ CallFailed(w, t)
    <2>1. RoomsStay /\ RingsShrink
      BY <1>2 DEF CallFailed, RoomsStay, RingsShrink, TypeOK
    <2>2. RowsShrink
      <3>1. \/ participant' = participant
            \/ participant' = [participant EXCEPT ![t.other] =
                                  IF InRoom(participant, t.other, t.room) THEN None ELSE @]
        BY <1>2 DEF CallFailed, Changed, Write
      <3> QED
        BY <3>1 DEF RowsShrink, TypeOK
    <2> QED
      BY <2>1, <2>2, CallsShrink
  <1>3. CASE t.op = "cancel" /\ CancelCall(w, t)
    <2>1. RoomsStay /\ RingsShrink
      BY <1>3 DEF CancelCall, RoomsStay, RingsShrink
    <2>2. RowsShrink
      <3>1. participant' = participant \/ participant' = [participant EXCEPT ![t.other] = None]
        BY <1>3 DEF CancelCall, Changed, Write
      <3> QED
        BY <3>1 DEF RowsShrink, TypeOK
    <2> QED
      BY <2>1, <2>2, CallsShrink
  <1>4. CASE t.op = "join" /\ JoinRoom(w, t)
    <2> DEFINE u == Owner[w]
    <2>1. w \in Connections /\ u \in Users /\ UNCHANGED <<rooms, ringing>>
      BY <1>4, OwnerAssumption DEF Formed, JoinRoom
    <2>2. /\ \A v \in Users \ {u} : participant'[v] = participant[v]
          /\ \/ participant'[u] = participant[u]
             \/ participant[u] # None /\ participant'[u].room = participant[u].room
      <3>1. CASE participant' = participant
        BY <3>1
      <3>2. CASE /\ participant[u] # None
                 /\ participant' = [participant EXCEPT ![u].answering = w]
        <4>1. participant[u] \in Row
          BY <2>1, <3>2 DEF TypeOK
        <4>2. participant'[u] = [participant[u] EXCEPT !.answering = w]
          BY <2>1, <3>2 DEF TypeOK
        <4>3. participant'[u].room = participant[u].room
          BY <4>1, <4>2 DEF Row
        <4> QED
          BY <3>2, <4>3 DEF TypeOK
      <3> QED
        BY <1>4, <3>1, <3>2 DEF JoinRoom, Changed, Write, Pending
    <2>3. \A d \in Connections : ringing[d] # None => ringing[d].user # u /\ ringing[d].user \in Users
      BY <1>4 DEF BeingRung, TypeOK, Ring
    <2> HIDE DEF u
    <2>4. BornInv'
      BY <2>1, <2>2 DEF BornInv
    <2>5. RingInv'
      BY <2>1, <2>2, <2>3 DEF RingInv, InRoom, Answered
    <2> QED
      BY <2>4, <2>5
  <1>5. CASE t.op = "rejoin" /\ RejoinRoom(w, t)
    <2> DEFINE u == Owner[w]
    <2>1. w \in Connections /\ u \in Users /\ UNCHANGED <<rooms, ringing>>
      BY <1>5, OwnerAssumption DEF Formed, RejoinRoom
    <2>2. RowsShrink
      <3>1. CASE participant' = participant
        BY <3>1 DEF RowsShrink
      <3>2. CASE /\ participant[u] # None /\ participant[u].answering # None
                 /\ participant' = [participant EXCEPT ![u].answering = w]
        <4>1. participant[u] \in Row
          BY <2>1, <3>2 DEF TypeOK
        <4>2. participant'[u] = [participant[u] EXCEPT !.answering = w]
          BY <2>1, <3>2 DEF TypeOK
        <4>3. participant'[u].room = participant[u].room
          BY <4>1, <4>2 DEF Row
        <4>4. \A v \in Users \ {u} : participant'[v] = participant[v]
          BY <3>2 DEF TypeOK
        <4> HIDE DEF u
        <4> QED
          BY <3>2, <4>3, <4>4 DEF RowsShrink
      <3> QED
        BY <1>5, <3>1, <3>2 DEF RejoinRoom, Changed, Write, Answered
    <2>3. RoomsStay /\ RingsShrink
      BY <2>1 DEF RoomsStay, RingsShrink
    <2> QED
      BY <2>2, <2>3, CallsShrink
  <1>6. CASE t.op = "clear" /\ ClearStale(w, t)
    <2>1. RingsShrink
      BY <1>6 DEF ClearStale, RingsShrink
    <2>2. UNCHANGED rooms \/ rooms' = [rooms EXCEPT ![t.room] = "deleted"]
      BY <1>6 DEF ClearStale, dbVars
    <2>3. \E U : participant' = participant \/ participant' = Without(U)
      BY <1>6 DEF ClearStale, dbVars, Changed, Write
    <2>4. RoomsStay
      BY <2>2 DEF RoomsStay, TypeOK
    <2>5. RowsShrink
      BY <2>3 DEF RowsShrink, Without
    <2> QED
      BY <2>1, <2>4, <2>5, CallsShrink
  <1> QED
    BY <1>1, <1>2, <1>3, <1>4, <1>5, <1>6 DEF Statements

LEMMA PromptTransaction ==
    ASSUME TypeInv, Prompt, Idle, BornInv, RingInv, NEW w \in Workers, NEW t, Formed(w, t),
           t.op = "join" => ~BeingRung(Owner[w]),
           RoomTransaction(w, t)
    PROVE  Idle' /\ BornInv' /\ RingInv'
  <1>1. Statements(w, t) /\ task' = task /\ TypeOK
    BY TestTransaction DEF Prompt, TypeInv
  <1> QED
    BY <1>1, StatementsRing DEF Idle

LEMMA PromptOptional ==
    ASSUME TypeInv, Prompt, Idle, BornInv, RingInv,
           NEW c \in Connections, NEW t \in Task, t.op \in OptionalOps,
           OptionalRoomTransaction(c, t)
    PROVE  Idle' /\ BornInv' /\ RingInv'
  <1> DEFINE x == Executed(c, t)
  <1>1. UNCHANGED <<task, ringing>> /\ TypeOK
    BY DEF OptionalRoomTransaction, Prompt, TypeInv
  <1>2. UNCHANGED <<rooms, participant>> \/ Commit(c, x)
    BY DEF OptionalRoomTransaction, Prompt, dbVars
  <1> HIDE DEF x
  <1>3. RingsShrink
    BY <1>1 DEF RingsShrink
  <1>4. RoomsStay
    BY <1>1, <1>2 DEF RoomsStay, Commit, TypeOK
  <1>5. RowsShrink
    BY <1>2 DEF RowsShrink, Commit, Write, Without
  <1> QED
    BY <1>1, <1>3, <1>4, <1>5, CallsShrink DEF Idle

LEMMA PromptRequests ==
    ASSUME TypeInv, Prompt, Idle, BornInv, RingInv, NEW c \in Connections, Requests(c)
    PROVE  Idle' /\ BornInv' /\ RingInv'
  <1>t. /\ TypeOK /\ c \in Workers /\ Owner[c] \in Users
        /\ joined \in [Connections -> Rooms \cup {None}]
    BY TasksApart, OwnerAssumption DEF TypeInv, TypeOK
  <1>r. ASSUME NEW op \in {"call", "cancel", "join", "rejoin"}, NEW r \in Rooms,
               NEW u \in Users \cup {None}, op \in {"call", "cancel"} => u \in Users,
               op = "join" => ~BeingRung(Owner[c]),
               RoomTransaction(c, Ask(op, r, u))
        PROVE  Idle' /\ BornInv' /\ RingInv'
    <2> DEFINE t == Ask(op, r, u)
    <2>1. Formed(c, t)
      BY <1>r, <1>t, AskFormed DEF LockedOps
    <2>2. t.op = op
      BY AskOpen
    <2>3. RoomTransaction(c, t)
      BY <1>r
    <2> HIDE DEF t
    <2> QED
      BY <1>r, <1>t, <2>1, <2>2, <2>3, PromptTransaction
  <1>1. CASE CreateRoom(c)
    <2> DEFINE r == CHOOSE x \in Rooms : rooms[x] = "unborn"
               u == Owner[c]
               row == [room |-> r, answering |-> c, caller |-> u, via |-> c]
    <2>1. r \in Rooms /\ rooms[r] = "unborn"
      BY <1>1 DEF CreateRoom
    <2>2. /\ rooms' = [rooms EXCEPT ![r] = "open"]
          /\ participant' = [participant EXCEPT ![u] = row]
          /\ UNCHANGED <<task, ringing>>
      BY <1>1 DEF CreateRoom, Changed, Write
    <2>3. row.room = r
      OBVIOUS
    <2> HIDE DEF row, r, u
    <2>4. /\ participant'[u].room = r
          /\ \A v \in Users : v # u => participant'[v] = participant[v]
          /\ rooms'[r] = "open" /\ \A q \in Rooms : q # r => rooms'[q] = rooms[q]
      BY <1>t, <2>1, <2>2, <2>3 DEF TypeOK, u
    <2>5. \A v \in Users : participant[v] # None => participant[v].room \in Rooms
      BY <1>t, RowParts DEF TypeOK
    <2>6. BornInv'
      BY <2>1, <2>4, <2>5 DEF BornInv
    <2>7. \A d \in Connections : ringing[d] # None =>
              ringing[d].room \in Rooms /\ ringing[d].user \in Users
      BY <1>t DEF TypeOK, Ring
    <2>8. RingInv'
      BY <2>1, <2>2, <2>4, <2>7 DEF RingInv, InRoom, Answered
    <2> QED
      BY <2>2, <2>6, <2>8 DEF Idle
  <1>2. CASE AcceptIncoming(c)
    <2>1. participant[Owner[c]].room \in Rooms
      BY <1>t, <1>2, RowParts DEF AcceptIncoming, Pending, TypeOK
    <2>2. ~BeingRung(Owner[c])
      BY <1>2 DEF AcceptIncoming, Prompt
    <2> QED
      BY <1>2, <1>r, <2>1, <2>2 DEF AcceptIncoming
  <1>3. CASE Rejoin(c)
    <2>1. joined[c] \in Rooms
      BY <1>t, <1>3 DEF Rejoin
    <2> QED
      BY <1>3, <1>r, <2>1 DEF Rejoin
  <1>4. CASE HangUp(c)
    <2>1. Ask("leave", None, None) \in Task /\ Ask("leave", None, None).op \in OptionalOps
      BY AskOptional DEF OptionalOps
    <2> QED
      BY <1>4, <2>1, PromptOptional DEF HangUp
  <1>5. CASE DeclineIncoming(c)
    <2> DEFINE t == Ask("decline", participant[Owner[c]].room, None)
    <2>1. participant[Owner[c]].room \in Rooms
      BY <1>t, <1>5, RowParts DEF DeclineIncoming, Pending, TypeOK
    <2>2. t \in Task /\ t.op \in OptionalOps
      BY <2>1, AskOptional DEF OptionalOps
    <2>3. OptionalRoomTransaction(c, t)
      BY <1>5 DEF DeclineIncoming
    <2> HIDE DEF t
    <2> QED
      BY <2>2, <2>3, PromptOptional
  <1>6. ASSUME NEW u \in Users, Invite(c, u) \/ CancelInvite(c, u)
        PROVE  Idle' /\ BornInv' /\ RingInv'
    <2>1. joined[c] \in Rooms
      BY <1>t, <1>6 DEF Invite, CancelInvite
    <2>2. RoomTransaction(c, Ask("call", joined[c], u)) \/ RoomTransaction(c, Ask("cancel", joined[c], u))
      BY <1>6 DEF Invite, CancelInvite
    <2> QED
      BY <1>r, <2>1, <2>2
  <1> QED
    BY <1>1, <1>2, <1>3, <1>4, <1>5, <1>6 DEF Requests

LEMMA PromptStep ==
    ASSUME TypeInv, Prompt, Idle, BornInv, RingInv, [Next]_vars
    PROVE  Idle' /\ BornInv' /\ RingInv'
  <1>t. TypeOK /\ Starter \in Workers
    BY TasksApart DEF TypeInv
  <1>w. \A w \in Workers : task[w] = None
    BY DEF Idle
  <1>s. ASSUME RingsShrink, RoomsStay, RowsShrink, \A w \in Workers : task'[w] \in {None, task[w]}
        PROVE  Idle' /\ BornInv' /\ RingInv'
    BY <1>s, <1>t, <1>w, CallsShrink DEF Idle
  <1>1. ASSUME NEW w \in Workers, DeleteStale(w) \/ Proceed(w)
        PROVE  FALSE
    BY <1>1, <1>w DEF DeleteStale, Proceed
  <1>2. ASSUME NEW c \in Connections, Continues(c)
        PROVE  FALSE
    <2>1. task[c] = None
      BY <1>w, TasksApart
    <2> QED
      BY <1>2, <2>1 DEF Continues, DeleteRow, DeleteCalls, DeleteRoom, ProceedOptional
  <1>3. ASSUME NEW c \in Connections, RingUser(c) \/ RingAnswered(c) \/ RingRefused(c)
        PROVE  Idle' /\ BornInv' /\ RingInv'
    <2>1. UNCHANGED <<rooms, participant, task>>
      BY <1>3 DEF RingUser, RingAnswered, RingRefused, dbVars
    <2>2. ringing[c] # None /\ ringing[c] \in Ring
      BY <1>3, <1>t DEF RingUser, RingAnswered, RingRefused, TypeOK
    <2>3. RingsShrink
      BY <1>3, <1>t, <2>2 DEF RingUser, RingAnswered, RingRefused, RingsShrink, TypeOK, Ring
    <2> QED
      BY <1>s, <2>1, <2>3 DEF RoomsStay, RowsShrink
  <1>4. ASSUME NEW c \in Connections, RingFails(c)
        PROVE  Idle' /\ BornInv' /\ RingInv'
    <2> DEFINE t == Ask("call_failed", ringing[c].room, ringing[c].user)
    <2>1. ringing[c].room \in Rooms /\ ringing[c].user \in Users /\ c \in Workers
      BY <1>4, <1>t, TasksApart DEF RingFails, TypeOK, Ring
    <2>2. Formed(c, t) /\ t.op = "call_failed"
      BY <2>1, AskFormed DEF LockedOps
    <2>3. RoomTransaction(c, t)
      BY <1>4 DEF RingFails
    <2> HIDE DEF t
    <2> QED
      BY <2>1, <2>2, <2>3, PromptTransaction
  <1>5. ASSUME NEW c \in Connections, Quit(c) \/ Lose(c) \/ CheckOnline(c)
        PROVE  Idle' /\ BornInv' /\ RingInv'
    <2>1. UNCHANGED <<rooms, participant>>
      BY <1>5 DEF Quit, Lose, CheckOnline, dbVars
    <2>2. \A w \in Workers : task'[w] \in {None, task[w]}
      BY <1>5, <1>t, TasksApart DEF Quit, Lose, Served, CheckOnline, TypeOK
    <2>3. \A d \in Connections : ringing'[d] \in {None, ringing[d]}
      BY <1>5, <1>t DEF Quit, Lose, CheckOnline, TypeOK
    <2> QED
      BY <1>s, <2>1, <2>2, <2>3 DEF RingsShrink, RoomsStay, RowsShrink
  <1>6. ASSUME NEW c \in Connections, Expire(c) \/ DeclineOffline(c)
        PROVE  Idle' /\ BornInv' /\ RingInv'
    <2>1. \E t \in Task : t.op \in OptionalOps /\ OptionalRoomTransaction(c, t)
      BY <1>6, AskOptional DEF Expire, DeclineOffline, OptionalOps
    <2> QED
      BY <2>1, PromptOptional
  <1>7. ASSUME NEW u \in Users, NEW old \in Connections \cup {None}, Connect(u, old)
        PROVE  Idle' /\ BornInv' /\ RingInv'
    <2>1. UNCHANGED <<rooms, participant, task, ringing>>
      BY <1>7 DEF Connect, dbVars
    <2> QED
      BY <1>s, <2>1 DEF RingsShrink, RoomsStay, RowsShrink
  <1>8. CASE Restart
    <2>1. /\ UNCHANGED <<rooms, participant>>
          /\ \A d \in Connections : ringing'[d] = None
          /\ \A w \in Workers : task'[w] = None
      BY <1>8 DEF Restart
    <2> QED
      BY <1>s, <2>1 DEF RingsShrink, RoomsStay, RowsShrink
  <1>9. CASE StartCleanup \/ FinishCleanup
    <2>1. UNCHANGED <<rooms, task, ringing>>
      BY <1>9 DEF StartCleanup, FinishCleanup, dbVars
    <2>2. \E U : participant' = participant \/ participant' = Without(U)
      BY <1>9 DEF StartCleanup, FinishCleanup, dbVars, Write
    <2>3. RowsShrink
      BY <2>2 DEF RowsShrink, Without
    <2> QED
      BY <1>s, <2>1, <2>3 DEF RingsShrink, RoomsStay
  <1>10. ASSUME NEW r \in Rooms, ClearRoom(r)
         PROVE  Idle' /\ BornInv' /\ RingInv'
    <2> DEFINE t == Ask("clear", r, None)
    <2>1. Formed(Starter, t) /\ t.op = "clear"
      BY <1>t, AskFormed DEF LockedOps
    <2>2. RoomTransaction(Starter, t)
      BY <1>10 DEF ClearRoom
    <2> HIDE DEF t
    <2> QED
      BY <1>t, <2>1, <2>2, PromptTransaction
  <1>11. CASE UNCHANGED vars
    <2>1. UNCHANGED <<rooms, participant, task, ringing>>
      BY <1>11 DEF vars, dbVars
    <2> QED
      BY <1>s, <2>1 DEF RingsShrink, RoomsStay, RowsShrink
  <1>12. ASSUME NEW c \in Connections, Requests(c)
         PROVE  Idle' /\ BornInv' /\ RingInv'
    BY <1>12, PromptRequests
  <1> QED
    BY <1>1, <1>2, <1>3, <1>4, <1>5, <1>6, <1>7, <1>8, <1>9, <1>10, <1>11, <1>12
    DEF Next, Outlives, Cleanup

LEMMA SeatInvHolds == Spec => []SeatInv
  <1>1. Init => SeatInv
    <2>1. Init => TypeInv
      BY SafeInit DEF IInv
    <2>2. Init => TargetsInv /\ OpenInv /\ Idle /\ BornInv /\ RingInv
      BY TasksApart DEF Init, TargetsInv, OpenInv, Idle, BornInv, RingInv
    <2> QED
      BY <2>1, <2>2 DEF SeatInv
  <1>2. SeatInv /\ [Next]_vars => SeatInv'
    <2>1. SUFFICES ASSUME SeatInv, [Next]_vars
                   PROVE  SeatInv'
      OBVIOUS
    <2>2. TypeInv' /\ TargetsInv' /\ OpenInv'
      BY <2>1, TypeStep, OpenStep DEF SeatInv
    <2>3. Prompt' <=> Prompt
      BY <2>1, BuildStays DEF Prompt
    <2>4. Prompt => Idle' /\ BornInv' /\ RingInv'
      BY <2>1, PromptStep DEF SeatInv
    <2> QED
      BY <2>2, <2>3, <2>4 DEF SeatInv
  <1> QED
    BY <1>1, <1>2, PTL DEF Spec
-----------------------------------------------------------------------------
LEMMA SeatFacts ==
    ASSUME TypeOK, NEW c \in Connections, Seated(c)
    PROVE  /\ Owner[c] \in Users /\ c # None /\ conn[c] = "live" /\ joined[c] # None
           /\ participant[Owner[c]] # None
           /\ participant[Owner[c]].answering = c
           /\ Answered(participant, Owner[c])
           /\ ~Pending(participant, Owner[c])
           /\ \A r : Owner[c] \notin StaleUsers(r)
           /\ \A U : Owner[c] \notin CalledBy(U)
  <1>1. /\ Owner[c] \in Users /\ c # None /\ conn[c] = "live" /\ joined[c] # None
        /\ participant[Owner[c]] # None /\ participant[Owner[c]].answering = c
    BY OwnerAssumption, NoneAssumption DEF TypeOK, Seated, AnsweredBy
  <1> QED
    BY <1>1 DEF Answered, Pending, StaleUsers, CalledBy

(* Nobody else's leave or declining finds the row.                          *)
LEMMA FoundSpares ==
    ASSUME TypeOK, NEW c \in Connections, Seated(c),
           NEW d \in Connections, NEW t, t.op \in OptionalOps,
           t.op \in {"leave", "expire"} => d # c
    PROVE  Owner[c] \notin Found(d, t)
  BY SeatFacts DEF Found, AnsweredBy, OptionalOps

(* Rows are marked by the steps that follow an own row that was found, and  *)
(* by the clearing of a room.                                               *)
LEMMA WriteUnmarks ==
    ASSUME TypeOK, NEW table, Write(table), NEW w \in Workers
    PROVE  found'[w] \subseteq found[w]
  BY DEF Write, TypeOK

LEMMA StatementsMark ==
    ASSUME TypeOK, NEW w, NEW t, Statements(w, t), NEW x \in Workers
    PROVE  found'[x] \subseteq found[x]
  <1>1. CASE found' = found
    BY <1>1
  <1>2. CASE \E table : Write(table)
    BY <1>2, WriteUnmarks
  <1>3. CASE Call(w, t) \/ CallFailed(w, t) \/ CancelCall(w, t)
    BY <1>1, <1>2, <1>3 DEF Call, CallFailed, CancelCall, Changed
  <1>4. CASE JoinRoom(w, t) \/ RejoinRoom(w, t)
    BY <1>1, <1>2, <1>4 DEF JoinRoom, RejoinRoom, Changed
  <1>5. CASE ClearStale(w, t)
    BY <1>1, <1>2, <1>5 DEF ClearStale, Changed, dbVars
  <1> QED
    BY <1>3, <1>4, <1>5 DEF Statements

(* Where a transaction is not opened and does not get ahead, nothing is     *)
(* marked.                                                                  *)
LEMMA Unmarked ==
    ASSUME NEW w, found'[w] \subseteq found[w],
           \/ task'[w] = None
           \/ task'[w] # None /\ task'[w].gone = {}
           \/ task'[w] = task[w]
           \/ task[w] # None /\ task'[w] # None /\ task'[w].gone = task[w].gone
    PROVE  Marked(w)' \subseteq Marked(w)
  BY DEF Marked

LEMMA RoomTransactionMarks ==
    ASSUME TypeOK, NEW w \in Workers, NEW t \in Task, t.gone = {}, RoomTransaction(w, t),
           NEW x \in Workers
    PROVE  Marked(x)' \subseteq Marked(x)
  <1>1. CASE Statements(w, t) /\ UNCHANGED task
    BY <1>1, StatementsMark, Unmarked
  <1>2. CASE task' = [task EXCEPT ![w] = t] /\ UNCHANGED found
    <2>1. task'[x] = IF x = w THEN t ELSE task[x]
      BY <1>2 DEF TypeOK
    <2>2. t # None \/ task'[x] = None \/ x # w
      BY <2>1
    <2> QED
      BY <1>2, <2>1, <2>2, Unmarked
  <1> QED
    BY <1>1, <1>2 DEF RoomTransaction, dbVars

(* A leave marks a row that its own connection had answered, and calls.     *)
LEMMA OptionalMarks ==
    ASSUME TypeOK, NEW c \in Connections, Seated(c),
           NEW d \in Connections, NEW t \in Task, t.op \in OptionalOps, t.gone = {},
           OptionalRoomTransaction(d, t), NEW x \in Workers, x # c, Owner[c] \in Marked(x)'
    PROVE  Owner[c] \in Marked(x)
  <1>1. CASE UNCHANGED <<found, task>>
    BY <1>1, Unmarked
  <1>2. CASE UNCHANGED task /\ Commit(d, Executed(d, t))
    <2>1. found'[x] \subseteq found[x]
      BY <1>2, WriteUnmarks DEF Commit
    <2> QED
      BY <1>2, <2>1, Unmarked
  <1>3. CASE /\ task' = [task EXCEPT ![d] = [t EXCEPT !.room = participant[Owner[d]].room,
                                                      !.stage = "found"]]
             /\ found' = [found EXCEPT ![d] = Found(d, t)]
    <2>d. d \in Workers
      BY TasksApart
    <2>1. CASE x # d
      <3>1. found'[x] = found[x] /\ task'[x] = task[x]
        BY <1>3, <2>1 DEF TypeOK
      <3> QED
        BY <3>1, Unmarked
    <2>2. CASE x = d
      <3>1. found'[x] = Found(d, t)
        BY <1>3, <2>2, <2>d DEF TypeOK
      <3>2. task'[x].gone = {}
        BY <1>3, <2>2, <2>d DEF TypeOK, Task
      <3>3. Owner[c] \notin Found(d, t)
        BY <2>2, FoundSpares
      <3> QED
        BY <3>1, <3>2, <3>3 DEF Marked
    <2> QED
      BY <2>1, <2>2
  <1> QED
    BY <1>1, <1>2, <1>3 DEF OptionalRoomTransaction, dbVars

LEMMA ServedMarks ==
    ASSUME TypeInv, NEW w \in Workers, Served(w), NEW x \in Workers, found'[x] \subseteq found[x]
    PROVE  Marked(x)' \subseteq Marked(x)
  BY ServedType, Unmarked

LEMMA ProgressMarks ==
    ASSUME TypeInv, NEW c \in Connections, Seated(c),
           NEW w \in Workers,
           \/ DeleteStale(w) \/ Proceed(w)
           \/ w \in Connections /\ Continues(w),
           NEW x \in Workers, Owner[c] \in Marked(x)'
    PROVE  Owner[c] \in Marked(x)
  <1>t. TypeOK /\ task[w] # None /\ task[w] \in Task /\ found[w] \in SUBSET Users
    BY DEF TypeInv, TypeOK, DeleteStale, Proceed, Continues, DeleteRow, DeleteCalls, DeleteRoom,
       ProceedOptional
  <1>1. CASE Proceed(w)
    <2>1. found'[x] \subseteq found[x]
      BY <1>1, <1>t, StatementsMark DEF Proceed
    <2> QED
      BY <1>1, <2>1, ServedMarks DEF Proceed
  <1>e. ASSUME NEW y, y.gone \subseteq task[w].gone \cup found[w] \cup StaleUsers(task[w].room),
               NEW f, f = {} \/ \E U : f = CalledBy(U),
               task' = [task EXCEPT ![w] = y], found' = [found EXCEPT ![w] = f]
        PROVE  Owner[c] \in Marked(x)
    <2>1. CASE x # w
      <3>1. found'[x] = found[x] /\ task'[x] = task[x]
        BY <1>e, <1>t, <2>1 DEF TypeOK
      <3> QED
        BY <3>1, Unmarked
    <2>2. CASE x = w
      <3>1. found'[x] = f /\ task'[x] = y
        BY <1>e, <1>t, <2>2 DEF TypeOK
      <3>2. Owner[c] \notin f
        BY <1>e, <1>t, SeatFacts
      <3>3. Owner[c] \in task[w].gone \cup found[w]
        BY <1>e, <1>t, <3>1, <3>2, SeatFacts DEF Marked
      <3> QED
        BY <1>t, <2>2, <3>3 DEF Marked
    <2> QED
      BY <2>1, <2>2
  <1>2. CASE DeleteStale(w)
    <2> DEFINE stale == StaleUsers(task[w].room)
               y == [task[w] EXCEPT !.stage = "calls", !.gone = stale]
    <2>1. /\ task' = [task EXCEPT ![w] = y]
          /\ found' = [found EXCEPT ![w] = CalledBy(stale)]
      BY <1>2 DEF DeleteStale
    <2>2. y.gone = stale
      BY <1>t DEF Task
    <2> HIDE DEF y
    <2> QED
      BY <1>e, <2>1, <2>2
  <1>3. CASE w \in Connections /\ DeleteRow(w)
    <2> DEFINE y == [task[w] EXCEPT !.gone = found[w]]
               z == [y EXCEPT !.stage = "calls"]
               h == HasRead(y)
    <2>1. \/ /\ task' = [task EXCEPT ![w] = z]
             /\ found' = [found EXCEPT ![w] = CalledBy({Owner[w]})]
          \/ /\ task' = [task EXCEPT ![w] = h]
             /\ found' = [found EXCEPT ![w] = {}]
      BY <1>3 DEF DeleteRow
    <2>2. y \in Task /\ y.gone = found[w] /\ z.gone = found[w]
      BY <1>t DEF Task
    <2> HIDE DEF y, z
    <2>3. h.gone = found[w]
      BY <1>t, <2>2, HasReadType
    <2> HIDE DEF h
    <2> QED
      BY <1>e, <2>1, <2>2, <2>3
  <1>4. CASE w \in Connections /\ DeleteCalls(w)
    <2> DEFINE y == [task[w] EXCEPT !.gone = @ \cup found[w]]
               h == HasRead(y)
    <2>1. /\ task' = [task EXCEPT ![w] = h]
          /\ found' = [found EXCEPT ![w] = {}]
      BY <1>4 DEF DeleteCalls
    <2>2. y \in Task /\ y.gone = task[w].gone \cup found[w]
      BY <1>t DEF Task
    <2> HIDE DEF y
    <2>3. h.gone = task[w].gone \cup found[w]
      BY <1>t, <2>2, HasReadType
    <2> HIDE DEF h
    <2> QED
      BY <1>e, <2>1, <2>3
  <1>5. CASE w \in Connections /\ DeleteRoom(w)
    <2>1. CASE Served(w)
      BY <1>5, <2>1, ServedMarks DEF DeleteRoom, dbVars
    <2>2. CASE task' = [task EXCEPT ![w].stage = "deleted"]
      <3>1. /\ x = w => task'[x].gone = task[x].gone /\ task[x] # None
            /\ x # w => task'[x] = task[x]
        BY <1>t, <2>2 DEF TypeOK, Task
      <3>2. found' = found
        BY <1>5 DEF DeleteRoom, dbVars
      <3> QED
        BY <3>1, <3>2 DEF Marked
    <2> QED
      BY <1>5, <2>1, <2>2 DEF DeleteRoom
  <1>6. CASE w \in Connections /\ ProceedOptional(w)
    <2>1. found'[x] \subseteq found[x]
      BY <1>6, <1>t, WriteUnmarks DEF ProceedOptional, Commit
    <2> QED
      BY <1>6, <2>1, ServedMarks DEF ProceedOptional
  <1> QED
    BY <1>1, <1>2, <1>3, <1>4, <1>5, <1>6 DEF Continues

LEMMA AskTasks ==
    ASSUME TypeOK, NEW c \in Connections
    PROVE  /\ joined[c] # None => \A u \in Users :
                  /\ Ask("call", joined[c], u) \in Task
                  /\ Ask("cancel", joined[c], u) \in Task
                  /\ Ask("rejoin", joined[c], None) \in Task
           /\ Pending(participant, Owner[c]) =>
                  /\ Ask("join", participant[Owner[c]].room, None) \in Task
                  /\ Ask("decline", participant[Owner[c]].room, None) \in Task
           /\ \A op \in {"leave", "expire", "offline"} : Ask(op, None, None) \in Task
           /\ ringing[c] # None => Ask("call_failed", ringing[c].room, ringing[c].user) \in Task
           /\ \A r \in Rooms : Ask("clear", r, None) \in Task
  <1>1. joined[c] # None => joined[c] \in Rooms
    BY DEF TypeOK
  <1>2. Pending(participant, Owner[c]) => participant[Owner[c]].room \in Rooms
    BY RowParts, OwnerAssumption DEF TypeOK, Pending
  <1>3. ringing[c] # None => ringing[c].room \in Rooms /\ ringing[c].user \in Users
    BY DEF TypeOK, Ring
  <1>4. \A op \in LockedOps \cup OptionalOps, r \in Rooms \cup {None}, u \in Users \cup {None} :
            Ask(op, r, u) \in Task
    BY DEF Ask, Task, View, Stages
  <1> QED
    BY <1>1, <1>2, <1>3, <1>4 DEF LockedOps, OptionalOps

LEMMA MarksStep ==
    ASSUME TypeInv, [Next]_vars, NEW c \in Connections, Seated(c),
           NEW x \in Workers, x # c, Owner[c] \in Marked(x)'
    PROVE  Owner[c] \in Marked(x)
  <1>t. TypeOK /\ Starter \in Workers
    BY TasksApart DEF TypeInv
  <1>l. ASSUME NEW w \in Workers, NEW t \in Task, t.gone = {}, RoomTransaction(w, t)
        PROVE  Owner[c] \in Marked(x)
    BY <1>l, <1>t, RoomTransactionMarks
  <1>o. ASSUME NEW d \in Connections, NEW t \in Task, t.op \in OptionalOps, t.gone = {},
               OptionalRoomTransaction(d, t)
        PROVE  Owner[c] \in Marked(x)
    BY <1>o, <1>t, OptionalMarks
  <1>1. ASSUME NEW w \in Workers, DeleteStale(w) \/ Proceed(w)
        PROVE  Owner[c] \in Marked(x)
    BY <1>1, ProgressMarks
  <1>2. ASSUME NEW d \in Connections, Continues(d)
        PROVE  Owner[c] \in Marked(x)
    BY <1>2, TasksApart, ProgressMarks
  <1>3. ASSUME NEW d \in Connections, Requests(d)
        PROVE  Owner[c] \in Marked(x)
    <2>d. d \in Workers
      BY TasksApart
    <2>1. CASE CreateRoom(d)
      <3>1. found'[x] \subseteq found[x] /\ task' = task
        BY <1>t, <2>1, WriteUnmarks DEF CreateRoom, Changed
      <3> QED
        BY <3>1, Unmarked
    <2>2. CASE AcceptIncoming(d)
      BY <1>l, <1>t, <2>2, <2>d, AskTasks, AskOpen DEF AcceptIncoming
    <2>3. CASE Rejoin(d)
      <3>1. \E u \in Users : TRUE
        BY SeatFacts, <1>t
      <3>2. Ask("rejoin", joined[d], None) \in Task
        BY <1>t, <2>3, <3>1, AskTasks DEF Rejoin
      <3> QED
        BY <1>l, <2>3, <2>d, <3>2, AskOpen DEF Rejoin
    <2>4. CASE HangUp(d)
      <3>1. Ask("leave", None, None) \in Task
        BY <1>t, AskTasks
      <3> QED
        BY <1>o, <2>4, <3>1, AskOpen DEF HangUp, OptionalOps
    <2>5. CASE DeclineIncoming(d)
      <3> DEFINE t == Ask("decline", participant[Owner[d]].room, None)
      <3>1. t \in Task /\ t.op = "decline" /\ t.gone = {}
        BY <1>t, <2>5, AskTasks, AskOpen DEF DeclineIncoming
      <3>2. OptionalRoomTransaction(d, t)
        BY <2>5 DEF DeclineIncoming
      <3> HIDE DEF t
      <3> QED
        BY <1>o, <3>1, <3>2 DEF OptionalOps
    <2>6. ASSUME NEW u \in Users, Invite(d, u) \/ CancelInvite(d, u)
          PROVE  Owner[c] \in Marked(x)
      <3>1. Ask("call", joined[d], u) \in Task /\ Ask("cancel", joined[d], u) \in Task
        BY <1>t, <2>6, AskTasks DEF Invite, CancelInvite
      <3> QED
        BY <1>l, <2>6, <2>d, <3>1, AskOpen DEF Invite, CancelInvite
    <2> QED
      BY <1>3, <2>1, <2>2, <2>3, <2>4, <2>5, <2>6 DEF Requests
  <1>4. ASSUME NEW d \in Connections,
               \/ RingUser(d) \/ RingAnswered(d) \/ RingRefused(d)
               \/ Quit(d) \/ CheckOnline(d)
        PROVE  Owner[c] \in Marked(x)
    <2>1. UNCHANGED <<found, task>>
      BY <1>4 DEF RingUser, RingAnswered, RingRefused, Quit, CheckOnline, dbVars
    <2> QED
      BY <2>1, Unmarked
  <1>5. ASSUME NEW d \in Connections, RingFails(d)
        PROVE  Owner[c] \in Marked(x)
    <2>1. Ask("call_failed", ringing[d].room, ringing[d].user) \in Task
      BY <1>5, <1>t, AskTasks DEF RingFails
    <2> QED
      BY <1>5, <1>l, <2>1, AskOpen, TasksApart DEF RingFails
  <1>6. ASSUME NEW d \in Connections, Lose(d)
        PROVE  Owner[c] \in Marked(x)
    <2>1. found'[x] \subseteq found[x]
      BY <1>6, <1>t DEF Lose, TypeOK
    <2> QED
      BY <1>6, <2>1, ServedMarks, TasksApart DEF Lose
  <1>7. ASSUME NEW d \in Connections, Expire(d) \/ DeclineOffline(d)
        PROVE  Owner[c] \in Marked(x)
    <2>1. /\ Ask("expire", None, None) \in Task
          /\ Ask("offline", None, None) \in Task
      BY <1>t, AskTasks
    <2> QED
      BY <1>7, <1>o, <2>1, AskOpen DEF Expire, DeclineOffline, OptionalOps
  <1>8. ASSUME NEW u \in Users, NEW old \in Connections \cup {None}, Connect(u, old)
        PROVE  Owner[c] \in Marked(x)
    BY <1>8, Unmarked DEF Connect, dbVars
  <1>9. CASE Restart
    <2>1. found'[x] = {} /\ task'[x] = None
      BY <1>9 DEF Restart
    <2> QED
      BY <2>1, Unmarked
  <1>10. CASE StartCleanup \/ FinishCleanup
    <2>1. task' = task /\ (found' = found \/ \E U : Write(Without(U)))
      BY <1>10 DEF StartCleanup, FinishCleanup, dbVars
    <2>2. found'[x] \subseteq found[x]
      BY <1>t, <2>1, WriteUnmarks
    <2> QED
      BY <2>1, <2>2, Unmarked
  <1>11. ASSUME NEW r \in Rooms, ClearRoom(r)
         PROVE  Owner[c] \in Marked(x)
    <2>1. Ask("clear", r, None) \in Task
      BY <1>t, AskTasks
    <2> QED
      BY <1>11, <1>l, <1>t, <2>1, AskOpen DEF ClearRoom
  <1>12. CASE UNCHANGED vars
    BY <1>12, Unmarked DEF vars, dbVars
  <1> QED
    BY <1>1, <1>2, <1>3, <1>4, <1>5, <1>6, <1>7, <1>8, <1>9, <1>10, <1>11, <1>12
    DEF Next, Outlives, Cleanup

(* In both builds, and whatever the clients do: while a client has a seat,  *)
(* no transaction but its own comes to mark the row for deletion.           *)
THEOREM SeatsAreNotMarked == Spec => SeatNotMarked
  <1>1. ASSUME SeatInv, [Next]_vars
        PROVE  [\A c \in Connections, w \in Workers :
                   Seated(c) /\ w # c /\ Owner[c] \in Marked(w)' => Owner[c] \in Marked(w)]_vars
    BY <1>1, MarksStep DEF SeatInv
  <1> QED
    BY <1>1, SeatInvHolds, PTL DEF Spec, SeatNotMarked
-----------------------------------------------------------------------------
(* What StaysUntilItLeaves says of one connection.                          *)
StillSeated(c) ==
    \/ /\ InRoom(participant', Owner[c], participant[Owner[c]].room)
       /\ Answered(participant', Owner[c])
    \/ c \notin using' \/ joined'[c] = None
    \/ Overtaken(c)
    \/ CallFails(Owner[c])

LEMMA KeptRow ==
    ASSUME TypeOK, NEW c \in Connections, Seated(c),
           participant'[Owner[c]] = participant[Owner[c]]
    PROVE  StillSeated(c)
  BY SeatFacts DEF StillSeated, InRoom, Answered

(* The rows of somebody else go.                                            *)
LEMMA WithoutSpares ==
    ASSUME TypeOK, NEW c \in Connections, Seated(c),
           NEW U, Owner[c] \notin U, participant' = Without(U)
    PROVE  StillSeated(c)
  BY SeatFacts, KeptRow DEF Without

LEMMA CallFailedSpares ==
    ASSUME TypeInv, Prompt => RingInv, NEW c \in Connections, Seated(c),
           NEW w \in Workers, NEW t, Formed(w, t), t.op = "call_failed", Fails(w, t),
           CallFailed(w, t)
    PROVE  StillSeated(c)
  <1> DEFINE u == Owner[c]
  <1>1. TypeOK /\ w \in Connections /\ t.other \in Users /\ u \in Users
    BY SeatFacts DEF TypeInv, Formed
  <1>2. \/ participant' = participant
        \/ participant' = [participant EXCEPT ![t.other] =
                              IF InRoom(participant, t.other, t.room) THEN None ELSE @]
    BY DEF CallFailed, Changed, Write
  <1>3. CASE t.other = u /\ InRoom(participant, u, t.room)
    <2>1. ~Prompt
      BY <1>1, <1>3, SeatFacts DEF Fails, RingInv
    <2>2. LateAnswers \/ build = "production"
      BY <1>1, <2>1, BuildsAssumption DEF Prompt, TypeOK
    <2>3. ringing'[w] = None
      BY <1>1 DEF CallFailed, TypeOK
    <2>4. CallFails(u)
      BY <1>1, <1>3, <2>2, <2>3 DEF CallFails, Fails
    <2> QED
      BY <2>4 DEF StillSeated
  <1>4. CASE ~(t.other = u /\ InRoom(participant, u, t.room))
    <2>1. participant'[u] = participant[u]
      BY <1>1, <1>2, <1>4 DEF TypeOK
    <2> QED
      BY <1>1, <2>1, KeptRow
  <1> QED
    BY <1>3, <1>4

LEMMA RejoinSpares ==
    ASSUME TypeInv, NEW c \in Connections, Seated(c),
           NEW w \in Workers, NEW t, Formed(w, t), t.op = "rejoin", RejoinRoom(w, t)
    PROVE  StillSeated(c)
  <1> DEFINE u == Owner[c]
  <1>1. TypeOK /\ w \in Connections /\ u \in Users /\ w # None
    BY SeatFacts, NoneAssumption DEF TypeInv, Formed
  <1>2. \/ participant' = participant
        \/ participant' = [participant EXCEPT ![Owner[w]].answering = w]
    BY DEF RejoinRoom, Changed, Write
  <1>3. CASE participant' = participant \/ Owner[w] # u
    <2>1. participant'[u] = participant[u]
      BY <1>1, <1>2, <1>3 DEF TypeOK
    <2> QED
      BY <1>1, <2>1, KeptRow
  <1>4. CASE participant' # participant /\ Owner[w] = u
    <2>1. participant[u] \in Row
      BY <1>1, SeatFacts DEF TypeOK
    <2>2. participant'[u] = [participant[u] EXCEPT !.answering = w]
      BY <1>1, <1>2, <1>4 DEF TypeOK
    <2>3. /\ participant'[u] \in Row /\ participant'[u].room = participant[u].room
          /\ participant'[u].answering = w
      BY <1>1, <2>1, <2>2 DEF Row
    <2> HIDE DEF u
    <2> QED
      BY <1>1, <2>3, NoRowAssumption DEF StillSeated, InRoom, Answered, u
  <1> QED
    BY <1>3, <1>4

(* The statements under the mutex put nobody out but by the failure of a    *)
(* call, and by the deletion of rows that were found before.                *)
LEMMA StatementsSpare ==
    ASSUME TypeInv, Prompt => RingInv, NEW c \in Connections, Seated(c),
           NEW w \in Workers, NEW t, Formed(w, t),
           t.op = "call_failed" => Fails(w, t),
           t.op = "clear" => w # c,
           t.stage = "calls" => task[w] # None /\ t = task[w],
           Statements(w, t)
    PROVE  StillSeated(c)
  <1> DEFINE u == Owner[c]
  <1>1. /\ TypeOK /\ u \in Users /\ participant[u] # None
    BY SeatFacts DEF TypeInv
  <1>2. CASE t.op = "call" /\ Call(w, t)
    <2>1. \/ participant' = participant
          \/ /\ participant[t.other] = None
             /\ \E row : participant' = [participant EXCEPT ![t.other] = row]
      BY <1>2 DEF Call, Changed, Write
    <2>2. participant'[u] = participant[u]
      BY <1>1, <2>1 DEF TypeOK
    <2> QED
      BY <1>1, <2>2, KeptRow
  <1>3. CASE t.op = "call_failed" /\ CallFailed(w, t)
    BY <1>3, CallFailedSpares
  <1>4. CASE t.op = "cancel" /\ CancelCall(w, t)
    <2>1. \/ participant' = participant
          \/ /\ Pending(participant, t.other)
             /\ participant' = [participant EXCEPT ![t.other] = None]
      BY <1>4 DEF CancelCall, Changed, Write
    <2>2. participant'[u] = participant[u]
      BY <1>1, <2>1, SeatFacts DEF TypeOK
    <2> QED
      BY <1>1, <2>2, KeptRow
  <1>5. CASE t.op = "join" /\ JoinRoom(w, t)
    <2>1. \/ participant' = participant
          \/ /\ Pending(participant, Owner[w])
             /\ participant' = [participant EXCEPT ![Owner[w]].answering = w]
      BY <1>5 DEF JoinRoom, Changed, Write
    <2>2. participant'[u] = participant[u]
      BY <1>1, <2>1, SeatFacts DEF TypeOK
    <2> QED
      BY <1>1, <2>2, KeptRow
  <1>6. CASE t.op = "rejoin" /\ RejoinRoom(w, t)
    BY <1>6, RejoinSpares
  <1>7. CASE t.op = "clear" /\ ClearStale(w, t)
    <2> DEFINE gone == IF t.stage = "calls" THEN t.gone \cup found[w]
                       ELSE StaleUsers(t.room) \cup CalledBy(StaleUsers(t.room))
    <2>1. participant' = participant \/ participant' = Without(gone)
      BY <1>7 DEF ClearStale, dbVars, Changed, Write
    <2>2. CASE u \notin gone \/ participant' = participant
      <3> HIDE DEF gone
      <3> QED
        BY <1>1, <2>1, <2>2, KeptRow, WithoutSpares
    <2>3. CASE u \in gone
      <3>1. t.stage = "calls" /\ u \in t.gone \cup found[w]
        BY <1>1, <2>3, SeatFacts
      <3>2. u \in Marked(w)
        BY <3>1 DEF Marked
      <3> QED
        BY <1>7, <3>2 DEF StillSeated, Overtaken
    <2> QED
      BY <2>2, <2>3
  <1> QED
    BY <1>2, <1>3, <1>4, <1>5, <1>6, <1>7 DEF Statements

LEMMA TransactionSpares ==
    ASSUME TypeInv, Prompt => RingInv, NEW c \in Connections, Seated(c),
           NEW w \in Workers, NEW t, Formed(w, t),
           t.op = "call_failed" => Fails(w, t),
           t.op = "clear" => w # c,
           t.stage = "open",
           RoomTransaction(w, t)
    PROVE  StillSeated(c)
  <1>1. CASE Statements(w, t)
    BY <1>1, StatementsSpare
  <1>2. CASE UNCHANGED participant
    BY <1>2, KeptRow DEF TypeInv
  <1> QED
    BY <1>1, <1>2 DEF RoomTransaction, dbVars

(* Operations without a mutex touch the rows of their own connection and of *)
(* callees where they are one step, and none where they start.              *)
LEMMA OptionalSpares ==
    ASSUME TypeOK, NEW c \in Connections, Seated(c),
           NEW d \in Connections, NEW t \in Task, t.op \in OptionalOps,
           t.op \in {"leave", "expire"} => d # c,
           OptionalRoomTransaction(d, t)
    PROVE  StillSeated(c)
  <1>1. CASE UNCHANGED participant
    BY <1>1, KeptRow
  <1>2. CASE Found(d, t) # {} /\ Commit(d, Executed(d, t))
    <2>1. Owner[c] \notin Gone(d, t)
      BY FoundSpares, SeatFacts DEF Gone
    <2>2. participant' = Without(Gone(d, t))
      BY <1>2, ExecutedFormed DEF Commit, Write
    <2> QED
      BY <2>1, <2>2, WithoutSpares
  <1> QED
    BY <1>1, <1>2 DEF OptionalRoomTransaction, dbVars

(* The commit of one that started before the client took its seat.          *)
LEMMA ContinuesSpares ==
    ASSUME TypeInv, OpenInv, NEW c \in Connections, Seated(c),
           NEW d \in Connections, Continues(d)
    PROVE  StillSeated(c)
  <1>t. TypeOK
    BY DEF TypeInv
  <1>1. CASE UNCHANGED participant
    BY <1>1, <1>t, KeptRow
  <1>2. CASE ProceedOptional(d)
    <2>1. task[d] # None /\ task[d] \in Task /\ task[d].stage # "open"
      BY <1>2, <1>t, TasksApart DEF ProceedOptional, TypeOK
    <2>2. participant' = Without(task[d].gone)
      BY <1>2 DEF ProceedOptional, Commit, Write
    <2>3. CASE Owner[c] \notin task[d].gone
      BY <1>t, <2>2, <2>3, WithoutSpares
    <2>4. CASE Owner[c] \in task[d].gone
      <3>1. task[d].op \in OptionalOps
        BY <2>1 DEF OpenInv, Task
      <3>2. d # c
        BY <1>t, <2>1, <3>1, SeatFacts DEF OpenInv, TypeInv, OpInv, OptionalOps
      <3>3. Owner[c] \in Marked(d)
        BY <2>1, <2>4 DEF Marked
      <3> QED
        BY <3>2, <3>3, TasksApart DEF StillSeated, Overtaken
    <2> QED
      BY <2>3, <2>4
  <1> QED
    BY <1>1, <1>2 DEF Continues, DeleteRow, DeleteCalls, DeleteRoom, dbVars

LEMMA RequestsSpare ==
    ASSUME SeatInv, NEW c \in Connections, Seated(c), NEW d \in Connections, Requests(d)
    PROVE  StillSeated(c)
  <1>t. /\ TypeInv /\ TypeOK /\ (Prompt => RingInv) /\ d \in Workers /\ Owner[d] \in Users
        /\ joined \in [Connections -> Rooms \cup {None}]
    BY TasksApart, OwnerAssumption DEF SeatInv, TypeInv, TypeOK
  <1>r. ASSUME NEW op \in {"call", "cancel", "join", "rejoin"}, NEW r \in Rooms,
               NEW u \in Users \cup {None}, op \in {"call", "cancel"} => u \in Users,
               RoomTransaction(d, Ask(op, r, u))
        PROVE  StillSeated(c)
    <2> DEFINE t == Ask(op, r, u)
    <2>1. Formed(d, t)
      BY <1>r, <1>t, AskFormed DEF LockedOps
    <2>2. t.op = op /\ t.stage = "open"
      BY AskOpen
    <2>3. RoomTransaction(d, t)
      BY <1>r
    <2> HIDE DEF t
    <2> QED
      BY <1>t, <2>1, <2>2, <2>3, TransactionSpares
  <1>1. CASE CreateRoom(d)
    <2>1. participant[Owner[d]] = None
            /\ \E row : participant' = [participant EXCEPT ![Owner[d]] = row]
      BY <1>1 DEF CreateRoom, Changed, Write
    <2>2. participant'[Owner[c]] = participant[Owner[c]]
      BY <1>t, <2>1, SeatFacts DEF TypeOK
    <2> QED
      BY <1>t, <2>2, KeptRow
  <1>2. CASE AcceptIncoming(d)
    <2>1. participant[Owner[d]].room \in Rooms
      BY <1>t, <1>2, RowParts DEF AcceptIncoming, Pending, TypeOK
    <2> QED
      BY <1>2, <1>r, <2>1 DEF AcceptIncoming
  <1>3. CASE Rejoin(d)
    <2>1. joined[d] \in Rooms
      BY <1>t, <1>3 DEF Rejoin
    <2> QED
      BY <1>3, <1>r, <2>1 DEF Rejoin
  <1>4. CASE HangUp(d)
    <2>1. CASE d = c
      BY <1>t, <1>4, <2>1 DEF HangUp, StillSeated
    <2>2. CASE d # c
      <3>1. Ask("leave", None, None) \in Task /\ Ask("leave", None, None).op \in OptionalOps
        BY AskOptional DEF OptionalOps
      <3> QED
        BY <1>t, <1>4, <2>2, <3>1, OptionalSpares DEF HangUp
    <2> QED
      BY <2>1, <2>2
  <1>5. CASE DeclineIncoming(d)
    <2> DEFINE t == Ask("decline", participant[Owner[d]].room, None)
    <2>1. participant[Owner[d]].room \in Rooms
      BY <1>t, <1>5, RowParts DEF DeclineIncoming, Pending, TypeOK
    <2>2. t \in Task /\ t.op = "decline"
      BY <2>1, AskOptional DEF OptionalOps
    <2>3. OptionalRoomTransaction(d, t)
      BY <1>5 DEF DeclineIncoming
    <2> HIDE DEF t
    <2> QED
      BY <1>t, <2>2, <2>3, OptionalSpares DEF OptionalOps
  <1>6. ASSUME NEW u \in Users, Invite(d, u) \/ CancelInvite(d, u)
        PROVE  StillSeated(c)
    <2>1. joined[d] \in Rooms
      BY <1>t, <1>6 DEF Invite, CancelInvite
    <2>2. RoomTransaction(d, Ask("call", joined[d], u)) \/ RoomTransaction(d, Ask("cancel", joined[d], u))
      BY <1>6 DEF Invite, CancelInvite
    <2> QED
      BY <1>r, <2>1, <2>2
  <1> QED
    BY <1>1, <1>2, <1>3, <1>4, <1>5, <1>6 DEF Requests

LEMMA SeatStays ==
    ASSUME SeatInv, [Next]_vars, NEW c \in Connections, Seated(c)
    PROVE  StillSeated(c)
  <1>t. /\ TypeInv /\ TypeOK /\ (Prompt => RingInv) /\ OpenInv
        /\ Starter \in Workers /\ Starter # c
    BY TasksApart, StarterAssumption DEF SeatInv, TypeInv
  <1>k. ASSUME UNCHANGED participant
        PROVE  StillSeated(c)
    BY <1>k, <1>t, KeptRow
  <1>1. ASSUME NEW w \in Workers, DeleteStale(w)
        PROVE  StillSeated(c)
    BY <1>1, <1>k DEF DeleteStale
  <1>2. ASSUME NEW w \in Workers, Proceed(w)
        PROVE  StillSeated(c)
    <2>1. Formed(w, task[w]) /\ task[w] # None /\ Statements(w, task[w])
      BY <1>2, <1>t DEF Proceed, TypeInv, TaskInv
    <2>2. /\ task[w].op = "call_failed" => Fails(w, task[w])
          /\ task[w].op = "clear" => w # c
      BY <1>t, <2>1 DEF OpenInv, Formed
    <2> QED
      BY <1>t, <2>1, <2>2, StatementsSpare
  <1>3. ASSUME NEW d \in Connections, Continues(d)
        PROVE  StillSeated(c)
    BY <1>3, <1>t, ContinuesSpares
  <1>4. ASSUME NEW d \in Connections, Requests(d)
        PROVE  StillSeated(c)
    BY <1>4, RequestsSpare
  <1>5. ASSUME NEW d \in Connections,
               \/ RingUser(d) \/ RingAnswered(d) \/ RingRefused(d)
               \/ Quit(d) \/ Lose(d) \/ CheckOnline(d)
        PROVE  StillSeated(c)
    BY <1>5, <1>k DEF RingUser, RingAnswered, RingRefused, Quit, Lose, CheckOnline, dbVars
  <1>6. ASSUME NEW d \in Connections, RingFails(d)
        PROVE  StillSeated(c)
    <2> DEFINE t == Ask("call_failed", ringing[d].room, ringing[d].user)
    <2>1. ringing[d].room \in Rooms /\ ringing[d].user \in Users /\ d \in Workers
      BY <1>6, <1>t, TasksApart DEF RingFails, TypeOK, Ring
    <2>2. Formed(d, t)
      BY <2>1, AskFormed DEF LockedOps
    <2>3. /\ t.op = "call_failed" /\ t.room = ringing[d].room /\ t.other = ringing[d].user
          /\ t.stage = "open"
      BY AskOpen
    <2>4. RoomTransaction(d, t)
      BY <1>6 DEF RingFails
    <2>5. Fails(d, t)
      BY <1>6, <2>3 DEF Fails, RingFails
    <2> HIDE DEF t
    <2> QED
      BY <1>t, <2>1, <2>2, <2>3, <2>4, <2>5, TransactionSpares
  <1>7. ASSUME NEW d \in Connections, Expire(d) \/ DeclineOffline(d)
        PROVE  StillSeated(c)
    <2>1. \E t \in Task : /\ t.op \in {"expire", "offline"} /\ t.op \in OptionalOps
                          /\ OptionalRoomTransaction(d, t)
      BY <1>7, AskOptional DEF Expire, DeclineOffline, OptionalOps
    <2>2. d # c
      BY <1>7, <1>t, SeatFacts DEF Expire, DeclineOffline
    <2> QED
      BY <1>t, <2>1, <2>2, OptionalSpares
  <1>8. ASSUME NEW u \in Users, NEW old \in Connections \cup {None}, Connect(u, old)
        PROVE  StillSeated(c)
    BY <1>8, <1>k DEF Connect, dbVars
  <1>9. CASE Restart \/ StartCleanup \/ UNCHANGED vars
    BY <1>9, <1>k DEF Restart, StartCleanup, vars, dbVars
  <1>10. CASE FinishCleanup
    <2> DEFINE gone == UNION {StaleUsers(r) : r \in Rooms}
    <2>1. participant' = Without(gone)
      BY <1>10 DEF FinishCleanup, Write
    <2>2. Owner[c] \notin gone
      BY <1>t, SeatFacts
    <2> HIDE DEF gone
    <2> QED
      BY <1>t, <2>1, <2>2, WithoutSpares
  <1>11. ASSUME NEW r \in Rooms, ClearRoom(r)
         PROVE  StillSeated(c)
    <2> DEFINE t == Ask("clear", r, None)
    <2>1. Formed(Starter, t)
      BY <1>t, AskFormed DEF LockedOps
    <2>2. t.op = "clear" /\ t.stage = "open"
      BY AskOpen
    <2>3. RoomTransaction(Starter, t)
      BY <1>11 DEF ClearRoom
    <2> HIDE DEF t
    <2> QED
      BY <1>t, <2>1, <2>2, <2>3, TransactionSpares
  <1> QED
    BY <1>1, <1>2, <1>3, <1>4, <1>5, <1>6, <1>7, <1>8, <1>9, <1>10, <1>11
    DEF Next, Outlives, Cleanup

(* In both builds, and whatever the clients do: a client that is in a room  *)
(* stays there until it leaves, but for a transaction that had found its    *)
(* row before it sat down and for the failure of the call that it has       *)
(* answered.  No timer of an earlier connection that fires later, no        *)
(* declining, no call that ends in another way and no cleanup puts it out.  *)
THEOREM SeatedClientsStay == Spec => StaysUntilItLeaves
  <1>1. ASSUME SeatInv, [Next]_vars
        PROVE  [\A c \in Connections :
                   Seated(c) =>
                       \/ /\ InRoom(participant', Owner[c], participant[Owner[c]].room)
                          /\ Answered(participant', Owner[c])
                       \/ c \notin using' \/ joined'[c] = None
                       \/ Overtaken(c)
                       \/ CallFails(Owner[c])]_vars
    BY <1>1, SeatStays DEF StillSeated
  <1> QED
    BY <1>1, SeatInvHolds, PTL DEF Spec, StaysUntilItLeaves
=============================================================================
