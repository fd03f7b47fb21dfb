----------------------------- MODULE SignalRoom -----------------------------
(***************************************************************************)
(* Signaling rooms of the service (internal/service/service.go) for one     *)
(* room token: room objects, the websocket clients in them, pairing by role *)
(* or without one, reconnect generations, forwarding with a replay backlog, *)
(* leaving and expiry.  Every operation holds s.mu from start to end, so    *)
(* each is one step; what interleaves is which operation runs next, and a   *)
(* client's leave may run long after its room or its generation has ended.  *)
(***************************************************************************)
EXTENDS Integers, Sequences, FiniteSets

CONSTANTS
    Endpoints,   \* programs that connect with this token
    RoleOf,      \* the role each one asks for, "none" for a legacy client
    TTL,         \* cfg.RoomTTL
    MaxPending,  \* maxPendingSignals
    Capacity,    \* signalSendQueueCapacity
    MaxTime,     \* bound on the clock
    MaxRooms,    \* bound on room objects
    MaxConns     \* bound on connections

Role == {"sender", "receiver"}

ASSUME SignalConstants ==
    /\ Endpoints # {} /\ RoleOf \in [Endpoints -> Role \cup {"none"}]
    /\ TTL \in Nat /\ MaxPending \in Nat \ {0} /\ Capacity \in Nat
    /\ Capacity > MaxPending + 1
    /\ MaxTime \in Nat /\ MaxRooms \in Nat /\ MaxConns \in Nat

RoomId == 1..MaxRooms   \* 0: no room
ConnId == 1..MaxConns   \* 0: no client

\* What a send queue carries: signal_ready with or without a reconnect token,
\* a forwarded signal, the expiry error.
Ready(supported) == [type |-> IF supported THEN "ready" ELSE "ready_plain", from |-> 0]
Signal(c) == [type |-> "signal", from |-> c]
RoomExpired == [type |-> "expired", from |-> 0]
Payload == [type : {"ready", "ready_plain", "signal", "expired"}, from : 0..MaxConns]

VARIABLES
    now,         \* the clock
    rooms,       \* s.rooms[token]: the registered room, 0 when there is none
    room,        \* every room object
    lastRoom,    \* the last room allocated
    conn,        \* every client object
    lastConn,    \* the last client allocated
    known,       \* the room whose reconnect token an endpoint holds, 0 for none
    pair,        \* history: the endpoints that first filled a room's roles
    evicted      \* history: a leave unregistered a room other than its own

vars == <<now, rooms, room, lastRoom, conn, lastConn, known, pair, evicted>>

NewRoom ==
    [expires |-> now + TTL, locked |-> FALSE, reconnectEnabled |-> FALSE,
     needsNewGeneration |-> FALSE, generation |-> 0, pending |-> << >>,
     tokens |-> [role \in Role |-> FALSE], slots |-> [role \in Role |-> 0],
     clients |-> {}]

NoConn ==
    [room |-> 0, endpoint |-> CHOOSE e \in Endpoints : TRUE, role |-> "none",
     explicit |-> FALSE, generation |-> 0, closed |-> FALSE, left |-> FALSE,
     queue |-> << >>]

NoPair == [role \in Role |-> {}]

Init ==
    /\ now = 0 /\ rooms = 0 /\ lastRoom = 0 /\ lastConn = 0
    /\ room = [r \in RoomId |-> NewRoom]
    /\ conn = [c \in ConnId |-> NoConn]
    /\ known = [e \in Endpoints |-> 0]
    /\ pair = [r \in RoomId |-> NoPair]
    /\ evicted = FALSE

Opposite(role) == IF role = "sender" THEN "receiver" ELSE "sender"

\* A select with a default: a full queue drops the payload.
Offer(queue, payload) ==
    IF Len(queue) < Capacity THEN Append(queue, payload) ELSE queue

(***************************************************************************)
(* Expiry: the clients of a lapsed room get an error and are closed; they   *)
(* stay in the room object, which is no longer registered.                  *)
(***************************************************************************)

Lapsed == rooms # 0 /\ now > room[rooms].expires

Lapsing == IF Lapsed THEN room[rooms].clients ELSE {}

\* Mutant: the clients are told, and their queues stay open.
ExpireKeepsOpen(conns) ==
    [c \in ConnId |->
        IF c \in Lapsing /\ ~conns[c].closed
        THEN [conns[c] EXCEPT !.queue = Offer(@, RoomExpired)]
        ELSE conns[c]]

\* expireRoomLocked on the clients of a lapsed room.
Expire(conns) ==
    [c \in ConnId |->
        IF c \in Lapsing /\ ~conns[c].closed
        THEN [conns[c] EXCEPT !.closed = TRUE, !.queue = Offer(@, RoomExpired)]
        ELSE conns[c]]

Cleanup ==
    /\ Lapsed
    /\ rooms' = 0
    /\ conn' = Expire(conn)
    /\ UNCHANGED <<now, room, lastRoom, lastConn, known, pair, evicted>>

(***************************************************************************)
(* Joining.  A lapsed room is expired by the join that meets it; a join     *)
(* that finds no room creates one.  The remaining refusals change nothing.  *)
(***************************************************************************)

Fresh == rooms = 0 \/ Lapsed
TargetId == IF Fresh THEN lastRoom + 1 ELSE rooms
Target == IF Fresh THEN NewRoom ELSE room[rooms]

Client(e, r, role, generation, queue) ==
    [room |-> r, endpoint |-> e, role |-> role, explicit |-> RoleOf[e] # "none",
     generation |-> generation, closed |-> FALSE, left |-> FALSE, queue |-> queue]

\* The two slots are held by clients that asked for their roles.
TwoExplicitRoles(slots, conns) ==
    \A role \in Role : slots[role] # 0 /\ conns[slots[role]].explicit

Endpoint(c, conns) == IF c = 0 THEN {} ELSE {conns[c].endpoint}

\* The room and client tables after client c of endpoint e, with room content
\* R and client table conns, has taken its place.
Enter(e, c, r, R, conns) ==
    LET full == Cardinality(R.clients) = 2
        enabled == R.reconnectEnabled \/ (full /\ TwoExplicitRoles(R.slots, conns))
        entered == [R EXCEPT !.locked = @ \/ full, !.reconnectEnabled = enabled]
    IN
    /\ r \in RoomId /\ c \in ConnId
    /\ lastConn' = c
    /\ room' = [room EXCEPT ![r] = entered]
    /\ pair' = IF enabled /\ ~R.reconnectEnabled
               THEN [pair EXCEPT ![r] = [role \in Role |-> Endpoint(R.slots[role], conns)]]
               ELSE pair

\* Client c takes the role, and client s, if there is one, the other role.
Seat(slots, role, c, s) ==
    [o \in Role |-> IF o = role THEN c ELSE IF s = 0 THEN slots[o] ELSE s]

\* An explicit role in a room that has not been locked.  A client that joined
\* without a role is given the opposite one.
JoinExplicit(e) ==
    LET r == TargetId
        R == Target
        c == lastConn + 1
        role == RoleOf[e]
    IN
    /\ role \in Role /\ ~R.locked /\ R.slots[role] = 0 /\ c \in ConnId
    /\ \E s \in IF \E x \in R.clients : conn[x].role = "none"
                THEN {x \in R.clients : conn[x].role = "none"} ELSE {0} :
         LET opposite == Opposite(role)
             Joined == [R EXCEPT !.clients = @ \cup {c}, !.tokens = [@ EXCEPT ![role] = TRUE],
                                 !.slots = Seat(@, role, c, s)]
             bare == [Expire(conn) EXCEPT ![c] = Client(e, r, role, R.generation, << >>)]
             supported == \/ Cardinality(Joined.clients) < 2
                          \/ TwoExplicitRoles(Joined.slots, bare)
         IN
         /\ conn' = [x \in ConnId |->
                IF x = c THEN Client(e, r, role, R.generation, <<Ready(supported)>> \o R.pending)
                ELSE IF x = s THEN [bare[x] EXCEPT !.role = opposite]
                ELSE bare[x]]
         /\ Enter(e, c, r, Joined, bare)
    /\ rooms' = r
    /\ lastRoom' = IF Fresh THEN r ELSE lastRoom
    /\ UNCHANGED <<now, known, evicted>>

\* joinLegacyLocked: no role asked for; the opposite of the other client's role
\* is taken, and an explicit other client learns that it cannot reconnect.
JoinLegacy(e) ==
    LET r == TargetId
        R == Target
        c == lastConn + 1
        takenRoles == {conn[x].role : x \in R.clients} \ {"none"}
        role == IF takenRoles = {} THEN "none"
                ELSE Opposite(CHOOSE taken \in takenRoles : TRUE)
        Joined == [R EXCEPT !.clients = @ \cup {c},
                            !.slots = [o \in Role |-> IF o = role THEN c ELSE @[o]]]
        bare == [Expire(conn) EXCEPT ![c] = Client(e, r, role, R.generation, R.pending)]
    IN
    /\ RoleOf[e] = "none" /\ ~R.locked /\ Cardinality(R.clients) < 2 /\ c \in ConnId
    /\ conn' = [x \in ConnId |->
           IF x \in R.clients /\ conn[x].explicit
           THEN [bare[x] EXCEPT !.queue = Append(@, Ready(FALSE))]
           ELSE bare[x]]
    /\ Enter(e, c, r, Joined, bare)
    /\ rooms' = r
    /\ lastRoom' = IF Fresh THEN r ELSE lastRoom
    /\ UNCHANGED <<now, known, evicted>>

\* A reconnect token shown to a new room is refused and the room, which has no
\* client, is dropped again; a lapsed room it replaced is expired nevertheless.
JoinRefusedFresh(e) ==
    /\ RoleOf[e] \in Role /\ known[e] # 0 /\ Lapsed
    /\ rooms' = 0
    /\ conn' = Expire(conn)
    /\ UNCHANGED <<now, room, lastRoom, lastConn, known, pair, evicted>>

\* Mutant: signals of the previous generation are kept for replay.
NewGenerationKeepsPending(R) ==
    IF R.needsNewGeneration
    THEN [R EXCEPT !.generation = @ + 1, !.needsNewGeneration = FALSE,
                   !.clients = {},
                   !.slots = [role \in Role |-> IF @[role] \in R.clients THEN 0 ELSE @[role]]]
    ELSE R

\* Mutant: the clients of the previous generation are closed but not removed.
NewGenerationKeepsClients(R) ==
    IF R.needsNewGeneration
    THEN [R EXCEPT !.generation = @ + 1, !.pending = << >>, !.needsNewGeneration = FALSE,
                   !.slots = [role \in Role |-> IF @[role] \in R.clients THEN 0 ELSE @[role]]]
    ELSE R

\* startReconnectGenerationLocked on the room.
NewGeneration(R) ==
    IF R.needsNewGeneration
    THEN [R EXCEPT !.generation = @ + 1, !.pending = << >>, !.needsNewGeneration = FALSE,
                   !.clients = {},
                   !.slots = [role \in Role |-> IF @[role] \in R.clients THEN 0 ELSE @[role]]]
    ELSE R

\* Mutant: any token is taken for the role's.
TokenAcceptedAlways(e, r, role) == TRUE

\* equalReconnectToken: the token shown is the one this room made for the role.
TokenAccepted(e, r, role) == room[r].tokens[role] /\ known[e] = r

\* A locked room lets in the holder of a vacant role's reconnect token.  If a
\* client of this generation has left, a new generation starts: everyone still
\* in the room is closed and the backlog is dropped.
Rejoin(e) ==
    LET r == rooms
        role == RoleOf[e]
        R == NewGeneration(room[r])
        c == lastConn + 1
        kicked == IF room[r].needsNewGeneration THEN room[r].clients ELSE {}
        Joined == [R EXCEPT !.clients = @ \cup {c}, !.slots[role] = c]
        supported == Cardinality(Joined.clients) < 2 \/ R.reconnectEnabled
    IN
    /\ rooms # 0 /\ ~Lapsed /\ role \in Role /\ c \in ConnId
    /\ room[r].locked /\ room[r].slots[role] = 0 /\ TokenAccepted(e, r, role)
    /\ conn' = [x \in ConnId |->
           IF x = c THEN Client(e, r, role, R.generation, <<Ready(supported)>> \o R.pending)
           ELSE IF x \in kicked THEN [conn[x] EXCEPT !.closed = TRUE]
           ELSE conn[x]]
    /\ Enter(e, c, r, Joined, [conn EXCEPT ![c] = Client(e, r, role, R.generation, << >>)])
    /\ UNCHANGED <<now, rooms, lastRoom, known, evicted>>

(***************************************************************************)
(* Traffic.                                                                 *)
(***************************************************************************)

\* The replay backlog drops its oldest entry when it is full.
Remember(pending, payload) ==
    Append(IF Len(pending) >= MaxPending THEN Tail(pending) ELSE pending, payload)

\* forward: remembered for a client that joins later, offered to the others.
Forward(c) ==
    LET r == conn[c].room IN
    /\ r # 0 /\ ~conn[c].left /\ ~conn[c].closed
    /\ conn[c].generation = room[r].generation /\ c \in room[r].clients
    /\ room' = [room EXCEPT ![r].pending = Remember(@, Signal(c))]
    /\ conn' = [x \in ConnId |->
           IF x \in room[r].clients \ {c}
           THEN [conn[x] EXCEPT !.queue = Offer(@, Signal(c))]
           ELSE conn[x]]
    /\ UNCHANGED <<now, rooms, lastRoom, lastConn, known, pair, evicted>>

\* writeLoop takes one payload; the endpoint learns its reconnect token.
Deliver(c) ==
    /\ conn[c].queue # << >>
    /\ conn' = [conn EXCEPT ![c].queue = Tail(@)]
    /\ known' = IF Head(conn[c].queue).type = "ready"
                THEN [known EXCEPT ![conn[c].endpoint] = conn[c].room] ELSE known
    /\ UNCHANGED <<now, rooms, room, lastRoom, lastConn, pair, evicted>>

SupportsReconnect(R) ==
    R.locked /\ R.reconnectEnabled /\ \A role \in Role : R.tokens[role]

\* leave: the readLoop of a connection ends, whatever became of its room, and
\* what its queue still holds has no socket to go to.  The room is unregistered
\* by its token, not by its identity.
Leave(c) ==
    LET r == conn[c].room
        R == room[r]
        held == {role \in Role : conn[c].role = role /\ R.slots[role] = c}
        Left == [R EXCEPT !.clients = @ \ {c},
                          !.slots = [role \in Role |-> IF role \in held THEN 0 ELSE @[role]],
                          !.needsNewGeneration = @ \/ (held # {} /\ R.locked /\ conn[c].explicit)]
        drop == Left.clients = {} /\ ~SupportsReconnect(R)
    IN
    /\ r # 0 /\ ~conn[c].left
    /\ room' = [room EXCEPT ![r] = Left]
    /\ rooms' = IF drop THEN 0 ELSE rooms
    /\ conn' = [conn EXCEPT ![c].closed = TRUE, ![c].left = TRUE, ![c].queue = << >>]
    /\ evicted' = (evicted \/ (drop /\ rooms \notin {0, r}))
    /\ UNCHANGED <<now, lastRoom, lastConn, known, pair>>

Tick ==
    /\ now < MaxTime
    /\ now' = now + 1
    /\ UNCHANGED <<rooms, room, lastRoom, conn, lastConn, known, pair, evicted>>

Join(e) == JoinExplicit(e) \/ JoinLegacy(e) \/ JoinRefusedFresh(e) \/ Rejoin(e)

Next ==
    \/ \E e \in Endpoints : Join(e)
    \/ \E c \in ConnId : Forward(c) \/ Deliver(c) \/ Leave(c)
    \/ Cleanup \/ Tick

Spec == Init /\ [][Next]_vars

\* The cleanup ticker fires every minute, the clock advances, and a closed
\* send queue makes writeLoop close the connection, which ends its readLoop.
Fairness ==
    /\ WF_vars(Cleanup) /\ WF_vars(Tick)
    /\ \A c \in ConnId : WF_vars(conn[c].closed /\ Leave(c))

FairSpec == Spec /\ Fairness

(***************************************************************************)
(* Properties.                                                              *)
(***************************************************************************)

RoomRecord ==
    [expires : Nat, locked : BOOLEAN, reconnectEnabled : BOOLEAN,
     needsNewGeneration : BOOLEAN, generation : Nat, pending : Seq(Payload),
     tokens : [Role -> BOOLEAN], slots : [Role -> 0..MaxConns],
     clients : SUBSET ConnId]

ConnRecord ==
    [room : 0..MaxRooms, endpoint : Endpoints, role : Role \cup {"none"},
     explicit : BOOLEAN, generation : Nat, closed : BOOLEAN, left : BOOLEAN,
     queue : Seq(Payload)]

\* Every variable has the type its Go counterpart has.
TypeOK ==
    /\ now \in Nat /\ rooms \in 0..MaxRooms /\ lastRoom \in 0..MaxRooms
    /\ room \in [RoomId -> RoomRecord]
    /\ lastConn \in 0..MaxConns /\ conn \in [ConnId -> ConnRecord]
    /\ known \in [Endpoints -> 0..MaxRooms]
    /\ pair \in [RoomId -> [Role -> SUBSET Endpoints]]
    /\ evicted \in BOOLEAN

\* No operation sends on a closed queue, which would panic the service while
\* it holds s.mu: in a registered room every client is open, and in any room
\* an open client, the only kind forward accepts payloads from, has only open
\* peers, although expireRoomLocked leaves closed clients in their room.
NoSendOnClosedQueue ==
    \A r \in RoomId :
        /\ r = rooms => \A x \in room[r].clients : ~conn[x].closed
        /\ (\E x \in room[r].clients : ~conn[x].closed)
             => \A x \in room[r].clients : ~conn[x].closed

\* A signal reaches only the other side of the same room and generation:
\* nobody is replayed a signal of an earlier generation or of its own role.
SignalsStayInGeneration ==
    \A c \in ConnId : \A i \in 1..Len(conn[c].queue) :
        LET from == conn[c].queue[i].from IN
        conn[c].queue[i].type = "signal" =>
            /\ from # c /\ conn[from].room = conn[c].room
            /\ conn[from].generation = conn[c].generation
            /\ conn[from].role = conn[c].role => conn[c].role = "none"

\* Once a sender and a receiver are paired, their roles are theirs: whoever
\* holds a role of the room later is the endpoint that held it then.
PairIsExclusive ==
    \A r \in RoomId : room[r].reconnectEnabled =>
        /\ Cardinality(room[r].clients) <= 2
        /\ \A role \in Role : room[r].slots[role] # 0 =>
               conn[room[r].slots[role]].endpoint \in pair[r][role]

\* The sends a join makes while it holds s.mu find room in their queues: the
\* ready message and the whole backlog of a new client, and the notice to the
\* client that a legacy client joins.
JoinNeverBlocks ==
    rooms # 0 =>
        /\ Len(room[rooms].pending) + 1 < Capacity
        /\ ~room[rooms].locked =>
               \A x \in room[rooms].clients : Len(conn[x].queue) < Capacity

\* A client that has not been closed is in the registered room, where its peer
\* can meet it and the cleanup expires it, unless a leave unregistered a room
\* other than its own.
OpenClientIsRegistered ==
    \A c \in 1..lastConn :
        ~conn[c].closed /\ ~evicted =>
            conn[c].room = rooms /\ c \in room[rooms].clients

\* A room keeps its peers: the pair holds its roles, an open client is where its
\* peer and the cleanup find it, and the sends of a join under s.mu never wait.
RoomsAreSound == PairIsExclusive /\ OpenClientIsRegistered /\ JoinNeverBlocks

\* A client whose room has outlived its TTL is notified and closed.  It does not
\* hold: leave unregisters by token the room that has replaced its own.
ExpiredRoomsClose ==
    \A c \in ConnId :
        (conn[c].room # 0 /\ ~conn[c].closed /\ now > room[conn[c].room].expires)
            ~> conn[c].closed

\* The same with its one exception: a leave that unregistered a room which was
\* not its own took the room out of the cleanup's sight.
ExpiredRoomsCloseUnlessEvicted ==
    \A c \in ConnId :
        (conn[c].room # 0 /\ ~conn[c].closed /\ now > room[conn[c].room].expires)
            ~> (conn[c].closed \/ evicted)
=============================================================================
