-------------------------- MODULE SignalRoomProofs --------------------------
(***************************************************************************)
(* Proofs about SignalRoom for any endpoints, capacities, rooms and clients. *)
(* The first part is about who is listed where and open, the second about   *)
(* who meets whom: signals stay in their generation, a pair keeps its       *)
(* roles, an open client can be found, and a join never blocks.             *)
(***************************************************************************)
EXTENDS SignalRoom, TLAPS, SequenceTheorems, FiniteSetTheorems

\* A client is listed only by the room it joined.
MemberInv == \A r \in RoomId : \A x \in room[r].clients : conn[x].room = r

\* Only allocated rooms have clients, these are allocated, and so is the
\* registered room.
AllocInv ==
    /\ rooms <= lastRoom
    /\ \A r \in RoomId : \A x \in room[r].clients : x <= lastConn
    /\ \A r \in RoomId : r > lastRoom => room[r].clients = {}

\* The clients of the registered room are open.
OpenInv == rooms # 0 => \A x \in room[rooms].clients : ~conn[x].closed

\* An open client has open peers.
PeerInv ==
    \A r \in RoomId : (\E x \in room[r].clients : ~conn[x].closed)
                          => \A x \in room[r].clients : ~conn[x].closed

IInv == TypeOK /\ MemberInv /\ AllocInv /\ OpenInv /\ PeerInv

(***************************************************************************)
(* Types.                                                                   *)
(***************************************************************************)

LEMMA PayloadType ==
    /\ \A b \in BOOLEAN : Ready(b) \in Payload
    /\ \A c \in ConnId : Signal(c) \in Payload
    /\ RoomExpired \in Payload
  BY SignalConstants DEF Ready, Signal, RoomExpired, Payload, ConnId

LEMMA ReadyType == ASSUME NEW b PROVE Ready(b) \in Payload
  BY SignalConstants DEF Ready, Payload

LEMMA GreetingType ==
    ASSUME NEW b, NEW q \in Seq(Payload) PROVE <<Ready(b)>> \o q \in Seq(Payload)
<1>1. <<Ready(b)>> \in Seq(Payload)
  BY ReadyType
<1> QED
  BY <1>1

\* Records stay of their type when fields of theirs get values of the field's type.
LEMMA RoomUpdate ==
    ASSUME NEW R \in RoomRecord, NEW cs \in SUBSET ConnId, NEW tokens \in [Role -> BOOLEAN],
           NEW slots \in [Role -> 0..MaxConns]
    PROVE  /\ [R EXCEPT !.clients = cs, !.slots = slots] \in RoomRecord
           /\ [R EXCEPT !.clients = cs, !.tokens = tokens, !.slots = slots] \in RoomRecord
  BY DEF RoomRecord

LEMMA RoleUpdate ==
    ASSUME NEW C \in ConnRecord, NEW role \in Role PROVE [C EXCEPT !.role = role] \in ConnRecord
  BY DEF ConnRecord

LEMMA QueueUpdate ==
    ASSUME NEW C \in ConnRecord, NEW q \in Seq(Payload) PROVE [C EXCEPT !.queue = q] \in ConnRecord
  BY DEF ConnRecord

LEMMA NewRoomType == now \in Nat => NewRoom \in RoomRecord
<1>1. << >> \in Seq(Payload)
  BY EmptySeq
<1> QED
  BY <1>1, SignalConstants DEF NewRoom, RoomRecord, Role

LEMMA NoConnType == NoConn \in ConnRecord
<1>1. << >> \in Seq(Payload) /\ (CHOOSE e \in Endpoints : TRUE) \in Endpoints
  BY EmptySeq, SignalConstants
<1> QED
  BY <1>1, SignalConstants DEF NoConn, ConnRecord, Role

LEMMA TargetType == TypeOK => Target \in RoomRecord
  BY NewRoomType DEF TypeOK, Target, Fresh, RoomId

LEMMA OfferType ==
    ASSUME NEW q \in Seq(Payload), NEW p \in Payload PROVE Offer(q, p) \in Seq(Payload)
  BY DEF Offer

LEMMA ExpireType == TypeOK => Expire(conn) \in [ConnId -> ConnRecord]
<1> SUFFICES ASSUME TypeOK, NEW c \in ConnId
             PROVE  [conn[c] EXCEPT !.closed = TRUE, !.queue = Offer(@, RoomExpired)] \in ConnRecord
  BY DEF TypeOK, Expire
<1>1. conn[c] \in ConnRecord /\ conn[c].queue \in Seq(Payload)
  BY DEF TypeOK, ConnRecord
<1>2. Offer(conn[c].queue, RoomExpired) \in Seq(Payload)
  BY <1>1, OfferType, PayloadType
<1> QED
  BY <1>1, <1>2 DEF ConnRecord

LEMMA ClientType ==
    ASSUME NEW e \in Endpoints, NEW r \in RoomId, NEW role \in Role \cup {"none"},
           NEW g \in Nat, NEW q \in Seq(Payload)
    PROVE  Client(e, r, role, g, q) \in ConnRecord
  BY SignalConstants DEF Client, ConnRecord, RoomId

LEMMA EnterType ==
    ASSUME TypeOK, NEW e \in Endpoints, NEW c, NEW r, NEW R \in RoomRecord,
           NEW conns \in [ConnId -> ConnRecord], Enter(e, c, r, R, conns)
    PROVE  /\ r \in RoomId /\ c \in ConnId
           /\ lastConn' \in 0..MaxConns /\ room' \in [RoomId -> RoomRecord]
           /\ pair' \in [RoomId -> [Role -> SUBSET Endpoints]]
<1> DEFINE full == Cardinality(R.clients) = 2
           enabled == R.reconnectEnabled \/ (full /\ TwoExplicitRoles(R.slots, conns))
           entered == [R EXCEPT !.locked = @ \/ full, !.reconnectEnabled = enabled]
<1>1. r \in RoomId /\ c \in ConnId /\ lastConn' \in 0..MaxConns
  BY SignalConstants DEF Enter, ConnId
<1>2. entered \in RoomRecord
  BY DEF RoomRecord
<1>3. room' = [room EXCEPT ![r] = entered]
  BY DEF Enter
<1>4. room' \in [RoomId -> RoomRecord]
  BY <1>1, <1>2, <1>3 DEF TypeOK
<1>5. [role \in Role |-> Endpoint(R.slots[role], conns)] \in [Role -> SUBSET Endpoints]
  <2> SUFFICES ASSUME NEW role \in Role PROVE Endpoint(R.slots[role], conns) \in SUBSET Endpoints
    OBVIOUS
  <2>1. R.slots[role] = 0 \/ R.slots[role] \in ConnId
    BY SignalConstants DEF RoomRecord, ConnId
  <2> QED
    BY <2>1 DEF Endpoint, ConnRecord
<1>6. pair' \in [RoomId -> [Role -> SUBSET Endpoints]]
  BY <1>1, <1>5 DEF Enter, TypeOK
<1> QED
  BY <1>1, <1>4, <1>6

LEMMA InitType == Init => TypeOK
<1> SUFFICES ASSUME Init PROVE TypeOK
  OBVIOUS
<1> USE SignalConstants
<1>1. now \in Nat /\ rooms \in 0..MaxRooms /\ lastRoom \in 0..MaxRooms /\ lastConn \in 0..MaxConns
  BY DEF Init
<1>2. room \in [RoomId -> RoomRecord] /\ conn \in [ConnId -> ConnRecord]
  BY NewRoomType, NoConnType DEF Init
<1>3. known \in [Endpoints -> 0..MaxRooms]
  BY DEF Init
<1>4. pair \in [RoomId -> [Role -> SUBSET Endpoints]]
  BY DEF Init, NoPair
<1>5. evicted \in BOOLEAN
  BY Zenon DEF Init
<1> QED
  BY <1>1, <1>2, <1>3, <1>4, <1>5 DEF TypeOK

LEMMA TargetIdType == TypeOK => (Fresh => TargetId = lastRoom + 1) /\ (~Fresh => TargetId = rooms /\ rooms \in RoomId)
  BY SignalConstants DEF TypeOK, TargetId, Fresh, RoomId

LEMMA JoinExplicitType ==
    ASSUME TypeOK, NEW e \in Endpoints, JoinExplicit(e) PROVE TypeOK'
<1> DEFINE r == TargetId
           R == Target
           c == lastConn + 1
           role == RoleOf[e]
           opposite == Opposite(role)
           bare == [Expire(conn) EXCEPT ![c] = Client(e, r, role, R.generation, << >>)]
           Joined(s) == [R EXCEPT !.clients = @ \cup {c}, !.tokens = [@ EXCEPT ![role] = TRUE],
                                  !.slots = Seat(@, role, c, s)]
           supported(s) == \/ Cardinality(Joined(s).clients) < 2
                           \/ TwoExplicitRoles(Joined(s).slots, bare)
<1> USE SignalConstants
<1>1. R \in RoomRecord /\ R.clients \subseteq ConnId /\ R.pending \in Seq(Payload) /\ R.generation \in Nat
  BY TargetType DEF RoomRecord
<1>2. role \in Role /\ opposite \in Role /\ c \in ConnId
  BY DEF JoinExplicit, Opposite, Role
<1>3. PICK s \in R.clients \cup {0} :
        /\ conn' = [x \in ConnId |->
               IF x = c THEN Client(e, r, role, R.generation, <<Ready(supported(s))>> \o R.pending)
               ELSE IF x = s THEN [bare[x] EXCEPT !.role = opposite]
               ELSE bare[x]]
        /\ Enter(e, c, r, Joined(s), bare)
  BY DEF JoinExplicit
<1>4. s \in 0..MaxConns
  BY <1>1 DEF ConnId
<1>5. Joined(s) \in RoomRecord
  <2>1. R.clients \cup {c} \in SUBSET ConnId
    BY <1>1, <1>2
  <2>2. [R.tokens EXCEPT ![role] = TRUE] \in [Role -> BOOLEAN]
    BY <1>1, <1>2 DEF RoomRecord
  <2>3. R.slots \in [Role -> 0..MaxConns] /\ c \in 0..MaxConns
    BY <1>1, <1>2 DEF RoomRecord, ConnId
  <2>4. Seat(R.slots, role, c, s) \in [Role -> 0..MaxConns]
    BY <1>4, <2>3 DEF Seat
  <2>5. Joined(s) = [R EXCEPT !.clients = R.clients \cup {c},
                              !.tokens = [R.tokens EXCEPT ![role] = TRUE],
                              !.slots = Seat(R.slots, role, c, s)]
    BY <1>1 DEF RoomRecord
  <2> QED
    BY <1>1, <2>1, <2>2, <2>4, <2>5, RoomUpdate
<1>6. r \in RoomId
  BY <1>3 DEF Enter
<1>7. \A q \in Seq(Payload) : Client(e, r, role, R.generation, q) \in ConnRecord
  BY <1>1, <1>2, <1>6, ClientType
<1>8. bare \in [ConnId -> ConnRecord]
  BY <1>7, ExpireType, EmptySeq
<1>9. <<Ready(supported(s))>> \o R.pending \in Seq(Payload)
  BY <1>1, GreetingType
<1>10. \A x \in ConnId : [bare[x] EXCEPT !.role = opposite] \in ConnRecord
  BY <1>2, <1>8, RoleUpdate
<1>11. conn' \in [ConnId -> ConnRecord]
  BY <1>3, <1>7, <1>8, <1>9, <1>10
<1>12. /\ lastConn' \in 0..MaxConns /\ room' \in [RoomId -> RoomRecord]
       /\ pair' \in [RoomId -> [Role -> SUBSET Endpoints]]
  BY <1>3, <1>5, <1>8, EnterType
<1>13. rooms' \in 0..MaxRooms /\ lastRoom' \in 0..MaxRooms /\ UNCHANGED <<now, known, evicted>>
  BY <1>6 DEF JoinExplicit, TypeOK, RoomId
<1> QED
  BY <1>11, <1>12, <1>13 DEF TypeOK

LEMMA JoinLegacyType ==
    ASSUME TypeOK, NEW e \in Endpoints, JoinLegacy(e) PROVE TypeOK'
<1> DEFINE r == TargetId
           R == Target
           c == lastConn + 1
           takenRoles == {conn[x].role : x \in R.clients} \ {"none"}
           role == IF takenRoles = {} THEN "none"
                   ELSE Opposite(CHOOSE taken \in takenRoles : TRUE)
           Joined == [R EXCEPT !.clients = @ \cup {c},
                               !.slots = [o \in Role |-> IF o = role THEN c ELSE @[o]]]
           bare == [Expire(conn) EXCEPT ![c] = Client(e, r, role, R.generation, R.pending)]
<1> USE SignalConstants
<1>1. R \in RoomRecord /\ R.clients \subseteq ConnId /\ R.pending \in Seq(Payload) /\ R.generation \in Nat
  BY TargetType DEF RoomRecord
<1>2. role \in Role \cup {"none"} /\ c \in ConnId
  BY DEF JoinLegacy, Opposite, Role
<1>3. /\ conn' = [x \in ConnId |->
           IF x \in R.clients /\ conn[x].explicit
           THEN [bare[x] EXCEPT !.queue = Append(@, Ready(FALSE))]
           ELSE bare[x]]
      /\ Enter(e, c, r, Joined, bare)
  BY DEF JoinLegacy
<1>5. Joined \in RoomRecord
  <2>1. R.clients \cup {c} \in SUBSET ConnId
    BY <1>1, <1>2
  <2>2. R.slots \in [Role -> 0..MaxConns] /\ c \in 0..MaxConns
    BY <1>1, <1>2 DEF RoomRecord, ConnId
  <2>3. [o \in Role |-> IF o = role THEN c ELSE R.slots[o]] \in [Role -> 0..MaxConns]
    BY <2>2
  <2> DEFINE cs == R.clients \cup {c}
             sl == [o \in Role |-> IF o = role THEN c ELSE R.slots[o]]
  <2>4. Joined = [R EXCEPT !.clients = cs, !.slots = sl]
    BY <1>1 DEF RoomRecord
  <2>5. cs \in SUBSET ConnId /\ sl \in [Role -> 0..MaxConns] /\ R.tokens \in [Role -> BOOLEAN]
    BY <1>1, <2>1, <2>3 DEF RoomRecord
  <2> HIDE DEF cs, sl, Joined, R
  <2> QED
    BY <1>1, <2>4, <2>5, RoomUpdate
<1>6. r \in RoomId
  BY <1>3 DEF Enter
<1>8. bare \in [ConnId -> ConnRecord]
  BY <1>1, <1>2, <1>6, ClientType, ExpireType
<1>10. \A x \in ConnId : [bare[x] EXCEPT !.queue = Append(@, Ready(FALSE))] \in ConnRecord
  <2> SUFFICES ASSUME NEW x \in ConnId
               PROVE  [bare[x] EXCEPT !.queue = Append(@, Ready(FALSE))] \in ConnRecord
    OBVIOUS
  <2>1. bare[x] \in ConnRecord /\ bare[x].queue \in Seq(Payload)
    BY <1>8 DEF ConnRecord
  <2>2. Append(bare[x].queue, Ready(FALSE)) \in Seq(Payload)
    BY <2>1, ReadyType, AppendProperties
  <2> QED
    BY <2>1, <2>2, QueueUpdate
<1>11. conn' \in [ConnId -> ConnRecord]
  BY <1>3, <1>8, <1>10
<1>12. /\ lastConn' \in 0..MaxConns /\ room' \in [RoomId -> RoomRecord]
       /\ pair' \in [RoomId -> [Role -> SUBSET Endpoints]]
  BY <1>3, <1>5, <1>8, EnterType
<1>13. rooms' \in 0..MaxRooms /\ lastRoom' \in 0..MaxRooms /\ UNCHANGED <<now, known, evicted>>
  BY <1>6 DEF JoinLegacy, TypeOK, RoomId
<1> QED
  BY <1>11, <1>12, <1>13 DEF TypeOK

LEMMA NewGenerationType ==
    ASSUME NEW R \in RoomRecord PROVE NewGeneration(R) \in RoomRecord
<1>1. << >> \in Seq(Payload)
  BY EmptySeq
<1>2. [role \in Role |-> IF R.slots[role] \in R.clients THEN 0 ELSE R.slots[role]]
        \in [Role -> 0..MaxConns]
  BY SignalConstants DEF RoomRecord
<1>3. R.generation + 1 \in Nat
  BY DEF RoomRecord
<1>4. CASE R.needsNewGeneration
  BY <1>1, <1>2, <1>3, <1>4 DEF NewGeneration, RoomRecord
<1>5. CASE ~R.needsNewGeneration
  BY <1>5 DEF NewGeneration
<1> QED
  BY <1>4, <1>5

LEMMA RejoinType ==
    ASSUME TypeOK, NEW e \in Endpoints, Rejoin(e) PROVE TypeOK'
<1> DEFINE r == rooms
           role == RoleOf[e]
           R == NewGeneration(room[r])
           c == lastConn + 1
           kicked == IF room[r].needsNewGeneration THEN room[r].clients ELSE {}
           Joined == [R EXCEPT !.clients = @ \cup {c}, !.slots[role] = c]
           supported == Cardinality(Joined.clients) < 2 \/ R.reconnectEnabled
           bare == [conn EXCEPT ![c] = Client(e, r, role, R.generation, << >>)]
<1> USE SignalConstants
<1>1. r \in RoomId /\ room[r] \in RoomRecord /\ role \in Role /\ c \in ConnId
  BY DEF Rejoin, TypeOK, RoomId
<1>2. R \in RoomRecord /\ R.pending \in Seq(Payload) /\ R.generation \in Nat
  BY <1>1, NewGenerationType DEF RoomRecord
<1>3. Joined \in RoomRecord
  <2>1. R.clients \cup {c} \in SUBSET ConnId
    BY <1>1, <1>2 DEF RoomRecord
  <2>2. [R.slots EXCEPT ![role] = c] \in [Role -> 0..MaxConns]
    BY <1>1, <1>2 DEF RoomRecord, ConnId
  <2> DEFINE cs == R.clients \cup {c}
             sl == [R.slots EXCEPT ![role] = c]
  <2>3. Joined = [R EXCEPT !.clients = cs, !.slots = sl]
    BY <1>2 DEF RoomRecord
  <2>4. cs \in SUBSET ConnId /\ sl \in [Role -> 0..MaxConns] /\ R.tokens \in [Role -> BOOLEAN]
    BY <1>2, <2>1, <2>2 DEF RoomRecord
  <2> HIDE DEF cs, sl, Joined, R
  <2> QED
    BY <1>2, <2>3, <2>4, RoomUpdate
<1>4. \A q \in Seq(Payload) : Client(e, r, role, R.generation, q) \in ConnRecord
  BY <1>1, <1>2, ClientType
<1>5. <<Ready(supported)>> \o R.pending \in Seq(Payload)
  BY <1>2, GreetingType
<1>6. \A x \in ConnId : conn[x] \in ConnRecord /\ [conn[x] EXCEPT !.closed = TRUE] \in ConnRecord
  BY DEF TypeOK, ConnRecord
<1>7. conn' \in [ConnId -> ConnRecord]
  BY <1>4, <1>5, <1>6 DEF Rejoin
<1>8. bare \in [ConnId -> ConnRecord]
  BY <1>4, EmptySeq DEF TypeOK
<1>9. Enter(e, c, r, Joined, bare) /\ UNCHANGED <<now, rooms, lastRoom, known, evicted>>
  BY DEF Rejoin
<1>10. /\ lastConn' \in 0..MaxConns /\ room' \in [RoomId -> RoomRecord]
       /\ pair' \in [RoomId -> [Role -> SUBSET Endpoints]]
  BY <1>3, <1>8, <1>9, EnterType
<1> QED
  BY <1>7, <1>9, <1>10 DEF TypeOK

LEMMA ForwardType ==
    ASSUME TypeOK, NEW c \in ConnId, Forward(c) PROVE TypeOK'
<1> DEFINE r == conn[c].room
<1>0. r \in RoomId
  BY SignalConstants DEF Forward, TypeOK, ConnRecord, RoomId
<1>1. r \in RoomId /\ room[r] \in RoomRecord /\ room[r].pending \in Seq(Payload)
  BY <1>0 DEF TypeOK, RoomRecord
<1>2. Remember(room[r].pending, Signal(c)) \in Seq(Payload)
  BY <1>1, PayloadType, SignalConstants DEF Remember
<1>3. room' \in [RoomId -> RoomRecord]
  BY <1>1, <1>2 DEF Forward, TypeOK, RoomRecord
<1>4. \A x \in ConnId : [conn[x] EXCEPT !.queue = Offer(@, Signal(c))] \in ConnRecord
  <2> SUFFICES ASSUME NEW x \in ConnId
               PROVE  [conn[x] EXCEPT !.queue = Offer(@, Signal(c))] \in ConnRecord
    OBVIOUS
  <2>1. conn[x] \in ConnRecord /\ conn[x].queue \in Seq(Payload)
    BY DEF TypeOK, ConnRecord
  <2>2. Offer(conn[x].queue, Signal(c)) \in Seq(Payload)
    BY <2>1, OfferType, PayloadType
  <2> QED
    BY <2>1, <2>2 DEF ConnRecord
<1>5. conn' \in [ConnId -> ConnRecord]
  BY <1>4 DEF Forward, TypeOK
<1> QED
  BY <1>3, <1>5 DEF Forward, TypeOK

LEMMA DeliverType ==
    ASSUME TypeOK, NEW c \in ConnId, Deliver(c) PROVE TypeOK'
<1>1. conn[c] \in ConnRecord /\ conn[c].queue \in Seq(Payload) /\ conn[c].queue # << >>
  BY DEF Deliver, TypeOK, ConnRecord
<1>2. Tail(conn[c].queue) \in Seq(Payload)
  BY <1>1
<1>3. conn' \in [ConnId -> ConnRecord]
  BY <1>1, <1>2 DEF Deliver, TypeOK, ConnRecord
<1>4. known' \in [Endpoints -> 0..MaxRooms]
  BY <1>1 DEF Deliver, TypeOK, ConnRecord
<1> QED
  BY <1>3, <1>4 DEF Deliver, TypeOK

LEMMA LeaveType ==
    ASSUME TypeOK, NEW c \in ConnId, Leave(c) PROVE TypeOK'
<1> DEFINE r == conn[c].room
           held == {role \in Role : conn[c].role = role /\ room[r].slots[role] = c}
           Left == [room[r] EXCEPT !.clients = @ \ {c},
                       !.slots = [role \in Role |-> IF role \in held THEN 0 ELSE @[role]],
                       !.needsNewGeneration = @ \/ (held # {} /\ room[r].locked /\ conn[c].explicit)]
<1> USE SignalConstants
<1>1. r \in RoomId /\ room[r] \in RoomRecord
  BY DEF Leave, TypeOK, ConnRecord, RoomId
<1>2. [role \in Role |-> IF role \in held THEN 0 ELSE room[r].slots[role]] \in [Role -> 0..MaxConns]
  <2>1. room[r].slots \in [Role -> 0..MaxConns] /\ 0 \in 0..MaxConns
    BY <1>1 DEF RoomRecord
  <2> HIDE DEF held, r
  <2> QED
    BY <2>1
<1>3. Left \in RoomRecord
  BY <1>1, <1>2 DEF RoomRecord
<1>4. room' \in [RoomId -> RoomRecord]
  BY <1>1, <1>3 DEF Leave, TypeOK
<1>5. [conn[c] EXCEPT !.closed = TRUE, !.left = TRUE, !.queue = << >>] \in ConnRecord
  <2>1. << >> \in Seq(Payload)
    BY EmptySeq
  <2> QED
    BY <2>1 DEF TypeOK, ConnRecord
<1>6. conn' \in [ConnId -> ConnRecord]
  BY <1>5 DEF Leave, TypeOK
<1>7. evicted' \in BOOLEAN
  BY DEF Leave, TypeOK
<1>8. rooms' \in 0..MaxRooms
  BY DEF Leave, TypeOK
<1> QED
  BY <1>4, <1>6, <1>7, <1>8 DEF Leave, TypeOK

LEMMA TypeStep == TypeOK /\ [Next]_vars => TypeOK'
<1> SUFFICES ASSUME TypeOK, [Next]_vars PROVE TypeOK'
  OBVIOUS
<1>1. CASE Cleanup
  BY <1>1, ExpireType, SignalConstants DEF Cleanup, TypeOK
<1>2. ASSUME NEW e \in Endpoints, JoinRefusedFresh(e) PROVE TypeOK'
  BY <1>2, ExpireType, SignalConstants DEF JoinRefusedFresh, TypeOK
<1>3. CASE Tick
  BY <1>3 DEF Tick, TypeOK
<1>4. CASE UNCHANGED vars
  BY <1>4 DEF vars, TypeOK
<1> QED
  BY <1>1, <1>2, <1>3, <1>4, JoinExplicitType, JoinLegacyType, RejoinType, ForwardType,
     DeliverType, LeaveType
  DEF Next, Join

(***************************************************************************)
(* No send on a closed queue.                                               *)
(***************************************************************************)

\* What the proof needs of a step that lets client c into room r, whose other
\* clients are old, and expires a lapsed room.
JoinEffect(c, r, old) ==
    /\ c \in ConnId /\ r \in RoomId /\ c = lastConn + 1 /\ lastConn' = c
    /\ rooms' = r /\ lastRoom' = (IF Fresh THEN lastRoom + 1 ELSE lastRoom)
    /\ r = (IF Fresh THEN lastRoom + 1 ELSE rooms)
    /\ old = (IF Fresh THEN {} ELSE room[rooms].clients)
    /\ room'[r].clients = old \cup {c}
    /\ \A q \in RoomId \ {r} : room'[q].clients = room[q].clients
    /\ conn'[c].room = r /\ ~conn'[c].closed
    /\ \A x \in ConnId \ {c} : /\ conn'[x].room = conn[x].room
                               /\ conn'[x].closed = (conn[x].closed \/ x \in Lapsing)

LEMMA EnterClients ==
    ASSUME TypeOK, NEW e, NEW c, NEW r, NEW R \in RoomRecord, NEW conns, Enter(e, c, r, R, conns)
    PROVE  /\ room'[r].clients = R.clients /\ c \in ConnId /\ r \in RoomId
           /\ \A q \in RoomId \ {r} : room'[q] = room[q]
  BY DEF Enter, TypeOK, RoomRecord

\* expireRoomLocked closes the clients of a lapsed room and nothing else.
LEMMA ExpireClients ==
    ASSUME TypeOK, NEW x \in ConnId
    PROVE  /\ Expire(conn)[x].room = conn[x].room
           /\ Expire(conn)[x].closed = (conn[x].closed \/ x \in Lapsing)
<1>1. conn[x] \in ConnRecord
  BY DEF TypeOK
<1>2. CASE x \in Lapsing /\ ~conn[x].closed
  BY <1>1, <1>2 DEF Expire, ConnRecord
<1>3. CASE ~(x \in Lapsing /\ ~conn[x].closed)
  BY <1>1, <1>3 DEF Expire, ConnRecord
<1> QED
  BY <1>2, <1>3

LEMMA JoinExplicitEffect ==
    ASSUME TypeOK, NEW e \in Endpoints, JoinExplicit(e)
    PROVE  \E old : JoinEffect(lastConn + 1, TargetId, old)
<1> DEFINE r == TargetId
           R == Target
           c == lastConn + 1
           role == RoleOf[e]
           opposite == Opposite(role)
           bare == [Expire(conn) EXCEPT ![c] = Client(e, r, role, R.generation, << >>)]
           Joined(s) == [R EXCEPT !.clients = @ \cup {c}, !.tokens = [@ EXCEPT ![role] = TRUE],
                                  !.slots = Seat(@, role, c, s)]
           supported(s) == \/ Cardinality(Joined(s).clients) < 2
                           \/ TwoExplicitRoles(Joined(s).slots, bare)
<1> USE SignalConstants
<1>1. R \in RoomRecord /\ R.clients = (IF Fresh THEN {} ELSE room[rooms].clients)
  BY TargetType DEF Target, NewRoom
<1>2. PICK s \in R.clients \cup {0} :
        /\ conn' = [x \in ConnId |->
               IF x = c THEN Client(e, r, role, R.generation, <<Ready(supported(s))>> \o R.pending)
               ELSE IF x = s THEN [bare[x] EXCEPT !.role = opposite]
               ELSE bare[x]]
        /\ Enter(e, c, r, Joined(s), bare)
  BY DEF JoinExplicit
<1>3. c \in ConnId /\ r \in RoomId /\ lastConn' = c
  BY <1>2 DEF Enter
<1>4. room'[r].clients = R.clients \cup {c} /\ \A q \in RoomId \ {r} : room'[q] = room[q]
  <2>1. Joined(s).clients = R.clients \cup {c}
    BY <1>1 DEF RoomRecord
  <2>2. /\ room' = [room EXCEPT ![r] = [Joined(s) EXCEPT
               !.locked = @ \/ Cardinality(Joined(s).clients) = 2,
               !.reconnectEnabled = Joined(s).reconnectEnabled \/
                   (Cardinality(Joined(s).clients) = 2 /\ TwoExplicitRoles(Joined(s).slots, bare))]]
    BY <1>2 DEF Enter
  <2> QED
    BY <1>1, <1>3, <2>1, <2>2 DEF TypeOK, RoomRecord
<1>5. conn'[c].room = r /\ ~conn'[c].closed
  BY <1>2, <1>3 DEF Client
<1>6. ASSUME NEW x \in ConnId \ {c}
      PROVE  /\ conn'[x].room = conn[x].room
             /\ conn'[x].closed = (conn[x].closed \/ x \in Lapsing)
  <2>1. bare[x] = Expire(conn)[x] /\ bare[x] \in ConnRecord
    BY <1>3, ExpireType
  <2>2. conn'[x].room = bare[x].room /\ conn'[x].closed = bare[x].closed
    BY <1>2, <2>1 DEF ConnRecord
  <2> QED
    BY <2>1, <2>2, ExpireClients
<1>7. rooms' = r /\ lastRoom' = (IF Fresh THEN lastRoom + 1 ELSE lastRoom)
  BY DEF JoinExplicit, TargetId
<1> QED
  BY <1>1, <1>3, <1>4, <1>5, <1>6, <1>7 DEF JoinEffect, TargetId

LEMMA JoinLegacyEffect ==
    ASSUME TypeOK, NEW e \in Endpoints, JoinLegacy(e)
    PROVE  \E old : JoinEffect(lastConn + 1, TargetId, old)
<1> DEFINE r == TargetId
           R == Target
           c == lastConn + 1
           takenRoles == {conn[x].role : x \in R.clients} \ {"none"}
           role == IF takenRoles = {} THEN "none"
                   ELSE Opposite(CHOOSE taken \in takenRoles : TRUE)
           Joined == [R EXCEPT !.clients = @ \cup {c},
                               !.slots = [o \in Role |-> IF o = role THEN c ELSE @[o]]]
           bare == [Expire(conn) EXCEPT ![c] = Client(e, r, role, R.generation, R.pending)]
<1> USE SignalConstants
<1>1. R \in RoomRecord /\ R.clients = (IF Fresh THEN {} ELSE room[rooms].clients)
  BY TargetType DEF Target, NewRoom
<1>2. /\ conn' = [x \in ConnId |->
           IF x \in R.clients /\ conn[x].explicit
           THEN [bare[x] EXCEPT !.queue = Append(@, Ready(FALSE))]
           ELSE bare[x]]
      /\ Enter(e, c, r, Joined, bare)
  BY DEF JoinLegacy
<1>3. c \in ConnId /\ r \in RoomId /\ lastConn' = c
  BY <1>2 DEF Enter
<1>4. room'[r].clients = R.clients \cup {c} /\ \A q \in RoomId \ {r} : room'[q] = room[q]
  <2>1. Joined.clients = R.clients \cup {c}
    BY <1>1 DEF RoomRecord
  <2>2. /\ room' = [room EXCEPT ![r] = [Joined EXCEPT
               !.locked = @ \/ Cardinality(Joined.clients) = 2,
               !.reconnectEnabled = Joined.reconnectEnabled \/
                   (Cardinality(Joined.clients) = 2 /\ TwoExplicitRoles(Joined.slots, bare))]]
    BY <1>2 DEF Enter
  <2> QED
    BY <1>1, <1>3, <2>1, <2>2 DEF TypeOK, RoomRecord
<1>5. bare[c] = Client(e, r, role, R.generation, R.pending)
  BY <1>3, ExpireType
<1>6. conn'[c].room = r /\ ~conn'[c].closed
  BY <1>2, <1>3, <1>5 DEF Client
<1>7. ASSUME NEW x \in ConnId \ {c}
      PROVE  /\ conn'[x].room = conn[x].room
             /\ conn'[x].closed = (conn[x].closed \/ x \in Lapsing)
  <2>1. bare[x] = Expire(conn)[x] /\ bare[x] \in ConnRecord
    BY <1>3, ExpireType
  <2>2. conn'[x].room = bare[x].room /\ conn'[x].closed = bare[x].closed
    BY <1>2, <2>1 DEF ConnRecord
  <2> QED
    BY <2>1, <2>2, ExpireClients
<1>8. rooms' = r /\ lastRoom' = (IF Fresh THEN lastRoom + 1 ELSE lastRoom)
  BY DEF JoinLegacy, TargetId
<1> QED
  BY <1>1, <1>3, <1>4, <1>6, <1>7, <1>8 DEF JoinEffect, TargetId

LEMMA JoinPreserves ==
    ASSUME IInv, NEW c, NEW r, NEW old, JoinEffect(c, r, old)
    PROVE  MemberInv' /\ AllocInv' /\ OpenInv' /\ PeerInv'
<1> USE SignalConstants
<1>1. \A q \in RoomId : room[q].clients \subseteq ConnId /\ c \notin room[q].clients
  BY DEF IInv, TypeOK, RoomRecord, AllocInv, JoinEffect, ConnId
<1>2. \A q \in RoomId : \A x \in room[q].clients :
         /\ conn'[x].room = conn[x].room
         /\ conn'[x].closed = (conn[x].closed \/ x \in Lapsing)
  BY <1>1 DEF JoinEffect
<1>3. Lapsed => rooms \in RoomId /\ Lapsing = room[rooms].clients
  BY DEF Lapsing, Lapsed, IInv, TypeOK, RoomId
<1>4. ~Lapsed => Lapsing = {}
  BY DEF Lapsing
<1>5. Lapsed => Fresh
  BY DEF Fresh
<1>6. ~Fresh => rooms \in RoomId /\ rooms # 0 /\ Lapsing = {}
  BY <1>4 DEF Fresh, IInv, TypeOK, RoomId
<1>7. \A x \in old : x \in ConnId /\ conn'[x].room = r /\ ~conn'[x].closed
  BY <1>1, <1>2, <1>6 DEF JoinEffect, IInv, MemberInv, OpenInv
<1>8. MemberInv'
  BY <1>1, <1>2, <1>7 DEF IInv, MemberInv, JoinEffect
<1>9. AllocInv'
  <2>1. rooms' <= lastRoom' /\ lastRoom <= lastRoom' /\ r <= lastRoom'
    BY DEF IInv, TypeOK, AllocInv, JoinEffect, RoomId
  <2>2. ASSUME NEW q \in RoomId, NEW x \in room'[q].clients PROVE x <= lastConn'
    <3>1. CASE x = c
      BY <3>1 DEF JoinEffect, ConnId
    <3>2. CASE x # c
      <4>1. \E p \in RoomId : x \in room[p].clients
        BY <1>6, <2>2, <3>2 DEF JoinEffect
      <4>2. x \in ConnId /\ x <= lastConn
        BY <1>1, <4>1 DEF IInv, AllocInv
      <4> QED
        BY <4>2 DEF JoinEffect, IInv, TypeOK, ConnId
    <3> QED
      BY <3>1, <3>2
  <2>3. ASSUME NEW q \in RoomId, q > lastRoom' PROVE room'[q].clients = {}
    BY <2>1, <2>3 DEF IInv, TypeOK, AllocInv, JoinEffect, RoomId
  <2> QED
    BY <2>1, <2>2, <2>3 DEF AllocInv
<1>10. OpenInv'
  BY <1>7 DEF OpenInv, JoinEffect
<1>11. PeerInv'
  <2> SUFFICES ASSUME NEW q \in RoomId,
                      \E x \in room'[q].clients : ~conn'[x].closed
               PROVE  \A x \in room'[q].clients : ~conn'[x].closed
    BY DEF PeerInv
  <2>1. CASE q = r
    BY <1>7, <2>1 DEF JoinEffect
  <2>2. CASE q # r
    <3>1. room'[q].clients = room[q].clients
      BY <2>2 DEF JoinEffect
    <3>2. \A x \in room[q].clients : x \in Lapsing => Lapsing = room[q].clients
      BY <1>3, <1>4 DEF IInv, MemberInv
    <3> QED
      BY <1>2, <3>1, <3>2 DEF IInv, PeerInv
  <2> QED
    BY <2>1, <2>2
<1> QED
  BY <1>8, <1>9, <1>10, <1>11

\* Rejoin: into the registered room, which a new generation empties first.
LEMMA RejoinPreserves ==
    ASSUME IInv, NEW e \in Endpoints, Rejoin(e)
    PROVE  MemberInv' /\ AllocInv' /\ OpenInv' /\ PeerInv'
<1> DEFINE r == rooms
           role == RoleOf[e]
           R == NewGeneration(room[r])
           c == lastConn + 1
           kicked == IF room[r].needsNewGeneration THEN room[r].clients ELSE {}
           Joined == [R EXCEPT !.clients = @ \cup {c}, !.slots[role] = c]
           supported == Cardinality(Joined.clients) < 2 \/ R.reconnectEnabled
           bare == [conn EXCEPT ![c] = Client(e, r, role, R.generation, << >>)]
<1> USE SignalConstants
<1>1. r \in RoomId /\ room[r] \in RoomRecord /\ c \in ConnId /\ rooms # 0
  BY DEF Rejoin, IInv, TypeOK, RoomId
<1>2. R \in RoomRecord
  BY <1>1, NewGenerationType
<1>3. R.clients = room[r].clients \ kicked /\ Joined.clients = R.clients \cup {c}
  <2>1. R.clients = room[r].clients \ kicked
    BY <1>1 DEF NewGeneration, RoomRecord
  <2>2. Joined.clients = R.clients \cup {c}
    BY <1>2 DEF RoomRecord
  <2> QED
    BY <2>1, <2>2
<1>4. /\ conn' = [x \in ConnId |->
           IF x = c THEN Client(e, r, role, R.generation, <<Ready(supported)>> \o R.pending)
           ELSE IF x \in kicked THEN [conn[x] EXCEPT !.closed = TRUE]
           ELSE conn[x]]
      /\ Enter(e, c, r, Joined, bare)
      /\ UNCHANGED <<rooms, lastRoom>>
  BY DEF Rejoin
<1>5. /\ room'[r].clients = (room[r].clients \ kicked) \cup {c} /\ lastConn' = c
      /\ \A q \in RoomId \ {r} : room'[q] = room[q]
  <2>1. /\ room' = [room EXCEPT ![r] = [Joined EXCEPT
               !.locked = @ \/ Cardinality(Joined.clients) = 2,
               !.reconnectEnabled = Joined.reconnectEnabled \/
                   (Cardinality(Joined.clients) = 2 /\ TwoExplicitRoles(Joined.slots, bare))]]
        /\ lastConn' = c
    BY <1>4 DEF Enter
  <2> QED
    BY <1>1, <1>2, <1>3, <2>1 DEF IInv, TypeOK, RoomRecord
<1>6. conn'[c].room = r /\ ~conn'[c].closed
  BY <1>1, <1>4 DEF Client
<1>7. \A x \in ConnId \ {c} : /\ conn'[x].room = conn[x].room
                              /\ x \notin kicked => conn'[x].closed = conn[x].closed
  <2>1. \A x \in ConnId : conn[x] \in ConnRecord
    BY DEF IInv, TypeOK
  <2> QED
    BY <1>4, <2>1 DEF ConnRecord
<1>8. \A q \in RoomId : room[q].clients \subseteq ConnId /\ c \notin room[q].clients
  <2>1. \A q \in RoomId : room[q].clients \subseteq ConnId
    BY DEF IInv, TypeOK, RoomRecord
  <2>2. \A q \in RoomId : c \notin room[q].clients
    BY DEF IInv, TypeOK, AllocInv
  <2> QED
    BY <2>1, <2>2
<1>9. \A q \in RoomId \ {r} : \A x \in room[q].clients : x \notin kicked
  BY <1>1 DEF IInv, MemberInv
<1> HIDE DEF c, r, kicked, R, Joined, bare, supported
<1>10. MemberInv'
  BY <1>1, <1>5, <1>6, <1>7, <1>8 DEF IInv, MemberInv
<1>11. OpenInv'
  <2>1. rooms' = r /\ \A x \in room[r].clients : ~conn[x].closed
    BY <1>1, <1>4 DEF IInv, OpenInv, r
  <2> QED
    BY <1>1, <1>5, <1>6, <1>7, <1>8, <2>1 DEF OpenInv
<1>12. PeerInv'
  <2> SUFFICES ASSUME NEW q \in RoomId, NEW y \in room'[q].clients, ~conn'[y].closed
               PROVE  \A x \in room'[q].clients : ~conn'[x].closed
    BY DEF PeerInv
  <2>1. CASE q = r
    BY <1>1, <1>4, <1>11, <2>1 DEF OpenInv, r
  <2>2. CASE q # r
    BY <1>5, <1>7, <1>8, <1>9, <2>2 DEF IInv, PeerInv
  <2> QED
    BY <2>1, <2>2
<1>13. AllocInv'
  <2>1. rooms' <= lastRoom' /\ r <= lastRoom' /\ lastRoom' = lastRoom /\ lastConn' = lastConn + 1
    BY <1>1, <1>4, <1>5 DEF IInv, AllocInv, r, c
  <2>2. ASSUME NEW q \in RoomId, NEW x \in room'[q].clients PROVE x <= lastConn'
    <3>1. CASE x = c
      BY <1>1, <1>5, <3>1 DEF ConnId
    <3>2. CASE x # c
      BY <1>1, <1>5, <1>8, <2>1, <2>2, <3>2 DEF IInv, TypeOK, AllocInv, ConnId
    <3> QED
      BY <3>1, <3>2
  <2>3. ASSUME NEW q \in RoomId, q > lastRoom' PROVE room'[q].clients = {}
    BY <1>1, <1>5, <2>1, <2>3 DEF IInv, TypeOK, AllocInv, RoomId
  <2> QED
    BY <2>1, <2>2, <2>3 DEF AllocInv
<1> QED
  BY <1>10, <1>11, <1>12, <1>13

\* leave removes the client from the one room that lists it.
LEMMA LeavePreserves ==
    ASSUME IInv, NEW c \in ConnId, Leave(c)
    PROVE  MemberInv' /\ AllocInv' /\ OpenInv' /\ PeerInv'
<1> DEFINE r == conn[c].room
<1> USE SignalConstants
<1>1. r \in RoomId /\ room[r] \in RoomRecord
  BY DEF Leave, IInv, TypeOK, ConnRecord, RoomId
<1>2. /\ room'[r].clients = room[r].clients \ {c}
      /\ \A q \in RoomId \ {r} : room'[q] = room[q]
      /\ rooms' \in {0, rooms} /\ lastRoom' = lastRoom /\ lastConn' = lastConn
  BY <1>1 DEF Leave, IInv, TypeOK, RoomRecord
<1>3. \A x \in ConnId : conn'[x].room = conn[x].room /\ (x # c => conn'[x] = conn[x])
  BY DEF Leave, IInv, TypeOK, ConnRecord
<1>4. \A q \in RoomId : /\ room'[q].clients \subseteq room[q].clients \ {c}
                        /\ room[q].clients \subseteq ConnId
  <2>1. \A q \in RoomId : room[q].clients \subseteq ConnId
    BY DEF IInv, TypeOK, RoomRecord
  <2>2. \A q \in RoomId \ {r} : c \notin room[q].clients
    BY DEF IInv, MemberInv
  <2> HIDE DEF r
  <2> QED
    BY <1>1, <1>2, <2>1, <2>2
<1> HIDE DEF r
<1>5. MemberInv'
  BY <1>3, <1>4 DEF IInv, MemberInv
<1>6. AllocInv'
  BY <1>2, <1>4 DEF IInv, TypeOK, AllocInv
<1>7. OpenInv'
  <2>1. rooms # 0 => rooms \in RoomId
    BY DEF IInv, TypeOK, RoomId
  <2> QED
    BY <1>2, <1>3, <1>4, <2>1 DEF IInv, OpenInv
<1>8. PeerInv'
  BY <1>3, <1>4 DEF IInv, PeerInv
<1> QED
  BY <1>5, <1>6, <1>7, <1>8

\* Expiry without a join.
LEMMA ExpirePreserves ==
    ASSUME IInv, rooms' = 0, conn' = Expire(conn), UNCHANGED <<room, lastRoom, lastConn>>
    PROVE  MemberInv' /\ AllocInv' /\ OpenInv' /\ PeerInv'
<1> USE SignalConstants
<1>1. \A q \in RoomId : room[q].clients \subseteq ConnId
  BY DEF IInv, TypeOK, RoomRecord
<1>2. \A x \in ConnId : /\ conn'[x].room = conn[x].room
                        /\ conn'[x].closed = (conn[x].closed \/ x \in Lapsing)
  BY ExpireClients DEF IInv
<1>3. \A q \in RoomId : \A x \in room[q].clients : x \in Lapsing => Lapsing = room[q].clients
  <2>1. Lapsing = {} \/ (rooms \in RoomId /\ Lapsing = room[rooms].clients)
    BY DEF Lapsing, Lapsed, IInv, TypeOK, RoomId
  <2> QED
    BY <2>1 DEF IInv, MemberInv
<1>4. MemberInv' /\ OpenInv'
  BY <1>1, <1>2 DEF IInv, MemberInv, OpenInv
<1>5. AllocInv'
  BY DEF IInv, AllocInv, TypeOK
<1>6. PeerInv'
  BY <1>1, <1>2, <1>3 DEF IInv, PeerInv
<1> QED
  BY <1>4, <1>5, <1>6

\* Steps that leave membership and closed flags alone.
LEMMA QuietPreserves ==
    ASSUME IInv, UNCHANGED <<rooms, lastRoom, lastConn>>,
           \A q \in RoomId : room'[q].clients = room[q].clients,
           \A x \in ConnId : conn'[x].room = conn[x].room /\ conn'[x].closed = conn[x].closed
    PROVE  MemberInv' /\ AllocInv' /\ OpenInv' /\ PeerInv'
<1>1. \A q \in RoomId : room[q].clients \subseteq ConnId
  BY DEF IInv, TypeOK, RoomRecord
<1>2. rooms # 0 => rooms \in RoomId
  BY SignalConstants DEF IInv, TypeOK, RoomId
<1> QED
  BY <1>1, <1>2 DEF IInv, MemberInv, AllocInv, OpenInv, PeerInv

LEMMA InvStep == IInv /\ [Next]_vars => IInv'
<1> SUFFICES ASSUME IInv, [Next]_vars PROVE MemberInv' /\ AllocInv' /\ OpenInv' /\ PeerInv'
  BY TypeStep DEF IInv
<1>1. ASSUME NEW e \in Endpoints, JoinExplicit(e) PROVE MemberInv' /\ AllocInv' /\ OpenInv' /\ PeerInv'
  BY <1>1, JoinExplicitEffect, JoinPreserves DEF IInv
<1>2. ASSUME NEW e \in Endpoints, JoinLegacy(e) PROVE MemberInv' /\ AllocInv' /\ OpenInv' /\ PeerInv'
  BY <1>2, JoinLegacyEffect, JoinPreserves DEF IInv
<1>3. ASSUME NEW e \in Endpoints, JoinRefusedFresh(e)
      PROVE  MemberInv' /\ AllocInv' /\ OpenInv' /\ PeerInv'
  BY <1>3, ExpirePreserves DEF JoinRefusedFresh
<1>4. CASE Cleanup
  BY <1>4, ExpirePreserves DEF Cleanup
<1>5. ASSUME NEW c \in ConnId, Forward(c) PROVE MemberInv' /\ AllocInv' /\ OpenInv' /\ PeerInv'
  <2>1. \A q \in RoomId : room[q] \in RoomRecord
    BY DEF IInv, TypeOK
  <2>2. \A x \in ConnId : conn[x] \in ConnRecord
    BY DEF IInv, TypeOK
  <2>3. \A q \in RoomId : room'[q].clients = room[q].clients
    BY <1>5, <2>1 DEF Forward, RoomRecord, IInv, TypeOK
  <2>4. \A x \in ConnId : conn'[x].room = conn[x].room /\ conn'[x].closed = conn[x].closed
    BY <1>5, <2>2 DEF Forward, ConnRecord
  <2> QED
    BY <1>5, <2>3, <2>4, QuietPreserves DEF Forward
<1>6. ASSUME NEW c \in ConnId, Deliver(c) PROVE MemberInv' /\ AllocInv' /\ OpenInv' /\ PeerInv'
  <2>1. \A x \in ConnId : conn'[x].room = conn[x].room /\ conn'[x].closed = conn[x].closed
    BY <1>6 DEF Deliver, ConnRecord, IInv, TypeOK
  <2> QED
    BY <1>6, <2>1, QuietPreserves DEF Deliver
<1>7. CASE Tick
  BY <1>7, QuietPreserves DEF Tick
<1>8. CASE UNCHANGED vars
  BY <1>8, QuietPreserves DEF vars
<1> QED
  BY <1>1, <1>2, <1>3, <1>4, <1>5, <1>6, <1>7, <1>8, RejoinPreserves, LeavePreserves
  DEF Next, Join

LEMMA InitInv == Init => IInv
<1> SUFFICES ASSUME Init PROVE MemberInv /\ AllocInv /\ OpenInv /\ PeerInv
  BY InitType DEF IInv
<1>1. \A r \in RoomId : room[r].clients = {}
  BY DEF Init, NewRoom
<1> QED
  BY <1>1 DEF Init, MemberInv, AllocInv, OpenInv, PeerInv

\* Every variable of the signaling service keeps its type (room, client).
THEOREM SignalTypeCorrect == Spec => []TypeOK
<1>1. Spec => []IInv
  BY InitInv, InvStep, PTL DEF Spec
<1> QED
  BY <1>1, PTL DEF IInv

\* forward, the joins and the expiry never send on a closed queue: an open
\* client has open peers only, and the registered room open clients only.
THEOREM SignalSendsCorrect == Spec => []NoSendOnClosedQueue
<1>1. Spec => []IInv
  BY InitInv, InvStep, PTL DEF Spec
<1>2. IInv => NoSendOnClosedQueue
  BY SignalConstants DEF IInv, OpenInv, PeerInv, NoSendOnClosedQueue, RoomId
<1> QED
  BY <1>1, <1>2, PTL

(***************************************************************************)
(* Who meets whom.  None of these properties is inductive.  Whether a       *)
(* replayed signal can reach its own role depends on which roles may still  *)
(* be taken, that on who got a token, and that on what an unlocked room can *)
(* hold; the invariant PInv states each of these for every room and every   *)
(* client that ever joined, and IInv above supplies membership and          *)
(* allocation.                                                              *)
(***************************************************************************)

(***************************************************************************)
(* The roles, generations and backlogs of the rooms.                        *)
(***************************************************************************)

\* Who sent the signals of a queue or a backlog.
Senders(q) == {q[i].from : i \in {j \in 1..Len(q) : q[j].type = "signal"}}

\* Clients that are not allocated are blank, the others joined an allocated
\* room; rooms that are not allocated have no pair.
BlankInv ==
    /\ \A c \in ConnId : IF c > lastConn THEN conn[c].room = 0 /\ conn[c].queue = << >>
                         ELSE conn[c].room \in 1..lastRoom
    /\ \A r \in RoomId : r > lastRoom => ~room[r].reconnectEnabled

\* The clients of a room are of its generation, and those with a role and the
\* holders of the room's slots are the same.
SeatInv ==
    \A r \in RoomId :
        /\ \A x \in room[r].clients :
              /\ conn[x].generation = room[r].generation
              /\ conn[x].role \in Role => room[r].slots[conn[x].role] = x
        /\ \A role \in Role : room[r].slots[role] # 0 =>
              /\ room[r].slots[role] \in room[r].clients
              /\ conn[room[r].slots[role]].role = role
        /\ room[r].reconnectEnabled \/ room[r].needsNewGeneration => room[r].locked

\* A registered room that is not locked has had one client, which is still in
\* it and has been sent nothing but its ready message.
SoloInv ==
    rooms # 0 /\ ~room[rooms].locked =>
        /\ \E x \in ConnId : room[rooms].clients = {x} /\ Len(conn[x].queue) <= 1
        /\ \A c \in ConnId : conn[c].room = rooms => c \in room[rooms].clients
        /\ Senders(room[rooms].pending) \subseteq room[rooms].clients

\* A role for which the registered room gave a token out is held by a client
\* that asked for it, or a new generation is due, or both roles are the pair's.
TokenInv ==
    rooms # 0 =>
        /\ \A role \in Role : room[rooms].tokens[role] =>
              IF room[rooms].slots[role] # 0 THEN conn[room[rooms].slots[role]].explicit
              ELSE room[rooms].needsNewGeneration \/ room[rooms].reconnectEnabled
        /\ ~room[rooms].reconnectEnabled => \E role \in Role : ~room[rooms].tokens[role]

\* A client that asked for a role has it.
AskedInv ==
    \A c \in ConnId : conn[c].explicit =>
        conn[c].role \in Role /\ conn[c].role = RoleOf[conn[c].endpoint]

\* Everyone who was ever in a room with a pair is of the pair, and a reconnect
\* token is known only to an endpoint that was in its room.
PairInv ==
    /\ \A c \in ConnId : conn[c].room # 0 /\ room[conn[c].room].reconnectEnabled =>
          /\ conn[c].role \in Role /\ conn[c].role = RoleOf[conn[c].endpoint]
          /\ conn[c].endpoint \in pair[conn[c].room][conn[c].role]
    /\ \A e \in Endpoints : known[e] # 0 =>
          \E c \in ConnId : conn[c].room = known[e] /\ conn[c].endpoint = e

\* The backlog of the registered room is short, of its generation, and holds
\* nothing of a role that could be taken again.
BacklogInv ==
    rooms # 0 =>
        /\ Len(room[rooms].pending) <= MaxPending
        /\ \A f \in Senders(room[rooms].pending) :
              /\ f \in ConnId /\ conn[f].room = rooms
              /\ conn[f].generation = room[rooms].generation
              /\ \A role \in Role :
                    room[rooms].tokens[role] /\ room[rooms].slots[role] = 0
                    /\ ~room[rooms].needsNewGeneration => conn[f].role # role

\* What a queue holds comes from the other side, of the same generation.
QueueInv ==
    \A c \in ConnId : \A f \in Senders(conn[c].queue) :
        /\ f \in ConnId /\ f # c /\ conn[f].room = conn[c].room
        /\ conn[f].generation = conn[c].generation
        /\ conn[f].role = conn[c].role => conn[c].role = "none"

PInv ==
    /\ BlankInv /\ SeatInv /\ SoloInv /\ TokenInv /\ PairInv /\ BacklogInv /\ QueueInv
    /\ OpenClientIsRegistered /\ AskedInv

(***************************************************************************)
(* Queues and types.                                                        *)
(***************************************************************************)

LEMMA SendersOf ==
    /\ Senders(<< >>) = {}
    /\ \A q \in Seq(Payload), p \in Payload :
          /\ Senders(Append(q, p)) \subseteq
                 Senders(q) \cup (IF p.type = "signal" THEN {p.from} ELSE {})
          /\ Senders(Offer(q, p)) \subseteq
                 Senders(q) \cup (IF p.type = "signal" THEN {p.from} ELSE {})
    /\ \A q \in Seq(Payload) : q # << >> => /\ Senders(Tail(q)) \subseteq Senders(q)
                                            /\ Len(Tail(q)) = Len(q) - 1
    /\ \A q \in Seq(Payload) : \A b : Senders(<<Ready(b)>> \o q) \subseteq Senders(q)
<1>1. Senders(<< >>) = {}
  BY DEF Senders
<1>2. ASSUME NEW q \in Seq(Payload), NEW p \in Payload
      PROVE  Senders(Append(q, p)) \subseteq
                 Senders(q) \cup (IF p.type = "signal" THEN {p.from} ELSE {})
  <2> SUFFICES ASSUME NEW i \in 1..Len(Append(q, p)), Append(q, p)[i].type = "signal"
               PROVE  Append(q, p)[i].from \in
                          Senders(q) \cup (IF p.type = "signal" THEN {p.from} ELSE {})
    BY DEF Senders
  <2>1. CASE i = Len(q) + 1
    <3>1. Append(q, p)[i] = p
      BY <2>1
    <3> QED BY <3>1
  <2>2. CASE i # Len(q) + 1
    <3>1. i \in 1..Len(q) /\ Append(q, p)[i] = q[i]
      BY <2>2
    <3> QED BY <3>1 DEF Senders
  <2> QED BY <2>1, <2>2
<1>3. ASSUME NEW q \in Seq(Payload), NEW p \in Payload
      PROVE  Senders(Offer(q, p)) \subseteq
                 Senders(q) \cup (IF p.type = "signal" THEN {p.from} ELSE {})
  BY <1>2 DEF Offer
<1>4. ASSUME NEW q \in Seq(Payload), q # << >>
      PROVE  Senders(Tail(q)) \subseteq Senders(q) /\ Len(Tail(q)) = Len(q) - 1
  <2>1. Len(Tail(q)) = Len(q) - 1 /\ Len(q) \in Nat
        /\ \A i \in 1..Len(Tail(q)) : i + 1 \in 1..Len(q) /\ Tail(q)[i] = q[i + 1]
    BY <1>4
  <2>2. ASSUME NEW i \in 1..Len(Tail(q)), Tail(q)[i].type = "signal"
        PROVE  Tail(q)[i].from \in Senders(q)
    BY <2>1, <2>2 DEF Senders
  <2> QED BY <2>1, <2>2 DEF Senders
<1>5. ASSUME NEW q \in Seq(Payload), NEW b
      PROVE  Senders(<<Ready(b)>> \o q) \subseteq Senders(q)
  <2> DEFINE g == <<Ready(b)>> \o q
  <2>1. /\ Len(g) = Len(q) + 1 /\ Len(q) \in Nat /\ g[1] = Ready(b)
        /\ \A i \in 1..Len(g) : i # 1 => i - 1 \in 1..Len(q) /\ g[i] = q[i - 1]
    <3>1. <<Ready(b)>> \in Seq(Payload) /\ Len(<<Ready(b)>>) = 1 /\ <<Ready(b)>>[1] = Ready(b)
      BY ReadyType
    <3> QED BY <3>1, ConcatProperties
  <2>2. Ready(b).type # "signal"
    BY DEF Ready
  <2> HIDE DEF g
  <2>3. ASSUME NEW i \in 1..Len(g), g[i].type = "signal"
        PROVE  g[i].from \in Senders(q)
    <3>1. i # 1
      BY <2>1, <2>2, <2>3
    <3> QED BY <3>1, <2>1, <2>3 DEF Senders
  <2> QED BY <2>3 DEF Senders, g
<1> QED BY <1>1, <1>2, <1>3, <1>4, <1>5

\* What is sent besides signals carries none.
LEMMA NoSignal ==
    /\ RoomExpired \in Payload /\ RoomExpired.type # "signal"
    /\ \A b : Ready(b) \in Payload /\ Ready(b).type # "signal"
    /\ \A c \in ConnId : Signal(c) \in Payload /\ Signal(c).type = "signal" /\ Signal(c).from = c
<1>1. RoomExpired.type # "signal" /\ (\A b : Ready(b).type # "signal")
      /\ \A c \in ConnId : Signal(c).type = "signal" /\ Signal(c).from = c
  BY DEF RoomExpired, Ready, Signal
<1> QED BY <1>1, PayloadType, ReadyType

LEMMA PairTypes ==
    ASSUME TypeOK
    PROVE  /\ \A x \in ConnId : /\ conn[x] \in ConnRecord /\ conn[x].queue \in Seq(Payload)
                                /\ conn[x].role \in Role \cup {"none"}
                                /\ conn[x].endpoint \in Endpoints
                                /\ conn[x].room = 0 \/ conn[x].room \in RoomId
           /\ \A r \in RoomId : /\ room[r] \in RoomRecord /\ room[r].pending \in Seq(Payload)
                                /\ room[r].clients \subseteq ConnId
                                /\ \A role \in Role : room[r].slots[role] = 0
                                                      \/ room[r].slots[role] \in ConnId
           /\ rooms = 0 \/ rooms \in RoomId
           /\ lastConn \in Nat /\ lastRoom \in Nat
           /\ 0 \notin ConnId /\ 0 \notin RoomId /\ ConnId \subseteq Nat /\ RoomId \subseteq Nat
           /\ Role = {"sender", "receiver"} /\ "none" \notin Role
<1> USE SignalConstants
<1>1. \A n \in 0..MaxConns : n = 0 \/ n \in ConnId
  BY DEF ConnId
<1>2. \A n \in 0..MaxRooms : n = 0 \/ n \in RoomId
  BY DEF RoomId
<1>3. \A x \in ConnId : conn[x] \in ConnRecord
  BY DEF TypeOK
<1>4. \A x \in ConnId : /\ conn[x].queue \in Seq(Payload) /\ conn[x].room \in 0..MaxRooms
                        /\ conn[x].role \in Role \cup {"none"} /\ conn[x].endpoint \in Endpoints
  BY <1>3 DEF ConnRecord
<1>5. \A r \in RoomId : room[r] \in RoomRecord
  BY DEF TypeOK
<1>6. \A r \in RoomId : /\ room[r].pending \in Seq(Payload) /\ room[r].clients \subseteq ConnId
                        /\ \A role \in Role : room[r].slots[role] \in 0..MaxConns
  BY <1>5 DEF RoomRecord
<1>7. /\ rooms \in 0..MaxRooms /\ lastConn \in Nat /\ lastRoom \in Nat
      /\ 0 \notin ConnId /\ 0 \notin RoomId /\ ConnId \subseteq Nat /\ RoomId \subseteq Nat
  BY DEF TypeOK, ConnId, RoomId
<1>8. Role = {"sender", "receiver"} /\ "none" \notin Role
  BY DEF Role
<1> QED BY <1>1, <1>2, <1>3, <1>4, <1>5, <1>6, <1>7, <1>8

LEMMA InitPair == Init => PInv
<1> SUFFICES ASSUME Init PROVE PInv
  OBVIOUS
<1>1. TypeOK
  BY InitType
<1>2. \A c \in ConnId : conn[c].room = 0 /\ conn[c].queue = << >>
  BY DEF Init, NoConn
<1>3. \A r \in RoomId : /\ room[r].clients = {} /\ ~room[r].reconnectEnabled
                        /\ ~room[r].needsNewGeneration
                        /\ \A role \in Role : room[r].slots[role] = 0
  BY DEF Init, NewRoom
<1>4. rooms = 0 /\ lastConn = 0 /\ \A e \in Endpoints : known[e] = 0
  BY DEF Init
<1>5. BlankInv /\ SeatInv
  BY <1>1, <1>2, <1>3, <1>4 DEF BlankInv, SeatInv, ConnId
<1>6. SoloInv /\ TokenInv /\ BacklogInv /\ OpenClientIsRegistered
  BY <1>4 DEF SoloInv, TokenInv, BacklogInv, OpenClientIsRegistered
<1>7. PairInv /\ QueueInv
  BY <1>2, <1>4, SendersOf DEF PairInv, QueueInv
<1>8. AskedInv
  BY DEF Init, NoConn, AskedInv
<1> QED BY <1>5, <1>6, <1>7, <1>8 DEF PInv

(***************************************************************************)
(* Steps that leave the seats alone.                                        *)
(***************************************************************************)

\* What a step keeps of every client.
Stays(x) ==
    /\ conn'[x].room = conn[x].room /\ conn'[x].role = conn[x].role
    /\ conn'[x].generation = conn[x].generation /\ conn'[x].endpoint = conn[x].endpoint
    /\ conn'[x].explicit = conn[x].explicit

\* Expiry without a join: the room is out of the registry.
LEMMA ExpirePair ==
    ASSUME IInv, PInv, Lapsed, rooms' = 0, conn' = Expire(conn),
           UNCHANGED <<room, lastRoom, lastConn, known, pair, evicted>>
    PROVE  PInv'
<1>0. /\ TypeOK /\ BlankInv /\ SeatInv /\ PairInv /\ QueueInv /\ OpenClientIsRegistered /\ MemberInv
      /\ AskedInv
  BY DEF IInv, PInv
<1>1. ASSUME NEW x \in ConnId
      PROVE  /\ Stays(x) /\ conn'[x].closed = (conn[x].closed \/ x \in Lapsing)
             /\ Senders(conn'[x].queue) \subseteq Senders(conn[x].queue)
             /\ conn[x].queue = << >> => conn'[x].queue = << >> \/ x \in Lapsing
  <2>1. conn[x] \in ConnRecord /\ conn[x].queue \in Seq(Payload)
    BY <1>0, PairTypes
  <2>2. CASE x \in Lapsing /\ ~conn[x].closed
    <3>1. conn'[x] = [conn[x] EXCEPT !.closed = TRUE, !.queue = Offer(conn[x].queue, RoomExpired)]
      BY <2>2 DEF Expire
    <3>2. conn'[x].queue = Offer(conn[x].queue, RoomExpired) /\ Stays(x) /\ conn'[x].closed = TRUE
      BY <3>1, <2>1 DEF ConnRecord, Stays
    <3>3. Senders(conn'[x].queue) \subseteq Senders(conn[x].queue)
      BY <3>2, <2>1, SendersOf, NoSignal
    <3> QED BY <3>2, <3>3, <2>2
  <2>3. CASE ~(x \in Lapsing /\ ~conn[x].closed)
    <3>1. conn'[x] = conn[x]
      BY <2>3 DEF Expire
    <3> QED BY <3>1, <2>1, <2>3 DEF Stays, ConnRecord
  <2> QED BY <2>2, <2>3
<1>2. \A r \in RoomId : room'[r] = room[r]
  OBVIOUS
<1>3. Lapsing = {} \/ (rooms \in RoomId /\ Lapsing = room[rooms].clients)
  BY <1>0, PairTypes DEF Lapsing, Lapsed
<1>4. BlankInv'
  <2>1. \A x \in ConnId : x > lastConn => x \notin Lapsing
    BY <1>0, <1>3, PairTypes DEF IInv, AllocInv
  <2> QED BY <2>1, <1>0, <1>1 DEF BlankInv, Stays
<1>5. SeatInv'
  BY <1>0, <1>1, PairTypes DEF SeatInv, Stays
<1>6. SoloInv' /\ TokenInv' /\ BacklogInv'
  BY DEF SoloInv, TokenInv, BacklogInv
<1>7. PairInv'
  BY <1>0, <1>1 DEF PairInv, Stays
<1>8. QueueInv'
  BY <1>0, <1>1 DEF QueueInv, Stays
<1>9. OpenClientIsRegistered'
  <2> SUFFICES ASSUME NEW c \in 1..lastConn, ~conn'[c].closed, ~evicted
               PROVE  FALSE
    BY DEF OpenClientIsRegistered
  <2>1. c \in ConnId
    BY <1>0, SignalConstants DEF TypeOK, ConnId
  <2>2. c \notin Lapsing /\ ~conn[c].closed
    BY <2>1, <1>1
  <2>3. c \in room[rooms].clients /\ Lapsing = room[rooms].clients
    BY <2>2, <1>0 DEF OpenClientIsRegistered, Lapsing
  <2> QED BY <2>2, <2>3
<1>10. AskedInv'
  BY <1>0, <1>1 DEF AskedInv, Stays
<1> QED BY <1>4, <1>5, <1>6, <1>7, <1>8, <1>9, <1>10 DEF PInv

\* The clock moves.
LEMMA TickPair ==
    ASSUME PInv, UNCHANGED <<rooms, room, lastRoom, conn, lastConn, known, pair, evicted>>
    PROVE  PInv'
BY DEF PInv, BlankInv, SeatInv, SoloInv, TokenInv, PairInv, BacklogInv, QueueInv,
       OpenClientIsRegistered, AskedInv

\* writeLoop takes one payload.
LEMMA DeliverPair ==
    ASSUME IInv, PInv, NEW c \in ConnId, Deliver(c)
    PROVE  PInv'
<1>0. /\ TypeOK /\ BlankInv /\ SeatInv /\ SoloInv /\ TokenInv /\ PairInv /\ BacklogInv /\ QueueInv
      /\ OpenClientIsRegistered /\ AskedInv
  BY DEF IInv, PInv
<1>1. /\ conn[c].queue # << >> /\ conn[c] \in ConnRecord /\ conn[c].queue \in Seq(Payload)
      /\ conn[c].endpoint \in Endpoints
      /\ conn' = [conn EXCEPT ![c] = [conn[c] EXCEPT !.queue = Tail(conn[c].queue)]]
      /\ UNCHANGED <<rooms, room, lastRoom, lastConn, pair, evicted>>
  BY <1>0, PairTypes DEF Deliver, TypeOK
<1>2. ASSUME NEW x \in ConnId
      PROVE  /\ Stays(x) /\ conn'[x].closed = conn[x].closed
             /\ Senders(conn'[x].queue) \subseteq Senders(conn[x].queue)
             /\ conn[x].queue = << >> => conn'[x].queue = << >>
             /\ Len(conn[x].queue) <= 1 => Len(conn'[x].queue) <= 1
  <2>1. CASE x = c
    <3>1. conn'[x] = [conn[c] EXCEPT !.queue = Tail(conn[c].queue)]
      BY <2>1, <1>0, <1>1 DEF TypeOK
    <3>2. conn'[x].queue = Tail(conn[x].queue) /\ Stays(x) /\ conn'[x].closed = conn[x].closed
      BY <2>1, <3>1, <1>1 DEF ConnRecord, Stays
    <3>3. Len(Tail(conn[x].queue)) = Len(conn[x].queue) - 1 /\ Len(conn[x].queue) \in Nat
      BY <2>1, <1>1
    <3> QED BY <2>1, <3>2, <3>3, <1>1, SendersOf
  <2>2. CASE x # c
    BY <2>2, <1>0, <1>1 DEF TypeOK, Stays
  <2> QED BY <2>1, <2>2
<1>3. BlankInv' /\ SeatInv'
  <2>1. BlankInv'
    BY <1>0, <1>1, <1>2 DEF BlankInv, Stays
  <2>2. SeatInv'
    BY <1>0, <1>1, <1>2, PairTypes DEF SeatInv, Stays
  <2> QED BY <2>1, <2>2
<1>4. SoloInv'
  BY <1>0, <1>1, <1>2 DEF SoloInv, Stays
<1>5. TokenInv'
  BY <1>0, <1>1, <1>2, PairTypes DEF TokenInv, Stays
<1>6. PairInv'
  <2>1. \A x \in ConnId : conn'[x].room # 0 /\ room'[conn'[x].room].reconnectEnabled =>
          /\ conn'[x].role \in Role /\ conn'[x].role = RoleOf[conn'[x].endpoint]
          /\ conn'[x].endpoint \in pair'[conn'[x].room][conn'[x].role]
    BY <1>0, <1>1, <1>2 DEF PairInv, Stays
  <2>2. ASSUME NEW e \in Endpoints, known'[e] # 0
        PROVE  \E x \in ConnId : conn'[x].room = known'[e] /\ conn'[x].endpoint = e
    <3>1. CASE known'[e] = known[e]
      BY <2>2, <3>1, <1>0, <1>2 DEF PairInv, Stays
    <3>2. CASE known'[e] # known[e]
      <4>1. known'[e] = conn[c].room /\ e = conn[c].endpoint
        BY <3>2, <1>0, <1>1 DEF Deliver, TypeOK
      <4> QED BY <4>1, <1>2 DEF Stays
    <3> QED BY <3>1, <3>2
  <2> QED BY <2>1, <2>2 DEF PairInv
<1>7. BacklogInv'
  BY <1>0, <1>1, <1>2 DEF BacklogInv, Stays
<1>8. QueueInv'
  BY <1>0, <1>2 DEF QueueInv, Stays
<1>9. OpenClientIsRegistered'
  <2>1. \A x \in 1..lastConn : x \in ConnId
    BY <1>0, SignalConstants DEF TypeOK, ConnId
  <2> QED BY <2>1, <1>0, <1>1, <1>2 DEF OpenClientIsRegistered, Stays
<1>10. AskedInv'
  BY <1>0, <1>2 DEF AskedInv, Stays
<1> QED BY <1>3, <1>4, <1>5, <1>6, <1>7, <1>8, <1>9, <1>10 DEF PInv

\* The backlog never grows over its limit.
LEMMA RememberFacts ==
    ASSUME NEW q \in Seq(Payload), NEW p \in Payload
    PROVE  /\ Len(q) <= MaxPending => Len(Remember(q, p)) <= MaxPending
           /\ Senders(Remember(q, p)) \subseteq
                  Senders(q) \cup (IF p.type = "signal" THEN {p.from} ELSE {})
<1>0. MaxPending \in Nat \ {0} /\ Len(q) \in Nat
  BY SignalConstants
<1>1. CASE Len(q) >= MaxPending
  <2>1. q # << >> /\ Tail(q) \in Seq(Payload) /\ Len(Tail(q)) = Len(q) - 1
    BY <1>0, <1>1
  <2>2. Remember(q, p) = Append(Tail(q), p) /\ Len(Append(Tail(q), p)) = Len(q)
    BY <1>0, <1>1, <2>1 DEF Remember
  <2>3. Senders(Append(Tail(q), p)) \subseteq
            Senders(Tail(q)) \cup (IF p.type = "signal" THEN {p.from} ELSE {})
    BY <2>1, SendersOf
  <2>4. Senders(Tail(q)) \subseteq Senders(q)
    BY <2>1, SendersOf
  <2> QED BY <2>2, <2>3, <2>4
<1>2. CASE ~(Len(q) >= MaxPending)
  <2>1. Remember(q, p) = Append(q, p) /\ Len(Append(q, p)) = Len(q) + 1
    BY <1>2 DEF Remember
  <2> QED BY <2>1, <1>0, <1>2, SendersOf
<1> QED BY <1>1, <1>2

\* forward: the signal goes to the other client and into the backlog.
LEMMA ForwardPair ==
    ASSUME IInv, PInv, NEW c \in ConnId, Forward(c)
    PROVE  PInv'
<1> DEFINE r == conn[c].room
           others == room[r].clients \ {c}
           pending == Remember(room[r].pending, Signal(c))
<1>0. /\ TypeOK /\ BlankInv /\ SeatInv /\ SoloInv /\ TokenInv /\ PairInv /\ BacklogInv /\ QueueInv
      /\ OpenClientIsRegistered /\ MemberInv /\ AskedInv
  BY DEF IInv, PInv
<1>1. /\ r \in RoomId /\ c \in room[r].clients /\ room[r] \in RoomRecord
      /\ room[r].pending \in Seq(Payload) /\ r # 0
      /\ conn[c].generation = room[r].generation
      /\ UNCHANGED <<rooms, lastRoom, lastConn, known, pair, evicted>>
  BY <1>0, PairTypes DEF Forward
<1>2. Signal(c) \in Payload /\ Signal(c).type = "signal" /\ Signal(c).from = c
  BY NoSignal
<1>3. room' = [room EXCEPT ![r] = [room[r] EXCEPT !.pending = pending]]
  BY <1>0, <1>1 DEF Forward, TypeOK
<1>4. conn' = [x \in ConnId |-> IF x \in others
                                THEN [conn[x] EXCEPT !.queue = Offer(conn[x].queue, Signal(c))]
                                ELSE conn[x]]
  BY DEF Forward
<1>5. ASSUME NEW q \in RoomId
      PROVE  /\ room'[q].clients = room[q].clients /\ room'[q].slots = room[q].slots
             /\ room'[q].tokens = room[q].tokens /\ room'[q].locked = room[q].locked
             /\ room'[q].generation = room[q].generation
             /\ room'[q].needsNewGeneration = room[q].needsNewGeneration
             /\ room'[q].reconnectEnabled = room[q].reconnectEnabled
             /\ room'[q].pending = IF q = r THEN pending ELSE room[q].pending
  <2>1. CASE q = r
    <3>1. room'[q] = [room[r] EXCEPT !.pending = pending]
      BY <2>1, <1>0, <1>1, <1>3 DEF TypeOK
    <3> HIDE DEF r, pending
    <3> QED BY <2>1, <3>1, <1>1 DEF RoomRecord
  <2>2. CASE q # r
    <3>1. room'[q] = room[q]
      BY <2>2, <1>0, <1>1, <1>3 DEF TypeOK
    <3> QED BY <2>2, <3>1
  <2> QED BY <2>1, <2>2
<1>6. ASSUME NEW x \in ConnId
      PROVE  /\ Stays(x) /\ conn'[x].closed = conn[x].closed
             /\ Senders(conn'[x].queue) \subseteq
                    Senders(conn[x].queue) \cup (IF x \in others THEN {c} ELSE {})
             /\ x \notin others => conn'[x].queue = conn[x].queue
  <2>1. conn[x] \in ConnRecord /\ conn[x].queue \in Seq(Payload)
    BY <1>0, PairTypes
  <2>2. CASE x \in others
    <3>1. conn'[x] = [conn[x] EXCEPT !.queue = Offer(conn[x].queue, Signal(c))]
      BY <2>2, <1>4
    <3>2. conn'[x].queue = Offer(conn[x].queue, Signal(c)) /\ Stays(x)
          /\ conn'[x].closed = conn[x].closed
      BY <3>1, <2>1 DEF ConnRecord, Stays
    <3>3. Senders(Offer(conn[x].queue, Signal(c))) \subseteq Senders(conn[x].queue) \cup {c}
      BY <2>1, <1>2, SendersOf
    <3> QED BY <2>2, <3>2, <3>3
  <2>3. CASE x \notin others
    <3>1. conn'[x] = conn[x]
      BY <2>3, <1>4
    <3> QED BY <2>3, <3>1 DEF Stays
  <2> QED BY <2>2, <2>3
<1>7. /\ Len(room[r].pending) <= MaxPending => Len(pending) <= MaxPending
      /\ Senders(pending) \subseteq Senders(room[r].pending) \cup {c}
  BY <1>1, <1>2, RememberFacts
<1>8. \A x \in others : /\ x \in ConnId /\ x # c /\ conn[x].room = r
                        /\ conn[x].generation = room[r].generation
                        /\ conn[x].role = conn[c].role => conn[c].role = "none"
                        /\ x <= lastConn
  <2>1. \A x \in others : x \in ConnId /\ x \in room[r].clients /\ x # c
    BY <1>0, <1>1, PairTypes
  <2>2. \A x \in others : conn[x].room = r /\ conn[x].generation = room[r].generation
    BY <2>1, <1>0, <1>1 DEF MemberInv, SeatInv
  <2>3. ASSUME NEW x \in others, conn[x].role = conn[c].role, conn[c].role # "none"
        PROVE  FALSE
    <3>1. conn[c].role \in Role
      BY <2>3, <1>0, PairTypes
    <3>2. room[r].slots[conn[c].role] = c /\ room[r].slots[conn[x].role] = x
      BY <2>1, <2>3, <3>1, <1>0, <1>1 DEF SeatInv
    <3> QED BY <3>2, <2>1, <2>3
  <2>4. \A x \in others : x <= lastConn
    BY <2>1, <1>1 DEF IInv, AllocInv
  <2> QED BY <2>1, <2>2, <2>3, <2>4
<1> HIDE DEF r, others, pending
<1>9. BlankInv'
  BY <1>0, <1>1, <1>5, <1>6, <1>8, PairTypes DEF BlankInv, Stays
<1>10. SeatInv'
  <2> SUFFICES ASSUME NEW q \in RoomId
               PROVE  /\ \A x \in room[q].clients :
                            /\ conn'[x].generation = room[q].generation
                            /\ conn'[x].role \in Role => room[q].slots[conn'[x].role] = x
                      /\ \A role \in Role : room[q].slots[role] # 0 =>
                            /\ room[q].slots[role] \in room[q].clients
                            /\ conn'[room[q].slots[role]].role = role
                      /\ room[q].reconnectEnabled \/ room[q].needsNewGeneration => room[q].locked
    BY <1>5 DEF SeatInv
  <2> QED BY <1>0, <1>6, PairTypes DEF SeatInv, Stays
<1>11. SoloInv'
  <2> SUFFICES ASSUME rooms # 0, ~room[rooms].locked, rooms \in RoomId
               PROVE  /\ \E x \in ConnId : room[rooms].clients = {x} /\ Len(conn'[x].queue) <= 1
                      /\ \A x \in ConnId : conn'[x].room = rooms => x \in room[rooms].clients
                      /\ Senders(room'[rooms].pending) \subseteq room[rooms].clients
    BY <1>0, <1>1, <1>5, PairTypes DEF SoloInv
  <2>1. PICK x \in ConnId : room[rooms].clients = {x} /\ Len(conn[x].queue) <= 1
    BY <1>0 DEF SoloInv
  <2>2. x \notin others
    <3>1. ASSUME x \in others PROVE FALSE
      <4>1. conn[x].room = rooms /\ conn[x].room = r
        BY <2>1, <3>1, <1>0, <1>8 DEF MemberInv
      <4>2. c \in room[rooms].clients /\ x # c
        BY <4>1, <3>1, <1>1, <1>8
      <4> QED BY <4>2, <2>1
    <3> QED BY <3>1
  <2>3. conn'[x].queue = conn[x].queue
    BY <2>2, <1>6
  <2>4. Senders(room'[rooms].pending) \subseteq room[rooms].clients
    <3>1. CASE rooms = r
      BY <3>1, <1>0, <1>1, <1>5, <1>7 DEF SoloInv
    <3>2. CASE rooms # r
      BY <3>2, <1>0, <1>5 DEF SoloInv
    <3> QED BY <3>1, <3>2
  <2> QED BY <2>1, <2>3, <2>4, <1>0, <1>6 DEF SoloInv, Stays
<1>12. TokenInv'
  <2> SUFFICES ASSUME rooms # 0, rooms \in RoomId
               PROVE  /\ \A role \in Role : room[rooms].tokens[role] =>
                            IF room[rooms].slots[role] # 0
                            THEN conn'[room[rooms].slots[role]].explicit
                            ELSE room[rooms].needsNewGeneration \/ room[rooms].reconnectEnabled
                      /\ ~room[rooms].reconnectEnabled =>
                            \E role \in Role : ~room[rooms].tokens[role]
    BY <1>0, <1>1, <1>5, PairTypes DEF TokenInv
  <2> QED BY <1>0, <1>6, PairTypes DEF TokenInv, Stays
<1>13. PairInv'
  <2>1. ASSUME NEW x \in ConnId, conn'[x].room # 0, room'[conn'[x].room].reconnectEnabled
        PROVE  /\ conn'[x].role \in Role /\ conn'[x].role = RoleOf[conn'[x].endpoint]
               /\ conn'[x].endpoint \in pair'[conn'[x].room][conn'[x].role]
    <3>1. conn[x].room \in RoomId /\ conn[x].room # 0 /\ room[conn[x].room].reconnectEnabled
      BY <2>1, <1>0, <1>5, <1>6, PairTypes DEF Stays
    <3> QED BY <3>1, <1>0, <1>1, <1>6 DEF PairInv, Stays
  <2>2. \A e \in Endpoints : known'[e] # 0 =>
            \E x \in ConnId : conn'[x].room = known'[e] /\ conn'[x].endpoint = e
    BY <1>0, <1>1, <1>6 DEF PairInv, Stays
  <2> QED BY <2>1, <2>2 DEF PairInv
<1>14. BacklogInv'
  <2> SUFFICES ASSUME rooms # 0, rooms \in RoomId
               PROVE  /\ Len(room'[rooms].pending) <= MaxPending
                      /\ \A f \in Senders(room'[rooms].pending) :
                            /\ f \in ConnId /\ conn'[f].room = rooms
                            /\ conn'[f].generation = room[rooms].generation
                            /\ \A role \in Role :
                                  room[rooms].tokens[role] /\ room[rooms].slots[role] = 0
                                  /\ ~room[rooms].needsNewGeneration => conn'[f].role # role
    BY <1>0, <1>1, <1>5, PairTypes DEF BacklogInv
  <2>1. CASE rooms # r
    BY <2>1, <1>0, <1>5, <1>6 DEF BacklogInv, Stays
  <2>2. CASE rooms = r
    <3>1. Len(room'[rooms].pending) <= MaxPending
      BY <2>2, <1>0, <1>1, <1>5, <1>7 DEF BacklogInv
    <3>2. ASSUME NEW f \in Senders(pending)
          PROVE  /\ f \in ConnId /\ conn[f].room = rooms
                 /\ conn[f].generation = room[rooms].generation
                 /\ \A role \in Role :
                       room[rooms].tokens[role] /\ room[rooms].slots[role] = 0
                       /\ ~room[rooms].needsNewGeneration => conn[f].role # role
      <4>1. CASE f = c
        <5>1. conn[c].role \in Role => room[r].slots[conn[c].role] = c
          BY <1>0, <1>1 DEF SeatInv
        <5>2. c # 0 /\ conn[c].room = r
          BY <1>0, PairTypes DEF r
        <5> QED BY <4>1, <5>1, <5>2, <2>2, <1>1
      <4>2. CASE f # c
        BY <4>2, <3>2, <2>2, <1>0, <1>7 DEF BacklogInv
      <4> QED BY <4>1, <4>2
    <3> QED BY <3>1, <3>2, <2>2, <1>1, <1>5, <1>6 DEF Stays
  <2> QED BY <2>1, <2>2
<1>15. QueueInv'
  <2> SUFFICES ASSUME NEW x \in ConnId, NEW f \in Senders(conn'[x].queue)
               PROVE  /\ f \in ConnId /\ f # x /\ conn[f].room = conn[x].room
                      /\ conn[f].generation = conn[x].generation
                      /\ conn[f].role = conn[x].role => conn[x].role = "none"
    BY <1>6 DEF QueueInv, Stays
  <2>1. CASE f \in Senders(conn[x].queue)
    BY <2>1, <1>0 DEF QueueInv
  <2>2. CASE f \notin Senders(conn[x].queue)
    <3>1. f = c /\ x \in others
      BY <2>2, <1>6
    <3>2. conn[c].room = r
      BY DEF r
    <3> QED BY <3>1, <3>2, <1>1, <1>8
  <2> QED BY <2>1, <2>2
<1>16. OpenClientIsRegistered'
  <2>1. \A x \in 1..lastConn : x \in ConnId
    BY <1>0, SignalConstants DEF TypeOK, ConnId
  <2> SUFFICES ASSUME NEW x \in 1..lastConn, ~conn'[x].closed, ~evicted
               PROVE  conn'[x].room = rooms /\ x \in room'[rooms].clients
    BY <1>1 DEF OpenClientIsRegistered
  <2>2. conn[x].room = rooms /\ x \in room[rooms].clients
    BY <2>1, <1>0, <1>6 DEF OpenClientIsRegistered
  <2>3. rooms \in RoomId
    BY <2>1, <2>2, <1>0, PairTypes DEF BlankInv
  <2> QED BY <2>1, <2>2, <2>3, <1>5, <1>6 DEF Stays
<1>17. AskedInv'
  BY <1>0, <1>6 DEF AskedInv, Stays
<1> QED BY <1>9, <1>10, <1>11, <1>12, <1>13, <1>14, <1>15, <1>16, <1>17 DEF PInv

(***************************************************************************)
(* Leaving.                                                                 *)
(***************************************************************************)

LEMMA LeavePair ==
    ASSUME IInv, PInv, NEW c \in ConnId, Leave(c)
    PROVE  PInv'
<1> DEFINE r == conn[c].room
           R == room[r]
           held == {role \in Role : conn[c].role = role /\ R.slots[role] = c}
           slots == [role \in Role |-> IF role \in held THEN 0 ELSE R.slots[role]]
           needs == R.needsNewGeneration \/ (held # {} /\ R.locked /\ conn[c].explicit)
           Left == [R EXCEPT !.clients = R.clients \ {c}, !.slots = slots,
                             !.needsNewGeneration = needs]
           drop == R.clients \ {c} = {} /\ ~SupportsReconnect(R)
<1>0. /\ TypeOK /\ BlankInv /\ SeatInv /\ SoloInv /\ TokenInv /\ PairInv /\ BacklogInv /\ QueueInv
      /\ OpenClientIsRegistered /\ MemberInv /\ AskedInv
  BY DEF IInv, PInv
<1>1. /\ r \in RoomId /\ R \in RoomRecord /\ r # 0 /\ ~conn[c].left
      /\ UNCHANGED <<lastRoom, lastConn, known, pair>>
  BY <1>0, PairTypes DEF Leave
<1>2. Left.clients = R.clients \ {c}
  BY <1>1 DEF RoomRecord
<1>3. /\ room' = [room EXCEPT ![r] = Left]
      /\ rooms' = IF drop THEN 0 ELSE rooms
      /\ conn' = [conn EXCEPT ![c] = [conn[c] EXCEPT !.closed = TRUE, !.left = TRUE, !.queue = << >>]]
      /\ evicted' = (evicted \/ (drop /\ rooms \notin {0, r}))
  <2>1. room' = [room EXCEPT ![r] = Left]
    BY <1>1 DEF Leave
  <2>2. rooms' = (IF drop THEN 0 ELSE rooms) /\ evicted' = (evicted \/ (drop /\ rooms \notin {0, r}))
    BY <1>1, <1>2 DEF Leave
  <2>3. conn' = [conn EXCEPT ![c] = [conn[c] EXCEPT !.closed = TRUE, !.left = TRUE, !.queue = << >>]]
    BY <1>0 DEF Leave, TypeOK
  <2> QED BY <2>1, <2>2, <2>3
<1>4. /\ room'[r].clients = R.clients \ {c} /\ room'[r].slots = slots
      /\ room'[r].needsNewGeneration = needs
      /\ room'[r].tokens = R.tokens /\ room'[r].locked = R.locked
      /\ room'[r].generation = R.generation /\ room'[r].pending = R.pending
      /\ room'[r].reconnectEnabled = R.reconnectEnabled
      /\ \A q \in RoomId : q # r => room'[q] = room[q]
  <2>1. room'[r] = Left /\ \A q \in RoomId : q # r => room'[q] = room[q]
    BY <1>0, <1>1, <1>3 DEF TypeOK
  <2> HIDE DEF slots, needs, R, r
  <2> QED BY <2>1, <1>1 DEF RoomRecord
<1>5. ASSUME NEW x \in ConnId
      PROVE  /\ Stays(x)
             /\ IF x = c THEN conn'[x].closed /\ conn'[x].queue = << >> ELSE conn'[x] = conn[x]
  <2>1. CASE x = c
    <3>1. conn'[x] = [conn[c] EXCEPT !.closed = TRUE, !.left = TRUE, !.queue = << >>]
      BY <2>1, <1>0, <1>3 DEF TypeOK
    <3>2. conn[c] \in ConnRecord
      BY <1>0, PairTypes
    <3> QED BY <2>1, <3>1, <3>2 DEF ConnRecord, Stays
  <2>2. CASE x # c
    BY <2>2, <1>0, <1>3 DEF TypeOK, Stays
  <2> QED BY <2>1, <2>2
<1>6. \A role \in Role : slots[role] = IF conn[c].role = role /\ R.slots[role] = c THEN 0
                                       ELSE R.slots[role]
  OBVIOUS
<1>7. \A role \in Role : R.slots[role] = c => conn[c].role = role /\ role \in held
  BY <1>0, <1>1, PairTypes DEF SeatInv
<1>8. \A q \in RoomId : q # r => c \notin room[q].clients
  BY <1>0 DEF MemberInv
<1>9. rooms = r /\ ~R.locked => rooms' = 0
  <2> SUFFICES ASSUME rooms = r, ~R.locked PROVE drop
    BY <1>3
  <2>1. c \in R.clients /\ \E x \in ConnId : R.clients = {x}
    BY <1>0, <1>1 DEF SoloInv
  <2> QED BY <2>1 DEF SupportsReconnect
<1>10. rooms' = 0 \/ rooms' = rooms
  BY <1>3
<1> HIDE DEF slots, needs, Left, drop, held
<1>11. BlankInv'
  <2>1. \A q \in RoomId : room'[q].reconnectEnabled = room[q].reconnectEnabled
    BY <1>1, <1>4
  <2>2. ~(c > lastConn)
    BY <1>0, <1>1, PairTypes DEF BlankInv
  <2> QED BY <2>1, <2>2, <1>0, <1>1, <1>5 DEF BlankInv, Stays
<1>12. SeatInv'
  <2> SUFFICES ASSUME NEW q \in RoomId
               PROVE  /\ \A x \in room'[q].clients :
                            /\ conn'[x].generation = room'[q].generation
                            /\ conn'[x].role \in Role => room'[q].slots[conn'[x].role] = x
                      /\ \A role \in Role : room'[q].slots[role] # 0 =>
                            /\ room'[q].slots[role] \in room'[q].clients
                            /\ conn'[room'[q].slots[role]].role = role
                      /\ room'[q].reconnectEnabled \/ room'[q].needsNewGeneration => room'[q].locked
    BY DEF SeatInv
  <2>1. CASE q # r
    <3>1. room'[q] = room[q] /\ room[q].clients \subseteq ConnId
      BY <2>1, <1>0, <1>4, PairTypes
    <3> QED BY <3>1, <1>0, <1>5, PairTypes DEF SeatInv, Stays
  <2>2. CASE q = r
    <3>1. ASSUME NEW x \in room'[q].clients
          PROVE  /\ conn'[x].generation = room'[q].generation
                 /\ conn'[x].role \in Role => room'[q].slots[conn'[x].role] = x
      <4>1. x \in R.clients /\ x # c /\ x \in ConnId
        BY <3>1, <2>2, <1>0, <1>1, <1>4, PairTypes
      <4>2. /\ conn[x].generation = R.generation
            /\ conn[x].role \in Role => R.slots[conn[x].role] = x
        BY <4>1, <1>0, <1>1 DEF SeatInv
      <4>3. conn'[x] = conn[x]
        BY <4>1, <1>5
      <4> QED BY <4>1, <4>2, <4>3, <2>2, <1>4, <1>6
    <3>2. ASSUME NEW role \in Role, room'[q].slots[role] # 0
          PROVE  /\ room'[q].slots[role] \in room'[q].clients
                 /\ conn'[room'[q].slots[role]].role = role
      <4>1. room'[q].slots[role] = R.slots[role] /\ R.slots[role] # 0 /\ R.slots[role] # c
        BY <3>2, <2>2, <1>4, <1>6, <1>7
      <4>2. R.slots[role] \in R.clients /\ conn[R.slots[role]].role = role
            /\ R.slots[role] \in ConnId
        BY <4>1, <1>0, <1>1, PairTypes DEF SeatInv
      <4> QED BY <4>1, <4>2, <2>2, <1>4, <1>5 DEF Stays
    <3>3. R.reconnectEnabled \/ needs => R.locked
      BY <1>0, <1>1 DEF SeatInv, needs
    <3> QED BY <3>1, <3>2, <3>3, <2>2, <1>4
  <2> QED BY <2>1, <2>2
<1>13. SoloInv'
  <2> SUFFICES ASSUME rooms' # 0, ~room'[rooms'].locked
               PROVE  /\ \E x \in ConnId : room'[rooms'].clients = {x} /\ Len(conn'[x].queue) <= 1
                      /\ \A x \in ConnId : conn'[x].room = rooms' => x \in room'[rooms'].clients
                      /\ Senders(room'[rooms'].pending) \subseteq room'[rooms'].clients
    BY DEF SoloInv
  <2>1. rooms' = rooms /\ rooms \in RoomId /\ rooms # 0
    BY <1>0, <1>10, PairTypes
  <2>2. rooms # r
    BY <2>1, <1>4, <1>9
  <2>3. room'[rooms'] = room[rooms]
    BY <2>1, <2>2, <1>4
  <2>4. \A x \in room[rooms].clients : x \in ConnId /\ conn'[x] = conn[x]
    BY <2>1, <2>2, <1>0, <1>5, <1>8, PairTypes
  <2> QED BY <2>1, <2>3, <2>4, <1>0, <1>5 DEF SoloInv, Stays
<1>14. TokenInv' /\ BacklogInv'
  <2>1. CASE rooms' = 0
    BY <2>1 DEF TokenInv, BacklogInv
  <2>2. CASE rooms' # 0
    <3>1. rooms' = rooms /\ rooms \in RoomId /\ rooms # 0
      BY <2>2, <1>0, <1>10, PairTypes
    <3>2. CASE rooms # r
      <4>1. room'[rooms'] = room[rooms]
        BY <3>1, <3>2, <1>4
      <4>2. TokenInv'
        BY <4>1, <3>1, <1>0, <1>5, PairTypes DEF TokenInv, Stays
      <4>3. BacklogInv'
        BY <4>1, <3>1, <1>0, <1>5 DEF BacklogInv, Stays
      <4> QED BY <4>2, <4>3
    <3>3. CASE rooms = r
      <4>0. R.locked
        BY <2>2, <3>3, <1>9
      <4>1. ASSUME NEW role \in Role, R.tokens[role]
            PROVE  /\ slots[role] # 0 => /\ slots[role] = R.slots[role]
                                         /\ conn'[slots[role]].explicit
                   /\ slots[role] = 0 => needs \/ R.reconnectEnabled
                   /\ slots[role] = 0 /\ ~needs => R.slots[role] = 0
        <5>1. CASE R.slots[role] = c
          <6>1. conn[c].explicit /\ role \in held
            BY <4>1, <5>1, <3>1, <3>3, <1>0, <1>7, PairTypes DEF TokenInv
          <6>2. needs
            BY <6>1, <4>0 DEF needs
          <6>3. slots[role] = 0
            BY <5>1, <1>6, <1>7
          <6> QED BY <6>2, <6>3
        <5>2. CASE R.slots[role] # c
          <6>1. slots[role] = R.slots[role]
            BY <5>2, <1>6
          <6>2. R.slots[role] = 0 \/ R.slots[role] \in ConnId
            BY <1>0, <1>1, PairTypes
          <6>3. R.slots[role] # 0 => conn'[R.slots[role]].explicit
            BY <6>2, <4>1, <3>1, <3>3, <1>0, <1>5 DEF TokenInv, Stays
          <6>4. R.slots[role] = 0 => R.needsNewGeneration \/ R.reconnectEnabled
            BY <4>1, <3>1, <3>3, <1>0 DEF TokenInv
          <6>5. R.needsNewGeneration => needs
            BY DEF needs
          <6> QED BY <6>1, <6>3, <6>4, <6>5
        <5> QED BY <5>1, <5>2
      <4>2. TokenInv'
        <5>1. ~R.reconnectEnabled => \E role \in Role : ~R.tokens[role]
          BY <3>1, <3>3, <1>0 DEF TokenInv
        <5> QED BY <5>1, <4>1, <3>1, <3>3, <1>4 DEF TokenInv
      <4>3. BacklogInv'
        <5>1. R.needsNewGeneration => needs
          BY DEF needs
        <5>2. ASSUME NEW f \in Senders(R.pending)
              PROVE  /\ f \in ConnId /\ conn'[f].room = rooms
                     /\ conn'[f].generation = R.generation
                     /\ \A role \in Role : R.tokens[role] /\ slots[role] = 0 /\ ~needs
                            => conn'[f].role # role
          <6>1. /\ f \in ConnId /\ conn[f].room = rooms /\ conn[f].generation = R.generation
                /\ \A role \in Role : R.tokens[role] /\ R.slots[role] = 0
                                      /\ ~R.needsNewGeneration => conn[f].role # role
            BY <5>2, <3>1, <3>3, <1>0 DEF BacklogInv
          <6> QED BY <6>1, <5>1, <4>1, <1>5 DEF Stays
        <5>3. Len(R.pending) <= MaxPending
          BY <3>1, <3>3, <1>0 DEF BacklogInv
        <5> QED BY <5>2, <5>3, <3>1, <3>3, <1>4 DEF BacklogInv
      <4> QED BY <4>2, <4>3
    <3> QED BY <3>2, <3>3
  <2> QED BY <2>1, <2>2
<1>15. PairInv'
  <2>1. ASSUME NEW x \in ConnId, conn'[x].room # 0, room'[conn'[x].room].reconnectEnabled
        PROVE  /\ conn'[x].role \in Role /\ conn'[x].role = RoleOf[conn'[x].endpoint]
               /\ conn'[x].endpoint \in pair'[conn'[x].room][conn'[x].role]
    <3>1. conn[x].room \in RoomId /\ conn[x].room # 0 /\ room[conn[x].room].reconnectEnabled
      BY <2>1, <1>0, <1>4, <1>5, PairTypes DEF Stays
    <3> QED BY <3>1, <1>0, <1>1, <1>5 DEF PairInv, Stays
  <2>2. \A e \in Endpoints : known'[e] # 0 =>
            \E x \in ConnId : conn'[x].room = known'[e] /\ conn'[x].endpoint = e
    BY <1>0, <1>1, <1>5 DEF PairInv, Stays
  <2> QED BY <2>1, <2>2 DEF PairInv
<1>16. QueueInv'
  <2>1. \A x \in ConnId : Senders(conn'[x].queue) \subseteq Senders(conn[x].queue)
    BY <1>5, SendersOf
  <2> QED BY <2>1, <1>0, <1>5 DEF QueueInv, Stays
<1>17. OpenClientIsRegistered'
  <2> SUFFICES ASSUME NEW x \in 1..lastConn, ~conn'[x].closed, ~evicted'
               PROVE  conn'[x].room = rooms' /\ x \in room'[rooms'].clients
    BY <1>1 DEF OpenClientIsRegistered
  <2>1. x \in ConnId
    BY <1>0, SignalConstants DEF TypeOK, ConnId
  <2>2. x # c /\ conn'[x] = conn[x] /\ ~evicted
    BY <2>1, <1>3, <1>5
  <2>3. conn[x].room = rooms /\ x \in room[rooms].clients
    BY <2>2, <1>0 DEF OpenClientIsRegistered
  <2>4. rooms \in RoomId /\ rooms # 0
    BY <2>1, <2>3, <1>0, PairTypes DEF BlankInv
  <2>5. ~drop
    <3> SUFFICES ASSUME drop PROVE FALSE
      OBVIOUS
    <3>1. rooms = r
      BY <2>2, <2>4, <1>3
    <3> QED BY <3>1, <2>2, <2>3 DEF drop
  <2>6. rooms' = rooms
    BY <2>5, <1>3
  <2>7. x \in room'[rooms].clients
    BY <2>2, <2>3, <2>4, <1>4
  <2> QED BY <2>2, <2>3, <2>6, <2>7
<1>18. AskedInv'
  BY <1>0, <1>5 DEF AskedInv, Stays
<1> QED BY <1>11, <1>12, <1>13, <1>14, <1>15, <1>16, <1>17, <1>18 DEF PInv

(***************************************************************************)
(* Rejoining.                                                               *)
(***************************************************************************)

\* What a new generation leaves of a room: nothing but the pair's tokens.
LEMMA NewGenerationFacts ==
    ASSUME TypeOK, SeatInv, NEW r \in RoomId
    PROVE  LET R == NewGeneration(room[r]) IN
           /\ R \in RoomRecord /\ ~R.needsNewGeneration
           /\ R.tokens = room[r].tokens /\ R.locked = room[r].locked
           /\ R.reconnectEnabled = room[r].reconnectEnabled
           /\ R.pending \in Seq(Payload)
           /\ IF room[r].needsNewGeneration
              THEN /\ R.clients = {} /\ R.pending = << >>
                   /\ \A role \in Role : R.slots[role] = 0
              ELSE R = room[r]
<1>1. room[r] \in RoomRecord
  BY PairTypes
<1>2. NewGeneration(room[r]) \in RoomRecord
  BY <1>1, NewGenerationType
<1>3. NewGeneration(room[r]).pending \in Seq(Payload)
  BY <1>2 DEF RoomRecord
<1>4. CASE room[r].needsNewGeneration
  <2> DEFINE slots == [role \in Role |-> IF room[r].slots[role] \in room[r].clients THEN 0
                                         ELSE room[r].slots[role]]
             R == [room[r] EXCEPT !.generation = room[r].generation + 1, !.pending = << >>,
                                  !.needsNewGeneration = FALSE, !.clients = {}, !.slots = slots]
  <2>1. NewGeneration(room[r]) = R
    BY <1>1, <1>4 DEF NewGeneration, RoomRecord
  <2>2. \A role \in Role : slots[role] = 0
    BY DEF SeatInv
  <2> HIDE DEF slots
  <2>3. /\ R.clients = {} /\ R.pending = << >> /\ R.slots = slots /\ ~R.needsNewGeneration
        /\ R.tokens = room[r].tokens /\ R.locked = room[r].locked
        /\ R.reconnectEnabled = room[r].reconnectEnabled
    BY <1>1 DEF RoomRecord
  <2> QED BY <1>2, <1>3, <1>4, <2>1, <2>2, <2>3
<1>5. CASE ~room[r].needsNewGeneration
  BY <1>2, <1>3, <1>5 DEF NewGeneration
<1> QED BY <1>4, <1>5

LEMMA ClientFields ==
    ASSUME NEW e, NEW r, NEW role, NEW g, NEW q
    PROVE  LET C == Client(e, r, role, g, q) IN
           /\ C.room = r /\ C.endpoint = e /\ C.role = role /\ (C.explicit <=> RoleOf[e] # "none")
           /\ C.generation = g /\ ~C.closed /\ C.queue = q
BY DEF Client

LEMMA RejoinPair ==
    ASSUME IInv, PInv, NEW e \in Endpoints, Rejoin(e)
    PROVE  PInv'
<1> DEFINE r == rooms
           role == RoleOf[e]
           R == NewGeneration(room[r])
           c == lastConn + 1
           kicked == IF room[r].needsNewGeneration THEN room[r].clients ELSE {}
           slots == [R.slots EXCEPT ![role] = c]
           Joined == [R EXCEPT !.clients = R.clients \cup {c}, !.slots = slots]
           supported == Cardinality(Joined.clients) < 2 \/ R.reconnectEnabled
           bare == [conn EXCEPT ![c] = Client(e, r, role, R.generation, << >>)]
           full == Cardinality(R.clients \cup {c}) = 2
           enabled == R.reconnectEnabled \/ (full /\ TwoExplicitRoles(slots, bare))
           entered == [Joined EXCEPT !.locked = Joined.locked \/ full, !.reconnectEnabled = enabled]
<1>0. /\ TypeOK /\ BlankInv /\ SeatInv /\ SoloInv /\ TokenInv /\ PairInv /\ BacklogInv /\ QueueInv
      /\ OpenClientIsRegistered /\ MemberInv /\ AskedInv /\ AllocInv
  BY DEF IInv, PInv
<1>1. /\ r \in RoomId /\ r # 0 /\ role \in Role /\ role # "none" /\ c \in ConnId /\ c # 0
      /\ room[r].locked /\ room[r].slots[role] = 0 /\ room[r].tokens[role] /\ known[e] = r
      /\ UNCHANGED <<rooms, lastRoom, known, evicted>> /\ c = lastConn + 1 /\ lastConn \in Nat
  BY <1>0, PairTypes DEF Rejoin, TokenAccepted
<1>2. /\ R \in RoomRecord /\ ~R.needsNewGeneration
      /\ R.tokens = room[r].tokens /\ R.locked = room[r].locked
      /\ R.reconnectEnabled = room[r].reconnectEnabled /\ R.pending \in Seq(Payload)
      /\ IF room[r].needsNewGeneration
         THEN R.clients = {} /\ R.pending = << >> /\ \A o \in Role : R.slots[o] = 0
         ELSE R = room[r]
  BY <1>0, <1>1, NewGenerationFacts
<1>3. /\ conn' = [x \in ConnId |->
           IF x = c THEN Client(e, r, role, R.generation, <<Ready(supported)>> \o R.pending)
           ELSE IF x \in kicked THEN [conn[x] EXCEPT !.closed = TRUE]
           ELSE conn[x]]
      /\ Enter(e, c, r, Joined, bare)
  <2> HIDE DEF R, r, c, role
  <2>1. [R EXCEPT !.clients = @ \cup {c}, !.slots[role] = c] = Joined
    BY <1>2 DEF RoomRecord
  <2> QED BY <2>1 DEF Rejoin, R, r, c, role
<1>4. /\ Joined.clients = R.clients \cup {c} /\ Joined.slots = slots
      /\ Joined.reconnectEnabled = R.reconnectEnabled /\ Joined.locked = R.locked
      /\ Joined.pending = R.pending /\ Joined.tokens = R.tokens
      /\ Joined.generation = R.generation /\ Joined.needsNewGeneration = R.needsNewGeneration
      /\ Joined \in RoomRecord
  <2>1. slots \in [Role -> 0..MaxConns] /\ R.clients \cup {c} \in SUBSET ConnId
    BY <1>1, <1>2, SignalConstants DEF RoomRecord, ConnId
  <2> HIDE DEF R, slots, c
  <2> QED BY <1>2, <2>1 DEF RoomRecord
<1>5. room[r].reconnectEnabled \/ ~full
  <2> SUFFICES ASSUME ~room[r].reconnectEnabled PROVE ~full
    OBVIOUS
  <2>1. room[r].needsNewGeneration
    BY <1>0, <1>1 DEF TokenInv
  <2>2. R.clients \cup {c} = {c}
    BY <2>1, <1>2
  <2>3. Cardinality({c}) = 1
    <3> HIDE DEF c
    <3> QED BY FS_Singleton
  <2> QED BY <2>2, <2>3
<1>6. enabled = room[r].reconnectEnabled /\ enabled \in BOOLEAN
  <2>1. R.reconnectEnabled \in BOOLEAN
    BY <1>2 DEF RoomRecord
  <2> QED BY <2>1, <1>2, <1>5
<1>7. lastConn' = c /\ room' = [room EXCEPT ![r] = entered] /\ pair' = pair
  <2> HIDE DEF R, slots, c, r, bare, Joined
  <2>1. lastConn' = c
    BY <1>3 DEF Enter
  <2>2. room' = [room EXCEPT ![r] = entered]
    BY <1>3, <1>4 DEF Enter
  <2>3. pair' = pair
    BY <1>3, <1>4, <1>5, <1>2 DEF Enter
  <2> QED BY <2>1, <2>2, <2>3
<1>8. /\ room'[r].clients = R.clients \cup {c} /\ room'[r].slots = slots
      /\ room'[r].reconnectEnabled = room[r].reconnectEnabled /\ room'[r].locked
      /\ room'[r].pending = R.pending /\ room'[r].tokens = room[r].tokens
      /\ room'[r].generation = R.generation /\ ~room'[r].needsNewGeneration
      /\ \A q \in RoomId : q # r => room'[q] = room[q]
  <2>1. room'[r] = entered /\ \A q \in RoomId : q # r => room'[q] = room[q]
    BY <1>0, <1>1, <1>7 DEF TypeOK
  <2> HIDE DEF R, slots, c, r, Joined, full, enabled
  <2> QED BY <2>1, <1>1, <1>2, <1>4, <1>6 DEF RoomRecord
<1>9. \A o \in Role : slots[o] = IF o = role THEN c ELSE R.slots[o]
  BY <1>1, <1>2 DEF RoomRecord
<1>10. /\ conn'[c].room = r /\ conn'[c].endpoint = e /\ conn'[c].role = role /\ conn'[c].explicit
       /\ conn'[c].generation = R.generation /\ ~conn'[c].closed
       /\ Senders(conn'[c].queue) \subseteq Senders(R.pending)
  <2>1. conn'[c] = Client(e, r, role, R.generation, <<Ready(supported)>> \o R.pending)
    BY <1>1, <1>3
  <2>2. Senders(<<Ready(supported)>> \o R.pending) \subseteq Senders(R.pending)
    BY <1>2, SendersOf
  <2>3. RoleOf[e] # "none"
    BY <1>1
  <2> DEFINE q == <<Ready(supported)>> \o R.pending
             g == R.generation
  <2>4. conn'[c] = Client(e, r, role, g, q)
    BY <2>1
  <2> HIDE DEF R, slots, c, r, Joined, full, enabled, supported, role, q, g
  <2>5. /\ conn'[c].room = r /\ conn'[c].endpoint = e /\ conn'[c].role = role
        /\ conn'[c].explicit <=> RoleOf[e] # "none"
        /\ conn'[c].generation = g /\ ~conn'[c].closed /\ conn'[c].queue = q
    BY <2>4, ClientFields
  <2> QED BY <2>5, <2>2, <2>3 DEF g, q
<1>11. ASSUME NEW x \in ConnId, x # c
       PROVE  /\ Stays(x) /\ conn'[x].queue = conn[x].queue
              /\ IF x \in kicked THEN conn'[x].closed ELSE conn'[x].closed = conn[x].closed
  <2>1. conn[x] \in ConnRecord
    BY <1>0, PairTypes
  <2>2. conn'[x] = IF x \in kicked THEN [conn[x] EXCEPT !.closed = TRUE] ELSE conn[x]
    BY <1>3, <1>11
  <2> HIDE DEF kicked, c
  <2> QED BY <2>1, <2>2 DEF ConnRecord, Stays
<1>12. /\ conn[c].room = 0 /\ conn[c].queue = << >>
       /\ \A q \in RoomId : c \notin room[q].clients /\ room[q].clients \subseteq ConnId
  <2>1. c > lastConn
    BY <1>1
  <2>2. conn[c].room = 0 /\ conn[c].queue = << >>
    BY <2>1, <1>0, <1>1 DEF BlankInv
  <2> QED BY <2>2, <1>0, PairTypes DEF MemberInv
<1>13. R.clients \subseteq room[r].clients /\ R.clients \subseteq ConnId /\ c \notin R.clients
  BY <1>1, <1>2, <1>12
<1>14. \A f \in Senders(R.pending) :
          /\ ~room[r].needsNewGeneration /\ R = room[r] /\ f \in ConnId /\ f # c /\ conn[f].room = r
          /\ conn[f].generation = R.generation
          /\ \A o \in Role : room[r].tokens[o] /\ room[r].slots[o] = 0 => conn[f].role # o
  <2>1. room[r].needsNewGeneration => Senders(R.pending) = {}
    BY <1>2, SendersOf
  <2>2. ~room[r].needsNewGeneration => R = room[r]
    BY <1>2
  <2> QED BY <2>1, <2>2, <1>0, <1>1, <1>12 DEF BacklogInv
<1> HIDE DEF R, slots, c, r, Joined, full, enabled, supported, role, bare, entered, kicked
<1>15. BlankInv'
  <2>1. ASSUME NEW x \in ConnId
        PROVE  IF x > lastConn' THEN conn'[x].room = 0 /\ conn'[x].queue = << >>
               ELSE conn'[x].room \in 1..lastRoom'
    <3>1. CASE x = c
      <4>1. ~(c > c) /\ r \in 1..lastRoom
        BY <1>0, <1>1, PairTypes DEF AllocInv, r
      <4> QED BY <3>1, <4>1, <1>1, <1>7, <1>10
    <3>2. CASE x # c
      <4>1. x > c <=> x > lastConn
        BY <3>2, <1>0, <1>1, PairTypes
      <4> QED BY <3>2, <4>1, <1>0, <1>1, <1>7, <1>11 DEF BlankInv, Stays
    <3> QED BY <3>1, <3>2
  <2>2. \A q \in RoomId : q > lastRoom' => ~room'[q].reconnectEnabled
    BY <1>0, <1>1, <1>8 DEF BlankInv
  <2> QED BY <2>1, <2>2 DEF BlankInv
<1>16. SeatInv'
  <2> SUFFICES ASSUME NEW q \in RoomId
               PROVE  /\ \A x \in room'[q].clients :
                            /\ conn'[x].generation = room'[q].generation
                            /\ conn'[x].role \in Role => room'[q].slots[conn'[x].role] = x
                      /\ \A o \in Role : room'[q].slots[o] # 0 =>
                            /\ room'[q].slots[o] \in room'[q].clients
                            /\ conn'[room'[q].slots[o]].role = o
                      /\ room'[q].reconnectEnabled \/ room'[q].needsNewGeneration => room'[q].locked
    BY DEF SeatInv
  <2>1. CASE q # r
    <3>1. room'[q] = room[q] /\ \A x \in room[q].clients : x \in ConnId /\ x # c
      BY <2>1, <1>8, <1>12
    <3> QED BY <3>1, <1>0, <1>11, PairTypes DEF SeatInv, Stays
  <2>2. CASE q = r
    <3>1. ASSUME NEW x \in R.clients
          PROVE  /\ conn'[x].generation = R.generation /\ x # c /\ R = room[r]
                 /\ conn'[x].role \in Role => R.slots[conn'[x].role] = x
      <4>1. R = room[r] /\ x \in ConnId /\ x # c
        BY <3>1, <1>2, <1>13
      <4> QED BY <4>1, <3>1, <1>0, <1>1, <1>11 DEF SeatInv, Stays
    <3>2. ASSUME NEW x \in room'[q].clients
          PROVE  /\ conn'[x].generation = room'[q].generation
                 /\ conn'[x].role \in Role => room'[q].slots[conn'[x].role] = x
      <4>1. CASE x = c
        BY <4>1, <2>2, <1>1, <1>8, <1>9, <1>10
      <4>2. CASE x # c
        <5>1. x \in R.clients
          BY <4>2, <3>2, <2>2, <1>8
        <5>2. conn'[x].role # role
          <6>1. x # 0
            BY <5>1, <1>0, <1>13, PairTypes
          <6> QED BY <6>1, <5>1, <3>1, <1>1
        <5> QED BY <5>1, <5>2, <3>1, <2>2, <1>8, <1>9
      <4> QED BY <4>1, <4>2
    <3>3. ASSUME NEW o \in Role, slots[o] # 0
          PROVE  slots[o] \in R.clients \cup {c} /\ conn'[slots[o]].role = o
      <4>1. CASE o = role
        BY <4>1, <1>9, <1>10
      <4>2. CASE o # role
        <5>1. slots[o] = R.slots[o] /\ R.slots[o] # 0
          BY <4>2, <3>3, <1>9
        <5>2. R = room[r]
          BY <5>1, <1>2
        <5>3. R.slots[o] \in R.clients /\ conn[R.slots[o]].role = o
          BY <5>1, <5>2, <1>0, <1>1 DEF SeatInv
        <5>4. R.slots[o] \in ConnId /\ R.slots[o] # c
          BY <5>3, <1>13
        <5> QED BY <5>1, <5>3, <5>4, <1>11 DEF Stays
      <4> QED BY <4>1, <4>2
    <3> QED BY <3>2, <3>3, <2>2, <1>8
  <2> QED BY <2>1, <2>2
<1>17. SoloInv'
  BY <1>1, <1>8 DEF SoloInv, r
<1>18. \A o \in Role : room[r].tokens[o] /\ slots[o] = 0 =>
          o # role /\ R.slots[o] = 0 /\ room[r].reconnectEnabled
  <2> SUFFICES ASSUME NEW o \in Role, room[r].tokens[o], slots[o] = 0
               PROVE  o # role /\ R.slots[o] = 0 /\ room[r].reconnectEnabled
    OBVIOUS
  <2>1. o # role /\ R.slots[o] = 0
    BY <1>1, <1>9
  <2>2. CASE room[r].needsNewGeneration
    <3>1. Role = {"sender", "receiver"}
      BY DEF Role
    <3>2. \A p \in Role : room[r].tokens[p]
      BY <2>1, <3>1, <1>1
    <3> QED BY <2>1, <3>2, <1>0, <1>1 DEF TokenInv, r
  <2>3. CASE ~room[r].needsNewGeneration
    <3>1. room[r].slots[o] = 0
      BY <2>1, <2>3, <1>2
    <3> QED BY <2>1, <2>3, <3>1, <1>0, <1>1 DEF TokenInv, r
  <2> QED BY <2>1, <2>2, <2>3
<1>19. TokenInv'
  <2>1. rooms' = r
    BY <1>1 DEF r
  <2>2. ASSUME NEW o \in Role, room[r].tokens[o], slots[o] # 0
        PROVE  conn'[slots[o]].explicit
    <3>1. CASE o = role
      BY <3>1, <1>9, <1>10
    <3>2. CASE o # role
      <4>1. slots[o] = R.slots[o] /\ R.slots[o] # 0 /\ R = room[r]
        BY <2>2, <3>2, <1>2, <1>9
      <4>2. conn[R.slots[o]].explicit /\ R.slots[o] \in R.clients
        BY <2>2, <4>1, <1>0, <1>1 DEF TokenInv, SeatInv, r
      <4> QED BY <4>1, <4>2, <1>11, <1>13 DEF Stays
    <3> QED BY <3>1, <3>2
  <2>3. ~room[r].reconnectEnabled => \E o \in Role : ~room[r].tokens[o]
    BY <1>0, <1>1 DEF TokenInv, r
  <2> QED BY <2>1, <2>2, <2>3, <1>8, <1>18 DEF TokenInv
<1>20. PairInv'
  <2>1. \A q \in RoomId : room'[q].reconnectEnabled = room[q].reconnectEnabled
    BY <1>8
  <2>2. ASSUME NEW x \in ConnId, conn'[x].room # 0, room'[conn'[x].room].reconnectEnabled
        PROVE  /\ conn'[x].role \in Role /\ conn'[x].role = RoleOf[conn'[x].endpoint]
               /\ conn'[x].endpoint \in pair'[conn'[x].room][conn'[x].role]
    <3>1. CASE x = c
      <4>1. PICK d \in ConnId : conn[d].room = r /\ conn[d].endpoint = e
        BY <1>0, <1>1 DEF PairInv
      <4>2. room[r].reconnectEnabled
        BY <3>1, <2>2, <1>8, <1>10
      <4>3. conn[d].role = RoleOf[e] /\ e \in pair[r][conn[d].role]
        BY <4>1, <4>2, <1>0, <1>1 DEF PairInv
      <4> QED BY <3>1, <4>3, <1>1, <1>7, <1>10 DEF role
    <3>2. CASE x # c
      <4>1. conn[x].room \in RoomId /\ conn[x].room # 0 /\ room[conn[x].room].reconnectEnabled
        BY <2>1, <2>2, <3>2, <1>0, <1>11, PairTypes DEF Stays
      <4> QED BY <3>2, <4>1, <1>0, <1>7, <1>11 DEF PairInv, Stays
    <3> QED BY <3>1, <3>2
  <2>3. ASSUME NEW d \in Endpoints, known'[d] # 0
        PROVE  \E x \in ConnId : conn'[x].room = known'[d] /\ conn'[x].endpoint = d
    <3>1. PICK x \in ConnId : conn[x].room = known[d] /\ conn[x].endpoint = d
      BY <2>3, <1>0, <1>1 DEF PairInv
    <3>2. x # c
      BY <2>3, <3>1, <1>1, <1>12
    <3> QED BY <3>1, <3>2, <1>1, <1>11 DEF Stays
  <2> QED BY <2>2, <2>3 DEF PairInv
<1>21. BacklogInv'
  <2>1. rooms' = r
    BY <1>1 DEF r
  <2>2. Len(R.pending) <= MaxPending
    <3>1. CASE room[r].needsNewGeneration
      BY <3>1, <1>2, SignalConstants
    <3>2. CASE ~room[r].needsNewGeneration
      BY <3>2, <1>0, <1>1, <1>2 DEF BacklogInv, r
    <3> QED BY <3>1, <3>2
  <2>3. ASSUME NEW f \in Senders(R.pending)
        PROVE  /\ f \in ConnId /\ conn'[f].room = r /\ conn'[f].generation = R.generation
               /\ \A o \in Role : room[r].tokens[o] /\ slots[o] = 0 => conn'[f].role # o
    <3>1. /\ R = room[r] /\ f \in ConnId /\ f # c /\ conn[f].room = r
          /\ conn[f].generation = R.generation
          /\ \A o \in Role : room[r].tokens[o] /\ room[r].slots[o] = 0 => conn[f].role # o
      BY <2>3, <1>14
    <3> QED BY <3>1, <1>11, <1>18 DEF Stays
  <2> QED BY <2>1, <2>2, <2>3, <1>8 DEF BacklogInv
<1>22. QueueInv'
  <2> SUFFICES ASSUME NEW x \in ConnId, NEW f \in Senders(conn'[x].queue)
               PROVE  /\ f \in ConnId /\ f # x /\ conn'[f].room = conn'[x].room
                      /\ conn'[f].generation = conn'[x].generation
                      /\ conn'[f].role = conn'[x].role => conn'[x].role = "none"
    BY DEF QueueInv
  <2>1. CASE x = c
    <3>1. f \in Senders(R.pending)
      BY <2>1, <1>10
    <3>2. /\ f \in ConnId /\ f # c /\ conn[f].room = r /\ conn[f].generation = R.generation
          /\ conn[f].role # role
      BY <3>1, <1>1, <1>14
    <3> QED BY <2>1, <3>2, <1>10, <1>11 DEF Stays
  <2>2. CASE x # c
    <3>1. f \in Senders(conn[x].queue)
      BY <2>2, <1>11
    <3>2. f # c
      <4> SUFFICES ASSUME f = c PROVE FALSE
        OBVIOUS
      <4>1. conn[x].room = 0
        BY <3>1, <1>0, <1>12 DEF QueueInv
      <4>2. conn[x].queue = << >>
        BY <4>1, <1>0 DEF BlankInv
      <4> QED BY <3>1, <4>2, SendersOf
    <3> QED BY <2>2, <3>1, <3>2, <1>0, <1>11 DEF QueueInv, Stays
  <2> QED BY <2>1, <2>2
<1>23. OpenClientIsRegistered'
  <2> SUFFICES ASSUME NEW x \in 1..lastConn', ~conn'[x].closed, ~evicted
               PROVE  conn'[x].room = r /\ x \in room'[r].clients
    BY <1>1 DEF OpenClientIsRegistered, r
  <2>1. CASE x = c
    BY <2>1, <1>8, <1>10
  <2>2. CASE x # c
    <3>1. x \in 1..lastConn /\ x \in ConnId
      BY <2>2, <1>0, <1>1, <1>7, SignalConstants DEF TypeOK, ConnId
    <3>2. x \notin kicked /\ ~conn[x].closed
      BY <2>2, <3>1, <1>11
    <3>3. conn[x].room = r /\ x \in room[r].clients
      BY <3>1, <3>2, <1>0 DEF OpenClientIsRegistered, r
    <3>4. ~room[r].needsNewGeneration
      BY <3>2, <3>3 DEF kicked
    <3> QED BY <2>2, <3>1, <3>3, <3>4, <1>2, <1>8, <1>11 DEF Stays
  <2> QED BY <2>1, <2>2
<1>24. AskedInv'
  <2> SUFFICES ASSUME NEW x \in ConnId, conn'[x].explicit
               PROVE  conn'[x].role \in Role /\ conn'[x].role = RoleOf[conn'[x].endpoint]
    BY DEF AskedInv
  <2>1. CASE x = c
    BY <2>1, <1>1, <1>10 DEF role
  <2>2. CASE x # c
    BY <2>2, <1>0, <1>11 DEF AskedInv, Stays
  <2> QED BY <2>1, <2>2
<1> QED BY <1>15, <1>16, <1>17, <1>19, <1>20, <1>21, <1>22, <1>23, <1>24 DEF PInv

(***************************************************************************)
(* Joining a room that is not locked.                                       *)
(***************************************************************************)

\* What is known of the room r, of content R, that a join finds unlocked: it
\* has at most one client, which knows no other,
SoleClient(r, R) ==
    /\ R.clients \subseteq ConnId
    /\ R.clients = {} \/ \E y \in ConnId : R.clients = {y}
    /\ \A d \in ConnId : conn[d].room = r => d \in R.clients
    /\ \A y \in R.clients : /\ conn[y].room = r /\ conn[y].generation = R.generation
                            /\ Len(conn[y].queue) <= 1 /\ ~conn[y].closed /\ y <= lastConn

\* which holds the slot of its role, and the slot of each token,
SoleSeat(R) ==
    /\ \A y \in R.clients : conn[y].role \in Role => R.slots[conn[y].role] = y
    /\ \A o \in Role : R.slots[o] # 0 => R.slots[o] \in R.clients /\ conn[R.slots[o]].role = o
    /\ \A o \in Role : R.tokens[o] => R.slots[o] # 0 /\ conn[R.slots[o]].explicit
    /\ ~R.reconnectEnabled /\ ~R.needsNewGeneration

\* and which sent what is in the backlog.
SoleSender(R) ==
    /\ R.pending \in Seq(Payload) /\ Senders(R.pending) \subseteq R.clients
    /\ Len(R.pending) <= MaxPending /\ (R.clients = {} => R.pending = << >>)

Unlocked(r, R) == R \in RoomRecord /\ SoleClient(r, R) /\ SoleSeat(R) /\ SoleSender(R)

LEMMA TargetFacts ==
    ASSUME IInv, PInv, ~Target.locked
    PROVE  Unlocked(TargetId, Target)
<1>0. /\ TypeOK /\ BlankInv /\ SeatInv /\ SoloInv /\ TokenInv /\ BacklogInv /\ MemberInv /\ AllocInv
      /\ OpenInv
  BY DEF IInv, PInv
<1>1. Target \in RoomRecord
  BY <1>0, TargetType
<1>2. CASE Fresh
  <2>1. /\ Target = NewRoom /\ TargetId = lastRoom + 1 /\ lastRoom \in Nat
        /\ \A d \in ConnId : conn[d].room = 0 \/ conn[d].room \in 1..lastRoom
    BY <1>0, <1>2, PairTypes DEF Target, TargetId, BlankInv
  <2>2. /\ NewRoom.clients = {} /\ NewRoom.pending = << >> /\ ~NewRoom.reconnectEnabled
        /\ ~NewRoom.needsNewGeneration
        /\ \A o \in Role : NewRoom.slots[o] = 0 /\ ~NewRoom.tokens[o]
    BY DEF NewRoom
  <2>3. \A d \in ConnId : conn[d].room # TargetId
    BY <2>1
  <2>4. << >> \in Seq(Payload) /\ Len(<< >>) <= MaxPending /\ Senders(<< >>) = {}
    BY SendersOf, SignalConstants
  <2> HIDE DEF NewRoom
  <2> QED BY <1>1, <2>1, <2>2, <2>3, <2>4 DEF Unlocked, SoleClient, SoleSeat, SoleSender
<1>3. CASE ~Fresh
  <2> DEFINE R == room[rooms]
  <2>1. /\ Target = R /\ TargetId = rooms /\ rooms # 0 /\ rooms \in RoomId /\ ~R.locked
        /\ R.clients \subseteq ConnId /\ R.pending \in Seq(Payload)
    BY <1>0, <1>3, PairTypes DEF Target, TargetId, Fresh
  <2>2. PICK y \in ConnId : R.clients = {y} /\ Len(conn[y].queue) <= 1
    BY <2>1, <1>0 DEF SoloInv
  <2>3. /\ \A d \in ConnId : conn[d].room = rooms => d \in R.clients
        /\ Senders(R.pending) \subseteq R.clients
    BY <2>1, <1>0 DEF SoloInv
  <2>4. ~R.reconnectEnabled /\ ~R.needsNewGeneration
    BY <2>1, <1>0 DEF SeatInv
  <2>5. \A x \in R.clients : /\ conn[x].room = rooms /\ conn[x].generation = R.generation
                             /\ ~conn[x].closed /\ x <= lastConn
                             /\ conn[x].role \in Role => R.slots[conn[x].role] = x
    BY <2>1, <1>0 DEF SeatInv, MemberInv, AllocInv, OpenInv
  <2>6. \A o \in Role : R.slots[o] # 0 => R.slots[o] \in R.clients /\ conn[R.slots[o]].role = o
    BY <2>1, <1>0 DEF SeatInv
  <2>7. \A o \in Role : R.tokens[o] => R.slots[o] # 0 /\ conn[R.slots[o]].explicit
    BY <2>1, <2>4, <1>0 DEF TokenInv
  <2>8. Len(R.pending) <= MaxPending
    BY <2>1, <1>0 DEF BacklogInv
  <2> HIDE DEF R
  <2>9. SoleClient(rooms, R)
    <3>1. \A x \in R.clients : Len(conn[x].queue) <= 1
      BY <2>2
    <3>2. \E x \in ConnId : R.clients = {x}
      BY <2>2
    <3> QED BY <3>1, <3>2, <2>1, <2>3, <2>5 DEF SoleClient
  <2>10. SoleSeat(R)
    BY <2>4, <2>5, <2>6, <2>7 DEF SoleSeat
  <2>11. SoleSender(R)
    BY <2>1, <2>2, <2>3, <2>8 DEF SoleSender
  <2> QED BY <1>1, <2>1, <2>9, <2>10, <2>11 DEF Unlocked
<1> QED BY <1>2, <1>3

\* What a join of client c of endpoint e into room r, of content R, does: c
\* takes the role and client s, if there is one, the other role.  The registry:
SeatFrame(c, r) ==
    /\ c = lastConn + 1 /\ c \in ConnId /\ r \in RoomId /\ lastConn' = c
    /\ rooms' = r /\ lastRoom' = (IF Fresh THEN r ELSE lastRoom)
    /\ known' = known /\ evicted' = evicted
    /\ \A q \in RoomId : q # r => room'[q] = room[q] /\ pair'[q] = pair[q]

\* the room,
SeatRoom(e, c, r, R, role, s) ==
    /\ room'[r].clients = R.clients \cup {c} /\ room'[r].pending = R.pending
    /\ room'[r].generation = R.generation
    /\ room'[r].needsNewGeneration = R.needsNewGeneration
    /\ room'[r].locked <=> Cardinality(R.clients \cup {c}) = 2
    /\ \A o \in Role :
          room'[r].slots[o] = IF o = role THEN c ELSE IF s = 0 THEN R.slots[o] ELSE s
    /\ \A o \in Role :
          room'[r].tokens[o] <=> R.tokens[o] \/ (o = role /\ RoleOf[e] # "none")

\* its pair,
SeatPair(c, r, R) ==
    /\ room'[r].reconnectEnabled <=>
          /\ Cardinality(R.clients \cup {c}) = 2
          /\ \A o \in Role : room'[r].slots[o] # 0 /\ conn'[room'[r].slots[o]].explicit
    /\ room'[r].reconnectEnabled =>
          \A o \in Role : pair'[r][o] = {conn'[room'[r].slots[o]].endpoint}

\* the client,
SeatClient(e, c, r, R, role) ==
    /\ conn'[c].room = r /\ conn'[c].endpoint = e /\ conn'[c].role = role
    /\ conn'[c].explicit <=> RoleOf[e] # "none"
    /\ conn'[c].generation = R.generation /\ ~conn'[c].closed
    /\ Senders(conn'[c].queue) \subseteq Senders(R.pending)
    /\ Len(conn'[c].queue) <= 1 + Len(R.pending)

\* the other clients,
SeatOthers(c, R, role, s) ==
    \A x \in ConnId : x # c =>
        /\ conn'[x].room = conn[x].room /\ conn'[x].generation = conn[x].generation
        /\ conn'[x].endpoint = conn[x].endpoint /\ conn'[x].explicit = conn[x].explicit
        /\ conn'[x].role = IF x = s THEN Opposite(role) ELSE conn[x].role
        /\ Senders(conn'[x].queue) \subseteq Senders(conn[x].queue)
        /\ x \notin R.clients \cup Lapsing => conn'[x].queue = conn[x].queue
        /\ conn'[x].closed = (conn[x].closed \/ x \in Lapsing)

\* and how the role was chosen.
SeatRole(e, R, role, s) ==
    /\ s # 0 => s \in R.clients /\ conn[s].role = "none" /\ role \in Role
    /\ \A y \in R.clients : s # y =>
          /\ s = 0
          /\ \/ conn[y].role \in Role /\ role = Opposite(conn[y].role)
             \/ conn[y].role = "none" /\ role = "none"
    /\ role \in Role => R.slots[role] = 0
    /\ RoleOf[e] # "none" => role = RoleOf[e]
    /\ role \in Role \cup {"none"}

SeatEffect(e, c, r, R, role, s) ==
    /\ SeatFrame(c, r) /\ SeatRoom(e, c, r, R, role, s) /\ SeatPair(c, r, R)
    /\ SeatClient(e, c, r, R, role) /\ SeatOthers(c, R, role, s) /\ SeatRole(e, R, role, s)

\* How Enter leaves the room, and the pair when the roles are now both taken.
Entered(c, r, R, conns) ==
    /\ r \in RoomId /\ c \in ConnId /\ lastConn' = c
    /\ \A q \in RoomId : q # r => room'[q] = room[q] /\ pair'[q] = pair[q]
    /\ room'[r].clients = R.clients /\ room'[r].pending = R.pending
    /\ room'[r].generation = R.generation /\ room'[r].slots = R.slots
    /\ room'[r].tokens = R.tokens
    /\ room'[r].needsNewGeneration = R.needsNewGeneration
    /\ room'[r].locked <=> Cardinality(R.clients) = 2
    /\ room'[r].reconnectEnabled <=>
          Cardinality(R.clients) = 2 /\ TwoExplicitRoles(R.slots, conns)
    /\ room'[r].reconnectEnabled =>
          \A o \in Role : pair'[r][o] = {conns[R.slots[o]].endpoint}

LEMMA EnterEffect ==
    ASSUME TypeOK, NEW e, NEW c, NEW r, NEW R \in RoomRecord, NEW conns,
           Enter(e, c, r, R, conns), ~R.reconnectEnabled, ~R.locked
    PROVE  Entered(c, r, R, conns)
<1> DEFINE full == Cardinality(R.clients) = 2
           enabled == R.reconnectEnabled \/ (full /\ TwoExplicitRoles(R.slots, conns))
           locked == R.locked \/ full
           entered == [R EXCEPT !.locked = locked, !.reconnectEnabled = enabled]
           first == [role \in Role |-> Endpoint(R.slots[role], conns)]
<1>1. /\ r \in RoomId /\ c \in ConnId /\ lastConn' = c
      /\ room' = [room EXCEPT ![r] = entered]
      /\ pair' = IF enabled /\ ~R.reconnectEnabled THEN [pair EXCEPT ![r] = first] ELSE pair
  BY DEF Enter
<1>2. (enabled <=> full /\ TwoExplicitRoles(R.slots, conns)) /\ (locked <=> full)
  OBVIOUS
<1>3. enabled => \A o \in Role : first[o] = {conns[R.slots[o]].endpoint}
  BY <1>2 DEF TwoExplicitRoles, Endpoint
<1>4. room \in [RoomId -> RoomRecord] /\ DOMAIN pair = RoomId
  BY DEF TypeOK
<1> HIDE DEF enabled, locked, first
<1>5. /\ room'[r] = entered
      /\ \A q \in RoomId : q # r => room'[q] = room[q] /\ pair'[q] = pair[q]
      /\ enabled => pair'[r] = first
  <2> HIDE DEF entered
  <2> QED BY <1>1, <1>4
<1>6. /\ entered.clients = R.clients /\ entered.pending = R.pending
      /\ entered.generation = R.generation /\ entered.slots = R.slots
      /\ entered.tokens = R.tokens /\ entered.needsNewGeneration = R.needsNewGeneration
      /\ entered.locked = locked /\ entered.reconnectEnabled = enabled
  BY DEF RoomRecord
<1> HIDE DEF entered
<1>7. (room'[r].locked <=> locked) /\ (room'[r].reconnectEnabled <=> enabled)
  BY <1>5, <1>6
<1>8. (enabled <=> full /\ TwoExplicitRoles(R.slots, conns)) /\ (locked <=> full)
  BY <1>2 DEF enabled, locked
<1> QED BY <1>1, <1>3, <1>5, <1>6, <1>7, <1>8 DEF Entered

\* What expiry leaves alone.
LEMMA ExpireFields ==
    ASSUME TypeOK, NEW x \in ConnId
    PROVE  LET E == Expire(conn)[x] IN
           /\ E \in ConnRecord /\ E.room = conn[x].room /\ E.role = conn[x].role
           /\ E.generation = conn[x].generation /\ E.endpoint = conn[x].endpoint
           /\ E.explicit = conn[x].explicit /\ E.queue \in Seq(Payload)
           /\ Senders(E.queue) \subseteq Senders(conn[x].queue)
           /\ x \notin Lapsing => E.queue = conn[x].queue
           /\ E.closed = (conn[x].closed \/ x \in Lapsing)
<1> DEFINE E == Expire(conn)[x]
<1>1. conn[x] \in ConnRecord /\ conn[x].queue \in Seq(Payload)
  BY PairTypes
<1>2. E \in ConnRecord /\ E.queue \in Seq(Payload)
  BY ExpireType DEF ConnRecord
<1>3. CASE x \in Lapsing /\ ~conn[x].closed
  <2> DEFINE q == Offer(conn[x].queue, RoomExpired)
  <2>1. E = [conn[x] EXCEPT !.closed = TRUE, !.queue = q]
    BY <1>3 DEF Expire
  <2>2. Senders(q) \subseteq Senders(conn[x].queue)
    BY <1>1, SendersOf, NoSignal
  <2> HIDE DEF q
  <2>3. /\ E.room = conn[x].room /\ E.role = conn[x].role
        /\ E.generation = conn[x].generation /\ E.endpoint = conn[x].endpoint
        /\ E.explicit = conn[x].explicit /\ E.queue = q /\ E.closed = TRUE
    BY <2>1, <1>1 DEF ConnRecord
  <2> QED BY <1>2, <1>3, <2>2, <2>3
<1>4. CASE ~(x \in Lapsing /\ ~conn[x].closed)
  <2>1. E = conn[x] /\ conn[x].closed \in BOOLEAN
    BY <1>1, <1>4 DEF Expire, ConnRecord
  <2> QED BY <1>2, <1>4, <2>1
<1> QED BY <1>3, <1>4

LEMMA OppositeFacts ==
    \A a, b \in Role : Opposite(a) \in Role /\ Opposite(a) # a /\ (a # b => b = Opposite(a))
BY DEF Opposite, Role

\* A join with a role.
LEMMA JoinExplicitSeat ==
    ASSUME IInv, PInv, NEW e \in Endpoints, JoinExplicit(e)
    PROVE  \E s : SeatEffect(e, lastConn + 1, TargetId, Target, RoleOf[e], s)
<1> DEFINE r == TargetId
           R == Target
           c == lastConn + 1
           role == RoleOf[e]
           Slots(s) == Seat(R.slots, role, c, s)
           tokens == [R.tokens EXCEPT ![role] = TRUE]
           clients == R.clients \cup {c}
           Joined(s) == [R EXCEPT !.clients = clients, !.tokens = tokens, !.slots = Slots(s)]
           bare == [Expire(conn) EXCEPT ![c] = Client(e, r, role, R.generation, << >>)]
           supported(s) == \/ Cardinality(Joined(s).clients) < 2
                           \/ TwoExplicitRoles(Joined(s).slots, bare)
<1>0. TypeOK /\ BlankInv /\ MemberInv
  BY DEF IInv, PInv
<1>1. /\ role \in Role /\ ~R.locked /\ R.slots[role] = 0 /\ c \in ConnId /\ c = lastConn + 1
      /\ rooms' = r /\ lastRoom' = (IF Fresh THEN r ELSE lastRoom)
      /\ known' = known /\ evicted' = evicted
  BY DEF JoinExplicit
<1>2. Unlocked(r, R)
  BY <1>1, TargetFacts
<1>3. PICK s \in R.clients \cup {0} :
        /\ s # 0 => s \in R.clients /\ conn[s].role = "none"
        /\ s = 0 => \A x \in R.clients : conn[x].role # "none"
        /\ conn' = [x \in ConnId |->
               IF x = c THEN Client(e, r, role, R.generation, <<Ready(supported(s))>> \o R.pending)
               ELSE IF x = s THEN [bare[x] EXCEPT !.role = Opposite(role)]
               ELSE bare[x]]
        /\ Enter(e, c, r, Joined(s), bare)
  <2>1. 0 \notin R.clients
    BY <1>0, <1>2, PairTypes DEF Unlocked, SoleClient
  <2> QED BY <2>1 DEF JoinExplicit
<1> DEFINE slots == Slots(s)
           J == Joined(s)
<1>4. /\ R \in RoomRecord /\ R.clients \subseteq ConnId /\ R.pending \in Seq(Payload)
      /\ ~R.reconnectEnabled /\ (s = 0 \/ s \in ConnId) /\ 0 \notin ConnId
  BY <1>0, <1>2, <1>3, PairTypes DEF Unlocked, SoleClient, SoleSeat, SoleSender
<1>5. /\ \A o \in Role : slots[o] = IF o = role THEN c ELSE IF s = 0 THEN R.slots[o] ELSE s
      /\ \A o \in Role : tokens[o] <=> R.tokens[o] \/ o = role
      /\ \A o \in Role : slots[o] = 0 \/ slots[o] \in ConnId
  <2>1. \A o \in Role : slots[o] = IF o = role THEN c ELSE IF s = 0 THEN R.slots[o] ELSE s
    BY DEF Seat
  <2>2. \A o \in Role : tokens[o] <=> R.tokens[o] \/ o = role
    BY <1>1, <1>4 DEF RoomRecord
  <2>3. \A o \in Role : R.slots[o] = 0 \/ R.slots[o] \in ConnId
    BY <1>2, <1>4 DEF Unlocked, SoleSeat
  <2> HIDE DEF slots, R, c, role
  <2> QED BY <2>1, <2>2, <2>3, <1>1, <1>4
<1>6. /\ slots \in [Role -> 0..MaxConns] /\ tokens \in [Role -> BOOLEAN]
      /\ clients \in SUBSET ConnId
  <2>1. \A n : n = 0 \/ n \in ConnId => n \in 0..MaxConns
    BY SignalConstants DEF ConnId
  <2>2. slots = [o \in Role |-> slots[o]]
    BY DEF Seat
  <2>3. tokens \in [Role -> BOOLEAN] /\ clients \in SUBSET ConnId
    BY <1>1, <1>4 DEF RoomRecord
  <2> HIDE DEF slots
  <2> QED BY <2>1, <2>2, <2>3, <1>5
<1> HIDE DEF slots, tokens, clients, R, c, role, bare
<1>7. /\ J \in RoomRecord /\ J.clients = clients /\ J.tokens = tokens /\ J.slots = slots
      /\ J.pending = R.pending /\ J.generation = R.generation /\ J.locked = R.locked
      /\ J.needsNewGeneration = R.needsNewGeneration
      /\ J.reconnectEnabled = R.reconnectEnabled
  <2>1. J = [R EXCEPT !.clients = clients, !.tokens = tokens, !.slots = slots]
    BY DEF slots
  <2> HIDE DEF J
  <2> QED BY <1>4, <1>6, <2>1 DEF RoomRecord
<1>8. Enter(e, c, r, J, bare)
  BY <1>3
<1> HIDE DEF J
<1>9. /\ r \in RoomId /\ lastConn' = c
      /\ \A q \in RoomId : q # r => room'[q] = room[q] /\ pair'[q] = pair[q]
      /\ room'[r].clients = clients /\ room'[r].pending = R.pending
      /\ room'[r].generation = R.generation /\ room'[r].slots = slots
      /\ room'[r].tokens = tokens
      /\ room'[r].needsNewGeneration = R.needsNewGeneration
      /\ room'[r].locked <=> Cardinality(clients) = 2
      /\ room'[r].reconnectEnabled <=> Cardinality(clients) = 2 /\ TwoExplicitRoles(slots, bare)
      /\ room'[r].reconnectEnabled => \A o \in Role : pair'[r][o] = {bare[slots[o]].endpoint}
  <2>1. ~J.reconnectEnabled /\ ~J.locked
    BY <1>1, <1>4, <1>7
  <2>2. Entered(c, r, J, bare)
    BY <2>1, <1>0, <1>7, <1>8, EnterEffect
  <2> QED BY <2>2, <1>7 DEF Entered
<1> DEFINE q == <<Ready(supported(s))>> \o R.pending
           g == R.generation
<1>10. /\ Senders(q) \subseteq Senders(R.pending) /\ Len(q) = 1 + Len(R.pending)
  <2> DEFINE b == supported(s)
  <2> HIDE DEF b
  <2>1. <<Ready(b)>> \in Seq(Payload) /\ Len(<<Ready(b)>>) = 1
    BY ReadyType
  <2>2. Len(<<Ready(b)>> \o R.pending) = 1 + Len(R.pending)
    BY <2>1, <1>4, ConcatProperties
  <2> QED BY <2>2, <1>4, SendersOf DEF b
<1>11. /\ conn'[c] = Client(e, r, role, g, q) /\ bare[c] = Client(e, r, role, g, << >>)
       /\ \A x \in ConnId : x # c => /\ bare[x] = Expire(conn)[x]
                                     /\ conn'[x] = IF x = s THEN [bare[x] EXCEPT !.role = Opposite(role)]
                                                   ELSE bare[x]
  <2>1. Expire(conn) \in [ConnId -> ConnRecord]
    BY <1>0, ExpireType
  <2>2. bare[c] = Client(e, r, role, g, << >>) /\ \A x \in ConnId : x # c => bare[x] = Expire(conn)[x]
    BY <2>1, <1>1 DEF bare
  <2> HIDE DEF g, q
  <2> QED BY <2>2, <1>1, <1>3 DEF g, q
<1> HIDE DEF q, g
<1>12. /\ conn'[c].room = r /\ conn'[c].endpoint = e /\ conn'[c].role = role
       /\ conn'[c].explicit <=> RoleOf[e] # "none"
       /\ conn'[c].generation = g /\ ~conn'[c].closed /\ conn'[c].queue = q
       /\ bare[c].endpoint = e /\ (bare[c].explicit <=> RoleOf[e] # "none")
  BY <1>11, ClientFields
<1>13. ASSUME NEW x \in ConnId, x # c
       PROVE  /\ conn'[x].room = conn[x].room /\ conn'[x].generation = conn[x].generation
              /\ conn'[x].endpoint = conn[x].endpoint /\ conn'[x].explicit = conn[x].explicit
              /\ bare[x].endpoint = conn[x].endpoint /\ bare[x].explicit = conn[x].explicit
              /\ conn'[x].role = IF x = s THEN Opposite(role) ELSE conn[x].role
              /\ Senders(conn'[x].queue) \subseteq Senders(conn[x].queue)
              /\ x \notin R.clients \cup Lapsing => conn'[x].queue = conn[x].queue
              /\ conn'[x].closed = (conn[x].closed \/ x \in Lapsing)
  <2> DEFINE E == bare[x]
  <2>1. /\ E \in ConnRecord /\ E.room = conn[x].room /\ E.role = conn[x].role
        /\ E.generation = conn[x].generation /\ E.endpoint = conn[x].endpoint
        /\ E.explicit = conn[x].explicit
        /\ Senders(E.queue) \subseteq Senders(conn[x].queue)
        /\ x \notin Lapsing => E.queue = conn[x].queue
        /\ E.closed = (conn[x].closed \/ x \in Lapsing)
    BY <1>0, <1>11, <1>13, ExpireFields
  <2>2. conn'[x] = IF x = s THEN [E EXCEPT !.role = Opposite(role)] ELSE E
    BY <1>11, <1>13
  <2> HIDE DEF E
  <2>3. /\ conn'[x].room = E.room /\ conn'[x].generation = E.generation
        /\ conn'[x].endpoint = E.endpoint /\ conn'[x].explicit = E.explicit
        /\ conn'[x].queue = E.queue /\ conn'[x].closed = E.closed
        /\ conn'[x].role = IF x = s THEN Opposite(role) ELSE E.role
    BY <2>1, <2>2 DEF ConnRecord
  <2> QED BY <2>1, <2>3 DEF E
<1>14. \A y \in R.clients : s # y =>
          /\ s = 0
          /\ \/ conn[y].role \in Role /\ role = Opposite(conn[y].role)
             \/ conn[y].role = "none" /\ role = "none"
  <2> SUFFICES ASSUME NEW y \in R.clients, s # y
               PROVE  s = 0 /\ conn[y].role \in Role /\ role = Opposite(conn[y].role)
    OBVIOUS
  <2>1. s = 0
    BY <1>2, <1>3 DEF Unlocked, SoleClient
  <2>2. conn[y].role \in Role /\ y \in ConnId /\ y # 0
    BY <2>1, <1>0, <1>3, <1>4, PairTypes
  <2>3. R.slots[conn[y].role] = y
    BY <2>2, <1>2 DEF Unlocked, SoleSeat
  <2> QED BY <2>1, <2>2, <2>3, <1>1, OppositeFacts
<1>15. /\ TwoExplicitRoles(slots, bare) <=>
              \A o \in Role : slots[o] # 0 /\ conn'[slots[o]].explicit
       /\ TwoExplicitRoles(slots, bare) =>
              \A o \in Role : bare[slots[o]].endpoint = conn'[slots[o]].endpoint
  <2>1. \A x \in ConnId : /\ bare[x].explicit <=> conn'[x].explicit
                          /\ bare[x].endpoint = conn'[x].endpoint
    BY <1>12, <1>13
  <2> QED BY <2>1, <1>5 DEF TwoExplicitRoles
<1>16. role # "none" /\ role = RoleOf[e]
  BY <1>0, <1>1, PairTypes DEF role
<1>17. SeatFrame(c, r)
  BY <1>1, <1>9 DEF SeatFrame
<1>18. SeatRoom(e, c, r, R, role, s)
  BY <1>5, <1>9, <1>16 DEF SeatRoom, clients
<1>19. SeatPair(c, r, R)
  BY <1>9, <1>15 DEF SeatPair, clients
<1>20. SeatClient(e, c, r, R, role)
  BY <1>10, <1>12 DEF SeatClient, g
<1>21. SeatOthers(c, R, role, s)
  BY <1>13 DEF SeatOthers
<1>22. SeatRole(e, R, role, s)
  BY <1>1, <1>3, <1>14, <1>16 DEF SeatRole
<1>23. SeatEffect(e, c, r, R, role, s)
  BY <1>17, <1>18, <1>19, <1>20, <1>21, <1>22 DEF SeatEffect
<1> QED BY <1>23 DEF c, R, role

\* A join without a role: the other client's opposite, if that one has a role.
LEMMA JoinLegacySeat ==
    ASSUME IInv, PInv, NEW e \in Endpoints, JoinLegacy(e)
    PROVE  \E role : SeatEffect(e, lastConn + 1, TargetId, Target, role, 0)
<1> DEFINE r == TargetId
           R == Target
           c == lastConn + 1
           takenRoles == {conn[x].role : x \in R.clients} \ {"none"}
           role == IF takenRoles = {} THEN "none"
                   ELSE Opposite(CHOOSE taken \in takenRoles : TRUE)
           slots == [o \in Role |-> IF o = role THEN c ELSE R.slots[o]]
           clients == R.clients \cup {c}
           Joined == [R EXCEPT !.clients = clients, !.slots = slots]
           bare == [Expire(conn) EXCEPT ![c] = Client(e, r, role, R.generation, R.pending)]
<1>0. TypeOK /\ BlankInv /\ MemberInv
  BY DEF IInv, PInv
<1>1. /\ RoleOf[e] = "none" /\ ~R.locked /\ c \in ConnId /\ c = lastConn + 1
      /\ rooms' = r /\ lastRoom' = (IF Fresh THEN r ELSE lastRoom)
      /\ known' = known /\ evicted' = evicted
      /\ conn' = [x \in ConnId |->
           IF x \in R.clients /\ conn[x].explicit
           THEN [bare[x] EXCEPT !.queue = Append(@, Ready(FALSE))]
           ELSE bare[x]]
      /\ Enter(e, c, r, Joined, bare)
  BY DEF JoinLegacy
<1>2. Unlocked(r, R)
  BY <1>1, TargetFacts
<1>3. /\ R \in RoomRecord /\ R.clients \subseteq ConnId /\ R.pending \in Seq(Payload)
      /\ ~R.reconnectEnabled /\ 0 \notin ConnId /\ "none" \notin Role
      /\ \A y \in R.clients : conn[y].role \in Role \cup {"none"} /\ y <= lastConn
      /\ \A o \in Role : R.slots[o] = 0 \/ R.slots[o] \in ConnId
  BY <1>0, <1>2, PairTypes DEF Unlocked, SoleClient, SoleSeat, SoleSender
<1> DEFINE Chosen ==
             /\ role \in Role \cup {"none"}
             /\ \A y \in R.clients : \/ conn[y].role \in Role /\ role = Opposite(conn[y].role)
                                     \/ conn[y].role = "none" /\ role = "none"
             /\ role \in Role => R.slots[role] = 0
<1>4. Chosen
  <2>1. CASE R.clients = {}
    <3>1. role = "none"
      BY <2>1
    <3> QED BY <2>1, <3>1, <1>3
  <2>2. ASSUME NEW y \in ConnId, R.clients = {y} PROVE Chosen
    <3>1. CASE conn[y].role = "none"
      <4>1. role = "none"
        BY <2>2, <3>1
      <4> QED BY <2>2, <3>1, <4>1, <1>3
    <3>2. CASE conn[y].role # "none"
      <4>1. conn[y].role \in Role
        BY <2>2, <3>2, <1>3
      <4>2. takenRoles = {conn[y].role}
        BY <2>2, <3>2
      <4>3. role = Opposite(conn[y].role)
        BY <4>2
      <4> HIDE DEF role
      <4>4. role \in Role /\ role # conn[y].role
        BY <4>1, <4>3, OppositeFacts
      <4>5. R.slots[role] = 0
        BY <2>2, <4>4, <1>2 DEF Unlocked, SoleSeat
      <4> QED BY <2>2, <4>1, <4>3, <4>4, <4>5
    <3> QED BY <3>1, <3>2
  <2> QED BY <2>1, <2>2, <1>2 DEF Unlocked, SoleClient
<1> HIDE DEF role
<1>5. \A o \in Role : /\ slots[o] = (IF o = role THEN c ELSE R.slots[o])
                      /\ slots[o] = 0 \/ slots[o] \in ConnId
  <2> HIDE DEF R, c
  <2> QED BY <1>1, <1>3
<1>6. slots \in [Role -> 0..MaxConns] /\ clients \in SUBSET ConnId
  <2>1. \A n : n = 0 \/ n \in ConnId => n \in 0..MaxConns
    BY SignalConstants DEF ConnId
  <2>2. slots = [o \in Role |-> slots[o]]
    OBVIOUS
  <2>3. clients \in SUBSET ConnId
    BY <1>1, <1>3
  <2> HIDE DEF slots
  <2> QED BY <2>1, <2>2, <2>3, <1>5
<1> DEFINE J == Joined
<1> HIDE DEF slots, clients, R, c, bare
<1>7. /\ J \in RoomRecord /\ J.clients = clients /\ J.tokens = R.tokens /\ J.slots = slots
      /\ J.pending = R.pending /\ J.generation = R.generation /\ J.locked = R.locked
      /\ J.needsNewGeneration = R.needsNewGeneration
      /\ J.reconnectEnabled = R.reconnectEnabled
  BY <1>3, <1>6 DEF RoomRecord
<1>8. Enter(e, c, r, J, bare)
  BY <1>1
<1> HIDE DEF J
<1>9. /\ r \in RoomId /\ lastConn' = c
      /\ \A q \in RoomId : q # r => room'[q] = room[q] /\ pair'[q] = pair[q]
      /\ room'[r].clients = clients /\ room'[r].pending = R.pending
      /\ room'[r].generation = R.generation /\ room'[r].slots = slots
      /\ room'[r].tokens = R.tokens
      /\ room'[r].needsNewGeneration = R.needsNewGeneration
      /\ room'[r].locked <=> Cardinality(clients) = 2
      /\ room'[r].reconnectEnabled <=> Cardinality(clients) = 2 /\ TwoExplicitRoles(slots, bare)
      /\ room'[r].reconnectEnabled => \A o \in Role : pair'[r][o] = {bare[slots[o]].endpoint}
  <2>1. ~J.reconnectEnabled /\ ~J.locked
    BY <1>1, <1>3, <1>7
  <2>2. Entered(c, r, J, bare)
    BY <2>1, <1>0, <1>7, <1>8, EnterEffect
  <2> QED BY <2>2, <1>7 DEF Entered
<1> DEFINE q == R.pending
           g == R.generation
<1>10. c \notin R.clients
  <2>1. c > lastConn /\ lastConn \in Nat
    BY <1>0, <1>1, PairTypes
  <2> QED BY <2>1, <1>0, <1>1, <1>3, PairTypes
<1>11. /\ conn'[c] = Client(e, r, role, g, q) /\ bare[c] = Client(e, r, role, g, q)
       /\ \A x \in ConnId : x # c =>
             /\ bare[x] = Expire(conn)[x]
             /\ conn'[x] = IF x \in R.clients /\ conn[x].explicit
                           THEN [bare[x] EXCEPT !.queue = Append(bare[x].queue, Ready(FALSE))]
                           ELSE bare[x]
  <2>1. Expire(conn) \in [ConnId -> ConnRecord]
    BY <1>0, ExpireType
  <2>2. bare[c] = Client(e, r, role, g, q) /\ \A x \in ConnId : x # c => bare[x] = Expire(conn)[x]
    BY <2>1, <1>1 DEF bare
  <2> HIDE DEF g, q
  <2> QED BY <2>2, <1>1, <1>10
<1> HIDE DEF q, g
<1>12. /\ conn'[c].room = r /\ conn'[c].endpoint = e /\ conn'[c].role = role
       /\ conn'[c].explicit <=> RoleOf[e] # "none"
       /\ conn'[c].generation = g /\ ~conn'[c].closed /\ conn'[c].queue = q
       /\ bare[c].endpoint = e /\ (bare[c].explicit <=> RoleOf[e] # "none")
  BY <1>11, ClientFields
<1>13. ASSUME NEW x \in ConnId, x # c
       PROVE  /\ conn'[x].room = conn[x].room /\ conn'[x].generation = conn[x].generation
              /\ conn'[x].endpoint = conn[x].endpoint /\ conn'[x].explicit = conn[x].explicit
              /\ bare[x].endpoint = conn[x].endpoint /\ bare[x].explicit = conn[x].explicit
              /\ conn'[x].role = conn[x].role
              /\ Senders(conn'[x].queue) \subseteq Senders(conn[x].queue)
              /\ x \notin R.clients \cup Lapsing => conn'[x].queue = conn[x].queue
              /\ conn'[x].closed = (conn[x].closed \/ x \in Lapsing)
  <2> DEFINE E == bare[x]
             told == Append(E.queue, Ready(FALSE))
  <2>1. /\ E \in ConnRecord /\ E.room = conn[x].room /\ E.role = conn[x].role
        /\ E.generation = conn[x].generation /\ E.endpoint = conn[x].endpoint
        /\ E.explicit = conn[x].explicit /\ E.queue \in Seq(Payload)
        /\ Senders(E.queue) \subseteq Senders(conn[x].queue)
        /\ x \notin Lapsing => E.queue = conn[x].queue
        /\ E.closed = (conn[x].closed \/ x \in Lapsing)
    BY <1>0, <1>11, <1>13, ExpireFields
  <2>2. conn'[x] = IF x \in R.clients /\ conn[x].explicit THEN [E EXCEPT !.queue = told] ELSE E
    BY <1>11, <1>13
  <2> HIDE DEF E
  <2>3. Senders(told) \subseteq Senders(E.queue)
    BY <2>1, SendersOf, NoSignal
  <2> HIDE DEF told
  <2>4. /\ conn'[x].room = E.room /\ conn'[x].generation = E.generation
        /\ conn'[x].endpoint = E.endpoint /\ conn'[x].explicit = E.explicit
        /\ conn'[x].closed = E.closed /\ conn'[x].role = E.role
        /\ conn'[x].queue = IF x \in R.clients /\ conn[x].explicit THEN told ELSE E.queue
    BY <2>1, <2>2 DEF ConnRecord
  <2> QED BY <2>1, <2>3, <2>4 DEF E
<1>14. /\ TwoExplicitRoles(slots, bare) <=>
              \A o \in Role : slots[o] # 0 /\ conn'[slots[o]].explicit
       /\ TwoExplicitRoles(slots, bare) =>
              \A o \in Role : bare[slots[o]].endpoint = conn'[slots[o]].endpoint
  <2>1. \A x \in ConnId : /\ bare[x].explicit <=> conn'[x].explicit
                          /\ bare[x].endpoint = conn'[x].endpoint
    BY <1>12, <1>13
  <2> QED BY <2>1, <1>5 DEF TwoExplicitRoles
<1>15. SeatFrame(c, r)
  BY <1>1, <1>9 DEF SeatFrame
<1>16. SeatRoom(e, c, r, R, role, 0)
  <2>1. \A o \in Role : room'[r].tokens[o] <=> R.tokens[o] \/ (o = role /\ RoleOf[e] # "none")
    BY <1>1, <1>9
  <2>2. \A o \in Role : room'[r].slots[o] = (IF o = role THEN c ELSE R.slots[o])
    BY <1>5, <1>9
  <2> QED BY <2>1, <2>2, <1>9 DEF SeatRoom, clients
<1>17. SeatPair(c, r, R)
  BY <1>9, <1>14 DEF SeatPair, clients
<1>18. SeatClient(e, c, r, R, role)
  <2>1. Len(q) <= 1 + Len(q)
    BY <1>3 DEF q
  <2> QED BY <2>1, <1>12 DEF SeatClient, g, q
<1>19. SeatOthers(c, R, role, 0)
  BY <1>3, <1>13 DEF SeatOthers
<1>20. SeatRole(e, R, role, 0)
  BY <1>1, <1>4 DEF SeatRole
<1>21. SeatEffect(e, c, r, R, role, 0)
  BY <1>15, <1>16, <1>17, <1>18, <1>19, <1>20 DEF SeatEffect
<1> QED BY <1>21 DEF c, R

\* A join of either kind.
LEMMA SeatPreserves ==
    ASSUME IInv, PInv, NEW e \in Endpoints, NEW c, NEW r, NEW R, NEW role, NEW s,
           r = TargetId, R = Target, Unlocked(r, R), SeatEffect(e, c, r, R, role, s)
    PROVE  PInv'
<1>0. /\ TypeOK /\ BlankInv /\ SeatInv /\ PairInv /\ QueueInv
      /\ OpenClientIsRegistered /\ MemberInv /\ AllocInv /\ AskedInv
  BY DEF IInv, PInv
<1>1. /\ R \in RoomRecord /\ SoleClient(r, R) /\ SoleSeat(R) /\ SoleSender(R)
      /\ SeatFrame(c, r) /\ SeatRoom(e, c, r, R, role, s) /\ SeatPair(c, r, R)
      /\ SeatClient(e, c, r, R, role) /\ SeatOthers(c, R, role, s) /\ SeatRole(e, R, role, s)
  BY DEF Unlocked, SeatEffect
<1>2. /\ c \in ConnId /\ c = lastConn + 1 /\ lastConn \in Nat /\ r \in RoomId /\ r # 0 /\ c # 0
      /\ lastRoom \in Nat /\ 0 \notin ConnId /\ "none" \notin Role /\ R.clients \subseteq ConnId
      /\ lastConn' = c /\ rooms' = r /\ lastRoom' = (IF Fresh THEN r ELSE lastRoom)
      /\ known' = known /\ evicted' = evicted
      /\ \A q \in RoomId : q # r => room'[q] = room[q] /\ pair'[q] = pair[q]
  BY <1>0, <1>1, PairTypes DEF SeatFrame, SoleClient
<1>3. /\ conn[c].room = 0 /\ conn[c].queue = << >> /\ c \notin R.clients /\ c \notin Lapsing
      /\ \A q \in RoomId : c \notin room[q].clients /\ room[q].clients \subseteq ConnId
  <2>1. c > lastConn
    BY <1>2
  <2>2. conn[c].room = 0 /\ conn[c].queue = << >>
    BY <2>1, <1>0, <1>2 DEF BlankInv
  <2>3. \A q \in RoomId : c \notin room[q].clients /\ room[q].clients \subseteq ConnId
    BY <2>2, <1>0, PairTypes DEF MemberInv
  <2>4. c \notin R.clients
    BY <2>2, <1>1, <1>2 DEF SoleClient
  <2>5. c \notin Lapsing
    BY <2>3, <1>0, PairTypes DEF Lapsing, Lapsed
  <2> QED BY <2>2, <2>3, <2>4, <2>5
<1>4. (Fresh => r = lastRoom + 1) /\ (~Fresh => r = rooms /\ R = room[rooms] /\ rooms # 0)
  BY <1>0, <1>2, TargetIdType DEF Target
<1>5. ASSUME NEW y \in R.clients PROVE R.clients = {y} /\ (s = 0 \/ s = y)
  BY <1>1 DEF SoleClient, SeatRole
<1>6. ASSUME NEW x \in ConnId, x # c, x # s PROVE Stays(x)
  BY <1>1, <1>6 DEF SeatOthers, Stays
<1>7. s = 0 \/ s \in R.clients
  BY <1>1 DEF SeatRole
<1> DEFINE slots == room'[r].slots
           clients == R.clients \cup {c}
<1>8. \A o \in Role : /\ slots[o] = (IF o = role THEN c ELSE IF s = 0 THEN R.slots[o] ELSE s)
                      /\ slots[o] # 0 => slots[o] \in clients /\ conn'[slots[o]].role = o
  <2> SUFFICES ASSUME NEW o \in Role
               PROVE  /\ slots[o] = (IF o = role THEN c ELSE IF s = 0 THEN R.slots[o] ELSE s)
                      /\ slots[o] # 0 => slots[o] \in clients /\ conn'[slots[o]].role = o
    OBVIOUS
  <2>1. slots[o] = (IF o = role THEN c ELSE IF s = 0 THEN R.slots[o] ELSE s)
    BY <1>1 DEF SeatRoom
  <2> HIDE DEF slots
  <2>2. CASE o = role
    BY <2>1, <2>2, <1>1 DEF SeatClient
  <2>3. CASE o # role /\ s # 0
    <3>1. s \in R.clients /\ role \in Role /\ s \in ConnId /\ s # c
      BY <2>3, <1>1, <1>2, <1>3 DEF SeatRole
    <3>2. conn'[s].role = Opposite(role) /\ Opposite(role) = o
      BY <2>3, <3>1, <1>1, OppositeFacts DEF SeatOthers
    <3> QED BY <2>1, <2>3, <3>1, <3>2
  <2>4. CASE o # role /\ s = 0 /\ R.slots[o] # 0
    <3>1. R.slots[o] \in R.clients /\ conn[R.slots[o]].role = o
      BY <2>4, <1>1 DEF SoleSeat
    <3>2. R.slots[o] \in ConnId /\ R.slots[o] # c
      BY <3>1, <1>2, <1>3
    <3>3. conn'[R.slots[o]].role = o
      BY <2>4, <3>1, <3>2, <1>6 DEF Stays
    <3> QED BY <2>1, <2>4, <3>1, <3>3
  <2> QED BY <2>1, <2>2, <2>3, <2>4
<1>9. /\ room'[r].clients = clients /\ room'[r].pending = R.pending
      /\ room'[r].generation = R.generation /\ ~room'[r].needsNewGeneration
      /\ room'[r].locked <=> Cardinality(clients) = 2
      /\ \A o \in Role : room'[r].tokens[o] <=> R.tokens[o] \/ (o = role /\ RoleOf[e] # "none")
      /\ room'[r].reconnectEnabled <=>
            Cardinality(clients) = 2 /\ \A o \in Role : slots[o] # 0 /\ conn'[slots[o]].explicit
      /\ room'[r].reconnectEnabled => \A o \in Role : pair'[r][o] = {conn'[slots[o]].endpoint}
  <2>1. ~R.needsNewGeneration
    BY <1>1 DEF SoleSeat
  <2>2. /\ room'[r].clients = clients /\ room'[r].pending = R.pending
        /\ room'[r].generation = R.generation
        /\ room'[r].needsNewGeneration = R.needsNewGeneration
        /\ room'[r].locked <=> Cardinality(clients) = 2
        /\ \A o \in Role : room'[r].tokens[o] <=> R.tokens[o] \/ (o = role /\ RoleOf[e] # "none")
    BY <1>1 DEF SeatRoom
  <2>3. /\ room'[r].reconnectEnabled <=>
              Cardinality(clients) = 2 /\ \A o \in Role : slots[o] # 0 /\ conn'[slots[o]].explicit
        /\ room'[r].reconnectEnabled => \A o \in Role : pair'[r][o] = {conn'[slots[o]].endpoint}
    BY <1>1 DEF SeatPair
  <2> QED BY <2>1, <2>2, <2>3
<1>10. \/ clients = {c} /\ R.clients = {} /\ Cardinality(clients) = 1
       \/ \E y \in R.clients : clients = {y, c} /\ y # c /\ Cardinality(clients) = 2
  <2>1. CASE R.clients = {}
    BY <2>1, FS_Singleton
  <2>2. ASSUME NEW y \in R.clients PROVE clients = {y, c} /\ y # c /\ Cardinality(clients) = 2
    <3>1. R.clients = {y} /\ y # c
      BY <2>2, <1>3, <1>5
    <3>2. IsFiniteSet({y}) /\ Cardinality({y}) = 1
      BY FS_Singleton
    <3>3. Cardinality({y} \cup {c}) = Cardinality({y}) + 1
      BY <3>1, <3>2, FS_AddElement
    <3> QED BY <3>1, <3>2, <3>3
  <2> QED BY <2>1, <2>2
<1> HIDE DEF slots, clients
<1>11. \A o \in Role : room'[r].tokens[o] => slots[o] # 0 /\ conn'[slots[o]].explicit
  <2> SUFFICES ASSUME NEW o \in Role, room'[r].tokens[o]
               PROVE  slots[o] # 0 /\ conn'[slots[o]].explicit
    OBVIOUS
  <2>1. CASE o = role /\ RoleOf[e] # "none"
    BY <2>1, <1>1, <1>2, <1>8 DEF SeatClient
  <2>2. CASE R.tokens[o] /\ ~(o = role /\ RoleOf[e] # "none")
    <3>1. R.slots[o] # 0 /\ conn[R.slots[o]].explicit /\ R.slots[o] \in R.clients
          /\ conn[R.slots[o]].role = o
      BY <2>2, <1>1 DEF SoleSeat
    <3>2. o # role
      BY <3>1, <1>1 DEF SeatRole
    <3>3. s = 0
      <4> SUFFICES ASSUME s # 0 PROVE FALSE
        OBVIOUS
      <4>1. s = R.slots[o]
        BY <3>1, <1>5
      <4> QED BY <3>1, <4>1, <1>1, <1>2 DEF SeatRole
    <3>4. slots[o] = R.slots[o]
      BY <3>2, <3>3, <1>8
    <3>5. R.slots[o] \in ConnId /\ R.slots[o] # c /\ R.slots[o] # s
      BY <3>1, <3>3, <1>2, <1>3
    <3>6. conn'[R.slots[o]].explicit
      BY <3>1, <3>5, <1>6 DEF Stays
    <3> QED BY <3>1, <3>4, <3>6
  <2> QED BY <2>1, <2>2, <1>9
<1>12. ASSUME \A o \in Role : slots[o] # 0
       PROVE  Cardinality(clients) = 2 /\ \A x \in clients : \E o \in Role : x = slots[o]
  <2>1. \A o \in Role : slots[o] \in clients /\ conn'[slots[o]].role = o
    BY <1>8, <1>12
  <2>2. slots["sender"] # slots["receiver"] /\ "sender" \in Role /\ "receiver" \in Role
    BY <2>1 DEF Role
  <2> QED BY <2>1, <2>2, <1>10
<1>13. SeatInv'
  <2> SUFFICES ASSUME NEW q \in RoomId
               PROVE  /\ \A x \in room'[q].clients :
                            /\ conn'[x].generation = room'[q].generation
                            /\ conn'[x].role \in Role => room'[q].slots[conn'[x].role] = x
                      /\ \A o \in Role : room'[q].slots[o] # 0 =>
                            /\ room'[q].slots[o] \in room'[q].clients
                            /\ conn'[room'[q].slots[o]].role = o
                      /\ room'[q].reconnectEnabled \/ room'[q].needsNewGeneration => room'[q].locked
    BY DEF SeatInv
  <2>1. CASE q # r
    <3>1. room'[q] = room[q]
      BY <2>1, <1>2
    <3>2. \A x \in room[q].clients : x \in ConnId /\ x # c /\ x # s
      <4>1. \A x \in room[q].clients : x \in ConnId /\ x # c /\ conn[x].room = q
        BY <1>0, <1>3 DEF MemberInv
      <4>2. s = 0 \/ conn[s].room = r
        BY <1>1, <1>7 DEF SoleClient
      <4> QED BY <4>1, <4>2, <2>1, <1>2
    <3>3. \A x \in room[q].clients : Stays(x)
      BY <3>2, <1>6
    <3> QED BY <3>1, <3>3, <1>0 DEF SeatInv, Stays
  <2>2. CASE q = r
    <3>1. ASSUME NEW x \in clients
          PROVE  /\ conn'[x].generation = R.generation
                 /\ conn'[x].role \in Role => slots[conn'[x].role] = x
      <4>1. CASE x = c
        BY <4>1, <1>1, <1>8 DEF SeatClient
      <4>2. CASE x # c
        <5>1. x \in R.clients /\ x \in ConnId /\ conn[x].generation = R.generation
          BY <3>1, <4>2, <1>1, <1>2 DEF clients, SoleClient
        <5>2. conn'[x].generation = R.generation
          BY <4>2, <5>1, <1>1 DEF SeatOthers
        <5>3. CASE x = s
          <6>1. role \in Role /\ conn'[x].role = Opposite(role) /\ s # 0
            BY <4>2, <5>1, <5>3, <1>1, <1>2 DEF SeatRole, SeatOthers
          <6>2. Opposite(role) \in Role /\ Opposite(role) # role
            BY <6>1, OppositeFacts
          <6> QED BY <5>2, <5>3, <6>1, <6>2, <1>8
        <5>4. CASE x # s
          <6>1. /\ s = 0 /\ conn'[x].role = conn[x].role
                /\ \/ conn[x].role \in Role /\ role = Opposite(conn[x].role)
                   \/ conn[x].role = "none" /\ role = "none"
            BY <4>2, <5>1, <5>4, <1>1, <1>6 DEF SeatRole, Stays
          <6>2. conn[x].role \in Role => R.slots[conn[x].role] = x /\ conn[x].role # role
            BY <5>1, <6>1, <1>1, <1>2, OppositeFacts DEF SoleSeat
          <6> QED BY <5>2, <6>1, <6>2, <1>8
        <5> QED BY <5>3, <5>4
      <4> QED BY <4>1, <4>2
    <3> QED BY <2>2, <3>1, <1>8, <1>9 DEF slots
  <2> QED BY <2>1, <2>2
<1>14. BlankInv'
  <2>1. ASSUME NEW x \in ConnId
        PROVE  IF x > lastConn' THEN conn'[x].room = 0 /\ conn'[x].queue = << >>
               ELSE conn'[x].room \in 1..lastRoom'
    <3>0. lastRoom <= lastRoom' /\ r \in 1..lastRoom' /\ lastRoom' \in Nat
      <4>1. ~Fresh => r <= lastRoom
        BY <1>0, <1>4 DEF AllocInv
      <4> QED BY <4>1, <1>0, <1>2, <1>4, PairTypes DEF RoomId
    <3>1. CASE x = c
      <4>1. ~(c > c)
        BY <1>2
      <4> QED BY <3>0, <3>1, <4>1, <1>1, <1>2 DEF SeatClient
    <3>2. CASE x # c
      <4>1. (x > c <=> x > lastConn) /\ conn'[x].room = conn[x].room
        BY <3>2, <1>0, <1>1, <1>2, PairTypes DEF SeatOthers
      <4>2. CASE x > lastConn
        <5>1. conn[x].room = 0 /\ conn[x].queue = << >>
          BY <4>2, <1>0 DEF BlankInv
        <5>2. x \notin R.clients /\ x \notin Lapsing
          <6>1. \A q \in RoomId : x \notin room[q].clients
            BY <5>1, <1>0, PairTypes DEF MemberInv
          <6> QED BY <5>1, <6>1, <1>0, <1>1, <1>2, PairTypes DEF SoleClient, Lapsing, Lapsed
        <5>3. conn'[x].queue = << >>
          BY <3>2, <5>1, <5>2, <1>1 DEF SeatOthers
        <5> QED BY <4>1, <4>2, <5>1, <5>3, <1>2
      <4>3. CASE ~(x > lastConn)
        <5>1. conn[x].room \in 1..lastRoom
          BY <4>3, <1>0 DEF BlankInv
        <5> QED BY <3>0, <4>1, <4>3, <5>1, <1>2
      <4> QED BY <4>2, <4>3
    <3> QED BY <3>1, <3>2
  <2>2. ASSUME NEW q \in RoomId, q > lastRoom' PROVE ~room'[q].reconnectEnabled
    <3>1. q # r /\ q > lastRoom
      BY <2>2, <1>0, <1>2, <1>4, PairTypes DEF AllocInv
    <3> QED BY <3>1, <1>0, <1>2 DEF BlankInv
  <2> QED BY <2>1, <2>2 DEF BlankInv
<1>15. AskedInv'
  <2> SUFFICES ASSUME NEW x \in ConnId, conn'[x].explicit
               PROVE  conn'[x].role \in Role /\ conn'[x].role = RoleOf[conn'[x].endpoint]
    BY DEF AskedInv
  <2>1. CASE x = c
    <3>1. RoleOf[e] # "none" /\ conn'[x].role = role /\ conn'[x].endpoint = e
      BY <2>1, <1>1 DEF SeatClient
    <3> QED BY <3>1, <1>1 DEF SeatRole
  <2>2. CASE x # c /\ x # s
    BY <2>2, <1>0, <1>6 DEF AskedInv, Stays
  <2>3. CASE x # c /\ x = s
    <3>1. conn[x].explicit /\ conn[x].role = "none"
      BY <2>3, <1>1, <1>2 DEF SeatOthers, SeatRole
    <3> QED BY <3>1, <1>0, <1>2 DEF AskedInv
  <2> QED BY <2>1, <2>2, <2>3
<1>16. \A x \in ConnId : conn'[x].room = r => x \in clients
  BY <1>1 DEF SeatOthers, SoleClient, clients
<1>17. SoloInv'
  <2> SUFFICES ASSUME ~room'[r].locked
               PROVE  /\ \E x \in ConnId : room'[r].clients = {x} /\ Len(conn'[x].queue) <= 1
                      /\ \A x \in ConnId : conn'[x].room = r => x \in room'[r].clients
                      /\ Senders(room'[r].pending) \subseteq room'[r].clients
    BY <1>2 DEF SoloInv
  <2>1. clients = {c} /\ R.clients = {}
    BY <1>9, <1>10
  <2>2. R.pending = << >> /\ Senders(R.pending) = {}
    BY <2>1, <1>1, SendersOf DEF SoleSender
  <2>3. Len(conn'[c].queue) <= 1
    <3>1. Len(<< >>) = 0
      OBVIOUS
    <3>2. Len(conn'[c].queue) <= 1 + 0
      BY <2>2, <3>1, <1>1 DEF SeatClient
    <3> QED BY <3>2
  <2> QED BY <2>1, <2>2, <2>3, <1>2, <1>9, <1>16
<1>18. TokenInv'
  <2>1. ~room'[r].reconnectEnabled => \E o \in Role : ~room'[r].tokens[o]
    BY <1>9, <1>11, <1>12
  <2> QED BY <2>1, <1>2, <1>11 DEF TokenInv, slots
<1>19. PairInv'
  <2>1. ASSUME NEW x \in ConnId, conn'[x].room # 0, room'[conn'[x].room].reconnectEnabled
        PROVE  /\ conn'[x].role \in Role /\ conn'[x].role = RoleOf[conn'[x].endpoint]
               /\ conn'[x].endpoint \in pair'[conn'[x].room][conn'[x].role]
    <3>1. CASE conn'[x].room = r
      <4>1. x \in clients /\ \A o \in Role : slots[o] # 0 /\ conn'[slots[o]].explicit
        BY <2>1, <3>1, <1>9, <1>16
      <4>2. PICK o \in Role : x = slots[o]
        BY <4>1, <1>12
      <4>3. conn'[x].role = o /\ conn'[x].explicit /\ pair'[r][o] = {conn'[x].endpoint}
        BY <2>1, <3>1, <4>1, <4>2, <1>8, <1>9
      <4> QED BY <3>1, <4>3, <1>15 DEF AskedInv
    <3>2. CASE conn'[x].room # r
      <4>1. x # c /\ conn[x].room = conn'[x].room
        BY <3>2, <1>1 DEF SeatClient, SeatOthers
      <4>2. x # s /\ Stays(x)
        BY <3>2, <4>1, <1>1, <1>2, <1>6, <1>7 DEF SoleClient
      <4>3. conn[x].room \in RoomId
        BY <2>1, <4>1, <1>0, PairTypes
      <4> QED BY <2>1, <3>2, <4>1, <4>2, <4>3, <1>0, <1>2 DEF PairInv, Stays
    <3> QED BY <3>1, <3>2
  <2>2. ASSUME NEW d \in Endpoints, known'[d] # 0
        PROVE  \E x \in ConnId : conn'[x].room = known'[d] /\ conn'[x].endpoint = d
    <3>1. PICK x \in ConnId : conn[x].room = known[d] /\ conn[x].endpoint = d
      BY <2>2, <1>0, <1>2 DEF PairInv
    <3>2. x # c
      BY <2>2, <3>1, <1>2, <1>3
    <3> QED BY <3>1, <3>2, <1>1, <1>2 DEF SeatOthers
  <2> QED BY <2>1, <2>2 DEF PairInv
<1>20. ASSUME NEW f \in Senders(R.pending)
       PROVE  /\ f \in ConnId /\ f # c /\ conn'[f].room = r /\ conn'[f].generation = R.generation
              /\ f \in R.clients
  <2>1. f \in R.clients /\ f \in ConnId /\ f # c
    BY <1>1, <1>2, <1>3 DEF SoleSender
  <2>2. conn[f].room = r /\ conn[f].generation = R.generation
    BY <2>1, <1>1 DEF SoleClient
  <2> QED BY <2>1, <2>2, <1>1 DEF SeatOthers
<1>21. BacklogInv'
  <2>1. Len(R.pending) <= MaxPending
    BY <1>1 DEF SoleSender
  <2> QED BY <2>1, <1>2, <1>9, <1>11, <1>20 DEF BacklogInv, slots
<1>22. QueueInv'
  <2> SUFFICES ASSUME NEW x \in ConnId, NEW f \in Senders(conn'[x].queue)
               PROVE  /\ f \in ConnId /\ f # x /\ conn'[f].room = conn'[x].room
                      /\ conn'[f].generation = conn'[x].generation
                      /\ conn'[f].role = conn'[x].role => conn'[x].role = "none"
    BY DEF QueueInv
  <2>1. CASE x = c
    <3>1. f \in Senders(R.pending)
      BY <2>1, <1>1 DEF SeatClient
    <3>2. /\ f \in ConnId /\ f # c /\ conn'[f].room = r /\ conn'[f].generation = R.generation
          /\ f \in R.clients /\ conn'[c].room = r /\ conn'[c].generation = R.generation
          /\ conn'[c].role = role
      BY <3>1, <1>1, <1>20 DEF SeatClient
    <3>3. conn'[f].role = role => role = "none"
      <4>1. CASE f = s
        BY <3>2, <4>1, <1>1, <1>2, OppositeFacts DEF SeatRole, SeatOthers
      <4>2. CASE f # s
        <5>1. /\ conn'[f].role = conn[f].role
              /\ \/ conn[f].role \in Role /\ role = Opposite(conn[f].role)
                 \/ conn[f].role = "none" /\ role = "none"
          BY <3>2, <4>2, <1>1, <1>6 DEF SeatRole, Stays
        <5> QED BY <5>1, OppositeFacts
      <4> QED BY <4>1, <4>2
    <3> QED BY <2>1, <3>2, <3>3
  <2>2. CASE x # c
    <3>1. f \in Senders(conn[x].queue)
      BY <2>2, <1>1 DEF SeatOthers
    <3>2. /\ f \in ConnId /\ f # x /\ conn[f].room = conn[x].room
          /\ conn[f].generation = conn[x].generation
          /\ conn[f].role = conn[x].role => conn[x].role = "none"
      BY <3>1, <1>0 DEF QueueInv
    <3>3. f # c
      <4> SUFFICES ASSUME f = c PROVE FALSE
        OBVIOUS
      <4>1. conn[x].room = 0
        BY <3>2, <1>3
      <4>2. conn[x].queue = << >>
        BY <4>1, <1>0 DEF BlankInv
      <4> QED BY <3>1, <4>2, SendersOf
    <3>4. x # s /\ f # s
      <4> SUFFICES ASSUME x = s \/ f = s PROVE FALSE
        OBVIOUS
      <4>1. s \in R.clients
        BY <3>2, <1>2, <1>7
      <4>2. conn[s].room = r
        BY <4>1, <1>1 DEF SoleClient
      <4>3. x \in R.clients /\ f \in R.clients
        BY <3>2, <4>2, <1>1 DEF SoleClient
      <4> QED BY <3>2, <4>3, <1>5
    <3> QED BY <2>2, <3>2, <3>3, <3>4, <1>6 DEF Stays
  <2> QED BY <2>1, <2>2
<1>23. OpenClientIsRegistered'
  <2> SUFFICES ASSUME NEW x \in 1..lastConn', ~conn'[x].closed, ~evicted
               PROVE  conn'[x].room = r /\ x \in room'[r].clients
    BY <1>2 DEF OpenClientIsRegistered
  <2>1. CASE x = c
    BY <2>1, <1>1, <1>9 DEF SeatClient, clients
  <2>2. CASE x # c
    <3>1. x \in 1..lastConn /\ x \in ConnId
      BY <2>2, <1>0, <1>2, SignalConstants DEF TypeOK, ConnId
    <3>2. x \notin Lapsing /\ ~conn[x].closed /\ conn'[x].room = conn[x].room
      BY <2>2, <3>1, <1>1 DEF SeatOthers
    <3>3. conn[x].room = rooms /\ x \in room[rooms].clients
      BY <3>1, <3>2, <1>0 DEF OpenClientIsRegistered
    <3>4. rooms # 0
      BY <3>1, <3>3, <1>0, PairTypes DEF BlankInv
    <3>5. ~Fresh
      BY <3>2, <3>3, <3>4 DEF Fresh, Lapsing
    <3> QED BY <3>2, <3>3, <3>5, <1>4, <1>9 DEF clients
  <2> QED BY <2>1, <2>2
<1> QED BY <1>13, <1>14, <1>15, <1>17, <1>18, <1>19, <1>21, <1>22, <1>23 DEF PInv

(***************************************************************************)
(* The theorems.                                                            *)
(***************************************************************************)

LEMMA PairStep == IInv /\ PInv /\ [Next]_vars => PInv'
<1> SUFFICES ASSUME IInv, PInv, [Next]_vars PROVE PInv'
  OBVIOUS
<1>1. ASSUME NEW e \in Endpoints, JoinExplicit(e) PROVE PInv'
  <2>1. PICK s : SeatEffect(e, lastConn + 1, TargetId, Target, RoleOf[e], s)
    BY <1>1, JoinExplicitSeat
  <2>2. ~Target.locked
    BY <1>1 DEF JoinExplicit
  <2>3. Unlocked(TargetId, Target)
    BY <2>2, TargetFacts
  <2> QED BY <2>1, <2>3, SeatPreserves
<1>2. ASSUME NEW e \in Endpoints, JoinLegacy(e) PROVE PInv'
  <2>1. PICK role : SeatEffect(e, lastConn + 1, TargetId, Target, role, 0)
    BY <1>2, JoinLegacySeat
  <2>2. ~Target.locked
    BY <1>2 DEF JoinLegacy
  <2>3. Unlocked(TargetId, Target)
    BY <2>2, TargetFacts
  <2> QED BY <2>1, <2>3, SeatPreserves
<1>3. ASSUME NEW e \in Endpoints, JoinRefusedFresh(e) PROVE PInv'
  BY <1>3, ExpirePair DEF JoinRefusedFresh
<1>4. ASSUME NEW e \in Endpoints, Rejoin(e) PROVE PInv'
  BY <1>4, RejoinPair
<1>5. ASSUME NEW c \in ConnId, Forward(c) PROVE PInv'
  BY <1>5, ForwardPair
<1>6. ASSUME NEW c \in ConnId, Deliver(c) PROVE PInv'
  BY <1>6, DeliverPair
<1>7. ASSUME NEW c \in ConnId, Leave(c) PROVE PInv'
  BY <1>7, LeavePair
<1>8. CASE Cleanup
  BY <1>8, ExpirePair DEF Cleanup
<1>9. CASE Tick
  BY <1>9, TickPair DEF Tick
<1>10. CASE UNCHANGED vars
  BY <1>10, TickPair DEF vars
<1> QED BY <1>1, <1>2, <1>3, <1>4, <1>5, <1>6, <1>7, <1>8, <1>9, <1>10 DEF Next, Join

\* The seats, tokens, backlogs and queues of every room are in order, whatever
\* joins, rejoins, leaves, expiries and forwards have happened (service.go).
THEOREM PairsCorrect == Spec => [](IInv /\ PInv)
<1>1. Init => IInv /\ PInv
  BY InitInv, InitPair
<1>2. IInv /\ PInv /\ [Next]_vars => (IInv /\ PInv)'
  BY InvStep, PairStep
<1> QED BY <1>1, <1>2, PTL DEF Spec

\* forward and the replay of the backlog give a client only what the other side
\* of its own room and generation sent: nothing from before a reconnect, nothing
\* of its own role.
THEOREM SignalsInGeneration == Spec => []SignalsStayInGeneration
<1>1. IInv /\ PInv => SignalsStayInGeneration
  <2> SUFFICES ASSUME IInv, PInv, NEW c \in ConnId, NEW i \in 1..Len(conn[c].queue),
                      conn[c].queue[i].type = "signal"
               PROVE  LET from == conn[c].queue[i].from IN
                      /\ from # c /\ conn[from].room = conn[c].room
                      /\ conn[from].generation = conn[c].generation
                      /\ conn[from].role = conn[c].role => conn[c].role = "none"
    BY DEF SignalsStayInGeneration
  <2>1. conn[c].queue[i].from \in Senders(conn[c].queue)
    BY DEF Senders
  <2> QED BY <2>1 DEF PInv, QueueInv
<1> QED BY <1>1, PairsCorrect, PTL

\* A paired room holds at most the two endpoints that first filled its roles, a
\* client that is not closed is where the cleanup and its peer find it, and no
\* send of a join under s.mu can block on a full queue.
THEOREM RoomsSound == Spec => []RoomsAreSound
<1>1. IInv /\ PInv => PairIsExclusive
  <2> SUFFICES ASSUME IInv, PInv, NEW r \in RoomId, room[r].reconnectEnabled
               PROVE  /\ Cardinality(room[r].clients) <= 2
                      /\ \A role \in Role : room[r].slots[role] # 0 =>
                             conn[room[r].slots[role]].endpoint \in pair[r][role]
    BY DEF PairIsExclusive
  <2>0. TypeOK /\ MemberInv /\ SeatInv /\ PairInv
    BY DEF IInv, PInv
  <2>1. \A x \in room[r].clients : /\ x \in ConnId /\ conn[x].room = r /\ r # 0
                                   /\ conn[x].role \in Role
                                   /\ conn[x].endpoint \in pair[r][conn[x].role]
                                   /\ x = room[r].slots[conn[x].role]
    <3>1. \A x \in room[r].clients : x \in ConnId /\ conn[x].room = r /\ r # 0
      BY <2>0, PairTypes DEF MemberInv
    <3>2. \A x \in room[r].clients : /\ conn[x].role \in Role
                                     /\ conn[x].endpoint \in pair[r][conn[x].role]
      BY <3>1, <2>0 DEF PairInv
    <3> QED BY <3>1, <3>2, <2>0 DEF SeatInv
  <2>2. Cardinality(room[r].clients) <= 2
    <3> DEFINE a == room[r].slots["sender"]
               b == room[r].slots["receiver"]
    <3>1. room[r].clients \subseteq {a} \cup {b}
      BY <2>1 DEF Role
    <3> HIDE DEF a, b
    <3>2. IsFiniteSet({a}) /\ IsFiniteSet({b}) /\ Cardinality({a}) = 1 /\ Cardinality({b}) = 1
      BY FS_Singleton
    <3>3. /\ IsFiniteSet({a} \cup {b})
          /\ Cardinality({a} \cup {b}) = Cardinality({a}) + Cardinality({b}) - Cardinality({a} \cap {b})
      BY <3>2, FS_Union
    <3>4. IsFiniteSet({a} \cap {b}) /\ Cardinality({a} \cap {b}) \in Nat
      BY <3>2, FS_Intersection, FS_CardinalityType
    <3>5. /\ Cardinality(room[r].clients) <= Cardinality({a} \cup {b})
          /\ IsFiniteSet(room[r].clients)
      BY <3>1, <3>3, FS_Subset
    <3>6. Cardinality(room[r].clients) \in Nat
      BY <3>5, FS_CardinalityType
    <3> QED BY <3>2, <3>3, <3>4, <3>5, <3>6
  <2>3. \A role \in Role : room[r].slots[role] # 0 =>
            room[r].slots[role] \in room[r].clients /\ conn[room[r].slots[role]].role = role
    BY <2>0 DEF SeatInv
  <2> QED BY <2>1, <2>2, <2>3
<1>2. IInv /\ PInv => JoinNeverBlocks
  <2> SUFFICES ASSUME IInv, PInv, rooms # 0
               PROVE  /\ Len(room[rooms].pending) + 1 < Capacity
                      /\ ~room[rooms].locked =>
                             \A x \in room[rooms].clients : Len(conn[x].queue) < Capacity
    BY DEF JoinNeverBlocks
  <2>0. TypeOK /\ SoloInv /\ BacklogInv
    BY DEF IInv, PInv
  <2>1. rooms \in RoomId /\ room[rooms].pending \in Seq(Payload)
    BY <2>0, PairTypes
  <2>2. Len(room[rooms].pending) <= MaxPending /\ Len(room[rooms].pending) \in Nat
    BY <2>0, <2>1 DEF BacklogInv
  <2>3. ASSUME ~room[rooms].locked, NEW x \in room[rooms].clients
        PROVE  Len(conn[x].queue) < Capacity
    <3>1. Len(conn[x].queue) <= 1 /\ x \in ConnId
      BY <2>0, <2>3 DEF SoloInv
    <3>2. conn[x].queue \in Seq(Payload)
      BY <3>1, <2>0, PairTypes
    <3>3. Len(conn[x].queue) \in Nat
      BY <3>2
    <3> QED BY <3>1, <3>3, SignalConstants
  <2> QED BY <2>2, <2>3, SignalConstants
<1>3. IInv /\ PInv => RoomsAreSound
  BY <1>1, <1>2 DEF PInv, RoomsAreSound
<1> QED BY <1>3, PairsCorrect, PTL

=============================================================================
