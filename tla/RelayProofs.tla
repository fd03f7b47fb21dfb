----------------------------- MODULE RelayProofs -----------------------------
(***************************************************************************)
(* Proofs about Relay for any number of connections per peer and any number *)
(* of attempts.                                                             *)
(***************************************************************************)
EXTENDS Relay, FiniteSetTheorems, TLAPS

(***************************************************************************)
(* The inductive invariant.                                                 *)
(***************************************************************************)

\* Connections that were not dialled are blank.
BlankInv == \A c \in ConnId : c > lastConn => conn[c] = NoConn

\* The registry of waiting clients and the connections name each other.
WaitInv ==
    /\ \A c \in ConnId :
          conn[c].server = "waiting" => waiting[conn[c].index][conn[c].role] = c
    /\ \A k \in Index, role \in Role : waiting[k][role] # 0 =>
          LET c == waiting[k][role] IN
          conn[c].server = "waiting" /\ conn[c].role = role /\ conn[c].index = k
    /\ \A k \in Index : waiting[k]["sender"] = 0 \/ waiting[k]["receiver"] = 0

\* A connection has a mate once it is piped, and keeps it.
MateInv ==
    \A c \in ConnId :
        /\ conn[c].server = "piped" => conn[c].mate # 0
        /\ conn[c].mate # 0 => conn[c].server \in {"piped", "closed"}

\* A peer's channels are connections of its own, of their indexes.
ChannelInv ==
    \A role \in Role, k \in Index : peer[role].channels[k] # 0 =>
        LET c == peer[role].channels[k] IN
        c <= lastConn /\ conn[c].role = role /\ conn[c].index = k

\* What a peer has open are its channels: it closes what it gives up.
OpenInv ==
    \A c \in ConnId : conn[c].open => peer[conn[c].role].channels[conn[c].index] = c

\* Before its bundle a peer has at most the primary connection.
PhaseInv ==
    \A role \in Role :
        /\ peer[role].phase \in {"idle", "failed"} =>
               \A k \in Index : peer[role].channels[k] = 0
        /\ peer[role].phase \in {"primary", "auxiliary", "session", "done"} =>
               peer[role].channels[0] # 0
        /\ peer[role].phase = "primary" =>
               \A k \in Index : k # 0 => peer[role].channels[k] = 0

\* The connections a peer has dialled in all attempts are at most these.
Used(role) == {k \in Index : peer[role].channels[k] # 0}
Dialled(role) ==
    Count * (peer[role].attempt - 1)
    + (IF peer[role].phase \in {"idle", "primary", "auxiliary"}
       THEN Cardinality(Used(role)) ELSE Count)
CountInv == lastConn <= Dialled("sender") + Dialled("receiver")

IInv ==
    /\ TypeOK /\ BlankInv /\ WaitInv /\ MateInv /\ PipesArePairs
    /\ ChannelInv /\ OpenInv /\ PhaseInv /\ CountInv

(***************************************************************************)
(* Constants, and how many connections are dialled.                         *)
(***************************************************************************)

LEMMA Constants ==
    /\ Count \in Nat \ {0} /\ SenderAttempts \in Nat \ {0} /\ ReceiverAttempts \in Nat \ {0}
    /\ MaxConns \in Nat \ {0} /\ MaxConns = Count * SenderAttempts + Count * ReceiverAttempts
    /\ 0 \in Index /\ Index \subseteq Nat /\ IsFiniteSet(Index) /\ Cardinality(Index) = Count
    /\ Role = {"sender", "receiver"}
<1>1. Count \in Nat \ {0} /\ SenderAttempts \in Nat \ {0} /\ ReceiverAttempts \in Nat \ {0}
  BY RelayConstants
<1>2. \A a, b, c \in Nat \ {0} :
        a * (b + c) \in Nat \ {0} /\ a * (b + c) = a * b + a * c
  OBVIOUS
<1>3. MaxConns \in Nat \ {0} /\ MaxConns = Count * SenderAttempts + Count * ReceiverAttempts
  BY <1>1, <1>2 DEF MaxConns
<1>4. IsFiniteSet(Index) /\ Cardinality(Index) = Count
  <2>1. 0 \in Int /\ Count - 1 \in Int /\ ~(0 > Count - 1) /\ (Count - 1) - 0 + 1 = Count
    BY <1>1
  <2> QED BY <2>1, FS_Interval DEF Index
<1> QED BY <1>1, <1>3, <1>4 DEF Index, Role

LEMMA UsedFinite ==
    ASSUME NEW role \in Role
    PROVE  /\ IsFiniteSet(Used(role)) /\ Cardinality(Used(role)) \in 0..Count
           /\ Used(role) # Index => Cardinality(Used(role)) < Count
<1>1. Used(role) \in SUBSET Index
  BY DEF Used
<1>2. IsFiniteSet(Used(role)) /\ Cardinality(Used(role)) <= Count
      /\ (Cardinality(Used(role)) = Count => Used(role) = Index)
  BY <1>1, Constants, FS_Subset
<1>3. Cardinality(Used(role)) \in Nat
  BY <1>2, FS_CardinalityType
<1> QED BY <1>2, <1>3, Constants

\* No peer dials more than Count connections in an attempt.
LEMMA DialledBounded ==
    ASSUME TypeOK, NEW role \in Role
    PROVE  /\ Dialled(role) \in Nat /\ Dialled(role) <= Count * MaxAttempts(role)
           /\ peer[role].phase \in {"idle", "primary", "auxiliary"} /\ Used(role) # Index =>
                  Dialled(role) + 1 <= Count * MaxAttempts(role)
<1>1. peer[role].attempt \in 1..MaxAttempts(role) /\ MaxAttempts(role) \in Nat
  BY Constants DEF TypeOK, MaxAttempts, PeerRecord
<1>2. \A n \in Nat \ {0}, m \in Nat : \A a \in 1..m :
          n * (a - 1) \in Nat /\ n * (a - 1) + n <= n * m
  <2> TAKE n \in Nat \ {0}, m \in Nat
  <2> TAKE a \in 1..m
  <2>1. a - 1 \in Nat /\ n * (a - 1) \in Nat /\ m - a \in Nat /\ n * (m - a) \in Nat
    OBVIOUS
  <2>2. n * m = n * (m - a) + (n * (a - 1) + n)
    OBVIOUS
  <2> QED BY <2>1, <2>2
<1>3. Count * (peer[role].attempt - 1) \in Nat
      /\ Count * (peer[role].attempt - 1) + Count <= Count * MaxAttempts(role)
  BY <1>1, <1>2, Constants
<1>4. Count * MaxAttempts(role) \in Nat
  BY <1>1, Constants
<1> DEFINE base == Count * (peer[role].attempt - 1)
           top == Count * MaxAttempts(role)
           used == Cardinality(Used(role))
<1>5. base \in Nat /\ base + Count <= top /\ top \in Nat /\ Count \in Nat /\ used \in 0..Count
      /\ (Used(role) # Index => used < Count)
  BY <1>3, <1>4, UsedFinite, Constants
<1>6. Dialled(role) = base + (IF peer[role].phase \in {"idle", "primary", "auxiliary"}
                             THEN used ELSE Count)
  BY DEF Dialled
<1> HIDE DEF base, top, used
<1>7. Dialled(role) \in Nat /\ Dialled(role) <= top
      /\ (peer[role].phase \in {"idle", "primary", "auxiliary"} /\ Used(role) # Index
           => Dialled(role) + 1 <= top)
  BY <1>5, <1>6
<1> QED BY <1>7 DEF top

LEMMA DialledNat == TypeOK => \A role \in Role : Dialled(role) \in Nat
BY DialledBounded

LEMMA DialledNatNext == TypeOK' => (\A role \in Role : Dialled(role) \in Nat)'
BY DialledNat, PTL

\* A peer that may dial finds a number for its connection.
LEMMA RoomLeft ==
    ASSUME TypeOK, CountInv, NEW role \in Role,
           peer[role].phase \in {"idle", "primary", "auxiliary"}, Used(role) # Index
    PROVE  lastConn + 1 \in ConnId
<1> DEFINE s == Count * SenderAttempts
           r == Count * ReceiverAttempts
<1>1. Dialled("sender") \in Nat /\ Dialled("receiver") \in Nat
      /\ Dialled("sender") <= s /\ Dialled("receiver") <= r
  BY DialledBounded, Constants DEF MaxAttempts
<1>2. Dialled("sender") + 1 <= s \/ Dialled("receiver") + 1 <= r
  BY DialledBounded, Constants DEF MaxAttempts
<1>3. s \in Nat /\ r \in Nat /\ MaxConns = s + r /\ lastConn \in 0..MaxConns
  BY Constants DEF TypeOK
<1>4. lastConn <= Dialled("sender") + Dialled("receiver")
  BY DEF CountInv
<1> HIDE DEF s, r
<1> QED BY <1>1, <1>2, <1>3, <1>4 DEF ConnId

(***************************************************************************)
(* Types.                                                                   *)
(***************************************************************************)

LEMMA Types ==
    ASSUME TypeOK
    PROVE  /\ \A c \in ConnId : /\ conn[c] \in ConnRecord /\ conn[c].role \in Role
                                /\ conn[c].index \in Index /\ conn[c].open \in BOOLEAN
                                /\ conn[c].mate = 0 \/ conn[c].mate \in ConnId
           /\ \A k \in Index, role \in Role :
                  waiting[k][role] = 0 \/ waiting[k][role] \in ConnId
           /\ \A k \in Index, role \in Role :
                  peer[role].channels[k] = 0 \/ peer[role].channels[k] \in ConnId
           /\ lastConn \in Nat /\ lastConn <= MaxConns
           /\ 0 \notin ConnId /\ ConnId \subseteq Nat
<1>1. \A c \in ConnId : conn[c] \in ConnRecord
  BY DEF TypeOK
<1>2. \A c \in ConnId : /\ conn[c].role \in Role /\ conn[c].index \in Index
                        /\ conn[c].open \in BOOLEAN /\ conn[c].mate \in 0..MaxConns
  BY <1>1 DEF ConnRecord
<1>3. \A n \in 0..MaxConns : n = 0 \/ n \in ConnId
  BY Constants DEF ConnId
<1>4. \A k \in Index, role \in Role :
          waiting[k][role] \in 0..MaxConns /\ peer[role].channels[k] \in 0..MaxConns
  BY DEF TypeOK, PeerRecord
<1>5. lastConn \in Nat /\ lastConn <= MaxConns /\ 0 \notin ConnId /\ ConnId \subseteq Nat
  BY Constants DEF TypeOK, ConnId
<1> QED BY <1>1, <1>2, <1>3, <1>4, <1>5

LEMMA Opposites ==
    \A role \in Role : /\ Opposite(role) \in Role /\ Opposite(role) # role
                       /\ \A x \in Role : x = role \/ x = Opposite(role)
                       /\ Opposite(Opposite(role)) = role
BY DEF Role, Opposite

\* What a server's step does to a connection.
LEMMA ServerUpdate ==
    ASSUME NEW C \in ConnRecord, NEW m \in ConnId \cup {0},
           NEW st \in {"none", "accepted", "waiting", "piped", "closed"}
    PROVE  /\ LET D == [C EXCEPT !.server = st] IN
              /\ D \in ConnRecord /\ D.server = st /\ D.mate = C.mate
              /\ D.role = C.role /\ D.index = C.index /\ D.open = C.open
           /\ LET D == [C EXCEPT !.server = st, !.mate = m] IN
              /\ D \in ConnRecord /\ D.server = st /\ D.mate = m
              /\ D.role = C.role /\ D.index = C.index /\ D.open = C.open
<1>1. m \in 0..MaxConns
  BY Constants DEF ConnId
<1> QED BY <1>1 DEF ConnRecord

\* What closing its end does to a connection.
LEMMA CloseUpdate ==
    ASSUME NEW C \in ConnRecord
    PROVE  LET D == [C EXCEPT !.open = FALSE] IN
           /\ D \in ConnRecord /\ D.server = C.server /\ D.mate = C.mate
           /\ D.role = C.role /\ D.index = C.index /\ D.open = FALSE
BY DEF ConnRecord

(***************************************************************************)
(* The server's steps.                                                      *)
(***************************************************************************)

\* A server's step does not touch what the peers have.
LEMMA ServerLeavesPeers ==
    ASSUME TypeOK, ChannelInv, OpenInv, PhaseInv, CountInv,
           UNCHANGED <<lastConn, peer>>,
           \A c \in ConnId : /\ conn'[c].role = conn[c].role /\ conn'[c].index = conn[c].index
                             /\ conn'[c].open = conn[c].open
    PROVE  ChannelInv' /\ OpenInv' /\ PhaseInv' /\ CountInv'
<1>1. ChannelInv'
  BY Types DEF ChannelInv
<1>2. OpenInv'
  BY DEF OpenInv
<1>3. PhaseInv'
  BY DEF PhaseInv
<1>4. CountInv'
  BY DEF CountInv, Dialled, Used
<1> QED BY <1>1, <1>2, <1>3, <1>4

LEMMA HandleStep ==
    ASSUME IInv, NEW c \in ConnId, Handle(c)
    PROVE  IInv'
<1> DEFINE k == conn[c].index
           role == conn[c].role
           other == Counterpart(c)
<1>0. /\ TypeOK /\ BlankInv /\ WaitInv /\ MateInv /\ PipesArePairs
      /\ ChannelInv /\ OpenInv /\ PhaseInv /\ CountInv
  BY DEF IInv
<1>1. conn[c].server = "accepted" /\ UNCHANGED <<lastConn, peer>>
  BY DEF Handle
<1>2. /\ conn[c] \in ConnRecord /\ k \in Index /\ role \in Role
      /\ Opposite(role) \in Role /\ role # Opposite(role)
  BY <1>0, Types, Opposites
<1>3. conn[c].mate = 0
  BY <1>0, <1>1 DEF MateInv
<1>4. ~(c > lastConn)
  BY <1>0, <1>1 DEF BlankInv, NoConn
<1>5. CASE TakePeer(c)
  <2>1. other # 0 /\ other \in ConnId /\ other = waiting[k][Opposite(role)]
    BY <1>5, <1>0, <1>2, Types DEF TakePeer, Counterpart
  <2>2. conn[other].server = "waiting" /\ conn[other].index = k
        /\ conn[other].role = Opposite(role) /\ conn[other] \in ConnRecord
    BY <2>1, <1>0, <1>2, Types DEF WaitInv
  <2>3. other # c /\ conn[other].mate = 0 /\ ~(other > lastConn)
    BY <2>1, <2>2, <1>0, <1>1 DEF MateInv, BlankInv, NoConn
  <2>4. conn' = [conn EXCEPT ![c] = [conn[c] EXCEPT !.server = "piped", !.mate = other],
                             ![other] = [conn[other] EXCEPT !.server = "piped", !.mate = c]]
    BY <1>5, <2>1, <2>3, <1>0 DEF TakePeer, TypeOK
  <2>5. /\ conn'[c] = [conn[c] EXCEPT !.server = "piped", !.mate = other]
        /\ conn'[other] = [conn[other] EXCEPT !.server = "piped", !.mate = c]
        /\ \A d \in ConnId : d # c /\ d # other => conn'[d] = conn[d]
        /\ conn' \in [ConnId -> ConnRecord]
    <3>1. /\ [conn[c] EXCEPT !.server = "piped", !.mate = other] \in ConnRecord
          /\ [conn[other] EXCEPT !.server = "piped", !.mate = c] \in ConnRecord
      BY <1>2, <2>1, <2>2, ServerUpdate
    <3> QED BY <3>1, <2>1, <2>3, <2>4, <1>0 DEF TypeOK
  <2>6. /\ conn'[c].server = "piped" /\ conn'[c].mate = other
        /\ conn'[other].server = "piped" /\ conn'[other].mate = c
        /\ \A d \in ConnId : /\ conn'[d].role = conn[d].role /\ conn'[d].index = conn[d].index
                             /\ conn'[d].open = conn[d].open
    <3>1. /\ conn'[c].server = "piped" /\ conn'[c].mate = other /\ conn'[c].role = conn[c].role
          /\ conn'[c].index = conn[c].index /\ conn'[c].open = conn[c].open
      BY <2>5, <1>2 DEF ConnRecord
    <3>2. /\ conn'[other].server = "piped" /\ conn'[other].mate = c
          /\ conn'[other].role = conn[other].role
          /\ conn'[other].index = conn[other].index /\ conn'[other].open = conn[other].open
      BY <2>5, <2>2 DEF ConnRecord
    <3> QED BY <3>1, <3>2, <2>5
  <2>7. waiting' = [waiting EXCEPT ![k] = [x \in Role |-> 0]]
    BY <1>5 DEF TakePeer
  <2>8. waiting' \in [Index -> [Role -> 0..MaxConns]]
        /\ \A j \in Index, x \in Role : waiting'[j][x] = IF j = k THEN 0 ELSE waiting[j][x]
    BY <2>7, <1>0, <1>2, Constants DEF TypeOK
  <2>9. TypeOK'
    BY <2>5, <2>8, <1>0, <1>1 DEF TypeOK
  <2>10. BlankInv'
    BY <2>1, <2>3, <2>5, <1>0, <1>1, <1>4 DEF BlankInv
  <2>11. WaitInv'
    <3>1. waiting[k][role] = 0
      BY <2>1, <1>0, <1>2 DEF WaitInv, Role, Opposite
    <3>2. ASSUME NEW d \in ConnId, conn'[d].server = "waiting"
          PROVE  waiting'[conn'[d].index][conn'[d].role] = d
      <4>1. d # c /\ d # other /\ conn'[d] = conn[d]
        BY <3>2, <2>5, <2>6
      <4>2. waiting[conn[d].index][conn[d].role] = d /\ d # 0
            /\ conn[d].index \in Index /\ conn[d].role \in Role
        BY <4>1, <3>2, <1>0, Types DEF WaitInv
      <4>3. conn[d].index # k
        BY <4>1, <4>2, <3>1, <2>1, <1>2, Opposites
      <4> QED BY <4>1, <4>2, <4>3, <2>8
    <3>3. ASSUME NEW j \in Index, NEW x \in Role, waiting'[j][x] # 0
          PROVE  LET d == waiting'[j][x] IN
                 conn'[d].server = "waiting" /\ conn'[d].role = x /\ conn'[d].index = j
      <4>1. j # k /\ waiting'[j][x] = waiting[j][x] /\ waiting[j][x] \in ConnId
        BY <3>3, <2>8, <1>0, Types
      <4>2. conn[waiting[j][x]].server = "waiting" /\ conn[waiting[j][x]].role = x
            /\ conn[waiting[j][x]].index = j
        BY <4>1, <3>3, <1>0 DEF WaitInv
      <4>3. waiting[j][x] # c /\ waiting[j][x] # other
        BY <4>1, <4>2, <2>2
      <4> QED BY <4>1, <4>2, <4>3, <2>5
    <3>4. \A j \in Index : waiting'[j]["sender"] = 0 \/ waiting'[j]["receiver"] = 0
      BY <2>8, <1>0, Constants DEF WaitInv
    <3> QED BY <3>2, <3>3, <3>4 DEF WaitInv
  <2>12. MateInv'
    <3> SUFFICES ASSUME NEW d \in ConnId
                 PROVE  /\ conn'[d].server = "piped" => conn'[d].mate # 0
                        /\ conn'[d].mate # 0 => conn'[d].server \in {"piped", "closed"}
      BY DEF MateInv
    <3>1. c # 0 /\ other # 0
      BY <2>1, <1>0, Types
    <3>2. CASE d = c
      BY <3>1, <3>2, <2>6
    <3>3. CASE d = other
      BY <3>1, <3>3, <2>6
    <3>4. CASE d # c /\ d # other
      BY <3>4, <2>5, <1>0 DEF MateInv
    <3> QED BY <3>2, <3>3, <3>4
  <2>13. PipesArePairs'
    <3> SUFFICES ASSUME NEW d \in ConnId, conn'[d].mate # 0
                 PROVE  /\ conn'[conn'[d].mate].mate = d
                        /\ conn'[conn'[d].mate].role # conn'[d].role
                        /\ conn'[conn'[d].mate].index = conn'[d].index
      BY DEF PipesArePairs
    <3>1. CASE d = c \/ d = other
      BY <3>1, <2>1, <2>2, <2>6, <1>2
    <3>2. CASE d # c /\ d # other
      <4>1. conn'[d] = conn[d] /\ conn[d].mate \in ConnId /\ d # 0
        BY <3>2, <2>5, <1>0, Types
      <4>2. conn[conn[d].mate].mate = d
        BY <4>1 , <1>0 DEF PipesArePairs
      <4>3. conn[d].mate # c /\ conn[d].mate # other
        BY <4>2, <4>1, <2>3, <1>3
      <4> QED BY <4>1, <4>3, <2>5, <1>0 DEF PipesArePairs
    <3> QED BY <3>1, <3>2
  <2> QED BY <2>6, <2>9, <2>10, <2>11, <2>12, <2>13, <1>0, <1>1, ServerLeavesPeers DEF IInv
<1>6. CASE Wait(c)
  <2>1. /\ conn' = [conn EXCEPT ![c] = [conn[c] EXCEPT !.server = "waiting"]]
        /\ waiting' = [waiting EXCEPT ![k][role] = c]
        /\ waiting[k][role] = 0 /\ waiting[k][Opposite(role)] = 0
    BY <1>6, <1>0 DEF Wait, Counterpart, TypeOK
  <2>2. /\ conn'[c] = [conn[c] EXCEPT !.server = "waiting"]
        /\ \A d \in ConnId : d # c => conn'[d] = conn[d]
        /\ conn' \in [ConnId -> ConnRecord]
    <3>1. [conn[c] EXCEPT !.server = "waiting"] \in ConnRecord
      BY <1>2, ServerUpdate
    <3> QED BY <3>1, <2>1, <1>0 DEF TypeOK
  <2>3. /\ conn'[c].server = "waiting"
        /\ \A d \in ConnId : /\ conn'[d].role = conn[d].role /\ conn'[d].index = conn[d].index
                             /\ conn'[d].open = conn[d].open /\ conn'[d].mate = conn[d].mate
    <3>1. /\ conn'[c].server = "waiting" /\ conn'[c].mate = conn[c].mate
          /\ conn'[c].role = conn[c].role /\ conn'[c].index = conn[c].index
          /\ conn'[c].open = conn[c].open
      BY <2>2, <1>2 DEF ConnRecord
    <3> QED BY <3>1, <2>2
  <2>4. waiting' \in [Index -> [Role -> 0..MaxConns]]
        /\ \A j \in Index, x \in Role :
               waiting'[j][x] = IF j = k /\ x = role THEN c ELSE waiting[j][x]
    <3>1. c \in 0..MaxConns
      BY DEF ConnId
    <3> QED BY <3>1, <2>1, <1>0, <1>2 DEF TypeOK
  <2>5. TypeOK'
    BY <2>2, <2>4, <1>0, <1>1 DEF TypeOK
  <2>6 BlankInv' /\ MateInv'
    <3>1. BlankInv'
      BY <2>2, <1>0, <1>1, <1>4 DEF BlankInv
    <3>2. MateInv'
      <4> SUFFICES ASSUME NEW d \in ConnId
                   PROVE  /\ conn'[d].server = "piped" => conn'[d].mate # 0
                          /\ conn'[d].mate # 0 => conn'[d].server \in {"piped", "closed"}
        BY DEF MateInv
      <4>1. CASE d = c
        BY <4>1, <2>3, <1>3
      <4>2. CASE d # c
        BY <4>2, <2>2, <1>0 DEF MateInv
      <4> QED BY <4>1, <4>2
    <3> QED BY <3>1, <3>2
  <2>7. PipesArePairs'
    BY <2>3, <1>0, Types DEF PipesArePairs
  <2>8. WaitInv'
    <3>2. ASSUME NEW d \in ConnId, conn'[d].server = "waiting"
          PROVE  waiting'[conn'[d].index][conn'[d].role] = d
      <4>1. CASE d = c
        BY <4>1, <2>3, <2>4, <1>2
      <4>2. CASE d # c
        <5>1. conn'[d] = conn[d] /\ waiting[conn[d].index][conn[d].role] = d /\ d # 0
              /\ conn[d].index \in Index /\ conn[d].role \in Role
          BY <4>2, <3>2, <2>2, <1>0, Types DEF WaitInv
        <5> QED BY <5>1, <2>1, <2>4
      <4> QED BY <4>1, <4>2
    <3>3. ASSUME NEW j \in Index, NEW x \in Role, waiting'[j][x] # 0
          PROVE  LET d == waiting'[j][x] IN
                 conn'[d].server = "waiting" /\ conn'[d].role = x /\ conn'[d].index = j
      <4>1. CASE j = k /\ x = role
        BY <4>1, <2>3, <2>4
      <4>2. CASE ~(j = k /\ x = role)
        <5>1. waiting'[j][x] = waiting[j][x] /\ waiting[j][x] # 0 /\ waiting[j][x] \in ConnId
          BY <4>2, <3>3, <2>4, <1>0, Types
        <5>2. conn[waiting[j][x]].server = "waiting" /\ conn[waiting[j][x]].role = x
              /\ conn[waiting[j][x]].index = j
          BY <5>1, <1>0 DEF WaitInv
        <5>3. waiting[j][x] # c
          BY <5>2, <1>1
        <5> QED BY <5>1, <5>2, <5>3, <2>2
      <4> QED BY <4>1, <4>2
    <3>4. \A j \in Index : waiting'[j]["sender"] = 0 \/ waiting'[j]["receiver"] = 0
      BY <2>1, <2>4, <1>0, <1>2 DEF WaitInv, Role, Opposite
    <3> QED BY <3>2, <3>3, <3>4 DEF WaitInv
  <2> QED BY <2>3, <2>5, <2>6, <2>7, <2>8, <1>0, <1>1, ServerLeavesPeers DEF IInv
<1>7. CASE Refuse(c) \/ Drop(c)
  <2>1. conn' = [conn EXCEPT ![c] = [conn[c] EXCEPT !.server = "closed"]] /\ waiting' = waiting
    BY <1>7, <1>0 DEF Refuse, Drop, TypeOK
  <2>2. /\ conn'[c] = [conn[c] EXCEPT !.server = "closed"]
        /\ \A d \in ConnId : d # c => conn'[d] = conn[d]
        /\ conn' \in [ConnId -> ConnRecord]
    <3>1. [conn[c] EXCEPT !.server = "closed"] \in ConnRecord
      BY <1>2, ServerUpdate
    <3> QED BY <3>1, <2>1, <1>0 DEF TypeOK
  <2>3. /\ conn'[c].server = "closed"
        /\ \A d \in ConnId : /\ conn'[d].role = conn[d].role /\ conn'[d].index = conn[d].index
                             /\ conn'[d].open = conn[d].open /\ conn'[d].mate = conn[d].mate
    <3>1. /\ conn'[c].server = "closed" /\ conn'[c].mate = conn[c].mate
          /\ conn'[c].role = conn[c].role /\ conn'[c].index = conn[c].index
          /\ conn'[c].open = conn[c].open
      BY <2>2, <1>2 DEF ConnRecord
    <3> QED BY <3>1, <2>2
  <2>4. TypeOK'
    BY <2>1, <2>2, <1>0, <1>1 DEF TypeOK
  <2>5 BlankInv' /\ MateInv'
    <3>1. BlankInv'
      BY <2>2, <1>0, <1>1, <1>4 DEF BlankInv
    <3>2. MateInv'
      <4> SUFFICES ASSUME NEW d \in ConnId
                   PROVE  /\ conn'[d].server = "piped" => conn'[d].mate # 0
                          /\ conn'[d].mate # 0 => conn'[d].server \in {"piped", "closed"}
        BY DEF MateInv
      <4>1. CASE d = c
        BY <4>1, <2>3, <1>3
      <4>2. CASE d # c
        BY <4>2, <2>2, <1>0 DEF MateInv
      <4> QED BY <4>1, <4>2
    <3> QED BY <3>1, <3>2
  <2>6. PipesArePairs'
    BY <2>3, <1>0, Types DEF PipesArePairs
  <2>7. \A j \in Index, x \in Role : waiting[j][x] # 0 =>
           waiting[j][x] \in ConnId /\ waiting[j][x] # c
    BY <1>0, <1>1, Types DEF WaitInv
  <2>8. WaitInv'
    BY <2>1, <2>2, <2>3, <2>7, <1>0 DEF WaitInv
  <2> QED BY <2>3, <2>4, <2>5, <2>6, <2>8, <1>0, <1>1, ServerLeavesPeers DEF IInv
<1> QED BY <1>5, <1>6, <1>7 DEF Handle

LEMMA ExpireStep ==
    ASSUME IInv, NEW k \in Index, Expire(k)
    PROVE  IInv'
<1> DEFINE gone(c) == \E role \in Role : waiting[k][role] = c
<1>0. /\ TypeOK /\ BlankInv /\ WaitInv /\ MateInv /\ PipesArePairs
      /\ ChannelInv /\ OpenInv /\ PhaseInv /\ CountInv
  BY DEF IInv
<1>1. /\ UNCHANGED <<lastConn, peer>>
      /\ waiting' = [waiting EXCEPT ![k] = [role \in Role |-> 0]]
      /\ conn' = [c \in ConnId |->
             IF gone(c) THEN [conn[c] EXCEPT !.server = "closed"] ELSE conn[c]]
  BY DEF Expire
<1>2. \A c \in ConnId : gone(c) =>
          /\ conn[c].server = "waiting" /\ conn[c].index = k
          /\ conn[c].mate = 0 /\ ~(c > lastConn)
  <2> SUFFICES ASSUME NEW c \in ConnId, NEW role \in Role, waiting[k][role] = c
               PROVE  /\ conn[c].server = "waiting" /\ conn[c].index = k
                      /\ conn[c].mate = 0 /\ ~(c > lastConn)
    OBVIOUS
  <2>1. c # 0
    BY <1>0, Types
  <2>2. conn[c].server = "waiting" /\ conn[c].index = k
    BY <2>1, <1>0 DEF WaitInv
  <2> QED BY <2>2, <1>0 DEF MateInv, BlankInv, NoConn
<1>3. \A c \in ConnId :
          /\ gone(c) => conn'[c].server = "closed" /\ conn'[c] \in ConnRecord
          /\ ~gone(c) => conn'[c] = conn[c]
          /\ conn'[c].role = conn[c].role /\ conn'[c].index = conn[c].index
          /\ conn'[c].open = conn[c].open /\ conn'[c].mate = conn[c].mate
  <2> SUFFICES ASSUME NEW c \in ConnId
               PROVE  /\ gone(c) => conn'[c].server = "closed" /\ conn'[c] \in ConnRecord
                      /\ ~gone(c) => conn'[c] = conn[c]
                      /\ conn'[c].role = conn[c].role /\ conn'[c].index = conn[c].index
                      /\ conn'[c].open = conn[c].open /\ conn'[c].mate = conn[c].mate
    OBVIOUS
  <2>1. conn[c] \in ConnRecord
    BY <1>0, Types
  <2>2. CASE ~gone(c)
    BY <2>2, <1>1
  <2>3. CASE gone(c)
    <3>1. conn'[c] = [conn[c] EXCEPT !.server = "closed"]
      BY <2>3, <1>1
    <3> QED BY <3>1, <2>1, <2>3 DEF ConnRecord
  <2> QED BY <2>2, <2>3
<1> HIDE DEF gone
<1>4. conn' \in [ConnId -> ConnRecord]
  <2>1. \A c \in ConnId : conn'[c] \in ConnRecord
    BY <1>3, <1>0, Types
  <2> QED BY <2>1, <1>1
<1>5. waiting' \in [Index -> [Role -> 0..MaxConns]]
      /\ \A j \in Index, x \in Role : waiting'[j][x] = IF j = k THEN 0 ELSE waiting[j][x]
  BY <1>1, <1>0, Constants DEF TypeOK
<1>6. TypeOK'
  BY <1>4, <1>5, <1>0, <1>1 DEF TypeOK
<1>7. BlankInv'
  BY <1>0, <1>1, <1>2, <1>3 DEF BlankInv
<1>8. MateInv'
  <2> SUFFICES ASSUME NEW c \in ConnId
               PROVE  /\ conn'[c].server = "piped" => conn'[c].mate # 0
                      /\ conn'[c].mate # 0 => conn'[c].server \in {"piped", "closed"}
    BY DEF MateInv
  <2>1. CASE gone(c)
    BY <2>1, <1>2, <1>3
  <2>2. CASE ~gone(c)
    BY <2>2, <1>0, <1>3 DEF MateInv
  <2> QED BY <2>1, <2>2
<1>9. PipesArePairs'
  BY <1>0, <1>3, Types DEF PipesArePairs
<1>10. WaitInv'
  <2>1. ASSUME NEW c \in ConnId, conn'[c].server = "waiting"
        PROVE  waiting'[conn'[c].index][conn'[c].role] = c
    <3>1. ~gone(c) /\ conn'[c] = conn[c]
      BY <2>1, <1>3
    <3>2. waiting[conn[c].index][conn[c].role] = c
          /\ conn[c].index \in Index /\ conn[c].role \in Role
      BY <3>1, <2>1, <1>0, Types DEF WaitInv
    <3>3. conn[c].index # k
      BY <3>1, <3>2 DEF gone
    <3> QED BY <3>1, <3>2, <3>3, <1>5
  <2>2. ASSUME NEW j \in Index, NEW x \in Role, waiting'[j][x] # 0
        PROVE  LET d == waiting'[j][x] IN
               conn'[d].server = "waiting" /\ conn'[d].role = x /\ conn'[d].index = j
    <3>1. j # k /\ waiting'[j][x] = waiting[j][x] /\ waiting[j][x] \in ConnId
      BY <2>2, <1>5, <1>0, Types
    <3>2. conn[waiting[j][x]].server = "waiting" /\ conn[waiting[j][x]].role = x
          /\ conn[waiting[j][x]].index = j
      BY <3>1, <2>2, <1>0 DEF WaitInv
    <3>3. ~gone(waiting[j][x])
      BY <3>1, <3>2, <1>2
    <3> QED BY <3>1, <3>2, <3>3, <1>3
  <2>3. \A j \in Index : waiting'[j]["sender"] = 0 \/ waiting'[j]["receiver"] = 0
    BY <1>5, <1>0, Constants DEF WaitInv
  <2> QED BY <2>1, <2>2, <2>3 DEF WaitInv
<1> QED BY <1>0, <1>1, <1>3, <1>6, <1>7, <1>8, <1>9, <1>10, ServerLeavesPeers DEF IInv

LEMMA PipeEndsStep ==
    ASSUME IInv, NEW c \in ConnId, PipeEnds(c)
    PROVE  IInv'
<1> DEFINE m == conn[c].mate
<1>0. /\ TypeOK /\ BlankInv /\ WaitInv /\ MateInv /\ PipesArePairs
      /\ ChannelInv /\ OpenInv /\ PhaseInv /\ CountInv
  BY DEF IInv
<1>1. conn[c].server = "piped" /\ UNCHANGED <<waiting, lastConn, peer>>
  BY DEF PipeEnds
<1>2. m # 0 /\ m \in ConnId /\ c # 0 /\ conn[c] \in ConnRecord /\ conn[m] \in ConnRecord
  BY <1>0, <1>1, Types DEF MateInv
<1>3. conn[m].mate = c /\ m # c /\ conn[m].server \in {"piped", "closed"}
  BY <1>0, <1>2 DEF PipesArePairs, MateInv
<1>4. conn' = [conn EXCEPT ![c] = [conn[c] EXCEPT !.server = "closed"],
                           ![m] = [conn[m] EXCEPT !.server = "closed"]]
  BY <1>0, <1>2, <1>3 DEF PipeEnds, TypeOK
<1>5. /\ conn'[c] = [conn[c] EXCEPT !.server = "closed"]
      /\ conn'[m] = [conn[m] EXCEPT !.server = "closed"]
      /\ \A d \in ConnId : d # c /\ d # m => conn'[d] = conn[d]
      /\ conn' \in [ConnId -> ConnRecord]
  <2>1. /\ [conn[c] EXCEPT !.server = "closed"] \in ConnRecord
        /\ [conn[m] EXCEPT !.server = "closed"] \in ConnRecord
    BY <1>2, ServerUpdate
  <2> QED BY <2>1, <1>0, <1>2, <1>3, <1>4 DEF TypeOK
<1>6. /\ conn'[c].server = "closed" /\ conn'[m].server = "closed"
      /\ \A d \in ConnId : /\ conn'[d].role = conn[d].role /\ conn'[d].index = conn[d].index
                           /\ conn'[d].open = conn[d].open /\ conn'[d].mate = conn[d].mate
  <2>1. /\ conn'[c].server = "closed" /\ conn'[c].mate = conn[c].mate
        /\ conn'[c].role = conn[c].role /\ conn'[c].index = conn[c].index
        /\ conn'[c].open = conn[c].open
    BY <1>2, <1>5 DEF ConnRecord
  <2>2. /\ conn'[m].server = "closed" /\ conn'[m].mate = conn[m].mate
        /\ conn'[m].role = conn[m].role /\ conn'[m].index = conn[m].index
        /\ conn'[m].open = conn[m].open
    BY <1>2, <1>5 DEF ConnRecord
  <2> QED BY <2>1, <2>2, <1>5
<1>7. TypeOK'
  BY <1>0, <1>1, <1>5 DEF TypeOK
<1>8. BlankInv'
  <2>1. ~(c > lastConn) /\ ~(m > lastConn)
    BY <1>0, <1>1, <1>2, <1>3 DEF BlankInv, NoConn
  <2> QED BY <2>1, <1>0, <1>1, <1>5 DEF BlankInv
<1>9. MateInv'
  <2> SUFFICES ASSUME NEW d \in ConnId
               PROVE  /\ conn'[d].server = "piped" => conn'[d].mate # 0
                      /\ conn'[d].mate # 0 => conn'[d].server \in {"piped", "closed"}
    BY DEF MateInv
  <2>1. CASE d = c \/ d = m
    BY <2>1, <1>6
  <2>2. CASE d # c /\ d # m
    BY <2>2, <1>0, <1>5 DEF MateInv
  <2> QED BY <2>1, <2>2
<1>10. PipesArePairs'
  BY <1>0, <1>6, Types DEF PipesArePairs
<1>11. WaitInv'
  <2>1. \A j \in Index, x \in Role : waiting[j][x] # 0 =>
           waiting[j][x] \in ConnId /\ waiting[j][x] # c /\ waiting[j][x] # m
    BY <1>0, <1>1, <1>3, Types DEF WaitInv
  <2>2. \A d \in ConnId : conn'[d].server = "waiting" => conn'[d] = conn[d]
    BY <1>5, <1>6
  <2> QED BY <2>1, <2>2, <1>0, <1>1, <1>5 DEF WaitInv
<1> QED BY <1>0, <1>1, <1>6, <1>7, <1>8, <1>9, <1>10, <1>11, ServerLeavesPeers DEF IInv

(***************************************************************************)
(* The peers' steps.                                                        *)
(***************************************************************************)

\* A peer that closes some of its channels and forgets only those.
LEMMA ClosingStep ==
    ASSUME IInv, NEW role \in Role, NEW closing \in SUBSET Channels(role), NEW P \in PeerRecord,
           CloseAll(closing), UNCHANGED <<waiting, lastConn>>,
           peer' = [peer EXCEPT ![role] = P],
           P.attempt \in 1..MaxAttempts(role),
           \A k \in Index : \/ P.channels[k] = peer[role].channels[k]
                            \/ P.channels[k] = 0 /\ peer[role].channels[k] \in closing \cup {0},
           P.phase \in {"idle", "failed"} => \A k \in Index : P.channels[k] = 0,
           P.phase \in {"primary", "auxiliary", "session", "done"} => P.channels[0] # 0,
           P.phase = "primary" => \A k \in Index : k # 0 => P.channels[k] = 0,
           Dialled(role) <= Dialled(role)'
    PROVE  IInv'
<1>0. /\ TypeOK /\ BlankInv /\ WaitInv /\ MateInv /\ PipesArePairs
      /\ ChannelInv /\ OpenInv /\ PhaseInv /\ CountInv
  BY DEF IInv
<1>1. /\ peer'[role] = P
      /\ \A x \in Role : x # role => peer'[x] = peer[x]
      /\ peer' \in [Role -> PeerRecord]
  BY <1>0 DEF TypeOK
<1>2. \A c \in closing : /\ c \in ConnId /\ ~(c > lastConn) /\ conn[c].role = role
                         /\ peer[role].channels[conn[c].index] = c
  <2> SUFFICES ASSUME NEW c \in closing
               PROVE  /\ c \in ConnId /\ ~(c > lastConn) /\ conn[c].role = role
                      /\ peer[role].channels[conn[c].index] = c
    OBVIOUS
  <2>1. PICK k \in Index : c = peer[role].channels[k] /\ c # 0
    BY DEF Channels
  <2> QED BY <2>1, <1>0, Types DEF ChannelInv
<1>3. \A c \in ConnId :
          /\ conn'[c] = IF c \in closing THEN [conn[c] EXCEPT !.open = FALSE] ELSE conn[c]
          /\ conn[c] \in ConnRecord
  BY <1>0, Types DEF CloseAll
<1>4. \A c \in ConnId :
          /\ conn'[c] \in ConnRecord /\ conn'[c].server = conn[c].server
          /\ conn'[c].mate = conn[c].mate /\ conn'[c].role = conn[c].role
          /\ conn'[c].index = conn[c].index
          /\ c \in closing => conn'[c].open = FALSE
          /\ c \notin closing => conn'[c] = conn[c]
  <2> SUFFICES ASSUME NEW c \in ConnId
               PROVE  /\ conn'[c] \in ConnRecord /\ conn'[c].server = conn[c].server
                      /\ conn'[c].mate = conn[c].mate /\ conn'[c].role = conn[c].role
                      /\ conn'[c].index = conn[c].index
                      /\ c \in closing => conn'[c].open = FALSE
                      /\ c \notin closing => conn'[c] = conn[c]
    OBVIOUS
  <2>1. CASE c \in closing
    <3>1. conn'[c] = [conn[c] EXCEPT !.open = FALSE] /\ conn[c] \in ConnRecord
      BY <2>1, <1>3
    <3> QED BY <3>1, <2>1 DEF ConnRecord
  <2>2. CASE c \notin closing
    BY <2>2, <1>3
  <2> QED BY <2>1, <2>2
<1>5. TypeOK'
  <2>1. conn' \in [ConnId -> ConnRecord]
    BY <1>4 DEF CloseAll
  <2>2. \A x \in Role : peer'[x].attempt \in 1..MaxAttempts(x)
    BY <1>0, <1>1 DEF TypeOK
  <2> QED BY <2>1, <2>2, <1>0, <1>1 DEF TypeOK
<1>6. BlankInv'
  BY <1>0, <1>2, <1>4 DEF BlankInv
<1>7. WaitInv'
  BY <1>0, <1>4, Types DEF WaitInv
<1>8. MateInv' /\ PipesArePairs'
  BY <1>0, <1>4, Types DEF MateInv, PipesArePairs
<1>9. ChannelInv'
  <2> SUFFICES ASSUME NEW x \in Role, NEW k \in Index, peer'[x].channels[k] # 0
               PROVE  /\ peer'[x].channels[k] <= lastConn'
                      /\ conn'[peer'[x].channels[k]].role = x
                      /\ conn'[peer'[x].channels[k]].index = k
    BY DEF ChannelInv
  <2>1. peer'[x].channels[k] = peer[x].channels[k]
    BY <1>1
  <2> QED BY <2>1, <1>0, <1>4, Types DEF ChannelInv
<1>10. OpenInv'
  <2> SUFFICES ASSUME NEW c \in ConnId, conn'[c].open
               PROVE  peer'[conn'[c].role].channels[conn'[c].index] = c
    BY DEF OpenInv
  <2>1. c \notin closing /\ conn'[c] = conn[c] /\ conn[c].role \in Role /\ conn[c].index \in Index
        /\ c # 0
    BY <1>0, <1>4, Types
  <2>2. peer[conn[c].role].channels[conn[c].index] = c
    BY <2>1, <1>0 DEF OpenInv
  <2>3. CASE conn[c].role = role
    BY <2>1, <2>2, <2>3, <1>1
  <2>4. CASE conn[c].role # role
    BY <2>1, <2>2, <2>4, <1>1
  <2> QED BY <2>3, <2>4
<1>11. PhaseInv'
  <2> SUFFICES ASSUME NEW x \in Role
               PROVE  /\ peer'[x].phase \in {"idle", "failed"} =>
                             \A k \in Index : peer'[x].channels[k] = 0
                      /\ peer'[x].phase \in {"primary", "auxiliary", "session", "done"} =>
                             peer'[x].channels[0] # 0
                      /\ peer'[x].phase = "primary" =>
                             \A k \in Index : k # 0 => peer'[x].channels[k] = 0
    BY DEF PhaseInv
  <2>1. CASE x = role
    BY <2>1, <1>1
  <2>2. CASE x # role
    BY <2>2, <1>0, <1>1 DEF PhaseInv
  <2> QED BY <2>1, <2>2
<1>12. CountInv'
  <2>1. \A x \in Role : x # role => Dialled(x)' = Dialled(x)
    BY <1>1 DEF Dialled, Used
  <2>2. \A x \in Role : Dialled(x) \in Nat /\ Dialled(x)' \in Nat
    <3>1. \A x \in Role : Dialled(x) \in Nat
      BY <1>0, DialledBounded
    <3>2. \A x \in Role : Dialled(x)' \in Nat
      BY <1>5, DialledNatNext
    <3> QED BY <3>1, <3>2
  <2>3. "sender" \in Role /\ "receiver" \in Role /\ (role = "sender" \/ role = "receiver")
    BY DEF Role
  <2>4. lastConn' = lastConn /\ lastConn \in Nat
    BY <1>0, Types
  <2> QED BY <2>1, <2>2, <2>3, <2>4, <1>0 DEF CountInv
<1> QED BY <1>5, <1>6, <1>7, <1>8, <1>9, <1>10, <1>11, <1>12 DEF IInv

LEMMA PeerTypes ==
    ASSUME TypeOK, NEW role \in Role
    PROVE  /\ peer[role] \in PeerRecord /\ peer[role].channels \in [Index -> 0..MaxConns]
           /\ peer[role].attempt \in 1..MaxAttempts(role) /\ peer[role].attempt \in Nat \ {0}
           /\ MaxAttempts(role) \in Nat
<1>1. peer[role] \in PeerRecord /\ peer[role].attempt \in 1..MaxAttempts(role)
  BY DEF TypeOK
<1>2. MaxAttempts(role) \in Nat
  BY Constants DEF MaxAttempts
<1> QED BY <1>1, <1>2 DEF PeerRecord

\* An attempt that will dial no more is charged for all its connections.
LEMMA DialledAtEnd ==
    ASSUME TypeOK, NEW role \in Role, NEW P, peer' = [peer EXCEPT ![role] = P],
           P.attempt = peer[role].attempt, P.phase \notin {"idle", "primary", "auxiliary"}
    PROVE  Dialled(role) <= Dialled(role)'
<1> DEFINE base == Count * (peer[role].attempt - 1)
<1>1. peer'[role] = P
  BY DEF TypeOK
<1>2. base \in Nat
  BY PeerTypes, Constants
<1>3. Dialled(role)' = base + Count
  BY <1>1 DEF Dialled
<1>4. Dialled(role) = base + Cardinality(Used(role)) \/ Dialled(role) = base + Count
  BY DEF Dialled
<1> HIDE DEF base
<1> QED BY <1>2, <1>3, <1>4, UsedFinite, Constants

LEMMA PrimaryReadyStep ==
    ASSUME IInv, NEW role \in Role, PrimaryReady(role)
    PROVE  IInv'
<1> DEFINE phase == IF Count = 1 THEN "session" ELSE "auxiliary"
           P == [peer[role] EXCEPT !.phase = phase]
<1>0. TypeOK /\ PhaseInv /\ peer[role] \in PeerRecord /\ peer[role].phase = "primary"
  BY PeerTypes DEF IInv, PrimaryReady
<1>1. P \in PeerRecord /\ P.phase = phase /\ P.attempt = peer[role].attempt
      /\ P.channels = peer[role].channels
  BY <1>0 DEF PeerRecord
<1>2. peer' = [peer EXCEPT ![role] = P] /\ UNCHANGED <<waiting, lastConn>>
  BY <1>0 DEF PrimaryReady, TypeOK
<1>3. CloseAll({})
  BY <1>0 DEF CloseAll, PrimaryReady, TypeOK
<1>4. Dialled(role) <= Dialled(role)'
  <2>1. CASE phase = "session"
    BY <2>1, <1>0, <1>1, <1>2, DialledAtEnd
  <2>2. CASE phase = "auxiliary"
    <3>1. peer'[role] = P
      BY <1>0, <1>2 DEF TypeOK
    <3>2. Used(role)' = Used(role)
      BY <3>1, <1>1 DEF Used
    <3>3. Dialled(role)' = Dialled(role)
      BY <3>1, <3>2, <2>2, <1>0, <1>1 DEF Dialled
    <3> QED BY <3>3, <1>0, DialledNat
  <2> QED BY <2>1, <2>2
<1>5. P.channels[0] # 0 /\ P.phase \in {"session", "auxiliary"}
  BY <1>0, <1>1 DEF PhaseInv
<1>6. P.attempt \in 1..MaxAttempts(role)
  BY <1>0, <1>1, PeerTypes
<1> HIDE DEF P, phase
<1> QED BY <1>1, <1>2, <1>3, <1>4, <1>5, <1>6, ClosingStep

LEMMA BundleStep ==
    ASSUME IInv, NEW role \in Role, BundleReady(role) \/ BundleFails(role)
    PROVE  IInv'
<1>0. /\ TypeOK /\ PhaseInv /\ peer[role] \in PeerRecord /\ peer[role].phase = "auxiliary"
      /\ peer[role].channels \in [Index -> 0..MaxConns] /\ 0 \in Index
  BY PeerTypes, Constants DEF IInv, BundleReady, BundleFails
<1>1. CASE BundleReady(role)
  <2> DEFINE P == [peer[role] EXCEPT !.phase = "session"]
  <2>1. P \in PeerRecord /\ P.phase = "session" /\ P.attempt = peer[role].attempt
        /\ P.channels = peer[role].channels
    BY <1>0 DEF PeerRecord
  <2>2. peer' = [peer EXCEPT ![role] = P] /\ UNCHANGED <<waiting, lastConn>>
    BY <1>0, <1>1 DEF BundleReady, TypeOK
  <2>3. CloseAll({})
    BY <1>0, <1>1 DEF CloseAll, BundleReady, TypeOK
  <2>4. P.channels[0] # 0 /\ P.attempt \in 1..MaxAttempts(role)
    BY <1>0, <2>1, PeerTypes DEF PhaseInv
  <2> HIDE DEF P
  <2>5. Dialled(role) <= Dialled(role)'
    BY <1>0, <2>1, <2>2, DialledAtEnd
  <2> QED BY <2>1, <2>2, <2>3, <2>4, <2>5, ClosingStep
<1>2. CASE BundleFails(role)
  <2> DEFINE kept == [k \in Index |-> IF k = 0 THEN peer[role].channels[0] ELSE 0]
             P == [peer[role] EXCEPT !.phase = "session", !.channels = kept]
             closing == Channels(role) \ {peer[role].channels[0]}
  <2>0. kept \in [Index -> 0..MaxConns]
    BY <1>0, Constants
  <2>1. P \in PeerRecord /\ P.phase = "session" /\ P.attempt = peer[role].attempt
        /\ P.channels = kept
    BY <1>0, <2>0 DEF PeerRecord
  <2>2. peer' = [peer EXCEPT ![role] = P] /\ UNCHANGED <<waiting, lastConn>> /\ CloseAll(closing)
    BY <1>0, <1>2 DEF BundleFails, TypeOK
  <2>3. kept[0] # 0 /\ P.attempt \in 1..MaxAttempts(role)
    BY <1>0, <2>1, PeerTypes DEF PhaseInv
  <2>4. \A k \in Index : \/ kept[k] = peer[role].channels[k]
                         \/ kept[k] = 0 /\ peer[role].channels[k] \in closing \cup {0}
    <3> SUFFICES ASSUME NEW k \in Index, k # 0, peer[role].channels[k] # 0,
                        peer[role].channels[k] = peer[role].channels[0]
                 PROVE  FALSE
      BY DEF Channels
    <3> QED BY <1>0 DEF IInv, ChannelInv
  <2>5. closing \in SUBSET Channels(role)
    OBVIOUS
  <2> HIDE DEF P, kept, closing
  <2>6. Dialled(role) <= Dialled(role)'
    BY <1>0, <2>1, <2>2, DialledAtEnd
  <2>7. /\ P.channels[0] # 0
        /\ \A k \in Index : \/ P.channels[k] = peer[role].channels[k]
                            \/ P.channels[k] = 0 /\ peer[role].channels[k] \in closing \cup {0}
    BY <2>1, <2>3, <2>4
  <2>8. P \in PeerRecord /\ P.phase = "session" /\ P.attempt \in 1..MaxAttempts(role)
    BY <2>1, <2>3
  <2>9. /\ P.phase \in {"idle", "failed"} => \A k \in Index : P.channels[k] = 0
        /\ P.phase \in {"primary", "auxiliary", "session", "done"} => P.channels[0] # 0
        /\ P.phase = "primary" => \A k \in Index : k # 0 => P.channels[k] = 0
    BY <2>7, <2>8
  <2>10. /\ P \in PeerRecord /\ P.attempt \in 1..MaxAttempts(role)
         /\ peer' = [peer EXCEPT ![role] = P] /\ CloseAll(closing)
         /\ UNCHANGED <<waiting, lastConn>>
    BY <2>2, <2>8
  <2> QED BY ONLY IInv, role \in Role, <2>5, <2>6, <2>7, <2>9, <2>10, ClosingStep
<1> QED BY <1>1, <1>2

LEMMA IdleRecord ==
    ASSUME NEW a \in Nat
    PROVE  /\ Idle(a) \in PeerRecord /\ Idle(a).phase = "idle" /\ Idle(a).attempt = a
           /\ \A k \in Index : Idle(a).channels[k] = 0
           /\ LET F == [Idle(a) EXCEPT !.phase = "failed"] IN
              /\ F \in PeerRecord /\ F.phase = "failed" /\ F.attempt = a
              /\ \A k \in Index : F.channels[k] = 0
<1>1. [k \in Index |-> 0] \in [Index -> 0..MaxConns]
  BY Constants
<1> QED BY <1>1 DEF Idle, PeerRecord

\* A peer that gives an attempt up.
LEMMA EndsStep ==
    ASSUME IInv, NEW role \in Role, CloseAll(Channels(role)), UNCHANGED <<waiting, lastConn>>,
           NEW P, peer' = [peer EXCEPT ![role] = P],
           \/ P = [Idle(peer[role].attempt) EXCEPT !.phase = "failed"]
           \/ peer[role].attempt < MaxAttempts(role) /\ P = Idle(peer[role].attempt + 1)
    PROVE  IInv'
<1>0. /\ TypeOK /\ peer[role].attempt \in Nat \ {0} /\ peer[role].attempt \in 1..MaxAttempts(role)
      /\ MaxAttempts(role) \in Nat
  BY PeerTypes DEF IInv
<1>1. \A k \in Index : peer[role].channels[k] \in Channels(role) \cup {0}
  BY DEF Channels
<1>2. CASE P = [Idle(peer[role].attempt) EXCEPT !.phase = "failed"]
  <2>1. /\ P \in PeerRecord /\ P.phase = "failed" /\ P.attempt = peer[role].attempt
        /\ \A k \in Index : P.channels[k] = 0
    <3> DEFINE a == peer[role].attempt
    <3>1. a \in Nat /\ P = [Idle(a) EXCEPT !.phase = "failed"]
      BY <1>0, <1>2
    <3> HIDE DEF a
    <3>2. /\ P \in PeerRecord /\ P.phase = "failed" /\ P.attempt = a
          /\ \A k \in Index : P.channels[k] = 0
      BY <3>1, IdleRecord
    <3> QED BY <3>2 DEF a
  <2>2. Dialled(role) <= Dialled(role)'
    BY <2>1, <1>0, DialledAtEnd
  <2>3. Channels(role) \in SUBSET Channels(role)
    OBVIOUS
  <2>4. P.attempt \in 1..MaxAttempts(role)
    BY <2>1, <1>0
  <2>5. \A k \in Index : P.channels[k] = 0 /\ peer[role].channels[k] \in Channels(role) \cup {0}
    BY <2>1, <1>1
  <2> QED BY <2>1, <2>2, <2>3, <2>4, <2>5, ClosingStep
<1>3. CASE peer[role].attempt < MaxAttempts(role) /\ P = Idle(peer[role].attempt + 1)
  <2> DEFINE a == peer[role].attempt
             base == Count * (a - 1)
  <2>1. /\ P \in PeerRecord /\ P.phase = "idle" /\ P.attempt = a + 1
        /\ \A k \in Index : P.channels[k] = 0
    <3> DEFINE b == peer[role].attempt + 1
    <3>1. b \in Nat /\ P = Idle(b)
      BY <1>0, <1>3
    <3> HIDE DEF b
    <3>2. P \in PeerRecord /\ P.phase = "idle" /\ P.attempt = b /\ \A k \in Index : P.channels[k] = 0
      BY <3>1, IdleRecord
    <3> QED BY <3>2 DEF b
  <2>2. peer'[role] = P
    BY <1>0 DEF TypeOK
  <2>3. Used(role)' = {}
    BY <2>1, <2>2 DEF Used
  <2>4. Cardinality(Used(role)') = 0
    BY <2>3, FS_EmptySet
  <2>5. base \in Nat /\ Count * ((a + 1) - 1) = base + Count
    <3>1. \A n, b \in Nat \ {0} : n * (b - 1) \in Nat /\ n * ((b + 1) - 1) = n * (b - 1) + n
      OBVIOUS
    <3> QED BY <3>1, <1>0, Constants
  <2>6. Dialled(role)' = base + Count
    <3>1. Dialled(role)' = Count * ((a + 1) - 1) + 0
      BY <2>1, <2>2, <2>4 DEF Dialled
    <3> QED BY <3>1, <2>5, Constants
  <2>7. Dialled(role) = base + Cardinality(Used(role)) \/ Dialled(role) = base + Count
    BY DEF Dialled
  <2>8. P.attempt \in 1..MaxAttempts(role)
    BY <2>1, <1>0, <1>3
  <2> HIDE DEF base
  <2>9. Dialled(role) <= Dialled(role)'
    BY <2>5, <2>6, <2>7, UsedFinite, Constants
  <2>10. Channels(role) \in SUBSET Channels(role)
    OBVIOUS
  <2>11. \A k \in Index : P.channels[k] = 0 /\ peer[role].channels[k] \in Channels(role) \cup {0}
    BY <2>1, <1>1
  <2> QED BY <2>1, <2>8, <2>9, <2>10, <2>11, ClosingStep
<1> QED BY <1>2, <1>3

LEMMA GiveUpStep ==
    ASSUME IInv, NEW role \in Role, GiveUp(role)
    PROVE  IInv'
<1> DEFINE P == IF peer[role].attempt < MaxAttempts(role) THEN Idle(peer[role].attempt + 1)
                ELSE [Idle(peer[role].attempt) EXCEPT !.phase = "failed"]
<1>1. TypeOK
  BY DEF IInv
<1>2. peer' = [peer EXCEPT ![role] = P] /\ CloseAll(Channels(role)) /\ UNCHANGED <<waiting, lastConn>>
  BY <1>1 DEF GiveUp, TypeOK
<1> QED BY <1>2, EndsStep

LEMMA PairTimeoutStep ==
    ASSUME IInv, NEW role \in Role, PairTimeout(role)
    PROVE  IInv'
<1> DEFINE P == [Idle(peer[role].attempt) EXCEPT !.phase = "failed"]
<1>1. TypeOK
  BY DEF IInv
<1>2. peer' = [peer EXCEPT ![role] = P] /\ CloseAll(Channels(role)) /\ UNCHANGED <<waiting, lastConn>>
  BY <1>1 DEF PairTimeout, TypeOK
<1> QED BY <1>2, EndsStep

LEMMA FinishStep ==
    ASSUME IInv, NEW role \in Role, Finish(role)
    PROVE  IInv'
<1> DEFINE P == [peer[role] EXCEPT !.phase = "done"]
<1>0. TypeOK /\ PhaseInv /\ peer[role] \in PeerRecord /\ peer[role].phase = "session"
  BY PeerTypes DEF IInv, Finish
<1>1. P \in PeerRecord /\ P.phase = "done" /\ P.attempt = peer[role].attempt
      /\ P.channels = peer[role].channels
  BY <1>0 DEF PeerRecord
<1>2. peer' = [peer EXCEPT ![role] = P] /\ UNCHANGED <<waiting, lastConn>> /\ CloseAll(Channels(role))
  BY <1>0 DEF Finish, TypeOK
<1>3. P.channels[0] # 0 /\ P.attempt \in 1..MaxAttempts(role)
  BY <1>0, <1>1, PeerTypes DEF PhaseInv
<1> HIDE DEF P
<1>4. Dialled(role) <= Dialled(role)'
  BY <1>0, <1>1, <1>2, DialledAtEnd
<1> QED BY <1>1, <1>2, <1>3, <1>4, ClosingStep

\* A new connection of a peer, at an index it does not use yet.
LEMMA JoinStep ==
    ASSUME IInv, NEW role \in Role, NEW k \in Index, Join(role, k),
           peer[role].channels[k] = 0, NEW P \in PeerRecord,
           peer' = [peer EXCEPT ![role] = P],
           P.attempt = peer[role].attempt,
           P.channels = [peer[role].channels EXCEPT ![k] = lastConn + 1],
           \/ peer[role].phase = "idle" /\ P.phase = "primary" /\ k = 0
           \/ peer[role].phase = "auxiliary" /\ P.phase = "auxiliary"
    PROVE  IInv'
<1> DEFINE n == lastConn + 1
           C == [role |-> role, index |-> k, open |-> TRUE, server |-> "accepted", mate |-> 0]
<1>0. /\ TypeOK /\ BlankInv /\ WaitInv /\ MateInv /\ PipesArePairs
      /\ ChannelInv /\ OpenInv /\ PhaseInv /\ CountInv
  BY DEF IInv
<1>1. /\ peer'[role] = P
      /\ \A x \in Role : x # role => peer'[x] = peer[x]
      /\ peer' \in [Role -> PeerRecord]
  BY <1>0 DEF TypeOK
<1>2. n \in ConnId /\ n > lastConn /\ n # 0 /\ lastConn \in Nat
  <2>1. Used(role) # Index
    BY DEF Used
  <2>2. n \in ConnId
    BY <2>1, <1>0, RoomLeft
  <2> QED BY <2>2, <1>0, Types
<1>3. C \in ConnRecord /\ C.role = role /\ C.index = k /\ C.open = TRUE
      /\ C.server = "accepted" /\ C.mate = 0
  BY Constants DEF ConnRecord
<1>4. /\ lastConn' = n /\ waiting' = waiting /\ conn' = [conn EXCEPT ![n] = C]
  BY DEF Join
<1> HIDE DEF C
<1>5. /\ conn' \in [ConnId -> ConnRecord] /\ conn'[n] = C
      /\ \A c \in ConnId : c # n => conn'[c] = conn[c]
  BY <1>0, <1>2, <1>3, <1>4 DEF TypeOK
<1>6. /\ conn[n].open = FALSE /\ conn[n].server = "none" /\ conn[n].mate = 0
      /\ \A c \in ConnId : conn[c].mate # n
      /\ \A j \in Index, x \in Role : waiting[j][x] # n /\ peer[x].channels[j] # n
  <2>1. conn[n] = NoConn
    BY <1>0, <1>2 DEF BlankInv
  <2>2. conn[n].open = FALSE /\ conn[n].server = "none" /\ conn[n].mate = 0
    BY <2>1 DEF NoConn
  <2>3. \A c \in ConnId : conn[c].mate # n
    BY <2>2, <1>0, <1>2, Types DEF PipesArePairs
  <2>4. \A j \in Index, x \in Role : waiting[j][x] # n
    BY <2>2, <1>0, <1>2 DEF WaitInv
  <2>5. \A j \in Index, x \in Role : peer[x].channels[j] # n
    BY <1>0, <1>2, Types DEF ChannelInv
  <2> QED BY <2>2, <2>3, <2>4, <2>5
<1>7. /\ P.channels[k] = n /\ \A j \in Index : j # k => P.channels[j] = peer[role].channels[j]
  BY <1>0, PeerTypes
<1> HIDE DEF n
<1>8. TypeOK'
  <2>1. n \in 0..MaxConns
    BY <1>2, Constants DEF ConnId
  <2>2. \A x \in Role : peer'[x].attempt \in 1..MaxAttempts(x)
    BY <1>0, <1>1 DEF TypeOK
  <2> QED BY <2>1, <2>2, <1>0, <1>1, <1>4, <1>5 DEF TypeOK
<1>9. BlankInv'
  <2> SUFFICES ASSUME NEW c \in ConnId, c > n
               PROVE  conn'[c] = NoConn
    BY <1>4 DEF BlankInv
  <2>1. c # n /\ c > lastConn
    BY <1>0, <1>2, Types
  <2> QED BY <2>1, <1>0, <1>5 DEF BlankInv
<1>10. WaitInv'
  <2>1. ASSUME NEW c \in ConnId, conn'[c].server = "waiting"
        PROVE  waiting'[conn'[c].index][conn'[c].role] = c
    BY <2>1, <1>0, <1>3, <1>4, <1>5 DEF WaitInv
  <2>2. ASSUME NEW j \in Index, NEW x \in Role, waiting'[j][x] # 0
        PROVE  LET c == waiting'[j][x] IN
               conn'[c].server = "waiting" /\ conn'[c].role = x /\ conn'[c].index = j
    <3>1. waiting[j][x] # n /\ waiting[j][x] \in ConnId /\ waiting'[j][x] = waiting[j][x]
      BY <2>2, <1>0, <1>4, <1>6, Types
    <3> QED BY <3>1, <2>2, <1>0, <1>5 DEF WaitInv
  <2> QED BY <2>1, <2>2, <1>0, <1>4 DEF WaitInv
<1>11. MateInv'
  BY <1>0, <1>3, <1>5 DEF MateInv
<1>12. PipesArePairs'
  <2> SUFFICES ASSUME NEW c \in ConnId, conn'[c].mate # 0
               PROVE  /\ conn'[conn'[c].mate].mate = c
                      /\ conn'[conn'[c].mate].role # conn'[c].role
                      /\ conn'[conn'[c].mate].index = conn'[c].index
    BY DEF PipesArePairs
  <2>1. c # n /\ conn'[c] = conn[c]
    BY <1>3, <1>5
  <2>2. conn[c].mate \in ConnId /\ conn[c].mate # n
    BY <2>1, <1>0, <1>6, Types
  <2>3. conn'[conn[c].mate] = conn[conn[c].mate]
    BY <2>2, <1>5
  <2> QED BY <2>1, <2>3, <1>0 DEF PipesArePairs
<1>13. ChannelInv'
  <2> SUFFICES ASSUME NEW x \in Role, NEW j \in Index, peer'[x].channels[j] # 0
               PROVE  /\ peer'[x].channels[j] <= lastConn'
                      /\ conn'[peer'[x].channels[j]].role = x
                      /\ conn'[peer'[x].channels[j]].index = j
    BY DEF ChannelInv
  <2>1. CASE x = role /\ j = k
    <3>1. peer'[x].channels[j] = n
      BY <2>1, <1>1, <1>7
    <3>2. n <= n
      BY <1>2, Types, <1>0
    <3> QED BY <2>1, <3>1, <3>2, <1>3, <1>4, <1>5
  <2>2. CASE ~(x = role /\ j = k)
    <3>1. peer'[x].channels[j] = peer[x].channels[j]
      BY <2>2, <1>1, <1>7
    <3>2. peer[x].channels[j] \in ConnId /\ peer[x].channels[j] # n
      BY <3>1, <1>0, <1>6, Types
    <3>3. peer[x].channels[j] <= lastConn
      BY <3>1, <1>0 DEF ChannelInv
    <3>4. peer[x].channels[j] <= n
      BY <3>2, <3>3, <1>0, <1>2, Types
    <3> QED BY <3>1, <3>2, <3>4, <1>0, <1>4, <1>5 DEF ChannelInv
  <2> QED BY <2>1, <2>2
<1>14. OpenInv'
  <2> SUFFICES ASSUME NEW c \in ConnId, conn'[c].open
               PROVE  peer'[conn'[c].role].channels[conn'[c].index] = c
    BY DEF OpenInv
  <2>1. CASE c = n
    BY <2>1, <1>1, <1>3, <1>5, <1>7
  <2>2. CASE c # n
    <3>1. conn'[c] = conn[c] /\ peer[conn[c].role].channels[conn[c].index] = c
          /\ conn[c].role \in Role /\ conn[c].index \in Index /\ c # 0
      BY <2>2, <1>0, <1>5, Types DEF OpenInv
    <3>2. CASE conn[c].role # role
      BY <3>1, <3>2, <1>1
    <3>3. CASE conn[c].role = role
      <4>1. conn[c].index # k /\ peer'[role] = P
        BY <3>1, <3>3, <1>1
      <4>2. peer[role].channels[conn[c].index] = c
        BY <3>1, <3>3
      <4>3. P.channels[conn[c].index] = peer[role].channels[conn[c].index]
        BY ONLY <3>1, <4>1, <1>7
      <4>4. conn'[c].role = role /\ conn'[c].index = conn[c].index
        BY <3>1, <3>3
      <4> QED BY ONLY <4>1, <4>2, <4>3, <4>4
    <3> QED BY <3>2, <3>3
  <2> QED BY <2>1, <2>2
<1>15. PhaseInv'
  <2> SUFFICES ASSUME NEW x \in Role
               PROVE  /\ peer'[x].phase \in {"idle", "failed"} =>
                             \A j \in Index : peer'[x].channels[j] = 0
                      /\ peer'[x].phase \in {"primary", "auxiliary", "session", "done"} =>
                             peer'[x].channels[0] # 0
                      /\ peer'[x].phase = "primary" =>
                             \A j \in Index : j # 0 => peer'[x].channels[j] = 0
    BY DEF PhaseInv
  <2>1. CASE x = role
    <3>1. P.channels[0] # 0
      BY <1>0, <1>2, <1>7, Constants DEF PhaseInv
    <3>2. P.phase = "primary" => \A j \in Index : j # 0 => P.channels[j] = 0
      BY <1>0, <1>7 DEF PhaseInv
    <3> QED BY <2>1, <3>1, <3>2, <1>1
  <2>2. CASE x # role
    BY <2>2, <1>0, <1>1 DEF PhaseInv
  <2> QED BY <2>1, <2>2
<1>16. CountInv'
  <2>1. Used(role)' = Used(role) \cup {k} /\ k \notin Used(role)
    <3>1. \A j \in Index : P.channels[j] # 0 <=> (peer[role].channels[j] # 0 \/ j = k)
      BY <1>2, <1>7
    <3>2. Used(role)' = {j \in Index : P.channels[j] # 0}
      BY <1>1 DEF Used
    <3> QED BY <3>1, <3>2 DEF Used
  <2>2. Cardinality(Used(role)') = Cardinality(Used(role)) + 1
    BY <2>1, UsedFinite, FS_AddElement
  <2>3. Dialled(role)' = Dialled(role) + 1
    <3> DEFINE base == Count * (peer[role].attempt - 1)
    <3>1. Dialled(role)' = base + Cardinality(Used(role)')
      BY <1>1 DEF Dialled
    <3>2. Dialled(role) = base + Cardinality(Used(role))
      BY DEF Dialled
    <3>3. base \in Nat /\ Cardinality(Used(role)) \in Nat
      BY <1>0, PeerTypes, UsedFinite, Constants
    <3> HIDE DEF base
    <3> QED BY <3>1, <3>2, <3>3, <2>2
  <2>4. \A x \in Role : x # role => Dialled(x)' = Dialled(x)
    BY <1>1 DEF Dialled, Used
  <2>5. \A x \in Role : Dialled(x) \in Nat
    BY <1>0, DialledNat
  <2>6. "sender" \in Role /\ "receiver" \in Role /\ (role = "sender" \/ role = "receiver")
    BY DEF Role
  <2>7. lastConn' = lastConn + 1
    BY DEF Join
  <2> QED BY <2>3, <2>4, <2>5, <2>6, <2>7, <1>0, <1>2 DEF CountInv
<1> QED BY <1>8, <1>9, <1>10, <1>11, <1>12, <1>13, <1>14, <1>15, <1>16 DEF IInv

LEMMA DialStep ==
    ASSUME IInv, NEW role \in Role, Dial(role)
    PROVE  IInv'
<1> DEFINE joined == [peer[role].channels EXCEPT ![0] = lastConn + 1]
           P == [peer[role] EXCEPT !.phase = "primary", !.channels = joined]
<1>0. /\ TypeOK /\ CountInv /\ peer[role] \in PeerRecord /\ peer[role].phase = "idle" /\ 0 \in Index
      /\ peer[role].channels \in [Index -> 0..MaxConns] /\ peer[role].channels[0] = 0
  BY PeerTypes, Constants DEF IInv, PhaseInv, Dial
<1>1. joined \in [Index -> 0..MaxConns]
  <2>1. lastConn + 1 \in 0..MaxConns
    BY <1>0, RoomLeft, Constants DEF Used, ConnId
  <2> QED BY <2>1, <1>0
<1>2. P \in PeerRecord /\ P.phase = "primary" /\ P.attempt = peer[role].attempt
      /\ P.channels = joined
  BY <1>0, <1>1 DEF PeerRecord
<1>3. peer' = [peer EXCEPT ![role] = P] /\ Join(role, 0)
  BY <1>0 DEF Dial, TypeOK, PeerRecord
<1> HIDE DEF P
<1> QED BY <1>0, <1>2, <1>3, JoinStep

LEMMA JoinAuxiliaryStep ==
    ASSUME IInv, NEW role \in Role, NEW k \in Index, JoinAuxiliary(role, k)
    PROVE  IInv'
<1> DEFINE joined == [peer[role].channels EXCEPT ![k] = lastConn + 1]
           P == [peer[role] EXCEPT !.channels = joined]
<1>0. /\ TypeOK /\ CountInv /\ peer[role] \in PeerRecord /\ peer[role].phase = "auxiliary"
      /\ peer[role].channels \in [Index -> 0..MaxConns] /\ peer[role].channels[k] = 0
  BY PeerTypes DEF IInv, JoinAuxiliary
<1>1. joined \in [Index -> 0..MaxConns]
  <2>1. lastConn + 1 \in 0..MaxConns
    BY <1>0, RoomLeft, Constants DEF Used, ConnId
  <2> QED BY <2>1, <1>0
<1>2. P \in PeerRecord /\ P.phase = "auxiliary" /\ P.attempt = peer[role].attempt
      /\ P.channels = joined
  BY <1>0, <1>1 DEF PeerRecord
<1>3. peer' = [peer EXCEPT ![role] = P] /\ Join(role, k)
  BY <1>0 DEF JoinAuxiliary, TypeOK, PeerRecord
<1> HIDE DEF P
<1> QED BY <1>0, <1>2, <1>3, JoinStep

(***************************************************************************)
(* The specification.                                                       *)
(***************************************************************************)

LEMMA Initial ==
    ASSUME Init
    PROVE  IInv
<1>1. \A role \in Role : peer[role] = Idle(1)
  BY DEF Init
<1>2. /\ Idle(1) \in PeerRecord /\ Idle(1).phase = "idle" /\ Idle(1).attempt = 1
      /\ \A k \in Index : Idle(1).channels[k] = 0
  BY IdleRecord
<1>3. NoConn \in ConnRecord /\ NoConn.open = FALSE /\ NoConn.server = "none" /\ NoConn.mate = 0
  BY Constants DEF NoConn, ConnRecord
<1>4. \A c \in ConnId : conn[c] = NoConn
  BY DEF Init
<1>5. \A k \in Index, role \in Role : waiting[k][role] = 0
  BY DEF Init
<1>6. TypeOK
  <2>1. \A role \in Role : 1 \in 1..MaxAttempts(role)
    BY Constants DEF MaxAttempts
  <2>2. peer \in [Role -> PeerRecord]
    BY <1>2 DEF Init
  <2>3. conn \in [ConnId -> ConnRecord]
    BY <1>3 DEF Init
  <2>4. waiting \in [Index -> [Role -> 0..MaxConns]] /\ lastConn \in 0..MaxConns
    BY Constants DEF Init
  <2> QED BY <2>1, <2>2, <2>3, <2>4, <1>1, <1>2 DEF TypeOK
<1>7. BlankInv /\ MateInv /\ PipesArePairs /\ OpenInv
  BY <1>3, <1>4 DEF BlankInv, MateInv, PipesArePairs, OpenInv
<1>8. WaitInv
  BY <1>3, <1>4, <1>5, Constants DEF WaitInv
<1>9. ChannelInv /\ PhaseInv
  BY <1>1, <1>2 DEF ChannelInv, PhaseInv
<1>10. CountInv
  <2>1. Dialled("sender") \in Nat /\ Dialled("receiver") \in Nat
    BY <1>6, DialledNat, Constants
  <2> QED BY <2>1 DEF CountInv, Init
<1> QED BY <1>6, <1>7, <1>8, <1>9, <1>10 DEF IInv

LEMMA Inductive ==
    ASSUME IInv, [Next]_vars
    PROVE  IInv'
<1>1. ASSUME NEW role \in Role, PeerStep(role)
      PROVE  IInv'
  <2>1. CASE Dial(role)
    BY <2>1, DialStep
  <2>2. CASE PrimaryReady(role)
    BY <2>2, PrimaryReadyStep
  <2>3. ASSUME NEW k \in Index, JoinAuxiliary(role, k)
        PROVE  IInv'
    BY <2>3, JoinAuxiliaryStep
  <2>4. CASE BundleReady(role) \/ BundleFails(role)
    BY <2>4, BundleStep
  <2>5. CASE ServerClosed(role)
    BY <2>5, GiveUpStep DEF ServerClosed
  <2>6. CASE PairTimeout(role)
    BY <2>6, PairTimeoutStep
  <2>7. CASE Finish(role)
    BY <2>7, FinishStep
  <2> QED BY <1>1, <2>1, <2>2, <2>3, <2>4, <2>5, <2>6, <2>7 DEF PeerStep
<1>2. ASSUME NEW role \in Role, ConnectionLost(role)
      PROVE  IInv'
  BY <1>2, GiveUpStep DEF ConnectionLost
<1>3. ASSUME NEW c \in ConnId, Handle(c)
      PROVE  IInv'
  BY <1>3, HandleStep
<1>4. ASSUME NEW c \in ConnId, PipeEnds(c)
      PROVE  IInv'
  BY <1>4, PipeEndsStep
<1>5. ASSUME NEW k \in Index, Expire(k)
      PROVE  IInv'
  BY <1>5, ExpireStep
<1>6. CASE UNCHANGED vars
  BY <1>6 DEF vars, IInv, TypeOK, BlankInv, WaitInv, MateInv, PipesArePairs, ChannelInv,
              OpenInv, PhaseInv, CountInv, Dialled, Used
<1> QED BY <1>1, <1>2, <1>3, <1>4, <1>5, <1>6 DEF Next

\* The invariant holds of the relay and its two peers, for any number of
\* connections and attempts (relay.go, JoinBundle, the retries).
THEOREM Invariant == Spec => []IInv
<1>1. Init => IInv
  BY Initial
<1>2. IInv /\ [Next]_vars => IInv'
  BY Inductive
<1> QED BY <1>1, <1>2, PTL DEF Spec

\* The relay neither forgets a connection nor mixes two, however many clients
\* join, expire, leave and come back: each one it keeps waits where its peer
\* finds it, or is in one pipe with one peer of its index (takePeer, handle,
\* cleanupExpired, pipe).
THEOREM KeepsPairs == Spec => []ServerKeepsPairs
<1>1. ASSUME IInv
      PROVE  ServerKeepsPairs
  <2>1. TypeOK /\ WaitInv /\ PipesArePairs
    BY <1>1 DEF IInv
  <2>2. ASSUME NEW c \in ConnId, waiting[conn[c].index][conn[c].role] = c
        PROVE  conn[c].server = "waiting"
    BY <2>1, <2>2, Types DEF WaitInv
  <2> QED BY <2>1, <2>2 DEF ServerKeepsPairs, WaiterIsRegistered, WaitInv
<1> QED BY <1>1, Invariant, PTL

\* Two live ends of one pipe are what the two peers use now: nothing that an
\* earlier attempt left at the relay ever carries data to a peer's current
\* connection (JoinBundle, closeBundle, runTransferWithReconnect).
THEOREM PipesAreCurrent == Spec => []LivePipesAreCurrent
<1>1. ASSUME IInv
      PROVE  LivePipesAreCurrent
  <2>1. TypeOK /\ OpenInv /\ PipesArePairs
    BY <1>1 DEF IInv
  <2> SUFFICES ASSUME NEW c \in ConnId, conn[c].mate # 0, conn[c].open,
                      conn[conn[c].mate].open
               PROVE  /\ peer[conn[c].role].channels[conn[c].index] = c
                      /\ peer[conn[conn[c].mate].role].channels[conn[c].index] = conn[c].mate
    BY DEF LivePipesAreCurrent
  <2>2. conn[c].mate \in ConnId /\ conn[conn[c].mate].index = conn[c].index
    BY <2>1, Types DEF PipesArePairs
  <2> QED BY <2>1, <2>2 DEF OpenInv
<1> QED BY <1>1, Invariant, PTL
=============================================================================
