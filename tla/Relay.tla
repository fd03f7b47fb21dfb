-------------------------------- MODULE Relay --------------------------------
(***************************************************************************)
(* The native relay (internal/relay/relay.go) for one room token, with a    *)
(* sender and a receiver that join it over several connections              *)
(* (JoinWithOptions, JoinBundle) and dial again after a failure             *)
(* (runTransferWithReconnect).                                              *)
(*                                                                          *)
(* The server pairs the first sender and the first receiver of a connection *)
(* index.  It does not read from a waiting connection: one whose client is  *)
(* gone keeps waiting, may be paired, and blocks its role until the TTL.    *)
(* The server may handle a join after its client gave up.                   *)
(***************************************************************************)
EXTENDS Integers, FiniteSets

CONSTANTS
    Count,              \* connections both peers ask for
    SenderAttempts,     \* g.ReconnectAttempts of the two programs
    ReceiverAttempts

ASSUME RelayConstants ==
    {Count, SenderAttempts, ReceiverAttempts} \subseteq Nat \ {0}

Role == {"sender", "receiver"}
Index == 0..(Count - 1)
MaxAttempts(role) == IF role = "sender" THEN SenderAttempts ELSE ReceiverAttempts
MaxConns == Count * (SenderAttempts + ReceiverAttempts)    \* the peers dial no more
ConnId == 1..MaxConns                                      \* 0: none

Opposite(role) == IF role = "sender" THEN "receiver" ELSE "sender"

VARIABLES
    waiting,   \* s.waiting: the waiting client of each role, per index
    conn,      \* every connection
    lastConn,  \* the last connection dialled
    peer       \* the two programs

vars == <<waiting, conn, lastConn, peer>>

\* open: the client's end; server: what the server does with its end; mate:
\* the client it is piped with.
NoConn == [role |-> "sender", index |-> 0, open |-> FALSE, server |-> "none", mate |-> 0]

Idle(attempt) ==
    [phase |-> "idle", attempt |-> attempt, channels |-> [k \in Index |-> 0]]

Init ==
    /\ waiting = [k \in Index |-> [role \in Role |-> 0]]
    /\ conn = [c \in ConnId |-> NoConn]
    /\ lastConn = 0
    /\ peer = [role \in Role |-> Idle(1)]

(***************************************************************************)
(* The server.                                                              *)
(***************************************************************************)

\* The client of the other role that waits where c wants to join.
Counterpart(c) == waiting[conn[c].index][Opposite(conn[c].role)]

\* takePeer pairs c with the waiting client of the other role, dead or alive,
\* and forgets the room; handle tells both and starts the pipes.
TakePeer(c) ==
    LET other == Counterpart(c) IN
    /\ other # 0
    /\ conn' = [conn EXCEPT ![c].server = "piped", ![c].mate = other,
                            ![other].server = "piped", ![other].mate = c]
    /\ waiting' = [waiting EXCEPT ![conn[c].index] = [role \in Role |-> 0]]

\* Mutant: a second client of a role takes the place of the first.
WaitReplacing(c) ==
    /\ Counterpart(c) = 0
    /\ waiting' = [waiting EXCEPT ![conn[c].index][conn[c].role] = c]
    /\ conn' = [conn EXCEPT ![c].server = "waiting"]

\* takePeer: nobody is there, c waits.
Wait(c) ==
    /\ Counterpart(c) = 0 /\ waiting[conn[c].index][conn[c].role] = 0
    /\ waiting' = [waiting EXCEPT ![conn[c].index][conn[c].role] = c]
    /\ conn' = [conn EXCEPT ![c].server = "waiting"]

\* takePeer: "sender already waiting", and c is closed.
Refuse(c) ==
    /\ Counterpart(c) = 0 /\ waiting[conn[c].index][conn[c].role] # 0
    /\ conn' = [conn EXCEPT ![c].server = "closed"]
    /\ UNCHANGED waiting

\* The join of a client that is gone may never arrive.
Drop(c) ==
    /\ ~conn[c].open
    /\ conn' = [conn EXCEPT ![c].server = "closed"]
    /\ UNCHANGED waiting

Handle(c) ==
    /\ conn[c].server = "accepted"
    /\ TakePeer(c) \/ Wait(c) \/ Refuse(c) \/ Drop(c)
    /\ UNCHANGED <<lastConn, peer>>

\* cleanupExpired: the waiting client is told and closed.
Expire(k) ==
    /\ \E role \in Role : waiting[k][role] # 0
    /\ waiting' = [waiting EXCEPT ![k] = [role \in Role |-> 0]]
    /\ conn' = [c \in ConnId |->
           IF \E role \in Role : waiting[k][role] = c
           THEN [conn[c] EXCEPT !.server = "closed"] ELSE conn[c]]
    /\ UNCHANGED <<lastConn, peer>>

\* Mutant: a pipe closes the end it read from only.
PipeEndsOneSided(c) ==
    /\ conn[c].server = "piped" /\ ~conn[c].open
    /\ conn' = [conn EXCEPT ![c].server = "closed"]
    /\ UNCHANGED <<waiting, lastConn, peer>>

\* pipe: when one end is gone the server closes both.
PipeEnds(c) ==
    /\ conn[c].server = "piped" /\ ~conn[c].open
    /\ conn' = [conn EXCEPT ![c].server = "closed", ![conn[c].mate].server = "closed"]
    /\ UNCHANGED <<waiting, lastConn, peer>>

(***************************************************************************)
(* The peers.                                                               *)
(***************************************************************************)

Channels(role) == {peer[role].channels[k] : k \in Index} \ {0}

\* The client's ends of a set of connections are closed.
CloseAll(closing) ==
    conn' = [c \in ConnId |->
                IF c \in closing THEN [conn[c] EXCEPT !.open = FALSE] ELSE conn[c]]

\* JoinWithOptions: connect and send the join message.
Join(role, k) ==
    /\ lastConn' = lastConn + 1
    /\ conn' = [conn EXCEPT ![lastConn + 1] =
           [role |-> role, index |-> k, open |-> TRUE, server |-> "accepted", mate |-> 0]]
    /\ UNCHANGED waiting

\* The primary connection joins at index 0.
Dial(role) ==
    /\ peer[role].phase = "idle"
    /\ Join(role, 0)
    /\ peer' = [peer EXCEPT ![role].phase = "primary", ![role].channels[0] = lastConn + 1]

\* The ready status was sent to c; it can be read although the pipe has ended.
Ready(c) == conn[c].mate # 0

PrimaryReady(role) ==
    /\ peer[role].phase = "primary" /\ Ready(peer[role].channels[0])
    /\ peer' = [peer EXCEPT ![role].phase = IF Count = 1 THEN "session" ELSE "auxiliary"]
    /\ UNCHANGED <<waiting, conn, lastConn>>

\* JoinBundle joins the other indexes concurrently.
JoinAuxiliary(role, k) ==
    /\ peer[role].phase = "auxiliary" /\ peer[role].channels[k] = 0
    /\ Join(role, k)
    /\ peer' = [peer EXCEPT ![role].channels[k] = lastConn + 1]

AllReady(role) ==
    \A k \in Index : peer[role].channels[k] # 0 /\ Ready(peer[role].channels[k])

BundleReady(role) ==
    /\ peer[role].phase = "auxiliary" /\ AllReady(role)
    /\ peer' = [peer EXCEPT ![role].phase = "session"]
    /\ UNCHANGED <<waiting, conn, lastConn>>

\* Mutant: the connections that are given up stay open.
BundleFailsOpen(role) ==
    /\ peer[role].phase = "auxiliary" /\ ~AllReady(role)
    /\ peer' = [peer EXCEPT ![role].phase = "session",
           ![role].channels = [k \in Index |-> IF k = 0 THEN peer[role].channels[0] ELSE 0]]
    /\ UNCHANGED <<waiting, conn, lastConn>>

\* A refusal, the timeout or a lost connection: all auxiliary connections are
\* closed, the ready ones too, and the session has the primary one only.
BundleFails(role) ==
    /\ peer[role].phase = "auxiliary" /\ ~AllReady(role)
    /\ peer' = [peer EXCEPT ![role].phase = "session",
           ![role].channels = [k \in Index |-> IF k = 0 THEN peer[role].channels[0] ELSE 0]]
    /\ CloseAll(Channels(role) \ {peer[role].channels[0]})
    /\ UNCHANGED <<waiting, lastConn>>

\* The attempt fails with an error that is retried ("all relay candidates
\* failed: sender already waiting" is one): everything it opened is closed.
GiveUp(role) ==
    /\ peer' = [peer EXCEPT ![role] =
           IF @.attempt < MaxAttempts(role) THEN Idle(@.attempt + 1)
           ELSE [Idle(@.attempt) EXCEPT !.phase = "failed"]]
    /\ CloseAll(Channels(role))
    /\ UNCHANGED <<waiting, lastConn>>

\* The network loses a connection of the attempt.
ConnectionLost(role) ==
    /\ peer[role].phase \in {"primary", "session"}
    /\ GiveUp(role)

\* The server refused the primary connection, or closed one of the session's.
ServerClosed(role) ==
    /\ \/ peer[role].phase = "primary" /\ ~Ready(peer[role].channels[0])
       \/ peer[role].phase = "session"
    /\ \E c \in Channels(role) : conn[c].server = "closed"
    /\ GiveUp(role)

\* pairTimeoutError is not retried.
PairTimeout(role) ==
    /\ peer[role].phase = "primary" /\ ~Ready(peer[role].channels[0])
    /\ peer' = [peer EXCEPT ![role] = [Idle(@.attempt) EXCEPT !.phase = "failed"]]
    /\ CloseAll(Channels(role))
    /\ UNCHANGED <<waiting, lastConn>>

\* The transfer ends at a peer when both sessions are on one pipe; the other
\* peer may have ended already.
Finish(role) ==
    LET other == Opposite(role) IN
    /\ peer[role].phase = "session" /\ peer[other].phase \in {"session", "done"}
    /\ conn[peer[role].channels[0]].mate = peer[other].channels[0]
    /\ peer' = [peer EXCEPT ![role].phase = "done"]
    /\ CloseAll(Channels(role))
    /\ UNCHANGED <<waiting, lastConn>>

\* What a peer does on its own.
PeerStep(role) ==
    \/ Dial(role) \/ PrimaryReady(role)
    \/ (\E k \in Index : JoinAuxiliary(role, k)) \/ BundleReady(role)
    \/ BundleFails(role) \/ ServerClosed(role) \/ PairTimeout(role) \/ Finish(role)

Next ==
    \/ \E role \in Role : PeerStep(role) \/ ConnectionLost(role)
    \/ \E c \in ConnId : Handle(c) \/ PipeEnds(c)
    \/ \E k \in Index : Expire(k)

Spec == Init /\ [][Next]_vars

\* The server's goroutines and the peers run.  The TTL is not assumed to pass.
Fairness ==
    /\ \A role \in Role : WF_vars(PeerStep(role))
    /\ \A c \in ConnId : WF_vars(Handle(c)) /\ WF_vars(PipeEnds(c))

FairSpec == Spec /\ Fairness

(***************************************************************************)
(* Properties.                                                              *)
(***************************************************************************)

ConnRecord ==
    [role : Role, index : Index, open : BOOLEAN,
     server : {"none", "accepted", "waiting", "piped", "closed"}, mate : 0..MaxConns]

PeerRecord ==
    [phase : {"idle", "primary", "auxiliary", "session", "done", "failed"},
     attempt : Nat, channels : [Index -> 0..MaxConns]]

\* Every variable has the type its Go counterpart has.
TypeOK ==
    /\ waiting \in [Index -> [Role -> 0..MaxConns]]
    /\ conn \in [ConnId -> ConnRecord]
    /\ lastConn \in 0..MaxConns
    /\ peer \in [Role -> PeerRecord]
    /\ \A role \in Role : peer[role].attempt \in 1..MaxAttempts(role)

\* A connection the server keeps waiting is the registered client of its role
\* and index: no later join, pairing or expiry makes the server forget it
\* without closing or piping it; and a sender and a receiver never wait in the
\* same room until the TTL, whoever comes second is paired (takePeer,
\* cleanupExpired).
WaiterIsRegistered ==
    /\ \A c \in ConnId :
          conn[c].server = "waiting" <=> waiting[conn[c].index][conn[c].role] = c
    /\ \A k \in Index : waiting[k]["sender"] = 0 \/ waiting[k]["receiver"] = 0

\* A pipe joins a sender and a receiver of one index, each of them in no other
\* pipe: the data of one pair never reaches a third connection (handle, pipe).
PipesArePairs ==
    \A c \in ConnId : conn[c].mate # 0 =>
        /\ conn[conn[c].mate].mate = c
        /\ conn[conn[c].mate].role # conn[c].role
        /\ conn[conn[c].mate].index = conn[c].index

\* The relay neither forgets a connection nor mixes two: each one it has is
\* waiting where its peer finds it, or in one pipe with one peer.
ServerKeepsPairs == TypeOK /\ WaiterIsRegistered /\ PipesArePairs

\* Two live ends of one pipe are current connections of the two peers:
\* whatever earlier attempts left at the relay, a peer never exchanges data
\* with a connection the other peer has given up (JoinBundle, the retries).
LivePipesAreCurrent ==
    \A c \in ConnId : conn[c].mate # 0 /\ conn[c].open /\ conn[conn[c].mate].open =>
        /\ peer[conn[c].role].channels[conn[c].index] = c
        /\ peer[conn[conn[c].mate].role].channels[conn[c].index] = conn[c].mate

\* Each peer ends, done or failed: none stays on a pipe whose other end is
\* gone or in a bundle of which one connection waits (pipe, JoinBundle).
PeersEnd ==
    \A role \in Role : <>(peer[role].phase \in {"done", "failed"})
=============================================================================
