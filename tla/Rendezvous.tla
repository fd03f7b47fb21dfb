----------------------------- MODULE Rendezvous -----------------------------
(***************************************************************************)
(* How two programs that share a pairing code find a common route: each    *)
(* sends what it can do to the service's negotiation registry and waits,   *)
(* the service answers both with one choice, and programs told to use      *)
(* direct TCP meet a second time in the direct registry to exchange        *)
(* addresses (internal/service/rendezvous_ws.go, negotiate.go, direct.go;  *)
(* internal/routing/negotiate.go; internal/app/negotiate.go,               *)
(* direct_signal.go and the dialers of app.go; web/app.js).                *)
(*                                                                         *)
(* One room token.  Expiry times are abstracted: a registered room may     *)
(* lapse at any moment.  A program that goes to WebRTC is seen by the      *)
(* negotiation registry as a passive peer when it joins the signaling room *)
(* (SignalRoom models that room).  What happens on the route itself is not *)
(* modelled here: relay (Relay), WebRTC, LAN discovery; a direct attempt   *)
(* succeeds for both programs of an exchange or fails.                     *)
(***************************************************************************)
EXTENDS Naturals, Sequences, FiniteSets

CONSTANTS
    Programs,      \* invocations of kigo, and browser tabs
    RoleOf,        \* the role each was started for
    Deployments,   \* the options of the programs and of the service, together
    Relays,        \* addresses of native relays
    NoRelay,       \* no relay configured
    MaxConns,      \* bound on the WebSockets each program opens
    MaxFaults      \* bound on connection losses, pairing timeouts and restarts

Role == {"sender", "receiver"}
Registry == {"negotiation", "direct"}
Other(role) == IF role = "sender" THEN "receiver" ELSE "sender"

ASSUME ProgramAssumption == RoleOf \in [Programs -> Role]
ASSUME SettingAssumption ==
    /\ NoRelay \notin Relays
    /\ Deployments \subseteq [Programs ->
          [client : {"native", "web"}, mode : {"auto", "native", "webrtc"},
           protocol : {"transfer", "note"}, relay : Relays \cup {NoRelay},
           local : BOOLEAN, direct : BOOLEAN, reuse : BOOLEAN]] \X (Relays \cup {NoRelay})
ASSUME BoundAssumption == {MaxConns, MaxFaults} \subseteq Nat

\* The WebSockets, named by their program and a number.
ConnId == Programs \X (1..MaxConns)
NoConn == << >>

VARIABLES
    setting,      \* globalOptions of each program, kept across restarts
    serverRelay,  \* Config.NativeRelay of the service
    prog,         \* each program: where it is and what it resolved
    conn,         \* the WebSockets opened so far, with their server handlers
    rooms,        \* the room of the token in each registry
    blocked,      \* a handler is stuck on a full result channel, with s.mu held
    faults        \* losses, timeouts and restarts so far

vars == <<setting, serverRelay, prog, conn, rooms, blocked, faults>>

Plan(relay, local, direct) == [relay |-> relay, local |-> local, signalDirect |-> direct]
WebRTCPlan == Plan(NoRelay, FALSE, FALSE)

NewProgram ==
    [pc |-> "start", plan |-> WebRTCPlan, talk |-> NoConn, swap |-> NoConn,
     offer |-> << >>, heard |-> FALSE, next |-> "none"]

\* A room has a slot for each role: empty, or the peer with its capability.
\* A room without peers is not registered.
NoRoom == [role \in Role |-> {}]

Init ==
    /\ \E deployment \in Deployments :
          setting = deployment[1] /\ serverRelay = deployment[2]
    /\ prog = [p \in Programs |-> NewProgram]
    /\ conn = [n \in {} |-> n]
    /\ rooms = [registry \in Registry |-> NoRoom]
    /\ blocked = FALSE
    /\ faults = 0

RoleAt(n) == RoleOf[n[1]]
At(p, pc) == prog[p].pc = pc

(***************************************************************************)
(* The registry.  A passive peer has no connection behind it.              *)
(***************************************************************************)
Peer(n, capability) == [conn |-> n, cap |-> capability]

Failure == [kind |-> "error"]

\* expire: the waiters of a room are told, unless they already have an
\* outcome; the passive ones are skipped.
Expire(conns, room) ==
    [n \in DOMAIN conns |->
        IF /\ \E role \in Role : \E peer \in room[role] : peer.conn = n
           /\ conns[n].result = << >>
        THEN [conns[n] EXCEPT !.result = <<Failure>>]
        ELSE conns[n]]

\* The room a join finds: one that has outlived its deadline is expired and
\* replaced.
CanLapse(registry) == rooms[registry] # NoRoom
Found(registry, lapsed) == IF lapsed THEN NoRoom ELSE rooms[registry]

\* Mutant: a peer gives back the slot of its role, whoever holds it.
LeftAny(room, role, n) == [room EXCEPT ![role] = {}]

\* leave: only the peer that still holds the slot gives it back.
Left(room, role, n) ==
    [room EXCEPT ![role] = {peer \in @ : peer.conn # n}]

(***************************************************************************)
(* routing.Choose, and what the two registries answer.                     *)
(***************************************************************************)
Response(route, relay, local, direct) ==
    [kind |-> "negotiated", route |-> route, relay |-> relay, local |-> local, direct |-> direct]

\* Mutant: one direct-capable program is enough.
ChooseEitherDirect(sender, receiver) ==
    LET direct == sender.direct \/ receiver.direct
    IN IF sender.client # "native" \/ receiver.client # "native" \/ sender.local # receiver.local
       THEN Response("webrtc", NoRelay, FALSE, FALSE)
       ELSE IF sender.local THEN Response("native", NoRelay, TRUE, FALSE)
       ELSE IF sender.relay = receiver.relay /\ sender.relay # NoRelay
       THEN Response("native", sender.relay, FALSE, direct)
       ELSE Response("native", serverRelay, FALSE, direct)

Choose(sender, receiver) ==
    LET direct == sender.direct /\ receiver.direct
        webRTC == Response("webrtc", NoRelay, FALSE, FALSE)
    IN IF sender.client # "native" \/ receiver.client # "native" \/ sender.local # receiver.local
       THEN webRTC
       ELSE IF sender.local THEN Response("native", NoRelay, TRUE, FALSE)
       ELSE IF sender.relay = receiver.relay /\ sender.relay # NoRelay
       THEN Response("native", sender.relay, FALSE, direct)
       ELSE IF serverRelay # NoRelay \/ direct
       THEN Response("native", serverRelay, FALSE, direct)
       ELSE webRTC

\* What the peer of a role is told when both are there.
Outcome(registry, slots, role) ==
    LET cap == [r \in Role |-> (CHOOSE peer \in slots[r] : TRUE).cap]
    IN IF registry = "direct"
       THEN [kind |-> "direct_peer", peer |-> cap[Other(role)],
             punch |-> cap["sender"].bidirectional /\ cap["receiver"].bidirectional]
       ELSE IF cap["sender"].protocol # cap["receiver"].protocol THEN Failure
       ELSE Choose(cap["sender"], cap["receiver"])

\* complete: a room with both peers is removed.
Remaining(slots) == IF \E role \in Role : slots[role] = {} THEN slots ELSE NoRoom

\* join and complete, under s.mu: the peer takes its slot (a passive one is
\* replaced) and, when both slots are taken, each active peer is sent its
\* outcome and the room is removed.  The send blocks on a channel that still
\* holds an outcome.
Enter(registry, lapsed, role, peer, before) ==
    LET conns == IF lapsed THEN Expire(before, rooms[registry]) ELSE before
        slots == [Found(registry, lapsed) EXCEPT ![role] = {peer}]
        active == {r \in Role : \E q \in slots[r] : q.conn # NoConn}
        ids == [r \in Role |-> (CHOOSE q \in slots[r] : TRUE).conn]
        Answered(n) ==
            LET r == CHOOSE r \in active : ids[r] = n
            IN [conns[n] EXCEPT !.result = Append(@, Outcome(registry, slots, r)),
                                !.mate = ids[Other(r)]]
    IN /\ rooms' = [rooms EXCEPT ![registry] = Remaining(slots)]
       /\ IF slots[Other(role)] = {}
          THEN conn' = conns /\ UNCHANGED blocked
          ELSE /\ conn' = [n \in DOMAIN conns |->
                             IF \E r \in active : ids[r] = n THEN Answered(n) ELSE conns[n]]
               /\ blocked' = (\E r \in active : conns[ids[r]].result # << >>)

(***************************************************************************)
(* The handlers of the service, one per WebSocket.                         *)
(***************************************************************************)

\* handleNegotiate, handleDirect: the capability has arrived.  A second active
\* peer of a role is refused.
Join(n) ==
    LET registry == conn[n].registry
        role == RoleAt(n)
    IN /\ ~blocked /\ conn[n].stage = "sent"
       /\ \E lapsed \in {FALSE, CanLapse(registry)} :
             IF \E peer \in Found(registry, lapsed)[role] : peer.conn # NoConn
             THEN /\ conn' = [conn EXCEPT ![n].stage = "closed", ![n].sent = << >>,
                                          ![n].reply = IF conn[n].up THEN <<Failure>> ELSE @]
                  /\ UNCHANGED <<rooms, blocked>>
             ELSE Enter(registry, lapsed, role, Peer(n, conn[n].sent[1]),
                        [conn EXCEPT ![n].stage = "waiting", ![n].sent = << >>])
       /\ UNCHANGED <<setting, serverRelay, prog, faults>>

\* The capability was lost with the connection.
Drop(n) ==
    /\ conn[n].stage = "sent" /\ ~conn[n].up
    /\ conn' = [conn EXCEPT ![n].stage = "closed", ![n].sent = << >>]
    /\ UNCHANGED <<setting, serverRelay, prog, rooms, blocked, faults>>

\* serveRendezvousResult: the outcome is written to the WebSocket.
Answer(n) ==
    /\ conn[n].stage = "waiting" /\ conn[n].result # << >>
    /\ conn' = [conn EXCEPT ![n].stage = "leaving", ![n].result = Tail(@),
                            ![n].reply = IF conn[n].up THEN <<Head(conn[n].result)>> ELSE @]
    /\ UNCHANGED <<setting, serverRelay, prog, rooms, blocked, faults>>

\* The deferred leave and close, after the answer or when the read loop or a
\* ping found the program gone.
Leave(n) ==
    /\ ~blocked
    /\ conn[n].stage = "leaving" \/ (conn[n].stage = "waiting" /\ ~conn[n].up)
    /\ rooms' = [rooms EXCEPT ![conn[n].registry] = Left(@, RoleAt(n), n)]
    /\ conn' = [conn EXCEPT ![n].stage = "closed", ![n].result = << >>]
    /\ UNCHANGED <<setting, serverRelay, prog, blocked, faults>>

\* Mutant: the direct registry is not cleaned up.
CleanupNegotiations(lapsed) ==
    /\ ~blocked /\ lapsed = {"negotiation"} /\ CanLapse("negotiation")
    /\ rooms' = [rooms EXCEPT !["negotiation"] = NoRoom]
    /\ conn' = Expire(conn, rooms["negotiation"])
    /\ UNCHANGED <<setting, serverRelay, prog, blocked, faults>>

\* expireBefore, from the service's cleanup: some rooms have outlived their
\* deadlines.
Cleanup(lapsed) ==
    /\ ~blocked /\ lapsed # {} /\ \A registry \in lapsed : CanLapse(registry)
    /\ rooms' = [registry \in Registry |-> Found(registry, registry \in lapsed)]
    /\ conn' = [n \in DOMAIN conn |->
                   LET registry == conn[n].registry
                   IN IF registry \in lapsed THEN Expire(conn, rooms[registry])[n] ELSE conn[n]]
    /\ UNCHANGED <<setting, serverRelay, prog, blocked, faults>>

(***************************************************************************)
(* The programs.                                                           *)
(***************************************************************************)
Goto(p, pc) == [prog EXCEPT ![p].pc = pc]

\* planNativeRoute: which dialer takes the resolved options.
Dialer(p, plan) ==
    IF plan.signalDirect /\ setting[p].direct /\ ~plan.local THEN "dialing direct"
    ELSE IF plan.relay = NoRelay /\ ~plan.local THEN "signaling"
    ELSE "relay"

Planned(p, plan, heard) ==
    [prog EXCEPT ![p].pc = Dialer(p, plan), ![p].plan = plan, ![p].heard = heard]

\* A WebSocket on which the capability has been sent.
Opened(n, registry, capability) ==
    [m \in DOMAIN conn \cup {n} |->
        IF m # n THEN conn[m]
        ELSE [registry |-> registry, up |-> TRUE, sent |-> <<capability>>, stage |-> "sent",
              result |-> << >>, reply |-> << >>, mate |-> NoConn]]

NewConn(p) == <<p, 1 + Cardinality({n \in DOMAIN conn : n[1] = p})>>

\* The program closes its end; what it has not read is lost.
Hangup(n) == IF n = NoConn THEN conn ELSE [conn EXCEPT ![n].up = FALSE, ![n].reply = << >>]

Capability(p) ==
    [client |-> setting[p].client, protocol |-> setting[p].protocol,
     relay |-> setting[p].relay, local |-> setting[p].local, direct |-> setting[p].direct]

\* Without an answer a native program keeps the relay or LAN it was given.
Unanswered(p) ==
    IF setting[p].relay # NoRelay \/ setting[p].local
    THEN Plan(setting[p].relay, setting[p].local, FALSE) ELSE WebRTCPlan

\* resolveTransportOptions with a forced transport.
ResolveForced(p) ==
    /\ At(p, "start") /\ setting[p].mode # "auto"
    /\ prog' = IF setting[p].mode = "webrtc" THEN Planned(p, WebRTCPlan, FALSE)
               ELSE IF setting[p].relay = NoRelay /\ ~setting[p].local /\ ~setting[p].direct
               THEN Goto(p, "failed")
               ELSE Planned(p, Plan(setting[p].relay, setting[p].local,
                                    ~setting[p].local /\ setting[p].direct), FALSE)
    /\ UNCHANGED <<setting, serverRelay, conn, rooms, blocked, faults>>

\* negotiateTransportRoute, negotiateBrowserRoute: connect and offer.
Offer(p) ==
    /\ At(p, "start") /\ setting[p].mode = "auto" /\ NewConn(p) \in ConnId
    /\ conn' = Opened(NewConn(p), "negotiation", Capability(p))
    /\ prog' = [prog EXCEPT ![p].pc = "negotiating", ![p].talk = NewConn(p)]
    /\ UNCHANGED <<setting, serverRelay, rooms, blocked, faults>>

\* The service cannot be reached, or is too old to negotiate.
OfferFails(p) ==
    /\ At(p, "start") /\ setting[p].mode = "auto"
    /\ faults < MaxFaults /\ faults' = faults + 1
    /\ prog' = Planned(p, Unanswered(p), FALSE)
    /\ UNCHANGED <<setting, serverRelay, conn, rooms, blocked>>

\* The rest of resolveTransportOptions.  An error after the offer ends a
\* browser's task; a native program falls back.
Resolve(p, outcome) ==
    LET plan == Plan(outcome.relay, outcome.local, outcome.direct /\ setting[p].direct)
    IN CASE outcome.kind = "error" ->
              IF setting[p].client = "web" THEN Goto(p, "failed")
              ELSE Planned(p, Unanswered(p), FALSE)
         [] outcome.kind # "error" /\ outcome.route = "webrtc" -> Planned(p, WebRTCPlan, TRUE)
         [] OTHER ->
              IF \/ setting[p].client = "web"
                 \/ plan.relay = NoRelay /\ ~plan.local /\ ~plan.signalDirect
              THEN Goto(p, "unusable") ELSE Planned(p, plan, TRUE)

ReadRoute(p) ==
    LET n == prog[p].talk
    IN /\ At(p, "negotiating") /\ conn[n].up /\ conn[n].reply # << >>
       /\ prog' = Resolve(p, conn[n].reply[1])
       /\ conn' = Hangup(n)
       /\ UNCHANGED <<setting, serverRelay, rooms, blocked, faults>>

RouteLost(p) ==
    /\ At(p, "negotiating") /\ ~conn[prog[p].talk].up
    /\ prog' = Resolve(p, Failure)
    /\ UNCHANGED <<setting, serverRelay, conn, rooms, blocked, faults>>

\* dialAfterSignaledDirect.
AfterDirect(p, useRelay) ==
    CASE useRelay -> "relay"
      [] ~useRelay /\ setting[p].mode = "native" -> "failed"
      [] OTHER -> "signaling"

\* A fallback to WebRTC forgets the native route.
Fallback(p, pc) ==
    [prog EXCEPT ![p].pc = pc, ![p].plan = IF pc = "signaling" THEN WebRTCPlan ELSE @,
                 ![p].offer = << >>, ![p].next = "none"]

\* dialSignaledDirect up to the exchange.  Whether direct TCP is deferred is
\* read from the route history before listening and again for the offer.
Exchange(p) ==
    /\ At(p, "dialing direct") /\ NewConn(p) \in ConnId
    /\ \E listening, prefers \in BOOLEAN :
          LET offer == [candidates |-> listening, prefers |-> prefers,
                        bidirectional |-> listening /\ setting[p].reuse,
                        relayFallback |-> prog[p].plan.relay # NoRelay]
          IN /\ conn' = Opened(NewConn(p), "direct", offer)
             /\ prog' = [prog EXCEPT ![p].pc = "exchanging", ![p].swap = NewConn(p),
                                     ![p].offer = <<offer>>]
    /\ UNCHANGED <<setting, serverRelay, rooms, blocked, faults>>

ExchangeFails(p) ==
    /\ At(p, "dialing direct")
    /\ faults < MaxFaults /\ faults' = faults + 1
    /\ prog' = Fallback(p, AfterDirect(p, prog[p].plan.relay # NoRelay))
    /\ UNCHANGED <<setting, serverRelay, conn, rooms, blocked>>

\* exchangeDirectCapability: a bidirectional peer without a punch time is an
\* error.
Accepts(reply) == reply.kind = "direct_peer" /\ (reply.peer.bidirectional => reply.punch)

\* dialSignaledDirect after the exchange.  The history is read a third time;
\* the receiver of the one-way flow closes the listener it may not have.
TryDirect(p, own, peer) ==
    LET useRelay == prog[p].plan.relay # NoRelay /\ peer.relayFallback
        available == IF RoleOf[p] = "sender" THEN own.candidates ELSE peer.candidates
        both == own.bidirectional /\ peer.bidirectional
    IN \E prefers \in BOOLEAN :
          IF ~available \/ ~prefers \/ ~peer.prefers
          THEN prog' = Fallback(p, AfterDirect(p, useRelay))
          ELSE IF ~both /\ RoleOf[p] = "receiver" /\ ~own.candidates
          THEN prog' = Goto(p, "crashed")
          ELSE prog' = [prog EXCEPT ![p].pc = "direct", ![p].next = AfterDirect(p, useRelay),
                                    ![p].offer = << >>]

ReadPeer(p) ==
    LET n == prog[p].swap
    IN /\ At(p, "exchanging") /\ conn[n].up /\ conn[n].reply # << >>
       /\ IF Accepts(conn[n].reply[1])
          THEN TryDirect(p, prog[p].offer[1], conn[n].reply[1].peer)
          ELSE prog' = Fallback(p, AfterDirect(p, prog[p].plan.relay # NoRelay))
       /\ conn' = Hangup(n)
       /\ UNCHANGED <<setting, serverRelay, rooms, blocked, faults>>

PeerLost(p) ==
    /\ At(p, "exchanging") /\ ~conn[prog[p].swap].up
    /\ prog' = Fallback(p, AfterDirect(p, prog[p].plan.relay # NoRelay))
    /\ UNCHANGED <<setting, serverRelay, conn, rooms, blocked, faults>>

\* The direct connections of the two programs of one exchange.
DirectConnects(p, q) ==
    /\ At(p, "direct") /\ At(q, "direct") /\ conn[prog[p].swap].mate = prog[q].swap
    /\ prog' = [prog EXCEPT ![p].pc = "connected", ![q].pc = "connected"]
    /\ UNCHANGED <<setting, serverRelay, conn, rooms, blocked, faults>>

DirectFails(p) ==
    /\ At(p, "direct")
    /\ prog' = Fallback(p, prog[p].next)
    /\ UNCHANGED <<setting, serverRelay, conn, rooms, blocked, faults>>

\* The program joins the signaling room; observeWebRTCOnlyProtocol makes it a
\* passive peer, unless its slot is taken.
JoinSignaling(p) ==
    LET capability == [client |-> "webrtc", protocol |-> setting[p].protocol,
                       relay |-> NoRelay, local |-> FALSE, direct |-> FALSE]
    IN /\ ~blocked /\ At(p, "signaling")
       /\ prog' = Goto(p, "webrtc")
       /\ \E lapsed \in {FALSE, CanLapse("negotiation")} :
             IF Found("negotiation", lapsed)[RoleOf[p]] # {}
             THEN UNCHANGED <<conn, rooms, blocked>>
             ELSE Enter("negotiation", lapsed, RoleOf[p], Peer(NoConn, capability), conn)
       /\ UNCHANGED <<setting, serverRelay, faults>>

(***************************************************************************)
(* Faults.                                                                 *)
(***************************************************************************)
Waiting(p) ==
    CASE At(p, "negotiating") -> prog[p].talk
      [] At(p, "exchanging") -> prog[p].swap
      [] OTHER -> NoConn

\* The WebSocket of a waiting program breaks.
Lose(p) ==
    /\ Waiting(p) # NoConn /\ conn[Waiting(p)].up
    /\ faults < MaxFaults /\ faults' = faults + 1
    /\ conn' = Hangup(Waiting(p))
    /\ UNCHANGED <<setting, serverRelay, prog, rooms, blocked>>

\* The pairing window ends: no fallback.
PairTimeout(p) ==
    /\ Waiting(p) # NoConn
    /\ faults < MaxFaults /\ faults' = faults + 1
    /\ conn' = Hangup(Waiting(p))
    /\ prog' = Goto(p, "failed")
    /\ UNCHANGED <<setting, serverRelay, rooms, blocked>>

\* The program is stopped and started again with the same code.
Restart(p) ==
    /\ ~At(p, "start")
    /\ faults < MaxFaults /\ faults' = faults + 1
    /\ conn' = Hangup(Waiting(p))
    /\ prog' = [prog EXCEPT ![p] = NewProgram]
    /\ UNCHANGED <<setting, serverRelay, rooms, blocked>>

Serve(n) == Join(n) \/ Drop(n) \/ Answer(n) \/ Leave(n)

Run(p) ==
    \/ ResolveForced(p) \/ Offer(p) \/ ReadRoute(p) \/ RouteLost(p)
    \/ Exchange(p) \/ ReadPeer(p) \/ PeerLost(p)
    \/ DirectFails(p) \/ JoinSignaling(p)

Next ==
    \/ \E n \in DOMAIN conn : Serve(n)
    \/ \E lapsed \in SUBSET Registry : Cleanup(lapsed)
    \/ \E p \in Programs :
          \/ Run(p) \/ OfferFails(p) \/ ExchangeFails(p)
          \/ Lose(p) \/ PairTimeout(p) \/ Restart(p)
    \/ \E p, q \in Programs : DirectConnects(p, q)

Spec == Init /\ [][Next]_vars

\* Handlers and programs go on; deadlines pass and the cleanup runs once a
\* minute.  No connection need break and no pairing window end.
Fairness ==
    /\ WF_vars(\E n \in DOMAIN conn : Serve(n))
    /\ WF_vars(\E lapsed \in SUBSET Registry : Cleanup(lapsed))
    /\ WF_vars(\E p \in Programs : Run(p))

FairSpec == Spec /\ Fairness

(***************************************************************************)
(* Properties.                                                             *)
(***************************************************************************)
NegotiationCapability ==
    [client : {"native", "web", "webrtc"}, protocol : {"transfer", "note"},
     relay : Relays \cup {NoRelay}, local : BOOLEAN, direct : BOOLEAN]
DirectCapability ==
    [candidates : BOOLEAN, prefers : BOOLEAN, bidirectional : BOOLEAN, relayFallback : BOOLEAN]

TypeOK ==
    /\ <<setting, serverRelay>> \in Deployments
    /\ prog \in [Programs ->
          [pc : {"start", "negotiating", "dialing direct", "exchanging", "direct", "signaling",
                 "connected", "relay", "webrtc", "failed", "unusable", "crashed"},
           plan : [relay : Relays \cup {NoRelay}, local : BOOLEAN, signalDirect : BOOLEAN],
           talk : ConnId \cup {NoConn}, swap : ConnId \cup {NoConn}, heard : BOOLEAN,
           offer : {<< >>} \cup {<<offer>> : offer \in DirectCapability},
           next : {"none", "relay", "signaling", "failed"}]]
    /\ \A n \in DOMAIN conn :
          /\ n \in ConnId /\ conn[n].registry \in Registry
          /\ \A k \in DOMAIN conn[n].sent : conn[n].sent[k] \in NegotiationCapability \cup DirectCapability
          /\ conn[n].mate \in ConnId \cup {NoConn}
          /\ conn[n].stage \in {"sent", "waiting", "leaving", "closed"}
          /\ Len(conn[n].reply) <= 1
    /\ \A registry \in Registry : \A role \in Role :
          Cardinality(rooms[registry][role]) <= 1
    /\ faults \in 0..MaxFaults

\* A handler that completes a room under s.mu never waits for a result
\* channel: each peer is sent at most one outcome, whatever expiries, late
\* leaves and passive joins came before (completeNegotiationLocked,
\* completeDirectLocked).
ServiceNeverBlocks == ~blocked

\* A handler that waits for an outcome is the registered peer of its role, and
\* a registered peer has a handler: no late leave of an earlier connection, no
\* replacement and no passive join makes the service forget a waiter or keep
\* a slot nobody will give back (join, leave, expire).
WaiterIsRegistered ==
    /\ \A n \in DOMAIN conn :
          conn[n].stage = "waiting" /\ conn[n].result = << >> =>
              \E peer \in rooms[conn[n].registry][RoleAt(n)] : peer.conn = n
    /\ \A registry \in Registry : \A role \in Role :
          \A peer \in rooms[registry][role] :
              peer.conn # NoConn => conn[peer.conn].stage \in {"waiting", "leaving"}

\* The registries stay in step with their handlers: nobody who waits is forgotten,
\* no slot is kept for nobody, and no completion waits under s.mu.
ServiceKeepsWaiters == TypeOK /\ ServiceNeverBlocks /\ WaiterIsRegistered

\* Both programs heard the outcome of one completion.
Paired(p, q) ==
    /\ prog[p].heard /\ prog[q].heard
    /\ conn[prog[p].talk].mate = prog[q].talk

AtRest(p) == prog[p].pc \in {"connected", "relay", "webrtc"}

\* Two programs that heard the same answer come to rest on the same route,
\* with the same relay, whichever of them lost its exchange, was refused by
\* the direct registry or met a stale connection there; and the answer always
\* names a route the program can take (Choose, resolveTransportOptions,
\* dialSignaledDirect).
RoutesAgree ==
    /\ \A p, q \in Programs : Paired(p, q) /\ AtRest(p) /\ AtRest(q) =>
          prog[p].pc = prog[q].pc /\ prog[p].plan = prog[q].plan
    /\ \A p \in Programs : ~At(p, "unusable")

\* Every program comes to rest or fails: none stays in a room that its peer
\* has left or never comes to (expire, serveRendezvousResult).
ProgramsSettle ==
    \A p \in Programs : <>[](AtRest(p) \/ prog[p].pc \in {"failed", "crashed"})

Elements(sequence) == {sequence[k] : k \in DOMAIN sequence}

\* Two programs that both want direct TCP, the sender listening, accept what
\* the service tells them of each other, also when one of them cannot dial
\* from its listening port and the one-way flow is left (completeDirectLocked,
\* exchangeDirectCapability).  It does not hold: a bidirectional peer is named
\* without a punch time, which Accepts refuses.
LegacyFlowPreserved ==
    \A p \in Programs : \A n \in {prog[p].swap} \cap DOMAIN conn :
        \A own \in Elements(prog[p].offer), reply \in Elements(conn[n].reply) :
            /\ reply.kind = "direct_peer" /\ own.prefers /\ reply.peer.prefers
            /\ IF RoleOf[p] = "sender" THEN own.candidates ELSE reply.peer.candidates
            => Accepts(reply)
=============================================================================
