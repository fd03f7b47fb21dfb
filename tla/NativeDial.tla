------------------------------ MODULE NativeDial -------------------------------
(***************************************************************************)
(* How two native peers of a room get from pairing to one transport         *)
(* (dialRelayTransport in internal/app/app.go, internal/app/lan_relay.go):  *)
(* race for a relay, try a direct connection, ask over an external relay    *)
(* for a LAN connection, and use the relay when nothing better works.  The  *)
(* sender hosts the LAN relay; it must live as long as it is used and no    *)
(* longer.                                                                  *)
(***************************************************************************)
EXTENDS DirectRace, Sequences

VARIABLES
    direct1,    \* whether both peers try a direct connection (peersShouldAttemptDirect)
    upgrade,    \* whether both peers offer the LAN upgrade
    embedded,   \* whether the sender's LAN relay runs
    mail,       \* per peer: LAN upgrade messages it has not read from its relay pipe
    at,         \* per peer: where dialRelayTransport is
    route       \* per peer: the transport it returned

dialVars == <<direct1, upgrade, embedded, mail, at, route>>
vars == <<raceVars, directVars, dialVars>>

NoRoute == [kind |-> "none", relay |-> 0, links |-> {}]

Init ==
    /\ RaceInit /\ DirectInit
    /\ direct1 \in BOOLEAN /\ upgrade \in BOOLEAN
    /\ (~direct1 => reachable \cap Primaries(1) = {} /\ mode = "oneway")
    /\ reachable \cap Primaries(2) \in (IF upgrade THEN {{}, Primaries(2)} ELSE {{}})
    /\ LAN \in offered[Sender] /\ offered[Sender] \cap offered[Receiver] # {}
    /\ (mode = "oneway" => \A k \in reachable : Dialer(k) = Receiver)
    /\ listener = [p \in Peers |-> IF direct1 /\ (p = Sender \/ mode = "both") THEN 1 ELSE 0]
    /\ embedded = TRUE
    /\ mail = [p \in Peers |-> << >>]
    /\ at = [p \in Peers |-> "race"]
    /\ route = [p \in Peers |-> NoRoute]

Best(p) == race[p].best

\* The other end of the relay pipe p has won is still there.
PipeWorks(p) == pipe[Other(p)][Best(p)] = "open" /\ pipe[p][Best(p)] = "open"

\* embedded.Stop: the pipes of the LAN relay break.
Pipes(stops, closed) ==
    pipe' = [p \in Peers |-> [l \in Relays |->
                IF closed[p][l] = "open" /\ stops /\ l = LAN THEN "closed" ELSE closed[p][l]]]

Stops(p) == p = Sender /\ embedded

Return(p, result) ==
    /\ route' = [route EXCEPT ![p] = result]
    /\ at' = [at EXCEPT ![p] = "done"]

\* The race failed: the deferred Stop ends the LAN relay.
RaceLost(p) ==
    /\ at[p] = "race" /\ race[p].stage = "lost"
    /\ Return(p, [NoRoute EXCEPT !.kind = "error"])
    /\ embedded' = (embedded /\ p # Sender)
    /\ Pipes(Stops(p), pipe)
    /\ listener' = [listener EXCEPT ![p] = 0]
    /\ link' = Closing(link, p, Backlog(p, 1))
    /\ UNCHANGED <<offered, join, race, untimely, mode, reachable, direct, direct1, upgrade, mail>>

\* The relay route: the sender's LAN relay is kept when it is the route.
FinishRelay(p) ==
    /\ Return(p, [NoRoute EXCEPT !.kind = "relay", !.relay = Best(p)])
    /\ embedded' = (embedded /\ (p = Sender => Best(p) = LAN))
    /\ Pipes(Stops(p) /\ Best(p) # LAN, pipe)

\* A direct connection works: the relay pipe is closed, the LAN relay stopped.
FinishDirect(p) ==
    /\ Return(p, [kind |-> "direct", relay |-> 0,
                  links |-> {direct[p].chosen, Aux(direct[p].attempt)}])
    /\ embedded' = (embedded /\ p # Sender)
    /\ Pipes(Stops(p), [pipe EXCEPT ![p][Best(p)] = "closed"])

\* shouldAttemptLANUpgrade: only over an external relay.
Upgrades(p) == upgrade /\ Best(p) = External

\* Peers that both may, begin with a direct connection; otherwise the listener
\* is closed and the relay route finalized.
RaceWon(p) ==
    /\ at[p] = "race" /\ race[p].stage = "won"
    /\ IF direct1
       THEN /\ Begin(p, 1) /\ at' = [at EXCEPT ![p] = "direct"]
            /\ UNCHANGED <<pipe, route, embedded>>
       ELSE IF Upgrades(p)
       THEN at' = [at EXCEPT ![p] = "upgrade"] /\ UNCHANGED <<direct, pipe, route, embedded>>
       ELSE FinishRelay(p) /\ UNCHANGED direct
    /\ UNCHANGED <<offered, join, race, untimely, mode, reachable, link, listener,
                   direct1, upgrade, mail>>

\* The direct attempt is over.
DirectEnds(p) ==
    /\ at[p] = "direct"
    /\ \/ direct[p].stage = "up" /\ FinishDirect(p)
       \/ /\ direct[p].stage = "failed"
          /\ IF Upgrades(p) THEN at' = [at EXCEPT ![p] = "upgrade"] /\ UNCHANGED <<pipe, route, embedded>>
                            ELSE FinishRelay(p)
    /\ UNCHANGED <<offered, join, race, untimely, directVars, direct1, upgrade, mail>>

(***************************************************************************)
(* The LAN upgrade: a request and a response over the relay pipe, then a    *)
(* one-way attempt on a fresh listener.                                     *)
(***************************************************************************)

Deliver(p, message) == mail' = [mail EXCEPT ![Other(p)] = Append(@, message)]

\* tryLANUpgradeReceiver sends its request.
Request ==
    /\ at[Receiver] = "upgrade"
    /\ IF PipeWorks(Receiver)
       THEN /\ Deliver(Receiver, "request") /\ at' = [at EXCEPT ![Receiver] = "response"]
            /\ UNCHANGED <<pipe, route, embedded>>
       ELSE FinishRelay(Receiver) /\ UNCHANGED mail
    /\ UNCHANGED <<offered, join, race, untimely, directVars, direct1, upgrade>>

\* tryLANUpgradeSender answers it with the candidates of a new listener, or
\* with an error when it cannot listen.
Respond ==
    /\ at[Sender] = "upgrade" /\ mail[Sender] # << >>
    /\ \/ /\ mail' = [mail EXCEPT ![Sender] = Tail(@), ![Receiver] = Append(@, "response")]
          /\ listener' = [listener EXCEPT ![Sender] = 2]
          /\ Begin(Sender, 2)
          /\ at' = [at EXCEPT ![Sender] = "lan"]
          /\ UNCHANGED <<pipe, route, embedded>>
       \/ /\ mail' = [mail EXCEPT ![Sender] = Tail(@), ![Receiver] = Append(@, "error")]
          /\ FinishRelay(Sender)
          /\ UNCHANGED <<listener, direct>>
    /\ UNCHANGED <<offered, join, race, untimely, mode, reachable, link, direct1, upgrade>>

GetResponse ==
    /\ at[Receiver] = "response" /\ mail[Receiver] # << >>
    /\ mail' = [mail EXCEPT ![Receiver] = Tail(@)]
    /\ IF Head(mail[Receiver]) = "response"
       THEN /\ Begin(Receiver, 2) /\ at' = [at EXCEPT ![Receiver] = "lan"]
            /\ UNCHANGED <<pipe, route, embedded>>
       ELSE FinishRelay(Receiver) /\ UNCHANGED direct
    /\ UNCHANGED <<offered, join, race, untimely, mode, reachable, link, listener, direct1, upgrade>>

\* Waiting for a message ends with the pipe, or with the deadline.
UpgradeLost(p) ==
    /\ at[p] = (IF p = Sender THEN "upgrade" ELSE "response")
    /\ mail[p] = << >>
    /\ untimely' = (untimely \/ PipeWorks(p))
    /\ FinishRelay(p)
    /\ UNCHANGED <<offered, join, race, directVars, direct1, upgrade, mail>>

LanEnds(p) ==
    /\ at[p] = "lan"
    /\ \/ direct[p].stage = "up" /\ FinishDirect(p)
       \/ direct[p].stage = "failed" /\ FinishRelay(p)
    /\ UNCHANGED <<offered, join, race, untimely, directVars, direct1, upgrade, mail>>

(***************************************************************************)
(* Composition.                                                             *)
(***************************************************************************)

\* The pairing times out, or the user gives up.
AbandonRace(p) ==
    /\ at[p] = "race"
    /\ Abandon(p)
    /\ UNCHANGED <<directVars, dialVars>>

Peer(p) ==
    \/ RaceStep(p) /\ UNCHANGED <<directVars, dialVars>>
    \/ DirectStep(p) /\ UNCHANGED <<offered, join, pipe, race, dialVars>>
    \/ RaceWon(p) \/ RaceLost(p) \/ DirectEnds(p) \/ LanEnds(p)
    \/ p = Receiver /\ (Request \/ GetResponse)
    \/ p = Sender /\ Respond

Timer(p) ==
    \/ (Deadline(p) \/ AuxDeadline(p)) /\ UNCHANGED <<offered, join, pipe, race, dialVars>>
    \/ UpgradeLost(p)

Network ==
    \/ \E l \in Relays : Pair(l) /\ (l = LAN => embedded) /\ UNCHANGED <<directVars, dialVars>>
    \/ Meet /\ UNCHANGED <<raceVars, dialVars>>

BothDone == \A p \in Peers : at[p] = "done"

\* Both peers have returned and no goroutine of theirs has anything to close.
Quiet ==
    /\ BothDone
    /\ \A p \in Peers, l \in Relays : join[p][l] \in {"taken", "failed"}
    /\ \A p \in Peers, k \in Links : ~IsLoser(p, k)

\* Nothing else may stop: a peer that waits for ever is a deadlock.
Returned == Quiet /\ UNCHANGED vars

Next ==
    \/ \E p \in Peers : Peer(p) \/ Timer(p) \/ AbandonRace(p)
    \/ Network
    \/ Returned

Spec == Init /\ [][Next]_vars

(***************************************************************************)
(* Properties.                                                              *)
(***************************************************************************)

Ends(p) == {k \in Links : End(p, k) \in {"open", "queued"}}
OpenPipes(p) == {l \in Relays : pipe[p][l] = "open"}

\* Nothing is left behind: when both have returned, the ends a peer has open
\* are those of the transport it returned, so that a peer whose partner
\* decided otherwise meets a closed connection and never waits on one nobody
\* serves; and the LAN relay runs exactly when the sender uses it
\* (drainCandidateResults, closeDirectRaceLosers, cleanupTransport).
NothingLeftOpen ==
    Quiet => /\ \A p \in Peers : /\ Ends(p) = route[p].links
                                 /\ OpenPipes(p) \subseteq {route[p].relay}
             /\ embedded <=> (route[Sender].kind = "relay" /\ route[Sender].relay = LAN)

\* The peers end up on the same route and both ends of it are open, unless a
\* timer of one fired while an answer of the other was on its way (RaceJoin,
\* connectBidirectionalDirectPrimary, finalizeRelayRoute).
RoutesMatch ==
    BothDone /\ ~untimely =>
        /\ route[Sender] = route[Receiver]
        /\ \A p \in Peers : /\ route[p].links \subseteq Ends(p)
                             /\ route[p].kind = "relay" => pipe[p][route[p].relay] = "open"

\* The README on the LAN upgrade: "Failure leaves the original relay
\* untouched".  A peer that falls back to the relay finds no upgrade message in
\* its pipe, and a partner that still holds the other end.  It does not hold: the
\* upgrade of one side can succeed, or its message come late, when the other has
\* given up.
RelayUntouched ==
    Quiet => \A p \in Peers : route[p].kind = "relay" =>
        /\ mail[p] = << >>
        /\ direct[p].attempt = 2 => pipe[Other(p)][route[p].relay] = "open"

================================================================================
