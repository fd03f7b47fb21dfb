------------------------------ MODULE DirectRace -------------------------------
(***************************************************************************)
(* The direct connections of two native peers (internal/app/direct.go,      *)
(* internal/app/direct_bidirectional.go): which of the connections that the *)
(* peers dial to each other's listeners becomes the primary one, and the    *)
(* auxiliary connection next to it.  There are two attempts, each with      *)
(* listeners of its own: 1 after the peers have met on a relay, one-way or  *)
(* in both directions, 2 the one-way LAN upgrade.                           *)
(*                                                                          *)
(* A connection has a dialing and an accepting end.  The dialer writes its  *)
(* hello and waits for the answer; the acceptor reads it and answers, and   *)
(* then holds a verified connection whether or not the answer arrives.      *)
(* Two dials that meet (a simultaneous open) make a connection both peers   *)
(* have dialed: its hellos answer each other.                               *)
(***************************************************************************)
EXTENDS RelayRace

CONSTANTS
    Candidates,    \* the addresses of a listener of attempt 1
    LANCandidates, \* those of attempt 2
    Crossing       \* whether two dials can meet

Attempts == {1, 2}

\* A connection: the attempt, who dials and to which candidate; "cross" is the
\* connection of two dials, "aux" the auxiliary one.
Primaries(a) ==
    IF a = 1 THEN {<<1, p, c>> : p \in Peers, c \in Candidates}
             ELSE {<<2, Receiver, c>> : c \in LANCandidates}
Cross == <<1, Sender, "cross">>
Aux(a) == <<a, Receiver, "aux">>
Links == Primaries(1) \cup Primaries(2) \cup {Cross, Aux(1), Aux(2)}

Dialer(k) == k[2]
NoLink == <<"none">>
Pending == <<"pending">>
Failed == <<"failed">>

VARIABLES
    mode,        \* how attempt 1 connects: oneway or both
    reachable,   \* the primary connections the network lets through
    link,        \* per connection: its two ends, and whether the hello was answered
    listener,    \* per peer: the attempt whose listener is open, 0: none
    direct       \* per peer: the attempt, its stage, the two outcomes, the choice

directVars == <<mode, reachable, link, listener, direct>>

Idle == [attempt |-> 0, stage |-> "idle", accept |-> Failed, dial |-> Failed, chosen |-> NoLink]

DirectInit ==
    /\ mode \in {"oneway", "both"}
    /\ reachable \in SUBSET (Primaries(1) \cup Primaries(2))
    /\ link = [k \in Links |-> [dial |-> "none", accept |-> "none", answered |-> FALSE]]
    /\ direct = [p \in Peers |-> Idle]

BothWays(a) == a = 1 /\ mode = "both"

\* The end of p: of the cross connection both are dialed.
End(p, k) == IF Dialer(k) = p THEN link[k].dial ELSE link[k].accept

WithEnd(links, p, k, value) ==
    IF Dialer(k) = p THEN [links EXCEPT ![k].dial = value] ELSE [links EXCEPT ![k].accept = value]

\* p closes its ends of these connections.
Closing(links, p, ks) ==
    [k \in Links |-> IF k \notin ks THEN links[k]
                     ELSE IF Dialer(k) = p THEN [links[k] EXCEPT !.dial = "closed"]
                     ELSE [links[k] EXCEPT !.accept = "closed"]]

\* Connections of attempt a that wait in the backlog of p's listener.
Backlog(p, a) == {k \in Links : k[1] = a /\ Dialer(k) # p /\ link[k].accept = "queued"}

Shut(p) == listener' = [listener EXCEPT ![p] = 0]

\* acceptDirectPrimary and connectDirectPrimary, or both at once.
Begin(p, a) ==
    direct' = [direct EXCEPT ![p] =
        [attempt |-> a, stage |-> "primary", chosen |-> NoLink,
         accept |-> IF BothWays(a) \/ p = Sender THEN Pending ELSE Failed,
         dial |-> IF BothWays(a) \/ p = Receiver THEN Pending ELSE Failed]]

InPrimary(p) == direct[p].stage \in {"primary", "finish"}
Dialing(p) == InPrimary(p) /\ direct[p].dial = Pending
OwnDials(p) == {k \in Primaries(direct[p].attempt) : Dialer(k) = p}

(***************************************************************************)
(* The candidates of a dialer race; the first verified one ends the race.   *)
(***************************************************************************)

\* dialDirectCandidate: the connection reaches the listener, or is refused.
\* Once the attempt is decided a dial that has not begun is cancelled.
Dial(p, k) ==
    /\ Dialing(p) /\ k \in OwnDials(p) /\ link[k].dial = "none"
    /\ link' = IF direct[p].stage = "primary" /\ k \in reachable /\ listener[Other(p)] = k[1]
               THEN [link EXCEPT ![k].dial = "open", ![k].accept = "queued"]
               ELSE [link EXCEPT ![k].dial = "closed"]
    /\ UNCHANGED <<mode, reachable, listener, direct>>

\* Two dials between the same addresses meet: instead of two connections there
\* is one.
Meet ==
    /\ Crossing /\ link[Cross].dial = "none"
    /\ \A p \in Peers : Dialing(p) /\ direct[p].stage = "primary" /\ BothWays(direct[p].attempt)
    /\ \E s, r \in Primaries(1) :
         /\ Dialer(s) = Sender /\ Dialer(r) = Receiver /\ link[s].dial = "none" /\ link[r].dial = "none"
         /\ link' = [link EXCEPT ![s].dial = "closed", ![r].dial = "closed",
                                 ![Cross] = [dial |-> "open", accept |-> "open", answered |-> TRUE]]
    /\ UNCHANGED <<mode, reachable, listener, direct>>

DialsOf(p) ==
    OwnDials(p) \cup (IF BothWays(direct[p].attempt) /\ link[Cross].dial # "none" THEN {Cross} ELSE {})

\* The answer arrives: raceDirectCandidates has its result.  When the attempt
\* was decided meanwhile, finishBidirectionalPrimary closes it.
Answered(p, k) ==
    /\ Dialing(p) /\ k \in DialsOf(p) /\ End(p, k) = "open" /\ link[k].answered
    /\ direct' = [direct EXCEPT ![p].dial = k]
    /\ link' = IF direct[p].stage = "finish" THEN WithEnd(link, p, k, "closed") ELSE link
    /\ UNCHANGED <<mode, reachable, listener>>

\* The peer closed the connection without an answer.
DialLost(p, k) ==
    /\ Dialer(k) = p /\ link[k].dial = "open" /\ link[k].accept = "closed" /\ ~link[k].answered
    /\ k[3] # "aux"
    /\ link' = [link EXCEPT ![k].dial = "closed"]
    /\ UNCHANGED <<mode, reachable, listener, direct>>

\* All candidates have failed; a cancelled race gives up what it waits for.
DialsFail(p) ==
    /\ Dialing(p)
    /\ \A k \in DialsOf(p) : \/ End(p, k) = "closed"
                             \/ direct[p].stage = "finish" /\ End(p, k) # "none" /\ ~link[k].answered
    /\ direct' = [direct EXCEPT ![p].dial = Failed]
    /\ link' = Closing(link, p, DialsOf(p))
    /\ UNCHANGED <<mode, reachable, listener>>

\* closeDirectRaceLosers, after the race of p's dials is decided.
IsLoser(p, k) ==
    /\ k[3] # "aux" /\ direct[p].attempt >= k[1] /\ (Dialer(k) = p \/ k = Cross)
    /\ End(p, k) = "open" /\ direct[p].dial # k
    /\ ~(Dialing(p) /\ direct[p].attempt = k[1])

CloseLoser(p, k) ==
    /\ IsLoser(p, k)
    /\ link' = WithEnd(link, p, k, "closed")
    /\ UNCHANGED <<mode, reachable, listener, direct>>

(***************************************************************************)
(* The acceptor.                                                            *)
(***************************************************************************)

\* Accept and verify: the hello is read and answered even if the dialer has
\* closed its end since.  An answer to a decided attempt is closed again.
Accept(p, k) ==
    /\ InPrimary(p) /\ direct[p].accept = Pending /\ k \in Backlog(p, direct[p].attempt)
    /\ \/ /\ direct' = [direct EXCEPT ![p].accept = k]
          /\ link' = [link EXCEPT ![k].answered = TRUE,
                                  ![k].accept = IF direct[p].stage = "finish" THEN "closed" ELSE "open"]
       \/ /\ link[k].dial = "closed"
          /\ link' = [link EXCEPT ![k].accept = "closed"]
          /\ UNCHANGED direct
    /\ UNCHANGED <<mode, reachable, listener>>

\* The accept deadline is moved to now.
AcceptStops(p) ==
    /\ direct[p].stage = "finish" /\ direct[p].accept = Pending
    /\ direct' = [direct EXCEPT ![p].accept = Failed]
    /\ UNCHANGED <<mode, reachable, link, listener>>

(***************************************************************************)
(* The election.                                                            *)
(***************************************************************************)

IsLink(outcome) == outcome \notin {Pending, Failed}

\* The outcomes that have arrived; those of a receiver's dial are preferred.
Outcomes(p) == {k \in {direct[p].accept, direct[p].dial} : IsLink(k)}
Preferred(p) == {k \in Outcomes(p) : Dialer(k) = Receiver \/ k = Cross}

\* p decides for k, or for nothing, and closes what else has arrived.
Decide(p, k) ==
    /\ direct' = [direct EXCEPT ![p].stage = "finish", ![p].chosen = k]
    /\ link' = Closing(link, p, Outcomes(p) \ {k})
    /\ UNCHANGED <<mode, reachable, listener>>

\* Mutant: the first outcome is taken, whoever has dialed.
ElectFirst(p) ==
    /\ direct[p].stage = "primary"
    /\ \/ \E k \in Outcomes(p) : Decide(p, k)
       \/ /\ direct[p].accept # Pending /\ direct[p].dial # Pending /\ Outcomes(p) = {}
          /\ Decide(p, NoLink)

\* connectBidirectionalDirectPrimary takes a preferred outcome at once, another
\* one when there is nothing left to wait for.
Elect(p) ==
    /\ direct[p].stage = "primary"
    /\ \/ \E k \in Preferred(p) : Decide(p, k)
       \/ /\ direct[p].accept # Pending /\ direct[p].dial # Pending /\ Preferred(p) = {}
          /\ IF Outcomes(p) = {} THEN Decide(p, NoLink) ELSE \E k \in Outcomes(p) : Decide(p, k)

\* A connection of attempt a that neither peer has given up.
Alive(a) == \E k \in Links : k[1] = a /\ link[k].dial = "open" /\ link[k].accept \in {"queued", "open"}

\* The deadline of the attempt: the fallback, or nothing.
Deadline(p) ==
    /\ direct[p].stage = "primary" /\ Preferred(p) = {}
    /\ IF Outcomes(p) = {} THEN Decide(p, NoLink) ELSE \E k \in Outcomes(p) : Decide(p, k)
    /\ untimely' = (untimely \/ Alive(direct[p].attempt))

(***************************************************************************)
(* The auxiliary connection and the end.                                    *)
(***************************************************************************)

\* The primary part is over: without a connection the attempt has failed.
Finished(p) ==
    /\ direct[p].stage = "finish" /\ direct[p].accept # Pending /\ direct[p].dial # Pending
    /\ IF direct[p].chosen = NoLink
       THEN /\ direct' = [direct EXCEPT ![p].stage = "failed"]
            /\ link' = Closing(link, p, Backlog(p, direct[p].attempt))
            /\ Shut(p)
       ELSE /\ direct' = [direct EXCEPT ![p].stage = "aux"]
            /\ UNCHANGED <<link, listener>>
    /\ UNCHANGED <<mode, reachable>>

\* Both connections are there: the listener is closed.
GoUp(p, links) ==
    /\ direct' = [direct EXCEPT ![p].stage = "up"]
    /\ link' = Closing(links, p, Backlog(p, direct[p].attempt) \ {Aux(direct[p].attempt)})
    /\ Shut(p)

\* Something failed: everything is closed.
GoDown(p) ==
    /\ direct' = [direct EXCEPT ![p].stage = "failed"]
    /\ link' = Closing(link, p, {direct[p].chosen} \cup Backlog(p, direct[p].attempt)
                                 \cup {k \in {Aux(direct[p].attempt)} : End(p, k) # "none"})
    /\ Shut(p)

\* connectDirectAuxiliariesRoleWithDialer: to the candidate of the primary
\* connection, or to the first one when the sender had dialed.
AuxCandidates(p) ==
    LET k == direct[p].chosen IN
    {c \in reachable : c[1] = k[1] /\ Dialer(c) = Receiver /\ (Dialer(k) = Receiver => c = k)}

DialAux ==
    LET k == Aux(direct[Receiver].attempt) IN
    /\ direct[Receiver].stage = "aux" /\ link[k].dial = "none"
    /\ \/ /\ AuxCandidates(Receiver) # {} /\ listener[Sender] = k[1]
          /\ link' = [link EXCEPT ![k].dial = "open", ![k].accept = "queued"]
          /\ UNCHANGED <<direct, listener>>
       \/ /\ AuxCandidates(Receiver) = {} \/ listener[Sender] # k[1]
          /\ GoDown(Receiver)
    /\ UNCHANGED <<mode, reachable>>

AuxAnswered ==
    LET k == Aux(direct[Receiver].attempt) IN
    /\ direct[Receiver].stage = "aux" /\ link[k].dial = "open"
    /\ \/ link[k].answered /\ GoUp(Receiver, link)
       \/ link[k].accept = "closed" /\ ~link[k].answered /\ GoDown(Receiver)
    /\ UNCHANGED <<mode, reachable>>

\* acceptDirectAuxiliariesRole: a connection that is not the auxiliary one is
\* closed.
AcceptAux ==
    /\ direct[Sender].stage = "aux"
    /\ \E k \in Backlog(Sender, direct[Sender].attempt) :
         IF k = Aux(direct[Sender].attempt)
         THEN GoUp(Sender, [link EXCEPT ![k].accept = "open", ![k].answered = TRUE])
         ELSE link' = [link EXCEPT ![k].accept = "closed"] /\ UNCHANGED <<direct, listener>>
    /\ UNCHANGED <<mode, reachable>>

\* The setup of the auxiliary connection has a deadline of its own.
AuxDeadline(p) ==
    /\ direct[p].stage = "aux"
    /\ untimely' = (untimely \/ Alive(direct[p].attempt))
    /\ GoDown(p)
    /\ UNCHANGED <<mode, reachable>>

DirectStep(p) ==
    /\ \/ \E k \in Links : \/ Dial(p, k) \/ Answered(p, k) \/ DialLost(p, k)
                           \/ CloseLoser(p, k) \/ Accept(p, k)
       \/ DialsFail(p) \/ AcceptStops(p) \/ Elect(p) \/ Finished(p)
       \/ p = Receiver /\ (DialAux \/ AuxAnswered)
       \/ p = Sender /\ AcceptAux
    /\ UNCHANGED untimely

================================================================================
