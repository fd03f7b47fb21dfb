------------------------------- MODULE RelayRace -------------------------------
(***************************************************************************)
(* The race of one native peer for a relay, for both peers of a room        *)
(* (internal/relay/race.go and relayCandidates in internal/app/app.go).     *)
(* Every peer joins the room on several relays at once, keeps the best of   *)
(* those on which it was paired when a short timer ends, and closes the     *)
(* others.  Relays are numbered in the order of betterCandidate: 1 is the   *)
(* LAN relay the sender hosts, 2 an external one that is joined later.      *)
(***************************************************************************)
EXTENDS Naturals, FiniteSets

CONSTANTS Sender, Receiver

Peers == {Sender, Receiver}
Other(p) == IF p = Sender THEN Receiver ELSE Sender

Relays == {1, 2}
LAN == 1
External == 2

VARIABLES
    offered,   \* per peer: the relays it can reach
    join,      \* per peer and relay: joining, paired, taken, failed
    pipe,      \* per peer and relay: its end of the relayed connection
    race,      \* per peer: the stage of RaceJoin and its best result (0: none)
    untimely   \* history: a timer of one peer fired while an answer was on its way

raceVars == <<offered, join, pipe, race, untimely>>

RaceInit ==
    /\ offered \in [Peers -> SUBSET Relays \ {{}}]
    /\ join = [p \in Peers |-> [l \in Relays |-> IF l \in offered[p] THEN "joining" ELSE "failed"]]
    /\ pipe = [p \in Peers |-> [l \in Relays |-> "none"]]
    /\ race = [p \in Peers |-> [stage |-> "racing", best |-> 0]]
    /\ untimely = FALSE

Racing(p) == race[p].stage = "racing"

\* joinCandidate after the race: a join that is not paired yet, because of its
\* start delay or of its peer, is cancelled.
JoinFails(p, l) ==
    /\ join[p][l] = "joining" /\ ~Racing(p)
    /\ join' = [join EXCEPT ![p][l] = "failed"]
    /\ UNCHANGED <<offered, pipe, race, untimely>>

\* The relay pairs the two peers of the room; it may not have noticed that one
\* of them has left.
Pair(l) ==
    /\ \A p \in Peers : join[p][l] = "joining"
    /\ join' = [p \in Peers |-> [join[p] EXCEPT ![l] = "paired"]]
    /\ pipe' = [p \in Peers |-> [pipe[p] EXCEPT ![l] = "open"]]
    /\ untimely' = (untimely \/ \E p \in Peers : ~Racing(p))
    /\ UNCHANGED <<offered, race>>

\* Mutant: the result that loses is forgotten.
OutcomeForgets(p, l) ==
    /\ Racing(p) /\ join[p][l] = "paired"
    /\ join' = [join EXCEPT ![p][l] = "taken"]
    /\ race' = [race EXCEPT ![p].best = IF @ = 0 \/ l < @ THEN l ELSE @]
    /\ UNCHANGED <<offered, pipe, untimely>>

\* The loop takes a result: the better one is kept, the other one closed.
Outcome(p, l) ==
    /\ Racing(p) /\ join[p][l] = "paired"
    /\ join' = [join EXCEPT ![p][l] = "taken"]
    /\ LET best == race[p].best IN
         IF best = 0 \/ l < best
         THEN /\ race' = [race EXCEPT ![p].best = l]
              /\ pipe' = IF best = 0 THEN pipe ELSE [pipe EXCEPT ![p][best] = "closed"]
         ELSE /\ pipe' = [pipe EXCEPT ![p][l] = "closed"]
              /\ UNCHANGED race
    /\ UNCHANGED <<offered, untimely>>

\* Every candidate has answered.
RaceEnds(p) ==
    /\ Racing(p) /\ \A l \in Relays : join[p][l] \in {"taken", "failed"}
    /\ race' = [race EXCEPT ![p].stage = IF race[p].best = 0 THEN "lost" ELSE "won"]
    /\ UNCHANGED <<offered, join, pipe, untimely>>

\* The settle timer, started by the first result: the others are cancelled.
Settle(p) ==
    /\ Racing(p) /\ race[p].best # 0
    /\ race' = [race EXCEPT ![p].stage = "won"]
    /\ untimely' = (untimely \/ \E l \in Relays : l < race[p].best /\ join[p][l] = "paired")
    /\ UNCHANGED <<offered, join, pipe>>

\* ctx.Done: the pairing timed out or the user gave up.
Abandon(p) ==
    /\ Racing(p)
    /\ race' = [race EXCEPT ![p] = [stage |-> "lost", best |-> 0]]
    /\ pipe' = IF race[p].best = 0 THEN pipe ELSE [pipe EXCEPT ![p][race[p].best] = "closed"]
    /\ untimely' = (untimely \/ \E l \in Relays : pipe[p][l] = "open")
    /\ UNCHANGED <<offered, join>>

\* drainCandidateResults: a join that succeeded too late is closed.
Drain(p, l) ==
    /\ ~Racing(p) /\ join[p][l] = "paired"
    /\ join' = [join EXCEPT ![p][l] = "taken"]
    /\ pipe' = [pipe EXCEPT ![p][l] = "closed"]
    /\ UNCHANGED <<offered, race, untimely>>

RaceStep(p) ==
    \/ \E l \in Relays : JoinFails(p, l) \/ Outcome(p, l) \/ Drain(p, l)
    \/ RaceEnds(p) \/ Settle(p)

================================================================================
