------------------------------ MODULE Scheduler ------------------------------
(***************************************************************************)
(* The weighted scheduler of the files of a transfer                        *)
(* (internal/mux/scheduler.go): deficit round robin.  A stream's turn has a *)
(* budget; what is used is committed; a stream keeps the cursor while it    *)
(* uses its whole budget and its deficit is not spent.  Bytes are counted   *)
(* in units of the smallest chunk.                                          *)
(***************************************************************************)
EXTENDS Integers, FiniteSets, FiniteSetsExt

CONSTANTS
    Streams,   \* number of streams, in the order they were given
    Weight,    \* weight of each stream, from fileStreamWeight
    Quantum,   \* protocol.ChunkSize
    Length     \* bytes each stream has to send

ASSUME SchedulerConstants ==
    /\ Streams \in Nat
    /\ Weight \in [0..(Streams - 1) -> Nat \ {0}]
    /\ Quantum \in Nat \ {0}
    /\ Length \in [0..(Streams - 1) -> Nat \ {0}]

Stream == 0..(Streams - 1)

VARIABLES
    deficit, active,   \* weightedState, per stream
    cursor,            \* index of the stream whose turn it is
    count,             \* s.active
    current,           \* the stream of the open turn, or Streams
    budget,            \* its budget
    remaining,         \* bytes each stream still has to send
    waited             \* history: bytes of others since a stream's last turn

vars == <<deficit, active, cursor, count, current, budget, remaining, waited>>

\* NewWeightedScheduler.
Init ==
    /\ deficit = [i \in Stream |-> 0] /\ active = [i \in Stream |-> TRUE]
    /\ cursor = 0 /\ count = Streams /\ current = Streams /\ budget = 0
    /\ remaining = Length
    /\ waited = [i \in Stream |-> 0]

\* advance.
Advance == (cursor + 1) % Streams

\* Next passes over streams that have ended.
Skip ==
    /\ current = Streams /\ count > 0 /\ ~active[cursor]
    /\ cursor' = Advance
    /\ UNCHANGED <<deficit, active, count, current, budget, remaining, waited>>

Least(a, b) == IF a < b THEN a ELSE b

\* Mutant: a visit adds to the deficit although some is left.
RefillAlways(i) == deficit[i] + Quantum * Weight[i]

\* A visit to a stream that has spent its deficit adds its quantum.
Refill(i) == IF deficit[i] <= 0 THEN deficit[i] + Quantum * Weight[i] ELSE deficit[i]

\* Next: the adaptive send budget bounds the turn.
Turn ==
    /\ current = Streams /\ count > 0 /\ active[cursor]
    /\ \E maxBytes \in 1..Quantum : budget' = Least(maxBytes, Refill(cursor))
    /\ deficit' = [deficit EXCEPT ![cursor] = Refill(cursor)]
    /\ current' = cursor
    /\ waited' = [waited EXCEPT ![cursor] = 0]
    /\ UNCHANGED <<active, cursor, count, remaining>>

\* Mutant: the cursor moves on only when a stream has ended.
AdvancesWhenDone(i, used, done) == done

Advances(i, used, done) == done \/ deficit[i] - used <= 0 \/ used < budget

Charged(i, used, done) == IF done THEN 0 ELSE deficit[i] - used

\* Mutant: every turn counts as the last of its stream.
RemainingActiveLess(done) == count - 1

RemainingActive(done) == IF done THEN count - 1 ELSE count

\* Commit, after sendNextFileChunk: the stream is done when its declared size
\* is sent or its source ends early; a read may return less than the budget,
\* and more than the declared size when the source has grown.
Commit(used, done) ==
    /\ current # Streams
    /\ used \in 0..budget
    /\ used >= remaining[current] => done
    /\ used = 0 => done
    /\ deficit' = [deficit EXCEPT ![current] = Charged(current, used, done)]
    /\ active' = [active EXCEPT ![current] = ~done]
    /\ count' = RemainingActive(done)
    /\ cursor' = IF Advances(current, used, done) /\ count' > 0
                 THEN Advance ELSE cursor
    /\ remaining' = [remaining EXCEPT ![current] = IF done THEN 0 ELSE @ - used]
    /\ waited' = [i \in Stream |-> IF i = current \/ ~active[i] THEN 0 ELSE waited[i] + used]
    /\ current' = Streams /\ budget' = 0

Next ==
    \/ Skip \/ Turn
    \/ \E used \in 0..Quantum : \E done \in BOOLEAN : Commit(used, done)

Spec == Init /\ [][Next]_vars

(***************************************************************************)
(* Properties.                                                              *)
(***************************************************************************)

\* Every variable has the type its Go counterpart has.
TypeOK ==
    /\ deficit \in [Stream -> Int] /\ active \in [Stream -> BOOLEAN]
    /\ cursor \in Stream \cup {0} /\ count \in Int /\ current \in 0..Streams
    /\ budget \in Int /\ remaining \in [Stream -> Int] /\ waited \in [Stream -> Int]

\* A deficit is never negative and never more than one visit's share, so a
\* turn always has a positive budget and nobody saves up turns (Next, Commit).
DeficitBounded ==
    /\ \A i \in Stream : deficit[i] \in 0..(Quantum * Weight[i])
    /\ current # Streams => budget \in 1..deficit[current]

\* Between two turns of an unfinished stream the others send at most their
\* share, whatever budgets and short reads the turns had.
NobodyStarves ==
    \A i \in Stream : active[i] =>
        waited[i] <= MapThenSumSet(LAMBDA j : Quantum * Weight[j], Stream \ {i})
=============================================================================
