------------------------------ MODULE SendPath ------------------------------
(***************************************************************************)
(* The path of the bytes of a striped transfer, composed of its parts: the  *)
(* weighted scheduler picks a file and a budget (Scheduler), the reading    *)
(* goroutine reads a chunk and queues it (ParallelSender), the workers send *)
(* it over their pipes, and the receiver adds its range to what the item    *)
(* has (ByteRanges).  The loop is sendPathItemsWeighted of                  *)
(* internal/transfer/transfer.go.                                           *)
(***************************************************************************)
EXTENDS Scheduler, ByteRanges

CONSTANTS
    Workers,   \* data pipes
    Depth,     \* chunkPathQueueDepth
    Resumed    \* bytes of each item that the receiver has already

ASSUME SendPathConstants ==
    /\ IsFiniteSet(Workers) /\ Workers # {} /\ Depth \in Nat \ {0}
    /\ Resumed \in [0..(Streams - 1) -> Nat]

ItemSize(i) == Resumed[i] + Length[i]

\* Every chunk has a byte, and a last one may be longer than what was declared.
Chunks == MapThenSumSet(LAMBDA i : Length[i], Stream)

VARIABLES
    jobs, held, sent, available, firstErr, cancelled, closed, taken, tried, reader,
    offset,    \* fileSendState.offset, per stream
    chunk,     \* the chunk that was read and is being queued
    chunks,    \* the chunks queued so far: their stream and range
    got,       \* the receiver's byteRanges, per stream
    refused    \* the receiver has refused a chunk and ended its session

schedulerVars == vars
senderVars == <<jobs, held, sent, available, firstErr, cancelled, closed, taken, tried, reader>>
pathVars == <<schedulerVars, senderVars, offset, chunk, chunks, got, refused>>

P == INSTANCE ParallelSender

NoChunk == [stream |-> Streams, start |-> 0, end |-> 0, done |-> FALSE]

PathInit ==
    /\ Init /\ P!Init
    /\ offset = Resumed /\ chunk = NoChunk /\ chunks = << >>
    /\ got = [i \in Stream |-> Starting(Resumed[i])]
    /\ refused = FALSE

-----------------------------------------------------------------------------
(* The reading goroutine.                                                    *)

\* scheduler.Next.
NextTurn ==
    /\ reader = "between"
    /\ Skip \/ Turn
    /\ UNCHANGED <<senderVars, offset, chunk, chunks, got, refused>>

\* sendNextFileChunk reads up to the budget and calls SendChunk.
ReadChunk(used, done) ==
    /\ current # Streams /\ used \in 1..budget
    /\ used >= remaining[current] => done
    /\ P!SendChunk
    /\ chunk' = [stream |-> current, start |-> offset[current],
                 end |-> offset[current] + used, done |-> done]
    /\ UNCHANGED <<schedulerVars, offset, chunks, got, refused>>

\* The source has become shorter: the read returns nothing but its end.
ReadEnd ==
    /\ reader = "between"
    /\ Commit(0, TRUE)
    /\ UNCHANGED <<senderVars, offset, chunk, chunks, got, refused>>

\* Reading or opening fails.
ReadFails ==
    /\ P!ReadFails
    /\ UNCHANGED <<schedulerVars, offset, chunk, chunks, got, refused>>

\* The chunk is queued; SendChunk returns and the turn is committed.
Queue(w) ==
    /\ P!Queue(w)
    /\ Commit(chunk.end - chunk.start, chunk.done)
    /\ chunks' = Append(chunks, [stream |-> chunk.stream, start |-> chunk.start, end |-> chunk.end])
    /\ offset' = [offset EXCEPT ![chunk.stream] = chunk.end]
    /\ chunk' = NoChunk
    /\ UNCHANGED <<got, refused>>

WaitForRoom ==
    /\ (\E w \in Workers : P!QueueFull(w)) \/ P!WakeUp \/ P!WaitCancelled
    /\ UNCHANGED <<schedulerVars, offset, chunk, chunks, got, refused>>

\* No stream is left, or SendChunk has failed.
Finish ==
    /\ reader = "between" => count = 0
    /\ P!Finish
    /\ UNCHANGED <<schedulerVars, offset, chunk, chunks, got, refused>>

Join ==
    /\ P!Join
    /\ UNCHANGED <<schedulerVars, offset, chunk, chunks, got, refused>>

-----------------------------------------------------------------------------
(* The workers and the receiver.                                             *)

TakeJob(w) ==
    /\ P!Receive(w) \/ P!Signal(w)
    /\ UNCHANGED <<schedulerVars, offset, chunk, chunks, got, refused>>

\* validateChunkRange and the overlap test of Add.
Fits(i, range) ==
    range.end <= ItemSize(i) /\ ~Overlaps(got[i], range.start, range.end)

\* The pipe takes the message; the chunks of different pipes reach the receiver
\* in any order, each in one step of its session.
Deliver(w) ==
    /\ P!SendMessage(w) /\ ~refused
    /\ LET range == chunks[held[w].chunk]
           i == range.stream
       IN IF Fits(i, range)
          THEN /\ got' = [got EXCEPT ![i] = Added(got[i], range.start, range.end)]
               /\ UNCHANGED refused
          ELSE refused' = TRUE /\ UNCHANGED got
    /\ UNCHANGED <<schedulerVars, offset, chunk, chunks>>

SendFails(w) ==
    /\ P!SendFails(w)
    /\ UNCHANGED <<schedulerVars, offset, chunk, chunks, got, refused>>

Cancel ==
    /\ P!Cancel
    /\ UNCHANGED <<schedulerVars, offset, chunk, chunks, got, refused>>

-----------------------------------------------------------------------------
Reader ==
    \/ NextTurn \/ ReadEnd \/ ReadFails \/ WaitForRoom \/ Finish \/ Join
    \/ \E used \in 1..Quantum, done \in BOOLEAN : ReadChunk(used, done)
    \/ \E w \in Workers : Queue(w)

Worker(w) == TakeJob(w) \/ Deliver(w) \/ SendFails(w)

PathNext == Reader \/ (\E w \in Workers : Worker(w)) \/ Cancel

\* Every goroutine runs; a read and a send to a pipe end, with an error or
\* without.
PathSpec ==
    /\ PathInit /\ [][PathNext]_pathVars
    /\ WF_pathVars(Reader) /\ \A w \in Workers : WF_pathVars(Worker(w))

-----------------------------------------------------------------------------
(* Properties; DeficitBounded and NobodyStarves are those of Scheduler.      *)

\* The queues and workers behave like one sender that takes chunks and gives each
\* to a pipe at most once, whichever worker's queue it went to: Close returns nil
\* only when every chunk was sent exactly once, whatever failed or was cancelled
\* when, and nothing is sent once Close or Abort has returned (finishWorkers).
ImplementsDelivery == P!ImplementsDelivery

\* However the chunks of several pipes interleave, the receiver's list of ranges
\* stays in order with a gap between neighbours, its prefix is what was received
\* without a gap, and it implements the set of received positions: whatever range
\* came next would be refused exactly if it overlaps, and added otherwise (Add).
RangesAreExact ==
    \A i \in Stream : /\ Canonical(got[i], ItemSize(i)) /\ PrefixIsContiguous(got[i])
                      /\ AddsExactly(got[i], ItemSize(i))

\* When Close has returned nil and the receiver has refused nothing, every item
\* has, without a gap, all the bytes that were read of its source.
SuccessMeansComplete ==
    (reader = "success" /\ ~refused) =>
        \A i \in Stream : ~active[i] /\ Prefix(got[i]) = offset[i]

\* The sender ends: the scheduler serves every stream to its end, and the reader
\* is not left waiting for room that exists, nor for workers that have stopped.
SenderEnds == <>(reader \in {"success", "failure"})

=============================================================================
