---------------------------- MODULE ParallelSender ----------------------------
(***************************************************************************)
(* The parallel chunk sender of a striped transfer                          *)
(* (internal/transfer/parallel_sender.go): the goroutine that reads the     *)
(* files puts chunks into the bounded queues of one worker per data pipe,   *)
(* and waits on the channel "available" when all of them are full.          *)
(*                                                                          *)
(* SendPath composes it with the scheduler that picks the files and the     *)
(* receiver's byte ranges.                                                  *)
(*                                                                          *)
(* The order in which the workers are tried comes from their scores, which  *)
(* change while they are compared; here it is any order.                    *)
(***************************************************************************)
EXTENDS Naturals, Sequences, FiniteSets, BagsExt

CONSTANTS
    Workers,   \* data pipes
    Chunks,    \* bound: chunks of the transfer
    Depth      \* chunkPathQueueDepth

VARIABLES
    jobs,       \* worker.jobs, per worker
    held,       \* the job a worker works on and how far it is
    sent,       \* the chunks the pipes have taken, a bag: how often each was
    available,  \* the channel of capacity 1 is full
    firstErr,   \* an error was recorded
    cancelled,  \* s.ctx is done
    closed,     \* the jobs channels are closed
    taken,      \* chunks queued so far
    tried,      \* workers whose queue was full in this round
    reader      \* the reading goroutine: between two chunks, trying the workers, waiting,
                \* in Close or Abort, or returned

vars == <<jobs, held, sent, available, firstErr, cancelled, closed, taken, tried, reader>>

Idle == [chunk |-> 0, stage |-> "idle"]

Init ==
    /\ jobs = [w \in Workers |-> << >>] /\ held = [w \in Workers |-> Idle]
    /\ sent = << >>
    /\ available = FALSE /\ firstErr = FALSE /\ cancelled = FALSE /\ closed = FALSE
    /\ taken = 0 /\ tried = {} /\ reader = "between"

readerVars == <<closed, taken, tried, reader>>
workerVars == <<held, sent, firstErr>>

(***************************************************************************)
(* The reader.                                                              *)
(***************************************************************************)

\* SendChunk begins with the recorded error.
SendChunk ==
    /\ reader = "between" /\ taken < Chunks
    /\ reader' = IF firstErr THEN "abort" ELSE "trying"
    /\ UNCHANGED <<jobs, workerVars, available, cancelled, closed, taken, tried>>

\* sendPathItemsWeighted returns because a file cannot be read.
ReadFails ==
    /\ reader = "between" /\ taken < Chunks
    /\ reader' = "abort"
    /\ UNCHANGED <<jobs, workerVars, available, cancelled, closed, taken, tried>>

\* Mutant: the loop over the workers goes on after one has taken the job.
QueueEverywhere(w) ==
    /\ reader = "trying" /\ w \notin tried
    /\ Len(jobs[w]) < Depth
    /\ jobs' = [v \in Workers |-> IF v \notin tried /\ Len(jobs[v]) < Depth
                                  THEN Append(jobs[v], taken + 1) ELSE jobs[v]]
    /\ taken' = taken + 1 /\ tried' = {} /\ reader' = "between"
    /\ UNCHANGED <<workerVars, available, cancelled, closed>>

\* The first worker tried that has room gets the job.
Queue(w) ==
    /\ reader = "trying" /\ w \notin tried
    /\ Len(jobs[w]) < Depth
    /\ jobs' = [jobs EXCEPT ![w] = Append(@, taken + 1)]
    /\ taken' = taken + 1 /\ tried' = {} /\ reader' = "between"
    /\ UNCHANGED <<workerVars, available, cancelled, closed>>

\* A full queue: the next worker is tried, and after the last one the reader
\* waits.
QueueFull(w) ==
    /\ reader = "trying" /\ w \notin tried
    /\ Len(jobs[w]) = Depth
    /\ IF tried \cup {w} = Workers THEN tried' = {} /\ reader' = "wait"
       ELSE tried' = tried \cup {w} /\ UNCHANGED reader
    /\ UNCHANGED <<jobs, workerVars, available, cancelled, closed, taken>>

\* A worker has taken a job since the channel was last drained.
WakeUp ==
    /\ reader = "wait" /\ available
    /\ available' = FALSE /\ reader' = "trying"
    /\ UNCHANGED <<jobs, workerVars, cancelled, closed, taken, tried>>

\* The context is done: the recorded error or the context's.
WaitCancelled ==
    /\ reader = "wait" /\ cancelled
    /\ reader' = "abort"
    /\ UNCHANGED <<jobs, workerVars, available, cancelled, closed, taken, tried>>

\* Close, when the files are through; Abort, which also cancels, after an error.
Finish ==
    /\ \/ reader = "between" /\ reader' = "close" /\ UNCHANGED cancelled
       \/ reader = "abort" /\ ~closed /\ cancelled' = TRUE /\ UNCHANGED reader
    /\ closed' = TRUE
    /\ UNCHANGED <<jobs, workerVars, available, taken, tried>>

\* A worker returns when its closed channel is empty.
WorkersDone == closed /\ \A w \in Workers : jobs[w] = << >> /\ held[w] = Idle

\* workerWG.Wait, the last cancel, and the recorded error.
Join ==
    /\ reader \in {"close", "abort"} /\ WorkersDone
    /\ reader' = IF reader = "abort" \/ firstErr THEN "failure" ELSE "success"
    /\ cancelled' = TRUE
    /\ UNCHANGED <<jobs, workerVars, available, closed, taken, tried>>

(***************************************************************************)
(* The workers.                                                             *)
(***************************************************************************)

Receive(w) ==
    /\ held[w].stage = "idle" /\ jobs[w] # << >>
    /\ held' = [held EXCEPT ![w] = [chunk |-> Head(jobs[w]), stage |-> "received"]]
    /\ jobs' = [jobs EXCEPT ![w] = Tail(@)]
    /\ UNCHANGED <<sent, available, firstErr, cancelled, readerVars>>

\* Mutant: a worker does not say that its queue has room again.
SignalNever(w) ==
    /\ held[w].stage = "received"
    /\ held' = [held EXCEPT ![w].stage = "sending"]
    /\ UNCHANGED <<jobs, sent, available, firstErr, cancelled, readerVars>>

\* A signal that finds the channel full is dropped.
Signal(w) ==
    /\ held[w].stage = "received"
    /\ held' = [held EXCEPT ![w].stage = "sending"]
    /\ available' = TRUE
    /\ UNCHANGED <<jobs, sent, firstErr, cancelled, readerVars>>

SendMessage(w) ==
    /\ held[w].stage = "sending" /\ ~cancelled
    /\ sent' = BagAdd(sent, held[w].chunk)
    /\ held' = [held EXCEPT ![w] = Idle]
    /\ UNCHANGED <<jobs, available, firstErr, cancelled, readerVars>>

\* The pipe fails, or the context is done; the worker goes on with the next
\* job, so that no queue stays full.
SendFails(w) ==
    /\ held[w].stage = "sending"
    /\ held' = [held EXCEPT ![w] = Idle]
    /\ firstErr' = TRUE /\ cancelled' = TRUE
    /\ UNCHANGED <<jobs, available, sent, readerVars>>

\* The caller's context is done.
Cancel ==
    /\ ~cancelled /\ cancelled' = TRUE
    /\ UNCHANGED <<jobs, workerVars, available, readerVars>>

Reader ==
    \/ SendChunk \/ ReadFails \/ (\E w \in Workers : Queue(w) \/ QueueFull(w))
    \/ WakeUp \/ WaitCancelled \/ Finish \/ Join

Worker(w) == Receive(w) \/ Signal(w) \/ SendMessage(w) \/ SendFails(w)

Next == Reader \/ (\E w \in Workers : Worker(w)) \/ Cancel

Spec == Init /\ [][Next]_vars

(***************************************************************************)
(* Properties.                                                              *)
(***************************************************************************)

Outcome == IF reader \in {"success", "failure"} THEN reader ELSE "open"

Abstract == INSTANCE ChunkDelivery WITH outcome <- Outcome

\* The queues and workers behave like one sender that takes chunks and gives each
\* to a pipe at most once, whichever worker's queue it went to: Close returns nil
\* only when every chunk was sent exactly once, whatever failed or was cancelled
\* when, and nothing is sent once Close or Abort has returned (finishWorkers).
ImplementsDelivery == Abstract!Spec
=============================================================================
