------------------------------ MODULE Transfer ------------------------------
(***************************************************************************)
(* A native transfer of a set of items (internal/transfer): the sender of  *)
(* PreparedPath.Send, the receiver of Receive with its ReceiveStore, the    *)
(* encrypted pipes between them, and the reconnects of                      *)
(* runTransferWithReconnectGate.  Bytes are counted in blocks; a file is a  *)
(* sequence of block contents and its SHA-256 is its content.               *)
(*                                                                          *)
(* Pipe 0 carries control messages, the others data.  A pipe keeps its      *)
(* order; the receiver merges the pipes in any order.                       *)
(***************************************************************************)
EXTENDS Integers, Sequences, FiniteSets

CONSTANTS
    Size,              \* size of every manifest item, 0 for a directory or symlink
    SenderPipes,       \* connections of the sender's transport
    ReceiverPipes,     \* connections of the receiver's transport
    Striping,          \* whether both peers know the feature "chunk-striping": the cases
    Policies,          \* the receiver's conflict policy: the cases
    Existing,          \* contents that may already be at a destination path
    Leftover,          \* contents a part file may have from an earlier run
    Edits,             \* contents the source of an item may change to
    MaxChunk,          \* largest chunk, in blocks
    MaxCopies,         \* bound on renamed copies
    MaxAttempts,       \* reconnect attempts
    MaxBreaks,         \* bound on lost connections
    MaxCrashes,        \* bound on crashes of the receiver
    MaxEdits           \* bound on changes of a source file

Items == DOMAIN Size
Files == {i \in Items : Size[i] > 0}

ASSUME TransferConstants ==
    /\ IsFiniteSet(Items) /\ Items = 0..(Cardinality(Items) - 1)
    /\ \A i \in Items : Size[i] \in Nat
    /\ Files # {}
    /\ SenderPipes \in Nat \ {0} /\ ReceiverPipes \in Nat \ {0}
    /\ Striping \subseteq BOOLEAN /\ Striping # {}
    /\ Policies \subseteq {"overwrite", "skip", "rename"} /\ Policies # {}
    /\ MaxChunk \in Nat \ {0} /\ MaxCopies \in Nat /\ MaxAttempts \in Nat \ {0}
    /\ MaxBreaks \in Nat /\ MaxCrashes \in Nat /\ MaxEdits \in Nat

Hole == 0            \* a block that was never written

\* A file has no holes, nor has a part file an earlier run has closed: only a
\* crash leaves them, and crashes are steps of this module.
ASSUME TransferContents == Leftover \cup Edits \subseteq Seq(Nat \ {Hole})

Original(i) == [k \in 1..Size[i] |-> 1]
Absent == << >>      \* no file; items with content have at least one block

Slots == 0..MaxCopies          \* a path: the name, or the name with " (n)"
Pipes == 0..(SenderPipes - 1)

VARIABLES
    source,      \* content of every source file
    hashed,      \* the SHA-256 of a source the sender has computed, or Absent
    part,        \* .kigopart files, per item and path
    final,       \* destination files, per item and path
    s,           \* the sender's session
    r,           \* the receiver's session and store
    wire,        \* messages to the receiver, per pipe
    back,        \* messages to the sender, on pipe 0
    deferred,    \* deferredMessages of the receiver, with their pipe
    broken,      \* the connection is lost
    attempt, breaks, crashes, edits,
    sources,     \* history: contents a source has had
    before,      \* history: destination files before the transfer
    conflict,    \* the receiver's conflict policy
    peersStripe  \* both peers know the feature, decided by their versions

fsVars == <<part, final>>
sourceVars == <<source, hashed, edits, sources>>
faultVars == <<broken, breaks, crashes>>
fixedVars == <<before, conflict, peersStripe>>
vars == <<sourceVars, fsVars, s, r, wire, back, deferred, faultVars, attempt, fixedVars>>

NewSender ==
    [phase |-> "hello", pipes |-> 1, striping |-> FALSE,
     offset |-> [i \in Files |-> 0], done |-> {}, ended |-> {}]

NewReceiver ==
    [phase |-> "hello", pipes |-> 1, striping |-> FALSE, pendingDone |-> FALSE,
     opened |-> {}, ended |-> {}, coverage |-> [i \in Items |-> {}],
     ranges |-> [i \in Files |-> {}], mode |-> [i \in Files |-> "receive"],
     overwrite |-> {}, slot |-> [i \in Files |-> 0],
     declared |-> [i \in Files |-> Absent], open |-> {}]

Quiet == [p \in Pipes |-> << >>]

Init ==
    /\ source = [i \in Files |-> Original(i)]
    /\ hashed = [i \in Files |-> Absent]
    /\ final \in [Files -> {[n \in Slots |-> IF n = 0 THEN content ELSE Absent] :
                                content \in Existing \cup {Absent}}]
    /\ part \in [Files -> {[n \in Slots |-> content] : content \in Leftover \cup {Absent}}]
    /\ s = NewSender /\ r = NewReceiver
    /\ wire = Quiet /\ back = << >> /\ deferred = << >> /\ broken = FALSE
    /\ attempt = 1 /\ breaks = 0 /\ crashes = 0 /\ edits = 0
    /\ sources = [i \in Files |-> {Original(i)}]
    /\ before = final
    /\ conflict \in Policies /\ peersStripe \in Striping

Least(a, b) == IF a < b THEN a ELSE b

(***************************************************************************)
(* Byte ranges, as sets of block positions counted from 0 (ranges.go).      *)
(***************************************************************************)

Span(offset, data) == offset..(offset + Len(data) - 1)

\* byteRanges.Prefix: the end of the range that starts at 0.
Prefix(ranges) ==
    CHOOSE k \in 0..Cardinality(ranges) : 0..(k - 1) \subseteq ranges /\ k \notin ranges

\* byteRanges.Complete.
Complete(ranges, size) == Prefix(ranges) = size

Truncate(file, n) == SubSeq(file, 1, n)

WriteAt(file, offset, data) ==
    LET end == offset + Len(data)
        size == IF end > Len(file) THEN end ELSE Len(file)
    IN [k \in 1..size |-> IF k > offset /\ k <= end THEN data[k - offset]
                          ELSE IF k <= Len(file) THEN file[k] ELSE Hole]

(***************************************************************************)
(* Sessions: hello and hello_ack on connection 0; the smaller number of     *)
(* connections is used and the other ones are closed.                       *)
(***************************************************************************)

Message(type) == [type |-> type, item |-> 0, offset |-> 0, data |-> << >>]
Lifecycle(type, i) == [Message(type) EXCEPT !.item = i]
Chunk(i, offset, data) == [type |-> "chunk", item |-> i, offset |-> offset, data |-> data]

\* pipeForItem: stream lifecycle messages of an item stay on one data pipe.
PipeForItem(pipes, i) == IF pipes <= 1 THEN 0 ELSE 1 + (i % (pipes - 1))

\* chunkPipeForItem and the parallel sender: with striping any data pipe.
ChunkPipes(session, i) ==
    IF session.striping /\ session.pipes > 1 THEN 1..(session.pipes - 1)
    ELSE {PipeForItem(session.pipes, i)}

SendHello ==
    /\ s.phase = "hello"
    /\ s' = [s EXCEPT !.phase = "ack"]
    /\ wire' = [wire EXCEPT ![0] = Append(@, Message("hello"))]
    /\ UNCHANGED <<sourceVars, fsVars, r, back, deferred, faultVars, attempt, fixedVars>>

RecvHello ==
    LET count == Least(SenderPipes, ReceiverPipes) IN
    /\ r.phase = "hello" /\ wire[0] # << >>
    /\ r' = [r EXCEPT !.phase = "manifest", !.pipes = count,
                      !.striping = peersStripe /\ count > 1]
    /\ wire' = [wire EXCEPT ![0] = Tail(@)]
    /\ back' = Append(back, [type |-> "hello_ack", connections |-> count,
                             striping |-> peersStripe /\ count > 1])
    /\ UNCHANGED <<sourceVars, fsVars, s, deferred, faultVars, attempt, fixedVars>>

\* The sender knows its pipes and sends the manifest; with the feature
\* deferred-file-sha256 it declares no file's SHA-256 yet.
SendManifest ==
    /\ s.phase = "ack" /\ back # << >>
    /\ s' = [s EXCEPT !.phase = "resume", !.pipes = Head(back).connections,
                      !.striping = Head(back).striping]
    /\ back' = Tail(back)
    /\ wire' = [wire EXCEPT ![0] = Append(@, Message("manifest"))]
    /\ UNCHANGED <<sourceVars, fsVars, r, deferred, faultVars, attempt, fixedVars>>

(***************************************************************************)
(* The receive store opens every item and asks for resume offsets.          *)
(***************************************************************************)

\* fileSampleSHA256 covers the size, the head and the tail of a large file.
Sample(content) == <<Len(content), content[1], content[Len(content)]>>

\* Mutant: the sample hash is not compared.
MatchesBySize(i) == Len(final[i][0]) = Size[i]

\* completedFileMatches, on the path the item was sent with.
Matches(i) ==
    /\ Len(final[i][0]) = Size[i]
    /\ Sample(final[i][0]) = Sample(Original(i))

Exists(i) == final[i][0] # Absent

Mode(i) ==
    CASE Matches(i) -> "complete"
      [] ~Matches(i) /\ Exists(i) /\ conflict = "skip" -> "skipped"
      [] OTHER -> "receive"

\* availableRenamePath: the first numbered name that is free.
RenameSlots(i) ==
    {n \in Slots \ {0} : final[i][n] = Absent /\ \A m \in 1..(n - 1) : final[i][m] # Absent}

OpenSlots(i) ==
    IF Mode(i) = "receive" /\ Exists(i) /\ conflict = "rename" THEN RenameSlots(i) ELSE {0}

\* NewReceiveStoreWithOptions and SendResume.
RecvManifest ==
    /\ r.phase = "manifest" /\ wire[0] # << >>
    /\ \E slot \in {f \in [Files -> Slots] : \A i \in Files : f[i] \in OpenSlots(i)} :
         LET offset == [i \in Files |-> IF Mode(i) = "receive"
                                        THEN Least(Len(part[i][slot[i]]), Size[i])
                                        ELSE Size[i]]
             receive == {i \in Files : Mode(i) = "receive"}
         IN
         /\ part' = [i \in Files |-> IF i \in receive
                THEN [part[i] EXCEPT ![slot[i]] = Truncate(@, offset[i])] ELSE part[i]]
         /\ r' = [r EXCEPT !.phase = "accept", !.slot = slot, !.open = receive,
                           !.mode = [i \in Files |-> Mode(i)],
                           !.overwrite = {i \in receive : Exists(i) /\ conflict = "overwrite"},
                           !.ranges = [i \in Files |-> 0..(offset[i] - 1)]]
         /\ back' = Append(back, [type |-> "resume",
                entries |-> [i \in Files |->
                    [offset |-> offset[i], skip |-> i \notin receive,
                     prefix |-> part'[i][slot[i]]]]])
    /\ wire' = [wire EXCEPT ![0] = Tail(@)]
    /\ UNCHANGED <<sourceVars, final, s, deferred, faultVars, attempt, fixedVars>>

(***************************************************************************)
(* The sender accepts the offsets whose prefix matches its source.          *)
(***************************************************************************)

\* ensureFileSHA256: computed once for a prepared path, reconnects included.
Hashed(i) == IF hashed[i] = Absent THEN source[i] ELSE hashed[i]

\* acceptResumeRequests for one entry.  A prefix of the whole size is compared
\* with the computed SHA-256, a shorter one with the source as it is now.
AcceptOffset(i, entry) ==
    IF entry.skip THEN Size[i]
    ELSE IF /\ entry.offset > 0
            /\ entry.prefix # (IF entry.offset = Size[i] THEN Hashed(i)
                               ELSE Truncate(source[i], Least(entry.offset, Len(source[i]))))
         THEN 0 ELSE entry.offset

\* Lifecycle messages of the items that are not files are sent first, then the
\* files'; an item's stream is opened before it is ended.
Precedes(a, b) ==
    IF a.item = b.item THEN a.type = "stream_open" /\ b.type = "stream_end"
    ELSE IF a.item \in Files <=> b.item \in Files THEN a.item < b.item
    ELSE b.item \in Files

\* The messages that go over pipe p, in the order they are sent.
OnPipe(pipes, messages, p) ==
    LET mine == {m \in messages : PipeForItem(pipes, m.item) = p} IN
    [k \in 1..Cardinality(mine) |->
        CHOOSE m \in mine : Cardinality({x \in mine : Precedes(x, m)}) = k - 1]

\* WaitResume, SendResumeAccept, and the stream_open of every item, with the
\* stream_end of those that have nothing to send.
SendAccept ==
    /\ s.phase = "resume" /\ back # << >>
    /\ LET entries == Head(back).entries
           offset == [i \in Files |-> AcceptOffset(i, entries[i])]
           done == {i \in Files : offset[i] >= Size[i]}
           ended == done \cup (Items \ Files)
           accept == [type |-> "resume_accept",
                      entries |-> [i \in Files |->
                          [offset |-> offset[i], skip |-> entries[i].skip,
                           sha256 |-> IF entries[i].skip THEN Absent ELSE Hashed(i)]]]
           opens == {Lifecycle("stream_open", i) : i \in Items}
                        \cup {Lifecycle("stream_end", i) : i \in ended}
       IN
       /\ hashed' = [i \in Files |-> IF entries[i].skip THEN hashed[i] ELSE Hashed(i)]
       /\ s' = [s EXCEPT !.phase = "chunks", !.offset = offset, !.done = done, !.ended = ended]
       /\ wire' = [p \in Pipes |-> wire[p] \o (IF p = 0 THEN <<accept>> ELSE << >>)
                                           \o OnPipe(s.pipes, opens, p)]
    /\ back' = Tail(back)
    /\ UNCHANGED <<source, edits, sources, fsVars, r, deferred, faultVars, attempt, fixedVars>>

\* sendNextFileChunk: what is read is sent; the end of the source, or of the
\* declared size, ends the file.
SendChunk(i) ==
    /\ s.phase = "chunks" /\ i \in Files \ s.done
    /\ \E n \in 1..MaxChunk : \E p \in ChunkPipes(s, i) :
         LET data == SubSeq(source[i], s.offset[i] + 1,
                            Least(s.offset[i] + n, Len(source[i])))
             offset == s.offset[i] + Len(data)
         IN
         /\ s' = [s EXCEPT !.offset[i] = offset,
                           !.done = IF data = << >> \/ offset >= Size[i] THEN @ \cup {i} ELSE @]
         /\ wire' = IF data = << >> THEN wire
                    ELSE [wire EXCEPT ![p] = Append(@, Chunk(i, s.offset[i], data))]
    /\ UNCHANGED <<sourceVars, fsVars, r, back, deferred, faultVars, attempt, fixedVars>>

\* The parallel sender has flushed its workers; stream_end of the remaining
\* files, then done on pipe 0.
SendDone ==
    /\ s.phase = "chunks" /\ s.done = Files
    /\ LET ends == {Lifecycle("stream_end", i) : i \in Items \ s.ended}
       IN wire' = [p \in Pipes |-> wire[p] \o OnPipe(s.pipes, ends, p)
                                           \o (IF p = 0 THEN <<Message("done")>> ELSE << >>)]
    /\ s' = [s EXCEPT !.phase = "complete", !.ended = Items]
    /\ UNCHANGED <<sourceVars, fsVars, r, back, deferred, faultVars, attempt, fixedVars>>

WaitComplete ==
    /\ s.phase = "complete" /\ back # << >>
    /\ s' = [s EXCEPT !.phase = "success"]
    /\ back' = Tail(back)
    /\ UNCHANGED <<sourceVars, fsVars, r, wire, deferred, faultVars, attempt, fixedVars>>

(***************************************************************************)
(* Receiving.                                                               *)
(***************************************************************************)

\* Mutant: the part files are left as they are.
ClosedUncut == part

\* ReceiveStore.Close: a store that takes chunks out of order cuts its open
\* part files to their contiguous prefix.
Closed ==
    [i \in Files |-> IF i \in r.open /\ r.striping
        THEN [part[i] EXCEPT ![r.slot[i]] = Truncate(@, Least(Len(@), Prefix(r.ranges[i])))]
        ELSE part[i]]

\* An error that is not the connection's ends the receiver.
Refuse ==
    /\ r' = [r EXCEPT !.phase = "error", !.open = {}]
    /\ part' = Closed

\* Until the manifest, and until resume_accept, messages of data pipes wait.
Defer(p) ==
    /\ r.phase \in {"manifest", "accept"} /\ p # 0 /\ wire[p] # << >>
    /\ deferred' = Append(deferred, [pipe |-> p, message |-> Head(wire[p])])
    /\ wire' = [wire EXCEPT ![p] = Tail(@)]
    /\ UNCHANGED <<sourceVars, fsVars, s, r, back, faultVars, attempt, fixedVars>>

AcceptValid(entries) ==
    \A i \in Files :
        /\ entries[i].offset <= Prefix(r.ranges[i])
        /\ entries[i].skip = (r.mode[i] # "receive")
        /\ entries[i].skip => entries[i].offset = Size[i]

\* WaitResumeAccept, ApplyResumeAccept and applyReceiveResume.
RecvAccept ==
    /\ r.phase = "accept" /\ wire[0] # << >>
    /\ LET entries == Head(wire[0]).entries
           accepted == [i \in Files |-> 0..(entries[i].offset - 1)]
       IN
       IF AcceptValid(entries)
       THEN /\ r' = [r EXCEPT !.phase = "chunks", !.ranges = accepted,
                    !.coverage = [i \in Items |-> IF i \in Files THEN accepted[i] ELSE @[i]],
                    !.declared = [i \in Files |-> entries[i].sha256]]
            /\ part' = [i \in Files |-> IF i \in r.open
                   THEN [part[i] EXCEPT ![r.slot[i]] = Truncate(@, entries[i].offset)]
                   ELSE part[i]]
       ELSE Refuse
    /\ wire' = [wire EXCEPT ![0] = Tail(@)]
    /\ UNCHANGED <<sourceVars, final, s, back, deferred, faultVars, attempt, fixedVars>>

\* receiveReady: every stream has ended and every declared byte is covered.
ReceiveReady ==
    r.ended = Items /\ \A i \in Items : Complete(r.coverage[i], Size[i])

\* receiveMessage: deferred messages first, then the head of any pipe.
Arrives(p, m) ==
    /\ r.phase = "chunks" /\ ~(r.pendingDone /\ ReceiveReady)
    /\ IF deferred # << >>
       THEN /\ [pipe |-> p, message |-> m] = Head(deferred)
            /\ deferred' = Tail(deferred) /\ wire' = wire
       ELSE /\ wire[p] # << >> /\ m = Head(wire[p])
            /\ wire' = [wire EXCEPT ![p] = Tail(@)] /\ deferred' = deferred

Incoming == {Head(wire[p]) : p \in {q \in Pipes : wire[q] # << >>}}
    \cup {deferred[k].message : k \in DOMAIN deferred}

\* Mutant: a striped chunk must not arrive after its stream's end.
ChunkValidBeforeEnd(p, m) ==
    LET span == Span(m.offset, m.data) IN
    /\ p \in ChunkPipes(r, m.item)
    /\ m.item \notin r.ended
    /\ m.offset + Len(m.data) <= Size[m.item]
    /\ span \cap r.coverage[m.item] = {}
    /\ r.mode[m.item] = "receive"
    /\ r.striping \/ m.offset = Prefix(r.ranges[m.item])

\* AcceptChunk or AcceptChunkAfterEnd, validateMessageChannel, the coverage of
\* the session and WriteChunk of the store.
ChunkValid(p, m) ==
    LET span == Span(m.offset, m.data) IN
    /\ p \in ChunkPipes(r, m.item)
    /\ m.item \notin r.ended \/ r.striping
    /\ m.offset + Len(m.data) <= Size[m.item]
    /\ span \cap r.coverage[m.item] = {}
    /\ r.mode[m.item] = "receive"
    /\ r.striping \/ m.offset = Prefix(r.ranges[m.item])
    /\ span \cap r.ranges[m.item] = {}

RecvChunk(p, m) ==
    LET i == m.item
        span == Span(m.offset, m.data)
    IN
    /\ Arrives(p, m) /\ m.type = "chunk"
    /\ IF ChunkValid(p, m)
       THEN /\ r' = [r EXCEPT !.coverage[i] = @ \cup span, !.ranges[i] = @ \cup span]
            /\ part' = [part EXCEPT ![i][r.slot[i]] = WriteAt(@, m.offset, m.data)]
       ELSE Refuse
    /\ UNCHANGED <<sourceVars, final, s, back, faultVars, attempt, fixedVars>>

\* AcceptOpen and AcceptEnd of the stream tracker.
LifecycleValid(p, m) ==
    /\ p = PipeForItem(r.pipes, m.item)
    /\ m.type = "stream_open" => m.item \notin r.opened
    /\ m.type = "stream_end" => m.item \in r.opened \ r.ended

RecvLifecycle(p, m) ==
    /\ Arrives(p, m) /\ m.type \in {"stream_open", "stream_end"}
    /\ IF LifecycleValid(p, m)
       THEN /\ r' = IF m.type = "stream_open" THEN [r EXCEPT !.opened = @ \cup {m.item}]
                    ELSE [r EXCEPT !.ended = @ \cup {m.item}]
            /\ part' = part
       ELSE Refuse
    /\ UNCHANGED <<sourceVars, final, s, back, faultVars, attempt, fixedVars>>

\* Mutant: a done that comes too early is forgotten.
RecvDoneForgets(p, m) ==
    /\ Arrives(p, m) /\ m.type = "done"
    /\ r' = IF ReceiveReady THEN [r EXCEPT !.phase = "finalize"] ELSE r
    /\ UNCHANGED <<sourceVars, fsVars, s, back, faultVars, attempt, fixedVars>>

\* done is kept until the transfer is ready for it.
RecvDone(p, m) ==
    /\ Arrives(p, m) /\ m.type = "done"
    /\ r' = IF ReceiveReady THEN [r EXCEPT !.phase = "finalize"]
            ELSE [r EXCEPT !.pendingDone = TRUE]
    /\ UNCHANGED <<sourceVars, fsVars, s, back, faultVars, attempt, fixedVars>>

\* The pending done becomes an event once nothing is missing.
RecvPendingDone ==
    /\ r.phase = "chunks" /\ r.pendingDone /\ ReceiveReady
    /\ r' = [r EXCEPT !.phase = "finalize", !.pendingDone = FALSE]
    /\ UNCHANGED <<sourceVars, fsVars, s, wire, back, deferred, faultVars, attempt, fixedVars>>

(***************************************************************************)
(* Finalize, file by file: verify the part file, move it to its path.       *)
(***************************************************************************)

\* finalizeReceivedFile: nothing appeared at the path during the transfer.
Placeable(i) == final[i][r.slot[i]] = Absent \/ i \in r.overwrite

\* Mutant: the part file's size is compared, not its SHA-256.
VerifiedBySize(i) == Len(part[i][r.slot[i]]) = Size[i]

\* verifyPartFile.
Verified(i) == part[i][r.slot[i]] = r.declared[i] /\ Len(part[i][r.slot[i]]) = Size[i]

\* One file of Finalize.
FinalizeFile(i) ==
    LET n == r.slot[i] IN
    /\ r.phase = "finalize" /\ i \in r.open /\ \A j \in r.open : i <= j
    /\ IF Complete(r.ranges[i], Size[i]) /\ Verified(i) /\ Placeable(i)
       THEN /\ final' = [final EXCEPT ![i][n] = part[i][n]]
            /\ part' = [part EXCEPT ![i][n] = Absent]
            /\ r' = [r EXCEPT !.open = @ \ {i}]
       ELSE /\ r' = [r EXCEPT !.phase = "error", !.open = {}]
            /\ part' = [j \in Files |-> IF j = i THEN part[j] ELSE Closed[j]]
            /\ final' = final
    /\ UNCHANGED <<sourceVars, s, wire, back, deferred, faultVars, attempt, fixedVars>>

SendComplete ==
    /\ r.phase = "finalize" /\ r.open = {}
    /\ r' = [r EXCEPT !.phase = "success"]
    /\ back' = Append(back, [type |-> "complete"])
    /\ UNCHANGED <<sourceVars, fsVars, s, wire, deferred, faultVars, attempt, fixedVars>>

(***************************************************************************)
(* Faults.  Either side may go on with what it has after the connection is  *)
(* lost, and fails when it next needs the connection.                       *)
(***************************************************************************)

SenderRunning == s.phase \notin {"success", "failed"}
ReceiverRunning == r.phase \notin {"success", "failed", "error"}

Break ==
    /\ ~broken /\ breaks < MaxBreaks
    /\ broken' = TRUE /\ breaks' = breaks + 1
    /\ UNCHANGED <<sourceVars, fsVars, s, r, wire, back, deferred, crashes, attempt, fixedVars>>

\* A receiver that is gone has closed its connections.
SenderFails ==
    /\ SenderRunning /\ (broken \/ r.phase = "error")
    /\ s' = [s EXCEPT !.phase = "failed"]
    /\ UNCHANGED <<sourceVars, fsVars, r, wire, back, deferred, faultVars, attempt, fixedVars>>

ReceiverFails ==
    /\ ReceiverRunning /\ broken
    /\ r' = [r EXCEPT !.phase = "failed", !.open = {}]
    /\ part' = Closed
    /\ UNCHANGED <<sourceVars, final, s, wire, back, deferred, faultVars, attempt, fixedVars>>

\* The receiver dies without closing its store and is started again.
Crash ==
    /\ ReceiverRunning /\ crashes < MaxCrashes
    /\ crashes' = crashes + 1 /\ broken' = TRUE
    /\ r' = [r EXCEPT !.phase = "failed", !.open = {}]
    /\ UNCHANGED <<sourceVars, fsVars, s, wire, back, deferred, breaks, attempt, fixedVars>>

\* Both sides dial again: new sessions, the same prepared path and directory.
Reconnect ==
    /\ s.phase = "failed" /\ r.phase = "failed" /\ attempt < MaxAttempts
    /\ attempt' = attempt + 1 /\ broken' = FALSE
    /\ s' = NewSender /\ r' = NewReceiver
    /\ wire' = Quiet /\ back' = << >> /\ deferred' = << >>
    /\ UNCHANGED <<sourceVars, fsVars, breaks, crashes, fixedVars>>

\* The user edits a source file during the transfer.
EditSource(i) ==
    /\ edits < MaxEdits /\ SenderRunning
    /\ edits' = edits + 1
    /\ \E content \in Edits :
         /\ source' = [source EXCEPT ![i] = content]
         /\ sources' = [sources EXCEPT ![i] = @ \cup {content}]
    /\ UNCHANGED <<hashed, fsVars, s, r, wire, back, deferred, faultVars, attempt, fixedVars>>

SenderStep ==
    \/ SendHello \/ SendManifest \/ SendAccept \/ (\E i \in Files : SendChunk(i))
    \/ SendDone \/ WaitComplete

ReceiverStep ==
    \/ RecvHello \/ RecvManifest \/ RecvAccept \/ RecvPendingDone \/ SendComplete
    \/ \E p \in Pipes : Defer(p)
    \/ \E p \in Pipes : \E m \in Incoming :
           RecvChunk(p, m) \/ RecvLifecycle(p, m) \/ RecvDone(p, m)
    \/ \E i \in Files : FinalizeFile(i)

Next ==
    \/ SenderStep \/ ReceiverStep \/ SenderFails \/ ReceiverFails \/ Reconnect
    \/ Break \/ Crash \/ (\E i \in Files : EditSource(i))

Spec == Init /\ [][Next]_vars

\* Both programs keep running and both notice a lost connection.
Fairness ==
    /\ WF_vars(SenderStep) /\ WF_vars(ReceiverStep)
    /\ WF_vars(SenderFails) /\ WF_vars(ReceiverFails) /\ WF_vars(Reconnect)

FairSpec == Spec /\ Fairness

(***************************************************************************)
(* Properties.                                                              *)
(***************************************************************************)

Positions == UNION {0..(Size[i] - 1) : i \in Items}

\* Every variable has the type its Go counterpart has.
TypeOK ==
    /\ s.phase \in {"hello", "ack", "resume", "chunks", "complete", "success", "failed"}
    /\ s.offset \in [Files -> Nat] /\ s.done \subseteq Files /\ s.ended \subseteq Items
    /\ r.phase \in {"hello", "manifest", "accept", "chunks", "finalize", "success",
                    "failed", "error"}
    /\ r.coverage \in [Items -> SUBSET Positions] /\ r.ranges \in [Files -> SUBSET Positions]
    /\ r.mode \in [Files -> {"receive", "complete", "skipped"}]
    /\ r.slot \in [Files -> Slots] /\ r.open \subseteq Files
    /\ r.opened \subseteq Items /\ r.ended \subseteq Items
    /\ s.pipes \in 1..SenderPipes /\ r.pipes \in 1..SenderPipes
    /\ DOMAIN part = Files /\ DOMAIN final = Files
    /\ attempt \in 1..MaxAttempts

\* A destination path changes only to a whole file the source once was, never
\* to a mixture of versions, of attempts, or of holes left by chunks that came
\* out of order before a crash (Finalize and finalizeReceivedFile).
FinalIsWhole ==
    \A i \in Files : \A n \in Slots :
        final[i][n] # before[i][n] => final[i][n] \in sources[i]

\* Send returns without an error only when the receiver has every file: moved
\* in place with the SHA-256 the sender computed, matching already by size and
\* sample, or left alone by the policy skip: the file the user had, or a version
\* an earlier attempt moved in place.
SuccessMeansDelivered ==
    s.phase = "success" =>
        /\ r.phase = "success"
        /\ \A i \in Files :
             CASE r.mode[i] = "receive" -> final[i][r.slot[i]] = hashed[i]
               [] r.mode[i] = "complete" -> Sample(final[i][0]) = Sample(Original(i))
               [] r.mode[i] = "skipped" -> conflict = "skip" /\ final[i][0] \in {before[i][0]} \cup sources[i]

\* However the data pipes are merged, and whatever earlier attempts left in the
\* part files, the receiver never refuses a transfer whose sources stay as they
\* are: ranges do not overlap, no chunk comes after its end, hashes match.
NoRefusal == r.phase = "error" => edits > 0

\* The bytes a running receive counts as received are the source's: a prefix
\* that was resumed from has been compared, holes and foreign data included.
CoveredBlocksAreSource ==
    r.phase = "chunks" /\ edits = 0 =>
        \A i \in r.open : \A k \in r.ranges[i] :
            part[i][r.slot[i]][k + 1] = source[i][k + 1]

\* An interrupted striped receive leaves a contiguous prefix in its part files
\* (ReceiveStore.Close); only a crash can leave holes.
PartHasNoHoles ==
    ~ReceiverRunning /\ crashes = 0 =>
        \A i \in Files : \A n \in Slots : \A k \in DOMAIN part[i][n] : part[i][n][k] # Hole

\* The part files hold what the receiver believes, while it runs and after it was
\* interrupted: what is counted as received is the source's, what is left is a
\* prefix.
PartIsSource == TypeOK /\ CoveredBlocksAreSource /\ PartHasNoHoles

\* The transfer ends on both sides: nobody waits for ever for a message the
\* other will not send.
TransferEnds == <>[](~SenderRunning /\ ~ReceiverRunning)
=============================================================================
