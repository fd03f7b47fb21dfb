# kigo: TLA+ models, model checking and proofs

kigo moves files, folders and text between two machines (or a browser), relays and
signals for peers that cannot reach each other, and keeps an encrypted shared notepad.
This directory holds TLA+ modules for its stateful parts, TLC configurations that check
them on small instances, and TLAPS proofs for every value of the constants. Paths below
are relative to the repository root; `PROJECT.json` maps every definition to its lines.

- [1. The system](#1-the-system)
- [2. Modules](#2-modules)
- [3. Runs](#3-runs)
- [4. Fairness](#4-fairness)
- [5. Proofs](#5-proofs)
- [6. Disagreements seen while modelling](#6-disagreements-seen-while-modelling)
- [7. Not modelled](#7-not-modelled)
- [8. Plan](#8-plan)

To repeat: `tlc -config X.cfg M` for the run `X` of module `M` (the table in section 3),
`tlapm M.tla` for a proof module.

## 1. The system

Two programs (`sender`, `receiver`) agree on a code, derive a room token from it, and find
each other through a **service** (`internal/service`) or a LAN relay. They race a direct
connection against one or more **native relays** (`internal/relay`), put an encrypted
channel on what they get (`internal/secure`), and run a **transfer session**
(`internal/transfer`) over one or several pipes. Browsers use the service's **signaling
rooms** to set up WebRTC. The **notepad** is a record in the service's store that clients
join, replace and watch. After a lost connection both programs dial again
(`internal/app/retry.go`) and the transfer resumes from its part files.

| Component | State it keeps | Operations | Talks to | What is hard | What makes it correct |
|---|---|---|---|---|---|
| Persistent notepad (`service/persistent_note.go`) | `s.notes`: hubs with clients, generation, record, expiry; one file per key | join, update, leave, cleanup, load, write | websocket clients, disk | three locks, file work outside them, disk write inside one; crash between rename and sync; cleanup racing joins | no accepted update lost; a connected client is never cut off; accepted = durable; expired files go |
| Signaling rooms (`service/service.go`) | `s.rooms`: two role slots, reconnect tokens, generation, backlog; send queue per client | join (explicit, legacy, reconnect), forward, leave, expire | browsers, native WebRTC peers | a client's leave arrives after its room or generation is gone; sends under the lock | no send on a closed queue; signals stay in their generation; a pair is exclusive; rooms expire |
| Transfer session and receive store (`transfer/session.go`, `transfer.go`, `receive_store.go`) | offsets, stream tracker, coverage; part files, destination files, declared hashes | hello, manifest, resume, accept, open, chunk, end, done, finalize, complete, close | pipes, disk | chunks of one file on several pipes, resumption from unknown part files, crash, edited source, lost last message | only whole files are placed; success means delivered; no legal interleaving is refused |
| Byte ranges (`transfer/ranges.go`) | ordered disjoint intervals | add, prefix, complete | store and session | merging on both sides | equals a set of positions |
| Parallel chunk sender (`transfer/parallel_sender.go`) | a bounded queue and a worker per pipe, wake-up channel, first error | SendChunk, Close, Abort | data pipes | lost wake-ups, errors while the reader waits | each chunk at most once, Close is honest, always ends |
| Weighted scheduler (`mux/scheduler.go`) | deficits, active flags, cursor | Next, Commit | the reading loop | boundary of the deficit, skipping ended streams | bounded deficit, no starvation, every stream ends |
| Native relay (`relay/relay.go`, `bundle.go`) | waiting client per room, index and role; pipes | join, pair, refuse, expire, pipe | native peers | the server does not notice that a waiting client is gone; several connections per peer; retries | pipes are pairs, live pipes are current, peers end |
| Reconnects (`app/retry.go`, `pair_timeout.go`) | attempt counter, deadline | classify an error, retry, give up | relay, transfer | a retry meets its own leftovers | part of the two models above |
| Rendezvous and route negotiation (`service/rendezvous_ws.go`, `negotiate.go`, `direct.go`, `routing/`, `app/negotiate.go`, `direct_signal.go`) | two registries with a room per token: a slot per role with a capability and a result channel; each program's options and plan | join, leave, complete, expire, passive join; offer, resolve, exchange, dial, fall back | both programs, signaling rooms | results sent under `s.mu`; late leaves; programs that lose their exchange separately | the service never blocks, no waiter is forgotten, programs that heard one answer take one route, all settle |
| Sending loop (`transfer/transfer.go`) | per-file read state and offset | pick, read, queue, finish | scheduler, parallel sender, pipes, receiver | the reader, the workers and the receiver share nothing but queues | success means the receiver has every byte read; the loop ends |
| Relay race and LAN upgrade (`relay/race.go`, `app/lan_relay.go`) | joins and pipes per relay, the winner, the embedded relay | join, settle, abandon, drain; request, respond, upgrade | several relays, the peer | each side settles by its own clock, losers win late | both sides keep the same route, everything else is closed |
| Direct connections (`app/direct*.go`) | listeners, dialled and accepted connections | listen, dial, accept, elect, auxiliary dials | the peer | both sides dial both ways, dials meet, deadlines | one connection is elected by both, losers are closed |
| TURN quotas (`service/turn_control.go`) | allocation counters, identities by address, token buckets | allow, created, deleted, consume, clean up | TURN library | check before and count after; late releases name an address, not an allocation | quotas hold; bytes are charged once and to their owner |
| Note clients (`note/*`, `app/local_web_note.go`, `app/note.go`) | document, revision, session, store, draft | edit, publish, receive, reconnect, leave, return | notepad service, draft store | refused and overtaken updates; an old run beside a new one | clients converge, edits are kept |
| Local stores (`note/recent_store.go`, `draft_store.go`, `app/route_history.go`) | files and lock files | lock, read, replace, prune, record | other programs of the user | locks left by a crash or taken for stale; pruning without locks | what was asked to be kept stays; calls return |
| Consoles (`app/local_web.go`, `native_task.go`, `tui*.go`) | task and notepad stores, editor, timers, polls | start, cancel, leave, type, poll, publish | the stores above | concurrent requests; answers about an older state | one activity at a time; typed text is kept and published |
| WebRTC and other transports, browser client, secure channel, HTTP limits, probing | see `PROJECT.json` and section 7 | | | | |

`PROJECT.json` lists under `hazards` the places where a test would hardly look, each with the
properties that watch it, or why none does.

## 2. Modules

### NoteHub — the notepad service

One notepad key. `notes` is `s.notes[key]`; `hub`, `members`, `deliveryMu` belong to the hub
*objects*, which outlive their registration, as in Go. The file exists twice: `disk`, what the
running system sees, and `durable`, what a machine crash leaves. Each client's handler
goroutine has a program counter `pc`, the cleanup goroutine has `sweep`.

A step is a critical section under `noteMu`/`hub.mu` (they contain no blocking call), one file
operation, or one socket write. `JoinFound`/`JoinMiss` → `LoadRead` → `LoadDiscard` →
`InstallNew`/`InstallOther` is `joinPersistentNote` with its two critical sections and the file
work between them; `Greet` and `Leave` are the handler's first write and its deferred
`leavePersistentNote`; `ApplyBegin` … `BroadcastDone` is `applyPersistentNote` under
`deliveryMu`; `Sweep*` is the cleanup. `Crash` is the end of the process, or of the machine
(then `disk` falls back to `durable`). `raced` records that a removal made without a lock took
away another file than the one it had inspected; `accepted` the contents that were committed.

### SignalRoom — signaling rooms

One token. Room and client *objects* are numbered and stay addressable after they were
unregistered or closed, because a late `leave` still refers to them. `JoinExplicit`,
`JoinLegacy`, `Rejoin` (with `NewGeneration`), `Forward`, `Deliver` (writeLoop), `Leave`,
`Cleanup` and `Tick`. Every operation of the code holds `s.mu` throughout, so each is one step.
`known` is the room whose reconnect token an endpoint has been given. `evicted` records that a
`leave` unregistered a room that was not its own.

### Transfer — sessions, receive store, reconnects

A sender and a receiver over `SenderPipes` × `ReceiverPipes` connections. `wire[p]` is an
ordered pipe, `back` the way back on pipe 0; the receiver takes the head of any pipe. A file is
a sequence of block contents, and its SHA-256 is that sequence (no collisions); the sample hash
of large files is size, first and last block, so that a lookalike can pass it, as in the code.
`s` and `r` are the session values of one attempt; `part` and `final` are the receiver's files,
which outlive it. Actions follow the protocol: `SendHello`, `RecvHello`, `SendManifest`,
`RecvManifest` (opens the store and asks for offsets), `SendAccept` (compares the prefixes,
hashes, opens the streams), `SendChunk`, `SendDone`, `Defer`, `RecvAccept`, `RecvChunk`,
`RecvLifecycle`, `RecvDone`, `RecvPendingDone`, `FinalizeFile` per file, `SendComplete`,
`WaitComplete`; the faults are `Break`, `Crash`, `EditSource`; `SenderFails`, `ReceiverFails`
and `Reconnect` are the retry loop. Both peers are of the present version (features
`deferred-file-sha256` and, by `peersStripe`, `chunk-striping`).

### SendPath — the sending loop, with Scheduler, ParallelSender and ByteRanges

`Scheduler` is the deficit round robin: `Turn` and `Skip` are `Next`, `Commit` is `Commit`, with every
budget and every short read; `waited` counts what others have sent since a stream's last turn.
`ParallelSender` is the reading goroutine, one worker and bounded queue per pipe, the capacity-1
channel `available`, the first error, the cancelled context, `Close` and `Abort`. `ChunkDelivery` is
what its caller expects: chunks are taken, each is sent at most once, and success means that each was
sent exactly once. `sent` is a bag, so that a second send of a chunk, by the same worker or another, is a
step that `ChunkDelivery` does not have. `ByteRanges` is the interval list of the receiver.

`SendPath` composes them into the loop of `sendPathItemsWeighted`: it extends `Scheduler` and
`ByteRanges`, keeps one list of ranges per item, and takes `P == INSTANCE ParallelSender`. `NextTurn` picks a stream,
`ReadChunk`/`ReadEnd`/`ReadFails` read what the budget allows (short reads and a source that has
become shorter included), `Queue`/`WaitForRoom` are `SendChunk`, `Finish`/`Join` are `Close`,
`TakeJob`/`Deliver`/`SendFails` the workers, and `Deliver` adds the range at the receiver, which may
refuse it. `Cancel` is the context of the caller. So the chunks that reach `ByteRanges` are those the
program can really send, in the orders several pipes allow.

### Relay — native relay, bundles, retries

One room token, connection indexes `0..Count-1`. The server's view of a connection (`server`,
`mate`) and the client's (`open`) are separate: the server does not read from a waiting
connection, so it keeps dead ones and pairs them. `Handle` is the server's treatment of a join,
possibly long after its client gave up; `Expire` is the TTL, `PipeEnds` the pipe. The peers
dial, join a bundle, fall back to the primary connection, fail and retry.

### Rendezvous — negotiation, direct exchange and the choice of a route

One room token and two registries (`negotiation`, `direct`) of the same code. `rooms` holds the
registered room of each, `conn` the WebSockets with their handlers: what was sent, the result
channel, the reply on its way to the program, and `mate`, the connection it was completed with.
`Join`, `Drop`, `Answer`, `Leave` are a handler's steps, `Cleanup` the service's ticker; `Enter`
is `join` followed by `complete…Locked` in one critical section, whose send on a full channel
sets `blocked`. A program (`prog`) goes through `ResolveForced` or `Offer`/`OfferFails`,
`ReadRoute`/`RouteLost`, and, told to use direct TCP, `Exchange`/`ExchangeFails`,
`ReadPeer`/`PeerLost`, `DirectConnects`/`DirectFails` and the fallbacks of `AfterDirect`.
`JoinSignaling` is the passive entry that joining a signaling room leaves in the negotiation
registry. Faults are `Lose`, `PairTimeout` and `Restart`. `setting` and `serverRelay` are fixed
by the deployment. Times are abstracted: a room may lapse at any moment, the 30 s of a passive
room and the TTL of the others included; the route history, read three times, may answer
differently each time.

### NativeDial — from pairing to one transport, with RelayRace and DirectRace

`RelayRace` is `RaceJoin` of both peers over a LAN and an external relay: `Pair` is the relay pairing
them, `Outcome` a join that comes in during the race, `Settle` the short timer, `Abandon` the caller
giving up, `Drain` the goroutine that closes late winners. `DirectRace` extends it with the direct
connections: `Dial`/`Meet`/`Answered`/`Accept` make connections (two dials that meet are one
connection), `Elect` and `Decide` choose the primary, `CloseLoser` closes the others, `DialAux` …
`AuxDeadline` negotiate the auxiliary connection. `NativeDial` extends both with `dialRelayTransport`:
`RaceWon`, the direct attempt, the LAN upgrade (`Request`, `Respond`, `GetResponse`, `UpgradeLost`,
`LanEnds`), the fallback to the relay and the life of the embedded relay (`embedded`). `untimely`
records that a timer of one peer fired while the other's answer was on its way; `reachable` is what
the network lets through and does not change.

### NoteSync — the native clients of a notepad

A `store` is the web console's notepad or the interactive command, a *run* one start of it with its
own workspace, connection and goroutine; a run that was left goes on until it notices. The service
is NoteHub as its clients see it: `Joins` and `Greet` are separate, so that the first state can come
after a later broadcast; `Put` accepts or answers with the newer state. `Start` … `Connected` open a
session, `Read`/`Compare`/`Republish` are `readLoop`, `HandleUpdate`/`HandleAck`/`HandleError` the
store's `handleFrame`, `Retry`/`Lost`/`RunEnds` the reconnects, `Edit`/`CheckDraft`/`SaveDraft`/
`Publish` a publish with the file write between its critical sections, under no lock but `sendMu`, `Leave` and `Break` the faults.
`Later` is the order of documents: revision, timestamp, text. `overtaken` marks the stores whose draft
was written by a run that had been left.

### LocalFiles — recents, drafts, route history

Contents of files as sets of entries, one lock file per file. `Create`/`Contend`/`Break`/`Unlock` are
the locking (`Break` may remove a lock file that is not the one `Contend` looked at), `Update`/`Commit`/
`Replace`/`Again` the read-modify-write with temporary file and rename, `List`/`Scan`/`Prune`/`Pruned` the
removal of drafts after the unlock. `Touched`, `Favored`, `Recorded`, `Migrated` and the others are the pure updates.
`Tick` and `Age` are time; `Crash` leaves a lock behind; `damaged` names the files on which a lock was
taken from a running holder or a write failed.

### Consoles — web console and terminal program

`front` says which of the two runs. The web console's `Ask`/`Lock`/`Look`/`StartIt`/`HandleCancel`/
`HandleLeave` are the steps of concurrent requests over `activityMu`; the terminal program's
`StartTask`, `EscTask`, `StartNote`, `EscNote`, `Type`, `PublishNow` are keys, and `PollAnswers`,
`PublishBegins`/`PublishEnds`, `Debounced` are commands that answer with a message for `Receive`, the event
loop's `Update`. A publish holds `sendMu` from the workspace's text to the answer, which is the new state or
one of its errors: not connected, "notepad session changed" (`store.changed`: the session went away in
between), or a send that failed after the store had taken the text (`Fails`). `gaveUp` is the history of
those errors for the last change, and of a debounce that met a pad without a connection. The notepad session itself (`PadConnects` … `PadFails`) is what NoteSync leaves visible.
`Overtakings` bounds the answers that arrive before earlier ones, which nothing in the code excludes.

### TurnQuota — quotas of the TURN server

`Request`/`Allow`/`Allocate`/`Created`/`Remove`/`Deleted` are the calls of the TURN library, which is
external: one request at a time, and `Deleted` from a timer after the allocation is gone. `Write` and
`Consume` charge buckets, `Refilled` and `Forgotten` are their arithmetic and cleanup. `ideal` is what
is left of each limit if no bucket were ever forgotten. Its specification is `QuotaSpec`, so that
`ServiceProofs` can extend it together with `Rendezvous`.

### How they compose

`SendPath` puts `Scheduler`, `ParallelSender` and `ByteRanges` together in one behaviour, and
`Transfer` uses what that run shows: its `SendChunk`/`SendDone` are `ChunkDelivery`, its coverage is a
set of positions (`RangesAreExact`). `Transfer` takes from `Relay` that two sessions sit on one pair of
live pipes (`LivePipesAreCurrent`). `Rendezvous` comes before: it ends where a program dials its
relay, has joined a signaling room (`SignalRoom`), or tries a direct connection. `NativeDial` is
composed of `RelayRace` and `DirectRace` and continues there; its relay pipes are those of `Relay`.
`NoteSync` stands on `NoteHub` (one winner per base generation, `NoLostUpdate`) and on the drafts of
`LocalFiles`; `Consoles` on the notepad store of `NoteSync`. `MC*` modules only give values to constants.

## 3. Runs

| Run | Module | Instance | Shows |
|---|---|---|---|
| `NoteHub` | NoteHub | 2 clients, 1 record, 2 hubs, 2 generations, TTL 1, clock to 1, 1 crash | `JoinedHubIsCurrent`: a connected client is in the registered hub; `AcceptedIsDurable`: accepted updates survive, except for the removal of section 6; `NoLostUpdate`; `UpdateEnds`; `ExpiredFileRemoved` |
| `SignalRoom` | MCSignalRoom | 2 senders, a receiver and a role-less client; 3 connections, 3 rooms, rooms that lapse | `NoSendOnClosedQueue`; `SignalsStayInGeneration`; `RoomsAreSound`: locked pairs are exclusive, joins never block, open clients can be found; `ExpiredRoomsCloseUnlessEvicted` |
| `Transfer_stripes` | MCTransfer | 2 files and a directory, 2 data pipes, with and without striping, leftover part files, 1 break, 1 crash, 1 reconnect | `NoRefusal`: no legal order of messages is refused; `PartIsSource`: a part file has no holes in what it is trusted for, and that is the source |
| `Transfer_versions` | MCTransfer | 1 file of 3 blocks, chunks of 1–2 blocks, source rewritten, a lookalike or another file at the destination, policies overwrite, skip and rename, 1 break | `FinalIsWhole`; `SuccessMeansDelivered`; `TransferEnds` |
| `Relay` | Relay | 2 connections per peer, 2 attempts each | `ServerKeepsPairs`: waiters are registered and pipes are pairs; `LivePipesAreCurrent`; `PeersEnd` |
| `Rendezvous` | MCRendezvous | sender and receiver, 10 combinations of client, transport mode, protocol, relay, LAN, direct TCP and port reuse; 4 WebSockets each, 1 fault | `ServiceKeepsWaiters`: no send blocks the service and no waiter is forgotten; `RoutesAgree`; `ProgramsSettle` |
| `SendPath` | MCSendPath | files of 4 and 1 units with weights 1 and 2, the second resumed after 1; quantum 2; 2 workers, queues of 1 | `DeficitBounded`, `NobodyStarves`; `ImplementsDelivery`: the queues implement `ChunkDelivery`, no chunk is sent twice; `RangesAreExact`: the range list equals the set of positions, and would for any next range; `SuccessMeansComplete`; `SenderEnds` |
| `NativeDial` | NativeDial | external and LAN relay, 1 candidate per listener, 2 for the LAN upgrade, dials that meet; every set of reachable links | `NothingLeftOpen`; `RoutesMatch`, unless a timer fired while an answer was on its way |
| `NoteSync` | NoteSync | a web console that may leave and return, an interactive command; 2 attempts, 2 edits, 1 fault | `ConvergedTogether`: without a fault all hold one document; `QuietIsSettled`: never behind the service, nothing left unacknowledged; `ShownIsOwn`; `DraftKeepsEdits` |
| `LocalFiles` | LocalFiles | 2 programs, 3 calls, clock to 2, limits of 1 entry, threshold 2, 1 fault | `KeptStays`: favorites and drafts; `DeferIsEarned`: direct dialling is deferred exactly after enough recent failures; `CallsReturn` |
| `Consoles` | Consoles | 2 requests, 2 web tasks, 1 terminal task, 2 sessions, 2 edits, polls in flight, 1 overtaking | `ActivitiesAreApart`: task and notepad never run together, a cancel reaches only its task; `TypedIsKept`: no answer replaces what is not published; `EditorSettles`: the editor gets the store's text, unless the last publish was given up or ended with an error |
| `TurnQuota` | MCTurnQuota | 2 clients of one host, 2 credentials, 2 relay addresses, 3 allocations, limits of 2 units, window of 2 ticks, clock to 3; symmetry | `QuotaHeld`; `EgressIsMetered` |

Why the bounds are enough to be interesting:

- *NoteHub*: two hubs let a stale hub and its successor exist at once; two generations let two
  updates of one base compete; TTL 1 and one tick let a record expire under a client; one crash
  lands between any two steps. The clock, generation and hub bounds only cut the behaviour off.
- *SignalRoom*: three connections are a pair and the reconnect that starts a generation and closes
  the peer, or two clients of lapsed rooms and one of the successor; three rooms are a lapsed room,
  its successor and the successor's. A backlog of one entry is full at once, and a queue of three
  has the margin over it that the code's constants have. `NoSendOnClosedQueue`, where longer chains
  of generations matter most, is proved for any number of connections.
- *Transfer*: two data pipes are the least that reorder; a two-block file striped over them can
  have a hole; a one-block file and a directory share pipes with it; foreign leftovers are the
  part files of another transfer of the same name. One break with two attempts reaches each
  message's loss, the last one's included. `Transfer_versions` keeps the length of an edited
  source; a source that became shorter makes both sides wait for the connection to end (listed
  under the hazards).
- *Relay*: two attempts of both leave one dead connection of each kind waiting; two indexes are
  the least for a bundle of which one half fails.
- *Rendezvous*: four WebSockets are both exchanges of a program and of its restart; one fault at
  any step is enough to leave a stale connection beside its successor or a waiter without a peer.
  The deployments reach every branch of `Choose`, every dialer and every fallback: two peers of
  the present version, one without port reuse, a browser, a different protocol, forced modes,
  LAN on both sides and on one, a common, an own and a service relay.
- *SendPath*: with queues of one chunk, five chunks overfill both queues and both workers' hands,
  so that the reader waits; the large file is striped over both pipes and its chunks arrive out of
  order; the small one ends first, is skipped, and starts behind a resumed prefix. Quantum 2 leaves
  deficits after short reads.
- *NoteSync*: two edits of two clients conflict at every order of revision and text; one client that
  returns has an old run beside a new one; one fault at any step loses a put, an answer or a first state.
  Equal clocks force the last comparison, by text.
- *NativeDial*: one candidate each way and dials that meet give three connections to choose from; two
  LAN candidates give a loser to close in the upgrade. `offered`, `reachable` and the mode take all
  combinations in the initial states.
- *LocalFiles*: limits of one entry make each second save prune; three calls of two programs are a
  writer, a competitor and a successor; a lock can become stale under its holder or outlive a crash.
- *Consoles*: two requests race for `activityMu`; two tasks let a cancel meet the next task; two
  edits let an answer be about the older one, or one be published and one arrive from the peer while
  the connection comes and goes.
- *TurnQuota*: `MaxTotal` 2, one per credential: each quota is reached; three allocations reuse an
  address before a late `Deleted`; three ticks empty, refill and forget a bucket. Clients,
  credentials and relay addresses are alike, and the run checks no liveness, so symmetry is sound.

Deadlock checking is off where the system may stop: clients may all have left, the transfer may
have ended, and the bounds on clocks, rooms, calls and connections are themselves ends. It is on in
`NativeDial`, where the only end is the one in which both peers have returned and the goroutines left
behind have closed what they held.

Every property of a passing run has a mutant in `PROJECT.json`: an operator that changes a
definition as a plausible bug in its code would, under which TLC finds the property violated.
The mutants stand next to the definitions they change and are used by nothing else.

## 4. Fairness

- *NoteHub*: weak fairness of an update's steps (goroutines run; disk writes return; socket
  writes have a deadline), strong fairness of the cleanup: it competes for `deliveryMu` with
  handlers, and a Go mutex hands over to a waiter that has starved for a millisecond. No
  fairness of joins, leaves or publishing: clients may stop.
- *SignalRoom*: the cleanup ticker fires, time passes, and a closed queue makes `writeLoop` close
  the socket, which ends `readLoop` and runs `leave`.
- *Transfer*: each program runs and notices a lost connection (keep-alive and deadlines of the
  transports); failed programs that may retry do. `Break`, `Crash`, `EditSource` are never forced.
- *Relay*: peers and server goroutines run. The TTL is *not* assumed to pass: peers end without it.
- *Rendezvous*: handlers and programs run; rooms lapse and the cleanup, which has a ticker, finds
  them. A connection need not break, a pairing window need not end and a direct attempt need not
  succeed.
- *SendPath*: the reading goroutine and each worker run; a send ends with or without an error.
  `Cancel` is never forced, and a failing read or send need not happen.
- *LocalFiles*: each program takes its next step, the wait for a lock included; the code waits at most
  a fixed time and then gives up or removes a lock that is old. Crashes, ageing and time are free.
- *Consoles*: Go runs every request and every command to its end, timers fire, and the event loop takes
  its messages. Keys and the peer are free.

`NoteSync`, `NativeDial`, `TurnQuota` and `Transfer_stripes` check safety only and state no fairness. In
`NoteSync` and `NativeDial` the properties speak of states in which nothing is under way.

## 5. Proofs

Each proof module extends its component's module (`ServiceProofs` those of two parts of the service that
share no state) and assumes only the named `ASSUME` of the constants. All steps are checked by tlapm's SMT, Zenon and LS4 backends.

**`NoteHubProofs`** — any finite or infinite set of clients and records, any bounds.
`TypeCorrect`, `JoinedCorrect` (`JoinedHubIsCurrent`), `UpdatesCorrect` (`NoLostUpdate`),
`DurabilityCorrect` (`AcceptedIsDurable`).
`JoinedHubIsCurrent` is not inductive: a cleanup that has chosen to drop a hub must be known to
hold a hub without members, and a writer must own the lock. `IInv` therefore adds to `TypeOK`:
`HubInv` (the registered hub has been allocated, members of a hub are exactly the handlers that
joined it), `LockInv` (`deliveryMu` is owned by the one handler writing in that hub, or by the
cleanup at `unlink`), `SweepInv` (where the cleanup is fixes which hub it holds), `BlankInv`
(hub objects not yet allocated are blank). Two updates with one base cannot both commit because
the second finds the lock taken until the generation has moved. For durability `DInv` adds
`FileInv`, `TimeInv`, `StaleInv`, `WriteInv`, `CoverInv`: what a handler holds was read or
stamped no later than now; what a writer holds is one generation above its hub; and the file on
disk *covers* the hub's record at every program point between rename, sync and commit, unless
`raced`. A removal can only break the cover by taking a file it did not inspect, which is what
sets `raced`.

**`SignalRoomProofs`** — any set of endpoints, any TTL, backlog and queue size.
`SignalTypeCorrect`, `SignalSendsCorrect` (`NoSendOnClosedQueue`). `IInv` adds `MemberInv`
(clients of a room object are allocated and refer back to it), `AllocInv` (rooms beyond
`lastRoom` are empty), `OpenInv` (in the registered room all clients are open) and `PeerInv` (in
any room an open client has only open peers). `PeerInv` carries the argument past expiry: a
lapsed room keeps its clients, but all of them were closed in the same step.

Its second part is about who meets whom, with a queue that holds more than the backlog and the ready
message (`Capacity > MaxPending + 1`; 80 and 64 in the code): `PairsCorrect`,
`SignalsInGeneration` (`SignalsStayInGeneration`), `RoomsSound` (`RoomsAreSound`). What a client receives
was put into its queue, or into the backlog of the room, several steps before, so `PInv` follows the
signals: `QueueInv` and `BacklogInv` say of which side and generation what is queued and kept is. That the
replay of a backlog never gives a client its own side's signals needs to know who can take which role
again: `SeatInv` (clients with a role and holders of the slots are the same, all of the room's
generation), `SoloInv` (an unlocked registered room has had one client), `TokenInv` (for which roles
tokens were given out), `PairInv` and `AskedInv` (everyone in a room with a pair is of the pair and has
the role it asked for), `BlankInv` (what is not allocated is blank) and `OpenClientIsRegistered`.

**`SendPathProofs`** — any finite set of pipes, any depth, streams, weights, quantum, sizes and resumed
prefixes.

The received ranges alone, lists of any length and items of any size: `AddKeepsCanonical`, `AddIsExact`
(`AddsExactly`), `PrefixOfCanonical` (`PrefixIsContiguous`). The insertion point is a cardinality of a set
of indexes that holds `1..k` with each `k`; `PrefixIsInterval` shows that such a set is `1..n`, so the ranges
before it end at or before `start` and those after it end later. A range that overlaps nothing then lies
between two neighbours, and `MergedShape` describes what `Add` makes of them: the first `a` ranges, one
range `x`, and the ranges from `b` on (`Spliced`), where `x` is exactly the new range and the neighbours
it touches (`Replaces`). Order, gaps and the set of positions follow case by case.

The scheduler alone: `DeficitsBounded` (`DeficitBounded`): the refill happens only
at zero, a budget is at most the deficit, and `Commit` charges at most the budget; products
`Quantum * Weight[i]` are nonlinear, so the proof names them and uses only that they are positive.

The loop: `PathInvariant`, `DeliveryImplemented` (the refinement `ImplementsDelivery`),
`PathDeficitsBounded` (`DeficitBounded`), `RangesExact` (`RangesAreExact`), `SuccessIsComplete`
(`SuccessMeansComplete`). For the sender, `SInv` gives every chunk that was taken and not sent one *place*
(the job of a worker or a position in a queue): `PlacedInv` (what is in a place was taken and not sent),
`OnceInv` (no chunk has two places), `KeptInv` (without an error every chunk taken is sent or has a
place), `ReaderInv` (the reader returns only when all places are empty). A send then maps to `Deliver`, a
successful `Join` to `Succeed`, because workers that are done have no place left. For the bytes, `DInv`
follows a position through the loop: it was read into a chunk (`ReadInv`), the chunk lies between resumed
prefix and offset (`ChunkInv`), a chunk that was sent is covered at the receiver unless it refused
(`SentInv`), which has nothing that was not read (`GotInv`). `CountInv` (the scheduler's count is the number
of active streams, zero when `Close` was called) says that nothing is left to read. The composition's
steps are shown to be steps of `ParallelSender` and of `Scheduler`, so the proofs of the parts are reused.
That no chunk is sent twice is `PlacedInv` and `OnceInv` again: the chunk of a `Deliver` has a place, so it
is not in the bag yet, and the bag stays `Once` of its set (`SentTaken`).

**`RelayProofs`** — any number of connections per peer and of attempts. `Invariant`, `KeepsPairs`
(`ServerKeepsPairs`), `PipesAreCurrent` (`LivePipesAreCurrent`). The server's view of a connection
outlives the client's, so `IInv` ties the two: `WaitInv` (the registry and the waiting connections name
each other, and no two peers wait under one index), `MateInv` and `PipesArePairs` (a piped connection has
a mate of its index, and keeps it), `ChannelInv` and `OpenInv` (a peer's channels are its own
connections, and what it has open are its channels: it closes what it gives up), `PhaseInv` (which
channels a peer may have before and after its bundle), `BlankInv` (connections not dialled are blank) and
`CountInv` (the number of connections is bounded by the attempts, so that the bound `MaxConns` of the
model never stops a peer).

**`ServiceProofs`**, the TURN quotas — any clients, users, quotas and clocks, and egress limits that are
multiples of the window. `QuotaInvariant`, `QuotasHold` (`QuotaHeld`), `EgressMetered` (`EgressIsMetered`). The counters are
cardinalities of what was reported created and not yet deleted (`CountInv`), which is not what the
library has: `IdInv` keeps the allocations apart and says that only the one being made is not counted,
`LimitInv` that the request being handled still fits. For the egress, `TableInv` says which allocations
the tables name, and `MeterInv` that what is left of a limit is what would be left had no bucket been
forgotten: the cleanup forgets a bucket only once it would be full again.

**`ServiceProofs`**, the rendezvous registries — any programs, also several of a role, with any options of
their own and of the service, any relays, WebSockets and faults. `MeetInvariant`, `WaitersKept`
(`ServiceKeepsWaiters`). That no completion waits under `s.mu` follows from what a slot is: `MeetInv` says
that a peer in a room is passive or is the handler, of that role and registry, that waits and has been sent
nothing (`RoomFits`), and that every such handler is in the room of its registry (`Keeps`). `Seated` is this
one relation between a room and a handler; expiring a room (`ExpireKeeps`) and completing one
(`CompleteKeeps`) end it for all its peers at once, and no other step touches it except a
handler's own leave, which takes its slot with it if it still has one. `EnterKeeps` is the join with all it
may do under the lock, for an active and for a passive peer. The rest of `MeetInv` is types: of what is
sent and answered (`Socket`), of the programs (`ProgInv`: who waits has opened the WebSocket it waits on, in
the registry it asks), and that the WebSockets of a program are numbered without gaps (`NumberInv`), so
that a new one never takes the place of an old one.

On top of it, `RouteInvariant` and `RoutesAlike` (`RoutesAgree`), under the hypothesis `OnePair` that at most
one program of each role has the code. The hypothesis is needed: with a second receiver TLC finds a sender
that is restarted, pairs with that receiver, meets the first one in the direct registry, and takes its word
for whether there is a relay. `RouteInv` follows an answer from the capabilities to the route. What lies in
a slot was sent by the program behind it (`Honest`), so what a completion sends (`CompleteTrue`) is
`Choose` of the two mates (`Truth`), and mates were told of each other (`Mates`); a step of the service
only adds such answers or failures (`Milder`, `Later`). A program that heard an answer is at one of the
places the answer leads to (`Follows`): on the relay, on WebRTC, or, with direct TCP, still trying it,
connected, or where a failed attempt goes. That this place is the same for both is the work of
`PeerTrue`: each offers in the direct registry whether the common route has a relay, so both sides of
`useRelay` are the same and a lost exchange falls back as a completed one does. `Together` is the one case
that is not a function of the answer: who is connected has a connected peer, unless that one was
restarted. `OneRoute` concludes.

**`TransferProofs`** — any items and sizes, pipes, chunk sizes, contents, policies, edits, lost connections,
crashes and attempts. `TransferInvariant`, `FinalsWhole` (`FinalIsWhole`), `SuccessDelivered`
(`SuccessMeansDelivered`), `PartInvariant`, `PartsAreSource` (`PartIsSource`), `NoRefusalInvariant`,
`RefusalsEarned` (`NoRefusal`). The first two rest on how the hash the sender computed travels: `HandshakeInv` says that
at most one message of the handshake is on its way and that a receiver that waits for resume_accept finds
that message, of this attempt, at the head of pipe 0, with the hashes the sender holds
(`DeclaresHashes`); `StoreInv` that the files still open are those to be received, that what was
declared for them is what the sender hashed, and that those no longer open are in place with it;
`HashInv` that what was hashed was a version of the source. Nothing is assumed of what comes over the data
pipes or of what a part file holds: whatever they carry, only a verified file is moved. That a success is
one of the same attempt follows from `HandshakeInv`: the answer queue of a sender past the handshake is
empty until its receiver has finished.

`PartIsSource` does depend on what the pipes carry, and `PInv` says it. `WireInv`: every chunk on a pipe or deferred
carries the source's blocks at its offset (`Sound`), unless the source was edited. `ResumeInv`: a request of
the store is about its part files as they are, and the resume_accept the store is going to read accepts only
what was compared with the source. `PartInv`: of an open part file, every position counted as received is
written and, once the accept was applied, the source's; a hole is only where striped chunks may still come and is never a counted
position; all other part files have no holes. `Close` cuts an open file to the contiguous prefix
of what was counted (`PrefixIs` shows that there is exactly one such prefix), hence leaves none (`ClosedIs`); the file at which `Finalize` gives up is not cut, and is
whole because `Finalize` is reached only with every byte covered. `OnPipeElems` shows that the stream
messages of a pipe are those of its items: the ranks of a finite, strictly ordered set are all the numbers below its
cardinality. The one assumption on contents, `TransferContents`, is that a file, and a part file closed by an earlier run, has no
holes; a crash, which does leave them, is a step of the module.

`NoRefusal` depends on everything that is under way, and in which order; `NInv` says it, for a source
that was not edited (after an edit the receiver may refuse, and only the conflict policy is still
followed). The receiver merges the pipes as it likes and defers what comes before the offsets are accepted, so the
messages of a pipe that are still to be read (`Way`, `Flight`) are its deferred ones, then those it holds;
`FlightDefers`, `FlightAccepts`, `FlightTakes`, `FlightGrows` say what each kind of step does to them. `FlowInv` has
three parts. `OrderInv`: each message is one the receiver takes if nothing else comes first (`Fits`: on
its item's pipe, a stream not yet opened or not yet ended, a chunk inside what was sent and outside what was
received), what follows on the same pipe may follow it (`MayFollow`: no second open, no chunk after the
end unless striped, chunks in ascending order), and what is on another pipe may overtake it (`Apart`). `WholeInv`:
nothing is lost, every stream not open has its `stream_open` under way and every byte sent is received
or under way. `SentInv` ties both sides' counts. Together they give each check of the receiver: an end
finds its stream open because an open that is still missing would be behind the end on the same pipe; an
unstriped chunk starts at the prefix because the byte there, sent and not received, would otherwise be under
way behind a later chunk. `AnswerInv` says that what is asked, granted and declared is about the part
files and the source as they are, which is what `AcceptValid` and `verifyPartFile` compare, and that an
open file can be placed; `CalmInv` that before the offsets are accepted the data pipes are empty
and the two sides agree on the pipes.

**`ConsolesProofs`** — any requests, texts and bounds. `ConsolesInvariant`, `ActivitiesApart`
(`ActivitiesAreApart`), `TypedKept` (`TypedIsKept`). Neither property sees what is in flight, so `IInv` says
it: `WebInv` (a request past the lock is the only one, and what it looked at is still so when it starts),
`TuiInv` (while an activity runs, the screen and every answer on its way say that it runs: the form,
which alone starts something, is out of reach), `KeptInv` (answers and publishes under way are about the
session in the editor and its versions so far, and no answer "stored" is about the version that is not)
and `CancelInv` (a cancel read and not yet called was asked for). As long as nothing was overtaken, a key
that starts something finds no answer and no publish under way; this is where the premise
`overtaken = 0` is used. An answer that a publish failed changes nothing in the editor, and
`FailsAnswers` says so once for all three errors.

**`NoteSyncProofs`** — any clients, interactive or not and returning or not, any texts (ordered as numbers),
clocks, queue depth and numbers of edits, reconnects and faults. `SyncInvariant`, `ShownOwn` (`ShownIsOwn`),
`DraftKept` (`DraftKeepsEdits`), `SettleInvariant`, `QuietSettled` (`QuietIsSettled`), `TogetherInvariant`,
`ConvergedWhenTogether` (`ConvergedTogether`). `LaterIsOrder` shows that `compareDocuments` is a total order, `AppliedGrows`
and `UpdatedGrows` that a workspace never goes back. Every step of the service, the network and the runs
is an instance of `Grows`: the workspaces grow, and a run touches the screen or the draft of its store only
with what the workspace of the *current* run has, or it was left and `overtaken` says so; `GrowsKeeps` is
proved once for all of them. The steps of the user are about one store (`OneStore`). The strengthening is
`PubInv`: between the update of the workspace and the send, `sendMu` is held but the store may be left and
started again; the document is in the workspace of *its* run, not older than what was published before,
and, once saved, in the draft unless its session is over. `KeptInv` carries what was published to the
workspace of the run that is current.

`QuietIsSettled` and `ConvergedTogether` speak only of states in which nothing is under way; the
invariants behind them say what is under way in all others. `SettleInv` has three parts. `LinkInv`: as long as
the connection of a run stands, the service's state is *heard* (`Hears`): it is the greeting still to be
written, or in the queue to the client, or taken as the initial state, or being compared, or an update not
yet handled, or the workspace has reached it. The first of these is where a greeting may come after a later
broadcast, so `LinkInv` also says that a greeting of the current generation has nothing before it. `SeatInv`:
a store that waits for an acknowledgement has one coming (`Answers`): a put, a comparison, an
acknowledgement of that revision or a later document is under way, and what the screen shows is the workspace
unless a publish will show it. `TurnInv` ties a publish under way to the attempt it was begun in, so that one
of an earlier session is never mistaken for an answer. In a quiet state every one of these alternatives but
the last is empty.

`TogetherInv` says, of the behaviours without a fault so far: no run is over or cut off (`Alive`), and every
document that lies anywhere, in a workspace, a message or an event, has an *owner*: somebody who reads has a
workspace that has reached it, and if it is later than the record that owner has something under way that will
send it (`Answerer`). An owner that compares a state gives up answering only when its own document is not later than
that state, which, for the state that is the record, is when no answer is needed any more; an accepted put makes every owner an
answerer, because everybody is told. A leave or a lost connection takes an owner away: that is the
disagreement 4 of section 6, and why the theorem needs `faults = 0`. In a quiet state nobody answers, so no
document is later than the record; with `QuietIsSettled` the two are the same (`SameDoc`).

`TypeCorrect` and `SignalTypeCorrect` state the `TypeOK` of their modules, which the proofs need and no
run repeats. The inductive invariants were checked by TLC on the runs' instances before they were proved.

Only model-checked: all liveness (`~>`, `<>`, fairness), which is out of the prover's reach, and with it
`ExpiredRoomsCloseUnlessEvicted`; `NobodyStarves`, whose bound is a sum over the streams (a fold, whose
value for every set of streams needs an induction the provers cannot instantiate); everything in
`NativeDial` and `LocalFiles`.

## 6. Disagreements seen while modelling

The code and its documents disagree in the following places. Each is stated as a property beside
those that hold; adding it to the run's cfg makes TLC print a behaviour (for the first with
`Records = {r1, r2}`; for the second with `Endpoints = {s1, r1}`, `RoleOf <- PlainRoles` and
`MaxTime = 2`, so that the successor of a lapsed room lapses as well). The runs check the strongest
statement that does hold.

1. **`AcceptedSurvivesRestart`** of NoteHub (`internal/service/persistent_note.go:496`, and the removals
   at the load and after the hub is dropped). The cleanup reads a file, judges it expired or corrupt,
   and removes its *path* without a lock. An update accepted in between has replaced the file by a
   fresh one, which is removed instead; the hub still serves the record, but a restart loses it.
   `docs/note.md:89`: "Every accepted update refreshes the deadline."; `README.md:65` promises
   that the notepad survives service restarts. `AcceptedIsDurable` shows that this is the only way.
2. **`ExpiredRoomsClose`** of SignalRoom (`internal/service/service.go:909`). `leave` deletes
   `s.rooms[r.token]` when its own room is empty without checking that the registered room is its own.
   The late leave of a client of an expired room unregisters the successor, whose client is then out
   of the cleanup's sight. `README.md:55`: "Signaling rooms have a TTL and expired rooms notify
   connected clients before closing". `RoomsAreSound` shows that no client escapes the cleanup's
   sight in another way, and `ExpiredRoomsCloseUnlessEvicted` that those in its sight are closed.
3. **`LegacyFlowPreserved`** of Rendezvous (`internal/app/direct_signal.go:148`). The service gives a
   punch time only when both programs are bidirectional, and a program refuses every answer that names
   a bidirectional peer without a punch time. A program that cannot be bidirectional (its listener
   failed, or the platform cannot dial from a listening port) therefore refuses a peer that is, and
   falls back while the peer stays on the direct route until its timeout. `README.md:395`: "If
   either peer or the server lacks the new capability, kigo preserves the legacy
   receiver-dials-sender flow".
4. **`Converged`** of NoteSync (`internal/note/persistent_session.go`, `internal/app/local_web_note.go`).
   After a client left or lost its connection, another can stay with a document that the service
   does not hold: nobody is left to answer it. `docs/note.md:85` says that clients reconcile
   deterministically, "a compact last-writer convergence model". `ConvergedTogether` and
   `QuietIsSettled` are what is left.
5. **`RelayUntouched`** of NativeDial (`internal/app/lan_relay.go`). The LAN upgrade can succeed on one side
   while the other has given up and returned to the relay, where it finds an upgrade message in the
   pipe or a partner that has closed it. `README.md:673`: "Failure leaves the original relay
   untouched". `NothingLeftOpen` shows that the peer meets a closed connection and does not wait.

Also seen:

- Under the policy `rename`, a connection lost after `Finalize` and before `complete` makes the
  reconnect receive the file again under the next number: only the original name is compared
  (`internal/transfer/receive_store.go:170`). `Transfer_versions` includes these behaviours.
- With the policy `skip`, an item named like another item with the suffix `.kigopart` meets that item's
  part file (`internal/transfer/receive_store.go:157`); names are not modelled.
- A source that became shorter ends its stream early; the receiver keeps the done message pending and
  both sides wait until the connection is lost (`internal/transfer/transfer.go:622`). `SendPath` includes
  such sources up to `Close`, `Transfer` does not.
- A publish of the terminal program that ends with an error (no connection, "notepad session changed", or
  a send that failed after the store took the text, `internal/app/local_web_note.go:549`, `:559`) leaves
  `noteDirty` set and starts no other (`internal/app/tui_note.go:329`). Until the user types or presses
  Ctrl+S or Ctrl+L, the editor takes no text of the peer, also after the session has connected again. The
  error is shown, and no document or test says that the program tries again by itself. `Consoles` has
  these errors; `EditorSettles` says that nothing else leaves the editor dirty or behind.
- The receiver of the one-way direct flow closes its listener without checking that it has one
  (`internal/app/app.go:858`); `Rendezvous` has this as the program state `crashed`.

## 7. Not modelled

- Cryptography (`internal/secure`, credentials, sealing of notes): the models take an
  authenticated, ordered channel that may break.
- File names, metadata, symlink targets, text items, compression and `.gitignore` in a transfer;
  a part file is found by its item, directories are items without content. Peers of older
  versions are represented only by their lack of `chunk-striping`.
- In `Relay`: room passwords, relay credentials, the public address probe, the LAN relay.
- In `NoteHub` and `SignalRoom`: other keys and tokens (the maps keep them apart), the wire
  format, rate limits and HTTP.
- In `Rendezvous`: what happens on a route, a direct attempt succeeding for both programs or
  failing; dialling again after a transfer broke; NAT classes, UDP punching and the lists of
  addresses (a program has candidates when it listens); relay credentials and feature lists.
- In `ParallelSender`: the floating-point scores; the workers are tried in any order.
- In `NativeDial`: UDP punching, NAT classes and the probing behind them (`netprobe`), which are packet
  formats and system calls; lists of addresses are sets; relay passwords; the bytes of a hello.
- In `NoteSync`: `HandleUpdate` is one step. `handleFrame` keeps `sendMu` through it, but a leave and a
  restart can come between its save of the draft and its change of the screen; the screen asks for the
  session again, and no edit can be published meanwhile. Also the peer-to-peer session of `note/session.go` and `workspace_sync.go`, which no command
  opens; encryption and wire formats; other notepads.
- In `LocalFiles`: file formats and encryption; of the route history, path weights and reports.
- In `Consoles`: a failed send closes the session, which the run notices whenever it does
  (`PadReconnects`), so that another publish may come before; the saving of drafts is in `NoteSync`. Also
  task output, form fields, browsing of directories and the views; updates of a notepad
  by concurrent HTTP requests are the publishes of `NoteSync`.
- In `TurnQuota`: statistics; the TURN library is external.
- WebRTC (`internal/transport`): its order of closing and buffering is that of a third-party
  stack and cannot be translated from this repository. The browser client (`web/*.js`) is represented
  by its negotiation in `Rendezvous` and by its connections in `SignalRoom` and `NoteHub`.
- Terminal layout and command line, static assets, HTTP routing and rate limits, path collection,
  compression, NAT and STUN packet formats: input, output, layout.

## 8. Plan

Done: NoteHub, SignalRoom, Transfer, Relay, Rendezvous, SendPath (with Scheduler, ParallelSender and
ByteRanges), NativeDial (with RelayRace and DirectRace), NoteSync, LocalFiles, Consoles, TurnQuota, and the
proofs of section 5.

Left to model when a question calls for it: the browser's signaling and note clients (`web/*.js`)
against SignalRoom and NoteHub.
