------------------------------- MODULE NoteSync -------------------------------
(***************************************************************************)
(* The native clients of one persistent notepad: the store behind the local *)
(* web console and the terminal editor (internal/app/local_web_note.go),    *)
(* the interactive command (internal/app/note.go, internal/note/            *)
(* interactive.go), the session both use (internal/note/                    *)
(* persistent_session.go) and the documents it keeps                        *)
(* (internal/note/document.go).  The service is the one of NoteHub, reduced *)
(* to what its clients see: a record with a generation, puts that are       *)
(* accepted, answered with the newer state or refused, and a first state    *)
(* that is written after later broadcasts may have been.                    *)
(*                                                                          *)
(* A start of a store is a run: a goroutine with a workspace of its own     *)
(* that connects, synchronizes, receives and reconnects.  A run whose store *)
(* was left goes on until it notices, next to the run of the next start.    *)
(***************************************************************************)
EXTENDS Naturals, Sequences, FiniteSets

CONSTANTS
    Stores,        \* the clients
    Interactive,   \* those that are the interactive command
    Returning,     \* bound: those that may leave and start once more
    Attempts,      \* reconnectAttempts
    Edits,         \* bound: edits of all clients
    Clock,         \* readings of the clients' clocks when a user edits
    Texts,         \* texts, in order; the empty text is 0
    Depth,         \* capacity of PersistentSession.events
    Faults         \* bound: lost connections, puts the service cannot store, leaves

ASSUME NoteSyncConstants ==
    /\ Texts \subseteq Nat /\ Clock \subseteq Nat
    /\ {Attempts, Edits, Depth, Faults} \subseteq Nat

Starts(s) == IF s \in Returning THEN 2 ELSE 1
Runs == {r \in Stores \X {1, 2} : r[2] <= Starts(r[1])}
Store(r) == r[1]

NoDoc == [rev |-> 0, ts |-> 0, text |-> 0]

VARIABLES
    generation, record,   \* the hub's generation and record; NoDoc: no record
    stray,                \* puts on their way when their connection was lost
    conn,                 \* per run: its connection, seen from both ends
    session,              \* per run: its PersistentSession
    run,                  \* per run: where its goroutine is, and in which attempt
    workspace,            \* per run: the document of its Workspace
    store,                \* per store: localWebNoteStore, the fields under mu
    pub,                  \* per store: the publish that holds sendMu
    draft,                \* per store: the draft on disk
    kept,                 \* history: the last document a user was told was published
    overtaken,            \* history: stores whose draft a run that was left has saved
    edits, faults

service == <<generation, record, stray>>
bounds == <<edits, faults>>
history == <<kept, overtaken>>
clients == <<session, run, workspace, store, pub, draft>>
vars == <<service, conn, clients, history, bounds>>

(***************************************************************************)
(* Documents.                                                               *)
(***************************************************************************)

\* Mutant: documents of one revision are not told apart.
LaterByRevision(a, b) == a.rev > b.rev

\* compareDocuments: revision, then timestamp, then text.
Later(a, b) ==
    \/ a.rev > b.rev
    \/ a.rev = b.rev /\ a.ts > b.ts
    \/ a.rev = b.rev /\ a.ts = b.ts /\ a.text > b.text

\* Workspace.ApplyRemote.
Applied(current, document) == IF Later(document, current) THEN document ELSE current

\* Workspace.Update; Clear is an update with the empty text.
Updated(current, text, now) ==
    [rev |-> current.rev + 1,
     ts |-> IF now <= current.ts THEN current.ts + 1 ELSE now,
     text |-> text]

(***************************************************************************)
(* Initial state.                                                           *)
(***************************************************************************)

NoConn == [phase |-> "none", up |-> << >>, down |-> << >>, greeting |-> [gen |-> 0, doc |-> NoDoc]]

NoReader == [stage |-> "idle", doc |-> NoDoc]

NoSession == [gen |-> 0, initial |-> NoDoc, events |-> << >>, reader |-> NoReader]

\* newLocalWebNoteStoreWithConnector.
NewStore ==
    [id |-> 0, running |-> FALSE, connected |-> FALSE, synced |-> FALSE,
     shown |-> NoDoc, pending |-> 0, session |-> 0]

NoPub == [stage |-> "idle", id |-> 0, session |-> 0, doc |-> NoDoc]

\* The clients that stay are connected, to a notepad without a record; the
\* others have not been started.
Init ==
    /\ generation = 0 /\ record = NoDoc /\ stray = {}
    /\ conn = [r \in Runs |-> IF Store(r) \in Returning THEN NoConn
                              ELSE [NoConn EXCEPT !.phase = "greeted"]]
    /\ session = [r \in Runs |-> NoSession]
    /\ run = [r \in Runs |-> IF Store(r) \in Returning THEN [stage |-> "idle", attempt |-> 0]
                             ELSE [stage |-> "receive", attempt |-> 1]]
    /\ workspace = [r \in Runs |-> NoDoc]
    /\ store = [s \in Stores |-> IF s \in Returning THEN NewStore
                                 ELSE [NewStore EXCEPT !.id = 1, !.running = TRUE, !.session = 1,
                                                       !.connected = TRUE, !.synced = TRUE]]
    /\ pub = [s \in Stores |-> NoPub]
    /\ draft = [s \in Stores |-> NoDoc]
    /\ kept = [s \in Stores |-> NoDoc] /\ overtaken = {}
    /\ edits = 0 /\ faults = 0

(***************************************************************************)
(* The service, as its clients see it.                                      *)
(***************************************************************************)

State == [kind |-> "state", gen |-> generation, doc |-> record]

\* A connection is registered with the state that will be written to it.
Joins(r) ==
    conn' = [conn EXCEPT ![r] = [NoConn EXCEPT !.phase = "joined",
                                               !.greeting = [gen |-> generation, doc |-> record]]]

\* The state is written after the hub's lock is released: broadcasts may
\* already have been.
Greet(r) ==
    /\ conn[r].phase = "joined"
    /\ conn' = [conn EXCEPT ![r].phase = "greeted",
                            ![r].down = Append(@, [kind |-> "state", gen |-> conn[r].greeting.gen,
                                                   doc |-> conn[r].greeting.doc])]
    /\ UNCHANGED <<service, clients, history, bounds>>

\* The connections after a put was accepted: all that are registered are told.
Broadcast(connections, doc) ==
    [r \in Runs |-> IF connections[r].phase \in {"joined", "greeted"}
                    THEN [connections[r] EXCEPT !.down = Append(@, [kind |-> "state",
                                                       gen |-> generation + 1, doc |-> doc])]
                    ELSE connections[r]]

Accept(connections, doc) ==
    /\ generation' = generation + 1 /\ record' = doc
    /\ conn' = Broadcast(connections, doc)

\* applyPersistentNote: a put on the current generation is accepted, another
\* one answered with the current state.
Put(r) ==
    /\ conn[r].phase = "greeted" /\ conn[r].up # << >>
    /\ LET put == Head(conn[r].up)
           popped == [conn EXCEPT ![r].up = Tail(@)]
       IN IF put.base = generation THEN Accept(popped, put.doc)
          ELSE /\ conn' = [popped EXCEPT ![r].down = Append(@, State)]
               /\ UNCHANGED <<generation, record>>
    /\ UNCHANGED <<stray, clients, history, bounds>>

\* The record cannot be written: an error is the answer.
RefusePut(r) ==
    /\ conn[r].phase = "greeted" /\ conn[r].up # << >> /\ faults < Faults
    /\ Head(conn[r].up).base = generation
    /\ conn' = [conn EXCEPT ![r].up = Tail(@),
                            ![r].down = Append(@, [kind |-> "error", gen |-> 0, doc |-> NoDoc])]
    /\ faults' = faults + 1
    /\ UNCHANGED <<service, clients, history, edits>>

\* A put of a connection that its client has given up still arrives, or not.
StrayPut ==
    /\ \E put \in stray :
         /\ stray' = stray \ {put}
         /\ \/ put.base = generation /\ Accept(conn, put.doc)
            \/ UNCHANGED <<generation, record, conn>>
    /\ UNCHANGED <<clients, history, bounds>>

(***************************************************************************)
(* A run: connect, synchronize, receive, reconnect.                         *)
(***************************************************************************)

\* state.ID = id && state.Running: what every step of a run asks first.
Current(r) == store[Store(r)].id = r[2] /\ store[Store(r)].running

\* activeWorkspace: and the session is the one of this attempt.
Active(r) == Current(r) /\ store[Store(r)].session = run[r].attempt

Broken(r) == conn[r].phase \in {"broken", "closed"}

\* The connection of r is given up; what it has sent may still arrive.
Closed(r) ==
    /\ conn' = [conn EXCEPT ![r] = [NoConn EXCEPT !.phase = "closed"]]
    /\ stray' = stray \cup {conn[r].up[i] : i \in 1..Len(conn[r].up)}

\* The fields that Leave, finishCanceled and fail reset.
Ended(st) == [st EXCEPT !.running = FALSE, !.connected = FALSE, !.synced = FALSE,
                        !.session = 0, !.pending = 0]

\* Mutant: a start begins with an empty workspace.
StartWithoutDraft(s) ==
    /\ ~store[s].running /\ store[s].id < Starts(s)
    /\ LET id == store[s].id + 1 IN
         /\ store' = [store EXCEPT ![s] = [NewStore EXCEPT !.id = id, !.running = TRUE]]
         /\ run' = [run EXCEPT ![<<s, id>>] = [stage |-> "connect", attempt |-> 1]]
    /\ UNCHANGED <<service, conn, session, workspace, pub, draft, history, bounds>>

\* start: a fresh workspace with the draft applied; runNoteCommand likewise.
Start(s) ==
    /\ ~store[s].running /\ store[s].id < Starts(s)
    /\ LET id == store[s].id + 1 IN
         /\ workspace' = [workspace EXCEPT ![<<s, id>>] = draft[s]]
         /\ store' = [store EXCEPT ![s] = [NewStore EXCEPT !.id = id, !.running = TRUE,
                                                           !.shown = draft[s]]]
         /\ run' = [run EXCEPT ![<<s, id>>] = [stage |-> "connect", attempt |-> 1]]
    /\ UNCHANGED <<service, conn, session, pub, draft, history, bounds>>

\* OpenPersistentSession dials: the service registers the connection.
Dial(r) ==
    /\ run[r].stage = "connect" /\ Current(r)
    /\ Joins(r)
    /\ run' = [run EXCEPT ![r].stage = "open"]
    /\ UNCHANGED <<service, session, workspace, store, pub, draft, history, bounds>>

\* It takes the first message that arrives as the initial state.
Open(r) ==
    /\ run[r].stage = "open" /\ Current(r) /\ conn[r].down # << >>
    /\ session' = [session EXCEPT ![r] =
                      [NoSession EXCEPT !.gen = Head(conn[r].down).gen,
                                        !.initial = Head(conn[r].down).doc]]
    /\ conn' = [conn EXCEPT ![r].down = Tail(@)]
    /\ run' = [run EXCEPT ![r].stage = "sync"]
    /\ UNCHANGED <<service, workspace, store, pub, draft, history, bounds>>

PutOf(r, doc) == [base |-> session[r].gen, doc |-> doc]

\* The console saves what it connects with, the command what it recovered.
Saves(r, current) ==
    IF Store(r) \in Interactive THEN current # workspace[r] ELSE Current(r) /\ current.rev > 0

\* SyncWorkspace: apply the initial state, publish what is later, start reading.
Sync(r) ==
    /\ run[r].stage = "sync" /\ ~Broken(r)
    /\ LET initial == session[r].initial
           current == Applied(workspace[r], initial)
       IN /\ workspace' = [workspace EXCEPT ![r] = current]
          /\ conn' = IF Later(current, initial)
                     THEN [conn EXCEPT ![r].up = Append(@, PutOf(r, current))]
                     ELSE conn
          /\ session' = [session EXCEPT ![r].initial = NoDoc]
          /\ run' = [run EXCEPT ![r].stage = IF Saves(r, current) THEN "saving" ELSE "synced"]
    /\ UNCHANGED <<service, store, pub, draft, history, bounds>>

\* persistDraft, whose file is written after the check and without a lock.
SaveSynced(r) ==
    /\ run[r].stage = "saving"
    /\ draft' = [draft EXCEPT ![Store(r)] = workspace[r]]
    /\ overtaken' = IF Current(r) THEN overtaken ELSE overtaken \cup {Store(r)}
    /\ run' = [run EXCEPT ![r].stage = "synced"]
    /\ UNCHANGED <<service, conn, session, workspace, store, pub, kept, bounds>>

\* setConnected; a run that was left closes its session.
Connected(r) ==
    /\ run[r].stage = "synced"
    /\ IF Current(r)
       THEN /\ store' = [store EXCEPT ![Store(r)] =
                            [@ EXCEPT !.connected = TRUE, !.synced = TRUE, !.pending = 0,
                                      !.shown = workspace[r], !.session = run[r].attempt]]
            /\ run' = [run EXCEPT ![r].stage = "receive"]
            /\ UNCHANGED <<stray, conn>>
       ELSE /\ run' = [run EXCEPT ![r].stage = "done"]
            /\ Closed(r)
            /\ UNCHANGED store
    /\ UNCHANGED <<generation, record, session, workspace, pub, draft, history, bounds>>

(***************************************************************************)
(* readLoop of the session.                                                 *)
(***************************************************************************)

Reading(r) == run[r].stage \in {"saving", "synced", "receive"}

\* A state older than the session's generation is skipped.
Read(r) ==
    /\ Reading(r) /\ session[r].reader.stage = "idle" /\ conn[r].down # << >>
    /\ Head(conn[r].down).kind = "state"
    /\ conn' = [conn EXCEPT ![r].down = Tail(@)]
    /\ session' = IF Head(conn[r].down).gen < session[r].gen THEN session
                  ELSE [session EXCEPT ![r].gen = Head(conn[r].down).gen,
                                       ![r].reader = [stage |-> "compare", doc |-> Head(conn[r].down).doc]]
    /\ UNCHANGED <<service, run, workspace, store, pub, draft, history, bounds>>

Emitted(r, event) ==
    /\ Len(session[r].events) < Depth
    /\ session' = [session EXCEPT ![r].events = Append(@, event), ![r].reader = NoReader]

ReadError(r) ==
    /\ Reading(r) /\ session[r].reader.stage = "idle" /\ conn[r].down # << >>
    /\ Head(conn[r].down).kind = "error"
    /\ conn' = [conn EXCEPT ![r].down = Tail(@)]
    /\ Emitted(r, [kind |-> "error", doc |-> NoDoc])
    /\ UNCHANGED <<service, run, workspace, store, pub, draft, history, bounds>>

\* The document is compared with a snapshot of the workspace: a later one is
\* handed to the client, an earlier one answered, an equal one acknowledged.
Compare(r) ==
    /\ session[r].reader.stage = "compare"
    /\ LET doc == session[r].reader.doc
           current == workspace[r]
       IN \/ /\ doc.rev > 0 /\ Later(doc, current)
             /\ Emitted(r, [kind |-> "update", doc |-> doc])
          \/ /\ doc.rev > 0 /\ ~Later(doc, current) /\ ~Later(current, doc)
             /\ Emitted(r, [kind |-> "ack", doc |-> doc])
          \/ /\ Later(current, doc)
             /\ session' = [session EXCEPT ![r].reader = [stage |-> "publish", doc |-> current]]
          \/ /\ doc.rev = 0 /\ current.rev = 0
             /\ session' = [session EXCEPT ![r].reader = NoReader]
    /\ UNCHANGED <<service, conn, run, workspace, store, pub, draft, history, bounds>>

\* publishDocument reads the generation when the write begins.  A write on a
\* lost connection fails and is reported like the loss itself.
Republish(r) ==
    /\ session[r].reader.stage = "publish"
    /\ session' = [session EXCEPT ![r].reader = NoReader]
    /\ conn' = IF Broken(r) THEN conn
               ELSE [conn EXCEPT ![r].up = Append(@, PutOf(r, session[r].reader.doc))]
    /\ UNCHANGED <<service, run, workspace, store, pub, draft, history, bounds>>

(***************************************************************************)
(* receiveSession and the reconnect loop.                                   *)
(***************************************************************************)

\* Publishing holds sendMu; the command has one goroutine for both.
SendMuFree(s) == pub[s].stage = "idle"

Handles(r, kind) ==
    /\ run[r].stage = "receive" /\ conn[r].phase # "closed"
    /\ session[r].events # << >> /\ Head(session[r].events).kind = kind

\* Mutant: the screen keeps the text it has when a remote document is applied.
ShownRemoteStale(r, doc) ==
    [store[Store(r)] EXCEPT !.pending = 0, !.synced = TRUE]

\* A document applied for the user clears what was waiting for an answer.
ShownRemote(r, doc) ==
    IF Later(doc, workspace[r])
    THEN [store[Store(r)] EXCEPT !.shown = doc, !.pending = 0, !.synced = TRUE]
    ELSE [store[Store(r)] EXCEPT !.shown = workspace[r]]

\* handleFrame, update or clear.
HandleUpdate(r) ==
    /\ Handles(r, "update") /\ SendMuFree(Store(r)) /\ Active(r)
    /\ LET doc == Head(session[r].events).doc IN
         /\ workspace' = [workspace EXCEPT ![r] = Applied(@, doc)]
         /\ draft' = IF Later(doc, workspace[r]) THEN [draft EXCEPT ![Store(r)] = doc] ELSE draft
         /\ store' = [store EXCEPT ![Store(r)] = ShownRemote(r, doc)]
    /\ session' = [session EXCEPT ![r].events = Tail(@)]
    /\ UNCHANGED <<service, conn, run, pub, history, bounds>>

\* handleFrame, ack.
HandleAck(r) ==
    /\ Handles(r, "ack") /\ Current(r)
    /\ store' = IF store[Store(r)].pending # 0 /\ Head(session[r].events).doc.rev >= store[Store(r)].pending
                THEN [store EXCEPT ![Store(r)].pending = 0, ![Store(r)].synced = TRUE]
                ELSE store
    /\ session' = [session EXCEPT ![r].events = Tail(@)]
    /\ UNCHANGED <<service, conn, run, workspace, pub, draft, history, bounds>>

\* An error the service sent is not worth a retry: fail.
HandleError(r) ==
    /\ Handles(r, "error") /\ Current(r)
    /\ store' = [store EXCEPT ![Store(r)] = Ended(@)]
    /\ run' = [run EXCEPT ![r].stage = "done"]
    /\ Closed(r)
    /\ UNCHANGED <<generation, record, session, workspace, pub, draft, history, bounds>>

\* The connection is gone, or cannot be opened: setReconnecting and the next
\* attempt, or fail.  What the session still holds is forgotten with it.
Retry(r) ==
    /\ IF run[r].attempt < Attempts
       THEN /\ run' = [run EXCEPT ![r] = [stage |-> "connect", attempt |-> @.attempt + 1]]
            /\ store' = [store EXCEPT ![Store(r)] =
                            [@ EXCEPT !.connected = FALSE, !.synced = FALSE, !.session = 0]]
       ELSE /\ run' = [run EXCEPT ![r].stage = "done"]
            /\ store' = [store EXCEPT ![Store(r)] = Ended(@)]
    /\ session' = [session EXCEPT ![r] = NoSession]
    /\ Closed(r)

Lost(r) ==
    /\ run[r].stage \in {"open", "sync", "receive"} /\ Current(r) /\ Broken(r)
    /\ run[r].stage = "receive" /\ conn[r].phase = "broken"
         => session[r].events = << >> /\ session[r].reader.stage = "idle"
    /\ Retry(r)
    /\ UNCHANGED <<generation, record, workspace, pub, draft, history, bounds>>

\* A run whose store was left notices when it waits or handles a frame.
RunEnds(r) ==
    /\ run[r].stage \in {"connect", "open", "receive"} /\ ~Current(r)
    /\ run' = [run EXCEPT ![r].stage = "done"]
    /\ session' = [session EXCEPT ![r] = NoSession]
    /\ Closed(r)
    /\ UNCHANGED <<generation, record, workspace, store, pub, draft, history, bounds>>

(***************************************************************************)
(* The user.                                                                *)
(***************************************************************************)

\* publish, up to the update of the workspace.
Edit(s, text, now) ==
    /\ s \notin Interactive /\ SendMuFree(s) /\ edits < Edits
    /\ store[s].running /\ store[s].connected /\ store[s].session # 0
    /\ LET r == <<s, store[s].id>>
           doc == Updated(workspace[r], text, now)
       IN /\ workspace' = [workspace EXCEPT ![r] = doc]
          /\ pub' = [pub EXCEPT ![s] = [stage |-> "draft", id |-> store[s].id,
                                        session |-> store[s].session, doc |-> doc]]
    /\ edits' = edits + 1
    /\ UNCHANGED <<service, conn, session, run, store, draft, history, faults>>

\* persistDraft asks whether the session still runs, and writes the file after
\* it has released the lock.
CheckDraft(s) ==
    /\ pub[s].stage = "draft"
    /\ pub' = [pub EXCEPT ![s].stage = IF store[s].id = pub[s].id /\ store[s].running
                                       THEN "save" ELSE "send"]
    /\ UNCHANGED <<service, conn, session, run, workspace, store, draft, history, bounds>>

SaveDraft(s) ==
    /\ pub[s].stage = "save"
    /\ draft' = [draft EXCEPT ![s] = pub[s].doc]
    /\ pub' = [pub EXCEPT ![s].stage = "send"]
    /\ UNCHANGED <<service, conn, session, run, workspace, store, history, bounds>>

\* Mutant: the session is not asked again after the draft was written.
PublishUnchecked(s) ==
    /\ pub[s].stage = "send"
    /\ pub' = [pub EXCEPT ![s] = NoPub]
    /\ LET r == <<s, pub[s].id>> IN
         /\ store' = [store EXCEPT ![s] = [@ EXCEPT !.shown = pub[s].doc, !.synced = FALSE,
                                                     !.pending = pub[s].doc.rev]]
         /\ kept' = [kept EXCEPT ![s] = pub[s].doc]
         /\ conn' = IF Broken(r) THEN [conn EXCEPT ![r].phase = "closed"]
                    ELSE [conn EXCEPT ![r].up = Append(@, PutOf(r, pub[s].doc))]
    /\ UNCHANGED <<service, session, run, workspace, draft, overtaken, bounds>>

\* The rest of publish: unless the session changed, show and send the document.
Publish(s) ==
    /\ pub[s].stage = "send"
    /\ pub' = [pub EXCEPT ![s] = NoPub]
    /\ LET r == <<s, pub[s].id>> IN
         IF Current(r) /\ store[s].session = pub[s].session
         THEN /\ store' = [store EXCEPT ![s] = [@ EXCEPT !.shown = pub[s].doc, !.synced = FALSE,
                                                          !.pending = pub[s].doc.rev]]
              /\ kept' = IF Broken(r) THEN kept ELSE [kept EXCEPT ![s] = pub[s].doc]
              /\ conn' = IF Broken(r) THEN [conn EXCEPT ![r].phase = "closed"]
                         ELSE [conn EXCEPT ![r].up = Append(@, PutOf(r, pub[s].doc))]
         ELSE UNCHANGED <<store, kept, conn>>
    /\ UNCHANGED <<service, session, run, workspace, draft, overtaken, bounds>>

\* RunInteractive, a line or /clear: one goroutine updates, saves and sends.
InteractiveEdit(s, text, now) ==
    /\ s \in Interactive /\ edits < Edits
    /\ LET r == <<s, store[s].id>> IN
         /\ store[s].running /\ run[r].stage = "receive" /\ conn[r].phase # "closed"
         /\ LET doc == Updated(workspace[r], text, now) IN
              /\ workspace' = [workspace EXCEPT ![r] = doc]
              /\ draft' = [draft EXCEPT ![s] = doc]
              /\ store' = [store EXCEPT ![s] = [@ EXCEPT !.shown = doc, !.pending = doc.rev]]
              /\ kept' = IF Broken(r) THEN kept ELSE [kept EXCEPT ![s] = doc]
              /\ conn' = IF Broken(r) THEN [conn EXCEPT ![r].phase = "closed"]
                         ELSE [conn EXCEPT ![r].up = Append(@, PutOf(r, doc))]
    /\ edits' = edits + 1
    /\ UNCHANGED <<service, session, run, pub, overtaken, faults>>

\* Leave: the session is closed; its run finds out by itself.  The command
\* ends with /quit.
Leave(s) ==
    /\ store[s].running /\ store[s].id < Starts(s) /\ faults < Faults
    /\ LET r == <<s, store[s].id>> IN
         /\ s \in Interactive => run[r].stage = "receive"
         /\ IF store[s].session # 0 THEN Closed(r) ELSE UNCHANGED <<conn, stray>>
    /\ store' = [store EXCEPT ![s] = Ended(@)]
    /\ faults' = faults + 1
    /\ UNCHANGED <<generation, record, session, run, workspace, pub, draft, history, edits>>

\* The network loses a connection: what the service sent is gone, what the
\* client sent may still arrive.
Break(r) ==
    /\ conn[r].phase \in {"joined", "greeted"} /\ faults < Faults
    /\ conn' = [conn EXCEPT ![r] = [NoConn EXCEPT !.phase = "broken"]]
    /\ stray' = stray \cup {conn[r].up[i] : i \in 1..Len(conn[r].up)}
    /\ faults' = faults + 1
    /\ UNCHANGED <<generation, record, clients, history, edits>>

Service(r) == Greet(r) \/ Put(r)
Reader(r) == Read(r) \/ ReadError(r) \/ Compare(r) \/ Republish(r)
Goroutine(r) ==
    \/ Dial(r) \/ Open(r) \/ Sync(r) \/ SaveSynced(r) \/ Connected(r)
    \/ HandleUpdate(r) \/ HandleAck(r) \/ HandleError(r) \/ Lost(r) \/ RunEnds(r)
Publishing(s) == CheckDraft(s) \/ SaveDraft(s) \/ Publish(s)
User(s) ==
    \/ Start(s) \/ Leave(s)
    \/ \E text \in Texts, now \in Clock : Edit(s, text, now) \/ InteractiveEdit(s, text, now)

Next ==
    \/ \E r \in Runs : Service(r) \/ RefusePut(r) \/ Reader(r) \/ Goroutine(r) \/ Break(r)
    \/ \E s \in Stores : Publishing(s) \/ User(s)
    \/ StrayPut

Spec == Init /\ [][Next]_vars

(***************************************************************************)
(* Properties.                                                              *)
(***************************************************************************)

\* No message, frame or publish is under way.
Quiet ==
    /\ stray = {}
    /\ \A s \in Stores : pub[s].stage = "idle"
    /\ \A r \in Runs : /\ run[r].stage \in {"idle", "receive", "done"}
                       /\ conn[r].up = << >> /\ conn[r].down = << >>
                       /\ ~(Broken(r) /\ run[r].stage = "receive")
                       /\ session[r].events = << >> /\ session[r].reader.stage = "idle"

\* When everything is handled, every connected client holds the document the
\* service holds and shows it (persistent_session.go readLoop,
\* local_web_note.go handleFrame).  This is what docs/note.md calls the
\* convergence model.  It does not hold when a client leaves or loses its
\* connection; the next property is what is left of it.
Converged ==
    Quiet => \A r \in Runs : run[r].stage = "receive" /\ Current(r)
                                => workspace[r] = record /\ store[Store(r)].shown = record

\* It is so as long as no client leaves or loses its connection: whatever the
\* order of edits, broadcasts and frames, and with a first state that comes
\* after a broadcast, somebody is left to answer a document that lost.
ConvergedTogether ==
    faults = 0 => Converged

\* And in every case no connected client is left with an older document than
\* the service's, and what the user sees is the workspace.
NeverBehind ==
    Quiet => \A r \in Runs : run[r].stage = "receive" /\ Current(r)
                                => /\ ~Later(record, workspace[r])
                                   /\ store[Store(r)].shown = workspace[r]

\* The text a store shows is never one its own workspace has not reached: an
\* update of a session that was left never appears in the next one
\* (local_web_note.go: the checks of ID, Running and session).
ShownIsOwn ==
    \A s \in Stores : store[s].running => ~Later(store[s].shown, workspace[<<s, store[s].id>>])

\* A published edit survives in the draft, across leaving, starting again and
\* every lost connection (persistDraft, start) - except when a run that was
\* left writes the draft it had decided to save before.
DraftKeepsEdits ==
    \A s \in Stores : s \notin overtaken => ~Later(kept[s], draft[s])

\* A published edit does not stay unanswered: once everything is handled, a
\* connected client waits for nothing (readLoop answers an earlier document and
\* acknowledges an equal one, handleFrame).  That a quiet state is reached at
\* all shows in the finite graph: every accepted put is a new generation.
EditsSettle ==
    Quiet => \A r \in Runs : run[r].stage = "receive" /\ Current(r)
                                => store[Store(r)].pending = 0 /\ store[Store(r)].synced

\* Once everything is handled every connected client is settled: not behind the
\* service, showing its workspace, and waiting for no acknowledgement.
QuietIsSettled == NeverBehind /\ EditsSettle

=============================================================================
