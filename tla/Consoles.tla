------------------------------ MODULE Consoles ------------------------------
(***************************************************************************)
(* The two consoles of the native client: the loopback web server           *)
(* (internal/app/local_web.go) and the terminal program (tui.go,            *)
(* tui_note.go), each over one native task store (native_task.go) and one   *)
(* notepad store (local_web_note.go, whose runs are the subject of          *)
(* NoteSync).                                                               *)
(*                                                                          *)
(* HTTP requests run concurrently and share activityMu.  The terminal       *)
(* program is one event loop: timers, polls and publishes are commands that *)
(* run on their own and answer with a message.  Messages arrive in the      *)
(* order of the answers, but nothing enforces it.                           *)
(***************************************************************************)
EXTENDS Integers, Sequences, FiniteSets

CONSTANTS
    Requests,      \* HTTP requests that may be in flight together
    Texts,         \* texts of a notepad, 0 the empty one
    MaxWebTasks,   \* bound: tasks started by the web console
    MaxTuiTasks,   \* bound: tasks started by the terminal program
    MaxSessions,   \* bound: notepad sessions started
    MaxEdits,      \* bound: changes of a text, by the user or a peer
    MaxTaskPolls,  \* bound: polls of the task in flight, with their answers
    MaxNotePolls,  \* bound: polls of the notepad in flight, with their answers
    Overtakings    \* bound: answers that arrive before an earlier one

ASSUME ConsolesConstants ==
    /\ 0 \in Texts
    /\ {MaxWebTasks, MaxTuiTasks, MaxSessions, MaxEdits, MaxTaskPolls, MaxNotePolls,
        Overtakings} \subseteq Nat

VARIABLES
    front,      \* "web" or "tui"
    job,        \* nativeTaskStore: id and running of its state
    ctx,        \* the tasks whose context is cancelled
    pad,        \* localWebNoteStore: id, running, connected and text of its state
    store,      \* the rest of it: the text of the workspace, the publish that holds
                \* sendMu, and whether the session it began with is gone
    request,    \* the HTTP requests
    activity,   \* who holds activityMu
    ui,         \* tuiModel
    polls,      \* poll commands in flight, per kind
    timers,     \* versions with a debounce timer
    writes,     \* publish commands in flight: version and text
    msgs,       \* answers on their way to the event loop
    edits,
    asked,      \* ghost: tasks that were current when a cancel was asked for
    gaveUp,     \* ghost: the publish of the last change was given up or ended with an error
    pending,    \* ghost: version of the last change if no publish of it has succeeded, else 0
    overtaken   \* ghost: answers, publishes and keys that came out of order

jobVars == <<job, ctx, asked>>
padVars == <<pad, store>>
webVars == <<request, activity>>
tuiVars == <<ui, polls, timers, writes, msgs, pending, gaveUp, overtaken>>
vars == <<front, jobVars, padVars, webVars, tuiVars, edits>>

NoTask == [id |-> 0, running |-> FALSE]
NoPad == [id |-> 0, running |-> FALSE, connected |-> FALSE, text |-> 0]
NoRequest == [kind |-> "none", pc |-> "idle", task |-> 0]

Init ==
    /\ front \in {"web", "tui"}
    /\ job = NoTask /\ ctx = {} /\ asked = {}
    /\ pad = NoPad /\ store = [work |-> 0, sendMu |-> {}, changed |-> FALSE]
    /\ request = [q \in Requests |-> NoRequest] /\ activity = {}
    /\ ui = [screen |-> "form", task |-> FALSE, lastID |-> 0,
             note |-> [running |-> FALSE, connected |-> FALSE],
             dirty |-> FALSE, version |-> 0, editor |-> 0]
    /\ polls = [task |-> 0, note |-> 0] /\ timers = {} /\ writes = {} /\ msgs = << >>
    /\ pending = 0 /\ gaveUp = FALSE /\ overtaken = 0
    /\ edits = 0

-----------------------------------------------------------------------------
(* nativeTaskStore.                                                          *)

CanStart ==
    ~job.running /\ job.id < (IF front = "web" THEN MaxWebTasks ELSE MaxTuiTasks)
Started == job' = [id |-> job.id + 1, running |-> TRUE]

\* The runner returns and finish records it.
Finish ==
    /\ job.running
    /\ job' = [job EXCEPT !.running = FALSE]
    /\ UNCHANGED <<front, ctx, asked, padVars, webVars, tuiVars, edits>>

\* The cancel function is read under the lock and called after it.
ReadCancel == IF job.running THEN job.id ELSE 0

Cancelled(task) == ctx' = ctx \cup ({task} \ {0})

-----------------------------------------------------------------------------
(* localWebNoteStore, as the consoles see it.                                *)

PadStarts == ~pad.running /\ pad.id < MaxSessions
PadStarted == \E draft \in {0, pad.text, store.work} :
    /\ pad' = [NoPad EXCEPT !.id = pad.id + 1, !.running = TRUE, !.text = draft]
    /\ store' = [store EXCEPT !.work = draft]

\* The session is gone; a publish under way will notice.
SessionGone == store' = [store EXCEPT !.changed = (store.sendMu # {})]
PadLeft == pad' = [pad EXCEPT !.running = FALSE, !.connected = FALSE] /\ SessionGone

\* The run connects and shows what the workspace has, loses its connection, takes
\* a text of the service or of a peer, or fails.
PadConnects ==
    /\ pad.running /\ ~pad.connected
    /\ pad' = [pad EXCEPT !.connected = TRUE, !.text = store.work]
    /\ UNCHANGED <<front, jobVars, store, webVars, tuiVars, edits>>

PadReconnects ==
    /\ pad.connected
    /\ pad' = [pad EXCEPT !.connected = FALSE] /\ SessionGone
    /\ UNCHANGED <<front, jobVars, webVars, tuiVars, edits>>

PadRemote(text) ==
    /\ pad.connected /\ store.sendMu = {}
    /\ edits < MaxEdits /\ text # pad.text
    /\ pad' = [pad EXCEPT !.text = text] /\ store' = [store EXCEPT !.work = text]
    /\ edits' = edits + 1
    /\ UNCHANGED <<front, jobVars, webVars, tuiVars>>

PadFails ==
    /\ pad.running
    /\ PadLeft
    /\ UNCHANGED <<front, jobVars, webVars, tuiVars, edits>>

-----------------------------------------------------------------------------
(* The web console: startJob, handleNoteHost and handleNoteJoin look at the   *)
(* other store and start theirs under activityMu.                            *)

Ask(q, kind) ==
    /\ front = "web" /\ request[q].pc = "idle"
    /\ request' = [request EXCEPT ![q] = [NoRequest EXCEPT !.kind = kind, !.pc = "lock"]]
    /\ UNCHANGED <<front, jobVars, padVars, activity, tuiVars, edits>>

\* Mutant: every kind of request has a lock of its own.
LockPerKind(q) ==
    /\ request[q].pc = "lock" /\ request[q].kind \in {"task", "note"}
    /\ \A o \in activity : request[o].kind # request[q].kind
    /\ activity' = activity \cup {q}
    /\ request' = [request EXCEPT ![q].pc = "look"]
    /\ UNCHANGED <<front, jobVars, padVars, tuiVars, edits>>

Lock(q) ==
    /\ request[q].pc = "lock" /\ request[q].kind \in {"task", "note"}
    /\ activity = {}
    /\ activity' = {q}
    /\ request' = [request EXCEPT ![q].pc = "look"]
    /\ UNCHANGED <<front, jobVars, padVars, tuiVars, edits>>

\* The snapshot of the other store; a conflict is the answer when it runs.
Look(q) ==
    /\ request[q].pc = "look"
    /\ IF IF request[q].kind = "task" THEN pad.running ELSE job.running
       THEN request' = [request EXCEPT ![q] = NoRequest] /\ activity' = activity \ {q}
       ELSE request' = [request EXCEPT ![q].pc = "start"] /\ UNCHANGED activity
    /\ UNCHANGED <<front, jobVars, padVars, tuiVars, edits>>

StartIt(q) ==
    /\ request[q].pc = "start"
    /\ request' = [request EXCEPT ![q] = NoRequest]
    /\ activity' = activity \ {q}
    /\ IF request[q].kind = "task"
       THEN (IF CanStart THEN Started ELSE UNCHANGED job) /\ UNCHANGED padVars
       ELSE (IF PadStarts THEN PadStarted ELSE UNCHANGED padVars) /\ UNCHANGED job
    /\ UNCHANGED <<front, ctx, asked, tuiVars, edits>>

\* handleCancel: the cancel function is read, then called; handleNoteLeave.
HandleCancel(q) ==
    /\ request[q].kind = "cancel"
    /\ \/ /\ request[q].pc = "lock"
          /\ request' = [request EXCEPT ![q].pc = "call", ![q].task = ReadCancel]
          /\ asked' = asked \cup ({ReadCancel} \ {0})
          /\ UNCHANGED ctx
       \/ /\ request[q].pc = "call"
          /\ Cancelled(request[q].task)
          /\ request' = [request EXCEPT ![q] = NoRequest]
          /\ UNCHANGED asked
    /\ UNCHANGED <<front, job, padVars, activity, tuiVars, edits>>

HandleLeave(q) ==
    /\ request[q].pc = "lock" /\ request[q].kind = "leave"
    /\ PadLeft
    /\ request' = [request EXCEPT ![q] = NoRequest]
    /\ UNCHANGED <<front, jobVars, activity, tuiVars, edits>>

-----------------------------------------------------------------------------
(* The event loop of the terminal program: keys.                             *)

\* A key that starts something while an answer is still on its way overtakes it.
KeyOvertakes == /\ overtaken' = IF msgs = << >> /\ writes = {} THEN overtaken ELSE overtaken + 1
                /\ overtaken' <= Overtakings

Polled(kind) == polls' = [polls EXCEPT ![kind] = @ + 1]

\* A key that starts one more chain of polls, within the bound.
CanPoll(kind) ==
    polls[kind] + Cardinality({i \in DOMAIN msgs : msgs[i].kind = kind})
        < (IF kind = "task" THEN MaxTaskPolls ELSE MaxNotePolls)

\* startTask on the form.
StartTask ==
    /\ front = "tui" /\ ui.screen = "form" /\ CanStart /\ CanPoll("task")
    /\ Started /\ KeyOvertakes
    /\ ui' = [ui EXCEPT !.screen = "task", !.task = TRUE]
    /\ Polled("task")
    /\ UNCHANGED <<front, ctx, asked, padVars, webVars, timers, writes, msgs, pending, gaveUp, edits>>

\* updateTask: Esc cancels a task that runs, and leaves the screen otherwise.
EscTask ==
    /\ front = "tui" /\ ui.screen = "task"
    /\ IF ui.task
       THEN /\ Cancelled(ReadCancel) /\ asked' = asked \cup ({ReadCancel} \ {0})
            /\ CanPoll("task") /\ Polled("task")
            /\ UNCHANGED ui
       ELSE /\ ui' = [ui EXCEPT !.screen = "form"]
            /\ UNCHANGED <<ctx, asked, polls>>
    /\ UNCHANGED <<front, job, padVars, webVars, timers, writes, msgs, pending, gaveUp, overtaken, edits>>

\* What the model keeps of a state of the notepad besides its text.
Seen(state) == [running |-> state.running, connected |-> state.connected]

\* startNoteSession on the form.
StartNote ==
    /\ front = "tui" /\ ui.screen = "form" /\ PadStarts /\ CanPoll("note")
    /\ PadStarted /\ KeyOvertakes
    /\ ui' = [ui EXCEPT !.screen = "note", !.note = Seen(pad'), !.lastID = pad'.id,
                        !.dirty = FALSE, !.version = 0, !.editor = pad'.text]
    /\ Polled("note")
    /\ pending' = 0 /\ gaveUp' = FALSE
    /\ UNCHANGED <<front, jobVars, webVars, timers, writes, msgs, edits>>

\* Mutant: a state replaces the text and what the user has changed in it.
WithStateAlways(model, state) ==
    [model EXCEPT !.note = Seen(state), !.lastID = state.id, !.dirty = FALSE,
                  !.editor = state.text]

\* applyNoteState: a state of another session replaces everything, one of this
\* session the text, unless the user has changed it.
WithState(model, state) ==
    IF state.id # model.lastID
    THEN [model EXCEPT !.note = Seen(state), !.lastID = state.id, !.dirty = FALSE,
                       !.version = 0, !.editor = state.text]
    ELSE [model EXCEPT !.note = Seen(state), !.editor = IF model.dirty THEN @ ELSE state.text]

\* updateNote: Esc leaves a session that runs, and the screen otherwise.
EscNote ==
    /\ front = "tui" /\ ui.screen = "note"
    /\ IF ui.note.running
       THEN PadLeft /\ ui' = WithState(ui, pad')
       ELSE ui' = [ui EXCEPT !.screen = "form"] /\ UNCHANGED padVars
    /\ UNCHANGED <<front, jobVars, webVars, polls, timers, writes, msgs, pending, gaveUp,
                   overtaken, edits>>

\* A key changes the text; its version is published after the debounce.
Type(text) ==
    /\ front = "tui" /\ ui.screen = "note" /\ ui.note.connected
    /\ edits < MaxEdits /\ text # ui.editor
    /\ ui' = [ui EXCEPT !.editor = text, !.dirty = TRUE, !.version = @ + 1]
    /\ timers' = timers \cup {ui.version + 1}
    /\ edits' = edits + 1 /\ gaveUp' = FALSE /\ pending' = ui.version + 1
    /\ UNCHANGED <<front, jobVars, padVars, webVars, polls, writes, msgs, overtaken>>

Write(version, text) == [version |-> version, text |-> text, session |-> ui.lastID]

\* Ctrl+S publishes at once under a new version; Ctrl+L clears.
PublishNow(clear) ==
    /\ front = "tui" /\ ui.screen = "note" /\ ui.note.connected
    /\ edits < MaxEdits /\ (ui.dirty \/ clear)
    /\ ui' = [ui EXCEPT !.version = @ + 1, !.dirty = TRUE, !.editor = IF clear THEN 0 ELSE @]
    /\ writes' = writes \cup {Write(ui.version + 1, ui'.editor)}
    /\ edits' = edits + 1 /\ gaveUp' = FALSE /\ pending' = ui.version + 1
    /\ UNCHANGED <<front, jobVars, padVars, webVars, polls, timers, msgs, overtaken>>

-----------------------------------------------------------------------------
(* Commands, which end with an answer, and their answers.                    *)

Answer(msg) == msgs' = Append(msgs, msg)

PollAnswers(kind) ==
    /\ polls[kind] > 0
    /\ polls' = [polls EXCEPT ![kind] = @ - 1]
    /\ Answer(IF kind = "task" THEN [kind |-> "task", running |-> job.running]
                               ELSE [kind |-> "note", note |-> pad])
    /\ UNCHANGED <<front, jobVars, padVars, webVars, ui, timers, writes, pending, gaveUp, overtaken, edits>>

\* An error of a publish, which the user is told of.
Fails(w) ==
    /\ writes' = writes \ {w}
    /\ Answer([kind |-> "write", version |-> w.version, ok |-> FALSE, note |-> NoPad])
    /\ gaveUp' = (gaveUp \/ (w.session = pad.id /\ w.version = pending))

\* store.Update or Clear: publish refuses without a connection, or puts the text
\* into the workspace.
PublishBegins(w) ==
    /\ w \in writes /\ store.sendMu = {}
    /\ overtaken' = IF \E o \in writes : o.session = w.session /\ o.version < w.version
                    THEN overtaken + 1 ELSE overtaken
    /\ overtaken' <= Overtakings
    /\ IF pad.running /\ pad.connected
       THEN /\ store' = [work |-> w.text, sendMu |-> {w}, changed |-> FALSE]
            /\ UNCHANGED <<writes, msgs, gaveUp>>
       ELSE Fails(w) /\ UNCHANGED store
    /\ UNCHANGED <<front, jobVars, pad, webVars, ui, polls, timers, pending, edits>>

\* publish after the draft was saved: "notepad session changed", or the text
\* becomes that of the state and is sent.  A send that fails closes the session,
\* which the run notices later.
PublishEnds(w) ==
    /\ w \in store.sendMu
    /\ store' = [store EXCEPT !.sendMu = {}, !.changed = FALSE]
    /\ pad' = IF store.changed THEN pad ELSE [pad EXCEPT !.text = w.text]
    /\ \/ Fails(w) /\ UNCHANGED pending
       \/ /\ ~store.changed
          /\ writes' = writes \ {w}
          /\ pending' = IF w.session = pad.id /\ w.version = pending THEN 0 ELSE pending
          /\ Answer([kind |-> "write", version |-> w.version, ok |-> TRUE, note |-> pad'])
          /\ UNCHANGED gaveUp
    /\ UNCHANGED <<front, jobVars, webVars, ui, polls, timers, overtaken, edits>>

\* The debounce timer: the newest version is published if the pad is connected.
Debounced(version) ==
    /\ version \in timers
    /\ timers' = timers \ {version}
    /\ IF version = ui.version /\ ui.dirty /\ ui.note.connected
       THEN writes' = writes \cup {Write(version, ui.editor)} /\ UNCHANGED gaveUp
       ELSE UNCHANGED writes /\ gaveUp' = (gaveUp \/ (version = ui.version /\ ui.dirty))
    /\ UNCHANGED <<front, jobVars, padVars, webVars, ui, polls, msgs, pending, overtaken, edits>>

\* Mutant: only a state that is connected is polled again.
KeepsPollingConnected(state) == state.connected

KeepsPolling(state) == state.running

\* tuiTaskMsg, tuiNoteStateMsg and tuiNoteWriteMsg: a state that runs is polled
\* again.
Receive(i) ==
    LET msg == msgs[i] IN
    /\ overtaken' = IF i = 1 THEN overtaken ELSE overtaken + 1
    /\ overtaken' <= Overtakings
    /\ msgs' = SubSeq(msgs, 1, i - 1) \o SubSeq(msgs, i + 1, Len(msgs))
    /\ \/ /\ msg.kind = "task"
          /\ ui' = [ui EXCEPT !.task = msg.running]
          /\ IF msg.running THEN Polled("task") ELSE UNCHANGED polls
       \/ /\ msg.kind = "note"
          /\ ui' = WithState(ui, msg.note)
          /\ IF KeepsPolling(msg.note) THEN Polled("note") ELSE UNCHANGED polls
       \/ /\ msg.kind = "write"
          /\ ui' = IF ~msg.ok THEN ui
                   ELSE WithState([ui EXCEPT !.dirty = @ /\ msg.version # ui.version], msg.note)
          /\ UNCHANGED polls
    /\ UNCHANGED <<front, jobVars, padVars, webVars, timers, writes, pending, gaveUp, edits>>

-----------------------------------------------------------------------------
Handlers(q) == Lock(q) \/ Look(q) \/ StartIt(q) \/ HandleCancel(q) \/ HandleLeave(q)

Publishes == \E w \in writes : PublishBegins(w) \/ PublishEnds(w)
Debounces == \E version \in timers : Debounced(version)
Delivers == \E i \in DOMAIN msgs : Receive(i)

Keys ==
    \/ StartTask \/ EscTask \/ StartNote \/ EscNote
    \/ \E text \in Texts : Type(text)
    \/ \E clear \in BOOLEAN : PublishNow(clear)

Next ==
    \/ Finish \/ PadConnects \/ PadReconnects \/ PadFails
    \/ \E text \in Texts : PadRemote(text)
    \/ \E q \in Requests :
        \/ \E kind \in {"task", "note", "cancel", "leave"} : Ask(q, kind)
        \/ Handlers(q)
    \/ Keys \/ Publishes \/ Debounces \/ Delivers
    \/ \E kind \in {"task", "note"} : PollAnswers(kind)

\* Go runs every request and every command of the event loop to its end, a timer
\* fires, and the event loop takes the messages.
Spec ==
    /\ Init /\ [][Next]_vars
    /\ \A q \in Requests : WF_vars(Handlers(q))
    /\ \A kind \in {"task", "note"} : WF_vars(PollAnswers(kind))
    /\ WF_vars(Publishes) /\ WF_vars(Debounces) /\ WF_vars(Delivers)

-----------------------------------------------------------------------------
(* Properties.                                                               *)

\* A transfer task and a notepad session never run together: the requests of the
\* web console meet in activityMu (startJob, handleNoteHost, handleNoteJoin), the
\* terminal program lets only the form start something, and the form is reached
\* only once the activity shown has ended.  Except after an answer that a later
\* one or a key has overtaken: the answer about an earlier activity that ended
\* then hides the present one.
OneActivity == overtaken = 0 => ~(job.running /\ pad.running)

\* A cancelled context is that of a task that was running when a cancel was asked
\* for, although Cancel calls the function after it has released the lock and
\* another task may have been started by then.
CancelHitsItsTask == ctx \subseteq asked

\* Two activities never get in each other's way: they do not run together, and the
\* cancel of one does not reach the next.
ActivitiesAreApart == OneActivity /\ CancelHitsItsTask

\* What the user typed or cleared and no publish has succeeded with is still
\* marked dirty, so that no polled state replaces it, whatever polls, debounce
\* timers and publishes are in flight or have ended with an error, as long as
\* nothing is overtaken.
TypedIsKept ==
    (pending > 0 /\ overtaken = 0 /\ ui.lastID = pad.id) => (ui.dirty /\ ui.version = pending)

\* A session that goes on ends up on the screen with the store's text in the
\* editor, or with a change whose publish was given up or ended with an error:
\* nothing else leaves the editor dirty or behind, since polls, timers and
\* publishes never wait for one another and each poll of a session that runs
\* starts the next.
EditorSettles ==
    <>[](\/ front = "web" \/ ~pad.running
         \/ ui.lastID = pad.id /\ IF ui.dirty THEN gaveUp ELSE ui.editor = pad.text)

=============================================================================
