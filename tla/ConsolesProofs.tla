--------------------------- MODULE ConsolesProofs ---------------------------
(***************************************************************************)
(* Proofs about Consoles for any requests, texts and bounds: a transfer and *)
(* a notepad session do not run together, a cancel hits the task it was     *)
(* asked for, and what was typed and not yet stored is not overwritten.     *)
(***************************************************************************)
EXTENDS Consoles, TLAPS, SequenceTheorems

(***************************************************************************)
(* The inductive invariant.                                                 *)
(***************************************************************************)

Pad == [id : Nat, running : BOOLEAN, connected : BOOLEAN, text : Texts]

Req == [kind : {"none", "task", "note", "cancel", "leave"},
        pc : {"idle", "lock", "look", "start", "call"}, task : Nat]

TaskMsg == [kind : {"task"}, running : BOOLEAN]
NoteMsg == [kind : {"note"}, note : Pad]
WriteMsg == [kind : {"write"}, version : Nat, ok : BOOLEAN, note : Pad]
Msg == TaskMsg \cup NoteMsg \cup WriteMsg

Writing == [version : Nat, text : Texts, session : Nat]
Store == [work : Texts, sendMu : SUBSET Writing, changed : BOOLEAN]

Ui == [screen : {"form", "task", "note"}, task : BOOLEAN, lastID : Nat,
       note : [running : BOOLEAN, connected : BOOLEAN],
       dirty : BOOLEAN, version : Nat, editor : Texts]

TypeInv ==
    /\ front \in {"web", "tui"}
    /\ job \in [id : Nat, running : BOOLEAN]
    /\ pad \in Pad
    /\ request \in [Requests -> Req]
    /\ ui \in Ui
    /\ timers \subseteq Nat
    /\ writes \subseteq Writing
    /\ store \in Store
    /\ msgs \in Seq(Msg)
    /\ pending \in Nat /\ overtaken \in Nat

\* A request past the lock holds it; one that looked and found nothing is still
\* right when it starts.  Only the web console has requests.
WebInv ==
    /\ front = "web" =>
        /\ ~(job.running /\ pad.running)
        /\ \A q \in Requests :
            /\ request[q].pc \in {"look", "start"} => activity = {q}
            /\ request[q].pc = "start" /\ request[q].kind = "task" => ~pad.running
            /\ request[q].pc = "start" /\ request[q].kind # "task" => ~job.running
    /\ front = "tui" => \A q \in Requests : request[q].pc = "idle"

\* What the screen shows of an activity that runs, and what the answers on their
\* way will show, is that it runs.
SaysTask(m) == m.kind = "task" => m.running
SaysNote(m) == m.kind = "note" \/ (m.kind = "write" /\ m.ok) => m.note.running

TuiInv ==
    front = "tui" /\ overtaken = 0 =>
        /\ job.running => /\ ui.screen = "task" /\ ui.task
                          /\ \A i \in DOMAIN msgs : SaysTask(msgs[i])
        /\ pad.running => /\ ui.screen = "note" /\ ui.note.running
                          /\ \A i \in DOMAIN msgs : SaysNote(msgs[i])

\* The answers and publishes under way are those of the session in the editor and
\* of its versions so far; an answer that a version was stored is not about the
\* version that was not.
AboutSession(m, id, version, open) ==
    /\ m.kind = "note" \/ (m.kind = "write" /\ m.ok) => m.note.id = id
    /\ m.kind = "write" => m.version <= version
    /\ m.kind = "write" /\ m.ok /\ open > 0 => m.version # open

KeptInv ==
    /\ front = "web" => pending = 0
    /\ front = "tui" /\ overtaken = 0 =>
        /\ ui.lastID = pad.id
        /\ pending > 0 => ui.dirty /\ ui.version = pending
        /\ \A w \in writes : w.session = pad.id /\ w.version <= ui.version
        /\ \A i \in DOMAIN msgs : AboutSession(msgs[i], pad.id, ui.version, pending)

\* A cancel that was read and not yet called was asked for.
CancelInv ==
    /\ \A q \in Requests : request[q].pc = "call" => request[q].task \in asked \cup {0}
    /\ ctx \subseteq asked

IInv == TypeInv /\ WebInv /\ TuiInv /\ KeptInv /\ CancelInv

(***************************************************************************)
(* Facts about the queue of answers and about what a state does to the      *)
(* editor.                                                                  *)
(***************************************************************************)

Without(q, i) == SubSeq(q, 1, i - 1) \o SubSeq(q, i + 1, Len(q))

\* Taking an answer out of the queue leaves answers that were in it.
LEMMA Taken ==
    ASSUME NEW S, NEW q \in Seq(S), NEW i \in DOMAIN q
    PROVE  /\ Without(q, i) \in Seq(S)
           /\ \A j \in DOMAIN Without(q, i) : \E k \in DOMAIN q : Without(q, i)[j] = q[k]
<1> DEFINE t == Without(q, i)
           n == Len(q)
           a == SubSeq(q, 1, i - 1)
           b == SubSeq(q, i + 1, n)
<1>1. /\ n \in Nat /\ i \in 1..n /\ i \in Int /\ DOMAIN q = 1..n
      /\ \A j \in 1..n : q[j] \in S
  OBVIOUS
<1>2. /\ a \in Seq(S) /\ Len(a) = i - 1
      /\ \A j \in 1..(i - 1) : a[j] = q[j]
  <2>1. \A j \in 1..(i - 1) : q[j] \in S
    BY <1>1
  <2>2. /\ a \in Seq(S) /\ Len(a) = IF 1 <= i - 1 THEN (i - 1) - 1 + 1 ELSE 0
        /\ \A j \in 1..((i - 1) - 1 + 1) : a[j] = q[1 + j - 1]
    BY <1>1, <2>1, SubSeqProperties
  <2> HIDE DEF a, b, n
  <2> QED BY <1>1, <2>2
<1>3. /\ b \in Seq(S) /\ Len(b) = n - i
      /\ \A j \in 1..(n - i) : b[j] = q[i + j]
  <2>1. \A j \in (i + 1)..n : q[j] \in S
    BY <1>1
  <2>2. /\ b \in Seq(S) /\ Len(b) = IF i + 1 <= n THEN n - (i + 1) + 1 ELSE 0
        /\ \A j \in 1..(n - (i + 1) + 1) : b[j] = q[i + 1 + j - 1]
    BY <1>1, <2>1, SubSeqProperties
  <2> HIDE DEF a, b, n
  <2>3. Len(b) = n - i /\ n - (i + 1) + 1 = n - i
    BY <1>1, <2>2
  <2>4. ASSUME NEW j \in 1..(n - i) PROVE b[j] = q[i + j]
    <3>1. j \in Int /\ i + 1 + j - 1 = i + j
      BY <1>1, <2>4
    <3>2. b[j] = q[i + 1 + j - 1]
      BY <2>2, <2>3, <2>4
    <3> QED BY <3>1, <3>2
  <2> QED BY <2>2, <2>3, <2>4
<1>4. t = a \o b
  BY DEF Without
<1> HIDE DEF a, b, n, t
<1>5. /\ t \in Seq(S) /\ Len(t) = Len(a) + Len(b)
      /\ \A j \in 1..(Len(a) + Len(b)) : t[j] = IF j <= Len(a) THEN a[j] ELSE b[j - Len(a)]
  <2>1. /\ a \o b \in Seq(S) /\ Len(a \o b) = Len(a) + Len(b)
        /\ \A j \in 1..(Len(a) + Len(b)) : (a \o b)[j] = IF j <= Len(a) THEN a[j] ELSE b[j - Len(a)]
    BY <1>2, <1>3, ConcatProperties, Zenon
  <2> QED BY <1>4, <2>1, Zenon
<1>6. Len(a) + Len(b) = n - 1
  BY <1>1, <1>2, <1>3
<1>7. DOMAIN t = 1..(n - 1)
  BY <1>5, <1>6
<1>8. ASSUME NEW j \in DOMAIN t
      PROVE  \E k \in DOMAIN q : t[j] = q[k]
  <2>0. /\ j \in 1..(n - 1) /\ j \in Int
        /\ t[j] = IF j <= i - 1 THEN a[j] ELSE b[j - (i - 1)]
    <3>1. j \in 1..(n - 1)
      BY <1>7, <1>8
    <3>2. t[j] = IF j <= Len(a) THEN a[j] ELSE b[j - Len(a)]
      BY <1>5, <1>6, <3>1
    <3> QED BY <1>1, <1>2, <3>1, <3>2
  <2>1. CASE j <= i - 1
    <3>1. j \in 1..(i - 1) /\ j \in 1..n
      BY <1>1, <2>0, <2>1
    <3>2. t[j] = q[j]
      BY <1>2, <2>0, <2>1, <3>1
    <3> QED BY <1>1, <3>1, <3>2
  <2>2. CASE ~(j <= i - 1)
    <3>1. /\ j - (i - 1) \in 1..(n - i) /\ i + (j - (i - 1)) = j + 1 /\ j + 1 \in 1..n
      BY <1>1, <2>0, <2>2
    <3>2. t[j] = q[j + 1]
      BY <1>3, <2>0, <2>2, <3>1
    <3> QED BY <1>1, <3>1, <3>2
  <2> QED BY <2>1, <2>2
<1> QED BY <1>5, <1>8 DEF t

LEMMA Answered ==
    ASSUME NEW S, NEW q \in Seq(S), NEW m \in S
    PROVE  /\ Append(q, m) \in Seq(S)
           /\ \A j \in DOMAIN Append(q, m) : Append(q, m)[j] = m
                                              \/ (j \in DOMAIN q /\ Append(q, m)[j] = q[j])
  OBVIOUS

\* A message is of the shape its kind says.
LEMMA MsgShape ==
    ASSUME NEW m \in Msg
    PROVE  /\ m.kind = "task" => m \in TaskMsg
           /\ m.kind = "note" => m \in NoteMsg
           /\ m.kind = "write" => m \in WriteMsg
           /\ m.kind \in {"task", "note", "write"}
  BY DEF Msg, TaskMsg, NoteMsg, WriteMsg

\* applyNoteState keeps the screen and takes over whether the session runs; a
\* state of the session in the editor keeps what the user has changed.
LEMMA StateApplied ==
    ASSUME NEW model \in Ui, NEW state \in Pad
    PROVE  /\ WithState(model, state) \in Ui
           /\ WithState(model, state).screen = model.screen
           /\ WithState(model, state).task = model.task
           /\ WithState(model, state).note.running = state.running
           /\ state.id = model.lastID =>
                /\ WithState(model, state).lastID = model.lastID
                /\ WithState(model, state).dirty = model.dirty
                /\ WithState(model, state).version = model.version
<1>1. Seen(state) \in [running : BOOLEAN, connected : BOOLEAN] /\ Seen(state).running = state.running
  BY DEF Seen, Pad
<1>2. state.id \in Nat /\ state.text \in Texts
  BY DEF Pad
<1>3. CASE state.id # model.lastID
  BY <1>1, <1>2, <1>3 DEF WithState, Ui
<1>4. CASE state.id = model.lastID
  BY <1>1, <1>2, <1>4 DEF WithState, Ui
<1> QED BY <1>3, <1>4

LEMMA PadStartedType ==
    ASSUME TypeInv, PadStarted
    PROVE  pad' \in Pad /\ pad'.running /\ store' \in Store
<1>1. PICK draft \in {0, pad.text, store.work} :
        /\ pad' = [id |-> pad.id + 1, running |-> TRUE, connected |-> FALSE, text |-> draft]
        /\ store' = [store EXCEPT !.work = draft]
  BY DEF PadStarted, NoPad
<1>2. pad.id \in Nat /\ draft \in Texts /\ store \in Store
  BY ConsolesConstants DEF TypeInv, Pad, Store
<1> QED BY <1>1, <1>2 DEF Pad, Store

LEMMA SessionGoneType ==
    ASSUME TypeInv, SessionGone
    PROVE  store' \in Store
  BY DEF TypeInv, SessionGone, Store

LEMMA PadLeftType ==
    ASSUME TypeInv, PadLeft
    PROVE  /\ pad' \in Pad /\ pad'.id = pad.id /\ ~pad'.running /\ store' \in Store
  BY SessionGoneType DEF TypeInv, PadLeft, Pad

(***************************************************************************)
(* Every action keeps the invariant.                                        *)
(***************************************************************************)

LEMMA FinishKeeps ==
    ASSUME IInv, Finish
    PROVE  IInv'
<1>1. TypeInv'
  BY DEF IInv, TypeInv, Finish, webVars, tuiVars, padVars
<1>2. WebInv'
  BY DEF IInv, TypeInv, WebInv, Finish, webVars, tuiVars, padVars
<1>3. TuiInv'
  BY DEF IInv, TypeInv, TuiInv, Finish, webVars, tuiVars, padVars
<1>4. KeptInv'
  BY DEF IInv, KeptInv, Finish, webVars, tuiVars, padVars
<1>5. CancelInv'
  BY DEF IInv, CancelInv, Finish, webVars, tuiVars, padVars
<1> QED BY <1>1, <1>2, <1>3, <1>4, <1>5 DEF IInv

LEMMA PadConnectsKeeps ==
    ASSUME IInv, PadConnects
    PROVE  IInv'
<1>1. TypeInv'
  <2>1. store.work \in Texts
    BY DEF IInv, TypeInv, Store
  <2> QED BY <2>1 DEF IInv, TypeInv, Pad, PadConnects, jobVars, webVars, tuiVars, padVars
<1>2. WebInv'
  BY DEF IInv, TypeInv, WebInv, Pad, PadConnects, jobVars, webVars, tuiVars, padVars
<1>3. TuiInv'
  BY DEF IInv, TypeInv, TuiInv, Pad, PadConnects, jobVars, webVars, tuiVars, padVars
<1>4. KeptInv'
  BY DEF IInv, TypeInv, KeptInv, Pad, PadConnects, jobVars, webVars, tuiVars, padVars
<1>5. CancelInv'
  BY DEF IInv, CancelInv, PadConnects, jobVars, webVars, tuiVars, padVars
<1> QED BY <1>1, <1>2, <1>3, <1>4, <1>5 DEF IInv

LEMMA PadReconnectsKeeps ==
    ASSUME IInv, PadReconnects
    PROVE  IInv'
<1>1. TypeInv'
  <2>1. store' \in Store
    BY SessionGoneType DEF IInv, PadReconnects
  <2> QED BY <2>1 DEF IInv, TypeInv, Pad, PadReconnects, SessionGone, jobVars, webVars, tuiVars, padVars
<1>2. WebInv'
  BY DEF IInv, TypeInv, WebInv, Pad, PadReconnects, SessionGone, jobVars, webVars, tuiVars, padVars
<1>3. TuiInv'
  BY DEF IInv, TypeInv, TuiInv, Pad, PadReconnects, SessionGone, jobVars, webVars, tuiVars, padVars
<1>4. KeptInv'
  BY DEF IInv, TypeInv, KeptInv, Pad, PadReconnects, SessionGone, jobVars, webVars, tuiVars, padVars
<1>5. CancelInv'
  BY DEF IInv, CancelInv, PadReconnects, SessionGone, jobVars, webVars, tuiVars, padVars
<1> QED BY <1>1, <1>2, <1>3, <1>4, <1>5 DEF IInv

LEMMA PadFailsKeeps ==
    ASSUME IInv, PadFails
    PROVE  IInv'
<1>1. TypeInv'
  <2>1. store' \in Store
    BY PadLeftType DEF IInv, PadFails
  <2> QED BY <2>1 DEF IInv, TypeInv, Pad, PadFails, SessionGone, PadLeft, jobVars, webVars, tuiVars, padVars
<1>2. WebInv'
  BY DEF IInv, TypeInv, WebInv, Pad, PadFails, SessionGone, PadLeft, jobVars, webVars, tuiVars, padVars
<1>3. TuiInv'
  BY DEF IInv, TypeInv, TuiInv, Pad, PadFails, SessionGone, PadLeft, jobVars, webVars, tuiVars, padVars
<1>4. KeptInv'
  BY DEF IInv, TypeInv, KeptInv, Pad, PadFails, SessionGone, PadLeft, jobVars, webVars, tuiVars, padVars
<1>5. CancelInv'
  BY DEF IInv, CancelInv, PadFails, SessionGone, jobVars, webVars, tuiVars, padVars
<1> QED BY <1>1, <1>2, <1>3, <1>4, <1>5 DEF IInv

LEMMA PadRemoteKeeps ==
    ASSUME IInv, NEW text \in Texts, PadRemote(text)
    PROVE  IInv'
<1>1. TypeInv'
  <2>1. store' \in Store
    BY DEF IInv, TypeInv, PadRemote, Store
  <2> QED BY <2>1 DEF IInv, TypeInv, Pad, PadRemote, jobVars, webVars, tuiVars, padVars
<1>2. WebInv'
  BY DEF IInv, TypeInv, WebInv, Pad, PadRemote, jobVars, webVars, tuiVars, padVars
<1>3. TuiInv'
  BY DEF IInv, TypeInv, TuiInv, Pad, PadRemote, jobVars, webVars, tuiVars, padVars
<1>4. KeptInv'
  BY DEF IInv, TypeInv, KeptInv, Pad, PadRemote, jobVars, webVars, tuiVars, padVars
<1>5. CancelInv'
  BY DEF IInv, CancelInv, PadRemote, jobVars, webVars, tuiVars, padVars
<1> QED BY <1>1, <1>2, <1>3, <1>4, <1>5 DEF IInv

LEMMA AskKeeps ==
    ASSUME IInv, NEW q \in Requests, NEW kind \in {"task", "note", "cancel", "leave"}, Ask(q, kind)
    PROVE  IInv'
<1>1. TypeInv'
  <2>1. request' \in [Requests -> Req]
    BY DEF IInv, TypeInv, Ask, NoRequest, Req, jobVars, webVars, tuiVars, padVars
  <2> QED BY <2>1 DEF IInv, TypeInv, Ask, jobVars, webVars, tuiVars, padVars
<1>2. WebInv'
  BY DEF IInv, TypeInv, WebInv, Ask, NoRequest, jobVars, tuiVars, padVars
<1>3. TuiInv'
  BY DEF IInv, TuiInv, Ask, jobVars, tuiVars, padVars
<1>4. KeptInv'
  BY DEF IInv, KeptInv, Ask, jobVars, tuiVars, padVars
<1>5. CancelInv'
  BY DEF IInv, TypeInv, CancelInv, Ask, NoRequest, jobVars, tuiVars, padVars
<1> QED BY <1>1, <1>2, <1>3, <1>4, <1>5 DEF IInv

LEMMA LockKeeps ==
    ASSUME IInv, NEW q \in Requests, Lock(q)
    PROVE  IInv'
<1>1. TypeInv'
  <2>1. request' \in [Requests -> Req]
    BY DEF IInv, TypeInv, Lock, Req, jobVars, webVars, tuiVars, padVars
  <2> QED BY <2>1 DEF IInv, TypeInv, Lock, jobVars, webVars, tuiVars, padVars
<1>2. WebInv'
  BY DEF IInv, TypeInv, WebInv, Lock, jobVars, tuiVars, padVars
<1>3. TuiInv'
  BY DEF IInv, TuiInv, Lock, jobVars, tuiVars, padVars
<1>4. KeptInv'
  BY DEF IInv, KeptInv, Lock, jobVars, tuiVars, padVars
<1>5. CancelInv'
  BY DEF IInv, TypeInv, CancelInv, Lock, jobVars, tuiVars, padVars
<1> QED BY <1>1, <1>2, <1>3, <1>4, <1>5 DEF IInv

LEMMA LookKeeps ==
    ASSUME IInv, NEW q \in Requests, Look(q)
    PROVE  IInv'
<1> DEFINE busy == IF request[q].kind = "task" THEN pad.running ELSE job.running
<1>0. /\ request[q].pc = "look" /\ request \in [Requests -> Req]
      /\ UNCHANGED <<front, job, ctx, asked, padVars, tuiVars>>
      /\ busy => request' = [request EXCEPT ![q] = NoRequest] /\ activity' = activity \ {q}
      /\ ~busy => request' = [request EXCEPT ![q].pc = "start"] /\ activity' = activity
  BY DEF IInv, TypeInv, Look, jobVars, padVars
<1>1. TypeInv'
  <2>1. request' \in [Requests -> Req]
    <3>1. CASE busy
      BY <1>0, <3>1 DEF NoRequest, Req
    <3>2. CASE ~busy
      BY <1>0, <3>2 DEF Req
    <3> QED BY <3>1, <3>2
  <2> QED BY <1>0, <2>1 DEF IInv, TypeInv, tuiVars, padVars
<1>2. WebInv'
  <2>1. CASE busy
    BY <1>0, <2>1 DEF IInv, WebInv, NoRequest, Req, padVars
  <2>2. CASE ~busy
    BY <1>0, <2>2 DEF IInv, WebInv, Req, padVars
  <2> QED BY <2>1, <2>2
<1>3. TuiInv'
  BY <1>0 DEF IInv, TuiInv, tuiVars, padVars
<1>4. KeptInv'
  BY <1>0 DEF IInv, KeptInv, tuiVars, padVars
<1>5. CancelInv'
  <2>1. CASE busy
    BY <1>0, <2>1 DEF IInv, CancelInv, NoRequest, Req
  <2>2. CASE ~busy
    BY <1>0, <2>2 DEF IInv, CancelInv, Req
  <2> QED BY <2>1, <2>2
<1> QED BY <1>1, <1>2, <1>3, <1>4, <1>5 DEF IInv

LEMMA StartItKeeps ==
    ASSUME IInv, NEW q \in Requests, StartIt(q)
    PROVE  IInv'
<1>1. TypeInv'
  <2>1. request' \in [Requests -> Req]
    BY ConsolesConstants DEF IInv, TypeInv, StartIt, NoRequest, CanStart, Started, PadStarts,
       PadStarted, NoPad, Req, jobVars, webVars, tuiVars, padVars
  <2>2. job' \in [id : Nat, running : BOOLEAN]
    <3>1. job' = job \/ job' = [id |-> job.id + 1, running |-> TRUE]
      BY DEF StartIt, Started
    <3>2. job \in [id : Nat, running : BOOLEAN]
      BY DEF IInv, TypeInv
    <3>3. job.id + 1 \in Nat
      BY <3>2
    <3>4. [id |-> job.id + 1, running |-> TRUE] \in [id : Nat, running : BOOLEAN]
      BY <3>3
    <3> QED BY <3>1, <3>2, <3>4, Zenon
  <2>3. pad' \in Pad /\ store' \in Store
    <3>1. (pad' = pad /\ store' = store) \/ PadStarted
      BY DEF StartIt, padVars
    <3> QED BY <3>1, PadStartedType DEF IInv, TypeInv
  <2> QED BY <2>1, <2>2, <2>3 DEF IInv, TypeInv, StartIt, jobVars, webVars, tuiVars, padVars
<1>2. WebInv'
  BY DEF IInv, TypeInv, WebInv, Pad, StartIt, NoRequest, Started, PadStarted, NoPad, tuiVars, padVars
<1>3. TuiInv'
  BY DEF IInv, TypeInv, WebInv, TuiInv, Pad, StartIt, Started, PadStarted, NoPad, tuiVars, padVars
<1>4. KeptInv'
  BY DEF IInv, TypeInv, WebInv, KeptInv, Pad, StartIt, PadStarted, NoPad, tuiVars, padVars
<1>5. CancelInv'
  BY DEF IInv, TypeInv, CancelInv, StartIt, NoRequest, tuiVars, padVars
<1> QED BY <1>1, <1>2, <1>3, <1>4, <1>5 DEF IInv

LEMMA HandleCancelKeeps ==
    ASSUME IInv, NEW q \in Requests, HandleCancel(q)
    PROVE  IInv'
<1>0. /\ request[q].kind = "cancel" /\ request \in [Requests -> Req]
      /\ UNCHANGED <<front, job, padVars, activity, tuiVars>>
  BY DEF IInv, TypeInv, HandleCancel
<1>1. ReadCancel \in Nat
  BY DEF IInv, TypeInv, ReadCancel
<1>2. CASE request[q].pc = "lock"
  <2>1. /\ request' = [request EXCEPT ![q].pc = "call", ![q].task = ReadCancel]
        /\ asked' = asked \cup ({ReadCancel} \ {0}) /\ ctx' = ctx
    BY <1>2 DEF HandleCancel
  <2>2. TypeInv'
    BY <1>0, <1>1, <2>1 DEF IInv, TypeInv, Req, tuiVars, padVars
  <2>3. WebInv'
    BY <1>0, <1>2, <2>1 DEF IInv, WebInv, Req, padVars
  <2>4. CancelInv'
    BY <1>0, <2>1 DEF IInv, CancelInv, Req
  <2>5. TuiInv' /\ KeptInv'
    BY <1>0 DEF IInv, TuiInv, KeptInv, tuiVars, padVars
  <2> QED BY <2>2, <2>3, <2>4, <2>5 DEF IInv
<1>3. CASE request[q].pc = "call"
  <2>1. /\ request' = [request EXCEPT ![q] = NoRequest]
        /\ ctx' = ctx \cup ({request[q].task} \ {0}) /\ asked' = asked
    BY <1>3 DEF HandleCancel, Cancelled
  <2>2. TypeInv'
    BY <1>0, <2>1 DEF IInv, TypeInv, NoRequest, Req, tuiVars, padVars
  <2>3. WebInv'
    BY <1>0, <1>3, <2>1 DEF IInv, WebInv, NoRequest, Req, padVars
  <2>4. CancelInv'
    BY <1>0, <1>3, <2>1 DEF IInv, CancelInv, NoRequest, Req
  <2>5. TuiInv' /\ KeptInv'
    BY <1>0 DEF IInv, TuiInv, KeptInv, tuiVars, padVars
  <2> QED BY <2>2, <2>3, <2>4, <2>5 DEF IInv
<1> QED BY <1>2, <1>3 DEF HandleCancel

LEMMA HandleLeaveKeeps ==
    ASSUME IInv, NEW q \in Requests, HandleLeave(q)
    PROVE  IInv'
<1>1. TypeInv'
  <2>1. request' \in [Requests -> Req]
    BY DEF IInv, TypeInv, HandleLeave, NoRequest, PadLeft, Req, jobVars, webVars, tuiVars, padVars
  <2>2. pad' \in Pad /\ store' \in Store
    BY PadLeftType DEF IInv, HandleLeave
  <2> QED BY <2>1, <2>2 DEF IInv, TypeInv, HandleLeave, jobVars, webVars, tuiVars, padVars
<1>2. WebInv'
  BY DEF IInv, TypeInv, WebInv, Pad, HandleLeave, NoRequest, PadLeft, jobVars, tuiVars, padVars
<1>3. TuiInv'
  BY DEF IInv, TypeInv, WebInv, TuiInv, Pad, HandleLeave, PadLeft, jobVars, tuiVars, padVars
<1>4. KeptInv'
  BY DEF IInv, TypeInv, KeptInv, Pad, HandleLeave, PadLeft, jobVars, tuiVars, padVars
<1>5. CancelInv'
  BY DEF IInv, TypeInv, CancelInv, HandleLeave, NoRequest, jobVars, tuiVars, padVars
<1> QED BY <1>1, <1>2, <1>3, <1>4, <1>5 DEF IInv

LEMMA StartTaskKeeps ==
    ASSUME IInv, StartTask
    PROVE  IInv'
<1>1. TypeInv'
  <2>1. job' \in [id : Nat, running : BOOLEAN]
    BY DEF IInv, TypeInv, StartTask, CanStart, Started, KeyOvertakes, jobVars, webVars, tuiVars, padVars
  <2>2. ui' \in Ui
    BY <2>1 DEF IInv, TypeInv, StartTask, CanStart, Started, KeyOvertakes, Ui, jobVars,
       webVars, tuiVars, padVars
  <2>3. overtaken' \in Nat
    BY <2>1, <2>2 DEF IInv, TypeInv, StartTask, CanStart, Started, KeyOvertakes, jobVars,
       webVars, tuiVars, padVars
  <2> QED BY <2>1, <2>2, <2>3 DEF IInv, TypeInv, StartTask, jobVars, webVars, tuiVars, padVars
<1>2. WebInv'
  BY DEF IInv, TypeInv, WebInv, StartTask, Started, webVars, padVars
<1>3. TuiInv'
  BY DEF IInv, TypeInv, TuiInv, Ui, StartTask, Started, KeyOvertakes, webVars, padVars
<1>4. KeptInv'
  BY DEF IInv, TypeInv, KeptInv, Ui, StartTask, KeyOvertakes, webVars, padVars
<1>5. CancelInv'
  BY DEF IInv, CancelInv, StartTask, webVars, padVars
<1> QED BY <1>1, <1>2, <1>3, <1>4, <1>5 DEF IInv

LEMMA EscTaskKeeps ==
    ASSUME IInv, EscTask
    PROVE  IInv'
<1>1. TypeInv'
  BY DEF IInv, TypeInv, Ui, EscTask, webVars, padVars
<1>2. WebInv'
  BY DEF IInv, WebInv, EscTask, webVars, padVars
<1>3. TuiInv'
  BY DEF IInv, TypeInv, TuiInv, Ui, EscTask, webVars, padVars
<1>4. KeptInv'
  BY DEF IInv, TypeInv, KeptInv, Ui, EscTask, webVars, padVars
<1>5. CancelInv'
  BY DEF IInv, CancelInv, EscTask, Cancelled, ReadCancel, webVars, padVars
<1> QED BY <1>1, <1>2, <1>3, <1>4, <1>5 DEF IInv

LEMMA StartNoteKeeps ==
    ASSUME IInv, StartNote
    PROVE  IInv'
<1>1. TypeInv'
  <2>1. pad' \in Pad /\ store' \in Store
    BY PadStartedType DEF IInv, StartNote
  <2>2. ui' \in Ui
    BY <2>1, ConsolesConstants DEF IInv, TypeInv, StartNote, PadStarts, PadStarted, NoPad,
       KeyOvertakes, Seen, Ui, Pad, jobVars, webVars, tuiVars, padVars
  <2>3. overtaken' \in Nat
    BY <2>1, <2>2, ConsolesConstants DEF IInv, TypeInv, StartNote, PadStarts, PadStarted,
       NoPad, KeyOvertakes, Seen, jobVars, webVars, tuiVars, padVars
  <2> QED BY <2>1, <2>2, <2>3 DEF IInv, TypeInv, StartNote, jobVars, webVars, tuiVars, padVars
<1>2. WebInv'
  BY DEF IInv, TypeInv, WebInv, Pad, StartNote, PadStarted, NoPad, jobVars, webVars, padVars
<1>3. TuiInv'
  BY DEF IInv, TypeInv, TuiInv, Pad, Ui, StartNote, PadStarted, NoPad, KeyOvertakes, Seen,
     jobVars, webVars, padVars
<1>4. KeptInv'
  BY DEF IInv, TypeInv, KeptInv, Pad, Ui, StartNote, PadStarted, NoPad, KeyOvertakes, Seen,
     jobVars, webVars, padVars
<1>5. CancelInv'
  BY DEF IInv, CancelInv, StartNote, jobVars, webVars, padVars
<1> QED BY <1>1, <1>2, <1>3, <1>4, <1>5 DEF IInv

LEMMA EscNoteKeeps ==
    ASSUME IInv, EscNote
    PROVE  IInv'
<1>1. CASE ui.note.running
  <2>1. /\ pad' \in Pad /\ pad'.id = pad.id /\ ~pad'.running /\ ui' = WithState(ui, pad')
        /\ ui \in Ui /\ store' \in Store
    BY <1>1, PadLeftType DEF IInv, TypeInv, EscNote
  <2>2. /\ ui' \in Ui /\ ui'.screen = ui.screen /\ ui'.task = ui.task
        /\ ui.lastID = pad.id => /\ ui'.lastID = ui.lastID /\ ui'.dirty = ui.dirty
                                 /\ ui'.version = ui.version
    BY <2>1, StateApplied
  <2>3. TypeInv'
    BY <2>1, <2>2 DEF IInv, TypeInv, EscNote, jobVars, webVars, padVars
  <2>4. WebInv'
    BY <2>1 DEF IInv, TypeInv, WebInv, EscNote, jobVars, webVars, padVars
  <2>5. TuiInv'
    BY <2>1, <2>2 DEF IInv, TuiInv, EscNote, jobVars, webVars, padVars
  <2>6. KeptInv'
    BY <2>1, <2>2 DEF IInv, TypeInv, KeptInv, EscNote, jobVars, webVars, padVars
  <2>7. CancelInv'
    BY DEF IInv, CancelInv, EscNote, jobVars, webVars, padVars
  <2> QED BY <2>3, <2>4, <2>5, <2>6, <2>7 DEF IInv
<1>2. CASE ~ui.note.running
  <2>1. TypeInv'
    BY <1>2 DEF IInv, TypeInv, Ui, EscNote, jobVars, webVars, padVars
  <2>2. WebInv'
    BY <1>2 DEF IInv, TypeInv, WebInv, EscNote, jobVars, webVars, padVars
  <2>3. TuiInv'
    BY <1>2 DEF IInv, TypeInv, TuiInv, Ui, EscNote, jobVars, webVars, padVars
  <2>4. KeptInv'
    BY <1>2 DEF IInv, TypeInv, KeptInv, Ui, EscNote, jobVars, webVars, padVars
  <2>5. CancelInv'
    BY <1>2 DEF IInv, CancelInv, EscNote, jobVars, webVars, padVars
  <2> QED BY <2>1, <2>2, <2>3, <2>4, <2>5 DEF IInv
<1> QED BY <1>1, <1>2

LEMMA TypeKeeps ==
    ASSUME IInv, NEW text \in Texts, Type(text)
    PROVE  IInv'
<1>0. /\ ui.version \in Nat /\ ui' \in Ui
      /\ ui'.version = ui.version + 1 /\ ui'.dirty /\ ui'.lastID = ui.lastID
  <2>1. ui \in Ui /\ ui' = [ui EXCEPT !.editor = text, !.dirty = TRUE, !.version = @ + 1]
    BY DEF IInv, TypeInv, Type
  <2>2. ui.version \in Nat /\ ui.version + 1 \in Nat
    BY <2>1 DEF Ui
  <2> QED BY <2>1, <2>2 DEF Ui
<1>1. TypeInv'
  BY <1>0 DEF IInv, TypeInv, Type, jobVars, webVars, padVars
<1>2. WebInv'
  BY DEF IInv, WebInv, Type, jobVars, webVars, padVars
<1>3. TuiInv'
  BY DEF IInv, TypeInv, TuiInv, Ui, Type, jobVars, webVars, padVars
<1>4. KeptInv'
  <2>1. /\ front = "tui" /\ UNCHANGED <<front, pad, writes, msgs, overtaken>>
        /\ pending' = ui.version + 1
    BY DEF Type, padVars
  <2>2. ASSUME overtaken = 0, NEW i \in DOMAIN msgs
        PROVE  AboutSession(msgs[i], pad.id, ui.version + 1, ui.version + 1)
    <3>1. msgs[i] \in Msg /\ AboutSession(msgs[i], pad.id, ui.version, pending)
      BY <2>1, <2>2 DEF IInv, TypeInv, KeptInv
    <3>2. msgs[i].kind = "write" => msgs[i].version \in Nat
      BY <3>1, MsgShape DEF WriteMsg
    <3> QED BY <1>0, <3>1, <3>2 DEF AboutSession
  <2>3. ASSUME overtaken = 0, NEW w \in writes
        PROVE  w.session = pad.id /\ w.version <= ui.version + 1
    BY <1>0, <2>1, <2>3 DEF IInv, TypeInv, KeptInv, Writing
  <2> QED BY <1>0, <2>1, <2>2, <2>3 DEF IInv, KeptInv
<1>5. CancelInv'
  BY DEF IInv, CancelInv, Type, jobVars, webVars, padVars
<1> QED BY <1>1, <1>2, <1>3, <1>4, <1>5 DEF IInv

LEMMA PublishNowKeeps ==
    ASSUME IInv, NEW clear \in BOOLEAN, PublishNow(clear)
    PROVE  IInv'
<1> DEFINE new == Write(ui.version + 1, ui'.editor)
<1>0. /\ ui.version \in Nat /\ ui' \in Ui
      /\ ui'.version = ui.version + 1 /\ ui'.dirty /\ ui'.lastID = ui.lastID
  <2>1. /\ ui \in Ui
        /\ ui' = [ui EXCEPT !.version = @ + 1, !.dirty = TRUE, !.editor = IF clear THEN 0 ELSE @]
    BY DEF IInv, TypeInv, PublishNow
  <2>2. ui.version \in Nat /\ ui.version + 1 \in Nat /\ (IF clear THEN 0 ELSE ui.editor) \in Texts
    BY <2>1, ConsolesConstants DEF Ui
  <2> QED BY <2>1, <2>2 DEF Ui
<1>w. /\ writes' = writes \cup {new} /\ new \in Writing
      /\ new.session = ui.lastID /\ new.version = ui.version + 1
  <2>1. ui \in Ui
    BY DEF IInv, TypeInv
  <2> QED BY <1>0, <2>1 DEF PublishNow, Write, Writing, Ui
<1> HIDE DEF new
<1>1. TypeInv'
  BY <1>0, <1>w DEF IInv, TypeInv, PublishNow, jobVars, webVars, padVars
<1>2. WebInv'
  BY DEF IInv, WebInv, PublishNow, jobVars, webVars, padVars
<1>3. TuiInv'
  BY DEF IInv, TypeInv, TuiInv, Ui, PublishNow, jobVars, webVars, padVars
<1>4. KeptInv'
  <2>1. /\ front = "tui" /\ UNCHANGED <<front, pad, msgs, overtaken>>
        /\ pending' = ui.version + 1
    BY DEF PublishNow, padVars
  <2>2. ASSUME overtaken = 0, NEW i \in DOMAIN msgs
        PROVE  AboutSession(msgs[i], pad.id, ui.version + 1, ui.version + 1)
    <3>1. msgs[i] \in Msg /\ AboutSession(msgs[i], pad.id, ui.version, pending)
      BY <2>1, <2>2 DEF IInv, TypeInv, KeptInv
    <3>2. msgs[i].kind = "write" => msgs[i].version \in Nat
      BY <3>1, MsgShape DEF WriteMsg
    <3> QED BY <1>0, <3>1, <3>2 DEF AboutSession
  <2>3. ASSUME overtaken = 0, NEW w \in writes'
        PROVE  w.session = pad.id /\ w.version <= ui.version + 1
    BY <1>0, <1>w, <2>1, <2>3 DEF IInv, TypeInv, KeptInv, Writing
  <2> QED BY <1>0, <2>1, <2>2, <2>3 DEF IInv, KeptInv
<1>5. CancelInv'
  BY DEF IInv, CancelInv, PublishNow, jobVars, webVars, padVars
<1> QED BY <1>1, <1>2, <1>3, <1>4, <1>5 DEF IInv

\* A publish that ends with an error leaves the versions and the session alone.
LEMMA FailsAnswers ==
    ASSUME IInv, NEW w \in writes, Fails(w)
    PROVE  /\ writes' \subseteq writes /\ msgs' \in Seq(Msg)
           /\ \A j \in DOMAIN msgs' :
                \/ j \in DOMAIN msgs /\ msgs'[j] = msgs[j]
                \/ msgs'[j].kind = "write" /\ ~msgs'[j].ok /\ msgs'[j].version = w.version
<1> DEFINE m == [kind |-> "write", version |-> w.version, ok |-> FALSE, note |-> NoPad]
<1>1. w \in Writing /\ NoPad \in Pad /\ msgs \in Seq(Msg)
  BY ConsolesConstants DEF IInv, TypeInv, NoPad, Pad
<1>2. m \in WriteMsg
  BY <1>1 DEF WriteMsg, Writing
<1>3. m \in Msg /\ m.kind = "write" /\ ~m.ok /\ m.version = w.version
  BY <1>2 DEF Msg
<1>4. msgs' = Append(msgs, m) /\ writes' = writes \ {w}
  BY DEF Fails, Answer
<1> HIDE DEF m
<1> QED BY <1>1, <1>3, <1>4, Answered

LEMMA PublishBeginsKeeps ==
    ASSUME IInv, NEW w \in writes, PublishBegins(w)
    PROVE  IInv'
<1>0. /\ UNCHANGED <<front, jobVars, pad, webVars, ui, timers, pending>>
      /\ overtaken \in Nat /\ overtaken' \in Nat /\ (overtaken' = 0 => overtaken = 0)
  <2>1. overtaken \in Nat /\ (overtaken' = overtaken \/ overtaken' = overtaken + 1)
    BY DEF IInv, TypeInv, PublishBegins
  <2> QED BY <2>1 DEF PublishBegins
<1>1. /\ store' \in Store /\ writes' \subseteq writes /\ msgs' \in Seq(Msg)
      /\ \A j \in DOMAIN msgs' :
            \/ j \in DOMAIN msgs /\ msgs'[j] = msgs[j]
            \/ msgs'[j].kind = "write" /\ ~msgs'[j].ok /\ msgs'[j].version = w.version
  <2>1. CASE pad.running /\ pad.connected
    <3>1. w \in Writing /\ store' = [work |-> w.text, sendMu |-> {w}, changed |-> FALSE]
      BY <2>1 DEF IInv, TypeInv, PublishBegins
    <3>2. store' \in Store
      BY <3>1 DEF Store, Writing
    <3>3. writes' = writes /\ msgs' = msgs /\ msgs \in Seq(Msg)
      BY <2>1 DEF IInv, TypeInv, PublishBegins
    <3> QED BY <3>2, <3>3
  <2>2. CASE ~(pad.running /\ pad.connected)
    BY <2>2, FailsAnswers DEF IInv, TypeInv, PublishBegins
  <2> QED BY <2>1, <2>2
<1>2. TypeInv'
  BY <1>0, <1>1 DEF IInv, TypeInv, jobVars, webVars
<1>3. WebInv' /\ CancelInv'
  BY <1>0 DEF IInv, WebInv, CancelInv, jobVars, webVars
<1>4. TuiInv'
  BY <1>0, <1>1 DEF IInv, TuiInv, SaysTask, SaysNote, jobVars
<1>5. KeptInv'
  BY <1>0, <1>1 DEF IInv, KeptInv, AboutSession
<1> QED BY <1>2, <1>3, <1>4, <1>5 DEF IInv

LEMMA PublishEndsKeeps ==
    ASSUME IInv, NEW w \in writes, PublishEnds(w)
    PROVE  IInv'
<1>0. /\ UNCHANGED <<front, jobVars, webVars, ui, timers, overtaken>>
      /\ w \in Writing
  BY DEF IInv, TypeInv, PublishEnds
<1>p. /\ pad' \in Pad /\ pad'.id = pad.id /\ pad'.running = pad.running
      /\ store' \in Store
  <2>1. pad \in Pad /\ store \in Store /\ w.text \in Texts
    BY <1>0 DEF IInv, TypeInv, Writing
  <2>2. pad' = pad \/ pad' = [pad EXCEPT !.text = w.text]
    BY DEF PublishEnds
  <2>3. store' = [store EXCEPT !.sendMu = {}, !.changed = FALSE]
    BY DEF PublishEnds
  <2>4. pad' \in Pad /\ pad'.id = pad.id /\ pad'.running = pad.running
    BY <2>1, <2>2 DEF Pad
  <2>5. store' \in Store
    BY <2>1, <2>3 DEF Store
  <2> QED BY <2>4, <2>5
\* The answer is an error or a state of this session, in which the version is no
\* longer open.
<1>1. /\ writes' \subseteq writes /\ msgs' \in Seq(Msg)
      /\ \A j \in DOMAIN msgs' :
            \/ j \in DOMAIN msgs /\ msgs'[j] = msgs[j]
            \/ /\ msgs'[j].kind = "write" /\ msgs'[j].version = w.version
               /\ msgs'[j].ok => /\ msgs'[j].note = pad'
                                 /\ w.session = pad.id => pending' # w.version \/ pending' = 0
      /\ pending' = pending \/ pending' = 0
  <2>1. CASE Fails(w) /\ pending' = pending
    BY <2>1, FailsAnswers
  <2>2. CASE ~(Fails(w) /\ UNCHANGED pending)
    <3> DEFINE m == [kind |-> "write", version |-> w.version, ok |-> TRUE, note |-> pad']
    <3>1. /\ writes' = writes \ {w} /\ msgs' = Append(msgs, m)
          /\ pending' = IF w.session = pad.id /\ w.version = pending THEN 0 ELSE pending
      BY <2>2 DEF PublishEnds, Answer
    <3>2. m \in WriteMsg
      BY <1>0, <1>p DEF WriteMsg, Writing
    <3>3. m \in Msg /\ m.kind = "write" /\ m.version = w.version /\ m.note = pad'
      BY <3>2 DEF Msg
    <3>4. msgs \in Seq(Msg)
      BY DEF IInv, TypeInv
    <3>5. w.session = pad.id => pending' # w.version \/ pending' = 0
      BY <3>1
    <3>6. pending' = pending \/ pending' = 0
      BY <3>1
    <3> HIDE DEF m
    <3>7. /\ msgs' \in Seq(Msg)
          /\ \A j \in DOMAIN msgs' : msgs'[j] = m \/ (j \in DOMAIN msgs /\ msgs'[j] = msgs[j])
      BY <3>1, <3>3, <3>4, Answered
    <3> QED BY <3>1, <3>3, <3>5, <3>6, <3>7
  <2> QED BY <2>1, <2>2
<1>2. TypeInv'
  BY <1>0, <1>p, <1>1 DEF IInv, TypeInv, jobVars, webVars
<1>3. WebInv' /\ CancelInv'
  BY <1>0, <1>p DEF IInv, WebInv, CancelInv, jobVars, webVars
<1>4. TuiInv'
  BY <1>0, <1>p, <1>1 DEF IInv, TuiInv, SaysTask, SaysNote, jobVars
<1>5. KeptInv'
  <2> SUFFICES ASSUME front = "tui", overtaken = 0
               PROVE  KeptInv'
    BY <1>0, <1>1 DEF IInv, KeptInv
  <2>1. /\ ui.lastID = pad.id /\ w.session = pad.id /\ w.version <= ui.version
        /\ pending > 0 => ui.dirty /\ ui.version = pending
        /\ \A v \in writes : v.session = pad.id /\ v.version <= ui.version
        /\ \A i \in DOMAIN msgs : AboutSession(msgs[i], pad.id, ui.version, pending)
    BY DEF IInv, KeptInv
  <2>2. ASSUME NEW j \in DOMAIN msgs'
        PROVE  AboutSession(msgs'[j], pad'.id, ui.version, pending')
    BY <1>p, <1>1, <2>1, <2>2 DEF AboutSession
  <2> QED BY <1>0, <1>p, <1>1, <2>1, <2>2 DEF KeptInv
<1> QED BY <1>2, <1>3, <1>4, <1>5 DEF IInv

LEMMA DebouncedKeeps ==
    ASSUME IInv, NEW version \in timers, Debounced(version)
    PROVE  IInv'
<1>1. TypeInv'
  BY DEF IInv, TypeInv, Ui, Debounced, Write, Writing, jobVars, webVars, padVars
<1>2. WebInv'
  BY DEF IInv, WebInv, Debounced, jobVars, webVars, padVars
<1>3. TuiInv'
  BY DEF IInv, TuiInv, Debounced, jobVars, webVars, padVars
<1>4. KeptInv'
  BY DEF IInv, TypeInv, KeptInv, Ui, Debounced, Write, jobVars, webVars, padVars
<1>5. CancelInv'
  BY DEF IInv, CancelInv, Debounced, jobVars, webVars, padVars
<1> QED BY <1>1, <1>2, <1>3, <1>4, <1>5 DEF IInv

LEMMA ReceiveKeeps ==
    ASSUME IInv, NEW i \in DOMAIN msgs, Receive(i)
    PROVE  IInv'
<1> DEFINE m == msgs[i]
<1>1. /\ ui \in Ui /\ m \in Msg /\ overtaken' \in Nat /\ (overtaken' = 0 => overtaken = 0)
      /\ UNCHANGED <<front, jobVars, padVars, webVars, timers, writes, pending>>
  <2>1. ui \in Ui /\ m \in Msg /\ overtaken \in Nat
    BY DEF IInv, TypeInv
  <2>2. /\ overtaken' = IF i = 1 THEN overtaken ELSE overtaken + 1
        /\ UNCHANGED <<front, jobVars, padVars, webVars, timers, writes, pending>>
    BY DEF Receive
  <2> QED BY <2>1, <2>2
<1>2. /\ msgs' \in Seq(Msg)
      /\ \A j \in DOMAIN msgs' : \E k \in DOMAIN msgs : msgs'[j] = msgs[k]
  <2>1. msgs \in Seq(Msg) /\ msgs' = Without(msgs, i)
    BY DEF IInv, TypeInv, Receive, Without
  <2> QED BY <2>1, Taken
\* What an answer does to the program depends on its kind.
<1> DEFINE Same == /\ ui'.lastID = ui.lastID /\ ui'.version = ui.version
                   /\ ui'.dirty \/ ~ui.dirty \/ (m.kind = "write" /\ m.ok /\ m.version = ui.version)
<1>3. /\ ui' \in Ui /\ ui'.screen = ui.screen
      /\ ui'.task = ui.task \/ (m.kind = "task" /\ ui'.task = m.running)
      /\ \/ ui'.note = ui.note
         \/ /\ m.kind = "note" \/ (m.kind = "write" /\ m.ok)
            /\ ui'.note.running = m.note.running
      /\ (m.kind = "note" \/ (m.kind = "write" /\ m.ok) => m.note.id = ui.lastID) => Same
  <2> HIDE DEF m
  <2>1. CASE m.kind = "task"
    <3>1. m.running \in BOOLEAN /\ ui' = [ui EXCEPT !.task = m.running]
      BY <1>1, <2>1, MsgShape DEF TaskMsg, Receive, m
    <3> QED BY <1>1, <2>1, <3>1 DEF Ui
  <2>2. CASE m.kind = "note"
    <3>1. m.note \in Pad /\ ui' = WithState(ui, m.note)
      BY <1>1, <2>2, MsgShape DEF NoteMsg, Receive, m
    <3> QED BY <1>1, <2>2, <3>1, StateApplied
  <2>3. CASE m.kind = "write" /\ m.ok
    <3> DEFINE model == [ui EXCEPT !.dirty = @ /\ m.version # ui.version]
    <3>1. m.note \in Pad /\ ui' = WithState(model, m.note)
      BY <1>1, <2>3, MsgShape DEF WriteMsg, Receive, m
    <3>2. /\ model \in Ui /\ model.screen = ui.screen /\ model.task = ui.task
          /\ model.lastID = ui.lastID /\ model.version = ui.version
          /\ model.dirty = (ui.dirty /\ m.version # ui.version)
      BY <1>1 DEF Ui
    <3> HIDE DEF model
    <3> QED BY <2>3, <3>1, <3>2, StateApplied
  <2>4. CASE m.kind = "write" /\ ~m.ok
    BY <1>1, <2>4 DEF Receive, m
  <2> QED BY <1>1, <2>1, <2>2, <2>3, <2>4, MsgShape
<1> HIDE DEF m
<1>4. TypeInv'
  BY <1>1, <1>2, <1>3 DEF IInv, TypeInv, jobVars, webVars, padVars
<1>5. WebInv'
  BY <1>1 DEF IInv, WebInv, jobVars, webVars, padVars
<1>6. TuiInv'
  <2> SUFFICES ASSUME front = "tui", overtaken = 0
               PROVE  TuiInv'
    BY <1>1 DEF TuiInv
  <2>1. job.running => ui'.screen = "task" /\ ui'.task /\ \A j \in DOMAIN msgs' : SaysTask(msgs'[j])
    BY <1>2, <1>3 DEF IInv, TuiInv, SaysTask, m
  <2>2. pad.running => ui'.screen = "note" /\ ui'.note.running /\ \A j \in DOMAIN msgs' : SaysNote(msgs'[j])
    BY <1>2, <1>3 DEF IInv, TuiInv, SaysNote, m
  <2> QED BY <1>1, <2>1, <2>2 DEF TuiInv, jobVars, padVars
<1>7. KeptInv'
  <2> SUFFICES ASSUME front = "tui", overtaken = 0
               PROVE  KeptInv'
    BY <1>1 DEF IInv, TypeInv, KeptInv
  <2>1. Same
    BY <1>3 DEF IInv, KeptInv, AboutSession, m
  <2>2. pending > 0 => ui'.dirty
    BY <2>1 DEF IInv, KeptInv, AboutSession, m
  <2>3. \A j \in DOMAIN msgs' : AboutSession(msgs'[j], pad.id, ui.version, pending)
    BY <1>2 DEF IInv, KeptInv
  <2> QED BY <1>1, <2>1, <2>2, <2>3 DEF IInv, KeptInv, padVars
<1>8. CancelInv'
  BY <1>1 DEF IInv, CancelInv, jobVars, webVars, padVars
<1> QED BY <1>4, <1>5, <1>6, <1>7, <1>8 DEF IInv

LEMMA PollAnswersKeeps ==
    ASSUME IInv, NEW kind \in {"task", "note"}, PollAnswers(kind)
    PROVE  IInv'
<1>m. PICK m \in Msg : /\ msgs' = Append(msgs, m) /\ m.kind = kind
                       /\ (kind = "task" => m.running = job.running)
                       /\ (kind = "note" => m.note = pad)
  BY DEF IInv, TypeInv, PollAnswers, Answer, Msg, TaskMsg, NoteMsg
<1>a. /\ msgs' \in Seq(Msg)
      /\ \A j \in DOMAIN msgs' : msgs'[j] = m \/ (j \in DOMAIN msgs /\ msgs'[j] = msgs[j])
  BY <1>m, Answered DEF IInv, TypeInv
<1>1. TypeInv'
  BY <1>m, <1>a DEF IInv, TypeInv, PollAnswers, jobVars, webVars, padVars
<1>2. WebInv'
  BY <1>m, <1>a DEF IInv, WebInv, PollAnswers, jobVars, webVars, padVars
<1>3. TuiInv'
  BY <1>m, <1>a DEF IInv, TypeInv, TuiInv, SaysTask, SaysNote, PollAnswers, jobVars, webVars, padVars
<1>4. KeptInv'
  BY <1>m, <1>a DEF IInv, TypeInv, KeptInv, AboutSession, PollAnswers, jobVars, webVars, padVars
<1>5. CancelInv'
  BY <1>m, <1>a DEF IInv, CancelInv, PollAnswers, jobVars, webVars, padVars
<1> QED BY <1>1, <1>2, <1>3, <1>4, <1>5 DEF IInv

(***************************************************************************)
(* The theorems.                                                            *)
(***************************************************************************)

LEMMA InitHolds == Init => IInv
<1> SUFFICES ASSUME Init PROVE IInv
  OBVIOUS
<1>1. TypeInv
  <2>1. ui \in Ui /\ pad \in Pad /\ store \in Store
    BY ConsolesConstants DEF Init, NoPad, Pad, Store, Ui
  <2>2. request \in [Requests -> Req]
    BY DEF Init, NoRequest, Req
  <2> QED BY <2>1, <2>2 DEF Init, TypeInv, NoTask
<1>2. WebInv /\ CancelInv
  BY DEF Init, WebInv, CancelInv, NoTask, NoPad, NoRequest
<1>3. TuiInv /\ KeptInv
  BY DEF Init, TuiInv, KeptInv, NoTask, NoPad
<1> QED BY <1>1, <1>2, <1>3 DEF IInv

LEMMA NextKeeps == IInv /\ [Next]_vars => IInv'
<1> SUFFICES ASSUME IInv, [Next]_vars PROVE IInv'
  OBVIOUS
<1>1. CASE UNCHANGED vars
  <2>1. TypeInv' /\ WebInv' /\ CancelInv'
    BY <1>1 DEF IInv, TypeInv, WebInv, CancelInv, vars, jobVars, webVars, tuiVars, padVars
  <2>2. TuiInv' /\ KeptInv'
    BY <1>1 DEF IInv, TuiInv, KeptInv, vars, jobVars, webVars, tuiVars, padVars
  <2> QED BY <2>1, <2>2 DEF IInv
<1>2. CASE Finish \/ PadConnects \/ PadReconnects \/ PadFails \/ \E text \in Texts : PadRemote(text)
  BY <1>2, FinishKeeps, PadConnectsKeeps, PadReconnectsKeeps, PadFailsKeeps, PadRemoteKeeps
<1>3. CASE \E q \in Requests : \E kind \in {"task", "note", "cancel", "leave"} : Ask(q, kind)
  BY <1>3, AskKeeps
<1>4. CASE \E q \in Requests : Handlers(q)
  BY <1>4, LockKeeps, LookKeeps, StartItKeeps, HandleCancelKeeps, HandleLeaveKeeps DEF Handlers
<1>5. CASE Keys
  BY <1>5, StartTaskKeeps, EscTaskKeeps, StartNoteKeeps, EscNoteKeeps, TypeKeeps,
     PublishNowKeeps
     DEF Keys
<1>6. CASE Publishes \/ Debounces \/ Delivers
  BY <1>6, PublishBeginsKeeps, PublishEndsKeeps, DebouncedKeeps, ReceiveKeeps DEF Publishes, Debounces, Delivers
<1>7. CASE \E kind \in {"task", "note"} : PollAnswers(kind)
  BY <1>7, PollAnswersKeeps
<1> QED BY <1>1, <1>2, <1>3, <1>4, <1>5, <1>6, <1>7 DEF Next

\* The invariant holds in every state of the consoles.
THEOREM ConsolesInvariant == Spec => []IInv
  BY InitHolds, NextKeeps, PTL DEF Spec

\* A transfer and a notepad session never run together, on the web console
\* because looking and starting is one critical section of activityMu, on the
\* terminal program because only the form starts something; and a cancel reaches
\* the task that was running when it was asked for, for any number of concurrent
\* requests and any polls, publishes and answers in flight.
THEOREM ActivitiesApart == Spec => []ActivitiesAreApart
<1>1. IInv => ActivitiesAreApart
  BY DEF IInv, TypeInv, WebInv, TuiInv, CancelInv, ActivitiesAreApart, OneActivity,
     CancelHitsItsTask
<1> QED BY <1>1, ConsolesInvariant, PTL

\* What the user typed and the store of the session has not taken is marked dirty
\* under its version, so that applyNoteState leaves it in the editor, whatever
\* answers, timers and publishes are in flight.
THEOREM TypedKept == Spec => []TypedIsKept
<1>1. IInv => TypedIsKept
  BY DEF IInv, TypeInv, KeptInv, TypedIsKept
<1> QED BY <1>1, ConsolesInvariant, PTL

=============================================================================
