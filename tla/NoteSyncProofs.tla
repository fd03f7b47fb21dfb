--------------------------- MODULE NoteSyncProofs ---------------------------
(***************************************************************************)
(* Proofs about NoteSync for any clients, texts, clocks, numbers of edits,  *)
(* reconnects and faults: a store shows nothing its workspace has not       *)
(* reached, the draft keeps what was published, a client with nothing left  *)
(* to handle is settled, and without faults all clients then agree with     *)
(* the service.                                                             *)
(***************************************************************************)
EXTENDS NoteSync, TLAPS, SequenceTheorems

(***************************************************************************)
(* The order of documents.                                                  *)
(***************************************************************************)

\* A document without a revision is the one of a notepad nobody has written.
Doc == {d \in [rev : Nat, ts : Nat, text : Nat] : d.rev = 0 => d = NoDoc}

LEMMA DocParts ==
    ASSUME NEW d \in Doc
    PROVE  d.rev \in Nat /\ d.ts \in Nat /\ d.text \in Nat /\ (d.rev = 0 => d = NoDoc)
  BY DEF Doc

\* a is not later than b.
UpTo(a, b) == ~Later(a, b)

\* compareDocuments is a total order: nothing is lost by comparing in steps.
LEMMA LaterIsOrder ==
    ASSUME NEW a \in Doc, NEW b \in Doc, NEW c \in Doc
    PROVE  /\ UpTo(a, a)
           /\ UpTo(a, b) \/ UpTo(b, a)
           /\ UpTo(a, b) /\ UpTo(b, c) => UpTo(a, c)
  BY DocParts DEF UpTo, Later

\* Applying and updating never take a workspace back.
LEMMA AppliedGrows ==
    ASSUME NEW a \in Doc, NEW b \in Doc
    PROVE  Applied(a, b) \in Doc /\ UpTo(a, Applied(a, b)) /\ UpTo(b, Applied(a, b))
  BY LaterIsOrder DEF Applied, UpTo

LEMMA UpdatedGrows ==
    ASSUME NEW a \in Doc, NEW text \in Texts, NEW now \in Clock
    PROVE  Updated(a, text, now) \in Doc /\ UpTo(a, Updated(a, text, now))
<1>1. a.rev \in Nat /\ a.ts \in Nat /\ text \in Nat /\ now \in Nat
  BY NoteSyncConstants, DocParts
<1>2. (IF now <= a.ts THEN a.ts + 1 ELSE now) \in Nat
  BY <1>1
<1>3. Updated(a, text, now) \in Doc /\ Updated(a, text, now).rev = a.rev + 1
  BY <1>1, <1>2 DEF Updated, Doc
<1> QED BY <1>1, <1>3 DEF UpTo, Later

LEMMA NoDocType == NoDoc \in Doc
  BY DEF NoDoc, Doc

(***************************************************************************)
(* Runs.                                                                    *)
(***************************************************************************)

LEMMA RunFacts ==
    ASSUME NEW r \in Runs
    PROVE  /\ Store(r) \in Stores /\ r[2] \in 1..2 /\ r = <<Store(r), r[2]>>
           /\ r[2] <= Starts(Store(r))
  BY DEF Runs, Store

LEMMA RunOf ==
    ASSUME NEW s \in Stores, NEW id \in 1..Starts(s)
    PROVE  <<s, id>> \in Runs /\ Store(<<s, id>>) = s
  BY DEF Runs, Store, Starts

(***************************************************************************)
(* The inductive invariant.                                                 *)
(***************************************************************************)

Phases == {"none", "joined", "greeted", "broken", "closed"}
PutMsg == [base : Nat, doc : Doc]
Message == [kind : {"state", "error"}, gen : Nat, doc : Doc]
Event == [kind : {"update", "ack", "error"}, doc : Doc]
Conn == [phase : Phases, up : Seq(PutMsg), down : Seq(Message),
         greeting : [gen : Nat, doc : Doc]]
ReaderState == [stage : {"idle", "compare", "publish"}, doc : Doc]
Session == [gen : Nat, initial : Doc, events : Seq(Event),
            reader : ReaderState]
RunState == [stage : {"idle", "connect", "open", "sync", "saving", "synced", "receive", "done"},
             attempt : Nat]
PubState == [stage : {"idle", "draft", "save", "send"}, id : Nat, session : Nat, doc : Doc]
StoreState == [id : Nat, running : BOOLEAN, connected : BOOLEAN, synced : BOOLEAN,
               shown : Doc, pending : Nat, session : Nat]

\* Every document anywhere is one; what the rest of the proof needs of the
\* service and the network.
TypeInv ==
    /\ generation \in Nat /\ record \in Doc /\ stray \subseteq PutMsg
    /\ conn \in [Runs -> Conn]
    /\ session \in [Runs -> Session]
    /\ run \in [Runs -> RunState]
    /\ workspace \in [Runs -> Doc]
    /\ store \in [Stores -> StoreState]
    /\ pub \in [Stores -> PubState]
    /\ draft \in [Stores -> Doc] /\ kept \in [Stores -> Doc]

\* A store that runs has a run, and starts no more often than it may.
IdInv ==
    \A s \in Stores : /\ store[s].id \in 0..Starts(s)
                      /\ store[s].running => store[s].id >= 1

\* A document being published is in the workspace of its run and not older than
\* what was published before; once saved it is in the draft, unless its session
\* was left.
PubInv ==
    \A s \in Stores : pub[s].stage # "idle" =>
        /\ s \notin Interactive
        /\ pub[s].id \in 1..store[s].id
        /\ UpTo(pub[s].doc, workspace[<<s, pub[s].id>>])
        /\ s \notin overtaken => UpTo(kept[s], pub[s].doc)
        /\ s \notin overtaken /\ pub[s].stage = "send" /\ store[s].running
                /\ store[s].id = pub[s].id
            => UpTo(pub[s].doc, draft[s])

\* What was published is in the draft and in the workspace of the current run.
KeptInv ==
    \A s \in Stores : s \notin overtaken =>
        /\ UpTo(kept[s], draft[s])
        /\ store[s].running => UpTo(kept[s], workspace[<<s, store[s].id>>])

IInv == TypeInv /\ IdInv /\ ShownIsOwn /\ PubInv /\ KeptInv

(***************************************************************************)
(* Types.                                                                   *)
(***************************************************************************)

LEMMA DefaultTypes ==
    /\ NoConn \in Conn /\ NoSession \in Session /\ NewStore \in StoreState
    /\ NoPub \in PubState
<1> USE NoDocType
<1>1. << >> \in Seq(PutMsg) /\ << >> \in Seq(Message) /\ << >> \in Seq(Event)
  OBVIOUS
<1>2. NoConn \in Conn
  BY <1>1 DEF NoConn, Conn, Phases
<1>3. NoSession \in Session
  BY <1>1 DEF NoSession, NoReader, Session, ReaderState
<1>4. NewStore \in StoreState
  BY DEF NewStore, StoreState
<1> QED BY <1>2, <1>3, <1>4 DEF NoPub, PubState

\* The parts of a connection and of a session, and what may replace them.
LEMMA ConnParts ==
    ASSUME NEW c \in Conn
    PROVE  /\ c.phase \in Phases /\ c.up \in Seq(PutMsg) /\ c.down \in Seq(Message)
           /\ c.greeting.gen \in Nat /\ c.greeting.doc \in Doc
           /\ \A x \in Phases : [c EXCEPT !.phase = x] \in Conn
           /\ \A x \in Seq(PutMsg) : [c EXCEPT !.up = x] \in Conn
           /\ \A x \in Seq(Message) : [c EXCEPT !.down = x] \in Conn
           /\ \A x \in [gen : Nat, doc : Doc] : [c EXCEPT !.greeting = x] \in Conn
<1>1. /\ c.phase \in Phases /\ c.up \in Seq(PutMsg) /\ c.down \in Seq(Message)
      /\ c.greeting \in [gen : Nat, doc : Doc]
  BY DEF Conn
<1>2. c.greeting.gen \in Nat /\ c.greeting.doc \in Doc
  BY <1>1
<1>3. /\ \A x \in Phases : [c EXCEPT !.phase = x] \in Conn
      /\ \A x \in Seq(PutMsg) : [c EXCEPT !.up = x] \in Conn
      /\ \A x \in Seq(Message) : [c EXCEPT !.down = x] \in Conn
      /\ \A x \in [gen : Nat, doc : Doc] : [c EXCEPT !.greeting = x] \in Conn
  BY DEF Conn
<1> QED BY <1>1, <1>2, <1>3

LEMMA SessionParts ==
    ASSUME NEW c \in Session
    PROVE  /\ c.gen \in Nat /\ c.initial \in Doc /\ c.events \in Seq(Event)
           /\ c.reader \in ReaderState /\ c.reader.doc \in Doc
           /\ \A x \in Nat : [c EXCEPT !.gen = x] \in Session
           /\ \A x \in Doc : [c EXCEPT !.initial = x] \in Session
           /\ \A x \in Seq(Event) : [c EXCEPT !.events = x] \in Session
           /\ \A x \in ReaderState : [c EXCEPT !.reader = x] \in Session
<1>1. /\ c.gen \in Nat /\ c.initial \in Doc /\ c.events \in Seq(Event)
      /\ c.reader \in ReaderState
  BY DEF Session
<1>2. c.reader.doc \in Doc
  BY <1>1 DEF ReaderState
<1>3. /\ \A x \in Nat : [c EXCEPT !.gen = x] \in Session
      /\ \A x \in Doc : [c EXCEPT !.initial = x] \in Session
      /\ \A x \in Seq(Event) : [c EXCEPT !.events = x] \in Session
      /\ \A x \in ReaderState : [c EXCEPT !.reader = x] \in Session
  BY DEF Session
<1> QED BY <1>1, <1>2, <1>3

\* Queues.
LEMMA QueueParts ==
    ASSUME NEW S, NEW q \in Seq(S)
    PROVE  /\ \A x \in S : Append(q, x) \in Seq(S)
           /\ q # << >> => Head(q) \in S /\ Tail(q) \in Seq(S)
           /\ \A i \in 1..Len(q) : q[i] \in S
  OBVIOUS

\* A connection that is given up.
LEMMA ClosedType ==
    ASSUME TypeInv, NEW r \in Runs, Closed(r)
    PROVE  conn' \in [Runs -> Conn] /\ stray' \subseteq PutMsg
<1>1. conn[r] \in Conn /\ conn[r].up \in Seq(PutMsg)
  BY ConnParts DEF TypeInv
<1>2. [NoConn EXCEPT !.phase = "closed"] \in Conn
  BY DefaultTypes, ConnParts DEF Phases
<1>3. {conn[r].up[i] : i \in 1..Len(conn[r].up)} \subseteq PutMsg
  BY <1>1, QueueParts
<1> QED BY <1>2, <1>3 DEF TypeInv, Closed

\* The service tells every connection about a put it accepts.
LEMMA AcceptType ==
    ASSUME NEW connections \in [Runs -> Conn], NEW doc \in Doc, generation \in Nat,
           Accept(connections, doc)
    PROVE  conn' \in [Runs -> Conn] /\ generation' \in Nat /\ record' \in Doc
<1>1. [kind |-> "state", gen |-> generation + 1, doc |-> doc] \in Message
  BY DEF Message
<1>2. ASSUME NEW r \in Runs
      PROVE  Broadcast(connections, doc)[r] \in Conn
  <2>1. connections[r] \in Conn
    BY <1>2
  <2>2. Append(connections[r].down, [kind |-> "state", gen |-> generation + 1, doc |-> doc])
            \in Seq(Message)
    BY <1>1, <2>1, ConnParts, QueueParts
  <2> QED BY <2>1, <2>2, ConnParts DEF Broadcast
<1> QED BY <1>2 DEF Accept, Broadcast

LEMMA ServiceTypes ==
    ASSUME TypeInv, NEW r \in Runs, Service(r) \/ RefusePut(r) \/ Break(r)
    PROVE  TypeInv'
<1> DEFINE c == conn[r]
<1>0. /\ c \in Conn /\ c.up \in Seq(PutMsg) /\ c.down \in Seq(Message)
      /\ conn \in [Runs -> Conn] /\ generation \in Nat /\ record \in Doc
  BY ConnParts DEF TypeInv
<1>1. CASE Greet(r)
  <2> DEFINE m == [kind |-> "state", gen |-> c.greeting.gen, doc |-> c.greeting.doc]
             d == [[c EXCEPT !.phase = "greeted"] EXCEPT !.down = Append(c.down, m)]
  <2>1. m \in Message
    BY <1>0, ConnParts DEF Message
  <2>2. Append(c.down, m) \in Seq(Message)
    BY <1>0, <2>1, QueueParts
  <2>3. d \in Conn
    <3> HIDE DEF m, c
    <3>1. [c EXCEPT !.phase = "greeted"] \in Conn
      BY <1>0, ConnParts DEF Phases
    <3> QED BY <2>2, <3>1, ConnParts
  <2>4. conn' = [conn EXCEPT ![r] = d]
    BY <1>0, <1>1 DEF Greet, Conn
  <2> HIDE DEF d
  <2>5. conn' \in [Runs -> Conn]
    BY <1>0, <2>3, <2>4
  <2> QED BY <1>1, <2>5 DEF TypeInv, Greet, service, clients, history
<1>2. CASE Put(r)
  <2> DEFINE put == Head(c.up)
             d == [c EXCEPT !.up = Tail(c.up)]
             popped == [conn EXCEPT ![r] = d]
  <2>1. put \in PutMsg /\ Tail(c.up) \in Seq(PutMsg)
    BY <1>0, <1>2, QueueParts DEF Put
  <2>2. d \in Conn
    BY <1>0, <2>1, ConnParts
  <2>3. popped \in [Runs -> Conn] /\ popped = [conn EXCEPT ![r].up = Tail(@)] /\ popped[r] = d
    BY <1>0, <2>2
  <2>4. put.doc \in Doc
    BY <2>1 DEF PutMsg
  <2>5. /\ \/ Accept(popped, put.doc)
           \/ /\ conn' = [popped EXCEPT ![r].down = Append(@, State)]
              /\ UNCHANGED <<generation, record>>
        /\ UNCHANGED <<stray, clients, history, bounds>>
    BY <1>2, <2>3 DEF Put
  <2>6. State \in Message
    BY <1>0 DEF State, Message
  <2> HIDE DEF put, popped, d
  <2>7. conn' \in [Runs -> Conn] /\ generation' \in Nat /\ record' \in Doc
    <3>1. CASE Accept(popped, put.doc)
      BY <1>0, <2>3, <2>4, <3>1, AcceptType
    <3>2. CASE conn' = [popped EXCEPT ![r].down = Append(@, State)] /\ UNCHANGED <<generation, record>>
      <4>1. Append(d.down, State) \in Seq(Message)
        BY <2>2, <2>6, ConnParts, QueueParts
      <4>2. [d EXCEPT !.down = Append(d.down, State)] \in Conn
        BY <2>2, <4>1, ConnParts
      <4>3. conn' = [popped EXCEPT ![r] = [d EXCEPT !.down = Append(d.down, State)]]
        BY <2>3, <3>2
      <4> QED BY <1>0, <2>3, <3>2, <4>2, <4>3
    <3> QED BY <2>5, <3>1, <3>2
  <2> QED BY <2>5, <2>7 DEF TypeInv, clients, history
<1>3. CASE RefusePut(r)
  <2> DEFINE m == [kind |-> "error", gen |-> 0, doc |-> NoDoc]
             d == [[c EXCEPT !.up = Tail(c.up)] EXCEPT !.down = Append(c.down, m)]
  <2>1. m \in Message
    BY NoDocType DEF Message
  <2>2. Tail(c.up) \in Seq(PutMsg) /\ Append(c.down, m) \in Seq(Message)
    BY <1>0, <1>3, <2>1, QueueParts DEF RefusePut
  <2>3. d \in Conn
    <3> HIDE DEF m, c
    <3>1. [c EXCEPT !.up = Tail(c.up)] \in Conn
      BY <1>0, <2>2, ConnParts
    <3> QED BY <2>2, <3>1, ConnParts
  <2>4. conn' = [conn EXCEPT ![r] = d]
    BY <1>0, <1>3 DEF RefusePut, Conn
  <2> HIDE DEF d
  <2>5. conn' \in [Runs -> Conn]
    BY <1>0, <2>3, <2>4
  <2> QED BY <1>3, <2>5 DEF TypeInv, RefusePut, service, clients, history
<1>4. CASE Break(r)
  <2>1. [NoConn EXCEPT !.phase = "broken"] \in Conn
    BY DefaultTypes, ConnParts DEF Phases
  <2>2. {c.up[i] : i \in 1..Len(c.up)} \subseteq PutMsg
    BY <1>0, QueueParts
  <2>3. conn' \in [Runs -> Conn] /\ stray' \subseteq PutMsg
    BY <1>0, <1>4, <2>1, <2>2 DEF TypeInv, Break
  <2> QED BY <1>4, <2>3 DEF TypeInv, Break, clients, history
<1> QED BY <1>1, <1>2, <1>3, <1>4 DEF Service

LEMMA StrayTypes ==
    ASSUME TypeInv, StrayPut
    PROVE  TypeInv'
<1>1. PICK put \in stray : /\ stray' = stray \ {put}
                           /\ \/ put.base = generation /\ Accept(conn, put.doc)
                              \/ UNCHANGED <<generation, record, conn>>
  BY DEF StrayPut
<1>2. put.doc \in Doc
  BY DEF TypeInv, PutMsg
<1>3. conn' \in [Runs -> Conn] /\ generation' \in Nat /\ record' \in Doc
  BY <1>1, <1>2, AcceptType DEF TypeInv
<1> QED BY <1>1, <1>3 DEF TypeInv, StrayPut, clients, history

LEMMA ReaderTypes ==
    ASSUME TypeInv, NEW r \in Runs, Reader(r)
    PROVE  TypeInv'
<1> DEFINE c == conn[r]
           n == session[r]
<1>0. /\ c \in Conn /\ c.down \in Seq(Message) /\ conn \in [Runs -> Conn]
      /\ n \in Session /\ session \in [Runs -> Session] /\ workspace[r] \in Doc
  BY ConnParts DEF TypeInv
\* A message is taken from the connection.
<1>1. ASSUME c.down # << >>
      PROVE  /\ Head(c.down) \in Message /\ Head(c.down).gen \in Nat /\ Head(c.down).doc \in Doc
             /\ [conn EXCEPT ![r].down = Tail(@)] \in [Runs -> Conn]
  <2>1. Head(c.down) \in Message /\ Tail(c.down) \in Seq(Message)
    BY <1>0, <1>1, QueueParts
  <2>2. [c EXCEPT !.down = Tail(c.down)] \in Conn
    BY <1>0, <2>1, ConnParts
  <2> QED BY <1>0, <2>1, <2>2 DEF Message
\* An event is handed over.
<1>2. ASSUME NEW e \in Event, Emitted(r, e)
      PROVE  session' \in [Runs -> Session]
  <2> DEFINE d == [[n EXCEPT !.events = Append(n.events, e)] EXCEPT !.reader = NoReader]
  <2>1. Append(n.events, e) \in Seq(Event) /\ NoReader \in ReaderState
    BY <1>0, <1>2, SessionParts, QueueParts, NoDocType DEF NoReader, ReaderState
  <2>2. d \in Session
    <3> HIDE DEF n
    <3>1. [n EXCEPT !.events = Append(n.events, e)] \in Session
      BY <1>0, <2>1, SessionParts
    <3> QED BY <2>1, <3>1, SessionParts
  <2>3. session' = [session EXCEPT ![r] = d]
    BY <1>0, <1>2 DEF Emitted, Session
  <2> HIDE DEF d
  <2> QED BY <1>0, <2>2, <2>3
<1>3. CASE Read(r)
  <2> DEFINE m == Head(c.down)
             d == [[n EXCEPT !.gen = m.gen] EXCEPT !.reader = [stage |-> "compare", doc |-> m.doc]]
  <2>1. m.gen \in Nat /\ m.doc \in Doc /\ conn' \in [Runs -> Conn]
    BY <1>1, <1>3 DEF Read
  <2>2. d \in Session
    <3> HIDE DEF m, n
    <3>1. [n EXCEPT !.gen = m.gen] \in Session /\ [stage |-> "compare", doc |-> m.doc] \in ReaderState
      BY <1>0, <2>1, SessionParts DEF ReaderState
    <3> QED BY <3>1, SessionParts
  <2>3. session' = session \/ session' = [session EXCEPT ![r] = d]
    BY <1>0, <1>3 DEF Read, Session
  <2> HIDE DEF d
  <2>4. session' \in [Runs -> Session]
    BY <1>0, <2>2, <2>3
  <2> QED BY <1>3, <2>1, <2>4 DEF TypeInv, Read, service, history
<1>4. CASE ReadError(r)
  <2>1. [kind |-> "error", doc |-> NoDoc] \in Event
    BY NoDocType DEF Event
  <2>2. session' \in [Runs -> Session] /\ conn' \in [Runs -> Conn]
    BY <1>1, <1>2, <1>4, <2>1 DEF ReadError
  <2> QED BY <1>4, <2>2 DEF TypeInv, ReadError, service, history
<1>5. CASE Compare(r)
  <2> DEFINE doc == n.reader.doc
  <2>1. /\ doc \in Doc /\ [kind |-> "update", doc |-> doc] \in Event
        /\ [kind |-> "ack", doc |-> doc] \in Event
    BY <1>0, SessionParts DEF Event
  <2>2. \/ Emitted(r, [kind |-> "update", doc |-> doc])
        \/ Emitted(r, [kind |-> "ack", doc |-> doc])
        \/ session' = [session EXCEPT ![r].reader = [stage |-> "publish", doc |-> workspace[r]]]
        \/ session' = [session EXCEPT ![r].reader = NoReader]
    BY <1>5 DEF Compare
  <2>3. [stage |-> "publish", doc |-> workspace[r]] \in ReaderState /\ NoReader \in ReaderState
    BY <1>0, NoDocType DEF NoReader, ReaderState
  <2>4. \A x \in ReaderState : [session EXCEPT ![r].reader = x] \in [Runs -> Session]
    BY <1>0, SessionParts
  <2>5. session' \in [Runs -> Session]
    BY <1>2, <2>1, <2>2, <2>3, <2>4
  <2> QED BY <1>5, <2>5 DEF TypeInv, Compare, service, history
<1>6. CASE Republish(r)
  <2>1. PutOf(r, n.reader.doc) \in PutMsg /\ NoReader \in ReaderState
    BY <1>0, SessionParts, NoDocType DEF PutOf, PutMsg, NoReader, ReaderState
  <2>2. session' \in [Runs -> Session]
    BY <1>0, <1>6, <2>1, SessionParts DEF Republish
  <2>3. Append(c.up, PutOf(r, n.reader.doc)) \in Seq(PutMsg)
    BY <1>0, <2>1, ConnParts, QueueParts
  <2>4. [c EXCEPT !.up = Append(c.up, PutOf(r, n.reader.doc))] \in Conn
    BY <1>0, <2>3, ConnParts
  <2>5. conn' \in [Runs -> Conn]
    BY <1>0, <1>6, <2>4 DEF Republish
  <2> QED BY <1>6, <2>2, <2>5 DEF TypeInv, Republish, service, history
<1> QED BY <1>3, <1>4, <1>5, <1>6 DEF Reader

LEMMA StoreParts ==
    ASSUME NEW st \in StoreState
    PROVE  /\ st.id \in Nat /\ st.running \in BOOLEAN /\ st.shown \in Doc /\ st.session \in Nat
           /\ Ended(st) \in StoreState /\ ~Ended(st).running /\ Ended(st).id = st.id
           /\ Ended(st).shown = st.shown
           /\ \A x \in Doc : [st EXCEPT !.shown = x] \in StoreState
           /\ \A x \in BOOLEAN : /\ [st EXCEPT !.connected = x] \in StoreState
                                 /\ [st EXCEPT !.synced = x] \in StoreState
           /\ \A x \in Nat : /\ [st EXCEPT !.pending = x] \in StoreState
                             /\ [st EXCEPT !.session = x] \in StoreState
  BY DEF StoreState, Ended

LEMMA RetryTypes ==
    ASSUME TypeInv, NEW r \in Runs, Retry(r)
    PROVE  /\ run' \in [Runs -> RunState] /\ session' \in [Runs -> Session]
           /\ conn' \in [Runs -> Conn] /\ stray' \subseteq PutMsg
           /\ \E st \in StoreState : /\ store' = [store EXCEPT ![Store(r)] = st]
                                     /\ st.id = store[Store(r)].id /\ st.shown = store[Store(r)].shown
                                     /\ st.running => store[Store(r)].running
<1> DEFINE s == Store(r)
           a == [[[store[s] EXCEPT !.connected = FALSE] EXCEPT !.synced = FALSE] EXCEPT !.session = 0]
<1>0. /\ s \in Stores /\ store[s] \in StoreState /\ store \in [Stores -> StoreState]
      /\ run[r] \in RunState /\ run[r].attempt \in Nat
  BY RunFacts DEF TypeInv, RunState
<1>1. conn' \in [Runs -> Conn] /\ stray' \subseteq PutMsg
  BY ClosedType DEF Retry
<1>2. session' \in [Runs -> Session]
  BY DefaultTypes DEF TypeInv, Retry
<1>3. run' \in [Runs -> RunState]
  <2>1. [stage |-> "connect", attempt |-> run[r].attempt + 1] \in RunState
    BY <1>0 DEF RunState
  <2>2. [run[r] EXCEPT !.stage = "done"] \in RunState
    BY <1>0 DEF RunState
  <2> QED BY <2>1, <2>2 DEF TypeInv, Retry
<1>4. CASE run[r].attempt < Attempts
  <2>1. a \in StoreState
    <3>1. [store[s] EXCEPT !.connected = FALSE] \in StoreState
      BY <1>0, StoreParts
    <3>2. [[store[s] EXCEPT !.connected = FALSE] EXCEPT !.synced = FALSE] \in StoreState
      BY <3>1, StoreParts
    <3> QED BY <3>2, StoreParts
  <2>2. a.id = store[s].id /\ a.shown = store[s].shown /\ a.running = store[s].running
    BY <1>0 DEF StoreState
  <2>3. store' = [store EXCEPT ![s] = a]
    BY <1>0, <1>4 DEF Retry, StoreState
  <2> HIDE DEF a
  <2> QED BY <1>1, <1>2, <1>3, <2>1, <2>2, <2>3
<1>5. CASE ~(run[r].attempt < Attempts)
  <2>1. store' = [store EXCEPT ![s] = Ended(store[s])]
    BY <1>5 DEF Retry
  <2> QED BY <1>0, <1>1, <1>2, <1>3, <2>1, StoreParts
<1> QED BY <1>4, <1>5

LEMMA GoroutineTypes ==
    ASSUME TypeInv, NEW r \in Runs, Goroutine(r)
    PROVE  TypeInv'
<1> DEFINE c == conn[r]
           n == session[r]
           s == Store(r)
           st == store[s]
<1>0. /\ c \in Conn /\ c.down \in Seq(Message) /\ c.up \in Seq(PutMsg) /\ conn \in [Runs -> Conn]
      /\ n \in Session /\ session \in [Runs -> Session]
      /\ n.initial \in Doc /\ n.events \in Seq(Event)
      /\ workspace[r] \in Doc /\ workspace \in [Runs -> Doc]
      /\ s \in Stores /\ st \in StoreState /\ store \in [Stores -> StoreState]
      /\ run \in [Runs -> RunState] /\ run[r] \in RunState
  BY ConnParts, SessionParts, RunFacts DEF TypeInv
<1>1. \A x \in {"open", "sync", "saving", "synced", "receive", "done"} :
        [run EXCEPT ![r].stage = x] \in [Runs -> RunState]
  BY <1>0 DEF RunState
<1>2. CASE Dial(r)
  <2>1. [NoConn EXCEPT !.phase = "joined", !.greeting = [gen |-> generation, doc |-> record]] \in Conn
    BY DefaultTypes DEF TypeInv, Conn, Phases
  <2>2. conn' \in [Runs -> Conn] /\ run' \in [Runs -> RunState]
    BY <1>0, <1>1, <1>2, <2>1 DEF Dial, Joins
  <2> QED BY <1>2, <2>2 DEF TypeInv, Dial, service, history
<1>3. CASE Open(r)
  <2> DEFINE m == Head(c.down)
             d == [NoSession EXCEPT !.gen = m.gen, !.initial = m.doc]
  <2>1. m \in Message /\ Tail(c.down) \in Seq(Message)
    BY <1>0, <1>3, QueueParts DEF Open
  <2>2. m.gen \in Nat /\ m.doc \in Doc
    BY <2>1 DEF Message
  <2>3. d \in Session
    BY <2>2, DefaultTypes DEF Session
  <2>4. [c EXCEPT !.down = Tail(c.down)] \in Conn
    BY <1>0, <2>1, ConnParts
  <2>5. /\ session' = [session EXCEPT ![r] = d]
        /\ conn' = [conn EXCEPT ![r] = [c EXCEPT !.down = Tail(c.down)]]
        /\ run' \in [Runs -> RunState]
    BY <1>0, <1>1, <1>3 DEF Open
  <2> HIDE DEF d
  <2>6. session' \in [Runs -> Session] /\ conn' \in [Runs -> Conn]
    BY <1>0, <2>3, <2>4, <2>5
  <2> QED BY <1>3, <2>5, <2>6 DEF TypeInv, Open, service, history
<1>4. CASE Sync(r)
  <2> DEFINE current == Applied(workspace[r], n.initial)
  <2>1. current \in Doc /\ workspace' = [workspace EXCEPT ![r] = current]
    BY <1>0, <1>4, AppliedGrows DEF Sync
  <2> HIDE DEF current
  <2>2. PutOf(r, current) \in PutMsg
    BY <1>0, <2>1, SessionParts DEF PutOf, PutMsg
  <2>3. Append(c.up, PutOf(r, current)) \in Seq(PutMsg)
    BY <1>0, <2>2, QueueParts
  <2>4. [c EXCEPT !.up = Append(c.up, PutOf(r, current))] \in Conn
    BY <1>0, <2>3, ConnParts
  <2>5. \/ conn' = conn
        \/ conn' = [conn EXCEPT ![r] = [c EXCEPT !.up = Append(c.up, PutOf(r, current))]]
    BY <1>0, <1>4 DEF Sync, current
  <2>6. conn' \in [Runs -> Conn]
    BY <1>0, <2>4, <2>5
  <2>7. session' \in [Runs -> Session] /\ run' \in [Runs -> RunState]
    BY <1>0, <1>1, <1>4, SessionParts, NoDocType DEF Sync
  <2> QED BY <1>0, <1>4, <2>1, <2>6, <2>7 DEF TypeInv, Sync, service, history
<1>5. CASE SaveSynced(r)
  BY <1>0, <1>1, <1>5 DEF TypeInv, SaveSynced, service
<1>6. CASE Connected(r)
  <2>1. run' \in [Runs -> RunState]
    BY <1>1, <1>6 DEF Connected
  <2>2. conn' \in [Runs -> Conn] /\ stray' \subseteq PutMsg
    BY <1>6, ClosedType DEF TypeInv, Connected
  <2>3. store' \in [Stores -> StoreState]
    <3>1. CASE Current(r)
      <4> DEFINE d == [st EXCEPT !.connected = TRUE, !.synced = TRUE, !.pending = 0,
                                 !.shown = workspace[r], !.session = run[r].attempt]
      <4>1. run[r].attempt \in Nat
        BY <1>0 DEF RunState
      <4>2. d \in StoreState
        BY <1>0, <4>1 DEF StoreState
      <4>3. store' = [store EXCEPT ![s] = d]
        BY <1>6, <3>1 DEF Connected
      <4> QED BY <1>0, <4>2, <4>3
    <3>2. CASE ~Current(r)
      BY <1>0, <1>6, <3>2 DEF Connected
    <3> QED BY <3>1, <3>2
  <2> QED BY <1>6, <2>1, <2>2, <2>3 DEF TypeInv, Connected, history
\* An event is taken from the session.
<1>7. ASSUME n.events # << >>
      PROVE  /\ Head(n.events).doc \in Doc
             /\ [session EXCEPT ![r].events = Tail(@)] \in [Runs -> Session]
  <2>1. Head(n.events) \in Event /\ Tail(n.events) \in Seq(Event)
    BY <1>0, <1>7, QueueParts
  <2>2. [n EXCEPT !.events = Tail(n.events)] \in Session
    BY <1>0, <2>1, SessionParts
  <2> QED BY <1>0, <2>1, <2>2 DEF Event
<1>8. CASE HandleUpdate(r)
  <2> DEFINE doc == Head(n.events).doc
  <2>1. doc \in Doc /\ session' \in [Runs -> Session]
    BY <1>7, <1>8 DEF HandleUpdate, Handles
  <2>2. Applied(workspace[r], doc) \in Doc
    BY <1>0, <2>1, AppliedGrows
  <2>3. ShownRemote(r, doc) \in StoreState
    BY <1>0, <2>1 DEF ShownRemote, StoreState
  <2>4. /\ workspace' = [workspace EXCEPT ![r] = Applied(workspace[r], doc)]
        /\ draft' = draft \/ draft' = [draft EXCEPT ![s] = doc]
        /\ store' = [store EXCEPT ![s] = ShownRemote(r, doc)]
    BY <1>8 DEF HandleUpdate
  <2> HIDE DEF doc
  <2>5. workspace' \in [Runs -> Doc] /\ draft' \in [Stores -> Doc] /\ store' \in [Stores -> StoreState]
    BY <1>0, <2>1, <2>2, <2>3, <2>4 DEF TypeInv
  <2> QED BY <1>8, <2>1, <2>5 DEF TypeInv, HandleUpdate, service, history
<1>9. CASE HandleAck(r)
  <2>1. session' \in [Runs -> Session]
    BY <1>7, <1>9 DEF HandleAck, Handles
  <2>2. [st EXCEPT !.pending = 0, !.synced = TRUE] \in StoreState
    BY <1>0 DEF StoreState
  <2>3. store' = store \/ store' = [store EXCEPT ![s] = [st EXCEPT !.pending = 0, !.synced = TRUE]]
    BY <1>0, <1>9 DEF HandleAck, StoreState
  <2>4. store' \in [Stores -> StoreState]
    BY <1>0, <2>2, <2>3
  <2> QED BY <1>9, <2>1, <2>4 DEF TypeInv, HandleAck, service, history
<1>10. CASE HandleError(r)
  <2>1. store' \in [Stores -> StoreState]
    BY <1>0, <1>10, StoreParts DEF HandleError
  <2>2. conn' \in [Runs -> Conn] /\ stray' \subseteq PutMsg /\ run' \in [Runs -> RunState]
    BY <1>1, <1>10, ClosedType DEF HandleError
  <2> QED BY <1>10, <2>1, <2>2 DEF TypeInv, HandleError, history
<1>11. CASE Lost(r)
  <2>1. PICK x \in StoreState : store' = [store EXCEPT ![s] = x]
    BY <1>11, RetryTypes DEF Lost
  <2>2. store' \in [Stores -> StoreState]
    BY <1>0, <2>1
  <2> QED BY <1>11, <2>2, RetryTypes DEF TypeInv, Lost, history
<1>12. CASE RunEnds(r)
  <2>1. session' \in [Runs -> Session] /\ run' \in [Runs -> RunState]
    BY <1>0, <1>1, <1>12, DefaultTypes DEF RunEnds
  <2>2. conn' \in [Runs -> Conn] /\ stray' \subseteq PutMsg
    BY <1>12, ClosedType DEF RunEnds
  <2> QED BY <1>12, <2>1, <2>2 DEF TypeInv, RunEnds, history
<1> QED BY <1>2, <1>3, <1>4, <1>5, <1>6, <1>8, <1>9, <1>10, <1>11, <1>12 DEF Goroutine

\* The run of a store that runs, and the run of a publish.
LEMMA RunOfStore ==
    ASSUME TypeInv, IdInv, PubInv, NEW s \in Stores
    PROVE  /\ store[s].running => <<s, store[s].id>> \in Runs
           /\ pub[s].stage # "idle" => <<s, pub[s].id>> \in Runs /\ pub[s].id <= store[s].id
<1>1. store[s].id \in 0..Starts(s) /\ (store[s].running => store[s].id >= 1) /\ Starts(s) \in Nat
  BY DEF IdInv, Starts
<1>2. pub[s].stage # "idle" => pub[s].id \in 1..store[s].id
  BY DEF PubInv
<1>3. store[s].running => store[s].id \in 1..Starts(s)
  BY <1>1
<1>4. pub[s].stage # "idle" => pub[s].id \in 1..Starts(s) /\ pub[s].id <= store[s].id
  BY <1>1, <1>2
<1> QED BY <1>3, <1>4, RunOf

LEMMA PublishingTypes ==
    ASSUME TypeInv, IdInv, PubInv, NEW s \in Stores, Publishing(s)
    PROVE  TypeInv'
<1>0. /\ pub[s] \in PubState /\ pub \in [Stores -> PubState] /\ pub[s].doc \in Doc
      /\ store[s] \in StoreState /\ store \in [Stores -> StoreState]
      /\ conn \in [Runs -> Conn]
  BY DEF TypeInv, PubState
<1>1. CASE SaveDraft(s)
  <2>1. [pub[s] EXCEPT !.stage = "send"] \in PubState
    BY <1>0 DEF PubState
  <2>2. pub' \in [Stores -> PubState] /\ draft' \in [Stores -> Doc]
    BY <1>0, <1>1, <2>1 DEF TypeInv, SaveDraft
  <2> QED BY <1>1, <2>2 DEF TypeInv, SaveDraft, service, history
<1>2. CASE Publish(s)
  <2> DEFINE r == <<s, pub[s].id>>
             c == conn[r]
             d == [store[s] EXCEPT !.shown = pub[s].doc, !.synced = FALSE, !.pending = pub[s].doc.rev]
             up == Append(c.up, PutOf(r, pub[s].doc))
  <2>1. r \in Runs /\ c \in Conn /\ session[r] \in Session
    BY <1>2, RunOfStore DEF TypeInv, Publish
  <2>2. d \in StoreState
    <3>1. pub[s].doc.rev \in Nat
      BY <1>0 DEF Doc
    <3> QED BY <1>0, <3>1 DEF StoreState
  <2>3. [c EXCEPT !.phase = "closed"] \in Conn
    BY <2>1, ConnParts DEF Phases
  <2>4. [c EXCEPT !.up = up] \in Conn
    <3>1. PutOf(r, pub[s].doc) \in PutMsg
      BY <1>0, <2>1, SessionParts DEF PutOf, PutMsg
    <3>2. up \in Seq(PutMsg)
      BY <2>1, <3>1, ConnParts, QueueParts
    <3> HIDE DEF up, c, r
    <3> QED BY <2>1, <3>2, ConnParts
  <2>5. /\ store' = store \/ store' = [store EXCEPT ![s] = d]
        /\ kept' = kept \/ kept' = [kept EXCEPT ![s] = pub[s].doc]
        /\ \/ conn' = conn
           \/ conn' = [conn EXCEPT ![r] = [c EXCEPT !.phase = "closed"]]
           \/ conn' = [conn EXCEPT ![r] = [c EXCEPT !.up = up]]
        /\ pub' = [pub EXCEPT ![s] = NoPub]
    BY <1>2, <2>1 DEF Publish
  <2> HIDE DEF r, c, d, up
  <2>6. store' \in [Stores -> StoreState] /\ conn' \in [Runs -> Conn]
    BY <1>0, <2>1, <2>2, <2>3, <2>4, <2>5
  <2>7. kept' \in [Stores -> Doc] /\ pub' \in [Stores -> PubState]
    BY <1>0, <2>5, DefaultTypes DEF TypeInv
  <2> QED BY <1>2, <2>6, <2>7 DEF TypeInv, Publish, service
<1>3. CASE CheckDraft(s)
  <2>1. \A x \in {"save", "send"} : [pub[s] EXCEPT !.stage = x] \in PubState
    BY <1>0 DEF PubState
  <2>2. pub' \in [Stores -> PubState]
    BY <1>0, <1>3, <2>1 DEF CheckDraft
  <2> QED BY <1>3, <2>2 DEF TypeInv, CheckDraft, service, history
<1> QED BY <1>1, <1>2, <1>3 DEF Publishing

LEMMA UserTypes ==
    ASSUME TypeInv, IdInv, PubInv, NEW s \in Stores, User(s)
    PROVE  TypeInv'
<1> DEFINE st == store[s]
           r == <<s, st.id>>
<1>0. /\ st \in StoreState /\ store \in [Stores -> StoreState] /\ draft[s] \in Doc
      /\ pub \in [Stores -> PubState] /\ conn \in [Runs -> Conn] /\ workspace \in [Runs -> Doc]
  BY DEF TypeInv
<1>1. CASE Start(s)
  <2> DEFINE id == st.id + 1
             d == [NewStore EXCEPT !.id = id, !.running = TRUE, !.shown = draft[s]]
  <2>1. id \in Nat
    BY <1>0, StoreParts
  <2>2. d \in StoreState
    BY <1>0, <2>1, DefaultTypes DEF StoreState
  <2>3. [stage |-> "connect", attempt |-> 1] \in RunState
    BY DEF RunState
  <2>4. /\ store' = [store EXCEPT ![s] = d]
        /\ workspace' = [workspace EXCEPT ![<<s, id>>] = draft[s]]
        /\ run' = [run EXCEPT ![<<s, id>>] = [stage |-> "connect", attempt |-> 1]]
    BY <1>1 DEF Start
  <2> HIDE DEF d, id
  <2>5. /\ store' \in [Stores -> StoreState] /\ workspace' \in [Runs -> Doc]
        /\ run' \in [Runs -> RunState]
    BY <1>0, <2>2, <2>3, <2>4 DEF TypeInv
  <2> QED BY <1>1, <2>5 DEF TypeInv, Start, service, history
<1>2. CASE Leave(s)
  <2>1. r \in Runs
    BY <1>2, RunOfStore DEF Leave
  <2>2. conn' \in [Runs -> Conn] /\ stray' \subseteq PutMsg
    BY <1>2, <2>1, ClosedType DEF TypeInv, Leave
  <2>3. store' \in [Stores -> StoreState]
    BY <1>0, <1>2, StoreParts DEF Leave
  <2> QED BY <1>2, <2>2, <2>3 DEF TypeInv, Leave, history
<1>3. ASSUME NEW text \in Texts, NEW now \in Clock, Edit(s, text, now)
      PROVE  TypeInv'
  <2> DEFINE doc == Updated(workspace[r], text, now)
             d == [stage |-> "draft", id |-> st.id, session |-> st.session, doc |-> doc]
  <2>1. r \in Runs
    BY <1>3, RunOfStore DEF Edit
  <2>2. doc \in Doc
    BY <1>0, <2>1, UpdatedGrows
  <2>3. /\ workspace' = [workspace EXCEPT ![r] = doc]
        /\ pub' = [pub EXCEPT ![s] = d]
    BY <1>3 DEF Edit
  <2> HIDE DEF doc
  <2>4. d \in PubState
    BY <1>0, <2>2, StoreParts DEF PubState
  <2> HIDE DEF d
  <2>5. workspace' \in [Runs -> Doc] /\ pub' \in [Stores -> PubState]
    BY <1>0, <2>2, <2>3, <2>4
  <2> QED BY <1>3, <2>5 DEF TypeInv, Edit, service, history
<1>4. ASSUME NEW text \in Texts, NEW now \in Clock, InteractiveEdit(s, text, now)
      PROVE  TypeInv'
  <2> DEFINE doc == Updated(workspace[r], text, now)
             c == conn[r]
             d == [st EXCEPT !.shown = doc, !.pending = doc.rev]
             up == Append(c.up, PutOf(r, doc))
  <2>1. r \in Runs /\ c \in Conn /\ session[r] \in Session
    BY <1>4, RunOfStore DEF TypeInv, InteractiveEdit
  <2>2. doc \in Doc
    BY <1>0, <2>1, UpdatedGrows
  <2>3. /\ workspace' = [workspace EXCEPT ![r] = doc]
        /\ draft' = [draft EXCEPT ![s] = doc]
        /\ store' = [store EXCEPT ![s] = d]
        /\ kept' = kept \/ kept' = [kept EXCEPT ![s] = doc]
        /\ \/ conn' = [conn EXCEPT ![r] = [c EXCEPT !.phase = "closed"]]
           \/ conn' = [conn EXCEPT ![r] = [c EXCEPT !.up = up]]
    BY <1>4, <2>1 DEF InteractiveEdit
  <2> HIDE DEF doc
  <2>4. d \in StoreState
    <3>1. doc.rev \in Nat
      BY <2>2 DEF Doc
    <3> QED BY <1>0, <2>2, <3>1 DEF StoreState
  <2>5. [c EXCEPT !.phase = "closed"] \in Conn
    BY <2>1, ConnParts DEF Phases
  <2>6. [c EXCEPT !.up = up] \in Conn
    <3>1. PutOf(r, doc) \in PutMsg
      BY <2>1, <2>2, SessionParts DEF PutOf, PutMsg
    <3>2. up \in Seq(PutMsg)
      BY <2>1, <3>1, ConnParts, QueueParts
    <3> HIDE DEF up, c, r
    <3> QED BY <2>1, <3>2, ConnParts
  <2> HIDE DEF c, d, up
  <2>7. /\ store' \in [Stores -> StoreState] /\ conn' \in [Runs -> Conn]
        /\ workspace' \in [Runs -> Doc]
    BY <1>0, <2>1, <2>2, <2>3, <2>4, <2>5, <2>6
  <2>8. draft' \in [Stores -> Doc] /\ kept' \in [Stores -> Doc]
    BY <2>2, <2>3 DEF TypeInv
  <2> QED BY <1>4, <2>7, <2>8 DEF TypeInv, InteractiveEdit, service
<1> QED BY <1>1, <1>2, <1>3, <1>4 DEF User

(***************************************************************************)
(* Steps of the service, the network and the runs.  Workspaces only grow,   *)
(* and a run touches the screen and the draft of its store only with what   *)
(* the workspace of the current run has.                                    *)
(***************************************************************************)

OwnInv == IdInv /\ ShownIsOwn /\ PubInv /\ KeptInv

Grows ==
    /\ \A r \in Runs : UpTo(workspace[r], workspace'[r])
    /\ \A s \in Stores :
        /\ store'[s].id = store[s].id /\ (store'[s].running => store[s].running)
        /\ \/ store'[s].shown = store[s].shown
           \/ store'[s].running => UpTo(store'[s].shown, workspace'[<<s, store[s].id>>])
        /\ \/ draft'[s] = draft[s]
           \/ store[s].running /\ UpTo(workspace[<<s, store[s].id>>], draft'[s])
           \/ s \in overtaken'
    /\ UNCHANGED <<pub, kept>> /\ overtaken \subseteq overtaken'

LEMMA GrowsKeeps ==
    ASSUME TypeInv, TypeInv', OwnInv, Grows
    PROVE  OwnInv'
<1>1. ASSUME NEW s \in Stores
      PROVE  /\ store[s].running => <<s, store[s].id>> \in Runs
             /\ pub[s].stage # "idle" => <<s, pub[s].id>> \in Runs
  BY <1>1, RunOfStore DEF OwnInv
<1>2. ASSUME NEW s \in Stores
      PROVE  /\ store[s].shown \in Doc /\ store'[s].shown \in Doc /\ pub[s].doc \in Doc
             /\ kept[s] \in Doc /\ draft[s] \in Doc /\ draft'[s] \in Doc
             /\ \A r \in Runs : workspace[r] \in Doc /\ workspace'[r] \in Doc
  BY <1>2 DEF TypeInv, StoreState, PubState
<1>3. IdInv'
  BY DEF OwnInv, IdInv, Grows
<1>4. ShownIsOwn'
  <2> SUFFICES ASSUME NEW s \in Stores, store'[s].running
               PROVE  UpTo(store'[s].shown, workspace'[<<s, store'[s].id>>])
    BY DEF ShownIsOwn, UpTo
  <2> DEFINE r == <<s, store[s].id>>
  <2>1. store'[s].id = store[s].id /\ store[s].running /\ r \in Runs
    BY <1>1 DEF Grows
  <2>2. UpTo(store[s].shown, workspace[r])
    BY <2>1 DEF OwnInv, ShownIsOwn, UpTo
  <2>3. UpTo(workspace[r], workspace'[r])
    BY <2>1 DEF Grows
  <2>4. UpTo(store[s].shown, workspace'[r])
    BY <1>2, <2>1, <2>2, <2>3, LaterIsOrder
  <2> QED BY <2>1, <2>4 DEF Grows
<1>5. PubInv'
  <2> SUFFICES ASSUME NEW s \in Stores, pub[s].stage # "idle"
               PROVE  /\ s \notin Interactive
                      /\ pub[s].id \in 1..store'[s].id
                      /\ UpTo(pub[s].doc, workspace'[<<s, pub[s].id>>])
                      /\ s \notin overtaken' => UpTo(kept[s], pub[s].doc)
                      /\ s \notin overtaken' /\ pub[s].stage = "send" /\ store'[s].running
                              /\ store'[s].id = pub[s].id
                          => UpTo(pub[s].doc, draft'[s])
    BY DEF PubInv, Grows
  <2> DEFINE r == <<s, pub[s].id>>
  <2>1. /\ s \notin Interactive /\ pub[s].id \in 1..store[s].id /\ UpTo(pub[s].doc, workspace[r])
        /\ s \notin overtaken => UpTo(kept[s], pub[s].doc)
        /\ s \notin overtaken /\ pub[s].stage = "send" /\ store[s].running
                /\ store[s].id = pub[s].id
            => UpTo(pub[s].doc, draft[s])
    BY DEF OwnInv, PubInv
  <2>2. UpTo(workspace[r], workspace'[r]) /\ r \in Runs
    BY <1>1 DEF Grows
  <2>3. UpTo(pub[s].doc, workspace'[r])
    BY <1>2, <2>1, <2>2, LaterIsOrder
  <2>4. ASSUME s \notin overtaken', pub[s].stage = "send", store'[s].running, store'[s].id = pub[s].id
        PROVE  UpTo(pub[s].doc, draft'[s])
    <3>1. store[s].running /\ store[s].id = pub[s].id /\ s \notin overtaken
      BY <2>4 DEF Grows
    <3>2. UpTo(pub[s].doc, draft[s]) /\ UpTo(pub[s].doc, workspace[<<s, store[s].id>>])
      BY <2>1, <2>4, <3>1
    <3>3. draft'[s] = draft[s] \/ UpTo(workspace[<<s, store[s].id>>], draft'[s])
      BY <2>4 DEF Grows
    <3> QED BY <1>2, <2>2, <3>1, <3>2, <3>3, LaterIsOrder
  <2> QED BY <2>1, <2>3, <2>4 DEF Grows
<1>6. KeptInv'
  <2> SUFFICES ASSUME NEW s \in Stores, s \notin overtaken'
               PROVE  /\ UpTo(kept[s], draft'[s])
                      /\ store'[s].running => UpTo(kept[s], workspace'[<<s, store[s].id>>])
    BY DEF KeptInv, Grows
  <2> DEFINE r == <<s, store[s].id>>
  <2>1. /\ s \notin overtaken /\ UpTo(kept[s], draft[s])
        /\ store[s].running => UpTo(kept[s], workspace[r]) /\ r \in Runs
        /\ store'[s].running => store[s].running
    BY <1>1 DEF OwnInv, KeptInv, Grows
  <2>2. store[s].running => UpTo(kept[s], workspace'[r])
    <3>1. r \in Runs => UpTo(workspace[r], workspace'[r])
      BY DEF Grows
    <3> QED BY <1>2, <2>1, <3>1, LaterIsOrder
  <2>3. draft'[s] = draft[s] \/ (store[s].running /\ UpTo(workspace[r], draft'[s]))
    BY DEF Grows
  <2>4. UpTo(kept[s], draft'[s])
    BY <1>2, <2>1, <2>3, LaterIsOrder
  <2> QED BY <2>1, <2>2, <2>4
<1> QED BY <1>3, <1>4, <1>5, <1>6 DEF OwnInv

LEMMA ReflexiveWorkspace ==
    ASSUME TypeInv
    PROVE  \A r \in Runs : UpTo(workspace[r], workspace[r])
  BY LaterIsOrder DEF TypeInv

LEMMA NothingGrows ==
    ASSUME TypeInv, UNCHANGED <<workspace, store, pub, draft, kept, overtaken>>
    PROVE  Grows
  BY ReflexiveWorkspace DEF Grows

LEMMA ServiceGrows ==
    ASSUME TypeInv, NEW r \in Runs, Service(r) \/ RefusePut(r) \/ Reader(r) \/ Break(r)
    PROVE  Grows
<1>1. UNCHANGED <<workspace, store, pub, draft, kept, overtaken>>
  BY DEF Service, Greet, Put, RefusePut, Reader, Read, ReadError, Compare, Republish, Break,
         clients, history
<1> QED BY <1>1, NothingGrows

LEMMA StrayGrows ==
    ASSUME TypeInv, StrayPut
    PROVE  Grows
<1>1. UNCHANGED <<workspace, store, pub, draft, kept, overtaken>>
  BY DEF StrayPut, clients, history
<1> QED BY <1>1, NothingGrows

\* The store of r gets a new state, with the old document or one the workspace
\* has, and everything else stays.
LEMMA StoreGrows ==
    ASSUME TypeInv, NEW r \in Runs, NEW st \in StoreState,
           store' = [store EXCEPT ![Store(r)] = st],
           st.id = store[Store(r)].id, st.running => store[Store(r)].running,
           \/ st.shown = store[Store(r)].shown
           \/ st.running => UpTo(st.shown, workspace[<<Store(r), st.id>>]),
           UNCHANGED <<workspace, pub, draft, kept, overtaken>>
    PROVE  Grows
<1>1. Store(r) \in Stores /\ store \in [Stores -> StoreState]
  BY RunFacts DEF TypeInv
<1>2. ASSUME NEW s \in Stores
      PROVE  /\ store'[s].id = store[s].id /\ (store'[s].running => store[s].running)
             /\ \/ store'[s].shown = store[s].shown
                \/ store'[s].running => UpTo(store'[s].shown, workspace'[<<s, store[s].id>>])
  <2>1. CASE s = Store(r)
    <3>1. store'[s] = st
      BY <1>1, <2>1
    <3> QED BY <2>1, <3>1
  <2>2. CASE s # Store(r)
    BY <1>1, <2>2
  <2> QED BY <2>1, <2>2
<1> QED BY <1>2, ReflexiveWorkspace DEF Grows

LEMMA GoroutineGrows ==
    ASSUME TypeInv, NEW r \in Runs, Goroutine(r)
    PROVE  Grows
<1> DEFINE s == Store(r)
           st == store[s]
<1>0. /\ s \in Stores /\ r = <<s, r[2]>> /\ st \in StoreState /\ store \in [Stores -> StoreState]
      /\ workspace \in [Runs -> Doc] /\ workspace[r] \in Doc /\ draft \in [Stores -> Doc]
      /\ session[r] \in Session /\ session[r].initial \in Doc
      /\ session[r].events \in Seq(Event)
  BY RunFacts, SessionParts DEF TypeInv
<1>1. Current(r) => st.running /\ r = <<s, st.id>>
  BY <1>0 DEF Current
<1>2. CASE Dial(r) \/ Open(r) \/ RunEnds(r)
  <2>1. UNCHANGED <<workspace, store, pub, draft, kept, overtaken>>
    BY <1>2 DEF Dial, Open, RunEnds, history
  <2> QED BY <2>1, NothingGrows
<1>3. CASE Sync(r)
  <2>1. workspace' = [workspace EXCEPT ![r] = Applied(workspace[r], session[r].initial)]
    BY <1>3 DEF Sync
  <2>2. UpTo(workspace[r], Applied(workspace[r], session[r].initial))
    BY <1>0, AppliedGrows
  <2>3. \A x \in Runs : UpTo(workspace[x], workspace'[x])
    BY <1>0, <2>1, <2>2, ReflexiveWorkspace
  <2> QED BY <1>3, <2>3 DEF Sync, Grows, history
<1>4. CASE SaveSynced(r)
  <2>1. /\ draft' = [draft EXCEPT ![s] = workspace[r]]
        /\ overtaken' = IF Current(r) THEN overtaken ELSE overtaken \cup {s}
        /\ UNCHANGED <<workspace, store, pub, kept>>
    BY <1>4 DEF SaveSynced
  <2>2. Current(r) => st.running /\ UpTo(workspace[<<s, st.id>>], draft'[s])
    BY <1>0, <1>1, <2>1, ReflexiveWorkspace
  <2>3. \A x \in Stores : x # s => draft'[x] = draft[x]
    BY <1>0, <2>1
  <2>4. ~Current(r) => s \in overtaken'
    BY <2>1
  <2>5. overtaken \subseteq overtaken'
    BY <2>1
  <2> HIDE DEF s, st
  <2>6. \A x \in Stores : \/ draft'[x] = draft[x]
                          \/ store[x].running /\ UpTo(workspace[<<x, store[x].id>>], draft'[x])
                          \/ x \in overtaken'
    BY <2>2, <2>3, <2>4 DEF st
  <2> QED BY <2>1, <2>5, <2>6, ReflexiveWorkspace DEF Grows
<1>5. CASE Connected(r)
  <2>1. CASE Current(r)
    <3> DEFINE d == [st EXCEPT !.connected = TRUE, !.synced = TRUE, !.pending = 0,
                               !.shown = workspace[r], !.session = run[r].attempt]
    <3>1. run[r].attempt \in Nat
      BY DEF TypeInv, RunState
    <3>2. /\ d \in StoreState /\ d.id = st.id /\ d.running = st.running /\ d.shown = workspace[r]
      BY <1>0, <3>1 DEF StoreState
    <3>3. store' = [store EXCEPT ![s] = d] /\ UNCHANGED <<workspace, pub, draft, kept, overtaken>>
      BY <1>5, <2>1 DEF Connected, history
    <3>4. UpTo(workspace[r], workspace[<<s, st.id>>])
      BY <1>1, <2>1, ReflexiveWorkspace
    <3> HIDE DEF d
    <3> QED BY <3>2, <3>3, <3>4, StoreGrows
  <2>2. CASE ~Current(r)
    BY <1>5, <2>2, NothingGrows DEF Connected, history
  <2> QED BY <2>1, <2>2
<1>6. CASE HandleUpdate(r)
  <2> DEFINE doc == Head(session[r].events).doc
             ws == Applied(workspace[r], doc)
             d == ShownRemote(r, doc)
  <2>1. doc \in Doc
    <3>1. Head(session[r].events) \in Event
      BY <1>0, <1>6, QueueParts DEF HandleUpdate, Handles
    <3> QED BY <3>1 DEF Event
  <2>2. /\ workspace' = [workspace EXCEPT ![r] = ws]
        /\ draft' = IF Later(doc, workspace[r]) THEN [draft EXCEPT ![s] = doc] ELSE draft
        /\ store' = [store EXCEPT ![s] = d]
        /\ UNCHANGED <<pub, kept, overtaken>> /\ st.running /\ r = <<s, st.id>>
    BY <1>1, <1>6 DEF HandleUpdate, Active, history
  <2>3. ws \in Doc /\ UpTo(workspace[r], ws) /\ ws = IF Later(doc, workspace[r]) THEN doc ELSE workspace[r]
    BY <1>0, <2>1, AppliedGrows DEF Applied
  <2>4. d.id = st.id /\ d.running = st.running /\ d.shown = ws
    BY <1>0, <2>3 DEF ShownRemote, StoreState
  <2> HIDE DEF ws, d, doc
  <2>5. UpTo(ws, ws)
    BY <2>3, LaterIsOrder
  <2>6. workspace'[r] = ws /\ \A x \in Runs : UpTo(workspace[x], workspace'[x])
    BY <1>0, <2>2, <2>3, ReflexiveWorkspace
  <2>7. draft'[s] = draft[s] \/ UpTo(workspace[r], draft'[s])
    BY <1>0, <2>2, <2>3
  <2>8. \A x \in Stores : x # s => draft'[x] = draft[x] /\ store'[x] = store[x]
    BY <1>0, <2>2
  <2>9. store'[s] = d
    BY <1>0, <2>2
  <2>10. ASSUME NEW x \in Stores
         PROVE  /\ store'[x].id = store[x].id /\ (store'[x].running => store[x].running)
                /\ \/ store'[x].shown = store[x].shown
                   \/ store'[x].running => UpTo(store'[x].shown, workspace'[<<x, store[x].id>>])
                /\ \/ draft'[x] = draft[x]
                   \/ store[x].running /\ UpTo(workspace[<<x, store[x].id>>], draft'[x])
    <3>1. CASE x = s
      BY <2>2, <2>4, <2>5, <2>6, <2>7, <2>9, <3>1
    <3>2. CASE x # s
      BY <2>8, <3>2
    <3> QED BY <3>1, <3>2
  <2> QED BY <2>2, <2>6, <2>10 DEF Grows
<1>7. CASE HandleAck(r)
  <2> DEFINE d == [st EXCEPT !.pending = 0, !.synced = TRUE]
  <2>1. d \in StoreState /\ d.id = st.id /\ d.running = st.running /\ d.shown = st.shown
    BY <1>0 DEF StoreState
  <2>2. store' = store \/ store' = [store EXCEPT ![s] = d]
    BY <1>0, <1>7 DEF HandleAck, StoreState
  <2>3. UNCHANGED <<workspace, pub, draft, kept, overtaken>>
    BY <1>7 DEF HandleAck, history
  <2> HIDE DEF d
  <2> QED BY <2>1, <2>2, <2>3, StoreGrows, NothingGrows
<1>8. CASE HandleError(r)
  <2>1. store' = [store EXCEPT ![s] = Ended(st)] /\ UNCHANGED <<workspace, pub, draft, kept, overtaken>>
    BY <1>8 DEF HandleError, history
  <2> QED BY <1>0, <2>1, StoreParts, StoreGrows
<1>9. CASE Lost(r)
  <2>1. PICK d \in StoreState : /\ store' = [store EXCEPT ![s] = d]
                                /\ d.id = st.id /\ d.shown = st.shown /\ (d.running => st.running)
    BY <1>9, RetryTypes DEF Lost
  <2>2. UNCHANGED <<workspace, pub, draft, kept, overtaken>>
    BY <1>9 DEF Lost, history
  <2> QED BY <2>1, <2>2, StoreGrows
<1> QED BY <1>2, <1>3, <1>4, <1>5, <1>6, <1>7, <1>8, <1>9 DEF Goroutine

(***************************************************************************)
(* Steps of the user.  Each is about one store.                             *)
(***************************************************************************)

Own(s) ==
    /\ store[s].id \in 0..Starts(s)
    /\ store[s].running => /\ store[s].id >= 1
                           /\ UpTo(store[s].shown, workspace[<<s, store[s].id>>])
    /\ pub[s].stage # "idle" =>
        /\ s \notin Interactive
        /\ pub[s].id \in 1..store[s].id
        /\ UpTo(pub[s].doc, workspace[<<s, pub[s].id>>])
        /\ s \notin overtaken => UpTo(kept[s], pub[s].doc)
        /\ s \notin overtaken /\ pub[s].stage = "send" /\ store[s].running
                /\ store[s].id = pub[s].id
            => UpTo(pub[s].doc, draft[s])
    /\ s \notin overtaken =>
        /\ UpTo(kept[s], draft[s])
        /\ store[s].running => UpTo(kept[s], workspace[<<s, store[s].id>>])

LEMMA OwnEach == ASSUME OwnInv, NEW s \in Stores PROVE Own(s)
  BY DEF OwnInv, Own, IdInv, ShownIsOwn, PubInv, KeptInv, UpTo

\* A step that touches nothing of the other stores is right if it is right for
\* its own.
LEMMA OneStore ==
    ASSUME TypeInv, OwnInv, NEW s \in Stores, Own(s)',
           \A x \in Stores : x # s => /\ store'[x] = store[x] /\ pub'[x] = pub[x]
                                      /\ draft'[x] = draft[x] /\ kept'[x] = kept[x],
           \A r \in Runs : Store(r) # s => workspace'[r] = workspace[r],
           overtaken' = overtaken
    PROVE  OwnInv'
<1>1. ASSUME NEW x \in Stores PROVE Own(x)'
  <2>1. CASE x = s
    BY <2>1
  <2>2. CASE x # s
    <3>1. /\ Own(x)
          /\ store[x].running => <<x, store[x].id>> \in Runs
          /\ pub[x].stage # "idle" => <<x, pub[x].id>> \in Runs
      BY OwnEach, RunOfStore DEF OwnInv
    <3>2. \A k : <<x, k>> \in Runs => workspace'[<<x, k>>] = workspace[<<x, k>>]
      BY <2>2 DEF Store
    <3> QED BY <2>2, <3>1, <3>2 DEF Own
  <2> QED BY <2>1, <2>2
<1> QED BY <1>1 DEF OwnInv, Own, IdInv, ShownIsOwn, PubInv, KeptInv, UpTo

\* The workspaces of the other stores and of other runs.
LEMMA OtherRuns ==
    ASSUME TypeInv, NEW s, NEW id, NEW doc, workspace' = [workspace EXCEPT ![<<s, id>>] = doc]
    PROVE  /\ \A r \in Runs : Store(r) # s => workspace'[r] = workspace[r]
           /\ \A k : k # id /\ <<s, k>> \in Runs => workspace'[<<s, k>>] = workspace[<<s, k>>]
           /\ <<s, id>> \in Runs => workspace'[<<s, id>>] = doc
  BY DEF TypeInv, Store

LEMMA StartKeeps ==
    ASSUME TypeInv, OwnInv, NEW s \in Stores, Start(s)
    PROVE  OwnInv'
<1> DEFINE id == store[s].id + 1
           d == [NewStore EXCEPT !.id = id, !.running = TRUE, !.shown = draft[s]]
<1>1. /\ store \in [Stores -> StoreState] /\ store[s].id \in Nat /\ draft[s] \in Doc
      /\ Own(s) /\ Starts(s) \in Nat
  BY OwnEach, StoreParts DEF TypeInv, Starts
<1>2. /\ store' = [store EXCEPT ![s] = d] /\ workspace' = [workspace EXCEPT ![<<s, id>>] = draft[s]]
      /\ UNCHANGED <<pub, draft, kept, overtaken>> /\ id <= Starts(s)
  BY <1>1 DEF Start, history
<1>3. id \in 1..Starts(s) /\ <<s, id>> \in Runs
  BY <1>1, <1>2, RunOf
<1>4. d.id = id /\ d.running /\ d.shown = draft[s]
  BY DEF NewStore
<1> HIDE DEF d
<1>5. store'[s] = d /\ \A x \in Stores : x # s => store'[x] = store[x]
  BY <1>1, <1>2
<1>6. /\ \A r \in Runs : Store(r) # s => workspace'[r] = workspace[r]
      /\ \A k : k # id /\ <<s, k>> \in Runs => workspace'[<<s, k>>] = workspace[<<s, k>>]
      /\ workspace'[<<s, id>>] = draft[s]
  BY <1>2, <1>3, OtherRuns
<1>7. UpTo(draft[s], draft[s])
  BY <1>1, LaterIsOrder
<1>8. pub[s].stage # "idle" => /\ <<s, pub[s].id>> \in Runs /\ pub[s].id # id
                               /\ pub[s].id \in 1..store[s].id /\ pub[s].id \in 1..id
  BY <1>1, RunOfStore DEF OwnInv, Own
<1>9. Own(s)'
  BY <1>1, <1>2, <1>3, <1>4, <1>5, <1>6, <1>7, <1>8 DEF Own
<1> QED BY <1>2, <1>5, <1>6, <1>9, OneStore

LEMMA LeaveKeeps ==
    ASSUME TypeInv, TypeInv', OwnInv, NEW s \in Stores, Leave(s)
    PROVE  OwnInv'
<1>1. <<s, store[s].id>> \in Runs /\ Store(<<s, store[s].id>>) = s
  BY RunOfStore DEF OwnInv, Leave, Store
<1>2. store' = [store EXCEPT ![s] = Ended(store[s])] /\ UNCHANGED <<workspace, pub, draft, kept, overtaken>>
  BY DEF Leave, history
<1>3. store[s] \in StoreState
  BY DEF TypeInv
<1>4. Grows
  BY <1>1, <1>2, <1>3, StoreParts, StoreGrows
<1> QED BY <1>4, GrowsKeeps

LEMMA EditKeeps ==
    ASSUME TypeInv, OwnInv, NEW s \in Stores, NEW text \in Texts, NEW now \in Clock,
           Edit(s, text, now)
    PROVE  OwnInv'
<1> DEFINE id == store[s].id
           r == <<s, id>>
           doc == Updated(workspace[r], text, now)
           d == [stage |-> "draft", id |-> id, session |-> store[s].session, doc |-> doc]
<1>1. /\ pub \in [Stores -> PubState] /\ store[s].running /\ r \in Runs /\ Own(s)
      /\ workspace[r] \in Doc /\ kept[s] \in Doc /\ store[s].shown \in Doc /\ id \in Nat
  BY RunOfStore, OwnEach, StoreParts DEF TypeInv, OwnInv, Edit
<1>2. doc \in Doc /\ UpTo(workspace[r], doc) /\ UpTo(doc, doc)
  BY <1>1, UpdatedGrows, LaterIsOrder
<1>3. /\ workspace' = [workspace EXCEPT ![r] = doc] /\ pub' = [pub EXCEPT ![s] = d]
      /\ UNCHANGED <<store, draft, kept, overtaken>> /\ s \notin Interactive
  BY DEF Edit, history
<1>4. d.stage = "draft" /\ d.id = id /\ d.doc = doc
  OBVIOUS
<1> HIDE DEF d, doc
<1>5. pub'[s] = d /\ \A x \in Stores : x # s => pub'[x] = pub[x]
  BY <1>1, <1>3
<1>6. (\A q \in Runs : Store(q) # s => workspace'[q] = workspace[q]) /\ workspace'[r] = doc
  BY <1>1, <1>3, OtherRuns
<1>7. UpTo(store[s].shown, doc) /\ (s \notin overtaken => UpTo(kept[s], doc))
  BY <1>1, <1>2, LaterIsOrder DEF Own
<1>8. Own(s)'
  <2>1. id \in 1..id
    BY <1>1 DEF Own
  <2> QED BY <1>1, <1>2, <1>3, <1>4, <1>5, <1>6, <1>7, <2>1 DEF Own
<1> QED BY <1>3, <1>5, <1>6, <1>8, OneStore

LEMMA CheckDraftKeeps ==
    ASSUME TypeInv, OwnInv, NEW s \in Stores, CheckDraft(s)
    PROVE  OwnInv'
<1> DEFINE current == store[s].id = pub[s].id /\ store[s].running
<1>1. /\ pub \in [Stores -> PubState] /\ pub[s] \in PubState /\ Own(s) /\ pub[s].stage = "draft"
      /\ UNCHANGED <<workspace, store, draft, kept, overtaken>>
  BY OwnEach DEF TypeInv, CheckDraft, history
<1>2. /\ pub'[s].id = pub[s].id /\ pub'[s].doc = pub[s].doc
      /\ pub'[s].stage = "send" => ~current
      /\ \A x \in Stores : x # s => pub'[x] = pub[x]
  BY <1>1 DEF CheckDraft, PubState
<1>3. Own(s)'
  BY <1>1, <1>2 DEF Own
<1> QED BY <1>1, <1>2, <1>3, OneStore

LEMMA SaveDraftKeeps ==
    ASSUME TypeInv, OwnInv, NEW s \in Stores, SaveDraft(s)
    PROVE  OwnInv'
<1> DEFINE d == [pub[s] EXCEPT !.stage = "send"]
<1>1. /\ pub \in [Stores -> PubState] /\ pub[s] \in PubState /\ pub[s].doc \in Doc /\ Own(s)
      /\ draft \in [Stores -> Doc] /\ pub[s].stage = "save"
  BY OwnEach DEF TypeInv, PubState, SaveDraft
<1>2. /\ pub' = [pub EXCEPT ![s] = d]
      /\ draft' = [draft EXCEPT ![s] = pub[s].doc]
      /\ UNCHANGED <<workspace, store, kept, overtaken>>
  BY <1>1 DEF SaveDraft, history
<1>3. d.stage = "send" /\ d.id = pub[s].id /\ d.doc = pub[s].doc
  BY <1>1 DEF PubState
<1> HIDE DEF d
<1>4. /\ pub'[s] = d /\ \A x \in Stores : x # s => pub'[x] = pub[x]
      /\ draft'[s] = pub[s].doc /\ \A x \in Stores : x # s => draft'[x] = draft[x]
  BY <1>1, <1>2
<1>5. UpTo(pub[s].doc, pub[s].doc)
  BY <1>1, LaterIsOrder
<1>6. Own(s)'
  BY <1>1, <1>2, <1>3, <1>4, <1>5 DEF Own
<1> QED BY <1>2, <1>4, <1>6, OneStore

LEMMA PublishKeeps ==
    ASSUME TypeInv, OwnInv, NEW s \in Stores, Publish(s)
    PROVE  OwnInv'
<1> DEFINE r == <<s, pub[s].id>>
           current == Current(r) /\ store[s].session = pub[s].session
           d == [store[s] EXCEPT !.shown = pub[s].doc, !.synced = FALSE, !.pending = pub[s].doc.rev]
<1>1. /\ pub \in [Stores -> PubState] /\ store \in [Stores -> StoreState]
      /\ store[s] \in StoreState /\ kept \in [Stores -> Doc] /\ Own(s) /\ pub[s].stage = "send"
  BY OwnEach DEF TypeInv, Publish
<1>2. /\ pub' = [pub EXCEPT ![s] = NoPub]
      /\ UNCHANGED <<workspace, draft, overtaken>>
      /\ current => /\ store' = [store EXCEPT ![s] = d]
                    /\ kept' = kept \/ kept' = [kept EXCEPT ![s] = pub[s].doc]
      /\ ~current => UNCHANGED <<store, kept>>
  BY DEF Publish
<1>3. current => store[s].running /\ store[s].id = pub[s].id
  BY DEF Current, Store
<1>4. d.id = store[s].id /\ d.running = store[s].running /\ d.shown = pub[s].doc
  BY <1>1 DEF StoreState
<1> HIDE DEF d, current
<1>5. /\ pub'[s].stage = "idle" /\ \A x \in Stores : x # s => pub'[x] = pub[x]
  BY <1>1, <1>2 DEF NoPub
<1>6. /\ store'[s] = IF current THEN d ELSE store[s]
      /\ kept'[s] = kept[s] \/ (current /\ kept'[s] = pub[s].doc)
      /\ \A x \in Stores : x # s => store'[x] = store[x] /\ kept'[x] = kept[x]
  BY <1>1, <1>2
<1>7. Own(s)'
  BY <1>1, <1>2, <1>3, <1>4, <1>5, <1>6 DEF Own
<1> QED BY <1>2, <1>5, <1>6, <1>7, OneStore

LEMMA InteractiveEditKeeps ==
    ASSUME TypeInv, OwnInv, NEW s \in Stores, NEW text \in Texts, NEW now \in Clock,
           InteractiveEdit(s, text, now)
    PROVE  OwnInv'
<1> DEFINE id == store[s].id
           r == <<s, id>>
           doc == Updated(workspace[r], text, now)
           d == [store[s] EXCEPT !.shown = doc, !.pending = doc.rev]
<1>1. /\ store \in [Stores -> StoreState] /\ store[s] \in StoreState /\ store[s].running /\ r \in Runs
      /\ workspace[r] \in Doc /\ kept \in [Stores -> Doc] /\ draft \in [Stores -> Doc] /\ Own(s)
      /\ kept[s] \in Doc
  BY RunOfStore, OwnEach DEF TypeInv, OwnInv, InteractiveEdit
<1>2. doc \in Doc /\ UpTo(workspace[r], doc) /\ UpTo(doc, doc)
  BY <1>1, UpdatedGrows, LaterIsOrder
<1>3. /\ workspace' = [workspace EXCEPT ![r] = doc] /\ draft' = [draft EXCEPT ![s] = doc]
      /\ store' = [store EXCEPT ![s] = d] /\ (kept' = kept \/ kept' = [kept EXCEPT ![s] = doc])
      /\ UNCHANGED <<pub, overtaken>> /\ s \in Interactive
  BY DEF InteractiveEdit
<1>4. d.id = id /\ d.running /\ d.shown = doc
  BY <1>1 DEF StoreState
<1> HIDE DEF d, doc
<1>5. /\ store'[s] = d /\ draft'[s] = doc /\ (kept'[s] = kept[s] \/ kept'[s] = doc)
      /\ \A x \in Stores : x # s => /\ store'[x] = store[x] /\ draft'[x] = draft[x]
                                    /\ kept'[x] = kept[x]
  BY <1>1, <1>3
<1>6. (\A q \in Runs : Store(q) # s => workspace'[q] = workspace[q]) /\ workspace'[r] = doc
  BY <1>1, <1>3, OtherRuns
<1>7. s \notin overtaken => UpTo(kept[s], doc)
  BY <1>1, <1>2, LaterIsOrder DEF Own
<1>8. Own(s)'
  BY <1>1, <1>2, <1>3, <1>4, <1>5, <1>6, <1>7 DEF Own
<1> QED BY <1>3, <1>5, <1>6, <1>8, OneStore

(***************************************************************************)
(* The theorems.                                                            *)
(***************************************************************************)

LEMMA InitHolds == Init => IInv
<1> SUFFICES ASSUME Init PROVE IInv
  OBVIOUS
<1>1. TypeInv
  <2>1. [NoConn EXCEPT !.phase = "greeted"] \in Conn
    BY DefaultTypes, ConnParts DEF Phases
  <2>2. conn \in [Runs -> Conn] /\ session \in [Runs -> Session]
    BY <2>1, DefaultTypes DEF Init
  <2>3. [NewStore EXCEPT !.id = 1, !.running = TRUE, !.session = 1, !.connected = TRUE, !.synced = TRUE]
            \in StoreState
    BY DefaultTypes DEF StoreState
  <2>4. store \in [Stores -> StoreState] /\ pub \in [Stores -> PubState]
    BY <2>3, DefaultTypes DEF Init
  <2>5. run \in [Runs -> RunState]
    <3>1. [stage |-> "idle", attempt |-> 0] \in RunState /\ [stage |-> "receive", attempt |-> 1] \in RunState
      BY DEF RunState
    <3> QED BY <3>1 DEF Init
  <2> QED BY <2>2, <2>4, <2>5, NoDocType DEF Init, TypeInv
<1>2. ASSUME NEW s \in Stores PROVE Own(s)
  <2>1. UpTo(NoDoc, NoDoc)
    BY NoDocType, LaterIsOrder
  <2>2. store[s].id \in {0, 1} /\ (store[s].running => store[s].id = 1) /\ store[s].shown = NoDoc
    BY DEF Init, NewStore
  <2>3. store[s].running => <<s, 1>> \in Runs
    BY RunOf DEF Starts
  <2>4. store[s].running => workspace[<<s, store[s].id>>] = NoDoc
    BY <2>2, <2>3 DEF Init
  <2> QED BY <2>1, <2>2, <2>4 DEF Init, Own, NoPub, Starts
<1>3. OwnInv
  BY <1>2 DEF OwnInv, Own, IdInv, ShownIsOwn, PubInv, KeptInv, UpTo
<1> QED BY <1>1, <1>3 DEF IInv, OwnInv

LEMMA NextKeeps == IInv /\ [Next]_vars => IInv'
<1> SUFFICES ASSUME IInv, [Next]_vars PROVE IInv'
  OBVIOUS
<1>0. TypeInv /\ OwnInv /\ IdInv /\ PubInv
  BY DEF IInv, OwnInv
<1>1. ASSUME NEW r \in Runs, Service(r) \/ RefusePut(r) \/ Break(r)
      PROVE  TypeInv' /\ OwnInv'
  BY <1>0, <1>1, ServiceTypes, ServiceGrows, GrowsKeeps
<1>2. ASSUME NEW r \in Runs, Reader(r)
      PROVE  TypeInv' /\ OwnInv'
  BY <1>0, <1>2, ReaderTypes, ServiceGrows, GrowsKeeps
<1>3. ASSUME NEW r \in Runs, Goroutine(r)
      PROVE  TypeInv' /\ OwnInv'
  BY <1>0, <1>3, GoroutineTypes, GoroutineGrows, GrowsKeeps
<1>4. ASSUME NEW s \in Stores, Publishing(s)
      PROVE  TypeInv' /\ OwnInv'
  BY <1>0, <1>4, PublishingTypes, CheckDraftKeeps, SaveDraftKeeps, PublishKeeps DEF Publishing
<1>5. ASSUME NEW s \in Stores, User(s)
      PROVE  TypeInv' /\ OwnInv'
  <2>1. TypeInv'
    BY <1>0, <1>5, UserTypes
  <2> QED BY <1>0, <1>5, <2>1, StartKeeps, LeaveKeeps, EditKeeps, InteractiveEditKeeps DEF User
<1>6. CASE StrayPut
  BY <1>0, <1>6, StrayTypes, StrayGrows, GrowsKeeps DEF IInv, OwnInv
<1>7. CASE UNCHANGED vars
  <2>1. TypeInv'
    BY <1>0, <1>7 DEF TypeInv, vars, service, clients, history
  <2>2. Grows
    BY <1>0, <1>7, NothingGrows DEF vars, clients, history
  <2> QED BY <1>0, <2>1, <2>2, GrowsKeeps DEF IInv, OwnInv
<1>8. TypeInv' /\ OwnInv'
  BY <1>1, <1>2, <1>3, <1>4, <1>5, <1>6, <1>7 DEF Next, IInv, OwnInv
<1> QED BY <1>8 DEF IInv, OwnInv

\* The invariant holds in every state of the notepad's clients.
THEOREM SyncInvariant == Spec => []IInv
  BY InitHolds, NextKeeps, PTL DEF Spec

\* The text a store shows is never one its own workspace has not reached: what a
\* run that was left still receives does not appear in the next session
\* (local_web_note.go), for any number of clients, edits, reconnects and leaves.
THEOREM ShownOwn == Spec => []ShownIsOwn
<1>1. IInv => ShownIsOwn
  BY DEF IInv
<1> QED BY <1>1, SyncInvariant, PTL

\* A published edit survives in the draft (persistDraft, start), across leaving,
\* starting again and every lost connection, unless a run that was left saves the
\* draft it had decided to save before.
THEOREM DraftKept == Spec => []DraftKeepsEdits
<1>1. IInv => DraftKeepsEdits
  BY DEF IInv, KeptInv, DraftKeepsEdits, UpTo
<1> QED BY <1>1, SyncInvariant, PTL

(***************************************************************************)
(* Settling: nothing a client has to hear or to answer is lost.             *)
(***************************************************************************)

Elems(q) == {q[i] : i \in 1..Len(q)}

\* What appending and taking the head do to the elements of a queue.
LEMMA ElemsOf ==
    ASSUME NEW S, NEW q \in Seq(S)
    PROVE  /\ \A x \in S : Elems(Append(q, x)) = Elems(q) \cup {x}
           /\ q # << >> => Elems(q) = {Head(q)} \cup Elems(Tail(q))
           /\ q # << >> <=> Elems(q) # {}
           /\ Elems(q) \subseteq S
<1>1. ASSUME NEW x \in S PROVE Elems(Append(q, x)) = Elems(q) \cup {x}
  <2>1. Len(Append(q, x)) = Len(q) + 1 /\ Append(q, x)[Len(q) + 1] = x
        /\ \A i \in 1..Len(q) : Append(q, x)[i] = q[i]
    OBVIOUS
  <2>2. 1..Len(q) + 1 = (1..Len(q)) \cup {Len(q) + 1} /\ Len(q) \in Nat
    OBVIOUS
  <2> HIDE DEF Elems
  <2>3. ASSUME NEW y \in Elems(Append(q, x)) PROVE y \in Elems(q) \cup {x}
    BY <2>1, <2>2 DEF Elems
  <2>4. ASSUME NEW y \in Elems(q) \cup {x} PROVE y \in Elems(Append(q, x))
    BY <2>1, <2>2 DEF Elems
  <2> QED BY <2>3, <2>4
<1>2. ASSUME q # << >> PROVE Elems(q) = {Head(q)} \cup Elems(Tail(q))
  <2>1. /\ Len(q) \in Nat /\ Len(q) >= 1 /\ Len(Tail(q)) = Len(q) - 1 /\ Head(q) = q[1]
        /\ \A i \in 1..Len(q) - 1 : Tail(q)[i] = q[i + 1]
    BY <1>2
  <2>2. ASSUME NEW y \in Elems(q) PROVE y \in {Head(q)} \cup Elems(Tail(q))
    <3>1. PICK i \in 1..Len(q) : y = q[i]
      BY DEF Elems
    <3>2. CASE i = 1
      BY <2>1, <3>1, <3>2
    <3>3. CASE i # 1
      <4>1. i - 1 \in 1..Len(q) - 1 /\ (i - 1) + 1 = i
        BY <2>1, <3>3
      <4>2. Tail(q)[i - 1] = y
        BY <2>1, <3>1, <4>1
      <4> QED BY <2>1, <4>1, <4>2 DEF Elems
    <3> QED BY <3>2, <3>3
  <2>3. ASSUME NEW y \in Elems(Tail(q)) PROVE y \in Elems(q)
    <3>1. PICK i \in 1..Len(q) - 1 : y = q[i + 1]
      BY <2>1 DEF Elems
    <3>2. i + 1 \in 1..Len(q)
      BY <2>1
    <3> QED BY <3>1, <3>2 DEF Elems
  <2>4. Head(q) \in Elems(q)
    BY <2>1 DEF Elems
  <2> QED BY <2>2, <2>3, <2>4
<1>3. q # << >> <=> Elems(q) # {}
  <2>1. CASE q = << >>
    BY <2>1 DEF Elems
  <2>2. CASE q # << >>
    BY <1>2, <2>2
  <2> QED BY <2>1, <2>2
<1>4. Elems(q) \subseteq S
  BY DEF Elems
<1> QED BY <1>1, <1>2, <1>3, <1>4

LEMMA DownParts ==
    ASSUME NEW q \in Seq(Message), NEW m \in Elems(q)
    PROVE  m \in Message /\ m.gen \in Nat /\ m.doc \in Doc
<1>1. m \in Message
  BY ElemsOf
<1> QED BY <1>1 DEF Message

LEMMA ElemsEmpty == Elems(<< >>) = {}
  BY DEF Elems

Registered(r) == conn[r].phase \in {"joined", "greeted"}

\* The goroutine of r has a connection: it was dialled and is not given up.
Engaged(r) == run[r].stage \in {"open", "sync", "saving", "synced", "receive"}

\* The state the service is in is on its way to r.
Tells(r) == State \in Elems(conn[r].down)

\* The record reaches r, or has reached it.
Hears(r) ==
    \/ conn[r].phase = "joined" /\ conn[r].greeting.gen = generation
    \/ Tells(r)
    \/ run[r].stage = "sync" /\ session[r].initial = record
    \/ /\ Reading(r)
       /\ \/ session[r].reader.stage = "compare" /\ session[r].reader.doc = record
          \/ [kind |-> "update", doc |-> record] \in Elems(session[r].events)
          \/ UpTo(record, workspace[r])

\* The connection of r and its session: nothing in them is newer than the
\* service, a first state that is still the newest has nothing before it, and
\* the record is heard.
Link(r) ==
    /\ session[r].gen <= generation /\ conn[r].greeting.gen <= generation
    /\ \A m \in Elems(conn[r].down) : m.gen <= generation
    /\ Engaged(r) => conn[r].phase # "none"
    /\ conn[r].phase = "joined" /\ conn[r].greeting.gen = generation =>
         run[r].stage = "open" /\ conn[r].down = << >> /\ conn[r].greeting.doc = record
    /\ Engaged(r) /\ Registered(r) => Hears(r)

\* The user's publish is for this run and its session.
Publishes(r) ==
    /\ pub[Store(r)].stage # "idle" /\ pub[Store(r)].id = r[2]
    /\ pub[Store(r)].session = store[Store(r)].session
    /\ pub[Store(r)].doc = workspace[r]

\* A document of r is on its way to the service, or the service's to a comparison.
Busy(r) ==
    \/ conn[r].up # << >> \/ Tells(r) \/ session[r].reader.stage = "publish"
    \/ session[r].reader.stage = "compare" /\ session[r].reader.doc = record
    \/ Publishes(r)

\* Errors of the service on their way to the client.
Errs(r) ==
    \/ \E m \in Elems(conn[r].down) : m.kind = "error"
    \/ \E e \in Elems(session[r].events) : e.kind = "error"

\* Something that ends the wait for an acknowledgement is under way.
Answers(r) ==
    \/ Busy(r) \/ Errs(r)
    \/ \E e \in Elems(session[r].events) :
         \/ e.kind = "ack" /\ e.doc.rev >= store[Store(r)].pending
         \/ e.kind = "update" /\ Later(e.doc, workspace[r])

\* The screen of a current run: it shows the workspace unless a publish will,
\* and what it waits for is under way.
Screen(r) ==
    /\ store[Store(r)].shown = workspace[r] \/ Publishes(r)
    /\ store[Store(r)].pending = 0 => store[Store(r)].synced
    /\ store[Store(r)].pending <= workspace[r].rev
    /\ store[Store(r)].pending # 0 /\ Registered(r) => Answers(r)

\* A run is idle before its start, and only one that receives has a session.
Seat(r) ==
    /\ r[2] > store[Store(r)].id => run[r].stage = "idle"
    /\ Current(r) /\ store[Store(r)].session # 0 => run[r].stage = "receive"
    /\ Current(r) /\ run[r].stage = "receive" => Screen(r)

LinkInv == \A r \in Runs : Link(r)
SeatInv == \A r \in Runs : Seat(r)

SameRun(r) ==
    /\ conn'[r] = conn[r] /\ session'[r] = session[r]
    /\ run'[r] = run[r] /\ workspace'[r] = workspace[r]

\* What a step leaves alone.
LEMMA LinkFrame ==
    ASSUME NEW r \in Runs, Link(r), SameRun(r), UNCHANGED <<generation, record>>
    PROVE  Link(r)'
  BY DEF Link, SameRun, Engaged, Registered, Hears, Tells, State, Reading

LEMMA SeatFrame ==
    ASSUME NEW r \in Runs, Seat(r), SameRun(r), UNCHANGED <<generation, record>>,
           store'[Store(r)] = store[Store(r)], pub'[Store(r)] = pub[Store(r)]
    PROVE  Seat(r)'
  BY DEF Seat, Screen, Answers, Busy, Errs, Publishes, SameRun, Registered, Tells, State, Current

\* A run that is not current has only to stay where it is.
LEMMA SeatOther ==
    ASSUME NEW r \in Runs, Seat(r), run'[r] = run[r],
           store'[Store(r)].id = store[Store(r)].id, ~Current(r)'
    PROVE  Seat(r)'
  BY DEF Seat

\* A step of one run, that may change what its store has for it.
LEMMA OneRun ==
    ASSUME LinkInv, SeatInv, NEW r \in Runs, Link(r)', Seat(r)',
           UNCHANGED <<generation, record>>,
           \A x \in Runs : x # r => SameRun(x),
           \A s \in Stores : s # Store(r) => store'[s] = store[s] /\ pub'[s] = pub[s],
           store'[Store(r)].id = store[Store(r)].id,
           \/ store'[Store(r)] = store[Store(r)] /\ pub'[Store(r)] = pub[Store(r)]
           \/ r[2] = store[Store(r)].id
           \/ ~store'[Store(r)].running
    PROVE  LinkInv' /\ SeatInv'
<1>1. ASSUME NEW x \in Runs, x # r PROVE Link(x)' /\ Seat(x)'
  <2>1. Link(x) /\ Seat(x) /\ SameRun(x) /\ Store(x) \in Stores
    BY <1>1, RunFacts DEF LinkInv, SeatInv
  <2>2. Link(x)'
    BY <2>1, LinkFrame
  <2>3. CASE store'[Store(x)] = store[Store(x)] /\ pub'[Store(x)] = pub[Store(x)]
    BY <2>1, <2>2, <2>3, SeatFrame
  <2>4. CASE ~(store'[Store(x)] = store[Store(x)] /\ pub'[Store(x)] = pub[Store(x)])
    <3>1. Store(x) = Store(r)
      BY <2>1, <2>4
    <3>2. x[2] # r[2]
      BY <1>1, <3>1, RunFacts
    <3>3. ~Current(x)'
      BY <2>4, <3>1, <3>2 DEF Current
    <3> QED BY <2>1, <2>2, <3>1, <3>3, SeatOther DEF SameRun
  <2> QED BY <2>3, <2>4
<1>2. \A x \in Runs : Link(x)' /\ Seat(x)'
  BY <1>1
<1> QED BY <1>2 DEF LinkInv, SeatInv

\* A put that is accepted is told to every registered connection.
LEMMA AcceptTells ==
    ASSUME TypeInv, NEW connections \in [Runs -> Conn], NEW doc \in Doc, Accept(connections, doc),
           NEW r \in Runs, connections[r].phase = conn[r].phase,
           connections[r].down = conn[r].down, connections[r].greeting = conn[r].greeting
    PROVE  /\ Registered(r)' <=> Registered(r)
           /\ Registered(r) => Tells(r)' /\ Elems(conn'[r].down) = Elems(conn[r].down) \cup {State'}
           /\ ~Registered(r) => conn'[r].down = conn[r].down
           /\ conn'[r].phase = conn[r].phase /\ conn'[r].greeting = conn[r].greeting
           /\ conn'[r].up = connections[r].up
           /\ generation' = generation + 1 /\ generation \in Nat
<1> DEFINE m == [kind |-> "state", gen |-> generation + 1, doc |-> doc]
           c == connections[r]
<1>1. /\ generation' = generation + 1 /\ record' = doc /\ generation \in Nat
      /\ conn' = Broadcast(connections, doc) /\ c \in Conn /\ conn[r] \in Conn
  BY DEF Accept, TypeInv
<1>2. State' = m /\ m \in Message
  BY <1>1 DEF State, Message
<1>3. conn'[r] = IF Registered(r) THEN [c EXCEPT !.down = Append(c.down, m)] ELSE c
  BY <1>1 DEF Broadcast, Registered
<1>4. c.down \in Seq(Message)
  BY <1>1, ConnParts
<1> HIDE DEF m
<1>5. CASE Registered(r)
  <2>1. /\ conn'[r].down = Append(c.down, m) /\ conn'[r].phase = c.phase
        /\ conn'[r].greeting = c.greeting /\ conn'[r].up = c.up
    BY <1>1, <1>3, <1>5 DEF Conn
  <2>2. Elems(conn'[r].down) = Elems(c.down) \cup {m}
    BY <1>2, <1>4, <2>1, ElemsOf
  <2> QED BY <1>1, <1>2, <1>5, <2>1, <2>2 DEF Tells, Registered
<1>6. CASE ~Registered(r)
  BY <1>1, <1>3, <1>6 DEF Registered
<1> QED BY <1>5, <1>6

LEMMA AcceptSettles ==
    ASSUME TypeInv, NEW connections \in [Runs -> Conn], NEW doc \in Doc, Accept(connections, doc),
           NEW r \in Runs, connections[r].phase = conn[r].phase, Link(r), Seat(r),
           connections[r].down = conn[r].down, connections[r].greeting = conn[r].greeting,
           UNCHANGED clients
    PROVE  Link(r)' /\ Seat(r)'
<1>0. /\ conn[r] \in Conn /\ session[r].gen \in Nat /\ conn[r].greeting.gen \in Nat
      /\ conn[r].down \in Seq(Message)
  BY ConnParts, SessionParts DEF TypeInv
<1>1. \A m \in Elems(conn[r].down) : m.gen \in Nat
  BY <1>0, DownParts
<1>2. State'.gen = generation'
  BY DEF State
<1>3. Link(r)'
  <2>1. /\ Registered(r)' <=> Registered(r)
        /\ Registered(r) => Tells(r)' /\ Elems(conn'[r].down) = Elems(conn[r].down) \cup {State'}
        /\ ~Registered(r) => conn'[r].down = conn[r].down
        /\ conn'[r].phase = conn[r].phase /\ conn'[r].greeting = conn[r].greeting
        /\ generation' = generation + 1 /\ generation \in Nat
    BY AcceptTells
  <2>2. session'[r] = session[r] /\ run'[r] = run[r]
    BY DEF clients
  <2>3. ASSUME NEW m \in Elems(conn'[r].down) PROVE m.gen <= generation'
    BY <1>1, <1>2, <2>1, <2>3 DEF Link
  <2>4. /\ session'[r].gen <= generation' /\ conn'[r].greeting.gen <= generation'
        /\ conn'[r].greeting.gen # generation'
    BY <1>0, <2>1, <2>2 DEF Link
  <2> QED BY <2>1, <2>2, <2>3, <2>4 DEF Link, Engaged, Hears
<1>4. Seat(r)'
  BY AcceptTells DEF Seat, Screen, Answers, Busy, Publishes, clients, Current
<1> QED BY <1>3, <1>4

\* A connection that is lost or given up has nothing left to hear.
LEMMA GoneLink ==
    ASSUME TypeInv, NEW r \in Runs, Link(r), NEW p \in {"broken", "closed"},
           conn'[r] = [NoConn EXCEPT !.phase = p], generation' = generation,
           session'[r].gen \in {session[r].gen, 0}
    PROVE  Link(r)' /\ ~Registered(r)'
<1>1. /\ conn'[r].phase = p /\ conn'[r].down = << >> /\ conn'[r].greeting.gen = 0
      /\ generation \in Nat
  BY DEF NoConn, TypeInv
<1> QED BY <1>1, ElemsEmpty DEF Link, Registered

LEMMA ServiceSettles ==
    ASSUME TypeInv, LinkInv, SeatInv, NEW r \in Runs, Service(r) \/ RefusePut(r) \/ Break(r)
    PROVE  LinkInv' /\ SeatInv'
<1> DEFINE c == conn[r]
<1>0. /\ c \in Conn /\ c.up \in Seq(PutMsg) /\ c.down \in Seq(Message) /\ Link(r) /\ Seat(r)
      /\ conn \in [Runs -> Conn] /\ generation \in Nat /\ record \in Doc /\ Store(r) \in Stores
      /\ c.greeting.gen \in Nat /\ c.greeting.doc \in Doc
  BY ConnParts, RunFacts DEF TypeInv, LinkInv, SeatInv
\* The first state is written: it is the newest only if nothing was before it.
<1>1. CASE Greet(r)
  <2> DEFINE m == [kind |-> "state", gen |-> c.greeting.gen, doc |-> c.greeting.doc]
  <2>1. /\ conn'[r].phase = "greeted" /\ conn'[r].down = Append(c.down, m)
        /\ conn'[r].up = c.up /\ conn'[r].greeting = c.greeting /\ c.phase = "joined"
        /\ \A x \in Runs : x # r => conn'[x] = conn[x]
        /\ UNCHANGED <<generation, record, session, run, workspace, store, pub>>
    BY <1>0, <1>1 DEF Greet, Conn, service, clients
  <2>2. m \in Message /\ m.gen = c.greeting.gen
    BY <1>0 DEF Message
  <2>3. c.greeting.gen = generation => m = State'
    BY <1>0, <2>1 DEF Link, State
  <2> HIDE DEF m
  <2>4. Elems(conn'[r].down) = Elems(c.down) \cup {m}
    BY <1>0, <2>1, <2>2, ElemsOf
  <2>5. State' = State
    BY <2>1 DEF State
  <2>6. Tells(r) => Tells(r)'
    BY <2>4, <2>5 DEF Tells
  <2>7. Engaged(r) => Hears(r)'
    BY <1>0, <2>1, <2>3, <2>4, <2>6 DEF Link, Engaged, Registered, Hears, Tells, Reading
  <2>8. Link(r)'
    BY <1>0, <2>1, <2>2, <2>4, <2>7 DEF Link, Engaged, Registered
  <2>9. Seat(r)'
    BY <1>0, <2>1, <2>4, <2>6 DEF Seat, Screen, Answers, Busy, Errs, Publishes, Registered, Current
  <2> QED BY <1>0, <2>1, <2>8, <2>9, OneRun DEF SameRun
<1>2. CASE Put(r)
  <2> DEFINE put == Head(c.up)
             d == [c EXCEPT !.up = Tail(c.up)]
             popped == [conn EXCEPT ![r] = d]
  <2>1. put \in PutMsg /\ Tail(c.up) \in Seq(PutMsg)
    BY <1>0, <1>2, QueueParts DEF Put
  <2>2. d \in Conn /\ d.phase = c.phase /\ d.down = c.down /\ d.greeting = c.greeting
    BY <1>0, <2>1, ConnParts DEF Conn
  <2>3. popped \in [Runs -> Conn] /\ popped = [conn EXCEPT ![r].up = Tail(@)] /\ popped[r] = d
        /\ \A x \in Runs : x # r => popped[x] = conn[x]
    BY <1>0, <2>2
  <2>4. put.doc \in Doc
    BY <2>1 DEF PutMsg
  <2>5. /\ \/ Accept(popped, put.doc)
           \/ /\ conn' = [popped EXCEPT ![r].down = Append(@, State)]
              /\ UNCHANGED <<generation, record>>
        /\ UNCHANGED <<stray, clients, history, bounds>>
    BY <1>2, <2>3 DEF Put
  <2>6. State \in Message /\ State.gen = generation
    BY <1>0 DEF State, Message
  <2>7. \A x \in Runs : popped[x].phase = conn[x].phase /\ popped[x].down = conn[x].down
                        /\ popped[x].greeting = conn[x].greeting
    BY <2>2, <2>3
  <2> HIDE DEF put, popped, d
  <2>8. CASE Accept(popped, put.doc)
    <3>1. ASSUME NEW x \in Runs PROVE Link(x)' /\ Seat(x)'
      BY <2>3, <2>4, <2>5, <2>7, <2>8, AcceptSettles DEF LinkInv, SeatInv
    <3> QED BY <3>1 DEF LinkInv, SeatInv
  <2>9. CASE conn' = [popped EXCEPT ![r].down = Append(@, State)] /\ UNCHANGED <<generation, record>>
    <3>1. /\ conn'[r].phase = c.phase /\ conn'[r].down = Append(c.down, State)
          /\ conn'[r].greeting = c.greeting /\ c.phase = "greeted"
          /\ \A x \in Runs : x # r => conn'[x] = conn[x]
          /\ UNCHANGED <<generation, record, session, run, workspace, store, pub>>
      <4>1. c.phase = "greeted"
        BY <1>2 DEF Put
      <4>2. conn'[r] = [d EXCEPT !.down = Append(d.down, State)]
        BY <2>3, <2>9
      <4>3. conn'[r].phase = d.phase /\ conn'[r].down = Append(d.down, State) /\ conn'[r].greeting = d.greeting
        BY <2>2, <4>2 DEF Conn
      <4> QED BY <2>2, <2>3, <2>5, <2>9, <4>1, <4>3 DEF clients
    <3>2. State' = State
      BY <3>1 DEF State
    <3>3. Elems(conn'[r].down) = Elems(c.down) \cup {State}
      BY <1>0, <2>6, <3>1, ElemsOf
    <3>4. Tells(r)'
      BY <3>2, <3>3 DEF Tells
    <3>5. Link(r)'
      BY <1>0, <2>6, <3>1, <3>3, <3>4 DEF Link, Engaged, Registered, Hears
    <3>6. Seat(r)'
      BY <1>0, <3>1, <3>4 DEF Seat, Screen, Answers, Busy, Publishes, Registered, Current
    <3> QED BY <1>0, <3>1, <3>5, <3>6, OneRun DEF SameRun
  <2> QED BY <2>5, <2>8, <2>9
<1>3. CASE RefusePut(r)
  <2> DEFINE m == [kind |-> "error", gen |-> 0, doc |-> NoDoc]
  <2>1. /\ conn'[r].phase = c.phase /\ conn'[r].down = Append(c.down, m)
        /\ conn'[r].greeting = c.greeting /\ c.phase = "greeted"
        /\ \A x \in Runs : x # r => conn'[x] = conn[x]
        /\ UNCHANGED <<generation, record, session, run, workspace, store, pub>>
    BY <1>0, <1>3 DEF RefusePut, Conn, service, clients
  <2>2. m \in Message /\ m.gen = 0 /\ m.kind = "error"
    BY NoDocType DEF Message
  <2> HIDE DEF m
  <2>3. Elems(conn'[r].down) = Elems(c.down) \cup {m}
    BY <1>0, <2>1, <2>2, ElemsOf
  <2>4. State' = State
    BY <2>1 DEF State
  <2>5. Tells(r) => Tells(r)'
    BY <2>3, <2>4 DEF Tells
  <2>6. Link(r)'
    BY <1>0, <2>1, <2>2, <2>3, <2>5 DEF Link, Engaged, Registered, Hears, Reading
  <2>7. Seat(r)'
    BY <1>0, <2>1, <2>2, <2>3, <2>5 DEF Seat, Screen, Answers, Errs, Publishes, Registered, Current
  <2> QED BY <1>0, <2>1, <2>6, <2>7, OneRun DEF SameRun
<1>4. CASE Break(r)
  <2>1. /\ conn'[r] = [NoConn EXCEPT !.phase = "broken"]
        /\ \A x \in Runs : x # r => conn'[x] = conn[x]
        /\ UNCHANGED <<generation, record, session, run, workspace, store, pub>>
    BY <1>0, <1>4 DEF Break, clients
  <2>2. Link(r)' /\ ~Registered(r)'
    BY <1>0, <2>1, GoneLink
  <2>3. Seat(r)'
    BY <1>0, <2>1, <2>2 DEF Seat, Screen, Publishes, Current
  <2> QED BY <1>0, <2>1, <2>2, <2>3, OneRun DEF SameRun
<1> QED BY <1>1, <1>2, <1>3, <1>4 DEF Service

LEMMA StraySettles ==
    ASSUME TypeInv, LinkInv, SeatInv, StrayPut
    PROVE  LinkInv' /\ SeatInv'
<1>1. PICK put \in stray : \/ Accept(conn, put.doc)
                           \/ UNCHANGED <<generation, record, conn>>
  BY DEF StrayPut
<1>2. put.doc \in Doc /\ conn \in [Runs -> Conn] /\ UNCHANGED clients
  BY DEF TypeInv, PutMsg, StrayPut
<1>3. ASSUME NEW x \in Runs PROVE Link(x)' /\ Seat(x)'
  <2>1. Link(x) /\ Seat(x)
    BY DEF LinkInv, SeatInv
  <2>2. CASE Accept(conn, put.doc)
    BY <1>2, <2>1, <2>2, AcceptSettles
  <2>3. CASE UNCHANGED <<generation, record, conn>>
    BY <1>2, <2>1, <2>3, LinkFrame, SeatFrame DEF SameRun, clients
  <2> QED BY <1>1, <2>2, <2>3
<1> QED BY <1>3 DEF LinkInv, SeatInv

\* A message is taken from a connection.
LEMMA TakenParts ==
    ASSUME TypeInv, NEW r \in Runs, conn[r].down # << >>,
           conn' = [conn EXCEPT ![r].down = Tail(@)]
    PROVE  /\ Head(conn[r].down) \in Message
           /\ Elems(conn[r].down) = {Head(conn[r].down)} \cup Elems(conn'[r].down)
           /\ conn'[r].phase = conn[r].phase /\ conn'[r].up = conn[r].up
           /\ conn'[r].greeting = conn[r].greeting
           /\ \A x \in Runs : x # r => conn'[x] = conn[x]
<1>1. conn[r] \in Conn /\ conn[r].down \in Seq(Message) /\ conn \in [Runs -> Conn]
  BY ConnParts DEF TypeInv
<1>2. conn'[r] = [conn[r] EXCEPT !.down = Tail(conn[r].down)]
  BY <1>1
<1>3. /\ conn'[r].down = Tail(conn[r].down) /\ conn'[r].phase = conn[r].phase
      /\ conn'[r].up = conn[r].up /\ conn'[r].greeting = conn[r].greeting
  BY <1>1, <1>2 DEF Conn
<1>4. Head(conn[r].down) \in Message /\ Elems(conn[r].down) = {Head(conn[r].down)} \cup Elems(Tail(conn[r].down))
  BY <1>1, ElemsOf, QueueParts
<1> QED BY <1>1, <1>3, <1>4

\* The newest state is not skipped.
LEMMA ReadParts ==
    ASSUME TypeInv, NEW r \in Runs, Link(r), Read(r)
    PROVE  /\ Reading(r) /\ session[r].reader.stage = "idle" /\ conn[r].down # << >>
           /\ Head(conn[r].down).kind = "state" /\ Head(conn[r].down) \in Elems(conn[r].down)
           /\ Elems(conn'[r].down) \subseteq Elems(conn[r].down)
           /\ conn'[r].phase = conn[r].phase /\ conn'[r].up = conn[r].up
           /\ conn'[r].greeting = conn[r].greeting
           /\ \A x \in Runs : x # r => conn'[x] = conn[x] /\ session'[x] = session[x]
           /\ session'[r].events = session[r].events /\ session'[r].gen <= generation
           /\ session'[r].initial = session[r].initial
           /\ session'[r].reader.doc \in {session[r].reader.doc, Head(conn[r].down).doc}
           /\ Tells(r) => \/ Tells(r)'
                          \/ session'[r].reader.stage = "compare" /\ session'[r].reader.doc = record
           /\ \A m \in Elems(conn[r].down) : m.kind = "error" => m \in Elems(conn'[r].down)
           /\ UNCHANGED <<generation, record, run, workspace, store, pub>>
<1> DEFINE h == Head(conn[r].down)
           n == session[r]
           skip == h.gen < n.gen
<1>0. n \in Session /\ n.gen \in Nat /\ session \in [Runs -> Session] /\ generation \in Nat
  BY SessionParts DEF TypeInv
<1>1. /\ Reading(r) /\ n.reader.stage = "idle" /\ conn[r].down # << >> /\ h.kind = "state"
      /\ conn' = [conn EXCEPT ![r].down = Tail(@)]
      /\ UNCHANGED <<generation, record, run, workspace, store, pub>>
  BY DEF Read, service
<1>2. /\ h \in Message /\ Elems(conn[r].down) = {h} \cup Elems(conn'[r].down)
      /\ conn'[r].phase = conn[r].phase /\ conn'[r].up = conn[r].up
      /\ conn'[r].greeting = conn[r].greeting
      /\ \A x \in Runs : x # r => conn'[x] = conn[x]
  BY <1>1, TakenParts
<1>3. h.gen \in Nat /\ h.doc \in Doc /\ h.gen <= generation
  BY <1>2 DEF Message, Link
<1>4. /\ skip => session' = session
      /\ ~skip => session'[r] = [n EXCEPT !.gen = h.gen, !.reader = [stage |-> "compare", doc |-> h.doc]]
      /\ \A x \in Runs : x # r => session'[x] = session[x]
  BY <1>0 DEF Read
<1>5. /\ skip => session'[r] = n
      /\ ~skip => /\ session'[r].gen = h.gen /\ session'[r].events = n.events
                  /\ session'[r].initial = n.initial
                  /\ session'[r].reader.stage = "compare" /\ session'[r].reader.doc = h.doc
  <2> HIDE DEF n, h, skip
  <2>1. CASE skip
    BY <1>4, <2>1 DEF n
  <2>2. CASE ~skip
    <3> DEFINE rd == [stage |-> "compare", doc |-> h.doc]
    <3>1. rd.stage = "compare" /\ rd.doc = h.doc
      OBVIOUS
    <3>2. session'[r] = [n EXCEPT !.gen = h.gen, !.reader = rd]
      BY <1>4, <2>2
    <3> HIDE DEF rd
    <3>3. /\ session'[r].gen = h.gen /\ session'[r].events = n.events /\ session'[r].reader = rd
          /\ session'[r].initial = n.initial
      BY <1>0, <3>2 DEF Session
    <3> QED BY <2>2, <3>1, <3>3
  <2> QED BY <2>1, <2>2
<1>6. State' = State /\ State.gen = generation /\ State.doc = record
  BY <1>1 DEF State
<1> HIDE DEF n, h
<1>7. h = State => ~skip /\ h.doc = record
  BY <1>0, <1>3, <1>6 DEF Link, n
<1> HIDE DEF skip
<1>8. Tells(r) => \/ Tells(r)'
                  \/ session'[r].reader.stage = "compare" /\ session'[r].reader.doc = record
  BY <1>2, <1>5, <1>6, <1>7 DEF Tells
<1>9. /\ session'[r].events = n.events /\ session'[r].gen <= generation /\ session'[r].initial = n.initial
      /\ session'[r].reader.doc \in {n.reader.doc, h.doc}
  BY <1>0, <1>3, <1>5 DEF Link, n
<1> QED BY <1>1, <1>2, <1>4, <1>8, <1>9 DEF n, h

LEMMA ReadSettles ==
    ASSUME TypeInv, LinkInv, SeatInv, NEW r \in Runs, Read(r)
    PROVE  LinkInv' /\ SeatInv'
<1>0. Link(r) /\ Seat(r) /\ Store(r) \in Stores
  BY RunFacts DEF LinkInv, SeatInv
<1>1. /\ Reading(r) /\ session[r].reader.stage = "idle" /\ conn[r].down # << >>
      /\ Elems(conn'[r].down) \subseteq Elems(conn[r].down)
      /\ conn'[r].phase = conn[r].phase /\ conn'[r].up = conn[r].up
      /\ conn'[r].greeting = conn[r].greeting
      /\ \A x \in Runs : x # r => conn'[x] = conn[x] /\ session'[x] = session[x]
      /\ session'[r].events = session[r].events /\ session'[r].gen <= generation
      /\ Tells(r) => \/ Tells(r)'
                     \/ session'[r].reader.stage = "compare" /\ session'[r].reader.doc = record
      /\ \A m \in Elems(conn[r].down) : m.kind = "error" => m \in Elems(conn'[r].down)
      /\ UNCHANGED <<generation, record, run, workspace, store, pub>>
  BY <1>0, ReadParts
<1>2. Hears(r) => Hears(r)'
  BY <1>1 DEF Hears, Reading
<1>3. Link(r)'
  BY <1>0, <1>1, <1>2 DEF Link, Engaged, Registered
<1>4. Seat(r)'
  BY <1>0, <1>1 DEF Seat, Screen, Answers, Busy, Errs, Publishes, Registered, Current
<1> QED BY <1>0, <1>1, <1>3, <1>4, OneRun DEF SameRun

\* An event is handed to the client.
LEMMA EmittedParts ==
    ASSUME TypeInv, NEW r \in Runs, NEW e \in Event, Emitted(r, e)
    PROVE  /\ Elems(session'[r].events) = Elems(session[r].events) \cup {e}
           /\ session'[r].gen = session[r].gen /\ session'[r].initial = session[r].initial
           /\ session'[r].reader.stage = "idle"
           /\ \A x \in Runs : x # r => session'[x] = session[x]
<1>1. session[r] \in Session /\ session[r].events \in Seq(Event) /\ session \in [Runs -> Session]
  BY SessionParts DEF TypeInv
<1>2. session'[r] = [session[r] EXCEPT !.events = Append(session[r].events, e), !.reader = NoReader]
  BY <1>1 DEF Emitted
<1>3. /\ session'[r].events = Append(session[r].events, e) /\ session'[r].gen = session[r].gen
      /\ session'[r].initial = session[r].initial /\ session'[r].reader = NoReader
  BY <1>1, <1>2 DEF Session
<1>4. Elems(session'[r].events) = Elems(session[r].events) \cup {e}
  BY <1>1, <1>3, ElemsOf
<1>5. \A x \in Runs : x # r => session'[x] = session[x]
  BY <1>1 DEF Emitted
<1> QED BY <1>3, <1>4, <1>5 DEF NoReader

LEMMA ReadErrorSettles ==
    ASSUME TypeInv, LinkInv, SeatInv, NEW r \in Runs, ReadError(r)
    PROVE  LinkInv' /\ SeatInv'
<1> DEFINE h == Head(conn[r].down)
           e == [kind |-> "error", doc |-> NoDoc]
<1>0. Link(r) /\ Seat(r) /\ Store(r) \in Stores
  BY RunFacts DEF LinkInv, SeatInv
<1>1. /\ Reading(r) /\ session[r].reader.stage = "idle" /\ conn[r].down # << >> /\ h.kind = "error"
      /\ conn' = [conn EXCEPT ![r].down = Tail(@)] /\ Emitted(r, e)
      /\ UNCHANGED <<generation, record, run, workspace, store, pub>>
  BY DEF ReadError, service
<1>2. /\ h \in Message /\ Elems(conn[r].down) = {h} \cup Elems(conn'[r].down)
      /\ conn'[r].phase = conn[r].phase /\ conn'[r].up = conn[r].up
      /\ conn'[r].greeting = conn[r].greeting
      /\ \A x \in Runs : x # r => conn'[x] = conn[x]
  BY <1>1, TakenParts
<1>3. e \in Event /\ e.kind = "error"
  BY NoDocType DEF Event
<1> HIDE DEF e
<1>4. /\ Elems(session'[r].events) = Elems(session[r].events) \cup {e}
      /\ session'[r].gen = session[r].gen /\ session'[r].reader.stage = "idle"
      /\ \A x \in Runs : x # r => session'[x] = session[x]
  BY <1>1, <1>3, EmittedParts
<1>5. State' = State /\ State.kind = "state"
  BY <1>1 DEF State
<1>6. Tells(r) => Tells(r)'
  BY <1>1, <1>2, <1>5 DEF Tells
<1>7. Hears(r) => Hears(r)'
  BY <1>1, <1>2, <1>4, <1>6 DEF Hears, Reading
<1>8. Link(r)'
  BY <1>0, <1>1, <1>2, <1>4, <1>7 DEF Link, Engaged, Registered
<1>9. Seat(r)'
  BY <1>0, <1>1, <1>3, <1>4 DEF Seat, Screen, Answers, Errs, Publishes, Current
<1> QED BY <1>0, <1>1, <1>2, <1>4, <1>8, <1>9, OneRun DEF SameRun

LEMMA RepublishSettles ==
    ASSUME TypeInv, LinkInv, SeatInv, NEW r \in Runs, Republish(r)
    PROVE  LinkInv' /\ SeatInv'
<1> DEFINE c == conn[r]
           n == session[r]
           put == PutOf(r, n.reader.doc)
<1>0. /\ Link(r) /\ Seat(r) /\ Store(r) \in Stores /\ c \in Conn /\ conn \in [Runs -> Conn]
      /\ n \in Session /\ session \in [Runs -> Session] /\ c.up \in Seq(PutMsg)
  BY RunFacts, ConnParts DEF LinkInv, SeatInv, TypeInv
<1>1. put \in PutMsg
  BY <1>0, SessionParts DEF PutOf, PutMsg
<1>2. /\ n.reader.stage = "publish" /\ session' = [session EXCEPT ![r].reader = NoReader]
      /\ UNCHANGED <<generation, record, run, workspace, store, pub>>
  BY DEF Republish, service
<1>3. /\ session'[r].reader.stage = "idle" /\ session'[r].events = n.events
      /\ session'[r].gen = n.gen /\ session'[r].initial = n.initial
      /\ \A x \in Runs : x # r => session'[x] = session[x]
  BY <1>0, <1>2 DEF Session, NoReader
<1> HIDE DEF put
<1>4. /\ conn'[r].phase = c.phase /\ conn'[r].down = c.down /\ conn'[r].greeting = c.greeting
      /\ Registered(r) => conn'[r].up = Append(c.up, put)
      /\ \A x \in Runs : x # r => conn'[x] = conn[x]
  <2>1. CASE Broken(r)
    BY <2>1 DEF Republish, Broken, Registered
  <2>2. CASE ~Broken(r)
    <3>1. conn' = [conn EXCEPT ![r].up = Append(@, put)]
      BY <2>2 DEF Republish, put
    <3> QED BY <1>0, <3>1 DEF Conn
  <2> QED BY <2>1, <2>2
<1>5. Registered(r) => conn'[r].up # << >>
  BY <1>0, <1>1, <1>4
<1>6. State' = State
  BY <1>2 DEF State
<1>7. Hears(r) => Hears(r)'
  BY <1>2, <1>3, <1>4, <1>6 DEF Hears, Reading, Tells
<1>8. Link(r)'
  BY <1>0, <1>2, <1>3, <1>4, <1>7 DEF Link, Engaged, Registered
<1>9. Seat(r)'
  BY <1>0, <1>2, <1>4, <1>5 DEF Seat, Screen, Answers, Busy, Publishes, Current, Registered
<1> QED BY <1>0, <1>2, <1>3, <1>4, <1>8, <1>9, OneRun DEF SameRun

LEMMA CompareSettles ==
    ASSUME TypeInv, LinkInv, SeatInv, NEW r \in Runs, Compare(r)
    PROVE  LinkInv' /\ SeatInv'
<1> DEFINE n == session[r]
           doc == n.reader.doc
           w == workspace[r]
<1>0. /\ Link(r) /\ Seat(r) /\ Store(r) \in Stores /\ store[Store(r)].pending \in Nat
      /\ n \in Session /\ session \in [Runs -> Session] /\ doc \in Doc /\ w \in Doc
  BY RunFacts, SessionParts DEF LinkInv, SeatInv, TypeInv, StoreState
<1>1. /\ n.reader.stage = "compare"
      /\ UNCHANGED <<generation, record, conn, run, workspace, store, pub>>
  BY DEF Compare, service
<1>2. State' = State /\ (Tells(r) <=> Tells(r)')
  BY <1>1 DEF State, Tells
\* It is enough to say what the step does to this session.
<1>3. ASSUME NEW x \in Runs, x # r PROVE session'[x] = session[x]
  BY <1>0, <1>3 DEF Compare, Emitted
<1>4. ASSUME session'[r].gen = n.gen, session'[r].initial = n.initial,
             Elems(n.events) \subseteq Elems(session'[r].events),
             doc = record => Hears(r)' \/ ~Reading(r),
             doc = record /\ Seat(r) /\ Current(r) /\ run[r].stage = "receive"
                => Answers(r)' \/ store[Store(r)].pending = 0
      PROVE  LinkInv' /\ SeatInv'
  <2>1. Engaged(r) /\ Registered(r) => Hears(r)'
    BY <1>0, <1>1, <1>2, <1>4 DEF Link, Hears, Engaged, Registered, Reading
  <2>2. Link(r)'
    BY <1>0, <1>1, <1>4, <2>1 DEF Link, Engaged, Registered
  <2>3. Current(r) /\ run[r].stage = "receive" /\ store[Store(r)].pending # 0 /\ Registered(r)
           => Answers(r)'
    BY <1>0, <1>1, <1>2, <1>4 DEF Seat, Screen, Answers, Busy, Errs, Publishes
  <2>4. Seat(r)'
    BY <1>0, <1>1, <2>3 DEF Seat, Screen, Publishes, Current, Registered
  <2> QED BY <1>0, <1>1, <1>3, <2>2, <2>4, OneRun DEF SameRun
<1>5. ASSUME NEW k \in {"update", "ack"}, Emitted(r, [kind |-> k, doc |-> doc])
      PROVE  /\ session'[r].gen = n.gen /\ session'[r].initial = n.initial
             /\ Elems(session'[r].events) = Elems(n.events) \cup {[kind |-> k, doc |-> doc]}
  <2>1. [kind |-> k, doc |-> doc] \in Event
    BY <1>0 DEF Event
  <2> QED BY <1>5, <2>1, EmittedParts
<1>6. CASE Later(doc, w) /\ Emitted(r, [kind |-> "update", doc |-> doc])
  <2> DEFINE e == [kind |-> "update", doc |-> doc]
  <2>1. /\ session'[r].gen = n.gen /\ session'[r].initial = n.initial
        /\ Elems(session'[r].events) = Elems(n.events) \cup {e}
    BY <1>5, <1>6
  <2>2. Answers(r)'
    <3>1. e \in Elems(session'[r].events) /\ e.kind = "update" /\ Later(e.doc, workspace'[r])
      BY <1>1, <1>6, <2>1
    <3> QED BY <3>1 DEF Answers
  <2>3. doc = record => Hears(r)' \/ ~Reading(r)
    BY <1>1, <2>1 DEF Hears, Reading
  <2> QED BY <1>4, <2>1, <2>2, <2>3
<1>7. CASE ~Later(doc, w) /\ ~Later(w, doc) /\ Emitted(r, [kind |-> "ack", doc |-> doc])
  <2> DEFINE e == [kind |-> "ack", doc |-> doc]
  <2>1. /\ session'[r].gen = n.gen /\ session'[r].initial = n.initial
        /\ Elems(session'[r].events) = Elems(n.events) \cup {e}
    BY <1>5, <1>7
  <2>2. doc.rev = w.rev /\ w.rev \in Nat
    BY <1>0, <1>7, DocParts DEF Later
  <2>3. Seat(r) /\ Current(r) /\ run[r].stage = "receive" => Answers(r)'
    <3>1. e \in Elems(session'[r].events) /\ e.kind = "ack" /\ e.doc.rev = w.rev
      BY <2>1, <2>2
    <3>2. SUFFICES ASSUME Seat(r), Current(r), run[r].stage = "receive" PROVE Answers(r)'
      OBVIOUS
    <3>3. store[Store(r)].pending <= w.rev
      BY <3>2 DEF Seat, Screen
    <3> QED BY <1>0, <1>1, <2>2, <3>1, <3>3 DEF Answers
  <2>4. doc = record => Hears(r)' \/ ~Reading(r)
    BY <1>1, <1>7 DEF Hears, Reading, UpTo
  <2> QED BY <1>4, <2>1, <2>3, <2>4
<1>8. CASE Later(w, doc) /\ session' = [session EXCEPT ![r].reader = [stage |-> "publish", doc |-> w]]
  <2>1. /\ session'[r].gen = n.gen /\ session'[r].initial = n.initial
        /\ session'[r].events = n.events /\ session'[r].reader.stage = "publish"
    BY <1>0, <1>8 DEF Session
  <2>2. Answers(r)'
    BY <2>1 DEF Answers, Busy
  <2>3. ~Later(doc, w)
    BY <1>0, <1>8, LaterIsOrder DEF UpTo
  <2>4. doc = record => Hears(r)' \/ ~Reading(r)
    BY <1>1, <2>3 DEF Hears, Reading, UpTo
  <2> QED BY <1>4, <2>1, <2>2, <2>4
<1>9. CASE doc.rev = 0 /\ w.rev = 0 /\ session' = [session EXCEPT ![r].reader = NoReader]
  <2>1. /\ session'[r].gen = n.gen /\ session'[r].initial = n.initial
        /\ session'[r].events = n.events
    BY <1>0, <1>9 DEF Session
  <2>2. doc = NoDoc /\ w = NoDoc
    BY <1>0, <1>9, DocParts
  <2>3. ~Later(doc, w)
    BY <2>2, NoDocType, LaterIsOrder DEF UpTo
  <2>4. doc = record => Hears(r)' \/ ~Reading(r)
    BY <1>1, <2>3 DEF Hears, Reading, UpTo
  <2>5. Seat(r) /\ Current(r) /\ run[r].stage = "receive" => store[Store(r)].pending = 0
    BY <1>0, <1>9 DEF Seat, Screen
  <2> QED BY <1>4, <2>1, <2>4, <2>5
<1> QED BY <1>6, <1>7, <1>8, <1>9 DEF Compare

LEMMA DialSettles ==
    ASSUME TypeInv, LinkInv, SeatInv, NEW r \in Runs, Dial(r)
    PROVE  LinkInv' /\ SeatInv'
<1>0. /\ Link(r) /\ Seat(r) /\ Store(r) \in Stores /\ generation \in Nat
      /\ conn \in [Runs -> Conn] /\ run \in [Runs -> RunState] /\ run[r] \in RunState
  BY RunFacts DEF LinkInv, SeatInv, TypeInv
<1>1. /\ run[r].stage = "connect" /\ Joins(r) /\ run' = [run EXCEPT ![r].stage = "open"]
      /\ UNCHANGED <<generation, record, session, workspace, store, pub>>
  BY DEF Dial, service
<1>2. /\ conn'[r].phase = "joined" /\ conn'[r].down = << >>
      /\ conn'[r].greeting.gen = generation /\ conn'[r].greeting.doc = record
      /\ \A x \in Runs : x # r => conn'[x] = conn[x]
  BY <1>0, <1>1 DEF Joins, NoConn
<1>3. run'[r].stage = "open" /\ \A x \in Runs : x # r => run'[x] = run[x]
  BY <1>0, <1>1 DEF RunState
<1>4. Link(r)'
  BY <1>0, <1>1, <1>2, <1>3, ElemsEmpty DEF Link, Hears
<1>5. Seat(r)'
  BY <1>0, <1>1, <1>3 DEF Seat, Current
<1> QED BY <1>0, <1>1, <1>2, <1>3, <1>4, <1>5, OneRun DEF SameRun

LEMMA OpenSettles ==
    ASSUME TypeInv, LinkInv, SeatInv, NEW r \in Runs, Open(r)
    PROVE  LinkInv' /\ SeatInv'
<1> DEFINE h == Head(conn[r].down)
<1>0. /\ Link(r) /\ Seat(r) /\ Store(r) \in Stores /\ generation \in Nat
      /\ session \in [Runs -> Session] /\ run \in [Runs -> RunState] /\ run[r] \in RunState
  BY RunFacts DEF LinkInv, SeatInv, TypeInv
<1>1. /\ run[r].stage = "open" /\ conn[r].down # << >> /\ conn' = [conn EXCEPT ![r].down = Tail(@)]
      /\ run' = [run EXCEPT ![r].stage = "sync"]
      /\ session' = [session EXCEPT ![r] = [NoSession EXCEPT !.gen = h.gen, !.initial = h.doc]]
      /\ UNCHANGED <<generation, record, workspace, store, pub>>
  BY DEF Open, service
<1>2. /\ h \in Message /\ Elems(conn[r].down) = {h} \cup Elems(conn'[r].down)
      /\ conn'[r].phase = conn[r].phase
      /\ conn'[r].greeting = conn[r].greeting
      /\ \A x \in Runs : x # r => conn'[x] = conn[x]
  BY <1>1, TakenParts
<1>3. /\ run'[r].stage = "sync" /\ \A x \in Runs : x # r => run'[x] = run[x]
      /\ session'[r].gen = h.gen /\ session'[r].initial = h.doc
      /\ \A x \in Runs : x # r => session'[x] = session[x]
  BY <1>0, <1>1 DEF RunState, NoSession
<1>4. State' = State /\ State.doc = record
  BY <1>1 DEF State
<1> HIDE DEF h
<1>5. Registered(r) => Hears(r)'
  BY <1>0, <1>1, <1>2, <1>3, <1>4 DEF Link, Engaged, Hears, Tells, Reading, Registered
<1>6. Link(r)'
  BY <1>0, <1>1, <1>2, <1>3, <1>5 DEF Link, Engaged, Registered
<1>7. Seat(r)'
  BY <1>0, <1>1, <1>3 DEF Seat, Current
<1> QED BY <1>0, <1>1, <1>2, <1>3, <1>6, <1>7, OneRun DEF SameRun

LEMMA SyncSettles ==
    ASSUME TypeInv, LinkInv, SeatInv, NEW r \in Runs, Sync(r)
    PROVE  LinkInv' /\ SeatInv'
<1> DEFINE n == session[r]
           current == Applied(workspace[r], n.initial)
           put == PutOf(r, current)
<1>0. /\ Link(r) /\ Seat(r) /\ Store(r) \in Stores /\ conn \in [Runs -> Conn] /\ conn[r] \in Conn
      /\ session \in [Runs -> Session] /\ run \in [Runs -> RunState] /\ run[r] \in RunState
      /\ n \in Session /\ n.initial \in Doc /\ workspace \in [Runs -> Doc] /\ workspace[r] \in Doc
  BY RunFacts, SessionParts DEF LinkInv, SeatInv, TypeInv
<1>1. /\ run[r].stage = "sync" /\ workspace' = [workspace EXCEPT ![r] = current]
      /\ conn' \in {conn, [conn EXCEPT ![r].up = Append(@, put)]}
      /\ session' = [session EXCEPT ![r].initial = NoDoc]
      /\ \E t \in {"saving", "synced"} : run' = [run EXCEPT ![r].stage = t]
      /\ UNCHANGED <<generation, record, store, pub>>
  BY DEF Sync, service
<1>2. UpTo(n.initial, current)
  BY <1>0, AppliedGrows
<1> HIDE DEF put, current
<1>3. /\ conn'[r].phase = conn[r].phase /\ conn'[r].down = conn[r].down
      /\ conn'[r].greeting = conn[r].greeting
      /\ \A x \in Runs : x # r => conn'[x] = conn[x]
  <2>1. CASE conn' = conn
    BY <2>1
  <2>2. CASE conn' = [conn EXCEPT ![r].up = Append(@, put)]
    BY <1>0, <2>2 DEF Conn
  <2> QED BY <1>1, <2>1, <2>2
<1>4. /\ run'[r].stage \in {"saving", "synced"} /\ \A x \in Runs : x # r => run'[x] = run[x]
      /\ session'[r].gen = n.gen /\ \A x \in Runs : x # r => session'[x] = session[x]
      /\ workspace'[r] = current /\ \A x \in Runs : x # r => workspace'[x] = workspace[x]
  BY <1>0, <1>1 DEF RunState, Session
<1>5. State' = State
  BY <1>1 DEF State
<1>6. Registered(r) => Hears(r)'
  BY <1>0, <1>1, <1>2, <1>3, <1>4, <1>5 DEF Link, Engaged, Hears, Tells, Reading, Registered
<1>7. Link(r)'
  BY <1>0, <1>1, <1>3, <1>4, <1>6 DEF Link, Engaged, Registered
<1>8. Seat(r)'
  BY <1>0, <1>1, <1>4 DEF Seat, Current
<1> QED BY <1>0, <1>1, <1>3, <1>4, <1>7, <1>8, OneRun DEF SameRun

LEMMA SaveSyncedSettles ==
    ASSUME TypeInv, LinkInv, SeatInv, NEW r \in Runs, SaveSynced(r)
    PROVE  LinkInv' /\ SeatInv'
<1>0. /\ Link(r) /\ Seat(r) /\ Store(r) \in Stores /\ run \in [Runs -> RunState] /\ run[r] \in RunState
  BY RunFacts DEF LinkInv, SeatInv, TypeInv
<1>1. /\ run[r].stage = "saving" /\ run' = [run EXCEPT ![r].stage = "synced"]
      /\ UNCHANGED <<generation, record, conn, session, workspace, store, pub>>
  BY DEF SaveSynced, service
<1>2. run'[r].stage = "synced" /\ \A x \in Runs : x # r => run'[x] = run[x]
  BY <1>0, <1>1 DEF RunState
<1>3. State' = State
  BY <1>1 DEF State
<1>4. Link(r)'
  BY <1>0, <1>1, <1>2, <1>3 DEF Link, Engaged, Hears, Tells, Reading, Registered
<1>5. Seat(r)'
  BY <1>0, <1>1, <1>2 DEF Seat, Current
<1> QED BY <1>0, <1>1, <1>2, <1>4, <1>5, OneRun DEF SameRun

LEMMA ConnectedSettles ==
    ASSUME TypeInv, LinkInv, SeatInv, NEW r \in Runs, Connected(r)
    PROVE  LinkInv' /\ SeatInv'
<1> DEFINE s == Store(r)
           d == [store[s] EXCEPT !.connected = TRUE, !.synced = TRUE, !.pending = 0,
                                 !.shown = workspace[r], !.session = run[r].attempt]
<1>0. /\ Link(r) /\ Seat(r) /\ s \in Stores /\ run \in [Runs -> RunState] /\ run[r] \in RunState
      /\ store \in [Stores -> StoreState] /\ store[s] \in StoreState /\ workspace[r].rev \in Nat
      /\ conn \in [Runs -> Conn]
  BY RunFacts, DocParts DEF LinkInv, SeatInv, TypeInv
<1>1. /\ run[r].stage = "synced" /\ UNCHANGED <<generation, record, session, workspace, pub>>
  BY DEF Connected
<1>2. CASE Current(r)
  <2>1. /\ run' = [run EXCEPT ![r].stage = "receive"] /\ store' = [store EXCEPT ![s] = d]
        /\ UNCHANGED conn
    BY <1>2 DEF Connected
  <2>2. d.id = store[s].id /\ d.synced /\ d.pending = 0 /\ d.shown = workspace[r]
    BY <1>0 DEF StoreState
  <2> HIDE DEF d
  <2>3. /\ run'[r].stage = "receive" /\ \A x \in Runs : x # r => run'[x] = run[x]
        /\ store'[s] = d /\ \A x \in Stores : x # s => store'[x] = store[x]
    BY <1>0, <2>1 DEF RunState
  <2>4. State' = State
    BY <1>1 DEF State
  <2>5. Link(r)'
    BY <1>0, <1>1, <2>1, <2>3, <2>4 DEF Link, Engaged, Hears, Tells, Reading, Registered
  <2>6. Seat(r)'
    BY <1>0, <1>1, <2>2, <2>3 DEF Seat, Screen
  <2>7. r[2] = store[s].id
    BY <1>2 DEF Current
  <2> QED BY <1>0, <1>1, <2>1, <2>2, <2>3, <2>5, <2>6, <2>7, OneRun DEF SameRun
<1>3. CASE ~Current(r)
  <2>1. /\ run' = [run EXCEPT ![r].stage = "done"] /\ Closed(r) /\ UNCHANGED store
    BY <1>3 DEF Connected
  <2>2. /\ run'[r].stage = "done" /\ \A x \in Runs : x # r => run'[x] = run[x]
        /\ conn'[r] = [NoConn EXCEPT !.phase = "closed"]
        /\ \A x \in Runs : x # r => conn'[x] = conn[x]
    BY <1>0, <2>1 DEF RunState, Closed
  <2>3. Link(r)'
    BY <1>0, <1>1, <2>2, GoneLink
  <2>4. Seat(r)'
    BY <1>0, <1>1, <1>3, <2>1 DEF Seat, Current
  <2> QED BY <1>0, <1>1, <2>1, <2>2, <2>3, <2>4, OneRun DEF SameRun
<1> QED BY <1>2, <1>3

\* An event is taken by the client.
LEMMA HandledParts ==
    ASSUME TypeInv, NEW r \in Runs, session[r].events # << >>,
           session' = [session EXCEPT ![r].events = Tail(@)]
    PROVE  /\ Head(session[r].events) \in Event
           /\ Elems(session[r].events) = {Head(session[r].events)} \cup Elems(session'[r].events)
           /\ session'[r].gen = session[r].gen /\ session'[r].initial = session[r].initial
           /\ session'[r].reader = session[r].reader
           /\ \A x \in Runs : x # r => session'[x] = session[x]
<1>1. session[r] \in Session /\ session[r].events \in Seq(Event) /\ session \in [Runs -> Session]
  BY SessionParts DEF TypeInv
<1>2. session'[r] = [session[r] EXCEPT !.events = Tail(session[r].events)]
  BY <1>1
<1>3. /\ session'[r].events = Tail(session[r].events) /\ session'[r].gen = session[r].gen
      /\ session'[r].initial = session[r].initial /\ session'[r].reader = session[r].reader
  BY <1>1, <1>2 DEF Session
<1>4. /\ Head(session[r].events) \in Event
      /\ Elems(session[r].events) = {Head(session[r].events)} \cup Elems(Tail(session[r].events))
  BY <1>1, ElemsOf, QueueParts
<1> QED BY <1>1, <1>3, <1>4

LEMMA HandleUpdateSettles ==
    ASSUME TypeInv, LinkInv, SeatInv, NEW r \in Runs, HandleUpdate(r)
    PROVE  LinkInv' /\ SeatInv'
<1> DEFINE s == Store(r)
           e == Head(session[r].events)
           w == workspace[r]
           d == ShownRemote(r, e.doc)
<1>0. /\ Link(r) /\ Seat(r) /\ s \in Stores /\ store \in [Stores -> StoreState]
      /\ store[s] \in StoreState /\ w \in Doc /\ workspace \in [Runs -> Doc] /\ record \in Doc
      /\ store[s].pending \in Nat
  BY RunFacts DEF LinkInv, SeatInv, TypeInv, StoreState
<1>1. /\ run[r].stage = "receive" /\ session[r].events # << >> /\ e.kind = "update"
      /\ pub[s].stage = "idle" /\ Current(r)
      /\ workspace' = [workspace EXCEPT ![r] = Applied(w, e.doc)]
      /\ store' = [store EXCEPT ![s] = d]
      /\ session' = [session EXCEPT ![r].events = Tail(@)]
      /\ UNCHANGED <<generation, record, conn, run, pub>>
  BY <1>0 DEF HandleUpdate, Handles, SendMuFree, Active, service, TypeInv
<1>2. /\ e \in Event /\ Elems(session[r].events) = {e} \cup Elems(session'[r].events)
      /\ session'[r].gen = session[r].gen /\ session'[r].reader = session[r].reader
      /\ \A x \in Runs : x # r => session'[x] = session[x]
  BY <1>1, HandledParts
<1> HIDE DEF e
<1>3. e.doc \in Doc
  BY <1>2 DEF Event
<1>4. /\ workspace'[r] = Applied(w, e.doc) /\ workspace'[r] \in Doc /\ UpTo(w, workspace'[r])
      /\ UpTo(e.doc, workspace'[r]) /\ \A x \in Runs : x # r => workspace'[x] = workspace[x]
  BY <1>0, <1>1, <1>3, AppliedGrows
<1>5. /\ d.id = store[s].id /\ d.running = store[s].running /\ d.session = store[s].session
      /\ Later(e.doc, w) => d.shown = e.doc /\ d.pending = 0 /\ d.synced
      /\ ~Later(e.doc, w) => d.shown = w /\ d.pending = store[s].pending /\ d.synced = store[s].synced
  BY <1>0 DEF ShownRemote, StoreState
<1> HIDE DEF d
<1>6. store'[s] = d /\ \A x \in Stores : x # s => store'[x] = store[x]
  BY <1>0, <1>1
<1>7. State' = State
  BY <1>1 DEF State
<1>8. Hears(r) => Hears(r)'
  <2>1. e = [kind |-> "update", doc |-> record] => UpTo(record, workspace'[r])
    BY <1>4
  <2>2. UpTo(record, w) => UpTo(record, workspace'[r])
    BY <1>0, <1>4, LaterIsOrder
  <2> QED BY <1>1, <1>2, <1>7, <2>1, <2>2 DEF Hears, Reading, Tells
<1>9. Link(r)'
  BY <1>0, <1>1, <1>2, <1>8 DEF Link, Engaged, Registered
<1>10. Screen(r)
  BY <1>0, <1>1 DEF Seat
<1>11. Screen(r)'
  <2>1. CASE Later(e.doc, w)
    <3>1. workspace'[r] = e.doc /\ e.doc.rev \in Nat
      BY <1>3, <1>4, <2>1, DocParts DEF Applied
    <3> QED BY <1>5, <1>6, <2>1, <3>1 DEF Screen
  <2>2. CASE ~Later(e.doc, w)
    <3>1. workspace'[r] = w
      BY <1>4, <2>2 DEF Applied
    <3>2. Answers(r) => Answers(r)'
      BY <1>1, <1>2, <1>5, <1>6, <1>7, <2>2, <3>1 DEF Answers, Busy, Errs, Publishes, Tells
    <3> QED BY <1>1, <1>5, <1>6, <1>10, <2>2, <3>1, <3>2 DEF Screen, Registered
  <2> QED BY <2>1, <2>2
<1>12. Seat(r)'
  BY <1>0, <1>1, <1>5, <1>6, <1>11 DEF Seat, Current
<1>13. r[2] = store[s].id
  BY <1>1 DEF Current
<1> QED BY <1>0, <1>1, <1>2, <1>4, <1>5, <1>6, <1>9, <1>12, <1>13, OneRun DEF SameRun

LEMMA HandleAckSettles ==
    ASSUME TypeInv, LinkInv, SeatInv, NEW r \in Runs, HandleAck(r)
    PROVE  LinkInv' /\ SeatInv'
<1> DEFINE s == Store(r)
           e == Head(session[r].events)
           answered == store[s].pending # 0 /\ e.doc.rev >= store[s].pending
           d == [store[s] EXCEPT !.pending = 0, !.synced = TRUE]
<1>0. /\ Link(r) /\ Seat(r) /\ s \in Stores /\ store \in [Stores -> StoreState]
      /\ store[s] \in StoreState /\ workspace[r].rev \in Nat
  BY RunFacts, DocParts DEF LinkInv, SeatInv, TypeInv
<1>1. /\ run[r].stage = "receive" /\ session[r].events # << >> /\ e.kind = "ack" /\ Current(r)
      /\ store' = IF answered THEN [store EXCEPT ![s] = d] ELSE store
      /\ session' = [session EXCEPT ![r].events = Tail(@)]
      /\ UNCHANGED <<generation, record, conn, run, workspace, pub>>
  BY <1>0 DEF HandleAck, Handles, service, TypeInv
<1>2. /\ e \in Event /\ Elems(session[r].events) = {e} \cup Elems(session'[r].events)
      /\ session'[r].gen = session[r].gen /\ session'[r].reader = session[r].reader
      /\ \A x \in Runs : x # r => session'[x] = session[x]
  BY <1>1, HandledParts
<1>3. /\ d.id = store[s].id /\ d.pending = 0 /\ d.synced /\ d.shown = store[s].shown
      /\ d.running = store[s].running /\ d.session = store[s].session
  BY <1>0 DEF StoreState
<1> HIDE DEF e, d
<1>4. /\ store'[s] = IF answered THEN d ELSE store[s]
      /\ \A x \in Stores : x # s => store'[x] = store[x]
  BY <1>0, <1>1
<1>5. State' = State
  BY <1>1 DEF State
<1>6. Hears(r) => Hears(r)'
  <2>1. e # [kind |-> "update", doc |-> record]
    BY <1>1
  <2> QED BY <1>1, <1>2, <1>5, <2>1 DEF Hears, Reading, Tells
<1>7. Link(r)'
  BY <1>0, <1>1, <1>2, <1>6 DEF Link, Engaged, Registered
<1>8. Screen(r)
  BY <1>0, <1>1 DEF Seat
<1>9. Screen(r)'
  <2>1. Publishes(r) => Publishes(r)'
    BY <1>1, <1>3, <1>4 DEF Publishes
  <2>2. CASE answered
    BY <1>0, <1>1, <1>3, <1>4, <1>8, <2>1, <2>2 DEF Screen
  <2>3. CASE ~answered
    <3>1. store'[s] = store[s]
      BY <1>4, <2>3
    <3>2. Answers(r) /\ store[s].pending # 0 => Answers(r)'
      BY <1>1, <1>2, <1>5, <2>3, <3>1 DEF Answers, Busy, Errs, Publishes, Tells
    <3> QED BY <1>1, <1>8, <2>1, <3>1, <3>2 DEF Screen, Registered
  <2> QED BY <2>2, <2>3
<1>10. store'[s].id = store[s].id /\ r[2] = store[s].id
  BY <1>1, <1>3, <1>4 DEF Current
<1>11. Seat(r)'
  BY <1>0, <1>1, <1>3, <1>4, <1>9 DEF Seat, Current
<1> QED BY <1>0, <1>1, <1>2, <1>4, <1>7, <1>10, <1>11, OneRun DEF SameRun

\* What Leave, fail and setReconnecting leave of a store.
LEMMA EndedParts ==
    ASSUME NEW st \in StoreState
    PROVE  Ended(st).id = st.id /\ ~Ended(st).running
  BY DEF Ended, StoreState

LEMMA RunOverSettles ==
    ASSUME TypeInv, LinkInv, SeatInv, NEW r \in Runs, HandleError(r) \/ Lost(r) \/ RunEnds(r)
    PROVE  LinkInv' /\ SeatInv'
<1> DEFINE s == Store(r)
           d == [store[s] EXCEPT !.connected = FALSE, !.synced = FALSE, !.session = 0]
<1>0. /\ Link(r) /\ Seat(r) /\ s \in Stores /\ store \in [Stores -> StoreState] /\ store[s] \in StoreState
      /\ run \in [Runs -> RunState] /\ run[r] \in RunState
      /\ conn \in [Runs -> Conn] /\ session \in [Runs -> Session]
  BY RunFacts DEF LinkInv, SeatInv, TypeInv
<1>1. /\ Closed(r) /\ UNCHANGED <<generation, record, workspace, pub>>
      /\ session' \in {session, [session EXCEPT ![r] = NoSession]}
  BY DEF HandleError, Lost, RunEnds, Retry
<1>2. /\ conn'[r] = [NoConn EXCEPT !.phase = "closed"] /\ \A x \in Runs : x # r => conn'[x] = conn[x]
      /\ session'[r].gen \in {session[r].gen, 0} /\ \A x \in Runs : x # r => session'[x] = session[x]
  BY <1>0, <1>1 DEF Closed, NoSession
<1>3. Link(r)'
  BY <1>0, <1>1, <1>2, GoneLink
<1>4. d.id = store[s].id /\ d.session = 0
  BY <1>0 DEF StoreState
<1> HIDE DEF d
<1>5. /\ run'[r].stage \in {"done", "connect"} /\ \A x \in Runs : x # r => run'[x] = run[x]
      /\ \A x \in Stores : x # s => store'[x] = store[x]
      /\ \/ Current(r) /\ (store'[s] = d \/ store'[s] = Ended(store[s]))
         \/ ~Current(r) /\ store' = store
  <2>1. CASE HandleError(r)
    BY <1>0, <2>1 DEF HandleError, RunState
  <2>2. CASE Lost(r) /\ run[r].attempt < Attempts
    BY <1>0, <2>2 DEF Lost, Retry, d
  <2>3. CASE Lost(r) /\ ~(run[r].attempt < Attempts)
    BY <1>0, <2>3 DEF Lost, Retry, RunState
  <2>4. CASE RunEnds(r)
    BY <1>0, <2>4 DEF RunEnds, RunState
  <2> QED BY <2>1, <2>2, <2>3, <2>4
<1>6. run[r].stage # "idle"
  BY DEF HandleError, Handles, Lost, RunEnds
<1>7. store'[s].id = store[s].id /\ (Current(r) => r[2] = store[s].id)
  BY <1>0, <1>4, <1>5, EndedParts DEF Current
<1>8. Seat(r)'
  BY <1>0, <1>4, <1>5, <1>6, <1>7, EndedParts DEF Seat, Current
<1>9. store'[s] = store[s] \/ r[2] = store[s].id
  BY <1>5, <1>7
<1> QED BY <1>0, <1>1, <1>2, <1>3, <1>5, <1>7, <1>8, <1>9, OneRun DEF SameRun

(***************************************************************************)
(* A publish and the session it is for.                                     *)
(***************************************************************************)

\* The session of a current run is that of its attempt; a publish that is under
\* way is of this attempt or an earlier one, and while its session lasts its
\* document is the workspace.
Turn(r) ==
    /\ Current(r) /\ store[Store(r)].session # 0 => store[Store(r)].session = run[r].attempt
    /\ pub[Store(r)].stage # "idle" /\ pub[Store(r)].id = r[2] =>
         /\ pub[Store(r)].session # 0 /\ pub[Store(r)].session <= run[r].attempt
         /\ pub[Store(r)].doc.rev # 0
         /\ run[r].stage \notin {"receive", "done"} => pub[Store(r)].session < run[r].attempt
         /\ Current(r) /\ run[r].stage = "receive"
              /\ pub[Store(r)].session = store[Store(r)].session => pub[Store(r)].doc = workspace[r]

TurnInv == \A r \in Runs : Turn(r)

LEMMA TurnFrame ==
    ASSUME NEW r \in Runs, Turn(r), run'[r] = run[r], workspace'[r] = workspace[r],
           store'[Store(r)] = store[Store(r)], pub'[Store(r)] = pub[Store(r)]
    PROVE  Turn(r)'
  BY DEF Turn, Current

\* A run that is not current has only to stay where it is.
LEMMA TurnOther ==
    ASSUME NEW r \in Runs, Turn(r), run'[r] = run[r], ~Current(r)',
           \/ pub'[Store(r)] = pub[Store(r)] \/ pub'[Store(r)].stage = "idle"
           \/ pub'[Store(r)].id # r[2]
    PROVE  Turn(r)'
  BY DEF Turn

LEMMA OneTurn ==
    ASSUME TurnInv, NEW r \in Runs, Turn(r)',
           \A x \in Runs : x # r => run'[x] = run[x] /\ workspace'[x] = workspace[x],
           UNCHANGED pub, \A s \in Stores : s # Store(r) => store'[s] = store[s],
           store'[Store(r)].id = store[Store(r)].id,
           \/ store'[Store(r)] = store[Store(r)]
           \/ r[2] = store[Store(r)].id
           \/ ~store'[Store(r)].running
    PROVE  TurnInv'
<1>1. ASSUME NEW x \in Runs, x # r PROVE Turn(x)'
  <2>1. Turn(x) /\ Store(x) \in Stores /\ run'[x] = run[x] /\ workspace'[x] = workspace[x]
    BY <1>1, RunFacts DEF TurnInv
  <2>2. CASE store'[Store(x)] = store[Store(x)]
    BY <2>1, <2>2, TurnFrame
  <2>3. CASE store'[Store(x)] # store[Store(x)]
    <3>1. Store(x) = Store(r)
      BY <2>1, <2>3
    <3>2. x[2] # r[2]
      BY <1>1, <3>1, RunFacts
    <3>3. ~Current(x)'
      BY <2>3, <3>1, <3>2 DEF Current
    <3> QED BY <2>1, <3>3, TurnOther
  <2> QED BY <2>2, <2>3
<1> QED BY <1>1 DEF TurnInv

LEMMA GoroutineTurns ==
    ASSUME TypeInv, TurnInv, SeatInv, NEW r \in Runs, Goroutine(r)
    PROVE  TurnInv'
<1> DEFINE s == Store(r)
<1>0. /\ Turn(r) /\ Seat(r) /\ s \in Stores /\ store \in [Stores -> StoreState] /\ store[s] \in StoreState
      /\ run \in [Runs -> RunState] /\ run[r] \in RunState /\ workspace \in [Runs -> Doc]
      /\ run[r].attempt \in Nat /\ pub[s].session \in Nat
  BY RunFacts DEF TurnInv, SeatInv, TypeInv, RunState, PubState
\* The goroutine moves on within an attempt.
<1>1. CASE Dial(r) \/ Open(r) \/ SaveSynced(r) \/ Sync(r)
  <2>1. PICK t \in {"open", "sync", "saving", "synced"} : run' = [run EXCEPT ![r].stage = t]
    BY <1>1 DEF Dial, Open, SaveSynced, Sync
  <2>2. /\ run[r].stage \in {"connect", "open", "sync", "saving"} /\ UNCHANGED <<store, pub>>
        /\ workspace' = workspace \/ workspace' = [workspace EXCEPT ![r] = Applied(@, session[r].initial)]
    BY <1>1 DEF Dial, Open, SaveSynced, Sync
  <2>3. /\ run'[r].stage = t /\ run'[r].attempt = run[r].attempt
        /\ \A x \in Runs : x # r => run'[x] = run[x] /\ workspace'[x] = workspace[x]
    BY <1>0, <2>1, <2>2 DEF RunState
  <2>4. Turn(r)'
    BY <1>0, <2>2, <2>3 DEF Turn, Current
  <2> QED BY <1>0, <2>2, <2>3, <2>4, OneTurn
<1>2. CASE Connected(r)
  <2> DEFINE d == [store[s] EXCEPT !.connected = TRUE, !.synced = TRUE, !.pending = 0,
                                   !.shown = workspace[r], !.session = run[r].attempt]
  <2>1. d.id = store[s].id /\ d.session = run[r].attempt
    BY <1>0 DEF StoreState
  <2>2. /\ run[r].stage = "synced" /\ UNCHANGED <<workspace, pub>>
        /\ \/ /\ Current(r) /\ store' = [store EXCEPT ![s] = d]
              /\ run' = [run EXCEPT ![r].stage = "receive"]
           \/ ~Current(r) /\ store' = store /\ run' = [run EXCEPT ![r].stage = "done"]
    BY <1>2 DEF Connected
  <2> HIDE DEF d
  <2>3. /\ run'[r].attempt = run[r].attempt
        /\ \A x \in Runs : x # r => run'[x] = run[x] /\ workspace'[x] = workspace[x]
        /\ \/ Current(r) /\ store'[s] = d /\ (\A x \in Stores : x # s => store'[x] = store[x])
           \/ ~Current(r) /\ store' = store
    BY <1>0, <2>2 DEF RunState
  <2>4. Turn(r)'
    BY <1>0, <2>1, <2>2, <2>3 DEF Turn, Current
  <2>5. store'[s].id = store[s].id /\ (store'[s] = store[s] \/ r[2] = store[s].id)
    BY <2>1, <2>3 DEF Current
  <2> QED BY <1>0, <2>2, <2>3, <2>4, <2>5, OneTurn
\* A remote document is applied while nothing is published.
<1>3. CASE HandleUpdate(r)
  <2> DEFINE d == ShownRemote(r, Head(session[r].events).doc)
  <2>1. /\ pub[s].stage = "idle" /\ Current(r) /\ UNCHANGED <<run, pub>>
        /\ store' = [store EXCEPT ![s] = d]
        /\ workspace' = [workspace EXCEPT ![r] = Applied(@, Head(session[r].events).doc)]
    BY <1>3 DEF HandleUpdate, SendMuFree, Active
  <2>2. d.id = store[s].id /\ d.session = store[s].session /\ d.running = store[s].running
    BY <1>0 DEF ShownRemote, StoreState
  <2> HIDE DEF d
  <2>3. /\ store'[s] = d /\ \A x \in Stores : x # s => store'[x] = store[x]
        /\ \A x \in Runs : x # r => run'[x] = run[x] /\ workspace'[x] = workspace[x]
    BY <1>0, <2>1
  <2>4. Turn(r)' /\ r[2] = store[s].id
    BY <1>0, <2>1, <2>2, <2>3 DEF Turn, Current
  <2> QED BY <1>0, <2>1, <2>2, <2>3, <2>4, OneTurn
<1>4. CASE HandleAck(r)
  <2>1. /\ Current(r) /\ UNCHANGED <<run, pub, workspace>>
        /\ \/ store' = store
           \/ store' = [store EXCEPT ![s].pending = 0, ![s].synced = TRUE]
    BY <1>4 DEF HandleAck
  <2>2. /\ store'[s].id = store[s].id /\ store'[s].session = store[s].session
        /\ store'[s].running = store[s].running
        /\ \A x \in Stores : x # s => store'[x] = store[x]
    BY <1>0, <2>1 DEF StoreState
  <2>3. Turn(r)' /\ r[2] = store[s].id
    BY <1>0, <2>1, <2>2 DEF Turn, Current
  <2> QED BY <1>0, <2>1, <2>2, <2>3, OneTurn
\* The run is over, or a later attempt begins.
<1>5. CASE HandleError(r) \/ Lost(r) \/ RunEnds(r)
  <2> DEFINE d == [store[s] EXCEPT !.connected = FALSE, !.synced = FALSE, !.session = 0]
  <2>1. d.id = store[s].id /\ d.session = 0
    BY <1>0 DEF StoreState
  <2> HIDE DEF d
  <2>2. /\ UNCHANGED <<workspace, pub>> /\ \A x \in Runs : x # r => run'[x] = run[x]
        /\ \A x \in Stores : x # s => store'[x] = store[x]
        /\ \/ run'[r].stage = "done" /\ run'[r].attempt = run[r].attempt
           \/ run'[r].stage = "connect" /\ run'[r].attempt = run[r].attempt + 1
        /\ \/ Current(r) /\ (store'[s] = d \/ store'[s] = Ended(store[s]))
           \/ ~Current(r) /\ store' = store
    <3>1. CASE HandleError(r)
      BY <1>0, <3>1 DEF HandleError, RunState
    <3>2. CASE Lost(r) /\ run[r].attempt < Attempts
      BY <1>0, <3>2 DEF Lost, Retry, d
    <3>3. CASE Lost(r) /\ ~(run[r].attempt < Attempts)
      BY <1>0, <3>3 DEF Lost, Retry, RunState
    <3>4. CASE RunEnds(r)
      BY <1>0, <3>4 DEF RunEnds, RunState
    <3> QED BY <1>5, <3>1, <3>2, <3>3, <3>4
  <2>3. Ended(store[s]).id = store[s].id /\ ~Ended(store[s]).running
    BY <1>0, EndedParts
  <2>4. Turn(r)'
    BY <1>0, <2>1, <2>2, <2>3 DEF Turn, Current
  <2>5. store'[s].id = store[s].id /\ (store'[s] = store[s] \/ r[2] = store[s].id)
    BY <2>1, <2>2, <2>3 DEF Current
  <2> QED BY <1>0, <2>2, <2>4, <2>5, OneTurn
<1> QED BY <1>1, <1>2, <1>3, <1>4, <1>5 DEF Goroutine

(***************************************************************************)
(* The user's steps.                                                        *)
(***************************************************************************)

SettleInv == LinkInv /\ SeatInv /\ TurnInv

\* A publish that is not for r may go on or end without it.
LEMMA PubElsewhere ==
    ASSUME NEW r \in Runs, Link(r), Seat(r), Turn(r), SameRun(r), UNCHANGED <<generation, record>>,
           store'[Store(r)] = store[Store(r)], ~Publishes(r),
           pub'[Store(r)].id # r[2] \/ pub'[Store(r)].stage = "idle"
    PROVE  Link(r)' /\ Seat(r)' /\ Turn(r)'
<1>1. Link(r)'
  BY LinkFrame
<1>2. Seat(r)'
  BY DEF Seat, Screen, Answers, Busy, Errs, Publishes, SameRun, Registered, Tells, State, Current
<1>3. Turn(r)'
  BY DEF Turn, Current, SameRun
<1> QED BY <1>1, <1>2, <1>3

LEMMA SaveDraftSettles ==
    ASSUME TypeInv, SettleInv, NEW s \in Stores, CheckDraft(s) \/ SaveDraft(s)
    PROVE  SettleInv'
<1>1. /\ pub \in [Stores -> PubState] /\ pub[s] \in PubState /\ pub[s].stage # "idle"
      /\ \E x \in {"save", "send"} : pub' = [pub EXCEPT ![s].stage = x]
      /\ UNCHANGED <<generation, record, conn, session, run, workspace, store>>
  BY DEF TypeInv, CheckDraft, SaveDraft, service
<1>2. /\ pub'[s].stage # "idle" /\ pub'[s].id = pub[s].id /\ pub'[s].session = pub[s].session
      /\ pub'[s].doc = pub[s].doc /\ \A x \in Stores : x # s => pub'[x] = pub[x]
  BY <1>1 DEF PubState
<1>3. ASSUME NEW r \in Runs PROVE Link(r)' /\ Seat(r)' /\ Turn(r)'
  <2>1. Link(r) /\ Seat(r) /\ Turn(r) /\ Store(r) \in Stores
    BY RunFacts DEF SettleInv, LinkInv, SeatInv, TurnInv
  <2>2. Publishes(r)' <=> Publishes(r)
    BY <1>1, <1>2, <2>1 DEF Publishes
  <2>3. Link(r)'
    BY <1>1, <2>1, LinkFrame DEF SameRun
  <2>4. Seat(r)'
    BY <1>1, <2>1, <2>2 DEF Seat, Screen, Answers, Busy, Errs, Registered, Tells, State, Current
  <2>5. Turn(r)'
    BY <1>1, <1>2, <2>1 DEF Turn, Current
  <2> QED BY <2>3, <2>4, <2>5
<1> QED BY <1>3 DEF SettleInv, LinkInv, SeatInv, TurnInv

\* A put is sent over a connection, or its loss noticed.
LEMMA SentParts ==
    ASSUME TypeInv, NEW r \in Runs, NEW put \in PutMsg,
           conn' = IF Broken(r) THEN [conn EXCEPT ![r].phase = "closed"]
                   ELSE [conn EXCEPT ![r].up = Append(@, put)]
    PROVE  /\ conn'[r].down = conn[r].down /\ conn'[r].greeting = conn[r].greeting
           /\ Broken(r) => conn'[r].phase = "closed" /\ conn'[r].up = conn[r].up
           /\ ~Broken(r) => conn'[r].phase = conn[r].phase /\ conn'[r].up = Append(conn[r].up, put)
           /\ ~Broken(r) => conn'[r].up # << >>
           /\ \A x \in Runs : x # r => conn'[x] = conn[x]
<1>1. conn \in [Runs -> Conn] /\ conn[r] \in Conn /\ conn[r].up \in Seq(PutMsg)
  BY ConnParts DEF TypeInv
<1>2. CASE Broken(r)
  BY <1>1, <1>2 DEF Conn
<1>3. CASE ~Broken(r)
  <2>1. /\ conn'[r].phase = conn[r].phase /\ conn'[r].up = Append(conn[r].up, put)
        /\ conn'[r].down = conn[r].down /\ conn'[r].greeting = conn[r].greeting
        /\ \A x \in Runs : x # r => conn'[x] = conn[x]
    BY <1>1, <1>3 DEF Conn
  <2>2. Append(conn[r].up, put) # << >>
    BY <1>1
  <2> QED BY <1>3, <2>1, <2>2
<1> QED BY <1>2, <1>3

LEMMA PublishSettles ==
    ASSUME TypeInv, IdInv, PubInv, SettleInv, NEW s \in Stores, Publish(s)
    PROVE  SettleInv'
<1> DEFINE p == pub[s]
           d == [store[s] EXCEPT !.shown = p.doc, !.synced = FALSE, !.pending = p.doc.rev]
<1>1. /\ p.stage = "send" /\ p.id \in 1..store[s].id
      /\ store[s].id \in 0..Starts(s) /\ p \in PubState /\ p.doc \in Doc /\ pub \in [Stores -> PubState]
      /\ store \in [Stores -> StoreState] /\ store[s] \in StoreState /\ workspace \in [Runs -> Doc]
  BY DEF PubInv, IdInv, Publish, TypeInv, PubState
<1>2. PICK r \in Runs : r = <<s, p.id>> /\ Store(r) = s /\ r[2] = p.id
  <2>1. p.id \in 1..Starts(s)
    BY <1>1 DEF Starts
  <2> QED BY <2>1, RunOf
<1> DEFINE here == Current(r) /\ store[s].session = p.session
<1>3. /\ Link(r) /\ Seat(r) /\ Turn(r) /\ workspace[r] \in Doc /\ PutOf(r, p.doc) \in PutMsg
  <2>1. session[r].gen \in Nat
    BY <1>2, SessionParts DEF TypeInv
  <2> QED BY <1>1, <1>2, <2>1 DEF SettleInv, LinkInv, SeatInv, TurnInv, PutOf, PutMsg
<1>4. /\ pub' = [pub EXCEPT ![s] = NoPub]
      /\ here => /\ store' = [store EXCEPT ![s] = d]
                 /\ conn' = IF Broken(r) THEN [conn EXCEPT ![r].phase = "closed"]
                            ELSE [conn EXCEPT ![r].up = Append(@, PutOf(r, p.doc))]
      /\ ~here => UNCHANGED <<store, conn>>
      /\ UNCHANGED <<generation, record, session, run, workspace>>
  BY <1>2 DEF Publish, service
<1>5. pub'[s].stage = "idle" /\ \A x \in Stores : x # s => pub'[x] = pub[x]
  BY <1>1, <1>4 DEF NoPub
<1>6. /\ d.id = store[s].id /\ d.session = store[s].session /\ d.running = store[s].running
      /\ d.shown = p.doc /\ d.pending = p.doc.rev
  BY <1>1 DEF StoreState
<1>7. p.doc.rev \in Nat /\ workspace[r].rev \in Nat
  BY <1>1, <1>3, DocParts
<1> HIDE DEF d, here
<1>8. CASE ~here
  <2>1. ASSUME NEW x \in Runs PROVE Link(x)' /\ Seat(x)' /\ Turn(x)'
    <3>1. Link(x) /\ Seat(x) /\ Turn(x) /\ Store(x) \in Stores /\ SameRun(x)
      BY <1>4, <1>8, RunFacts DEF SettleInv, LinkInv, SeatInv, TurnInv, SameRun
    <3>2. CASE Store(x) # s
      BY <1>4, <1>5, <1>8, <3>1, <3>2, LinkFrame, SeatFrame, TurnFrame DEF SameRun
    <3>3. CASE Store(x) = s /\ Current(x)
      <4>1. ~Publishes(x)
        <5>1. SUFFICES ASSUME Publishes(x) PROVE FALSE
          OBVIOUS
        <5>2. x[2] = p.id /\ x = <<Store(x), x[2]>> /\ store[s].session = p.session
          BY <3>3, <5>1, RunFacts DEF Publishes
        <5>3. x = r
          BY <1>2, <3>3, <5>2
        <5> QED BY <1>8, <3>3, <5>2, <5>3 DEF here
      <4> QED BY <1>4, <1>5, <1>8, <3>1, <3>3, <4>1, PubElsewhere
    <3>4. CASE Store(x) = s /\ ~Current(x)
      <4>1. ~Current(x)' /\ store' = store
        BY <1>4, <1>8, <3>4 DEF Current
      <4> QED BY <1>4, <1>5, <3>1, <3>4, <4>1, LinkFrame, SeatOther, TurnOther DEF SameRun
    <3> QED BY <3>2, <3>3, <3>4
  <2> QED BY <2>1 DEF SettleInv, LinkInv, SeatInv, TurnInv
<1>9. CASE here
  <2>1. Current(r) /\ p.session # 0 /\ store[s].session = p.session
    BY <1>1, <1>2, <1>3, <1>9 DEF here, Turn
  <2>2. run[r].stage = "receive" /\ p.doc = workspace[r] /\ r[2] = store[s].id
    BY <1>1, <1>2, <1>3, <2>1 DEF Seat, Turn, Current
  <2>3. /\ conn'[r].down = conn[r].down /\ conn'[r].greeting = conn[r].greeting
        /\ Broken(r) => conn'[r].phase = "closed"
        /\ ~Broken(r) => conn'[r].phase = conn[r].phase /\ conn'[r].up # << >>
        /\ \A x \in Runs : x # r => conn'[x] = conn[x]
    BY <1>2, <1>3, <1>4, <1>9, SentParts
  <2>4. store'[s] = d /\ \A x \in Stores : x # s => store'[x] = store[x]
    BY <1>1, <1>4, <1>9
  <2>5. State' = State
    BY <1>4 DEF State
  <2>6. Hears(r) => Hears(r)' \/ Broken(r)
    BY <1>4, <2>3, <2>5 DEF Hears, Tells, Reading
  <2>7. Link(r)'
    BY <1>3, <1>4, <2>3, <2>6 DEF Link, Engaged, Registered, Broken
  <2>8. Seat(r)'
    <3>2. Registered(r)' => conn'[r].up # << >>
      BY <2>3 DEF Registered, Broken
    <3>3. p.doc.rev # 0
      BY <1>1, <1>2, <1>3 DEF Turn
    <3>4. Screen(r)'
      BY <1>2, <1>4, <1>6, <1>7, <2>2, <2>4, <3>2, <3>3 DEF Screen, Answers, Busy
    <3> QED BY <1>2, <1>3, <1>4, <1>6, <2>1, <2>2, <2>4, <3>4 DEF Seat, Current
  <2>9. Turn(r)'
    BY <1>2, <1>3, <1>4, <1>5, <1>6, <2>4 DEF Turn, Current
  <2>10. ASSUME NEW x \in Runs, x # r PROVE Turn(x)'
    <3>1. Turn(x) /\ Store(x) \in Stores
      BY RunFacts DEF SettleInv, TurnInv
    <3>2. CASE Store(x) # s
      BY <1>4, <1>5, <2>4, <3>1, <3>2, TurnFrame
    <3>3. CASE Store(x) = s
      <4>1. x[2] # r[2]
        BY <1>2, <2>10, <3>3, RunFacts
      <4>2. ~Current(x)'
        BY <1>6, <2>2, <2>4, <3>3, <4>1 DEF Current
      <4> QED BY <1>4, <1>5, <3>1, <3>3, <4>2, TurnOther
    <3> QED BY <3>2, <3>3
  <2>11. LinkInv' /\ SeatInv'
    <3>1. \A x \in Runs : x # r => SameRun(x)
      BY <1>4, <2>3 DEF SameRun
    <3>2. /\ \A x \in Stores : x # Store(r) => store'[x] = store[x] /\ pub'[x] = pub[x]
          /\ store'[Store(r)].id = store[Store(r)].id /\ r[2] = store[Store(r)].id
      BY <1>2, <1>4, <1>5, <1>6, <2>2, <2>4
    <3> QED BY <1>4, <2>7, <2>8, <3>1, <3>2, OneRun DEF SettleInv
  <2> QED BY <2>9, <2>10, <2>11 DEF SettleInv, TurnInv
<1> QED BY <1>8, <1>9

\* The run of a store that runs.
LEMMA RunningRun ==
    ASSUME TypeInv, IdInv, NEW s \in Stores, store[s].running
    PROVE  \E r \in Runs : r = <<s, store[s].id>> /\ Store(r) = s /\ r[2] = store[s].id
<1>1. store[s].id \in 1..Starts(s)
  BY DEF IdInv, TypeInv, StoreState, Starts
<1> DEFINE r == <<s, store[s].id>>
<1>2. r \in Runs /\ Store(r) = s
  BY <1>1, RunOf
<1> QED BY <1>2

LEMMA StartSettles ==
    ASSUME TypeInv, IdInv, PubInv, SettleInv, NEW s \in Stores, Start(s)
    PROVE  SettleInv'
<1> DEFINE id == store[s].id + 1
<1>1. /\ store[s].id \in Nat /\ store[s].id < Starts(s) /\ ~store[s].running
      /\ store \in [Stores -> StoreState] /\ run \in [Runs -> RunState] /\ workspace \in [Runs -> Doc]
  BY DEF Start, TypeInv, StoreState
<1>2. PICK r \in Runs : r = <<s, id>> /\ Store(r) = s /\ r[2] = id
  <2>1. id \in 1..Starts(s)
    BY <1>1 DEF Starts
  <2> QED BY <2>1, RunOf
<1>3. /\ workspace' = [workspace EXCEPT ![r] = draft[s]]
      /\ store' = [store EXCEPT ![s] = [NewStore EXCEPT !.id = id, !.running = TRUE, !.shown = draft[s]]]
      /\ run' = [run EXCEPT ![r] = [stage |-> "connect", attempt |-> 1]]
      /\ UNCHANGED <<generation, record, conn, session, pub>>
  BY <1>2 DEF Start, service
<1>4. /\ store'[s].id = id /\ store'[s].session = 0
      /\ \A x \in Stores : x # s => store'[x] = store[x]
      /\ run'[r].stage = "connect"
      /\ \A x \in Runs : x # r => run'[x] = run[x] /\ workspace'[x] = workspace[x]
  BY <1>1, <1>3 DEF NewStore
<1>5. Link(r) /\ run[r].stage = "idle"
  BY <1>1, <1>2 DEF SettleInv, LinkInv, SeatInv, Seat
<1>6. Link(r)'
  BY <1>3, <1>4, <1>5 DEF Link, Engaged, Registered
<1>7. Seat(r)' /\ Turn(r)'
  <2>1. pub[s].stage # "idle" => pub[s].id # r[2]
    BY <1>1, <1>2 DEF PubInv
  <2> QED BY <1>1, <1>2, <1>3, <1>4, <2>1 DEF Seat, Turn
<1>8. ASSUME NEW x \in Runs, x # r PROVE Link(x)' /\ Seat(x)' /\ Turn(x)'
  <2>1. Link(x) /\ Seat(x) /\ Turn(x) /\ Store(x) \in Stores /\ SameRun(x) /\ x[2] \in Nat
    BY <1>3, <1>4, <1>8, RunFacts DEF SettleInv, LinkInv, SeatInv, TurnInv, SameRun
  <2>2. Link(x)'
    BY <1>3, <2>1, LinkFrame
  <2>3. CASE Store(x) # s
    BY <1>3, <1>4, <2>1, <2>2, <2>3, SeatFrame, TurnFrame DEF SameRun
  <2>4. CASE Store(x) = s
    <3>1. x[2] # id
      BY <1>2, <1>8, <2>4, RunFacts
    <3>2. ~Current(x)'
      BY <1>4, <2>4, <3>1 DEF Current
    <3>3. Seat(x)'
      BY <1>1, <1>4, <2>1, <2>4, <3>2 DEF Seat, SameRun
    <3>4. Turn(x)'
      BY <1>3, <2>1, <3>2, TurnOther DEF SameRun
    <3> QED BY <2>2, <3>3, <3>4
  <2> QED BY <2>3, <2>4
<1> QED BY <1>6, <1>7, <1>8 DEF SettleInv, LinkInv, SeatInv, TurnInv

LEMMA LeaveSettles ==
    ASSUME TypeInv, IdInv, SettleInv, NEW s \in Stores, Leave(s)
    PROVE  SettleInv'
<1>1. /\ store \in [Stores -> StoreState] /\ store[s] \in StoreState /\ store[s].running
      /\ conn \in [Runs -> Conn]
  BY DEF Leave, TypeInv
<1>2. PICK r \in Runs : r = <<s, store[s].id>> /\ Store(r) = s /\ r[2] = store[s].id
  BY <1>1, RunningRun
<1>3. /\ store' = [store EXCEPT ![s] = Ended(store[s])]
      /\ UNCHANGED <<generation, record, session, run, workspace, pub>>
      /\ Closed(r) \/ conn' = conn
  BY <1>2 DEF Leave
<1>4. /\ store'[s].id = store[s].id /\ ~store'[s].running
      /\ \A x \in Stores : x # s => store'[x] = store[x]
  BY <1>1, <1>3, EndedParts
<1>5. /\ \A x \in Runs : x # r => conn'[x] = conn[x]
      /\ conn'[r] = conn[r] \/ conn'[r] = [NoConn EXCEPT !.phase = "closed"]
  BY <1>1, <1>3 DEF Closed
<1>6. Link(r) /\ Seat(r) /\ Turn(r)
  BY DEF SettleInv, LinkInv, SeatInv, TurnInv
<1>7. Link(r)'
  <2>1. CASE conn'[r] = conn[r]
    BY <1>3, <1>6, <2>1, LinkFrame DEF SameRun
  <2>2. CASE conn'[r] = [NoConn EXCEPT !.phase = "closed"]
    BY <1>3, <1>6, <2>2, GoneLink
  <2> QED BY <1>5, <2>1, <2>2
<1>8. ~Current(r)'
  BY <1>2, <1>4 DEF Current
<1>9. Seat(r)' /\ Turn(r)'
  BY <1>2, <1>3, <1>4, <1>6, <1>8, SeatOther, TurnOther
<1>10. LinkInv' /\ SeatInv'
  BY <1>2, <1>3, <1>4, <1>5, <1>7, <1>9, OneRun DEF SettleInv, SameRun
<1>11. TurnInv'
  BY <1>2, <1>3, <1>4, <1>9, OneTurn DEF SettleInv
<1> QED BY <1>10, <1>11 DEF SettleInv

\* A document the user has just written.
LEMMA UpdatedRev ==
    ASSUME NEW a \in Doc, NEW text, NEW now
    PROVE  Updated(a, text, now).rev = a.rev + 1 /\ a.rev \in Nat
  BY DocParts DEF Updated

LEMMA EditSettles ==
    ASSUME TypeInv, IdInv, SettleInv, NEW s \in Stores, NEW text \in Texts, NEW now \in Clock,
           Edit(s, text, now)
    PROVE  SettleInv'
<1>1. /\ store \in [Stores -> StoreState] /\ store[s] \in StoreState /\ store[s].running
      /\ store[s].session # 0 /\ workspace \in [Runs -> Doc] /\ pub \in [Stores -> PubState]
      /\ pub[s].stage = "idle" /\ record \in Doc
  BY DEF Edit, TypeInv, SendMuFree
<1>2. PICK r \in Runs : r = <<s, store[s].id>> /\ Store(r) = s /\ r[2] = store[s].id
  BY <1>1, RunningRun
<1> DEFINE doc == Updated(workspace[r], text, now)
           p == [stage |-> "draft", id |-> store[s].id, session |-> store[s].session, doc |-> doc]
<1>3. /\ workspace' = [workspace EXCEPT ![r] = doc] /\ pub' = [pub EXCEPT ![s] = p]
      /\ UNCHANGED <<generation, record, conn, session, run, store>>
  BY <1>2 DEF Edit, service
<1>4. /\ workspace[r] \in Doc /\ doc \in Doc /\ UpTo(workspace[r], doc)
      /\ doc.rev = workspace[r].rev + 1 /\ workspace[r].rev \in Nat
  BY <1>1, UpdatedGrows, UpdatedRev
<1> HIDE DEF doc
<1>5. /\ pub'[s].stage = "draft" /\ pub'[s].id = store[s].id /\ pub'[s].session = store[s].session
      /\ pub'[s].doc = doc /\ \A x \in Stores : x # s => pub'[x] = pub[x]
  BY <1>1, <1>3
<1>6. workspace'[r] = doc /\ \A x \in Runs : x # r => workspace'[x] = workspace[x]
  BY <1>1, <1>3
<1>7. Current(r) /\ Link(r) /\ Seat(r) /\ Turn(r)
  BY <1>1, <1>2 DEF Current, SettleInv, LinkInv, SeatInv, TurnInv
<1>8. run[r].stage = "receive" /\ Screen(r) /\ store[s].session = run[r].attempt
  BY <1>1, <1>2, <1>7 DEF Seat, Turn
<1>9. State' = State
  BY <1>3 DEF State
<1>10. Hears(r) => Hears(r)'
  <2>1. UpTo(record, workspace[r]) => UpTo(record, workspace'[r])
    BY <1>1, <1>4, <1>6, LaterIsOrder
  <2> QED BY <1>3, <1>9, <2>1 DEF Hears, Tells, Reading
<1>11. Link(r)'
  BY <1>3, <1>7, <1>10 DEF Link, Engaged, Registered
<1>12. Publishes(r)'
  BY <1>2, <1>3, <1>5, <1>6 DEF Publishes
<1>13. Screen(r)'
  <2>1. store[s].pending <= workspace'[r].rev
    <3>1. store[s].pending \in Nat /\ store[s].pending <= workspace[r].rev
      BY <1>1, <1>2, <1>8 DEF Screen, StoreState
    <3> QED BY <1>4, <1>6, <3>1
  <2> QED BY <1>2, <1>3, <1>8, <1>12, <2>1 DEF Screen, Answers, Busy
<1>14. Seat(r)'
  BY <1>2, <1>3, <1>7, <1>8, <1>13 DEF Seat, Current
<1>15. Turn(r)'
  <2>1. run[r].attempt \in Nat /\ doc.rev # 0
    BY <1>4 DEF TypeInv, RunState
  <2> QED BY <1>1, <1>2, <1>3, <1>5, <1>6, <1>8, <2>1 DEF Turn
<1>16. LinkInv' /\ SeatInv'
  <2>1. \A x \in Runs : x # r => SameRun(x)
    BY <1>3, <1>6 DEF SameRun
  <2>2. /\ \A x \in Stores : x # Store(r) => store'[x] = store[x] /\ pub'[x] = pub[x]
        /\ store'[Store(r)].id = store[Store(r)].id /\ r[2] = store[Store(r)].id
    BY <1>2, <1>3, <1>5
  <2> QED BY <1>3, <1>11, <1>14, <2>1, <2>2, OneRun DEF SettleInv
<1>17. ASSUME NEW x \in Runs, x # r PROVE Turn(x)'
  <2>1. Turn(x) /\ Store(x) \in Stores
    BY RunFacts DEF SettleInv, TurnInv
  <2>2. CASE Store(x) # s
    BY <1>3, <1>5, <1>6, <1>17, <2>1, <2>2, TurnFrame
  <2>3. CASE Store(x) = s
    <3>1. x[2] # r[2]
      BY <1>2, <1>17, <2>3, RunFacts
    <3>2. ~Current(x)' /\ pub'[s].id # x[2]
      BY <1>2, <1>3, <1>5, <2>3, <3>1 DEF Current
    <3> QED BY <1>3, <2>1, <2>3, <3>2, TurnOther
  <2> QED BY <2>2, <2>3
<1> QED BY <1>15, <1>16, <1>17 DEF SettleInv, TurnInv

LEMMA InteractiveEditSettles ==
    ASSUME TypeInv, IdInv, PubInv, SettleInv, NEW s \in Stores, NEW text \in Texts, NEW now \in Clock,
           InteractiveEdit(s, text, now)
    PROVE  SettleInv'
<1>1. /\ store \in [Stores -> StoreState] /\ store[s] \in StoreState /\ store[s].running
      /\ workspace \in [Runs -> Doc] /\ record \in Doc /\ pub[s].stage = "idle"
  BY DEF InteractiveEdit, TypeInv, PubInv
<1>2. PICK r \in Runs : r = <<s, store[s].id>> /\ Store(r) = s /\ r[2] = store[s].id
  BY <1>1, RunningRun
<1> DEFINE doc == Updated(workspace[r], text, now)
           put == PutOf(r, doc)
           d == [store[s] EXCEPT !.shown = doc, !.pending = doc.rev]
<1>3. /\ workspace[r] \in Doc /\ doc \in Doc /\ UpTo(workspace[r], doc)
      /\ doc.rev = workspace[r].rev + 1 /\ workspace[r].rev \in Nat
  BY <1>1, UpdatedGrows, UpdatedRev
<1>4. put \in PutMsg
  <2>1. session[r].gen \in Nat
    BY SessionParts DEF TypeInv
  <2> QED BY <1>3, <2>1 DEF PutOf, PutMsg
<1>5. /\ workspace' = [workspace EXCEPT ![r] = doc] /\ store' = [store EXCEPT ![s] = d]
      /\ conn' = IF Broken(r) THEN [conn EXCEPT ![r].phase = "closed"]
                 ELSE [conn EXCEPT ![r].up = Append(@, put)]
      /\ UNCHANGED <<generation, record, session, run, pub>> /\ run[r].stage = "receive"
  BY <1>2 DEF InteractiveEdit, service
<1>6. /\ conn'[r].down = conn[r].down /\ conn'[r].greeting = conn[r].greeting
      /\ Broken(r) => conn'[r].phase = "closed"
      /\ ~Broken(r) => conn'[r].phase = conn[r].phase /\ conn'[r].up # << >>
      /\ \A x \in Runs : x # r => conn'[x] = conn[x]
  BY <1>4, <1>5, SentParts
<1>7. /\ d.id = store[s].id /\ d.session = store[s].session /\ d.running = store[s].running
      /\ d.shown = doc /\ d.pending = doc.rev
  BY <1>1 DEF StoreState
<1> HIDE DEF doc, put, d
<1>8. /\ store'[s] = d /\ \A x \in Stores : x # s => store'[x] = store[x]
      /\ workspace'[r] = doc /\ \A x \in Runs : x # r => workspace'[x] = workspace[x]
  BY <1>1, <1>5
<1>9. Link(r) /\ Seat(r) /\ Turn(r)
  BY DEF SettleInv, LinkInv, SeatInv, TurnInv
<1>10. State' = State
  BY <1>5 DEF State
<1>11. Hears(r) => Hears(r)' \/ Broken(r)
  <2>1. UpTo(record, workspace[r]) => UpTo(record, workspace'[r])
    BY <1>1, <1>3, <1>8, LaterIsOrder
  <2> QED BY <1>5, <1>6, <1>10, <2>1 DEF Hears, Tells, Reading
<1>12. Link(r)'
  BY <1>5, <1>6, <1>9, <1>11 DEF Link, Engaged, Registered, Broken
<1>13. Seat(r)'
  <2>1. Registered(r)' => conn'[r].up # << >>
    BY <1>6 DEF Registered, Broken
  <2>2. Screen(r)'
    BY <1>2, <1>3, <1>7, <1>8, <2>1 DEF Screen, Answers, Busy
  <2> QED BY <1>2, <1>5, <1>7, <1>8, <1>9, <2>2 DEF Seat, Current
<1>14. Turn(r)'
  BY <1>1, <1>2, <1>5, <1>7, <1>8, <1>9 DEF Turn, Current
<1>15. LinkInv' /\ SeatInv'
  <2>1. \A x \in Runs : x # r => SameRun(x)
    BY <1>5, <1>6, <1>8 DEF SameRun
  <2>2. /\ \A x \in Stores : x # Store(r) => store'[x] = store[x] /\ pub'[x] = pub[x]
        /\ store'[Store(r)].id = store[Store(r)].id /\ r[2] = store[Store(r)].id
    BY <1>2, <1>5, <1>7, <1>8
  <2> QED BY <1>5, <1>12, <1>13, <2>1, <2>2, OneRun DEF SettleInv
<1>16. TurnInv'
  BY <1>2, <1>5, <1>7, <1>8, <1>14, OneTurn DEF SettleInv
<1> QED BY <1>15, <1>16 DEF SettleInv

(***************************************************************************)
(* Every client settles.                                                    *)
(***************************************************************************)

LEMMA InitSettles == Init => SettleInv
<1> SUFFICES ASSUME Init, NEW r \in Runs PROVE Link(r) /\ Seat(r) /\ Turn(r)
  BY DEF SettleInv, LinkInv, SeatInv, TurnInv
<1>1. /\ generation = 0 /\ record = NoDoc /\ session[r] = NoSession /\ workspace[r] = NoDoc
      /\ pub[Store(r)] = NoPub /\ Store(r) \in Stores
  BY RunFacts DEF Init
<1>2. UpTo(NoDoc, NoDoc) /\ NoDoc.rev = 0
  BY NoDocType, LaterIsOrder DEF NoDoc
<1>3. session[r].gen = 0 /\ pub[Store(r)].stage = "idle"
  BY <1>1 DEF NoSession, NoPub
<1>4. CASE Store(r) \in Returning
  <2>1. conn[r] = NoConn /\ run[r].stage = "idle" /\ store[Store(r)].session = 0
    BY <1>1, <1>4 DEF Init, NewStore
  <2>2. conn[r].phase = "none" /\ conn[r].down = << >> /\ conn[r].greeting.gen = 0
    BY <2>1 DEF NoConn
  <2> QED BY <1>1, <1>3, <2>1, <2>2, ElemsEmpty DEF Link, Engaged, Seat, Turn
<1>5. CASE Store(r) \notin Returning
  <2>1. /\ conn[r] = [NoConn EXCEPT !.phase = "greeted"] /\ run[r].stage = "receive" /\ run[r].attempt = 1
        /\ store[Store(r)].session = 1 /\ store[Store(r)].id = 1 /\ store[Store(r)].synced
        /\ store[Store(r)].pending = 0 /\ store[Store(r)].shown = NoDoc
    BY <1>1, <1>5 DEF Init, NewStore
  <2>2. conn[r].phase = "greeted" /\ conn[r].down = << >> /\ conn[r].greeting.gen = 0
    BY <2>1 DEF NoConn
  <2>3. r[2] = 1
    BY <1>5, RunFacts DEF Starts
  <2>4. Link(r)
    BY <1>1, <1>2, <1>3, <2>1, <2>2, ElemsEmpty DEF Link, Engaged, Hears, Reading
  <2>5. Seat(r)
    BY <1>1, <1>2, <1>3, <2>1, <2>3 DEF Seat, Screen
  <2> QED BY <1>1, <1>3, <2>1, <2>4, <2>5 DEF Turn
<1> QED BY <1>4, <1>5

LEMMA ReaderSettles ==
    ASSUME TypeInv, SettleInv, NEW r \in Runs,
           Service(r) \/ RefusePut(r) \/ Break(r) \/ Reader(r)
    PROVE  SettleInv'
<1>1. LinkInv' /\ SeatInv'
  BY ServiceSettles, ReadSettles, ReadErrorSettles, CompareSettles, RepublishSettles
     DEF SettleInv, Reader
<1>2. UNCHANGED <<run, workspace, store, pub>>
  BY DEF Service, Greet, Put, RefusePut, Break, Reader, Read, ReadError, Compare, Republish, clients
<1>3. TurnInv'
  BY <1>2, TurnFrame DEF SettleInv, TurnInv
<1> QED BY <1>1, <1>3 DEF SettleInv

LEMMA GoroutineSettles ==
    ASSUME TypeInv, SettleInv, NEW r \in Runs, Goroutine(r)
    PROVE  SettleInv'
<1>1. LinkInv' /\ SeatInv'
  BY DialSettles, OpenSettles, SyncSettles, SaveSyncedSettles, ConnectedSettles,
     HandleUpdateSettles, HandleAckSettles, RunOverSettles DEF SettleInv, Goroutine
<1> QED BY <1>1, GoroutineTurns DEF SettleInv

LEMMA NextSettles == IInv /\ SettleInv /\ [Next]_vars => SettleInv'
<1> SUFFICES ASSUME IInv, SettleInv, [Next]_vars PROVE SettleInv'
  OBVIOUS
<1>0. TypeInv /\ IdInv /\ PubInv
  BY DEF IInv
<1>1. ASSUME NEW r \in Runs, Service(r) \/ RefusePut(r) \/ Break(r) \/ Reader(r)
      PROVE  SettleInv'
  BY <1>0, <1>1, ReaderSettles
<1>2. ASSUME NEW r \in Runs, Goroutine(r)
      PROVE  SettleInv'
  BY <1>0, <1>2, GoroutineSettles
<1>3. ASSUME NEW s \in Stores, Publishing(s)
      PROVE  SettleInv'
  BY <1>0, <1>3, SaveDraftSettles, PublishSettles DEF Publishing
<1>4. ASSUME NEW s \in Stores, User(s)
      PROVE  SettleInv'
  BY <1>0, <1>4, StartSettles, LeaveSettles, EditSettles, InteractiveEditSettles DEF User
<1>5. CASE StrayPut
  <2>1. LinkInv' /\ SeatInv'
    BY <1>0, <1>5, StraySettles DEF SettleInv
  <2>2. TurnInv'
    BY <1>5, TurnFrame DEF StrayPut, clients, SettleInv, TurnInv
  <2> QED BY <2>1, <2>2 DEF SettleInv
<1>6. CASE UNCHANGED vars
  BY <1>6, LinkFrame, SeatFrame, TurnFrame
     DEF vars, service, clients, SameRun, SettleInv, LinkInv, SeatInv, TurnInv
<1> QED BY <1>1, <1>2, <1>3, <1>4, <1>5, <1>6 DEF Next

\* What a client still has to hear or to answer is under way, in every state.
THEOREM SettleInvariant == Spec => []SettleInv
<1>1. IInv /\ SettleInv /\ [Next]_vars => SettleInv'
  BY NextSettles
<1> QED BY <1>1, InitSettles, SyncInvariant, PTL DEF Spec

\* Once everything is handled every connected client is settled (readLoop,
\* handleFrame): not behind the service, showing its workspace, and waiting for
\* no acknowledgement - for any clients, orders of frames, reconnects and leaves.
THEOREM QuietSettled == Spec => []QuietIsSettled
<1>1. IInv /\ SettleInv => QuietIsSettled
  <2> SUFFICES ASSUME IInv, SettleInv, Quiet, NEW r \in Runs, run[r].stage = "receive", Current(r)
               PROVE  /\ ~Later(record, workspace[r]) /\ store[Store(r)].shown = workspace[r]
                      /\ store[Store(r)].pending = 0 /\ store[Store(r)].synced
    BY DEF QuietIsSettled, NeverBehind, EditsSettle
  <2>1. /\ Link(r) /\ Screen(r) /\ Store(r) \in Stores /\ conn[r].phase \in Phases
    BY RunFacts, ConnParts DEF SettleInv, LinkInv, SeatInv, Seat, IInv, TypeInv
  <2>2. /\ pub[Store(r)].stage = "idle" /\ conn[r].up = << >> /\ conn[r].down = << >>
        /\ session[r].events = << >> /\ session[r].reader.stage = "idle" /\ ~Broken(r)
    BY <2>1 DEF Quiet
  <2>3. ~Publishes(r) /\ ~Tells(r) /\ Elems(session[r].events) = {} /\ Elems(conn[r].down) = {}
    BY <2>2, ElemsEmpty DEF Publishes, Tells
  <2>4. Registered(r)
    BY <2>1, <2>2 DEF Link, Engaged, Broken, Registered, Phases
  <2>5. Hears(r) /\ ~(conn[r].phase = "joined" /\ conn[r].greeting.gen = generation)
    BY <2>1, <2>4 DEF Link, Engaged
  <2>6. UpTo(record, workspace[r])
    BY <2>2, <2>3, <2>5 DEF Hears
  <2>7. ~Answers(r)
    BY <2>2, <2>3 DEF Answers, Busy, Errs
  <2> QED BY <2>1, <2>3, <2>4, <2>6, <2>7 DEF Screen, UpTo
<1> QED BY <1>1, SettleInvariant, SyncInvariant, PTL

(***************************************************************************)
(* Converging: as long as nobody leaves or loses a connection, somebody is  *)
(* left to answer a document that lost.                                     *)
(***************************************************************************)

\* The documents r has, receives or sends, and all there are.
DocumentsOf(w, n, c) ==
    {w, n.initial, n.reader.doc, c.greeting.doc}
    \cup {m.doc : m \in Elems(c.up)} \cup {m.doc : m \in Elems(c.down)}
    \cup {e.doc : e \in Elems(n.events)}
Holdings(r) == DocumentsOf(workspace[r], session[r], conn[r])
Documents == {record} \cup UNION {Holdings(r) : r \in Runs}

\* Somebody who reads has reached d, and will answer what is earlier.
Owner(d) == \E q \in Runs : Reading(q) /\ UpTo(d, workspace[q])
Answerer(d) == \E q \in Runs : Reading(q) /\ UpTo(d, workspace[q]) /\ Busy(q)

OwnerInv ==
    \A d \in Documents : /\ d = NoDoc \/ Owner(d)
                         /\ Later(d, record) => Answerer(d)

\* Without a fault every run goes on, and has nothing before it is synchronized.
Alive(r) ==
    /\ ~Broken(r) /\ run[r].stage # "done" /\ ~Errs(r)
    /\ run[r].stage # "idle" => Current(r)
    /\ run[r].stage \in {"idle", "connect", "open", "sync"} => workspace[r] = NoDoc

Unharmed ==
    /\ stray = {} /\ \A s \in Stores : store[s].running \/ draft[s] = NoDoc
    /\ \A r \in Runs : Alive(r)
    /\ OwnerInv

TogetherInv == faults \in Nat /\ (faults = 0 => Unharmed)

LEMMA HoldingsType ==
    ASSUME NEW w \in Doc, NEW n \in Session, NEW c \in Conn
    PROVE  DocumentsOf(w, n, c) \subseteq Doc
<1>1. /\ c.up \in Seq(PutMsg) /\ c.down \in Seq(Message) /\ c.greeting.doc \in Doc
      /\ n.events \in Seq(Event) /\ n.initial \in Doc /\ n.reader.doc \in Doc
  BY ConnParts, SessionParts
<1>2. ASSUME NEW m \in Elems(c.up) PROVE m.doc \in Doc
  <2>1. m \in PutMsg
    BY <1>1, ElemsOf
  <2> QED BY <2>1 DEF PutMsg
<1>3. ASSUME NEW m \in Elems(c.down) PROVE m.doc \in Doc
  BY <1>1, DownParts
<1>4. ASSUME NEW e \in Elems(n.events) PROVE e.doc \in Doc
  <2>1. e \in Event
    BY <1>1, ElemsOf
  <2> QED BY <2>1 DEF Event
<1> QED BY <1>1, <1>2, <1>3, <1>4 DEF DocumentsOf

LEMMA DocumentsType ==
    /\ TypeInv => Documents \subseteq Doc
    /\ TypeInv' => Documents' \subseteq Doc
  BY HoldingsType DEF TypeInv, Documents, Holdings

LEMMA HoldingsFrame ==
    ASSUME NEW r \in Runs, SameRun(r)
    PROVE  Holdings(r)' = Holdings(r) /\ (Reading(r)' <=> Reading(r)) /\ (Errs(r)' <=> Errs(r))
  BY DEF SameRun, Holdings, DocumentsOf, Reading, Errs

LEMMA BusyFrame ==
    ASSUME NEW r \in Runs, SameRun(r), UNCHANGED <<generation, record>>,
           store'[Store(r)] = store[Store(r)], pub'[Store(r)] = pub[Store(r)]
    PROVE  Busy(r)' <=> Busy(r)
  BY DEF SameRun, Busy, Publishes, Tells, State

\* Without faults the runs of a store are one by one.
LEMMA OthersIdle ==
    ASSUME Unharmed, NEW r \in Runs, NEW x \in Runs, x # r, Store(x) = Store(r),
           run[r].stage # "idle" \/ ~store[Store(r)].running
    PROVE  run[x].stage = "idle"
<1>1. Alive(x) /\ Alive(r)
  BY DEF Unharmed
<1>2. x[2] # r[2]
  BY RunFacts
<1> QED BY <1>1, <1>2 DEF Alive, Current

\* A step of one run that leaves the record alone.
LEMMA OneTogether ==
    ASSUME TypeInv, TypeInv', Unharmed, NEW r \in Runs, UNCHANGED <<generation, record, stray>>,
           UNCHANGED <<store, pub>> \/ run[r].stage # "idle" \/ ~store[Store(r)].running,
           \A x \in Runs : x # r => SameRun(x),
           \A s \in Stores : s # Store(r) => store'[s] = store[s] /\ pub'[s] = pub[s],
           \A s \in Stores : store'[s].running \/ draft'[s] = NoDoc,
           Alive(r)',
           Reading(r) => Reading(r)',
           Reading(r) => UpTo(workspace[r], workspace'[r]),
           Reading(r) /\ Busy(r) /\ Later(workspace[r], record) => Busy(r)',
           \A d \in Holdings(r)' : \/ d \in Documents \/ d = NoDoc
                                   \/ Reading(r)' /\ UpTo(d, workspace'[r]) /\ Busy(r)'
    PROVE  Unharmed'
<1>1. \A x \in Runs : x # r /\ Store(x) = Store(r)
                         => run[x].stage = "idle" \/ UNCHANGED <<store, pub>>
  BY OthersIdle
<1>2. ASSUME NEW x \in Runs PROVE Alive(x)'
  <2>1. CASE x = r
    BY <2>1
  <2>2. CASE x # r
    <3>1. Alive(x) /\ SameRun(x) /\ Store(x) \in Stores
      BY <2>2, RunFacts DEF Unharmed
    <3>2. ~Broken(x)' /\ ~Errs(x)'
      BY <3>1, HoldingsFrame DEF Alive, Broken, SameRun
    <3>3. run'[x].stage # "idle" => Current(x)'
      BY <1>1, <2>2, <3>1 DEF Alive, Current, SameRun
    <3> QED BY <3>1, <3>2, <3>3 DEF Alive, SameRun
  <2> QED BY <2>1, <2>2
\* Who reads has not gone back, and who answers still does.
<1>3. ASSUME NEW q \in Runs, Reading(q)
      PROVE  /\ Reading(q)' /\ UpTo(workspace[q], workspace'[q])
             /\ Busy(q) /\ Later(workspace[q], record) => Busy(q)'
  <2>1. CASE q = r
    BY <1>3, <2>1
  <2>2. CASE q # r
    <3>1. SameRun(q) /\ Store(q) \in Stores /\ workspace[q] \in Doc
      BY <2>2, RunFacts DEF TypeInv
    <3>2. Store(q) # Store(r) \/ UNCHANGED <<store, pub>>
      BY <1>1, <1>3, <2>2 DEF Reading
    <3>3. UpTo(workspace[q], workspace'[q])
      BY <3>1, LaterIsOrder DEF SameRun
    <3>4. Busy(q)' <=> Busy(q)
      BY <3>1, <3>2, BusyFrame
    <3> QED BY <1>3, <3>1, <3>3, <3>4, HoldingsFrame
  <2> QED BY <2>1, <2>2
<1>4. ASSUME NEW d \in Documents'
      PROVE  \/ d \in Documents \/ d = NoDoc
             \/ Reading(r)' /\ UpTo(d, workspace'[r]) /\ Busy(r)'
  <2>1. CASE d = record'
    BY <2>1 DEF Documents
  <2>2. CASE d # record'
    <3>1. PICK x \in Runs : d \in Holdings(x)'
      BY <1>4, <2>2 DEF Documents
    <3>2. CASE x = r
      BY <3>1, <3>2
    <3>3. CASE x # r
      BY <3>1, <3>3, HoldingsFrame DEF Documents
    <3> QED BY <3>2, <3>3
  <2> QED BY <2>1, <2>2
<1>5. ASSUME NEW d \in Documents'
      PROVE  (d = NoDoc \/ Owner(d)') /\ (Later(d, record') => Answerer(d)')
  <2>1. d \in Doc /\ record \in Doc
    BY DocumentsType DEF TypeInv
  <2>2. CASE d \in Documents
    <3>1. (d = NoDoc \/ Owner(d)) /\ (Later(d, record) => Answerer(d))
      BY <2>2 DEF Unharmed, OwnerInv
    <3>2. ASSUME NEW q \in Runs, Reading(q), UpTo(d, workspace[q])
          PROVE  Reading(q)' /\ UpTo(d, workspace'[q]) /\ (Busy(q) /\ Later(d, record) => Busy(q)')
      <4>1. workspace[q] \in Doc /\ workspace'[q] \in Doc
        BY DEF TypeInv
      <4>2. Later(d, record) => Later(workspace[q], record)
        BY <2>1, <3>2, <4>1, LaterIsOrder DEF UpTo
      <4> QED BY <1>3, <2>1, <3>2, <4>1, <4>2, LaterIsOrder
    <3>3. Owner(d) => Owner(d)'
      BY <3>2 DEF Owner
    <3>4. Later(d, record) /\ Answerer(d) => Answerer(d)'
      BY <3>2 DEF Answerer
    <3> QED BY <3>1, <3>3, <3>4
  <2>3. CASE d = NoDoc
    <3>1. ~Later(NoDoc, record)
      BY <2>1, DocParts DEF NoDoc, Later
    <3> QED BY <2>3, <3>1
  <2>4. CASE Reading(r)' /\ UpTo(d, workspace'[r]) /\ Busy(r)'
    BY <2>4 DEF Owner, Answerer
  <2> QED BY <1>4, <2>2, <2>3, <2>4
<1>6. stray' = {}
  BY DEF Unharmed
<1> QED BY <1>2, <1>5, <1>6 DEF Unharmed, OwnerInv

\* A put that is accepted makes everybody busy who reads.
LEMMA AcceptTogether ==
    ASSUME TypeInv, TypeInv', Unharmed, LinkInv,
           NEW connections \in [Runs -> Conn], NEW doc \in Documents, Accept(connections, doc),
           \A x \in Runs : /\ connections[x].phase = conn[x].phase
                           /\ connections[x].down = conn[x].down
                           /\ connections[x].greeting = conn[x].greeting
                           /\ Elems(connections[x].up) \subseteq Elems(conn[x].up),
           UNCHANGED <<clients, stray>>
    PROVE  Unharmed'
<1>0. doc \in Doc /\ record' = doc /\ UNCHANGED <<session, run, workspace, store, pub, draft>>
  BY DocumentsType DEF Accept, clients
<1>1. ASSUME NEW x \in Runs
      PROVE  /\ Registered(x) => Tells(x)'
             /\ Elems(conn'[x].down) \subseteq Elems(conn[x].down) \cup {State'}
             /\ conn'[x].phase = conn[x].phase /\ conn'[x].greeting = conn[x].greeting
             /\ Elems(conn'[x].up) \subseteq Elems(conn[x].up)
  BY <1>0, AcceptTells
<1>2. State'.kind = "state" /\ State'.doc = doc
  BY <1>0 DEF State
<1>3. ASSUME NEW x \in Runs PROVE Alive(x)'
  <2>1. Alive(x)
    BY DEF Unharmed
  <2>2. ~Errs(x)'
    BY <1>0, <1>1, <1>2, <2>1 DEF Alive, Errs
  <2> QED BY <1>0, <1>1, <2>1, <2>2 DEF Alive, Broken, Current
<1>4. ASSUME NEW q \in Runs, Reading(q) PROVE Reading(q)' /\ Busy(q)' /\ workspace'[q] = workspace[q]
  <2>1. Registered(q)
    <3>1. conn[q].phase # "none" /\ ~Broken(q) /\ conn[q].phase \in Phases
      BY <1>4, ConnParts DEF LinkInv, Link, Engaged, Reading, Unharmed, Alive, TypeInv
    <3> QED BY <3>1 DEF Broken, Registered, Phases
  <2>2. Tells(q)'
    BY <1>1, <2>1
  <2> QED BY <1>0, <1>4, <2>2 DEF Reading, Busy
<1>5. ASSUME NEW d \in Documents' PROVE d \in Documents
  <2>1. CASE d = record'
    BY <1>0, <2>1
  <2>2. CASE d # record'
    <3>1. PICK x \in Runs : d \in Holdings(x)'
      BY <1>5, <2>2 DEF Documents
    <3>2. d \in Holdings(x) \/ d = doc
      BY <1>0, <1>1, <1>2, <3>1 DEF Holdings, DocumentsOf
    <3> QED BY <3>2 DEF Documents
  <2> QED BY <2>1, <2>2
<1>6. ASSUME NEW d \in Documents'
      PROVE  (d = NoDoc \/ Owner(d)') /\ (Later(d, record') => Answerer(d)')
  <2>1. d = NoDoc \/ Owner(d)
    BY <1>5 DEF Unharmed, OwnerInv
  <2>2. Owner(d) => Answerer(d)' /\ Owner(d)'
    BY <1>4 DEF Owner, Answerer
  <2>3. ~Later(NoDoc, record')
    BY <1>0, DocParts DEF NoDoc, Later
  <2> QED BY <2>1, <2>2, <2>3
<1> QED BY <1>0, <1>3, <1>6 DEF Unharmed, OwnerInv

LEMMA ServiceTogether ==
    ASSUME TypeInv, TypeInv', LinkInv, Unharmed, NEW r \in Runs, Service(r)
    PROVE  Unharmed'
<1> DEFINE c == conn[r]
<1>0. /\ c \in Conn /\ c.up \in Seq(PutMsg) /\ c.down \in Seq(Message) /\ Alive(r)
      /\ conn \in [Runs -> Conn] /\ generation \in Nat /\ record \in Doc /\ Store(r) \in Stores
      /\ c.greeting.gen \in Nat /\ c.greeting.doc \in Doc /\ workspace[r] \in Doc
  BY ConnParts, RunFacts DEF TypeInv, Unharmed
\* A state is written to r.
<1>1. ASSUME NEW m \in Message, m.kind = "state", m.doc \in Documents,
             conn'[r].down = Append(c.down, m), ~(conn'[r].phase \in {"broken", "closed"}),
             conn'[r].greeting = c.greeting, Elems(conn'[r].up) \subseteq Elems(c.up),
             \A x \in Runs : x # r => conn'[x] = conn[x],
             conn'[r].up = c.up \/ m = State,
             UNCHANGED <<generation, record, stray, clients>>
      PROVE  Unharmed'
  <2>1. Elems(conn'[r].down) = Elems(c.down) \cup {m}
    BY <1>0, <1>1, ElemsOf
  <2>2. UNCHANGED <<session, run, workspace, store, pub, draft>> /\ State' = State
    BY <1>1 DEF clients, State
  <2>3. Alive(r)'
    BY <1>0, <1>1, <2>1, <2>2 DEF Alive, Broken, Errs, Current
  <2>4. Busy(r) => Busy(r)'
    BY <1>1, <2>1, <2>2 DEF Busy, Tells, Publishes
  <2>5. \A d \in Holdings(r)' : d \in Documents
    <3>1. Holdings(r) \subseteq Documents
      BY DEF Documents
    <3>2. \A d \in Holdings(r)' : d \in Holdings(r) \/ d = m.doc
      BY <1>1, <2>1, <2>2 DEF Holdings, DocumentsOf
    <3> QED BY <1>1, <3>1, <3>2
  <2>6. Reading(r)' <=> Reading(r)
    BY <2>2 DEF Reading
  <2>7. UpTo(workspace[r], workspace'[r])
    BY <1>0, <2>2, LaterIsOrder
  <2>8. \A s \in Stores : store'[s].running \/ draft'[s] = NoDoc
    BY <2>2 DEF Unharmed
  <2>9. \A x \in Runs : x # r => SameRun(x)
    BY <1>1, <2>2 DEF SameRun
  <2> QED BY <1>1, <2>2, <2>3, <2>4, <2>5, <2>6, <2>7, <2>8, <2>9, OneTogether
<1>2. CASE Greet(r)
  <2> DEFINE m == [kind |-> "state", gen |-> c.greeting.gen, doc |-> c.greeting.doc]
  <2>1. /\ conn'[r].phase = "greeted" /\ conn'[r].down = Append(c.down, m)
        /\ conn'[r].up = c.up /\ conn'[r].greeting = c.greeting
        /\ \A x \in Runs : x # r => conn'[x] = conn[x]
        /\ UNCHANGED <<generation, record, stray, clients>>
    BY <1>0, <1>2 DEF Greet, Conn, service
  <2>2. m \in Message /\ m.kind = "state" /\ m.doc = c.greeting.doc
    BY <1>0 DEF Message
  <2>3. m.doc \in Documents
    BY <2>2 DEF Documents, Holdings, DocumentsOf
  <2> HIDE DEF m
  <2> QED BY <1>1, <2>1, <2>2, <2>3
<1>3. CASE Put(r)
  <2> DEFINE put == Head(c.up)
             d == [c EXCEPT !.up = Tail(c.up)]
             popped == [conn EXCEPT ![r] = d]
  <2>1. /\ put \in PutMsg /\ Tail(c.up) \in Seq(PutMsg)
        /\ Elems(c.up) = {put} \cup Elems(Tail(c.up))
    BY <1>0, <1>3, QueueParts, ElemsOf DEF Put
  <2>2. /\ d \in Conn /\ d.phase = c.phase /\ d.down = c.down /\ d.greeting = c.greeting
        /\ d.up = Tail(c.up)
    BY <1>0, <2>1, ConnParts DEF Conn
  <2>3. popped \in [Runs -> Conn] /\ popped = [conn EXCEPT ![r].up = Tail(@)] /\ popped[r] = d
        /\ \A x \in Runs : x # r => popped[x] = conn[x]
    BY <1>0, <2>2
  <2>4. put.doc \in Documents
    BY <2>1 DEF Documents, Holdings, DocumentsOf
  <2>5. /\ \/ Accept(popped, put.doc)
           \/ /\ conn' = [popped EXCEPT ![r].down = Append(@, State)]
              /\ UNCHANGED <<generation, record>>
        /\ UNCHANGED <<stray, clients>>
    BY <1>3, <2>3 DEF Put
  <2>6. State \in Message /\ State.kind = "state" /\ State.doc = record
    BY <1>0 DEF State, Message
  <2>7. \A x \in Runs : /\ popped[x].phase = conn[x].phase /\ popped[x].down = conn[x].down
                        /\ popped[x].greeting = conn[x].greeting
                        /\ Elems(popped[x].up) \subseteq Elems(conn[x].up)
    BY <2>1, <2>2, <2>3
  <2> HIDE DEF put, popped, d
  <2>8. CASE Accept(popped, put.doc)
    BY <2>3, <2>4, <2>5, <2>7, <2>8, AcceptTogether
  <2>9. CASE conn' = [popped EXCEPT ![r].down = Append(@, State)] /\ UNCHANGED <<generation, record>>
    <3>1. conn'[r] = [d EXCEPT !.down = Append(d.down, State)]
      BY <2>3, <2>9
    <3>2. /\ conn'[r].phase = d.phase /\ conn'[r].down = Append(d.down, State)
          /\ conn'[r].greeting = d.greeting /\ conn'[r].up = d.up
      BY <2>2, <3>1 DEF Conn
    <3>3. c.phase = "greeted" /\ record \in Documents
      BY <1>3 DEF Put, Documents
    <3>4. \A x \in Runs : x # r => conn'[x] = conn[x]
      BY <2>3, <2>9
    <3> QED BY <1>1, <2>1, <2>2, <2>5, <2>6, <2>9, <3>2, <3>3, <3>4
  <2> QED BY <2>5, <2>8, <2>9
<1> QED BY <1>2, <1>3 DEF Service

\* A step of the session of r, for which only r has to be looked at.
LEMMA SessionTogether ==
    ASSUME TypeInv, TypeInv', Unharmed, NEW r \in Runs,
           UNCHANGED <<service, run, workspace, store, pub, draft>>,
           \A x \in Runs : x # r => conn'[x] = conn[x] /\ session'[x] = session[x],
           conn'[r].phase = conn[r].phase, ~Errs(r)',
           Reading(r) /\ Busy(r) /\ Later(workspace[r], record) => Busy(r)',
           Holdings(r)' \subseteq Documents \cup {NoDoc}
    PROVE  Unharmed'
<1>1. Alive(r) /\ workspace[r] \in Doc
  BY DEF Unharmed, TypeInv
<1>2. Alive(r)'
  BY <1>1 DEF Alive, Broken, Current
<1>3. (Reading(r) <=> Reading(r)') /\ UNCHANGED <<generation, record, stray>>
  BY DEF Reading, service
<1>4. UpTo(workspace[r], workspace'[r])
  BY <1>1, LaterIsOrder
<1>5. \A s \in Stores : store'[s].running \/ draft'[s] = NoDoc
  BY DEF Unharmed
<1>6. \A x \in Runs : x # r => SameRun(x)
  BY DEF SameRun
<1> QED BY <1>2, <1>3, <1>4, <1>5, <1>6, OneTogether

LEMMA ReaderTogether ==
    ASSUME TypeInv, TypeInv', LinkInv, Unharmed, NEW r \in Runs, Reader(r)
    PROVE  Unharmed'
<1> DEFINE n == session[r]
<1>0. /\ Link(r) /\ Alive(r) /\ Holdings(r) \subseteq Documents /\ Holdings(r) \subseteq Doc
      /\ conn[r] \in Conn /\ conn \in [Runs -> Conn] /\ n \in Session /\ session \in [Runs -> Session]
      /\ n.reader.doc \in Doc /\ workspace[r] \in Doc /\ n.gen \in Nat
  BY HoldingsType, SessionParts DEF LinkInv, Unharmed, Documents, Holdings, TypeInv
<1>1. CASE Read(r)
  <2>1. /\ conn'[r].phase = conn[r].phase /\ conn'[r].up = conn[r].up
        /\ conn'[r].greeting = conn[r].greeting
        /\ \A x \in Runs : x # r => conn'[x] = conn[x] /\ session'[x] = session[x]
        /\ Elems(conn'[r].down) \subseteq Elems(conn[r].down)
        /\ Head(conn[r].down) \in Elems(conn[r].down)
        /\ session'[r].events = n.events /\ session'[r].initial = n.initial /\ n.reader.stage = "idle"
        /\ session'[r].reader.doc \in {n.reader.doc, Head(conn[r].down).doc}
        /\ Tells(r) => \/ Tells(r)'
                       \/ session'[r].reader.stage = "compare" /\ session'[r].reader.doc = record
        /\ UNCHANGED <<record, workspace, store, pub>>
    BY <1>0, <1>1, ReadParts
  <2>2. UNCHANGED <<service, run, workspace, store, pub, draft>>
    BY <1>1 DEF Read
  <2>3. ~Errs(r)'
    BY <1>0, <2>1 DEF Alive, Errs
  <2>4. Busy(r) => Busy(r)'
    BY <2>1 DEF Busy, Publishes
  <2>5. Holdings(r)' \subseteq Documents
    <3>1. Holdings(r)' \subseteq Holdings(r)
      BY <2>1 DEF Holdings, DocumentsOf
    <3> QED BY <1>0, <3>1
  <2> QED BY <2>1, <2>2, <2>3, <2>4, <2>5, SessionTogether
<1>2. CASE ReadError(r)
  <2>1. conn[r].down \in Seq(Message) /\ conn[r].down # << >> /\ Head(conn[r].down).kind = "error"
    BY <1>0, <1>2, ConnParts DEF ReadError
  <2>2. Head(conn[r].down) \in Elems(conn[r].down)
    BY <2>1, ElemsOf
  <2> QED BY <1>0, <2>1, <2>2 DEF Alive, Errs
\* Who is later than the record publishes; everybody else has been told.
<1>3. CASE Compare(r)
  <2> DEFINE doc == n.reader.doc
             w == workspace[r]
  <2>1. /\ n.reader.stage = "compare" /\ UNCHANGED <<service, conn, run, workspace, store, pub, draft>>
        /\ \A x \in Runs : x # r => session'[x] = session[x]
    BY <1>0, <1>3 DEF Compare, Emitted
  <2>2. UNCHANGED <<generation, record>> /\ State' = State /\ (Tells(r)' <=> Tells(r))
    BY <2>1 DEF service, State, Tells
  <2>3. ASSUME Later(doc, w) \/ ~Later(w, doc), NEW k \in {"update", "ack"},
               Emitted(r, [kind |-> k, doc |-> doc])
        PROVE  Unharmed'
    <3> DEFINE e == [kind |-> k, doc |-> doc]
    <3>1. e \in Event /\ e.kind # "error" /\ e.doc = doc
      BY <1>0 DEF Event
    <3>2. /\ Elems(session'[r].events) = Elems(n.events) \cup {e}
          /\ session'[r].initial = n.initial /\ session'[r].reader = NoReader
      <4>1. Elems(session'[r].events) = Elems(n.events) \cup {e} /\ session'[r].initial = n.initial
        BY <2>3, <3>1, EmittedParts
      <4>2. session'[r].reader = NoReader
        BY <1>0, <2>3 DEF Emitted, Session
      <4> QED BY <4>1, <4>2
    <3> HIDE DEF e
    <3>3. ~Errs(r)'
      BY <1>0, <2>1, <3>1, <3>2 DEF Alive, Errs
    <3>4. Busy(r) /\ Later(w, record) => Busy(r)'
      <4>1. doc = record => ~Later(w, record)
        BY <1>0, <2>3, LaterIsOrder DEF UpTo
      <4> QED BY <2>1, <2>2, <4>1 DEF Busy, Publishes
    <3>5. Holdings(r)' \subseteq Documents \cup {NoDoc}
      <4>1. Holdings(r)' \subseteq Holdings(r) \cup {NoDoc}
        BY <2>1, <3>1, <3>2 DEF Holdings, DocumentsOf, NoReader
      <4> QED BY <1>0, <4>1
    <3> QED BY <2>1, <3>3, <3>4, <3>5, SessionTogether
  <2>4. CASE Later(w, doc) /\ session' = [session EXCEPT ![r].reader = [stage |-> "publish", doc |-> w]]
    <3>1. /\ session'[r].initial = n.initial /\ session'[r].events = n.events
          /\ session'[r].reader.stage = "publish" /\ session'[r].reader.doc = w
      BY <1>0, <2>4 DEF Session
    <3>2. ~Errs(r)' /\ Busy(r)'
      BY <1>0, <2>1, <3>1 DEF Alive, Errs, Busy
    <3>3. Holdings(r)' \subseteq Documents
      <4>1. Holdings(r)' \subseteq Holdings(r)
        BY <2>1, <3>1 DEF Holdings, DocumentsOf
      <4> QED BY <1>0, <4>1
    <3> QED BY <2>1, <3>2, <3>3, SessionTogether
  <2>5. CASE doc.rev = 0 /\ w.rev = 0 /\ session' = [session EXCEPT ![r].reader = NoReader]
    <3>1. /\ session'[r].initial = n.initial /\ session'[r].events = n.events
          /\ session'[r].reader = NoReader
      BY <1>0, <2>5 DEF Session
    <3>2. ~Errs(r)'
      BY <1>0, <2>1, <3>1 DEF Alive, Errs
    <3>3. doc = NoDoc /\ w = NoDoc
      BY <1>0, <2>5, DocParts
    <3>4. ~Later(w, record)
      BY <3>3, DocParts DEF TypeInv, NoDoc, Later
    <3>5. Holdings(r)' \subseteq Documents \cup {NoDoc}
      <4>1. Holdings(r)' \subseteq Holdings(r) \cup {NoDoc}
        BY <2>1, <3>1 DEF Holdings, DocumentsOf, NoReader
      <4> QED BY <1>0, <4>1
    <3> QED BY <2>1, <3>2, <3>4, <3>5, SessionTogether
  <2>6. \/ Emitted(r, [kind |-> "update", doc |-> doc]) /\ Later(doc, w)
        \/ Emitted(r, [kind |-> "ack", doc |-> doc]) /\ ~Later(w, doc)
        \/ Later(w, doc) /\ session' = [session EXCEPT ![r].reader = [stage |-> "publish", doc |-> w]]
        \/ doc.rev = 0 /\ w.rev = 0 /\ session' = [session EXCEPT ![r].reader = NoReader]
    BY <1>3 DEF Compare
  <2> QED BY <2>3, <2>4, <2>5, <2>6
<1>4. CASE Republish(r)
  <2> DEFINE put == PutOf(r, n.reader.doc)
  <2>1. put \in PutMsg /\ put.doc = n.reader.doc
    BY <1>0 DEF PutOf, PutMsg
  <2>2. /\ session' = [session EXCEPT ![r].reader = NoReader] /\ ~Broken(r)
        /\ conn' = [conn EXCEPT ![r].up = Append(@, put)]
        /\ UNCHANGED <<service, run, workspace, store, pub, draft>>
    BY <1>0, <1>4 DEF Republish, Alive
  <2> HIDE DEF put
  <2>3. /\ session'[r].events = n.events /\ session'[r].initial = n.initial
        /\ session'[r].reader = NoReader /\ \A x \in Runs : x # r => session'[x] = session[x]
    BY <1>0, <2>2 DEF Session
  <2>4. /\ conn'[r].phase = conn[r].phase /\ conn'[r].down = conn[r].down
        /\ conn'[r].greeting = conn[r].greeting /\ conn'[r].up = Append(conn[r].up, put)
        /\ \A x \in Runs : x # r => conn'[x] = conn[x]
    BY <1>0, <2>2 DEF Conn
  <2>5. Elems(conn'[r].up) = Elems(conn[r].up) \cup {put} /\ conn'[r].up # << >>
    BY <1>0, <2>1, <2>4, ElemsOf, ConnParts
  <2>6. ~Errs(r)' /\ Busy(r)'
    BY <1>0, <2>3, <2>4, <2>5 DEF Alive, Errs, Busy
  <2>7. Holdings(r)' \subseteq Documents \cup {NoDoc}
    <3>1. Holdings(r)' \subseteq Holdings(r) \cup {NoDoc}
      BY <2>1, <2>2, <2>3, <2>4, <2>5 DEF Holdings, DocumentsOf, NoReader
    <3> QED BY <1>0, <3>1
  <2> QED BY <2>2, <2>3, <2>4, <2>6, <2>7, SessionTogether
<1> QED BY <1>1, <1>2, <1>3, <1>4 DEF Reader

\* The way to the first frame: r does not read yet, or only its draft changes.
LEMMA OpeningTogether ==
    ASSUME TypeInv, TypeInv', SettleInv, Unharmed, NEW r \in Runs,
           Dial(r) \/ Open(r) \/ Sync(r) \/ SaveSynced(r) \/ Connected(r)
    PROVE  Unharmed'
<1> DEFINE n == session[r]
           s == Store(r)
<1>0. /\ Link(r) /\ Seat(r) /\ Turn(r) /\ Alive(r) /\ Holdings(r) \subseteq Documents /\ s \in Stores
      /\ conn[r] \in Conn /\ conn \in [Runs -> Conn] /\ n \in Session /\ session \in [Runs -> Session]
      /\ workspace \in [Runs -> Doc] /\ workspace[r] \in Doc /\ n.initial \in Doc /\ n.gen \in Nat
      /\ run \in [Runs -> RunState] /\ run[r] \in RunState
      /\ store \in [Stores -> StoreState] /\ store[s] \in StoreState /\ draft \in [Stores -> Doc]
  BY RunFacts, SessionParts
     DEF SettleInv, LinkInv, SeatInv, TurnInv, Unharmed, Documents, TypeInv
<1>1. run[r].stage \in {"connect", "open", "sync", "saving", "synced"} /\ Current(r)
  BY <1>0 DEF Alive, Dial, Open, Sync, SaveSynced, Connected
<1>2. (\A x \in Stores : store[x].running \/ draft[x] = NoDoc) /\ store[s].running
  BY <1>1 DEF Unharmed, Current
<1>3. UpTo(workspace[r], workspace[r])
  BY <1>0, LaterIsOrder
<1>4. CASE Dial(r)
  <2>1. /\ Joins(r) /\ run' = [run EXCEPT ![r].stage = "open"] /\ run[r].stage = "connect"
        /\ UNCHANGED <<generation, record, stray, session, workspace, store, pub, draft>>
    BY <1>4 DEF Dial, service
  <2>2. /\ conn'[r].phase = "joined" /\ conn'[r].down = << >> /\ conn'[r].up = << >>
        /\ conn'[r].greeting.doc = record
        /\ \A x \in Runs : x # r => conn'[x] = conn[x]
    BY <1>0, <2>1 DEF Joins, NoConn
  <2>3. run'[r].stage = "open" /\ \A x \in Runs : x # r => run'[x] = run[x]
    BY <1>0, <2>1 DEF RunState
  <2>4. Alive(r)'
    BY <1>0, <1>1, <2>1, <2>2, <2>3, ElemsEmpty DEF Alive, Broken, Errs, Current
  <2>5. Holdings(r)' \subseteq Documents
    <3>1. Holdings(r)' \subseteq Holdings(r) \cup {record}
      BY <2>1, <2>2, ElemsEmpty DEF Holdings, DocumentsOf
    <3> QED BY <1>0, <3>1 DEF Documents
  <2>6. ~Reading(r)
    BY <2>1 DEF Reading
  <2> QED BY <1>1, <1>2, <2>1, <2>2, <2>3, <2>4, <2>5, <2>6, OneTogether DEF SameRun
<1>5. CASE Open(r)
  <2> DEFINE h == Head(conn[r].down)
  <2>1. /\ run[r].stage = "open" /\ conn[r].down # << >> /\ conn' = [conn EXCEPT ![r].down = Tail(@)]
        /\ run' = [run EXCEPT ![r].stage = "sync"]
        /\ session' = [session EXCEPT ![r] = [NoSession EXCEPT !.gen = h.gen, !.initial = h.doc]]
        /\ UNCHANGED <<generation, record, stray, workspace, store, pub, draft>>
    BY <1>5 DEF Open, service
  <2>2. /\ Elems(conn[r].down) = {h} \cup Elems(conn'[r].down)
        /\ conn'[r].phase = conn[r].phase /\ conn'[r].up = conn[r].up
        /\ conn'[r].greeting = conn[r].greeting
        /\ \A x \in Runs : x # r => conn'[x] = conn[x]
    BY <2>1, TakenParts
  <2>3. /\ run'[r].stage = "sync" /\ \A x \in Runs : x # r => run'[x] = run[x]
        /\ session'[r].initial = h.doc /\ session'[r].events = << >> /\ session'[r].reader = NoReader
        /\ \A x \in Runs : x # r => session'[x] = session[x]
    BY <1>0, <2>1 DEF RunState, NoSession
  <2> HIDE DEF h
  <2>4. Alive(r)'
    BY <1>0, <1>1, <2>1, <2>2, <2>3, ElemsEmpty DEF Alive, Broken, Errs, Current
  <2>5. Holdings(r)' \subseteq Documents \cup {NoDoc}
    <3>1. Holdings(r)' \subseteq Holdings(r) \cup {NoDoc}
      BY <2>1, <2>2, <2>3, ElemsEmpty DEF Holdings, DocumentsOf, NoReader
    <3> QED BY <1>0, <3>1
  <2>6. ~Reading(r)
    BY <2>1 DEF Reading
  <2> QED BY <1>1, <1>2, <2>1, <2>2, <2>3, <2>4, <2>5, <2>6, OneTogether DEF SameRun
<1>6. CASE Sync(r)
  <2> DEFINE current == Applied(workspace[r], n.initial)
             put == PutOf(r, current)
  <2>1. /\ run[r].stage = "sync" /\ workspace' = [workspace EXCEPT ![r] = current]
        /\ conn' \in {conn, [conn EXCEPT ![r].up = Append(@, put)]}
        /\ session' = [session EXCEPT ![r].initial = NoDoc]
        /\ \E t \in {"saving", "synced"} : run' = [run EXCEPT ![r].stage = t]
        /\ UNCHANGED <<generation, record, stray, store, pub, draft>>
    BY <1>6 DEF Sync, service
  <2>2. current \in {workspace[r], n.initial} /\ current \in Doc
    BY <1>0 DEF Applied
  <2>3. put \in PutMsg /\ put.doc = current
    BY <1>0, <2>2 DEF PutOf, PutMsg
  <2> HIDE DEF put, current
  <2>4. /\ conn'[r].phase = conn[r].phase /\ conn'[r].down = conn[r].down
        /\ conn'[r].greeting = conn[r].greeting /\ Elems(conn'[r].up) \subseteq Elems(conn[r].up) \cup {put}
        /\ \A x \in Runs : x # r => conn'[x] = conn[x]
    <3>1. CASE conn' = conn
      BY <3>1
    <3>2. CASE conn' = [conn EXCEPT ![r].up = Append(@, put)]
      <4>1. /\ conn'[r].phase = conn[r].phase /\ conn'[r].down = conn[r].down
            /\ conn'[r].greeting = conn[r].greeting /\ conn'[r].up = Append(conn[r].up, put)
            /\ \A x \in Runs : x # r => conn'[x] = conn[x]
        BY <1>0, <3>2 DEF Conn
      <4>2. conn[r].up \in Seq(PutMsg)
        BY <1>0, ConnParts
      <4> QED BY <2>3, <4>1, <4>2, ElemsOf
    <3> QED BY <2>1, <3>1, <3>2
  <2>5. /\ run'[r].stage \in {"saving", "synced"} /\ \A x \in Runs : x # r => run'[x] = run[x]
        /\ session'[r].initial = NoDoc /\ session'[r].events = n.events
        /\ session'[r].reader = n.reader /\ \A x \in Runs : x # r => session'[x] = session[x]
        /\ workspace'[r] = current /\ \A x \in Runs : x # r => workspace'[x] = workspace[x]
    BY <1>0, <2>1 DEF RunState, Session
  <2>6. Alive(r)'
    BY <1>0, <1>1, <2>1, <2>4, <2>5 DEF Alive, Broken, Errs, Current
  <2>7. Holdings(r)' \subseteq Documents \cup {NoDoc}
    <3>1. Holdings(r)' \subseteq Holdings(r) \cup {NoDoc}
      BY <2>2, <2>3, <2>4, <2>5 DEF Holdings, DocumentsOf
    <3> QED BY <1>0, <3>1
  <2>8. ~Reading(r)
    BY <2>1 DEF Reading
  <2> QED BY <1>1, <1>2, <2>1, <2>4, <2>5, <2>6, <2>7, <2>8, OneTogether DEF SameRun
<1>7. ASSUME NEW t \in {"synced", "receive"}, run' = [run EXCEPT ![r].stage = t],
             run[r].stage \in {"saving", "synced"}, Current(r)',
             UNCHANGED <<generation, record, stray, conn, session, workspace, pub>>,
             \A x \in Stores : store'[x].running \/ draft'[x] = NoDoc,
             \A x \in Stores : x # s => store'[x] = store[x]
      PROVE  Unharmed'
  <2>1. run'[r].stage = t /\ \A x \in Runs : x # r => run'[x] = run[x]
    BY <1>0, <1>7 DEF RunState
  <2>2. Alive(r)'
    BY <1>0, <1>7, <2>1 DEF Alive, Broken, Errs
  <2>3. ~Publishes(r)
    BY <1>0, <1>1, <1>7 DEF Seat, Turn, Publishes
  <2>4. Busy(r) => Busy(r)'
    BY <1>7, <2>3 DEF Busy, Tells, State
  <2>5. Holdings(r)' = Holdings(r) /\ Reading(r)'
    BY <1>7, <2>1 DEF Holdings, Reading
  <2> QED BY <1>0, <1>1, <1>3, <1>7, <2>1, <2>2, <2>4, <2>5, OneTogether DEF SameRun
<1>8. CASE SaveSynced(r)
  <2>1. /\ run[r].stage = "saving" /\ run' = [run EXCEPT ![r].stage = "synced"]
        /\ draft' = [draft EXCEPT ![s] = workspace[r]]
        /\ UNCHANGED <<generation, record, stray, conn, session, workspace, store, pub>>
    BY <1>8 DEF SaveSynced, service
  <2>2. \A x \in Stores : store'[x].running \/ draft'[x] = NoDoc
    BY <1>0, <1>2, <2>1
  <2>3. Current(r)'
    BY <1>1, <2>1 DEF Current
  <2> QED BY <1>7, <2>1, <2>2, <2>3
<1>9. CASE Connected(r)
  <2> DEFINE d == [store[s] EXCEPT !.connected = TRUE, !.synced = TRUE, !.pending = 0,
                                   !.shown = workspace[r], !.session = run[r].attempt]
  <2>1. /\ run[r].stage = "synced" /\ run' = [run EXCEPT ![r].stage = "receive"]
        /\ store' = [store EXCEPT ![s] = d]
        /\ UNCHANGED <<generation, record, stray, conn, session, workspace, pub, draft>>
    BY <1>1, <1>9 DEF Connected
  <2>2. d.running = store[s].running /\ d.id = store[s].id
    BY <1>0 DEF StoreState
  <2> HIDE DEF d
  <2>3. store'[s] = d /\ \A x \in Stores : x # s => store'[x] = store[x]
    BY <1>0, <2>1
  <2>4. \A x \in Stores : store'[x].running \/ draft'[x] = NoDoc
    BY <1>2, <2>1, <2>2, <2>3
  <2>5. Current(r)'
    BY <1>1, <2>2, <2>3 DEF Current
  <2> QED BY <1>7, <2>1, <2>3, <2>4, <2>5
<1> QED BY <1>4, <1>5, <1>6, <1>8, <1>9

LEMMA FramesTogether ==
    ASSUME TypeInv, TypeInv', Unharmed, NEW r \in Runs,
           HandleUpdate(r) \/ HandleAck(r) \/ HandleError(r) \/ Lost(r) \/ RunEnds(r)
    PROVE  Unharmed'
<1> DEFINE e == Head(session[r].events)
           s == Store(r)
           w == workspace[r]
<1>0. /\ Alive(r) /\ Holdings(r) \subseteq Documents /\ s \in Stores
      /\ session[r].events \in Seq(Event) /\ workspace \in [Runs -> Doc] /\ w \in Doc
      /\ store \in [Stores -> StoreState] /\ store[s] \in StoreState /\ draft \in [Stores -> Doc]
  BY RunFacts, SessionParts DEF Unharmed, Documents, TypeInv
<1>1. \A x \in Stores : store[x].running \/ draft[x] = NoDoc
  BY DEF Unharmed
\* Without a fault no run is over.
<1>2. CASE HandleError(r)
  <2>1. session[r].events # << >> /\ e.kind = "error"
    BY <1>2 DEF HandleError, Handles
  <2>2. e \in Elems(session[r].events)
    BY <1>0, <2>1, ElemsOf
  <2> QED BY <1>0, <2>1, <2>2 DEF Alive, Errs
<1>3. CASE Lost(r) \/ RunEnds(r)
  BY <1>0, <1>3 DEF Alive, Lost, RunEnds
<1>4. ASSUME run[r].stage = "receive", Current(r), session[r].events # << >>,
             session' = [session EXCEPT ![r].events = Tail(@)],
             UNCHANGED <<service, conn, run, pub>>,
             \A x \in Runs : x # r => workspace'[x] = workspace[x],
             \A x \in Stores : x # s => store'[x] = store[x] /\ draft'[x] = draft[x],
             store'[s].running, store'[s].id = store[s].id, store'[s].session = store[s].session,
             workspace'[r] \in {w, e.doc}, UpTo(w, workspace'[r]),
             pub[s].stage = "idle" \/ workspace'[r] = w
      PROVE  Unharmed'
  <2>1. /\ e \in Event /\ Elems(session[r].events) = {e} \cup Elems(session'[r].events)
        /\ session'[r].initial = session[r].initial /\ session'[r].reader = session[r].reader
        /\ \A x \in Runs : x # r => session'[x] = session[x]
    BY <1>4, HandledParts
  <2> HIDE DEF e
  <2>2. UNCHANGED <<generation, record, stray>>
    BY <1>4 DEF service
  <2>3. Alive(r)'
    BY <1>0, <1>4, <2>1 DEF Alive, Broken, Errs, Current
  <2>4. Busy(r) => Busy(r)'
    BY <1>4, <2>1, <2>2 DEF Busy, Tells, State, Publishes
  <2>5. Holdings(r)' \subseteq Holdings(r)
    BY <1>4, <2>1 DEF Holdings, DocumentsOf
  <2>6. Reading(r) /\ Reading(r)'
    BY <1>4 DEF Reading
  <2>7. \A x \in Stores : store'[x].running \/ draft'[x] = NoDoc
    BY <1>1, <1>4
  <2> QED BY <1>0, <1>4, <2>1, <2>2, <2>3, <2>4, <2>5, <2>6, <2>7, OneTogether DEF SameRun
<1>5. CASE HandleUpdate(r)
  <2> DEFINE d == ShownRemote(r, e.doc)
  <2>1. /\ run[r].stage = "receive" /\ session[r].events # << >> /\ pub[s].stage = "idle" /\ Current(r)
        /\ workspace' = [workspace EXCEPT ![r] = Applied(w, e.doc)]
        /\ store' = [store EXCEPT ![s] = d]
        /\ session' = [session EXCEPT ![r].events = Tail(@)]
        /\ draft' \in {draft, [draft EXCEPT ![s] = e.doc]}
        /\ UNCHANGED <<service, conn, run, pub>>
    BY <1>0, <1>5 DEF HandleUpdate, Handles, SendMuFree, Active, TypeInv
  <2>2. e.doc \in Doc
    <3>1. e \in Event
      BY <1>0, <2>1, QueueParts
    <3> HIDE DEF e
    <3> QED BY <3>1 DEF Event
  <2>3. /\ d.id = store[s].id /\ d.running = store[s].running /\ d.session = store[s].session
    BY <1>0 DEF ShownRemote, StoreState
  <2> HIDE DEF d, e
  <2>4. /\ store'[s] = d /\ \A x \in Stores : x # s => store'[x] = store[x] /\ draft'[x] = draft[x]
        /\ workspace'[r] = Applied(w, e.doc) /\ \A x \in Runs : x # r => workspace'[x] = workspace[x]
    BY <1>0, <2>1
  <2>5. workspace'[r] \in {w, e.doc} /\ UpTo(w, workspace'[r])
    BY <1>0, <2>2, <2>4, AppliedGrows DEF Applied
  <2> QED BY <1>4, <2>1, <2>3, <2>4, <2>5 DEF Current, e
<1>6. CASE HandleAck(r)
  <2>1. /\ run[r].stage = "receive" /\ session[r].events # << >> /\ Current(r)
        /\ store' = store \/ store' = [store EXCEPT ![s].pending = 0, ![s].synced = TRUE]
        /\ session' = [session EXCEPT ![r].events = Tail(@)]
        /\ UNCHANGED <<service, conn, run, workspace, pub, draft>>
    BY <1>6 DEF HandleAck, Handles
  <2>2. /\ store'[s].id = store[s].id /\ store'[s].session = store[s].session
        /\ store'[s].running = store[s].running
        /\ \A x \in Stores : x # s => store'[x] = store[x]
    BY <1>0, <2>1 DEF StoreState
  <2>3. UpTo(w, workspace'[r])
    BY <1>0, <2>1, LaterIsOrder
  <2> QED BY <1>4, <2>1, <2>2, <2>3 DEF Current
<1> QED BY <1>2, <1>3, <1>5, <1>6

\* A step that only moves a publish on, and loses none of a run that reads.
LEMMA StillTogether ==
    ASSUME Unharmed, UNCHANGED <<service, conn, session, run, workspace, store>>,
           \A s \in Stores : store'[s].running \/ draft'[s] = NoDoc,
           \A q \in Runs : Reading(q) /\ Publishes(q) => Publishes(q)'
    PROVE  Unharmed'
<1>1. UNCHANGED <<generation, record, stray>> /\ stray = {}
  BY DEF service, Unharmed
<1>2. ASSUME NEW x \in Runs PROVE Alive(x)'
  <2>1. Alive(x)
    BY DEF Unharmed
  <2> QED BY <2>1 DEF Alive, Broken, Errs, Current
<1>3. Documents' = Documents
  BY <1>1 DEF Documents, Holdings
<1>4. ASSUME NEW q \in Runs, Reading(q)
      PROVE  Reading(q)' /\ (Busy(q) => Busy(q)')
  BY <1>1, <1>4 DEF Reading, Busy, Tells, State
<1>5. ASSUME NEW d \in Documents
      PROVE  (d = NoDoc \/ Owner(d)') /\ (Later(d, record') => Answerer(d)')
  <2>1. (d = NoDoc \/ Owner(d)) /\ (Later(d, record) => Answerer(d))
    BY DEF Unharmed, OwnerInv
  <2> QED BY <1>1, <1>4, <2>1 DEF Owner, Answerer
<1> QED BY <1>1, <1>2, <1>3, <1>5 DEF Unharmed, OwnerInv

LEMMA PublishingTogether ==
    ASSUME TypeInv, TypeInv', IdInv, PubInv, SettleInv, Unharmed, NEW s \in Stores, Publishing(s)
    PROVE  Unharmed'
<1> DEFINE p == pub[s]
<1>0. /\ pub \in [Stores -> PubState] /\ p \in PubState /\ p.doc \in Doc
      /\ store \in [Stores -> StoreState] /\ store[s] \in StoreState /\ draft \in [Stores -> Doc]
      /\ \A x \in Stores : store[x].running \/ draft[x] = NoDoc
  BY DEF TypeInv, PubState, Unharmed
<1>1. CASE CheckDraft(s) \/ SaveDraft(s)
  <2>0. /\ p.stage # "idle" /\ \E x \in {"save", "send"} : pub' = [pub EXCEPT ![s].stage = x]
        /\ draft' = draft \/ draft' = [draft EXCEPT ![s] = p.doc]
        /\ UNCHANGED <<service, conn, session, run, workspace, store>>
    BY <1>1 DEF CheckDraft, SaveDraft
  \* The run that publishes has a document, so it goes on.
  <2>1. store[s].running
    <3>1. /\ p.id \in 1..store[s].id /\ store[s].id \in 0..Starts(s)
          /\ UpTo(p.doc, workspace[<<s, p.id>>])
      BY <2>0 DEF PubInv, IdInv
    <3>2. PICK r \in Runs : r = <<s, p.id>> /\ Store(r) = s /\ r[2] = p.id
      <4>1. p.id \in 1..Starts(s)
        BY <3>1 DEF Starts
      <4> QED BY <4>1, RunOf
    <3>3. Turn(r) /\ Alive(r) /\ workspace[r] \in Doc
      BY DEF SettleInv, TurnInv, Unharmed, TypeInv
    <3>4. p.doc.rev # 0
      BY <2>0, <3>2, <3>3 DEF Turn
    <3>5. workspace[r] # NoDoc
      BY <1>0, <3>1, <3>2, <3>4, DocParts DEF UpTo, Later, NoDoc
    <3> QED BY <3>2, <3>3, <3>5 DEF Alive, Current
  <2>2. /\ pub'[s].stage # "idle" /\ pub'[s].id = p.id /\ pub'[s].session = p.session
        /\ pub'[s].doc = p.doc /\ \A x \in Stores : x # s => pub'[x] = pub[x]
    BY <1>0, <2>0 DEF PubState
  <2>3. ASSUME NEW q \in Runs, Publishes(q) PROVE Publishes(q)'
    <3>1. Store(q) \in Stores
      BY RunFacts
    <3> QED BY <2>0, <2>2, <2>3, <3>1 DEF Publishes
  <2>4. \A x \in Stores : store'[x].running \/ draft'[x] = NoDoc
    BY <1>0, <2>0, <2>1
  <2> QED BY <2>0, <2>3, <2>4, StillTogether
<1>2. CASE Publish(s)
  <2>1. p.stage = "send" /\ p.id \in 1..store[s].id /\ store[s].id \in 0..Starts(s)
    BY <1>2 DEF PubInv, IdInv, Publish
  <2>2. PICK r \in Runs : r = <<s, p.id>> /\ Store(r) = s /\ r[2] = p.id
    <3>1. p.id \in 1..Starts(s)
      BY <2>1 DEF Starts
    <3> QED BY <3>1, RunOf
  <2> DEFINE here == Current(r) /\ store[s].session = p.session
             put == PutOf(r, p.doc)
             d == [store[s] EXCEPT !.shown = p.doc, !.synced = FALSE, !.pending = p.doc.rev]
  <2>3. /\ Seat(r) /\ Turn(r) /\ Alive(r) /\ Holdings(r) \subseteq Documents /\ workspace[r] \in Doc
        /\ conn[r].up \in Seq(PutMsg)
    BY ConnParts DEF SettleInv, SeatInv, TurnInv, Unharmed, Documents, TypeInv
  <2>4. put \in PutMsg /\ put.doc = p.doc
    <3>1. session[r].gen \in Nat
      BY SessionParts DEF TypeInv
    <3> QED BY <1>0, <3>1 DEF PutOf, PutMsg
  <2>5. /\ pub' = [pub EXCEPT ![s] = NoPub]
        /\ here => /\ store' = [store EXCEPT ![s] = d]
                   /\ conn' = IF Broken(r) THEN [conn EXCEPT ![r].phase = "closed"]
                              ELSE [conn EXCEPT ![r].up = Append(@, put)]
        /\ ~here => UNCHANGED <<store, conn>>
        /\ UNCHANGED <<service, session, run, workspace, draft>>
    BY <1>2, <2>2 DEF Publish
  <2>6. \A x \in Stores : x # s => pub'[x] = pub[x]
    BY <1>0, <2>5
  <2>7. d.id = store[s].id /\ d.running = store[s].running /\ d.session = store[s].session
    BY <1>0 DEF StoreState
  <2> HIDE DEF here, put, d
  \* Without a fault the run that publishes is current, and its session goes on.
  <2>8. CASE ~here
    <3>1. ASSUME NEW q \in Runs, Reading(q), Publishes(q) PROVE Publishes(q)'
      <4>1. Store(q) \in Stores /\ q = <<Store(q), q[2]>> /\ Current(q)
        BY <3>1, RunFacts DEF Unharmed, Alive, Reading
      <4>2. Store(q) # s
        <5>1. SUFFICES ASSUME Store(q) = s PROVE FALSE
          OBVIOUS
        <5>2. q[2] = p.id /\ p.session = store[s].session
          BY <3>1, <5>1 DEF Publishes
        <5>3. q = r
          BY <2>2, <4>1, <5>1, <5>2
        <5> QED BY <2>8, <4>1, <5>2, <5>3 DEF here
      <4> QED BY <2>5, <2>6, <2>8, <3>1, <4>1, <4>2 DEF Publishes
    <3> QED BY <1>0, <2>5, <2>8, <3>1, StillTogether
  <2>9. CASE here
    <3>1. Current(r) /\ run[r].stage = "receive" /\ p.doc = workspace[r]
      BY <2>1, <2>2, <2>3, <2>9 DEF here, Turn, Seat
    <3>2. /\ conn'[r].phase = conn[r].phase /\ conn'[r].up = Append(conn[r].up, put)
          /\ conn'[r].down = conn[r].down /\ conn'[r].greeting = conn[r].greeting
          /\ conn'[r].up # << >> /\ \A x \in Runs : x # r => conn'[x] = conn[x]
      BY <2>3, <2>4, <2>5, <2>9, SentParts DEF Alive
    <3>3. store'[s] = d /\ \A x \in Stores : x # s => store'[x] = store[x]
      BY <1>0, <2>5, <2>9
    <3>4. Alive(r)'
      <4>1. Current(r)'
        BY <2>2, <2>7, <3>1, <3>3 DEF Current
      <4>2. ~Broken(r)' /\ ~Errs(r)'
        BY <2>3, <2>5, <3>2 DEF Alive, Broken, Errs
      <4> QED BY <2>5, <3>1, <4>1, <4>2 DEF Alive
    <3>5. Holdings(r)' \subseteq Documents
      <4>1. Elems(conn'[r].up) = Elems(conn[r].up) \cup {put}
        BY <2>3, <2>4, <3>2, ElemsOf
      <4>2. Holdings(r)' \subseteq Holdings(r)
        BY <2>4, <2>5, <3>1, <3>2, <4>1 DEF Holdings, DocumentsOf
      <4> QED BY <2>3, <4>2
    <3>6. Busy(r)' /\ Reading(r)'
      BY <2>5, <3>1, <3>2 DEF Busy, Reading
    <3>7. UpTo(workspace[r], workspace'[r])
      BY <2>3, <2>5, LaterIsOrder
    <3>8. \A x \in Stores : store'[x].running \/ draft'[x] = NoDoc
      BY <1>0, <2>5, <2>7, <3>3
    <3>9. UNCHANGED <<generation, record, stray>> /\ \A x \in Runs : x # r => SameRun(x)
      BY <2>5, <3>2 DEF service, SameRun
    <3>10. \A x \in Stores : x # Store(r) => store'[x] = store[x] /\ pub'[x] = pub[x]
      BY <2>2, <2>6, <3>3
    <3> QED BY <3>1, <3>4, <3>5, <3>6, <3>7, <3>8, <3>9, <3>10, OneTogether
  <2> QED BY <2>8, <2>9
<1> QED BY <1>1, <1>2 DEF Publishing

\* The user: a first start has no draft, and who edits sends the document.
LEMMA StartTogether ==
    ASSUME TypeInv, TypeInv', SettleInv, Unharmed, NEW s \in Stores, Start(s)
    PROVE  Unharmed'
<1> DEFINE id == store[s].id + 1
<1>1. /\ store[s].id \in Nat /\ store[s].id < Starts(s) /\ ~store[s].running
      /\ store \in [Stores -> StoreState] /\ run \in [Runs -> RunState] /\ workspace \in [Runs -> Doc]
      /\ \A x \in Stores : store[x].running \/ draft[x] = NoDoc
  BY DEF Start, TypeInv, StoreState, Unharmed
<1>2. PICK r \in Runs : r = <<s, id>> /\ Store(r) = s /\ r[2] = id
  <2>1. id \in 1..Starts(s)
    BY <1>1 DEF Starts
  <2> QED BY <2>1, RunOf
<1>3. /\ workspace' = [workspace EXCEPT ![r] = NoDoc]
      /\ store' = [store EXCEPT ![s] = [NewStore EXCEPT !.id = id, !.running = TRUE, !.shown = draft[s]]]
      /\ run' = [run EXCEPT ![r] = [stage |-> "connect", attempt |-> 1]]
      /\ UNCHANGED <<generation, record, stray, conn, session, pub, draft>>
  BY <1>1, <1>2 DEF Start, service
<1>4. /\ store'[s].id = id /\ store'[s].running
      /\ \A x \in Stores : x # s => store'[x] = store[x]
      /\ run'[r].stage = "connect" /\ workspace'[r] = NoDoc
      /\ \A x \in Runs : x # r => run'[x] = run[x] /\ workspace'[x] = workspace[x]
  BY <1>1, <1>3 DEF NewStore
<1>5. Alive(r) /\ run[r].stage = "idle" /\ Holdings(r) \subseteq Documents
  BY <1>1, <1>2 DEF SettleInv, SeatInv, Seat, Unharmed, Documents
<1>6. Alive(r)'
  <2>1. Current(r)'
    BY <1>2, <1>4 DEF Current
  <2> QED BY <1>3, <1>4, <1>5, <2>1 DEF Alive, Broken, Errs
<1>7. Holdings(r)' \subseteq Documents \cup {NoDoc}
  <2>1. Holdings(r)' \subseteq Holdings(r) \cup {NoDoc}
    BY <1>3, <1>4 DEF Holdings, DocumentsOf
  <2> QED BY <1>5, <2>1
<1>8. ~Reading(r) /\ \A x \in Runs : x # r => SameRun(x)
  BY <1>3, <1>4, <1>5 DEF Reading, SameRun
<1>9. \A x \in Stores : store'[x].running \/ draft'[x] = NoDoc
  BY <1>1, <1>3, <1>4
<1> QED BY <1>1, <1>2, <1>3, <1>4, <1>6, <1>7, <1>8, <1>9, OneTogether

\* A document the user writes is the latest there is to its run, which sends it.
LEMMA WrittenTogether ==
    ASSUME TypeInv, TypeInv', Unharmed, NEW r \in Runs, run[r].stage = "receive",
           UNCHANGED <<service, session, run>>,
           \A x \in Runs : x # r => conn'[x] = conn[x] /\ workspace'[x] = workspace[x],
           \A s \in Stores : s # Store(r) =>
               store'[s] = store[s] /\ pub'[s] = pub[s] /\ draft'[s] = draft[s],
           store'[Store(r)].id = store[Store(r)].id, store'[Store(r)].running,
           conn'[r].phase = conn[r].phase, conn'[r].down = conn[r].down,
           conn'[r].greeting = conn[r].greeting,
           \A m \in Elems(conn'[r].up) : m \in Elems(conn[r].up) \/ m.doc = workspace'[r],
           UpTo(workspace[r], workspace'[r]), Busy(r)'
    PROVE  Unharmed'
<1>1. /\ Alive(r) /\ Holdings(r) \subseteq Documents /\ workspace'[r] \in Doc /\ Store(r) \in Stores
      /\ \A x \in Stores : store[x].running \/ draft[x] = NoDoc
  BY RunFacts DEF Unharmed, Documents, TypeInv
<1>2. Alive(r)'
  <2>1. Current(r)'
    BY <1>1 DEF Alive, Current
  <2> QED BY <1>1, <2>1 DEF Alive, Broken, Errs
<1>3. Reading(r)' /\ UpTo(workspace'[r], workspace'[r])
  BY <1>1, LaterIsOrder DEF Reading
<1>4. \A d \in Holdings(r)' : d \in Documents \/ d = workspace'[r]
  <2>1. \A d \in Holdings(r)' : d \in Holdings(r) \/ d = workspace'[r]
    BY DEF Holdings, DocumentsOf
  <2> QED BY <1>1, <2>1
<1>5. \A x \in Stores : store'[x].running \/ draft'[x] = NoDoc
  BY <1>1
<1>6. UNCHANGED <<generation, record, stray>> /\ \A x \in Runs : x # r => SameRun(x)
  BY DEF service, SameRun
<1> QED BY <1>2, <1>3, <1>4, <1>5, <1>6, OneTogether

LEMMA EditTogether ==
    ASSUME TypeInv, TypeInv', IdInv, SettleInv, Unharmed,
           NEW s \in Stores, NEW text \in Texts, NEW now \in Clock, Edit(s, text, now)
    PROVE  Unharmed'
<1>1. /\ store \in [Stores -> StoreState] /\ store[s].running
      /\ store[s].session # 0 /\ workspace \in [Runs -> Doc] /\ pub \in [Stores -> PubState]
  BY DEF Edit, TypeInv
<1>2. PICK r \in Runs : r = <<s, store[s].id>> /\ Store(r) = s /\ r[2] = store[s].id
  BY <1>1, RunningRun
<1> DEFINE doc == Updated(workspace[r], text, now)
           p == [stage |-> "draft", id |-> store[s].id, session |-> store[s].session, doc |-> doc]
<1>3. /\ workspace' = [workspace EXCEPT ![r] = doc] /\ pub' = [pub EXCEPT ![s] = p]
      /\ UNCHANGED <<service, conn, session, run, store, draft>>
  BY <1>2 DEF Edit
<1>4. UpTo(workspace[r], doc)
  BY <1>1, UpdatedGrows
<1> HIDE DEF doc
<1>5. /\ pub'[s].stage = "draft" /\ pub'[s].id = store[s].id /\ pub'[s].session = store[s].session
      /\ pub'[s].doc = doc /\ \A x \in Stores : x # s => pub'[x] = pub[x]
      /\ workspace'[r] = doc /\ \A x \in Runs : x # r => workspace'[x] = workspace[x]
  BY <1>1, <1>3
<1>6. run[r].stage = "receive"
  <2>1. Seat(r) /\ Current(r)
    BY <1>1, <1>2 DEF SettleInv, SeatInv, Current
  <2> QED BY <1>1, <1>2, <2>1 DEF Seat
<1>7. Publishes(r)' /\ Busy(r)'
  <2>1. Publishes(r)'
    BY <1>2, <1>3, <1>5 DEF Publishes
  <2> QED BY <2>1 DEF Busy
<1> QED BY <1>1, <1>2, <1>3, <1>4, <1>5, <1>6, <1>7, WrittenTogether

LEMMA InteractiveEditTogether ==
    ASSUME TypeInv, TypeInv', IdInv, Unharmed,
           NEW s \in Stores, NEW text \in Texts, NEW now \in Clock, InteractiveEdit(s, text, now)
    PROVE  Unharmed'
<1>1. /\ store \in [Stores -> StoreState] /\ store[s] \in StoreState /\ store[s].running
      /\ workspace \in [Runs -> Doc] /\ draft \in [Stores -> Doc]
  BY DEF InteractiveEdit, TypeInv
<1>2. PICK r \in Runs : r = <<s, store[s].id>> /\ Store(r) = s /\ r[2] = store[s].id
  BY <1>1, RunningRun
<1> DEFINE doc == Updated(workspace[r], text, now)
           put == PutOf(r, doc)
           d == [store[s] EXCEPT !.shown = doc, !.pending = doc.rev]
<1>3. doc \in Doc /\ UpTo(workspace[r], doc)
  BY <1>1, UpdatedGrows
<1>4. put \in PutMsg /\ put.doc = doc
  <2>1. session[r].gen \in Nat
    BY SessionParts DEF TypeInv
  <2> QED BY <1>3, <2>1 DEF PutOf, PutMsg
<1>5. /\ workspace' = [workspace EXCEPT ![r] = doc] /\ store' = [store EXCEPT ![s] = d]
      /\ draft' = [draft EXCEPT ![s] = doc]
      /\ conn' = IF Broken(r) THEN [conn EXCEPT ![r].phase = "closed"]
                 ELSE [conn EXCEPT ![r].up = Append(@, put)]
      /\ UNCHANGED <<service, session, run, pub>> /\ run[r].stage = "receive"
  BY <1>2 DEF InteractiveEdit
<1>6. /\ ~Broken(r) /\ conn[r].up \in Seq(PutMsg)
  BY ConnParts DEF Unharmed, Alive, TypeInv
<1>7. /\ conn'[r].down = conn[r].down /\ conn'[r].greeting = conn[r].greeting
      /\ conn'[r].phase = conn[r].phase /\ conn'[r].up # << >>
      /\ conn'[r].up = Append(conn[r].up, put) /\ \A x \in Runs : x # r => conn'[x] = conn[x]
  BY <1>4, <1>5, <1>6, SentParts
<1>8. d.id = store[s].id /\ d.running = store[s].running
  BY <1>1 DEF StoreState
<1> HIDE DEF doc, put, d
<1>9. /\ store'[s] = d /\ \A x \in Stores : x # s => store'[x] = store[x] /\ draft'[x] = draft[x]
      /\ workspace'[r] = doc /\ \A x \in Runs : x # r => workspace'[x] = workspace[x]
  BY <1>1, <1>5
<1>10. \A m \in Elems(conn'[r].up) : m \in Elems(conn[r].up) \/ m.doc = workspace'[r]
  BY <1>4, <1>6, <1>7, <1>9, ElemsOf
<1>11. Busy(r)'
  BY <1>7 DEF Busy
<1>12. store'[Store(r)].id = store[Store(r)].id /\ store'[Store(r)].running
  BY <1>1, <1>2, <1>8, <1>9
<1>13. UpTo(workspace[r], workspace'[r])
  BY <1>3, <1>9
<1>14. \A x \in Stores : x # Store(r) =>
           store'[x] = store[x] /\ pub'[x] = pub[x] /\ draft'[x] = draft[x]
  BY <1>2, <1>5, <1>9
<1> QED BY <1>5, <1>7, <1>9, <1>10, <1>11, <1>12, <1>13, <1>14, WrittenTogether

\* compareDocuments tells any two documents apart.
LEMMA SameDoc ==
    ASSUME NEW a \in Doc, NEW b \in Doc, ~Later(a, b), ~Later(b, a)
    PROVE  a = b
<1>1. /\ a \in [rev : Nat, ts : Nat, text : Nat] /\ b \in [rev : Nat, ts : Nat, text : Nat]
  BY DEF Doc
<1>2. a.rev = b.rev /\ a.ts = b.ts /\ a.text = b.text
  BY <1>1 DEF Later
<1> QED BY <1>1, <1>2

LEMMA InitTogether == Init => TogetherInv
<1> SUFFICES ASSUME Init PROVE faults \in Nat /\ Unharmed
  BY DEF TogetherInv
<1>1. faults = 0 /\ stray = {} /\ record = NoDoc /\ \A s \in Stores : draft[s] = NoDoc
  BY DEF Init
<1>2. ASSUME NEW r \in Runs PROVE Alive(r) /\ Holdings(r) = {NoDoc}
  <2>1. session[r] = NoSession /\ workspace[r] = NoDoc /\ Store(r) \in Stores
    BY RunFacts DEF Init
  <2>2. /\ session[r].initial = NoDoc /\ session[r].events = << >> /\ session[r].reader.doc = NoDoc
    BY <2>1 DEF NoSession, NoReader
  <2>3. /\ conn[r].down = << >> /\ conn[r].up = << >> /\ conn[r].greeting.doc = NoDoc
        /\ conn[r].phase \in {"none", "greeted"}
    BY <2>1 DEF Init, NoConn
  <2>4. Holdings(r) = {NoDoc} /\ ~Errs(r)
    BY <2>1, <2>2, <2>3, ElemsEmpty DEF Holdings, DocumentsOf, Errs
  <2>5. run[r].stage \in {"idle", "receive"} /\ (run[r].stage = "receive" => Current(r))
    <3>1. CASE Store(r) \in Returning
      BY <2>1, <3>1 DEF Init
    <3>2. CASE Store(r) \notin Returning
      <4>1. /\ run[r].stage = "receive" /\ store[Store(r)].id = 1 /\ store[Store(r)].running
        BY <2>1, <3>2 DEF Init, NewStore
      <4>2. r[2] = 1
        BY <3>2, RunFacts DEF Starts
      <4> QED BY <4>1, <4>2 DEF Current
    <3> QED BY <3>1, <3>2
  <2> QED BY <2>1, <2>3, <2>4, <2>5 DEF Alive, Broken
<1>3. \A d \in Documents : d = NoDoc
  BY <1>1, <1>2 DEF Documents
<1>4. ~Later(NoDoc, NoDoc)
  BY DEF NoDoc, Later
<1> QED BY <1>1, <1>2, <1>3, <1>4 DEF Unharmed, OwnerInv

LEMMA NextTogether == IInv /\ IInv' /\ SettleInv /\ TogetherInv /\ [Next]_vars => TogetherInv'
<1> SUFFICES ASSUME IInv, IInv', SettleInv, TogetherInv, [Next]_vars PROVE TogetherInv'
  OBVIOUS
<1>0. TypeInv /\ TypeInv' /\ IdInv /\ PubInv /\ faults \in Nat /\ (faults = 0 => Unharmed)
  BY DEF IInv, TogetherInv
\* A fault ends what is promised here.
<1>1. ASSUME faults' = faults + 1 PROVE TogetherInv'
  BY <1>0, <1>1 DEF TogetherInv
<1>2. ASSUME faults' = faults, faults = 0 => Unharmed' PROVE TogetherInv'
  BY <1>0, <1>2 DEF TogetherInv
<1>3. ASSUME NEW r \in Runs, RefusePut(r) \/ Break(r) PROVE TogetherInv'
  BY <1>1, <1>3 DEF RefusePut, Break
<1>4. ASSUME NEW r \in Runs, Service(r) \/ Reader(r) PROVE TogetherInv'
  <2>1. faults' = faults
    BY <1>4 DEF Service, Greet, Put, Reader, Read, ReadError, Compare, Republish, bounds
  <2>2. LinkInv
    BY DEF SettleInv
  <2> QED BY <1>0, <1>2, <1>4, <2>1, <2>2, ServiceTogether, ReaderTogether
<1>5. ASSUME NEW r \in Runs, Goroutine(r) PROVE TogetherInv'
  <2>1. faults' = faults
    BY <1>5 DEF Goroutine, Dial, Open, Sync, SaveSynced, Connected, HandleUpdate, HandleAck,
                HandleError, Lost, RunEnds, bounds
  <2> QED BY <1>0, <1>2, <1>5, <2>1, OpeningTogether, FramesTogether DEF Goroutine
<1>6. ASSUME NEW s \in Stores, Publishing(s) PROVE TogetherInv'
  <2>1. faults' = faults
    BY <1>6 DEF Publishing, CheckDraft, SaveDraft, Publish, bounds
  <2> QED BY <1>0, <1>2, <1>6, <2>1, PublishingTogether
<1>7. ASSUME NEW s \in Stores, User(s) PROVE TogetherInv'
  <2>1. CASE Leave(s)
    BY <1>1, <2>1 DEF Leave
  <2>2. CASE Start(s)
    BY <1>0, <1>2, <2>2, StartTogether DEF Start, bounds
  <2>3. ASSUME NEW text \in Texts, NEW now \in Clock, Edit(s, text, now) PROVE TogetherInv'
    BY <1>0, <1>2, <2>3, EditTogether DEF Edit
  <2>4. ASSUME NEW text \in Texts, NEW now \in Clock, InteractiveEdit(s, text, now)
        PROVE  TogetherInv'
    BY <1>0, <1>2, <2>4, InteractiveEditTogether DEF InteractiveEdit
  <2> QED BY <1>7, <2>1, <2>2, <2>3, <2>4 DEF User
<1>8. CASE StrayPut
  <2>1. faults' = faults /\ stray # {}
    BY <1>8 DEF StrayPut, bounds
  <2> QED BY <1>0, <1>2, <2>1 DEF Unharmed
<1>9. CASE UNCHANGED vars
  <2>1. /\ UNCHANGED <<service, conn, session, run, workspace, store, pub, draft>> /\ faults' = faults
    BY <1>9 DEF vars, clients, bounds
  <2>2. \A q \in Runs : Publishes(q) => Publishes(q)'
    BY <2>1 DEF Publishes
  <2>3. ASSUME Unharmed PROVE Unharmed'
    <3>1. \A s \in Stores : store'[s].running \/ draft'[s] = NoDoc
      BY <2>1, <2>3 DEF Unharmed
    <3> QED BY <2>1, <2>2, <2>3, <3>1, StillTogether
  <2> QED BY <1>0, <1>2, <2>1, <2>3
<1> QED BY <1>3, <1>4, <1>5, <1>6, <1>7, <1>8, <1>9 DEF Next

\* As long as there is no fault, every run goes on, and whatever document lies
\* anywhere has an owner, who answers while the service does not hold it.
THEOREM TogetherInvariant == Spec => []TogetherInv
<1>1. IInv /\ IInv' /\ SettleInv /\ TogetherInv /\ [Next]_vars => TogetherInv'
  BY NextTogether
<1> QED BY <1>1, InitTogether, SyncInvariant, SettleInvariant, PTL DEF Spec

\* The convergence model of docs/note.md: as long as no client leaves or loses its
\* connection, once everything is handled every connected client holds and shows
\* the document the service holds (readLoop, handleFrame), whatever the order of
\* edits, broadcasts, frames and first states and for any number of clients.
THEOREM ConvergedWhenTogether == Spec => []ConvergedTogether
<1>1. IInv /\ TogetherInv /\ QuietIsSettled => ConvergedTogether
  <2> SUFFICES ASSUME IInv, TogetherInv, QuietIsSettled, faults = 0, Quiet,
                      NEW r \in Runs, run[r].stage = "receive", Current(r)
               PROVE  workspace[r] = record /\ store[Store(r)].shown = record
    BY DEF ConvergedTogether, Converged
  <2>1. Unharmed /\ record \in Doc /\ workspace[r] \in Doc
    BY DEF TogetherInv, IInv, TypeInv
  <2>2. ~Later(record, workspace[r]) /\ store[Store(r)].shown = workspace[r]
    BY DEF QuietIsSettled, NeverBehind
  <2>3. ASSUME NEW q \in Runs PROVE ~Busy(q)
    <3>1. Store(q) \in Stores
      BY RunFacts
    <3> QED BY <3>1, ElemsEmpty DEF Busy, Quiet, Tells, Publishes
  <2>4. ~Later(workspace[r], record)
    <3>1. workspace[r] \in Documents
      BY DEF Documents, Holdings, DocumentsOf
    <3> QED BY <2>1, <2>3, <3>1 DEF Unharmed, OwnerInv, Answerer
  <2>5. workspace[r] = record
    BY <2>1, <2>2, <2>4, SameDoc
  <2> QED BY <2>2, <2>5
<1> QED BY <1>1, TogetherInvariant, QuietSettled, SyncInvariant, PTL

=============================================================================
