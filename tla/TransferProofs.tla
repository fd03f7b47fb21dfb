--------------------------- MODULE TransferProofs ---------------------------
(***************************************************************************)
(* Proofs about Transfer for any items, sizes, pipes, contents, edits and   *)
(* numbers of faults: what is moved in place is a whole version of the      *)
(* source, a sender that succeeds has delivered what it hashed, the part    *)
(* files hold what the receiver has counted as received, and a receiver     *)
(* never refuses a transfer whose sources stay as they are.                 *)
(***************************************************************************)
EXTENDS Transfer, TLAPS, SequenceTheorems, FiniteSetTheorems

(***************************************************************************)
(* Queues of messages.  Nothing is said about what they carry: the receiver *)
(* is shown to be right whatever comes over the data pipes.                 *)
(***************************************************************************)

IsList(q) == \E S : q \in Seq(S)

AtMostOne(q) == q = << >> \/ \E m : q = <<m>>

LEMMA OneFacts ==
    /\ \A m : <<m>> # << >> /\ Head(<<m>>) = m /\ Tail(<<m>>) = << >>
    /\ \A m : Append(<< >>, m) = <<m>>
OBVIOUS

LEMMA OneIsList == ASSUME NEW q, AtMostOne(q) PROVE IsList(q)
<1>1. CASE q = << >>
  <2>1. q \in Seq({})
    BY <1>1
  <2> QED BY <2>1 DEF IsList
<1>2. CASE \E m : q = <<m>>
  <2>1. PICK m : q = <<m>>
    BY <1>2
  <2>2. q \in Seq({m})
    BY <2>1
  <2> QED BY <2>2 DEF IsList
<1> QED BY <1>1, <1>2 DEF AtMostOne

LEMMA ListConcat ==
    ASSUME NEW q, IsList(q), NEW t, IsList(t)
    PROVE  /\ IsList(q \o t)
           /\ q # << >> => q \o t # << >> /\ Head(q \o t) = Head(q)
           /\ q = << >> => q \o t = t
           /\ t = << >> => q \o t = q
<1>1. PICK S : q \in Seq(S)
  BY DEF IsList
<1>2. PICK T : t \in Seq(T)
  BY DEF IsList
<1>3. q \in Seq(S \cup T) /\ t \in Seq(S \cup T)
  BY <1>1, <1>2
<1>4. q \o t \in Seq(S \cup T)
  BY <1>3
<1>5. q # << >> => q \o t # << >> /\ Head(q \o t) = Head(q)
  <2> SUFFICES ASSUME q # << >> PROVE q \o t # << >> /\ Head(q \o t) = Head(q)
    OBVIOUS
  <2>1. Len(q) \in Nat \ {0} /\ Len(t) \in Nat
    BY <1>3
  <2>2. Len(q \o t) = Len(q) + Len(t) /\ (q \o t)[1] = q[1]
    BY <1>3, <2>1
  <2> QED BY <1>3, <1>4, <2>1, <2>2
<1>6. /\ q = << >> => q \o t = t
      /\ t = << >> => q \o t = q
  BY <1>3, ConcatEmptySeq
<1> QED BY <1>4, <1>5, <1>6 DEF IsList

LEMMA ListAppend ==
    ASSUME NEW q, IsList(q), NEW x
    PROVE  /\ IsList(Append(q, x))
           /\ q # << >> => Append(q, x) # << >> /\ Head(Append(q, x)) = Head(q)
<1>1. PICK S : q \in Seq(S)
  BY DEF IsList
<1>2. q \in Seq(S \cup {x}) /\ x \in S \cup {x}
  BY <1>1
<1>3. Append(q, x) \in Seq(S \cup {x})
  BY <1>2
<1>4. q # << >> => Append(q, x) # << >> /\ Head(Append(q, x)) = Head(q)
  <2> SUFFICES ASSUME q # << >> PROVE Append(q, x) # << >> /\ Head(Append(q, x)) = Head(q)
    OBVIOUS
  <2>1. Len(q) \in Nat \ {0}
    BY <1>2
  <2>2. Len(Append(q, x)) = Len(q) + 1 /\ Append(q, x)[1] = q[1]
    BY <1>2, <2>1
  <2> QED BY <1>2, <1>3, <2>1, <2>2
<1> QED BY <1>3, <1>4 DEF IsList

LEMMA ListTail == ASSUME NEW q, IsList(q), q # << >> PROVE IsList(Tail(q))
<1>1. PICK S : q \in Seq(S)
  BY DEF IsList
<1>2. Tail(q) \in Seq(S)
  BY <1>1
<1> QED BY <1>2 DEF IsList

LEMMA OnPipeIsList ==
    ASSUME NEW messages, IsFiniteSet(messages), NEW pipes, NEW p
    PROVE  IsList(OnPipe(pipes, messages, p))
<1> DEFINE mine == {m \in messages : PipeForItem(pipes, m.item) = p}
           at(k) == CHOOSE m \in mine : Cardinality({x \in mine : Precedes(x, m)}) = k - 1
           n == Cardinality(mine)
           S == {at(k) : k \in 1..n}
           q == [k \in 1..n |-> at(k)]
<1>1. n \in Nat
  <2>1. mine \in SUBSET messages
    OBVIOUS
  <2>2. IsFiniteSet(mine)
    BY <2>1, FS_Subset
  <2> QED BY <2>2, FS_CardinalityType
<1>2. OnPipe(pipes, messages, p) = q
  BY DEF OnPipe
<1> HIDE DEF at, n
<1>3. q \in [1..n -> S]
  OBVIOUS
<1>4. q \in Seq(S)
  BY <1>1, <1>3, SeqDef
<1> QED BY <1>2, <1>4 DEF IsList

(***************************************************************************)
(* The invariant.                                                           *)
(***************************************************************************)

SenderFields == {"phase", "pipes", "striping", "offset", "done", "ended"}
ReceiverFields ==
    {"phase", "pipes", "striping", "pendingDone", "opened", "ended", "coverage", "ranges",
     "mode", "overwrite", "slot", "declared", "open"}

SenderPhases == {"hello", "ack", "resume", "chunks", "complete", "success", "failed"}
ReceiverPhases ==
    {"hello", "manifest", "accept", "chunks", "finalize", "success", "failed", "error"}

Shape ==
    /\ DOMAIN s = SenderFields /\ s.phase \in SenderPhases
    /\ DOMAIN r = ReceiverFields /\ r.phase \in ReceiverPhases
    /\ r.slot \in [Files -> Slots]
    /\ DOMAIN final = Files /\ \A i \in Files : DOMAIN final[i] = Slots
    /\ DOMAIN source = Files /\ DOMAIN hashed = Files /\ DOMAIN sources = Files
    /\ DOMAIN wire = Pipes /\ IsList(wire[0]) /\ AtMostOne(back)

\* resume_accept carries the SHA-256 of every file that is to be received.
DeclaresHashes(m) ==
    \A i \in Files : m.entries[i].skip = FALSE => m.entries[i].sha256 = hashed[i]

\* The messages of the handshake follow each other: at most one is on its way,
\* and what the receiver finds on pipe 0 is what it waits for.
HandshakeInv ==
    /\ s.phase = "hello" => r.phase \in {"hello", "failed"} /\ wire[0] = << >> /\ back = << >>
    /\ s.phase = "ack" => r.phase \in {"hello", "manifest", "failed"}
    /\ s.phase = "resume" => r.phase \in {"manifest", "accept", "failed"}
    /\ s.phase \in {"chunks", "complete"} =>
           /\ r.phase \notin {"hello", "manifest"}
           /\ back # << >> => r.phase = "success"
    /\ s.phase = "success" => r.phase = "success"
    /\ r.phase = "hello" => back = << >> /\ AtMostOne(wire[0])
    /\ r.phase = "manifest" =>
           \/ wire[0] = << >> /\ s.phase \in {"ack", "failed"}
           \/ AtMostOne(wire[0]) /\ back = << >> /\ s.phase \in {"resume", "failed"}
    /\ r.phase = "accept" =>
           \/ wire[0] = << >> /\ s.phase \in {"resume", "failed"}
           \/ /\ wire[0] # << >> /\ DeclaresHashes(Head(wire[0]))
              /\ back = << >> /\ s.phase \in {"chunks", "complete", "failed"}
    /\ r.phase \in {"chunks", "finalize"} => back = << >>

\* What the sender has hashed is a version of its source.
HashInv ==
    \A i \in Files : source[i] \in sources[i] /\ hashed[i] \in sources[i] \cup {Absent}

Receiving == {i \in Files : r.mode[i] = "receive"}

\* The open files are those still to be moved in place; a file that was moved
\* is the one the sender has hashed, the others are as the store found them.
StoreInv ==
    /\ r.phase \in {"accept", "chunks"} => r.open = Receiving
    /\ r.phase = "finalize" => r.open \subseteq Receiving
    /\ r.phase = "success" => r.open = {}
    /\ r.phase \in {"chunks", "finalize", "success"} =>
           \A i \in Receiving : r.declared[i] = hashed[i]
    /\ r.phase \in {"finalize", "success"} =>
           \A i \in Receiving \ r.open : final[i][r.slot[i]] = hashed[i]
    /\ r.phase \in {"accept", "chunks", "finalize", "success"} =>
           \A i \in Files :
               /\ r.mode[i] \in {"receive", "complete", "skipped"}
               /\ r.mode[i] = "complete" => Sample(final[i][0]) = Sample(Original(i))
               /\ r.mode[i] = "skipped" => conflict = "skip"

IInv == Shape /\ HandshakeInv /\ HashInv /\ StoreInv /\ FinalIsWhole

LEMMA Basics == 0 \in Pipes /\ 0 \in Slots /\ Slots \subseteq Int /\ Files \subseteq Items /\ IsFiniteSet(Items)
BY TransferConstants DEF Pipes, Slots, Files

LEMMA Initial == Init => IInv
<1> SUFFICES ASSUME Init PROVE IInv
  OBVIOUS
<1> USE Basics DEF Init
<1>1. Shape
  <2>1. wire[0] = << >> /\ back = << >> /\ AtMostOne(<< >>)
    BY DEF Quiet, AtMostOne
  <2>2. IsList(wire[0]) /\ AtMostOne(back)
    BY <2>1, OneIsList
  <2>3. r.slot \in [Files -> Slots] /\ DOMAIN r = ReceiverFields /\ r.phase = "hello"
    BY DEF NewReceiver, ReceiverFields
  <2>4. DOMAIN s = SenderFields /\ s.phase = "hello"
    BY DEF NewSender, SenderFields
  <2>5. \A i \in Files : DOMAIN final[i] = Slots
    OBVIOUS
  <2> QED BY <2>2, <2>3, <2>4, <2>5 DEF Shape, Quiet, SenderPhases, ReceiverPhases
<1>2. HandshakeInv
  BY DEF HandshakeInv, NewSender, NewReceiver, Quiet, AtMostOne
<1>3. HashInv
  BY DEF HashInv
<1>4. StoreInv
  BY DEF StoreInv, NewReceiver
<1>5. FinalIsWhole
  BY DEF FinalIsWhole
<1> QED BY <1>1, <1>2, <1>3, <1>4, <1>5 DEF IInv

\* The store's part of the invariant when its files are left alone.
LEMMA StoreFrame ==
    ASSUME IInv, UNCHANGED <<source, hashed, sources, final, before, conflict>>,
           r'.phase = r.phase, r'.open = r.open,
           r'.slot = r.slot, r'.mode = r.mode, r'.declared = r.declared
    PROVE  HashInv' /\ StoreInv' /\ FinalIsWhole'
<1>1. HashInv' /\ FinalIsWhole'
  BY DEF IInv, HashInv, FinalIsWhole
<1>2. StoreInv'
  BY DEF IInv, StoreInv, Receiving, Sample
<1> QED BY <1>1, <1>2

\* A receiver that is gone.
LEMMA GoneFrame ==
    ASSUME IInv, UNCHANGED <<source, hashed, sources, final, before, conflict>>,
           r'.phase \in {"failed", "error"}
    PROVE  HashInv' /\ StoreInv' /\ FinalIsWhole'
<1>1. HashInv' /\ FinalIsWhole'
  BY DEF IInv, HashInv, FinalIsWhole
<1>2. StoreInv'
  BY DEF StoreInv
<1> QED BY <1>1, <1>2

LEMMA HelloSent == ASSUME IInv, SendHello PROVE IInv'
<1> USE Basics DEF SendHello, sourceVars, fsVars, faultVars, fixedVars
<1>0. Shape /\ HandshakeInv
  BY DEF IInv
<1>1. wire[0] = << >> /\ back = << >> /\ r.phase \in {"hello", "failed"}
  BY <1>0 DEF HandshakeInv
<1>2. wire'[0] = <<Message("hello")>> /\ DOMAIN wire' = Pipes
  BY <1>0, <1>1, OneFacts DEF Shape
<1>3. AtMostOne(wire'[0]) /\ IsList(wire'[0])
  BY <1>2, OneIsList DEF AtMostOne
<1>4. s'.phase = "ack" /\ DOMAIN s' = SenderFields
  BY <1>0 DEF Shape, SenderFields
<1>5. Shape'
  BY <1>0, <1>2, <1>3, <1>4 DEF Shape, SenderPhases
<1>6. HandshakeInv'
  BY <1>0, <1>1, <1>3, <1>4 DEF HandshakeInv
<1> QED BY <1>5, <1>6, StoreFrame DEF IInv

LEMMA HelloReceived == ASSUME IInv, RecvHello PROVE IInv'
<1> USE Basics DEF RecvHello, sourceVars, fsVars, faultVars, fixedVars
<1>0. Shape /\ HandshakeInv
  BY DEF IInv
<1>1. back = << >> /\ AtMostOne(wire[0]) /\ wire[0] # << >> /\ s.phase \in {"ack", "failed"}
  BY <1>0 DEF HandshakeInv, Shape, SenderPhases
<1>2. wire'[0] = << >> /\ DOMAIN wire' = Pipes
  BY <1>0, <1>1, OneFacts DEF Shape, AtMostOne
<1>3. \E m : back' = <<m>>
  BY <1>1, OneFacts
<1>4. AtMostOne(wire'[0]) /\ IsList(wire'[0]) /\ AtMostOne(back')
  BY <1>2, <1>3, OneIsList DEF AtMostOne
<1>5. /\ r'.phase = "manifest" /\ DOMAIN r' = ReceiverFields /\ r'.slot = r.slot
  BY <1>0 DEF Shape, ReceiverFields
<1>6. Shape'
  BY <1>0, <1>2, <1>4, <1>5 DEF Shape, ReceiverPhases
<1>7. HandshakeInv'
  BY <1>1, <1>2, <1>5 DEF HandshakeInv
<1>8. HashInv' /\ FinalIsWhole'
  BY DEF IInv, HashInv, FinalIsWhole
<1>9. StoreInv'
  BY <1>5 DEF StoreInv
<1> QED BY <1>6, <1>7, <1>8, <1>9 DEF IInv

LEMMA ManifestSent == ASSUME IInv, SendManifest PROVE IInv'
<1> USE Basics DEF SendManifest, sourceVars, fsVars, faultVars, fixedVars
<1>0. Shape /\ HandshakeInv
  BY DEF IInv
<1>1. r.phase \in {"manifest", "failed"} /\ AtMostOne(back) /\ back # << >>
      /\ (r.phase = "manifest" => wire[0] = << >>)
  BY <1>0 DEF HandshakeInv, Shape
<1>2. back' = << >> /\ DOMAIN wire' = Pipes /\ wire'[0] = Append(wire[0], Message("manifest"))
  BY <1>0, <1>1, OneFacts DEF Shape, AtMostOne
<1>3. IsList(wire'[0]) /\ AtMostOne(back')
  BY <1>0, <1>2, ListAppend DEF Shape, AtMostOne
<1>4. r.phase = "manifest" => AtMostOne(wire'[0])
  BY <1>1, <1>2, OneFacts DEF AtMostOne
<1>5. s'.phase = "resume" /\ DOMAIN s' = SenderFields
  BY <1>0 DEF Shape, SenderFields
<1>6. Shape'
  BY <1>0, <1>2, <1>3, <1>5 DEF Shape, SenderPhases
<1>7. HandshakeInv'
  BY <1>1, <1>2, <1>4, <1>5 DEF HandshakeInv
<1> QED BY <1>6, <1>7, StoreFrame DEF IInv

\* The store opens: what it finds decides the modes.
LEMMA ManifestReceived == ASSUME IInv, RecvManifest PROVE IInv'
<1> USE Basics DEF sourceVars, fsVars, faultVars, fixedVars
<1>0. Shape /\ HandshakeInv
  BY DEF IInv
<1>1. AtMostOne(wire[0]) /\ wire[0] # << >> /\ back = << >> /\ s.phase \in {"resume", "failed"}
  BY <1>0 DEF HandshakeInv, RecvManifest
<1>2. wire'[0] = << >> /\ DOMAIN wire' = Pipes
  BY <1>0, <1>1, OneFacts DEF Shape, AtMostOne, RecvManifest
<1> DEFINE receive == {i \in Files : Mode(i) = "receive"}
           offset(slot) == [i \in Files |-> IF Mode(i) = "receive"
                                            THEN Least(Len(part[i][slot[i]]), Size[i])
                                            ELSE Size[i]]
           answer(slot) == [type |-> "resume",
                entries |-> [i \in Files |->
                    [offset |-> offset(slot)[i], skip |-> i \notin receive,
                     prefix |-> part'[i][slot[i]]]]]
<1>3. PICK slot \in [Files -> Slots] :
         /\ r' = [r EXCEPT !.phase = "accept", !.slot = slot, !.open = receive,
                           !.mode = [i \in Files |-> Mode(i)],
                           !.overwrite = {i \in receive : Exists(i) /\ conflict = "overwrite"},
                           !.ranges = [i \in Files |-> 0..(offset(slot)[i] - 1)]]
         /\ back' = Append(back, answer(slot))
  BY DEF RecvManifest
<1> HIDE DEF offset, answer
<1>4. AtMostOne(back') /\ IsList(wire'[0])
  BY <1>1, <1>2, <1>3, OneFacts, OneIsList DEF AtMostOne
<1>5. /\ r'.phase = "accept" /\ DOMAIN r' = ReceiverFields /\ r'.slot = slot
      /\ r'.open = {i \in Files : Mode(i) = "receive"} /\ r'.mode = [i \in Files |-> Mode(i)]
  BY <1>0, <1>3 DEF Shape, ReceiverFields
<1>6. Shape'
  BY <1>0, <1>2, <1>4, <1>5 DEF Shape, ReceiverPhases, RecvManifest
<1>7. HandshakeInv'
  BY <1>1, <1>2, <1>5 DEF HandshakeInv, RecvManifest
<1>8. HashInv' /\ FinalIsWhole'
  BY DEF IInv, HashInv, FinalIsWhole, RecvManifest
<1>9. StoreInv'
  <2>1. \A i \in Files :
            /\ Mode(i) \in {"receive", "complete", "skipped"}
            /\ Mode(i) = "complete" => Sample(final[i][0]) = Sample(Original(i))
            /\ Mode(i) = "skipped" => conflict = "skip"
    BY DEF Mode, Matches
  <2>2. final' = final /\ conflict' = conflict
    BY DEF RecvManifest
  <2>3. r'.open = Receiving'
    BY <1>5 DEF Receiving
  <2> QED BY <1>5, <2>1, <2>2, <2>3 DEF StoreInv, Sample
<1> QED BY <1>6, <1>7, <1>8, <1>9 DEF IInv

\* The stream_open and stream_end messages of items are finitely many.
LEMMA LifecyclesFinite ==
    ASSUME NEW type, NEW S \in SUBSET Items
    PROVE  IsFiniteSet({Lifecycle(type, i) : i \in S})
<1>1. IsFiniteSet(S)
  BY Basics, FS_Subset
<1> DEFINE T == {Lifecycle(type, i) : i \in S}
           f == [i \in S |-> Lifecycle(type, i)]
<1>2. f \in Surjection(S, T)
  BY DEF Surjection
<1> QED BY <1>1, <1>2, FS_Surjection

\* The sender declares what it hashes.
LEMMA AcceptSent == ASSUME IInv, SendAccept PROVE IInv'
<1> USE Basics DEF sourceVars, fsVars, faultVars, fixedVars
<1>0. Shape /\ HandshakeInv /\ HashInv /\ StoreInv
  BY DEF IInv
<1> DEFINE entries == Head(back).entries
           offset == [i \in Files |-> AcceptOffset(i, entries[i])]
           done == {i \in Files : offset[i] >= Size[i]}
           ended == done \cup (Items \ Files)
           accept == [type |-> "resume_accept",
                      entries |-> [i \in Files |->
                          [offset |-> offset[i], skip |-> entries[i].skip,
                           sha256 |-> IF entries[i].skip THEN Absent ELSE Hashed(i)]]]
           opens == {Lifecycle("stream_open", i) : i \in Items}
                        \cup {Lifecycle("stream_end", i) : i \in ended}
           sent == OnPipe(s.pipes, opens, 0)
<1>1. /\ s.phase = "resume" /\ back # << >>
      /\ hashed' = [i \in Files |-> IF entries[i].skip THEN hashed[i] ELSE Hashed(i)]
      /\ s' = [s EXCEPT !.phase = "chunks", !.offset = offset, !.done = done, !.ended = ended]
      /\ wire' = [p \in Pipes |-> wire[p] \o (IF p = 0 THEN <<accept>> ELSE << >>)
                                          \o OnPipe(s.pipes, opens, p)]
      /\ back' = Tail(back)
      /\ UNCHANGED <<source, edits, sources, fsVars, r, deferred, faultVars, attempt, fixedVars>>
  BY DEF SendAccept
<1>2. wire'[0] = wire[0] \o <<accept>> \o sent
  BY <1>1
<1>3. IsList(sent)
  <2>1. IsFiniteSet({Lifecycle("stream_open", i) : i \in Items})
    BY LifecyclesFinite
  <2>2. ended \in SUBSET Items
    OBVIOUS
  <2>3. IsFiniteSet({Lifecycle("stream_end", i) : i \in ended})
    BY <2>2, LifecyclesFinite
  <2>4. IsFiniteSet(opens)
    BY <2>1, <2>3, FS_Union
  <2> QED BY <2>4, OnPipeIsList
<1>4. \A i \in Files : accept.entries[i].skip = FALSE => accept.entries[i].sha256 = hashed'[i]
  <2> SUFFICES ASSUME NEW i \in Files, accept.entries[i].skip = FALSE
               PROVE  accept.entries[i].sha256 = hashed'[i]
    OBVIOUS
  <2>1. entries[i].skip = FALSE
    OBVIOUS
  <2>2. accept.entries[i].sha256 = Hashed(i) /\ hashed'[i] = Hashed(i)
    BY <2>1, <1>1
  <2> QED BY <2>2
<1>5. back' = << >> /\ r.phase \in {"accept", "failed"} /\ (r.phase = "accept" => wire[0] = << >>)
  BY <1>0, <1>1, OneFacts DEF HandshakeInv, Shape, AtMostOne
<1>6. s'.phase = "chunks" /\ DOMAIN s' = SenderFields
  BY <1>0, <1>1 DEF Shape, SenderFields
<1>7. IsList(<<accept>>) /\ <<accept>> # << >> /\ Head(<<accept>>) = accept
  BY OneIsList, OneFacts DEF AtMostOne
<1>8. IsList(wire'[0]) /\ (wire[0] = << >> => wire'[0] # << >> /\ Head(wire'[0]) = accept)
  <2>1. IsList(wire[0])
    BY <1>0 DEF Shape
  <2> HIDE DEF accept, sent
  <2>2. IsList(wire[0] \o <<accept>>) /\ (wire[0] = << >> => wire[0] \o <<accept>> = <<accept>>)
    BY <2>1, <1>7, ListConcat
  <2>3. IsList(wire'[0])
    BY <2>2, <1>2, <1>3, ListConcat
  <2>4. wire[0] = << >> => wire'[0] # << >> /\ Head(wire'[0]) = accept
    <3>1. SUFFICES ASSUME wire[0] = << >> PROVE wire'[0] # << >> /\ Head(wire'[0]) = accept
      OBVIOUS
    <3>2. wire'[0] = <<accept>> \o sent
      BY <3>1, <2>2, <1>2
    <3> QED BY <3>2, <1>3, <1>7, ListConcat
  <2> QED BY <2>3, <2>4
<1>9. Shape'
  <2>1. DOMAIN wire' = Pipes /\ DOMAIN hashed' = Files
    BY <1>1
  <2>2. AtMostOne(back')
    BY <1>5 DEF AtMostOne
  <2> QED BY <1>0, <1>1, <1>6, <1>8, <2>1, <2>2 DEF Shape, SenderPhases
<1>10. HandshakeInv'
  <2> HIDE DEF accept
  <2>1. r.phase = "accept" => wire'[0] # << >> /\ Head(wire'[0]) = accept
    BY <1>5, <1>8
  <2>2. r.phase = "accept" => wire'[0] # << >> /\ DeclaresHashes(Head(wire[0]))'
    BY <2>1, <1>4 DEF DeclaresHashes
  <2> QED BY <1>1, <1>5, <1>6, <2>2 DEF HandshakeInv
<1>11. HashInv'
  <2> SUFFICES ASSUME NEW i \in Files PROVE source'[i] \in sources'[i] /\ hashed'[i] \in sources'[i] \cup {Absent}
    BY DEF HashInv
  <2>1. hashed'[i] \in {hashed[i], source[i]}
    BY <1>1 DEF Hashed
  <2> QED BY <1>0, <1>1, <2>1 DEF HashInv
<1>12. StoreInv'
  <2>1. \A i \in Files : Sample(final[i][0])' = Sample(final[i][0]) /\ Original(i)' = Original(i)
    BY <1>1 DEF Sample, Original
  <2> QED BY <1>0, <1>1, <1>5, <2>1 DEF StoreInv, Receiving
<1>13. FinalIsWhole'
  BY <1>1 DEF IInv, FinalIsWhole
<1> QED BY <1>9, <1>10, <1>11, <1>12, <1>13 DEF IInv

LEMMA ChunkSent == ASSUME IInv, NEW i \in Files, SendChunk(i) PROVE IInv'
<1> USE Basics DEF sourceVars, fsVars, faultVars, fixedVars
<1>0. Shape /\ HandshakeInv
  BY DEF IInv
<1>1. /\ s.phase = "chunks" /\ s'.phase = "chunks" /\ DOMAIN s' = SenderFields
      /\ UNCHANGED <<sourceVars, fsVars, r, back, fixedVars>>
  BY <1>0 DEF SendChunk, Shape, SenderFields
<1>2. wire' = wire \/ \E p, m : wire' = [wire EXCEPT ![p] = Append(@, m)]
  BY DEF SendChunk
<1>3. /\ DOMAIN wire' = Pipes /\ IsList(wire'[0])
      /\ wire[0] # << >> => wire'[0] # << >> /\ Head(wire'[0]) = Head(wire[0])
  <2>1. CASE wire' = wire
    BY <2>1, <1>0 DEF Shape
  <2>2. ASSUME NEW p, NEW m, wire' = [wire EXCEPT ![p] = Append(@, m)]
        PROVE  /\ DOMAIN wire' = Pipes /\ IsList(wire'[0])
               /\ wire[0] # << >> => wire'[0] # << >> /\ Head(wire'[0]) = Head(wire[0])
    <3>1. CASE p = 0
      <4>1. wire'[0] = Append(wire[0], m) /\ DOMAIN wire' = Pipes /\ IsList(wire[0])
        BY <1>0, <2>2, <3>1 DEF Shape
      <4> QED BY <4>1, ListAppend
    <3>2. CASE p # 0
      BY <1>0, <2>2, <3>2 DEF Shape
    <3> QED BY <3>1, <3>2
  <2> QED BY <1>2, <2>1, <2>2
<1>4. Shape'
  BY <1>0, <1>1, <1>3 DEF Shape
<1>5. HandshakeInv'
  BY <1>0, <1>1, <1>3 DEF HandshakeInv, DeclaresHashes
<1> QED BY <1>1, <1>4, <1>5, StoreFrame DEF IInv

LEMMA DoneSent == ASSUME IInv, SendDone PROVE IInv'
<1> USE Basics DEF sourceVars, fsVars, faultVars, fixedVars
<1>0. Shape /\ HandshakeInv
  BY DEF IInv
<1> DEFINE ends == {Lifecycle("stream_end", i) : i \in Items \ s.ended}
           sent == OnPipe(s.pipes, ends, 0)
           last == <<Message("done")>>
<1>1. /\ s.phase = "chunks" /\ s'.phase = "complete" /\ DOMAIN s' = SenderFields
      /\ UNCHANGED <<sourceVars, fsVars, r, back, fixedVars>>
  BY <1>0 DEF SendDone, Shape, SenderFields
<1>2. DOMAIN wire' = Pipes /\ wire'[0] = wire[0] \o sent \o last
  BY DEF SendDone
<1>3. IsList(sent) /\ IsList(last) /\ IsList(wire[0])
  <2>1. IsFiniteSet(ends)
    BY LifecyclesFinite
  <2> QED BY <2>1, <1>0, OnPipeIsList, OneIsList DEF AtMostOne, Shape
<1> HIDE DEF sent, last
<1>4. /\ IsList(wire'[0])
      /\ wire[0] # << >> => wire'[0] # << >> /\ Head(wire'[0]) = Head(wire[0])
  <2>1. /\ IsList(wire[0] \o sent)
        /\ wire[0] # << >> => wire[0] \o sent # << >> /\ Head(wire[0] \o sent) = Head(wire[0])
    BY <1>3, ListConcat
  <2>2. /\ IsList(wire[0] \o sent \o last)
        /\ wire[0] \o sent # << >> => /\ wire[0] \o sent \o last # << >>
                                      /\ Head(wire[0] \o sent \o last) = Head(wire[0] \o sent)
    BY <1>3, <2>1, ListConcat
  <2> QED BY <1>2, <2>1, <2>2
<1>5. Shape'
  BY <1>0, <1>1, <1>2, <1>4 DEF Shape, SenderPhases
<1>6. HandshakeInv'
  BY <1>0, <1>1, <1>4 DEF HandshakeInv, DeclaresHashes
<1> QED BY <1>1, <1>5, <1>6, StoreFrame DEF IInv

LEMMA CompleteReceived == ASSUME IInv, WaitComplete PROVE IInv'
<1> USE DEF WaitComplete, sourceVars, fsVars, faultVars, fixedVars
<1>0. Shape /\ HandshakeInv
  BY DEF IInv
<1>1. s'.phase = "success" /\ DOMAIN s' = SenderFields /\ r.phase = "success"
  BY <1>0 DEF Shape, SenderFields, HandshakeInv
<1>2. AtMostOne(back')
  BY <1>0, OneFacts DEF Shape, AtMostOne
<1>3. Shape'
  BY <1>0, <1>1, <1>2 DEF Shape, SenderPhases
<1>4. HandshakeInv'
  BY <1>1 DEF HandshakeInv
<1> QED BY <1>3, <1>4, StoreFrame DEF IInv

\* A receiver past the handshake that goes on or is refused: the sender's phase
\* and the files are left alone, pipe 0 loses at most its head.
LEMMA ReceiverFrame ==
    ASSUME IInv, UNCHANGED <<source, hashed, sources, s, back, conflict>>,
           r.phase \in {"chunks", "finalize"} \/ (r.phase = "accept" /\ wire[0] # << >>),
           DOMAIN r' = ReceiverFields, r'.phase \in {"chunks", "finalize", "error"}, r'.slot = r.slot,
           DOMAIN final' = Files, \A i \in Files : DOMAIN final'[i] = Slots,
           DOMAIN wire' = Pipes, wire'[0] = wire[0] \/ (wire[0] # << >> /\ wire'[0] = Tail(wire[0]))
    PROVE  Shape' /\ HandshakeInv' /\ HashInv'
<1>0. Shape /\ HandshakeInv /\ HashInv
  BY DEF IInv
<1>1. IsList(wire'[0])
  BY <1>0, ListTail DEF Shape
<1>2. Shape'
  BY <1>0, <1>1 DEF Shape, ReceiverPhases
<1>3. back = << >> /\ s.phase \in {"chunks", "complete", "failed"}
  BY <1>0 DEF HandshakeInv, Shape, SenderPhases
<1>4. HandshakeInv'
  BY <1>3 DEF HandshakeInv
<1>5. HashInv'
  BY <1>0 DEF HashInv
<1> QED BY <1>2, <1>4, <1>5

LEMMA Deferring == ASSUME IInv, NEW p \in Pipes, Defer(p) PROVE IInv'
<1> USE Basics DEF Defer, sourceVars, fsVars, faultVars, fixedVars
<1>0. Shape /\ HandshakeInv
  BY DEF IInv
<1>1. wire'[0] = wire[0] /\ DOMAIN wire' = Pipes
  BY <1>0 DEF Shape
<1>2. Shape'
  BY <1>0, <1>1 DEF Shape
<1>3. HandshakeInv'
  BY <1>0, <1>1 DEF HandshakeInv, DeclaresHashes
<1> QED BY <1>2, <1>3, StoreFrame DEF IInv

\* The store takes the hashes the sender declared.
LEMMA AcceptReceived == ASSUME IInv, RecvAccept PROVE IInv'
<1> USE Basics DEF sourceVars, fsVars, faultVars, fixedVars
<1>0. Shape /\ HandshakeInv /\ StoreInv
  BY DEF IInv
<1> DEFINE entries == Head(wire[0]).entries
<1>1. /\ r.phase = "accept" /\ wire[0] # << >>
      /\ UNCHANGED <<source, hashed, sources, final, s, back, before, conflict>>
      /\ wire' = [wire EXCEPT ![0] = Tail(@)]
  BY DEF RecvAccept
<1>2. DOMAIN wire' = Pipes /\ wire'[0] = Tail(wire[0])
  BY <1>0, <1>1 DEF Shape
<1>3. FinalIsWhole'
  BY <1>1 DEF IInv, FinalIsWhole
<1>4. CASE AcceptValid(entries)
  <2>1. /\ r'.phase = "chunks" /\ DOMAIN r' = ReceiverFields
        /\ r'.slot = r.slot /\ r'.mode = r.mode /\ r'.open = r.open
        /\ r'.declared = [i \in Files |-> entries[i].sha256]
    BY <1>0, <1>4 DEF RecvAccept, Shape, ReceiverFields
  <2>2. Shape' /\ HandshakeInv' /\ HashInv'
    BY <1>0, <1>1, <1>2, <2>1, ReceiverFrame DEF Shape
  <2>3. \A i \in Receiving : entries[i].sha256 = hashed[i]
    <3> SUFFICES ASSUME NEW i \in Files, r.mode[i] = "receive" PROVE entries[i].sha256 = hashed[i]
      BY DEF Receiving
    <3>1. entries[i].skip = (r.mode[i] # "receive")
      BY <1>4 DEF AcceptValid
    <3>2. entries[i].skip = FALSE
      BY <3>1
    <3>3. DeclaresHashes(Head(wire[0]))
      BY <1>0, <1>1 DEF HandshakeInv
    <3> QED BY <3>2, <3>3 DEF DeclaresHashes
  <2>4. StoreInv'
    <3>1. Receiving' = Receiving
      BY <2>1 DEF Receiving
    <3>2. \A i \in Receiving : r'.declared[i] = hashed'[i]
      BY <1>1, <2>1, <2>3 DEF Receiving
    <3> QED BY <1>0, <1>1, <2>1, <3>1, <3>2 DEF StoreInv, Sample
  <2> QED BY <1>3, <2>2, <2>4 DEF IInv
<1>5. CASE ~AcceptValid(entries)
  <2>1. r'.phase = "error" /\ DOMAIN r' = ReceiverFields /\ r'.slot = r.slot
    BY <1>0, <1>5 DEF RecvAccept, Refuse, Shape, ReceiverFields
  <2>2. Shape' /\ HandshakeInv' /\ HashInv'
    BY <1>0, <1>1, <1>2, <2>1, ReceiverFrame DEF Shape
  <2>3. StoreInv'
    BY <2>1 DEF StoreInv
  <2> QED BY <1>3, <2>2, <2>3 DEF IInv
<1> QED BY <1>4, <1>5

LEMMA ArrivalFacts ==
    ASSUME IInv, NEW p \in Pipes, NEW m, Arrives(p, m)
    PROVE  /\ r.phase = "chunks" /\ DOMAIN wire' = Pipes
           /\ wire'[0] = wire[0] \/ (wire[0] # << >> /\ wire'[0] = Tail(wire[0]))
BY Basics DEF IInv, Shape, Arrives

\* What comes over the pipes cannot change what the store has decided.
LEMMA Arriving ==
    ASSUME IInv, NEW p \in Pipes, NEW m, RecvChunk(p, m) \/ RecvLifecycle(p, m)
    PROVE  IInv'
<1> USE DEF sourceVars, fsVars, faultVars, fixedVars
<1>0. Shape
  BY DEF IInv
<1>1. Arrives(p, m) /\ UNCHANGED <<source, hashed, sources, final, s, back, before, conflict>>
  BY DEF RecvChunk, RecvLifecycle
<1>2. /\ r.phase = "chunks" /\ DOMAIN wire' = Pipes
      /\ wire'[0] = wire[0] \/ (wire[0] # << >> /\ wire'[0] = Tail(wire[0]))
  BY <1>1, ArrivalFacts
<1>3. /\ DOMAIN r' = ReceiverFields /\ r'.slot = r.slot
      /\ \/ r'.phase = "error"
         \/ /\ r'.phase = r.phase /\ r'.open = r.open
            /\ r'.mode = r.mode /\ r'.declared = r.declared
  <2>1. CASE RecvChunk(p, m)
    <3>1. CASE ChunkValid(p, m)
      BY <1>0, <2>1, <3>1 DEF RecvChunk, Shape, ReceiverFields
    <3>2. CASE ~ChunkValid(p, m)
      BY <1>0, <2>1, <3>2 DEF RecvChunk, Refuse, Shape, ReceiverFields
    <3> QED BY <3>1, <3>2
  <2>2. CASE RecvLifecycle(p, m)
    <3>1. CASE LifecycleValid(p, m)
      BY <1>0, <2>2, <3>1 DEF RecvLifecycle, Shape, ReceiverFields
    <3>2. CASE ~LifecycleValid(p, m)
      BY <1>0, <2>2, <3>2 DEF RecvLifecycle, Refuse, Shape, ReceiverFields
    <3> QED BY <3>1, <3>2
  <2> QED BY <2>1, <2>2
<1>4. Shape' /\ HandshakeInv' /\ HashInv'
  BY <1>0, <1>1, <1>2, <1>3, ReceiverFrame DEF Shape
<1>5. StoreInv' /\ FinalIsWhole'
  BY <1>1, <1>3, StoreFrame, GoneFrame
<1> QED BY <1>4, <1>5 DEF IInv

\* From here on every file that is to be received is still open.
LEMMA Finishing ==
    ASSUME IInv, UNCHANGED <<source, hashed, sources, final, s, back, before, conflict>>,
           r.phase = "chunks", r'.phase = "finalize", DOMAIN r' = ReceiverFields,
           r'.open = r.open, r'.slot = r.slot, r'.mode = r.mode, r'.declared = r.declared,
           DOMAIN wire' = Pipes, wire'[0] = wire[0] \/ (wire[0] # << >> /\ wire'[0] = Tail(wire[0]))
    PROVE  IInv'
<1>0. Shape /\ StoreInv
  BY DEF IInv
<1>1. Shape' /\ HandshakeInv' /\ HashInv'
  BY <1>0, ReceiverFrame DEF Shape
<1>2. FinalIsWhole'
  BY DEF IInv, FinalIsWhole
<1>3. StoreInv'
  <2>1. Receiving' = Receiving
    BY DEF Receiving
  <2> QED BY <1>0, <2>1 DEF StoreInv, Sample
<1> QED BY <1>1, <1>2, <1>3 DEF IInv

LEMMA DoneReceived ==
    ASSUME IInv, NEW p \in Pipes, NEW m, RecvDone(p, m)
    PROVE  IInv'
<1> USE DEF sourceVars, fsVars, faultVars, fixedVars
<1>0. Shape
  BY DEF IInv
<1>1. Arrives(p, m) /\ UNCHANGED <<source, hashed, sources, final, s, back, before, conflict>>
  BY DEF RecvDone
<1>2. /\ r.phase = "chunks" /\ DOMAIN wire' = Pipes
      /\ wire'[0] = wire[0] \/ (wire[0] # << >> /\ wire'[0] = Tail(wire[0]))
  BY <1>1, ArrivalFacts
<1>3. /\ DOMAIN r' = ReceiverFields /\ r'.slot = r.slot
      /\ r'.open = r.open /\ r'.mode = r.mode /\ r'.declared = r.declared
      /\ r'.phase \in {"chunks", "finalize"}
  BY <1>0, <1>2 DEF RecvDone, Shape, ReceiverFields
<1>4. CASE r'.phase = "finalize"
  BY <1>1, <1>2, <1>3, <1>4, Finishing
<1>5. CASE r'.phase = "chunks"
  <2>1. Shape' /\ HandshakeInv' /\ HashInv'
    BY <1>0, <1>1, <1>2, <1>3, <1>5, ReceiverFrame DEF Shape
  <2>2. StoreInv' /\ FinalIsWhole'
    BY <1>1, <1>2, <1>3, <1>5, StoreFrame
  <2> QED BY <2>1, <2>2 DEF IInv
<1> QED BY <1>3, <1>4, <1>5

LEMMA PendingDone == ASSUME IInv, RecvPendingDone PROVE IInv'
<1>1. Shape
  BY DEF IInv
<1> QED BY <1>1, Finishing DEF RecvPendingDone, sourceVars, fsVars, fixedVars, Shape, ReceiverFields

\* A part file that is moved in place is the version the sender hashed.
LEMMA Finalizing == ASSUME IInv, NEW i \in Files, FinalizeFile(i) PROVE IInv'
<1> USE DEF sourceVars, fsVars, faultVars, fixedVars
<1>0. Shape /\ HashInv /\ StoreInv /\ FinalIsWhole
  BY DEF IInv
<1> DEFINE n == r.slot[i]
           good == Complete(r.ranges[i], Size[i]) /\ Verified(i) /\ Placeable(i)
<1>1. /\ r.phase = "finalize" /\ i \in r.open
      /\ UNCHANGED <<source, hashed, sources, s, wire, back, before, conflict>>
  BY DEF FinalizeFile
<1>2. n \in Slots /\ i \in Receiving
  BY <1>0, <1>1 DEF Shape, StoreInv
<1>3. CASE good
  <2>1. /\ final' = [final EXCEPT ![i][n] = part[i][n]]
        /\ r' = [r EXCEPT !.open = @ \ {i}]
    BY <1>3 DEF FinalizeFile
  <2>2. /\ DOMAIN r' = ReceiverFields /\ r'.phase = "finalize" /\ r'.slot = r.slot
        /\ r'.open = r.open \ {i} /\ r'.mode = r.mode /\ r'.declared = r.declared
    BY <1>0, <1>1, <2>1 DEF Shape, ReceiverFields
  <2>3. part[i][n] = hashed[i]
    BY <1>0, <1>1, <1>2, <1>3 DEF StoreInv, Verified
  <2>4. hashed[i] \in sources[i]
    <3>1. Len(part[i][n]) = Size[i] /\ Size[i] > 0
      BY <1>3 DEF Verified, Files
    <3>2. part[i][n] # Absent
      BY <3>1 DEF Absent
    <3> QED BY <3>2, <2>3, <1>0 DEF HashInv
  <2>5. /\ DOMAIN final' = Files
        /\ \A j \in Files : DOMAIN final'[j] = Slots
        /\ final'[i][n] = hashed[i]
        /\ \A j \in Files : j # i => final'[j] = final[j]
        /\ \A m \in Slots : m # n => final'[i][m] = final[i][m]
    BY <1>0, <1>2, <2>1, <2>3 DEF Shape
  <2>6. Shape' /\ HandshakeInv' /\ HashInv'
    BY <1>0, <1>1, <2>2, <2>5, ReceiverFrame DEF Shape
  <2>7. StoreInv'
    <3>1. Receiving' = Receiving
      BY <2>2 DEF Receiving
    <3>2. \A j \in Receiving \ (r.open \ {i}) : final'[j][r.slot[j]] = hashed[j]
      BY <1>0, <1>1, <2>5 DEF StoreInv, Receiving
    <3>3. \A j \in Files : r.mode[j] = "complete" => final'[j] = final[j]
      BY <1>2, <2>5 DEF Receiving
    <3>4. \A j \in Files : r.mode[j] = "complete" => Sample(final'[j][0]) = Sample(Original(j))
      BY <3>3, <1>0, <1>1 DEF StoreInv
    <3>5. /\ \A j \in Receiving : r.declared[j] = hashed[j]
          /\ r.open \subseteq Receiving
          /\ \A j \in Files : /\ r.mode[j] \in {"receive", "complete", "skipped"}
                              /\ r.mode[j] = "skipped" => conflict = "skip"
      BY <1>0, <1>1 DEF StoreInv
    <3> QED BY <1>1, <2>2, <3>1, <3>2, <3>4, <3>5 DEF StoreInv
  <2>8. FinalIsWhole'
    <3> SUFFICES ASSUME NEW j \in Files, NEW m \in Slots, final'[j][m] # before[j][m]
                 PROVE  final'[j][m] \in sources[j]
      BY <1>1 DEF FinalIsWhole
    <3>1. CASE j = i /\ m = n
      BY <3>1, <2>4, <2>5
    <3>2. CASE ~(j = i /\ m = n)
      BY <3>2, <2>5, <1>0 DEF FinalIsWhole
    <3> QED BY <3>1, <3>2
  <2> QED BY <2>6, <2>7, <2>8 DEF IInv
<1>4. CASE ~good
  <2>1. final' = final /\ r' = [r EXCEPT !.phase = "error", !.open = {}]
    BY <1>4 DEF FinalizeFile
  <2>2. r'.phase = "error" /\ DOMAIN r' = ReceiverFields /\ r'.slot = r.slot
    BY <1>0, <2>1 DEF Shape, ReceiverFields
  <2>3. Shape' /\ HandshakeInv' /\ HashInv'
    BY <1>0, <1>1, <2>1, <2>2, ReceiverFrame DEF Shape
  <2> QED BY <1>1, <2>1, <2>2, <2>3, GoneFrame DEF IInv
<1> QED BY <1>3, <1>4

LEMMA CompleteSent == ASSUME IInv, SendComplete PROVE IInv'
<1> USE DEF SendComplete, sourceVars, fsVars, faultVars, fixedVars
<1>0. Shape /\ HandshakeInv /\ StoreInv
  BY DEF IInv
<1>1. /\ r'.phase = "success" /\ DOMAIN r' = ReceiverFields /\ r'.slot = r.slot
      /\ r'.open = {} /\ r'.mode = r.mode /\ r'.declared = r.declared
  BY <1>0 DEF Shape, ReceiverFields
<1>2. back = << >> /\ s.phase \in {"chunks", "complete", "failed"}
  BY <1>0 DEF HandshakeInv, Shape, SenderPhases
<1>3. AtMostOne(back')
  BY <1>2, OneFacts DEF AtMostOne
<1>4. Shape'
  BY <1>0, <1>1, <1>3 DEF Shape, ReceiverPhases
<1>5. HandshakeInv'
  BY <1>1, <1>2 DEF HandshakeInv
<1>6. HashInv' /\ FinalIsWhole'
  BY DEF IInv, HashInv, FinalIsWhole
<1>7. StoreInv'
  <2>1. Receiving' = Receiving
    BY <1>1 DEF Receiving
  <2> QED BY <1>0, <1>1, <2>1 DEF StoreInv, Sample
<1> QED BY <1>4, <1>5, <1>6, <1>7 DEF IInv

LEMMA SenderFailing == ASSUME IInv, SenderFails PROVE IInv'
<1> USE DEF SenderFails, SenderRunning, sourceVars, fsVars, faultVars, fixedVars
<1>0. Shape /\ HandshakeInv
  BY DEF IInv
<1>1. s'.phase = "failed" /\ DOMAIN s' = SenderFields
  BY <1>0 DEF Shape, SenderFields
<1>2. Shape'
  BY <1>0, <1>1 DEF Shape, SenderPhases
<1>3. HandshakeInv'
  BY <1>0, <1>1 DEF HandshakeInv, DeclaresHashes
<1> QED BY <1>2, <1>3, StoreFrame DEF IInv

LEMMA ReceiverFailing == ASSUME IInv, ReceiverFails \/ Crash PROVE IInv'
<1> USE DEF ReceiverFails, Crash, ReceiverRunning, sourceVars, fsVars, faultVars, fixedVars
<1>0. Shape /\ HandshakeInv
  BY DEF IInv
<1>1. /\ r' = [r EXCEPT !.phase = "failed", !.open = {}]
      /\ r.phase \notin {"success", "failed", "error"}
      /\ UNCHANGED <<source, hashed, sources, final, s, wire, back, before, conflict>>
  OBVIOUS
<1>2. r'.phase = "failed" /\ DOMAIN r' = ReceiverFields /\ r'.slot = r.slot
  BY <1>0, <1>1 DEF Shape, ReceiverFields
<1>3. Shape'
  BY <1>0, <1>1, <1>2 DEF Shape, ReceiverPhases
<1>4. HandshakeInv'
  BY <1>0, <1>1, <1>2 DEF HandshakeInv
<1> QED BY <1>1, <1>2, <1>3, <1>4, GoneFrame DEF IInv

LEMMA Reconnecting == ASSUME IInv, Reconnect PROVE IInv'
<1> USE Basics DEF Reconnect, sourceVars, fsVars, faultVars, fixedVars
<1>0. Shape
  BY DEF IInv
<1>1. wire'[0] = << >> /\ back' = << >> /\ DOMAIN wire' = Pipes /\ AtMostOne(<< >>)
  BY DEF Quiet, AtMostOne
<1>2. IsList(wire'[0]) /\ AtMostOne(back') /\ AtMostOne(wire'[0])
  BY <1>1, OneIsList
<1>3. r'.slot \in [Files -> Slots] /\ DOMAIN r' = ReceiverFields /\ r'.phase = "hello"
  BY DEF NewReceiver, ReceiverFields
<1>4. DOMAIN s' = SenderFields /\ s'.phase = "hello"
  BY DEF NewSender, SenderFields
<1>5. Shape'
  BY <1>0, <1>1, <1>2, <1>3, <1>4 DEF Shape, SenderPhases, ReceiverPhases
<1>6. HandshakeInv'
  BY <1>1, <1>2, <1>3, <1>4 DEF HandshakeInv
<1>7. HashInv' /\ FinalIsWhole'
  BY DEF IInv, HashInv, FinalIsWhole
<1>8. StoreInv'
  BY <1>3 DEF StoreInv
<1> QED BY <1>5, <1>6, <1>7, <1>8 DEF IInv

\* An edit adds a version; what was hashed and moved stays one.
LEMMA Editing == ASSUME IInv, NEW i \in Files, EditSource(i) PROVE IInv'
<1> USE DEF sourceVars, fsVars, faultVars, fixedVars
<1>0. Shape /\ HandshakeInv /\ HashInv /\ StoreInv /\ FinalIsWhole
  BY DEF IInv
<1>1. PICK content \in Edits : /\ source' = [source EXCEPT ![i] = content]
                               /\ sources' = [sources EXCEPT ![i] = @ \cup {content}]
  BY DEF EditSource
<1>2. UNCHANGED <<hashed, final, s, r, wire, back, before, conflict>>
  BY DEF EditSource
<1>3. /\ DOMAIN source' = Files /\ DOMAIN sources' = Files
      /\ \A j \in Files : sources[j] \subseteq sources'[j] /\ source'[j] \in {source[j]} \cup sources'[j]
  BY <1>0, <1>1 DEF Shape
<1>4. Shape'
  BY <1>0, <1>2, <1>3 DEF Shape
<1>5. HandshakeInv'
  BY <1>0, <1>2 DEF HandshakeInv, DeclaresHashes
<1>6. HashInv' /\ FinalIsWhole'
  BY <1>0, <1>2, <1>3 DEF HashInv, FinalIsWhole
<1>7. StoreInv'
  BY <1>0, <1>2 DEF StoreInv, Receiving, Sample
<1> QED BY <1>4, <1>5, <1>6, <1>7 DEF IInv

LEMMA Standing ==
    ASSUME IInv, UNCHANGED <<source, hashed, sources, final, s, r, wire, back, before, conflict>>
    PROVE  IInv'
<1>1. Shape'
  BY DEF IInv, Shape
<1>2. HandshakeInv'
  BY DEF IInv, HandshakeInv, DeclaresHashes
<1> QED BY <1>1, <1>2, StoreFrame DEF IInv

LEMMA Step == IInv /\ [Next]_vars => IInv'
<1> SUFFICES ASSUME IInv, [Next]_vars PROVE IInv'
  OBVIOUS
<1>1. CASE SenderStep
  BY <1>1, HelloSent, ManifestSent, AcceptSent, ChunkSent, DoneSent, CompleteReceived DEF SenderStep
<1>2. CASE ReceiverStep
  <2>1. CASE RecvHello \/ RecvManifest \/ RecvAccept \/ RecvPendingDone \/ SendComplete
    BY <2>1, HelloReceived, ManifestReceived, AcceptReceived, PendingDone, CompleteSent
  <2>2. CASE \E p \in Pipes : Defer(p)
    BY <2>2, Deferring
  <2>3. CASE \E p \in Pipes : \E m \in Incoming :
                 RecvChunk(p, m) \/ RecvLifecycle(p, m) \/ RecvDone(p, m)
    BY <2>3, Arriving, DoneReceived
  <2>4. CASE \E i \in Files : FinalizeFile(i)
    BY <2>4, Finalizing
  <2> QED BY <1>2, <2>1, <2>2, <2>3, <2>4 DEF ReceiverStep
<1>3. CASE SenderFails \/ ReceiverFails \/ Crash
  BY <1>3, SenderFailing, ReceiverFailing
<1>4. CASE Reconnect
  BY <1>4, Reconnecting
<1>5. CASE Break
  BY <1>5, Standing DEF Break, sourceVars, fsVars, fixedVars
<1>6. CASE \E i \in Files : EditSource(i)
  BY <1>6, Editing
<1>7. CASE UNCHANGED vars
  BY <1>7, Standing DEF vars, sourceVars, fsVars, fixedVars
<1> QED BY <1>1, <1>2, <1>3, <1>4, <1>5, <1>6, <1>7 DEF Next

\* The invariant of the transfer holds through edits of the source, lost
\* connections, crashes of the receiver and reconnects.
THEOREM TransferInvariant == Spec => []IInv
BY Initial, Step, PTL DEF Spec

\* A destination path changes only to a whole version of the source, however
\* many items, pipes, attempts and edits there are: Finalize moves a part file
\* only when it has the SHA-256 the sender computed of one version.
THEOREM FinalsWhole == Spec => []FinalIsWhole
BY TransferInvariant, PTL DEF IInv

\* A sender that returns without an error has delivered every file: the
\* receiver's success is that of the same attempt, and in it every file was
\* moved in place, matched before, or was left alone by the policy.
THEOREM SuccessDelivered == Spec => []SuccessMeansDelivered
<1>1. IInv => SuccessMeansDelivered
  <2> SUFFICES ASSUME IInv, s.phase = "success" PROVE SuccessMeansDelivered
    BY DEF SuccessMeansDelivered
  <2>1. r.phase = "success"
    BY DEF IInv, HandshakeInv
  <2>2. ASSUME NEW i \in Files
        PROVE  CASE r.mode[i] = "receive" -> final[i][r.slot[i]] = hashed[i]
                 [] r.mode[i] = "complete" -> Sample(final[i][0]) = Sample(Original(i))
                 [] r.mode[i] = "skipped" -> conflict = "skip" /\ final[i][0] \in {before[i][0]} \cup sources[i]
    <3>1. final[i][0] \in {before[i][0]} \cup sources[i]
      BY Basics DEF IInv, FinalIsWhole
    <3>2. /\ r.mode[i] \in {"receive", "complete", "skipped"}
          /\ r.mode[i] = "receive" => final[i][r.slot[i]] = hashed[i]
          /\ r.mode[i] = "complete" => Sample(final[i][0]) = Sample(Original(i))
          /\ r.mode[i] = "skipped" => conflict = "skip"
      BY <2>1 DEF IInv, StoreInv, Receiving
    <3> QED BY <3>1, <3>2
  <2> QED BY <2>1, <2>2 DEF SuccessMeansDelivered
<1> QED BY <1>1, TransferInvariant, PTL

(***************************************************************************)
(* The part files.  What the receiver believes about them rests on what is  *)
(* on its way to it: every chunk carries the source's blocks at its offset, *)
(* and an offset is accepted only for a part file that was compared with    *)
(* the source.                                                              *)
(***************************************************************************)

Elems(q) == {q[k] : k \in 1..Len(q)}

\* Contents have no holes; a part file may.
Content == Seq(Nat \ {Hole})

NoHole(file) == \A k \in 1..Len(file) : file[k] # Hole

\* What the versions of a source are.
SourceInv ==
    /\ edits \in Nat /\ crashes \in Nat /\ attempt \in 1..MaxAttempts
    /\ source \in [Files -> Content]
    /\ edits = 0 => \A i \in Files : source[i] = Original(i) /\ sources[i] = {Original(i)}

SessionInv ==
    /\ s.pipes \in 1..SenderPipes /\ s.offset \in [Files -> Nat]
    /\ s.done \subseteq Files /\ s.ended \subseteq Items
    /\ r.pipes \in 1..SenderPipes /\ r.opened \subseteq Items /\ r.ended \subseteq Items
    /\ r.mode \in [Files -> {"receive", "complete", "skipped"}]
    /\ r.open \subseteq Files
    /\ r.phase \notin {"accept", "chunks", "finalize"} => r.open = {}

\* A chunk on its way carries a part of the source at its offset.
Sound(m) ==
    /\ m.type = "chunk" =>
         /\ m.item \in Files /\ m.offset \in Nat /\ m.data \in Content /\ m.data # << >>
         /\ edits = 0 => \A k \in 1..Len(m.data) : m.data[k] = source[m.item][m.offset + k]
    /\ m.type \in {"stream_open", "stream_end"} => m.item \in Items

WireInv ==
    /\ IsList(deferred) /\ \A p \in Pipes : IsList(wire[p])
    /\ \A p \in Pipes : \A m \in Elems(wire[p]) : Sound(m)
    /\ \A e \in Elems(deferred) : Sound(e.message)

\* The requests are about the part files as they are, and what is accepted of
\* them is the source.
RequestsOwn(entries) ==
    \A i \in Files :
        /\ entries[i].offset \in 0..Size[i]
        /\ r.phase = "accept" /\ i \in r.open /\ ~entries[i].skip =>
             entries[i].prefix = part[i][r.slot[i]] /\ entries[i].offset = Len(part[i][r.slot[i]])
        /\ r.phase = "accept" => (entries[i].skip <=> i \notin r.open)

AcceptsSource(entries) ==
    \A i \in Files :
        /\ entries[i].offset \in 0..Size[i]
        /\ edits = 0 /\ i \in r.open =>
             \A k \in 1..entries[i].offset : part[i][r.slot[i]][k] = source[i][k]

ResumeInv ==
    /\ s.phase = "ack" /\ back # << >> => Head(back).connections \in 1..SenderPipes
    /\ s.phase = "resume" /\ back # << >> => RequestsOwn(Head(back).entries)
    /\ r.phase = "accept" /\ wire[0] # << >> => AcceptsSource(Head(wire[0]).entries)

\* The part file of an open item: what is counted as received is written, and
\* holes are only where chunks may come out of order.
Filled(i) ==
    LET file == part[i][r.slot[i]] IN
    /\ Len(file) <= Size[i] /\ \A k \in r.ranges[i] : k < Len(file)
    /\ crashes = 0 => \A k \in 1..Len(file) : file[k] = Hole => r.striping /\ k - 1 \notin r.ranges[i]
    /\ r.phase = "accept" => r.ranges[i] = 0..(Len(file) - 1)
    /\ r.phase \in {"chunks", "finalize"} /\ edits = 0 =>
         \A k \in r.ranges[i] : file[k + 1] = source[i][k + 1]

PartInv ==
    /\ DOMAIN part = Files
    /\ \A i \in Files : part[i] \in [Slots -> Seq(Nat)]
    /\ r.ranges \in [Files -> SUBSET Positions] /\ r.coverage \in [Items -> SUBSET Positions]
    /\ \A i \in Files : r.ranges[i] \subseteq 0..(Size[i] - 1)
    /\ \A i \in Items : r.coverage[i] \subseteq 0..(Size[i] - 1)
    /\ r.phase \in {"chunks", "finalize"} => \A i \in Files : r.coverage[i] = r.ranges[i]
    /\ r.phase = "finalize" => \A i \in Files : Complete(r.coverage[i], Size[i])
    /\ \A i \in r.open : Filled(i)
    /\ crashes = 0 =>
         \A i \in Files : \A n \in Slots : (i \in r.open /\ n = r.slot[i]) \/ NoHole(part[i][n])

PInv == SourceInv /\ SessionInv /\ WireInv /\ ResumeInv /\ PartInv

LEMMA Typing == Items \subseteq Int /\ \A i \in Items : Size[i] \in Nat
<1>1. Cardinality(Items) \in Nat
  BY Basics, FS_CardinalityType
<1> QED BY <1>1, TransferConstants

LEMMA ElemsOf ==
    ASSUME NEW q, IsList(q)
    PROVE  /\ \A x : Elems(Append(q, x)) \subseteq Elems(q) \cup {x}
           /\ q # << >> => Head(q) \in Elems(q) /\ Elems(Tail(q)) \subseteq Elems(q)
           /\ \A t : IsList(t) => Elems(q \o t) \subseteq Elems(q) \cup Elems(t)
<1>1. PICK S : q \in Seq(S)
  BY DEF IsList
<1>2. ASSUME NEW x PROVE Elems(Append(q, x)) \subseteq Elems(q) \cup {x}
  <2>1. q \in Seq(S \cup {x})
    BY <1>1
  <2>2. /\ Len(Append(q, x)) = Len(q) + 1 /\ Len(q) \in Nat /\ Append(q, x)[Len(q) + 1] = x
        /\ \A k \in 1..Len(q) : Append(q, x)[k] = q[k]
    BY <2>1
  <2>3. 1..(Len(q) + 1) = 1..Len(q) \cup {Len(q) + 1}
    BY <2>2
  <2> QED BY <2>2, <2>3 DEF Elems
<1>3. ASSUME q # << >> PROVE Head(q) \in Elems(q) /\ Elems(Tail(q)) \subseteq Elems(q)
  <2>1. /\ Len(q) \in Nat /\ Len(q) >= 1 /\ Len(Tail(q)) = Len(q) - 1 /\ Head(q) = q[1]
        /\ \A k \in 1..(Len(q) - 1) : Tail(q)[k] = q[k + 1]
    BY <1>1, <1>3
  <2>2. Head(q) \in Elems(q)
    BY <2>1 DEF Elems
  <2>3. ASSUME NEW y \in Elems(Tail(q)) PROVE y \in Elems(q)
    <3>1. PICK k \in 1..(Len(q) - 1) : y = q[k + 1]
      BY <2>1 DEF Elems
    <3>2. k + 1 \in 1..Len(q)
      BY <2>1
    <3> QED BY <3>1, <3>2 DEF Elems
  <2> QED BY <2>2, <2>3
<1>4. ASSUME NEW t, IsList(t) PROVE Elems(q \o t) \subseteq Elems(q) \cup Elems(t)
  <2>1. PICK T : t \in Seq(T)
    BY <1>4 DEF IsList
  <2>2. q \in Seq(S \cup T) /\ t \in Seq(S \cup T)
    BY <1>1, <2>1
  <2>3. /\ Len(q) \in Nat /\ Len(t) \in Nat /\ Len(q \o t) = Len(q) + Len(t)
        /\ \A k \in 1..(Len(q) + Len(t)) : (q \o t)[k] = IF k <= Len(q) THEN q[k] ELSE t[k - Len(q)]
    BY <2>2
  <2>4. ASSUME NEW y \in Elems(q \o t) PROVE y \in Elems(q) \cup Elems(t)
    <3>1. PICK k \in 1..(Len(q) + Len(t)) : y = (q \o t)[k]
      BY <2>3 DEF Elems
    <3>2. CASE k <= Len(q)
      <4>1. k \in 1..Len(q) /\ y = q[k]
        BY <2>3, <3>1, <3>2
      <4> QED BY <4>1 DEF Elems
    <3>3. CASE ~(k <= Len(q))
      <4>1. k - Len(q) \in 1..Len(t) /\ y = t[k - Len(q)]
        BY <2>3, <3>1, <3>3
      <4> QED BY <4>1 DEF Elems
    <3> QED BY <3>2, <3>3
  <2> QED BY <2>4
<1> QED BY <1>2, <1>3, <1>4

LEMMA ElemsFew == Elems(<< >>) = {} /\ \A x : Elems(<<x>>) = {x}
<1>1. ASSUME NEW x PROVE Elems(<<x>>) = {x}
  <2>1. Len(<<x>>) = 1 /\ <<x>>[1] = x /\ 1..1 = {1}
    OBVIOUS
  <2> QED BY <2>1 DEF Elems
<1> QED BY <1>1 DEF Elems

(***************************************************************************)
(* The order in which lifecycle messages go over a pipe: OnPipe lists the   *)
(* messages of the pipe and nothing else, because the ranks of a finite,    *)
(* strictly ordered set are all the numbers below its cardinality.          *)
(***************************************************************************)

Lifecycles == {Lifecycle(type, i) : type \in {"stream_open", "stream_end"}, i \in Items}

LEMMA PrecedesOrders ==
    /\ \A a \in Lifecycles : ~Precedes(a, a)
    /\ \A a, b \in Lifecycles : a = b \/ Precedes(a, b) \/ Precedes(b, a)
    /\ \A a, b, c \in Lifecycles : Precedes(a, b) /\ Precedes(b, c) => Precedes(a, c)
<1>1. Items \subseteq Int
  BY Typing
<1>2. \A a \in Lifecycles : /\ a.item \in Items /\ a.type \in {"stream_open", "stream_end"}
                            /\ a = Lifecycle(a.type, a.item)
  BY DEF Lifecycles, Lifecycle, Message
<1>3. \A a \in Lifecycles : ~Precedes(a, a)
  BY DEF Precedes
<1>4. ASSUME NEW a \in Lifecycles, NEW b \in Lifecycles, a # b, ~Precedes(a, b)
      PROVE  Precedes(b, a)
  <2>1. a.item # b.item \/ a.type # b.type
    BY <1>2, <1>4
  <2>2. a.item \in Int /\ b.item \in Int
    BY <1>1, <1>2
  <2> QED BY <1>2, <1>4, <2>1, <2>2 DEF Precedes
<1>5. ASSUME NEW a \in Lifecycles, NEW b \in Lifecycles, NEW c \in Lifecycles,
             Precedes(a, b), Precedes(b, c)
      PROVE  Precedes(a, c)
  <2>1. a.item \in Int /\ b.item \in Int /\ c.item \in Int
    BY <1>1, <1>2
  <2> QED BY <1>5, <2>1 DEF Precedes
<1> QED BY <1>3, <1>4, <1>5

LEMMA OnPipeElems ==
    ASSUME NEW messages \in SUBSET Lifecycles, IsFiniteSet(messages), NEW pipes, NEW p
    PROVE  Elems(OnPipe(pipes, messages, p)) \subseteq messages
<1> DEFINE mine == {m \in messages : PipeForItem(pipes, m.item) = p}
           below(m) == {x \in mine : Precedes(x, m)}
           n == Cardinality(mine)
           at(k) == CHOOSE m \in mine : Cardinality(below(m)) = k - 1
           rank == [m \in mine |-> Cardinality(below(m))]
<1>1. mine \in SUBSET messages /\ mine \in SUBSET Lifecycles
  OBVIOUS
<1>2. IsFiniteSet(mine) /\ n \in Nat
  BY <1>1, FS_Subset, FS_CardinalityType
<1>3. OnPipe(pipes, messages, p) = [k \in 1..n |-> at(k)]
  BY DEF OnPipe
<1> HIDE DEF n
<1>4. ASSUME NEW m \in mine
      PROVE  IsFiniteSet(below(m)) /\ Cardinality(below(m)) \in 0..(n - 1)
  <2>1. below(m) \in SUBSET mine /\ m \notin below(m)
    BY <1>1, PrecedesOrders
  <2>2. IsFiniteSet(below(m)) /\ Cardinality(below(m)) \in Nat /\ Cardinality(below(m)) <= n
    BY <1>2, <2>1, FS_Subset, FS_CardinalityType DEF n
  <2>3. Cardinality(below(m)) # n
    BY <1>2, <2>1, FS_Subset DEF n
  <2> QED BY <1>2, <2>2, <2>3
<1>5. ASSUME NEW a \in mine, NEW b \in mine, Precedes(a, b)
      PROVE  Cardinality(below(a)) # Cardinality(below(b))
  <2>1. below(a) \in SUBSET below(b) /\ a \in below(b) /\ a \notin below(a)
    BY <1>1, <1>5, PrecedesOrders
  <2> QED BY <1>4, <2>1, FS_Subset
<1>6. rank \in Injection(mine, 0..(n - 1))
  <2>1. rank \in [mine -> 0..(n - 1)]
    BY <1>4
  <2>2. ASSUME NEW a \in mine, NEW b \in mine, rank[a] = rank[b] PROVE a = b
    BY <1>1, <1>5, <2>2, PrecedesOrders
  <2> QED BY <2>1, <2>2 DEF Injection, IsInjective
<1>7. rank \in Surjection(mine, 0..(n - 1))
  <2>1. IsFiniteSet(0..(n - 1)) /\ Cardinality(0..(n - 1)) = n
    BY <1>2, FS_Interval
  <2> HIDE DEF rank, mine
  <2> QED BY <1>2, <1>6, <2>1, FS_Injection DEF n
<1>8. ASSUME NEW k \in 1..n PROVE at(k) \in messages
  <2>1. k - 1 \in 0..(n - 1)
    BY <1>2
  <2>2. PICK m \in mine : rank[m] = k - 1
    BY <1>7, <2>1 DEF Surjection
  <2>3. \E x \in mine : Cardinality(below(x)) = k - 1
    BY <2>2
  <2>4. at(k) \in mine
    BY <2>3
  <2> QED BY <1>1, <2>4
<1> HIDE DEF at
<1>9. Len([k \in 1..n |-> at(k)]) = n
  BY <1>2
<1> QED BY <1>2, <1>3, <1>8, <1>9 DEF Elems

(***************************************************************************)
(* Ranges and files.                                                        *)
(***************************************************************************)

\* byteRanges.Prefix is the first position that is missing.
LEMMA PrefixIs ==
    ASSUME NEW size \in Nat, NEW R \in SUBSET (0..(size - 1))
    PROVE  /\ Prefix(R) \in 0..size /\ 0..(Prefix(R) - 1) \subseteq R /\ Prefix(R) \notin R
           /\ \A n \in Nat : 0..(n - 1) \subseteq R /\ n \notin R => n = Prefix(R)
<1> DEFINE c == Cardinality(R)
           K == {k \in 0..c : 0..(k - 1) \subseteq R}
           n == Cardinality(K) - 1
<1>1. IsFiniteSet(0..(size - 1)) /\ Cardinality(0..(size - 1)) = size
  BY FS_Interval
<1>2. IsFiniteSet(R) /\ c \in Nat /\ c <= size
  BY <1>1, FS_Subset, FS_CardinalityType
<1> HIDE DEF c
<1>3. IsFiniteSet(0..c) /\ Cardinality(0..c) = c + 1
  BY <1>2, FS_Interval
<1>4. K \in SUBSET (0..c) /\ 0 \in K
  BY <1>2
<1>5. IsFiniteSet(K) /\ Cardinality(K) \in Nat /\ Cardinality(K) <= c + 1 /\ Cardinality(K) # 0
  <2> HIDE DEF K
  <2>1. IsFiniteSet(K) /\ Cardinality(K) <= c + 1
    BY <1>3, <1>4, FS_Subset
  <2>2. Cardinality(K) \in Nat
    BY <2>1, FS_CardinalityType
  <2>3. Cardinality(K) # 0
    BY <1>4, <2>1, FS_EmptySet
  <2> QED BY <2>1, <2>2, <2>3
<1>6. \A k \in K : 0..k \subseteq K
  BY <1>2
\* K holds 0..k with each k, so it is 0..n.
<1>7. ASSUME NEW k \in K PROVE k \in 0..n
  <2>1. IsFiniteSet(0..k) /\ Cardinality(0..k) = k + 1 /\ k \in Nat
    BY <1>2, <1>4, FS_Interval
  <2>2. 0..k \in SUBSET K
    BY <1>6
  <2> HIDE DEF K
  <2>3. k + 1 <= Cardinality(K)
    BY <1>5, <2>1, <2>2, FS_Subset
  <2> QED BY <1>5, <2>1, <2>3
<1> HIDE DEF K
<1>8. n \in 0..c
  BY <1>2, <1>5
<1> HIDE DEF n
<1>9. n \in K
  <2>1. IsFiniteSet(0..n) /\ Cardinality(0..n) = n + 1 /\ n \in Nat
    BY <1>8, FS_Interval
  <2>2. n + 1 = Cardinality(K)
    BY <1>5 DEF n
  <2>3. K \in SUBSET (0..n)
    BY <1>7
  <2>4. 0..n = K
    BY <2>1, <2>2, <2>3, FS_Subset
  <2> QED BY <2>1, <2>4
<1>10. 0..(n - 1) \subseteq R
  BY <1>9 DEF K
<1>11. n \notin R
  <2>1. CASE n = c
    <3>1. IsFiniteSet(0..(n - 1)) /\ Cardinality(0..(n - 1)) = n /\ n \in Nat
      BY <1>8, FS_Interval
    <3>2. 0..(n - 1) \in SUBSET R
      BY <1>10
    <3>3. 0..(n - 1) = R
      BY <1>2, <2>1, <3>1, <3>2, FS_Subset DEF c
    <3> QED BY <3>1, <3>3
  <2>2. CASE n # c
    <3>1. n + 1 \in 0..c /\ n + 1 \notin K
      BY <1>2, <1>7, <1>8, <2>2
    <3>2. ~(0..n \subseteq R) /\ 0..n = 0..(n - 1) \cup {n}
      BY <1>8, <3>1 DEF K
    <3> QED BY <1>10, <3>2
  <2> QED BY <2>1, <2>2
<1>12. /\ Prefix(R) \in 0..c /\ 0..(Prefix(R) - 1) \subseteq R /\ Prefix(R) \notin R
  BY <1>8, <1>10, <1>11 DEF Prefix, c
<1>13. ASSUME NEW m \in Nat, 0..(m - 1) \subseteq R, m \notin R PROVE m = Prefix(R)
  <2>1. ~(m < Prefix(R)) /\ ~(Prefix(R) < m)
    BY <1>2, <1>12, <1>13
  <2> QED BY <1>2, <1>12, <2>1
<1> QED BY <1>2, <1>12, <1>13

LEMMA PrefixInterval == ASSUME NEW n \in Nat PROVE Prefix(0..(n - 1)) = n
<1>1. n \notin 0..(n - 1) /\ 0..(n - 1) \in SUBSET (0..(n - 1))
  OBVIOUS
<1> QED BY <1>1, PrefixIs

LEMMA SlotFacts ==
    ASSUME NEW f \in [Slots -> Seq(Nat)], NEW n \in Slots
    PROVE  /\ f[n] \in Seq(Nat) /\ Len(f[n]) \in Nat
           /\ \A g \in Seq(Nat) :
                /\ [f EXCEPT ![n] = g] \in [Slots -> Seq(Nat)] /\ [f EXCEPT ![n] = g][n] = g
                /\ \A x \in Slots : x # n => [f EXCEPT ![n] = g][x] = f[x]
<1>1. f[n] \in Seq(Nat)
  OBVIOUS
<1>2. Len(f[n]) \in Nat
  BY <1>1, LenProperties
<1> HIDE DEF Slots
<1> QED BY <1>1, <1>2

LEMMA TruncateIs ==
    ASSUME NEW file \in Seq(Nat), NEW n \in 0..Len(file)
    PROVE  /\ Truncate(file, n) \in Seq(Nat) /\ Len(Truncate(file, n)) = n
           /\ \A k \in 1..n : Truncate(file, n)[k] = file[k]
<1>1. Len(file) \in Nat /\ n \in Int
  OBVIOUS
<1>2. /\ Truncate(file, n) \in Seq(Nat)
      /\ Len(Truncate(file, n)) = IF 1 <= n THEN n - 1 + 1 ELSE 0
      /\ \A i \in 1..(n - 1 + 1) : SubSeq(file, 1, n)[i] = file[1 + i - 1]
  BY <1>1, SubSeqProperties DEF Truncate
<1>3. n - 1 + 1 = n /\ \A k \in 1..n : 1 + k - 1 = k
  BY <1>1
<1> QED BY <1>1, <1>2, <1>3 DEF Truncate

LEMMA WriteAtIs ==
    ASSUME NEW file \in Seq(Nat), NEW offset \in Nat, NEW data \in Content
    PROVE  LET g == WriteAt(file, offset, data)
               end == offset + Len(data)
           IN /\ g \in Seq(Nat) /\ Len(g) \in {Len(file), end} /\ Len(file) <= Len(g) /\ end <= Len(g)
              /\ \A k \in 1..Len(g) :
                   /\ k > offset /\ k <= end => g[k] = data[k - offset] /\ g[k] # Hole
                   /\ (k <= offset \/ k > end) /\ k <= Len(file) => g[k] = file[k]
                   /\ (k <= offset \/ k > end) /\ k > Len(file) => g[k] = Hole
<1> DEFINE end == offset + Len(data)
           size == IF end > Len(file) THEN end ELSE Len(file)
           g == [k \in 1..size |-> IF k > offset /\ k <= end THEN data[k - offset]
                                   ELSE IF k <= Len(file) THEN file[k] ELSE Hole]
<1>1. /\ Len(file) \in Nat /\ Len(data) \in Nat /\ size \in Nat
      /\ size \in {Len(file), end} /\ Len(file) <= size /\ end <= size
      /\ \A k \in 1..Len(data) : data[k] \in Nat /\ data[k] # Hole
      /\ \A k \in 1..Len(file) : file[k] \in Nat
  BY DEF Content
<1>2. ASSUME NEW k \in 1..size
      PROVE  /\ g[k] \in Nat
             /\ k > offset /\ k <= end => g[k] = data[k - offset] /\ g[k] # Hole
             /\ (k <= offset \/ k > end) /\ k <= Len(file) => g[k] = file[k]
             /\ (k <= offset \/ k > end) /\ k > Len(file) => g[k] = Hole
  <2>1. k > offset /\ k <= end => k - offset \in 1..Len(data)
    BY <1>1
  <2> QED BY <1>1, <2>1 DEF Hole
<1>3. WriteAt(file, offset, data) = g
  BY DEF WriteAt
<1>4. g \in [1..size -> Nat] /\ DOMAIN g = 1..size
  BY <1>2
<1> HIDE DEF g, size
<1>5. g \in Seq(Nat) /\ Len(g) = size
  BY <1>1, <1>4, SeqDef, LenProperties
<1> QED BY <1>1, <1>2, <1>3, <1>5

\* ReceiveStore.Close leaves no holes: what a striped store keeps was received.
LEMMA ClosedIs ==
    ASSUME IInv, PartInv, SessionInv
    PROVE  /\ DOMAIN Closed = Files /\ \A i \in Files : Closed[i] \in [Slots -> Seq(Nat)]
           /\ crashes = 0 => \A i \in Files, n \in Slots : NoHole(Closed[i][n])
<1> SUFFICES ASSUME NEW i \in Files
             PROVE  /\ Closed[i] \in [Slots -> Seq(Nat)]
                    /\ crashes = 0 => \A n \in Slots : NoHole(Closed[i][n])
  BY DEF Closed
<1>1. /\ part[i] \in [Slots -> Seq(Nat)] /\ r.slot[i] \in Slots /\ Size[i] \in Nat
      /\ r.ranges[i] \in SUBSET (0..(Size[i] - 1))
      /\ crashes = 0 => \A n \in Slots : (i \in r.open /\ n = r.slot[i]) \/ NoHole(part[i][n])
  BY Basics, TransferConstants DEF IInv, Shape, PartInv
<1> DEFINE file == part[i][r.slot[i]]
           cut == Least(Len(file), Prefix(r.ranges[i]))
<1>2. CASE i \notin r.open
  BY <1>1, <1>2 DEF Closed
<1>3. CASE i \in r.open
  <2>1. Filled(i) /\ file \in Seq(Nat) /\ Len(file) \in Nat
    BY <1>1, <1>3 DEF PartInv
  <2>2. CASE ~r.striping
    <3>1. crashes = 0 => NoHole(file)
      BY <2>1, <2>2 DEF Filled, NoHole
    <3> QED BY <1>1, <2>2, <3>1 DEF Closed
  <2>3. CASE r.striping
    <3>1. /\ Prefix(r.ranges[i]) \in Nat
          /\ 0..(Prefix(r.ranges[i]) - 1) \subseteq r.ranges[i]
      BY <1>1, PrefixIs
    <3>2. cut \in 0..Len(file) /\ cut <= Prefix(r.ranges[i])
      BY <2>1, <3>1 DEF Least
    <3>3. Closed[i] = [part[i] EXCEPT ![r.slot[i]] = Truncate(file, cut)]
      BY <1>3, <2>3 DEF Closed
    <3> HIDE DEF cut
    <3>4. /\ Truncate(file, cut) \in Seq(Nat) /\ Len(Truncate(file, cut)) = cut
          /\ \A k \in 1..cut : Truncate(file, cut)[k] = file[k]
      BY <2>1, <3>2, TruncateIs
    <3>5. ASSUME crashes = 0 PROVE NoHole(Truncate(file, cut))
      <4> SUFFICES ASSUME NEW k \in 1..cut PROVE file[k] # Hole
        BY <3>4 DEF NoHole
      <4>1. k \in 1..Len(file) /\ k - 1 \in r.ranges[i]
        BY <2>1, <3>1, <3>2
      <4> QED BY <2>1, <3>5, <4>1 DEF Filled
    <3> QED BY <1>1, <1>3, <3>3, <3>4, <3>5
  <2> QED BY <2>2, <2>3
<1> QED BY <1>2, <1>3

(***************************************************************************)
(* What a step leaves alone.                                                *)
(***************************************************************************)

LEMMA SourceFrame ==
    ASSUME SourceInv, UNCHANGED <<source, sources, edits, crashes, attempt>>
    PROVE  SourceInv'
BY DEF SourceInv

\* What the session of the sender keeps to itself.
LEMMA SenderFrame ==
    ASSUME SessionInv, UNCHANGED r,
           s'.pipes = s.pipes, s'.offset = s.offset, s'.done = s.done, s'.ended = s.ended
    PROVE  SessionInv'
BY DEF SessionInv

\* A receiver that is gone or has everything holds no part file.
LEMMA SessionEnds ==
    ASSUME SessionInv, UNCHANGED s, r'.open = {},
           r'.pipes = r.pipes, r'.opened = r.opened, r'.ended = r.ended, r'.mode = r.mode
    PROVE  SessionInv'
BY DEF SessionInv

\* Every message that is new is sound.
LEMMA WireFrame ==
    ASSUME WireInv, UNCHANGED <<source, edits>>,
           IsList(deferred'), \A p \in Pipes : IsList(wire'[p]),
           \A p \in Pipes : \A m \in Elems(wire'[p]) : m \in Elems(wire[p]) \/ Sound(m),
           \A e \in Elems(deferred') : e \in Elems(deferred) \/ Sound(e.message)
    PROVE  WireInv'
<1>1. \A m : Sound(m) => Sound(m)'
  BY DEF Sound
<1>2. \A p \in Pipes : \A m \in Elems(wire'[p]) : Sound(m)'
  BY <1>1 DEF WireInv
<1>3. \A e \in Elems(deferred') : Sound(e.message)'
  <2> SUFFICES ASSUME NEW e \in Elems(deferred') PROVE Sound(e.message)'
    OBVIOUS
  <2>1. Sound(e.message)
    BY DEF WireInv
  <2> QED BY <1>1, <2>1
<1> QED BY <1>2, <1>3 DEF WireInv

LEMMA WireStays == ASSUME WireInv, UNCHANGED <<source, edits, wire, deferred>> PROVE WireInv'
BY WireFrame DEF WireInv

LEMMA ResumeFrame ==
    ASSUME ResumeInv, UNCHANGED <<part, back>>, edits' # 0 \/ UNCHANGED <<source, edits>>,
           s'.phase = s.phase \/ s'.phase \notin {"ack", "resume"},
           r'.phase = r.phase, r'.open = r.open, r'.slot = r.slot,
           r.phase = "accept" /\ wire'[0] # << >> => wire[0] # << >> /\ Head(wire'[0]) = Head(wire[0])
    PROVE  ResumeInv'
<1>1. s'.phase = "ack" /\ back' # << >> => Head(back').connections \in 1..SenderPipes
  BY DEF ResumeInv
<1>2. s'.phase = "resume" /\ back' # << >> => RequestsOwn(Head(back).entries)'
  BY DEF ResumeInv, RequestsOwn
<1>3. r'.phase = "accept" /\ wire'[0] # << >> => AcceptsSource(Head(wire[0]).entries)'
  BY DEF ResumeInv, AcceptsSource
<1> QED BY <1>1, <1>2, <1>3 DEF ResumeInv

LEMMA ResumeOver ==
    ASSUME s'.phase \notin {"ack", "resume"}, r'.phase # "accept"
    PROVE  ResumeInv'
BY DEF ResumeInv

LEMMA PartFrame ==
    ASSUME PartInv, UNCHANGED <<part, crashes>>, edits' # 0 \/ UNCHANGED <<source, edits>>,
           r'.phase = r.phase, r'.open = r.open, r'.slot = r.slot, r'.striping = r.striping,
           r'.ranges = r.ranges, r'.coverage = r.coverage
    PROVE  PartInv'
<1>1. \A i \in r.open : Filled(i) => Filled(i)'
  BY DEF Filled
<1>2. /\ r'.phase = "finalize" => \A i \in Files : Complete(r'.coverage[i], Size[i])
      /\ \A i \in r'.open : Filled(i)'
  BY <1>1 DEF PartInv
<1> QED BY <1>2 DEF PartInv

\* The store is closed: no file is open, and no part file has a hole.
LEMMA PartCloses ==
    ASSUME PartInv, r'.phase \in {"success", "failed", "error"}, r'.open = {},
           r'.ranges = r.ranges, r'.coverage = r.coverage,
           DOMAIN part' = Files, \A i \in Files : part'[i] \in [Slots -> Seq(Nat)],
           crashes' = 0 => \A i \in Files, n \in Slots : NoHole(part'[i][n])
    PROVE  PartInv'
BY DEF PartInv

LEMMA ByPosition ==
    ASSUME NEW i \in Items, NEW R \in SUBSET (0..(Size[i] - 1)) PROVE R \in SUBSET Positions
BY DEF Positions

(***************************************************************************)
(* Every step.                                                              *)
(***************************************************************************)

LEMMA PartInitially == Init => PInv
<1> SUFFICES ASSUME Init PROVE PInv
  OBVIOUS
<1> USE Basics, Typing DEF Init
<1>1. SourceInv
  <2>1. \A i \in Files : Original(i) \in Content
    <3> SUFFICES ASSUME NEW i \in Files PROVE [k \in 1..Size[i] |-> 1] \in Content
      BY DEF Original
    <3>1. Size[i] \in Nat
      OBVIOUS
    <3> QED BY <3>1 DEF Content, Hole
  <2> QED BY <2>1, TransferConstants DEF SourceInv
<1>2. SessionInv
  BY TransferConstants DEF SessionInv, NewSender, NewReceiver
<1>3. WireInv
  <2>1. AtMostOne(<< >>)
    BY DEF AtMostOne
  <2>2. deferred = << >> /\ \A p \in Pipes : wire[p] = << >>
    BY DEF Quiet
  <2> QED BY <2>1, <2>2, OneIsList, ElemsFew DEF WireInv
<1>4. ResumeInv
  BY DEF ResumeInv, NewSender, NewReceiver
<1>5. PartInv
  <2>1. /\ r.phase = "hello" /\ r.open = {}
        /\ r.ranges = [i \in Files |-> {}] /\ r.coverage = [i \in Items |-> {}]
    BY DEF NewReceiver
  <2>2. \A c \in Leftover \cup {Absent} : c \in Seq(Nat) /\ NoHole(c)
    <3>1. \A c \in Seq(Nat \ {Hole}) : c \in Seq(Nat) /\ NoHole(c)
      BY DEF NoHole
    <3>2. Absent \in Seq(Nat \ {Hole})
      BY DEF Absent
    <3> QED BY <3>1, <3>2, TransferContents
  <2>3. \A i \in Files : \E c \in Leftover \cup {Absent} : part[i] = [n \in Slots |-> c]
    OBVIOUS
  <2>4. \A i \in Files : part[i] \in [Slots -> Seq(Nat)] /\ \A n \in Slots : NoHole(part[i][n])
    BY <2>2, <2>3
  <2>5. DOMAIN part = Files
    OBVIOUS
  <2> QED BY <2>1, <2>4, <2>5 DEF PartInv
<1> QED BY <1>1, <1>2, <1>3, <1>4, <1>5 DEF PInv

LEMMA HelloSentP == ASSUME IInv, PInv, SendHello PROVE PInv'
<1> USE Basics DEF SendHello, sourceVars, fsVars, faultVars, fixedVars
<1>0. /\ Shape /\ HandshakeInv /\ SourceInv /\ SessionInv /\ WireInv /\ PartInv
  BY DEF IInv, PInv
<1>1. /\ s'.phase = "ack" /\ s'.pipes = s.pipes /\ s'.offset = s.offset
      /\ s'.done = s.done /\ s'.ended = s.ended
  BY <1>0 DEF Shape, SenderFields
<1>2. SourceInv' /\ SessionInv' /\ PartInv'
  BY <1>0, <1>1, SourceFrame, SenderFrame, PartFrame
<1>3. WireInv'
  <2>1. Sound(Message("hello"))
    BY DEF Sound, Message
  <2>2. \A p \in Pipes : wire'[p] = IF p = 0 THEN Append(wire[p], Message("hello")) ELSE wire[p]
    BY <1>0 DEF Shape
  <2>3. \A p \in Pipes : /\ IsList(wire'[p])
                         /\ \A m \in Elems(wire'[p]) : m \in Elems(wire[p]) \/ Sound(m)
    BY <1>0, <2>1, <2>2, ElemsOf, ListAppend DEF WireInv
  <2> QED BY <1>0, <2>3, WireFrame DEF WireInv
<1>4. ResumeInv'
  BY <1>0, <1>1 DEF HandshakeInv, ResumeInv
<1> QED BY <1>2, <1>3, <1>4 DEF PInv

LEMMA HelloReceivedP == ASSUME IInv, PInv, RecvHello PROVE PInv'
<1> USE Basics DEF RecvHello, sourceVars, fsVars, faultVars, fixedVars
<1> DEFINE count == Least(SenderPipes, ReceiverPipes)
           ack == [type |-> "hello_ack", connections |-> count, striping |-> peersStripe /\ count > 1]
<1>0. /\ Shape /\ HandshakeInv /\ SourceInv /\ SessionInv /\ WireInv /\ PartInv
  BY DEF IInv, PInv
<1>1. count \in 1..SenderPipes
  BY TransferConstants DEF Least
<1> HIDE DEF count
<1>2. /\ r' = [r EXCEPT !.phase = "manifest", !.pipes = count, !.striping = peersStripe /\ count > 1]
      /\ back' = Append(back, ack)
  BY DEF count
<1>3. /\ r'.phase = "manifest" /\ r'.pipes = count /\ r'.opened = r.opened /\ r'.ended = r.ended
      /\ r'.mode = r.mode /\ r'.open = r.open /\ r'.ranges = r.ranges /\ r'.coverage = r.coverage
      /\ r.phase = "hello"
  BY <1>0, <1>2 DEF Shape, ReceiverFields
<1>4. r.open = {}
  BY <1>0, <1>3 DEF SessionInv
<1>5. SourceInv'
  BY <1>0, SourceFrame
<1>6. SessionInv'
  BY <1>0, <1>1, <1>3, <1>4 DEF SessionInv
<1>7. PartInv'
  BY <1>0, <1>3, <1>4 DEF PartInv
<1>8. WireInv'
  <2>1. \A p \in Pipes : wire'[p] = IF p = 0 THEN Tail(wire[p]) ELSE wire[p]
    BY <1>0 DEF Shape
  <2>2. \A p \in Pipes : /\ IsList(wire'[p])
                         /\ \A m \in Elems(wire'[p]) : m \in Elems(wire[p]) \/ Sound(m)
    BY <1>0, <2>1, ElemsOf, ListTail DEF WireInv
  <2> QED BY <1>0, <2>2, WireFrame DEF WireInv
<1>9. ResumeInv'
  <2>1. back = << >> /\ s.phase \in {"ack", "failed"}
    BY <1>0 DEF HandshakeInv, Shape, SenderPhases
  <2>2. Head(back') = ack
    BY <1>2, <2>1, OneFacts
  <2> QED BY <1>1, <1>3, <2>1, <2>2 DEF ResumeInv
<1> QED BY <1>5, <1>6, <1>7, <1>8, <1>9 DEF PInv

LEMMA ManifestSentP == ASSUME IInv, PInv, SendManifest PROVE PInv'
<1> USE Basics DEF SendManifest, sourceVars, fsVars, faultVars, fixedVars
<1>0. /\ Shape /\ HandshakeInv /\ SourceInv /\ SessionInv /\ WireInv /\ PartInv /\ ResumeInv
  BY DEF IInv, PInv
<1>1. /\ s'.phase = "resume" /\ s'.pipes = Head(back).connections /\ s'.offset = s.offset
      /\ s'.done = s.done /\ s'.ended = s.ended
  BY <1>0 DEF Shape, SenderFields
<1>2. SourceInv' /\ PartInv'
  BY <1>0, SourceFrame, PartFrame
<1>3. SessionInv'
  BY <1>0, <1>1 DEF SessionInv, ResumeInv
<1>4. WireInv'
  <2>1. Sound(Message("manifest"))
    BY DEF Sound, Message
  <2>2. \A p \in Pipes : wire'[p] = IF p = 0 THEN Append(wire[p], Message("manifest")) ELSE wire[p]
    BY <1>0 DEF Shape
  <2>3. \A p \in Pipes : /\ IsList(wire'[p])
                         /\ \A m \in Elems(wire'[p]) : m \in Elems(wire[p]) \/ Sound(m)
    BY <1>0, <2>1, <2>2, ElemsOf, ListAppend DEF WireInv
  <2> QED BY <1>0, <2>3, WireFrame DEF WireInv
<1>5. ResumeInv'
  <2>1. r.phase \in {"manifest", "failed"} /\ AtMostOne(back) /\ back # << >>
    BY <1>0 DEF HandshakeInv, Shape
  <2>2. back' = << >>
    BY <2>1, OneFacts DEF AtMostOne
  <2> QED BY <1>1, <2>1, <2>2 DEF ResumeInv
<1> QED BY <1>2, <1>3, <1>4, <1>5 DEF PInv

\* The store opens: it asks for what its part files hold.
LEMMA ManifestReceivedP == ASSUME IInv, PInv, RecvManifest PROVE PInv'
<1> USE Basics DEF sourceVars, fsVars, faultVars, fixedVars
<1>0. /\ Shape /\ HandshakeInv /\ SourceInv /\ SessionInv /\ WireInv /\ PartInv
  BY DEF IInv, PInv
<1> DEFINE receive == {i \in Files : Mode(i) = "receive"}
           offset(slot) == [i \in Files |-> IF Mode(i) = "receive"
                                            THEN Least(Len(part[i][slot[i]]), Size[i])
                                            ELSE Size[i]]
           answer(slot) == [type |-> "resume",
                entries |-> [i \in Files |->
                    [offset |-> offset(slot)[i], skip |-> i \notin receive,
                     prefix |-> part'[i][slot[i]]]]]
<1>1. PICK slot \in [Files -> Slots] :
         /\ part' = [i \in Files |-> IF i \in receive
                THEN [part[i] EXCEPT ![slot[i]] = Truncate(@, offset(slot)[i])] ELSE part[i]]
         /\ r' = [r EXCEPT !.phase = "accept", !.slot = slot, !.open = receive,
                           !.mode = [i \in Files |-> Mode(i)],
                           !.overwrite = {i \in receive : Exists(i) /\ conflict = "overwrite"},
                           !.ranges = [i \in Files |-> 0..(offset(slot)[i] - 1)]]
         /\ back' = Append(back, answer(slot))
  BY DEF RecvManifest
<1> DEFINE file(i) == part[i][slot[i]]
           off == offset(slot)
           ranges == [i \in Files |-> 0..(off[i] - 1)]
<1>2. /\ r.phase = "manifest" /\ wire[0] # << >> /\ wire' = [wire EXCEPT ![0] = Tail(@)]
      /\ UNCHANGED <<source, sources, edits, s, deferred, crashes, attempt>>
  BY DEF RecvManifest
<1>3. r.open = {}
  BY <1>0, <1>2 DEF SessionInv
<1>4. /\ r'.phase = "accept" /\ r'.slot = slot /\ r'.open = receive
      /\ r'.mode = [i \in Files |-> Mode(i)] /\ r'.ranges = ranges
      /\ r'.pipes = r.pipes /\ r'.opened = r.opened /\ r'.ended = r.ended
      /\ r'.coverage = r.coverage
  BY <1>0, <1>1 DEF Shape, ReceiverFields
<1>5. ASSUME NEW i \in Files
      PROVE  /\ file(i) \in Seq(Nat) /\ Len(file(i)) \in Nat /\ part[i] \in [Slots -> Seq(Nat)]
             /\ slot[i] \in Slots /\ off[i] \in 0..Size[i] /\ ranges[i] \in SUBSET (0..(Size[i] - 1))
             /\ i \in receive => off[i] \in 0..Len(file(i))
             /\ crashes = 0 => \A n \in Slots : NoHole(part[i][n])
  <2>1. part[i] \in [Slots -> Seq(Nat)] /\ slot[i] \in Slots /\ Size[i] \in Nat
    BY <1>0, Typing DEF PartInv
  <2>2. crashes = 0 => \A n \in Slots : NoHole(part[i][n])
    BY <1>0, <1>3 DEF PartInv
  <2>3. file(i) \in Seq(Nat) /\ Len(file(i)) \in Nat
    BY <2>1, SlotFacts
  <2>4. off[i] \in 0..Size[i] /\ (i \in receive => off[i] \in 0..Len(file(i)))
    BY <2>1, <2>3 DEF Least
  <2>5. ranges[i] \in SUBSET (0..(Size[i] - 1))
    BY <2>1, <2>4
  <2> QED BY <2>1, <2>2, <2>3, <2>4, <2>5
<1>6. DOMAIN part' = Files /\ \A i \in Files : i \notin receive => part'[i] = part[i]
  BY <1>1
<1>7. ASSUME NEW i \in receive
      PROVE  /\ part'[i] = [part[i] EXCEPT ![slot[i]] = Truncate(file(i), off[i])]
             /\ Truncate(file(i), off[i]) \in Seq(Nat) /\ Len(Truncate(file(i), off[i])) = off[i]
             /\ \A k \in 1..off[i] : Truncate(file(i), off[i])[k] = file(i)[k]
  <2>1. part'[i] = [part[i] EXCEPT ![slot[i]] = Truncate(file(i), off[i])]
    BY <1>1
  <2> HIDE DEF off, file
  <2>2. file(i) \in Seq(Nat) /\ off[i] \in 0..Len(file(i))
    BY <1>5
  <2> QED BY <2>1, <2>2, TruncateIs
<1>8. \A i \in Files : off[i] = (IF i \in receive THEN off[i] ELSE Size[i])
  OBVIOUS
<1>9. /\ answer(slot).entries = [i \in Files |->
                 [offset |-> off[i], skip |-> i \notin receive, prefix |-> part'[i][slot[i]]]]
      /\ back' = Append(back, answer(slot))
  BY <1>1
<1> HIDE DEF off, answer, receive
<1>10. ASSUME NEW i \in receive
       PROVE  /\ part'[i] \in [Slots -> Seq(Nat)] /\ Len(part'[i][slot[i]]) = off[i]
              /\ crashes = 0 => \A n \in Slots : NoHole(part'[i][n])
  <2>1. i \in Files
    BY DEF receive
  <2> DEFINE g == Truncate(file(i), off[i])
  <2>2. /\ part'[i] \in [Slots -> Seq(Nat)] /\ part'[i][slot[i]] = g
        /\ \A n \in Slots : n # slot[i] => part'[i][n] = part[i][n]
    <3>1. g \in Seq(Nat) /\ part'[i] = [part[i] EXCEPT ![slot[i]] = g]
      BY <1>7
    <3>2. part[i] \in [Slots -> Seq(Nat)] /\ slot[i] \in Slots
      BY <1>5, <2>1
    <3> HIDE DEF g
    <3> QED BY <3>1, <3>2, SlotFacts
  <2>3. crashes = 0 => NoHole(Truncate(file(i), off[i]))
    <3>1. off[i] \in Nat /\ off[i] <= Len(file(i)) /\ Len(file(i)) \in Nat
      BY <1>5, <2>1
    <3>2. \A k \in 1..off[i] : k \in 1..Len(file(i))
      BY <3>1
    <3>3. crashes = 0 => NoHole(file(i))
      BY <1>5, <2>1
    <3> QED BY <1>7, <3>2, <3>3 DEF NoHole
  <2>4. crashes = 0 => \A n \in Slots : NoHole(part'[i][n])
    BY <1>5, <2>1, <2>2, <2>3
  <2> QED BY <1>7, <2>2, <2>4
<1>11. SourceInv'
  BY <1>0, <1>2, SourceFrame
<1>12. SessionInv'
  <2>1. \A i \in Files : Mode(i) \in {"receive", "complete", "skipped"}
    BY DEF Mode
  <2>2. receive \subseteq Files
    BY DEF receive
  <2> QED BY <1>0, <1>2, <1>4, <2>1, <2>2 DEF SessionInv
<1>13. WireInv'
  <2>1. \A p \in Pipes : wire'[p] = IF p = 0 THEN Tail(wire[p]) ELSE wire[p]
    BY <1>0, <1>2 DEF Shape
  <2>2. \A p \in Pipes : /\ IsList(wire'[p])
                         /\ \A m \in Elems(wire'[p]) : m \in Elems(wire[p]) \/ Sound(m)
    BY <1>0, <1>2, <2>1, ElemsOf, ListTail DEF WireInv
  <2> QED BY <1>0, <1>2, <2>2, WireFrame DEF WireInv
<1>14. ResumeInv'
  <2>1. AtMostOne(wire[0]) /\ back = << >> /\ s.phase \in {"resume", "failed"}
    BY <1>0, <1>2 DEF HandshakeInv
  <2>2. wire'[0] = << >>
    BY <1>0, <1>2, <2>1, OneFacts DEF Shape, AtMostOne
  <2>3. Head(back') = answer(slot)
    BY <1>9, <2>1, OneFacts
  <2>4. RequestsOwn(Head(back).entries)'
    <3> SUFFICES ASSUME NEW i \in Files
                 PROVE  LET e == Head(back').entries[i] IN
                        /\ e.offset \in 0..Size[i]
                        /\ i \in receive => e.prefix = part'[i][slot[i]] /\ e.offset = Len(part'[i][slot[i]])
                        /\ e.skip <=> i \notin receive
      BY <1>4 DEF RequestsOwn
    <3>1. Head(back').entries[i] =
             [offset |-> off[i], skip |-> i \notin receive, prefix |-> part'[i][slot[i]]]
      BY <1>9, <2>3
    <3>2. /\ Head(back').entries[i].offset = off[i] /\ Head(back').entries[i].skip = (i \notin receive)
          /\ Head(back').entries[i].prefix = part'[i][slot[i]]
      BY <3>1
    <3>3. off[i] \in 0..Size[i]
      BY <1>5
    <3> QED BY <1>10, <3>2, <3>3
  <2> QED BY <1>2, <1>4, <2>1, <2>2, <2>4 DEF ResumeInv
<1>15. PartInv'
  <2>1. \A i \in Files : part'[i] \in [Slots -> Seq(Nat)]
    BY <1>5, <1>6, <1>10
  <2>2. /\ r'.ranges \in [Files -> SUBSET Positions]
        /\ \A i \in Files : r'.ranges[i] \subseteq 0..(Size[i] - 1)
    <3>1. \A i \in Files : ranges[i] \in SUBSET (0..(Size[i] - 1))
      BY <1>5
    <3>3. DOMAIN ranges = Files /\ ranges = [i \in Files |-> ranges[i]]
      OBVIOUS
    <3> HIDE DEF ranges
    <3>2. \A i \in Files : ranges[i] \in SUBSET Positions
      BY <3>1, ByPosition
    <3> QED BY <1>4, <3>1, <3>2, <3>3
  <2>3. ASSUME NEW i \in receive PROVE Filled(i)'
    <3>1. i \in Files /\ Len(part'[i][slot[i]]) = off[i] /\ off[i] \in 0..Size[i]
      BY <1>5, <1>10 DEF receive
    <3>2. r'.ranges[i] = 0..(off[i] - 1) /\ Size[i] \in Nat /\ slot[i] \in Slots
      BY <1>4, <3>1, Typing
    <3>3. crashes' = 0 => \A k \in 1..off[i] : part'[i][slot[i]][k] # Hole
      BY <1>2, <1>10, <3>1, <3>2 DEF NoHole
    <3>4. off[i] <= Size[i] /\ \A k \in 0..(off[i] - 1) : k < off[i]
      BY <3>1, <3>2
    <3> QED BY <1>4, <3>1, <3>2, <3>3, <3>4 DEF Filled
  <2>4. crashes' = 0 => \A i \in Files, n \in Slots : NoHole(part'[i][n])
    BY <1>2, <1>5, <1>6, <1>10
  <2> QED BY <1>0, <1>4, <1>6, <2>1, <2>2, <2>3, <2>4 DEF PartInv
<1> QED BY <1>11, <1>12, <1>13, <1>14, <1>15 DEF PInv

LEMMA SentAfter ==
    ASSUME NEW q, IsList(q), NEW m, NEW t, IsList(t)
    PROVE  LET z == q \o <<m>> \o t IN
           /\ IsList(z) /\ Elems(z) \subseteq Elems(q) \cup {m} \cup Elems(t)
           /\ q = << >> => z # << >> /\ Head(z) = m
<1>1. IsList(<<m>>) /\ <<m>> # << >> /\ Head(<<m>>) = m /\ Elems(<<m>>) = {m}
  BY OneIsList, OneFacts, ElemsFew DEF AtMostOne
<1>2. /\ IsList(q \o <<m>>) /\ Elems(q \o <<m>>) \subseteq Elems(q) \cup {m}
      /\ q = << >> => q \o <<m>> # << >> /\ Head(q \o <<m>>) = m
  BY <1>1, ListConcat, ElemsOf
<1> DEFINE y == q \o <<m>>
<1>3. IsList(y) /\ Elems(y) \subseteq Elems(q) \cup {m} /\ (q = << >> => y # << >> /\ Head(y) = m)
  BY <1>2
<1> HIDE DEF y
<1>4. IsList(y \o t) /\ Elems(y \o t) \subseteq Elems(y) \cup Elems(t)
      /\ (y # << >> => y \o t # << >> /\ Head(y \o t) = Head(y))
  BY <1>3, ListConcat, ElemsOf
<1> QED BY <1>3, <1>4 DEF y

\* Lifecycle messages of items are sound, and there are finitely many.
LEMMA LifecyclesSound ==
    ASSUME NEW S \in SUBSET Items, NEW T \in SUBSET Items, NEW pipes, NEW p,
           NEW q, q = OnPipe(pipes, {Lifecycle("stream_open", i) : i \in S}
                                    \cup {Lifecycle("stream_end", i) : i \in T}, p)
    PROVE  IsList(q) /\ \A m \in Elems(q) : Sound(m)
<1> DEFINE M == {Lifecycle("stream_open", i) : i \in S} \cup {Lifecycle("stream_end", i) : i \in T}
<1>1. IsFiniteSet(M)
  BY LifecyclesFinite, FS_Union
<1>2. M \in SUBSET Lifecycles
  BY DEF Lifecycles
<1>3. \A m \in Lifecycles : Sound(m)
  BY DEF Lifecycles, Lifecycle, Message, Sound
<1> HIDE DEF M
<1>4. IsList(OnPipe(pipes, M, p)) /\ Elems(OnPipe(pipes, M, p)) \subseteq M
  BY <1>1, <1>2, OnPipeIsList, OnPipeElems
<1> QED BY <1>2, <1>3, <1>4 DEF M

\* What is accepted of a part file was compared with the source.
LEMMA AcceptIsSource ==
    ASSUME IInv, PInv, NEW i \in Files, NEW entry, entry.offset \in 0..Size[i]
    PROVE  /\ AcceptOffset(i, entry) \in 0..Size[i]
           /\ edits = 0 /\ ~entry.skip =>
                \A k \in 1..AcceptOffset(i, entry) : entry.prefix[k] = source[i][k]
<1>1. Size[i] \in Nat
  BY Basics, Typing
<1>2. AcceptOffset(i, entry) \in 0..Size[i]
  BY <1>1 DEF AcceptOffset
<1>3. ASSUME edits = 0, ~entry.skip, NEW k \in 1..AcceptOffset(i, entry)
      PROVE  entry.prefix[k] = source[i][k]
  <2>1. source[i] = Original(i) /\ sources[i] = {Original(i)}
    BY <1>3 DEF PInv, SourceInv
  <2>2. source[i] \in Seq(Nat) /\ Len(source[i]) = Size[i]
    BY <1>1, <2>1 DEF Original
  <2>3. /\ AcceptOffset(i, entry) = entry.offset /\ entry.offset > 0
        /\ entry.prefix = IF entry.offset = Size[i] THEN Hashed(i)
                          ELSE Truncate(source[i], Least(entry.offset, Len(source[i])))
    BY <1>1, <1>3 DEF AcceptOffset
  <2>4. CASE entry.offset = Size[i]
    <3>1. Hashed(i) = source[i]
      BY <2>1 DEF Hashed, IInv, HashInv
    <3> QED BY <2>3, <2>4, <3>1
  <2>5. CASE entry.offset # Size[i]
    <3>1. Least(entry.offset, Len(source[i])) = entry.offset /\ entry.offset \in 0..Len(source[i])
      BY <1>1, <2>2, <2>5 DEF Least
    <3>2. \A x \in 1..entry.offset : Truncate(source[i], entry.offset)[x] = source[i][x]
      BY <2>2, <3>1, TruncateIs
    <3>3. entry.prefix = Truncate(source[i], entry.offset) /\ k \in 1..entry.offset
      BY <1>3, <2>3, <2>5, <3>1
    <3> QED BY <3>2, <3>3
  <2> QED BY <2>4, <2>5
<1> QED BY <1>2, <1>3

LEMMA AcceptSentP == ASSUME IInv, PInv, SendAccept PROVE PInv'
<1> USE Basics DEF sourceVars, fsVars, faultVars, fixedVars
<1>0. /\ Shape /\ HandshakeInv /\ SourceInv /\ SessionInv /\ WireInv /\ PartInv /\ ResumeInv
  BY DEF IInv, PInv
<1> DEFINE entries == Head(back).entries
           offset == [i \in Files |-> AcceptOffset(i, entries[i])]
           done == {i \in Files : offset[i] >= Size[i]}
           ended == done \cup (Items \ Files)
           accept == [type |-> "resume_accept",
                      entries |-> [i \in Files |->
                          [offset |-> offset[i], skip |-> entries[i].skip,
                           sha256 |-> IF entries[i].skip THEN Absent ELSE Hashed(i)]]]
           opens == {Lifecycle("stream_open", i) : i \in Items}
                        \cup {Lifecycle("stream_end", i) : i \in ended}
<1>1. /\ s.phase = "resume" /\ back # << >>
      /\ s' = [s EXCEPT !.phase = "chunks", !.offset = offset, !.done = done, !.ended = ended]
      /\ wire' = [p \in Pipes |-> wire[p] \o (IF p = 0 THEN <<accept>> ELSE << >>)
                                          \o OnPipe(s.pipes, opens, p)]
      /\ UNCHANGED <<source, edits, sources, part, r, deferred, crashes, attempt>>
  BY DEF SendAccept
<1>2. /\ r.phase \in {"accept", "failed"} /\ (r.phase = "accept" => wire[0] = << >>)
      /\ RequestsOwn(entries)
  BY <1>0, <1>1 DEF HandshakeInv, ResumeInv
<1>3. ASSUME NEW i \in Files
      PROVE  /\ offset[i] \in 0..Size[i]
             /\ edits = 0 /\ ~entries[i].skip =>
                  \A k \in 1..offset[i] : entries[i].prefix[k] = source[i][k]
  BY <1>2, AcceptIsSource DEF RequestsOwn
<1>4. /\ s'.phase = "chunks" /\ s'.offset = offset /\ s'.done = done /\ s'.ended = ended
      /\ s'.pipes = s.pipes
  BY <1>0, <1>1 DEF Shape, SenderFields
<1>5. \A i \in Files : accept.entries[i].offset = offset[i]
  OBVIOUS
<1>6. ASSUME NEW p \in Pipes
      PROVE  /\ IsList(OnPipe(s.pipes, opens, p))
             /\ \A m \in Elems(OnPipe(s.pipes, opens, p)) : Sound(m)
  <2>1. ended \in SUBSET Items
    OBVIOUS
  <2> HIDE DEF ended
  <2> QED BY <2>1, LifecyclesSound
<1>7. Sound(accept)
  BY DEF Sound
<1> HIDE DEF opens, accept
<1>8. ASSUME NEW p \in Pipes
      PROVE  /\ IsList(wire'[p]) /\ \A m \in Elems(wire'[p]) : m \in Elems(wire[p]) \/ Sound(m)
             /\ p = 0 /\ wire[p] = << >> => wire'[p] # << >> /\ Head(wire'[p]) = accept
  <2>1. IsList(wire[p])
    BY <1>0 DEF WireInv
  <2>2. CASE p = 0
    <3> DEFINE t == OnPipe(s.pipes, opens, p)
    <3>1. wire'[p] = wire[p] \o <<accept>> \o t
      BY <1>1, <2>2
    <3>2. IsList(t) /\ \A m \in Elems(t) : Sound(m)
      BY <1>6
    <3> HIDE DEF t
    <3>3. LET z == wire[p] \o <<accept>> \o t IN
          /\ IsList(z) /\ Elems(z) \subseteq Elems(wire[p]) \cup {accept} \cup Elems(t)
          /\ wire[p] = << >> => z # << >> /\ Head(z) = accept
      BY <2>1, <3>2, SentAfter, Zenon
    <3>4. /\ IsList(wire'[p]) /\ Elems(wire'[p]) \subseteq Elems(wire[p]) \cup {accept} \cup Elems(t)
          /\ wire[p] = << >> => wire'[p] # << >> /\ Head(wire'[p]) = accept
      BY <3>1, <3>3
    <3> QED BY <1>7, <3>2, <3>4
  <2>3. CASE p # 0
    <3>1. wire'[p] = wire[p] \o << >> \o OnPipe(s.pipes, opens, p)
      BY <1>1, <2>3
    <3>2. IsList(<< >>)
      BY OneIsList DEF AtMostOne
    <3>3. wire[p] \o << >> = wire[p]
      BY <2>1, <3>2, ListConcat
    <3>4. IsList(OnPipe(s.pipes, opens, p)) /\ \A m \in Elems(OnPipe(s.pipes, opens, p)) : Sound(m)
      BY <1>6
    <3>5. IsList(wire'[p]) /\ Elems(wire'[p]) \subseteq Elems(wire[p]) \cup Elems(OnPipe(s.pipes, opens, p))
      BY <2>1, <3>1, <3>3, <3>4, ListConcat, ElemsOf
    <3> QED BY <2>3, <3>4, <3>5
  <2> QED BY <2>2, <2>3
<1>9. SourceInv' /\ PartInv'
  BY <1>0, <1>1, SourceFrame, PartFrame
<1>10. SessionInv'
  <2>1. offset \in [Files -> Nat]
    BY <1>3, Typing
  <2>2. done \subseteq Files /\ ended \subseteq Items
    OBVIOUS
  <2> HIDE DEF offset, done, ended
  <2> QED BY <1>0, <1>1, <1>4, <2>1, <2>2 DEF SessionInv
<1>11. WireInv'
  BY <1>0, <1>1, <1>8, WireFrame DEF WireInv
<1>12. ResumeInv'
  <2> SUFFICES ASSUME r'.phase = "accept" PROVE AcceptsSource(Head(wire[0]).entries)'
    BY <1>4 DEF ResumeInv
  <2>1. r.phase = "accept" /\ Head(wire'[0]) = accept
    BY <1>1, <1>2, <1>8
  <2> SUFFICES ASSUME NEW i \in Files
               PROVE  /\ Head(wire'[0]).entries[i].offset \in 0..Size[i]
                      /\ edits = 0 /\ i \in r.open =>
                           \A k \in 1..Head(wire'[0]).entries[i].offset :
                               part[i][r.slot[i]][k] = source[i][k]
    BY <1>1 DEF AcceptsSource
  <2>2. Head(wire'[0]).entries[i].offset = offset[i]
    BY <1>5, <2>1
  <2>3. i \in r.open => ~entries[i].skip /\ entries[i].prefix = part[i][r.slot[i]]
    BY <1>2, <2>1 DEF RequestsOwn
  <2> HIDE DEF offset, entries
  <2> QED BY <1>3, <2>2, <2>3
<1> QED BY <1>9, <1>10, <1>11, <1>12 DEF PInv

\* What is read of a source is there.
LEMMA ReadIs ==
    ASSUME NEW q \in Content, NEW start \in Nat, NEW n \in Nat
    PROVE  LET data == SubSeq(q, start + 1, Least(start + n, Len(q))) IN
           /\ data \in Content /\ Len(data) \in Nat
           /\ \A k \in 1..Len(data) : data[k] = q[start + k]
<1> DEFINE last == Least(start + n, Len(q))
           data == SubSeq(q, start + 1, last)
<1>1. Len(q) \in Nat /\ last \in Int /\ start + 1 \in Int /\ last <= Len(q)
  BY DEF Content, Least
<1> HIDE DEF last
<1>2. \A i \in (start + 1)..last : q[i] \in Nat \ {Hole}
  BY <1>1 DEF Content
<1>3. /\ data \in Content
      /\ Len(data) = IF start + 1 <= last THEN last - (start + 1) + 1 ELSE 0
      /\ \A i \in 1..(last - (start + 1) + 1) : data[i] = q[start + 1 + i - 1]
  BY <1>1, <1>2, SubSeqProperties DEF Content
<1>4. Len(data) \in Nat
  BY <1>1, <1>3
<1> HIDE DEF data
<1>5. ASSUME NEW k \in 1..Len(data) PROVE data[k] = q[start + k]
  <2>1. k \in 1..(last - (start + 1) + 1) /\ start + 1 + k - 1 = start + k
    BY <1>1, <1>3, <1>4
  <2> QED BY <1>3, <2>1
<1> QED BY <1>3, <1>4, <1>5 DEF data, last

LEMMA ChunkSentP == ASSUME IInv, PInv, NEW i \in Files, SendChunk(i) PROVE PInv'
<1> USE Basics DEF sourceVars, fsVars, faultVars, fixedVars
<1>0. /\ Shape /\ HandshakeInv /\ SourceInv /\ SessionInv /\ WireInv /\ PartInv /\ ResumeInv
  BY DEF IInv, PInv
<1> DEFINE data(n) == SubSeq(source[i], s.offset[i] + 1, Least(s.offset[i] + n, Len(source[i])))
           offset(n) == s.offset[i] + Len(data(n))
<1>1. PICK n \in 1..MaxChunk, p \in ChunkPipes(s, i) :
         /\ s' = [s EXCEPT !.offset[i] = offset(n),
                           !.done = IF data(n) = << >> \/ offset(n) >= Size[i] THEN @ \cup {i} ELSE @]
         /\ wire' = IF data(n) = << >> THEN wire
                    ELSE [wire EXCEPT ![p] = Append(@, Chunk(i, s.offset[i], data(n)))]
  BY DEF SendChunk
<1>2. /\ s.phase = "chunks"
      /\ UNCHANGED <<source, sources, edits, part, r, back, deferred, crashes, attempt>>
  BY DEF SendChunk
<1>3. n \in Nat /\ s.offset[i] \in Nat /\ source[i] \in Content
  BY <1>0, TransferConstants DEF SessionInv, SourceInv
<1>4. /\ data(n) \in Content /\ Len(data(n)) \in Nat
      /\ \A k \in 1..Len(data(n)) : data(n)[k] = source[i][s.offset[i] + k]
  BY <1>3, ReadIs
<1> DEFINE m == Chunk(i, s.offset[i], data(n))
<1>5. data(n) # << >> => Sound(m)
  <2>1. m.type = "chunk" /\ m.item = i /\ m.offset = s.offset[i] /\ m.data = data(n)
    BY DEF Chunk
  <2> HIDE DEF m, data
  <2> QED BY <1>3, <1>4, <2>1 DEF Sound
<1>6. /\ s'.phase = s.phase /\ s'.pipes = s.pipes /\ s'.ended = s.ended
      /\ s'.offset \in [Files -> Nat] /\ s'.done \subseteq Files
  <2> HIDE DEF data
  <2>1. offset(n) \in Nat
    BY <1>3, <1>4
  <2> HIDE DEF offset
  <2>2. /\ s'.phase = s.phase /\ s'.pipes = s.pipes /\ s'.ended = s.ended
        /\ s'.offset = [s.offset EXCEPT ![i] = offset(n)]
        /\ s'.done = s.done \/ s'.done = s.done \cup {i}
    BY <1>0, <1>1 DEF Shape, SenderFields
  <2> QED BY <1>0, <2>1, <2>2 DEF SessionInv
<1> HIDE DEF m, data, offset
<1>7. ASSUME NEW x \in Pipes
      PROVE  wire'[x] = wire[x] \/ (Sound(m) /\ wire'[x] = Append(wire[x], m))
  <2>1. CASE data(n) = << >>
    BY <1>1, <2>1
  <2>2. CASE data(n) # << >>
    <3>1. wire' = [wire EXCEPT ![p] = Append(@, m)]
      BY <1>1, <2>2 DEF m
    <3> QED BY <1>0, <1>5, <2>2, <3>1 DEF Shape
  <2> QED BY <2>1, <2>2
<1>8. ASSUME NEW x \in Pipes
      PROVE  /\ IsList(wire'[x]) /\ \A y \in Elems(wire'[x]) : y \in Elems(wire[x]) \/ Sound(y)
             /\ wire[x] # << >> => wire'[x] # << >> /\ Head(wire'[x]) = Head(wire[x])
  <2>1. IsList(wire[x])
    BY <1>0 DEF WireInv
  <2>2. CASE wire'[x] = wire[x]
    BY <2>1, <2>2
  <2>3. CASE Sound(m) /\ wire'[x] = Append(wire[x], m)
    <3>1. Elems(wire'[x]) \subseteq Elems(wire[x]) \cup {m}
      BY <2>1, <2>3, ElemsOf
    <3>2. IsList(wire'[x]) /\ (wire[x] # << >> => wire'[x] # << >> /\ Head(wire'[x]) = Head(wire[x]))
      BY <2>1, <2>3, ListAppend
    <3> QED BY <2>3, <3>1, <3>2
  <2> QED BY <1>7, <2>2, <2>3
<1>9. SourceInv' /\ PartInv'
  BY <1>0, <1>2, SourceFrame, PartFrame
<1>10. SessionInv'
  BY <1>0, <1>2, <1>6 DEF SessionInv
<1>11. WireInv'
  BY <1>0, <1>2, <1>8, WireFrame DEF WireInv
<1>12. ResumeInv'
  <2>1. r.phase = "accept" => wire[0] # << >>
    BY <1>0, <1>2 DEF HandshakeInv
  <2> QED BY <1>0, <1>2, <1>6, <1>8, <2>1, ResumeFrame
<1> QED BY <1>9, <1>10, <1>11, <1>12 DEF PInv

LEMMA DoneSentP == ASSUME IInv, PInv, SendDone PROVE PInv'
<1> USE Basics DEF sourceVars, fsVars, faultVars, fixedVars
<1>0. /\ Shape /\ HandshakeInv /\ SourceInv /\ SessionInv /\ WireInv /\ PartInv /\ ResumeInv
  BY DEF IInv, PInv
<1> DEFINE ends == {Lifecycle("stream_end", i) : i \in Items \ s.ended}
           last(p) == IF p = 0 THEN <<Message("done")>> ELSE << >>
<1>1. /\ s.phase = "chunks" /\ s' = [s EXCEPT !.phase = "complete", !.ended = Items]
      /\ wire' = [p \in Pipes |-> wire[p] \o OnPipe(s.pipes, ends, p) \o last(p)]
      /\ UNCHANGED <<source, sources, edits, part, r, back, deferred, crashes, attempt>>
  BY DEF SendDone
<1>2. /\ s'.phase = "complete" /\ s'.ended = Items /\ s'.pipes = s.pipes
      /\ s'.offset = s.offset /\ s'.done = s.done
  BY <1>0, <1>1 DEF Shape, SenderFields
<1>3. ASSUME NEW p \in Pipes
      PROVE  IsList(OnPipe(s.pipes, ends, p)) /\ \A m \in Elems(OnPipe(s.pipes, ends, p)) : Sound(m)
  <2>1. ends = {Lifecycle("stream_open", i) : i \in {}} \cup {Lifecycle("stream_end", i) : i \in Items \ s.ended}
    OBVIOUS
  <2>2. {} \in SUBSET Items /\ Items \ s.ended \in SUBSET Items
    OBVIOUS
  <2> QED BY <2>1, <2>2, LifecyclesSound
<1>4. ASSUME NEW p \in Pipes PROVE IsList(last(p)) /\ \A m \in Elems(last(p)) : Sound(m)
  <2>1. Sound(Message("done"))
    BY DEF Sound, Message
  <2>2. IsList(<< >>) /\ IsList(<<Message("done")>>)
    BY OneIsList DEF AtMostOne
  <2> QED BY <2>1, <2>2, ElemsFew
<1> HIDE DEF ends, last
<1>5. ASSUME NEW p \in Pipes
      PROVE  /\ IsList(wire'[p]) /\ \A m \in Elems(wire'[p]) : m \in Elems(wire[p]) \/ Sound(m)
             /\ wire[p] # << >> => wire'[p] # << >> /\ Head(wire'[p]) = Head(wire[p])
  <2> DEFINE y == wire[p] \o OnPipe(s.pipes, ends, p)
  <2>1. IsList(wire[p]) /\ wire'[p] = y \o last(p)
    BY <1>0, <1>1 DEF WireInv
  <2>2. /\ IsList(y) /\ \A m \in Elems(y) : m \in Elems(wire[p]) \/ Sound(m)
        /\ wire[p] # << >> => y # << >> /\ Head(y) = Head(wire[p])
    <3>1. /\ IsList(OnPipe(s.pipes, ends, p))
          /\ \A m \in Elems(OnPipe(s.pipes, ends, p)) : Sound(m)
      BY <1>3
    <3>2. Elems(y) \subseteq Elems(wire[p]) \cup Elems(OnPipe(s.pipes, ends, p))
      BY <2>1, <3>1, ElemsOf
    <3>3. IsList(y) /\ (wire[p] # << >> => y # << >> /\ Head(y) = Head(wire[p]))
      BY <2>1, <3>1, ListConcat
    <3> QED BY <3>1, <3>2, <3>3
  <2> HIDE DEF y
  <2>3. /\ IsList(y \o last(p)) /\ Elems(y \o last(p)) \subseteq Elems(y) \cup Elems(last(p))
        /\ y # << >> => y \o last(p) # << >> /\ Head(y \o last(p)) = Head(y)
    BY <1>4, <2>2, ListConcat, ElemsOf
  <2> QED BY <1>4, <2>1, <2>2, <2>3
<1>6. SourceInv' /\ PartInv'
  BY <1>0, <1>1, SourceFrame, PartFrame
<1>7. SessionInv'
  BY <1>0, <1>1, <1>2 DEF SessionInv
<1>8. WireInv'
  BY <1>0, <1>1, <1>5, WireFrame DEF WireInv
<1>9. ResumeInv'
  <2>1. r.phase = "accept" => wire[0] # << >>
    BY <1>0, <1>1 DEF HandshakeInv
  <2> QED BY <1>0, <1>1, <1>2, <1>5, <2>1, ResumeFrame
<1> QED BY <1>6, <1>7, <1>8, <1>9 DEF PInv

LEMMA CompleteReceivedP == ASSUME IInv, PInv, WaitComplete PROVE PInv'
<1> USE DEF WaitComplete, sourceVars, fsVars, faultVars, fixedVars
<1>0. /\ Shape /\ HandshakeInv /\ SourceInv /\ SessionInv /\ WireInv /\ PartInv
  BY DEF IInv, PInv
<1>1. /\ s'.phase = "success" /\ r.phase = "success" /\ s'.pipes = s.pipes
      /\ s'.offset = s.offset /\ s'.done = s.done /\ s'.ended = s.ended
  BY <1>0 DEF Shape, SenderFields, HandshakeInv
<1> QED BY <1>0, <1>1, SourceFrame, SenderFrame, WireStays, PartFrame, ResumeOver DEF PInv

LEMMA DeferringP == ASSUME IInv, PInv, NEW p \in Pipes, Defer(p) PROVE PInv'
<1> USE Basics DEF Defer, sourceVars, fsVars, faultVars, fixedVars
<1>0. /\ Shape /\ SourceInv /\ SessionInv /\ WireInv /\ PartInv /\ ResumeInv
  BY DEF IInv, PInv
<1>1. \A x \in Pipes : wire'[x] = IF x = p THEN Tail(wire[x]) ELSE wire[x]
  BY <1>0 DEF Shape
<1>2. \A x \in Pipes : /\ IsList(wire'[x])
                       /\ \A m \in Elems(wire'[x]) : m \in Elems(wire[x]) \/ Sound(m)
  BY <1>0, <1>1, ElemsOf, ListTail DEF WireInv
<1> DEFINE e == [pipe |-> p, message |-> Head(wire[p])]
<1>3. Sound(e.message)
  <2>1. IsList(wire[p]) /\ wire[p] # << >>
    BY <1>0 DEF WireInv
  <2>2. Head(wire[p]) \in Elems(wire[p])
    BY <2>1, ElemsOf
  <2> QED BY <1>0, <2>2 DEF WireInv
<1>4. deferred' = Append(deferred, e)
  OBVIOUS
<1> HIDE DEF e
<1>5. IsList(deferred') /\ \A x \in Elems(deferred') : x \in Elems(deferred) \/ Sound(x.message)
  <2>1. IsList(deferred)
    BY <1>0 DEF WireInv
  <2>2. Elems(deferred') \subseteq Elems(deferred) \cup {e}
    BY <1>4, <2>1, ElemsOf
  <2> QED BY <1>3, <1>4, <2>1, <2>2, ListAppend
<1>6. WireInv'
  BY <1>0, <1>2, <1>5, WireFrame
<1>7. ResumeInv'
  BY <1>0, <1>1, ResumeFrame
<1> QED BY <1>0, <1>6, <1>7, SourceFrame, SenderFrame, PartFrame DEF PInv

\* A store that is closed by an error or by a lost connection.
LEMMA ClosesP ==
    ASSUME IInv, PInv, UNCHANGED <<source, sources, edits, crashes, attempt, s>>,
           r'.phase \in {"failed", "error"}, r'.open = {},
           r'.pipes = r.pipes, r'.opened = r.opened, r'.ended = r.ended, r'.mode = r.mode,
           r'.ranges = r.ranges, r'.coverage = r.coverage, part' = Closed
    PROVE  SourceInv' /\ SessionInv' /\ PartInv'
<1>0. /\ SourceInv /\ SessionInv /\ PartInv
  BY DEF PInv
<1>1. PartInv'
  BY <1>0, ClosedIs, PartCloses
<1> QED BY <1>0, <1>1, SourceFrame, SessionEnds

LEMMA AcceptReceivedP == ASSUME IInv, PInv, RecvAccept PROVE PInv'
<1> USE Basics DEF sourceVars, fsVars, faultVars, fixedVars
<1>0. /\ Shape /\ HandshakeInv /\ SourceInv /\ SessionInv /\ WireInv /\ PartInv /\ ResumeInv
  BY DEF IInv, PInv
<1> DEFINE entries == Head(wire[0]).entries
           accepted == [i \in Files |-> 0..(entries[i].offset - 1)]
<1>1. /\ r.phase = "accept" /\ wire[0] # << >> /\ wire' = [wire EXCEPT ![0] = Tail(@)]
      /\ UNCHANGED <<source, sources, edits, s, deferred, crashes, attempt>>
  BY DEF RecvAccept
<1>2. WireInv'
  <2>1. \A p \in Pipes : wire'[p] = IF p = 0 THEN Tail(wire[p]) ELSE wire[p]
    BY <1>0, <1>1 DEF Shape
  <2>2. \A p \in Pipes : /\ IsList(wire'[p])
                         /\ \A m \in Elems(wire'[p]) : m \in Elems(wire[p]) \/ Sound(m)
    BY <1>0, <1>1, <2>1, ElemsOf, ListTail DEF WireInv
  <2> QED BY <1>0, <1>1, <2>2, WireFrame DEF WireInv
<1>3. s.phase \in {"chunks", "complete", "failed"} /\ AcceptsSource(entries)
  BY <1>0, <1>1 DEF HandshakeInv, ResumeInv
<1>4. CASE AcceptValid(entries)
  <2>1. /\ r' = [r EXCEPT !.phase = "chunks", !.ranges = accepted,
                    !.coverage = [i \in Items |-> IF i \in Files THEN accepted[i] ELSE @[i]],
                    !.declared = [i \in Files |-> entries[i].sha256]]
        /\ part' = [i \in Files |-> IF i \in r.open
               THEN [part[i] EXCEPT ![r.slot[i]] = Truncate(@, entries[i].offset)] ELSE part[i]]
    BY <1>4 DEF RecvAccept
  <2>2. /\ r'.phase = "chunks" /\ r'.ranges = accepted /\ r'.open = r.open /\ r'.slot = r.slot
        /\ r'.coverage = [i \in Items |-> IF i \in Files THEN accepted[i] ELSE r.coverage[i]]
        /\ r'.pipes = r.pipes /\ r'.opened = r.opened /\ r'.ended = r.ended /\ r'.mode = r.mode
    BY <1>0, <2>1 DEF Shape, ReceiverFields
  <2>3. ASSUME NEW i \in Files
        PROVE  /\ Size[i] \in Nat /\ entries[i].offset \in 0..Size[i] /\ r.slot[i] \in Slots
               /\ accepted[i] \in SUBSET (0..(Size[i] - 1)) /\ accepted[i] = 0..(entries[i].offset - 1)
               /\ part[i] \in [Slots -> Seq(Nat)]
    <3>1. Size[i] \in Nat /\ entries[i].offset \in 0..Size[i]
      BY <1>3, Typing DEF AcceptsSource
    <3>2. accepted[i] = 0..(entries[i].offset - 1) /\ accepted[i] \in SUBSET (0..(Size[i] - 1))
      BY <3>1
    <3> QED BY <1>0, <3>1, <3>2 DEF Shape, PartInv
  <2> DEFINE file(i) == part[i][r.slot[i]]
             cut(i) == Truncate(file(i), entries[i].offset)
  <2>4. ASSUME NEW i \in r.open
        PROVE  /\ i \in Files /\ entries[i].offset \in 0..Len(file(i))
               /\ part'[i] = [part[i] EXCEPT ![r.slot[i]] = cut(i)]
               /\ cut(i) \in Seq(Nat) /\ Len(cut(i)) = entries[i].offset
               /\ \A k \in 1..entries[i].offset : cut(i)[k] = file(i)[k]
               /\ crashes = 0 => NoHole(cut(i))
               /\ edits = 0 => \A k \in 1..entries[i].offset : cut(i)[k] = source[i][k]
    <3>1. i \in Files /\ Filled(i)
      BY <1>0 DEF SessionInv, PartInv
    <3>2. file(i) \in Seq(Nat) /\ Len(file(i)) \in Nat
      BY <2>3, <3>1, SlotFacts
    <3>3. r.ranges[i] = 0..(Len(file(i)) - 1)
      BY <1>1, <3>1 DEF Filled
    <3>4. entries[i].offset <= Len(file(i))
      BY <1>4, <3>1, <3>2, <3>3, PrefixInterval DEF AcceptValid
    <3>5. entries[i].offset \in 0..Len(file(i)) /\ entries[i].offset \in Nat
      BY <2>3, <3>1, <3>2, <3>4
    <3>6. part'[i] = [part[i] EXCEPT ![r.slot[i]] = cut(i)]
      BY <2>1, <3>1
    <3>7. /\ cut(i) \in Seq(Nat) /\ Len(cut(i)) = entries[i].offset
          /\ \A k \in 1..entries[i].offset : cut(i)[k] = file(i)[k]
      BY <3>2, <3>5, TruncateIs
    <3>8. crashes = 0 => \A k \in 1..Len(file(i)) : file(i)[k] # Hole
      <4>1. \A k \in 1..Len(file(i)) : k - 1 \in r.ranges[i]
        BY <3>2, <3>3
      <4> QED BY <3>1, <4>1 DEF Filled
    <3>9. \A k \in 1..entries[i].offset : k \in 1..Len(file(i))
      BY <3>2, <3>5
    <3>10. crashes = 0 => NoHole(cut(i))
      BY <3>7, <3>8, <3>9 DEF NoHole
    <3>11. edits = 0 => \A k \in 1..entries[i].offset : cut(i)[k] = source[i][k]
      BY <1>3, <3>1, <3>7 DEF AcceptsSource
    <3> QED BY <3>1, <3>5, <3>6, <3>7, <3>10, <3>11
  <2>5. DOMAIN part' = Files /\ \A i \in Files : i \notin r.open => part'[i] = part[i]
    BY <2>1
  <2> HIDE DEF entries, accepted, cut
  <2>6. SessionInv'
    BY <1>0, <1>1, <2>2 DEF SessionInv
  <2>7. PartInv'
    <3>0. ASSUME NEW i \in r.open
          PROVE  /\ part'[i] \in [Slots -> Seq(Nat)] /\ part'[i][r.slot[i]] = cut(i)
                 /\ \A x \in Slots : x # r.slot[i] => part'[i][x] = part[i][x]
      <4>1. i \in Files /\ cut(i) \in Seq(Nat) /\ part'[i] = [part[i] EXCEPT ![r.slot[i]] = cut(i)]
        BY <2>4
      <4>2. part[i] \in [Slots -> Seq(Nat)] /\ r.slot[i] \in Slots
        BY <2>3, <4>1
      <4> QED BY <4>1, <4>2, SlotFacts
    <3>1. \A i \in Files : part'[i] \in [Slots -> Seq(Nat)]
      BY <2>3, <2>5, <3>0
    <3>2. /\ r'.ranges \in [Files -> SUBSET Positions]
          /\ \A i \in Files : r'.ranges[i] \subseteq 0..(Size[i] - 1)
      <4>1. DOMAIN accepted = Files /\ accepted = [i \in Files |-> accepted[i]]
        BY DEF accepted
      <4>2. \A i \in Files : accepted[i] \in SUBSET Positions
        BY <2>3, ByPosition
      <4> QED BY <2>2, <2>3, <4>1, <4>2
    <3>3. /\ r'.coverage \in [Items -> SUBSET Positions]
          /\ \A i \in Items : r'.coverage[i] \subseteq 0..(Size[i] - 1)
          /\ \A i \in Files : r'.coverage[i] = r'.ranges[i]
      <4>1. \A i \in Items : /\ r.coverage[i] \in SUBSET Positions
                             /\ r.coverage[i] \subseteq 0..(Size[i] - 1)
        BY <1>0 DEF PartInv
      <4> QED BY <2>2, <3>2, <4>1
    <3>4. ASSUME NEW i \in r.open PROVE Filled(i)'
      <4>1. /\ part'[i][r.slot[i]] = cut(i) /\ r'.ranges[i] = 0..(entries[i].offset - 1)
            /\ entries[i].offset \in Nat /\ entries[i].offset <= Size[i]
        <5>1. i \in Files
          BY <2>4
        <5>2. Size[i] \in Nat /\ entries[i].offset \in 0..Size[i] /\ accepted[i] = 0..(entries[i].offset - 1)
          BY <2>3, <5>1
        <5> QED BY <2>2, <3>0, <5>2
      <4>2. /\ Len(cut(i)) <= Size[i] /\ \A k \in r'.ranges[i] : k < Len(cut(i))
        <5>1. Len(cut(i)) = entries[i].offset
          BY <2>4
        <5> QED BY <4>1, <5>1
      <4>3. crashes' = 0 => \A k \in 1..Len(cut(i)) : cut(i)[k] # Hole
        BY <1>1, <2>4 DEF NoHole
      <4>4. edits' = 0 => \A k \in r'.ranges[i] : cut(i)[k + 1] = source'[i][k + 1]
        <5>1. \A k \in r'.ranges[i] : k + 1 \in 1..entries[i].offset
          BY <4>1
        <5> QED BY <1>1, <2>4, <5>1
      <4> QED BY <2>2, <4>1, <4>2, <4>3, <4>4 DEF Filled
    <3>5. ASSUME crashes' = 0, NEW i \in Files, NEW n \in Slots
          PROVE  (i \in r'.open /\ n = r'.slot[i]) \/ NoHole(part'[i][n])
      <4>1. (i \in r.open /\ n = r.slot[i]) \/ NoHole(part[i][n])
        BY <1>0, <1>1, <3>5 DEF PartInv
      <4>2. n # r.slot[i] => part'[i][n] = part[i][n]
        BY <2>5, <3>0
      <4> QED BY <2>2, <2>5, <4>1, <4>2
    <3> QED BY <2>2, <2>5, <3>1, <3>2, <3>3, <3>4, <3>5 DEF PartInv
  <2> QED BY <1>0, <1>1, <1>2, <1>3, <2>2, <2>6, <2>7, SourceFrame, ResumeOver DEF PInv
<1>5. CASE ~AcceptValid(entries)
  <2>1. /\ r' = [r EXCEPT !.phase = "error", !.open = {}] /\ part' = Closed
    BY <1>5 DEF RecvAccept, Refuse
  <2>2. /\ r'.phase = "error" /\ r'.open = {} /\ r'.ranges = r.ranges /\ r'.coverage = r.coverage
        /\ r'.pipes = r.pipes /\ r'.opened = r.opened /\ r'.ended = r.ended /\ r'.mode = r.mode
    BY <1>0, <2>1 DEF Shape, ReceiverFields
  <2> QED BY <1>1, <1>2, <1>3, <2>1, <2>2, ClosesP, ResumeOver DEF PInv
<1> QED BY <1>4, <1>5

\* What arrives is sound, and nothing else changes on the way.
LEMMA ArrivesSound ==
    ASSUME IInv, PInv, NEW p \in Pipes, NEW m, Arrives(p, m), UNCHANGED <<source, edits>>
    PROVE  WireInv' /\ Sound(m) /\ r.phase = "chunks" /\ s.phase \notin {"ack", "resume"}
<1>0. Shape /\ HandshakeInv /\ WireInv
  BY DEF IInv, PInv
<1>1. r.phase = "chunks" /\ s.phase \notin {"ack", "resume"}
  BY <1>0 DEF Arrives, HandshakeInv
<1>2. CASE deferred # << >>
  <2>1. [pipe |-> p, message |-> m] = Head(deferred) /\ deferred' = Tail(deferred) /\ wire' = wire
    BY <1>2 DEF Arrives
  <2>2. /\ Head(deferred) \in Elems(deferred) /\ Elems(Tail(deferred)) \subseteq Elems(deferred)
        /\ IsList(Tail(deferred))
    BY <1>0, <1>2, ElemsOf, ListTail DEF WireInv
  <2>3. Sound(Head(deferred).message)
    BY <1>0, <2>2 DEF WireInv
  <2>4. Head(deferred).message = m
    BY <2>1
  <2>5. WireInv'
    BY <1>0, <2>1, <2>2, WireFrame DEF WireInv
  <2> QED BY <1>1, <2>3, <2>4, <2>5
<1>3. CASE deferred = << >>
  <2>1. /\ wire[p] # << >> /\ m = Head(wire[p])
        /\ wire' = [wire EXCEPT ![p] = Tail(@)] /\ deferred' = deferred
    BY <1>3 DEF Arrives
  <2>2. m \in Elems(wire[p])
    BY <1>0, <2>1, ElemsOf DEF WireInv
  <2>3. Sound(m)
    BY <1>0, <2>2 DEF WireInv
  <2>4. \A x \in Pipes : wire'[x] = IF x = p THEN Tail(wire[x]) ELSE wire[x]
    BY <1>0, <2>1 DEF Shape
  <2>5. \A x \in Pipes : /\ IsList(wire'[x])
                         /\ \A y \in Elems(wire'[x]) : y \in Elems(wire[x]) \/ Sound(y)
    BY <1>0, <2>1, <2>4, ElemsOf, ListTail DEF WireInv
  <2>6. WireInv'
    BY <1>0, <2>1, <2>5, WireFrame DEF WireInv
  <2> QED BY <1>1, <2>3, <2>6
<1> QED BY <1>2, <1>3

LEMMA Extended ==
    ASSUME NEW S, NEW T, NEW F \in [S -> T], NEW i \in S, NEW X,
           NEW G, G = [F EXCEPT ![i] = @ \cup X]
    PROVE  /\ G[i] = F[i] \cup X /\ \A j \in S : j # i => G[j] = F[j]
           /\ DOMAIN G = S /\ G = [j \in S |-> G[j]]
OBVIOUS

\* A chunk that is taken fills the part file at its offset.
LEMMA ChunkTaken ==
    ASSUME IInv, PInv, NEW p \in Pipes, NEW m, Sound(m), m.type = "chunk",
           r.phase = "chunks", ChunkValid(p, m), UNCHANGED <<source, edits, crashes>>,
           r'.phase = r.phase, r'.open = r.open, r'.slot = r.slot, r'.striping = r.striping,
           r'.coverage = [r.coverage EXCEPT ![m.item] = @ \cup Span(m.offset, m.data)],
           r'.ranges = [r.ranges EXCEPT ![m.item] = @ \cup Span(m.offset, m.data)],
           part' = [part EXCEPT ![m.item][r.slot[m.item]] = WriteAt(@, m.offset, m.data)]
    PROVE  PartInv'
<1> USE Basics
<1>0. Shape /\ StoreInv /\ SessionInv /\ PartInv
  BY DEF IInv, PInv
<1> DEFINE i == m.item
           span == Span(m.offset, m.data)
           n == r.slot[i]
           file == part[i][n]
           grown == WriteAt(file, m.offset, m.data)
           end == m.offset + Len(m.data)
<1>1. /\ i \in Files /\ m.offset \in Nat /\ m.data \in Content /\ Len(m.data) \in Nat
      /\ edits = 0 => \A k \in 1..Len(m.data) : m.data[k] = source[i][m.offset + k]
  BY DEF Sound, Content
<1>2. /\ end <= Size[i] /\ span \cap r.ranges[i] = {} /\ r.mode[i] = "receive"
      /\ r.striping \/ m.offset = Prefix(r.ranges[i])
  BY DEF ChunkValid
<1>3. i \in r.open /\ Filled(i) /\ n \in Slots /\ Size[i] \in Nat
  BY <1>0, <1>1, <1>2, Typing DEF StoreInv, Receiving, PartInv, Shape
<1>4. /\ file \in Seq(Nat) /\ Len(file) \in Nat /\ part[i] \in [Slots -> Seq(Nat)]
      /\ r.ranges[i] \in SUBSET (0..(Size[i] - 1)) /\ r.coverage[i] = r.ranges[i]
  BY <1>0, <1>1, <1>3 DEF PartInv
<1>5. span = m.offset..(end - 1) /\ span \in SUBSET (0..(Size[i] - 1))
  BY <1>1, <1>2, <1>3 DEF Span
<1>6. /\ r'.phase = r.phase /\ r'.open = r.open /\ r'.slot = r.slot /\ r'.striping = r.striping
      /\ r'.ranges = [r.ranges EXCEPT ![i] = @ \cup span]
      /\ r'.coverage = [r.coverage EXCEPT ![i] = @ \cup span]
  OBVIOUS
<1>7. part' = [part EXCEPT ![i] = [part[i] EXCEPT ![n] = grown]]
  BY <1>0, <1>1, <1>3 DEF PartInv
<1>8. /\ grown \in Seq(Nat) /\ Len(grown) \in {Len(file), end} /\ Len(file) <= Len(grown) /\ end <= Len(grown)
      /\ \A k \in 1..Len(grown) :
           /\ k > m.offset /\ k <= end => grown[k] = m.data[k - m.offset] /\ grown[k] # Hole
           /\ (k <= m.offset \/ k > end) /\ k <= Len(file) => grown[k] = file[k]
           /\ (k <= m.offset \/ k > end) /\ k > Len(file) => grown[k] = Hole
  BY <1>1, <1>4, WriteAtIs
<1> HIDE DEF i, span, n, file, grown, end
<1>9. end \in Nat /\ end = m.offset + Len(m.data) /\ Len(grown) \in Nat
  BY <1>1, <1>4, <1>8 DEF end
<1>10. /\ DOMAIN part' = Files /\ part'[i] = [part[i] EXCEPT ![n] = grown]
       /\ \A j \in Files : j # i => part'[j] = part[j]
       /\ part'[i][n] = grown /\ \A x \in Slots : x # n => part'[i][x] = part[i][x]
       /\ \A j \in Files : part'[j] \in [Slots -> Seq(Nat)]
  <2>1. DOMAIN part = Files /\ \A j \in Files : part[j] \in [Slots -> Seq(Nat)]
    BY <1>0 DEF PartInv
  <2>2. /\ DOMAIN part' = Files /\ part'[i] = [part[i] EXCEPT ![n] = grown]
        /\ \A j \in Files : j # i => part'[j] = part[j]
    BY <1>1, <1>7, <2>1
  <2>3. part'[i] \in [Slots -> Seq(Nat)] /\ part'[i][n] = grown /\ \A x \in Slots : x # n => part'[i][x] = part[i][x]
    <3>1. n \in Slots /\ part[i] \in [Slots -> Seq(Nat)] /\ grown \in Seq(Nat)
      BY <1>3, <1>4, <1>8
    <3> DEFINE f == part[i]
    <3>2. n \in Slots /\ f \in [Slots -> Seq(Nat)] /\ grown \in Seq(Nat) /\ part'[i] = [f EXCEPT ![n] = grown]
      BY <2>2, <3>1
    <3>3. f = part[i]
      OBVIOUS
    <3> HIDE DEF f
    <3>4. /\ [f EXCEPT ![n] = grown] \in [Slots -> Seq(Nat)] /\ [f EXCEPT ![n] = grown][n] = grown
          /\ \A x \in Slots : x # n => [f EXCEPT ![n] = grown][x] = f[x]
      BY <3>2, SlotFacts
    <3> QED BY <3>2, <3>3, <3>4
  <2> QED BY <2>1, <2>2, <2>3
<1>11. /\ r'.ranges[i] = r.ranges[i] \cup span /\ r'.coverage[i] = r.coverage[i] \cup span
       /\ \A j \in Files : j # i => r'.ranges[j] = r.ranges[j]
       /\ \A j \in Items : j # i => r'.coverage[j] = r.coverage[j]
       /\ DOMAIN r'.ranges = Files /\ r'.ranges = [j \in Files |-> r'.ranges[j]]
       /\ DOMAIN r'.coverage = Items /\ r'.coverage = [j \in Items |-> r'.coverage[j]]
  <2>1. r.ranges \in [Files -> SUBSET Positions] /\ r.coverage \in [Items -> SUBSET Positions] /\ i \in Items
    BY <1>0, <1>1 DEF PartInv
  <2>2. r'.ranges = [r.ranges EXCEPT ![i] = @ \cup span] /\ r'.coverage = [r.coverage EXCEPT ![i] = @ \cup span]
    BY <1>6
  <2>3. /\ r'.ranges[i] = r.ranges[i] \cup span /\ \A j \in Files : j # i => r'.ranges[j] = r.ranges[j]
        /\ DOMAIN r'.ranges = Files /\ r'.ranges = [j \in Files |-> r'.ranges[j]]
    BY <1>1, <2>1, <2>2, Extended
  <2>4. /\ r'.coverage[i] = r.coverage[i] \cup span /\ \A j \in Items : j # i => r'.coverage[j] = r.coverage[j]
        /\ DOMAIN r'.coverage = Items /\ r'.coverage = [j \in Items |-> r'.coverage[j]]
    BY <2>1, <2>2, Extended
  <2> QED BY <2>3, <2>4
<1>12. \A j \in Files : r'.ranges[j] \in SUBSET (0..(Size[j] - 1))
  BY <1>0, <1>4, <1>5, <1>11 DEF PartInv
<1>13. \A j \in Items : r'.coverage[j] \in SUBSET (0..(Size[j] - 1))
  BY <1>0, <1>4, <1>5, <1>11 DEF PartInv
<1>14. r'.ranges \in [Files -> SUBSET Positions] /\ r'.coverage \in [Items -> SUBSET Positions]
  <2>1. \A j \in Files : r'.ranges[j] \in SUBSET Positions
    BY <1>12, ByPosition
  <2>2. \A j \in Items : r'.coverage[j] \in SUBSET Positions
    BY <1>13, ByPosition
  <2> QED BY <1>11, <2>1, <2>2
<1>15. \A j \in Files : r'.coverage[j] = r'.ranges[j]
  <2> SUFFICES ASSUME NEW j \in Files PROVE r'.coverage[j] = r'.ranges[j]
    OBVIOUS
  <2>1. r.coverage[j] = r.ranges[j] /\ j \in Items
    BY <1>0 DEF PartInv
  <2>2. CASE j = i
    BY <1>11, <2>1, <2>2
  <2>3. CASE j # i
    BY <1>11, <2>1, <2>3
  <2> QED BY <2>2, <2>3
\* In order, a chunk never leaves a gap.
<1>16. ~r.striping => m.offset <= Len(file)
  <2>1. CASE r.striping
    BY <2>1
  <2>2. CASE ~r.striping
    <3>1. m.offset = Prefix(r.ranges[i]) /\ 0..(m.offset - 1) \subseteq r.ranges[i]
      BY <1>2, <1>3, <1>4, <2>2, PrefixIs
    <3>2. \A k \in r.ranges[i] : k < Len(file)
      BY <1>3 DEF Filled, file, n
    <3>3. m.offset > 0 => m.offset - 1 < Len(file)
      BY <1>1, <3>1, <3>2
    <3> QED BY <1>1, <1>4, <3>3
  <2> QED BY <2>1, <2>2
<1>17. Filled(i)'
  <2>1. /\ part'[i][r'.slot[i]] = grown /\ r'.ranges[i] = r.ranges[i] \cup span
        /\ r'.striping = r.striping /\ r'.phase = "chunks"
    BY <1>6, <1>10, <1>11 DEF n
  <2>2. /\ Len(file) <= Size[i] /\ \A k \in r.ranges[i] : k < Len(file)
        /\ crashes = 0 => \A k \in 1..Len(file) : file[k] = Hole => r.striping /\ k - 1 \notin r.ranges[i]
        /\ edits = 0 => \A k \in r.ranges[i] : file[k + 1] = source[i][k + 1]
    BY <1>3 DEF Filled, file, n
  <2>3. Len(grown) <= Size[i]
    BY <1>2, <1>8, <2>2
  <2>4. \A k \in r.ranges[i] \cup span : k < Len(grown)
    BY <1>3, <1>4, <1>5, <1>8, <1>9, <2>2
  <2>5. ASSUME crashes = 0, NEW k \in 1..Len(grown), grown[k] = Hole
        PROVE  r.striping /\ k - 1 \notin r.ranges[i] \cup span
    <3>1. k <= m.offset \/ k > end
      <4>1. k > m.offset /\ k <= end => grown[k] # Hole
        BY <1>8
      <4>2. k \in Int /\ m.offset \in Int /\ end \in Int
        BY <1>1, <1>9
      <4> QED BY <2>5, <4>1, <4>2
    <3>2. k - 1 \notin span
      BY <1>1, <1>5, <1>9, <3>1
    <3>3. CASE k <= Len(file)
      <4>1. file[k] = Hole /\ k \in 1..Len(file)
        BY <1>4, <1>8, <1>9, <2>5, <3>1, <3>3
      <4> QED BY <2>2, <2>5, <3>2, <4>1
    <3>4. CASE k > Len(file)
      <4>1. k <= m.offset
        BY <1>1, <1>4, <1>8, <1>9, <3>1, <3>4
      <4>2. r.striping
        BY <1>1, <1>4, <1>9, <1>16, <3>4, <4>1
      <4>3. k - 1 \notin r.ranges[i]
        BY <1>4, <1>9, <2>2, <3>4
      <4> QED BY <3>2, <4>2, <4>3
    <3> QED BY <1>4, <1>9, <3>3, <3>4
  <2>6. ASSUME edits = 0, NEW k \in r.ranges[i] \cup span PROVE grown[k + 1] = source[i][k + 1]
    <3>1. k \in Nat /\ k + 1 \in 1..Len(grown)
      BY <1>3, <1>4, <1>5, <1>9, <2>4
    <3>2. CASE k \in span
      <4>1. k + 1 > m.offset /\ k + 1 <= end /\ (k + 1) - m.offset \in 1..Len(m.data)
            /\ m.offset + ((k + 1) - m.offset) = k + 1
        BY <1>1, <1>5, <1>9, <3>1, <3>2
      <4>2. grown[k + 1] = m.data[(k + 1) - m.offset]
        BY <1>8, <3>1, <4>1
      <4>3. m.data[(k + 1) - m.offset] = source[i][m.offset + ((k + 1) - m.offset)]
        BY <1>1, <2>6, <4>1
      <4> QED BY <4>1, <4>2, <4>3
    <3>3. CASE k \notin span
      <4>1. k \in r.ranges[i] /\ k < Len(file)
        BY <2>2, <3>3
      <4>2. (k + 1 <= m.offset \/ k + 1 > end) /\ k + 1 <= Len(file)
        BY <1>1, <1>4, <1>5, <1>9, <3>1, <3>3, <4>1
      <4>3. grown[k + 1] = file[k + 1]
        BY <1>8, <3>1, <4>2
      <4> QED BY <2>2, <2>6, <4>1, <4>3
    <3> QED BY <3>2, <3>3
  <2> QED BY <2>1, <2>3, <2>4, <2>5, <2>6 DEF Filled
<1>18. ASSUME NEW j \in r'.open PROVE Filled(j)'
  <2>1. CASE j = i
    BY <1>17, <2>1
  <2>2. CASE j # i
    <3>1. j \in Files /\ j \in r.open /\ Filled(j)
      BY <1>0, <1>6 DEF SessionInv, PartInv
    <3>2. part'[j] = part[j] /\ r'.ranges[j] = r.ranges[j] /\ r'.slot[j] = r.slot[j]
      BY <1>6, <1>10, <1>11, <2>2, <3>1
    <3>3. crashes' = crashes /\ edits' = edits /\ source' = source /\ r'.phase = "chunks" /\ r'.striping = r.striping
      BY <1>6
    <3> QED BY <3>1, <3>2, <3>3 DEF Filled
  <2> QED BY <2>1, <2>2
<1>19. ASSUME crashes' = 0, NEW j \in Files, NEW x \in Slots
       PROVE  (j \in r'.open /\ x = r'.slot[j]) \/ NoHole(part'[j][x])
  <2>1. (j \in r.open /\ x = r.slot[j]) \/ NoHole(part[j][x])
    BY <1>0, <1>19 DEF PartInv
  <2>2. (j = i /\ x = n) \/ part'[j][x] = part[j][x]
    BY <1>10
  <2> QED BY <1>3, <1>6, <2>1, <2>2 DEF n
<1> QED BY <1>6, <1>10, <1>12, <1>13, <1>14, <1>15, <1>18, <1>19 DEF PartInv

LEMMA ArrivingP ==
    ASSUME IInv, PInv, NEW p \in Pipes, NEW m, RecvChunk(p, m) \/ RecvLifecycle(p, m)
    PROVE  PInv'
<1> USE DEF sourceVars, fsVars, faultVars, fixedVars
<1>0. /\ Shape /\ SourceInv /\ SessionInv /\ PartInv
  BY DEF IInv, PInv
<1>1. Arrives(p, m) /\ UNCHANGED <<source, sources, edits, s, crashes, attempt>>
  BY DEF RecvChunk, RecvLifecycle
<1>2. WireInv' /\ Sound(m) /\ r.phase = "chunks" /\ s.phase \notin {"ack", "resume"}
  BY <1>1, ArrivesSound
<1>3. CASE Refuse
  <2>1. /\ r'.phase = "error" /\ r'.open = {} /\ r'.ranges = r.ranges /\ r'.coverage = r.coverage
        /\ r'.pipes = r.pipes /\ r'.opened = r.opened /\ r'.ended = r.ended /\ r'.mode = r.mode
        /\ part' = Closed
    BY <1>0, <1>3 DEF Refuse, Shape, ReceiverFields
  <2> QED BY <1>1, <1>2, <2>1, ClosesP, ResumeOver DEF PInv
<1>4. CASE RecvChunk(p, m) /\ ~Refuse
  <2>1. /\ m.type = "chunk" /\ ChunkValid(p, m)
        /\ r' = [r EXCEPT !.coverage[m.item] = @ \cup Span(m.offset, m.data),
                          !.ranges[m.item] = @ \cup Span(m.offset, m.data)]
        /\ part' = [part EXCEPT ![m.item][r.slot[m.item]] = WriteAt(@, m.offset, m.data)]
    BY <1>4 DEF RecvChunk
  <2>2. /\ r'.phase = r.phase /\ r'.open = r.open /\ r'.pipes = r.pipes
        /\ r'.opened = r.opened /\ r'.ended = r.ended /\ r'.mode = r.mode
        /\ r'.slot = r.slot /\ r'.striping = r.striping
        /\ r'.coverage = [r.coverage EXCEPT ![m.item] = @ \cup Span(m.offset, m.data)]
        /\ r'.ranges = [r.ranges EXCEPT ![m.item] = @ \cup Span(m.offset, m.data)]
    BY <1>0, <2>1 DEF Shape, ReceiverFields
  <2>3. SessionInv'
    BY <1>0, <1>1, <2>2 DEF SessionInv
  <2>4. PartInv'
    BY <1>1, <1>2, <2>1, <2>2, ChunkTaken
  <2> QED BY <1>0, <1>1, <1>2, <2>2, <2>3, <2>4, SourceFrame, ResumeOver DEF PInv
<1>5. CASE RecvLifecycle(p, m) /\ ~Refuse
  <2>1. /\ m.type \in {"stream_open", "stream_end"} /\ part' = part
        /\ r' = IF m.type = "stream_open" THEN [r EXCEPT !.opened = @ \cup {m.item}]
                ELSE [r EXCEPT !.ended = @ \cup {m.item}]
    BY <1>5 DEF RecvLifecycle
  <2>2. m.item \in Items
    BY <1>2, <2>1 DEF Sound
  <2>3. /\ r'.phase = r.phase /\ r'.open = r.open /\ r'.pipes = r.pipes /\ r'.mode = r.mode
        /\ r'.slot = r.slot /\ r'.striping = r.striping
        /\ r'.ranges = r.ranges /\ r'.coverage = r.coverage
        /\ r'.opened \subseteq r.opened \cup {m.item} /\ r'.ended \subseteq r.ended \cup {m.item}
    BY <1>0, <2>1 DEF Shape, ReceiverFields
  <2>4. SessionInv'
    BY <1>0, <1>1, <2>2, <2>3 DEF SessionInv
  <2>5. PartInv'
    BY <1>0, <1>1, <2>1, <2>3, PartFrame
  <2> QED BY <1>0, <1>1, <1>2, <2>3, <2>4, <2>5, SourceFrame, ResumeOver DEF PInv
<1> QED BY <1>3, <1>4, <1>5

\* Everything has come: the store may finalize.
LEMMA ReadyP ==
    ASSUME PartInv, UNCHANGED <<part, source, edits, crashes>>, r.phase = "chunks",
           (r'.phase = "finalize" /\ ReceiveReady) \/ r'.phase = "chunks",
           r'.open = r.open, r'.slot = r.slot, r'.striping = r.striping,
           r'.ranges = r.ranges, r'.coverage = r.coverage
    PROVE  PartInv'
<1>1. \A i \in r.open : Filled(i) => Filled(i)'
  BY DEF Filled
<1>2. r'.phase = "finalize" => \A i \in Files : Complete(r'.coverage[i], Size[i])
  BY Basics DEF ReceiveReady
<1>3. \A i \in r'.open : Filled(i)'
  BY <1>1 DEF PartInv
<1> QED BY <1>2, <1>3 DEF PartInv

LEMMA DoneReceivedP ==
    ASSUME IInv, PInv, NEW p \in Pipes, NEW m, RecvDone(p, m)
    PROVE  PInv'
<1> USE DEF sourceVars, fsVars, faultVars, fixedVars
<1>0. /\ Shape /\ SourceInv /\ SessionInv /\ PartInv
  BY DEF IInv, PInv
<1>1. Arrives(p, m) /\ UNCHANGED <<source, sources, edits, part, s, crashes, attempt>>
  BY DEF RecvDone
<1>2. WireInv' /\ r.phase = "chunks" /\ s.phase \notin {"ack", "resume"}
  BY <1>1, ArrivesSound
<1>3. /\ (r'.phase = "finalize" /\ ReceiveReady) \/ r'.phase = "chunks"
      /\ r'.open = r.open /\ r'.slot = r.slot /\ r'.striping = r.striping
      /\ r'.ranges = r.ranges /\ r'.coverage = r.coverage
      /\ r'.pipes = r.pipes /\ r'.opened = r.opened /\ r'.ended = r.ended /\ r'.mode = r.mode
  BY <1>0, <1>2 DEF RecvDone, Shape, ReceiverFields
<1>4. SessionInv'
  BY <1>0, <1>1, <1>2, <1>3 DEF SessionInv
<1>5. PartInv'
  BY <1>0, <1>1, <1>2, <1>3, ReadyP
<1> QED BY <1>0, <1>1, <1>2, <1>3, <1>4, <1>5, SourceFrame, ResumeOver DEF PInv

LEMMA PendingDoneP == ASSUME IInv, PInv, RecvPendingDone PROVE PInv'
<1> USE DEF RecvPendingDone, sourceVars, fsVars, faultVars, fixedVars
<1>0. /\ Shape /\ HandshakeInv /\ SourceInv /\ SessionInv /\ WireInv /\ PartInv
  BY DEF IInv, PInv
<1>1. r.phase = "chunks" /\ s.phase \notin {"ack", "resume"}
  BY <1>0 DEF HandshakeInv
<1>2. /\ r'.phase = "finalize" /\ r'.open = r.open /\ r'.slot = r.slot
      /\ r'.striping = r.striping /\ r'.ranges = r.ranges /\ r'.coverage = r.coverage
      /\ r'.pipes = r.pipes /\ r'.opened = r.opened /\ r'.ended = r.ended /\ r'.mode = r.mode
  BY <1>0 DEF Shape, ReceiverFields
<1>3. SessionInv'
  BY <1>0, <1>1, <1>2 DEF SessionInv
<1>4. PartInv'
  BY <1>0, <1>1, <1>2, ReadyP
<1> QED BY <1>0, <1>1, <1>2, <1>3, <1>4, SourceFrame, WireStays, ResumeOver DEF PInv

\* The part file that is not verified keeps its length, but then it is whole:
\* Finalize is only reached with every byte received.
LEMMA FinalizingP == ASSUME IInv, PInv, NEW i \in Files, FinalizeFile(i) PROVE PInv'
<1> USE DEF sourceVars, fsVars, faultVars, fixedVars
<1>0. /\ Shape /\ HandshakeInv /\ SourceInv /\ SessionInv /\ WireInv /\ PartInv
  BY DEF IInv, PInv
<1> DEFINE n == r.slot[i]
           good == Complete(r.ranges[i], Size[i]) /\ Verified(i) /\ Placeable(i)
<1>1. /\ r.phase = "finalize" /\ i \in r.open
      /\ UNCHANGED <<source, sources, edits, s, wire, back, deferred, crashes, attempt>>
  BY DEF FinalizeFile
<1>2. s.phase \notin {"ack", "resume"} /\ n \in Slots /\ part[i] \in [Slots -> Seq(Nat)]
  BY <1>0, <1>1 DEF HandshakeInv, Shape, PartInv
<1>3. SourceInv' /\ WireInv'
  BY <1>0, <1>1, SourceFrame, WireStays
<1>4. CASE good
  <2>1. part' = [part EXCEPT ![i] = [part[i] EXCEPT ![n] = Absent]]
    BY <1>0, <1>2, <1>4 DEF FinalizeFile, PartInv
  <2>2. /\ r'.phase = "finalize" /\ r'.open = r.open \ {i} /\ r'.slot = r.slot
        /\ r'.striping = r.striping /\ r'.ranges = r.ranges /\ r'.coverage = r.coverage
        /\ r'.pipes = r.pipes /\ r'.opened = r.opened /\ r'.ended = r.ended /\ r'.mode = r.mode
    BY <1>0, <1>1, <1>4 DEF FinalizeFile, Shape, ReceiverFields
  <2>3. Absent \in Seq(Nat) /\ NoHole(Absent)
    BY DEF Absent, NoHole
  <2>4. /\ DOMAIN part' = Files /\ \A j \in Files : j # i => part'[j] = part[j]
        /\ part'[i][n] = Absent /\ \A x \in Slots : x # n => part'[i][x] = part[i][x]
        /\ \A j \in Files : part'[j] \in [Slots -> Seq(Nat)]
    BY <1>0, <1>2, <2>1, <2>3 DEF PartInv
  <2>5. SessionInv'
    BY <1>0, <1>1, <2>2 DEF SessionInv
  <2>6. ASSUME NEW j \in r'.open PROVE Filled(j)'
    <3>1. j \in Files /\ j # i /\ Filled(j)
      BY <1>0, <2>2 DEF SessionInv, PartInv
    <3> QED BY <1>1, <2>2, <2>4, <3>1 DEF Filled
  <2>7. ASSUME crashes' = 0, NEW j \in Files, NEW x \in Slots
        PROVE  (j \in r'.open /\ x = r'.slot[j]) \/ NoHole(part'[j][x])
    <3>1. (j \in r.open /\ x = r.slot[j]) \/ NoHole(part[j][x])
      BY <1>0, <1>1, <2>7 DEF PartInv
    <3>2. CASE j = i
      BY <2>3, <2>4, <3>1, <3>2
    <3>3. CASE j # i
      BY <2>2, <2>4, <3>1, <3>3
    <3> QED BY <3>2, <3>3
  <2>8. \A j \in Files : r'.coverage[j] = r'.ranges[j] /\ Complete(r'.coverage[j], Size[j])
    BY <1>0, <1>1, <2>2 DEF PartInv
  <2>9. PartInv'
    BY <1>0, <2>2, <2>4, <2>6, <2>7, <2>8 DEF PartInv
  <2> QED BY <1>1, <1>2, <1>3, <2>2, <2>5, <2>9, ResumeOver DEF PInv
<1>5. CASE ~good
  <2>1. /\ r' = [r EXCEPT !.phase = "error", !.open = {}]
        /\ part' = [j \in Files |-> IF j = i THEN part[j] ELSE Closed[j]]
    BY <1>5 DEF FinalizeFile
  <2>2. /\ r'.phase = "error" /\ r'.open = {} /\ r'.ranges = r.ranges /\ r'.coverage = r.coverage
        /\ r'.pipes = r.pipes /\ r'.opened = r.opened /\ r'.ended = r.ended /\ r'.mode = r.mode
    BY <1>0, <2>1 DEF Shape, ReceiverFields
  <2>3. crashes = 0 => \A x \in Slots : NoHole(part[i][x])
    <3> SUFFICES ASSUME crashes = 0, NEW x \in Slots PROVE NoHole(part[i][x])
      OBVIOUS
    <3>1. CASE x # n
      BY <1>0, <3>1 DEF PartInv
    <3>2. CASE x = n
      <4>1. /\ r.ranges[i] \in SUBSET (0..(Size[i] - 1)) /\ Prefix(r.ranges[i]) = Size[i]
            /\ Size[i] \in Nat /\ Filled(i) /\ Len(part[i][n]) \in Nat
        <5>1. /\ r.ranges[i] \in SUBSET (0..(Size[i] - 1)) /\ r.coverage[i] = r.ranges[i]
              /\ Complete(r.coverage[i], Size[i]) /\ Filled(i)
          BY <1>0, <1>1 DEF PartInv
        <5>2. Size[i] \in Nat /\ Len(part[i][n]) \in Nat
          BY <1>2, Basics, Typing, SlotFacts
        <5> QED BY <5>1, <5>2 DEF Complete
      <4>2. 0..(Size[i] - 1) \subseteq r.ranges[i]
        BY <4>1, PrefixIs
      <4>3. \A k \in 1..Len(part[i][n]) : k - 1 \in r.ranges[i]
        <5>1. Len(part[i][n]) <= Size[i]
          BY <4>1 DEF Filled
        <5> QED BY <4>1, <4>2, <5>1
      <4> QED BY <3>2, <4>1, <4>3 DEF Filled, NoHole
    <3> QED BY <3>1, <3>2
  <2>4. /\ DOMAIN part' = Files /\ \A j \in Files : part'[j] \in [Slots -> Seq(Nat)]
        /\ crashes' = 0 => \A j \in Files, x \in Slots : NoHole(part'[j][x])
    BY <1>0, <1>1, <1>2, <2>1, <2>3, ClosedIs
  <2>5. PartInv'
    BY <1>0, <2>2, <2>4, PartCloses
  <2>6. SessionInv'
    BY <1>0, <1>1, <2>2, SessionEnds
  <2> QED BY <1>1, <1>2, <1>3, <2>2, <2>5, <2>6, ResumeOver DEF PInv
<1> QED BY <1>4, <1>5

LEMMA CompleteSentP == ASSUME IInv, PInv, SendComplete PROVE PInv'
<1> USE DEF SendComplete, sourceVars, fsVars, faultVars, fixedVars
<1>0. /\ Shape /\ HandshakeInv /\ SourceInv /\ SessionInv /\ WireInv /\ PartInv
  BY DEF IInv, PInv
<1>1. /\ r'.phase = "success" /\ r'.open = {} /\ r'.ranges = r.ranges /\ r'.coverage = r.coverage
      /\ r'.pipes = r.pipes /\ r'.opened = r.opened /\ r'.ended = r.ended /\ r'.mode = r.mode
      /\ r.open = {}
  BY <1>0 DEF Shape, ReceiverFields
<1>2. s.phase \notin {"ack", "resume"}
  BY <1>0 DEF HandshakeInv
<1>3. PartInv'
  <2>1. /\ DOMAIN part' = Files /\ \A i \in Files : part'[i] \in [Slots -> Seq(Nat)]
        /\ crashes' = 0 => \A i \in Files, n \in Slots : NoHole(part'[i][n])
    BY <1>0, <1>1 DEF PartInv
  <2> QED BY <1>0, <1>1, <2>1, PartCloses
<1>4. SessionInv'
  BY <1>0, <1>1, SessionEnds
<1> QED BY <1>0, <1>1, <1>2, <1>3, <1>4, SourceFrame, WireStays, ResumeOver DEF PInv

LEMMA SenderFailingP == ASSUME IInv, PInv, SenderFails PROVE PInv'
<1> USE DEF SenderFails, sourceVars, fsVars, faultVars, fixedVars
<1>0. /\ Shape /\ SourceInv /\ SessionInv /\ WireInv /\ ResumeInv /\ PartInv
  BY DEF IInv, PInv
<1>1. /\ s'.phase = "failed" /\ s'.pipes = s.pipes
      /\ s'.offset = s.offset /\ s'.done = s.done /\ s'.ended = s.ended
  BY <1>0 DEF Shape, SenderFields
<1> QED BY <1>0, <1>1, SourceFrame, SenderFrame, WireStays, ResumeFrame, PartFrame DEF PInv

\* A receiver that dies may leave holes, and that is then known.
LEMMA ReceiverFailingP == ASSUME IInv, PInv, ReceiverFails \/ Crash PROVE PInv'
<1> USE DEF ReceiverFails, Crash, sourceVars, fsVars, faultVars, fixedVars
<1>0. /\ Shape /\ SourceInv /\ SessionInv /\ WireInv /\ ResumeInv /\ PartInv
  BY DEF IInv, PInv
<1>1. /\ r' = [r EXCEPT !.phase = "failed", !.open = {}]
      /\ UNCHANGED <<source, sources, edits, s, wire, back, deferred, attempt>>
      /\ (part' = Closed /\ crashes' = crashes) \/ (part' = part /\ crashes' = crashes + 1)
  OBVIOUS
<1>2. /\ r'.phase = "failed" /\ r'.open = {} /\ r'.ranges = r.ranges /\ r'.coverage = r.coverage
      /\ r'.pipes = r.pipes /\ r'.opened = r.opened /\ r'.ended = r.ended /\ r'.mode = r.mode
  BY <1>0, <1>1 DEF Shape, ReceiverFields
<1>3. crashes' = crashes \/ (crashes' # 0 /\ crashes' \in Nat)
  BY <1>0, <1>1 DEF SourceInv
<1>4. SourceInv'
  BY <1>0, <1>1, <1>3 DEF SourceInv
<1>5. SessionInv' /\ WireInv'
  BY <1>0, <1>1, <1>2, SessionEnds, WireStays
<1>6. ResumeInv'
  <2>1. s.phase = "resume" /\ back # << >> => RequestsOwn(Head(back).entries)'
    BY <1>0, <1>1, <1>2 DEF ResumeInv, RequestsOwn
  <2> QED BY <1>0, <1>1, <1>2, <2>1 DEF ResumeInv
<1>7. PartInv'
  <2>1. CASE part' = Closed /\ crashes' = crashes
    BY <1>0, <1>2, <2>1, ClosedIs, PartCloses
  <2>2. CASE part' = part /\ crashes' = crashes + 1
    <3>1. crashes' # 0
      BY <1>0, <2>2 DEF SourceInv
    <3> QED BY <1>0, <1>2, <2>2, <3>1, PartCloses DEF PartInv
  <2> QED BY <1>1, <2>1, <2>2
<1> QED BY <1>4, <1>5, <1>6, <1>7 DEF PInv

LEMMA ReconnectingP == ASSUME IInv, PInv, Reconnect PROVE PInv'
<1> USE Basics, Typing DEF Reconnect, sourceVars, fsVars, faultVars, fixedVars
<1>0. /\ Shape /\ SourceInv /\ SessionInv /\ WireInv /\ PartInv
  BY DEF IInv, PInv
<1>1. SourceInv'
  BY <1>0, TransferConstants DEF SourceInv
<1>2. SessionInv'
  BY TransferConstants DEF SessionInv, NewSender, NewReceiver
<1>3. WireInv'
  <2>1. AtMostOne(<< >>)
    BY DEF AtMostOne
  <2>2. deferred' = << >> /\ \A p \in Pipes : wire'[p] = << >>
    BY DEF Quiet
  <2>3. IsList(<< >>) /\ Elems(<< >>) = {}
    BY <2>1, OneIsList, ElemsFew
  <2> QED BY <1>0, <2>2, <2>3, WireFrame
<1>4. ResumeInv'
  BY DEF ResumeInv, NewSender, NewReceiver
<1>5. PartInv'
  <2>1. /\ r'.phase = "hello" /\ r'.open = {}
        /\ r'.ranges = [i \in Files |-> {}] /\ r'.coverage = [i \in Items |-> {}]
    BY DEF NewReceiver
  <2>2. r.open = {}
    BY <1>0 DEF SessionInv
  <2>3. /\ DOMAIN part' = Files /\ \A i \in Files : part'[i] \in [Slots -> Seq(Nat)]
        /\ crashes' = 0 => \A i \in Files, n \in Slots : NoHole(part'[i][n])
    BY <1>0, <2>2 DEF PartInv
  <2> QED BY <2>1, <2>3 DEF PartInv
<1> QED BY <1>1, <1>2, <1>3, <1>4, <1>5 DEF PInv

\* An edit: from now on nothing is said about versions.
LEMMA EditingP == ASSUME IInv, PInv, NEW i \in Files, EditSource(i) PROVE PInv'
<1> USE DEF sourceVars, fsVars, faultVars, fixedVars
<1>0. /\ Shape /\ SourceInv /\ SessionInv /\ WireInv /\ ResumeInv /\ PartInv
  BY DEF IInv, PInv
<1>1. PICK content \in Edits : source' = [source EXCEPT ![i] = content]
  BY DEF EditSource
<1>2. edits' = edits + 1 /\ UNCHANGED <<part, s, r, wire, back, deferred, crashes, attempt>>
  BY DEF EditSource
<1>3. edits' # 0 /\ edits' \in Nat
  BY <1>0, <1>2 DEF SourceInv
<1>4. SourceInv'
  <2>1. content \in Content
    BY TransferContents DEF Content
  <2>2. source' \in [Files -> Content]
    BY <1>0, <1>1, <2>1 DEF SourceInv
  <2> QED BY <1>0, <1>2, <1>3, <2>2 DEF SourceInv
<1>5. SessionInv'
  BY <1>0, <1>2, SenderFrame
<1>6. WireInv'
  <2>1. \A m : Sound(m) => Sound(m)'
    BY <1>3 DEF Sound
  <2>2. \A p \in Pipes : \A m \in Elems(wire'[p]) : Sound(m)'
    BY <1>0, <1>2, <2>1 DEF WireInv
  <2>3. ASSUME NEW e \in Elems(deferred') PROVE Sound(e.message)'
    <3>1. Sound(e.message)
      BY <1>0, <1>2 DEF WireInv
    <3> QED BY <2>1, <3>1
  <2>4. IsList(deferred') /\ \A p \in Pipes : IsList(wire'[p])
    BY <1>0, <1>2 DEF WireInv
  <2> QED BY <2>2, <2>3, <2>4 DEF WireInv
<1>7. ResumeInv' /\ PartInv'
  BY <1>0, <1>2, <1>3, ResumeFrame, PartFrame
<1> QED BY <1>4, <1>5, <1>6, <1>7 DEF PInv

LEMMA StandingP ==
    ASSUME IInv, PInv, UNCHANGED <<source, sources, edits, part, s, r, wire, back, deferred, crashes, attempt>>
    PROVE  PInv'
<1>0. /\ SourceInv /\ SessionInv /\ WireInv /\ ResumeInv /\ PartInv
  BY DEF PInv
<1> QED BY <1>0, SourceFrame, SenderFrame, WireStays, ResumeFrame, PartFrame DEF PInv

LEMMA PartStep == IInv /\ PInv /\ [Next]_vars => PInv'
<1> SUFFICES ASSUME IInv, PInv, [Next]_vars PROVE PInv'
  OBVIOUS
<1>1. CASE SenderStep
  BY <1>1, HelloSentP, ManifestSentP, AcceptSentP, ChunkSentP, DoneSentP, CompleteReceivedP DEF SenderStep
<1>2. CASE ReceiverStep
  <2>1. CASE RecvHello \/ RecvManifest \/ RecvAccept \/ RecvPendingDone \/ SendComplete
    BY <2>1, HelloReceivedP, ManifestReceivedP, AcceptReceivedP, PendingDoneP, CompleteSentP
  <2>2. CASE \E p \in Pipes : Defer(p)
    BY <2>2, DeferringP
  <2>3. CASE \E p \in Pipes : \E m \in Incoming :
                 RecvChunk(p, m) \/ RecvLifecycle(p, m) \/ RecvDone(p, m)
    BY <2>3, ArrivingP, DoneReceivedP
  <2>4. CASE \E i \in Files : FinalizeFile(i)
    BY <2>4, FinalizingP
  <2> QED BY <1>2, <2>1, <2>2, <2>3, <2>4 DEF ReceiverStep
<1>3. CASE SenderFails \/ ReceiverFails \/ Crash
  BY <1>3, SenderFailingP, ReceiverFailingP
<1>4. CASE Reconnect
  BY <1>4, ReconnectingP
<1>5. CASE Break
  BY <1>5, StandingP DEF Break, sourceVars, fsVars, fixedVars
<1>6. CASE \E i \in Files : EditSource(i)
  BY <1>6, EditingP
<1>7. CASE UNCHANGED vars
  BY <1>7, StandingP DEF vars, sourceVars, fsVars, faultVars, fixedVars
<1> QED BY <1>1, <1>2, <1>3, <1>4, <1>5, <1>6, <1>7 DEF Next

\* What is on the wire is the source's, what was accepted of an old part file
\* was compared with it, and what is counted as received was written: through
\* every merge of the pipes, every interruption and every reconnect.
THEOREM PartInvariant == Spec => []PInv
BY TransferInvariant, PartInitially, PartStep, PTL DEF Spec

\* The blocks a running receive counts as received are the source's, and a
\* receive that was interrupted leaves a prefix without holes in every part
\* file, unless it died before it could cut them (ReceiveStore.Close).
THEOREM PartsAreSource == Spec => []PartIsSource
<1>1. IInv /\ PInv => PartIsSource
  <2> SUFFICES ASSUME IInv, PInv PROVE PartIsSource
    OBVIOUS
  <2>0. Shape /\ SourceInv /\ SessionInv /\ PartInv
    BY DEF IInv, PInv
  <2>1. TypeOK
    BY <2>0 DEF TypeOK, Shape, SourceInv, SessionInv, PartInv, SenderPhases, ReceiverPhases
  <2>2. CoveredBlocksAreSource
    BY <2>0 DEF CoveredBlocksAreSource, PartInv, Filled
  <2>3. PartHasNoHoles
    <3> SUFFICES ASSUME ~ReceiverRunning, crashes = 0, NEW i \in Files, NEW n \in Slots,
                        NEW k \in DOMAIN part[i][n]
                 PROVE  part[i][n][k] # Hole
      BY DEF PartHasNoHoles
    <3>1. r.open = {}
      BY <2>0 DEF ReceiverRunning, SessionInv
    <3>2. NoHole(part[i][n]) /\ part[i][n] \in Seq(Nat)
      BY <2>0, <3>1 DEF PartInv
    <3>3. k \in 1..Len(part[i][n])
      BY <3>2
    <3> QED BY <3>2, <3>3 DEF NoHole
  <2> QED BY <2>1, <2>2, <2>3 DEF PartIsSource
<1> QED BY <1>1, TransferInvariant, PartInvariant, PTL

(***************************************************************************)
(* No refusal.  What is on its way over a pipe once the offsets are         *)
(* accepted: the deferred messages of the pipe, at 0 and below, and those   *)
(* it still holds, from 1.  The resume_accept itself is not counted.        *)
(***************************************************************************)

Way(p) ==
    {k \in (1 - Len(deferred))..Len(wire[p]) :
        IF k > 0 THEN ~(r.phase = "accept" /\ p = 0 /\ k = 1)
        ELSE deferred[Len(deferred) + k].pipe = p}

Msg(p, k) == IF k > 0 THEN wire[p][k] ELSE deferred[Len(deferred) + k].message

\* The messages on their way, and which the receiver meets before which.
Flight(p) == {Msg(p, k) : k \in Way(p)}

Before(p, a, b) == \E j, k \in Way(p) : j < k /\ a = Msg(p, j) /\ b = Msg(p, k)

Flowing == r.phase = "chunks" \/ (r.phase = "accept" /\ wire[0] # << >>)

\* What counts as received, or will once the offsets are taken.
Got(i) == IF r.phase = "accept" THEN 0..(Head(wire[0]).entries[i].offset - 1) ELSE r.ranges[i]

\* A message the receiver takes when nothing that is on its way comes before.
Fits(p, m) ==
    /\ m.type \in {"stream_open", "stream_end", "chunk", "done"}
    /\ m.type \in {"stream_open", "stream_end"} => p = PipeForItem(r.pipes, m.item)
    /\ m.type = "stream_open" => m.item \notin r.opened
    /\ m.type = "stream_end" => m.item \in s.ended \ r.ended
    /\ m.type = "chunk" =>
         /\ p \in ChunkPipes(r, m.item) /\ r.mode[m.item] = "receive"
         /\ r.striping \/ m.item \notin r.ended
         /\ m.offset + Len(m.data) <= s.offset[m.item]
         /\ Span(m.offset, m.data) \cap Got(m.item) = {}

\* What may come after a message on its pipe.
MayFollow(a, b) ==
    a.item = b.item =>
        /\ a.type = b.type => a.type \notin {"stream_open", "stream_end"}
        /\ a.type = "stream_end" => b.type # "stream_open" /\ (b.type = "chunk" => r.striping)
        /\ a.type = "chunk" /\ b.type = "chunk" => a.offset + Len(a.data) <= b.offset

\* Chunks that may overtake each other.
Apart(a, b) ==
    a.type = "chunk" /\ b.type = "chunk" /\ a.item = b.item =>
        Span(a.offset, a.data) \cap Span(b.offset, b.data) = {}

OrderInv ==
    /\ \A p \in Pipes : \A m \in Flight(p) : Fits(p, m)
    /\ \A p \in Pipes : \A a, b \in Flight(p) : Before(p, a, b) => MayFollow(a, b)
    /\ \A p, q \in Pipes : p # q => \A a \in Flight(p), b \in Flight(q) : Apart(a, b)

\* Nothing that was sent is lost.
OpenComes(i) == \E p \in Pipes : \E m \in Flight(p) : m.type = "stream_open" /\ m.item = i

BlockComes(i, x) ==
    \E p \in Pipes : \E m \in Flight(p) :
        m.type = "chunk" /\ m.item = i /\ x \in Span(m.offset, m.data)

WholeInv ==
    /\ \A i \in Items \ r.opened : OpenComes(i)
    /\ \A i \in Files : \A x \in 0..(s.offset[i] - 1) : x \in Got(i) \/ BlockComes(i, x)

\* What the sender has sent of the items.
SentInv ==
    /\ s.pipes = r.pipes /\ s.striping = r.striping
    /\ r.ended \subseteq s.ended
    /\ s.phase = "chunks" => s.ended \subseteq s.done \cup (Items \ Files)
    /\ \A i \in Files : /\ s.offset[i] <= Size[i] /\ Got(i) \subseteq 0..(s.offset[i] - 1)
                        /\ r.mode[i] # "receive" => i \in s.done

FlowInv == Flowing /\ edits = 0 => SentInv /\ OrderInv /\ WholeInv

\* Before, the data pipes are empty and both sides agree on them.
CalmInv ==
    /\ conflict \in Policies
    /\ r.phase \in {"hello", "manifest"} \/ (r.phase = "accept" /\ wire[0] = << >>) =>
           deferred = << >> /\ \A p \in Pipes \ {0} : wire[p] = << >>
    /\ r.phase \in {"hello", "manifest", "accept"} => r.opened = {} /\ r.ended = {}
    /\ r.phase = "manifest" /\ s.phase = "ack" /\ back # << >> =>
           Head(back).connections = r.pipes /\ Head(back).striping = r.striping
    /\ r.phase \in {"manifest", "accept"} /\ s.phase = "resume" =>
           s.pipes = r.pipes /\ s.striping = r.striping

\* What is asked for, accepted and declared of a file.
Asked(entries) ==
    \A i \in Files :
        /\ entries[i].skip = (r.mode[i] # "receive") /\ entries[i].offset \in 0..Size[i]
        /\ entries[i].skip => entries[i].offset = Size[i]
        /\ r.ranges[i] = 0..(entries[i].offset - 1)

Granted(entries) ==
    \A i \in Files :
        /\ entries[i].skip = (r.mode[i] # "receive")
        /\ entries[i].skip => entries[i].offset = Size[i]
        /\ entries[i].offset <= Prefix(r.ranges[i])
        /\ ~entries[i].skip => entries[i].sha256 = Original(i)

AnswerInv ==
    /\ r.phase = "accept" /\ s.phase = "resume" /\ back # << >> => Asked(Head(back).entries)
    /\ r.phase = "accept" /\ wire[0] # << >> /\ edits = 0 => Granted(Head(wire[0]).entries)
    /\ r.phase \in {"chunks", "finalize"} /\ edits = 0 =>
           \A i \in Receiving : r.declared[i] = Original(i)
    /\ r.phase \in {"accept", "chunks", "finalize"} => \A i \in r.open : Placeable(i)

NInv == CalmInv /\ AnswerInv /\ FlowInv /\ NoRefusal

LEMMA ListIndices ==
    ASSUME NEW q, IsList(q)
    PROVE  /\ Len(q) \in Nat /\ (q = << >> <=> Len(q) = 0)
           /\ q # << >> => /\ Head(q) = q[1] /\ Len(Tail(q)) = Len(q) - 1
                           /\ \A k \in 1..(Len(q) - 1) : Tail(q)[k] = q[k + 1]
           /\ \A x : /\ Len(Append(q, x)) = Len(q) + 1 /\ Append(q, x)[Len(q) + 1] = x
                     /\ \A k \in 1..Len(q) : Append(q, x)[k] = q[k]
           /\ \A t : IsList(t) =>
                /\ Len(q \o t) = Len(q) + Len(t)
                /\ \A k \in 1..Len(q) : (q \o t)[k] = q[k]
                /\ \A k \in 1..Len(t) : (q \o t)[Len(q) + k] = t[k]
<1>1. PICK S : q \in Seq(S)
  BY DEF IsList
<1>2. /\ Len(q) \in Nat /\ (q = << >> <=> Len(q) = 0)
      /\ q # << >> => /\ Head(q) = q[1] /\ Len(Tail(q)) = Len(q) - 1
                      /\ \A k \in 1..(Len(q) - 1) : Tail(q)[k] = q[k + 1]
  BY <1>1
<1>3. ASSUME NEW x
      PROVE  /\ Len(Append(q, x)) = Len(q) + 1 /\ Append(q, x)[Len(q) + 1] = x
             /\ \A k \in 1..Len(q) : Append(q, x)[k] = q[k]
  <2>1. q \in Seq(S \cup {x})
    BY <1>1
  <2> QED BY <2>1
<1>4. ASSUME NEW t, IsList(t)
      PROVE  /\ Len(q \o t) = Len(q) + Len(t)
             /\ \A k \in 1..Len(q) : (q \o t)[k] = q[k]
             /\ \A k \in 1..Len(t) : (q \o t)[Len(q) + k] = t[k]
  <2>1. PICK T : t \in Seq(T)
    BY <1>4 DEF IsList
  <2>2. q \in Seq(S \cup T) /\ t \in Seq(S \cup T)
    BY <1>1, <2>1
  <2>3. /\ Len(q) \in Nat /\ Len(t) \in Nat /\ Len(q \o t) = Len(q) + Len(t)
        /\ \A k \in 1..(Len(q) + Len(t)) : (q \o t)[k] = IF k <= Len(q) THEN q[k] ELSE t[k - Len(q)]
    BY <2>2
  <2>4. \A k \in 1..Len(t) : Len(q) + k \in 1..(Len(q) + Len(t)) /\ ~(Len(q) + k <= Len(q)) /\ Len(q) + k - Len(q) = k
    BY <2>3
  <2>5. \A k \in 1..Len(q) : k \in 1..(Len(q) + Len(t)) /\ k <= Len(q)
    BY <2>3
  <2> QED BY <2>3, <2>4, <2>5
<1> QED BY <1>2, <1>3, <1>4

LEMMA ListHead ==
    ASSUME NEW q, IsList(q), q # << >>, NEW t, t = Tail(q)
    PROVE  /\ Len(q) \in Nat \ {0} /\ Head(q) = q[1] /\ Len(t) = Len(q) - 1
           /\ \A k \in 1..(Len(q) - 1) : t[k] = q[k + 1]
BY ListIndices

\* OnPipe lists the messages of its pipe, each once, in the order they are sent.
LEMMA OnPipeIs ==
    ASSUME NEW messages \in SUBSET Lifecycles, IsFiniteSet(messages), NEW pipes, NEW p,
           NEW q, q = OnPipe(pipes, messages, p)
    PROVE  /\ IsList(q) /\ Len(q) \in Nat
           /\ \A k \in 1..Len(q) : q[k] \in messages /\ PipeForItem(pipes, q[k].item) = p
           /\ \A j, k \in 1..Len(q) : j < k => q[j] # q[k] /\ ~Precedes(q[k], q[j])
           /\ \A m \in messages : PipeForItem(pipes, m.item) = p => \E k \in 1..Len(q) : q[k] = m
<1> DEFINE mine == {m \in messages : PipeForItem(pipes, m.item) = p}
           below(m) == {x \in mine : Precedes(x, m)}
           n == Cardinality(mine)
           at(k) == CHOOSE m \in mine : Cardinality(below(m)) = k - 1
           rank == [m \in mine |-> Cardinality(below(m))]
<1>1. mine \in SUBSET messages /\ mine \in SUBSET Lifecycles
  OBVIOUS
<1>2. IsFiniteSet(mine) /\ n \in Nat
  BY <1>1, FS_Subset, FS_CardinalityType
<1>3. OnPipe(pipes, messages, p) = [k \in 1..n |-> at(k)]
  BY DEF OnPipe
<1> HIDE DEF n
<1>4. ASSUME NEW m \in mine
      PROVE  IsFiniteSet(below(m)) /\ Cardinality(below(m)) \in 0..(n - 1)
  <2>1. below(m) \in SUBSET mine /\ m \notin below(m)
    BY <1>1, PrecedesOrders
  <2>2. IsFiniteSet(below(m)) /\ Cardinality(below(m)) \in Nat /\ Cardinality(below(m)) <= n
    BY <1>2, <2>1, FS_Subset, FS_CardinalityType DEF n
  <2>3. Cardinality(below(m)) # n
    BY <1>2, <2>1, FS_Subset DEF n
  <2> QED BY <1>2, <2>2, <2>3
<1>5. ASSUME NEW a \in mine, NEW b \in mine, Precedes(a, b)
      PROVE  Cardinality(below(a)) < Cardinality(below(b))
  <2>1. below(a) \in SUBSET below(b) /\ a \in below(b) /\ a \notin below(a)
    BY <1>1, <1>5, PrecedesOrders
  <2>2. IsFiniteSet(below(b)) /\ Cardinality(below(b)) \in Nat /\ Cardinality(below(a)) \in Nat
    <3>1. /\ IsFiniteSet(below(b)) /\ Cardinality(below(b)) \in 0..(n - 1)
          /\ Cardinality(below(a)) \in 0..(n - 1)
      BY <1>4
    <3> HIDE DEF below
    <3> QED BY <1>2, <3>1
  <2>3. Cardinality(below(a)) <= Cardinality(below(b)) /\ Cardinality(below(a)) # Cardinality(below(b))
    BY <2>1, <2>2, FS_Subset
  <2> QED BY <2>2, <2>3
<1>6. rank \in Injection(mine, 0..(n - 1))
  <2>1. rank \in [mine -> 0..(n - 1)]
    BY <1>4
  <2>2. ASSUME NEW a \in mine, NEW b \in mine, rank[a] = rank[b] PROVE a = b
    <3>1. rank[a] \in Int /\ rank[b] \in Int
      BY <1>2, <2>1
    <3>2. ~Precedes(a, b) /\ ~Precedes(b, a)
      BY <1>5, <2>2, <3>1
    <3> QED BY <1>1, <3>2, PrecedesOrders
  <2> QED BY <2>1, <2>2 DEF Injection, IsInjective
<1>7. rank \in Surjection(mine, 0..(n - 1))
  <2>1. IsFiniteSet(0..(n - 1)) /\ Cardinality(0..(n - 1)) = n
    BY <1>2, FS_Interval
  <2> HIDE DEF rank, mine
  <2> QED BY <1>2, <1>6, <2>1, FS_Injection DEF n
<1>8. ASSUME NEW k \in 1..n PROVE at(k) \in mine /\ Cardinality(below(at(k))) = k - 1
  <2>1. k - 1 \in 0..(n - 1)
    BY <1>2
  <2>2. PICK m \in mine : rank[m] = k - 1
    BY <1>7, <2>1 DEF Surjection
  <2>3. \E x \in mine : Cardinality(below(x)) = k - 1
    BY <2>2
  <2> QED BY <2>3
<1> HIDE DEF at, mine
<1>9. DOMAIN q = 1..n /\ \A k \in 1..n : q[k] = at(k)
  BY <1>3
<1>10. IsList(q) /\ Len(q) = n
  <2>1. q \in [1..n -> mine]
    BY <1>3, <1>8
  <2>2. q \in Seq(mine)
    BY <1>2, <2>1, SeqDef
  <2> QED BY <1>2, <1>9, <2>2, LenProperties DEF IsList
<1>11. \A j, k \in 1..n : j < k => q[j] # q[k] /\ ~Precedes(q[k], q[j])
  <2> SUFFICES ASSUME NEW j \in 1..n, NEW k \in 1..n, j < k
               PROVE  at(j) # at(k) /\ ~Precedes(at(k), at(j))
    BY <1>9
  <2>1. Cardinality(below(at(j))) = j - 1 /\ Cardinality(below(at(k))) = k - 1
    BY <1>8
  <2>2. at(j) \in mine /\ at(k) \in mine
    BY <1>8
  <2>3. Precedes(at(k), at(j)) => Cardinality(below(at(k))) < Cardinality(below(at(j)))
    BY <1>5, <2>2
  <2> HIDE DEF below
  <2> QED BY <1>2, <2>1, <2>3
<1>12. ASSUME NEW m \in mine PROVE \E k \in 1..n : q[k] = m
  <2>1. Cardinality(below(m)) \in 0..(n - 1)
    BY <1>4
  <2> DEFINE k == Cardinality(below(m)) + 1
  <2> HIDE DEF below
  <2>2. k \in 1..n /\ k - 1 = Cardinality(below(m))
    BY <1>2, <2>1
  <2>3. Cardinality(below(at(k))) = Cardinality(below(m)) /\ at(k) \in mine
    BY <1>8, <2>2
  <2>4. rank[at(k)] = rank[m]
    BY <2>3
  <2>5. at(k) = m
    BY <1>6, <2>3, <2>4 DEF Injection, IsInjective
  <2> QED BY <1>9, <2>2, <2>5
<1>13. \A k \in 1..n : q[k] \in messages /\ PipeForItem(pipes, q[k].item) = p
  BY <1>8, <1>9 DEF mine
<1>14. \A m \in messages : PipeForItem(pipes, m.item) = p => \E k \in 1..n : q[k] = m
  BY <1>12 DEF mine
<1> QED BY <1>2, <1>10, <1>11, <1>13, <1>14

(***************************************************************************)
(* How steps move what is on its way.                                       *)
(***************************************************************************)

LEMMA FlightFacts ==
    ASSUME NEW p
    PROVE  /\ \A k \in Way(p) : k \in Int /\ Msg(p, k) \in Flight(p)
           /\ \A m \in Flight(p) : \E k \in Way(p) : m = Msg(p, k)
           /\ \A a, b : Before(p, a, b) => a \in Flight(p) /\ b \in Flight(p)
<1>1. \A k \in Way(p) : k \in Int
  BY DEF Way
<1> QED BY <1>1 DEF Flight, Before

\* The messages that stay on their way keep their order.
LEMMA WayMoved ==
    ASSUME NEW p, NEW f,
           \A k \in Way(p)' : f[k] \in Way(p) /\ Msg(p, k)' = Msg(p, f[k]),
           \A j, k \in Way(p)' : j < k => f[j] < f[k]
    PROVE  /\ Flight(p)' \subseteq Flight(p)
           /\ \A a, b : Before(p, a, b)' => Before(p, a, b)
<1>1. Flight(p)' \subseteq Flight(p)
  BY DEF Flight
<1>2. ASSUME NEW a, NEW b, Before(p, a, b)' PROVE Before(p, a, b)
  <2>1. PICK j \in Way(p)', k \in Way(p)' : j < k /\ a = Msg(p, j)' /\ b = Msg(p, k)'
    BY <1>2 DEF Before
  <2>2. f[j] \in Way(p) /\ f[k] \in Way(p) /\ f[j] < f[k] /\ a = Msg(p, f[j]) /\ b = Msg(p, f[k])
    BY <2>1
  <2> QED BY <2>2 DEF Before
<1> QED BY <1>1, <1>2

LEMMA FlightStays ==
    ASSUME UNCHANGED <<wire, deferred>>, r'.phase = r.phase
    PROVE  \A p \in Pipes : /\ Flight(p)' = Flight(p)
                            /\ \A a, b : Before(p, a, b)' => Before(p, a, b)
<1>1. ASSUME NEW p \in Pipes PROVE Way(p)' = Way(p) /\ \A k : Msg(p, k)' = Msg(p, k)
  BY DEF Way, Msg
<1> QED BY <1>1 DEF Flight, Before

\* A message that is deferred stays where it is in its pipe's order.
LEMMA FlightDefers ==
    ASSUME IInv, WireInv, NEW p \in Pipes, Defer(p)
    PROVE  \A x \in Pipes : /\ Flight(x)' = Flight(x)
                            /\ \A a, b : Before(x, a, b)' => Before(x, a, b)
<1> USE Basics
<1> DEFINE n == Len(deferred)
           e == [pipe |-> p, message |-> Head(wire[p])]
<1>1. /\ deferred' = Append(deferred, e) /\ wire[p] # << >> /\ p # 0
      /\ wire' = [wire EXCEPT ![p] = Tail(@)] /\ r' = r
  BY DEF Defer
<1>2. n \in Nat /\ Len(deferred') = n + 1 /\ deferred'[n + 1] = e
      /\ \A k \in 1..n : deferred'[k] = deferred[k]
  BY <1>1, ListIndices DEF WireInv
<1>3. \A x \in Pipes : wire'[x] = IF x = p THEN Tail(wire[x]) ELSE wire[x]
  BY <1>1 DEF IInv, Shape
<1>4. /\ Len(wire[p]) \in Nat \ {0} /\ Head(wire[p]) = wire[p][1] /\ Len(wire'[p]) = Len(wire[p]) - 1
      /\ \A k \in 1..(Len(wire[p]) - 1) : wire'[p][k] = wire[p][k + 1]
  <2>1. IsList(wire[p]) /\ wire'[p] = Tail(wire[p])
    BY <1>3 DEF WireInv
  <2> QED BY <1>1, <2>1, ListHead
<1>5. e.pipe = p /\ e.message = Head(wire[p])
  OBVIOUS
<1> HIDE DEF n, e
<1> SUFFICES ASSUME NEW x \in Pipes
             PROVE  Flight(x)' = Flight(x) /\ \A a, b : Before(x, a, b)' => Before(x, a, b)
  OBVIOUS
<1>6. Len(wire[x]) \in Nat
  BY ListIndices DEF WireInv
<1> DEFINE f == [k \in Int |-> IF k <= 0 \/ x = p THEN k + 1 ELSE k]
<1>7. ASSUME NEW k \in Way(x)' PROVE k \in Int /\ f[k] \in Way(x) /\ Msg(x, k)' = Msg(x, f[k])
  <2>1. k \in (1 - (n + 1))..Len(wire'[x])
    BY <1>2 DEF Way
  <2>2. k \in Int
    BY <2>1
  <2>3. CASE k > 0
    <3>1. ~(r.phase = "accept" /\ x = 0 /\ k = 1) /\ Msg(x, k)' = wire'[x][k]
      BY <1>1, <2>3 DEF Way, Msg
    <3>2. CASE x = p
      <4>1. f[k] = k + 1 /\ k + 1 > 0 /\ k + 1 \in (1 - n)..Len(wire[x]) /\ wire'[x][k] = wire[x][k + 1]
        BY <1>2, <1>4, <2>1, <2>2, <2>3, <3>2
      <4> QED BY <1>1, <2>2, <3>1, <3>2, <4>1 DEF Way, Msg, n
    <3>3. CASE x # p
      <4>1. f[k] = k /\ k \in (1 - n)..Len(wire[x]) /\ wire'[x] = wire[x]
        BY <1>2, <1>3, <2>1, <2>2, <2>3, <3>3
      <4> QED BY <2>2, <2>3, <3>1, <4>1 DEF Way, Msg, n
    <3> QED BY <3>2, <3>3
  <2>4. CASE k <= 0
    <3>1. deferred'[n + 1 + k].pipe = x /\ Msg(x, k)' = deferred'[n + 1 + k].message
      BY <1>2, <2>2, <2>4 DEF Way, Msg
    <3>2. f[k] = k + 1
      BY <2>2, <2>4
    <3>3. CASE k = 0
      <4>1. n + 1 + k = n + 1
        BY <1>2, <3>3
      <4>2. x = p /\ Msg(x, k)' = wire[p][1]
        BY <1>2, <1>4, <1>5, <3>1, <4>1
      <4>3. 1 \in (1 - n)..Len(wire[p])
        BY <1>2, <1>4
      <4> QED BY <1>1, <2>2, <3>2, <3>3, <4>2, <4>3 DEF Way, Msg, n
    <3>4. CASE k # 0
      <4>1. k + 1 <= 0 /\ k + 1 \in (1 - n)..Len(wire[x]) /\ n + 1 + k = n + (k + 1) /\ n + (k + 1) \in 1..n
        BY <1>2, <1>6, <2>1, <2>2, <2>4, <3>4
      <4>2. deferred'[n + 1 + k] = deferred[n + (k + 1)]
        BY <1>2, <4>1
      <4> HIDE DEF f
      <4> DEFINE j == k + 1
      <4>3. j <= 0 /\ j \in (1 - n)..Len(wire[x]) /\ f[k] = j /\ j \in Int
            /\ deferred[n + j].pipe = x /\ Msg(x, k)' = deferred[n + j].message
        BY <2>2, <3>1, <3>2, <4>1, <4>2
      <4> HIDE DEF j
      <4>4. ~(j > 0)
        BY <4>3
      <4> QED BY <2>2, <4>3, <4>4 DEF Way, Msg, n
    <3> QED BY <3>3, <3>4
  <2> QED BY <2>2, <2>3, <2>4
<1>8. ASSUME NEW j \in Way(x)', NEW k \in Way(x)', j < k PROVE f[j] < f[k]
  <2>1. j \in Int /\ k \in Int
    BY <1>7
  <2>2. x # p => j # 0
    <3>1. j = 0 => deferred'[n + 1 + j].pipe = x /\ n + 1 + j = n + 1
      BY <1>2 DEF Way
    <3> QED BY <1>2, <1>5, <3>1
  <2> QED BY <1>8, <2>1, <2>2
<1>9. ASSUME NEW k \in Way(x) PROVE Msg(x, k) \in Flight(x)'
  <2>1. k \in (1 - n)..Len(wire[x]) /\ k \in Int
    BY DEF Way, n
  <2> DEFINE j == IF k > 0 /\ (x # p \/ k > 1) THEN (IF x = p THEN k - 1 ELSE k) ELSE k - 1
  <2> SUFFICES j \in Way(x)' /\ Msg(x, j)' = Msg(x, k)
    BY DEF Flight
  <2>2. CASE k > 0 /\ (x # p \/ k > 1)
    <3>1. ~(r.phase = "accept" /\ x = 0 /\ k = 1) /\ Msg(x, k) = wire[x][k]
      BY <2>2 DEF Way, Msg
    <3>2. CASE x = p
      <4>1. j = k - 1 /\ j > 0 /\ j \in Int /\ j \in (1 - (n + 1))..Len(wire'[x]) /\ wire'[x][j] = wire[x][k]
        <5>1. k - 1 \in 1..(Len(wire[p]) - 1) /\ (k - 1) + 1 = k
          BY <1>4, <2>1, <2>2, <3>2
        <5> QED BY <1>2, <1>4, <2>1, <2>2, <3>2, <5>1
      <4> HIDE DEF j
      <4> QED BY <1>1, <1>2, <3>1, <3>2, <4>1 DEF Way, Msg
    <3>3. CASE x # p
      <4>1. j = k /\ j \in (1 - (n + 1))..Len(wire'[x]) /\ wire'[x][j] = wire[x][k]
        BY <1>2, <1>3, <2>1, <2>2, <3>3
      <4> HIDE DEF j
      <4> QED BY <1>1, <1>2, <2>2, <3>1, <4>1 DEF Way, Msg
    <3> QED BY <3>2, <3>3
  <2>3. CASE k = 1 /\ x = p
    <3>1. j = 0 /\ 0 \in (1 - (n + 1))..Len(wire'[x]) /\ n + 1 + 0 = n + 1
      BY <1>2, <1>4, <2>3
    <3>2. Msg(x, k) = wire[p][1]
      BY <2>3 DEF Msg
    <3>3. deferred'[n + 1 + 0] = e
      BY <1>2, <3>1
    <3>4. ~(0 > 0)
      OBVIOUS
    <3>5. 0 \in Way(x)' /\ Msg(x, 0)' = e.message
      BY <1>2, <1>5, <2>3, <3>1, <3>3, <3>4 DEF Way, Msg
    <3> QED BY <1>4, <1>5, <3>1, <3>2, <3>5
  <2>4. CASE k <= 0
    <3>1. deferred[n + k].pipe = x /\ Msg(x, k) = deferred[n + k].message
      BY <2>1, <2>4 DEF Way, Msg, n
    <3>2. j = k - 1
      BY <2>1, <2>4
    <3> HIDE DEF j
    <3>3. /\ j \in (1 - (n + 1))..Len(wire'[x]) /\ ~(j > 0)
          /\ n + 1 + j = n + k /\ n + k \in 1..n
      <4>1. Len(wire'[x]) \in Nat
        BY <1>3, <1>4, <1>6
      <4> QED BY <1>2, <2>1, <2>4, <3>2, <4>1
    <3>4. deferred'[n + 1 + j] = deferred[n + k]
      BY <1>2, <3>3
    <3> QED BY <1>2, <3>1, <3>3, <3>4 DEF Way, Msg
  <2> QED BY <2>1, <2>2, <2>3, <2>4
<1> HIDE DEF f
<1>10. Flight(x)' \subseteq Flight(x) /\ \A a, b : Before(x, a, b)' => Before(x, a, b)
  BY <1>7, <1>8, WayMoved
<1>11. Flight(x) \subseteq Flight(x)'
  BY <1>9, FlightFacts
<1> QED BY <1>10, <1>11

\* The resume_accept is taken: the others move up.
LEMMA FlightAccepts ==
    ASSUME IInv, WireInv, r.phase = "accept", r'.phase = "chunks", wire[0] # << >>,
           wire' = [wire EXCEPT ![0] = Tail(@)], UNCHANGED deferred
    PROVE  \A x \in Pipes : /\ Flight(x)' = Flight(x)
                            /\ \A a, b : Before(x, a, b)' => Before(x, a, b)
<1> USE Basics
<1>1. \A x \in Pipes : wire'[x] = IF x = 0 THEN Tail(wire[x]) ELSE wire[x]
  BY DEF IInv, Shape
<1>2. /\ Len(wire[0]) \in Nat \ {0} /\ Len(wire'[0]) = Len(wire[0]) - 1
      /\ \A k \in 1..(Len(wire[0]) - 1) : wire'[0][k] = wire[0][k + 1]
  <2>1. IsList(wire[0]) /\ wire'[0] = Tail(wire[0])
    BY <1>1 DEF WireInv
  <2> QED BY <2>1, ListHead
<1> DEFINE n == Len(deferred)
<1>3. n \in Nat
  BY ListIndices DEF WireInv
<1> HIDE DEF n
<1> SUFFICES ASSUME NEW x \in Pipes
             PROVE  Flight(x)' = Flight(x) /\ \A a, b : Before(x, a, b)' => Before(x, a, b)
  OBVIOUS
<1>4. Len(wire[x]) \in Nat /\ Len(wire'[x]) = IF x = 0 THEN Len(wire[x]) - 1 ELSE Len(wire[x])
  BY <1>1, <1>2, ListIndices DEF WireInv
<1> DEFINE f == [k \in Int |-> IF k > 0 /\ x = 0 THEN k + 1 ELSE k]
<1>5. ASSUME NEW k \in Way(x)' PROVE k \in Int /\ f[k] \in Way(x) /\ Msg(x, k)' = Msg(x, f[k])
  <2>1. k \in (1 - n)..Len(wire'[x]) /\ k \in Int
    BY DEF Way, n
  <2>2. CASE k > 0 /\ x = 0
    <3>1. f[k] = k + 1 /\ k + 1 > 0 /\ k + 1 # 1 /\ k + 1 \in (1 - n)..Len(wire[x]) /\ wire'[x][k] = wire[x][k + 1]
      BY <1>2, <1>3, <2>1, <2>2
    <3> QED BY <2>1, <2>2, <3>1 DEF Way, Msg, n
  <2>3. CASE k > 0 /\ x # 0
    <3>1. f[k] = k /\ k \in (1 - n)..Len(wire[x]) /\ wire'[x] = wire[x]
      BY <1>1, <2>1, <2>3
    <3> QED BY <2>1, <2>3, <3>1 DEF Way, Msg, n
  <2>4. CASE ~(k > 0)
    <3>1. f[k] = k /\ k \in (1 - n)..Len(wire[x])
      BY <1>4, <2>1, <2>4
    <3> QED BY <2>1, <2>4, <3>1 DEF Way, Msg, n
  <2> QED BY <2>2, <2>3, <2>4
<1>6. ASSUME NEW j \in Way(x)', NEW k \in Way(x)', j < k PROVE f[j] < f[k]
  <2>1. j \in Int /\ k \in Int
    BY <1>5
  <2> QED BY <1>6, <2>1
<1>7. ASSUME NEW k \in Way(x) PROVE Msg(x, k) \in Flight(x)'
  <2>1. k \in (1 - n)..Len(wire[x]) /\ k \in Int /\ (k > 0 => ~(x = 0 /\ k = 1))
    BY DEF Way, n
  <2>2. CASE k > 0 /\ x = 0
    <3> DEFINE j == k - 1
    <3>1. j \in Int /\ j > 0 /\ j \in (1 - n)..Len(wire'[x]) /\ wire'[x][j] = wire[x][k]
      <4>1. k - 1 \in 1..(Len(wire[0]) - 1) /\ (k - 1) + 1 = k
        BY <1>2, <2>1, <2>2
      <4> QED BY <1>2, <1>3, <2>2, <4>1
    <3> HIDE DEF j
    <3>2. j \in Way(x)' /\ Msg(x, j)' = Msg(x, k)
      BY <2>2, <3>1 DEF Way, Msg, n
    <3> QED BY <3>2 DEF Flight
  <2>3. CASE k > 0 /\ x # 0
    <3>1. k \in (1 - n)..Len(wire'[x]) /\ wire'[x] = wire[x]
      BY <1>1, <2>1, <2>3
    <3>2. k \in Way(x)' /\ Msg(x, k)' = Msg(x, k)
      BY <2>3, <3>1 DEF Way, Msg, n
    <3> QED BY <3>2 DEF Flight
  <2>4. CASE ~(k > 0)
    <3>1. k \in (1 - n)..Len(wire'[x])
      BY <1>2, <1>4, <2>1, <2>4
    <3>2. k \in Way(x)' /\ Msg(x, k)' = Msg(x, k)
      BY <2>4, <3>1 DEF Way, Msg, n
    <3> QED BY <3>2 DEF Flight
  <2> QED BY <2>2, <2>3, <2>4
<1> HIDE DEF f
<1>8. Flight(x)' \subseteq Flight(x) /\ \A a, b : Before(x, a, b)' => Before(x, a, b)
  BY <1>5, <1>6, WayMoved
<1>9. Flight(x) \subseteq Flight(x)'
  BY <1>7, FlightFacts
<1> QED BY <1>8, <1>9

\* The message that arrives was on its way, and nothing on its pipe was before it.
LEMMA FlightTakes ==
    ASSUME IInv, WireInv, NEW p \in Pipes, NEW m, Arrives(p, m), r'.phase # "accept"
    PROVE  /\ m \in Flight(p) /\ \A b \in Flight(p)' : Before(p, m, b)
           /\ \A x \in Pipes : /\ Flight(x)' \subseteq Flight(x)
                               /\ \A a, b : Before(x, a, b)' => Before(x, a, b)
                               /\ \A b \in Flight(x) : b \in Flight(x)' \/ (x = p /\ b = m)
<1> USE Basics
<1>0. r.phase = "chunks"
  BY DEF Arrives
<1>1. CASE deferred # << >>
  <2> DEFINE n == Len(deferred)
  <2>1. [pipe |-> p, message |-> m] = Head(deferred) /\ deferred' = Tail(deferred) /\ wire' = wire
    BY <1>1 DEF Arrives
  <2>2. /\ n \in Nat \ {0} /\ Len(deferred') = n - 1 /\ Head(deferred) = deferred[1]
        /\ \A k \in 1..(n - 1) : deferred'[k] = deferred[k + 1]
    <3>1. IsList(deferred) /\ deferred' = Tail(deferred)
      BY <2>1 DEF WireInv
    <3> QED BY <1>1, <3>1, ListIndices
  <2>3. deferred[1].pipe = p /\ deferred[1].message = m
    BY <2>1, <2>2
  <2> HIDE DEF n
  <2> DEFINE first == 1 - n
             f == [k \in Int |-> k]
  <2>4. first \in Int /\ ~(first > 0) /\ n + first = 1 /\ Len(wire[p]) \in Nat
    BY <2>2, ListIndices DEF WireInv
  <2>5. first \in Way(p) /\ Msg(p, first) = m
    <3>1. first \in (1 - n)..Len(wire[p])
      BY <2>2, <2>4
    <3> HIDE DEF first
    <3> QED BY <2>3, <2>4, <3>1 DEF Way, Msg, n
  <2>6. ASSUME NEW x \in Pipes, NEW k \in Way(x)'
        PROVE  k \in Int /\ k > first /\ f[k] \in Way(x) /\ Msg(x, k)' = Msg(x, f[k])
    <3>1. k \in (1 - (n - 1))..Len(wire[x]) /\ k \in Int
      BY <2>1, <2>2 DEF Way
    <3>2. f[k] = k /\ k > first /\ k \in (1 - n)..Len(wire[x])
      BY <2>2, <3>1
    <3> HIDE DEF f, first
    <3>3. CASE k > 0
      BY <1>0, <2>1, <3>1, <3>2, <3>3 DEF Way, Msg, n
    <3>4. CASE ~(k > 0)
      <4>1. (n - 1) + k \in 1..(n - 1) /\ (n - 1) + k + 1 = n + k
        BY <2>2, <3>1, <3>4
      <4>2. deferred'[(n - 1) + k] = deferred[n + k]
        BY <2>2, <4>1
      <4>3. deferred'[(n - 1) + k].pipe = x /\ Msg(x, k)' = deferred'[(n - 1) + k].message
        BY <2>2, <3>4 DEF Way, Msg
      <4> QED BY <3>1, <3>2, <3>4, <4>2, <4>3 DEF Way, Msg, n
    <3> QED BY <3>1, <3>2, <3>3, <3>4
  <2>7. ASSUME NEW x \in Pipes, NEW k \in Way(x), ~(k = first) PROVE Msg(x, k) \in Flight(x)'
    <3>1. k \in (1 - n)..Len(wire[x]) /\ k \in Int
      BY DEF Way, n
    <3>2. k \in (1 - (n - 1))..Len(wire'[x])
      BY <2>1, <2>2, <2>7, <3>1
    <3>3. CASE k > 0
      <4>1. k \in Way(x)' /\ Msg(x, k)' = Msg(x, k)
        <5>1. Len(deferred') = n - 1
          BY <2>2
        <5> HIDE DEF first
        <5> QED BY <2>1, <3>2, <3>3, <5>1, r'.phase # "accept" DEF Way, Msg
      <4> QED BY <4>1 DEF Flight
    <3>4. CASE ~(k > 0)
      <4>1. (n - 1) + k \in 1..(n - 1) /\ (n - 1) + k + 1 = n + k
        BY <2>2, <3>2, <3>4
      <4>2. deferred'[(n - 1) + k] = deferred[n + k]
        BY <2>2, <4>1
      <4>3. deferred[n + k].pipe = x /\ Msg(x, k) = deferred[n + k].message
        BY <3>4 DEF Way, Msg, n
      <4>4. k \in Way(x)' /\ Msg(x, k)' = Msg(x, k)
        BY <2>2, <3>2, <3>4, <4>2, <4>3 DEF Way, Msg
      <4> QED BY <4>4 DEF Flight
    <3> QED BY <3>3, <3>4
  <2>8. ASSUME NEW x \in Pipes, x # p PROVE first \notin Way(x)
    <3>1. first \in Way(x) => deferred[n + first].pipe = x
      <4> HIDE DEF first
      <4> QED BY <2>4 DEF Way, n
    <3> QED BY <2>3, <2>4, <2>8, <3>1
  <2> HIDE DEF first
  <2>9. m \in Flight(p)
    BY <2>5, FlightFacts
  <2>10. ASSUME NEW b \in Flight(p)' PROVE Before(p, m, b)
    <3>1. PICK k \in Way(p)' : b = Msg(p, k)'
      BY DEF Flight
    <3>2. k > first /\ k \in Way(p) /\ b = Msg(p, k)
      BY <2>6, <3>1
    <3> QED BY <2>4, <2>5, <3>2 DEF Before
  <2>11. ASSUME NEW x \in Pipes
         PROVE  /\ Flight(x)' \subseteq Flight(x) /\ \A a, b : Before(x, a, b)' => Before(x, a, b)
                /\ \A b \in Flight(x) : b \in Flight(x)' \/ (x = p /\ b = m)
    <3>1. \A j, k \in Way(x)' : j < k => f[j] < f[k]
      BY <2>6
    <3> HIDE DEF f
    <3>2. Flight(x)' \subseteq Flight(x) /\ \A a, b : Before(x, a, b)' => Before(x, a, b)
      BY <2>6, <3>1, WayMoved
    <3>3. ASSUME NEW b \in Flight(x) PROVE b \in Flight(x)' \/ (x = p /\ b = m)
      <4>1. PICK k \in Way(x) : b = Msg(x, k)
        BY FlightFacts
      <4>2. CASE k = first
        BY <2>5, <2>8, <4>1, <4>2
      <4>3. CASE k # first
        BY <2>7, <4>1, <4>3
      <4> QED BY <4>2, <4>3
    <3> QED BY <3>2, <3>3
  <2> QED BY <2>9, <2>10, <2>11
<1>2. CASE deferred = << >>
  <2>1. wire[p] # << >> /\ m = Head(wire[p]) /\ wire' = [wire EXCEPT ![p] = Tail(@)] /\ deferred' = deferred
    BY <1>2 DEF Arrives
  <2>2. \A x \in Pipes : wire'[x] = IF x = p THEN Tail(wire[x]) ELSE wire[x]
    BY <2>1 DEF IInv, Shape
  <2>3. /\ Len(wire[p]) \in Nat \ {0} /\ Head(wire[p]) = wire[p][1] /\ Len(wire'[p]) = Len(wire[p]) - 1
        /\ \A k \in 1..(Len(wire[p]) - 1) : wire'[p][k] = wire[p][k + 1]
    <3>1. IsList(wire[p]) /\ wire'[p] = Tail(wire[p])
      BY <2>2 DEF WireInv
    <3> QED BY <2>1, <3>1, ListHead
  <2>4. \A x \in Pipes : /\ Len(wire[x]) \in Nat /\ \A k : k \in Way(x) <=> k \in 1..Len(wire[x])
                         /\ \A k \in 1..Len(wire[x]) : k \in Int /\ Msg(x, k) = wire[x][k]
    <3> SUFFICES ASSUME NEW x \in Pipes
                 PROVE  /\ Len(wire[x]) \in Nat /\ \A k : k \in Way(x) <=> k \in 1..Len(wire[x])
                        /\ \A k \in 1..Len(wire[x]) : k \in Int /\ Msg(x, k) = wire[x][k]
      OBVIOUS
    <3>1. Len(wire[x]) \in Nat /\ Len(deferred) = 0
      BY <1>2, ListIndices DEF WireInv
    <3>2. (1 - 0)..Len(wire[x]) = 1..Len(wire[x]) /\ \A k \in 1..Len(wire[x]) : k > 0 /\ k \in Int
      BY <3>1
    <3> QED BY <1>0, <3>1, <3>2 DEF Way, Msg
  <2>5. \A x \in Pipes : /\ Len(wire'[x]) \in Nat /\ \A k : k \in Way(x)' <=> k \in 1..Len(wire'[x])
                         /\ \A k \in 1..Len(wire'[x]) : k \in Int /\ Msg(x, k)' = wire'[x][k]
    <3> SUFFICES ASSUME NEW x \in Pipes
                 PROVE  /\ Len(wire'[x]) \in Nat /\ \A k : k \in Way(x)' <=> k \in 1..Len(wire'[x])
                        /\ \A k \in 1..Len(wire'[x]) : k \in Int /\ Msg(x, k)' = wire'[x][k]
      OBVIOUS
    <3>1. Len(wire'[x]) \in Nat /\ Len(deferred') = 0
      BY <1>2, <2>1, <2>2, <2>3, <2>4
    <3>2. (1 - 0)..Len(wire'[x]) = 1..Len(wire'[x]) /\ \A k \in 1..Len(wire'[x]) : k > 0 /\ k \in Int
      BY <3>1
    <3> QED BY <3>1, <3>2, r'.phase # "accept" DEF Way, Msg
  <2>6. m \in Flight(p) /\ 1 \in Way(p) /\ Msg(p, 1) = m
    <3>1. 1 \in 1..Len(wire[p])
      BY <2>3
    <3> QED BY <2>1, <2>3, <2>4, <3>1, FlightFacts
  <2>7. ASSUME NEW k \in Way(p)' PROVE k \in Int /\ k + 1 \in Way(p) /\ k + 1 > 1 /\ Msg(p, k)' = Msg(p, k + 1)
    <3>1. k \in 1..(Len(wire[p]) - 1) /\ k \in Int /\ Msg(p, k)' = wire[p][k + 1]
      BY <2>3, <2>5
    <3>2. k + 1 \in 1..Len(wire[p]) /\ k + 1 > 1
      BY <2>3, <3>1
    <3> QED BY <2>4, <3>1, <3>2
  <2>8. ASSUME NEW b \in Flight(p)' PROVE Before(p, m, b)
    <3>1. PICK k \in Way(p)' : b = Msg(p, k)'
      BY DEF Flight
    <3> DEFINE j == k + 1
    <3>2. j \in Way(p) /\ 1 < j /\ b = Msg(p, j)
      BY <2>7, <3>1
    <3> HIDE DEF j
    <3> QED BY <2>6, <3>2 DEF Before
  <2>9. ASSUME NEW x \in Pipes
        PROVE  /\ Flight(x)' \subseteq Flight(x) /\ \A a, b : Before(x, a, b)' => Before(x, a, b)
               /\ \A b \in Flight(x) : b \in Flight(x)' \/ (x = p /\ b = m)
    <3> DEFINE f == [k \in Int |-> IF x = p THEN k + 1 ELSE k]
    <3>1. ASSUME NEW k \in Way(x)' PROVE k \in Int /\ f[k] \in Way(x) /\ Msg(x, k)' = Msg(x, f[k])
      <4>1. CASE x = p
        <5>1. k \in Int /\ k + 1 \in Way(p) /\ Msg(p, k)' = Msg(p, k + 1)
          BY <2>7, <4>1
        <5> QED BY <4>1, <5>1
      <4>2. CASE x # p
        <5>1. wire'[x] = wire[x]
          BY <2>2, <4>2
        <5>2. k \in 1..Len(wire[x]) /\ k \in Int /\ Msg(x, k)' = wire[x][k]
          BY <2>5, <5>1
        <5> QED BY <2>4, <4>2, <5>2
      <4> QED BY <4>1, <4>2
    <3>2. ASSUME NEW j \in Way(x)', NEW k \in Way(x)', j < k PROVE f[j] < f[k]
      <4>1. j \in Int /\ k \in Int
        BY <3>1
      <4> QED BY <3>2, <4>1
    <3> HIDE DEF f
    <3>3. Flight(x)' \subseteq Flight(x) /\ \A a, b : Before(x, a, b)' => Before(x, a, b)
      BY <3>1, <3>2, WayMoved
    <3>4. ASSUME NEW b \in Flight(x) PROVE b \in Flight(x)' \/ (x = p /\ b = m)
      <4>1. PICK k \in Way(x) : b = Msg(x, k)
        BY FlightFacts
      <4>2. k \in 1..Len(wire[x]) /\ b = wire[x][k] /\ Len(wire[x]) \in Nat
        BY <2>4, <4>1
      <4>3. CASE x # p
        <5>1. k \in 1..Len(wire'[x]) /\ wire'[x] = wire[x]
          BY <2>2, <4>2, <4>3
        <5>2. k \in Way(x)' /\ Msg(x, k)' = b
          BY <2>5, <4>2, <5>1
        <5> QED BY <5>2 DEF Flight
      <4>4. CASE x = p /\ k = 1
        BY <2>6, <4>1, <4>4
      <4>5. CASE x = p /\ k # 1
        <5> DEFINE j == k - 1
        <5>1. j \in 1..Len(wire'[p]) /\ wire'[p][j] = b
          <6>1. k - 1 \in 1..(Len(wire[p]) - 1) /\ (k - 1) + 1 = k
            BY <2>3, <4>2, <4>5
          <6> QED BY <2>3, <4>2, <4>5, <6>1
        <5> HIDE DEF j
        <5>2. j \in Way(p)' /\ Msg(p, j)' = b
          BY <2>5, <5>1
        <5> QED BY <4>5, <5>2 DEF Flight
      <4> QED BY <4>3, <4>4, <4>5
    <3> QED BY <3>3, <3>4
  <2> QED BY <2>6, <2>8, <2>9
<1> QED BY <1>1, <1>2

\* What is sent comes after what is on its way.
LEMMA FlightGrows ==
    ASSUME WireInv, NEW p \in Pipes, NEW t, IsList(t), wire'[p] = wire[p] \o t,
           UNCHANGED deferred, r'.phase = r.phase, r.phase = "accept" /\ p = 0 => wire[0] # << >>
    PROVE  /\ Flight(p) \subseteq Flight(p)' /\ Flight(p)' \subseteq Flight(p) \cup Elems(t)
           /\ Elems(t) \subseteq Flight(p)'
           /\ \A a, b : Before(p, a, b)' =>
                \/ Before(p, a, b)
                \/ a \in Flight(p) /\ b \in Elems(t)
                \/ \E j, k \in 1..Len(t) : j < k /\ a = t[j] /\ b = t[k]
<1> DEFINE n == Len(deferred)
<1>0. PICK l : l = Len(wire[p])
  OBVIOUS
<1>1. /\ n \in Nat /\ l \in Nat /\ Len(t) \in Nat /\ Len(wire'[p]) = l + Len(t)
      /\ \A k \in 1..l : wire'[p][k] = wire[p][k]
      /\ \A k \in 1..Len(t) : wire'[p][l + k] = t[k]
  BY <1>0, ListIndices DEF WireInv
<1>2. r.phase = "accept" /\ p = 0 => l > 0
  BY <1>0, <1>1, ListIndices DEF WireInv
<1> HIDE DEF n
<1>3. ASSUME NEW k \in Way(p)
      PROVE  k \in Way(p)' /\ Msg(p, k)' = Msg(p, k) /\ k \in Int /\ k <= l
  <2>1. k \in (1 - n)..l /\ k \in (1 - n)..Len(wire'[p]) /\ k \in Int /\ k <= l
    BY <1>0, <1>1 DEF Way, n
  <2>2. CASE k > 0
    <3>1. wire'[p][k] = wire[p][k]
      BY <1>1, <2>1, <2>2
    <3> QED BY <2>1, <2>2, <3>1 DEF Way, Msg, n
  <2>3. CASE ~(k > 0)
    BY <2>1, <2>3 DEF Way, Msg, n
  <2> QED BY <2>2, <2>3
<1>4. ASSUME NEW k \in Way(p)', ~(k > l) PROVE k \in Way(p) /\ Msg(p, k)' = Msg(p, k) /\ k \in Int
  <2>1. k \in (1 - n)..Len(wire'[p])
    BY DEF Way, n
  <2>2. k \in (1 - n)..l /\ k \in Int
    BY <1>1, <1>4, <2>1
  <2>3. CASE k > 0
    <3>1. wire'[p][k] = wire[p][k]
      BY <1>1, <2>2, <2>3
    <3> QED BY <1>0, <2>2, <2>3, <3>1 DEF Way, Msg, n
  <2>4. CASE ~(k > 0)
    BY <2>2, <2>4 DEF Way, Msg, n
  <2> QED BY <2>3, <2>4
<1>5. ASSUME NEW k \in Way(p)', k > l
      PROVE  k \in Int /\ k - l \in 1..Len(t) /\ Msg(p, k)' = t[k - l]
  <2>1. k \in (1 - n)..Len(wire'[p])
    BY DEF Way, n
  <2>2. k - l \in 1..Len(t) /\ l + (k - l) = k /\ k > 0 /\ k \in Int
    BY <1>1, <1>5, <2>1
  <2>3. wire'[p][k] = t[k - l]
    BY <1>1, <2>2
  <2> QED BY <2>2, <2>3 DEF Msg
<1>6. ASSUME NEW k \in 1..Len(t) PROVE \E j \in Way(p)' : Msg(p, j)' = t[k]
  <2>0. wire'[p][l + k] = t[k]
    BY <1>1
  <2>1. PICK j : j = l + k /\ wire'[p][j] = t[k]
    BY <2>0, Zenon
  <2>2. j \in (1 - n)..Len(wire'[p]) /\ j > 0 /\ wire'[p][j] = t[k] /\ ~(r.phase = "accept" /\ p = 0 /\ j = 1)
    <3>1. j \in Int /\ j > l /\ j <= l + Len(t) /\ j > 0
      BY <1>1, <2>1
    <3>2. wire'[p][j] = t[k]
      BY <2>1
    <3>3. j \in (1 - n)..Len(wire'[p])
      BY <1>1, <3>1
    <3>4. r.phase = "accept" /\ p = 0 => j # 1
      BY <1>1, <1>2, <3>1
    <3> QED BY <3>1, <3>2, <3>3, <3>4
  <2>3. j \in Way(p)' /\ Msg(p, j)' = t[k]
    BY <2>2 DEF Way, Msg, n
  <2> QED BY <2>3
<1>7. Flight(p) \subseteq Flight(p)'
  <2> SUFFICES ASSUME NEW k \in Way(p) PROVE Msg(p, k) \in Flight(p)'
    BY FlightFacts
  <2> QED BY <1>3 DEF Flight
<1>8. Elems(t) \subseteq Flight(p)'
  <2> SUFFICES ASSUME NEW k \in 1..Len(t) PROVE t[k] \in Flight(p)'
    BY DEF Elems
  <2> QED BY <1>6 DEF Flight
<1>9. Flight(p)' \subseteq Flight(p) \cup Elems(t)
  <2> SUFFICES ASSUME NEW k \in Way(p)' PROVE Msg(p, k)' \in Flight(p) \cup Elems(t)
    BY DEF Flight
  <2>1. CASE k > l
    BY <1>5, <2>1 DEF Elems
  <2>2. CASE ~(k > l)
    BY <1>4, <2>2, FlightFacts
  <2> QED BY <2>1, <2>2
<1>10. ASSUME NEW a, NEW b, Before(p, a, b)'
       PROVE  \/ Before(p, a, b)
              \/ a \in Flight(p) /\ b \in Elems(t)
              \/ \E j, k \in 1..Len(t) : j < k /\ a = t[j] /\ b = t[k]
  <2>1. PICK j \in Way(p)', k \in Way(p)' : j < k /\ a = Msg(p, j)' /\ b = Msg(p, k)'
    BY <1>10 DEF Before
  <2>2. CASE ~(j > l) /\ ~(k > l)
    <3>1. j \in Way(p) /\ k \in Way(p) /\ a = Msg(p, j) /\ b = Msg(p, k)
      BY <1>4, <2>1, <2>2
    <3> QED BY <2>1, <3>1 DEF Before
  <2>3. CASE ~(j > l) /\ k > l
    <3>1. j \in Way(p) /\ a = Msg(p, j) /\ k - l \in 1..Len(t) /\ b = t[k - l]
      BY <1>4, <1>5, <2>1, <2>3
    <3> QED BY <3>1, FlightFacts DEF Elems
  <2>4. CASE j > l /\ k > l
    <3>1. j - l \in 1..Len(t) /\ a = t[j - l] /\ k - l \in 1..Len(t) /\ b = t[k - l] /\ j \in Int /\ k \in Int
      BY <1>5, <2>1, <2>4
    <3>2. j - l < k - l
      BY <1>1, <2>1, <3>1
    <3> QED BY <3>1, <3>2
  <2>5. ~(j > l /\ ~(k > l))
    BY <1>1, <1>4, <1>5, <2>1
  <2> QED BY <2>2, <2>3, <2>4, <2>5
<1> QED BY <1>7, <1>8, <1>9, <1>10

\* The resume_accept is followed by the first messages of the streams.
LEMMA FlightBegins ==
    ASSUME NEW p \in Pipes, NEW t, IsList(t), NEW a0, r'.phase = "accept", deferred' = << >>,
           wire'[p] = IF p = 0 THEN <<a0>> \o t ELSE t
    PROVE  /\ Flight(p)' = Elems(t)
           /\ \A a, b : Before(p, a, b)' => \E j, k \in 1..Len(t) : j < k /\ a = t[j] /\ b = t[k]
<1> DEFINE l == IF p = 0 THEN 1 ELSE 0
<1>1. IsList(<<a0>>) /\ Len(<<a0>>) = 1 /\ Len(<< >>) = 0
  BY OneIsList DEF AtMostOne
<1>2. Len(t) \in Nat /\ Len(wire'[p]) = l + Len(t) /\ \A k \in 1..Len(t) : wire'[p][l + k] = t[k]
  <2>1. Len(t) \in Nat
    BY ListIndices
  <2>2. CASE p = 0
    <3>1. Len(<<a0>> \o t) = 1 + Len(t) /\ \A k \in 1..Len(t) : (<<a0>> \o t)[1 + k] = t[k]
      BY <1>1, ListIndices
    <3> QED BY <2>1, <2>2, <3>1
  <2>3. CASE p # 0
    <3>1. \A k \in 1..Len(t) : 0 + k = k
      BY <2>1
    <3> QED BY <2>1, <2>3, <3>1
  <2> QED BY <2>2, <2>3
<1>3. l \in Nat /\ \A k : (k > 0 => ~(p = 0 /\ k = 1)) /\ k \in 1..(l + Len(t)) => k \in (l + 1)..(l + Len(t))
  BY <1>2
<1>4. l \in Nat /\ \A k \in Int : k > l => ~(p = 0 /\ k = 1) /\ k > 0
  OBVIOUS
<1> HIDE DEF l
<1>5. ASSUME NEW k \in Way(p)' PROVE k \in Int /\ k - l \in 1..Len(t) /\ Msg(p, k)' = t[k - l]
  <2>1. k \in (1 - 0)..(l + Len(t)) /\ (k > 0 => ~(p = 0 /\ k = 1))
    BY <1>1, <1>2 DEF Way
  <2>2. k \in 1..(l + Len(t)) /\ k > 0
    BY <1>2, <1>4, <2>1
  <2>3. k \in (l + 1)..(l + Len(t))
    BY <1>3, <2>1, <2>2
  <2>4. k \in Int /\ k - l \in 1..Len(t) /\ l + (k - l) = k
    BY <1>2, <1>4, <2>3
  <2>5. wire'[p][k] = t[k - l]
    BY <1>2, <2>4
  <2> QED BY <2>2, <2>4, <2>5 DEF Msg
<1>6. ASSUME NEW k \in 1..Len(t) PROVE t[k] \in Flight(p)'
  <2> DEFINE j == l + k
  <2>1. j \in (1 - 0)..(l + Len(t)) /\ j > 0 /\ ~(p = 0 /\ j = 1) /\ wire'[p][j] = t[k]
    <3>1. j \in Int /\ j > l /\ j <= l + Len(t)
      BY <1>2, <1>4
    <3> QED BY <1>2, <1>4, <3>1
  <2> HIDE DEF j
  <2>2. j \in Way(p)' /\ Msg(p, j)' = t[k]
    BY <1>1, <1>2, <2>1 DEF Way, Msg
  <2> QED BY <2>2 DEF Flight
<1>7. Flight(p)' = Elems(t)
  <2>1. Flight(p)' \subseteq Elems(t)
    BY <1>5 DEF Flight, Elems
  <2> QED BY <1>6, <2>1 DEF Elems
<1>8. ASSUME NEW a, NEW b, Before(p, a, b)'
      PROVE  \E j, k \in 1..Len(t) : j < k /\ a = t[j] /\ b = t[k]
  <2>1. PICK j \in Way(p)', k \in Way(p)' : j < k /\ a = Msg(p, j)' /\ b = Msg(p, k)'
    BY <1>8 DEF Before
  <2>2. j - l \in 1..Len(t) /\ a = t[j - l] /\ k - l \in 1..Len(t) /\ b = t[k - l] /\ j \in Int /\ k \in Int
    BY <1>5, <2>1
  <2>3. j - l < k - l
    BY <1>4, <2>1, <2>2
  <2> QED BY <2>2, <2>3
<1> QED BY <1>7, <1>8

\* Every message on its way is sound.
LEMMA FlightSound ==
    ASSUME WireInv
    PROVE  \A p \in Pipes : \A m \in Flight(p) : Sound(m)
<1> SUFFICES ASSUME NEW p \in Pipes, NEW k \in Way(p) PROVE Sound(Msg(p, k))
  BY DEF Flight
<1>1. k \in (1 - Len(deferred))..Len(wire[p]) /\ Len(deferred) \in Nat /\ Len(wire[p]) \in Nat
  BY ListIndices DEF WireInv, Way
<1>2. CASE k > 0
  <2>1. wire[p][k] \in Elems(wire[p])
    BY <1>1, <1>2 DEF Elems
  <2> QED BY <1>2, <2>1 DEF WireInv, Msg
<1>3. CASE ~(k > 0)
  <2>1. deferred[Len(deferred) + k] \in Elems(deferred)
    BY <1>1, <1>3 DEF Elems
  <2> QED BY <1>3, <2>1 DEF WireInv, Msg
<1> QED BY <1>2, <1>3

(***************************************************************************)
(* What a step leaves alone.                                                *)
(***************************************************************************)

\* Neither side has done anything about the streams.
LEMMA FlowFrame ==
    ASSUME FlowInv, UNCHANGED <<wire, deferred>>, edits' # 0 \/ UNCHANGED edits,
           r'.phase = r.phase, r'.pipes = r.pipes, r'.striping = r.striping,
           r'.opened = r.opened, r'.ended = r.ended, r'.ranges = r.ranges, r'.mode = r.mode,
           s'.pipes = s.pipes, s'.striping = s.striping, s'.offset = s.offset,
           s'.done = s.done, s'.ended = s.ended, s'.phase = "chunks" => s.phase = "chunks"
    PROVE  FlowInv'
<1> SUFFICES ASSUME Flowing', edits' = 0 PROVE SentInv' /\ OrderInv' /\ WholeInv'
  BY DEF FlowInv
<1>1. SentInv /\ OrderInv /\ WholeInv
  BY DEF FlowInv, Flowing
<1>2. \A p \in Pipes : Flight(p)' = Flight(p) /\ \A a, b : Before(p, a, b)' => Before(p, a, b)
  BY FlightStays
<1>3. \A i \in Files : Got(i)' = Got(i)
  BY DEF Got
<1>4. SentInv'
  BY <1>1, <1>3 DEF SentInv
<1>5. OrderInv'
  <2>1. \A i : ChunkPipes(r, i)' = ChunkPipes(r, i) /\ Got(i)' = Got(i)
    BY DEF ChunkPipes, PipeForItem, Got
  <2>2. \A p, m : Fits(p, m) => Fits(p, m)'
    BY <2>1 DEF Fits
  <2>3. \A a, b : MayFollow(a, b) => MayFollow(a, b)'
    BY DEF MayFollow
  <2>4. \A p \in Pipes : \A m \in Flight(p)' : Fits(p, m)'
    BY <1>1, <1>2, <2>2 DEF OrderInv
  <2>5. \A p \in Pipes : \A a, b \in Flight(p)' : Before(p, a, b)' => MayFollow(a, b)'
    BY <1>1, <1>2, <2>3 DEF OrderInv
  <2>6. \A p, q \in Pipes : p # q => \A a \in Flight(p)', b \in Flight(q)' : Apart(a, b)
    BY <1>1, <1>2 DEF OrderInv
  <2> QED BY <2>4, <2>5, <2>6 DEF OrderInv, Apart
<1>6. WholeInv'
  <2>1. \A i : OpenComes(i) => OpenComes(i)'
    BY <1>2 DEF OpenComes
  <2>2. \A i, x : BlockComes(i, x) => BlockComes(i, x)'
    BY <1>2 DEF BlockComes, Span
  <2> QED BY <1>1, <1>3, <2>1, <2>2 DEF WholeInv
<1> QED BY <1>4, <1>5, <1>6

\* No stream flows.
LEMMA FlowOver ==
    ASSUME r'.phase \notin {"accept", "chunks"} \/ (r'.phase = "accept" /\ wire'[0] = << >>)
    PROVE  FlowInv'
BY DEF FlowInv, Flowing

LEMMA CalmFrame ==
    ASSUME CalmInv, UNCHANGED conflict,
           r'.phase = r.phase, r'.pipes = r.pipes, r'.striping = r.striping,
           r'.opened = r.opened, r'.ended = r.ended,
           s'.phase \notin {"ack", "resume"} \/
               (s'.phase = s.phase /\ s'.pipes = s.pipes /\ s'.striping = s.striping /\ back' = back),
           r.phase \in {"hello", "manifest"} \/ (r.phase = "accept" /\ wire'[0] = << >>) =>
               /\ deferred' = deferred /\ \A p \in Pipes \ {0} : wire'[p] = wire[p]
               /\ r.phase = "accept" => wire[0] = << >>
    PROVE  CalmInv'
BY DEF CalmInv

LEMMA AnswerFrame ==
    ASSUME AnswerInv, UNCHANGED final, edits' # 0 \/ UNCHANGED edits,
           r'.phase = r.phase, r'.mode = r.mode, r'.ranges = r.ranges, r'.declared = r.declared,
           r'.open = r.open, r'.slot = r.slot, r'.overwrite = r.overwrite,
           s'.phase # "resume" \/ (s'.phase = s.phase /\ back' = back),
           r.phase = "accept" /\ wire'[0] # << >> =>
               wire[0] # << >> /\ Head(wire'[0]) = Head(wire[0])
    PROVE  AnswerInv'
<1>1. r'.phase = "accept" /\ s'.phase = "resume" /\ back' # << >> => Asked(Head(back).entries)'
  BY DEF AnswerInv, Asked
<1>2. r'.phase = "accept" /\ wire'[0] # << >> /\ edits' = 0 => Granted(Head(wire[0]).entries)'
  BY DEF AnswerInv, Granted
<1>3. r'.phase \in {"chunks", "finalize"} /\ edits' = 0 =>
           \A i \in Receiving' : r'.declared[i] = Original(i)
  BY DEF AnswerInv, Receiving
<1>4. r'.phase \in {"accept", "chunks", "finalize"} => \A i \in r'.open : Placeable(i)'
  BY DEF AnswerInv, Placeable
<1> QED BY <1>1, <1>2, <1>3, <1>4 DEF AnswerInv

\* A receiver that has ended well, or was interrupted.
LEMMA EndedN ==
    ASSUME CalmInv, UNCHANGED conflict, r'.phase \in {"success", "failed"}
    PROVE  NInv'
<1>1. FlowInv'
  BY FlowOver
<1> QED BY <1>1 DEF NInv, CalmInv, AnswerInv, NoRefusal

LEMMA RefusalFrame ==
    ASSUME NoRefusal, edits \in Nat, edits' = edits \/ edits' = edits + 1,
           r'.phase = r.phase \/ r'.phase # "error"
    PROVE  NoRefusal'
BY DEF NoRefusal

(***************************************************************************)
(* The handshake.                                                           *)
(***************************************************************************)

LEMMA InitiallyN == Init => NInv
<1> SUFFICES ASSUME Init PROVE NInv
  OBVIOUS
<1>1. /\ r.phase = "hello" /\ s.phase = "hello" /\ r.opened = {} /\ r.ended = {}
      /\ deferred = << >> /\ (\A p \in Pipes : wire[p] = << >>) /\ conflict \in Policies
  BY DEF Init, NewReceiver, NewSender, Quiet
<1> QED BY <1>1 DEF NInv, CalmInv, AnswerInv, FlowInv, Flowing, NoRefusal

LEMMA HelloSentN == ASSUME IInv, PInv, NInv, SendHello PROVE NInv'
<1> USE DEF sourceVars, fsVars, faultVars, fixedVars
<1>0. Shape /\ HandshakeInv /\ CalmInv /\ NoRefusal
  BY DEF IInv, NInv
<1>1. /\ r.phase \in {"hello", "failed"} /\ s'.phase = "ack" /\ r' = r /\ edits' = edits
      /\ wire' = [wire EXCEPT ![0] = Append(@, Message("hello"))] /\ deferred' = deferred
      /\ conflict' = conflict
  BY <1>0 DEF SendHello, HandshakeInv, Shape, SenderFields
<1>2. \A p \in Pipes \ {0} : wire'[p] = wire[p]
  BY <1>0, <1>1 DEF Shape
<1>3. CalmInv'
  BY <1>0, <1>1, <1>2 DEF CalmInv
<1> QED BY <1>0, <1>1, <1>3, FlowOver DEF NInv, AnswerInv, NoRefusal

LEMMA HelloReceivedN == ASSUME IInv, PInv, NInv, RecvHello PROVE NInv'
<1> USE Basics DEF sourceVars, fsVars, faultVars, fixedVars
<1> DEFINE count == Least(SenderPipes, ReceiverPipes)
           answer == [type |-> "hello_ack", connections |-> count,
                      striping |-> peersStripe /\ count > 1]
<1>0. Shape /\ HandshakeInv /\ CalmInv
  BY DEF IInv, NInv
<1>1. /\ r.phase = "hello" /\ back = << >> /\ s' = s /\ deferred' = deferred /\ conflict' = conflict
      /\ wire[0] # << >>
      /\ wire' = [wire EXCEPT ![0] = Tail(@)] /\ back' = Append(back, answer)
      /\ r' = [r EXCEPT !.phase = "manifest", !.pipes = count,
                      !.striping = peersStripe /\ count > 1]
  BY <1>0 DEF RecvHello, HandshakeInv
<1>2. Head(back') = answer
  <2> HIDE DEF answer
  <2> QED BY <1>1, OneFacts
<1> HIDE DEF count
<1>3. /\ r'.phase = "manifest" /\ r'.pipes = count /\ r'.striping = (peersStripe /\ count > 1)
      /\ r'.opened = r.opened /\ r'.ended = r.ended
  BY <1>0, <1>1 DEF Shape, ReceiverFields
<1>4. \A p \in Pipes \ {0} : wire'[p] = wire[p]
  BY <1>0, <1>1 DEF Shape
<1>5. s.phase # "resume"
  BY <1>0, <1>1 DEF HandshakeInv
<1>6. CalmInv'
  BY <1>0, <1>1, <1>2, <1>3, <1>4, <1>5 DEF CalmInv
<1> QED BY <1>3, <1>6, FlowOver DEF NInv, AnswerInv, NoRefusal

LEMMA ManifestSentN == ASSUME IInv, PInv, NInv, SendManifest PROVE NInv'
<1> USE Basics DEF sourceVars, fsVars, faultVars, fixedVars
<1>0. Shape /\ HandshakeInv /\ CalmInv /\ NoRefusal
  BY DEF IInv, NInv
<1>1. /\ s.phase = "ack" /\ back # << >> /\ deferred' = deferred /\ conflict' = conflict
      /\ r' = r /\ edits' = edits
      /\ s' = [s EXCEPT !.phase = "resume", !.pipes = Head(back).connections,
                        !.striping = Head(back).striping]
      /\ wire' = [wire EXCEPT ![0] = Append(@, Message("manifest"))]
  BY DEF SendManifest
<1>2. r.phase \in {"manifest", "failed"}
  BY <1>0, <1>1 DEF HandshakeInv
<1>3. s'.phase = "resume" /\ s'.pipes = Head(back).connections /\ s'.striping = Head(back).striping
  BY <1>0, <1>1 DEF Shape, SenderFields
<1>4. \A p \in Pipes \ {0} : wire'[p] = wire[p]
  BY <1>0, <1>1 DEF Shape
<1>5. CalmInv'
  BY <1>0, <1>1, <1>2, <1>3, <1>4 DEF CalmInv
<1> QED BY <1>0, <1>1, <1>2, <1>5, FlowOver DEF NInv, AnswerInv, NoRefusal

\* The store opens: what it asks for is what its part files hold, and a path
\* that is not to be replaced is free.
LEMMA ManifestReceivedN == ASSUME IInv, PInv, NInv, RecvManifest PROVE NInv'
<1> USE Basics DEF sourceVars, fsVars, faultVars, fixedVars
<1>0. Shape /\ HandshakeInv /\ CalmInv /\ SessionInv /\ PartInv
  BY DEF IInv, NInv, PInv
<1> DEFINE receive == {i \in Files : Mode(i) = "receive"}
           offset(slot) == [i \in Files |-> IF Mode(i) = "receive"
                                            THEN Least(Len(part[i][slot[i]]), Size[i])
                                            ELSE Size[i]]
           answer(slot) == [type |-> "resume",
                entries |-> [i \in Files |->
                    [offset |-> offset(slot)[i], skip |-> i \notin receive,
                     prefix |-> part'[i][slot[i]]]]]
           ranges(slot) == [i \in Files |-> 0..(offset(slot)[i] - 1)]
           overwrite == {i \in receive : Exists(i) /\ conflict = "overwrite"}
<1>1. PICK slot \in [Files -> Slots] :
         /\ \A i \in Files : slot[i] \in OpenSlots(i)
         /\ r' = [r EXCEPT !.phase = "accept", !.slot = slot, !.open = receive,
                           !.mode = [i \in Files |-> Mode(i)],
                           !.overwrite = overwrite,
                           !.ranges = ranges(slot)]
         /\ back' = Append(back, answer(slot))
  BY DEF RecvManifest
<1>2. /\ r.phase = "manifest" /\ wire' = [wire EXCEPT ![0] = Tail(@)] /\ wire[0] # << >>
      /\ final' = final /\ conflict' = conflict /\ s' = s /\ deferred' = deferred
  BY DEF RecvManifest
<1>3. back = << >> /\ AtMostOne(wire[0])
  BY <1>0, <1>2 DEF HandshakeInv
<1>4. wire'[0] = << >> /\ \A p \in Pipes \ {0} : wire'[p] = wire[p]
  BY <1>0, <1>2, <1>3, OneFacts DEF Shape, AtMostOne
<1>5. \A i \in Files : /\ answer(slot).entries[i].offset = offset(slot)[i]
                       /\ answer(slot).entries[i].skip = (i \notin receive)
  OBVIOUS
<1>6. ASSUME NEW i \in Files
      PROVE  /\ Size[i] \in Nat /\ offset(slot)[i] \in 0..Size[i]
             /\ i \notin receive => offset(slot)[i] = Size[i]
             /\ ranges(slot)[i] = 0..(offset(slot)[i] - 1)
  <2>1. part[i] \in [Slots -> Seq(Nat)] /\ slot[i] \in Slots /\ Size[i] \in Nat
    BY <1>0, Typing DEF PartInv
  <2>2. Len(part[i][slot[i]]) \in Nat
    BY <2>1, SlotFacts
  <2> QED BY <2>1, <2>2 DEF Least
<1> HIDE DEF answer, ranges, offset
<1>7. Head(back') = answer(slot)
  BY <1>1, <1>3, OneFacts
<1>8. /\ r'.phase = "accept" /\ r'.slot = slot /\ r'.open = receive
      /\ r'.mode = [i \in Files |-> Mode(i)] /\ r'.overwrite = overwrite /\ r'.ranges = ranges(slot)
      /\ r'.pipes = r.pipes /\ r'.striping = r.striping /\ r'.opened = r.opened /\ r'.ended = r.ended
  BY <1>0, <1>1 DEF Shape, ReceiverFields
<1>9. CalmInv'
  BY <1>0, <1>2, <1>4, <1>8 DEF CalmInv
<1>10. Asked(Head(back).entries)'
  <2> SUFFICES ASSUME NEW i \in Files
               PROVE  /\ Head(back').entries[i].skip = (r'.mode[i] # "receive")
                      /\ Head(back').entries[i].offset \in 0..Size[i]
                      /\ Head(back').entries[i].skip => Head(back').entries[i].offset = Size[i]
                      /\ r'.ranges[i] = 0..(Head(back').entries[i].offset - 1)
    BY DEF Asked
  <2>1. Head(back').entries[i].skip = (i \notin receive)
    BY <1>5, <1>7
  <2>2. Head(back').entries[i].offset = offset(slot)[i]
    BY <1>5, <1>7
  <2>3. r'.mode[i] = Mode(i) /\ r'.ranges[i] = 0..(offset(slot)[i] - 1)
    BY <1>6, <1>8
  <2> QED BY <1>6, <2>1, <2>2, <2>3
<1>11. ASSUME NEW i \in Files, Mode(i) = "receive"
       PROVE  final[i][slot[i]] = Absent \/ i \in overwrite
  <2>1. conflict \in {"overwrite", "skip", "rename"}
    BY <1>0, TransferConstants DEF CalmInv
  <2>2. slot[i] \in OpenSlots(i)
    BY <1>1
  <2>3. CASE Exists(i) /\ conflict = "rename"
    BY <1>11, <2>2, <2>3 DEF OpenSlots, RenameSlots
  <2>4. CASE ~Exists(i)
    BY <1>11, <2>2, <2>4 DEF OpenSlots, Exists
  <2>5. CASE Exists(i) /\ conflict = "overwrite"
    BY <1>11, <2>5
  <2>6. CASE Exists(i) /\ conflict = "skip"
    BY <1>11, <2>6 DEF Mode
  <2> QED BY <2>1, <2>3, <2>4, <2>5, <2>6
<1>12. \A i \in r'.open : Placeable(i)'
  BY <1>2, <1>8, <1>11 DEF Placeable
<1>13. AnswerInv'
  BY <1>4, <1>8, <1>10, <1>12 DEF AnswerInv
<1> QED BY <1>4, <1>8, <1>9, <1>13, FlowOver DEF NInv, NoRefusal

(***************************************************************************)
(* The sender's steps.                                                      *)
(***************************************************************************)

LEMMA PipeIs ==
    ASSUME NEW pipes \in 1..SenderPipes, NEW i \in Items
    PROVE  PipeForItem(pipes, i) \in Pipes
<1>1. SenderPipes \in Nat /\ i \in Int
  BY TransferConstants, Typing
<1>2. CASE pipes <= 1
  BY <1>2, Basics DEF PipeForItem
<1>3. CASE ~(pipes <= 1)
  <2> DEFINE n == pipes - 1
  <2>1. n \in Nat \ {0} /\ n + 1 <= SenderPipes
    BY <1>1, <1>3
  <2>2. PipeForItem(pipes, i) = 1 + (i % n)
    BY <1>3 DEF PipeForItem
  <2> HIDE DEF n
  <2>3. i % n \in 0..(n - 1)
    BY <1>1, <2>1
  <2> QED BY <1>1, <2>1, <2>2, <2>3 DEF Pipes
<1> QED BY <1>2, <1>3

\* On a pipe an item's stream is opened before it is ended, each once.
LEMMA OnPipeOrders ==
    ASSUME NEW M \in SUBSET Lifecycles, IsFiniteSet(M), NEW pipes, NEW p,
           NEW t, t = OnPipe(pipes, M, p)
    PROVE  /\ IsList(t) /\ \A m \in Elems(t) : m \in M /\ PipeForItem(pipes, m.item) = p
           /\ \A j, k \in 1..Len(t) : j < k /\ t[j].item = t[k].item =>
                t[j].type = "stream_open" /\ t[k].type = "stream_end"
           /\ \A m \in M : PipeForItem(pipes, m.item) = p => m \in Elems(t)
<1>1. IsList(t) /\ Len(t) \in Nat
  BY OnPipeIs
<1>2. \A k \in 1..Len(t) : t[k] \in M /\ PipeForItem(pipes, t[k].item) = p
  BY OnPipeIs
<1>3. \A j, k \in 1..Len(t) : j < k => t[j] # t[k] /\ ~Precedes(t[k], t[j])
  BY OnPipeIs
<1>4. \A m \in M : PipeForItem(pipes, m.item) = p => \E k \in 1..Len(t) : t[k] = m
  BY OnPipeIs
<1>5. \A m \in Lifecycles : m.type \in {"stream_open", "stream_end"} /\ m = Lifecycle(m.type, m.item)
  BY DEF Lifecycles, Lifecycle, Message
<1>6. ASSUME NEW j \in 1..Len(t), NEW k \in 1..Len(t), j < k, t[j].item = t[k].item
      PROVE  t[j].type = "stream_open" /\ t[k].type = "stream_end"
  <2>1. t[j] \in Lifecycles /\ t[k] \in Lifecycles /\ t[j] # t[k] /\ ~Precedes(t[k], t[j])
    BY <1>2, <1>3, <1>6
  <2>2. t[j].type # t[k].type
    BY <1>5, <1>6, <2>1
  <2>3. ~(t[k].type = "stream_open" /\ t[j].type = "stream_end")
    BY <1>6, <2>1 DEF Precedes
  <2> QED BY <1>5, <2>1, <2>2, <2>3
<1> QED BY <1>1, <1>2, <1>4, <1>6 DEF Elems

\* The streams of S are opened, those of T are ended.
Streams(S, T) == {Lifecycle("stream_open", i) : i \in S} \cup {Lifecycle("stream_end", i) : i \in T}

LEMMA StreamsAre ==
    ASSUME NEW S, NEW T, S \subseteq Items, T \subseteq Items
    PROVE  /\ Streams(S, T) \in SUBSET Lifecycles /\ IsFiniteSet(Streams(S, T))
           /\ \A m \in Streams(S, T) : /\ m.type \in {"stream_open", "stream_end"} /\ m.item \in Items
                                       /\ m.type = "stream_open" => m.item \in S
                                       /\ m.type = "stream_end" => m.item \in T
           /\ \A i \in S : \E m \in Streams(S, T) : m.type = "stream_open" /\ m.item = i
           /\ \A i \in T : \E m \in Streams(S, T) : m.type = "stream_end" /\ m.item = i
<1>1. IsFiniteSet(Streams(S, T))
  BY LifecyclesFinite, FS_Union DEF Streams
<1>2. Streams(S, T) \in SUBSET Lifecycles
  BY DEF Lifecycles, Streams
<1>3. \A i : /\ Lifecycle("stream_open", i).type = "stream_open" /\ Lifecycle("stream_open", i).item = i
             /\ Lifecycle("stream_end", i).type = "stream_end" /\ Lifecycle("stream_end", i).item = i
  BY DEF Lifecycle, Message
<1>4. \A m \in Streams(S, T) : /\ m.type \in {"stream_open", "stream_end"} /\ m.item \in Items
                               /\ m.type = "stream_open" => m.item \in S
                               /\ m.type = "stream_end" => m.item \in T
  BY <1>3 DEF Streams
<1>5. /\ \A i \in S : Lifecycle("stream_open", i) \in Streams(S, T)
      /\ \A i \in T : Lifecycle("stream_end", i) \in Streams(S, T)
  BY DEF Streams
<1> QED BY <1>1, <1>2, <1>3, <1>4, <1>5

\* What goes over a pipe of the messages M that start or end streams.
LEMMA StreamsSent ==
    ASSUME NEW S, NEW T, NEW M, S \subseteq Items, T \subseteq Items, M = Streams(S, T),
           NEW pipes, NEW p, NEW t, t = OnPipe(pipes, M, p)
    PROVE  /\ IsList(t)
           /\ \A m \in Elems(t) :
                /\ m.type \in {"stream_open", "stream_end"} /\ m.item \in Items
                /\ p = PipeForItem(pipes, m.item)
                /\ m.type = "stream_open" => m.item \in S
                /\ m.type = "stream_end" => m.item \in T
           /\ \A j, k \in 1..Len(t) : j < k /\ t[j].item = t[k].item =>
                t[j].type = "stream_open" /\ t[k].type = "stream_end"
           /\ \A i \in S : p = PipeForItem(pipes, i) =>
                \E m \in Elems(t) : m.type = "stream_open" /\ m.item = i
<1>1. /\ M \in SUBSET Lifecycles /\ IsFiniteSet(M)
      /\ \A m \in M : /\ m.type \in {"stream_open", "stream_end"} /\ m.item \in Items
                      /\ m.type = "stream_open" => m.item \in S
                      /\ m.type = "stream_end" => m.item \in T
      /\ \A i \in S : \E m \in M : m.type = "stream_open" /\ m.item = i
  BY StreamsAre
<1>2. IsList(t) /\ \A m \in Elems(t) : m \in M /\ PipeForItem(pipes, m.item) = p
  BY <1>1, OnPipeOrders
<1>3. \A j, k \in 1..Len(t) : j < k /\ t[j].item = t[k].item =>
           t[j].type = "stream_open" /\ t[k].type = "stream_end"
  BY <1>1, OnPipeOrders
<1>4. \A m \in M : PipeForItem(pipes, m.item) = p => m \in Elems(t)
  BY <1>1, OnPipeOrders
<1> QED BY <1>1, <1>2, <1>3, <1>4

\* What the sender declares of an unchanged source is the source.
LEMMA HashIs ==
    ASSUME HashInv, SourceInv, edits = 0, NEW i \in Files PROVE Hashed(i) = Original(i)
BY DEF HashInv, SourceInv, Hashed

\* The streams begin: the sender answers what was asked.
LEMMA AcceptSentN == ASSUME IInv, PInv, NInv, SendAccept PROVE NInv'
<1> USE Basics DEF sourceVars, fsVars, faultVars, fixedVars
<1>0. /\ Shape /\ HandshakeInv /\ HashInv /\ CalmInv /\ AnswerInv /\ NoRefusal
      /\ SourceInv /\ SessionInv /\ WireInv /\ PartInv
  BY DEF IInv, NInv, PInv
<1> DEFINE entries == Head(back).entries
           offset == [i \in Files |-> AcceptOffset(i, entries[i])]
           done == {i \in Files : offset[i] >= Size[i]}
           ended == done \cup (Items \ Files)
           accept == [type |-> "resume_accept",
                      entries |-> [i \in Files |->
                          [offset |-> offset[i], skip |-> entries[i].skip,
                           sha256 |-> IF entries[i].skip THEN Absent ELSE Hashed(i)]]]
           opens == Streams(Items, ended)
<1>1. /\ s.phase = "resume" /\ back # << >>
      /\ s' = [s EXCEPT !.phase = "chunks", !.offset = offset, !.done = done, !.ended = ended]
      /\ wire' = [p \in Pipes |-> wire[p] \o (IF p = 0 THEN <<accept>> ELSE << >>)
                                          \o OnPipe(s.pipes, opens, p)]
      /\ UNCHANGED <<edits, final, r, deferred, conflict>>
  BY DEF SendAccept, Streams
<1>2. /\ s'.phase = "chunks" /\ s'.offset = offset /\ s'.done = done /\ s'.ended = ended
      /\ s'.pipes = s.pipes /\ s'.striping = s.striping
  BY <1>0, <1>1 DEF Shape, SenderFields
<1>3. CASE r.phase # "accept"
  <2>1. r.phase = "failed"
    BY <1>0, <1>1, <1>3 DEF HandshakeInv
  <2> QED BY <1>0, <1>1, <2>1, EndedN
<1>4. CASE r.phase = "accept"
  <2>1. /\ deferred = << >> /\ \A p \in Pipes : wire[p] = << >>
        /\ r.opened = {} /\ r.ended = {} /\ s.pipes = r.pipes /\ s.striping = r.striping
    <3>1. wire[0] = << >>
      BY <1>0, <1>1, <1>4 DEF HandshakeInv
    <3> QED BY <1>0, <1>1, <1>4, <3>1 DEF CalmInv
  <2>2. \A i \in Files : /\ accept.entries[i].offset = offset[i]
                         /\ accept.entries[i].skip = entries[i].skip
                         /\ ~entries[i].skip => accept.entries[i].sha256 = Hashed(i)
    OBVIOUS
  <2>3. Asked(entries)
    BY <1>0, <1>1, <1>4 DEF AnswerInv
  <2>4. ASSUME NEW i \in Files
        PROVE  /\ Size[i] \in Nat /\ entries[i].offset \in 0..Size[i] /\ offset[i] \in {0, entries[i].offset}
               /\ Prefix(r.ranges[i]) = entries[i].offset
               /\ entries[i].skip = (r.mode[i] # "receive")
               /\ entries[i].skip => offset[i] = Size[i] /\ i \in done
    <3>1. Size[i] \in Nat
      BY Typing
    <3>2. /\ entries[i].offset \in 0..Size[i] /\ entries[i].skip = (r.mode[i] # "receive")
          /\ entries[i].skip => entries[i].offset = Size[i]
          /\ r.ranges[i] = 0..(entries[i].offset - 1)
      BY <2>3 DEF Asked
    <3>3. offset[i] \in {0, entries[i].offset} /\ (entries[i].skip => offset[i] = Size[i])
      BY <3>2 DEF AcceptOffset
    <3>4. Prefix(r.ranges[i]) = entries[i].offset
      BY <3>1, <3>2, PrefixInterval
    <3>5. entries[i].skip => i \in done
      BY <3>1, <3>3
    <3> HIDE DEF entries, offset, done
    <3> QED BY <3>1, <3>2, <3>3, <3>4, <3>5
  <2> HIDE DEF accept
  <2>5. ended \in SUBSET Items /\ Items \in SUBSET Items
    OBVIOUS
  <2> HIDE DEF ended
  <2>6. ASSUME NEW p \in Pipes, NEW t, t = OnPipe(s.pipes, opens, p)
        PROVE  /\ IsList(t)
               /\ \A m \in Elems(t) :
                    /\ m.type \in {"stream_open", "stream_end"} /\ m.item \in Items
                    /\ p = PipeForItem(s.pipes, m.item)
                    /\ m.type = "stream_end" => m.item \in ended
               /\ \A j, k \in 1..Len(t) : j < k /\ t[j].item = t[k].item =>
                    t[j].type = "stream_open" /\ t[k].type = "stream_end"
               /\ \A i \in Items : p = PipeForItem(s.pipes, i) =>
                    \E m \in Elems(t) : m.type = "stream_open" /\ m.item = i
    <3>1. t = OnPipe(s.pipes, Streams(Items, ended), p)
      BY <2>6
    <3> HIDE DEF opens
    <3>2. IsList(t) /\ \A j, k \in 1..Len(t) : j < k /\ t[j].item = t[k].item =>
                t[j].type = "stream_open" /\ t[k].type = "stream_end"
      BY <2>5, <3>1, StreamsSent
    <3>3. \A m \in Elems(t) :
                    /\ m.type \in {"stream_open", "stream_end"} /\ m.item \in Items
                    /\ p = PipeForItem(s.pipes, m.item)
                    /\ m.type = "stream_end" => m.item \in ended
      BY <2>5, <3>1, StreamsSent
    <3>4. \A i \in Items : p = PipeForItem(s.pipes, i) =>
                    \E m \in Elems(t) : m.type = "stream_open" /\ m.item = i
      BY <2>5, <3>1, StreamsSent
    <3> QED BY <3>2, <3>3, <3>4
  <2> HIDE DEF opens
  <2>7. ASSUME NEW p \in Pipes, NEW t, t = OnPipe(s.pipes, opens, p)
        PROVE  wire'[p] = IF p = 0 THEN <<accept>> \o t ELSE t
    <3>1. IsList(t) /\ IsList(<< >>) /\ IsList(<<accept>>)
      BY <2>6, <2>7, OneIsList DEF AtMostOne
    <3>2. wire'[p] = << >> \o (IF p = 0 THEN <<accept>> ELSE << >>) \o t
      BY <1>1, <2>1, <2>7
    <3>3. << >> \o <<accept>> = <<accept>> /\ << >> \o << >> = << >> /\ << >> \o t = t
      BY <3>1, ListConcat
    <3> QED BY <3>2, <3>3
  <2>8. ASSUME NEW p \in Pipes, NEW t, t = OnPipe(s.pipes, opens, p)
        PROVE  /\ Flight(p)' = Elems(t)
               /\ \A a, b : Before(p, a, b)' => \E j, k \in 1..Len(t) : j < k /\ a = t[j] /\ b = t[k]
    <3>1. IsList(t) /\ wire'[p] = IF p = 0 THEN <<accept>> \o t ELSE t
      BY <2>6, <2>7, <2>8
    <3>2. r'.phase = "accept" /\ deferred' = << >>
      BY <1>1, <1>4, <2>1
    <3> QED BY <3>1, <3>2, FlightBegins
  <2>9. \A p \in Pipes : \A m \in Flight(p)' :
            /\ m.type \in {"stream_open", "stream_end"} /\ m.item \in Items
            /\ p = PipeForItem(s.pipes, m.item)
            /\ m.type = "stream_end" => m.item \in ended
    BY <2>6, <2>8
  <2>10. \A p \in Pipes : \A a, b : Before(p, a, b)' /\ a.item = b.item =>
            a.type = "stream_open" /\ b.type = "stream_end"
    BY <2>6, <2>8
  <2>11. wire'[0] # << >> /\ Head(wire'[0]) = accept
    <3> DEFINE t == OnPipe(s.pipes, opens, 0)
    <3>1. wire'[0] = <<accept>> \o t /\ IsList(t)
      BY <2>6, <2>7
    <3>2. IsList(<<accept>>) /\ <<accept>> # << >> /\ Head(<<accept>>) = accept
      BY OneIsList, OneFacts DEF AtMostOne
    <3> HIDE DEF t
    <3> QED BY <3>1, <3>2, ListConcat
  <2>12. \A i \in Files : Got(i)' = 0..(offset[i] - 1)
    <3> SUFFICES ASSUME NEW i \in Files PROVE Got(i)' = 0..(offset[i] - 1)
      OBVIOUS
    <3>1. Got(i)' = 0..(Head(wire'[0]).entries[i].offset - 1)
      BY <1>1, <1>4 DEF Got
    <3> QED BY <2>2, <2>11, <3>1
  <2>13. SentInv'
    <3>1. \A i \in Files : /\ s'.offset[i] <= Size[i] /\ Got(i)' \subseteq 0..(s'.offset[i] - 1)
                           /\ r'.mode[i] # "receive" => i \in s'.done
      <4> SUFFICES ASSUME NEW i \in Files
                   PROVE  /\ s'.offset[i] <= Size[i] /\ Got(i)' \subseteq 0..(s'.offset[i] - 1)
                          /\ r'.mode[i] # "receive" => i \in s'.done
        OBVIOUS
      <4> HIDE DEF offset, done, entries
      <4>1. s'.offset[i] = offset[i] /\ s'.done = done /\ r'.mode[i] = r.mode[i]
        BY <1>1, <1>2
      <4>2. s'.offset[i] <= Size[i]
        BY <2>4, <4>1
      <4>3. r.mode[i] # "receive" => i \in done
        BY <2>4
      <4> QED BY <2>12, <4>1, <4>2, <4>3
    <3>2. s'.ended \subseteq s'.done \cup (Items \ Files)
      BY <1>2 DEF ended
    <3> QED BY <1>1, <1>2, <2>1, <3>1, <3>2 DEF SentInv
  <2>14. OrderInv'
    <3>1. \A p \in Pipes : \A m \in Flight(p)' : Fits(p, m)'
      BY <1>1, <1>2, <2>1, <2>9 DEF Fits, PipeForItem
    <3>2. \A p \in Pipes : \A a, b \in Flight(p)' : Before(p, a, b)' => MayFollow(a, b)'
      BY <2>10 DEF MayFollow
    <3>3. \A p, q \in Pipes : p # q => \A a \in Flight(p)', b \in Flight(q)' : Apart(a, b)'
      BY <2>9 DEF Apart
    <3> QED BY <3>1, <3>2, <3>3 DEF OrderInv
  <2>15. WholeInv'
    <3>1. ASSUME NEW i \in Items PROVE OpenComes(i)'
      <4>1. PICK p \in Pipes : p = PipeForItem(s.pipes, i)
        BY <1>0, PipeIs DEF SessionInv
      <4>2. \E m \in Flight(p)' : m.type = "stream_open" /\ m.item = i
        BY <2>6, <2>8, <4>1
      <4> QED BY <4>2 DEF OpenComes
    <3>2. \A i \in Files : \A x \in 0..(s'.offset[i] - 1) : x \in Got(i)'
      BY <1>2, <2>12
    <3> QED BY <1>1, <3>1, <3>2 DEF WholeInv
  <2>16. FlowInv'
    BY <2>13, <2>14, <2>15 DEF FlowInv
  <2>17. CalmInv'
    BY <1>0, <1>1, <1>2, <1>4, <2>11 DEF CalmInv
  <2>18. edits' = 0 => Granted(Head(wire[0]).entries)'
    <3> SUFFICES ASSUME edits = 0, NEW i \in Files
                 PROVE  /\ accept.entries[i].skip = (r.mode[i] # "receive")
                        /\ accept.entries[i].skip => accept.entries[i].offset = Size[i]
                        /\ accept.entries[i].offset <= Prefix(r.ranges[i])
                        /\ ~accept.entries[i].skip => accept.entries[i].sha256 = Original(i)
      BY <1>1, <2>11 DEF Granted
    <3>1. Hashed(i) = Original(i)
      BY <1>0, HashIs
    <3> HIDE DEF offset, entries
    <3> QED BY <2>2, <2>4, <3>1
  <2>19. AnswerInv'
    <3>1. \A i \in r'.open : Placeable(i)'
      BY <1>0, <1>1, <1>4 DEF AnswerInv, Placeable
    <3> QED BY <1>1, <1>2, <1>4, <2>18, <3>1 DEF AnswerInv
  <2> QED BY <1>0, <1>1, <2>16, <2>17, <2>19 DEF NInv, NoRefusal
<1> QED BY <1>3, <1>4

\* The pipes carry more.
LEMMA FlowGrows ==
    ASSUME WireInv, SessionInv, OrderInv, WholeInv, UNCHANGED r,
           \A i : Got(i)' = Got(i),
           s.ended \subseteq s'.ended, s'.offset \in [Files -> Nat],
           \A i \in Files : s.offset[i] <= s'.offset[i],
           \A p \in Pipes : Flight(p) \subseteq Flight(p)',
           \A p \in Pipes : \A m \in Flight(p)' : m \in Flight(p) \/ Fits(p, m)',
           \A p \in Pipes : \A a, b : Before(p, a, b)' => Before(p, a, b) \/ MayFollow(a, b),
           \A p, q \in Pipes : \A a \in Flight(p)' : \A b \in Flight(q)' :
               p # q => (a \in Flight(p) /\ b \in Flight(q)) \/ Apart(a, b),
           \A i \in Files : \A x \in s.offset[i]..(s'.offset[i] - 1) : BlockComes(i, x)'
    PROVE  OrderInv' /\ WholeInv'
<1>2. \A p \in Pipes : \A m \in Flight(p) : Fits(p, m)'
  <2> SUFFICES ASSUME NEW p \in Pipes, NEW m \in Flight(p) PROVE Fits(p, m)'
    OBVIOUS
  <2>1. Fits(p, m)
    BY DEF OrderInv
  <2>2. m.type = "chunk" => m.item \in Files /\ m.offset + Len(m.data) \in Int
    <3>1. Sound(m)
      BY FlightSound
    <3> QED BY <3>1 DEF Sound, Content
  <2>3. m.type = "chunk" => m.offset + Len(m.data) <= s'.offset[m.item]
    <3>1. m.type = "chunk" => /\ m.offset + Len(m.data) <= s.offset[m.item]
                              /\ s.offset[m.item] <= s'.offset[m.item]
                              /\ s.offset[m.item] \in Nat /\ s'.offset[m.item] \in Nat
      BY <2>1, <2>2 DEF Fits, SessionInv
    <3> QED BY <2>2, <3>1
  <2> QED BY <2>1, <2>3 DEF Fits, ChunkPipes, PipeForItem
<1>3. \A p \in Pipes : \A m \in Flight(p)' : Fits(p, m)'
  BY <1>2
<1>4. \A p \in Pipes : \A a, b \in Flight(p)' : Before(p, a, b)' => MayFollow(a, b)'
  <2> SUFFICES ASSUME NEW p \in Pipes, NEW a \in Flight(p)', NEW b \in Flight(p)', Before(p, a, b)'
               PROVE  MayFollow(a, b)
    BY DEF MayFollow
  <2>1. CASE Before(p, a, b)
    BY <2>1, FlightFacts DEF OrderInv
  <2> QED BY <2>1
<1>5. \A p, q \in Pipes : p # q => \A a \in Flight(p)', b \in Flight(q)' : Apart(a, b)'
  <2> SUFFICES ASSUME NEW p \in Pipes, NEW q \in Pipes, p # q,
                      NEW a \in Flight(p)', NEW b \in Flight(q)'
               PROVE  Apart(a, b)
    BY DEF Apart, Span
  <2>1. CASE a \in Flight(p) /\ b \in Flight(q)
    BY <2>1 DEF OrderInv
  <2> QED BY <2>1
<1>6. OrderInv'
  BY <1>3, <1>4, <1>5 DEF OrderInv
<1>7. ASSUME NEW i \in Items \ r.opened PROVE OpenComes(i)'
  BY DEF OpenComes, WholeInv
<1>8. ASSUME NEW i \in Files, NEW x \in 0..(s'.offset[i] - 1), ~(x \in Got(i)) PROVE BlockComes(i, x)'
  <2>1. s.offset[i] \in Nat /\ s'.offset[i] \in Nat
    BY DEF SessionInv
  <2>2. CASE x < s.offset[i]
    <3>1. x \in 0..(s.offset[i] - 1)
      BY <2>1, <2>2
    <3>2. BlockComes(i, x)
      BY <1>8, <3>1 DEF WholeInv
    <3> QED BY <3>2 DEF BlockComes, Span
  <2>3. CASE ~(x < s.offset[i])
    <3>1. x \in s.offset[i]..(s'.offset[i] - 1)
      BY <2>1, <2>3
    <3> QED BY <3>1
  <2> QED BY <2>2, <2>3
<1>9. WholeInv'
  BY <1>7, <1>8 DEF WholeInv
<1> QED BY <1>6, <1>9

\* The next blocks of a file come after all of it that was sent.
LEMMA ChunkSentN == ASSUME IInv, PInv, NInv, NEW i \in Files, SendChunk(i) PROVE NInv'
<1> USE Basics DEF sourceVars, fsVars, faultVars, fixedVars
<1>0. /\ Shape /\ HandshakeInv /\ CalmInv /\ AnswerInv /\ FlowInv /\ NoRefusal
      /\ SourceInv /\ SessionInv /\ WireInv
  BY DEF IInv, NInv, PInv
<1> DEFINE data(n) == SubSeq(source[i], s.offset[i] + 1, Least(s.offset[i] + n, Len(source[i])))
           end(n) == s.offset[i] + Len(data(n))
<1>1. PICK n \in 1..MaxChunk, p \in ChunkPipes(s, i) :
         /\ s' = [s EXCEPT !.offset[i] = end(n),
                           !.done = IF data(n) = << >> \/ end(n) >= Size[i] THEN @ \cup {i} ELSE @]
         /\ wire' = IF data(n) = << >> THEN wire
                    ELSE [wire EXCEPT ![p] = Append(@, Chunk(i, s.offset[i], data(n)))]
  BY DEF SendChunk
<1>2. /\ s.phase = "chunks" /\ i \notin s.done
      /\ UNCHANGED <<source, edits, final, r, back, deferred, conflict>>
  BY DEF SendChunk
<1>3. n \in Nat /\ s.offset[i] \in Nat /\ source[i] \in Content /\ Size[i] \in Nat
  BY <1>0, TransferConstants DEF SessionInv, SourceInv
<1>4. PICK d : d = data(n)
  OBVIOUS
<1>5. d \in Content /\ Len(d) \in Nat /\ (d = << >> => Len(d) = 0)
  BY <1>3, <1>4, ReadIs
<1>6. edits = 0 /\ s.offset[i] <= Size[i] => s.offset[i] + Len(d) <= Size[i]
  <2> SUFFICES ASSUME edits = 0, s.offset[i] <= Size[i] PROVE s.offset[i] + Len(d) <= Size[i]
    OBVIOUS
  <2>1. source[i] = Original(i)
    BY <1>0 DEF SourceInv
  <2>2. Len(source[i]) = Size[i]
    <3>1. Original(i) \in Seq({1}) /\ Len(Original(i)) = Size[i]
      BY <1>3 DEF Original
    <3> QED BY <2>1, <3>1
  <2> DEFINE last == Least(s.offset[i] + n, Len(source[i]))
  <2>3. last \in Int /\ last <= Size[i]
    BY <1>3, <2>2 DEF Least
  <2>4. d = SubSeq(source[i], s.offset[i] + 1, last)
    BY <1>4
  <2> HIDE DEF last
  <2>5. \A k \in (s.offset[i] + 1)..last : source[i][k] \in Nat
    <3>1. \A k \in 1..Len(source[i]) : source[i][k] \in Nat
      BY <1>3 DEF Content
    <3> QED BY <1>3, <2>2, <2>3, <3>1
  <2>6. Len(d) = IF s.offset[i] + 1 <= last THEN last - (s.offset[i] + 1) + 1 ELSE 0
    BY <1>3, <2>3, <2>4, <2>5, SubSeqProperties
  <2> QED BY <1>3, <2>3, <2>6
<1>18. PICK offset : offset = s.offset[i] + Len(d)
  OBVIOUS
<1>19. PICK m : m = Chunk(i, s.offset[i], d)
  OBVIOUS
<1>7. /\ s' = [s EXCEPT !.offset[i] = offset,
                        !.done = IF d = << >> \/ offset >= Size[i] THEN @ \cup {i} ELSE @]
      /\ wire' = IF d = << >> THEN wire ELSE [wire EXCEPT ![p] = Append(@, m)]
  BY <1>1, <1>4, <1>18, <1>19
<1>8. m.type = "chunk" /\ m.item = i /\ m.offset = s.offset[i] /\ m.data = d
  BY <1>19 DEF Chunk
<1>9. offset \in Nat /\ s.offset[i] <= offset /\ offset = s.offset[i] + Len(d)
  BY <1>3, <1>5, <1>18
<1>20. Span(m.offset, m.data) = s.offset[i]..(offset - 1)
  <2>1. Span(m.offset, m.data) = m.offset..(m.offset + Len(m.data) - 1)
    BY DEF Span
  <2> QED BY <1>3, <1>5, <1>8, <1>18, <2>1
<1> HIDE DEF data
<1>10. /\ s'.phase = s.phase /\ s'.pipes = s.pipes /\ s'.striping = s.striping /\ s'.ended = s.ended
       /\ s'.offset = [s.offset EXCEPT ![i] = offset] /\ s.done \subseteq s'.done
  BY <1>0, <1>7 DEF Shape, SenderFields
<1>11. /\ s'.offset \in [Files -> Nat] /\ s'.offset[i] = offset
       /\ \A x \in Files : x # i => s'.offset[x] = s.offset[x]
  BY <1>0, <1>9, <1>10 DEF SessionInv
<1>12. PICK t : t = [x \in Pipes |-> IF x = p /\ d # << >> THEN <<m>> ELSE << >>]
  OBVIOUS
<1>13. ASSUME NEW x \in Pipes
       PROVE  /\ IsList(t[x]) /\ wire'[x] = wire[x] \o t[x] /\ Len(t[x]) <= 1 /\ Len(t[x]) \in Nat
              /\ Elems(t[x]) = IF x = p /\ d # << >> THEN {m} ELSE {}
              /\ wire[x] # << >> => wire'[x] # << >> /\ Head(wire'[x]) = Head(wire[x])
  <2>1. IsList(wire[x])
    BY <1>0 DEF WireInv
  <2>2. IsList(<<m>>) /\ IsList(<< >>) /\ Len(<<m>>) = 1 /\ Len(<< >>) = 0
    BY OneIsList DEF AtMostOne
  <2>3. CASE x = p /\ d # << >>
    <3>1. wire'[x] = Append(wire[x], m)
      BY <1>0, <1>7, <2>3 DEF Shape
    <3>2. t[x] = <<m>>
      BY <1>12, <2>3
    <3>3. Append(wire[x], m) = wire[x] \o <<m>>
      <4>1. PICK S : wire[x] \in Seq(S)
        BY <2>1 DEF IsList
      <4>2. wire[x] \in Seq(S \cup {m}) /\ m \in S \cup {m}
        BY <4>1
      <4> QED BY <4>2, AppendIsConcat
    <3> QED BY <2>1, <2>2, <2>3, <3>1, <3>2, <3>3, ElemsFew, ListAppend
  <2>4. CASE ~(x = p /\ d # << >>)
    <3>1. wire'[x] = wire[x]
      BY <1>0, <1>7, <2>4 DEF Shape
    <3>2. t[x] = << >>
      BY <1>12, <2>4
    <3> QED BY <2>1, <2>2, <2>4, <3>1, <3>2, ElemsFew, ListConcat
  <2> QED BY <2>3, <2>4
<1>14. FlowInv'
  <2> SUFFICES ASSUME Flowing', edits = 0 PROVE SentInv' /\ OrderInv' /\ WholeInv'
    BY <1>2 DEF FlowInv
  <2>1. Flowing /\ SentInv /\ OrderInv /\ WholeInv
    <3>1. Flowing
      BY <1>0, <1>2 DEF Flowing, HandshakeInv
    <3> QED BY <1>0, <3>1 DEF FlowInv
  <2>2. \A x : Got(x)' = Got(x)
    BY <1>2, <1>13, <2>1 DEF Got, Flowing
  <2>3. /\ i \notin s.ended /\ i \notin r.ended /\ r.mode[i] = "receive"
        /\ s.offset[i] <= Size[i] /\ Got(i) \subseteq 0..(s.offset[i] - 1)
        /\ s.pipes = r.pipes /\ s.striping = r.striping /\ r.ended \subseteq s.ended
    BY <1>2, <2>1 DEF SentInv
  <2>4. p \in ChunkPipes(r, i)
    BY <2>3 DEF ChunkPipes
  <2>5. SentInv'
    <3> SUFFICES ASSUME NEW x \in Files
                 PROVE  /\ s'.offset[x] <= Size[x] /\ Got(x) \subseteq 0..(s'.offset[x] - 1)
                        /\ r.mode[x] # "receive" => x \in s'.done
      BY <1>2, <1>10, <2>1, <2>2 DEF SentInv
    <3>1. s.offset[x] <= Size[x] /\ Got(x) \subseteq 0..(s.offset[x] - 1) /\ (r.mode[x] # "receive" => x \in s'.done)
      BY <1>10, <2>1 DEF SentInv
    <3>2. CASE x = i
      <4>1. offset <= Size[i]
        BY <1>6, <1>9, <2>3
      <4>2. 0..(s.offset[i] - 1) \subseteq 0..(offset - 1)
        BY <1>3, <1>9
      <4> QED BY <1>11, <3>1, <3>2, <4>1, <4>2
    <3> QED BY <1>11, <3>1, <3>2
  <2>6. \A x \in Files : s.offset[x] <= s'.offset[x]
    BY <1>0, <1>9, <1>11 DEF SessionInv
  <2>7. d # << >> => Fits(p, m)'
    <3>1. Span(m.offset, m.data) \cap Got(i) = {}
      <4> QED BY <1>3, <1>9, <1>20, <2>3
    <3>2. m.offset + Len(m.data) <= s'.offset[m.item]
      BY <1>8, <1>9, <1>11
    <3>3. ChunkPipes(r, i)' = ChunkPipes(r, i)
      BY <1>2 DEF ChunkPipes, PipeForItem
    <3> QED BY <1>2, <1>8, <2>2, <2>3, <2>4, <3>1, <3>2, <3>3 DEF Fits, Span
  <2>8. ASSUME NEW x \in Pipes, NEW a \in Flight(x)
        PROVE  MayFollow(a, m) /\ Apart(a, m) /\ Apart(m, a)
    <3>1. Fits(x, a) /\ Sound(a)
      BY <1>0, <2>1, FlightSound DEF OrderInv
    <3>2. a.item = i => a.type # "stream_end"
      BY <2>3, <3>1 DEF Fits
    <3>3. a.type = "chunk" /\ a.item = i => /\ a.offset \in Nat /\ Len(a.data) \in Nat
                                            /\ a.offset + Len(a.data) <= s.offset[i]
      BY <3>1 DEF Fits, Sound, Content
    <3>4. MayFollow(a, m)
      BY <1>8, <3>2, <3>3 DEF MayFollow
    <3>5. a.type = "chunk" /\ a.item = i => Span(a.offset, a.data) \cap Span(m.offset, m.data) = {}
      <4> SUFFICES ASSUME a.type = "chunk" /\ a.item = i
                   PROVE  Span(a.offset, a.data) \cap Span(m.offset, m.data) = {}
        OBVIOUS
      <4>1. PICK e : e = a.offset + Len(a.data)
        OBVIOUS
      <4>2. Span(a.offset, a.data) = a.offset..(e - 1) /\ e \in Nat /\ e <= s.offset[i]
        BY <3>3, <4>1 DEF Span
      <4> QED BY <1>3, <1>9, <1>20, <3>3, <4>2
    <3> QED BY <1>8, <3>4, <3>5 DEF Apart
  <2>9. ASSUME NEW x \in Pipes
        PROVE  /\ Flight(x) \subseteq Flight(x)' /\ Elems(t[x]) \subseteq Flight(x)'
               /\ \A a \in Flight(x)' : a \in Flight(x) \/ (x = p /\ a = m /\ d # << >>)
               /\ \A a, b : Before(x, a, b)' => Before(x, a, b) \/ (a \in Flight(x) /\ b = m)
    <3>1. PICK q : q = t[x]
      OBVIOUS
    <3>2. IsList(q) /\ wire'[x] = wire[x] \o q /\ Len(q) \in Nat /\ Len(q) <= 1
          /\ Elems(q) = IF x = p /\ d # << >> THEN {m} ELSE {}
      BY <1>13, <3>1
    <3>3. r'.phase = r.phase /\ (r.phase = "accept" /\ x = 0 => wire[0] # << >>) /\ deferred' = deferred
      BY <1>2, <2>1 DEF Flowing
    <3>4. /\ Flight(x) \subseteq Flight(x)' /\ Flight(x)' \subseteq Flight(x) \cup Elems(q)
          /\ Elems(q) \subseteq Flight(x)'
          /\ \A a, b : Before(x, a, b)' =>
               \/ Before(x, a, b)
               \/ a \in Flight(x) /\ b \in Elems(q)
               \/ \E j, k \in 1..Len(q) : j < k /\ a = q[j] /\ b = q[k]
      BY <1>0, <3>2, <3>3, FlightGrows
    <3>5. ~\E j, k \in 1..Len(q) : j < k
      BY <3>2
    <3>6. \A a, b : Before(x, a, b)' => Before(x, a, b) \/ (a \in Flight(x) /\ b \in Elems(q))
      BY <3>4, <3>5
    <3> QED BY <3>1, <3>2, <3>4, <3>6
  <2>10. \A x \in Pipes : \A b \in Flight(x)' : b \in Flight(x) \/ Fits(x, b)'
    BY <2>7, <2>9
  <2>11. \A x, y \in Pipes : \A a \in Flight(x)' : \A b \in Flight(y)' :
               x # y => (a \in Flight(x) /\ b \in Flight(y)) \/ Apart(a, b)
    BY <2>8, <2>9
  <2>12. \A x \in Files : \A y \in s.offset[x]..(s'.offset[x] - 1) : BlockComes(x, y)'
    <3> SUFFICES ASSUME NEW x \in Files, NEW y \in s.offset[x]..(s'.offset[x] - 1)
                 PROVE  BlockComes(x, y)'
      OBVIOUS
    <3>1. x = i
      <4>1. s.offset[x] \in Nat
        BY <1>0 DEF SessionInv
      <4> QED BY <1>11, <4>1
    <3>2. y \in s.offset[i]..(offset - 1)
      BY <1>11, <3>1
    <3>3. d # << >>
      BY <1>3, <1>5, <1>9, <3>2
    <3>4. p \in Pipes
      <4>1. CASE s.striping /\ s.pipes > 1
        <5>1. p \in 1..(s.pipes - 1) /\ s.pipes \in 1..SenderPipes
          BY <1>0, <4>1 DEF ChunkPipes, SessionInv
        <5> QED BY <5>1, TransferConstants DEF Pipes
      <4>2. CASE ~(s.striping /\ s.pipes > 1)
        BY <1>0, <4>2, PipeIs DEF ChunkPipes, SessionInv
      <4> QED BY <4>1, <4>2
    <3>5. m \in Flight(p)'
      BY <1>13, <2>9, <3>3, <3>4
    <3>6. y \in Span(m.offset, m.data)
      BY <1>20, <3>2
    <3> QED BY <1>8, <3>1, <3>4, <3>5, <3>6 DEF BlockComes, Span
  <2>13. \A x \in Pipes : \A a, b : Before(x, a, b)' => Before(x, a, b) \/ MayFollow(a, b)
    BY <2>8, <2>9
  <2>14. \A x \in Pipes : Flight(x) \subseteq Flight(x)'
    BY <2>9
  <2>15. OrderInv' /\ WholeInv'
    <3>1. WireInv /\ SessionInv /\ s.ended \subseteq s'.ended /\ s'.offset \in [Files -> Nat] /\ r' = r
      BY <1>0, <1>2, <1>10, <1>11
    <3> QED BY <2>1, <2>2, <2>6, <2>10, <2>11, <2>12, <2>13, <2>14, <3>1, FlowGrows
  <2> QED BY <2>5, <2>15
<1>15. r.phase \notin {"hello", "manifest"} /\ (r.phase = "accept" => wire[0] # << >>)
  BY <1>0, <1>2 DEF HandshakeInv
<1>16. CalmInv'
  BY <1>0, <1>2, <1>10, <1>13, <1>15 DEF CalmInv
<1>17. AnswerInv'
  BY <1>0, <1>2, <1>10, <1>13, <1>15, AnswerFrame
<1> QED BY <1>0, <1>2, <1>14, <1>16, <1>17 DEF NInv, NoRefusal

\* The streams that are left end after all that was sent, done comes last.
LEMMA DoneSentN == ASSUME IInv, PInv, NInv, SendDone PROVE NInv'
<1> USE Basics DEF sourceVars, fsVars, faultVars, fixedVars
<1>0. /\ Shape /\ HandshakeInv /\ CalmInv /\ AnswerInv /\ FlowInv /\ NoRefusal
      /\ SessionInv /\ WireInv
  BY DEF IInv, NInv, PInv
<1> DEFINE left == Items \ s.ended
           ends == {Lifecycle("stream_end", i) : i \in left}
           last(p) == IF p = 0 THEN <<Message("done")>> ELSE << >>
<1>1. /\ s.phase = "chunks" /\ s.done = Files
      /\ s' = [s EXCEPT !.phase = "complete", !.ended = Items]
      /\ wire' = [p \in Pipes |-> wire[p] \o OnPipe(s.pipes, ends, p) \o last(p)]
      /\ UNCHANGED <<edits, final, r, back, deferred, conflict>>
  BY DEF SendDone
<1>2. /\ s'.phase = "complete" /\ s'.ended = Items /\ s'.pipes = s.pipes /\ s'.striping = s.striping
      /\ s'.offset = s.offset /\ s'.done = s.done
  BY <1>0, <1>1 DEF Shape, SenderFields
<1>3. PICK S, T, M : S = {} /\ T = left /\ M = ends
  OBVIOUS
<1>4. S \subseteq Items /\ T \subseteq Items /\ M = Streams(S, T) /\ S = {} /\ T \cap s.ended = {}
  BY <1>3 DEF Streams
<1>5. \A p \in Pipes : wire'[p] = wire[p] \o OnPipe(s.pipes, M, p) \o last(p)
  BY <1>1, <1>3
<1> HIDE DEF ends
\* What pipe p carries more.
<1>6. ASSUME NEW p \in Pipes
      PROVE  \E q : /\ IsList(q) /\ wire'[p] = wire[p] \o q
                    /\ \A m \in Elems(q) : m.type = "done" \/ (m.type = "stream_end" /\ m.item \in T
                                                               /\ p = PipeForItem(s.pipes, m.item))
                    /\ \A j, k \in 1..Len(q) : j < k => MayFollow(q[j], q[k])
  <2>1. PICK o, l : o = OnPipe(s.pipes, M, p) /\ l = last(p)
    OBVIOUS
  <2>2. /\ IsList(o) /\ \A m \in Elems(o) : /\ m.type = "stream_end" /\ m.item \in T
                                            /\ p = PipeForItem(s.pipes, m.item)
        /\ \A j, k \in 1..Len(o) : j < k => o[j].item # o[k].item
    <3>1. IsList(o) /\ \A m \in Elems(o) : /\ m.type \in {"stream_open", "stream_end"}
                                           /\ p = PipeForItem(s.pipes, m.item)
                                           /\ m.type = "stream_open" => m.item \in S
                                           /\ m.type = "stream_end" => m.item \in T
      BY <1>4, <2>1, StreamsSent
    <3>2. \A j, k \in 1..Len(o) : j < k /\ o[j].item = o[k].item => o[j].type = "stream_open"
      BY <1>4, <2>1, StreamsSent
    <3>3. \A m \in Elems(o) : m.type = "stream_end"
      BY <1>4, <3>1
    <3> QED BY <3>1, <3>2, <3>3 DEF Elems
  <2>3. IsList(l) /\ \A m \in Elems(l) : m.type = "done"
    <3>1. IsList(<<Message("done")>>) /\ IsList(<< >>) /\ Message("done").type = "done"
      BY OneIsList DEF AtMostOne, Message
    <3> QED BY <2>1, <3>1, ElemsFew
  <2>4. IsList(wire[p]) /\ wire'[p] = (wire[p] \o o) \o l
    BY <1>0, <1>5, <2>1 DEF WireInv
  <2>5. PICK q : q = o \o l
    OBVIOUS
  <2>6. IsList(q) /\ Elems(q) \subseteq Elems(o) \cup Elems(l)
    BY <2>2, <2>3, <2>5, ListConcat, ElemsOf
  <2>7. wire'[p] = wire[p] \o q
    <3>1. PICK A, B, C : wire[p] \in Seq(A) /\ o \in Seq(B) /\ l \in Seq(C)
      BY <2>2, <2>3, <2>4 DEF IsList
    <3>2. PICK D : D = A \cup B \cup C
      OBVIOUS
    <3>3. wire[p] \in Seq(D) /\ o \in Seq(D) /\ l \in Seq(D)
      BY <3>1, <3>2
    <3>4. PICK w : w = wire[p]
      OBVIOUS
    <3>5. w \in Seq(D) /\ o \in Seq(D) /\ l \in Seq(D)
      BY <3>3, <3>4
    <3>6. (w \o o) \o l = w \o (o \o l)
      BY <3>5, ConcatAssociative
    <3> QED BY <2>4, <2>5, <3>4, <3>6
  <2>8. ASSUME NEW j \in 1..Len(q), NEW k \in 1..Len(q), j < k PROVE MayFollow(q[j], q[k])
    <3>1. /\ Len(o) \in Nat /\ Len(l) \in Nat /\ Len(q) = Len(o) + Len(l)
          /\ \A x \in 1..Len(o) : q[x] = o[x]
          /\ \A x \in 1..Len(l) : q[Len(o) + x] = l[x]
      BY <2>2, <2>3, <2>5, ListIndices
    <3>2. CASE k <= Len(o)
      <4>1. j \in 1..Len(o) /\ k \in 1..Len(o)
        BY <2>8, <3>1, <3>2
      <4>2. q[j] = o[j] /\ q[k] = o[k] /\ o[j].item # o[k].item
        BY <2>2, <2>8, <3>1, <4>1
      <4> QED BY <4>2 DEF MayFollow
    <3>3. CASE ~(k <= Len(o))
      <4>1. k - Len(o) \in 1..Len(l) /\ Len(o) + (k - Len(o)) = k
        BY <3>1, <3>3
      <4>2. q[k] = l[k - Len(o)]
        BY <3>1, <4>1
      <4>3. q[k].type = "done"
        BY <2>3, <4>1, <4>2 DEF Elems
      <4> QED BY <4>3 DEF MayFollow
    <3> QED BY <3>2, <3>3
  <2> QED BY <2>2, <2>3, <2>6, <2>7, <2>8
<1>7. \A p \in Pipes : wire[p] # << >> => wire'[p] # << >> /\ Head(wire'[p]) = Head(wire[p])
  <2> SUFFICES ASSUME NEW p \in Pipes, wire[p] # << >>
               PROVE  wire'[p] # << >> /\ Head(wire'[p]) = Head(wire[p])
    OBVIOUS
  <2>1. PICK q : IsList(q) /\ wire'[p] = wire[p] \o q
    BY <1>6
  <2> QED BY <1>0, <2>1, ListConcat DEF WireInv
<1>8. FlowInv'
  <2> SUFFICES ASSUME Flowing', edits = 0 PROVE SentInv' /\ OrderInv' /\ WholeInv'
    BY <1>1 DEF FlowInv
  <2>1. Flowing /\ SentInv /\ OrderInv /\ WholeInv
    <3>1. Flowing
      BY <1>0, <1>1 DEF Flowing, HandshakeInv
    <3> QED BY <1>0, <3>1 DEF FlowInv
  <2>2. \A x : Got(x)' = Got(x)
    BY <1>1, <1>7, <2>1 DEF Got, Flowing
  <2>3. SentInv'
    BY <1>0, <1>1, <1>2, <2>1, <2>2 DEF SentInv, SessionInv
  <2>4. ASSUME NEW p \in Pipes
        PROVE  /\ Flight(p) \subseteq Flight(p)'
               /\ \A m \in Flight(p)' : \/ m \in Flight(p)
                                        \/ m.type = "done"
                                        \/ /\ m.type = "stream_end" /\ m.item \in T
                                           /\ p = PipeForItem(s.pipes, m.item)
               /\ \A a, b : Before(p, a, b)' => Before(p, a, b) \/ MayFollow(a, b)
    <3>1. PICK q : /\ IsList(q) /\ wire'[p] = wire[p] \o q
                   /\ \A m \in Elems(q) : m.type = "done" \/ (m.type = "stream_end" /\ m.item \in T
                                                              /\ p = PipeForItem(s.pipes, m.item))
                   /\ \A j, k \in 1..Len(q) : j < k => MayFollow(q[j], q[k])
      BY <1>6
    <3>2. r'.phase = r.phase /\ (r.phase = "accept" /\ p = 0 => wire[0] # << >>) /\ deferred' = deferred
      BY <1>1, <2>1 DEF Flowing
    <3>3. /\ Flight(p) \subseteq Flight(p)' /\ Flight(p)' \subseteq Flight(p) \cup Elems(q)
          /\ \A a, b : Before(p, a, b)' =>
               \/ Before(p, a, b)
               \/ a \in Flight(p) /\ b \in Elems(q)
               \/ \E j, k \in 1..Len(q) : j < k /\ a = q[j] /\ b = q[k]
      BY <1>0, <3>1, <3>2, FlightGrows
    <3>4. ASSUME NEW a \in Flight(p), NEW b \in Elems(q) PROVE MayFollow(a, b)
      <4>1. CASE b.type = "done"
        BY <4>1 DEF MayFollow
      <4>2. CASE b.type = "stream_end" /\ b.item \in T
        <5>1. Fits(p, a)
          BY <2>1 DEF OrderInv
        <5>2. a.item = b.item => a.type # "stream_end"
          BY <1>4, <4>2, <5>1 DEF Fits
        <5> QED BY <4>2, <5>2 DEF MayFollow
      <4> QED BY <3>1, <4>1, <4>2
    <3> QED BY <3>1, <3>3, <3>4
  <2>5. \A p \in Pipes : \A m \in Flight(p)' : m \in Flight(p) \/ Fits(p, m)'
    <3> SUFFICES ASSUME NEW p \in Pipes, NEW m \in Flight(p)', m \notin Flight(p) PROVE Fits(p, m)'
      OBVIOUS
    <3>1. \/ m.type = "done"
          \/ m.type = "stream_end" /\ m.item \in T /\ p = PipeForItem(s.pipes, m.item)
      BY <2>4
    <3>2. s.pipes = r.pipes /\ r.ended \subseteq s.ended
      BY <2>1 DEF SentInv
    <3> QED BY <1>1, <1>2, <1>4, <3>1, <3>2 DEF Fits, PipeForItem
  <2>6. \A p, q \in Pipes : \A a \in Flight(p)' : \A b \in Flight(q)' :
               p # q => (a \in Flight(p) /\ b \in Flight(q)) \/ Apart(a, b)
    BY <2>4 DEF Apart
  <2>7. \A i \in Files : \A x \in s.offset[i]..(s'.offset[i] - 1) : BlockComes(i, x)'
    <3> SUFFICES ASSUME NEW i \in Files, NEW x \in s.offset[i]..(s'.offset[i] - 1) PROVE FALSE
      OBVIOUS
    <3>1. s.offset[i] \in Nat
      BY <1>0 DEF SessionInv
    <3> QED BY <1>2, <3>1
  <2>8. /\ WireInv /\ SessionInv /\ s.ended \subseteq s'.ended /\ s'.offset \in [Files -> Nat] /\ r' = r
        /\ \A i \in Files : s.offset[i] <= s'.offset[i]
    BY <1>0, <1>1, <1>2 DEF SessionInv
  <2>9. \A p \in Pipes : \A a, b : Before(p, a, b)' => Before(p, a, b) \/ MayFollow(a, b)
    BY <2>4
  <2>10. \A p \in Pipes : Flight(p) \subseteq Flight(p)'
    BY <2>4
  <2>11. OrderInv' /\ WholeInv'
    BY <2>1, <2>2, <2>5, <2>6, <2>7, <2>8, <2>9, <2>10, FlowGrows
  <2> QED BY <2>3, <2>11
<1>9. r.phase \notin {"hello", "manifest"} /\ (r.phase = "accept" => wire[0] # << >>)
  BY <1>0, <1>1 DEF HandshakeInv
<1>10. CalmInv'
  BY <1>0, <1>1, <1>2, <1>7, <1>9 DEF CalmInv
<1>11. AnswerInv'
  BY <1>0, <1>1, <1>2, <1>7, <1>9, AnswerFrame
<1> QED BY <1>0, <1>1, <1>8, <1>10, <1>11 DEF NInv, NoRefusal

LEMMA CompleteReceivedN == ASSUME IInv, PInv, NInv, WaitComplete PROVE NInv'
<1> USE DEF sourceVars, fsVars, faultVars, fixedVars
<1>1. HandshakeInv /\ CalmInv
  BY DEF IInv, NInv
<1>2. r.phase = "success" /\ r' = r /\ conflict' = conflict
  BY <1>1 DEF WaitComplete, HandshakeInv
<1> QED BY <1>1, <1>2, EndedN

(***************************************************************************)
(* The receiver.                                                            *)
(***************************************************************************)

\* What is on its way, and what has been received, stay as they are.
LEMMA FlowKeeps ==
    ASSUME WireInv, SentInv, OrderInv, WholeInv, s' = s,
           r'.pipes = r.pipes, r'.striping = r.striping, r'.mode = r.mode,
           r'.opened = r.opened, r'.ended = r.ended,
           \A i \in Files : Got(i)' = Got(i),
           \A p \in Pipes : /\ Flight(p)' = Flight(p)
                            /\ \A a, b : Before(p, a, b)' => Before(p, a, b)
    PROVE  SentInv' /\ OrderInv' /\ WholeInv'
<1>1. SentInv'
  BY DEF SentInv
<1>2. \A p \in Pipes : \A m \in Flight(p)' : Fits(p, m)'
  <2> SUFFICES ASSUME NEW p \in Pipes, NEW m \in Flight(p) PROVE Fits(p, m)'
    OBVIOUS
  <2>1. Fits(p, m) /\ (m.type = "chunk" => m.item \in Files)
    BY FlightSound DEF OrderInv, Sound
  <2>2. \A i : ChunkPipes(r, i)' = ChunkPipes(r, i)
    BY DEF ChunkPipes, PipeForItem
  <2> QED BY <2>1, <2>2 DEF Fits, Span, PipeForItem
<1>3. \A p \in Pipes : \A a, b \in Flight(p)' : Before(p, a, b)' => MayFollow(a, b)'
  BY DEF OrderInv, MayFollow
<1>4. \A p, q \in Pipes : p # q => \A a \in Flight(p)', b \in Flight(q)' : Apart(a, b)'
  BY DEF OrderInv, Apart, Span
<1>5. OrderInv'
  BY <1>2, <1>3, <1>4 DEF OrderInv
<1>6. WholeInv'
  <2>1. \A i : OpenComes(i) => OpenComes(i)'
    BY DEF OpenComes
  <2>2. \A i, x : BlockComes(i, x) => BlockComes(i, x)'
    BY DEF BlockComes, Span
  <2> QED BY <2>1, <2>2 DEF WholeInv
<1> QED BY <1>1, <1>5, <1>6

\* Once a source has been edited the receiver may refuse.
LEMMA EditedN ==
    ASSUME CalmInv, SourceInv, UNCHANGED <<conflict, edits>>, edits # 0, r'.phase \in {"chunks", "finalize", "error"},
           r'.phase # "error" => \A i \in r'.open : Placeable(i)'
    PROVE  NInv'
<1>1. CalmInv'
  BY DEF CalmInv
<1>2. AnswerInv'
  BY DEF AnswerInv
<1>3. FlowInv'
  BY DEF FlowInv
<1>4. NoRefusal'
  BY DEF NoRefusal, SourceInv
<1> QED BY <1>1, <1>2, <1>3, <1>4 DEF NInv

LEMMA DeferringN == ASSUME IInv, PInv, NInv, NEW p \in Pipes, Defer(p) PROVE NInv'
<1> USE Basics DEF sourceVars, fsVars, faultVars, fixedVars
<1>0. Shape /\ CalmInv /\ AnswerInv /\ FlowInv /\ NoRefusal /\ WireInv
  BY DEF IInv, PInv, NInv
<1>1. /\ p # 0 /\ wire[p] # << >> /\ r.phase \in {"manifest", "accept"}
      /\ wire' = [wire EXCEPT ![p] = Tail(@)]
      /\ UNCHANGED <<edits, final, s, r, back, conflict>>
  BY DEF Defer
<1>2. r.phase = "accept" /\ wire[0] # << >> /\ wire'[0] = wire[0]
  BY <1>0, <1>1 DEF CalmInv, Shape
<1>3. CalmInv'
  BY <1>0, <1>1, <1>2 DEF CalmInv
<1>4. AnswerInv'
  BY <1>0, <1>1, <1>2, AnswerFrame
<1>5. FlowInv'
  <2> SUFFICES ASSUME edits = 0 PROVE SentInv' /\ OrderInv' /\ WholeInv'
    BY <1>1 DEF FlowInv
  <2>1. SentInv /\ OrderInv /\ WholeInv
    BY <1>0, <1>2 DEF FlowInv, Flowing
  <2>2. \A i \in Files : Got(i)' = Got(i)
    BY <1>1, <1>2 DEF Got
  <2>3. \A x \in Pipes : Flight(x)' = Flight(x) /\ \A a, b : Before(x, a, b)' => Before(x, a, b)
    BY <1>0, FlightDefers
  <2> QED BY <1>0, <1>1, <2>1, <2>2, <2>3, FlowKeeps
<1> QED BY <1>0, <1>1, <1>3, <1>4, <1>5 DEF NInv, NoRefusal

\* What the sender has accepted is what was asked of it.
LEMMA AcceptReceivedN == ASSUME IInv, PInv, NInv, RecvAccept PROVE NInv'
<1> USE Basics DEF sourceVars, fsVars, faultVars, fixedVars
<1>0. Shape /\ CalmInv /\ AnswerInv /\ FlowInv /\ NoRefusal /\ WireInv
  BY DEF IInv, PInv, NInv
<1> DEFINE entries == Head(wire[0]).entries
           accepted == [i \in Files |-> 0..(entries[i].offset - 1)]
<1>1. /\ r.phase = "accept" /\ wire[0] # << >> /\ wire' = [wire EXCEPT ![0] = Tail(@)]
      /\ UNCHANGED <<edits, final, s, back, deferred, conflict>>
  BY DEF RecvAccept
<1>2. AcceptValid(entries) =>
        /\ r'.phase = "chunks" /\ r'.ranges = accepted /\ r'.open = r.open /\ r'.slot = r.slot
        /\ r'.declared = [i \in Files |-> entries[i].sha256] /\ r'.overwrite = r.overwrite
        /\ r'.pipes = r.pipes /\ r'.striping = r.striping /\ r'.opened = r.opened
        /\ r'.ended = r.ended /\ r'.mode = r.mode
  <2> SUFFICES ASSUME AcceptValid(entries)
               PROVE  /\ r'.phase = "chunks" /\ r'.ranges = accepted /\ r'.open = r.open /\ r'.slot = r.slot
                      /\ r'.declared = [i \in Files |-> entries[i].sha256] /\ r'.overwrite = r.overwrite
                      /\ r'.pipes = r.pipes /\ r'.striping = r.striping /\ r'.opened = r.opened
                      /\ r'.ended = r.ended /\ r'.mode = r.mode
    OBVIOUS
  <2>1. r' = [r EXCEPT !.phase = "chunks", !.ranges = accepted,
                    !.coverage = [i \in Items |-> IF i \in Files THEN accepted[i] ELSE @[i]],
                    !.declared = [i \in Files |-> entries[i].sha256]]
    BY DEF RecvAccept
  <2> QED BY <1>0, <2>1 DEF Shape, ReceiverFields
<1>3. ~AcceptValid(entries) => r'.phase = "error"
  BY <1>0 DEF RecvAccept, Refuse, Shape, ReceiverFields
<1>4. \A i \in r.open : Placeable(i)
  BY <1>0, <1>1 DEF AnswerInv
<1>5. r'.phase # "error" => r'.phase = "chunks" /\ \A i \in r'.open : Placeable(i)'
  BY <1>1, <1>2, <1>3, <1>4 DEF Placeable
<1>6. CASE edits # 0
  <2>1. SourceInv /\ edits' = edits /\ conflict' = conflict
    BY <1>1 DEF PInv
  <2> QED BY <1>0, <1>3, <1>5, <1>6, <2>1, EditedN
<1>7. CASE edits = 0
  <2>1. Granted(entries) /\ Flowing
    BY <1>0, <1>1, <1>7 DEF AnswerInv, Flowing
  <2>2. AcceptValid(entries)
    BY <2>1 DEF Granted, AcceptValid
  <2>3. SentInv /\ OrderInv /\ WholeInv
    BY <1>0, <1>7, <2>1 DEF FlowInv
  <2>4. \A i \in Files : Got(i)' = Got(i)
    <3> SUFFICES ASSUME NEW i \in Files PROVE Got(i)' = Got(i)
      OBVIOUS
    <3>1. Got(i)' = r'.ranges[i]
      BY <1>2, <2>2 DEF Got
    <3>2. Got(i) = 0..(entries[i].offset - 1)
      BY <1>1 DEF Got
    <3>3. r'.ranges[i] = 0..(entries[i].offset - 1)
      BY <1>2, <2>2
    <3> QED BY <3>1, <3>2, <3>3
  <2>5. \A i \in Receiving' : r'.declared[i] = Original(i)
    <3> SUFFICES ASSUME NEW i \in Files, r.mode[i] = "receive" PROVE r'.declared[i] = Original(i)
      BY <1>2, <2>2 DEF Receiving
    <3>1. r'.declared[i] = entries[i].sha256
      BY <1>2, <2>2
    <3> QED BY <2>1, <3>1 DEF Granted
  <2> HIDE DEF entries, accepted
  <2>6. \A x \in Pipes : Flight(x)' = Flight(x) /\ \A a, b : Before(x, a, b)' => Before(x, a, b)
    <3>1. IInv /\ WireInv /\ r'.phase = "chunks" /\ deferred' = deferred
      BY <1>0, <1>1, <1>2, <2>2
    <3> QED BY <1>1, <3>1, FlightAccepts
  <2>7. SentInv' /\ OrderInv' /\ WholeInv'
    <3>1. /\ s' = s /\ r'.pipes = r.pipes /\ r'.striping = r.striping /\ r'.mode = r.mode
          /\ r'.opened = r.opened /\ r'.ended = r.ended
      BY <1>1, <1>2, <2>2
    <3> QED BY <1>0, <2>3, <2>4, <2>6, <3>1, FlowKeeps
  <2>8. CalmInv'
    BY <1>0, <1>1, <1>2, <2>2 DEF CalmInv
  <2>9. AnswerInv'
    BY <1>2, <1>5, <2>2, <2>5 DEF AnswerInv
  <2> QED BY <1>2, <2>2, <2>7, <2>8, <2>9 DEF NInv, FlowInv, NoRefusal
<1> QED BY <1>6, <1>7

\* What is known of a message that arrives: everything that was before it on its
\* pipe has been received.
LEMMA ArrivesFits ==
    ASSUME IInv, PInv, FlowInv, edits = 0, NEW p \in Pipes, NEW m, Arrives(p, m), r'.phase # "accept"
    PROVE  /\ SentInv /\ OrderInv /\ WholeInv /\ WireInv
           /\ Sound(m) /\ Fits(p, m) /\ m \in Flight(p)
           /\ \A i : Got(i) = r.ranges[i] /\ Got(i)' = r'.ranges[i]
           /\ \A b \in Flight(p)' : MayFollow(m, b)
           /\ \A x \in Pipes : /\ Flight(x)' \subseteq Flight(x)
                               /\ \A b \in Flight(x)' : x # p => Apart(m, b)
                               /\ \A a, b : Before(x, a, b)' => Before(x, a, b)
                               /\ \A b \in Flight(x) : b \in Flight(x)' \/ (x = p /\ b = m)
<1>1. WireInv /\ r.phase = "chunks" /\ \A i : Got(i) = r.ranges[i] /\ Got(i)' = r'.ranges[i]
  BY DEF PInv, Arrives, Got
<1>2. SentInv /\ OrderInv /\ WholeInv
  BY <1>1 DEF FlowInv, Flowing
<1>3. /\ m \in Flight(p) /\ \A b \in Flight(p)' : Before(p, m, b)
      /\ \A x \in Pipes : /\ Flight(x)' \subseteq Flight(x)
                          /\ \A a, b : Before(x, a, b)' => Before(x, a, b)
                          /\ \A b \in Flight(x) : b \in Flight(x)' \/ (x = p /\ b = m)
  BY <1>1, FlightTakes
<1>4. Fits(p, m) /\ Sound(m)
  BY <1>1, <1>2, <1>3, FlightSound DEF OrderInv
<1>5. \A b \in Flight(p)' : MayFollow(m, b)
  BY <1>2, <1>3 DEF OrderInv
<1>6. \A x \in Pipes : \A b \in Flight(x)' : x # p => Apart(m, b)
  BY <1>2, <1>3 DEF OrderInv
<1> QED BY <1>1, <1>2, <1>3, <1>4, <1>5, <1>6

\* One message fewer is on its way.
LEMMA FlowTaken ==
    ASSUME OrderInv, WholeInv, s' = s, NEW p \in Pipes, NEW m,
           \A x \in Pipes : /\ Flight(x)' \subseteq Flight(x)
                            /\ \A a, b : Before(x, a, b)' => Before(x, a, b)
                            /\ \A b \in Flight(x) : b \in Flight(x)' \/ (x = p /\ b = m),
           r'.striping = r.striping,
           \A x \in Pipes : \A b \in Flight(x)' : Fits(x, b)',
           r.opened \subseteq r'.opened, m.type = "stream_open" => m.item \in r'.opened,
           \A i \in Files : Got(i) \subseteq Got(i)',
           m.type = "chunk" => Span(m.offset, m.data) \subseteq Got(m.item)'
    PROVE  OrderInv' /\ WholeInv'
<1>1. \A x \in Pipes : \A a, b \in Flight(x)' : Before(x, a, b)' => MayFollow(a, b)'
  BY DEF OrderInv, MayFollow
<1>2. \A x, y \in Pipes : x # y => \A a \in Flight(x)', b \in Flight(y)' : Apart(a, b)'
  BY DEF OrderInv, Apart, Span
<1>3. OrderInv'
  BY <1>1, <1>2 DEF OrderInv
<1>4. ASSUME NEW i \in Items \ r'.opened PROVE OpenComes(i)'
  <2>1. PICK x \in Pipes : \E b \in Flight(x) : b.type = "stream_open" /\ b.item = i
    BY DEF WholeInv, OpenComes
  <2>2. PICK b \in Flight(x) : b.type = "stream_open" /\ b.item = i
    BY <2>1
  <2>3. b # m
    BY <2>2
  <2>4. b \in Flight(x)'
    BY <2>3
  <2> QED BY <2>2, <2>4 DEF OpenComes
<1>5. ASSUME NEW i \in Files, NEW k \in 0..(s'.offset[i] - 1), ~(k \in Got(i)') PROVE BlockComes(i, k)'
  <2>1. k \notin Got(i) /\ k \in 0..(s.offset[i] - 1)
    BY <1>5
  <2>2. PICK x \in Pipes : \E b \in Flight(x) : b.type = "chunk" /\ b.item = i /\ k \in Span(b.offset, b.data)
    BY <2>1 DEF WholeInv, BlockComes
  <2>3. PICK b \in Flight(x) : b.type = "chunk" /\ b.item = i /\ k \in Span(b.offset, b.data)
    BY <2>2
  <2>4. b # m
    BY <1>5, <2>3
  <2>5. b \in Flight(x)'
    BY <2>4
  <2> QED BY <2>3, <2>5 DEF BlockComes, Span
<1>6. WholeInv'
  BY <1>4, <1>5 DEF WholeInv
<1> QED BY <1>3, <1>6

\* The receiver goes on with the transfer.
LEMMA GoesOn ==
    ASSUME IInv, CalmInv, AnswerInv, UNCHANGED <<conflict, final, edits>>,
           r.phase = "chunks", r'.phase \in {"chunks", "finalize"},
           r'.declared = r.declared, r'.open = r.open, r'.mode = r.mode, r'.slot = r.slot,
           r'.overwrite = r.overwrite,
           r'.phase = "chunks" /\ edits' = 0 => SentInv' /\ OrderInv' /\ WholeInv'
    PROVE  NInv'
<1>1. CalmInv' /\ NoRefusal'
  BY DEF CalmInv, NoRefusal
<1>2. FlowInv'
  BY DEF FlowInv, Flowing
<1>3. AnswerInv'
  <2>1. edits' = 0 => \A i \in Receiving' : r'.declared[i] = Original(i)
    BY DEF AnswerInv, Receiving
  <2>2. \A i \in r'.open : Placeable(i)'
    BY DEF AnswerInv, Placeable
  <2> QED BY <2>1, <2>2 DEF AnswerInv
<1> QED BY <1>1, <1>2, <1>3 DEF NInv

\* A chunk that arrives overlaps nothing that was received, and without striping
\* it is the next one.
LEMMA ArrivesValid ==
    ASSUME IInv, PInv, FlowInv, edits = 0, NEW p \in Pipes, NEW m, Arrives(p, m),
           r'.phase # "accept", m.type = "chunk"
    PROVE  ChunkValid(p, m)
<1>0. PartInv /\ SessionInv /\ r.phase = "chunks"
  BY DEF PInv, Arrives
<1>1. PICK i, span, size : i = m.item /\ span = Span(m.offset, m.data) /\ size = Size[i]
  OBVIOUS
<1>2. /\ SentInv /\ WholeInv /\ OrderInv /\ Sound(m) /\ Fits(p, m)
      /\ \A x : Got(x) = r.ranges[x]
      /\ \A b \in Flight(p)' : MayFollow(m, b)
      /\ \A b \in Flight(p) : b \in Flight(p)' \/ b = m
  BY ArrivesFits
<1>3. /\ i \in Files /\ m.offset \in Nat /\ Len(m.data) \in Nat /\ Len(m.data) > 0
      /\ span = m.offset..(m.offset + Len(m.data) - 1)
  <2>1. i \in Files /\ m.offset \in Nat /\ m.data \in Content /\ m.data # << >>
    BY <1>1, <1>2 DEF Sound
  <2>2. Len(m.data) \in Nat /\ Len(m.data) > 0
    BY <2>1 DEF Content
  <2> QED BY <1>1, <2>1, <2>2 DEF Span
<1>4. /\ p \in ChunkPipes(r, i) /\ r.mode[i] = "receive" /\ (r.striping \/ i \notin r.ended)
      /\ m.offset + Len(m.data) <= s.offset[i] /\ span \cap r.ranges[i] = {}
  BY <1>1, <1>2 DEF Fits
<1>5. /\ size \in Nat /\ s.offset[i] \in Nat /\ s.offset[i] <= size
      /\ r.ranges[i] \in SUBSET (0..(size - 1)) /\ r.coverage[i] = r.ranges[i]
  BY <1>0, <1>1, <1>2, <1>3, Typing, Basics DEF SentInv, SessionInv, PartInv
<1>6. ASSUME ~r.striping PROVE m.offset = Prefix(r.ranges[i])
  <2>1. ASSUME NEW k \in 0..(m.offset - 1), k \notin r.ranges[i] PROVE FALSE
    <3>1. k \in 0..(s.offset[i] - 1) /\ k \notin Got(i)
      BY <1>2, <1>3, <1>4, <1>5, <2>1
    <3>2. PICK x \in Pipes : \E b \in Flight(x) :
              b.type = "chunk" /\ b.item = i /\ k \in Span(b.offset, b.data)
      BY <1>2, <1>3, <3>1 DEF WholeInv, BlockComes
    <3>3. PICK b \in Flight(x) : b.type = "chunk" /\ b.item = i /\ k \in Span(b.offset, b.data)
      BY <3>2
    <3>4. x = p
      <4>1. x \in ChunkPipes(r, i)
        BY <1>2, <3>3 DEF OrderInv, Fits
      <4> QED BY <1>4, <1>6, <4>1 DEF ChunkPipes
    <3>5. b # m
      <4>1. b = m => k \in span
        BY <1>1, <3>3
      <4> QED BY <1>3, <2>1, <4>1
    <3>6. MayFollow(m, b)
      BY <1>2, <3>3, <3>4, <3>5
    <3>7. m.offset + Len(m.data) <= b.offset
      BY <1>1, <3>3, <3>6, m.type = "chunk" DEF MayFollow
    <3>8. b.offset \in Nat /\ k >= b.offset
      <4>1. Sound(b)
        BY <1>0, <3>3, FlightSound DEF PInv
      <4>2. b.offset \in Nat /\ Len(b.data) \in Nat
        BY <3>3, <4>1 DEF Sound, Content
      <4> QED BY <3>3, <4>2 DEF Span
    <3> QED BY <1>3, <2>1, <3>7, <3>8
  <2>2. m.offset \notin r.ranges[i]
    BY <1>3, <1>4
  <2>3. 0..(m.offset - 1) \subseteq r.ranges[i]
    BY <2>1
  <2> QED BY <1>3, <1>5, <2>2, <2>3, PrefixIs
<1> QED BY <1>1, <1>3, <1>4, <1>5, <1>6 DEF ChunkValid

LEMMA ChunkReceivedN ==
    ASSUME IInv, PInv, NInv, NEW p \in Pipes, NEW m, RecvChunk(p, m)
    PROVE  NInv'
<1> USE Basics DEF sourceVars, fsVars, faultVars, fixedVars
<1>0. Shape /\ CalmInv /\ AnswerInv /\ FlowInv /\ PartInv
  BY DEF IInv, PInv, NInv
<1>1. /\ Arrives(p, m) /\ m.type = "chunk" /\ r.phase = "chunks"
      /\ UNCHANGED <<edits, final, s, back, conflict>>
  BY DEF RecvChunk, Arrives
<1>2. PICK i, span : i = m.item /\ span = Span(m.offset, m.data)
  OBVIOUS
<1>3. ChunkValid(p, m) =>
        /\ r'.phase = "chunks" /\ r'.ranges = [r.ranges EXCEPT ![i] = @ \cup span]
        /\ r'.open = r.open /\ r'.slot = r.slot /\ r'.declared = r.declared
        /\ r'.overwrite = r.overwrite /\ r'.pipes = r.pipes /\ r'.striping = r.striping
        /\ r'.opened = r.opened /\ r'.ended = r.ended /\ r'.mode = r.mode
  <2> SUFFICES ASSUME ChunkValid(p, m)
               PROVE  /\ r'.phase = "chunks" /\ r'.ranges = [r.ranges EXCEPT ![i] = @ \cup span]
                      /\ r'.open = r.open /\ r'.slot = r.slot /\ r'.declared = r.declared
                      /\ r'.overwrite = r.overwrite /\ r'.pipes = r.pipes /\ r'.striping = r.striping
                      /\ r'.opened = r.opened /\ r'.ended = r.ended /\ r'.mode = r.mode
    OBVIOUS
  <2>1. r' = [r EXCEPT !.coverage[i] = @ \cup span, !.ranges[i] = @ \cup span]
    BY <1>2 DEF RecvChunk
  <2> QED BY <1>0, <1>1, <2>1 DEF Shape, ReceiverFields
<1>4. ~ChunkValid(p, m) => r'.phase = "error"
  BY <1>0 DEF RecvChunk, Refuse, Shape, ReceiverFields
<1>5. r'.phase # "accept" /\ r'.phase \in {"chunks", "error"}
  BY <1>3, <1>4
<1>6. CASE edits # 0
  <2>1. r'.phase # "error" => \A x \in r'.open : Placeable(x)'
    BY <1>0, <1>1, <1>3, <1>4 DEF AnswerInv, Placeable
  <2> QED BY <1>0, <1>1, <1>5, <1>6, <2>1, EditedN DEF PInv
<1>7. CASE edits = 0
  <2>1. ChunkValid(p, m)
    BY <1>0, <1>1, <1>5, <1>7, ArrivesValid
  <2>2. /\ SentInv /\ OrderInv /\ WholeInv /\ WireInv /\ Sound(m) /\ Fits(p, m)
        /\ \A x : Got(x) = r.ranges[x] /\ Got(x)' = r'.ranges[x]
        /\ \A b \in Flight(p)' : MayFollow(m, b)
        /\ \A x \in Pipes : /\ Flight(x)' \subseteq Flight(x)
                            /\ \A b \in Flight(x)' : x # p => Apart(m, b)
                            /\ \A a, b : Before(x, a, b)' => Before(x, a, b)
                            /\ \A b \in Flight(x) : b \in Flight(x)' \/ (x = p /\ b = m)
    BY <1>0, <1>1, <1>5, <1>7, ArrivesFits
  <2>3. i \in Files /\ m.offset \in Nat /\ Len(m.data) \in Nat
    BY <1>1, <1>2, <2>2 DEF Sound, Content
  <2>4. /\ Got(i)' = Got(i) \cup span
        /\ \A x \in Files : x # i => Got(x)' = Got(x)
    BY <1>0, <1>3, <2>1, <2>2, <2>3 DEF PartInv
  <2>5. span \subseteq 0..(s.offset[i] - 1)
    <3>1. m.offset + Len(m.data) <= s.offset[i] /\ s.offset[i] \in Nat
      BY <1>1, <1>2, <2>2, <2>3 DEF Fits, PInv, SessionInv
    <3> QED BY <1>2, <2>3, <3>1 DEF Span
  <2>6. SentInv'
    BY <1>1, <1>3, <2>1, <2>2, <2>4, <2>5 DEF SentInv
  <2>7. ASSUME NEW x \in Pipes, NEW b \in Flight(x)', b.type = "chunk", b.item = i
        PROVE  Span(b.offset, b.data) \cap span = {}
    <3>1. CASE x # p
      BY <1>1, <1>2, <2>2, <2>7, <3>1 DEF Apart
    <3>2. CASE x = p
      <4>1. m.offset + Len(m.data) <= b.offset
        BY <1>1, <1>2, <2>2, <2>7, <3>2 DEF MayFollow
      <4>2. b.offset \in Nat /\ Len(b.data) \in Nat
        <5>1. Sound(b)
          BY <2>2, FlightSound
        <5> QED BY <2>7, <5>1 DEF Sound, Content
      <4> QED BY <1>2, <2>3, <4>1, <4>2 DEF Span
    <3> QED BY <3>1, <3>2
  <2>8. \A x \in Pipes : \A b \in Flight(x)' : Fits(x, b)'
    <3> SUFFICES ASSUME NEW x \in Pipes, NEW b \in Flight(x)' PROVE Fits(x, b)'
      OBVIOUS
    <3>1. Fits(x, b) /\ (b.type = "chunk" => b.item \in Files)
      BY <2>2, FlightSound DEF OrderInv, Sound
    <3>2. b.type = "chunk" => Span(b.offset, b.data) \cap Got(b.item)' = {}
      BY <2>4, <2>7, <3>1 DEF Fits
    <3>3. ChunkPipes(r, b.item)' = ChunkPipes(r, b.item)
      BY <1>3, <2>1 DEF ChunkPipes, PipeForItem
    <3> QED BY <1>1, <1>3, <2>1, <3>1, <3>2, <3>3 DEF Fits, Span, PipeForItem
  <2>9. OrderInv' /\ WholeInv'
    <3>1. /\ s' = s /\ r'.striping = r.striping /\ r.opened \subseteq r'.opened
          /\ (m.type = "stream_open" => m.item \in r'.opened)
      BY <1>1, <1>3, <2>1
    <3>2. /\ \A x \in Files : Got(x) \subseteq Got(x)'
          /\ m.type = "chunk" => Span(m.offset, m.data) \subseteq Got(m.item)'
      BY <1>2, <2>4
    <3> QED BY <2>2, <2>8, <3>1, <3>2, FlowTaken
  <2> QED BY <1>0, <1>1, <1>3, <2>1, <2>6, <2>9, GoesOn
<1> QED BY <1>6, <1>7

\* A stream that is opened was not open; one that ends has been opened.
LEMMA LifecycleArrives ==
    ASSUME IInv, PInv, FlowInv, edits = 0, NEW p \in Pipes, NEW m, Arrives(p, m),
           r'.phase # "accept", m.type \in {"stream_open", "stream_end"}
    PROVE  LifecycleValid(p, m) /\ m.item \in Items
<1>1. /\ SentInv /\ WholeInv /\ OrderInv /\ Sound(m) /\ Fits(p, m)
      /\ \A b \in Flight(p)' : MayFollow(m, b)
      /\ \A b \in Flight(p) : b \in Flight(p)' \/ b = m
  BY ArrivesFits
<1>2. /\ p = PipeForItem(r.pipes, m.item) /\ m.item \in Items
      /\ m.type = "stream_open" => m.item \notin r.opened
      /\ m.type = "stream_end" => m.item \notin r.ended
  BY <1>1 DEF Fits, Sound
<1>3. ASSUME m.type = "stream_end", m.item \notin r.opened PROVE FALSE
  <2>1. PICK x \in Pipes : \E b \in Flight(x) : b.type = "stream_open" /\ b.item = m.item
    BY <1>1, <1>2, <1>3 DEF WholeInv, OpenComes
  <2>2. PICK b \in Flight(x) : b.type = "stream_open" /\ b.item = m.item
    BY <2>1
  <2>3. x = p
    BY <1>1, <1>2, <2>2 DEF OrderInv, Fits
  <2>4. b # m
    BY <1>3, <2>2
  <2> QED BY <1>1, <1>3, <2>2, <2>3, <2>4 DEF MayFollow
<1> QED BY <1>2, <1>3 DEF LifecycleValid

LEMMA LifecycleReceivedN ==
    ASSUME IInv, PInv, NInv, NEW p \in Pipes, NEW m, RecvLifecycle(p, m)
    PROVE  NInv'
<1> USE Basics DEF sourceVars, fsVars, faultVars, fixedVars
<1>0. Shape /\ CalmInv /\ AnswerInv /\ FlowInv
  BY DEF IInv, PInv, NInv
<1>1. /\ Arrives(p, m) /\ m.type \in {"stream_open", "stream_end"} /\ r.phase = "chunks"
      /\ UNCHANGED <<edits, final, s, back, conflict>>
  BY DEF RecvLifecycle, Arrives
<1>2. LifecycleValid(p, m) =>
        /\ r'.phase = "chunks" /\ r'.ranges = r.ranges
        /\ r'.opened = (IF m.type = "stream_open" THEN r.opened \cup {m.item} ELSE r.opened)
        /\ r'.ended = (IF m.type = "stream_open" THEN r.ended ELSE r.ended \cup {m.item})
        /\ r'.open = r.open /\ r'.slot = r.slot /\ r'.declared = r.declared
        /\ r'.overwrite = r.overwrite /\ r'.pipes = r.pipes /\ r'.striping = r.striping
        /\ r'.mode = r.mode
  <2> SUFFICES ASSUME LifecycleValid(p, m)
               PROVE  /\ r'.phase = "chunks" /\ r'.ranges = r.ranges
                      /\ r'.opened = (IF m.type = "stream_open" THEN r.opened \cup {m.item} ELSE r.opened)
                      /\ r'.ended = (IF m.type = "stream_open" THEN r.ended ELSE r.ended \cup {m.item})
                      /\ r'.open = r.open /\ r'.slot = r.slot /\ r'.declared = r.declared
                      /\ r'.overwrite = r.overwrite /\ r'.pipes = r.pipes /\ r'.striping = r.striping
                      /\ r'.mode = r.mode
    OBVIOUS
  <2>1. r' = IF m.type = "stream_open" THEN [r EXCEPT !.opened = @ \cup {m.item}]
             ELSE [r EXCEPT !.ended = @ \cup {m.item}]
    BY DEF RecvLifecycle
  <2>2. CASE m.type = "stream_open"
    BY <1>0, <1>1, <2>1, <2>2 DEF Shape, ReceiverFields
  <2>3. CASE m.type # "stream_open"
    BY <1>0, <1>1, <2>1, <2>3 DEF Shape, ReceiverFields
  <2> QED BY <2>2, <2>3
<1>3. ~LifecycleValid(p, m) => r'.phase = "error"
  BY <1>0 DEF RecvLifecycle, Refuse, Shape, ReceiverFields
<1>4. r'.phase # "accept" /\ r'.phase \in {"chunks", "error"}
  BY <1>2, <1>3
<1>5. CASE edits # 0
  <2>1. r'.phase # "error" => \A x \in r'.open : Placeable(x)'
    BY <1>0, <1>1, <1>2, <1>3 DEF AnswerInv, Placeable
  <2> QED BY <1>0, <1>1, <1>4, <1>5, <2>1, EditedN DEF PInv
<1>6. CASE edits = 0
  <2>1. LifecycleValid(p, m) /\ m.item \in Items
    BY <1>0, <1>1, <1>4, <1>6, LifecycleArrives
  <2>2. /\ SentInv /\ OrderInv /\ WholeInv /\ WireInv /\ Fits(p, m)
        /\ \A x : Got(x) = r.ranges[x] /\ Got(x)' = r'.ranges[x]
        /\ \A b \in Flight(p)' : MayFollow(m, b)
        /\ \A x \in Pipes : /\ Flight(x)' \subseteq Flight(x)
                            /\ \A a, b : Before(x, a, b)' => Before(x, a, b)
                            /\ \A b \in Flight(x) : b \in Flight(x)' \/ (x = p /\ b = m)
    BY <1>0, <1>1, <1>4, <1>6, ArrivesFits
  <2>3. /\ r'.pipes = r.pipes /\ r'.striping = r.striping /\ r'.mode = r.mode
        /\ \A x : Got(x)' = Got(x)
    BY <1>2, <2>1, <2>2
  <2>4. SentInv'
    BY <1>1, <1>2, <2>1, <2>2, <2>3 DEF SentInv, Fits
  <2>5. \A x \in Pipes : \A b \in Flight(x)' : Fits(x, b)'
    <3> SUFFICES ASSUME NEW x \in Pipes, NEW b \in Flight(x)' PROVE Fits(x, b)'
      OBVIOUS
    <3>1. Fits(x, b)
      BY <2>2 DEF OrderInv
    <3>2. p = PipeForItem(r.pipes, m.item)
      BY <1>1, <2>2 DEF Fits
    <3>3. b.item = m.item /\ b.type \in {"stream_open", "stream_end"} => x = p
      BY <3>1, <3>2 DEF Fits
    <3>4. b.item = m.item /\ b.type = "chunk" /\ ~r.striping => x = p
      BY <3>1, <3>2 DEF Fits, ChunkPipes
    <3>5. b.type = "stream_open" => b.item \notin r'.opened
      BY <1>1, <1>2, <2>1, <2>2, <3>1, <3>3 DEF Fits, MayFollow
    <3>6. b.type = "stream_end" => b.item \in s'.ended \ r'.ended
      BY <1>1, <1>2, <2>1, <2>2, <3>1, <3>3 DEF Fits, MayFollow
    <3>7. b.type = "chunk" => r.striping \/ b.item \notin r'.ended
      BY <1>1, <1>2, <2>1, <2>2, <3>1, <3>4 DEF Fits, MayFollow
    <3>8. ChunkPipes(r, b.item)' = ChunkPipes(r, b.item)
      BY <2>3 DEF ChunkPipes, PipeForItem
    <3> QED BY <1>1, <2>3, <3>1, <3>5, <3>6, <3>7, <3>8 DEF Fits, Span, PipeForItem
  <2>6. OrderInv' /\ WholeInv'
    <3>1. /\ s' = s /\ r'.striping = r.striping /\ r.opened \subseteq r'.opened
          /\ m.type = "stream_open" => m.item \in r'.opened
      BY <1>1, <1>2, <2>1
    <3>2. /\ \A x \in Files : Got(x) \subseteq Got(x)'
          /\ m.type = "chunk" => Span(m.offset, m.data) \subseteq Got(m.item)'
      BY <1>1, <2>3
    <3> QED BY <2>2, <2>5, <3>1, <3>2, FlowTaken
  <2> QED BY <1>0, <1>1, <1>2, <2>1, <2>4, <2>6, GoesOn
<1> QED BY <1>5, <1>6

LEMMA DoneReceivedN ==
    ASSUME IInv, PInv, NInv, NEW p \in Pipes, NEW m, RecvDone(p, m)
    PROVE  NInv'
<1> USE Basics DEF sourceVars, fsVars, faultVars, fixedVars
<1>0. Shape /\ CalmInv /\ AnswerInv /\ FlowInv
  BY DEF IInv, PInv, NInv
<1>1. /\ Arrives(p, m) /\ m.type = "done" /\ r.phase = "chunks"
      /\ UNCHANGED <<edits, final, s, back, conflict>>
  BY DEF RecvDone, Arrives
<1>2. /\ r'.phase \in {"chunks", "finalize"} /\ r'.ranges = r.ranges
      /\ r'.opened = r.opened /\ r'.ended = r.ended
      /\ r'.open = r.open /\ r'.slot = r.slot /\ r'.declared = r.declared
      /\ r'.overwrite = r.overwrite /\ r'.pipes = r.pipes /\ r'.striping = r.striping
      /\ r'.mode = r.mode
  BY <1>0, <1>1 DEF RecvDone, Shape, ReceiverFields
<1>3. ASSUME edits = 0 PROVE SentInv' /\ OrderInv' /\ WholeInv'
  <2>1. /\ SentInv /\ OrderInv /\ WholeInv
        /\ \A x : Got(x) = r.ranges[x] /\ Got(x)' = r'.ranges[x]
        /\ \A x \in Pipes : /\ Flight(x)' \subseteq Flight(x)
                            /\ \A a, b : Before(x, a, b)' => Before(x, a, b)
                            /\ \A b \in Flight(x) : b \in Flight(x)' \/ (x = p /\ b = m)
    BY <1>0, <1>1, <1>2, <1>3, ArrivesFits
  <2>2. \A x : Got(x)' = Got(x)
    BY <1>2, <2>1
  <2>3. SentInv'
    BY <1>1, <1>2, <2>1, <2>2 DEF SentInv
  <2>4. \A x \in Pipes : \A b \in Flight(x)' : Fits(x, b)'
    <3>1. \A i : ChunkPipes(r, i)' = ChunkPipes(r, i)
      BY <1>2 DEF ChunkPipes, PipeForItem
    <3>2. \A x, b : Fits(x, b) => Fits(x, b)'
      BY <1>1, <1>2, <2>2, <3>1 DEF Fits, Span, PipeForItem
    <3> QED BY <2>1, <3>2 DEF OrderInv
  <2>5. OrderInv' /\ WholeInv'
    <3>1. /\ s' = s /\ r'.striping = r.striping /\ r.opened \subseteq r'.opened
          /\ m.type = "stream_open" => m.item \in r'.opened
      BY <1>1, <1>2
    <3>2. /\ \A x \in Files : Got(x) \subseteq Got(x)'
          /\ m.type = "chunk" => Span(m.offset, m.data) \subseteq Got(m.item)'
      BY <1>1, <2>2
    <3> QED BY <2>1, <2>4, <3>1, <3>2, FlowTaken
  <2> QED BY <2>3, <2>5
<1> QED BY <1>0, <1>1, <1>2, <1>3, GoesOn

LEMMA PendingDoneN == ASSUME IInv, PInv, NInv, RecvPendingDone PROVE NInv'
<1> USE DEF sourceVars, fsVars, faultVars, fixedVars
<1>0. Shape /\ CalmInv /\ AnswerInv
  BY DEF IInv, NInv
<1>1. /\ r.phase = "chunks" /\ r'.phase = "finalize" /\ UNCHANGED <<edits, final, conflict>>
      /\ r'.open = r.open /\ r'.slot = r.slot /\ r'.declared = r.declared
      /\ r'.overwrite = r.overwrite /\ r'.mode = r.mode
  BY <1>0 DEF RecvPendingDone, Shape, ReceiverFields
<1> QED BY <1>0, <1>1, GoesOn

\* With the source as it was, what Finalize finds is what was declared.
LEMMA FinalizeGood ==
    ASSUME IInv, PInv, AnswerInv, edits = 0, r.phase = "finalize", NEW i \in r.open
    PROVE  Complete(r.ranges[i], Size[i]) /\ Verified(i) /\ Placeable(i)
<1>0. /\ Shape /\ SourceInv /\ SessionInv /\ PartInv
  BY DEF IInv, PInv
<1> DEFINE file == part[i][r.slot[i]]
<1>1. /\ i \in Files /\ Filled(i) /\ r.ranges[i] \in SUBSET (0..(Size[i] - 1))
      /\ Complete(r.ranges[i], Size[i]) /\ Size[i] \in Nat
  BY <1>0, Basics, Typing DEF SessionInv, PartInv
<1>2. file \in Seq(Nat) /\ Len(file) \in Nat
  BY <1>0, <1>1, SlotFacts DEF Shape, PartInv
<1>3. 0..(Size[i] - 1) \subseteq r.ranges[i]
  BY <1>1, PrefixIs DEF Complete
<1>4. Len(file) <= Size[i] /\ \A k \in r.ranges[i] : k < Len(file) /\ file[k + 1] = source[i][k + 1]
  BY <1>1 DEF Filled
<1> HIDE DEF file
<1>5. Size[i] > 0
  BY <1>1 DEF Files
<1>6. Len(file) = Size[i]
  <2>1. Size[i] - 1 \in r.ranges[i]
    BY <1>1, <1>3, <1>5
  <2> QED BY <1>1, <1>2, <1>4, <2>1
<1>7. \A k \in 1..Size[i] : file[k] = 1
  <2> SUFFICES ASSUME NEW k \in 1..Size[i] PROVE file[k] = 1
    OBVIOUS
  <2>1. k - 1 \in r.ranges[i] /\ (k - 1) + 1 = k
    BY <1>1, <1>3
  <2>2. file[k] = source[i][k]
    BY <1>4, <2>1
  <2> QED BY <1>0, <1>1, <2>2 DEF SourceInv, Original
<1>8. file = Original(i)
  <2>1. file = [k \in 1..Len(file) |-> file[k]]
    BY <1>2
  <2> QED BY <1>6, <1>7, <2>1 DEF Original
<1>9. r.declared[i] = Original(i)
  BY <1>0, <1>1 DEF AnswerInv, IInv, StoreInv
<1> QED BY <1>1, <1>6, <1>8, <1>9 DEF AnswerInv, Verified, file

LEMMA FinalizingN == ASSUME IInv, PInv, NInv, NEW i \in Files, FinalizeFile(i) PROVE NInv'
<1> USE DEF sourceVars, fsVars, faultVars, fixedVars
<1>0. /\ Shape /\ SourceInv /\ SessionInv /\ CalmInv /\ AnswerInv
  BY DEF IInv, PInv, NInv
<1> DEFINE good == Complete(r.ranges[i], Size[i]) /\ Verified(i) /\ Placeable(i)
<1>1. r.phase = "finalize" /\ i \in r.open /\ UNCHANGED <<edits, conflict, s, back>>
  BY DEF FinalizeFile
<1>2. good => /\ r'.phase = "finalize" /\ r'.open = r.open \ {i} /\ r'.slot = r.slot
              /\ r'.overwrite = r.overwrite /\ r'.mode = r.mode /\ r'.declared = r.declared
              /\ \A j \in Files : j # i => final'[j] = final[j]
  <2> SUFFICES ASSUME good
               PROVE  /\ r'.phase = "finalize" /\ r'.open = r.open \ {i} /\ r'.slot = r.slot
                      /\ r'.overwrite = r.overwrite /\ r'.mode = r.mode /\ r'.declared = r.declared
                      /\ \A j \in Files : j # i => final'[j] = final[j]
    OBVIOUS
  <2>1. /\ r' = [r EXCEPT !.open = @ \ {i}]
        /\ final' = [final EXCEPT ![i] = [final[i] EXCEPT ![r.slot[i]] = part[i][r.slot[i]]]]
    BY DEF FinalizeFile
  <2> QED BY <1>0, <1>1, <2>1 DEF Shape, ReceiverFields
<1>3. ~good => r'.phase = "error"
  BY <1>0 DEF FinalizeFile, Shape, ReceiverFields
<1>4. good => \A j \in r'.open : Placeable(j)'
  <2> SUFFICES ASSUME good, NEW j \in r'.open PROVE Placeable(j)'
    OBVIOUS
  <2>1. j \in r.open /\ j # i /\ j \in Files
    BY <1>0, <1>2 DEF SessionInv
  <2>2. Placeable(j)
    BY <1>0, <1>1, <2>1 DEF AnswerInv
  <2> QED BY <1>2, <2>1, <2>2 DEF Placeable
<1>5. CASE edits # 0
  <2> HIDE DEF good
  <2>1. r'.phase \in {"finalize", "error"} /\ (r'.phase # "error" => \A j \in r'.open : Placeable(j)')
    BY <1>2, <1>3, <1>4
  <2> QED BY <1>0, <1>1, <1>5, <2>1, EditedN
<1>6. CASE edits = 0
  <2>1. good
    BY <1>0, <1>1, <1>6, FinalizeGood
  <2> HIDE DEF good
  <2>2. CalmInv'
    BY <1>0, <1>1, <1>2, <2>1 DEF CalmInv
  <2>3. Receiving' = Receiving
    BY <1>2, <2>1 DEF Receiving
  <2>4. AnswerInv'
    BY <1>0, <1>1, <1>2, <1>4, <2>1, <2>3 DEF AnswerInv
  <2> QED BY <1>2, <2>1, <2>2, <2>4, FlowOver DEF NInv, NoRefusal
<1> QED BY <1>5, <1>6

LEMMA CompleteSentN == ASSUME IInv, PInv, NInv, SendComplete PROVE NInv'
<1>1. r'.phase = "success" /\ conflict' = conflict /\ CalmInv
  BY DEF SendComplete, fixedVars, IInv, NInv, Shape, ReceiverFields
<1> QED BY <1>1, EndedN

(***************************************************************************)
(* Faults.                                                                  *)
(***************************************************************************)

\* The two sides say what they said, and the sender at most gives up.
LEMMA StandingN ==
    ASSUME IInv, PInv, NInv, UNCHANGED <<final, r, wire, back, deferred, conflict>>,
           edits' = edits \/ edits' = edits + 1,
           s' = s \/ s' = [s EXCEPT !.phase = "failed"]
    PROVE  NInv'
<1>0. /\ Shape /\ SourceInv /\ CalmInv /\ AnswerInv /\ FlowInv /\ NoRefusal
  BY DEF IInv, PInv, NInv
<1>1. edits \in Nat /\ (edits' # 0 \/ edits' = edits)
  BY <1>0 DEF SourceInv
<1>2. /\ s'.pipes = s.pipes /\ s'.striping = s.striping
      /\ s'.offset = s.offset /\ s'.done = s.done /\ s'.ended = s.ended
      /\ s'.phase \in {s.phase, "failed"}
  BY <1>0 DEF Shape, SenderFields
<1>3. FlowInv'
  BY <1>0, <1>1, <1>2, FlowFrame
<1>4. CalmInv'
  BY <1>0, <1>2, CalmFrame
<1>5. AnswerInv'
  BY <1>0, <1>1, <1>2, AnswerFrame
<1>6. NoRefusal'
  BY <1>0, <1>1, RefusalFrame
<1> QED BY <1>3, <1>4, <1>5, <1>6 DEF NInv

LEMMA SenderFailingN == ASSUME IInv, PInv, NInv, SenderFails PROVE NInv'
BY StandingN DEF SenderFails, sourceVars, fsVars, faultVars, fixedVars

LEMMA EditingN == ASSUME IInv, PInv, NInv, NEW i \in Files, EditSource(i) PROVE NInv'
BY StandingN DEF EditSource, fsVars, fixedVars

LEMMA ReceiverFailingN == ASSUME IInv, PInv, NInv, ReceiverFails \/ Crash PROVE NInv'
<1>1. r'.phase = "failed" /\ conflict' = conflict /\ CalmInv
  BY DEF ReceiverFails, Crash, fixedVars, IInv, NInv, Shape, ReceiverFields
<1> QED BY <1>1, EndedN

LEMMA ReconnectingN == ASSUME IInv, PInv, NInv, Reconnect PROVE NInv'
<1>1. /\ r'.phase = "hello" /\ s'.phase = "hello" /\ r'.opened = {} /\ r'.ended = {}
      /\ deferred' = << >> /\ (\A p \in Pipes : wire'[p] = << >>) /\ conflict' = conflict
  BY DEF Reconnect, NewReceiver, NewSender, Quiet, fixedVars
<1>2. conflict \in Policies
  BY DEF NInv, CalmInv
<1>3. CalmInv'
  BY <1>1, <1>2 DEF CalmInv
<1> QED BY <1>1, <1>3, FlowOver DEF NInv, AnswerInv, NoRefusal

LEMMA NStep == IInv /\ PInv /\ NInv /\ [Next]_vars => NInv'
<1> SUFFICES ASSUME IInv, PInv, NInv, [Next]_vars PROVE NInv'
  OBVIOUS
<1>1. CASE SenderStep
  BY <1>1, HelloSentN, ManifestSentN, AcceptSentN, ChunkSentN, DoneSentN, CompleteReceivedN DEF SenderStep
<1>2. CASE ReceiverStep
  <2>1. CASE RecvHello \/ RecvManifest \/ RecvAccept \/ RecvPendingDone \/ SendComplete
    BY <2>1, HelloReceivedN, ManifestReceivedN, AcceptReceivedN, PendingDoneN, CompleteSentN
  <2>2. CASE \E p \in Pipes : Defer(p)
    BY <2>2, DeferringN
  <2>3. CASE \E p \in Pipes : \E m \in Incoming :
                 RecvChunk(p, m) \/ RecvLifecycle(p, m) \/ RecvDone(p, m)
    BY <2>3, ChunkReceivedN, LifecycleReceivedN, DoneReceivedN
  <2>4. CASE \E i \in Files : FinalizeFile(i)
    BY <2>4, FinalizingN
  <2> QED BY <1>2, <2>1, <2>2, <2>3, <2>4 DEF ReceiverStep
<1>3. CASE SenderFails \/ ReceiverFails \/ Crash
  BY <1>3, SenderFailingN, ReceiverFailingN
<1>4. CASE Reconnect
  BY <1>4, ReconnectingN
<1>5. CASE Break
  BY <1>5, StandingN DEF Break, sourceVars, fsVars, fixedVars
<1>6. CASE \E i \in Files : EditSource(i)
  BY <1>6, EditingN
<1>7. CASE UNCHANGED vars
  BY <1>7, StandingN DEF vars, sourceVars, fsVars, faultVars, fixedVars
<1> QED BY <1>1, <1>2, <1>3, <1>4, <1>5, <1>6, <1>7 DEF Next

\* While the sources stay as they are, every message on its way is one the
\* receiver will take: streams open once and before they end, chunks of a pipe
\* are in order, chunks of different pipes do not overlap, nothing is missing
\* from what was sent, and the hashes declared are the source's.
THEOREM NoRefusalInvariant == Spec => []NInv
BY TransferInvariant, PartInvariant, InitiallyN, NStep, PTL DEF Spec

\* However the pipes are merged and whatever earlier attempts and crashes left
\* in the part files, the receiver refuses a transfer only after the user has
\* edited a source (receiveMessage, the stream tracker, WriteChunk, Finalize).
THEOREM RefusalsEarned == Spec => []NoRefusal
<1>1. NInv => NoRefusal
  BY DEF NInv
<1> QED BY <1>1, NoRefusalInvariant, PTL
=============================================================================
