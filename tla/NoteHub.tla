------------------------------- MODULE NoteHub -------------------------------
(***************************************************************************)
(* The service side of the persistent encrypted notepad                     *)
(* (internal/service/persistent_note.go) for one notepad key: the in-memory *)
(* hub in s.notes, the file of the note store, the handler goroutine of     *)
(* every connected client, the periodic cleanup, and a crash of the service *)
(* process or of its machine.                                               *)
(*                                                                          *)
(* Critical sections under noteMu and hub.mu contain no blocking call and   *)
(* are one step each. deliveryMu is held across the disk write and the      *)
(* broadcast, so it is a variable.                                          *)
(***************************************************************************)
EXTENDS Integers, FiniteSets

CONSTANTS
    Clients,     \* connections that may join the notepad
    Records,     \* sealed records clients publish
    NoRecord,    \* record == nil
    MaxClients,  \* persistentNoteMaxClients
    TTL,         \* cfg.NoteTTL
    MaxTime,     \* bound on the clock
    MaxHubs,     \* bound on hub objects allocated by one process
    MaxGen,      \* bound on generations
    MaxCrashes,  \* bound on crashes
    Cleaner,     \* the cleanup goroutine, as an owner of deliveryMu
    Free         \* an unlocked deliveryMu

ASSUME NoteConstants ==
    /\ MaxClients \in Nat /\ TTL \in Nat \ {0} /\ MaxTime \in Nat
    /\ MaxHubs \in Nat /\ MaxGen \in Nat /\ MaxCrashes \in Nat
    /\ NoRecord \notin Records
    /\ Cleaner \notin Clients /\ Free \notin Clients /\ Cleaner # Free

HubId == 1..MaxHubs   \* 0 is a nil hub

Content == [generation : Nat, record : Records \cup {NoRecord}, expires : Nat]
Blank == [generation |-> 0, record |-> NoRecord, expires |-> 0]

\* A file of the store: absent, undecodable, or a persistentNoteDiskRecord.
File == [kind : {"none", "corrupt", "note"}, content : Content]
Absent == [kind |-> "none", content |-> Blank]
Corrupt == [kind |-> "corrupt", content |-> Blank]
NoteFile(content) == [kind |-> "note", content |-> content]

VARIABLES
    now,         \* the clock
    notes,       \* s.notes[key]: the current hub, 0 when nil
    hub,         \* generation, record and expiry of every hub object
    members,     \* hub.clients of every hub object
    deliveryMu,  \* owner of hub.deliveryMu
    lastHub,     \* the last hub object this process allocated
    disk,        \* the store's file as the running system sees it
    durable,     \* the file a machine crash leaves behind
    pc,          \* where the handler goroutine of each client is
    at,          \* the hub each handler joined, 0 when none
    held,        \* the content a handler holds: loaded, to greet with, to write
    targets,     \* clients a broadcasting handler has not written to yet
    sweep,       \* where the cleanup goroutine is
    sweepNow,    \* the time it was called with
    sweepHub,    \* the hub of its snapshot
    crashes,     \* crashes so far
    accepted,    \* history: contents that were committed
    raced        \* history: a file was removed that is not the one inspected

hubVars == <<notes, hub, members, lastHub>>
handlerVars == <<pc, at, held, targets>>
sweepVars == <<sweep, sweepNow, sweepHub>>
fileVars == <<disk, durable>>
historyVars == <<crashes, accepted, raced>>
vars == <<now, hubVars, deliveryMu, fileVars, handlerVars, sweepVars, historyVars>>

Init ==
    /\ now = 0 /\ notes = 0 /\ lastHub = 0
    /\ hub = [h \in HubId |-> Blank]
    /\ members = [h \in HubId |-> {}]
    /\ deliveryMu = [h \in HubId |-> Free]
    /\ disk \in {Absent, Corrupt} /\ durable = disk
    /\ pc = [c \in Clients |-> "out"]
    /\ at = [c \in Clients |-> 0]
    /\ held = [c \in Clients |-> Blank]
    /\ targets = [c \in Clients |-> {}]
    /\ sweep = "idle" /\ sweepNow = 0 /\ sweepHub = 0
    /\ crashes = 0 /\ accepted = {} /\ raced = FALSE

Expired(content, t) == content.expires <= t

(***************************************************************************)
(* Joining.  The lookup and the installation are separate critical         *)
(* sections; the file is read, and removed or quarantined, between them     *)
(* without a lock.                                                          *)
(***************************************************************************)

\* addPersistentNoteClient and the return to the handler: the state message
\* is composed under hub.mu and written after it is released.
AddClient(c, h, content) ==
    IF Cardinality(members[h]) >= MaxClients
    THEN /\ pc' = [pc EXCEPT ![c] = "out"]
         /\ held' = [held EXCEPT ![c] = Blank]
         /\ UNCHANGED <<members, at>>
    ELSE /\ members' = [members EXCEPT ![h] = @ \cup {c}]
         /\ at' = [at EXCEPT ![c] = h]
         /\ held' = [held EXCEPT ![c] = content]
         /\ pc' = [pc EXCEPT ![c] = "greet"]

JoinFound(c) ==
    /\ pc[c] = "out" /\ notes # 0
    /\ AddClient(c, notes, hub[notes])
    /\ UNCHANGED <<now, notes, hub, lastHub, deliveryMu, fileVars, targets,
                   sweepVars, historyVars>>

JoinMiss(c) ==
    /\ pc[c] = "out" /\ notes = 0
    /\ pc' = [pc EXCEPT ![c] = "load"]
    /\ UNCHANGED <<now, hubVars, deliveryMu, fileVars, at, held, targets,
                   sweepVars, historyVars>>

\* loadPersistentNote up to its decision: a valid, unexpired record is held,
\* any other file is remembered as one to remove.
LoadRead(c) ==
    /\ pc[c] = "load"
    /\ IF disk.kind = "none" \/ (disk.kind = "note" /\ ~Expired(disk.content, now))
       THEN pc' = [pc EXCEPT ![c] = "install"]
       ELSE pc' = [pc EXCEPT ![c] = "discard"]
    /\ held' = [held EXCEPT ![c] = disk.content]
    /\ UNCHANGED <<now, hubVars, deliveryMu, fileVars, at, targets, sweepVars,
                   historyVars>>

\* os.Remove and os.Rename act on the path: they take away whatever file is
\* there, which may be another than the inspected one.
TakeAway(inspected) ==
    /\ disk' = Absent
    /\ raced' = (raced \/ (disk.kind = "note" /\ disk.content # inspected))

LoadDiscard(c) ==
    /\ pc[c] = "discard"
    /\ TakeAway(held[c])
    /\ durable' \in {durable, Absent}
    /\ pc' = [pc EXCEPT ![c] = "install"]
    /\ held' = [held EXCEPT ![c] = Blank]
    /\ UNCHANGED <<now, hubVars, deliveryMu, at, targets, sweepVars, crashes, accepted>>

\* Second critical section: another handler may have installed a hub since.
InstallNew(c) ==
    LET h == lastHub + 1 IN
    /\ pc[c] = "install" /\ notes = 0 /\ h \in HubId
    /\ lastHub' = h /\ notes' = h
    /\ hub' = [hub EXCEPT ![h] = held[c]]
    /\ AddClient(c, h, held[c])
    /\ UNCHANGED <<now, deliveryMu, fileVars, targets, sweepVars, historyVars>>

InstallOther(c) ==
    /\ pc[c] = "install" /\ notes # 0
    /\ AddClient(c, notes, hub[notes])
    /\ UNCHANGED <<now, notes, hub, lastHub, deliveryMu, fileVars, targets,
                   sweepVars, historyVars>>

Greet(c) ==
    /\ pc[c] = "greet"
    /\ pc' = [pc EXCEPT ![c] = "serve"]
    /\ held' = [held EXCEPT ![c] = Blank]
    /\ UNCHANGED <<now, hubVars, deliveryMu, fileVars, at, targets, sweepVars,
                   historyVars>>

\* leavePersistentNote, deferred by the handler: after a failed greeting or a
\* read error.  A hub that is no longer current is left alone.
Leave(c) ==
    LET h == at[c]
        rest == members[h] \ {c}
    IN
    /\ pc[c] \in {"greet", "serve"}
    /\ deliveryMu[h] = Free
    /\ pc' = [pc EXCEPT ![c] = "out"]
    /\ at' = [at EXCEPT ![c] = 0]
    /\ held' = [held EXCEPT ![c] = Blank]
    /\ members' = IF notes = h THEN [members EXCEPT ![h] = rest] ELSE members
    /\ notes' = IF notes = h /\ rest = {} /\ hub[h].record = NoRecord
                THEN 0 ELSE notes
    /\ UNCHANGED <<now, hub, lastHub, deliveryMu, fileVars, targets, sweepVars,
                   historyVars>>

(***************************************************************************)
(* Applying an update: compare the base generation, write the file, commit, *)
(* broadcast, all under deliveryMu.                                         *)
(***************************************************************************)

\* Mutant: the delivery lock is not taken.
ApplyBeginUnlocked(c, r) ==
    LET h == at[c] IN
    /\ pc[c] = "serve" /\ notes = h
    /\ hub[h].generation < MaxGen
    /\ held' = [held EXCEPT ![c] = [generation |-> hub[h].generation + 1,
                                    record |-> r, expires |-> now + TTL]]
    /\ pc' = [pc EXCEPT ![c] = "rename"]
    /\ UNCHANGED <<now, hubVars, deliveryMu, fileVars, at, targets, sweepVars,
                   historyVars>>

\* The message's base generation is the hub's.  Otherwise the sender gets the
\* state back, and when the hub is not current the error "persistent notepad
\* expired": replies that change nothing here.
ApplyBegin(c, r) ==
    LET h == at[c] IN
    /\ pc[c] = "serve" /\ deliveryMu[h] = Free /\ notes = h
    /\ hub[h].generation < MaxGen
    /\ deliveryMu' = [deliveryMu EXCEPT ![h] = c]
    /\ held' = [held EXCEPT ![c] = [generation |-> hub[h].generation + 1,
                                    record |-> r, expires |-> now + TTL]]
    /\ pc' = [pc EXCEPT ![c] = "rename"]
    /\ UNCHANGED <<now, hubVars, fileVars, at, targets, sweepVars, historyVars>>

\* Mutant: the file is written in place of being synced before the commit.
ApplyRenameNoSync(c) ==
    /\ pc[c] = "rename"
    /\ disk' = NoteFile(held[c])
    /\ pc' = [pc EXCEPT ![c] = "commit"]
    /\ UNCHANGED <<now, hubVars, deliveryMu, durable, at, held, targets,
                   sweepVars, historyVars>>

\* writePersistentNote: the synced temporary file replaces the note's file.
ApplyRename(c) ==
    /\ pc[c] = "rename"
    /\ disk' = NoteFile(held[c])
    /\ pc' = [pc EXCEPT ![c] = "sync"]
    /\ UNCHANGED <<now, hubVars, deliveryMu, durable, at, held, targets,
                   sweepVars, historyVars>>

\* syncDirectory makes the directory as it is now durable.
ApplySync(c) ==
    /\ pc[c] = "sync"
    /\ durable' = disk
    /\ pc' = [pc EXCEPT ![c] = "commit"]
    /\ UNCHANGED <<now, hubVars, deliveryMu, disk, at, held, targets, sweepVars,
                   historyVars>>

\* Any step of the write failed: the sender gets the error, the hub keeps its
\* content.  A failed directory sync leaves the new file in place.
ApplyFail(c) ==
    /\ pc[c] \in {"rename", "sync"}
    /\ deliveryMu' = [deliveryMu EXCEPT ![at[c]] = Free]
    /\ pc' = [pc EXCEPT ![c] = "serve"]
    /\ held' = [held EXCEPT ![c] = Blank]
    /\ UNCHANGED <<now, hubVars, fileVars, at, targets, sweepVars, historyVars>>

ApplyCommit(c) ==
    LET h == at[c] IN
    /\ pc[c] = "commit"
    /\ hub' = [hub EXCEPT ![h] = held[c]]
    /\ targets' = [targets EXCEPT ![c] = members[h]]
    /\ pc' = [pc EXCEPT ![c] = "broadcast"]
    /\ accepted' = accepted \cup {held[c]}
    /\ UNCHANGED <<now, notes, members, lastHub, deliveryMu, fileVars, at, held,
                   sweepVars, crashes, raced>>

\* Mutant: a write without a deadline to a client that stopped reading.
BroadcastOneHangs(c, t) ==
    /\ pc[c] = "broadcast" /\ t \in targets[c]
    /\ UNCHANGED vars

\* One of the concurrent writes ends, delivered or failed.
BroadcastOne(c, t) ==
    /\ pc[c] = "broadcast" /\ t \in targets[c]
    /\ targets' = [targets EXCEPT ![c] = @ \ {t}]
    /\ UNCHANGED <<now, hubVars, deliveryMu, fileVars, pc, at, held, sweepVars,
                   historyVars>>

BroadcastDone(c) ==
    /\ pc[c] = "broadcast" /\ targets[c] = {}
    /\ deliveryMu' = [deliveryMu EXCEPT ![at[c]] = Free]
    /\ pc' = [pc EXCEPT ![c] = "serve"]
    /\ held' = [held EXCEPT ![c] = Blank]
    /\ UNCHANGED <<now, hubVars, fileVars, at, targets, sweepVars, historyVars>>

(***************************************************************************)
(* Cleanup: a snapshot of s.notes, the hub under its locks, then the files  *)
(* of the store, read and removed without any lock.                         *)
(***************************************************************************)

SweepStart ==
    /\ sweep = "idle"
    /\ sweepNow' = now
    /\ sweepHub' = notes
    /\ sweep' = IF notes = 0 THEN "files" ELSE "hub"
    /\ UNCHANGED <<now, hubVars, deliveryMu, fileVars, handlerVars, historyVars>>

\* Mutant: the hub is dropped although clients are connected.
SweepHubIgnoringClients ==
    LET h == sweepHub
        expired == notes = h /\ hub[h].record # NoRecord /\ Expired(hub[h], sweepNow)
    IN
    /\ sweep = "hub" /\ deliveryMu[h] = Free
    /\ notes' = IF expired THEN 0 ELSE notes
    /\ deliveryMu' = IF expired THEN [deliveryMu EXCEPT ![h] = Cleaner] ELSE deliveryMu
    /\ sweep' = IF expired THEN "unlink" ELSE "files"
    /\ UNCHANGED <<now, hub, members, lastHub, fileVars, handlerVars, sweepNow,
                   sweepHub, historyVars>>

\* The hub of the snapshot under its locks: skipped when no longer current,
\* dropped from s.notes when idle and expired.
SweepHub ==
    LET h == sweepHub
        expired == /\ notes = h /\ members[h] = {}
                   /\ hub[h].record # NoRecord /\ Expired(hub[h], sweepNow)
    IN
    /\ sweep = "hub" /\ deliveryMu[h] = Free
    /\ notes' = IF expired THEN 0 ELSE notes
    /\ deliveryMu' = IF expired THEN [deliveryMu EXCEPT ![h] = Cleaner] ELSE deliveryMu
    /\ sweep' = IF expired THEN "unlink" ELSE "files"
    /\ UNCHANGED <<now, hub, members, lastHub, fileVars, handlerVars, sweepNow,
                   sweepHub, historyVars>>

\* os.Remove of the dropped hub's file; only deliveryMu is still held.
SweepUnlink ==
    /\ sweep = "unlink"
    /\ TakeAway(hub[sweepHub])
    /\ deliveryMu' = [deliveryMu EXCEPT ![sweepHub] = Free]
    /\ sweep' = "files"
    /\ UNCHANGED <<now, hubVars, durable, handlerVars, sweepNow, sweepHub,
                   crashes, accepted>>

\* cleanupPersistentNoteFiles reads the file and decides.
SweepRead ==
    /\ sweep = "files"
    /\ IF disk.kind = "corrupt" \/ (disk.kind = "note" /\ Expired(disk.content, sweepNow))
       THEN sweep' = "remove" /\ UNCHANGED sweepNow
       ELSE sweep' = "idle" /\ sweepNow' = 0
    /\ sweepHub' = 0
    /\ UNCHANGED <<now, hubVars, deliveryMu, fileVars, handlerVars, historyVars>>

\* Mutant: an expired file is kept.
SweepRemoveKeeps ==
    /\ sweep = "remove"
    /\ sweep' = "idle" /\ sweepNow' = 0
    /\ UNCHANGED <<now, hubVars, deliveryMu, fileVars, handlerVars, sweepHub,
                   historyVars>>

SweepRemove ==
    /\ sweep = "remove"
    /\ disk' = Absent
    /\ raced' = (raced \/ (disk.kind = "note" /\ ~Expired(disk.content, sweepNow)))
    /\ sweep' = "idle" /\ sweepNow' = 0
    /\ UNCHANGED <<now, hubVars, deliveryMu, durable, handlerVars, sweepHub,
                   crashes, accepted>>

(***************************************************************************)
(* Environment.                                                             *)
(***************************************************************************)

Tick ==
    /\ now < MaxTime
    /\ now' = now + 1
    /\ UNCHANGED <<hubVars, deliveryMu, fileVars, handlerVars, sweepVars, historyVars>>

\* The process dies: memory is lost.  A machine crash also loses directory
\* operations that were not synced.
Crash ==
    /\ crashes < MaxCrashes
    /\ crashes' = crashes + 1
    /\ notes' = 0 /\ lastHub' = 0
    /\ hub' = [h \in HubId |-> Blank]
    /\ members' = [h \in HubId |-> {}]
    /\ deliveryMu' = [h \in HubId |-> Free]
    /\ disk' \in {disk, durable} /\ durable' = disk'
    /\ pc' = [c \in Clients |-> "out"]
    /\ at' = [c \in Clients |-> 0]
    /\ held' = [c \in Clients |-> Blank]
    /\ targets' = [c \in Clients |-> {}]
    /\ sweep' = "idle" /\ sweepNow' = 0 /\ sweepHub' = 0
    /\ UNCHANGED <<now, accepted, raced>>

ApplyProgress(c) ==
    \/ ApplyRename(c) \/ ApplySync(c) \/ ApplyFail(c) \/ ApplyCommit(c)
    \/ (\E t \in Clients : BroadcastOne(c, t)) \/ BroadcastDone(c)

Handler(c) ==
    \/ JoinFound(c) \/ JoinMiss(c) \/ LoadRead(c) \/ LoadDiscard(c)
    \/ InstallNew(c) \/ InstallOther(c) \/ Greet(c) \/ Leave(c)
    \/ (\E r \in Records : ApplyBegin(c, r)) \/ ApplyProgress(c)

Sweep == SweepStart \/ SweepHub \/ SweepUnlink \/ SweepRead \/ SweepRemove

Next == (\E c \in Clients : Handler(c)) \/ Sweep \/ Tick \/ Crash

Spec == Init /\ [][Next]_vars

\* A handler in the middle of an update keeps running, disk and socket writes
\* end (the latter have a deadline), and the cleanup ticker keeps firing; Go
\* mutexes hand over to a waiter that has starved for a millisecond.
Fairness ==
    /\ \A c \in Clients : WF_vars(ApplyProgress(c))
    /\ SF_vars(Sweep)

FairSpec == Spec /\ Fairness

(***************************************************************************)
(* Properties.                                                              *)
(***************************************************************************)

PcStates == {"out", "load", "discard", "install", "greet", "serve", "rename",
             "sync", "commit", "broadcast"}

\* Every variable has the type its Go counterpart has.
TypeOK ==
    /\ now \in Nat /\ notes \in 0..MaxHubs /\ lastHub \in 0..MaxHubs
    /\ hub \in [HubId -> Content] /\ members \in [HubId -> SUBSET Clients]
    /\ deliveryMu \in [HubId -> Clients \cup {Cleaner, Free}]
    /\ disk \in File /\ durable \in File
    /\ pc \in [Clients -> PcStates] /\ at \in [Clients -> 0..MaxHubs]
    /\ held \in [Clients -> Content] /\ targets \in [Clients -> SUBSET Clients]
    /\ sweep \in {"idle", "hub", "unlink", "files", "remove"}
    /\ sweepNow \in Nat /\ sweepHub \in 0..MaxHubs
    /\ crashes \in Nat /\ accepted \subseteq Content /\ raced \in BOOLEAN

Joined == {"greet", "serve", "rename", "sync", "commit", "broadcast"}
Writing == {"rename", "sync", "commit", "broadcast"}

\* The hub a handler joined stays the current hub of its key, with the client
\* in it, until the handler leaves: an update of a connected client never gets
\* "persistent notepad expired" (applyPersistentNote), whatever the joins,
\* leaves and cleanups of others do between the two critical sections of a join.
JoinedHubIsCurrent ==
    \A c \in Clients : pc[c] \in Joined => at[c] = notes /\ c \in members[notes]

\* The content of a hub is replaced only by the next generation, so of two
\* updates with the same base generation at most one is accepted.
NoLostUpdate ==
    [][\A h \in HubId :
          lastHub' # 0 /\ hub'[h] # hub[h] /\ hub[h].generation # 0
             => hub'[h].generation = hub[h].generation + 1]_vars

\* An accepted update survives a machine crash: while the current hub holds it
\* unexpired, the file that would be left behind is at least as new, and the
\* same content when it has the same generation, unless a removal without a
\* lock took away a file it had not inspected (writePersistentNote before the
\* commit of applyPersistentNote).
AcceptedIsDurable ==
    notes # 0 /\ hub[notes] \in accepted /\ ~Expired(hub[notes], now) /\ ~raced
      => /\ durable.kind = "note"
         /\ durable.content.generation >= hub[notes].generation
         /\ durable.content.generation = hub[notes].generation
              => durable.content = hub[notes]

\* The same without the exception: an accepted update refreshes the deadline
\* of the note and survives a restart.  It does not hold: cleanupPersistentNoteFiles
\* removes by path, and without a lock, the file that replaced the one it judged.
AcceptedSurvivesRestart ==
    notes # 0 /\ hub[notes] \in accepted /\ ~Expired(hub[notes], now)
      => disk.kind = "note"

\* An update in progress ends: again and again nobody is writing and
\* deliveryMu can be had by a leave, the next update or the cleanup.
UpdateEnds == []<>(\A c \in Clients : pc[c] \notin Writing)

\* An expired file does not stay in the store: the cleanup removes it unless
\* an update replaces it first.
ExpiredFileRemoved ==
    (disk.kind = "note" /\ Expired(disk.content, now))
      ~> (disk.kind # "note" \/ ~Expired(disk.content, now))
=============================================================================
