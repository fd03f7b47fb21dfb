---------------------------- MODULE NoteHubProofs ----------------------------
(***************************************************************************)
(* Proofs about NoteHub for any number of clients, records, generations,    *)
(* hubs and crashes.                                                        *)
(***************************************************************************)
EXTENDS NoteHub, TLAPS

\* A handler between join and leave is at the current hub and among its clients.
HubInv ==
    \A c \in Clients : pc[c] \in Joined =>
        notes \in HubId /\ at[c] = notes /\ c \in members[notes]

\* A handler in an update owns the delivery lock of its hub, and until it
\* commits it holds the content that follows the hub's.
LockInv ==
    \A c \in Clients :
        /\ pc[c] \in Writing => deliveryMu[at[c]] = c
        /\ pc[c] \in {"rename", "sync", "commit"} =>
               held[c].generation = hub[at[c]].generation + 1

\* The cleanup owns the delivery lock of the hub it has dropped.
SweepInv ==
    /\ sweep \in {"hub", "unlink"} => sweepHub \in HubId
    /\ sweep = "unlink" => deliveryMu[sweepHub] = Cleaner

\* The current hub was allocated; hub objects that were not are blank.
BlankInv == notes <= lastHub /\ \A h \in HubId : h > lastHub => hub[h] = Blank

IInv == TypeOK /\ HubInv /\ LockInv /\ SweepInv /\ BlankInv

LEMMA BlankType == Blank \in Content
  BY NoteConstants DEF Blank, Content

LEMMA InitIInv == Init => IInv
<1> SUFFICES ASSUME Init PROVE IInv
  OBVIOUS
<1> USE NoteConstants, BlankType
<1>1. TypeOK
  <2>1. Absent \in File /\ Corrupt \in File
    BY DEF File, Absent, Corrupt
  <2>2. disk \in File /\ durable \in File
    BY <2>1 DEF Init
  <2>3. now \in Nat /\ notes \in 0..MaxHubs /\ lastHub \in 0..MaxHubs
    BY DEF Init
  <2>4. /\ hub \in [HubId -> Content] /\ members \in [HubId -> SUBSET Clients]
        /\ deliveryMu \in [HubId -> Clients \cup {Cleaner, Free}]
    BY DEF Init
  <2>5. /\ pc \in [Clients -> PcStates] /\ at \in [Clients -> 0..MaxHubs]
        /\ held \in [Clients -> Content] /\ targets \in [Clients -> SUBSET Clients]
    BY DEF Init, PcStates
  <2>6. /\ sweep \in {"idle", "hub", "unlink", "files", "remove"}
        /\ sweepNow \in Nat /\ sweepHub \in 0..MaxHubs
    BY DEF Init
  <2>7. crashes \in Nat /\ accepted \subseteq Content
    BY DEF Init
  <2>8. raced \in BOOLEAN
    BY Zenon DEF Init
  <2> QED
    BY <2>2, <2>3, <2>4, <2>5, <2>6, <2>7, <2>8 DEF TypeOK
<1>2. HubInv /\ LockInv /\ SweepInv /\ BlankInv
  BY DEF Init, HubInv, LockInv, SweepInv, BlankInv, Joined, Writing
<1> QED
  BY <1>1, <1>2 DEF IInv

\* addPersistentNoteClient keeps the types of what it changes.
LEMMA AddClientType ==
    ASSUME TypeOK, NEW c \in Clients, NEW h \in HubId, NEW content \in Content,
           AddClient(c, h, content)
    PROVE  /\ pc' \in [Clients -> PcStates] /\ held' \in [Clients -> Content]
           /\ members' \in [HubId -> SUBSET Clients] /\ at' \in [Clients -> 0..MaxHubs]
<1> USE NoteConstants, BlankType
<1>1. CASE Cardinality(members[h]) >= MaxClients
  BY <1>1 DEF AddClient, TypeOK, PcStates
<1>2. CASE ~(Cardinality(members[h]) >= MaxClients)
  <2>1. members' \in [HubId -> SUBSET Clients]
    BY <1>2 DEF AddClient, TypeOK
  <2>2. at' \in [Clients -> 0..MaxHubs]
    <3>1. h \in 0..MaxHubs
      BY DEF HubId
    <3> QED
      BY <1>2, <3>1 DEF AddClient, TypeOK
  <2>3. pc' \in [Clients -> PcStates] /\ held' \in [Clients -> Content]
    BY <1>2 DEF AddClient, TypeOK, PcStates
  <2> QED
    BY <2>1, <2>2, <2>3
<1> QED
  BY <1>1, <1>2

LEMMA TypeStep == TypeOK /\ HubInv /\ SweepInv /\ [Next]_vars => TypeOK'
<1> SUFFICES ASSUME TypeOK, HubInv, SweepInv, [Next]_vars PROVE TypeOK'
  OBVIOUS
<1> USE NoteConstants, BlankType DEF TypeOK, PcStates, hubVars, handlerVars, sweepVars, fileVars, historyVars
<1>0. CASE UNCHANGED vars
  BY <1>0 DEF vars
<1>1. ASSUME NEW c \in Clients, JoinFound(c) PROVE TypeOK'
  <2>1. notes \in HubId /\ hub[notes] \in Content /\ AddClient(c, notes, hub[notes])
    BY <1>1 DEF JoinFound, HubId
  <2> QED
    BY <1>1, <2>1, AddClientType DEF JoinFound
<1>2. ASSUME NEW c \in Clients, JoinMiss(c) PROVE TypeOK'
  BY <1>2 DEF JoinMiss
<1>3. ASSUME NEW c \in Clients, LoadRead(c) PROVE TypeOK'
  BY <1>3 DEF LoadRead, File
<1>4. ASSUME NEW c \in Clients, LoadDiscard(c) PROVE TypeOK'
  BY <1>4 DEF LoadDiscard, TakeAway, File, Absent
<1>5. ASSUME NEW c \in Clients, InstallNew(c) PROVE TypeOK'
  <2>1. lastHub + 1 \in HubId /\ held[c] \in Content /\ AddClient(c, lastHub + 1, held[c])
    BY <1>5 DEF InstallNew
  <2> QED
    BY <1>5, <2>1, AddClientType DEF InstallNew, HubId
<1>6. ASSUME NEW c \in Clients, InstallOther(c) PROVE TypeOK'
  <2>1. notes \in HubId /\ hub[notes] \in Content /\ AddClient(c, notes, hub[notes])
    BY <1>6 DEF InstallOther, HubId
  <2> QED
    BY <1>6, <2>1, AddClientType DEF InstallOther
<1>7. ASSUME NEW c \in Clients, Greet(c) PROVE TypeOK'
  BY <1>7 DEF Greet
<1>8. ASSUME NEW c \in Clients, Leave(c) PROVE TypeOK'
  BY <1>8 DEF Leave, HubInv, Joined
<1>9. ASSUME NEW c \in Clients, NEW r \in Records, ApplyBegin(c, r) PROVE TypeOK'
  BY <1>9 DEF ApplyBegin, HubInv, Joined, Content
<1>10. ASSUME NEW c \in Clients, ApplyRename(c) PROVE TypeOK'
  BY <1>10 DEF ApplyRename, NoteFile, File
<1>11. ASSUME NEW c \in Clients, ApplySync(c) PROVE TypeOK'
  BY <1>11 DEF ApplySync
<1>12. ASSUME NEW c \in Clients, ApplyFail(c) PROVE TypeOK'
  BY <1>12 DEF ApplyFail
<1>13. ASSUME NEW c \in Clients, ApplyCommit(c) PROVE TypeOK'
  BY <1>13 DEF ApplyCommit, HubInv, Joined
<1>14. ASSUME NEW c \in Clients, NEW t \in Clients, BroadcastOne(c, t) PROVE TypeOK'
  BY <1>14 DEF BroadcastOne
<1>15. ASSUME NEW c \in Clients, BroadcastDone(c) PROVE TypeOK'
  BY <1>15 DEF BroadcastDone
<1>16. CASE SweepStart
  BY <1>16 DEF SweepStart
<1>17. CASE SweepHub
  BY <1>17 DEF SweepHub, SweepInv
<1>18. CASE SweepUnlink
  BY <1>18 DEF SweepUnlink, SweepInv, TakeAway, File, Absent
<1>19. CASE SweepRead
  BY <1>19 DEF SweepRead
<1>20. CASE SweepRemove
  BY <1>20 DEF SweepRemove, File, Absent
<1>21. CASE Tick
  BY <1>21 DEF Tick
<1>22. CASE Crash
  BY <1>22 DEF Crash, HubId
<1> QED
  BY <1>0, <1>1, <1>2, <1>3, <1>4, <1>5, <1>6, <1>7, <1>8, <1>9, <1>10, <1>11, <1>12,
     <1>13, <1>14, <1>15, <1>16, <1>17, <1>18, <1>19, <1>20, <1>21, <1>22
  DEF Next, Handler, ApplyProgress, Sweep

LEMMA HubStep == TypeOK /\ HubInv /\ [Next]_vars => HubInv'
<1> SUFFICES ASSUME TypeOK, HubInv, [Next]_vars PROVE HubInv'
  OBVIOUS
<1> USE NoteConstants DEF TypeOK, HubInv, Joined, HubId, hubVars, handlerVars,
        sweepVars, fileVars, historyVars
<1>0. CASE UNCHANGED vars
  BY <1>0 DEF vars
<1>1. ASSUME NEW c \in Clients, JoinFound(c) PROVE HubInv'
  BY <1>1 DEF JoinFound, AddClient
<1>2. ASSUME NEW c \in Clients, JoinMiss(c) PROVE HubInv'
  BY <1>2 DEF JoinMiss
<1>3. ASSUME NEW c \in Clients, LoadRead(c) PROVE HubInv'
  BY <1>3 DEF LoadRead
<1>4. ASSUME NEW c \in Clients, LoadDiscard(c) PROVE HubInv'
  BY <1>4 DEF LoadDiscard
<1>5. ASSUME NEW c \in Clients, InstallNew(c) PROVE HubInv'
  BY <1>5 DEF InstallNew, AddClient
<1>6. ASSUME NEW c \in Clients, InstallOther(c) PROVE HubInv'
  BY <1>6 DEF InstallOther, AddClient
<1>7. ASSUME NEW c \in Clients, Greet(c) PROVE HubInv'
  BY <1>7 DEF Greet
<1>8. ASSUME NEW c \in Clients, Leave(c) PROVE HubInv'
  BY <1>8 DEF Leave
<1>9. ASSUME NEW c \in Clients, NEW r \in Records, ApplyBegin(c, r) PROVE HubInv'
  BY <1>9 DEF ApplyBegin
<1>10. ASSUME NEW c \in Clients, ApplyRename(c) PROVE HubInv'
  BY <1>10 DEF ApplyRename
<1>11. ASSUME NEW c \in Clients, ApplySync(c) PROVE HubInv'
  BY <1>11 DEF ApplySync
<1>12. ASSUME NEW c \in Clients, ApplyFail(c) PROVE HubInv'
  BY <1>12 DEF ApplyFail
<1>13. ASSUME NEW c \in Clients, ApplyCommit(c) PROVE HubInv'
  BY <1>13 DEF ApplyCommit
<1>14. ASSUME NEW c \in Clients, NEW t \in Clients, BroadcastOne(c, t) PROVE HubInv'
  BY <1>14 DEF BroadcastOne
<1>15. ASSUME NEW c \in Clients, BroadcastDone(c) PROVE HubInv'
  BY <1>15 DEF BroadcastDone
<1>16. CASE SweepStart
  BY <1>16 DEF SweepStart
<1>17. CASE SweepHub
  BY <1>17 DEF SweepHub
<1>18. CASE SweepUnlink
  BY <1>18 DEF SweepUnlink
<1>19. CASE SweepRead
  BY <1>19 DEF SweepRead
<1>20. CASE SweepRemove
  BY <1>20 DEF SweepRemove
<1>21. CASE Tick
  BY <1>21 DEF Tick
<1>22. CASE Crash
  BY <1>22 DEF Crash
<1> QED
  BY <1>0, <1>1, <1>2, <1>3, <1>4, <1>5, <1>6, <1>7, <1>8, <1>9, <1>10, <1>11,
     <1>12, <1>13, <1>14, <1>15, <1>16, <1>17, <1>18, <1>19, <1>20, <1>21, <1>22
  DEF Next, Handler, ApplyProgress, Sweep

LEMMA LockStep == TypeOK /\ HubInv /\ LockInv /\ SweepInv /\ BlankInv /\ [Next]_vars => LockInv'
<1> SUFFICES ASSUME TypeOK, HubInv, LockInv, SweepInv, BlankInv, [Next]_vars PROVE LockInv'
  OBVIOUS
<1> USE NoteConstants DEF TypeOK, HubInv, LockInv, SweepInv, Joined, Writing, HubId,
        hubVars, handlerVars, sweepVars, fileVars, historyVars
<1>0. CASE UNCHANGED vars
  BY <1>0 DEF vars
<1>1. ASSUME NEW c \in Clients, JoinFound(c) PROVE LockInv'
  BY <1>1 DEF JoinFound, AddClient
<1>2. ASSUME NEW c \in Clients, JoinMiss(c) PROVE LockInv'
  BY <1>2 DEF JoinMiss
<1>3. ASSUME NEW c \in Clients, LoadRead(c) PROVE LockInv'
  BY <1>3 DEF LoadRead
<1>4. ASSUME NEW c \in Clients, LoadDiscard(c) PROVE LockInv'
  BY <1>4 DEF LoadDiscard
<1>5. ASSUME NEW c \in Clients, InstallNew(c) PROVE LockInv'
  BY <1>5 DEF InstallNew, AddClient
<1>6. ASSUME NEW c \in Clients, InstallOther(c) PROVE LockInv'
  BY <1>6 DEF InstallOther, AddClient
<1>7. ASSUME NEW c \in Clients, Greet(c) PROVE LockInv'
  BY <1>7 DEF Greet
<1>8. ASSUME NEW c \in Clients, Leave(c) PROVE LockInv'
  BY <1>8 DEF Leave
<1>9. ASSUME NEW c \in Clients, NEW r \in Records, ApplyBegin(c, r) PROVE LockInv'
  BY <1>9 DEF ApplyBegin
<1>10. ASSUME NEW c \in Clients, ApplyRename(c) PROVE LockInv'
  BY <1>10 DEF ApplyRename
<1>11. ASSUME NEW c \in Clients, ApplySync(c) PROVE LockInv'
  BY <1>11 DEF ApplySync
<1>12. ASSUME NEW c \in Clients, ApplyFail(c) PROVE LockInv'
  BY <1>12 DEF ApplyFail
<1>13. ASSUME NEW c \in Clients, ApplyCommit(c) PROVE LockInv'
  BY <1>13 DEF ApplyCommit
<1>14. ASSUME NEW c \in Clients, NEW t \in Clients, BroadcastOne(c, t) PROVE LockInv'
  BY <1>14 DEF BroadcastOne
<1>15. ASSUME NEW c \in Clients, BroadcastDone(c) PROVE LockInv'
  BY <1>15 DEF BroadcastDone
<1>16. CASE SweepStart
  BY <1>16 DEF SweepStart
<1>17. CASE SweepHub
  BY <1>17 DEF SweepHub
<1>18. CASE SweepUnlink
  BY <1>18 DEF SweepUnlink
<1>19. CASE SweepRead
  BY <1>19 DEF SweepRead
<1>20. CASE SweepRemove
  BY <1>20 DEF SweepRemove
<1>21. CASE Tick
  BY <1>21 DEF Tick
<1>22. CASE Crash
  BY <1>22 DEF Crash
<1> QED
  BY <1>0, <1>1, <1>2, <1>3, <1>4, <1>5, <1>6, <1>7, <1>8, <1>9, <1>10, <1>11,
     <1>12, <1>13, <1>14, <1>15, <1>16, <1>17, <1>18, <1>19, <1>20, <1>21, <1>22
  DEF Next, Handler, ApplyProgress, Sweep

LEMMA SweepStep == TypeOK /\ HubInv /\ LockInv /\ SweepInv /\ [Next]_vars => SweepInv'
<1> SUFFICES ASSUME TypeOK, HubInv, LockInv, SweepInv, [Next]_vars PROVE SweepInv'
  OBVIOUS
<1> USE NoteConstants DEF TypeOK, HubInv, LockInv, SweepInv, Joined, Writing, HubId,
        hubVars, handlerVars, sweepVars, fileVars, historyVars
<1>0. CASE UNCHANGED vars
  BY <1>0 DEF vars
<1>1. ASSUME NEW c \in Clients, JoinFound(c) PROVE SweepInv'
  BY <1>1 DEF JoinFound, AddClient
<1>2. ASSUME NEW c \in Clients, JoinMiss(c) PROVE SweepInv'
  BY <1>2 DEF JoinMiss
<1>3. ASSUME NEW c \in Clients, LoadRead(c) PROVE SweepInv'
  BY <1>3 DEF LoadRead
<1>4. ASSUME NEW c \in Clients, LoadDiscard(c) PROVE SweepInv'
  BY <1>4 DEF LoadDiscard
<1>5. ASSUME NEW c \in Clients, InstallNew(c) PROVE SweepInv'
  BY <1>5 DEF InstallNew, AddClient
<1>6. ASSUME NEW c \in Clients, InstallOther(c) PROVE SweepInv'
  BY <1>6 DEF InstallOther, AddClient
<1>7. ASSUME NEW c \in Clients, Greet(c) PROVE SweepInv'
  BY <1>7 DEF Greet
<1>8. ASSUME NEW c \in Clients, Leave(c) PROVE SweepInv'
  BY <1>8 DEF Leave
<1>9. ASSUME NEW c \in Clients, NEW r \in Records, ApplyBegin(c, r) PROVE SweepInv'
  BY <1>9 DEF ApplyBegin
<1>10. ASSUME NEW c \in Clients, ApplyRename(c) PROVE SweepInv'
  BY <1>10 DEF ApplyRename
<1>11. ASSUME NEW c \in Clients, ApplySync(c) PROVE SweepInv'
  BY <1>11 DEF ApplySync
<1>12. ASSUME NEW c \in Clients, ApplyFail(c) PROVE SweepInv'
  BY <1>12 DEF ApplyFail
<1>13. ASSUME NEW c \in Clients, ApplyCommit(c) PROVE SweepInv'
  BY <1>13 DEF ApplyCommit
<1>14. ASSUME NEW c \in Clients, NEW t \in Clients, BroadcastOne(c, t) PROVE SweepInv'
  BY <1>14 DEF BroadcastOne
<1>15. ASSUME NEW c \in Clients, BroadcastDone(c) PROVE SweepInv'
  BY <1>15 DEF BroadcastDone
<1>16. CASE SweepStart
  BY <1>16 DEF SweepStart
<1>17. CASE SweepHub
  BY <1>17 DEF SweepHub
<1>18. CASE SweepUnlink
  BY <1>18 DEF SweepUnlink
<1>19. CASE SweepRead
  BY <1>19 DEF SweepRead
<1>20. CASE SweepRemove
  BY <1>20 DEF SweepRemove
<1>21. CASE Tick
  BY <1>21 DEF Tick
<1>22. CASE Crash
  BY <1>22 DEF Crash
<1> QED
  BY <1>0, <1>1, <1>2, <1>3, <1>4, <1>5, <1>6, <1>7, <1>8, <1>9, <1>10, <1>11,
     <1>12, <1>13, <1>14, <1>15, <1>16, <1>17, <1>18, <1>19, <1>20, <1>21, <1>22
  DEF Next, Handler, ApplyProgress, Sweep

LEMMA BlankStep == TypeOK /\ HubInv /\ BlankInv /\ [Next]_vars => BlankInv'
<1> SUFFICES ASSUME TypeOK, HubInv, BlankInv, [Next]_vars PROVE BlankInv'
  OBVIOUS
<1> USE NoteConstants DEF TypeOK, HubInv, BlankInv, Joined, HubId, hubVars,
        handlerVars, sweepVars, fileVars, historyVars
<1>0. CASE UNCHANGED vars
  BY <1>0 DEF vars
<1>1. ASSUME NEW c \in Clients, JoinFound(c) PROVE BlankInv'
  BY <1>1 DEF JoinFound, AddClient
<1>2. ASSUME NEW c \in Clients, JoinMiss(c) PROVE BlankInv'
  BY <1>2 DEF JoinMiss
<1>3. ASSUME NEW c \in Clients, LoadRead(c) PROVE BlankInv'
  BY <1>3 DEF LoadRead
<1>4. ASSUME NEW c \in Clients, LoadDiscard(c) PROVE BlankInv'
  BY <1>4 DEF LoadDiscard
<1>5. ASSUME NEW c \in Clients, InstallNew(c) PROVE BlankInv'
  BY <1>5 DEF InstallNew, AddClient
<1>6. ASSUME NEW c \in Clients, InstallOther(c) PROVE BlankInv'
  BY <1>6 DEF InstallOther, AddClient
<1>7. ASSUME NEW c \in Clients, Greet(c) PROVE BlankInv'
  BY <1>7 DEF Greet
<1>8. ASSUME NEW c \in Clients, Leave(c) PROVE BlankInv'
  BY <1>8 DEF Leave
<1>9. ASSUME NEW c \in Clients, NEW r \in Records, ApplyBegin(c, r) PROVE BlankInv'
  BY <1>9 DEF ApplyBegin
<1>10. ASSUME NEW c \in Clients, ApplyRename(c) PROVE BlankInv'
  BY <1>10 DEF ApplyRename
<1>11. ASSUME NEW c \in Clients, ApplySync(c) PROVE BlankInv'
  BY <1>11 DEF ApplySync
<1>12. ASSUME NEW c \in Clients, ApplyFail(c) PROVE BlankInv'
  BY <1>12 DEF ApplyFail
<1>13. ASSUME NEW c \in Clients, ApplyCommit(c) PROVE BlankInv'
  BY <1>13 DEF ApplyCommit
<1>14. ASSUME NEW c \in Clients, NEW t \in Clients, BroadcastOne(c, t) PROVE BlankInv'
  BY <1>14 DEF BroadcastOne
<1>15. ASSUME NEW c \in Clients, BroadcastDone(c) PROVE BlankInv'
  BY <1>15 DEF BroadcastDone
<1>16. CASE SweepStart
  BY <1>16 DEF SweepStart
<1>17. CASE SweepHub
  BY <1>17 DEF SweepHub
<1>18. CASE SweepUnlink
  BY <1>18 DEF SweepUnlink
<1>19. CASE SweepRead
  BY <1>19 DEF SweepRead
<1>20. CASE SweepRemove
  BY <1>20 DEF SweepRemove
<1>21. CASE Tick
  BY <1>21 DEF Tick
<1>22. CASE Crash
  BY <1>22 DEF Crash
<1> QED
  BY <1>0, <1>1, <1>2, <1>3, <1>4, <1>5, <1>6, <1>7, <1>8, <1>9, <1>10, <1>11,
     <1>12, <1>13, <1>14, <1>15, <1>16, <1>17, <1>18, <1>19, <1>20, <1>21, <1>22
  DEF Next, Handler, ApplyProgress, Sweep

\* The joined hub stays current and every update follows the content it was
\* checked against: the inductive invariant of every behaviour.
THEOREM Invariance == Spec => []IInv
<1>1. IInv /\ [Next]_vars => IInv'
  BY TypeStep, HubStep, LockStep, SweepStep, BlankStep DEF IInv
<1> QED
  BY <1>1, InitIInv, PTL DEF Spec

\* Every variable of the note service keeps its type (persistentNoteHub,
\* persistentNoteDiskRecord and the handlers' local state).
THEOREM TypeCorrect == Spec => []TypeOK
  BY Invariance, PTL DEF IInv

\* No join, leave, update or cleanup replaces the hub under a connected client:
\* applyPersistentNote never answers "persistent notepad expired".
THEOREM JoinedCorrect == Spec => []JoinedHubIsCurrent
<1>1. IInv => JoinedHubIsCurrent
  BY DEF IInv, HubInv, JoinedHubIsCurrent
<1> QED
  BY <1>1, Invariance, PTL

\* Optimistic concurrency of applyPersistentNote: a record is only replaced by
\* one of the next generation.
THEOREM UpdatesCorrect == Spec => NoLostUpdate
<1> DEFINE A == \A h \in HubId :
                  lastHub' # 0 /\ hub'[h] # hub[h] /\ hub[h].generation # 0
                     => hub'[h].generation = hub[h].generation + 1
<1>1. IInv /\ [Next]_vars => A
  <2> SUFFICES ASSUME IInv, Next, UNCHANGED hub => FALSE, NEW h \in HubId,
                      lastHub' # 0, hub'[h] # hub[h], hub[h].generation # 0
               PROVE  hub'[h].generation = hub[h].generation + 1
    BY DEF vars, hubVars
  <2> USE NoteConstants
  <2>1. \/ \E c \in Clients : InstallNew(c) \/ ApplyCommit(c)
        \/ Crash
    BY DEF Next, Handler, ApplyProgress, Sweep, JoinFound, JoinMiss, LoadRead, LoadDiscard,
           InstallOther, Greet, Leave, ApplyBegin, ApplyRename, ApplySync, ApplyFail,
           BroadcastOne, BroadcastDone, SweepStart, SweepHub, SweepUnlink, SweepRead,
           SweepRemove, Tick, hubVars
  <2>2. CASE Crash
    BY <2>2 DEF Crash
  <2>3. ASSUME NEW c \in Clients, InstallNew(c) PROVE FALSE
    BY <2>3 DEF InstallNew, IInv, TypeOK, BlankInv, Blank, HubId
  <2>4. ASSUME NEW c \in Clients, ApplyCommit(c)
        PROVE  hub'[h].generation = hub[h].generation + 1
    BY <2>4 DEF ApplyCommit, IInv, TypeOK, LockInv
  <2> QED
    BY <2>1, <2>2, <2>3, <2>4
<1>2. Spec => [][A]_vars
  BY <1>1, Invariance, PTL DEF Spec
<1> QED
  BY <1>2 DEF NoLostUpdate

(***************************************************************************)
(* Durability of accepted updates.                                          *)
(***************************************************************************)

\* x is content a or newer, and does not expire before it.
Covers(x, a) ==
    /\ x.generation >= a.generation /\ x.expires >= a.expires
    /\ x.generation = a.generation => x = a

\* An accepted update that has not expired and was not removed by accident.
Live(a) == a \in accepted /\ ~raced /\ now < a.expires

\* Only note files have content; content without a record is of generation 0.
FileInv ==
    /\ disk.kind # "note" => disk.content = Blank
    /\ durable.kind # "note" => durable.content = Blank
    /\ disk.kind = "note" => disk.content.record # NoRecord
    /\ durable.kind = "note" => durable.content.record # NoRecord
    /\ \A h \in HubId : hub[h].record = NoRecord => hub[h].generation = 0
    /\ \A c \in Clients : held[c].record = NoRecord => held[c].generation = 0
    /\ \A a \in accepted : a.generation > 0

\* Deadlines are at most one TTL ahead of the clock.
TimeInv ==
    /\ sweepNow <= now
    /\ disk.content.expires <= now + TTL /\ durable.content.expires <= now + TTL
    /\ \A h \in HubId : hub[h].expires <= now + TTL
    /\ \A c \in Clients : held[c].expires <= now + TTL

\* What a handler or the cleanup is about to remove had expired.
StaleInv ==
    /\ \A c \in Clients : pc[c] = "discard" => held[c].expires <= now
    /\ sweep \in {"hub", "unlink"} => sweepHub <= lastHub
    /\ sweep = "unlink" => hub[sweepHub].expires <= now

\* An update in progress: its deadline is not earlier than the hub's, and its
\* file is in place, durably before the commit.
WriteOf(c) ==
    /\ pc[c] \in {"rename", "sync", "commit"} =>
           held[c].expires >= hub[at[c]].expires /\ held[c].record # NoRecord
    /\ pc[c] \in {"sync", "commit"} /\ ~raced /\ now < held[c].expires =>
           disk = NoteFile(held[c])
    /\ pc[c] = "commit" /\ ~raced /\ now < held[c].expires =>
           durable = NoteFile(held[c])

WriteInv == \A c \in Clients : WriteOf(c)

\* The files, the current hub and, while there is none, the content handlers
\* are about to install cover every live accepted update.
CoverInv ==
    \A a \in accepted : Live(a) =>
        /\ disk.kind = "note" /\ Covers(disk.content, a)
        /\ durable.kind = "note" /\ Covers(durable.content, a)
        /\ notes # 0 => Covers(hub[notes], a)
        /\ notes = 0 => \A c \in Clients :
               pc[c] # "discard" /\ (pc[c] = "install" => Covers(held[c], a))

DInv == IInv /\ FileInv /\ TimeInv /\ StaleInv /\ WriteInv /\ CoverInv

LEMMA InitDInv == Init => DInv
<1> SUFFICES ASSUME Init PROVE DInv
  OBVIOUS
<1> USE NoteConstants, InitIInv
<1>1. FileInv /\ TimeInv
  BY DEF Init, FileInv, TimeInv, Absent, Corrupt, Blank
<1>2. StaleInv /\ WriteInv /\ CoverInv
  BY DEF Init, StaleInv, WriteInv, WriteOf, CoverInv
<1> QED
  BY <1>1, <1>2 DEF DInv

\* The numbers in the state are natural numbers.
Numbers ==
    /\ now \in Nat /\ sweepNow \in Nat /\ lastHub \in Nat /\ sweepHub \in Nat
    /\ disk.content.generation \in Nat /\ disk.content.expires \in Nat
    /\ durable.content.generation \in Nat /\ durable.content.expires \in Nat
    /\ \A h \in HubId : hub[h].generation \in Nat /\ hub[h].expires \in Nat
    /\ \A c \in Clients : held[c].generation \in Nat /\ held[c].expires \in Nat
    /\ \A a \in accepted : a.generation \in Nat /\ a.expires \in Nat

LEMMA NumbersFact == TypeOK => Numbers
  BY NoteConstants DEF TypeOK, Numbers, Content, File

LEMMA BlankFields == Blank.expires = 0 /\ Blank.generation = 0 /\ Blank.record = NoRecord
  BY DEF Blank

LEMMA HubIdZero == 0 \notin HubId
  BY NoteConstants DEF HubId

LEMMA HubIdFact == TypeOK => (notes # 0 => notes \in HubId)
  BY NoteConstants DEF TypeOK, HubId

\* What a function of hubs or handlers is after an update.
LEMMA HubUpdate ==
    ASSUME TypeOK, NEW h \in HubId, NEW x
    PROVE  \A g \in HubId : [hub EXCEPT ![h] = x][g] = IF g = h THEN x ELSE hub[g]
  BY DEF TypeOK

LEMMA HeldUpdate ==
    ASSUME TypeOK, NEW c \in Clients, NEW x
    PROVE  \A d \in Clients : [held EXCEPT ![c] = x][d] = IF d = c THEN x ELSE held[d]
  BY DEF TypeOK

LEMMA PcUpdate ==
    ASSUME TypeOK, NEW c \in Clients, NEW x
    PROVE  \A d \in Clients : [pc EXCEPT ![c] = x][d] = IF d = c THEN x ELSE pc[d]
  BY DEF TypeOK

LEMMA AtUpdate ==
    ASSUME TypeOK, NEW c \in Clients, NEW x
    PROVE  \A d \in Clients : [at EXCEPT ![c] = x][d] = IF d = c THEN x ELSE at[d]
  BY DEF TypeOK

\* addPersistentNoteClient moves only the joining handler.
LEMMA AddClientEffect ==
    ASSUME TypeOK, NEW c \in Clients, NEW h, NEW content, AddClient(c, h, content)
    PROVE  /\ held'[c] \in {Blank, content} /\ pc'[c] \in {"out", "greet"}
           /\ \A d \in Clients \ {c} : held'[d] = held[d] /\ pc'[d] = pc[d] /\ at'[d] = at[d]
<1>1. CASE Cardinality(members[h]) >= MaxClients
  BY <1>1 DEF AddClient, TypeOK
<1>2. CASE ~(Cardinality(members[h]) >= MaxClients)
  BY <1>2 DEF AddClient, TypeOK
<1> QED
  BY <1>1, <1>2

\* loadPersistentNote's decision: what is held is the file's content, and only
\* an absent or an unexpired file is not to be discarded.
LEMMA LoadReadEffect ==
    ASSUME TypeOK, NEW c \in Clients, LoadRead(c)
    PROVE  /\ held'[c] = disk.content
           /\ \/ pc'[c] = "install" /\ (disk.kind = "none" \/ ~Expired(disk.content, now))
              \/ pc'[c] = "discard" /\ disk.kind # "none"
                 /\ (disk.kind = "note" => Expired(disk.content, now))
           /\ \A d \in Clients \ {c} : held'[d] = held[d] /\ pc'[d] = pc[d]
<1>1. CASE disk.kind = "none" \/ (disk.kind = "note" /\ ~Expired(disk.content, now))
  BY <1>1 DEF LoadRead, TypeOK
<1>2. CASE ~(disk.kind = "none" \/ (disk.kind = "note" /\ ~Expired(disk.content, now)))
  BY <1>2 DEF LoadRead, TypeOK
<1> QED
  BY <1>1, <1>2

LEMMA InstallNewEffect ==
    ASSUME TypeOK, NEW c \in Clients, InstallNew(c)
    PROVE  /\ notes = 0 /\ pc[c] = "install" /\ notes' = lastHub + 1 /\ notes' \in HubId
           /\ hub'[notes'] = held[c]
           /\ \A h \in HubId : h <= lastHub => hub'[h] = hub[h]
  BY NoteConstants DEF InstallNew, TypeOK, HubId

LEMMA ApplyBeginEffect ==
    ASSUME TypeOK, NEW c \in Clients, NEW r \in Records, ApplyBegin(c, r)
    PROVE  /\ pc[c] = "serve" /\ pc'[c] = "rename"
           /\ held'[c].record = r /\ held'[c].expires = now + TTL
           /\ \A d \in Clients \ {c} : held'[d] = held[d] /\ pc'[d] = pc[d]
  BY DEF ApplyBegin, TypeOK

LEMMA ApplyFailEffect ==
    ASSUME TypeOK, NEW c \in Clients, ApplyFail(c)
    PROVE  /\ pc'[c] = "serve"
           /\ \A d \in Clients \ {c} : held'[d] = held[d] /\ pc'[d] = pc[d]
  BY DEF ApplyFail, TypeOK

LEMMA ApplyCommitEffect ==
    ASSUME TypeOK, NEW c \in Clients, ApplyCommit(c), at[c] \in HubId
    PROVE  hub'[at[c]] = held[c] /\ notes' = notes
  BY DEF ApplyCommit, TypeOK

LEMMA TimeStep == TypeOK /\ HubInv /\ SweepInv /\ TimeInv /\ [Next]_vars => TimeInv'
<1> SUFFICES ASSUME TypeOK, HubInv, SweepInv, TimeInv, [Next]_vars PROVE TimeInv'
  OBVIOUS
<1> USE NoteConstants, NumbersFact, BlankFields, HubIdFact, HubUpdate, HeldUpdate,
        PcUpdate, AddClientEffect DEF Numbers, HubInv, SweepInv, Joined, TimeInv,
        Absent, NoteFile, hubVars, handlerVars, sweepVars, fileVars, historyVars
<1>0. CASE UNCHANGED vars
  BY <1>0 DEF vars
<1>1. ASSUME NEW c \in Clients, JoinFound(c) PROVE TimeInv'
  BY <1>1 DEF JoinFound
<1>2. ASSUME NEW c \in Clients, JoinMiss(c) PROVE TimeInv'
  BY <1>2 DEF JoinMiss
<1>3. ASSUME NEW c \in Clients, LoadRead(c) PROVE TimeInv'
  BY <1>3 DEF LoadRead
<1>4. ASSUME NEW c \in Clients, LoadDiscard(c) PROVE TimeInv'
  BY <1>4 DEF LoadDiscard, TakeAway
<1>5. ASSUME NEW c \in Clients, InstallNew(c) PROVE TimeInv'
  BY <1>5 DEF InstallNew
<1>6. ASSUME NEW c \in Clients, InstallOther(c) PROVE TimeInv'
  BY <1>6 DEF InstallOther
<1>7. ASSUME NEW c \in Clients, Greet(c) PROVE TimeInv'
  BY <1>7 DEF Greet
<1>8. ASSUME NEW c \in Clients, Leave(c) PROVE TimeInv'
  BY <1>8 DEF Leave
<1>9. ASSUME NEW c \in Clients, NEW r \in Records, ApplyBegin(c, r) PROVE TimeInv'
  BY <1>9 DEF ApplyBegin
<1>10. ASSUME NEW c \in Clients, ApplyRename(c) PROVE TimeInv'
  BY <1>10 DEF ApplyRename
<1>11. ASSUME NEW c \in Clients, ApplySync(c) PROVE TimeInv'
  BY <1>11 DEF ApplySync
<1>12. ASSUME NEW c \in Clients, ApplyFail(c) PROVE TimeInv'
  BY <1>12 DEF ApplyFail
<1>13. ASSUME NEW c \in Clients, ApplyCommit(c) PROVE TimeInv'
  BY <1>13 DEF ApplyCommit
<1>14. ASSUME NEW c \in Clients, NEW t \in Clients, BroadcastOne(c, t) PROVE TimeInv'
  BY <1>14 DEF BroadcastOne
<1>15. ASSUME NEW c \in Clients, BroadcastDone(c) PROVE TimeInv'
  BY <1>15 DEF BroadcastDone
<1>16. CASE SweepStart
  BY <1>16 DEF SweepStart
<1>17. CASE SweepHub
  BY <1>17 DEF SweepHub
<1>18. CASE SweepUnlink
  BY <1>18 DEF SweepUnlink, TakeAway
<1>19. CASE SweepRead
  BY <1>19 DEF SweepRead
<1>20. CASE SweepRemove
  BY <1>20 DEF SweepRemove
<1>21. CASE Tick
  BY <1>21 DEF Tick
<1>22. CASE Crash
  BY <1>22 DEF Crash
<1> QED
  BY <1>0, <1>1, <1>2, <1>3, <1>4, <1>5, <1>6, <1>7, <1>8, <1>9, <1>10, <1>11,
     <1>12, <1>13, <1>14, <1>15, <1>16, <1>17, <1>18, <1>19, <1>20, <1>21, <1>22
  DEF Next, Handler, ApplyProgress, Sweep

LEMMA FileStep == TypeOK /\ HubInv /\ LockInv /\ WriteInv /\ FileInv /\ [Next]_vars => FileInv'
<1> SUFFICES ASSUME TypeOK, HubInv, LockInv, WriteInv, FileInv, [Next]_vars PROVE FileInv'
  OBVIOUS
<1> USE NoteConstants, NumbersFact, BlankFields, HubIdFact, HubUpdate, HeldUpdate,
        PcUpdate, AddClientEffect DEF Numbers, HubInv, LockInv, Joined, WriteInv,
        WriteOf, FileInv, Absent, NoteFile, hubVars, handlerVars, sweepVars, fileVars,
        historyVars
<1>0. CASE UNCHANGED vars
  BY <1>0 DEF vars
<1>1. ASSUME NEW c \in Clients, JoinFound(c) PROVE FileInv'
  BY <1>1 DEF JoinFound
<1>2. ASSUME NEW c \in Clients, JoinMiss(c) PROVE FileInv'
  BY <1>2 DEF JoinMiss
<1>3. ASSUME NEW c \in Clients, LoadRead(c) PROVE FileInv'
  BY <1>3 DEF LoadRead
<1>4. ASSUME NEW c \in Clients, LoadDiscard(c) PROVE FileInv'
  BY <1>4 DEF LoadDiscard, TakeAway
<1>5. ASSUME NEW c \in Clients, InstallNew(c) PROVE FileInv'
  BY <1>5 DEF InstallNew
<1>6. ASSUME NEW c \in Clients, InstallOther(c) PROVE FileInv'
  BY <1>6 DEF InstallOther
<1>7. ASSUME NEW c \in Clients, Greet(c) PROVE FileInv'
  BY <1>7 DEF Greet
<1>8. ASSUME NEW c \in Clients, Leave(c) PROVE FileInv'
  BY <1>8 DEF Leave
<1>9. ASSUME NEW c \in Clients, NEW r \in Records, ApplyBegin(c, r) PROVE FileInv'
  BY <1>9 DEF ApplyBegin
<1>10. ASSUME NEW c \in Clients, ApplyRename(c) PROVE FileInv'
  BY <1>10 DEF ApplyRename
<1>11. ASSUME NEW c \in Clients, ApplySync(c) PROVE FileInv'
  BY <1>11 DEF ApplySync
<1>12. ASSUME NEW c \in Clients, ApplyFail(c) PROVE FileInv'
  BY <1>12 DEF ApplyFail
<1>13. ASSUME NEW c \in Clients, ApplyCommit(c) PROVE FileInv'
  BY <1>13 DEF ApplyCommit
<1>14. ASSUME NEW c \in Clients, NEW t \in Clients, BroadcastOne(c, t) PROVE FileInv'
  BY <1>14 DEF BroadcastOne
<1>15. ASSUME NEW c \in Clients, BroadcastDone(c) PROVE FileInv'
  BY <1>15 DEF BroadcastDone
<1>16. CASE SweepStart
  BY <1>16 DEF SweepStart
<1>17. CASE SweepHub
  BY <1>17 DEF SweepHub
<1>18. CASE SweepUnlink
  BY <1>18 DEF SweepUnlink, TakeAway
<1>19. CASE SweepRead
  BY <1>19 DEF SweepRead
<1>20. CASE SweepRemove
  BY <1>20 DEF SweepRemove
<1>21. CASE Tick
  BY <1>21 DEF Tick
<1>22. CASE Crash
  BY <1>22 DEF Crash
<1> QED
  BY <1>0, <1>1, <1>2, <1>3, <1>4, <1>5, <1>6, <1>7, <1>8, <1>9, <1>10, <1>11,
     <1>12, <1>13, <1>14, <1>15, <1>16, <1>17, <1>18, <1>19, <1>20, <1>21, <1>22
  DEF Next, Handler, ApplyProgress, Sweep

LEMMA StaleStep == TypeOK /\ HubInv /\ LockInv /\ SweepInv /\ BlankInv /\ FileInv /\ TimeInv /\ StaleInv /\ [Next]_vars => StaleInv'
<1> SUFFICES ASSUME TypeOK, HubInv, LockInv, SweepInv, BlankInv, FileInv, TimeInv, StaleInv, [Next]_vars PROVE StaleInv'
  OBVIOUS
<1> USE NoteConstants, NumbersFact, BlankFields, HubIdFact, HubUpdate, HeldUpdate,
        PcUpdate, AddClientEffect DEF Numbers, HubInv, LockInv, SweepInv, BlankInv,
        Joined, Writing, FileInv, TimeInv, StaleInv, Expired, hubVars, handlerVars,
        sweepVars, fileVars, historyVars
<1>0. CASE UNCHANGED vars
  BY <1>0 DEF vars
<1>1. ASSUME NEW c \in Clients, JoinFound(c) PROVE StaleInv'
  BY <1>1 DEF JoinFound
<1>2. ASSUME NEW c \in Clients, JoinMiss(c) PROVE StaleInv'
  BY <1>2 DEF JoinMiss
<1>3. ASSUME NEW c \in Clients, LoadRead(c) PROVE StaleInv'
  <2>1. pc'[c] = "discard" => held'[c].expires <= now
    BY <1>3, LoadReadEffect
  <2>2. \A d \in Clients : pc'[d] = "discard" => held'[d].expires <= now
    BY <1>3, <2>1, LoadReadEffect
  <2> QED
    BY <1>3, <2>2 DEF LoadRead
<1>4. ASSUME NEW c \in Clients, LoadDiscard(c) PROVE StaleInv'
  BY <1>4 DEF LoadDiscard, TakeAway
<1>5. ASSUME NEW c \in Clients, InstallNew(c) PROVE StaleInv'
  BY <1>5, InstallNewEffect DEF InstallNew
<1>6. ASSUME NEW c \in Clients, InstallOther(c) PROVE StaleInv'
  BY <1>6 DEF InstallOther
<1>7. ASSUME NEW c \in Clients, Greet(c) PROVE StaleInv'
  BY <1>7 DEF Greet
<1>8. ASSUME NEW c \in Clients, Leave(c) PROVE StaleInv'
  BY <1>8 DEF Leave
<1>9. ASSUME NEW c \in Clients, NEW r \in Records, ApplyBegin(c, r) PROVE StaleInv'
  BY <1>9 DEF ApplyBegin
<1>10. ASSUME NEW c \in Clients, ApplyRename(c) PROVE StaleInv'
  BY <1>10 DEF ApplyRename
<1>11. ASSUME NEW c \in Clients, ApplySync(c) PROVE StaleInv'
  BY <1>11 DEF ApplySync
<1>12. ASSUME NEW c \in Clients, ApplyFail(c) PROVE StaleInv'
  BY <1>12 DEF ApplyFail
<1>13. ASSUME NEW c \in Clients, ApplyCommit(c) PROVE StaleInv'
  BY <1>13 DEF ApplyCommit
<1>14. ASSUME NEW c \in Clients, NEW t \in Clients, BroadcastOne(c, t) PROVE StaleInv'
  BY <1>14 DEF BroadcastOne
<1>15. ASSUME NEW c \in Clients, BroadcastDone(c) PROVE StaleInv'
  BY <1>15 DEF BroadcastDone
<1>16. CASE SweepStart
  BY <1>16 DEF SweepStart
<1>17. CASE SweepHub
  BY <1>17 DEF SweepHub
<1>18. CASE SweepUnlink
  BY <1>18 DEF SweepUnlink, TakeAway
<1>19. CASE SweepRead
  BY <1>19 DEF SweepRead
<1>20. CASE SweepRemove
  BY <1>20 DEF SweepRemove
<1>21. CASE Tick
  BY <1>21 DEF Tick
<1>22. CASE Crash
  BY <1>22 DEF Crash
<1> QED
  BY <1>0, <1>1, <1>2, <1>3, <1>4, <1>5, <1>6, <1>7, <1>8, <1>9, <1>10, <1>11,
     <1>12, <1>13, <1>14, <1>15, <1>16, <1>17, <1>18, <1>19, <1>20, <1>21, <1>22
  DEF Next, Handler, ApplyProgress, Sweep

LEMMA WriteStep == TypeOK /\ HubInv /\ LockInv /\ SweepInv /\ TimeInv /\ StaleInv /\ WriteInv /\ [Next]_vars => WriteInv'
<1> SUFFICES ASSUME TypeOK, HubInv, LockInv, SweepInv, TimeInv, StaleInv, WriteInv, [Next]_vars PROVE WriteInv'
  OBVIOUS
<1> USE NoteConstants, NumbersFact, BlankFields, HubIdFact, HubUpdate, HeldUpdate,
        PcUpdate, AddClientEffect, AtUpdate DEF Numbers, HubInv, LockInv, SweepInv,
        Joined, Writing, TimeInv, StaleInv, WriteInv, WriteOf, NoteFile, Expired,
        hubVars, handlerVars, sweepVars, fileVars, historyVars
<1>0. CASE UNCHANGED vars
  BY <1>0 DEF vars
<1>1. ASSUME NEW c \in Clients, JoinFound(c) PROVE WriteInv'
  BY <1>1 DEF JoinFound
<1>2. ASSUME NEW c \in Clients, JoinMiss(c) PROVE WriteInv'
  BY <1>2 DEF JoinMiss
<1>3. ASSUME NEW c \in Clients, LoadRead(c) PROVE WriteInv'
  <2> SUFFICES ASSUME NEW d \in Clients PROVE WriteOf(d)'
    OBVIOUS
  <2>1. CASE d = c
    BY <1>3, <2>1, LoadReadEffect DEF LoadRead
  <2>2. CASE d # c
    <3>1. UNCHANGED <<now, hub, at, disk, durable, raced>>
      BY <1>3 DEF LoadRead
    <3>2. held'[d] = held[d] /\ pc'[d] = pc[d]
      BY <1>3, <2>2, LoadReadEffect
    <3> QED
      BY <3>1, <3>2
  <2> QED
    BY <2>1, <2>2
<1>4. ASSUME NEW c \in Clients, LoadDiscard(c) PROVE WriteInv'
  <2>1. ~raced' => ~raced /\ ~(disk.kind = "note" /\ disk.content # held[c])
    BY <1>4 DEF LoadDiscard, TakeAway
  <2>2. ASSUME NEW d \in Clients, pc[d] \in {"sync", "commit"}, ~raced', now < held[d].expires
        PROVE  FALSE
    BY <1>4, <2>1, <2>2 DEF LoadDiscard
  <2> QED
    BY <1>4, <2>1, <2>2 DEF LoadDiscard
<1>5. ASSUME NEW c \in Clients, InstallNew(c) PROVE WriteInv'
  BY <1>5 DEF InstallNew
<1>6. ASSUME NEW c \in Clients, InstallOther(c) PROVE WriteInv'
  BY <1>6 DEF InstallOther
<1>7. ASSUME NEW c \in Clients, Greet(c) PROVE WriteInv'
  BY <1>7 DEF Greet
<1>8. ASSUME NEW c \in Clients, Leave(c) PROVE WriteInv'
  BY <1>8 DEF Leave
<1>9. ASSUME NEW c \in Clients, NEW r \in Records, ApplyBegin(c, r) PROVE WriteInv'
  <2>1. at[c] \in HubId /\ hub[at[c]].expires <= now + TTL /\ r # NoRecord
    BY <1>9, ApplyBeginEffect
  <2>2. held'[c].expires >= hub[at[c]].expires /\ held'[c].record # NoRecord
    BY <1>9, <2>1, ApplyBeginEffect
  <2> SUFFICES ASSUME NEW d \in Clients PROVE WriteOf(d)'
    OBVIOUS
  <2>3. CASE d = c
    BY <1>9, <2>2, <2>3, ApplyBeginEffect DEF ApplyBegin
  <2>4. CASE d # c
    BY <1>9, <2>4, ApplyBeginEffect DEF ApplyBegin
  <2> QED
    BY <2>3, <2>4
<1>10. ASSUME NEW c \in Clients, ApplyRename(c) PROVE WriteInv'
  BY <1>10 DEF ApplyRename
<1>11. ASSUME NEW c \in Clients, ApplySync(c) PROVE WriteInv'
  BY <1>11 DEF ApplySync
<1>12. ASSUME NEW c \in Clients, ApplyFail(c) PROVE WriteInv'
  <2> SUFFICES ASSUME NEW d \in Clients PROVE WriteOf(d)'
    OBVIOUS
  <2>1. CASE d = c
    BY <1>12, <2>1, ApplyFailEffect DEF ApplyFail
  <2>2. CASE d # c
    BY <1>12, <2>2, ApplyFailEffect DEF ApplyFail
  <2> QED
    BY <2>1, <2>2
<1>13. ASSUME NEW c \in Clients, ApplyCommit(c) PROVE WriteInv'
  BY <1>13 DEF ApplyCommit
<1>14. ASSUME NEW c \in Clients, NEW t \in Clients, BroadcastOne(c, t) PROVE WriteInv'
  BY <1>14 DEF BroadcastOne
<1>15. ASSUME NEW c \in Clients, BroadcastDone(c) PROVE WriteInv'
  BY <1>15 DEF BroadcastDone
<1>16. CASE SweepStart
  BY <1>16 DEF SweepStart
<1>17. CASE SweepHub
  BY <1>17 DEF SweepHub
<1>18. CASE SweepUnlink
  <2>1. ~raced' => ~raced /\ ~(disk.kind = "note" /\ disk.content # hub[sweepHub])
    BY <1>18 DEF SweepUnlink, TakeAway
  <2>2. ASSUME NEW d \in Clients, pc[d] \in {"sync", "commit"}, ~raced', now < held[d].expires
        PROVE  FALSE
    BY <1>18, <2>1, <2>2 DEF SweepUnlink
  <2> QED
    BY <1>18, <2>1, <2>2 DEF SweepUnlink
<1>19. CASE SweepRead
  BY <1>19 DEF SweepRead
<1>20. CASE SweepRemove
  <2>1. ~raced' => ~raced /\ ~(disk.kind = "note" /\ ~Expired(disk.content, sweepNow))
    BY <1>20 DEF SweepRemove
  <2>2. ASSUME NEW d \in Clients, pc[d] \in {"sync", "commit"}, ~raced', now < held[d].expires
        PROVE  FALSE
    BY <1>20, <2>1, <2>2 DEF SweepRemove
  <2> QED
    BY <1>20, <2>1, <2>2 DEF SweepRemove
<1>21. CASE Tick
  BY <1>21 DEF Tick
<1>22. CASE Crash
  BY <1>22 DEF Crash
<1> QED
  BY <1>0, <1>1, <1>2, <1>3, <1>4, <1>5, <1>6, <1>7, <1>8, <1>9, <1>10, <1>11,
     <1>12, <1>13, <1>14, <1>15, <1>16, <1>17, <1>18, <1>19, <1>20, <1>21, <1>22
  DEF Next, Handler, ApplyProgress, Sweep

LEMMA CoverStep == TypeOK /\ HubInv /\ LockInv /\ SweepInv /\ BlankInv /\ FileInv /\ TimeInv /\ StaleInv /\ WriteInv /\ CoverInv /\ [Next]_vars => CoverInv'
<1> SUFFICES ASSUME TypeOK, HubInv, LockInv, SweepInv, BlankInv, FileInv, TimeInv, StaleInv, WriteInv, CoverInv, [Next]_vars PROVE CoverInv'
  OBVIOUS
<1> USE NoteConstants, NumbersFact, BlankFields, HubIdFact, HubUpdate, HeldUpdate,
        PcUpdate, AddClientEffect DEF Numbers, HubInv, LockInv, SweepInv, Joined,
        Writing, FileInv, TimeInv, StaleInv, WriteInv, WriteOf, CoverInv, Live,
        Covers, NoteFile, Expired, hubVars, handlerVars, sweepVars, fileVars,
        historyVars
<1>0. CASE UNCHANGED vars
  BY <1>0 DEF vars
<1>1. ASSUME NEW c \in Clients, JoinFound(c) PROVE CoverInv'
  BY <1>1 DEF JoinFound
<1>2. ASSUME NEW c \in Clients, JoinMiss(c) PROVE CoverInv'
  BY <1>2 DEF JoinMiss
<1>3. ASSUME NEW c \in Clients, LoadRead(c) PROVE CoverInv'
  <2> SUFFICES ASSUME NEW a \in accepted, Live(a)
               PROVE  /\ notes = 0 => \A d \in Clients :
                          pc'[d] # "discard" /\ (pc'[d] = "install" => Covers(held'[d], a))
    BY <1>3 DEF LoadRead
  <2>1. disk.kind = "note" /\ ~Expired(disk.content, now) /\ Covers(disk.content, a)
    OBVIOUS
  <2>2. pc'[c] = "install" /\ held'[c] = disk.content
    BY <1>3, <2>1, LoadReadEffect
  <2> QED
    BY <1>3, <2>1, <2>2, LoadReadEffect
<1>4. ASSUME NEW c \in Clients, LoadDiscard(c) PROVE CoverInv'
  <2>1. ~raced' => ~raced /\ ~(disk.kind = "note" /\ disk.content # held[c])
    BY <1>4 DEF LoadDiscard, TakeAway
  <2>2. ASSUME NEW a \in accepted, Live(a)' PROVE FALSE
    <3>1. Live(a)
      BY <1>4, <2>1, <2>2 DEF LoadDiscard
    <3> QED
      BY <1>4, <2>1, <2>2, <3>1 DEF LoadDiscard
  <2> QED
    BY <1>4, <2>2 DEF LoadDiscard
<1>5. ASSUME NEW c \in Clients, InstallNew(c) PROVE CoverInv'
  <2> SUFFICES ASSUME NEW a \in accepted, Live(a) PROVE Covers(hub'[notes'], a) /\ notes' # 0
    BY <1>5 DEF InstallNew
  <2>1. Covers(held[c], a)
    BY <1>5, InstallNewEffect
  <2> QED
    BY <1>5, <2>1, InstallNewEffect, HubIdZero
<1>6. ASSUME NEW c \in Clients, InstallOther(c) PROVE CoverInv'
  BY <1>6 DEF InstallOther
<1>7. ASSUME NEW c \in Clients, Greet(c) PROVE CoverInv'
  BY <1>7 DEF Greet
<1>8. ASSUME NEW c \in Clients, Leave(c) PROVE CoverInv'
  BY <1>8 DEF Leave
<1>9. ASSUME NEW c \in Clients, NEW r \in Records, ApplyBegin(c, r) PROVE CoverInv'
  BY <1>9 DEF ApplyBegin
<1>10. ASSUME NEW c \in Clients, ApplyRename(c) PROVE CoverInv'
  <2>1. notes # 0 /\ notes \in HubId /\ at[c] = notes
    BY <1>10, HubIdZero DEF ApplyRename
  <2>2. /\ held[c].generation = hub[notes].generation + 1
        /\ held[c].expires >= hub[notes].expires
    BY <1>10, <2>1 DEF ApplyRename
  <2>3. ASSUME NEW a \in accepted, Live(a) PROVE Covers(held[c], a)
    BY <2>1, <2>2, <2>3
  <2>4. disk'.kind = "note" /\ disk'.content = held[c]
    BY <1>10 DEF ApplyRename
  <2> QED
    BY <1>10, <2>1, <2>3, <2>4 DEF ApplyRename
<1>11. ASSUME NEW c \in Clients, ApplySync(c) PROVE CoverInv'
  BY <1>11 DEF ApplySync
<1>12. ASSUME NEW c \in Clients, ApplyFail(c) PROVE CoverInv'
  BY <1>12 DEF ApplyFail
<1>13. ASSUME NEW c \in Clients, ApplyCommit(c) PROVE CoverInv'
  <2>1. notes # 0 /\ notes \in HubId /\ at[c] = notes
    BY <1>13, HubIdZero DEF ApplyCommit
  <2>2. /\ held[c].generation = hub[notes].generation + 1
        /\ held[c].expires >= hub[notes].expires
    BY <1>13, <2>1 DEF ApplyCommit
  <2>3. hub'[notes] = held[c] /\ notes' = notes
    BY <1>13, <2>1, ApplyCommitEffect
  <2>4. ASSUME NEW a \in accepted, Live(a) PROVE Covers(held[c], a)
    BY <2>1, <2>2, <2>4
  <2>5. ~raced /\ now < held[c].expires =>
            /\ disk.kind = "note" /\ disk.content = held[c]
            /\ durable.kind = "note" /\ durable.content = held[c]
    BY <1>13 DEF ApplyCommit
  <2>6. Covers(held[c], held[c])
    OBVIOUS
  <2> QED
    BY <1>13, <2>1, <2>3, <2>4, <2>5, <2>6 DEF ApplyCommit
<1>14. ASSUME NEW c \in Clients, NEW t \in Clients, BroadcastOne(c, t) PROVE CoverInv'
  BY <1>14 DEF BroadcastOne
<1>15. ASSUME NEW c \in Clients, BroadcastDone(c) PROVE CoverInv'
  BY <1>15 DEF BroadcastDone
<1>16. CASE SweepStart
  BY <1>16 DEF SweepStart
<1>17. CASE SweepHub
  BY <1>17 DEF SweepHub
<1>18. CASE SweepUnlink
  <2>1. ~raced' => ~raced /\ ~(disk.kind = "note" /\ disk.content # hub[sweepHub])
    BY <1>18 DEF SweepUnlink, TakeAway
  <2>2. ASSUME NEW a \in accepted, Live(a)' PROVE FALSE
    <3>1. Live(a)
      BY <1>18, <2>1, <2>2 DEF SweepUnlink
    <3> QED
      BY <1>18, <2>1, <2>2, <3>1 DEF SweepUnlink
  <2> QED
    BY <1>18, <2>2 DEF SweepUnlink
<1>19. CASE SweepRead
  BY <1>19 DEF SweepRead
<1>20. CASE SweepRemove
  <2>1. ~raced' => ~raced /\ ~(disk.kind = "note" /\ ~Expired(disk.content, sweepNow))
    BY <1>20 DEF SweepRemove
  <2>2. ASSUME NEW a \in accepted, Live(a)' PROVE FALSE
    <3>1. Live(a)
      BY <1>20, <2>1, <2>2 DEF SweepRemove
    <3> QED
      BY <1>20, <2>1, <2>2, <3>1 DEF SweepRemove
  <2> QED
    BY <1>20, <2>2 DEF SweepRemove
<1>21. CASE Tick
  BY <1>21 DEF Tick
<1>22. CASE Crash
  BY <1>22 DEF Crash
<1> QED
  BY <1>0, <1>1, <1>2, <1>3, <1>4, <1>5, <1>6, <1>7, <1>8, <1>9, <1>10, <1>11,
     <1>12, <1>13, <1>14, <1>15, <1>16, <1>17, <1>18, <1>19, <1>20, <1>21, <1>22
  DEF Next, Handler, ApplyProgress, Sweep

\* applyPersistentNote writes and syncs the file before it commits: an accepted,
\* unexpired update is what a machine crash leaves behind, or an update that
\* followed it, as long as no file was removed unseen.
THEOREM DurabilityCorrect == Spec => []AcceptedIsDurable
<1>1. DInv /\ [Next]_vars => DInv'
  <2>1. IInv /\ [Next]_vars => IInv'
    BY TypeStep, HubStep, LockStep, SweepStep, BlankStep DEF IInv
  <2> QED
    BY <2>1, FileStep, TimeStep, StaleStep, WriteStep, CoverStep DEF DInv, IInv
<1>2. DInv => AcceptedIsDurable
  BY NoteConstants
  DEF DInv, IInv, TypeOK, CoverInv, Live, Covers, AcceptedIsDurable, Expired, Content, HubId
<1> QED
  BY <1>1, <1>2, InitDInv, PTL DEF Spec
=============================================================================
