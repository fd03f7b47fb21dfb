----------------------------- MODULE LocalFiles -----------------------------
(***************************************************************************)
(* The files the native programs of one user share: the recent notepads     *)
(* (internal/note/recent_store.go), the encrypted drafts                    *)
(* (draft_store.go) and the route history (internal/app/route_history.go).  *)
(*                                                                          *)
(* Every update runs under a lock file, created with O_EXCL and removed by  *)
(* path.  A lock older than 30 s is taken for a dead program's and removed; *)
(* that looks at one lock file and may remove another.  A Go mutex admits   *)
(* one thread of a program to a kind of file, so a process of this model is *)
(* a program; one that crashed may be started again.                        *)
(***************************************************************************)
EXTENDS Integers, Sequences, FiniteSets

CONSTANTS
    Procs,         \* programs
    Pads,          \* notepads of the recent list; their order is that of the names
    DraftKeys,     \* draftEntryKey: one file each
    Scopes,        \* network scopes, positive
    MaxItems,      \* RecentStoreMaxItems
    MaxDrafts,     \* draftStoreMaxDocs
    MaxProfiles,   \* maxRouteHistoryProfiles
    Threshold,     \* directHistoryFailureThreshold
    Cooldown,      \* directHistoryCooldown, in ticks of the clock
    TTL,           \* DraftTTL, in ticks of the clock
    Calls,         \* bound: updates of all programs
    MaxClock,      \* bound: the clock
    Faults         \* bound: crashes, failed writes and slow lock holders

ASSUME LocalFilesConstants ==
    /\ {MaxItems, MaxDrafts, MaxProfiles, Threshold, Cooldown, TTL} \subseteq Nat \ {0}
    /\ {Calls, MaxClock, Faults} \subseteq Nat
    /\ Pads \cup Scopes \subseteq Nat \ {0}

None == "none"
NoLock == [by |-> None, held |-> FALSE, old |-> FALSE]
Legacy == 0      \* the scope of the entries of a version 1 history

Op(name, file, arg, flag) == [name |-> name, file |-> file, arg |-> arg, flag |-> flag]

\* The updates of each kind of file: pads opened, marked or forgotten, outcomes
\* of direct connections, and drafts.
RecentOps ==
    {Op(name, "recents", pad, FALSE) : name \in {"Touch", "Remove"}, pad \in Pads}
    \cup {Op("SetFavorite", "recents", pad, flag) : pad \in Pads, flag \in BOOLEAN}
HistoryOps ==
    {Op("Record", "history", scope, flag) : scope \in Scopes, flag \in BOOLEAN}
DraftOps == {Op("Save", key, key, FALSE) : key \in DraftKeys}

Files == {"recents", "history"} \cup DraftKeys

VARIABLES
    clock,
    menu,      \* the kind of update of this behaviour: the kinds share nothing
    proc,      \* the programs
    calls,     \* updates begun
    lock,      \* the lock files: who created it, does its creator still run the
               \* locked function, is it older than 30 s
    file,      \* the contents: a set of entries, profiles, or of one draft
    faults,
    favorites, \* ghost: pads the committed calls marked and did not unmark
    seen,      \* ghost: the committed outcomes of each scope, 0 a success and
               \* the time a failure
    saved,     \* ghost: the committed drafts of each key
    damaged    \* ghost: files whose lock was taken from a running holder, that a
               \* fault removed, or whose draft a stale look removed

vars == <<clock, menu, proc, calls, lock, file, faults, favorites, seen, saved, damaged>>

Idle ==
    [pc |-> "idle", op |-> None, now |-> 0, next |-> {},
     todo |-> {}, ages |-> {}]

LegacyProfile ==
    [scope |-> Legacy, attempts |-> 1, failures |-> 1, streak |-> 1,
     lastFailure |-> 1, lastSeen |-> 1]

\* Earlier programs may have left a version 1 history or a list of one pad.
Init ==
    /\ clock = 1
    /\ menu \in {RecentOps, HistoryOps, DraftOps}
    /\ proc = [p \in Procs |-> Idle]
    /\ calls = 0
    /\ lock = [f \in Files |-> NoLock]
    /\ \E old \in {{}, {LegacyProfile}}, pads \in {{}} \cup {{pad} : pad \in Pads} :
        /\ old # {} => menu = HistoryOps
        /\ pads # {} => menu = RecentOps
        /\ file = [f \in Files |->
                    CASE f = "history" -> old
                      [] f = "recents" -> {[pad |-> pad, favorite |-> FALSE, opened |-> 1] : pad \in pads}
                      [] OTHER -> {}]
        /\ seen = [s \in Scopes \cup {Legacy} |->
                    IF s = Legacy /\ old # {} THEN <<1>> ELSE <<>>]
    /\ faults = 0
    /\ favorites = {}
    /\ saved = [k \in DraftKeys |-> <<>>]
    /\ damaged = {}

-----------------------------------------------------------------------------
(* What an update makes of the contents it read: the set of its results, and  *)
(* none when it fails.                                                        *)

\* sortRecentEntries
Before(a, b) ==
    \/ a.favorite /\ ~b.favorite
    \/ a.favorite = b.favorite /\ a.opened > b.opened
    \/ a.favorite = b.favorite /\ a.opened = b.opened /\ a.pad < b.pad

Touched(entries, pad) ==
    LET same == {e \in entries : e.pad = pad}
        fresh == [pad |-> pad, favorite |-> \E e \in same : e.favorite, opened |-> clock]
        all == (entries \ same) \cup {fresh}
    IN {e \in all : Cardinality({b \in all : Before(b, e)}) < MaxItems}

Favored(entries, pad, flag) ==
    {[e EXCEPT !.favorite = IF e.pad = pad THEN flag ELSE @] : e \in entries}

Forgotten(entries, pad) == {e \in entries : e.pad # pad}

\* migrateRouteHistory
Migrated(profiles, scope) ==
    {[pr EXCEPT !.scope = IF @ = Legacy THEN scope ELSE @] : pr \in profiles}

\* pruneRouteHistoryProfiles
KeptProfiles(profiles, scope) ==
    LET Older(a, b) == a.lastSeen < b.lastSeen \/ (a.lastSeen = b.lastSeen /\ a.scope < b.scope)
        others == {pr \in profiles : pr.scope # scope}
    IN {pr \in profiles : \/ pr.scope = scope
                          \/ Cardinality({o \in others : Older(pr, o)}) < MaxProfiles - 1}

\* recordRouteObservation
Recorded(profiles, scope, success) ==
    LET known == {pr \in Migrated(profiles, scope) : pr.scope = scope}
        old == IF known = {} THEN [LegacyProfile EXCEPT !.attempts = 0, !.failures = 0,
                                       !.streak = 0, !.lastFailure = 0]
               ELSE CHOOSE pr \in known : TRUE
        new == [scope |-> scope,
                attempts |-> old.attempts + 1,
                failures |-> old.failures + (IF success THEN 0 ELSE 1),
                streak |-> IF success THEN 0 ELSE old.streak + 1,
                lastFailure |-> IF success THEN old.lastFailure ELSE clock,
                lastSeen |-> clock]
    IN KeptProfiles((Migrated(profiles, scope) \ known) \cup {new}, scope)

Results(op, contents, now) ==
    CASE op.name = "Touch" -> {Touched(contents, op.arg)}
      [] op.name = "SetFavorite" ->
            {Favored(contents, op.arg, op.flag) : e \in {b \in contents : b.pad = op.arg}}
      [] op.name = "Remove" -> {Forgotten(contents, op.arg)}
      [] op.name = "Record" -> {Recorded(contents, op.arg, op.flag)}
      [] op.name = "Save" -> {{[at |-> now]}}

-----------------------------------------------------------------------------
(* withDraftFileLock and withRouteHistoryLock.                               *)

Ghosts == <<favorites, seen, saved>>

Call(p, op) ==
    /\ proc[p].pc = "idle" /\ calls < Calls
    /\ proc' = [proc EXCEPT ![p] = [@ EXCEPT !.pc = "lock", !.op = op,
                                      !.now = IF op.name = "Save" THEN clock ELSE 0]]
    /\ calls' = calls + 1
    /\ UNCHANGED <<clock, menu, lock, file, faults, Ghosts, damaged>>

Create(p) ==
    LET f == proc[p].op.file IN
    /\ proc[p].pc = "lock" /\ lock[f] = NoLock
    /\ lock' = [lock EXCEPT ![f] = [by |-> p, held |-> TRUE, old |-> FALSE]]
    /\ proc' = [proc EXCEPT ![p].pc = "update"]
    /\ UNCHANGED <<clock, menu, calls, file, faults, Ghosts, damaged>>

\* Mutant: the wait has no deadline.
ContendForever(p) ==
    /\ proc[p].pc = "lock" /\ lock[proc[p].op.file].old
    /\ proc' = [proc EXCEPT ![p].pc = "break"]
    /\ UNCHANGED <<clock, menu, calls, lock, file, faults, Ghosts, damaged>>

\* Mutant: the deferred removal covers the wait too.
ContendRemoves(p) ==
    LET l == lock[proc[p].op.file] IN
    /\ proc[p].pc = "lock" /\ l # NoLock
    /\ proc' = [proc EXCEPT ![p].pc = IF l.old THEN "break" ELSE "unlock"]
    /\ UNCHANGED <<clock, menu, calls, lock, file, faults, Ghosts, damaged>>

\* The lock file exists: an old one is to be removed, a fresh one is waited for,
\* for 2 s; those may be over at any look.
Contend(p) ==
    LET l == lock[proc[p].op.file] IN
    /\ proc[p].pc = "lock" /\ l # NoLock
    /\ proc' = [proc EXCEPT ![p] = IF l.old THEN [@ EXCEPT !.pc = "break"] ELSE Idle]
    /\ UNCHANGED <<clock, menu, calls, lock, file, faults, Ghosts, damaged>>

\* os.Remove(lockPath) after the look: whatever lock file is there now.
Break(p) ==
    LET f == proc[p].op.file IN
    /\ proc[p].pc = "break"
    /\ lock' = [lock EXCEPT ![f] = NoLock]
    /\ damaged' = IF lock[f].held THEN damaged \cup {f} ELSE damaged
    /\ proc' = [proc EXCEPT ![p].pc = "lock"]
    /\ UNCHANGED <<clock, menu, calls, file, faults, Ghosts>>

\* The deferred os.Remove(lockPath).  A saved draft is followed by a prune.
Unlock(p) ==
    LET f == proc[p].op.file IN
    /\ proc[p].pc \in {"unlock", "saved"}
    /\ lock' = [lock EXCEPT ![f] = NoLock]
    /\ proc' = [proc EXCEPT ![p] = IF @.pc = "saved" THEN [@ EXCEPT !.pc = "list"] ELSE Idle]
    /\ UNCHANGED <<clock, menu, calls, file, faults, Ghosts, damaged>>

-----------------------------------------------------------------------------
(* The locked function: read, change, write a temporary file, rename it.      *)

Update(p) ==
    LET a == proc[p]
        results == Results(a.op, file[a.op.file], a.now)
    IN /\ a.pc = "update"
       /\ \/ /\ results = {}
             /\ proc' = [proc EXCEPT ![p].pc = "unlock"]
          \/ \E next \in results :
                proc' = [proc EXCEPT ![p].pc = "replace", ![p].next = next]
       /\ UNCHANGED <<clock, menu, calls, lock, file, faults, Ghosts, damaged>>

\* The new contents are in place; the ghosts take the call's word.
Commit(p) ==
    LET op == proc[p].op
        next == proc[p].next
        Moved(s) == IF seen[Legacy] # <<>> /\ s = op.arg THEN seen[Legacy] ELSE seen[s]
        now == (CHOOSE pr \in next : pr.scope = op.arg).lastSeen
    IN /\ file' = [file EXCEPT ![op.file] = next]
       /\ favorites' = CASE op.name = "SetFavorite" /\ op.flag -> favorites \cup {op.arg}
                         [] op.name \in {"SetFavorite", "Remove"} /\ ~op.flag ->
                                favorites \ {op.arg}
                         [] OTHER -> favorites
       /\ seen' = IF op.name # "Record" THEN seen
                  ELSE [s \in Scopes \cup {Legacy} |->
                         IF s = op.arg THEN Append(Moved(s), IF op.flag THEN 0 ELSE now)
                         ELSE IF \E pr \in next : pr.scope = s THEN seen[s] ELSE <<>>]
       /\ saved' = IF op.name # "Save" THEN saved
                   ELSE [saved EXCEPT ![op.arg] = Append(@, CHOOSE d \in next : TRUE)]
       /\ proc' = [proc EXCEPT ![p].pc = IF op.name = "Save" THEN "saved" ELSE "unlock",
                               ![p].next = {}]

Replace(p) ==
    /\ proc[p].pc = "replace"
    /\ \/ Commit(p) /\ UNCHANGED <<faults, damaged>>
       \/ \* the temporary file or the rename fails
          /\ faults < Faults /\ faults' = faults + 1
          /\ proc' = [proc EXCEPT ![p].pc = "unlock"]
          /\ UNCHANGED <<file, Ghosts, damaged>>
       \/ \* the rename does not replace: the file is removed first
          /\ proc[p].op.file # "history" /\ file[proc[p].op.file] # {}
          /\ faults < Faults /\ faults' = faults + 1
          /\ file' = [file EXCEPT ![proc[p].op.file] = {}]
          /\ proc' = [proc EXCEPT ![p].pc = "again"]
          /\ UNCHANGED <<Ghosts, damaged>>
    /\ UNCHANGED <<clock, menu, calls, lock>>

\* The second rename.
Again(p) ==
    /\ proc[p].pc = "again"
    /\ \/ Commit(p) /\ UNCHANGED <<faults, damaged>>
       \/ /\ faults < Faults /\ faults' = faults + 1
          /\ proc' = [proc EXCEPT ![p].pc = "unlock"]
          /\ damaged' = damaged \cup {proc[p].op.file}
          /\ UNCHANGED <<file, Ghosts>>
    /\ UNCHANGED <<clock, menu, calls, lock>>

-----------------------------------------------------------------------------
(* pruneDraftDirectory, after the lock of the saved draft is gone and under   *)
(* no lock of the drafts it removes.                                          *)

Expired(draft, now) == draft.at + TTL <= now

\* os.ReadDir.
List(p) ==
    /\ proc[p].pc = "list"
    /\ proc' = [proc EXCEPT ![p].pc = "scan", ![p].todo = {k \in DraftKeys : file[k] # {}}]
    /\ UNCHANGED <<clock, menu, calls, lock, file, faults, Ghosts, damaged>>

\* One record is read; a missing one is passed over, an expired one goes first.
Scan(p, k) ==
    /\ proc[p].pc = "scan" /\ k \in proc[p].todo
    /\ \/ /\ file[k] = {}
          /\ proc' = [proc EXCEPT ![p].todo = @ \ {k}]
       \/ \E d \in file[k] :
            proc' = [proc EXCEPT ![p].todo = @ \ {k},
                                 ![p].ages = @ \cup {<<k, d>>},
                                 ![p].pc = IF Expired(d, proc[p].now) THEN "expire" ELSE "scan"]
    /\ UNCHANGED <<clock, menu, calls, lock, file, faults, Ghosts, damaged>>

\* os.Remove of the draft read before.
RemoveDraft(p, k, d) ==
    /\ file' = [file EXCEPT ![k] = {}]
    /\ damaged' = IF file[k] \subseteq {d} THEN damaged ELSE damaged \cup {k}

\* Mutant: the newest drafts go first.
PrunableNewest(p) ==
    LET a == proc[p] IN
    IF a.pc = "expire" THEN {age \in a.ages : Expired(age[2], a.now)}
    ELSE IF a.pc = "scan" /\ a.todo = {} /\ Cardinality(a.ages) > MaxDrafts
    THEN {age \in a.ages : \A b \in a.ages : age[2].at >= b[2].at}
    ELSE {}

Prunable(p) ==
    LET a == proc[p] IN
    IF a.pc = "expire" THEN {age \in a.ages : Expired(age[2], a.now)}
    ELSE IF a.pc = "scan" /\ a.todo = {} /\ Cardinality(a.ages) > MaxDrafts
    THEN {age \in a.ages : \A b \in a.ages : age[2].at <= b[2].at}
    ELSE {}

Prune(p) ==
    /\ \E age \in Prunable(p) :
        /\ RemoveDraft(p, age[1], age[2])
        /\ proc' = [proc EXCEPT ![p].pc = "scan", ![p].ages = @ \ {age}]
    /\ UNCHANGED <<clock, menu, calls, lock, faults, Ghosts>>

Pruned(p) ==
    /\ proc[p].pc = "scan" /\ proc[p].todo = {} /\ Cardinality(proc[p].ages) <= MaxDrafts
    /\ proc' = [proc EXCEPT ![p] = Idle]
    /\ UNCHANGED <<clock, menu, calls, lock, file, faults, Ghosts, damaged>>

-----------------------------------------------------------------------------
(* Time and crashes.                                                         *)

Tick ==
    /\ clock < MaxClock
    /\ clock' = clock + 1
    /\ UNCHANGED <<menu, calls, proc, lock, file, faults, Ghosts, damaged>>

\* 30 s pass for a lock file: its creator is gone, or slow.
Age(f) ==
    /\ lock[f] # NoLock /\ ~lock[f].old
    /\ lock[f].held => faults < Faults
    /\ faults' = IF lock[f].held THEN faults + 1 ELSE faults
    /\ lock' = [lock EXCEPT ![f].old = TRUE]
    /\ UNCHANGED <<clock, menu, calls, proc, file, Ghosts, damaged>>

Crash(p) ==
    /\ proc[p].pc # "idle" /\ faults < Faults
    /\ faults' = faults + 1
    /\ proc' = [proc EXCEPT ![p] = Idle]
    /\ lock' = [f \in Files |-> [lock[f] EXCEPT !.held = @ /\ lock[f].by # p]]
    /\ damaged' = IF proc[p].pc = "again" THEN damaged \cup {proc[p].op.file} ELSE damaged
    /\ UNCHANGED <<clock, menu, calls, file, Ghosts>>

Step(p) ==
    \/ Create(p) \/ Contend(p) \/ Break(p) \/ Unlock(p)
    \/ Update(p) \/ Replace(p) \/ Again(p)
    \/ List(p)
    \/ \E k \in DraftKeys : Scan(p, k)
    \/ Prune(p) \/ Pruned(p)

Next ==
    \/ Tick
    \/ \E f \in Files : Age(f)
    \/ \E p \in Procs :
        \/ \E op \in menu : Call(p, op)
        \/ Step(p)
        \/ Crash(p)

\* A running program takes its steps, the last look of a wait included.
Spec ==
    /\ Init /\ [][Next]_vars
    /\ \A p \in Procs : WF_vars(Step(p))

-----------------------------------------------------------------------------
Sound(f) == f \notin damaged /\ \A p \in Procs : proc[p].pc = "again" => proc[p].op.file # f

\* The list that the next read accepts: no pad twice and no more than the limit;
\* and, whatever programs update it together, the favorites are the pads that
\* were marked and neither unmarked nor removed since, opened again or not, for
\* as long as no lock was taken from a running holder.
FavoritesStay ==
    LET entries == file["recents"] IN
    /\ Cardinality(entries) <= MaxItems
    /\ \A a, b \in entries : a.pad = b.pad => a = b
    /\ Sound("recents") => {e.pad : e \in {b \in entries : b.favorite}} = favorites

\* inspectRouteHistory and shouldDeferDirectFromHistory
Defers(scope) ==
    \E pr \in file["history"] :
        /\ pr.scope \in {scope, Legacy}
        /\ pr.streak >= Threshold /\ pr.lastFailure > 0
        /\ clock - pr.lastFailure < Cooldown

\* A program defers direct connections on a network exactly when the last
\* Threshold outcomes recorded there, by any program, were failures and the last
\* is recent; the counts add up to the recorded outcomes.
DeferIsEarned ==
    Sound("history") =>
        /\ \A pr \in file["history"] :
            /\ pr.attempts = Len(seen[pr.scope])
            /\ pr.failures = Cardinality({i \in DOMAIN seen[pr.scope] : seen[pr.scope][i] > 0})
        /\ \A s \in Scopes :
            LET log == IF seen[Legacy] = <<>> THEN seen[s] ELSE seen[Legacy]
                n == Len(log)
            IN Defers(s) <=>
                /\ n >= Threshold /\ \A i \in (n - Threshold + 1)..n : log[i] > 0
                /\ clock - log[n] < Cooldown

\* A saved draft stays until a later save of its key replaces it, it expires, or
\* MaxDrafts other keys were saved no earlier, unless a prune removed it on the
\* look of an older record, or a fault did.
DraftsStay ==
    \A k \in DraftKeys :
        LET n == Len(saved[k])
            d == saved[k][n]
            newer == {j \in DraftKeys \ {k} : \E i \in DOMAIN saved[j] : saved[j][i].at >= d.at}
        IN n > 0 /\ Sound(k) =>
            \/ file[k] = {d}
            \/ Expired(d, clock)
            \/ Cardinality(newer) >= MaxDrafts

\* What the user asked to keep is kept: the favorites of the list of pads, and the
\* draft of each pad.
KeptStays == FavoritesStay /\ DraftsStay

\* Every call returns, whoever crashed with the lock in hand.
CallsReturn == \A p \in Procs : proc[p].pc # "idle" ~> proc[p].pc = "idle"

=============================================================================
