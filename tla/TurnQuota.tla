----------------------------- MODULE TurnQuota -----------------------------
(***************************************************************************)
(* The quotas of the built-in TURN server                                   *)
(* (internal/service/turn_control.go): allocations are counted in all, per  *)
(* credential and per source address, and what the server writes is charged *)
(* to token buckets of the same three kinds.                                *)
(*                                                                          *)
(* The TURN library is external: it handles the requests of its one socket  *)
(* one after the other, asks Allow, opens the relay socket and reports      *)
(* Created; an allocation whose lifetime ends is removed and closed by a    *)
(* timer, which reports Deleted afterwards.  Packets are written by many    *)
(* goroutines.                                                              *)
(*                                                                          *)
(* Bytes are counted in units of what a limit refills in one tick.          *)
(***************************************************************************)
EXTENDS Integers, FiniteSets

CONSTANTS
    Clients,         \* client addresses
    Host,            \* the host of each of them
    Users,           \* credentials
    RelayAddrs,      \* relay addresses
    MaxTotal, MaxPerUser, MaxPerIP,   \* quotas of allocations, -1 for none
    Limit,           \* limits of bytes in all, per user and per ip, -1 for none
    EgressWindow,    \* ticks in which a limit refills
    CleanupInterval, \* ticks between two cleanups of the buckets
    MaxPackets,      \* bound: packets being written at a time
    MaxAllocations,  \* bound: allocations made
    MaxClock         \* bound: ticks

Hosts == {Host[c] : c \in Clients}
Kinds == {"all", "user", "ip"}
Keys == ({"all"} \X {"all"}) \cup ({"user"} \X Users) \cup ({"ip"} \X Hosts)

ASSUME TurnQuotaConstants ==
    /\ {MaxTotal, MaxPerUser, MaxPerIP} \subseteq Nat \cup {-1}
    /\ Limit \in [Kinds -> Nat \cup {-1}]
    /\ EgressWindow \in Nat \ {0} /\ CleanupInterval \in 1..EgressWindow
    /\ \A k \in Kinds : Limit[k] > 0 => Limit[k] % EgressWindow = 0

VARIABLES
    live,      \* the library's allocations, by client
    request,   \* the allocation request being handled
    closing,   \* allocations removed whose Deleted has not been reported
    made,      \* allocations made so far
    total, byUser, byIP,
    allocationsByClient, allocationsByRelay,
    buckets,   \* globalBucket, userBuckets and ipBuckets
    lastBucketCleanup,
    packets,   \* packets whose identity was looked up
    clock,
    ideal,     \* ghost: tokens of buckets that are never forgotten
    overtaken  \* ghost: a Deleted came after its addresses were in use again

libraryVars == <<live, request, closing, made, overtaken>>
countVars == <<total, byUser, byIP, allocationsByClient, allocationsByRelay>>
trafficVars == <<buckets, lastBucketCleanup, packets, ideal>>
quotaVars == <<libraryVars, countVars, trafficVars, clock>>

None == [id |-> 0]
NoBucket == [tokens |-> 0, last |-> -1]

QuotaInit ==
    /\ live = [c \in Clients |-> None] /\ request = None /\ closing = {} /\ made = 0
    /\ overtaken = FALSE
    /\ total = 0 /\ byUser = [u \in Users |-> 0] /\ byIP = [h \in Hosts |-> 0]
    /\ allocationsByClient = [c \in Clients |-> None]
    /\ allocationsByRelay = [r \in RelayAddrs |-> None]
    /\ buckets = [k \in Keys |-> NoBucket] /\ lastBucketCleanup = -CleanupInterval
    /\ packets = {} /\ clock = 0
    /\ ideal = [k \in Keys |-> Limit[k[1]]]

-----------------------------------------------------------------------------
(* Allocations.                                                              *)

\* Mutant: a quota that is reached lets one more through.
BelowQuotaOrAt(current, maximum) == maximum < 0 \/ current <= maximum

BelowQuota(current, maximum) == maximum < 0 \/ current < maximum

Allow(client, user) ==
    /\ BelowQuota(total, MaxTotal)
    /\ BelowQuota(byUser[user], MaxPerUser)
    /\ BelowQuota(byIP[Host[client]], MaxPerIP)

\* The library: a request of a client without an allocation, within the quota.
Request(client, user) ==
    /\ request = None /\ live[client] = None /\ made < MaxAllocations
    /\ Allow(client, user)
    /\ made' = made + 1
    /\ request' = [id |-> made + 1, client |-> client, user |-> user]
    /\ UNCHANGED <<live, closing, overtaken, countVars, trafficVars, clock>>

InUse == {live[c].relay : c \in {c \in Clients : live[c] # None}}

\* The library: the relay socket is open and the allocation is in its table.
Allocate(relay) ==
    /\ request # None /\ live[request.client] = None /\ relay \notin InUse
    /\ live' = [live EXCEPT ![request.client] =
                    [id |-> request.id, client |-> request.client, user |-> request.user,
                     relay |-> relay]]
    /\ UNCHANGED <<request, closing, made, overtaken, countVars, trafficVars, clock>>

Created ==
    /\ request # None /\ live[request.client] # None
    /\ LET identity == live[request.client] IN
       /\ total' = total + 1
       /\ byUser' = [byUser EXCEPT ![identity.user] = @ + 1]
       /\ byIP' = [byIP EXCEPT ![Host[identity.client]] = @ + 1]
       /\ allocationsByClient' = [allocationsByClient EXCEPT ![identity.client] = identity]
       /\ allocationsByRelay' = [allocationsByRelay EXCEPT ![identity.relay] = identity]
    /\ request' = None
    /\ UNCHANGED <<live, closing, made, overtaken, trafficVars, clock>>

\* The library: the lifetime of an allocation ends, or a refresh ends it.
Remove(client) ==
    /\ live[client] # None /\ live[client].id # request.id
    /\ closing' = closing \cup {live[client]}
    /\ live' = [live EXCEPT ![client] = None]
    /\ UNCHANGED <<request, made, overtaken, countVars, trafficVars, clock>>

Minus(n) == IF n <= 1 THEN 0 ELSE n - 1

\* Deleted names the client and the user of the allocation, not the allocation.
Deleted(gone) ==
    /\ gone \in closing
    /\ LET identity == allocationsByClient[gone.client] IN
       IF identity # None
       THEN /\ allocationsByClient' = [allocationsByClient EXCEPT ![gone.client] = None]
            /\ allocationsByRelay' = [allocationsByRelay EXCEPT ![identity.relay] = None]
            /\ overtaken' = (overtaken \/ identity.id # gone.id
                             \/ allocationsByRelay[identity.relay].id # gone.id)
       ELSE overtaken' = TRUE /\ UNCHANGED <<allocationsByClient, allocationsByRelay>>
    /\ total' = Minus(total)
    /\ byUser' = [byUser EXCEPT ![gone.user] = Minus(@)]
    /\ byIP' = [byIP EXCEPT ![Host[gone.client]] = Minus(@)]
    /\ closing' = closing \ {gone}
    /\ UNCHANGED <<live, request, made, trafficVars, clock>>

-----------------------------------------------------------------------------
(* Traffic.                                                                  *)

\* identityForClient and identityForRelay: a packet to a client, or out of a
\* relay socket.  Packets of nobody's allocation are not charged.
Write(identity) ==
    /\ identity # None /\ Cardinality(packets) < MaxPackets
    /\ packets' = packets \cup {identity}
    /\ UNCHANGED <<libraryVars, countVars, buckets, lastBucketCleanup, ideal, clock>>

Least(a, b) == IF a < b THEN a ELSE b
Rate(k) == Limit[k[1]] \div EgressWindow

\* refillBucket, of a bucket that bucketFor may just have made.
Refilled(bucket, k) ==
    [tokens |-> IF bucket = NoBucket THEN Limit[k[1]]
                ELSE Least(Limit[k[1]], bucket.tokens + (clock - bucket.last) * Rate(k)),
     last |-> clock]

\* Mutant: the bucket of a user without allocations is forgotten at once.
IdleAtOnce(k) == buckets[k] # NoBucket

Idle(k) == buckets[k] # NoBucket /\ clock - buckets[k].last >= EgressWindow

\* cleanupBucketsLocked.
Forgotten(k) ==
    /\ clock - lastBucketCleanup >= CleanupInterval
    /\ \/ k[1] = "user" /\ byUser[k[2]] = 0
       \/ k[1] = "ip" /\ byIP[k[2]] = 0
    /\ Idle(k)

\* The limits are tried in this order; the buckets after one that is too empty
\* are made but not refilled.
Order(k) == CASE k[1] = "all" -> 1 [] k[1] = "user" -> 2 [] OTHER -> 3

Consume(identity, bytes) ==
    /\ identity \in packets
    /\ LET charged == {k \in {<<"all", "all">>, <<"user", identity.user>>,
                              <<"ip", Host[identity.client]>>} : Limit[k[1]] >= 0}
           cleaned == [k \in Keys |-> IF Forgotten(k) THEN NoBucket ELSE buckets[k]]
           refilled == [k \in charged |-> Refilled(cleaned[k], k)]
           empty == {k \in charged : refilled[k].tokens < bytes}
           tried == {k \in charged : \A e \in empty : Order(k) <= Order(e)}
       IN /\ buckets' = [k \in Keys |->
                IF k \notin charged \/ k \notin tried THEN cleaned[k]
                ELSE IF empty # {} THEN refilled[k]
                ELSE [refilled[k] EXCEPT !.tokens = @ - bytes]]
          /\ ideal' = [k \in Keys |-> IF empty = {} /\ k \in charged THEN ideal[k] - bytes
                                      ELSE ideal[k]]
    /\ lastBucketCleanup' =
           IF clock - lastBucketCleanup >= CleanupInterval THEN clock ELSE lastBucketCleanup
    /\ packets' = packets \ {identity}
    /\ UNCHANGED <<libraryVars, countVars, clock>>

Tick ==
    /\ clock < MaxClock
    /\ clock' = clock + 1
    /\ ideal' = [k \in Keys |-> Least(Limit[k[1]], ideal[k] + Rate(k))]
    /\ UNCHANGED <<libraryVars, countVars, buckets, lastBucketCleanup, packets>>

-----------------------------------------------------------------------------
QuotaNext ==
    \/ \E client \in Clients, user \in Users : Request(client, user)
    \/ \E relay \in RelayAddrs : Allocate(relay)
    \/ Created
    \/ \E client \in Clients : Remove(client) \/ Write(allocationsByClient[client])
    \/ \E gone \in closing : Deleted(gone)
    \/ \E relay \in RelayAddrs : Write(allocationsByRelay[relay])
    \/ \E identity \in packets, bytes \in 1..EgressWindow : Consume(identity, bytes)
    \/ Tick

QuotaSpec == QuotaInit /\ [][QuotaNext]_quotaVars

-----------------------------------------------------------------------------
(* Properties.                                                               *)

Within(count, maximum) == maximum < 0 \/ count <= maximum
Live == {live[c] : c \in Clients} \ {None}

\* The server never has more allocations than the quotas say, in all, of a
\* credential and of a source address, although an allocation is counted only
\* after its relay socket is open and uncounted only after it is closed.
QuotaHeld ==
    /\ Within(Cardinality(Live), MaxTotal)
    /\ \A user \in Users : Within(Cardinality({a \in Live : a.user = user}), MaxPerUser)
    /\ \A host \in Hosts :
           Within(Cardinality({a \in Live : Host[a.client] = host}), MaxPerIP)

\* What is left of a byte limit: a bucket that was forgotten counts as full.
Remains(k) == Refilled(buckets[k], k).tokens

\* What is written for an allocation is charged, to its credential and its source
\* address, as if no bucket were ever forgotten: nobody gets a full bucket back by
\* giving allocations up, and nobody is charged twice.  Except after a Deleted that
\* came late, when the client or the relay address was already in use again: it
\* takes the new allocation's identity away.
EgressIsMetered ==
    /\ \A k \in Keys : Limit[k[1]] >= 0 => Remains(k) = ideal[k]
    /\ ~overtaken => \A a \in Live \ {live[c] : c \in {c \in Clients : live[c].id = request.id}} :
           allocationsByClient[a.client] = a /\ allocationsByRelay[a.relay] = a

=============================================================================
