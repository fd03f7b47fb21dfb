---------------------------- MODULE ServiceProofs ----------------------------
(***************************************************************************)
(* Proofs about two parts of the persistent service that share no state:    *)
(* the quotas of the TURN server (TurnQuota), for any clients, credentials, *)
(* quotas and limits, and the rendezvous registries (Rendezvous), for any   *)
(* programs, roles, options, relays, WebSockets and faults.  That two       *)
(* programs end up on one route needs that no third shares their code.      *)
(***************************************************************************)
EXTENDS TurnQuota, Rendezvous, FiniteSetTheorems, TLAPS

(***************************************************************************)
(* TurnQuota: the inductive invariant.                                      *)
(***************************************************************************)

Allocation == [id : Nat \ {0}, client : Clients, user : Users, relay : RelayAddrs]
PendingRequest == [id : Nat \ {0}, client : Clients, user : Users]
BucketRecord == [tokens : Nat, last : Nat \cup {-1}]

\* The library's allocations and the controller's tables.
AllocationTypes ==
    /\ made \in Nat
    /\ live \in [Clients -> Allocation \cup {None}]
    /\ request \in PendingRequest \cup {None}
    /\ closing \in SUBSET Allocation
    /\ total \in Nat /\ byUser \in [Users -> Nat] /\ byIP \in [Hosts -> Nat]
    /\ allocationsByClient \in [Clients -> Allocation \cup {None}]
    /\ allocationsByRelay \in [RelayAddrs -> Allocation \cup {None}]

\* Every allocation has an id of its own; the one being made has the last id,
\* and is not counted yet.
IdInv ==
    /\ \A c \in Clients : live[c] # None => live[c].client = c
    /\ \A a \in Live \cup closing : a.id <= made
    /\ \A a, b \in Live \cup closing : a.id = b.id => a = b
    /\ Live \cap closing = {}
    /\ request # None =>
           /\ request.id = made
           /\ live[request.client] # None =>
                  live[request.client].id = made /\ live[request.client].user = request.user
           /\ \A a \in Live \cup closing : a.id = made => a = live[request.client]
           /\ \A a \in closing : a.id # made

\* What the counters count: what was reported Created and not yet Deleted.
Counted == {a \in Live \cup closing : a.id # request.id}
OfUser(user) == {a \in Allocation : a.user = user}
OfHost(host) == {a \in Allocation : Host[a.client] = host}

CountInv ==
    /\ IsFiniteSet(Counted) /\ total = Cardinality(Counted)
    /\ \A user \in Users : byUser[user] = Cardinality(Counted \cap OfUser(user))
    /\ \A host \in Hosts : byIP[host] = Cardinality(Counted \cap OfHost(host))

\* The counters are within the quotas, and the request being handled still
\* fits: nothing that may happen before it is reported counts anything.
LimitInv ==
    /\ Within(total, MaxTotal)
    /\ \A user \in Users : Within(byUser[user], MaxPerUser)
    /\ \A host \in Hosts : Within(byIP[host], MaxPerIP)
    /\ request # None => Allow(request.client, request.user)

QuotaInv == AllocationTypes /\ IdInv /\ CountInv /\ LimitInv

\* Two allocations never share a relay address while both are live, and the
\* tables name the live ones until a Deleted comes late.
TableInv ==
    /\ \A c, d \in Clients : live[c] # None /\ live[d] # None /\ live[c].relay = live[d].relay
                                 => c = d
    /\ ~overtaken => \A a \in Live : a.id # request.id =>
           allocationsByClient[a.client] = a /\ allocationsByRelay[a.relay] = a

BucketTypes ==
    /\ clock \in Nat
    /\ buckets \in [Keys -> BucketRecord]
    /\ ideal \in [Keys -> Int]
    /\ \A k \in Keys : buckets[k] # NoBucket => buckets[k].last \in 0..clock

\* What is left of a limit is what would be left had no bucket been forgotten.
MeterInv == \A k \in Keys : Limit[k[1]] >= 0 => Remains(k) = ideal[k]

BucketInv == BucketTypes /\ MeterInv

(***************************************************************************)
(* Allocations and the counters.                                            *)
(***************************************************************************)

LEMMA Records ==
    /\ None.id = 0 /\ None \notin Allocation /\ None \notin PendingRequest
    /\ \A a \in Allocation : /\ a.id \in Nat \ {0} /\ a.client \in Clients
                             /\ a.user \in Users /\ a.relay \in RelayAddrs
                             /\ Host[a.client] \in Hosts
    /\ \A q \in PendingRequest : q.id \in Nat \ {0} /\ q.client \in Clients /\ q.user \in Users
BY DEF None, Allocation, PendingRequest, Hosts

LEMMA Types ==
    ASSUME AllocationTypes
    PROVE  /\ \A c \in Clients : live[c] = None \/ live[c] \in Allocation
           /\ request = None \/ request \in PendingRequest
           /\ Live \subseteq Allocation /\ closing \subseteq Allocation
           /\ \A a : a \in Live <=> a # None /\ \E c \in Clients : live[c] = a
           /\ Counted \subseteq Allocation /\ made \in Nat /\ request.id \in Nat
<1>1. \A c \in Clients : live[c] = None \/ live[c] \in Allocation
  BY DEF AllocationTypes
<1>2. request = None \/ request \in PendingRequest
  BY DEF AllocationTypes
<1>3. Live \subseteq Allocation /\ closing \subseteq Allocation
  BY <1>1 DEF AllocationTypes, Live
<1>4. \A a : a \in Live <=> a # None /\ \E c \in Clients : live[c] = a
  BY DEF Live
<1>5. made \in Nat /\ request.id \in Nat
  BY <1>2, Records DEF AllocationTypes
<1> QED BY <1>1, <1>2, <1>3, <1>4, <1>5 DEF Counted

\* What one more and one less allocation do to a count.
LEMMA CountMore ==
    ASSUME NEW C, IsFiniteSet(C), NEW x, x \notin C, NEW S
    PROVE  /\ IsFiniteSet(C \cup {x})
           /\ Cardinality(C \cup {x}) = Cardinality(C) + 1
           /\ Cardinality((C \cup {x}) \cap S) = Cardinality(C \cap S) + (IF x \in S THEN 1 ELSE 0)
<1>1. IsFiniteSet(C \cup {x}) /\ Cardinality(C \cup {x}) = Cardinality(C) + 1
  BY FS_AddElement
<1>2. C \cap S \in SUBSET C /\ IsFiniteSet(C \cap S)
  BY FS_Subset
<1>3. CASE x \in S
  <2>1. (C \cup {x}) \cap S = (C \cap S) \cup {x} /\ x \notin C \cap S
    BY <1>3
  <2>2. Cardinality((C \cap S) \cup {x}) = Cardinality(C \cap S) + 1
    BY <2>1, <1>2, FS_AddElement
  <2> QED BY <1>1, <1>3, <2>1, <2>2
<1>4. CASE x \notin S
  <2>1. (C \cup {x}) \cap S = C \cap S
    BY <1>4
  <2>2. Cardinality(C \cap S) \in Nat
    BY <1>2, FS_CardinalityType
  <2> QED BY <1>1, <1>4, <2>1, <2>2
<1> QED BY <1>3, <1>4

LEMMA CountLess ==
    ASSUME NEW C, IsFiniteSet(C), NEW x \in C, NEW S
    PROVE  /\ IsFiniteSet(C \ {x})
           /\ Cardinality(C) \in Nat \ {0} /\ Cardinality(C \ {x}) = Cardinality(C) - 1
           /\ Cardinality(C \cap S) \in Nat
           /\ x \in S => Cardinality(C \cap S) \in Nat \ {0}
           /\ Cardinality((C \ {x}) \cap S) = Cardinality(C \cap S) - (IF x \in S THEN 1 ELSE 0)
<1> DEFINE D == C \ {x}
<1>1. IsFiniteSet(D) /\ x \notin D /\ C = D \cup {x}
  BY FS_RemoveElement
<1>2. /\ Cardinality(C) = Cardinality(D) + 1
      /\ Cardinality(C \cap S) = Cardinality(D \cap S) + (IF x \in S THEN 1 ELSE 0)
  BY <1>1, CountMore
<1>3. Cardinality(D) \in Nat /\ Cardinality(D \cap S) \in Nat
  BY <1>1, FS_CardinalityType, FS_Subset
<1> HIDE DEF D
<1> QED BY <1>1, <1>2, <1>3 DEF D

\* Changing one client's allocation changes Live by it alone.
LEMMA LiveUpdate ==
    ASSUME AllocationTypes, IdInv, NEW c \in Clients, NEW v,
           live' = [live EXCEPT ![c] = v]
    PROVE  /\ live'[c] = v /\ \A d \in Clients : d # c => live'[d] = live[d]
           /\ Live' = (Live \ {live[c]}) \cup ({v} \ {None})
<1>1. live'[c] = v /\ \A d \in Clients : d # c => live'[d] = live[d]
  BY DEF AllocationTypes
<1>2. \A a : a \in Live' <=> a # None /\ \E d \in Clients : live'[d] = a
  BY DEF Live
<1>3. ASSUME NEW a, a \in Live'
      PROVE  a \in (Live \ {live[c]}) \cup ({v} \ {None})
  <2>1. PICK d \in Clients : live'[d] = a /\ a # None
    BY <1>2, <1>3
  <2>2. CASE d = c
    BY <2>1, <2>2, <1>1
  <2>3. CASE d # c
    <3>1. live[d] = a /\ a.client = d
      BY <2>1, <2>3, <1>1 DEF IdInv
    <3>2. a # live[c]
      BY <3>1, <2>1, <2>3 DEF IdInv
    <3> QED BY <3>1, <3>2, <2>1, Types
  <2> QED BY <2>2, <2>3
<1>4. ASSUME NEW a, a \in (Live \ {live[c]}) \cup ({v} \ {None})
      PROVE  a \in Live'
  <2>1. CASE a = v /\ a # None
    BY <2>1, <1>1, <1>2
  <2>2. CASE a \in Live /\ a # live[c]
    BY <2>2, <1>1, <1>2, Types
  <2> QED BY <1>4, <2>1, <2>2
<1> QED BY <1>1, <1>3, <1>4

LEMMA RequestStep ==
    ASSUME QuotaInv, TableInv, NEW client \in Clients, NEW user \in Users, Request(client, user)
    PROVE  QuotaInv' /\ TableInv'
<1>0. AllocationTypes /\ IdInv /\ CountInv /\ LimitInv
  BY DEF QuotaInv
<1> DEFINE q == [id |-> made + 1, client |-> client, user |-> user]
<1>1. /\ request = None /\ live[client] = None /\ Allow(client, user)
      /\ made' = made + 1 /\ request' = q
      /\ UNCHANGED <<live, closing, overtaken, total, byUser, byIP, allocationsByClient,
                     allocationsByRelay>>
  BY DEF Request, countVars
<1>2. q \in PendingRequest /\ q.id = made + 1 /\ q.client = client /\ q.user = user
  BY <1>0, Types DEF PendingRequest
<1> HIDE DEF q
<1>3. Live' = Live /\ closing' = closing
  BY <1>1 DEF Live
<1>4. \A a \in Live \cup closing : a.id \in Nat \ {0} /\ a.id <= made
  BY <1>0, Types, Records DEF IdInv
<1>5. AllocationTypes'
  BY <1>0, <1>1, <1>2 DEF AllocationTypes
<1>6. IdInv'
  <2>1. \A a \in Live \cup closing : a.id <= made + 1 /\ a.id # made + 1
    BY <1>0, <1>4, Types
  <2> QED BY <2>1, <1>0, <1>1, <1>2, <1>3 DEF IdInv
<1>7. Counted' = Counted
  <2>1. \A a \in Live \cup closing : a.id # request.id /\ a.id # request'.id
    BY <1>0, <1>1, <1>2, <1>4, Types, Records
  <2> QED BY <2>1, <1>3 DEF Counted
<1>8. CountInv'
  BY <1>0, <1>1, <1>7 DEF CountInv
<1>9. LimitInv'
  BY <1>0, <1>1, <1>2 DEF LimitInv, Allow
<1>10. TableInv'
  <2>1. \A a \in Live : a.id # request.id
    BY <1>0, <1>1, <1>4, Records
  <2> QED BY <2>1, <1>1, <1>3 DEF TableInv
<1> QED BY <1>5, <1>6, <1>8, <1>9, <1>10 DEF QuotaInv

LEMMA AllocateStep ==
    ASSUME QuotaInv, TableInv, NEW relay \in RelayAddrs, Allocate(relay)
    PROVE  QuotaInv' /\ TableInv'
<1>0. AllocationTypes /\ IdInv /\ CountInv /\ LimitInv
  BY DEF QuotaInv
<1> DEFINE c == request.client
           x == [id |-> request.id, client |-> c, user |-> request.user, relay |-> relay]
<1>1. /\ request # None /\ live[c] = None /\ relay \notin InUse
      /\ live' = [live EXCEPT ![c] = x]
      /\ UNCHANGED <<request, closing, made, overtaken, total, byUser, byIP,
                     allocationsByClient, allocationsByRelay>>
  BY DEF Allocate, countVars
<1>2. /\ request \in PendingRequest /\ c \in Clients /\ request.id \in Nat \ {0}
      /\ request.user \in Users /\ request.id = made /\ made \in Nat
  BY <1>0, <1>1, Types, Records DEF IdInv
<1>3. /\ x \in Allocation /\ x.id = made /\ x.client = c /\ x.user = request.user
      /\ x.relay = relay /\ x # None
  BY <1>2, Records DEF Allocation
<1> HIDE DEF x
<1>4. live'[c] = x /\ \A d \in Clients : d # c => live'[d] = live[d]
  BY <1>0, <1>1, <1>2, LiveUpdate
<1>5. Live' = Live \cup {x} /\ None \notin Live
  <2>1. Live' = (Live \ {live[c]}) \cup ({x} \ {None})
    BY <1>0, <1>1, <1>2, LiveUpdate
  <2>2. None \notin Live
    BY <1>0, Types
  <2> QED BY <2>1, <2>2, <1>1, <1>3
<1>6. \A a \in Live \cup closing : a.id # made
  BY <1>0, <1>1, Types DEF IdInv
<1>7. AllocationTypes'
  BY <1>0, <1>1, <1>2, <1>3 DEF AllocationTypes
<1>8. IdInv'
  <2>1. \A d \in Clients : live'[d] # None => live'[d].client = d
    BY <1>0, <1>3, <1>4 DEF IdInv
  <2>2. \A a \in Live' \cup closing' : a.id <= made'
    BY <1>0, <1>1, <1>2, <1>3, <1>5 DEF IdInv
  <2>3. \A a, b \in Live' \cup closing' : a.id = b.id => a = b
    BY <1>0, <1>1, <1>3, <1>5, <1>6 DEF IdInv
  <2>4. Live' \cap closing' = {}
    BY <1>0, <1>1, <1>3, <1>5, <1>6 DEF IdInv
  <2>5. \A a \in Live' \cup closing' : a.id = made => a = x
    BY <1>1, <1>5, <1>6
  <2>6. \A a \in closing' : a.id # made
    BY <1>1, <1>6
  <2> QED BY <2>1, <2>2, <2>3, <2>4, <2>5, <2>6, <1>1, <1>2, <1>3, <1>4 DEF IdInv
<1>9. Counted' = Counted
  BY <1>1, <1>2, <1>3, <1>5 DEF Counted
<1>10. CountInv' /\ LimitInv'
  BY <1>0, <1>1, <1>9 DEF CountInv, LimitInv, Allow
<1>11. TableInv'
  <2>1. \A d \in Clients : live[d] # None => live[d].relay # relay
    BY <1>1 DEF InUse
  <2>2. \A d, e \in Clients : live'[d] # None /\ live'[e] # None
                                  /\ live'[d].relay = live'[e].relay => d = e
    BY <2>1, <1>3, <1>4 DEF TableInv
  <2>3. \A a \in Live' : a.id # request'.id => a \in Live /\ a.id # request.id
    BY <1>1, <1>2, <1>3, <1>5
  <2> QED BY <2>2, <2>3, <1>1 DEF TableInv
<1> QED BY <1>7, <1>8, <1>10, <1>11 DEF QuotaInv

LEMMA CreatedStep ==
    ASSUME QuotaInv, TableInv, Created
    PROVE  QuotaInv' /\ TableInv'
<1>0. AllocationTypes /\ IdInv /\ CountInv /\ LimitInv
  BY DEF QuotaInv
<1> DEFINE x == live[request.client]
<1>1. /\ request # None /\ x # None /\ request' = None
      /\ UNCHANGED <<live, closing, made, overtaken>>
      /\ total' = total + 1
      /\ byUser' = [byUser EXCEPT ![x.user] = byUser[x.user] + 1]
      /\ byIP' = [byIP EXCEPT ![Host[x.client]] = byIP[Host[x.client]] + 1]
      /\ allocationsByClient' = [allocationsByClient EXCEPT ![x.client] = x]
      /\ allocationsByRelay' = [allocationsByRelay EXCEPT ![x.relay] = x]
  BY DEF Created
<1>2. /\ request \in PendingRequest /\ request.client \in Clients /\ request.id = made
      /\ x \in Allocation /\ x \in Live /\ x.id = made /\ x.client = request.client
      /\ x.user = request.user /\ x.user \in Users /\ x.relay \in RelayAddrs
      /\ Host[x.client] \in Hosts
  <2>1. request \in PendingRequest /\ request.client \in Clients
    BY <1>0, <1>1, Types, Records
  <2>2. x \in Allocation /\ x \in Live
    BY <2>1, <1>0, <1>1, Types
  <2> QED BY <2>1, <2>2, <1>0, <1>1, Records DEF IdInv
<1>3. Live' = Live
  BY <1>1 DEF Live
<1>4. Allow(x.client, x.user)
  BY <1>0, <1>1, <1>2 DEF LimitInv
<1>5. \A a \in Live \cup closing : a.id = made => a = x
  BY <1>0, <1>1 DEF IdInv
<1>6. Counted' = Counted \cup {x} /\ x \notin Counted
  <2>1. \A a \in Live \cup closing : a.id # request'.id
    BY <1>0, <1>1, Types, Records
  <2>2. Counted' = Live \cup closing
    BY <2>1, <1>1, <1>3 DEF Counted
  <2>3. \A a \in Live \cup closing : a \in Counted \/ a = x
    BY <1>2, <1>5 DEF Counted
  <2>4. x \notin Counted /\ Counted \subseteq Live \cup closing
    BY <1>2 DEF Counted
  <2> QED BY <2>2, <2>3, <2>4, <1>2
<1> HIDE DEF x
<1>7. AllocationTypes'
  BY <1>0, <1>1, <1>2 DEF AllocationTypes
<1>8. IdInv'
  BY <1>0, <1>1, <1>3 DEF IdInv
<1>9. CountInv'
  <2>1. IsFiniteSet(Counted') /\ total' = Cardinality(Counted')
    BY <1>0, <1>1, <1>6, CountMore DEF CountInv
  <2>2. ASSUME NEW u \in Users
        PROVE  byUser'[u] = Cardinality(Counted' \cap OfUser(u))
    <3>1. x \in OfUser(u) <=> x.user = u
      BY <1>2 DEF OfUser
    <3>2. Cardinality(Counted' \cap OfUser(u)) = Cardinality(Counted \cap OfUser(u)) +
                                                 (IF x \in OfUser(u) THEN 1 ELSE 0)
      BY <1>0, <1>6, CountMore DEF CountInv
    <3>3. byUser'[u] = byUser[u] + (IF x.user = u THEN 1 ELSE 0) /\ byUser[u] \in Nat
      BY <1>0, <1>1, <1>2 DEF AllocationTypes
    <3> QED BY <3>1, <3>2, <3>3, <1>0 DEF CountInv
  <2>3. ASSUME NEW h \in Hosts
        PROVE  byIP'[h] = Cardinality(Counted' \cap OfHost(h))
    <3>1. x \in OfHost(h) <=> Host[x.client] = h
      BY <1>2 DEF OfHost
    <3>2. Cardinality(Counted' \cap OfHost(h)) = Cardinality(Counted \cap OfHost(h)) +
                                                 (IF x \in OfHost(h) THEN 1 ELSE 0)
      BY <1>0, <1>6, CountMore DEF CountInv
    <3>3. byIP'[h] = byIP[h] + (IF Host[x.client] = h THEN 1 ELSE 0) /\ byIP[h] \in Nat
      BY <1>0, <1>1, <1>2 DEF AllocationTypes
    <3> QED BY <3>1, <3>2, <3>3, <1>0 DEF CountInv
  <2> QED BY <2>1, <2>2, <2>3 DEF CountInv, OfUser, OfHost
<1>10. LimitInv'
  <2>1. MaxTotal \in Int /\ MaxPerUser \in Int /\ MaxPerIP \in Int
    BY TurnQuotaConstants
  <2>2. Within(total', MaxTotal)
    BY <2>1, <1>0, <1>1, <1>4 DEF Allow, BelowQuota, Within, AllocationTypes
  <2>3. ASSUME NEW u \in Users
        PROVE  Within(byUser'[u], MaxPerUser)
    <3>1. byUser'[u] = (IF x.user = u THEN byUser[u] + 1 ELSE byUser[u]) /\ byUser[u] \in Nat
      BY <1>0, <1>1, <1>2 DEF AllocationTypes
    <3> QED BY <3>1, <2>1, <1>0, <1>4 DEF LimitInv, Allow, BelowQuota, Within
  <2>4. ASSUME NEW h \in Hosts
        PROVE  Within(byIP'[h], MaxPerIP)
    <3>1. byIP'[h] = (IF Host[x.client] = h THEN byIP[h] + 1 ELSE byIP[h]) /\ byIP[h] \in Nat
      BY <1>0, <1>1, <1>2 DEF AllocationTypes
    <3> QED BY <3>1, <2>1, <1>0, <1>4 DEF LimitInv, Allow, BelowQuota, Within
  <2> QED BY <2>2, <2>3, <2>4, <1>1 DEF LimitInv
<1>11. TableInv'
  <2>1. /\ allocationsByClient'[x.client] = x /\ allocationsByRelay'[x.relay] = x
        /\ \A c \in Clients : c # x.client => allocationsByClient'[c] = allocationsByClient[c]
        /\ \A r \in RelayAddrs : r # x.relay => allocationsByRelay'[r] = allocationsByRelay[r]
    BY <1>0, <1>1, <1>2 DEF AllocationTypes
  <2>2. ASSUME NEW a \in Live, a # x, ~overtaken
        PROVE  allocationsByClient'[a.client] = a /\ allocationsByRelay'[a.relay] = a
    <3>1. a.id # request.id /\ a \in Allocation /\ a.client \in Clients /\ a.relay \in RelayAddrs
      BY <2>2, <1>0, <1>2, <1>5, Types, Records
    <3>2. PICK c \in Clients : live[c] = a /\ a # None /\ a.client = c
      BY <2>2, <1>0, Types DEF IdInv
    <3>3. live[request.client] = x /\ request.client \in Clients
      BY <1>2 DEF x
    <3>4. c # request.client
      BY <3>2, <3>3, <2>2
    <3>5. a.relay # x.relay
      BY <3>2, <3>3, <3>4, <1>1 DEF TableInv
    <3>6. a.client # x.client
      BY <3>2, <3>4, <1>2
    <3> QED BY <3>1, <3>5, <3>6, <2>1, <2>2 DEF TableInv
  <2>3. ~overtaken => \A a \in Live : allocationsByClient'[a.client] = a
                                       /\ allocationsByRelay'[a.relay] = a
    BY <2>1, <2>2
  <2> QED BY <2>3, <1>1, <1>3 DEF TableInv
<1> QED BY <1>7, <1>8, <1>9, <1>10, <1>11 DEF QuotaInv

LEMMA RemoveStep ==
    ASSUME QuotaInv, TableInv, NEW c \in Clients, Remove(c)
    PROVE  QuotaInv' /\ TableInv'
<1>0. AllocationTypes /\ IdInv /\ CountInv /\ LimitInv
  BY DEF QuotaInv
<1> DEFINE x == live[c]
<1>1. /\ x # None /\ x.id # request.id /\ closing' = closing \cup {x}
      /\ live' = [live EXCEPT ![c] = None]
      /\ UNCHANGED <<request, made, overtaken, total, byUser, byIP, allocationsByClient,
                     allocationsByRelay>>
  BY DEF Remove, countVars
<1>2. x \in Allocation /\ x \in Live /\ x.client = c
  BY <1>0, <1>1, Types DEF IdInv
<1>3. live'[c] = None /\ \A d \in Clients : d # c => live'[d] = live[d]
  BY <1>0, <1>1, LiveUpdate
<1>4. Live' = Live \ {x}
  BY <1>0, <1>1, LiveUpdate
<1>5. Live' \cup closing' = Live \cup closing
  BY <1>1, <1>2, <1>4
<1> HIDE DEF x
<1>6. AllocationTypes'
  BY <1>0, <1>1, <1>2 DEF AllocationTypes
<1>7. IdInv'
  <2>1. \A d \in Clients : live'[d] # None => live'[d].client = d
    BY <1>0, <1>3 DEF IdInv
  <2>2. Live' \cap closing' = {}
    BY <1>0, <1>1, <1>4 DEF IdInv
  <2>3. /\ \A a \in Live' \cup closing' : a.id <= made'
        /\ \A a, b \in Live' \cup closing' : a.id = b.id => a = b
    BY <1>0, <1>1, <1>5 DEF IdInv
  <2>4. ASSUME request # None
        PROVE  /\ request.id = made /\ request.client \in Clients
               /\ live'[request.client] # None =>
                      live'[request.client].id = made /\ live'[request.client].user = request.user
               /\ \A a \in Live' \cup closing' : a.id = made => a = live'[request.client]
               /\ \A a \in closing' : a.id # made
    <3>1. request.id = made /\ request.client \in Clients
      BY <2>4, <1>0, Types, Records DEF IdInv
    <3>2. c # request.client
      BY <3>1, <2>4, <1>0, <1>1 DEF IdInv, x
    <3>3. live'[request.client] = live[request.client]
      BY <3>1, <3>2, <1>3
    <3> QED BY <3>1, <3>3, <2>4, <1>0, <1>1, <1>5 DEF IdInv
  <2> QED BY <2>1, <2>2, <2>3, <2>4, <1>1 DEF IdInv
<1>8. Counted' = Counted
  BY <1>1, <1>5 DEF Counted
<1>9. CountInv' /\ LimitInv'
  BY <1>0, <1>1, <1>8 DEF CountInv, LimitInv, Allow
<1>10. TableInv'
  <2>1. \A d, e \in Clients : live'[d] # None /\ live'[e] # None
                                  /\ live'[d].relay = live'[e].relay => d = e
    BY <1>3 DEF TableInv
  <2> QED BY <2>1, <1>1, <1>4 DEF TableInv
<1> QED BY <1>6, <1>7, <1>9, <1>10 DEF QuotaInv

LEMMA MinusOne == \A n \in Nat \ {0} : Minus(n) = n - 1
BY DEF Minus

LEMMA DeletedStep ==
    ASSUME QuotaInv, TableInv, NEW gone \in closing, Deleted(gone)
    PROVE  QuotaInv' /\ TableInv'
<1>0. AllocationTypes /\ IdInv /\ CountInv /\ LimitInv
  BY DEF QuotaInv
<1>1. /\ total' = Minus(total)
      /\ byUser' = [byUser EXCEPT ![gone.user] = Minus(byUser[gone.user])]
      /\ byIP' = [byIP EXCEPT ![Host[gone.client]] = Minus(byIP[Host[gone.client]])]
      /\ closing' = closing \ {gone} /\ UNCHANGED <<live, request, made>>
  BY DEF Deleted
<1>2. /\ gone \in Allocation /\ gone.client \in Clients /\ gone.user \in Users
      /\ Host[gone.client] \in Hosts /\ gone.id \in Nat \ {0}
  BY <1>0, Types, Records
<1>3. Live' = Live
  BY <1>1 DEF Live
<1>4. gone \in Counted /\ Counted' = Counted \ {gone}
  <2>1. gone.id # request.id
    BY <1>0, <1>2, Types, Records DEF IdInv
  <2>2. gone \notin Live
    BY <1>0 DEF IdInv
  <2>3. gone \in Counted
    BY <2>1 DEF Counted
  <2>4. Live' \cup closing' = (Live \cup closing) \ {gone}
    BY <2>2, <1>1, <1>3
  <2> QED BY <2>3, <2>4, <1>1 DEF Counted
<1>5. Live' \cup closing' \subseteq Live \cup closing
  BY <1>1, <1>3
<1> DEFINE identity == allocationsByClient[gone.client]
<1>6. identity = None \/ (identity \in Allocation /\ identity.relay \in RelayAddrs)
  BY <1>0, <1>2, Records DEF AllocationTypes
<1>7. /\ allocationsByClient' \in [Clients -> Allocation \cup {None}]
      /\ allocationsByRelay' \in [RelayAddrs -> Allocation \cup {None}]
  <2>1. CASE identity = None
    BY <2>1, <1>0 DEF Deleted, AllocationTypes
  <2>2. CASE identity # None
    BY <2>2, <1>0, <1>2, <1>6 DEF Deleted, AllocationTypes
  <2> QED BY <2>1, <2>2
<1>8. total \in Nat \ {0} /\ byUser[gone.user] \in Nat \ {0} /\ byIP[Host[gone.client]] \in Nat \ {0}
  <2>1. gone \in OfUser(gone.user) /\ gone \in OfHost(Host[gone.client])
    BY <1>2 DEF OfUser, OfHost
  <2>2. IsFiniteSet(Counted)
    BY <1>0 DEF CountInv
  <2>3. Cardinality(Counted) \in Nat \ {0} /\ Cardinality(Counted \cap OfUser(gone.user)) \in Nat \ {0}
    BY <2>1, <2>2, <1>4, CountLess
  <2>4. Cardinality(Counted \cap OfHost(Host[gone.client])) \in Nat \ {0}
    <3> DEFINE S == OfHost(Host[gone.client])
    <3>1. gone \in S
      BY <2>1
    <3> HIDE DEF S
    <3>2. Cardinality(Counted \cap S) \in Nat \ {0}
      BY <3>1, <2>2, <1>4, CountLess
    <3> QED BY <3>2 DEF S
  <2> QED BY <2>3, <2>4, <1>0, <1>2 DEF CountInv
<1>9. /\ total' = total - 1
      /\ \A u \in Users : byUser'[u] = byUser[u] - (IF gone.user = u THEN 1 ELSE 0)
      /\ \A h \in Hosts : byIP'[h] = byIP[h] - (IF Host[gone.client] = h THEN 1 ELSE 0)
  <2>1. total' = total - 1
    BY <1>1, <1>8, MinusOne
  <2>2. ASSUME NEW u \in Users
        PROVE  byUser'[u] = byUser[u] - (IF gone.user = u THEN 1 ELSE 0)
    BY <1>0, <1>1, <1>2, <1>8, MinusOne DEF AllocationTypes
  <2>3. ASSUME NEW h \in Hosts
        PROVE  byIP'[h] = byIP[h] - (IF Host[gone.client] = h THEN 1 ELSE 0)
    BY <1>0, <1>1, <1>2, <1>8, MinusOne DEF AllocationTypes
  <2> QED BY <2>1, <2>2, <2>3
<1>10. AllocationTypes'
  <2>1. total' \in Nat
    BY <1>8, <1>9
  <2>2. byUser' \in [Users -> Nat]
    <3>1. Minus(byUser[gone.user]) \in Nat
      BY <1>8, MinusOne
    <3> QED BY <3>1, <1>0, <1>1, <1>2 DEF AllocationTypes
  <2>3. byIP' \in [Hosts -> Nat]
    <3>1. Minus(byIP[Host[gone.client]]) \in Nat
      BY <1>8, MinusOne
    <3> QED BY <3>1, <1>0, <1>1, <1>2 DEF AllocationTypes
  <2> QED BY <2>1, <2>2, <2>3, <1>0, <1>1, <1>7 DEF AllocationTypes
<1>11. IdInv'
  BY <1>0, <1>1, <1>3, <1>5 DEF IdInv
<1>12. CountInv'
  <2>0. IsFiniteSet(Counted)
    BY <1>0 DEF CountInv
  <2>1. IsFiniteSet(Counted') /\ total' = Cardinality(Counted')
    BY <2>0, <1>0, <1>4, <1>9, CountLess DEF CountInv
  <2>2. ASSUME NEW u \in Users
        PROVE  byUser'[u] = Cardinality(Counted' \cap OfUser(u))
    <3>1. gone \in OfUser(u) <=> gone.user = u
      BY <1>2 DEF OfUser
    <3>2. Cardinality(Counted' \cap OfUser(u)) = Cardinality(Counted \cap OfUser(u)) -
                                                 (IF gone \in OfUser(u) THEN 1 ELSE 0)
      BY <2>0, <1>4, CountLess
    <3> QED BY <3>1, <3>2, <1>0, <1>9 DEF CountInv
  <2>3. ASSUME NEW h \in Hosts
        PROVE  byIP'[h] = Cardinality(Counted' \cap OfHost(h))
    <3>1. gone \in OfHost(h) <=> Host[gone.client] = h
      BY <1>2 DEF OfHost
    <3>2. Cardinality(Counted' \cap OfHost(h)) = Cardinality(Counted \cap OfHost(h)) -
                                                 (IF gone \in OfHost(h) THEN 1 ELSE 0)
      BY <2>0, <1>4, CountLess
    <3> QED BY <3>1, <3>2, <1>0, <1>9 DEF CountInv
  <2> QED BY <2>1, <2>2, <2>3 DEF CountInv, OfUser, OfHost
<1>13. LimitInv'
  <2>1. /\ MaxTotal \in Int /\ MaxPerUser \in Int /\ MaxPerIP \in Int
        /\ total \in Nat /\ \A u \in Users : byUser[u] \in Nat /\ \A h \in Hosts : byIP[h] \in Nat
    BY TurnQuotaConstants, <1>0 DEF AllocationTypes
  <2>2. /\ total' <= total /\ total' \in Nat
        /\ \A u \in Users : byUser'[u] <= byUser[u] /\ byUser'[u] \in Nat
        /\ \A h \in Hosts : byIP'[h] <= byIP[h] /\ byIP'[h] \in Nat
    <3>1. total' <= total
      BY <2>1, <1>9
    <3>2. \A u \in Users : byUser'[u] <= byUser[u]
      BY <1>0, <1>9 DEF AllocationTypes
    <3>3. \A h \in Hosts : byIP'[h] <= byIP[h]
      BY <1>0, <1>9 DEF AllocationTypes
    <3> QED BY <3>1, <3>2, <3>3, <1>10 DEF AllocationTypes
  <2>3. Within(total', MaxTotal)
    BY <2>1, <2>2, <1>0 DEF LimitInv, Within
  <2>4. \A u \in Users : Within(byUser'[u], MaxPerUser)
    BY <2>1, <2>2, <1>0 DEF LimitInv, Within, AllocationTypes
  <2>5. \A h \in Hosts : Within(byIP'[h], MaxPerIP)
    BY <2>1, <2>2, <1>0 DEF LimitInv, Within, AllocationTypes
  <2>6. request # None => Allow(request.client, request.user)'
    <3> SUFFICES ASSUME request # None
                 PROVE  Allow(request.client, request.user)'
      OBVIOUS
    <3>1. request.client \in Clients /\ request.user \in Users /\ Host[request.client] \in Hosts
      BY <1>0, Types, Records DEF Hosts
    <3>2. byUser[request.user] \in Nat /\ byIP[Host[request.client]] \in Nat
      BY <3>1, <1>0 DEF AllocationTypes
    <3>3. Allow(request.client, request.user)
      BY <1>0 DEF LimitInv
    <3>4. BelowQuota(total', MaxTotal)
      BY <3>3, <2>1, <2>2 DEF Allow, BelowQuota
    <3>5. BelowQuota(byUser'[request.user], MaxPerUser)
      BY <3>1, <3>2, <3>3, <2>1, <2>2 DEF Allow, BelowQuota
    <3>6. BelowQuota(byIP'[Host[request.client]], MaxPerIP)
      BY <3>1, <3>2, <3>3, <2>1, <2>2 DEF Allow, BelowQuota
    <3> QED BY <3>4, <3>5, <3>6, <1>1 DEF Allow
  <2> QED BY <2>3, <2>4, <2>5, <2>6, <1>1 DEF LimitInv
<1>14. TableInv'
  <2>1. ASSUME ~overtaken', NEW a \in Live, a.id # request.id
        PROVE  allocationsByClient'[a.client] = a /\ allocationsByRelay'[a.relay] = a
    <3>1. identity # None
      BY <2>1 DEF Deleted
    <3>2. /\ ~overtaken /\ identity.id = gone.id /\ allocationsByRelay[identity.relay].id = gone.id
          /\ allocationsByClient' = [allocationsByClient EXCEPT ![gone.client] = None]
          /\ allocationsByRelay' = [allocationsByRelay EXCEPT ![identity.relay] = None]
      BY <2>1, <3>1 DEF Deleted
    <3>3. a \in Allocation /\ a.client \in Clients /\ a.relay \in RelayAddrs
      BY <1>0, Types, Records
    <3>4. allocationsByClient[a.client] = a /\ allocationsByRelay[a.relay] = a
      BY <2>1, <3>2 DEF TableInv
    <3>5. a.id # gone.id
      BY <1>0 DEF IdInv
    <3>6. a.client # gone.client /\ a.relay # identity.relay
      BY <3>2, <3>4, <3>5
    <3> QED BY <3>2, <3>3, <3>4, <3>6, <1>0 DEF AllocationTypes
  <2> QED BY <2>1, <1>1, <1>3 DEF TableInv
<1> QED BY <1>10, <1>11, <1>12, <1>13, <1>14 DEF QuotaInv

(***************************************************************************)
(* The buckets.                                                             *)
(***************************************************************************)

\* A limit is what its bucket refills in a window.
LEMMA RateFacts ==
    ASSUME NEW k \in Keys, Limit[k[1]] >= 0
    PROVE  /\ Limit[k[1]] \in Nat /\ Rate(k) \in Nat
           /\ Limit[k[1]] = EgressWindow * Rate(k)
<1>1. k[1] \in Kinds
  BY DEF Keys, Kinds
<1>2. Limit[k[1]] \in Nat /\ EgressWindow \in Nat \ {0}
      /\ (Limit[k[1]] > 0 => Limit[k[1]] % EgressWindow = 0)
  BY <1>1, TurnQuotaConstants
<1>3. ASSUME NEW l \in Nat, NEW w \in Nat \ {0}, l > 0 => l % w = 0
      PROVE  l \div w \in Nat /\ l = w * (l \div w)
  BY <1>3
<1> QED BY <1>2, <1>3 DEF Rate

LEMMA BucketFacts ==
    ASSUME BucketTypes, NEW k \in Keys
    PROVE  /\ clock \in Nat /\ buckets[k].tokens \in Nat /\ ideal[k] \in Int
           /\ buckets[k] # NoBucket => buckets[k].last \in 0..clock
           /\ buckets[k] \in BucketRecord /\ NoBucket \in BucketRecord
BY DEF BucketTypes, BucketRecord, NoBucket

\* What refillBucket leaves in a bucket is between nothing and the limit.
LEMMA RefilledTokens ==
    ASSUME NEW k \in Keys, Limit[k[1]] >= 0, clock \in Nat,
           NEW bucket \in BucketRecord, bucket # NoBucket => bucket.last \in 0..clock
    PROVE  /\ Refilled(bucket, k).tokens \in 0..Limit[k[1]]
           /\ Refilled(bucket, k).last = clock
           /\ Refilled(bucket, k) \in BucketRecord
<1>1. Limit[k[1]] \in Nat /\ Rate(k) \in Nat
  BY RateFacts
<1>2. CASE bucket = NoBucket
  BY <1>1, <1>2 DEF Refilled, BucketRecord
<1>3. CASE bucket # NoBucket
  <2>1. bucket.tokens \in Nat /\ clock - bucket.last \in Nat
    BY <1>3 DEF BucketRecord
  <2>2. (clock - bucket.last) * Rate(k) \in Nat
    BY <2>1, <1>1
  <2> QED BY <2>1, <2>2, <1>1, <1>3 DEF Refilled, Least, BucketRecord
<1> QED BY <1>2, <1>3

LEMMA TickStep ==
    ASSUME BucketInv, Tick
    PROVE  BucketInv'
<1>0. BucketTypes /\ MeterInv /\ clock \in Nat
  BY DEF BucketInv, BucketTypes
<1>1. clock' = clock + 1 /\ buckets' = buckets
      /\ ideal' = [k \in Keys |-> Least(Limit[k[1]], ideal[k] + Rate(k))]
  BY DEF Tick
<1>2. ASSUME NEW k \in Keys
      PROVE  ideal'[k] \in Int
  <2>1. k[1] \in Kinds
    BY DEF Keys, Kinds
  <2>2. Limit[k[1]] \in Int /\ EgressWindow \in Nat \ {0}
    BY <2>1, TurnQuotaConstants
  <2>3. Rate(k) \in Int
    BY <2>2 DEF Rate
  <2>4. ideal[k] \in Int
    BY <1>0, BucketFacts
  <2> QED BY <2>2, <2>3, <2>4, <1>1 DEF Least
<1>3. BucketTypes'
  <2>1. ideal' \in [Keys -> Int]
    BY <1>1, <1>2
  <2>2. \A k \in Keys : buckets'[k] # NoBucket => buckets'[k].last \in 0..clock'
    BY <1>0, <1>1, BucketFacts
  <2> QED BY <2>1, <2>2, <1>0, <1>1 DEF BucketTypes
<1>4. ASSUME NEW k \in Keys, Limit[k[1]] >= 0
      PROVE  Remains(k)' = ideal'[k]
  <2> DEFINE L == Limit[k[1]]
             R == Rate(k)
             b == buckets[k]
  <2>1. L \in Nat /\ R \in Nat
    BY <1>4, RateFacts
  <2>2. ideal'[k] = Least(L, ideal[k] + R)
    BY <1>1
  <2>3. Remains(k) = ideal[k]
    BY <1>0, <1>4 DEF MeterInv
  <2>4. CASE b = NoBucket
    <3>1. Remains(k) = L /\ Remains(k)' = L
      BY <2>4, <1>1 DEF Remains, Refilled
    <3> QED BY <3>1, <2>1, <2>2, <2>3 DEF Least
  <2>5. CASE b # NoBucket
    <3>1. b.tokens \in Nat /\ b.last \in Nat /\ clock - b.last \in Nat
      BY <2>5, <1>0, BucketFacts
    <3> DEFINE m == (clock - b.last) * R
    <3>2. m \in Nat /\ ((clock + 1) - b.last) * R = m + R
      <4>1. \A d, r \in Nat : d * r \in Nat /\ (d + 1) * r = d * r + r
        OBVIOUS
      <4>2. (clock + 1) - b.last = (clock - b.last) + 1
        BY <3>1, <1>0
      <4> QED BY <4>1, <4>2, <3>1, <2>1
    <3>3. Remains(k) = Least(L, b.tokens + m)
      BY <2>5 DEF Remains, Refilled
    <3>4. Remains(k)' = Least(L, b.tokens + ((clock + 1) - b.last) * R)
      BY <2>5, <1>1 DEF Remains, Refilled, Rate
    <3>5. Remains(k)' = Least(L, b.tokens + (m + R))
      BY <3>2, <3>4
    <3> HIDE DEF m, L, R, b
    <3> QED BY <3>1, <3>2, <3>3, <3>5, <2>1, <2>2, <2>3 DEF Least
  <2> QED BY <2>4, <2>5
<1>5. MeterInv'
  BY <1>4 DEF MeterInv
<1> QED BY <1>3, <1>5 DEF BucketInv

\* A bucket that is forgotten had been idle until it was full.
LEMMA ForgottenIsFull ==
    ASSUME BucketTypes, NEW k \in Keys, Limit[k[1]] >= 0, Forgotten(k)
    PROVE  Remains(k) = Limit[k[1]]
<1> DEFINE L == Limit[k[1]]
           R == Rate(k)
           b == buckets[k]
<1>1. b # NoBucket /\ clock - b.last >= EgressWindow
  BY DEF Forgotten, Idle
<1>2. b.tokens \in Nat /\ b.last \in Nat /\ clock \in Nat
  BY <1>1, BucketFacts
<1>3. L \in Nat /\ R \in Nat /\ L = EgressWindow * R /\ EgressWindow \in Nat
  BY RateFacts, TurnQuotaConstants
<1>4. (clock - b.last) * R >= EgressWindow * R
  <2>1. \A w, d, r \in Nat : d >= w => d * r >= w * r
    <3> TAKE w, d, r \in Nat
    <3> HAVE d >= w
    <3>1. d - w \in Nat /\ (d - w) * r \in Nat
      OBVIOUS
    <3>2. d * r = (d - w) * r + w * r /\ w * r \in Nat
      OBVIOUS
    <3> QED BY <3>1, <3>2
  <2> QED BY <2>1, <1>1, <1>2, <1>3
<1>5. (clock - b.last) * R \in Nat
  BY <1>1, <1>2, <1>3
<1>6. Remains(k) = Least(L, b.tokens + (clock - b.last) * R)
  BY <1>1 DEF Remains, Refilled
<1> HIDE DEF L, R, b
<1>7. Remains(k) = L
  BY <1>2, <1>3, <1>4, <1>5, <1>6 DEF Least
<1> QED BY <1>7 DEF L

LEMMA ConsumeStep ==
    ASSUME BucketInv, NEW identity \in packets, NEW bytes \in 1..EgressWindow,
           Consume(identity, bytes)
    PROVE  BucketInv'
<1> DEFINE charged == {k \in {<<"all", "all">>, <<"user", identity.user>>,
                              <<"ip", Host[identity.client]>>} : Limit[k[1]] >= 0}
           cleaned == [k \in Keys |-> IF Forgotten(k) THEN NoBucket ELSE buckets[k]]
           refilled == [k \in charged |-> Refilled(cleaned[k], k)]
           empty == {k \in charged : refilled[k].tokens < bytes}
           tried == {k \in charged : \A e \in empty : Order(k) <= Order(e)}
<1>0. BucketTypes /\ MeterInv /\ clock \in Nat /\ bytes \in Nat /\ EgressWindow \in Nat
  BY TurnQuotaConstants DEF BucketInv, BucketTypes
<1>1. /\ buckets' = [k \in Keys |->
                IF k \notin charged \/ k \notin tried THEN cleaned[k]
                ELSE IF empty # {} THEN refilled[k]
                ELSE [refilled[k] EXCEPT !.tokens = refilled[k].tokens - bytes]]
      /\ ideal' = [k \in Keys |-> IF empty = {} /\ k \in charged THEN ideal[k] - bytes
                                  ELSE ideal[k]]
      /\ clock' = clock
  BY DEF Consume
<1>2. \A k \in Keys : k \in charged => Limit[k[1]] >= 0 /\ refilled[k] = Refilled(cleaned[k], k)
                                       /\ (empty = {} => ~(refilled[k].tokens < bytes))
  OBVIOUS
<1>3. empty = {} => \A k \in charged : k \in tried
  OBVIOUS
<1> HIDE DEF charged, refilled, empty, tried
<1>4. ASSUME NEW k \in Keys
      PROVE  /\ cleaned[k] \in BucketRecord
             /\ cleaned[k] # NoBucket => cleaned[k].last \in 0..clock
             /\ Limit[k[1]] >= 0 => Refilled(cleaned[k], k).tokens = ideal[k]
  <2>1. CASE Forgotten(k)
    <3>1. cleaned[k] = NoBucket /\ NoBucket \in BucketRecord
      BY <2>1, <1>0, BucketFacts
    <3>2. ASSUME Limit[k[1]] >= 0
          PROVE  Refilled(NoBucket, k).tokens = ideal[k]
      <4>1. Refilled(NoBucket, k).tokens = Limit[k[1]]
        BY DEF Refilled
      <4> QED BY <4>1, <3>2, <2>1, <1>0, ForgottenIsFull DEF MeterInv
    <3> QED BY <3>1, <3>2
  <2>2. CASE ~Forgotten(k)
    <3>1. cleaned[k] = buckets[k]
      BY <2>2
    <3>2. Limit[k[1]] >= 0 => Refilled(buckets[k], k).tokens = ideal[k]
      BY <1>0 DEF MeterInv, Remains
    <3> QED BY <3>1, <3>2, <1>0, BucketFacts
  <2> QED BY <2>1, <2>2
<1> HIDE DEF cleaned
<1>5. ASSUME NEW k \in Keys
      PROVE  /\ buckets'[k] \in BucketRecord /\ ideal'[k] \in Int
             /\ buckets'[k] # NoBucket => buckets'[k].last \in 0..clock
             /\ Limit[k[1]] >= 0 => Refilled(buckets'[k], k).tokens = ideal'[k]
  <2>0. ideal[k] \in Int /\ ideal'[k] \in Int
    BY <1>0, <1>1, BucketFacts
  <2>1. CASE k \notin charged \/ k \notin tried
    <3>1. buckets'[k] = cleaned[k] /\ ideal'[k] = ideal[k]
      BY <2>1, <1>1, <1>3
    <3> QED BY <3>1, <2>0, <1>4
  <2>2. CASE k \in charged /\ k \in tried
    <3> DEFINE f == Refilled(cleaned[k], k)
    <3>1. /\ Limit[k[1]] >= 0 /\ Limit[k[1]] \in Nat /\ Rate(k) \in Nat /\ refilled[k] = f
          /\ f \in BucketRecord /\ f.tokens \in 0..Limit[k[1]] /\ f.last = clock
          /\ f.tokens = ideal[k]
      BY <2>2, <1>0, <1>2, <1>4, RefilledTokens, RateFacts
    <3>2. \A n \in Nat : n <= Limit[k[1]] =>
              Refilled([tokens |-> n, last |-> clock], k).tokens = n
      <4>1. \A n \in Nat : [tokens |-> n, last |-> clock] # NoBucket
        BY <1>0 DEF NoBucket
      <4>2. (clock - clock) * Rate(k) = 0
        BY <3>1, <1>0
      <4> QED BY <4>1, <4>2, <3>1 DEF Refilled, Least
    <3> HIDE DEF f
    <3>3. CASE empty # {}
      <4>1. buckets'[k] = f /\ ideal'[k] = ideal[k]
        BY <3>1, <3>3, <2>2, <1>1
      <4>2. f = [tokens |-> f.tokens, last |-> clock]
        BY <3>1 DEF BucketRecord
      <4>3. Refilled(f, k).tokens = f.tokens
        BY <4>2, <3>1, <3>2
      <4> QED BY <4>1, <4>3, <3>1, <2>0, <1>0
    <3>4. CASE empty = {}
      <4>1. buckets'[k] = [f EXCEPT !.tokens = f.tokens - bytes] /\ ideal'[k] = ideal[k] - bytes
        BY <3>1, <3>4, <2>2, <1>1
      <4>2. f.tokens - bytes \in Nat /\ f.tokens - bytes <= Limit[k[1]]
        BY <3>1, <3>4, <2>2, <1>0, <1>2
      <4>3. buckets'[k] = [tokens |-> f.tokens - bytes, last |-> clock]
        BY <4>1, <3>1 DEF BucketRecord
      <4>4. buckets'[k] \in BucketRecord /\ buckets'[k].last = clock
        BY <4>2, <4>3, <1>0 DEF BucketRecord
      <4>5. Refilled(buckets'[k], k).tokens = f.tokens - bytes
        BY <4>2, <4>3, <3>2
      <4> QED BY <4>1, <4>4, <4>5, <3>1, <2>0, <1>0
    <3> QED BY <3>3, <3>4
  <2> QED BY <2>1, <2>2
<1>6. BucketTypes'
  BY <1>0, <1>1, <1>5 DEF BucketTypes
<1>7. MeterInv'
  <2> SUFFICES ASSUME NEW k \in Keys, Limit[k[1]] >= 0
               PROVE  Remains(k)' = ideal'[k]
    BY DEF MeterInv
  <2>1. Remains(k)' = Refilled(buckets'[k], k).tokens
    BY <1>1 DEF Remains, Refilled, Rate
  <2> QED BY <2>1, <1>5
<1> QED BY <1>6, <1>7 DEF BucketInv

(***************************************************************************)
(* The specification.                                                       *)
(***************************************************************************)

IInv == QuotaInv /\ TableInv /\ BucketInv

LEMMA Initial ==
    ASSUME QuotaInit
    PROVE  IInv
<1>1. \A c \in Clients : live[c] = None
  BY DEF QuotaInit
<1>2. Live = {} /\ closing = {} /\ request = None
  BY <1>1 DEF QuotaInit, Live
<1>3. Counted = {}
  BY <1>2 DEF Counted
<1>4. AllocationTypes
  BY DEF QuotaInit, AllocationTypes
<1>5. IdInv
  BY <1>1, <1>2 DEF IdInv
<1>6. CountInv
  <2>1. \A S : Counted \cap S = {}
    BY <1>3
  <2>2. IsFiniteSet({}) /\ Cardinality({}) = 0
    BY FS_EmptySet
  <2>3. \A u \in Users : byUser[u] = Cardinality(Counted \cap OfUser(u))
    BY <2>1, <2>2 DEF QuotaInit
  <2>4. \A h \in Hosts : byIP[h] = Cardinality(Counted \cap OfHost(h))
    BY <2>1, <2>2 DEF QuotaInit
  <2> QED BY <2>2, <2>3, <2>4, <1>3 DEF CountInv, QuotaInit
<1>7. LimitInv
  BY <1>2, TurnQuotaConstants DEF QuotaInit, LimitInv, Within
<1>8. TableInv
  BY <1>1, <1>2 DEF TableInv
<1>9. BucketTypes
  <2>1. NoBucket \in BucketRecord
    BY DEF NoBucket, BucketRecord
  <2>2. \A k \in Keys : Limit[k[1]] \in Int
    BY TurnQuotaConstants DEF Keys, Kinds
  <2>3. buckets = [k \in Keys |-> NoBucket] /\ clock = 0 /\ ideal = [k \in Keys |-> Limit[k[1]]]
    BY DEF QuotaInit
  <2> QED BY <2>1, <2>2, <2>3 DEF BucketTypes
<1>10. MeterInv
  BY DEF QuotaInit, MeterInv, Remains, Refilled
<1> QED BY <1>4, <1>5, <1>6, <1>7, <1>8, <1>9, <1>10 DEF IInv, QuotaInv, BucketInv

\* Writing packets and the clock leave the allocations alone.
LEMMA TrafficLeavesQuotas ==
    ASSUME QuotaInv, TableInv, UNCHANGED <<libraryVars, countVars>>
    PROVE  QuotaInv' /\ TableInv'
<1> USE DEF libraryVars, countVars
<1>1. Live' = Live /\ Counted' = Counted
  BY DEF Live, Counted
<1>2. AllocationTypes'
  BY DEF QuotaInv, AllocationTypes
<1>3. IdInv'
  BY <1>1 DEF QuotaInv, IdInv
<1>4. CountInv'
  BY <1>1 DEF QuotaInv, CountInv
<1>5. LimitInv'
  BY DEF QuotaInv, LimitInv, Allow
<1>6. TableInv'
  BY <1>1 DEF TableInv
<1> QED BY <1>2, <1>3, <1>4, <1>5, <1>6 DEF QuotaInv

\* The library's steps leave the buckets alone.
LEMMA AllocationsLeaveBuckets ==
    ASSUME BucketInv, UNCHANGED <<buckets, ideal, clock>>
    PROVE  BucketInv'
BY DEF BucketInv, BucketTypes, MeterInv, Remains, Refilled

LEMMA Inductive ==
    ASSUME IInv, [QuotaNext]_quotaVars
    PROVE  IInv'
<1>0. QuotaInv /\ TableInv /\ BucketInv
  BY DEF IInv
<1>1. ASSUME NEW client \in Clients, NEW user \in Users, Request(client, user)
      PROVE  IInv'
  <2>1. BucketInv'
    BY <1>0, <1>1, AllocationsLeaveBuckets DEF Request, trafficVars
  <2> QED BY <2>1, <1>0, <1>1, RequestStep DEF IInv
<1>2. ASSUME NEW relay \in RelayAddrs, Allocate(relay)
      PROVE  IInv'
  <2>1. BucketInv'
    BY <1>0, <1>2, AllocationsLeaveBuckets DEF Allocate, trafficVars
  <2> QED BY <2>1, <1>0, <1>2, AllocateStep DEF IInv
<1>3. CASE Created
  <2>1. BucketInv'
    BY <1>0, <1>3, AllocationsLeaveBuckets DEF Created, trafficVars
  <2> QED BY <2>1, <1>0, <1>3, CreatedStep DEF IInv
<1>4. ASSUME NEW client \in Clients, Remove(client)
      PROVE  IInv'
  <2>1. BucketInv'
    BY <1>0, <1>4, AllocationsLeaveBuckets DEF Remove, trafficVars
  <2> QED BY <2>1, <1>0, <1>4, RemoveStep DEF IInv
<1>5. ASSUME NEW gone \in closing, Deleted(gone)
      PROVE  IInv'
  <2>1. BucketInv'
    BY <1>0, <1>5, AllocationsLeaveBuckets DEF Deleted, trafficVars
  <2> QED BY <2>1, <1>0, <1>5, DeletedStep DEF IInv
<1>6. ASSUME NEW identity, Write(identity)
      PROVE  IInv'
  <2>1. UNCHANGED <<libraryVars, countVars, buckets, ideal, clock>>
    BY <1>6 DEF Write
  <2> QED BY <2>1, <1>0, TrafficLeavesQuotas, AllocationsLeaveBuckets DEF IInv
<1>7. ASSUME NEW identity \in packets, NEW bytes \in 1..EgressWindow, Consume(identity, bytes)
      PROVE  IInv'
  <2>1. UNCHANGED <<libraryVars, countVars>>
    BY <1>7 DEF Consume
  <2> QED BY <2>1, <1>0, <1>7, TrafficLeavesQuotas, ConsumeStep DEF IInv
<1>8. CASE Tick
  <2>1. UNCHANGED <<libraryVars, countVars>>
    BY <1>8 DEF Tick
  <2> QED BY <2>1, <1>0, <1>8, TrafficLeavesQuotas, TickStep DEF IInv
<1>9. CASE UNCHANGED quotaVars
  <2>1. UNCHANGED <<libraryVars, countVars, buckets, ideal, clock>>
    BY <1>9 DEF quotaVars, trafficVars
  <2> QED BY <2>1, <1>0, TrafficLeavesQuotas, AllocationsLeaveBuckets DEF IInv
<1> QED BY <1>1, <1>2, <1>3, <1>4, <1>5, <1>6, <1>7, <1>8, <1>9 DEF QuotaNext

\* The counters, tables and buckets of the quota controller agree with the
\* library's allocations (turn_control.go).
THEOREM QuotaInvariant == QuotaSpec => []IInv
<1>1. QuotaInit => IInv
  BY Initial
<1>2. IInv /\ [QuotaNext]_quotaVars => IInv'
  BY Inductive
<1> QED BY <1>1, <1>2, PTL DEF QuotaSpec

\* The live allocations of a kind, with the one being made, fit its quota.
LEMMA LiveWithin ==
    ASSUME QuotaInv, NEW S, NEW limit \in Int, NEW count \in Nat,
           count = Cardinality(Counted \cap S), Within(count, limit),
           \A c \in Clients : request # None /\ live[c] # None /\ live[c].id = request.id
                              /\ live[c] \in S => BelowQuota(count, limit)
    PROVE  Within(Cardinality(Live \cap S), limit)
<1> DEFINE C == Counted \cap S
           P == (Live \cap S) \ Counted
<1>0. AllocationTypes /\ IdInv /\ IsFiniteSet(Counted)
  BY DEF QuotaInv, CountInv
<1>1. IsFiniteSet(C) /\ Cardinality(C) = count
  BY <1>0, FS_Subset
<1>2. \A a \in P : a.id = request.id /\ a # None /\ a \in S
  BY <1>0, Types DEF Counted
<1>3. CASE P = {}
  <2>1. Live \cap S \in SUBSET C
    BY <1>3
  <2>2. Cardinality(Live \cap S) <= count /\ Cardinality(Live \cap S) \in Nat
    BY <2>1, <1>1, FS_Subset, FS_CardinalityType
  <2> QED BY <2>2 DEF Within
<1>4. CASE P # {}
  <2>1. PICK x \in P : TRUE
    BY <1>4
  <2>2. \A a \in P : a = x
    BY <2>1, <1>0, <1>2 DEF IdInv
  <2>3. x \notin C /\ Live \cap S \in SUBSET (C \cup {x})
    BY <2>1, <2>2
  <2>4. IsFiniteSet(C \cup {x}) /\ Cardinality(C \cup {x}) = count + 1
    BY <2>3, <1>1, FS_AddElement
  <2>5. Cardinality(Live \cap S) <= count + 1 /\ Cardinality(Live \cap S) \in Nat
    BY <2>3, <2>4, FS_Subset, FS_CardinalityType
  <2>6. BelowQuota(count, limit)
    <3>1. x \in Live /\ x \in Allocation /\ x.id = request.id /\ x \in S
      BY <2>1, <1>0, <1>2, Types
    <3>2. request # None
      BY <3>1, Records
    <3>3. PICK c \in Clients : live[c] = x /\ x # None
      BY <3>1, <1>0, Types
    <3> QED BY <3>1, <3>2, <3>3
  <2> QED BY <2>5, <2>6 DEF Within, BelowQuota
<1> QED BY <1>3, <1>4

\* However requests, expiries and late reports interleave, the server never
\* has more allocations than the quotas say, although it counts an allocation
\* only when its socket is open and forgets it only when it is closed (Allow,
\* Created, Deleted).
THEOREM QuotasHold == QuotaSpec => []QuotaHeld
<1>1. ASSUME IInv
      PROVE  QuotaHeld
  <2>0. QuotaInv /\ AllocationTypes /\ IdInv /\ CountInv /\ LimitInv
    BY <1>1 DEF IInv, QuotaInv
  <2>1. MaxTotal \in Int /\ MaxPerUser \in Int /\ MaxPerIP \in Int
    BY TurnQuotaConstants
  <2>2. ASSUME NEW c \in Clients, request # None, live[c] # None, live[c].id = request.id
        PROVE  /\ live[c].client = request.client /\ live[c].user = request.user
               /\ Allow(request.client, request.user)
    <3>1. live[c] \in Live
      BY <2>0, <2>2, Types
    <3>2. live[c] = live[request.client] /\ request.client \in Clients
      BY <2>0, <2>2, <3>1, Types, Records DEF IdInv
    <3> QED BY <2>0, <2>2, <3>2 DEF IdInv, LimitInv
  <2>3. Within(Cardinality(Live), MaxTotal)
    <3>1. Counted \cap Allocation = Counted /\ Live \cap Allocation = Live
      BY <2>0, Types
    <3>2. total \in Nat /\ total = Cardinality(Counted \cap Allocation) /\ Within(total, MaxTotal)
      BY <2>0, <3>1 DEF AllocationTypes, CountInv, LimitInv
    <3>3. \A c \in Clients : request # None /\ live[c] # None /\ live[c].id = request.id
                             /\ live[c] \in Allocation => BelowQuota(total, MaxTotal)
      BY <2>2 DEF Allow
    <3>4. Within(Cardinality(Live \cap Allocation), MaxTotal)
      BY <2>0, <2>1, <3>2, <3>3, LiveWithin
    <3> QED BY <3>1, <3>4
  <2>4. ASSUME NEW user \in Users
        PROVE  Within(Cardinality({a \in Live : a.user = user}), MaxPerUser)
    <3>1. {a \in Live : a.user = user} = Live \cap OfUser(user)
      BY <2>0, Types DEF OfUser
    <3>2. /\ byUser[user] \in Nat /\ byUser[user] = Cardinality(Counted \cap OfUser(user))
          /\ Within(byUser[user], MaxPerUser)
      BY <2>0 DEF AllocationTypes, CountInv, LimitInv
    <3>3. \A c \in Clients : request # None /\ live[c] # None /\ live[c].id = request.id
                             /\ live[c] \in OfUser(user) => BelowQuota(byUser[user], MaxPerUser)
      BY <2>2 DEF Allow, OfUser
    <3> HIDE DEF OfUser
    <3>4. Within(Cardinality(Live \cap OfUser(user)), MaxPerUser)
      BY <2>0, <2>1, <3>2, <3>3, LiveWithin
    <3> QED BY <3>1, <3>4
  <2>5. ASSUME NEW host \in Hosts
        PROVE  Within(Cardinality({a \in Live : Host[a.client] = host}), MaxPerIP)
    <3>1. {a \in Live : Host[a.client] = host} = Live \cap OfHost(host)
      BY <2>0, Types DEF OfHost
    <3>2. /\ byIP[host] \in Nat /\ byIP[host] = Cardinality(Counted \cap OfHost(host))
          /\ Within(byIP[host], MaxPerIP)
      BY <2>0 DEF AllocationTypes, CountInv, LimitInv
    <3>3. \A c \in Clients : request # None /\ live[c] # None /\ live[c].id = request.id
                             /\ live[c] \in OfHost(host) => BelowQuota(byIP[host], MaxPerIP)
      BY <2>2 DEF Allow, OfHost
    <3>4. Within(Cardinality(Live \cap OfHost(host)), MaxPerIP)
      BY <2>0, <2>1, <3>2, <3>3, LiveWithin
    <3> QED BY <3>1, <3>4
  <2> QED BY <2>3, <2>4, <2>5 DEF QuotaHeld
<1> QED BY <1>1, QuotaInvariant, PTL

\* What is written is charged as if no bucket were ever forgotten, for any
\* limits, clocks and allocations, and the tables name every live allocation
\* until a Deleted comes late (identityForClient, consume,
\* cleanupBucketsLocked).
THEOREM EgressMetered == QuotaSpec => []EgressIsMetered
<1>1. ASSUME IInv
      PROVE  EgressIsMetered
  <2>0. AllocationTypes /\ TableInv /\ MeterInv
    BY <1>1 DEF IInv, QuotaInv, BucketInv
  <2>1. \A a \in Live \ {live[c] : c \in {c \in Clients : live[c].id = request.id}} :
            a \in Live /\ a.id # request.id
    BY <2>0, Types
  <2> QED BY <2>0, <2>1 DEF EgressIsMetered, TableInv, MeterInv
<1> QED BY <1>1, QuotaInvariant, PTL

Setting ==
    [client : {"native", "web"}, mode : {"auto", "native", "webrtc"},
     protocol : {"transfer", "note"}, relay : Relays \cup {NoRelay},
     local : BOOLEAN, direct : BOOLEAN, reuse : BOOLEAN]

\* What the service sends to a program that negotiates, and what it was sent.
Routes ==
    [kind : {"negotiated"}, route : {"native", "webrtc"}, relay : Relays \cup {NoRelay},
     local : BOOLEAN, direct : BOOLEAN]

Told(registry, a) == registry = "negotiation" => a = Failure \/ a \in Routes

Few(registry, q) == q = << >> \/ \E a : q = <<a>> /\ Told(registry, a)

Caps(registry) == IF registry = "negotiation" THEN NegotiationCapability ELSE DirectCapability

SocketFields == {"registry", "up", "sent", "stage", "result", "reply", "mate"}

\* A WebSocket and its handler: one capability, at most one outcome.
Socket(n, c) ==
    /\ DOMAIN c = SocketFields /\ n \in ConnId
    /\ c.registry \in Registry /\ c.mate \in ConnId \cup {NoConn}
    /\ c.stage \in {"sent", "waiting", "leaving", "closed"}
    /\ c.sent = << >> \/ \E cap \in Caps(c.registry) : c.sent = <<cap>>
    /\ c.stage = "sent" => c.sent # << >> /\ c.result = << >>
    /\ Few(c.registry, c.result) /\ Few(c.registry, c.reply)

Sockets(conns) == \A n \in DOMAIN conns : Socket(n, conns[n])

\* Who is in a room is waiting and has not been told anything.
Seated(registry, role, n, conns) ==
    /\ n \in DOMAIN conns /\ RoleAt(n) = role /\ conns[n].registry = registry
    /\ conns[n].stage = "waiting" /\ conns[n].result = << >>

RoomFits(registry, room, conns) ==
    /\ DOMAIN room = Role
    /\ \A role \in Role :
         /\ room[role] = {} \/ \E peer : room[role] = {peer}
         /\ \A peer \in room[role] :
              /\ peer.cap \in Caps(registry)
              /\ peer.conn = NoConn \/ Seated(registry, role, peer.conn, conns)

\* Who waits and has not been told anything is in the room of its registry.
Keeps(registry, room, conns) ==
    \A n \in DOMAIN conns :
        Seated(registry, RoleAt(n), n, conns) => \E peer \in room[RoleAt(n)] : peer.conn = n

\* A peer takes its slot; when both are taken, who waits is told (Enter).
Seat(room, role, peer) == [room EXCEPT ![role] = {peer}]

ActivePeers(slots) == {r \in Role : \E q \in slots[r] : q.conn # NoConn}
PeerOf(slots) == [r \in Role |-> (CHOOSE q \in slots[r] : TRUE).conn]

Completed(registry, slots, conns) ==
    LET RoleTold(n) == CHOOSE r \in ActivePeers(slots) : PeerOf(slots)[r] = n IN
    [n \in DOMAIN conns |->
        IF \E r \in ActivePeers(slots) : PeerOf(slots)[r] = n
        THEN [conns[n] EXCEPT !.result = Append(@, Outcome(registry, slots, RoleTold(n))),
                              !.mate = PeerOf(slots)[Other(RoleTold(n))]]
        ELSE conns[n]]

SocketsInv == Sockets(conn)

RoomsInv ==
    /\ DOMAIN rooms = Registry
    /\ \A registry \in Registry :
         RoomFits(registry, rooms[registry], conn) /\ Keeps(registry, rooms[registry], conn)

SettingInv == <<setting, serverRelay>> \in Deployments /\ faults \in 0..MaxFaults /\ ~blocked

\* Where a program is and what it resolved.
Pcs == {"start", "negotiating", "dialing direct", "exchanging", "direct", "signaling",
        "connected", "relay", "webrtc", "failed", "unusable", "crashed"}
Plans == [relay : Relays \cup {NoRelay}, local : BOOLEAN, signalDirect : BOOLEAN]
Offers == {<< >>} \cup {<<offer>> : offer \in DirectCapability}
Nexts == {"none", "relay", "signaling", "failed"}

OneProg ==
    [pc : Pcs, plan : Plans, talk : ConnId \cup {NoConn}, swap : ConnId \cup {NoConn},
     heard : BOOLEAN, offer : Offers, next : Nexts]

\* A program that negotiates reads from a WebSocket of the negotiation registry,
\* one that exchanges from a WebSocket, and one that dials knows what it does when the dial fails.
ProgInv ==
    /\ prog \in [Programs -> OneProg]
    /\ \A p \in Programs :
         /\ prog[p].pc = "negotiating" =>
               prog[p].talk \in DOMAIN conn /\ conn[prog[p].talk].registry = "negotiation"
         /\ prog[p].pc = "exchanging" => prog[p].swap \in DOMAIN conn
         /\ prog[p].pc = "direct" => prog[p].next # "none"

\* What a step may do to the programs when it opens no WebSocket.
ProgKeeps ==
    /\ prog' \in [Programs -> OneProg]
    /\ \A p \in Programs :
         /\ prog'[p].pc = "negotiating" => prog[p].pc = "negotiating" /\ prog'[p].talk = prog[p].talk
         /\ prog'[p].pc = "exchanging" => prog[p].pc = "exchanging" /\ prog'[p].swap = prog[p].swap
         /\ prog'[p].pc = "direct" => prog'[p].next # "none"

\* The WebSockets of a program are numbered without gaps.
NumberInv == \A p \in Programs : \E k \in Nat : \A j : <<p, j>> \in DOMAIN conn <=> j \in 1..k

MeetInv == SettingInv /\ SocketsInv /\ RoomsInv /\ ProgInv /\ NumberInv

LEMMA MeetBasics ==
    /\ Role = {"sender", "receiver"} /\ Registry = {"negotiation", "direct"}
    /\ \A role \in Role : Other(role) \in Role /\ Other(role) # role
                            /\ \A x \in Role : x = role \/ x = Other(role)
    /\ NoConn \notin ConnId
<1>1. ASSUME NEW n \in ConnId PROVE n # NoConn
  <2>1. n = <<n[1], n[2]>> /\ NoConn = << >>
    BY DEF ConnId, NoConn
  <2>2. DOMAIN n = 1..2 /\ DOMAIN NoConn = 1..0
    BY <2>1
  <2>3. 1 \in 1..2 /\ 1 \notin 1..0
    OBVIOUS
  <2> QED BY <2>2, <2>3
<1> QED BY <1>1 DEF Role, Registry, Other

LEMMA Deployed ==
    /\ RoleOf \in [Programs -> Role]
    /\ Deployments \subseteq [Programs -> Setting] \X (Relays \cup {NoRelay})
    /\ MaxConns \in Nat /\ MaxFaults \in Nat
BY ProgramAssumption, SettingAssumption, BoundAssumption DEF Setting

LEMMA RoleIs == ASSUME NEW n \in ConnId PROVE RoleAt(n) \in Role
BY Deployed DEF ConnId, RoleAt

\* What the two registries answer.
LEMMA OutcomeTold ==
    ASSUME serverRelay \in Relays \cup {NoRelay}, NEW registry \in Registry,
           NEW slots, NEW x, NEW y, slots["sender"] = {x}, slots["receiver"] = {y},
           x.cap \in Caps(registry), y.cap \in Caps(registry), NEW role \in Role
    PROVE  Told(registry, Outcome(registry, slots, role))
<1> SUFFICES ASSUME registry = "negotiation"
             PROVE  \/ Outcome(registry, slots, role) = Failure
                    \/ Outcome(registry, slots, role) \in Routes
  BY DEF Told
<1>1. x.cap \in NegotiationCapability /\ y.cap \in NegotiationCapability
  BY DEF Caps
<1>2. ASSUME NEW a \in NegotiationCapability, NEW b \in NegotiationCapability
      PROVE  Choose(a, b) \in Routes
  BY <1>2 DEF Choose, Response, Routes, NegotiationCapability
<1> DEFINE cap == [r \in Role |-> (CHOOSE peer \in slots[r] : TRUE).cap]
<1>3. cap["sender"] = x.cap /\ cap["receiver"] = y.cap
  BY MeetBasics
<1>4. Outcome(registry, slots, role) =
        IF cap["sender"].protocol # cap["receiver"].protocol THEN Failure
        ELSE Choose(cap["sender"], cap["receiver"])
  BY DEF Outcome
<1> HIDE DEF cap
<1> QED BY <1>1, <1>2, <1>3, <1>4

\* Expiring a room tells those who wait in it, and no one else.
LEMMA ExpireIs ==
    ASSUME NEW conns, Sockets(conns), NEW registry \in Registry, NEW room,
           RoomFits(registry, room, conns), NEW d, d = Expire(conns, room)
    PROVE  /\ DOMAIN d = DOMAIN conns /\ Sockets(d)
           /\ \A n \in DOMAIN conns : d[n] = conns[n] \/ \E role \in Role : \E q \in room[role] : q.conn = n
           /\ \A n \in DOMAIN conns : /\ d[n].registry = conns[n].registry
                                      /\ d[n].stage = conns[n].stage /\ d[n].up = conns[n].up
                                      /\ d[n].result = << >> => d[n] = conns[n]
           /\ \A role \in Role : \A q \in room[role] : q.conn \in DOMAIN d => d[q.conn].result # << >>
<1> DEFINE In(n) == \E role \in Role : \E q \in room[role] : q.conn = n
<1>1. \A n \in DOMAIN conns : d[n] = IF In(n) /\ conns[n].result = << >>
                                      THEN [conns[n] EXCEPT !.result = <<Failure>>] ELSE conns[n]
  BY DEF Expire
<1>2. DOMAIN d = DOMAIN conns
  BY DEF Expire
<1>3. <<Failure>> # << >> /\ \A g : Few(g, <<Failure>>)
  BY DEF Few, Told
<1>4. ASSUME NEW n \in DOMAIN conns
      PROVE  /\ Socket(n, d[n]) /\ d[n].registry = conns[n].registry
             /\ d[n].stage = conns[n].stage /\ d[n].up = conns[n].up
             /\ d[n].result = << >> => d[n] = conns[n]
             /\ In(n) => d[n].result # << >>
  <2>1. Socket(n, conns[n])
    BY DEF Sockets
  <2>2. CASE In(n) /\ conns[n].result = << >>
    <3>1. d[n] = [conns[n] EXCEPT !.result = <<Failure>>]
      BY <1>1, <2>2
    <3>2. conns[n].stage = "waiting"
      BY <2>2, MeetBasics, <2>1 DEF RoomFits, Seated, Socket
    <3>3. /\ DOMAIN d[n] = SocketFields /\ d[n].result = <<Failure>>
          /\ d[n].registry = conns[n].registry /\ d[n].mate = conns[n].mate /\ d[n].up = conns[n].up
          /\ d[n].stage = conns[n].stage /\ d[n].sent = conns[n].sent /\ d[n].reply = conns[n].reply
      BY <2>1, <3>1 DEF Socket, SocketFields
    <3> HIDE DEF In
    <3> QED BY <1>3, <2>1, <3>2, <3>3 DEF Socket
  <2>3. CASE ~(In(n) /\ conns[n].result = << >>)
    BY <1>1, <2>1, <2>3
  <2> QED BY <2>2, <2>3
<1> QED BY <1>1, <1>2, <1>4 DEF Sockets

\* The rooms that are not expired stay as they were, and no one waits in those that are.
LEMMA ExpireKeeps ==
    ASSUME NEW conns, Sockets(conns), NEW registry \in Registry, NEW room,
           RoomFits(registry, room, conns), NEW d, d = Expire(conns, room),
           NEW g \in Registry, NEW other, RoomFits(g, other, conns)
    PROVE  /\ g # registry => RoomFits(g, other, d)
           /\ g # registry /\ Keeps(g, other, conns) => Keeps(g, other, d)
           /\ Keeps(registry, room, conns) => Keeps(registry, NoRoom, d)
           /\ RoomFits(registry, NoRoom, d)
<1>1. /\ DOMAIN d = DOMAIN conns /\ Sockets(d)
      /\ \A n \in DOMAIN conns : d[n] = conns[n] \/ \E role \in Role : \E q \in room[role] : q.conn = n
      /\ \A n \in DOMAIN conns : /\ d[n].registry = conns[n].registry
                                 /\ d[n].stage = conns[n].stage /\ d[n].up = conns[n].up
                                 /\ d[n].result = << >> => d[n] = conns[n]
      /\ \A role \in Role : \A q \in room[role] : q.conn \in DOMAIN d => d[q.conn].result # << >>
  BY ExpireIs
<1>2. ASSUME g # registry, NEW role \in Role, NEW n, Seated(g, role, n, conns)
      PROVE  Seated(g, role, n, d)
  <2>1. d[n] = conns[n]
    <3>1. ASSUME NEW x \in Role, NEW q \in room[x], q.conn = n PROVE FALSE
      <4>1. n \in ConnId
        BY <1>2 DEF Seated, Sockets, Socket
      <4>2. Seated(registry, x, n, conns)
        BY <3>1, <4>1, MeetBasics DEF RoomFits
      <4> QED BY <1>2, <4>2 DEF Seated
    <3> QED BY <1>1, <1>2, <3>1 DEF Seated
  <2> QED BY <1>1, <1>2, <2>1 DEF Seated
<1>3. ASSUME g # registry PROVE RoomFits(g, other, d)
  BY <1>2, <1>3 DEF RoomFits
<1>4. \A x, n : Seated(x, RoleAt(n), n, d) => Seated(x, RoleAt(n), n, conns)
  BY <1>1 DEF Seated
<1>5. ASSUME g # registry, Keeps(g, other, conns) PROVE Keeps(g, other, d)
  BY <1>1, <1>4, <1>5 DEF Keeps
<1>6. ASSUME Keeps(registry, room, conns) PROVE Keeps(registry, NoRoom, d)
  <2> SUFFICES ASSUME NEW n \in DOMAIN d, Seated(registry, RoleAt(n), n, d) PROVE FALSE
    BY DEF Keeps
  <2>1. PICK q \in room[RoleAt(n)] : q.conn = n
    BY <1>1, <1>4, <1>6 DEF Keeps
  <2>2. RoleAt(n) \in Role
    BY <1>1, RoleIs DEF Sockets, Socket
  <2> QED BY <1>1, <2>1, <2>2 DEF Seated
<1>7. RoomFits(registry, NoRoom, d)
  BY DEF RoomFits, NoRoom
<1> QED BY <1>3, <1>5, <1>6, <1>7

LEMMA OneOf == \A o : Append(<< >>, o) = <<o>> /\ <<o>> # << >> /\ Head(<<o>>) = o /\ Tail(<<o>>) = << >>
OBVIOUS

\* Both peers are there: each that waits is told, and the room is removed.
LEMMA CompleteKeeps ==
    ASSUME serverRelay \in Relays \cup {NoRelay}, NEW conns, Sockets(conns),
           NEW registry \in Registry, NEW slots,
           RoomFits(registry, slots, conns), Keeps(registry, slots, conns),
           \A role \in Role : slots[role] # {},
           NEW d, d = Completed(registry, slots, conns)
    PROVE  /\ DOMAIN d = DOMAIN conns /\ Sockets(d) /\ \A n \in DOMAIN conns : d[n].registry = conns[n].registry
           /\ \A r \in ActivePeers(slots) : conns[PeerOf(slots)[r]].result = << >>
           /\ RoomFits(registry, NoRoom, d) /\ Keeps(registry, NoRoom, d)
           /\ \A g \in Registry : \A other :
                g # registry =>
                    /\ RoomFits(g, other, conns) => RoomFits(g, other, d)
                    /\ Keeps(g, other, conns) => Keeps(g, other, d)
<1> DEFINE active == ActivePeers(slots)
           ids == PeerOf(slots)
<1>1. \A r \in Role : \E x : slots[r] = {x} /\ ids[r] = x.conn
  BY DEF RoomFits, PeerOf
<1>2. \A r \in Role : ids[r] = NoConn \/ Seated(registry, r, ids[r], conns)
  BY <1>1 DEF RoomFits
<1>3. active \subseteq Role /\ \A r \in active : Seated(registry, r, ids[r], conns)
  <2>1. \A r \in active : r \in Role /\ ids[r] # NoConn
    BY <1>1 DEF ActivePeers
  <2> QED BY <1>2, <2>1
<1>4. \A r \in Role : Told(registry, Outcome(registry, slots, r))
  <2>1. PICK x : slots["sender"] = {x}
    BY <1>1, MeetBasics
  <2>2. PICK y : slots["receiver"] = {y}
    BY <1>1, MeetBasics
  <2>3. x.cap \in Caps(registry) /\ y.cap \in Caps(registry)
    BY <2>1, <2>2, MeetBasics DEF RoomFits
  <2> QED BY <2>1, <2>2, <2>3, OutcomeTold
<1>5. \A r \in Role : ids[r] \in ConnId \cup {NoConn}
  BY <1>2 DEF Seated, Sockets, Socket
<1>6. DOMAIN d = DOMAIN conns
  BY DEF Completed
<1>7. ASSUME NEW n \in DOMAIN conns, NEW x \in active, ids[x] = n
      PROVE  /\ Socket(n, d[n]) /\ d[n].registry = conns[n].registry /\ d[n].result # << >>
             /\ conns[n].registry = registry
  <2> DEFINE r == CHOOSE y \in active : ids[y] = n
             o == Outcome(registry, slots, r)
             t == ids[Other(r)]
  <2>1. r \in active /\ ids[r] = n
    BY <1>7
  <2>2. Told(registry, o) /\ t \in ConnId \cup {NoConn}
    BY <1>3, <1>4, <1>5, <2>1, MeetBasics
  <2>3. d[n] = [conns[n] EXCEPT !.result = Append(@, o), !.mate = t]
    BY <1>7 DEF Completed
  <2> HIDE DEF r, o, t
  <2>4. Socket(n, conns[n]) /\ conns[n].registry = registry
        /\ conns[n].stage = "waiting" /\ conns[n].result = << >>
    BY <1>3, <1>7 DEF Sockets, Seated
  <2>5. Append(<< >>, o) = <<o>> /\ <<o>> # << >>
    BY OneOf
  <2>6. /\ DOMAIN d[n] = SocketFields /\ d[n].result = <<o>> /\ d[n].mate = t
        /\ d[n].registry = conns[n].registry /\ d[n].up = conns[n].up
        /\ d[n].stage = conns[n].stage /\ d[n].sent = conns[n].sent /\ d[n].reply = conns[n].reply
    BY <2>3, <2>4, <2>5 DEF Socket, SocketFields
  <2>7. Few(registry, <<o>>)
    BY <2>2 DEF Few
  <2> QED BY <2>2, <2>4, <2>5, <2>6, <2>7 DEF Socket
<1>8. \A n \in DOMAIN conns : (\E x \in active : ids[x] = n) \/ d[n] = conns[n]
  BY DEF Completed
<1> HIDE DEF active, ids
<1>9. Sockets(d) /\ \A n \in DOMAIN conns : d[n].registry = conns[n].registry
  BY <1>6, <1>7, <1>8 DEF Sockets
<1>10. RoomFits(registry, NoRoom, d)
  BY DEF RoomFits, NoRoom
<1>11. Keeps(registry, NoRoom, d)
  <2> SUFFICES ASSUME NEW n \in DOMAIN d, Seated(registry, RoleAt(n), n, d) PROVE FALSE
    BY DEF Keeps
  <2>1. d[n] = conns[n] /\ n \in DOMAIN conns
    BY <1>6, <1>7, <1>8 DEF Seated
  <2>2. PICK q \in slots[RoleAt(n)] : q.conn = n
    BY <2>1 DEF Keeps, Seated
  <2>3. n \in ConnId /\ RoleAt(n) \in Role
    BY <2>1, RoleIs DEF Sockets, Socket
  <2>4. RoleAt(n) \in active /\ ids[RoleAt(n)] = n
    <3>1. PICK x : slots[RoleAt(n)] = {x} /\ ids[RoleAt(n)] = x.conn
      BY <1>1, <2>3
    <3>2. q = x /\ n # NoConn
      BY <2>2, <2>3, <3>1, MeetBasics
    <3> QED BY <2>2, <2>3, <3>1, <3>2 DEF active, ActivePeers
  <2> QED BY <1>7, <2>1, <2>4 DEF Seated
<1>12. ASSUME NEW g \in Registry, g # registry, NEW role, NEW n
       PROVE  Seated(g, role, n, d) <=> Seated(g, role, n, conns)
  <2>1. n \in DOMAIN conns /\ conns[n].registry = g => d[n] = conns[n]
    BY <1>7, <1>8, <1>12
  <2>2. n \in DOMAIN conns => d[n].registry = conns[n].registry
    BY <1>9
  <2> QED BY <1>6, <2>1, <2>2 DEF Seated
<1>13. ASSUME NEW g \in Registry, NEW other, g # registry
       PROVE  /\ RoomFits(g, other, conns) => RoomFits(g, other, d)
              /\ Keeps(g, other, conns) => Keeps(g, other, d)
  BY <1>6, <1>12, <1>13 DEF RoomFits, Keeps
<1>14. \A r \in active : conns[ids[r]].result = << >>
  BY <1>3 DEF Seated
<1> QED BY <1>6, <1>9, <1>10, <1>11, <1>13, <1>14 DEF active, ids

\* A peer takes a slot that no one who waits has.
LEMMA SeatKeeps ==
    ASSUME NEW conns, Sockets(conns), NEW registry \in Registry, NEW role \in Role, NEW peer,
           NEW room, RoomFits(registry, room, conns),
           \A n \in DOMAIN conns : Seated(registry, RoleAt(n), n, conns) =>
               n = peer.conn \/ \E q \in room[RoleAt(n)] : q.conn = n,
           \A q \in room[role] : q.conn = NoConn,
           peer.cap \in Caps(registry),
           peer.conn = NoConn \/ Seated(registry, role, peer.conn, conns),
           NEW slots, slots = Seat(room, role, peer)
    PROVE  RoomFits(registry, slots, conns) /\ Keeps(registry, slots, conns) /\ slots[role] # {}
           /\ slots[Other(role)] = room[Other(role)]
<1>1. /\ DOMAIN slots = Role /\ slots[role] = {peer}
      /\ \A x \in Role : x # role => slots[x] = room[x]
  BY DEF RoomFits, Seat
<1>2. RoomFits(registry, slots, conns)
  <2>1. ASSUME NEW x \in Role
        PROVE  /\ slots[x] = {} \/ \E q : slots[x] = {q}
               /\ \A q \in slots[x] :
                    q.cap \in Caps(registry) /\ (q.conn = NoConn \/ Seated(registry, x, q.conn, conns))
    <3>1. CASE x = role
      BY <1>1, <3>1
    <3>2. CASE x # role
      <4>1. slots[x] = room[x]
        BY <1>1, <3>2
      <4> QED BY <4>1 DEF RoomFits
    <3> QED BY <3>1, <3>2
  <2> QED BY <1>1, <2>1 DEF RoomFits
<1>3. Keeps(registry, slots, conns)
  <2> SUFFICES ASSUME NEW n \in DOMAIN conns, Seated(registry, RoleAt(n), n, conns)
               PROVE  \E q \in slots[RoleAt(n)] : q.conn = n
    BY DEF Keeps
  <2>1. n \in ConnId /\ RoleAt(n) \in Role /\ n # NoConn
    BY RoleIs, MeetBasics DEF Sockets, Socket
  <2>2. CASE n = peer.conn
    BY <1>1, <2>1, <2>2 DEF Seated
  <2>3. CASE n # peer.conn
    BY <1>1, <2>1, <2>3
  <2> QED BY <2>2, <2>3
<1> QED BY <1>1, <1>2, <1>3, MeetBasics

\* The program at the WebSocket peer.conn, or one that is passive, takes a slot
\* that no one who waits has.
Enters(registry, lapsed, role, peer, before) ==
    /\ Sockets(before) /\ DOMAIN rooms = Registry
    /\ \A g \in Registry : RoomFits(g, rooms[g], before)
    /\ \A g \in Registry : \A n \in DOMAIN before : Seated(g, RoleAt(n), n, before) =>
          n = peer.conn \/ \E q \in rooms[g][RoleAt(n)] : q.conn = n
    /\ \A x \in Role : \A q \in rooms[registry][x] : q.conn = NoConn \/ q.conn # peer.conn
    /\ \A q \in Found(registry, lapsed)[role] : q.conn = NoConn
    /\ peer.cap \in Caps(registry)
    /\ peer.conn = NoConn \/ Seated(registry, role, peer.conn, before)
    /\ Enter(registry, lapsed, role, peer, before)

\* join: a peer takes its slot in a room that may have been expired for it.
Entering(registry, lapsed, role, peer, before, conns, slots) ==
    /\ conns = IF lapsed THEN Expire(before, rooms[registry]) ELSE before
    /\ slots = Seat(Found(registry, lapsed), role, peer)
    /\ rooms' = [rooms EXCEPT ![registry] = Remaining(slots)]
    /\ slots[Other(role)] = {} => conn' = conns /\ blocked' = blocked
    /\ slots[Other(role)] # {} =>
         /\ conn' = Completed(registry, slots, conns)
         /\ blocked' = (\E r \in ActivePeers(slots) : conns[PeerOf(slots)[r]].result # << >>)
    /\ Sockets(conns) /\ DOMAIN conns = DOMAIN before
    /\ \A n \in DOMAIN before : conns[n].registry = before[n].registry
    /\ RoomFits(registry, slots, conns) /\ Keeps(registry, slots, conns) /\ slots[role] # {}
    /\ \A g \in Registry : g # registry =>
          RoomFits(g, rooms[g], conns) /\ Keeps(g, rooms[g], conns)

LEMMA EnterIs ==
    ASSUME NEW registry \in Registry, NEW role \in Role, NEW lapsed \in BOOLEAN,
           NEW peer, NEW before, Enters(registry, lapsed, role, peer, before)
    PROVE  \E conns, slots : Entering(registry, lapsed, role, peer, before, conns, slots)
<1>0. /\ Sockets(before) /\ DOMAIN rooms = Registry
      /\ \A g \in Registry : RoomFits(g, rooms[g], before)
      /\ \A g \in Registry : \A n \in DOMAIN before : Seated(g, RoleAt(n), n, before) =>
            n = peer.conn \/ \E q \in rooms[g][RoleAt(n)] : q.conn = n
      /\ \A x \in Role : \A q \in rooms[registry][x] : q.conn = NoConn \/ q.conn # peer.conn
      /\ \A q \in Found(registry, lapsed)[role] : q.conn = NoConn
      /\ peer.cap \in Caps(registry)
      /\ peer.conn = NoConn \/ Seated(registry, role, peer.conn, before)
      /\ Enter(registry, lapsed, role, peer, before)
  BY DEF Enters
<1> DEFINE Conns == IF lapsed THEN Expire(before, rooms[registry]) ELSE before
           Slots == Seat(Found(registry, lapsed), role, peer)
<1>1. /\ rooms' = [rooms EXCEPT ![registry] = Remaining(Slots)]
      /\ Slots[Other(role)] = {} => conn' = Conns /\ blocked' = blocked
      /\ Slots[Other(role)] # {} =>
           /\ conn' = Completed(registry, Slots, Conns)
           /\ blocked' = (\E r \in ActivePeers(Slots) : Conns[PeerOf(Slots)[r]].result # << >>)
  BY <1>0 DEF Enter, Completed, ActivePeers, PeerOf, Seat
<1>2. PICK conns : conns = Conns
  OBVIOUS
<1>3. PICK slots : slots = Slots
  OBVIOUS
<1>4. /\ rooms' = [rooms EXCEPT ![registry] = Remaining(slots)]
      /\ slots[Other(role)] = {} => conn' = conns /\ blocked' = blocked
      /\ slots[Other(role)] # {} =>
           /\ conn' = Completed(registry, slots, conns)
           /\ blocked' = (\E r \in ActivePeers(slots) : conns[PeerOf(slots)[r]].result # << >>)
  <2> HIDE DEF Conns, Slots
  <2> QED BY <1>1, <1>2, <1>3
<1>5. PICK room : room = Found(registry, lapsed)
  OBVIOUS
<1>6. /\ Sockets(conns) /\ DOMAIN conns = DOMAIN before
      /\ \A n \in DOMAIN before : conns[n].registry = before[n].registry
      /\ RoomFits(registry, room, conns)
      /\ \A n \in DOMAIN conns : Seated(registry, RoleAt(n), n, conns) =>
               n = peer.conn \/ \E q \in room[RoleAt(n)] : q.conn = n
      /\ peer.conn = NoConn \/ Seated(registry, role, peer.conn, conns)
      /\ \A g \in Registry : g # registry =>
            RoomFits(g, rooms[g], conns) /\ Keeps(g, rooms[g], conns)
  <2>1. ASSUME NEW g \in Registry, g # registry PROVE Keeps(g, rooms[g], before)
    <3> SUFFICES ASSUME NEW n \in DOMAIN before, Seated(g, RoleAt(n), n, before)
                 PROVE  \E q \in rooms[g][RoleAt(n)] : q.conn = n
      BY DEF Keeps
    <3>1. n # NoConn
      BY <1>0, MeetBasics DEF Sockets, Socket
    <3>2. n # peer.conn
      BY <1>0, <2>1, <3>1 DEF Seated
    <3> QED BY <1>0, <3>2
  <2>2. CASE lapsed
    <3>1. conns = Expire(before, rooms[registry]) /\ room = NoRoom
      BY <1>2, <1>5, <2>2 DEF Found
    <3>2. /\ Sockets(conns) /\ DOMAIN conns = DOMAIN before
          /\ \A n \in DOMAIN before : conns[n] = before[n] \/
                \E x \in Role : \E q \in rooms[registry][x] : q.conn = n
          /\ \A n \in DOMAIN before : conns[n].registry = before[n].registry
                                      /\ (conns[n].result = << >> => conns[n] = before[n])
          /\ \A x \in Role : \A q \in rooms[registry][x] : q.conn \in DOMAIN conns => conns[q.conn].result # << >>
      BY <1>0, <3>1, ExpireIs
    <3>3. \A g \in Registry : g # registry =>
            RoomFits(g, rooms[g], conns) /\ Keeps(g, rooms[g], conns)
      BY <1>0, <2>1, <3>1, ExpireKeeps
    <3>4. RoomFits(registry, room, conns)
      BY <1>0, <3>1, ExpireKeeps
    <3>5. ASSUME NEW n \in DOMAIN conns, Seated(registry, RoleAt(n), n, conns) PROVE n = peer.conn
      <4>1. Seated(registry, RoleAt(n), n, before) /\ conns[n].result = << >>
        BY <1>0, <3>2, <3>5 DEF Seated
      <4>2. RoleAt(n) \in Role
        BY <3>2, RoleIs DEF Sockets, Socket
      <4> QED BY <1>0, <3>2, <4>1, <4>2
    <3>6. peer.conn = NoConn \/ Seated(registry, role, peer.conn, conns)
      <4> SUFFICES ASSUME peer.conn # NoConn PROVE Seated(registry, role, peer.conn, conns)
        OBVIOUS
      <4>1. Seated(registry, role, peer.conn, before) /\ peer.conn \in DOMAIN before
        BY <1>0 DEF Seated
      <4>2. conns[peer.conn] = before[peer.conn]
        BY <1>0, <3>2, <4>1
      <4>3. DOMAIN conns = DOMAIN before
        BY <3>2
      <4> QED BY <4>1, <4>2, <4>3 DEF Seated
    <3> QED BY <3>2, <3>3, <3>4, <3>5, <3>6
  <2>3. CASE ~lapsed
    <3>1. conns = before /\ room = rooms[registry]
      BY <1>2, <1>5, <2>3 DEF Found
    <3> QED BY <1>0, <2>1, <3>1
  <2> QED BY <2>2, <2>3
<1>7. /\ RoomFits(registry, slots, conns) /\ Keeps(registry, slots, conns) /\ slots[role] # {}
      /\ slots[Other(role)] = room[Other(role)]
  <2>1. slots = Seat(room, role, peer) /\ \A q \in room[role] : q.conn = NoConn
    BY <1>0, <1>3, <1>5
  <2> HIDE DEF Conns, Slots
  <2> QED BY <1>0, <1>6, <2>1, SeatKeeps
<1>8. conns = IF lapsed THEN Expire(before, rooms[registry]) ELSE before
  BY <1>2
<1>9. slots = Seat(Found(registry, lapsed), role, peer)
  BY <1>3
<1> HIDE DEF Conns, Slots
<1> QED BY <1>4, <1>6, <1>7, <1>8, <1>9 DEF Entering

\* join and complete, for an active and for a passive peer.
LEMMA EnterKeeps ==
    ASSUME serverRelay \in Relays \cup {NoRelay}, ~blocked,
           NEW registry \in Registry, NEW role \in Role, NEW lapsed \in BOOLEAN,
           NEW peer, NEW before, Enters(registry, lapsed, role, peer, before)
    PROVE  /\ SocketsInv' /\ RoomsInv' /\ ~blocked'
           /\ DOMAIN conn' = DOMAIN before
           /\ \A n \in DOMAIN before : conn'[n].registry = before[n].registry
<1>1. PICK conns, slots : Entering(registry, lapsed, role, peer, before, conns, slots)
  BY EnterIs
<1>2. /\ DOMAIN rooms = Registry /\ rooms' = [rooms EXCEPT ![registry] = Remaining(slots)]
      /\ slots[Other(role)] = {} => conn' = conns /\ blocked' = blocked
      /\ slots[Other(role)] # {} =>
           /\ conn' = Completed(registry, slots, conns)
           /\ blocked' = (\E r \in ActivePeers(slots) : conns[PeerOf(slots)[r]].result # << >>)
      /\ Sockets(conns) /\ DOMAIN conns = DOMAIN before
      /\ \A n \in DOMAIN before : conns[n].registry = before[n].registry
      /\ RoomFits(registry, slots, conns) /\ Keeps(registry, slots, conns) /\ slots[role] # {}
      /\ \A g \in Registry : g # registry =>
            RoomFits(g, rooms[g], conns) /\ Keeps(g, rooms[g], conns)
  BY <1>1 DEF Enters, Entering
<1>3. slots[role] # {} /\ DOMAIN slots = Role
  BY <1>2 DEF RoomFits
<1>7. PICK d : d = Completed(registry, slots, conns)
  OBVIOUS
<1>4. rooms'[registry] = Remaining(slots) /\ DOMAIN rooms' = Registry
      /\ \A g \in Registry : g # registry => rooms'[g] = rooms[g]
  BY <1>2
<1>5. CASE slots[Other(role)] = {}
  <2>1. Remaining(slots) = slots
    BY <1>5, MeetBasics DEF Remaining
  <2>2. conn' = conns /\ ~blocked'
    BY <1>2, <1>5
  <2> QED BY <1>2, <1>4, <2>1, <2>2 DEF RoomsInv, SocketsInv
<1>6. CASE slots[Other(role)] # {}
  <2>1. \A x \in Role : slots[x] # {}
    BY <1>3, <1>6, MeetBasics
  <2>2. Remaining(slots) = NoRoom
    BY <2>1 DEF Remaining
  <2>3. conn' = d /\ blocked' = (\E r \in ActivePeers(slots) : conns[PeerOf(slots)[r]].result # << >>)
    BY <1>2, <1>7, <1>6
  <2>4. /\ DOMAIN d = DOMAIN conns /\ Sockets(d) /\ \A n \in DOMAIN conns : d[n].registry = conns[n].registry
        /\ \A r \in ActivePeers(slots) : conns[PeerOf(slots)[r]].result = << >>
        /\ RoomFits(registry, NoRoom, d) /\ Keeps(registry, NoRoom, d)
        /\ \A g \in Registry : \A other :
             g # registry =>
                 /\ RoomFits(g, other, conns) => RoomFits(g, other, d)
                 /\ Keeps(g, other, conns) => Keeps(g, other, d)
    <3>1. Sockets(conns) /\ RoomFits(registry, slots, conns) /\ Keeps(registry, slots, conns)
      BY <1>2
    <3> QED BY <1>7, <2>1, <3>1, CompleteKeeps
  <2>5. \A g \in Registry : RoomFits(g, rooms'[g], d) /\ Keeps(g, rooms'[g], d)
    BY <1>2, <1>4, <2>2, <2>4
  <2>6. ~blocked'
    BY <2>3, <2>4
  <2> QED BY <1>2, <1>4, <2>3, <2>4, <2>5, <2>6 DEF RoomsInv, SocketsInv
<1> QED BY <1>5, <1>6

\* The WebSockets are those there were.
LEMMA MeetFrame ==
    ASSUME MeetInv, SocketsInv', RoomsInv', UNCHANGED <<setting, serverRelay>>,
           faults' \in 0..MaxFaults, ~blocked', ProgKeeps,
           DOMAIN conn' = DOMAIN conn, \A n \in DOMAIN conn : conn'[n].registry = conn[n].registry
    PROVE  MeetInv'
<1>1. SettingInv'
  BY DEF MeetInv, SettingInv
<1>2. NumberInv'
  BY DEF MeetInv, NumberInv
<1>3. ProgInv'
  <2>1. OneProg' = OneProg
    BY DEF OneProg, Pcs, Plans, Offers, Nexts, ConnId, NoConn, DirectCapability
  <2>2. ASSUME NEW p \in Programs, prog'[p].pc = "negotiating"
        PROVE  prog'[p].talk \in DOMAIN conn' /\ conn'[prog'[p].talk].registry = "negotiation"
    BY <2>2 DEF MeetInv, ProgInv, ProgKeeps
  <2>3. ASSUME NEW p \in Programs, prog'[p].pc = "exchanging" PROVE prog'[p].swap \in DOMAIN conn'
    BY <2>3 DEF MeetInv, ProgInv, ProgKeeps
  <2> QED BY <2>1, <2>2, <2>3 DEF ProgInv, ProgKeeps
<1> QED BY <1>1, <1>2, <1>3 DEF MeetInv

LEMMA SameProg == ASSUME MeetInv, prog' = prog PROVE ProgKeeps
BY DEF MeetInv, ProgInv, ProgKeeps

\* What one WebSocket does that is not in a room, or that changes nothing for its room.
LEMMA OneSocket ==
    ASSUME MeetInv, NEW n \in DOMAIN conn, rooms' = rooms,
           DOMAIN conn' = DOMAIN conn, \A m \in DOMAIN conn : m # n => conn'[m] = conn[m],
           Socket(n, conn'[n]), conn'[n].registry = conn[n].registry,
           \/ conn'[n].stage = conn[n].stage /\ conn'[n].result = conn[n].result
           \/ conn'[n].stage # "waiting" /\ (conn[n].stage # "waiting" \/ conn[n].result # << >>)
    PROVE  SocketsInv' /\ RoomsInv'
<1>1. Sockets(conn) /\ RoomsInv
  BY DEF MeetInv, SocketsInv
<1>2. SocketsInv'
  BY <1>1 DEF SocketsInv, Sockets
<1>3. \A g, role, m : Seated(g, role, m, conn)' <=> Seated(g, role, m, conn)
  <2> SUFFICES ASSUME NEW g, NEW role, NEW m
               PROVE  Seated(g, role, m, conn)' <=> Seated(g, role, m, conn)
    OBVIOUS
  <2>1. RoleAt(m)' = RoleAt(m)
    BY DEF RoleAt
  <2>2. CASE m = n
    BY <2>1, <2>2 DEF Seated
  <2>3. CASE m # n
    BY <2>1, <2>3 DEF Seated
  <2> QED BY <2>2, <2>3
<1>4. ASSUME NEW g \in Registry
      PROVE  RoomFits(g, rooms[g], conn)' /\ Keeps(g, rooms[g], conn)'
  <2>1. RoomFits(g, rooms[g], conn) /\ Keeps(g, rooms[g], conn)
    BY <1>1 DEF RoomsInv
  <2>2. RoomFits(g, rooms[g], conn)'
    BY <1>3, <2>1 DEF RoomFits
  <2>3. Keeps(g, rooms[g], conn)'
    BY <1>3, <2>1 DEF Keeps, RoleAt
  <2> QED BY <2>2, <2>3
<1> QED BY <1>1, <1>2, <1>4 DEF RoomsInv

LEMMA RoomFacts ==
    ASSUME MeetInv
    PROVE  /\ serverRelay \in Relays \cup {NoRelay} /\ setting \in [Programs -> Setting]
           /\ ~blocked /\ Sockets(conn) /\ DOMAIN rooms = Registry
           /\ prog \in [Programs -> OneProg] /\ faults \in 0..MaxFaults
           /\ \A g \in Registry : RoomFits(g, rooms[g], conn) /\ Keeps(g, rooms[g], conn)
           /\ \A g \in Registry, role \in Role : \A q \in rooms[g][role] :
                q.conn = NoConn \/ Seated(g, role, q.conn, conn)
<1>1. <<setting, serverRelay>> \in [Programs -> Setting] \X (Relays \cup {NoRelay})
  BY Deployed DEF MeetInv, SettingInv
<1> QED BY <1>1 DEF MeetInv, SettingInv, SocketsInv, RoomsInv, ProgInv, RoomFits

(***************************************************************************)
(* The handlers of the registries.                                          *)
(***************************************************************************)

\* A second active peer is refused, every other one takes its slot.
Refused(n) ==
    /\ conn' = [conn EXCEPT ![n].stage = "closed", ![n].sent = << >>,
                            ![n].reply = IF conn[n].up THEN <<Failure>> ELSE @]
    /\ UNCHANGED <<rooms, blocked>>
Seats(n, lapsed, peer, before) ==
    /\ peer = Peer(n, conn[n].sent[1])
    /\ before = [conn EXCEPT ![n].stage = "waiting", ![n].sent = << >>]
    /\ Enters(conn[n].registry, lapsed, RoleAt(n), peer, before)

LEMMA JoinSeats ==
    ASSUME MeetInv, NEW n \in DOMAIN conn, Join(n)
    PROVE  /\ conn[n].registry \in Registry /\ RoleAt(n) \in Role
           /\ Refused(n) \/ \E lapsed \in BOOLEAN : \E peer, before : Seats(n, lapsed, peer, before)
<1> DEFINE registry == conn[n].registry
           role == RoleAt(n)
<1>1. /\ ~blocked /\ conn[n].stage = "sent" /\ UNCHANGED <<setting, serverRelay, prog, faults>>
  BY DEF Join
<1>2. Sockets(conn) /\ Socket(n, conn[n]) /\ registry \in Registry /\ role \in Role /\ n \in ConnId
  BY RoomFacts, RoleIs DEF Sockets, Socket
<1>3. PICK lapsed \in BOOLEAN :
        IF \E peer \in Found(registry, lapsed)[role] : peer.conn # NoConn
        THEN /\ conn' = [conn EXCEPT ![n].stage = "closed", ![n].sent = << >>,
                                     ![n].reply = IF conn[n].up THEN <<Failure>> ELSE @]
             /\ UNCHANGED <<rooms, blocked>>
        ELSE Enter(registry, lapsed, role, Peer(n, conn[n].sent[1]),
                     [conn EXCEPT ![n].stage = "waiting", ![n].sent = << >>])
  BY DEF Join, CanLapse
<1> HIDE DEF registry, role
<1>4. CASE \E peer \in Found(registry, lapsed)[role] : peer.conn # NoConn
  <2>1. Refused(n)
    BY <1>3, <1>4 DEF Refused
  <2> QED BY <1>2, <2>1 DEF registry, role
<1>5. CASE ~\E peer \in Found(registry, lapsed)[role] : peer.conn # NoConn
  <2>1. PICK before : before = [conn EXCEPT ![n].stage = "waiting", ![n].sent = << >>]
    OBVIOUS
  <2>2. PICK peer : peer = Peer(n, conn[n].sent[1])
    OBVIOUS
  <2>3. Enter(registry, lapsed, role, peer, before)
    BY <1>3, <1>5, <2>1, <2>2
  <2>4. /\ DOMAIN before = DOMAIN conn /\ \A m \in DOMAIN conn : m # n => before[m] = conn[m]
        /\ DOMAIN before[n] = SocketFields /\ before[n].stage = "waiting" /\ before[n].sent = << >>
        /\ before[n].reply = conn[n].reply /\ before[n].result = conn[n].result
        /\ before[n].registry = conn[n].registry /\ before[n].mate = conn[n].mate
    BY <1>2, <2>1 DEF Socket, SocketFields
  <2>5. Sockets(before) /\ before[n].result = << >>
    BY <1>1, <1>2, <2>4 DEF Sockets, Socket
  <2>6. peer.conn = n /\ peer.cap \in Caps(registry)
    BY <1>1, <1>2, <2>2 DEF Peer, Socket, registry
  <2>7. ASSUME NEW g, NEW x, NEW m, Seated(g, x, m, conn) PROVE m # n /\ Seated(g, x, m, before)
    BY <1>1, <2>4, <2>7 DEF Seated
  <2>8. ASSUME NEW g, NEW m, Seated(g, RoleAt(m), m, before), m # n PROVE Seated(g, RoleAt(m), m, conn)
    BY <2>4, <2>8 DEF Seated
  <2>9. \A g \in Registry : RoomFits(g, rooms[g], before)
    BY <2>7, RoomFacts DEF RoomFits
  <2>10. \A g \in Registry : \A m \in DOMAIN before : Seated(g, RoleAt(m), m, before) =>
               m = peer.conn \/ \E q \in rooms[g][RoleAt(m)] : q.conn = m
    BY <2>4, <2>6, <2>8, RoomFacts DEF Keeps
  <2>11. \A x \in Role : \A q \in rooms[registry][x] : q.conn = NoConn \/ q.conn # peer.conn
    BY <1>2, <2>6, <2>7, RoomFacts
  <2>12. Seated(registry, role, peer.conn, before)
    BY <2>4, <2>5, <2>6 DEF Seated, registry, role
  <2>13. \A q \in Found(registry, lapsed)[role] : q.conn = NoConn
    BY <1>5
  <2>14. Enters(registry, lapsed, role, peer, before)
    BY <2>3, <2>5, <2>6, <2>9, <2>10, <2>11, <2>12, <2>13, RoomFacts DEF Enters
  <2>15. Seats(n, lapsed, peer, before)
    BY <2>1, <2>2, <2>14 DEF Seats, registry, role
  <2> QED BY <1>2, <2>15 DEF registry, role
<1> QED BY <1>4, <1>5

LEMMA JoinM == ASSUME MeetInv, NEW n \in DOMAIN conn, Join(n) PROVE MeetInv'
<1>1. /\ ~blocked /\ conn[n].stage = "sent" /\ UNCHANGED <<setting, serverRelay, prog, faults>>
  BY DEF Join
<1>2. Socket(n, conn[n])
  BY RoomFacts DEF Sockets
<1>3. CASE Refused(n)
  <2>1. /\ conn' = [conn EXCEPT ![n].stage = "closed", ![n].sent = << >>,
                               ![n].reply = IF conn[n].up THEN <<Failure>> ELSE @]
        /\ UNCHANGED <<rooms, blocked>>
    BY <1>3 DEF Refused
  <2>2. /\ DOMAIN conn' = DOMAIN conn /\ \A m \in DOMAIN conn : m # n => conn'[m] = conn[m]
        /\ DOMAIN conn'[n] = SocketFields /\ conn'[n].stage = "closed" /\ conn'[n].sent = << >>
        /\ conn'[n].reply \in {conn[n].reply, <<Failure>>} /\ conn'[n].result = conn[n].result
        /\ conn'[n].registry = conn[n].registry /\ conn'[n].mate = conn[n].mate
    BY <1>2, <2>1 DEF Socket, SocketFields
  <2>3. Few(conn[n].registry, <<Failure>>)
    BY DEF Few, Told
  <2>4. Socket(n, conn'[n])
    BY <1>2, <2>2, <2>3 DEF Socket
  <2>5. SocketsInv' /\ RoomsInv'
    BY <1>1, <2>1, <2>2, <2>4, OneSocket
  <2> QED BY <1>1, <2>1, <2>2, <2>5, RoomFacts, SameProg, MeetFrame
<1>4. ASSUME NEW lapsed \in BOOLEAN, NEW peer, NEW before, Seats(n, lapsed, peer, before) PROVE MeetInv'
  <2>0. PICK registry \in Registry, role \in Role : registry = conn[n].registry /\ role = RoleAt(n)
    BY JoinSeats
  <2>1. Enters(registry, lapsed, role, peer, before)
    BY <1>4, <2>0 DEF Seats
  <2>2. ~blocked /\ serverRelay \in Relays \cup {NoRelay}
    BY RoomFacts
  <2>3. /\ SocketsInv' /\ RoomsInv' /\ ~blocked' /\ DOMAIN conn' = DOMAIN before
        /\ \A m \in DOMAIN before : conn'[m].registry = before[m].registry
    BY <2>1, <2>2, EnterKeeps
  <2>4. DOMAIN before = DOMAIN conn /\ \A m \in DOMAIN conn : before[m].registry = conn[m].registry
    BY <1>2, <1>4 DEF Seats, Socket, SocketFields
  <2> QED BY <1>1, <2>3, <2>4, RoomFacts, SameProg, MeetFrame
<1> QED BY <1>3, <1>4, JoinSeats

LEMMA DropM == ASSUME MeetInv, NEW n \in DOMAIN conn, Drop(n) PROVE MeetInv'
<1>1. /\ conn[n].stage = "sent" /\ conn' = [conn EXCEPT ![n].stage = "closed", ![n].sent = << >>]
      /\ UNCHANGED <<setting, serverRelay, prog, rooms, blocked, faults>>
  BY DEF Drop
<1>2. Socket(n, conn[n])
  BY RoomFacts DEF Sockets
<1>3. /\ DOMAIN conn' = DOMAIN conn /\ \A m \in DOMAIN conn : m # n => conn'[m] = conn[m]
      /\ DOMAIN conn'[n] = SocketFields /\ conn'[n].stage = "closed" /\ conn'[n].sent = << >>
      /\ conn'[n].reply = conn[n].reply /\ conn'[n].result = conn[n].result
      /\ conn'[n].registry = conn[n].registry /\ conn'[n].mate = conn[n].mate
  BY <1>1, <1>2 DEF Socket, SocketFields
<1>4. Socket(n, conn'[n])
  BY <1>2, <1>3 DEF Socket
<1>5. SocketsInv' /\ RoomsInv'
  BY <1>1, <1>3, <1>4, OneSocket
<1> QED BY <1>1, <1>3, <1>5, RoomFacts, SameProg, MeetFrame

LEMMA AnswerM == ASSUME MeetInv, NEW n \in DOMAIN conn, Answer(n) PROVE MeetInv'
<1>1. /\ conn[n].stage = "waiting" /\ conn[n].result # << >>
      /\ conn' = [conn EXCEPT ![n].stage = "leaving", ![n].result = Tail(@),
                            ![n].reply = IF conn[n].up THEN <<Head(conn[n].result)>> ELSE @]
      /\ UNCHANGED <<setting, serverRelay, prog, rooms, blocked, faults>>
  BY DEF Answer
<1>2. Socket(n, conn[n])
  BY RoomFacts DEF Sockets
<1>3. PICK a : conn[n].result = <<a>> /\ Told(conn[n].registry, a)
  BY <1>1, <1>2 DEF Socket, Few
<1>4. Head(conn[n].result) = a /\ Tail(conn[n].result) = << >>
  BY <1>3, OneOf
<1>5. /\ DOMAIN conn' = DOMAIN conn /\ \A m \in DOMAIN conn : m # n => conn'[m] = conn[m]
      /\ DOMAIN conn'[n] = SocketFields /\ conn'[n].stage = "leaving" /\ conn'[n].sent = conn[n].sent
      /\ conn'[n].reply \in {conn[n].reply, <<a>>} /\ conn'[n].result = << >>
      /\ conn'[n].registry = conn[n].registry /\ conn'[n].mate = conn[n].mate
  BY <1>1, <1>2, <1>4 DEF Socket, SocketFields
<1>6. Few(conn[n].registry, <<a>>) /\ Few(conn[n].registry, << >>)
  BY <1>3 DEF Few
<1>7. Socket(n, conn'[n])
  BY <1>2, <1>5, <1>6 DEF Socket
<1>8. SocketsInv' /\ RoomsInv'
  BY <1>1, <1>5, <1>7, OneSocket
<1> QED BY <1>1, <1>5, <1>8, RoomFacts, SameProg, MeetFrame

LEMMA LeaveM == ASSUME MeetInv, NEW n \in DOMAIN conn, Leave(n) PROVE MeetInv'
<1> DEFINE g == conn[n].registry
           role == RoleAt(n)
<1>1. /\ conn[n].stage = "leaving" \/ conn[n].stage = "waiting"
      /\ rooms' = [rooms EXCEPT ![g] = Left(rooms[g], role, n)]
      /\ conn' = [conn EXCEPT ![n].stage = "closed", ![n].result = << >>]
      /\ UNCHANGED <<setting, serverRelay, prog, blocked, faults>>
  BY DEF Leave
<1>2. Socket(n, conn[n]) /\ g \in Registry /\ role \in Role /\ n \in ConnId /\ n # NoConn
  BY RoomFacts, RoleIs, MeetBasics DEF Sockets, Socket
<1>3. /\ DOMAIN conn' = DOMAIN conn /\ \A m \in DOMAIN conn : m # n => conn'[m] = conn[m]
      /\ DOMAIN conn'[n] = SocketFields /\ conn'[n].stage = "closed" /\ conn'[n].sent = conn[n].sent
      /\ conn'[n].reply = conn[n].reply /\ conn'[n].result = << >>
      /\ conn'[n].registry = conn[n].registry /\ conn'[n].mate = conn[n].mate
  BY <1>1, <1>2 DEF Socket, SocketFields
<1>4. Socket(n, conn'[n])
  BY <1>2, <1>3 DEF Socket, Few
<1>5. SocketsInv'
  BY <1>3, <1>4, RoomFacts DEF SocketsInv, Sockets
<1>6. PICK room : room = Left(rooms[g], role, n)
  OBVIOUS
<1>7. /\ DOMAIN rooms' = Registry /\ rooms'[g] = room
      /\ \A h \in Registry : h # g => rooms'[h] = rooms[h]
  BY <1>1, <1>2, <1>6, RoomFacts
<1>8. DOMAIN rooms[g] = Role
  BY <1>2, RoomFacts DEF RoomFits
<1>9. /\ DOMAIN room = Role /\ room[role] = {q \in rooms[g][role] : q.conn # n}
      /\ \A x \in Role : x # role => room[x] = rooms[g][x]
  BY <1>2, <1>6, <1>8 DEF Left
<1> HIDE DEF g, role
<1>10. \A h, x, m : m # n => (Seated(h, x, m, conn)' <=> Seated(h, x, m, conn))
  <2> SUFFICES ASSUME NEW h, NEW x, NEW m, m # n
               PROVE  Seated(h, x, m, conn)' <=> Seated(h, x, m, conn)
    OBVIOUS
  <2>1. RoleAt(m)' = RoleAt(m)
    BY DEF RoleAt
  <2> QED BY <1>3, <2>1 DEF Seated
<1>11. \A h, x : ~Seated(h, x, n, conn)'
  BY <1>3 DEF Seated
<1>12. ASSUME NEW h \in Registry, NEW x \in Role
       PROVE  /\ rooms'[h][x] \subseteq rooms[h][x]
              /\ \A q \in rooms'[h][x] : q.conn = NoConn \/ q.conn # n
              /\ \A q \in rooms[h][x] : q.conn # n => q \in rooms'[h][x]
  <2>1. CASE h = g /\ x = role
    BY <1>7, <1>9, <2>1
  <2>2. CASE ~(h = g /\ x = role)
    <3>1. rooms'[h][x] = rooms[h][x]
      BY <1>7, <1>9, <2>2
    <3>2. ASSUME NEW q \in rooms[h][x], q.conn # NoConn PROVE q.conn # n
      <4>1. Seated(h, x, q.conn, conn)
        BY <3>2, RoomFacts
      <4> QED BY <2>2, <4>1 DEF Seated, g, role
    <3> QED BY <3>1, <3>2
  <2> QED BY <2>1, <2>2
<1>13. ASSUME NEW h \in Registry PROVE RoomFits(h, rooms[h], conn)'
  <2>1. RoomFits(h, rooms[h], conn)
    BY RoomFacts
  <2>2. DOMAIN rooms'[h] = Role
    BY <1>7, <1>9, <2>1 DEF RoomFits
  <2>3. ASSUME NEW x \in Role
        PROVE  /\ rooms'[h][x] = {} \/ \E peer : rooms'[h][x] = {peer}
               /\ \A peer \in rooms'[h][x] :
                    peer.cap \in Caps(h) /\ (peer.conn = NoConn \/ Seated(h, x, peer.conn, conn)')
    <3>1. rooms[h][x] = {} \/ \E peer : rooms[h][x] = {peer}
      BY <2>1 DEF RoomFits
    <3>2. rooms'[h][x] = {} \/ \E peer : rooms'[h][x] = {peer}
      <4>1. rooms'[h][x] \subseteq rooms[h][x]
        BY <1>12
      <4>2. \A S, T : S \subseteq T /\ (T = {} \/ \E peer : T = {peer}) => S = {} \/ \E peer : S = {peer}
        OBVIOUS
      <4> QED BY <3>1, <4>1, <4>2
    <3>3. \A peer \in rooms[h][x] : peer.cap \in Caps(h) /\ (peer.conn = NoConn \/ Seated(h, x, peer.conn, conn))
      BY <2>1 DEF RoomFits
    <3> QED BY <1>10, <1>12, <3>2, <3>3
  <2>4. Caps(h)' = Caps(h) /\ Role' = Role /\ NoConn' = NoConn
    BY DEF Caps, NegotiationCapability, DirectCapability, Role, NoConn
  <2> QED BY <2>2, <2>3, <2>4 DEF RoomFits
<1>14. ASSUME NEW h \in Registry PROVE Keeps(h, rooms[h], conn)'
  <2> SUFFICES ASSUME NEW m \in DOMAIN conn', Seated(h, RoleAt(m), m, conn)'
               PROVE  \E q \in rooms'[h][RoleAt(m)] : q.conn = m
    BY DEF Keeps, RoleAt
  <2>1. m # n /\ Seated(h, RoleAt(m), m, conn)
    BY <1>10, <1>11
  <2>2. RoleAt(m) \in Role
    BY <1>3, RoomFacts, RoleIs DEF Sockets, Socket
  <2>3. PICK q \in rooms[h][RoleAt(m)] : q.conn = m
    BY <1>3, <2>1, RoomFacts DEF Keeps
  <2> QED BY <1>12, <2>1, <2>2, <2>3
<1>15. RoomsInv'
  BY <1>7, <1>13, <1>14 DEF RoomsInv, Registry
<1> QED BY <1>1, <1>3, <1>5, <1>15, RoomFacts, SameProg, MeetFrame

\* A registry is or is not cleaned up; the two do not share WebSockets.
LEMMA CleanupM == ASSUME MeetInv, NEW lapsed \in SUBSET Registry, Cleanup(lapsed) PROVE MeetInv'
<1>1. /\ rooms' = [g \in Registry |-> Found(g, g \in lapsed)]
      /\ conn' = [n \in DOMAIN conn |->
                   IF conn[n].registry \in lapsed THEN Expire(conn, rooms[conn[n].registry])[n] ELSE conn[n]]
      /\ UNCHANGED <<setting, serverRelay, prog, blocked, faults>>
  BY DEF Cleanup
<1>2. PICK d : d = [g \in Registry |-> Expire(conn, rooms[g])]
  OBVIOUS
<1>3. \A n \in DOMAIN conn : conn[n].registry \in Registry
  BY RoomFacts DEF Sockets, Socket
<1>4. ASSUME NEW n \in DOMAIN conn
      PROVE  conn'[n] = IF conn[n].registry \in lapsed THEN d[conn[n].registry][n] ELSE conn[n]
  BY <1>1, <1>2, <1>3
<1>5. DOMAIN conn' = DOMAIN conn /\ DOMAIN rooms' = Registry
      /\ \A g \in Registry : rooms'[g] = IF g \in lapsed THEN NoRoom ELSE rooms[g]
  BY <1>1 DEF Found
<1>6. ASSUME NEW g \in Registry
      PROVE  /\ DOMAIN d[g] = DOMAIN conn /\ Sockets(d[g])
             /\ \A n \in DOMAIN conn : d[g][n].registry = conn[n].registry
             /\ RoomFits(g, NoRoom, d[g]) /\ Keeps(g, NoRoom, d[g])
  <2>1. d[g] = Expire(conn, rooms[g])
    BY <1>2
  <2> QED BY <2>1, RoomFacts, ExpireIs, ExpireKeeps
<1>7. Sockets(conn)'
  <2>1. \A n \in DOMAIN conn : Socket(n, conn'[n])
    BY <1>3, <1>4, <1>6, RoomFacts DEF Sockets
  <2> QED BY <1>5, <2>1 DEF Sockets
<1>8. \A n \in DOMAIN conn : conn'[n].registry = conn[n].registry
  BY <1>3, <1>4, <1>6
<1>9. ASSUME NEW g \in Registry, NEW x, NEW n
      PROVE  /\ g \in lapsed => (Seated(g, x, n, conn)' <=> Seated(g, x, n, d[g]))
             /\ g \notin lapsed => (Seated(g, x, n, conn)' <=> Seated(g, x, n, conn))
  <2>1. RoleAt(n)' = RoleAt(n)
    BY DEF RoleAt
  <2>2. n \in DOMAIN conn /\ conn[n].registry = g /\ g \in lapsed => conn'[n] = d[g][n]
    BY <1>4
  <2>3. n \in DOMAIN conn /\ conn[n].registry = g /\ g \notin lapsed => conn'[n] = conn[n]
    BY <1>4
  <2>4. n \in DOMAIN conn => conn'[n].registry = conn[n].registry /\ d[g][n].registry = conn[n].registry
    BY <1>6, <1>8
  <2>5. DOMAIN d[g] = DOMAIN conn
    BY <1>6
  <2> QED BY <1>5, <2>1, <2>2, <2>3, <2>4, <2>5 DEF Seated
<1>10. ASSUME NEW g \in Registry PROVE RoomFits(g, rooms[g], conn)' /\ Keeps(g, rooms[g], conn)'
  <2>0. Caps(g)' = Caps(g) /\ Role' = Role /\ NoConn' = NoConn
    BY DEF Caps, NegotiationCapability, DirectCapability, Role, NoConn
  <2>1. \A n : RoleAt(n)' = RoleAt(n)
    BY DEF RoleAt
  <2>2. CASE g \in lapsed
    <3>1. RoomFits(g, NoRoom, d[g]) /\ Keeps(g, NoRoom, d[g]) /\ rooms'[g] = NoRoom /\ DOMAIN d[g] = DOMAIN conn
      BY <1>5, <1>6, <2>2
    <3>2. \A x, n : Seated(g, x, n, conn)' <=> Seated(g, x, n, d[g])
      BY <1>9, <2>2
    <3>3. RoomFits(g, rooms[g], conn)'
      BY <2>0, <3>1, <3>2 DEF RoomFits
    <3>4. Keeps(g, rooms[g], conn)'
      BY <1>5, <2>1, <3>1, <3>2 DEF Keeps
    <3> QED BY <3>3, <3>4
  <2>3. CASE g \notin lapsed
    <3>1. RoomFits(g, rooms[g], conn) /\ Keeps(g, rooms[g], conn) /\ rooms'[g] = rooms[g]
      BY <1>5, <2>3, RoomFacts
    <3>2. \A x, n : Seated(g, x, n, conn)' <=> Seated(g, x, n, conn)
      BY <1>9, <2>3
    <3>3. RoomFits(g, rooms[g], conn)'
      BY <2>0, <3>1, <3>2 DEF RoomFits
    <3>4. Keeps(g, rooms[g], conn)'
      BY <1>5, <2>1, <3>1, <3>2 DEF Keeps
    <3> QED BY <3>3, <3>4
  <2> QED BY <2>2, <2>3
<1>11. RoomsInv' /\ SocketsInv'
  BY <1>5, <1>7, <1>10 DEF RoomsInv, SocketsInv, Registry
<1> QED BY <1>1, <1>5, <1>8, <1>11, RoomFacts, SameProg, MeetFrame

(***************************************************************************)
(* The programs.                                                            *)
(***************************************************************************)

\* What stays when a program closes its end or the WebSocket breaks: the
\* handler is where it was.
LEMMA HangupKeeps ==
    ASSUME MeetInv, NEW n, n = NoConn \/ n \in DOMAIN conn, conn' = Hangup(n), rooms' = rooms
    PROVE  /\ SocketsInv' /\ RoomsInv' /\ DOMAIN conn' = DOMAIN conn
           /\ \A m \in DOMAIN conn : conn'[m].registry = conn[m].registry
<1>1. CASE n = NoConn
  <2>1. conn' = conn
    BY <1>1 DEF Hangup
  <2>2. SocketsInv' /\ RoomsInv'
    <3>1. SocketsInv'
      BY <2>1, RoomFacts DEF SocketsInv, Sockets
    <3>2. ASSUME NEW g \in Registry PROVE RoomFits(g, rooms[g], conn)' /\ Keeps(g, rooms[g], conn)'
      <4>1. RoomFits(g, rooms[g], conn) /\ Keeps(g, rooms[g], conn)
        BY RoomFacts
      <4>2. \A role, m : Seated(g, role, m, conn)' <=> Seated(g, role, m, conn)
        BY <2>1 DEF Seated, RoleAt
      <4>3. Caps(g)' = Caps(g) /\ Role' = Role /\ NoConn' = NoConn
        BY DEF Caps, NegotiationCapability, DirectCapability, Role, NoConn
      <4>4. \A m : RoleAt(m)' = RoleAt(m)
        BY DEF RoleAt
      <4>5. RoomFits(g, rooms[g], conn)'
        BY <4>1, <4>2, <4>3 DEF RoomFits
      <4>6. Keeps(g, rooms[g], conn)'
        BY <2>1, <4>1, <4>2, <4>4 DEF Keeps
      <4> QED BY <4>5, <4>6
    <3> QED BY <3>1, <3>2, RoomFacts DEF RoomsInv, Registry
  <2> QED BY <2>1, <2>2
<1>2. CASE n # NoConn
  <2>1. n \in DOMAIN conn /\ conn' = [conn EXCEPT ![n].up = FALSE, ![n].reply = << >>]
    BY <1>2 DEF Hangup
  <2>2. Socket(n, conn[n])
    BY <2>1, RoomFacts DEF Sockets
  <2>3. /\ DOMAIN conn' = DOMAIN conn /\ \A m \in DOMAIN conn : m # n => conn'[m] = conn[m]
        /\ DOMAIN conn'[n] = SocketFields /\ conn'[n].stage = conn[n].stage /\ conn'[n].sent = conn[n].sent
        /\ conn'[n].reply = << >> /\ conn'[n].result = conn[n].result
        /\ conn'[n].registry = conn[n].registry /\ conn'[n].mate = conn[n].mate
    BY <2>1, <2>2 DEF Socket, SocketFields
  <2>4. Socket(n, conn'[n])
    BY <2>2, <2>3 DEF Socket, Few
  <2> QED BY <2>1, <2>3, <2>4, OneSocket
<1> QED BY <1>1, <1>2

\* A program changes its place, not to wait: the others stay.
Moves(p) ==
    /\ \E x \in OneProg : prog' = [prog EXCEPT ![p] = x]
    /\ prog'[p].pc \notin {"negotiating", "exchanging"}
    /\ prog'[p].pc = "direct" => prog'[p].next # "none"

LEMMA MovesKeeps == ASSUME MeetInv, NEW p \in Programs, Moves(p) PROVE ProgKeeps
<1>1. prog \in [Programs -> OneProg] /\ \A q \in Programs : prog[q].pc = "direct" => prog[q].next # "none"
  BY DEF MeetInv, ProgInv
<1>2. PICK x \in OneProg : prog' = [prog EXCEPT ![p] = x]
  BY DEF Moves
<1> QED BY <1>1, <1>2 DEF Moves, ProgKeeps

LEMMA GotoMoves ==
    ASSUME MeetInv, NEW p \in Programs, NEW place \in Pcs \ {"negotiating", "exchanging", "direct"}, prog' = Goto(p, place)
    PROVE  Moves(p)
<1>1. prog \in [Programs -> OneProg]
  BY RoomFacts
<1>2. [prog[p] EXCEPT !.pc = place] \in OneProg
  BY <1>1 DEF OneProg
<1>3. prog' = [prog EXCEPT ![p] = [prog[p] EXCEPT !.pc = place]]
  BY DEF Goto
<1>4. prog'[p].pc = place
  BY <1>1, <1>3 DEF OneProg
<1> QED BY <1>2, <1>3, <1>4 DEF Moves

LEMMA PlannedMoves ==
    ASSUME MeetInv, NEW p \in Programs, NEW plan \in Plans, NEW heard \in BOOLEAN,
           prog' = Planned(p, plan, heard)
    PROVE  Moves(p)
<1>1. prog \in [Programs -> OneProg]
  BY RoomFacts
<1>2. Dialer(p, plan) \in Pcs \ {"negotiating", "exchanging", "direct"}
  BY DEF Dialer, Pcs
<1>3. PICK place \in Pcs \ {"negotiating", "exchanging", "direct"} : place = Dialer(p, plan)
  BY <1>2
<1>4. [prog[p] EXCEPT !.pc = place, !.plan = plan, !.heard = heard] \in OneProg
  BY <1>1 DEF OneProg
<1>5. prog' = [prog EXCEPT ![p] = [prog[p] EXCEPT !.pc = place, !.plan = plan, !.heard = heard]]
  BY <1>1, <1>3 DEF Planned, OneProg
<1>6. prog'[p].pc = place
  BY <1>1, <1>5 DEF OneProg
<1> QED BY <1>4, <1>5, <1>6 DEF Moves

LEMMA FallbackMoves ==
    ASSUME MeetInv, NEW p \in Programs, NEW place \in {"relay", "signaling", "failed"},
           prog' = Fallback(p, place)
    PROVE  Moves(p)
<1>1. prog \in [Programs -> OneProg]
  BY RoomFacts
<1>2. PICK plan \in Plans : plan = IF place = "signaling" THEN WebRTCPlan ELSE prog[p].plan
  <2>1. WebRTCPlan \in Plans /\ prog[p].plan \in Plans
    BY <1>1 DEF OneProg, Plans, WebRTCPlan, Plan
  <2> QED BY <2>1
<1>3. [prog[p] EXCEPT !.pc = place, !.plan = plan, !.offer = << >>, !.next = "none"] \in OneProg
  <2>1. place \in Pcs /\ << >> \in Offers /\ "none" \in Nexts
    BY DEF Pcs, Offers, Nexts
  <2> QED BY <1>1, <2>1 DEF OneProg
<1>4. prog' = [prog EXCEPT ![p] = [prog[p] EXCEPT !.pc = place, !.plan = plan, !.offer = << >>, !.next = "none"]]
  BY <1>1, <1>2 DEF Fallback, OneProg
<1>5. prog'[p].pc = place
  BY <1>1, <1>4 DEF OneProg
<1> QED BY <1>3, <1>4, <1>5 DEF Moves

LEMMA AfterDirectIs == \A p, useRelay : AfterDirect(p, useRelay) \in {"relay", "signaling", "failed"}
BY DEF AfterDirect

\* The next WebSocket of a program has the next number.
LEMMA NewNumber ==
    ASSUME MeetInv, NEW p \in Programs
    PROVE  \E k \in Nat : NewConn(p) = <<p, k + 1>> /\ \A j : <<p, j>> \in DOMAIN conn <=> j \in 1..k
<1>1. PICK k \in Nat : \A j : <<p, j>> \in DOMAIN conn <=> j \in 1..k
  BY DEF MeetInv, NumberInv
<1> DEFINE S == {n \in DOMAIN conn : n[1] = p}
           f == [j \in 1..k |-> <<p, j>>]
<1>2. \A n \in DOMAIN conn : n = <<n[1], n[2]>>
  BY RoomFacts DEF Sockets, Socket, ConnId
<1>3. f \in [1..k -> S] /\ \A a, b \in DOMAIN f : f[a] = f[b] => a = b
  BY <1>1
<1>4. \A n \in S : \E j \in 1..k : f[j] = n
  <2> SUFFICES ASSUME NEW n \in S PROVE \E j \in 1..k : f[j] = n
    OBVIOUS
  <2>1. n = <<p, n[2]>> /\ n \in DOMAIN conn
    BY <1>2
  <2>2. n[2] \in 1..k
    BY <1>1, <2>1
  <2> QED BY <2>1, <2>2
<1>5. ExistsBijection(1..k, S)
  <2> HIDE DEF S, f
  <2>1. f \in Injection(1..k, S)
    BY <1>3 DEF Injection, IsInjective
  <2>2. f \in Surjection(1..k, S)
    BY <1>3, <1>4 DEF Surjection
  <2> QED BY <2>1, <2>2 DEF ExistsBijection, Bijection
<1>6. Cardinality(S) = k
  <2> HIDE DEF S
  <2> QED BY <1>5, FS_CountingElements
<1>7. NewConn(p) = <<p, 1 + k>>
  <2>1. NewConn(p) = <<p, 1 + Cardinality(S)>>
    BY DEF NewConn
  <2> HIDE DEF S
  <2> QED BY <1>6, <2>1
<1>8. 1 + k = k + 1
  OBVIOUS
<1> QED BY <1>1, <1>7, <1>8

\* A program opens a WebSocket and sends its capability.
LEMMA OpenedKeeps ==
    ASSUME MeetInv, NEW p \in Programs, NEW g \in Registry, NEW cap \in Caps(g),
           NEW n, n = NewConn(p), n \in ConnId, conn' = Opened(n, g, cap),
           UNCHANGED <<setting, serverRelay, rooms, blocked>>, faults' \in 0..MaxFaults,
           prog' \in [Programs -> OneProg],
           \A q \in Programs :
             /\ prog'[q].pc = "negotiating" =>
                  \/ prog'[q].talk = n /\ g = "negotiation"
                  \/ prog[q].pc = "negotiating" /\ prog'[q].talk = prog[q].talk
             /\ prog'[q].pc = "exchanging" =>
                  prog'[q].swap = n \/ (prog[q].pc = "exchanging" /\ prog'[q].swap = prog[q].swap)
             /\ prog'[q].pc = "direct" => prog'[q].next # "none"
    PROVE  MeetInv'
<1>1. PICK k \in Nat : n = <<p, k + 1>> /\ \A j : <<p, j>> \in DOMAIN conn <=> j \in 1..k
  BY NewNumber
<1>2. n \notin DOMAIN conn
  BY <1>1
<1>3. /\ DOMAIN conn' = DOMAIN conn \cup {n} /\ \A m \in DOMAIN conn : conn'[m] = conn[m]
      /\ DOMAIN conn'[n] = SocketFields /\ conn'[n].registry = g /\ conn'[n].sent = <<cap>>
      /\ conn'[n].stage = "sent" /\ conn'[n].result = << >> /\ conn'[n].reply = << >>
      /\ conn'[n].mate = NoConn
  BY <1>2 DEF Opened, SocketFields
<1>4. Socket(n, conn'[n])
  BY <1>3, OneOf DEF Socket, Few
<1>5. SocketsInv'
  BY <1>3, <1>4, RoomFacts DEF SocketsInv, Sockets
<1>6. \A h, role, m : Seated(h, role, m, conn)' <=> Seated(h, role, m, conn)
  <2> SUFFICES ASSUME NEW h, NEW role, NEW m
               PROVE  Seated(h, role, m, conn)' <=> Seated(h, role, m, conn)
    OBVIOUS
  <2>1. RoleAt(m)' = RoleAt(m)
    BY DEF RoleAt
  <2>2. m = n => ~Seated(h, role, m, conn)' /\ ~Seated(h, role, m, conn)
    BY <1>2, <1>3 DEF Seated
  <2>3. m # n => (Seated(h, role, m, conn)' <=> Seated(h, role, m, conn))
    BY <1>3, <2>1 DEF Seated
  <2> QED BY <2>2, <2>3
<1>7. ASSUME NEW h \in Registry PROVE RoomFits(h, rooms[h], conn)' /\ Keeps(h, rooms[h], conn)'
  <2>1. RoomFits(h, rooms[h], conn) /\ Keeps(h, rooms[h], conn)
    BY RoomFacts
  <2>2. Caps(h)' = Caps(h) /\ Role' = Role /\ NoConn' = NoConn
    BY DEF Caps, NegotiationCapability, DirectCapability, Role, NoConn
  <2>3. \A m : RoleAt(m)' = RoleAt(m)
    BY DEF RoleAt
  <2>4. RoomFits(h, rooms[h], conn)'
    BY <1>6, <2>1, <2>2 DEF RoomFits
  <2>5. Keeps(h, rooms[h], conn)'
    <3> SUFFICES ASSUME NEW m \in DOMAIN conn', Seated(h, RoleAt(m), m, conn)'
                 PROVE  \E q \in rooms'[h][RoleAt(m)] : q.conn = m
      BY <2>3 DEF Keeps
    <3>1. Seated(h, RoleAt(m), m, conn)
      BY <1>6
    <3>2. m \in DOMAIN conn
      BY <3>1 DEF Seated
    <3> QED BY <2>1, <3>1, <3>2 DEF Keeps
  <2> QED BY <2>4, <2>5
<1>8. RoomsInv'
  BY <1>7, RoomFacts DEF RoomsInv, Registry
<1>9. SettingInv'
  BY DEF MeetInv, SettingInv
<1>10. NumberInv'
  <2> SUFFICES ASSUME NEW q \in Programs
               PROVE  \E i \in Nat : \A j : <<q, j>> \in DOMAIN conn' <=> j \in 1..i
    BY DEF NumberInv
  <2>1. CASE q = p
    <3>1. \A j : <<q, j>> \in DOMAIN conn' <=> j \in 1..(k + 1)
      BY <1>1, <1>3, <2>1
    <3> QED BY <3>1
  <2>2. CASE q # p
    <3>1. \A j : <<q, j>> \in DOMAIN conn' <=> <<q, j>> \in DOMAIN conn
      BY <1>1, <1>3, <2>2
    <3> QED BY <3>1 DEF MeetInv, NumberInv
  <2> QED BY <2>1, <2>2
<1>11. ProgInv'
  <2>1. OneProg' = OneProg
    BY DEF OneProg, Pcs, Plans, Offers, Nexts, ConnId, NoConn, DirectCapability
  <2>2. ASSUME NEW q \in Programs, prog'[q].pc = "negotiating"
        PROVE  prog'[q].talk \in DOMAIN conn' /\ conn'[prog'[q].talk].registry = "negotiation"
    <3>1. CASE prog'[q].talk = n /\ g = "negotiation"
      BY <1>3, <3>1
    <3>2. CASE prog[q].pc = "negotiating" /\ prog'[q].talk = prog[q].talk
      BY <1>3, <3>2 DEF MeetInv, ProgInv
    <3> QED BY <2>2, <3>1, <3>2
  <2>3. ASSUME NEW q \in Programs, prog'[q].pc = "exchanging" PROVE prog'[q].swap \in DOMAIN conn'
    BY <1>3, <2>3 DEF MeetInv, ProgInv
  <2> QED BY <2>1, <2>2, <2>3 DEF ProgInv
<1> QED BY <1>5, <1>8, <1>9, <1>10, <1>11 DEF MeetInv

LEMMA OfferM == ASSUME MeetInv, NEW p \in Programs, Offer(p) PROVE MeetInv'
<1>1. PICK n : n = NewConn(p)
  OBVIOUS
<1>2. /\ n \in ConnId /\ conn' = Opened(n, "negotiation", Capability(p))
      /\ prog' = [prog EXCEPT ![p].pc = "negotiating", ![p].talk = n]
      /\ UNCHANGED <<setting, serverRelay, rooms, blocked, faults>>
  BY <1>1 DEF Offer
<1>3. Capability(p) \in Caps("negotiation")
  <2>1. setting[p] \in Setting
    BY RoomFacts
  <2> QED BY <2>1 DEF Caps, Capability, NegotiationCapability, Setting
<1>4. prog \in [Programs -> OneProg] /\ \A q \in Programs : prog[q].pc = "direct" => prog[q].next # "none"
  BY DEF MeetInv, ProgInv
<1>5. /\ prog'[p] \in OneProg /\ prog' \in [Programs -> OneProg]
      /\ prog'[p].pc = "negotiating" /\ prog'[p].talk = n
      /\ \A q \in Programs : q # p => prog'[q] = prog[q]
  BY <1>2, <1>4 DEF OneProg, Pcs
<1>6. faults' \in 0..MaxFaults /\ "negotiation" \in Registry
  BY <1>2, RoomFacts, MeetBasics
<1> HIDE DEF Caps
<1> QED BY <1>1, <1>2, <1>3, <1>4, <1>5, <1>6, OpenedKeeps

LEMMA ExchangeM == ASSUME MeetInv, NEW p \in Programs, Exchange(p) PROVE MeetInv'
<1>1. PICK n : n = NewConn(p)
  OBVIOUS
<1>2. PICK listening \in BOOLEAN, prefers \in BOOLEAN :
        LET offer == [candidates |-> listening, prefers |-> prefers,
                      bidirectional |-> listening /\ setting[p].reuse,
                      relayFallback |-> prog[p].plan.relay # NoRelay]
        IN /\ conn' = Opened(n, "direct", offer)
           /\ prog' = [prog EXCEPT ![p].pc = "exchanging", ![p].swap = n, ![p].offer = <<offer>>]
  BY <1>1 DEF Exchange
<1>3. PICK offer : offer = [candidates |-> listening, prefers |-> prefers,
                            bidirectional |-> listening /\ setting[p].reuse,
                            relayFallback |-> prog[p].plan.relay # NoRelay]
  OBVIOUS
<1>4. /\ conn' = Opened(n, "direct", offer)
      /\ prog' = [prog EXCEPT ![p].pc = "exchanging", ![p].swap = n, ![p].offer = <<offer>>]
  BY <1>2, <1>3
<1>5. offer \in DirectCapability
  <2>1. setting[p].reuse \in BOOLEAN
    BY RoomFacts DEF Setting
  <2> QED BY <1>3, <2>1 DEF DirectCapability
<1>6. offer \in Caps("direct") /\ <<offer>> \in Offers /\ "direct" \in Registry
  BY <1>5, MeetBasics DEF Caps, Offers
<1>7. n \in ConnId /\ UNCHANGED <<setting, serverRelay, rooms, blocked, faults>>
  BY <1>1 DEF Exchange
<1>8. prog \in [Programs -> OneProg] /\ \A q \in Programs : prog[q].pc = "direct" => prog[q].next # "none"
  BY DEF MeetInv, ProgInv
<1>9. /\ prog' \in [Programs -> OneProg] /\ prog'[p].pc = "exchanging" /\ prog'[p].swap = n
      /\ \A q \in Programs : q # p => prog'[q] = prog[q]
  <2>1. PICK x : x = [prog[p] EXCEPT !.pc = "exchanging", !.swap = n, !.offer = <<offer>>]
    OBVIOUS
  <2>2. x \in OneProg /\ x.pc = "exchanging" /\ x.swap = n
    BY <1>6, <1>7, <1>8, <2>1 DEF OneProg, Pcs
  <2>3. prog' = [prog EXCEPT ![p] = x]
    BY <1>4, <1>8, <2>1 DEF OneProg
  <2> QED BY <1>8, <2>2, <2>3
<1>10. faults' \in 0..MaxFaults
  BY <1>7, RoomFacts
<1> HIDE DEF Caps
<1> QED BY <1>1, <1>4, <1>6, <1>7, <1>8, <1>9, <1>10, OpenedKeeps

\* A step of a program that does not open a WebSocket and leaves the others alone.
LEMMA ProgramStays ==
    ASSUME MeetInv, NEW n, n = NoConn \/ n \in DOMAIN conn, conn' = conn \/ conn' = Hangup(n),
           UNCHANGED <<setting, serverRelay, rooms, blocked>>, faults' \in 0..MaxFaults, ProgKeeps
    PROVE  MeetInv'
<1>1. PICK m : (m = NoConn \/ m \in DOMAIN conn) /\ conn' = Hangup(m)
  <2>1. Hangup(NoConn) = conn
    BY DEF Hangup
  <2> QED BY <2>1
<1>2. /\ SocketsInv' /\ RoomsInv' /\ DOMAIN conn' = DOMAIN conn
      /\ \A x \in DOMAIN conn : conn'[x].registry = conn[x].registry
  BY <1>1, HangupKeeps
<1> QED BY <1>2, RoomFacts, MeetFrame

LEMMA NoConnStays ==
    ASSUME MeetInv, UNCHANGED <<setting, serverRelay, conn, rooms, blocked>>, faults' \in 0..MaxFaults, ProgKeeps
    PROVE  MeetInv'
BY ProgramStays

\* What a program has read from the registries is what they sent.
LEMMA PlansKnown ==
    ASSUME MeetInv, NEW p \in Programs
    PROVE  /\ setting[p] \in Setting /\ prog[p] \in OneProg /\ WebRTCPlan \in Plans
           /\ Unanswered(p) \in Plans
           /\ Plan(setting[p].relay, setting[p].local, ~setting[p].local /\ setting[p].direct) \in Plans
<1>1. setting[p] \in Setting /\ prog[p] \in OneProg
  BY RoomFacts
<1>2. WebRTCPlan \in Plans
  BY DEF WebRTCPlan, Plan, Plans
<1>3. setting[p].relay \in Relays \cup {NoRelay} /\ setting[p].local \in BOOLEAN /\ setting[p].direct \in BOOLEAN
  BY <1>1 DEF Setting
<1>4. Unanswered(p) \in Plans
  BY <1>2, <1>3 DEF Unanswered, Plan, Plans
<1>5. Plan(setting[p].relay, setting[p].local, ~setting[p].local /\ setting[p].direct) \in Plans
  BY <1>3 DEF Plan, Plans
<1> QED BY <1>1, <1>2, <1>4, <1>5

LEMMA ResolveMoves ==
    ASSUME MeetInv, NEW p \in Programs, NEW outcome, outcome = Failure \/ outcome \in Routes,
           prog' = Resolve(p, outcome)
    PROVE  Moves(p)
<1>1. CASE outcome = Failure
  <2>1. prog' = IF setting[p].client = "web" THEN Goto(p, "failed")
                ELSE Planned(p, Unanswered(p), FALSE)
    BY <1>1 DEF Resolve, Failure
  <2> QED BY <2>1, GotoMoves, PlannedMoves, PlansKnown DEF Pcs
<1>2. CASE outcome \in Routes
  <2> DEFINE Made == Plan(outcome.relay, outcome.local, outcome.direct /\ setting[p].direct)
  <2>1. PICK plan : plan = Made
    OBVIOUS
  <2>2. plan \in Plans
    <3>1. setting[p].direct \in BOOLEAN
      BY PlansKnown DEF Setting
    <3> QED BY <1>2, <2>1, <3>1 DEF Routes, Plans, Plan
  <2>3. outcome.kind = "negotiated"
    BY <1>2 DEF Routes
  <2>4. \/ prog' = Planned(p, WebRTCPlan, TRUE)
        \/ prog' = Goto(p, "unusable")
        \/ prog' = Planned(p, plan, TRUE)
    BY <2>1, <2>3 DEF Resolve
  <2> QED BY <2>2, <2>4, GotoMoves, PlannedMoves, PlansKnown DEF Pcs
<1> QED BY <1>1, <1>2

LEMMA ResolveForcedM == ASSUME MeetInv, NEW p \in Programs, ResolveForced(p) PROVE MeetInv'
<1>1. /\ \/ prog' = Planned(p, WebRTCPlan, FALSE)
         \/ prog' = Goto(p, "failed")
         \/ prog' = Planned(p, Plan(setting[p].relay, setting[p].local,
                                        ~setting[p].local /\ setting[p].direct), FALSE)
      /\ UNCHANGED <<setting, serverRelay, conn, rooms, blocked, faults>>
  BY DEF ResolveForced
<1>2. Moves(p)
  BY <1>1, GotoMoves, PlannedMoves, PlansKnown DEF Pcs
<1> QED BY <1>1, <1>2, MovesKeeps, NoConnStays, RoomFacts

LEMMA OfferFailsM == ASSUME MeetInv, NEW p \in Programs, OfferFails(p) PROVE MeetInv'
<1>1. /\ prog' = Planned(p, Unanswered(p), FALSE) /\ faults < MaxFaults /\ faults' = faults + 1
      /\ UNCHANGED <<setting, serverRelay, conn, rooms, blocked>>
  BY DEF OfferFails
<1>2. Moves(p)
  BY <1>1, PlannedMoves, PlansKnown
<1>3. faults' \in 0..MaxFaults
  BY <1>1, RoomFacts, Deployed
<1> QED BY <1>1, <1>2, <1>3, MovesKeeps, NoConnStays

LEMMA ReadRouteM == ASSUME MeetInv, NEW p \in Programs, ReadRoute(p) PROVE MeetInv'
<1>1. PICK n : n = prog[p].talk
  OBVIOUS
<1>2. /\ prog[p].pc = "negotiating" /\ conn[n].reply # << >> /\ prog' = Resolve(p, conn[n].reply[1])
      /\ conn' = Hangup(n) /\ UNCHANGED <<setting, serverRelay, rooms, blocked, faults>>
  BY <1>1 DEF ReadRoute, At
<1>3. n \in DOMAIN conn /\ conn[n].registry = "negotiation"
  BY <1>1, <1>2 DEF MeetInv, ProgInv
<1>4. Socket(n, conn[n])
  BY <1>3, RoomFacts DEF Sockets
<1>5. PICK a : conn[n].reply = <<a>> /\ Told("negotiation", a)
  BY <1>2, <1>3, <1>4 DEF Socket, Few
<1>6. a = Failure \/ a \in Routes
  BY <1>5 DEF Told
<1>7. prog' = Resolve(p, a)
  BY <1>2, <1>5
<1>8. Moves(p)
  BY <1>6, <1>7, ResolveMoves
<1> QED BY <1>2, <1>3, <1>8, MovesKeeps, ProgramStays, RoomFacts

LEMMA RouteLostM == ASSUME MeetInv, NEW p \in Programs, RouteLost(p) PROVE MeetInv'
<1>1. prog' = Resolve(p, Failure) /\ UNCHANGED <<setting, serverRelay, conn, rooms, blocked, faults>>
  BY DEF RouteLost
<1>2. Moves(p)
  BY <1>1, ResolveMoves
<1> QED BY <1>1, <1>2, MovesKeeps, NoConnStays, RoomFacts

LEMMA ExchangeFailsM == ASSUME MeetInv, NEW p \in Programs, ExchangeFails(p) PROVE MeetInv'
<1>1. PICK place : place = AfterDirect(p, prog[p].plan.relay # NoRelay)
  OBVIOUS
<1>2. /\ prog' = Fallback(p, place) /\ faults < MaxFaults /\ faults' = faults + 1
      /\ UNCHANGED <<setting, serverRelay, conn, rooms, blocked>>
  BY <1>1 DEF ExchangeFails
<1>3. Moves(p)
  BY <1>1, <1>2, AfterDirectIs, FallbackMoves
<1>4. faults' \in 0..MaxFaults
  BY <1>2, RoomFacts, Deployed
<1> QED BY <1>2, <1>3, <1>4, MovesKeeps, NoConnStays

LEMMA PeerLostM == ASSUME MeetInv, NEW p \in Programs, PeerLost(p) PROVE MeetInv'
<1>1. PICK place : place = AfterDirect(p, prog[p].plan.relay # NoRelay)
  OBVIOUS
<1>2. prog' = Fallback(p, place) /\ UNCHANGED <<setting, serverRelay, conn, rooms, blocked, faults>>
  BY <1>1 DEF PeerLost
<1>3. Moves(p)
  BY <1>1, <1>2, AfterDirectIs, FallbackMoves
<1> QED BY <1>2, <1>3, MovesKeeps, NoConnStays, RoomFacts

LEMMA DirectFailsM == ASSUME MeetInv, NEW p \in Programs, DirectFails(p) PROVE MeetInv'
<1>1. /\ prog[p].pc = "direct" /\ prog' = Fallback(p, prog[p].next)
      /\ UNCHANGED <<setting, serverRelay, conn, rooms, blocked, faults>>
  BY DEF DirectFails, At
<1>2. prog[p] \in OneProg /\ prog[p].next # "none"
  BY <1>1 DEF MeetInv, ProgInv
<1>3. prog[p].next \in {"relay", "signaling", "failed"}
  BY <1>2 DEF OneProg, Nexts
<1>4. Moves(p)
  BY <1>1, <1>3, FallbackMoves
<1> QED BY <1>1, <1>4, MovesKeeps, NoConnStays, RoomFacts

LEMMA DirectConnectsM ==
    ASSUME MeetInv, NEW p \in Programs, NEW q \in Programs, DirectConnects(p, q) PROVE MeetInv'
<1>1. /\ prog' = [prog EXCEPT ![p].pc = "connected", ![q].pc = "connected"]
      /\ UNCHANGED <<setting, serverRelay, conn, rooms, blocked, faults>>
  BY DEF DirectConnects
<1>2. prog \in [Programs -> OneProg] /\ \A x \in Programs : prog[x].pc = "direct" => prog[x].next # "none"
  BY DEF MeetInv, ProgInv
<1>3. /\ prog' \in [Programs -> OneProg]
      /\ \A x \in Programs : prog'[x] = prog[x] \/ prog'[x].pc = "connected"
  <2>1. \A c \in OneProg : [c EXCEPT !.pc = "connected"] \in OneProg /\ [c EXCEPT !.pc = "connected"].pc = "connected"
    BY DEF OneProg, Pcs
  <2>2. PICK one : one = [prog EXCEPT ![p].pc = "connected"]
    OBVIOUS
  <2>3. prog' = [one EXCEPT ![q].pc = "connected"]
    BY <1>1, <2>2
  <2>4. one \in [Programs -> OneProg] /\ one[p].pc = "connected" /\ \A x \in Programs : x # p => one[x] = prog[x]
    BY <1>2, <2>1, <2>2
  <2>5. prog' \in [Programs -> OneProg] /\ prog'[q].pc = "connected" /\ \A x \in Programs : x # q => prog'[x] = one[x]
    BY <2>1, <2>3, <2>4
  <2> QED BY <2>4, <2>5
<1>4. ProgKeeps
  BY <1>2, <1>3 DEF ProgKeeps
<1> QED BY <1>1, <1>4, NoConnStays, RoomFacts

LEMMA ReadPeerM == ASSUME MeetInv, NEW p \in Programs, ReadPeer(p) PROVE MeetInv'
<1>1. PICK n : n = prog[p].swap
  OBVIOUS
<1>2. /\ prog[p].pc = "exchanging" /\ conn[n].up
      /\ IF Accepts(conn[n].reply[1])
         THEN TryDirect(p, prog[p].offer[1], conn[n].reply[1].peer)
         ELSE prog' = Fallback(p, AfterDirect(p, prog[p].plan.relay # NoRelay))
      /\ conn' = Hangup(n) /\ UNCHANGED <<setting, serverRelay, rooms, blocked, faults>>
  BY <1>1 DEF ReadPeer, At
<1>3. PICK place : place = AfterDirect(p, prog[p].plan.relay # NoRelay)
  OBVIOUS
<1>4. prog[p] \in OneProg /\ prog \in [Programs -> OneProg]
  BY RoomFacts
<1>5. ASSUME NEW own, NEW peer, TryDirect(p, own, peer) PROVE Moves(p)
  <2>1. PICK then : then = AfterDirect(p, prog[p].plan.relay # NoRelay /\ peer.relayFallback)
    OBVIOUS
  <2>2. \/ prog' = Fallback(p, then)
        \/ prog' = Goto(p, "crashed")
        \/ prog' = [prog EXCEPT ![p].pc = "direct", ![p].next = then, ![p].offer = << >>]
    BY <1>5, <2>1 DEF TryDirect
  <2>3. then \in {"relay", "signaling", "failed"}
    BY <2>1, AfterDirectIs
  <2>4. CASE prog' = [prog EXCEPT ![p].pc = "direct", ![p].next = then, ![p].offer = << >>]
    <3>1. PICK x : x = [prog[p] EXCEPT !.pc = "direct", !.next = then, !.offer = << >>]
      OBVIOUS
    <3>2. x \in OneProg /\ x.pc = "direct" /\ x.next = then
      BY <1>4, <2>3, <3>1 DEF OneProg, Pcs, Nexts, Offers
    <3>3. prog' = [prog EXCEPT ![p] = x]
      BY <1>4, <2>4, <3>1 DEF OneProg
    <3>4. prog'[p] = x
      BY <1>4, <3>3
    <3> QED BY <2>3, <3>2, <3>3, <3>4 DEF Moves
  <2> QED BY <2>2, <2>3, <2>4, GotoMoves, FallbackMoves DEF Pcs
<1>6. Moves(p)
  BY <1>2, <1>3, <1>5, AfterDirectIs, FallbackMoves
<1>7. n \in DOMAIN conn
  BY <1>1, <1>2 DEF MeetInv, ProgInv
<1> QED BY <1>2, <1>6, <1>7, MovesKeeps, ProgramStays, RoomFacts

\* What a program that joined a signaling room is to the registry.
Passive(p) ==
    [client |-> "webrtc", protocol |-> setting[p].protocol,
     relay |-> NoRelay, local |-> FALSE, direct |-> FALSE]

LEMMA SignalingSeats ==
    ASSUME MeetInv, NEW p \in Programs, JoinSignaling(p)
    PROVE  \/ UNCHANGED <<conn, rooms, blocked>>
           \/ \E lapsed \in BOOLEAN : \E peer :
                 peer = Peer(NoConn, Passive(p)) /\ Enters("negotiation", lapsed, RoleOf[p], peer, conn)
<1>1. PICK cap : cap = Passive(p)
  OBVIOUS
<1>2. PICK lapsed \in BOOLEAN :
        IF Found("negotiation", lapsed)[RoleOf[p]] # {}
        THEN UNCHANGED <<conn, rooms, blocked>>
        ELSE Enter("negotiation", lapsed, RoleOf[p], Peer(NoConn, cap), conn)
  BY <1>1 DEF JoinSignaling, CanLapse, Passive
<1>3. CASE Found("negotiation", lapsed)[RoleOf[p]] # {}
  BY <1>2, <1>3
<1>4. CASE Found("negotiation", lapsed)[RoleOf[p]] = {}
  <2>1. PICK peer : peer = Peer(NoConn, cap)
    OBVIOUS
  <2>2. Enter("negotiation", lapsed, RoleOf[p], peer, conn)
    BY <1>2, <1>4, <2>1
  <2>3. peer.conn = NoConn /\ peer.cap = cap
    BY <2>1 DEF Peer
  <2>4. cap \in Caps("negotiation")
    <3>1. setting[p].protocol \in {"transfer", "note"}
      BY RoomFacts DEF Setting
    <3> QED BY <1>1, <3>1 DEF Passive, Caps, NegotiationCapability
  <2>5. RoleOf[p] \in Role /\ "negotiation" \in Registry
    BY RoomFacts, MeetBasics, Deployed
  <2>6. \A g \in Registry : \A n \in DOMAIN conn : Seated(g, RoleAt(n), n, conn) =>
               n = peer.conn \/ \E q \in rooms[g][RoleAt(n)] : q.conn = n
    BY RoomFacts DEF Keeps
  <2>7. \A x \in Role : \A q \in rooms["negotiation"][x] : q.conn = NoConn \/ q.conn # peer.conn
    BY <2>3
  <2>8. \A q \in Found("negotiation", lapsed)[RoleOf[p]] : q.conn = NoConn
    BY <1>4
  <2>9. peer.cap \in Caps("negotiation")
    BY <2>3, <2>4
  <2>10. Enters("negotiation", lapsed, RoleOf[p], peer, conn)
    <3> HIDE DEF Caps
    <3> QED BY <2>2, <2>3, <2>5, <2>6, <2>7, <2>8, <2>9, RoomFacts DEF Enters
  <2> QED BY <1>1, <2>1, <2>10
<1> QED BY <1>3, <1>4

LEMMA JoinSignalingM == ASSUME MeetInv, NEW p \in Programs, JoinSignaling(p) PROVE MeetInv'
<1>1. prog' = Goto(p, "webrtc") /\ UNCHANGED <<setting, serverRelay, faults>>
  BY DEF JoinSignaling
<1>2. ProgKeeps
  BY <1>1, GotoMoves, MovesKeeps DEF Pcs
<1>3. CASE UNCHANGED <<conn, rooms, blocked>>
  BY <1>1, <1>2, <1>3, NoConnStays, RoomFacts
<1>4. ASSUME NEW lapsed \in BOOLEAN, NEW peer, Enters("negotiation", lapsed, RoleOf[p], peer, conn)
      PROVE  MeetInv'
  <2>1. PICK registry \in Registry, role \in Role : registry = "negotiation" /\ role = RoleOf[p]
    BY MeetBasics, Deployed
  <2>2. /\ SocketsInv' /\ RoomsInv' /\ ~blocked' /\ DOMAIN conn' = DOMAIN conn
        /\ \A n \in DOMAIN conn : conn'[n].registry = conn[n].registry
    BY <1>4, <2>1, RoomFacts, EnterKeeps
  <2> QED BY <1>1, <1>2, <2>2, RoomFacts, MeetFrame
<1> QED BY <1>3, <1>4, SignalingSeats

(***************************************************************************)
(* Faults.                                                                  *)
(***************************************************************************)

\* Who waits has opened the WebSocket it waits on.
LEMMA WaitingOpened ==
    ASSUME MeetInv, NEW p \in Programs
    PROVE  Waiting(p) = NoConn \/ Waiting(p) \in DOMAIN conn
<1>1. \/ prog[p].pc = "negotiating" /\ Waiting(p) = prog[p].talk
      \/ prog[p].pc = "exchanging" /\ Waiting(p) = prog[p].swap
      \/ Waiting(p) = NoConn
  BY DEF Waiting, At
<1> QED BY <1>1 DEF MeetInv, ProgInv

LEMMA OneFault == ASSUME MeetInv, faults < MaxFaults, faults' = faults + 1 PROVE faults' \in 0..MaxFaults
BY RoomFacts, Deployed

LEMMA LoseM == ASSUME MeetInv, NEW p \in Programs, Lose(p) PROVE MeetInv'
<1>1. /\ conn' = Hangup(Waiting(p)) /\ faults < MaxFaults /\ faults' = faults + 1
      /\ UNCHANGED <<setting, serverRelay, prog, rooms, blocked>>
  BY DEF Lose
<1> QED BY <1>1, WaitingOpened, OneFault, SameProg, ProgramStays

LEMMA PairTimeoutM == ASSUME MeetInv, NEW p \in Programs, PairTimeout(p) PROVE MeetInv'
<1>1. /\ conn' = Hangup(Waiting(p)) /\ faults < MaxFaults /\ faults' = faults + 1
      /\ prog' = Goto(p, "failed") /\ UNCHANGED <<setting, serverRelay, rooms, blocked>>
  BY DEF PairTimeout
<1>2. ProgKeeps
  BY <1>1, GotoMoves, MovesKeeps DEF Pcs
<1> QED BY <1>1, <1>2, WaitingOpened, OneFault, ProgramStays

LEMMA NewProgramIs == NewProgram \in OneProg /\ NewProgram.pc = "start"
<1>1. WebRTCPlan \in Plans /\ "start" \in Pcs /\ << >> \in Offers /\ "none" \in Nexts
  BY DEF WebRTCPlan, Plan, Plans, Pcs, Offers, Nexts
<1> QED BY <1>1 DEF NewProgram, OneProg

LEMMA RestartM == ASSUME MeetInv, NEW p \in Programs, Restart(p) PROVE MeetInv'
<1>1. /\ conn' = Hangup(Waiting(p)) /\ faults < MaxFaults /\ faults' = faults + 1
      /\ prog' = [prog EXCEPT ![p] = NewProgram] /\ UNCHANGED <<setting, serverRelay, rooms, blocked>>
  BY DEF Restart
<1>2. PICK x \in OneProg : x = NewProgram /\ x.pc = "start"
  BY NewProgramIs
<1>3. prog' = [prog EXCEPT ![p] = x] /\ prog'[p] = x
  BY <1>1, <1>2, RoomFacts
<1>4. Moves(p)
  BY <1>2, <1>3 DEF Moves
<1> QED BY <1>1, <1>4, MovesKeeps, WaitingOpened, OneFault, ProgramStays

LEMMA MeetStart == ASSUME Init PROVE MeetInv
<1>1. /\ prog = [p \in Programs |-> NewProgram] /\ conn = [n \in {} |-> n]
      /\ rooms = [registry \in Registry |-> NoRoom] /\ blocked = FALSE /\ faults = 0
  BY DEF Init
<1>2. <<setting, serverRelay>> \in Deployments
  <2>1. PICK deployment \in Deployments : setting = deployment[1] /\ serverRelay = deployment[2]
    BY DEF Init
  <2>2. deployment = <<deployment[1], deployment[2]>>
    BY Deployed
  <2> QED BY <2>1, <2>2
<1>3. SettingInv
  BY <1>1, <1>2, Deployed DEF SettingInv
<1>4. DOMAIN conn = {}
  BY <1>1
<1>5. SocketsInv /\ NumberInv
  <2>1. SocketsInv
    BY <1>4 DEF SocketsInv, Sockets
  <2>2. \A p \in Programs : \A j : <<p, j>> \in DOMAIN conn <=> j \in 1..0
    BY <1>4
  <2> QED BY <2>1, <2>2 DEF NumberInv
<1>6. RoomsInv
  BY <1>1, <1>4 DEF RoomsInv, RoomFits, Keeps, NoRoom
<1>7. ProgInv
  <2>1. \A p \in Programs : prog[p] = NewProgram
    BY <1>1
  <2> QED BY <1>1, <2>1, NewProgramIs DEF ProgInv
<1> QED BY <1>3, <1>5, <1>6, <1>7 DEF MeetInv

LEMMA MeetStutter == ASSUME MeetInv, UNCHANGED vars PROVE MeetInv'
<1>1. UNCHANGED <<setting, serverRelay, prog, conn, rooms, blocked, faults>>
  BY DEF vars
<1> QED BY <1>1, SameProg, NoConnStays, RoomFacts

LEMMA MeetStep == ASSUME MeetInv, Next PROVE MeetInv'
<1>1. ASSUME NEW n \in DOMAIN conn, Serve(n) PROVE MeetInv'
  BY <1>1, JoinM, DropM, AnswerM, LeaveM DEF Serve
<1>2. ASSUME NEW p \in Programs, Run(p) PROVE MeetInv'
  BY <1>2, ResolveForcedM, OfferM, ReadRouteM, RouteLostM, ExchangeM, ReadPeerM, PeerLostM,
     DirectFailsM, JoinSignalingM DEF Run
<1>3. ASSUME NEW p \in Programs,
             OfferFails(p) \/ ExchangeFails(p) \/ Lose(p) \/ PairTimeout(p) \/ Restart(p)
      PROVE  MeetInv'
  BY <1>3, OfferFailsM, ExchangeFailsM, LoseM, PairTimeoutM, RestartM
<1> QED BY <1>1, <1>2, <1>3, CleanupM, DirectConnectsM DEF Next

LEMMA FewInRooms == \A S : S = {} \/ (\E x : S = {x}) => Cardinality(S) <= 1
BY FS_EmptySet, FS_Singleton

\* What the run checks follows.
LEMMA MeetKeeps == ASSUME MeetInv PROVE ServiceKeepsWaiters
<1>1. ServiceNeverBlocks
  BY RoomFacts DEF ServiceNeverBlocks
<1>2. WaiterIsRegistered
  <2>1. ASSUME NEW n \in DOMAIN conn, conn[n].stage = "waiting" /\ conn[n].result = << >>
        PROVE  \E peer \in rooms[conn[n].registry][RoleAt(n)] : peer.conn = n
    <3>1. conn[n].registry \in Registry
      BY RoomFacts DEF Sockets, Socket
    <3>2. Seated(conn[n].registry, RoleAt(n), n, conn)
      BY <2>1 DEF Seated
    <3> QED BY <3>1, <3>2, RoomFacts DEF Keeps
  <2>2. ASSUME NEW registry \in Registry, NEW role \in Role,
               NEW peer \in rooms[registry][role], peer.conn # NoConn
        PROVE  conn[peer.conn].stage = "waiting"
    BY <2>2, RoomFacts DEF Seated
  <2> QED BY <2>1, <2>2 DEF WaiterIsRegistered
<1>3. TypeOK
  <2>1. <<setting, serverRelay>> \in Deployments /\ faults \in 0..MaxFaults
    BY DEF MeetInv, SettingInv
  <2>2. prog \in [Programs -> OneProg]
    BY RoomFacts
  <2>3. ASSUME NEW n \in DOMAIN conn
        PROVE  /\ n \in ConnId /\ conn[n].registry \in Registry
               /\ \A k \in DOMAIN conn[n].sent :
                    conn[n].sent[k] \in NegotiationCapability \cup DirectCapability
               /\ conn[n].mate \in ConnId \cup {NoConn}
               /\ conn[n].stage \in {"sent", "waiting", "leaving", "closed"}
               /\ Len(conn[n].reply) <= 1
    <3>1. Socket(n, conn[n])
      BY RoomFacts DEF Sockets
    <3>2. \A k \in DOMAIN conn[n].sent :
            conn[n].sent[k] \in NegotiationCapability \cup DirectCapability
      BY <3>1 DEF Socket, Caps
    <3>3. Len(conn[n].reply) <= 1
      <4>1. Len(<< >>) <= 1 /\ \A a : Len(<<a>>) <= 1
        OBVIOUS
      <4>2. CASE conn[n].reply = << >>
        BY <4>1, <4>2
      <4>3. ASSUME NEW a, conn[n].reply = <<a>> PROVE Len(conn[n].reply) <= 1
        BY <4>1, <4>3
      <4> QED BY <3>1, <4>2, <4>3 DEF Socket, Few
    <3> QED BY <3>1, <3>2, <3>3 DEF Socket
  <2>4. ASSUME NEW registry \in Registry, NEW role \in Role
        PROVE  Cardinality(rooms[registry][role]) <= 1
    BY RoomFacts, FewInRooms DEF RoomFits
  <2> QED BY <2>1, <2>2, <2>3, <2>4 DEF TypeOK, OneProg, Pcs, Plans, Offers, Nexts
<1> QED BY <1>1, <1>2, <1>3 DEF ServiceKeepsWaiters

\* The invariant of the registries, for any programs, roles, settings, relays,
\* connections and faults.
THEOREM MeetInvariant == Spec => []MeetInv
<1>1. Init => MeetInv
  BY MeetStart
<1>2. MeetInv /\ [Next]_vars => MeetInv'
  BY MeetStep, MeetStutter
<1> QED BY <1>1, <1>2, PTL DEF Spec

\* Nobody who waits for a peer is forgotten, no slot is kept for nobody, and no
\* completion waits under s.mu (completeNegotiationLocked, completeDirectLocked,
\* leave, expireBefore).
THEOREM WaitersKept == Spec => []ServiceKeepsWaiters
BY MeetInvariant, MeetKeeps, PTL

(***************************************************************************)
(* What two programs do that heard one answer.                              *)
(***************************************************************************)

\* At most one program of each role has the code.
OnePair == \A p, q \in Programs : RoleOf[p] = RoleOf[q] => p = q

WebRTC == Response("webrtc", NoRelay, FALSE, FALSE)

\* What the registry chooses for a program and its peer, and what it answers
\* when the mate is the WebSocket of that peer or, with none, a passive peer.
Chosen(p, q) ==
    IF RoleOf[p] = "sender" THEN Choose(Capability(p), Capability(q))
    ELSE Choose(Capability(q), Capability(p))
AnswerTo(p, mate) == IF mate = NoConn THEN WebRTC ELSE Chosen(p, mate[1])

\* A capability is that of the program behind the WebSocket n; an offer for a
\* direct connection tells whether the route chosen for the two has a relay.
Honest(registry, n, cap) ==
    /\ registry = "negotiation" =>
         IF n = NoConn THEN cap.client = "webrtc" ELSE cap = Capability(n[1])
    /\ registry = "direct" =>
         /\ n # NoConn
         /\ setting[n[1]].mode = "auto" =>
              \A p \in Programs : RoleOf[p] # RoleOf[n[1]] =>
                  (cap.relayFallback <=> Chosen(n[1], p).relay # NoRelay)

\* An answer is about the WebSocket it names as the mate.
Truth(registry, n, mate, a) ==
    \/ a = Failure
    \/ registry = "negotiation" /\ a = AnswerTo(n[1], mate)
    \/ registry = "direct" /\ mate # NoConn /\ Honest("direct", mate, a.peer)

Untold(c) == c.stage = "sent" \/ (c.stage = "waiting" /\ c.result = << >>)

SocketTrue(n, c) ==
    /\ c.registry = "negotiation" => setting[n[1]].mode = "auto"
    /\ \A cap : c.sent = <<cap>> => Honest(c.registry, n, cap)
    /\ \A a : c.result = <<a>> \/ c.reply = <<a>> => Truth(c.registry, n, c.mate, a)
    /\ c.stage \in {"sent", "waiting"} => c.reply = << >>
    /\ Untold(c) => c.mate = NoConn

\* Mates were told of each other.
Mates(n, m, conns) ==
    /\ m \in DOMAIN conns /\ conns[m].mate = n
    /\ RoleAt(m) # RoleAt(n) /\ conns[m].registry = conns[n].registry

SocketsTrue(conns) ==
    \A n \in DOMAIN conns :
        /\ SocketTrue(n, conns[n])
        /\ conns[n].mate # NoConn => Mates(n, conns[n].mate, conns)

RoomTrue(registry, room) ==
    \A role \in Role : \A peer \in room[role] : Honest(registry, peer.conn, peer.cap)

PlanOf(a) == Plan(a.relay, a.local, a.direct)

\* Where a program may be that was told to use direct TCP first, and where one
\* may be that heard the answer a.
Dialing == {"dialing direct", "exchanging", "direct", "connected"}
Trying(x, a) ==
    \/ /\ x.plan = PlanOf(a) /\ x.pc \in Dialing
       /\ x.pc = "direct" => x.next = IF a.relay # NoRelay THEN "relay" ELSE "signaling"
    \/ x.plan = PlanOf(a) /\ x.pc = "relay" /\ a.relay # NoRelay
    \/ x.plan = WebRTCPlan /\ x.pc \in {"signaling", "webrtc"} /\ a.relay = NoRelay
    \/ x.pc \in {"failed", "crashed"}
Follows(x, a) ==
    \/ a = WebRTC /\ x.plan = WebRTCPlan /\ x.pc \in {"signaling", "webrtc"}
    \/ a.route = "native" /\ ~a.direct /\ x.plan = PlanOf(a) /\ x.pc = "relay"
    \/ a.route = "native" /\ a.direct /\ Trying(x, a)

Own(p, n, registry, conns) == n \in DOMAIN conns /\ n[1] = p /\ conns[n].registry = registry

Heard(p, x, conns) ==
    /\ x.talk # NoConn /\ conns[x.talk].stage \in {"leaving", "closed"}
    /\ Follows(x, AnswerTo(p, conns[x.talk].mate))

\* Where a program is.
Where(p, x, conns) ==
    /\ x.pc # "unusable"
    /\ x.talk = NoConn \/ Own(p, x.talk, "negotiation", conns)
    /\ x.pc \in {"exchanging", "direct"} => Own(p, x.swap, "direct", conns)
    /\ x.pc \in {"start", "negotiating"} => ~x.heard
    /\ x.pc \in Dialing /\ setting[p].mode = "auto" => x.heard
    /\ x.heard => Heard(p, x, conns)

\* Who heard an answer and is connected is connected to the program of that
\* answer, unless that one has started again.
Together(p, q) ==
    prog[p].pc = "connected" /\ prog[p].heard /\ conn[prog[p].talk].mate = prog[q].talk =>
        prog[q].pc = "connected"

RouteInv ==
    /\ SocketsTrue(conn)
    /\ \A registry \in Registry : RoomTrue(registry, rooms[registry])
    /\ \A p \in Programs : Where(p, prog[p], conn)
    /\ \A p, q \in Programs : Together(p, q)

LEMMA AloneInRole ==
    ASSUME OnePair, NEW p \in Programs, NEW q \in Programs, NEW r \in Programs,
           RoleOf[q] # RoleOf[p], RoleOf[r] # RoleOf[p]
    PROVE  q = r
<1>1. RoleOf[p] \in Role /\ RoleOf[q] \in Role /\ RoleOf[r] \in Role
  BY Deployed
<1>2. RoleOf[q] = RoleOf[r]
  BY <1>1 DEF Role
<1> QED BY <1>2 DEF OnePair

LEMMA WebRTCIs ==
    /\ WebRTC.kind = "negotiated" /\ WebRTC.route = "webrtc" /\ WebRTC.relay = NoRelay
    /\ WebRTC.local = FALSE /\ WebRTC.direct = FALSE
BY DEF WebRTC, Response

\* What routing.Choose makes of two capabilities.
LEMMA ChooseIs ==
    ASSUME serverRelay \in Relays \cup {NoRelay},
           NEW a \in NegotiationCapability, NEW b \in NegotiationCapability,
           NEW c, c = Choose(a, b)
    PROVE  /\ c.kind = "negotiated" /\ c.relay \in Relays \cup {NoRelay}
           /\ c.local \in BOOLEAN /\ c.direct \in BOOLEAN
           /\ a.client # "native" \/ b.client # "native" => c = WebRTC
           /\ c = WebRTC \/ c.route = "native"
           /\ c.route = "native" => a.client = "native" /\ b.client = "native"
           /\ c.local => c.relay = NoRelay /\ ~c.direct
           /\ c.route = "native" /\ ~c.local => c.relay # NoRelay \/ c.direct
           /\ c.direct => a.direct /\ b.direct
<1>1. c.kind = "negotiated" /\ c.relay \in Relays \cup {NoRelay} /\ c.local \in BOOLEAN /\ c.direct \in BOOLEAN
  BY DEF Choose, Response, NegotiationCapability
<1>2. ASSUME a.client # "native" \/ b.client # "native" PROVE c = WebRTC
  BY <1>2 DEF Choose, Response, WebRTC, NegotiationCapability
<1>3. c = WebRTC \/ c.route = "native"
  BY DEF Choose, Response, WebRTC, NegotiationCapability
<1>4. (c.route = "native" => a.client = "native" /\ b.client = "native") /\ (c.direct => a.direct /\ b.direct)
  BY DEF Choose, Response, NegotiationCapability
<1>5. /\ c.local => c.relay = NoRelay /\ ~c.direct
      /\ c.route = "native" /\ ~c.local => c.relay # NoRelay \/ c.direct
  BY DEF Choose, Response, NegotiationCapability
<1> QED BY <1>1, <1>2, <1>3, <1>4, <1>5

LEMMA CapabilityIs ==
    ASSUME MeetInv, NEW p \in Programs
    PROVE  /\ Capability(p) \in NegotiationCapability
           /\ Capability(p).client = setting[p].client /\ Capability(p).direct = setting[p].direct
           /\ setting[p].direct \in BOOLEAN /\ setting[p].local \in BOOLEAN
<1>1. setting[p] \in Setting
  BY RoomFacts
<1> QED BY <1>1 DEF Capability, NegotiationCapability, Setting

LEMMA ChosenIs ==
    ASSUME MeetInv, NEW p \in Programs, NEW q \in Programs, RoleOf[p] # RoleOf[q],
           NEW c, c = Chosen(p, q)
    PROVE  /\ c = Chosen(q, p)
           /\ c.kind = "negotiated" /\ c.relay \in Relays \cup {NoRelay}
           /\ c.local \in BOOLEAN /\ c.direct \in BOOLEAN
           /\ c = WebRTC \/ c.route = "native"
           /\ c.route = "native" => setting[p].client = "native"
           /\ c.local => c.relay = NoRelay /\ ~c.direct
           /\ c.route = "native" /\ ~c.local => c.relay # NoRelay \/ c.direct
           /\ c.direct => setting[p].direct
<1>1. RoleOf[p] \in Role /\ RoleOf[q] \in Role
  BY Deployed
<1>2. c = Chosen(q, p)
  BY <1>1 DEF Chosen, Role
<1>3. PICK a \in NegotiationCapability : a = Capability(p)
  BY CapabilityIs
<1>4. PICK b \in NegotiationCapability : b = Capability(q)
  BY CapabilityIs
<1>5. a.client = setting[p].client /\ a.direct = setting[p].direct
  BY <1>3, CapabilityIs
<1>6. c = Choose(a, b) \/ c = Choose(b, a)
  BY <1>3, <1>4 DEF Chosen
<1>7. serverRelay \in Relays \cup {NoRelay}
  BY RoomFacts
<1>8. CASE c = Choose(a, b)
  BY <1>2, <1>5, <1>7, <1>8, ChooseIs
<1>9. CASE c = Choose(b, a)
  BY <1>2, <1>5, <1>7, <1>9, ChooseIs
<1> QED BY <1>6, <1>8, <1>9

\* The options do not change, nor what follows from them.
LEMMA FixedSetting ==
    ASSUME UNCHANGED <<setting, serverRelay>>
    PROVE  /\ SocketsTrue(conn)' <=> SocketsTrue(conn')
           /\ \A registry : RoomTrue(registry, rooms[registry])' <=> RoomTrue(registry, rooms'[registry])
           /\ \A p : Where(p, prog[p], conn)' <=> Where(p, prog'[p], conn')
<1>1. \A p, q : Chosen(p, q)' = Chosen(p, q)
  BY DEF Chosen, Choose, Capability, Response
<1>2. \A p, m : AnswerTo(p, m)' = AnswerTo(p, m)
  BY <1>1 DEF AnswerTo, WebRTC, Response, NoConn
<1>3. \A p : Capability(p)' = Capability(p)
  BY DEF Capability
<1>4. \A g, n, cap : Honest(g, n, cap)' <=> Honest(g, n, cap)
  BY <1>1, <1>3 DEF Honest, NoConn
<1>5. \A g, n, m, a : Truth(g, n, m, a)' <=> Truth(g, n, m, a)
  BY <1>2, <1>4 DEF Truth, Failure, NoConn
<1>6. SocketsTrue(conn)' <=> SocketsTrue(conn')
  <2>1. \A n : SocketTrue(n, conn[n])' <=> SocketTrue(n, conn'[n])
    BY <1>4, <1>5 DEF SocketTrue, Untold, NoConn
  <2>2. \A n, m : Mates(n, m, conn)' <=> Mates(n, m, conn')
    BY DEF Mates, RoleAt
  <2> QED BY <2>1, <2>2 DEF SocketsTrue, NoConn
<1>7. ASSUME NEW g PROVE RoomTrue(g, rooms[g])' <=> RoomTrue(g, rooms'[g])
  BY <1>4 DEF RoomTrue, Role
<1>8. ASSUME NEW p PROVE Where(p, prog[p], conn)' <=> Where(p, prog'[p], conn')
  <2>1. Heard(p, prog[p], conn)' <=> Heard(p, prog'[p], conn')
    <3>1. \A x, a : Follows(x, a)' <=> Follows(x, a)
      BY DEF Follows, Trying, PlanOf, Plan, WebRTCPlan, WebRTC, Response, Dialing
    <3>2. \A x, a, y, b : x = y /\ a = b => (Follows(x, a) <=> Follows(y, b))
      OBVIOUS
    <3> QED BY <1>2, <3>1, <3>2 DEF Heard, NoConn
  <2> QED BY <2>1 DEF Where, Own, Dialing, NoConn
<1> QED BY <1>6, <1>7, <1>8

\* What a step leaves of the WebSockets a program has: its handler goes on, and
\* who has been answered keeps the mate.
Done == {"leaving", "closed"}
Later(conns, d) ==
    /\ DOMAIN conns \subseteq DOMAIN d
    /\ \A n \in DOMAIN conns :
         /\ d[n].registry = conns[n].registry
         /\ conns[n].stage \in Done => d[n].stage \in Done /\ d[n].mate = conns[n].mate

LEMMA LaterTwice ==
    ASSUME NEW c, NEW d, NEW e, Later(c, d), Later(d, e)
    PROVE  Later(c, e)
BY DEF Later

\* A WebSocket on which nothing new is sent, but for a failure.
Milder(c, d) ==
    /\ d.registry = c.registry /\ d.mate = c.mate
    /\ d.sent = c.sent \/ d.sent = << >>
    /\ \A a : d.result = <<a>> \/ d.reply = <<a>> => a = Failure \/ c.result = <<a>> \/ c.reply = <<a>>
    /\ d.stage \notin Done => c.stage \notin Done /\ (d.reply = c.reply \/ d.reply = << >>)
    /\ Untold(d) => Untold(c)

LEMMA SameMilder == \A c : Milder(c, c)
BY DEF Milder

LEMMA MilderTrue ==
    ASSUME NEW conns, Sockets(conns), SocketsTrue(conns), NEW d, DOMAIN d = DOMAIN conns,
           \A n \in DOMAIN conns : Milder(conns[n], d[n]) /\ Socket(n, d[n])
    PROVE  SocketsTrue(d) /\ Later(conns, d)
<1>1. ASSUME NEW n \in DOMAIN conns PROVE SocketTrue(n, d[n])
  <2>0. << >> # <<1>> /\ \A cap : << >> # <<cap>>
    BY OneOf
  <2>1. SocketTrue(n, conns[n]) /\ Milder(conns[n], d[n]) /\ Socket(n, d[n])
    BY DEF SocketsTrue
  <2>2. d[n].registry = conns[n].registry /\ d[n].mate = conns[n].mate
    BY <2>1 DEF Milder
  <2>3. \A cap : d[n].sent = <<cap>> => Honest(d[n].registry, n, cap)
    BY <2>0, <2>1, <2>2 DEF Milder, SocketTrue
  <2>4. \A a : d[n].result = <<a>> \/ d[n].reply = <<a>> => Truth(d[n].registry, n, d[n].mate, a)
    <3> SUFFICES ASSUME NEW a, d[n].result = <<a>> \/ d[n].reply = <<a>>
                 PROVE  Truth(d[n].registry, n, d[n].mate, a)
      OBVIOUS
    <3>1. CASE a = Failure
      BY <3>1 DEF Truth
    <3>2. CASE conns[n].result = <<a>> \/ conns[n].reply = <<a>>
      BY <2>1, <2>2, <3>2 DEF SocketTrue
    <3> QED BY <2>1, <3>1, <3>2 DEF Milder
  <2>5. d[n].stage \in {"sent", "waiting"} => d[n].reply = << >>
    <3>1. conns[n].stage \notin Done => conns[n].stage \in {"sent", "waiting"}
      BY DEF Sockets, Socket, Done
    <3>2. d[n].stage \in {"sent", "waiting"} => d[n].stage \notin Done
      BY DEF Done
    <3> QED BY <2>1, <3>1, <3>2 DEF Milder, SocketTrue
  <2>6. Untold(d[n]) => d[n].mate = NoConn
    BY <2>1, <2>2 DEF Milder, SocketTrue
  <2> QED BY <2>1, <2>2, <2>3, <2>4, <2>5, <2>6 DEF SocketTrue
<1>2. ASSUME NEW n \in DOMAIN conns, d[n].mate # NoConn PROVE Mates(n, d[n].mate, d)
  <2>1. d[n].mate = conns[n].mate /\ d[n].registry = conns[n].registry
    BY DEF Milder
  <2>2. Mates(n, conns[n].mate, conns)
    BY <1>2, <2>1 DEF SocketsTrue
  <2>3. conns[n].mate \in DOMAIN conns
    BY <2>2 DEF Mates
  <2>4. d[conns[n].mate].mate = conns[conns[n].mate].mate
        /\ d[conns[n].mate].registry = conns[conns[n].mate].registry
    BY <2>3 DEF Milder
  <2> QED BY <2>1, <2>2, <2>4 DEF Mates
<1>3. SocketsTrue(d)
  BY <1>1, <1>2 DEF SocketsTrue
<1>4. Later(conns, d)
  BY DEF Later, Milder
<1> QED BY <1>3, <1>4

\* Expiring a room fails those who wait in it.
LEMMA ExpireMilder ==
    ASSUME NEW conns, Sockets(conns), NEW registry \in Registry, NEW room,
           RoomFits(registry, room, conns), NEW d, d = Expire(conns, room)
    PROVE  \A n \in DOMAIN conns : Milder(conns[n], d[n])
<1> SUFFICES ASSUME NEW n \in DOMAIN conns PROVE Milder(conns[n], d[n])
  OBVIOUS
<1>1. d[n] = conns[n] \/ d[n] = [conns[n] EXCEPT !.result = <<Failure>>]
  BY DEF Expire
<1>2. CASE d[n] = [conns[n] EXCEPT !.result = <<Failure>>]
  <2>1. Socket(n, conns[n])
    BY DEF Sockets
  <2>2. /\ d[n].result = <<Failure>> /\ d[n].sent = conns[n].sent
        /\ d[n].registry = conns[n].registry /\ d[n].mate = conns[n].mate
        /\ d[n].stage = conns[n].stage /\ d[n].reply = conns[n].reply
    BY <1>2, <2>1 DEF Socket, SocketFields
  <2>3. \A a : <<Failure>> = <<a>> => a = Failure
    BY OneOf
  <2>4. <<Failure>> # << >>
    BY OneOf
  <2> QED BY <2>2, <2>3, <2>4 DEF Milder, Untold
<1> QED BY <1>1, <1>2, SameMilder

\* What a room with both peers answers is true of them.
LEMMA OutcomeTrue ==
    ASSUME NEW conns, Sockets(conns), NEW registry \in Registry, NEW slots,
           RoomFits(registry, slots, conns), RoomTrue(registry, slots),
           NEW x, NEW y, slots["sender"] = {x}, slots["receiver"] = {y},
           NEW r \in Role, NEW n, NEW m,
           \/ r = "sender" /\ n = x.conn /\ m = y.conn
           \/ r = "receiver" /\ n = y.conn /\ m = x.conn,
           Seated(registry, r, n, conns),
           m = NoConn \/ Seated(registry, Other(r), m, conns)
    PROVE  Truth(registry, n, m, Outcome(registry, slots, r))
<1> DEFINE cap == [z \in Role |-> (CHOOSE peer \in slots[z] : TRUE).cap]
<1>1. cap["sender"] = x.cap /\ cap["receiver"] = y.cap
  BY MeetBasics
<1>2. Honest(registry, x.conn, x.cap) /\ Honest(registry, y.conn, y.cap)
  BY MeetBasics DEF RoomTrue
<1>3. n # NoConn /\ RoleOf[n[1]] = r /\ (m # NoConn => RoleOf[m[1]] = Other(r))
  BY MeetBasics DEF Seated, Sockets, Socket, RoleAt
<1>4. CASE registry = "negotiation"
  <2>1. Outcome(registry, slots, r) =
          IF cap["sender"].protocol # cap["receiver"].protocol THEN Failure
          ELSE Choose(cap["sender"], cap["receiver"])
    BY <1>4 DEF Outcome
  <2> HIDE DEF cap
  <2>2. Outcome(registry, slots, r) = Failure \/ Outcome(registry, slots, r) = Choose(x.cap, y.cap)
    BY <1>1, <2>1
  <2>3. Choose(x.cap, y.cap) = AnswerTo(n[1], m)
    <3>1. CASE m = NoConn
      <4>1. x.cap.client = "webrtc" \/ y.cap.client = "webrtc"
        BY <1>2, <1>4, <3>1 DEF Honest
      <4>2. Choose(x.cap, y.cap) = WebRTC
        BY <4>1 DEF Choose, WebRTC
      <4> QED BY <3>1, <4>2 DEF AnswerTo
    <3>2. CASE m # NoConn
      <4>1. /\ r = "sender" => x.cap = Capability(n[1]) /\ y.cap = Capability(m[1])
            /\ r = "receiver" => x.cap = Capability(m[1]) /\ y.cap = Capability(n[1])
        BY <1>2, <1>3, <1>4, <3>2 DEF Honest
      <4>2. RoleOf[n[1]] = r /\ r \in {"sender", "receiver"}
        BY <1>3, MeetBasics
      <4> QED BY <3>2, <4>1, <4>2 DEF AnswerTo, Chosen
    <3> QED BY <3>1, <3>2
  <2> QED BY <1>4, <2>2, <2>3 DEF Truth
<1>5. CASE registry = "direct"
  <2>1. Outcome(registry, slots, r).peer = cap[Other(r)]
    BY <1>5 DEF Outcome
  <2> HIDE DEF cap
  <2>2. Honest("direct", m, cap[Other(r)])
    <3>1. r = "sender" => Other(r) = "receiver"
      BY DEF Other
    <3>2. r = "receiver" => Other(r) = "sender"
      BY DEF Other
    <3> QED BY <1>1, <1>2, <1>5, <3>1, <3>2
  <2>3. m # NoConn
    BY <2>2 DEF Honest
  <2> QED BY <1>5, <2>1, <2>2, <2>3 DEF Truth
<1> QED BY <1>4, <1>5, MeetBasics

\* Both peers are there: each that waits is told of the other.
LEMMA CompleteTrue ==
    ASSUME NEW conns, Sockets(conns), SocketsTrue(conns), NEW registry \in Registry, NEW slots,
           RoomFits(registry, slots, conns), RoomTrue(registry, slots),
           \A role \in Role : slots[role] # {},
           NEW d, d = Completed(registry, slots, conns)
    PROVE  SocketsTrue(d) /\ Later(conns, d)
<1>1. PICK x : slots["sender"] = {x}
  BY MeetBasics DEF RoomFits
<1>2. PICK y : slots["receiver"] = {y}
  BY MeetBasics DEF RoomFits
<1>3. PICK ids : ids = PeerOf(slots)
  OBVIOUS
<1>4. PICK active : active = ActivePeers(slots)
  OBVIOUS
<1>5. ids["sender"] = x.conn /\ ids["receiver"] = y.conn
  BY <1>1, <1>2, <1>3, MeetBasics DEF PeerOf
<1>6. active \subseteq Role /\ \A r \in Role : r \in active <=> ids[r] # NoConn
  <2>1. active \subseteq Role
    BY <1>4 DEF ActivePeers
  <2>2. "sender" \in active <=> x.conn # NoConn
    BY <1>1, <1>4, MeetBasics DEF ActivePeers
  <2>3. "receiver" \in active <=> y.conn # NoConn
    BY <1>2, <1>4, MeetBasics DEF ActivePeers
  <2> QED BY <1>5, <2>1, <2>2, <2>3, MeetBasics
<1>7. \A r \in active : Seated(registry, r, ids[r], conns)
  <2>1. x.conn = NoConn \/ Seated(registry, "sender", x.conn, conns)
    BY <1>1, MeetBasics DEF RoomFits
  <2>2. y.conn = NoConn \/ Seated(registry, "receiver", y.conn, conns)
    BY <1>2, MeetBasics DEF RoomFits
  <2> QED BY <1>5, <1>6, <2>1, <2>2, MeetBasics
<1>8. \A r \in Role : ids[r] = NoConn \/ Seated(registry, r, ids[r], conns)
  BY <1>6, <1>7
<1>9. DOMAIN d = DOMAIN conns
  BY DEF Completed
<1>10. ASSUME NEW r \in active, NEW n, n = ids[r]
       PROVE  /\ n \in DOMAIN conns /\ RoleAt(n) = r
              /\ d[n].mate = ids[Other(r)] /\ d[n].result = <<Outcome(registry, slots, r)>>
              /\ d[n].registry = registry /\ conns[n].registry = registry
              /\ d[n].stage = "waiting" /\ conns[n].stage = "waiting" /\ conns[n].result = << >>
              /\ d[n].sent = conns[n].sent /\ d[n].reply = conns[n].reply
  <2>1. Seated(registry, r, n, conns) /\ n \in DOMAIN conns /\ RoleAt(n) = r
    BY <1>7, <1>10 DEF Seated
  <2>2. PICK t : t = CHOOSE z \in active : ids[z] = n
    OBVIOUS
  <2>3. t \in active /\ ids[t] = n
    BY <1>10, <2>2
  <2>4. t = r
    <3>1. Seated(registry, t, n, conns)
      BY <1>7, <2>3
    <3> QED BY <2>1, <3>1 DEF Seated
  <2>5. \E z \in active : ids[z] = n
    BY <1>10
  <2>6. d[n] = [conns[n] EXCEPT !.result = Append(@, Outcome(registry, slots, t)), !.mate = ids[Other(t)]]
    BY <1>3, <1>4, <2>1, <2>2, <2>5 DEF Completed
  <2>7. PICK o : o = Outcome(registry, slots, r)
    OBVIOUS
  <2>8. PICK m : m = ids[Other(r)]
    OBVIOUS
  <2>9. d[n] = [conns[n] EXCEPT !.result = Append(@, o), !.mate = m]
    BY <2>4, <2>6, <2>7, <2>8
  <2>10. Socket(n, conns[n]) /\ conns[n].registry = registry
         /\ conns[n].stage = "waiting" /\ conns[n].result = << >>
    BY <2>1 DEF Sockets, Seated
  <2>11. Append(<< >>, o) = <<o>>
    BY OneOf
  <2>12. /\ d[n].result = <<o>> /\ d[n].mate = m
         /\ d[n].registry = conns[n].registry /\ d[n].stage = conns[n].stage
         /\ d[n].sent = conns[n].sent /\ d[n].reply = conns[n].reply
    BY <2>9, <2>10, <2>11 DEF Socket, SocketFields
  <2> QED BY <2>1, <2>7, <2>8, <2>10, <2>12
<1>11. ASSUME NEW n \in DOMAIN conns, \A r \in active : ids[r] # n PROVE d[n] = conns[n]
  BY <1>3, <1>4, <1>11 DEF Completed
<1>12. ASSUME NEW r \in active, NEW n, n = ids[r]
       PROVE  SocketTrue(n, d[n]) /\ (d[n].mate # NoConn => Mates(n, d[n].mate, d))
  <2>0. r \in Role /\ Other(r) \in Role /\ Other(r) # r /\ Other(Other(r)) = r
    BY <1>6, MeetBasics DEF Other
  <2>1. PICK m : m = ids[Other(r)]
    OBVIOUS
  <2>2. Seated(registry, r, n, conns) /\ (m = NoConn \/ Seated(registry, Other(r), m, conns))
    BY <1>7, <1>8, <1>12, <2>0, <2>1
  <2>3. Truth(registry, n, m, Outcome(registry, slots, r))
    <3>1. \/ r = "sender" /\ n = x.conn /\ m = y.conn
          \/ r = "receiver" /\ n = y.conn /\ m = x.conn
      BY <1>5, <1>12, <2>0, <2>1, MeetBasics DEF Other
    <3> QED BY <1>1, <1>2, <2>0, <2>2, <3>1, OutcomeTrue
  <2>4. PICK o : o = Outcome(registry, slots, r)
    OBVIOUS
  <2>5. /\ n \in DOMAIN conns /\ RoleAt(n) = r
        /\ d[n].mate = m /\ d[n].result = <<o>>
        /\ d[n].registry = registry /\ conns[n].registry = registry
        /\ d[n].stage = "waiting" /\ conns[n].stage = "waiting"
        /\ d[n].sent = conns[n].sent /\ d[n].reply = conns[n].reply
    BY <1>10, <1>12, <2>1, <2>4
  <2>6. SocketTrue(n, conns[n]) /\ Truth(registry, n, m, o)
    BY <2>3, <2>4, <2>5 DEF SocketsTrue
  <2>7. \A a : <<o>> = <<a>> => a = o
    BY OneOf
  <2>8. <<o>> # << >> /\ d[n].reply = << >> /\ \A a : << >> # <<a>>
    BY <2>5, <2>6, OneOf DEF SocketTrue
  <2>9. SocketTrue(n, d[n])
    BY <2>5, <2>6, <2>7, <2>8 DEF SocketTrue, Untold
  <2>10. ASSUME m # NoConn PROVE Mates(n, m, d)
    <3>1. Other(r) \in active
      BY <1>6, <2>0, <2>1, <2>10
    <3>2. m \in DOMAIN conns /\ RoleAt(m) = Other(r) /\ d[m].mate = ids[Other(Other(r))] /\ d[m].registry = registry
      BY <1>10, <2>1, <3>1
    <3> QED BY <1>9, <1>12, <2>0, <2>5, <3>2 DEF Mates
  <2> QED BY <2>5, <2>9, <2>10
<1>13. ASSUME NEW n \in DOMAIN conns, \A r \in active : ids[r] # n
       PROVE  SocketTrue(n, d[n]) /\ (d[n].mate # NoConn => Mates(n, d[n].mate, d))
  <2>1. d[n] = conns[n] /\ SocketTrue(n, conns[n])
    BY <1>11, <1>13 DEF SocketsTrue
  <2>2. ASSUME conns[n].mate # NoConn PROVE Mates(n, conns[n].mate, d)
    <3>1. PICK m : m = conns[n].mate
      OBVIOUS
    <3>2. Mates(n, m, conns) /\ m \in DOMAIN conns /\ conns[m].mate = n
      BY <2>2, <3>1 DEF SocketsTrue, Mates
    <3>3. n # NoConn
      BY MeetBasics DEF Sockets, Socket
    <3>4. ASSUME NEW r \in active, ids[r] = m PROVE FALSE
      <4>1. conns[m].stage = "waiting" /\ conns[m].result = << >>
        BY <1>10, <3>4
      <4>2. conns[m].mate = NoConn
        BY <3>2, <4>1 DEF SocketsTrue, SocketTrue, Untold
      <4> QED BY <3>2, <3>3, <4>2
    <3>5. d[m] = conns[m]
      BY <1>11, <3>2, <3>4
    <3> QED BY <1>9, <2>1, <3>1, <3>2, <3>5 DEF Mates
  <2> QED BY <2>1, <2>2
<1>14. SocketsTrue(d)
  BY <1>9, <1>12, <1>13 DEF SocketsTrue
<1>15. Later(conns, d)
  <2>1. ASSUME NEW n \in DOMAIN conns
        PROVE  d[n].registry = conns[n].registry
               /\ (conns[n].stage \in Done => d[n].stage \in Done /\ d[n].mate = conns[n].mate)
    <3>1. CASE \A r \in active : ids[r] # n
      BY <1>11, <3>1
    <3>2. CASE \E r \in active : ids[r] = n
      BY <1>10, <3>2 DEF Done
    <3> QED BY <3>1, <3>2
  <2> QED BY <1>9, <2>1 DEF Later
<1> QED BY <1>14, <1>15

LEMMA NoRoomTrue == \A g : RoomTrue(g, NoRoom)
BY DEF RoomTrue, NoRoom

\* join and complete: who is told is told the truth.
LEMMA EnterTrue ==
    ASSUME NEW registry \in Registry, NEW role \in Role, NEW lapsed \in BOOLEAN,
           NEW peer, NEW before, Enters(registry, lapsed, role, peer, before),
           SocketsTrue(before), \A g \in Registry : RoomTrue(g, rooms[g]),
           Honest(registry, peer.conn, peer.cap)
    PROVE  SocketsTrue(conn') /\ Later(before, conn') /\ \A g \in Registry : RoomTrue(g, rooms'[g])
<1>1. PICK conns, slots : Entering(registry, lapsed, role, peer, before, conns, slots)
  BY EnterIs
<1>2. /\ Sockets(before) /\ DOMAIN rooms = Registry
      /\ RoomFits(registry, rooms[registry], before)
  BY DEF Enters
<1>3. /\ conns = IF lapsed THEN Expire(before, rooms[registry]) ELSE before
      /\ slots = Seat(Found(registry, lapsed), role, peer)
      /\ rooms' = [rooms EXCEPT ![registry] = Remaining(slots)]
  BY <1>1 DEF Entering
<1>4. /\ Sockets(conns) /\ DOMAIN conns = DOMAIN before
      /\ RoomFits(registry, slots, conns) /\ slots[role] # {}
  BY <1>1 DEF Entering
<1>5. /\ slots[Other(role)] = {} => conn' = conns
      /\ slots[Other(role)] # {} => conn' = Completed(registry, slots, conns)
  BY <1>1 DEF Entering
<1>6. SocketsTrue(conns) /\ Later(before, conns)
  <2>1. \A n \in DOMAIN before : Milder(before[n], conns[n])
    BY <1>2, <1>3, ExpireMilder, SameMilder
  <2>2. \A n \in DOMAIN before : Socket(n, conns[n])
    BY <1>4 DEF Sockets
  <2> QED BY <1>2, <1>4, <2>1, <2>2, MilderTrue
<1>7. RoomTrue(registry, slots)
  <2>1. PICK room : room = Found(registry, lapsed)
    OBVIOUS
  <2>2. RoomTrue(registry, room) /\ DOMAIN room = Role
    BY <1>2, <2>1, NoRoomTrue DEF Found, RoomFits, NoRoom
  <2>3. slots[role] = {peer} /\ \A x \in Role : x # role => slots[x] = room[x]
    BY <1>3, <2>1, <2>2 DEF Seat
  <2> QED BY <2>2, <2>3 DEF RoomTrue
<1>8. \A g \in Registry : RoomTrue(g, rooms'[g])
  <2>1. RoomTrue(registry, Remaining(slots))
    BY <1>7, NoRoomTrue DEF Remaining
  <2> QED BY <1>2, <1>3, <2>1
<1>9. SocketsTrue(conn') /\ Later(conns, conn')
  <2>1. CASE slots[Other(role)] = {}
    <3>1. Later(conns, conns)
      BY DEF Later
    <3> QED BY <1>5, <1>6, <2>1, <3>1
  <2>2. CASE slots[Other(role)] # {}
    <3>1. PICK d : d = Completed(registry, slots, conns)
      OBVIOUS
    <3>2. \A x \in Role : slots[x] # {}
      BY <1>4, <2>2, MeetBasics
    <3>3. SocketsTrue(d) /\ Later(conns, d)
      BY <1>4, <1>6, <1>7, <3>1, <3>2, CompleteTrue
    <3> QED BY <1>5, <2>2, <3>1, <3>3
  <2> QED BY <2>1, <2>2
<1> QED BY <1>6, <1>8, <1>9, LaterTwice

\* What a step may do to a program.
Stays(p) ==
    /\ \A q \in Programs : q # p => prog'[q] = prog[q]
    /\ prog'[p].pc # "connected"
    /\ \/ prog'[p].talk = prog[p].talk /\ prog[p].pc # "connected"
       \/ prog'[p].talk \notin DOMAIN conn

LEMMA RouteFacts ==
    ASSUME RouteInv
    PROVE  /\ SocketsTrue(conn)
           /\ \A registry \in Registry : RoomTrue(registry, rooms[registry])
           /\ \A p \in Programs : Where(p, prog[p], conn)
           /\ \A p, q \in Programs : Together(p, q)
BY DEF RouteInv

\* A program where it was is where it may be, whatever else the WebSockets do.
LEMMA WhereLater ==
    ASSUME NEW p, NEW x, NEW conns, NEW d, Later(conns, d), Where(p, x, conns)
    PROVE  Where(p, x, d)
<1>1. ASSUME NEW n, NEW registry, Own(p, n, registry, conns) PROVE Own(p, n, registry, d)
  BY <1>1 DEF Own, Later
<1>2. ASSUME Heard(p, x, conns) PROVE Heard(p, x, d)
  <2>1. x.talk \in DOMAIN conns
    BY <1>2 DEF Where, Own, Heard
  <2>2. d[x.talk].mate = conns[x.talk].mate /\ d[x.talk].stage \in {"leaving", "closed"}
    BY <1>2, <2>1 DEF Later, Heard, Done
  <2> QED BY <1>2, <2>2 DEF Heard
<1> QED BY <1>1, <1>2 DEF Where

\* Connected programs stay together while neither moves.
LEMMA TogetherLater ==
    ASSUME RouteInv, Later(conn, conn'), NEW p \in Programs, NEW q \in Programs,
           prog'[p] = prog[p],
           prog'[q] = prog[q] \/ prog'[q].pc = "connected" \/ prog'[q].talk \notin DOMAIN conn
             \/ (prog'[q].talk = prog[q].talk /\ prog[q].pc # "connected")
    PROVE  Together(p, q)'
<1> SUFFICES ASSUME prog'[p].pc = "connected", prog'[p].heard, conn'[prog'[p].talk].mate = prog'[q].talk
             PROVE  prog'[q].pc = "connected"
  BY DEF Together
<1>1. Where(p, prog[p], conn) /\ Together(p, q)
  BY RouteFacts
<1>2. PICK n : n = prog[p].talk
  OBVIOUS
<1>3. Heard(p, prog[p], conn)
  BY <1>1 DEF Where
<1>4. n \in DOMAIN conn /\ n # NoConn
  BY <1>1, <1>2, <1>3 DEF Where, Own, Heard
<1>5. conn'[n].mate = conn[n].mate
  BY <1>2, <1>3, <1>4 DEF Later, Heard, Done
<1>6. conn[n].mate # NoConn
  BY <1>2, <1>3 DEF Heard, AnswerTo, Follows, WebRTC, Response
<1>7. conn[n].mate \in DOMAIN conn
  BY <1>4, <1>6, RouteFacts DEF SocketsTrue, Mates
<1> QED BY <1>1, <1>2, <1>5, <1>7 DEF Together

\* The service goes on: the programs are where they were.
LEMMA ServiceStep ==
    ASSUME RouteInv, UNCHANGED <<setting, serverRelay, prog>>,
           SocketsTrue(conn'), Later(conn, conn'), \A g \in Registry : RoomTrue(g, rooms'[g])
    PROVE  RouteInv'
<1>1. \A p \in Programs : Where(p, prog'[p], conn')
  BY RouteFacts, WhereLater
<1>2. \A p, q \in Programs : Together(p, q)'
  BY TogetherLater
<1>3. \A p \in Programs : Where(p, prog[p], conn)'
  BY <1>1, FixedSetting
<1>4. \A g \in Registry : RoomTrue(g, rooms[g])'
  BY FixedSetting
<1>5. SocketsTrue(conn)'
  BY FixedSetting
<1>6. Registry' = Registry
  BY DEF Registry
<1> QED BY <1>2, <1>3, <1>4, <1>5, <1>6 DEF RouteInv

\* A program moves, and no one else.
LEMMA ProgramStep ==
    ASSUME RouteInv, UNCHANGED <<setting, serverRelay>>, NEW p \in Programs, Stays(p),
           SocketsTrue(conn'), Later(conn, conn'), \A g \in Registry : RoomTrue(g, rooms'[g]),
           Where(p, prog'[p], conn')
    PROVE  RouteInv'
<1>1. \A q \in Programs : Where(q, prog'[q], conn')
  <2> SUFFICES ASSUME NEW q \in Programs, q # p PROVE Where(q, prog'[q], conn')
    OBVIOUS
  <2>1. prog'[q] = prog[q]
    BY DEF Stays
  <2> QED BY <2>1, RouteFacts, WhereLater
<1>2. ASSUME NEW q \in Programs, NEW r \in Programs PROVE Together(q, r)'
  <2>1. CASE q = p
    BY <2>1 DEF Stays, Together
  <2>2. CASE q # p
    BY <2>2, TogetherLater DEF Stays
  <2> QED BY <2>1, <2>2
<1>3. \A q \in Programs : Where(q, prog[q], conn)'
  BY <1>1, FixedSetting
<1>4. \A g \in Registry : RoomTrue(g, rooms[g])'
  BY FixedSetting
<1>5. SocketsTrue(conn)'
  BY FixedSetting
<1>6. Registry' = Registry
  BY DEF Registry
<1> QED BY <1>2, <1>3, <1>4, <1>5, <1>6 DEF RouteInv

(***************************************************************************)
(* The handlers.                                                            *)
(***************************************************************************)

\* One WebSocket changes, and nothing new is sent on it but for a failure.
LEMMA OneMilder ==
    ASSUME MeetInv, MeetInv', RouteInv, NEW n \in DOMAIN conn, DOMAIN conn' = DOMAIN conn,
           \A m \in DOMAIN conn : m # n => conn'[m] = conn[m], Milder(conn[n], conn'[n])
    PROVE  SocketsTrue(conn') /\ Later(conn, conn')
<1>1. Sockets(conn) /\ \A m \in DOMAIN conn : Socket(m, conn'[m])
  BY DEF MeetInv, SocketsInv, Sockets
<1>2. \A m \in DOMAIN conn : Milder(conn[m], conn'[m])
  BY SameMilder
<1>3. SocketsTrue(conn)
  BY RouteFacts
<1> QED BY <1>1, <1>2, <1>3, MilderTrue

LEMMA JoinR == ASSUME MeetInv, MeetInv', RouteInv, NEW n \in DOMAIN conn, Join(n) PROVE RouteInv'
<1>1. conn[n].stage = "sent" /\ UNCHANGED <<setting, serverRelay, prog>>
  BY DEF Join
<1>2. Socket(n, conn[n]) /\ SocketTrue(n, conn[n])
  BY RoomFacts, RouteFacts DEF Sockets, SocketsTrue
<1>3. CASE Refused(n)
  <2>1. /\ conn' = [conn EXCEPT ![n].stage = "closed", ![n].sent = << >>,
                               ![n].reply = IF conn[n].up THEN <<Failure>> ELSE @]
        /\ UNCHANGED rooms
    BY <1>3 DEF Refused
  <2>2. /\ DOMAIN conn' = DOMAIN conn /\ \A m \in DOMAIN conn : m # n => conn'[m] = conn[m]
        /\ conn'[n].stage = "closed" /\ conn'[n].sent = << >>
        /\ conn'[n].reply \in {conn[n].reply, <<Failure>>} /\ conn'[n].result = conn[n].result
        /\ conn'[n].registry = conn[n].registry /\ conn'[n].mate = conn[n].mate
    BY <1>2, <2>1 DEF Socket, SocketFields
  <2>3. \A a : <<Failure>> = <<a>> => a = Failure
    BY OneOf
  <2>4. Milder(conn[n], conn'[n])
    BY <2>2, <2>3 DEF Milder, Untold, Done
  <2> QED BY <1>1, <2>1, <2>2, <2>4, OneMilder, RouteFacts, ServiceStep
<1>4. ASSUME NEW lapsed \in BOOLEAN, NEW peer, NEW before, Seats(n, lapsed, peer, before) PROVE RouteInv'
  <2>1. PICK registry \in Registry, role \in Role : registry = conn[n].registry /\ role = RoleAt(n)
    BY JoinSeats
  <2>2. Enters(registry, lapsed, role, peer, before)
    BY <1>4, <2>1 DEF Seats
  <2>3. before = [conn EXCEPT ![n].stage = "waiting", ![n].sent = << >>] /\ peer = Peer(n, conn[n].sent[1])
    BY <1>4 DEF Seats
  <2>4. /\ DOMAIN before = DOMAIN conn /\ \A m \in DOMAIN conn : m # n => before[m] = conn[m]
        /\ before[n].stage = "waiting" /\ before[n].sent = << >>
        /\ before[n].reply = conn[n].reply /\ before[n].result = conn[n].result
        /\ before[n].registry = conn[n].registry /\ before[n].mate = conn[n].mate
    BY <1>2, <2>3 DEF Socket, SocketFields
  <2>5. SocketsTrue(before) /\ Later(conn, before)
    <3>1. \A m \in DOMAIN conn : Milder(conn[m], before[m])
      <4>1. Milder(conn[n], before[n])
        BY <1>1, <2>4 DEF Milder, Untold, Done
      <4> QED BY <2>4, <4>1, SameMilder
    <3>2. \A m \in DOMAIN conn : Socket(m, before[m])
      BY <2>2, <2>4 DEF Enters, Sockets
    <3>3. Sockets(conn) /\ SocketsTrue(conn)
      BY RoomFacts, RouteFacts
    <3> QED BY <2>4, <3>1, <3>2, <3>3, MilderTrue
  <2>6. Honest(registry, peer.conn, peer.cap)
    <3>1. PICK cap : conn[n].sent = <<cap>>
      BY <1>1, <1>2 DEF Socket
    <3>2. peer.conn = n /\ peer.cap = cap
      BY <2>3, <3>1 DEF Peer
    <3> QED BY <1>2, <2>1, <3>1, <3>2 DEF SocketTrue
  <2>7. SocketsTrue(conn') /\ Later(before, conn') /\ \A g \in Registry : RoomTrue(g, rooms'[g])
    BY <2>2, <2>5, <2>6, RouteFacts, EnterTrue
  <2>8. Later(conn, conn')
    BY <2>5, <2>7, LaterTwice
  <2> QED BY <1>1, <2>7, <2>8, ServiceStep
<1> QED BY <1>3, <1>4, JoinSeats

LEMMA DropR == ASSUME MeetInv, MeetInv', RouteInv, NEW n \in DOMAIN conn, Drop(n) PROVE RouteInv'
<1>1. /\ conn' = [conn EXCEPT ![n].stage = "closed", ![n].sent = << >>]
      /\ UNCHANGED <<setting, serverRelay, prog, rooms>>
  BY DEF Drop
<1>2. Socket(n, conn[n])
  BY RoomFacts DEF Sockets
<1>3. /\ DOMAIN conn' = DOMAIN conn /\ \A m \in DOMAIN conn : m # n => conn'[m] = conn[m]
      /\ conn'[n].stage = "closed" /\ conn'[n].sent = << >>
      /\ conn'[n].reply = conn[n].reply /\ conn'[n].result = conn[n].result
      /\ conn'[n].registry = conn[n].registry /\ conn'[n].mate = conn[n].mate
  BY <1>1, <1>2 DEF Socket, SocketFields
<1>4. Milder(conn[n], conn'[n])
  BY <1>3 DEF Milder, Untold, Done
<1> QED BY <1>1, <1>3, <1>4, OneMilder, RouteFacts, ServiceStep

LEMMA AnswerR == ASSUME MeetInv, MeetInv', RouteInv, NEW n \in DOMAIN conn, Answer(n) PROVE RouteInv'
<1>1. /\ conn[n].stage = "waiting" /\ conn[n].result # << >>
      /\ conn' = [conn EXCEPT ![n].stage = "leaving", ![n].result = Tail(@),
                            ![n].reply = IF conn[n].up THEN <<Head(conn[n].result)>> ELSE @]
      /\ UNCHANGED <<setting, serverRelay, prog, rooms>>
  BY DEF Answer
<1>2. Socket(n, conn[n])
  BY RoomFacts DEF Sockets
<1>3. PICK o : conn[n].result = <<o>>
  BY <1>1, <1>2 DEF Socket, Few
<1>4. Head(conn[n].result) = o /\ Tail(conn[n].result) = << >>
  BY <1>3, OneOf
<1>5. /\ DOMAIN conn' = DOMAIN conn /\ \A m \in DOMAIN conn : m # n => conn'[m] = conn[m]
      /\ conn'[n].stage = "leaving" /\ conn'[n].sent = conn[n].sent
      /\ conn'[n].reply \in {conn[n].reply, <<o>>} /\ conn'[n].result = << >>
      /\ conn'[n].registry = conn[n].registry /\ conn'[n].mate = conn[n].mate
  BY <1>1, <1>2, <1>4 DEF Socket, SocketFields
<1>6. \A a : << >> # <<a>>
  BY OneOf
<1>7. Milder(conn[n], conn'[n])
  BY <1>3, <1>5, <1>6 DEF Milder, Untold, Done
<1> QED BY <1>1, <1>5, <1>7, OneMilder, RouteFacts, ServiceStep

LEMMA LeaveR == ASSUME MeetInv, MeetInv', RouteInv, NEW n \in DOMAIN conn, Leave(n) PROVE RouteInv'
<1>1. /\ rooms' = [rooms EXCEPT ![conn[n].registry] = Left(@, RoleAt(n), n)]
      /\ conn' = [conn EXCEPT ![n].stage = "closed", ![n].result = << >>]
      /\ UNCHANGED <<setting, serverRelay, prog>>
  BY DEF Leave
<1>2. Socket(n, conn[n])
  BY RoomFacts DEF Sockets
<1>3. /\ DOMAIN conn' = DOMAIN conn /\ \A m \in DOMAIN conn : m # n => conn'[m] = conn[m]
      /\ conn'[n].stage = "closed" /\ conn'[n].sent = conn[n].sent
      /\ conn'[n].reply = conn[n].reply /\ conn'[n].result = << >>
      /\ conn'[n].registry = conn[n].registry /\ conn'[n].mate = conn[n].mate
  BY <1>1, <1>2 DEF Socket, SocketFields
<1>4. \A a : << >> # <<a>>
  BY OneOf
<1>5. Milder(conn[n], conn'[n])
  BY <1>3, <1>4 DEF Milder, Untold, Done
<1>6. ASSUME NEW g \in Registry PROVE RoomTrue(g, rooms'[g])
  <2>1. RoomTrue(g, rooms[g]) /\ DOMAIN rooms = Registry /\ DOMAIN rooms[g] = Role
    BY RouteFacts, RoomFacts DEF RoomFits
  <2>2. \A x \in Role : rooms'[g][x] \subseteq rooms[g][x]
    BY <1>1, <2>1 DEF Left
  <2> QED BY <2>1, <2>2 DEF RoomTrue
<1> QED BY <1>1, <1>3, <1>5, <1>6, OneMilder, ServiceStep

LEMMA CleanupR ==
    ASSUME MeetInv, MeetInv', RouteInv, NEW lapsed \in SUBSET Registry, Cleanup(lapsed)
    PROVE  RouteInv'
<1>1. /\ rooms' = [g \in Registry |-> Found(g, g \in lapsed)]
      /\ conn' = [n \in DOMAIN conn |->
                   IF conn[n].registry \in lapsed THEN Expire(conn, rooms[conn[n].registry])[n] ELSE conn[n]]
      /\ UNCHANGED <<setting, serverRelay, prog>>
  BY DEF Cleanup
<1>2. \A n \in DOMAIN conn : Milder(conn[n], conn'[n])
  <2> SUFFICES ASSUME NEW n \in DOMAIN conn PROVE Milder(conn[n], conn'[n])
    OBVIOUS
  <2>1. CASE conn[n].registry \in lapsed
    <3>1. PICK g \in Registry : g = conn[n].registry
      BY <2>1
    <3>2. PICK d : d = Expire(conn, rooms[g])
      OBVIOUS
    <3>3. conn'[n] = d[n]
      BY <1>1, <2>1, <3>1, <3>2
    <3>4. Milder(conn[n], d[n])
      BY <3>2, RoomFacts, ExpireMilder
    <3> QED BY <3>3, <3>4
  <2>2. CASE conn[n].registry \notin lapsed
    <3>1. conn'[n] = conn[n]
      BY <1>1, <2>2
    <3> QED BY <3>1, SameMilder
  <2> QED BY <2>1, <2>2
<1>3. \A n \in DOMAIN conn : Socket(n, conn'[n])
  BY <1>1 DEF MeetInv, SocketsInv, Sockets
<1>4. SocketsTrue(conn') /\ Later(conn, conn')
  <2>1. DOMAIN conn' = DOMAIN conn /\ Sockets(conn) /\ SocketsTrue(conn)
    BY <1>1, RoomFacts, RouteFacts
  <2> QED BY <1>2, <1>3, <2>1, MilderTrue
<1>5. \A g \in Registry : RoomTrue(g, rooms'[g])
  BY <1>1, RouteFacts, NoRoomTrue DEF Found
<1> QED BY <1>1, <1>4, <1>5, ServiceStep

(***************************************************************************)
(* The programs.                                                            *)
(***************************************************************************)

\* The program closes its end, or the WebSocket breaks.
LEMMA HangupTrue ==
    ASSUME MeetInv, MeetInv', RouteInv, NEW n, n = NoConn \/ n \in DOMAIN conn,
           conn' = conn \/ conn' = Hangup(n)
    PROVE  SocketsTrue(conn') /\ Later(conn, conn')
<1>1. CASE conn' = conn
  <2>1. Later(conn, conn)
    BY DEF Later
  <2> QED BY <1>1, <2>1, RouteFacts
<1>2. CASE conn' # conn
  <2>1. n \in DOMAIN conn /\ conn' = [conn EXCEPT ![n].up = FALSE, ![n].reply = << >>]
    BY <1>2 DEF Hangup
  <2>2. Socket(n, conn[n])
    BY <2>1, RoomFacts DEF Sockets
  <2>3. /\ DOMAIN conn' = DOMAIN conn /\ \A m \in DOMAIN conn : m # n => conn'[m] = conn[m]
        /\ conn'[n].stage = conn[n].stage /\ conn'[n].sent = conn[n].sent
        /\ conn'[n].reply = << >> /\ conn'[n].result = conn[n].result
        /\ conn'[n].registry = conn[n].registry /\ conn'[n].mate = conn[n].mate
    BY <2>1, <2>2 DEF Socket, SocketFields
  <2>4. \A a : << >> # <<a>>
    BY OneOf
  <2>5. Milder(conn[n], conn'[n])
    BY <2>3, <2>4 DEF Milder, Untold
  <2> QED BY <2>1, <2>3, <2>5, OneMilder
<1> QED BY <1>1, <1>2

\* A program moves without opening a WebSocket.
LEMMA Step ==
    ASSUME MeetInv, MeetInv', RouteInv, UNCHANGED <<setting, serverRelay, rooms>>,
           NEW n, n = NoConn \/ n \in DOMAIN conn, conn' = conn \/ conn' = Hangup(n),
           NEW p \in Programs, Stays(p), Where(p, prog'[p], conn)
    PROVE  RouteInv'
<1>1. SocketsTrue(conn') /\ Later(conn, conn')
  BY HangupTrue
<1>2. Where(p, prog'[p], conn')
  BY <1>1, WhereLater
<1>3. \A g \in Registry : RoomTrue(g, rooms'[g])
  BY RouteFacts
<1> QED BY <1>1, <1>2, <1>3, ProgramStep

LEMMA GotoIs ==
    ASSUME MeetInv, NEW p \in Programs, NEW place, prog' = Goto(p, place)
    PROVE  /\ prog'[p].pc = place /\ prog'[p].talk = prog[p].talk /\ prog'[p].heard = prog[p].heard
           /\ prog'[p].plan = prog[p].plan /\ \A q \in Programs : q # p => prog'[q] = prog[q]
<1>1. prog \in [Programs -> OneProg]
  BY RoomFacts
<1> QED BY <1>1 DEF Goto, OneProg

LEMMA PlannedIs ==
    ASSUME MeetInv, NEW p \in Programs, NEW plan, NEW heard \in BOOLEAN, prog' = Planned(p, plan, heard)
    PROVE  /\ prog'[p].pc = Dialer(p, plan) /\ prog'[p].talk = prog[p].talk
           /\ prog'[p].heard = heard /\ prog'[p].plan = plan
           /\ \A q \in Programs : q # p => prog'[q] = prog[q]
<1>1. prog \in [Programs -> OneProg]
  BY RoomFacts
<1>2. PICK place : place = Dialer(p, plan)
  OBVIOUS
<1>3. PICK x : x = [prog[p] EXCEPT !.pc = place, !.plan = plan, !.heard = heard]
  OBVIOUS
<1>4. prog' = [prog EXCEPT ![p] = x]
  BY <1>1, <1>2, <1>3 DEF Planned, OneProg
<1>5. x.pc = place /\ x.plan = plan /\ x.heard = heard /\ x.talk = prog[p].talk
  BY <1>1, <1>3 DEF OneProg
<1> QED BY <1>1, <1>2, <1>4, <1>5

LEMMA FallbackIs ==
    ASSUME MeetInv, NEW p \in Programs, NEW place, prog' = Fallback(p, place)
    PROVE  /\ prog'[p].pc = place /\ prog'[p].talk = prog[p].talk /\ prog'[p].heard = prog[p].heard
           /\ prog'[p].plan = IF place = "signaling" THEN WebRTCPlan ELSE prog[p].plan
           /\ \A q \in Programs : q # p => prog'[q] = prog[q]
<1>1. prog \in [Programs -> OneProg]
  BY RoomFacts
<1>2. PICK plan : plan = IF place = "signaling" THEN WebRTCPlan ELSE prog[p].plan
  OBVIOUS
<1>3. PICK x : x = [prog[p] EXCEPT !.pc = place, !.plan = plan, !.offer = << >>, !.next = "none"]
  OBVIOUS
<1>4. prog' = [prog EXCEPT ![p] = x]
  BY <1>1, <1>2, <1>3 DEF Fallback, OneProg
<1>5. x.pc = place /\ x.plan = plan /\ x.heard = prog[p].heard /\ x.talk = prog[p].talk
  BY <1>1, <1>3 DEF OneProg
<1> QED BY <1>1, <1>2, <1>4, <1>5

\* A program that heard nothing may be anywhere it does not wait.
Settled == {"signaling", "relay", "failed", "crashed", "webrtc"}

LEMMA Unheard ==
    ASSUME RouteInv, NEW p \in Programs, NEW x, x.talk = prog[p].talk, ~x.heard,
           x.pc \in Settled \/ (x.pc = "dialing direct" /\ setting[p].mode # "auto")
    PROVE  Where(p, x, conn)
<1>1. Where(p, prog[p], conn)
  BY RouteFacts
<1> QED BY <1>1 DEF Where, Settled, Dialing

LEMMA HeardWhere ==
    ASSUME RouteInv, NEW p \in Programs, NEW x, x.talk = prog[p].talk, x.heard, Heard(p, x, conn),
           x.pc \in Settled \/ x.pc = "dialing direct"
    PROVE  Where(p, x, conn)
<1>1. Where(p, prog[p], conn)
  BY RouteFacts
<1> QED BY <1>1 DEF Where, Settled, Dialing

\* Without an answer no program dials direct.
LEMMA UnansweredDialer ==
    \A p : Dialer(p, Unanswered(p)) \in {"signaling", "relay"} /\ Dialer(p, WebRTCPlan) = "signaling"
BY DEF Dialer, Unanswered, WebRTCPlan, Plan

LEMMA ResolveForcedR ==
    ASSUME MeetInv, MeetInv', RouteInv, NEW p \in Programs, ResolveForced(p) PROVE RouteInv'
<1>1. PICK plan : plan = Plan(setting[p].relay, setting[p].local, ~setting[p].local /\ setting[p].direct)
  OBVIOUS
<1>2. /\ prog[p].pc = "start" /\ setting[p].mode # "auto"
      /\ \/ prog' = Planned(p, WebRTCPlan, FALSE)
         \/ prog' = Goto(p, "failed")
         \/ prog' = Planned(p, plan, FALSE)
      /\ UNCHANGED <<setting, serverRelay, conn, rooms, blocked, faults>>
  BY <1>1 DEF ResolveForced, At
<1>3. ~prog[p].heard
  BY <1>2, RouteFacts DEF Where
<1>4. \A x : Dialer(p, x) \in {"dialing direct", "signaling", "relay"}
  BY DEF Dialer
<1>5. /\ prog'[p].pc \in {"dialing direct", "signaling", "relay", "failed"} /\ ~prog'[p].heard
      /\ prog'[p].talk = prog[p].talk /\ \A q \in Programs : q # p => prog'[q] = prog[q]
  <2>1. CASE prog' = Planned(p, WebRTCPlan, FALSE)
    BY <1>4, <2>1, PlannedIs
  <2>2. CASE prog' = Goto(p, "failed")
    BY <1>3, <2>2, GotoIs
  <2>3. CASE prog' = Planned(p, plan, FALSE)
    BY <1>4, <2>3, PlannedIs
  <2> QED BY <1>2, <2>1, <2>2, <2>3
<1>6. Stays(p)
  BY <1>2, <1>5 DEF Stays
<1>7. Where(p, prog'[p], conn)
  BY <1>2, <1>5, Unheard DEF Settled
<1> QED BY <1>2, <1>6, <1>7, Step

LEMMA OfferFailsR ==
    ASSUME MeetInv, MeetInv', RouteInv, NEW p \in Programs, OfferFails(p) PROVE RouteInv'
<1>1. /\ prog[p].pc = "start" /\ prog' = Planned(p, Unanswered(p), FALSE)
      /\ UNCHANGED <<setting, serverRelay, conn, rooms, blocked>>
  BY DEF OfferFails, At
<1>2. /\ prog'[p].pc \in {"signaling", "relay"} /\ ~prog'[p].heard
      /\ prog'[p].talk = prog[p].talk /\ \A q \in Programs : q # p => prog'[q] = prog[q]
  BY <1>1, PlannedIs, UnansweredDialer
<1>3. Stays(p) /\ Where(p, prog'[p], conn)
  BY <1>1, <1>2, Unheard DEF Stays, Settled
<1> QED BY <1>1, <1>3, Step

\* A failure is no answer.
LEMMA ResolveFailure ==
    ASSUME MeetInv, RouteInv, NEW p \in Programs, prog[p].pc = "negotiating", prog' = Resolve(p, Failure)
    PROVE  Stays(p) /\ Where(p, prog'[p], conn)
<1>1. prog' = Goto(p, "failed") \/ prog' = Planned(p, Unanswered(p), FALSE)
  BY DEF Resolve, Failure
<1>2. ~prog[p].heard
  BY RouteFacts DEF Where
<1>3. /\ prog'[p].pc \in {"signaling", "relay", "failed"} /\ ~prog'[p].heard
      /\ prog'[p].talk = prog[p].talk /\ \A q \in Programs : q # p => prog'[q] = prog[q]
  <2>1. CASE prog' = Goto(p, "failed")
    BY <1>2, <2>1, GotoIs
  <2>2. CASE prog' = Planned(p, Unanswered(p), FALSE)
    <3>1. PICK plan : plan = Unanswered(p) /\ Dialer(p, plan) \in {"signaling", "relay"}
      BY UnansweredDialer
    <3>2. PICK heard \in BOOLEAN : heard = FALSE /\ prog' = Planned(p, plan, heard)
      BY <2>2, <3>1
    <3>3. /\ prog'[p].pc = Dialer(p, plan) /\ prog'[p].talk = prog[p].talk /\ prog'[p].heard = heard
          /\ \A q \in Programs : q # p => prog'[q] = prog[q]
      BY <3>2, PlannedIs
    <3> QED BY <3>1, <3>2, <3>3
  <2> QED BY <1>1, <2>1, <2>2
<1> QED BY <1>3, Unheard DEF Stays, Settled

LEMMA RouteLostR ==
    ASSUME MeetInv, MeetInv', RouteInv, NEW p \in Programs, RouteLost(p) PROVE RouteInv'
<1>1. /\ prog[p].pc = "negotiating" /\ prog' = Resolve(p, Failure)
      /\ UNCHANGED <<setting, serverRelay, conn, rooms, blocked, faults>>
  BY DEF RouteLost, At
<1> QED BY <1>1, ResolveFailure, Step

\* What an answer tells a program: it follows it.
LEMMA AnswerIs ==
    ASSUME MeetInv, RouteInv, NEW p \in Programs, NEW n \in DOMAIN conn, n[1] = p,
           NEW a, a = AnswerTo(p, conn[n].mate)
    PROVE  \/ a = WebRTC
           \/ /\ a.kind = "negotiated" /\ a.route = "native" /\ a.direct \in BOOLEAN /\ a.local \in BOOLEAN
              /\ setting[p].client = "native"
              /\ a.local => a.relay = NoRelay /\ ~a.direct
              /\ ~a.local => a.relay # NoRelay \/ a.direct
              /\ a.direct => setting[p].direct
<1>1. CASE conn[n].mate = NoConn
  BY <1>1 DEF AnswerTo
<1>2. CASE conn[n].mate # NoConn
  <2>1. PICK m : m = conn[n].mate
    OBVIOUS
  <2>2. Mates(n, m, conn)
    BY <1>2, <2>1, RouteFacts DEF SocketsTrue
  <2>3. m \in ConnId /\ n \in ConnId
    BY <2>2, RoomFacts DEF Mates, Sockets, Socket
  <2>4. m[1] \in Programs /\ RoleOf[p] # RoleOf[m[1]]
    BY <2>2, <2>3 DEF ConnId, Mates, RoleAt
  <2>5. a = Chosen(p, m[1])
    BY <1>2, <2>1 DEF AnswerTo
  <2> QED BY <2>4, <2>5, ChosenIs
<1> QED BY <1>1, <1>2

\* What a program makes of an answer.
LEMMA ResolveAnswer ==
    ASSUME MeetInv, RouteInv, NEW p \in Programs, prog[p].pc = "negotiating",
           NEW n \in DOMAIN conn, n = prog[p].talk, n[1] = p, n # NoConn,
           conn[n].stage \in {"leaving", "closed"},
           NEW a, a = AnswerTo(p, conn[n].mate), prog' = Resolve(p, a)
    PROVE  Stays(p) /\ Where(p, prog'[p], conn)
<1>0. PICK heard \in BOOLEAN : heard = TRUE
  OBVIOUS
<1>1. CASE a = WebRTC
  <2>1. PICK plan : plan = WebRTCPlan /\ Dialer(p, plan) = "signaling"
    BY UnansweredDialer
  <2>2. prog' = Planned(p, plan, heard)
    BY <1>0, <1>1, <2>1, WebRTCIs DEF Resolve
  <2>3. /\ prog'[p].pc = "signaling" /\ prog'[p].talk = n /\ prog'[p].heard = heard /\ prog'[p].plan = plan
        /\ \A q \in Programs : q # p => prog'[q] = prog[q]
    BY <2>1, <2>2, PlannedIs
  <2>4. Stays(p)
    BY <2>3 DEF Stays
  <2>5. Heard(p, prog'[p], conn)
    BY <1>1, <2>1, <2>3 DEF Heard, Follows
  <2> QED BY <1>0, <2>3, <2>4, <2>5, HeardWhere DEF Settled
<1>2. CASE a # WebRTC
  <2>1. /\ a.kind = "negotiated" /\ a.route = "native" /\ a.direct \in BOOLEAN /\ a.local \in BOOLEAN
        /\ setting[p].client = "native"
        /\ a.local => a.relay = NoRelay /\ ~a.direct
        /\ ~a.local => a.relay # NoRelay \/ a.direct
        /\ a.direct => setting[p].direct
    BY <1>2, AnswerIs
  <2>2. PICK plan : plan = PlanOf(a)
    OBVIOUS
  <2>3. plan.relay = a.relay /\ plan.local = a.local /\ plan.signalDirect = a.direct
    BY <2>2 DEF PlanOf, Plan
  <2>4. Plan(a.relay, a.local, a.direct /\ setting[p].direct) = plan
    <3>1. (a.direct /\ setting[p].direct) = a.direct
      BY <2>1
    <3> QED BY <2>2, <3>1 DEF PlanOf
  <2>5. prog' = Planned(p, plan, heard)
    <3>1. a.kind # "error" /\ a.route # "webrtc" /\ setting[p].client # "web"
      BY <2>1
    <3>2. ~(plan.relay = NoRelay /\ ~plan.local /\ ~plan.signalDirect)
      BY <2>1, <2>3
    <3>3. prog' = IF \/ setting[p].client = "web"
                     \/ plan.relay = NoRelay /\ ~plan.local /\ ~plan.signalDirect
                  THEN Goto(p, "unusable") ELSE Planned(p, plan, TRUE)
      BY <2>4, <3>1 DEF Resolve
    <3> QED BY <1>0, <3>1, <3>2, <3>3
  <2>6. /\ prog'[p].pc = Dialer(p, plan) /\ prog'[p].talk = n /\ prog'[p].heard = heard /\ prog'[p].plan = plan
        /\ \A q \in Programs : q # p => prog'[q] = prog[q]
    BY <2>5, PlannedIs
  <2>7. /\ a.direct => Dialer(p, plan) = "dialing direct"
        /\ ~a.direct => Dialer(p, plan) = "relay"
    BY <2>1, <2>3 DEF Dialer
  <2>8. Stays(p)
    <3>1. prog'[p].pc # "connected"
      BY <2>1, <2>6, <2>7
    <3> QED BY <2>6, <3>1 DEF Stays
  <2>9. Follows(prog'[p], a)
    BY <2>1, <2>2, <2>6, <2>7 DEF Follows, Trying, Dialing
  <2>10. Heard(p, prog'[p], conn)
    BY <2>6, <2>9 DEF Heard
  <2>11. prog'[p].pc \in {"dialing direct", "relay"}
    BY <2>1, <2>6, <2>7
  <2> QED BY <1>0, <2>6, <2>8, <2>10, <2>11, HeardWhere DEF Settled
<1> QED BY <1>1, <1>2

LEMMA ReadRouteR ==
    ASSUME MeetInv, MeetInv', RouteInv, NEW p \in Programs, ReadRoute(p) PROVE RouteInv'
<1>1. PICK n : n = prog[p].talk
  OBVIOUS
<1>2. /\ prog[p].pc = "negotiating" /\ conn[n].reply # << >> /\ prog' = Resolve(p, conn[n].reply[1])
      /\ conn' = Hangup(n) /\ UNCHANGED <<setting, serverRelay, rooms, blocked, faults>>
  BY <1>1 DEF ReadRoute, At
<1>3. n \in DOMAIN conn /\ conn[n].registry = "negotiation"
  BY <1>1, <1>2 DEF MeetInv, ProgInv
<1>4. Socket(n, conn[n]) /\ SocketTrue(n, conn[n]) /\ n # NoConn
  BY <1>3, RoomFacts, RouteFacts, MeetBasics DEF Sockets, Socket, SocketsTrue
<1>5. n[1] = p
  BY <1>1, <1>4, RouteFacts DEF Where, Own
<1>6. PICK a : conn[n].reply = <<a>>
  BY <1>2, <1>4 DEF Socket, Few
<1>7. a = Failure \/ a = AnswerTo(p, conn[n].mate)
  <2>1. Truth("negotiation", n, conn[n].mate, a)
    BY <1>3, <1>4, <1>6 DEF SocketTrue
  <2> QED BY <1>5, <2>1 DEF Truth
<1>8. conn[n].stage \in {"leaving", "closed"}
  BY <1>2, <1>4 DEF Socket, SocketTrue
<1>9. prog' = Resolve(p, a)
  BY <1>2, <1>6
<1>10. Stays(p) /\ Where(p, prog'[p], conn)
  <2>1. CASE a = Failure
    BY <1>2, <1>9, <2>1, ResolveFailure
  <2>2. CASE a = AnswerTo(p, conn[n].mate)
    BY <1>1, <1>2, <1>3, <1>4, <1>5, <1>8, <1>9, <2>2, ResolveAnswer
  <2> QED BY <1>7, <2>1, <2>2
<1> QED BY <1>2, <1>3, <1>10, Step

\* What a program knows that was told to use direct TCP and has not connected.
Trial(p, q, a) ==
    /\ RoleOf[q] # RoleOf[p] /\ setting[p].mode = "auto" /\ setting[q].mode = "auto"
    /\ a = Chosen(p, q) /\ a = AnswerTo(p, conn[prog[p].talk].mate)
    /\ a.route = "native" /\ a.direct /\ prog[p].plan = PlanOf(a) /\ prog[p].plan.relay = a.relay
    /\ prog[p].pc = "direct" => prog[p].next = IF a.relay # NoRelay THEN "relay" ELSE "signaling"

LEMMA PlanIs == \A a : PlanOf(a).relay = a.relay
<1> SUFFICES ASSUME NEW a PROVE PlanOf(a).relay = a.relay
  OBVIOUS
<1>1. PICK direct : direct = a.direct
  OBVIOUS
<1>2. PlanOf(a) = [relay |-> a.relay, local |-> a.local, signalDirect |-> direct]
  BY <1>1 DEF PlanOf, Plan
<1> QED BY <1>2

LEMMA TrialIs ==
    ASSUME MeetInv, RouteInv, NEW p \in Programs, prog[p].heard,
           prog[p].pc \in {"dialing direct", "exchanging", "direct"}
    PROVE  \E q \in Programs : \E a : Trial(p, q, a)
<1>1. PICK n : n = prog[p].talk
  OBVIOUS
<1>2. n # NoConn /\ Heard(p, prog[p], conn) /\ Own(p, n, "negotiation", conn)
  BY <1>1, RouteFacts DEF Where, Heard
<1>3. PICK a : a = AnswerTo(p, conn[n].mate)
  OBVIOUS
<1>4. Follows(prog[p], a)
  BY <1>1, <1>2, <1>3 DEF Heard
<1>5. /\ a.route = "native" /\ a.direct /\ prog[p].plan = PlanOf(a)
      /\ prog[p].pc = "direct" => prog[p].next = IF a.relay # NoRelay THEN "relay" ELSE "signaling"
  <2>1. PICK x : x = prog[p]
    OBVIOUS
  <2>2. x.pc \in {"dialing direct", "exchanging", "direct"} /\ Follows(x, a)
    BY <1>4, <2>1
  <2>3. a.route = "native" /\ a.direct /\ Trying(x, a)
    BY <2>2 DEF Follows
  <2>4. x.plan = PlanOf(a) /\ (x.pc = "direct" => x.next = IF a.relay # NoRelay THEN "relay" ELSE "signaling")
    BY <2>2, <2>3 DEF Trying
  <2> QED BY <2>1, <2>3, <2>4
<1>6. prog[p].plan.relay = a.relay
  BY <1>5, PlanIs
<1>7. conn[n].mate # NoConn
  BY <1>3, <1>5, WebRTCIs DEF AnswerTo
<1>8. PICK m : m = conn[n].mate
  OBVIOUS
<1>9. Mates(n, m, conn) /\ SocketTrue(m, conn[m]) /\ SocketTrue(n, conn[n])
  BY <1>2, <1>7, <1>8, RouteFacts DEF SocketsTrue, Own, Mates
<1>10. m \in ConnId /\ n[1] = p
  BY <1>2, <1>9, RoomFacts DEF Mates, Sockets, Socket, Own
<1>11. m[1] \in Programs /\ RoleOf[m[1]] # RoleOf[p]
  BY <1>9, <1>10 DEF ConnId, Mates, RoleAt
<1>12. setting[p].mode = "auto" /\ setting[m[1]].mode = "auto"
  BY <1>2, <1>9, <1>10 DEF SocketTrue, Mates, Own
<1>13. a = Chosen(p, m[1])
  BY <1>3, <1>7, <1>8 DEF AnswerTo
<1>14. Trial(p, m[1], a)
  BY <1>1, <1>3, <1>5, <1>6, <1>11, <1>12, <1>13 DEF Trial
<1> QED BY <1>11, <1>14

\* Who gives up direct TCP goes where the other goes as well.
LEMMA FallsBack ==
    ASSUME MeetInv, RouteInv, NEW p \in Programs,
           prog[p].pc \in {"dialing direct", "exchanging", "direct"},
           NEW place \in {"relay", "signaling", "failed"}, prog' = Fallback(p, place),
           prog[p].heard => place = IF prog[p].plan.relay # NoRelay THEN "relay" ELSE "signaling"
    PROVE  Stays(p) /\ Where(p, prog'[p], conn)
<1>1. /\ prog'[p].pc = place /\ prog'[p].talk = prog[p].talk /\ prog'[p].heard = prog[p].heard
      /\ prog'[p].plan = IF place = "signaling" THEN WebRTCPlan ELSE prog[p].plan
      /\ \A q \in Programs : q # p => prog'[q] = prog[q]
  BY FallbackIs
<1>2. Stays(p)
  BY <1>1 DEF Stays
<1>3. CASE ~prog[p].heard
  BY <1>1, <1>2, <1>3, Unheard DEF Settled
<1>4. CASE prog[p].heard
  <2>0. PICK q \in Programs : \E a : Trial(p, q, a)
    BY <1>4, TrialIs
  <2>1. PICK a : Trial(p, q, a)
    BY <2>0
  <2>2. Follows(prog'[p], a)
    BY <1>1, <1>4, <2>1 DEF Trial, Follows, Trying
  <2>3. Heard(p, prog[p], conn)
    BY <1>4, RouteFacts DEF Where
  <2>4. Heard(p, prog'[p], conn)
    BY <1>1, <2>1, <2>2, <2>3 DEF Heard, Trial
  <2> QED BY <1>1, <1>2, <1>4, <2>4, HeardWhere DEF Settled
<1> QED BY <1>3, <1>4

\* A program opens a WebSocket and sends what is true of it.
LEMMA OpenedTrue ==
    ASSUME MeetInv, RouteInv, NEW p \in Programs, NEW g \in Registry, NEW cap,
           NEW n, n = NewConn(p), conn' = Opened(n, g, cap),
           Honest(g, n, cap), g = "negotiation" => setting[p].mode = "auto"
    PROVE  /\ SocketsTrue(conn') /\ Later(conn, conn')
           /\ n \notin DOMAIN conn /\ Own(p, n, g, conn')
<1>1. n \notin DOMAIN conn /\ n[1] = p /\ n # NoConn
  <2>1. PICK k \in Nat : n = <<p, k + 1>> /\ \A j : <<p, j>> \in DOMAIN conn <=> j \in 1..k
    BY NewNumber
  <2>2. k + 1 \notin 1..k
    OBVIOUS
  <2>3. n # NoConn
    <3>1. DOMAIN n = 1..2 /\ DOMAIN NoConn = 1..0
      BY <2>1 DEF NoConn
    <3>2. 1 \in 1..2 /\ 1 \notin 1..0
      OBVIOUS
    <3> QED BY <3>1, <3>2
  <2> QED BY <2>1, <2>2, <2>3
<1>2. /\ DOMAIN conn' = DOMAIN conn \cup {n} /\ \A m \in DOMAIN conn : conn'[m] = conn[m]
      /\ conn'[n].registry = g /\ conn'[n].sent = <<cap>>
      /\ conn'[n].stage = "sent" /\ conn'[n].result = << >> /\ conn'[n].reply = << >>
      /\ conn'[n].mate = NoConn
  BY <1>1 DEF Opened
<1>3. SocketTrue(n, conn'[n])
  <2>1. \A a : << >> # <<a>> /\ (<<cap>> = <<a>> => a = cap)
    BY OneOf
  <2> QED BY <1>1, <1>2, <2>1 DEF SocketTrue
<1>4. ASSUME NEW m \in DOMAIN conn
      PROVE  SocketTrue(m, conn'[m]) /\ (conn'[m].mate # NoConn => Mates(m, conn'[m].mate, conn'))
  <2>1. conn'[m] = conn[m] /\ SocketTrue(m, conn[m])
    BY <1>2, RouteFacts DEF SocketsTrue
  <2>2. ASSUME conn[m].mate # NoConn PROVE Mates(m, conn[m].mate, conn')
    <3>1. Mates(m, conn[m].mate, conn)
      BY <2>2, RouteFacts DEF SocketsTrue
    <3> QED BY <1>2, <2>1, <3>1 DEF Mates
  <2> QED BY <2>1, <2>2
<1>5. SocketsTrue(conn')
  BY <1>2, <1>3, <1>4 DEF SocketsTrue
<1>6. Later(conn, conn') /\ Own(p, n, g, conn')
  BY <1>1, <1>2 DEF Later, Own
<1> QED BY <1>1, <1>5, <1>6

LEMMA OfferR == ASSUME MeetInv, MeetInv', RouteInv, NEW p \in Programs, Offer(p) PROVE RouteInv'
<1>1. PICK n : n = NewConn(p)
  OBVIOUS
<1>2. PICK cap : cap = Capability(p)
  OBVIOUS
<1>3. /\ prog[p].pc = "start" /\ setting[p].mode = "auto" /\ n \in ConnId
      /\ conn' = Opened(n, "negotiation", cap)
      /\ prog' = [prog EXCEPT ![p].pc = "negotiating", ![p].talk = n]
      /\ UNCHANGED <<setting, serverRelay, rooms, blocked, faults>>
  BY <1>1, <1>2 DEF Offer, At
<1>4. Honest("negotiation", n, cap)
  <2>1. n # NoConn /\ n[1] = p
    BY <1>1, <1>3, NewNumber, MeetBasics
  <2> QED BY <1>2, <2>1 DEF Honest
<1>5. /\ SocketsTrue(conn') /\ Later(conn, conn')
      /\ n \notin DOMAIN conn /\ Own(p, n, "negotiation", conn')
  BY <1>1, <1>3, <1>4, OpenedTrue, MeetBasics
<1>6. /\ prog'[p].pc = "negotiating" /\ prog'[p].talk = n /\ prog'[p].heard = prog[p].heard
      /\ \A q \in Programs : q # p => prog'[q] = prog[q]
  BY <1>3, RoomFacts DEF OneProg
<1>7. ~prog[p].heard
  BY <1>3, RouteFacts DEF Where
<1>8. Stays(p) /\ Where(p, prog'[p], conn')
  BY <1>5, <1>6, <1>7 DEF Stays, Where, Dialing
<1>9. \A g \in Registry : RoomTrue(g, rooms'[g])
  BY <1>3, RouteFacts
<1> QED BY <1>3, <1>5, <1>8, <1>9, ProgramStep

\* What a program offers for a direct connection is true of it.
LEMMA OfferHonest ==
    ASSUME OnePair, MeetInv, RouteInv, NEW p \in Programs, prog[p].pc = "dialing direct",
           NEW n, n[1] = p, n # NoConn, NEW cap, cap.relayFallback <=> prog[p].plan.relay # NoRelay
    PROVE  Honest("direct", n, cap)
<1> SUFFICES ASSUME setting[p].mode = "auto", NEW r \in Programs, RoleOf[r] # RoleOf[p]
             PROVE  cap.relayFallback <=> Chosen(p, r).relay # NoRelay
  BY DEF Honest
<1>1. prog[p].heard
  BY RouteFacts DEF Where, Dialing
<1>2. PICK q \in Programs : \E a : Trial(p, q, a)
  BY <1>1, TrialIs
<1>3. PICK a : Trial(p, q, a)
  BY <1>2
<1>4. q = r
  BY <1>3, AloneInRole DEF Trial
<1>5. a = Chosen(p, r) /\ prog[p].plan.relay = a.relay
  BY <1>3, <1>4 DEF Trial
<1> QED BY <1>5

\* A program that heard an answer keeps to it.
LEMMA HeardLater ==
    ASSUME MeetInv, RouteInv, NEW p \in Programs, prog[p].heard, NEW d, Later(conn, d),
           NEW x, x.talk = prog[p].talk, Follows(x, AnswerTo(p, conn[prog[p].talk].mate))
    PROVE  Heard(p, x, d)
<1>1. PICK n : n = prog[p].talk
  OBVIOUS
<1>2. n # NoConn /\ n \in DOMAIN conn /\ conn[n].stage \in Done
  BY <1>1, RouteFacts DEF Where, Heard, Own, Done
<1>3. d[n].stage \in Done /\ d[n].mate = conn[n].mate
  BY <1>2 DEF Later
<1> QED BY <1>1, <1>2, <1>3 DEF Heard, Done

LEMMA ExchangeR ==
    ASSUME OnePair, MeetInv, MeetInv', RouteInv, NEW p \in Programs, Exchange(p) PROVE RouteInv'
<1>1. PICK n : n = NewConn(p)
  OBVIOUS
<1>2. PICK listening \in BOOLEAN, prefers \in BOOLEAN :
        LET offer == [candidates |-> listening, prefers |-> prefers,
                      bidirectional |-> listening /\ setting[p].reuse,
                      relayFallback |-> prog[p].plan.relay # NoRelay]
        IN /\ conn' = Opened(n, "direct", offer)
           /\ prog' = [prog EXCEPT ![p].pc = "exchanging", ![p].swap = n, ![p].offer = <<offer>>]
  BY <1>1 DEF Exchange
<1>3. PICK fallback \in BOOLEAN : fallback <=> prog[p].plan.relay # NoRelay
  OBVIOUS
<1>4. PICK both \in BOOLEAN : both = (listening /\ setting[p].reuse)
  OBVIOUS
<1>5. PICK offer : offer = [candidates |-> listening, prefers |-> prefers,
                            bidirectional |-> both, relayFallback |-> fallback]
  OBVIOUS
<1>6. offer = [candidates |-> listening, prefers |-> prefers,
               bidirectional |-> listening /\ setting[p].reuse,
               relayFallback |-> prog[p].plan.relay # NoRelay]
  BY <1>3, <1>4, <1>5
<1>7. /\ conn' = Opened(n, "direct", offer)
      /\ prog' = [prog EXCEPT ![p].pc = "exchanging", ![p].swap = n, ![p].offer = <<offer>>]
  BY <1>2, <1>6
<1>8. prog[p].pc = "dialing direct" /\ n \in ConnId /\ UNCHANGED <<setting, serverRelay, rooms, blocked, faults>>
  BY <1>1 DEF Exchange, At
<1>9. n # NoConn /\ n[1] = p
  <2>1. PICK k \in Nat : n = <<p, k + 1>>
    BY <1>1, NewNumber
  <2> QED BY <1>8, <2>1, MeetBasics
<1>10. Honest("direct", n, offer)
  <2>1. offer.relayFallback <=> prog[p].plan.relay # NoRelay
    BY <1>3, <1>5
  <2> QED BY <1>8, <1>9, <2>1, OfferHonest
<1>11. /\ SocketsTrue(conn') /\ Later(conn, conn')
       /\ n \notin DOMAIN conn /\ Own(p, n, "direct", conn')
  BY <1>1, <1>7, <1>10, OpenedTrue, MeetBasics
<1>12. /\ prog'[p].pc = "exchanging" /\ prog'[p].swap = n /\ prog'[p].plan = prog[p].plan
       /\ prog'[p].talk = prog[p].talk /\ prog'[p].heard = prog[p].heard
       /\ \A q \in Programs : q # p => prog'[q] = prog[q]
  <2>1. PICK x : x = [prog[p] EXCEPT !.pc = "exchanging", !.swap = n, !.offer = <<offer>>]
    OBVIOUS
  <2>2. prog[p] \in OneProg /\ prog \in [Programs -> OneProg]
    BY RoomFacts
  <2>3. prog' = [prog EXCEPT ![p] = x]
    BY <1>7, <2>1, <2>2 DEF OneProg
  <2>4. /\ x.pc = "exchanging" /\ x.swap = n /\ x.plan = prog[p].plan
        /\ x.talk = prog[p].talk /\ x.heard = prog[p].heard
    BY <2>1, <2>2 DEF OneProg
  <2> QED BY <2>2, <2>3, <2>4
<1>13. Stays(p)
  BY <1>8, <1>12 DEF Stays
<1>14. prog[p].talk = NoConn \/ Own(p, prog[p].talk, "negotiation", conn')
  <2>1. prog[p].talk = NoConn \/ Own(p, prog[p].talk, "negotiation", conn)
    BY RouteFacts DEF Where
  <2> QED BY <1>11, <2>1 DEF Own, Later
<1>15. setting[p].mode = "auto" => prog[p].heard
  BY <1>8, RouteFacts DEF Where, Dialing
<1>16. ASSUME prog[p].heard PROVE Heard(p, prog'[p], conn')
  <2>1. PICK q \in Programs : \E a : Trial(p, q, a)
    BY <1>8, <1>16, TrialIs
  <2>2. PICK a : Trial(p, q, a)
    BY <2>1
  <2>3. Follows(prog'[p], a)
    BY <1>12, <2>2 DEF Trial, Follows, Trying, Dialing
  <2>4. a = AnswerTo(p, conn[prog[p].talk].mate)
    BY <2>2 DEF Trial
  <2>5. PICK y : y = prog'[p]
    OBVIOUS
  <2> QED BY <1>11, <1>12, <1>16, <2>3, <2>4, <2>5, HeardLater
<1>17. Where(p, prog'[p], conn')
  <2>1. PICK y : y = prog'[p]
    OBVIOUS
  <2>2. Where(p, y, conn')
    BY <1>11, <1>12, <1>14, <1>15, <1>16, <2>1 DEF Where, Dialing
  <2> QED BY <2>1, <2>2
<1>18. \A g \in Registry : RoomTrue(g, rooms'[g])
  BY <1>8, RouteFacts
<1> QED BY <1>8, <1>11, <1>13, <1>17, <1>18, ProgramStep

\* A program that may have heard an answer, and whose dial has failed.
LEMMA AfterDirectHeard ==
    ASSUME MeetInv, RouteInv, NEW p \in Programs, prog[p].heard,
           prog[p].pc \in {"dialing direct", "exchanging", "direct"}
    PROVE  AfterDirect(p, prog[p].plan.relay # NoRelay)
             = IF prog[p].plan.relay # NoRelay THEN "relay" ELSE "signaling"
<1>1. PICK q \in Programs : \E a : Trial(p, q, a)
  BY TrialIs
<1>2. setting[p].mode = "auto"
  BY <1>1 DEF Trial
<1> QED BY <1>2 DEF AfterDirect

LEMMA ExchangeFailsR ==
    ASSUME MeetInv, MeetInv', RouteInv, NEW p \in Programs, ExchangeFails(p) PROVE RouteInv'
<1>1. PICK place : place = AfterDirect(p, prog[p].plan.relay # NoRelay)
  OBVIOUS
<1>2. /\ prog[p].pc = "dialing direct" /\ prog' = Fallback(p, place)
      /\ UNCHANGED <<setting, serverRelay, conn, rooms, blocked>>
  BY <1>1 DEF ExchangeFails, At
<1>3. place \in {"relay", "signaling", "failed"}
  BY <1>1, AfterDirectIs
<1>4. prog[p].heard => place = IF prog[p].plan.relay # NoRelay THEN "relay" ELSE "signaling"
  BY <1>1, <1>2, AfterDirectHeard
<1>5. Stays(p) /\ Where(p, prog'[p], conn)
  BY <1>2, <1>3, <1>4, FallsBack
<1> QED BY <1>2, <1>5, Step

LEMMA PeerLostR ==
    ASSUME MeetInv, MeetInv', RouteInv, NEW p \in Programs, PeerLost(p) PROVE RouteInv'
<1>1. PICK place : place = AfterDirect(p, prog[p].plan.relay # NoRelay)
  OBVIOUS
<1>2. /\ prog[p].pc = "exchanging" /\ prog' = Fallback(p, place)
      /\ UNCHANGED <<setting, serverRelay, conn, rooms, blocked, faults>>
  BY <1>1 DEF PeerLost, At
<1>3. place \in {"relay", "signaling", "failed"}
  BY <1>1, AfterDirectIs
<1>4. prog[p].heard => place = IF prog[p].plan.relay # NoRelay THEN "relay" ELSE "signaling"
  BY <1>1, <1>2, AfterDirectHeard
<1>5. Stays(p) /\ Where(p, prog'[p], conn)
  BY <1>2, <1>3, <1>4, FallsBack
<1> QED BY <1>2, <1>5, Step

LEMMA DirectFailsR ==
    ASSUME MeetInv, MeetInv', RouteInv, NEW p \in Programs, DirectFails(p) PROVE RouteInv'
<1>1. PICK place : place = prog[p].next
  OBVIOUS
<1>2. /\ prog[p].pc = "direct" /\ prog' = Fallback(p, place)
      /\ UNCHANGED <<setting, serverRelay, conn, rooms, blocked, faults>>
  BY <1>1 DEF DirectFails, At
<1>3. place \in {"relay", "signaling", "failed"}
  <2>1. prog[p] \in OneProg /\ prog[p].next # "none"
    BY <1>2 DEF MeetInv, ProgInv
  <2> QED BY <1>1, <2>1 DEF OneProg, Nexts
<1>4. prog[p].heard => place = IF prog[p].plan.relay # NoRelay THEN "relay" ELSE "signaling"
  <2> SUFFICES ASSUME prog[p].heard
               PROVE  place = IF prog[p].plan.relay # NoRelay THEN "relay" ELSE "signaling"
    OBVIOUS
  <2>1. PICK q \in Programs : \E a : Trial(p, q, a)
    BY <1>2, TrialIs
  <2> QED BY <1>1, <1>2, <2>1 DEF Trial
<1>5. Stays(p) /\ Where(p, prog'[p], conn)
  BY <1>2, <1>3, <1>4, FallsBack
<1> QED BY <1>2, <1>5, Step

\* What a program makes of its peer's offer for a direct connection.
LEMMA TryDirectR ==
    ASSUME MeetInv, RouteInv, NEW p \in Programs, prog[p].pc = "exchanging",
           NEW own, NEW peer, TryDirect(p, own, peer),
           prog[p].heard => (peer.relayFallback <=> prog[p].plan.relay # NoRelay)
    PROVE  Stays(p) /\ Where(p, prog'[p], conn)
<1>1. PICK useRelay \in BOOLEAN : useRelay <=> prog[p].plan.relay # NoRelay /\ peer.relayFallback
  OBVIOUS
<1>2. PICK place : place = AfterDirect(p, prog[p].plan.relay # NoRelay /\ peer.relayFallback)
  OBVIOUS
<1>3. place \in {"relay", "signaling", "failed"}
  BY <1>2, AfterDirectIs
<1>4. prog[p].heard => place = IF prog[p].plan.relay # NoRelay THEN "relay" ELSE "signaling"
  <2> SUFFICES ASSUME prog[p].heard
               PROVE  place = IF prog[p].plan.relay # NoRelay THEN "relay" ELSE "signaling"
    OBVIOUS
  <2>1. AfterDirect(p, prog[p].plan.relay # NoRelay)
          = IF prog[p].plan.relay # NoRelay THEN "relay" ELSE "signaling"
    BY AfterDirectHeard
  <2>2. CASE prog[p].plan.relay # NoRelay
    BY <1>2, <2>2 DEF AfterDirect
  <2>3. CASE prog[p].plan.relay = NoRelay
    BY <1>2, <2>1, <2>3 DEF AfterDirect
  <2> QED BY <2>2, <2>3
<1>5. \/ prog' = Fallback(p, place)
      \/ prog' = Goto(p, "crashed")
      \/ prog' = [prog EXCEPT ![p].pc = "direct", ![p].next = place, ![p].offer = << >>]
  BY <1>2 DEF TryDirect
<1>6. CASE prog' = Fallback(p, place)
  BY <1>3, <1>4, <1>6, FallsBack
<1>7. CASE prog' = Goto(p, "crashed")
  <2>1. /\ prog'[p].pc = "crashed" /\ prog'[p].talk = prog[p].talk /\ prog'[p].heard = prog[p].heard
        /\ prog'[p].plan = prog[p].plan /\ \A q \in Programs : q # p => prog'[q] = prog[q]
    BY <1>7, GotoIs
  <2>2. Stays(p)
    BY <2>1 DEF Stays
  <2>3. CASE ~prog[p].heard
    BY <2>1, <2>2, <2>3, Unheard DEF Settled
  <2>4. CASE prog[p].heard
    <3>1. PICK q \in Programs : \E a : Trial(p, q, a)
      BY <2>4, TrialIs
    <3>2. PICK a : Trial(p, q, a)
      BY <3>1
    <3>3. Follows(prog'[p], a)
      BY <2>1, <3>2 DEF Trial, Follows, Trying
    <3>4. Heard(p, prog[p], conn)
      BY <2>4, RouteFacts DEF Where
    <3>5. Heard(p, prog'[p], conn)
      BY <2>1, <3>2, <3>3, <3>4 DEF Heard, Trial
    <3> QED BY <2>1, <2>2, <2>4, <3>5, HeardWhere DEF Settled
  <2> QED BY <2>3, <2>4
<1>8. CASE prog' = [prog EXCEPT ![p].pc = "direct", ![p].next = place, ![p].offer = << >>]
  <2>1. PICK x : x = [prog[p] EXCEPT !.pc = "direct", !.next = place, !.offer = << >>]
    OBVIOUS
  <2>2. prog[p] \in OneProg /\ prog \in [Programs -> OneProg]
    BY RoomFacts
  <2>3. prog' = [prog EXCEPT ![p] = x]
    BY <1>8, <2>1, <2>2 DEF OneProg
  <2>4. /\ x.pc = "direct" /\ x.next = place /\ x.swap = prog[p].swap /\ x.plan = prog[p].plan
        /\ x.talk = prog[p].talk /\ x.heard = prog[p].heard
    BY <2>1, <2>2 DEF OneProg
  <2>5. prog'[p] = x /\ \A q \in Programs : q # p => prog'[q] = prog[q]
    BY <2>2, <2>3
  <2>6. Stays(p)
    BY <2>4, <2>5 DEF Stays
  <2>7. Where(p, prog[p], conn)
    BY RouteFacts
  <2>8. ASSUME x.heard PROVE Heard(p, x, conn)
    <3>1. PICK q \in Programs : \E a : Trial(p, q, a)
      BY <2>4, <2>8, TrialIs
    <3>2. PICK a : Trial(p, q, a)
      BY <3>1
    <3>3. x.next = IF a.relay # NoRelay THEN "relay" ELSE "signaling"
      BY <1>4, <2>4, <2>8, <3>2 DEF Trial
    <3>4. Follows(x, a)
      BY <2>4, <3>2, <3>3 DEF Trial, Follows, Trying, Dialing
    <3>5. Heard(p, prog[p], conn)
      BY <2>4, <2>7, <2>8 DEF Where
    <3> QED BY <2>4, <3>2, <3>4, <3>5 DEF Heard, Trial
  <2>9. Where(p, x, conn)
    BY <2>4, <2>7, <2>8 DEF Where, Dialing
  <2> QED BY <2>5, <2>6, <2>9
<1> QED BY <1>5, <1>6, <1>7, <1>8

\* The peer of an exchange has a relay to fall back on if and only if the
\* program has.
LEMMA PeerTrue ==
    ASSUME OnePair, MeetInv, RouteInv, NEW p \in Programs, prog[p].pc = "exchanging", prog[p].heard,
           NEW reply, conn[prog[p].swap].reply = <<reply>>, reply # Failure
    PROVE  reply.peer.relayFallback <=> prog[p].plan.relay # NoRelay
<1>1. PICK n : n = prog[p].swap
  OBVIOUS
<1>2. Own(p, n, "direct", conn)
  BY <1>1, RouteFacts DEF Where
<1>3. SocketTrue(n, conn[n]) /\ n \in DOMAIN conn /\ n[1] = p /\ conn[n].registry = "direct"
  BY <1>2, RouteFacts DEF SocketsTrue, Own
<1>4. PICK m : m = conn[n].mate
  OBVIOUS
<1>5. m # NoConn /\ Honest("direct", m, reply.peer)
  BY <1>1, <1>3, <1>4 DEF SocketTrue, Truth
<1>6. Mates(n, m, conn)
  BY <1>3, <1>4, <1>5, RouteFacts DEF SocketsTrue
<1>7. m[1] \in Programs /\ RoleOf[m[1]] # RoleOf[p]
  <2>1. m \in ConnId
    BY <1>6, RoomFacts DEF Mates, Sockets, Socket
  <2> QED BY <1>3, <1>6, <2>1 DEF ConnId, Mates, RoleAt
<1>8. PICK q \in Programs : \E a : Trial(p, q, a)
  BY TrialIs
<1>9. PICK a : Trial(p, q, a)
  BY <1>8
<1>10. m[1] = q
  BY <1>7, <1>9, AloneInRole DEF Trial
<1>11. setting[q].mode = "auto" /\ RoleOf[p] # RoleOf[q] /\ a = Chosen(p, q) /\ prog[p].plan.relay = a.relay
  BY <1>9 DEF Trial
<1>12. reply.peer.relayFallback <=> Chosen(q, p).relay # NoRelay
  BY <1>5, <1>10, <1>11 DEF Honest
<1>13. a = Chosen(q, p)
  BY <1>11, ChosenIs
<1> QED BY <1>11, <1>12, <1>13

LEMMA ReadPeerR ==
    ASSUME OnePair, MeetInv, MeetInv', RouteInv, NEW p \in Programs, ReadPeer(p) PROVE RouteInv'
<1>1. PICK n : n = prog[p].swap
  OBVIOUS
<1>2. /\ prog[p].pc = "exchanging" /\ conn[n].reply # << >>
      /\ IF Accepts(conn[n].reply[1])
         THEN TryDirect(p, prog[p].offer[1], conn[n].reply[1].peer)
         ELSE prog' = Fallback(p, AfterDirect(p, prog[p].plan.relay # NoRelay))
      /\ conn' = Hangup(n) /\ UNCHANGED <<setting, serverRelay, rooms, blocked, faults>>
  BY <1>1 DEF ReadPeer, At
<1>3. n \in DOMAIN conn
  BY <1>1, <1>2 DEF MeetInv, ProgInv
<1>4. PICK reply : conn[n].reply = <<reply>>
  BY <1>2, <1>3, RoomFacts DEF Sockets, Socket, Few
<1>5. conn[n].reply[1] = reply
  BY <1>4
<1>6. Stays(p) /\ Where(p, prog'[p], conn)
  <2>1. CASE Accepts(reply)
    <3>1. reply # Failure
      BY <2>1 DEF Accepts, Failure
    <3>2. TryDirect(p, prog[p].offer[1], reply.peer)
      BY <1>2, <1>5, <2>1
    <3>3. prog[p].heard => (reply.peer.relayFallback <=> prog[p].plan.relay # NoRelay)
      BY <1>1, <1>2, <1>4, <3>1, PeerTrue
    <3> QED BY <1>2, <3>2, <3>3, TryDirectR
  <2>2. CASE ~Accepts(reply)
    <3>1. PICK place : place = AfterDirect(p, prog[p].plan.relay # NoRelay)
      OBVIOUS
    <3>2. prog' = Fallback(p, place)
      BY <1>2, <1>5, <2>2, <3>1
    <3>3. place \in {"relay", "signaling", "failed"}
      BY <3>1, AfterDirectIs
    <3>4. prog[p].heard => place = IF prog[p].plan.relay # NoRelay THEN "relay" ELSE "signaling"
      BY <1>2, <3>1, AfterDirectHeard
    <3> QED BY <1>2, <3>2, <3>3, <3>4, FallsBack
  <2> QED BY <2>1, <2>2
<1> QED BY <1>2, <1>3, <1>6, Step

\* Of two programs whose addresses the service exchanged, one is the program
\* whose answer the other heard.
LEMMA SwappedIs ==
    ASSUME OnePair, MeetInv, RouteInv, NEW x \in Programs, NEW y \in Programs,
           prog[x].pc = "direct", prog[y].pc = "direct", RoleOf[x] # RoleOf[y], prog[x].heard,
           NEW q \in Programs, conn[prog[x].talk].mate = prog[q].talk
    PROVE  q = y
<1>1. PICK n : n = prog[x].talk
  OBVIOUS
<1>2. PICK m : m = prog[q].talk
  OBVIOUS
<1>3. Own(x, n, "negotiation", conn) /\ n # NoConn
  BY <1>1, RouteFacts DEF Where, Heard
<1>4. PICK r \in Programs : \E a : Trial(x, r, a)
  BY TrialIs
<1>5. PICK a : Trial(x, r, a)
  BY <1>4
<1>6. m # NoConn
  BY <1>1, <1>2, <1>5, WebRTCIs DEF Trial, AnswerTo
<1>7. Own(q, m, "negotiation", conn)
  BY <1>2, <1>6, RouteFacts DEF Where
<1>8. Mates(n, m, conn)
  BY <1>1, <1>2, <1>3, <1>6, RouteFacts DEF SocketsTrue, Own
<1>9. RoleOf[q] # RoleOf[x]
  BY <1>3, <1>7, <1>8 DEF Own, Mates, RoleAt
<1> QED BY <1>9, AloneInRole

LEMMA DirectConnectsR ==
    ASSUME OnePair, MeetInv, MeetInv', RouteInv, NEW x \in Programs, NEW y \in Programs,
           DirectConnects(x, y)
    PROVE  RouteInv'
<1>1. /\ prog[x].pc = "direct" /\ prog[y].pc = "direct" /\ conn[prog[x].swap].mate = prog[y].swap
      /\ prog' = [prog EXCEPT ![x].pc = "connected", ![y].pc = "connected"]
      /\ UNCHANGED <<setting, serverRelay, conn, rooms, blocked, faults>>
  BY DEF DirectConnects, At
<1>2. /\ \A z \in Programs : z # x /\ z # y => prog'[z] = prog[z]
      /\ \A z \in {x, y} : /\ prog'[z].pc = "connected" /\ prog'[z].talk = prog[z].talk
                           /\ prog'[z].heard = prog[z].heard /\ prog'[z].plan = prog[z].plan
  <2>1. prog \in [Programs -> OneProg]
    BY RoomFacts
  <2>2. PICK one : one = [prog EXCEPT ![x].pc = "connected"]
    OBVIOUS
  <2>3. prog' = [one EXCEPT ![y].pc = "connected"]
    BY <1>1, <2>2
  <2>4. /\ DOMAIN one = Programs /\ \A z \in Programs : z # x => one[z] = prog[z]
        /\ one[x].pc = "connected" /\ one[x].talk = prog[x].talk
        /\ one[x].heard = prog[x].heard /\ one[x].plan = prog[x].plan
        /\ \A z \in Programs : DOMAIN one[z] = DOMAIN prog[z]
    BY <2>1, <2>2 DEF OneProg
  <2>5. /\ \A z \in Programs : z # y => prog'[z] = one[z]
        /\ prog'[y].pc = "connected" /\ prog'[y].talk = one[y].talk
        /\ prog'[y].heard = one[y].heard /\ prog'[y].plan = one[y].plan
    BY <2>1, <2>3, <2>4 DEF OneProg
  <2> QED BY <2>4, <2>5
<1>3. RoleOf[x] # RoleOf[y]
  <2>1. Own(x, prog[x].swap, "direct", conn) /\ Own(y, prog[y].swap, "direct", conn)
    BY <1>1, RouteFacts DEF Where
  <2>2. prog[y].swap # NoConn
    BY <2>1, RoomFacts, MeetBasics DEF Own, Sockets, Socket
  <2>3. Mates(prog[x].swap, prog[y].swap, conn)
    BY <1>1, <2>1, <2>2, RouteFacts DEF SocketsTrue, Own
  <2> QED BY <2>1, <2>3 DEF Own, Mates, RoleAt
<1>4. Later(conn, conn') /\ SocketsTrue(conn') /\ \A g \in Registry : RoomTrue(g, rooms'[g])
  BY <1>1, RouteFacts DEF Later
<1>5. ASSUME NEW z \in {x, y} PROVE Where(z, prog'[z], conn)
  <2>1. PICK w : w = prog'[z]
    OBVIOUS
  <2>2. /\ w.pc = "connected" /\ w.talk = prog[z].talk /\ w.heard = prog[z].heard /\ w.plan = prog[z].plan
        /\ prog[z].pc = "direct" /\ z \in Programs
    BY <1>1, <1>2, <2>1
  <2>3. Where(z, prog[z], conn)
    BY <2>2, RouteFacts
  <2>4. ASSUME w.heard PROVE Heard(z, w, conn)
    <3>1. PICK q \in Programs : \E a : Trial(z, q, a)
      BY <2>2, <2>4, TrialIs
    <3>2. PICK a : Trial(z, q, a)
      BY <3>1
    <3>3. Follows(w, a)
      BY <2>2, <3>2 DEF Trial, Follows, Trying, Dialing
    <3>4. Heard(z, prog[z], conn)
      BY <2>2, <2>3, <2>4 DEF Where
    <3> QED BY <2>2, <3>2, <3>3, <3>4 DEF Heard, Trial
  <2>5. Where(z, w, conn)
    BY <2>2, <2>3, <2>4 DEF Where, Dialing
  <2> QED BY <2>1, <2>5
<1>6. \A z \in Programs : Where(z, prog'[z], conn)
  <2> SUFFICES ASSUME NEW z \in Programs PROVE Where(z, prog'[z], conn)
    OBVIOUS
  <2>1. CASE z \in {x, y}
    BY <1>5, <2>1
  <2>2. CASE z \notin {x, y}
    <3>1. prog'[z] = prog[z]
      BY <1>2, <2>2
    <3> QED BY <3>1, RouteFacts
  <2> QED BY <2>1, <2>2
<1>7. \A z \in Programs : Where(z, prog'[z], conn')
  BY <1>4, <1>6, WhereLater
<1>8. ASSUME NEW p \in Programs, NEW q \in Programs PROVE Together(p, q)'
  <2>1. CASE p \notin {x, y}
    <3>1. prog'[p] = prog[p] /\ (prog'[q] = prog[q] \/ prog'[q].pc = "connected")
      BY <1>2, <2>1
    <3> QED BY <1>4, <3>1, TogetherLater
  <2>2. CASE p \in {x, y}
    <3> SUFFICES ASSUME prog'[p].heard, conn'[prog'[p].talk].mate = prog'[q].talk
                 PROVE  prog'[q].pc = "connected"
      BY DEF Together
    <3>1. prog[p].heard /\ conn[prog[p].talk].mate = prog[q].talk
      BY <1>1, <1>2, <2>2
    <3>2. q \in {x, y}
      BY <1>1, <1>3, <2>2, <3>1, SwappedIs
    <3> QED BY <1>2, <3>2
  <2> QED BY <2>1, <2>2
<1>9. \A z \in Programs : Where(z, prog[z], conn)'
  BY <1>1, <1>7, FixedSetting
<1>10. \A g \in Registry : RoomTrue(g, rooms[g])'
  BY <1>1, <1>4, FixedSetting
<1>11. SocketsTrue(conn)'
  BY <1>1, <1>4, FixedSetting
<1>12. Registry' = Registry
  BY DEF Registry
<1> QED BY <1>8, <1>9, <1>10, <1>11, <1>12 DEF RouteInv

\* A program on its way to WebRTC that heard an answer is where it was told to go.
LEMMA JoinSignalingR ==
    ASSUME MeetInv, MeetInv', RouteInv, NEW p \in Programs, JoinSignaling(p) PROVE RouteInv'
<1>1. /\ prog[p].pc = "signaling" /\ prog' = Goto(p, "webrtc") /\ UNCHANGED <<setting, serverRelay, faults>>
  BY DEF JoinSignaling, At
<1>2. /\ prog'[p].pc = "webrtc" /\ prog'[p].talk = prog[p].talk /\ prog'[p].heard = prog[p].heard
      /\ prog'[p].plan = prog[p].plan /\ \A q \in Programs : q # p => prog'[q] = prog[q]
  BY <1>1, GotoIs
<1>3. Stays(p)
  BY <1>1, <1>2 DEF Stays
<1>4. Where(p, prog'[p], conn)
  <2>1. CASE ~prog[p].heard
    BY <1>2, <2>1, Unheard DEF Settled
  <2>2. CASE prog[p].heard
    <3>1. Heard(p, prog[p], conn)
      BY <2>2, RouteFacts DEF Where
    <3>2. PICK a : a = AnswerTo(p, conn[prog[p].talk].mate)
      OBVIOUS
    <3>3. Follows(prog[p], a)
      BY <3>1, <3>2 DEF Heard
    <3>4. Follows(prog'[p], a)
      BY <1>1, <1>2, <3>3 DEF Follows, Trying, Dialing
    <3>5. Heard(p, prog'[p], conn)
      BY <1>2, <3>1, <3>2, <3>4 DEF Heard
    <3> QED BY <1>2, <2>2, <3>5, HeardWhere DEF Settled
  <2> QED BY <2>1, <2>2
<1>5. SocketsTrue(conn') /\ Later(conn, conn') /\ \A g \in Registry : RoomTrue(g, rooms'[g])
  <2>1. CASE UNCHANGED <<conn, rooms, blocked>>
    BY <2>1, RouteFacts DEF Later
  <2>2. ASSUME NEW lapsed \in BOOLEAN, NEW peer, peer = Peer(NoConn, Passive(p)),
               Enters("negotiation", lapsed, RoleOf[p], peer, conn)
        PROVE  SocketsTrue(conn') /\ Later(conn, conn') /\ \A g \in Registry : RoomTrue(g, rooms'[g])
    <3>1. PICK registry \in Registry, role \in Role : registry = "negotiation" /\ role = RoleOf[p]
      BY MeetBasics, Deployed
    <3>2. peer.conn = NoConn /\ peer.cap.client = "webrtc"
      BY <2>2 DEF Peer, Passive
    <3>3. Honest(registry, peer.conn, peer.cap)
      BY <3>1, <3>2 DEF Honest
    <3> QED BY <2>2, <3>1, <3>3, RouteFacts, EnterTrue
  <2> QED BY <2>1, <2>2, SignalingSeats
<1>6. Where(p, prog'[p], conn')
  BY <1>4, <1>5, WhereLater
<1> QED BY <1>1, <1>3, <1>5, <1>6, ProgramStep

(***************************************************************************)
(* Faults, and every step.                                                  *)
(***************************************************************************)

LEMMA LoseR == ASSUME MeetInv, MeetInv', RouteInv, NEW p \in Programs, Lose(p) PROVE RouteInv'
<1>1. conn' = Hangup(Waiting(p)) /\ UNCHANGED <<setting, serverRelay, prog, rooms, blocked>>
  BY DEF Lose
<1>2. SocketsTrue(conn') /\ Later(conn, conn')
  BY <1>1, WaitingOpened, HangupTrue
<1>3. \A g \in Registry : RoomTrue(g, rooms'[g])
  BY <1>1, RouteFacts
<1> QED BY <1>1, <1>2, <1>3, ServiceStep

LEMMA PairTimeoutR == ASSUME MeetInv, MeetInv', RouteInv, NEW p \in Programs, PairTimeout(p) PROVE RouteInv'
<1>1. /\ Waiting(p) # NoConn /\ conn' = Hangup(Waiting(p)) /\ prog' = Goto(p, "failed")
      /\ UNCHANGED <<setting, serverRelay, rooms, blocked>>
  BY DEF PairTimeout
<1>2. prog[p].pc \in {"negotiating", "exchanging"}
  BY <1>1 DEF Waiting, At
<1>3. /\ prog'[p].pc = "failed" /\ prog'[p].talk = prog[p].talk /\ prog'[p].heard = prog[p].heard
      /\ \A q \in Programs : q # p => prog'[q] = prog[q]
  BY <1>1, GotoIs
<1>4. Stays(p)
  BY <1>2, <1>3 DEF Stays
<1>5. Where(p, prog'[p], conn)
  <2>1. CASE ~prog[p].heard
    BY <1>3, <2>1, Unheard DEF Settled
  <2>2. CASE prog[p].heard
    <3>1. prog[p].pc = "exchanging"
      BY <1>2, <2>2, RouteFacts DEF Where
    <3>2. PICK q \in Programs : \E a : Trial(p, q, a)
      BY <2>2, <3>1, TrialIs
    <3>3. PICK a : Trial(p, q, a)
      BY <3>2
    <3>4. Follows(prog'[p], a)
      BY <1>3, <3>3 DEF Trial, Follows, Trying
    <3>5. Heard(p, prog[p], conn)
      BY <2>2, RouteFacts DEF Where
    <3>6. Heard(p, prog'[p], conn)
      BY <1>3, <3>3, <3>4, <3>5 DEF Heard, Trial
    <3> QED BY <1>3, <2>2, <3>6, HeardWhere DEF Settled
  <2> QED BY <2>1, <2>2
<1> QED BY <1>1, <1>4, <1>5, WaitingOpened, Step

LEMMA RestartR == ASSUME MeetInv, MeetInv', RouteInv, NEW p \in Programs, Restart(p) PROVE RouteInv'
<1>1. /\ conn' = Hangup(Waiting(p)) /\ prog' = [prog EXCEPT ![p] = NewProgram]
      /\ UNCHANGED <<setting, serverRelay, rooms, blocked>>
  BY DEF Restart
<1>2. PICK x : x = NewProgram
  OBVIOUS
<1>3. x.pc = "start" /\ x.talk = NoConn /\ ~x.heard
  BY <1>2 DEF NewProgram
<1>4. prog'[p] = x /\ \A q \in Programs : q # p => prog'[q] = prog[q]
  BY <1>1, <1>2, RoomFacts
<1>5. NoConn \notin DOMAIN conn
  BY RoomFacts, MeetBasics DEF Sockets, Socket
<1>6. Stays(p)
  BY <1>3, <1>4, <1>5 DEF Stays
<1>7. Where(p, x, conn)
  BY <1>3 DEF Where, Dialing
<1> QED BY <1>1, <1>4, <1>6, <1>7, WaitingOpened, Step

LEMMA RouteStart == ASSUME Init PROVE RouteInv
<1>1. /\ prog = [p \in Programs |-> NewProgram] /\ conn = [n \in {} |-> n]
      /\ rooms = [registry \in Registry |-> NoRoom]
  BY DEF Init
<1>2. SocketsTrue(conn)
  BY <1>1 DEF SocketsTrue
<1>3. \A registry \in Registry : RoomTrue(registry, rooms[registry])
  BY <1>1, NoRoomTrue
<1>4. PICK x : x = NewProgram
  OBVIOUS
<1>5. x.pc = "start" /\ x.talk = NoConn /\ ~x.heard
  BY <1>4 DEF NewProgram
<1>6. \A p \in Programs : prog[p] = x
  BY <1>1, <1>4
<1>7. \A p \in Programs : Where(p, prog[p], conn)
  BY <1>5, <1>6 DEF Where, Dialing
<1>8. \A p, q \in Programs : Together(p, q)
  BY <1>5, <1>6 DEF Together
<1> QED BY <1>2, <1>3, <1>7, <1>8 DEF RouteInv

LEMMA RouteStutter == ASSUME MeetInv, RouteInv, UNCHANGED vars PROVE RouteInv'
<1>1. UNCHANGED <<setting, serverRelay, prog, conn, rooms, blocked, faults>>
  BY DEF vars
<1>2. Later(conn, conn')
  BY <1>1 DEF Later
<1> QED BY <1>1, <1>2, RouteFacts, ServiceStep

LEMMA RouteStep == ASSUME OnePair, MeetInv, MeetInv', RouteInv, Next PROVE RouteInv'
<1>1. ASSUME NEW n \in DOMAIN conn, Serve(n) PROVE RouteInv'
  BY <1>1, JoinR, DropR, AnswerR, LeaveR DEF Serve
<1>2. ASSUME NEW p \in Programs, Run(p) PROVE RouteInv'
  BY <1>2, ResolveForcedR, OfferR, ReadRouteR, RouteLostR, ExchangeR, ReadPeerR, PeerLostR,
     DirectFailsR, JoinSignalingR DEF Run
<1>3. ASSUME NEW p \in Programs,
             OfferFails(p) \/ ExchangeFails(p) \/ Lose(p) \/ PairTimeout(p) \/ Restart(p)
      PROVE  RouteInv'
  BY <1>3, OfferFailsR, ExchangeFailsR, LoseR, PairTimeoutR, RestartR
<1> QED BY <1>1, <1>2, <1>3, CleanupR, DirectConnectsR DEF Next

\* Two programs that follow one answer, of which one is connected if and only
\* if the other is, are at rest on one route.
LEMMA OneRoute ==
    ASSUME NEW a, NEW x, NEW y, Follows(x, a), Follows(y, a),
           x.pc \in {"connected", "relay", "webrtc"}, y.pc \in {"connected", "relay", "webrtc"},
           x.pc = "connected" <=> y.pc = "connected"
    PROVE  x.pc = y.pc /\ x.plan = y.plan
<1>1. CASE a = WebRTC
  BY <1>1, WebRTCIs DEF Follows
<1>2. CASE a # WebRTC /\ ~a.direct
  BY <1>2 DEF Follows
<1>3. CASE a # WebRTC /\ a.direct
  <2>1. Trying(x, a) /\ Trying(y, a)
    BY <1>3 DEF Follows
  <2>2. \/ x.pc = "connected" /\ x.plan = PlanOf(a)
        \/ x.pc = "relay" /\ x.plan = PlanOf(a) /\ a.relay # NoRelay
        \/ x.pc = "webrtc" /\ x.plan = WebRTCPlan /\ a.relay = NoRelay
    BY <2>1 DEF Trying, Dialing
  <2>3. \/ y.pc = "connected" /\ y.plan = PlanOf(a)
        \/ y.pc = "relay" /\ y.plan = PlanOf(a) /\ a.relay # NoRelay
        \/ y.pc = "webrtc" /\ y.plan = WebRTCPlan /\ a.relay = NoRelay
    BY <2>1 DEF Trying, Dialing
  <2> QED BY <2>2, <2>3
<1> QED BY <1>1, <1>2, <1>3

\* What the run checks follows.
LEMMA RouteKeeps == ASSUME MeetInv, RouteInv PROVE RoutesAgree
<1>1. ASSUME NEW p \in Programs, NEW q \in Programs, Paired(p, q), AtRest(p), AtRest(q)
      PROVE  prog[p].pc = prog[q].pc /\ prog[p].plan = prog[q].plan
  <2>1. PICK n : n = prog[p].talk
    OBVIOUS
  <2>2. PICK m : m = prog[q].talk
    OBVIOUS
  <2>3. Heard(p, prog[p], conn) /\ Heard(q, prog[q], conn) /\ conn[n].mate = m
    BY <1>1, <2>1, <2>2, RouteFacts DEF Paired, Where
  <2>4. n # NoConn /\ m # NoConn /\ Own(p, n, "negotiation", conn) /\ Own(q, m, "negotiation", conn)
    BY <2>1, <2>2, <2>3, RouteFacts DEF Where, Heard
  <2>5. Mates(n, m, conn)
    BY <2>3, <2>4, RouteFacts DEF SocketsTrue, Own
  <2>6. conn[m].mate = n /\ n[1] = p /\ m[1] = q /\ RoleOf[p] # RoleOf[q]
    BY <2>4, <2>5 DEF Mates, Own, RoleAt
  <2>7. PICK a : a = Chosen(p, q)
    OBVIOUS
  <2>8. a = Chosen(q, p)
    BY <2>6, <2>7, ChosenIs
  <2>9. AnswerTo(p, m) = a /\ AnswerTo(q, n) = a
    BY <2>4, <2>6, <2>7, <2>8 DEF AnswerTo
  <2>10. Follows(prog[p], a) /\ Follows(prog[q], a)
    BY <2>1, <2>2, <2>3, <2>6, <2>9 DEF Heard
  <2>11. prog[p].pc = "connected" <=> prog[q].pc = "connected"
    BY <1>1, <2>1, <2>2, <2>3, <2>6, RouteFacts DEF Together, Paired
  <2> QED BY <1>1, <2>10, <2>11, OneRoute DEF AtRest
<1>2. \A p \in Programs : ~At(p, "unusable")
  BY RouteFacts DEF Where, At
<1> QED BY <1>1, <1>2 DEF RoutesAgree

\* The invariant of the routes, for any deployments, relays, connections and
\* faults, of at most one program in each role: every answer the registries
\* hold or sent is about the two programs they name, an offer for a direct
\* connection tells whether the chosen route has a relay, and a program that
\* heard an answer is where that answer leads (routing.Choose,
\* resolveTransportOptions, dialSignaledDirect).
THEOREM RouteInvariant == ASSUME OnePair PROVE Spec => [](MeetInv /\ RouteInv)
<1>1. Init => MeetInv /\ RouteInv
  BY MeetStart, RouteStart
<1>2. MeetInv /\ RouteInv /\ [Next]_vars => (MeetInv /\ RouteInv)'
  <2> SUFFICES ASSUME MeetInv, RouteInv, [Next]_vars PROVE MeetInv' /\ RouteInv'
    OBVIOUS
  <2>1. MeetInv'
    BY MeetStep, MeetStutter
  <2> QED BY <2>1, RouteStep, RouteStutter
<1> QED BY <1>1, <1>2, PTL DEF Spec

\* Two programs that heard one answer come to rest on the same route with the
\* same relay, whatever is lost on the way, and no answer names a route its
\* program cannot take (Choose, resolveTransportOptions, dialSignaledDirect).
THEOREM RoutesAlike == ASSUME OnePair PROVE Spec => []RoutesAgree
<1>1. MeetInv /\ RouteInv => RoutesAgree
  BY RouteKeeps
<1> QED BY <1>1, RouteInvariant, PTL
=============================================================================
