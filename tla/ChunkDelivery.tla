---------------------------- MODULE ChunkDelivery ----------------------------
(***************************************************************************)
(* What the sender of a file expects of a chunkMessageSender                *)
(* (internal/transfer/parallel_sender.go): chunks are taken one after the   *)
(* other and each is sent at most once, in any order; a Close without an    *)
(* error says that every one of those taken was sent, once.                 *)
(***************************************************************************)
EXTENDS Naturals, BagsExt

CONSTANT Chunks   \* bound: chunks of the transfer

VARIABLES
    taken,    \* chunks for which SendChunk returned nil
    sent,     \* the chunks given to a pipe, a bag: how often each was
    outcome   \* "open" until the sender is closed

vars == <<taken, sent, outcome>>

Init == taken = 0 /\ sent = << >> /\ outcome = "open"

Take == outcome = "open" /\ taken < Chunks /\ taken' = taken + 1 /\ UNCHANGED <<sent, outcome>>

Deliver ==
    /\ outcome = "open"
    /\ \E chunk \in 1..taken : chunk \notin DOMAIN sent /\ sent' = BagAdd(sent, chunk)
    /\ UNCHANGED <<taken, outcome>>

Succeed ==
    /\ outcome = "open" /\ sent = [chunk \in 1..taken |-> 1]
    /\ outcome' = "success" /\ UNCHANGED <<taken, sent>>

Fail == outcome = "open" /\ outcome' = "failure" /\ UNCHANGED <<taken, sent>>

Next == Take \/ Deliver \/ Succeed \/ Fail

Spec == Init /\ [][Next]_vars
=============================================================================
