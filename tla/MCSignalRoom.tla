---------------------------- MODULE MCSignalRoom ----------------------------
(* SignalRoom instances for TLC. *)
EXTENDS SignalRoom, TLC

CONSTANTS s1, s2, r1, l1

\* One sender and one receiver.
PlainRoles == s1 :> "sender" @@ r1 :> "receiver"

\* Two senders compete for one receiver, and a legacy client names no role.
Rivals == s1 :> "sender" @@ s2 :> "sender" @@ r1 :> "receiver" @@ l1 :> "none"
=============================================================================
