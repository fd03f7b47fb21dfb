----------------------------- MODULE MCTurnQuota -----------------------------
(* TurnQuota instances for TLC. *)
EXTENDS TurnQuota, TLC

CONSTANTS c1, c2, u1, u2, r1, r2

\* Two addresses of one host; credentials and relay addresses are alike.
Addresses == {c1, c2}
HostOf == [c \in Addresses |-> "h1"]
Credentials == {u1, u2}
RelayAddresses == {r1, r2}
Limits == "all" :> 2 @@ "user" :> 2 @@ "ip" :> 2

Alike == Permutations(Addresses) \cup Permutations(Credentials) \cup Permutations(RelayAddresses)
=============================================================================
