----------------------------- MODULE MCSendPath -----------------------------
(* SendPath instances for TLC. *)
EXTENDS SendPath, TLC

CONSTANTS w1, w2

TwoWorkers == {w1, w2}

\* A large and a small file: the smaller, the more weight; the small one is
\* resumed.
Weights == 0 :> 1 @@ 1 :> 2
Lengths == 0 :> 4 @@ 1 :> 1
Prefixes == 0 :> 0 @@ 1 :> 1
=============================================================================
