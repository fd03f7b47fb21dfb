----------------------------- MODULE MCTransfer -----------------------------
(* Transfer instances for TLC. *)
EXTENDS Transfer, TLC

\* Two files and a directory.
TwoFiles == 0 :> 2 @@ 1 :> 1 @@ 2 :> 0
OneFile == 0 :> 3

NoContents == {}
Foreign == {<<9>>}
Lookalikes == {<<1, 9, 1>>, <<9, 9, 9>>}
Rewritten == {<<2, 2, 2>>}
=============================================================================
