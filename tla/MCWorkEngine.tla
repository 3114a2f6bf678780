---------------------------- MODULE MCWorkEngine ----------------------------
(* WorkEngine on small instances. *)
EXTENDS WorkEngine, TLC

\* The pools outside are alike.
Alike == Permutations(ExtPools)
=============================================================================
