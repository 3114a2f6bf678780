----------------------------- MODULE MCRegistry -----------------------------
(* Registry on small instances. *)
EXTENDS Registry
=============================================================================
