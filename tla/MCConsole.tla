------------------------------ MODULE MCConsole ------------------------------
(* Console on a small instance. *)
EXTENDS Console
MCKeys == <<"disk", "smart">>
MCBudget == [stream |-> 3, node |-> 2, health |-> 0, sessions |-> 2]
==============================================================================
