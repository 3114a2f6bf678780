----------------------------- MODULE MCFleetOps -----------------------------
(* FleetOps on small instances. *)
EXTENDS FleetOps, TLC

CONSTANTS h1, h2

MCPools == {[url |-> "a", fb |-> "b", user |-> "{worker}"],
            [url |-> "b", fb |-> None, user |-> "plain"]}
MCFirst == [url |-> "a", fb |-> "b", user |-> "{worker}"]
MCLists == {<<>>, <<h2, h1>>, <<h1, h1>>}
MCTunings == {"f" :> <<"BM1366", "eco">>}
Symmetry == Permutations(Calls)
=============================================================================
