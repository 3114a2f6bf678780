---------------------------- MODULE MCAppliance ----------------------------
(* Appliance on small instances. *)
EXTENDS Appliance, TLC

MCKeys == {"prune", "txindex"}
MCVals == {"", "0", "1", "550", "[::1]:9050"}
Pruned(p, t) == ("prune" :> p) @@ ("txindex" :> t)
MCFirst == Pruned("550", "")
\* bitcoind refuses an index over blocks that are pruned.
MCRefused == {Pruned("550", "1")}
MCRejected == {"[::1]:9050"}
MCSubmissions == {"txindex" :> "1", Pruned("0", "1"), Pruned("550", "1"),
                  Pruned("0", "[::1]:9050")}
MCMixes == {{"config", "other"}, {"mempool"}, {"lightning", "remove", "restart"},
            {"update", "config"}}
MCUnits == ("lightning" :> {"cln"}) @@ ("mempool" :> {"db", "web"})
=============================================================================
