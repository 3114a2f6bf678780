------------------------------ MODULE NodeStatus ------------------------------
(***************************************************************************)
(* internal/node/bitcoind.go with the loop of main.go: the cached status of *)
(* bitcoind, the public address pieced together from two sources, and the   *)
(* network difficulty handed to the fleet.  bitcoind itself is external: it *)
(* is down, in its initial block download, or synced.                       *)
(***************************************************************************)
EXTENDS Naturals

CONSTANTS None          \* no answer, no address

VARIABLES chain,        \* bitcoind: "down", "ibd" or "synced"
          local,        \* external: the best address of getnetworkinfo that
                        \* the table places, or None
          seen,         \* external: the address most peers report, likewise
          status,       \* Client.status
          refresh,      \* what Refresh has gathered so far, None between two
          public,       \* Client.pubAddr
          netDiff       \* Manager.networkDifficulty, 0 until it is known

node == <<chain, local, seen, status, refresh, public, netDiff>>

\* The difficulty getblockchaininfo reports: during the download it is that of
\* an old height.
Difficulty(c) == IF c = "ibd" THEN 1 ELSE 2

Unavailable == [up |-> FALSE]
Available(st) == st.up
Synced(st) == st.up /\ ~st.ibd
\* solo of statusPayload: the difficulty the odds are computed from.
Solo(st) ==
    [syncing |-> Available(st) /\ ~Synced(st),
     difficulty |-> IF Synced(st) THEN st.difficulty ELSE 0]

NodeStarts ==
    /\ status = Unavailable /\ refresh = None
    /\ public = None /\ netDiff = 0
\* A daemon that has been up for a while beside a synced node.
NodeKnown ==
    /\ status = [up |-> TRUE, ibd |-> FALSE, difficulty |-> 2, public |-> local]
    /\ refresh = None /\ public = local /\ netDiff = 2
NodeForgets ==
    /\ status' = Unavailable /\ refresh' = None
    /\ public' = None /\ netDiff' = 0

\* Mutant: after an error the last status stays.
RefreshFailsQuietly ==
    /\ refresh = None /\ chain = "down"
    /\ UNCHANGED node
\* getblockchaininfo fails: the status says so and nothing else; the public
\* address stays cached.
RefreshFails ==
    /\ refresh = None /\ chain = "down"
    /\ status' = Unavailable
    /\ UNCHANGED <<chain, local, seen, refresh, public, netDiff>>

\* getblockchaininfo answers.
RefreshChain ==
    /\ refresh = None /\ chain # "down"
    /\ refresh' = [up |-> TRUE, ibd |-> chain = "ibd", difficulty |-> Difficulty(chain)]
    /\ UNCHANGED <<chain, local, seen, status, public, netDiff>>

\* getnetworkinfo answers, or fails and is passed over.
RefreshNetwork ==
    /\ refresh # None /\ "public" \notin DOMAIN refresh
    /\ \E answers \in {chain # "down", FALSE} :
        public' = IF answers /\ local # None THEN local ELSE public
    /\ refresh' = [up |-> TRUE, ibd |-> refresh.ibd,
                   difficulty |-> refresh.difficulty, public |-> public']
    /\ UNCHANGED <<chain, local, seen, status, netDiff>>

\* The other calls fill in numbers only; then setStatus, and the loop of main
\* hands the difficulty to the fleet, whatever the node's progress.
RefreshEnds ==
    /\ refresh # None /\ "public" \in DOMAIN refresh
    /\ status' = refresh
    /\ netDiff' = refresh.difficulty
    /\ refresh' = None
    /\ UNCHANGED <<chain, local, seen, public>>

Refreshes == RefreshFails \/ RefreshChain \/ RefreshNetwork \/ RefreshEnds

\* The UI asks for the peers: the majority's view of our address is cached.
Peers ==
    /\ chain # "down" /\ seen # None
    /\ public' = seen
    /\ UNCHANGED <<chain, local, seen, status, refresh, netDiff>>

\* bitcoind starts, syncs, or stops.
ChainChanges(c) ==
    /\ chain # c
    /\ ~(chain = "synced" /\ c = "ibd")
    /\ chain' = c
    /\ UNCHANGED <<local, seen, status, refresh, public, netDiff>>
=============================================================================
