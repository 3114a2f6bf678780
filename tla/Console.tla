-------------------------------- MODULE Console --------------------------------
(***************************************************************************)
(* What an open browser sees: the fleet loop that polls, builds a snapshot  *)
(* and broadcasts it (Manager.pollAll with the OnTick callback of           *)
(* server.New), the event stream with its first snapshot, the alerts of the *)
(* fleet, the health monitor and the login, the cached status of the node,  *)
(* and the sessions that open the stream.  One miner stands for the fleet;  *)
(* its registration, failures and scan are in Registry.                     *)
(***************************************************************************)
EXTENDS Health, NodeStatus, Sessions

CONSTANTS Lively,       \* clients whose connection keeps being written
          MaxBest,      \* bound: the miner's best difficulty
          Budget        \* bound: for each part of the system that may be the
                        \* subject of a behaviour, the events of the environment

ASSUME ConsoleAssumption ==
    /\ Lively \subseteq Clients /\ MaxBest \in Nat
    /\ DOMAIN Budget \subseteq {"stream", "node", "health", "sessions"}
    /\ Adders = {"poll", "monitor", "auth"}

VARIABLES focus,        \* the subject of the behaviour
          best,         \* the miner: its best difficulty of this session
          registered,   \* whether the miner is in Manager.miners
          stays,        \* how often it was added, for the properties
          info,         \* Miner.Info as last polled, 0 before
          bestDiffSeen, \* Miner.bestDiffSeen
          poll,         \* answers of GetInfo not yet entered, per goroutine
          phase,        \* fleet loop: "wait", "poll", "sum", "rest", "send"
          draft,        \* the snapshot that is being built, per builder
          events        \* events of the environment so far

fleet == <<best, registered, stays, info, bestDiffSeen>>
env == <<focus, events>>
vars == <<stream, health, node, auth, fleet, poll, phase, draft, env>>

Pollers == {"loop", "added"}
Builders == Clients \union {"loop"}
NoPoll == [at |-> "none"]

Init ==
    /\ StreamInit /\ HealthInit /\ SessionsInit
    /\ focus \in DOMAIN Budget /\ disabled = (focus # "sessions")
    /\ chain \in IF focus = "node" THEN {"down", "ibd"} ELSE {"synced"}
    /\ local = "here" /\ seen = "there"
    /\ IF focus = "node" THEN NodeStarts ELSE NodeKnown
    /\ best = 0 /\ registered = TRUE /\ stays = 1
    /\ info = 0 /\ bestDiffSeen = 0
    /\ poll = [p \in Pollers |-> NoPoll]
    /\ phase = "wait"
    /\ draft = [b \in Builders |-> NoSnapshot]
    /\ events = 0

Event == events < Budget[focus] /\ events' = events + 1 /\ UNCHANGED focus

\* pollOne holds Manager.mu while it enters an answer and while its alert is
\* broadcast; Summary and Miners wait for it.
FleetUnlocked == adding["poll"] = NoAlert

-----------------------------------------------------------------------------
(* The fleet loop                                                           *)

Ask(p) == poll' = [poll EXCEPT ![p] = [at |-> "asked"]]

\* A tick of Run: pollAll starts.
Tick ==
    /\ phase = "wait"
    /\ phase' = "poll"
    /\ IF registered THEN Ask("loop") ELSE UNCHANGED poll
    /\ UNCHANGED <<stream, health, node, auth, fleet, draft, env>>

\* The miner answers with its best difficulty.
Answer(p) ==
    /\ poll[p].at = "asked"
    /\ poll' = [poll EXCEPT ![p] = [at |-> "answered", best |-> best]]
    /\ UNCHANGED <<stream, health, node, auth, fleet, phase, draft, env>>

\* Mutant: the best difficulty does not have to be a new one.
NewBestOrEqual(d) == d > 0 /\ d >= bestDiffSeen
NewBest(d) == d > bestDiffSeen

\* pollOne with the answer: the record, and the alert for a block candidate.
Enter(p) ==
    /\ poll[p].at = "answered" /\ FleetUnlocked
    /\ poll' = [poll EXCEPT ![p] = NoPoll]
    /\ LET d == poll[p].best
           alert == [id |-> 0, typ |-> "block", diff |-> d, stay |-> stays]
       IN  IF ~registered THEN UNCHANGED <<fleet, stream>>
           ELSE /\ info' = d
                /\ bestDiffSeen' = IF NewBest(d) THEN d ELSE bestDiffSeen
                /\ UNCHANGED <<best, registered, stays>>
                /\ IF NewBest(d) /\ netDiff > 0 /\ d >= netDiff
                   THEN Add("poll", alert) /\ UNCHANGED <<clients, chan, missed>>
                   ELSE UNCHANGED stream
    /\ UNCHANGED <<health, node, auth, phase, draft, env>>

\* statusPayload reads the fleet, then the node and the rest, then the miners.
SumOf(b) == draft' = [draft EXCEPT ![b] = [fleet |-> info]]
RestOf(b) ==
    [fleet |-> draft[b].fleet, node |-> status, solo |-> Solo(status),
     system |-> last, miners |-> info]

\* All polls have returned: OnTick builds the snapshot.
LoopSums ==
    /\ phase = "poll" /\ poll["loop"] = NoPoll /\ FleetUnlocked
    /\ SumOf("loop")
    /\ phase' = "rest"
    /\ UNCHANGED <<stream, health, node, auth, fleet, poll, env>>
LoopRest ==
    /\ phase = "rest" /\ FleetUnlocked
    /\ draft' = [draft EXCEPT !["loop"] = RestOf("loop")]
    /\ phase' = "send"
    /\ UNCHANGED <<stream, health, node, auth, fleet, poll, env>>
LoopSends ==
    /\ phase = "send"
    /\ Broadcast([event |-> "snapshot", data |-> draft["loop"]])
    /\ draft' = [draft EXCEPT !["loop"] = NoSnapshot]
    /\ phase' = "wait"
    /\ UNCHANGED <<feed, adding, clients, health, node, auth, fleet, poll, env>>

Loop ==
    \/ Tick \/ LoopSums \/ LoopRest \/ LoopSends
    \/ \E p \in Pollers : Answer(p) \/ Enter(p)

-----------------------------------------------------------------------------
(* The event stream                                                         *)

\* A browser opens the stream, with a session if one is asked for.
Connect(c) ==
    /\ Event
    /\ focus = "stream" \/ (focus = "node" /\ c \in Lively)
    /\ \E t \in Tokens : Authenticated(t)
    /\ Subscribe(c)
    /\ UNCHANGED <<health, node, auth, fleet, poll, phase, draft>>

\* handleSSE builds the first snapshot and writes it past the channel.
FirstSums(c) ==
    /\ conn[c] = "subscribed" /\ FleetUnlocked
    /\ SumOf(c)
    /\ conn' = [conn EXCEPT ![c] = "summed"]
    /\ UNCHANGED <<feed, adding, chan, wire, told, missed, since>>
    /\ UNCHANGED <<health, node, auth, fleet, poll, phase, env>>
FirstWrites(c) ==
    /\ conn[c] = "summed" /\ FleetUnlocked
    /\ wire' = [wire EXCEPT ![c] = RestOf(c)]
    /\ draft' = [draft EXCEPT ![c] = NoSnapshot]
    /\ conn' = [conn EXCEPT ![c] = "live"]
    /\ UNCHANGED <<feed, adding, chan, told, missed, since>>
    /\ UNCHANGED <<health, node, auth, fleet, poll, phase, env>>

Read(c) ==
    /\ Receive(c)
    /\ UNCHANGED <<health, node, auth, fleet, poll, phase, draft, env>>
Disconnect(c) ==
    /\ Leave(c)
    /\ draft' = [draft EXCEPT ![c] = NoSnapshot]
    /\ UNCHANGED <<health, node, auth, fleet, poll, phase, env>>

Notifies(a) ==
    /\ Notify(a)
    /\ UNCHANGED <<health, node, auth, fleet, poll, phase, draft, env>>

-----------------------------------------------------------------------------
(* The rest of the daemon and its environment                               *)

Monitors ==
    /\ focus = "health"
    /\ (Sample \/ CheckKey)
    /\ UNCHANGED <<node, auth, fleet, poll, phase, draft, env>>

NodeLoop ==
    /\ focus \in {"stream", "node"}
    /\ Refreshes
    /\ UNCHANGED <<stream, health, auth, fleet, poll, phase, draft, env>>
AsksPeers ==
    /\ focus = "node" /\ Event
    /\ Peers
    /\ UNCHANGED <<stream, health, auth, fleet, poll, phase, draft>>
NodeChanges ==
    /\ focus = "node" /\ Event
    /\ \E c \in {"down", "ibd", "synced"} : ChainChanges(c)
    /\ UNCHANGED <<stream, health, auth, fleet, poll, phase, draft>>

\* The miner finds a better share, or reboots and starts its session anew.
Share ==
    /\ focus \in {"stream", "node"} /\ Event
    /\ best' \in ((best + 1 .. MaxBest) \union {0}) \ {best}
    /\ UNCHANGED <<stream, health, node, auth, poll, phase, draft>>
    /\ UNCHANGED <<registered, stays, info, bestDiffSeen>>
\* The operator removes the miner, or adds it, which polls it at once.
Remove ==
    /\ focus = "stream" /\ Event /\ registered /\ FleetUnlocked
    /\ registered' = FALSE /\ info' = 0 /\ bestDiffSeen' = 0
    /\ UNCHANGED <<stream, health, node, auth, poll, phase, draft, best, stays>>
AddMiner ==
    /\ focus = "stream" /\ Event /\ ~registered /\ FleetUnlocked
    /\ poll["added"] = NoPoll
    /\ registered' = TRUE /\ stays' = stays + 1
    /\ Ask("added")
    /\ UNCHANGED <<stream, health, node, auth, phase, draft, best, info, bestDiffSeen>>

\* The end of a setup goes to the feed.
SetupAnnounced(h) ==
    /\ SetupEnds(h)
    /\ Add("auth", Alert("setup"))
    /\ UNCHANGED <<clients, chan, missed>>
    /\ UNCHANGED <<health, node, fleet, poll, phase, draft, env>>
Requests ==
    /\ focus = "sessions"
    /\ \/ \E h \in Handlers :
            \/ SetupChecks(h) \/ SetupSets(h) \/ LoginAsked(h) \/ LoginChecks(h)
            \/ LoginIssues(h) \/ ChangeChecks(h) \/ ChangeSets(h)
       \/ \E t \in Tokens : Logout(t) \/ Expire(t) \/ Forget(t)
    /\ UNCHANGED <<stream, health, node, fleet, poll, phase, draft, env>>

\* The daemon restarts: what is in memory is gone.  (Where the node is not the
\* subject, the first refresh has already ended.)
Restart ==
    /\ focus \in {"stream", "sessions"} /\ Event
    /\ StreamForgets /\ HealthForgets
    /\ IF focus = "sessions" THEN UNCHANGED node
       ELSE NodeForgets /\ UNCHANGED <<chain, local, seen>>
    /\ ForgetSessions
    /\ info' = 0 /\ bestDiffSeen' = 0
    /\ poll' = [p \in Pollers |-> NoPoll]
    /\ phase' = "wait"
    /\ draft' = [b \in Builders |-> NoSnapshot]
    /\ UNCHANGED <<best, registered, stays>>

Next ==
    \/ Loop \/ NodeLoop \/ Monitors \/ Requests
    \/ AsksPeers \/ NodeChanges \/ Share \/ Remove \/ AddMiner \/ Restart
    \/ \E h \in Handlers : SetupAnnounced(h)
    \/ \E a \in Adders : Notifies(a)
    \/ \E c \in Clients :
        Connect(c) \/ FirstSums(c) \/ FirstWrites(c) \/ Read(c) \/ Disconnect(c)

\* The loops run on their tickers, calls to bitcoind and to miners end by their
\* timeouts, and an alert is broadcast at once.  A lively client's connection
\* takes what is written to it; nothing is assumed of another one.
Spec ==
    /\ Init /\ [][Next]_vars
    /\ WF_vars(Loop) /\ WF_vars(NodeLoop)
    /\ \A a \in Adders : WF_vars(Notifies(a))
    /\ \A c \in Lively : WF_vars(FirstSums(c) \/ FirstWrites(c)) /\ WF_vars(Read(c))

-----------------------------------------------------------------------------
(* Properties                                                               *)

TypeOK ==
    /\ Len(items) <= Keep
    /\ \A c \in Clients : conn[c] \in {"off", "subscribed", "summed", "live"} /\ Len(chan[c]) <= Cap
    /\ histIdx \in 0 .. HistLen - 1 /\ histCount \in 0 .. HistLen
    /\ monitor \in 0 .. Len(Keys)
    /\ netDiff \in 0 .. 2 /\ public \in {None, "here", "there"}
    /\ phase \in {"wait", "poll", "rest", "send"}
    /\ ended \subseteq issued

\* As long as a miner stays registered, a share is celebrated as a block
\* candidate once, though two goroutines may poll the miner, their answers may
\* come in the wrong order, and the miner's session may start anew
\* (manager.go:224-233).
CandidateOnce ==
    \A i, j \in 1 .. Len(raised) :
        /\ raised[i].typ = "block" /\ raised[j].typ = "block"
        /\ i < j /\ raised[i].stay = raised[j].stay
        => raised[i].diff < raised[j].diff

\* The fleet loop goes on for ever, whatever the clients read
\* (server.go:947: "slow client: drop frame rather than block the fleet loop").
LoopRuns == []<>(phase = "wait") /\ []<>(phase = "send")

\* When nothing changes any more, a client that keeps reading comes to see the
\* state of bitcoind as it is and the fleet as it was last polled, for good: no
\* dropped frame, torn snapshot or frame overtaken by the first snapshot leaves
\* it with an old picture.
Converges ==
    \A c \in Lively :
        <>[](conn[c] = "live" =>
                /\ wire[c].fleet = info /\ wire[c].miners = info
                /\ registered => wire[c].miners = best
                /\ wire[c].node.up = (chain # "down")
                /\ wire[c].node.up => wire[c].node.difficulty = Difficulty(chain))

\* The stream goes on and ends up with the current picture.
StreamLives == LoopRuns /\ Converges
=============================================================================
