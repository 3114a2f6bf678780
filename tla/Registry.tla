------------------------------- MODULE Registry -------------------------------
(***************************************************************************)
(* The miner registry of internal/fleet/manager.go and what it keeps in     *)
(* state.json (internal/store/store.go): the poll loop with its alerts, the *)
(* requests that change the registry or the pool, the network scan, and     *)
(* persist, which takes a snapshot under one lock and stores it under       *)
(* another.  A step is one critical section or one answer of a miner.       *)
(* Telemetry and the alerts about a single answer (temperature, a share     *)
(* above the network difficulty) are left out, and so is the simulator.     *)
(***************************************************************************)
EXTENDS Integers, FiniteSets

CONSTANTS Hosts,           \* the addresses of the subnet
          Absent,          \* no entry for a host; no host
          Names, NoName,   \* labels a user may give, and none
          Pools, NoPool,   \* stratum pools; what an empty state.json holds
          ConfigPool,      \* the pool of the configuration file
          Handlers,        \* HTTP handlers, and the work engine calling SetPool
          Scanners,        \* the scan's semaphore: probes under way at once
          Polled,          \* bound: the hosts whose polls are followed
          OfflineAfter,
          SavesFail,       \* may writing state.json fail?
          Restarts         \* may nodeosd restart?

\* A registered miner, as far as it is modelled: Name, Online, failCount, and
\* whether there is a history (histCount > 0).
MinerType == [name : Names, online : BOOLEAN, fails : 0 .. OfflineAfter,
              seen : BOOLEAN]

ASSUME RegistryAssumption ==
    /\ IsFiniteSet(Hosts) /\ Polled \subseteq Hosts
    /\ Absent \notin Hosts \union Names \union MinerType \union Handlers \union Scanners
    /\ NoName \in Names
    /\ ConfigPool \in Pools /\ NoPool \notin Pools
    /\ Handlers \intersect Scanners = {}
    /\ OfflineAfter \in Nat \ {0}
    /\ {SavesFail, Restarts} \subseteq BOOLEAN

Threads == Handlers \union Scanners
\* What persist stores: the registered hosts with their names, and the pool.
Snapshots == [names : [Hosts -> Names \union {Absent}],
              pool : Pools \union {NoPool}]
\* Polls: those of the current round, and the one AddMiner starts.
Polls == {"round", "added"} \X Polled

VARIABLES
    miners, \* Manager.miners: a Miner or Absent
    pool,   \* Manager.pool
    th,     \* the threads: program counter, the host it adds, its snapshot
    poll,   \* the polls: "none", "asked", "answered" (and not applied yet)
    scan,   \* Manager.scan, with todo: addresses no probe was started for
    store,  \* store.Store.state
    file,   \* state.json
    up,     \* the miners that answer polls
    \* history
    told,   \* the alert the feed got last about each entry: "none", "offline",
            \* "online"
    saved,  \* did the last write of state.json succeed?
    newest, \* the persist that read last, if it has not stored yet
    overtaken \* did the persist that stored last read before another one?

vars == <<miners, pool, th, poll, scan, store, file, up, told, saved, newest, overtaken>>
registry == <<miners, pool, told>>
disk == <<store, file, saved, newest, overtaken>>

Registered == {h \in Hosts : miners[h] # Absent}
NewMiner(name) == [name |-> name, online |-> FALSE, fails |-> 0, seen |-> FALSE]
Snapshot == [names |-> [h \in Hosts |-> IF miners[h] = Absent THEN Absent
                                        ELSE miners[h].name],
             pool |-> pool]
EmptyState == [names |-> [h \in Hosts |-> Absent], pool |-> NoPool]
NoScan == [running |-> FALSE, total |-> 0, scanned |-> 0, todo |-> {}]
Idle == [pc |-> "idle", host |-> Absent, snap |-> EmptyState]

\* NewManager: the registry a daemon starts with.
LoadedMiners(s) == [h \in Hosts |-> IF s.names[h] = Absent THEN Absent
                                    ELSE NewMiner(s.names[h])]

LoadedPool(s) == IF s.pool = NoPool THEN ConfigPool ELSE s.pool

Init ==
    /\ file = EmptyState /\ store = file /\ saved = TRUE
    /\ miners = LoadedMiners(file) /\ pool = LoadedPool(file)
    /\ th = [t \in Threads |-> Idle]
    /\ poll = [p \in Polls |-> "none"]
    /\ scan = NoScan
    /\ up \in SUBSET Polled
    /\ told = [h \in Hosts |-> "none"]
    /\ newest = Absent /\ overtaken = FALSE

At(t, l) == th[t].pc = l
Return(t) == th' = [th EXCEPT ![t] = Idle]
\* The thread goes on to persist; h is the host it has added, if any.
GoPersist(t, h) ==
    th' = [th EXCEPT ![t] = [Idle EXCEPT !.pc = "persist", !.host = h]]

-----------------------------------------------------------------------------
(* Polling *)

\* pollAll waits for every poll of a round before the next one begins.
PollAll ==
    /\ \A h \in Polled : poll[<<"round", h>>] = "none"
    /\ poll' = [p \in Polls |->
                    IF p[1] = "round" /\ p[2] \in Registered THEN "asked" ELSE poll[p]]
    /\ UNCHANGED <<registry, th, scan, disk, up>>

MinerAnswers(p) ==
    /\ poll[p] = "asked" /\ p[2] \in up
    /\ poll' = [poll EXCEPT ![p] = "answered"]
    /\ UNCHANGED <<registry, th, scan, disk, up>>

EndPoll(p) ==
    /\ poll[p] # "none"
    /\ poll' = [poll EXCEPT ![p] = "none"]
    /\ UNCHANGED <<pool, th, scan, disk, up>>

\* The miner was removed while it was polled.
PollGone(p) ==
    /\ EndPoll(p)
    /\ miners[p[2]] = Absent
    /\ UNCHANGED <<miners, told>>

\* No answer within 4 s, which a miner that is up may cause as well.  failCount
\* is only compared with offlineAfter, where the model stops counting.
FailsAfter(m) == IF m.fails < OfflineAfter THEN m.fails + 1 ELSE m.fails

\* Mutant: a failure that is not the last one needed counts from the start.
PollFailsForgets(p) ==
    /\ EndPoll(p) /\ poll[p] = "asked"
    /\ miners[p[2]] # Absent
    /\ LET m == miners[p[2]]
           lost == m.online /\ FailsAfter(m) >= OfflineAfter
       IN  /\ miners' = [miners EXCEPT
                            ![p[2]].fails = IF lost THEN FailsAfter(m) ELSE 0,
                            ![p[2]].online = m.online /\ ~lost]
           /\ told' = IF lost THEN [told EXCEPT ![p[2]] = "offline"] ELSE told

PollFails(p) ==
    /\ EndPoll(p) /\ poll[p] = "asked"
    /\ miners[p[2]] # Absent
    /\ LET m == miners[p[2]]
           lost == m.online /\ FailsAfter(m) >= OfflineAfter
       IN  /\ miners' = [miners EXCEPT ![p[2]].fails = FailsAfter(m),
                                       ![p[2]].online = m.online /\ ~lost]
           /\ told' = IF lost THEN [told EXCEPT ![p[2]] = "offline"] ELSE told

\* Mutant: whether the miner was offline is asked after it is set online.
PollSucceedsLate(p) ==
    /\ EndPoll(p) /\ poll[p] = "answered"
    /\ miners[p[2]] # Absent
    /\ miners' = [miners EXCEPT ![p[2]] =
                    [@ EXCEPT !.fails = 0, !.online = TRUE, !.seen = TRUE]]
    /\ UNCHANGED told

\* The first answer of an entry is no return.
PollSucceeds(p) ==
    /\ EndPoll(p) /\ poll[p] = "answered"
    /\ miners[p[2]] # Absent
    /\ LET m == miners[p[2]]
           wasOffline == ~m.online /\ m.seen
       IN  /\ miners' = [miners EXCEPT ![p[2]] =
                            [m EXCEPT !.fails = 0, !.online = TRUE, !.seen = TRUE]]
           /\ told' = IF wasOffline THEN [told EXCEPT ![p[2]] = "online"] ELSE told

pollOne(p) == PollGone(p) \/ PollFails(p) \/ PollSucceeds(p)

-----------------------------------------------------------------------------
(* The registry *)

\* AddMiner's critical section, by a handler or a probe of the scan.
AddEntry(t, h, name) ==
    /\ IF miners[h] # Absent
       THEN Return(t) /\ UNCHANGED <<miners, told>>
       ELSE /\ miners' = [miners EXCEPT ![h] = NewMiner(name)]
            /\ told' = [told EXCEPT ![h] = "none"]
            /\ GoPersist(t, h)
    /\ UNCHANGED <<pool, poll, scan, disk, up>>

AddMiner(t) ==
    /\ At(t, "idle")
    /\ \E h \in Hosts, name \in Names : AddEntry(t, h, name)

\* Mutant: the removal is not persisted.
RemoveMinerOnly(t) ==
    /\ At(t, "idle")
    /\ \E h \in Registered :
        /\ miners' = [miners EXCEPT ![h] = Absent]
        /\ told' = [told EXCEPT ![h] = "none"]
    /\ UNCHANGED <<pool, th, poll, scan, disk, up>>

RemoveMiner(t) ==
    /\ At(t, "idle")
    /\ \E h \in Registered :
        /\ miners' = [miners EXCEPT ![h] = Absent]
        /\ told' = [told EXCEPT ![h] = "none"]
    /\ GoPersist(t, Absent)
    /\ UNCHANGED <<pool, poll, scan, disk, up>>

RenameMiner(t) ==
    /\ At(t, "idle")
    /\ \E h \in Registered, name \in Names :
        miners' = [miners EXCEPT ![h].name = name]
    /\ GoPersist(t, Absent)
    /\ UNCHANGED <<pool, told, poll, scan, disk, up>>

SetPool(t) ==
    /\ At(t, "idle")
    /\ pool' \in Pools
    /\ GoPersist(t, Absent)
    /\ UNCHANGED <<miners, told, poll, scan, disk, up>>

\* persist, first half: the snapshot, under Manager.mu.
PersistReads(t) ==
    /\ At(t, "persist")
    /\ th' = [th EXCEPT ![t].pc = "store", ![t].snap = Snapshot]
    /\ newest' = t
    /\ UNCHANGED <<registry, poll, scan, store, file, saved, overtaken, up>>

\* store.Update with saveLocked: state.json is replaced whole or not at all.
Saves(state) ==
    /\ store' = state
    /\ \/ file' = state /\ saved' = TRUE
       \/ SavesFail /\ saved' = FALSE /\ UNCHANGED file

\* persist, second half, under Store.mu; then AddMiner starts a poll (bound: one
\* such poll of a host at a time).  An error is logged and forgotten.  Nothing
\* orders the two halves of two persists.
PersistStores(t) ==
    /\ At(t, "store")
    /\ Saves(th[t].snap)
    /\ overtaken' = (t # newest)
    /\ newest' = IF t = newest THEN Absent ELSE newest
    /\ IF th[t].host \notin Polled THEN UNCHANGED poll
       ELSE /\ poll[<<"added", th[t].host>>] = "none"
            /\ poll' = [poll EXCEPT ![<<"added", th[t].host>>] = "asked"]
    /\ Return(t)
    /\ UNCHANGED <<registry, scan, up>>

\* Another package updates its part of the state; the whole file is written.
OthersSave ==
    /\ ~saved
    /\ Saves(store)
    /\ UNCHANGED <<registry, th, poll, scan, up, newest, overtaken>>

-----------------------------------------------------------------------------
(* The scan *)

\* Mutant: a scan may start while another one runs.
StartScanAnyway ==
    /\ scan' = [NoScan EXCEPT !.running = TRUE]
    /\ UNCHANGED <<registry, th, poll, disk, up>>

StartScan ==
    /\ ~scan.running
    /\ scan' = [NoScan EXCEPT !.running = TRUE]
    /\ UNCHANGED <<registry, th, poll, disk, up>>

\* runScan counts the addresses.
ScanPlans ==
    /\ scan.running /\ scan.total = 0
    /\ scan' = [scan EXCEPT !.total = Cardinality(Hosts), !.todo = Hosts]
    /\ UNCHANGED <<registry, th, poll, disk, up>>

\* A probe takes a place of the semaphore and asks the address.
ProbeBegins(s) ==
    /\ At(s, "idle") /\ scan.running
    /\ \E h \in scan.todo :
        /\ scan' = [scan EXCEPT !.todo = @ \ {h}]
        /\ th' = [th EXCEPT ![s].pc = "probe", ![s].host = h]
    /\ UNCHANGED <<registry, poll, disk, up>>

\* It is counted, and is over if no miner answered within 2 s.  (What answers a
\* probe is left open; the list of addresses that did is for display only.)
ProbeEnds(s) ==
    /\ At(s, "probe")
    /\ scan' = [scan EXCEPT !.scanned = @ + 1]
    /\ \/ Return(s)
       \/ th' = [th EXCEPT ![s].pc = "add"]
    /\ UNCHANGED <<registry, poll, disk, up>>

ProbeAdds(s) == At(s, "add") /\ AddEntry(s, th[s].host, NoName)

\* Mutant: the scan is over when the last probe has started.
ScanEndsEarly ==
    /\ scan.running /\ scan.total # 0 /\ scan.todo = {}
    /\ scan' = [scan EXCEPT !.running = FALSE]
    /\ UNCHANGED <<registry, th, poll, disk, up>>

ScanEnds ==
    /\ scan.running /\ scan.total # 0 /\ scan.todo = {}
    /\ \A s \in Scanners : At(s, "idle")
    /\ scan' = [scan EXCEPT !.running = FALSE]
    /\ UNCHANGED <<registry, th, poll, disk, up>>

-----------------------------------------------------------------------------
(* The world *)

MinerChanges ==
    /\ \E h \in Polled : up' = IF h \in up THEN up \ {h} ELSE up \union {h}
    /\ UNCHANGED <<registry, th, poll, scan, disk>>

DaemonRestart ==
    /\ Restarts
    /\ store' = file /\ saved' = TRUE
    /\ miners' = LoadedMiners(file) /\ pool' = LoadedPool(file)
    /\ th' = [t \in Threads |-> Idle]
    /\ poll' = [p \in Polls |-> "none"]
    /\ scan' = NoScan
    /\ told' = [h \in Hosts |-> "none"]
    /\ newest' = Absent /\ overtaken' = FALSE
    /\ UNCHANGED <<file, up>>

-----------------------------------------------------------------------------
PollStep == PollAll \/ \E p \in Polls : MinerAnswers(p) \/ pollOne(p)

Request(t) == AddMiner(t) \/ RemoveMiner(t) \/ RenameMiner(t) \/ SetPool(t)

persist(t) == PersistReads(t) \/ PersistStores(t)

Probe(s) == ProbeBegins(s) \/ ProbeEnds(s) \/ ProbeAdds(s)

Next ==
    \/ PollStep
    \/ \E t \in Handlers : Request(t)
    \/ \E t \in Threads : persist(t)
    \/ \E s \in Scanners : Probe(s)
    \/ OthersSave \/ StartScan \/ ScanPlans \/ ScanEnds
    \/ MinerChanges \/ DaemonRestart

\* The ticker of the poll loop, and the timeout of a poll.
Fairness == WF_vars(PollAll) /\ \A p \in Polls : WF_vars(pollOne(p))

Spec == Init /\ [][Next]_vars /\ Fairness

-----------------------------------------------------------------------------
(* Properties *)

ScanType == [running : BOOLEAN, total : {0, Cardinality(Hosts)}, scanned : Nat,
             todo : SUBSET Hosts]

\* Every variable keeps its type.
TypeOK ==
    /\ miners \in [Hosts -> MinerType \union {Absent}]
    /\ pool \in Pools
    /\ th \in [Threads -> [pc : {"idle", "persist", "store", "probe", "add"},
                           host : Hosts \union {Absent}, snap : Snapshots]]
    /\ poll \in [Polls -> {"none", "asked", "answered"}]
    /\ scan \in ScanType
    /\ store \in Snapshots /\ file \in Snapshots
    /\ up \subseteq Polled
    /\ told \in [Hosts -> {"none", "offline", "online"}] /\ saved \in BOOLEAN
    /\ newest \in Threads \union {Absent} /\ overtaken \in BOOLEAN

\* The alert feed and the fleet page agree: the last alert about a registered
\* miner says "unreachable" exactly when a miner that was there is shown offline,
\* whatever late answers, removals and additions came in between
\* (manager.go:183-219).
AlertsTellTheState ==
    \A h \in Registered :
        told[h] = "offline" <=> ~miners[h].online /\ miners[h].seen

\* A miner shown online that is down and stays down is reported, unless it is
\* removed (manager.go:194-203).
OutageReported ==
    \A h \in Polled :
        h \in Registered /\ h \notin up ~>
            h \notin Registered \/ h \in up \/ ~miners[h].online

\* The progress of a scan is that of one scan: its probes are counted once, none
\* is left when it ends, and then each was counted (manager.go:574-628).
ScanAccounts ==
    /\ scan.scanned + Cardinality({s \in Scanners : At(s, "probe")})
        + Cardinality(scan.todo) = scan.total
    /\ scan.running \/ \A s \in Scanners : At(s, "idle")

\* When no call is under way, what the store holds is the registry and the pool in
\* force, and so does state.json if it could be written (store.go:1-2: "persists
\* runtime-mutable state (registered miners, pool settings)"), unless the last two
\* persists overlapped and the one that had read first stored last.
StoredIsCurrent ==
    /\ \A t \in Threads : ~At(t, "persist") /\ ~At(t, "store")
    /\ store # EmptyState /\ ~overtaken
    => /\ store = Snapshot
       /\ saved => file = store
=============================================================================
