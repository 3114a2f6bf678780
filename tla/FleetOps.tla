------------------------------- MODULE FleetOps -------------------------------
(***************************************************************************)
(* The commands that internal/fleet sends to miners: ApplyPool, ApplyPreset,*)
(* PatchMiner and RestartMiner, with the AxeOS client under them and the    *)
(* devices at the other end.  A call is one HTTP request to nodeosd; calls  *)
(* run side by side and nothing orders them.  A step is one critical        *)
(* section of Manager.mu or one request to a device.                        *)
(*                                                                          *)
(* A device keeps what PATCH writes in flash and runs with it only after a  *)
(* restart.  A request to it has three outcomes: done and answered, done    *)
(* with the answer lost or late, and not done.  A pool is its URL, its      *)
(* fallback URL and whether its user holds {worker}; a frequency and a      *)
(* voltage are named by the preset they belong to.  The alerts are left out.*)
(***************************************************************************)
EXTENDS Integers, Sequences, FiniteSets

CONSTANTS Calls,    \* bound: requests
          Hosts,
          Urls,     \* pool URLs
          Pools,    \* pools that the user sets
          Lists,    \* host lists of POST /api/pool/apply, <<>> for all online
          Asics,    \* models of miners with presets
          PresetIDs, Standard, \* eco, standard, turbo; the vendor's default
          FirstPool, FirstAsic, \* the pool and the devices at the start
          Tuned,    \* bound: hosts that are tuned or taken over
          Tunings,  \* what clients of PATCH /api/miners/{host} tune
          Swaps,    \* may another device take over an address?
          None      \* no URL, no call, no model

Presets == Asics \X PresetIDs
Settings == [url : Urls, fb : Urls \union {None}, worker : Hosts \union {"plain"},
             f : Presets, v : Presets]

ASSUME OpsAssumption ==
    /\ None \notin Urls \union Calls \union Hosts \union Asics
    /\ IsFiniteSet(Hosts)
    /\ Pools \subseteq [url : Urls, fb : Urls \union {None}, user : {"plain", "{worker}"}]
    /\ FirstPool \in Pools /\ FirstAsic \in Asics /\ Standard \in PresetIDs
    /\ Lists \subseteq Seq(Hosts) /\ Tuned \subseteq Hosts /\ Swaps \in BOOLEAN

\* The old values with the new ones written over them.
Written(new, old) ==
    [x \in DOMAIN new \union DOMAIN old |-> IF x \in DOMAIN new THEN new[x] ELSE old[x]]

VARIABLES
    pool,   \* Manager.pool
    miner,  \* Manager.miners: Online, and the ASIC of the last Info
    dev,    \* the devices: ASIC, settings in flash, settings in use, up
    call,   \* per call: operation, pc, the pool or the fields it sends, its
            \* hosts and the one it is at, the results by host (the last one
            \* of a host that is named twice)
    \* history
    alone,  \* the only call that reached a device since it wrote to it, or None
    odd     \* hosts tuned field by field by a client, or taken over

vars == <<pool, miner, dev, call, alone, odd>>

Idle == [op |-> "none", pc |-> "idle", pool |-> None, tune |-> <<>>,
         hosts |-> <<>>, i |-> 1, res |-> <<>>]
Factory(asic, p) ==
    LET s == [url |-> p.url, fb |-> None, worker |-> "plain",
              f |-> <<asic, Standard>>, v |-> <<asic, Standard>>]
    IN [asic |-> asic, nvs |-> s, use |-> s, up |-> TRUE]

Init ==
    /\ pool = FirstPool
    /\ miner = [h \in Hosts |-> [online |-> FALSE, asic |-> None]]
    /\ dev = [h \in Hosts |-> Factory(FirstAsic, pool)]
    /\ call = [c \in Calls |-> Idle]
    /\ alone = [h \in Hosts |-> None] /\ odd = {}

-----------------------------------------------------------------------------
(* Requests to nodeosd                                                      *)

\* PUT /api/pool
SetPool(p) ==
    /\ pool' = p
    /\ UNCHANGED <<miner, dev, call, alone, odd>>

Begins(c, op, pc, p, tune, hosts) ==
    /\ call[c].op = "none"
    /\ call' = [call EXCEPT ![c] = [op |-> op, pc |-> pc, pool |-> p, tune |-> tune,
                                    hosts |-> hosts, i |-> 1, res |-> <<>>]]
    /\ UNCHANGED <<pool, miner, dev, alone, odd>>

\* The online miners, in some order (Miners sorts them).
AllOnline == {s \in UNION {[1 .. n -> Hosts] : n \in 0 .. Cardinality(Hosts)} :
    /\ \A i, j \in DOMAIN s : s[i] = s[j] => i = j
    /\ {s[i] : i \in DOMAIN s} = {h \in Hosts : miner[h].online}}

\* ApplyPool reads the pool once.
ApplyPool(c, list) ==
    \E hosts \in IF list = <<>> THEN AllOnline ELSE {list} :
        Begins(c, "pool", IF hosts = <<>> THEN "over" ELSE "patch", pool, <<>>, hosts)

\* Mutant: an unknown ASIC gets the presets of another one.
ApplyPresetGuesses(c, h, id) ==
    \E a \in Asics :
        Begins(c, "preset", "patch", None, [f |-> <<a, id>>, v |-> <<a, id>>], <<h>>)

\* ApplyPreset looks the ASIC up in the last answer of the device.
PresetFields(p) == [f |-> p, v |-> p]
ApplyPreset(c, h, id) ==
    /\ miner[h].asic # None
    /\ Begins(c, "preset", "patch", None, PresetFields(<<miner[h].asic, id>>), <<h>>)

\* PatchMiner passes frequency and coreVoltage on, alone or together.
PatchMiner(c, h, t) == Begins(c, "patch", "patch", None, t, <<h>>)

RestartMiner(c, h) == Begins(c, "restart", "restart", None, <<>>, <<h>>)

-----------------------------------------------------------------------------
(* Requests to a device                                                     *)

\* expandWorker and workerName
expandWorker(user, h) == IF user = "{worker}" THEN h ELSE "plain"

\* A fallback is sent only when the pool has one.
Fields(k, h) ==
    IF k.op # "pool" THEN k.tune
    ELSE LET user == expandWorker(k.pool.user, h)
         IN  IF k.pool.fb = None THEN [url |-> k.pool.url, worker |-> user]
             ELSE [url |-> k.pool.url, worker |-> user, fb |-> k.pool.fb]

\* Mutant: errors are not looked at.
EndHostFine(k, ok) ==
    [k EXCEPT !.i = @ + 1, !.res = Written([h \in {k.hosts[k.i]} |-> TRUE], @),
              !.pc = IF k.i < Len(k.hosts) THEN "patch" ELSE "over"]

\* The result of the host at hand; then the next one, if there is one.
EndHost(k, ok) ==
    [k EXCEPT !.i = @ + 1, !.res = Written([h \in {k.hosts[k.i]} |-> ok], @),
              !.pc = IF k.i < Len(k.hosts) THEN "patch" ELSE "over"]

\* Mutant: a preset is written without a restart.
PatchDoneEarly(k) ==
    IF k.op \in {"patch", "preset"} THEN EndHost(k, TRUE) ELSE [k EXCEPT !.pc = "restart"]

PatchDone(k) == IF k.op = "patch" THEN EndHost(k, TRUE) ELSE [k EXCEPT !.pc = "restart"]

\* PatchSystem: a PATCH that arrives is written as a whole.
Patch(c) ==
    /\ call[c].pc = "patch"
    /\ LET k == call[c]
           h == k.hosts[k.i]
       IN \/ /\ dev[h].up
             /\ dev' = [dev EXCEPT ![h].nvs = Written(Fields(k, h), @)]
             /\ \E k2 \in {PatchDone(k), EndHost(k, FALSE)} : call' = [call EXCEPT ![c] = k2]
             /\ alone' = [alone EXCEPT ![h] = c]
             /\ odd' = IF k.op = "patch" THEN odd \union {h} ELSE odd
          \/ /\ call' = [call EXCEPT ![c] = EndHost(k, FALSE)]
             /\ UNCHANGED <<dev, alone, odd>>
    /\ UNCHANGED <<pool, miner>>

\* Restart: the device reboots with what is in its flash.
Restart(c) ==
    /\ call[c].pc = "restart"
    /\ LET k == call[c]
           h == k.hosts[k.i]
       IN \/ /\ dev[h].up
             /\ dev' = [dev EXCEPT ![h].use = dev[h].nvs, ![h].up = FALSE]
             /\ \E ok \in BOOLEAN : call' = [call EXCEPT ![c] = EndHost(k, ok)]
             /\ alone' = [alone EXCEPT ![h] = IF @ = c THEN c ELSE None]
          \/ /\ call' = [call EXCEPT ![c] = EndHost(k, FALSE)]
             /\ UNCHANGED <<dev, alone>>
    /\ UNCHANGED <<pool, miner, odd>>

-----------------------------------------------------------------------------
(* The devices and the poll loop                                            *)

\* pollOne: the device answers or it does not.
Poll(h) ==
    /\ miner' = [miner EXCEPT ![h] =
         IF dev[h].up THEN [online |-> TRUE, asic |-> dev[h].asic]
         ELSE [@ EXCEPT !.online = FALSE]]
    /\ UNCHANGED <<pool, dev, call, alone, odd>>

Boots(h) ==
    /\ ~dev[h].up
    /\ dev' = [dev EXCEPT ![h].up = TRUE]
    /\ UNCHANGED <<pool, miner, call, alone, odd>>

\* DHCP gives the address to a device of another model (bound: once).
Swap(h, asic) ==
    /\ Swaps /\ h \notin odd /\ asic # dev[h].asic
    /\ dev' = [dev EXCEPT ![h] = Factory(asic, pool)]
    /\ odd' = odd \union {h} /\ alone' = [alone EXCEPT ![h] = None]
    /\ UNCHANGED <<pool, miner, call>>

Next ==
    \/ \E p \in Pools : SetPool(p)
    \/ \E c \in Calls :
         \/ \E l \in Lists : ApplyPool(c, l)
         \/ \E h \in Tuned : \/ \E id \in PresetIDs : ApplyPreset(c, h, id)
                             \/ \E t \in Tunings : PatchMiner(c, h, t)
                             \/ RestartMiner(c, h)
         \/ Patch(c) \/ Restart(c)
    \/ \E h \in Hosts : Poll(h) \/ Boots(h)
    \/ \E h \in Tuned, a \in Asics : Swap(h, a)

Spec == Init /\ [][Next]_vars

-----------------------------------------------------------------------------
(* Properties                                                               *)

\* A host that ApplyPool reports as done runs the pool of that call, with its
\* own worker name, as long as no other call reached the device meanwhile and
\* the call has not to come back to it (a host may be named twice).
DoneRuns ==
    \A c \in Calls, h \in Hosts :
        LET k == call[c] IN
        /\ k.op = "pool" /\ h \in DOMAIN k.res /\ k.res[h] /\ alone[h] = c
        /\ \A j \in k.i .. Len(k.hosts) : k.hosts[j] # h
        =>
            /\ dev[h].use.url = k.pool.url
            /\ dev[h].use.worker = expandWorker(k.pool.user, h)
            /\ k.pool.fb # None => dev[h].use.fb = k.pool.fb

\* A call goes on after a failure and answers for each host it was given.
EveryHostAnswered ==
    \A c \in Calls :
        call[c].pc = "over" => DOMAIN call[c].res = {call[c].hosts[i] : i \in DOMAIN call[c].hosts}

\* What a call reports is true, and complete.
ReportsTrue == DoneRuns /\ EveryHostAnswered

\* Whatever calls overlap, fail half-way or lose an answer, no miner is left with
\* the frequency of one preset and the voltage of another, or of another model.
PairsMatch ==
    \A h \in Hosts \ odd : \A s \in {dev[h].nvs, dev[h].use} :
        s.f = s.v /\ s.f[1] = dev[h].asic

\* A miner that a call reached does not stay on settings it does not run with
\* once all calls are over, unless a result says that something failed.
NothingPending ==
    (\A c \in Calls : call[c].pc \in {"idle", "over"}) =>
        \A h \in Hosts \ odd :
            dev[h].use = dev[h].nvs \/ \E c \in Calls : h \in DOMAIN call[c].res /\ ~call[c].res[h]
=============================================================================
