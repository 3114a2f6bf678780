------------------------------ MODULE WorkEngine ------------------------------
(***************************************************************************)
(* The work engine of internal/work/engine.go: it supervises the            *)
(* datum_gateway process and points the fleet's pool at it and back.        *)
(*                                                                         *)
(* Threads are the ticker goroutine (Tick) and the HTTP handlers; a step is *)
(* one critical section of e.mu, one call of the fleet manager or the       *)
(* store, or the dial of the stratum port.  Time is abstract: holdOff says  *)
(* that nextStart is still to come.  Demo mode is left out.                 *)
(***************************************************************************)
EXTENDS Integers

CONSTANTS Handlers, Tick,   \* the threads
          Requests,         \* what users ask: "settings", "engine", "external", "pool"
          Slots, NoProc,    \* bound: gateway processes that may exist at once
          Payouts,          \* payout address and mode of the settings
          ExtPools,         \* pools other than the engine
          Addresses,        \* addresses AdvertiseHost may return
          NoPool,           \* no stratum URL, no LAN address, no remembered pool
          BackoffInitial, BackoffMax,
          HostMoves,        \* may the machine's LAN address change?
          Restarts,         \* may nodeosd restart?
          SavesFail         \* may writing state.json fail?

ASSUME EngineAssumption ==
    /\ Tick \notin Handlers /\ NoProc \notin Slots /\ Payouts # {}
    /\ ExtPools \intersect Addresses = {}
    /\ NoPool \notin ExtPools \union Addresses
    /\ BackoffInitial \in Nat \ {0} /\ BackoffMax \in Nat
    /\ BackoffInitial < 2 * BackoffMax
    /\ {HostMoves, Restarts, SavesFail} \subseteq BOOLEAN
    /\ ~(SavesFail /\ Restarts)   \* the file and store.state are one variable

Threads == Handlers \union {Tick}
Settings == [enabled : BOOLEAN, auto : BOOLEAN, payout : Payouts]
States == {"disabled", "waiting_node", "starting", "running", "backoff", "error"}
\* A pool is where its stratum URL and port point.
Pools == ExtPools \union Addresses

VARIABLES
    eng,    \* Engine, under e.mu: settings, state, switched, autoDone, cmd,
            \* healthyAt (set or not), backoff, holdOff
    proc,   \* the gateway processes: "free", "up", "stopping" (told to exit),
            \* "exited" (not reaped yet)
    mines,  \* the payout each process was started with
    th,     \* the threads: program counter and locals
    pool,   \* the fleet's pool (fleet.Manager)
    ext,    \* store.State.ExternalPool
    work,   \* store.State.Work
    host,   \* what AdvertiseHost returns now
    ready,  \* bitcoind is up, synced and out of IBD
    \* history
    before, \* the pool SwitchToEngine replaced last, while that switch stands
    hand,   \* what the user did to the fleet by hand: "no"; in this enable cycle
            \* "restored" it or "repointed" it off the engine; put it "on" an
            \* engine that was off, or by PUT /api/pool
    quiet   \* no request has begun within a tick, no tick or request within a
            \* request, and neither the daemon nor the address has changed

vars == <<eng, proc, mines, th, pool, ext, work, host, ready, before, hand, quiet>>
world == <<host, ready>>
outside == <<world, quiet>>
fleet == <<pool, before, hand>>

\* A thread: its program counter, a decision taken under the lock (flag: tick
\* saw the engine running, or is to switch; UpdateSettings is to restore) and
\* the copies it goes on with: s.AutoSwitch, healthy, a pool, the address, s.
Idle == [pc |-> "idle", flag |-> FALSE, auto |-> FALSE, healthy |-> FALSE,
         cur |-> NoPool, to |-> NoPool, asked |-> CHOOSE s \in Settings : TRUE]

\* NewEngine with the stored settings.
NewEngine(s) ==
    [settings |-> s, state |-> "disabled", switched |-> FALSE,
     autoDone |-> FALSE, cmd |-> NoProc, healthyAt |-> FALSE, backoff |-> 0,
     holdOff |-> FALSE]

Init ==
    /\ work \in {s \in Settings : ~s.enabled /\ ~s.auto}
    /\ eng = NewEngine(work)
    /\ proc = [i \in Slots |-> "free"]
    /\ mines = [i \in Slots |-> work.payout]
    /\ th = [t \in Threads |-> Idle]
    /\ pool \in ExtPools \union {NoPool}
    /\ ext = NoPool
    /\ host \in Addresses \union {NoPool}
    /\ ready \in BOOLEAN
    /\ before = NoPool
    /\ hand = "no"
    /\ quiet = TRUE

-----------------------------------------------------------------------------
At(t, l) == th[t].pc = l
Goto(t, l) == th' = [th EXCEPT ![t].pc = l]
Return(t) == th' = [th EXCEPT ![t] = Idle]

PointsAtEngine(p) == host # NoPool /\ p = host

\* stopLocked: the process is told to exit and disowned.
StopCmd ==
    proc' = [i \in Slots |->
        IF i = eng.cmd /\ proc[i] = "up" THEN "stopping" ELSE proc[i]]
Stopped(state) == [eng EXCEPT !.cmd = NoProc, !.state = state]

-----------------------------------------------------------------------------
(* tick, first critical section *)

TickBegins ==
    /\ At(Tick, "idle")
    /\ quiet' = (quiet /\ \A t \in Handlers : At(t, "idle"))

TickDisabled ==
    /\ TickBegins
    /\ ~eng.settings.enabled
    /\ eng' = Stopped("disabled") /\ StopCmd
    /\ UNCHANGED <<mines, th, ext, work, fleet, world>>

TickNotReady ==
    /\ TickBegins
    /\ eng.settings.enabled /\ ~ready
    /\ eng' = Stopped("waiting_node") /\ StopCmd
    /\ UNCHANGED <<mines, th, ext, work, fleet, world>>

MayStart == TickBegins /\ eng.settings.enabled /\ ready /\ eng.cmd = NoProc

TickBackoff ==
    /\ MayStart /\ eng.holdOff
    /\ eng' = [eng EXCEPT !.state = "backoff"]
    /\ UNCHANGED <<mines, proc, th, ext, work, fleet, world>>

\* No binary, no config file or no process: try again in 30 s.
TickStartFails ==
    /\ MayStart /\ ~eng.holdOff
    /\ eng' = [eng EXCEPT !.state = "error", !.holdOff = TRUE]
    /\ UNCHANGED <<mines, proc, th, ext, work, fleet, world>>

\* The local copy s of the settings is used after the lock is gone: auto.
Probe(was) ==
    th' = [th EXCEPT ![Tick] = [Idle EXCEPT !.pc = "dial", !.flag = was,
                                            !.auto = eng.settings.auto]]

TickStart ==
    /\ MayStart /\ ~eng.holdOff
    /\ \E i \in Slots :
        /\ proc[i] = "free"
        /\ proc' = [proc EXCEPT ![i] = "up"]
        /\ mines' = [mines EXCEPT ![i] = eng.settings.payout]
        /\ eng' = [eng EXCEPT !.cmd = i, !.healthyAt = FALSE, !.state = "starting"]
    /\ Probe(FALSE)
    /\ UNCHANGED <<ext, work, fleet, world>>

TickProbe ==
    /\ TickBegins
    /\ eng.settings.enabled /\ ready /\ eng.cmd # NoProc
    /\ Probe(eng.state = "running")
    /\ UNCHANGED <<mines, eng, proc, ext, work, fleet, world>>

(* tick, the rest *)

\* dialOK: whoever listens on the port answers, owned or not.
TickDial ==
    /\ At(Tick, "dial")
    /\ \E up \in BOOLEAN :
        /\ up => \E i \in Slots : proc[i] \in {"up", "stopping"}
        /\ th' = [th EXCEPT ![Tick].healthy = up, ![Tick].pc = "verdict"]
    /\ UNCHANGED <<mines, eng, proc, ext, work, fleet, outside>>

\* The state a verdict leaves: an unhealthy engine falls back to "starting"
\* if it was running or started more than 30 s ago.
Verdicts ==
    IF th[Tick].healthy
    THEN {[eng EXCEPT !.state = "running", !.healthyAt = TRUE, !.backoff = b] :
            b \in {eng.backoff} \union (IF eng.healthyAt THEN {0} ELSE {})}
    ELSE {[eng EXCEPT !.healthyAt = FALSE, !.state = st] :
            st \in {"starting"} \union (IF th[Tick].flag THEN {} ELSE {eng.state})}

TickVerdict ==
    /\ At(Tick, "verdict")
    /\ \E e \in Verdicts :
        LET doAuto == /\ e.state = "running" /\ th[Tick].auto
                      /\ ~e.switched /\ ~e.autoDone
        IN  /\ eng' = [e EXCEPT !.autoDone = @ \/ doAuto]
            /\ th' = [th EXCEPT ![Tick] = [Idle EXCEPT !.pc = "pool", !.flag = doAuto]]
    /\ UNCHANGED <<mines, proc, ext, work, fleet, outside>>

TickReadPool ==
    /\ At(Tick, "pool")
    /\ th' = [th EXCEPT ![Tick].cur = pool, ![Tick].pc = "drop"]
    /\ UNCHANGED <<mines, eng, proc, ext, work, fleet, outside>>

\* The user re-pointed the fleet: drop the flag.  Then the auto-switch, if due.
TickDropSwitched ==
    /\ At(Tick, "drop")
    /\ eng' = [eng EXCEPT !.switched = @ /\ PointsAtEngine(th[Tick].cur)]
    /\ IF th[Tick].flag
       THEN th' = [th EXCEPT ![Tick] = [Idle EXCEPT !.pc = "to_engine"]]
       ELSE Return(Tick)
    /\ UNCHANGED <<mines, proc, ext, work, fleet, outside>>

-----------------------------------------------------------------------------
(* SwitchToEngine, by a handler or by the tick *)

SwitchRefused(t) ==
    /\ At(t, "to_engine")
    /\ eng.state # "running" \/ host = NoPool
    /\ Return(t)
    /\ UNCHANGED <<mines, eng, proc, ext, work, fleet, outside>>

SwitchAccepted(t) ==
    /\ At(t, "to_engine")
    /\ eng.state = "running" /\ host # NoPool
    /\ th' = [th EXCEPT ![t].to = host, ![t].pc = "read"]
    /\ UNCHANGED <<mines, eng, proc, ext, work, fleet, outside>>

SwitchReadsPool(t) ==
    /\ At(t, "read")
    /\ th' = [th EXCEPT ![t].cur = pool, ![t].pc = "flag"]
    /\ UNCHANGED <<mines, eng, proc, ext, work, fleet, outside>>

\* Mutant: a fleet that points at the engine already is switched once more.
SwitchSetsFlagAlways(t) ==
    /\ At(t, "flag")
    /\ eng' = [eng EXCEPT !.switched = TRUE]
    /\ Goto(t, "remember")
    /\ UNCHANGED <<mines, proc, ext, work, fleet, outside>>

SwitchSetsFlag(t) ==
    /\ At(t, "flag")
    /\ eng' = [eng EXCEPT !.switched = TRUE]
    /\ IF PointsAtEngine(th[t].cur) THEN Return(t) ELSE Goto(t, "remember")
    /\ UNCHANGED <<mines, proc, ext, work, fleet, outside>>

\* Mutant: the pool is remembered only once.
SwitchRemembersFirst(t) ==
    /\ At(t, "remember")
    /\ ext' = IF ext = NoPool THEN th[t].cur ELSE ext
    /\ Goto(t, "set_engine")
    /\ UNCHANGED <<mines, eng, proc, work, fleet, outside>>

SwitchRemembers(t) ==
    /\ At(t, "remember")
    /\ ext' = IF th[t].cur # NoPool THEN th[t].cur ELSE ext
    /\ Goto(t, "set_engine")
    /\ UNCHANGED <<mines, eng, proc, work, fleet, outside>>

\* SetPool, with the address read in the first critical section.
SwitchSetsPool(t) ==
    /\ At(t, "set_engine")
    /\ pool' = th[t].to
    /\ before' = IF pool = pool' THEN before ELSE pool
    /\ hand' = IF t = Tick THEN hand ELSE IF eng.settings.enabled THEN "no" ELSE "on"
    /\ Return(t)
    /\ UNCHANGED <<mines, eng, proc, ext, work, outside>>

(* SwitchToExternal *)

\* The remembered pool is read from the store; none is an error.
RestoreReads(t) ==
    /\ At(t, "to_external")
    /\ IF ext = NoPool THEN Return(t)
       ELSE th' = [th EXCEPT ![t].cur = ext, ![t].pc = "unflag"]
    /\ UNCHANGED <<mines, eng, proc, ext, work, fleet, outside>>

RestoreUnflags(t) ==
    /\ At(t, "unflag")
    /\ eng' = [eng EXCEPT !.switched = FALSE, !.autoDone = TRUE]
    /\ Goto(t, "set_external")
    /\ UNCHANGED <<mines, proc, ext, work, fleet, outside>>

RestoreSetsPool(t) ==
    /\ At(t, "set_external")
    /\ pool' = th[t].cur
    /\ before' = NoPool
    /\ hand' = "restored"
    /\ Return(t)
    /\ UNCHANGED <<mines, eng, proc, ext, work, outside>>

-----------------------------------------------------------------------------
(* UpdateSettings and the other requests *)

RequestBegins(t, r) ==
    /\ At(t, "idle") /\ r \in Requests
    /\ quiet' = (quiet /\ \A u \in Threads : At(u, "idle"))

\* The auto-switch may fire again.
NewCycle(s) == \/ s.enabled # eng.settings.enabled
               \/ s.auto /\ ~eng.settings.auto

\* Mutant: new settings never stop the process.
UpdatedLive(s) ==
    [eng EXCEPT !.settings = s, !.cmd = IF s.enabled THEN @ ELSE NoProc]

\* What the critical section of UpdateSettings leaves when s is accepted.
Updated(s) ==
    LET old == eng.settings
        stop == ~s.enabled \/ (eng.cmd # NoProc /\ s.payout # old.payout)
        e == [eng EXCEPT !.settings = s, !.autoDone = @ /\ ~NewCycle(s)]
    IN  IF stop THEN [e EXCEPT !.cmd = NoProc, !.holdOff = FALSE, !.backoff = 0]
        ELSE e

\* Validation may reject s, which changes nothing.
UpdateApplies(t) ==
    /\ RequestBegins(t, "settings")
    /\ \E s \in Settings :
        /\ eng' = Updated(s)
        /\ IF eng'.cmd = eng.cmd THEN UNCHANGED proc ELSE StopCmd
        /\ hand' = IF NewCycle(s) /\ hand # "on" THEN "no" ELSE hand
        /\ th' = [th EXCEPT ![t].pc = "save", ![t].asked = s,
                            ![t].flag = ~s.enabled /\ eng.switched]
    /\ UNCHANGED <<mines, pool, before, ext, work, world>>

UpdateSaves(t) ==
    /\ At(t, "save")
    /\ work' = th[t].asked
    /\ IF th[t].flag
       THEN th' = [th EXCEPT ![t] = [Idle EXCEPT !.pc = "to_external"]]
       ELSE Return(t)
    /\ UNCHANGED <<mines, eng, proc, ext, fleet, outside>>

\* store.Update changes store.state even if the file cannot be written; then
\* the error is returned and the fleet is left where it is.
UpdateSaveFails(t) ==
    /\ SavesFail
    /\ At(t, "save")
    /\ work' = th[t].asked
    /\ Return(t)
    /\ UNCHANGED <<mines, eng, proc, ext, fleet, outside>>

AskSwitch(t) ==
    /\ \E r \in {"engine", "external"} :
        /\ RequestBegins(t, r)
        /\ Goto(t, IF r = "engine" THEN "to_engine" ELSE "to_external")
    /\ UNCHANGED <<mines, eng, proc, ext, work, fleet, world>>

\* PUT /api/pool: any pool, the engine's own address included.
PutPool(t) ==
    /\ RequestBegins(t, "pool")
    /\ pool' \in Pools
    /\ before' = NoPool
    /\ hand' = IF PointsAtEngine(pool') THEN "on"
               ELSE IF eng.switched /\ PointsAtEngine(pool) THEN "repointed"
               ELSE IF hand = "on" THEN "no" ELSE hand
    /\ UNCHANGED <<mines, eng, proc, th, ext, work, world>>

-----------------------------------------------------------------------------
(* The processes and the world *)

\* A process ends by itself, or by the SIGTERM and the kill after it.
ProcessExits(i) ==
    /\ proc[i] \in {"up", "stopping"}
    /\ proc' = [proc EXCEPT ![i] = "exited"]
    /\ UNCHANGED <<mines, eng, th, ext, work, fleet, outside>>

\* Mutant: the cap is missing.
NextBackoffUncapped ==
    IF eng.backoff = 0 THEN BackoffInitial ELSE 2 * eng.backoff

NextBackoff ==
    IF eng.backoff = 0 THEN BackoffInitial
    ELSE IF eng.backoff < BackoffMax THEN 2 * eng.backoff ELSE eng.backoff

\* Mutant: wait does not ask whose exit it was.
ReapAny(i) ==
    /\ proc[i] = "exited"
    /\ proc' = [proc EXCEPT ![i] = "free"]
    /\ eng' = [eng EXCEPT !.cmd = NoProc, !.backoff = NextBackoff, !.holdOff = TRUE]
    /\ UNCHANGED <<mines, th, ext, work, fleet, outside>>

\* Mutant: wait leaves the dead process owned.
ReapKeeps(i) ==
    /\ proc[i] = "exited"
    /\ proc' = [proc EXCEPT ![i] = "free"]
    /\ eng' = IF eng.cmd = i
              THEN [eng EXCEPT !.backoff = NextBackoff, !.holdOff = TRUE]
              ELSE eng
    /\ UNCHANGED <<mines, th, ext, work, fleet, outside>>

\* wait: an exit of the owned process schedules a restart; another is ours.
Reap(i) ==
    /\ proc[i] = "exited"
    /\ proc' = [proc EXCEPT ![i] = "free"]
    /\ eng' = IF eng.cmd = i
              THEN [eng EXCEPT !.cmd = NoProc, !.backoff = NextBackoff,
                               !.holdOff = TRUE]
              ELSE eng
    /\ UNCHANGED <<mines, th, ext, work, fleet, outside>>

\* nextStart passes.
HoldOffEnds ==
    /\ eng.holdOff
    /\ eng' = [eng EXCEPT !.holdOff = FALSE]
    /\ UNCHANGED <<mines, proc, th, ext, work, fleet, outside>>

NodeChanges ==
    /\ ready' = ~ready
    /\ UNCHANGED <<mines, eng, proc, th, ext, work, fleet, host, quiet>>

HostChanges ==
    /\ HostMoves
    /\ host' \in Addresses \union {NoPool}
    /\ quiet' = FALSE
    /\ UNCHANGED <<mines, eng, proc, th, ext, work, fleet, ready>>

\* The daemon stops, with its children, and starts from what is stored.
DaemonRestart ==
    /\ Restarts
    /\ quiet' = FALSE
    /\ eng' = NewEngine(work)
    /\ proc' = [i \in Slots |-> "free"]
    /\ th' = [t \in Threads |-> Idle]
    /\ UNCHANGED <<mines, ext, work, fleet, world>>

-----------------------------------------------------------------------------
TickStep ==
    \/ TickDisabled \/ TickNotReady \/ TickBackoff \/ TickStartFails \/ TickStart
    \/ TickProbe \/ TickDial \/ TickVerdict \/ TickReadPool \/ TickDropSwitched

SwitchStep(t) ==
    \/ SwitchRefused(t) \/ SwitchAccepted(t) \/ SwitchReadsPool(t)
    \/ SwitchSetsFlag(t) \/ SwitchRemembers(t) \/ SwitchSetsPool(t)

RestoreStep(t) == RestoreReads(t) \/ RestoreUnflags(t) \/ RestoreSetsPool(t)

Request(t) == UpdateApplies(t) \/ AskSwitch(t) \/ PutPool(t)

Next ==
    \/ TickStep
    \/ \E t \in Threads : SwitchStep(t)
    \/ \E t \in Handlers : Request(t) \/ UpdateSaves(t) \/ UpdateSaveFails(t)
                            \/ RestoreStep(t)
    \/ \E i \in Slots : ProcessExits(i) \/ Reap(i)
    \/ HoldOffEnds \/ NodeChanges \/ HostChanges \/ DaemonRestart

\* The ticker ticks, accepted calls finish, a process that was told to exit
\* does so (it is killed after 5 s) and is reaped, and time passes.
Fairness ==
    /\ WF_vars(TickStep \/ SwitchStep(Tick))
    /\ \A t \in Handlers : WF_vars(SwitchStep(t) \/ RestoreStep(t) \/ UpdateSaves(t)
                                                 \/ UpdateSaveFails(t))
    /\ \A i \in Slots : WF_vars(proc[i] = "stopping" /\ ProcessExits(i))
    /\ \A i \in Slots : WF_vars(Reap(i))
    /\ WF_vars(HoldOffEnds)

Spec == Init /\ [][Next]_vars /\ Fairness

-----------------------------------------------------------------------------
(* Properties *)

EngineType ==
    [settings : Settings, state : States, switched : BOOLEAN, autoDone : BOOLEAN,
     cmd : Slots \union {NoProc}, healthyAt : BOOLEAN, backoff : Nat,
     holdOff : BOOLEAN]

ThreadType ==
    [pc : {"idle", "dial", "verdict", "pool", "drop", "to_engine", "read", "flag",
           "remember", "set_engine", "save", "to_external", "unflag",
           "set_external"},
     flag : BOOLEAN, auto : BOOLEAN, healthy : BOOLEAN,
     cur : Pools \union {NoPool}, to : Addresses \union {NoPool}, asked : Settings]

\* Every variable keeps its type.
TypeOK ==
    /\ eng \in EngineType
    /\ proc \in [Slots -> {"free", "up", "stopping", "exited"}]
    /\ mines \in [Slots -> Payouts]
    /\ th \in [Threads -> ThreadType]
    /\ pool \in Pools \union {NoPool} /\ ext \in Pools \union {NoPool}
    /\ work \in Settings
    /\ host \in Addresses \union {NoPool} /\ ready \in BOOLEAN
    /\ before \in Pools \union {NoPool}
    /\ hand \in {"no", "restored", "repointed", "on"}
    /\ quiet \in BOOLEAN

\* No gateway runs that the engine does not own, and the process it owns has
\* not been told to exit: across disowning, exits and late waits there are never
\* two gateways the engine means to keep (engine.go:264-302).
NoOrphan ==
    /\ \A i \in Slots : proc[i] = "up" => eng.cmd = i
    /\ eng.cmd # NoProc => proc[eng.cmd] \in {"up", "exited"}

\* A gateway that is to keep running pays the address and runs the mode of the
\* settings in force, whenever UpdateSettings and the tick come (engine.go:460).
PaysCurrentAddress ==
    \A i \in Slots : proc[i] = "up" => mines[i] = eng.settings.payout

\* The crash backoff stays below twice its cap (engine.go:276-280).
BackoffBounded == eng.backoff < 2 * BackoffMax

\* While the machine keeps its address, the pool remembered for "switch back" is
\* never the engine itself, however the switches interleave (engine.go:385-398).
ExtNotEngine == ext = NoPool \/ ext # host

\* As long as nothing overlapped, SwitchToExternal restores the pool that was
\* active before SwitchToEngine (engine.go:415).
RestoresPrevious ==
    [][\A t \in Handlers :
        quiet /\ RestoreSetsPool(t) /\ before # NoPool => pool' = before]_vars

\* As long as nothing overlapped, once the user switched back, the auto-switch does
\* not take the fleet again before the next enable cycle (engine.go:423).
SwitchBackSticks == [][quiet /\ SwitchSetsPool(Tick) => hand # "restored"]_vars

\* "Disabling the engine switches the fleet back to the remembered external pool"
\* (engine.go:444-445): once UpdateSettings has returned, the fleet does not point
\* at a disabled engine, if another pool is remembered and the user did not put it
\* there by hand.
DisabledReleasesFleet ==
    ~eng.settings.enabled /\ ext # NoPool /\ hand # "on"
        /\ (\A t \in Threads : At(t, "idle")) => ~PointsAtEngine(pool)

\* If the engine stays disabled, no gateway process is left (engine.go:286-302).
StopsWhenOff ==
    <>[]~eng.settings.enabled => <>[](\A i \in Slots : proc[i] = "free")

\* An enabled engine whose node is ready gets a gateway, after every crash and
\* every change of settings, or says why not (engine.go:147-163, 264-284).
Recovers ==
    eng.settings.enabled /\ ready
        ~> \/ ~eng.settings.enabled \/ ~ready \/ eng.state = "error"
           \/ \E i \in Slots : eng.cmd = i /\ proc[i] = "up"

\* The gateway follows the settings: gone for good once the engine stays disabled,
\* back after whatever happened to it as long as it is enabled.
GatewayFollows == StopsWhenOff /\ Recovers

\* A switch back brings the replaced pool, and the automatic switch leaves it there.
SwitchBack == RestoresPrevious /\ SwitchBackSticks
=============================================================================
