------------------------------- MODULE Rollout -------------------------------
(***************************************************************************)
(* The staged firmware rollout of internal/fleet/firmware.go: StartRollout, *)
(* runRollout, verifyBack and CancelRollout, with the miners they flash.    *)
(*                                                                         *)
(* A rollout identifier p stands for one call of StartRollout (one HTTP     *)
(* request) and for the runRollout goroutine that the call starts.  A step  *)
(* is one critical section of rollout.mu, or one network call.  The devices *)
(* of the status are order (the hosts, sorted, perhaps repeated) and st:    *)
(* setDevice writes every entry of a host, so entries of one host agree.    *)
(***************************************************************************)
EXTENDS Integers, Sequences, FiniteSets

CONSTANTS Rollouts,         \* identifiers of StartRollout calls
          NoRollout,        \* "no rollout": a nil cancel func, no status yet
          Hosts,            \* the miners, numbered in the order sort.Slice gives
          MaxDevices,       \* bound: entries of one request's host list
          RepeatedHosts,    \* bound: may a request name a host twice?
          ConcurrentStarts  \* may a second StartRollout overlap the first?

ASSUME RolloutAssumption ==
    /\ NoRollout \notin Rollouts
    /\ Hosts \subseteq Nat /\ IsFiniteSet(Hosts)
    /\ MaxDevices \in Nat \ {0}
    /\ RepeatedHosts \in BOOLEAN
    /\ ConcurrentStarts \in BOOLEAN

VARIABLES
    status,     \* rollout.status, shared: running, done, ok, message, reason
                \* (the error in the message), order and st (the devices)
    cancelFn,   \* rollout.cancel: the rollout whose context it cancels
    cancelled,  \* the rollouts whose context is done
    run,        \* per rollout: pc, the local devices snapshot and loop index,
                \* the downloaded image, sawOffline of verifyBack
    miner,      \* per host: power ("up", "written": flashed and not rebooted
                \* yet, "down"), the quality of the image it runs and of the
                \* one it boots next, fresh (uptime below 180 s)
    \* history, read by the properties only
    cur,        \* the rollout whose status is installed
    sent,       \* per rollout, the hosts an OTA upload was sent to, in order
    verified,   \* per rollout, the hosts verifyBack accepted
    mistakable  \* per rollout, the hosts whose old image verifyBack can take
                \* for the new one

vars == <<status, cancelFn, cancelled, run, miner, cur, sent, verified, mistakable>>
history == <<cur, sent, verified, mistakable>>

Quality == {"good", "bad"}
DeviceStates ==
    {"none", "pending", "flashing", "verifying", "ok", "failed", "skipped"}
Starting == {"checked", "installed"}
Working  == {"download", "loop", "send", "ota", "verify", "success", "exit"}
Messages == {"none", "downloading", "download_failed", "canary", "continuing",
             "canary_failed", "stopped", "cancelled", "complete"}

\* The host lists a request can leave after the filter on online miners and
\* the sort; a host named twice stays twice.
Selections ==
    {s \in UNION {[1..n -> Hosts] : n \in 1..MaxDevices} :
        \A i, j \in DOMAIN s :
            i < j => s[i] < s[j] \/ (RepeatedHosts /\ s[i] = s[j])}

Listed(s) == {s[i] : i \in DOMAIN s}

\* rollout.status before the first rollout.
NoStatus == [running |-> FALSE, done |-> FALSE, ok |-> FALSE,
             message |-> "none", reason |-> "none",
             order |-> <<>>, st |-> [h \in Hosts |-> "none"]]

Init ==
    /\ status = NoStatus
    /\ cancelFn = NoRollout
    /\ cancelled = {}
    /\ run = [p \in Rollouts |-> [pc |-> "idle", devs |-> <<>>, idx |-> 1,
                                  image |-> "good", sawOffline |-> FALSE]]
    /\ miner \in [Hosts -> [power : {"up"}, runs : {"good"}, boots : {"good"},
                            fresh : BOOLEAN]]
    /\ cur = NoRollout
    /\ sent = [p \in Rollouts |-> <<>>]
    /\ verified = [p \in Rollouts |-> {}]
    /\ mistakable = [p \in Rollouts |-> {}]

-----------------------------------------------------------------------------
(* StartRollout, CancelRollout *)

At(p, l) == run[p].pc = l
Goto(p, l) == run' = [run EXCEPT ![p].pc = l]

\* rollout.setDevice, with the message left to show: a host that the installed
\* status does not list is ignored.
WithDevice(h, s) ==
    [status EXCEPT !.st = IF h \in Listed(status.order)
                          THEN [@ EXCEPT ![h] = s] ELSE @]

\* The first critical section: refuse while a rollout is running.  Under
\* ~ConcurrentStarts the callers are serial: nobody calls while another call
\* is between this check and its answer.
CheckRunning(p) ==
    /\ At(p, "idle")
    /\ ~status.running
    /\ ConcurrentStarts \/ \A q \in Rollouts : run[q].pc \notin Starting
    /\ Goto(p, "checked")
    /\ UNCHANGED <<status, cancelFn, cancelled, miner, history>>

\* Select the online hosts, sort them and install a fresh status ...
InstallStatus(p) ==
    /\ At(p, "checked")
    /\ \E s \in Selections :
        status' = [NoStatus EXCEPT
            !.running = TRUE, !.message = "downloading", !.order = s,
            !.st = [h \in Hosts |-> IF h \in Listed(s) THEN "pending" ELSE "none"]]
    /\ cur' = p
    /\ Goto(p, "installed")
    /\ UNCHANGED <<cancelFn, cancelled, miner, sent, verified, mistakable>>

\* ... or none is online: an error is returned and nothing changes.
NoOnlineMiner(p) ==
    /\ At(p, "checked") /\ Goto(p, "finished")
    /\ UNCHANGED <<status, cancelFn, cancelled, miner, history>>

\* The cancel function is stored in a critical section of its own; only then
\* is runRollout started.
InstallCancel(p) ==
    /\ At(p, "installed") /\ Goto(p, "download")
    /\ cancelFn' = p
    /\ UNCHANGED <<status, cancelled, miner, history>>

\* CancelRollout answers true, whichever context cancelFn belongs to.
CancelRollout ==
    /\ status.running
    /\ cancelFn # NoRollout
    /\ cancelled' = cancelled \union {cancelFn}
    /\ UNCHANGED <<status, cancelFn, run, miner, history>>

-----------------------------------------------------------------------------
(* runRollout *)

Current(p) == run[p].devs[run[p].idx]
InLoop(p)  == At(p, "loop") /\ run[p].idx <= Len(run[p].devs)

\* Mutant: the loop starts at the second device.
DownloadSkipsCanary(p) ==
    /\ At(p, "download") /\ p \notin cancelled
    /\ run' = [run EXCEPT ![p].devs = status.order, ![p].idx = 2, ![p].pc = "loop"]
    /\ UNCHANGED <<status, cancelFn, cancelled, miner, history>>

\* The image arrives; announce the canary and snapshot the device list of
\* whatever status is installed.
DownloadOK(p) ==
    /\ At(p, "download") /\ p \notin cancelled
    /\ \E q \in Quality :
        run' = [run EXCEPT ![p].image = q, ![p].devs = status.order,
                           ![p].idx = 1, ![p].pc = "loop"]
    /\ status' = [status EXCEPT !.message = "canary"]
    /\ UNCHANGED <<cancelFn, cancelled, miner, history>>

DownloadFails(p) ==
    /\ At(p, "download") /\ Goto(p, "exit")
    /\ status' = [status EXCEPT !.message = "download_failed"]
    /\ UNCHANGED <<cancelFn, cancelled, miner, history>>

\* Head of the loop, context done: the device is skipped.
SkipDevice(p) ==
    /\ InLoop(p) /\ p \in cancelled
    /\ status' = WithDevice(Current(p), "skipped")
    /\ run' = [run EXCEPT ![p].idx = @ + 1]
    /\ UNCHANGED <<cancelFn, cancelled, miner, history>>

BeginDevice(p) ==
    /\ InLoop(p) /\ p \notin cancelled
    /\ status' = WithDevice(Current(p), "flashing")
    /\ Goto(p, "send")
    /\ UNCHANGED <<cancelFn, cancelled, miner, history>>

\* The tail of both error paths: mark the device, stopRollout, return.
\* why is where the error text comes from.
Fail(p, why) ==
    /\ Goto(p, "exit")
    /\ status' = [WithDevice(Current(p), "failed") EXCEPT
         !.message = IF run[p].idx = 1 THEN "canary_failed" ELSE "stopped",
         !.reason = why]

\* Mutant: the upload is not bound to the rollout's context.
SendOTABackground(p) ==
    /\ At(p, "send") /\ Goto(p, "ota")
    /\ sent' = [sent EXCEPT ![p] = Append(@, Current(p))]
    /\ UNCHANGED <<status, cancelFn, cancelled, miner, cur, verified, mistakable>>

\* client.OTA sends the image under ctx ...
SendOTA(p) ==
    /\ At(p, "send") /\ p \notin cancelled
    /\ Goto(p, "ota")
    /\ sent' = [sent EXCEPT ![p] = Append(@, Current(p))]
    /\ UNCHANGED <<status, cancelFn, cancelled, miner, cur, verified, mistakable>>

\* ... and sends nothing when the context is done already.
SendAborted(p) ==
    /\ At(p, "send") /\ p \in cancelled
    /\ Fail(p, "cancelled")
    /\ UNCHANGED <<cancelFn, cancelled, miner, history>>

\* The current miner takes the image of p (AxeOS, external); a miner that is
\* rebooting does not.
Stores(p) ==
    /\ miner[Current(p)].power # "down"
    /\ miner' = [miner EXCEPT ![Current(p)].power = "written",
                              ![Current(p)].boots = run[p].image]

\* The rollouts that wait for the miner p is uploading to: they cannot tell the
\* reboot into the image of p from the one into theirs.
WaitingToo(p) ==
    {q \in Rollouts \ {p} : At(q, "verify") /\ Current(q) = Current(p)}

\* The rollouts ps can from now on mistake the current miner of p.
Mistake(p, ps) ==
    mistakable' = [q \in Rollouts |-> IF q \in ps THEN mistakable[q] \union {Current(p)}
                                     ELSE mistakable[q]]

\* A miner that had booted shortly before has a short uptime all the same.
OTASucceeds(p) ==
    /\ At(p, "ota") /\ p \notin cancelled
    /\ Stores(p)
    /\ status' = WithDevice(Current(p), "verifying")
    /\ run' = [run EXCEPT ![p].sawOffline = FALSE, ![p].pc = "verify"]
    /\ Mistake(p, WaitingToo(p) \union {q \in {p} : miner[Current(p)].fresh})
    /\ UNCHANGED <<cancelFn, cancelled, cur, sent, verified>>

\* An error, the client's timeout or a cancelled context; the image may have
\* been stored all the same when only the answer was lost.
OTAFails(p) ==
    /\ At(p, "ota")
    /\ Fail(p, IF p \in cancelled THEN "cancelled" ELSE "ota")
    /\ \/ Stores(p) /\ Mistake(p, WaitingToo(p))
       \/ UNCHANGED <<miner, mistakable>>
    /\ UNCHANGED <<cancelFn, cancelled, cur, sent, verified>>

\* One turn of verifyBack's loop calls GetInfo.
PollDue(p) == At(p, "verify") /\ p \notin cancelled

\* No answer: the miner is down, or the call was lost and the miner may well be
\* on its old image still.
PollError(p) ==
    /\ PollDue(p)
    /\ run' = [run EXCEPT ![p].sawOffline = TRUE]
    /\ Mistake(p, {q \in {p} : miner[Current(p)].power = "written"})
    /\ UNCHANGED <<status, cancelFn, cancelled, miner, cur, sent, verified>>

\* The device is "ok"; the pause before the next one is not a step.
Accept(p) ==
    /\ status' = [WithDevice(Current(p), "ok") EXCEPT
         !.message = IF run[p].idx = 1 /\ Len(run[p].devs) > 1
                     THEN "continuing" ELSE @]
    /\ verified' = [verified EXCEPT ![p] = @ \union {Current(p)}]
    /\ run' = [run EXCEPT ![p].idx = @ + 1, ![p].pc = "loop"]
    /\ UNCHANGED <<cancelFn, cancelled, miner, cur, sent, mistakable>>

\* Mutants: a miner that hashes is good enough, rebooted or not; one that
\* rebooted is, hashing or not.
PollAcceptsUnrebooted(p) ==
    /\ PollDue(p)
    /\ miner[Current(p)].power # "down" /\ miner[Current(p)].runs = "good"
    /\ Accept(p)
PollAcceptsIdle(p) ==
    /\ PollDue(p)
    /\ miner[Current(p)].power # "down"
    /\ run[p].sawOffline \/ miner[Current(p)].fresh
    /\ Accept(p)

\* Back and hashing, which a miner on a bad image never is.
PollAccepts(p) ==
    /\ PollDue(p)
    /\ miner[Current(p)].power # "down" /\ miner[Current(p)].runs = "good"
    /\ run[p].sawOffline \/ miner[Current(p)].fresh
    /\ Accept(p)

\* Mutants: after a failure the loop goes on; the wait has no deadline.
VerifyFailsContinues(p) ==
    /\ At(p, "verify")
    /\ status' = WithDevice(Current(p), "failed")
    /\ run' = [run EXCEPT ![p].idx = @ + 1, ![p].pc = "loop"]
    /\ UNCHANGED <<cancelFn, cancelled, miner, history>>
VerifyFailsNever(p) ==
    /\ At(p, "verify") /\ p \in cancelled
    /\ Fail(p, "cancelled")
    /\ UNCHANGED <<cancelFn, cancelled, miner, history>>

\* verifyTimeout passed, or the context is done.
VerifyFails(p) ==
    /\ At(p, "verify")
    /\ Fail(p, IF p \in cancelled THEN "cancelled" ELSE "timeout")
    /\ UNCHANGED <<cancelFn, cancelled, miner, history>>

\* Mutant: the context is not looked at after the loop.
LoopEndsUnchecked(p) ==
    /\ At(p, "loop") /\ ~InLoop(p) /\ Goto(p, "success")
    /\ UNCHANGED <<status, cancelFn, cancelled, miner, history>>

\* After the loop: a done context is reported as a cancelled rollout ...
LoopEnds(p) ==
    /\ At(p, "loop") /\ ~InLoop(p)
    /\ \/ /\ p \in cancelled
          /\ status' = [status EXCEPT !.message = "cancelled"]
          /\ Goto(p, "exit")
       \/ p \notin cancelled /\ Goto(p, "success") /\ UNCHANGED status
    /\ UNCHANGED <<cancelFn, cancelled, miner, history>>

\* ... and otherwise success is, in a later critical section.
ReportSuccess(p) ==
    /\ At(p, "success") /\ Goto(p, "exit")
    /\ status' = [status EXCEPT !.ok = TRUE, !.message = "complete"]
    /\ UNCHANGED <<cancelFn, cancelled, miner, history>>

\* The deferred function.
Exit(p) ==
    /\ At(p, "exit") /\ Goto(p, "finished")
    /\ status' = [status EXCEPT !.running = FALSE, !.done = TRUE]
    /\ UNCHANGED <<cancelFn, cancelled, miner, history>>

-----------------------------------------------------------------------------
(* The miners (AxeOS firmware, external), and the daemon's own restart *)

GoDown(h) ==
    /\ miner[h].power = "written"
    /\ miner' = [miner EXCEPT ![h].power = "down"]
    /\ UNCHANGED <<status, cancelFn, cancelled, run, history>>

Boot(h) ==
    /\ miner[h].power = "down"
    /\ miner' = [miner EXCEPT ![h].power = "up", ![h].runs = miner[h].boots,
                              ![h].fresh = TRUE]
    /\ UNCHANGED <<status, cancelFn, cancelled, run, history>>

Ages(h) ==
    /\ miner[h].fresh /\ miner[h].power # "down"
    /\ miner' = [miner EXCEPT ![h].fresh = FALSE]
    /\ UNCHANGED <<status, cancelFn, cancelled, run, history>>

\* nodeosd restarts (crash, reboot, self-update): the goroutines are gone and
\* the rollout structure, which is not stored, is zero again.
DaemonRestart ==
    /\ \E p \in Rollouts : run[p].pc \in Starting \union Working
    /\ status' = NoStatus
    /\ cancelFn' = NoRollout
    /\ cur' = NoRollout
    /\ run' = [p \in Rollouts |->
                 IF At(p, "idle") THEN run[p] ELSE [run[p] EXCEPT !.pc = "finished"]]
    /\ UNCHANGED <<cancelled, miner, sent, verified, mistakable>>

-----------------------------------------------------------------------------
StartRollout(p) ==
    \/ CheckRunning(p) \/ InstallStatus(p) \/ NoOnlineMiner(p) \/ InstallCancel(p)

verifyBack(p) == PollError(p) \/ PollAccepts(p) \/ VerifyFails(p)

runRollout(p) ==
    \/ DownloadOK(p) \/ DownloadFails(p)
    \/ SkipDevice(p) \/ BeginDevice(p)
    \/ SendOTA(p) \/ SendAborted(p) \/ OTASucceeds(p) \/ OTAFails(p)
    \/ verifyBack(p)
    \/ LoopEnds(p) \/ ReportSuccess(p) \/ Exit(p)

\* Every rollout that was asked for is over and nothing is left to happen.
Terminated ==
    /\ \A p \in Rollouts : At(p, "finished")
    /\ \A h \in Hosts : miner[h].power = "up" /\ ~miner[h].fresh
    /\ UNCHANGED vars

Next ==
    \/ \E p \in Rollouts : StartRollout(p) \/ runRollout(p)
    \/ CancelRollout
    \/ \E h \in Hosts : GoDown(h) \/ Boot(h) \/ Ages(h)
    \/ DaemonRestart
    \/ Terminated

\* The goroutine runs: each of its network calls and waits is bounded by a
\* timeout.  The handler that started it runs too.  Users, miners and restarts
\* promise nothing.
Fairness ==
    \A p \in Rollouts : WF_vars(runRollout(p)) /\ WF_vars(InstallCancel(p))

Spec == Init /\ [][Next]_vars /\ Fairness

-----------------------------------------------------------------------------
(* Properties *)

StatusType ==
    [running : BOOLEAN, done : BOOLEAN, ok : BOOLEAN, message : Messages,
     reason : {"none", "ota", "timeout", "cancelled"},
     order : Seq(Hosts), st : [Hosts -> DeviceStates]]
RunType ==
    [pc : {"idle", "finished"} \union Starting \union Working,
     devs : Seq(Hosts), idx : Nat \ {0}, image : Quality, sawOffline : BOOLEAN]
MinerType ==
    [power : {"up", "written", "down"}, runs : Quality, boots : Quality,
     fresh : BOOLEAN]

\* The type invariant: every field of the rollout structure, of its goroutines
\* and of the miners has its type (firmware.go, type RolloutStatus).
TypeOK ==
    /\ status \in StatusType
    /\ cancelFn \in Rollouts \union {NoRollout}
    /\ cancelled \subseteq Rollouts
    /\ run \in [Rollouts -> RunType]
    /\ miner \in [Hosts -> MinerType]
    /\ cur \in Rollouts \union {NoRollout}
    /\ sent \in [Rollouts -> Seq(Hosts)]
    /\ verified \in [Rollouts -> SUBSET Hosts]
    /\ mistakable \in [Rollouts -> SUBSET Hosts]

\* An upload goes to a further device only when every device this rollout
\* uploaded to before it, the canary first, came back hashing; and the uploads
\* are the entries of the device list in order, none twice.
CanaryGate ==
    \A p \in Rollouts :
        /\ Len(sent[p]) <= Len(run[p].devs)
        /\ \A j \in 1..Len(sent[p]) :
            /\ sent[p][j] = run[p].devs[j]
            /\ j < Len(sent[p]) => sent[p][j] \in verified[p]

\* "A bad image costs one miner, not the fleet" (the comment that opens
\* firmware.go), with the exceptions of the code: whatever rollouts overlap, an
\* image that does not hash is sent to at most one miner besides those whose old
\* image could be taken for it: a poll of it was lost before it rebooted, it had
\* booted within 180 s of the upload, or another rollout flashed it meanwhile.
BadImageCostsOneMiner ==
    \A p \in Rollouts :
        run[p].image = "bad" => Cardinality(Listed(sent[p]) \ mistakable[p]) <= 1

\* A device is reported "ok" only after it rebooted into an image: verifyBack
\* "never mistake[s] 'not rebooted yet' for success", but in those same cases.
OkMeansRebooted ==
    \A h \in Hosts :
        status.st[h] = "ok" /\ miner[h].power = "written" =>
            \E p \in Rollouts : h \in mistakable[p]

\* The alert "canary failed - fleet untouched" is true: no device but the
\* canary was uploaded to, and the status shows the others untouched.
FleetUntouched ==
    status.message = "canary_failed" =>
        /\ Listed(sent[cur]) \subseteq {status.order[1]}
        /\ \A h \in Listed(status.order) \ {status.order[1]} :
              status.st[h] = "pending"

\* Success is reported only if every device of the list is "ok" and was
\* verified by this very rollout: nothing was skipped, nothing failed.
SuccessMeansAll ==
    status.ok => \A h \in Listed(status.order) :
                    status.st[h] = "ok" /\ h \in verified[cur]

\* The status shows at most one device in the works, and none once the
\* rollout is over: no entry is left "flashing" or "verifying".
OneInFlight ==
    LET inFlight == {h \in Hosts : status.st[h] \in {"flashing", "verifying"}}
    IN  Cardinality(inFlight) <= 1 /\ (inFlight # {} => status.running)

\* What the status and the alert tell the user is true, at every step and however
\* a rollout ends: an untouched fleet, a complete success, one device in the works.
TruthfulReport == FleetUntouched /\ SuccessMeansAll /\ OneInFlight

\* Once a rollout's context is cancelled no upload of it begins any more, even
\* if the cancel comes after the check at the head of the loop.
NoUploadAfterCancel ==
    [][\A p \in cancelled : sent'[p] = sent[p]]_sent

\* Every rollout that was accepted ends, whatever the miners and the network
\* do: runRollout's waits are all bounded.
RolloutEnds ==
    \A p \in Rollouts : run[p].pc \in Working ~> At(p, "finished")

\* The abstract rollout of StagedRollout: its rollout is the one whose status
\* is installed.
Staged == INSTANCE StagedRollout WITH
    NoHost  <- -1,
    phase   <- IF cur = NoRollout THEN "idle"
               ELSE IF status.running THEN "active" ELSE "over",
    targets <- Listed(status.order),
    canary  <- IF cur = NoRollout THEN -1 ELSE status.order[1],
    touched <- IF cur = NoRollout THEN {} ELSE Listed(sent[cur]),
    trusted <- IF cur = NoRollout THEN {} ELSE verified[cur],
    success <- status.ok

\* Serial rollouts implement the promise of firmware.go's opening comment:
\* canary first, one unproven miner at a time, success only for all.
StagedSpec == Staged!Spec
=============================================================================
