------------------------------ MODULE Appliance ------------------------------
(***************************************************************************)
(* What the admin jobs do to the machine: the commands of the root helper   *)
(* (deploy/install.sh) as the execution of AdminQueue, together with the    *)
(* handlers of internal/server, internal/services and internal/update that  *)
(* prepare them.                                                            *)
(*                                                                          *)
(* nodeosd stages unit files and a binary before it asks for the job, and   *)
(* the helper reads them later, without any lock: a write is two steps, the *)
(* truncation and the content.  sed -i, mv and rm are atomic; install, a    *)
(* redirection and WriteFile are not.  Each unit given to systemctl is a    *)
(* step of its own.  One handler stages at a time, and only while a job may *)
(* still be asked for, which bounds the stagings.  Left out: the shared RPC *)
(* credential and the installation of Podman; node-install and              *)
(* lightning-rune are jobs that end either way.  A node-config edits its    *)
(* keys in any order.                                                       *)
(***************************************************************************)
EXTENDS AdminQueue

CONSTANTS Keys,        \* settings of bitcoin.conf
          Vals,        \* their values, "" when the key is not in the file
          Submissions, \* settings that the UI may send, some of Keys each
          Rejected,    \* values that the helper's pattern refuses
          Refused,     \* configurations with which bitcoind does not stay up
          FirstConf,   \* bitcoin.conf at the start
          Units,       \* the units of each service
          MaxVersion,  \* bound: versions of the settings of a service, of nodeosd
          Mixes,       \* bound: kinds of requests that occur in one behaviour
          Gone, Empty  \* no such file or directory, a truncated file

Services == DOMAIN Units
AllUnits == UNION {Units[s] : s \in Services}
Versions == 0 .. MaxVersion
Configs == [Keys -> Vals]

ASSUME ApplianceAssumption ==
    /\ MaxVersion \in Nat
    /\ Refused \subseteq Configs /\ FirstConf \in Configs \ Refused
    /\ \A r \in Submissions : DOMAIN r \subseteq Keys /\ \A k \in DOMAIN r : r[k] \in Vals
    /\ Gone \notin Versions \union Configs \union AllUnits
    /\ Empty \notin Versions \union {Gone}
    /\ AllUnits \intersect {"conf", "late", "bin"} = {}
    /\ Gone \notin [AllUnits -> Versions \union {Gone, Empty}]

VARIABLES
    mix,      \* the kinds of requests in this behaviour
    ask,      \* the command file of each job
    at, todo, \* where the helper is in its command, and what it has yet to visit
    conf, bak,  \* bitcoin.conf and bitcoin.conf.bak
    node,     \* the configuration bitcoind runs with, Gone if it is down
    want,     \* the version of the service settings in the store
    web,      \* the handler that stages: program counter, service, units, version
    stage,    \* services-staging/<id>: Gone, or its unit files
    scratch,  \* the helper's private copies
    unit,     \* /etc/containers/systemd
    half,     \* the unit whose file the helper has truncated and not yet written
    live,     \* the version that each unit runs with, Gone if it is stopped
    staged,   \* staged/nodeosd
    bin,      \* /usr/local/bin/nodeosd
    nodeosd,  \* the version that runs, Gone if it does not start
    \* history
    before,   \* bitcoin.conf when the current command began
    meant,    \* the version staged when a job was asked for
    torn,     \* what a power cut or a failing write left half done, "conf", "bin" or
              \* a unit; "late": a configuration that bitcoind refuses was kept
    spoiled   \* jobs whose staged files were written again after Start

confVars == <<conf, bak, node, before>>
svcVars == <<scratch, unit, half, live>>
binVars == <<staged, bin, nodeosd>>
webVars == <<ask, want, web, stage, meant, spoiled>>
appVars == <<mix, at, todo, confVars, svcVars, binVars, webVars, torn>>
vars == <<queueVars, appVars>>

NoWeb == [pc |-> "idle", svc |-> Gone, todo |-> {}, v |-> 0]
NoUnits == [u \in AllUnits |-> Gone]
Broken == {Gone, Empty}
Asked(kind) == /\ helper.pc = "exec" /\ ask[helper.cur].kind = kind
Req == ask[helper.cur]

Init ==
    /\ QueueInit
    /\ mix \in Mixes
    /\ ask = [i \in Ids |-> [kind |-> "none"]]
    /\ at = "begin" /\ todo = {}
    /\ conf = FirstConf /\ bak = Gone /\ node = FirstConf /\ before = FirstConf
    /\ want = 0 /\ web = NoWeb /\ stage = [s \in Services |-> Gone]
    /\ scratch = NoUnits /\ unit = NoUnits /\ half = Gone /\ live = NoUnits
    /\ staged = Gone /\ bin = 0 /\ nodeosd = 0
    /\ meant = [i \in Ids |-> 0] /\ torn = {} /\ spoiled = {}

-----------------------------------------------------------------------------
(* Requests                                                                 *)

\* admin.Start on behalf of a handler.
Queue(i, r) ==
    /\ nodeosd # Gone
    /\ Start(i)
    /\ ask' = [ask EXCEPT ![i] = r]

\* crossCheck sees the submitted settings, not the file.
CrossCheck(r) ==
    ~("prune" \in DOMAIN r /\ r["prune"] # "0"
      /\ "txindex" \in DOMAIN r /\ r["txindex"] = "1")

\* PUT /api/node/config
PutConfig(i, r) ==
    /\ "config" \in mix
    /\ CrossCheck(r)
    /\ Queue(i, [kind |-> "node-config", set |-> r])
    /\ UNCHANGED <<mix, at, todo, confVars, svcVars, binVars, want, web, stage, meant,
                   spoiled, torn>>

\* POST /api/services/{id}/{start, stop, restart, remove}
PostService(i, s, act) ==
    /\ act \in mix
    /\ Queue(i, IF act = "remove" THEN [kind |-> "service-remove", svc |-> s]
                ELSE [kind |-> "service-ctl", svc |-> s, act |-> act])
    /\ UNCHANGED <<mix, at, todo, confVars, svcVars, binVars, want, web, stage, meant,
                   spoiled, torn>>

\* POST /api/node/setup, POST /api/lightning/connect
PostOther(i) ==
    /\ "other" \in mix
    /\ Queue(i, [kind |-> "other"])
    /\ UNCHANGED <<mix, at, todo, confVars, svcVars, binVars, want, web, stage, meant,
                   spoiled, torn>>

WebStep(w) == web' = w
WebOnly == UNCHANGED <<mix, queueVars, at, todo, confVars, svcVars, ask, torn, meant>>

\* POST /api/services/{id}/install, up to the call of Stage; for Lightning also
\* PUT /api/lightning/settings, which stores the new settings first.
BeginStage(s, change) ==
    /\ s \in mix /\ nodeosd # Gone /\ web.pc = "idle" /\ issued < MaxJobs
    /\ change => s = "lightning" /\ want < MaxVersion
    /\ want' = IF change THEN want + 1 ELSE want
    /\ WebStep([pc |-> "clear", svc |-> s, todo |-> Units[s],
                v |-> IF s = "lightning" THEN want' ELSE 0])
    /\ WebOnly /\ UNCHANGED <<binVars, stage, spoiled>>

\* Jobs that have yet to read what the handler is about to write.
Waiting(kind, s) ==
    {i \in Ids : /\ "cmd" \in dir[i] \/ (helper.pc = "exec" /\ helper.cur = i)
                 /\ ask[i].kind = kind
                 /\ kind = "service-install" => ask[i].svc = s}

\* Stage: RemoveAll, MkdirAll, and a WriteFile for each unit.
StageClear ==
    /\ web.pc = "clear"
    /\ stage' = [stage EXCEPT ![web.svc] = Gone]
    /\ spoiled' = spoiled \union Waiting("service-install", web.svc)
    /\ WebStep([web EXCEPT !.pc = "mkdir"])
    /\ WebOnly /\ UNCHANGED <<binVars, want>>

StageMkdir ==
    /\ web.pc = "mkdir"
    /\ stage' = [stage EXCEPT ![web.svc] = NoUnits]
    /\ WebStep([web EXCEPT !.pc = "files"])
    /\ WebOnly /\ UNCHANGED <<binVars, want, spoiled>>

StageFile(u) ==
    /\ web.pc = "files" /\ u \in web.todo
    /\ IF stage[web.svc][u] = Gone
       THEN /\ stage' = [stage EXCEPT ![web.svc][u] = Empty]
            /\ UNCHANGED web
       ELSE /\ stage' = [stage EXCEPT ![web.svc][u] = web.v]
            /\ WebStep([web EXCEPT !.todo = @ \ {u}])
    /\ WebOnly /\ UNCHANGED <<binVars, want, spoiled>>

\* Mutant: the job is asked for while the files are being written.
StageQueueEarly ==
    /\ web.pc = "files"
    /\ WebStep(NoWeb)
    /\ \/ \E i \in Ids :
            /\ Queue(i, [kind |-> "service-install", svc |-> web.svc])
            /\ meant' = [meant EXCEPT ![i] = web.v]
       \/ job.running /\ UNCHANGED <<queueVars, ask, meant>>
    /\ UNCHANGED <<mix, at, todo, confVars, svcVars, binVars, want, stage, spoiled, torn>>

\* The end of the handler: Start, which may refuse with the files already staged.
StageQueue ==
    /\ web.pc = "files" /\ web.todo = {}
    /\ WebStep(NoWeb)
    /\ \/ \E i \in Ids :
            /\ Queue(i, [kind |-> "service-install", svc |-> web.svc])
            /\ meant' = [meant EXCEPT ![i] = web.v]
       \/ job.running /\ UNCHANGED <<queueVars, ask, meant>>
    /\ UNCHANGED <<mix, at, todo, confVars, svcVars, binVars, want, stage, spoiled, torn>>

\* POST /api/update/apply with a verified download of release v.
ApplyBegin(v) ==
    /\ "update" \in mix
    /\ nodeosd # Gone /\ web.pc = "idle" /\ issued < MaxJobs
    /\ v > nodeosd
    /\ WebStep([pc |-> "binary", svc |-> Gone, todo |-> {}, v |-> v])
    /\ staged' = Empty
    /\ spoiled' = spoiled \union Waiting("self-update", Gone)
    /\ WebOnly /\ UNCHANGED <<bin, nodeosd, want, stage>>

\* The rest of WriteFile; a helper that removes the file meanwhile leaves it gone.
ApplyWrite ==
    /\ web.pc = "binary"
    /\ staged' = IF staged = Gone THEN Gone ELSE web.v
    /\ WebStep([web EXCEPT !.pc = "update"])
    /\ WebOnly /\ UNCHANGED <<bin, nodeosd, want, stage, spoiled>>

ApplyQueue ==
    /\ web.pc = "update"
    /\ WebStep(NoWeb)
    /\ \/ \E i \in Ids : Queue(i, [kind |-> "self-update"])
                         /\ meant' = [meant EXCEPT ![i] = web.v]
       \/ job.running /\ UNCHANGED <<queueVars, ask, meant>>
    /\ UNCHANGED <<mix, at, todo, confVars, svcVars, binVars, want, stage, spoiled, torn>>

-----------------------------------------------------------------------------
(* node_config                                                              *)

ConfOnly == UNCHANGED <<mix, svcVars, binVars, webVars>>

ConfigBegin ==
    /\ Asked("node-config") /\ at = "begin"
    /\ bak' = conf /\ before' = conf
    /\ at' = "edit" /\ todo' = DOMAIN Req.set
    /\ UNCHANGED <<queueVars, conf, node, torn>> /\ ConfOnly

ConfigEdit(k) ==
    /\ Asked("node-config") /\ at = "edit" /\ k \in todo
    /\ Req.set[k] \notin Rejected
    /\ conf' = [conf EXCEPT ![k] = Req.set[k]]
    /\ todo' = todo \ {k}
    /\ UNCHANGED <<queueVars, at, bak, node, before, torn>> /\ ConfOnly

\* A value that nodeosd let through and the helper refuses: the keys edited
\* before it stay.
ConfigReject(k) ==
    /\ Asked("node-config") /\ at = "edit" /\ k \in todo
    /\ Req.set[k] \in Rejected
    /\ Return(FALSE)
    /\ at' = "begin" /\ todo' = {}
    /\ torn' = IF conf = before THEN torn ELSE torn \union {"conf"}
    /\ UNCHANGED <<conf, bak, node, before>> /\ ConfOnly

\* systemctl restart returns as soon as bitcoind is started.
ConfigRestart ==
    /\ Asked("node-config") /\ at = "edit" /\ todo = {}
    /\ node' = conf
    /\ at' = "settled"
    /\ UNCHANGED <<queueVars, todo, conf, bak, before, torn>> /\ ConfOnly

\* After five seconds bitcoind is active, which it may be with a configuration
\* that it refuses later.
ConfigKeep ==
    /\ Asked("node-config") /\ at = "settled" /\ node # Gone
    /\ bak' = Gone
    /\ at' = "begin"
    /\ Return(TRUE)
    /\ torn' = IF conf \in Refused THEN torn \union {"late"} ELSE torn
    /\ UNCHANGED <<todo, conf, node, before>> /\ ConfOnly

\* It is not: it exited, and systemd waits longer than that before it tries again.
ConfigRestore ==
    /\ Asked("node-config") /\ at = "settled" /\ node = Gone
    /\ conf' = bak /\ bak' = Gone
    /\ at' = "reboot"
    /\ UNCHANGED <<queueVars, todo, node, before, torn>> /\ ConfOnly

\* Mutant: the file is restored and the node is not started again.
ConfigRebootSkipped ==
    /\ Asked("node-config") /\ at = "reboot"
    /\ at' = "begin"
    /\ Return(FALSE)
    /\ UNCHANGED <<todo, conf, bak, node, before, torn>> /\ ConfOnly

ConfigReboot ==
    /\ Asked("node-config") /\ at = "reboot"
    /\ node' = conf
    /\ at' = "begin"
    /\ Return(FALSE)
    /\ UNCHANGED <<todo, conf, bak, before, torn>> /\ ConfOnly

NodeConfig ==
    \/ ConfigBegin \/ (\E k \in Keys : ConfigEdit(k) \/ ConfigReject(k))
    \/ ConfigRestart \/ ConfigKeep \/ ConfigRestore \/ ConfigReboot

\* bitcoind gives up on a configuration that it refuses, at once or after a while.
NodeExits ==
    /\ node \in Refused
    /\ node' = Gone
    /\ UNCHANGED <<queueVars, at, todo, conf, bak, before, torn>> /\ ConfOnly

\* Restart=on-failure with RestartSec=10: not within the five seconds.
NodeRestarts ==
    /\ node = Gone /\ ~(Asked("node-config") /\ at = "settled")
    /\ node' = conf
    /\ UNCHANGED <<queueVars, at, todo, conf, bak, before, torn>> /\ ConfOnly

-----------------------------------------------------------------------------
(* service_install, service_ctl, service_remove                             *)

SvcOnly == UNCHANGED <<mix, confVars, binVars, webVars>>
Installed(s) == {u \in Units[s] : unit[u] # Gone}
Fails == Return(FALSE) /\ at' = "begin" /\ todo' = {}

\* The directory is checked; Podman and the RPC credential take their time.
ServiceCheck ==
    /\ Asked("service-install") /\ at = "begin"
    /\ IF stage[Req.svc] = Gone THEN Fails
       ELSE at' = "glob" /\ UNCHANGED <<queueVars, todo>>
    /\ UNCHANGED <<svcVars, torn>> /\ SvcOnly

\* The glob, with nullglob: no file is no error.
ServiceGlob ==
    /\ Asked("service-install") /\ at = "glob"
    /\ todo' = IF stage[Req.svc] = Gone THEN {}
               ELSE {u \in Units[Req.svc] : stage[Req.svc][u] # Gone}
    /\ scratch' = NoUnits
    /\ at' = "copy"
    /\ UNCHANGED <<queueVars, unit, half, live, torn>> /\ SvcOnly

\* Mutant: the staged file was validated before it is copied, the copy is not.
ServiceCopyUnchecked(u) ==
    /\ Asked("service-install") /\ at = "copy" /\ u \in todo
    /\ LET c == IF stage[Req.svc] = Gone THEN Gone ELSE stage[Req.svc][u] IN
         IF c = Gone THEN Fails /\ UNCHANGED scratch
         ELSE /\ scratch' = [scratch EXCEPT ![u] = c]
              /\ todo' = todo \ {u}
              /\ UNCHANGED <<queueVars, at>>
    /\ UNCHANGED <<unit, half, live, torn>> /\ SvcOnly

\* Copy one unit and validate the copy, which must have an Image line.
ServiceCopy(u) ==
    /\ Asked("service-install") /\ at = "copy" /\ u \in todo
    /\ LET c == IF stage[Req.svc] = Gone THEN Gone ELSE stage[Req.svc][u] IN
         IF c \in Broken THEN Fails /\ UNCHANGED scratch
         ELSE /\ scratch' = [scratch EXCEPT ![u] = c]
              /\ todo' = todo \ {u}
              /\ UNCHANGED <<queueVars, at>>
    /\ UNCHANGED <<unit, half, live, torn>> /\ SvcOnly

ServiceCopied ==
    /\ Asked("service-install") /\ at = "copy" /\ todo = {}
    /\ at' = "install" /\ todo' = {u \in AllUnits : scratch[u] # Gone}
    /\ UNCHANGED <<queueVars, svcVars, torn>> /\ SvcOnly

\* sed ... > file, for a copy: the shell truncates the unit file ...
ServiceTruncate(u) ==
    /\ Asked("service-install") /\ at = "install" /\ half = Gone /\ u \in todo
    /\ unit' = [unit EXCEPT ![u] = Empty]
    /\ half' = u /\ todo' = todo \ {u}
    /\ UNCHANGED <<queueVars, at, scratch, live, torn>> /\ SvcOnly

\* ... and sed writes it, or fails, which nobody notices.
ServiceWrite ==
    /\ Asked("service-install") /\ at = "install" /\ half # Gone
    /\ \/ /\ unit' = [unit EXCEPT ![half] = scratch[half]]
          /\ torn' = torn \ {half}
       \/ /\ torn' = torn \union {half}
          /\ UNCHANGED unit
    /\ half' = Gone
    /\ UNCHANGED <<queueVars, at, todo, scratch, live>> /\ SvcOnly

ServiceInstalled ==
    /\ Asked("service-install") /\ at = "install" /\ half = Gone /\ todo = {}
    /\ at' = "each" /\ todo' = {u \in AllUnits : scratch[u] # Gone}
    /\ UNCHANGED <<queueVars, svcVars, torn>> /\ SvcOnly

\* What systemctl may leave of a unit; a failure is logged or ignored.  A unit
\* that runs is not started again.
Started(u) == IF live[u] = Gone /\ unit[u] \notin Broken THEN {Gone, unit[u]} ELSE {live[u]}
Stopped(u) == {live[u], Gone}
Restarted(u) == {live[u], Gone} \union ({unit[u]} \ Broken)

\* systemctl on the next unit.
Systemctl(u, outcomes) ==
    /\ at = "each" /\ u \in todo
    /\ \E v \in outcomes : live' = [live EXCEPT ![u] = v]
    /\ todo' = todo \ {u}
    /\ UNCHANGED <<queueVars, at, scratch, half, torn>> /\ SvcOnly

ServiceStart(u) ==
    /\ Asked("service-install")
    /\ Systemctl(u, Started(u))
    /\ UNCHANGED unit

ServiceCtl(u) ==
    /\ Asked("service-ctl")
    /\ Systemctl(u, CASE Req.act = "start" -> Started(u)
                       [] Req.act = "stop" -> Stopped(u)
                       [] Req.act = "restart" -> Restarted(u))
    /\ UNCHANGED unit

\* stop and rm; a power cut between them starts the unit again.
ServiceRemove(u) ==
    /\ Asked("service-remove")
    /\ Systemctl(u, Stopped(u))
    /\ unit' = [unit EXCEPT ![u] = Gone]

\* The glob of service_ctl and service_remove.
ServiceFind ==
    /\ Asked("service-ctl") \/ Asked("service-remove")
    /\ at = "begin"
    /\ IF Installed(Req.svc) = {} THEN Fails
       ELSE at' = "each" /\ todo' = Installed(Req.svc) /\ UNCHANGED queueVars
    /\ UNCHANGED <<svcVars, torn>> /\ SvcOnly

\* The last unit was visited; the scratch directory, if any, is removed.
ServiceEnd ==
    /\ at = "each" /\ todo = {}
    /\ scratch' = NoUnits
    /\ at' = "begin"
    /\ Return(TRUE)
    /\ UNCHANGED <<todo, unit, half, live, torn>> /\ SvcOnly

Service ==
    \/ ServiceCheck \/ ServiceGlob \/ ServiceCopied \/ ServiceWrite \/ ServiceInstalled
    \/ ServiceFind \/ ServiceEnd
    \/ \E u \in AllUnits :
         \/ ServiceCopy(u) \/ ServiceTruncate(u) \/ ServiceStart(u)
         \/ ServiceCtl(u) \/ ServiceRemove(u)

-----------------------------------------------------------------------------
(* self_update, and the commands that are not modelled                      *)

BinOnly == UNCHANGED <<mix, todo, confVars, svcVars>>

\* install removes the old binary and begins to write the new one, or fails
\* before; what it returns is not looked at.
UpdateBegin ==
    /\ Asked("self-update") /\ at = "begin"
    /\ IF staged = Gone THEN Return(FALSE) /\ UNCHANGED <<at, bin>>
       ELSE /\ \/ at' = "write" /\ bin' = Empty
               \/ at' = "rm" /\ UNCHANGED bin
            /\ UNCHANGED queueVars
    /\ UNCHANGED <<staged, nodeosd, webVars, torn>> /\ BinOnly

UpdateWrite ==
    /\ Asked("self-update") /\ at = "write"
    /\ \/ bin' = staged /\ torn' = torn \ {"bin"}
       \/ torn' = torn \union {"bin"} /\ UNCHANGED bin
    /\ at' = "rm"
    /\ UNCHANGED <<queueVars, staged, nodeosd, webVars>> /\ BinOnly

UpdateRm ==
    /\ Asked("self-update") /\ at = "rm"
    /\ staged' = Gone
    /\ at' = "restart"
    /\ UNCHANGED <<queueVars, bin, nodeosd, webVars, torn>> /\ BinOnly

\* nodeosd starts with the binary that is there, and no request under way.
Reboots ==
    /\ nodeosd' = IF bin \in Broken THEN Gone ELSE bin
    /\ web' = NoWeb
    /\ UNCHANGED <<ask, want, stage, meant, spoiled>>

UpdateRestart ==
    /\ Asked("self-update") /\ at = "restart"
    /\ Restart /\ Reboots
    /\ at' = "restarted"
    /\ UNCHANGED <<staged, bin, torn>> /\ BinOnly

\* The verdict of systemctl on the restart.
UpdateReturn ==
    /\ Asked("self-update") /\ at = "restarted"
    /\ \E ok \in BOOLEAN : Return(ok)
    /\ at' = "begin"
    /\ UNCHANGED <<binVars, webVars, torn>> /\ BinOnly

SelfUpdate == UpdateBegin \/ UpdateWrite \/ UpdateRm \/ UpdateRestart \/ UpdateReturn

Other == /\ Asked("other")
         /\ \E ok \in BOOLEAN : Return(ok)
         /\ UNCHANGED appVars

-----------------------------------------------------------------------------
\* nodeosd is stopped and started by systemd.
DaemonRestart ==
    /\ Restart /\ Reboots
    /\ UNCHANGED <<mix, at, todo, confVars, svcVars, staged, bin, torn>>

\* Everything starts again from the files.
MachineCut ==
    /\ PowerCut /\ Reboots
    /\ at' = "begin" /\ todo' = {} /\ scratch' = NoUnits /\ half' = Gone
    /\ node' = conf
    /\ live' = [u \in AllUnits |-> IF unit[u] \in Broken THEN Gone ELSE unit[u]]
    /\ torn' = torn \union
                 (IF Asked("node-config") /\ at # "begin" THEN {"conf"} ELSE {})
                 \union (IF Asked("self-update") /\ at = "write" THEN {"bin"} ELSE {})
                 \union (IF half # Gone THEN {half} ELSE {})
    /\ UNCHANGED <<mix, conf, bak, before, unit, staged, bin>>

Requests ==
    \/ \E i \in Ids :
         \/ \E r \in Submissions : PutConfig(i, r)
         \/ \E s \in Services, act \in {"start", "stop", "restart", "remove"} :
               PostService(i, s, act)
         \/ PostOther(i)
    \/ \E s \in Services, change \in BOOLEAN : BeginStage(s, change)
    \/ \E v \in Versions : ApplyBegin(v)

Staging == StageClear \/ StageMkdir \/ (\E u \in AllUnits : StageFile(u))
           \/ StageQueue \/ ApplyWrite \/ ApplyQueue

Exec == NodeConfig \/ Service \/ SelfUpdate \/ Other

Next ==
    \/ Requests \/ Staging \/ Exec
    \/ (Client \/ Loop) /\ UNCHANGED appVars
    \/ NodeExits \/ NodeRestarts
    \/ DaemonRestart \/ MachineCut

\* The goroutines run and the deadline passes; the path unit watches, and the
\* commands that systemctl and podman carry out return; the power does not fail
\* each time before the first rename.
Fairness ==
    /\ WF_vars(Client /\ UNCHANGED appVars)
    /\ WF_vars((Loop /\ UNCHANGED appVars) \/ Exec)
    /\ SF_vars((\E i \in Ids : Take(i)) /\ UNCHANGED appVars)

Spec == Init /\ [][Next]_vars /\ Fairness

-----------------------------------------------------------------------------
(* Properties                                                               *)

\* However a change of settings ends, the node runs what bitcoin.conf says once
\* the job is over, unless a rejected key or a power cut left the file half edited,
\* or bitcoind refused the new settings only after the look at it
\* (install.sh:439-447): then it is down until they change.
NodeSurvives ==
    "conf" \notin torn /\ ~Asked("node-config") =>
        \/ node = conf
        \/ node = Gone /\ conf \in Refused /\ "late" \in torn

\* node_config applies all of the settings or none of them.
AllOrNothing ==
    [][ Asked("node-config") /\ helper'.pc = "mark" /\ "conf" \notin torn' =>
          conf' = [k \in Keys |-> IF helper'.ok /\ k \in DOMAIN Req.set
                                  THEN Req.set[k] ELSE before[k]] ]_vars

\* What reaches /etc/containers/systemd is a whole unit of some version, also
\* when nodeosd stages the service again while the helper reads; a truncated file
\* stays behind only where the power failed or sed did, and until it is written
\* again.
UnitsWhole == \A u \in AllUnits : unit[u] = Empty => half = u \/ u \in torn

\* A service that was installed is complete and of the version that was staged
\* for the job, unless it was staged again before the helper had read it, or a
\* write failed.
WholeService ==
    [][ Asked("service-install") /\ helper'.pc = "mark" /\ helper'.ok
        /\ helper.cur \notin spoiled =>
          \A u \in Units[Req.svc] : unit'[u] = meant[helper.cur] \/ u \in torn' ]_vars

\* The installed binary is one that was verified, unless another update was
\* staged over it while the job waited or ran, or install failed or lost power.
BinaryWhole ==
    "bin" \notin torn /\ spoiled = {} /\ at # "write" => bin \in Versions

\* server.go:383: "PUT re-stages the unit with the new options and restarts CLN
\* via the helper".
LightningApplied ==
    [][ Asked("service-install") /\ helper'.pc = "mark" /\ helper'.ok
        /\ helper.cur \notin spoiled =>
          \A u \in Units[Req.svc] : live'[u] \in {Gone, meant[helper.cur]} ]_vars

\* What is installed is whole, the units and the binary.
InstalledWhole == UnitsWhole /\ BinaryWhole

\* A command applies what it was asked for, all of it, or nothing.
JobsWhole == AllOrNothing /\ WholeService
=============================================================================
