# NodeOS in TLA+

NodeOS is one Go daemon, `nodeosd`, that sits between a Bitcoin node, a fleet of
AxeOS miners and a browser UI. This directory holds TLA+ specifications of the
parts where order matters, the TLC configurations that check them and the proofs
that TLAPS checks.

## Inventory

| Part | State it keeps | Operations | What is hard |
|---|---|---|---|
| Staged firmware rollout (`internal/fleet/firmware.go`) | one status and one cancel function, shared | StartRollout, the goroutine runRollout with verifyBack, CancelRollout | requests race; a cancel at any step; miners that are slow to reboot or never return; a restart of the daemon |
| Work engine (`internal/work/engine.go`) | settings, state, the owned gateway process, backoff, the flags `switched` and `autoDone` | tick (3 s), wait per process, SwitchToEngine, SwitchToExternal, UpdateSettings | the lock is released around every call out; processes that exit late; decisions on copies |
| Fleet registry (`internal/fleet/manager.go`) | miners with status and history, the pool | poll (5 s), add, remove, rename, scan, ApplyPool, persist | results that arrive for removed miners; concurrent saves; overlapping ApplyPool calls |
| State store (`internal/store`) | `state.json`, in memory and on disk | Get, Update | a failed write leaves memory ahead of disk |
| Merchant (`internal/merchant`) | invoices, provider, settings, `merchant.json` | Create, Poll (3 s), SetSettings | invoices changed outside the lock; alerts before the save; a provider that changes |
| Presets and fleet commands (`internal/fleet/tuning.go`, `manager.go`, `axeos`) | settings in each miner's flash and in use | ApplyPool, ApplyPreset, PatchMiner, RestartMiner | calls overlap; answers get lost; a PATCH needs a restart to work |
| Admin queue (`internal/admin`, `deploy/install.sh`) | one job; command, run and marker files | Start, follow; the root helper consumes commands | two processes and a directory; timeouts; restarts, power cuts |
| Update, services, node settings (`internal/update`, `services`, `node`) | staged files, a status cache; `bitcoin.conf`, units, the binary | stage, apply, validate; the helper's commands | files read by the helper while they change; roll-back |
| Node status (`internal/node/bitcoind.go`, `cmd/nodeosd`) | cached status, public address, the fleet's difficulty | Refresh (15 s), Peers | a node that syncs, comes and goes |
| Health (`internal/health`) | alert states, a history ring | a sample and a check every 15 s | hysteresis, wrap-around |
| Feed and event stream (`internal/alerts`, `server`) | the feed, one channel of 16 per stream | Add, broadcast, handleSSE | slow clients; the first snapshot goes past the channel |
| Sessions (`internal/auth`, `server`) | password, sessions | setup, login, logout, change of the password | checks and writes in separate critical sections; expiry |
| Pure code: `qr`, `geoip`, `tools/gen-geodata`, VersionNewer | tables | encode, look up, merge, compare | tables typed by hand; ranges that touch; 15 bits placed twice |
| The rest: `lightning`, `tlscert`, `support`, `sim`, `config`, `web` | none that others rely on | clients, views | no state |

How they interact: the server's handlers call the managers directly, each with a
mutex of its own. The work engine reads and sets the fleet's pool (`Pool`,
`SetPool`), starts `ApplyPool` in the background, and stores its settings and the
remembered pool. The rollout runs beside the poller on the same miners. Everything
that needs root goes through the queue directory to the helper. `main.go` starts the
loops; systemd restarts the daemon.

For each part, what makes it correct:

- rollout: a bad image costs one miner, and miners taken for rebooted too early; a report
  is true; every rollout ends;
- work engine: it owns the process that runs, which pays the current address; it
  comes back after crashes and goes away when disabled; it takes the fleet only when
  asked and gives it back to the pool it came from;
- registry: each outage gives one alert and one recovery; what is stored is the last
  state, unless two saves crossed;
- merchant: an invoice has one outcome; a payment is followed to its end; the file is
  what the manager holds;
- fleet commands: what is reported as done runs on the miner; no miner keeps half of a
  preset or a setting that it does not run with, unreported;
- admin queue: a job runs once and its result reaches the one who asked;
- helper: the node survives settings that bitcoind refuses at once; nothing half written stays
  installed but by a power cut or a failing write;
- status, feed, stream: a browser that keeps reading ends up with the current picture and
  misses no alert but those its full channel dropped; a share is celebrated once;
- health: one alert per excursion; the chart shows the newest samples;
- sessions: a token that ended opens nothing; no request acts on a password it has not shown;
- pure code: a reader gets the payload back, an address its country, a release its order.

`PROJECT.json` lists the hazards behind these, each at its line.

## Modules

| Module | What it is |
|---|---|
| `StagedRollout` | abstract: the promise of a staged rollout about the fleet |
| `Rollout` | `firmware.go`, with the miners as the code sees them; implements `StagedRollout` |
| `RolloutProofs` | types, the canary gate, true reports, the cost of a bad image, what ok means, cancels; that `Rollout` implements `StagedRollout`, and what this promises |
| `WorkEngine` | `engine.go`, with the gateway processes and the fleet's pool |
| `WorkEngineProofs` | types, ownership of processes, payout, backoff, remembered pool, switching back |
| `Registry` | `manager.go` without the fleet commands, and `store.go` |
| `RegistryProofs` | types, alerts, the store, scans |
| `InvoiceBook` | abstract: the promise of the point of sale about an invoice |
| `Merchant` | `merchant.go` and `btcpay.go`, with BTCPay's invoices; implements `InvoiceBook` |
| `MerchantProofs` | types, the file, one outcome; that `Merchant` implements `InvoiceBook` |
| `FleetOps` | ApplyPool, PatchMiner, RestartMiner, the presets, the AxeOS client and the devices |
| `FleetOpsProofs` | true reports, pairs, nothing pending |
| `AdminJobs` | abstract: the promise of the admin queue |
| `AdminQueue` | `admin.go` and the loop of the helper; implements `AdminJobs` |
| `Appliance` | `AdminQueue` with the helper's commands and the handlers that stage for them |
| `ApplianceProofs` | the queue: types, runs once, true verdicts, the refinement; the appliance is a queue; what is installed is whole; jobs apply entirely; the node survives |
| `Stream` | `alerts.go` and the event stream of `server.go` |
| `Health` | `health.go`: monitor, alerts, history (extends `Stream`) |
| `NodeStatus` | `bitcoind.go` and the loop of `main.go` |
| `Sessions` | `auth.go` and the handlers of `/api/auth` |
| `Console` | the four above with the fleet loop and its snapshot |
| `ConsoleProofs` | sessions, passwords, the feed and its broadcasts, block candidates, the monitor, types |
| `QRCode` | `qr.go` up to the matrix |
| `QRReader` | what a scanner makes of it, from the standard, with nothing of `QRCode` in it |
| `GeoIP` | `gen-geodata` and `geoip.go`: records to table to answer |
| `Releases` | VersionNewer |
| `Answers` | a question to `GeoIP` or `Releases`, and the answer |
| `AnswersProofs` | the table and the order of versions answer right, for any input |
| `MCRollout`, `MCWorkEngine`, `MCRegistry`, `MCMerchant`, `MCFleetOps`, `MCAppliance`, `MCConsole`, `MCAlgorithms` | instances for TLC |

Definitions named `...Never`, `...Unchecked` and the like, under a comment that starts
with "Mutant:", are not part of a specification: each is a plausible mistake in the
definition after it, with which TLC refutes the property it was written for.

### Rollout

A rollout `p` is one call of `StartRollout` and the goroutine it starts. `run[p]` has
its program counter and locals; `status`, `cancelFn` and `cancelled` are the shared
`rollout` struct and its contexts; `miner` is what a miner would do: up, written and
not rebooted yet, or down; the quality of the image it runs and of the one it boots
next; whether its uptime is below 180 s. A step is a critical section of `rollout.mu`
or a network call. `StartRollout` is three steps (`CheckRunning`, `InstallStatus`,
`InstallCancel`), as the code releases the lock between them. `verifyBack` polls
until it accepts, gives up or sees the cancel; its five minutes are a poll that may be
the last at any time. The device states are kept per host, which is what `setDevice`
does to entries of the same host.

The miners are external: a miner that took an image reboots at some time, before or after
it is first polled, boots what was written last, hashes if that is good, may go away, and ages
past 180 s of uptime. A poll may be lost though the miner is there.

`verifyBack` takes a miner for rebooted if a poll of it failed or its uptime is short, and both
may be so of a miner on its old image. `mistakable` is a history variable: the hosts of which a
rollout can be wrong in that way, because a poll of them was lost before they rebooted, because
they had booted within 180 s of the upload, or because another rollout flashed them while it
waited. `BadImageCostsOneMiner` and `OkMeansRebooted` except these hosts and hold of all
others, with rollouts that overlap (`ConcurrentStarts`) or follow each other.

### WorkEngine

A thread is the ticker or a handler; `th[t]` has its program counter and the copies it
carries over an unlock. `eng` is the struct under `e.mu`. `proc` holds the gateway
processes: up, told to exit, exited and not reaped. A step is a critical section, a call
of the fleet manager or the store, or the dial of the stratum port, which any process
that listens may answer. Time is abstract: `holdOff` says that `nextStart` is still to come, and the
30 s and 60 s limits may have passed or not. A pool is where it points; `SetPool` with
its save is one step. `before` and `hand` are history variables: the pool the last switch
replaced, and what the user did to the fleet by hand. So is `quiet`: nothing has overlapped so
far, no request another one or a tick, and neither a restart nor a change of the address came.
Nothing is excluded from a behaviour by it; `SwitchBack` speaks of the steps up to which it was so.

Constants select the world: `Requests` (what users ask), `HostMoves`, `Restarts`, `SavesFail`.

### Registry

`miners` maps a host to its entry (name, online, failCount, whether it has a history) or
to `Absent`. `poll` has the polls in flight: those of the round, which `pollAll` waits
for, and the one that `AddMiner` starts; a poll that was answered is applied later, to the
entry it finds then. A thread is a handler or a place of the scan's semaphore; `persist`
is two steps, the snapshot under `Manager.mu` and the store under `Store.mu`. `store` is
the state in memory, `file` is `state.json`, which is replaced whole or, if the write
fails, not at all. Persists overlap freely, as no lock spans the two halves. `told` (the last
alert about an entry), `saved`, `newest` (the persist that read last and has not stored yet) and
`overtaken` (the one that stored last had read before another) are history variables.

### InvoiceBook and Merchant

`InvoiceBook` is the promise: every step of an invoice is announced, it goes forward only and
ends with one outcome; `merchant.json` follows, never ahead of what was announced and never
back; a restart goes on from the file. The exception is written into it: a save may find a
status torn, which a later save repairs unless a restart takes it up first.

In `Merchant`, `log` is the list of invoices, newest last; `inv` has what its entries and
Poll's list point to, and whether PaidAt is set; `btcpay` is what BTCPay knows of each. `lock` is the
handler that holds `Manager.mu` while it writes `merchant.json` to `file`, from the first
read of an invoice (`BeginSave`) to the rename (`EndSave`). Poll writes invoices meanwhile,
without the lock: `Readings` has all that the save may have read, a status that is torn
between two lengths included. A refresh is one step, as only a save can see into it.
`told` is what the feed got since the start. Poll's order among open invoices is left
open. An invoice that BTCPay issued and whose answer was lost leaves no trace
(`NotIssued`), nor does one whose handler a restart ends before it is in the log.

### FleetOps

`dev` is the device: the settings in its flash (`nvs`), those it runs with (`use`), whether
it is up. `call` is a request to nodeosd with its program counter and its results by host. A
step is a critical section of `Manager.mu` or a request to a device, which is done and
answered, done with the answer lost, or not done. `alone` and `odd` are history variables: the
only call that reached a device since it wrote to it, and the hosts that a client tuned field
by field or another device took over, of which the presets promise nothing.

### AdminJobs, AdminQueue and Appliance

`AdminJobs` is the promise: one job at a time, in order, started at most once, and a verdict
that is the job's own or says that nodeosd stopped waiting. A restart forgets the verdict, a
power cut loses the job that runs.

`AdminQueue` is the directory: `dir[i]` has the suffixes of the files of job `i` (`cmd`, `run`,
`done`, `fail`), `job` and `follower` are nodeosd's, `helper` is the root helper in its loop.
The rename of the command before it is run is what makes `RunsOnce` true through power cuts.
What a command does is open: `Return` ends it either way.

`Appliance` extends it with the commands. `at` and `todo` say where the helper is in its
command; `conf`, `bak` and `node` are `bitcoin.conf`, its copy and what bitcoind runs with;
`stage`, `scratch`, `unit` and `live` are a service's unit files as they are staged, copied,
installed and run; `staged`, `bin` and `nodeosd` the binary. Handlers stage before they ask
for a job and the helper reads later, so a write is two steps, truncation and content; so is the
`sed ... > file` that installs a unit (install.sh:548), with `half` the unit between the two, and
either may fail unnoticed, as may `install` in self-update (454). Every command is spelled out in
the steps between which it may lose power, unit by unit and key by key, and a power cut or a
restart may happen at each; only `stop` and `rm` of one unit (602-603) are one step, as a cut
between them has the unit start again. `systemctl` may fail on any unit. bitcoind may give up on a
configuration that it refuses at any time (`NodeExits`), while the helper looks at it for five
seconds only: settings that are refused later are kept, and the node stays down. `before`,
`meant`, `torn` and `spoiled` are history variables: the file before the command, the version
asked for, what was cut short (and `"late"`: refused settings were kept), and the jobs whose
staged files were written again. Because `Appliance` refines `AdminQueue` step by step, the
queue's theorems are theorems of the appliance.

### Stream, Health, NodeStatus, Sessions and Console

`Stream`: `items` is the feed, `adding` an alert whose broadcast is under way, for each
goroutine that adds some, since the feed's lock is released before the broadcast; `chan` is a
client's channel, `conn` where its handler is, `wire` the last snapshot it was sent. A frame
for a full channel is dropped. `raised`, `told`, `missed` and `since` are history variables.

`Health`: a sample is entered in the ring and as `last`; then `check` goes through the keys
one by one. A reading is below the clear limit, between the limits, above, or not to be had.

`NodeStatus`: Refresh is a request in steps; the public address comes from two sources; the
difficulty goes to the fleet when a Refresh ends.

`Sessions`: a handler's checks and its writes are separate steps, and requests of every kind
overlap, setups too. A request remembers, for the properties, the password it has `shown` and
whether another one wrote the password since (`stale`). Hashes are the passwords.

`Console` puts them together with the fleet loop: polls, the two reads of `statusPayload`
(the fleet's sum first, the rest later), the broadcast; the two ways to poll a miner, whose
answers may come in either order; and what an event stream gets first. One miner stands for
the fleet; its failures are in `Registry`. `focus` picks the part whose environment moves in
a behaviour (with a budget of events), so that four small products replace a large one; the
loops, the stream and the properties are the same in each. In a focus other than `node` the node was refreshed
before. The monitor's append to the feed and its change of `active` are one step, as nobody
else writes `active`.

### QRCode, QRReader, GeoIP, Releases and Answers

`QRCode` follows `qr.go` function by function; `Init`, `ChooseVersion`, `Encode`, `PlacePair`,
`TryMask` and `Score` are the loops of Encode, the rest are operators. `QRReader` extends nothing of it
and has everything of its own, from the standard: the pictures of finder and alignment patterns
and the formula of the latter's positions, the mask conditions, the table of blocks, the
arithmetic of the field (sets of terms of a polynomial, where the encoder has tables of
exponents), the order of reading. So a slip in the encoder cannot cancel itself. It reads every
fixed module, checks the error correction of every block and both copies of format and version,
which the repository's round trip skips. `GeoIP` takes delegation records to a table
and looks up addresses; a family has addresses of `Width` bits. Sorting is any order by the start,
as sort.Slice leaves ties open. A version is a
sequence of numbers, a part that is not a number standing for itself. A behaviour of `Answers` is
one question, a set of records or two versions, and what the code makes of it. The records
asked about are those that give no address to two countries and end before the last address.

## Runs

Pass:

| Run | Bounds | Shows |
|---|---|---|
| `rollout_fleet` | 1 rollout, 3 miners, lists of up to 3 entries, repeated ones included | the canary gate, truthful messages, one device in flight, no upload begun after a cancel, termination, refinement of `StagedRollout` |
| `rollout_overlap` | 2 rollouts that follow each other or overlap, 2 miners, 2 entries, late reboots and lost polls | a bad image costs one miner and those that could be taken for rebooted; ok means rebooted, but for these |
| `engine_recovers` | 1 handler, 2 processes, no external pools, an address that comes and goes, failing saves | ownership, backoff; a disabled engine ends its processes, an enabled one gets one again |
| `engine_races` | 1 handler and the tick, all requests, restarts, 2 payouts, 2 external pools | the engine is never its own external pool; no gateway pays an old address; a restore brings back what the switch replaced and the auto-switch leaves it, as long as nothing overlapped |
| `merchant_books` | 1 store, 2 invoices, a log of 1, 1 handler, failing saves, restarts | racing saves are made good, one outcome is announced, payments are followed to their end, refinement of `InvoiceBook` |
| `appliance` | 2 jobs of each mix of kinds (`Mixes`), 2 settings, 1 and 2 units, versions 0 and 1, stagings only while a job may be asked for | queue: once, true, taken up, refinement of `AdminJobs`; node, units and binary stay whole but for the failures that the properties name |
| `fleet_ops` | 2 calls, 2 miners (one of them tuned), 2 pools, 2 ASICs, 2 presets | reports are true; pairs stay pairs; nothing pending is left unreported; each host is answered for |
| `console` | 2 clients (one that keeps reading), channels and a feed of 2, a ring of 2, 3 samples, 2 keys, up to 3 events | feed, stream, convergence, health, candidates, sessions |
| `algorithms` | payloads at every capacity, of 0, 18 and 135 bytes and one too long; versions 1, 2, 6, 7 and 10 to the end; then all compatible triples of 3-bit records, versions of up to 2 parts | the codes are readable and correctable, the tables answer, the order is one |
| `registry_persist` | 2 hosts, polls of one followed, 1 handler and 1 probe at a time, failing saves, restarts | the feed agrees with the state; outages are reported; scans are counted; the store follows, unless two persists crossed |

Three miners and three entries give a canary, a successor and one more to skip, and
a list that repeats a host next to one that does not; a second rollout is enough for
what is left over to matter, as nothing but `status`, `cancelFn` and the miners
survives the first. Two processes are the one that is stopping and its successor: with
the slots taken no third can start before a reap, and in the code a third would only
be another disowned one. Two payouts and two pools distinguish
old from new. One handler beside the tick gives every pair of interleaved switches that
the code has. The bound on the backoff is reached. Polls of different hosts touch
different entries, so one followed host is enough, next to another for the snapshots to
differ in; two failures in place of three leave a failure that is not the last. A log
of one and two invoices reach the trimming, with the older one still in Poll's list; an
invoice is refreshed by itself, and what two have to do with each other (`changed`) is in
the proof of `BooksStored`.
Two jobs are a job and one that meets what it left behind (markers after a timeout, a staged
file, a half-edited configuration); each mix pairs kinds that share files. Two settings give
a key that is written and one that is not yet; of two units one may be copied when the other
is cut short. Two calls are what it takes to interleave. A channel of two can be full, or hold
an old frame and a new one; a ring and a feed of two wrap. Three samples make an excursion, a
calm and another one. The five versions are those where the layout changes: without and with
alignment patterns (1, 2), the last without version information and the first with it (6, 7),
and the first with a count of 16 bits and blocks of two lengths (10). Every one of the 20
versions is still encoded and its layout checked. Three records are what it takes to merge
two and run into a third.

Two violations, disagreements between the code and what it says of itself (the quotes
are under `findings`):

| Run | What happens |
|---|---|
| `engine_release` | the engine is disabled while the tick switches the fleet to it: `UpdateSettings` finds that nothing was switched (engine.go:471, 477) and returns; the tick then sets the flag and points the fleet at the engine that was stopped (386, 397-412), where it stays |
| `appliance_lightning` | new Lightning settings are stored, staged and installed, and Core Lightning goes on with the old ones, as `systemctl start` leaves a running unit alone |

More disagreements were met while modelling; the models follow the code, and no run is
spent on them. Those a model shows under another value of a constant say which:

- two overlapping StartRollout calls both pass the check for a running rollout and two
  rollouts run (firmware.go:196-233; manager.go:105 says "one at a time, fleet-wide"); in
  `rollout_overlap` they do, and what is left of the promise is checked;
- a miner on its old image is accepted if a poll of it was lost before it reboots, or if it was
  restarted shortly before the update (firmware.go:349-351: "so we never mistake 'not rebooted
  yet' for success"), also as the canary of a bad image: these are the hosts in `mistakable`;
- a switch to the engine by hand does not count as the automatic one, and when the user then
  re-points the fleet, the tick after the next overrides the choice (engine.go:188; 195 says
  "but never auto-override their choice", and so does engine_test.go:252);
- persist stores outside the lock, so the older of two snapshots may be stored last and a
  miner that a scan found is missing from `state.json` until the next persist (manager.go:290-308;
  store.go:1-2): the states in which `overtaken` is true;
- Poll asks the store of the settings in force, not the one that issued the invoice
  (merchant.go:306; 303 says "refreshes every open invoice"): with requests that change the
  store, `PaymentTracked` does not hold;
- a cancel aborts the device being flashed (firmware.go:276; the comment at 90 says it
  stops after it);
- a cancel accepted between the last look at the context and the end leaves a run that
  reports success (firmware.go:306, 244; the comment at 304 says it must not);
- the backoff goes 5, 10, ..., 80, 160 s, past `backoffMax` of 120 s (engine.go:278, 41);
- after a restart the engine no longer knows that the fleet points at it, and disabling it
  leaves the fleet there (engine.go:99, 477; 444 says otherwise), nor is the fleet brought back
  when the new settings cannot be stored (474-476);
- a fleet that points at a former address of the machine is taken for one on an external
  pool, which is then remembered (engine.go:363, 385; store.go:44-45);
- two overlapping `UpdateSettings` calls may be stored in the other order
  (engine.go:474);
- a save that reads a settled invoice before its PaidAt is set, followed by a crash, books
  the payment at the time of its creation for good, as a settled invoice is not refreshed
  again (merchant.go:53, 289; btcpay.go:193-196);
- overlapping ApplyPool calls leave a mixed fleet; a miner that was offline is not re-pointed
  later; a fallback stays when the new pool has none (manager.go:462-466);
- ApplyPool waits 500 ms between miners that take 10 s to reboot, so the whole fleet is down
  at once (manager.go:440-441 says a bad config does not do that);
- the first preset of each list is `eco` (tuning.go:25-26 says it is the vendor default);
  ApplyPreset trusts the ASIC of the last answer (58-62) and reads the label without the lock
  (89); the API takes any frequency and voltage, which tuning.go:10-15 says is avoided;
- a key that nodeosd lets through and the helper refuses (an IPv6 proxy: settings.go:220,
  install.sh:415) leaves the keys before it written;
- crossCheck sees the submitted keys, not those in the file (settings.go:239): bitcoind then
  refuses, and the helper restores the file if that shows within five seconds; if it shows later,
  "settings applied" was logged, the copy is gone and the node is down (install.sh:440-449);
- an installed unit is truncated before it is written, and nobody looks whether sed or install
  succeeded (install.sh:454, 548): a power cut or a full disk leaves an empty unit, or a binary
  that does not start;
- an empty staging directory is "installed" without a word (install.sh:528, nullglob);
- markers of a job that timed out, or that a restart forgot, stay (admin.go:118 speaks of a
  tidy directory);
- the difficulty of a node that still syncs is handed to the fleet (main.go:115-117), so a
  small share may be announced as a possible block, though server.go:897-899 calls that
  difficulty "absurdly flattering"; a record polled while no difficulty is known is never
  announced, and after a restart or a re-add an old one may be announced again;
- two setups that overlap both pass the check, and the second replaces the password of the first
  instead of the 409 (server.go:139, 143): the requests that are `stale`;
- a change of the password revokes no session; a disk that disappears keeps its alert active;
  the status of an unreachable node drops the public address that is still cached;
- the CPU time is unsigned, so the clamp at zero never applies (health.go:295-298);
- alerts may be broadcast in another order than they were added, as Add releases its lock
  before it notifies; the first snapshot may be older or newer than the frames behind it; the
  page loads the alerts before it connects and not again after a reconnect;
- a range that ends at the last address wraps in `last.end+1` (gen-geodata main.go:349).

## Reading the properties

Some properties are conjunctions of named parts, one for each thing to get right:
`TruthfulReport` (of the rollout's status: an untouched fleet, a complete success, one device
in the works), `GatewayFollows` (gone when disabled, back when enabled), `SwitchBack` (the
replaced pool returns, and stays), `JobsHonest` (a job runs once, its verdict is true),
`InstalledWhole` (units, binary), `JobsWhole` (settings and services apply entirely or not at
all), `ReportsTrue` (a host reported as done is done, each host has an answer), `Scannable`
(layout, error correction, format, version, payload), `AnswersRight` (countries, versions),
`MonitorFaithful` (chart, alerts), `AuthSound` (sessions, passwords), `StreamLives` (the loop goes
on, clients converge).

Some except what the code cannot keep, and then name the cause and no more: `mistakable`,
`overtaken`, `stale`, `torn` and `quiet` record that it happened, in the same behaviours that are
checked for everything else. A property with such an exception fails if anything but its cause
leads to the bad state, and its mutant shows that it does.

Types: those of `Rollout`, `WorkEngine`, `Registry`, `Merchant`, `AdminQueue` and `Console` are
proved; those of the staged files, the copies and the records in flight are part of the
inductive invariants of `Appliance` and `FleetOps`; the codewords of `QRCode` are checked.

## Fairness

`Rollout`: weak fairness of each rollout's own steps, since its loop waits on timers
and on calls with timeouts only. Nothing is assumed of miners or users.
`WorkEngine`: the ticker ticks and a tick finishes (the dial has a timeout of 1 s); a
call that was accepted finishes; a process that was told to exit does, as it is killed
after 5 s, and is reaped by its `wait`; a hold-off passes. Nothing is assumed of the
node, of users, or of the health of a gateway.
`Registry`: the poll loop goes round and a poll ends (it times out after 4 s).
`Merchant`: the ticker ticks, a refresh ends (8 s) and so does a write of the file; Poll
gets the lock though handlers come again and again (Go's mutex hands over to who waits
more than 1 ms); BTCPay answers now and then. Nothing is assumed of customers.
`Appliance`: the goroutines of a job run and their deadline passes; the path unit watches the
directory and the commands return. Taking a job is strongly fair: the power does not fail each
time before the first rename. `FleetOps` has no liveness.
`Console`: the loops run on their tickers, their calls have timeouts, and an alert that was
added is broadcast (in the same goroutine). Of a client only the lively ones are assumed to
read; nothing is assumed of the others, of users, miners or the node.

## Proofs

All of them hold for every value of the constants that meets the named assumptions: any number
of hosts, rollouts, handlers, processes, calls, jobs, clients and tokens, lists and rings of any
Two switches remain as assumptions, for what the code does not prevent. With the switch turned,
TLC finds counterexamples to `TruthfulReport` (overlapping starts, in the instance of
`rollout_overlap`) and to `ExtNotEngine` (an address that moves).

| Assumed | Of | Because |
|---|---|---|
| `~ConcurrentStarts` | `ReportsTrue`, `ImplementsStaged`, `PromiseKept` | two calls of StartRollout that overlap both pass the check, and share one status |
| `~HostMoves` | `ExternalStaysExternal` | the engine knows itself by the address the machine has now |

Each inductive invariant was first checked by TLC on the instance of its run.

`RolloutProofs`. `CanaryFirst`: `CanaryGate` alone is not inductive, as that the second upload
follows a verified canary needs what the program counter says about the loop index (`GateAt`).
`ReportsTrue` needs the status to be tied to the one goroutine that works on it (`ReportInv`):
it (alone, by `SerialInv`, which says which program counters the `Running` flag stands for)
lists that goroutine's devices (`Shown`), those behind the canary are pending until the loop
gets there (`Untried`), one in the works is the one at the loop index (`InFlight`), and those
before the index are verified and ok, but for a host that is listed twice and is in the works
again (`Proven`). `OneMinerLost` and
`OkIsRebooted` hold though starts overlap and rest on another invariant: a rollout that waits for a
miner it cannot mistake has flashed it last, and has seen neither a short uptime nor a failed poll
of its old image (`Awaited`), so that what it verifies of a bad image are miners it can mistake
(`UnprovenBad`). For `OkIsRebooted`, a host that is not in the list is not ok (`OnlyListed`), and an
upload that is stored takes the ok away from its host, or makes the host one that the rollout which
waits for it can mistake. `CancelStopsUploads` is a fact about each step: the
context is looked at by the upload itself. `ImplementsStaged` takes the actions of `Rollout` one
by one to a step of `StagedRollout` or a stutter, by `ReportInv`; `OneUnproven` and
`TotalSuccess` are proved of the abstract specification (`StagedInv`: trust is earned by a
touch), and `PromiseKept` puts the two together.

`WorkEngineProofs`. `ProcessOwned` and `PaysCurrent` go together, since a change of payout stops
the right process only because the owned one is the only one up; `ProcessSteps` reduces the 30
actions to the seven that touch processes. `BackoffStays` needs
`BackoffInitial < 2 * BackoffMax`, as in the code. `ExternalStaysExternal`: `ExtInv` adds that a
pool about to be remembered is not the engine's. `SwitchBackSticksWhenCalm`:
`CalmInv` holds as long as `quiet` does, which only a step that begins a tick or a request, a
restart or a change of the address ends. It says what a thread may still believe of the fleet's
pool and of the flags at each of its program counters (`PathOf`), that a tick which is to switch
did not start after the user switched back (`TickInv`), and that the history agrees with `ext` and
`autoDone` (`StoryInv`).

`RegistryProofs`. `TypeCorrect`, with `ProbeInv`: a probe has an address. `AlertsAgree`:
inductive once a miner that is online has answered. `StoreFollows`, for persists
that overlap as they like: `StoreInv` says that a thread is about to take a snapshot, or that the
newest one taken is what the registry is now, be it on its way or stored last (`NewestCurrent`). `ScansAccount`: a place of the
semaphore leaves `Probing` in the step that counts its probe.

`MerchantProofs`. `BooksStored`: `BooksInv` says that a save in progress has read what the manager
holds, unless the poll has written since; then `changed` is set and the poll's own save follows.
`OutcomeOnce`: what the poll is to refresh is open, what is open was told no outcome, and an
invoice on its way to the log was told nothing. `MerchantImplementsBook`: `BookInv` orders the
three copies of a status, in the file, in what a save has read and in the manager, which holds
only because the poll's save waits for the lock too; and what is paid here is paid at BTCPay, so
that no refresh can take it back. An invoice put in the log is reset in place, which
`InvoiceBook` does not allow: it was pending (`BookInv` again), so nothing changes. `OneOutcome`
is proved but no run checks it by itself: `BookSpec`, which one does, implies it.

`FleetOpsProofs`. `Inv` has a part for each theorem, and all need `Shape`. `CallsReportTruth`:
`AnswersOf` says for which hosts a call has answered at its index, `Loaded` that the flash of a
device which only one pool call has reached holds what that call sends. `PresetsStayPaired`:
`Paired` follows the model of the ASIC from the device through the manager's record into the
call. `NothingLeftPending`: `Pending` says that a device which does not run with its flash has a
call that will restart it or has reported it. A host may be named twice in a call, as in the
code: the second turn overwrites the first result.

`ApplianceProofs`, of the queue. `QInv` ties the files to the helper and to nodeosd: a job that was never
taken has a command file and no other (`Fresh`, `Waits`), one that runs is the helper's
(`Busy`, `Taken`), a marker says what the outcome was (`Markers`), and nothing is newer than what
was issued (`Newer`). `RunsOnce` and `VerdictTrue`, which make up `JobsHonest`, are conjuncts of
it; `QueueImplementsJobs` follows with a lemma per action on what the job looks like before and
after.

Of the appliance. Each step of `Appliance` is a step of `AdminQueue` or a stutter, which gives it
the queue's theorems. `NodeAlwaysSurvives`: `Place` says in which command the helper's position
can be, `ConfWhole` that the copy is the file before the command, that this one is not refused
unless it was kept late before, and that bitcoind runs the file or has given up on it. `WholeInstalls` and `JobsApplyWhole` share `JobsInv`: the files staged for a job that
still waits are whole and of its version unless the job is spoiled (`ForJobs`), and the handler
that stages over them has spoiled it (`ByWeb`); what the helper has copied is whole and of
that version too, and so is what it has installed but for writes that failed (`Copying`,
`WholeCopies`, `Placed`); the binary that waits is whole (`BinInv`); and
`bitcoin.conf` is, key by key, the new or the old one (`Edits`). That `Gone`, which stands for no
files, is none of the possible sets of files is assumed of the model value.

`ConsoleProofs`. `NoGhosts`, from `SessionInv`: a live session was issued and has not ended.
`ShownFirst`: `ShownInv` says what each request past its check holds (`Shown`); a write of one
request makes all others past theirs stale, a login looks again. `FeedIsNewest` and `CandidatesOnce` together, since a candidate's record
(`Recorded`: the best difficulty seen is at least that of each candidate of this stay) is what
keeps the next one above it. `AlertsTraced`: `Traced` says of every client, and not only of one
whose channel is empty, that each alert since it subscribed was told, was missed, is in its
channel or is about to be broadcast. `MonitorTells`: `RingInv` says where in the ring the newest
samples are, and the chart reads them by arithmetic modulo its length (`RingReads`); `CheckInv`
says that a key is active while an alert of it stands that no sample since has cleared
(`Standing`), for the samples that check has seen of that key (`Seen`), which differ between keys
while it goes from one to the next. `ConsoleTypes` collects them, with what Refresh may hold
(`RefreshInv`).

`AnswersProofs`. The provers have no induction over data, but a set of numbers has a least member
(`LeastOf`), which is enough: `UpTo` is induction below a bound with a set for the predicate, and
`Iterates` says that a recursion up to a bound has a solution, so that a recursive definition of
`GeoIP` is equal to its own body. On that rest `SortedSorts` (a finite set of ranges can be
sorted), `MergeMerges` (after n ranges the merged ones are disjoint, ascend, and cover country by
country what the n cover: `MergedSoFar`; that a range of another country starts behind the last
one is where it matters that no address has two countries), `InternKnows` (every code is found)
and `SearchFinds` (the binary search ends at the first range that ends at or after the address,
if the ends ascend). `AnswersSound` puts them together. `NewerIsAnOrder`: no two versions are newer
than each other, and a third one lies on one side of a newer and an older one; `ZeroAdds` that a
missing part is a zero.

Model-checked only:

- liveness (`RolloutEnds`, `GatewayFollows`, `OutageReported`, `PaymentTracked`, `QueueDrains`,
  `StreamLives`), which rests on fairness and ENABLED;
- `Scannable`: it evaluates the concrete tables of the QR code and its bytes with bitwise
  operators, which the provers do not have.

## Not modelled

Wording and layout of messages, the log ring, the demo mode, the release
list; of the registry, telemetry, the alerts about temperature and the list of addresses a
scan found; a `state.json` that cannot be parsed; of the merchant, amounts, rates, payment
links, the statistics and the export; of the helper, node-install, lightning-rune and Podman
(jobs that end either way), the shared RPC credential and the marker that says the helper is
there (`Available`, taken to be there); of the services, the units' text and the status cache;
of the QR code, the PNG; of the geo lookup, parsing an address; of the console, polls that
fail (they are in `Registry`) and the reading of NewMonitor. ParseDiff and the patterns of
single settings are text. The Lightning client, the configuration, the certificate, the support bundle and the
web pages keep no state that others rely on. `PROJECT.json` lists each with its reason.

## Plan

1. Core: `StagedRollout`, `Rollout`, `WorkEngine`, `Registry`, `Merchant` and their proofs
   (done).
2. `FleetOps`; `AdminQueue` with the helper, the services, the settings and the update;
   `Console` with the feed, the stream, the health monitor, the node status and the sessions;
   the pure algorithms; their proofs (done).
3. The proofs of the refinement of `StagedRollout`, of the truthful reports of `Rollout` and
   `FleetOps`, of the cost of a bad image, the scans, the switch back, the installations, the
   broadcasts, the monitor, the country table and the order of versions, and of the refinement
   of `InvoiceBook` (done).
4. Left: `PoolSwitch`, composing ApplyPool with the work engine; RestartMiner in the middle of
   a rollout; the status cache of the services; safety lemmas towards the liveness properties
   (what stays reachable or cannot be undone).
