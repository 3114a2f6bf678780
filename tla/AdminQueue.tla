----------------------------- MODULE AdminQueue -----------------------------
(***************************************************************************)
(* The queue directory between nodeosd, which may not do anything           *)
(* privileged, and the root helper: internal/admin/admin.go on one side,    *)
(* process_queue and its path unit in deploy/install.sh on the other.  They *)
(* share no lock: files and renames are all they have.                      *)
(*                                                                          *)
(* A job is its number: its file names hold the time it was made, so the    *)
(* helper's glob sorts by it.  A pass of follow reads the clock last and is *)
(* one action.  What a command does is left to the module that extends this *)
(* one; here it ends either way.  The log files are left out.               *)
(***************************************************************************)
EXTENDS Integers

CONSTANT MaxJobs \* bound: jobs ever asked for

ASSUME QueueAssumption == MaxJobs \in Nat

Ids == 1 .. MaxJobs
Suffixes == {"cmd", "run", "done", "fail"}

VARIABLES
    issued,   \* number of jobs asked for
    job,      \* Client.job, id 0 for nil; why is Job.Error
    follower, \* the goroutine that follows each job: none, poll or tidy
    dir,      \* the files of each job in <dataDir>/admin
    helper,   \* nodeos-admin: program counter, its glob, its job, its result
    \* history
    runs,     \* how often each command was carried out
    outcome   \* what the helper said of each job

queueVars == <<issued, job, follower, dir, helper, runs, outcome>>

NoJob == [id |-> 0, running |-> FALSE, ok |-> FALSE, why |-> ""]
Asleep == [pc |-> "asleep", todo |-> {}, cur |-> 0, ok |-> FALSE]
Queued == {i \in Ids : "cmd" \in dir[i]}

QueueTypeOK ==
    /\ issued \in 0 .. MaxJobs
    /\ job \in [id : 0 .. MaxJobs, running : BOOLEAN, ok : BOOLEAN,
                why : {"", "failed", "timed out"}]
    /\ follower \in [Ids -> {"none", "poll", "tidy"}]
    /\ dir \in [Ids -> SUBSET Suffixes]
    /\ helper \in [pc : {"asleep", "loop", "exec", "mark", "tidy"}, todo : SUBSET Ids,
                   cur : 0 .. MaxJobs, ok : BOOLEAN]
    /\ runs \in [Ids -> Nat]
    /\ outcome \in [Ids -> {"none", "done", "fail"}]

QueueInit ==
    /\ issued = 0
    /\ job = NoJob
    /\ follower = [i \in Ids |-> "none"]
    /\ dir = [i \in Ids |-> {}]
    /\ helper = Asleep
    /\ runs = [i \in Ids |-> 0]
    /\ outcome = [i \in Ids |-> "none"]

-----------------------------------------------------------------------------
(* nodeosd                                                                  *)

CanStart == ~job.running /\ issued < MaxJobs

\* Start, from the check of the running job to its unlock.  The command file
\* appears whole, by a rename.
Start(i) ==
    /\ CanStart
    /\ i = issued + 1
    /\ issued' = i
    /\ dir' = [dir EXCEPT ![i] = {"cmd"}]
    /\ job' = [id |-> i, running |-> TRUE, ok |-> FALSE, why |-> ""]
    /\ follower' = [follower EXCEPT ![i] = "poll"]
    /\ UNCHANGED <<helper, runs, outcome>>

\* finish, up to its unlock: the goroutine holds a pointer to its own job.
Finish(i, ok, why) ==
    /\ job' = IF job.id = i
              THEN [job EXCEPT !.running = FALSE, !.ok = ok, !.why = why] ELSE job
    /\ follower' = [follower EXCEPT ![i] = "tidy"]
    /\ UNCHANGED <<issued, dir, helper, runs, outcome>>

\* Mutant: the markers of all jobs have one name.
FollowAnyMarker(i) ==
    /\ follower[i] = "poll"
    /\ \/ (\E j \in Ids : "done" \in dir[j]) /\ Finish(i, TRUE, "")
       \/ (\E j \in Ids : "fail" \in dir[j]) /\ Finish(i, FALSE, "failed")

\* follow finds a marker, .done first.
Follow(i) ==
    /\ follower[i] = "poll"
    /\ \/ "done" \in dir[i] /\ Finish(i, TRUE, "")
       \/ "done" \notin dir[i] /\ "fail" \in dir[i] /\ Finish(i, FALSE, "failed")

\* No marker after 30 minutes.  The helper is not told.
GiveUp(i) ==
    /\ follower[i] = "poll"
    /\ dir[i] \intersect {"done", "fail"} = {}
    /\ Finish(i, FALSE, "timed out")

\* The end of finish, after the unlock.
RemoveMarkers(i) ==
    /\ follower[i] = "tidy"
    /\ dir' = [dir EXCEPT ![i] = @ \ {"done", "fail"}]
    /\ follower' = [follower EXCEPT ![i] = "none"]
    /\ UNCHANGED <<issued, job, helper, runs, outcome>>

-----------------------------------------------------------------------------
(* The helper                                                               *)

\* Mutant: a .run file is taken for a helper at work.
WakeUnlessRun ==
    /\ helper.pc = "asleep" /\ Queued # {}
    /\ \A i \in Ids : "run" \notin dir[i]
    /\ helper' = [helper EXCEPT !.pc = "loop", !.todo = Queued]
    /\ UNCHANGED <<issued, job, follower, dir, runs, outcome>>

\* The path unit starts the helper while a command file exists; the helper
\* expands its glob once.
Wake ==
    /\ helper.pc = "asleep" /\ Queued # {}
    /\ helper' = [helper EXCEPT !.pc = "loop", !.todo = Queued]
    /\ UNCHANGED <<issued, job, follower, dir, runs, outcome>>

\* Mutant: the glob comes in the order of the directory.
TakeAny(i) ==
    /\ helper.pc = "loop" /\ i \in helper.todo
    /\ dir' = [dir EXCEPT ![i] = (@ \ {"cmd"}) \union {"run"}]
    /\ helper' = [helper EXCEPT !.pc = "exec", !.cur = i, !.todo = @ \ {i}]
    /\ runs' = [runs EXCEPT ![i] = @ + 1]
    /\ UNCHANGED <<issued, job, follower, outcome>>

\* Read the next command and rename its file, before it is carried out.
Take(i) ==
    /\ helper.pc = "loop"
    /\ i \in helper.todo /\ \A j \in helper.todo : i <= j
    /\ dir' = [dir EXCEPT ![i] = (@ \ {"cmd"}) \union {"run"}]
    /\ helper' = [helper EXCEPT !.pc = "exec", !.cur = i, !.todo = @ \ {i}]
    /\ runs' = [runs EXCEPT ![i] = @ + 1]
    /\ UNCHANGED <<issued, job, follower, outcome>>

\* The command returns.
Return(ok) ==
    /\ helper.pc = "exec"
    /\ helper' = [helper EXCEPT !.pc = "mark", !.ok = ok]
    /\ UNCHANGED <<issued, job, follower, dir, runs, outcome>>

\* Touch the marker.
Mark ==
    /\ helper.pc = "mark"
    /\ LET how == IF helper.ok THEN "done" ELSE "fail" IN
         /\ dir' = [dir EXCEPT ![helper.cur] = @ \union {how}]
         /\ outcome' = [outcome EXCEPT ![helper.cur] = how]
    /\ helper' = [helper EXCEPT !.pc = "tidy"]
    /\ UNCHANGED <<issued, job, follower, runs>>

RemoveRun ==
    /\ helper.pc = "tidy"
    /\ dir' = [dir EXCEPT ![helper.cur] = @ \ {"run"}]
    /\ helper' = [helper EXCEPT !.pc = "loop", !.cur = 0, !.ok = FALSE]
    /\ UNCHANGED <<issued, job, follower, runs, outcome>>

Rest ==
    /\ helper.pc = "loop" /\ helper.todo = {}
    /\ helper' = Asleep
    /\ UNCHANGED <<issued, job, follower, dir, runs, outcome>>

-----------------------------------------------------------------------------
(* Faults                                                                   *)

\* nodeosd stops: the job and the goroutines are gone, the files stay.
ForgetJobs ==
    /\ job' = NoJob
    /\ follower' = [i \in Ids |-> "none"]

Restart ==
    /\ ForgetJobs
    /\ UNCHANGED <<issued, dir, helper, runs, outcome>>

PowerCut ==
    /\ ForgetJobs
    /\ helper' = Asleep
    /\ UNCHANGED <<issued, dir, runs, outcome>>

-----------------------------------------------------------------------------
Client == \E i \in Ids : Follow(i) \/ GiveUp(i) \/ RemoveMarkers(i)
Loop == Wake \/ (\E i \in Ids : Take(i)) \/ Mark \/ RemoveRun \/ Rest

QueueNext ==
    \/ \E i \in Ids : Start(i)
    \/ Client \/ Loop
    \/ \E ok \in BOOLEAN : Return(ok)
    \/ Restart \/ PowerCut

QueueSpec == QueueInit /\ [][QueueNext]_queueVars

-----------------------------------------------------------------------------
(* Properties                                                               *)

\* A command is carried out at most once, though the helper may lose power at
\* any step of it: process_queue renames the file before it starts.
RunsOnce == \A i \in Ids : runs[i] <= 1

\* The verdict that the UI shows is the helper's own on that very job, or says
\* that nodeosd stopped waiting; it is never that of an earlier job, whatever
\* markers a timeout or a restart left behind.
VerdictTrue ==
    job.id # 0 /\ ~job.running =>
        \/ job.ok /\ outcome[job.id] = "done"
        \/ ~job.ok /\ job.why = "failed" /\ outcome[job.id] = "fail"
        \/ ~job.ok /\ job.why = "timed out"

\* nodeosd follows one job at a time, the one it shows as running, even after
\* timeouts and while the goroutines of earlier jobs still remove their markers.
OneFollowed ==
    \A i \in Ids : follower[i] = "poll" <=> job.running /\ job.id = i

\* The jobs as AdminJobs sees them.
State(i) ==
    CASE outcome[i] # "none" -> outcome[i]
      [] outcome[i] = "none" /\ i > issued -> "new"
      [] outcome[i] = "none" /\ "cmd" \in dir[i] -> "queued"
      [] outcome[i] = "none" /\ "run" \in dir[i] ->
           IF helper.cur = i THEN "started" ELSE "lost"

Says ==
    CASE job.id = 0 -> "none"
      [] job.id # 0 /\ job.running -> "running"
      [] job.id # 0 /\ ~job.running /\ job.ok -> "done"
      [] job.id # 0 /\ ~job.running /\ ~job.ok ->
           IF job.why = "failed" THEN "fail" ELSE "timeout"

Jobs == INSTANCE AdminJobs WITH
            state <- [i \in Ids |-> State(i)],
            shown <- [id |-> job.id, says |-> Says]

\* The directory keeps the promise of AdminJobs: one job at a time, in order,
\* at most once, and a true verdict.
JobsSpec == Jobs!Spec

\* Every command that was queued is taken up, also one whose job nodeosd forgot.
QueueDrains == Queued # {} ~> Queued = {}

\* A job is carried out at most once and reported as it went.
JobsHonest == RunsOnce /\ VerdictTrue
=============================================================================
