--------------------------- MODULE ApplianceProofs ---------------------------
(***************************************************************************)
(* What the queue directory keeps for any number of jobs, and that it does  *)
(* what AdminJobs promises; that the appliance behaves as the queue,        *)
(* whatever its commands do; and what the commands keep for any services,   *)
(* settings and number of jobs.                                             *)
(***************************************************************************)
EXTENDS Appliance, TLAPS

-----------------------------------------------------------------------------
(* Types *)

HelperType == [pc : {"asleep", "loop", "exec", "mark", "tidy"}, todo : SUBSET Ids,
               cur : 0 .. MaxJobs, ok : BOOLEAN]
JobType == [id : 0 .. MaxJobs, running : BOOLEAN, ok : BOOLEAN,
            why : {"", "failed", "timed out"}]

LEMMA IdsNat == MaxJobs \in Nat /\ 0 \in 0 .. MaxJobs /\ \A i \in Ids : i \in 0 .. MaxJobs /\ i \in Nat \ {0}
BY QueueAssumption DEF Ids

LEMMA UpTo == \A n \in 0 .. MaxJobs : n \in Nat /\ (n # 0 => n \in Ids)
BY QueueAssumption DEF Ids

\* What the types say of the numbers.
LEMMA Numbers ==
  ASSUME QueueTypeOK
  PROVE  /\ issued \in Nat /\ job.id \in Nat /\ helper.cur \in Nat
         /\ job.id # 0 => job.id \in Ids
         /\ helper.cur # 0 => helper.cur \in Ids
         /\ helper.todo \subseteq Ids
         /\ \A i \in Ids : i \in Nat /\ runs[i] \in Nat
<1>1. job \in JobType /\ helper \in HelperType /\ issued \in 0 .. MaxJobs
  BY DEF QueueTypeOK, JobType, HelperType
<1>2. job.id \in 0 .. MaxJobs
  BY <1>1 DEF JobType
<1>3. helper.cur \in 0 .. MaxJobs /\ helper.todo \subseteq Ids
  BY <1>1 DEF HelperType
<1>4. \A i \in Ids : runs[i] \in Nat
  BY DEF QueueTypeOK
<1>5. QED
  BY <1>1, <1>2, <1>3, <1>4, UpTo, IdsNat

LEMMA AtRest == NoJob \in JobType /\ Asleep \in HelperType
BY IdsNat DEF NoJob, Asleep, JobType, HelperType

LEMMA FinishType ==
  ASSUME QueueTypeOK, NEW i \in Ids, NEW ok \in BOOLEAN,
         NEW why \in {"", "failed", "timed out"}, Finish(i, ok, why)
  PROVE  QueueTypeOK'
BY DEF Finish, QueueTypeOK

LEMMA QueueTypeStep == QueueTypeOK /\ [QueueNext]_queueVars => QueueTypeOK'
<1> SUFFICES ASSUME QueueTypeOK, [QueueNext]_queueVars PROVE QueueTypeOK'
  OBVIOUS
<1>1. ASSUME NEW i \in Ids, Start(i) PROVE QueueTypeOK'
  <2>1. issued' \in 0 .. MaxJobs /\ job' \in JobType
    BY <1>1, IdsNat DEF Start, JobType
  <2>2. dir' \in [Ids -> SUBSET Suffixes]
    BY <1>1 DEF Start, QueueTypeOK, Suffixes
  <2>3. QED
    BY <1>1, <2>1, <2>2 DEF Start, QueueTypeOK, JobType
<1>2. ASSUME NEW i \in Ids, Follow(i) PROVE QueueTypeOK'
  BY <1>2, FinishType DEF Follow
<1>3. ASSUME NEW i \in Ids, GiveUp(i) PROVE QueueTypeOK'
  BY <1>3, FinishType DEF GiveUp
<1>4. ASSUME NEW i \in Ids, RemoveMarkers(i) PROVE QueueTypeOK'
  BY <1>4 DEF RemoveMarkers, QueueTypeOK
<1>5. CASE Wake
  BY <1>5 DEF Wake, QueueTypeOK, Queued
<1>6. ASSUME NEW i \in Ids, Take(i) PROVE QueueTypeOK'
  <2>1. dir' \in [Ids -> SUBSET Suffixes]
    BY <1>6 DEF Take, QueueTypeOK, Suffixes
  <2>2. helper' \in HelperType
    BY <1>6, IdsNat DEF Take, QueueTypeOK, HelperType
  <2>3. runs' \in [Ids -> Nat]
    <3>1. runs \in [Ids -> Nat]
      BY DEF QueueTypeOK
    <3>2. runs[i] + 1 \in Nat
      BY <1>6, Numbers
    <3>3. QED
      BY <1>6, <3>1, <3>2 DEF Take
  <2>4. QED
    BY <1>6, <2>1, <2>2, <2>3 DEF Take, QueueTypeOK, HelperType
<1>7. CASE Mark
  <2>1. \A how \in {"done", "fail"} :
            [dir EXCEPT ![helper.cur] = @ \union {how}] \in [Ids -> SUBSET Suffixes]
    BY DEF QueueTypeOK, Suffixes
  <2>2. QED
    BY <1>7, <2>1 DEF Mark, QueueTypeOK
<1>8. CASE RemoveRun
  <2>1. helper' \in HelperType
    BY <1>8, IdsNat DEF RemoveRun, QueueTypeOK, HelperType
  <2>2. dir' \in [Ids -> SUBSET Suffixes]
    BY <1>8 DEF RemoveRun, QueueTypeOK
  <2>3. QED
    BY <1>8, <2>1, <2>2 DEF RemoveRun, QueueTypeOK, HelperType
<1>9. CASE Rest
  BY <1>9, AtRest DEF Rest, QueueTypeOK, HelperType
<1>10. ASSUME NEW ok \in BOOLEAN, Return(ok) PROVE QueueTypeOK'
  BY <1>10 DEF Return, QueueTypeOK
<1>11. CASE Restart
  BY <1>11, AtRest DEF Restart, ForgetJobs, QueueTypeOK, JobType
<1>12. CASE PowerCut
  BY <1>12, AtRest DEF PowerCut, ForgetJobs, QueueTypeOK, JobType, HelperType
<1>13. CASE UNCHANGED queueVars
  BY <1>13 DEF queueVars, QueueTypeOK
<1>14. QED
  BY <1>1, <1>2, <1>3, <1>4, <1>5, <1>6, <1>7, <1>8, <1>9, <1>10, <1>11, <1>12, <1>13
     DEF QueueNext, Client, Loop

LEMMA QueueTypeInit == QueueInit => QueueTypeOK
<1> SUFFICES ASSUME QueueInit PROVE QueueTypeOK
  OBVIOUS
<1>1. issued \in 0 .. MaxJobs /\ job \in JobType /\ helper \in HelperType
  BY IdsNat, AtRest DEF QueueInit
<1>2. /\ follower \in [Ids -> {"none", "poll", "tidy"}] /\ dir \in [Ids -> SUBSET Suffixes]
      /\ outcome \in [Ids -> {"none", "done", "fail"}]
  BY DEF QueueInit
<1>3. runs \in [Ids -> Nat]
  BY DEF QueueInit
<1>4. QED
  BY <1>1, <1>2, <1>3 DEF QueueTypeOK, JobType, HelperType

\* In every state of the queue the variables have their types.
THEOREM QueueTypeCorrect == QueueSpec => []QueueTypeOK
<1>1. QED
  BY QueueTypeInit, QueueTypeStep, PTL DEF QueueSpec

-----------------------------------------------------------------------------
(* The files and the helper *)

\* A job not asked for yet has left no trace.
Fresh ==
    /\ job.id <= issued
    /\ \A i \in Ids : i > issued => dir[i] = {} /\ runs[i] = 0 /\ outcome[i] = "none"

\* A command that is queued has not been carried out; the glob holds only such.
Waits ==
    /\ helper.todo \subseteq Queued
    /\ \A i \in Queued : runs[i] = 0 /\ outcome[i] = "none" /\ "run" \notin dir[i]

\* What the helper is busy with.
Busy ==
    /\ helper.pc \in {"asleep", "loop"} <=> helper.cur = 0
    /\ helper.pc \in {"exec", "mark"} => outcome[helper.cur] = "none"
    /\ helper.pc = "tidy" => outcome[helper.cur] # "none"
    /\ helper.cur # 0 => helper.cur \notin Queued /\ helper.cur <= issued

\* A marker says what the helper said.
Markers == \A i \in Ids : \A how \in {"done", "fail"} : how \in dir[i] => outcome[i] = how

\* A job that was taken and has no outcome has its .run file.
Taken == \A i \in Ids :
    i <= issued /\ outcome[i] = "none" /\ i \notin Queued => "run" \in dir[i]

\* Commands that the glob does not hold are newer than those it holds.
Newer ==
    helper.pc # "asleep" =>
        \A i \in helper.todo, j \in Queued \ helper.todo : i < j

QInv ==
    /\ QueueTypeOK
    /\ RunsOnce /\ Fresh /\ Waits /\ Busy /\ Markers /\ Taken /\ Newer
    /\ OneFollowed /\ VerdictTrue

LEMMA QInvInit == QueueInit => QInv
<1> SUFFICES ASSUME QueueInit PROVE QInv
  OBVIOUS
<1>1. QueueTypeOK
  BY QueueTypeInit
<1>2. /\ \A i \in Ids : runs[i] = 0 /\ dir[i] = {} /\ outcome[i] = "none"
      /\ issued = 0 /\ job.id = 0
      /\ helper.pc = "asleep" /\ helper.cur = 0 /\ helper.todo = {}
  BY DEF QueueInit, NoJob, Asleep
<1>4. Queued = {}
  BY <1>2 DEF Queued
<1>5. RunsOnce /\ Fresh
  BY <1>2 DEF RunsOnce, Fresh
<1>6. Waits /\ Busy /\ Markers /\ Newer
  BY <1>2, <1>4 DEF Waits, Busy, Markers, Newer
<1>7. Taken
  BY <1>2, IdsNat DEF Taken
<1>3. OneFollowed /\ VerdictTrue
  BY DEF QueueInit, OneFollowed, VerdictTrue, NoJob
<1>8. QED
  BY <1>1, <1>3, <1>5, <1>6, <1>7 DEF QInv

LEMMA StartKeeps == ASSUME QInv, NEW i \in Ids, Start(i) PROVE QInv'
<1>1. QueueTypeOK'
  BY QueueTypeStep DEF QueueNext, QInv
<1>2. /\ i = issued + 1 /\ issued' = i /\ issued \in 0 .. MaxJobs
      /\ dir' = [dir EXCEPT ![i] = {"cmd"}]
      /\ job' = [id |-> i, running |-> TRUE, ok |-> FALSE, why |-> ""]
      /\ follower' = [follower EXCEPT ![i] = "poll"]
      /\ helper' = helper /\ runs' = runs /\ outcome' = outcome
      /\ ~job.running
  BY DEF Start, CanStart, QInv, QueueTypeOK
<1>3. dir \in [Ids -> SUBSET Suffixes] /\ follower \in [Ids -> {"none", "poll", "tidy"}]
  BY DEF QInv, QueueTypeOK
<1>4. Queued' = Queued \union {i}
  BY <1>2, <1>3 DEF Queued
<1>a. i \in Nat /\ issued \in Nat /\ job.id \in Nat /\ helper.cur \in Nat /\ \A j \in Ids : j \in Nat
  BY Numbers DEF QInv
<1>c. i = issued + 1 /\ issued' = i /\ job'.id = i
  BY <1>2
<1>b. i > issued
  BY <1>a, <1>c
<1>5. dir[i] = {} /\ runs[i] = 0 /\ outcome[i] = "none"
  BY <1>b DEF QInv, Fresh
<1>6. /\ \A j \in Ids : j # i => dir'[j] = dir[j]
      /\ dir'[i] = {"cmd"}
  BY <1>2, <1>3
<1>7. \A j \in Queued : j <= issued
  <2>1. ASSUME NEW j \in Queued, ~(j <= issued) PROVE FALSE
    <3>1. j \in Ids /\ dir[j] # {}
      BY <2>1 DEF Queued
    <3>2. j > issued
      BY <1>a, <2>1, <3>1
    <3>3. QED
      BY <3>1, <3>2 DEF QInv, Fresh
  <2>2. QED
    BY <2>1
<1>8. RunsOnce' /\ Waits'
  <2>1. \A j \in Queued : j \in Ids /\ j # i
    BY <1>5 DEF Queued
  <2>2. \A j \in Queued' : "run" \notin dir'[j]
    BY <1>4, <1>6, <2>1 DEF QInv, Waits
  <2>3. QED
    BY <1>2, <1>4, <1>5, <2>2 DEF QInv, RunsOnce, Waits
<1>9. Fresh'
  <2>1. ASSUME NEW j \in Ids, j > issued' PROVE dir'[j] = {} /\ runs'[j] = 0 /\ outcome'[j] = "none"
    <3>1. j > issued /\ j # i
      BY <1>a, <1>c, <2>1
    <3>2. QED
      BY <1>2, <1>6, <3>1 DEF QInv, Fresh
  <2>2. job'.id = i /\ i <= issued'
    BY <1>a, <1>c
  <2>3. QED
    BY <2>1, <2>2 DEF Fresh
<1>10. Busy'
  <2>1. helper.cur # 0 => helper.cur \notin Queued /\ helper.cur <= issued
    BY DEF QInv, Busy
  <2>2. helper.cur # 0 => helper.cur # i /\ helper.cur <= issued'
    BY <1>a, <1>c, <2>1
  <2>3. helper.cur # 0 => helper.cur \notin Queued'
    BY <1>4, <2>1, <2>2
  <2>4. QED
    BY <1>2, <2>2, <2>3 DEF QInv, Busy
<1>11. Markers' /\ Taken'
  <2>1. Markers'
    BY <1>2, <1>6 DEF QInv, Markers
  <2>2. \A j \in Ids : j # i /\ j <= issued' => j <= issued
    BY <1>a, <1>c
  <2>3. QED
    BY <1>2, <1>4, <1>6, <2>1, <2>2 DEF QInv, Taken
<1>12. Newer'
  <2>1. \A j \in helper.todo : j < i
    <3>1. \A j \in helper.todo : j \in Queued /\ j \in Ids
      BY DEF QInv, Waits, Queued
    <3>2. \A j \in helper.todo : j <= issued /\ j \in Nat
      BY <1>a, <1>7, <3>1
    <3>3. QED
      BY <1>a, <1>b, <3>2
  <2>2. QED
    BY <1>2, <1>4, <2>1 DEF QInv, Newer
<1>13. OneFollowed' /\ VerdictTrue'
  BY <1>2, <1>3 DEF QInv, OneFollowed, VerdictTrue
<1>14. QED
  BY <1>1, <1>8, <1>9, <1>10, <1>11, <1>12, <1>13 DEF QInv

\* A step that leaves the files and the helper alone keeps what they keep.
LEMMA FilesKept ==
  ASSUME QInv, UNCHANGED <<issued, dir, helper, runs, outcome>>, job'.id <= issued
  PROVE  RunsOnce' /\ Fresh' /\ Waits' /\ Busy' /\ Markers' /\ Taken' /\ Newer'
BY DEF QInv, RunsOnce, Fresh, Waits, Busy, Markers, Taken, Newer, Queued

LEMMA FinishKeeps ==
  ASSUME QInv, NEW i \in Ids, NEW ok \in BOOLEAN, NEW why \in {"", "failed", "timed out"},
         Finish(i, ok, why), follower[i] = "poll",
         \/ ok /\ outcome[i] = "done"
         \/ ~ok /\ why = "failed" /\ outcome[i] = "fail"
         \/ ~ok /\ why = "timed out"
  PROVE  QInv'
<1>1. QueueTypeOK'
  BY FinishType DEF QInv
<1>2. job.running /\ job.id = i
  BY DEF QInv, OneFollowed
<1>3. job \in [id : 0 .. MaxJobs, running : BOOLEAN, ok : BOOLEAN,
               why : {"", "failed", "timed out"}]
  BY DEF QInv, QueueTypeOK
<1>4. job' = [job EXCEPT !.running = FALSE, !.ok = ok, !.why = why]
  BY <1>2 DEF Finish
<1>5. job'.id = i /\ job'.running = FALSE /\ job'.ok = ok /\ job'.why = why
  BY <1>2, <1>3, <1>4
<1>6. RunsOnce' /\ Fresh' /\ Waits' /\ Busy' /\ Markers' /\ Taken' /\ Newer'
  BY <1>2, <1>5, FilesKept DEF Finish, QInv, Fresh
<1>7. OneFollowed'
  BY <1>2, <1>5 DEF QInv, OneFollowed, Finish, QueueTypeOK
<1>8. VerdictTrue'
  BY <1>5 DEF VerdictTrue, Finish
<1>9. QED
  BY <1>1, <1>6, <1>7, <1>8 DEF QInv

LEMMA RemoveMarkersKeeps == ASSUME QInv, NEW i \in Ids, RemoveMarkers(i) PROVE QInv'
<1>1. QueueTypeOK'
  BY QueueTypeStep DEF QueueNext, Client, QInv
<1>2. dir \in [Ids -> SUBSET Suffixes] /\ follower \in [Ids -> {"none", "poll", "tidy"}]
  BY DEF QInv, QueueTypeOK
<1>3. \A j \in Ids : /\ dir'[j] \subseteq dir[j]
                     /\ "cmd" \in dir'[j] <=> "cmd" \in dir[j]
                     /\ "run" \in dir'[j] <=> "run" \in dir[j]
  BY <1>2 DEF RemoveMarkers
<1>4. Queued' = Queued
  BY <1>3 DEF Queued
<1>5. RunsOnce' /\ Fresh' /\ Waits' /\ Busy' /\ Markers' /\ Taken' /\ Newer'
  BY <1>2, <1>3, <1>4
     DEF QInv, RunsOnce, Fresh, Waits, Busy, Markers, Taken, Newer, RemoveMarkers
<1>6. OneFollowed' /\ VerdictTrue'
  BY <1>2 DEF QInv, OneFollowed, VerdictTrue, RemoveMarkers
<1>7. QED
  BY <1>1, <1>5, <1>6 DEF QInv

LEMMA WakeKeeps == ASSUME QInv, Wake PROVE QInv'
<1>1. QueueTypeOK'
  BY QueueTypeStep DEF QueueNext, Loop, QInv
<1>2. helper \in [pc : {"asleep", "loop", "exec", "mark", "tidy"}, todo : SUBSET Ids,
                  cur : 0 .. MaxJobs, ok : BOOLEAN]
  BY DEF QInv, QueueTypeOK
<1>3. helper'.pc = "loop" /\ helper'.todo = Queued /\ helper'.cur = helper.cur
  BY <1>2 DEF Wake
<1>4. Queued' = Queued
  BY DEF Wake, Queued
<1>5. RunsOnce' /\ Fresh' /\ Waits' /\ Busy' /\ Markers' /\ Taken' /\ Newer'
  BY <1>3, <1>4 DEF QInv, RunsOnce, Fresh, Waits, Busy, Markers, Taken, Newer, Wake
<1>6. OneFollowed' /\ VerdictTrue'
  BY DEF QInv, OneFollowed, VerdictTrue, Wake
<1>7. QED
  BY <1>1, <1>5, <1>6 DEF QInv

LEMMA TakeKeeps == ASSUME QInv, NEW i \in Ids, Take(i) PROVE QInv'
<1>1. QueueTypeOK'
  BY QueueTypeStep DEF QueueNext, Loop, QInv
<1>2. /\ helper \in [pc : {"asleep", "loop", "exec", "mark", "tidy"}, todo : SUBSET Ids,
                     cur : 0 .. MaxJobs, ok : BOOLEAN]
      /\ dir \in [Ids -> SUBSET Suffixes] /\ runs \in [Ids -> Nat]
      /\ issued \in 0 .. MaxJobs
  BY DEF QInv, QueueTypeOK
<1>3. /\ helper'.pc = "exec" /\ helper'.todo = helper.todo \ {i} /\ helper'.cur = i
      /\ helper.pc = "loop" /\ i \in helper.todo
  BY <1>2 DEF Take
<1>4. i \in Queued /\ runs[i] = 0 /\ outcome[i] = "none"
  BY <1>3 DEF QInv, Waits
<1>5. Queued' = Queued \ {i}
  BY <1>2 DEF Queued, Take
<1>6. \A j \in Ids : j # i => dir'[j] = dir[j] /\ runs'[j] = runs[j]
  BY <1>2 DEF Take
<1>7. dir'[i] = (dir[i] \ {"cmd"}) \union {"run"} /\ runs'[i] = 1
  BY <1>2, <1>4 DEF Take
<1>8. i <= issued
  BY <1>2, <1>4 DEF QInv, Fresh, Queued, Ids
<1>9. RunsOnce' /\ Fresh'
  BY <1>2, <1>6, <1>7, <1>8 DEF QInv, RunsOnce, Fresh, Take, Ids
<1>10. Waits'
  BY <1>3, <1>5, <1>6, <1>4 DEF QInv, Waits, Take, Queued
<1>11. Busy'
  BY <1>3, <1>4, <1>5, <1>8 DEF QInv, Busy, Take, Ids
<1>12. Markers' /\ Taken'
  BY <1>5, <1>6, <1>7 DEF QInv, Markers, Taken, Take
<1>13. Newer'
  BY <1>3, <1>5 DEF QInv, Newer
<1>14. OneFollowed' /\ VerdictTrue'
  BY DEF QInv, OneFollowed, VerdictTrue, Take
<1>15. QED
  BY <1>1, <1>9, <1>10, <1>11, <1>12, <1>13, <1>14 DEF QInv

LEMMA ReturnKeeps == ASSUME QInv, NEW ok \in BOOLEAN, Return(ok) PROVE QInv'
<1>1. QueueTypeOK'
  BY QueueTypeStep DEF QueueNext, QInv
<1>2. helper \in [pc : {"asleep", "loop", "exec", "mark", "tidy"}, todo : SUBSET Ids,
                  cur : 0 .. MaxJobs, ok : BOOLEAN]
  BY DEF QInv, QueueTypeOK
<1>3. /\ helper'.pc = "mark" /\ helper'.todo = helper.todo /\ helper'.cur = helper.cur
      /\ helper.pc = "exec"
  BY <1>2 DEF Return
<1>4. Queued' = Queued
  BY DEF Return, Queued
<1>5. RunsOnce' /\ Fresh' /\ Waits' /\ Busy' /\ Markers' /\ Taken' /\ Newer'
  BY <1>3, <1>4 DEF QInv, RunsOnce, Fresh, Waits, Busy, Markers, Taken, Newer, Return
<1>6. OneFollowed' /\ VerdictTrue'
  BY DEF QInv, OneFollowed, VerdictTrue, Return
<1>7. QED
  BY <1>1, <1>5, <1>6 DEF QInv

LEMMA MarkKeeps == ASSUME QInv, Mark PROVE QInv'
<1>1. QueueTypeOK'
  BY QueueTypeStep DEF QueueNext, Loop, QInv
<1>2. /\ helper \in [pc : {"asleep", "loop", "exec", "mark", "tidy"}, todo : SUBSET Ids,
                     cur : 0 .. MaxJobs, ok : BOOLEAN]
      /\ dir \in [Ids -> SUBSET Suffixes] /\ outcome \in [Ids -> {"none", "done", "fail"}]
  BY DEF QInv, QueueTypeOK
<1>3. PICK how \in {"done", "fail"} :
        /\ dir' = [dir EXCEPT ![helper.cur] = @ \union {how}]
        /\ outcome' = [outcome EXCEPT ![helper.cur] = how]
  BY DEF Mark
<1>4. /\ helper'.pc = "tidy" /\ helper'.todo = helper.todo /\ helper'.cur = helper.cur
      /\ helper.pc = "mark"
  BY <1>2 DEF Mark
<1>5. helper.cur \in Ids /\ outcome[helper.cur] = "none" /\ helper.cur \notin Queued
  BY <1>2, <1>4, QueueAssumption DEF QInv, Busy, Ids
<1>6. /\ \A j \in Ids : j # helper.cur => dir'[j] = dir[j] /\ outcome'[j] = outcome[j]
      /\ dir'[helper.cur] = dir[helper.cur] \union {how} /\ outcome'[helper.cur] = how
  BY <1>2, <1>3, <1>5
<1>7. Queued' = Queued
  BY <1>5, <1>6 DEF Queued
<1>8. RunsOnce' /\ Fresh'
  <2>1. helper.cur <= issued /\ issued \in Nat /\ helper.cur \in Nat
    <3>1. helper.cur # 0
      BY <1>5, IdsNat
    <3>2. QED
      BY <3>1, Numbers DEF QInv, Busy
  <2>2. \A j \in Ids : j > issued => j # helper.cur
    BY <2>1, Numbers DEF QInv
  <2>3. QED
    BY <1>6, <2>2 DEF QInv, RunsOnce, Fresh, Mark
<1>9. Waits' /\ Newer'
  BY <1>4, <1>5, <1>6, <1>7 DEF QInv, Waits, Newer, Mark, Queued
<1>10. Busy'
  BY <1>4, <1>5, <1>6, <1>7 DEF QInv, Busy, Mark
<1>11. Markers'
  BY <1>5, <1>6 DEF QInv, Markers
<1>12. Taken'
  BY <1>5, <1>6, <1>7 DEF QInv, Taken, Mark
<1>13. OneFollowed'
  BY DEF QInv, OneFollowed, Mark
<1>14. VerdictTrue'
  <2>1. job.id # 0 => job.id \in Ids
    BY Numbers DEF QInv
  <2>2. QED
    BY <1>5, <1>6, <2>1 DEF QInv, VerdictTrue, Mark
<1>15. QED
  BY <1>1, <1>8, <1>9, <1>10, <1>11, <1>12, <1>13, <1>14 DEF QInv

LEMMA RemoveRunKeeps == ASSUME QInv, RemoveRun PROVE QInv'
<1>1. QueueTypeOK'
  BY QueueTypeStep DEF QueueNext, Loop, QInv
<1>2. /\ helper \in [pc : {"asleep", "loop", "exec", "mark", "tidy"}, todo : SUBSET Ids,
                     cur : 0 .. MaxJobs, ok : BOOLEAN]
      /\ dir \in [Ids -> SUBSET Suffixes]
  BY DEF QInv, QueueTypeOK
<1>3. /\ helper'.pc = "loop" /\ helper'.todo = helper.todo /\ helper'.cur = 0
      /\ helper.pc = "tidy"
  BY <1>2 DEF RemoveRun
<1>4. \A j \in Ids : /\ dir'[j] \subseteq dir[j]
                     /\ "cmd" \in dir'[j] <=> "cmd" \in dir[j]
                     /\ j # helper.cur => dir'[j] = dir[j]
  BY <1>2 DEF RemoveRun
<1>5. Queued' = Queued
  BY <1>4 DEF Queued
<1>6. outcome[helper.cur] # "none"
  BY <1>3 DEF QInv, Busy
<1>7. RunsOnce' /\ Fresh' /\ Waits' /\ Busy' /\ Markers' /\ Newer'
  BY <1>3, <1>4, <1>5
     DEF QInv, RunsOnce, Fresh, Waits, Busy, Markers, Newer, RemoveRun
<1>8. Taken'
  BY <1>4, <1>5, <1>6 DEF QInv, Taken, RemoveRun
<1>9. OneFollowed' /\ VerdictTrue'
  BY DEF QInv, OneFollowed, VerdictTrue, RemoveRun
<1>10. QED
  BY <1>1, <1>7, <1>8, <1>9 DEF QInv

\* The helper rests or loses power.
LEMMA AsleepKeeps ==
  ASSUME QInv, UNCHANGED <<issued, dir, runs, outcome>>, helper' = Asleep,
         QueueTypeOK', job'.id <= issued
  PROVE  RunsOnce' /\ Fresh' /\ Waits' /\ Busy' /\ Markers' /\ Taken' /\ Newer'
<1>1. Queued' = Queued
  BY DEF Queued
<1>2. QED
  BY <1>1 DEF QInv, RunsOnce, Fresh, Waits, Busy, Markers, Taken, Newer, Asleep

LEMMA ForgetKeeps == ASSUME ForgetJobs PROVE OneFollowed' /\ VerdictTrue'
BY DEF ForgetJobs, OneFollowed, VerdictTrue, NoJob

LEMMA QInvStep == QInv /\ [QueueNext]_queueVars => QInv'
<1> SUFFICES ASSUME QInv, [QueueNext]_queueVars PROVE QInv'
  OBVIOUS
<1>0. QueueTypeOK' /\ job.id <= issued /\ issued \in Nat
  BY QueueTypeStep, Numbers DEF QInv, Fresh
<1>1. ASSUME NEW i \in Ids, Follow(i) PROVE QInv'
  BY <1>1, FinishKeeps DEF Follow, QInv, Markers
<1>2. ASSUME NEW i \in Ids, GiveUp(i) PROVE QInv'
  BY <1>2, FinishKeeps DEF GiveUp
<1>3. CASE Rest
  BY <1>0, <1>3, AsleepKeeps DEF Rest, QInv, OneFollowed, VerdictTrue
<1>4. CASE Restart
  <2>0. job'.id = 0
    BY <1>4 DEF Restart, ForgetJobs, NoJob
  <2>1. job'.id <= issued
    BY <1>0, <2>0
  <2>2. QED
    BY <1>0, <1>4, <2>1, FilesKept, ForgetKeeps DEF Restart, QInv
<1>5. CASE PowerCut
  <2>0. job'.id = 0
    BY <1>5 DEF PowerCut, ForgetJobs, NoJob
  <2>1. job'.id <= issued
    BY <1>0, <2>0
  <2>2. QED
    BY <1>0, <1>5, <2>1, AsleepKeeps, ForgetKeeps DEF PowerCut, QInv
<1>6. CASE UNCHANGED queueVars
  BY <1>0, <1>6, FilesKept DEF queueVars, QInv, OneFollowed, VerdictTrue
<1>7. QED
  BY <1>1, <1>2, <1>3, <1>4, <1>5, <1>6, StartKeeps, RemoveMarkersKeeps, WakeKeeps,
     TakeKeeps, ReturnKeeps, MarkKeeps, RemoveRunKeeps
     DEF QueueNext, Client, Loop

\* No command is carried out twice, however many jobs there are and wherever
\* nodeosd or the machine stops (install.sh:617, the rename before the run).
THEOREM RunsOnceHolds == QueueSpec => []RunsOnce
<1>1. QInv => RunsOnce
  BY DEF QInv
<1>2. QED
  BY <1>1, QInvInit, QInvStep, PTL DEF QueueSpec

\* The verdict shown for a job is the helper's on that job, or a timeout
\* (admin.go:86-125), whatever markers earlier jobs left behind.
THEOREM VerdictsTrue == QueueSpec => []VerdictTrue
<1>1. QInv => VerdictTrue
  BY DEF QInv
<1>2. QED
  BY <1>1, QInvInit, QInvStep, PTL DEF QueueSpec

\* A job is carried out at most once, and reported as it went.
THEOREM HonestJobs == QueueSpec => []JobsHonest
<1>1. RunsOnce /\ VerdictTrue => JobsHonest
  BY DEF JobsHonest
<1> QED
  BY <1>1, RunsOnceHolds, VerdictsTrue, PTL

\* Only the job shown as running is followed.
THEOREM OneJobFollowed == QueueSpec => []OneFollowed
<1>1. QInv => OneFollowed
  BY DEF QInv
<1>2. QED
  BY <1>1, QInvInit, QInvStep, PTL DEF QueueSpec

-----------------------------------------------------------------------------
(* AdminQueue implements AdminJobs *)

\* What AdminJobs sees, by the kind of job.
StateFacts ==
    \A i \in Ids :
        /\ outcome[i] # "none" => State(i) = outcome[i]
        /\ i > issued => State(i) = "new"
        /\ i \in Queued => State(i) = "queued"
        /\ outcome[i] = "none" /\ ~(i > issued) /\ i \notin Queued =>
               State(i) = IF helper.cur = i THEN "started" ELSE "lost"

LEMMA StatesSeen == QInv => StateFacts
<1> SUFFICES ASSUME QInv, NEW i \in Ids
             PROVE  /\ outcome[i] # "none" => State(i) = outcome[i]
                    /\ i > issued => State(i) = "new"
                    /\ i \in Queued => State(i) = "queued"
                    /\ outcome[i] = "none" /\ ~(i > issued) /\ i \notin Queued =>
                           State(i) = IF helper.cur = i THEN "started" ELSE "lost"
  BY DEF StateFacts
<1>1. i > issued => outcome[i] = "none" /\ dir[i] = {}
  BY DEF QInv, Fresh
<1>2. i \in Queued =>
        outcome[i] = "none" /\ "cmd" \in dir[i] /\ "run" \notin dir[i] /\ ~(i > issued)
  BY <1>1 DEF QInv, Waits, Queued
<1>3. i \notin Queued => "cmd" \notin dir[i]
  BY DEF Queued
<1>4. outcome[i] = "none" /\ ~(i > issued) /\ i \notin Queued => "run" \in dir[i]
  <2>1. ~(i > issued) => i <= issued
    BY Numbers DEF QInv
  <2>2. QED
    BY <2>1 DEF QInv, Taken
<1>5. CASE outcome[i] # "none"
  BY <1>1, <1>2, <1>5 DEF State
<1>6. CASE i > issued
  BY <1>1, <1>2, <1>6 DEF State
<1>7. CASE i \in Queued
  <2>1. State(i) = "queued"
    BY <1>2, <1>7 DEF State
  <2>2. QED
    BY <1>2, <1>7, <2>1
<1>8. CASE outcome[i] = "none" /\ ~(i > issued) /\ i \notin Queued
  BY <1>3, <1>4, <1>8 DEF State
<1>9. QED
  BY <1>5, <1>6, <1>7, <1>8

LEMMA StatesSeenNext == QInv' => StateFacts'
BY StatesSeen, PTL

\* Jobs whose files, outcome and place in the helper did not change look the same.
LEMMA SameState ==
  ASSUME QInv, QInv', issued' = issued, NEW i \in Ids, outcome'[i] = outcome[i],
         i \in Queued' <=> i \in Queued, helper'.cur = i <=> helper.cur = i
  PROVE  State(i)' = State(i)
<1> USE StatesSeen, StatesSeenNext
<1>1. CASE outcome[i] # "none"
  BY <1>1 DEF StateFacts
<1>2. CASE i > issued
  BY <1>2 DEF StateFacts
<1>3. CASE i \in Queued
  BY <1>3 DEF StateFacts
<1>4. CASE outcome[i] = "none" /\ ~(i > issued) /\ i \notin Queued
  BY <1>4 DEF StateFacts
<1>5. QED
  BY <1>1, <1>2, <1>3, <1>4

LEMMA Stutters ==
  ASSUME \A i \in Ids : State(i)' = State(i), job' = job
  PROVE  UNCHANGED Jobs!jobsVars
BY DEF Jobs!jobsVars, Says

LEMMA StartIsSubmit ==
  ASSUME QInv, QInv', NEW i \in Ids, Start(i)
  PROVE  Jobs!Submit(i)
<1>1. /\ i = issued + 1 /\ issued' = i /\ ~job.running
      /\ outcome' = outcome /\ helper' = helper
      /\ job' = [id |-> i, running |-> TRUE, ok |-> FALSE, why |-> ""]
  BY DEF Start, CanStart
<1>n. i = issued + 1 /\ issued' = i
  BY <1>1
<1>2. issued \in Nat /\ \A j \in Ids : j \in Nat
  BY Numbers DEF QInv
<1>3. Queued' = Queued \union {i}
  <2>1. dir \in [Ids -> SUBSET Suffixes] /\ dir' = [dir EXCEPT ![i] = {"cmd"}]
    BY DEF Start, QInv, QueueTypeOK
  <2>2. QED
    BY <2>1 DEF Queued
<1>4. Says # "running"
  BY <1>1 DEF Says
<1>5. i > issued /\ \A j \in 1 .. i - 1 : j \in Ids /\ ~(j > issued)
  <2>1. i \in 1 .. MaxJobs /\ MaxJobs \in Nat
    BY QueueAssumption DEF Ids
  <2>2. i > issued
    BY <1>n, <1>2
  <2>3. \A j \in 1 .. i - 1 : j \in 1 .. MaxJobs /\ ~(j > issued)
    BY <1>n, <1>2, <2>1
  <2>4. QED
    BY <2>2, <2>3 DEF Ids
<1>6. State(i) = "new"
  BY <1>5, StatesSeen DEF StateFacts
<1>7. \A j \in Ids : ~(j > issued) => State(j) # "new"
  <2>1. ASSUME NEW j \in Ids, ~(j > issued) PROVE State(j) # "new"
    <3>1. outcome[j] \in {"none", "done", "fail"}
      BY DEF QInv, QueueTypeOK
    <3>2. QED
      BY <2>1, <3>1, StatesSeen DEF StateFacts
  <2>2. QED
    BY <2>1
<1>8. State(i)' = "queued"
  BY <1>3, StatesSeenNext DEF StateFacts
<1>9. \A j \in Ids : j # i => State(j)' = State(j)
  <2>1. ASSUME NEW j \in Ids, j # i PROVE State(j)' = State(j)
    <3>1. j > issued' <=> j > issued
      BY <1>n, <1>2, <2>1
    <3>2. j \in Queued' <=> j \in Queued
      BY <1>3, <2>1
    <3>3. outcome'[j] = outcome[j] /\ helper'.cur = helper.cur
      BY <1>1
    <3>4. CASE outcome[j] # "none"
      BY <3>3, <3>4, StatesSeen, StatesSeenNext DEF StateFacts
    <3>5. CASE j > issued
      BY <3>1, <3>5, StatesSeen, StatesSeenNext DEF StateFacts
    <3>6. CASE j \in Queued
      BY <3>2, <3>6, StatesSeen, StatesSeenNext DEF StateFacts
    <3>7. CASE outcome[j] = "none" /\ ~(j > issued) /\ j \notin Queued
      BY <3>1, <3>2, <3>3, <3>7, StatesSeen, StatesSeenNext DEF StateFacts
    <3>8. QED
      BY <3>4, <3>5, <3>6, <3>7
  <2>2. QED
    BY <2>1
<1>10. [j \in Ids |-> State(j)]' = [[j \in Ids |-> State(j)] EXCEPT ![i] = "queued"]
  BY <1>8, <1>9
<1>11. Says' = "running" /\ job'.id = i
  <2>1. job'.id = i /\ job'.running
    BY <1>1
  <2>2. i # 0
    BY IdsNat
  <2>3. QED
    BY <2>1, <2>2 DEF Says
<1>12. QED
  BY <1>4, <1>5, <1>6, <1>7, <1>10, <1>11 DEF Jobs!Submit, Jobs!Ids, Ids

LEMMA TakeIsBegin ==
  ASSUME QInv, QInv', NEW i \in Ids, Take(i)
  PROVE  Jobs!Begin(i)
<1>1. /\ helper.pc = "loop" /\ i \in helper.todo
      /\ \A j \in helper.todo : i <= j
      /\ issued' = issued /\ outcome' = outcome /\ job' = job
  BY DEF Take
<1>2. helper.cur = 0 /\ helper'.cur = i
  BY DEF QInv, Busy, Take, QueueTypeOK
<1>3. i \in Queued
  BY <1>1 DEF QInv, Waits
<1>4. Queued' = Queued \ {i}
  BY DEF Take, Queued, QInv, QueueTypeOK
<1>5. State(i) = "queued"
  BY <1>3, StatesSeen DEF StateFacts
<1>6. outcome[i] = "none" /\ ~(i > issued)
  <2>1. dir[i] # {}
    BY <1>3 DEF Queued
  <2>2. QED
    BY <1>3, <2>1 DEF QInv, Waits, Fresh
<1>7. State(i)' = "started"
  BY <1>1, <1>2, <1>4, <1>6, StatesSeenNext DEF StateFacts
<1>8. \A j \in Ids : j # i => State(j)' = State(j)
  <2>1. ASSUME NEW j \in Ids, j # i PROVE State(j)' = State(j)
    <3>1. j # 0
      BY IdsNat
    <3>2. QED
      BY <1>1, <1>2, <1>4, <2>1, <3>1, SameState
  <2>2. QED
    BY <2>1
<1>9. \A j \in Ids : State(j) # "started"
  <2>1. ASSUME NEW j \in Ids PROVE State(j) # "started"
    <3>1. j # helper.cur
      BY <1>2, IdsNat
    <3>2. outcome[j] \in {"none", "done", "fail"}
      BY DEF QInv, QueueTypeOK
    <3>3. QED
      BY <3>1, <3>2, StatesSeen DEF StateFacts
  <2>2. QED
    BY <2>1
<1>10. \A j \in 1 .. i - 1 : j \in Ids /\ State(j) # "queued"
  <2>1. ASSUME NEW j \in 1 .. i - 1 PROVE j \in Ids /\ State(j) # "queued"
    <3>1. j \in Ids /\ j \in Nat /\ i \in Nat /\ j < i
      BY QueueAssumption DEF Ids
    <3>2. j \notin helper.todo
      BY <1>1, <3>1
    <3>3. j \notin Queued
      <4>1. ASSUME j \in Queued PROVE FALSE
        <5>1. i < j
          BY <1>1, <3>2, <4>1 DEF QInv, Newer
        <5>2. QED
          BY <3>1, <5>1
      <4>2. QED
        BY <4>1
    <3>4. outcome[j] \in {"none", "done", "fail"}
      BY <3>1 DEF QInv, QueueTypeOK
    <3>5. QED
      BY <3>1, <3>3, <3>4, StatesSeen DEF StateFacts
  <2>2. QED
    BY <2>1
<1>11. [j \in Ids |-> State(j)]' = [[j \in Ids |-> State(j)] EXCEPT ![i] = "started"]
  BY <1>7, <1>8
<1>12. Says' = Says
  BY <1>1 DEF Says
<1>13. QED
  BY <1>1, <1>5, <1>9, <1>10, <1>11, <1>12 DEF Jobs!Begin, Jobs!Ids, Ids

LEMMA MarkIsEnd ==
  ASSUME QInv, QInv', Mark
  PROVE  \E i \in Ids, how \in {"done", "fail"} : Jobs!End(i, how)
<1>1. helper.pc = "mark" /\ issued' = issued /\ job' = job
  BY DEF Mark
<1>2. PICK how \in {"done", "fail"} :
        /\ dir' = [dir EXCEPT ![helper.cur] = @ \union {how}]
        /\ outcome' = [outcome EXCEPT ![helper.cur] = how]
  BY DEF Mark
<1>3. /\ helper.cur # 0 /\ outcome[helper.cur] = "none"
      /\ helper.cur \notin Queued /\ helper.cur <= issued
  BY <1>1 DEF QInv, Busy
<1>4. PICK i \in Ids : i = helper.cur /\ ~(i > issued)
  BY <1>3, Numbers DEF QInv
<1>5. helper'.cur = i
  BY <1>4 DEF Mark, QInv, QueueTypeOK
<1>6. Queued' = Queued
  BY <1>2, <1>4 DEF Queued, QInv, QueueTypeOK
<1>7. outcome'[i] = how /\ \A j \in Ids : j # i => outcome'[j] = outcome[j]
  BY <1>2, <1>4 DEF QInv, QueueTypeOK
<1>8. State(i) = "started"
  BY <1>3, <1>4, StatesSeen DEF StateFacts
<1>9. State(i)' = how
  <2>2. \A j \in Ids : outcome'[j] # "none" => State(j)' = outcome'[j]
    BY StatesSeenNext DEF StateFacts
  <2>3. QED
    BY <1>4, <1>7, <2>2
<1>10. \A j \in Ids : j # i => State(j)' = State(j)
  BY <1>1, <1>4, <1>5, <1>6, <1>7, SameState
<1>11. [j \in Ids |-> State(j)]' = [[j \in Ids |-> State(j)] EXCEPT ![i] = how]
  BY <1>9, <1>10
<1>12. Says' = Says
  BY <1>1 DEF Says
<1>13. Jobs!End(i, how)
  BY <1>1, <1>4, <1>8, <1>11, <1>12 DEF Jobs!End
<1>14. QED
  BY <1>4, <1>13

LEMMA FinishIsReport ==
  ASSUME QInv, QInv', NEW i \in Ids, NEW ok \in BOOLEAN, NEW why \in {"", "failed", "timed out"},
         Finish(i, ok, why), follower[i] = "poll",
         \/ ok /\ outcome[i] = "done"
         \/ ~ok /\ why = "failed" /\ outcome[i] = "fail"
         \/ ~ok /\ why = "timed out"
  PROVE  Jobs!Report
<1>1. job.running /\ job.id = i /\ i # 0
  BY IdsNat DEF QInv, OneFollowed
<1>2. job'.id = i /\ job'.running = FALSE /\ job'.ok = ok /\ job'.why = why
  <2>1. job \in JobType
    BY DEF QInv, QueueTypeOK, JobType
  <2>2. job' = [job EXCEPT !.running = FALSE, !.ok = ok, !.why = why]
    BY <1>1 DEF Finish
  <2>3. QED
    BY <1>1, <2>1, <2>2 DEF JobType
<1>3. issued' = issued /\ outcome' = outcome /\ helper' = helper /\ dir' = dir
  BY DEF Finish
<1>4. \A j \in Ids : State(j)' = State(j)
  BY <1>3, SameState DEF Queued
<1>5. Says = "running"
  BY <1>1 DEF Says
<1>6. \/ Says' = "done" /\ State(i) = "done"
      \/ Says' = "fail" /\ State(i) = "fail"
      \/ Says' = "timeout"
  <2>1. CASE ok /\ outcome[i] = "done"
    BY <1>1, <1>2, <2>1, StatesSeen DEF Says, StateFacts
  <2>2. CASE ~ok /\ why = "failed" /\ outcome[i] = "fail"
    BY <1>1, <1>2, <2>2, StatesSeen DEF Says, StateFacts
  <2>3. CASE ~ok /\ why = "timed out"
    BY <1>1, <1>2, <2>3 DEF Says
  <2>4. QED
    BY <2>1, <2>2, <2>3
<1>7. [j \in Ids |-> State(j)]' = [j \in Ids |-> State(j)]
  BY <1>4
<1>8. [id |-> job.id, says |-> Says]' = [id |-> job.id, says |-> Says']
  BY <1>1, <1>2
<1>9. PICK says \in {State(i), "timeout"} \intersect {"done", "fail", "timeout"} : says = Says'
  BY <1>6
<1>10. QED
  BY <1>1, <1>5, <1>7, <1>8, <1>9 DEF Jobs!Report

LEMMA ForgetIsForget ==
  ASSUME QInv, QInv', ForgetJobs, UNCHANGED <<issued, dir, outcome, helper>>
  PROVE  Jobs!Forget
<1>1. \A j \in Ids : State(j)' = State(j)
  BY SameState DEF Queued
<1>2. job'.id = 0 /\ Says' = "none"
  BY DEF ForgetJobs, NoJob, Says
<1>3. QED
  BY <1>1, <1>2 DEF Jobs!Forget, Jobs!Nothing

LEMMA PowerCutIsPowerCut ==
  ASSUME QInv, QInv', PowerCut
  PROVE  Jobs!PowerCut
<1>1. /\ issued' = issued /\ outcome' = outcome /\ Queued' = Queued
      /\ helper'.cur = 0 /\ job'.id = 0 /\ Says' = "none"
  BY DEF PowerCut, ForgetJobs, NoJob, Says, Asleep, Queued
<1>2. ASSUME NEW j \in Ids
      PROVE  State(j)' = IF State(j) = "started" THEN "lost" ELSE State(j)
  <2>1. j # 0 /\ outcome[j] \in {"none", "done", "fail"}
    BY IdsNat DEF QInv, QueueTypeOK
  <2>2. CASE outcome[j] # "none"
    BY <1>1, <2>1, <2>2, StatesSeen, StatesSeenNext DEF StateFacts
  <2>3. CASE j > issued
    BY <1>1, <2>3, StatesSeen, StatesSeenNext DEF StateFacts
  <2>4. CASE j \in Queued
    BY <1>1, <2>4, StatesSeen, StatesSeenNext DEF StateFacts
  <2>5. CASE outcome[j] = "none" /\ ~(j > issued) /\ j \notin Queued
    <3>1. State(j)' = "lost"
      BY <1>1, <2>1, <2>5, StatesSeenNext DEF StateFacts
    <3>2. State(j) \in {"started", "lost"}
      BY <2>5, StatesSeen DEF StateFacts
    <3>3. QED
      BY <3>1, <3>2
  <2>6. QED
    BY <2>2, <2>3, <2>4, <2>5
<1>3. [j \in Ids |-> State(j)]' =
        [j \in Ids |-> IF [k \in Ids |-> State(k)][j] = "started" THEN "lost"
                       ELSE [k \in Ids |-> State(k)][j]]
  BY <1>2
<1>4. QED
  BY <1>1, <1>3 DEF Jobs!PowerCut, Jobs!Nothing, Jobs!Ids, Ids

LEMMA QueueStepIsJobsStep ==
  ASSUME QInv, QInv', [QueueNext]_queueVars
  PROVE  [Jobs!Next]_Jobs!jobsVars
<1>0. Jobs!Ids = Ids
  BY DEF Jobs!Ids, Ids
<1>1. ASSUME NEW i \in Ids, Start(i) PROVE Jobs!Next
  BY <1>0, <1>1, StartIsSubmit DEF Jobs!Next
<1>2. ASSUME NEW i \in Ids, Follow(i) PROVE Jobs!Next
  BY <1>2, FinishIsReport DEF Follow, QInv, Markers, Jobs!Next
<1>3. ASSUME NEW i \in Ids, GiveUp(i) PROVE Jobs!Next
  BY <1>3, FinishIsReport DEF GiveUp, Jobs!Next
<1>4. ASSUME NEW i \in Ids, RemoveMarkers(i) PROVE UNCHANGED Jobs!jobsVars
  <2>1. Queued' = Queued
    BY <1>4 DEF RemoveMarkers, Queued, QInv, QueueTypeOK
  <2>2. QED
    BY <1>4, <2>1, SameState, Stutters DEF RemoveMarkers
<1>5. CASE Wake
  <2>1. helper'.cur = helper.cur /\ Queued' = Queued
    BY <1>5 DEF Wake, Queued, QInv, QueueTypeOK
  <2>2. QED
    BY <1>5, <2>1, SameState, Stutters DEF Wake
<1>6. ASSUME NEW i \in Ids, Take(i) PROVE Jobs!Next
  BY <1>0, <1>6, TakeIsBegin DEF Jobs!Next
<1>7. CASE Mark
  BY <1>0, <1>7, MarkIsEnd DEF Jobs!Next
<1>8. CASE RemoveRun
  <2>1. /\ helper.pc = "tidy" /\ helper'.cur = 0 /\ issued' = issued
        /\ outcome' = outcome /\ job' = job
    BY <1>8 DEF RemoveRun, QInv, QueueTypeOK
  <2>2. Queued' = Queued
    BY <1>8 DEF RemoveRun, Queued, QInv, QueueTypeOK
  <2>3. \A i \in Ids : State(i)' = State(i)
    <3>1. ASSUME NEW i \in Ids, i = helper.cur PROVE State(i)' = State(i)
      <4>1. outcome[i] # "none" /\ outcome'[i] # "none"
        BY <2>1, <3>1 DEF QInv, Busy
      <4>2. QED
        BY <2>1, <4>1, StatesSeen, StatesSeenNext DEF StateFacts
    <3>2. ASSUME NEW i \in Ids, i # helper.cur PROVE State(i)' = State(i)
      BY <2>1, <2>2, <3>2, IdsNat, SameState
    <3>3. QED
      BY <3>1, <3>2
  <2>4. QED
    BY <2>1, <2>3, Stutters
<1>9. CASE Rest
  <2>1. /\ helper.cur = 0 /\ helper'.cur = 0 /\ issued' = issued
        /\ outcome' = outcome /\ job' = job /\ Queued' = Queued
    BY <1>9 DEF Rest, QInv, Busy, Asleep, Queued
  <2>2. QED
    BY <2>1, SameState, Stutters
<1>10. ASSUME NEW ok \in BOOLEAN, Return(ok) PROVE UNCHANGED Jobs!jobsVars
  <2>1. helper'.cur = helper.cur /\ Queued' = Queued
    BY <1>10 DEF Return, Queued, QInv, QueueTypeOK
  <2>2. QED
    BY <1>10, <2>1, SameState, Stutters DEF Return
<1>11. CASE Restart
  BY <1>11, ForgetIsForget DEF Restart, Jobs!Next
<1>12. CASE PowerCut
  BY <1>12, PowerCutIsPowerCut DEF Jobs!Next
<1>13. CASE UNCHANGED queueVars
  BY <1>13, SameState, Stutters DEF queueVars, Queued
<1>14. QED
  BY <1>1, <1>2, <1>3, <1>4, <1>5, <1>6, <1>7, <1>8, <1>9, <1>10, <1>11, <1>12, <1>13
     DEF QueueNext, Client, Loop

LEMMA QueueInitIsJobsInit == QueueInit => Jobs!Init
<1> SUFFICES ASSUME QueueInit PROVE Jobs!Init
  OBVIOUS
<1>1. job.id = 0 /\ Says = "none"
  BY DEF QueueInit, NoJob, Says
<1>2. \A i \in Ids : State(i) = "new"
  <2>1. ASSUME NEW i \in Ids PROVE State(i) = "new"
    <3>1. i > issued
      BY IdsNat DEF QueueInit
    <3>2. QED
      BY <3>1, QInvInit, StatesSeen DEF StateFacts
  <2>2. QED
    BY <2>1
<1>3. QED
  BY <1>1, <1>2 DEF Jobs!Init, Jobs!Nothing, Jobs!Ids, Ids

\* Two programs that share a directory and no lock keep what AdminJobs promises:
\* the jobs of any number are carried out one at a time, in order, at most
\* once, and the verdict shown is the helper's (admin.go:1-12, install.sh:611-633).
THEOREM QueueImplementsJobs == QueueSpec => JobsSpec
<1>1. QInv /\ QInv' /\ [QueueNext]_queueVars => [Jobs!Next]_Jobs!jobsVars
  BY QueueStepIsJobsStep
<1>2. QED
  BY <1>1, QInvInit, QInvStep, QueueInitIsJobsInit, PTL DEF QueueSpec, JobsSpec, Jobs!Spec

-----------------------------------------------------------------------------
(* Every step of the appliance is a step of the queue, or none *)

LEMMA RequestsQueue == ASSUME Requests PROVE [QueueNext]_queueVars
<1>1. ASSUME NEW i \in Ids, NEW r \in Submissions, PutConfig(i, r) PROVE QueueNext
  BY <1>1 DEF PutConfig, Queue, QueueNext
<1>2. ASSUME NEW i \in Ids, NEW s \in Services, NEW act \in {"start", "stop", "restart", "remove"},
             PostService(i, s, act)
      PROVE  QueueNext
  BY <1>2 DEF PostService, Queue, QueueNext
<1>3. ASSUME NEW i \in Ids, PostOther(i) PROVE QueueNext
  BY <1>3 DEF PostOther, Queue, QueueNext
<1>4. ASSUME NEW s \in Services, NEW change \in BOOLEAN, BeginStage(s, change)
      PROVE  UNCHANGED queueVars
  BY <1>4 DEF BeginStage, WebOnly
<1>5. ASSUME NEW v \in Versions, ApplyBegin(v) PROVE UNCHANGED queueVars
  BY <1>5 DEF ApplyBegin, WebOnly
<1>6. QED
  BY <1>1, <1>2, <1>3, <1>4, <1>5 DEF Requests

LEMMA StagingQueue == ASSUME Staging PROVE [QueueNext]_queueVars
<1>1. CASE StageClear
  BY <1>1 DEF StageClear, WebOnly
<1>2. CASE StageMkdir
  BY <1>2 DEF StageMkdir, WebOnly
<1>3. ASSUME NEW u \in AllUnits, StageFile(u) PROVE UNCHANGED queueVars
  BY <1>3 DEF StageFile, WebOnly
<1>4. CASE StageQueue
  BY <1>4 DEF StageQueue, Queue, QueueNext
<1>5. CASE ApplyWrite
  BY <1>5 DEF ApplyWrite, WebOnly
<1>6. CASE ApplyQueue
  BY <1>6 DEF ApplyQueue, Queue, QueueNext
<1>7. QED
  BY <1>1, <1>2, <1>3, <1>4, <1>5, <1>6 DEF Staging

LEMMA NodeConfigQueue == ASSUME NodeConfig PROVE [QueueNext]_queueVars
<1>1. ASSUME NEW k \in Keys, ConfigReject(k) PROVE QueueNext
  BY <1>1 DEF ConfigReject, QueueNext
<1>2. CASE ConfigKeep \/ ConfigReboot
  BY <1>2 DEF ConfigKeep, ConfigReboot, QueueNext
<1>3. CASE \/ ConfigBegin \/ (\E k \in Keys : ConfigEdit(k)) \/ ConfigRestart \/ ConfigRestore
  BY <1>3 DEF ConfigBegin, ConfigEdit, ConfigRestart, ConfigRestore
<1>4. QED
  BY <1>1, <1>2, <1>3 DEF NodeConfig

LEMMA NodeQueue == ASSUME NodeExits \/ NodeRestarts PROVE UNCHANGED queueVars
BY DEF NodeExits, NodeRestarts

LEMMA ServiceQueue == ASSUME Service PROVE [QueueNext]_queueVars
<1>1. CASE ServiceCheck \/ ServiceFind \/ ServiceEnd
  BY <1>1 DEF ServiceCheck, ServiceFind, ServiceEnd, Fails, QueueNext
<1>2. ASSUME NEW u \in AllUnits, ServiceCopy(u) PROVE [QueueNext]_queueVars
  BY <1>2 DEF ServiceCopy, Fails, QueueNext
<1>3. CASE ServiceGlob \/ ServiceCopied \/ ServiceWrite \/ ServiceInstalled
  BY <1>3 DEF ServiceGlob, ServiceCopied, ServiceWrite, ServiceInstalled
<1>4. ASSUME NEW u \in AllUnits,
             ServiceTruncate(u) \/ ServiceStart(u) \/ ServiceCtl(u) \/ ServiceRemove(u)
      PROVE  [QueueNext]_queueVars
  BY <1>4 DEF ServiceTruncate, ServiceStart, ServiceCtl, ServiceRemove, Systemctl
<1>5. QED
  BY <1>1, <1>2, <1>3, <1>4 DEF Service

LEMMA UpdateQueue == ASSUME SelfUpdate \/ Other PROVE [QueueNext]_queueVars
<1>1. CASE UpdateBegin
  BY <1>1 DEF UpdateBegin, QueueNext
<1>2. CASE UpdateWrite \/ UpdateRm
  BY <1>2 DEF UpdateWrite, UpdateRm
<1>3. CASE UpdateRestart
  BY <1>3 DEF UpdateRestart, QueueNext
<1>4. CASE UpdateReturn \/ Other
  BY <1>4 DEF UpdateReturn, Other, QueueNext
<1>5. QED
  BY <1>1, <1>2, <1>3, <1>4 DEF SelfUpdate

LEMMA StepQueue == [Next]_vars => [QueueNext]_queueVars
<1> SUFFICES ASSUME [Next]_vars PROVE [QueueNext]_queueVars
  OBVIOUS
<1>1. CASE Requests
  BY <1>1, RequestsQueue
<1>2. CASE Staging
  BY <1>2, StagingQueue
<1>3. CASE Exec
  BY <1>3, NodeConfigQueue, ServiceQueue, UpdateQueue DEF Exec
<1>4. CASE Client \/ Loop
  BY <1>4 DEF QueueNext
<1>5. CASE DaemonRestart
  BY <1>5 DEF DaemonRestart, QueueNext
<1>6. CASE MachineCut
  BY <1>6 DEF MachineCut, QueueNext
<1>7. CASE NodeExits \/ NodeRestarts
  BY <1>7, NodeQueue
<1>8. CASE UNCHANGED vars
  BY <1>8 DEF vars
<1>9. QED
  BY <1>1, <1>2, <1>3, <1>4, <1>5, <1>6, <1>7, <1>8 DEF Next

\* The commands of the appliance, its handlers and its faults use the queue
\* as AdminQueue says.
THEOREM ApplianceIsQueue == Spec => QueueSpec
<1>1. Init => QueueInit
  BY DEF Init
<1>2. QED
  BY <1>1, StepQueue, PTL DEF Spec, QueueSpec

\* The appliance keeps the promise of AdminJobs.
THEOREM ApplianceImplementsJobs == Spec => JobsSpec
<1>1. QED
  BY ApplianceIsQueue, QueueImplementsJobs, PTL

\* No command of the appliance is carried out twice, also not the one that
\* restarts nodeosd or the one that a power cut ends.
THEOREM ApplianceRunsOnce == Spec => []RunsOnce
<1>1. QED
  BY ApplianceIsQueue, RunsOnceHolds, PTL

\* The verdicts that the UI shows are true.
THEOREM ApplianceVerdictsTrue == Spec => []VerdictTrue
<1>1. QED
  BY ApplianceIsQueue, VerdictsTrue, PTL

\* Whatever its commands do to the machine, the appliance runs a job at most once
\* and reports it as it went.
THEOREM ApplianceJobsHonest == Spec => []JobsHonest
<1> QED
  BY ApplianceIsQueue, HonestJobs, PTL

-----------------------------------------------------------------------------
(* Units *)

\* The helper's copies are whole, and so is what it installs from them, unless
\* it is at it or was kept from it.
WholeCopies ==
    /\ DOMAIN scratch = AllUnits /\ DOMAIN unit = AllUnits
    /\ half \in AllUnits \union {Gone}
    /\ \A u \in AllUnits : scratch[u] # Empty
    /\ UnitsWhole

LEMMA GoneIsNotEmpty == Gone # Empty /\ Gone \notin AllUnits
BY ApplianceAssumption

LEMMA WholeCopiesInit == Init => WholeCopies
BY GoneIsNotEmpty DEF Init, WholeCopies, UnitsWhole, NoUnits

LEMMA WholeCopiesSame ==
  ASSUME WholeCopies, UNCHANGED <<scratch, unit, half>>,
         \A u \in AllUnits : u \in torn => u \in torn'
  PROVE  WholeCopies'
BY DEF WholeCopies, UnitsWhole

LEMMA ServiceKeepsCopies == ASSUME WholeCopies, Service PROVE WholeCopies'
<1>1. CASE ServiceCheck \/ ServiceCopied \/ ServiceInstalled \/ ServiceFind
  BY <1>1, WholeCopiesSame
     DEF ServiceCheck, ServiceCopied, ServiceInstalled, ServiceFind, svcVars
<1>2. CASE ServiceGlob \/ ServiceEnd
  BY <1>2, GoneIsNotEmpty
     DEF ServiceGlob, ServiceEnd, WholeCopies, UnitsWhole, NoUnits
<1>3. ASSUME NEW u \in AllUnits, ServiceCopy(u) PROVE WholeCopies'
  <2>1. UNCHANGED <<unit, half, torn>>
    BY <1>3 DEF ServiceCopy
  <2>2. \/ scratch' = scratch
        \/ \E c : c # Empty /\ scratch' = [scratch EXCEPT ![u] = c]
    BY <1>3 DEF ServiceCopy, Broken
  <2>3. CASE scratch' = scratch
    BY <2>1, <2>3, WholeCopiesSame
  <2>4. ASSUME NEW c, c # Empty, scratch' = [scratch EXCEPT ![u] = c] PROVE WholeCopies'
    BY <2>1, <2>4 DEF WholeCopies, UnitsWhole
  <2>5. QED
    BY <2>2, <2>3, <2>4
<1>4. ASSUME NEW u \in AllUnits, ServiceTruncate(u) PROVE WholeCopies'
  <2>1. /\ half = Gone /\ half' = u /\ unit' = [unit EXCEPT ![u] = Empty]
        /\ UNCHANGED <<scratch, torn>>
    BY <1>4 DEF ServiceTruncate
  <2>2. UnitsWhole'
    BY <2>1, GoneIsNotEmpty DEF WholeCopies, UnitsWhole
  <2>3. QED
    BY <2>1, <2>2 DEF WholeCopies
<1>5. CASE ServiceWrite
  <2>1. half \in AllUnits /\ half' = Gone /\ scratch' = scratch
    BY <1>5 DEF ServiceWrite, WholeCopies
  <2>2. CASE unit' = [unit EXCEPT ![half] = scratch[half]] /\ torn' = torn \ {half}
    BY <2>1, <2>2 DEF WholeCopies, UnitsWhole
  <2>3. CASE torn' = torn \union {half} /\ unit' = unit
    BY <2>1, <2>3 DEF WholeCopies, UnitsWhole
  <2>4. QED
    BY <1>5, <2>2, <2>3 DEF ServiceWrite
<1>6. ASSUME NEW u \in AllUnits, ServiceStart(u) \/ ServiceCtl(u) PROVE WholeCopies'
  BY <1>6, WholeCopiesSame DEF ServiceStart, ServiceCtl, Systemctl
<1>7. ASSUME NEW u \in AllUnits, ServiceRemove(u) PROVE WholeCopies'
  <2>1. unit' = [unit EXCEPT ![u] = Gone] /\ UNCHANGED <<scratch, half, torn>>
    BY <1>7 DEF ServiceRemove, Systemctl
  <2>2. QED
    BY <2>1, GoneIsNotEmpty DEF WholeCopies, UnitsWhole
<1>8. QED
  BY <1>1, <1>2, <1>3, <1>4, <1>5, <1>6, <1>7 DEF Service

LEMMA WholeCopiesStep == WholeCopies /\ [Next]_vars => WholeCopies'
<1> SUFFICES ASSUME WholeCopies, [Next]_vars PROVE WholeCopies'
  OBVIOUS
<1>1. CASE Requests
  <2>1. UNCHANGED <<scratch, unit, half, torn>>
    BY <1>1 DEF Requests, PutConfig, PostService, PostOther, BeginStage, ApplyBegin, WebOnly, svcVars
  <2>2. QED
    BY <2>1, WholeCopiesSame
<1>2. CASE Staging
  <2>1. UNCHANGED <<scratch, unit, half, torn>>
    BY <1>2 DEF Staging, StageClear, StageMkdir, StageFile, StageQueue, ApplyWrite, ApplyQueue,
                WebOnly, svcVars
  <2>2. QED
    BY <2>1, WholeCopiesSame
<1>3. CASE NodeConfig \/ NodeExits \/ NodeRestarts
  <2>1. UNCHANGED <<scratch, unit, half>> /\ torn \subseteq torn'
    BY <1>3 DEF NodeConfig, ConfigBegin, ConfigEdit, ConfigReject, ConfigRestart, ConfigKeep,
                ConfigRestore, ConfigReboot, NodeExits, NodeRestarts, ConfOnly, svcVars
  <2>2. QED
    BY <2>1, WholeCopiesSame
<1>4. CASE Service
  BY <1>4, ServiceKeepsCopies
<1>5. CASE SelfUpdate
  <2>1. UNCHANGED <<scratch, unit, half>> /\ torn \ {"bin"} \subseteq torn'
    BY <1>5 DEF SelfUpdate, UpdateBegin, UpdateWrite, UpdateRm, UpdateRestart, UpdateReturn,
                BinOnly, svcVars
  <2>2. QED
    BY <2>1, WholeCopiesSame, ApplianceAssumption
<1>6. CASE UNCHANGED appVars
  BY <1>6, WholeCopiesSame DEF appVars, svcVars
<1>7. CASE DaemonRestart
  BY <1>7, WholeCopiesSame DEF DaemonRestart, svcVars
<1>8. CASE MachineCut
  <2>1. /\ unit' = unit /\ scratch' = NoUnits /\ half' = Gone
        /\ torn \subseteq torn' /\ (half # Gone => half \in torn')
    BY <1>8 DEF MachineCut
  <2>2. QED
    BY <2>1, GoneIsNotEmpty DEF WholeCopies, UnitsWhole, NoUnits
<1>9. CASE UNCHANGED vars
  BY <1>9, WholeCopiesSame DEF vars, appVars, svcVars
<1>10. QED
  BY <1>1, <1>2, <1>3, <1>4, <1>5, <1>6, <1>7, <1>8, <1>9 DEF Next, Exec, Other

\* Whatever nodeosd writes while the helper reads, a unit file is truncated only
\* while the helper writes it, or since the power or the write failed at that very
\* unit (install.sh:529-554).
THEOREM UnitsStayWhole == Spec => []UnitsWhole
<1>1. WholeCopies => UnitsWhole
  BY DEF WholeCopies
<1>2. QED
  BY <1>1, WholeCopiesInit, WholeCopiesStep, PTL DEF Spec

-----------------------------------------------------------------------------
(* bitcoin.conf and bitcoind *)

ServiceKinds == {"service-install", "service-ctl", "service-remove"}

\* Where the helper is in a command belongs to the command it carries out.
Place ==
    /\ at \in {"begin", "edit", "settled", "reboot", "glob", "copy", "install", "each",
               "write", "rm", "restart", "restarted"}
    /\ DOMAIN ask = Ids
    /\ helper.pc # "exec" => at = "begin"
    /\ at \in {"edit", "settled", "reboot"} => Asked("node-config")
    /\ at \in {"glob", "copy", "install"} => Asked("service-install")
    /\ at = "each" => \E kind \in ServiceKinds : Asked(kind)
    /\ at \in {"write", "rm", "restart", "restarted"} => Asked("self-update")

\* The node runs what bitcoin.conf says, or bitcoind has given up on it late.
Runs ==
    \/ node = conf
    \/ node = Gone /\ conf \in Refused /\ "late" \in torn

\* The configurations on the way through node_config.
ConfWhole ==
    "conf" \notin torn =>
        /\ at \notin {"edit", "settled", "reboot"} =>
              Runs /\ (conf \in Refused => "late" \in torn)
        /\ at \in {"edit", "settled", "reboot"} => (before \in Refused => "late" \in torn)
        /\ at \in {"edit", "settled"} => bak = before
        /\ at = "edit" /\ conf = before => Runs
        /\ at = "settled" => node = conf \/ (node = Gone /\ conf \in Refused)
        /\ at = "reboot" => conf = before

\* bitcoin.conf while its keys are edited: those that are done have their new
\* value, the others the one from before.
Edits ==
    /\ DOMAIN conf = Keys /\ DOMAIN before = Keys
    /\ conf = [k \in Keys |-> conf[k]] /\ before = [k \in Keys |-> before[k]]
    /\ at \in {"edit", "settled"} => bak = before
    /\ "conf" \notin torn =>
        /\ at = "edit" =>
             /\ todo \subseteq DOMAIN Req.set
             /\ \A k \in Keys :
                  conf[k] = IF k \in DOMAIN Req.set \ todo THEN Req.set[k] ELSE before[k]
        /\ at = "settled" =>
             \A k \in Keys : conf[k] = IF k \in DOMAIN Req.set THEN Req.set[k] ELSE before[k]

AInv == QInv /\ Place /\ ConfWhole

LEMMA AInvInit == Init => AInv
<1> SUFFICES ASSUME Init PROVE AInv
  OBVIOUS
<1>1. QInv
  BY QInvInit DEF Init
<1>2. at = "begin" /\ DOMAIN ask = Ids
  BY DEF Init
<1>3. node = conf /\ conf \notin Refused
  BY ApplianceAssumption DEF Init
<1>4. QED
  BY <1>1, <1>2, <1>3 DEF AInv, Place, ConfWhole, Runs

\* Nobody else touches the command the helper is at.
LEMMA SameCommand ==
  ASSUME QInv, Place, helper' = helper, at' = at, DOMAIN ask' = Ids,
         \/ ask' = ask
         \/ \E i \in Ids : Start(i) /\ \A j \in Ids : j # i => ask'[j] = ask[j]
  PROVE  Place'
<1>1. helper.pc = "exec" => helper.cur \in Ids /\ helper.cur <= issued /\ issued \in Nat
  <2>1. helper.pc = "exec" => helper.cur # 0 /\ helper.cur <= issued
    BY DEF QInv, Busy
  <2>2. QED
    BY <2>1, Numbers DEF QInv
<1>2. helper.pc = "exec" => ask'[helper.cur] = ask[helper.cur]
  <2>1. ASSUME NEW i \in Ids, Start(i), \A j \in Ids : j # i => ask'[j] = ask[j],
               helper.pc = "exec"
        PROVE  ask'[helper.cur] = ask[helper.cur]
    <3>1. i = issued + 1
      BY <2>1 DEF Start
    <3>2. helper.cur # i
      BY <1>1, <2>1, <3>1
    <3>3. QED
      BY <1>1, <2>1, <3>2
  <2>2. QED
    BY <2>1
<1>3. QED
  BY <1>2 DEF Place, Asked

SameMarks == \A m \in {"conf", "late"} : m \in torn' <=> m \in torn

LEMMA SameConf ==
  ASSUME ConfWhole, UNCHANGED <<at, conf, bak, node, before>>, SameMarks PROVE ConfWhole'
BY DEF ConfWhole, Runs, SameMarks

LEMMA QueueSame ==
  ASSUME NEW i \in Ids, NEW r, Place, Queue(i, r)
  PROVE  /\ helper' = helper /\ DOMAIN ask' = Ids
         /\ Start(i) /\ \A j \in Ids : j # i => ask'[j] = ask[j]
BY DEF Queue, Place, Start

LEMMA RequestsKeep == ASSUME AInv, Requests PROVE Place' /\ ConfWhole'
<1>1. UNCHANGED <<at, conf, bak, node, before, torn>>
  BY DEF Requests, PutConfig, PostService, PostOther, BeginStage, ApplyBegin, WebOnly, confVars
<1>2. \/ \E i \in Ids : \E r : Queue(i, r)
      \/ helper' = helper /\ ask' = ask
  BY DEF Requests, PutConfig, PostService, PostOther, BeginStage, ApplyBegin, WebOnly, queueVars
<1>3. Place'
  BY <1>1, <1>2, QueueSame, SameCommand DEF AInv, Place
<1>4. QED
  BY <1>1, <1>3, SameConf DEF AInv, SameMarks

LEMMA StagingKeeps == ASSUME AInv, Staging PROVE Place' /\ ConfWhole'
<1>1. UNCHANGED <<at, conf, bak, node, before, torn>>
  BY DEF Staging, StageClear, StageMkdir, StageFile, StageQueue, ApplyWrite, ApplyQueue,
         WebOnly, confVars
<1>2. \/ \E i \in Ids : \E r : Queue(i, r)
      \/ helper' = helper /\ ask' = ask
  BY DEF Staging, StageClear, StageMkdir, StageFile, StageQueue, ApplyWrite, ApplyQueue,
         WebOnly, queueVars
<1>3. Place'
  BY <1>1, <1>2, QueueSame, SameCommand DEF AInv, Place
<1>4. QED
  BY <1>1, <1>3, SameConf DEF AInv, SameMarks

\* A command returns: the helper is nowhere in it.
LEMMA ReturnPlace ==
  ASSUME AInv, NEW ok \in BOOLEAN, Return(ok), at' = "begin", ask' = ask
  PROVE  Place'
<1>1. helper'.pc = "mark"
  BY DEF Return, AInv, QInv, QueueTypeOK
<1>2. QED
  BY <1>1 DEF AInv, Place

\* The helper goes on within its command.
LEMMA WithinPlace ==
  ASSUME AInv, NEW kind, Asked(kind), UNCHANGED <<helper, ask>>,
         \/ at' = "begin"
         \/ at' \in {"edit", "settled", "reboot"} /\ kind = "node-config"
         \/ at' \in {"glob", "copy", "install"} /\ kind = "service-install"
         \/ at' = "each" /\ kind \in ServiceKinds
         \/ at' \in {"write", "rm", "restart", "restarted"} /\ kind = "self-update"
  PROVE  Place'
BY DEF AInv, Place, Asked

LEMMA NodeConfigKeeps == ASSUME AInv, Edits, NodeConfig PROVE Place' /\ ConfWhole'
<1> USE DEF ConfOnly, webVars
<1>1. CASE ConfigBegin
  <2>1. Place'
    BY <1>1, WithinPlace DEF ConfigBegin, queueVars
  <2>2. /\ UNCHANGED <<conf, node, torn>> /\ bak' = conf /\ before' = conf
        /\ at = "begin" /\ at' = "edit"
    BY <1>1 DEF ConfigBegin
  <2>3. QED
    BY <2>1, <2>2 DEF AInv, ConfWhole, Runs
<1>2. ASSUME NEW k \in Keys, ConfigEdit(k) PROVE Place' /\ ConfWhole'
  <2>1. Place'
    BY <1>2, WithinPlace DEF ConfigEdit, queueVars
  <2>2. /\ UNCHANGED <<at, bak, node, before, torn>> /\ at = "edit" /\ k \in todo
        /\ conf' = [conf EXCEPT ![k] = Req.set[k]]
    BY <1>2 DEF ConfigEdit
  <2>3. ASSUME "conf" \notin torn, conf' = before PROVE conf' = conf
    <3>1. conf[k] = before[k]
      BY <2>2, <2>3 DEF Edits
    <3>2. conf'[k] = conf[k]
      BY <2>3, <3>1
    <3>3. \A j \in Keys : conf'[j] = conf[j]
      BY <2>2, <3>2 DEF Edits
    <3>4. conf' = [j \in Keys |-> conf'[j]]
      BY <2>3 DEF Edits
    <3>5. QED
      BY <3>3, <3>4 DEF Edits
  <2>4. QED
    BY <2>1, <2>2, <2>3 DEF AInv, ConfWhole, Runs
<1>3. ASSUME NEW k \in Keys, ConfigReject(k) PROVE Place' /\ ConfWhole'
  <2>1. Place'
    BY <1>3, ReturnPlace DEF ConfigReject
  <2>2. /\ UNCHANGED <<conf, bak, node, before>> /\ at = "edit" /\ at' = "begin"
        /\ torn' = IF conf = before THEN torn ELSE torn \union {"conf"}
    BY <1>3 DEF ConfigReject
  <2>3. QED
    BY <2>1, <2>2 DEF AInv, ConfWhole, Runs
<1>4. CASE ConfigRestart
  <2>1. Place'
    BY <1>4, WithinPlace DEF ConfigRestart, queueVars
  <2>2. /\ UNCHANGED <<conf, bak, before, torn>> /\ at = "edit" /\ at' = "settled"
        /\ node' = conf
    BY <1>4 DEF ConfigRestart
  <2>3. QED
    BY <2>1, <2>2 DEF AInv, ConfWhole, Runs
<1>5. CASE ConfigKeep
  <2>1. Place'
    BY <1>5, ReturnPlace DEF ConfigKeep
  <2>2. /\ UNCHANGED <<conf, node, before>> /\ at = "settled" /\ at' = "begin"
        /\ node # Gone
        /\ torn' = IF conf \in Refused THEN torn \union {"late"} ELSE torn
    BY <1>5 DEF ConfigKeep
  <2>3. QED
    BY <2>1, <2>2 DEF AInv, ConfWhole, Runs
<1>6. CASE ConfigRestore
  <2>1. Place'
    BY <1>6, WithinPlace DEF ConfigRestore, queueVars
  <2>2. /\ UNCHANGED <<node, before, torn>> /\ conf' = bak /\ at = "settled" /\ at' = "reboot"
    BY <1>6 DEF ConfigRestore
  <2>3. QED
    BY <2>1, <2>2 DEF AInv, ConfWhole, Runs
<1>7. CASE ConfigReboot
  <2>1. Place'
    BY <1>7, ReturnPlace DEF ConfigReboot
  <2>2. /\ UNCHANGED <<conf, bak, before, torn>> /\ at = "reboot" /\ at' = "begin"
        /\ node' = conf
    BY <1>7 DEF ConfigReboot
  <2>3. QED
    BY <2>1, <2>2 DEF AInv, ConfWhole, Runs
<1>8. QED
  BY <1>1, <1>2, <1>3, <1>4, <1>5, <1>6, <1>7 DEF NodeConfig

\* bitcoind exits or is started again, whatever the helper does.
LEMMA NodeKeeps == ASSUME AInv, NodeExits \/ NodeRestarts PROVE Place' /\ ConfWhole'
<1> USE DEF ConfOnly, webVars
<1>1. /\ UNCHANGED <<helper, at, ask, conf, bak, before, torn>>
      /\ \/ node \in Refused /\ node' = Gone
         \/ node' = conf
  BY DEF NodeExits, NodeRestarts, queueVars
<1>2. Place'
  BY <1>1, SameCommand DEF AInv, Place
<1>3. node \in Refused => node # Gone
  BY ApplianceAssumption
<1>4. CASE node \in Refused /\ node' = Gone
  BY <1>1, <1>2, <1>3, <1>4 DEF AInv, ConfWhole, Runs
<1>5. CASE node' = conf
  BY <1>1, <1>2, <1>5 DEF AInv, ConfWhole, Runs
<1>6. QED
  BY <1>1, <1>4, <1>5

\* The other commands leave bitcoin.conf alone and are not in node_config.
LEMMA OtherConf ==
  ASSUME AInv, UNCHANGED <<conf, bak, node, before>>, SameMarks,
         at \notin {"edit", "settled", "reboot"}, at' \notin {"edit", "settled", "reboot"}
  PROVE  ConfWhole'
BY DEF AInv, ConfWhole, Runs, SameMarks

LEMMA ServiceMarks ==
  ASSUME WholeCopies, Service
  PROVE  \A m \in {"conf", "late", "bin"} : m \in torn' <=> m \in torn
<1>1. CASE ServiceWrite
  <2>1. half \in AllUnits /\ half \notin {"conf", "late", "bin"}
    BY <1>1, ApplianceAssumption DEF ServiceWrite, WholeCopies
  <2>2. torn' = torn \ {half} \/ torn' = torn \union {half}
    BY <1>1 DEF ServiceWrite
  <2>3. QED
    BY <2>1, <2>2
<1>2. CASE ~ServiceWrite
  <2>1. torn' = torn
    BY <1>2 DEF Service, ServiceCheck, ServiceGlob, ServiceCopied, ServiceCopy, ServiceTruncate, ServiceWrite,
         ServiceInstalled, ServiceStart, ServiceCtl, ServiceRemove, Systemctl, ServiceFind, ServiceEnd
  <2>2. QED
    BY <2>1
<1>3. QED
  BY <1>1, <1>2

LEMMA ServiceKeeps == ASSUME AInv, WholeCopies, Service PROVE Place' /\ ConfWhole'
<1> USE DEF SvcOnly, webVars
<1>1. UNCHANGED <<conf, bak, node, before, ask>>
  BY DEF Service, ServiceCheck, ServiceGlob, ServiceCopied, ServiceCopy, ServiceTruncate, ServiceWrite,
         ServiceInstalled, ServiceStart, ServiceCtl, ServiceRemove, Systemctl, ServiceFind, ServiceEnd, confVars
<1>2. /\ at \in {"begin", "glob", "copy", "install", "each"}
      /\ at' \in {"begin", "glob", "copy", "install", "each"}
  BY DEF Service, ServiceCheck, ServiceGlob, ServiceCopied, ServiceCopy, ServiceTruncate, ServiceWrite,
         ServiceInstalled, ServiceStart, ServiceCtl, ServiceRemove, Systemctl, ServiceFind, ServiceEnd, Fails
<1>3. \/ /\ helper' = helper
         /\ \/ Asked("service-install")
            \/ at' = "each" /\ \E kind \in ServiceKinds : Asked(kind)
      \/ at' = "begin" /\ \E ok \in BOOLEAN : Return(ok)
  <2>1. CASE ServiceCheck \/ ServiceEnd \/ \E u \in AllUnits : ServiceCopy(u)
    BY <2>1 DEF ServiceCheck, ServiceEnd, ServiceCopy, Fails, queueVars
  <2>2. CASE ServiceGlob \/ ServiceCopied \/ ServiceWrite \/ ServiceInstalled
             \/ \E u \in AllUnits : ServiceTruncate(u)
    BY <2>2 DEF ServiceGlob, ServiceCopied, ServiceWrite, ServiceInstalled, ServiceTruncate, queueVars
  <2>3. CASE ServiceFind
    BY <2>3 DEF ServiceFind, Fails, queueVars, ServiceKinds
  <2>4. ASSUME NEW u \in AllUnits, ServiceStart(u) \/ ServiceCtl(u) \/ ServiceRemove(u)
        PROVE  helper' = helper /\ at' = "each" /\ \E kind \in ServiceKinds : Asked(kind)
    BY <2>4 DEF ServiceStart, ServiceCtl, ServiceRemove, Systemctl, queueVars, ServiceKinds
  <2>5. QED
    BY <2>1, <2>2, <2>3, <2>4 DEF Service
<1>4. Place'
  BY <1>1, <1>2, <1>3, ReturnPlace, WithinPlace DEF ServiceKinds
<1>5. SameMarks
  BY ServiceMarks DEF SameMarks
<1>6. QED
  BY <1>1, <1>2, <1>4, <1>5, OtherConf

LEMMA SelfUpdateKeeps == ASSUME AInv, SelfUpdate PROVE Place' /\ ConfWhole'
<1> USE DEF BinOnly, webVars
<1>1. UNCHANGED <<conf, bak, node, before, ask>> /\ SameMarks
  BY DEF SelfUpdate, UpdateBegin, UpdateWrite, UpdateRm, UpdateRestart, UpdateReturn,
         Reboots, confVars, SameMarks
<1>2. /\ at \in {"begin", "write", "rm", "restart", "restarted"}
      /\ at' \in {"begin", "write", "rm", "restart", "restarted"}
  BY DEF SelfUpdate, UpdateBegin, UpdateWrite, UpdateRm, UpdateRestart, UpdateReturn
<1>3. \/ Asked("self-update") /\ helper' = helper
      \/ at' = "begin" /\ \E ok \in BOOLEAN : Return(ok)
  BY DEF SelfUpdate, UpdateBegin, UpdateWrite, UpdateRm, UpdateRestart, UpdateReturn,
         Restart, queueVars
<1>4. Place'
  BY <1>1, <1>2, <1>3, ReturnPlace, WithinPlace
<1>5. QED
  BY <1>1, <1>2, <1>4, OtherConf

LEMMA QueueStepKeeps == ASSUME AInv, Client \/ Loop, UNCHANGED appVars PROVE Place' /\ ConfWhole'
<1>1. UNCHANGED <<at, conf, bak, node, before, ask>> /\ SameMarks
  BY DEF appVars, confVars, webVars, SameMarks
<1>2. CASE Client
  <2>1. helper' = helper
    BY <1>2 DEF Client, Follow, GiveUp, RemoveMarkers, Finish
  <2>2. QED
    BY <1>1, <2>1, SameCommand, SameConf DEF AInv, Place
<1>3. CASE Loop
  <2>1. helper.pc # "exec"
    BY <1>3 DEF Loop, Wake, Take, Mark, RemoveRun, Rest
  <2>2. at' = "begin"
    BY <1>1, <2>1 DEF AInv, Place
  <2>3. QED
    BY <1>1, <2>2, SameConf DEF AInv, Place
<1>4. QED
  BY <1>2, <1>3

LEMMA AInvStep == ASSUME AInv, WholeCopies, Edits, [Next]_vars PROVE AInv'
<1>1. QInv'
  BY StepQueue, QInvStep DEF AInv
<1>2. CASE Other
  <2>1. PICK ok \in BOOLEAN : Return(ok)
    BY <1>2 DEF Other
  <2>2. UNCHANGED <<at, conf, bak, node, before, ask>> /\ SameMarks
    BY <1>2 DEF Other, appVars, confVars, webVars, SameMarks
  <2>3. at = "begin"
    BY <1>2 DEF Other, AInv, Place, Asked, ServiceKinds
  <2>4. QED
    BY <1>1, <2>1, <2>2, <2>3, ReturnPlace, SameConf DEF AInv
<1>3. CASE DaemonRestart
  <2>1. UNCHANGED <<at, conf, bak, node, before, ask, helper>> /\ SameMarks
    BY <1>3 DEF DaemonRestart, Restart, Reboots, confVars, SameMarks
  <2>2. QED
    BY <1>1, <2>1, SameCommand, SameConf DEF AInv, Place
<1>4. CASE MachineCut
  <2>1. /\ at' = "begin" /\ node' = conf /\ ask' = ask
        /\ UNCHANGED <<conf, bak, before>>
        /\ "conf" \notin torn' =>
             "conf" \notin torn /\ ~(Asked("node-config") /\ at # "begin")
        /\ "late" \in torn => "late" \in torn'
    BY <1>4 DEF MachineCut, Reboots
  <2>2. Place'
    BY <2>1 DEF AInv, Place
  <2>3. ASSUME "conf" \notin torn' PROVE conf \in Refused => "late" \in torn'
    <3>1. at \notin {"edit", "settled", "reboot"}
      BY <2>1, <2>3 DEF AInv, Place
    <3>2. QED
      BY <2>1, <2>3, <3>1 DEF AInv, ConfWhole
  <2>4. ConfWhole'
    BY <2>1, <2>3 DEF ConfWhole, Runs
  <2>5. QED
    BY <1>1, <2>2, <2>4 DEF AInv
<1>5. CASE UNCHANGED vars
  <2>1. UNCHANGED <<at, conf, bak, node, before, ask, helper>> /\ SameMarks
    BY <1>5 DEF vars, appVars, confVars, webVars, queueVars, SameMarks
  <2>2. QED
    BY <1>1, <2>1, SameCommand, SameConf DEF AInv, Place
<1>6. QED
  BY <1>1, <1>2, <1>3, <1>4, <1>5, RequestsKeep, StagingKeeps, NodeConfigKeeps,
     NodeKeeps, ServiceKeeps, SelfUpdateKeeps, QueueStepKeeps
     DEF Next, Exec, AInv

-----------------------------------------------------------------------------
(* Jobs that wait for the helper *)

\* The command has yet to be carried out, or is being carried out.
Pends(i) == "cmd" \in dir[i] \/ (helper.pc = "exec" /\ helper.cur = i)

\* Every job that waits after a step waited before it, for the same files.
SameJobs ==
    \A i \in Ids : Pends(i)' => Pends(i) /\ ask'[i] = ask[i] /\ meant'[i] = meant[i]

\* As SameJobs, but for the job i that the step has asked for.
SameBut(i) ==
    \A j \in Ids \ {i} : Pends(j)' => Pends(j) /\ ask'[j] = ask[j] /\ meant'[j] = meant[j]

LEMMA StartPends ==
  ASSUME QInv, NEW i \in Ids, Start(i), NEW j \in Ids \ {i}, Pends(j)'
  PROVE  Pends(j)
<1>1. dir \in [Ids -> SUBSET Suffixes]
  BY DEF QInv, QueueTypeOK
<1>2. helper' = helper /\ dir'[j] = dir[j]
  BY <1>1 DEF Start
<1>3. QED
  BY <1>2 DEF Pends

\* The helper and the goroutines of nodeosd put no command file into the queue.
LEMMA LoopPends ==
  ASSUME QInv, Client \/ Loop, NEW j \in Ids, Pends(j)' PROVE Pends(j)
<1>1. dir \in [Ids -> SUBSET Suffixes] /\ helper \in HelperType /\ helper.todo \subseteq Queued
  BY DEF QInv, QueueTypeOK, HelperType, Waits
<1>2. ASSUME NEW i \in Ids, Follow(i) \/ GiveUp(i) PROVE Pends(j)
  BY <1>2 DEF Follow, GiveUp, Finish, Pends
<1>3. ASSUME NEW i \in Ids, RemoveMarkers(i) PROVE Pends(j)
  <2>1. helper' = helper /\ dir' = [dir EXCEPT ![i] = @ \ {"done", "fail"}]
    BY <1>3 DEF RemoveMarkers
  <2>2. "cmd" \in dir'[j] => "cmd" \in dir[j]
    BY <1>1, <2>1
  <2>3. QED
    BY <2>1, <2>2 DEF Pends
<1>4. CASE Wake \/ Rest
  <2>1. dir' = dir
    BY <1>4 DEF Wake, Rest
  <2>2. CASE Wake
    BY <1>1, <2>1, <2>2 DEF Wake, HelperType, Pends
  <2>3. CASE Rest
    BY <2>1, <2>3 DEF Rest, Asleep, Pends
  <2>4. QED
    BY <1>4, <2>2, <2>3
<1>5. ASSUME NEW i \in Ids, Take(i) PROVE Pends(j)
  <2>1. /\ helper'.cur = i /\ "cmd" \in dir[i]
        /\ dir' = [dir EXCEPT ![i] = (@ \ {"cmd"}) \union {"run"}]
    BY <1>1, <1>5 DEF Take, HelperType, Queued
  <2>2. "cmd" \in dir'[j] => "cmd" \in dir[j]
    BY <1>1, <2>1
  <2>3. QED
    BY <2>1, <2>2 DEF Pends
<1>6. CASE Mark
  <2>1. PICK how \in {"done", "fail"} : dir' = [dir EXCEPT ![helper.cur] = @ \union {how}]
    BY <1>6 DEF Mark
  <2>2. "cmd" \in dir'[j] => "cmd" \in dir[j]
    BY <1>1, <2>1
  <2>3. helper'.pc # "exec"
    BY <1>1, <1>6 DEF Mark, HelperType
  <2>4. QED
    BY <2>2, <2>3 DEF Pends
<1>7. CASE RemoveRun
  <2>1. dir' = [dir EXCEPT ![helper.cur] = @ \ {"run"}]
    BY <1>7 DEF RemoveRun
  <2>2. "cmd" \in dir'[j] => "cmd" \in dir[j]
    BY <1>1, <2>1
  <2>3. helper'.pc # "exec"
    BY <1>1, <1>7 DEF RemoveRun, HelperType
  <2>4. QED
    BY <2>2, <2>3 DEF Pends
<1>8. QED
  BY <1>2, <1>3, <1>4, <1>5, <1>6, <1>7 DEF Client, Loop

LEMMA ReturnPends ==
  ASSUME QInv, NEW ok, Return(ok), NEW j \in Ids, Pends(j)' PROVE Pends(j)
<1>1. helper \in HelperType
  BY DEF QInv, QueueTypeOK, HelperType
<1>2. dir' = dir /\ helper'.pc = "mark"
  BY <1>1 DEF Return, HelperType
<1>3. QED
  BY <1>2 DEF Pends

-----------------------------------------------------------------------------
(* Staged files *)

Files == Versions \union Broken

StageTypes ==
    /\ want \in Versions /\ web.v \in Versions
    /\ web = [pc |-> web.pc, svc |-> web.svc, todo |-> web.todo, v |-> web.v]
    /\ web.pc \in {"idle", "clear", "mkdir", "files", "binary", "update"}
    /\ web.pc \in {"clear", "mkdir", "files"} => web.svc \in Services
    /\ web.pc \in {"clear", "mkdir"} => web.todo = Units[web.svc]
    /\ stage \in [Services -> {Gone} \union [AllUnits -> Files]]
    /\ meant \in [Ids -> Versions]

LEMMA ServiceUnits == \A s \in Services : Units[s] \subseteq AllUnits
BY DEF Services, AllUnits

LEMMA Numbered == 0 \in Versions /\ Gone \notin Versions /\ Empty \notin Versions
<1>1. MaxVersion \in Nat
  BY ApplianceAssumption
<1>2. 0 \in 0 .. MaxVersion
  BY <1>1
<1>3. QED
  BY <1>2, ApplianceAssumption DEF Versions

LEMMA NothingStaged == NoUnits \in [AllUnits -> Files] /\ NoUnits # Gone
<1>1. NoUnits \in [AllUnits -> Versions \union {Gone, Empty}]
  BY DEF NoUnits
<1>2. NoUnits # Gone
  BY <1>1, ApplianceAssumption
<1>3. QED
  BY <1>2 DEF NoUnits, Files, Broken

LEMMA IdleTypes ==
  ASSUME StageTypes, UNCHANGED <<want, stage, meant>>, web' = NoWeb PROVE StageTypes'
BY Numbered DEF StageTypes, NoWeb

LEMMA SameTypes ==
  ASSUME StageTypes, UNCHANGED <<want, stage, meant, web>> PROVE StageTypes'
BY DEF StageTypes

\* The staged files f of a service with the units us are those of version v.
Whole(f, us, v) == f # Gone /\ \A u \in us : f[u] = v

InstallPends(i) == Pends(i) /\ ask[i].kind = "service-install"

\* The files of a job that waits are whole unless a handler staged over them,
\* and one that is at it did so.
ForJobs ==
    \A i \in Ids : InstallPends(i) =>
       /\ ask[i].svc \in Services
       /\ i \notin spoiled => Whole(stage[ask[i].svc], Units[ask[i].svc], meant[i])
ByWeb ==
    /\ web.pc \in {"mkdir", "files"} =>
         \A i \in Ids : InstallPends(i) /\ ask[i].svc = web.svc => i \in spoiled
    /\ web.pc = "files" => Whole(stage[web.svc], Units[web.svc] \ web.todo, web.v)

LEMMA StageSame ==
  ASSUME ForJobs, ByWeb, stage' = stage, spoiled \subseteq spoiled',
         web' = web \/ web'.pc \notin {"mkdir", "files"},
         \A i \in Ids : InstallPends(i)' =>
            InstallPends(i) /\ ask'[i] = ask[i] /\ meant'[i] = meant[i]
  PROVE  ForJobs' /\ ByWeb'
<1>1. ForJobs'
  BY DEF ForJobs
<1>2. CASE web' = web
  BY <1>1, <1>2 DEF ByWeb
<1>3. CASE web'.pc \notin {"mkdir", "files"}
  BY <1>1, <1>3 DEF ByWeb
<1>4. QED
  BY <1>1, <1>2, <1>3

\* Everything but a new job leaves the jobs as they are.
LEMMA JobsStay ==
  ASSUME QInv, UNCHANGED <<ask, meant>>,
         \/ UNCHANGED queueVars \/ Client \/ Loop \/ Restart \/ PowerCut
         \/ \E ok \in BOOLEAN : Return(ok)
  PROVE  SameJobs
<1> SUFFICES ASSUME NEW j \in Ids, Pends(j)' PROVE Pends(j)
  BY DEF SameJobs
<1>1. CASE UNCHANGED queueVars
  BY <1>1 DEF queueVars, Pends
<1>2. CASE Client \/ Loop
  BY <1>2, LoopPends
<1>3. CASE Restart \/ PowerCut
  BY <1>3 DEF Restart, PowerCut, Pends, Asleep
<1>4. CASE \E ok \in BOOLEAN : Return(ok)
  BY <1>4, ReturnPends
<1>5. QED
  BY <1>1, <1>2, <1>3, <1>4

LEMMA QueueJobs ==
  ASSUME QInv, Place, NEW i \in Ids, NEW r, Queue(i, r),
         \A j \in Ids \ {i} : meant'[j] = meant[j]
  PROVE  SameBut(i) /\ ask'[i] = r
<1>1. Start(i) /\ ask' = [ask EXCEPT ![i] = r] /\ DOMAIN ask = Ids
  BY DEF Queue, Place
<1>2. \A j \in Ids \ {i} : Pends(j)' => Pends(j)
  BY <1>1, StartPends
<1>3. QED
  BY <1>1, <1>2 DEF SameBut

SInv == StageTypes /\ ForJobs /\ ByWeb

\* A step that stages nothing, and asks for no job that reads what is staged.
LEMMA QuietStage ==
  ASSUME SInv, UNCHANGED <<want, stage, spoiled, meant>>, web' = web \/ web' = NoWeb,
         SameJobs \/ \E i \in Ids : SameBut(i) /\ ask'[i].kind # "service-install"
  PROVE  SInv'
<1>1. \A i \in Ids : InstallPends(i)' =>
        InstallPends(i) /\ ask'[i] = ask[i] /\ meant'[i] = meant[i]
  BY DEF InstallPends, SameJobs, SameBut
<1>2. web' = web \/ web'.pc \notin {"mkdir", "files"}
  BY DEF NoWeb
<1>3. QED
  BY <1>1, <1>2, StageSame, IdleTypes, SameTypes DEF SInv

UpdatePends == \E i \in Ids : Pends(i) /\ ask[i].kind = "self-update"

\* The binary that waits for the helper is whole unless a handler wrote over it.
BinInv ==
    /\ web.pc = "update" => staged \in Versions \union {Gone}
    /\ spoiled = {} /\ UpdatePends => web.pc # "binary" /\ staged \in Versions \union {Gone}
    /\ spoiled = {} /\ at = "write" => staged \in Versions
    /\ BinaryWhole

LEMMA QuietBin ==
  ASSUME BinInv, UNCHANGED <<staged, bin>>, spoiled \subseteq spoiled', "bin" \in torn => "bin" \in torn',
         at' = "write" <=> at = "write",
         web' = web \/ web'.pc \notin {"binary", "update"},
         SameJobs \/ \E i \in Ids : SameBut(i) /\ ask'[i].kind # "self-update"
  PROVE  BinInv'
<1>1. UpdatePends' => UpdatePends
  BY DEF UpdatePends, SameJobs, SameBut
<1>2. spoiled' = {} => spoiled = {}
  OBVIOUS
<1>3. BinaryWhole'
  BY <1>2 DEF BinInv, BinaryWhole
<1>4. CASE web' = web
  BY <1>1, <1>2, <1>3, <1>4 DEF BinInv
<1>5. CASE web'.pc \notin {"binary", "update"}
  BY <1>1, <1>2, <1>3, <1>5 DEF BinInv
<1>6. QED
  BY <1>4, <1>5

\* A step that has nothing to do with staging, except that it may lose the handler.
LEMMA Quiet ==
  ASSUME SInv, BinInv, UNCHANGED <<want, stage, spoiled, meant, staged, bin>>,
         web' = web \/ web' = NoWeb, "bin" \in torn => "bin" \in torn',
         at' = "write" <=> at = "write",
         \/ SameJobs
         \/ \E i \in Ids : SameBut(i) /\ ask'[i].kind \notin {"service-install", "self-update"}
  PROVE  SInv' /\ BinInv'
<1>1. web' = web \/ web'.pc \notin {"binary", "update"}
  BY DEF NoWeb
<1>2. QED
  BY <1>1, QuietStage, QuietBin

LEMMA OtherRequestsStage ==
  ASSUME AInv, SInv, BinInv, NEW i \in Ids,
         \/ \E r \in Submissions : PutConfig(i, r)
         \/ \E s \in Services, act \in {"start", "stop", "restart", "remove"} :
               PostService(i, s, act)
         \/ PostOther(i)
  PROVE  SInv' /\ BinInv'
<1>1. UNCHANGED <<want, stage, spoiled, meant, staged, bin, web, torn, at>>
  BY DEF PutConfig, PostService, PostOther, binVars
<1>2. \E r : Queue(i, r) /\ r.kind \notin {"service-install", "self-update"}
  <2>1. CASE \E r \in Submissions : PutConfig(i, r)
    BY <2>1 DEF PutConfig
  <2>2. ASSUME NEW s \in Services, NEW act \in {"start", "stop", "restart", "remove"},
               PostService(i, s, act)
        PROVE  \E r : Queue(i, r) /\ r.kind \notin {"service-install", "self-update"}
    <3>1. CASE act = "remove"
      BY <2>2, <3>1 DEF PostService
    <3>2. CASE act # "remove"
      BY <2>2, <3>2 DEF PostService
    <3>3. QED
      BY <3>1, <3>2
  <2>3. CASE PostOther(i)
    BY <2>3 DEF PostOther
  <2>4. QED
    BY <2>1, <2>2, <2>3
<1>3. SameBut(i) /\ ask'[i].kind \notin {"service-install", "self-update"}
  BY <1>1, <1>2, QueueJobs DEF AInv
<1>4. QED
  BY <1>1, <1>3, Quiet

LEMMA BeginStageKeeps ==
  ASSUME AInv, SInv, BinInv, NEW s \in Services, NEW change \in BOOLEAN, BeginStage(s, change)
  PROVE  SInv' /\ BinInv'
<1>1. /\ UNCHANGED <<stage, spoiled, meant, ask, staged, bin, torn, at, queueVars>>
      /\ web' = [pc |-> "clear", svc |-> s, todo |-> Units[s],
                 v |-> IF s = "lightning" THEN want' ELSE 0]
      /\ want' = IF change THEN want + 1 ELSE want
      /\ change => want < MaxVersion
  BY DEF BeginStage, WebOnly, WebStep, binVars
<1>2. SameJobs
  BY <1>1, JobsStay DEF AInv
<1>3. want' \in Versions
  <2>1. MaxVersion \in Nat /\ want \in 0 .. MaxVersion
    BY ApplianceAssumption DEF SInv, StageTypes, Versions
  <2>2. QED
    BY <1>1, <2>1 DEF Versions
<1>4. StageTypes'
  BY <1>1, <1>3, Numbered DEF SInv, StageTypes
<1>5. web'.pc = "clear"
  BY <1>1
<1>6. ForJobs' /\ ByWeb'
  BY <1>1, <1>2, <1>5, StageSame DEF SInv, InstallPends, SameJobs
<1>7. BinInv'
  BY <1>1, <1>2, <1>5, QuietBin
<1>8. QED
  BY <1>4, <1>6, <1>7 DEF SInv

LEMMA StageClearKeeps == ASSUME AInv, SInv, BinInv, StageClear PROVE SInv' /\ BinInv'
<1>1. /\ UNCHANGED <<want, meant, ask, staged, bin, torn, at, queueVars>>
      /\ web.pc = "clear"
      /\ stage' = [stage EXCEPT ![web.svc] = Gone]
      /\ spoiled' = spoiled \union Waiting("service-install", web.svc)
      /\ web' = [web EXCEPT !.pc = "mkdir"]
      /\ web.svc \in Services /\ stage \in [Services -> {Gone} \union [AllUnits -> Files]]
  BY DEF StageClear, WebOnly, WebStep, binVars, SInv, StageTypes
<1>2. SameJobs
  BY <1>1, JobsStay DEF AInv
<1>3. web' = [pc |-> "mkdir", svc |-> web.svc, todo |-> web.todo, v |-> web.v]
  BY <1>1 DEF SInv, StageTypes
<1>4. web'.pc = "mkdir" /\ web'.svc = web.svc /\ web'.v = web.v
  BY <1>3
<1>5. stage' \in [Services -> {Gone} \union [AllUnits -> Files]]
  BY <1>1
<1>6. StageTypes'
  BY <1>1, <1>3, <1>5 DEF SInv, StageTypes
<1>7. \A i \in Ids : InstallPends(i)' =>
        /\ InstallPends(i) /\ ask'[i] = ask[i] /\ meant'[i] = meant[i]
        /\ ask[i].svc = web.svc => i \in spoiled'
  BY <1>1, <1>2 DEF InstallPends, Pends, SameJobs, Waiting
<1>8. \A s \in Services : s # web.svc => stage'[s] = stage[s]
  BY <1>1
<1>9. ForJobs' /\ ByWeb'
  BY <1>1, <1>4, <1>7, <1>8 DEF SInv, ForJobs, ByWeb
<1>10. BinInv'
  BY <1>1, <1>2, <1>4, QuietBin
<1>11. QED
  BY <1>6, <1>9, <1>10 DEF SInv

LEMMA StageMkdirKeeps == ASSUME AInv, SInv, BinInv, StageMkdir PROVE SInv' /\ BinInv'
<1>1. /\ UNCHANGED <<want, meant, ask, spoiled, staged, bin, torn, at, queueVars>>
      /\ web.pc = "mkdir"
      /\ stage' = [stage EXCEPT ![web.svc] = NoUnits]
      /\ web' = [web EXCEPT !.pc = "files"]
      /\ web.svc \in Services /\ stage \in [Services -> {Gone} \union [AllUnits -> Files]]
  BY DEF StageMkdir, WebOnly, WebStep, binVars, SInv, StageTypes
<1>2. SameJobs
  BY <1>1, JobsStay DEF AInv
<1>3. web' = [pc |-> "files", svc |-> web.svc, todo |-> web.todo, v |-> web.v]
  BY <1>1 DEF SInv, StageTypes
<1>4. web'.pc = "files" /\ web'.svc = web.svc /\ web'.v = web.v /\ web'.todo = web.todo
  BY <1>3
<1>5. stage' \in [Services -> {Gone} \union [AllUnits -> Files]]
  BY <1>1, NothingStaged
<1>6. StageTypes'
  BY <1>1, <1>3, <1>5 DEF SInv, StageTypes
<1>7. \A i \in Ids : InstallPends(i)' =>
        /\ InstallPends(i) /\ ask'[i] = ask[i] /\ meant'[i] = meant[i]
        /\ ask[i].svc = web.svc => i \in spoiled'
  BY <1>1, <1>2 DEF InstallPends, SameJobs, SInv, ByWeb
<1>8. \A s \in Services : s # web.svc => stage'[s] = stage[s]
  BY <1>1
<1>9. ForJobs'
  BY <1>1, <1>7, <1>8 DEF SInv, ForJobs
<1>10. ByWeb'
  <2>1. web'.todo = Units[web.svc] /\ stage'[web.svc] = NoUnits
    BY <1>1, <1>4 DEF SInv, StageTypes
  <2>2. Whole(stage'[web'.svc], Units[web'.svc] \ web'.todo, web'.v)
    BY <1>4, <2>1, NothingStaged DEF Whole
  <2>3. QED
    BY <1>4, <1>7, <2>2 DEF ByWeb
<1>11. BinInv'
  BY <1>1, <1>2, <1>4, QuietBin
<1>12. QED
  BY <1>6, <1>9, <1>10, <1>11 DEF SInv

LEMMA StageFileKeeps ==
  ASSUME AInv, SInv, BinInv, NEW u \in AllUnits, StageFile(u) PROVE SInv' /\ BinInv'
<1>1. /\ UNCHANGED <<want, meant, ask, spoiled, staged, bin, torn, at, queueVars>>
      /\ web.pc = "files" /\ u \in web.todo
      /\ web.svc \in Services /\ stage \in [Services -> {Gone} \union [AllUnits -> Files]]
      /\ web.v \in Versions
  BY DEF StageFile, WebOnly, binVars, SInv, StageTypes
<1>2. SameJobs
  BY <1>1, JobsStay DEF AInv
<1>3. Whole(stage[web.svc], Units[web.svc] \ web.todo, web.v)
  BY <1>1 DEF SInv, ByWeb
<1>4. stage[web.svc] \in [AllUnits -> Files]
  BY <1>1, <1>3 DEF Whole
<1>5. PICK c \in {Empty, web.v} :
        /\ stage' = [stage EXCEPT ![web.svc][u] = c]
        /\ \/ web' = web
           \/ c = web.v /\ web' = [web EXCEPT !.todo = @ \ {u}]
  BY DEF StageFile, WebStep
<1>6. c \in Files
  BY <1>1 DEF Files, Broken
<1>7. /\ stage'[web.svc] = [stage[web.svc] EXCEPT ![u] = c]
      /\ \A s \in Services : s # web.svc => stage'[s] = stage[s]
      /\ stage'[web.svc] \in [AllUnits -> Files]
      /\ stage' \in [Services -> {Gone} \union [AllUnits -> Files]]
  BY <1>1, <1>4, <1>5, <1>6
<1>8. web'.pc = "files" /\ web'.svc = web.svc /\ web'.v = web.v
  <2>1. web = [pc |-> web.pc, svc |-> web.svc, todo |-> web.todo, v |-> web.v]
    BY DEF SInv, StageTypes
  <2>2. QED
    BY <1>1, <1>5, <2>1
<1>9. web' = [pc |-> "files", svc |-> web.svc, todo |-> web'.todo, v |-> web.v]
  <2>1. web = [pc |-> "files", svc |-> web.svc, todo |-> web.todo, v |-> web.v]
    BY <1>1 DEF SInv, StageTypes
  <2>2. QED
    BY <1>5, <2>1
<1>10. StageTypes'
  BY <1>1, <1>7, <1>8, <1>9 DEF SInv, StageTypes
<1>11. \A i \in Ids : InstallPends(i)' =>
        /\ InstallPends(i) /\ ask'[i] = ask[i] /\ meant'[i] = meant[i]
        /\ ask[i].svc = web.svc => i \in spoiled'
  BY <1>1, <1>2 DEF InstallPends, SameJobs, SInv, ByWeb
<1>12. ForJobs'
  BY <1>1, <1>7, <1>11 DEF SInv, ForJobs
<1>13. Whole(stage'[web.svc], Units[web.svc] \ web'.todo, web.v)
  <2>1. stage'[web.svc] # Gone
    BY <1>7, ApplianceAssumption DEF Files, Broken
  <2>2. \A w \in AllUnits : stage'[web.svc][w] = IF w = u THEN c ELSE stage[web.svc][w]
    BY <1>4, <1>7
  <2>3. \/ web'.todo = web.todo
        \/ c = web.v /\ web'.todo = web.todo \ {u}
    <3>1. web = [pc |-> web.pc, svc |-> web.svc, todo |-> web.todo, v |-> web.v]
      BY DEF SInv, StageTypes
    <3>2. QED
      BY <1>5, <3>1
  <2>4. \A w \in Units[web.svc] \ web'.todo : stage'[web.svc][w] = web.v
    BY <1>1, <1>3, <2>2, <2>3, ServiceUnits DEF Whole
  <2>5. QED
    BY <2>1, <2>4 DEF Whole
<1>14. ByWeb'
  BY <1>8, <1>11, <1>13 DEF ByWeb
<1>15. BinInv'
  BY <1>1, <1>2, <1>8, QuietBin
<1>16. QED
  BY <1>10, <1>12, <1>14, <1>15 DEF SInv

\* The job that is asked for after the files were written finds them whole.
LEMMA StageQueueKeeps == ASSUME AInv, SInv, BinInv, StageQueue PROVE SInv' /\ BinInv'
<1>1. /\ UNCHANGED <<want, stage, spoiled, staged, bin, torn, at>>
      /\ web.pc = "files" /\ web.todo = {} /\ web' = NoWeb
  BY DEF StageQueue, WebStep, binVars
<1>2. CASE UNCHANGED <<queueVars, ask, meant>>
  <2>1. SameJobs
    BY <1>2, JobsStay DEF AInv
  <2>2. QED
    BY <1>1, <1>2, <2>1, Quiet
<1>3. ASSUME NEW i \in Ids,
             Queue(i, [kind |-> "service-install", svc |-> web.svc]),
             meant' = [meant EXCEPT ![i] = web.v]
      PROVE  SInv' /\ BinInv'
  <2>1. meant \in [Ids -> Versions] /\ web.v \in Versions /\ web.svc \in Services
    BY <1>1 DEF SInv, StageTypes
  <2>2. meant' \in [Ids -> Versions] /\ meant'[i] = web.v /\ \A j \in Ids \ {i} : meant'[j] = meant[j]
    BY <1>3, <2>1
  <2>3. SameBut(i) /\ ask'[i] = [kind |-> "service-install", svc |-> web.svc]
    BY <1>3, <2>2, QueueJobs DEF AInv
  <2>4. ask'[i].kind = "service-install" /\ ask'[i].svc = web.svc
    BY <2>3
  <2>5. web'.pc = "idle"
    BY <1>1 DEF NoWeb
  <2>6. StageTypes'
    BY <1>1, <2>2, Numbered DEF SInv, StageTypes, NoWeb
  <2>7. Whole(stage[web.svc], Units[web.svc], web.v)
    BY <1>1 DEF SInv, ByWeb, Whole
  <2>8. ForJobs'
    <3>1. ASSUME NEW j \in Ids, j # i, InstallPends(j)'
          PROVE  /\ ask'[j].svc \in Services
                 /\ j \notin spoiled' => Whole(stage'[ask'[j].svc], Units[ask'[j].svc], meant'[j])
      <4>1. InstallPends(j) /\ ask'[j] = ask[j] /\ meant'[j] = meant[j]
        BY <2>3, <3>1 DEF SameBut, InstallPends
      <4>2. QED
        BY <1>1, <4>1 DEF SInv, ForJobs
    <3>2. QED
      BY <1>1, <2>1, <2>2, <2>4, <2>7, <3>1 DEF ForJobs
  <2>9. ByWeb'
    BY <2>5 DEF ByWeb
  <2>10. BinInv'
    BY <1>1, <2>3, <2>4, <2>5, QuietBin
  <2>11. QED
    BY <2>6, <2>8, <2>9, <2>10 DEF SInv
<1>4. QED
  BY <1>2, <1>3 DEF StageQueue

LEMMA ApplyBeginKeeps ==
  ASSUME AInv, SInv, BinInv, NEW v \in Versions, ApplyBegin(v) PROVE SInv' /\ BinInv'
<1>1. /\ UNCHANGED <<want, stage, meant, ask, bin, torn, at, queueVars>>
      /\ web' = [pc |-> "binary", svc |-> Gone, todo |-> {}, v |-> v]
      /\ spoiled' = spoiled \union Waiting("self-update", Gone)
  BY DEF ApplyBegin, WebOnly, WebStep
<1>2. SameJobs
  BY <1>1, JobsStay DEF AInv
<1>3. web'.pc = "binary"
  BY <1>1
<1>4. StageTypes'
  BY <1>1 DEF SInv, StageTypes
<1>5. ForJobs' /\ ByWeb'
  BY <1>1, <1>2, <1>3, StageSame DEF SInv, InstallPends, SameJobs
<1>6. spoiled' = {} => spoiled = {} /\ ~UpdatePends
  BY <1>1 DEF UpdatePends, Waiting, Pends
<1>7. spoiled' = {} => ~UpdatePends'
  BY <1>2, <1>6 DEF UpdatePends, SameJobs
<1>8. at = "write" => UpdatePends
  <2>1. at = "write" => helper.cur # 0
    BY DEF AInv, Place, Asked, QInv, Busy
  <2>2. at = "write" => helper.cur \in Ids
    BY <2>1, Numbers DEF AInv, QInv
  <2>3. QED
    BY <2>2 DEF AInv, Place, Asked, UpdatePends, Pends
<1>9. BinaryWhole'
  BY <1>1, <1>6 DEF BinInv, BinaryWhole
<1>10. BinInv'
  BY <1>1, <1>3, <1>6, <1>7, <1>8, <1>9 DEF BinInv
<1>11. QED
  BY <1>4, <1>5, <1>10 DEF SInv

LEMMA ApplyWriteKeeps == ASSUME AInv, SInv, BinInv, ApplyWrite PROVE SInv' /\ BinInv'
<1>1. /\ UNCHANGED <<want, stage, meant, ask, spoiled, bin, torn, at, queueVars>>
      /\ web.pc = "binary"
      /\ web' = [web EXCEPT !.pc = "update"]
      /\ staged' = IF staged = Gone THEN Gone ELSE web.v
      /\ web.v \in Versions
  BY DEF ApplyWrite, WebOnly, WebStep, SInv, StageTypes
<1>2. SameJobs
  BY <1>1, JobsStay DEF AInv
<1>3. web' = [pc |-> "update", svc |-> web.svc, todo |-> web.todo, v |-> web.v]
  BY <1>1 DEF SInv, StageTypes
<1>4. web'.pc = "update" /\ web'.v = web.v
  BY <1>3
<1>5. StageTypes'
  BY <1>1, <1>3 DEF SInv, StageTypes
<1>6. ForJobs' /\ ByWeb'
  BY <1>1, <1>2, <1>4, StageSame DEF SInv, InstallPends, SameJobs
<1>7. staged' \in Versions \union {Gone}
  BY <1>1
<1>8. at = "write" => UpdatePends
  <2>1. at = "write" => helper.cur # 0
    BY DEF AInv, Place, Asked, QInv, Busy
  <2>2. at = "write" => helper.cur \in Ids
    BY <2>1, Numbers DEF AInv, QInv
  <2>3. QED
    BY <2>2 DEF AInv, Place, Asked, UpdatePends, Pends
<1>9. BinaryWhole'
  BY <1>1 DEF BinInv, BinaryWhole
<1>10. BinInv'
  BY <1>1, <1>4, <1>7, <1>8, <1>9 DEF BinInv
<1>11. QED
  BY <1>5, <1>6, <1>10 DEF SInv

LEMMA ApplyQueueKeeps == ASSUME AInv, SInv, BinInv, ApplyQueue PROVE SInv' /\ BinInv'
<1>1. /\ UNCHANGED <<want, stage, spoiled, staged, bin, torn, at>>
      /\ web.pc = "update" /\ web' = NoWeb
  BY DEF ApplyQueue, WebStep, binVars
<1>2. CASE UNCHANGED <<queueVars, ask, meant>>
  <2>1. SameJobs
    BY <1>2, JobsStay DEF AInv
  <2>2. QED
    BY <1>1, <1>2, <2>1, Quiet
<1>3. ASSUME NEW i \in Ids, Queue(i, [kind |-> "self-update"]),
             meant' = [meant EXCEPT ![i] = web.v]
      PROVE  SInv' /\ BinInv'
  <2>1. meant \in [Ids -> Versions] /\ web.v \in Versions
    BY DEF SInv, StageTypes
  <2>2. meant' \in [Ids -> Versions] /\ \A j \in Ids \ {i} : meant'[j] = meant[j]
    BY <1>3, <2>1
  <2>3. SameBut(i) /\ ask'[i] = [kind |-> "self-update"]
    BY <1>3, <2>2, QueueJobs DEF AInv
  <2>4. ask'[i].kind = "self-update"
    BY <2>3
  <2>5. web'.pc = "idle"
    BY <1>1 DEF NoWeb
  <2>6. StageTypes'
    BY <1>1, <2>2, Numbered DEF SInv, StageTypes, NoWeb
  <2>7. \A j \in Ids : InstallPends(j)' =>
          InstallPends(j) /\ ask'[j] = ask[j] /\ meant'[j] = meant[j]
    BY <2>3, <2>4 DEF InstallPends, SameBut
  <2>8. ForJobs' /\ ByWeb'
    BY <1>1, <2>5, <2>7, StageSame DEF SInv
  <2>9. staged' \in Versions \union {Gone}
    BY <1>1 DEF BinInv
  <2>10. BinInv'
    BY <1>1, <2>5, <2>9 DEF BinInv, BinaryWhole
  <2>11. QED
    BY <2>6, <2>8, <2>10 DEF SInv
<1>4. QED
  BY <1>2, <1>3 DEF ApplyQueue

LEMMA UpdateKeeps == ASSUME AInv, SInv, BinInv, SelfUpdate PROVE SInv' /\ BinInv'
<1>1. UNCHANGED <<want, stage, spoiled, meant, ask>> /\ (web' = web \/ web' = NoWeb)
  BY DEF SelfUpdate, UpdateBegin, UpdateWrite, UpdateRm, UpdateRestart, UpdateReturn,
         BinOnly, webVars, Reboots
<1>2. SameJobs
  <2>1. \/ UNCHANGED queueVars \/ Restart
        \/ \E ok \in BOOLEAN : Return(ok)
    BY DEF SelfUpdate, UpdateBegin, UpdateWrite, UpdateRm, UpdateRestart, UpdateReturn
  <2>2. QED
    BY <1>1, <2>1, JobsStay DEF AInv
<1>3. SInv'
  BY <1>1, <1>2, QuietStage
<1>4. UpdatePends' => UpdatePends
  BY <1>2 DEF UpdatePends, SameJobs
<1>5. UpdatePends
  <2>1. Asked("self-update") /\ helper.cur # 0
    BY DEF SelfUpdate, UpdateBegin, UpdateWrite, UpdateRm, UpdateRestart, UpdateReturn,
           Asked, AInv, QInv, Busy
  <2>2. helper.cur \in Ids
    BY <2>1, Numbers DEF AInv, QInv
  <2>3. QED
    BY <2>1, <2>2 DEF Asked, UpdatePends, Pends
<1>w. spoiled = {} => staged \in Versions \union {Gone}
  BY <1>5 DEF BinInv
<1>6. CASE UpdateBegin
  <2>1. /\ web' = web /\ staged' = staged /\ torn' = torn /\ at = "begin"
        /\ \/ at' \in {"begin", "rm"} /\ bin' = bin
           \/ at' = "write" /\ staged # Gone
    BY <1>6 DEF UpdateBegin, webVars
  <2>2. BinaryWhole'
    BY <1>1, <2>1 DEF BinInv, BinaryWhole
  <2>3. spoiled' = {} /\ at' = "write" => staged' \in Versions
    BY <1>1, <1>w, <2>1
  <2>4. QED
    BY <1>1, <1>3, <1>4, <2>1, <2>2, <2>3 DEF BinInv
<1>7. CASE UpdateWrite
  <2>1. /\ web' = web /\ staged' = staged /\ at = "write" /\ at' = "rm"
        /\ bin' = staged \/ "bin" \in torn'
    BY <1>7 DEF UpdateWrite, webVars
  <2>2. BinaryWhole'
    BY <1>1, <2>1 DEF BinInv, BinaryWhole
  <2>3. QED
    BY <1>1, <1>3, <1>4, <2>1, <2>2 DEF BinInv
<1>8. CASE UpdateRm
  <2>1. /\ web' = web /\ staged' = Gone /\ bin' = bin /\ torn' = torn
        /\ at = "rm" /\ at' = "restart"
    BY <1>8 DEF UpdateRm, webVars
  <2>2. BinaryWhole'
    BY <1>1, <2>1 DEF BinInv, BinaryWhole
  <2>3. QED
    BY <1>1, <1>3, <1>4, <2>1, <2>2 DEF BinInv
<1>9. CASE UpdateRestart
  BY <1>1, <1>2, <1>9, Quiet DEF UpdateRestart
<1>10. CASE UpdateReturn
  BY <1>1, <1>2, <1>10, Quiet DEF UpdateReturn, binVars
<1>11. QED
  BY <1>3, <1>6, <1>7, <1>8, <1>9, <1>10 DEF SelfUpdate

LEMMA CutKeeps == ASSUME AInv, SInv, BinInv, MachineCut PROVE SInv' /\ BinInv'
<1>1. /\ UNCHANGED <<want, stage, spoiled, meant, ask, staged, bin>> /\ web' = NoWeb
      /\ at' = "begin" /\ torn \subseteq torn'
      /\ Asked("self-update") /\ at = "write" => "bin" \in torn'
  BY DEF MachineCut, Reboots
<1>2. SameJobs
  BY <1>1, JobsStay DEF AInv, MachineCut
<1>3. CASE at = "write"
  <2>1. "bin" \in torn'
    BY <1>1, <1>3 DEF AInv, Place
  <2>2. SInv'
    BY <1>1, <1>2, QuietStage
  <2>3. UpdatePends' => UpdatePends
    BY <1>2 DEF UpdatePends, SameJobs
  <2>4. QED
    BY <1>1, <2>1, <2>2, <2>3 DEF BinInv, BinaryWhole, NoWeb
<1>4. CASE at # "write"
  BY <1>1, <1>2, <1>4, Quiet
<1>5. QED
  BY <1>3, <1>4

\* A step of a service command, seen from the queue.
LEMMA ServiceReturns ==
  ASSUME Service PROVE UNCHANGED queueVars \/ \E ok \in BOOLEAN : Return(ok)
<1>1. CASE ServiceCheck \/ ServiceFind \/ ServiceEnd \/ \E u \in AllUnits : ServiceCopy(u)
  BY <1>1 DEF ServiceCheck, ServiceFind, ServiceEnd, ServiceCopy, Fails
<1>2. CASE ServiceGlob \/ ServiceCopied \/ ServiceWrite \/ ServiceInstalled
           \/ \E u \in AllUnits : ServiceTruncate(u)
  BY <1>2 DEF ServiceGlob, ServiceCopied, ServiceWrite, ServiceInstalled, ServiceTruncate
<1>3. CASE \E u \in AllUnits : ServiceStart(u) \/ ServiceCtl(u) \/ ServiceRemove(u)
  BY <1>3 DEF ServiceStart, ServiceCtl, ServiceRemove, Systemctl
<1>4. QED
  BY <1>1, <1>2, <1>3 DEF Service

LEMMA StagingStep ==
  ASSUME AInv, SInv, BinInv, WholeCopies, [Next]_vars PROVE SInv' /\ BinInv'
<1>1. CASE Requests
  BY <1>1, OtherRequestsStage, BeginStageKeeps, ApplyBeginKeeps DEF Requests
<1>2. CASE Staging
  BY <1>2, StageClearKeeps, StageMkdirKeeps, StageFileKeeps, StageQueueKeeps, ApplyWriteKeeps,
     ApplyQueueKeeps DEF Staging
<1>3. CASE NodeConfig
  <2>1. /\ UNCHANGED <<want, stage, spoiled, meant, ask, staged, bin, web>>
        /\ "bin" \in torn => "bin" \in torn'
    BY <1>3 DEF NodeConfig, ConfigBegin, ConfigEdit, ConfigReject, ConfigRestart, ConfigKeep,
                ConfigRestore, ConfigReboot, ConfOnly, webVars, binVars
  <2>2. at # "write" /\ at' # "write"
    BY <1>3 DEF NodeConfig, ConfigBegin, ConfigEdit, ConfigReject, ConfigRestart, ConfigKeep,
                ConfigRestore, ConfigReboot
  <2>3. UNCHANGED queueVars \/ \E ok \in BOOLEAN : Return(ok)
    BY <1>3 DEF NodeConfig, ConfigBegin, ConfigEdit, ConfigReject, ConfigRestart, ConfigKeep,
                ConfigRestore, ConfigReboot
  <2>4. SameJobs
    BY <2>1, <2>3, JobsStay DEF AInv
  <2>5. QED
    BY <2>1, <2>2, <2>4, Quiet
<1>4. CASE Service
  <2>1. UNCHANGED <<want, stage, spoiled, meant, ask, staged, bin, web>>
    BY <1>4 DEF Service, ServiceCheck, ServiceGlob, ServiceCopied, ServiceCopy, ServiceTruncate, ServiceWrite,
                ServiceInstalled, ServiceStart, ServiceCtl, ServiceRemove, Systemctl, ServiceFind,
                ServiceEnd, SvcOnly, webVars, binVars
  <2>2. at # "write" /\ at' # "write"
    BY <1>4 DEF Service, ServiceCheck, ServiceGlob, ServiceCopied, ServiceCopy, ServiceTruncate, ServiceWrite,
                ServiceInstalled, ServiceStart, ServiceCtl, ServiceRemove, Systemctl, ServiceFind,
                ServiceEnd, Fails
  <2>3. UNCHANGED queueVars \/ \E ok \in BOOLEAN : Return(ok)
    BY <1>4, ServiceReturns
  <2>4. SameJobs
    BY <2>1, <2>3, JobsStay DEF AInv
  <2>5. "bin" \in torn => "bin" \in torn'
    BY <1>4, ServiceMarks
  <2>6. QED
    BY <2>1, <2>2, <2>4, <2>5, Quiet
<1>5. CASE SelfUpdate
  BY <1>5, UpdateKeeps
<1>6. CASE UNCHANGED appVars /\ (Other \/ Client \/ Loop)
  <2>1. UNCHANGED <<want, stage, spoiled, meant, ask, staged, bin, web, torn, at>>
    BY <1>6 DEF appVars, webVars, binVars
  <2>2. SameJobs
    BY <1>6, <2>1, JobsStay DEF AInv, Other
  <2>3. QED
    BY <2>1, <2>2, Quiet
<1>7. CASE DaemonRestart
  <2>1. UNCHANGED <<want, stage, spoiled, meant, ask, staged, bin, torn, at>> /\ web' = NoWeb
    BY <1>7 DEF DaemonRestart, Reboots
  <2>2. SameJobs
    BY <1>7, <2>1, JobsStay DEF AInv, DaemonRestart
  <2>3. QED
    BY <2>1, <2>2, Quiet
<1>8. CASE MachineCut
  BY <1>8, CutKeeps
<1>9. CASE UNCHANGED vars
  <2>1. UNCHANGED <<want, stage, spoiled, meant, ask, staged, bin, web, torn, at, queueVars>>
    BY <1>9 DEF vars, appVars, webVars, binVars
  <2>2. SameJobs
    BY <2>1, JobsStay DEF AInv
  <2>3. QED
    BY <2>1, <2>2, Quiet
<1>10. Other => UNCHANGED appVars
  BY DEF Other
<1>11. CASE NodeExits \/ NodeRestarts
  <2>1. UNCHANGED <<want, stage, spoiled, meant, ask, staged, bin, web, torn, at, queueVars>>
    BY <1>11 DEF NodeExits, NodeRestarts, ConfOnly, webVars, binVars
  <2>2. SameJobs
    BY <2>1, JobsStay DEF AInv
  <2>3. QED
    BY <2>1, <2>2, Quiet
<1>12. QED
  BY <1>1, <1>2, <1>3, <1>4, <1>5, <1>6, <1>7, <1>8, <1>9, <1>10, <1>11 DEF Next, Exec

LEMMA StagingInit == Init => SInv /\ BinInv
<1> SUFFICES ASSUME Init PROVE SInv /\ BinInv
  OBVIOUS
<1>1. /\ web.pc = "idle" /\ want = 0 /\ web = NoWeb /\ stage = [s \in Services |-> Gone]
      /\ meant = [i \in Ids |-> 0] /\ staged = Gone /\ bin = 0 /\ at = "begin"
  BY DEF Init, NoWeb
<1>2. \A i \in Ids : ~Pends(i)
  BY DEF Init, QueueInit, Asleep, Pends
<1>3. StageTypes
  BY <1>1, Numbered DEF StageTypes, NoWeb
<1>4. ForJobs /\ ByWeb
  BY <1>1, <1>2 DEF ForJobs, ByWeb, InstallPends
<1>5. BinInv
  BY <1>1, <1>2, Numbered DEF BinInv, BinaryWhole, UpdatePends
<1>6. QED
  BY <1>3, <1>4, <1>5 DEF SInv

-----------------------------------------------------------------------------
(* service_install *)

\* The unit is the one that was staged for the job, or its write failed.
Placed(u) == unit[u] = meant[helper.cur] \/ u \in torn

\* What the helper has yet to copy or to install, and what it has.
Copying ==
    at \in {"copy", "install", "each"} /\ Req.kind = "service-install"
    /\ helper.cur \notin spoiled =>
       \A u \in Units[Req.svc] :
          /\ at = "copy" => u \in todo \/ scratch[u] = meant[helper.cur]
          /\ at = "install" => /\ scratch[u] = meant[helper.cur]
                               /\ u \in todo \/ half = u \/ Placed(u)
          /\ at = "each" => Placed(u)

LEMMA NotTheNew ==
  ASSUME QInv, NEW i \in Ids, Start(i), helper.pc = "exec"
  PROVE  helper.cur \in Ids \ {i}
<1>1. /\ helper.cur # 0 /\ helper.cur <= issued
      /\ issued \in Nat /\ helper.cur \in Ids /\ helper.cur \in Nat
  BY Numbers DEF QInv, Busy
<1>2. i = issued + 1
  BY DEF Start
<1>3. QED
  BY <1>1, <1>2

LEMMA CopySame ==
  ASSUME Copying, UNCHANGED <<scratch, unit, half, torn, at, todo, helper>>,
         spoiled \subseteq spoiled',
         at \in {"copy", "install", "each"} =>
            ask'[helper.cur] = ask[helper.cur] /\ meant'[helper.cur] = meant[helper.cur]
  PROVE  Copying'
BY DEF Copying, Req, Placed

LEMMA CopyElsewhere == ASSUME at' \notin {"copy", "install", "each"} PROVE Copying'
BY DEF Copying, Req

\* A new job is not the one that the helper carries out.
LEMMA CopyNewJob ==
  ASSUME QInv, Place, Copying, UNCHANGED <<scratch, unit, half, torn, at, todo>>,
         spoiled \subseteq spoiled', StageTypes,
         \/ UNCHANGED <<helper, ask, meant>>
         \/ \E i \in Ids : \E r : Queue(i, r) /\ \A j \in Ids \ {i} : meant'[j] = meant[j]
  PROVE  Copying'
<1>1. CASE UNCHANGED <<helper, ask, meant>>
  BY <1>1, CopySame
<1>2. ASSUME NEW i \in Ids, NEW r, Queue(i, r), \A j \in Ids \ {i} : meant'[j] = meant[j]
      PROVE  Copying'
  <2>1. Start(i) /\ ask' = [ask EXCEPT ![i] = r] /\ DOMAIN ask = Ids /\ helper' = helper
    BY <1>2 DEF Queue, Start, Place
  <2>2. at \in {"copy", "install", "each"} => helper.cur \in Ids \ {i}
    BY <2>1, NotTheNew DEF Place, Asked
  <2>3. QED
    BY <1>2, <2>1, <2>2, CopySame
<1>3. QED
  BY <1>1, <1>2

\* The files of the job that the helper carries out.
LEMMA StageOfJob ==
  ASSUME AInv, SInv, Asked("service-install"), helper.cur \notin spoiled
  PROVE  /\ Req.svc \in Services /\ Units[Req.svc] \subseteq AllUnits
         /\ Whole(stage[Req.svc], Units[Req.svc], meant[helper.cur])
         /\ meant[helper.cur] \in Versions
<1>1. helper.cur # 0
  BY DEF AInv, QInv, Busy, Asked
<1>2. helper.cur \in Ids
  BY <1>1, Numbers DEF AInv, QInv
<1>3. InstallPends(helper.cur)
  BY <1>2 DEF InstallPends, Pends, Asked
<1>4. Req.svc \in Services /\ Whole(stage[Req.svc], Units[Req.svc], meant[helper.cur])
  BY <1>2, <1>3 DEF SInv, ForJobs, Req
<1>5. meant[helper.cur] \in Versions
  BY <1>2 DEF SInv, StageTypes
<1>6. QED
  BY <1>4, <1>5, ServiceUnits

LEMMA ServiceCopying == ASSUME AInv, SInv, WholeCopies, Copying, Service PROVE Copying'
<1> USE DEF SvcOnly, webVars
<1>1. CASE ServiceCheck \/ ServiceEnd
  <2>1. at' \notin {"copy", "install", "each"}
    BY <1>1 DEF ServiceCheck, ServiceEnd, Fails
  <2>2. QED
    BY <2>1, CopyElsewhere
<1>2. CASE ServiceGlob
  <2>1. /\ Asked("service-install") /\ at' = "copy" /\ UNCHANGED <<helper, ask, meant, spoiled>>
        /\ todo' = IF stage[Req.svc] = Gone THEN {}
                   ELSE {u \in Units[Req.svc] : stage[Req.svc][u] # Gone}
    BY <1>2 DEF ServiceGlob, queueVars
  <2>2. ASSUME helper.cur \notin spoiled, NEW u \in Units[Req.svc] PROVE u \in todo'
    BY <2>1, <2>2, StageOfJob, Numbered DEF Whole
  <2>3. QED
    BY <2>1, <2>2 DEF Copying, Req
<1>3. ASSUME NEW u \in AllUnits, ServiceCopy(u) PROVE Copying'
  <2>1. Asked("service-install") /\ at = "copy" /\ u \in todo
        /\ UNCHANGED <<ask, meant, spoiled>>
    BY <1>3 DEF ServiceCopy
  <2>2. CASE at' = "begin"
    BY <2>2, CopyElsewhere
  <2>3. CASE /\ UNCHANGED <<helper, at>> /\ todo' = todo \ {u} /\ stage[Req.svc] # Gone
             /\ scratch' = [scratch EXCEPT ![u] = stage[Req.svc][u]]
    <3>1. ASSUME helper.cur \notin spoiled, NEW w \in Units[Req.svc]
          PROVE  w \in todo' \/ scratch'[w] = meant[helper.cur]
      <4>1. w \in AllUnits /\ stage[Req.svc][w] = meant[helper.cur]
        BY <2>1, <3>1, StageOfJob DEF Whole
      <4>2. w = u => scratch'[w] = stage[Req.svc][u]
        BY <2>3, <4>1 DEF WholeCopies
      <4>3. w # u => scratch'[w] = scratch[w]
        BY <2>3
      <4>4. w \in todo \/ scratch[w] = meant[helper.cur]
        BY <2>1, <3>1 DEF Copying, Req, Asked
      <4>5. QED
        BY <2>3, <4>1, <4>2, <4>3, <4>4
    <3>2. QED
      BY <2>1, <2>3, <3>1 DEF Copying, Req
  <2>4. \/ at' = "begin"
        \/ /\ UNCHANGED <<helper, at>> /\ todo' = todo \ {u} /\ stage[Req.svc] # Gone
           /\ scratch' = [scratch EXCEPT ![u] = stage[Req.svc][u]]
    BY <1>3 DEF ServiceCopy, Fails, queueVars, Broken
  <2>5. QED
    BY <2>2, <2>3, <2>4
<1>4. CASE ServiceCopied
  <2>1. /\ Asked("service-install") /\ at = "copy" /\ at' = "install" /\ todo = {}
        /\ todo' = {u \in AllUnits : scratch[u] # Gone}
        /\ UNCHANGED <<helper, scratch, ask, meant, spoiled>>
    BY <1>4 DEF ServiceCopied, queueVars, svcVars
  <2>2. ASSUME helper.cur \notin spoiled, NEW u \in Units[Req.svc]
        PROVE  scratch[u] = meant[helper.cur] /\ u \in todo'
    <3>1. scratch[u] = meant[helper.cur]
      BY <2>1, <2>2 DEF Copying, Req, Asked
    <3>2. u \in AllUnits /\ meant[helper.cur] \in Versions
      BY <2>1, <2>2, StageOfJob
    <3>3. QED
      BY <2>1, <3>1, <3>2, Numbered
  <2>3. QED
    BY <2>1, <2>2 DEF Copying, Req
<1>5. ASSUME NEW u \in AllUnits, ServiceTruncate(u) PROVE Copying'
  <2>1. /\ Asked("service-install") /\ at = "install" /\ at' = "install" /\ half = Gone
        /\ half' = u /\ todo' = todo \ {u} /\ unit' = [unit EXCEPT ![u] = Empty]
        /\ UNCHANGED <<helper, scratch, ask, meant, spoiled, torn>>
    BY <1>5 DEF ServiceTruncate, queueVars
  <2>2. ASSUME helper.cur \notin spoiled, NEW w \in Units[Req.svc]
        PROVE  scratch[w] = meant[helper.cur] /\ (w \in todo' \/ half' = w \/ Placed(w)')
    <3>1. scratch[w] = meant[helper.cur] /\ (w \in todo \/ half = w \/ Placed(w))
      BY <2>1, <2>2 DEF Copying, Req, Asked
    <3>2. w \in AllUnits
      BY <2>1, <2>2, StageOfJob
    <3>3. half # w
      BY <2>1, <3>2, GoneIsNotEmpty
    <3>4. w # u => (Placed(w) => Placed(w)')
      BY <2>1 DEF Placed
    <3>5. QED
      BY <2>1, <3>1, <3>3, <3>4
  <2>3. QED
    BY <2>1, <2>2 DEF Copying, Req
<1>6. CASE ServiceWrite
  <2>1. /\ Asked("service-install") /\ at = "install" /\ at' = "install" /\ half' = Gone
        /\ \/ unit' = [unit EXCEPT ![half] = scratch[half]] /\ torn' = torn \ {half}
           \/ unit' = unit /\ torn' = torn \union {half}
        /\ UNCHANGED <<helper, scratch, ask, meant, spoiled, todo>>
    BY <1>6 DEF ServiceWrite, queueVars
  <2>2. ASSUME helper.cur \notin spoiled, NEW w \in Units[Req.svc]
        PROVE  scratch[w] = meant[helper.cur] /\ (w \in todo' \/ Placed(w)')
    <3>1. scratch[w] = meant[helper.cur] /\ (w \in todo \/ half = w \/ Placed(w))
      BY <2>1, <2>2 DEF Copying, Req, Asked
    <3>2. w \in AllUnits
      BY <2>1, <2>2, StageOfJob
    <3>3. w = half => unit'[w] = scratch[w] \/ w \in torn'
      BY <2>1, <3>2 DEF WholeCopies
    <3>4. w # half => unit'[w] = unit[w]
      BY <2>1, <3>2 DEF WholeCopies
    <3>t. w # half => (w \in torn <=> w \in torn')
      BY <2>1
    <3>5. QED
      BY <2>1, <3>1, <3>3, <3>4, <3>t DEF Placed
  <2>3. QED
    BY <2>1, <2>2 DEF Copying, Req
<1>7. CASE ServiceInstalled
  <2>1. /\ Asked("service-install") /\ at = "install" /\ at' = "each" /\ half = Gone
        /\ todo = {} /\ UNCHANGED <<helper, unit, ask, meant, spoiled, torn>>
    BY <1>7 DEF ServiceInstalled, queueVars, svcVars
  <2>2. ASSUME helper.cur \notin spoiled, NEW w \in Units[Req.svc] PROVE Placed(w)'
    <3>1. half = w \/ Placed(w)
      BY <2>1, <2>2 DEF Copying, Req, Asked
    <3>2. w \in AllUnits
      BY <2>1, <2>2, StageOfJob
    <3>3. half # w
      BY <2>1, <3>2, GoneIsNotEmpty
    <3>4. QED
      BY <2>1, <3>1, <3>3 DEF Placed
  <2>3. QED
    BY <2>1, <2>2 DEF Copying, Req
<1>8. ASSUME NEW u \in AllUnits, ServiceStart(u) PROVE Copying'
  <2>1. at = "each" /\ at' = "each" /\ UNCHANGED <<helper, unit, ask, meant, spoiled, torn>>
    BY <1>8 DEF ServiceStart, Systemctl, queueVars
  <2>2. QED
    BY <2>1 DEF Copying, Req, Placed
<1>9. CASE ServiceFind \/ \E u \in AllUnits : ServiceCtl(u) \/ ServiceRemove(u)
  <2>1. /\ at' \in {"begin", "each"} /\ ask' = ask
        /\ at' = "each" => helper' = helper /\ Req.kind \in {"service-ctl", "service-remove"}
    BY <1>9 DEF ServiceFind, ServiceCtl, ServiceRemove, Systemctl, Fails, Asked, Req, queueVars
  <2>2. QED
    BY <2>1 DEF Copying, Req
<1>10. QED
  BY <1>1, <1>2, <1>3, <1>4, <1>5, <1>6, <1>7, <1>8, <1>9 DEF Service

LEMMA CopyingStep ==
  ASSUME AInv, SInv, WholeCopies, Copying, [Next]_vars PROVE Copying'
<1>1. CASE Requests
  <2>1. /\ UNCHANGED <<scratch, unit, half, torn, at, todo, meant>> /\ spoiled \subseteq spoiled'
        /\ \/ UNCHANGED <<helper, ask, meant>>
           \/ \E i \in Ids : \E r : Queue(i, r)
    BY <1>1 DEF Requests, PutConfig, PostService, PostOther, BeginStage, ApplyBegin, WebOnly,
                svcVars, queueVars
  <2>2. QED
    BY <2>1, CopyNewJob DEF AInv, SInv
<1>2. CASE Staging
  <2>1. UNCHANGED <<scratch, unit, half, torn, at, todo>> /\ spoiled \subseteq spoiled'
    BY <1>2 DEF Staging, StageClear, StageMkdir, StageFile, StageQueue, ApplyWrite, ApplyQueue,
                WebOnly, svcVars
  <2>2. CASE StageQueue \/ ApplyQueue
    <3>1. \/ UNCHANGED <<helper, ask, meant>>
          \/ \E i \in Ids : \E r : Queue(i, r) /\ \A j \in Ids \ {i} : meant'[j] = meant[j]
      <4>1. DOMAIN meant = Ids
        BY DEF SInv, StageTypes
      <4>2. QED
        BY <2>2, <4>1 DEF StageQueue, ApplyQueue, queueVars
    <3>2. QED
      BY <2>1, <3>1, CopyNewJob DEF AInv, SInv
  <2>3. CASE StageClear \/ StageMkdir \/ (\E u \in AllUnits : StageFile(u)) \/ ApplyWrite
    <3>1. UNCHANGED <<helper, ask, meant>>
      BY <2>3 DEF StageClear, StageMkdir, StageFile, ApplyWrite, WebOnly, queueVars
    <3>2. QED
      BY <2>1, <3>1, CopyNewJob DEF AInv, SInv
  <2>4. QED
    BY <1>2, <2>2, <2>3 DEF Staging
<1>3. CASE NodeConfig
  <2>1. at' \in {"begin", "edit", "settled", "reboot"}
    BY <1>3 DEF NodeConfig, ConfigBegin, ConfigEdit, ConfigReject, ConfigRestart, ConfigKeep,
                ConfigRestore, ConfigReboot
  <2>2. QED
    BY <2>1, CopyElsewhere
<1>4. CASE Service
  BY <1>4, ServiceCopying
<1>5. CASE SelfUpdate
  <2>1. at' \in {"begin", "write", "rm", "restart", "restarted"}
    BY <1>5 DEF SelfUpdate, UpdateBegin, UpdateWrite, UpdateRm, UpdateRestart, UpdateReturn
  <2>2. QED
    BY <2>1, CopyElsewhere
<1>6. CASE UNCHANGED appVars /\ (Other \/ Loop)
  <2>1. at \notin {"copy", "install", "each"}
    BY <1>6 DEF AInv, Place, Asked, ServiceKinds, Other, Loop, Wake, Take, Mark, RemoveRun, Rest
  <2>2. QED
    BY <1>6, <2>1, CopyElsewhere DEF appVars
<1>7. CASE UNCHANGED appVars /\ Client
  <2>1. helper' = helper
    BY <1>7 DEF Client, Follow, GiveUp, RemoveMarkers, Finish
  <2>2. QED
    BY <1>7, <2>1, CopySame DEF appVars, webVars, svcVars
<1>8. CASE DaemonRestart
  <2>1. UNCHANGED <<scratch, unit, half, torn, at, todo, helper, ask, meant, spoiled>>
    BY <1>8 DEF DaemonRestart, Restart, Reboots, svcVars
  <2>2. QED
    BY <2>1, CopySame
<1>9. CASE MachineCut
  BY <1>9, CopyElsewhere DEF MachineCut
<1>10. CASE UNCHANGED vars
  BY <1>10, CopySame DEF vars, appVars, webVars, svcVars, queueVars
<1>11. CASE NodeExits \/ NodeRestarts
  <2>1. UNCHANGED <<scratch, unit, half, torn, at, todo, helper, ask, meant, spoiled>>
    BY <1>11 DEF NodeExits, NodeRestarts, ConfOnly, svcVars, webVars, queueVars
  <2>2. QED
    BY <2>1, CopySame
<1>12. QED
  BY <1>1, <1>2, <1>3, <1>4, <1>5, <1>6, <1>7, <1>8, <1>9, <1>10, <1>11 DEF Next, Exec, Other

-----------------------------------------------------------------------------
(* node_config *)

LEMMA EditsSame ==
  ASSUME Edits, UNCHANGED <<conf, before, bak, at, todo, helper>>,
         "conf" \in torn => "conf" \in torn',
         at \in {"edit", "settled"} => ask'[helper.cur] = ask[helper.cur]
  PROVE  Edits'
BY DEF Edits, Req

LEMMA EditsElsewhere ==
  ASSUME Edits, UNCHANGED <<conf, before>>, at' \notin {"edit", "settled"} PROVE Edits'
BY DEF Edits, Req

LEMMA EditsNewJob ==
  ASSUME QInv, Place, Edits, UNCHANGED <<conf, before, bak, at, todo, torn>>,
         \/ UNCHANGED <<helper, ask>>
         \/ \E i \in Ids : \E r : Queue(i, r)
  PROVE  Edits'
<1>1. CASE UNCHANGED <<helper, ask>>
  BY <1>1, EditsSame
<1>2. ASSUME NEW i \in Ids, NEW r, Queue(i, r) PROVE Edits'
  <2>1. Start(i) /\ ask' = [ask EXCEPT ![i] = r] /\ DOMAIN ask = Ids /\ helper' = helper
    BY <1>2 DEF Queue, Start, Place
  <2>2. at \in {"edit", "settled"} => helper.cur \in Ids \ {i}
    BY <2>1, NotTheNew DEF Place, Asked
  <2>3. QED
    BY <1>2, <2>1, <2>2, EditsSame
<1>3. QED
  BY <1>1, <1>2

LEMMA ConfigEdits == ASSUME AInv, Edits, NodeConfig PROVE Edits'
<1> USE DEF ConfOnly, webVars
<1>1. CASE ConfigBegin
  <2>1. /\ UNCHANGED <<helper, ask, conf, torn>> /\ bak' = conf /\ before' = conf
        /\ at' = "edit" /\ todo' = DOMAIN Req.set
    BY <1>1 DEF ConfigBegin, queueVars
  <2>2. QED
    BY <2>1 DEF Edits, Req
<1>2. ASSUME NEW k \in Keys, ConfigEdit(k) PROVE Edits'
  <2>1. /\ UNCHANGED <<helper, ask, torn, bak, before, at>> /\ at = "edit" /\ k \in todo
        /\ conf' = [conf EXCEPT ![k] = Req.set[k]] /\ todo' = todo \ {k}
    BY <1>2 DEF ConfigEdit, queueVars
  <2>2. DOMAIN conf' = Keys /\ conf' = [j \in Keys |-> conf'[j]]
    BY <2>1 DEF Edits, Req
  <2>3. \A j \in Keys : conf'[j] = IF j = k THEN Req.set[k] ELSE conf[j]
    BY <2>1 DEF Edits, Req
  <2>4. QED
    BY <2>1, <2>2, <2>3 DEF Edits, Req
<1>3. ASSUME NEW k \in Keys, ConfigReject(k) PROVE Edits'
  BY <1>3, EditsElsewhere DEF ConfigReject
<1>4. CASE ConfigRestart
  <2>1. /\ UNCHANGED <<helper, ask, conf, torn, bak, before>>
        /\ at = "edit" /\ at' = "settled" /\ todo = {}
    BY <1>4 DEF ConfigRestart, queueVars
  <2>2. QED
    BY <2>1 DEF Edits, Req
<1>5. CASE ConfigKeep
  BY <1>5, EditsElsewhere DEF ConfigKeep
<1>6. CASE ConfigRestore
  <2>1. conf' = bak /\ before' = before /\ at = "settled" /\ at' = "reboot"
    BY <1>6 DEF ConfigRestore
  <2>2. conf' = before
    BY <2>1 DEF Edits, Req
  <2>3. QED
    BY <2>1, <2>2 DEF Edits, Req
<1>7. CASE ConfigReboot
  BY <1>7, EditsElsewhere DEF ConfigReboot
<1>8. QED
  BY <1>1, <1>2, <1>3, <1>4, <1>5, <1>6, <1>7 DEF NodeConfig

LEMMA EditsStep == ASSUME AInv, Edits, [Next]_vars PROVE Edits'
<1>1. CASE Requests
  <2>1. /\ UNCHANGED <<conf, before, bak, at, todo, torn>>
        /\ \/ UNCHANGED <<helper, ask>>
           \/ \E i \in Ids : \E r : Queue(i, r)
    BY <1>1 DEF Requests, PutConfig, PostService, PostOther, BeginStage, ApplyBegin, WebOnly,
                confVars, queueVars
  <2>2. QED
    BY <2>1, EditsNewJob DEF AInv
<1>2. CASE Staging
  <2>1. /\ UNCHANGED <<conf, before, bak, at, todo, torn>>
        /\ \/ UNCHANGED <<helper, ask>>
           \/ \E i \in Ids : \E r : Queue(i, r)
    BY <1>2 DEF Staging, StageClear, StageMkdir, StageFile, StageQueue, ApplyWrite, ApplyQueue,
                WebOnly, confVars, queueVars
  <2>2. QED
    BY <2>1, EditsNewJob DEF AInv
<1>3. CASE NodeConfig
  BY <1>3, ConfigEdits
<1>4. CASE Service
  <2>1. UNCHANGED <<conf, before>> /\ at' \in {"begin", "glob", "copy", "install", "each"}
    BY <1>4 DEF Service, ServiceCheck, ServiceGlob, ServiceCopied, ServiceCopy, ServiceTruncate, ServiceWrite,
                ServiceInstalled, ServiceStart, ServiceCtl, ServiceRemove, Systemctl, ServiceFind,
                ServiceEnd, Fails, SvcOnly,
                confVars
  <2>2. QED
    BY <2>1, EditsElsewhere
<1>5. CASE SelfUpdate
  <2>1. UNCHANGED <<conf, before>> /\ at' \in {"begin", "write", "rm", "restart", "restarted"}
    BY <1>5 DEF SelfUpdate, UpdateBegin, UpdateWrite, UpdateRm, UpdateRestart, UpdateReturn,
                BinOnly, confVars
  <2>2. QED
    BY <2>1, EditsElsewhere
<1>6. CASE UNCHANGED appVars /\ (Other \/ Loop)
  <2>1. at \notin {"edit", "settled"}
    BY <1>6 DEF AInv, Place, Asked, Other, Loop, Wake, Take, Mark, RemoveRun, Rest
  <2>2. QED
    BY <1>6, <2>1, EditsElsewhere DEF appVars, confVars
<1>7. CASE UNCHANGED appVars /\ Client
  <2>1. helper' = helper
    BY <1>7 DEF Client, Follow, GiveUp, RemoveMarkers, Finish
  <2>2. QED
    BY <1>7, <2>1, EditsSame DEF appVars, webVars, confVars
<1>8. CASE DaemonRestart
  <2>1. UNCHANGED <<conf, before, bak, at, todo, helper, ask, torn>>
    BY <1>8 DEF DaemonRestart, Restart, Reboots, confVars
  <2>2. QED
    BY <2>1, EditsSame
<1>9. CASE MachineCut
  BY <1>9, EditsElsewhere DEF MachineCut
<1>10. CASE UNCHANGED vars
  BY <1>10, EditsSame DEF vars, appVars, webVars, confVars, queueVars
<1>11. CASE NodeExits \/ NodeRestarts
  <2>1. UNCHANGED <<conf, before, bak, at, todo, helper, ask, torn>>
    BY <1>11 DEF NodeExits, NodeRestarts, ConfOnly, webVars, queueVars
  <2>2. QED
    BY <2>1, EditsSame
<1>12. QED
  BY <1>1, <1>2, <1>3, <1>4, <1>5, <1>6, <1>7, <1>8, <1>9, <1>10, <1>11 DEF Next, Exec, Other

-----------------------------------------------------------------------------
(* What the commands leave *)

JobsInv == AInv /\ WholeCopies /\ SInv /\ BinInv /\ Copying /\ Edits

LEMMA JobsInvInit == Init => JobsInv
<1> SUFFICES ASSUME Init PROVE JobsInv
  OBVIOUS
<1>1. Copying
  BY DEF Init, Copying
<1>2. Edits
  <2>1. FirstConf \in [Keys -> Vals] /\ conf = FirstConf /\ before = FirstConf /\ at = "begin"
    BY ApplianceAssumption DEF Init, Configs
  <2>2. QED
    BY <2>1 DEF Edits
<1>3. QED
  BY <1>1, <1>2, AInvInit, WholeCopiesInit, StagingInit DEF JobsInv

LEMMA JobsInvStep == JobsInv /\ [Next]_vars => JobsInv'
BY AInvStep, WholeCopiesStep, StagingStep, CopyingStep, EditsStep DEF JobsInv

\* Whatever is staged while the helper reads, wherever the power fails: what is
\* installed is whole, a unit unless its write failed or was cut short and the
\* binary unless an update was staged over another one or install was cut short.
THEOREM WholeInstalls == Spec => []InstalledWhole
<1>1. JobsInv => InstalledWhole
  BY DEF JobsInv, WholeCopies, BinInv, InstalledWhole
<1>2. QED
  BY <1>1, JobsInvInit, JobsInvStep, PTL DEF Spec

\* bitcoind runs what bitcoin.conf says whenever no change of it is under way,
\* also after one that it refused at the helper's look (install.sh:433-447), unless a
\* value that the helper rejects or a power cut has left the file half edited; it is
\* down with it only if it refused it later.
THEOREM NodeAlwaysSurvives == Spec => []NodeSurvives
<1>1. JobsInv => NodeSurvives
  BY DEF JobsInv, AInv, Place, ConfWhole, Runs, NodeSurvives
<1>2. QED
  BY <1>1, JobsInvInit, JobsInvStep, PTL DEF Spec

\* Only the command's own steps end it.
LEMMA EndsInExec ==
  ASSUME JobsInv, [Next]_vars, helper.pc = "exec", helper'.pc = "mark"
  PROVE  Exec
<1>1. helper' # helper /\ helper \in HelperType
  BY DEF JobsInv, AInv, QInv, QueueTypeOK, HelperType
<1>2. CASE Requests
  <2>1. helper' = helper
    BY <1>2 DEF Requests, PutConfig, PostService, PostOther, Queue, Start, BeginStage, ApplyBegin,
                WebOnly, queueVars
  <2>2. QED
    BY <1>1, <2>1
<1>3. CASE Staging
  <2>1. helper' = helper
    BY <1>3 DEF Staging, StageClear, StageMkdir, StageFile, StageQueue, ApplyWrite, ApplyQueue,
                Queue, Start, WebOnly, queueVars
  <2>2. QED
    BY <1>1, <2>1
<1>4. CASE Client
  <2>1. helper' = helper
    BY <1>4 DEF Client, Follow, GiveUp, RemoveMarkers, Finish
  <2>2. QED
    BY <1>1, <2>1
<1>5. CASE Loop
  BY <1>5 DEF Loop, Wake, Take, Mark, RemoveRun, Rest
<1>6. CASE DaemonRestart
  BY <1>1, <1>6 DEF DaemonRestart, Restart
<1>7. CASE MachineCut
  BY <1>7 DEF MachineCut, PowerCut, Asleep
<1>8. CASE UNCHANGED vars \/ NodeExits \/ NodeRestarts
  BY <1>1, <1>8 DEF vars, queueVars, NodeExits, NodeRestarts
<1>9. QED
  BY <1>2, <1>3, <1>4, <1>5, <1>6, <1>7, <1>8 DEF Next

\* node_config ends with all of its keys, or with the file that it found.
LEMMA ConfigEnds ==
  ASSUME JobsInv, [Next]_vars, Asked("node-config"), helper'.pc = "mark", "conf" \notin torn'
  PROVE  conf' = [k \in Keys |-> IF helper'.ok /\ k \in DOMAIN Req.set
                                 THEN Req.set[k] ELSE before[k]]
<1>1. Exec /\ helper \in HelperType /\ helper # helper'
  BY EndsInExec DEF Asked, JobsInv, AInv, QInv, QueueTypeOK, HelperType
<1>2. ~Service /\ ~SelfUpdate /\ ~Other
  <2>1. ~ServiceEnd
    BY DEF JobsInv, AInv, Place, ServiceKinds, Asked, ServiceEnd
  <2>2. ~SelfUpdate /\ ~Other
    BY DEF Asked, SelfUpdate, UpdateBegin, UpdateWrite, UpdateRm, UpdateRestart, UpdateReturn,
           Other
  <2>3. QED
    BY <2>1, <2>2 DEF Asked, Service, ServiceCheck, ServiceGlob, ServiceCopied, ServiceCopy,
           ServiceTruncate, ServiceWrite, ServiceInstalled, ServiceStart, ServiceCtl,
           ServiceRemove, ServiceFind
<1>3. conf = [k \in Keys |-> conf[k]] /\ before = [k \in Keys |-> before[k]]
  BY DEF JobsInv, Edits
<1>4. CASE \E k \in Keys : ConfigReject(k)
  <2>1. conf' = conf /\ helper'.ok = FALSE /\ conf = before
    BY <1>1, <1>4 DEF ConfigReject, Return, HelperType
  <2>2. QED
    BY <1>3, <2>1
<1>5. CASE ConfigKeep
  <2>1. conf' = conf /\ helper'.ok = TRUE /\ at = "settled" /\ "conf" \notin torn
    BY <1>1, <1>5 DEF ConfigKeep, Return, HelperType
  <2>2. \A k \in Keys : conf[k] = IF k \in DOMAIN Req.set THEN Req.set[k] ELSE before[k]
    BY <2>1 DEF JobsInv, Edits
  <2>3. QED
    BY <1>3, <2>1, <2>2
<1>6. CASE ConfigReboot
  <2>1. conf' = conf /\ helper'.ok = FALSE /\ at = "reboot" /\ torn' = torn
    BY <1>1, <1>6 DEF ConfigReboot, Return, HelperType
  <2>2. conf = before
    BY <2>1 DEF JobsInv, AInv, ConfWhole
  <2>3. QED
    BY <1>3, <2>1, <2>2
<1>7. NodeConfig => \/ (\E k \in Keys : ConfigReject(k)) \/ ConfigKeep \/ ConfigReboot
  BY <1>1 DEF NodeConfig, ConfigBegin, ConfigEdit, ConfigRestart, ConfigRestore, queueVars
<1>8. QED
  BY <1>1, <1>2, <1>4, <1>5, <1>6, <1>7 DEF Exec

\* service_install succeeds only with all units of the service in place.
LEMMA InstallEnds ==
  ASSUME JobsInv, [Next]_vars, Asked("service-install"), helper'.pc = "mark", helper'.ok,
         helper.cur \notin spoiled, NEW u \in Units[Req.svc]
  PROVE  unit'[u] = meant[helper.cur] \/ u \in torn'
<1>1. Exec /\ helper \in HelperType /\ helper # helper'
  BY EndsInExec DEF Asked, JobsInv, AInv, QInv, QueueTypeOK, HelperType
<1>2. /\ ~NodeConfig /\ ~SelfUpdate /\ ~Other /\ ~ServiceFind
      /\ \A w \in AllUnits : ~ServiceCtl(w) /\ ~ServiceRemove(w)
  BY DEF Asked, NodeConfig, ConfigBegin, ConfigEdit, ConfigReject, ConfigRestart, ConfigKeep,
         ConfigRestore, ConfigReboot, SelfUpdate, UpdateBegin, UpdateWrite, UpdateRm,
         UpdateRestart, UpdateReturn, Other, ServiceCtl, ServiceRemove, ServiceFind
<1>3. ~Fails
  BY <1>1 DEF Fails, Return, HelperType
<1>4. ServiceEnd
  BY <1>1, <1>2, <1>3 DEF Exec, Service, ServiceCheck, ServiceGlob, ServiceCopied, ServiceCopy,
         ServiceTruncate, ServiceWrite, ServiceInstalled, ServiceStart, Systemctl, queueVars
<1>5. unit' = unit /\ torn' = torn /\ at = "each" /\ Req.kind = "service-install"
  BY <1>4 DEF ServiceEnd, Asked, Req
<1>6. Placed(u)
  BY <1>5 DEF JobsInv, Copying
<1>7. QED
  BY <1>5, <1>6 DEF Placed

\* A command applies what it was asked for, all of it, or nothing: a change of
\* bitcoin.conf that is rolled back leaves no key behind, and an installation
\* that is reported as done has each unit of the service in the version that
\* was staged for that job, except one whose write failed.
THEOREM JobsApplyWhole == Spec => JobsWhole
<1>1. JobsInv /\ [Next]_vars =>
        [ Asked("node-config") /\ helper'.pc = "mark" /\ "conf" \notin torn' =>
            conf' = [k \in Keys |-> IF helper'.ok /\ k \in DOMAIN Req.set
                                    THEN Req.set[k] ELSE before[k]] ]_vars
  BY ConfigEnds
<1>2. JobsInv /\ [Next]_vars =>
        [ Asked("service-install") /\ helper'.pc = "mark" /\ helper'.ok
          /\ helper.cur \notin spoiled =>
            \A u \in Units[Req.svc] : unit'[u] = meant[helper.cur] \/ u \in torn' ]_vars
  BY InstallEnds
<1>3. Spec => AllOrNothing
  BY <1>1, JobsInvInit, JobsInvStep, PTL DEF Spec, AllOrNothing
<1>4. Spec => WholeService
  BY <1>2, JobsInvInit, JobsInvStep, PTL DEF Spec, WholeService
<1>5. QED
  BY <1>3, <1>4 DEF JobsWhole
=============================================================================
