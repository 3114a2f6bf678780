------------------------------ MODULE AdminJobs ------------------------------
(***************************************************************************)
(* What the admin queue promises (the comments that open                    *)
(* internal/admin/admin.go and Start): jobs are carried out one at a time,  *)
(* in the order they were asked for and at most once; the verdict shown is  *)
(* the one the root helper reached, or that nodeosd gave up waiting.  A     *)
(* power cut loses the job under way, a restart of nodeosd what is shown.   *)
(***************************************************************************)
EXTENDS Naturals

CONSTANT MaxJobs

Ids == 1 .. MaxJobs

VARIABLES
    state, \* of each job: new, queued, started, done, fail or lost
    shown  \* the job the UI shows, 0 for none, and what it says of it

jobsVars == <<state, shown>>

Nothing == [id |-> 0, says |-> "none"]

Init ==
    /\ state = [i \in Ids |-> "new"]
    /\ shown = Nothing

Submit(i) ==
    /\ shown.says # "running"
    /\ state[i] = "new" /\ \A j \in 1 .. i - 1 : state[j] # "new"
    /\ state' = [state EXCEPT ![i] = "queued"]
    /\ shown' = [id |-> i, says |-> "running"]

Begin(i) ==
    /\ \A j \in Ids : state[j] # "started"
    /\ state[i] = "queued" /\ \A j \in 1 .. i - 1 : state[j] # "queued"
    /\ state' = [state EXCEPT ![i] = "started"]
    /\ UNCHANGED shown

End(i, how) ==
    /\ state[i] = "started"
    /\ state' = [state EXCEPT ![i] = how]
    /\ UNCHANGED shown

Report ==
    /\ shown.says = "running"
    /\ \E says \in {state[shown.id], "timeout"} \intersect {"done", "fail", "timeout"} :
          shown' = [id |-> shown.id, says |-> says]
    /\ UNCHANGED state

Forget == shown' = Nothing /\ UNCHANGED state

PowerCut ==
    /\ state' = [i \in Ids |-> IF state[i] = "started" THEN "lost" ELSE state[i]]
    /\ shown' = Nothing

Next ==
    \/ \E i \in Ids :
          Submit(i) \/ Begin(i) \/ \E how \in {"done", "fail"} : End(i, how)
    \/ Report \/ Forget \/ PowerCut

Spec == Init /\ [][Next]_jobsVars
=============================================================================
