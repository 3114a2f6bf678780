---------------------------- MODULE StagedRollout ----------------------------
(***************************************************************************)
(* What a firmware rollout promises, without its locks, its status record   *)
(* and its waits: the comment that opens internal/fleet/firmware.go.  One   *)
(* rollout is active at a time; its canary is uploaded to first; a further  *)
(* miner is touched only while every touched one is trusted, that is, was   *)
(* seen to come back and hash; success needs all targets trusted.           *)
(***************************************************************************)
CONSTANTS Hosts, NoHost

VARIABLES phase,    \* "idle", "active" or "over"
          targets, canary,
          touched,  \* targets an image was sent to
          trusted,  \* touched targets that came back and hash
          success

stagedVars == <<phase, targets, canary, touched, trusted, success>>

Init ==
    /\ phase = "idle"
    /\ targets = {} /\ canary = NoHost
    /\ touched = {} /\ trusted = {}
    /\ success = FALSE

Begin ==
    /\ phase # "active"
    /\ phase' = "active"
    /\ targets' \in SUBSET Hosts
    /\ canary' \in targets'
    /\ touched' = {} /\ trusted' = {}
    /\ success' = FALSE

Touch(h) ==
    /\ phase = "active"
    /\ touched = {} => h = canary
    /\ touched \subseteq trusted
    /\ touched' = touched \union {h}
    /\ UNCHANGED <<phase, targets, canary, trusted, success>>

Trust(h) ==
    /\ phase = "active"
    /\ h \in touched
    /\ trusted' = trusted \union {h}
    /\ UNCHANGED <<phase, targets, canary, touched, success>>

Succeed ==
    /\ phase = "active"
    /\ trusted = targets
    /\ success' = TRUE
    /\ UNCHANGED <<phase, targets, canary, touched, trusted>>

Finish ==
    /\ phase = "active"
    /\ phase' = "over"
    /\ UNCHANGED <<targets, canary, touched, trusted, success>>

\* The daemon restarts and forgets the rollout.
Forget ==
    /\ phase' = "idle"
    /\ targets' = {} /\ canary' = NoHost
    /\ touched' = {} /\ trusted' = {}
    /\ success' = FALSE

Next ==
    \/ Begin \/ Succeed \/ Finish \/ Forget
    \/ \E h \in targets : Touch(h) \/ Trust(h)

Spec == Init /\ [][Next]_stagedVars

-----------------------------------------------------------------------------
\* At most one miner runs an image nobody has seen hash: what "a bad image
\* costs one miner, not the fleet" means for the miners of one rollout.
Exposure == \A g, h \in touched \ trusted : g = h

\* A rollout that reports success touched and trusts each of its targets.
SuccessIsTotal == success => trusted = targets /\ touched = targets
=============================================================================
