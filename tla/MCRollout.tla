------------------------------ MODULE MCRollout ------------------------------
(* Rollout on small instances. *)
EXTENDS Rollout, TLC

\* The calls of StartRollout are interchangeable.
Callers == Permutations(Rollouts)

\* What the next steps and the properties of the run with overlapping rollouts
\* depend on: the message, its reason, done, ok, cur and verified are written
\* and never read, and so is sawOffline outside verifyBack.
Relevant ==
    <<status.running, status.order, status.st, cancelFn, cancelled, miner, sent,
      mistakable,
      [p \in Rollouts |->
          IF At(p, "finished") THEN run[p].image
          ELSE <<run[p].pc, run[p].devs, run[p].idx, run[p].image,
                 At(p, "verify") /\ run[p].sawOffline>>]>>
=============================================================================
