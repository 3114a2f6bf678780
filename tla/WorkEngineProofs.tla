-------------------------- MODULE WorkEngineProofs --------------------------
(***************************************************************************)
(* What WorkEngine keeps for any number of handlers, processes, payouts and *)
(* pools: proofs by induction on the steps, one step per action.            *)
(***************************************************************************)
EXTENDS WorkEngine, TLAPS

-----------------------------------------------------------------------------
(* Types *)

LEMMA SettingsExist == (CHOOSE s \in Settings : TRUE) \in Settings
<1>1. PICK p \in Payouts : TRUE
  BY EngineAssumption
<1>2. [enabled |-> TRUE, auto |-> TRUE, payout |-> p] \in Settings
  BY DEF Settings
<1>3. QED
  BY <1>2

LEMMA IdleType == Idle \in ThreadType
  BY SettingsExist DEF Idle, ThreadType

LEMMA NewEngineType ==
  ASSUME NEW s \in Settings
  PROVE  NewEngine(s) \in EngineType
  BY DEF NewEngine, EngineType, States

LEMMA AwaitType ==
  [Idle EXCEPT !.pc = "to_engine"] \in ThreadType
  /\ [Idle EXCEPT !.pc = "to_external"] \in ThreadType
  BY IdleType DEF ThreadType

LEMMA VerdictsType ==
  ASSUME eng \in EngineType, NEW e \in Verdicts
  PROVE  e \in EngineType
<1>1. CASE th[Tick].healthy
  <2>1. PICK b \in {0, eng.backoff} :
          e = [eng EXCEPT !.state = "running", !.healthyAt = TRUE, !.backoff = b]
    BY <1>1 DEF Verdicts
  <2>2. b \in Nat
    BY DEF EngineType
  <2>3. QED
    BY <2>1, <2>2 DEF EngineType, States
<1>2. CASE ~th[Tick].healthy
  <2>1. PICK st \in {"starting", eng.state} :
          e = [eng EXCEPT !.healthyAt = FALSE, !.state = st]
    BY <1>2 DEF Verdicts
  <2>2. QED
    BY <2>1 DEF EngineType, States
<1>3. QED
  BY <1>1, <1>2

LEMMA UpdatedType ==
  ASSUME eng \in EngineType, NEW s \in Settings
  PROVE  Updated(s) \in EngineType
<1> DEFINE e == [eng EXCEPT !.settings = s, !.autoDone = @ /\ ~NewCycle(s)]
<1>1. e \in EngineType
  BY DEF EngineType, NewCycle
<1>2. [e EXCEPT !.cmd = NoProc, !.holdOff = FALSE, !.backoff = 0] \in EngineType
  BY <1>1 DEF EngineType
<1>3. QED
  BY <1>1, <1>2 DEF Updated

LEMMA BackoffType ==
  ASSUME eng \in EngineType
  PROVE  NextBackoff \in Nat
  BY EngineAssumption DEF NextBackoff, EngineType

LEMMA TypeInit == Init => TypeOK
<1> SUFFICES ASSUME Init PROVE TypeOK
  OBVIOUS
<1>1. work \in Settings
  BY DEF Init
<1>2. eng \in EngineType
  BY <1>1, NewEngineType DEF Init
<1>3. mines \in [Slots -> Payouts]
  BY <1>1 DEF Init, Settings
<1>4. th \in [Threads -> ThreadType]
  BY IdleType DEF Init
<1>5. QED
  BY <1>1, <1>2, <1>3, <1>4 DEF Init, TypeOK, Pools

LEMMA TypeNext == TypeOK /\ [Next]_vars => TypeOK'
<1> SUFFICES ASSUME TypeOK, [Next]_vars PROVE TypeOK'
  OBVIOUS
<1> USE DEF TypeOK, fleet, outside, world
<1>1. CASE TickDisabled
  <2>1. eng' \in EngineType
    BY <1>1 DEF TickDisabled, Stopped, StopCmd, EngineType, States
  <2>2. QED
    BY <1>1, <2>1 DEF TickDisabled, Stopped, StopCmd, TickBegins
<1>2. CASE TickNotReady
  <2>1. eng' \in EngineType
    BY <1>2 DEF TickNotReady, Stopped, StopCmd, EngineType, States
  <2>2. QED
    BY <1>2, <2>1 DEF TickNotReady, Stopped, StopCmd, TickBegins
<1>3. CASE TickBackoff
  <2>1. eng' \in EngineType
    BY <1>3 DEF TickBackoff, MayStart, EngineType, States
  <2>2. QED
    BY <1>3, <2>1 DEF TickBackoff, MayStart, TickBegins
<1>4. CASE TickStartFails
  <2>1. eng' \in EngineType
    BY <1>4 DEF TickStartFails, MayStart, EngineType, States
  <2>2. QED
    BY <1>4, <2>1 DEF TickStartFails, MayStart, TickBegins
<1>5. CASE TickStart
  <2> Tick \in Threads /\ th[Tick] \in ThreadType
    BY DEF Threads
  <2>1. eng' \in EngineType
    BY <1>5, ZenonT(40) DEF TickStart, MayStart, Probe, EngineType, States
  <2>2. th' \in [Threads -> ThreadType]
    BY <1>5, IdleType, ZenonT(40) DEF TickStart, MayStart, Probe, ThreadType, Idle, EngineType, Settings
  <2>3. QED
    BY <1>5, <2>1, <2>2 DEF TickStart, MayStart, Probe, EngineType, Settings, TickBegins
<1>6. CASE TickProbe
  <2> Tick \in Threads /\ th[Tick] \in ThreadType
    BY DEF Threads
  <2>1. th' \in [Threads -> ThreadType]
    BY <1>6, IdleType, ZenonT(40) DEF TickProbe, Probe, ThreadType, Idle, EngineType, Settings
  <2>2. QED
    BY <1>6, <2>1 DEF TickProbe, Probe, TickBegins
<1>7. CASE TickDial
  <2> Tick \in Threads /\ th[Tick] \in ThreadType
    BY DEF Threads
  <2>1. th' \in [Threads -> ThreadType]
    <3>1. PICK up \in BOOLEAN :
            th' = [th EXCEPT ![Tick].healthy = up, ![Tick].pc = "verdict"]
      BY <1>7 DEF TickDial
    <3>2. QED
      BY <3>1 DEF ThreadType
  <2>2. QED
    BY <1>7, <2>1 DEF TickDial
<1>8. CASE TickVerdict
  <2> Tick \in Threads /\ th[Tick] \in ThreadType
    BY DEF Threads
  <2>1. eng' \in EngineType
    <3>1. PICK e \in Verdicts, doAuto \in BOOLEAN :
            eng' = [e EXCEPT !.autoDone = @ \/ doAuto]
      BY <1>8, VerdictsType DEF TickVerdict, EngineType, ThreadType
    <3>2. e \in EngineType
      BY VerdictsType
    <3>3. QED
      BY <3>1, <3>2 DEF EngineType
  <2>2. th' \in [Threads -> ThreadType]
    <3>1. PICK doAuto \in BOOLEAN :
            th' = [th EXCEPT ![Tick] = [Idle EXCEPT !.pc = "pool",
                                                    !.flag = doAuto]]
      BY <1>8, VerdictsType DEF TickVerdict, EngineType, ThreadType
    <3>2. [Idle EXCEPT !.pc = "pool", !.flag = doAuto] \in ThreadType
      BY IdleType DEF ThreadType
    <3>3. QED
      BY <3>1, <3>2
  <2>3. QED
    BY <1>8, <2>1, <2>2 DEF TickVerdict
<1>9. CASE TickReadPool
  <2> Tick \in Threads /\ th[Tick] \in ThreadType
    BY DEF Threads
  <2>1. th' \in [Threads -> ThreadType]
    BY <1>9 DEF TickReadPool, ThreadType
  <2>2. QED
    BY <1>9, <2>1 DEF TickReadPool
<1>10. CASE TickDropSwitched
  <2> Tick \in Threads /\ th[Tick] \in ThreadType
    BY DEF Threads
  <2>1. eng' \in EngineType
    BY <1>10 DEF TickDropSwitched, Return, EngineType, States
  <2>2. th' \in [Threads -> ThreadType]
    BY <1>10, IdleType, AwaitType DEF TickDropSwitched, Return
  <2>3. QED
    BY <1>10, <2>1, <2>2 DEF TickDropSwitched, Return
<1>11. ASSUME NEW t \in Threads, SwitchRefused(t) PROVE TypeOK'
  <2> th[t] \in ThreadType
    OBVIOUS
  <2>1. th' \in [Threads -> ThreadType]
    BY <1>11, IdleType DEF SwitchRefused, Return, ThreadType
  <2>2. QED
    BY <1>11, <2>1 DEF SwitchRefused, Return
<1>12. ASSUME NEW t \in Threads, SwitchAccepted(t) PROVE TypeOK'
  <2> th[t] \in ThreadType
    OBVIOUS
  <2>1. th' \in [Threads -> ThreadType]
    BY <1>12 DEF SwitchAccepted, ThreadType
  <2>2. QED
    BY <1>12, <2>1 DEF SwitchAccepted
<1>13. ASSUME NEW t \in Threads, SwitchReadsPool(t) PROVE TypeOK'
  <2> th[t] \in ThreadType
    OBVIOUS
  <2>1. th' \in [Threads -> ThreadType]
    BY <1>13 DEF SwitchReadsPool, ThreadType
  <2>2. QED
    BY <1>13, <2>1 DEF SwitchReadsPool
<1>14. ASSUME NEW t \in Threads, SwitchSetsFlag(t) PROVE TypeOK'
  <2> th[t] \in ThreadType
    OBVIOUS
  <2>1. eng' \in EngineType
    BY <1>14 DEF SwitchSetsFlag, Return, Goto, EngineType, States
  <2>2. th' \in [Threads -> ThreadType]
    BY <1>14, IdleType DEF SwitchSetsFlag, Return, Goto, ThreadType
  <2>3. QED
    BY <1>14, <2>1, <2>2 DEF SwitchSetsFlag, Return, Goto
<1>15. ASSUME NEW t \in Threads, SwitchRemembers(t) PROVE TypeOK'
  <2> th[t] \in ThreadType
    OBVIOUS
  <2>1. th' \in [Threads -> ThreadType]
    BY <1>15 DEF SwitchRemembers, Goto, ThreadType
  <2>2. QED
    BY <1>15, <2>1 DEF SwitchRemembers, Goto, ThreadType
<1>16. ASSUME NEW t \in Threads, SwitchSetsPool(t) PROVE TypeOK'
  <2> th[t] \in ThreadType
    OBVIOUS
  <2>1. th' \in [Threads -> ThreadType]
    BY <1>16, IdleType DEF SwitchSetsPool, Return, ThreadType
  <2>2. QED
    BY <1>16, <2>1 DEF SwitchSetsPool, Return, ThreadType, Pools
<1>17. ASSUME NEW t \in Handlers, UpdateApplies(t) PROVE TypeOK'
  <2> t \in Threads /\ th[t] \in ThreadType
    BY DEF Threads
  <2>1. eng' \in EngineType
    BY <1>17, UpdatedType DEF UpdateApplies
  <2>2. th' \in [Threads -> ThreadType]
    <3>1. PICK s \in Settings, restore \in BOOLEAN :
            th' = [th EXCEPT ![t].pc = "save", ![t].asked = s, ![t].flag = restore]
      BY <1>17 DEF UpdateApplies, EngineType, Settings
    <3>2. QED
      BY <3>1 DEF ThreadType
  <2>3. QED
    BY <1>17, <2>1, <2>2 DEF UpdateApplies, StopCmd, RequestBegins
<1>18. ASSUME NEW t \in Handlers, AskSwitch(t) PROVE TypeOK'
  <2> t \in Threads /\ th[t] \in ThreadType
    BY DEF Threads
  <2>1. th' \in [Threads -> ThreadType]
    BY <1>18 DEF AskSwitch, Goto, ThreadType
  <2>2. QED
    BY <1>18, <2>1 DEF AskSwitch, Goto, RequestBegins
<1>19. ASSUME NEW t \in Handlers, PutPool(t) PROVE TypeOK'
  BY <1>19 DEF PutPool, RequestBegins
<1>20. ASSUME NEW t \in Handlers, UpdateSaves(t) PROVE TypeOK'
  <2> t \in Threads /\ th[t] \in ThreadType
    BY DEF Threads
  <2>1. th' \in [Threads -> ThreadType]
    BY <1>20, IdleType, AwaitType DEF UpdateSaves, Return
  <2>2. QED
    BY <1>20, <2>1 DEF UpdateSaves, Return, ThreadType
<1>21. ASSUME NEW t \in Handlers, UpdateSaveFails(t) PROVE TypeOK'
  <2> t \in Threads /\ th[t] \in ThreadType
    BY DEF Threads
  <2>1. th' \in [Threads -> ThreadType]
    BY <1>21, IdleType DEF UpdateSaveFails, Return, ThreadType
  <2>2. QED
    BY <1>21, <2>1 DEF UpdateSaveFails, Return, ThreadType
<1>22. ASSUME NEW t \in Handlers, RestoreReads(t) PROVE TypeOK'
  <2> t \in Threads /\ th[t] \in ThreadType
    BY DEF Threads
  <2>1. th' \in [Threads -> ThreadType]
    BY <1>22, IdleType DEF RestoreReads, Return, ThreadType
  <2>2. QED
    BY <1>22, <2>1 DEF RestoreReads, Return
<1>23. ASSUME NEW t \in Handlers, RestoreUnflags(t) PROVE TypeOK'
  <2> t \in Threads /\ th[t] \in ThreadType
    BY DEF Threads
  <2>1. eng' \in EngineType
    BY <1>23 DEF RestoreUnflags, Goto, EngineType, States
  <2>2. th' \in [Threads -> ThreadType]
    BY <1>23 DEF RestoreUnflags, Goto, ThreadType
  <2>3. QED
    BY <1>23, <2>1, <2>2 DEF RestoreUnflags, Goto
<1>24. ASSUME NEW t \in Handlers, RestoreSetsPool(t) PROVE TypeOK'
  <2> t \in Threads /\ th[t] \in ThreadType
    BY DEF Threads
  <2>1. th' \in [Threads -> ThreadType]
    BY <1>24, IdleType DEF RestoreSetsPool, Return, ThreadType
  <2>2. QED
    BY <1>24, <2>1 DEF RestoreSetsPool, Return, ThreadType
<1>25. ASSUME NEW i \in Slots, ProcessExits(i) PROVE TypeOK'
  BY <1>25 DEF ProcessExits
<1>26. ASSUME NEW i \in Slots, Reap(i) PROVE TypeOK'
  <2>1. eng' \in EngineType
    BY <1>26, BackoffType DEF Reap, EngineType
  <2>2. QED
    BY <1>26, <2>1 DEF Reap
<1>27. CASE HoldOffEnds
  <2>1. eng' \in EngineType
    BY <1>27 DEF HoldOffEnds, EngineType, States
  <2>2. QED
    BY <1>27, <2>1 DEF HoldOffEnds
<1>28. CASE NodeChanges
  BY <1>28 DEF NodeChanges
<1>29. CASE HostChanges
  BY <1>29 DEF HostChanges
<1>30. CASE DaemonRestart
  <2>1. eng' \in EngineType
    BY <1>30, NewEngineType DEF DaemonRestart
  <2>2. th' \in [Threads -> ThreadType]
    BY <1>30, IdleType DEF DaemonRestart, ThreadType
  <2>3. QED
    BY <1>30, <2>1, <2>2 DEF DaemonRestart
<1>31. CASE UNCHANGED vars
  BY <1>31 DEF vars
<1>32. QED
  BY <1>1, <1>2, <1>3, <1>4, <1>5, <1>6, <1>7, <1>8, <1>9, <1>10, <1>11,
     <1>12, <1>13, <1>14, <1>15, <1>16, <1>17, <1>18, <1>19, <1>20, <1>21,
     <1>22, <1>23, <1>24, <1>25, <1>26, <1>27, <1>28, <1>29, <1>30, <1>31
     DEF Next, TickStep, SwitchStep, RestoreStep, Request

\* Every variable keeps its type.
THEOREM TypeCorrect == Spec => []TypeOK
  BY TypeInit, TypeNext, PTL DEF Spec

-----------------------------------------------------------------------------
(* Processes *)

\* What a step that neither starts, stops nor reaps a process leaves.
Quiet ==
    /\ UNCHANGED <<proc, mines>>
    /\ eng'.cmd = eng.cmd /\ eng'.settings = eng.settings
    /\ eng'.backoff \in {eng.backoff, 0}

LEMMA VerdictsQuiet ==
  ASSUME eng \in EngineType, NEW e \in Verdicts
  PROVE  /\ e.cmd = eng.cmd /\ e.settings = eng.settings
         /\ e.backoff \in {eng.backoff, 0} /\ e \in EngineType
<1>1. CASE th[Tick].healthy
  <2>1. PICK b \in {0, eng.backoff} :
          e = [eng EXCEPT !.state = "running", !.healthyAt = TRUE,
                          !.backoff = b]
    BY <1>1 DEF Verdicts
  <2>2. QED
    BY <2>1, VerdictsType DEF EngineType
<1>2. CASE ~th[Tick].healthy
  <2>1. PICK st \in {"starting", eng.state} :
          e = [eng EXCEPT !.healthyAt = FALSE, !.state = st]
    BY <1>2 DEF Verdicts
  <2>2. QED
    BY <2>1, VerdictsType DEF EngineType
<1>3. QED
  BY <1>1, <1>2

LEMMA ProcessSteps ==
  ASSUME eng \in EngineType, [Next]_vars
  PROVE  \/ TickDisabled \/ TickNotReady \/ TickStart \/ DaemonRestart \/ Quiet
         \/ \E t \in Handlers : UpdateApplies(t)
         \/ \E i \in Slots : ProcessExits(i) \/ Reap(i)
<1>1. ASSUME TickBackoff PROVE Quiet
  BY <1>1 DEF TickBackoff, Quiet, EngineType, MayStart
<1>2. ASSUME TickStartFails PROVE Quiet
  BY <1>2 DEF TickStartFails, Quiet, EngineType, MayStart
<1>3. ASSUME TickProbe PROVE Quiet
  BY <1>3 DEF TickProbe, Quiet, EngineType
<1>4. ASSUME TickDial PROVE Quiet
  BY <1>4 DEF TickDial, Quiet, EngineType
<1>5. ASSUME TickVerdict PROVE Quiet
  <2>1. PICK e \in Verdicts, doAuto \in BOOLEAN :
          eng' = [e EXCEPT !.autoDone = @ \/ doAuto]
    BY <1>5, VerdictsType DEF TickVerdict, EngineType, ThreadType
  <2>2. QED
    BY <1>5, <2>1, VerdictsQuiet DEF TickVerdict, Quiet, EngineType
<1>6. ASSUME TickReadPool PROVE Quiet
  BY <1>6 DEF TickReadPool, Quiet, EngineType
<1>7. ASSUME TickDropSwitched PROVE Quiet
  BY <1>7 DEF TickDropSwitched, Quiet, EngineType
<1>8. ASSUME NEW t \in Threads, SwitchRefused(t) PROVE Quiet
  BY <1>8 DEF SwitchRefused, Quiet, EngineType
<1>9. ASSUME NEW t \in Threads, SwitchAccepted(t) PROVE Quiet
  BY <1>9 DEF SwitchAccepted, Quiet, EngineType
<1>10. ASSUME NEW t \in Threads, SwitchReadsPool(t) PROVE Quiet
  BY <1>10 DEF SwitchReadsPool, Quiet, EngineType
<1>11. ASSUME NEW t \in Threads, SwitchSetsFlag(t) PROVE Quiet
  BY <1>11 DEF SwitchSetsFlag, Quiet, EngineType
<1>12. ASSUME NEW t \in Threads, SwitchRemembers(t) PROVE Quiet
  BY <1>12 DEF SwitchRemembers, Quiet, EngineType
<1>13. ASSUME NEW t \in Threads, SwitchSetsPool(t) PROVE Quiet
  BY <1>13 DEF SwitchSetsPool, Quiet, EngineType
<1>14. ASSUME NEW t \in Handlers, AskSwitch(t) PROVE Quiet
  BY <1>14 DEF AskSwitch, Quiet, EngineType
<1>15. ASSUME NEW t \in Handlers, PutPool(t) PROVE Quiet
  BY <1>15 DEF PutPool, Quiet, EngineType
<1>16. ASSUME NEW t \in Handlers, UpdateSaves(t) PROVE Quiet
  BY <1>16 DEF UpdateSaves, Quiet, EngineType
<1>17. ASSUME NEW t \in Handlers, UpdateSaveFails(t) PROVE Quiet
  BY <1>17 DEF UpdateSaveFails, Quiet, EngineType
<1>18. ASSUME NEW t \in Handlers, RestoreReads(t) PROVE Quiet
  BY <1>18 DEF RestoreReads, Quiet, EngineType
<1>19. ASSUME NEW t \in Handlers, RestoreUnflags(t) PROVE Quiet
  BY <1>19 DEF RestoreUnflags, Quiet, EngineType
<1>20. ASSUME NEW t \in Handlers, RestoreSetsPool(t) PROVE Quiet
  BY <1>20 DEF RestoreSetsPool, Quiet, EngineType
<1>21. ASSUME HoldOffEnds PROVE Quiet
  BY <1>21 DEF HoldOffEnds, Quiet, EngineType
<1>22. ASSUME NodeChanges PROVE Quiet
  BY <1>22 DEF NodeChanges, Quiet, EngineType
<1>23. ASSUME HostChanges PROVE Quiet
  BY <1>23 DEF HostChanges, Quiet, EngineType
<1>24. ASSUME UNCHANGED vars PROVE Quiet
  BY <1>24 DEF vars, Quiet
<1>25. QED
  BY <1>1, <1>2, <1>3, <1>4, <1>5, <1>6, <1>7, <1>8, <1>9, <1>10, <1>11,
     <1>12, <1>13, <1>14, <1>15, <1>16, <1>17, <1>18, <1>19, <1>20, <1>21,
     <1>22, <1>23, <1>24
     DEF Next, TickStep, SwitchStep, RestoreStep, Request

\* The two facts about the processes, which hold up each other.
OwnedInv == NoOrphan /\ PaysCurrentAddress

LEMMA OwnedInit == Init => OwnedInv
  BY EngineAssumption DEF Init, NewEngine, OwnedInv, NoOrphan, PaysCurrentAddress

LEMMA StopLeavesNone ==
  ASSUME TypeOK, NoOrphan, StopCmd
  PROVE  \A i \in Slots : proc'[i] # "up"
  BY DEF TypeOK, NoOrphan, StopCmd

LEMMA OwnedNext == TypeOK /\ OwnedInv /\ [Next]_vars => OwnedInv'
<1> SUFFICES ASSUME TypeOK, OwnedInv, [Next]_vars PROVE OwnedInv'
  OBVIOUS
<1> USE EngineAssumption DEF OwnedInv, NoOrphan, PaysCurrentAddress
<1>1. CASE TickDisabled \/ TickNotReady
  BY <1>1, StopLeavesNone DEF TickDisabled, TickNotReady, Stopped, TypeOK,
     EngineType
<1>2. CASE TickStart
  BY <1>2 DEF TickStart, MayStart, TypeOK, EngineType
<1>3. CASE DaemonRestart
  BY <1>3 DEF DaemonRestart, NewEngine
<1>4. CASE Quiet
  BY <1>4 DEF Quiet
<1>5. ASSUME NEW t \in Handlers, UpdateApplies(t) PROVE OwnedInv'
  <2>1. PICK s \in Settings :
          /\ eng' = Updated(s)
          /\ IF eng'.cmd = eng.cmd THEN UNCHANGED proc ELSE StopCmd
    BY <1>5 DEF UpdateApplies
  <2>2. /\ eng'.cmd \in {eng.cmd, NoProc} /\ eng'.settings = s
        /\ eng'.cmd # NoProc => s.payout = eng.settings.payout
    BY <2>1 DEF Updated, TypeOK, EngineType
  <2>3. mines' = mines
    BY <1>5 DEF UpdateApplies
  <2>4. CASE eng'.cmd = eng.cmd
    BY <2>1, <2>2, <2>3, <2>4 DEF TypeOK
  <2>5. CASE eng'.cmd # eng.cmd
    BY <2>1, <2>2, <2>5, StopLeavesNone
  <2>6. QED
    BY <2>4, <2>5
<1>6. ASSUME NEW i \in Slots, ProcessExits(i) PROVE OwnedInv'
  BY <1>6 DEF ProcessExits, TypeOK
<1>7. ASSUME NEW i \in Slots, Reap(i) PROVE OwnedInv'
  BY <1>7 DEF Reap, TypeOK, EngineType
<1>8. QED
  BY <1>1, <1>2, <1>3, <1>4, <1>5, <1>6, <1>7, ProcessSteps DEF TypeOK

\* Every gateway that is to keep running is the one the engine owns.
THEOREM ProcessOwned == Spec => []NoOrphan
<1>1. TypeOK /\ OwnedInv /\ [Next]_vars => (TypeOK /\ OwnedInv)'
  BY TypeNext, OwnedNext
<1>2. OwnedInv => NoOrphan
  BY DEF OwnedInv
<1>3. QED
  BY <1>1, <1>2, TypeInit, OwnedInit, PTL DEF Spec

\* Every gateway that is to keep running pays the payout of the settings in force.
THEOREM PaysCurrent == Spec => []PaysCurrentAddress
<1>1. TypeOK /\ OwnedInv /\ [Next]_vars => (TypeOK /\ OwnedInv)'
  BY TypeNext, OwnedNext
<1>2. OwnedInv => PaysCurrentAddress
  BY DEF OwnedInv
<1>3. QED
  BY <1>1, <1>2, TypeInit, OwnedInit, PTL DEF Spec

LEMMA BackoffNext == TypeOK /\ BackoffBounded /\ [Next]_vars => BackoffBounded'
<1> SUFFICES ASSUME TypeOK, BackoffBounded, [Next]_vars PROVE BackoffBounded'
  OBVIOUS
<1> USE EngineAssumption DEF BackoffBounded
<1>1. eng \in EngineType /\ eng.backoff \in Nat
  BY DEF TypeOK, EngineType
<1>2. NextBackoff < 2 * BackoffMax
  BY <1>1 DEF NextBackoff
<1>3. CASE TickDisabled \/ TickNotReady \/ TickStart
  BY <1>1, <1>3 DEF TickDisabled, TickNotReady, TickStart, MayStart, Stopped,
     EngineType
<1>4. CASE DaemonRestart
  BY <1>4 DEF DaemonRestart, NewEngine
<1>5. CASE Quiet
  BY <1>1, <1>5 DEF Quiet
<1>6. ASSUME NEW t \in Handlers, UpdateApplies(t) PROVE BackoffBounded'
  <2>1. PICK s \in Settings : eng' = Updated(s)
    BY <1>6 DEF UpdateApplies
  <2>2. eng'.backoff \in {eng.backoff, 0}
    BY <1>1, <2>1 DEF Updated, EngineType
  <2>3. QED
    BY <1>1, <2>2
<1>7. ASSUME NEW i \in Slots, ProcessExits(i) PROVE BackoffBounded'
  BY <1>7 DEF ProcessExits
<1>8. ASSUME NEW i \in Slots, Reap(i) PROVE BackoffBounded'
  BY <1>1, <1>2, <1>8 DEF Reap, EngineType
<1>9. QED
  BY <1>1, <1>3, <1>4, <1>5, <1>6, <1>7, <1>8, ProcessSteps

\* However often the gateway crashes, the backoff stays below twice its cap.
THEOREM BackoffStays == Spec => []BackoffBounded
<1>1. Init => BackoffBounded
  BY EngineAssumption DEF Init, NewEngine, BackoffBounded
<1>2. TypeOK /\ BackoffBounded /\ [Next]_vars => (TypeOK /\ BackoffBounded)'
  BY TypeNext, BackoffNext
<1>3. QED
  BY <1>1, <1>2, TypeInit, PTL DEF Spec

-----------------------------------------------------------------------------
(* The remembered pool *)

\* A pool about to be remembered is not the engine's address.
ExtInv ==
    /\ ExtNotEngine
    /\ \A t \in Threads :
        At(t, "remember") => host = NoPool \/ th[t].cur # host

LEMMA ExtInit == Init => ExtInv
  BY DEF Init, Idle, ExtInv, ExtNotEngine, At

LEMMA ExtNext ==
  ASSUME ~HostMoves
  PROVE  TypeOK /\ ExtInv /\ [Next]_vars => ExtInv'
<1> SUFFICES ASSUME TypeOK, ExtInv, [Next]_vars PROVE ExtInv'
  OBVIOUS
<1>0. th \in [Threads -> ThreadType]
  BY DEF TypeOK
<1> USE <1>0 DEF ExtInv, ExtNotEngine, At, fleet, outside, world
<1>1. CASE TickDisabled
  BY <1>1 DEF TickDisabled
<1>2. CASE TickNotReady
  BY <1>2 DEF TickNotReady
<1>3. CASE TickBackoff
  BY <1>3 DEF TickBackoff, MayStart
<1>4. CASE TickStartFails
  BY <1>4 DEF TickStartFails, MayStart
<1>5. CASE TickStart
  BY <1>5 DEF TickStart, Probe, Idle, ThreadType
<1>6. CASE TickProbe
  BY <1>6 DEF TickProbe, Probe, Idle, ThreadType
<1>7. CASE TickDial
  BY <1>7 DEF TickDial, ThreadType
<1>8. CASE TickVerdict
  BY <1>8 DEF TickVerdict, Idle, ThreadType
<1>9. CASE TickReadPool
  BY <1>9 DEF TickReadPool, ThreadType
<1>10. CASE TickDropSwitched
  BY <1>10 DEF TickDropSwitched, Return, Idle, ThreadType
<1>11. ASSUME NEW t \in Threads, SwitchRefused(t) PROVE ExtInv'
  BY <1>11 DEF SwitchRefused, Return, Idle, ThreadType
<1>12. ASSUME NEW t \in Threads, SwitchAccepted(t) PROVE ExtInv'
  BY <1>12 DEF SwitchAccepted, ThreadType
<1>13. ASSUME NEW t \in Threads, SwitchReadsPool(t) PROVE ExtInv'
  BY <1>13 DEF SwitchReadsPool, ThreadType
<1>14. ASSUME NEW t \in Threads, SwitchSetsFlag(t) PROVE ExtInv'
  BY <1>14 DEF SwitchSetsFlag, Return, Idle, Goto, PointsAtEngine, ThreadType
<1>15. ASSUME NEW t \in Threads, SwitchRemembers(t) PROVE ExtInv'
  BY <1>15 DEF SwitchRemembers, Goto, ThreadType
<1>16. ASSUME NEW t \in Threads, SwitchSetsPool(t) PROVE ExtInv'
  BY <1>16 DEF SwitchSetsPool, Return, Idle, ThreadType
<1>17. ASSUME NEW t \in Handlers, UpdateApplies(t) PROVE ExtInv'
  BY <1>17 DEF UpdateApplies, ThreadType
<1>18. ASSUME NEW t \in Handlers, AskSwitch(t) PROVE ExtInv'
  BY <1>18 DEF AskSwitch, Goto, ThreadType
<1>19. ASSUME NEW t \in Handlers, PutPool(t) PROVE ExtInv'
  BY <1>19 DEF PutPool, ThreadType
<1>20. ASSUME NEW t \in Handlers, UpdateSaves(t) PROVE ExtInv'
  BY <1>20 DEF UpdateSaves, Return, Idle, ThreadType
<1>21. ASSUME NEW t \in Handlers, UpdateSaveFails(t) PROVE ExtInv'
  BY <1>21 DEF UpdateSaveFails, Return, Idle, ThreadType
<1>22. ASSUME NEW t \in Handlers, RestoreReads(t) PROVE ExtInv'
  BY <1>22 DEF RestoreReads, Return, Idle, ThreadType
<1>23. ASSUME NEW t \in Handlers, RestoreUnflags(t) PROVE ExtInv'
  BY <1>23 DEF RestoreUnflags, Goto, ThreadType
<1>24. ASSUME NEW t \in Handlers, RestoreSetsPool(t) PROVE ExtInv'
  BY <1>24 DEF RestoreSetsPool, Return, Idle, ThreadType
<1>25. ASSUME NEW i \in Slots, ProcessExits(i) PROVE ExtInv'
  BY <1>25 DEF ProcessExits
<1>26. ASSUME NEW i \in Slots, Reap(i) PROVE ExtInv'
  BY <1>26 DEF Reap
<1>27. CASE HoldOffEnds
  BY <1>27 DEF HoldOffEnds
<1>28. CASE NodeChanges
  BY <1>28 DEF NodeChanges
<1>29. CASE HostChanges
  BY <1>29 DEF HostChanges
<1>30. CASE DaemonRestart
  BY <1>30 DEF DaemonRestart, Idle
<1>31. CASE UNCHANGED vars
  BY <1>31 DEF vars
<1>32. QED
  BY <1>1, <1>2, <1>3, <1>4, <1>5, <1>6, <1>7, <1>8, <1>9, <1>10, <1>11,
     <1>12, <1>13, <1>14, <1>15, <1>16, <1>17, <1>18, <1>19, <1>20, <1>21,
     <1>22, <1>23, <1>24, <1>25, <1>26, <1>27, <1>28, <1>29, <1>30, <1>31
     DEF Next, TickStep, SwitchStep, RestoreStep, Request

\* While the machine keeps its address, "switch back" never remembers the engine.
THEOREM ExternalStaysExternal ==
  ASSUME ~HostMoves
  PROVE  Spec => []ExtNotEngine
<1>1. TypeOK /\ ExtInv /\ [Next]_vars => (TypeOK /\ ExtInv)'
  BY TypeNext, ExtNext
<1>2. ExtInv => ExtNotEngine
  BY DEF ExtInv
<1>3. QED
  BY <1>1, <1>2, TypeInit, ExtInit, PTL DEF Spec

-----------------------------------------------------------------------------
(* Requests one at a time: switching back *)

\* At most one thread is inside a request or a tick.
SerialInv == \A t, u \in Threads : ~At(t, "idle") /\ ~At(u, "idle") => t = u

\* What the thread that is inside may rely on.
PathOf(t) ==
    /\ th[t].pc \in {"drop", "flag", "remember"} => th[t].cur = pool
    /\ th[t].pc \in {"read", "flag", "remember", "set_engine"} =>
          th[t].to = host /\ host # NoPool
    /\ th[t].pc \in {"remember", "set_engine"} => eng.switched /\ ~PointsAtEngine(pool)
    /\ th[t].pc = "set_engine" => pool = NoPool \/ ext = pool
    /\ th[t].pc \in {"unflag", "set_external"} => th[t].cur = ext /\ ext # NoPool
    /\ th[t].pc = "set_external" => eng.autoDone
    /\ th[t].pc \in {"dial", "verdict", "pool", "drop"} => t = Tick
    /\ th[t].pc \in {"save", "to_external", "unflag", "set_external"} => t # Tick

\* A tick is under way only while the engine is enabled; one that is to switch
\* the fleet does so in a cycle in which the user did not switch back.
TickInv ==
    /\ ~At(Tick, "idle") => eng.settings.enabled
    /\ th[Tick].pc \in {"pool", "drop"} /\ th[Tick].flag => hand # "restored"
    /\ th[Tick].pc \in {"to_engine", "read", "flag", "remember", "set_engine"} =>
          hand # "restored"

\* The history agrees with what the engine keeps.
StoryInv ==
    /\ before # NoPool => ext = before /\ PointsAtEngine(pool)
    /\ hand = "restored" => eng.autoDone

CalmInv == SerialInv /\ (\A t \in Threads : PathOf(t)) /\ TickInv /\ StoryInv

LEMMA CalmInit == Init => CalmInv
<1> SUFFICES ASSUME Init PROVE CalmInv
  OBVIOUS
<1>1. /\ \A t \in Threads : th[t].pc = "idle"
      /\ before = NoPool /\ hand = "no" /\ Tick \in Threads
  BY DEF Init, Idle, Threads
<1>2. ~PointsAtEngine(pool)
  BY EngineAssumption DEF Init, PointsAtEngine
<1>3. QED
  BY <1>1, <1>2 DEF CalmInv, SerialInv, PathOf, TickInv, StoryInv, At

\* A step of the one thread that is inside, or of one that goes inside alone.
LEMMA OneMoves ==
  ASSUME SerialInv, NEW t \in Threads,
         ~At(t, "idle") \/ \A u \in Threads : At(u, "idle"),
         \A u \in Threads \ {t} : th'[u] = th[u],
         PathOf(t)', t = Tick => TickInv', StoryInv'
  PROVE  CalmInv'
<1>1. \A u \in Threads \ {t} : th'[u].pc = "idle"
  BY DEF SerialInv, At
<1>2. SerialInv'
  BY <1>1 DEF SerialInv, At
<1>3. \A u \in Threads \ {t} : PathOf(u)'
  BY <1>1 DEF PathOf
<1>4. t # Tick => TickInv'
  BY <1>1 DEF TickInv, At, Threads
<1>5. QED
  BY <1>2, <1>3, <1>4 DEF CalmInv

\* Steps that leave alone what the invariants are about.
Untouched ==
    /\ UNCHANGED <<th, pool, ext, before, hand, host>>
    /\ eng'.switched = eng.switched /\ eng'.autoDone = eng.autoDone
    /\ eng'.settings = eng.settings

LEMMA CalmUntouched ==
  ASSUME CalmInv, Untouched
  PROVE  CalmInv'
<1>1. PointsAtEngine(pool)' = PointsAtEngine(pool)
  BY DEF Untouched, PointsAtEngine
<1>2. \A t \in Threads : PathOf(t)'
  BY <1>1 DEF CalmInv, PathOf, Untouched
<1>3. SerialInv' /\ TickInv' /\ StoryInv'
  BY <1>1 DEF CalmInv, SerialInv, TickInv, StoryInv, Untouched, At
<1>4. QED
  BY <1>2, <1>3 DEF CalmInv

\* The steps that change what the invariants are about, if it stays quiet.
LEMMA CalmSteps ==
  ASSUME TypeOK, [Next]_vars, quiet'
  PROVE  \/ Untouched
         \/ TickStart \/ TickProbe \/ TickDial \/ TickVerdict \/ TickReadPool \/ TickDropSwitched
         \/ \E t \in Threads : SwitchStep(t)
         \/ \E t \in Handlers : Request(t) \/ UpdateSaves(t) \/ UpdateSaveFails(t)
                                 \/ RestoreStep(t)
<1> USE DEF Untouched, fleet, outside, world, TypeOK, EngineType
<1>1. ASSUME TickDisabled \/ TickNotReady PROVE Untouched
  BY <1>1 DEF TickDisabled, TickNotReady, Stopped
<1>2. ASSUME TickBackoff \/ TickStartFails PROVE Untouched
  BY <1>2 DEF TickBackoff, TickStartFails
<1>3. ASSUME NEW i \in Slots, ProcessExits(i) PROVE Untouched
  BY <1>3 DEF ProcessExits
<1>4. ASSUME NEW i \in Slots, Reap(i) PROVE Untouched
  BY <1>4 DEF Reap
<1>5. ASSUME HoldOffEnds \/ NodeChanges PROVE Untouched
  BY <1>5 DEF HoldOffEnds, NodeChanges
<1>6. ASSUME UNCHANGED vars PROVE Untouched
  BY <1>6 DEF vars
<1>7. QED
  BY <1>1, <1>2, <1>3, <1>4, <1>5, <1>6 DEF Next, TickStep, HostChanges, DaemonRestart

LEMMA VerdictsKeep ==
  ASSUME eng \in EngineType, NEW e \in Verdicts
  PROVE  e.switched = eng.switched /\ e.autoDone = eng.autoDone /\ e.settings = eng.settings
<1>1. CASE th[Tick].healthy
  <2>1. PICK b \in {0, eng.backoff} :
          e = [eng EXCEPT !.state = "running", !.healthyAt = TRUE, !.backoff = b]
    BY <1>1 DEF Verdicts
  <2>2. QED
    BY <2>1 DEF EngineType
<1>2. CASE ~th[Tick].healthy
  <2>1. PICK st \in {"starting", eng.state} :
          e = [eng EXCEPT !.healthyAt = FALSE, !.state = st]
    BY <1>2 DEF Verdicts
  <2>2. QED
    BY <2>1 DEF EngineType
<1>3. QED
  BY <1>1, <1>2

\* What a tick does between its first critical section and its last one.
LEMMA CalmTick ==
  ASSUME TypeOK, CalmInv, quiet',
         TickStart \/ TickProbe \/ TickDial \/ TickVerdict \/ TickReadPool \/ TickDropSwitched
  PROVE  CalmInv'
<1>1. /\ Tick \in Threads /\ th \in [Threads -> ThreadType]
      /\ SerialInv /\ PathOf(Tick) /\ TickInv /\ StoryInv
  BY DEF TypeOK, CalmInv, Threads
<1>2. /\ \A u \in Threads \ {Tick} : th'[u] = th[u]
      /\ UNCHANGED <<pool, ext, before, hand, host>>
      /\ PointsAtEngine(pool)' = PointsAtEngine(pool)
  BY <1>1 DEF TickStart, TickProbe, TickDial, TickVerdict, TickReadPool, TickDropSwitched,
     Probe, Return, fleet, outside, world, PointsAtEngine
<1>3. CASE TickStart \/ TickProbe
  <2>1. \A u \in Threads : At(u, "idle")
    BY <1>3 DEF TickStart, TickProbe, MayStart, TickBegins, Threads
  <2>2. /\ eng.settings.enabled /\ eng'.settings = eng.settings
        /\ eng'.switched = eng.switched /\ eng'.autoDone = eng.autoDone
    BY <1>3 DEF TickStart, TickProbe, MayStart, TypeOK, EngineType
  <2>3. th'[Tick].pc = "dial"
    <3>1. PICK was \in BOOLEAN : Probe(was)
      BY <1>3 DEF TickStart, TickProbe
    <3>2. th'[Tick] = [Idle EXCEPT !.pc = "dial", !.flag = was, !.auto = eng.settings.auto]
      BY <1>1, <3>1 DEF Probe
    <3>3. QED
      BY <3>2 DEF Idle
  <2>4. PathOf(Tick)' /\ TickInv' /\ StoryInv'
    BY <1>1, <1>2, <2>2, <2>3 DEF PathOf, TickInv, StoryInv, At
  <2>5. QED
    BY <1>1, <1>2, <2>1, <2>4, OneMoves
<1>4. CASE TickDial
  <2>1. ~At(Tick, "idle") /\ th'[Tick].pc = "verdict" /\ UNCHANGED eng
    <3>1. PICK up \in BOOLEAN :
            th' = [th EXCEPT ![Tick].healthy = up, ![Tick].pc = "verdict"]
      BY <1>4 DEF TickDial
    <3>2. th[Tick] \in ThreadType
      BY <1>1
    <3>3. th'[Tick].pc = "verdict"
      BY <1>1, <3>1, <3>2 DEF ThreadType
    <3>4. QED
      BY <1>4, <3>3 DEF TickDial, At
  <2>2. PathOf(Tick)' /\ TickInv' /\ StoryInv'
    BY <1>1, <1>2, <2>1 DEF PathOf, TickInv, StoryInv, At
  <2>3. QED
    BY <1>1, <1>2, <2>1, <2>2, OneMoves
<1>5. CASE TickVerdict
  <2>1. PICK e \in Verdicts :
          LET doAuto == /\ e.state = "running" /\ th[Tick].auto
                        /\ ~e.switched /\ ~e.autoDone
          IN  /\ eng' = [e EXCEPT !.autoDone = @ \/ doAuto]
              /\ th' = [th EXCEPT ![Tick] = [Idle EXCEPT !.pc = "pool", !.flag = doAuto]]
    BY <1>5 DEF TickVerdict
  <2>2. /\ e.switched = eng.switched /\ e.autoDone = eng.autoDone
        /\ e.settings = eng.settings /\ e \in EngineType
    BY VerdictsKeep, VerdictsType DEF TypeOK
  <2>3. /\ eng'.switched = eng.switched /\ eng'.settings = eng.settings
        /\ eng.autoDone => eng'.autoDone
    BY <2>1, <2>2 DEF EngineType
  <2>4. th'[Tick].pc = "pool" /\ (th'[Tick].flag => ~eng.autoDone) /\ ~At(Tick, "idle")
    BY <1>1, <1>5, <2>1, <2>2 DEF Idle, TickVerdict, At
  <2>5. PathOf(Tick)' /\ TickInv' /\ StoryInv'
    BY <1>1, <1>2, <2>3, <2>4 DEF PathOf, TickInv, StoryInv, At
  <2>6. QED
    BY <1>1, <1>2, <2>4, <2>5, OneMoves
<1>6. CASE TickReadPool
  <2>1. /\ At(Tick, "pool") /\ ~At(Tick, "idle") /\ UNCHANGED eng
        /\ th'[Tick].pc = "drop" /\ th'[Tick].cur = pool /\ th'[Tick].flag = th[Tick].flag
    BY <1>1, <1>6 DEF TickReadPool, At, ThreadType
  <2>2. PathOf(Tick)' /\ TickInv' /\ StoryInv'
    BY <1>1, <1>2, <2>1 DEF PathOf, TickInv, StoryInv, At
  <2>3. QED
    BY <1>1, <1>2, <2>1, <2>2, OneMoves
<1>7. CASE TickDropSwitched
  <2>1. /\ At(Tick, "drop") /\ ~At(Tick, "idle")
        /\ eng'.autoDone = eng.autoDone /\ eng'.settings = eng.settings
    BY <1>7 DEF TickDropSwitched, At, TypeOK, EngineType
  <2>2. th'[Tick].pc = IF th[Tick].flag THEN "to_engine" ELSE "idle"
    BY <1>1, <1>7 DEF TickDropSwitched, Return, Idle
  <2>3. PathOf(Tick)' /\ TickInv' /\ StoryInv'
    BY <1>1, <1>2, <2>1, <2>2 DEF PathOf, TickInv, StoryInv, At
  <2>4. QED
    BY <1>1, <1>2, <2>1, <2>3, OneMoves
<1>8. QED
  BY <1>3, <1>4, <1>5, <1>6, <1>7

LEMMA CalmSwitch ==
  ASSUME TypeOK, CalmInv, NEW t \in Threads, SwitchStep(t)
  PROVE  CalmInv'
<1>1. /\ Tick \in Threads /\ th \in [Threads -> ThreadType] /\ eng \in EngineType
      /\ SerialInv /\ PathOf(t) /\ TickInv /\ StoryInv
  BY DEF TypeOK, CalmInv, Threads
<1>2. ~At(t, "idle") /\ \A u \in Threads \ {t} : th'[u] = th[u]
  BY <1>1 DEF SwitchStep, SwitchRefused, SwitchAccepted, SwitchReadsPool, SwitchSetsFlag,
     SwitchRemembers, SwitchSetsPool, Return, Goto, At
<1>3. UNCHANGED host
  BY DEF SwitchStep, SwitchRefused, SwitchAccepted, SwitchReadsPool, SwitchSetsFlag,
     SwitchRemembers, SwitchSetsPool, outside, world
<1>4. /\ eng'.autoDone = eng.autoDone /\ eng'.settings = eng.settings
      /\ eng'.switched = eng.switched \/ eng'.switched
  BY <1>1 DEF SwitchStep, SwitchRefused, SwitchAccepted, SwitchReadsPool, SwitchSetsFlag,
     SwitchRemembers, SwitchSetsPool, EngineType
<1>5. CASE SwitchRefused(t)
  <2>1. th'[t].pc = "idle" /\ UNCHANGED <<pool, ext, before, hand>>
    BY <1>1, <1>5 DEF SwitchRefused, Return, Idle, fleet
  <2>2. PathOf(t)' /\ (t = Tick => TickInv') /\ StoryInv'
    BY <1>1, <1>3, <1>4, <2>1 DEF PathOf, TickInv, StoryInv, At, PointsAtEngine
  <2>3. QED
    BY <1>1, <1>2, <2>2, OneMoves
<1>6. CASE SwitchAccepted(t)
  <2>1. /\ th[t].pc = "to_engine" /\ th'[t].pc = "read" /\ th'[t].to = host /\ host # NoPool
        /\ UNCHANGED <<pool, ext, before, hand>>
    BY <1>1, <1>6 DEF SwitchAccepted, fleet, At, ThreadType
  <2>2. PathOf(t)' /\ (t = Tick => TickInv') /\ StoryInv'
    BY <1>1, <1>3, <1>4, <2>1 DEF PathOf, TickInv, StoryInv, At, PointsAtEngine
  <2>3. QED
    BY <1>1, <1>2, <2>2, OneMoves
<1>7. CASE SwitchReadsPool(t)
  <2>1. /\ th[t].pc = "read" /\ th'[t].pc = "flag" /\ th'[t].to = th[t].to /\ th'[t].cur = pool
        /\ UNCHANGED <<pool, ext, before, hand>>
    BY <1>1, <1>7 DEF SwitchReadsPool, fleet, At, ThreadType
  <2>2. PathOf(t)' /\ (t = Tick => TickInv') /\ StoryInv'
    BY <1>1, <1>3, <1>4, <2>1 DEF PathOf, TickInv, StoryInv, At, PointsAtEngine
  <2>3. QED
    BY <1>1, <1>2, <2>2, OneMoves
<1>8. CASE SwitchSetsFlag(t)
  <2>1. /\ th[t].pc = "flag" /\ eng'.switched /\ UNCHANGED <<pool, ext, before, hand>>
    BY <1>1, <1>8 DEF SwitchSetsFlag, fleet, At, EngineType
  <2>2. \/ th'[t].pc = "idle"
        \/ /\ th'[t].pc = "remember" /\ th'[t].to = th[t].to /\ th'[t].cur = th[t].cur
           /\ ~PointsAtEngine(pool)
    BY <1>1, <1>8, <2>1 DEF SwitchSetsFlag, Return, Goto, Idle, ThreadType, PathOf
  <2>3. PathOf(t)' /\ (t = Tick => TickInv') /\ StoryInv'
    BY <1>1, <1>3, <1>4, <2>1, <2>2 DEF PathOf, TickInv, StoryInv, At, PointsAtEngine
  <2>4. QED
    BY <1>1, <1>2, <2>3, OneMoves
<1>9. CASE SwitchRemembers(t)
  <2>1. /\ th[t].pc = "remember" /\ th'[t].pc = "set_engine" /\ th'[t].to = th[t].to
        /\ UNCHANGED <<pool, before, hand, eng>>
        /\ ext' = IF th[t].cur # NoPool THEN th[t].cur ELSE ext
    BY <1>1, <1>9 DEF SwitchRemembers, Goto, fleet, At, ThreadType
  <2>2. before = NoPool
    BY <1>1, <2>1 DEF PathOf, StoryInv
  <2>3. PathOf(t)' /\ (t = Tick => TickInv') /\ StoryInv'
    BY <1>1, <1>3, <1>4, <2>1, <2>2 DEF PathOf, TickInv, StoryInv, At, PointsAtEngine
  <2>4. QED
    BY <1>1, <1>2, <2>3, OneMoves
<1>10. CASE SwitchSetsPool(t)
  <2>1. /\ th[t].pc = "set_engine" /\ th'[t].pc = "idle" /\ pool' = th[t].to
        /\ UNCHANGED <<ext, eng>>
        /\ before' = IF pool = pool' THEN before ELSE pool
        /\ hand' # "restored" \/ hand' = hand
    BY <1>1, <1>10 DEF SwitchSetsPool, Return, Idle, At
  <2>2. pool' = host /\ host # NoPool /\ before = NoPool /\ (pool = NoPool \/ ext = pool)
    BY <1>1, <2>1 DEF PathOf, StoryInv
  <2>3. PathOf(t)' /\ (t = Tick => TickInv') /\ StoryInv'
    BY <1>1, <1>3, <1>4, <2>1, <2>2 DEF PathOf, TickInv, StoryInv, At, PointsAtEngine
  <2>4. QED
    BY <1>1, <1>2, <2>3, OneMoves
<1>11. QED
  BY <1>5, <1>6, <1>7, <1>8, <1>9, <1>10 DEF SwitchStep

LEMMA UpdatedIs ==
  ASSUME eng \in EngineType, NEW s \in Settings
  PROVE  /\ Updated(s).settings = s /\ Updated(s).switched = eng.switched
         /\ Updated(s).autoDone = (eng.autoDone /\ ~NewCycle(s))
<1> DEFINE done == eng.autoDone /\ ~NewCycle(s)
           e == [eng EXCEPT !.settings = s, !.autoDone = @ /\ ~NewCycle(s)]
<1>1. e = [eng EXCEPT !.settings = s, !.autoDone = done]
  OBVIOUS
<1>2. done \in BOOLEAN
  BY DEF EngineType, NewCycle
<1> HIDE DEF done
<1>3. e \in EngineType /\ e.settings = s /\ e.switched = eng.switched /\ e.autoDone = done
  BY <1>1, <1>2 DEF EngineType
<1>4. Updated(s) \in {e, [e EXCEPT !.cmd = NoProc, !.holdOff = FALSE, !.backoff = 0]}
  BY DEF Updated
<1> HIDE DEF e
<1>5. QED
  BY <1>3, <1>4 DEF done, EngineType

\* What a handler's request does, between one critical section and the next.
LEMMA CalmHandler ==
  ASSUME TypeOK, CalmInv, quiet', NEW t \in Handlers,
         Request(t) \/ UpdateSaves(t) \/ UpdateSaveFails(t) \/ RestoreStep(t)
  PROVE  CalmInv'
<1>1. /\ t \in Threads /\ t # Tick /\ Tick \in Threads
      /\ th \in [Threads -> ThreadType] /\ eng \in EngineType
      /\ SerialInv /\ PathOf(t) /\ TickInv /\ StoryInv
  BY EngineAssumption DEF TypeOK, CalmInv, Threads
<1>2. ~At(t, "idle") \/ \A u \in Threads : At(u, "idle")
  BY DEF Request, RequestBegins, UpdateApplies, AskSwitch, PutPool, UpdateSaves,
     UpdateSaveFails, RestoreStep, RestoreReads, RestoreUnflags, RestoreSetsPool, At
<1>3. \A u \in Threads \ {t} : th'[u] = th[u]
  BY <1>1 DEF Request, UpdateApplies, AskSwitch, PutPool, UpdateSaves,
     UpdateSaveFails, RestoreStep, RestoreReads, RestoreUnflags, RestoreSetsPool, Return, Goto
<1>4. UNCHANGED host
  BY DEF Request, UpdateApplies, AskSwitch, PutPool, UpdateSaves,
     UpdateSaveFails, RestoreStep, RestoreReads, RestoreUnflags, RestoreSetsPool, outside, world
<1>5. SUFFICES PathOf(t)' /\ StoryInv'
  BY <1>1, <1>2, <1>3, OneMoves
<1>6. CASE UpdateApplies(t)
  <2>1. PICK s \in Settings :
          /\ eng' = Updated(s)
          /\ hand' = IF NewCycle(s) /\ hand # "on" THEN "no" ELSE hand
          /\ th' = [th EXCEPT ![t].pc = "save", ![t].asked = s,
                              ![t].flag = ~s.enabled /\ eng.switched]
    BY <1>6 DEF UpdateApplies
  <2>2. UNCHANGED <<pool, before, ext>> /\ th'[t].pc = "save"
    BY <1>1, <1>6, <2>1 DEF UpdateApplies, ThreadType
  <2>3. /\ eng'.autoDone = (eng.autoDone /\ ~NewCycle(s)) /\ eng'.switched = eng.switched
    BY <1>1, <2>1, UpdatedIs
  <2>4. PathOf(t)'
    BY <1>1, <2>2 DEF PathOf
  <2>5. hand' = "restored" => eng'.autoDone
    BY <1>1, <2>1, <2>3 DEF StoryInv
  <2>6. QED
    BY <1>1, <1>4, <2>2, <2>4, <2>5 DEF StoryInv, PointsAtEngine
<1>7. CASE AskSwitch(t)
  <2>1. /\ UNCHANGED <<pool, before, ext, hand, eng>>
        /\ th'[t].pc \in {"to_engine", "to_external"}
    BY <1>1, <1>7 DEF AskSwitch, Goto, fleet, ThreadType
  <2>2. QED
    BY <1>1, <1>4, <2>1 DEF PathOf, StoryInv, PointsAtEngine
<1>8. CASE PutPool(t)
  <2>1. /\ UNCHANGED <<ext, eng, th>> /\ before' = NoPool
        /\ hand' = "restored" => hand = "restored"
        /\ th[t].pc = "idle"
    BY <1>8 DEF PutPool, RequestBegins, At
  <2>2. QED
    BY <1>1, <2>1 DEF PathOf, StoryInv
<1>9. CASE UpdateSaves(t) \/ UpdateSaveFails(t)
  <2>1. /\ UNCHANGED <<pool, before, ext, hand, eng>>
        /\ th'[t].pc \in {"idle", "to_external"}
    BY <1>1, <1>9 DEF UpdateSaves, UpdateSaveFails, Return, Idle, fleet
  <2>2. QED
    BY <1>1, <1>4, <2>1 DEF PathOf, StoryInv, PointsAtEngine
<1>10. CASE RestoreReads(t)
  <2>1. /\ UNCHANGED <<pool, before, ext, hand, eng>>
        /\ \/ th'[t].pc = "idle"
           \/ th'[t].pc = "unflag" /\ th'[t].cur = ext /\ ext # NoPool
    BY <1>1, <1>10 DEF RestoreReads, Return, Idle, fleet, ThreadType
  <2>2. QED
    BY <1>1, <1>4, <2>1 DEF PathOf, StoryInv, PointsAtEngine
<1>11. CASE RestoreUnflags(t)
  <2>1. /\ UNCHANGED <<pool, before, ext, hand>> /\ th[t].pc = "unflag"
        /\ eng'.autoDone /\ th'[t].pc = "set_external" /\ th'[t].cur = th[t].cur
    BY <1>1, <1>11 DEF RestoreUnflags, Goto, fleet, ThreadType, EngineType, At
  <2>2. QED
    BY <1>1, <1>4, <2>1 DEF PathOf, StoryInv, PointsAtEngine
<1>12. CASE RestoreSetsPool(t)
  <2>1. /\ UNCHANGED <<ext, eng>> /\ th[t].pc = "set_external"
        /\ before' = NoPool /\ th'[t].pc = "idle"
    BY <1>1, <1>12 DEF RestoreSetsPool, Return, Idle, At
  <2>2. QED
    BY <1>1, <2>1 DEF PathOf, StoryInv
<1>13. QED
  BY <1>6, <1>7, <1>8, <1>9, <1>10, <1>11, <1>12 DEF Request, RestoreStep

\* What was not quiet does not become so.
LEMMA QuietBefore == ASSUME TypeOK, [Next]_vars, quiet' PROVE quiet
<1> USE DEF outside, world
<1>1. CASE TickStep
  BY <1>1 DEF TickStep, TickDisabled, TickNotReady, TickBackoff, TickStartFails, TickStart,
     TickProbe, TickDial, TickVerdict, TickReadPool, TickDropSwitched, MayStart, TickBegins
<1>2. CASE \E t \in Threads : SwitchStep(t)
  BY <1>2 DEF SwitchStep, SwitchRefused, SwitchAccepted, SwitchReadsPool, SwitchSetsFlag,
     SwitchRemembers, SwitchSetsPool
<1>3. CASE \E t \in Handlers : Request(t) \/ UpdateSaves(t) \/ UpdateSaveFails(t)
                               \/ RestoreStep(t)
  BY <1>3 DEF Request, RequestBegins, UpdateApplies, AskSwitch, PutPool, UpdateSaves,
     UpdateSaveFails, RestoreStep, RestoreReads, RestoreUnflags, RestoreSetsPool
<1>4. CASE HoldOffEnds \/ NodeChanges \/ HostChanges \/ DaemonRestart
  BY <1>4 DEF HoldOffEnds, NodeChanges, HostChanges, DaemonRestart
<1>5. CASE \E i \in Slots : ProcessExits(i) \/ Reap(i)
  BY <1>5 DEF ProcessExits, Reap
<1>6. CASE UNCHANGED vars
  BY <1>6 DEF vars
<1>7. QED
  BY <1>1, <1>2, <1>3, <1>4, <1>5, <1>6 DEF Next

QuietInv == quiet => CalmInv

LEMMA CalmNext == TypeOK /\ QuietInv /\ [Next]_vars => QuietInv'
<1> SUFFICES ASSUME TypeOK, QuietInv, [Next]_vars, quiet' PROVE CalmInv'
  BY DEF QuietInv
<1>1. CalmInv
  BY QuietBefore DEF QuietInv
<1>2. QED
  BY <1>1, CalmSteps, CalmUntouched, CalmTick, CalmSwitch, CalmHandler

\* As long as no request has overlapped another or a tick, and the machine's address
\* and the daemon are the same, SwitchToExternal restores the pool that
\* SwitchToEngine replaced, and the auto-switch does not take the fleet back before
\* the next enable cycle (engine.go:415, 423).
THEOREM SwitchBackSticksWhenCalm == Spec => SwitchBack
<1>1. Init => TypeOK /\ QuietInv
  BY TypeInit, CalmInit DEF QuietInv
<1>2. TypeOK /\ QuietInv /\ [Next]_vars => (TypeOK /\ QuietInv)'
  BY TypeNext, CalmNext
<1>3. TypeOK /\ QuietInv /\ [Next]_vars =>
        [\A t \in Handlers :
            quiet /\ RestoreSetsPool(t) /\ before # NoPool => pool' = before]_vars
  <2> SUFFICES ASSUME QuietInv, NEW t \in Handlers, quiet, RestoreSetsPool(t), before # NoPool
               PROVE  pool' = before
    OBVIOUS
  <2>1. PathOf(t) /\ StoryInv /\ th[t].pc = "set_external" /\ pool' = th[t].cur
    BY DEF QuietInv, CalmInv, Threads, RestoreSetsPool, At
  <2>2. QED
    BY <2>1 DEF PathOf, StoryInv
<1>4. TypeOK /\ QuietInv /\ [Next]_vars
        => [quiet /\ SwitchSetsPool(Tick) => hand # "restored"]_vars
  <2> SUFFICES ASSUME QuietInv, quiet, SwitchSetsPool(Tick) PROVE hand # "restored"
    OBVIOUS
  <2>1. TickInv /\ th[Tick].pc = "set_engine"
    BY DEF QuietInv, CalmInv, SwitchSetsPool, At
  <2>2. QED
    BY <2>1 DEF TickInv, At
<1>5. Spec => RestoresPrevious
  BY <1>1, <1>2, <1>3, PTL DEF Spec, RestoresPrevious
<1>6. Spec => SwitchBackSticks
  BY <1>1, <1>2, <1>4, PTL DEF Spec, SwitchBackSticks
<1>7. QED
  BY <1>5, <1>6 DEF SwitchBack
=============================================================================
