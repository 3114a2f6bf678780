---------------------------- MODULE RolloutProofs ----------------------------
(* Theorems about Rollout, for any number of rollouts, miners and entries. *)
EXTENDS Rollout, TLAPS, SequenceTheorems, FiniteSetTheorems

\* A goroutine at the head of the loop, about to upload, or uploading: its
\* uploads so far are the devices before the loop index (the current one
\* included once sent), and those that are over were verified.
GateAt(p) ==
    /\ run[p].pc \in {"idle", "download"} \union Starting => sent[p] = <<>>
    /\ run[p].pc = "loop" /\ p \notin cancelled =>
          /\ run[p].idx = Len(sent[p]) + 1
          /\ \A j \in 1..Len(sent[p]) : sent[p][j] \in verified[p]
    /\ run[p].pc = "send" =>
          /\ run[p].idx = Len(sent[p]) + 1
          /\ run[p].idx <= Len(run[p].devs)
          /\ \A j \in 1..Len(sent[p]) : sent[p][j] \in verified[p]
    /\ run[p].pc \in {"ota", "verify"} => run[p].idx = Len(sent[p])

\* The inductive invariant behind TypeOK and CanaryGate.
GateInv == TypeOK /\ CanaryGate /\ \A p \in Rollouts : GateAt(p)

LEMMA SelectionsAreSeqs == ASSUME NEW s \in Selections PROVE s \in Seq(Hosts)
  <1>1. PICK n \in 1..MaxDevices : s \in [1..n -> Hosts]
    BY DEF Selections
  <1>2. n \in Nat
    BY <1>1, RolloutAssumption
  <1>3. QED BY <1>1, <1>2, SeqDef

\* setDevice keeps the type of the status.
LEMMA WithDeviceType ==
    ASSUME TypeOK, NEW h, NEW s \in DeviceStates
    PROVE  WithDevice(h, s) \in StatusType
  BY DEF TypeOK, StatusType, WithDevice

\* A new message keeps it too, and a jump keeps the type of the goroutines.
LEMMA MessageType ==
    ASSUME NEW s \in StatusType, NEW m \in Messages
    PROVE  [s EXCEPT !.message = m] \in StatusType
  BY DEF StatusType

LEMMA IndexGrows ==
    ASSUME TypeOK, NEW p \in Rollouts PROVE run[p].idx + 1 \in Nat \ {0}
  BY DEF TypeOK, RunType

LEMMA NextIndexType ==
    ASSUME NEW r \in [Rollouts -> RunType], NEW p \in Rollouts, NEW n \in Nat \ {0}
    PROVE  [r EXCEPT ![p].idx = n, ![p].pc = "loop"] \in [Rollouts -> RunType]
  BY ZenonT(40) DEF RunType, Working

LEMMA EnterLoopType ==
    ASSUME NEW r \in [Rollouts -> RunType], NEW p \in Rollouts,
           NEW n \in Nat \ {0}, NEW q \in Quality, NEW d \in Seq(Hosts)
    PROVE  [r EXCEPT ![p].image = q, ![p].devs = d, ![p].idx = n,
                     ![p].pc = "loop"] \in [Rollouts -> RunType]
  <1> DEFINE new == [r[p] EXCEPT !.image = q, !.devs = d, !.idx = n, !.pc = "loop"]
  <1>1. ASSUME NEW x \in RunType
        PROVE  [x EXCEPT !.image = q, !.devs = d, !.idx = n, !.pc = "loop"] \in RunType
    BY DEF RunType, Working
  <1>2. new \in RunType
    BY <1>1
  <1>3. [r EXCEPT ![p].image = q, ![p].devs = d, ![p].idx = n, ![p].pc = "loop"]
          = [r EXCEPT ![p] = new]
    OBVIOUS
  <1> HIDE DEF new
  <1>4. QED BY <1>2, <1>3

LEMMA GotoType ==
    ASSUME TypeOK, NEW p \in Rollouts,
           NEW l \in {"idle", "finished"} \union Starting \union Working
    PROVE  [run EXCEPT ![p].pc = l] \in [Rollouts -> RunType]
  BY DEF TypeOK, RunType

LEMMA ObservedType ==
    ASSUME TypeOK, NEW p \in Rollouts, NEW b \in BOOLEAN,
           NEW l \in {"idle", "finished"} \union Starting \union Working
    PROVE  /\ [run EXCEPT ![p].sawOffline = b] \in [Rollouts -> RunType]
           /\ [run EXCEPT ![p].sawOffline = b, ![p].pc = l] \in [Rollouts -> RunType]
  <1>1. run[p] \in RunType
    BY DEF TypeOK
  <1>2. /\ [run[p] EXCEPT !.sawOffline = b] \in RunType
        /\ [run[p] EXCEPT !.sawOffline = b, !.pc = l] \in RunType
    BY <1>1 DEF RunType
  <1>3. /\ [run EXCEPT ![p].sawOffline = b]
             = [run EXCEPT ![p] = [run[p] EXCEPT !.sawOffline = b]]
        /\ [run EXCEPT ![p].sawOffline = b, ![p].pc = l]
             = [run EXCEPT ![p] = [run[p] EXCEPT !.sawOffline = b, !.pc = l]]
    BY DEF TypeOK
  <1>4. QED BY <1>2, <1>3 DEF TypeOK

LEMMA InitGate == Init => GateInv
  <1> SUFFICES ASSUME Init PROVE GateInv
    OBVIOUS
  <1>1. TypeOK
    BY RolloutAssumption
    DEF Init, TypeOK, NoStatus, StatusType, RunType, MinerType, Messages,
        DeviceStates, Quality
  <1>2. CanaryGate
    BY DEF Init, CanaryGate
  <1>3. \A p \in Rollouts : GateAt(p)
    BY DEF Init, GateAt, Starting
  <1>4. QED BY <1>1, <1>2, <1>3 DEF GateInv

\* The loop's device, whenever there is one, is a miner.
LEMMA CurrentIsHost ==
    ASSUME TypeOK, NEW p \in Rollouts, run[p].idx <= Len(run[p].devs)
    PROVE  Current(p) \in Hosts
  BY DEF TypeOK, RunType, Current

\* The device a goroutine waits for is a miner of the list.
LEMMA WorkedOn ==
    ASSUME GateInv, NEW p \in Rollouts, run[p].pc \in {"ota", "verify"}
    PROVE  run[p].idx \in 1..Len(run[p].devs) /\ Current(p) \in Hosts
  <1>1. run[p].idx = Len(sent[p]) /\ Len(sent[p]) <= Len(run[p].devs)
    BY DEF GateInv, GateAt, CanaryGate
  <1>2. run[p].idx \in Nat \ {0} /\ run[p].devs \in Seq(Hosts) /\ sent[p] \in Seq(Hosts)
    BY DEF GateInv, TypeOK, RunType
  <1>3. QED BY <1>1, <1>2 DEF Current

\* What can be mistaken are miners.
LEMMA MistakeType ==
    ASSUME TypeOK, NEW p \in Rollouts, NEW ps, Current(p) \in Hosts, Mistake(p, ps)
    PROVE  mistakable' \in [Rollouts -> SUBSET Hosts]
  BY DEF TypeOK, Mistake

\* A step that keeps the uploads, what was verified and the cancelled contexts
\* keeps the gate when it keeps every goroutine's counter, devices and index.
LEMMA GateFrame ==
    ASSUME GateInv, TypeOK', UNCHANGED <<sent, verified>>,
           cancelled \subseteq cancelled',
           \A p \in Rollouts : /\ run'[p].devs = run[p].devs
                               /\ run'[p].idx = run[p].idx
                               /\ run'[p].pc = run[p].pc
    PROVE  GateInv'
  <1>1. CanaryGate'
    BY DEF GateInv, CanaryGate
  <1>2. ASSUME NEW p \in Rollouts PROVE GateAt(p)'
    BY DEF GateInv, GateAt
  <1>3. QED BY <1>1, <1>2 DEF GateInv

\* One goroutine p moves to a place where nothing is promised about its loop
\* index, or to "checked", "installed" or "download" from before them.
LEMMA GateMove ==
    ASSUME GateInv, TypeOK', UNCHANGED <<sent, verified, cancelled>>,
           NEW p \in Rollouts,
           \A q \in Rollouts : run'[q].devs = run[q].devs,
           \A q \in Rollouts \ {p} : run'[q] = run[q],
           \/ run'[p].pc \in {"exit", "success", "finished"}
           \/ /\ run[p].pc \in {"idle"} \union Starting
              /\ run'[p].pc \in {"download"} \union Starting
    PROVE  GateInv'
  <1>1. CanaryGate'
    BY DEF GateInv, CanaryGate
  <1>2. ASSUME NEW q \in Rollouts PROVE GateAt(q)'
    <2>1. CASE q = p
      BY <2>1 DEF GateInv, GateAt, Starting
    <2>2. CASE q # p
      BY <2>2 DEF GateInv, GateAt
    <2>3. QED BY <2>1, <2>2
  <1>3. QED BY <1>1, <1>2 DEF GateInv

\* The error path of an upload or a wait.
LEMMA FailType ==
    ASSUME TypeOK, NEW p \in Rollouts,
           NEW why \in {"ota", "timeout", "cancelled"}, Fail(p, why)
    PROVE  /\ status' \in StatusType
           /\ run' = [run EXCEPT ![p].pc = "exit"]
  <1>1. WithDevice(Current(p), "failed") \in StatusType
    BY WithDeviceType DEF DeviceStates
  <1>2. QED BY <1>1 DEF Fail, Goto, StatusType, Messages

LEMMA NextGate == GateInv /\ [Next]_vars => GateInv'
  <1> SUFFICES ASSUME GateInv, [Next]_vars PROVE GateInv'
    OBVIOUS
  <1> USE DEF GateInv
  \* StartRollout
  <1>1. ASSUME NEW p \in Rollouts, CheckRunning(p) PROVE GateInv'
    <2>1. TypeOK'
      BY <1>1, GotoType DEF CheckRunning, Goto, history, TypeOK, Starting
    <2>2. QED
      BY <1>1, <2>1, GateMove DEF CheckRunning, At, Goto, history, TypeOK, RunType, Starting
  <1>2. ASSUME NEW p \in Rollouts, InstallStatus(p) PROVE GateInv'
    <2>1. PICK s \in Selections :
             status' = [NoStatus EXCEPT
               !.running = TRUE, !.message = "downloading", !.order = s,
               !.st = [h \in Hosts |-> IF h \in Listed(s) THEN "pending" ELSE "none"]]
      BY <1>2 DEF InstallStatus
    <2>2. status' \in StatusType
      BY <2>1, SelectionsAreSeqs DEF NoStatus, StatusType, Messages, DeviceStates
    <2>3. /\ run[p].pc = "checked" /\ run' = [run EXCEPT ![p].pc = "installed"]
          /\ cur' = p /\ UNCHANGED <<cancelFn, cancelled, miner, sent, verified, mistakable>>
      BY <1>2 DEF InstallStatus, At, Goto
    <2>4. TypeOK'
      BY <2>2, <2>3, GotoType DEF TypeOK, Starting
    <2>5. QED
      BY <2>3, <2>4, GateMove DEF TypeOK, RunType, Starting
  <1>3. ASSUME NEW p \in Rollouts, NoOnlineMiner(p) PROVE GateInv'
    <2>1. TypeOK'
      BY <1>3, GotoType DEF NoOnlineMiner, Goto, history, TypeOK
    <2>2. QED
      BY <1>3, <2>1, GateMove DEF NoOnlineMiner, Goto, history, TypeOK
  <1>4. ASSUME NEW p \in Rollouts, InstallCancel(p) PROVE GateInv'
    <2>1. TypeOK'
      BY <1>4, GotoType DEF InstallCancel, Goto, history, TypeOK, Working
    <2>2. QED
      BY <1>4, <2>1, GateMove DEF InstallCancel, At, Goto, history, TypeOK, RunType, Starting
  <1>5. ASSUME CancelRollout PROVE GateInv'
    <2>1. TypeOK'
      BY <1>5 DEF CancelRollout, history, TypeOK
    <2>2. QED
      BY <1>5, <2>1, GateFrame DEF CancelRollout, history
  \* runRollout
  <1>6. ASSUME NEW p \in Rollouts, DownloadOK(p) PROVE GateInv'
    <2>a. run' \in [Rollouts -> RunType]
      <3>1. PICK q \in Quality :
               run' = [run EXCEPT ![p].image = q, ![p].devs = status.order,
                                  ![p].idx = 1, ![p].pc = "loop"]
        BY <1>6 DEF DownloadOK
      <3>2. status.order \in Seq(Hosts) /\ 1 \in Nat \ {0}
        BY DEF TypeOK, StatusType
      <3>3. QED BY <3>1, <3>2, EnterLoopType DEF TypeOK
    <2>1. TypeOK'
      BY <1>6, <2>a, MessageType DEF DownloadOK, history, TypeOK, Messages
    <2>2. /\ run'[p].devs \in Seq(Hosts) /\ run'[p].pc = "loop" /\ run'[p].idx = 1
          /\ \A q \in Rollouts \ {p} : run'[q] = run[q]
          /\ sent[p] = <<>>
          /\ UNCHANGED <<sent, verified, cancelled>>
      BY <1>6 DEF DownloadOK, At, history, TypeOK, StatusType, RunType, GateAt
    <2>3. CanaryGate'
      BY <2>2 DEF CanaryGate
    <2>4. ASSUME NEW q \in Rollouts PROVE GateAt(q)'
      BY <2>2 DEF GateAt, Starting
    <2>5. QED BY <2>1, <2>3, <2>4
  <1>7. ASSUME NEW p \in Rollouts, DownloadFails(p) PROVE GateInv'
    <2>1. TypeOK'
      BY <1>7, GotoType, MessageType
      DEF DownloadFails, Goto, history, TypeOK, Working, Messages
    <2>2. QED
      <3>1. /\ UNCHANGED <<sent, verified, cancelled>>
            /\ run' = [run EXCEPT ![p].pc = "exit"]
        BY <1>7 DEF DownloadFails, Goto, history
      <3>2. QED BY <2>1, <3>1, GateMove DEF TypeOK, RunType
  <1>8. ASSUME NEW p \in Rollouts, SkipDevice(p) PROVE GateInv'
    <2>1. WithDevice(Current(p), "skipped") \in StatusType
      BY WithDeviceType DEF DeviceStates
    <2>a. run' \in [Rollouts -> RunType]
      <3>1. run' = [run EXCEPT ![p].idx = run[p].idx + 1]
        BY <1>8 DEF SkipDevice
      <3> DEFINE skipped == [run[p] EXCEPT !.idx = run[p].idx + 1]
      <3>2. run[p] \in RunType /\ run[p].idx + 1 \in Nat \ {0}
        BY IndexGrows DEF TypeOK
      <3>3. skipped \in RunType
        BY <3>2 DEF RunType
      <3>4. run' = [run EXCEPT ![p] = skipped]
        BY <3>1
      <3> HIDE DEF skipped
      <3>5. QED BY <3>3, <3>4 DEF TypeOK
    <2>2. TypeOK'
      BY <1>8, <2>1, <2>a DEF SkipDevice, history, TypeOK
    <2>3. /\ run'[p].devs = run[p].devs /\ run'[p].pc = "loop" /\ p \in cancelled
          /\ \A q \in Rollouts \ {p} : run'[q] = run[q]
          /\ UNCHANGED <<sent, verified, cancelled>>
      BY <1>8 DEF SkipDevice, InLoop, At, history, TypeOK
    <2>4. CanaryGate'
      BY <2>3 DEF CanaryGate
    <2>5. ASSUME NEW q \in Rollouts PROVE GateAt(q)'
      BY <2>3 DEF GateAt, Starting
    <2>6. QED BY <2>2, <2>4, <2>5
  <1>9. ASSUME NEW p \in Rollouts, BeginDevice(p) PROVE GateInv'
    <2>1. WithDevice(Current(p), "flashing") \in StatusType
      BY WithDeviceType DEF DeviceStates
    <2>2. TypeOK'
      BY <1>9, <2>1, GotoType DEF BeginDevice, Goto, history, TypeOK, Working
    <2>3. /\ run[p].pc = "loop" /\ p \notin cancelled
          /\ run[p].idx <= Len(run[p].devs)
          /\ run'[p].devs = run[p].devs /\ run'[p].idx = run[p].idx
          /\ run'[p].pc = "send"
          /\ \A q \in Rollouts \ {p} : run'[q] = run[q]
          /\ UNCHANGED <<sent, verified, cancelled>>
      BY <1>9 DEF BeginDevice, InLoop, At, Goto, history, TypeOK
    <2>4. CanaryGate'
      BY <2>3 DEF CanaryGate
    <2>5. ASSUME NEW q \in Rollouts PROVE GateAt(q)'
      BY <2>3 DEF GateAt, Starting
    <2>6. QED BY <2>2, <2>4, <2>5
  <1>10. ASSUME NEW p \in Rollouts, SendOTA(p) PROVE GateInv'
    <2>1. run[p].pc = "send" /\ run[p].idx <= Len(run[p].devs)
      BY <1>10 DEF SendOTA, At, GateAt
    <2>2. Current(p) \in Hosts
      BY <2>1, CurrentIsHost
    <2>a. Append(sent[p], Current(p)) \in Seq(Hosts)
      BY <2>2 DEF TypeOK
    <2>3. TypeOK'
      BY <1>10, <2>a, GotoType DEF SendOTA, Goto, TypeOK, Working
    <2>4. CanaryGate'
      BY <1>10, <2>1, <2>2 DEF SendOTA, Goto, Current, TypeOK, CanaryGate, GateAt
    <2>5. ASSUME NEW q \in Rollouts PROVE GateAt(q)'
      BY <1>10, <2>1, <2>2 DEF SendOTA, Goto, TypeOK, GateAt, Starting
    <2>6. QED BY <2>3, <2>4, <2>5
  <1>11. ASSUME NEW p \in Rollouts, SendAborted(p) PROVE GateInv'
    <2>1. /\ status' \in StatusType
          /\ run' = [run EXCEPT ![p].pc = "exit"]
      BY <1>11, FailType DEF SendAborted
    <2>2. TypeOK'
      BY <1>11, <2>1, GotoType DEF SendAborted, history, TypeOK, Working
    <2>3. QED
      <3>1. UNCHANGED <<sent, verified, cancelled>>
        BY <1>11 DEF SendAborted, history
      <3>2. QED BY <2>1, <2>2, <3>1, GateMove DEF TypeOK, RunType
  <1>12. ASSUME NEW p \in Rollouts, Stores(p)
         PROVE  miner' \in [Hosts -> MinerType]
    <2>1. run[p].image \in Quality
      BY DEF TypeOK, RunType
    <2>2. QED BY <1>12, <2>1, ZenonT(40) DEF Stores, TypeOK, MinerType
  <1>13. ASSUME NEW p \in Rollouts, OTASucceeds(p) PROVE GateInv'
    <2>1. WithDevice(Current(p), "verifying") \in StatusType
      BY WithDeviceType DEF DeviceStates
    <2>a. run' \in [Rollouts -> RunType]
      BY <1>13, ObservedType DEF OTASucceeds, Working
    <2>b. mistakable' \in [Rollouts -> SUBSET Hosts]
      BY <1>13, WorkedOn, MistakeType DEF OTASucceeds, At
    <2>2. TypeOK'
      BY <1>13, <2>1, <2>a, <2>b, <1>12 DEF OTASucceeds, TypeOK
    <2>3. /\ run[p].pc = "ota" /\ run'[p].pc = "verify"
          /\ run'[p].devs = run[p].devs /\ run'[p].idx = run[p].idx
          /\ \A q \in Rollouts \ {p} : run'[q] = run[q]
          /\ UNCHANGED <<sent, verified, cancelled>>
      BY <1>13 DEF OTASucceeds, At, TypeOK
    <2>4. CanaryGate'
      BY <2>3 DEF CanaryGate
    <2>5. ASSUME NEW q \in Rollouts PROVE GateAt(q)'
      BY <2>3 DEF GateAt, Starting
    <2>6. QED BY <2>2, <2>4, <2>5
  <1>14. ASSUME NEW p \in Rollouts, OTAFails(p) PROVE GateInv'
    <2>1. /\ status' \in StatusType
          /\ run' = [run EXCEPT ![p].pc = "exit"]
      BY <1>14, FailType DEF OTAFails
    <2>a. mistakable' \in [Rollouts -> SUBSET Hosts]
      BY <1>14, WorkedOn, MistakeType DEF OTAFails, At, TypeOK
    <2>b. miner' \in [Hosts -> MinerType]
      BY <1>14, <1>12 DEF OTAFails, TypeOK
    <2>2. TypeOK'
      BY <1>14, <2>1, <2>a, <2>b, GotoType DEF OTAFails, TypeOK, Working
    <2>3. QED
      <3>1. UNCHANGED <<sent, verified, cancelled>>
        BY <1>14 DEF OTAFails
      <3>2. QED BY <2>1, <2>2, <3>1, GateMove DEF TypeOK, RunType
  \* verifyBack
  <1>15. ASSUME NEW p \in Rollouts, PollError(p) PROVE GateInv'
    <2>a. run' \in [Rollouts -> RunType]
      BY <1>15, ObservedType DEF PollError, Working, PollDue, At
    <2>b. mistakable' \in [Rollouts -> SUBSET Hosts]
      BY <1>15, WorkedOn, MistakeType DEF PollError, PollDue, At
    <2>1. TypeOK'
      BY <1>15, <2>a, <2>b DEF PollError, TypeOK
    <2>2. QED
      BY <1>15, <2>1, GateFrame DEF PollError, TypeOK
  <1>16. ASSUME NEW p \in Rollouts, PollAccepts(p) PROVE GateInv'
    <2>1. WithDevice(Current(p), "ok") \in StatusType
      BY WithDeviceType DEF DeviceStates
    <2>2. status' \in StatusType
      BY <1>16, <2>1 DEF PollAccepts, Accept, StatusType, Messages
    <2>3. /\ run[p].pc = "verify" /\ run'[p].pc = "loop"
          /\ run'[p].devs = run[p].devs /\ run'[p].idx = run[p].idx + 1
          /\ \A q \in Rollouts \ {p} : run'[q] = run[q]
          /\ UNCHANGED <<sent, cancelled, cancelFn, miner, cur, mistakable>>
          /\ verified' = [verified EXCEPT ![p] = @ \union {Current(p)}]
      BY <1>16 DEF PollAccepts, PollDue, Accept, At, TypeOK
    <2>4. /\ run[p].idx = Len(sent[p])
          /\ Len(sent[p]) \in 1..Len(run[p].devs)
          /\ Current(p) = sent[p][run[p].idx]
      <3>1. sent[p] \in Seq(Hosts) /\ run[p].idx \in Nat \ {0} /\ run[p].devs \in Seq(Hosts)
        BY DEF TypeOK, RunType
      <3>2. run[p].idx = Len(sent[p])
        BY <2>3 DEF GateAt
      <3>3. Len(sent[p]) \in 1..Len(run[p].devs)
        BY <3>1, <3>2 DEF CanaryGate
      <3>4. sent[p][Len(sent[p])] = run[p].devs[Len(sent[p])]
        BY <3>1, <3>2, <3>3 DEF CanaryGate
      <3>5. QED BY <3>2, <3>3, <3>4 DEF Current
    <2>5. Current(p) \in Hosts
      BY <2>4, CurrentIsHost DEF TypeOK
    <2>a. run' \in [Rollouts -> RunType]
      BY <1>16, IndexGrows, NextIndexType DEF PollAccepts, Accept, TypeOK
    <2>6. TypeOK'
      BY <2>2, <2>3, <2>5, <2>a DEF TypeOK
    <2>7. CanaryGate'
      BY <2>3 DEF CanaryGate, TypeOK
    <2>8. ASSUME NEW j \in 1..Len(sent[p]) PROVE sent'[p][j] \in verified'[p]
      BY <2>3, <2>4 DEF CanaryGate, TypeOK
    <2>9. ASSUME NEW q \in Rollouts PROVE GateAt(q)'
      BY <2>3, <2>4, <2>8 DEF GateAt, Starting, TypeOK
    <2>10. QED BY <2>6, <2>7, <2>9
  <1>17. ASSUME NEW p \in Rollouts, VerifyFails(p) PROVE GateInv'
    <2>1. /\ status' \in StatusType
          /\ run' = [run EXCEPT ![p].pc = "exit"]
      BY <1>17, FailType DEF VerifyFails
    <2>2. TypeOK'
      BY <1>17, <2>1, GotoType DEF VerifyFails, history, TypeOK, Working
    <2>3. UNCHANGED <<sent, verified, cancelled>>
      BY <1>17 DEF VerifyFails, history
    <2>4. QED BY <2>1, <2>2, <2>3, GateMove DEF TypeOK, RunType
  \* The end of runRollout
  <1>18. ASSUME NEW p \in Rollouts, LoopEnds(p) PROVE GateInv'
    <2>1. PICK l \in {"exit", "success"} : run' = [run EXCEPT ![p].pc = l]
      BY <1>18 DEF LoopEnds, Goto
    <2>2. [status EXCEPT !.message = "cancelled"] \in StatusType
      BY MessageType DEF TypeOK, Messages
    <2>3. status' \in StatusType /\ UNCHANGED <<cancelFn, cancelled, miner, history>>
      BY <1>18, <2>2 DEF LoopEnds, TypeOK
    <2>4. TypeOK'
      BY <2>1, <2>3, GotoType DEF history, TypeOK, Working
    <2>5. QED
      BY <2>1, <2>3, <2>4, GateMove DEF history, TypeOK, RunType
  <1>19. ASSUME NEW p \in Rollouts, ReportSuccess(p) PROVE GateInv'
    <2>a. status' \in StatusType
      BY <1>19 DEF ReportSuccess, TypeOK, StatusType, Messages
    <2>1. TypeOK'
      BY <1>19, <2>a, GotoType DEF ReportSuccess, Goto, history, TypeOK, Working
    <2>2. /\ UNCHANGED <<sent, verified, cancelled>>
          /\ run' = [run EXCEPT ![p].pc = "exit"]
      BY <1>19 DEF ReportSuccess, Goto, history
    <2>3. QED BY <2>1, <2>2, GateMove DEF TypeOK, RunType
  <1>20. ASSUME NEW p \in Rollouts, Exit(p) PROVE GateInv'
    <2>a. status' \in StatusType
      BY <1>20 DEF Exit, TypeOK, StatusType
    <2>1. TypeOK'
      BY <1>20, <2>a, GotoType DEF Exit, Goto, history, TypeOK
    <2>2. /\ UNCHANGED <<sent, verified, cancelled>>
          /\ run' = [run EXCEPT ![p].pc = "finished"]
      BY <1>20 DEF Exit, Goto, history
    <2>3. QED BY <2>1, <2>2, GateMove DEF TypeOK, RunType
  \* The miners, the daemon's restart, and the end
  <1>21. ASSUME NEW h \in Hosts, GoDown(h) \/ Boot(h) \/ Ages(h) PROVE GateInv'
    <2>a. miner' \in [Hosts -> MinerType]
      <3>1. CASE GoDown(h)
        BY <3>1 DEF GoDown, TypeOK, MinerType
      <3>2. CASE Boot(h)
        <4>1. [miner[h] EXCEPT !.power = "up", !.runs = miner[h].boots,
                               !.fresh = TRUE] \in MinerType
          BY DEF TypeOK, MinerType
        <4>2. miner' = [miner EXCEPT ![h] =
                 [miner[h] EXCEPT !.power = "up", !.runs = miner[h].boots,
                                  !.fresh = TRUE]]
          BY <3>2 DEF Boot, TypeOK
        <4>3. QED BY <4>1, <4>2 DEF TypeOK
      <3>3. CASE Ages(h)
        BY <3>3 DEF Ages, TypeOK, MinerType
      <3>4. QED BY <1>21, <3>1, <3>2, <3>3
    <2>1. TypeOK'
      BY <1>21, <2>a DEF GoDown, Boot, Ages, history, TypeOK
    <2>2. QED
      BY <1>21, <2>1, GateFrame DEF GoDown, Boot, Ages, history
  <1>22. ASSUME DaemonRestart PROVE GateInv'
    <2>1. NoStatus \in StatusType
      BY RolloutAssumption DEF NoStatus, StatusType, Messages, DeviceStates
    <2>a. run' \in [Rollouts -> RunType]
      BY <1>22, ZenonT(40) DEF DaemonRestart, TypeOK, RunType
    <2>2. TypeOK'
      BY <1>22, <2>1, <2>a DEF DaemonRestart, TypeOK
    <2>3. /\ \A p \in Rollouts : /\ run'[p].devs = run[p].devs
                                 /\ \/ run'[p] = run[p]
                                    \/ run'[p].pc = "finished"
          /\ UNCHANGED <<sent, verified, cancelled>>
      BY <1>22 DEF DaemonRestart, TypeOK
    <2>4. CanaryGate'
      BY <2>3 DEF CanaryGate
    <2>5. ASSUME NEW p \in Rollouts PROVE GateAt(p)'
      BY <2>3 DEF GateAt, Starting
    <2>6. QED BY <2>2, <2>4, <2>5
  <1>23. CASE Terminated \/ UNCHANGED vars
    BY <1>23 DEF Terminated, vars, TypeOK, CanaryGate, GateAt
  <1>24. QED
    BY <1>1, <1>2, <1>3, <1>4, <1>5, <1>6, <1>7, <1>8, <1>9, <1>10, <1>11,
       <1>13, <1>14, <1>15, <1>16, <1>17, <1>18, <1>19, <1>20, <1>21, <1>22,
       <1>23
    DEF Next, StartRollout, runRollout, verifyBack

\* The types of the rollout structure, for every fleet and every interleaving.
THEOREM TypeCorrect == Spec => []TypeOK
  <1>1. GateInv => TypeOK
    BY DEF GateInv
  <1>2. QED BY InitGate, NextGate, <1>1, PTL DEF Spec

\* runRollout never uploads to a further device before every device it
\* uploaded to came back hashing, however many rollouts overlap, whenever a
\* cancel comes and whatever the miners do.
THEOREM CanaryFirst == Spec => []CanaryGate
  <1>1. GateInv => CanaryGate
    BY DEF GateInv
  <1>2. QED BY InitGate, NextGate, <1>1, PTL DEF Spec

-----------------------------------------------------------------------------
(* Serial callers: one rollout at a time *)

Busy(p) == run[p].pc \in Starting \union Working

\* At most one caller is past the check for a running rollout, and from the
\* moment it installed its status the check fails for the others.
SerialInv ==
    /\ \A p, q \in Rollouts : Busy(p) /\ Busy(q) => p = q
    /\ \A p \in Rollouts :
          run[p].pc \in {"installed"} \union Working => status.running /\ cur = p

\* setDevice touches the devices only.
LEMMA WithDeviceFields ==
    ASSUME TypeOK, NEW h, NEW s
    PROVE  WithDevice(h, s).running = status.running
  BY DEF TypeOK, StatusType, WithDevice

\* Up to its deferred function, a goroutine works on its own and leaves the
\* running flag and the other goroutines alone.
LEMMA GoroutineFrame ==
    ASSUME TypeOK, NEW p \in Rollouts, runRollout(p)
    PROVE  /\ run[p].pc \in Working /\ cur' = cur
           /\ \A q \in Rollouts \ {p} : run'[q] = run[q]
           /\ \/ run'[p].pc \in Working /\ status'.running = status.running
              \/ run'[p].pc = "finished"
           /\ run'[p].pc # "download"
  <1> DEFINE Goal == /\ run[p].pc \in Working /\ cur' = cur
                     /\ \A q \in Rollouts \ {p} : run'[q] = run[q]
                     /\ \/ run'[p].pc \in Working /\ status'.running = status.running
                        \/ run'[p].pc = "finished"
                     /\ run'[p].pc # "download"
  <1> USE DEF At, Goto, history, Working, TypeOK, RunType, StatusType
  <1>1. CASE DownloadOK(p)
    BY <1>1 DEF DownloadOK
  <1>2. CASE DownloadFails(p)
    BY <1>2 DEF DownloadFails
  <1>3. CASE SkipDevice(p)
    BY <1>3, WithDeviceFields DEF SkipDevice, InLoop
  <1>4. CASE BeginDevice(p)
    BY <1>4, WithDeviceFields DEF BeginDevice, InLoop
  <1>5. CASE SendOTA(p)
    BY <1>5 DEF SendOTA
  <1>6. ASSUME NEW why, Fail(p, why)
        PROVE  /\ status'.running = status.running
               /\ run' = [run EXCEPT ![p].pc = "exit"]
    BY <1>6, WithDeviceFields DEF Fail, WithDevice
  <1>7. CASE SendAborted(p)
    BY <1>7, <1>6 DEF SendAborted
  <1>8. CASE OTASucceeds(p)
    BY <1>8, WithDeviceFields DEF OTASucceeds
  <1>9. CASE OTAFails(p)
    BY <1>9, <1>6 DEF OTAFails
  <1>10. CASE PollError(p)
    BY <1>10 DEF PollError, PollDue
  <1>11. CASE PollAccepts(p)
    BY <1>11, WithDeviceFields DEF PollAccepts, PollDue, Accept, WithDevice
  <1>12. CASE VerifyFails(p)
    BY <1>12, <1>6 DEF VerifyFails
  <1>13. CASE LoopEnds(p)
    BY <1>13 DEF LoopEnds
  <1>14. CASE ReportSuccess(p)
    BY <1>14 DEF ReportSuccess
  <1>15. CASE Exit(p)
    BY <1>15 DEF Exit
  <1>16. QED
    BY <1>1, <1>2, <1>3, <1>4, <1>5, <1>7, <1>8, <1>9, <1>10, <1>11, <1>12,
       <1>13, <1>14, <1>15 DEF runRollout, verifyBack

LEMMA SerialNext ==
    ASSUME ~ConcurrentStarts
    PROVE  SerialInv /\ TypeOK /\ [Next]_vars => SerialInv'
  <1> SUFFICES ASSUME SerialInv, TypeOK, [Next]_vars PROVE SerialInv'
    OBVIOUS
  <1> USE DEF SerialInv, Busy, Starting
  <1>1. ASSUME NEW p \in Rollouts, CheckRunning(p) PROVE SerialInv'
    BY <1>1 DEF CheckRunning, At, Goto, history, TypeOK, RunType, Working
  <1>2. ASSUME NEW p \in Rollouts, InstallStatus(p) PROVE SerialInv'
    <2>1. status'.running /\ cur' = p
      BY <1>2 DEF InstallStatus, NoStatus
    <2>2. QED
      BY <1>2, <2>1 DEF InstallStatus, At, Goto, TypeOK, RunType, Working
  <1>3. ASSUME NEW p \in Rollouts, NoOnlineMiner(p) \/ InstallCancel(p)
        PROVE  SerialInv'
    <2>1. CASE NoOnlineMiner(p)
      BY <2>1 DEF NoOnlineMiner, At, Goto, history, TypeOK, RunType, Working
    <2>2. CASE InstallCancel(p)
      BY <2>2 DEF InstallCancel, At, Goto, history, TypeOK, RunType, Working
    <2>3. QED BY <1>3, <2>1, <2>2
  <1>4. ASSUME NEW p \in Rollouts, runRollout(p) PROVE SerialInv'
    BY <1>4, GoroutineFrame DEF Working
  <1>5. CASE CancelRollout \/ \E h \in Hosts : GoDown(h) \/ Boot(h) \/ Ages(h)
    BY <1>5 DEF CancelRollout, GoDown, Boot, Ages, history
  <1>6. CASE DaemonRestart
    BY <1>6 DEF DaemonRestart, At, TypeOK, RunType, Working
  <1>7. CASE Terminated \/ UNCHANGED vars
    BY <1>7 DEF Terminated, vars
  <1>8. QED
    BY <1>1, <1>2, <1>3, <1>4, <1>5, <1>6, <1>7 DEF Next, StartRollout

LEMMA SerialInit == Init => SerialInv
  BY DEF Init, SerialInv, Busy, Starting, Working

-----------------------------------------------------------------------------
(* Serial callers: what the status says *)

BeforeLoop == {"installed", "download"}
Handling   == {"send", "ota", "verify"}
InLoopPart == {"loop", "success"} \union Handling

\* p is the rollout whose status is installed: it works on the devices the
\* status lists, and says nothing final before the end.
Shown(p) ==
    /\ status.order # <<>>
    /\ run[p].pc \in {"installed", "finished"} \union Working
    /\ run[p].pc \in InLoopPart => run[p].devs = status.order
    /\ run[p].pc \in InLoopPart \union BeforeLoop =>
          ~status.ok /\ status.message # "canary_failed"
    /\ verified[p] \subseteq Listed(status.order)

\* Up to the end of the canary the other devices are untouched.
Untried(p) ==
    \/ run[p].pc \in BeforeLoop
    \/ run[p].pc \in {"loop"} \union Handling /\ run[p].idx = 1
    => \A h \in Listed(status.order) \ {status.order[1]} : status.st[h] = "pending"

\* The device in the works is the one at the loop index.
InFlight(p) ==
    \A h \in Hosts : status.st[h] \in {"flashing", "verifying"} =>
        run[p].pc \in Handling /\ h = Current(p)

\* Unless the rollout is cancelled, what lies before the loop index is done; a
\* host that is listed twice is in the works again.
Proven(p) ==
    /\ run[p].pc = "loop" /\ p \notin cancelled =>
          \A j \in 1..(run[p].idx - 1) :
              status.st[status.order[j]] = "ok" /\ status.order[j] \in verified[p]
    /\ run[p].pc \in Handling =>
          \A j \in 1..(run[p].idx - 1) :
              /\ status.order[j] \in verified[p]
              /\ status.st[status.order[j]] = "ok" \/ status.order[j] = Current(p)
    /\ run[p].pc = "success" =>
          \A h \in Listed(status.order) : status.st[h] = "ok" /\ h \in verified[p]

Untrusted ==
    \A p \in Rollouts : run[p].pc \in {"idle", "download"} \union Starting => verified[p] = {}

\* A caller past its check finds no rollout running until it installs its own.
Free == \A p \in Rollouts : run[p].pc = "checked" => ~status.running

ShownInv ==
    /\ cur = NoRollout => status = NoStatus
    /\ cur # NoRollout => Shown(cur) /\ Untried(cur) /\ InFlight(cur) /\ Proven(cur)
    /\ Untrusted
    /\ Free

\* All of it together, with the messages the user reads.
ReportInv == GateInv /\ SerialInv /\ ShownInv /\ FleetUntouched /\ SuccessMeansAll

LEMMA ListedSeq ==
    ASSUME NEW s \in Seq(Hosts)
    PROVE  /\ Listed(s) = {s[i] : i \in 1..Len(s)}
           /\ Listed(s) \subseteq Hosts
           /\ s # <<>> => 1 \in 1..Len(s) /\ s[1] \in Listed(s)
  BY DEF Listed

LEMMA DeviceSet ==
    ASSUME TypeOK, NEW h \in Listed(status.order), NEW s
    PROVE  /\ WithDevice(h, s).st[h] = s
           /\ \A g \in Hosts \ {h} : WithDevice(h, s).st[g] = status.st[g]
           /\ WithDevice(h, s).order = status.order
           /\ WithDevice(h, s).ok = status.ok
           /\ WithDevice(h, s).message = status.message
           /\ WithDevice(h, s).running = status.running
  <1>1. h \in Hosts
    BY ListedSeq DEF TypeOK, StatusType
  <1>2. QED BY <1>1 DEF WithDevice, TypeOK, StatusType

\* A working goroutine owns the installed status.
LEMMA Owner ==
    ASSUME ShownInv, SerialInv, NEW p \in Rollouts, run[p].pc \in {"installed"} \union Working
    PROVE  /\ cur = p /\ cur # NoRollout /\ status.running
           /\ Shown(p) /\ Untried(p) /\ InFlight(p) /\ Proven(p)
           /\ \A q \in Rollouts \ {p} : ~Busy(q)
  BY RolloutAssumption DEF ShownInv, SerialInv, Busy, Starting

\* At a device, the loop's device is the listed one.
LEMMA CurrentListed ==
    ASSUME TypeOK, NEW p \in Rollouts, Shown(p), run[p].pc \in InLoopPart,
           run[p].idx <= Len(run[p].devs)
    PROVE  /\ Current(p) \in Listed(status.order)
           /\ Current(p) \in Hosts
           /\ Current(p) = status.order[run[p].idx]
  <1>1. run[p].idx \in 1..Len(run[p].devs) /\ run[p].devs \in Seq(Hosts)
    BY DEF TypeOK, RunType
  <1>2. QED BY <1>1, ListedSeq DEF Shown, Current

\* What is left to show for a step of the goroutine that owns the status.
LEMMA OwnerStep ==
    ASSUME ReportInv, SerialInv', NEW p \in Rollouts, runRollout(p),
           \A q \in Rollouts \ {p} : verified'[q] = verified[q],
           Shown(p)', Untried(p)', InFlight(p)', Proven(p)'
    PROVE  ShownInv'
  <1>1. /\ run[p].pc \in Working /\ cur' = cur
        /\ \A q \in Rollouts \ {p} : run'[q] = run[q]
        /\ run'[p].pc \in Working \union {"finished"}
        /\ run'[p].pc # "download"
    BY GoroutineFrame DEF ReportInv, GateInv
  <1>2. cur = p /\ cur # NoRollout /\ \A q \in Rollouts \ {p} : ~Busy(q)
    BY <1>1, Owner DEF ReportInv
  <1>3. run'[p].pc \notin {"idle", "checked", "installed"}
    BY <1>1 DEF Working
  <1>4. \A q \in Rollouts \ {p} : run'[q].pc # "checked"
    BY <1>1, <1>2 DEF Busy, Starting
  <1>5. Free'
    BY <1>3, <1>4 DEF Free
  <1>6. ASSUME NEW q \in Rollouts, run'[q].pc \in {"idle", "download"} \union Starting
        PROVE  verified'[q] = {}
    <2>1. CASE q = p
      BY <2>1, <1>1, <1>3, <1>6 DEF Starting
    <2>2. CASE q # p
      BY <2>2, <1>1, <1>6 DEF ReportInv, ShownInv, Untrusted
    <2>3. QED BY <2>1, <2>2
  <1>7. QED BY <1>1, <1>2, <1>5, <1>6 DEF ShownInv, Untrusted

LEMMA StartShows ==
    ASSUME ReportInv, GateInv', SerialInv', NEW p \in Rollouts, StartRollout(p)
    PROVE  ShownInv'
  <1> USE DEF ReportInv
  <1>1. CASE CheckRunning(p)
    <2>1. /\ run' = [run EXCEPT ![p].pc = "checked"] /\ run[p].pc = "idle"
          /\ ~status.running
          /\ UNCHANGED <<status, cancelled, cur, verified>>
      BY <1>1 DEF CheckRunning, At, Goto, history
    <2>2. cur # NoRollout => cur # p /\ cur \in Rollouts
      BY <2>1 DEF ShownInv, Shown, GateInv, TypeOK, Working
    <2>3. cur # NoRollout => run'[cur] = run[cur]
      BY <2>1, <2>2 DEF GateInv, TypeOK
    <2>4. \A q \in Rollouts \ {p} : run'[q] = run[q]
      BY <2>1 DEF GateInv, TypeOK
    <2>5. run'[p].pc = "checked"
      BY <2>1 DEF GateInv, TypeOK, RunType
    <2>6. cur # NoRollout => (Shown(cur) /\ Untried(cur) /\ InFlight(cur) /\ Proven(cur))'
      BY <2>1, <2>3, ZenonT(40) DEF ShownInv, Shown, Untried, InFlight, Proven, Current
    <2>7. Untrusted' /\ Free'
      BY <2>1, <2>4, <2>5 DEF ShownInv, Untrusted, Free, Starting
    <2>8. QED BY <2>1, <2>6, <2>7 DEF ShownInv
  <1>2. CASE InstallStatus(p)
    <2>1. PICK s \in Selections :
             status' = [NoStatus EXCEPT
               !.running = TRUE, !.message = "downloading", !.order = s,
               !.st = [h \in Hosts |-> IF h \in Listed(s) THEN "pending" ELSE "none"]]
      BY <1>2 DEF InstallStatus
    <2>2. /\ run[p].pc = "checked" /\ run' = [run EXCEPT ![p].pc = "installed"]
          /\ cur' = p /\ cur' # NoRollout /\ UNCHANGED <<cancelled, verified>>
      BY <1>2, RolloutAssumption DEF InstallStatus, At, Goto
    <2>3. /\ status'.order = s /\ ~status'.ok /\ status'.message = "downloading"
          /\ \A h \in Hosts : status'.st[h] = IF h \in Listed(s) THEN "pending" ELSE "none"
      BY <2>1 DEF NoStatus
    <2>4. s # <<>> /\ Listed(s) \subseteq Hosts
      <3>1. PICK n \in 1..MaxDevices : s \in [1..n -> Hosts]
        BY DEF Selections
      <3>2. 1 \in DOMAIN s
        BY <3>1, RolloutAssumption
      <3>3. QED BY <3>2, SelectionsAreSeqs, ListedSeq
    <2>5. /\ run'[p].pc = "installed"
          /\ \A q \in Rollouts \ {p} : run'[q] = run[q]
      BY <2>2 DEF GateInv, TypeOK, RunType
    <2>6. verified'[p] = {}
      BY <2>2 DEF ShownInv, Untrusted, Starting
    <2>7. Shown(p)'
      BY <2>3, <2>4, <2>5, <2>6 DEF Shown, InLoopPart, Handling, BeforeLoop, Working
    <2>8. Untried(p)'
      BY <2>3, <2>4 DEF Untried
    <2>9. InFlight(p)' /\ Proven(p)'
      BY <2>3, <2>5 DEF InFlight, Proven, Handling
    <2>10. \A q \in Rollouts \ {p} : run[q].pc # "checked"
      BY <2>2 DEF SerialInv, Busy, Starting
    <2>11. Untrusted' /\ Free'
      BY <2>2, <2>5, <2>6, <2>10 DEF ShownInv, Untrusted, Free
    <2>12. QED BY <2>2, <2>7, <2>8, <2>9, <2>11 DEF ShownInv
  <1>3. CASE NoOnlineMiner(p)
    <2>1. /\ run' = [run EXCEPT ![p].pc = "finished"] /\ run[p].pc = "checked"
          /\ UNCHANGED <<status, cancelled, cur, verified>>
      BY <1>3 DEF NoOnlineMiner, At, Goto, history
    <2>2. cur # NoRollout => cur # p /\ cur \in Rollouts
      BY <2>1 DEF ShownInv, Shown, GateInv, TypeOK, Working
    <2>3. cur # NoRollout => run'[cur] = run[cur]
      BY <2>1, <2>2 DEF GateInv, TypeOK
    <2>4. \A q \in Rollouts \ {p} : run'[q] = run[q]
      BY <2>1 DEF GateInv, TypeOK
    <2>5. run'[p].pc = "finished"
      BY <2>1 DEF GateInv, TypeOK, RunType
    <2>6. cur # NoRollout => (Shown(cur) /\ Untried(cur) /\ InFlight(cur) /\ Proven(cur))'
      BY <2>1, <2>3, ZenonT(40) DEF ShownInv, Shown, Untried, InFlight, Proven, Current
    <2>7. Untrusted' /\ Free'
      BY <2>1, <2>4, <2>5 DEF ShownInv, Untrusted, Free, Starting
    <2>8. QED BY <2>1, <2>6, <2>7 DEF ShownInv
  <1>4. CASE InstallCancel(p)
    <2>1. /\ run' = [run EXCEPT ![p].pc = "download"] /\ run[p].pc = "installed"
          /\ UNCHANGED <<status, cancelled, cur, verified>>
      BY <1>4 DEF InstallCancel, At, Goto, history
    <2>2. /\ run'[p].pc = "download"
          /\ \A q \in Rollouts \ {p} : run'[q] = run[q]
      BY <2>1 DEF GateInv, TypeOK, RunType
    <2>3. cur = p /\ Shown(p) /\ Untried(p) /\ InFlight(p)
      BY <2>1, Owner
    <2>4. Shown(p)' /\ Untried(p)' /\ InFlight(p)' /\ Proven(p)'
      BY <2>1, <2>2, <2>3
      DEF Shown, Untried, InFlight, Proven, Current, Working, BeforeLoop, InLoopPart,
          Handling
    <2>5. Untrusted' /\ Free'
      BY <2>1, <2>2 DEF ShownInv, Untrusted, Free, Starting
    <2>6. QED BY <2>1, <2>3, <2>4, <2>5 DEF ShownInv
  <1>5. QED BY <1>1, <1>2, <1>3, <1>4 DEF StartRollout

LEMMA LoopShows ==
    ASSUME ReportInv, GateInv', SerialInv', NEW p \in Rollouts, runRollout(p)
    PROVE  ShownInv'
  <1>a. TypeOK /\ GateAt(p) /\ Len(sent[p]) <= Len(run[p].devs)
    BY DEF ReportInv, GateInv, CanaryGate
  <1>b. /\ run[p].pc \in Working
        /\ cur = p /\ Shown(p) /\ Untried(p) /\ InFlight(p) /\ Proven(p)
    BY <1>a, Owner, GoroutineFrame DEF ReportInv
  <1>c. /\ run[p].idx \in Nat \ {0} /\ run[p].devs \in Seq(Hosts)
        /\ status.order \in Seq(Hosts)
    BY <1>a DEF TypeOK, RunType, StatusType
  <1>1. /\ run[p].pc \in Working
        /\ cur = p /\ Shown(p) /\ Untried(p) /\ InFlight(p) /\ Proven(p)
        /\ run[p].idx \in Nat \ {0} /\ run[p].devs \in Seq(Hosts)
        /\ status.order \in Seq(Hosts) /\ GateAt(p)
        /\ TypeOK /\ Len(sent[p]) <= Len(run[p].devs)
        /\ Listed(status.order) \subseteq Hosts
        /\ \A j \in 1..Len(status.order) : status.order[j] \in Listed(status.order)
    BY <1>a, <1>b, <1>c, ListedSeq
  <1> USE DEF Shown, Untried, InFlight, Proven, Current, BeforeLoop, InLoopPart,
              Handling, Working
  <1>2. CASE DownloadOK(p)
    <2>1. /\ run'[p].pc = "loop" /\ run'[p].devs = status.order /\ run'[p].idx = 1
          /\ status'.order = status.order /\ status'.st = status.st
          /\ status'.ok = status.ok /\ status'.message = "canary"
          /\ UNCHANGED <<cancelled, verified>>
          /\ run[p].pc = "download"
      BY <1>1, <1>2
      DEF DownloadOK, StatusType, At, Goto, history, TypeOK, RunType
    <2>2. Shown(p)' /\ Untried(p)' /\ InFlight(p)' /\ Proven(p)'
      BY <1>1, <2>1
    <2>3. QED BY <2>1, <2>2, OwnerStep
  <1>3. CASE DownloadFails(p)
    <2>1. /\ run'[p].pc = "exit"
          /\ status'.order = status.order /\ status'.st = status.st
          /\ UNCHANGED <<cancelled, verified>>
          /\ run[p].pc = "download"
      BY <1>1, <1>3
      DEF DownloadFails, StatusType, At, Goto, history, TypeOK, RunType
    <2>2. Shown(p)' /\ Untried(p)' /\ InFlight(p)' /\ Proven(p)'
      BY <1>1, <2>1
    <2>3. QED BY <2>1, <2>2, OwnerStep
  <1>4. CASE SkipDevice(p)
    <2>1. /\ run'[p].pc = "loop" /\ run'[p].devs = run[p].devs
          /\ run'[p].idx = run[p].idx + 1
          /\ status' = WithDevice(Current(p), "skipped")
          /\ UNCHANGED <<cancelled, verified>>
          /\ run[p].pc = "loop" /\ p \in cancelled
          /\ run[p].idx <= Len(run[p].devs)
      BY <1>1, <1>4
      DEF SkipDevice, InLoop, At, Goto, history, TypeOK, RunType
    <2>2. Current(p) \in Listed(status.order)
      BY <1>1, <2>1, CurrentListed
    <2>a. /\ status'.st[Current(p)] = "skipped"
          /\ \A g \in Hosts \ {Current(p)} : status'.st[g] = status.st[g]
          /\ status'.order = status.order /\ status'.ok = status.ok
          /\ status'.message = status.message
      BY <1>1, <2>1, <2>2, DeviceSet
    <2>3. Shown(p)' /\ Proven(p)'
      BY <1>1, <2>1, <2>a
    <2>4. InFlight(p)'
      BY <1>1, <2>1, <2>2, <2>a
    <2>5. Untried(p)'
      BY <1>1, <2>1
    <2>6. QED BY <2>1, <2>3, <2>4, <2>5, OwnerStep
  <1>5. CASE BeginDevice(p)
    <2>1. /\ run'[p].pc = "send" /\ run'[p].devs = run[p].devs
          /\ run'[p].idx = run[p].idx
          /\ status' = WithDevice(Current(p), "flashing")
          /\ UNCHANGED <<cancelled, verified>>
          /\ run[p].pc = "loop" /\ p \notin cancelled
          /\ run[p].idx <= Len(run[p].devs)
      BY <1>1, <1>5
      DEF BeginDevice, InLoop, At, Goto, history, TypeOK, RunType
    <2>2. /\ Current(p) \in Listed(status.order)
          /\ Current(p) = status.order[run[p].idx]
      BY <1>1, <2>1, CurrentListed
    <2>a. /\ status'.st[Current(p)] = "flashing"
          /\ \A g \in Hosts \ {Current(p)} : status'.st[g] = status.st[g]
          /\ status'.order = status.order /\ status'.ok = status.ok
          /\ status'.message = status.message
      BY <1>1, <2>1, <2>2, DeviceSet, SMTT(20)
    <2>3. Shown(p)'
      BY <1>1, <2>1, <2>a
    <2>4. Untried(p)' /\ InFlight(p)'
      <3>1. Current(p)' = Current(p)
        BY <2>1
      <3>2. InFlight(p)'
        BY <1>1, <2>1, <2>2, <2>a, <3>1 DEF InFlight, Handling
      <3>3. Untried(p)'
        <4>1. ASSUME run[p].idx = 1, NEW h \in Listed(status.order) \ {status.order[1]}
              PROVE  status'.st[h] = "pending"
          <5>1. status.st[h] = "pending" /\ h \in Hosts /\ h # Current(p)
            BY <1>1, <2>1, <2>2, <4>1, ListedSeq DEF Untried, TypeOK, StatusType
          <5>2. QED BY <2>a, <5>1
        <4>2. QED BY <2>1, <2>a, <4>1 DEF Untried, BeforeLoop
      <3>4. QED BY <3>2, <3>3
    <2>b. ASSUME NEW j \in 1..(run[p].idx - 1)
          PROVE  /\ status.order[j] \in verified[p]
                 /\ status'.st[status.order[j]] = "ok" \/ status.order[j] = Current(p)
      <3>1. j \in 1..Len(status.order) /\ status.order[j] \in Hosts
        BY <1>1, <2>1 DEF GateAt
      <3>2. /\ status.order[j] \in verified[p]
            /\ status.st[status.order[j]] = "ok" \/ status.order[j] = Current(p)
        BY <1>1, <2>1
      <3>3. QED BY <2>a, <3>1, <3>2
    <2>5. Proven(p)'
      <3>1. Current(p)' = Current(p) /\ status'.order = status.order
        BY <2>1, <2>a
      <3>2. ASSUME NEW j \in 1..(run'[p].idx - 1)
            PROVE  /\ status'.order[j] \in verified'[p]
                   /\ status'.st[status'.order[j]] = "ok" \/ status'.order[j] = Current(p)'
        BY <2>1, <2>b, <3>1, <3>2
      <3>3. run'[p].pc \in Handling
        BY <2>1
      <3>4. QED BY <2>1, <3>2, <3>3
    <2>6. QED BY <2>1, <2>3, <2>4, <2>5, OwnerStep
  <1>6. CASE SendOTA(p)
    <2>1. /\ run'[p].pc = "ota" /\ run'[p].devs = run[p].devs
          /\ run'[p].idx = run[p].idx
          /\ UNCHANGED <<status, cancelled, verified>>
          /\ run[p].pc = "send"
      BY <1>1, <1>6
      DEF SendOTA, At, Goto, history, TypeOK, RunType
    <2>2. Shown(p)' /\ Untried(p)' /\ InFlight(p)' /\ Proven(p)'
      BY <1>1, <2>1
    <2>3. QED BY <2>1, <2>2, OwnerStep
  \* The device fails and the goroutine is at its end.
  <1>7. ASSUME NEW why, Fail(p, why), run[p].pc \in Handling, UNCHANGED <<cancelled, verified>>
        PROVE  ShownInv'
    <2>1. /\ run'[p].pc = "exit"
          /\ status'.order = status.order
          /\ status'.st = WithDevice(Current(p), "failed").st
      BY <1>1, <1>7
      DEF Fail, WithDevice, StatusType, At, Goto, history, TypeOK, RunType
    <2>2. Current(p) \in Listed(status.order)
      <3>1. run[p].idx <= Len(run[p].devs)
        BY <1>1, <1>7 DEF GateAt
      <3>2. QED BY <1>1, <1>7, <3>1, CurrentListed
    <2>a. /\ status'.st[Current(p)] = "failed"
          /\ \A g \in Hosts \ {Current(p)} : status'.st[g] = status.st[g]
      <3>1. /\ WithDevice(Current(p), "failed").st[Current(p)] = "failed"
            /\ \A g \in Hosts \ {Current(p)} :
                   WithDevice(Current(p), "failed").st[g] = status.st[g]
        BY <1>1, <2>2, DeviceSet
      <3>2. QED BY <2>1, <3>1
    <2>3. Shown(p)' /\ Untried(p)' /\ InFlight(p)' /\ Proven(p)'
      BY <1>1, <1>7, <2>1, <2>2, <2>a
    <2>4. QED BY <1>7, <2>3, OwnerStep
  <1>8. CASE SendAborted(p) \/ OTAFails(p) \/ VerifyFails(p)
    BY <1>7, <1>8 DEF SendAborted, OTAFails, VerifyFails, At, history
  <1>9. CASE OTASucceeds(p)
    <2>1. /\ run'[p].pc = "verify" /\ run'[p].devs = run[p].devs
          /\ run'[p].idx = run[p].idx
          /\ status' = WithDevice(Current(p), "verifying")
          /\ UNCHANGED <<cancelled, verified>>
          /\ run[p].pc = "ota"
      BY <1>1, <1>9
      DEF OTASucceeds, At, Goto, history, TypeOK, RunType
    <2>2. /\ Current(p) \in Listed(status.order)
          /\ Current(p) = status.order[run[p].idx]
      <3>1. run[p].idx <= Len(run[p].devs)
        BY <1>1, <2>1 DEF GateAt
      <3>2. QED BY <1>1, <2>1, <3>1, CurrentListed
    <2>a. /\ status'.st[Current(p)] = "verifying"
          /\ \A g \in Hosts \ {Current(p)} : status'.st[g] = status.st[g]
          /\ status'.order = status.order /\ status'.ok = status.ok
          /\ status'.message = status.message
      BY <1>1, <2>1, <2>2, DeviceSet
    <2>3. Shown(p)'
      BY <1>1, <2>1, <2>a
    <2>4. Untried(p)' /\ InFlight(p)'
      <3>1. Current(p)' = Current(p)
        BY <2>1
      <3>2. InFlight(p)'
        BY <1>1, <2>1, <2>2, <2>a, <3>1 DEF InFlight, Handling
      <3>3. Untried(p)'
        <4>1. ASSUME run[p].idx = 1, NEW h \in Listed(status.order) \ {status.order[1]}
              PROVE  status'.st[h] = "pending"
          <5>1. status.st[h] = "pending" /\ h \in Hosts /\ h # Current(p)
            BY <1>1, <2>1, <2>2, <4>1, ListedSeq DEF Untried, TypeOK, StatusType
          <5>2. QED BY <2>a, <5>1
        <4>2. QED BY <2>1, <2>a, <4>1 DEF Untried, BeforeLoop
      <3>4. QED BY <3>2, <3>3
    <2>b. ASSUME NEW j \in 1..(run[p].idx - 1)
          PROVE  /\ status.order[j] \in verified[p]
                 /\ status'.st[status.order[j]] = "ok" \/ status.order[j] = Current(p)
      <3>1. j \in 1..Len(status.order) /\ status.order[j] \in Hosts
        BY <1>1, <2>1 DEF GateAt
      <3>2. /\ status.order[j] \in verified[p]
            /\ status.st[status.order[j]] = "ok" \/ status.order[j] = Current(p)
        BY <1>1, <2>1
      <3>3. QED BY <2>a, <3>1, <3>2
    <2>5. Proven(p)'
      <3>1. Current(p)' = Current(p) /\ status'.order = status.order
        BY <2>1, <2>a
      <3>2. ASSUME NEW j \in 1..(run'[p].idx - 1)
            PROVE  /\ status'.order[j] \in verified'[p]
                   /\ status'.st[status'.order[j]] = "ok" \/ status'.order[j] = Current(p)'
        BY <2>1, <2>b, <3>1, <3>2
      <3>3. run'[p].pc \in Handling
        BY <2>1
      <3>4. QED BY <2>1, <3>2, <3>3
    <2>6. QED BY <2>1, <2>3, <2>4, <2>5, OwnerStep
  <1>10. CASE PollError(p)
    <2>1. /\ run'[p].pc = "verify" /\ run'[p].devs = run[p].devs
          /\ run'[p].idx = run[p].idx
          /\ UNCHANGED <<status, cancelled, verified>>
          /\ run[p].pc = "verify"
      BY <1>1, <1>10
      DEF PollError, PollDue, At, Goto, history, TypeOK, RunType
    <2>2. Shown(p)' /\ Untried(p)' /\ InFlight(p)' /\ Proven(p)'
      BY <1>1, <2>1
    <2>3. QED BY <2>1, <2>2, OwnerStep
  <1>11. CASE PollAccepts(p)
    <2>c. /\ run' = [run EXCEPT ![p].idx = @ + 1, ![p].pc = "loop"]
          /\ verified' = [verified EXCEPT ![p] = @ \union {Current(p)}]
          /\ UNCHANGED cancelled
          /\ run[p].pc = "verify" /\ p \notin cancelled
      BY <1>11 DEF PollAccepts, PollDue, Accept, At, history
    <2>1. /\ run'[p].pc = "loop" /\ run'[p].devs = run[p].devs
          /\ run'[p].idx = run[p].idx + 1
          /\ verified' = [verified EXCEPT ![p] = @ \union {Current(p)}]
          /\ UNCHANGED cancelled
          /\ run[p].pc = "verify"
      BY <1>1, <2>c DEF TypeOK, RunType
    <2>2. /\ status'.order = status.order /\ status'.ok = status.ok
          /\ status'.st = WithDevice(Current(p), "ok").st
          /\ status'.message \in {status.message, "continuing"}
      BY <1>1, <1>11
      DEF PollAccepts, Accept, WithDevice, StatusType, At, Goto, history, TypeOK, RunType
    <2>3. /\ Current(p) \in Listed(status.order)
          /\ Current(p) = status.order[run[p].idx]
      <3>1. run[p].idx <= Len(run[p].devs)
        BY <1>1, <2>1 DEF GateAt
      <3>2. QED BY <1>1, <2>1, <3>1, CurrentListed
    <2>4. /\ verified'[p] = verified[p] \union {Current(p)}
          /\ \A q \in Rollouts \ {p} : verified'[q] = verified[q]
      BY <1>1, <2>1 DEF TypeOK
    <2>5. Shown(p)'
      BY <1>1, <2>1, <2>2, <2>3, <2>4
    <2>a. /\ status'.st[Current(p)] = "ok"
          /\ \A g \in Hosts \ {Current(p)} : status'.st[g] = status.st[g]
      BY <1>1, <2>2, <2>3, DeviceSet, SMTT(20)
    <2>b. Untried(p)'
      BY <1>1, <2>1
    <2>6. InFlight(p)'
      BY <1>1, <2>1, <2>2, <2>3, <2>a
    <2>7. ASSUME NEW j \in 1..run[p].idx
          PROVE  status'.st[status.order[j]] = "ok" /\ status.order[j] \in verified'[p]
      <3>1. j # run[p].idx => j \in 1..(run[p].idx - 1)
        BY <1>1
      <3>2. j \in 1..Len(status.order) /\ status.order[j] \in Hosts
        BY <1>1, <2>1 DEF GateAt
      <3>3. CASE j = run[p].idx
        BY <2>3, <2>4, <2>a, <3>3
      <3>4. CASE j # run[p].idx
        <4>1. /\ status.order[j] \in verified[p]
              /\ status.st[status.order[j]] = "ok" \/ status.order[j] = Current(p)
          BY <1>1, <2>1, <3>1, <3>4
        <4>2. QED BY <2>4, <2>a, <3>2, <4>1
      <3>5. QED BY <3>3, <3>4
    <2>8. Proven(p)'
      <3>1. \A j \in 1..run[p].idx :
               status'.st[status.order[j]] = "ok" /\ status.order[j] \in verified'[p]
        BY <2>7
      <3>2. run'[p].idx - 1 = run[p].idx /\ run'[p].pc = "loop"
        BY <1>1, <2>1
      <3>3. \A j \in 1..(run'[p].idx - 1) :
               /\ status'.st[status'.order[j]] = "ok"
               /\ status'.order[j] \in verified'[p]
        BY <2>2, <3>1, <3>2
      <3>4. QED BY <3>2, <3>3 DEF Proven
    <2>9. QED BY <2>4, <2>5, <2>b, <2>6, <2>8, OwnerStep
  <1>12. CASE LoopEnds(p)
    <2>1. /\ run'[p].pc \in {"exit", "success"} /\ run'[p].devs = run[p].devs
          /\ status'.order = status.order /\ status'.st = status.st
          /\ run'[p].pc = "success" => p \notin cancelled /\ UNCHANGED status
          /\ UNCHANGED <<cancelled, verified>>
          /\ run[p].pc = "loop" /\ run[p].idx > Len(run[p].devs)
      BY <1>1, <1>12
      DEF LoopEnds, InLoop, StatusType, At, Goto, history, TypeOK, RunType
    <2>2. run'[p].pc = "success" =>
            \A h \in Listed(status.order) : status.st[h] = "ok" /\ h \in verified[p]
      <3>1. CASE run'[p].pc = "success"
        <4>1. p \notin cancelled /\ status.order = run[p].devs
          BY <1>1, <2>1, <3>1
        <4>2. \A j \in 1..Len(status.order) : j \in 1..(run[p].idx - 1)
          BY <1>1, <2>1, <4>1
        <4>3. \A h \in Listed(status.order) : \E j \in 1..Len(status.order) : h = status.order[j]
          BY <1>1 DEF Listed
        <4>4. QED BY <1>1, <2>1, <4>1, <4>2, <4>3
      <3>2. QED BY <3>1
    <2>3. Shown(p)' /\ Untried(p)' /\ InFlight(p)' /\ Proven(p)'
      BY <1>1, <2>1, <2>2
    <2>4. QED BY <2>1, <2>3, OwnerStep
  <1>13. CASE ReportSuccess(p) \/ Exit(p)
    <2>1. /\ run'[p].pc \in {"exit", "finished"}
          /\ status'.order = status.order /\ status'.st = status.st
          /\ UNCHANGED <<cancelled, verified>>
          /\ run[p].pc \in {"success", "exit"}
      <3>1. CASE ReportSuccess(p)
        BY <1>1, <3>1
        DEF ReportSuccess, StatusType, At, Goto, history, TypeOK, RunType
      <3>2. CASE Exit(p)
        BY <1>1, <3>2 DEF Exit, StatusType, At, Goto, history, TypeOK, RunType
      <3>3. QED BY <1>13, <3>1, <3>2
    <2>2. Shown(p)' /\ Untried(p)' /\ InFlight(p)' /\ Proven(p)'
      BY <1>1, <2>1
    <2>3. QED BY <2>1, <2>2, OwnerStep
  <1>14. QED
    BY <1>2, <1>3, <1>4, <1>5, <1>6, <1>8, <1>9, <1>10, <1>11, <1>12, <1>13
    DEF runRollout, verifyBack

\* Nothing the status is about changes.
LEMMA StatusStays ==
    ASSUME ReportInv, UNCHANGED <<status, run, cur, sent, verified>>,
           cancelled \subseteq cancelled'
    PROVE  ShownInv' /\ FleetUntouched' /\ SuccessMeansAll'
  <1>1. cur # NoRollout => (Shown(cur) /\ Untried(cur) /\ InFlight(cur) /\ Proven(cur))'
    BY DEF ReportInv, ShownInv, Shown, Untried, InFlight, Proven, Current
  <1>2. Untrusted' /\ Free'
    BY DEF ReportInv, ShownInv, Untrusted, Free
  <1>3. FleetUntouched' /\ SuccessMeansAll'
    BY DEF ReportInv, FleetUntouched, SuccessMeansAll
  <1>4. QED BY <1>1, <1>2, <1>3 DEF ReportInv, ShownInv

\* The two final messages come from the steps that end the rollout.
LEMMA LoopReports ==
    ASSUME ReportInv, ShownInv', NEW p \in Rollouts, runRollout(p)
    PROVE  FleetUntouched' /\ SuccessMeansAll'
  <1>1. /\ run[p].pc \in Working
        /\ cur = p /\ cur' = p /\ cur # NoRollout
        /\ run'[p].pc \in Working \union {"finished"}
        /\ Shown(p) /\ Untried(p) /\ InFlight(p) /\ Proven(p) /\ GateAt(p)
        /\ TypeOK /\ status.order \in Seq(Hosts) /\ status \in StatusType
        /\ run[p].idx \in Nat \ {0} /\ run[p].devs \in Seq(Hosts)
        /\ sent[p] \in Seq(Hosts) /\ Len(sent[p]) <= Len(run[p].devs)
        /\ \A j \in 1..Len(sent[p]) : sent[p][j] = run[p].devs[j]
    BY Owner, GoroutineFrame
    DEF ReportInv, GateInv, CanaryGate, TypeOK, RunType, StatusType
  <1>2. CASE run'[p].pc \in InLoopPart
    BY <1>1, <1>2 DEF ShownInv, Shown, FleetUntouched, SuccessMeansAll
  <1>3. CASE DownloadFails(p)
    <2>1. /\ status'.message = "download_failed" /\ status'.ok = status.ok
          /\ run[p].pc = "download"
      BY <1>1, <1>3 DEF DownloadFails, At, StatusType
    <2>2. ~status.ok
      BY <1>1, <2>1 DEF Shown, BeforeLoop
    <2>3. QED BY <2>1, <2>2 DEF FleetUntouched, SuccessMeansAll
  <1>4. ASSUME NEW why, Fail(p, why), run[p].pc \in Handling, UNCHANGED sent
        PROVE  FleetUntouched' /\ SuccessMeansAll'
    <2>1. /\ status'.ok = status.ok /\ status'.order = status.order
          /\ status'.st = WithDevice(Current(p), "failed").st
          /\ status'.message = "canary_failed" => run[p].idx = 1
      BY <1>1, <1>4 DEF Fail, WithDevice, StatusType
    <2>2. ~status.ok
      BY <1>1, <1>4 DEF Shown, InLoopPart
    <2>3. run[p].idx <= Len(run[p].devs)
      BY <1>1, <1>4 DEF GateAt, Handling
    <2>4. Current(p) \in Listed(status.order) /\ Current(p) = status.order[run[p].idx]
      BY <1>1, <1>4, <2>3, CurrentListed DEF InLoopPart
    <2>5. \A g \in Hosts \ {Current(p)} : status'.st[g] = status.st[g]
      BY <1>1, <2>1, <2>4, DeviceSet
    <2>6. ASSUME status'.message = "canary_failed"
          PROVE  /\ Listed(sent[p]) \subseteq {status.order[1]}
                 /\ \A h \in Listed(status.order) \ {status.order[1]} :
                        status'.st[h] = "pending"
      <3>1. run[p].idx = 1 /\ Current(p) = status.order[1]
        BY <2>1, <2>4, <2>6
      <3>2. \A h \in Listed(status.order) \ {status.order[1]} : status.st[h] = "pending"
        BY <1>1, <1>4, <3>1 DEF Untried
      <3>3. Len(sent[p]) <= 1
        BY <1>1, <1>4, <3>1 DEF GateAt, Handling
      <3>4. \A j \in 1..Len(sent[p]) : sent[p][j] = status.order[1]
        BY <1>1, <1>4, <3>3 DEF Shown, InLoopPart
      <3>5. QED BY <1>1, <2>5, <3>1, <3>2, <3>4, ListedSeq
    <2>7. FleetUntouched'
      BY <1>1, <1>4, <2>1, <2>6 DEF FleetUntouched
    <2>8. QED BY <2>1, <2>2, <2>7 DEF SuccessMeansAll
  <1>5. CASE SendAborted(p) \/ OTAFails(p) \/ VerifyFails(p)
    BY <1>4, <1>5 DEF SendAborted, OTAFails, VerifyFails, At, history, Handling
  <1>6. CASE LoopEnds(p)
    <2>1. ~status.ok /\ run[p].pc = "loop"
      BY <1>1, <1>6 DEF LoopEnds, Shown, InLoopPart, At
    <2>2. /\ status'.ok = status.ok
          /\ \/ status'.message = "cancelled"
             \/ run'[p].pc = "success"
      BY <1>1, <1>6 DEF LoopEnds, StatusType, Goto, TypeOK, RunType
    <2>3. QED BY <1>2, <2>1, <2>2 DEF FleetUntouched, SuccessMeansAll, InLoopPart
  <1>7. CASE ReportSuccess(p)
    <2>1. /\ status'.message = "complete" /\ status'.st = status.st
          /\ status'.order = status.order /\ run[p].pc = "success"
          /\ verified' = verified
      BY <1>1, <1>7 DEF ReportSuccess, StatusType, At, history
    <2>2. \A h \in Listed(status.order) : status.st[h] = "ok" /\ h \in verified[p]
      BY <1>1, <2>1 DEF Proven
    <2>3. QED BY <1>1, <2>1, <2>2 DEF FleetUntouched, SuccessMeansAll
  <1>8. CASE Exit(p)
    <2>1. /\ status'.message = status.message /\ status'.st = status.st
          /\ status'.order = status.order /\ status'.ok = status.ok
          /\ UNCHANGED <<cur, sent, verified>>
      BY <1>1, <1>8 DEF Exit, StatusType, history
    <2>2. QED BY <2>1 DEF ReportInv, FleetUntouched, SuccessMeansAll
  <1>9. CASE \/ DownloadOK(p) \/ SkipDevice(p) \/ BeginDevice(p) \/ SendOTA(p)
             \/ OTASucceeds(p) \/ PollError(p) \/ PollAccepts(p)
    <2>1. run'[p].pc \in InLoopPart
      <3>a. CASE DownloadOK(p)
        BY <1>1, <3>a DEF DownloadOK, TypeOK, RunType, InLoopPart
      <3>b. CASE SkipDevice(p)
        BY <1>1, <3>b DEF SkipDevice, InLoop, At, TypeOK, RunType, InLoopPart
      <3>1. CASE BeginDevice(p) \/ SendOTA(p)
        BY <1>1, <3>1
        DEF BeginDevice, SendOTA, Goto, TypeOK, RunType, InLoopPart, Handling
      <3>2. CASE OTASucceeds(p) \/ PollError(p) \/ PollAccepts(p)
        BY <1>1, <3>2
        DEF OTASucceeds, PollError, PollAccepts, PollDue, Accept, At, TypeOK,
            RunType, InLoopPart, Handling
      <3>3. QED BY <1>9, <3>a, <3>b, <3>1, <3>2
    <2>2. QED BY <1>2, <2>1
  <1>10. QED
    BY <1>3, <1>5, <1>6, <1>7, <1>8, <1>9 DEF runRollout, verifyBack

LEMMA ReportInit == Init => ReportInv
  <1> SUFFICES ASSUME Init PROVE ReportInv
    OBVIOUS
  <1>1. SerialInv
    BY DEF Init, SerialInv, Busy, Starting, Working
  <1>2. ShownInv
    BY DEF Init, ShownInv, Untrusted, Free, Starting
  <1>3. FleetUntouched /\ SuccessMeansAll
    BY DEF Init, NoStatus, FleetUntouched, SuccessMeansAll
  <1>4. QED BY <1>1, <1>2, <1>3, InitGate DEF ReportInv

LEMMA ReportNext ==
    ASSUME ~ConcurrentStarts
    PROVE  ReportInv /\ [Next]_vars => ReportInv'
  <1> SUFFICES ASSUME ReportInv, [Next]_vars PROVE ReportInv'
    OBVIOUS
  <1>1. GateInv' /\ SerialInv'
    BY NextGate, SerialNext DEF ReportInv, GateInv
  <1> SUFFICES ShownInv' /\ FleetUntouched' /\ SuccessMeansAll'
    BY <1>1 DEF ReportInv
  <1>2. ASSUME NEW p \in Rollouts, StartRollout(p)
        PROVE  ShownInv' /\ FleetUntouched' /\ SuccessMeansAll'
    <2>1. CASE InstallStatus(p)
      <3>1. status'.message = "downloading" /\ ~status'.ok
        BY <2>1 DEF InstallStatus, NoStatus
      <3>2. QED BY <1>1, <1>2, <3>1, StartShows DEF FleetUntouched, SuccessMeansAll
    <2>2. CASE CheckRunning(p) \/ NoOnlineMiner(p) \/ InstallCancel(p)
      <3>1. UNCHANGED <<status, cur, sent, verified>>
        BY <2>2 DEF CheckRunning, NoOnlineMiner, InstallCancel, history
      <3>2. FleetUntouched' /\ SuccessMeansAll'
        BY <3>1 DEF ReportInv, FleetUntouched, SuccessMeansAll
      <3>3. QED BY <1>1, <1>2, <3>2, StartShows
    <2>3. QED BY <1>2, <2>1, <2>2 DEF StartRollout
  <1>3. ASSUME NEW p \in Rollouts, runRollout(p)
        PROVE  ShownInv' /\ FleetUntouched' /\ SuccessMeansAll'
    BY <1>1, <1>3, LoopShows, LoopReports
  <1>4. CASE CancelRollout \/ \E h \in Hosts : GoDown(h) \/ Boot(h) \/ Ages(h)
    BY <1>4, StatusStays DEF CancelRollout, GoDown, Boot, Ages, history
  <1>5. CASE DaemonRestart
    <2>1. /\ status' = NoStatus /\ cur' = NoRollout /\ verified' = verified
          /\ \A p \in Rollouts : run'[p].pc \in {"idle", "finished"}
          /\ \A p \in Rollouts : run'[p].pc = "idle" => run[p].pc = "idle"
      BY <1>5 DEF DaemonRestart, At, ReportInv, GateInv, TypeOK, RunType
    <2>2. ShownInv'
      BY <2>1 DEF ReportInv, ShownInv, Untrusted, Free, Starting
    <2>3. FleetUntouched' /\ SuccessMeansAll'
      BY <2>1 DEF NoStatus, FleetUntouched, SuccessMeansAll
    <2>4. QED BY <2>2, <2>3
  <1>6. CASE Terminated \/ UNCHANGED vars
    BY <1>6, StatusStays DEF Terminated, vars
  <1>7. QED
    BY <1>2, <1>3, <1>4, <1>5, <1>6 DEF Next

\* At most one device is in the works, and only while a rollout runs.
LEMMA ReportInFlight == ReportInv => OneInFlight
  <1> SUFFICES ASSUME ReportInv PROVE OneInFlight
    OBVIOUS
  <1> DEFINE inFlight == {h \in Hosts : status.st[h] \in {"flashing", "verifying"}}
  <1>1. CASE cur = NoRollout
    <2>1. inFlight = {}
      BY <1>1 DEF ReportInv, ShownInv, NoStatus
    <2>2. QED BY <2>1, FS_EmptySet DEF OneInFlight
  <1>2. CASE cur # NoRollout
    <2>1. \A h \in inFlight : run[cur].pc \in Handling /\ h = Current(cur)
      BY <1>2 DEF ReportInv, ShownInv, InFlight
    <2>2. CASE inFlight = {}
      BY <2>2, FS_EmptySet DEF OneInFlight
    <2>3. CASE inFlight # {}
      <3>1. inFlight = {Current(cur)} /\ run[cur].pc \in Handling
        BY <2>1, <2>3
      <3>2. cur \in Rollouts
        BY <1>2 DEF ReportInv, GateInv, TypeOK
      <3>3. status.running
        BY <3>1, <3>2 DEF ReportInv, SerialInv, Handling, Working
      <3>4. Cardinality(inFlight) = 1
        BY <3>1, FS_Singleton
      <3>5. QED BY <3>3, <3>4 DEF OneInFlight
    <2>4. QED BY <2>2, <2>3
  <1>3. QED BY <1>1, <1>2

\* What the status and the alerts say of a rollout is true at every step, for
\* every fleet, selection, image and failure, when callers are serial.
THEOREM ReportsTrue == ASSUME ~ConcurrentStarts PROVE Spec => []TruthfulReport
  <1>1. ReportInv => TruthfulReport
    BY ReportInFlight DEF ReportInv, TruthfulReport
  <1>2. QED BY ReportInit, ReportNext, <1>1, PTL DEF Spec

-----------------------------------------------------------------------------
(* Any callers, any miners: what "not rebooted yet" can be mistaken for *)

\* What a rollout waits for: the miner will boot its image, or runs it already; and
\* as long as it does not, nothing that verifyBack looks at has changed.  For a
\* miner that may be mistaken nothing is said.
Awaited(p) ==
    run[p].pc = "verify" /\ Current(p) \notin mistakable[p] =>
        /\ miner[Current(p)].boots = run[p].image
        /\ miner[Current(p)].power = "up" => miner[Current(p)].runs = run[p].image
        /\ miner[Current(p)].power = "written" =>
              ~run[p].sawOffline /\ ~miner[Current(p)].fresh

\* Of an image that does not hash only a miner that was mistaken is verified.
UnprovenBad(p) == run[p].image = "bad" => verified[p] \subseteq mistakable[p]

\* The inductive invariant behind BadImageCostsOneMiner.
MistakeInv ==
    GateInv /\ Untrusted /\ \A p \in Rollouts : Awaited(p) /\ UnprovenBad(p)

\* What was mistakable stays so.
LEMMA MistakeGrows ==
    ASSUME TypeOK, NEW p \in Rollouts, NEW ps, Mistake(p, ps)
    PROVE  \A q \in Rollouts : /\ mistakable[q] \subseteq mistakable'[q]
                               /\ q \in ps => Current(p) \in mistakable'[q]
  BY DEF TypeOK, Mistake

LEMMA MistakableGrows ==
    ASSUME TypeOK, [Next]_vars
    PROVE  \A q \in Rollouts : mistakable[q] \subseteq mistakable'[q]
  <1>1. ASSUME NEW p \in Rollouts, OTASucceeds(p) \/ OTAFails(p) \/ PollError(p)
        PROVE  \A q \in Rollouts : mistakable[q] \subseteq mistakable'[q]
    <2>1. (\E ps : Mistake(p, ps)) \/ UNCHANGED mistakable
      BY <1>1 DEF OTASucceeds, OTAFails, PollError
    <2>2. QED BY <2>1, MistakeGrows
  <1>2. ASSUME NEW p \in Rollouts, StartRollout(p) PROVE UNCHANGED mistakable
    BY <1>2 DEF StartRollout, CheckRunning, InstallStatus, NoOnlineMiner, InstallCancel, history
  <1>3. ASSUME NEW p \in Rollouts, runRollout(p),
               ~(OTASucceeds(p) \/ OTAFails(p) \/ PollError(p))
        PROVE  UNCHANGED mistakable
    BY <1>3 DEF runRollout, DownloadOK, DownloadFails, SkipDevice, BeginDevice, SendOTA,
                SendAborted, verifyBack, PollAccepts, Accept, VerifyFails, LoopEnds,
                ReportSuccess, Exit, history
  <1>4. CASE CancelRollout \/ (\E h \in Hosts : GoDown(h) \/ Boot(h) \/ Ages(h))
    BY <1>4 DEF CancelRollout, GoDown, Boot, Ages, history
  <1>5. CASE DaemonRestart \/ Terminated \/ UNCHANGED vars
    BY <1>5 DEF DaemonRestart, Terminated, vars
  <1>6. QED BY <1>1, <1>2, <1>3, <1>4, <1>5 DEF Next

\* A rollout that does not wait, or whose miner is left alone unless it may be
\* mistaken by now, keeps its part.
LEMMA AwaitKeeps ==
    ASSUME MistakeInv, NEW q \in Rollouts,
           \/ run'[q].pc # "verify"
           \/ /\ run'[q] = run[q] /\ mistakable[q] \subseteq mistakable'[q]
              /\ Current(q) \notin mistakable'[q] => miner'[Current(q)] = miner[Current(q)]
    PROVE  Awaited(q)'
  <1>1. Awaited(q)
    BY DEF MistakeInv
  <1>2. CASE run'[q].pc # "verify"
    BY <1>2 DEF Awaited
  <1>3. CASE run'[q] = run[q]
    <2>1. Current(q)' = Current(q)
      BY <1>3 DEF Current
    <2>2. QED BY <1>1, <1>3, <2>1 DEF Awaited
  <1>4. QED BY <1>2, <1>3

LEMMA BadKeeps ==
    ASSUME MistakeInv, NEW q \in Rollouts, mistakable[q] \subseteq mistakable'[q],
           verified'[q] = verified[q],
           run'[q].image = run[q].image \/ verified[q] = {}
    PROVE  UnprovenBad(q)'
  BY DEF MistakeInv, UnprovenBad

\* A step of StartRollout.
LEMMA MistakeStart ==
    ASSUME MistakeInv, NEW p \in Rollouts, StartRollout(p)
    PROVE  Untrusted' /\ \A q \in Rollouts : Awaited(q)' /\ UnprovenBad(q)'
  <1>1. /\ UNCHANGED <<miner, verified, mistakable>>
        /\ run[p].pc \in {"idle"} \union Starting
        /\ \E l \in {"checked", "installed", "finished", "download"} :
              run' = [run EXCEPT ![p].pc = l]
    BY DEF StartRollout, CheckRunning, InstallStatus, NoOnlineMiner, InstallCancel,
           Goto, At, Starting, history
  <1>2. /\ run'[p].pc # "verify" /\ run'[p].image = run[p].image
        /\ \A q \in Rollouts \ {p} : run'[q] = run[q]
    BY <1>1 DEF MistakeInv, GateInv, TypeOK, RunType
  <1>3. Untrusted'
    BY <1>1, <1>2 DEF MistakeInv, Untrusted, Starting
  <1>4. ASSUME NEW q \in Rollouts PROVE Awaited(q)' /\ UnprovenBad(q)'
    BY <1>1, <1>2, AwaitKeeps, BadKeeps
  <1>5. QED BY <1>3, <1>4

\* A step of a goroutine.
LEMMA MistakeLoop ==
    ASSUME MistakeInv, NEW p \in Rollouts, runRollout(p)
    PROVE  Untrusted' /\ \A q \in Rollouts : Awaited(q)' /\ UnprovenBad(q)'
  <1>1. /\ TypeOK /\ GateInv /\ run \in [Rollouts -> RunType]
        /\ miner \in [Hosts -> MinerType] /\ verified \in [Rollouts -> SUBSET Hosts]
        /\ run[p].pc \in Working /\ Awaited(p) /\ UnprovenBad(p)
    BY GoroutineFrame DEF MistakeInv, GateInv, TypeOK
  <1>2. /\ \A q \in Rollouts \ {p} : run'[q] = run[q]
        /\ run'[p].pc \notin {"idle", "download"} \union Starting
    BY <1>1, GoroutineFrame DEF Working, Starting
  <1>3. \A q \in Rollouts : mistakable[q] \subseteq mistakable'[q]
    BY <1>1, MistakableGrows DEF Next
  <1>4. \A q \in Rollouts \ {p} : verified'[q] = verified[q]
    BY <1>1 DEF runRollout, DownloadOK, DownloadFails, SkipDevice, BeginDevice, SendOTA,
                SendAborted, OTASucceeds, OTAFails, verifyBack, PollError, PollAccepts,
                Accept, VerifyFails, LoopEnds, ReportSuccess, Exit, history
  <1>5. Untrusted'
    BY <1>2, <1>4 DEF MistakeInv, Untrusted
  <1>6. ASSUME NEW q \in Rollouts \ {p} PROVE UnprovenBad(q)'
    BY <1>2, <1>3, <1>4, BadKeeps
  \* The others' miners keep still unless p uploads to them.
  <1>7. ASSUME UNCHANGED miner, NEW q \in Rollouts \ {p} PROVE Awaited(q)'
    BY <1>2, <1>3, <1>7, AwaitKeeps
  <1>8. ASSUME UNCHANGED miner, Awaited(p)', UnprovenBad(p)'
        PROVE  \A q \in Rollouts : Awaited(q)' /\ UnprovenBad(q)'
    BY <1>6, <1>7, <1>8
  <1>9. ASSUME UNCHANGED <<miner, verified>>, run'[p].pc # "verify",
               run'[p].image = run[p].image \/ verified[p] = {}
        PROVE  \A q \in Rollouts : Awaited(q)' /\ UnprovenBad(q)'
    BY <1>3, <1>8, <1>9, AwaitKeeps, BadKeeps
  <1>10. CASE DownloadOK(p)
    <2>1. /\ run'[p].pc = "loop" /\ run[p].pc = "download"
          /\ UNCHANGED <<miner, verified>>
      BY <1>1, <1>10 DEF DownloadOK, At, history, RunType
    <2>2. verified[p] = {}
      BY <2>1 DEF MistakeInv, Untrusted
    <2>3. QED BY <1>5, <1>9, <2>1, <2>2
  <1>11. CASE \/ DownloadFails(p) \/ LoopEnds(p) \/ ReportSuccess(p) \/ Exit(p)
              \/ BeginDevice(p) \/ SendOTA(p) \/ SendAborted(p) \/ VerifyFails(p)
    <2>1. /\ \E l \in {"exit", "success", "finished", "send", "ota"} :
                run' = [run EXCEPT ![p].pc = l]
          /\ UNCHANGED <<miner, verified>>
      BY <1>11 DEF DownloadFails, LoopEnds, ReportSuccess, Exit, BeginDevice, SendOTA,
                   SendAborted, VerifyFails, Fail, Goto, history
    <2>2. run'[p].pc # "verify" /\ run'[p].image = run[p].image
      BY <1>1, <2>1 DEF RunType
    <2>3. QED BY <1>5, <1>9, <2>1, <2>2
  <1>12. CASE SkipDevice(p)
    <2>1. /\ run'[p].pc = "loop" /\ run'[p].image = run[p].image
          /\ UNCHANGED <<miner, verified>>
      BY <1>1, <1>12 DEF SkipDevice, InLoop, At, history, RunType
    <2>2. QED BY <1>5, <1>9, <2>1
  \* The miner takes the image: who waits for it cannot tell any more.
  <1>13. ASSUME run[p].pc = "ota", Stores(p), NEW ps, Mistake(p, ps),
                WaitingToo(p) \subseteq ps, NEW q \in Rollouts \ {p}
         PROVE  Awaited(q)'
    <2>1. Current(p) \in Hosts
      BY <1>1, <1>13, WorkedOn
    <2>2. CASE run[q].pc = "verify" /\ Current(q) = Current(p)
      <3>1. q \in ps
        BY <1>13, <2>2 DEF WaitingToo, At
      <3>2. Current(p) \in mistakable'[q]
        BY <1>1, <1>13, <3>1, MistakeGrows
      <3>3. QED BY <1>2, <1>3, <2>2, <3>2, AwaitKeeps
    <2>3. CASE run[q].pc = "verify" /\ Current(q) # Current(p)
      <3>1. Current(q) \in Hosts
        BY <1>1, <2>3, WorkedOn
      <3>2. miner'[Current(q)] = miner[Current(q)]
        BY <1>1, <1>13, <2>3, <3>1 DEF Stores
      <3>3. QED BY <1>2, <1>3, <3>2, AwaitKeeps
    <2>4. CASE run[q].pc # "verify"
      BY <1>2, <2>4, AwaitKeeps
    <2>5. QED BY <2>2, <2>3, <2>4
  <1>14. CASE OTASucceeds(p)
    <2>1. /\ run[p].pc = "ota" /\ run'[p].image = run[p].image
          /\ run'[p].devs = run[p].devs /\ run'[p].idx = run[p].idx
          /\ ~run'[p].sawOffline
          /\ Stores(p) /\ UNCHANGED verified
      BY <1>1, <1>14 DEF OTASucceeds, At, RunType
    <2>2. Mistake(p, WaitingToo(p) \union {q \in {p} : miner[Current(p)].fresh})
      BY <1>14 DEF OTASucceeds
    <2>3. /\ miner'[Current(p)].power = "written"
          /\ miner'[Current(p)].boots = run[p].image
          /\ miner'[Current(p)].fresh = miner[Current(p)].fresh
          /\ Current(p)' = Current(p)
      BY <1>1, <2>1, WorkedOn DEF Stores, MinerType, Current
    <2>4. miner[Current(p)].fresh => Current(p) \in mistakable'[p]
      BY <1>1, <2>2, MistakeGrows
    <2>5. Awaited(p)'
      BY <2>1, <2>3, <2>4 DEF Awaited
    <2>6. UnprovenBad(p)'
      BY <1>3, <2>1, BadKeeps
    <2>7. ASSUME NEW q \in Rollouts \ {p} PROVE Awaited(q)'
      BY <1>13, <2>1, <2>2
    <2>8. QED BY <1>5, <1>6, <2>5, <2>6, <2>7
  <1>15. CASE OTAFails(p)
    <2>1. /\ run[p].pc = "ota" /\ UNCHANGED verified
          /\ run' = [run EXCEPT ![p].pc = "exit"]
          /\ \/ Stores(p) /\ Mistake(p, WaitingToo(p))
             \/ UNCHANGED miner
      BY <1>15 DEF OTAFails, Fail, Goto, At
    <2>2. run'[p].pc = "exit" /\ run'[p].image = run[p].image
      BY <1>1, <2>1 DEF RunType
    <2>3. Awaited(p)' /\ UnprovenBad(p)'
      BY <1>3, <2>1, <2>2, AwaitKeeps, BadKeeps
    <2>4. ASSUME NEW q \in Rollouts \ {p} PROVE Awaited(q)'
      BY <1>7, <1>13, <2>1
    <2>5. QED BY <1>5, <1>6, <2>3, <2>4
  <1>16. CASE PollError(p)
    <2>1. /\ run[p].pc = "verify" /\ run'[p].image = run[p].image
          /\ run'[p].devs = run[p].devs /\ run'[p].idx = run[p].idx
          /\ UNCHANGED <<miner, verified>>
          /\ Mistake(p, {q \in {p} : miner[Current(p)].power = "written"})
      BY <1>1, <1>16 DEF PollError, PollDue, At, RunType
    <2>2. miner[Current(p)].power = "written" => Current(p) \in mistakable'[p]
      BY <1>1, <2>1, MistakeGrows
    <2>3. Current(p)' = Current(p)
      BY <2>1 DEF Current
    <2>4. Awaited(p)'
      BY <1>1, <1>3, <2>1, <2>2, <2>3 DEF Awaited
    <2>5. UnprovenBad(p)'
      BY <1>3, <2>1, BadKeeps
    <2>6. QED BY <1>5, <1>8, <2>1, <2>4, <2>5
  \* Accepted: a miner that cannot be mistaken runs the image.
  <1>17. CASE PollAccepts(p)
    <2>1. /\ run[p].pc = "verify" /\ Current(p) \in Hosts
          /\ miner[Current(p)].power \in {"up", "written"}
          /\ miner[Current(p)].runs = "good"
          /\ run[p].sawOffline \/ miner[Current(p)].fresh
          /\ UNCHANGED <<miner, mistakable>>
          /\ run'[p].image = run[p].image /\ run'[p].pc = "loop"
          /\ verified'[p] = verified[p] \union {Current(p)}
      BY <1>1, <1>17, WorkedOn
      DEF PollAccepts, PollDue, Accept, At, RunType, MinerType
    <2>2. run[p].image = "bad" => Current(p) \in mistakable[p]
      BY <1>1, <2>1 DEF Awaited
    <2>3. UnprovenBad(p)'
      BY <1>1, <2>1, <2>2 DEF UnprovenBad
    <2>4. Awaited(p)'
      BY <2>1, AwaitKeeps
    <2>5. QED BY <1>5, <1>8, <2>1, <2>3, <2>4
  <1>18. QED
    BY <1>5, <1>10, <1>11, <1>12, <1>14, <1>15, <1>16, <1>17 DEF runRollout, verifyBack

\* A step of a miner: it goes down, boots what it was given, or grows older.
LEMMA MistakeMiners ==
    ASSUME MistakeInv, NEW h \in Hosts, GoDown(h) \/ Boot(h) \/ Ages(h)
    PROVE  Untrusted' /\ \A q \in Rollouts : Awaited(q)' /\ UnprovenBad(q)'
  <1>1. UNCHANGED <<run, verified, mistakable>>
    BY DEF GoDown, Boot, Ages, history
  <1>2. /\ miner'[h].boots = miner[h].boots
        /\ miner'[h].power = "written" =>
              miner[h].power = "written" /\ (miner'[h].fresh => miner[h].fresh)
        /\ miner'[h].power = "up" =>
              \/ miner'[h].runs = miner[h].boots
              \/ miner[h].power = "up" /\ miner'[h].runs = miner[h].runs
        /\ \A g \in Hosts \ {h} : miner'[g] = miner[g]
    <2>1. miner \in [Hosts -> MinerType]
      BY DEF MistakeInv, GateInv, TypeOK
    <2>2. CASE GoDown(h)
      BY <2>1, <2>2 DEF GoDown, MinerType
    <2>3. CASE Boot(h)
      BY <2>1, <2>3 DEF Boot, MinerType
    <2>4. CASE Ages(h)
      BY <2>1, <2>4 DEF Ages, MinerType
    <2>5. QED BY <2>2, <2>3, <2>4
  <1>3. ASSUME NEW p \in Rollouts PROVE Awaited(p)'
    <2>1. CASE run[p].pc = "verify" /\ Current(p) = h
      <3>1. Awaited(p) /\ Current(p)' = Current(p)
        BY <1>1 DEF MistakeInv, Current
      <3>2. QED BY <1>1, <1>2, <2>1, <3>1 DEF Awaited
    <2>2. CASE run[p].pc = "verify" /\ Current(p) # h
      <3>1. Current(p) \in Hosts
        BY <2>2, WorkedOn DEF MistakeInv
      <3>2. QED BY <1>1, <1>2, <2>2, <3>1, AwaitKeeps
    <2>3. CASE run[p].pc # "verify"
      BY <1>1, <2>3, AwaitKeeps
    <2>4. QED BY <2>1, <2>2, <2>3
  <1>4. QED BY <1>1, <1>3, BadKeeps DEF MistakeInv, Untrusted

LEMMA MistakeInit == Init => MistakeInv
  BY InitGate DEF Init, MistakeInv, Untrusted, Awaited, UnprovenBad, Starting

LEMMA MistakeNext == MistakeInv /\ [Next]_vars => MistakeInv'
  <1> SUFFICES ASSUME MistakeInv, [Next]_vars PROVE MistakeInv'
    OBVIOUS
  <1>1. GateInv'
    BY NextGate DEF MistakeInv
  <1> SUFFICES Untrusted' /\ \A q \in Rollouts : Awaited(q)' /\ UnprovenBad(q)'
    BY <1>1 DEF MistakeInv
  <1>2. CASE \E p \in Rollouts : StartRollout(p) \/ runRollout(p)
    BY <1>2, MistakeStart, MistakeLoop
  <1>3. CASE \E h \in Hosts : GoDown(h) \/ Boot(h) \/ Ages(h)
    BY <1>3, MistakeMiners
  <1>4. CASE CancelRollout \/ Terminated \/ UNCHANGED vars
    <2>1. UNCHANGED <<run, miner, verified, mistakable>>
      BY <1>4 DEF CancelRollout, Terminated, vars, history
    <2>2. QED BY <2>1, AwaitKeeps, BadKeeps DEF MistakeInv, Untrusted
  <1>5. CASE DaemonRestart
    <2>1. /\ UNCHANGED <<verified, mistakable>>
          /\ \A p \in Rollouts : /\ run'[p].pc \in {"idle", "finished"}
                                 /\ run'[p].pc = "idle" => run[p].pc = "idle"
                                 /\ run'[p].image = run[p].image
      BY <1>5 DEF DaemonRestart, At, MistakeInv, GateInv, TypeOK, RunType
    <2>2. Untrusted'
      BY <2>1 DEF MistakeInv, Untrusted, Starting
    <2>3. QED BY <2>1, <2>2, AwaitKeeps, BadKeeps
  <1>6. QED BY <1>2, <1>3, <1>4, <1>5 DEF Next

\* Whatever rollouts overlap and whenever miners reboot, an image that does not
\* hash reaches one miner besides those that were mistaken: the upload to a
\* further one needs all before it verified.
THEOREM OneMinerLost == Spec => []BadImageCostsOneMiner
  <1>1. MistakeInv => BadImageCostsOneMiner
    <2> SUFFICES ASSUME MistakeInv, NEW p \in Rollouts, run[p].image = "bad"
                 PROVE  Cardinality(Listed(sent[p]) \ mistakable[p]) <= 1
      BY DEF BadImageCostsOneMiner
    <2> DEFINE Lost == Listed(sent[p]) \ mistakable[p]
    <2>1. verified[p] \subseteq mistakable[p] /\ sent[p] \in Seq(Hosts)
      BY DEF MistakeInv, UnprovenBad, GateInv, TypeOK
    <2>2. \A j \in 1..Len(sent[p]) : j < Len(sent[p]) => sent[p][j] \in mistakable[p]
      BY <2>1 DEF MistakeInv, GateInv, CanaryGate
    <2>3. \A h \in Lost : h = sent[p][Len(sent[p])]
      <3>1. SUFFICES ASSUME NEW h \in Lost PROVE h = sent[p][Len(sent[p])]
        OBVIOUS
      <3>2. PICK j \in 1..Len(sent[p]) : h = sent[p][j]
        BY <2>1, ListedSeq
      <3>3. ~(j < Len(sent[p]))
        BY <2>2, <3>2
      <3>4. Len(sent[p]) \in Nat
        BY <2>1
      <3>5. j = Len(sent[p])
        BY <3>3, <3>4
      <3>6. QED BY <3>2, <3>5
    <2> HIDE DEF Lost
    <2>4. CASE Lost = {}
      BY <2>4, FS_EmptySet DEF Lost
    <2>5. CASE Lost # {}
      <3>1. Lost = {sent[p][Len(sent[p])]}
        BY <2>3, <2>5
      <3>2. Cardinality(Lost) = 1
        BY <3>1, FS_Singleton
      <3>3. QED BY <3>2 DEF Lost
    <2>6. QED BY <2>4, <2>5
  <1>2. QED BY MistakeInit, MistakeNext, <1>1, PTL DEF Spec

\* A host that the status does not list is not "ok" in it.
OnlyListed == \A h \in Hosts : status.st[h] = "ok" => h \in Listed(status.order)

\* The inductive invariant behind OkMeansRebooted.
OkInv == MistakeInv /\ OkMeansRebooted /\ OnlyListed

\* No device becomes "ok", none of those that are takes an image.
Settled ==
    /\ \A h \in Hosts : status'.st[h] = "ok" =>
          /\ status.st[h] = "ok" /\ status'.order = status.order
          /\ miner'[h].power = "written" => miner[h].power = "written"

LEMMA SettledKeeps ==
    ASSUME OkInv, Settled, [Next]_vars PROVE OkMeansRebooted' /\ OnlyListed'
  <1>1. \A p \in Rollouts : mistakable[p] \subseteq mistakable'[p]
    BY MistakableGrows DEF OkInv, MistakeInv, GateInv
  <1>2. QED BY <1>1 DEF OkInv, OkMeansRebooted, OnlyListed, Settled

\* To mark a device in another way makes none "ok", and the device is not "ok" then,
\* whether the status lists it or not.
LEMMA MarkedDown ==
    ASSUME OkInv, NEW h \in Hosts, NEW s, s # "ok"
    PROVE  /\ WithDevice(h, s).order = status.order
           /\ WithDevice(h, s).st[h] # "ok"
           /\ \A g \in Hosts : WithDevice(h, s).st[g] = "ok" => status.st[g] = "ok"
  <1>1. status \in StatusType /\ OnlyListed
    BY DEF OkInv, MistakeInv, GateInv, TypeOK
  <1>2. CASE h \in Listed(status.order)
    BY <1>1, <1>2 DEF WithDevice, StatusType
  <1>3. CASE h \notin Listed(status.order)
    BY <1>1, <1>3 DEF WithDevice, StatusType, OnlyListed
  <1>4. QED BY <1>2, <1>3

\* Fail marks the current device.
LEMMA FailMarks ==
    ASSUME OkInv, NEW p \in Rollouts, NEW why, Fail(p, why), Current(p) \in Hosts
    PROVE  /\ status'.order = status.order
           /\ status'.st[Current(p)] # "ok"
           /\ \A g \in Hosts : status'.st[g] = "ok" => status.st[g] = "ok"
  <1>1. /\ WithDevice(Current(p), "failed").order = status.order
        /\ WithDevice(Current(p), "failed").st[Current(p)] # "ok"
        /\ \A g \in Hosts : WithDevice(Current(p), "failed").st[g] = "ok" => status.st[g] = "ok"
    BY MarkedDown
  <1>2. WithDevice(Current(p), "failed") \in StatusType
    BY WithDeviceType DEF OkInv, MistakeInv, GateInv, DeviceStates
  <1>3. /\ status'.order = WithDevice(Current(p), "failed").order
        /\ status'.st = WithDevice(Current(p), "failed").st
    BY <1>2 DEF Fail, StatusType
  <1>4. QED BY <1>1, <1>3

\* The miner that takes the image is not "ok" after the step.
LEMMA StoreMarks ==
    ASSUME OkInv, NEW p \in Rollouts, Current(p) \in Hosts, Stores(p),
           status'.order = status.order, status'.st[Current(p)] # "ok",
           \A g \in Hosts : status'.st[g] = "ok" => status.st[g] = "ok"
    PROVE  Settled
  <1>1. \A h \in Hosts \ {Current(p)} : miner'[h] = miner[h]
    BY DEF Stores, OkInv, MistakeInv, GateInv, TypeOK
  <1>2. QED BY <1>1 DEF Settled

LEMMA OkStart ==
    ASSUME OkInv, NEW p \in Rollouts, StartRollout(p) PROVE Settled
  BY DEF StartRollout, CheckRunning, InstallStatus, NoOnlineMiner, InstallCancel,
         history, NoStatus, Settled

LEMMA OkLoop ==
    ASSUME OkInv, NEW p \in Rollouts, runRollout(p)
    PROVE  OkMeansRebooted' /\ OnlyListed'
  <1>1. /\ TypeOK /\ GateInv /\ GateAt(p) /\ Awaited(p)
        /\ status \in StatusType /\ run[p].idx \in Nat \ {0}
        /\ miner \in [Hosts -> MinerType]
    BY DEF OkInv, MistakeInv, GateInv, TypeOK, RunType
  <1>a. [Next]_vars
    BY DEF Next
  <1>2. /\ run[p].pc \in {"ota", "verify"} => Current(p) \in Hosts
        /\ InLoop(p) \/ run[p].pc = "send" => Current(p) \in Hosts
    BY <1>1, WorkedOn, CurrentIsHost DEF InLoop, GateAt
  <1>3. CASE DownloadOK(p) \/ DownloadFails(p) \/ LoopEnds(p) \/ ReportSuccess(p) \/ Exit(p)
    <2>1. status'.st = status.st /\ status'.order = status.order /\ UNCHANGED miner
      BY <1>1, <1>3
      DEF DownloadOK, DownloadFails, LoopEnds, ReportSuccess, Exit, StatusType
    <2>2. QED BY <2>1, <1>a, SettledKeeps DEF Settled
  <1>4. CASE SendOTA(p) \/ PollError(p)
    BY <1>4, <1>a, SettledKeeps DEF SendOTA, PollError, Settled
  <1>5. CASE SkipDevice(p) \/ BeginDevice(p)
    <2>1. /\ UNCHANGED miner
          /\ \E s \in {"skipped", "flashing"} : status' = WithDevice(Current(p), s)
          /\ Current(p) \in Hosts
      BY <1>2, <1>5 DEF SkipDevice, BeginDevice
    <2>2. QED BY <2>1, MarkedDown, <1>a, SettledKeeps DEF Settled
  <1>6. CASE SendAborted(p) \/ VerifyFails(p)
    <2>1. UNCHANGED miner /\ Current(p) \in Hosts /\ \E why : Fail(p, why)
      BY <1>2, <1>6 DEF SendAborted, VerifyFails, At
    <2>2. QED BY <2>1, FailMarks, <1>a, SettledKeeps DEF Settled
  <1>7. CASE OTASucceeds(p)
    <2>1. /\ Stores(p) /\ Current(p) \in Hosts
          /\ status' = WithDevice(Current(p), "verifying")
      BY <1>2, <1>7 DEF OTASucceeds, At
    <2>2. /\ status'.order = status.order /\ status'.st[Current(p)] # "ok"
          /\ \A g \in Hosts : status'.st[g] = "ok" => status.st[g] = "ok"
      BY <2>1, MarkedDown
    <2>3. QED BY <2>1, <2>2, StoreMarks, <1>a, SettledKeeps
  <1>8. CASE OTAFails(p)
    <2>1. /\ Stores(p) \/ UNCHANGED miner
          /\ Current(p) \in Hosts /\ \E why : Fail(p, why)
      BY <1>2, <1>8 DEF OTAFails, At
    <2>2. /\ status'.order = status.order /\ status'.st[Current(p)] # "ok"
          /\ \A g \in Hosts : status'.st[g] = "ok" => status.st[g] = "ok"
      BY <2>1, FailMarks
    <2>3. CASE Stores(p)
      BY <2>1, <2>2, <2>3, StoreMarks, <1>a, SettledKeeps
    <2>4. CASE UNCHANGED miner
      BY <2>2, <2>4, <1>a, SettledKeeps DEF Settled
    <2>5. QED BY <2>1, <2>3, <2>4
  \* Only here a device becomes "ok": it has rebooted, or may be mistaken.
  <1>9. CASE PollAccepts(p)
    <2>1. /\ UNCHANGED miner /\ Current(p) \in Hosts
          /\ run[p].pc = "verify" /\ UNCHANGED mistakable
          /\ run[p].sawOffline \/ miner[Current(p)].fresh
          /\ status'.order = status.order
          /\ status'.st = WithDevice(Current(p), "ok").st
      BY <1>1, <1>2, <1>9
      DEF PollAccepts, PollDue, Accept, At, WithDevice, StatusType
    <2>2. \A h \in Hosts : status'.st[h] = "ok" =>
             \/ status.st[h] = "ok"
             \/ h = Current(p) /\ h \in Listed(status.order)
      BY <1>1, <2>1 DEF WithDevice, StatusType
    <2>3. miner[Current(p)].power = "written" => Current(p) \in mistakable[p]
      BY <1>1, <2>1 DEF Awaited
    <2>4. QED BY <2>1, <2>2, <2>3 DEF OkInv, OkMeansRebooted, OnlyListed
  <1>10. QED
    BY <1>3, <1>4, <1>5, <1>6, <1>7, <1>8, <1>9 DEF runRollout, verifyBack

LEMMA OkNext == OkInv /\ [Next]_vars => OkInv'
  <1> SUFFICES ASSUME OkInv, [Next]_vars PROVE OkMeansRebooted' /\ OnlyListed'
    BY MistakeNext DEF OkInv
  <1>1. ASSUME NEW p \in Rollouts, StartRollout(p) \/ runRollout(p)
        PROVE  OkMeansRebooted' /\ OnlyListed'
    BY <1>1, OkStart, OkLoop, SettledKeeps
  <1>2. ASSUME NEW h \in Hosts, GoDown(h) \/ Boot(h) \/ Ages(h)
        PROVE  OkMeansRebooted' /\ OnlyListed'
    <2>1. miner \in [Hosts -> MinerType]
      BY DEF OkInv, MistakeInv, GateInv, TypeOK
    <2>2. /\ UNCHANGED status
          /\ \A g \in Hosts : miner'[g].power = "written" => miner[g].power = "written"
      BY <1>2, <2>1 DEF GoDown, Boot, Ages, MinerType
    <2>3. QED BY <2>2, SettledKeeps DEF Settled
  <1>3. CASE CancelRollout \/ Terminated \/ UNCHANGED vars
    BY <1>3, SettledKeeps DEF CancelRollout, Terminated, vars, Settled
  <1>4. CASE DaemonRestart
    BY <1>4, SettledKeeps DEF DaemonRestart, NoStatus, Settled
  <1>5. QED BY <1>1, <1>2, <1>3, <1>4 DEF Next

\* A device is shown "ok" only once it has rebooted, but where its old image may be
\* mistaken, whoever else flashes it: rollouts that overlap do not make the
\* report of any other device false.
THEOREM OkIsRebooted == Spec => []OkMeansRebooted
  <1>1. Init => OkInv
    BY MistakeInit DEF OkInv, Init, OkMeansRebooted, OnlyListed, NoStatus
  <1>2. OkInv => OkMeansRebooted
    BY DEF OkInv
  <1>3. QED BY <1>1, OkNext, <1>2, PTL DEF Spec

-----------------------------------------------------------------------------
(* No upload after a cancel *)

\* The context is looked at by client.OTA itself: however the cancel falls
\* between the loop's check and the upload, and whoever else works, no upload of
\* a cancelled rollout begins.
THEOREM CancelStopsUploads == Spec => NoUploadAfterCancel
  <1>1. TypeOK /\ [Next]_vars => [\A p \in cancelled : sent'[p] = sent[p]]_sent
    <2> SUFFICES ASSUME TypeOK, Next, sent' # sent
                 PROVE  \A p \in cancelled : sent'[p] = sent[p]
      BY DEF vars
    <2>1. PICK p \in Rollouts : SendOTA(p)
      BY DEF Next, StartRollout, CheckRunning, InstallStatus, NoOnlineMiner,
             InstallCancel, runRollout, DownloadOK, DownloadFails, SkipDevice,
             BeginDevice, SendAborted, OTASucceeds, OTAFails, verifyBack, PollError,
             PollAccepts, Accept, VerifyFails, LoopEnds, ReportSuccess, Exit,
             CancelRollout, GoDown, Boot, Ages, DaemonRestart, Terminated, history, vars
    <2>2. p \notin cancelled /\ sent' = [sent EXCEPT ![p] = Append(@, Current(p))]
      BY <2>1 DEF SendOTA
    <2>3. QED BY <2>2 DEF TypeOK
  <1>2. QED BY TypeCorrect, <1>1, PTL DEF Spec, NoUploadAfterCancel

-----------------------------------------------------------------------------
(* The promise of StagedRollout, and that serial rollouts keep it *)

\* Trust is earned by a touch and touches are targets: without it the last
\* target could be trusted untouched.
EarnedTrust ==
    cur # NoRollout =>
        /\ verified[cur] \subseteq Listed(sent[cur])
        /\ Listed(sent[cur]) \subseteq Listed(status.order)

StagedInv == EarnedTrust /\ Staged!Exposure /\ Staged!SuccessIsTotal

LEMMA StagedInit == Staged!Init => StagedInv
  BY DEF Staged!Init, StagedInv, EarnedTrust, Staged!Exposure, Staged!SuccessIsTotal

LEMMA StagedNext == StagedInv /\ [Staged!Next]_(Staged!stagedVars) => StagedInv'
  <1> SUFFICES ASSUME StagedInv, [Staged!Next]_(Staged!stagedVars) PROVE StagedInv'
    OBVIOUS
  <1> USE DEF StagedInv, EarnedTrust, Staged!Exposure, Staged!SuccessIsTotal
  <1>1. CASE Staged!Begin \/ Staged!Forget
    BY <1>1 DEF Staged!Begin, Staged!Forget
  <1>2. CASE Staged!Succeed
    BY <1>2 DEF Staged!Succeed
  <1>3. CASE Staged!Finish
    BY <1>3 DEF Staged!Finish
  <1>4. ASSUME NEW h \in Listed(status.order), Staged!Touch(h) PROVE StagedInv'
    BY <1>4 DEF Staged!Touch
  <1>5. ASSUME NEW h \in Listed(status.order), Staged!Trust(h) PROVE StagedInv'
    BY <1>5 DEF Staged!Trust
  <1>6. CASE UNCHANGED Staged!stagedVars
    BY <1>6 DEF Staged!stagedVars
  <1>7. QED
    BY <1>1, <1>2, <1>3, <1>4, <1>5, <1>6 DEF Staged!Next

\* The steps of the miners, of the users and of the goroutine's own business are
\* invisible: a step that keeps what is shown of the status stutters.
LEMMA Quiet ==
    ASSUME UNCHANGED <<cur, sent, verified>>, status'.running = status.running,
           status'.order = status.order, status'.ok = status.ok
    PROVE  UNCHANGED Staged!stagedVars
  BY DEF Staged!stagedVars

LEMMA StartImplements ==
    ASSUME ReportInv, NEW p \in Rollouts, StartRollout(p)
    PROVE  Staged!Begin \/ UNCHANGED Staged!stagedVars
  <1>1. CASE CheckRunning(p) \/ NoOnlineMiner(p) \/ InstallCancel(p)
    BY <1>1, Quiet DEF CheckRunning, NoOnlineMiner, InstallCancel, history
  <1>2. CASE InstallStatus(p)
    <2>1. PICK s \in Selections :
             status' = [NoStatus EXCEPT
               !.running = TRUE, !.message = "downloading", !.order = s,
               !.st = [h \in Hosts |-> IF h \in Listed(s) THEN "pending" ELSE "none"]]
      BY <1>2 DEF InstallStatus
    <2>2. status'.running /\ ~status'.ok /\ status'.order = s /\ status'.ok = FALSE
      BY <2>1 DEF NoStatus
    <2>3. /\ cur' = p /\ cur' # NoRollout /\ run[p].pc = "checked"
          /\ UNCHANGED <<sent, verified>>
      BY <1>2, RolloutAssumption DEF InstallStatus, At
    <2>4. Listed(s) \in SUBSET Hosts /\ s[1] \in Listed(s)
      <3>1. PICK n \in 1..MaxDevices : s \in [1..n -> Hosts]
        BY DEF Selections
      <3>2. 1 \in DOMAIN s
        BY <3>1, RolloutAssumption
      <3>3. s # <<>>
        BY <3>2
      <3>4. QED BY <3>3, SelectionsAreSeqs, ListedSeq
    <2>5. verified[p] = {} /\ Listed(sent[p]) = {} /\ ~status.running
      <3>1. sent[p] = <<>>
        BY <2>3 DEF ReportInv, GateInv, GateAt, Starting
      <3>2. QED BY <2>3, <3>1 DEF ReportInv, ShownInv, Untrusted, Free, Starting, Listed
    <2>6. QED BY <2>2, <2>3, <2>4, <2>5 DEF Staged!Begin
  <1>3. QED BY <1>1, <1>2 DEF StartRollout

LEMMA LoopImplements ==
    ASSUME ReportInv, NEW p \in Rollouts, runRollout(p)
    PROVE  \/ \E h \in Listed(status.order) : Staged!Touch(h) \/ Staged!Trust(h)
           \/ Staged!Succeed \/ Staged!Finish
           \/ UNCHANGED Staged!stagedVars
  <1>1. /\ run[p].pc \in Working
        /\ cur = p /\ cur' = p /\ cur # NoRollout /\ status.running
        /\ Shown(p) /\ Proven(p) /\ GateAt(p)
        /\ TypeOK /\ status.order \in Seq(Hosts) /\ status \in StatusType
        /\ run[p].idx \in Nat \ {0} /\ run[p].devs \in Seq(Hosts)
        /\ sent[p] \in Seq(Hosts) /\ Len(sent[p]) <= Len(run[p].devs)
        /\ \A j \in 1..Len(sent[p]) : sent[p][j] = run[p].devs[j]
    BY Owner, GoroutineFrame
    DEF ReportInv, GateInv, CanaryGate, TypeOK, RunType, StatusType
  <1>2. CASE \/ DownloadOK(p) \/ DownloadFails(p) \/ SkipDevice(p) \/ BeginDevice(p)
             \/ SendAborted(p) \/ OTASucceeds(p) \/ OTAFails(p) \/ PollError(p)
             \/ VerifyFails(p) \/ LoopEnds(p)
    <2>1. UNCHANGED <<cur, sent, verified>>
      BY <1>2
      DEF DownloadOK, DownloadFails, SkipDevice, BeginDevice, SendAborted, OTASucceeds,
          OTAFails, PollError, VerifyFails, LoopEnds, history
    <2>2. /\ status'.running = status.running
          /\ status'.order = status.order /\ status'.ok = status.ok
      <3>1. CASE DownloadOK(p) \/ DownloadFails(p)
        BY <1>1, <3>1 DEF DownloadOK, DownloadFails, Fail, StatusType
      <3>2. CASE SkipDevice(p) \/ BeginDevice(p) \/ OTASucceeds(p)
        BY <1>1, <3>2 DEF SkipDevice, BeginDevice, OTASucceeds, WithDevice, StatusType
      <3>3. CASE OTAFails(p) \/ VerifyFails(p)
        BY <1>1, <3>3 DEF OTAFails, VerifyFails, Fail, WithDevice, StatusType
      <3>4. CASE SendAborted(p)
        BY <1>1, <3>4 DEF SendAborted, Fail, WithDevice, StatusType
      <3>5. CASE PollError(p) \/ LoopEnds(p)
        BY <1>1, <3>5 DEF PollError, LoopEnds, StatusType
      <3>6. QED BY <1>2, <3>1, <3>2, <3>3, <3>4, <3>5
    <2>3. QED BY <2>1, <2>2, Quiet
  <1>3. CASE SendOTA(p)
    <2>1. /\ run[p].pc = "send" /\ UNCHANGED <<status, cur, verified>>
          /\ sent'[p] = Append(sent[p], Current(p))
      BY <1>1, <1>3 DEF SendOTA, At, TypeOK
    <2>2. /\ run[p].idx = Len(sent[p]) + 1 /\ run[p].idx <= Len(run[p].devs)
          /\ \A j \in 1..Len(sent[p]) : sent[p][j] \in verified[p]
      BY <1>1, <2>1 DEF GateAt
    <2>3. Current(p) \in Listed(status.order) /\ Current(p) = status.order[run[p].idx]
      BY <1>1, <2>1, <2>2, CurrentListed DEF InLoopPart, Handling
    <2>4. Listed(sent[p]) = {} => Current(p) = status.order[1]
      <3>1. sent[p] # <<>> => sent[p][1] \in Listed(sent[p])
        BY <1>1, ListedSeq
      <3>2. QED BY <1>1, <2>2, <2>3, <3>1
    <2>5. Listed(sent[p]) \subseteq verified[p]
      BY <1>1, <2>2, ListedSeq
    <2>6. Listed(sent'[p]) = Listed(sent[p]) \union {Current(p)}
      <3>1. DOMAIN sent'[p] = DOMAIN sent[p] \union {Len(sent[p]) + 1}
        BY <1>1, <2>1, <2>3, AppendProperties, CurrentIsHost, <2>2
      <3>2. /\ \A j \in DOMAIN sent[p] : sent'[p][j] = sent[p][j]
            /\ sent'[p][Len(sent[p]) + 1] = Current(p)
        BY <1>1, <2>1, <2>2, AppendProperties, CurrentIsHost
      <3>3. QED BY <3>1, <3>2 DEF Listed
    <2>7. Staged!Touch(Current(p))
      BY <1>1, <2>1, <2>4, <2>5, <2>6 DEF Staged!Touch
    <2>8. QED BY <2>3, <2>7
  <1>4. CASE PollAccepts(p)
    <2>1. /\ run[p].pc = "verify" /\ UNCHANGED <<cur, sent>>
          /\ verified'[p] = verified[p] \union {Current(p)}
      BY <1>1, <1>4 DEF PollAccepts, PollDue, Accept, At, TypeOK
    <2>2. /\ status'.running = status.running
          /\ status'.order = status.order /\ status'.ok = status.ok
      BY <1>1, <1>4 DEF PollAccepts, Accept, WithDevice, StatusType
    <2>3. run[p].idx = Len(sent[p])
      BY <1>1, <2>1 DEF GateAt
    <2>4. Current(p) \in Listed(status.order)
      BY <1>1, <2>1, <2>3, CurrentListed DEF InLoopPart, Handling
    <2>5. Current(p) \in Listed(sent[p])
      <3>1. run[p].idx \in 1..Len(sent[p]) /\ sent[p][run[p].idx] = Current(p)
        BY <1>1, <2>3 DEF Current
      <3>2. QED BY <1>1, <3>1, ListedSeq
    <2>6. Staged!Trust(Current(p))
      BY <1>1, <2>1, <2>2, <2>5 DEF Staged!Trust
    <2>7. QED BY <2>4, <2>6
  <1>5. CASE ReportSuccess(p)
    <2>1. /\ run[p].pc = "success" /\ UNCHANGED <<cur, sent, verified>>
          /\ status'.running = status.running
          /\ status'.order = status.order /\ status'.ok = TRUE
      BY <1>1, <1>5 DEF ReportSuccess, At, history, StatusType
    <2>2. verified[p] = Listed(status.order)
      BY <1>1, <2>1 DEF Proven, Shown
    <2>3. QED BY <1>1, <2>1, <2>2 DEF Staged!Succeed
  <1>6. CASE Exit(p)
    <2>1. /\ UNCHANGED <<cur, sent, verified>>
          /\ status'.running = FALSE
          /\ status'.order = status.order /\ status'.ok = status.ok
      BY <1>1, <1>6 DEF Exit, history, StatusType
    <2>2. QED BY <1>1, <2>1 DEF Staged!Finish
  <1>7. QED
    BY <1>2, <1>3, <1>4, <1>5, <1>6 DEF runRollout, verifyBack

LEMMA StepImplements ==
    ASSUME ReportInv, [Next]_vars PROVE [Staged!Next]_(Staged!stagedVars)
  <1>1. CASE \E p \in Rollouts : StartRollout(p) \/ runRollout(p)
    BY <1>1, StartImplements, LoopImplements DEF Staged!Next
  <1>2. CASE DaemonRestart
    <2>1. /\ status' = NoStatus /\ cur' = NoRollout
      BY <1>2 DEF DaemonRestart
    <2>2. Staged!Forget
      BY <2>1 DEF Staged!Forget, NoStatus, Listed
    <2>3. QED BY <2>2 DEF Staged!Next
  <1>3. CASE CancelRollout \/ \E h \in Hosts : GoDown(h) \/ Boot(h) \/ Ages(h)
    BY <1>3, Quiet DEF CancelRollout, GoDown, Boot, Ages, history
  <1>4. CASE Terminated \/ UNCHANGED vars
    BY <1>4, Quiet DEF Terminated, vars
  <1>5. QED BY <1>1, <1>2, <1>3, <1>4 DEF Next

LEMMA InitImplements == Init => Staged!Init
  BY DEF Init, Staged!Init, NoStatus, Listed

\* runRollout, with all its locks, waits and failures, is a staged rollout.
THEOREM ImplementsStaged == ASSUME ~ConcurrentStarts PROVE Spec => StagedSpec
  <1>1. QED
    BY ReportInit, ReportNext, InitImplements, StepImplements, PTL
    DEF Spec, StagedSpec, Staged!Spec

\* No two miners of a rollout run an image that nobody has seen hash.
THEOREM OneUnproven == Staged!Spec => []Staged!Exposure
  <1>1. StagedInv => Staged!Exposure
    BY DEF StagedInv
  <1>2. QED BY StagedInit, StagedNext, <1>1, PTL DEF Staged!Spec

\* Success covers every target.
THEOREM TotalSuccess == Staged!Spec => []Staged!SuccessIsTotal
  <1>1. StagedInv => Staged!SuccessIsTotal
    BY DEF StagedInv
  <1>2. QED BY StagedInit, StagedNext, <1>1, PTL DEF Staged!Spec

\* What the abstract rollout promises, runRollout keeps.
THEOREM PromiseKept ==
    ASSUME ~ConcurrentStarts
    PROVE  Spec => [](Staged!Exposure /\ Staged!SuccessIsTotal)
  BY ImplementsStaged, OneUnproven, TotalSuccess, PTL DEF StagedSpec
=============================================================================
