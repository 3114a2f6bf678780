---------------------------- MODULE RegistryProofs ----------------------------
(***************************************************************************)
(* What Registry keeps for any number of hosts, handlers and probes.        *)
(***************************************************************************)
EXTENDS Registry, TLAPS, FiniteSetTheorems

-----------------------------------------------------------------------------
(* Types *)

ThreadType == [pc : {"idle", "persist", "store", "probe", "add"},
               host : Hosts \union {Absent}, snap : Snapshots]

LEMMA EmptyType == EmptyState \in Snapshots
  BY DEF EmptyState, Snapshots

LEMMA IdleType == Idle \in ThreadType
  BY EmptyType DEF Idle, ThreadType

LEMMA NewMinerType ==
  ASSUME NEW name \in Names
  PROVE  NewMiner(name) \in MinerType /\ NewMiner(name) # Absent
<1>1. 0 \in 0 .. OfflineAfter
  BY RegistryAssumption
<1>2. NewMiner(name) \in MinerType
  BY <1>1 DEF NewMiner, MinerType
<1>3. QED
  BY <1>2, RegistryAssumption

LEMMA LoadedType ==
  ASSUME NEW s \in Snapshots
  PROVE  /\ LoadedMiners(s) \in [Hosts -> MinerType \union {Absent}]
         /\ LoadedPool(s) \in Pools
<1>1. ASSUME NEW h \in Hosts, s.names[h] # Absent
      PROVE  NewMiner(s.names[h]) \in MinerType
  <2>1. s.names[h] \in Names
    BY <1>1 DEF Snapshots
  <2>2. QED
    BY <2>1, NewMinerType
<1>2. LoadedPool(s) \in Pools
  BY RegistryAssumption DEF LoadedPool, Snapshots
<1>3. QED
  BY <1>1, <1>2 DEF LoadedMiners

LEMMA SnapshotType ==
  ASSUME TypeOK
  PROVE  Snapshot \in Snapshots
  BY DEF Snapshot, Snapshots, TypeOK, MinerType

LEMMA TypeInit == Init => TypeOK
<1> SUFFICES ASSUME Init PROVE TypeOK
  OBVIOUS
<1>1. th \in [Threads -> ThreadType]
  BY IdleType DEF Init
<1>2. scan \in ScanType
  BY DEF Init, NoScan, ScanType
<1>3. QED
  BY <1>1, <1>2, EmptyType, LoadedType DEF Init, TypeOK, ThreadType

LEMMA SavesType ==
  ASSUME TypeOK, NEW s \in Snapshots, Saves(s)
  PROVE  store' \in Snapshots /\ file' \in Snapshots /\ saved' \in BOOLEAN
  BY DEF Saves, TypeOK

\* The steps of polls, which change entries and the feed only.
LEMMA PollKeepsTypes ==
  ASSUME TypeOK, NEW p \in Polls, pollOne(p)
  PROVE  TypeOK'
<1> DEFINE h == p[2]
           m == miners[h]
<1>1. h \in Hosts /\ poll' \in [Polls -> {"none", "asked", "answered"}]
  BY RegistryAssumption DEF Polls, pollOne, PollGone, PollFails, PollSucceeds, EndPoll, TypeOK
<1>2. /\ miners' \in [Hosts -> MinerType \union {Absent}]
      /\ told' \in [Hosts -> {"none", "offline", "online"}]
  <2>1. CASE PollGone(p)
    BY <2>1 DEF PollGone, TypeOK
  <2>2. CASE PollFails(p)
    <3>1. m \in MinerType
      BY <1>1, <2>2 DEF PollFails, TypeOK
    <3>2. FailsAfter(m) \in 0 .. OfflineAfter
      BY <3>1, RegistryAssumption DEF FailsAfter, MinerType
    <3> DEFINE lost == m.online /\ FailsAfter(m) >= OfflineAfter
    <3>3. [m EXCEPT !.fails = FailsAfter(m), !.online = m.online /\ ~lost] \in MinerType
      BY <3>1, <3>2 DEF MinerType
    <3>4. miners' = [miners EXCEPT ![h] =
             [m EXCEPT !.fails = FailsAfter(m), !.online = m.online /\ ~lost]]
      BY <1>1, <2>2, <3>1 DEF PollFails, TypeOK, MinerType
    <3>5. told' \in [Hosts -> {"none", "offline", "online"}]
      BY <2>2 DEF PollFails, TypeOK
    <3>6. QED
      BY <3>3, <3>4, <3>5 DEF TypeOK
  <2>3. CASE PollSucceeds(p)
    <3>1. m \in MinerType
      BY <1>1, <2>3 DEF PollSucceeds, TypeOK
    <3>2. [m EXCEPT !.fails = 0, !.online = TRUE, !.seen = TRUE] \in MinerType
      <4>1. 0 \in 0 .. OfflineAfter
        BY RegistryAssumption
      <4>2. QED
        BY <3>1, <4>1 DEF MinerType
    <3>3. QED
      BY <2>3, <3>2 DEF PollSucceeds, TypeOK
  <2>4. QED
    BY <2>1, <2>2, <2>3 DEF pollOne
<1>3. UNCHANGED <<pool, th, scan, disk, up>>
  BY DEF pollOne, PollGone, PollFails, PollSucceeds, EndPoll
<1>4. QED
  BY <1>1, <1>2, <1>3 DEF TypeOK, disk

LEMMA AddKeepsTypes ==
  ASSUME TypeOK, NEW t \in Threads, NEW h \in Hosts, NEW name \in Names,
         AddEntry(t, h, name)
  PROVE  TypeOK'
<1>1. [Idle EXCEPT !.pc = "persist", !.host = h] \in ThreadType
  BY IdleType DEF ThreadType
<1>2. th' \in [Threads -> ThreadType]
  BY <1>1, IdleType DEF AddEntry, GoPersist, Return, TypeOK, ThreadType
<1>3. /\ miners' \in [Hosts -> MinerType \union {Absent}]
      /\ told' \in [Hosts -> {"none", "offline", "online"}]
  BY NewMinerType DEF AddEntry, TypeOK
<1>4. QED
  BY <1>2, <1>3 DEF AddEntry, TypeOK, ThreadType, disk

\* A probe asks an address of the subnet.
ProbeInv == \A t \in Threads : At(t, "probe") \/ At(t, "add") => th[t].host \in Hosts

LEMMA TypeStep == TypeOK /\ ProbeInv /\ [Next]_vars => TypeOK'
<1> SUFFICES ASSUME TypeOK, ProbeInv, [Next]_vars PROVE TypeOK'
  OBVIOUS
<1> USE DEF ThreadType
<1>1. ASSUME PollAll PROVE TypeOK'
  BY <1>1 DEF PollAll, TypeOK, registry, disk
<1>2. ASSUME NEW p \in Polls, MinerAnswers(p) PROVE TypeOK'
  BY <1>2 DEF MinerAnswers, TypeOK, registry, disk
<1>3. ASSUME NEW p \in Polls, pollOne(p) PROVE TypeOK'
  BY <1>3, PollKeepsTypes
<1>4. ASSUME NEW t \in Handlers, Request(t) PROVE TypeOK'
  <2>1. [Idle EXCEPT !.pc = "persist", !.host = Absent] \in ThreadType
    BY IdleType
  <2>2. CASE AddMiner(t)
    BY <2>2, AddKeepsTypes DEF AddMiner, Threads
  <2>3. CASE RemoveMiner(t)
    BY <2>1, <2>3 DEF RemoveMiner, GoPersist, TypeOK, disk
  <2>4. CASE RenameMiner(t)
    <3>1. PICK h \in Registered, name \in Names : miners' = [miners EXCEPT ![h].name = name]
      BY <2>4 DEF RenameMiner
    <3>2. h \in Hosts /\ [miners[h] EXCEPT !.name = name] \in MinerType
      BY <3>1 DEF Registered, TypeOK, MinerType
    <3>3. miners' \in [Hosts -> MinerType \union {Absent}]
      BY <3>1, <3>2 DEF TypeOK
    <3>4. QED
      BY <2>1, <2>4, <3>3 DEF RenameMiner, GoPersist, TypeOK, disk
  <2>5. CASE SetPool(t)
    BY <2>1, <2>5 DEF SetPool, GoPersist, TypeOK, disk
  <2>6. QED
    BY <1>4, <2>2, <2>3, <2>4, <2>5 DEF Request
<1>5. ASSUME NEW t \in Threads, persist(t) PROVE TypeOK'
  <2>1. CASE PersistReads(t)
    <3>1. [th[t] EXCEPT !.pc = "store", !.snap = Snapshot] \in ThreadType
      BY SnapshotType DEF TypeOK
    <3>2. th' \in [Threads -> ThreadType]
      BY <2>1, <3>1 DEF PersistReads, TypeOK
    <3>3. QED
      BY <2>1, <3>2 DEF PersistReads, TypeOK, registry, disk
  <2>2. CASE PersistStores(t)
    <3>1. th[t].snap \in Snapshots
      BY DEF TypeOK
    <3>2. store' \in Snapshots /\ file' \in Snapshots /\ saved' \in BOOLEAN
      BY <2>2, <3>1, SavesType DEF PersistStores
    <3>3. poll' \in [Polls -> {"none", "asked", "answered"}]
      BY <2>2 DEF PersistStores, TypeOK
    <3>4. QED
      BY <2>2, <3>2, <3>3, IdleType DEF PersistStores, Return, TypeOK, registry
  <2>3. QED
    BY <1>5, <2>1, <2>2 DEF persist
<1>6. ASSUME NEW s \in Scanners, Probe(s) PROVE TypeOK'
  <2>1. s \in Threads
    BY DEF Threads
  <2>2. CASE ProbeBegins(s)
    <3>1. PICK h \in scan.todo :
            /\ scan' = [scan EXCEPT !.todo = @ \ {h}]
            /\ th' = [th EXCEPT ![s].pc = "probe", ![s].host = h]
      BY <2>2 DEF ProbeBegins
    <3>2. h \in Hosts /\ scan' \in ScanType
      BY <3>1 DEF TypeOK, ScanType
    <3>3. [th[s] EXCEPT !.pc = "probe", !.host = h] \in ThreadType
      BY <2>1, <3>2, ZenonT(40) DEF TypeOK
    <3>4. th' \in [Threads -> ThreadType]
      BY <3>1, <3>3 DEF TypeOK
    <3>5. QED
      BY <2>2, <3>2, <3>4 DEF ProbeBegins, TypeOK, registry, disk
  <2>3. CASE ProbeEnds(s)
    <3>1. scan' \in ScanType
      BY <2>3 DEF ProbeEnds, TypeOK, ScanType
    <3>2. [th[s] EXCEPT !.pc = "add"] \in ThreadType
      BY <2>1 DEF TypeOK
    <3>3. th' \in [Threads -> ThreadType]
      BY <2>3, <3>2, IdleType DEF ProbeEnds, Return, TypeOK
    <3>4. QED
      BY <2>3, <3>1, <3>3 DEF ProbeEnds, TypeOK, registry, disk
  <2>4. CASE ProbeAdds(s)
    <3>1. th[s].host \in Hosts
      BY <2>1, <2>4 DEF ProbeAdds, ProbeInv
    <3>2. QED
      BY <2>1, <2>4, <3>1, AddKeepsTypes, RegistryAssumption DEF ProbeAdds
  <2>5. QED
    BY <1>6, <2>2, <2>3, <2>4 DEF Probe
<1>7. ASSUME OthersSave PROVE TypeOK'
  BY <1>7, SavesType DEF OthersSave, TypeOK, registry
<1>8. ASSUME StartScan \/ ScanPlans \/ ScanEnds PROVE TypeOK'
  <2>1. /\ scan' \in ScanType
        /\ UNCHANGED <<registry, th, poll, disk, up>>
    <3>1. CASE StartScan
      BY <3>1 DEF StartScan, NoScan, ScanType
    <3>2. CASE ScanPlans
      BY <3>2 DEF ScanPlans, TypeOK, ScanType
    <3>3. CASE ScanEnds
      BY <3>3 DEF ScanEnds, TypeOK, ScanType
    <3>4. QED
      BY <1>8, <3>1, <3>2, <3>3
  <2>2. QED
    BY <2>1 DEF TypeOK, registry, disk
<1>9. ASSUME MinerChanges PROVE TypeOK'
  BY <1>9 DEF MinerChanges, TypeOK, registry, disk
<1>10. ASSUME DaemonRestart PROVE TypeOK'
  BY <1>10, IdleType, LoadedType DEF DaemonRestart, NoScan, TypeOK, ScanType
<1>11. ASSUME UNCHANGED vars PROVE TypeOK'
  BY <1>11 DEF vars, TypeOK
<1>12. QED
  BY <1>1, <1>2, <1>3, <1>4, <1>5, <1>6, <1>7, <1>8, <1>9, <1>10, <1>11
  DEF Next, PollStep

LEMMA ProbeInit == Init => ProbeInv
  BY DEF Init, ProbeInv, Idle, At

LEMMA ProbeStep == TypeOK /\ ProbeInv /\ [Next]_vars => ProbeInv'
<1> SUFFICES ASSUME TypeOK, ProbeInv, [Next]_vars PROVE ProbeInv'
  OBVIOUS
<1> USE DEF ProbeInv, At
<1>1. ASSUME UNCHANGED th PROVE ProbeInv'
  BY <1>1
<1>2. ASSUME NEW t \in Threads, NEW r, th' = [th EXCEPT ![t] = r],
             r.pc \in {"probe", "add"} => r.host \in Hosts
      PROVE  ProbeInv'
  BY <1>2 DEF TypeOK
<1>3. ASSUME NEW t \in Threads, Return(t) PROVE ProbeInv'
  BY <1>2, <1>3 DEF Return, Idle
<1>4. ASSUME NEW t \in Threads, NEW h, GoPersist(t, h) PROVE ProbeInv'
  BY <1>2, <1>4 DEF GoPersist, Idle
<1>5. ASSUME NEW s \in Scanners, ProbeBegins(s) PROVE ProbeInv'
  <2>1. PICK h \in scan.todo : th' = [th EXCEPT ![s].pc = "probe", ![s].host = h]
    BY <1>5 DEF ProbeBegins
  <2>2. h \in Hosts
    BY DEF TypeOK, ScanType
  <2>3. QED
    BY <2>1, <2>2 DEF Threads, TypeOK
<1>6. ASSUME NEW s \in Scanners, ProbeEnds(s) PROVE ProbeInv'
  <2>1. s \in Threads
    BY DEF Threads
  <2>2. CASE Return(s)
    BY <2>1, <2>2, <1>3
  <2>3. CASE th' = [th EXCEPT ![s].pc = "add"]
    BY <1>6, <2>1, <2>3 DEF ProbeEnds, TypeOK
  <2>4. QED
    BY <1>6, <2>2, <2>3 DEF ProbeEnds
<1>7. ASSUME NEW t \in Threads, PersistReads(t) PROVE ProbeInv'
  BY <1>7 DEF PersistReads, TypeOK
<1>8. ASSUME NEW t \in Threads, NEW h, NEW name, AddEntry(t, h, name) PROVE ProbeInv'
  BY <1>3, <1>4, <1>8 DEF AddEntry
<1>9. ASSUME DaemonRestart PROVE ProbeInv'
  BY <1>9 DEF DaemonRestart, Idle
<1>10. ASSUME NEW t \in Handlers, Request(t) PROVE ProbeInv'
  BY <1>10, <1>4, <1>8 DEF Request, AddMiner, RemoveMiner, RenameMiner, SetPool, Threads
<1>11. ASSUME NEW s \in Scanners, ProbeAdds(s) PROVE ProbeInv'
  BY <1>11, <1>8 DEF ProbeAdds, Threads
<1>12. ASSUME NEW t \in Threads, PersistStores(t) PROVE ProbeInv'
  BY <1>12, <1>3 DEF PersistStores
<1>13. CASE UNCHANGED vars
  BY <1>1, <1>13 DEF vars
<1>14. CASE PollStep
  BY <1>1, <1>14 DEF PollStep, PollAll, MinerAnswers, pollOne, PollGone, PollFails,
                     PollSucceeds, EndPoll
<1>15. CASE OthersSave \/ StartScan \/ ScanPlans \/ ScanEnds \/ MinerChanges
  BY <1>1, <1>15 DEF OthersSave, StartScan, ScanPlans, ScanEnds, MinerChanges
<1>16. QED
  BY <1>5, <1>6, <1>7, <1>9, <1>10, <1>11, <1>12, <1>13, <1>14, <1>15
  DEF Next, persist, Probe

\* Type correctness (TypeOK).
THEOREM TypeCorrect == Spec => []TypeOK
<1>1. Init => TypeOK /\ ProbeInv
  BY TypeInit, ProbeInit
<1>2. TypeOK /\ ProbeInv /\ [Next]_vars => (TypeOK /\ ProbeInv)'
  BY TypeStep, ProbeStep
<1>3. QED
  BY <1>1, <1>2, PTL DEF Spec

-----------------------------------------------------------------------------
(* Alerts *)

\* A miner that is online has answered.
AlertInv ==
    AlertsTellTheState /\ \A h \in Registered : miners[h].online => miners[h].seen

LEMMA AlertInit == Init => AlertInv
  BY EmptyType DEF Init, AlertInv, AlertsTellTheState, Registered, LoadedMiners,
                   EmptyState

LEMMA AlertPoll ==
  ASSUME TypeOK, AlertInv, NEW p \in Polls, pollOne(p)
  PROVE  AlertInv'
<1> DEFINE h == p[2]
<1>1. h \in Hosts
  BY RegistryAssumption DEF Polls
<1>2. ASSUME NEW g \in Hosts, g # h
      PROVE  miners'[g] = miners[g] /\ told'[g] = told[g]
  BY <1>2 DEF pollOne, PollGone, PollFails, PollSucceeds, TypeOK
<1>3. ASSUME miners'[h] # Absent
      PROVE  /\ told'[h] = "offline" <=> ~miners'[h].online /\ miners'[h].seen
             /\ miners'[h].online => miners'[h].seen
  <2> DEFINE m == miners[h]
  <2>1. CASE PollGone(p)
    BY <1>3, <2>1 DEF PollGone
  <2>2. ASSUME m # Absent
        PROVE  /\ m \in MinerType
               /\ told[h] = "offline" <=> ~m.online /\ m.seen
               /\ m.online => m.seen
    BY <1>1, <2>2 DEF TypeOK, AlertInv, AlertsTellTheState, Registered
  <2>3. CASE PollFails(p)
    <3> DEFINE lost == m.online /\ FailsAfter(m) >= OfflineAfter
    <3>1. m # Absent
      BY <2>3 DEF PollFails
    <3>2. /\ miners'[h].online = (m.online /\ ~lost)
          /\ miners'[h].seen = m.seen
      BY <1>1, <2>2, <2>3, <3>1 DEF PollFails, TypeOK, MinerType
    <3>3. told'[h] = IF lost THEN "offline" ELSE told[h]
      BY <1>1, <2>3 DEF PollFails, TypeOK
    <3> HIDE DEF lost
    <3>4. lost => m.online
      BY DEF lost
    <3>5. m.online \in BOOLEAN /\ m.seen \in BOOLEAN
      BY <2>2, <3>1 DEF MinerType
    <3>6. QED
      BY <2>2, <3>1, <3>2, <3>3, <3>4, <3>5
  <2>4. CASE PollSucceeds(p)
    <3>1. m # Absent
      BY <2>4 DEF PollSucceeds
    <3>2. miners'[h].online /\ miners'[h].seen
      BY <1>1, <2>2, <2>4, <3>1 DEF PollSucceeds, TypeOK, MinerType
    <3>3. told'[h] = IF ~m.online /\ m.seen THEN "online" ELSE told[h]
      BY <1>1, <2>4 DEF PollSucceeds, TypeOK
    <3>4. QED
      BY <2>2, <3>1, <3>2, <3>3
  <2>5. QED
    BY <2>1, <2>3, <2>4 DEF pollOne
<1>4. QED
  BY <1>2, <1>3 DEF AlertInv, AlertsTellTheState, Registered

LEMMA AlertStep == TypeOK /\ ProbeInv /\ AlertInv /\ [Next]_vars => AlertInv'
<1> SUFFICES ASSUME TypeOK, ProbeInv, AlertInv, [Next]_vars PROVE AlertInv'
  OBVIOUS
<1> USE DEF AlertInv, AlertsTellTheState, Registered
<1>1. ASSUME UNCHANGED registry PROVE AlertInv'
  BY <1>1 DEF registry
<1>2. ASSUME NEW p \in Polls, pollOne(p) PROVE AlertInv'
  BY <1>2, AlertPoll
<1>3. ASSUME NEW t \in Threads, NEW h \in Hosts, NEW name \in Names, AddEntry(t, h, name)
      PROVE  AlertInv'
  BY <1>3 DEF AddEntry, NewMiner, TypeOK
<1>4. ASSUME NEW t \in Handlers, Request(t) PROVE AlertInv'
  <2>1. CASE AddMiner(t)
    BY <1>3, <2>1 DEF AddMiner, Threads
  <2>2. CASE RemoveMiner(t)
    BY <2>2 DEF RemoveMiner, TypeOK
  <2>3. CASE RenameMiner(t)
    <3>1. PICK h \in Registered, name \in Names :
            miners' = [miners EXCEPT ![h].name = name] /\ told' = told
      BY <2>3 DEF RenameMiner
    <3>2. miners[h] \in MinerType
      BY <3>1 DEF TypeOK
    <3>3. \A g \in Hosts : miners'[g] # Absent =>
             /\ miners[g] # Absent
             /\ miners'[g].online = miners[g].online /\ miners'[g].seen = miners[g].seen
      BY <3>1, <3>2 DEF TypeOK, MinerType
    <3>4. QED
      BY <3>1, <3>3
  <2>4. CASE SetPool(t)
    BY <2>4 DEF SetPool
  <2>5. QED
    BY <1>4, <2>1, <2>2, <2>3, <2>4 DEF Request
<1>5. ASSUME NEW s \in Scanners, Probe(s) PROVE AlertInv'
  <2>1. CASE ProbeAdds(s)
    <3>1. s \in Threads /\ th[s].host \in Hosts
      BY <2>1 DEF ProbeAdds, ProbeInv, Threads
    <3>2. QED
      BY <1>3, <2>1, <3>1, RegistryAssumption DEF ProbeAdds
  <2>2. QED
    BY <1>1, <1>5, <2>1 DEF Probe, ProbeBegins, ProbeEnds
<1>6. CASE DaemonRestart
  <2>1. ASSUME NEW h \in Hosts, miners'[h] # Absent
        PROVE  ~miners'[h].online /\ ~miners'[h].seen /\ told'[h] = "none"
    BY <1>6, <2>1 DEF DaemonRestart, LoadedMiners, NewMiner
  <2>2. QED
    BY <2>1
<1>7. ASSUME NEW t \in Threads, persist(t) PROVE AlertInv'
  BY <1>1, <1>7 DEF persist, PersistReads, PersistStores
<1>8. CASE PollAll \/ \E p \in Polls : MinerAnswers(p)
  BY <1>1, <1>8 DEF PollAll, MinerAnswers
<1>9. CASE OthersSave \/ StartScan \/ ScanPlans \/ ScanEnds \/ MinerChanges
  BY <1>1, <1>9 DEF OthersSave, StartScan, ScanPlans, ScanEnds, MinerChanges
<1>10. CASE UNCHANGED vars
  BY <1>1, <1>10 DEF vars, registry
<1>11. QED
  BY <1>2, <1>4, <1>5, <1>6, <1>7, <1>8, <1>9, <1>10 DEF Next, PollStep

\* The alert feed and the fleet page agree about every registered miner
\* (AlertsTellTheState).
THEOREM AlertsAgree == Spec => []AlertsTellTheState
<1>1. Init => TypeOK /\ ProbeInv /\ AlertInv
  BY TypeInit, ProbeInit, AlertInit
<1>2. TypeOK /\ ProbeInv /\ AlertInv /\ [Next]_vars => (TypeOK /\ ProbeInv /\ AlertInv)'
  BY TypeStep, ProbeStep, AlertStep
<1>3. AlertInv => AlertsTellTheState
  BY DEF AlertInv
<1>4. QED
  BY <1>1, <1>2, <1>3, PTL DEF Spec

-----------------------------------------------------------------------------
(* The store *)

\* Snapshots that a restart loads back as they are.
Loads(s) == s.pool = NoPool => s = EmptyState

\* The newest snapshot, on its way or stored last, is what the registry is now.
NewestCurrent ==
    \/ newest \in Threads /\ th[newest].snap = Snapshot
    \/ newest = Absent /\ (overtaken \/ store \in {Snapshot, EmptyState})

\* The registry changed and is going to be read, or the newest snapshot has it.
StoreInv ==
    /\ (\E t \in Threads : At(t, "persist")) \/ NewestCurrent
    /\ newest \in Threads => At(newest, "store")
    /\ \A t \in Threads : At(t, "store") => Loads(th[t].snap)
    /\ Loads(store) /\ Loads(file)
    /\ saved => file = store

LEMMA StoreInit == Init => StoreInv
  BY RegistryAssumption DEF Init, StoreInv, NewestCurrent, At, Idle, Loads, EmptyState, Threads

LEMMA SnapshotLoads ==
  ASSUME TypeOK
  PROVE  Loads(Snapshot)
  BY RegistryAssumption DEF TypeOK, Loads, Snapshot

LEMMA LoadedBack ==
  ASSUME NEW s \in Snapshots, s.pool # NoPool
  PROVE  /\ [h \in Hosts |-> IF LoadedMiners(s)[h] = Absent THEN Absent
                             ELSE LoadedMiners(s)[h].name] = s.names
         /\ LoadedPool(s) = s.pool
<1>1. ASSUME NEW h \in Hosts
      PROVE  (IF LoadedMiners(s)[h] = Absent THEN Absent ELSE LoadedMiners(s)[h].name)
                = s.names[h]
  <2>1. CASE s.names[h] = Absent
    BY <2>1 DEF LoadedMiners
  <2>2. CASE s.names[h] # Absent
    <3>1. s.names[h] \in Names
      BY <2>2 DEF Snapshots
    <3>2. NewMiner(s.names[h]) # Absent /\ NewMiner(s.names[h]).name = s.names[h]
      BY <3>1, NewMinerType DEF NewMiner
    <3>3. QED
      BY <2>2, <3>2 DEF LoadedMiners
  <2>3. QED
    BY <2>1, <2>2
<1>2. s.names \in [Hosts -> Names \union {Absent}]
  BY DEF Snapshots
<1>3. QED
  BY <1>1, <1>2 DEF LoadedPool

\* A poll changes neither the names nor the set of the registered miners.
LEMMA PollKeepsSnapshot ==
  ASSUME TypeOK, NEW p \in Polls, pollOne(p)
  PROVE  Snapshot' = Snapshot
<1> DEFINE h == p[2]
           NameOf(m) == IF m = Absent THEN Absent ELSE m.name
<1>1. h \in Hosts /\ pool' = pool
  BY RegistryAssumption
  DEF Polls, pollOne, PollGone, PollFails, PollSucceeds, EndPoll
<1>2. ASSUME NEW g \in Hosts PROVE NameOf(miners'[g]) = NameOf(miners[g])
  <2>1. CASE PollGone(p)
    BY <2>1 DEF PollGone
  <2>2. CASE miners[h] # Absent /\ ~PollGone(p)
    <3>1. miners[h] \in MinerType
      BY <1>1, <2>2 DEF TypeOK
    <3>2. miners' \in [Hosts -> MinerType \union {Absent}]
      BY PollKeepsTypes DEF TypeOK
    <3>3. miners'[h].name = miners[h].name /\ (g # h => miners'[g] = miners[g])
      <4>1. CASE PollFails(p)
        BY <1>1, <3>1, <4>1 DEF PollFails, TypeOK, MinerType
      <4>2. CASE PollSucceeds(p)
        BY <1>1, <3>1, <4>2 DEF PollSucceeds, TypeOK, MinerType
      <4>3. QED
        BY <2>2, <4>1, <4>2 DEF pollOne
    <3>4. miners'[h] # Absent
      <4>1. CASE PollFails(p)
        <5> DEFINE m == miners[h]
                   lost == m.online /\ FailsAfter(m) >= OfflineAfter
        <5>1. FailsAfter(m) \in 0 .. OfflineAfter
          BY <3>1, RegistryAssumption DEF FailsAfter, MinerType
        <5>2. miners'[h] = [m EXCEPT !.fails = FailsAfter(m), !.online = m.online /\ ~lost]
          BY <1>1, <3>1, <4>1 DEF PollFails, TypeOK, MinerType
        <5>3. miners'[h] \in MinerType
          BY <3>1, <5>1, <5>2 DEF MinerType
        <5>4. QED
          BY <5>3, RegistryAssumption
      <4>2. CASE PollSucceeds(p)
        <5>1. 0 \in 0 .. OfflineAfter
          BY RegistryAssumption
        <5>2. miners'[h] \in MinerType
          BY <1>1, <3>1, <4>2, <5>1 DEF PollSucceeds, TypeOK, MinerType
        <5>3. QED
          BY <5>2, RegistryAssumption
      <4>3. QED
        BY <2>2, <4>1, <4>2 DEF pollOne
    <3>5. QED
      BY <2>2, <3>3, <3>4
  <2>3. QED
    BY <2>1, <2>2 DEF pollOne, PollFails, PollSucceeds
<1>3. QED
  BY <1>1, <1>2 DEF Snapshot

LEMMA StoreStep ==
  TypeOK /\ ProbeInv /\ StoreInv /\ [Next]_vars => StoreInv'
<1> SUFFICES ASSUME TypeOK, ProbeInv, StoreInv, [Next]_vars
             PROVE  StoreInv'
  OBVIOUS
<1> USE DEF StoreInv, NewestCurrent, At
<1>a. Absent \notin Threads
  BY RegistryAssumption DEF Threads
<1>1. ASSUME Snapshot' = Snapshot, UNCHANGED <<th, store, file, saved, newest, overtaken>>
      PROVE  StoreInv'
  BY <1>1
\* A thread that neither stores nor is about to moves on, to "persist" if it
\* has changed the registry.
<1>2. ASSUME NEW t \in Threads, NEW r, th[t].pc \notin {"persist", "store"},
             th' = [th EXCEPT ![t] = r], r.pc # "store",
             r.pc = "persist" \/ Snapshot' = Snapshot,
             UNCHANGED <<store, file, saved, newest, overtaken>>
      PROVE  StoreInv'
  <2>1. \A u \in Threads : th'[u].pc = "store" =>
            th[u].pc = "store" /\ th'[u] = th[u]
    BY <1>2 DEF TypeOK
  <2>2. th'[t] = r /\ \A u \in Threads : u # t => th'[u] = th[u]
    BY <1>2 DEF TypeOK
  <2>a. newest \in Threads => newest # t /\ th'[newest] = th[newest]
    BY <1>2, <2>2
  <2>b. /\ newest' \in Threads => th'[newest'].pc = "store"
        /\ \A u \in Threads : th'[u].pc = "store" => Loads(th'[u].snap)
        /\ Loads(store') /\ Loads(file') /\ (saved' => file' = store')
    BY <1>2, <2>1, <2>a
  <2>3. CASE r.pc = "persist"
    BY <2>2, <2>3, <2>b
  <2>4. CASE Snapshot' = Snapshot
    <3>1. CASE \E u \in Threads : th[u].pc = "persist"
      BY <1>2, <2>2, <2>b, <3>1
    <3>2. CASE NewestCurrent
      BY <1>2, <2>4, <2>a, <2>b, <3>2
    <3>3. QED BY <3>1, <3>2
  <2>5. QED
    BY <1>2, <2>3, <2>4
<1>3. ASSUME NEW t \in Threads, NEW h, th[t].pc \in {"idle", "add"}, GoPersist(t, h),
             UNCHANGED disk
      PROVE  StoreInv'
  <2> DEFINE r == [Idle EXCEPT !.pc = "persist", !.host = h]
  <2>1. r.pc = "persist" /\ th' = [th EXCEPT ![t] = r] /\ UNCHANGED disk
    BY <1>3 DEF GoPersist, Idle, disk
  <2> HIDE DEF r
  <2>2. QED
    BY <1>2, <1>3, <2>1 DEF disk
<1>4. ASSUME NEW t \in Threads, NEW h, NEW name, th[t].pc \in {"idle", "add"},
             AddEntry(t, h, name)
      PROVE  StoreInv'
  <2>1. UNCHANGED disk /\ (GoPersist(t, h) \/ (Return(t) /\ Snapshot' = Snapshot))
    BY <1>4 DEF AddEntry, Snapshot
  <2>2. CASE Return(t) /\ Snapshot' = Snapshot
    BY <1>2, <1>4, <2>1, <2>2 DEF Return, Idle, disk
  <2>3. QED
    BY <1>3, <1>4, <2>1, <2>2
<1>5. ASSUME NEW t \in Handlers, Request(t) PROVE StoreInv'
  BY <1>3, <1>4, <1>5 DEF Request, AddMiner, RemoveMiner, RenameMiner, SetPool, Threads
<1>6. ASSUME NEW t \in Threads, PersistReads(t) PROVE StoreInv'
  <2>1. /\ Snapshot' = Snapshot /\ UNCHANGED <<store, file, saved>> /\ newest' = t
        /\ th' = [th EXCEPT ![t].pc = "store", ![t].snap = Snapshot]
    BY <1>6 DEF PersistReads, Snapshot, registry
  <2>2. th'[t].pc = "store" /\ th'[t].snap = Snapshot
    BY <2>1 DEF TypeOK
  <2>3. \A u \in Threads : u # t => th'[u] = th[u]
    BY <2>1 DEF TypeOK
  <2>4. QED
    BY <2>1, <2>2, <2>3, SnapshotLoads
<1>7. ASSUME NEW t \in Threads, PersistStores(t) PROVE StoreInv'
  <2>1. /\ th[t].pc = "store" /\ Saves(th[t].snap) /\ Snapshot' = Snapshot
        /\ th' = [th EXCEPT ![t] = Idle]
        /\ overtaken' = (t # newest)
        /\ newest' = IF t = newest THEN Absent ELSE newest
    BY <1>7 DEF PersistStores, Return, Snapshot, registry
  <2>2. /\ store' = th[t].snap /\ file' \in {th[t].snap, file}
        /\ saved' => file' = store'
    BY <2>1 DEF Saves
  <2>3. /\ th'[t].pc = "idle" /\ \A u \in Threads : u # t => th'[u] = th[u]
    BY <2>1 DEF TypeOK, Idle
  <2>a. /\ newest' \in Threads => th'[newest'].pc = "store"
        /\ \A u \in Threads : th'[u].pc = "store" => Loads(th'[u].snap)
        /\ Loads(store') /\ Loads(file') /\ (saved' => file' = store')
    BY <1>a, <2>1, <2>2, <2>3
  <2>4. CASE \E u \in Threads : th[u].pc = "persist"
    <3>1. \E u \in Threads : th'[u].pc = "persist"
      BY <2>1, <2>3, <2>4
    <3>2. QED BY <2>a, <3>1
  <2>5. CASE NewestCurrent /\ newest = t
    BY <1>a, <2>1, <2>2, <2>5, <2>a
  <2>6. CASE NewestCurrent /\ newest # t
    BY <2>1, <2>3, <2>6, <2>a
  <2>7. QED
    BY <2>4, <2>5, <2>6
<1>8. ASSUME NEW s \in Scanners, Probe(s) PROVE StoreInv'
  <2>1. s \in Threads
    BY DEF Threads
  <2>2. CASE ProbeBegins(s)
    <3>1. PICK h \in scan.todo : th' = [th EXCEPT ![s].pc = "probe", ![s].host = h]
      BY <2>2 DEF ProbeBegins
    <3>2. th' = [th EXCEPT ![s] = [th[s] EXCEPT !.pc = "probe", !.host = h]]
      BY <2>1, <3>1 DEF TypeOK
    <3>3. [th[s] EXCEPT !.pc = "probe", !.host = h].pc = "probe"
      BY <2>1 DEF TypeOK
    <3>4. QED
      BY <1>2, <2>1, <2>2, <3>2, <3>3 DEF ProbeBegins, Snapshot, registry, disk
  <2>3. CASE ProbeEnds(s)
    <3>1. [th[s] EXCEPT !.pc = "add"].pc = "add" /\ Idle.pc = "idle"
      BY <2>1 DEF TypeOK, Idle
    <3>2. \/ th' = [th EXCEPT ![s] = Idle]
          \/ th' = [th EXCEPT ![s] = [th[s] EXCEPT !.pc = "add"]]
      BY <2>1, <2>3 DEF ProbeEnds, Return, TypeOK
    <3>3. QED
      BY <1>2, <2>1, <2>3, <3>1, <3>2 DEF ProbeEnds, Snapshot, registry, disk
  <2>4. CASE ProbeAdds(s)
    BY <1>4, <2>1, <2>4 DEF ProbeAdds
  <2>5. QED
    BY <1>8, <2>2, <2>3, <2>4 DEF Probe
<1>9. CASE OthersSave
  <2>1. /\ Snapshot' = Snapshot /\ UNCHANGED <<th, newest, overtaken>> /\ store' = store
        /\ file' \in {store, file} /\ (saved' => file' = store')
    BY <1>9 DEF OthersSave, Saves, Snapshot, registry
  <2>2. QED
    BY <2>1
<1>10. CASE DaemonRestart
  <2>1. /\ store' = file /\ file' = file /\ miners' = LoadedMiners(file)
        /\ pool' = LoadedPool(file) /\ \A t \in Threads : th'[t].pc = "idle"
        /\ newest' = Absent /\ saved' = TRUE
    BY <1>10 DEF DaemonRestart, Idle
  <2>2. CASE file.pool = NoPool
    BY <1>a, <2>1, <2>2 DEF Loads
  <2>3. CASE file.pool # NoPool
    <3>1. file \in Snapshots
      BY DEF TypeOK
    <3>2. Snapshot' = [names |-> file.names, pool |-> file.pool]
      BY <2>1, <2>3, <3>1, LoadedBack DEF Snapshot
    <3>3. Snapshot' = file
      BY <3>1, <3>2 DEF Snapshots
    <3>4. QED
      BY <1>a, <2>1, <3>3
  <2>4. QED
    BY <2>2, <2>3
<1>11. ASSUME NEW p \in Polls, pollOne(p) PROVE StoreInv'
  BY <1>1, <1>11, PollKeepsSnapshot
  DEF pollOne, PollGone, PollFails, PollSucceeds, EndPoll, disk
<1>12. CASE PollAll \/ \E p \in Polls : MinerAnswers(p)
  BY <1>1, <1>12 DEF PollAll, MinerAnswers, Snapshot, registry, disk
<1>13. CASE StartScan \/ ScanPlans \/ ScanEnds \/ MinerChanges \/ UNCHANGED vars
  BY <1>1, <1>13
  DEF StartScan, ScanPlans, ScanEnds, MinerChanges, Snapshot, registry, disk, vars
<1>14. QED
  BY <1>5, <1>6, <1>7, <1>8, <1>9, <1>10, <1>11, <1>12, <1>13
  DEF Next, PollStep, persist

\* Between calls the store holds the registry and the pool in force, and so does
\* state.json if it could be written, across restarts too, unless the last persist
\* to store had read before another one: however many overlapped before.
THEOREM StoreFollows == Spec => []StoredIsCurrent
<1>1. Init => TypeOK /\ ProbeInv /\ StoreInv
  BY TypeInit, ProbeInit, StoreInit
<1>2. TypeOK /\ ProbeInv /\ StoreInv /\ [Next]_vars
        => (TypeOK /\ ProbeInv /\ StoreInv)'
  BY TypeStep, ProbeStep, StoreStep
<1>3. StoreInv => StoredIsCurrent
  BY DEF StoreInv, NewestCurrent, StoredIsCurrent, At
<1>4. QED
  BY <1>1, <1>2, <1>3, PTL DEF Spec

-----------------------------------------------------------------------------
(* The scan *)

Probing == {s \in Scanners : At(s, "probe")}
ScanInv == IsFiniteSet(Probing) /\ ScanAccounts

LEMMA ScanInit == Init => ScanInv
<1> SUFFICES ASSUME Init PROVE ScanInv
  OBVIOUS
<1>1. \A s \in Scanners : At(s, "idle")
  BY DEF Init, Idle, At, Threads
<1>2. Probing = {}
  BY <1>1 DEF Probing, At
<1>3. scan = NoScan
  BY DEF Init
<1>4. QED
  BY <1>1, <1>2, <1>3, FS_EmptySet DEF ScanInv, ScanAccounts, Probing, NoScan

LEMMA NoProbes ==
  ASSUME \A s \in Scanners : At(s, "idle")
  PROVE  Probing = {} /\ IsFiniteSet(Probing) /\ Cardinality(Probing) = 0
<1>1. Probing = {}
  BY DEF Probing, At
<1>2. QED
  BY <1>1, FS_EmptySet

\* Steps that leave the scan and its probes alone.
LEMMA ScanSame ==
  ASSUME ScanInv, scan' = scan,
         \A s \in Scanners : At(s, "probe")' <=> At(s, "probe"),
         scan.running \/ \A s \in Scanners : At(s, "idle") => At(s, "idle")'
  PROVE  ScanInv'
<1>1. Probing' = Probing
  BY DEF Probing
<1>2. QED
  BY <1>1 DEF ScanInv, ScanAccounts, Probing

\* The numbers that ScanAccounts adds up.
LEMMA ScanNumbers ==
  ASSUME TypeOK, ScanInv
  PROVE  /\ scan.scanned \in Nat /\ IsFiniteSet(scan.todo)
         /\ Cardinality(scan.todo) \in Nat /\ Cardinality(Probing) \in Nat
         /\ scan.scanned + Cardinality(Probing) + Cardinality(scan.todo) = scan.total
         /\ scan.total \in {0, Cardinality(Hosts)} /\ Cardinality(Hosts) \in Nat
<1>1. scan.scanned \in Nat /\ scan.todo \subseteq Hosts /\ scan.total \in {0, Cardinality(Hosts)}
  BY DEF TypeOK, ScanType
<1>2. IsFiniteSet(scan.todo)
  BY <1>1, FS_Subset, RegistryAssumption
<1>3. QED
  BY <1>1, <1>2, FS_CardinalityType, RegistryAssumption DEF ScanInv, ScanAccounts, Probing

LEMMA ScanControls ==
  ASSUME TypeOK, ScanInv, StartScan \/ ScanPlans \/ ScanEnds
  PROVE  ScanInv'
<1>1. th' = th /\ Probing' = Probing /\ \A s \in Scanners, l \in {"idle", "probe"} : At(s, l)' = At(s, l)
  BY DEF StartScan, ScanPlans, ScanEnds, Probing, At
<1>2. CASE StartScan
  <2>1. \A s \in Scanners : At(s, "idle")
    BY <1>2 DEF StartScan, ScanInv, ScanAccounts
  <2>2. scan'.running /\ scan'.scanned = 0 /\ scan'.total = 0 /\ scan'.todo = {}
    BY <1>2 DEF StartScan, NoScan
  <2>3. Probing' = {}
    BY <1>1, <2>1, NoProbes
  <2>4. QED
    BY <2>2, <2>3, FS_EmptySet DEF ScanInv, ScanAccounts, Probing
<1>3. CASE ScanPlans
  <2>1. /\ scan.total = 0 /\ scan.scanned = 0 /\ Cardinality(Probing) = 0
    BY <1>3, ScanNumbers DEF ScanPlans
  <2>2. /\ scan'.running /\ scan'.scanned = scan.scanned
        /\ scan'.total = Cardinality(Hosts) /\ scan'.todo = Hosts
    BY <1>3 DEF ScanPlans, TypeOK, ScanType
  <2>3. QED
    BY <1>1, <2>1, <2>2, ScanNumbers DEF ScanInv, ScanAccounts, Probing
<1>4. CASE ScanEnds
  <2>1. /\ scan'.scanned = scan.scanned /\ scan'.total = scan.total /\ scan'.todo = scan.todo
        /\ \A s \in Scanners : At(s, "idle")
    BY <1>4 DEF ScanEnds, TypeOK, ScanType
  <2>2. QED
    BY <1>1, <2>1 DEF ScanInv, ScanAccounts, Probing
<1>5. QED
  BY <1>2, <1>3, <1>4

LEMMA ScanProbes ==
  ASSUME TypeOK, ScanInv, NEW s \in Scanners, ProbeBegins(s) \/ ProbeEnds(s)
  PROVE  ScanInv'
<1>1. s \in Threads /\ Scanners \subseteq Threads
  BY DEF Threads
<1>2. CASE ProbeBegins(s)
  <2>1. PICK h \in scan.todo :
          /\ scan' = [scan EXCEPT !.todo = @ \ {h}]
          /\ th' = [th EXCEPT ![s].pc = "probe", ![s].host = h]
    BY <1>2 DEF ProbeBegins
  <2>2. /\ scan'.running /\ scan'.total = scan.total /\ scan'.scanned = scan.scanned
        /\ scan'.todo = scan.todo \ {h}
    BY <1>2, <2>1 DEF ProbeBegins, TypeOK, ScanType
  <2>3. Probing' = Probing \union {s} /\ s \notin Probing
    <3>1. At(s, "probe")' /\ ~At(s, "probe")
      BY <1>1, <1>2, <2>1 DEF ProbeBegins, TypeOK, At
    <3>2. \A u \in Scanners \ {s} : At(u, "probe")' <=> At(u, "probe")
      BY <1>1, <2>1 DEF TypeOK, At
    <3>3. QED
      BY <3>1, <3>2 DEF Probing
  <2>4. /\ IsFiniteSet(Probing')
        /\ Cardinality(Probing') = Cardinality(Probing) + 1
    BY <2>3, FS_AddElement DEF ScanInv
  <2>5. Cardinality(scan'.todo) = Cardinality(scan.todo) - 1
    BY <2>1, <2>2, FS_RemoveElement, ScanNumbers
  <2>6. QED
    BY <2>2, <2>4, <2>5, ScanNumbers DEF ScanInv, ScanAccounts, Probing
<1>3. CASE ProbeEnds(s)
  <2>1. /\ scan'.running = scan.running /\ scan'.total = scan.total
        /\ scan'.scanned = scan.scanned + 1 /\ scan'.todo = scan.todo
    BY <1>3 DEF ProbeEnds, TypeOK, ScanType
  <2>2. Probing' = Probing \ {s} /\ s \in Probing
    <3>1. ~At(s, "probe")' /\ At(s, "probe")
      BY <1>1, <1>3 DEF ProbeEnds, Return, Idle, TypeOK, At
    <3>2. \A u \in Scanners \ {s} : At(u, "probe")' <=> At(u, "probe")
      BY <1>1, <1>3 DEF ProbeEnds, Return, TypeOK, At
    <3>3. QED
      BY <3>1, <3>2 DEF Probing
  <2>3. /\ IsFiniteSet(Probing')
        /\ Cardinality(Probing') = Cardinality(Probing) - 1
    BY <2>2, FS_RemoveElement DEF ScanInv
  <2>4. scan.running
    BY <1>3 DEF ProbeEnds, ScanInv, ScanAccounts, At
  <2>5. QED
    BY <2>1, <2>3, <2>4, ScanNumbers DEF ScanInv, ScanAccounts, Probing
<1>4. QED
  BY <1>2, <1>3

LEMMA ScanStep == TypeOK /\ ScanInv /\ [Next]_vars => ScanInv'
<1> SUFFICES ASSUME TypeOK, ScanInv, [Next]_vars PROVE ScanInv'
  OBVIOUS
<1>1. ASSUME UNCHANGED <<scan, th>> PROVE ScanInv'
  BY <1>1, ScanSame DEF At
<1>2. ASSUME scan' = scan, NEW t \in Threads, NEW r, th' = [th EXCEPT ![t] = r],
             t \in Scanners => /\ ~At(t, "idle") /\ ~At(t, "probe")
                               /\ r.pc # "probe"
      PROVE  ScanInv'
  <2>1. \A s \in Scanners : At(s, "probe")' <=> At(s, "probe")
    BY <1>2 DEF At, TypeOK, Threads
  <2>2. scan.running \/ \A s \in Scanners : At(s, "idle") => At(s, "idle")'
    BY <1>2 DEF At, TypeOK, Threads, ScanInv, ScanAccounts
  <2>3. QED
    BY <1>2, <2>1, <2>2, ScanSame
<1>3. ASSUME scan' = scan, NEW t \in Threads,
             Return(t) \/ \E h : GoPersist(t, h),
             t \in Scanners => ~At(t, "idle") /\ ~At(t, "probe")
      PROVE  ScanInv'
  <2>1. PICK r : th' = [th EXCEPT ![t] = r] /\ r.pc # "probe"
    <3>1. CASE Return(t)
      <4>1. Idle.pc # "probe"
        BY DEF Idle
      <4>2. QED
        BY <3>1, <4>1 DEF Return
    <3>2. CASE \E h : GoPersist(t, h)
      <4>1. PICK h : GoPersist(t, h)
        BY <3>2
      <4>2. [Idle EXCEPT !.pc = "persist", !.host = h].pc # "probe"
        BY DEF Idle
      <4>3. QED
        BY <4>1, <4>2 DEF GoPersist
    <3>3. QED
      BY <1>3, <3>1, <3>2
  <2>2. QED
    BY <1>2, <1>3, <2>1
<1>4. ASSUME NEW t \in Handlers, Request(t) PROVE ScanInv'
  <2>1. t \in Threads /\ t \notin Scanners
    BY RegistryAssumption DEF Threads
  <2>2. scan' = scan /\ (Return(t) \/ \E h : GoPersist(t, h))
    BY <1>4 DEF Request, AddMiner, AddEntry, RemoveMiner, RenameMiner, SetPool
  <2>3. QED
    BY <1>3, <2>1, <2>2
<1>5. ASSUME NEW t \in Threads, persist(t) PROVE ScanInv'
  <2>1. CASE PersistReads(t)
    <3> DEFINE r == [th[t] EXCEPT !.pc = "store", !.snap = Snapshot]
    <3>1. th' = [th EXCEPT ![t] = r] /\ scan' = scan /\ At(t, "persist")
      BY <2>1 DEF PersistReads, TypeOK
    <3>2. r.pc # "probe"
      BY DEF TypeOK
    <3> HIDE DEF r
    <3>3. QED
      BY <1>2, <3>1, <3>2 DEF At
  <2>2. CASE PersistStores(t)
    BY <1>3, <2>2 DEF PersistStores, At
  <2>3. QED
    BY <1>5, <2>1, <2>2 DEF persist
<1>6. ASSUME NEW s \in Scanners, Probe(s) PROVE ScanInv'
  <2>1. CASE ProbeAdds(s)
    <3>1. s \in Threads /\ At(s, "add")
      BY <2>1 DEF ProbeAdds, Threads
    <3>2. scan' = scan /\ (Return(s) \/ \E h : GoPersist(s, h))
      BY <2>1 DEF ProbeAdds, AddEntry
    <3>3. QED
      BY <1>3, <3>1, <3>2 DEF At
  <2>2. QED
    BY <1>6, <2>1, ScanProbes DEF Probe
<1>7. CASE StartScan \/ ScanPlans \/ ScanEnds
  BY <1>7, ScanControls
<1>8. CASE DaemonRestart
  <2>1. \A s \in Scanners : At(s, "idle")'
    BY <1>8 DEF DaemonRestart, Idle, At, Threads
  <2>2. scan' = NoScan
    BY <1>8 DEF DaemonRestart
  <2>3. Probing' = {}
    BY <2>1 DEF Probing, At
  <2>4. QED
    BY <2>1, <2>2, <2>3, FS_EmptySet DEF ScanInv, ScanAccounts, Probing, NoScan
<1>9. CASE PollStep \/ OthersSave \/ MinerChanges \/ UNCHANGED vars
  BY <1>1, <1>9 DEF PollStep, PollAll, MinerAnswers, pollOne, PollGone, PollFails,
                    PollSucceeds, EndPoll, OthersSave, MinerChanges, vars
<1>10. QED
  BY <1>4, <1>5, <1>6, <1>7, <1>8, <1>9 DEF Next

\* The progress that a scan shows is that of one scan: the probes counted, those
\* under way and the addresses left add up to the subnet, and a scan that is over
\* has left no probe behind (ScanAccounts).
THEOREM ScansAccount == Spec => []ScanAccounts
<1>1. Init => TypeOK /\ ProbeInv /\ ScanInv
  BY TypeInit, ProbeInit, ScanInit
<1>2. TypeOK /\ ProbeInv /\ ScanInv /\ [Next]_vars => (TypeOK /\ ProbeInv /\ ScanInv)'
  BY TypeStep, ProbeStep, ScanStep
<1>3. ScanInv => ScanAccounts
  BY DEF ScanInv
<1>4. QED
  BY <1>1, <1>2, <1>3, PTL DEF Spec
=============================================================================
