---------------------------- MODULE FleetOpsProofs ----------------------------
(* Theorems about FleetOps, for any number of calls, miners and pools. *)
EXTENDS FleetOps, TLAPS, SequenceTheorems, FiniteSetTheorems

\* The shape of the records, with nothing said about the values a client sends.
IsCall(k) ==
    /\ k = [op |-> k.op, pc |-> k.pc, pool |-> k.pool, tune |-> k.tune,
            hosts |-> k.hosts, i |-> k.i, res |-> k.res]
    /\ k.op \in {"none", "pool", "preset", "patch", "restart"}
    /\ k.pc \in {"idle", "patch", "restart", "over"}
    /\ k.op = "none" <=> k.pc = "idle"
    /\ k.hosts \in Seq(Hosts) /\ k.i \in Nat \ {0}
IsDev(d) == d = [asic |-> d.asic, nvs |-> d.nvs, use |-> d.use, up |-> d.up]

Shape ==
    /\ call = [c \in Calls |-> call[c]] /\ \A c \in Calls : IsCall(call[c])
    /\ dev = [h \in Hosts |-> dev[h]] /\ \A h \in Hosts : IsDev(dev[h])
    /\ miner = [h \in Hosts |-> miner[h]]
    /\ \A h \in Hosts : miner[h] = [online |-> miner[h].online, asic |-> miner[h].asic]
    /\ alone \in [Hosts -> Calls \union {None}]
    /\ odd \subseteq Hosts

\* A call has answered for the hosts before the one it is at.
HostsUpTo(k, n) == {k.hosts[j] : j \in 1 .. n}
AnswersOf(k) ==
    /\ k.pc \in {"patch", "restart"} =>
          k.i <= Len(k.hosts) /\ DOMAIN k.res = HostsUpTo(k, k.i - 1)
    /\ k.pc = "over" => DOMAIN k.res = HostsUpTo(k, Len(k.hosts)) /\ k.i > Len(k.hosts)
    /\ k.pc = "idle" => DOMAIN k.res = {}

\* s are the settings that the pool call k sends to h.
Holds(s, k, h) ==
    /\ s.url = k.pool.url
    /\ s.worker = expandWorker(k.pool.user, h)
    /\ k.pool.fb # None => s.fb = k.pool.fb

\* As long as no other call reached the device, its flash is what a pool call wrote.
Loaded ==
    \A c \in Calls, h \in Hosts : alone[h] = c =>
        /\ call[c].op # "none"
        /\ call[c].op = "pool" => Holds(dev[h].nvs, call[c], h)

\* The settings of a miner that is neither tuned by a client nor taken over come
\* from the factory or from presets of its own model, which is all that the
\* manager ever learns about it and all that a call in flight sends.
PairOf(s) == {"f", "v"} \subseteq DOMAIN s /\ s.f = s.v /\ s.f[1] = FirstAsic
Paired ==
    /\ \A h \in Hosts \ odd :
          /\ dev[h].asic = FirstAsic /\ miner[h].asic \in {None, FirstAsic}
          /\ PairOf(dev[h].nvs) /\ PairOf(dev[h].use)
    /\ \A c \in Calls : call[c].op = "preset" =>
          /\ Len(call[c].hosts) = 1
          /\ call[c].hosts[1] \notin odd => PairOf(call[c].tune)
    /\ \A c \in Calls : call[c].op = "restart" =>
          call[c].pc \in {"restart", "over"} /\ Len(call[c].hosts) = 1

\* A device that does not run with what is in its flash is to be restarted by a
\* call, or a call has reported it.
Owes(k, h) ==
    \/ h \in DOMAIN k.res /\ ~k.res[h]
    \/ k.pc = "restart" /\ k.hosts[k.i] = h
Pending ==
    \A h \in Hosts \ odd : dev[h].use = dev[h].nvs \/ \E c \in Calls : Owes(call[c], h)

Inv ==
    /\ Shape
    /\ \A c \in Calls : AnswersOf(call[c])
    /\ Loaded /\ DoneRuns /\ Paired /\ Pending

-----------------------------------------------------------------------------
(* The operators *)

LEMMA EndHostIs ==
    ASSUME NEW k, IsCall(k), AnswersOf(k), k.pc \in {"patch", "restart"},
           NEW ok \in BOOLEAN
    PROVE  LET e == EndHost(k, ok) IN
           /\ IsCall(e) /\ AnswersOf(e)
           /\ e.op = k.op /\ e.pool = k.pool /\ e.tune = k.tune /\ e.hosts = k.hosts
           /\ e.i = k.i + 1 /\ e.pc \in {"patch", "over"}
           /\ k.hosts[k.i] \in Hosts
           /\ k.hosts[k.i] \in DOMAIN e.res /\ e.res[k.hosts[k.i]] = ok
           /\ \A g \in Hosts \ {k.hosts[k.i]} :
                 /\ g \in DOMAIN e.res <=> g \in DOMAIN k.res
                 /\ g \in DOMAIN k.res => e.res[g] = k.res[g]
           /\ e.pc = "patch" => k.i < Len(k.hosts)
  <1> DEFINE h == k.hosts[k.i]
             one == [g \in {h} |-> ok]
             e == EndHost(k, ok)
  <1>1. /\ e.op = k.op /\ e.pool = k.pool /\ e.tune = k.tune /\ e.hosts = k.hosts
        /\ e.i = k.i + 1 /\ e.pc = IF k.i < Len(k.hosts) THEN "patch" ELSE "over"
        /\ e.res = Written(one, k.res)
        /\ e = [op |-> e.op, pc |-> e.pc, pool |-> e.pool, tune |-> e.tune,
                hosts |-> e.hosts, i |-> e.i, res |-> e.res]
    <2> DEFINE pc == IF k.i < Len(k.hosts) THEN "patch" ELSE "over"
               i == k.i + 1
               res == Written(one, k.res)
    <2>1. e = [k EXCEPT !.i = i, !.res = res, !.pc = pc]
      BY DEF EndHost
    <2> HIDE DEF pc, i, res, one, e
    <2>2. e = [op |-> k.op, pc |-> pc, pool |-> k.pool, tune |-> k.tune,
               hosts |-> k.hosts, i |-> i, res |-> res]
      BY <2>1 DEF IsCall
    <2>3. QED BY <2>2 DEF pc, i, res
  <1>2. /\ k.hosts \in Seq(Hosts) /\ k.i \in Nat \ {0} /\ k.i <= Len(k.hosts)
        /\ DOMAIN k.res = HostsUpTo(k, k.i - 1) /\ k.op # "none"
        /\ h \in Hosts
    BY DEF IsCall, AnswersOf
  <1>3. IsCall(e)
    BY <1>1, <1>2 DEF IsCall
  <1>a. DOMAIN one = {h} /\ one[h] = ok
    OBVIOUS
  <1> HIDE DEF one, e
  <1>4. DOMAIN e.res = {h} \union DOMAIN k.res
    BY <1>1, <1>a DEF Written
  <1>5. /\ e.res[h] = ok
        /\ \A g \in DOMAIN k.res : g # h => e.res[g] = k.res[g]
    BY <1>1, <1>a DEF Written
  <1>6. DOMAIN e.res = HostsUpTo(e, k.i)
    <2>1. 1 .. k.i = 1 .. (k.i - 1) \union {k.i}
      BY <1>2
    <2>2. QED BY <1>1, <1>2, <1>4, <2>1 DEF HostsUpTo
  <1>7. AnswersOf(e)
    <2>1. CASE k.i < Len(k.hosts)
      BY <1>1, <1>2, <1>6, <2>1 DEF AnswersOf
    <2>2. CASE ~(k.i < Len(k.hosts))
      <3>1. k.i = Len(k.hosts)
        BY <1>2, <2>2
      <3>2. QED BY <1>1, <1>2, <1>6, <2>2, <3>1 DEF AnswersOf
    <2>3. QED BY <2>1, <2>2
  <1> USE DEF e
  <1>8. QED BY <1>1, <1>2, <1>3, <1>4, <1>5, <1>7

\* Whatever becomes of a PATCH, the call goes on to its restart or to the next host.
LEMMA PatchDoneIs ==
    ASSUME NEW k, IsCall(k), AnswersOf(k), k.pc = "patch"
    PROVE  LET e == PatchDone(k) IN
           \/ k.op = "patch" /\ e = EndHost(k, TRUE)
           \/ /\ k.op # "patch"
              /\ IsCall(e) /\ AnswersOf(e)
              /\ e.op = k.op /\ e.pool = k.pool /\ e.tune = k.tune /\ e.hosts = k.hosts
              /\ e.i = k.i /\ e.res = k.res /\ e.pc = "restart"
  BY DEF PatchDone, IsCall, AnswersOf, HostsUpTo

\* The pool of a call is what its fields hold, over whatever was there.
LEMMA FieldsHold ==
    ASSUME NEW k, k.op = "pool", NEW h, NEW s
    PROVE  Holds(Written(Fields(k, h), s), k, h)
  <1>1. CASE k.pool.fb = None
    <2>1. Fields(k, h) = [url |-> k.pool.url, worker |-> expandWorker(k.pool.user, h)]
      BY <1>1 DEF Fields
    <2>2. DOMAIN Fields(k, h) = {"url", "worker"}
      BY <2>1
    <2>3. QED BY <1>1, <2>1, <2>2 DEF Holds, Written
  <1>2. CASE k.pool.fb # None
    <2>1. Fields(k, h) = [url |-> k.pool.url, worker |-> expandWorker(k.pool.user, h),
                          fb |-> k.pool.fb]
      BY <1>2 DEF Fields
    <2>2. DOMAIN Fields(k, h) = {"url", "worker", "fb"}
      BY <2>1
    <2>3. QED BY <2>1, <2>2 DEF Holds, Written
  <1>3. QED BY <1>1, <1>2

\* Pool fields leave frequency and voltage alone; a preset replaces both.
LEMMA FieldsPair ==
    ASSUME NEW k, NEW h, NEW s, PairOf(s),
           k.op = "pool" \/ PairOf(k.tune)
    PROVE  PairOf(Written(Fields(k, h), s))
  <1>1. CASE k.op = "pool"
    <2>1. "f" \notin DOMAIN Fields(k, h) /\ "v" \notin DOMAIN Fields(k, h)
      BY <1>1 DEF Fields
    <2>2. QED BY <2>1 DEF PairOf, Written
  <1>2. CASE k.op # "pool" /\ PairOf(k.tune)
    <2>1. Fields(k, h) = k.tune
      BY <1>2 DEF Fields
    <2>2. QED BY <1>2, <2>1 DEF PairOf, Written
  <1>3. QED BY <1>1, <1>2

-----------------------------------------------------------------------------
(* The invariant, action by action *)

LEMMA InitInv == Init => Inv
  <1> SUFFICES ASSUME Init PROVE Inv
    OBVIOUS
  <1>1. Shape
    <2>1. IsCall(Idle)
      <3>1. <<>> \in Seq(Hosts)
        OBVIOUS
      <3>2. QED BY <3>1 DEF IsCall, Idle
    <2>2. \A h \in Hosts : IsDev(dev[h])
      BY DEF Init, IsDev, Factory
    <2>3. QED BY <2>1, <2>2 DEF Init, Shape
  <1>2. \A c \in Calls : AnswersOf(call[c])
    BY DEF Init, Idle, AnswersOf
  <1>3. \A h \in Hosts : alone[h] \notin Calls
    BY OpsAssumption DEF Init
  <1>4. Loaded /\ DoneRuns
    BY <1>3 DEF Loaded, DoneRuns
  <1>5. \A h \in Hosts : /\ dev[h].asic = FirstAsic /\ miner[h].asic = None
                         /\ PairOf(dev[h].nvs) /\ dev[h].use = dev[h].nvs
    BY DEF Init, Factory, PairOf
  <1>6. \A c \in Calls : call[c].op = "none"
    BY DEF Init, Idle
  <1>7. Paired /\ Pending
    BY <1>5, <1>6 DEF Paired, Pending
  <1>8. QED BY <1>1, <1>2, <1>4, <1>7 DEF Inv

\* The state that the invariant is about.
LEMMA InvSame ==
    ASSUME Inv, UNCHANGED <<miner, dev, call, alone, odd>>
    PROVE  Inv'
  <1>1. Shape'
    BY DEF Inv, Shape
  <1>2. \A c \in Calls : AnswersOf(call'[c])
    BY DEF Inv
  <1>3. Loaded' /\ DoneRuns'
    BY DEF Inv, Loaded, DoneRuns
  <1>4. Paired' /\ Pending'
    BY DEF Inv, Paired, Pending
  <1>5. QED BY <1>1, <1>2, <1>3, <1>4 DEF Inv

LEMMA BeginsInv ==
    ASSUME Inv, NEW c \in Calls, NEW op \in {"pool", "preset", "patch", "restart"}, NEW pc,
           NEW p, NEW tune, NEW hosts \in Seq(Hosts),
           Begins(c, op, pc, p, tune, hosts),
           \/ pc = "over" /\ hosts = <<>>
           \/ pc \in {"patch", "restart"} /\ hosts # <<>>,
           op = "preset" => Len(hosts) = 1 /\ (hosts[1] \notin odd => PairOf(tune)),
           op = "restart" => pc = "restart" /\ Len(hosts) = 1
    PROVE  Inv'
  <1> DEFINE k == [op |-> op, pc |-> pc, pool |-> p, tune |-> tune,
                   hosts |-> hosts, i |-> 1, res |-> <<>>]
  <1>1. /\ call[c].op = "none" /\ call[c].pc = "idle"
        /\ call' = [call EXCEPT ![c] = k] /\ UNCHANGED <<miner, dev, alone, odd>>
    BY DEF Begins, Inv, Shape, IsCall
  <1>2. /\ k.op = op /\ k.pc = pc /\ k.tune = tune /\ k.hosts = hosts /\ k.i = 1
        /\ k = [op |-> k.op, pc |-> k.pc, pool |-> k.pool, tune |-> k.tune,
                hosts |-> k.hosts, i |-> k.i, res |-> k.res]
        /\ k.res = <<>> /\ DOMAIN k.res = {}
    OBVIOUS
  <1> HIDE DEF k
  <1>3. /\ call'[c] = k /\ \A d \in Calls \ {c} : call'[d] = call[d]
        /\ call' = [d \in Calls |-> call'[d]]
    BY <1>1 DEF Inv, Shape
  <1>4. IsCall(k)
    BY <1>2 DEF IsCall
  <1>5. Shape'
    BY <1>1, <1>3, <1>4 DEF Inv, Shape
  <1>6. AnswersOf(k)
    <2>1. CASE pc = "over"
      <3>1. hosts = <<>> /\ Len(hosts) = 0
        BY <2>1
      <3>2. HostsUpTo(k, Len(k.hosts)) = {}
        BY <3>1, <1>2 DEF HostsUpTo
      <3>3. QED BY <2>1, <1>2, <3>1, <3>2 DEF AnswersOf
    <2>2. CASE pc # "over"
      <3>1. Len(hosts) >= 1
        BY <2>2, EmptySeq
      <3>2. HostsUpTo(k, k.i - 1) = {}
        BY <1>2 DEF HostsUpTo
      <3>3. QED BY <2>2, <1>2, <3>1, <3>2 DEF AnswersOf
    <2>3. QED BY <2>1, <2>2
  <1>7. \A d \in Calls : AnswersOf(call'[d])
    BY <1>3, <1>6 DEF Inv
  <1>8. \A h \in Hosts : alone[h] # c
    BY <1>1 DEF Inv, Loaded
  <1>9. Loaded' /\ DoneRuns'
    <2>1. Loaded'
      BY <1>1, <1>3, <1>8 DEF Inv, Loaded
    <2>2. DoneRuns'
      BY <1>1, <1>3, <1>8 DEF Inv, DoneRuns
    <2>3. QED BY <2>1, <2>2
  <1>10. Paired'
    <2>1. \A d \in Calls : call'[d].op = "preset" =>
             /\ Len(call'[d].hosts) = 1
             /\ call'[d].hosts[1] \notin odd => PairOf(call'[d].tune)
      BY <1>2, <1>3 DEF Inv, Paired
    <2>2. \A d \in Calls : call'[d].op = "restart" =>
             call'[d].pc \in {"restart", "over"} /\ Len(call'[d].hosts) = 1
      BY <1>2, <1>3 DEF Inv, Paired
    <2>3. QED BY <1>1, <2>1, <2>2 DEF Inv, Paired
  <1>11. Pending'
    <2>1. \A d \in Calls, h \in Hosts : Owes(call[d], h) => Owes(call'[d], h)
      <3>1. \A h \in Hosts : ~Owes(call[c], h)
        BY <1>1 DEF Owes, Inv, AnswersOf
      <3>2. QED BY <1>3, <3>1
    <2>2. QED BY <1>1, <2>1 DEF Inv, Pending
  <1>12. QED BY <1>5, <1>7, <1>9, <1>10, <1>11 DEF Inv

\* There are no more online miners than miners, so a list of them is a sequence.
LEMMA AllOnlineSeq == AllOnline \subseteq Seq(Hosts)
  <1> SUFFICES ASSUME NEW s \in AllOnline PROVE s \in Seq(Hosts)
    OBVIOUS
  <1>1. Cardinality(Hosts) \in Nat
    BY OpsAssumption, FS_CardinalityType
  <1>2. PICK n \in 0 .. Cardinality(Hosts) : s \in [1 .. n -> Hosts]
    BY DEF AllOnline
  <1>3. n \in Nat
    BY <1>1
  <1>4. QED BY <1>2, <1>3

LEMMA ApplyPoolInv ==
    ASSUME Inv, NEW c \in Calls, NEW l \in Lists, ApplyPool(c, l)
    PROVE  Inv'
  <1>1. PICK hosts \in IF l = <<>> THEN AllOnline ELSE {l} :
            Begins(c, "pool", IF hosts = <<>> THEN "over" ELSE "patch", pool, <<>>, hosts)
    BY DEF ApplyPool
  <1>2. hosts \in Seq(Hosts)
    BY AllOnlineSeq, OpsAssumption
  <1> DEFINE pc == IF hosts = <<>> THEN "over" ELSE "patch"
  <1>3. \/ pc = "over" /\ hosts = <<>>
        \/ pc \in {"patch", "restart"} /\ hosts # <<>>
    OBVIOUS
  <1> HIDE DEF pc
  <1>4. Begins(c, "pool", pc, pool, <<>>, hosts)
    BY <1>1 DEF pc
  <1>5. QED BY <1>2, <1>3, <1>4, BeginsInv

LEMMA ApplyPresetInv ==
    ASSUME Inv, NEW c \in Calls, NEW h \in Hosts, NEW id, ApplyPreset(c, h, id)
    PROVE  Inv'
  <1> DEFINE t == PresetFields(<<miner[h].asic, id>>)
  <1>1. h \notin odd => PairOf(t)
    <2>1. h \notin odd => miner[h].asic = FirstAsic
      BY DEF ApplyPreset, Inv, Paired
    <2>2. QED BY <2>1 DEF PresetFields, PairOf
  <1> HIDE DEF t
  <1>2. Begins(c, "preset", "patch", None, t, <<h>>)
    BY DEF ApplyPreset, t
  <1>3. <<h>> \in Seq(Hosts) /\ <<h>> # <<>> /\ Len(<<h>>) = 1 /\ <<h>>[1] = h
    OBVIOUS
  <1>4. QED BY <1>1, <1>2, <1>3, BeginsInv

LEMMA SmallInv ==
    ASSUME Inv, NEW c \in Calls, NEW h \in Hosts, NEW t,
           PatchMiner(c, h, t) \/ RestartMiner(c, h)
    PROVE  Inv'
  <1>1. <<h>> \in Seq(Hosts) /\ <<h>> # <<>> /\ Len(<<h>>) = 1
    OBVIOUS
  <1>2. CASE PatchMiner(c, h, t)
    <2>1. Begins(c, "patch", "patch", None, t, <<h>>)
      BY <1>2 DEF PatchMiner
    <2>2. QED BY <1>1, <2>1, BeginsInv
  <1>3. CASE RestartMiner(c, h)
    <2>1. Begins(c, "restart", "restart", None, <<>>, <<h>>)
      BY <1>3 DEF RestartMiner
    <2>2. QED BY <1>1, <2>1, BeginsInv
  <1>4. QED BY <1>2, <1>3

\* What a request to the device at hand makes of its call: the restart is next,
\* or the host is answered for.
At(k) == k.hosts[k.i]
Moved(k, e) ==
    /\ IsCall(e) /\ AnswersOf(e)
    /\ e.op = k.op /\ e.pool = k.pool /\ e.tune = k.tune /\ e.hosts = k.hosts
    /\ \A g \in Hosts \ {At(k)} :
          /\ g \in DOMAIN e.res <=> g \in DOMAIN k.res
          /\ g \in DOMAIN k.res => e.res[g] = k.res[g]
    /\ \/ e.i = k.i /\ e.pc = "restart" /\ k.pc = "patch" /\ k.op # "patch"
       \/ e.i = k.i + 1 /\ e.pc \in {"patch", "over"} /\ At(k) \in DOMAIN e.res

LEMMA EndHostMoved ==
    ASSUME NEW k, IsCall(k), AnswersOf(k), k.pc \in {"patch", "restart"}, NEW ok \in BOOLEAN
    PROVE  /\ Moved(k, EndHost(k, ok)) /\ EndHost(k, ok).i = k.i + 1
           /\ EndHost(k, ok).res[At(k)] = ok /\ EndHost(k, ok).pc # "restart"
           /\ At(k) \in Hosts /\ k.i \in 1 .. Len(k.hosts)
  <1>1. At(k) \in Hosts /\ k.i \in 1 .. Len(k.hosts)
    BY DEF IsCall, AnswersOf, At
  <1> DEFINE e == EndHost(k, ok)
  <1>2. /\ IsCall(e) /\ AnswersOf(e)
        /\ e.op = k.op /\ e.pool = k.pool /\ e.tune = k.tune /\ e.hosts = k.hosts
        /\ e.i = k.i + 1 /\ e.pc \in {"patch", "over"}
        /\ k.hosts[k.i] \in DOMAIN e.res /\ e.res[k.hosts[k.i]] = ok
        /\ \A g \in Hosts \ {k.hosts[k.i]} :
              /\ g \in DOMAIN e.res <=> g \in DOMAIN k.res
              /\ g \in DOMAIN k.res => e.res[g] = k.res[g]
    BY EndHostIs
  <1> HIDE DEF e
  <1>3. Moved(k, e) /\ e.i = k.i + 1 /\ e.res[At(k)] = ok /\ e.pc # "restart"
    BY <1>2 DEF Moved, At
  <1>4. QED BY <1>1, <1>3 DEF e

LEMMA PatchDoneMoved ==
    ASSUME NEW k, IsCall(k), AnswersOf(k), k.pc = "patch", k.op # "patch"
    PROVE  Moved(k, PatchDone(k)) /\ PatchDone(k).i = k.i /\ PatchDone(k).pc = "restart"
  <1> DEFINE e == PatchDone(k)
  <1>1. /\ IsCall(e) /\ AnswersOf(e)
        /\ e.op = k.op /\ e.pool = k.pool /\ e.tune = k.tune /\ e.hosts = k.hosts
        /\ e.i = k.i /\ e.res = k.res /\ e.pc = "restart"
    BY PatchDoneIs
  <1> HIDE DEF e
  <1>2. Moved(k, e)
    BY <1>1 DEF Moved
  <1>3. QED BY <1>1, <1>2 DEF e

\* A call claims that it is done with a host and will not come back to it.
Claims(k, h) ==
    /\ k.op = "pool" /\ h \in DOMAIN k.res /\ k.res[h]
    /\ \A j \in k.i .. Len(k.hosts) : k.hosts[j] # h

LEMMA DoneIsClaims ==
    DoneRuns <=> \A c \in Calls, h \in Hosts :
        Claims(call[c], h) /\ alone[h] = c => Holds(dev[h].use, call[c], h)
  BY DEF DoneRuns, Claims, Holds

LEMMA MovedClaims ==
    ASSUME NEW k, NEW e, IsCall(k), k.i \in 1 .. Len(k.hosts), Moved(k, e),
           NEW h \in Hosts, Claims(e, h)
    PROVE  /\ h # At(k) => Claims(k, h)
           /\ h = At(k) => e.i = k.i + 1 /\ e.res[h]
  <1>1. CASE h # At(k)
    <2>1. h \in DOMAIN k.res /\ k.res[h] /\ k.op = "pool" /\ e.hosts = k.hosts
      BY <1>1 DEF Claims, Moved
    <2>2. ASSUME NEW j \in k.i .. Len(k.hosts) PROVE k.hosts[j] # h
      <3>1. CASE j = k.i
        BY <3>1, <1>1 DEF At
      <3>2. CASE j # k.i
        <4>1. j \in e.i .. Len(k.hosts)
          BY <3>2 DEF Moved, IsCall
        <4>2. QED BY <2>1, <4>1 DEF Claims
      <3>3. QED BY <3>1, <3>2
    <2>3. QED BY <1>1, <2>1, <2>2 DEF Claims
  <1>2. CASE h = At(k)
    <2>1. CASE e.i = k.i
      <3>1. k.i \in e.i .. Len(e.hosts) /\ e.hosts[k.i] = h
        BY <1>2, <2>1 DEF Moved, At, IsCall
      <3>2. FALSE
        BY <3>1 DEF Claims
      <3>3. QED BY <3>2
    <2>2. CASE e.i # k.i
      BY <1>2, <2>2 DEF Moved, Claims
    <2>3. QED BY <2>1, <2>2
  <1>3. QED BY <1>1, <1>2

LEMMA MovedOwes ==
    ASSUME NEW k, NEW e, Moved(k, e), NEW h \in Hosts, h # At(k), Owes(k, h)
    PROVE  Owes(e, h)
  BY DEF Owes, Moved, At

\* What a step of a call leaves: the calls are in shape, and the claims of all
\* but the one at hand stand.
LEMMA MovedInv ==
    ASSUME Inv, NEW c \in Calls, NEW e, Moved(call[c], e),
           call[c].i \in 1 .. Len(call[c].hosts),
           call' = [call EXCEPT ![c] = e],
           NEW h \in Hosts, h = At(call[c]),
           \A g \in Hosts \ {h} : dev'[g] = dev[g] /\ alone'[g] = alone[g]
    PROVE  /\ call' = [d \in Calls |-> call'[d]] /\ call'[c] = e
           /\ \A d \in Calls \ {c} : call'[d] = call[d]
           /\ \A d \in Calls : IsCall(call'[d]) /\ AnswersOf(call'[d])
           /\ \A d \in Calls : /\ call'[d].op = call[d].op /\ call'[d].pool = call[d].pool
                               /\ call'[d].hosts = call[d].hosts /\ call'[d].tune = call[d].tune
           /\ \A d \in Calls : call[d].op = "restart" => call'[d].pc \in {"restart", "over"}
           /\ \A d \in Calls, g \in Hosts \ {h} : Owes(call[d], g) => Owes(call'[d], g)
           /\ \A d \in Calls, g \in Hosts \ {h} :
                Claims(call'[d], g) /\ alone'[g] = d => Holds(dev'[g].use, call'[d], g)
  <1>1. /\ call' = [d \in Calls |-> call'[d]] /\ call'[c] = e
        /\ \A d \in Calls \ {c} : call'[d] = call[d]
    BY DEF Inv, Shape
  <1>2. \A d \in Calls : IsCall(call'[d]) /\ AnswersOf(call'[d])
    BY <1>1 DEF Inv, Shape, Moved
  <1>3. \A d \in Calls : /\ call'[d].op = call[d].op /\ call'[d].pool = call[d].pool
                         /\ call'[d].hosts = call[d].hosts /\ call'[d].tune = call[d].tune
    BY <1>1 DEF Moved
  <1>4. \A d \in Calls : call[d].op = "restart" => call'[d].pc \in {"restart", "over"}
    <2>1. call[c].op = "restart" => e.pc \in {"restart", "over"}
      <3> SUFFICES ASSUME call[c].op = "restart", e.i = call[c].i + 1
                   PROVE  e.pc = "over"
        BY DEF Moved
      <3>a. Len(call[c].hosts) = 1
        BY DEF Inv, Paired
      <3>1. Len(call[c].hosts) = 1 /\ call[c].i = 1
        BY <3>a
      <3>2. e.i = 2 /\ e.pc \in {"patch", "over"} /\ Len(e.hosts) = 1
        BY <3>1 DEF Moved
      <3>3. e.pc = "patch" => e.i <= Len(e.hosts)
        BY DEF Moved, AnswersOf
      <3>4. QED BY <3>2, <3>3
    <2>2. \A d \in Calls : call[d].op = "restart" => call[d].pc \in {"restart", "over"}
      BY DEF Inv, Paired
    <2>3. QED BY <1>1, <2>1, <2>2
  <1>5. \A d \in Calls, g \in Hosts \ {h} : Owes(call[d], g) => Owes(call'[d], g)
    BY <1>1, MovedOwes
  <1>6. ASSUME NEW d \in Calls, NEW g \in Hosts \ {h}, Claims(call'[d], g), alone'[g] = d
        PROVE  Holds(dev'[g].use, call'[d], g)
    <2>1. Claims(call[d], g)
      <3>1. CASE d = c
        <4>1. IsCall(call[c])
          BY DEF Inv, Shape
        <4>2. QED BY <1>1, <1>6, <3>1, <4>1, MovedClaims
      <3>2. CASE d # c
        BY <1>1, <1>6, <3>2
      <3>3. QED BY <3>1, <3>2
    <2>2. Holds(dev[g].use, call[d], g)
      BY <1>6, <2>1, DoneIsClaims DEF Inv
    <2>3. dev'[g] = dev[g]
      OBVIOUS
    <2>4. QED BY <2>2, <2>3, <1>3 DEF Holds
  <1>7. QED BY <1>1, <1>2, <1>3, <1>4, <1>5, <1>6

\* A request that does not arrive: the call reports it, the device keeps its settings.
LEMMA LostInv ==
    ASSUME Inv, NEW c \in Calls, call[c].pc \in {"patch", "restart"},
           call' = [call EXCEPT ![c] = EndHost(call[c], FALSE)],
           UNCHANGED <<miner, dev, alone, odd>>
    PROVE  Inv'
  <1> DEFINE k == call[c]
             e == EndHost(k, FALSE)
             h == At(k)
  <1>1. IsCall(k) /\ AnswersOf(k)
    BY DEF Inv, Shape
  <1>2. /\ Moved(k, e) /\ e.i = k.i + 1 /\ e.res[h] = FALSE
        /\ h \in Hosts /\ k.i \in 1 .. Len(k.hosts)
    BY <1>1, EndHostMoved
  <1> HIDE DEF e
  <1>3. call' = [call EXCEPT ![c] = e]
    BY DEF e
  <1>4. /\ call' = [d \in Calls |-> call'[d]] /\ call'[c] = e
        /\ \A d \in Calls \ {c} : call'[d] = call[d]
        /\ \A d \in Calls : IsCall(call'[d]) /\ AnswersOf(call'[d])
        /\ \A d \in Calls : /\ call'[d].op = call[d].op /\ call'[d].pool = call[d].pool
                            /\ call'[d].hosts = call[d].hosts /\ call'[d].tune = call[d].tune
        /\ \A d \in Calls : call[d].op = "restart" => call'[d].pc \in {"restart", "over"}
        /\ \A d \in Calls, g \in Hosts \ {h} : Owes(call[d], g) => Owes(call'[d], g)
        /\ \A d \in Calls, g \in Hosts \ {h} :
             Claims(call'[d], g) /\ alone'[g] = d => Holds(dev'[g].use, call'[d], g)
    BY <1>2, <1>3, MovedInv
  <1> HIDE DEF h
  <1>5. Shape'
    BY <1>4 DEF Inv, Shape
  <1>6. Loaded'
    <2>1. \A d \in Calls, g \in Hosts : alone[g] = d =>
            /\ call'[d].op # "none"
            /\ call'[d].op = "pool" => Holds(dev[g].nvs, call'[d], g)
      <3> SUFFICES ASSUME NEW d \in Calls, NEW g \in Hosts, alone[g] = d
                   PROVE  /\ call'[d].op # "none"
                          /\ call'[d].op = "pool" => Holds(dev[g].nvs, call'[d], g)
        OBVIOUS
      <3>1. call'[d].op = call[d].op /\ call'[d].pool = call[d].pool
        BY <1>4
      <3>2. /\ call[d].op # "none"
            /\ call[d].op = "pool" => Holds(dev[g].nvs, call[d], g)
        BY DEF Inv, Loaded
      <3>3. QED BY <3>1, <3>2 DEF Holds
    <2>2. QED BY <2>1 DEF Loaded
  <1>7. \A d \in Calls : Claims(call'[d], h) /\ alone[h] = d => Holds(dev[h].use, call'[d], h)
    <2>1. ~Claims(call'[c], h)
      BY <1>2, <1>4 DEF Claims
    <2>2. \A d \in Calls \ {c} : Claims(call[d], h) /\ alone[h] = d => Holds(dev[h].use, call[d], h)
      BY <1>2, DoneIsClaims DEF Inv
    <2>3. QED BY <1>4, <2>1, <2>2
  <1>8. DoneRuns'
    <2>1. \A d \in Calls, g \in Hosts :
            Claims(call'[d], g) /\ alone'[g] = d => Holds(dev'[g].use, call'[d], g)
      BY <1>4, <1>7, ZenonT(40)
    <2>2. QED BY <2>1 DEF DoneRuns, Claims, Holds
  <1>9. Paired'
    <2>1. \A g \in Hosts \ odd' :
             /\ dev'[g].asic = FirstAsic /\ miner'[g].asic \in {None, FirstAsic}
             /\ PairOf(dev'[g].nvs) /\ PairOf(dev'[g].use)
      BY DEF Inv, Paired
    <2>2. ASSUME NEW d \in Calls, call'[d].op = "preset"
          PROVE  /\ Len(call'[d].hosts) = 1
                 /\ call'[d].hosts[1] \notin odd' => PairOf(call'[d].tune)
      <3>1. /\ call'[d].op = call[d].op /\ call'[d].hosts = call[d].hosts
            /\ call'[d].tune = call[d].tune
        BY <1>4
      <3>2. /\ Len(call[d].hosts) = 1
            /\ call[d].hosts[1] \notin odd => PairOf(call[d].tune)
        <4>1. call[d].op = "preset"
          BY <2>2, <3>1
        <4>2. QED BY <4>1 DEF Inv, Paired
      <3>3. odd' = odd
        OBVIOUS
      <3>4. call'[d].hosts[1] \notin odd => PairOf(call'[d].tune)
        BY <3>1, <3>2
      <3>5. QED BY <3>1, <3>2, <3>3, <3>4
    <2>3. ASSUME NEW d \in Calls, call'[d].op = "restart"
          PROVE  call'[d].pc \in {"restart", "over"} /\ Len(call'[d].hosts) = 1
      <3>1. call'[d].op = call[d].op /\ call'[d].hosts = call[d].hosts
        BY <1>4
      <3>2. Len(call[d].hosts) = 1
        BY <2>3, <3>1 DEF Inv, Paired
      <3>3. call'[d].pc \in {"restart", "over"}
        BY <1>4, <2>3, <3>1
      <3>4. QED BY <3>1, <3>2, <3>3
    <2>4. QED BY <2>1, <2>2, <2>3 DEF Paired
  <1>10. Pending'
    <2>1. Owes(call'[c], h)
      <3>1. h \in DOMAIN e.res
        BY <1>2 DEF Moved, IsCall, h
      <3>2. QED BY <1>2, <1>4, <3>1 DEF Owes
    <2>2. \A g \in Hosts : (\E d \in Calls : Owes(call[d], g)) => \E d \in Calls : Owes(call'[d], g)
      BY <1>4, <2>1
    <2>3. QED BY <2>2 DEF Inv, Pending
  <1>11. QED BY <1>4, <1>5, <1>6, <1>8, <1>9, <1>10 DEF Inv

LEMMA PatchInv ==
    ASSUME Inv, NEW c \in Calls, Patch(c)
    PROVE  Inv'
  <1> DEFINE k == call[c]
             h == At(k)
             w == Written(Fields(k, h), dev[h].nvs)
  <1>1. IsCall(k) /\ AnswersOf(k) /\ k.pc = "patch" /\ k.op # "restart"
    BY DEF Inv, Shape, Patch, Paired
  <1>2. CASE /\ call' = [call EXCEPT ![c] = EndHost(call[c], FALSE)]
             /\ UNCHANGED <<miner, dev, alone, odd>>
    BY <1>1, <1>2, LostInv
  <1>3. ASSUME dev' = [dev EXCEPT ![h].nvs = w],
               NEW e \in {PatchDone(k), EndHost(k, FALSE)},
               call' = [call EXCEPT ![c] = e],
               alone' = [alone EXCEPT ![h] = c],
               odd' = IF k.op = "patch" THEN odd \union {h} ELSE odd,
               UNCHANGED miner
        PROVE  Inv'
    <2> HIDE DEF w
    <2>1. /\ Moved(k, e) /\ h \in Hosts /\ k.i \in 1 .. Len(k.hosts)
          /\ k.op # "patch" /\ e.pc # "restart" => e.i = k.i + 1 /\ e.res[h] = FALSE
          /\ k.op # "patch" /\ e.pc = "restart" => e.i = k.i
      <3>1. CASE e = EndHost(k, FALSE)
        BY <1>1, <3>1, EndHostMoved
      <3>2. CASE e = PatchDone(k) /\ k.op = "patch"
        <4>1. e = EndHost(k, TRUE)
          BY <3>2 DEF PatchDone
        <4>2. QED BY <1>1, <3>2, <4>1, EndHostMoved
      <3>3. CASE e = PatchDone(k) /\ k.op # "patch"
        <4>1. h \in Hosts /\ k.i \in 1 .. Len(k.hosts)
          BY <1>1, EndHostMoved
        <4>2. /\ Moved(k, PatchDone(k)) /\ PatchDone(k).i = k.i
              /\ PatchDone(k).pc = "restart"
          BY <1>1, <3>3, PatchDoneMoved
        <4>3. e = PatchDone(k)
          BY <3>3
        <4>4. Moved(k, e) /\ e.i = k.i /\ e.pc = "restart"
          BY <4>2, <4>3
        <4>5. QED BY <4>1, <4>4
      <3>4. e = PatchDone(k) \/ e = EndHost(k, FALSE)
        BY <1>3
      <3>5. QED BY <3>1, <3>2, <3>3, <3>4
    <2>2. /\ dev' = [g \in Hosts |-> dev'[g]] /\ \A g \in Hosts \ {h} : dev'[g] = dev[g]
          /\ IsDev(dev'[h]) /\ dev'[h].nvs = w /\ dev'[h].use = dev[h].use
          /\ dev'[h].asic = dev[h].asic
      <3>1. dev = [g \in Hosts |-> dev[g]] /\ IsDev(dev[h])
        BY <2>1 DEF Inv, Shape
      <3>2. /\ dev' = [g \in Hosts |-> dev'[g]] /\ \A g \in Hosts \ {h} : dev'[g] = dev[g]
            /\ dev'[h] = [dev[h] EXCEPT !.nvs = w]
        BY <1>3, <2>1, <3>1
      <3>3. QED BY <3>1, <3>2 DEF IsDev
    <2>3. /\ alone' \in [Hosts -> Calls \union {None}] /\ alone'[h] = c
          /\ \A g \in Hosts \ {h} : alone'[g] = alone[g]
      BY <1>3, <2>1 DEF Inv, Shape
    <2>4. /\ call' = [d \in Calls |-> call'[d]] /\ call'[c] = e
          /\ \A d \in Calls \ {c} : call'[d] = call[d]
          /\ \A d \in Calls : IsCall(call'[d]) /\ AnswersOf(call'[d])
          /\ \A d \in Calls : /\ call'[d].op = call[d].op /\ call'[d].pool = call[d].pool
                              /\ call'[d].hosts = call[d].hosts /\ call'[d].tune = call[d].tune
          /\ \A d \in Calls : call[d].op = "restart" => call'[d].pc \in {"restart", "over"}
          /\ \A d \in Calls, g \in Hosts \ {h} : Owes(call[d], g) => Owes(call'[d], g)
          /\ \A d \in Calls, g \in Hosts \ {h} :
               Claims(call'[d], g) /\ alone'[g] = d => Holds(dev'[g].use, call'[d], g)
      BY <1>3, <2>1, <2>2, <2>3, MovedInv
    <2>5. odd \subseteq odd' /\ odd' \subseteq Hosts /\ (k.op = "patch" => h \in odd')
      BY <1>3, <2>1 DEF Inv, Shape
    <2>6. Shape'
      <3>1. \A g \in Hosts : IsDev(dev'[g])
        BY <2>2 DEF Inv, Shape
      <3>2. QED BY <1>3, <2>2, <2>3, <2>4, <2>5, <3>1 DEF Inv, Shape
    <2> HIDE DEF h
    <2>7. Loaded'
      <3>1. k.op = "pool" => Holds(w, k, h)
        BY FieldsHold DEF w
      <3>2. k.op = "pool" => Holds(dev'[h].nvs, call'[c], h)
        BY <2>2, <2>4, <3>1 DEF Holds
      <3>3. call[c].op # "none"
        BY <1>1 DEF IsCall
      <3>4. ASSUME NEW d \in Calls, NEW g \in Hosts, alone'[g] = d
            PROVE  call'[d].op # "none" /\ (call'[d].op = "pool" => Holds(dev'[g].nvs, call'[d], g))
        <4>1. CASE g = h
          BY <4>1, <3>2, <3>3, <3>4, <2>3, <2>4
        <4>2. CASE g # h
          BY <4>2, <3>4, <2>2, <2>3, <2>4 DEF Inv, Loaded, Holds
        <4>3. QED BY <4>1, <4>2
      <3>5. QED BY <3>4 DEF Loaded
    <2>8. DoneRuns'
      <3>1. \A d \in Calls : alone'[h] = d => ~Claims(call'[d], h)
        <4>1. ~Claims(e, h)
          <5> SUFFICES ASSUME Claims(e, h) PROVE FALSE
            OBVIOUS
          <5>1. e.op = "pool" /\ k.op = "pool"
            BY <2>1 DEF Claims, Moved
          <5>2. e.i = k.i + 1 /\ e.res[h]
            BY <1>1, <2>1, MovedClaims DEF h
          <5>3. QED BY <1>1, <2>1, <5>1, <5>2 DEF IsCall
        <4>2. QED BY <4>1, <2>3, <2>4
      <3>2. \A d \in Calls, g \in Hosts :
              Claims(call'[d], g) /\ alone'[g] = d => Holds(dev'[g].use, call'[d], g)
        BY <2>4, <3>1
      <3>3. QED BY <3>2 DEF DoneRuns, Claims, Holds
    <2>9. Paired'
      <3>1. ASSUME h \notin odd'
            PROVE  /\ dev'[h].asic = FirstAsic /\ miner'[h].asic \in {None, FirstAsic}
                   /\ PairOf(dev'[h].nvs) /\ PairOf(dev'[h].use)
        <4>1. /\ h \notin odd /\ dev[h].asic = FirstAsic /\ miner[h].asic \in {None, FirstAsic}
              /\ PairOf(dev[h].nvs) /\ PairOf(dev[h].use)
          BY <3>1, <2>1, <2>5 DEF Inv, Paired
        <4>2. k.op \in {"pool", "preset"}
          BY <1>1, <2>5, <3>1 DEF IsCall
        <4>3. k.op = "preset" => PairOf(k.tune)
          <5> SUFFICES ASSUME k.op = "preset" PROVE PairOf(k.tune)
            OBVIOUS
          <5>1. Len(k.hosts) = 1 /\ (k.hosts[1] \notin odd => PairOf(k.tune))
            BY DEF Inv, Paired
          <5>2. k.i = 1
            BY <5>1, <2>1
          <5>3. QED BY <4>1, <5>1, <5>2 DEF h, At
        <4>4. PairOf(w)
          BY <4>1, <4>2, <4>3, FieldsPair DEF w
        <4>5. QED BY <1>3, <2>2, <4>1, <4>4
      <3>2. \A g \in Hosts \ odd' :
               /\ dev'[g].asic = FirstAsic /\ miner'[g].asic \in {None, FirstAsic}
               /\ PairOf(dev'[g].nvs) /\ PairOf(dev'[g].use)
        BY <1>3, <2>2, <2>5, <3>1 DEF Inv, Paired
      <3>3. \A d \in Calls : call'[d].op = "preset" =>
               /\ Len(call'[d].hosts) = 1
               /\ call'[d].hosts[1] \notin odd' => PairOf(call'[d].tune)
        BY <2>4, <2>5 DEF Inv, Paired
      <3>4. \A d \in Calls : call'[d].op = "restart" =>
               call'[d].pc \in {"restart", "over"} /\ Len(call'[d].hosts) = 1
        BY <2>4 DEF Inv, Paired
      <3>5. QED BY <3>2, <3>3, <3>4 DEF Paired
    <2>10. Pending'
      <3>1. h \notin odd' => Owes(call'[c], h)
        <4> SUFFICES ASSUME h \notin odd' PROVE Owes(e, h)
          BY <2>4
        <4>1. \/ e.pc = "restart" /\ e.i = k.i
              \/ e.pc # "restart" /\ e.i = k.i + 1 /\ e.res[h] = FALSE
          BY <2>1, <2>5
        <4>2. CASE e.pc = "restart" /\ e.i = k.i
          BY <4>2, <2>1 DEF Owes, Moved, At, h
        <4>3. CASE e.i = k.i + 1 /\ e.res[h] = FALSE
          <5>1. h \in DOMAIN e.res
            BY <1>1, <2>1, <4>3 DEF Moved, IsCall, h
          <5>2. QED BY <4>3, <5>1 DEF Owes
        <4>4. QED BY <4>1, <4>2, <4>3
      <3>2. QED BY <2>2, <2>4, <2>5, <3>1 DEF Inv, Pending
    <2>11. QED BY <2>4, <2>6, <2>7, <2>8, <2>9, <2>10 DEF Inv
  <1>4. \/ /\ call' = [call EXCEPT ![c] = EndHost(k, FALSE)]
           /\ UNCHANGED <<dev, alone, odd>>
        \/ /\ dev' = [dev EXCEPT ![h].nvs = w]
           /\ \E e \in {PatchDone(k), EndHost(k, FALSE)} : call' = [call EXCEPT ![c] = e]
           /\ alone' = [alone EXCEPT ![h] = c]
           /\ odd' = IF k.op = "patch" THEN odd \union {h} ELSE odd
    BY DEF Patch, At
  <1>5. UNCHANGED miner
    BY DEF Patch
  <1> HIDE DEF k, h, w
  <1>6. QED BY <1>2, <1>3, <1>4, <1>5 DEF k

LEMMA RestartInv ==
    ASSUME Inv, NEW c \in Calls, Restart(c)
    PROVE  Inv'
  <1> DEFINE k == call[c]
             h == At(k)
  <1>1. IsCall(k) /\ AnswersOf(k) /\ k.pc = "restart"
    BY DEF Inv, Shape, Restart
  <1>2. CASE /\ call' = [call EXCEPT ![c] = EndHost(call[c], FALSE)]
             /\ UNCHANGED <<miner, dev, alone, odd>>
    BY <1>1, <1>2, LostInv
  <1>3. ASSUME dev' = [dev EXCEPT ![h].use = dev[h].nvs, ![h].up = FALSE],
               NEW ok \in BOOLEAN,
               call' = [call EXCEPT ![c] = EndHost(k, ok)],
               alone' = [alone EXCEPT ![h] = IF @ = c THEN c ELSE None],
               UNCHANGED <<miner, odd>>
        PROVE  Inv'
    <2> DEFINE e == EndHost(k, ok)
    <2>1. /\ Moved(k, e) /\ e.i = k.i + 1 /\ e.res[h] = ok
          /\ h \in Hosts /\ k.i \in 1 .. Len(k.hosts)
      BY <1>1, EndHostMoved
    <2> HIDE DEF e
    <2>2. /\ dev' = [g \in Hosts |-> dev'[g]] /\ \A g \in Hosts \ {h} : dev'[g] = dev[g]
          /\ IsDev(dev'[h]) /\ dev'[h].nvs = dev[h].nvs /\ dev'[h].use = dev[h].nvs
          /\ dev'[h].asic = dev[h].asic
      <3>1. /\ h \in Hosts /\ dev = [g \in Hosts |-> dev[g]]
            /\ dev[h] = [asic |-> dev[h].asic, nvs |-> dev[h].nvs,
                         use |-> dev[h].use, up |-> dev[h].up]
        BY <2>1 DEF Inv, Shape, IsDev
      <3>2. dev'[h] = [asic |-> dev[h].asic, nvs |-> dev[h].nvs,
                       use |-> dev[h].nvs, up |-> FALSE]
        BY <1>3, <3>1
      <3>3. dev' = [g \in Hosts |-> dev'[g]] /\ \A g \in Hosts \ {h} : dev'[g] = dev[g]
        BY <1>3, <3>1
      <3>4. QED BY <3>2, <3>3 DEF IsDev
    <2>3. /\ alone' \in [Hosts -> Calls \union {None}]
          /\ \A d \in Calls : alone'[h] = d => d = c /\ alone[h] = c
          /\ \A g \in Hosts \ {h} : alone'[g] = alone[g]
      BY <1>3, <2>1, OpsAssumption DEF Inv, Shape
    <2>4. call' = [call EXCEPT ![c] = e]
      BY <1>3 DEF e
    <2>5. /\ call' = [d \in Calls |-> call'[d]] /\ call'[c] = e
          /\ \A d \in Calls \ {c} : call'[d] = call[d]
          /\ \A d \in Calls : IsCall(call'[d]) /\ AnswersOf(call'[d])
          /\ \A d \in Calls : /\ call'[d].op = call[d].op /\ call'[d].pool = call[d].pool
                              /\ call'[d].hosts = call[d].hosts /\ call'[d].tune = call[d].tune
          /\ \A d \in Calls : call[d].op = "restart" => call'[d].pc \in {"restart", "over"}
          /\ \A d \in Calls, g \in Hosts \ {h} : Owes(call[d], g) => Owes(call'[d], g)
          /\ \A d \in Calls, g \in Hosts \ {h} :
               Claims(call'[d], g) /\ alone'[g] = d => Holds(dev'[g].use, call'[d], g)
      BY <2>1, <2>2, <2>3, <2>4, MovedInv
    <2>6. Shape'
      <3>1. \A g \in Hosts : IsDev(dev'[g])
        BY <2>2 DEF Inv, Shape
      <3>2. QED BY <1>3, <2>2, <2>3, <2>5, <3>1 DEF Inv, Shape
    <2> HIDE DEF h
    <2>7. Loaded'
      <3>1. \A d \in Calls, g \in Hosts : alone'[g] = d => alone[g] = d
        BY <2>3
      <3>2. \A g \in Hosts : dev'[g].nvs = dev[g].nvs
        BY <2>2
      <3>3. ASSUME NEW d \in Calls, NEW g \in Hosts, alone'[g] = d
            PROVE  call'[d].op # "none" /\ (call'[d].op = "pool" => Holds(dev'[g].nvs, call'[d], g))
        <4>1. call'[d].op = call[d].op /\ call'[d].pool = call[d].pool
          BY <2>5
        <4>2. /\ call[d].op # "none"
              /\ call[d].op = "pool" => Holds(dev[g].nvs, call[d], g)
          BY <3>1, <3>3 DEF Inv, Loaded
        <4>3. QED BY <3>2, <4>1, <4>2 DEF Holds
      <3>4. QED BY <3>3 DEF Loaded
    <2>8. DoneRuns'
      <3>1. ASSUME NEW d \in Calls, alone'[h] = d, Claims(call'[d], h)
            PROVE  Holds(dev'[h].use, call'[d], h)
        <4>1. d = c /\ alone[h] = c
          BY <2>3, <3>1
        <4>2. call[c].op = "pool" /\ call'[c].pool = call[c].pool
          BY <2>5, <3>1, <4>1 DEF Claims
        <4>3. Holds(dev[h].nvs, call[c], h)
          BY <2>1, <4>1, <4>2 DEF Inv, Loaded
        <4>4. QED BY <2>2, <4>1, <4>2, <4>3 DEF Holds
      <3>2. \A d \in Calls, g \in Hosts :
              Claims(call'[d], g) /\ alone'[g] = d => Holds(dev'[g].use, call'[d], g)
        BY <2>5, <3>1
      <3>3. QED BY <3>2 DEF DoneRuns, Claims, Holds
    <2>9. Paired'
      <3>1. \A g \in Hosts \ odd' :
               /\ dev'[g].asic = FirstAsic /\ miner'[g].asic \in {None, FirstAsic}
               /\ PairOf(dev'[g].nvs) /\ PairOf(dev'[g].use)
        BY <1>3, <2>2 DEF Inv, Paired
      <3>2. \A d \in Calls : call'[d].op = "preset" =>
               /\ Len(call'[d].hosts) = 1
               /\ call'[d].hosts[1] \notin odd' => PairOf(call'[d].tune)
        BY <1>3, <2>5 DEF Inv, Paired
      <3>3. \A d \in Calls : call'[d].op = "restart" =>
               call'[d].pc \in {"restart", "over"} /\ Len(call'[d].hosts) = 1
        BY <2>5 DEF Inv, Paired
      <3>4. QED BY <3>1, <3>2, <3>3 DEF Paired
    <2>10. Pending'
      <3>1. \A g \in Hosts : (\E d \in Calls : Owes(call[d], g)) =>
               g = h \/ \E d \in Calls : Owes(call'[d], g)
        BY <2>5
      <3>2. dev'[h].use = dev'[h].nvs /\ odd' = odd
        BY <1>3, <2>2
      <3>3. \A g \in Hosts \ odd : dev[g].use = dev[g].nvs \/ \E d \in Calls : Owes(call[d], g)
        BY DEF Inv, Pending
      <3>4. QED BY <2>2, <3>1, <3>2, <3>3 DEF Pending
    <2>11. QED BY <2>5, <2>6, <2>7, <2>8, <2>9, <2>10 DEF Inv
  <1>4. \/ /\ call' = [call EXCEPT ![c] = EndHost(k, FALSE)]
           /\ UNCHANGED <<dev, alone>>
        \/ /\ dev' = [dev EXCEPT ![h].use = dev[h].nvs, ![h].up = FALSE]
           /\ \E ok \in BOOLEAN : call' = [call EXCEPT ![c] = EndHost(k, ok)]
           /\ alone' = [alone EXCEPT ![h] = IF @ = c THEN c ELSE None]
    BY DEF Restart, At
  <1>5. UNCHANGED <<miner, odd>>
    BY DEF Restart
  <1> HIDE DEF k, h
  <1>6. QED BY <1>2, <1>3, <1>4, <1>5 DEF k

\* What the poll loop learns of a device is its model.
LEMMA PollInv ==
    ASSUME Inv, NEW h \in Hosts, Poll(h)
    PROVE  Inv'
  <1>1. /\ UNCHANGED <<dev, call, alone, odd>>
        /\ miner' = [g \in Hosts |-> miner'[g]]
        /\ \A g \in Hosts : miner'[g] = [online |-> miner'[g].online, asic |-> miner'[g].asic]
        /\ \A g \in Hosts : miner'[g].asic \in {miner[g].asic, dev[g].asic}
    <2>1. /\ UNCHANGED <<dev, call, alone, odd>>
          /\ miner' = [miner EXCEPT ![h] =
                 IF dev[h].up THEN [online |-> TRUE, asic |-> dev[h].asic]
                 ELSE [@ EXCEPT !.online = FALSE]]
      BY DEF Poll
    <2>2. /\ miner = [g \in Hosts |-> miner[g]]
          /\ \A g \in Hosts : miner[g] = [online |-> miner[g].online, asic |-> miner[g].asic]
      BY DEF Inv, Shape
    <2>3. \A g \in Hosts \ {h} : miner'[g] = miner[g]
      BY <2>1, <2>2
    <2>4. miner'[h] = IF dev[h].up THEN [online |-> TRUE, asic |-> dev[h].asic]
                      ELSE [online |-> FALSE, asic |-> miner[h].asic]
      <3> DEFINE m == miner[h]
                 o == m.online
                 a == m.asic
                 e == [m EXCEPT !.online = FALSE]
      <3>1. miner'[h] = IF dev[h].up THEN [online |-> TRUE, asic |-> dev[h].asic] ELSE e
        BY <2>1, <2>2
      <3>2. m = [online |-> o, asic |-> a]
        BY <2>2
      <3> HIDE DEF m, o, a
      <3>3. e = [online |-> FALSE, asic |-> a]
        <4>1. e = [m EXCEPT !.online = FALSE]
          OBVIOUS
        <4> HIDE DEF e
        <4>2. QED BY <3>2, <4>1
      <3>4. QED BY <3>1, <3>3 DEF a, m
    <2>5. miner' = [g \in Hosts |-> miner'[g]]
      BY <2>1, <2>2
    <2>6. /\ miner'[h] = [online |-> miner'[h].online, asic |-> miner'[h].asic]
          /\ miner'[h].asic \in {miner[h].asic, dev[h].asic}
      <3>1. CASE dev[h].up
        <4>1. miner'[h] = [online |-> TRUE, asic |-> dev[h].asic]
          BY <2>4, <3>1
        <4>2. QED BY <4>1
      <3>2. CASE ~dev[h].up
        <4>1. miner'[h] = [online |-> FALSE, asic |-> miner[h].asic]
          BY <2>4, <3>2
        <4>2. QED BY <4>1
      <3>3. QED BY <3>1, <3>2
    <2> QED BY <2>1, <2>2, <2>3, <2>5, <2>6
  <1>2. Shape'
    BY <1>1 DEF Inv, Shape
  <1>3. (\A c \in Calls : AnswersOf(call'[c])) /\ Loaded' /\ DoneRuns' /\ Pending'
    BY <1>1 DEF Inv, Loaded, DoneRuns, Pending
  <1>4. Paired'
    BY <1>1 DEF Inv, Paired
  <1>5. QED BY <1>2, <1>3, <1>4 DEF Inv

LEMMA BootsInv ==
    ASSUME Inv, NEW h \in Hosts, Boots(h)
    PROVE  Inv'
  <1>1. /\ UNCHANGED <<miner, call, alone, odd>>
        /\ dev' = [g \in Hosts |-> dev'[g]]
        /\ \A g \in Hosts : /\ IsDev(dev'[g]) /\ dev'[g].asic = dev[g].asic
                            /\ dev'[g].nvs = dev[g].nvs /\ dev'[g].use = dev[g].use
    <2>1. /\ dev = [g \in Hosts |-> dev[g]]
          /\ \A g \in Hosts : dev[g] = [asic |-> dev[g].asic, nvs |-> dev[g].nvs,
                                       use |-> dev[g].use, up |-> dev[g].up]
      BY DEF Inv, Shape, IsDev
    <2>2. dev'[h] = [asic |-> dev[h].asic, nvs |-> dev[h].nvs,
                     use |-> dev[h].use, up |-> TRUE]
      <3>1. h \in Hosts /\ dev' = [dev EXCEPT ![h].up = TRUE]
        BY DEF Boots
      <3>2. dev[h] = [asic |-> dev[h].asic, nvs |-> dev[h].nvs,
                      use |-> dev[h].use, up |-> dev[h].up]
        BY <2>1
      <3>3. QED BY <2>1, <3>1, <3>2
    <2>3. dev' = [g \in Hosts |-> dev'[g]] /\ \A g \in Hosts \ {h} : dev'[g] = dev[g]
      BY <2>1 DEF Boots
    <2>4. \A g \in Hosts : /\ IsDev(dev'[g]) /\ dev'[g].asic = dev[g].asic
                           /\ dev'[g].nvs = dev[g].nvs /\ dev'[g].use = dev[g].use
      BY <2>1, <2>2, <2>3 DEF IsDev
    <2>5. QED BY <2>3, <2>4 DEF Boots
  <1>2. Shape'
    BY <1>1 DEF Inv, Shape
  <1>3. (\A c \in Calls : AnswersOf(call'[c])) /\ Loaded' /\ DoneRuns' /\ Pending'
    <2>1. Loaded'
      BY <1>1 DEF Inv, Loaded
    <2>2. DoneRuns'
      BY <1>1 DEF Inv, DoneRuns
    <2>3. QED BY <1>1, <2>1, <2>2 DEF Inv, Pending
  <1>4. Paired'
    BY <1>1 DEF Inv, Paired
  <1>5. QED BY <1>2, <1>3, <1>4 DEF Inv

\* The device that takes an address over has heard of no call.
LEMMA SwapInv ==
    ASSUME Inv, NEW h \in Hosts, NEW a, Swap(h, a)
    PROVE  Inv'
  <1>1. /\ UNCHANGED <<miner, call>> /\ odd' = odd \union {h}
        /\ dev' = [g \in Hosts |-> dev'[g]] /\ IsDev(dev'[h])
        /\ \A g \in Hosts \ {h} : dev'[g] = dev[g] /\ alone'[g] = alone[g]
        /\ alone' \in [Hosts -> Calls \union {None}] /\ alone'[h] \notin Calls
    BY OpsAssumption DEF Swap, Inv, Shape, IsDev, Factory
  <1>2. Shape'
    BY <1>1 DEF Inv, Shape
  <1>3. \A c \in Calls : AnswersOf(call'[c])
    BY <1>1 DEF Inv
  <1>4. \A c \in Calls, g \in Hosts : alone'[g] = c => g # h /\ alone[g] = c /\ dev'[g] = dev[g]
    BY <1>1
  <1>5. Loaded' /\ DoneRuns'
    <2>1. Loaded'
      BY <1>1, <1>4 DEF Inv, Loaded
    <2>2. DoneRuns'
      BY <1>1, <1>4 DEF Inv, DoneRuns
    <2>3. QED BY <2>1, <2>2
  <1>6. Paired' /\ Pending'
    BY <1>1 DEF Inv, Paired, Pending
  <1>7. QED BY <1>2, <1>3, <1>5, <1>6 DEF Inv

LEMMA NextInv == Inv /\ [Next]_vars => Inv'
  <1> SUFFICES ASSUME Inv, [Next]_vars PROVE Inv'
    OBVIOUS
  <1>1. CASE UNCHANGED vars
    BY <1>1, InvSame DEF vars
  <1>2. ASSUME NEW p \in Pools, SetPool(p) PROVE Inv'
    BY <1>2, InvSame DEF SetPool
  <1>3. ASSUME NEW c \in Calls, NEW l \in Lists, ApplyPool(c, l) PROVE Inv'
    BY <1>3, ApplyPoolInv
  <1>4. ASSUME NEW c \in Calls, NEW h \in Tuned, NEW id \in PresetIDs, ApplyPreset(c, h, id)
        PROVE  Inv'
    BY <1>4, ApplyPresetInv, OpsAssumption
  <1>5. ASSUME NEW c \in Calls, NEW h \in Tuned, NEW t, PatchMiner(c, h, t) \/ RestartMiner(c, h)
        PROVE  Inv'
    BY <1>5, SmallInv, OpsAssumption
  <1>6. ASSUME NEW c \in Calls, Patch(c) \/ Restart(c) PROVE Inv'
    BY <1>6, PatchInv, RestartInv
  <1>7. ASSUME NEW h \in Hosts, Poll(h) \/ Boots(h) PROVE Inv'
    BY <1>7, PollInv, BootsInv
  <1>8. ASSUME NEW h \in Tuned, NEW a \in Asics, Swap(h, a) PROVE Inv'
    BY <1>8, SwapInv, OpsAssumption
  <1>9. QED BY <1>1, <1>2, <1>3, <1>4, <1>5, <1>6, <1>7, <1>8 DEF Next

LEMMA Inductive == Spec => []Inv
  BY InitInv, NextInv, PTL DEF Spec

-----------------------------------------------------------------------------
(* Theorems *)

\* What ApplyPool, ApplyPreset, PatchMiner and RestartMiner answer is true and
\* complete: a host reported as done runs the pool of the call unless another call
\* or device came between, and a call that is over has answered for all its hosts.
THEOREM CallsReportTruth == Spec => []ReportsTrue
  <1>1. Inv => ReportsTrue
    <2> SUFFICES ASSUME Inv PROVE EveryHostAnswered
      BY DEF Inv, ReportsTrue
    <2>1. ASSUME NEW c \in Calls, call[c].pc = "over"
          PROVE  DOMAIN call[c].res = {call[c].hosts[i] : i \in DOMAIN call[c].hosts}
      <3>1. DOMAIN call[c].res = HostsUpTo(call[c], Len(call[c].hosts))
        BY <2>1 DEF Inv, AnswersOf
      <3>2. DOMAIN call[c].hosts = 1 .. Len(call[c].hosts)
        BY DEF Inv, Shape, IsCall
      <3>3. QED BY <3>1, <3>2 DEF HostsUpTo
    <2>2. QED BY <2>1 DEF EveryHostAnswered
  <1>2. QED BY <1>1, Inductive, PTL

\* ApplyPreset never leaves a miner with the frequency of one preset and the
\* voltage of another one, or of another model, in flash or in use.
THEOREM PresetsStayPaired == Spec => []PairsMatch
  <1>1. Inv => PairsMatch
    BY DEF Inv, Paired, PairOf, PairsMatch
  <1>2. QED BY <1>1, Inductive, PTL

\* When all calls are over, a miner that does not run with what is in its flash was
\* reported as failed by one of them.
THEOREM NothingLeftPending == Spec => []NothingPending
  <1>1. Inv => NothingPending
    BY DEF Inv, Pending, Owes, NothingPending
  <1>2. QED BY <1>1, Inductive, PTL
=============================================================================
