-------------------------------- MODULE Health --------------------------------
(***************************************************************************)
(* internal/health: the monitor samples the machine every 15 seconds, keeps *)
(* a ring of samples for the charts, and alerts with hysteresis.  The feed  *)
(* it alerts through is that of Stream.                                     *)
(***************************************************************************)
EXTENDS Stream

CONSTANTS Keys,         \* alert conditions, in the order in which check looks at them
          HistLen,      \* samples the ring holds: 480 in the code
          MaxSamples    \* bound: samples taken

ASSUME HealthAssumption ==
    /\ HistLen \in Nat \ {0} /\ MaxSamples \in Nat
    /\ Keys \in Seq(STRING) /\ Keys # <<>>

VARIABLES last,         \* Monitor.last
          hist,         \* Monitor.hist, slots 0 .. HistLen - 1
          histIdx, histCount,
          active,       \* Monitor.active
          monitor,      \* number of the key check looks at next, 0 when it waits
          sampled       \* all samples since the start, for the properties

health == <<last, hist, histIdx, histCount, active, monitor, sampled>>

\* A percentage or a temperature: below the clear limit, between the limits, at
\* or above the set limit, or not to be had.  SMART passes or fails.
Levels(key) == IF key = "smart" THEN {"absent", "ok", "high"}
               ELSE {"absent", "ok", "mid", "high"}
Readings == {r \in [1 .. Len(Keys) -> {"absent", "ok", "mid", "high"}] :
                 \A k \in 1 .. Len(Keys) : r[k] \in Levels(Keys[k])}
NoReading == [k \in 1 .. Len(Keys) |-> "absent"]

Sets(level) == level = "high"
Clears(level) == level = "ok"

\* NewMonitor; the reading it takes is neither kept in the ring nor checked.
HealthInit ==
    /\ last = NoReading
    /\ hist = [i \in 0 .. HistLen - 1 |-> NoReading]
    /\ histIdx = 0 /\ histCount = 0
    /\ active = [k \in 1 .. Len(Keys) |-> FALSE]
    /\ monitor = 0
    /\ sampled = <<>>

HealthForgets ==
    /\ last' = NoReading
    /\ hist' = [i \in 0 .. HistLen - 1 |-> NoReading]
    /\ histIdx' = 0 /\ histCount' = 0
    /\ active' = [k \in 1 .. Len(Keys) |-> FALSE]
    /\ monitor' = 0
    /\ sampled' = <<>>

\* Mutant: the index does not wrap.
NextIdxUnbounded(i) == i + 1
NextIdx(i) == (i + 1) % HistLen

\* A tick of Run: the sample goes to the ring and to `last`.
Sample ==
    /\ monitor = 0 /\ Len(sampled) < MaxSamples
    /\ \E reading \in Readings :
        /\ last' = reading
        /\ hist' = [hist EXCEPT ![histIdx] = reading]
        /\ sampled' = Append(sampled, reading)
    /\ histIdx' = NextIdx(histIdx)
    /\ histCount' = IF histCount < HistLen THEN histCount + 1 ELSE histCount
    /\ monitor' = 1
    /\ UNCHANGED <<active, stream>>

\* Mutant: an alert ends as soon as its limit is no longer reached.
TransitionFlaps(was, level) == Sets(level)
\* The new value of active[key]; a key that is not to be had is not looked at.
Transition(was, level) == (was \/ Sets(level)) /\ ~Clears(level)

\* check looks at one key.  Nobody else changes `active`, so the append to the
\* feed is part of the step; the broadcast is not.
CheckKey ==
    /\ monitor # 0 /\ adding["monitor"] = NoAlert
    /\ LET now == Transition(active[monitor], last[monitor])
           alert == [id |-> 0, typ |-> "system", key |-> monitor, at |-> Len(sampled)]
       IN  /\ active' = [active EXCEPT ![monitor] = now]
           /\ IF now /\ ~active[monitor]
              THEN Add("monitor", alert) /\ UNCHANGED <<clients, chan, missed>>
              ELSE UNCHANGED stream
    /\ monitor' = IF monitor = Len(Keys) THEN 0 ELSE monitor + 1
    /\ UNCHANGED <<last, hist, histIdx, histCount, sampled>>

\* History: up to n most recent samples, oldest first.
History(n) ==
    LET m == IF n > histCount THEN histCount ELSE n
        start == (histIdx - m + HistLen * 2) % HistLen
    IN  [i \in 1 .. m |-> hist[(start + i - 1) % HistLen]]

-----------------------------------------------------------------------------
(* Properties                                                               *)

\* The chart shows the most recent samples in order, for every length asked
\* for, while the ring fills and after it has wrapped (health.go:267-279).
HistoryRight ==
    \A n \in 0 .. HistLen + 1 :
        LET kept == CHOOSE m \in 0 .. HistLen :
                        /\ m <= n /\ m <= Len(sampled)
                        /\ m \in {n, HistLen, Len(sampled)}
        IN  History(n) = SubSeq(sampled, Len(sampled) - kept + 1, Len(sampled))

SystemAlerts(k) == {i \in 1 .. Len(raised) : raised[i].typ = "system" /\ raised[i].key = k}
Calm(k, from, to) == \E s \in from .. to : Clears(sampled[s][k])

\* One alert per excursion: an alert is raised at a sample that reaches the
\* limit, two of a key have a sample below the clear limit between them, and
\* no excursion that check has seen goes without one (health.go:343-359).
OneAlertPerExcursion ==
    \A k \in 1 .. Len(Keys) :
        /\ \A i \in SystemAlerts(k) : Sets(sampled[raised[i].at][k])
        /\ \A i, j \in SystemAlerts(k) :
               i < j => Calm(k, raised[i].at, raised[j].at)
        /\ \A s \in 1 .. Len(sampled) :
               Sets(sampled[s][k]) /\ (s < Len(sampled) \/ monitor = 0 \/ monitor > k) =>
                   \E i \in SystemAlerts(k) :
                       raised[i].at <= s /\ ~Calm(k, raised[i].at, s)

\* The monitor shows and announces what was sampled.
MonitorFaithful == HistoryRight /\ OneAlertPerExcursion
=============================================================================
