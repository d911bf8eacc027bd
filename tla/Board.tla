------------------------------- MODULE Board -------------------------------
(***************************************************************************)
(* The engine plane of the board (providers/board_engine_durable.py): a    *)
(* run takes what the engine observes, or a cached observation that is not *)
(* older than TTL, and reports HEALTHY or the anomalies in it.  Runs share *)
(* one cache file and one temporary name for it, without a lock.           *)
(***************************************************************************)
EXTENDS Integers, Nothing, SequencesExt

CONSTANTS
  Runs,          \* board runs, each made again and again
  Observations,  \* what the engine may have to tell
  Torn,
  CacheTTL, Stall,    \* ttl_seconds, stall_seconds
  MaxTime, MaxNews \* bounds: the clock, changes of what the engine has to tell

(* An observation: the events of each entity, the failure facts, and the   *)
(* dead letters, each by its queue.                                        *)
ASSUME BoardAssumption ==
  /\ CacheTTL \in Nat /\ Stall \in Nat /\ MaxTime \in Nat /\ MaxNews \in Nat
  /\ \A o \in Observations :
       /\ \A e \in o.entities : e.ended \in BOOLEAN /\ e.events \in Seq(Range(e.events)) /\ e.events # << >>
            /\ \A i \in DOMAIN e.events :
                 /\ e.events[i].class \in {"safety-violation", "terminal", "transient", "progress"}
                 /\ e.events[i].at \in Nat
       /\ \A i \in DOMAIN o.facts :
            o.facts[i].cron \in BOOLEAN /\ o.facts[i].class \in {"terminal", "transient", "retried"}
  /\ {None, Torn} \cap Observations = {} /\ None # Torn

VARIABLES
  engine,        \* what the engine has to tell
  time, news,
  cache, temp,   \* the cache file and the file of the temporary name
  state,         \* where a run is
  began,         \* the time it took
  data, takenAt, \* the observation it judges and its time
  writesTo,      \* where the file is that it has open
  health,        \* its answer
  told           \* history: what the engine had to tell at each time

cacheFiles == <<cache, temp>>
run == <<state, began, data, takenAt, writesTo, health>>
boardVars == <<engine, time, news, cacheFiles, run, told>>

BoardInit ==
  /\ engine \in Observations /\ time = 0 /\ news = 0
  /\ cache = None /\ temp = None
  /\ state = [r \in Runs |-> "idle"] /\ began = [r \in Runs |-> 0]
  /\ data = [r \in Runs |-> None] /\ takenAt = [r \in Runs |-> 0]
  /\ writesTo = [r \in Runs |-> "none"] /\ health = [r \in Runs |-> "none"]
  /\ told = [t \in 0..MaxTime |-> IF t = 0 THEN {engine} ELSE {}]

-----------------------------------------------------------------------------
(* anomaly_records: one anomaly for an entity at most, by its last event,  *)
(* the first of those of the greatest time.                                *)
Latest(e) ==
  e.events[CHOOSE i \in DOMAIN e.events :
             \A j \in DOMAIN e.events :
               e.events[j].at <= e.events[i].at /\ (j < i => e.events[j].at < e.events[i].at)]
EntityAnomaly(e, now) ==
  LET last == Latest(e) IN
  \/ last.class \in {"safety-violation", "terminal"}
  \/ last.class = "progress" /\ ~e.ended /\ now - last.at > Stall

(* Cron failures are one anomaly per department, when there were two; they *)
(* keep the other failures and dead letters of their queues out.           *)
Stalls(o) ==
  {d \in {f.dept : f \in Range(o.facts)} : \E i, j \in DOMAIN o.facts :
     i # j /\ \A k \in {i, j} : o.facts[k].cron /\ o.facts[k].dept = d}
SuppressedDepts(o) == {f.queue : f \in Range(o.facts)} \* a faulty variant: of all facts
Suppressed(o) == {f.queue : f \in {f \in Range(o.facts) : f.cron}}
Failures(o) == {f \in Range(o.facts) : f.class = "terminal" /\ f.queue \notin Suppressed(o)}
DeadLetters(o) == o.dead \ Suppressed(o)

Anomalies(o, now) ==
  {e \in o.entities : EntityAnomaly(e, now)} # {} \/ Stalls(o) # {}
    \/ Failures(o) # {} \/ DeadLetters(o) # {}

-----------------------------------------------------------------------------
StateIs(r, s) == state[r] = s
StateTo(r, s) == state' = [state EXCEPT ![r] = s]

BeginRun(r) ==
  /\ StateIs(r, "idle")
  /\ began' = [began EXCEPT ![r] = time]
  /\ data' = [data EXCEPT ![r] = None] /\ takenAt' = [takenAt EXCEPT ![r] = time]
  /\ health' = [health EXCEPT ![r] = "none"]
  /\ \E refresh \in BOOLEAN : StateTo(r, IF refresh THEN "observe" ELSE "cache")
  /\ UNCHANGED <<engine, time, news, cacheFiles, writesTo, told>>

Usable(r) ==
  /\ cache \notin {None, Torn}
  /\ began[r] - cache.at \in 0..CacheTTL
ReadCache(r) ==
  /\ StateIs(r, "cache")
  /\ IF Usable(r)
       THEN /\ data' = [data EXCEPT ![r] = cache.observe] /\ takenAt' = [takenAt EXCEPT ![r] = cache.at]
            /\ StateTo(r, "judge")
       ELSE StateTo(r, "observe") /\ UNCHANGED <<data, takenAt>>
  /\ UNCHANGED <<engine, time, news, cacheFiles, began, writesTo, health, told>>

Fail(r) ==
  /\ StateTo(r, "idle") /\ health' = [health EXCEPT ![r] = "failed"]
  /\ data' = [data EXCEPT ![r] = None] /\ takenAt' = [takenAt EXCEPT ![r] = 0]
  /\ writesTo' = [writesTo EXCEPT ![r] = "none"]
Observe(r) ==
  /\ StateIs(r, "observe")
  /\ \/ data' = [data EXCEPT ![r] = engine] /\ StateTo(r, "open") /\ UNCHANGED <<takenAt, writesTo, health>>
     \/ Fail(r)
  /\ UNCHANGED <<engine, time, news, cacheFiles, began, told>>

(* write_cache: the name is opened and emptied, written, and renamed.  The *)
(* open file goes along when another run renames it.                       *)
OpenTemp(r) ==
  /\ StateIs(r, "open")
  /\ temp' = Torn /\ writesTo' = [writesTo EXCEPT ![r] = "temp"] /\ StateTo(r, "write")
  /\ UNCHANGED <<engine, time, news, cache, began, data, takenAt, health, told>>
Envelope(r) == [observe |-> data[r], at |-> takenAt[r]]
Into(file, r) == IF file = Torn THEN Envelope(r) ELSE IF file = Envelope(r) THEN file ELSE Torn
WriteTemp(r) ==
  /\ StateIs(r, "write")
  /\ \/ writesTo[r] = "temp" /\ temp' \in {Into(temp, r), Envelope(r)} /\ UNCHANGED cache
     \/ writesTo[r] = "cache" /\ cache' \in {Into(cache, r), Envelope(r)} /\ UNCHANGED temp
     \/ writesTo[r] = "none" /\ UNCHANGED cacheFiles
  /\ writesTo' = [writesTo EXCEPT ![r] = "none"] /\ StateTo(r, "replace")
  /\ UNCHANGED <<engine, time, news, began, data, takenAt, health, told>>
Replace(r) ==
  /\ StateIs(r, "replace")
  /\ \/ /\ temp # None
        /\ cache' = temp /\ temp' = None /\ StateTo(r, "judge")
        /\ writesTo' = [s \in Runs |-> IF writesTo[s] = "temp" THEN "cache" ELSE "none"]
        /\ UNCHANGED <<data, takenAt, health>>
     \/ temp = None /\ Fail(r) /\ UNCHANGED cacheFiles
  /\ UNCHANGED <<engine, time, news, began, told>>

JudgeRun(r) ==
  /\ StateIs(r, "judge")
  /\ health' = [health EXCEPT ![r] = IF Anomalies(data[r], began[r]) THEN "anomalies" ELSE "HEALTHY"]
  /\ StateTo(r, "idle")
  /\ data' = [data EXCEPT ![r] = None] /\ takenAt' = [takenAt EXCEPT ![r] = 0]
  /\ UNCHANGED <<engine, time, news, cacheFiles, began, writesTo, told>>

RunDies(r) ==
  /\ ~StateIs(r, "idle") /\ Fail(r)
  /\ UNCHANGED <<engine, time, news, cacheFiles, began, told>>

-----------------------------------------------------------------------------
TimePasses ==
  /\ time < MaxTime /\ time' = time + 1
  /\ told' = [told EXCEPT ![time + 1] = {engine}]
  /\ UNCHANGED <<engine, news, cacheFiles, run>>
News ==
  /\ news < MaxNews /\ news' = news + 1
  /\ engine' \in Observations \ {engine}
  /\ told' = [told EXCEPT ![time] = @ \cup {engine'}]
  /\ UNCHANGED <<time, cacheFiles, run>>

BoardNext ==
  \/ \E r \in Runs :
       \/ BeginRun(r) \/ ReadCache(r) \/ Observe(r) \/ OpenTemp(r) \/ WriteTemp(r) \/ Replace(r)
       \/ JudgeRun(r) \/ RunDies(r)
  \/ TimePasses \/ News
BoardSpec == BoardInit /\ [][BoardNext]_boardVars

-----------------------------------------------------------------------------
Cached == [observe : Observations, at : 0..MaxTime]
BoardTypeOK ==
  /\ engine \in Observations /\ time \in 0..MaxTime /\ news \in 0..MaxNews
  /\ cache \in Cached \cup {None, Torn} /\ temp \in Cached \cup {None, Torn}
  /\ state \in [Runs -> {"idle", "cache", "observe", "open", "write", "replace", "judge"}]
  /\ began \in [Runs -> 0..MaxTime] /\ takenAt \in [Runs -> 0..MaxTime]
  /\ data \in [Runs -> Observations \cup {None}]
  /\ writesTo \in [Runs -> {"none", "temp", "cache"}]
  /\ health \in [Runs -> {"none", "failed", "anomalies", "HEALTHY"}]
  /\ told \in [0..MaxTime -> SUBSET Observations]

(* Nothing in an observation needs attention, said of each fact by itself. *)
Quiet(o, now) ==
  /\ \A e \in o.entities : \E i \in DOMAIN e.events :
       /\ \A j \in DOMAIN e.events : e.events[j].at <= e.events[i].at
       /\ e.events[i].class \notin {"safety-violation", "terminal"}
       /\ e.ended \/ e.events[i].class = "transient" \/ now <= e.events[i].at + Stall
  /\ \A i, j \in DOMAIN o.facts :
       o.facts[i].cron /\ o.facts[j].cron /\ o.facts[i].dept = o.facts[j].dept => i = j
  /\ \A i \in DOMAIN o.facts : o.facts[i].class = "terminal" =>
       \E j \in DOMAIN o.facts : o.facts[j].cron /\ o.facts[j].queue = o.facts[i].queue
  /\ \A q \in o.dead : \E j \in DOMAIN o.facts : o.facts[j].cron /\ o.facts[j].queue = q
(* A run that reports HEALTHY has an instant to show, not longer than TTL  *)
(* before it began, at which nothing at the engine needed attention; from  *)
(* whatever cache other runs left, overwrote or died in.                   *)
HealthyIsQuiet ==
  \A r \in Runs : health[r] = "HEALTHY" =>
    \E t \in 0..time : began[r] - CacheTTL <= t /\ \E o \in told[t] : Quiet(o, began[r])
=============================================================================
