------------------------------- MODULE SimLab -------------------------------
(***************************************************************************)
(* The simulation lab (app/simlab/service.py): visitors submit runs, a     *)
(* bounded line feeds a fixed number of recording workers, bundled runs are*)
(* simulated at once, and runs are kept for a while.                       *)
(*                                                                         *)
(* submit does its checks and its bookkeeping without an await, after the  *)
(* request was validated in the pool, so it is one step; so are the stages *)
(* of a run, which change when a pool job returns to the event loop.  A    *)
(* stamp of the hourly history is the run that left it: its time is the    *)
(* run's created.  A deleted run keeps its record here with stage "gone".  *)
(***************************************************************************)
EXTENDS Integers, FiniteSets, Sequences

CONSTANTS
    Visitors, Addresses,   \* who submits, and from where
    Settings,              \* bundled settings: the cache's keys
    Workers,               \* lab_concurrent_recordings worker tasks
    QueueSize,             \* lab_queue_size
    LiveLimit,             \* lab_runs_per_hour
    BundledLimit,          \* lab_bundled_runs_per_hour
    RunsKept,              \* lab_runs_kept
    Hour,                  \* ticks of the clock in an hour
    Keep,                  \* lab_keep_hours in ticks
    MaxRuns,               \* bound: runs accepted in a behaviour
    MaxClock               \* bound: the clock

ASSUME LabConstants ==
    /\ Visitors # {} /\ Addresses # {} /\ Visitors \intersect Addresses = {}
    /\ QueueSize \in Nat \ {0} /\ RunsKept \in Nat \ {0}
    /\ LiveLimit \in Nat \ {0} /\ BundledLimit \in Nat \ {0}
    /\ Hour \in Nat \ {0} /\ Keep \in Nat \ {0}
    /\ MaxRuns \in Nat \ {0} /\ MaxClock \in Nat

VARIABLES
    count,     \* runs accepted so far
    runs,      \* _runs, by order of acceptance
    waiting,   \* _waiting, and the ids in _queue: they change together
    worker,    \* the run each worker task is at, 0 when it waits for the queue
    history,   \* _history: per kind and visitor or address, the runs that left a stamp
    cache,     \* _cache: the settings whose bundled result is known
    now,       \* the clock
    stopped    \* stop() has run

vars == << count, runs, waiting, worker, history, cache, now, stopped >>

Ids == 1..count
Kinds == {"live", "bundled"}
Keys == Kinds \X (Visitors \union Addresses)
ActiveStages == {"waiting", "recording", "simulating"}
Stages == ActiveStages \union {"done", "failed", "gone"}
Active(run) == run.stage \in ActiveStages
Finished(run) == run.stage \in {"done", "failed"}
Run == [stage : Stages, visitor : Visitors, address : Addresses, kind : Kinds,
        settings : Settings, created : 0..MaxClock, finished : 0..MaxClock]

\* Every variable holds a value of its kind: ids in the line, at the workers
\* and in the hourly history are those of accepted runs (service.py, SimLab).
TypeOK ==
    /\ count \in 0..MaxRuns /\ runs \in [Ids -> Run]
    /\ waiting \in Seq(1..MaxRuns) /\ worker \in [Workers -> 0..MaxRuns]
    /\ history \in [Keys -> SUBSET Ids] /\ cache \subseteq Settings
    /\ now \in 0..MaxClock /\ stopped \in BOOLEAN

Init ==
    /\ count = 0 /\ runs = [r \in Ids |-> {}] /\ waiting = << >>
    /\ worker = [w \in Workers |-> 0] /\ history = [k \in Keys |-> {}]
    /\ cache = {} /\ now = 0 /\ stopped = FALSE

-----------------------------------------------------------------------------
\* Limits.

\* _prune: finished runs past keep_hours go, and so do stamps over an hour old.
ExpiredSinceCreated(run) == Finished(run) /\ now - run.created > Keep   \* mutant
Expired(run) == Finished(run) /\ now - run.finished > Keep
PrunedRuns == [r \in Ids |-> IF Expired(runs[r]) THEN [runs[r] EXCEPT !.stage = "gone"]
                             ELSE runs[r]]
StampExpiredEarly(r) == now - runs[r].created >= Hour - 1   \* mutant
StampExpired(r) == now - runs[r].created > Hour
PrunedHistory == [k \in Keys |-> {r \in history[k] : ~StampExpired(r)}]

\* _check_hourly for one key.
LimitOf(kind) == IF kind = "live" THEN LiveLimit ELSE BundledLimit
UnderLimit(kind, who) == Cardinality(PrunedHistory[<< kind, who >>]) < LimitOf(kind)

\* The visitor's run that submit finds active.
HasActive(v) == \E r \in Ids : runs[r].visitor = v /\ Active(runs[r])

\* The line has room for another live run.
HasRoom(kind) == kind = "live" => Len(waiting) < QueueSize

\* _keep_newest: of the visitor's runs beyond RunsKept, the oldest inactive go.
Own(rs, v) == {r \in DOMAIN rs : rs[r].visitor = v /\ (Active(rs[r]) \/ Finished(rs[r]))}
Excess(rs, v) == Cardinality(Own(rs, v)) - RunsKept
Dropped(rs, v) ==
    LET idle == {r \in Own(rs, v) : ~Active(rs[r])}
    IN {r \in idle : Cardinality({q \in idle : q < r}) < Excess(rs, v)}
KeepNewest(rs, v) == [r \in DOMAIN rs |-> IF r \in Dropped(rs, v) THEN [rs[r] EXCEPT !.stage = "gone"]
                                    ELSE rs[r]]

-----------------------------------------------------------------------------
\* Runs.

Acceptable(v, a, kind) ==
    /\ ~HasActive(v)
    /\ UnderLimit(kind, v) /\ UnderLimit(kind, a)
    /\ HasRoom(kind)

\* submit, accepted.  The run waits; the visitor's oldest runs make room.  A
\* bundled run then goes on at once (_finish_bundled): it is done if its
\* settings are cached, else it is simulating.
Submit(v, a, kind, s) ==
    LET r == count + 1
        run == [stage |-> "waiting", visitor |-> v, address |-> a, kind |-> kind,
                settings |-> s, created |-> now, finished |-> now]
        all == [q \in 1..r |-> IF q = r THEN run ELSE PrunedRuns[q]]
        stage == IF kind = "live" THEN "waiting" ELSE IF s \in cache THEN "done" ELSE "simulating"
    IN /\ ~stopped /\ count < MaxRuns /\ Acceptable(v, a, kind)
       /\ count' = r
       /\ runs' = [KeepNewest(all, v) EXCEPT ![r].stage = stage]
       /\ history' = [k \in Keys |-> IF k \in {<< kind, v >>, << kind, a >>}
                                     THEN PrunedHistory[k] \union {r} ELSE PrunedHistory[k]]
       /\ waiting' = IF kind = "live" THEN Append(waiting, r) ELSE waiting
       /\ UNCHANGED << worker, cache, now, stopped >>

\* list_runs, get_run, and a submit that is refused: they prune and no more.
Look ==
    /\ ~stopped
    /\ runs' = PrunedRuns /\ history' = PrunedHistory
    /\ UNCHANGED << count, waiting, worker, cache, now, stopped >>

\* _complete and _fail.
End(r, stage) == runs' = [runs EXCEPT ![r].stage = stage, ![r].finished = now]

\* _finish_bundled, when its pool jobs have returned or one has raised.
FinishBundled(r) ==
    /\ ~stopped /\ runs[r].kind = "bundled" /\ runs[r].stage = "simulating"
    /\ \/ End(r, "done") /\ cache' = cache \union {runs[r].settings}
       \/ End(r, "failed") /\ UNCHANGED cache
    /\ UNCHANGED << count, waiting, worker, history, now, stopped >>

\* _worker takes the head of the line; a run that is gone or over is skipped.
TakeLast(w) ==   \* mutant: the line is a stack
    /\ ~stopped /\ worker[w] = 0 /\ waiting # << >>
    /\ LET r == waiting[Len(waiting)] IN
         /\ waiting' = SubSeq(waiting, 1, Len(waiting) - 1)
         /\ runs' = [runs EXCEPT ![r].stage = "recording"] /\ worker' = [worker EXCEPT ![w] = r]
    /\ UNCHANGED << count, history, cache, now, stopped >>
TakeUnremoved(w) ==   \* mutant: the run stays in the line
    /\ ~stopped /\ worker[w] = 0 /\ waiting # << >>
    /\ runs' = [runs EXCEPT ![Head(waiting)].stage = "recording"]
    /\ worker' = [worker EXCEPT ![w] = Head(waiting)]
    /\ UNCHANGED << count, waiting, history, cache, now, stopped >>
Take(w) ==
    /\ ~stopped /\ worker[w] = 0 /\ waiting # << >>
    /\ LET r == Head(waiting) IN
         /\ waiting' = Tail(waiting)
         /\ IF Active(runs[r])
            THEN /\ runs' = [runs EXCEPT ![r].stage = "recording"]
                 /\ worker' = [worker EXCEPT ![w] = r]
            ELSE UNCHANGED << runs, worker >>
    /\ UNCHANGED << count, history, cache, now, stopped >>

\* _record_and_simulate: the recording came back, or it raised.
RecordedStays(w) ==   \* mutant: an error leaves the run where it is
    /\ ~stopped /\ worker[w] # 0 /\ runs[worker[w]].stage = "recording"
    /\ \/ runs' = [runs EXCEPT ![worker[w]].stage = "simulating"] /\ UNCHANGED worker
       \/ worker' = [worker EXCEPT ![w] = 0] /\ UNCHANGED runs
    /\ UNCHANGED << count, waiting, history, cache, now, stopped >>
Recorded(w) ==
    /\ ~stopped /\ worker[w] # 0 /\ runs[worker[w]].stage = "recording"
    /\ \/ runs' = [runs EXCEPT ![worker[w]].stage = "simulating"] /\ UNCHANGED worker
       \/ End(worker[w], "failed") /\ worker' = [worker EXCEPT ![w] = 0]
    /\ UNCHANGED << count, waiting, history, cache, now, stopped >>

Simulated(w) ==
    /\ ~stopped /\ worker[w] # 0 /\ runs[worker[w]].stage = "simulating"
    /\ \E stage \in {"done", "failed"} : End(worker[w], stage)
    /\ worker' = [worker EXCEPT ![w] = 0]
    /\ UNCHANGED << count, waiting, history, cache, now, stopped >>

Tick ==
    /\ ~stopped /\ now < MaxClock /\ now' = now + 1
    /\ UNCHANGED << count, runs, waiting, worker, history, cache, stopped >>

\* stop: the workers are cancelled where they are; the process is ending.
Stop ==
    /\ ~stopped /\ stopped' = TRUE /\ worker' = [w \in Workers |-> 0]
    /\ UNCHANGED << count, runs, waiting, history, cache, now >>

Stopped == stopped /\ UNCHANGED vars

Next ==
    \/ \E v \in Visitors, a \in Addresses, kind \in Kinds, s \in Settings : Submit(v, a, kind, s)
    \/ Look
    \/ \E r \in Ids : FinishBundled(r)
    \/ \E w \in Workers : Take(w) \/ Recorded(w) \/ Simulated(w)
    \/ Tick \/ Stop \/ Stopped

Spec == Init /\ [][Next]_vars
\* A worker task that can run does; every pool job ends (a recording is limited
\* by its duration and five failures in a row) and its result is delivered.
FairSpec ==
    /\ Spec
    /\ \A r \in 1..MaxRuns : WF_vars(r \in Ids /\ FinishBundled(r))
    /\ \A w \in Workers : WF_vars(Take(w)) /\ WF_vars(Recorded(w)) /\ WF_vars(Simulated(w))

-----------------------------------------------------------------------------
\* Properties.

\* FR-011: a visitor never has two runs waiting or running.
OneActiveRun ==
    \A r, q \in Ids : Active(runs[r]) /\ Active(runs[q]) /\ runs[r].visitor = runs[q].visitor
        => r = q

\* FR-011: the waiting line never exceeds lab_queue_size.
LineBounded == Len(waiting) <= QueueSize

\* FR-011: no window of one hour, both ends included, holds more accepted runs
\* of a kind than its limit, for any visitor and for any address, however the
\* history was pruned in between and although runs are deleted.
By(r, kind, who) ==
    runs[r].kind = kind /\ who \in {runs[r].visitor, runs[r].address}
InHour(kind, who, t) ==
    {r \in Ids : By(r, kind, who) /\ t - Hour <= runs[r].created /\ runs[r].created <= t}
HourlyLimit ==
    \A kind \in Kinds, who \in Visitors \union Addresses, t \in 0..MaxClock :
        Cardinality(InHour(kind, who, t)) <= LimitOf(kind)

\* A run that waits is in the line, once, and nothing else is: no run is lost
\* on its way to a worker, pruned while it waits, or recorded twice.
LineIsWaitingRuns ==
    ~stopped =>
        /\ \A r \in Ids : runs[r].stage = "waiting" <=> \E i \in 1..Len(waiting) : waiting[i] = r
        /\ \A i, j \in 1..Len(waiting) : waiting[i] = waiting[j] => i = j
        /\ \A w, x \in Workers : worker[w] # 0 /\ worker[w] = worker[x] => w = x

\* FR-012: a run is deleted only when it is over, and only because keep_hours
\* have passed since or lab_runs_kept newer runs of its visitor exist.
DeletedOnlyWhenDue ==
    [][\A r \in Ids : runs[r].stage # "gone" /\ runs'[r].stage = "gone" =>
         /\ Finished(runs[r])
         /\ \/ now - runs[r].finished > Keep
            \/ Cardinality({q \in Own(runs', runs[r].visitor) : q > r}) >= RunsKept]_vars

\* Live runs reach a worker in the order in which they were accepted.
FirstComeFirstServed ==
    [][\A r \in Ids : runs[r].stage = "waiting" /\ runs'[r].stage = "recording" =>
         \A q \in 1..(r - 1) : runs[q].stage # "waiting"]_vars

-----------------------------------------------------------------------------
\* The lab implements RunLedger.

LedgerState(stage) ==
    IF stage \in ActiveStages THEN "open" ELSE IF stage = "gone" THEN "gone" ELSE "over"
LedgerOwner == [r \in 1..count |-> runs[r].visitor]
LedgerStates == [r \in 1..count |-> LedgerState(runs[r].stage)]
Ledger == INSTANCE RunLedger WITH
    asked <- count, owner <- LedgerOwner, state <- LedgerStates, closed <- stopped

\* Seen by a visitor the lab is RunLedger: the line, the workers, the pool jobs that
\* raise, the cache and the pruning only ever accept a run of a visitor without one,
\* end it once and forget it afterwards, and every accepted run ends unless the lab is
\* stopped (FR-011, FR-012; submit, _finish_bundled, _worker, _prune, _keep_newest).
ImplementsLedger == Ledger!Spec

\* Its safety part, which needs no fairness.
ImplementsSafeLedger == Ledger!SafeSpec
=============================================================================
