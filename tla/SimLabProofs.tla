---------------------------- MODULE SimLabProofs ----------------------------
(***************************************************************************)
(* Theorems about SimLab, for every number of visitors, workers and limits:*)
(* its type invariant, one active run per visitor, the bounded line, the   *)
(* hourly limit in every window of one hour, a line served in order of     *)
(* acceptance, and runs deleted only when they are due.                    *)
(***************************************************************************)
EXTENDS SimLab, FiniteSetTheorems, TLAPS

\* What a step may do to the runs accepted before it: who asked for them, from
\* where, for what and when stays; a run that is over does not start again.
SameRuns(rs, n) ==
    \A r \in 1..n :
        /\ rs[r].visitor = runs[r].visitor /\ rs[r].address = runs[r].address
        /\ rs[r].kind = runs[r].kind /\ rs[r].created = runs[r].created
        /\ Active(rs[r]) => Active(runs[r])

-----------------------------------------------------------------------------
\* Pruning deletes finished runs and changes nothing else.
LEMMA PrunedRunsFacts ==
    ASSUME TypeOK
    PROVE  PrunedRuns \in [Ids -> Run] /\ SameRuns(PrunedRuns, count)
<1> USE DEF TypeOK, Ids
<1>1. ASSUME NEW r \in 1..count
      PROVE  /\ PrunedRuns[r] \in Run
             /\ PrunedRuns[r].visitor = runs[r].visitor /\ PrunedRuns[r].address = runs[r].address
             /\ PrunedRuns[r].kind = runs[r].kind /\ PrunedRuns[r].created = runs[r].created
             /\ Active(PrunedRuns[r]) => Active(runs[r])
  BY <1>1 DEF PrunedRuns, Run, Stages, ActiveStages, Active
<1>2. PrunedRuns \in [1..count -> Run]
  BY <1>1 DEF PrunedRuns
<1> QED
  BY <1>1, <1>2 DEF SameRuns

\* So does making room for a visitor's newest run.
LEMMA KeepNewestFacts ==
    ASSUME NEW n \in Nat, NEW rs \in [1..n -> Run], NEW v
    PROVE  /\ KeepNewest(rs, v) \in [1..n -> Run]
           /\ \A r \in 1..n :
                /\ KeepNewest(rs, v)[r].visitor = rs[r].visitor
                /\ KeepNewest(rs, v)[r].address = rs[r].address
                /\ KeepNewest(rs, v)[r].kind = rs[r].kind
                /\ KeepNewest(rs, v)[r].created = rs[r].created
                /\ Active(KeepNewest(rs, v)[r]) => Active(rs[r])
<1> DEFINE kept == KeepNewest(rs, v)
<1>1. DOMAIN rs = 1..n
  OBVIOUS
<1>2. ASSUME NEW r \in 1..n
      PROVE  /\ kept[r] \in Run
             /\ kept[r].visitor = rs[r].visitor /\ kept[r].address = rs[r].address
             /\ kept[r].kind = rs[r].kind /\ kept[r].created = rs[r].created
             /\ Active(kept[r]) => Active(rs[r])
  BY <1>1, <1>2 DEF KeepNewest, Run, Stages, ActiveStages, Active
<1>3. kept \in [1..n -> Run]
  BY <1>1, <1>2 DEF KeepNewest
<1> QED
  BY <1>2, <1>3

\* What an accepted submit does to the runs.
LEMMA SubmitFacts ==
    ASSUME TypeOK, NEW v \in Visitors, NEW a \in Addresses, NEW kind \in Kinds,
           NEW s \in Settings, Submit(v, a, kind, s)
    PROVE  /\ count' = count + 1 /\ count' \in 0..MaxRuns
           /\ runs' \in [1..(count + 1) -> Run] /\ SameRuns(runs', count)
           /\ runs'[count + 1].visitor = v /\ runs'[count + 1].address = a
           /\ runs'[count + 1].kind = kind /\ runs'[count + 1].created = now
<1> DEFINE run == [stage |-> "waiting", visitor |-> v, address |-> a, kind |-> kind,
                   settings |-> s, created |-> now, finished |-> now]
           all == [q \in 1..(count + 1) |-> IF q = count + 1 THEN run ELSE PrunedRuns[q]]
           kept == KeepNewest(all, v)
           stage == IF kind = "live" THEN "waiting"
                    ELSE IF s \in cache THEN "done" ELSE "simulating"
<1>1. count \in Nat /\ now \in 0..MaxClock /\ count < MaxRuns /\ count' = count + 1
      /\ MaxRuns \in Nat
  BY LabConstants DEF TypeOK, Submit
<1>2. run \in Run
  BY <1>1 DEF Run, Stages, ActiveStages, Kinds
<1>3. PrunedRuns \in [1..count -> Run] /\ SameRuns(PrunedRuns, count)
  BY PrunedRunsFacts DEF Ids
<1>4. all \in [1..(count + 1) -> Run]
  BY <1>1, <1>2, <1>3
<1>5. count + 1 \in Nat
  BY <1>1
<1>6. /\ kept \in [1..(count + 1) -> Run]
      /\ \A r \in 1..(count + 1) :
           /\ kept[r].visitor = all[r].visitor /\ kept[r].address = all[r].address
           /\ kept[r].kind = all[r].kind /\ kept[r].created = all[r].created
           /\ Active(kept[r]) => Active(all[r])
  <2> HIDE DEF all
  <2> QED
    BY <1>4, <1>5, KeepNewestFacts
<1>7. runs' = [kept EXCEPT ![count + 1].stage = stage] /\ stage \in Stages
  BY DEF Submit, Stages, ActiveStages
<1>8. /\ runs' \in [1..(count + 1) -> Run]
      /\ \A r \in 1..count : runs'[r] = kept[r]
      /\ runs'[count + 1].visitor = kept[count + 1].visitor
      /\ runs'[count + 1].address = kept[count + 1].address
      /\ runs'[count + 1].kind = kept[count + 1].kind
      /\ runs'[count + 1].created = kept[count + 1].created
  <2> HIDE DEF kept, stage
  <2> QED
    BY <1>1, <1>6, <1>7 DEF Run
<1>9. \A r \in 1..count : all[r] = PrunedRuns[r]
  BY <1>1
<1>10. all[count + 1] = run
  BY <1>1
<1>11. SameRuns(runs', count)
  <2> SUFFICES ASSUME NEW r \in 1..count
               PROVE  /\ runs'[r].visitor = runs[r].visitor
                      /\ runs'[r].address = runs[r].address
                      /\ runs'[r].kind = runs[r].kind /\ runs'[r].created = runs[r].created
                      /\ Active(runs'[r]) => Active(runs[r])
    BY DEF SameRuns
  <2> r \in 1..(count + 1)
    BY <1>1
  <2> HIDE DEF all, kept
  <2> QED
    BY <1>3, <1>6, <1>8, <1>9 DEF SameRuns
<1> HIDE DEF all, kept
<1> QED
  BY <1>1, <1>6, <1>8, <1>10, <1>11

-----------------------------------------------------------------------------
\* What every other step does, as far as the invariants below can tell.
Quiet ==
    /\ count' = count /\ runs' \in [Ids -> Run] /\ SameRuns(runs', count)
    /\ now' \in {now, now + 1} /\ now' \in 0..MaxClock
    /\ \/ history' = history
       \/ history' = PrunedHistory /\ now' = now
    /\ waiting' \in Seq(1..MaxRuns) /\ Len(waiting') <= Len(waiting)
    /\ worker' \in [Workers -> 0..MaxRuns] /\ cache' \subseteq Settings
    /\ stopped' \in BOOLEAN

\* Ending a run is quiet.
LEMMA EndFacts ==
    ASSUME TypeOK, NEW r, NEW stage \in {"done", "failed"}, End(r, stage)
    PROVE  runs' \in [Ids -> Run] /\ SameRuns(runs', count)
<1> USE DEF TypeOK, Ids, End
<1>1. ASSUME NEW q \in 1..count
      PROVE  /\ runs'[q] \in Run
             /\ runs'[q].visitor = runs[q].visitor /\ runs'[q].address = runs[q].address
             /\ runs'[q].kind = runs[q].kind /\ runs'[q].created = runs[q].created
             /\ Active(runs'[q]) => Active(runs[q])
  BY <1>1 DEF Run, Stages, ActiveStages, Active
<1>2. runs' \in [1..count -> Run]
  BY <1>1
<1> QED
  BY <1>1, <1>2 DEF SameRuns

\* So is moving an active run to another active stage.
LEMMA StageFacts ==
    ASSUME TypeOK, NEW r, r \in Ids => Active(runs[r]),
           NEW stage \in {"recording", "simulating"}, runs' = [runs EXCEPT ![r].stage = stage]
    PROVE  runs' \in [Ids -> Run] /\ SameRuns(runs', count)
<1> USE DEF TypeOK, Ids
<1>1. ASSUME NEW q \in 1..count
      PROVE  /\ runs'[q] \in Run
             /\ runs'[q].visitor = runs[q].visitor /\ runs'[q].address = runs[q].address
             /\ runs'[q].kind = runs[q].kind /\ runs'[q].created = runs[q].created
             /\ Active(runs'[q]) => Active(runs[q])
  BY <1>1 DEF Run, Stages, ActiveStages, Active
<1>2. runs' \in [1..count -> Run]
  BY <1>1
<1> QED
  BY <1>1, <1>2 DEF SameRuns

\* A step is an accepted submit or it is quiet.
LEMMA StepFacts ==
    ASSUME TypeOK, [Next]_vars
    PROVE  \/ Quiet
           \/ \E v \in Visitors, a \in Addresses, kind \in Kinds, s \in Settings :
                 Submit(v, a, kind, s)
<1> USE LabConstants
<1>0. /\ count \in Nat /\ runs \in [Ids -> Run] /\ SameRuns(runs, count)
      /\ now \in 0..MaxClock /\ MaxClock \in Nat
      /\ waiting \in Seq(1..MaxRuns) /\ Len(waiting) \in Nat
      /\ worker \in [Workers -> 0..MaxRuns] /\ cache \subseteq Settings /\ stopped \in BOOLEAN
  BY DEF TypeOK, SameRuns
<1>1. CASE Look
  <2>1. runs' \in [Ids -> Run] /\ SameRuns(runs', count)
    BY <1>1, PrunedRunsFacts DEF Look
  <2> QED
    BY <1>0, <1>1, <2>1 DEF Look, Quiet
<1>2. ASSUME NEW r \in Ids, FinishBundled(r) PROVE Quiet
  <2>1. \/ End(r, "done") /\ cache' = cache \union {runs[r].settings}
        \/ End(r, "failed") /\ cache' = cache
    BY <1>2 DEF FinishBundled
  <2>2. cache' \subseteq Settings
    BY <1>0, <1>2, <2>1 DEF Run
  <2>3. runs' \in [Ids -> Run] /\ SameRuns(runs', count)
    BY <2>1, EndFacts
  <2> QED
    BY <1>0, <1>2, <2>2, <2>3 DEF FinishBundled, Quiet
<1>3. ASSUME NEW w \in Workers, Take(w) PROVE Quiet
  <2>1. Head(waiting) \in 1..MaxRuns /\ Tail(waiting) \in Seq(1..MaxRuns)
        /\ Len(Tail(waiting)) <= Len(waiting)
    BY <1>0, <1>3 DEF Take
  <2>2. CASE Active(runs[Head(waiting)])
    <3>1. /\ runs' = [runs EXCEPT ![Head(waiting)].stage = "recording"]
          /\ worker' = [worker EXCEPT ![w] = Head(waiting)]
      BY <1>3, <2>2 DEF Take
    <3>2. runs' \in [Ids -> Run] /\ SameRuns(runs', count)
      BY <2>2, <3>1, StageFacts
    <3>3. worker' \in [Workers -> 0..MaxRuns]
      <4> DEFINE h == Head(waiting)
      <4>1. h \in 0..MaxRuns /\ worker' = [worker EXCEPT ![w] = h]
        BY <2>1, <3>1
      <4> HIDE DEF h
      <4> QED
        BY <1>0, <4>1
    <3> QED
      BY <1>0, <1>3, <2>1, <3>2, <3>3 DEF Take, Quiet
  <2>3. CASE ~Active(runs[Head(waiting)])
    BY <1>0, <1>3, <2>1, <2>3 DEF Take, Quiet
  <2> QED
    BY <2>2, <2>3
<1>4. ASSUME NEW w \in Workers, Recorded(w) PROVE Quiet
  <2>1. CASE runs' = [runs EXCEPT ![worker[w]].stage = "simulating"] /\ UNCHANGED worker
    <3>1. Active(runs[worker[w]])
      BY <1>4 DEF Recorded, Active, ActiveStages
    <3>2. runs' \in [Ids -> Run] /\ SameRuns(runs', count)
      BY <2>1, <3>1, StageFacts
    <3> QED
      BY <1>0, <1>4, <2>1, <3>2 DEF Recorded, Quiet
  <2>2. CASE End(worker[w], "failed") /\ worker' = [worker EXCEPT ![w] = 0]
    <3>1. runs' \in [Ids -> Run] /\ SameRuns(runs', count)
      BY <2>2, EndFacts
    <3>2. worker' \in [Workers -> 0..MaxRuns]
      BY <1>0, <2>2
    <3> QED
      BY <1>0, <1>4, <3>1, <3>2 DEF Recorded, Quiet
  <2> QED
    BY <1>4, <2>1, <2>2 DEF Recorded
<1>5. ASSUME NEW w \in Workers, Simulated(w) PROVE Quiet
  <2>1. PICK stage \in {"done", "failed"} : End(worker[w], stage)
    BY <1>5 DEF Simulated
  <2>2. runs' \in [Ids -> Run] /\ SameRuns(runs', count)
    BY <2>1, EndFacts
  <2>3. worker' \in [Workers -> 0..MaxRuns]
    BY <1>0, <1>5 DEF Simulated
  <2> QED
    BY <1>0, <1>5, <2>2, <2>3 DEF Simulated, Quiet
<1>6. CASE Tick
  BY <1>0, <1>6 DEF Tick, Quiet, SameRuns, Ids
<1>7. CASE Stop
  BY <1>0, <1>7 DEF Stop, Quiet, SameRuns, Ids
<1>8. CASE Stopped \/ UNCHANGED vars
  BY <1>0, <1>8 DEF Stopped, vars, Quiet, SameRuns, Ids
<1> QED
  BY <1>1, <1>2, <1>3, <1>4, <1>5, <1>6, <1>7, <1>8 DEF Next

-----------------------------------------------------------------------------
\* The inductive invariant.  The hourly limit looks at runs long after their
\* stamps are gone; what carries it is that at every moment the history of a
\* key still holds every run of the last hour, and never more than the limit.
Recent(kind, who) == {r \in Ids : By(r, kind, who) /\ now - runs[r].created <= Hour}
HistoryInv ==
    \A kind \in Kinds, who \in Visitors \union Addresses :
        /\ Recent(kind, who) \subseteq history[<< kind, who >>]
        /\ Cardinality(history[<< kind, who >>]) <= LimitOf(kind)
CreatedInPast == \A r \in Ids : runs[r].created <= now
LabInv ==
    /\ TypeOK /\ OneActiveRun /\ LineBounded
    /\ CreatedInPast /\ HistoryInv /\ HourlyLimit

\* A subset of a finite set is finite and no larger; every history is finite.
LEMMA HistoryFinite ==
    ASSUME TypeOK, NEW k \in Keys
    PROVE  /\ IsFiniteSet(history[k]) /\ Cardinality(history[k]) \in Nat
           /\ \A T \in SUBSET history[k] :
                IsFiniteSet(T) /\ Cardinality(T) \in Nat
                /\ Cardinality(T) <= Cardinality(history[k])
<1>1. IsFiniteSet(1..count)
  BY FS_Interval DEF TypeOK
<1>2. history[k] \subseteq 1..count
  BY DEF TypeOK, Ids
<1>3. IsFiniteSet(history[k])
  BY <1>1, <1>2, FS_Subset
<1> QED
  BY <1>3, FS_Subset, FS_CardinalityType

LEMMA LimitType == ASSUME NEW kind PROVE LimitOf(kind) \in Nat \ {0}
BY LabConstants DEF LimitOf

LEMMA InitLab == Init => LabInv
<1> SUFFICES ASSUME Init PROVE LabInv
  OBVIOUS
<1> USE LabConstants DEF Init
<1>1. Ids = {}
  BY DEF Ids
<1>2. TypeOK
  <2>1. runs \in [Ids -> Run]
    BY <1>1
  <2>2. count \in 0..MaxRuns /\ now \in 0..MaxClock /\ waiting \in Seq(1..MaxRuns)
    OBVIOUS
  <2> QED
    BY <2>1, <2>2 DEF TypeOK
<1>3. OneActiveRun /\ CreatedInPast
  BY <1>1 DEF OneActiveRun, CreatedInPast
<1>4. LineBounded
  BY DEF LineBounded
<1>5. Cardinality({}) = 0
  BY FS_EmptySet
<1>6. HistoryInv
  BY <1>1, <1>5, LimitType DEF HistoryInv, Recent, Keys
<1>7. HourlyLimit
  BY <1>1, <1>5, LimitType DEF HourlyLimit, InHour
<1> QED
  BY <1>2, <1>3, <1>4, <1>6, <1>7 DEF LabInv

\* A quiet step keeps the invariant.
LEMMA QuietLab == LabInv /\ Quiet => LabInv'
<1> SUFFICES ASSUME LabInv, Quiet PROVE LabInv'
  OBVIOUS
<1> USE LabConstants
<1>0. /\ TypeOK /\ count \in Nat /\ Ids' = Ids /\ now \in Nat /\ now' \in Nat /\ now <= now'
      /\ runs \in [Ids -> Run] /\ runs' \in [Ids -> Run]
  BY DEF LabInv, TypeOK, Quiet, Ids
<1>1. \A r \in Ids :
        /\ runs'[r].visitor = runs[r].visitor /\ runs'[r].address = runs[r].address
        /\ runs'[r].kind = runs[r].kind /\ runs'[r].created = runs[r].created
        /\ runs[r].created \in Nat
        /\ Active(runs'[r]) => Active(runs[r])
  BY <1>0 DEF Quiet, SameRuns, Ids, Run
<1>2. history' \in [Keys -> SUBSET Ids] /\ \A k \in Keys : history'[k] \subseteq history[k]
  BY <1>0 DEF Quiet, PrunedHistory, TypeOK
<1>3. TypeOK'
  BY <1>0, <1>2 DEF TypeOK, Quiet, Ids, LabInv
<1>4. OneActiveRun'
  BY <1>0, <1>1 DEF OneActiveRun, LabInv
<1>5. LineBounded'
  BY <1>0 DEF LineBounded, LabInv, Quiet, TypeOK
<1>6. CreatedInPast'
  BY <1>0, <1>1 DEF CreatedInPast, LabInv
<1>7. HistoryInv'
  <2> SUFFICES ASSUME NEW kind \in Kinds, NEW who \in Visitors \union Addresses
               PROVE  /\ Recent(kind, who)' \subseteq history'[<< kind, who >>]
                      /\ Cardinality(history'[<< kind, who >>]) <= LimitOf(kind)
    BY DEF HistoryInv, LimitOf
  <2> DEFINE k == << kind, who >>
  <2>1. k \in Keys
    BY DEF Keys
  <2>2. Recent(kind, who) \subseteq history[k] /\ Cardinality(history[k]) <= LimitOf(kind)
    BY DEF LabInv, HistoryInv
  <2>3. Cardinality(history'[k]) <= LimitOf(kind)
    BY <1>0, <1>2, <2>1, <2>2, HistoryFinite, LimitType
  <2>4. ASSUME NEW r \in Recent(kind, who)' PROVE r \in history'[k]
    <3>1. r \in Ids /\ By(r, kind, who) /\ now' - runs[r].created <= Hour
      BY <1>0, <1>1, <2>4 DEF Recent, By
    <3>2. now - runs[r].created <= Hour
      BY <1>0, <1>1, <3>1
    <3>3. r \in history[k]
      BY <2>2, <3>1, <3>2 DEF Recent
    <3>4. ~StampExpired(r)
      BY <1>0, <1>1, <3>1, <3>2 DEF StampExpired
    <3> QED
      BY <2>1, <3>3, <3>4 DEF Quiet, PrunedHistory
  <2> QED
    BY <2>3, <2>4
<1>8. HourlyLimit'
  <2> SUFFICES ASSUME NEW kind \in Kinds, NEW who \in Visitors \union Addresses,
                      NEW t \in 0..MaxClock
               PROVE  Cardinality(InHour(kind, who, t)') <= LimitOf(kind)
    BY DEF HourlyLimit, LimitOf
  <2>1. InHour(kind, who, t)' = InHour(kind, who, t)
    BY <1>0, <1>1 DEF InHour, By
  <2> QED
    BY <2>1 DEF LabInv, HourlyLimit
<1> QED
  BY <1>3, <1>4, <1>5, <1>6, <1>7, <1>8 DEF LabInv

\* An accepted submit keeps the invariant.
LEMMA SubmitLab ==
    ASSUME LabInv, NEW v \in Visitors, NEW a \in Addresses, NEW kind \in Kinds,
           NEW s \in Settings, Submit(v, a, kind, s)
    PROVE  LabInv'
<1> USE LabConstants
<1> DEFINE new == count + 1
<1>0. /\ TypeOK /\ count \in Nat /\ new \in Nat \ {0} /\ Ids = 1..count /\ Ids' = 1..new
      /\ now \in Nat /\ now' = now /\ runs \in [Ids -> Run]
  <2>1. TypeOK
    BY DEF LabInv
  <2>2. count' = count + 1 /\ now' = now
    BY <2>1, SubmitFacts DEF Submit
  <2> QED
    BY <2>1, <2>2 DEF TypeOK, Ids
<1>1. \A r \in Ids :
        /\ runs'[r].visitor = runs[r].visitor /\ runs'[r].address = runs[r].address
        /\ runs'[r].kind = runs[r].kind /\ runs'[r].created = runs[r].created
        /\ runs[r].created \in Nat
        /\ Active(runs'[r]) => Active(runs[r])
  BY <1>0, SubmitFacts DEF SameRuns, Run
<1>2. /\ runs' \in [1..new -> Run] /\ count' = new /\ count' \in 0..MaxRuns
      /\ runs'[new].visitor = v /\ runs'[new].address = a
      /\ runs'[new].kind = kind /\ runs'[new].created = now
  BY <1>0, SubmitFacts
<1>3. \A r \in Ids' : r \in Ids \/ r = new
  BY <1>0
<1>4. /\ history' = [k \in Keys |-> IF k \in {<< kind, v >>, << kind, a >>}
                                    THEN PrunedHistory[k] \union {new} ELSE PrunedHistory[k]]
      /\ ~HasActive(v) /\ UnderLimit(kind, v) /\ UnderLimit(kind, a)
      /\ HasRoom(kind)
      /\ waiting' = IF kind = "live" THEN Append(waiting, new) ELSE waiting
      /\ UNCHANGED << worker, cache, now, stopped >>
  BY DEF Submit, Acceptable
<1> HIDE DEF new
<1>5. \A k \in Keys : PrunedHistory[k] \subseteq history[k] /\ history[k] \subseteq Ids
  BY <1>0 DEF PrunedHistory, TypeOK
<1>6. TypeOK'
  <2>1. history' \in [Keys -> SUBSET Ids']
    <3>1. \A k \in Keys : PrunedHistory[k] \subseteq Ids'
      BY <1>0, <1>5, <1>2 DEF new
    <3>2. new \in Ids'
      BY <1>0
    <3> QED
      BY <1>4, <3>1, <3>2
  <2>2. waiting' \in Seq(1..MaxRuns)
    <3>1. new \in 1..MaxRuns /\ waiting \in Seq(1..MaxRuns)
      BY <1>0, <1>2 DEF TypeOK
    <3>2. Append(waiting, new) \in Seq(1..MaxRuns)
      BY <3>1
    <3> QED
      BY <1>4, <3>1, <3>2
  <2> QED
    BY <1>0, <1>2, <1>4, <2>1, <2>2 DEF TypeOK
<1>7. OneActiveRun'
  <2> SUFFICES ASSUME NEW r \in Ids', NEW q \in Ids', Active(runs'[r]), Active(runs'[q]),
                      runs'[r].visitor = runs'[q].visitor
               PROVE  r = q
    BY DEF OneActiveRun
  <2>1. CASE r \in Ids /\ q \in Ids
    BY <1>1, <2>1 DEF LabInv, OneActiveRun
  <2>2. CASE r = new /\ q = new
    BY <2>2
  <2>3. CASE r \in Ids /\ q = new
    BY <1>1, <1>2, <1>4, <2>3 DEF HasActive
  <2>4. CASE r = new /\ q \in Ids
    BY <1>1, <1>2, <1>4, <2>4 DEF HasActive
  <2> QED
    BY <1>3, <2>1, <2>2, <2>3, <2>4
<1>8. LineBounded'
  <2>1. waiting \in Seq(1..MaxRuns) /\ Len(waiting) <= QueueSize
    BY DEF LabInv, TypeOK, LineBounded
  <2>2. Len(Append(waiting, new)) = Len(waiting) + 1
    BY <2>1
  <2> QED
    BY <1>4, <2>1, <2>2 DEF LineBounded, HasRoom
<1>9. CreatedInPast'
  BY <1>0, <1>1, <1>2, <1>3 DEF CreatedInPast, LabInv
<1>10. ASSUME NEW kd \in Kinds, NEW who \in Visitors \union Addresses
       PROVE  /\ Recent(kd, who)' \subseteq history'[<< kd, who >>]
              /\ IsFiniteSet(history'[<< kd, who >>])
              /\ Cardinality(history'[<< kd, who >>]) <= LimitOf(kd)
  <2> DEFINE k == << kd, who >>
             old == PrunedHistory[k]
             hit == k \in {<< kind, v >>, << kind, a >>}
  <2>1. k \in Keys /\ << kind, v >> \in Keys /\ << kind, a >> \in Keys
    BY <1>10 DEF Keys
  <2>2. history'[k] = IF hit THEN old \union {new} ELSE old
    BY <1>4, <2>1
  <2>3. /\ IsFiniteSet(old) /\ Cardinality(old) \in Nat
        /\ Cardinality(old) <= LimitOf(kd) /\ LimitOf(kd) \in Nat
    <3>1. Cardinality(history[k]) <= LimitOf(kd)
      BY DEF LabInv, HistoryInv
    <3> QED
      BY <1>0, <1>5, <2>1, <3>1, HistoryFinite, LimitType
  <2>4. hit => kd = kind /\ Cardinality(old) < LimitOf(kd)
    BY <1>4, <2>1 DEF UnderLimit
  <2>5. new \notin old
    BY <1>0, <1>5, <2>1 DEF new
  <2>6. IsFiniteSet(history'[k]) /\ Cardinality(history'[k]) <= LimitOf(kd)
    <3>1. CASE hit
      <4>1. IsFiniteSet(old \union {new}) /\ Cardinality(old \union {new}) = Cardinality(old) + 1
        BY <2>3, <2>5, FS_AddElement
      <4> QED
        BY <2>2, <2>3, <2>4, <3>1, <4>1
    <3>2. CASE ~hit
      BY <2>2, <2>3, <3>2
    <3> QED
      BY <3>1, <3>2
  <2>7. ASSUME NEW r \in Recent(kd, who)' PROVE r \in history'[k]
    <3>1. /\ r \in Ids' /\ runs'[r].kind = kd /\ who \in {runs'[r].visitor, runs'[r].address}
          /\ now - runs'[r].created <= Hour
      BY <1>0, <2>7 DEF Recent, By
    <3>2. CASE r = new
      BY <1>2, <2>2, <3>1, <3>2
    <3>3. CASE r \in Ids
      <4>1. r \in Recent(kd, who) /\ ~StampExpired(r)
        BY <1>0, <1>1, <3>1, <3>3 DEF Recent, By, StampExpired
      <4>2. r \in old
        BY <2>1, <4>1 DEF LabInv, HistoryInv, PrunedHistory
      <4> QED
        BY <2>2, <4>2
    <3> QED
      BY <1>3, <3>1, <3>2, <3>3
  <2> QED
    BY <2>6, <2>7
<1>11. HistoryInv'
  BY <1>10 DEF HistoryInv, LimitOf
<1>12. HourlyLimit'
  <2> SUFFICES ASSUME NEW kd \in Kinds, NEW who \in Visitors \union Addresses,
                      NEW t \in 0..MaxClock
               PROVE  Cardinality(InHour(kd, who, t)') <= LimitOf(kd)
    BY DEF HourlyLimit, LimitOf
  <2>1. CASE t < now
    <3>1. ASSUME NEW r PROVE r \in InHour(kd, who, t)' <=> r \in InHour(kd, who, t)
      BY <1>0, <1>1, <1>2, <1>3, <2>1 DEF InHour, By, new
    <3>2. InHour(kd, who, t)' = InHour(kd, who, t)
      BY <3>1
    <3> QED
      BY <3>2 DEF LabInv, HourlyLimit
  <2>2. CASE t >= now
    <3>1. ASSUME NEW r \in InHour(kd, who, t)' PROVE r \in Recent(kd, who)'
      <4>1. r \in Ids' /\ By(r, kd, who)' /\ t - Hour <= runs'[r].created
        BY <3>1 DEF InHour
      <4>2. runs'[r].created \in Nat
        BY <1>0, <1>1, <1>2, <1>3, <4>1
      <4>3. now' - runs'[r].created <= Hour
        BY <1>0, <2>2, <4>1, <4>2
      <4> QED
        BY <4>1, <4>3 DEF Recent
    <3>2. InHour(kd, who, t)' \subseteq history'[<< kd, who >>]
      BY <3>1, <1>10
    <3>3. Cardinality(InHour(kd, who, t)') <= Cardinality(history'[<< kd, who >>])
      BY <3>2, <1>10, FS_Subset
    <3>4. Cardinality(InHour(kd, who, t)') \in Nat /\ Cardinality(history'[<< kd, who >>]) \in Nat
      BY <3>2, <1>10, FS_Subset, FS_CardinalityType
    <3> QED
      BY <3>3, <3>4, <1>10, LimitType
  <2> QED
    BY <1>0, <2>1, <2>2
<1> QED
  BY <1>6, <1>7, <1>8, <1>9, <1>11, <1>12 DEF LabInv

\* The invariant holds in every state the lab can reach.
THEOREM LabInvariant == Spec => []LabInv
<1>1. Init => LabInv
  BY InitLab
<1>2. LabInv /\ [Next]_vars => LabInv'
  <2> SUFFICES ASSUME LabInv, [Next]_vars PROVE LabInv'
    OBVIOUS
  <2>1. TypeOK
    BY DEF LabInv
  <2> QED
    BY <2>1, StepFacts, QuietLab, SubmitLab
<1> QED
  BY <1>1, <1>2, PTL DEF Spec

\* Every variable of the lab keeps its type.
THEOREM LabTypeCorrect == Spec => []TypeOK
<1>1. LabInv => TypeOK
  BY DEF LabInv
<1> QED
  BY <1>1, LabInvariant, PTL

\* FR-011: a visitor never has two active runs, however submits, workers and
\* pruning interleave.
THEOREM LabOneActiveRun == Spec => []OneActiveRun
<1>1. LabInv => OneActiveRun
  BY DEF LabInv
<1> QED
  BY <1>1, LabInvariant, PTL

\* FR-011: the waiting line never grows past lab_queue_size.
THEOREM LabLineBounded == Spec => []LineBounded
<1>1. LabInv => LineBounded
  BY DEF LabInv
<1> QED
  BY <1>1, LabInvariant, PTL

\* FR-011: in no window of one hour does a visitor or an address get more runs
\* of a kind than the limit, although stamps are only pruned when someone looks.
THEOREM LabHourlyLimit == Spec => []HourlyLimit
<1>1. LabInv => HourlyLimit
  BY DEF LabInv
<1> QED
  BY <1>1, LabInvariant, PTL

-----------------------------------------------------------------------------
\* The lab implements RunLedger.  A run that is over may be forgotten and no
\* other; everything a step does to the stages of earlier runs is that, or the
\* end of one of them.
OnlyDeletes(rs) ==
    \A r \in 1..count : rs[r].stage # runs[r].stage => Finished(runs[r]) /\ rs[r].stage = "gone"

LEMMA PruningOnlyDeletes ==
    ASSUME TypeOK PROVE OnlyDeletes(PrunedRuns)
BY DEF OnlyDeletes, PrunedRuns, TypeOK, Ids, Run, Expired

\* An accepted submit only deletes, and its run is not deleted with them.
LEMMA SubmitOnlyDeletes ==
    ASSUME TypeOK, NEW v \in Visitors, NEW a \in Addresses, NEW kind \in Kinds,
           NEW s \in Settings, Submit(v, a, kind, s)
    PROVE  /\ OnlyDeletes(runs') /\ runs'[count + 1].stage \in {"waiting", "simulating", "done"}
           /\ runs'[count + 1].stage = "waiting" <=> kind = "live"
<1> DEFINE run == [stage |-> "waiting", visitor |-> v, address |-> a, kind |-> kind,
                   settings |-> s, created |-> now, finished |-> now]
           all == [q \in 1..(count + 1) |-> IF q = count + 1 THEN run ELSE PrunedRuns[q]]
           kept == KeepNewest(all, v)
           stage == IF kind = "live" THEN "waiting"
                    ELSE IF s \in cache THEN "done" ELSE "simulating"
<1>1. count \in Nat /\ runs' = [kept EXCEPT ![count + 1].stage = stage]
      /\ stage \in {"waiting", "simulating", "done"}
      /\ (stage = "waiting" <=> kind = "live")
  BY LabConstants DEF TypeOK, Submit
<1>2. PrunedRuns \in [1..count -> Run] /\ OnlyDeletes(PrunedRuns)
  BY PrunedRunsFacts, PruningOnlyDeletes DEF Ids
<1>3. DOMAIN all = 1..(count + 1) /\ \A r \in 1..count : all[r] = PrunedRuns[r]
  BY <1>1
<1> HIDE DEF run
<1>4. DOMAIN kept = 1..(count + 1)
  BY <1>3 DEF KeepNewest
<1>5. \A r \in 1..count : \/ kept[r] = PrunedRuns[r]
                          \/ /\ kept[r] = [PrunedRuns[r] EXCEPT !.stage = "gone"]
                             /\ ~Active(PrunedRuns[r])
  BY <1>1, <1>3 DEF KeepNewest, Dropped
<1> HIDE DEF all, kept, stage
<1>6. ASSUME NEW r \in 1..count, runs'[r].stage # runs[r].stage
      PROVE  Finished(runs[r]) /\ runs'[r].stage = "gone"
  <2>1. runs'[r] = kept[r]
    BY <1>1, <1>4
  <2>2. PrunedRuns[r] \in Run /\ runs[r] \in Run
    BY <1>2 DEF TypeOK, Ids
  <2>3. \/ PrunedRuns[r].stage = runs[r].stage
        \/ Finished(runs[r]) /\ PrunedRuns[r].stage = "gone"
    BY <1>2 DEF OnlyDeletes
  <2>4. CASE kept[r] = PrunedRuns[r]
    BY <1>6, <2>1, <2>3, <2>4
  <2>5. CASE kept[r] = [PrunedRuns[r] EXCEPT !.stage = "gone"] /\ ~Active(PrunedRuns[r])
    <3>1. kept[r].stage = "gone"
      BY <2>2, <2>5 DEF Run
    <3>2. PrunedRuns[r].stage \in {"done", "failed", "gone"}
      BY <2>2, <2>5 DEF Run, Stages, Active
    <3> QED
      BY <1>6, <2>1, <2>3, <3>1, <3>2 DEF Finished
  <2> QED
    BY <1>5, <2>4, <2>5
<1>7. runs'[count + 1].stage = stage
  <2>1. /\ runs' \in [1..(count + 1) -> Run] /\ count + 1 \in 1..(count + 1)
        /\ kept[count + 1] \in Run
    <3>1. kept \in [1..(count + 1) -> Run]
      <4>1. all \in [1..(count + 1) -> Run]
        BY <1>1, <1>2 DEF all, run, Run, Stages, ActiveStages, Kinds, TypeOK
      <4> QED
        BY <1>1, <4>1, KeepNewestFacts DEF kept
    <3> QED
      BY <1>1, <3>1, SubmitFacts
  <2> QED
    BY <1>1, <1>4, <2>1 DEF Run
<1> QED
  BY <1>1, <1>6, <1>7 DEF OnlyDeletes

\* In the ledger, deleting is forgetting.
LEMMA DeletingForgets ==
    ASSUME TypeOK, count' \in Nat, count <= count', runs' \in [1..count' -> Run],
           OnlyDeletes(runs')
    PROVE  /\ Ledger!OnlyForgets /\ LedgerStates' \in [1..count' -> Ledger!States]
           /\ \A r \in 1..count' : LedgerStates'[r] = LedgerState(runs'[r].stage)
<1>1. count \in Nat /\ \A r \in 1..count : r \in 1..count'
  BY DEF TypeOK
<1>2. \A r \in 1..count' : LedgerStates'[r] = LedgerState(runs'[r].stage)
  BY DEF LedgerStates, LedgerState
<1>3. \A r \in 1..count : LedgerStates[r] = LedgerState(runs[r].stage)
  BY DEF LedgerStates
<1>4. LedgerStates' \in [1..count' -> Ledger!States]
  BY DEF LedgerStates, LedgerState, Ledger!States
<1>5. ASSUME NEW r \in 1..count, LedgerStates'[r] # LedgerStates[r]
      PROVE  LedgerStates[r] = "over" /\ LedgerStates'[r] = "gone"
  <2>1. runs'[r].stage # runs[r].stage
    BY <1>1, <1>2, <1>3, <1>5
  <2> QED
    BY <1>1, <1>2, <1>3, <2>1 DEF OnlyDeletes, Finished, LedgerState, ActiveStages
<1> QED
  BY <1>2, <1>4, <1>5 DEF Ledger!OnlyForgets

\* Ending an active run is finishing it; a step to another active stage stutters.
LEMMA EndingFinishes ==
    ASSUME TypeOK, ~stopped, UNCHANGED << count, stopped >>, NEW r,
           Active(runs[r]), NEW stage \in {"done", "failed"}, End(r, stage)
    PROVE  [\E q \in 1..count : Ledger!Finish(q)]_(Ledger!vars)
<1>1. count \in Nat /\ runs \in [1..count -> Run]
  BY DEF TypeOK, Ids
<1>2. CASE r \in 1..count
  <2>1. \A q \in 1..count : /\ runs'[q].visitor = runs[q].visitor
                            /\ runs'[q].stage = IF q = r THEN stage ELSE runs[q].stage
    BY <1>1, <1>2 DEF End, Run
  <2>2. LedgerOwner' = LedgerOwner
    BY <2>1 DEF LedgerOwner
  <2>3. LedgerStates[r] = "open"
    BY <1>2 DEF LedgerStates, LedgerState, Active
  <2>4. LedgerStates' = [LedgerStates EXCEPT ![r] = "over"]
    <3>1. LedgerStates' = [q \in 1..count |-> LedgerState(runs'[q].stage)]
      BY DEF LedgerStates, LedgerState
    <3>2. LedgerState(stage) = "over"
      BY DEF LedgerState, ActiveStages
    <3>3. \A q \in 1..count : LedgerState(runs'[q].stage) =
                                 IF q = r THEN "over" ELSE LedgerState(runs[q].stage)
      BY <2>1, <3>2
    <3> QED
      BY <1>2, <3>1, <3>3 DEF LedgerStates
  <2> QED
    BY <1>2, <2>2, <2>3, <2>4 DEF Ledger!Finish
<1>3. CASE r \notin 1..count
  <2>1. runs' = runs
    BY <1>1, <1>3 DEF End
  <2> QED
    BY <2>1 DEF LedgerOwner, LedgerStates, LedgerState, Ledger!vars
<1> QED
  BY <1>2, <1>3

LEMMA WorkingStutters ==
    ASSUME TypeOK, UNCHANGED << count, stopped >>, NEW r, Active(runs[r]),
           NEW stage \in {"recording", "simulating"}, runs' = [runs EXCEPT ![r].stage = stage]
    PROVE  UNCHANGED Ledger!vars
<1>1. count \in Nat /\ runs \in [1..count -> Run]
  BY DEF TypeOK, Ids
<1>2. \A q \in 1..count : /\ runs'[q].visitor = runs[q].visitor
                          /\ LedgerState(runs'[q].stage) = LedgerState(runs[q].stage)
  BY <1>1 DEF Run, LedgerState, Active, ActiveStages
<1>3. LedgerStates' = [q \in 1..count |-> LedgerState(runs'[q].stage)]
  BY DEF LedgerStates, LedgerState
<1> QED
  BY <1>2, <1>3 DEF LedgerOwner, LedgerStates, Ledger!vars

\* A step of the lab is a step of the ledger or changes nothing in it.
LEMMA StepOfLedger ==
    ASSUME TypeOK, [Next]_vars
    PROVE  [Ledger!Next]_(Ledger!vars)
<1>0. count \in Nat /\ runs \in [1..count -> Run]
  BY DEF TypeOK, Ids
<1>1. ASSUME NEW v \in Visitors, NEW a \in Addresses, NEW kind \in Kinds, NEW s \in Settings,
             Submit(v, a, kind, s)
      PROVE  Ledger!Accept(v)
  <2>1. /\ count' = count + 1 /\ runs' \in [1..(count + 1) -> Run] /\ SameRuns(runs', count)
        /\ runs'[count + 1].visitor = v
    BY <1>1, SubmitFacts
  <2>2. OnlyDeletes(runs') /\ runs'[count + 1].stage \in {"waiting", "simulating", "done"}
    BY <1>1, SubmitOnlyDeletes
  <2>3. /\ Ledger!OnlyForgets /\ LedgerStates' \in [1..(count + 1) -> Ledger!States]
        /\ LedgerStates'[count + 1] = LedgerState(runs'[count + 1].stage)
    BY <1>0, <2>1, <2>2, DeletingForgets
  <2>4. LedgerStates'[count + 1] # "gone"
    BY <2>2, <2>3 DEF LedgerState, ActiveStages
  <2>5. LedgerOwner' = [r \in 1..(count + 1) |-> IF r = count + 1 THEN v ELSE LedgerOwner[r]]
    <3>1. \A r \in 1..(count + 1) : r = count + 1 \/ r \in 1..count
      BY <1>0
    <3>2. \A r \in 1..(count + 1) : runs'[r].visitor = IF r = count + 1 THEN v ELSE LedgerOwner[r]
      BY <2>1, <3>1 DEF SameRuns, LedgerOwner
    <3>3. LedgerOwner' = [r \in 1..(count + 1) |-> runs'[r].visitor]
      BY <2>1 DEF LedgerOwner
    <3> QED
      BY <3>2, <3>3
  <2>6. \A r \in 1..count : LedgerOwner[r] = v => LedgerStates[r] # "open"
    BY <1>1 DEF Submit, Acceptable, HasActive, Ids, LedgerOwner, LedgerStates, LedgerState, Active
  <2>7. ~stopped /\ stopped' = stopped
    BY <1>1 DEF Submit
  <2> QED
    BY <2>1, <2>3, <2>4, <2>5, <2>6, <2>7 DEF Ledger!Accept
<1>2. CASE Look
  <2>1. runs' = PrunedRuns /\ count' = count /\ stopped' = stopped /\ ~stopped
    BY <1>2 DEF Look
  <2>2. runs' \in [1..count -> Run] /\ SameRuns(runs', count) /\ OnlyDeletes(runs')
    BY <2>1, PrunedRunsFacts, PruningOnlyDeletes DEF Ids
  <2>3. Ledger!OnlyForgets /\ LedgerStates' \in [1..count -> Ledger!States]
    BY <1>0, <2>1, <2>2, DeletingForgets
  <2>4. LedgerOwner' = LedgerOwner
    BY <2>1, <2>2 DEF SameRuns, LedgerOwner
  <2> QED
    BY <2>1, <2>3, <2>4 DEF Ledger!Forget, Ledger!Next
<1>3. ASSUME NEW r \in Ids, FinishBundled(r) PROVE [Ledger!Next]_(Ledger!vars)
  <2>1. PICK stage \in {"done", "failed"} : End(r, stage)
    BY <1>3 DEF FinishBundled
  <2>2. Active(runs[r]) /\ ~stopped /\ UNCHANGED << count, stopped >>
    BY <1>3 DEF FinishBundled, Active, ActiveStages
  <2> QED
    BY <2>1, <2>2, EndingFinishes DEF Ledger!Next
<1>4. ASSUME NEW w \in Workers, Take(w) PROVE UNCHANGED Ledger!vars
  <2>1. UNCHANGED << count, stopped >>
    BY <1>4 DEF Take
  <2>2. CASE Active(runs[Head(waiting)])
    <3>1. runs' = [runs EXCEPT ![Head(waiting)].stage = "recording"]
      BY <1>4, <2>2 DEF Take
    <3> QED
      BY <2>1, <2>2, <3>1, WorkingStutters
  <2>3. CASE ~Active(runs[Head(waiting)])
    BY <1>4, <2>1, <2>3 DEF Take, LedgerOwner, LedgerStates, LedgerState, Ledger!vars
  <2> QED
    BY <2>2, <2>3
<1>5. ASSUME NEW w \in Workers, Recorded(w) PROVE [Ledger!Next]_(Ledger!vars)
  <2>1. Active(runs[worker[w]]) /\ ~stopped /\ UNCHANGED << count, stopped >>
    BY <1>5 DEF Recorded, Active, ActiveStages
  <2>2. CASE runs' = [runs EXCEPT ![worker[w]].stage = "simulating"]
    BY <2>1, <2>2, WorkingStutters
  <2>3. CASE End(worker[w], "failed")
    BY <2>1, <2>3, EndingFinishes DEF Ledger!Next
  <2> QED
    BY <1>5, <2>2, <2>3 DEF Recorded
<1>6. ASSUME NEW w \in Workers, Simulated(w) PROVE [Ledger!Next]_(Ledger!vars)
  <2>1. Active(runs[worker[w]]) /\ ~stopped /\ UNCHANGED << count, stopped >>
    BY <1>6 DEF Simulated, Active, ActiveStages
  <2>2. PICK stage \in {"done", "failed"} : End(worker[w], stage)
    BY <1>6 DEF Simulated
  <2> QED
    BY <2>1, <2>2, EndingFinishes DEF Ledger!Next
<1>7. CASE Stop
  <2>1. LedgerOwner' = LedgerOwner /\ LedgerStates' = LedgerStates
    BY <1>7 DEF Stop, LedgerOwner, LedgerStates, LedgerState
  <2> QED
    BY <1>7, <2>1 DEF Stop, Ledger!Close, Ledger!Next
<1>8. CASE Tick \/ Stopped \/ UNCHANGED vars
  <2>1. UNCHANGED << count, runs, stopped >>
    BY <1>8 DEF Tick, Stopped, vars
  <2> QED
    BY <2>1 DEF LedgerOwner, LedgerStates, LedgerState, Ledger!vars
<1> QED
  BY <1>1, <1>2, <1>3, <1>4, <1>5, <1>6, <1>7, <1>8 DEF Next, Ledger!Next

\* The lab implements the safety part of what RunLedger promises a visitor, for every
\* number of visitors, workers and runs: a run is accepted only from a visitor without
\* an open one, ends once, never opens again and is forgotten only when it is over.
THEOREM LabImplementsLedger == Spec => ImplementsSafeLedger
<1>1. Init => Ledger!Init
  BY DEF Init, Ids, Ledger!Init, LedgerOwner, LedgerStates
<1>2. TypeOK /\ [Next]_vars => [Ledger!Next]_(Ledger!vars)
  BY StepOfLedger
<1> QED
  BY <1>1, <1>2, LabTypeCorrect, PTL DEF Spec, ImplementsSafeLedger, Ledger!SafeSpec

-----------------------------------------------------------------------------
(* The line and the deletions. *)

\* What carries the line: its ids rise, so that its head is its oldest run, and
\* they are the waiting runs; a worker's run is live and at work, so that no
\* bundled run can end it and no two workers share it.
LineInv ==
    ~stopped =>
        /\ \A i \in 1..Len(waiting) : waiting[i] \in Ids /\ runs[waiting[i]].stage = "waiting"
        /\ \A r \in Ids : runs[r].stage = "waiting" =>
             runs[r].kind = "live" /\ \E i \in 1..Len(waiting) : waiting[i] = r
        /\ \A i, j \in 1..Len(waiting) : i < j => waiting[i] < waiting[j]
        /\ \A w \in Workers : worker[w] # 0 =>
             /\ worker[w] \in Ids /\ runs[worker[w]].kind = "live"
             /\ runs[worker[w]].stage \in {"recording", "simulating"}
             /\ \A x \in Workers : worker[w] = worker[x] => w = x

\* Steps that only delete, and add a run or none, keep it.
LEMMA DeletingKeepsLine ==
    ASSUME TypeOK, LineInv, ~stopped, OnlyDeletes(runs'), SameRuns(runs', count),
           count' \in {count, count + 1},
           UNCHANGED << worker, stopped >>,
           IF count' = count + 1 /\ runs'[count + 1].stage = "waiting"
           THEN waiting' = Append(waiting, count + 1) /\ runs'[count + 1].kind = "live"
           ELSE waiting' = waiting
    PROVE  LineInv'
<1>1. count \in Nat /\ waiting \in Seq(1..MaxRuns) /\ Len(waiting) \in Nat
      /\ worker \in [Workers -> 0..MaxRuns] /\ MaxRuns \in Nat
  BY LabConstants DEF TypeOK
<1>2. \A r \in Ids : r \in Ids' /\ r < count + 1
  BY <1>1 DEF Ids
<1>3. \A r \in Ids : /\ runs[r].stage = "waiting" <=> runs'[r].stage = "waiting"
                     /\ runs[r].stage \in {"recording", "simulating"} => runs'[r].stage = runs[r].stage
                     /\ runs'[r].kind = runs[r].kind
  BY DEF OnlyDeletes, SameRuns, Finished, Ids
<1>4. \A r \in Ids' : r \in Ids \/ (count' = count + 1 /\ r = count + 1)
  BY <1>1 DEF Ids
<1>5. \A w \in Workers : worker[w] # 0 =>
        /\ worker[w] \in Ids' /\ runs'[worker[w]].kind = "live"
        /\ runs'[worker[w]].stage \in {"recording", "simulating"}
        /\ \A x \in Workers : worker[w] = worker[x] => w = x
  BY <1>2, <1>3 DEF LineInv
<1>6. CASE count' = count + 1 /\ runs'[count + 1].stage = "waiting"
  <2>1. /\ waiting' = Append(waiting, count + 1) /\ Len(waiting') = Len(waiting) + 1
        /\ \A i \in 1..Len(waiting) : waiting'[i] = waiting[i]
        /\ waiting'[Len(waiting) + 1] = count + 1
    BY <1>1, <1>6
  <2>2. \A i \in 1..Len(waiting') : i \in 1..Len(waiting) \/ i = Len(waiting) + 1
    BY <1>1, <2>1
  <2>3. count + 1 \in Ids'
    BY <1>1, <1>6 DEF Ids
  <2>4. \A i \in 1..Len(waiting') : waiting'[i] \in Ids' /\ runs'[waiting'[i]].stage = "waiting"
    BY <1>2, <1>3, <1>6, <2>1, <2>2, <2>3 DEF LineInv
  <2>5. \A r \in Ids' : runs'[r].stage = "waiting" =>
          runs'[r].kind = "live" /\ \E i \in 1..Len(waiting') : waiting'[i] = r
    <3> SUFFICES ASSUME NEW r \in Ids', runs'[r].stage = "waiting"
                 PROVE  runs'[r].kind = "live" /\ \E i \in 1..Len(waiting') : waiting'[i] = r
      OBVIOUS
    <3>1. CASE r \in Ids
      <4>1. PICK i \in 1..Len(waiting) : waiting[i] = r
        BY <1>3, <3>1 DEF LineInv
      <4>2. i \in 1..Len(waiting') /\ waiting'[i] = r
        BY <1>1, <2>1, <4>1
      <4>3. runs'[r].kind = "live"
        BY <1>3, <3>1 DEF LineInv
      <4> QED
        BY <4>2, <4>3
    <3>2. CASE r = count + 1
      <4>1. Len(waiting) + 1 \in 1..Len(waiting')
        BY <1>1, <2>1
      <4> QED
        BY <1>6, <2>1, <3>2, <4>1
    <3> QED
      BY <1>4, <3>1, <3>2
  <2>6. ASSUME NEW i \in 1..Len(waiting'), NEW j \in 1..Len(waiting'), i < j
        PROVE  waiting'[i] < waiting'[j]
    <3>1. i \in 1..Len(waiting)
      BY <1>1, <2>1, <2>6
    <3>2. CASE j \in 1..Len(waiting)
      BY <2>1, <2>6, <3>1, <3>2 DEF LineInv
    <3>3. CASE j = Len(waiting) + 1
      <4>1. waiting[i] \in Ids
        BY <3>1 DEF LineInv
      <4> QED
        BY <1>2, <2>1, <3>1, <3>3, <4>1
    <3> QED
      BY <2>2, <3>2, <3>3
  <2> QED
    BY <1>5, <2>4, <2>5, <2>6 DEF LineInv
<1>7. CASE ~(count' = count + 1 /\ runs'[count + 1].stage = "waiting")
  <2>1. waiting' = waiting
    BY <1>7
  <2>2. \A i \in 1..Len(waiting) : waiting[i] \in Ids' /\ runs'[waiting[i]].stage = "waiting"
    BY <1>2, <1>3 DEF LineInv
  <2>3. \A r \in Ids' : runs'[r].stage = "waiting" =>
          runs'[r].kind = "live" /\ \E i \in 1..Len(waiting) : waiting[i] = r
    BY <1>3, <1>4, <1>7 DEF LineInv
  <2> QED
    BY <1>5, <2>1, <2>2, <2>3 DEF LineInv
<1> QED
  BY <1>6, <1>7

\* A step that moves one run which does not wait, and is nobody's or its worker's.
LEMMA WorkKeepsLine ==
    ASSUME TypeOK, LineInv, ~stopped, NEW r \in Ids, NEW stage, stage # "waiting",
           runs[r].stage # "waiting",
           \A q \in Ids : runs'[q].kind = runs[q].kind
                          /\ runs'[q].stage = IF q = r THEN stage ELSE runs[q].stage,
           \A w \in Workers : worker'[w] # 0 =>
               worker'[w] = worker[w] /\ (worker[w] = r => stage \in {"recording", "simulating"}),
           UNCHANGED << count, waiting, stopped >>
    PROVE  LineInv'
<1>1. Ids' = Ids
  BY DEF Ids
<1>2. \A q \in Ids : runs'[q].stage = "waiting" <=> runs[q].stage = "waiting"
  OBVIOUS
<1>3. \A w \in Workers : worker'[w] # 0 =>
        /\ worker'[w] \in Ids /\ runs'[worker'[w]].kind = "live"
        /\ runs'[worker'[w]].stage \in {"recording", "simulating"}
        /\ \A x \in Workers : worker'[w] = worker'[x] => w = x
  BY DEF LineInv
<1> QED
  BY <1>1, <1>2, <1>3 DEF LineInv

\* The head of the line goes to a free worker.
LEMMA TakeKeepsLine ==
    ASSUME TypeOK, LineInv, NEW w \in Workers, Take(w)
    PROVE  /\ LineInv'
           /\ Head(waiting) \in Ids /\ runs[Head(waiting)].stage = "waiting"
           /\ runs' = [runs EXCEPT ![Head(waiting)].stage = "recording"]
           /\ \A q \in Ids : runs[q].stage = "waiting" => Head(waiting) <= q
<1> DEFINE h == Head(waiting)
<1>1. /\ ~stopped /\ count \in Nat /\ waiting \in Seq(1..MaxRuns) /\ Len(waiting) \in Nat
      /\ Len(waiting) > 0 /\ runs \in [Ids -> Run] /\ worker \in [Workers -> 0..MaxRuns]
      /\ MaxRuns \in Nat /\ UNCHANGED << count, stopped >> /\ waiting' = Tail(waiting)
      /\ worker[w] = 0
  BY LabConstants DEF TypeOK, Take
<1>2. h = waiting[1] /\ h \in Ids /\ runs[h].stage = "waiting" /\ 1 \in 1..Len(waiting)
  BY <1>1 DEF LineInv
<1>3. h # 0 /\ h \in Nat
  BY <1>1, <1>2 DEF Ids
<1>4. runs' = [runs EXCEPT ![h].stage = "recording"] /\ worker' = [worker EXCEPT ![w] = h]
  BY <1>2 DEF Take, Active, ActiveStages
<1> HIDE DEF h
<1>5. /\ Len(waiting') = Len(waiting) - 1
      /\ \A i \in 1..Len(waiting') : i + 1 \in 1..Len(waiting) /\ waiting'[i] = waiting[i + 1]
  BY <1>1
<1>6. Ids' = Ids
  BY <1>1 DEF Ids
<1>7. \A q \in Ids : /\ runs'[q].kind = runs[q].kind
                     /\ runs'[q].stage = IF q = h THEN "recording" ELSE runs[q].stage
  BY <1>1, <1>4 DEF Run
<1>8. \A x \in Workers : worker'[x] = IF x = w THEN h ELSE worker[x]
  BY <1>1, <1>4
<1>9. \A i \in 1..Len(waiting) : i # 1 => waiting[i] # h /\ h < waiting[i]
  <2> SUFFICES ASSUME NEW i \in 1..Len(waiting), i # 1 PROVE waiting[i] # h /\ h < waiting[i]
    OBVIOUS
  <2>1. 1 < i /\ waiting[1] < waiting[i] /\ waiting[i] \in Ids
    BY <1>1, <1>2 DEF LineInv
  <2> QED
    BY <1>1, <1>2, <1>3, <2>1 DEF Ids
<1>10. \A i \in 1..Len(waiting') : waiting'[i] \in Ids /\ runs'[waiting'[i]].stage = "waiting"
  <2> SUFFICES ASSUME NEW i \in 1..Len(waiting')
               PROVE  waiting'[i] \in Ids /\ runs'[waiting'[i]].stage = "waiting"
    OBVIOUS
  <2>1. i + 1 \in 1..Len(waiting) /\ i + 1 # 1 /\ waiting'[i] = waiting[i + 1]
    BY <1>5
  <2>2. waiting[i + 1] \in Ids /\ runs[waiting[i + 1]].stage = "waiting" /\ waiting[i + 1] # h
    BY <1>1, <1>9, <2>1 DEF LineInv
  <2> QED
    BY <1>7, <2>1, <2>2
<1>11. ASSUME NEW r \in Ids, runs[r].stage = "waiting", r # h
       PROVE  h < r /\ \E i \in 1..Len(waiting') : waiting'[i] = r
  <2>1. PICK i \in 1..Len(waiting) : waiting[i] = r
    BY <1>1, <1>11 DEF LineInv
  <2>2. i # 1 /\ i - 1 \in 1..Len(waiting') /\ (i - 1) + 1 = i
    BY <1>1, <1>2, <1>5, <1>11, <2>1
  <2>3. waiting'[i - 1] = r
    BY <1>5, <2>1, <2>2
  <2> QED
    BY <1>9, <2>1, <2>2, <2>3
<1>12. ASSUME NEW i \in 1..Len(waiting'), NEW j \in 1..Len(waiting'), i < j
       PROVE  waiting'[i] < waiting'[j]
  <2>1. i + 1 \in 1..Len(waiting) /\ j + 1 \in 1..Len(waiting) /\ i + 1 < j + 1
    BY <1>5, <1>12
  <2> QED
    BY <1>1, <1>5, <2>1 DEF LineInv
<1>13. \A x \in Workers : worker[x] # 0 => worker[x] # h
  BY <1>1, <1>2 DEF LineInv
<1>14. ASSUME NEW x \in Workers, worker'[x] # 0
       PROVE  /\ worker'[x] \in Ids /\ runs'[worker'[x]].kind = "live"
              /\ runs'[worker'[x]].stage \in {"recording", "simulating"}
              /\ \A y \in Workers : worker'[x] = worker'[y] => x = y
  <2>1. CASE x = w
    <3>1. worker'[x] = h /\ runs[h].kind = "live"
      BY <1>1, <1>2, <1>8, <2>1 DEF LineInv
    <3>2. \A y \in Workers : worker'[x] = worker'[y] => x = y
      BY <1>3, <1>8, <1>13, <2>1, <3>1
    <3> QED
      BY <1>2, <1>7, <3>1, <3>2
  <2>2. CASE x # w
    <3>1. worker'[x] = worker[x] /\ worker[x] # 0 /\ worker[x] # h
      BY <1>8, <1>13, <1>14, <2>2
    <3>2. /\ worker[x] \in Ids /\ runs[worker[x]].kind = "live"
          /\ runs[worker[x]].stage \in {"recording", "simulating"}
          /\ \A y \in Workers : worker[x] = worker[y] => x = y
      BY <1>1, <3>1 DEF LineInv
    <3>3. \A y \in Workers : worker'[x] = worker'[y] => x = y
      BY <1>8, <3>1, <3>2
    <3> QED
      BY <1>7, <3>1, <3>2, <3>3
  <2> QED
    BY <2>1, <2>2
<1>15. \A r \in Ids : runs'[r].stage = "waiting" => r # h /\ runs[r].stage = "waiting"
  BY <1>7
<1>16. \A r \in Ids : runs'[r].stage = "waiting" =>
         runs'[r].kind = "live" /\ \E i \in 1..Len(waiting') : waiting'[i] = r
  <2>1. \A r \in Ids : runs[r].stage = "waiting" => runs[r].kind = "live"
    BY <1>1 DEF LineInv
  <2> QED
    BY <1>7, <1>11, <1>15, <2>1
<1>17. LineInv'
  BY <1>6, <1>10, <1>12, <1>14, <1>16 DEF LineInv
<1>18. \A q \in Ids : runs[q].stage = "waiting" => h <= q
  <2>1. \A q \in Ids : q \in Nat
    BY <1>1 DEF Ids
  <2> QED
    BY <1>3, <1>11, <2>1
<1> QED
  BY <1>2, <1>4, <1>17, <1>18 DEF h

LEMMA LineStep == ASSUME TypeOK, LineInv, [Next]_vars PROVE LineInv'
<1>0. CASE stopped'
  BY <1>0 DEF LineInv
<1>1. CASE UNCHANGED vars
  BY <1>1 DEF vars, LineInv, Ids
<1>2. CASE ~stopped' /\ Next
  <2>1. ~stopped /\ count \in Nat /\ runs \in [Ids -> Run]
    <3>1. \A w \in Workers : Take(w) \/ Recorded(w) \/ Simulated(w) => ~stopped
      BY DEF Take, Recorded, Simulated
    <3>2. \A v \in Visitors, a \in Addresses, kind \in Kinds, s \in Settings :
            Submit(v, a, kind, s) => ~stopped
      BY DEF Submit
    <3>3. \A r \in Ids : FinishBundled(r) => ~stopped
      BY DEF FinishBundled
    <3>4. (Look \/ Tick \/ Stop => ~stopped) /\ (Stopped => stopped')
      BY DEF Look, Tick, Stop, Stopped, vars
    <3> QED
      BY <1>2, <3>1, <3>2, <3>3, <3>4 DEF Next, TypeOK
  <2>2. ASSUME NEW v \in Visitors, NEW a \in Addresses, NEW kind \in Kinds, NEW s \in Settings,
               Submit(v, a, kind, s)
        PROVE  LineInv'
    <3>1. /\ count' = count + 1 /\ SameRuns(runs', count) /\ runs'[count + 1].kind = kind
          /\ OnlyDeletes(runs')
          /\ runs'[count + 1].stage = "waiting" <=> kind = "live"
      BY <2>2, SubmitFacts, SubmitOnlyDeletes
    <3>2. /\ UNCHANGED << worker, stopped >>
          /\ waiting' = IF kind = "live" THEN Append(waiting, count + 1) ELSE waiting
      BY <2>2 DEF Submit
    <3> QED
      BY <2>1, <3>1, <3>2, DeletingKeepsLine
  <2>3. CASE Look
    <3>1. /\ count' = count /\ SameRuns(runs', count) /\ OnlyDeletes(runs')
          /\ UNCHANGED << worker, stopped >> /\ waiting' = waiting /\ count' # count + 1
      BY <2>1, <2>3, PrunedRunsFacts, PruningOnlyDeletes DEF Look, Ids
    <3> QED
      BY <2>1, <3>1, DeletingKeepsLine
  <2>4. ASSUME NEW r \in Ids, FinishBundled(r)
        PROVE  LineInv'
    <3>1. PICK stage \in {"done", "failed"} : End(r, stage)
      BY <2>4 DEF FinishBundled
    <3>2. \A q \in Ids : runs'[q].kind = runs[q].kind
                         /\ runs'[q].stage = IF q = r THEN stage ELSE runs[q].stage
      BY <2>1, <3>1 DEF End, Run
    <3>3. /\ runs[r].stage = "simulating" /\ runs[r].kind = "bundled"
          /\ UNCHANGED << count, waiting, worker, stopped >>
      BY <2>4 DEF FinishBundled
    <3>4. \A w \in Workers : worker'[w] # 0 => worker'[w] = worker[w] /\ worker[w] # r
      BY <2>1, <3>3 DEF LineInv
    <3> QED
      BY <2>1, <3>2, <3>3, <3>4, WorkKeepsLine
  <2>5. ASSUME NEW w \in Workers, Take(w)
        PROVE  LineInv'
    BY <2>5, TakeKeepsLine
  <2>6. ASSUME NEW w \in Workers, Recorded(w) \/ Simulated(w)
        PROVE  LineInv'
    <3> DEFINE r == worker[w]
    <3>1. /\ r # 0 /\ runs[r].stage \in {"recording", "simulating"}
          /\ UNCHANGED << count, waiting, stopped >>
      BY <2>6 DEF Recorded, Simulated
    <3>2. r \in Ids /\ (\A x \in Workers : worker[x] = r => x = w)
          /\ worker \in [Workers -> 0..MaxRuns]
      BY <2>1, <3>1 DEF LineInv, TypeOK
    <3> HIDE DEF r
    <3>3. CASE runs' = [runs EXCEPT ![r].stage = "simulating"] /\ UNCHANGED worker
      <4>1. \A q \in Ids : runs'[q].kind = runs[q].kind
                           /\ runs'[q].stage = IF q = r THEN "simulating" ELSE runs[q].stage
        BY <2>1, <3>2, <3>3 DEF Run
      <4> QED
        BY <2>1, <3>1, <3>2, <3>3, <4>1, WorkKeepsLine
    <3>4. ASSUME NEW stage \in {"done", "failed"}, End(r, stage), worker' = [worker EXCEPT ![w] = 0]
          PROVE  LineInv'
      <4>1. \A q \in Ids : runs'[q].kind = runs[q].kind
                           /\ runs'[q].stage = IF q = r THEN stage ELSE runs[q].stage
        BY <2>1, <3>2, <3>4 DEF End, Run
      <4>2. \A x \in Workers : worker'[x] # 0 => worker'[x] = worker[x] /\ worker[x] # r
        BY <3>2, <3>4
      <4> QED
        BY <2>1, <3>1, <3>2, <4>1, <4>2, WorkKeepsLine
    <3> QED
      BY <2>6, <3>3, <3>4 DEF Recorded, Simulated, r
  <2>7. CASE Tick
    BY <2>7 DEF Tick, LineInv, Ids
  <2>8. CASE Stop \/ Stopped
    BY <1>2, <2>1, <2>8 DEF Stop, Stopped
  <2> QED
    BY <1>2, <2>2, <2>3, <2>4, <2>5, <2>6, <2>7, <2>8 DEF Next
<1> QED
  BY <1>0, <1>1, <1>2

\* Every step of the lab keeps the line in order and equal to the waiting runs, and
\* every worker at a run of its own (submit, _worker, _finish_bundled).
THEOREM LabLineInvariant == Spec => []LineInv
<1>1. Init => LineInv
  BY DEF Init, LineInv, Ids
<1>2. TypeOK /\ LineInv /\ [Next]_vars => LineInv'
  BY LineStep
<1> QED
  BY <1>1, <1>2, LabTypeCorrect, PTL DEF Spec

\* A run that waits is in the line, once, and nothing else is: none is lost on its
\* way to a worker, pruned while it waits, or recorded twice (submit, _worker, _prune).
THEOREM LabLineIsWaitingRuns == Spec => []LineIsWaitingRuns
<1>1. TypeOK /\ LineInv => LineIsWaitingRuns
  <2> SUFFICES ASSUME TypeOK, LineInv, ~stopped PROVE LineIsWaitingRuns
    BY DEF LineIsWaitingRuns
  <2>1. count \in Nat /\ Len(waiting) \in Nat
    BY DEF TypeOK
  <2>2. \A i \in 1..Len(waiting) : waiting[i] \in Nat
    BY <2>1 DEF LineInv, Ids
  <2>3. ASSUME NEW i \in 1..Len(waiting), NEW j \in 1..Len(waiting), waiting[i] = waiting[j]
        PROVE  i = j
    <3>1. ~(i < j) /\ ~(j < i)
      BY <2>2, <2>3 DEF LineInv
    <3> QED
      BY <2>1, <3>1
  <2> QED
    BY <2>3 DEF LineInv, LineIsWaitingRuns
<1> QED
  BY <1>1, LabLineInvariant, LabTypeCorrect, PTL

\* Live runs reach a worker in the order in which they were accepted: only Take
\* starts a recording, and the head of the line is the oldest waiting run.
THEOREM LabFirstComeFirstServed == Spec => FirstComeFirstServed
<1> DEFINE Served == \A r \in Ids : runs[r].stage = "waiting" /\ runs'[r].stage = "recording" =>
                       \A q \in 1..(r - 1) : runs[q].stage # "waiting"
<1>1. TypeOK /\ LineInv /\ [Next]_vars => [Served]_vars
  <2> SUFFICES ASSUME TypeOK, LineInv, Next, NEW r \in Ids,
                      runs[r].stage = "waiting", runs'[r].stage = "recording",
                      NEW q \in 1..(r - 1)
               PROVE  runs[q].stage # "waiting"
    BY DEF vars
  <2>1. count \in Nat /\ runs \in [Ids -> Run]
    BY DEF TypeOK
  <2>2. q \in Ids /\ q < r /\ q \in Nat /\ r \in Nat
    BY <2>1 DEF Ids
  <2>3. ASSUME NEW w \in Workers, Take(w)
        PROVE  runs[q].stage # "waiting"
    <3>1. /\ Head(waiting) \in Ids /\ runs' = [runs EXCEPT ![Head(waiting)].stage = "recording"]
          /\ runs[q].stage = "waiting" => Head(waiting) <= q
      BY <2>2, <2>3, TakeKeepsLine
    <3>2. r = Head(waiting)
      BY <2>1, <3>1
    <3> QED
      BY <2>2, <3>1, <3>2
  <2>4. ASSUME NEW v \in Visitors, NEW a \in Addresses, NEW kind \in Kinds, NEW s \in Settings
        PROVE  ~Submit(v, a, kind, s)
    BY SubmitOnlyDeletes DEF OnlyDeletes, Finished, Ids
  <2>5. ~Look
    BY PruningOnlyDeletes DEF Look, OnlyDeletes, Finished, Ids
  <2>6. \A x \in Ids : ~FinishBundled(x)
    BY <2>1 DEF FinishBundled, End, Run
  <2>7. \A w \in Workers : ~Recorded(w) /\ ~Simulated(w)
    BY <2>1 DEF Recorded, Simulated, End, Run
  <2>8. ~Tick /\ ~Stop /\ ~Stopped
    BY DEF Tick, Stop, Stopped, vars
  <2> QED
    BY <2>3, <2>4, <2>5, <2>6, <2>7, <2>8 DEF Next
<1> QED
  BY <1>1, LabLineInvariant, LabTypeCorrect, PTL DEF Spec, FirstComeFirstServed

-----------------------------------------------------------------------------
\* Deletions.

\* _keep_newest leaves RunsKept runs newer than each it drops, if the visitor's
\* active runs are newer: a rank is nobody else's, so that no more runs are
\* dropped than exceed RunsKept, and what is not dropped is newer.
LEMMA DroppedAreOldest ==
    ASSUME NEW n \in Nat, NEW rs \in [1..n -> Run], NEW v, NEW r \in Dropped(rs, v),
           \A q \in Own(rs, v) : Active(rs[q]) => q > r
    PROVE  /\ \A q \in Own(rs, v) \ Dropped(rs, v) : q > r
           /\ IsFiniteSet(Own(rs, v) \ Dropped(rs, v))
           /\ Cardinality(Own(rs, v) \ Dropped(rs, v)) >= RunsKept
<1> DEFINE own == Own(rs, v)
           idle == {q \in own : ~Active(rs[q])}
           below(p) == {q \in idle : q < p}
           rank(p) == Cardinality(below(p))
           extra == Cardinality(own) - RunsKept
           dropped == {p \in idle : rank(p) < extra}
<1>1. own \subseteq 1..n /\ IsFiniteSet(own) /\ Cardinality(own) \in Nat /\ RunsKept \in Nat
  <2>1. own \subseteq 1..n
    BY DEF Own
  <2>2. IsFiniteSet(1..n)
    BY FS_Interval
  <2>3. IsFiniteSet(own)
    BY <2>1, <2>2, FS_Subset
  <2> QED
    BY <2>1, <2>3, FS_CardinalityType, LabConstants
<1>2. IsFiniteSet(idle) /\ idle \subseteq own /\ Dropped(rs, v) = dropped /\ extra \in Int
  <2>1. IsFiniteSet(idle) /\ idle \subseteq own
    BY <1>1, FS_Subset
  <2>2. Dropped(rs, v) = dropped
    BY DEF Dropped, Excess
  <2> QED
    BY <1>1, <2>1, <2>2
<1>a. \A q \in own : Active(rs[q]) => q > r
  OBVIOUS
<1>b. \A q \in own : ~Active(rs[q]) => q \in idle
  OBVIOUS
<1> HIDE DEF own, idle, extra
<1>c. \A q \in own : q \in Nat
  BY <1>1
<1>3. ASSUME NEW p \in idle PROVE IsFiniteSet(below(p)) /\ rank(p) \in Nat
  BY <1>2, FS_Subset, FS_CardinalityType
<1>4. ASSUME NEW p \in idle, NEW q \in idle, q < p PROVE rank(q) < rank(p)
  <2>0. \A x \in idle : x \in Nat
    BY <1>2, <1>c
  <2>1. q \notin below(q) /\ below(q) \union {q} \in SUBSET below(p)
    <3>1. \A x \in below(q) : x \in idle /\ x < p
      BY <1>4, <2>0
    <3>2. q \in below(p) /\ q \notin below(q)
      BY <1>4, <2>0
    <3> QED
      BY <3>1, <3>2
  <2>2. Cardinality(below(q) \union {q}) = rank(q) + 1
    BY <1>3, <2>1, FS_AddElement
  <2>3. Cardinality(below(q) \union {q}) <= rank(p)
    BY <1>3, <2>1, FS_Subset
  <2>4. rank(q) \in Nat /\ rank(p) \in Nat
    BY <1>3
  <2> HIDE DEF rank
  <2> QED
    BY <2>2, <2>3, <2>4
<1> HIDE DEF rank, below
<1>5. r \in idle /\ rank(r) < extra /\ r \in Nat /\ extra \in Nat
  <2>1. r \in idle /\ rank(r) < extra
    BY <1>2
  <2>2. rank(r) \in Nat /\ r \in Nat
    BY <1>2, <1>3, <1>c, <2>1
  <2> QED
    BY <1>2, <2>1, <2>2
<1>6. IsFiniteSet(dropped) /\ Cardinality(dropped) \in Nat /\ dropped \subseteq own
  BY <1>2, FS_Subset, FS_CardinalityType
<1>7. Cardinality(dropped) <= extra
  <2> SUFFICES ASSUME Cardinality(dropped) > extra PROVE FALSE
    BY <1>5, <1>6
  <2> DEFINE f == [p \in dropped |-> rank(p) + 1]
  <2>1. f \in [dropped -> 1..extra]
    <3>1. \A p \in dropped : p \in idle /\ rank(p) < extra
      OBVIOUS
    <3>2. \A p \in idle : rank(p) \in Nat
      BY <1>3
    <3>3. \A p \in dropped : rank(p) + 1 \in 1..extra
      BY <1>5, <3>1, <3>2
    <3> HIDE DEF dropped
    <3> QED
      BY <3>3
  <2>2. IsFiniteSet(1..extra) /\ Cardinality(1..extra) = extra
    BY <1>5, FS_Interval
  <2>3. \E x, y \in dropped : x # y /\ f[x] = f[y]
    <3> HIDE DEF f, dropped
    <3>1. Cardinality(1..extra) < Cardinality(dropped)
      BY <1>5, <1>6, <2>2
    <3> QED
      BY <1>6, <2>1, <2>2, <3>1, FS_PigeonHole
  <2>4. PICK x \in dropped, y \in dropped : x # y /\ f[x] = f[y]
    BY <2>3
  <2>5. x \in idle /\ y \in idle /\ x \in Nat /\ y \in Nat /\ rank(x) = rank(y)
    <3>1. x \in idle /\ y \in idle
      BY <2>4
    <3>2. rank(x) \in Nat /\ rank(y) \in Nat
      BY <1>3, <3>1
    <3>3. rank(x) + 1 = rank(y) + 1
      BY <2>4
    <3> QED
      BY <1>2, <1>c, <3>1, <3>2, <3>3
  <2>6. x < y \/ y < x
    BY <2>4, <2>5
  <2> QED
    BY <1>3, <1>4, <2>5, <2>6
<1>8. ASSUME NEW q \in own \ dropped PROVE q > r
  <2>1. CASE Active(rs[q])
    BY <1>a, <2>1
  <2>2. CASE ~Active(rs[q])
    <3>1. q \in idle /\ rank(q) >= extra /\ q \in Nat
      BY <1>2, <1>3, <1>5, <1>8, <1>b, <1>c, <2>2
    <3>2. rank(q) > rank(r)
      BY <1>3, <1>5, <3>1
    <3>3. q # r /\ ~(q < r)
      BY <1>3, <1>4, <1>5, <3>1, <3>2
    <3> QED
      BY <1>5, <3>1, <3>3
  <2> QED
    BY <2>1, <2>2
<1>9. /\ IsFiniteSet(own \ dropped)
      /\ Cardinality(own \ dropped) = Cardinality(own) - Cardinality(dropped)
  <2>1. own \intersect dropped = dropped
    BY <1>6
  <2> QED
    BY <1>1, <2>1, FS_Difference
<1>10. Cardinality(own \ dropped) >= RunsKept
  <2>1. extra = Cardinality(own) - RunsKept
    BY DEF extra
  <2> QED
    BY <1>1, <1>6, <1>7, <1>9, <2>1
<1> QED
  BY <1>2, <1>8, <1>9, <1>10 DEF own

\* The runs of a submit: pruned, with one more, the visitor's oldest dropped.
LEMMA SubmitDeletes ==
    ASSUME TypeOK, NEW v \in Visitors, NEW a \in Addresses, NEW kind \in Kinds,
           NEW s \in Settings, Submit(v, a, kind, s),
           NEW r \in Ids, runs[r].stage # "gone", runs'[r].stage = "gone"
    PROVE  /\ Finished(runs[r])
           /\ \/ now - runs[r].finished > Keep
              \/ Cardinality({q \in Own(runs', runs[r].visitor) : q > r}) >= RunsKept
<1> DEFINE new == count + 1
           run == [stage |-> "waiting", visitor |-> v, address |-> a, kind |-> kind,
                   settings |-> s, created |-> now, finished |-> now]
           all == [q \in 1..new |-> IF q = new THEN run ELSE PrunedRuns[q]]
           kept == KeepNewest(all, v)
           stage == IF kind = "live" THEN "waiting"
                    ELSE IF s \in cache THEN "done" ELSE "simulating"
<1>1. /\ count \in Nat /\ Ids = 1..count /\ runs' = [kept EXCEPT ![new].stage = stage]
      /\ ~HasActive(v) /\ runs \in [1..count -> Run] /\ r \in 1..new /\ r # new
  BY LabConstants DEF TypeOK, Submit, Acceptable, Ids
<1>2. Finished(runs[r])
  BY SubmitOnlyDeletes DEF OnlyDeletes, Ids
<1>3. PrunedRuns \in [1..count -> Run] /\ SameRuns(PrunedRuns, count)
  BY <1>1, PrunedRunsFacts
<1>4. all \in [1..new -> Run] /\ all[new] = run /\ \A q \in 1..count : all[q] = PrunedRuns[q]
  BY <1>1, <1>3 DEF Run, Stages, ActiveStages, Kinds, TypeOK
<1>5. run.visitor = v /\ Active(run)
  BY DEF Active, ActiveStages
<1>s. runs'[new].visitor = v /\ runs'[new].stage \in {"waiting", "simulating", "done"}
  BY SubmitFacts, SubmitOnlyDeletes
<1> HIDE DEF run, all, stage
<1>6. \A q \in 1..new :
        kept[q] = IF q \in Dropped(all, v) THEN [all[q] EXCEPT !.stage = "gone"] ELSE all[q]
  BY <1>4 DEF KeepNewest
<1>7. DOMAIN runs' = 1..new /\ \A q \in 1..count : runs'[q] = kept[q]
  <2>1. DOMAIN kept = 1..new
    BY <1>4 DEF KeepNewest
  <2> HIDE DEF kept
  <2> QED
    BY <1>1, <2>1
<1> HIDE DEF kept
<1>8. CASE r \notin Dropped(all, v)
  <2>1. PrunedRuns[r].stage = "gone"
    BY <1>1, <1>4, <1>6, <1>7, <1>8
  <2>2. Expired(runs[r])
    BY <1>1, <2>1 DEF PrunedRuns
  <2> QED
    BY <1>2, <2>2 DEF Expired
<1>9. CASE r \in Dropped(all, v)
  <2>1. all[r].visitor = v /\ r \in Own(all, v)
    BY <1>9 DEF Dropped, Own
  <2>2. runs[r].visitor = v
    BY <1>1, <1>3, <1>4, <2>1 DEF SameRuns
  <2>3. ASSUME NEW q \in Own(all, v), Active(all[q]) PROVE q > r
    <3>1. q \in 1..new /\ all[q].visitor = v
      BY <1>4 DEF Own
    <3>2. q \notin 1..count
      BY <1>1, <1>3, <1>4, <2>3, <3>1 DEF SameRuns, HasActive
    <3> QED
      BY <1>1, <3>1, <3>2
  <2> DEFINE left == Own(all, v) \ Dropped(all, v)
             newer == {q \in Own(runs', v) : q > r}
  <2>4. /\ \A q \in left : q > r
        /\ IsFiniteSet(left) /\ Cardinality(left) >= RunsKept
    <3>1. new \in Nat /\ all \in [1..new -> Run] /\ r \in Dropped(all, v)
      BY <1>1, <1>4, <1>9
    <3>2. \A q \in Own(all, v) : Active(all[q]) => q > r
      BY <2>3
    <3> HIDE DEF new
    <3> QED
      BY <3>1, <3>2, DroppedAreOldest, Zenon
  <2>5. ASSUME NEW q \in left PROVE q \in Own(runs', v)
    <3>1. q \in 1..new /\ all[q].visitor = v /\ (Active(all[q]) \/ Finished(all[q]))
      BY <1>4 DEF Own
    <3>2. CASE q = new
      BY <1>1, <1>s, <1>7, <3>1, <3>2 DEF Own, Active, ActiveStages, Finished
    <3>3. CASE q # new
      <4>1. q \in 1..count /\ runs'[q] = all[q]
        BY <1>1, <1>6, <1>7, <2>5, <3>1, <3>3
      <4> QED
        BY <1>7, <3>1, <4>1 DEF Own
    <3> QED
      BY <3>2, <3>3
  <2>6. IsFiniteSet(newer) /\ left \in SUBSET newer
    <3>1. newer \in SUBSET (1..new)
      BY <1>7 DEF Own
    <3>2. IsFiniteSet(1..new)
      BY <1>1, FS_Interval
    <3>3. IsFiniteSet(newer)
      BY <3>1, <3>2, FS_Subset
    <3> HIDE DEF left
    <3> QED
      BY <2>4, <2>5, <3>3
  <2> HIDE DEF left, newer
  <2>7. Cardinality(left) <= Cardinality(newer) /\ Cardinality(newer) \in Nat /\ Cardinality(left) \in Nat
    BY <2>4, <2>6, FS_Subset, FS_CardinalityType
  <2>8. Cardinality(newer) >= RunsKept
    BY <2>4, <2>7, LabConstants
  <2> QED
    BY <1>2, <2>2, <2>8 DEF newer
<1> QED
  BY <1>8, <1>9

\* FR-012: a run is deleted only when it is over, and only because keep_hours have
\* passed since or lab_runs_kept newer runs of its visitor exist (_prune, _keep_newest).
THEOREM LabDeletedOnlyWhenDue == Spec => DeletedOnlyWhenDue
<1> DEFINE Due == \A r \in Ids : runs[r].stage # "gone" /\ runs'[r].stage = "gone" =>
                    /\ Finished(runs[r])
                    /\ \/ now - runs[r].finished > Keep
                       \/ Cardinality({q \in Own(runs', runs[r].visitor) : q > r}) >= RunsKept
<1>1. TypeOK /\ [Next]_vars => [Due]_vars
  <2> SUFFICES ASSUME TypeOK, Next, NEW r \in Ids,
                      runs[r].stage # "gone", runs'[r].stage = "gone"
               PROVE  /\ Finished(runs[r])
                      /\ \/ now - runs[r].finished > Keep
                         \/ Cardinality({q \in Own(runs', runs[r].visitor) : q > r}) >= RunsKept
    BY DEF vars
  <2>1. count \in Nat /\ runs \in [Ids -> Run]
    BY DEF TypeOK
  <2>2. CASE Look
    <3>1. runs' = PrunedRuns
      BY <2>2 DEF Look
    <3>2. Expired(runs[r])
      BY <3>1 DEF PrunedRuns
    <3> QED
      BY <3>2 DEF Expired
  <2>3. \A x \in Ids : ~FinishBundled(x)
    BY <2>1 DEF FinishBundled, End, Run
  <2>4. ASSUME NEW w \in Workers PROVE ~Take(w) /\ ~Recorded(w) /\ ~Simulated(w)
    <3>1. ~Take(w)
      BY <2>1 DEF Take, Run
    <3>2. ~Recorded(w)
      BY <2>1 DEF Recorded, End, Run
    <3>3. ~Simulated(w)
      BY <2>1 DEF Simulated, End, Run
    <3> QED
      BY <3>1, <3>2, <3>3
  <2>5. ~Tick /\ ~Stop /\ ~Stopped
    BY DEF Tick, Stop, Stopped, vars
  <2> QED
    BY <2>2, <2>3, <2>4, <2>5, SubmitDeletes DEF Next
<1> QED
  BY <1>1, LabTypeCorrect, PTL DEF Spec, DeletedOnlyWhenDue

=============================================================================
