------------------------ MODULE RefreshServiceProofs ------------------------
(***************************************************************************)
(* Theorems of RefreshService for every set of threads, every sequence of  *)
(* served configs and every bound.                                         *)
(***************************************************************************)
EXTENDS RefreshService, TLAPS

AtFlow == {"run", "arm", "lookup", "record", "report"}
Pulled == {"hold", "persist"} \union AtFlow
Holding == {"persist"} \union AtFlow

(* A thread past its pull works on a version, and one that is at a flow is   *)
(* at an index of that version.                                              *)
Placed ==
    \A t \in Threads :
        /\ pc[t] \in Pulled => cfg[t] \in Version
        /\ pc[t] \in AtFlow => index[t] \in DOMAIN Flows(cfg[t])

(* What is held was served before; a pull cannot return less.                *)
Fresh ==
    /\ held <= served
    /\ \A t \in Threads :
          /\ pc[t] = "pull" => heldBefore[t] <= served
          /\ pc[t] = "hold" => cfg[t] <= served

(* Whoever arms a job comes after a Hold, and a job is armed before it fires. *)
ConfigInv ==
    /\ \A j \in JobId : jobs[j] # Unset => held # None
    /\ fired # {} => held # None
    /\ \A t \in Threads : pc[t] \in Holding => held # None

(* While the daemon serves, a job whose next run is shown is armed, and so   *)
(* is the job of a thread that is about to look its next run up or show it.  *)
ArmedInv ==
    serving =>
        /\ \A j \in JobId : next_runs[j] # Unset => jobs[j] \in Slot
        /\ \A t \in Threads : pc[t] \in {"lookup", "record"} => jobs[JobAt(t)] \in Slot

IInv == TypeOK /\ Placed /\ Fresh /\ KeepsNewer /\ ConfigInv /\ ArmedInv

-----------------------------------------------------------------------------
(* The configs are sequences of flows, and there is at least one.            *)
LEMMA ConfigFacts ==
    /\ Len(Config) \in Nat \ {0}
    /\ 1 \in Version
    /\ None \notin Version /\ Torn \notin Version
    /\ Version \subseteq Int
    /\ \A v \in Version :
          /\ None < v
          /\ Flows(v) \in Seq(FlowConfig)
          /\ Len(Flows(v)) \in Nat
          /\ DOMAIN Flows(v) = 1 .. Len(Flows(v))
          /\ \A i \in DOMAIN Flows(v) : Flows(v)[i].name \in Names
<1>1. ASSUME NEW v \in Version, NEW i \in DOMAIN Flows(v) PROVE Flows(v)[i].name \in Names
  <2>1. Flows(v) \in Seq(FlowConfig)
    BY ConfigAssumption DEF Version, Flows
  <2>2. Flows(v)[i] \in FlowConfig
    BY <2>1
  <2> QED
    BY <2>2 DEF FlowConfig
<1> QED
  BY <1>1, ConfigAssumption DEF Version, Flows, None, Torn

(* The job id of a flow of a version is one of the job ids, and a job id     *)
(* carries a positive index.                                                 *)
LEMMA JobFacts ==
    /\ \A v \in Version : \A i \in DOMAIN Flows(v) : JobOf(v, i) \in JobId /\ i \in Index
    /\ \A j \in JobId : j[2] \in Index /\ j[2] \in Nat \ {0}
<1>1. ASSUME NEW v \in Version, NEW i \in DOMAIN Flows(v)
      PROVE  JobOf(v, i) \in JobId /\ i \in Index
  BY DEF JobId, Index, Flows
<1>2. ASSUME NEW j \in JobId PROVE j[2] \in Index /\ j[2] \in Nat \ {0}
  <2>1. PICK v \in Version : \E i \in DOMAIN Flows(v) : j = JobOf(v, i)
    BY DEF JobId, Flows
  <2>2. PICK i \in DOMAIN Flows(v) : j = JobOf(v, i)
    BY <2>1
  <2>3. j[2] = i
    BY <2>2 DEF JobOf
  <2> QED
    BY <1>1, <2>3, ConfigFacts
<1> QED
  BY <1>1, <1>2

(* Initially nothing is held and nothing runs.                               *)
LEMMA InitInv == Init => IInv
<1> SUFFICES ASSUME Init PROVE IInv
  OBVIOUS
<1>1. TypeOK
  <2>1. /\ served \in Version
        /\ boots \in 0 .. MaxBoots
        /\ waiting \in 0 .. MaxWaiting
    BY ConfigFacts, BoundsAssumption DEF Init
  <2>2. /\ jobs \in [JobId -> Slot \union {Unset, Parked}]
        /\ next_runs \in [JobId -> Slot \union {Unset}]
        /\ next_run \in [Threads -> Slot \union {Unset}]
    BY DEF Init
  <2>3. /\ pc \in [Threads -> Steps]
        /\ cfg \in [Threads -> Version \union {None}]
        /\ index \in [Threads -> Index \union {0}]
        /\ every \in [Threads -> BOOLEAN]
        /\ origin \in [Threads -> JobId \union {NoJob}]
        /\ heldBefore \in [Threads -> Version \union {None}]
    BY DEF Init, Steps
  <2>4. armedFor \in [JobId -> Names \union {NoName}] /\ \A t \in Threads : pc[t] = "idle"
    BY DEF Init
  <2> QED
    BY <2>1, <2>2, <2>3, <2>4 DEF Init, TypeOK
<1>2. Placed /\ Fresh /\ KeepsNewer /\ ConfigInv
  BY DEF Init, Placed, Fresh, KeepsNewer, ConfigInv, None, AtFlow, Pulled, Holding
<1>3. ArmedInv
  BY DEF Init, ArmedInv
<1> QED
  BY <1>1, <1>2, <1>3 DEF IInv
-----------------------------------------------------------------------------
(* IInv is inductive.                                                        *)
LEMMA NextInv == IInv /\ [Next]_vars => IInv'
<1> SUFFICES ASSUME IInv, [Next]_vars PROVE IInv'
  OBVIOUS
<1> USE ConfigFacts, JobFacts, BoundsAssumption
    DEF IInv, TypeOK, Placed, Fresh, KeepsNewer, ConfigInv, ArmedInv, JobAt,
        AtFlow, Pulled, Holding, Steps, shared, local
<1>1. ASSUME Boot PROVE IInv'
  <2>1. /\ boots' \in 0 .. MaxBoots
        /\ persisted' \in Version \union {None, Torn}
    BY <1>1 DEF Boot
  <2>2. TypeOK'
    BY <1>1, <2>1 DEF Boot
  <2>3. Placed' /\ KeepsNewer' /\ ConfigInv' /\ ArmedInv'
    BY <1>1 DEF Boot
  <2>4. held' <= served' /\ \A t \in Threads : pc'[t] = "idle"
    BY <1>1 DEF Boot, Version, None
  <2>5. Fresh'
    BY <2>4
  <2> QED
    BY <2>2, <2>3, <2>5
<1>2. ASSUME Publish PROVE IInv'
  <2>1. served' \in Version /\ \A n \in Version \union {None} : n <= served => n <= served'
    BY <1>2 DEF Publish, Version, None
  <2>2. TypeOK' /\ Placed' /\ KeepsNewer' /\ ConfigInv' /\ ArmedInv'
    BY <1>2, <2>1 DEF Publish
  <2>3. Fresh'
    BY <1>2, <2>1 DEF Publish, None
  <2> QED
    BY <2>2, <2>3
<1>3. ASSUME Nudge PROVE IInv'
  <2>1. waiting' \in 0 .. MaxWaiting
    BY <1>3 DEF Nudge
  <2> QED
    BY <1>3, <2>1 DEF Nudge
<1>22. ASSUME NEW j \in JobId, Misfire(j) PROVE IInv'
  BY <1>22 DEF Misfire
<1>4. ASSUME NEW j \in JobId, Fire(j) PROVE IInv'
  <2>1. jobs[j] # Unset
    <3>1. Unset \notin Slot
      BY ONLY TRUE DEF Slot, Unset
    <3> QED
      BY <1>4, <3>1 DEF Fire
  <2> QED
    BY <1>4, <2>1 DEF Fire
<1>5. ASSUME NEW t \in Threads, StartRefresh(t) PROVE IInv'
  <2>1. /\ waiting' \in 0 .. MaxWaiting
        /\ pc' = [pc EXCEPT ![t] = "pull"]
        /\ every' = [every EXCEPT ![t] = TRUE]
        /\ heldBefore' = [heldBefore EXCEPT ![t] = held]
        /\ UNCHANGED <<served, boots, serving, fired, shared, cfg, index, origin, next_run>>
    BY <1>5 DEF StartRefresh, BeginRefresh, Moves
  <2>2. TypeOK'
    BY <2>1
  <2>3. Placed' /\ Fresh' /\ KeepsNewer' /\ ConfigInv' /\ ArmedInv'
    BY <2>1
  <2> QED
    BY <2>2, <2>3
<1>6. ASSUME NEW t \in Threads, NEW j \in JobId, StartJob(t, j) PROVE IInv'
  <2>1. CASE held # None /\ j[2] <= Len(Flows(held))
    <3>1. held \in Version /\ j[2] \in DOMAIN Flows(held)
      BY <2>1
    <3>2. /\ pc' = [pc EXCEPT ![t] = "run"]
          /\ cfg' = [cfg EXCEPT ![t] = held]
          /\ index' = [index EXCEPT ![t] = j[2]]
          /\ origin' = [origin EXCEPT ![t] = j]
          /\ UNCHANGED <<served, boots, serving, waiting, fired, shared, every, next_run, heldBefore>>
      BY <1>6, <2>1 DEF StartJob, Moves
    <3>3. TypeOK'
      BY <3>1, <3>2
    <3>4. Placed' /\ Fresh' /\ KeepsNewer' /\ ConfigInv' /\ ArmedInv'
      BY <2>1, <3>1, <3>2
    <3> QED
      BY <3>3, <3>4
  <2>2. CASE held = None \/ j[2] > Len(Flows(held))
    <3>1. /\ pc' = [pc EXCEPT ![t] = "pull"]
          /\ every' = [every EXCEPT ![t] = TRUE]
          /\ heldBefore' = [heldBefore EXCEPT ![t] = held]
          /\ origin' = [origin EXCEPT ![t] = j]
          /\ UNCHANGED <<served, boots, serving, waiting, fired, shared, cfg, index, next_run>>
      BY <1>6, <2>2 DEF StartJob, BeginRefresh, Moves
    <3> QED
      BY <3>1
  <2> QED
    BY <1>6, <2>1, <2>2 DEF StartJob
<1>7. ASSUME NEW t \in Threads, PullFails(t) PROVE IInv'
  BY <1>7 DEF PullFails, Returns
<1>8. ASSUME NEW t \in Threads, PullOk(t) PROVE IInv'
  BY <1>8 DEF PullOk, Moves
<1>9. ASSUME NEW t \in Threads, Hold(t) PROVE IInv'
  <2>1. cfg[t] \in Version /\ cfg[t] # None /\ cfg[t] <= served
    BY <1>9 DEF Hold, Moves
  <2>2. TypeOK' /\ Placed' /\ KeepsNewer' /\ ConfigInv' /\ ArmedInv'
    BY <1>9, <2>1 DEF Hold, Moves
  <2>3. Fresh'
    BY <1>9, <2>1 DEF Hold, Moves
  <2> QED
    BY <2>2, <2>3
<1>10. ASSUME NEW t \in Threads, Persist(t) PROVE IInv'
  <2>1. cfg[t] \in Version /\ held # None /\ pc[t] = "persist"
    BY <1>10 DEF Persist, Moves
  <2>2. persisted' \in Version \union {None, Torn}
    BY <1>10, <2>1 DEF Persist
  <2>3. CASE Len(Flows(cfg[t])) > 0 /\ pc'[t] = "run"
    <3>1. 1 \in DOMAIN Flows(cfg[t]) /\ 1 \in Index
      <4>1. Len(Flows(cfg[t])) \in Nat /\ DOMAIN Flows(cfg[t]) = 1 .. Len(Flows(cfg[t]))
        BY <2>1
      <4>2. 1 \in DOMAIN Flows(cfg[t])
        BY <2>3, <4>1
      <4> QED
        BY <2>1, <4>2
    <3>2. /\ pc' = [pc EXCEPT ![t] = "run"]
          /\ index' = [index EXCEPT ![t] = 1]
          /\ UNCHANGED <<served, boots, serving, waiting, fired, held, jobs, next_runs,
                         armedFor, cfg, every, origin, next_run, heldBefore>>
      BY <1>10, <2>3 DEF Persist, Moves, Returns
    <3> QED
      BY <2>1, <2>2, <3>1, <3>2
  <2>4. CASE Returns(t)
    BY <1>10, <2>2, <2>4 DEF Persist, Returns
  <2> QED
    BY <1>10, <2>3, <2>4 DEF Persist, Moves
<1>11. ASSUME NEW t \in Threads, RunOk(t) PROVE IInv'
  BY <1>11 DEF RunOk, Moves
<1>12. ASSUME NEW t \in Threads, RunFails(t) PROVE IInv'
  BY <1>12 DEF RunFails, Moves
<1>13. ASSUME NEW t \in Threads, Arm(t) PROVE IInv'
  <2>1. JobAt(t) \in JobId /\ Armed(SlotAt(t)) \in Slot \union {Parked}
    BY <1>13 DEF Arm, Armed, Moves
  <2>2. /\ serving => Armed(SlotAt(t)) \in Slot
        /\ NameAt(t) \in Names
    BY <1>13 DEF Arm, Armed, NameAt, Moves
  <2>3. TypeOK' /\ Placed' /\ Fresh' /\ KeepsNewer' /\ ConfigInv'
    BY <1>13, <2>1, <2>2 DEF Arm, Moves
  <2>4. ArmedInv'
    BY <1>13, <2>1, <2>2 DEF Arm, Moves
  <2> QED
    BY <2>3, <2>4
<1>14. ASSUME NEW t \in Threads, ArmRaises(t) PROVE IInv'
  BY <1>14 DEF ArmRaises, Returns
<1>15. ASSUME NEW t \in Threads, Lookup(t) PROVE IInv'
  <2>1. JobAt(t) \in JobId
    BY <1>15 DEF Lookup, Moves
  <2>2. jobs[JobAt(t)] \in Slot \union {Unset}
    BY <1>15, <2>1 DEF Lookup
  <2> QED
    BY <1>15, <2>1, <2>2 DEF Lookup, Moves
<1>16. ASSUME NEW t \in Threads, Record(t) PROVE IInv'
  <2>1. JobAt(t) \in JobId
    BY <1>16 DEF Record, Moves
  <2> QED
    BY <1>16, <2>1 DEF Record, Moves
<1>17. ASSUME NEW t \in Threads, Report(t) PROVE IInv'
  <2>1. CASE ~LastFlow(t) /\ pc'[t] = "run"
    <3>1. cfg[t] \in Version /\ index[t] \in DOMAIN Flows(cfg[t]) /\ held # None
      BY <1>17 DEF Report, Moves
    <3>2. index[t] + 1 \in DOMAIN Flows(cfg[t]) /\ index[t] + 1 \in Index
      <4>1. Len(Flows(cfg[t])) \in Nat /\ DOMAIN Flows(cfg[t]) = 1 .. Len(Flows(cfg[t]))
        BY <3>1
      <4>2. index[t] + 1 \in DOMAIN Flows(cfg[t])
        BY <2>1, <3>1, <4>1 DEF LastFlow
      <4> QED
        BY <3>1, <4>2
    <3>3. /\ pc' = [pc EXCEPT ![t] = "run"]
          /\ index' = [index EXCEPT ![t] = index[t] + 1]
          /\ UNCHANGED <<served, boots, serving, waiting, fired, shared,
                         cfg, every, origin, next_run, heldBefore>>
      BY <1>17, <2>1 DEF Report, Moves, Returns
    <3> QED
      BY <3>1, <3>2, <3>3
  <2>2. CASE Returns(t)
    BY <1>17, <2>2 DEF Report, Returns
  <2> QED
    BY <1>17, <2>1, <2>2 DEF Report, Moves
<1>18. ASSUME NEW t \in Threads, ReportRaises(t) PROVE IInv'
  BY <1>18 DEF ReportRaises, Returns
<1>19. ASSUME NEW t \in Threads, LookupRaises(t) PROVE IInv'
  BY <1>19 DEF LookupRaises, Returns
<1>20. ASSUME Stop PROVE IInv'
  BY <1>20 DEF Stop
<1>21. ASSUME UNCHANGED vars PROVE IInv'
  BY <1>21 DEF vars
<1> QED
  BY <1>1, <1>2, <1>3, <1>4, <1>5, <1>6, <1>7, <1>8, <1>9, <1>10, <1>11, <1>12, <1>13, <1>14, <1>15, <1>16, <1>17, <1>18, <1>19,
     <1>20, <1>21, <1>22
     DEF Next, PullStep, FlowStep, Stopped
-----------------------------------------------------------------------------
(* In every behaviour the invariant holds.                                   *)
LEMMA Invariance == Spec => []IInv
  BY InitInv, NextInv, PTL DEF Spec

(* Whatever threads, configs, nudges and restarts, every variable keeps its  *)
(* type: a thread at a flow is at a flow of the config it works on, so the   *)
(* lookup cfg.flows[index] of refresh.py:121 cannot fail.                    *)
THEOREM TypeCorrect == Spec => []TypeOK
<1>1. IInv => TypeOK
  BY DEF IInv
<1> QED
  BY Invariance, <1>1, PTL

(* A daily job exists, waits or runs only while a config is held.            *)
THEOREM JobsHaveConfig == Spec => []JobsNeedConfig
<1>1. IInv => JobsNeedConfig
  BY DEF IInv, ConfigInv, JobsNeedConfig
<1> QED
  BY Invariance, <1>1, PTL

(* What a refresh is about to hold is no older than what was held before it  *)
(* asked the SPOG, however many refreshes overlap.                           *)
THEOREM NewerIsKept == Spec => []KeepsNewer
<1>1. IInv => KeepsNewer
  BY DEF IInv
<1> QED
  BY Invariance, <1>1, PTL

(* While the daemon serves, no next run that /status can show, whichever     *)
(* config its handler has read, is one of a job that is not armed.           *)
THEOREM ShownHasJob == Spec => []ShownIsArmed
<1>1. IInv => ShownIsArmed
  BY JobFacts DEF IInv, ArmedInv, ShownIsArmed, StatusRow
<1> QED
  BY Invariance, <1>1, PTL
-----------------------------------------------------------------------------
(* Only a thread at a flow has an index, and only a thread that has started  *)
(* is in the loop over every flow: the index in JobAt and LastFlow is that   *)
(* of the flow the thread is at, never one an earlier call left behind.      *)
LoopInv ==
    \A t \in Threads :
        /\ pc[t] \notin AtFlow => index[t] = 0
        /\ pc[t] = "idle" => ~every[t]

(* LoopInv is inductive given TypeOK.                                        *)
LEMMA LoopStep == TypeOK /\ LoopInv /\ [Next]_vars => LoopInv'
<1> SUFFICES ASSUME TypeOK, LoopInv, [Next]_vars PROVE LoopInv'
  OBVIOUS
<1> USE DEF LoopInv, AtFlow, Steps, TypeOK
<1>1. CASE Boot
  BY <1>1 DEF Boot
<1>2. ASSUME Stop \/ Publish \/ Nudge \/ UNCHANGED vars \/ \E j \in JobId : Fire(j) \/ Misfire(j)
      PROVE  LoopInv'
  BY <1>2 DEF Stop, Publish, Nudge, Fire, Misfire, vars, local
<1>3. ASSUME NEW t \in Threads, StartRefresh(t) PROVE LoopInv'
  BY <1>3 DEF StartRefresh, BeginRefresh, Moves
<1>4. ASSUME NEW t \in Threads, NEW j \in JobId, StartJob(t, j) PROVE LoopInv'
  BY <1>4 DEF StartJob, BeginRefresh, Moves
<1>5. ASSUME NEW t \in Threads,
             PullFails(t) \/ ArmRaises(t) \/ LookupRaises(t) \/ ReportRaises(t)
      PROVE  LoopInv'
  BY <1>5 DEF PullFails, ArmRaises, LookupRaises, ReportRaises, Returns
<1>6. ASSUME NEW t \in Threads, PullOk(t) \/ Hold(t) PROVE LoopInv'
  BY <1>6 DEF PullOk, Hold, Moves
<1>7. ASSUME NEW t \in Threads, Persist(t) PROVE LoopInv'
  BY <1>7 DEF Persist, Moves, Returns
<1>8. ASSUME NEW t \in Threads, RunOk(t) \/ RunFails(t) \/ Lookup(t) PROVE LoopInv'
  BY <1>8 DEF RunOk, RunFails, Lookup, Moves
<1>9. ASSUME NEW t \in Threads, Arm(t) \/ Record(t) PROVE LoopInv'
  BY <1>9 DEF Arm, Record, Moves
<1>10. ASSUME NEW t \in Threads, Report(t) PROVE LoopInv'
  BY <1>10 DEF Report, Moves, Returns
<1> QED
  BY <1>1, <1>2, <1>3, <1>4, <1>5, <1>6, <1>7, <1>8, <1>9, <1>10
     DEF Next, PullStep, FlowStep, Stopped

(* In every behaviour LoopInv holds.                                         *)
LEMMA LoopInvariance == Spec => []LoopInv
<1>1. Init => LoopInv
  BY DEF Init, LoopInv
<1>2. IInv => TypeOK
  BY DEF IInv
<1> QED
  BY Invariance, <1>1, <1>2, LoopStep, PTL DEF Spec

(* A lookup raises only when the scheduler has stopped since the job was     *)
(* armed: while the daemon serves, what was armed is in a slot.              *)
LEMMA LookupHolds ==
    ASSUME IInv, serving, NEW t \in Threads
    PROVE  ~LookupRaises(t)
<1> SUFFICES ASSUME pc[t] = "lookup" PROVE jobs[JobAt(t)] # Parked
  BY DEF LookupRaises
<1>1. jobs[JobAt(t)] \in Slot
  BY DEF IInv, ArmedInv
<1>2. Parked \notin Slot
  BY ONLY TRUE DEF Slot, Parked
<1> QED
  BY <1>1, <1>2

(* Each step that brings a thread of the loop to its end is at the last flow *)
(* or has one of the three causes.                                           *)
LEMMA EndHasCause ==
    ASSUME IInv, LoopInv, Next, NEW t \in Threads,
           every[t], index[t] # 0, ~LastFlow(t), boots' = boots, pc'[t] = "idle"
    PROVE  \/ pc[t] = "arm" /\ SlotAt(t) \notin Slot
           \/ pc[t] = "report"
           \/ pc[t] = "lookup" /\ ~serving
<1>1. pc[t] \in AtFlow /\ pc[t] # "idle" /\ pc \in [Threads -> Steps] /\ boots \in Int
  BY DEF LoopInv, IInv, TypeOK, AtFlow
<1> USE <1>1 DEF AtFlow
<1>2. ~Boot
  BY DEF Boot
<1>3. ~(Stop \/ Stopped \/ Publish \/ Nudge \/ \E j \in JobId : Fire(j) \/ Misfire(j))
  BY DEF Stop, Stopped, Publish, Nudge, Fire, Misfire, vars, local
<1>4. ASSUME NEW u \in Threads, StartRefresh(u) PROVE FALSE
  BY <1>4 DEF StartRefresh, BeginRefresh, Moves
<1>5. ASSUME NEW u \in Threads, NEW j \in JobId, StartJob(u, j) PROVE FALSE
  BY <1>5 DEF StartJob, BeginRefresh, Moves
<1>6. ASSUME NEW u \in Threads, PullStep(u) PROVE FALSE
  BY <1>6 DEF PullStep, PullOk, PullFails, Hold, Persist, Moves, Returns
<1>7. ASSUME NEW u \in Threads,
             RunOk(u) \/ RunFails(u) \/ Arm(u) \/ Lookup(u) \/ Record(u)
      PROVE  FALSE
  BY <1>7 DEF RunOk, RunFails, Arm, Lookup, Record, Moves
<1>8. ASSUME NEW u \in Threads, ArmRaises(u)
      PROVE  pc[t] = "arm" /\ SlotAt(t) \notin Slot
  BY <1>8 DEF ArmRaises, Returns
<1>9. ASSUME NEW u \in Threads, LookupRaises(u)
      PROVE  pc[t] = "lookup" /\ ~serving
  BY <1>9, LookupHolds DEF LookupRaises, Returns
<1>10. ASSUME NEW u \in Threads, Report(u) \/ ReportRaises(u) PROVE pc[t] = "report"
  BY <1>10 DEF Report, ReportRaises, Moves, Returns
<1> QED
  BY <1>2, <1>3, <1>4, <1>5, <1>6, <1>7, <1>8, <1>9, <1>10 DEF Next, FlowStep

(* A refresh whose loop does not come to the last flow met a slot that is    *)
(* refused, lost its certificate before a report, or was overtaken by the    *)
(* stop of the scheduler; no failure of a flow and no job that another       *)
(* thread arms ends it.                                                      *)
THEOREM LoopEndsOnlyForCause == Spec => LoopEndsForCause
<1>1. IInv /\ LoopInv /\ [Next]_vars =>
        [\A t \in Threads :
            every[t] /\ index[t] # 0 /\ ~LastFlow(t) /\ boots' = boots /\ pc'[t] = "idle" =>
                \/ pc[t] = "arm" /\ SlotAt(t) \notin Slot
                \/ pc[t] = "report"
                \/ pc[t] = "lookup" /\ ~serving]_vars
  BY EndHasCause
<1> QED
  BY Invariance, LoopInvariance, <1>1, PTL DEF Spec, LoopEndsForCause
-----------------------------------------------------------------------------
(* Edits leave the list of flows as it is but for what a flow asks for: at   *)
(* every position there is the same flow, by type and name, in all versions. *)
SameFlows ==
    \A v, w \in Version :
        /\ Len(Flows(v)) = Len(Flows(w))
        /\ \A i \in DOMAIN Flows(v) :
              Flows(v)[i].type = Flows(w)[i].type /\ Flows(v)[i].name = Flows(w)[i].name

(* A job that is there or due was armed for the flow that every version has  *)
(* at its position.                                                          *)
ArmedForInv ==
    \A j \in JobId :
        jobs[j] # Unset \/ j \in fired =>
            \A v \in Version : armedFor[j] = Flows(v)[j[2]].name

(* Then the position of a job is one of every version.                       *)
LEMMA SamePlace ==
    ASSUME SameFlows, NEW j \in JobId, NEW w \in Version
    PROVE  j[2] \in DOMAIN Flows(w) /\ j[2] <= Len(Flows(w))
<1>1. PICK v \in Version : \E i \in DOMAIN Flows(v) : j = JobOf(v, i)
  BY DEF JobId, Flows
<1>2. PICK i \in DOMAIN Flows(v) : j = JobOf(v, i)
  BY <1>1
<1>3. j[2] = i
  BY <1>2 DEF JobOf
<1>4. Len(Flows(v)) = Len(Flows(w))
  BY DEF SameFlows
<1>5. /\ DOMAIN Flows(v) = 1 .. Len(Flows(v)) /\ Len(Flows(v)) \in Nat
      /\ DOMAIN Flows(w) = 1 .. Len(Flows(w))
  BY ConfigFacts
<1> QED
  BY <1>3, <1>4, <1>5

(* ArmedForInv is inductive when no flow changes its place: only an arming   *)
(* thread writes the history, with the name that its config has there.       *)
LEMMA ArmedForStep ==
    ASSUME SameFlows
    PROVE  IInv /\ ArmedForInv /\ [Next]_vars => ArmedForInv'
<1> SUFFICES ASSUME IInv, ArmedForInv, [Next]_vars PROVE ArmedForInv'
  OBVIOUS
<1>0. TypeOK
  BY DEF IInv
<1>1. CASE Boot
  BY <1>1 DEF Boot, ArmedForInv
<1>2. CASE Stop
  BY <1>2 DEF Stop, ArmedForInv
<1>3. ASSUME NEW j \in JobId, Fire(j) PROVE ArmedForInv'
  <2>1. Unset \notin Slot
    BY ONLY TRUE DEF Slot, Unset
  <2>2. jobs[j] # Unset
    BY <1>3, <2>1 DEF Fire
  <2> QED
    BY <1>3, <2>2 DEF Fire, shared, ArmedForInv
<1>4. ASSUME NEW j \in JobId, Misfire(j) PROVE ArmedForInv'
  BY <1>4 DEF Misfire, shared, ArmedForInv
<1>5. ASSUME NEW t \in Threads, Arm(t) PROVE ArmedForInv'
  <2>1. cfg[t] \in Version /\ index[t] \in DOMAIN Flows(cfg[t])
    BY <1>5 DEF Arm, Moves, IInv, Placed, Pulled, AtFlow
  <2>2. JobAt(t) \in JobId /\ JobAt(t)[2] = index[t]
    BY <2>1, JobFacts DEF JobAt, JobOf
  <2>3. \A v \in Version : NameAt(t) = Flows(v)[JobAt(t)[2]].name
    BY <2>1, <2>2 DEF SameFlows, NameAt
  <2>4. /\ jobs' = [jobs EXCEPT ![JobAt(t)] = Armed(SlotAt(t))]
        /\ armedFor' = [armedFor EXCEPT ![JobAt(t)] = NameAt(t)]
        /\ fired' = fired
    BY <1>5 DEF Arm
  <2>5. ASSUME NEW j \in JobId, jobs'[j] # Unset \/ j \in fired', NEW v \in Version
        PROVE  armedFor'[j] = Flows(v)[j[2]].name
    <3>1. CASE j = JobAt(t)
      BY <1>0, <2>2, <2>3, <2>4, <3>1 DEF TypeOK
    <3>2. CASE j # JobAt(t)
      <4>1. jobs'[j] = jobs[j] /\ armedFor'[j] = armedFor[j]
        BY <1>0, <2>4, <3>2 DEF TypeOK
      <4> QED
        BY <2>4, <2>5, <4>1 DEF ArmedForInv
    <3> QED
      BY <3>1, <3>2
  <2> QED
    BY <2>5 DEF ArmedForInv
<1>6. ASSUME Publish \/ Nudge \/ UNCHANGED vars PROVE ArmedForInv'
  BY <1>6 DEF Publish, Nudge, vars, shared, ArmedForInv
<1>7. ASSUME NEW t \in Threads, StartRefresh(t) \/ \E j \in JobId : StartJob(t, j)
      PROVE  ArmedForInv'
  BY <1>7 DEF StartRefresh, StartJob, shared, ArmedForInv
<1>8. ASSUME NEW t \in Threads,
             PullFails(t) \/ ArmRaises(t) \/ LookupRaises(t) \/ ReportRaises(t)
      PROVE  ArmedForInv'
  BY <1>8 DEF PullFails, ArmRaises, LookupRaises, ReportRaises, Returns, shared, ArmedForInv
<1>9. ASSUME NEW t \in Threads,
             PullOk(t) \/ Hold(t) \/ RunOk(t) \/ RunFails(t) \/ Lookup(t) \/ Record(t)
      PROVE  ArmedForInv'
  BY <1>9 DEF PullOk, Hold, RunOk, RunFails, Lookup, Record, shared, ArmedForInv
<1>10. ASSUME NEW t \in Threads, Persist(t) \/ Report(t) PROVE ArmedForInv'
  BY <1>10 DEF Persist, Report, Returns, shared, ArmedForInv
<1> QED
  BY <1>1, <1>2, <1>3, <1>4, <1>5, <1>6, <1>7, <1>8, <1>9, <1>10
     DEF Next, PullStep, FlowStep, Stopped

(* A thread that takes up a job is then at the flow the job was armed for.   *)
LEMMA StartsArmedFlow ==
    ASSUME SameFlows, IInv, ArmedForInv, NEW t \in Threads, NEW j \in JobId, StartJob(t, j)
    PROVE  pc'[t] = "run" /\ NameAt(t)' = armedFor[j]
<1>1. j \in fired /\ held \in Version
  BY DEF StartJob, IInv, TypeOK, ConfigInv
<1>2. j[2] \in DOMAIN Flows(held) /\ j[2] <= Len(Flows(held))
  BY <1>1, SamePlace
<1>3. held # None /\ ~(j[2] > Len(Flows(held)))
  BY <1>1, <1>2, ConfigFacts, JobFacts
<1>4. /\ pc' = [pc EXCEPT ![t] = "run"]
      /\ cfg' = [cfg EXCEPT ![t] = held]
      /\ index' = [index EXCEPT ![t] = j[2]]
  BY <1>3 DEF StartJob, Moves
<1>5. pc'[t] = "run" /\ cfg'[t] = held /\ index'[t] = j[2]
  BY <1>4 DEF IInv, TypeOK
<1>6. armedFor[j] = Flows(held)[j[2]].name
  BY <1>1 DEF ArmedForInv
<1> QED
  BY <1>5, <1>6 DEF NameAt, Flows

(* As long as edits leave every flow at its place in the list, what runs for *)
(* a daily job is the flow the job was armed for, whatever refreshes, nudges,*)
(* stops and restarts come in between; the run refresh_identity shows that   *)
(* an edit which moves flows takes this away (scheduler.py:28,               *)
(* refresh.py:117-121).                                                      *)
THEOREM JobsRunTheirFlow == SameFlows /\ Spec => JobRunsItsFlow
<1> SUFFICES ASSUME SameFlows PROVE Spec => JobRunsItsFlow
  OBVIOUS
<1>1. Init => ArmedForInv
  BY DEF Init, ArmedForInv
<1>2. IInv /\ ArmedForInv /\ [Next]_vars =>
        [\A t \in Threads, j \in JobId :
            StartJob(t, j) => pc'[t] = "run" /\ NameAt(t)' = armedFor[j]]_vars
  BY StartsArmedFlow
<1> QED
  BY Invariance, ArmedForStep, <1>1, <1>2, PTL DEF Spec, JobRunsItsFlow
-----------------------------------------------------------------------------
(* Where the slots come from: a thread works on a config that was served, so *)
(* that what it arms, looks up and shows is what such a config asks for; and *)
(* a stopped scheduler has no armed job.                                     *)
TableInv ==
    /\ \A t \in Threads : pc[t] \in Pulled => cfg[t] <= served
    /\ \A j \in JobId : jobs[j] \in Slot => serving /\ jobs[j] \in Table!Times(j)
    /\ \A t \in Threads :
          pc[t] = "record" =>
              IF next_run[t] = Unset THEN ~serving ELSE next_run[t] \in Table!Times(JobAt(t))

(* A slot that a config served so far asks for is one of the times of its    *)
(* job, and times do not go away when a config is published.                 *)
LEMMA SlotAsked ==
    ASSUME NEW v \in Version, v <= served, NEW i \in DOMAIN Flows(v),
           SlotOf(Flows(v)[i]) \in Slot
    PROVE  SlotOf(Flows(v)[i]) \in Table!Times(JobOf(v, i))
<1> DEFINE a == [version |-> v, job |-> JobOf(v, i), slot |-> SlotOf(Flows(v)[i])]
           Asks == UNION {{[version |-> w, job |-> JobOf(w, k), slot |-> SlotOf(Flows(w)[k])] :
                              k \in DOMAIN Flows(w)} : w \in Version}
<1>1. a \in Asks
  OBVIOUS
<1>2. a.version <= served /\ a.job = JobOf(v, i) /\ a.slot = SlotOf(Flows(v)[i])
  OBVIOUS
<1> HIDE DEF a
<1>3. \E b \in Asks : b.version <= served /\ b.job = JobOf(v, i) /\ b.slot = SlotOf(Flows(v)[i])
  BY <1>1, <1>2
<1> QED
  BY <1>3 DEF Table!Times

LEMMA TimesGrow ==
    ASSUME served \in Int, served' \in {served, served + 1}, NEW j
    PROVE  /\ Table!Times(j) \subseteq Table!Times(j)'
           /\ served' = served => Table!Times(j)' = Table!Times(j)
<1> DEFINE Asks == UNION {{[version |-> v, job |-> JobOf(v, i), slot |-> SlotOf(Flows(v)[i])] :
                              i \in DOMAIN Flows(v)} : v \in Version}
<1>1. \A a \in Asks : a.version \in Int
  BY ConfigFacts
<1>2. ASSUME NEW a \in Asks, a.version <= served PROVE a.version <= served'
  BY <1>1, <1>2
<1> HIDE DEF Asks
<1>3. Table!Times(j) = {s \in Slot : \E a \in Asks : a.version <= served /\ a.job = j /\ a.slot = s}
  BY DEF Table!Times, Asks
<1>4. Table!Times(j)' = {s \in Slot : \E a \in Asks : a.version <= served' /\ a.job = j /\ a.slot = s}
  BY DEF Table!Times, Asks
<1> QED
  BY <1>2, <1>3, <1>4

(* TableInv is inductive.                                                    *)
LEMMA TableStep == IInv /\ TableInv /\ [Next]_vars => TableInv'
<1> SUFFICES ASSUME IInv, TableInv, [Next]_vars PROVE TableInv'
  OBVIOUS
<1>0. TypeOK /\ served \in Int
  BY ConfigFacts DEF IInv, TypeOK
<1> USE <1>0 DEF TableInv, TypeOK, Pulled, AtFlow, JobAt
<1>s. ASSUME served' = served PROVE \A j : Table!Times(j)' = Table!Times(j)
  BY <1>s, TimesGrow
<1>n. Unset \notin Slot /\ Parked \notin Slot
  BY ONLY TRUE DEF Slot, Unset, Parked
<1>1. CASE Boot
  BY <1>1, <1>n DEF Boot
<1>2. CASE Stop
  <2>1. served' = served /\ \A j \in JobId : jobs'[j] = Unset
    BY <1>2 DEF Stop
  <2>2. UNCHANGED local /\ serving' = FALSE
    BY <1>2 DEF Stop
  <2> QED
    BY <1>s, <1>n, <2>1, <2>2 DEF local
<1>3. CASE Publish
  <2>1. served' = served + 1 /\ UNCHANGED <<serving, jobs, local>>
    BY <1>3 DEF Publish, shared
  <2>2. \A j : Table!Times(j) \subseteq Table!Times(j)'
    BY <2>1, TimesGrow
  <2>3. ASSUME NEW t \in Threads, pc[t] \in Pulled PROVE cfg[t] <= served'
    <3>1. cfg[t] \in Int
      <4>1. cfg[t] \in Version \union {None}
        BY <1>0
      <4>2. \A v \in Version \union {None} : v \in Int
        BY ConfigFacts DEF None
      <4> QED
        BY ONLY <4>1, <4>2, Zenon
    <3>2. cfg[t] <= served
      BY <2>3
    <3> QED
      BY ONLY <1>0, <2>1, <3>1, <3>2
  <2> QED
    BY <2>1, <2>2, <2>3 DEF local
<1>4. CASE Nudge \/ UNCHANGED vars \/ \E j \in JobId : Fire(j) \/ Misfire(j)
  <2>1. UNCHANGED <<served, serving, jobs, local>>
    BY <1>4 DEF Nudge, vars, Fire, Misfire, shared
  <2> QED
    BY <1>s, <2>1 DEF local
<1>5. ASSUME NEW t \in Threads, StartRefresh(t) PROVE TableInv'
  BY <1>5, <1>s DEF StartRefresh, BeginRefresh, Moves, shared
<1>6. ASSUME NEW t \in Threads, NEW j \in JobId, StartJob(t, j) PROVE TableInv'
  <2>1. held <= served
    BY DEF IInv, Fresh
  <2> QED
    BY <1>6, <1>s, <2>1 DEF StartJob, BeginRefresh, Moves, shared
<1>7. ASSUME NEW t \in Threads,
             PullFails(t) \/ ArmRaises(t) \/ LookupRaises(t) \/ ReportRaises(t)
      PROVE  TableInv'
  BY <1>7, <1>s DEF PullFails, ArmRaises, LookupRaises, ReportRaises, Returns, shared
<1>8. ASSUME NEW t \in Threads, PullOk(t) PROVE TableInv'
  BY <1>8, <1>s DEF PullOk, Moves, shared
<1>9. ASSUME NEW t \in Threads, Hold(t) PROVE TableInv'
  BY <1>9, <1>s DEF Hold, Moves
<1>10. ASSUME NEW t \in Threads, Persist(t) PROVE TableInv'
  BY <1>10, <1>s DEF Persist, Moves, Returns
<1>11. ASSUME NEW t \in Threads, RunOk(t) \/ RunFails(t) PROVE TableInv'
  BY <1>11, <1>s DEF RunOk, RunFails, Moves, shared
<1>12. ASSUME NEW t \in Threads, Arm(t) PROVE TableInv'
  <2>1. /\ cfg[t] \in Version /\ cfg[t] <= served /\ index[t] \in DOMAIN Flows(cfg[t])
        /\ SlotAt(t) \in Slot
    BY <1>12 DEF Arm, Moves
  <2>2. SlotAt(t) \in Table!Times(JobAt(t))
    BY <2>1, SlotAsked DEF SlotAt
  <2>3. Armed(SlotAt(t)) \in Slot => serving /\ Armed(SlotAt(t)) \in Table!Times(JobAt(t))
    BY <1>n, <2>2 DEF Armed
  <2>4. /\ pc' = [pc EXCEPT ![t] = "lookup"]
        /\ jobs' = [jobs EXCEPT ![JobAt(t)] = Armed(SlotAt(t))]
        /\ UNCHANGED <<served, serving, cfg, index, next_run>>
    BY <1>12 DEF Arm, Moves
  <2>5. \A j \in JobId : jobs'[j] \in Slot => serving' /\ jobs'[j] \in Table!Times(j)'
    BY <1>s, <2>3, <2>4
  <2> QED
    BY <1>12, <1>s, <2>4, <2>5 DEF Arm, Moves
<1>13. ASSUME NEW t \in Threads, Lookup(t) PROVE TableInv'
  <2>1. JobAt(t) \in JobId
    BY <1>13, JobFacts DEF Lookup, Moves
  <2>2. jobs[JobAt(t)] \in Slot \union {Unset} /\ (serving => jobs[JobAt(t)] \in Slot)
    BY <1>13, <2>1 DEF Lookup, Moves, IInv, ArmedInv
  <2>3. IF jobs[JobAt(t)] = Unset THEN ~serving
        ELSE jobs[JobAt(t)] \in Table!Times(JobAt(t))
    BY <1>n, <2>1, <2>2
  <2>4. /\ pc' = [pc EXCEPT ![t] = "record"]
        /\ next_run' = [next_run EXCEPT ![t] = jobs[JobAt(t)]]
        /\ UNCHANGED <<served, serving, jobs, cfg, index>>
    BY <1>13 DEF Lookup, Moves, shared
  <2> QED
    BY <1>13, <1>s, <2>3, <2>4 DEF Lookup, Moves
<1>14. ASSUME NEW t \in Threads, Record(t) PROVE TableInv'
  BY <1>14, <1>s DEF Record, Moves
<1>15. ASSUME NEW t \in Threads, Report(t) PROVE TableInv'
  BY <1>15, <1>s DEF Report, Moves, Returns, shared
<1> QED
  BY <1>1, <1>2, <1>3, <1>4, <1>5, <1>6, <1>7, <1>8, <1>9, <1>10, <1>11, <1>12, <1>13,
     <1>14, <1>15
     DEF Next, PullStep, FlowStep, Stopped

(* In every behaviour TableInv holds.                                        *)
LEMMA TableInvariance == Spec => []TableInv
<1>1. Init => TableInv
  BY DEF Init, TableInv, Pulled, AtFlow, Slot, Unset
<1> QED
  BY Invariance, TableStep, <1>1, PTL DEF Spec

(* Steps that leave alone what the table has are no steps of it.             *)
LEMMA TableSame ==
    ASSUME UNCHANGED <<served, serving, held, jobs, next_runs>>
    PROVE  UNCHANGED Table!vars
BY DEF Table!vars

(* Every step of the daemon is a step of the job table or leaves it alone.   *)
LEMMA TableMaps == IInv /\ TableInv /\ [Next]_vars => [Table!Next]_(Table!vars)
<1> SUFFICES ASSUME IInv, TableInv, [Next]_vars
             PROVE  Table!Next \/ UNCHANGED Table!vars
  OBVIOUS
<1>0. TypeOK
  BY DEF IInv
<1>n. Unset \notin Slot /\ Parked \notin Slot /\ Unset # Parked
  BY ONLY TRUE DEF Slot, Unset, Parked
<1>1. CASE Boot
  BY <1>1, <1>n DEF Boot, Table!Next, Table!Start, Table!NoJobs, None
<1>2. CASE Stop
  BY <1>2, <1>n DEF Stop, Table!Next, Table!Stop, Table!NoJobs
<1>3. CASE Publish
  BY <1>3 DEF Publish, shared, Table!Next, Table!Publish
<1>4. CASE Nudge \/ Stopped \/ UNCHANGED vars \/ \E j \in JobId : Fire(j) \/ Misfire(j)
  BY <1>4, TableSame DEF Nudge, Stopped, vars, Fire, Misfire, shared
<1>5. ASSUME NEW t \in Threads, StartRefresh(t) \/ \E j \in JobId : StartJob(t, j)
      PROVE  UNCHANGED Table!vars
  BY <1>5, TableSame DEF StartRefresh, StartJob, shared
<1>6. ASSUME NEW t \in Threads,
             \/ PullFails(t) \/ ArmRaises(t) \/ LookupRaises(t) \/ ReportRaises(t)
             \/ PullOk(t) \/ RunOk(t) \/ RunFails(t) \/ Lookup(t) \/ Report(t) \/ Persist(t)
      PROVE  UNCHANGED Table!vars
  BY <1>6, TableSame DEF PullFails, ArmRaises, LookupRaises, ReportRaises, PullOk, RunOk,
     RunFails, Lookup, Report, Persist, shared
<1>7. ASSUME NEW t \in Threads, Hold(t) PROVE Table!Next
  <2>1. cfg[t] \in Version /\ cfg[t] <= served
    BY <1>7 DEF Hold, Moves, IInv, Placed, Fresh, Pulled
  <2>2. cfg[t] \in 1 .. served
    BY <1>0, <2>1 DEF Version, TypeOK
  <2> QED
    BY <1>7, <2>2 DEF Hold, Table!Next, Table!Hold
<1>8. ASSUME NEW t \in Threads, Arm(t) PROVE Table!Next \/ UNCHANGED Table!vars
  <2>1. /\ cfg[t] \in Version /\ cfg[t] <= served /\ index[t] \in DOMAIN Flows(cfg[t])
        /\ SlotAt(t) \in Slot /\ held # None
    BY <1>0, <1>8
       DEF Arm, Moves, TableInv, IInv, ConfigInv, Placed, Holding, Pulled, AtFlow
  <2>2. JobAt(t) \in JobId /\ SlotAt(t) \in Table!Times(JobAt(t))
    BY <2>1, SlotAsked, JobFacts DEF SlotAt, JobAt
  <2>3. /\ jobs \in [JobId -> Slot \union {Unset, Parked}]
        /\ jobs' = [jobs EXCEPT ![JobAt(t)] = Armed(SlotAt(t))]
        /\ UNCHANGED <<served, serving, held, next_runs>>
    BY <1>0, <1>8 DEF Arm, TypeOK
  <2>4. CASE serving
    <3>1. Armed(SlotAt(t)) = SlotAt(t) /\ SlotAt(t) # Parked
      BY <1>n, <2>1, <2>4 DEF Armed
    <3> DEFINE armed == [j \in JobId |-> IF jobs[j] = Parked THEN Unset ELSE jobs[j]]
    <3>2. armed' = [armed EXCEPT ![JobAt(t)] = SlotAt(t)]
      BY <2>2, <2>3, <3>1
    <3> QED
      BY <2>1, <2>2, <2>3, <2>4, <3>2 DEF Table!Next, Table!Arm, None
  <2>5. CASE ~serving
    <3>1. Armed(SlotAt(t)) = Parked
      BY <2>5 DEF Armed
    <3>2. jobs[JobAt(t)] \in {Unset, Parked}
      BY <2>2, <2>3, <2>5 DEF TableInv
    <3>3. [j \in JobId |-> IF jobs'[j] = Parked THEN Unset ELSE jobs'[j]]
             = [j \in JobId |-> IF jobs[j] = Parked THEN Unset ELSE jobs[j]]
      BY <2>2, <2>3, <3>1, <3>2
    <3> QED
      BY <2>3, <3>3 DEF Table!vars
  <2> QED
    BY <2>4, <2>5
<1>9. ASSUME NEW t \in Threads, Record(t) PROVE Table!Next
  <2>1. JobAt(t) \in JobId /\ pc[t] = "record"
    BY <1>9, JobFacts DEF Record, Moves, IInv, Placed, Pulled, AtFlow, JobAt
  <2>2. serving => jobs[JobAt(t)] \in Slot
    BY <2>1 DEF IInv, ArmedInv
  <2>3. next_run[t] \in Table!Times(JobAt(t)) \union (IF serving THEN {} ELSE {Unset})
    BY <2>1 DEF TableInv
  <2>4. /\ next_runs' = [next_runs EXCEPT ![JobAt(t)] = next_run[t]]
        /\ UNCHANGED <<served, serving, held, jobs>>
    BY <1>9 DEF Record
  <2>5. serving => [j \in JobId |-> IF jobs[j] = Parked THEN Unset ELSE jobs[j]][JobAt(t)] # Unset
    BY <1>n, <2>1, <2>2
  <2> QED
    BY <2>1, <2>3, <2>4, <2>5 DEF Table!Next, Table!Show
<1> QED
  BY <1>1, <1>2, <1>3, <1>4, <1>5, <1>6, <1>7, <1>8, <1>9
     DEF Next, PullStep, FlowStep

(* For any threads, configs and bounds, and however refreshes, jobs, edits,  *)
(* stops and restarts interleave, the daemon implements the job table: what  *)
(* is armed and what is shown are times that configs served so far ask for,  *)
(* of the job they are armed and shown for (refresh.py:139-146).             *)
THEOREM DaemonImplementsJobTable == Spec => ImplementsJobTable
<1>1. Init => Table!Init
  BY DEF Init, Table!Init, Table!NoJobs, Unset, Parked, None
<1> QED
  BY Invariance, TableInvariance, TableMaps, <1>1, PTL DEF Spec, ImplementsJobTable, Table!Spec
=============================================================================
