--------------------------- MODULE RefreshService ---------------------------
(***************************************************************************)
(* The daemon: the boot refresh (agent.py), the update nudge               *)
(* (server/router.py), the daily jobs (scheduler.py) and what they all     *)
(* run, RefreshService.refresh, renew_one and _run_one_flow (refresh.py).  *)
(*                                                                         *)
(* Every entry point is blocking code in the default thread pool, so a     *)
(* refresh, a second refresh and any number of jobs run at once over the   *)
(* same fields.  What they share is split into steps where they read and   *)
(* write it.  Issuing a certificate is one step here that succeeds or      *)
(* fails; FlowRunner models what is in it.                                 *)
(***************************************************************************)
EXTENDS Integers, Sequences, FiniteSets

CONSTANTS
    Threads,    \* the threads of the default pool
    Names,      \* names of flows
    Config,     \* Config[v]: the flows of the config the SPOG serves at version v
    MaxWaiting, \* bound: refreshes that wait for a thread
    MaxBoots    \* bound: starts of the daemon in a behaviour

FlowType == {"internal", "external"}
Unset == -1                 \* no schedule_slot in the config; no job; no next run
Parked == -2                \* a job added to a scheduler that has stopped
DEFAULT_SLOT == 18
Slot == 0 .. 143            \* the ten-minute slots of a day

(* schedule_slot is any integer the SPOG serves; a negative one is refused   *)
(* as one past 143 is, and needs no value of its own.  The name, which is of *)
(* one flow of the host, says which flow it is wherever the list has it.     *)
FlowConfig == [type : FlowType, name : Names, slot : Nat \union {Unset}]

ASSUME ConfigAssumption == Config \in Seq(Seq(FlowConfig)) /\ Len(Config) > 0

ASSUME BoundsAssumption == MaxWaiting \in Nat \ {0} /\ MaxBoots \in Nat

Version == 1 .. Len(Config)
None == 0                   \* no config held, none persisted
Torn == -1                  \* config.json was truncated and not written
Index == UNION {DOMAIN Config[v] : v \in Version}

(* "renew:<type>:<index>", for the flows of any version. *)
JobOf(v, i) == <<Config[v][i].type, i>>
JobId == UNION {{JobOf(v, i) : i \in DOMAIN Config[v]} : v \in Version}
NoJob == <<>>
NoName == "none"            \* of a job that was never armed: nothing reads it

VARIABLES
    served,     \* the version the SPOG serves
    boots,      \* starts of the daemon so far
    serving,    \* whether the HTTP server and the scheduler run
    waiting,    \* refreshes dispatched to the pool and not yet started
    held,       \* self._config: a version, or None
    persisted,  \* config.json: a version, None or Torn
    jobs,       \* the scheduler's daily jobs: the slot of each job id, Parked or Unset
    next_runs,  \* self.next_runs: the slot of the run shown for a job id
    fired,      \* jobs the scheduler has submitted and that have not returned
    pc,         \* where each thread is
    cfg,        \* the version its call works on
    index,      \* the index of the flow it is at
    every,      \* whether it is in refresh's loop over every flow
    origin,     \* the job it was submitted for, if any
    next_run,   \* what next_run_for returned to it
    heldBefore, \* history: the version held when its pull began
    armedFor    \* history: the name of the flow that each job was last armed for

local == <<pc, cfg, index, every, origin, next_run, heldBefore>>
shared == <<held, persisted, jobs, next_runs, armedFor>>
vars == <<served, boots, serving, waiting, fired, shared, local>>

Steps == {"idle", "pull", "hold", "persist", "run", "arm", "lookup", "record", "report"}

Flows(v) == Config[v]
SlotOf(f) == IF f.slot = Unset THEN DEFAULT_SLOT ELSE f.slot

Moves(t, from, to) == pc[t] = from /\ pc' = [pc EXCEPT ![t] = to]

Init ==
    /\ served = 1
    /\ boots = 0
    /\ serving = FALSE
    /\ waiting = 0
    /\ fired = {}
    /\ held = None
    /\ persisted = None
    /\ jobs = [j \in JobId |-> Unset]
    /\ next_runs = [j \in JobId |-> Unset]
    /\ pc = [t \in Threads |-> "idle"]
    /\ cfg = [t \in Threads |-> None]
    /\ index = [t \in Threads |-> 0]
    /\ every = [t \in Threads |-> FALSE]
    /\ origin = [t \in Threads |-> NoJob]
    /\ next_run = [t \in Threads |-> Unset]
    /\ heldBefore = [t \in Threads |-> None]
    /\ armedFor = [j \in JobId |-> NoName]
-----------------------------------------------------------------------------
(* The process starts with nothing in memory but the boot refresh, which     *)
(* lifespan dispatches; whatever ran before is gone, a write of config.json  *)
(* that was under way included.                                              *)
Boot ==
    /\ boots < MaxBoots
    /\ boots' = boots + 1
    /\ serving' = TRUE
    /\ waiting' = 1
    /\ persisted' \in
          {persisted} \union (IF \E t \in Threads : pc[t] = "persist" THEN {Torn} ELSE {})
    /\ held' = None
    /\ jobs' = [j \in JobId |-> Unset]
    /\ next_runs' = [j \in JobId |-> Unset]
    /\ fired' = {}
    /\ pc' = [t \in Threads |-> "idle"]
    /\ cfg' = [t \in Threads |-> None]
    /\ index' = [t \in Threads |-> 0]
    /\ every' = [t \in Threads |-> FALSE]
    /\ origin' = [t \in Threads |-> NoJob]
    /\ next_run' = [t \in Threads |-> Unset]
    /\ heldBefore' = [t \in Threads |-> None]
    /\ armedFor' = [j \in JobId |-> NoName]
    /\ UNCHANGED served

(* The process is told to stop: scheduler.shutdown(wait=False) drops every    *)
(* job and cancels what no thread has taken up.  The interpreter then joins  *)
(* its threads, so refreshes that wait or run go on to their end.            *)
Stop ==
    /\ serving
    /\ serving' = FALSE
    /\ jobs' = [j \in JobId |-> Unset]
    /\ fired' = {j \in fired : \E t \in Threads : origin[t] = j}
    /\ UNCHANGED <<served, boots, waiting, held, persisted, next_runs, armedFor, local>>

AtRest == waiting = 0 /\ \A t \in Threads : pc[t] = "idle"

(* A process that has come to its end stays ended. *)
Stopped ==
    /\ ~serving
    /\ AtRest
    /\ UNCHANGED vars

(* The operator edits the host's config in the SPOG. *)
Publish ==
    /\ served < Len(Config)
    /\ served' = served + 1
    /\ UNCHANGED <<boots, serving, waiting, fired, shared, local>>

(* POST /update with a good signature: run_in_executor(None, refresh). *)
Nudge ==
    /\ serving
    /\ waiting < MaxWaiting
    /\ waiting' = waiting + 1
    /\ UNCHANGED <<served, boots, serving, fired, shared, local>>

(* A daily job is due.  The scheduler does not submit one that is still      *)
(* running (max_instances is 1).                                             *)
Fire(j) ==
    /\ jobs[j] \in Slot
    /\ j \notin fired
    /\ fired' = fired \union {j}
    /\ UNCHANGED <<served, boots, serving, waiting, shared, local>>
-----------------------------------------------------------------------------
(* A thread takes up refresh(): ConfigClient(...).pull() comes first. *)
BeginRefresh(t) ==
    /\ Moves(t, "idle", "pull")
    /\ every' = [every EXCEPT ![t] = TRUE]
    /\ heldBefore' = [heldBefore EXCEPT ![t] = held]

StartRefresh(t) ==
    /\ waiting > 0
    /\ waiting' = waiting - 1
    /\ BeginRefresh(t)
    /\ UNCHANGED <<served, boots, serving, fired, shared, cfg, index, origin, next_run>>

(* Mutant: the index is compared as if it counted from one less. *)
StartJobOffByOne(t, j) ==
    /\ j \in fired
    /\ \A u \in Threads : origin[u] # j
    /\ held # None
    /\ j[2] <= Len(Flows(held)) + 1
    /\ origin' = [origin EXCEPT ![t] = j]
    /\ Moves(t, "idle", "run")
    /\ cfg' = [cfg EXCEPT ![t] = held]
    /\ index' = [index EXCEPT ![t] = j[2]]
    /\ UNCHANGED <<served, boots, serving, waiting, fired, shared, every, heldBefore, next_run>>

(* renew_one(index) reads self._config once; without a config, or when the   *)
(* index is past its end, it is a full refresh.                              *)
StartJob(t, j) ==
    /\ j \in fired
    /\ \A u \in Threads : origin[u] # j
    /\ origin' = [origin EXCEPT ![t] = j]
    /\ \/ /\ held # None
          /\ j[2] <= Len(Flows(held))
          /\ Moves(t, "idle", "run")
          /\ cfg' = [cfg EXCEPT ![t] = held]
          /\ index' = [index EXCEPT ![t] = j[2]]
          /\ UNCHANGED <<every, heldBefore>>
       \/ /\ held = None \/ j[2] > Len(Flows(held))
          /\ BeginRefresh(t)
          /\ UNCHANGED <<cfg, index>>
    /\ UNCHANGED <<served, boots, serving, waiting, fired, shared, next_run>>

(* A job that no thread took up for an hour (misfire_grace_time) is dropped  *)
(* by the thread that then does; the scheduler may submit it again.          *)
Misfire(j) ==
    /\ j \in fired
    /\ \A u \in Threads : origin[u] # j
    /\ \E t \in Threads : pc[t] = "idle"
    /\ fired' = fired \ {j}
    /\ UNCHANGED <<served, boots, serving, waiting, shared, local>>

(* The call returns or raises: its job, if any, may be submitted again. *)
Returns(t) ==
    /\ pc' = [pc EXCEPT ![t] = "idle"]
    /\ cfg' = [cfg EXCEPT ![t] = None]
    /\ index' = [index EXCEPT ![t] = 0]
    /\ every' = [every EXCEPT ![t] = FALSE]
    /\ origin' = [origin EXCEPT ![t] = NoJob]
    /\ next_run' = [next_run EXCEPT ![t] = Unset]
    /\ heldBefore' = [heldBefore EXCEPT ![t] = None]
    /\ fired' = fired \ {origin[t]}

(* The mTLS context, the request or the parse fails: nothing is changed. *)
PullFails(t) ==
    /\ pc[t] = "pull"
    /\ Returns(t)
    /\ UNCHANGED <<served, boots, serving, waiting, shared>>

(* Mutant: the answer may come from a cache. *)
PullOkCached(t) ==
    /\ Moves(t, "pull", "hold")
    /\ \E v \in 1 .. served : cfg' = [cfg EXCEPT ![t] = v]
    /\ UNCHANGED <<served, boots, serving, waiting, fired, shared,
                   index, every, origin, next_run, heldBefore>>

PullOk(t) ==
    /\ Moves(t, "pull", "hold")
    /\ cfg' = [cfg EXCEPT ![t] = served]
    /\ UNCHANGED <<served, boots, serving, waiting, fired, shared,
                   index, every, origin, next_run, heldBefore>>

(* Mutant: the pulled config is only written to disk. *)
HoldForgotten(t) ==
    /\ Moves(t, "hold", "persist")
    /\ heldBefore' = [heldBefore EXCEPT ![t] = None]
    /\ UNCHANGED <<served, boots, serving, waiting, fired, shared,
                   cfg, index, every, origin, next_run>>

Hold(t) ==
    /\ Moves(t, "hold", "persist")
    /\ held' = cfg[t]
    /\ heldBefore' = [heldBefore EXCEPT ![t] = None]
    /\ UNCHANGED <<served, boots, serving, waiting, fired, persisted, jobs, next_runs,
                   armedFor, cfg, index, every, origin, next_run>>

LastFlow(t) == ~every[t] \/ index[t] = Len(Flows(cfg[t]))

(* Mutant: a config.json that cannot be written ends the refresh. *)
PersistOrEnd(t) ==
    /\ pc[t] = "persist"
    /\ persisted' \in {cfg[t], persisted, Torn}
    /\ \/ /\ Len(Flows(cfg[t])) > 0 /\ persisted' = cfg[t]
          /\ Moves(t, "persist", "run")
          /\ index' = [index EXCEPT ![t] = 1]
          /\ UNCHANGED <<cfg, every, origin, next_run, heldBefore, fired>>
       \/ Returns(t)
    /\ UNCHANGED <<served, boots, serving, waiting, held, jobs, next_runs, armedFor>>

(* config.json is written, or could not be opened, or was truncated and the  *)
(* write failed: an OSError is logged and the loop over the flows begins.    *)
Persist(t) ==
    /\ pc[t] = "persist"
    /\ persisted' \in {cfg[t], persisted, Torn}
    /\ \/ /\ Len(Flows(cfg[t])) > 0
          /\ Moves(t, "persist", "run")
          /\ index' = [index EXCEPT ![t] = 1]
          /\ UNCHANGED <<cfg, every, origin, next_run, heldBefore, fired>>
       \/ /\ Len(Flows(cfg[t])) = 0
          /\ Returns(t)
    /\ UNCHANGED <<served, boots, serving, waiting, held, jobs, next_runs, armedFor>>
-----------------------------------------------------------------------------
(* _run_one_flow: make_runner(...).run(), and a failure goes to its report. *)
RunOk(t) ==
    /\ Moves(t, "run", "arm")
    /\ UNCHANGED <<served, boots, serving, waiting, fired, shared,
                   cfg, index, every, origin, next_run, heldBefore>>

(* Mutant: the failure is reported by whoever called the loop. *)
RunFailsThrough(t) ==
    /\ pc[t] = "run"
    /\ Returns(t)
    /\ UNCHANGED <<served, boots, serving, waiting, shared>>

RunFails(t) ==
    /\ Moves(t, "run", "report")
    /\ UNCHANGED <<served, boots, serving, waiting, fired, shared,
                   cfg, index, every, origin, next_run, heldBefore>>

SlotAt(t) == SlotOf(Flows(cfg[t])[index[t]])
NameAt(t) == Flows(cfg[t])[index[t]].name
JobAt(t) == JobOf(cfg[t], index[t])

(* Mutant: a scheduler that has been shut down runs what is added to it. *)
ArmedAlways(slot) == slot

(* A job is armed, or only noted when the scheduler has stopped. *)
Armed(slot) == IF serving THEN slot ELSE Parked

(* Mutant: a job that exists is not replaced. *)
ArmKeeps(t) ==
    /\ Moves(t, "arm", "lookup")
    /\ SlotAt(t) \in Slot
    /\ jobs' = [jobs EXCEPT ![JobAt(t)] = IF @ = Unset THEN Armed(SlotAt(t)) ELSE @]
    /\ armedFor' = [armedFor EXCEPT ![JobAt(t)] = NameAt(t)]
    /\ UNCHANGED <<served, boots, serving, waiting, fired, held, persisted, next_runs,
                   cfg, index, every, origin, next_run, heldBefore>>

Arm(t) ==
    /\ Moves(t, "arm", "lookup")
    /\ SlotAt(t) \in Slot
    /\ jobs' = [jobs EXCEPT ![JobAt(t)] = Armed(SlotAt(t))]
    /\ armedFor' = [armedFor EXCEPT ![JobAt(t)] = NameAt(t)]
    /\ UNCHANGED <<served, boots, serving, waiting, fired, held, persisted, next_runs,
                   cfg, index, every, origin, next_run, heldBefore>>

(* Mutant: the refusal is caught and the slot is recorded all the same. *)
ArmRaisesSwallowed(t) ==
    /\ Moves(t, "arm", "record")
    /\ SlotAt(t) \notin Slot
    /\ next_run' = [next_run EXCEPT ![t] = DEFAULT_SLOT]
    /\ UNCHANGED <<served, boots, serving, waiting, fired, shared,
                   cfg, index, every, origin, heldBefore>>

(* CronTrigger refuses an hour past 23, outside the flow's try: the call     *)
(* raises and the flows after this one are not run.                          *)
ArmRaises(t) ==
    /\ pc[t] = "arm"
    /\ SlotAt(t) \notin Slot
    /\ Returns(t)
    /\ UNCHANGED <<served, boots, serving, waiting, shared>>

(* Mutant: the next run is kept in a field of the service. *)
LookupShared(t) ==
    /\ Moves(t, "lookup", "record")
    /\ jobs[JobAt(t)] # Parked
    /\ next_run' = [u \in Threads |-> jobs[JobAt(t)]]
    /\ UNCHANGED <<served, boots, serving, waiting, fired, shared,
                   cfg, index, every, origin, heldBefore>>

Lookup(t) ==
    /\ Moves(t, "lookup", "record")
    /\ jobs[JobAt(t)] # Parked
    /\ next_run' = [next_run EXCEPT ![t] = jobs[JobAt(t)]]
    /\ UNCHANGED <<served, boots, serving, waiting, fired, shared,
                   cfg, index, every, origin, heldBefore>>

(* A job that is only noted has no next_run_time yet: reading it raises,     *)
(* outside the flow's try.                                                   *)
LookupRaises(t) ==
    /\ pc[t] = "lookup"
    /\ jobs[JobAt(t)] = Parked
    /\ Returns(t)
    /\ UNCHANGED <<served, boots, serving, waiting, shared>>

Record(t) ==
    /\ Moves(t, "record", "report")
    /\ next_runs' = [next_runs EXCEPT ![JobAt(t)] = next_run[t]]
    /\ next_run' = [next_run EXCEPT ![t] = Unset]
    /\ UNCHANGED <<served, boots, serving, waiting, fired, held, persisted, jobs,
                   armedFor, cfg, index, every, origin, heldBefore>>

(* The report is sent, or lost (report() catches httpx.HTTPError). *)
Report(t) ==
    /\ \/ /\ Moves(t, "report", "run")
          /\ ~LastFlow(t)
          /\ index' = [index EXCEPT ![t] = index[t] + 1]
          /\ UNCHANGED <<cfg, every, origin, next_run, heldBefore, fired>>
       \/ /\ pc[t] = "report"
          /\ LastFlow(t)
          /\ Returns(t)
    /\ UNCHANGED <<served, boots, serving, waiting, shared>>

(* Mutant: a job whose call raises stays taken for running. *)
ReportRaisesTaken(t) ==
    /\ Moves(t, "report", "idle")
    /\ cfg' = [cfg EXCEPT ![t] = None]
    /\ index' = [index EXCEPT ![t] = 0]
    /\ every' = [every EXCEPT ![t] = FALSE]
    /\ UNCHANGED <<served, boots, serving, waiting, fired, shared, origin, next_run, heldBefore>>

(* ReportClient(...) loads the machine certificate again, outside any try:   *)
(* a file that is missing or half written there ends the whole call.         *)
ReportRaises(t) ==
    /\ pc[t] = "report"
    /\ Returns(t)
    /\ UNCHANGED <<served, boots, serving, waiting, shared>>
-----------------------------------------------------------------------------
FlowStep(t) ==
    \/ RunOk(t) \/ RunFails(t)
    \/ Arm(t) \/ ArmRaises(t) \/ Lookup(t) \/ LookupRaises(t) \/ Record(t)
    \/ Report(t) \/ ReportRaises(t)

PullStep(t) == PullOk(t) \/ PullFails(t) \/ Hold(t) \/ Persist(t)

Next ==
    \/ Boot \/ Stop \/ Stopped \/ Publish \/ Nudge
    \/ \E j \in JobId : Fire(j) \/ Misfire(j)
    \/ \E t \in Threads : StartRefresh(t)
    \/ \E t \in Threads, j \in JobId : StartJob(t, j)
    \/ \E t \in Threads : PullStep(t) \/ FlowStep(t)

Spec == Init /\ [][Next]_vars

(* What has started goes on: every blocking call has a timeout.  The pool    *)
(* takes its work in order, so what waits for a thread gets one, a job maybe *)
(* too late to be run, and the scheduler submits each due job.               *)
Progress ==
    /\ \A t \in Threads : WF_vars(PullStep(t) \/ FlowStep(t))
    /\ SF_vars(\E t \in Threads : StartRefresh(t))
    /\ \A j \in JobId :
          /\ WF_vars(Fire(j))
          /\ SF_vars(Misfire(j) \/ \E t \in Threads : StartJob(t, j))

(* Failures are not for ever: of infinitely many runs of a flow, and of      *)
(* infinitely many reports on it, some are good.                             *)
Recovery ==
    \A j \in JobId :
        /\ SF_vars(\E t \in Threads : RunOk(t) /\ JobAt(t) = j)
        /\ SF_vars(\E t \in Threads : Report(t) /\ JobAt(t) = j)

FairSpec == Spec /\ Progress /\ Recovery
-----------------------------------------------------------------------------
(* Every variable keeps its type; a thread at a flow is at a flow of the     *)
(* config it works on, so cfg.flows[index] exists (refresh.py:110-121).      *)
TypeOK ==
    /\ served \in Version
    /\ boots \in 0 .. MaxBoots
    /\ serving \in BOOLEAN
    /\ waiting \in 0 .. MaxWaiting
    /\ fired \subseteq JobId
    /\ held \in Version \union {None}
    /\ persisted \in Version \union {None, Torn}
    /\ jobs \in [JobId -> Slot \union {Unset, Parked}]
    /\ next_runs \in [JobId -> Slot \union {Unset}]
    /\ pc \in [Threads -> Steps]
    /\ cfg \in [Threads -> Version \union {None}]
    /\ index \in [Threads -> Index \union {0}]
    /\ every \in [Threads -> BOOLEAN]
    /\ origin \in [Threads -> JobId \union {NoJob}]
    /\ next_run \in [Threads -> Slot \union {Unset}]
    /\ heldBefore \in [Threads -> Version \union {None}]
    /\ armedFor \in [JobId -> Names \union {NoName}]
    /\ \A t \in Threads :
          pc[t] \in {"run", "arm", "lookup", "record", "report"} =>
              cfg[t] \in Version /\ index[t] \in DOMAIN Flows(cfg[t])

(* A job is never armed, due or running while no config is held: the branch  *)
(* of renew_one for "none held" (refresh.py:118) is not taken.               *)
JobsNeedConfig ==
    (\E j \in JobId : jobs[j] # Unset) \/ fired # {} => held # None

(* What /status shows of a config it read a moment ago, flow by flow         *)
(* (router.py:57-59); next_runs may be newer than that config.               *)
StatusRow(v, i) == next_runs[JobOf(v, i)]

(* While the daemon serves, a next run that /status shows is one of a job    *)
(* that is armed, whichever config the handler has read: job ids of older    *)
(* configs never come to name a job that was not armed.                      *)
ShownIsArmed ==
    serving =>
        \A v \in Version : \A i \in DOMAIN Flows(v) :
            StatusRow(v, i) # Unset => jobs[JobOf(v, i)] \in Slot

(* A config that was held before a refresh asked the SPOG is not replaced by *)
(* an older one: held goes back to an older config only when the pulls of    *)
(* two refreshes overlapped (refresh.py:96-97 take no lock).                 *)
KeepsNewer == \A t \in Threads : pc[t] = "hold" => cfg[t] >= heldBefore[t]

(* The flow a job id names in the config held, and the time it asks for. *)
Served(j) == held # None /\ j[2] <= Len(Flows(held)) /\ JobOf(held, j[2]) = j
Asked(j) == SlotOf(Flows(held)[j[2]])

(* A job that is dropped again and again is also taken up in time again and  *)
(* again: the load on the pool lets up now and then.  Nothing in the code    *)
(* sees to that, so what needs it says so.                                   *)
TakenInTime(j) ==
    []<><<Misfire(j)>>_vars => []<><<\E t \in Threads : StartJob(t, j)>>_vars

(* However runs of old and new configs overlap, in the end every armed flow  *)
(* of the config held is armed at the slot that config asks for, if there is *)
(* such a slot, and that is the next run shown for it: a job armed late with *)
(* the slot of an older config corrects itself when it runs, since renew_one *)
(* reads the config anew (refresh.py:117, 143-146).                          *)
Converges ==
    \A j \in JobId :
        TakenInTime(j) =>
            <>[](Served(j) /\ Asked(j) \in Slot /\ jobs[j] \in Slot =>
                    jobs[j] = Asked(j) /\ next_runs[j] = Asked(j))

(* A job that stays armed is started again and again, whatever its runs and  *)
(* reports raise and whatever the other threads do, unless from some day on  *)
(* it is always dropped as an hour late: no failure leaves a job armed but   *)
(* taken for running (refresh.py:130-138, scheduler.py:60-66).               *)
KeepsRunning ==
    \A j \in JobId :
        TakenInTime(j) =>
            (<>[](jobs[j] \in Slot) => []<><<\E t \in Threads : StartJob(t, j)>>_vars)

(* agent.py:58, "the /update nudge will retry": a flow whose first run fails *)
(* gets no daily job and nothing in the daemon runs it again, but as long as *)
(* nudges bring refreshes that reach the SPOG, every flow of the config held *)
(* is armed in the end (refresh.py:138, 144).                                *)
NudgesArm ==
    []<><<\E t \in Threads : PullOk(t)>>_vars =>
        <>[](\A j \in JobId : Served(j) /\ Asked(j) \in Slot => jobs[j] \in Slot)

(* A daemon told to stop comes to rest: the refreshes and jobs that its      *)
(* threads still have to end do end, and nothing submits others              *)
(* (agent.py:70, scheduler.py:37).                                           *)
StopDrains == <>[](~serving) => <>[]AtRest

(* refresh.py:5-6: "Individual flow failures are isolated so one bad flow    *)
(* does not sink the others": refresh's loop does not end before the last.   *)
FailuresAreIsolated ==
    [][\A t \in Threads :
          every[t] /\ index[t] # 0 /\ ~LastFlow(t) /\ boots' = boots => pc'[t] # "idle"]_vars

(* What is left of that isolation, and what two actors would have to do to   *)
(* lose more of it: a loop that does not come to its last flow ended at a    *)
(* slot that is refused, at a report whose certificate could not be loaded,  *)
(* or after another thread had stopped the scheduler.  A flow's own failure  *)
(* does not end it, nor does the lookup of a job while the daemon serves,    *)
(* whatever the other threads arm meanwhile (refresh.py:130-153).            *)
LoopEndsForCause ==
    [][\A t \in Threads :
          every[t] /\ index[t] # 0 /\ ~LastFlow(t) /\ boots' = boots /\ pc'[t] = "idle" =>
              \/ pc[t] = "arm" /\ SlotAt(t) \notin Slot
              \/ pc[t] = "report"
              \/ pc[t] = "lookup" /\ ~serving]_vars

(* scheduler.py:28, "keyed by a stable per-flow job id": what a job runs     *)
(* when a thread takes it up is the flow it was armed for, not another that  *)
(* an edit has put at that position (refresh.py:118-121).                    *)
JobRunsItsFlow ==
    [][\A t \in Threads, j \in JobId :
          StartJob(t, j) => pc'[t] = "run" /\ NameAt(t)' = armedFor[j]]_vars
-----------------------------------------------------------------------------
(* The jobs as JobTable has them: one that is only noted is not armed. *)
Table == INSTANCE JobTable WITH
    Jobs <- JobId,
    Asks <- UNION {{[version |-> v, job |-> JobOf(v, i), slot |-> SlotOf(Flows(v)[i])] :
                        i \in DOMAIN Flows(v)} : v \in Version},
    Day <- Slot,
    up <- serving,
    armed <- [j \in JobId |-> IF jobs[j] = Parked THEN Unset ELSE jobs[j]],
    shown <- next_runs

(* However refreshes, jobs, edits, stops and restarts interleave, the daemon *)
(* arms jobs at times that configs served so far ask for, and shows such     *)
(* times, of jobs that are armed: no thread arms the time of one flow for    *)
(* another, arms a job of a stopped scheduler, or shows what it looked up    *)
(* for another job (refresh.py:139-146, scheduler.py:56-67).                 *)
ImplementsJobTable == Table!Spec
=============================================================================
