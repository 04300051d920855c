------------------------------ MODULE JobTable ------------------------------
(***************************************************************************)
(* What the daemon promises of its daily jobs to those who look at /status *)
(* and to those who edit its config: a job is armed at a time that a       *)
(* config served so far asks for, while the daemon is up, and a next run   *)
(* that is shown is such a time, of a job that is armed.  A refresh may    *)
(* take the config back to an older one, and a job or a next run may be of *)
(* an older config than the one held: Converges says that this does not    *)
(* last.  RefreshService implements this with threads that share all of it.*)
(***************************************************************************)
EXTENDS Integers

CONSTANTS
    Jobs,       \* the names of jobs
    Asks,       \* what configs ask for: [version, job, slot]
    Day,        \* the slots of a day
    Unset       \* no job; no next run

VARIABLES
    served,     \* the version the SPOG serves
    up,         \* the daemon serves
    held,       \* the version it holds, 0 before the first
    armed,      \* the slot of each job, or Unset
    shown       \* the next run shown of each job, or Unset

vars == <<served, up, held, armed, shown>>

NoJobs == [j \in Jobs |-> Unset]

(* The times that configs served so far ask for. *)
Times(j) == {s \in Day : \E a \in Asks : a.version <= served /\ a.job = j /\ a.slot = s}

Init == served = 1 /\ up = FALSE /\ held = 0 /\ armed = NoJobs /\ shown = NoJobs

Start ==
    /\ up' = TRUE /\ held' = 0 /\ armed' = NoJobs /\ shown' = NoJobs
    /\ UNCHANGED served

Stop == up' = FALSE /\ armed' = NoJobs /\ UNCHANGED <<served, held, shown>>

Publish == served' = served + 1 /\ UNCHANGED <<up, held, armed, shown>>

Hold == (\E v \in 1 .. served : held' = v) /\ UNCHANGED <<served, up, armed, shown>>

Arm ==
    /\ up /\ held # 0
    /\ \E j \in Jobs : \E s \in Times(j) : armed' = [armed EXCEPT ![j] = s]
    /\ UNCHANGED <<served, up, held, shown>>

(* A daemon on its way down may take a next run away, too. *)
Show ==
    /\ \E j \in Jobs :
          /\ up => armed[j] # Unset
          /\ \E s \in Times(j) \union (IF up THEN {} ELSE {Unset}) :
                shown' = [shown EXCEPT ![j] = s]
    /\ UNCHANGED <<served, up, held, armed>>

Next == Start \/ Stop \/ Publish \/ Hold \/ Arm \/ Show

Spec == Init /\ [][Next]_vars
=============================================================================
