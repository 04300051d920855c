---------------------------- MODULE AgentLogging ----------------------------
(***************************************************************************)
(* The logging of the agent (logger/logger.py): which level a logger has,  *)
(* whenever it was created and however often logging is configured, and    *)
(* the way of a record through the queue to the listener thread that       *)
(* emits it, while other threads log, logging is shut down and configured  *)
(* again, or the process exits.                                            *)
(*                                                                         *)
(* A name is the sequence of its parts, a record the number of its turn.   *)
(* A level name that dictConfig does not know makes it raise, which ends   *)
(* the import of agent.py: the settings given here are ones it accepts.    *)
(***************************************************************************)
EXTENDS Integers, Sequences

CONSTANTS
    Names,          \* the loggers of the program and of its libraries
    Before,         \* the levels that loggers have before the agent configures any
    Settings,       \* what configure_logging is called with
    Severities,     \* the levels of records
    MaxRecords,     \* bound: records in a behaviour
    MaxConfigs      \* bound: times logging is configured in a behaviour

(* _nameToLevel, with the short names that logger.py registers. *)
LevelNumber ==
    [NOTSET |-> 0, TRC |-> 5, DBG |-> 10, DEBUG |-> 10, INF |-> 20, INFO |-> 20,
     WRN |-> 30, WARN |-> 30, WARNING |-> 30, ERR |-> 40, ERROR |-> 40,
     CRT |-> 50, CRITICAL |-> 50, FATAL |-> 50]

(* _level_to_int of a name: one that is not known counts as INFO. *)
LevelToInt(name) == IF name \in DOMAIN LevelNumber THEN LevelNumber[name] ELSE 20

NotSet == 0
Absent == -1        \* not created; a PlaceHolder at most
Levels == {LevelNumber[l] : l \in DOMAIN LevelNumber}

(* Before any are. *)
Unset == [use_queue |-> FALSE]

(* Settings without a level for a logger are given the default (line 192). *)
ASSUME LoggingAssumption ==
    /\ \A n \in Names : n \in Seq(STRING) /\ Len(n) > 0
    /\ Unset \notin Settings
    /\ Before \in [Names -> {Absent} \union Levels]
    /\ \A s \in Settings :
          /\ s.use_queue \in BOOLEAN
          /\ DOMAIN s.loggers \subseteq Names
          /\ \A n \in DOMAIN s.loggers : s.loggers[n] \in DOMAIN LevelNumber
    /\ Severities \subseteq Levels \ {NotSet}
    /\ MaxRecords \in Nat /\ MaxConfigs \in Nat

VARIABLES
    alive,      \* the process has not exited
    configs,    \* times logging has been configured
    configured, \* _CONFIGURED
    settings,   \* the settings that DefaultLevelLogger resolves with, or Unset
    level,      \* the own level of each logger
    queue,      \* the queue of the QueueHandler on the root logger
    listener,   \* the listener thread: "none", "running" or "ended"
    stopping,   \* shutdown_logging waits for the listener
    count,      \* records accepted by the root logger so far
    emitted,    \* the records written, in order
    late,       \* history: records queued once a shutdown had begun
    kept        \* history: loggers that the last configuration left at their level

pipeline == <<queue, listener, stopping, count, emitted, late>>
vars == <<alive, configs, configured, settings, level, kept, pipeline>>

Sentinel == 0
-----------------------------------------------------------------------------
(* The name itself and the names above it. *)
Path(name) == {SubSeq(name, 1, i) : i \in 1 .. Len(name)}

Nearest(names) == CHOOSE n \in names : \A other \in names : Len(other) <= Len(n)

(* resolve_level_for_logger *)
Resolve(s, name) ==
    LET on == Path(name) \intersect DOMAIN s.loggers
    IN  IF on = {} THEN LevelToInt(s.level) ELSE LevelToInt(s.loggers[Nearest(on)])

(* dictConfig sets the loggers it is given, which creates them, unsets those *)
(* below and leaves the others alone.                                        *)
DictConfig(s, name) ==
    IF name \in DOMAIN s.loggers THEN LevelToInt(s.loggers[name])
    ELSE IF level[name] # Absent /\ Path(name) \intersect DOMAIN s.loggers # {} THEN NotSet
    ELSE level[name]

(* Mutant: loggers that are there already are left without a level. *)
LevelAfterRaw(s, name) == DictConfig(s, name)

(* Loggers without a level, those just unset too, are given the resolved one. *)
LevelAfter(s, name) ==
    IF DictConfig(s, name) = NotSet THEN Resolve(s, name) ELSE DictConfig(s, name)

(* What isEnabledFor compares with: the own level of the nearest logger that *)
(* has one, else that of the root logger, which is 0.                        *)
Effective(name) ==
    LET set == {n \in Path(name) \intersect Names : level[n] \notin {Absent, NotSet}}
    IN  IF set = {} THEN 0 ELSE level[Nearest(set)]
-----------------------------------------------------------------------------
Init ==
    /\ alive = TRUE
    /\ configs = 0
    /\ configured = FALSE
    /\ settings = Unset
    /\ level = Before
    /\ kept = Names
    /\ queue = <<>>
    /\ listener = "none"
    /\ stopping = FALSE
    /\ count = 0
    /\ emitted = <<>>
    /\ late = {}

(* Mutant: logging that is configured is configured once more. *)
ConfigureAgain(s) ==
    /\ alive
    /\ configs < MaxConfigs
    /\ configs' = configs + 1
    /\ configured' = TRUE
    /\ settings' = s
    /\ level' = [n \in Names |-> LevelAfter(s, n)]
    /\ kept' = {n \in Names \ DOMAIN s.loggers : DictConfig(s, n) \notin {Absent, NotSet}}
    /\ queue' = <<>>
    /\ listener' = IF s.use_queue THEN "running" ELSE "none"
    /\ UNCHANGED <<alive, stopping, count, emitted, late>>

(* configure_logging: with a queue, a handler of a new queue on the root     *)
(* logger in place of what was there, and a listener; without, the handlers. *)
ConfigureLogging(s) ==
    /\ alive /\ ~configured
    /\ configs < MaxConfigs
    /\ configs' = configs + 1
    /\ configured' = TRUE
    /\ settings' = s
    /\ level' = [n \in Names |-> LevelAfter(s, n)]
    /\ kept' = {n \in Names \ DOMAIN s.loggers : DictConfig(s, n) \notin {Absent, NotSet}}
    /\ queue' = <<>>
    /\ listener' = IF s.use_queue THEN "running" ELSE "none"
    /\ UNCHANGED <<alive, stopping, count, emitted, late>>

(* getLogger of a new name: DefaultLevelLogger, once logging was configured. *)
GetLogger(n) ==
    /\ alive /\ level[n] = Absent
    /\ level' = [level EXCEPT ![n] = IF settings = Unset THEN NotSet ELSE Resolve(settings, n)]
    /\ kept' = IF settings = Unset THEN kept ELSE kept \ {n}
    /\ UNCHANGED <<alive, configs, configured, settings, pipeline>>

(* A record of some thread reaches the handler of the root logger: the queue *)
(* handler stays there when logging is shut down.                            *)
Log(n, severity) ==
    /\ alive /\ settings # Unset
    /\ level[n] # Absent /\ severity >= Effective(n)
    /\ count < MaxRecords
    /\ count' = count + 1
    /\ IF settings.use_queue
       THEN queue' = Append(queue, count') /\ UNCHANGED emitted
       ELSE emitted' = Append(emitted, count') /\ UNCHANGED queue
    /\ late' = IF settings.use_queue /\ (stopping \/ ~configured)
               THEN late \union {count'} ELSE late
    /\ UNCHANGED <<alive, configs, configured, settings, level, kept, listener, stopping>>
-----------------------------------------------------------------------------
(* Mutant: the thread ends when it finds the queue empty. *)
ListenWhileAny ==
    /\ alive /\ listener = "running" /\ queue # <<>>
    /\ queue' = Tail(queue)
    /\ IF Head(queue) = Sentinel THEN UNCHANGED emitted
       ELSE emitted' = Append(emitted, Head(queue))
    /\ listener' = IF Tail(queue) = <<>> THEN "ended" ELSE listener
    /\ UNCHANGED <<alive, configs, configured, settings, level, kept, stopping, count, late>>

(* The thread of the listener takes the next record and hands it to the      *)
(* handlers, or ends at the sentinel.                                        *)
Listen ==
    /\ alive /\ listener = "running" /\ queue # <<>>
    /\ queue' = Tail(queue)
    /\ IF Head(queue) = Sentinel
       THEN listener' = "ended" /\ UNCHANGED emitted
       ELSE emitted' = Append(emitted, Head(queue)) /\ UNCHANGED listener
    /\ UNCHANGED <<alive, configs, configured, settings, level, kept, stopping, count, late>>

(* Mutant: the listener is told to end where it is. *)
ShutdownAtOnce ==
    /\ alive /\ listener = "running" /\ ~stopping
    /\ stopping' = TRUE
    /\ listener' = "ended"
    /\ UNCHANGED <<alive, configs, configured, settings, level, kept, queue, count, emitted, late>>

(* Mutant: the listener is joined and never told to end. *)
ShutdownForgets ==
    /\ alive /\ listener = "running" /\ ~stopping
    /\ stopping' = TRUE
    /\ UNCHANGED <<alive, configs, configured, settings, level, kept,
                   queue, listener, count, emitted, late>>

(* shutdown_logging with a listener: it is sent the sentinel. *)
Shutdown ==
    /\ alive /\ listener = "running" /\ ~stopping
    /\ stopping' = TRUE
    /\ queue' = Append(queue, Sentinel)
    /\ UNCHANGED <<alive, configs, configured, settings, level, kept,
                   listener, count, emitted, late>>

(* The thread has ended: shutdown_logging returns. *)
Joined ==
    /\ alive /\ stopping /\ listener = "ended"
    /\ stopping' = FALSE /\ configured' = FALSE /\ listener' = "none"
    /\ UNCHANGED <<alive, configs, settings, level, kept, queue, count, emitted, late>>

(* Without one there is nothing to wait for. *)
ShutdownDirect ==
    /\ alive /\ configured /\ listener = "none"
    /\ configured' = FALSE
    /\ UNCHANGED <<alive, configs, settings, level, kept, pipeline>>

(* The process exits.  Nothing calls shutdown_logging then, and the thread   *)
(* is a daemon thread: what is queued is not written.                        *)
Exit ==
    /\ alive
    /\ alive' = FALSE
    /\ UNCHANGED <<configs, configured, settings, level, kept, pipeline>>

Next ==
    \/ \E s \in Settings : ConfigureLogging(s)
    \/ \E n \in Names : GetLogger(n) \/ \E severity \in Severities : Log(n, severity)
    \/ Listen \/ Shutdown \/ Joined \/ ShutdownDirect \/ Exit

(* The listener runs on, and so does the thread that shuts logging down.     *)
Spec == Init /\ [][Next]_vars /\ WF_vars(Listen) /\ WF_vars(Joined)
-----------------------------------------------------------------------------
(* The records ahead of the sentinel, if a listener will come to them.       *)
Ahead(n) ==
    /\ \A k \in 1 .. n : queue[k] # Sentinel
    /\ n < Len(queue) => queue[n + 1] = Sentinel

Owed ==
    IF listener = "running" THEN SubSeq(queue, 1, CHOOSE n \in 0 .. Len(queue) : Ahead(n))
    ELSE <<>>

(* Every variable keeps its type, and _CONFIGURED is what the listener says. *)
TypeOK ==
    /\ alive \in BOOLEAN /\ configured \in BOOLEAN /\ stopping \in BOOLEAN
    /\ configs \in 0 .. MaxConfigs
    /\ settings \in Settings \union {Unset}
    /\ level \in [Names -> {Absent} \union Levels]
    /\ kept \subseteq Names
    /\ queue \in Seq(0 .. count) /\ emitted \in Seq(1 .. count)
    /\ listener \in {"none", "running", "ended"}
    /\ count \in 0 .. MaxRecords
    /\ late \subseteq 1 .. count
    /\ listener # "none" => configured
    /\ configured /\ settings.use_queue => listener # "none"
    /\ stopping <=> (listener = "ended" \/ (listener = "running" /\ \E i \in DOMAIN queue : queue[i] = Sentinel))

(* Once logging is configured, every logger has the level that the settings  *)
(* in force resolve for it, whether it was there before or came later: only  *)
(* one that had a level of its own, and no configured logger above it, keeps *)
(* it (logger.py:201-235).                                                   *)
LevelsFollow ==
    settings # Unset =>
        \A n \in Names :
            /\ level[n] # Absent /\ n \notin kept => level[n] = Resolve(settings, n)
            /\ n \in kept => Path(n) \intersect DOMAIN settings.loggers = {}

(* What was logged before a shutdown began is written once, in the order it  *)
(* was logged, or still ahead of the listener; what is queued behind the     *)
(* sentinel, or after the listener has ended, is not written at all.         *)
(* Without a queue a shutdown changes nothing for the handlers, and every    *)
(* record is written (logger.py:245-271, 276-285).                           *)
OnceInOrder ==
    LET out == emitted \o Owed
    IN  /\ \A i, j \in DOMAIN out : i < j => out[i] < out[j]
        /\ {out[i] : i \in DOMAIN out} = (1 .. count) \ late

(* A record logged before a shutdown is written, unless the process exits    *)
(* first: the daemon never waits for it (logger.py:270-271).                 *)
Drains ==
    \A i \in 1 .. MaxRecords :
        (count >= i /\ i \notin late) ~> (~alive \/ \E k \in DOMAIN emitted : emitted[k] = i)

(* A shutdown returns, whatever other threads log meanwhile.                 *)
ShutdownReturns == stopping ~> (~stopping \/ ~alive)
-----------------------------------------------------------------------------
(* A record logged now will be written: by the handlers themselves, or by a  *)
(* listener that has not been sent the sentinel.                             *)
Opened == settings # Unset /\ (settings.use_queue => configured /\ ~stopping)

Pipe == INSTANCE RecordPipe WITH
    up <- alive,
    open <- Opened,
    taken <- count,
    waiting <- Owed,
    written <- emitted

(* The queue, its sentinel and the listener behave as one pipe that keeps    *)
(* the order: closing it loses nothing that is in it, nothing put in while   *)
(* it is closed is written later, and it is not opened again before it has   *)
(* run empty, however logging is shut down and configured (logger.py:140,    *)
(* 245-285).                                                                 *)
ImplementsPipe == Pipe!Spec
=============================================================================
