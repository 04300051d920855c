--------------------------- MODULE ConfigDelivery ---------------------------
(***************************************************************************)
(* How an edit of a host's config reaches the host: the SPOG stores it and *)
(* sends a signed nudge (server/router.py, server/hmac_auth.py), the       *)
(* daemon or a command of the CLI pulls it, the daemon holds it, and both  *)
(* write config.json (refresh.py:96-108), which the status command reads   *)
(* (cli.py:23-50).                                                         *)
(*                                                                         *)
(* Nudges are lost, late, repeated and overtake each other; refreshes of   *)
(* the threads of the daemon and of commands overlap; the daemon crashes   *)
(* and commands are killed.  What a refresh does after config.json is in   *)
(* RefreshService.                                                         *)
(***************************************************************************)
EXTENDS Integers, Sequences, ConfigModel, NudgeAuth

CONSTANTS
    Payloads,       \* Payloads[v]: what the SPOG serves at version v
    Threads,        \* the threads of the daemon's pool
    Commands,       \* `refresh` commands of the CLI, a process each
    Secret,         \* the nudge secret of the daemon
    SpogSecrets,    \* SpogSecrets[v]: the secrets the SPOG may sign the nudge of version v with
    Skew,           \* ticks by which the clock of the SPOG is ahead
    NoFile, Empty, Garbled, \* config.json when it is not the JSON of a config
    Moments,        \* bound: the readings of the clock, in ticks
    MaxWaiting,     \* bound: refreshes that wait for a thread
    MaxBoots        \* bound: restarts of the daemon in a behaviour

ASSUME DeliveryAssumption ==
    /\ Len(Payloads) \in Nat \ {0} /\ DOMAIN Payloads = 1 .. Len(Payloads)
    /\ \A v \in DOMAIN Payloads : "flows" \in DOMAIN Payloads[v] =>
          LET list == Payloads[v]["flows"]
          IN  list = Null \/ list \in Seq({list[i] : i \in DOMAIN list})
    /\ Threads \intersect Commands = {}
    /\ Skew \in Int
    /\ Moments \subseteq Nat
    /\ MaxWaiting \in Nat \ {0} /\ MaxBoots \in Nat

Version == DOMAIN Payloads
None == 0
Refreshers == Threads \union Commands

(* The config that version v stands for, and the text written of it. *)
ConfigOf(v) == Loads(Payloads[v])
Text(v) == Dumps(ConfigOf(v))

ASSUME TextAssumption ==
    /\ NoFile \notin {Empty, Garbled}
    /\ \A v \in Version : Parses(Payloads[v]) => Text(v) \notin {NoFile, Empty, Garbled}

(* The versions that parse, and those that a refresh may have pulled while   *)
(* the SPOG served v last.                                                   *)
Sound == {v \in Version : Parses(Payloads[v])}
Pullable(v) == Sound \intersect 1 .. v

VARIABLES
    served,     \* the version the SPOG serves
    nudges,     \* nudges sent; a copy may arrive at any time, or none ever
    now,        \* the clock of the host
    boots,      \* restarts of the daemon so far
    waiting,    \* refreshes dispatched to the pool and not yet started
    held,       \* the version the daemon holds, or None
    file,       \* config.json
    pc,         \* where each refresher is
    cfg,        \* the version it has pulled
    told,       \* history: the newest version that an accepted nudge was sent for
    lapsed,     \* history: whether a refresh has since failed to pull or held an older config
    written,    \* history: the newest version that was written in full
    before,     \* history: what written was when a refresher began its pull
    crossed,    \* history: writers that another one's write has overlapped
    spoiled     \* history: whether the last write was cut, failed or overlapped

history == <<told, lapsed, written, before, crossed, spoiled>>
vars == <<served, nudges, now, boots, waiting, held, file, pc, cfg, history>>

Writers == {r \in Refreshers : pc[r] = "write"}

Moves(r, from, to) == pc[r] = from /\ pc' = [pc EXCEPT ![r] = to]

(* The daemon has started: lifespan has dispatched the boot refresh. *)
Init ==
    /\ served = 1
    /\ nudges = {}
    /\ now \in Moments /\ \A m \in Moments : now <= m
    /\ boots = 0
    /\ waiting = 1
    /\ held = None
    /\ file = NoFile
    /\ pc = [r \in Refreshers |-> "idle"]
    /\ cfg = [r \in Refreshers |-> None]
    /\ told = None
    /\ lapsed = FALSE
    /\ written = None
    /\ before = [r \in Refreshers |-> None]
    /\ crossed = {}
    /\ spoiled = FALSE
-----------------------------------------------------------------------------
(* The operator edits the host's config, and the SPOG nudges the host.  The  *)
(* secret it signs with may not be the one the host was given.               *)
Publish ==
    /\ served < Len(Payloads)
    /\ served' = served + 1
    /\ \E secret \in SpogSecrets[served'] :
          LET ts == Seconds(now + Skew)
          IN  nudges' = nudges \union
                 {[ts |-> ts, nonce |-> served', body |-> Hostname, sent |-> now,
                   sig |-> Sign(secret, ts, served', Hostname)]}
    /\ UNCHANGED <<now, boots, waiting, held, file, pc, cfg, history>>

Tick ==
    /\ now' \in {m \in Moments : m > now}
    /\ UNCHANGED <<served, nudges, boots, waiting, held, file, pc, cfg, history>>

(* Mutant: a nudge is dropped while a refresh is under way. *)
UpdateMerged(n) ==
    /\ Verify(Secret, n, now)
    /\ waiting < MaxWaiting
    /\ waiting' = IF \E t \in Threads : pc[t] # "idle" THEN waiting ELSE waiting + 1
    /\ told' = IF n.nonce > told THEN n.nonce ELSE told
    /\ lapsed' = FALSE
    /\ UNCHANGED <<served, nudges, now, boots, held, file, pc, cfg,
                   written, before, crossed, spoiled>>

(* POST /update: a nudge that verifies dispatches a refresh, as often as it  *)
(* arrives; one that does not is answered with 401 and changes nothing.      *)
Update(n) ==
    /\ Verify(Secret, n, now)
    /\ waiting < MaxWaiting
    /\ waiting' = waiting + 1
    /\ told' = IF n.nonce > told THEN n.nonce ELSE told
    /\ lapsed' = FALSE
    /\ UNCHANGED <<served, nudges, now, boots, held, file, pc, cfg,
                   written, before, crossed, spoiled>>

Begin(r) ==
    /\ Moves(r, "idle", "pull")
    /\ before' = [before EXCEPT ![r] = written]

(* A thread of the pool takes up refresh, or a command starts. *)
StartRefresh(t) ==
    /\ waiting > 0
    /\ waiting' = waiting - 1
    /\ Begin(t)
    /\ UNCHANGED <<served, nudges, now, boots, held, file, cfg,
                   told, lapsed, written, crossed, spoiled>>

StartCommand(c) ==
    /\ Begin(c)
    /\ UNCHANGED <<served, nudges, now, boots, waiting, held, file, cfg,
                   told, lapsed, written, crossed, spoiled>>
-----------------------------------------------------------------------------
(* Mutant: the answer may come from a cache. *)
PullOkCached(r) ==
    /\ Moves(r, "pull", "hold")
    /\ \E v \in 1 .. served :
          /\ v \in Sound
          /\ cfg' = [cfg EXCEPT ![r] = v]
    /\ UNCHANGED <<served, nudges, now, boots, waiting, held, file,
                   told, lapsed, written, before, crossed, spoiled>>

(* Mutant: the answer is held before it is parsed. *)
PullOkBlind(r) ==
    /\ Moves(r, "pull", "hold")
    /\ cfg' = [cfg EXCEPT ![r] = served]
    /\ UNCHANGED <<served, nudges, now, boots, waiting, held, file,
                   told, lapsed, written, before, crossed, spoiled>>

(* The answer to GET /agent/config is parsed. *)
PullOk(r) ==
    /\ served \in Sound
    /\ Moves(r, "pull", "hold")
    /\ cfg' = [cfg EXCEPT ![r] = served]
    /\ UNCHANGED <<served, nudges, now, boots, waiting, held, file,
                   told, lapsed, written, before, crossed, spoiled>>

(* The SPOG is not reached, or its answer does not parse: one flow of an     *)
(* unknown type is enough.                                                   *)
PullFails(r) ==
    /\ Moves(r, "pull", "idle")
    /\ lapsed' = (lapsed \/ r \in Threads)
    /\ before' = [before EXCEPT ![r] = None]
    /\ UNCHANGED <<served, nudges, now, boots, waiting, held, file, cfg,
                   told, written, crossed, spoiled>>

(* self._config = cfg.  A command has a RefreshService of its own. *)
Hold(r) ==
    /\ Moves(r, "hold", "open")
    /\ held' = IF r \in Threads THEN cfg[r] ELSE held
    /\ lapsed' = (lapsed \/ (r \in Threads /\ cfg[r] < told))
    /\ UNCHANGED <<served, nudges, now, boots, waiting, file, cfg,
                   told, written, before, crossed, spoiled>>

(* Mutant: the file is opened without being truncated. *)
OpenKeeps(r) ==
    /\ Moves(r, "open", "write")
    /\ crossed' = IF Writers = {} THEN crossed ELSE crossed \union Writers \union {r}
    /\ UNCHANGED <<served, nudges, now, boots, waiting, held, file, cfg,
                   told, lapsed, written, before, spoiled>>

(* open(path, "w") truncates. *)
Open(r) ==
    /\ Moves(r, "open", "write")
    /\ file' = Empty
    /\ crossed' = IF Writers = {} THEN crossed ELSE crossed \union Writers \union {r}
    /\ UNCHANGED <<served, nudges, now, boots, waiting, held, cfg,
                   told, lapsed, written, before, spoiled>>

(* What refresh does next leaves all this alone: the refresher is free. *)
Leaves(r, from) ==
    /\ Moves(r, from, "idle")
    /\ cfg' = [cfg EXCEPT ![r] = None]
    /\ before' = [before EXCEPT ![r] = None]

(* An OSError of makedirs or open is logged: the file stays as it was. *)
OpenFails(r) ==
    /\ Leaves(r, "open")
    /\ UNCHANGED <<served, nudges, now, boots, waiting, held, file,
                   told, lapsed, written, crossed, spoiled>>

(* The text goes into an empty file, or over another one's: a shorter text   *)
(* leaves the end of the longer.                                             *)
Write(r) ==
    /\ Leaves(r, "write")
    /\ file' \in {Text(cfg[r])} \union (IF file = Empty THEN {} ELSE {Garbled})
    /\ spoiled' = (r \in crossed)
    /\ crossed' = crossed \ {r}
    /\ written' = IF file' # Garbled /\ cfg[r] > written THEN cfg[r] ELSE written
    /\ UNCHANGED <<served, nudges, now, boots, waiting, held, told, lapsed>>

(* A full disk: nothing, or not all, of the text is written. *)
WriteFails(r) ==
    /\ Leaves(r, "write")
    /\ file' \in {file, Garbled}
    /\ spoiled' = TRUE
    /\ crossed' = crossed \ {r}
    /\ UNCHANGED <<served, nudges, now, boots, waiting, held, told, lapsed, written>>
-----------------------------------------------------------------------------
(* The refreshers of gone end where they are, in the middle of a write too. *)
End(gone) ==
    /\ pc' = [r \in Refreshers |-> IF r \in gone THEN "idle" ELSE pc[r]]
    /\ cfg' = [r \in Refreshers |-> IF r \in gone THEN None ELSE cfg[r]]
    /\ before' = [r \in Refreshers |-> IF r \in gone THEN None ELSE before[r]]
    /\ crossed' = crossed \ gone
    /\ \/ /\ Writers \intersect gone = {}
          /\ UNCHANGED <<file, spoiled>>
       \/ /\ Writers \intersect gone # {}
          /\ file' \in {file, Garbled}
          /\ spoiled' = TRUE

(* The daemon dies and starts again: whatever it ran is gone, config.json is *)
(* not read back, and lifespan dispatches the boot refresh.                  *)
Boot ==
    /\ boots < MaxBoots
    /\ boots' = boots + 1
    /\ waiting' = 1
    /\ held' = None
    /\ End(Threads)
    /\ UNCHANGED <<served, nudges, now, told, lapsed, written>>

(* The operator interrupts a command. *)
Kill(c) ==
    /\ pc[c] # "idle"
    /\ End({c})
    /\ UNCHANGED <<served, nudges, now, boots, waiting, held, told, lapsed, written>>

RefreshStep(r) ==
    PullOk(r) \/ PullFails(r) \/ Hold(r) \/ Open(r) \/ OpenFails(r) \/ Write(r) \/ WriteFails(r)

Next ==
    \/ Publish \/ Tick \/ Boot
    \/ \E n \in nudges : Update(n)
    \/ \E t \in Threads : StartRefresh(t)
    \/ \E c \in Commands : StartCommand(c) \/ Kill(c)
    \/ \E r \in Refreshers : RefreshStep(r)

Spec == Init /\ [][Next]_vars
-----------------------------------------------------------------------------
Steps == {"idle", "pull", "hold", "open", "write"}

Unreadable == {Empty, Garbled}
NotAConfig == {NoFile} \union Unreadable

(* Every variable keeps its type, and who holds or writes has pulled.        *)
TypeOK ==
    /\ served \in Version
    /\ now \in Moments
    /\ boots \in 0 .. MaxBoots
    /\ waiting \in 0 .. MaxWaiting
    /\ held \in {None} \union Pullable(served)
    /\ file \in NotAConfig \union {Text(v) : v \in Pullable(served)}
    /\ pc \in [Refreshers -> Steps]
    /\ cfg \in [Refreshers -> {None} \union Pullable(served)]
    /\ \A r \in Refreshers : cfg[r] = None <=> pc[r] \in {"idle", "pull"}
    /\ \A n \in nudges : n.nonce \in 1 .. served /\ n.sent \in 0 .. now
    /\ told \in 0 .. served /\ written \in 0 .. served
    /\ lapsed \in BOOLEAN
    /\ before \in [Refreshers -> 0 .. served]
    /\ crossed \subseteq Refreshers
    /\ spoiled \in BOOLEAN

(* What the status command reads from config.json is a config that a refresh *)
(* pulled, or it says that there is none, or it raises: loads gives back     *)
(* what dumps was given, the classes of the bodies included, and a payload   *)
(* that does not parse never reaches the file (cli.py:23-28,                 *)
(* config/models.py:129-211, base/models.py:21-28).                          *)
StatusShowsAConfig ==
    file \notin NotAConfig => Parses(file) /\ \E v \in Pullable(served) : Loads(file) = ConfigOf(v)

(* It raises only while a write is under way, or when the last one was cut   *)
(* short, failed or ran into another one's: a write that is left alone       *)
(* repairs the file, whatever was there (refresh.py:104-105, cli.py:25-28).  *)
CleanFileIsRead == Writers = {} /\ ~spoiled => file \notin Unreadable

(* No refresh, of the daemon or of a command, writes a config that is older  *)
(* than one already in the file when it asked the SPOG.                      *)
DiskKeepsNewer ==
    \A r \in Refreshers : pc[r] \in {"hold", "open", "write"} => cfg[r] >= before[r]

(* An accepted nudge is not lost: the daemon holds a config no older than    *)
(* the edit it was sent for, or a refresh that cannot miss that edit is      *)
(* still to come, or one has since failed to pull or held an older config    *)
(* (router.py:43-46, refresh.py:96-97).                                      *)
NudgeNotLost ==
    \/ told <= held \/ lapsed
    \/ waiting > 0
    \/ \E t \in Threads : pc[t] = "pull" \/ (pc[t] = "hold" /\ cfg[t] >= told)

(* By the clocks of both ends, a nudge of the daemon's secret verifies for   *)
(* MaxSkew seconds either way, and none does a second beyond, however the    *)
(* two roundings to whole seconds fall; a nudge of another secret never      *)
(* does, nor any nudge at a host that has no secret (hmac_auth.py:36-45).    *)
WindowHolds ==
    \A n \in nudges :
        LET age == Abs(now - (n.sent + Skew))
            ours == n.sig[1] = Secret /\ Secret # NoSecret
        IN  /\ ours /\ age <= MaxSkew * Resolution => Verify(Secret, n, now)
            /\ ~ours \/ age >= (MaxSkew + 1) * Resolution => ~Verify(Secret, n, now)
=============================================================================
