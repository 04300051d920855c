# TLA+ models of the nextep agent

The nextep agent keeps the TLS certificates of a host renewed. It pulls the
host's config from a server (the SPOG) over mTLS, issues one certificate per
*flow* (an internal one from step-ca with an x5c token, or an external one over
ACME with DNS-01), writes `<name>.pem` and `<name>.key`, runs a post-renewal
script, arms a daily job for the flow and reports to the SPOG.

This directory holds TLA+ models of that program, the TLC configurations that
check them on small instances, and proofs of what holds for all instances.
Paths below are relative to `src/nextep_agent/`.

## 1. Inventory

| Component | Source | State | Operations | Modelled in |
|---|---|---|---|---|
| Flow run | `flows/base.py` | the files `<name>.pem`, `<name>.key`; what the served application loaded | `run`: gate, issue, write, hook | `FlowRunner`, `CertStore`, `RenewalGate` |
| Flow issuance | `flows/internal_x5c.py`, `flows/external_acme.py`, `flows/__init__.py` | none that outlives a run | `_obtain`, `make_runner` | one step of `FlowRunner` that grants or fails; ACME in `DnsChallenge` |
| Refresh service | `refresh.py` | `_config`, `next_runs`, `config.json` | `refresh`, `renew_one`, `_run_one_flow` | `RefreshService`, `JobTable` |
| Scheduler | `scheduler.py` (APScheduler) | jobs by id | `schedule_flow_daily`, `next_run_for` | `RefreshService`, time in `RenewalGate` |
| Daemon life cycle | `agent.py` | the process, its default thread pool | `lifespan`: start, boot refresh, stop | `RefreshService`, `ConfigDelivery` |
| HTTP server | `server/router.py` | none | `/update`, `/status` | `ConfigDelivery`, `RefreshService` |
| Nudge authentication | `server/hmac_auth.py` | none | `verify_nudge` | `NudgeAuth` |
| SPOG clients | `client/*.py` | none | `pull`, `report`, the mTLS context | outcomes in `RefreshService`, the parse in `ConfigDelivery` |
| Renewal timing | `renewal_timing.py` | none | `DEFAULT_SLOT`, `compute_next_run` | `RefreshService`, `RenewalGate` |
| CLI | `cli.py` | none of its own; reads and writes `config.json` | `status`, `refresh`, `install` | `ConfigDelivery`; its refresh is also a worker of `FlowRunner` |
| Config model | `config/models.py`, `config/constant.py`, `base/models.py` | none | `loads`, `dumps` | `ConfigModel` |
| ACME session, DNS records | `acme/` | account and session; TXT records at the provider | `start`, `issue`, `stop`; create, delete | `DnsChallenge`, without sessions |
| Org config, settings, paths | `org.py`, `settings.py`, `platform_paths.py` | constants | lookup | no |
| Startup, bases, X.509 helpers | `base/startup.py`, `base/abstract/`, `x509/ca.py` | none | parsing, building | no |
| Logging | `logger/` | levels, handlers, queue listener | configure, new loggers, records, shutdown | `AgentLogging`, `RecordPipe` |

**How they interact.** Everything blocking runs in asyncio's default thread
pool. `lifespan` dispatches the boot refresh to it, `/update` dispatches a
refresh for each accepted nudge, and the scheduler submits daily jobs to it.
All of these call into the one `RefreshService` object, and through it write the
same files. No lock is taken anywhere. The CLI's `refresh` is a second process
that writes the same files and the same `config.json`. Log records of all threads go
through one queue to a listener thread.

**What is hard.** Runs of one flow overlap, with each other and with a refresh
for an edited config; a process may die, or a write fail, between the two files
of a pair; jobs are keyed by position in a list that the operator edits; one
exception in the wrong place ends a loop over all flows; and whether a
certificate stays valid is decided by a rounded-down day count that is looked at
once a day. `PROJECT.json` lists each such hazard at its line.

**What makes each part correct.**

- *Flow run*: the certificate and the key on disk are of one issuance; what is
  current is left alone and what is due is replaced; a new pair reaches the
  application.
- *Refresh service and scheduler*: a newer config is not taken back; armed jobs
  end up at the slot of the config held and go on being run; a job runs its own
  flow; one flow's failure does not stop another; a stop comes to an end.
- *Renewal gate*: no certificate runs out between two runs, and none is replaced
  long before it has to be.
- *ACME and DNS*: a challenge record is there, and alone, when the CA looks for
  it, and is removed afterwards; sessions are closed.
- *Nudges and config*: what is accepted was signed within the window, and once
  accepted is not lost; what is written to `config.json` is read back as it was,
  and an older config does not replace a newer one that was there to be seen.
- *Status*: what is shown is what the daemon will do.
- *Logging*: every logger has the level that the settings ask for; a record is
  written once and in order.

## 2. Modules

### FlowRunner: one flow's pair of files (`flows/base.py`)

Workers (threads or processes) each run `CertFlow.run`. A certificate and a key
are abstracted to the serial of their issuance, a file to the serial in it,
`NoFile`, or `Torn` (truncated by `write_text`, not yet written).

| Action | Code |
|---|---|
| `Begin` | `make_runner(...).run()` starts, for some form of the flow |
| `ReadCert`, `Current`, `Renew` | `_up_to_date`: the certificate is read first, the key's existence is asked later |
| `Obtain`, `ObtainFails` | `_obtain` |
| `NamelessFails` | `_write` raises for a flow without a name, after the issuance |
| `OpenCert`, `FillCert`, `OpenKey`, `FillKey` | the two `write_text` calls, each a truncation and a write |
| `HookOk`, `HookFails` | `_run_post_renewal`, whose failure is only logged; a script that fails may have reloaded the application before it did |
| `Interrupted` | a crash, or an exception that leaves `run()` half-way |
| `TimePasses` | a certificate comes within its renewal threshold |

The same flow may be run in several *forms*: the config was edited, or two flows
of the config share a name. `lapsed`, `solo` and `whole` are history variables
that only the properties read: whether a new pair was left without a completed
hook, whether the current writer was overlapped by another, and whether the last
write was finished by a writer nothing overlapped. The system deletes nothing, so
`issued` only grows and `MaxSerial` bounds it.

Abstracted: a write that overlaps another leaves the later one's content (the
longer tail of a longer earlier write is not kept), and `write_text` of a few
kilobytes is one step after its truncation. `_leaf_cert`, which could refuse an
issued chain after it is written, is one of the exceptions of `Interrupted`.

### CertStore: what the files promise

The abstract specification: one value, certificate *with* key, replaced as a
whole, by newer issuances only, and only when some form of the flow has no use
for the one that is there. `FlowRunner!ImplementsCertStore` states the refinement:
`pair` is the key's serial, and while the key is truncated the certificate's, so
that the truncation of the key file is the step that replaces the pair. It holds
of `SerialRuns`, runs that come one at a time and are not cut short. That is what a
lock around `run` would give; the code has none, and the two violation runs
below show what is lost without it.

### RefreshService: the daemon (`refresh.py`, `agent.py`, `server/router.py`, `scheduler.py`, `client/`)

Threads take up refreshes (`waiting`) and submitted jobs (`fired`). One step per
access to what the threads share:

| Action | Code |
|---|---|
| `Boot` | the process (re)starts: memory is gone, the boot refresh is dispatched; a write of `config.json` under way may leave it truncated |
| `Stop`, `Stopped` | `lifespan` shuts the scheduler down without waiting; threads and the refreshes that wait for one still come to their end, as the interpreter joins them |
| `Publish`, `Nudge`, `Fire` | the operator edits the config; `/update`; a daily job is due and, as `max_instances` is 1, not running |
| `Misfire` | `misfire_grace_time`: a job that waited an hour for a thread is dropped by the thread that then takes it up; how long an hour is, is left open |
| `StartRefresh`, `StartJob` | a thread begins; `renew_one` falls back to a refresh when no config is held or its index is past the end |
| `PullOk`, `PullFails`, `Hold`, `Persist` | `refresh` up to its loop: the answer is taken at one moment and held at a later one |
| `RunOk`, `RunFails` | `make_runner(...).run()` within the `try` |
| `Arm`, `ArmRaises` | `schedule_flow_daily`; `CronTrigger` raises for a slot past 143 |
| `Lookup`, `LookupRaises`, `Record` | `next_run_for`, then the assignment to `next_runs`; the job of a scheduler that has stopped has no `next_run_time` to read |
| `Report`, `ReportRaises` | the report is sent or lost; building its client may raise |

`Config` is the sequence of configs the SPOG serves. Flow indices are from 1
here and from 0 in the code. A flow has a type, a name and a slot; the name, which is
"per-host-unique" (`config/models.py:103`), says which flow it is, wherever the list
has it. Two history variables: `heldBefore`, the version held when a pull began, and
`armedFor`, the name of the flow that armed each job last. APScheduler is external and modelled from how `scheduler.py`
calls it: `replace_existing`, `max_instances` 1, one submission at a time per
job, misfires; a job that is added after `shutdown` is only kept (`Parked`). `next_runs`
holds the slot of the next run rather than its date. `StatusRow` is what `/status`
shows of a flow: its handler has read `_config` and `next_runs` at two moments, so
`ShownIsArmed` asks it of every version the handler may have read.

`LoopEndsForCause` is the positive side of the violation `FailuresAreIsolated`: it
names, with nothing left out, what can end a refresh before its last flow.

### JobTable: what the daemon promises of its jobs

The abstract specification: a job has no slot or one that a config served so far
asks for that job, and the next run that `/status` shows of a job is such a slot, of
a job that is armed while the daemon serves. `RefreshService!ImplementsJobTable` maps
a job that a stopped scheduler only keeps (`Parked`) to one that is not armed. Threads,
their positions in the loop and the version each works on are hidden, so the
refinement says that none of what they share shows through: a thread never arms a
job with another flow's slot, and never records for one job what it looked up for
another. That the slots are those of the config *held* is not promised, as a refresh
may arm those of an older one; `Converges` says that this does not last, for flows whose slot is one of the day: a job
that is armed stays at its old slot when an edit gives its flow a slot past 143.

### RenewalGate: the day count (`flows/base.py:147-153`)

One flow seen at its successive runs, in minutes: what is left of its
certificate, the rounding of `timedelta.days`, the threshold
`min(30, lifetime // 3)` or `renew_before_days`, gaps of any given lengths, and
issuances that fail in a row. There are no clocks to bound: only what is left at
each run is kept. `NextRun` is `compute_next_run` as `cli.py:63` calls it, with now
in place of the issuance. Its third is a third of what is left, while the gate takes
a third of the lifetime in whole days and at most 30. `EstimateIsDue` compares the
two, for lifetimes under 93 days, where the 30 does not bite. `NeverEarly`: whenever
`status` is asked, the gate finds the certificate due at the time it names. How much
earlier that was grows with the age of the certificate: with 45 of 90 days left `status`
names the day when 15 are left, and the gate renews at 30. `OnTimeWhenNew` is the other
side, where the two agree: of a certificate just issued the gate still skips a day, and
the CA's backdating, earlier.

### DnsChallenge: the records of ACME orders (`acme/acme.py`, `acme/dns/factory.py`)

Workers run `AcmeClient_.issue` for orders of several domains, against one DNS
provider. A TXT value is the order and the domain it was made for. Each request to
the provider is a step, so that the callbacks of two runs interleave between
listing, deleting and creating.

| Action | Code |
|---|---|
| `Begin` | `start()` and `create_order` have succeeded; the CA may still hold some domains valid |
| `SetUp`, `Delete`, `Create` | `_create_record`: list the name, delete what was listed, create |
| `CleanUp`, `Delete`, `Cleaned` | `_delete_record`: list the name, delete what was listed |
| `Raise` | a request fails: `DnsAuthError`, `DnsRecordError`, or an error of the CA |
| `CreateUnsure` | the record is created and the request fails all the same (a lost answer) |
| `Check` | external: the CA looks for the order's own value among those at the name |
| `Finalize` | `finalize_order`, `get_certificate`; `stop()` |
| `GiveUp` | the exception leaves `issue()`, or the process dies, before everything is cleaned up |
| `Tidy` | external: somebody removes a record that no run owns any more |

The code hands its two callbacks to the ACME library, and when the library calls
them is not in this repository. The model leaves the order of set-ups, checks and
clean-ups open, within and across domains, and asks of the library only that it
sets a domain up once, has a domain checked after it was set up, cleans up what
it set up and finalizes when every domain is valid and cleaned up. Properties
that hold under all of these orders hold under the library's.

`NameOf` is what `_relative_name` yields for the library's challenge name of a
domain. A domain and its wildcard have one name, as in the example of
`src/README.md`. `crossed` is a history variable: whether a run with a common name
overlapped this one. `OwnRecord` excepts runs that are crossed and domains that
share their name within the order: there the code does delete a record that is
waited for, and nothing in the repository says that it does not. A challenge value
does not come back, so an order's identifier is used again only when nothing of
the order is left (`Unused`).

Left out: sessions and accounts, `revoke` (never called), the providers' option
dictionaries, DNS propagation (the CA sees what the provider has), and two zones
with one relative name at one provider.

### ConfigModel: what loads and dumps do (`config/models.py`, `base/models.py`)

Operators, no state. A JSON object is a function from its keys. `Parses` and
`ParsesFlow` are false where `loads` raises: a missing key, an unknown type, method
or provider, a list of flows that is null. `Loads` fills defaults in, drops unknown
keys and gives a provider's config its class; `Dumps` is `asdict`, which writes
fields and no classes. `HasRunner` is the choice of `make_runner`. Values that have
another JSON type than their field are left out, except where the code asks for
the type (`Scalar` in place of a flow or of `org`). `ObjectsIn` is the comprehension
that keeps the objects of the list of flows; it is a recursive function of the index,
so that what it does to a list of any length can be proved.

### NudgeAuth: the check of a nudge (`server/hmac_auth.py`)

Operators, no state. Clocks run in ticks, `Resolution` of them to a second, and both
ends cut their time to whole seconds. A signature is the tuple it is made from, so
that only the holder of the secret makes one that verifies. A header that is
missing or not a number is refused as a bad signature is, and has no value here. A host
that was given no secret (`NoSecret`, `b""` in `settings.py:39`) refuses every nudge.

### ConfigDelivery: from an edit to `config.json` (`server/router.py`, `refresh.py:94-112`, `cli.py`)

The composition of `ConfigModel` and `NudgeAuth` with the ends they connect: the
SPOG, the threads of the daemon, and `refresh` commands of the CLI, which are
processes of their own with the same file.

| Action | Code |
|---|---|
| `Publish` | external: an edit, and a nudge signed by the SPOG's clock with one of its secrets |
| `Update` | `/update`: verified, then dispatched; a nudge stays in `nudges`, so it may arrive late, twice, after a later one, or not at all |
| `StartRefresh`, `StartCommand` | a thread takes up `refresh`; `cmd_refresh` |
| `PullOk`, `PullFails` | the answer parses; the SPOG is not reached, or the answer does not parse |
| `Hold` | `self._config = cfg`; a command has a `RefreshService` of its own |
| `Open`, `OpenFails` | `open(path, "w")` truncates; an `OSError` is logged |
| `Write`, `WriteFails` | the text goes into the file, over another one's text if two writers overlap; a full disk |
| `Boot`, `Kill`, `Tick` | external: the daemon crashes and restarts, a command is interrupted, time passes |

`file` is what the `status` command reads: no file, an empty or garbled one (on which
it raises, as `_load_persisted` catches `FileNotFoundError` only), or the text of a
version. History variables: `told`, the newest version that an accepted nudge was
sent for; `lapsed`, whether a refresh has since failed to pull or held an older
config; `written` and `before`, the newest version in the file now and when a refresh
began; `crossed` and `spoiled`, whose writes overlapped and whether the last one was
cut, failed or overlapped. `CleanFileIsRead` and `NudgeNotLost` except exactly what
the code does not prevent: an overlap of two writes, and a refresh that fails and is
not tried again. Flows and reports, which come after `config.json`, are in
`RefreshService`.

### AgentLogging: levels and the way of a record (`logger/logger.py`)

| Action | Code |
|---|---|
| `ConfigureLogging` | `configure_logging`: `dictConfig`, levels for loggers without one, the new logger class, the queue and its listener |
| `GetLogger` | a new name, made by `DefaultLevelLogger` |
| `Log` | a record of some thread passes its logger's level and reaches the root handler |
| `Listen` | the listener thread takes the next entry and hands it to the handlers, or ends at the sentinel |
| `Shutdown`, `Joined`, `ShutdownDirect` | `shutdown_logging`, which sends the sentinel and joins the thread |
| `Exit` | external: the process exits, and the daemon thread with it |

A logger name is the sequence of its parts. `kept` names the loggers that had a
level before and that the settings do not reach: they keep it, those of an earlier
configuration too. The agent configures its logging once, when `agent.py` is imported,
and never shuts it down; shutdown and a second configuration are operations of the
module that nothing calls yet, and are modelled as such. Formats, colors and
`adapter.py`, which prefixes messages, are left out. `ConfigureLogging` is one step: in
the code the root logger is without a handler between `dictConfig` and `addHandler`
(`logger.py:195-248`), which a record could fall into only when logging in direct mode is
shut down and configured again, and nothing does that. In direct mode (`use_queue`
false) a shutdown changes nothing for the handlers, so records after it are written;
that what comes later is not written is said of the queue.

### RecordPipe: what logging promises those who log

The abstract specification: a pipe that is open or closed. What is put in while it is
open is written once and in order, also when it is closed in the meantime; what is
put in while it is closed is dropped; it is not opened again before it has run empty.
`AgentLogging!ImplementsPipe` maps what waits to the records in the queue ahead of the
sentinel (`Owed`), and the pipe is open while a record would be written (`Opened`):
with a queue, from `configure_logging` until the sentinel is sent.

### Module graph

`MCFlowRunner`, `MCRefreshService`, `MCRenewalGate`, `MCDnsChallenge`,
`MCConfigDelivery` and `MCAgentLogging` give the constants values for TLC.
`FlowRunner` instantiates `CertStore`, `RefreshService` `JobTable` and `AgentLogging`
`RecordPipe`; `ConfigDelivery` extends `ConfigModel` and `NudgeAuth`. The theorems are in `FlowRunnerProofs`, `FlowRunnerRefinement` (which
extends it), `RefreshServiceProofs`, `RenewalGateProofs`, `DnsChallengeProofs`,
`ConfigModelProofs`, `ConfigDeliveryProofs` (which extends the one before) and
`AgentLoggingProofs`. Operators whose comment begins with
*Mutant* are deliberate faults, used by no specification: substituted for
the operator they follow they must break a property, which shows that the property
depends on that piece of the code.

## 3. Runs

| Run | Configuration | Shows |
|---|---|---|
| `flow_overlap` | two workers, three forms (internal with hook, external without, nameless), one worker can be cut, 2 issuances | `PairKept`, `ServiceFollowsDisk`, `HandedOver`: overlaps and cuts do no lasting harm once one run writes alone, and no new pair hangs unannounced |
| `flow_serial` | two workers, one at a time, two forms with the same SANs, 4 issuances | `ImplementsCertStore`, `DueIsReplaced` |
| `flow_mixed` | two workers, one form, no cuts | **violated** `PairAtRest`: certificate of one run, key of the other |
| `flow_cut` | one worker that can be cut | **violated** `AcceptedPairMatches`: the gate accepts a new certificate with an old or empty key |
| `refresh_race` | two threads, three flows (one without a slot, one at slot 144) and then none, two boots | `JobsNeedConfig`, `KeepsNewer`; `ShownIsArmed`: `/status` names no next run of a job that is not armed; `LoopEndsForCause`: a refresh leaves flows out only for a refused slot, a lost machine certificate or a stop; `ImplementsJobTable` |
| `refresh_converge` | two threads, a flow whose slot is edited, one boot | `Converges`, `KeepsRunning`, unless the job is dropped as late for ever; `NudgesArm`: nudges arm what a failure left out; `StopDrains`: a daemon told to stop comes to rest |
| `refresh_sink` | one thread, two flows | **violated** `FailuresAreIsolated` |
| `refresh_identity` | one thread, two flows of a type that an edit lists the other way round | **violated** `JobRunsItsFlow` |
| `renewal_gate` | 24, 90 and a minute under 93 days, gaps of 30 minutes and of 23, 24, 25, 48 and 49 hours, up to 3 failures in a row | `StaysValid`, `UsedForTwoThirds`; `EstimateIsDue`: at the time `status` names the certificate is due, and when it is new not long before |
| `dns_records` | two workers, four orders; a domain with its wildcard (one name) and another domain (its own name) | `OwnRecord`, `NoneForgotten`: leftovers of earlier runs are harmless to a run that nothing overlaps, and success leaves nothing behind |
| `config_delivery` | two threads and one command, three versions of which the second does not parse, a SPOG two seconds ahead with a window of one second and clocks of half seconds, a first nudge that may be signed with another host's secret, one restart | `StatusShowsAConfig`, `CleanFileIsRead`, `DiskKeepsNewer`, `NudgeNotLost`, `WindowHolds` |
| `agent_logging` | four loggers in three levels of one tree and another, one with a level of its own; the settings of `agent.py`, overlapping ones with a default level that is not known, and ones without a queue; 4 records, 3 configurations | `LevelsFollow`, `OnceInOrder`, `Drains`, `ShutdownReturns`, `ImplementsPipe` |

**The bounds and why they are enough.** Two workers overlap in every way that
matters to a pair of files, since every hazard is between one writer and the next; a
third only repeats one. Two issuances are what a mixed pair takes, and let one
worker replace what another wrote; `flow_serial` has four so that a certificate is
replaced more than once. Three forms differ in everything a run branches on. In
the daemon, `MaxWaiting` 1 with two threads gives two overlapping refreshes and one
in the queue, or a refresh and a job; a longer queue would only add waiting, as the
pool takes its work in order (the code bounds it nowhere, and what a long one does to
the daily jobs is `Misfire`); two versions give an old and a new config;
two boots give one restart from any state. `MaxGap` of `renewal_gate` is the
longest of its gaps, a misfired job on the day a zone leaves summer time; `MaxMisses`
is a bound of the model, on which `StaysValid` depends through `Margin`, and 24 days are
about the shortest lifetime that has the margin for it. In `dns_records` two runs overlap at one name or are apart at
two, and four orders leave room for the records of two earlier runs beside the two
that are active (`OrderIds` is its bound). Workers and orders are symmetric there;
they are compared for equality only, and all its properties are invariants. So it
is with the threads of `config_delivery`, where two threads and a command overlap as
thread with thread and as daemon with command, three versions put one that does not
parse between two that do, and the three `Moments` are half seconds (1, 3 and 9) that
lie, for nudges sent at any of them by a SPOG four ticks ahead, before the window, at
its two ends, and after it; all other moments, skews and resolutions are in the theorem
`WindowIsKept`. In `agent_logging` four records
are two on either side of a shutdown, and three configurations let each of the
settings follow each of the others; the process exits, so a state without a
successor is no fault there. No other run uses symmetry, and no run a state
constraint: bounds are guards.

**The violations.** Each quotes a comment, docstring or test of the repository
(`PROJECT.json`, `findings`) and is a behaviour of the code as it is:

- two overlapping runs mix a pair, and the mix stays until the certificate is due;
- a run cut between the two files leaves a pair that every later run accepts;
- a report client that cannot read the machine certificate ends the loop over
  the flows (so does a slot past 143);
- jobs are keyed by position, so that after an edit a job may run another flow,
  and the job of a removed flow runs a full refresh every day.

Each has a theorem that says what would be enough to rule it out, or that nothing else
brings it about: `SerialPairAtRest` and `SerialAccepts` (runs that come one at a time and
are not cut short; the gate then needs no comparison of the two files),
`LoopEndsOnlyForCause` (nothing ends the loop but what the run shows and a stop) and
`JobsRunTheirFlow` (edits that leave every flow, by type and name, at its place in the
list are enough).

That a flow whose first run fails gets no daily job is stated from its other side:
`agent.py:58` says that the nudge will retry, and `NudgesArm` shows what that needs,
pulls that succeed again and again.

## 4. Fairness

- `FlowRunner!FairSpec`: weak fairness of each worker's `RunStep`. A thread that
  has started is scheduled by the operating system, and each blocking call of
  `run` has a timeout (HTTP 10 s, hook 120 s). `Begin`, `Interrupted` and
  `TimePasses` are not fair.
- `FlowRunner!SerialFairness` is stronger and hypothetical, for the serial runs
  only: the daily job keeps starting runs (strong, since other workers take turns
  with it) and the CA does not fail for ever (strong fairness of `Obtain`).
- `RefreshService!Progress`: steps under way go on; the pool takes its work in
  order, so a waiting refresh or a submitted job comes to a thread (strong, because
  threads are busy and free by turns), which starts the job or, if it has waited an
  hour, drops it (`Misfire`); the scheduler submits a due job. That a job is not
  dropped for ever is not assumed: nothing in the code limits how many refreshes nudges
  queue before it. `Converges` and `KeepsRunning` have it for a hypothesis, job by job
  (`TakenInTime`).
- `RefreshService!Recovery`: of infinitely many runs of a flow, and of infinitely
  many reports on it, some succeed, flow by flow. `PullOk` needs no such assumption:
  `Converges` speaks of the config held, and `NudgesArm` has it for a hypothesis.
  `Nudge`, `Publish`, `Boot` and `Stop` are not fair.
- `AgentLogging!Spec`: weak fairness of `Listen` and `Joined`: the listener thread and
  the one that waits for it are scheduled by the operating system. Nobody is obliged
  to log, to configure or to exit.
- `ConfigDelivery` has invariants only and states no fairness.

## 5. What is proved

TLAPS checks these for every value of the constants; the assumptions on them are
the named `ASSUME`s of the modules, which TLC evaluates in the runs.

| Theorem | States | Along |
|---|---|---|
| `FlowRunnerProofs!TypeCorrect` | `[]TypeOK` | inductive as it stands: serials only grow, and a worker gets its serial in the step that appends it |
| `FlowRunnerProofs!ServiceFollows` | `[]ServiceFollowsDisk` | inductive given `TypeOK`: the last of several overlapping writers still has its hook to call, or its run lapses |
| `FlowRunnerProofs!PairIsKept` | `[]PairKept` | `PairInv` adds `SoloInv` (a writer named solo is the only writer, and between its two writes the certificate is its own) and that no worker is writing while `whole`; `PairKept` alone does not say what a lone writer has already written |
| `FlowRunnerRefinement!SerialRunsImplementStore` | `SerialSpec => ImplementsCertStore` if every form is named | `SerialInv` places the single run: between the gate and the key's write the pair on disk is one the gate had no use for, and the serial held is the newest; then each step maps to a step of `CertStore` or a stutter |
| `FlowRunnerRefinement!SerialPairAtRest`, `SerialAccepts` | `SerialRuns => []PairAtRest` and `AcceptedPairMatches`, if every form is named | the same `SerialInv`: when no run is in the middle, and whenever a gate reads, both files are of one issuance |
| `RefreshServiceProofs!TypeCorrect`, `JobsHaveConfig`, `NewerIsKept`, `ShownHasJob` | `[]TypeOK`, `[]JobsNeedConfig`, `[]KeepsNewer`, `[]ShownIsArmed` | one invariant `IInv`: `Placed` (a thread at a flow is at an index of its own config), `Fresh` (what is held was served before, so a pull cannot return less), `ConfigInv` (whoever arms or fires comes after a `Hold`), `ArmedInv` (a thread that looks up or records has armed its job, and while the daemon serves no job is taken away) |
| `RefreshServiceProofs!LoopEndsOnlyForCause` | `LoopEndsForCause` | `LoopInv` (a thread has an index only at a flow) places the steps that can end a loop; `ArmedInv` of `IInv` says that while the daemon serves a lookup finds the job armed, so that a lookup ends a loop only after a stop |
| `RefreshServiceProofs!JobsRunTheirFlow` | `[]JobRunsItsFlow` if edits leave each flow, by type and name, at its place in the list (`SameFlows`) | `ArmedForInv`: a job that is armed or submitted was armed for the flow that every version has at the job's position; then what `StartJob` finds there is that flow |
| `RefreshServiceProofs!DaemonImplementsJobTable` | `Spec => ImplementsJobTable` | `TableInv`: what is armed, and what a thread has looked up and not yet recorded, is a slot that a version served so far asks of that job, and nothing is armed while the daemon is down; times only grow (`TimesGrow`); then each step maps to a step of `JobTable` or a stutter |
| `DnsChallengeProofs!TypeCorrect` | `[]TypeOK` | inductive: callbacks start for a domain of the order |
| `DnsChallengeProofs!OwnRecordStands` | `[]OwnRecord` | `OwnInv` adds `Apart` (a run that is not crossed shares no name with an active one) and `Emptying` (what is at the name it sets up is what it has still to delete), so that its creation leaves exactly its record |
| `DnsChallengeProofs!NothingForgotten` | `[]NoneForgotten` | `LeftInv` adds `Distinct` (orders tell runs apart), `Placed` (a record is at its domain's name) and `Cleaning` (a run that cleans up has listed its own record if that is there) |
| `DnsChallengeProofs!LoneRunsPass`, `SuccessIsClean` | no check fails for want of the record in a run that is alone at its names; a run that finalizes leaves no record of its order | what `OwnRecord` and `NoneForgotten` mean for the steps `Check` and `Finalize` |
| `RenewalGateProofs!NeverRunsOut` | `[]StaysValid` | `Reserve`: what is left covers the failures still to come and a late run after each; the margin it needs is the hypothesis `Margin` |
| `RenewalGateProofs!DefaultSuffices` | the default threshold gives `Margin` for lifetimes from three days and runs less than two days apart, if none fails | arithmetic of rounded days |
| `RenewalGateProofs!RenewsInLastThird` | `UsedForTwoThirds` | what a renewing run found: at most `threshold` whole days |
| `RenewalGateProofs!EstimateMeetsGate` | `[]EstimateIsDue` | a third of what is left is at most a third of the lifetime, in whole days too, and of a new certificate less than that by a day and the backdating at most |
| `ConfigModelProofs!FlowRoundTrip` | for every payload of a flow that parses: what `dumps` writes of it parses, and `loads` gives the same flow | `ProviderRoundTrip` and `ExternalRoundTrip` bring the classes of the bodies back; `ConstructAgain` says that filling defaults in twice is filling them in once |
| `ConfigModelProofs!ConfigRoundTrip` | the same for a whole config | `ObjectsIn` keeps objects only, and all of a list that has only objects: were there an index at which it does not, the least such number (`LeastNumber`) would contradict the step that defines it |
| `ConfigModelProofs!DefaultHasRunner` | a flow without a method gets one that `make_runner` builds | the two defaults are the two runners |
| `ConfigDeliveryProofs!TypeCorrect` | `[]TypeOK` | inductive: only what parses is pulled, held and written |
| `ConfigDeliveryProofs!CleanFile` | `[]CleanFileIsRead` | `FileInv`: a writer that is not crossed is the only writer, and its file is empty |
| `ConfigDeliveryProofs!StatusIsSound` | `[]StatusShowsAConfig` | `TypeOK` says that the file holds the text of a version that parses, and `ConfigRoundTrip` what reading it gives |
| `ConfigDeliveryProofs!NewerStays`, `NudgeKept` | `[]DiskKeepsNewer`, `[]NudgeNotLost` | inductive given `TypeOK`: nothing newer than `served` is written or told, and a pull returns `served` |
| `ConfigDeliveryProofs!WindowIsKept` | `[]WindowHolds`, for any skew, window and resolution, and for a host without a secret | `Signed` (a nudge carries the rounded time of its sending and the secret that signed it) and `SecondsFollow`: rounding both clocks moves their difference by less than a second |
| `AgentLoggingProofs!LevelsAreResolved` | `[]LevelsFollow` | inductive: `ResolveOwn` (a configured name resolves to its own level), and a logger that has no level after `dictConfig` is given the resolved one |
| `AgentLoggingProofs!LoggingTypes`, `RecordsOnceInOrder` | `[]TypeOK`, `[]OnceInOrder` | `PipeInv`: what is written, and after it what is queued, ascends, with one sentinel at most (`InOrder`); the late records are those behind the sentinel and those queued when no listener runs (`Sorted`); a record that is not late is written or on its way (`NoneLost`); without a queue nothing is queued (`Direct`) |
| `AgentLoggingProofs!LoggingImplementsPipe` | `Spec => ImplementsPipe` | `OwedIs` fixes where the owed part of the queue ends; then one lemma per operation maps it to a step of `RecordPipe` or a stutter |

`SerialRunsImplementStore` needs the forms to be named: a nameless flow is issued
and then refused, so that its issuances have nothing to do with the pair.

`FlowRoundTrip`, `ConfigRoundTrip` and `StatusIsSound` assume that `Null` is not a
function, and the last two that `Scalar` is none either: JSON's null, numbers and
strings are no objects, and TLA+ leaves open whether a string is a function.
`ConfigRoundTrip` asks besides that "flows" is a list or null (`HasList`), which
`DeliveryAssumption` says of the payloads of a run. `SameFlows` is a hypothesis about the
edits an operator makes, not about the code: edits of slots, SANs and hooks meet it; one
that adds, drops, moves or renames a flow does not. It is enough, not needed: an edit
that appends a flow does no harm to the jobs of those before it.

Only model-checked: the liveness properties (`HandedOver`, `DueIsReplaced`,
`Converges`, `KeepsRunning`, `NudgesArm`, `StopDrains`, `Drains`,
`ShutdownReturns`), since the prover has no rule for fairness and `ENABLED`; and
the violations, which are counterexamples. Every other property of a passing run is
a theorem. The induction over the list of flows in `ConfigRoundTrip` goes through a least
number, as the library's induction theorems take an operator for a parameter, which the
provers cannot instantiate.

## 6. Not modelled, and why

- Payloads of reports, log lines, certificate fields beyond SANs and validity. File
  modes and directories. What the SPOG makes of two reports with one key (they carry
  the flow's type and neither name nor time) is decided by its code, which is not here.
- `schedule_flow`, the one-shot trigger, `install`, which writes a unit file once, and
  `revoke`: the first and the last have no caller.
- The CLI's `status` beyond what it reads of `config.json` and estimates: what it prints of a
  certificate on disk.
- The MAC itself, TLS and X.509: assumed.
- Org config, settings, paths, startup, X.509 helpers: constants or pure building
  with a library, without state over time.
- ACME sessions and accounts; the providers' option dictionaries.

Two remarks on `logger.py`, which no property is about: `dictConfig` gives the root
logger no handlers when there is a queue, so that the fallback of lines 258-268
("shouldn't happen") is what always runs, and the log file gets the plain format
there, where the comments at lines 130 and 175 say that it is colored. And a level
that one configuration gave stays when the next one does not name the logger or one
above it: levels are set where there are none.

## 7. Plan

Done: `FlowRunner` with `CertStore`, `RenewalGate`, `RefreshService` with `JobTable`,
`DnsChallenge`, `ConfigModel` and `NudgeAuth` with `ConfigDelivery`, and
`AgentLogging` with `RecordPipe`, with their runs, and the theorems of section 5. What is left:

1. The daily slots and `DnsChallenge` together: `scheduler.py:57-58` expects slots
   to keep the runs at shared names apart. `OwnRecord` shows what an overlap costs, and
   `Converges` that slots are those of the config; whether a run ends before the next
   slot begins is a matter of durations, which neither module has.
2. An abstract specification for `DnsChallenge`: a record per authorization under way.
