# LocalObserve in TLA+

LocalObserve is an observability and detection stack for one machine: containers
(OpenObserve, the OpenTelemetry collector, Falco, osquery, rsigma) configured by
files in the repository, and a set of host-side Python and shell programs that
feed, administer and audit the stack. The containers are other people's programs.
The repository's own logic is in the host-side programs, and these
specifications are about them: what each keeps on disk, what it does to it and in
which order, and what happens when two of them overlap, or one dies or loses a
request half way.

Contents: [inventory](#inventory) · [modules](#modules) ·
[runs](#runs-what-is-checked) · [fairness](#fairness) · [proofs](#proofs) ·
[findings](#findings) · [limits](#what-is-abstracted-and-what-is-not-modelled) ·
[what is left](#what-is-left) · [running it](#running-it)

## Inventory

| component | source | state it keeps | operations | module |
|---|---|---|---|---|
| **Zed agent observer** | `tools/zed_agent_observer.py` | `zed-observer-state.json`; `self.state` in memory; one batch queue per session | scan, emit, flush, checkpoint, run loop, start, close | `ZedObserver` |
| **Observer supervisor** | `scripts/zed-agent-observer.sh` | pid file | start, stop, restart, status | `ObserverSupervisor` |
| **Just-in-time access** | `tools/compliance_rbac_jit.py`, `systemd/localobserve-jit-audit.*` | the JIT ticket file; users in OpenObserve | `grant`, `audit` (hourly timer and by hand), `export-cisa-fbi` | `JitAccess` |
| **CALDERA harness** | `tools/caldera_otel_harness.py` | a clone, directories in `/tmp`, the user's `~/.bash_history` | bootstrap, load, stage, execute, verify, report | `CalderaHarness` |
| **Audit ledger** | `tools/compliance_audit_ledger.py` | hash-chained JSON ledger | audit (append a block), verify | `AuditLedger` |
| **Alert bridge** | `alerts/webhook/notify.sh`, `tools/desktop_notifier.py`, `tools/alert-watcher.sh` | directory of alert files | write an alert, show and delete it, watch and move it | `AlertBridge` |
| **Threat-intelligence sync** | `tools/sync_threat_intel.py` | per-source text and cache, three merged files | fetch, fall back to the cache, merge | `ThreatIntelSync` |
| **Sigma rule curation** | `rules/sigma/manage_rules.py` | `active_rules/` | empty, compile, validate | `SigmaCuration` |
| **Benchmark budgets** | `tools/bench_stack.py`, `bench_compare.py` | samples, a baseline report | sample, summarise, check the budgets, compare | `BenchBudgets` |
| **OpenObserve GitOps** | `tools/oo_alerts.py`, `scripts/add_agent_alerts.py`, `tools/import_dashboards.py` | alerts and dashboards in OpenObserve, their JSON in the repository | export, import, add | `AlertGitOps` |
| Kill switch | `tools/kill_switch.py` | none of its own | look an agent up, run its stop command | – |
| Health monitor | `tools/health-monitor.sh` | none between runs | one pass of checks | – |
| Data migration, runtimes | `scripts/migrate-openobserve-data.sh`, `runtime-compose.sh`, `verify-runtimes.sh` | legacy directory, named volume | stop, copy, start | – |
| Agent telemetry drivers | `tools/agent_*.py`, `check_agent_stream.py`, `trigger_alerts.py` | none | emit test telemetry, count it | – |
| Rulehound import | `scripts/import_rulehound_*.py` | none | one-shot conversions | – |
| File prescan | `tools/magika_prescan.py`, `parse_scanner_results.py` | none | classify, parse | – |
| Collector, rules, dashboards | YAML and JSON | declarative | – | – |
| Reports and importers | `scripts/gen_*`, `scripts/parse_mitre_stix.py`, ... | none | one-shot conversions | – |

How they meet. The observer reads a SQLite database Zed writes and sends logs to
the collector. The JIT commands, the harness and the GitOps tools speak to OpenObserve
over HTTP and share files with other runs of themselves (a systemd timer and an
operator, tests that retry). The supervisor script starts and stops the observer with
signals: `ZedObserver!Killed` is what it does to the process, `ObserverSupervisor` is
how it chooses which. rsigma's webhook, the desktop notifier and the watcher meet only
through files in one directory, and are composed in `AlertBridge`. Nothing in the
repository takes a lock: every shared file is read, changed and written by
unsynchronised processes.

What is hard, and what correctness means:

* **Observer** - Zed writes between the scan's two SELECTs; a flush fails with
  records still queued; a save fails after memory changed; the process dies
  anywhere. Correct: a call is not checkpointed unless it was exported (or is history on
  purpose); a checkpointed call is not exported again; a thread is skipped only
  if it has nothing new; history is never replayed; calls are handled eventually.
* **Supervisor** - two commands at once; an observer that dies and whose id is given to
  another program; a stop that gives up; Ctrl-C anywhere. Correct: one observer at
  most and the file names it; no other program is killed.
* **JIT access** - read-modify-write of a truncated-then-written file by any number of
  processes; requests that take effect without an answer; tickets that share
  a user; commands killed between the request and the ticket. Correct: a
  ticket that is closed is over; an expired one is closed; expired access ends.
* **CALDERA harness** - an ability truncates the user's real shell history; runs time out,
  are killed, or overlap; searches fail after the ability ran. Correct: the history is never
  without a copy, `/tmp` is clean after a result, exit code 0 is earned.
* **Ledger** - two appends; a rewrite cut short; edits by hand. Correct: nothing is appended
  to a chain that does not verify, no crash looks like tampering, committed blocks stay.
* **Alert bridge** - ids of one millisecond, half-written files, two consumers
  of one directory. Correct: an alert written is shown.
* **Threat intelligence** - three writes per run of which one fails; cached lists that are
  parsed again. Correct: an outage loses nothing, and the merged files agree.
* **Curation** - deletes before it rebuilds. Correct: what the policy disables is gone, and a
  curation that went through is complete.
* **Budgets** - counters that go backwards, rates divided twice. Correct: the verdict is the
  one the documented rates give.
* **GitOps** - lists read once, answers lost, stream names mapped in both directions. Correct:
  repeating an operation creates nothing twice and repairs what was left half done.

`PROJECT.json` lists these components with their status and, under `hazards`, each
hazard at its line with the properties that cover it.

## Modules

| module | is |
|---|---|
| `ToolCallExport` | what an observer of tool calls promises: at-least-once export, none after a call is settled, nothing settled unexported once the baseline is complete |
| `ZedObserver`, `ZedObserverProofs` | the observer, Zed and the batch processors; theorems, and that it implements `ToolCallExport` |
| `JitAccess`, `JitAccessProofs` | the `grant` and `audit` commands, their file, OpenObserve's users; theorems |
| `CalderaHarness`, `CalderaHarnessProofs` | `run-ability` with all its options, the history file, Falco's events; theorems |
| `AuditLedger`, `AuditLedgerProofs` | both ledger commands over the unlocked file; theorems |
| `ThreatIntelSync`, `ThreatIntelSyncProofs` | fetch, fallback, merged files; theorems |
| `SigmaCuration` | the rebuild of `active_rules` |
| `AlertBridge`, `AlertBridgeProofs` | webhook, notifier and watcher over one directory; theorems |
| `ObserverSupervisor`, `ObserverSupervisorProofs` | the script, the pid file and the processes; theorems |
| `BenchBudgets` | one benchmark |
| `AlertGitOps` | `import`, `export` and the addition of the agent alerts |
| `MC_ZedObserver`, `MC_JitAccess`, `MC_CalderaHarness`, `MC_SigmaCuration`, `MC_HostTools` | instances for TLC |
| `HostTools`, `HostToolsProofs` | the seven remaining tools as one specification, see below; theorems about the curation, the benchmark and the GitOps commands, and every safety theorem of the seven carried over |

Operators labelled "faulty X" are variants of definition X as a plausible bug would
leave it. No specification uses them. Each is listed in `PROJECT.json` under
`mutants` with the property that must fail when it takes X's place, which shows
that the property depends on that code.

### ZedObserver

| variable | in the code |
|---|---|
| `writtenAt`, `gone`, `result`, `writes` | Zed's `threads` table: `updated_at` per row, deleted rows, what the stored JSON shows of each call |
| `file` | the state file: `baseline_complete`, `updated_at` per thread, `emitted_tool_ids` |
| `mem` | `self.state` |
| `pc` | where the process is: `down`, sleeping in `run`, in the loop over rows, at `sink.flush()`, at `_save_state()` |
| `scan` | `initial_scan`, and the rows of `metadata` still to visit with the `updated_at` fetched at the start |
| `work` | the locals of one loop iteration: the thread, `updated_at`, the new ids, `export_calls` |
| `queue`, `delivered`, `dropped` | records in the batch processors, at the backend, discarded by the exporter |
| `history` | ghost: calls checkpointed without export |

| action | in the code |
|---|---|
| `Start` | constructor and `_load_state` |
| `BeginScan` | the flag, the connection, `SELECT id, updated_at` |
| `SkipThread` | unchanged `updated_at`; second SELECT finds no row |
| `ReadFails` | `_decode_thread` or the second SELECT raises: `run` logs it and sleeps |
| `EmitThread` | second SELECT, extraction, the loop that emits the new calls |
| `FlushSucceeds`, `FlushFails` | `sink.flush()`; on `False` the `RuntimeError` leaves `scan` |
| `CheckpointThread`, `EndScan` | the entry, or the baseline, into `self.state` **and** `_save_state`, which may raise after memory has changed |
| `BackgroundExport` | the batch processor's own thread (500 ms schedule) |
| `Killed`, `Closed` | SIGTERM from the supervisor script; an interrupt, or `--once`, whose `finally` shuts the providers down and so exports what is queued |
| `NewThread`, `NewCall`, `FinishCall`, `DeleteThread` | Zed and its user (external) |

Three moments are kept apart on purpose: `updated_at` is fetched when the scan
begins, the data when the thread's turn comes, and the entry is written after
the flush. Zed may write between any two.

### JitAccess

| variable | in the code |
|---|---|
| `user` | the users OpenObserve has: `absent`, `ordinary`, or `jit` (created or elevated by a grant) |
| `file` | the ticket file: empty, text that does not parse, or a ticket list |
| `pc`, `exists`, `copy`, `due`, `revoked` | each command's program counter and locals |
| `provisioned`, `expired` | a ticket's flag; tickets whose `expires_at` has passed |
| `elevated` | ghost: grants whose request took effect, answered or not |

`BeginGrant`, `Provision`, `LoadForGrant`, `Truncate`, `Write` are `handle_grant`;
`BeginAudit`, `Revoke`, `RevokeFails`, `EndLoop`, `Truncate`, `Write` are
`handle_audit`. `save_jit_tickets` is two steps because `open(..., "w")` empties the
file before `json.dump` fills it, and a second writer's longer text can stick out
behind a shorter one. A request may fail, or take effect and lose its answer.
`Crash` ends a command at any point.

### CalderaHarness

| variable | in the code |
|---|---|
| `repo` | `.data/caldera`, as `is_dir` and the glob for abilities see it |
| `history` | `~/.bash_history`: there or not, and its lines |
| `pc`, `ability`, `options` | a run's place in `handle_run_ability`, `execute_ability` and below; its command line |
| `temp`, `saved`, `restored` | its staging directory, home and backup; `history_existed` and the backup's text; did the cleanup command succeed |
| `span`, `event` | its span and Falco's event on their way to being searchable |
| `window`, `found` | the time range of its log query, fixed before it polls; what the queries found |
| `outcome` | the exit code and the reason |
| `crossed`, `littered` | ghosts: avoid-logs runs that another one overlapped or came after; runs whose `rmtree(ignore_errors=True)` left something |

`Bootstrap` ... `EndCheckout` are `bootstrap_caldera_repo` with clones that are cut short;
`LoadAbility`, `Stage`, `PrepareShell`, `Execute`, `CommandTimesOut`, `Restore`,
`RestoreFails` and `Flush` are `execute_ability` up to its span's end; `TraceFound` ...
`LogsTimeOut`, `SearchFails` the two verifications; `Report` the `finally` clause and
the exit code. `Type` is a shell of the user's that exits and appends its history, `Kill`
the caller's timeout.

### AuditLedger

`status`, `chain` and `size` are the file: absent, text that does not parse, or a list of
blocks, and how much text lies in it, since `save_ledger` truncates it (`Truncate`) and then writes
(`Write`), and a shorter text written over a longer one does not parse (`Spliced`).
`ledger` and `hashes` are an audit's locals. A hash is the tuple it was computed from
(`Sha256`): different payloads have different hashes. `BeginAudit` loads and verifies,
`HashFile` reads the configuration files one at a time while they `Change`, `AppendBlock` or
`MissingFiles` ends the loop, `Check` is `verify`, `Crash` cuts a write short, and `Edit` is somebody
who changes a block by hand.

### AlertBridge

`files` is the directory, a name maps to the alert its text is about or to nothing (no
complete text). `Open` and `Fill` are `notify.sh`'s redirection and its `cat`. The
notifier's locals are `seen`, `current`, `fresh`, `rest`, `at`, `raw`: `Poll` lists, `NextFile`
goes to the next new file, `Read` reads it after its 50 ms, `Send` or `SendFails` is `notify-send`,
`Unlink` the `finally`, `EndPass` computes `seen_files`. `Watch` and `Move` are `alert-watcher.sh`, with its
five seconds between. Both scripts go on when `notify-send` fails (`NotSent`): the one deletes and the other moves the
file all the same. `linked` says which script still has the file open that a name means: one that has
been deleted is written in vain. `unsent` (a notification of the alert failed), `hurried` and `backlog` are ghosts for
the properties.

### ThreatIntelSync

`txt`, `cache`, `merged`, `falcoList` and `watching` are the files; `step`, `next` and `data` a run's
locals. A list is a set of kinds of indicators, told apart by what the conversions make of
them: without a comma, with one, and what is left of the latter when its cached line is
read as CSV again (`Reread`). `Fetch`, `FetchFails` and `CacheWriteFails` are one turn of `collect`'s
loop; `FallBack` is its `except`, and `TextWriteFails` is the way into it from a text file that cannot be
written. `Killed` leaves the file under the pen empty.

### SigmaCuration

`active` is the directory rsigma watches; `Begin` loads the policy, `Clean` empties the
directory, `Skip` and `Compile` treat one rule file each, in any order as `os.walk` does not
promise one; `Validate` reads without changing. `EditPolicy`, `Drop` and `Kill` are people; `KillInClean`
cuts the `rmtree` short and leaves any part of the old rules.

### BenchBudgets

`counter` is a container's write counter, which starts over when it restarts and is out of reach
when it is replaced, as ids are read at the start. `first`, `last`, `ramMax` are what `summarize` keeps;
`written` is a ghost: what was really written between the samples. `Check` is the rewriting of the
windows in `main` and `check_budgets`, both divisions by the minutes included (`RateExceeds`), for windows shorter
than a minute and longer; the second division is by a second at least (`Divisor`), and a duration of zero takes no sample.

### AlertGitOps

`store` is OpenObserve, `alerts` the committed file. An import reads the list of existing
alerts once (`SetupDestination` with `ListAlerts`), then `ImportAlert` or `ImportAlertFails` puts or posts one alert at a time;
an export fetches one at a time and then writes. A request that fails may have had its effect. `Payload` and
`CleanAlert` are the two renamings of the stream, SQL included.

### ObserverSupervisor

| variable | in the code |
|---|---|
| `process` | what each process id names: nothing, the forked script, the observer, an observer with SIGTERM on its way, another program |
| `pidFile` | the text of `zed-observer.pid` |
| `pc`, `pid`, `restarting` | an invocation's place, its local `pid`, and whether `start` follows |
| `tangled` | ghost: commands overlapped, or a start was cut off before its observer ran and was recorded |

`Running` is `running_pid` (the file names a process and `ps` shows the observer's command line).
`set -e` makes a failing `stop` end a restart (`Aborts`). Assumed of the outside: an id a command still
holds in its variable is not given to another process meanwhile (`Held`: ids come round late), and
the background process has executed the observer, or died, within `start`'s second.

### HostTools

Seven tools that share no file and no process. `part` chooses in the initial state which one a
behaviour is about; the others stay as they were started. So TLC explores each tool with all of
its own interleavings, and not their product, which says nothing. The module EXTENDS
`AuditLedger` and INSTANCEs the other six; its constants are theirs, under the same names but for four that
would clash, and the properties are the modules' own, renamed. `MC_HostTools` gives the constants their
values.

## Runs: what is checked

| run | properties | shows |
|---|---|---|
| `zed_safety` | `TypeOK`, `HandledIsAccountedFor`, `LevelThreadIsHandled`, `HistoryIsNeverExported`, `CheckpointedIsNeverReexported`, `StateFileOnlyGrows`, `HistoryIsClosed`, `ImplementsPromise` | no interleaving with Zed, failed flush, read or save, or stop loses a call or exports a settled one; the observer implements `ToolCallExport` |
| `zed_liveness` | `EveryCallHandled` | every call of a readable thread is handled while an observer goes on running |
| `zed_backfill` | `BackfillSkipsNothing` | with `--backfill-existing` nothing is settled unexported, first scans cut short by an unreadable thread included |
| `jit_tickets` | `TypeOK`, `ClosedTicketsAreOver`, `OverdueTicketsAreClosed` | whatever interleaves, a closed ticket is over, and expired tickets the file holds are closed for good |
| `caldera` | `TypeOK`, `HistoryIsKept`, `TempIsRemoved`, `VerdictIsTrue` | two harness runs: kills and timeouts lose no history (of runs that no other avoid-logs run crosses, up to a report without a restoring cleanup), nothing staged outlives a result unless its removal fails, exit code 0 is earned |
| `host_tools` | ledger: `TypeOK`, `OnlyVerifiedChainsGrow`, `NoFalseAlarm`, `CommittedStays` | a broken chain is never extended; crashes raise no alarm; audits one at a time lose no block |
| | sync: `IntelFilesAgree`, `WatchedFilesExist`, `OutageKeepsIndicators` | outages empty no list, the merged files agree, osquery watches only files that are there |
| | curation: `DisabledRulesAreOut`, `CurationIsComplete` | after any kills and policy changes |
| | benchmark: `FailureIsReal`, `ShortPassIsReal` | no false failure in a minute or more, and no false pass in a minute or less without restarts |
| | GitOps: `QueriesNameTheStream`, `FileAndStoreAgree`, `NamesAreUnique` | any sequence of exports, imports and additions, one failed request |
| | bridge: `NothingElseIsLost`, `AlertsReachTheDesktop` | an alert is lost in four named ways alone, and otherwise shown in the end while a notifier keeps running |
| | supervisor: `SingleNamedObserver`, `StopSparesOthers` | one observer that the file names; no other program is killed |
| | all: `ToolsTypeOK` | |
| `zed_duplicate`, `zed_status`, `zed_poison`, `jit_lingering`, `jit_phantom`, `sigma_dropped` | one each | expected to fail: see [findings](#findings) |

Bounds, and why they are enough for these questions:

* Observer: two threads, three calls of which two share a thread (two in all for
  the liveness runs), three writes by Zed, one failure, one death. Two threads are the least for
  a scan that fails *between* threads, two calls in a thread the least for a
  checkpoint with some ids and not others. Three writes make a thread, add to it and
  change it again while it is in work. One failure is any of a failed flush, save
  or read; one death and a restart meet every step. `MaxWrites`, `MaxFailures`
  and `MaxDeaths` are in the guards, and the theorems hold for every value of
  them. In `zed_safety` results are left out (`Outcomes = {}`): the code treats a call
  by its id alone; `zed_backfill` and `zed_status` have them.
* JIT: two grants to the same email (a shared user is the hard case), two auditors (timer and
  operator), one failed request, one crash. `jit_lingering` uses two emails so that
  no second ticket can revoke the first user.
* Harness: two runs, each with any of five command lines (the four the tests use, and avoid-logs with
  `--cleanup`), one history line, one failure and one kill anywhere. Runs are symmetric.
* Ledger: three audits (two that overlap and one that finds the result), one `verify`, one
  configuration file, one change, one edit, one crash.
* Sync: two syncs, a source of each kind of conversion, one change of a feed, one
  fault. Network failures are not bounded.
* Curation: four rule files, two of one name and one that does not parse; four policies, one that
  does not load; two curations, one policy change, one kill.
* Benchmark: two services that may write 2 MiB and 1 MiB a minute and 2 MiB as a stack, one of them with no memory
  to spare; nothing, half a minute, a minute and one and a half; up to 2 MiB, two samples, one restart: enough for a rate
  exactly at, below and above a budget, of one service or of both together, and for both errors of the
  second division - half a minute in which 1 MiB is within a budget of 2 and comes out as 4 a minute, one and a half minutes
  in which 2 MiB are more than a budget of 1 and come out as 0.9. Windows under a second, where the divisor no longer follows, are left to
  the theorems.
* GitOps: a file of two alerts, one to add, three ids; three commands, one change by somebody
  else and one failed request.
* Bridge: two alerts in one millisecond or in two, one notification of either script that fails, one stop.
* Supervisor: two invocations side by side, each any number of times, and two process ids. There is no bound
  on deaths or on reuse: the state space is finite without one.

Deadlock is not checked: Zed may stop writing, an observer may stay down, no
command need be run, and each bounded command ends. The theorems and the liveness
properties say what may not stop.

## Fairness

* `ZedObserver!FairSpec` has weak fairness of `Scan`: `run` loops with a sleep and
  catches every exception, so a live process goes on. It is fairness of the loop as a
  whole, not of a successful flush: outages end because `MaxFailures` bounds them.
  Nothing obliges Zed, its user, the background thread or whoever starts the
  process; a process that is down excuses the property.
* `JitAccess!FairSpec` has weak fairness of each started grant (a command runs on until it
  ends or crashes) and of each auditor, of which the timer stands for
  `OnUnitActiveSec=1h` with `Persistent=true`. No grant has to be started, and no request has to
  succeed beyond the bound on failures.
* `AlertBridge!FairSpec`, and `HostSpec` for it, has weak fairness of the loop of a running notifier
  (`Notify`): it polls every second and waits for nothing but `notify-send`, which is taken to
  return. It is started by hand (`task notify-desktop`), and nothing in the repository starts it or starts it again: `StartNotifier`
  is under no fairness, and `AlertsReachTheDesktop` speaks of behaviours in which some notifier is not stopped any
  more. Neither the webhook nor the watcher has to take a step.
* The other tools are commands people run; nothing is claimed of them but safety, under no fairness.

## Proofs

All theorems are for every value of the constants. The named assumptions are
those of the modules (`ThreadAssumption`, `OutcomeAssumption`, `FlagAssumption`,
`BoundAssumption`, `CommandAssumption`, `LedgerAssumption`: constants have their
types, `NoThread` is no thread, grants are not auditors, audits are not checks), and in
the bridge's and the sync's theorems the hypothesis `Assumptions` (file names are numbers
other than 0; the sources are a list; bounds are numbers). The supervisor's theorems need none. `HostTools`
names what its parts need: `IntelAssumption` and `BridgeAssumption` are those two hypotheses;
`SigmaAssumption` says that the committed policy is a policy somebody may write; `BenchAssumption` that
there are finitely many services, and that budgets, durations and the second are whole numbers of units, which may
be as small as one likes; `GitOpsAssumption` that the committed `alerts.json` has no two alerts of one name and
uses the repository's name of the stream, and that there are finitely many agent alerts.
TLC evaluates all of them on the instances of the runs.

In each proof module lemmas by action, or by part of the invariant, show that a step preserves `IInv`
(`SigmaInv`, `BenchInv`, `GitOpsInv` in `HostToolsProofs`), one more puts them together, `Invariance` is `Spec => []IInv`, and the other
theorems follow from it, with a step lemma for the action properties.

**Observer**: `TypeCorrect`, `NothingIsLost`, `SkippingHidesNothing`, `NoReplay`,
`NoExportAfterCheckpoint`, `FileMonotonic`, `HistoryCloses`, `BackfillExports`, and
`Implements` - the refinement of `ToolCallExport`, steps and initial states. That is
every safety property of the passing observer runs. None of them is inductive: whether
a call is lost depends on what is in memory but not on disk, and in a queue but
not delivered. `IInv` relates the four places a call can be in:

* `MemoryInv`: memory is at least the file; a scan's `initial_scan` agrees with memory;
* `QueueInv`: a queued record is of a call memory does not have yet - so nothing
  queued was checkpointed, which is why a failed flush and the later background
  export of its records never export a checkpointed call;
* `WorkInv`: at the flush each new call is received, dropped or queued; after it,
  received or dropped, and none is queued;
* `CheckpointInv`: what memory has and the file lacks was exported, or there is no baseline;
* `HistoryInv`: history is checkpointed or will be met by another first scan, and
  a first scan does not end without visiting it;
* `ClockInv`: `updated_at` only grows, and an entry level with the database has all the
  thread's calls - the reason the early fetch of `updated_at` is safe: the
  checkpoint claims an older version than the data it holds, never a newer one.

**JIT**: `TypeCorrect` and `ClosedIsOver`. Since any stale copy may be saved
at any time, the invariant says of *every* command's copy, and of the file,
that a ticket it calls closed is over, that auditors visit expired tickets only, and that
the ticket of a grant still at work is in no list.

**Harness**: `TypeCorrect`, `HistorySurvives`, `NothingLeftInTemp`, `OkIsEarned`. `Own` is
what a run's place says of its directories, backup and findings; the two parts that
reach across runs are `RestoredStays` (a restored history is touched by nobody but another
avoid-logs run, which then crosses it) and `FoundIsThere` (a hit rests on an event that exists and stays).
`Separate` is what both rest on: as long as an avoid-logs run is not crossed, no other is between its staging and its
end while it is at work, nor ever after it has restored the history. `HistorySurvives` has the
exceptions of `HistoryIsKept`: it says nothing of a crossed run, and a run that reports a
result deletes its backup even when the cleanup that should have restored the history was not asked for or failed.

**Ledger**: `TypeCorrect`, `GrowsOnVerified`, `CrashesRaiseNoAlarm`, `BlocksStay`. `IInv` adds that without
overlap one audit is under way, that a writer then finds the file as it truncated it (`WriterIsAlone`), and that
memory has the file's blocks and the audit's own (`MemoryIsAhead`). Appending a block linked to the last hash keeps a chain verified.

**Supervisor**: `TypeCorrect`, `OneObserver`, `OthersAreSpared`. While nothing is tangled one command is busy, and
between its steps the file, its variable and the processes agree: a live observer is
the file's or about to be (`LiveInv`), `launch` and `forget` are reached only when none lives
(`NoneInv`), and a script that has not become the observer is held by a start (`ScriptInv`).
That `stop` spares others rests on `HeldInv`, for tangled commands too.

**Curation**: `DisabledRules`, `WholeCuration`. What is in the directory was compiled from a rule enabled in the
policy it was last emptied for (`CompiledInv`), and an enabled rule is there or still to come (`ProgressInv`).
The policy a curation loaded is the applied one from the moment it has emptied the directory (`AppliedInv`), which
is what makes a kill and a change of policy in between harmless.

**Benchmark**: `NoFalseFailure`, `NoFalsePass`, for any number of services, samples and restarts. `AtMostInv` says that
the difference of the two readings the summary keeps is at most what was written, whatever restarted,
`ExactInv` that it is just that as long as nothing did. Dividing by the minutes twice makes a rate no larger in a
minute or more and no smaller in a minute or less, whatever the unit of time. The verdicts compare totals over the
services, which the code sums and the model defines by recursion over the set of services. That the
total is monotonic cannot be had from the library's induction theorems, which take an operator;
`TotalMonotonic` rests instead on `Induction` (a set of numbers that has 0 and with n also n + 1 has them all, by its least missing element),
applied to the numbers up to which partial sums exist (`SumsExist`) and grow (`SumsGrow`).

**GitOps**: `StreamNames`, `ImportRepairs`, `OneAlertPerName`. `StreamInv` follows the stream's two names through the file, the queue
and what an export has fetched. `KnownInv` says that an import's list of existing alerts, read once, stays true of the store while nobody
else changes it; with `NameInv` (a name about to be created is in no alert of the store) no
request creates a second alert, repeated and unanswered ones included. `QueueInv` and `SentInv` say how far an
import has got: of every name the latest alert sent is in the store; `FetchedInv` says the same of an
export. The proof of `ImportRepairs` corrected its property: `FileAndStoreAgree` used to claim every
alert of the file, which two changes by somebody else falsify - they can give two alerts one name, an export writes both to the file, and the
next import overwrites the first with the second. It now speaks of the last alert of a name, and holds for any number of changes.

**Bridge**: `TypeCorrect`, `NoOtherLoss`. `SafeInv` follows an alert nothing has gone wrong with: its file
is there and empty while it is written, then holds it until it is shown, and whichever script is about to
remove the file has shown it (if its `notify-send` failed the alert is `unsent`, and something has gone wrong with it). `UsedInv` (a name in use is some alert's) makes any second use of a name a collision.

**Sync**: `TypeCorrect`, `NoMissingFile`, `Agreement`, `NothingLostToOutages`. `CollectedInv` says that a run's dataset
covers exactly the sources it has passed, all of which have text files - under every fault. As long as only the
network fails, `CacheInv` (a cache is its text), `DataInv` (what was collected is in the text files, up to reading it again,
and is empty only where there is no cache or the source was) and `MergedInv` (how far the merged files have got) hold besides.

**The host**: `HostSpec` implies the specification of each of the seven tools (`LedgerSpec`, `SigmaSpec`, ...: a step of the
host is one of the tool's or leaves its variables alone), so each safety property of the run
`host_tools` is a theorem of `HostSpec`: `ToolsTypesCorrect`, `LedgerIsSafe`, `IntelFiles`,
`WatchedFiles`, `OutagesKeepLists`, `DisabledRules`, `WholeCuration`, `NoFalseFailure`, `NoFalsePass`, `StreamNames`,
`ImportRepairs`, `OneAlertPerName`, `NoOtherLossOfAlerts`, `NamedObserver`, `StopsSpareOthers`.

So every invariant and every action property of the passing runs is proved, and the refinement of `ToolCallExport`.
Only model-checked: the liveness properties (`EveryCallHandled`, `OverdueTicketsAreClosed`,
`AlertsReachTheDesktop`), which rest on fairness, that is on ENABLED, about which the prover does not reason; and the
properties expected to fail, of which TLC gives the counterexamples.

## Findings

Each is a run whose property states what a document or comment of the repository
says, and which TLC refutes.

* `zed_duplicate` - the state file does not prevent every duplicate across
  restarts: between the flush and the save the process may stop, and the next one
  exports the calls again. Delivery is at least once, as `ToolCallExport` says.
* `zed_status` - a call exported while it runs is never exported with its outcome, so an
  error-rate alert misses failures of calls the observer saw early.
* `zed_poison` - a thread that cannot be decoded ends each scan at the same
  place; threads behind it are never handled, and a first scan never gets its baseline.
* `jit_lingering` - two grants at once: the loser's ticket is gone from the file, and its
  user keeps the role for ever although the timer runs.
* `jit_phantom` - `audit` never reads `provisioned`: a ticket recorded while
  OpenObserve was out of reach deletes an ordinary user with that email when it expires.
* `sigma_dropped` - a rule dropped into `active_rules`, as the documentation says, is
  deleted by the next curation; eight of the nine committed active rules are such rules.

Properties that hold say in their text what they excuse, and what they excuse is what the code does:
overlapping audits lose a block (`CommittedStays`); two avoid-logs runs at once, or one without `--cleanup` or whose cleanup fails,
lose the history (`HistoryIsKept`), and a removal that fails leaves what was staged (`TempIsRemoved`); overlapping starts launch two observers, and so does a start cut off
before line 33 followed by another (`SingleNamedObserver`); alerts of one millisecond, malformed ones, ones read too early
and ones whose notification fails, in either script, are removed unseen (`NothingElseIsLost`), and a file a notifier finds
when it starts without `--replay` need not be shown (`AlertsReachTheDesktop`); rates are divided by the minutes twice, so that
a benchmark shorter than a minute fails a stack that kept its budgets (`FailureIsReal`) and a longer one
passes a stack that wrote more (`ShortPassIsReal`); of two rule files of one name one is left (`CurationIsComplete`); an
import while others change the store promises nothing (`FileAndStoreAgree`, `NamesAreUnique`); any run's event
answers the log query of an avoid-logs run, and an ability without an expected event is asked for none (`VerdictIsTrue`); a cached user agent with a comma comes
back cut (`IntelFilesAgree`).

## What is abstracted, and what is not modelled

Observer: a call is one element (ids are kept per thread), `updated_at` strings are
numbers of writes (they differ from write to write), names, arguments and timestamps are left out. The emit
loop of one thread is one step: records are queued and may leave one at a
time, so a death inside the loop shows nothing new. `dropped` stands for the
exporter giving up on a batch and for the queue overflowing: in both cases
`force_flush` still reports success. A flush loses any set of calls. Thread ids are not used
again after a deletion. The state file is always whole: it is replaced by a rename, by one
process. Two observers on one state file are not modelled: the supervisor's runs say when the script starts two.

JIT: a ticket is named after its grant command; roles are one role; `rbac_audit` records
and the log export are left out: they read, or write elsewhere, and their failure is
swallowed. Overlapping writers leave one text whole, or text that does not parse.
The ticket list of a broken file is not kept: it is read as no tickets. `Provision` takes an elevation that is
answered with 400 for done, as the code does whatever the 400 is about: the ticket says `provisioned`, and no role was given.

Harness: an ability is one of four kinds, by what staging does with it; of a clone only what the
code asks of it; printing and the listing of abilities are left out.

The other tools: amounts and times are whole numbers of a unit, for floats, and the rounding of rates to four digits is left
out; an alert is its name, stream and the stream in its SQL (its `stream_type`, which an export would rename as well, is one
of OpenObserve's kinds of streams and never the name that is renamed); a
rule its name, id and tags; a text is a set of kinds or one of the things it can be about.

Not modelled:

* Data migration: one sequential script whose only state is the volume's and the container daemon's.
  Reading it shows that `--force` never reaches the shell inside the container (the variable is set for the client and not
  passed on, and `sh -u` stops at it when the volume has content), and that `BINARY` is used at line 71 before it is set.
* `import_dashboards`: rewrites each template and posts it, and ignores the answer; what a second POST of one
  dashboard does is OpenObserve's affair. `bench_compare` prints two summaries side by side.
* Kill switch and health monitor: sequential, one pass, no state of their own.
* Agent telemetry drivers, rulehound import, prescan, reports: straight-line programs and one-shot conversions without
  concurrency or state that outlives them.
* Collector, rules and dashboards: they configure other programs.

## What is left

In this order, if the project is taken further: two observers over one state file, composed of `ObserverSupervisor`
and `ZedObserver`; the `rbac_audit` records of the JIT commands; `VolumeMigration` with an
interruption between its steps.

## Running it

    tlc -workers 2 -config MC_ZedObserver_safety.cfg MC_ZedObserver
    tlc -workers 2 -config MC_JitAccess_tickets.cfg MC_JitAccess
    tlc -workers 2 -config MC_CalderaHarness.cfg MC_CalderaHarness
    tlc -workers 2 -config MC_HostTools.cfg MC_HostTools
    tlapm ZedObserverProofs.tla

and `tlapm` on the other seven `*Proofs.tla`. The largest passing runs have one to four million
states; each takes two to three minutes at most, the proofs a few minutes from scratch.
