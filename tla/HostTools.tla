------------------------------- MODULE HostTools -------------------------------
(***************************************************************************)
(* Seven tools of the host: the audit ledger (extended), and the threat-    *)
(* intelligence sync, the Sigma curation, the benchmark, the alert GitOps   *)
(* commands, the alert bridge and the observer's supervisor script          *)
(* (instanced).  They share no file and no process, so that their           *)
(* interleavings with each other say nothing: "part" picks the one a        *)
(* behavior is about, and the others stay as they were started.  Within a   *)
(* part everything interleaves.                                             *)
(***************************************************************************)
EXTENDS AuditLedger, Integers, FiniteSets

\* The constants of the instanced modules, under the names they have there but for
\* the four that would clash.
CONSTANTS
  Syncs, Sources, MaxUpdates, MaxFaults,                          \* ThreatIntelSync
  RuleFiles, HandNames, Policies, FirstPolicy, MaxCurations, MaxPolicies,
  MaxKills,                                                       \* SigmaCuration
  Services, Exempt, RamBudget, WriteBudget, RamTotal, WriteTotal, Second, Durations,
  MaxRam, MaxWritten, MaxSamples, MaxRestarts,                            \* BenchBudgets
  AlertIds,       \* AlertGitOps!Ids
  Names, AgentNames, InitialFile, MaxUserEdits, MaxCommands,
  MaxRequests,    \* AlertGitOps!MaxFaults
  Alerts,
  FileNames,      \* AlertBridge!Ids
  MaxSendFaults, MaxStops,                                        \* AlertBridge
  Invocations,    \* ObserverSupervisor!Commands
  Pids                                                            \* ObserverSupervisor

VARIABLES
  part,
  feed, txt, cache, merged, falcoList, watching, step, next, data, noCache, disturbed, emptied,
  updates, faults,                                                \* ThreatIntelSync
  policy, active, stage, loaded, applied, left, complete, curations, policyEdits,
  kills,                                                          \* SigmaCuration
  counter, replaced, bench, enforced, duration, samples, first, last, ramMax, written, unseen,
  restarts,                                                       \* BenchBudgets
  store, destination, alerts, command, known, queue, listed, fetched, quiet, mirrored, userEdits,
  commands, requests,                                             \* AlertGitOps
  files, script, id, malformed, linked, notifier, once, seen, current, fresh, rest, at, raw,
  watcher, shown, unsent, hurried, backlog, sendFaults, stops,    \* AlertBridge
  process, pidFile, place, restarting, pid, tangled               \* ObserverSupervisor

Intel == INSTANCE ThreatIntelSync
Sigma == INSTANCE SigmaCuration
Bench == INSTANCE BenchBudgets
GitOps == INSTANCE AlertGitOps WITH Ids <- AlertIds, MaxFaults <- MaxRequests
Bridge == INSTANCE AlertBridge WITH Ids <- FileNames
Supervisor == INSTANCE ObserverSupervisor WITH Commands <- Invocations, pc <- place

\* The sources are a list; the bounds are numbers.
ASSUME IntelAssumption ==
  Sources \in Seq(Intel!Keys) /\ MaxUpdates \in Nat /\ MaxFaults \in Nat

\* The committed policy is one of those somebody may write.
ASSUME SigmaAssumption ==
  FirstPolicy \in Policies /\ MaxCurations \in Nat /\ MaxPolicies \in Nat /\ MaxKills \in Nat

\* Whole numbers throughout; a benchmark may be as short as one likes.
ASSUME BenchAssumption ==
  /\ IsFiniteSet(Services)
  /\ RamBudget \in [Services -> Nat] /\ WriteBudget \in [Services -> Nat]
  /\ RamTotal \in Nat /\ WriteTotal \in Nat
  /\ Second \in Nat \ {0} /\ Durations \subseteq Nat
  /\ MaxRam \in Nat /\ MaxWritten \in Nat /\ MaxSamples \in Nat /\ MaxRestarts \in Nat

\* The committed alerts.json has no two alerts of one name and uses the repository's
\* name of the stream.
ASSUME GitOpsAssumption ==
  /\ InitialFile \in Seq(GitOps!Alert)
  /\ \A i, j \in DOMAIN InitialFile : InitialFile[i].name = InitialFile[j].name => i = j
  /\ \A i \in DOMAIN InitialFile : InitialFile[i].stream # "system_logs"
  /\ AgentNames \subseteq Names /\ IsFiniteSet(AgentNames)
  /\ MaxUserEdits \in Nat /\ MaxCommands \in Nat /\ MaxRequests \in Nat

\* A file name is a number of milliseconds; 0 stands for none.
ASSUME BridgeAssumption ==
  FileNames \subseteq Nat \ {0} /\ MaxSendFaults \in Nat /\ MaxStops \in Nat

intel == <<feed, txt, cache, merged, falcoList, watching, step, next, data, noCache, disturbed,
           emptied, updates, faults>>
sigma == <<policy, active, stage, loaded, applied, left, complete, curations, policyEdits, kills>>
benchmark == <<counter, replaced, bench, enforced, duration, samples, first, last, ramMax, written,
               unseen, restarts>>
gitops == <<store, destination, alerts, command, known, queue, listed, fetched, quiet, mirrored,
            userEdits, commands, requests>>
bridge == <<files, script, id, malformed, linked, notifier, once, seen, current, fresh, rest, at,
            raw, watcher, shown, unsent, hurried, backlog, sendFaults, stops>>
supervisor == <<process, pidFile, place, restarting, pid, tangled>>
allvars == <<part, vars, intel, sigma, benchmark, gitops, bridge, supervisor>>

-----------------------------------------------------------------------------
HostInit ==
  /\ part \in {"ledger", "intel", "sigma", "bench", "gitops", "bridge", "supervisor"}
  /\ Init /\ Intel!Init /\ Sigma!Init /\ Bench!Init /\ GitOps!Init
  /\ Bridge!Init /\ Supervisor!Init

LedgerStep == part = "ledger" /\ Next
              /\ UNCHANGED <<part, intel, sigma, benchmark, gitops, bridge, supervisor>>
IntelStep ==  part = "intel" /\ Intel!Next
              /\ UNCHANGED <<part, vars, sigma, benchmark, gitops, bridge, supervisor>>
SigmaStep ==  part = "sigma" /\ Sigma!Next
              /\ UNCHANGED <<part, vars, intel, benchmark, gitops, bridge, supervisor>>
BenchStep ==  part = "bench" /\ Bench!Next
              /\ UNCHANGED <<part, vars, intel, sigma, gitops, bridge, supervisor>>
GitOpsStep == part = "gitops" /\ GitOps!Next
              /\ UNCHANGED <<part, vars, intel, sigma, benchmark, bridge, supervisor>>
SupervisorStep == part = "supervisor" /\ Supervisor!Next
              /\ UNCHANGED <<part, vars, intel, sigma, benchmark, gitops, bridge>>

BridgeStays == UNCHANGED <<part, vars, intel, sigma, benchmark, gitops, supervisor>>
BridgeStep == part = "bridge" /\ Bridge!Next /\ BridgeStays
NotifierStep == part = "bridge" /\ Bridge!Notify /\ BridgeStays

HostNext ==
  \/ LedgerStep \/ IntelStep \/ SigmaStep \/ BenchStep \/ GitOpsStep \/ BridgeStep
  \/ SupervisorStep

\* Fair is a notifier that runs, as in AlertBridge!FairSpec, and nothing else.
HostSpec == HostInit /\ [][HostNext]_allvars /\ WF_bridge(NotifierStep)

-----------------------------------------------------------------------------
(* The properties of the instanced modules, where they are explained.       *)

\* The variables of the six instanced tools keep their types.
ToolsTypeOK ==
  /\ Intel!TypeOK /\ Sigma!TypeOK /\ Bench!TypeOK /\ GitOps!TypeOK /\ Bridge!TypeOK
  /\ Supervisor!TypeOK

\* sync_threat_intel: after runs that only the network disturbed, Falco's lists,
\* the merged data and the watched text files agree.
IntelFilesAgree == Intel!FilesAgree

\* sync_threat_intel: every path osquery is told to watch exists, after any faults.
WatchedFilesExist == Intel!WatchedFilesExist

\* sync_threat_intel: a failed fetch empties no list of Falco's.
OutageKeepsIndicators == Intel!OutageKeepsIndicators

\* manage_rules: no rule the policy disables is active once the directory has been
\* emptied for that policy, wherever curations were killed.
DisabledRulesAreOut == Sigma!DisabledRulesAreOut

\* manage_rules: a curation that went through leaves one rule for every name an
\* enabled rule file has, and nothing else of its own.
CurationIsComplete == Sigma!CurationIsComplete

\* bench_stack: a minute or more fails no stack that kept its budgets, through
\* restarts.
FailureIsReal == Bench!FailureIsReal

\* bench_stack: a minute or less without restarts passes only such a stack.
ShortPassIsReal == Bench!ShortPassIsReal

\* oo_alerts: alerts on the system logs query the stream OpenObserve has.
QueriesNameTheStream == GitOps!QueriesNameTheStream

\* oo_alerts: after an undisturbed command the file's alerts are in the store.
FileAndStoreAgree == GitOps!FileAndStoreAgree

\* oo_alerts: repeated and failed imports create no second alert of a name.
NamesAreUnique == GitOps!NamesAreUnique

\* The bridge: an alert in a complete file is lost in the named ways alone.
NothingElseIsLost == Bridge!NothingElseIsLost

\* The bridge: and reaches the desktop in the end, if a notifier keeps running.
AlertsReachTheDesktop == Bridge!AlertsReachTheDesktop

\* zed-agent-observer.sh: commands one after the other keep one observer at most,
\* and the pid file names it.
SingleNamedObserver == Supervisor!SingleNamedObserver

\* zed-agent-observer.sh: a stop kills no other program.
StopSparesOthers == Supervisor!StopSparesOthers
=============================================================================
