---------------------------- MODULE CalderaHarness ----------------------------
(***************************************************************************)
(* The CALDERA harness (tools/caldera_otel_harness.py): "run-ability" loads *)
(* an ability from a local clone, stages it in /tmp, runs it on the host   *)
(* inside a span, and then polls OpenObserve for the span and for the      *)
(* event Falco should have raised.  One ability truncates the user's real  *)
(* ~/.bash_history, of which staging keeps a backup.                       *)
(*                                                                         *)
(* Runs are separate processes (tests retry a failed run, and two may      *)
(* overlap).  They share the clone, the history file and the log stream.   *)
(***************************************************************************)
EXTENDS Naturals, FiniteSets

CONSTANTS
  Runs,           \* run-ability commands
  Commands,       \* what they are: the ability and the flags
  Lines,          \* what the user types into shells: lines of ~/.bash_history
  MaxFailures,    \* bound: commands, copies and requests that fail
  MaxKills        \* bound: runs that are killed

\* What the code tells apart: an ability without payload or artifacts, one with
\* a payload, and the two with a staging function of their own.
AbilityKinds == {"processes", "wifi", "dump_history", "avoid_logs"}
Flags == {"bootstrap", "cleanup", "verify_trace", "verify_logs"}

ASSUME CommandAssumption == Commands \subseteq [ability : AbilityKinds, flags : SUBSET Flags]
ASSUME BoundAssumption == MaxFailures \in Nat /\ MaxKills \in Nat

VARIABLES
  repo,           \* .data/caldera: "absent", "broken" (a clone cut short or going on),
                  \* "bare" (no stockpile), "torn" (part of the stockpile) or "ready"
  history,        \* ~/.bash_history: does it exist, and its lines
  ability,        \* [Runs -> kind], --ability-id
  options,        \* [Runs -> flags]
  pc,             \* where each run is
  temp,           \* [Runs -> directories it has in /tmp]
  saved,          \* [Runs -> history file], the backup and history_existed
  restored,       \* runs whose cleanup command exited with 0
  span,           \* [Runs -> the state of its span]
  event,          \* [Runs -> the state of the event Falco raised for it]
  window,         \* [Runs -> runs whose events lie in its query's time range]
  found,          \* [Runs -> what its queries found: "trace", "logs"]
  outcome,        \* [Runs -> how it ended]
  failures, kills,
  crossed,        \* avoid-logs runs that another of them overlapped or came after
  littered        \* runs whose rmtree left something

shared == <<repo, history>>
inputs == <<ability, options>>
backend == <<span, event>>
searches == <<window, found>>
counters == <<failures, kills>>
ghosts == <<crossed, littered>>
vars == <<shared, inputs, pc, temp, saved, restored, backend, searches, outcome, counters, ghosts>>

Labels == {"idle", "bootstrap", "clone", "cloning", "submodule", "checkout", "load", "stage", "shell", "execute",
           "restore", "flush", "trace", "window", "logs", "report", "done"}
Verdicts == {"ok", "failed", "untraced", "undetected", "unanswered"}
Files == [exists : BOOLEAN, lines : SUBSET Lines]
NoFile == [exists |-> FALSE, lines |-> {}]

TypeOK ==
  /\ repo \in {"absent", "broken", "bare", "torn", "ready"}
  /\ history \in Files
  /\ ability \in [Runs -> AbilityKinds]
  /\ options \in [Runs -> SUBSET Flags]
  /\ pc \in [Runs -> Labels]
  /\ temp \in [Runs -> SUBSET {"staging", "home", "backup"}]
  /\ saved \in [Runs -> Files]
  /\ restored \subseteq Runs
  /\ span \in [Runs -> {"none", "lost", "sent", "searchable"}]
  /\ event \in [Runs -> {"none", "raised", "stamped", "searchable"}]
  /\ window \in [Runs -> SUBSET Runs]
  /\ found \in [Runs -> SUBSET {"trace", "logs"}]
  /\ outcome \in [Runs -> Verdicts \union {"none", "aborted", "killed"}]
  /\ failures \in 0..MaxFailures
  /\ kills \in 0..MaxKills
  /\ crossed \subseteq Runs /\ littered \subseteq Runs

Init ==
  /\ repo \in {"absent", "ready"}
  /\ history \in {[exists |-> TRUE, lines |-> {l}] : l \in Lines} \union {NoFile}
  /\ ability = [r \in Runs |-> "processes"]
  /\ options = [r \in Runs |-> {}]
  /\ pc = [r \in Runs |-> "idle"]
  /\ temp = [r \in Runs |-> {}]
  /\ saved = [r \in Runs |-> NoFile]
  /\ restored = {}
  /\ span = [r \in Runs |-> "none"]
  /\ event = [r \in Runs |-> "none"]
  /\ window = [r \in Runs |-> {}]
  /\ found = [r \in Runs |-> {}]
  /\ outcome = [r \in Runs |-> "none"]
  /\ failures = 0 /\ kills = 0
  /\ crossed = {} /\ littered = {}

\* Before a run has staged anything.
Early == {"idle", "bootstrap", "clone", "cloning", "submodule", "checkout", "load", "stage"}

Avoiders == {r \in Runs : ability[r] = "avoid_logs"}

Goto(r, l) == pc' = [pc EXCEPT ![r] = l]
Fails == failures < MaxFailures /\ failures' = failures + 1

Sets(r, o) == outcome' = [outcome EXCEPT ![r] = o]

\* An exception before the second try statement: main prints it and returns 1.
Aborts(r) == Goto(r, "done") /\ Sets(r, "aborted")

-----------------------------------------------------------------------------
(* bootstrap_caldera_repo and load_ability.                                 *)

Begin(r) ==
  /\ pc[r] = "idle"
  /\ \E c \in Commands :
       /\ ability' = [ability EXCEPT ![r] = c.ability]
       /\ options' = [options EXCEPT ![r] = c.flags]
       /\ Goto(r, IF "bootstrap" \in c.flags THEN "bootstrap" ELSE "load")
  /\ UNCHANGED <<shared, temp, saved, restored, backend, searches, outcome, counters, ghosts>>

\* if not caldera_dir.exists(): clone.
Bootstrap(r) ==
  /\ pc[r] = "bootstrap"
  /\ Goto(r, IF repo = "absent" THEN "clone" ELSE "submodule")
  /\ UNCHANGED <<shared, inputs, temp, saved, restored, backend, searches, outcome, counters, ghosts>>

\* git refuses to clone into a directory that is there by now.
Clone(r) ==
  /\ pc[r] = "clone"
  /\ \/ repo = "absent" /\ repo' = "broken" /\ Goto(r, "cloning") /\ UNCHANGED outcome
     \/ repo # "absent" /\ Aborts(r) /\ UNCHANGED repo
  /\ UNCHANGED <<history, inputs, temp, saved, restored, backend, searches, counters, ghosts>>

\* A clone that fails removes its directory.
EndClone(r) ==
  /\ pc[r] = "cloning"
  /\ \/ repo' = "bare" /\ Goto(r, "submodule") /\ UNCHANGED <<outcome, failures>>
     \/ repo' = "absent" /\ Fails /\ Aborts(r)
  /\ UNCHANGED <<history, inputs, temp, saved, restored, backend, searches, kills, ghosts>>

\* A stockpile directory with anything in it passes for complete.  In a clone
\* that was cut short the update fails.
Submodule(r) ==
  /\ pc[r] = "submodule"
  /\ \/ repo = "bare" /\ repo' = "torn" /\ Goto(r, "checkout") /\ UNCHANGED outcome
     \/ repo \in {"torn", "ready"} /\ Goto(r, "load") /\ UNCHANGED <<repo, outcome>>
     \/ repo \in {"absent", "broken"} /\ Aborts(r) /\ UNCHANGED repo
  /\ UNCHANGED <<history, inputs, temp, saved, restored, backend, searches, counters, ghosts>>

EndCheckout(r) ==
  /\ pc[r] = "checkout"
  /\ \/ repo' = "ready" /\ Goto(r, "load") /\ UNCHANGED <<outcome, failures>>
     \/ Fails /\ Aborts(r) /\ UNCHANGED repo
  /\ UNCHANGED <<history, inputs, temp, saved, restored, backend, searches, kills, ghosts>>

\* The stockpile's definition of the ability, or the fallback in the source.
Defined(r) == repo = "ready" \/ ability[r] = "processes"

LoadAbility(r) ==
  /\ pc[r] = "load"
  /\ \/ Defined(r) /\ Goto(r, "stage") /\ UNCHANGED outcome
     \/ ~Defined(r) /\ Aborts(r)
  /\ UNCHANGED <<shared, inputs, temp, saved, restored, backend, searches, counters, ghosts>>

-----------------------------------------------------------------------------
(* stage_ability and _prepare_execution_shell.                              *)

LeakedHome(r) == IF ability[r] = "wifi" THEN {"home", "tmp"} ELSE {}      \* faulty Directory

\* The temporary directory the staging of each ability makes.
Directory(r) ==
  CASE ability[r] = "processes"    -> {}
    [] ability[r] = "wifi"         -> {"staging"}
    [] ability[r] = "dump_history" -> {"home"}
    [] ability[r] = "avoid_logs"   -> {"backup"}

\* Other runs that have come past the staging of the same history file.
Others(r) == {q \in Avoiders \ {r} : pc[q] \notin Early}

\* Avoid logs: copy the history, or create it empty.
Stage(r) ==
  /\ pc[r] = "stage"
  /\ temp' = [temp EXCEPT ![r] = Directory(r)]
  /\ IF ability[r] = "avoid_logs"
     THEN /\ saved' = [saved EXCEPT ![r] = history]
          /\ history' = [history EXCEPT !.exists = TRUE]
          /\ crossed' = crossed \union Others(r)
                                \union {x \in {r} : \E q \in Others(r) : pc[q] # "done"}
     ELSE UNCHANGED <<saved, history, crossed>>
  /\ Goto(r, "shell")
  /\ UNCHANGED <<repo, inputs, restored, backend, searches, outcome, counters, littered>>

\* A copy fails or a payload is missing: the directory is removed again, but
\* not by _stage_avoid_logs_ability, which has no except clause.
StageFails(r) ==
  /\ pc[r] = "stage" /\ Fails
  /\ temp' = [temp EXCEPT ![r] = Directory(r) \intersect {"backup"}]
  /\ Aborts(r)
  /\ UNCHANGED <<shared, inputs, saved, restored, backend, searches, kills, ghosts>>

\* With --verify-logs a payload runs under a copy of sh in the staging directory.
StagedShell(r) == ability[r] = "wifi" /\ "verify_logs" \in options[r]

PrepareShell(r) ==
  /\ pc[r] = "shell"
  /\ \/ Goto(r, "execute") /\ UNCHANGED <<outcome, failures>>
     \/ StagedShell(r) /\ Fails /\ Aborts(r)
  /\ UNCHANGED <<shared, inputs, temp, saved, restored, backend, searches, kills, ghosts>>

-----------------------------------------------------------------------------
(* execute_ability: the command, its cleanup command, the span.             *)

\* What Falco has a rule for, and the queries look for: a shell that runs from
\* /tmp, a history file read, a history file truncated.
Expected(r) == ability[r] # "processes"
Detectable(r) == StagedShell(r) \/ ability[r] \in {"dump_history", "avoid_logs"}

CommandDone(r) ==
  /\ history' = IF ability[r] = "avoid_logs" THEN [exists |-> TRUE, lines |-> {}] ELSE history
  /\ \/ Detectable(r) /\ event' = [event EXCEPT ![r] = "raised"]
     \/ UNCHANGED event

HasCleanup(r) == ability[r] = "avoid_logs" /\ "cleanup" \in options[r]

\* The exit code is kept; the cleanup command runs whatever it was.
Execute(r) ==
  /\ pc[r] = "execute"
  /\ CommandDone(r)
  /\ Goto(r, IF HasCleanup(r) THEN "restore" ELSE "flush")
  /\ \/ UNCHANGED <<outcome, failures>>
     \/ Fails /\ Sets(r, "failed")
  /\ UNCHANGED <<repo, inputs, temp, saved, restored, span, searches, kills, ghosts>>

CleansUpAlways(r) ==                                                  \* faulty CommandTimesOut
  /\ pc[r] = "execute" /\ Fails
  /\ CommandDone(r) \/ UNCHANGED <<history, event>>
  /\ temp' = [temp EXCEPT ![r] = {}]
  /\ Goto(r, "flush") /\ Sets(r, "aborted")
  /\ UNCHANGED <<repo, inputs, saved, restored, span, searches, kills, ghosts>>

\* TimeoutExpired, before or after the command has had its effect: the finally
\* clause flushes the span, and neither cleanup is reached.
CommandTimesOut(r) ==
  /\ pc[r] = "execute" /\ Fails
  /\ CommandDone(r) \/ UNCHANGED <<history, event>>
  /\ Goto(r, "flush") /\ Sets(r, "aborted")
  /\ UNCHANGED <<repo, inputs, temp, saved, restored, span, searches, kills, ghosts>>

\* cp of the backup over the history file, or rm of a history that was not there.
Restore(r) ==
  /\ pc[r] = "restore"
  /\ history' = saved[r]
  /\ restored' = restored \union {r}
  /\ Goto(r, "flush")
  /\ UNCHANGED <<repo, inputs, temp, saved, backend, searches, outcome, counters, ghosts>>

\* The command's exit code is noted and nothing else is made of it.
RestoreFails(r) ==
  /\ pc[r] = "restore" /\ Fails
  /\ Goto(r, "flush")
  /\ Sets(r, outcome[r]) \/ Sets(r, "aborted")           \* an exit code, or a timeout
  /\ UNCHANGED <<shared, inputs, temp, saved, restored, backend, searches, kills, ghosts>>

\* force_flush and a short sleep; an exporter that gives up says nothing.
Flush(r) ==
  /\ pc[r] = "flush"
  /\ \/ span' = [span EXCEPT ![r] = "sent"] /\ UNCHANGED failures
     \/ Fails /\ span' = [span EXCEPT ![r] = "lost"]
  /\ Goto(r, CASE outcome[r] = "aborted"           -> "done"
               [] outcome[r] # "aborted" /\ "verify_trace" \in options[r] -> "trace"
               [] OTHER                            -> "window")
  /\ UNCHANGED <<shared, inputs, temp, saved, restored, event, searches, outcome, kills, ghosts>>

-----------------------------------------------------------------------------
(* _wait_for_trace, _correlate_logs, _wait_for_logs.  A poll that finds     *)
(* nothing, a stream that does not exist yet included, changes nothing.     *)

TraceFound(r) ==
  /\ pc[r] = "trace" /\ span[r] = "searchable"
  /\ found' = [found EXCEPT ![r] = @ \union {"trace"}]
  /\ Goto(r, "window")
  /\ UNCHANGED <<shared, inputs, temp, saved, restored, backend, window, outcome, counters, ghosts>>

TraceTimesOut(r) ==
  /\ pc[r] = "trace"
  /\ Goto(r, "window")
  /\ UNCHANGED <<shared, inputs, temp, saved, restored, backend, searches, outcome, counters, ghosts>>

Stamped == {r \in Runs : event[r] \in {"stamped", "searchable"}}

\* The time range is computed once, before the polling: events the collector
\* stamps later are outside it, and so is what is older than the lookback.
FixWindow(r) ==
  /\ pc[r] = "window"
  /\ \/ /\ "verify_logs" \in options[r]
        /\ \E w \in SUBSET Stamped : window' = [window EXCEPT ![r] = w]
        /\ Goto(r, "logs")
     \/ "verify_logs" \notin options[r] /\ Goto(r, "report") /\ UNCHANGED window
  /\ UNCHANGED <<shared, inputs, temp, saved, restored, backend, found, outcome, counters, ghosts>>

AnyEvent(r) == {q \in Runs : event[q] = "searchable"}                 \* faulty Matching

\* _build_correlation_queries: the directory or the history path in the query
\* is this run's own, but for the real history file, which all runs share.
Matching(r) ==
  {q \in Runs : /\ event[q] = "searchable" /\ ability[q] = ability[r]
                /\ q = r \/ ability[r] = "avoid_logs"}

LogsFound(r) ==
  /\ pc[r] = "logs" /\ Expected(r) /\ Matching(r) \intersect window[r] # {}
  /\ found' = [found EXCEPT ![r] = @ \union {"logs"}]
  /\ Goto(r, "report")
  /\ UNCHANGED <<shared, inputs, temp, saved, restored, backend, window, outcome, counters, ghosts>>

LogsTimeOut(r) ==
  /\ pc[r] = "logs"
  /\ Goto(r, "report")
  /\ UNCHANGED <<shared, inputs, temp, saved, restored, backend, searches, outcome, counters, ghosts>>

\* _cleanup_stage: the finally clause of the second try statement.  An error of
\* rmtree is ignored, whatever it leaves of the directory.
CleanupStage(r) ==
  /\ \/ temp' = [temp EXCEPT ![r] = {}] /\ UNCHANGED littered
     \/ temp[r] # {} /\ littered' = littered \union {r} /\ UNCHANGED temp
  /\ UNCHANGED crossed

ErrorLeaves(r) ==                                                     \* faulty SearchFails
  /\ pc[r] \in {"trace", "logs", "report"} /\ Fails
  /\ Goto(r, "done") /\ Sets(r, "unanswered")
  /\ UNCHANGED <<shared, inputs, temp, saved, restored, backend, searches, kills, ghosts>>

\* An HTTP error, or an osquery query that times out, ends the run.
SearchFails(r) ==
  /\ pc[r] \in {"trace", "logs", "report"} /\ Fails
  /\ CleanupStage(r)
  /\ Goto(r, "done") /\ Sets(r, "unanswered")
  /\ UNCHANGED <<shared, inputs, saved, restored, backend, searches, kills>>

-----------------------------------------------------------------------------
(* The result.                                                              *)

\* all() of the expected streams: TRUE of an ability that has none.
LogsVerified(r) == Expected(r) => "logs" \in found[r]

\* The exit code: 2, 3, the command's, or 0.
Verdict(r) ==
  CASE "verify_trace" \in options[r] /\ "trace" \notin found[r] -> "untraced"
    [] "verify_trace" \in options[r] => "trace" \in found[r]    ->
         IF "verify_logs" \in options[r] /\ ~LogsVerified(r) THEN "undetected"
         ELSE IF outcome[r] = "failed" THEN "failed" ELSE "ok"

Report(r) ==
  /\ pc[r] = "report"
  /\ CleanupStage(r)
  /\ Goto(r, "done") /\ Sets(r, Verdict(r))
  /\ UNCHANGED <<shared, inputs, saved, restored, backend, searches, counters>>

-----------------------------------------------------------------------------
(* The rest of the host.                                                    *)

\* A shell that exits appends its lines to the history file.
Type(l) ==
  /\ l \notin history.lines
  /\ history' = [exists |-> TRUE, lines |-> history.lines \union {l}]
  /\ UNCHANGED <<repo, inputs, pc, temp, saved, restored, backend, searches, outcome, counters, ghosts>>

\* The collector reads Falco's line and stamps it; later it can be searched for.
Collect(r) ==
  /\ event[r] \in {"raised", "stamped"}
  /\ event' = [event EXCEPT ![r] = IF @ = "raised" THEN "stamped" ELSE "searchable"]
  /\ UNCHANGED <<shared, inputs, pc, temp, saved, restored, span, searches, outcome, counters, ghosts>>

IndexSpan(r) ==
  /\ span[r] = "sent"
  /\ span' = [span EXCEPT ![r] = "searchable"]
  /\ UNCHANGED <<shared, inputs, pc, temp, saved, restored, event, searches, outcome, counters, ghosts>>

\* The test's own timeout, or an interrupt.  A clone or a checkout stays as it
\* is; a command that has been started goes on without its parent.
Kill(r) ==
  /\ pc[r] \notin {"idle", "done"} /\ kills < MaxKills
  /\ kills' = kills + 1
  /\ Goto(r, "done") /\ Sets(r, "killed")
  /\ \/ pc[r] = "execute" /\ CommandDone(r)
     \/ UNCHANGED <<history, event>>
  /\ UNCHANGED <<repo, inputs, temp, saved, restored, span, searches, failures, ghosts>>

Setup(r) ==
  \/ Bootstrap(r) \/ Clone(r) \/ EndClone(r) \/ Submodule(r) \/ EndCheckout(r)
  \/ LoadAbility(r) \/ Stage(r) \/ StageFails(r) \/ PrepareShell(r)

Emulate(r) == Execute(r) \/ CommandTimesOut(r) \/ Restore(r) \/ RestoreFails(r) \/ Flush(r)

Verify(r) ==
  \/ TraceFound(r) \/ TraceTimesOut(r) \/ FixWindow(r) \/ LogsFound(r) \/ LogsTimeOut(r)
  \/ SearchFails(r) \/ Report(r)

Run(r) == Setup(r) \/ Emulate(r) \/ Verify(r)

Next ==
  \/ \E r \in Runs : Begin(r) \/ Run(r) \/ Kill(r) \/ Collect(r) \/ IndexSpan(r)
  \/ \E l \in Lines : Type(l)

Spec == Init /\ [][Next]_vars

-----------------------------------------------------------------------------
(* Properties.                                                              *)

\* The lines the history file had when a run backed it up are in the file, or in
\* a backup that is still in /tmp: a run that is killed or times out between the
\* truncation and the restoring leaves the backup, and none deletes it before it
\* is used.  Two exceptions: a run that reports a result deletes the backup even
\* if its cleanup command was not asked for or failed, and nothing is said of a
\* run that another avoid-logs run overlapped or came after.
HistoryIsKept ==
  \A r \in Avoiders \ crossed :
    \/ saved[r].lines \subseteq history.lines
    \/ "backup" \in temp[r]
    \/ pc[r] = "done" /\ outcome[r] \in Verdicts /\ r \notin restored

\* What a run stages in /tmp is gone when it has reported a result, an HTTP
\* error in a search included: only runs that stop before that, and a removal
\* that itself fails, leave anything.
TempIsRemoved ==
  \A r \in Runs \ littered : outcome[r] \in Verdicts /\ pc[r] = "done" => temp[r] = {}

\* Exit code 0 says what it seems to: the run's own span could be found, and
\* for an ability with a rule an event of such a run - its own, where the
\* query names a directory of its own.
VerdictIsTrue ==
  \A r \in Runs : outcome[r] = "ok" =>
    /\ "verify_trace" \in options[r] => span[r] = "searchable"
    /\ "verify_logs" \in options[r] /\ Expected(r) =>
         \E q \in Runs : /\ event[q] = "searchable" /\ ability[q] = ability[r]
                         /\ q = r \/ ability[r] = "avoid_logs"
=============================================================================
