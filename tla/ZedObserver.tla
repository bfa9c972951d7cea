------------------------------ MODULE ZedObserver ------------------------------
(***************************************************************************)
(* The Zed agent observer (tools/zed_agent_observer.py): one process polls *)
(* Zed's thread database, which Zed keeps writing, queues a log record for *)
(* every new tool call in an OpenTelemetry batch processor, flushes it,    *)
(* and checkpoints the thread in a JSON state file.  The process may die   *)
(* between any two steps; its memory and its queue die with it.            *)
(*                                                                         *)
(* A tool call is one element of Calls: ids are kept per thread by the     *)
(* code, so a call belongs to one thread.  updated_at strings are the      *)
(* numbers of Zed's writes.  The loop that emits the calls of a thread is  *)
(* one step: the records stay queued until a flush or the background       *)
(* export takes them one at a time, so dying half way through the loop     *)
(* shows nothing that dying after it does not.                             *)
(***************************************************************************)
EXTENDS Naturals, FiniteSets

CONSTANTS
  Threads,        \* Zed's threads (session ids)
  NoThread,       \* "no thread is being processed"
  Calls,          \* the tool calls that may ever be made
  ThreadOf,       \* [Calls -> Threads], the thread a call is made in
  Unreadable,     \* threads stored in a form _decode_thread raises on
  Outcomes,       \* the results a call may end with, from {"completed", "error"}
  Backfill,       \* the --backfill-existing flag
  MaxWrites,      \* bound: Zed's writes to its database
  MaxFailures,    \* bound: failed flushes, saves and reads together
  MaxDeaths       \* bound: times the observer stops or is killed

ASSUME ThreadAssumption == ThreadOf \in [Calls -> Threads] /\ NoThread \notin Threads
ASSUME OutcomeAssumption == Outcomes \subseteq {"completed", "error"}
ASSUME FlagAssumption == Backfill \in BOOLEAN /\ Unreadable \subseteq Threads
ASSUME BoundAssumption == MaxWrites \in Nat /\ MaxFailures \in Nat /\ MaxDeaths \in Nat

VARIABLES
  writtenAt,      \* [Threads -> 0..MaxWrites], updated_at; 0: no such row
  gone,           \* threads the user deleted (their ids are not used again)
  result,         \* what the stored thread shows of each call
  writes,         \* Zed's writes so far
  file,           \* the state file, as a checkpoint record
  mem,            \* self.state of the running process
  pc,             \* where the process is
  scan,           \* scan()'s initial_scan and the metadata rows still to visit
  work,           \* the thread being processed
  queue,          \* [Records -> Nat], records in the batch processors
  delivered,      \* [Records -> Nat], copies the backend received
  dropped,        \* calls of which the exporter discarded a record
  history,        \* ghost: calls checkpointed without being exported
  failures, deaths

db == <<writtenAt, gone, result, writes>>
process == <<mem, pc, scan, work>>
pipeline == <<queue, delivered, dropped>>
counters == <<failures, deaths>>
vars == <<db, file, process, pipeline, history, counters>>

Statuses == {"running", "completed", "error"}
Records == [call : Calls, status : Statuses]

\* The state file's content: baseline_complete, each thread's updated_at
\* (0 when the thread has no entry), and the emitted_tool_ids of all threads.
Checkpoint == [baseline : BOOLEAN, at : [Threads -> 0..MaxWrites], ids : SUBSET Calls]
EmptyCheckpoint == [baseline |-> FALSE, at |-> [t \in Threads |-> 0], ids |-> {}]

NoScan == [initial |-> FALSE, todo |-> [t \in Threads |-> 0]]
Idle == [thread |-> NoThread, at |-> 0, fresh |-> {}, export |-> FALSE]
EmptyQueue == [r \in Records |-> 0]

\* extract_tool_calls: the calls a stored thread shows, each with its status.
CallsOf(t) == {c \in Calls : ThreadOf[c] = t /\ result[c] # "none"}
Record(c) == [call |-> c, status |-> result[c]]

TypeOK ==
  /\ writtenAt \in [Threads -> 0..MaxWrites]
  /\ gone \subseteq Threads
  /\ result \in [Calls -> Statuses \union {"none"}]
  /\ writes \in 0..MaxWrites
  /\ file \in Checkpoint
  /\ mem \in Checkpoint
  /\ pc \in {"down", "sleep", "scan", "flush", "save"}
  /\ scan \in [initial : BOOLEAN, todo : [Threads -> 0..MaxWrites]]
  /\ work \in [thread : Threads \union {NoThread}, at : 0..MaxWrites,
               fresh : SUBSET Calls, export : BOOLEAN]
  /\ queue \in [Records -> Nat]
  /\ delivered \in [Records -> Nat]
  /\ dropped \subseteq Calls
  /\ history \subseteq Calls
  /\ failures \in 0..MaxFailures
  /\ deaths \in 0..MaxDeaths

Init ==
  /\ writtenAt = [t \in Threads |-> 0]
  /\ gone = {}
  /\ result = [c \in Calls |-> "none"]
  /\ writes = 0
  /\ file = EmptyCheckpoint
  /\ mem = EmptyCheckpoint
  /\ pc = "down"
  /\ scan = NoScan
  /\ work = Idle
  /\ queue = EmptyQueue
  /\ delivered = EmptyQueue
  /\ dropped = {}
  /\ history = {}
  /\ failures = 0 /\ deaths = 0

-----------------------------------------------------------------------------
(* Zed, which is not this repository's code: it saves a whole thread in     *)
(* one row, with a new updated_at.                                          *)

SaveThread(t) ==
  /\ writes < MaxWrites /\ t \notin gone
  /\ writes' = writes + 1
  /\ writtenAt' = [writtenAt EXCEPT ![t] = writes + 1]
  /\ UNCHANGED <<gone, file, process, pipeline, history, counters>>

NewThread(t) ==
  /\ writtenAt[t] = 0
  /\ SaveThread(t)
  /\ UNCHANGED result

NewCall(c) ==
  /\ result[c] = "none"
  /\ SaveThread(ThreadOf[c])
  /\ result' = [result EXCEPT ![c] = "running"]

FinishCall(c) ==
  /\ result[c] = "running"
  /\ SaveThread(ThreadOf[c])
  /\ \E o \in Outcomes : result' = [result EXCEPT ![c] = o]

\* The user deletes the thread: its row is gone.
DeleteThread(t) ==
  /\ writtenAt[t] # 0
  /\ writtenAt' = [writtenAt EXCEPT ![t] = 0]
  /\ gone' = gone \union {t}
  /\ UNCHANGED <<result, writes, file, process, pipeline, history, counters>>

Zed ==
  \/ \E t \in Threads : NewThread(t) \/ DeleteThread(t)
  \/ \E c \in Calls : NewCall(c) \/ FinishCall(c)

-----------------------------------------------------------------------------
(* The observer process.                                                    *)

\* scan() has returned or raised: its locals are gone and run() sleeps.
LeaveScan ==
  /\ pc' = "sleep"
  /\ scan' = NoScan
  /\ work' = Idle

\* A step that may fail uses one of the MaxFailures failures.
Fails == failures < MaxFailures /\ failures' = failures + 1

\* _save_state: write a temporary file, then replace the state file with it.
SaveState == file' = mem'

FreshStart ==                                                         \* faulty Start
  /\ pc = "down"
  /\ pc' = "sleep"
  /\ mem' = EmptyCheckpoint
  /\ UNCHANGED <<db, file, scan, work, pipeline, history, counters>>

\* main: the constructor loads the state file.
Start ==
  /\ pc = "down"
  /\ pc' = "sleep"
  /\ mem' = file
  /\ UNCHANGED <<db, file, scan, work, pipeline, history, counters>>

\* scan(): read the flag once, fetch every row's id and updated_at.
BeginScan ==
  /\ pc = "sleep"
  /\ pc' = "scan"
  /\ scan' = [initial |-> ~mem.baseline, todo |-> writtenAt]
  /\ UNCHANGED <<db, file, mem, work, pipeline, history, counters>>

AnyEntry(t) == mem.at[t] # 0                                       \* faulty Unchanged

\* The row still has the updated_at of the thread's checkpoint.
Unchanged(t) == mem.at[t] = scan.todo[t]

\* Such a row, and one the second SELECT finds deleted, is passed over.
SkipThread(t) ==
  /\ pc = "scan" /\ scan.todo[t] # 0
  /\ Unchanged(t) \/ writtenAt[t] = 0
  /\ scan' = [scan EXCEPT !.todo[t] = 0]
  /\ UNCHANGED <<db, file, mem, pc, work, pipeline, history, counters>>

\* A changed row the second SELECT still finds.
Changed(t) == pc = "scan" /\ scan.todo[t] # 0 /\ ~Unchanged(t) /\ writtenAt[t] # 0

\* _decode_thread raises, or the second SELECT does (the database is locked):
\* the exception leaves scan(), run() sleeps.
ReadFails(t) ==
  /\ Changed(t)
  /\ (t \in Unreadable /\ UNCHANGED failures) \/ Fails
  /\ LeaveScan
  /\ UNCHANGED <<db, file, mem, pipeline, history, deaths>>

NoBackfill(t) == mem.at[t] # 0 \/ ~scan.initial                   \* faulty ExportCalls

\* export_calls: all but the history a first scan finds.
ExportCalls(t) == Backfill \/ mem.at[t] # 0 \/ ~scan.initial

AllCalls(t) == CallsOf(t)                                             \* faulty Fresh

\* The thread's calls whose ids are not in its emitted_tool_ids.
Fresh(t) == CallsOf(t) \ mem.ids

\* OtlpSink.emit: the records go into the batch processors' queues.
Emit(records) == queue' = [r \in Records |-> IF r \in records THEN queue[r] + 1 ELSE queue[r]]

\* Extract the calls of the data read now, under the updated_at read when the
\* scan began, and emit the fresh ones.
EmitThread(t) ==
  /\ Changed(t) /\ t \notin Unreadable
  /\ LET fresh == Fresh(t)
         emits == ExportCalls(t) /\ fresh # {}
     IN /\ work' = [thread |-> t, at |-> scan.todo[t], fresh |-> fresh, export |-> ExportCalls(t)]
        /\ Emit(IF emits THEN {Record(c) : c \in fresh} ELSE {})
        /\ pc' = IF emits THEN "flush" ELSE "save"
  /\ scan' = [scan EXCEPT !.todo[t] = 0]
  /\ UNCHANGED <<db, file, mem, delivered, dropped, history, counters>>

\* The batch processors' queues reach the backend, all but the records of lost.
Drain(lost) ==
  /\ delivered' = [r \in Records |-> IF r.call \in lost THEN delivered[r]
                                     ELSE delivered[r] + queue[r]]
  /\ dropped' = dropped \union {c \in lost : \E r \in Records : r.call = c /\ queue[r] > 0}
  /\ queue' = EmptyQueue

\* flush() returns True: every provider's queue was exported.  The exporter
\* may discard a batch it cannot send and still count the flush as done.
FlushSucceeds ==
  /\ pc = "flush"
  /\ pc' = "save"
  /\ \E lost \in SUBSET Calls : Drain(lost)
  /\ UNCHANGED <<db, file, mem, scan, work, history, counters>>

IgnoredFlush ==                                                  \* faulty FlushFails
  /\ pc = "flush" /\ Fails
  /\ pc' = "save"
  /\ UNCHANGED <<db, file, mem, scan, work, pipeline, history, deaths>>

\* flush() returns False: RuntimeError leaves scan() with nothing recorded.
FlushFails ==
  /\ pc = "flush" /\ Fails
  /\ LeaveScan
  /\ UNCHANGED <<db, file, mem, pipeline, history, deaths>>

NowRecorded ==                                                     \* faulty Recorded
  [mem EXCEPT !.at[work.thread] = writtenAt[work.thread], !.ids = @ \union work.fresh]
ExportedRecorded ==                                                \* faulty Recorded
  [mem EXCEPT !.at[work.thread] = work.at, !.ids = IF work.export THEN @ \union work.fresh ELSE @]
FreshRecorded ==                                                   \* faulty Recorded
  [mem EXCEPT !.at[work.thread] = work.at,
              !.ids = {c \in @ : ThreadOf[c] # work.thread} \union work.fresh]
SessionRecorded ==                                                 \* faulty Recorded
  [mem EXCEPT !.at[work.thread] = work.at, !.ids = @ \union {work.thread}]

\* self.state with the processed thread's entry.
Recorded == [mem EXCEPT !.at[work.thread] = work.at, !.ids = @ \union work.fresh]

\* The entry goes into self.state, and _save_state replaces the state file.
CheckpointThread ==
  /\ pc = "save"
  /\ mem' = Recorded
  /\ history' = IF work.export THEN history ELSE history \union work.fresh
  /\ \/ /\ SaveState
        /\ pc' = "scan"
        /\ work' = Idle
        /\ UNCHANGED <<scan, counters>>
     \/ /\ Fails                         \* write_text or replace raises
        /\ LeaveScan
        /\ UNCHANGED <<file, deaths>>
  /\ UNCHANGED <<db, pipeline>>

\* After the last row: baseline_complete, saved.
EndScan ==
  /\ pc = "scan" /\ \A t \in Threads : scan.todo[t] = 0
  /\ LeaveScan
  /\ mem' = [mem EXCEPT !.baseline = TRUE]
  /\ \/ SaveState /\ UNCHANGED counters
     \/ Fails /\ UNCHANGED <<file, deaths>>
  /\ UNCHANGED <<db, pipeline, history>>

Scan ==
  \/ BeginScan \/ EndScan
  \/ \E t \in Threads : SkipThread(t) \/ ReadFails(t) \/ EmitThread(t)
  \/ FlushSucceeds \/ FlushFails \/ CheckpointThread

\* The batch processor's own thread exports a record, or fails to.
BackgroundExport ==
  /\ \E r \in Records :
       /\ queue[r] > 0
       /\ queue' = [queue EXCEPT ![r] = @ - 1]
       /\ \/ delivered' = [delivered EXCEPT ![r] = @ + 1] /\ UNCHANGED dropped
          \/ dropped' = dropped \union {r.call} /\ UNCHANGED delivered
  /\ UNCHANGED <<db, file, process, history, counters>>

\* The process ends.  Memory is lost; the next Start has only the file.
Ends ==
  /\ pc # "down" /\ deaths < MaxDeaths
  /\ deaths' = deaths + 1
  /\ pc' = "down"
  /\ mem' = EmptyCheckpoint
  /\ scan' = NoScan
  /\ work' = Idle
  /\ UNCHANGED <<db, file, history, failures>>

\* Killed (the supervisor script sends SIGTERM): the queues are lost as well.
Killed ==
  /\ Ends
  /\ queue' = EmptyQueue
  /\ UNCHANGED <<delivered, dropped>>

\* An interrupt, or the end of --once: main's finally closes the sink, which
\* shuts the providers down and so exports their queues.
Closed ==
  /\ Ends
  /\ \E lost \in SUBSET Calls : Drain(lost)

Next == Zed \/ Start \/ Scan \/ BackgroundExport \/ Killed \/ Closed

Spec == Init /\ [][Next]_vars

\* run() loops for as long as the process lives.  Nothing obliges Zed, its
\* user or whoever starts the process; MaxFailures makes outages end.
FairSpec == Spec /\ WF_vars(Scan)

-----------------------------------------------------------------------------
(* Properties.                                                              *)

Received(c) == \E r \in Records : r.call = c /\ delivered[r] > 0

\* No call is lost by the observer: one that the state file says was handled
\* was received by the backend, discarded by the exporter itself, or part of
\* the history a first scan checkpoints on purpose.  A flush that failed, a
\* save that failed and a kill at any point never turn into a lost call.
HandledIsAccountedFor ==
  \A c \in file.ids : Received(c) \/ c \in dropped \/ c \in history

\* Starting the observer never replays old detections: once a call was taken
\* as history no copy of it is exported, even if the save that followed failed
\* and a later process meets the call again.
HistoryIsNeverExported ==
  [][~Backfill => \A r \in Records : r.call \in history => delivered'[r] = delivered[r]]_vars

\* Once a checkpoint with a call is on disk, no copy of that call reaches the
\* backend again, not even one left in a queue by a failed flush or emitted
\* by a restarted process.
CheckpointedIsNeverReexported ==
  [][\A r \in Records : r.call \in file.ids => delivered'[r] = delivered[r]]_vars

\* The state file only ever gains: no save, whatever memory it is made from,
\* forgets a call, a thread or the baseline (atomic replace, one writer).
StateFileOnlyGrows ==
  [][/\ file.ids \subseteq file'.ids
     /\ file.baseline => file'.baseline
     /\ \A t \in Threads : file.at[t] # 0 => file'.at[t] >= file.at[t]]_vars

\* Skipping unchanged threads hides no call: when the state file has the
\* updated_at the database has, it has every call of the thread, also those
\* Zed wrote between the scan's two SELECTs or while a flush was waiting.
LevelThreadIsHandled ==
  \A t \in Threads : writtenAt[t] # 0 /\ file.at[t] = writtenAt[t] => CallsOf(t) \subseteq file.ids

\* While an observer goes on running, a call of a thread that can be read and
\* is not deleted is in the end received, discarded by the exporter or taken
\* as history.
EveryCallHandled ==
  \A c \in Calls :
    (result[c] # "none" /\ ThreadOf[c] \notin Unreadable)
      ~> (Received(c) \/ c \in dropped \/ c \in history \/ ThreadOf[c] \in gone \/ pc = "down")

\* Only the first scan takes history: once the baseline is on disk, no call is
\* settled without being exported, whichever scan was cut short by a thread that
\* cannot be read, a failure or a restart.
HistoryIsClosed == [][file.baseline => history' = history]_vars

\* With --backfill-existing nothing is settled as history: what the state file
\* says was handled, the backend received or the exporter discarded.  A first
\* scan that a thread cuts short, before or after others, skips no call.
BackfillSkipsNothing ==
  Backfill => \A c \in file.ids : Received(c) \/ c \in dropped

\* docs/ai_agent_observability.md, lines 60-62: ids and the state file prevent
\* duplicate exports across restarts.
NoDuplicateExport ==
  \A r, s \in Records : r.call = s.call /\ delivered[r] > 0 /\ delivered[s] > 0
                          => r = s /\ delivered[r] = 1

\* docs/ai_agent_observability.md, line 140: otel.status_code says OK or ERROR,
\* for error-rate alerting.  Whenever the state file is level with the stored
\* thread, an exported call that failed was exported as a failure.
FailuresAreExportedAsFailures ==
  \A c \in Calls :
    /\ result[c] = "error" /\ writtenAt[ThreadOf[c]] # 0
    /\ file.at[ThreadOf[c]] = writtenAt[ThreadOf[c]]
    /\ Received(c) /\ c \notin dropped
    => delivered[[call |-> c, status |-> "error"]] > 0

-----------------------------------------------------------------------------
\* The promise, seen from outside: what Zed shows, what the backend has, and
\* what the state file says.
Seen == {c \in Calls : result[c] # "none"}
Copies == [c \in Calls |-> delivered[[call |-> c, status |-> "running"]]
                         + delivered[[call |-> c, status |-> "completed"]]
                         + delivered[[call |-> c, status |-> "error"]]]

Promise == INSTANCE ToolCallExport WITH
  seen <- Seen,
  received <- Copies,
  gaveUp <- dropped,
  settled <- file.ids,
  baseline <- file.baseline

ImplementsPromise == Promise!Spec
=============================================================================
