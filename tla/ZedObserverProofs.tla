--------------------------- MODULE ZedObserverProofs ---------------------------
(***************************************************************************)
(* Proofs about ZedObserver, for every set of threads and calls, every     *)
(* bound and both settings of --backfill-existing.                         *)
(*                                                                         *)
(* The invariants the runs check are not inductive.  What makes them hold  *)
(* is the relation between the four places a call can be in: the state     *)
(* file, the process's memory, the thread being processed and the queue.   *)
(***************************************************************************)
EXTENDS ZedObserver, TLAPS

Scanning == pc \in {"scan", "flush", "save"}
Accounted(c) == Received(c) \/ c \in dropped

\* The condition under which a thread's calls are exported, not taken as history.
Exports(t) == Backfill \/ mem.baseline \/ mem.at[t] # 0

\* Memory is the state file plus what could not be saved; a dead process has
\* neither memory nor queue; a scan keeps the flag it started with.
MemoryInv ==
  /\ pc = "down" => mem = EmptyCheckpoint
  /\ pc # "down" => /\ file.ids \subseteq mem.ids
                    /\ file.baseline => mem.baseline
                    /\ \A t \in Threads : file.at[t] <= mem.at[t]
  /\ Scanning => scan.initial = ~mem.baseline

\* A queued record is of a call Zed has shown, not in memory's ids, whose
\* thread is exported.
QueueInv ==
  \A r \in Records : queue[r] > 0 =>
    /\ pc # "down"
    /\ result[r.call] # "none"
    /\ r.call \notin mem.ids
    /\ Exports(ThreadOf[r.call])
    /\ ~Backfill => r.call \notin history

\* The thread between its extraction and its checkpoint.
WorkInv ==
  /\ pc \notin {"flush", "save"} => work = Idle
  /\ pc \in {"flush", "save"} =>
       /\ work.thread \in Threads
       /\ work.at > mem.at[work.thread]
       /\ work.export <=> Exports(work.thread)
       /\ \A c \in work.fresh : ThreadOf[c] = work.thread /\ result[c] # "none" /\ c \notin mem.ids
  /\ pc = "flush" =>
       /\ work.export
       /\ \A c \in work.fresh : Accounted(c) \/ \E r \in Records : r.call = c /\ queue[r] > 0
  /\ pc = "save" =>
       /\ work.export => \A c \in work.fresh : Accounted(c)
       /\ \A r \in Records : queue[r] > 0 => r.call \notin work.fresh

\* Every checkpointed call was shown by Zed, and was exported unless it is
\* history; what is not yet on disk was exported, or there is no baseline.
CheckpointInv ==
  /\ \A c \in mem.ids \union file.ids : result[c] # "none"
  /\ \A c \in mem.ids \union file.ids : Accounted(c) \/ c \in history
  /\ \A c \in mem.ids \ file.ids : Accounted(c) \/ ~file.baseline

\* History is checkpointed, or will be taken as history again, or its thread
\* was deleted; a first scan does not end without visiting it.
HistoryInv ==
  \A c \in history :
    /\ result[c] # "none"
    /\ ThreadOf[c] \notin gone =>
         /\ c \in file.ids \/ (~file.baseline /\ file.at[ThreadOf[c]] = 0)
         /\ pc # "down" => c \in mem.ids \/ (~mem.baseline /\ mem.at[ThreadOf[c]] = 0)
         /\ Scanning => \/ c \in mem.ids
                        \/ scan.todo[ThreadOf[c]] # 0
                        \/ c \in work.fresh

\* updated_at only grows, and a checkpoint level with the database is complete.
ThreadClock(t) ==
    /\ t \in gone => writtenAt[t] = 0
    /\ writtenAt[t] = 0 /\ t \notin gone => CallsOf(t) = {}
    /\ writtenAt[t] <= writes /\ scan.todo[t] <= writes /\ mem.at[t] <= writes /\ file.at[t] <= writes
    /\ ~Scanning => scan.todo[t] = 0
    /\ writtenAt[t] # 0 => scan.todo[t] <= writtenAt[t]
    /\ scan.todo[t] # 0 => mem.at[t] <= scan.todo[t]
    /\ writtenAt[t] # 0 => mem.at[t] <= writtenAt[t] /\ file.at[t] <= writtenAt[t]
    /\ pc \in {"flush", "save"} /\ work.thread = t =>
         /\ scan.todo[t] = 0
         /\ work.at <= writes
         /\ writtenAt[t] # 0 => work.at <= writtenAt[t]
         /\ work.at = writtenAt[t] => CallsOf(t) \subseteq mem.ids \union work.fresh
    /\ writtenAt[t] # 0 /\ file.at[t] = writtenAt[t] => CallsOf(t) \subseteq file.ids
    /\ writtenAt[t] # 0 /\ mem.at[t] = writtenAt[t] => CallsOf(t) \subseteq mem.ids

ClockInv == \A t \in Threads : ThreadClock(t)

IInv ==
  /\ TypeOK
  /\ MemoryInv
  /\ QueueInv
  /\ WorkInv
  /\ CheckpointInv
  /\ HistoryInv
  /\ ClockInv

-----------------------------------------------------------------------------
(* Type correctness.                                                        *)

USE DEF SaveState, Checkpoint, EmptyCheckpoint, NoScan, Idle, EmptyQueue

\* The fields of a record.
LEMMA RecordFields == \A r \in Records : r.call \in Calls /\ r.status \in Statuses
  BY DEF Records

LEMMA InitType == Init => TypeOK
  BY ThreadAssumption, BoundAssumption DEF Init, TypeOK, Statuses

\* Zed's writes keep the types.
LEMMA ZedType == TypeOK /\ Zed => TypeOK'
<1> SUFFICES ASSUME TypeOK, Zed PROVE TypeOK'
  OBVIOUS
<1> USE ThreadAssumption, OutcomeAssumption, BoundAssumption
    DEF TypeOK, Statuses, SaveThread, process, pipeline, counters
<1>1. ASSUME NEW t \in Threads, NewThread(t) PROVE TypeOK'
  BY <1>1 DEF NewThread
<1>2. ASSUME NEW t \in Threads, DeleteThread(t) PROVE TypeOK'
  BY <1>2 DEF DeleteThread
<1>3. ASSUME NEW c \in Calls, NewCall(c) PROVE TypeOK'
  BY <1>3 DEF NewCall
<1>4. ASSUME NEW c \in Calls, FinishCall(c) PROVE TypeOK'
  BY <1>4 DEF FinishCall
<1>5. QED
  BY <1>1, <1>2, <1>3, <1>4 DEF Zed

\* Exporting all queues, less what is lost, keeps the types.
LEMMA DrainType ==
  ASSUME TypeOK, NEW lost \in SUBSET Calls, Drain(lost)
  PROVE  /\ queue' \in [Records -> Nat]
         /\ delivered' \in [Records -> Nat]
         /\ dropped' \subseteq Calls
<1>1. \A r \in Records : delivered[r] \in Nat /\ queue[r] \in Nat /\ delivered[r] + queue[r] \in Nat
  BY DEF TypeOK
<1>2. delivered' \in [Records -> Nat]
  BY <1>1 DEF Drain
<1>3. QED
  BY <1>2 DEF TypeOK, Drain

\* So do the observer's steps.
LEMMA ObserverType == TypeOK /\ (Start \/ Scan \/ BackgroundExport \/ Killed \/ Closed) => TypeOK'
<1> SUFFICES ASSUME TypeOK, Start \/ Scan \/ BackgroundExport \/ Killed \/ Closed PROVE TypeOK'
  OBVIOUS
<1> USE ThreadAssumption, BoundAssumption, FlagAssumption
    DEF TypeOK, db, process, pipeline, counters, LeaveScan, Fails
<1>1. CASE Start
  BY <1>1 DEF Start
<1>2. CASE BeginScan
  BY <1>2 DEF BeginScan
<1>3. CASE EndScan
  <2>1. mem' \in Checkpoint
    BY <1>3 DEF EndScan
  <2>2. file' \in Checkpoint
    BY <1>3, <2>1 DEF EndScan
  <2>3. QED
    BY <1>3, <2>1, <2>2 DEF EndScan
<1>4. ASSUME NEW t \in Threads, SkipThread(t) PROVE TypeOK'
  BY <1>4 DEF SkipThread
<1>5. ASSUME NEW t \in Threads, ReadFails(t) PROVE TypeOK'
  BY <1>5 DEF ReadFails
<1>6. ASSUME NEW t \in Threads, EmitThread(t) PROVE TypeOK'
  <2>1. ExportCalls(t) \in BOOLEAN
    BY DEF ExportCalls
  <2>2. Fresh(t) \subseteq Calls
    BY DEF Fresh, CallsOf
  <2>3. work' \in [thread : Threads \union {NoThread}, at : 0..MaxWrites,
                   fresh : SUBSET Calls, export : BOOLEAN]
    BY <1>6, <2>1, <2>2 DEF EmitThread
  <2>4. queue' \in [Records -> Nat]
    BY <1>6 DEF EmitThread, Emit
  <2>5. QED
    BY <1>6, <2>3, <2>4 DEF EmitThread
<1>7. CASE FlushSucceeds
  BY <1>7, DrainType DEF FlushSucceeds
<1>8. CASE FlushFails
  BY <1>8 DEF FlushFails
<1>9. CASE CheckpointThread
  <2>1. mem' \in Checkpoint
    BY <1>9 DEF CheckpointThread, Recorded
  <2>2. file' \in Checkpoint
    BY <1>9, <2>1 DEF CheckpointThread
  <2>3. history' \subseteq Calls
    BY <1>9 DEF CheckpointThread
  <2>4. /\ failures' \in 0..MaxFailures
        /\ deaths' \in 0..MaxDeaths
    BY <1>9 DEF CheckpointThread
  <2>5. /\ pc' \in {"down", "sleep", "scan", "flush", "save"}
        /\ scan' \in [initial : BOOLEAN, todo : [Threads -> 0..MaxWrites]]
        /\ work' \in [thread : Threads \union {NoThread}, at : 0..MaxWrites,
                      fresh : SUBSET Calls, export : BOOLEAN]
    <3>1. \/ pc' = "scan" /\ work' = Idle /\ scan' = scan
          \/ pc' = "sleep" /\ work' = Idle /\ scan' = NoScan
      BY <1>9 DEF CheckpointThread
    <3>2. NoScan \in [initial : BOOLEAN, todo : [Threads -> 0..MaxWrites]]
      OBVIOUS
    <3>3. Idle \in [thread : Threads \union {NoThread}, at : 0..MaxWrites,
                    fresh : SUBSET Calls, export : BOOLEAN]
      OBVIOUS
    <3>4. QED
      BY <3>1, <3>2, <3>3
  <2>6. QED
    BY <1>9, <2>1, <2>2, <2>3, <2>4, <2>5 DEF CheckpointThread
<1>10. CASE BackgroundExport
  BY <1>10, RecordFields DEF BackgroundExport
<1>11. CASE Killed
  BY <1>11 DEF Killed, Ends
<1>12. CASE Closed
  BY <1>12, DrainType DEF Closed, Ends
<1>13. QED
  BY <1>1, <1>2, <1>3, <1>4, <1>5, <1>6, <1>7, <1>8, <1>9, <1>10, <1>11, <1>12 DEF Scan

\* Every variable keeps its type in every behaviour.
THEOREM TypeCorrect == Spec => []TypeOK
<1>1. TypeOK /\ UNCHANGED vars => TypeOK'
  BY DEF TypeOK, vars, db, process, pipeline, counters
<1>2. TypeOK /\ [Next]_vars => TypeOK'
  BY <1>1, ZedType, ObserverType DEF Next
<1>3. QED
  BY InitType, <1>2, PTL DEF Spec

-----------------------------------------------------------------------------
(* The inductive invariant.                                                 *)

LEMMA InitInv == Init => IInv
<1> SUFFICES ASSUME Init PROVE IInv
  OBVIOUS
<1> USE ThreadAssumption, BoundAssumption DEF Init
<1>1. TypeOK
  BY InitType
<1>2. MemoryInv
  BY DEF MemoryInv, Scanning
<1>3. QueueInv
  BY DEF QueueInv
<1>4. WorkInv
  BY DEF WorkInv
<1>5. CheckpointInv /\ HistoryInv
  BY DEF CheckpointInv, HistoryInv
<1>6. ClockInv
  BY DEF ClockInv, ThreadClock, CallsOf, Scanning
<1>7. QED
  BY <1>1, <1>2, <1>3, <1>4, <1>5, <1>6 DEF IInv

\* What a step of Zed or its user may change: the rows, and only forwards.
ZedStep ==
  /\ UNCHANGED <<file, process, pipeline, history, counters>>
  /\ writes' >= writes /\ gone \subseteq gone'
  /\ \A c \in Calls : result[c] # "none" => result'[c] # "none"
  /\ \A t \in Threads :
       \/ writtenAt'[t] = writtenAt[t] /\ (t \in gone' <=> t \in gone) /\ CallsOf(t)' = CallsOf(t)
       \/ writtenAt'[t] = 0 /\ t \in gone'
       \/ writtenAt'[t] = writes' /\ writes' = writes + 1 /\ t \notin gone'

LEMMA ZedSteps == TypeOK /\ Zed => ZedStep
<1> SUFFICES ASSUME TypeOK, Zed PROVE ZedStep
  OBVIOUS
<1> USE ThreadAssumption, OutcomeAssumption, BoundAssumption DEF TypeOK, SaveThread, ZedStep, CallsOf
<1>1. ASSUME NEW t \in Threads, NewThread(t) PROVE ZedStep
  BY <1>1 DEF NewThread
<1>2. ASSUME NEW t \in Threads, DeleteThread(t) PROVE ZedStep
  BY <1>2 DEF DeleteThread
<1>3. ASSUME NEW c \in Calls, NewCall(c) PROVE ZedStep
  BY <1>3 DEF NewCall, Statuses
<1>4. ASSUME NEW c \in Calls, FinishCall(c) PROVE ZedStep
  BY <1>4 DEF FinishCall, Statuses
<1>5. QED
  BY <1>1, <1>2, <1>3, <1>4 DEF Zed

LEMMA ZedInv == IInv /\ Zed => IInv'
<1> SUFFICES ASSUME IInv, Zed PROVE IInv'
  OBVIOUS
<1> USE ThreadAssumption, BoundAssumption DEF IInv, process, pipeline, counters
<1>1. TypeOK'
  BY ZedType
<1>2. ZedStep
  BY ZedSteps
<1>3. MemoryInv'
  BY <1>2 DEF ZedStep, MemoryInv, Scanning
<1>4. QueueInv'
  BY <1>2, RecordFields DEF ZedStep, QueueInv, Exports
<1>5. WorkInv'
  BY <1>2 DEF ZedStep, WorkInv, Exports, Accounted, Received, TypeOK
<1>6. CheckpointInv'
  BY <1>2 DEF ZedStep, CheckpointInv, Accounted, Received, TypeOK
<1>7. HistoryInv'
  BY <1>2 DEF ZedStep, HistoryInv, TypeOK, Scanning
<1>8. ClockInv'
  <2> SUFFICES ASSUME NEW t \in Threads PROVE ThreadClock(t)'
    BY DEF ClockInv
  <2> USE DEF ThreadClock, TypeOK, Scanning
  <2>1. ThreadClock(t)
    BY DEF ClockInv
  <2>2. UNCHANGED <<file, process>> /\ writes' \in Nat /\ writes \in Nat /\ writes' >= writes
    BY <1>1, <1>2 DEF ZedStep
  <2>3. CASE writtenAt'[t] = writtenAt[t] /\ (t \in gone' <=> t \in gone) /\ CallsOf(t)' = CallsOf(t)
    BY <2>1, <2>2, <2>3
  <2>4. CASE writtenAt'[t] = 0 /\ t \in gone'
    BY <2>1, <2>2, <2>4 DEF WorkInv
  <2>5. CASE writtenAt'[t] = writes' /\ writes' = writes + 1 /\ t \notin gone'
    BY <2>1, <2>2, <2>5
  <2>6. QED
    BY <1>2, <2>3, <2>4, <2>5 DEF ZedStep
<1>9. QED
  BY <1>1, <1>3, <1>4, <1>5, <1>6, <1>7, <1>8

\* A thread with history that was not deleted has a row.
LEMMA HistoryHasRow ==
  ASSUME IInv, NEW c \in history, ThreadOf[c] \notin gone
  PROVE  ThreadOf[c] \in Threads /\ writtenAt[ThreadOf[c]] # 0
<1>1. c \in Calls /\ ThreadOf[c] \in Threads
  BY ThreadAssumption DEF IInv, TypeOK
<1>2. ThreadClock(ThreadOf[c])
  BY <1>1 DEF IInv, ClockInv
<1>3. c \in CallsOf(ThreadOf[c])
  BY <1>1 DEF IInv, HistoryInv, CallsOf
<1>4. QED
  BY <1>1, <1>2, <1>3 DEF ThreadClock

\* A new process has the file's checkpoint for memory.
LEMMA StartInv ==
  ASSUME IInv, Start
  PROVE  MemoryInv' /\ QueueInv' /\ WorkInv' /\ CheckpointInv' /\ HistoryInv' /\ ClockInv'
<1> USE ThreadAssumption, BoundAssumption, FlagAssumption
    DEF IInv, TypeOK, Start, db, process, pipeline, counters
<1>1. MemoryInv'
  BY DEF MemoryInv, Scanning
<1>2. QueueInv'
  BY DEF QueueInv, Exports
<1>3. WorkInv'
  BY DEF WorkInv, Exports, Accounted, Received
<1>4. CheckpointInv'
  BY DEF CheckpointInv, Accounted, Received
<1>5. HistoryInv'
  BY DEF HistoryInv, Scanning
<1>6. ClockInv'
  BY DEF ClockInv, ThreadClock, CallsOf, Scanning
<1>7. QED
  BY <1>1, <1>2, <1>3, <1>4, <1>5, <1>6

\* The scan has every row still to visit.
LEMMA BeginScanInv ==
  ASSUME IInv, BeginScan
  PROVE  MemoryInv' /\ QueueInv' /\ WorkInv' /\ CheckpointInv' /\ HistoryInv' /\ ClockInv'
<1> USE ThreadAssumption, BoundAssumption, FlagAssumption
    DEF IInv, TypeOK, BeginScan, db, process, pipeline, counters
<1>1. MemoryInv'
  BY DEF MemoryInv, Scanning
<1>2. QueueInv'
  BY DEF QueueInv, Exports
<1>3. WorkInv'
  BY DEF WorkInv, Exports, Accounted, Received
<1>4. CheckpointInv'
  BY DEF CheckpointInv, Accounted, Received
<1>5. HistoryInv'
  BY HistoryHasRow DEF HistoryInv, Scanning
<1>6. ClockInv'
  BY DEF ClockInv, ThreadClock, CallsOf, Scanning
<1>7. QED
  BY <1>1, <1>2, <1>3, <1>4, <1>5, <1>6

\* A row passed over is checkpointed or deleted.
LEMMA SkipInv ==
  ASSUME IInv, NEW t \in Threads, SkipThread(t)
  PROVE  MemoryInv' /\ QueueInv' /\ WorkInv' /\ CheckpointInv' /\ HistoryInv' /\ ClockInv'
<1> USE ThreadAssumption, BoundAssumption, FlagAssumption
    DEF IInv, TypeOK, SkipThread, db, process, pipeline, counters, Unchanged
<1>1. MemoryInv'
  BY DEF MemoryInv, Scanning
<1>2. QueueInv'
  BY DEF QueueInv, Exports
<1>3. WorkInv'
  BY DEF WorkInv, Exports, Accounted, Received
<1>4. CheckpointInv'
  BY DEF CheckpointInv, Accounted, Received
<1>5. HistoryInv'
  BY HistoryHasRow DEF HistoryInv, Scanning
<1>6. ClockInv'
  BY DEF ClockInv, ThreadClock, CallsOf, Scanning
<1>7. QED
  BY <1>1, <1>2, <1>3, <1>4, <1>5, <1>6

\* A read that fails changes nothing that the invariant is about.
LEMMA ReadFailsInv ==
  ASSUME IInv, NEW t \in Threads, ReadFails(t)
  PROVE  MemoryInv' /\ QueueInv' /\ WorkInv' /\ CheckpointInv' /\ HistoryInv' /\ ClockInv'
<1> USE ThreadAssumption, BoundAssumption, FlagAssumption
    DEF IInv, TypeOK, ReadFails, db, process, pipeline, counters, LeaveScan, Changed
<1>1. MemoryInv'
  BY DEF MemoryInv, Scanning
<1>2. QueueInv'
  BY DEF QueueInv, Exports
<1>3. WorkInv'
  BY DEF WorkInv, Exports, Accounted, Received
<1>4. CheckpointInv'
  BY DEF CheckpointInv, Accounted, Received
<1>5. HistoryInv'
  BY HistoryHasRow DEF HistoryInv, Scanning
<1>6. ClockInv'
  BY DEF ClockInv, ThreadClock, CallsOf, Scanning
<1>7. QED
  BY <1>1, <1>2, <1>3, <1>4, <1>5, <1>6

\* The fresh calls of a changed thread are queued if the thread is exported.
LEMMA EmitInv ==
  ASSUME IInv, NEW t \in Threads, EmitThread(t)
  PROVE  MemoryInv' /\ QueueInv' /\ WorkInv' /\ CheckpointInv' /\ HistoryInv' /\ ClockInv'
<1> USE ThreadAssumption, BoundAssumption, FlagAssumption DEF IInv, TypeOK
<1> DEFINE emits == ExportCalls(t) /\ Fresh(t) # {}
<1>1. /\ pc = "scan" /\ scan.todo[t] # 0 /\ ~Unchanged(t) /\ writtenAt[t] # 0
      /\ pc' = IF emits THEN "flush" ELSE "save"
      /\ scan' = [scan EXCEPT !.todo[t] = 0]
      /\ work' = [thread |-> t, at |-> scan.todo[t], fresh |-> Fresh(t), export |-> ExportCalls(t)]
      /\ UNCHANGED <<db, file, mem, delivered, dropped, history, counters>>
  BY DEF EmitThread, Changed
<1>2. \A r \in Records : queue'[r] > 0 => queue[r] > 0 \/ (emits /\ r.call \in Fresh(t))
  BY DEF EmitThread, Emit, Record
<1>3. \A c \in Fresh(t) : \E r \in Records : r.call = c /\ (emits => queue'[r] > 0)
  <2> SUFFICES ASSUME NEW c \in Fresh(t)
               PROVE  Record(c) \in Records /\ Record(c).call = c /\ (emits => queue'[Record(c)] > 0)
    BY Zenon
  <2>1. c \in Calls /\ result[c] \in Statuses
    BY DEF Fresh, CallsOf
  <2>2. Record(c) \in Records /\ Record(c).call = c
    BY <2>1 DEF Record, Records
  <2>3. QED
    BY <2>2 DEF EmitThread, Emit
<1>4. ExportCalls(t) = Exports(t)
  BY <1>1 DEF MemoryInv, Scanning, ExportCalls, Exports
<1>5. \A c \in Fresh(t) : c \in Calls /\ ThreadOf[c] = t /\ result[c] # "none" /\ c \notin mem.ids
  BY DEF Fresh, CallsOf
<1>6. t \notin gone
  BY <1>1 DEF ClockInv, ThreadClock
<1>7. ~Backfill /\ Exports(t) => \A c \in Fresh(t) : c \notin history
  BY <1>1, <1>5, <1>6 DEF HistoryInv, Exports
<1>8. MemoryInv'
  BY <1>1 DEF db, MemoryInv, Scanning
<1>9. QueueInv'
  BY <1>1, <1>2, <1>4, <1>5, <1>7 DEF db, QueueInv, Exports
<1>10. WorkInv'
  <2>1. mem.at[t] < scan.todo[t]
    BY <1>1 DEF ClockInv, ThreadClock, Unchanged
  <2>2. \A r \in Records : queue[r] > 0 /\ r.call \in Fresh(t) => emits
    BY <1>4, <1>5 DEF QueueInv
  <2>3. Exports(t)' = Exports(t)
    BY <1>1 DEF Exports
  <2>4. pc' = "flush" => emits
    BY <1>1
  <2>5. pc' = "save" => ~emits
    BY <1>1
  <2>6. \A c : Accounted(c)' = Accounted(c)
    BY <1>1 DEF Accounted, Received
  <2>7. work'.thread = t /\ work'.at = scan.todo[t] /\ work'.fresh = Fresh(t) /\ work'.export = ExportCalls(t)
    BY <1>1
  <2>8. QED
    BY <1>1, <1>2, <1>3, <1>4, <1>5, <2>1, <2>2, <2>3, <2>4, <2>5, <2>6, <2>7 DEF db, WorkInv
<1>11. CheckpointInv'
  BY <1>1 DEF db, CheckpointInv, Accounted, Received
<1>12. HistoryInv'
  <2>1. \A c \in history : ThreadOf[c] = t => c \in mem.ids \union Fresh(t)
    BY DEF HistoryInv, Fresh, CallsOf
  <2>2. work = Idle /\ work'.fresh = Fresh(t)
    BY <1>1 DEF WorkInv
  <2>3. \A c \in history : c \in Calls /\ ThreadOf[c] \in Threads
    OBVIOUS
  <2>4. \A c \in history : scan'.todo[ThreadOf[c]] = IF ThreadOf[c] = t THEN 0 ELSE scan.todo[ThreadOf[c]]
    BY <1>1, <2>3
  <2>5. QED
    BY <1>1, <2>1, <2>2, <2>3, <2>4 DEF db, HistoryInv, Scanning, counters
<1>13. ClockInv'
  BY <1>1 DEF db, ClockInv, ThreadClock, Fresh, CallsOf, Scanning
<1>14. QED
  BY <1>8, <1>9, <1>10, <1>11, <1>12, <1>13

\* Draining the queues accounts for every queued call, and unaccounts for none.
LEMMA DrainAccounts ==
  ASSUME TypeOK, NEW lost \in SUBSET Calls, Drain(lost)
  PROVE  /\ \A c : Accounted(c) => Accounted(c)'
         /\ \A r \in Records : queue[r] > 0 => Accounted(r.call)'
         /\ queue' = EmptyQueue
<1> USE DEF TypeOK, Accounted, Received
<1>1. \A r \in Records : delivered'[r] = IF r.call \in lost THEN delivered[r] ELSE delivered[r] + queue[r]
  BY DEF Drain
<1>2. \A r \in Records : delivered[r] \in Nat /\ queue[r] \in Nat
  OBVIOUS
<1>3. dropped \subseteq dropped' /\ queue' = EmptyQueue
  BY DEF Drain
<1>4. \A r \in Records : r.call \in lost /\ queue[r] > 0 => r.call \in dropped'
  BY DEF Drain
<1>5. QED
  BY <1>1, <1>2, <1>3, <1>4

\* After a flush the thread's calls are accounted for.
LEMMA FlushSucceedsInv ==
  ASSUME IInv, FlushSucceeds
  PROVE  MemoryInv' /\ QueueInv' /\ WorkInv' /\ CheckpointInv' /\ HistoryInv' /\ ClockInv'
<1> USE ThreadAssumption, BoundAssumption, FlagAssumption
    DEF IInv, TypeOK, FlushSucceeds, db, process, pipeline, counters
<1>1. MemoryInv'
  BY DEF MemoryInv, Scanning
<1>2. QueueInv'
  BY DrainAccounts DEF QueueInv, Exports
<1>3. WorkInv'
  BY DrainAccounts DEF WorkInv, Exports, Accounted, Received
<1>4. CheckpointInv'
  BY DrainAccounts DEF CheckpointInv, Accounted, Received
<1>5. HistoryInv'
  BY DEF HistoryInv, Scanning
<1>6. ClockInv'
  BY DEF ClockInv, ThreadClock, CallsOf, Scanning
<1>7. QED
  BY <1>1, <1>2, <1>3, <1>4, <1>5, <1>6

\* A failed flush leaves its records queued and nothing recorded.
LEMMA FlushFailsInv ==
  ASSUME IInv, FlushFails
  PROVE  MemoryInv' /\ QueueInv' /\ WorkInv' /\ CheckpointInv' /\ HistoryInv' /\ ClockInv'
<1> USE ThreadAssumption, BoundAssumption, FlagAssumption
    DEF IInv, TypeOK, FlushFails, db, process, pipeline, counters, LeaveScan, Fails
<1>1. MemoryInv'
  BY DEF MemoryInv, Scanning
<1>2. QueueInv'
  BY DEF QueueInv, Exports
<1>3. WorkInv'
  BY DEF WorkInv, Exports, Accounted, Received
<1>4. CheckpointInv'
  BY DEF CheckpointInv, Accounted, Received
<1>5. HistoryInv'
  BY DEF HistoryInv, Scanning
<1>6. ClockInv'
  BY DEF ClockInv, ThreadClock, CallsOf, Scanning
<1>7. QED
  BY <1>1, <1>2, <1>3, <1>4, <1>5, <1>6

\* The thread's calls move into memory, and with it into the file.
LEMMA CheckpointThreadInv ==
  ASSUME IInv, CheckpointThread
  PROVE  MemoryInv' /\ QueueInv' /\ WorkInv' /\ CheckpointInv' /\ HistoryInv' /\ ClockInv'
<1> USE ThreadAssumption, BoundAssumption, FlagAssumption DEF IInv, TypeOK
<1>1. /\ pc = "save" /\ work' = Idle
      /\ \/ file' = mem' /\ pc' = "scan" /\ scan' = scan
         \/ file' = file /\ pc' = "sleep" /\ scan' = NoScan
      /\ history' = IF work.export THEN history ELSE history \union work.fresh
      /\ UNCHANGED <<db, pipeline>>
  BY DEF CheckpointThread, LeaveScan
<1>2. /\ mem'.baseline = mem.baseline
      /\ mem'.ids = mem.ids \union work.fresh
      /\ \A t \in Threads : mem'.at[t] = IF t = work.thread THEN work.at ELSE mem.at[t]
  BY DEF CheckpointThread, Recorded
<1>3. /\ work.thread \in Threads /\ work.at > mem.at[work.thread]
      /\ work.export <=> Exports(work.thread)
      /\ \A c \in work.fresh : ThreadOf[c] = work.thread /\ result[c] # "none" /\ c \notin mem.ids
      /\ work.export => \A c \in work.fresh : Accounted(c)
      /\ \A r \in Records : queue[r] > 0 => r.call \notin work.fresh
  BY <1>1 DEF WorkInv
<1>4. \A c : Accounted(c)' = Accounted(c)
  BY <1>1 DEF pipeline, Accounted, Received
<1>5. MemoryInv'
  BY <1>1, <1>2, <1>3 DEF MemoryInv, Scanning
<1>6. QueueInv'
  BY <1>1, <1>2, <1>3, RecordFields DEF QueueInv, Exports, db, pipeline
<1>7. WorkInv'
  BY <1>1 DEF WorkInv
<1>8. CheckpointInv'
  <2>1. mem.baseline = FALSE => file.baseline = FALSE
    BY <1>1 DEF MemoryInv
  <2>2. ~work.export => mem.baseline = FALSE /\ mem.at[work.thread] = 0 /\ work.fresh \subseteq history'
    BY <1>1, <1>3 DEF Exports
  <2>3. history \subseteq history'
    BY <1>1
  <2>4. QED
    BY <1>1, <1>2, <1>3, <1>4, <2>1, <2>2, <2>3 DEF CheckpointInv, MemoryInv, db
<1>9. HistoryInv'
  <2> SUFFICES ASSUME NEW c \in history'
               PROVE  /\ result[c] # "none"
                      /\ ThreadOf[c] \notin gone =>
                           /\ c \in file'.ids \/ (~file'.baseline /\ file'.at[ThreadOf[c]] = 0)
                           /\ c \in mem'.ids \/ (~mem'.baseline /\ mem'.at[ThreadOf[c]] = 0)
                           /\ pc' = "scan" => c \in mem'.ids \/ scan'.todo[ThreadOf[c]] # 0
    BY <1>1 DEF HistoryInv, Scanning, db
  <2>1. c \in Calls /\ ThreadOf[c] \in Threads
    BY <1>1
  <2>2. CASE c \in history
    <3>1. /\ result[c] # "none"
          /\ ThreadOf[c] \notin gone =>
               /\ c \in file.ids \/ (~file.baseline /\ file.at[ThreadOf[c]] = 0)
               /\ c \in mem.ids \/ (~mem.baseline /\ mem.at[ThreadOf[c]] = 0)
               /\ c \in mem.ids \/ scan.todo[ThreadOf[c]] # 0 \/ c \in work.fresh
      BY <1>1, <2>2 DEF HistoryInv, Scanning
    <3>2. ThreadOf[c] \notin gone => c \in mem'.ids \/ (~mem'.baseline /\ mem'.at[ThreadOf[c]] = 0)
      <4>1. work.thread = ThreadOf[c] => scan.todo[ThreadOf[c]] = 0
        BY <1>1, <2>1 DEF ClockInv, ThreadClock
      <4>2. QED
        BY <1>2, <2>1, <3>1, <4>1
    <3>3. QED
      BY <1>1, <1>2, <2>1, <3>1, <3>2
  <2>3. CASE c \notin history
    <3>1. c \in work.fresh /\ ~work.export
      BY <1>1, <2>3
    <3>2. ~mem.baseline /\ mem.at[work.thread] = 0
      BY <1>3, <3>1 DEF Exports
    <3>3. ThreadOf[c] = work.thread /\ result[c] # "none" /\ c \in mem'.ids
      BY <1>2, <1>3, <3>1
    <3>4. ~file.baseline /\ file.at[ThreadOf[c]] = 0
      BY <1>1, <2>1, <3>1, <3>2, <3>3 DEF MemoryInv
    <3>5. QED
      BY <1>1, <3>3, <3>4
  <2>4. QED
    BY <1>1, <2>2, <2>3
<1>10. ClockInv'
  BY <1>1, <1>2, <1>3 DEF ClockInv, ThreadClock, CallsOf, Scanning, db, MemoryInv
<1>11. QED
  BY <1>5, <1>6, <1>7, <1>8, <1>9, <1>10

\* A scan that visited every row closes the history.
LEMMA EndScanInv ==
  ASSUME IInv, EndScan
  PROVE  MemoryInv' /\ QueueInv' /\ WorkInv' /\ CheckpointInv' /\ HistoryInv' /\ ClockInv'
<1> USE ThreadAssumption, BoundAssumption, FlagAssumption
    DEF IInv, TypeOK, EndScan, db, process, pipeline, counters, LeaveScan, Fails
<1>1. MemoryInv'
  BY DEF MemoryInv, Scanning
<1>2. QueueInv'
  BY DEF QueueInv, Exports
<1>3. WorkInv'
  BY DEF WorkInv, Exports, Accounted, Received
<1>4. CheckpointInv'
  BY DEF CheckpointInv, Accounted, Received
<1>5. HistoryInv'
  BY DEF HistoryInv, WorkInv, Scanning
<1>6. ClockInv'
  BY DEF ClockInv, ThreadClock, CallsOf, Scanning
<1>7. QED
  BY <1>1, <1>2, <1>3, <1>4, <1>5, <1>6

\* A record leaves the queue accounted for.
LEMMA BackgroundInv ==
  ASSUME IInv, BackgroundExport
  PROVE  MemoryInv' /\ QueueInv' /\ WorkInv' /\ CheckpointInv' /\ HistoryInv' /\ ClockInv'
<1> USE ThreadAssumption, BoundAssumption, FlagAssumption
    DEF IInv, TypeOK, BackgroundExport, db, process, pipeline, counters
<1>1. MemoryInv'
  BY DEF MemoryInv, Scanning
<1>2. QueueInv'
  BY DEF QueueInv, Exports
<1>3. WorkInv'
  BY RecordFields DEF WorkInv, Exports, Accounted, Received
<1>4. CheckpointInv'
  BY RecordFields DEF CheckpointInv, Accounted, Received
<1>5. HistoryInv'
  BY DEF HistoryInv, Scanning
<1>6. ClockInv'
  BY DEF ClockInv, ThreadClock, CallsOf, Scanning
<1>7. QED
  BY <1>1, <1>2, <1>3, <1>4, <1>5, <1>6

\* The file alone is a consistent checkpoint.
LEMMA KilledInv ==
  ASSUME IInv, Killed
  PROVE  MemoryInv' /\ QueueInv' /\ WorkInv' /\ CheckpointInv' /\ HistoryInv' /\ ClockInv'
<1> USE ThreadAssumption, BoundAssumption, FlagAssumption
    DEF IInv, TypeOK, Killed, db, process, pipeline, counters, Ends
<1>1. MemoryInv'
  BY DEF MemoryInv, Scanning
<1>2. QueueInv'
  BY DEF QueueInv, Exports
<1>3. WorkInv'
  BY DEF WorkInv, Exports, Accounted, Received
<1>4. CheckpointInv'
  BY DEF CheckpointInv, Accounted, Received
<1>5. HistoryInv'
  BY DEF HistoryInv, Scanning
<1>6. ClockInv'
  BY DEF ClockInv, ThreadClock, CallsOf, Scanning
<1>7. QED
  BY <1>1, <1>2, <1>3, <1>4, <1>5, <1>6

\* Likewise, and the queues were drained.
LEMMA ClosedInv ==
  ASSUME IInv, Closed
  PROVE  MemoryInv' /\ QueueInv' /\ WorkInv' /\ CheckpointInv' /\ HistoryInv' /\ ClockInv'
<1> USE ThreadAssumption, BoundAssumption, FlagAssumption
    DEF IInv, TypeOK, Closed, db, process, pipeline, counters, Ends
<1>1. MemoryInv'
  BY DEF MemoryInv, Scanning
<1>2. QueueInv'
  BY DrainAccounts DEF QueueInv, Exports
<1>3. WorkInv'
  BY DEF WorkInv, Exports, Accounted, Received
<1>4. CheckpointInv'
  BY DrainAccounts DEF CheckpointInv, Accounted, Received
<1>5. HistoryInv'
  BY DEF HistoryInv, Scanning
<1>6. ClockInv'
  BY DEF ClockInv, ThreadClock, CallsOf, Scanning
<1>7. QED
  BY <1>1, <1>2, <1>3, <1>4, <1>5, <1>6

\* Every step of the specification keeps the invariant.
LEMMA NextInv == IInv /\ [Next]_vars => IInv'
<1> SUFFICES ASSUME IInv, [Next]_vars PROVE IInv'
  OBVIOUS
<1> DEFINE Rest == MemoryInv' /\ QueueInv' /\ WorkInv' /\ CheckpointInv' /\ HistoryInv' /\ ClockInv'
<1>1. CASE Zed
  BY <1>1, ZedInv
<1>2. CASE Start \/ Scan \/ BackgroundExport \/ Killed \/ Closed
  <2>1. TypeOK'
    BY <1>2, ObserverType DEF IInv
  <2>2. Rest
    BY <1>2, StartInv, BeginScanInv, SkipInv, ReadFailsInv, EmitInv, FlushSucceedsInv, FlushFailsInv,
       CheckpointThreadInv, EndScanInv, BackgroundInv, KilledInv, ClosedInv DEF Scan
  <2>3. QED
    BY <2>1, <2>2 DEF IInv
<1>3. CASE UNCHANGED vars
  <2> USE <1>3 DEF IInv, vars, db, process, pipeline, counters
  <2>1. TypeOK' /\ MemoryInv' /\ QueueInv'
    BY DEF TypeOK, MemoryInv, QueueInv, Exports, Scanning
  <2>2. WorkInv' /\ CheckpointInv'
    BY DEF WorkInv, CheckpointInv, Exports, Accounted, Received
  <2>3. HistoryInv' /\ ClockInv'
    BY DEF HistoryInv, ClockInv, ThreadClock, CallsOf, Scanning
  <2>4. QED
    BY <2>1, <2>2, <2>3
<1>4. QED
  BY <1>1, <1>2, <1>3 DEF Next

\* The inductive invariant holds in every behaviour.
THEOREM Invariance == Spec => []IInv
  BY InitInv, NextInv, PTL DEF Spec

-----------------------------------------------------------------------------
(* What follows from it.                                                    *)

\* A call the state file holds was received, discarded by the exporter, or is
\* history: no crash, failed flush or failed save loses one.
THEOREM NothingIsLost == Spec => []HandledIsAccountedFor
<1>1. IInv => HandledIsAccountedFor
  BY DEF IInv, CheckpointInv, Accounted, HandledIsAccountedFor
<1>2. QED
  BY <1>1, Invariance, PTL

\* A thread skipped as unchanged has no call the state file does not hold.
THEOREM SkippingHidesNothing == Spec => []LevelThreadIsHandled
<1>1. IInv => LevelThreadIsHandled
  BY DEF IInv, ClockInv, ThreadClock, LevelThreadIsHandled
<1>2. QED
  BY <1>1, Invariance, PTL

\* Only records that are queued reach the backend or are discarded.
LEMMA DeliveryStep ==
  ASSUME IInv, [Next]_vars
  PROVE  /\ \A r \in Records : delivered'[r] >= delivered[r]
         /\ \A r \in Records : delivered'[r] # delivered[r] => queue[r] > 0
         /\ dropped \subseteq dropped'
         /\ \A c \in dropped' \ dropped : \E r \in Records : r.call = c /\ queue[r] > 0
<1> USE DEF IInv, TypeOK
<1>1. CASE \E lost \in SUBSET Calls : Drain(lost)
  <2>1. PICK lost \in SUBSET Calls : Drain(lost)
    BY <1>1
  <2>2. \A r \in Records : delivered[r] \in Nat /\ queue[r] \in Nat
    OBVIOUS
  <2>3. \A r \in Records : delivered'[r] = IF r.call \in lost THEN delivered[r] ELSE delivered[r] + queue[r]
    BY <2>1 DEF Drain
  <2>4. dropped' = dropped \union {c \in lost : \E r \in Records : r.call = c /\ queue[r] > 0}
    BY <2>1 DEF Drain
  <2>5. QED
    BY <2>2, <2>3, <2>4
<1>2. CASE BackgroundExport
  BY <1>2 DEF BackgroundExport
<1>3. CASE UNCHANGED <<delivered, dropped>>
  BY <1>3
<1>4. QED
  <2>1. Zed => UNCHANGED <<delivered, dropped>>
    BY ZedSteps DEF ZedStep, pipeline
  <2>2. Start \/ Killed => UNCHANGED <<delivered, dropped>>
    BY DEF Start, Killed, pipeline
  <2>3. Scan => UNCHANGED <<delivered, dropped>> \/ \E lost \in SUBSET Calls : Drain(lost)
    BY DEF Scan, BeginScan, EndScan, SkipThread, ReadFails, EmitThread, FlushSucceeds,
           FlushFails, CheckpointThread, pipeline
  <2>4. Closed => \E lost \in SUBSET Calls : Drain(lost)
    BY DEF Closed
  <2>5. UNCHANGED vars => UNCHANGED <<delivered, dropped>>
    BY DEF vars, pipeline
  <2>6. QED
    BY <1>1, <1>2, <1>3, <2>1, <2>2, <2>3, <2>4, <2>5 DEF Next

\* The state file is left alone or replaced by memory, which holds all of it.
LEMMA FileStep ==
  ASSUME IInv, [Next]_vars
  PROVE  \/ file' = file
         \/ /\ pc \in {"scan", "save"} /\ file' = mem'
            /\ mem'.ids \subseteq mem.ids \union work.fresh
            /\ mem.ids \subseteq mem'.ids
            /\ mem.baseline => mem'.baseline
            /\ \A t \in Threads : mem'.at[t] >= mem.at[t]
            /\ UNCHANGED <<result, delivered, dropped>>
<1> USE DEF IInv, TypeOK
<1>1. CASE Zed
  BY <1>1, ZedSteps DEF ZedStep
<1>2. CASE CheckpointThread
  <2>1. /\ pc = "save" /\ (file' = mem' \/ file' = file)
        /\ UNCHANGED <<result, delivered, dropped>>
    BY <1>2 DEF CheckpointThread, db, pipeline
  <2>2. /\ mem'.baseline = mem.baseline
        /\ mem'.ids = mem.ids \union work.fresh
        /\ \A t \in Threads : mem'.at[t] = IF t = work.thread THEN work.at ELSE mem.at[t]
    BY <1>2 DEF CheckpointThread, Recorded
  <2>3. \A t \in Threads : mem'.at[t] >= mem.at[t]
    BY <2>1, <2>2, BoundAssumption DEF WorkInv
  <2>4. QED
    BY <2>1, <2>2, <2>3
<1>3. CASE EndScan
  BY <1>3, BoundAssumption DEF EndScan, db, pipeline
<1>4. CASE ~Zed /\ ~CheckpointThread /\ ~EndScan
  <2>1. Start \/ Killed \/ Closed \/ BackgroundExport => file' = file
    BY DEF Start, Killed, Closed, Ends, BackgroundExport
  <2>2. Scan => file' = file
    BY <1>4 DEF Scan, BeginScan, SkipThread, ReadFails, EmitThread, FlushSucceeds, FlushFails
  <2>3. UNCHANGED vars => file' = file
    BY DEF vars
  <2>4. QED
    BY <1>4, <2>1, <2>2, <2>3 DEF Next
<1>5. QED
  BY <1>1, <1>2, <1>3, <1>4

\* Without --backfill-existing, what was once taken as history is never
\* exported, through any sequence of restarts and failed saves.
THEOREM NoReplay == Spec => HistoryIsNeverExported
<1>1. IInv /\ [Next]_vars =>
        [~Backfill => \A r \in Records : r.call \in history => delivered'[r] = delivered[r]]_vars
  BY DeliveryStep DEF IInv, QueueInv
<1>2. QED
  BY <1>1, Invariance, PTL DEF Spec, HistoryIsNeverExported

\* A call whose checkpoint is on disk is never exported again.
THEOREM NoExportAfterCheckpoint == Spec => CheckpointedIsNeverReexported
<1>1. IInv /\ [Next]_vars =>
        [\A r \in Records : r.call \in file.ids => delivered'[r] = delivered[r]]_vars
  BY DeliveryStep DEF IInv, QueueInv, MemoryInv
<1>2. QED
  BY <1>1, Invariance, PTL DEF Spec, CheckpointedIsNeverReexported

\* No save of the state file forgets a call, a thread or the baseline.
THEOREM FileMonotonic == Spec => StateFileOnlyGrows
<1>1. IInv /\ [Next]_vars =>
        [/\ file.ids \subseteq file'.ids
         /\ file.baseline => file'.baseline
         /\ \A t \in Threads : file.at[t] # 0 => file'.at[t] >= file.at[t]]_vars
  <2> SUFFICES ASSUME IInv, [Next]_vars
               PROVE  /\ file.ids \subseteq file'.ids
                      /\ file.baseline => file'.baseline
                      /\ \A t \in Threads : file'.at[t] >= file.at[t]
    OBVIOUS
  <2>1. IInv'
    BY NextInv
  <2>2. \A t \in Threads : /\ file.at[t] \in Nat /\ mem.at[t] \in Nat
                           /\ file'.at[t] \in Nat /\ mem'.at[t] \in Nat
    BY <2>1, BoundAssumption DEF IInv, TypeOK
  <2>3. CASE file' = file
    BY <2>2, <2>3
  <2>4. CASE file' # file
    BY <2>2, <2>4, FileStep DEF IInv, MemoryInv
  <2>5. QED
    BY <2>3, <2>4
<1>2. QED
  BY <1>1, Invariance, PTL DEF Spec, StateFileOnlyGrows

\* History grows only while neither the baseline nor --backfill-existing asks
\* for exports.
LEMMA HistoryStep ==
  ASSUME IInv, [Next]_vars
  PROVE  history' = history \/ (~Backfill /\ ~file.baseline)
<1>1. CASE CheckpointThread
  <2>1. pc = "save" /\ history' = IF work.export THEN history ELSE history \union work.fresh
    BY <1>1 DEF CheckpointThread
  <2>2. work.export <=> Exports(work.thread)
    BY <2>1 DEF IInv, WorkInv
  <2>3. file.baseline => mem.baseline
    BY <2>1 DEF IInv, MemoryInv
  <2>4. QED
    BY <2>1, <2>2, <2>3 DEF Exports
<1>2. CASE ~CheckpointThread
  <2>1. Zed => history' = history
    BY ZedSteps DEF IInv, ZedStep
  <2>2. Start \/ Killed \/ Closed \/ BackgroundExport => history' = history
    BY DEF Start, Killed, Closed, Ends, BackgroundExport
  <2>3. Scan => history' = history
    BY <1>2 DEF Scan, BeginScan, EndScan, SkipThread, ReadFails, EmitThread, FlushSucceeds, FlushFails
  <2>4. UNCHANGED vars => history' = history
    BY DEF vars
  <2>5. QED
    BY <2>1, <2>2, <2>3, <2>4 DEF Next
<1>3. QED
  BY <1>1, <1>2

\* Once the baseline is on disk, no call is settled unexported.
THEOREM HistoryCloses == Spec => HistoryIsClosed
<1>1. IInv /\ [Next]_vars => [file.baseline => history' = history]_vars
  BY HistoryStep
<1>2. QED
  BY <1>1, Invariance, PTL DEF Spec, HistoryIsClosed

\* With --backfill-existing every call the state file holds was received or was
\* discarded by the exporter.
THEOREM BackfillExports == Spec => []BackfillSkipsNothing
<1> DEFINE NoHistory == Backfill => history = {}
<1>1. Init => NoHistory
  BY DEF Init
<1>2. IInv /\ NoHistory /\ [Next]_vars => NoHistory'
  BY HistoryStep
<1>3. IInv /\ NoHistory => BackfillSkipsNothing
  BY DEF IInv, CheckpointInv, Accounted, BackfillSkipsNothing
<1>4. QED
  BY <1>1, <1>2, <1>3, Invariance, PTL DEF Spec

-----------------------------------------------------------------------------
(* The observer implements the promise of ToolCallExport.                   *)

\* The copies of a call are the sum over its three possible records.
LEMMA CopiesOf ==
  ASSUME TypeOK, NEW c \in Calls
  PROVE  /\ Copies[c] \in Nat
         /\ \A r \in Records : r.call = c /\ delivered[r] > 0 => Copies[c] > 0
<1> DEFINE R(s) == [call |-> c, status |-> s]
<1>1. /\ R("running") \in Records /\ R("completed") \in Records /\ R("error") \in Records
      /\ \A r \in Records : r.call = c => r \in {R("running"), R("completed"), R("error")}
  BY DEF Records, Statuses
<1>2. Copies[c] = delivered[R("running")] + delivered[R("completed")] + delivered[R("error")]
  BY DEF Copies
<1>3. \A r \in Records : delivered[r] \in Nat
  BY DEF TypeOK
<1> HIDE DEF R
<1>4. QED
  BY <1>1, <1>2, <1>3

\* The initial state is one of the promise's.
LEMMA PromiseInit == Init => Promise!Init
<1> SUFFICES ASSUME Init PROVE Promise!Init
  OBVIOUS
<1>1. Copies = [c \in Calls |-> 0]
  BY DEF Init, Copies, Records, Statuses
<1>2. Seen = {}
  BY DEF Init, Seen
<1>3. QED
  BY <1>1, <1>2 DEF Init, Promise!Init

\* A step that changes nothing the promise sees.
LEMMA Stutter ==
  ASSUME UNCHANGED <<delivered, dropped, file>>, Seen' = Seen
  PROVE  UNCHANGED Promise!vars
  BY DEF Promise!vars, Copies

\* Zed making a call is Appear; its other writes do not show.
LEMMA PromiseZed ==
  ASSUME IInv, Zed
  PROVE  Promise!Appear \/ UNCHANGED Promise!vars
<1> USE ThreadAssumption, OutcomeAssumption, BoundAssumption
    DEF IInv, TypeOK, SaveThread, process, pipeline, counters, Seen
<1>1. ASSUME NEW t \in Threads, NewThread(t) \/ DeleteThread(t) PROVE UNCHANGED Promise!vars
  BY <1>1, Stutter DEF NewThread, DeleteThread
<1>2. ASSUME NEW c \in Calls, FinishCall(c) PROVE UNCHANGED Promise!vars
  BY <1>2, Stutter DEF FinishCall, Statuses
<1>3. ASSUME NEW c \in Calls, NewCall(c) PROVE Promise!Appear
  <2>1. Seen' = Seen \union {c}
    BY <1>3 DEF NewCall, Statuses
  <2>2. UNCHANGED <<Copies, dropped, file>>
    BY <1>3 DEF NewCall, Copies
  <2>3. QED
    BY <2>1, <2>2 DEF Promise!Appear
<1>4. QED
  BY <1>1, <1>2, <1>3 DEF Zed

\* Draining the queues, or exporting a record, is Export.
LEMMA PromiseExport ==
  ASSUME IInv, IInv', [Next]_vars, UNCHANGED <<result, file>>
  PROVE  Promise!Export
<1> DEFINE R(c, s) == [call |-> c, status |-> s]
<1>1. Seen' = Seen
  BY DEF Seen
<1>2. \A c \in Calls, s \in Statuses : R(c, s) \in Records /\ R(c, s).call = c
  BY DEF Records
<1>3. \A c \in Calls, s \in Statuses : /\ delivered[R(c, s)] \in Nat /\ delivered'[R(c, s)] \in Nat
                                      /\ delivered'[R(c, s)] >= delivered[R(c, s)]
  BY <1>2, DeliveryStep DEF IInv, TypeOK
<1>4. \A r \in Records : queue[r] > 0 => r.call \in Seen \ file.ids
  BY RecordFields DEF IInv, QueueInv, MemoryInv, Seen
<1>5. \A c \in Calls, s \in Statuses : delivered'[R(c, s)] # delivered[R(c, s)] => c \in Seen \ file.ids
  BY <1>2, <1>4, DeliveryStep
<1>6. \A c \in Calls :
        /\ Copies[c] = delivered[R(c, "running")] + delivered[R(c, "completed")] + delivered[R(c, "error")]
        /\ Copies'[c] = delivered'[R(c, "running")] + delivered'[R(c, "completed")] + delivered'[R(c, "error")]
  BY DEF Copies
<1> HIDE DEF R
<1>7. \A c \in Calls : /\ Copies'[c] \in Nat /\ Copies'[c] >= Copies[c]
                       /\ Copies'[c] > Copies[c] => c \in Seen \ file.ids
  BY <1>3, <1>5, <1>6 DEF Statuses
<1>8. Copies' \in [Calls -> Nat]
  BY <1>7 DEF Copies
<1>9. \A c \in dropped' \ dropped : c \in Seen \ file.ids
  BY <1>4, DeliveryStep
<1>10. dropped' \in SUBSET Calls /\ dropped \subseteq dropped'
  BY DeliveryStep DEF IInv, TypeOK
<1>11. QED
  BY <1>1, <1>7, <1>8, <1>9, <1>10 DEF Promise!Export

\* Replacing the state file is Settle.
LEMMA PromiseSettle ==
  ASSUME IInv, IInv', [Next]_vars, file' # file
  PROVE  Promise!Settle
<1>1. /\ pc # "down" /\ file' = mem'
      /\ mem.ids \subseteq mem'.ids
      /\ mem.baseline => mem'.baseline
      /\ UNCHANGED <<result, delivered, dropped>>
  BY FileStep
<1>2. UNCHANGED <<Seen, Copies, dropped>>
  BY <1>1 DEF Seen, Copies
<1>3. file'.ids \subseteq Seen
  BY <1>1 DEF IInv, TypeOK, CheckpointInv, Seen
<1>4. file.ids \subseteq file'.ids /\ (file.baseline => file'.baseline)
  BY <1>1 DEF IInv, MemoryInv
<1>5. ASSUME NEW c \in file'.ids \ file.ids PROVE Accounted(c) \/ ~file.baseline
  <2>1. CASE c \in mem.ids
    BY <2>1 DEF IInv, CheckpointInv
  <2>2. CASE c \notin mem.ids
    <3>1. c \in work.fresh /\ pc \in {"scan", "save"}
      BY <1>1, <2>2, FileStep
    <3>2. pc = "save"
      BY <3>1 DEF IInv, WorkInv
    <3>3. work.export \/ ~mem.baseline
      BY <3>2 DEF IInv, WorkInv, Exports
    <3>4. QED
      BY <3>1, <3>2, <3>3 DEF IInv, WorkInv, MemoryInv
  <2>3. QED
    BY <2>1, <2>2
<1>6. \A c \in Calls : Accounted(c) => Copies[c] > 0 \/ c \in dropped
  BY CopiesOf DEF IInv, Accounted, Received
<1>7. file'.baseline \in BOOLEAN
  BY DEF IInv, TypeOK
<1>8. QED
  BY <1>2, <1>3, <1>4, <1>5, <1>6, <1>7 DEF Promise!Settle, Seen

\* Every behaviour of the observer, seen from outside, is one of the promise:
\* delivery at least once, never after the call is settled, and only the first
\* history settled without delivery.
THEOREM Implements == Spec => ImplementsPromise
<1>1. ASSUME IInv, IInv', [Next]_vars PROVE [Promise!Next]_(Promise!vars)
  <2>1. CASE Zed
    BY <1>1, <2>1, PromiseZed DEF Promise!Next
  <2>2. CASE ~Zed /\ file' = file
    <3>1. result' = result
      BY <1>1, <2>2 DEF Next, vars, db, Start, Killed, Closed, Ends, BackgroundExport, Scan, BeginScan,
         EndScan, SkipThread, ReadFails, EmitThread, FlushSucceeds, FlushFails, CheckpointThread
    <3>2. QED
      BY <1>1, <2>2, <3>1, PromiseExport DEF Promise!Next
  <2>3. CASE file' # file
    BY <1>1, <2>3, PromiseSettle DEF Promise!Next
  <2>4. QED
    BY <2>1, <2>2, <2>3
<1>2. QED
  BY <1>1, PromiseInit, Invariance, PTL DEF Spec, ImplementsPromise, Promise!Spec
=============================================================================
