-------------------------- MODULE ObserverSupervisor --------------------------
(***************************************************************************)
(* scripts/zed-agent-observer.sh keeps one observer in the background and   *)
(* its process id in a file.  It may be run by several people and scripts   *)
(* at once, and takes no lock; the observer may die, and its id may come to *)
(* name another program.                                                    *)
(***************************************************************************)

CONSTANTS
  Commands,       \* invocations of the script that may be under way together
  Pids            \* process ids

VARIABLES
  process,        \* [Pids -> "free", or what runs: "script" (forked, not yet the
                  \*   observer), "observer", "stopping" (SIGTERM sent), "other"]
  pidFile,        \* {what zed-observer.pid says}, or {} when it is not there
  pc,             \* [Commands -> where it is]
  restarting,     \* [Commands -> has its stop still to be followed by a start?]
  pid,            \* [Commands -> {its variable pid}, or {} when it has none to use]
  tangled         \* have two commands overlapped, or was a start cut off before its
                  \*   observer ran and was recorded?

vars == <<process, pidFile, pc, restarting, pid, tangled>>

NoPid == {}
Named == {NoPid} \union {{p} : p \in Pids}
Places == {"idle", "start", "launch", "record", "settle", "stop", "kill", "wait", "forget", "status"}

TypeOK ==
  /\ process \in [Pids -> {"free", "script", "observer", "stopping", "other"}]
  /\ pidFile \in Named
  /\ pc \in [Commands -> Places]
  /\ restarting \in [Commands -> BOOLEAN]
  /\ pid \in [Commands -> Named]
  /\ tangled \in BOOLEAN

Init ==
  /\ process = [p \in Pids |-> "free"]
  /\ pidFile = NoPid
  /\ pc = [c \in Commands |-> "idle"]
  /\ restarting = [c \in Commands |-> FALSE]
  /\ pid = [c \in Commands |-> NoPid]
  /\ tangled = FALSE

Alive(p) == process[p] # "free"
Lives(c) == \E p \in pid[c] : Alive(p)                            \* kill -0 "$pid"

AnyProcess == \E p \in pidFile : Alive(p)                         \* faulty Running

\* running_pid: the file names a process, and ps shows the observer's command line.
Running == \E p \in pidFile : process[p] \in {"observer", "stopping"}

Goes(c, place) == pc' = [pc EXCEPT ![c] = place]

\* Its script ends, or goes on with the second half of a restart.
Ends(c) ==
  /\ pc' = [pc EXCEPT ![c] = IF restarting[c] THEN "start" ELSE "idle"]
  /\ restarting' = [restarting EXCEPT ![c] = FALSE]
  /\ pid' = [pid EXCEPT ![c] = NoPid]

\* set -e: it ends without the second half.
Aborts(c) ==
  /\ Goes(c, "idle")
  /\ restarting' = [restarting EXCEPT ![c] = FALSE]
  /\ pid' = [pid EXCEPT ![c] = NoPid]

\* start, stop, restart or status.
Begin(c) ==
  /\ pc[c] = "idle"
  /\ \E place \in {"start", "stop", "status"}, again \in BOOLEAN :
       /\ again => place = "stop"
       /\ Goes(c, place)
       /\ restarting' = [restarting EXCEPT ![c] = again]
  /\ tangled' = (tangled \/ \E d \in Commands : pc[d] # "idle")
  /\ UNCHANGED <<process, pidFile, pid>>

-----------------------------------------------------------------------------
(* start.                                                                   *)

CheckStart(c) ==
  /\ pc[c] = "start"
  /\ \/ Running /\ Ends(c)
     \/ ~Running /\ Goes(c, "launch") /\ UNCHANGED <<restarting, pid>>
  /\ UNCHANGED <<process, pidFile, tangled>>

\* The kernel gives no id a command still holds: ids come round after thousands.
Held(p) == \E c \in Commands : p \in pid[c]

\* rm -f, and nohup in the background.
Launch(c) ==
  /\ pc[c] = "launch"
  /\ pidFile' = NoPid
  /\ \E p \in Pids :
       /\ process[p] = "free" /\ ~Held(p)
       /\ process' = [process EXCEPT ![p] = "script"]
       /\ pid' = [pid EXCEPT ![c] = {p}]
  /\ Goes(c, "record")
  /\ UNCHANGED <<restarting, tangled>>

Record(c) ==
  /\ pc[c] = "record"
  /\ pidFile' = pid[c]
  /\ Goes(c, "settle")
  /\ UNCHANGED <<process, restarting, pid, tangled>>

Executing(c) == \E p \in pid[c] : process[p] = "script"

\* After a second, by which the background process has become the observer or died.
Settle(c) ==
  /\ pc[c] = "settle" /\ ~Executing(c)
  /\ \/ Lives(c) /\ Ends(c)
     \/ ~Lives(c) /\ Goes(c, "forget") /\ UNCHANGED <<restarting, pid>>
  /\ UNCHANGED <<process, pidFile, tangled>>

-----------------------------------------------------------------------------
(* stop and status.                                                         *)

CheckStop(c) ==
  /\ pc[c] = "stop"
  /\ \/ Running /\ Goes(c, "kill") /\ pid' = [pid EXCEPT ![c] = pidFile]
     \/ ~Running /\ Goes(c, "forget") /\ UNCHANGED pid
  /\ UNCHANGED <<process, pidFile, restarting, tangled>>

\* kill fails when the process has died meanwhile.
Kill(c) ==
  /\ pc[c] = "kill"
  /\ \/ /\ Lives(c)
        /\ process' = [p \in Pids |-> IF p \in pid[c] THEN "stopping" ELSE process[p]]
        /\ Goes(c, "wait") /\ UNCHANGED <<restarting, pid>>
     \/ ~Lives(c) /\ Aborts(c) /\ UNCHANGED process
  /\ UNCHANGED <<pidFile, tangled>>

Wait(c) ==
  /\ pc[c] = "wait" /\ ~Lives(c)
  /\ Goes(c, "forget")
  /\ UNCHANGED <<process, pidFile, restarting, pid, tangled>>

StartsAnyway(c) ==                                                \* faulty GiveUp
  /\ pc[c] = "wait" /\ Lives(c)
  /\ Goes(c, "forget")
  /\ UNCHANGED <<process, pidFile, restarting, pid, tangled>>

\* Twenty quarters of a second are over: return 1.
GiveUp(c) ==
  /\ pc[c] = "wait" /\ Lives(c)
  /\ Aborts(c)
  /\ UNCHANGED <<process, pidFile, tangled>>

\* rm -f of the file, whatever it names by now.
Forget(c) ==
  /\ pc[c] = "forget"
  /\ pidFile' = NoPid
  /\ Ends(c)
  /\ UNCHANGED <<process, tangled>>

CheckStatus(c) ==
  /\ pc[c] = "status"
  /\ \/ Running /\ Ends(c)
     \/ ~Running /\ Goes(c, "forget") /\ UNCHANGED <<restarting, pid>>
  /\ UNCHANGED <<process, pidFile, tangled>>

\* Ctrl-C.  What nohup started in the background goes on.
Interrupt(c) ==
  /\ pc[c] # "idle"
  /\ Aborts(c)
  /\ tangled' = (tangled \/ pc[c] = "record"
                             \/ (pc[c] = "settle" /\ Executing(c)))
  /\ UNCHANGED <<process, pidFile>>

-----------------------------------------------------------------------------
(* Processes.                                                               *)

Becomes(p, what) ==
  /\ process' = [process EXCEPT ![p] = what]
  /\ UNCHANGED <<pidFile, pc, restarting, pid, tangled>>

\* nohup, mise and uv are executed, with the observer's name on their command line.
Exec(p) == process[p] = "script" /\ Becomes(p, "observer")

\* It dies of SIGTERM, which it does not handle, or of anything else.
Dies(p) == Alive(p) /\ Becomes(p, "free")

Reused(p) == process[p] = "free" /\ ~Held(p) /\ Becomes(p, "other")

Command(c) ==
  \/ Begin(c) \/ CheckStart(c) \/ Launch(c) \/ Record(c) \/ Settle(c)
  \/ CheckStop(c) \/ Kill(c) \/ Wait(c) \/ GiveUp(c) \/ Forget(c) \/ CheckStatus(c)
  \/ Interrupt(c)

Next ==
  \/ \E c \in Commands : Command(c)
  \/ \E p \in Pids : Exec(p) \/ Dies(p) \/ Reused(p)

Spec == Init /\ [][Next]_vars

-----------------------------------------------------------------------------
(* Properties.                                                              *)

\* As long as no two commands overlapped and no start was cut off in its middle, a
\* running observer is the one the file names, or that a start is about to write
\* there: one observer at most, through deaths, reused ids, stops that give up and
\* interrupts anywhere else.
SingleNamedObserver ==
  ~tangled =>
    \A p \in Pids : process[p] \in {"script", "observer", "stopping"} =>
      pidFile = {p} \/ \E c \in Commands : pc[c] = "record" /\ pid[c] = {p}

\* A stop kills observers alone, though the id in a stale file may have come to
\* name another program and commands overlap.
StopSparesOthers ==
  [][\A p \in Pids : process[p] = "other" => process'[p] # "stopping"]_vars
===============================================================================
