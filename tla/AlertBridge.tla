------------------------------ MODULE AlertBridge ------------------------------
(***************************************************************************)
(* The way of an alert to the desktop.  The webhook container runs          *)
(* alerts/webhook/notify.sh for every alert, which leaves a file in         *)
(* .data/alerts; tools/desktop_notifier.py polls that directory, shows what *)
(* is new and deletes it.  tools/alert-watcher.sh does the same to the same *)
(* directory, and moves what it has shown.                                  *)
(***************************************************************************)
EXTENDS Naturals, FiniteSetsExt

CONSTANTS
  Alerts,         \* what the webhook is called for
  Ids,            \* file names: the time in milliseconds
  MaxSendFaults,  \* bound: calls of notify-send that fail
  MaxStops        \* bound: the notifier is stopped

VARIABLES
  files,          \* [file names there are -> {the alert} or {}, no complete text]
  script,         \* [Alerts -> "new", "open", "done"]: its notify.sh
  id,             \* [Alerts -> its file name, 0 before it has one]
  malformed,      \* alerts whose file is no JSON: only quotes are escaped
  linked,         \* alerts whose notify.sh has the file open that now has that name
  notifier,       \* "down", "poll", "files", "read", "send", "unlink"
  once,           \* was it started with --once?
  seen, current, fresh,   \* seen_files, current_files, new_files
  rest, at, raw,  \* of new_files, those still to come; the file; its text
  watcher,        \* the file alert-watcher is about to move, or 0
  shown,          \* alerts that were on the desktop
  unsent,         \* alerts notify-send was called for and failed
  hurried,        \* alerts whose file was read before it was complete
  backlog,        \* files a notifier without --replay found when it started
  sendFaults, stops

daemon == <<notifier, once, seen, current, fresh, rest, at, raw>>
webhook == <<script, id, malformed>>
vars == <<files, webhook, linked, daemon, watcher, shown, unsent, hurried, backlog, sendFaults,
          stops>>

TypeOK ==
  /\ DOMAIN files \subseteq Ids
  /\ \A i \in DOMAIN files : \E S \in {{}} \union {{a} : a \in Alerts} : files[i] = S
  /\ script \in [Alerts -> {"new", "open", "done"}]
  /\ id \in [Alerts -> Ids \union {0}]
  /\ {malformed, linked, shown, unsent, hurried} \subseteq SUBSET Alerts
  /\ notifier \in {"down", "poll", "files", "read", "send", "unlink"}
  /\ once \in BOOLEAN
  /\ {seen, current, fresh, rest, backlog} \subseteq SUBSET Ids
  /\ rest \subseteq fresh /\ fresh \subseteq current
  /\ at \in Ids \union {0} /\ watcher \in Ids \union {0}
  /\ raw \in {{}} \union {{a} : a \in Alerts}
  /\ sendFaults \in 0..MaxSendFaults /\ stops \in 0..MaxStops

Init ==
  /\ files = [i \in {} |-> {}]
  /\ script = [a \in Alerts |-> "new"] /\ id = [a \in Alerts |-> 0] /\ malformed = {}
  /\ linked = {}
  /\ notifier = "down" /\ once = FALSE
  /\ seen = {} /\ current = {} /\ fresh = {} /\ rest = {} /\ at = 0 /\ raw = {}
  /\ watcher = 0
  /\ shown = {} /\ unsent = {} /\ hurried = {} /\ backlog = {}
  /\ sendFaults = 0 /\ stops = 0

Put(f, i, t) == [j \in DOMAIN f \union {i} |-> IF j = i THEN t ELSE f[j]]

-----------------------------------------------------------------------------
(* notify.sh.                                                               *)

\* ALERT_ID, and cat > opens the file: it is there, and empty.
Open(a) ==
  /\ script[a] = "new"
  /\ \E i \in Ids :
       /\ \A b \in Alerts : id[b] <= i
       /\ id' = [id EXCEPT ![a] = i]
       /\ files' = Put(files, i, {})
  /\ malformed' \in {malformed, malformed \union {a}}
  /\ script' = [script EXCEPT ![a] = "open"]
  /\ linked' = linked \union {a}
  /\ UNCHANGED <<daemon, watcher, shown, hurried, backlog, unsent, sendFaults, stops>>

\* The text: nobody sees it if the file has been deleted meanwhile, and over the
\* text of another alert it may leave garbage.
Fill(a) ==
  /\ script[a] = "open"
  /\ script' = [script EXCEPT ![a] = "done"]
  /\ IF a \in linked
     THEN \E t \in {{a}} \union (IF files[id[a]] = {} THEN {} ELSE {{}}) :
            files' = [files EXCEPT ![id[a]] = t]
     ELSE UNCHANGED files
  /\ UNCHANGED <<id, malformed, linked, daemon, watcher, shown, hurried, backlog, unsent,
                 sendFaults, stops>>

-----------------------------------------------------------------------------
(* desktop_notifier.                                                        *)

\* unlink, or mv to another directory, of whatever has that name by now.
Remove(i) == /\ files' = [j \in DOMAIN files \ {i} |-> files[j]]
             /\ linked' = {a \in linked : id[a] # i}

\* Those who read a file too early.
Premature(i) == {a \in Alerts : script[a] = "open" /\ id[a] = i}

\* What the process had in memory is gone.
Ended == /\ notifier' = "down" /\ once' = FALSE
         /\ seen' = {} /\ current' = {} /\ fresh' = {} /\ rest' = {} /\ at' = 0 /\ raw' = {}

StartNotifier ==
  /\ notifier = "down"
  /\ notifier' = "poll"
  /\ once' \in BOOLEAN
  /\ \/ seen' = {} /\ UNCHANGED backlog                                  \* --replay
     \/ seen' = DOMAIN files /\ backlog' = backlog \union DOMAIN files
  /\ UNCHANGED <<files, webhook, linked, current, fresh, rest, at, raw, watcher, shown, hurried,
                 unsent, sendFaults, stops>>

ShowsAll ==                                                            \* faulty Poll
  /\ notifier = "poll"
  /\ current' = DOMAIN files
  /\ fresh' = DOMAIN files \ seen /\ rest' = DOMAIN files
  /\ notifier' = "files"
  /\ UNCHANGED <<files, webhook, linked, once, seen, at, raw, watcher, shown, hurried, backlog,
                 unsent, sendFaults, stops>>

Poll ==
  /\ notifier = "poll"
  /\ current' = DOMAIN files
  /\ fresh' = DOMAIN files \ seen /\ rest' = DOMAIN files \ seen
  /\ notifier' = "files"
  /\ UNCHANGED <<files, webhook, linked, once, seen, at, raw, watcher, shown, hurried, backlog,
                 unsent, sendFaults, stops>>

\* The files in the order of their names; one that is gone is passed over.
NextFile ==
  /\ notifier = "files" /\ rest # {}
  /\ rest' = rest \ {Min(rest)}
  /\ \/ Min(rest) \in DOMAIN files /\ at' = Min(rest) /\ notifier' = "read"
     \/ Min(rest) \notin DOMAIN files /\ UNCHANGED <<at, notifier>>
  /\ UNCHANGED <<files, webhook, linked, once, seen, current, fresh, raw, watcher, shown, hurried,
                 backlog, unsent, sendFaults, stops>>

Shows(t) == t # {} /\ t \intersect malformed = {}

TakesFile ==                                                           \* faulty Read
  /\ notifier = "read"
  /\ raw' = IF at \in DOMAIN files THEN files[at] ELSE {}
  /\ notifier' = IF Shows(raw') THEN "send" ELSE "files"
  /\ hurried' = IF raw' = {} THEN hurried \union Premature(at) ELSE hurried
  /\ Remove(at)
  /\ UNCHANGED <<webhook, once, seen, current, fresh, rest, at, watcher, shown, backlog, unsent,
                 sendFaults, stops>>

\* 50 ms later.  What does not parse, or is gone, is deleted like the rest.
Read ==
  /\ notifier = "read"
  /\ raw' = IF at \in DOMAIN files THEN files[at] ELSE {}
  /\ notifier' = IF Shows(raw') THEN "send" ELSE "unlink"
  /\ hurried' = IF raw' = {} THEN hurried \union Premature(at) ELSE hurried
  /\ UNCHANGED <<files, webhook, linked, once, seen, current, fresh, rest, at, watcher, shown,
                 backlog, unsent, sendFaults, stops>>

Send ==
  /\ notifier = "send"
  /\ shown' = shown \union raw
  /\ notifier' = "unlink"
  /\ UNCHANGED <<files, webhook, linked, once, seen, current, fresh, rest, at, raw, watcher,
                 hurried, backlog, unsent, sendFaults, stops>>

\* notify-send is not there, or fails.
NotSent(t) == /\ sendFaults < MaxSendFaults /\ sendFaults' = sendFaults + 1
              /\ unsent' = unsent \union t

\* Whichever it is, the notifier deletes the file all the same.
SendFails ==
  /\ notifier = "send"
  /\ NotSent(raw)
  /\ notifier' = "unlink"
  /\ UNCHANGED <<files, webhook, linked, once, seen, current, fresh, rest, at, raw, watcher, shown,
                 hurried, backlog, stops>>

Unlink ==
  /\ notifier = "unlink"
  /\ Remove(at)
  /\ notifier' = "files" /\ at' = 0 /\ raw' = {}
  /\ UNCHANGED <<webhook, once, seen, current, fresh, rest, watcher, shown, hurried, backlog,
                 unsent, sendFaults, stops>>

SeenNow == DOMAIN files                                                \* faulty Seen

\* A file that arrived during the pass is not among them, one of new_files that
\* exists (again) is.
Seen == current \ (fresh \ DOMAIN files)

EndPass ==
  /\ notifier = "files" /\ rest = {}
  /\ \/ once /\ Ended
     \/ /\ ~once
        /\ seen' = Seen /\ current' = {} /\ fresh' = {}
        /\ notifier' = "poll"
        /\ UNCHANGED <<once, rest, at, raw>>
  /\ UNCHANGED <<files, webhook, linked, watcher, shown, hurried, backlog, unsent, sendFaults,
                 stops>>

Stop ==
  /\ notifier # "down" /\ stops < MaxStops
  /\ stops' = stops + 1
  /\ Ended
  /\ UNCHANGED <<files, webhook, linked, watcher, shown, hurried, backlog, unsent, sendFaults>>

-----------------------------------------------------------------------------
(* alert-watcher.sh: it finds the title in malformed text too.              *)

\* No title is found in an incomplete file, which is moved at once.  Of any other
\* it calls notify-send, and only logs that the call failed.
Watch(i) ==
  /\ watcher = 0 /\ i \in DOMAIN files
  /\ \/ /\ files[i] = {}
        /\ Remove(i) /\ hurried' = hurried \union Premature(i)
        /\ UNCHANGED <<watcher, shown, unsent, sendFaults>>
     \/ /\ files[i] # {}
        /\ watcher' = i
        /\ \/ shown' = shown \union files[i] /\ UNCHANGED <<unsent, sendFaults>>
           \/ NotSent(files[i]) /\ UNCHANGED shown
        /\ UNCHANGED <<files, linked, hurried>>
  /\ UNCHANGED <<webhook, daemon, backlog, stops>>

\* Five seconds later, whether or not the alert was shown.
Move ==
  /\ watcher # 0
  /\ Remove(watcher)
  /\ watcher' = 0
  /\ UNCHANGED <<webhook, daemon, shown, unsent, hurried, backlog, sendFaults, stops>>

\* The loop of a notifier that runs.
Notify == Poll \/ NextFile \/ Read \/ Send \/ Unlink \/ EndPass

Next ==
  \/ \E a \in Alerts : Open(a) \/ Fill(a)
  \/ StartNotifier \/ Notify \/ SendFails \/ Stop
  \/ Move \/ (\E i \in Ids : Watch(i))

Spec == Init /\ [][Next]_vars

\* A notifier that runs goes on: its loop waits for nobody but notify-send, which
\* returns.  It is started by hand, and nobody has to start it, or start it again.
FairSpec == Spec /\ WF_vars(Notify)

-----------------------------------------------------------------------------
(* Properties.                                                              *)

\* Another alert of the same millisecond.
Collides(a) == \E b \in Alerts \ {a} : id[a] = id[b]

\* The ways the code has to lose an alert.
Excused(a) ==
  Collides(a) \/ a \in malformed \/ a \in hurried \/ a \in unsent

\* An alert whose file is complete has been shown or is still in its file, unless
\* its own name, text or notification went wrong: stopping the notifier anywhere,
\* the watcher taking the same file at the same time, and the notifications of
\* other alerts failing lose none.
NothingElseIsLost ==
  \A a \in Alerts : script[a] = "done" /\ ~Excused(a) =>
    a \in shown \/ (id[a] \in DOMAIN files /\ files[id[a]] = {a})

\* And once somebody has started a notifier that keeps running it is shown, unless
\* a notifier found it there when it started and was not asked to replay the
\* backlog.
AlertsReachTheDesktop ==
  <>[](notifier # "down") =>
    \A a \in Alerts :
      script[a] = "done" ~> a \in shown \/ Excused(a) \/ id[a] \in backlog
=============================================================================
