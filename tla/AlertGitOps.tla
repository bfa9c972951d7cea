------------------------------ MODULE AlertGitOps ------------------------------
(***************************************************************************)
(* Alert rules between OpenObserve and the repository (tools/oo_alerts.py,  *)
(* scripts/add_agent_alerts.py): "export" writes every alert it can fetch   *)
(* to alerts.json, "import" updates or creates the file's alerts.  Commands *)
(* run one at a time; people edit alerts in OpenObserve all the while, and  *)
(* a request may fail after it had its effect.                              *)
(***************************************************************************)
EXTENDS Naturals, Sequences, SequencesExt

CONSTANTS
  Ids,            \* OpenObserve's alert ids
  Names,          \* names of alerts
  AgentNames,     \* the names of NEW_ALERTS
  InitialFile,    \* the committed alerts.json, a sequence of alerts
  MaxUserEdits,   \* bound: alerts people create and delete
  MaxCommands,    \* bound: imports, exports and additions
  MaxFaults       \* bound: requests that fail

\* What the conversions look at: the stream of an alert, and the stream its SQL
\* names.  "system_logs" is OpenObserve's name, "system-logs" the repository's.
Streams == {"system_logs", "system-logs", "other"}

VARIABLES
  store,          \* OpenObserve: [ids in use -> alert]
  destination,    \* does it have the destination "localhost-webhook"?
  alerts,         \* alerts.json
  command,        \* "idle", "destination", "import", "export"
  known,          \* existing_map of the import: [name -> id]
  queue,          \* alerts the import has still to send
  listed,         \* ids the export has still to fetch
  fetched,        \* clean_alerts of the export
  quiet,          \* has nothing failed, and no alert changed, since the command began?
  mirrored,       \* an import that was quiet to its end is the latest change
  userEdits, commands, requests

process == <<command, known, queue, listed, fetched, quiet>>
bounds == <<userEdits, commands, requests>>
vars == <<store, destination, alerts, process, mirrored, bounds>>

Alert == [name : Names, stream : Streams, sql : Streams]
NamesIn(s) == {s[i].name : i \in DOMAIN s}
StoredNames == {store[i].name : i \in DOMAIN store}
NoAlerts == [i \in {} |-> 0]
Put(f, i, a) == [j \in DOMAIN f \union {i} |-> IF j = i THEN a ELSE f[j]]

TypeOK ==
  /\ DOMAIN store \subseteq Ids /\ \A i \in DOMAIN store : store[i] \in Alert
  /\ \A i \in DOMAIN alerts : alerts[i] \in Alert
  /\ \A i \in DOMAIN fetched : fetched[i] \in Alert
  /\ command \in {"idle", "destination", "import", "export"}
  /\ DOMAIN known \subseteq Names
  /\ destination \in BOOLEAN /\ quiet \in BOOLEAN /\ mirrored \in BOOLEAN
  /\ userEdits \in 0..MaxUserEdits /\ commands \in 0..MaxCommands /\ requests \in 0..MaxFaults

Init ==
  /\ store = NoAlerts
  /\ destination = FALSE
  /\ alerts = InitialFile
  /\ command = "idle" /\ known = NoAlerts /\ queue = <<>> /\ listed = {} /\ fetched = <<>>
  /\ quiet = TRUE /\ mirrored = FALSE
  /\ userEdits = 0 /\ commands = 0 /\ requests = 0

-----------------------------------------------------------------------------
Rename(s, from, to) == IF s = from THEN to ELSE s

NameOnly(a) == [a EXCEPT !.stream = Rename(@, "system-logs", "system_logs")]    \* faulty Payload

\* import_alerts: the SQL is mapped back only of an alert on the stream itself.
Payload(a) ==
  IF a.stream = "system-logs"
  THEN [a EXCEPT !.stream = "system_logs", !.sql = Rename(@, "system-logs", "system_logs")]
  ELSE a

\* export_alerts.  It would rename the stream's type as well, which is one of
\* OpenObserve's kinds of streams and never that name.
CleanAlert(a) ==
  [a EXCEPT !.stream = Rename(@, "system_logs", "system-logs"),
            !.sql = Rename(@, "system_logs", "system-logs")]

Fails == requests < MaxFaults /\ requests' = requests + 1

NothingKnown == known' = NoAlerts                                  \* faulty ListAlerts

\* list_existing_alerts as a map; of alerts with one name the last one counts.
ListAlerts == known' \in {f \in [StoredNames -> DOMAIN store] :
                            \A n \in StoredNames : store[f[n]].name = n}

BeginCommand(c) ==
  /\ command = "idle" /\ commands < MaxCommands
  /\ commands' = commands + 1
  /\ command' = c /\ quiet' = TRUE /\ mirrored' = FALSE /\ fetched' = <<>>

\* An exit code of 1: a list that cannot be had, a destination not created.
Exits == /\ command' = "idle" /\ quiet' = FALSE
         /\ UNCHANGED <<store, alerts, known, queue, listed, fetched, mirrored, userEdits, commands>>

BeginImport ==
  /\ BeginCommand("destination")
  /\ ListAlerts
  /\ queue' = alerts
  /\ UNCHANGED <<store, destination, alerts, listed, userEdits, requests>>

\* setup_destination, which is a command of its own too.
SetupDestination ==
  /\ command = "destination"
  /\ destination' = TRUE
  /\ command' = "import"
  /\ UNCHANGED <<store, alerts, known, queue, listed, fetched, quiet, mirrored, bounds>>

\* A list or POST that fails, before or after its effect.
SetupFails ==
  /\ command = "destination" /\ Fails
  /\ destination' \in {destination, TRUE}
  /\ Exits

SkipKnown(a) == a.name \in DOMAIN known /\ store' = store             \* faulty Update

\* PUT of an alert that was listed; if it has been deleted since, nothing happens.
Update(a) ==
  /\ a.name \in DOMAIN known
  /\ store' = IF known[a.name] \in DOMAIN store THEN Put(store, known[a.name], Payload(a)) ELSE store

\* POST of any other.
Create(a) ==
  /\ a.name \notin DOMAIN known
  /\ \E i \in Ids \ DOMAIN store : store' = Put(store, i, Payload(a))

ImportAlert ==
  /\ command = "import" /\ queue # <<>>
  /\ Update(Head(queue)) \/ Create(Head(queue))
  /\ queue' = Tail(queue)
  /\ UNCHANGED <<destination, alerts, command, known, listed, fetched, quiet, mirrored, bounds>>

\* The request has no effect, or has one and its answer is lost.
ImportAlertFails ==
  /\ command = "import" /\ queue # <<>> /\ Fails
  /\ UNCHANGED store \/ Update(Head(queue)) \/ Create(Head(queue))
  /\ quiet' = FALSE
  /\ queue' = Tail(queue)
  /\ UNCHANGED <<destination, alerts, command, known, listed, fetched, mirrored, userEdits, commands>>

EndImport ==
  /\ command = "import" /\ queue = <<>>
  /\ command' = "idle" /\ mirrored' = quiet
  /\ UNCHANGED <<store, destination, alerts, known, queue, listed, fetched, quiet, bounds>>

-----------------------------------------------------------------------------
BeginExport ==
  /\ BeginCommand("export")
  /\ listed' = DOMAIN store
  /\ UNCHANGED <<store, destination, alerts, known, queue, userEdits, requests>>

FetchDetails ==
  /\ command = "export"
  /\ \E i \in listed \intersect DOMAIN store :
       fetched' = Append(fetched, CleanAlert(store[i])) /\ listed' = listed \ {i}
  /\ UNCHANGED <<store, destination, alerts, command, known, queue, quiet, mirrored, bounds>>

\* An alert whose details cannot be had, or that is gone, is left out.
FetchFails ==
  /\ command = "export"
  /\ \E i \in listed :
       /\ listed' = listed \ {i}
       /\ IF i \in DOMAIN store THEN Fails ELSE UNCHANGED requests
  /\ quiet' = FALSE
  /\ UNCHANGED <<store, destination, alerts, command, known, queue, fetched, mirrored, userEdits, commands>>

WriteAlerts ==
  /\ command = "export" /\ listed = {}
  /\ alerts' = fetched
  /\ command' = "idle" /\ mirrored' = quiet
  /\ UNCHANGED <<store, destination, known, queue, listed, fetched, quiet, bounds>>

\* add_agent_alerts: those of NEW_ALERTS whose name the file does not have.
AddAgentAlerts ==
  /\ command = "idle" /\ commands < MaxCommands
  /\ commands' = commands + 1 /\ mirrored' = FALSE
  /\ alerts' = alerts \o SetToSeq({[name |-> n, stream |-> "other", sql |-> "other"] :
                                     n \in AgentNames \ NamesIn(alerts)})
  /\ UNCHANGED <<store, destination, process, userEdits, requests>>

-----------------------------------------------------------------------------
(* People, in OpenObserve, who use its names.                               *)

UserEdit == /\ userEdits < MaxUserEdits /\ userEdits' = userEdits + 1
            /\ quiet' = FALSE /\ mirrored' = FALSE
            /\ UNCHANGED <<destination, alerts, command, known, queue, listed, fetched, commands, requests>>

UserCreates ==
  /\ \E i \in Ids \ DOMAIN store, n \in Names \ StoredNames, s, q \in {"system_logs", "other"} :
       store' = Put(store, i, [name |-> n, stream |-> s, sql |-> q])
  /\ UserEdit

UserDeletes ==
  /\ \E i \in DOMAIN store : store' = [j \in DOMAIN store \ {i} |-> store[j]]
  /\ UserEdit

Import == BeginImport \/ SetupDestination \/ SetupFails \/ ImportAlert \/ ImportAlertFails \/ EndImport
Export == BeginExport \/ FetchDetails \/ FetchFails \/ WriteAlerts

Next == Import \/ Export \/ AddAgentAlerts \/ UserCreates \/ UserDeletes

Spec == Init /\ [][Next]_vars

-----------------------------------------------------------------------------
(* Properties.                                                              *)

\* An alert on the system logs queries the stream OpenObserve has, through any
\* exports and imports: the names are mapped there and back.
QueriesNameTheStream ==
  \A i \in DOMAIN store : store[i].stream = "system_logs" => store[i].sql # "system-logs"

UniqueNames == \A i, j \in DOMAIN store : store[i].name = store[j].name => i = j

\* Of two alerts of one name in the file an import sends the later one last.
Latest(k) == \A j \in DOMAIN alerts : alerts[j].name = alerts[k].name => j <= k

\* After a command in which no request failed and nobody else changed an alert, what
\* the file says of a name is in the store, up to the stream's two names: an import
\* repairs whatever earlier commands left half done.
FileAndStoreAgree ==
  mirrored =>
    \A k \in DOMAIN alerts : Latest(k) =>
      \E i \in DOMAIN store : CleanAlert(store[i]) = CleanAlert(alerts[k])

\* No command gives two alerts one name, though requests are repeated and answers
\* are lost: only somebody who creates an alert between an import's list and its
\* requests does.
NamesAreUnique == userEdits = 0 => UniqueNames
=============================================================================
