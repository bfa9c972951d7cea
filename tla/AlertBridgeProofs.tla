--------------------------- MODULE AlertBridgeProofs ---------------------------
(***************************************************************************)
(* Theorems about AlertBridge, for any alerts, file names and bounds, as    *)
(* long as a file name is never 0, which stands for none.                   *)
(***************************************************************************)
EXTENDS AlertBridge, TLAPS

\* The names are numbers of milliseconds, and the bounds are numbers.
Assumptions == Ids \subseteq Nat \ {0} /\ MaxSendFaults \in Nat /\ MaxStops \in Nat

-----------------------------------------------------------------------------
(* The inductive invariant.                                                 *)

\* An alert has a file name as soon as its script has made the file.
IdInv == \A a \in Alerts : IF script[a] = "new" THEN id[a] = 0 ELSE id[a] \in Ids

\* Every name that is in the directory, or that somebody is at work on, is some
\* alert's: an alert that comes to have that name collides with it.
Used(i) == \E a \in Alerts : script[a] # "new" /\ id[a] = i
UsedInv ==
  /\ \A i \in DOMAIN files : Used(i)
  /\ notifier \in {"read", "send", "unlink"} => Used(at)
  /\ watcher # 0 => Used(watcher)

\* An alert that has been written, and that nothing has gone wrong with.
Safe(a) == script[a] # "new" /\ ~Excused(a)

Waiting(a) == id[a] \in DOMAIN files /\ files[id[a]] = {a}

\* While it is written its file is there, and empty; then it is in its file or was
\* shown; and who is about to remove the file has shown it.
SafeInv(a) ==
  /\ script[a] = "open" => a \in linked /\ id[a] \in DOMAIN files /\ files[id[a]] = {}
  /\ script[a] = "done" => a \in shown \/ Waiting(a)
  /\ notifier = "send" /\ at = id[a] => script[a] = "done" /\ (raw = {a} \/ a \in shown)
  /\ notifier = "unlink" /\ at = id[a] => script[a] = "done" /\ a \in shown
  /\ watcher = id[a] => script[a] = "done" /\ a \in shown

IInv == TypeOK /\ IdInv /\ UsedInv /\ \A a \in Alerts : Safe(a) => SafeInv(a)

\* No alert has been sent yet.
LEMMA InitInv ==
  ASSUME Assumptions, Init
  PROVE  IInv
<1>1. DOMAIN files = {}
  BY DEF Init
<1>2. TypeOK
  <2>1. {malformed, linked, shown, unsent, hurried} \subseteq SUBSET Alerts
    BY DEF Init
  <2>2. {seen, current, fresh, rest, backlog} \subseteq SUBSET Ids
    BY DEF Init
  <2>3. sendFaults \in 0..MaxSendFaults /\ stops \in 0..MaxStops
    BY DEF Init, Assumptions
  <2> QED
    BY <1>1, <2>1, <2>2, <2>3 DEF Init, TypeOK
<1>3. IdInv /\ UsedInv /\ \A a \in Alerts : ~Safe(a)
  BY <1>1 DEF Init, IdInv, UsedInv, Safe
<1> QED
  BY <1>2, <1>3 DEF IInv

\* What excuses an alert that was written excuses it for good.
LEMMA SafeBefore ==
  ASSUME Assumptions, IInv, [Next]_vars, NEW a \in Alerts, script[a] # "new", Safe(a)'
  PROVE  Safe(a)
<1>1. a \notin unsent
  BY DEF Next, Notify, Open, Fill, StartNotifier, Poll, NextFile, Read, Send, Unlink, EndPass,
         SendFails, NotSent, Stop, Move, Watch, vars, webhook, Safe, Excused
<1>2. a \notin malformed /\ a \notin hurried
  BY DEF Next, Notify, Open, Fill, StartNotifier, Poll, NextFile, Read, Send, Unlink, EndPass,
         SendFails, NotSent, Stop, Move, Watch, vars, webhook, Safe, Excused
<1>3. \A b \in Alerts : script[b] # "new" => id'[b] = id[b]
  BY DEF Next, Notify, Open, Fill, StartNotifier, Poll, NextFile, Read, Send, Unlink, EndPass,
         SendFails, NotSent, Stop, Move, Watch, vars, webhook, IInv, TypeOK
<1>4. ~Collides(a)
  <2> SUFFICES ASSUME NEW b \in Alerts \ {a}, id[a] = id[b] PROVE FALSE
    BY DEF Collides
  <2>1. script[b] # "new"
    BY DEF IInv, IdInv, Assumptions
  <2> QED
    BY <1>3, <2>1 DEF Safe, Excused, Collides
<1> QED
  BY <1>1, <1>2, <1>4 DEF Safe, Excused

-----------------------------------------------------------------------------
(* One lemma per action: the types, the names, and the alerts that are safe. *)

\* A new file; an alert whose name it takes is excused.
LEMMA OpenInv ==
  ASSUME Assumptions, IInv, NEW a \in Alerts, Open(a)
  PROVE  IInv'
<1>1. PICK i \in Ids : id' = [id EXCEPT ![a] = i] /\ files' = Put(files, i, {})
  BY DEF Open
<1>2. TypeOK'
  <2>1. DOMAIN files' \subseteq Ids
    BY <1>1 DEF IInv, TypeOK, Put
  <2>2. \A j \in DOMAIN files' : \E S \in {{}} \union {{b} : b \in Alerts} : files'[j] = S
    BY <1>1 DEF IInv, TypeOK, Put
  <2>3. {malformed', linked', shown', unsent', hurried'} \subseteq SUBSET Alerts
    BY DEF Open, IInv, TypeOK
  <2> QED
    BY <1>1, <2>1, <2>2, <2>3 DEF Open, IInv, TypeOK, daemon
<1>3. IdInv'
  BY <1>1 DEF Open, IInv, TypeOK, IdInv
<1>4. UsedInv'
  <2>1. \A j : Used(j) => Used(j)'
    BY <1>1 DEF Open, IInv, TypeOK, IdInv, Used
  <2>2. Used(i)'
    BY <1>1 DEF Open, IInv, TypeOK, Used
  <2> QED
    BY <1>1, <2>1, <2>2 DEF Open, IInv, UsedInv, Put, daemon
<1>5. ASSUME NEW b \in Alerts, Safe(b)' PROVE SafeInv(b)'
  <2>1. CASE b = a
    <3>1. \A c \in Alerts \ {a} : id[c] # i
      BY <1>1, <1>5, <2>1 DEF Safe, Excused, Collides, IInv, TypeOK
    <3>2. ~Used(i)
      BY <3>1 DEF Used, Open
    <3> QED
      BY <1>1, <2>1, <3>2 DEF Open, SafeInv, IInv, TypeOK, UsedInv, Put, daemon, Assumptions
  <2>2. CASE b # a
    <3>1. script[b] # "new" /\ Safe(b)
      BY <1>5, <2>2, SafeBefore DEF Safe, Open, IInv, TypeOK, Next
    <3>2. id[b] # i /\ id'[b] = id[b]
      BY <1>1, <1>5, <2>2 DEF Safe, Excused, Collides, IInv, TypeOK
    <3> QED
      BY <1>1, <2>2, <3>1, <3>2 DEF Open, SafeInv, Waiting, IInv, TypeOK, Put, daemon
  <2> QED
    BY <2>1, <2>2
<1> QED
  BY <1>2, <1>3, <1>4, <1>5 DEF IInv

\* The text, if the file is still the one the script has open.
LEMMA FillInv ==
  ASSUME Assumptions, IInv, NEW a \in Alerts, Fill(a)
  PROVE  IInv'
<1>1. TypeOK'
  BY DEF Fill, IInv, TypeOK, daemon
<1>2. IdInv' /\ UsedInv'
  BY DEF Fill, IInv, TypeOK, IdInv, UsedInv, Used, daemon
<1>3. ASSUME NEW b \in Alerts, Safe(b)' PROVE SafeInv(b)'
  <2>1. script[b] # "new" /\ Safe(b)
    BY <1>3, SafeBefore DEF Safe, Fill, IInv, TypeOK, Next
  <2>2. CASE b = a
    BY <2>1, <2>2 DEF Fill, SafeInv, Waiting, IInv, TypeOK, daemon
  <2>3. CASE b # a
    <3>1. id[b] # id[a]
      BY <1>3, <2>3 DEF Fill, Safe, Excused, Collides
    <3> QED
      BY <2>1, <2>3, <3>1 DEF Fill, SafeInv, Waiting, IInv, TypeOK, daemon
  <2> QED
    BY <2>2, <2>3
<1> QED
  BY <1>1, <1>2, <1>3 DEF IInv

\* A notifier starts with nothing at work.
LEMMA StartNotifierInv ==
  ASSUME Assumptions, IInv, StartNotifier
  PROVE  IInv'
<1>1. TypeOK'
  BY DEF StartNotifier, Assumptions, IInv, TypeOK, webhook, daemon
<1>2. IdInv' /\ UsedInv'
  BY DEF StartNotifier, Assumptions, IInv, TypeOK, IdInv, UsedInv, Used, webhook, daemon
<1>3. ASSUME NEW b \in Alerts, Safe(b)' PROVE SafeInv(b)'
  <2>1. script[b] # "new" /\ Safe(b)
    BY <1>3, SafeBefore DEF Safe, StartNotifier, webhook, Next, Notify
  <2> QED
    BY <1>3, <2>1
       DEF StartNotifier, Assumptions, Safe, Excused, SafeInv, Waiting, IInv, TypeOK, IdInv,
           webhook, daemon
<1> QED
  BY <1>1, <1>2, <1>3 DEF IInv

\* What is new is not yet read.
LEMMA PollInv ==
  ASSUME Assumptions, IInv, Poll
  PROVE  IInv'
<1>1. TypeOK'
  BY DEF Poll, Assumptions, IInv, TypeOK, webhook, daemon
<1>2. IdInv' /\ UsedInv'
  BY DEF Poll, Assumptions, IInv, TypeOK, IdInv, UsedInv, Used, webhook, daemon
<1>3. ASSUME NEW b \in Alerts, Safe(b)' PROVE SafeInv(b)'
  <2>1. script[b] # "new" /\ Safe(b)
    BY <1>3, SafeBefore DEF Safe, Poll, webhook, Next, Notify
  <2> QED
    BY <1>3, <2>1
       DEF Poll, Assumptions, Safe, Excused, SafeInv, Waiting, IInv, TypeOK, IdInv, webhook,
           daemon
<1> QED
  BY <1>1, <1>2, <1>3 DEF IInv

\* A file that is there has a name that is used.
LEMMA NextFileInv ==
  ASSUME Assumptions, IInv, NextFile
  PROVE  IInv'
<1>1. TypeOK'
  BY DEF NextFile, Assumptions, IInv, TypeOK, webhook, daemon
<1>2. IdInv' /\ UsedInv'
  BY DEF NextFile, Assumptions, IInv, TypeOK, IdInv, UsedInv, Used, webhook, daemon
<1>3. ASSUME NEW b \in Alerts, Safe(b)' PROVE SafeInv(b)'
  <2>1. script[b] # "new" /\ Safe(b)
    BY <1>3, SafeBefore DEF Safe, NextFile, webhook, Next, Notify
  <2> QED
    BY <1>3, <2>1
       DEF NextFile, Assumptions, Safe, Excused, SafeInv, Waiting, IInv, TypeOK, IdInv, webhook,
           daemon
<1> QED
  BY <1>1, <1>2, <1>3 DEF IInv

\* An empty file excuses the alert that is being written to it.
LEMMA ReadInv ==
  ASSUME Assumptions, IInv, Read
  PROVE  IInv'
<1>1. TypeOK'
  BY DEF Read, Shows, Premature, Assumptions, IInv, TypeOK, webhook, daemon
<1>2. IdInv' /\ UsedInv'
  BY DEF Read, Shows, Premature, Assumptions, IInv, TypeOK, IdInv, UsedInv, Used, webhook, daemon
<1>3. ASSUME NEW b \in Alerts, Safe(b)' PROVE SafeInv(b)'
  <2>1. script[b] # "new" /\ Safe(b)
    BY <1>3, SafeBefore DEF Safe, Read, webhook, Next, Notify
  <2> QED
    BY <1>3, <2>1
       DEF Read, Shows, Premature, Assumptions, Safe, Excused, SafeInv, Waiting, IInv, TypeOK,
           IdInv, webhook, daemon
<1> QED
  BY <1>1, <1>2, <1>3 DEF IInv

\* What is shown was in the file.
LEMMA SendInv ==
  ASSUME Assumptions, IInv, Send
  PROVE  IInv'
<1>1. TypeOK'
  BY DEF Send, Assumptions, IInv, TypeOK, webhook, daemon
<1>2. IdInv' /\ UsedInv'
  BY DEF Send, Assumptions, IInv, TypeOK, IdInv, UsedInv, Used, webhook, daemon
<1>3. ASSUME NEW b \in Alerts, Safe(b)' PROVE SafeInv(b)'
  <2>1. script[b] # "new" /\ Safe(b)
    BY <1>3, SafeBefore DEF Safe, Send, webhook, Next, Notify
  <2> QED
    BY <1>3, <2>1
       DEF Send, Assumptions, Safe, Excused, SafeInv, Waiting, IInv, TypeOK, IdInv, webhook,
           daemon
<1> QED
  BY <1>1, <1>2, <1>3 DEF IInv

\* A failed notification excuses the alert it was for.
LEMMA SendFailsInv ==
  ASSUME Assumptions, IInv, SendFails
  PROVE  IInv'
<1>1. TypeOK'
  BY DEF SendFails, NotSent, Assumptions, IInv, TypeOK, webhook, daemon
<1>2. IdInv' /\ UsedInv'
  BY DEF SendFails, NotSent, Assumptions, IInv, TypeOK, IdInv, UsedInv, Used, webhook, daemon
<1>3. ASSUME NEW b \in Alerts, Safe(b)' PROVE SafeInv(b)'
  <2>1. script[b] # "new" /\ Safe(b)
    BY <1>3, SafeBefore DEF Safe, SendFails, webhook, Next, Notify
  <2> QED
    BY <1>3, <2>1
       DEF SendFails, NotSent, Assumptions, Safe, Excused, SafeInv, Waiting, IInv, TypeOK, IdInv,
           webhook, daemon
<1> QED
  BY <1>1, <1>2, <1>3 DEF IInv

\* The notifier has shown what it deletes, or it is excused.
LEMMA UnlinkInv ==
  ASSUME Assumptions, IInv, Unlink
  PROVE  IInv'
<1>1. TypeOK'
  BY DEF Unlink, Assumptions, IInv, TypeOK, webhook, daemon, Remove
<1>2. IdInv' /\ UsedInv'
  BY DEF Unlink, Assumptions, IInv, TypeOK, IdInv, UsedInv, Used, webhook, daemon, Remove
<1>3. ASSUME NEW b \in Alerts, Safe(b)' PROVE SafeInv(b)'
  <2>1. script[b] # "new" /\ Safe(b)
    BY <1>3, SafeBefore DEF Safe, Unlink, webhook, Next, Notify
  <2> QED
    BY <1>3, <2>1
       DEF Unlink, Assumptions, Safe, Excused, SafeInv, Waiting, IInv, TypeOK, IdInv, webhook,
           daemon, Remove
<1> QED
  BY <1>1, <1>2, <1>3 DEF IInv

\* Nothing is at work between two passes.
LEMMA EndPassInv ==
  ASSUME Assumptions, IInv, EndPass
  PROVE  IInv'
<1>1. TypeOK'
  BY DEF EndPass, Ended, Seen, Assumptions, IInv, TypeOK, webhook, daemon
<1>2. IdInv' /\ UsedInv'
  BY DEF EndPass, Ended, Seen, Assumptions, IInv, TypeOK, IdInv, UsedInv, Used, webhook, daemon
<1>3. ASSUME NEW b \in Alerts, Safe(b)' PROVE SafeInv(b)'
  <2>1. script[b] # "new" /\ Safe(b)
    BY <1>3, SafeBefore DEF Safe, EndPass, webhook, Next, Notify
  <2> QED
    BY <1>3, <2>1
       DEF EndPass, Ended, Seen, Assumptions, Safe, Excused, SafeInv, Waiting, IInv, TypeOK,
           IdInv, webhook, daemon
<1> QED
  BY <1>1, <1>2, <1>3 DEF IInv

\* What a notifier that is stopped had in memory is still in its file.
LEMMA StopInv ==
  ASSUME Assumptions, IInv, Stop
  PROVE  IInv'
<1>1. TypeOK'
  <2>1. stops' \in 0..MaxStops
    BY DEF Stop, Assumptions, IInv, TypeOK
  <2>2. {seen', current', fresh', rest', backlog'} \subseteq SUBSET Ids
    BY DEF Stop, Ended, IInv, TypeOK
  <2> QED
    BY <2>1, <2>2 DEF Stop, Ended, IInv, TypeOK, webhook
<1>2. IdInv' /\ UsedInv'
  BY DEF Stop, Ended, Assumptions, IInv, TypeOK, IdInv, UsedInv, Used, webhook, daemon
<1>3. ASSUME NEW b \in Alerts, Safe(b)' PROVE SafeInv(b)'
  <2>1. script[b] # "new" /\ Safe(b)
    BY <1>3, SafeBefore DEF Safe, Stop, webhook, Next, Notify
  <2> QED
    BY <1>3, <2>1
       DEF Stop, Ended, Assumptions, Safe, Excused, SafeInv, Waiting, IInv, TypeOK, IdInv,
           webhook, daemon
<1> QED
  BY <1>1, <1>2, <1>3 DEF IInv

\* A file that is shown holds the alert; an empty one, and a failure, excuse it.
LEMMA WatchInv ==
  ASSUME Assumptions, IInv, NEW i \in Ids, Watch(i)
  PROVE  IInv'
<1>1. TypeOK'
  BY DEF Watch, NotSent, Premature, Assumptions, IInv, TypeOK, webhook, daemon, Remove
<1>2. IdInv' /\ UsedInv'
  BY
     DEF Watch, NotSent, Premature, Assumptions, IInv, TypeOK, IdInv, UsedInv, Used, webhook,
         daemon, Remove
<1>3. ASSUME NEW b \in Alerts, Safe(b)' PROVE SafeInv(b)'
  <2>1. script[b] # "new" /\ Safe(b)
    BY <1>3, SafeBefore DEF Safe, Watch, webhook, Next, Notify
  <2> QED
    BY <1>3, <2>1
       DEF Watch, NotSent, Premature, Assumptions, Safe, Excused, SafeInv, Waiting, IInv, TypeOK,
           IdInv, webhook, daemon, Remove
<1> QED
  BY <1>1, <1>2, <1>3 DEF IInv

\* The watcher has shown what it moves, or it is excused.
LEMMA MoveInv ==
  ASSUME Assumptions, IInv, Move
  PROVE  IInv'
<1>1. TypeOK'
  BY DEF Move, Assumptions, IInv, TypeOK, webhook, daemon, Remove
<1>2. IdInv' /\ UsedInv'
  BY DEF Move, Assumptions, IInv, TypeOK, IdInv, UsedInv, Used, webhook, daemon, Remove
<1>3. ASSUME NEW b \in Alerts, Safe(b)' PROVE SafeInv(b)'
  <2>1. script[b] # "new" /\ Safe(b)
    BY <1>3, SafeBefore DEF Safe, Move, webhook, Next, Notify
  <2> QED
    BY <1>3, <2>1
       DEF Move, Assumptions, Safe, Excused, SafeInv, Waiting, IInv, TypeOK, IdInv, webhook,
           daemon, Remove
<1> QED
  BY <1>1, <1>2, <1>3 DEF IInv

\* The invariant is inductive.
LEMMA NextInv == Assumptions /\ IInv /\ [Next]_vars => IInv'
<1> SUFFICES ASSUME Assumptions, IInv, [Next]_vars PROVE IInv'
  OBVIOUS
<1>1. CASE UNCHANGED vars
  BY <1>1 DEF vars, webhook, daemon, IInv, TypeOK, IdInv, UsedInv, Used, Safe, Excused, Collides,
              SafeInv, Waiting
<1>2. CASE Next
  BY <1>2, OpenInv, FillInv, StartNotifierInv, PollInv, NextFileInv, ReadInv, SendInv, SendFailsInv,
     UnlinkInv, EndPassInv, StopInv, WatchInv, MoveInv DEF Next, Notify
<1> QED
  BY <1>1, <1>2

\* The invariant, from which the theorems below follow.
THEOREM Invariance == ASSUME Assumptions PROVE Spec => []IInv
<1>1. Init => IInv
  BY InitInv
<1>2. IInv /\ [Next]_vars => IInv'
  BY NextInv
<1> QED
  BY <1>1, <1>2, PTL DEF Spec

-----------------------------------------------------------------------------
(* Theorems.                                                                *)

\* The variables of the scripts and of the notifier keep their types.
THEOREM TypeCorrect == ASSUME Assumptions PROVE Spec => []TypeOK
<1>1. IInv => TypeOK
  BY DEF IInv
<1> QED
  BY <1>1, Invariance, PTL

\* Whatever interleaves and wherever the notifier is stopped, an alert in a
\* complete file is lost in the ways the code names and in no other.
THEOREM NoOtherLoss == ASSUME Assumptions PROVE Spec => []NothingElseIsLost
<1>1. IInv => NothingElseIsLost
  BY DEF IInv, Safe, SafeInv, Waiting, NothingElseIsLost
<1> QED
  BY <1>1, Invariance, PTL
===============================================================================
