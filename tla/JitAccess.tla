------------------------------- MODULE JitAccess -------------------------------
(***************************************************************************)
(* Just-in-time access (tools/compliance_rbac_jit.py): "grant" creates or  *)
(* elevates an OpenObserve user and appends a ticket to a JSON file;       *)
(* "audit", run hourly by a systemd timer and by hand, deletes the users   *)
(* of expired tickets and marks the tickets.  The commands are separate    *)
(* processes: nothing orders them, the file is loaded, changed and saved   *)
(* without a lock, and a save truncates the file before it writes it.      *)
(*                                                                         *)
(* Each grant command makes one ticket, so tickets are named after it.     *)
(* Requests to OpenObserve may fail, or take effect and lose their answer. *)
(***************************************************************************)
EXTENDS Naturals, FiniteSets

CONSTANTS
  Grants,         \* the grant commands that may be run
  Auditors,       \* what runs audit cycles: the timer, an operator
  Emails,
  EmailOf,        \* [Grants -> Emails], the --email of each grant
  MaxFailures,    \* bound: requests that fail or lose their answer
  MaxCrashes      \* bound: commands that are killed or raise

ASSUME CommandAssumption == EmailOf \in [Grants -> Emails] /\ Grants \intersect Auditors = {}
ASSUME BoundAssumption == MaxFailures \in Nat /\ MaxCrashes \in Nat

VARIABLES
  user,           \* [Emails -> account], OpenObserve's users
  file,           \* the ticket file: "empty", "broken" or a ticket list
  pc,             \* where each command is
  exists,         \* grants whose user_exists is TRUE
  copy,           \* [commands -> ticket list], each command's tickets
  due,            \* [Auditors -> tickets], expired ones the loop has yet to visit
  revoked,        \* auditors that have revoked a ticket in this cycle
  provisioned,    \* tickets with provisioned = TRUE
  expired,        \* tickets whose expires_at has passed
  elevated,       \* ghost: grants whose request took effect
  failures, crashes

locals == <<exists, copy, due, revoked>>
counters == <<failures, crashes>>
vars == <<user, file, pc, locals, provisioned, expired, elevated, counters>>

Commands == Grants \union Auditors
Accounts == {"absent", "ordinary", "jit"}

\* A ticket list: which tickets are in it, and whether they are still active.
TicketLists == [Grants -> {"none", "active", "revoked"}]
NoTickets == [g \in Grants |-> "none"]

TypeOK ==
  /\ user \in [Emails -> Accounts]
  /\ file \in [kind : {"empty", "broken", "text"}, tickets : TicketLists]
  /\ pc \in [Commands -> {"idle", "provision", "load", "loop", "truncate", "write", "done"}]
  /\ exists \subseteq Grants
  /\ copy \in [Commands -> TicketLists]
  /\ due \in [Auditors -> SUBSET Grants]
  /\ revoked \subseteq Auditors
  /\ provisioned \subseteq Grants
  /\ expired \subseteq Grants
  /\ elevated \subseteq Grants
  /\ failures \in 0..MaxFailures
  /\ crashes \in 0..MaxCrashes

\* OpenObserve may already have users with the emails access is granted to.
Init ==
  /\ user \in [Emails -> {"absent", "ordinary"}]
  /\ file = [kind |-> "empty", tickets |-> NoTickets]
  /\ pc = [p \in Commands |-> "idle"]
  /\ exists = {}
  /\ copy = [p \in Commands |-> NoTickets]
  /\ due = [a \in Auditors |-> {}]
  /\ revoked = {}
  /\ provisioned = {} /\ expired = {} /\ elevated = {}
  /\ failures = 0 /\ crashes = 0

Goto(p, l) == pc' = [pc EXCEPT ![p] = l]

\* The command is over and its locals are gone.
Ends(p) ==
  /\ Goto(p, IF p \in Grants THEN "done" ELSE "idle")
  /\ copy' = [copy EXCEPT ![p] = NoTickets]
  /\ due' = [a \in Auditors |-> IF a = p THEN {} ELSE due[a]]
  /\ revoked' = revoked \ {p}

\* A request that fails uses one of the MaxFailures failures.
Fails == failures < MaxFailures /\ failures' = failures + 1

\* A ticket's time runs out, counted from the start of its grant.
Expire(g) ==
  /\ pc[g] # "idle" /\ g \notin expired
  /\ expired' = expired \union {g}
  /\ UNCHANGED <<user, file, pc, locals, provisioned, elevated, counters>>

-----------------------------------------------------------------------------
(* The ticket file.                                                         *)

\* load_jit_tickets: no file, an empty one or one that does not parse is [].
Loaded == IF file.kind = "text" THEN file.tickets ELSE NoTickets

\* save_jit_tickets: opening for writing truncates the file,
Truncate(p) ==
  /\ pc[p] = "truncate"
  /\ file' = [kind |-> "empty", tickets |-> NoTickets]
  /\ Goto(p, "write")
  /\ UNCHANGED <<user, locals, provisioned, expired, elevated, counters>>

\* and the text goes to its start.  When another command has written since, the
\* end of its text may stick out behind: then the file no longer parses.
Write(p) ==
  /\ pc[p] = "write"
  /\ \/ file' = [kind |-> "text", tickets |-> copy[p]]
     \/ /\ file.kind # "empty" /\ file.tickets # copy[p]
        /\ file' = [kind |-> "broken", tickets |-> NoTickets]
  /\ Ends(p)
  /\ UNCHANGED <<user, exists, provisioned, expired, elevated, counters>>

-----------------------------------------------------------------------------
(* handle_grant                                                             *)

\* get_users_list, searched for the email.
Found(g) == user[EmailOf[g]] # "absent"

\* Look the user up; a request that fails yields an empty list.
BeginGrant(g) ==
  /\ pc[g] = "idle"
  /\ Goto(g, "provision")
  /\ \/ /\ exists' = IF Found(g) THEN exists \union {g} ELSE exists
        /\ UNCHANGED failures
     \/ Fails /\ UNCHANGED exists
  /\ UNCHANGED <<user, file, copy, due, revoked, provisioned, expired, elevated, crashes>>

\* The request takes effect where it can: a user is created only if there is
\* none, and updated only if there is one.
Accepted(g) == g \in exists <=> Found(g)

\* create_jit_user or update_jit_user: TRUE if the answer says so, or if it says
\* 400 to an update, which passes for "the user has this role already".
Provision(g) ==
  /\ pc[g] = "provision"
  /\ Goto(g, "load")
  /\ \/ /\ Accepted(g)
        /\ user' = [user EXCEPT ![EmailOf[g]] = "jit"]
        /\ elevated' = elevated \union {g}
        /\ \/ provisioned' = provisioned \union {g} /\ UNCHANGED failures
           \/ Fails /\ UNCHANGED provisioned          \* the answer is lost
     \/ /\ (~Accepted(g) /\ UNCHANGED failures) \/ Fails
        /\ UNCHANGED <<user, elevated, provisioned>>
     \/ /\ g \in exists /\ Fails                      \* 400, for whatever reason
        /\ provisioned' = provisioned \union {g}
        /\ UNCHANGED <<user, elevated>>
  /\ UNCHANGED <<file, locals, expired, crashes>>

\* The ticket is recorded whether or not it was provisioned.
LoadForGrant(g) ==
  /\ pc[g] = "load"
  /\ copy' = [copy EXCEPT ![g] = [Loaded EXCEPT ![g] = "active"]]
  /\ Goto(g, "truncate")
  /\ UNCHANGED <<user, file, exists, due, revoked, provisioned, expired, elevated, counters>>

-----------------------------------------------------------------------------
(* handle_audit                                                             *)

\* The tickets the loop acts on: active, and past expires_at at the time taken
\* once, before the loop.
Overdue(tickets) == {g \in expired : tickets[g] = "active"}

\* Load the tickets, take the time.
BeginAudit(a) ==
  /\ pc[a] = "idle"
  /\ copy' = [copy EXCEPT ![a] = Loaded]
  /\ due' = [due EXCEPT ![a] = Overdue(Loaded)]
  /\ Goto(a, "loop")
  /\ UNCHANGED <<user, file, exists, revoked, provisioned, expired, elevated, counters>>

Mislabelled(tickets, g) == [tickets EXCEPT ![g] = "expired"]           \* faulty Marked

\* ticket["active"] = False
Marked(tickets, g) == [tickets EXCEPT ![g] = "revoked"]

StuckWhenAbsent(a, g) ==                                              \* faulty Revoke
  /\ pc[a] = "loop" /\ g \in due[a]
  /\ user' = [user EXCEPT ![EmailOf[g]] = "absent"]
  /\ copy' = IF user[EmailOf[g]] = "absent" THEN copy ELSE [copy EXCEPT ![a] = Marked(@, g)]
  /\ revoked' = IF user[EmailOf[g]] = "absent" THEN revoked ELSE revoked \union {a}
  /\ due' = [due EXCEPT ![a] = @ \ {g}]
  /\ UNCHANGED <<file, pc, exists, provisioned, expired, elevated, counters>>

\* delete_jit_user succeeds, a user already absent included; the ticket is marked.
Revoke(a, g) ==
  /\ pc[a] = "loop" /\ g \in due[a]
  /\ user' = [user EXCEPT ![EmailOf[g]] = "absent"]
  /\ copy' = [copy EXCEPT ![a] = Marked(@, g)]
  /\ revoked' = revoked \union {a}
  /\ due' = [due EXCEPT ![a] = @ \ {g}]
  /\ UNCHANGED <<file, pc, exists, provisioned, expired, elevated, counters>>

IgnoredAnswer(a, g) ==                                             \* faulty RevokeFails
  /\ pc[a] = "loop" /\ g \in due[a] /\ Fails
  /\ copy' = [copy EXCEPT ![a] = Marked(@, g)]
  /\ revoked' = revoked \union {a}
  /\ due' = [due EXCEPT ![a] = @ \ {g}]
  /\ UNCHANGED <<user, file, pc, exists, provisioned, expired, elevated, crashes>>

\* The request fails, or its answer is lost: the ticket stays as it is.
RevokeFails(a, g) ==
  /\ pc[a] = "loop" /\ g \in due[a] /\ Fails
  /\ user' \in {user, [user EXCEPT ![EmailOf[g]] = "absent"]}
  /\ due' = [due EXCEPT ![a] = @ \ {g}]
  /\ UNCHANGED <<file, pc, exists, copy, revoked, provisioned, expired, elevated, crashes>>

\* Save only if a ticket was marked.
EndLoop(a) ==
  /\ pc[a] = "loop" /\ due[a] = {}
  /\ \/ a \in revoked /\ Goto(a, "truncate") /\ UNCHANGED <<copy, due, revoked>>
     \/ a \notin revoked /\ Ends(a)
  /\ UNCHANGED <<user, file, exists, provisioned, expired, elevated, counters>>

-----------------------------------------------------------------------------

\* A command is killed, or raises: what it held is gone.
Crash(p) ==
  /\ pc[p] \notin {"idle", "done"} /\ crashes < MaxCrashes
  /\ crashes' = crashes + 1
  /\ Ends(p)
  /\ UNCHANGED <<user, file, exists, provisioned, expired, elevated, failures>>

Grant(g) == Provision(g) \/ LoadForGrant(g) \/ Truncate(g) \/ Write(g)

Audit(a) ==
  \/ BeginAudit(a) \/ EndLoop(a) \/ Truncate(a) \/ Write(a)
  \/ \E g \in Grants : Revoke(a, g) \/ RevokeFails(a, g)

Next ==
  \/ \E g \in Grants : BeginGrant(g) \/ Grant(g) \/ Expire(g)
  \/ \E a \in Auditors : Audit(a)
  \/ \E p \in Commands : Crash(p)

Spec == Init /\ [][Next]_vars

\* A command that was started runs on, and the timer starts audit cycles over
\* and over (OnUnitActiveSec, Persistent).  Nobody has to run a grant.
FairSpec ==
  /\ Spec
  /\ \A g \in Grants : WF_vars(Grant(g))
  /\ \A a \in Auditors : WF_vars(Audit(a))

-----------------------------------------------------------------------------
(* Properties.                                                              *)

Stored(g) == Loaded[g]

\* A ticket the file calls closed had expired, and the access it stands for is
\* gone: if its user is elevated all the same, another grant to that email did
\* it.  Stale saves and requests without an answer do not close a ticket early.
ClosedTicketsAreOver ==
  \A g \in Grants : Stored(g) = "revoked" =>
    /\ g \in expired
    /\ user[EmailOf[g]] = "jit" => \E h \in elevated \ {g} : EmailOf[h] = EmailOf[g]

\* Expired tickets the file holds do not stay open, although saves of other
\* commands may reopen them, tickets may share a user that is already deleted,
\* and requests may fail.
OverdueTicketsAreClosed == <>[](\A g \in expired : Stored(g) # "active")

\* scripts/install-jit-timer.sh, lines 4-5: the timer runs the audit "so expired
\* JIT access tickets are actually revoked": a user elevated by a grant that
\* has expired does not stay elevated.
ExpiredAccessEnds ==
  \A g \in Grants : (g \in elevated /\ g \in expired) ~> user[EmailOf[g]] = "absent"

\* docs/compliance_crosswalk.md, line 52: the provisioned flag keeps the timer
\* from revoking against a principal that was never granted anything: a user no
\* grant has touched is not deleted for a ticket that is not provisioned.
PhantomIsNeverRevoked ==
  [][\A e \in Emails : user[e] = "ordinary" /\ user'[e] = "absent"
                         => \E g \in provisioned : EmailOf[g] = e]_vars
=============================================================================
