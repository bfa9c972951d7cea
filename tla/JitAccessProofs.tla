---------------------------- MODULE JitAccessProofs ----------------------------
(***************************************************************************)
(* Proofs about JitAccess, for any number of grants, auditors and emails.  *)
(*                                                                         *)
(* What the file says of a closed ticket has to hold of every command's    *)
(* copy too, for any of them may be saved at any time, however stale.      *)
(***************************************************************************)
EXTENDS JitAccess, TLAPS

\* What is true of a ticket that a list calls closed.
Over(g) ==
  /\ g \in expired
  /\ user[EmailOf[g]] = "jit" => \E h \in elevated \ {g} : EmailOf[h] = EmailOf[g]

ListOver(tickets) == \A g \in Grants : tickets[g] = "revoked" => Over(g)

\* The file and every copy are right about closed tickets; an auditor only has
\* expired tickets to visit; a grant still at work is in no list as closed.
IInv ==
  /\ TypeOK
  /\ ListOver(file.tickets)
  /\ \A p \in Commands : ListOver(copy[p])
  /\ \A a \in Auditors : due[a] \subseteq expired
  /\ \A g \in Grants : pc[g] \in {"idle", "provision", "load"} =>
       /\ file.tickets[g] = "none"
       /\ \A p \in Commands : copy[p][g] = "none"
       /\ \A a \in Auditors : g \notin due[a]

USE CommandAssumption, BoundAssumption DEF Commands, TicketLists, NoTickets

LEMMA InitInv == Init => IInv
  BY DEF Init, IInv, TypeOK, ListOver, Accounts

\* A loaded list is what the file holds, or is empty.
LEMMA LoadedList ==
  ASSUME TypeOK
  PROVE  Loaded \in TicketLists /\ \A g \in Grants : Loaded[g] \in {file.tickets[g], "none"}
  BY DEF TypeOK, Loaded

\* Marking a ticket, and ending a command, keep the types.
LEMMA MarkedList ==
  ASSUME NEW tickets \in TicketLists, NEW g \in Grants
  PROVE  /\ Marked(tickets, g) \in TicketLists
         /\ Marked(tickets, g)[g] = "revoked"
         /\ \A h \in Grants \ {g} : Marked(tickets, g)[h] = tickets[h]
  BY DEF Marked

LEMMA EndsType ==
  ASSUME TypeOK, NEW p \in Commands, Ends(p)
  PROVE  /\ pc' \in [Commands -> {"idle", "provision", "load", "loop", "truncate", "write", "done"}]
         /\ copy' \in [Commands -> TicketLists]
         /\ due' \in [Auditors -> SUBSET Grants]
         /\ revoked' \subseteq Auditors
  BY DEF TypeOK, Ends, Goto

-----------------------------------------------------------------------------
(* Type correctness.                                                        *)

\* Steps of a grant, and of a ticket's time.
LEMMA GrantType ==
  ASSUME TypeOK, NEW g \in Grants, BeginGrant(g) \/ Provision(g) \/ LoadForGrant(g) \/ Expire(g)
  PROVE  TypeOK'
<1> USE DEF TypeOK, Goto, Fails, Accounts, locals, counters
<1>1. CASE BeginGrant(g)
  BY <1>1 DEF BeginGrant
<1>2. CASE Provision(g)
  <2>1. /\ user' \in [Emails -> Accounts]
        /\ elevated' \subseteq Grants /\ provisioned' \subseteq Grants
    BY <1>2 DEF Provision
  <2>2. failures' \in 0..MaxFailures
    BY <1>2 DEF Provision
  <2>3. /\ pc' \in [Commands -> {"idle", "provision", "load", "loop", "truncate", "write", "done"}]
        /\ UNCHANGED <<file, locals, expired, crashes>>
    BY <1>2 DEF Provision
  <2>4. QED
    BY <2>1, <2>2, <2>3
<1>3. CASE LoadForGrant(g)
  <2>1. [Loaded EXCEPT ![g] = "active"] \in TicketLists
    BY LoadedList
  <2>2. copy' \in [Commands -> TicketLists]
    BY <1>3, <2>1 DEF LoadForGrant
  <2>3. QED
    BY <1>3, <2>2 DEF LoadForGrant
<1>4. CASE Expire(g)
  BY <1>4 DEF Expire
<1>5. QED
  BY <1>1, <1>2, <1>3, <1>4

\* Steps of an audit cycle.
LEMMA AuditType ==
  ASSUME TypeOK, NEW a \in Auditors,
         \/ BeginAudit(a) \/ EndLoop(a)
         \/ \E g \in Grants : Revoke(a, g) \/ RevokeFails(a, g)
  PROVE  TypeOK'
<1> USE DEF TypeOK, Goto, Fails, Accounts, counters
<1>1. CASE BeginAudit(a)
  <2>1. Overdue(Loaded) \subseteq Grants
    BY DEF Overdue
  <2>2. copy' \in [Commands -> TicketLists] /\ due' \in [Auditors -> SUBSET Grants]
    BY <1>1, <2>1, LoadedList DEF BeginAudit
  <2>3. QED
    BY <1>1, <2>2 DEF BeginAudit
<1>2. CASE EndLoop(a)
  <2>1. UNCHANGED <<user, file, exists, provisioned, expired, elevated, failures, crashes>>
    BY <1>2 DEF EndLoop
  <2>2. CASE a \notin revoked /\ Ends(a)
    BY <2>1, <2>2, EndsType
  <2>3. CASE Goto(a, "truncate") /\ UNCHANGED <<copy, due, revoked>>
    BY <2>1, <2>3
  <2>4. QED
    BY <1>2, <2>2, <2>3 DEF EndLoop
<1>3. ASSUME NEW g \in Grants, Revoke(a, g) PROVE TypeOK'
  <2>1. copy' \in [Commands -> TicketLists]
    BY <1>3, MarkedList DEF Revoke
  <2>2. QED
    BY <1>3, <2>1 DEF Revoke
<1>4. ASSUME NEW g \in Grants, RevokeFails(a, g) PROVE TypeOK'
  <2>1. user' \in [Emails -> Accounts]
    BY <1>4 DEF RevokeFails
  <2>2. QED
    BY <1>4, <2>1 DEF RevokeFails
<1>5. QED
  BY <1>1, <1>2, <1>3, <1>4

\* Saves and crashes.
LEMMA SaveType ==
  ASSUME TypeOK, NEW p \in Commands, Truncate(p) \/ Write(p) \/ Crash(p)
  PROVE  TypeOK'
<1>1. CASE Truncate(p)
  BY <1>1 DEF TypeOK, Truncate, Goto, locals, counters
<1>2. CASE Write(p)
  <2>1. file' \in [kind : {"empty", "broken", "text"}, tickets : TicketLists]
    BY <1>2 DEF TypeOK, Write
  <2>2. Ends(p) /\ UNCHANGED <<user, exists, provisioned, expired, elevated, counters>>
    BY <1>2 DEF Write
  <2>3. QED
    BY <2>1, <2>2, EndsType DEF TypeOK, counters
<1>3. CASE Crash(p)
  <2>1. /\ Ends(p) /\ UNCHANGED <<user, file, exists, provisioned, expired, elevated, failures>>
        /\ crashes < MaxCrashes /\ crashes' = crashes + 1
    BY <1>3 DEF Crash
  <2>2. QED
    BY <2>1, EndsType DEF TypeOK
<1>4. QED
  BY <1>1, <1>2, <1>3

LEMMA TypeStep == TypeOK /\ [Next]_vars => TypeOK'
<1> SUFFICES ASSUME TypeOK, [Next]_vars PROVE TypeOK'
  OBVIOUS
<1>1. CASE Next
  BY <1>1, GrantType, AuditType, SaveType DEF Next, Grant, Audit
<1>2. CASE UNCHANGED vars
  BY <1>2 DEF TypeOK, vars, locals, counters
<1>3. QED
  BY <1>1, <1>2

\* Every variable keeps its type, for any number of commands.
THEOREM TypeCorrect == Spec => []TypeOK
<1>1. Init => TypeOK
  BY InitInv DEF IInv
<1>2. QED
  BY <1>1, TypeStep, PTL DEF Spec

-----------------------------------------------------------------------------
(* Closed tickets.                                                          *)

\* What a closed ticket stands for stays over unless a grant elevates its user.
LEMMA OverStays ==
  ASSUME expired \subseteq expired', elevated \subseteq elevated',
         \A e \in Emails : user'[e] = "jit" => user[e] = "jit"
  PROVE  \A g \in Grants : Over(g) => Over(g)'
  BY DEF Over

\* The parts of the invariant that follow TypeOK.
Lists ==
  /\ ListOver(file.tickets)
  /\ \A p \in Commands : ListOver(copy[p])
  /\ \A a \in Auditors : due[a] \subseteq expired

AtWork ==
  \A g \in Grants : pc[g] \in {"idle", "provision", "load"} =>
    /\ file.tickets[g] = "none"
    /\ \A p \in Commands : copy[p][g] = "none"
    /\ \A a \in Auditors : g \notin due[a]

\* What a command leaves behind when it ends.
LEMMA EndsLists ==
  ASSUME TypeOK, NEW p \in Commands, Ends(p)
  PROVE  /\ \A q \in Commands : copy'[q] = IF q = p THEN NoTickets ELSE copy[q]
         /\ \A a \in Auditors : due'[a] \subseteq due[a]
         /\ \A g \in Grants : pc'[g] \in {"idle", "provision", "load"} => pc'[g] = pc[g]
  BY DEF TypeOK, Ends, Goto

LEMMA GrantInv ==
  ASSUME IInv, NEW g \in Grants, BeginGrant(g) \/ Provision(g) \/ LoadForGrant(g) \/ Expire(g)
  PROVE  Lists' /\ AtWork'
<1> USE DEF IInv, Lists, AtWork, ListOver, Goto, locals
<1>1. CASE BeginGrant(g)
  <2>1. /\ UNCHANGED <<user, file, copy, due, expired, elevated>>
        /\ pc[g] = "idle" /\ \A h \in Grants : pc'[h] = IF h = g THEN "provision" ELSE pc[h]
    BY <1>1 DEF BeginGrant, TypeOK
  <2>2. QED
    BY <2>1, OverStays
<1>2. CASE Provision(g)
  <2>1. /\ UNCHANGED <<file, copy, due, expired>>
        /\ elevated \subseteq elevated'
        /\ pc[g] = "provision" /\ \A h \in Grants : pc'[h] = IF h = g THEN "load" ELSE pc[h]
        /\ \/ user' = user
           \/ user' = [user EXCEPT ![EmailOf[g]] = "jit"] /\ g \in elevated'
    BY <1>2 DEF Provision, TypeOK
  <2>2. \A h \in Grants \ {g} : Over(h) => Over(h)'
    BY <2>1 DEF Over, TypeOK
  <2>3. QED
    BY <2>1, <2>2
<1>3. CASE LoadForGrant(g)
  <2>1. /\ UNCHANGED <<user, file, due, expired, elevated>>
        /\ pc[g] = "load" /\ \A h \in Grants : pc'[h] = IF h = g THEN "truncate" ELSE pc[h]
        /\ \A p \in Commands : copy'[p] = IF p = g THEN [Loaded EXCEPT ![g] = "active"] ELSE copy[p]
    BY <1>3 DEF LoadForGrant, TypeOK
  <2>2. \A h \in Grants : copy'[g][h] \in {file.tickets[h], "none"} \/ (h = g /\ copy'[g][h] = "active")
    BY <2>1, LoadedList
  <2>3. QED
    BY <2>1, <2>2, OverStays
<1>4. CASE Expire(g)
  <2>1. UNCHANGED <<user, file, pc, copy, due, elevated>> /\ expired \subseteq expired'
    BY <1>4 DEF Expire
  <2>2. QED
    BY <2>1, OverStays
<1>5. QED
  BY <1>1, <1>2, <1>3, <1>4

LEMMA AuditInv ==
  ASSUME IInv, NEW a \in Auditors,
         \/ BeginAudit(a) \/ EndLoop(a)
         \/ \E g \in Grants : Revoke(a, g) \/ RevokeFails(a, g)
  PROVE  Lists' /\ AtWork'
<1> USE DEF IInv, Lists, AtWork, ListOver
<1>1. CASE BeginAudit(a)
  <2>1. /\ UNCHANGED <<user, file, expired, elevated>>
        /\ \A h \in Grants : pc'[h] = pc[h]
        /\ \A p \in Commands : copy'[p] = IF p = a THEN Loaded ELSE copy[p]
        /\ \A b \in Auditors : due'[b] = IF b = a THEN Overdue(Loaded) ELSE due[b]
    BY <1>1 DEF BeginAudit, TypeOK, Goto
  <2>2. \A h \in Overdue(Loaded) : h \in expired /\ h \in Grants /\ file.tickets[h] = "active"
    BY LoadedList DEF Overdue, TypeOK
  <2>3. QED
    BY <2>1, <2>2, LoadedList, OverStays
<1>2. CASE EndLoop(a)
  <2>1. /\ UNCHANGED <<user, file, expired, elevated>>
        /\ \/ Ends(a)
           \/ UNCHANGED <<copy, due>> /\ \A h \in Grants : pc'[h] = pc[h]
    BY <1>2 DEF EndLoop, TypeOK, Goto
  <2>2. QED
    BY <2>1, EndsLists, OverStays
<1>3. ASSUME NEW g \in Grants, Revoke(a, g) PROVE Lists' /\ AtWork'
  <2>1. /\ UNCHANGED <<file, pc, expired, elevated>>
        /\ user' = [user EXCEPT ![EmailOf[g]] = "absent"]
        /\ \A p \in Commands : copy'[p] = IF p = a THEN Marked(copy[a], g) ELSE copy[p]
        /\ \A b \in Auditors : due'[b] \subseteq due[b]
        /\ g \in due[a]
    BY <1>3 DEF Revoke, TypeOK
  <2>2. \A e \in Emails : user'[e] = "jit" => user[e] = "jit"
    BY <2>1 DEF TypeOK
  <2>3. Over(g)'
    BY <2>1 DEF Over, TypeOK
  <2>4. \A h \in Grants : Marked(copy[a], g)[h] = IF h = g THEN "revoked" ELSE copy[a][h]
    BY MarkedList DEF TypeOK
  <2>5. QED
    BY <2>1, <2>2, <2>3, <2>4, OverStays
<1>4. ASSUME NEW g \in Grants, RevokeFails(a, g) PROVE Lists' /\ AtWork'
  <2>1. /\ UNCHANGED <<file, pc, copy, expired, elevated>>
        /\ \A e \in Emails : user'[e] = "jit" => user[e] = "jit"
        /\ \A b \in Auditors : due'[b] \subseteq due[b]
    BY <1>4 DEF RevokeFails, TypeOK
  <2>2. QED
    BY <2>1, OverStays
<1>5. QED
  BY <1>1, <1>2, <1>3, <1>4

LEMMA SaveInv ==
  ASSUME IInv, NEW p \in Commands, Truncate(p) \/ Write(p) \/ Crash(p)
  PROVE  Lists' /\ AtWork'
<1> USE DEF IInv, Lists, AtWork, ListOver
<1>1. CASE Truncate(p)
  <2>1. /\ UNCHANGED <<user, copy, due, expired, elevated>>
        /\ file'.tickets = NoTickets
        /\ \A g \in Grants : pc'[g] \in {"idle", "provision", "load"} => pc'[g] = pc[g]
    BY <1>1 DEF Truncate, Goto, locals, TypeOK
  <2>2. QED
    BY <2>1, OverStays
<1>2. CASE Write(p)
  <2>1. /\ UNCHANGED <<user, expired, elevated>> /\ Ends(p)
        /\ file'.tickets = copy[p] \/ file'.tickets = NoTickets
    BY <1>2 DEF Write
  <2>2. QED
    BY <2>1, EndsLists, OverStays
<1>3. CASE Crash(p)
  <2>1. UNCHANGED <<user, file, expired, elevated>> /\ Ends(p)
    BY <1>3 DEF Crash
  <2>2. QED
    BY <2>1, EndsLists, OverStays
<1>4. QED
  BY <1>1, <1>2, <1>3

LEMMA NextInv == IInv /\ [Next]_vars => IInv'
<1> SUFFICES ASSUME IInv, [Next]_vars PROVE IInv'
  OBVIOUS
<1>1. TypeOK'
  BY TypeStep DEF IInv
<1>2. CASE Next
  BY <1>1, <1>2, GrantInv, AuditInv, SaveInv DEF Next, Grant, Audit, Lists, AtWork, IInv
<1>3. CASE UNCHANGED vars
  BY <1>1, <1>3 DEF IInv, ListOver, Over, vars, locals
<1>4. QED
  BY <1>2, <1>3

\* A ticket the file calls closed has expired, and what it granted is over,
\* however many commands interleave, crash, or save a stale copy.
THEOREM ClosedIsOver == Spec => []ClosedTicketsAreOver
<1>1. IInv => ClosedTicketsAreOver
  BY LoadedList DEF IInv, ListOver, Over, ClosedTicketsAreOver, Stored
<1>2. QED
  BY <1>1, InitInv, NextInv, PTL DEF Spec
=============================================================================
