------------------------------ MODULE AuditLedger ------------------------------
(***************************************************************************)
(* The audit ledger (tools/compliance_audit_ledger.py): "audit" appends to  *)
(* .artifacts/audit_ledger.json a block with the hashes of the four         *)
(* configuration files, linked to the block before it by that block's       *)
(* hash; "verify" checks the chain.                                         *)
(*                                                                         *)
(* Every command is a process of its own that reads the whole file, and an  *)
(* audit then rewrites the whole file.  Nothing locks it, and a file that   *)
(* does not parse is taken for an empty ledger.                             *)
(***************************************************************************)
EXTENDS Naturals, Sequences

CONSTANTS
  Audits,         \* audit commands; each stamps its block with a time of its own
  Checks,         \* verify commands
  ConfigFiles,    \* the files an audit hashes
  MaxChanges,     \* bound: changes of a configuration file
  MaxEdits,       \* bound: blocks of the ledger changed by hand
  MaxCrashes      \* bound: audits that stop while they write

ASSUME LedgerAssumption ==
  /\ Audits \intersect Checks = {}
  /\ MaxChanges \in Nat /\ MaxEdits \in Nat /\ MaxCrashes \in Nat

VARIABLES
  configs,        \* [ConfigFiles -> contents], a number; 0 of a file that is missing
  status,         \* the ledger file: "absent", "torn" (does not parse) or "whole"
  chain,          \* its blocks, of a whole file
  size,           \* blocks of text in the file, 0 of one that was just truncated
  pc,             \* [Audits \cup Checks -> where the command is]
  ledger,         \* [Audits -> the list an audit has in memory]
  hashes,         \* [Audits -> configuration files hashed so far]
  exit,           \* [Audits \cup Checks -> exit code, 9 of one that has none]
  overlapped,     \* have two audits ever been under way at once?
  changes, edits, crashes

auditvars == <<ledger, hashes>>
file == <<status, chain, size>>
bounds == <<changes, edits, crashes>>
vars == <<configs, file, pc, auditvars, exit, overlapped, bounds>>

Commands == Audits \union Checks
Labels == {"idle", "hash", "save", "write", "done"}

\* The SHA-256 of a payload: payloads that differ have hashes that differ.
Sha256(index, stamp, contents, previous) == <<index, stamp, contents, previous>>
NoHash == <<>>                                                    \* "0" * 64

Init ==
  /\ configs = [f \in ConfigFiles |-> 1]
  /\ status = "absent" /\ chain = <<>> /\ size = 0
  /\ pc = [c \in Commands |-> "idle"]
  /\ ledger = [a \in Audits |-> <<>>]
  /\ hashes = [a \in Audits |-> [f \in {} |-> 0]]
  /\ exit = [c \in Commands |-> 9]
  /\ overlapped = FALSE
  /\ changes = 0 /\ edits = 0 /\ crashes = 0

-----------------------------------------------------------------------------
Unfound == <<>>                                                   \* faulty Loaded

\* load_ledger.
Loaded == IF status = "whole" THEN chain ELSE <<>>

\* The block's own hash, and the link to the block before it.
Sound(c, i) == c[i].hash = Sha256(c[i].index, c[i].stamp, c[i].contents, c[i].previous)
Linked(c, i) == c[i].previous = IF i = 1 THEN NoHash ELSE c[i - 1].hash

\* verify_chain.
Verified(c) == \A i \in 1..Len(c) : Sound(c, i) /\ Linked(c, i)

UnverifiedLoad(c) == TRUE                                         \* faulty Accepted
Accepted(c) == Verified(c)

SignalExit(c, code) == /\ pc' = [pc EXCEPT ![c] = "done"]          \* faulty Exit
                       /\ exit' = [exit EXCEPT ![c] = 128 + code]

Exit(c, code) == /\ pc' = [pc EXCEPT ![c] = "done"]
                 /\ exit' = [exit EXCEPT ![c] = code]

UnderWay == {a \in Audits : pc[a] \in {"hash", "save", "write"}}

BeginAudit(a) ==
  /\ pc[a] = "idle"
  /\ overlapped' = (overlapped \/ UnderWay # {})
  /\ \/ /\ Accepted(Loaded)
        /\ ledger' = [ledger EXCEPT ![a] = Loaded]
        /\ pc' = [pc EXCEPT ![a] = "hash"]
        /\ UNCHANGED exit
     \/ ~Accepted(Loaded) /\ Exit(a, 1) /\ UNCHANGED ledger
  /\ UNCHANGED <<configs, file, hashes, bounds>>

\* compute_sha256 of one file after the other, while others may change.
HashFile(a) ==
  /\ pc[a] = "hash"
  /\ \E f \in ConfigFiles \ DOMAIN hashes[a] :
       hashes' = [hashes EXCEPT ![a] = [g \in DOMAIN @ \union {f} |->
                                           IF g = f THEN configs[f] ELSE @[g]]]
  /\ UNCHANGED <<configs, file, pc, ledger, exit, overlapped, bounds>>

FirstLink(c) == IF c = <<>> THEN NoHash ELSE c[1].hash            \* faulty LastHash
LastHash(c) == IF c = <<>> THEN NoHash ELSE c[Len(c)].hash
NextIndex(c) == IF c = <<>> THEN 0 ELSE c[Len(c)].index + 1

NextBlock(c, a) ==
  [index |-> NextIndex(c), stamp |-> a, contents |-> hashes[a], previous |-> LastHash(c),
   hash |-> Sha256(NextIndex(c), a, hashes[a], LastHash(c))]

Hashed(a) == pc[a] = "hash" /\ DOMAIN hashes[a] = ConfigFiles
Missing(a) == \E f \in ConfigFiles : hashes[a][f] = 0

MissingFiles(a) ==
  /\ Hashed(a) /\ Missing(a)
  /\ Exit(a, 2)
  /\ UNCHANGED <<configs, file, auditvars, overlapped, bounds>>

AppendBlock(a) ==
  /\ Hashed(a) /\ ~Missing(a)
  /\ ledger' = [ledger EXCEPT ![a] = Append(@, NextBlock(@, a))]
  /\ pc' = [pc EXCEPT ![a] = "save"]
  /\ UNCHANGED <<configs, file, hashes, exit, overlapped, bounds>>

-----------------------------------------------------------------------------
(* save_ledger: open truncates the file; the text reaches it in pieces, the *)
(* last of them when the file is closed.                                    *)

Truncate(a) ==
  /\ pc[a] = "save"
  /\ status' = "torn" /\ chain' = <<>> /\ size' = 0
  /\ pc' = [pc EXCEPT ![a] = "write"]
  /\ UNCHANGED <<configs, auditvars, exit, overlapped, bounds>>

Holds(c) == status' = "whole" /\ chain' = c /\ size' = Len(c)

\* Two writers' texts of one length, the pieces of one before those of the
\* other: in block k the one ends and the other begins.
Spliced(c, d, k) ==
  [i \in 1..Len(d) |-> CASE i < k -> c[i]
                         [] i = k -> [c[i] EXCEPT !.hash = d[i].hash]
                         [] i > k -> d[i]]

\* A file that is not empty has been written by another audit since this one
\* truncated it, and the two texts overlay each other.
Write(a) ==
  /\ pc[a] = "write"
  /\ \/ size <= Len(ledger[a]) /\ Holds(ledger[a])
     \/ /\ status = "whole" /\ size = Len(ledger[a])
        /\ \E k \in 1..size : Holds(Spliced(chain, ledger[a], k))
     \/ /\ size > 0 /\ (size # Len(ledger[a]) \/ status = "torn")
        /\ status' = "torn" /\ chain' = <<>> /\ UNCHANGED size
  /\ Exit(a, 0)
  /\ UNCHANGED <<configs, auditvars, overlapped, bounds>>

\* Killed, or a full disk, before all of the text is in the file.
Crash(a) ==
  /\ pc[a] = "write" /\ crashes < MaxCrashes
  /\ crashes' = crashes + 1
  /\ \/ UNCHANGED file
     \/ status' = "torn" /\ chain' = <<>> /\ UNCHANGED size
  /\ Exit(a, 9)
  /\ UNCHANGED <<configs, auditvars, overlapped, changes, edits>>

\* main with "verify"; an empty ledger, and one that cannot be read, is fine.
Check(c) ==
  /\ pc[c] = "idle"
  /\ Exit(c, IF Verified(Loaded) THEN 0 ELSE 1)
  /\ UNCHANGED <<configs, file, auditvars, overlapped, bounds>>

-----------------------------------------------------------------------------
(* The rest of the host.                                                    *)

Change(f) ==
  /\ changes < MaxChanges
  /\ \E v \in {0, configs[f] + 1} : configs' = [configs EXCEPT ![f] = v]
  /\ changes' = changes + 1
  /\ UNCHANGED <<file, pc, auditvars, exit, overlapped, edits, crashes>>

\* What a block says of a file is changed, in the file, by hand.
Edit(i) ==
  /\ status = "whole" /\ edits < MaxEdits
  /\ \E f \in ConfigFiles : chain' = [chain EXCEPT ![i].contents[f] = @ + 1]
  /\ edits' = edits + 1
  /\ UNCHANGED <<configs, status, size, pc, auditvars, exit, overlapped, changes, crashes>>

Audit(a) ==
  \/ BeginAudit(a) \/ HashFile(a) \/ MissingFiles(a) \/ AppendBlock(a)
  \/ Truncate(a) \/ Write(a) \/ Crash(a)

Next ==
  \/ \E a \in Audits : Audit(a)
  \/ \E c \in Checks : Check(c)
  \/ \E f \in ConfigFiles : Change(f)
  \/ \E i \in 1..Len(chain) : Edit(i)

Spec == Init /\ [][Next]_vars

-----------------------------------------------------------------------------
(* Properties.                                                              *)

TypeOK ==
  /\ configs \in [ConfigFiles -> Nat]
  /\ status \in {"absent", "torn", "whole"}
  /\ status # "whole" => chain = <<>>
  /\ size \in Nat
  /\ pc \in [Commands -> Labels]
  /\ DOMAIN ledger = Audits
  /\ \A a \in Audits : DOMAIN hashes[a] \subseteq ConfigFiles
  /\ exit \in [Commands -> {0, 1, 2, 9}]
  /\ overlapped \in BOOLEAN
  /\ changes \in 0..MaxChanges /\ edits \in 0..MaxEdits /\ crashes \in 0..MaxCrashes

\* An audit never puts a block on a chain that does not verify: whatever was
\* done to the file, by hand, by a crash or by two audits that wrote into each
\* other's text, the list an audit has in memory verifies.
OnlyVerifiedChainsGrow == \A a \in UnderWay : Verified(ledger[a])

\* A file that parses verifies, unless a block was changed by hand or two audits
\* were under way at once: a crash at any point raises no false alarm.
NoFalseAlarm == ~Verified(chain) => edits > 0 \/ overlapped

Stamps(c) == {c[i].stamp : i \in 1..Len(c)}
Writers == {a \in Audits : pc[a] = "write"}

\* Without overlapping audits, crashes and edits the block of every audit that
\* exited with 0 is in the file, or in the memory of the audit that is just
\* rewriting it.
CommittedStays ==
  ~overlapped /\ edits = 0 /\ crashes = 0 =>
    \A a \in Audits : exit[a] = 0 =>
      IF Writers = {} THEN a \in Stamps(chain)
      ELSE \E w \in Writers : a \in Stamps(ledger[w])
=============================================================================
