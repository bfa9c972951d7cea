--------------------------- MODULE AuditLedgerProofs ---------------------------
(***************************************************************************)
(* What holds of the audit ledger for any number of audits and checks, any  *)
(* configuration files and any bounds.                                      *)
(***************************************************************************)
EXTENDS AuditLedger, TLAPS

\* The blocks have no type of their own (a hash contains the hash before it), so
\* that all that is said of a ledger is that it is a sequence.
IsSeq(c) == c \in Seq({c[i] : i \in DOMAIN c})

AreSequences == IsSeq(chain) /\ \A a \in Audits : IsSeq(ledger[a])

OneAtATime == ~overlapped => \A a, b \in UnderWay : a = b

\* The only writer finds the file as it truncated it.
WriterIsAlone ==
  ~overlapped => \A a \in Audits : pc[a] = "write" => size = 0 /\ status = "torn" /\ chain = <<>>

Undisturbed == ~overlapped /\ edits = 0 /\ crashes = 0

\* The list in memory has what is in the file, and the audit's own block.
MemoryIsAhead ==
  Undisturbed => \A a \in Audits :
    /\ pc[a] = "hash" => ledger[a] = chain
    /\ pc[a] = "save" => Stamps(chain) \union {a} \subseteq Stamps(ledger[a])
    /\ pc[a] = "write" => a \in Stamps(ledger[a])

IInv ==
  /\ TypeOK /\ AreSequences
  /\ OnlyVerifiedChainsGrow /\ NoFalseAlarm
  /\ OneAtATime /\ WriterIsAlone
  /\ MemoryIsAhead /\ CommittedStays

-----------------------------------------------------------------------------
(* Sequences and chains.                                                    *)

LEMMA SeqIsSeq ==
  ASSUME NEW S, NEW c \in Seq(S)
  PROVE  IsSeq(c)
  <1>1. Len(c) \in Nat /\ DOMAIN c = 1..Len(c) /\ c \in [1..Len(c) -> S]
    OBVIOUS
  <1>2. c \in [1..Len(c) -> {c[i] : i \in DOMAIN c}]
    BY <1>1
  <1>3. Seq({c[i] : i \in DOMAIN c}) = UNION {[1..n -> {c[i] : i \in DOMAIN c}] : n \in Nat}
    OBVIOUS
  <1> QED  BY <1>1, <1>2, <1>3 DEF IsSeq

LEMMA EmptyIsSeq == IsSeq(<<>>) /\ Verified(<<>>) /\ Stamps(<<>>) = {}
  <1>1. <<>> \in Seq({}) /\ Len(<<>>) = 0
    OBVIOUS
  <1>2. IsSeq(<<>>)
    BY <1>1, SeqIsSeq
  <1>3. 1..Len(<<>>) = {}
    BY <1>1
  <1> QED  BY <1>2, <1>3 DEF Verified, Stamps

\* Appending a sound block with the right link keeps a chain verified.
LEMMA AppendSeq ==
  ASSUME NEW c, IsSeq(c), NEW b
  PROVE  /\ IsSeq(Append(c, b))
         /\ Len(c) \in Nat /\ Len(Append(c, b)) = Len(c) + 1
         /\ \A i \in 1..Len(c) : Append(c, b)[i] = c[i]
         /\ Append(c, b)[Len(c) + 1] = b
  <1> DEFINE S == {c[i] : i \in DOMAIN c} \union {b}
  <1>1. c \in Seq(S)
    <2>1. c \in Seq({c[i] : i \in DOMAIN c})
      BY DEF IsSeq
    <2> QED  BY <2>1
  <1>2. b \in S
    OBVIOUS
  <1> HIDE DEF S
  <1>3. Append(c, b) \in Seq(S)
    BY <1>1, <1>2
  <1>4. IsSeq(Append(c, b))
    BY <1>3, SeqIsSeq
  <1>5. /\ Len(c) \in Nat /\ Len(Append(c, b)) = Len(c) + 1
        /\ \A i \in 1..Len(c) : Append(c, b)[i] = c[i]
        /\ Append(c, b)[Len(c) + 1] = b
    BY <1>1, <1>2
  <1> QED  BY <1>4, <1>5

LEMMA AppendVerified ==
  ASSUME NEW c, IsSeq(c), Verified(c), NEW a
  PROVE  Verified(Append(c, NextBlock(c, a)))
  <1> DEFINE b == NextBlock(c, a)
             d == Append(c, b)
  <1>1. /\ Len(c) \in Nat /\ Len(d) = Len(c) + 1
        /\ \A i \in 1..Len(c) : d[i] = c[i]
        /\ d[Len(c) + 1] = b
    BY AppendSeq
  <1>2. b.hash = Sha256(b.index, b.stamp, b.contents, b.previous) /\ b.previous = LastHash(c)
    BY DEF NextBlock
  <1>3. (c = <<>> => Len(c) = 0) /\ (Len(c) = 0 => c = <<>>)
    BY DEF IsSeq
  <1> HIDE DEF b, d
  <1>4. ASSUME NEW i \in 1..Len(c)
        PROVE  Sound(d, i) /\ Linked(d, i)
    <2>1. Sound(c, i) /\ Linked(c, i)
      BY <1>4 DEF Verified
    <2>2. i # 1 => i - 1 \in 1..Len(c)
      BY <1>1
    <2> QED  BY <1>1, <2>1, <2>2 DEF Sound, Linked
  <1>5. Sound(d, Len(c) + 1)
    BY <1>1, <1>2 DEF Sound
  <1>6. Linked(d, Len(c) + 1)
    <2>1. CASE Len(c) = 0
      BY <1>1, <1>2, <1>3, <2>1 DEF Linked, LastHash
    <2>2. CASE Len(c) # 0
      <3>1. Len(c) \in 1..Len(c) /\ Len(c) + 1 # 1 /\ Len(c) + 1 - 1 = Len(c)
        BY <1>1, <2>2
      <3>2. LastHash(c) = d[Len(c)].hash
        BY <1>1, <1>3, <2>2, <3>1 DEF LastHash
      <3> QED  BY <1>1, <1>2, <3>1, <3>2 DEF Linked
    <2> QED  BY <2>1, <2>2
  <1>7. \A i \in 1..Len(d) : i \in 1..Len(c) \/ i = Len(c) + 1
    BY <1>1
  <1>8. Verified(d)
    BY <1>4, <1>5, <1>6, <1>7 DEF Verified
  <1> QED  BY <1>8 DEF b, d

LEMMA AppendStamps ==
  ASSUME NEW c, IsSeq(c), NEW a
  PROVE  Stamps(Append(c, NextBlock(c, a))) = Stamps(c) \union {a}
  <1> DEFINE b == NextBlock(c, a)
             d == Append(c, b)
  <1>1. /\ Len(c) \in Nat /\ Len(d) = Len(c) + 1
        /\ \A i \in 1..Len(c) : d[i] = c[i]
        /\ d[Len(c) + 1] = b
    BY AppendSeq
  <1>2. b.stamp = a
    BY DEF NextBlock
  <1> HIDE DEF b, d
  <1>3. 1..Len(d) = 1..Len(c) \union {Len(c) + 1}
    BY <1>1
  <1>4. Stamps(d) = Stamps(c) \union {a}
    BY <1>1, <1>2, <1>3 DEF Stamps
  <1> QED  BY <1>4 DEF b, d

LEMMA FunctionIsSeq ==
  ASSUME NEW n \in Nat, NEW f, f = [i \in 1..n |-> f[i]]
  PROVE  IsSeq(f) /\ Len(f) = n
  <1> DEFINE S == {f[i] : i \in DOMAIN f}
  <1>1. DOMAIN f = 1..n
    OBVIOUS
  <1>2. f \in [1..n -> S]
    BY <1>1
  <1> HIDE DEF S
  <1>3. f \in Seq(S)
    BY <1>2
  <1>4. Len(f) = n
    BY <1>1, <1>3
  <1> QED  BY <1>3, <1>4, SeqIsSeq

LEMMA SplicedIsSeq ==
  ASSUME NEW c, NEW d, IsSeq(d), NEW k
  PROVE  IsSeq(Spliced(c, d, k)) /\ Len(Spliced(c, d, k)) = Len(d)
  <1>1. Len(d) \in Nat
    BY DEF IsSeq
  <1> DEFINE block(i) == CASE i < k -> c[i]
                         [] i = k -> [c[i] EXCEPT !.hash = d[i].hash]
                         [] i > k -> d[i]
             f == [i \in 1..Len(d) |-> block(i)]
  <1>2. Spliced(c, d, k) = f
    BY DEF Spliced
  <1> HIDE DEF block
  <1>3. f = [i \in 1..Len(d) |-> f[i]]
    OBVIOUS
  <1> HIDE DEF f
  <1> QED  BY <1>1, <1>2, <1>3, FunctionIsSeq

LEMMA EditedIsSeq ==
  ASSUME IsSeq(chain), NEW i \in 1..Len(chain), Edit(i)
  PROVE  IsSeq(chain') /\ Len(chain') = Len(chain)
  <1>1. Len(chain) \in Nat /\ DOMAIN chain = 1..Len(chain)
    BY DEF IsSeq
  <1>2. chain' = [j \in 1..Len(chain) |-> chain'[j]]
    BY <1>1 DEF Edit
  <1> QED  BY <1>1, <1>2, FunctionIsSeq

-----------------------------------------------------------------------------
(* Types.                                                                   *)

USE LedgerAssumption DEF Commands, Labels

\* Every way a command ends.
LEMMA ExitType ==
  ASSUME TypeOK, NEW c \in Commands, NEW code \in {0, 1, 2, 9}, Exit(c, code)
  PROVE  pc' \in [Commands -> Labels] /\ exit' \in [Commands -> {0, 1, 2, 9}]
  BY DEF TypeOK, Exit

LEMMA LoadedIsChain ==
  ASSUME TypeOK
  PROVE  Loaded = chain
  BY DEF TypeOK, Loaded

LEMMA AuditType ==
  ASSUME TypeOK, AreSequences, NEW a \in Audits, Audit(a)
  PROVE  TypeOK' /\ AreSequences'
  <1>1. CASE BeginAudit(a)
    <2>1. AreSequences'
      BY <1>1, LoadedIsChain DEF AreSequences, BeginAudit, Exit, TypeOK, file
    <2>2. DOMAIN ledger' = Audits /\ pc' \in [Commands -> Labels] /\ exit' \in [Commands -> {0, 1, 2, 9}]
      BY <1>1 DEF TypeOK, BeginAudit, Exit
    <2> QED  BY <1>1, <2>1, <2>2 DEF TypeOK, BeginAudit, file, bounds
  <1>2. CASE HashFile(a)
    <2>1. AreSequences'
      BY <1>2 DEF AreSequences, HashFile, file
    <2>2. \A b \in Audits : DOMAIN hashes'[b] \subseteq ConfigFiles
      BY <1>2 DEF TypeOK, HashFile
    <2> QED  BY <1>2, <2>1, <2>2 DEF TypeOK, HashFile, file, bounds
  <1>3. CASE MissingFiles(a)
    BY <1>3, ExitType DEF TypeOK, AreSequences, MissingFiles, file, bounds, auditvars
  <1>4. CASE AppendBlock(a)
    <2>1. AreSequences'
      BY <1>4, AppendSeq DEF AreSequences, AppendBlock, TypeOK, file
    <2>2. DOMAIN ledger' = Audits /\ pc' \in [Commands -> Labels]
      BY <1>4 DEF TypeOK, AppendBlock
    <2> QED  BY <1>4, <2>1, <2>2 DEF TypeOK, AppendBlock, file, bounds
  <1>5. CASE Truncate(a)
    BY <1>5, EmptyIsSeq DEF TypeOK, AreSequences, Truncate, bounds, auditvars
  <1>6. CASE Write(a)
    <2>1. Len(ledger[a]) \in Nat /\ IsSeq(ledger[a])
      BY DEF AreSequences, IsSeq
    <2>2. /\ status' \in {"absent", "torn", "whole"} /\ size' \in Nat
          /\ status' # "whole" => chain' = <<>>
          /\ IsSeq(chain')
      BY <1>6, <2>1, SplicedIsSeq, EmptyIsSeq DEF TypeOK, Write, Holds
    <2>3. pc' \in [Commands -> Labels] /\ exit' \in [Commands -> {0, 1, 2, 9}]
      BY <1>6, ExitType DEF Write
    <2> QED  BY <1>6, <2>2, <2>3 DEF TypeOK, AreSequences, Write, bounds, auditvars
  <1>7. CASE Crash(a)
    <2>1. pc' \in [Commands -> Labels] /\ exit' \in [Commands -> {0, 1, 2, 9}]
      BY <1>7, ExitType DEF Crash
    <2> QED  BY <1>7, <2>1, EmptyIsSeq DEF TypeOK, AreSequences, Crash, file, auditvars
  <1> QED  BY <1>1, <1>2, <1>3, <1>4, <1>5, <1>6, <1>7 DEF Audit

LEMMA TypeStep ==
  ASSUME TypeOK, AreSequences, [Next]_vars
  PROVE  TypeOK' /\ AreSequences'
  <1>1. ASSUME NEW c \in Checks, Check(c)
        PROVE  TypeOK' /\ AreSequences'
    <2>1. pc' \in [Commands -> Labels] /\ exit' \in [Commands -> {0, 1, 2, 9}]
      BY <1>1, ExitType DEF Check
    <2> QED  BY <1>1, <2>1 DEF TypeOK, AreSequences, Check, file, bounds, auditvars
  <1>2. ASSUME NEW f \in ConfigFiles, Change(f)
        PROVE  TypeOK' /\ AreSequences'
    BY <1>2 DEF TypeOK, AreSequences, Change, file, auditvars
  <1>3. ASSUME NEW i \in 1..Len(chain), Edit(i)
        PROVE  TypeOK' /\ AreSequences'
    <2>1. IsSeq(chain')
      BY <1>3, EditedIsSeq DEF AreSequences
    <2> QED  BY <1>3, <2>1 DEF TypeOK, AreSequences, Edit, auditvars
  <1>4. CASE UNCHANGED vars
    BY <1>4 DEF TypeOK, AreSequences, vars, file, auditvars, bounds
  <1> QED  BY <1>1, <1>2, <1>3, <1>4, AuditType DEF Next

-----------------------------------------------------------------------------
(* Chains in memory and in the file.                                        *)

LEMMA OnlyVerifiedStep ==
  ASSUME TypeOK, AreSequences, OnlyVerifiedChainsGrow, [Next]_vars
  PROVE  OnlyVerifiedChainsGrow'
  <1> USE DEF OnlyVerifiedChainsGrow, UnderWay, TypeOK
  <1>1. ASSUME NEW a \in Audits, BeginAudit(a)
        PROVE  OnlyVerifiedChainsGrow'
    BY <1>1 DEF BeginAudit, Accepted, Exit
  <1>2. ASSUME NEW a \in Audits, HashFile(a)
        PROVE  OnlyVerifiedChainsGrow'
    BY <1>2 DEF HashFile
  <1>3. ASSUME NEW a \in Audits, MissingFiles(a)
        PROVE  OnlyVerifiedChainsGrow'
    BY <1>3 DEF MissingFiles, Exit, auditvars
  <1>4. ASSUME NEW a \in Audits, AppendBlock(a)
        PROVE  OnlyVerifiedChainsGrow'
    <2>1. IsSeq(ledger[a]) /\ Verified(ledger[a])
      BY <1>4 DEF AppendBlock, Hashed, AreSequences
    <2>2. Verified(Append(ledger[a], NextBlock(ledger[a], a)))
      BY <2>1, AppendVerified
    <2> QED  BY <1>4, <2>2 DEF AppendBlock, Hashed
  <1>5. ASSUME NEW a \in Audits, Truncate(a)
        PROVE  OnlyVerifiedChainsGrow'
    BY <1>5 DEF Truncate, auditvars
  <1>6. ASSUME NEW a \in Audits, Write(a) \/ Crash(a)
        PROVE  OnlyVerifiedChainsGrow'
    BY <1>6 DEF Write, Crash, Exit, auditvars
  <1>7. ASSUME NEW c \in Checks, Check(c)
        PROVE  OnlyVerifiedChainsGrow'
    BY <1>7 DEF Check, Exit, auditvars
  <1>8. ASSUME NEW f \in ConfigFiles, Change(f)
        PROVE  OnlyVerifiedChainsGrow'
    BY <1>8 DEF Change, auditvars
  <1>9. ASSUME NEW i \in 1..Len(chain), Edit(i)
        PROVE  OnlyVerifiedChainsGrow'
    BY <1>9 DEF Edit, auditvars
  <1>10. CASE UNCHANGED vars
    BY <1>10 DEF vars, auditvars
  <1> QED  BY <1>1, <1>2, <1>3, <1>4, <1>5, <1>6, <1>7, <1>8, <1>9, <1>10 DEF Next, Audit

\* What an audit that is not overlapped writes into the file.
LEMMA WriteAlone ==
  ASSUME AreSequences, WriterIsAlone, ~overlapped, NEW a \in Audits, Write(a)
  PROVE  Holds(ledger[a])
  <1>1. size = 0 /\ status = "torn" /\ Len(ledger[a]) \in Nat
    BY DEF WriterIsAlone, Write, AreSequences, IsSeq
  <1> QED  BY <1>1 DEF Write

LEMMA NoFalseAlarmStep ==
  ASSUME TypeOK, AreSequences, OnlyVerifiedChainsGrow, WriterIsAlone, NoFalseAlarm, [Next]_vars
  PROVE  NoFalseAlarm'
  <1> USE DEF NoFalseAlarm, TypeOK
  <1>1. ASSUME NEW a \in Audits, BeginAudit(a) \/ HashFile(a) \/ MissingFiles(a) \/ AppendBlock(a)
        PROVE  NoFalseAlarm'
    BY <1>1 DEF BeginAudit, HashFile, MissingFiles, AppendBlock, file, bounds
  <1>2. ASSUME NEW a \in Audits, Truncate(a)
        PROVE  NoFalseAlarm'
    BY <1>2, EmptyIsSeq DEF Truncate
  <1>3. ASSUME NEW a \in Audits, Write(a)
        PROVE  NoFalseAlarm'
    <2>1. CASE overlapped
      BY <1>3, <2>1 DEF Write
    <2>2. CASE ~overlapped
      <3>1. Verified(ledger[a])
        BY <1>3 DEF OnlyVerifiedChainsGrow, UnderWay, Write
      <3> QED  BY <1>3, <2>2, <3>1, WriteAlone DEF Holds
    <2> QED  BY <2>1, <2>2
  <1>4. ASSUME NEW a \in Audits, Crash(a)
        PROVE  NoFalseAlarm'
    BY <1>4, EmptyIsSeq DEF Crash, file
  <1>5. ASSUME NEW c \in Checks, Check(c)
        PROVE  NoFalseAlarm'
    BY <1>5 DEF Check, file, bounds
  <1>6. ASSUME NEW f \in ConfigFiles, Change(f)
        PROVE  NoFalseAlarm'
    BY <1>6 DEF Change, file
  <1>7. ASSUME NEW i \in 1..Len(chain), Edit(i)
        PROVE  NoFalseAlarm'
    BY <1>7 DEF Edit
  <1>8. CASE UNCHANGED vars
    BY <1>8 DEF vars, file, bounds
  <1> QED  BY <1>1, <1>2, <1>3, <1>4, <1>5, <1>6, <1>7, <1>8 DEF Next, Audit

-----------------------------------------------------------------------------
(* Audits that do not overlap.                                              *)

LEMMA AloneStep ==
  ASSUME TypeOK, OneAtATime, WriterIsAlone, [Next]_vars
  PROVE  OneAtATime' /\ WriterIsAlone'
  <1> USE DEF OneAtATime, WriterIsAlone, UnderWay, TypeOK
  <1>1. ASSUME NEW a \in Audits, BeginAudit(a)
        PROVE  OneAtATime' /\ WriterIsAlone'
    BY <1>1 DEF BeginAudit, Exit, file
  <1>2. ASSUME NEW a \in Audits, HashFile(a) \/ MissingFiles(a) \/ AppendBlock(a)
        PROVE  OneAtATime' /\ WriterIsAlone'
    BY <1>2 DEF HashFile, MissingFiles, AppendBlock, Hashed, Exit, file
  <1>3. ASSUME NEW a \in Audits, Truncate(a)
        PROVE  OneAtATime' /\ WriterIsAlone'
    BY <1>3 DEF Truncate
  <1>4. ASSUME NEW a \in Audits, Write(a) \/ Crash(a)
        PROVE  OneAtATime' /\ WriterIsAlone'
    <2>1. \A b \in Audits : b \in UnderWay' <=> b \in UnderWay \ {a}
      BY <1>4 DEF Write, Crash, Exit
    <2>2. a \in UnderWay /\ overlapped' = overlapped
      BY <1>4 DEF Write, Crash
    <2> QED  BY <2>1, <2>2
  <1>5. ASSUME NEW c \in Checks, Check(c)
        PROVE  OneAtATime' /\ WriterIsAlone'
    BY <1>5 DEF Check, Exit, file
  <1>6. ASSUME NEW f \in ConfigFiles, Change(f)
        PROVE  OneAtATime' /\ WriterIsAlone'
    BY <1>6 DEF Change, file
  <1>7. ASSUME NEW i \in 1..Len(chain), Edit(i)
        PROVE  OneAtATime' /\ WriterIsAlone'
    BY <1>7 DEF Edit
  <1>8. CASE UNCHANGED vars
    BY <1>8 DEF vars, file
  <1> QED  BY <1>1, <1>2, <1>3, <1>4, <1>5, <1>6, <1>7, <1>8 DEF Next, Audit

\* A writer that is alone is the only audit in the file's way.
LEMMA OnlyWriter ==
  ASSUME OneAtATime, ~overlapped, NEW a \in UnderWay
  PROVE  UnderWay = {a} /\ Writers \subseteq {a}
  BY DEF OneAtATime, UnderWay, Writers

LEMMA CommittedStep ==
  ASSUME IInv, [Next]_vars
  PROVE  MemoryIsAhead' /\ CommittedStays'
  <1> USE DEF TypeOK
  <1>0. TypeOK /\ AreSequences /\ OneAtATime /\ WriterIsAlone /\ MemoryIsAhead /\ CommittedStays
    BY DEF IInv
  <1>1. ASSUME NEW a \in Audits, BeginAudit(a)
        PROVE  MemoryIsAhead' /\ CommittedStays'
    <2>1. CASE overlapped'
      BY <2>1 DEF MemoryIsAhead, Undisturbed, CommittedStays
    <2>2. CASE ~overlapped'
      <3>1. ~overlapped /\ UnderWay = {} /\ Writers = {} /\ Writers' = {}
        BY <1>0, <1>1, <2>2 DEF BeginAudit, UnderWay, Writers, Exit
      <3>2. MemoryIsAhead'
        BY <1>0, <1>1, <3>1, LoadedIsChain
           DEF MemoryIsAhead, Undisturbed, BeginAudit, Exit, UnderWay, file, bounds
      <3>3. \A b \in Audits : exit'[b] = 0 => exit[b] = 0
        BY <1>0, <1>1 DEF BeginAudit, Exit
      <3> QED  BY <1>0, <1>1, <3>1, <3>2, <3>3 DEF CommittedStays, BeginAudit, file, bounds
    <2> QED  BY <2>1, <2>2
  <1>2. ASSUME NEW a \in Audits, HashFile(a)
        PROVE  MemoryIsAhead' /\ CommittedStays'
    BY <1>0, <1>2 DEF MemoryIsAhead, Undisturbed, CommittedStays, HashFile, Writers, file, bounds
  <1>3. ASSUME NEW a \in Audits, MissingFiles(a)
        PROVE  MemoryIsAhead' /\ CommittedStays'
    <2>1. MemoryIsAhead'
      BY <1>0, <1>3 DEF MemoryIsAhead, Undisturbed, MissingFiles, Exit, file, bounds, auditvars
    <2>2. Writers' = Writers /\ \A b \in Audits : exit'[b] = 0 => exit[b] = 0
      BY <1>0, <1>3 DEF MissingFiles, Hashed, Exit, Writers
    <2> QED  BY <1>0, <1>3, <2>1, <2>2 DEF CommittedStays, MissingFiles, file, bounds, auditvars
  <1>4. ASSUME NEW a \in Audits, AppendBlock(a)
        PROVE  MemoryIsAhead' /\ CommittedStays'
    <2>1. Stamps(ledger'[a]) = Stamps(ledger[a]) \union {a}
      BY <1>0, <1>4, AppendStamps DEF AppendBlock, AreSequences
    <2>2. /\ pc[a] = "hash" /\ pc'[a] = "save"
          /\ \A b \in Audits \ {a} : pc'[b] = pc[b] /\ ledger'[b] = ledger[b]
          /\ UNCHANGED <<chain, overlapped, edits, crashes, exit>>
      BY <1>0, <1>4 DEF AppendBlock, Hashed, file, bounds
    <2>3. MemoryIsAhead'
      BY <1>0, <2>1, <2>2 DEF MemoryIsAhead, Undisturbed
    <2>4. Writers' = Writers /\ a \notin Writers
      BY <2>2 DEF Writers
    <2> QED  BY <1>0, <2>2, <2>3, <2>4 DEF CommittedStays, Writers
  <1>5. ASSUME NEW a \in Audits, Truncate(a)
        PROVE  MemoryIsAhead' /\ CommittedStays'
    <2>1. /\ pc[a] = "save" /\ pc'[a] = "write"
          /\ \A b \in Audits \ {a} : pc'[b] = pc[b]
          /\ UNCHANGED <<ledger, overlapped, edits, crashes, exit>>
          /\ chain' = <<>>
      BY <1>0, <1>5 DEF Truncate, auditvars, bounds
    <2>2. SUFFICES ASSUME Undisturbed
                   PROVE  MemoryIsAhead' /\ CommittedStays'
      BY <2>1 DEF MemoryIsAhead, Undisturbed, CommittedStays
    <2>3. UnderWay = {a} /\ Writers \subseteq {a}
      BY <1>0, <2>1, <2>2, OnlyWriter DEF Undisturbed, UnderWay
    <2>4. Writers = {} /\ Writers' = {a}
      BY <2>1, <2>3 DEF Writers
    <2>5. Stamps(chain) \union {a} \subseteq Stamps(ledger[a])
      BY <1>0, <2>1, <2>2 DEF MemoryIsAhead
    <2>6. MemoryIsAhead'
      BY <2>1, <2>3, <2>5 DEF MemoryIsAhead, UnderWay
    <2> QED  BY <1>0, <2>1, <2>2, <2>4, <2>5, <2>6 DEF CommittedStays, Undisturbed
  <1>6. ASSUME NEW a \in Audits, Write(a)
        PROVE  MemoryIsAhead' /\ CommittedStays'
    <2>1. /\ pc[a] = "write" /\ pc'[a] = "done" /\ exit'[a] = 0
          /\ \A b \in Audits \ {a} : pc'[b] = pc[b] /\ exit'[b] = exit[b]
          /\ UNCHANGED <<ledger, overlapped, edits, crashes>>
      BY <1>0, <1>6 DEF Write, Exit, auditvars, bounds
    <2>2. SUFFICES ASSUME Undisturbed
                   PROVE  MemoryIsAhead' /\ CommittedStays'
      BY <2>1 DEF MemoryIsAhead, Undisturbed, CommittedStays
    <2>3. UnderWay = {a} /\ Writers = {a}
      BY <1>0, <2>1, <2>2, OnlyWriter DEF Undisturbed, UnderWay, Writers
    <2>4. chain' = ledger[a] /\ a \in Stamps(ledger[a])
      BY <1>0, <1>6, <2>1, <2>2, WriteAlone DEF MemoryIsAhead, Undisturbed, Holds
    <2>5. \A b \in Audits : pc'[b] \notin {"hash", "save", "write"}
      BY <2>1, <2>3 DEF UnderWay
    <2>6. MemoryIsAhead' /\ Writers' = {}
      BY <2>5 DEF MemoryIsAhead, Writers
    <2>7. \A b \in Audits : exit'[b] = 0 => b \in Stamps(chain')
      BY <1>0, <2>1, <2>2, <2>3, <2>4 DEF CommittedStays, Undisturbed
    <2> QED  BY <2>6, <2>7 DEF CommittedStays
  <1>7. ASSUME NEW a \in Audits, Crash(a)
        PROVE  MemoryIsAhead' /\ CommittedStays'
    <2>1. crashes' # 0
      BY <1>0, <1>7 DEF Crash
    <2> QED  BY <2>1 DEF MemoryIsAhead, Undisturbed, CommittedStays
  <1>8. ASSUME NEW c \in Checks, Check(c)
        PROVE  MemoryIsAhead' /\ CommittedStays'
    <2>1. \A b \in Audits : pc'[b] = pc[b] /\ exit'[b] = exit[b]
      BY <1>0, <1>8 DEF Check, Exit
    <2>2. Writers' = Writers /\ UNCHANGED <<chain, ledger, overlapped, edits, crashes>>
      BY <1>8, <2>1 DEF Check, Writers, file, auditvars, bounds
    <2>3. MemoryIsAhead'
      BY <1>0, <2>1, <2>2 DEF MemoryIsAhead, Undisturbed
    <2> QED  BY <1>0, <2>1, <2>2, <2>3 DEF CommittedStays
  <1>9. ASSUME NEW f \in ConfigFiles, Change(f)
        PROVE  MemoryIsAhead' /\ CommittedStays'
    BY <1>0, <1>9 DEF MemoryIsAhead, Undisturbed, CommittedStays, Writers, Change, file, auditvars
  <1>10. ASSUME NEW i \in 1..Len(chain), Edit(i)
        PROVE  MemoryIsAhead' /\ CommittedStays'
    <2>1. edits' # 0
      BY <1>0, <1>10 DEF Edit
    <2> QED  BY <2>1 DEF MemoryIsAhead, Undisturbed, CommittedStays
  <1>11. CASE UNCHANGED vars
    BY <1>0, <1>11 DEF MemoryIsAhead, Undisturbed, CommittedStays, Writers, vars, file, auditvars, bounds
  <1> QED
    BY <1>1, <1>2, <1>3, <1>4, <1>5, <1>6, <1>7, <1>8, <1>9, <1>10, <1>11 DEF Next, Audit

-----------------------------------------------------------------------------
(* The theorems.                                                            *)

LEMMA InitInv == Init => IInv
  <1> SUFFICES ASSUME Init
               PROVE  IInv
    OBVIOUS
  <1>1. TypeOK /\ AreSequences
    <2>1. \A a \in Audits : DOMAIN hashes[a] \subseteq ConfigFiles
      <3> DEFINE nothing == [f \in {} |-> 0]
      <3>1. DOMAIN nothing = {}
        OBVIOUS
      <3> HIDE DEF nothing
      <3>2. hashes = [a \in Audits |-> nothing]
        BY DEF Init, nothing
      <3> QED  BY <3>1, <3>2
    <2>2. AreSequences
      BY EmptyIsSeq DEF Init, AreSequences
    <2>3. DOMAIN ledger = Audits /\ pc \in [Commands -> Labels] /\ exit \in [Commands -> {0, 1, 2, 9}]
      BY DEF Init
    <2>4. configs \in [ConfigFiles -> Nat]
      BY DEF Init
    <2>5. overlapped \in BOOLEAN /\ status \in {"absent", "torn", "whole"} /\ chain = <<>>
      BY DEF Init
    <2>6. size \in Nat /\ changes \in 0..MaxChanges /\ edits \in 0..MaxEdits /\ crashes \in 0..MaxCrashes
      BY DEF Init
    <2> QED  BY <2>1, <2>2, <2>3, <2>4, <2>5, <2>6 DEF TypeOK
  <1>2. OnlyVerifiedChainsGrow /\ NoFalseAlarm
    BY EmptyIsSeq DEF Init, OnlyVerifiedChainsGrow, NoFalseAlarm, UnderWay
  <1>3. OneAtATime /\ WriterIsAlone
    BY DEF Init, OneAtATime, WriterIsAlone, UnderWay
  <1>4. MemoryIsAhead /\ CommittedStays
    BY DEF Init, MemoryIsAhead, CommittedStays
  <1> QED  BY <1>1, <1>2, <1>3, <1>4 DEF IInv

LEMMA Preservation == IInv /\ [Next]_vars => IInv'
  <1> SUFFICES ASSUME IInv, [Next]_vars
               PROVE  IInv'
    OBVIOUS
  <1>1. TypeOK' /\ AreSequences'
    BY TypeStep DEF IInv
  <1>2. OnlyVerifiedChainsGrow' /\ NoFalseAlarm'
    BY OnlyVerifiedStep, NoFalseAlarmStep DEF IInv
  <1>3. OneAtATime' /\ WriterIsAlone'
    BY AloneStep DEF IInv
  <1>4. MemoryIsAhead' /\ CommittedStays'
    BY CommittedStep
  <1> QED  BY <1>1, <1>2, <1>3, <1>4 DEF IInv

\* The invariant that relates the file, what each audit has in memory and who is
\* under way (the parts of IInv), at every step of audits, checks, crashes and edits.
THEOREM Invariance == Spec => []IInv
  BY InitInv, Preservation, PTL DEF Spec

\* Every variable of the ledger's model keeps its type.
THEOREM TypeCorrect == Spec => []TypeOK
  <1>1. IInv => TypeOK
    BY DEF IInv
  <1> QED  BY <1>1, Invariance, PTL

\* An audit never puts a block on a chain that does not verify.
THEOREM GrowsOnVerified == Spec => []OnlyVerifiedChainsGrow
  <1>1. IInv => OnlyVerifiedChainsGrow
    BY DEF IInv
  <1> QED  BY <1>1, Invariance, PTL

\* Crashes, anywhere, never make verify report a chain as broken: only edits by
\* hand and audits that overlapped can.
THEOREM CrashesRaiseNoAlarm == Spec => []NoFalseAlarm
  <1>1. IInv => NoFalseAlarm
    BY DEF IInv
  <1> QED  BY <1>1, Invariance, PTL

\* The block of an audit that exited with 0 stays, as long as audits take turns and
\* nobody edits the file or kills a writer.
THEOREM BlocksStay == Spec => []CommittedStays
  <1>1. IInv => CommittedStays
    BY DEF IInv
  <1> QED  BY <1>1, Invariance, PTL

=============================================================================
