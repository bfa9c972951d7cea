---------------------------- MODULE HostToolsProofs ----------------------------
(***************************************************************************)
(* Theorems about the host's tools, for every value of their constants.     *)
(* What is proved of the curation, the benchmark and the GitOps commands is *)
(* proved here; what the other parts' own modules prove is carried over.    *)
(***************************************************************************)
EXTENDS HostTools, AuditLedgerProofs, FiniteSetTheorems

-----------------------------------------------------------------------------
(* The Sigma curation: the inductive invariant.                             *)

\* The directory is being filled for the policy it was emptied for.
AppliedInv == stage \in {"compile", "validate"} => applied = loaded

\* What a curation left in the directory it compiled from a rule enabled then.
CompiledInv ==
  \A n \in Sigma!FromRules : \E f \in Sigma!Enabled(applied) :
    f.name = n /\ active[n] = Sigma!Compiled(f, applied)

\* An enabled rule is in the directory or still to be compiled.
ProgressInv ==
  stage = "compile" \/ complete =>
    \A f \in Sigma!Enabled(applied) : f \in left \/ f.name \in Sigma!FromRules

\* Once the directory is complete nothing is left, and none is at work on it.
CompleteInv == complete => left = {} /\ stage # "compile"

SigmaInv == AppliedInv /\ CompiledInv /\ ProgressInv /\ CompleteInv

\* The directory is empty and no curation has been started.
LEMMA SigmaInit == Sigma!Init => SigmaInv
  BY DEF Sigma!Init, SigmaInv, AppliedInv, CompiledInv, ProgressInv, CompleteInv,
         Sigma!FromRules, Sigma!Empty

\* What an entry of the directory is after a file has been put there.
LEMMA PutEntry ==
  ASSUME NEW f, NEW n, NEW r, NEW m \in DOMAIN Sigma!Put(f, n, r)
  PROVE  Sigma!Put(f, n, r)[m] = IF m = n THEN r ELSE f[m]
  BY DEF Sigma!Put

\* A compiled rule is one that no hand put there.
LEMMA CompiledByRule ==
  \A f, p : Sigma!Compiled(f, p).byHand = FALSE /\ Sigma!Compiled(f, p).id = f.id
  BY DEF Sigma!Compiled

-----------------------------------------------------------------------------
(* One lemma per action that touches the directory or the policy in force.  *)

\* An empty directory holds nothing that is disabled, and everything is to do.
LEMMA CleanInv == SigmaInv /\ Sigma!Clean => SigmaInv'
  BY DEF Sigma!Clean, SigmaInv, AppliedInv, CompiledInv, ProgressInv, CompleteInv,
         Sigma!FromRules, Sigma!Empty, Sigma!Enabled, Sigma!Disabled

\* A file that is not enabled need not be compiled.
LEMMA SkipInv ==
  ASSUME SigmaInv, NEW g \in RuleFiles, Sigma!Skip(g)
  PROVE  SigmaInv'
<1> USE DEF Sigma!Skip, Sigma!directory, Sigma!process, Sigma!bounds
<1>1. Sigma!FromRules' = Sigma!FromRules
  BY DEF Sigma!FromRules
<1>2. AppliedInv' /\ CompiledInv' /\ CompleteInv'
  BY <1>1
     DEF SigmaInv, AppliedInv, CompiledInv, CompleteInv, Sigma!Enabled, Sigma!Disabled,
         Sigma!Compiled
<1>3. stage = "compile" /\ applied = loaded /\ ~complete
  BY DEF SigmaInv, AppliedInv, CompleteInv
<1>4. g \notin Sigma!Enabled(applied)
  BY <1>3
<1>5. ProgressInv'
  BY <1>1, <1>3, <1>4 DEF SigmaInv, ProgressInv, Sigma!Enabled, Sigma!Disabled
<1> QED
  BY <1>2, <1>5 DEF SigmaInv

\* The rule takes its name in the directory; the others there stay.
LEMMA CompileInv ==
  ASSUME SigmaInv, NEW g \in RuleFiles, Sigma!Compile(g)
  PROVE  SigmaInv'
<1> USE DEF Sigma!Compile, Sigma!process, Sigma!bounds
<1>1. stage = "compile" /\ applied = loaded /\ ~complete /\ g \in Sigma!Enabled(applied)
  BY DEF SigmaInv, AppliedInv, CompleteInv
<1>2. Sigma!FromRules' = Sigma!FromRules \union {g.name}
  BY PutEntry, CompiledByRule DEF Sigma!FromRules, Sigma!Put
<1>3. ASSUME NEW n \in Sigma!FromRules'
      PROVE  \E f \in Sigma!Enabled(applied) : f.name = n /\ active'[n] = Sigma!Compiled(f, applied)
  <2>1. CASE n = g.name
    BY <1>1, <2>1, PutEntry DEF Sigma!Put
  <2>2. CASE n # g.name
    <3>1. n \in Sigma!FromRules /\ active'[n] = active[n]
      BY <1>2, <2>2, <1>3, PutEntry DEF Sigma!FromRules, Sigma!Put
    <3> QED
      BY <3>1 DEF SigmaInv, CompiledInv
  <2> QED
    BY <2>1, <2>2
<1>4. CompiledInv'
  BY <1>3 DEF CompiledInv, Sigma!Enabled, Sigma!Disabled, Sigma!Compiled
<1>5. ProgressInv'
  BY <1>1, <1>2 DEF SigmaInv, ProgressInv, Sigma!Enabled, Sigma!Disabled
<1>6. AppliedInv' /\ CompleteInv'
  BY <1>1 DEF AppliedInv, CompleteInv
<1> QED
  BY <1>4, <1>5, <1>6 DEF SigmaInv

\* A rule put there by hand is none of a curation's.
LEMMA DropInv ==
  ASSUME SigmaInv, NEW n \in HandNames, Sigma!Drop(n)
  PROVE  SigmaInv'
<1> USE DEF Sigma!Drop, Sigma!process, Sigma!bounds
<1>1. Sigma!FromRules' = Sigma!FromRules /\ \A m \in Sigma!FromRules : active'[m] = active[m]
  BY PutEntry DEF Sigma!FromRules, Sigma!Put, Sigma!ByHand
<1> QED
  BY <1>1
     DEF SigmaInv, AppliedInv, CompiledInv, ProgressInv, CompleteInv, Sigma!Enabled,
         Sigma!Disabled, Sigma!Compiled

\* The other steps leave the directory alone.
LEMMA SigmaOther ==
  ASSUME SigmaInv,
         \/ Sigma!Begin \/ Sigma!EndCompile \/ Sigma!Validate \/ Sigma!Kill
         \/ Sigma!EditPolicy \/ UNCHANGED Sigma!vars
  PROVE  SigmaInv'
<1>1. Sigma!FromRules' = Sigma!FromRules
  BY DEF Sigma!Begin, Sigma!EndCompile, Sigma!Validate, Sigma!Kill, Sigma!EditPolicy,
         Sigma!vars, Sigma!directory, Sigma!FromRules
<1> QED
  BY <1>1
     DEF Sigma!Begin, Sigma!EndCompile, Sigma!Validate, Sigma!Kill, Sigma!EditPolicy,
         Sigma!vars, Sigma!directory, Sigma!process, SigmaInv, AppliedInv, CompiledInv,
         ProgressInv, CompleteInv, Sigma!Enabled, Sigma!Disabled, Sigma!Compiled

\* What is left of a directory that is removed in part was there before.
LEMMA KillInCleanInv == SigmaInv /\ Sigma!KillInClean => SigmaInv'
<1> SUFFICES ASSUME SigmaInv, Sigma!KillInClean
             PROVE  SigmaInv'
  OBVIOUS
<1>1. PICK kept \in SUBSET DOMAIN active : active' = [n \in kept |-> active[n]]
  BY DEF Sigma!KillInClean
<1>2. \A n \in Sigma!FromRules' : n \in Sigma!FromRules /\ active'[n] = active[n]
  BY <1>1 DEF Sigma!FromRules
<1>3. stage' = "idle" /\ complete' = FALSE /\ applied' = applied
  BY DEF Sigma!KillInClean
<1>4. CompiledInv'
  <2>1. Sigma!Enabled(applied)' = Sigma!Enabled(applied)
    BY <1>3 DEF Sigma!Enabled, Sigma!Disabled
  <2>2. \A f : Sigma!Compiled(f, applied)' = Sigma!Compiled(f, applied)
    BY <1>3 DEF Sigma!Compiled
  <2>3. \A n \in Sigma!FromRules' : \E f \in Sigma!Enabled(applied) :
          f.name = n /\ active'[n] = Sigma!Compiled(f, applied)
    BY <1>2 DEF SigmaInv, CompiledInv
  <2> QED
    BY <1>3, <2>1, <2>3 DEF CompiledInv, Sigma!Compiled
<1> QED
  BY <1>3, <1>4 DEF SigmaInv, AppliedInv, ProgressInv, CompleteInv

\* The invariant is inductive.
LEMMA SigmaNext == SigmaInv /\ [Sigma!Next]_(Sigma!vars) => SigmaInv'
  BY CleanInv, SkipInv, CompileInv, DropInv, KillInCleanInv, SigmaOther DEF Sigma!Next, Sigma!Curation

\* The curation keeps its invariant, from which its two properties follow.
THEOREM SigmaInvariance == Sigma!Spec => []SigmaInv
  BY SigmaInit, SigmaNext, PTL DEF Sigma!Spec

\* A name in the directory is that of a rule file or of one put there by hand.
LEMMA SigmaTypes ==
  ASSUME Sigma!TypeOK, [Sigma!Next]_(Sigma!vars)
  PROVE  Sigma!TypeOK'
<1> USE SigmaAssumption DEF Sigma!TypeOK, Sigma!directory, Sigma!process, Sigma!bounds
<1>1. CASE Sigma!Begin \/ Sigma!EndCompile \/ Sigma!Validate \/ Sigma!Kill
  <2>1. CASE Sigma!Begin
    BY <2>1 DEF Sigma!Begin
  <2>2. CASE Sigma!EndCompile
    BY <2>2 DEF Sigma!EndCompile
  <2>3. CASE Sigma!Validate
    BY <2>3 DEF Sigma!Validate
  <2>4. CASE Sigma!Kill
    BY <2>4 DEF Sigma!Kill
  <2> QED
    BY <1>1, <2>1, <2>2, <2>3, <2>4
<1>2. CASE Sigma!Clean
  BY <1>2 DEF Sigma!Clean, Sigma!Empty
<1>7. CASE Sigma!KillInClean
  <2>1. DOMAIN active' \subseteq DOMAIN active
    BY <1>7 DEF Sigma!KillInClean
  <2>2. kills < MaxKills /\ kills' = kills + 1 /\ stage' = "idle" /\ complete' = FALSE
        /\ UNCHANGED <<policy, left, loaded, applied, curations, policyEdits>>
    BY <1>7 DEF Sigma!KillInClean
  <2>3. DOMAIN active' \subseteq {f.name : f \in RuleFiles} \union HandNames
    BY <2>1
  <2>4. kills' \in 0..MaxKills
    BY <2>2
  <2> QED
    BY <2>2, <2>3, <2>4
<1>3. ASSUME NEW g \in RuleFiles, Sigma!Skip(g) \/ Sigma!Compile(g) PROVE Sigma!TypeOK'
  <2>1. CASE Sigma!Skip(g)
    BY <2>1 DEF Sigma!Skip
  <2>2. CASE Sigma!Compile(g)
    <3>1. DOMAIN active' = DOMAIN active \union {g.name}
      BY <2>2 DEF Sigma!Compile, Sigma!Put
    <3> QED
      BY <2>2, <3>1 DEF Sigma!Compile
  <2> QED
    BY <1>3, <2>1, <2>2
<1>4. CASE Sigma!EditPolicy
  BY <1>4 DEF Sigma!EditPolicy
<1>5. ASSUME NEW n \in HandNames, Sigma!Drop(n) PROVE Sigma!TypeOK'
  <2>1. DOMAIN active' = DOMAIN active \union {n}
    BY <1>5 DEF Sigma!Drop, Sigma!Put
  <2> QED
    BY <1>5, <2>1 DEF Sigma!Drop
<1>6. CASE UNCHANGED Sigma!vars
  BY <1>6 DEF Sigma!vars
<1> QED
  BY <1>1, <1>2, <1>3, <1>4, <1>5, <1>6, <1>7 DEF Sigma!Next, Sigma!Curation

\* The variables of the curation keep their types.
LEMMA SigmaTypesCorrect == Sigma!Spec => []Sigma!TypeOK
<1>1. ASSUME Sigma!Init PROVE Sigma!TypeOK
  <2>1. curations \in 0..MaxCurations /\ policyEdits \in 0..MaxPolicies /\ kills \in 0..MaxKills
    BY <1>1, SigmaAssumption DEF Sigma!Init
  <2> QED
    BY <1>1, <2>1, SigmaAssumption DEF Sigma!Init, Sigma!TypeOK, Sigma!Empty
<1> QED
  BY <1>1, SigmaTypes, PTL DEF Sigma!Spec

-----------------------------------------------------------------------------
(* The benchmark: totals over the services.                                 *)
(* Total is a fold, which is a function that is said to exist: what it is   *)
(* comes by induction over the number of services, and that by the least     *)
(* number for which there is none.                                           *)

\* Induction over the numbers, as a fact about a set of numbers.
LEMMA Induction ==
  ASSUME NEW N, 0 \in N, \A n \in Nat : n \in N => n + 1 \in N
  PROVE  Nat \subseteq N
<1> SUFFICES ASSUME Nat \ N # {} PROVE FALSE
  OBVIOUS
<1> DEFINE R == OpToRel(<, Nat)
<1>1. IsWellFoundedOn(R, Nat)
  BY NatLessThanWellFounded
<1>2. \A m, n \in Nat : m < n => <<m, n>> \in R
  BY DEF OpToRel
<1> HIDE DEF R
<1>3. PICK n \in Nat \ N : \A m \in Nat \ N : <<m, n>> \notin R
  BY <1>1, WFMin
<1>4. n - 1 \in Nat /\ n - 1 < n /\ (n - 1) + 1 = n
  BY <1>3
<1> QED
  BY <1>2, <1>3, <1>4

Counted == Services \ Exempt
Pick(s) == CHOOSE x \in s : TRUE

\* Running sums of f, over every set of services.
Sums(f, g) ==
  g = [s \in SUBSET Counted |-> IF s = {} THEN 0 ELSE f[Pick(s)] + g[s \ {Pick(s)}]]

\* Sets of services that are counted have a number of elements.
LEMMA CountedSets ==
  \A s \in SUBSET Counted : Cardinality(s) \in Nat /\ (Cardinality(s) = 0 <=> s = {})
<1> SUFFICES ASSUME NEW s \in SUBSET Counted
             PROVE  Cardinality(s) \in Nat /\ (Cardinality(s) = 0 <=> s = {})
  OBVIOUS
<1>1. IsFiniteSet(s)
  BY FS_Subset, BenchAssumption DEF Counted
<1> QED
  BY <1>1, FS_CardinalityType, FS_EmptySet

\* A set without the element that is picked is one smaller.
LEMMA Shrink ==
  ASSUME NEW s \in SUBSET Counted, s # {}
  PROVE  /\ Pick(s) \in s /\ Pick(s) \in Services
         /\ s \ {Pick(s)} \in SUBSET Counted
         /\ Cardinality(s) \in Nat /\ Cardinality(s \ {Pick(s)}) \in Nat
         /\ Cardinality(s) = Cardinality(s \ {Pick(s)}) + 1
<1>1. Pick(s) \in s
  BY DEF Pick
<1>2. IsFiniteSet(s)
  BY FS_Subset, BenchAssumption DEF Counted
<1>3. Cardinality(s) \in Nat
  BY <1>2, FS_CardinalityType
<1>4. IsFiniteSet(s \ {Pick(s)}) /\ Cardinality(s \ {Pick(s)}) = Cardinality(s) - 1
  BY <1>1, <1>2, FS_RemoveElement
<1>5. Cardinality(s \ {Pick(s)}) \in Nat
  BY <1>4, FS_CardinalityType
<1> QED
  BY <1>1, <1>3, <1>4, <1>5 DEF Counted

\* There are running sums: of sets of one element more at each step.
LEMMA SumsExist ==
  ASSUME NEW f
  PROVE  \E g : Sums(f, g)
<1> DEFINE Small(n) == {s \in SUBSET Counted : Cardinality(s) <= n}
           Step(g, s) == IF s = {} THEN 0 ELSE f[Pick(s)] + g[s \ {Pick(s)}]
           N == {n \in Nat : \E g : g = [s \in Small(n) |-> Step(g, s)]}
<1>1. \A s \in SUBSET Counted : s # {} => Cardinality(s) > 0
  BY CountedSets
<1>2. 0 \in N
  <2> DEFINE g == [s \in Small(0) |-> 0]
  <2>1. \A s \in Small(0) : s = {}
    BY CountedSets
  <2>2. g = [s \in Small(0) |-> Step(g, s)]
    BY <2>1
  <2> QED
    BY <2>2
<1>3. ASSUME NEW n \in N PROVE n + 1 \in N
  <2>1. PICK g : g = [s \in Small(n) |-> Step(g, s)]
    OBVIOUS
  <2> DEFINE h == [s \in Small(n + 1) |-> Step(g, s)]
  <2>2. \A s \in Small(n + 1) : s # {} => s \ {Pick(s)} \in Small(n)
    BY Shrink
  <2>3. \A s \in Small(n) : s \in Small(n + 1) /\ h[s] = g[s]
    <3>1. \A s \in Small(n) : s \in Small(n + 1)
      <4>1. \A s \in Small(n) : Cardinality(s) \in Nat
        BY CountedSets
      <4> QED
        BY <4>1
    <3>2. \A s \in Small(n) : g[s] = Step(g, s)
      <4> HIDE DEF Step, Small
      <4> QED BY <2>1
    <3>3. \A s \in Small(n + 1) : h[s] = Step(g, s)
      <4> HIDE DEF Step, Small
      <4> QED OBVIOUS
    <3> QED
      BY <3>1, <3>2, <3>3
  <2>4. \A s \in Small(n + 1) : Step(g, s) = Step(h, s)
    <3> SUFFICES ASSUME NEW s \in Small(n + 1) PROVE Step(g, s) = Step(h, s)
      OBVIOUS
    <3>1. s # {} => g[s \ {Pick(s)}] = h[s \ {Pick(s)}]
      <4> HIDE DEF h, Small
      <4> QED BY <2>2, <2>3
    <3> HIDE DEF h
    <3> QED BY <3>1
  <2>5. h = [s \in Small(n + 1) |-> Step(h, s)]
    <3> HIDE DEF Step, Small
    <3>1. [s \in Small(n + 1) |-> Step(g, s)] = [s \in Small(n + 1) |-> Step(h, s)]
      <4> HIDE DEF h
      <4> QED BY <2>4
    <3> QED BY <3>1
  <2>6. \E k : k = [s \in Small(n + 1) |-> Step(k, s)]
    <3> HIDE DEF h, Step, Small
    <3> QED BY <2>5
  <2>7. n + 1 \in Nat
    OBVIOUS
  <2> HIDE DEF Step, Small
  <2> QED
    BY <2>6, <2>7
<1>4. Nat \subseteq N
  <2> HIDE DEF N
  <2> QED BY <1>2, <1>3, Induction
<1>5. IsFiniteSet(Counted) /\ Cardinality(Counted) \in Nat
  BY FS_Subset, FS_CardinalityType, BenchAssumption DEF Counted
<1>6. Small(Cardinality(Counted)) = SUBSET Counted
  BY <1>5, FS_Subset
<1>7. PICK g : g = [s \in Small(Cardinality(Counted)) |-> Step(g, s)]
  <2> HIDE DEF Step, Small
  <2> QED BY <1>4, <1>5
<1>8. g = [s \in SUBSET Counted |-> Step(g, s)]
  <2> HIDE DEF Step, Small
  <2> QED BY <1>6, <1>7
<1> QED
  BY <1>8 DEF Sums

\* Sums of numbers are numbers, and grow with what is added up.
LEMMA SumsGrow ==
  ASSUME NEW f \in [Services -> Nat], NEW h \in [Services -> Nat],
         \A s \in Services : f[s] <= h[s],
         NEW fs, NEW hs, Sums(f, fs), Sums(h, hs)
  PROVE  \A s \in SUBSET Counted : fs[s] \in Nat /\ hs[s] \in Nat /\ fs[s] <= hs[s]
<1> DEFINE Ok(s) == fs[s] \in Nat /\ hs[s] \in Nat /\ fs[s] <= hs[s]
           N == {n \in Nat : \A s \in SUBSET Counted : Cardinality(s) <= n => Ok(s)}
<1>1. \A s \in SUBSET Counted : s # {} =>
        fs[s] = f[Pick(s)] + fs[s \ {Pick(s)}] /\ hs[s] = h[Pick(s)] + hs[s \ {Pick(s)}]
  BY DEF Sums
<1>2. Ok({})
  BY DEF Sums
<1>3. ASSUME NEW s \in SUBSET Counted, s # {}, Ok(s \ {Pick(s)}) PROVE Ok(s)
  <2>1. f[Pick(s)] \in Nat /\ h[Pick(s)] \in Nat /\ f[Pick(s)] <= h[Pick(s)]
    BY <1>3, Shrink
  <2>2. fs[s] = f[Pick(s)] + fs[s \ {Pick(s)}] /\ hs[s] = h[Pick(s)] + hs[s \ {Pick(s)}]
    BY <1>1, <1>3
  <2> QED
    BY <1>3, <2>1, <2>2
<1> HIDE DEF Ok
<1>4. 0 \in N
  BY <1>2, CountedSets
<1>5. ASSUME NEW n \in N PROVE n + 1 \in N
  <2> SUFFICES ASSUME NEW s \in SUBSET Counted, Cardinality(s) <= n + 1 PROVE Ok(s)
    OBVIOUS
  <2>1. CASE s = {}
    BY <1>2, <2>1
  <2>2. CASE s # {}
    <3>1. Cardinality(s \ {Pick(s)}) <= n /\ s \ {Pick(s)} \in SUBSET Counted
      BY <2>2, Shrink
    <3> QED
      BY <1>3, <2>2, <3>1
  <2> QED
    BY <2>1, <2>2
<1>6. Nat \subseteq N
  <2> HIDE DEF N
  <2> QED BY <1>4, <1>5, Induction
<1> SUFFICES ASSUME NEW s \in SUBSET Counted PROVE Ok(s)
  BY DEF Ok
<1>7. Cardinality(s) \in Nat
  BY CountedSets
<1> QED
  BY <1>6, <1>7

\* FoldSet's function is one of running sums, since there is one.
LEMMA TotalIsSum ==
  ASSUME NEW f
  PROVE  \E g : Sums(f, g) /\ Bench!Total(f) = g[Counted]
<1> DEFINE iter == CHOOSE g : Sums(f, g)
<1>1. Sums(f, iter)
  BY SumsExist
<1>2. Bench!Total(f) = iter[Counted]
  BY DEF Bench!Total, Bench!FoldSet, Bench!MapThenFoldSet, Counted, Sums, Pick
<1> HIDE DEF iter
<1> QED
  BY <1>1, <1>2

\* A total grows with what it adds up.
LEMMA TotalMonotonic ==
  ASSUME NEW f \in [Services -> Nat], NEW h \in [Services -> Nat],
         \A s \in Services : f[s] <= h[s]
  PROVE  Bench!Total(f) \in Nat /\ Bench!Total(h) \in Nat /\ Bench!Total(f) <= Bench!Total(h)
<1>1. PICK fs : Sums(f, fs) /\ Bench!Total(f) = fs[Counted]
  BY TotalIsSum
<1>2. PICK hs : Sums(h, hs) /\ Bench!Total(h) = hs[Counted]
  BY TotalIsSum
<1> QED
  BY <1>1, <1>2, SumsGrow

-----------------------------------------------------------------------------
(* The benchmark: the inductive invariant.                                  *)

BenchTypes ==
  /\ counter \in [Services -> Nat] /\ replaced \subseteq Services
  /\ bench \in {"new", "sample", "check", "pass", "fail", "error"}
  /\ enforced \in BOOLEAN
  /\ duration \in Durations \union {0}
  /\ samples \in 0..MaxSamples /\ restarts \in 0..MaxRestarts
  /\ first \in [Services -> Nat] /\ last \in [Services -> Nat]
  /\ ramMax \in [Services -> Nat]
  /\ written \in [Services -> Nat] /\ unseen \in [Services -> Nat]
Bounded ==
  /\ \A s \in Services : counter[s] <= MaxWritten /\ first[s] <= MaxWritten /\ last[s] <= MaxWritten
  /\ \A s \in Services : ramMax[s] <= MaxRam

\* Nothing restarts before the benchmark, which has a duration once it has begun.
PhaseInv ==
  /\ bench = "new" => samples = 0 /\ restarts = 0
  /\ bench \in {"sample", "check", "pass", "fail"} => duration \in Durations

StartInv == samples = 0 => first = Bench!Zero /\ last = Bench!Zero /\ written = Bench!Zero

\* The counters never show more than was written, whatever restarts.
AtMostInv ==
  samples > 0 =>
    \A s \in Services : /\ last[s] <= first[s] + written[s]
                        /\ s \in replaced \/ counter[s] <= last[s] + unseen[s]

\* They show just that when nothing does.
ExactInv ==
  restarts = 0 =>
    /\ replaced = {}
    /\ samples > 0 => \A s \in Services : /\ last[s] = first[s] + written[s]
                                          /\ counter[s] = last[s] + unseen[s]

VerdictInv ==
  /\ bench = "fail" => enforced /\ ~Bench!WithinBudgets
  /\ bench = "pass" /\ enforced => Bench!WithinBudgets

BenchInv == BenchTypes /\ Bounded /\ PhaseInv /\ StartInv /\ AtMostInv /\ ExactInv /\ VerdictInv

\* Nothing has been written and nothing measured.
LEMMA BenchInit == Bench!Init => BenchInv
<1> SUFFICES ASSUME Bench!Init PROVE BenchInv
  OBVIOUS
<1> USE BenchAssumption DEF Bench!Init, Bench!Zero
<1>1. Bench!Zero \in [Services -> Nat] /\ \A s \in Services : Bench!Zero[s] = 0
  OBVIOUS
<1>2. BenchTypes /\ Bounded
  <2> HIDE DEF Bench!Zero
  <2>1. /\ bench = "new" /\ duration = 0 /\ samples \in 0..MaxSamples /\ restarts \in 0..MaxRestarts
        /\ replaced \subseteq Services
    OBVIOUS
  <2>5. enforced \in BOOLEAN
    OBVIOUS
  <2>2. /\ counter = Bench!Zero /\ first = Bench!Zero /\ last = Bench!Zero
        /\ ramMax = Bench!Zero /\ written = Bench!Zero /\ unseen = Bench!Zero
    OBVIOUS
  <2> HIDE DEF Bench!Init
  <2>3. BenchTypes
    BY <1>1, <2>1, <2>2, <2>5 DEF BenchTypes
  <2>4. Bounded
    BY <1>1, <2>2, BenchAssumption DEF Bounded
  <2> QED
    BY <2>3, <2>4
<1>3. PhaseInv /\ StartInv /\ AtMostInv /\ ExactInv /\ VerdictInv
  BY DEF PhaseInv, StartInv, AtMostInv, ExactInv, VerdictInv
<1> QED
  BY <1>2, <1>3 DEF BenchInv

\* What was unseen up to a sample was written by then.
LEMMA SampleInv ==
  ASSUME BenchInv, Bench!Sample
  PROVE  BenchInv'
<1> DEFINE io == [s \in Services |-> Bench!Reading(s)]
<1>1. /\ bench = "sample" /\ samples < MaxSamples /\ samples' = samples + 1
      /\ first' = (IF samples = 0 THEN io ELSE first) /\ last' = io /\ unseen' = Bench!Zero
      /\ written' = IF samples = 0 THEN Bench!Zero ELSE [s \in Services |-> written[s] + unseen[s]]
      /\ UNCHANGED <<counter, replaced, bench, enforced, duration, restarts>>
  BY DEF Bench!Sample, Bench!FirstOf
<1>2. \A s \in Services :
        io[s] \in Nat /\ io[s] <= counter[s] /\ (s \in replaced \/ io[s] = counter[s])
  BY DEF Bench!Reading, BenchInv, BenchTypes
<1>3. io \in [Services -> Nat]
  BY <1>2
<1> HIDE DEF io
<1>4. PICK ram \in [Services -> 0..MaxRam] :
        ramMax' = [s \in Services |-> IF ram[s] > ramMax[s] THEN ram[s] ELSE ramMax[s]]
  BY DEF Bench!Sample
<1>5. ramMax' \in [Services -> Nat] /\ \A s \in Services : ramMax'[s] <= MaxRam
  BY <1>4, BenchAssumption DEF BenchInv, BenchTypes, Bounded
<1>6. written' \in [Services -> Nat] /\ unseen' \in [Services -> Nat]
  BY <1>1 DEF BenchInv, BenchTypes, Bench!Zero
<1>7. BenchTypes'
  BY <1>1, <1>3, <1>5, <1>6, BenchAssumption DEF BenchInv, BenchTypes
<1>8. Bounded'
  <2>1. \A s \in Services : counter[s] \in Nat /\ counter[s] <= MaxWritten /\ first[s] <= MaxWritten
    BY DEF BenchInv, BenchTypes, Bounded
  <2>2. \A s \in Services : io[s] <= MaxWritten
    BY <1>2, <2>1, BenchAssumption
  <2>3. \A s \in Services :
          counter'[s] <= MaxWritten /\ first'[s] <= MaxWritten /\ last'[s] <= MaxWritten
    BY <1>1, <2>1, <2>2
  <2> QED
    BY <1>5, <2>3 DEF Bounded
<1>9. PhaseInv' /\ StartInv' /\ VerdictInv'
  BY <1>1 DEF BenchInv, BenchTypes, PhaseInv, StartInv, VerdictInv
<1>10. AtMostInv'
  <2> SUFFICES ASSUME NEW s \in Services
               PROVE  /\ last'[s] <= first'[s] + written'[s]
                      /\ s \in replaced' \/ counter'[s] <= last'[s] + unseen'[s]
    BY DEF AtMostInv
  <2>1. /\ counter[s] \in Nat /\ first[s] \in Nat /\ written[s] \in Nat /\ unseen[s] \in Nat
        /\ last[s] \in Nat /\ samples \in Nat
    BY BenchAssumption DEF BenchInv, BenchTypes
  <2>2. unseen'[s] = 0 /\ last'[s] = io[s] /\ counter'[s] = counter[s] /\ replaced' = replaced
    BY <1>1 DEF Bench!Zero
  <2>3. CASE samples = 0
    BY <1>1, <1>2, <2>1, <2>2, <2>3 DEF Bench!Zero
  <2>4. CASE samples # 0
    <3>1. first'[s] = first[s] /\ written'[s] = written[s] + unseen[s]
      BY <1>1, <2>4
    <3>2. last[s] <= first[s] + written[s] /\ (s \in replaced \/ counter[s] <= last[s] + unseen[s])
      BY <2>1, <2>4 DEF BenchInv, AtMostInv
    <3>3. s \in replaced => io[s] = 0
      BY DEF io, Bench!Reading
    <3> QED
      BY <1>2, <2>1, <2>2, <3>1, <3>2, <3>3
  <2> QED
    BY <2>3, <2>4
<1>11. ExactInv'
  <2> SUFFICES ASSUME restarts = 0, NEW s \in Services
               PROVE  /\ replaced' = {} /\ last'[s] = first'[s] + written'[s]
                      /\ counter'[s] = last'[s] + unseen'[s]
    BY <1>1 DEF BenchInv, ExactInv
  <2>1. /\ counter[s] \in Nat /\ first[s] \in Nat /\ written[s] \in Nat /\ unseen[s] \in Nat
        /\ last[s] \in Nat /\ samples \in Nat
    BY BenchAssumption DEF BenchInv, BenchTypes
  <2>2. unseen'[s] = 0 /\ last'[s] = counter[s] /\ counter'[s] = counter[s] /\ replaced' = {}
    BY <1>1, <1>2 DEF Bench!Zero, BenchInv, ExactInv
  <2>3. CASE samples = 0
    BY <1>1, <1>2, <2>1, <2>2, <2>3 DEF Bench!Zero
  <2>4. CASE samples # 0
    <3>1. first'[s] = first[s] /\ written'[s] = written[s] + unseen[s]
      BY <1>1, <2>4
    <3>2. last[s] = first[s] + written[s] /\ counter[s] = last[s] + unseen[s]
      BY <2>1, <2>4 DEF BenchInv, ExactInv
    <3> QED
      BY <2>1, <2>2, <3>1, <3>2
  <2> QED
    BY <2>3, <2>4
<1> QED
  BY <1>7, <1>8, <1>9, <1>10, <1>11 DEF BenchInv

\* A service writes what the next sample is to see.
LEMMA WriteInv ==
  ASSUME BenchInv, NEW s \in Services, Bench!Write(s)
  PROVE  BenchInv'
<1>1. /\ bench \in {"new", "sample"} /\ counter[s] < MaxWritten
      /\ counter' = [counter EXCEPT ![s] = @ + 1] /\ unseen' = [unseen EXCEPT ![s] = @ + 1]
      /\ UNCHANGED <<replaced, bench, enforced, duration, samples, first, last, ramMax, written,
                     restarts>>
  BY DEF Bench!Write
<1>2. BenchTypes'
  BY <1>1 DEF BenchInv, BenchTypes
<1>3. Bounded'
  BY <1>1, BenchAssumption DEF BenchInv, BenchTypes, Bounded
<1>4. PhaseInv' /\ StartInv' /\ VerdictInv'
  BY <1>1 DEF BenchInv, PhaseInv, StartInv, VerdictInv
<1>5. AtMostInv'
  BY <1>1 DEF BenchInv, BenchTypes, AtMostInv
<1>6. ExactInv'
  BY <1>1 DEF BenchInv, BenchTypes, ExactInv
<1> QED
  BY <1>2, <1>3, <1>4, <1>5, <1>6 DEF BenchInv

\* A counter that starts again shows less than was written.
LEMMA RestartInv ==
  ASSUME BenchInv, NEW s \in Services, Bench!Restart(s)
  PROVE  BenchInv'
<1>1. /\ bench = "sample" /\ restarts < MaxRestarts /\ restarts' = restarts + 1
      /\ counter' = [counter EXCEPT ![s] = 0] /\ replaced \subseteq replaced'
      /\ replaced' \subseteq Services
      /\ UNCHANGED <<bench, enforced, duration, samples, first, last, ramMax, written, unseen>>
  BY DEF Bench!Restart, Bench!readings, BenchInv, BenchTypes
<1>2. BenchTypes'
  BY <1>1, BenchAssumption DEF BenchInv, BenchTypes
<1>3. Bounded'
  BY <1>1, BenchAssumption DEF BenchInv, BenchTypes, Bounded
<1>4. restarts' # 0
  BY <1>1 DEF BenchInv, BenchTypes
<1>5. PhaseInv' /\ StartInv' /\ VerdictInv' /\ ExactInv'
  BY <1>1, <1>4 DEF BenchInv, PhaseInv, StartInv, VerdictInv, ExactInv
<1>6. AtMostInv'
  BY <1>1 DEF BenchInv, BenchTypes, AtMostInv
<1> QED
  BY <1>2, <1>3, <1>5, <1>6 DEF BenchInv

\* The budgets look at the samples alone.
LEMMA SameVerdict ==
  ASSUME UNCHANGED <<duration, first, last, ramMax>>
  PROVE  Bench!WithinBudgets' = Bench!WithinBudgets
<1>1. Bench!Window' = Bench!Window
  BY DEF Bench!Window
<1>2. /\ Bench!Total(ramMax)' = Bench!Total(ramMax)
      /\ Bench!Total(Bench!Window)' = Bench!Total(Bench!Window)
  BY <1>1
<1>3. Bench!RamProblems' = Bench!RamProblems /\ Bench!WriteProblems' = Bench!WriteProblems
  BY <1>1 DEF Bench!RamProblems, Bench!WriteProblems, Bench!RateExceeds, Bench!Divisor
<1> QED
  BY <1>1, <1>2, <1>3 DEF Bench!WithinBudgets, Bench!RateExceeds, Bench!Divisor

\* The verdict is that of the budgets.
LEMMA CheckInv == BenchInv /\ Bench!Check => BenchInv'
<1> SUFFICES ASSUME BenchInv, Bench!Check PROVE BenchInv'
  OBVIOUS
<1> USE DEF Bench!Check, Bench!readings
<1>1. Bench!WithinBudgets' = Bench!WithinBudgets
  BY SameVerdict
<1>2. VerdictInv'
  BY <1>1 DEF VerdictInv, BenchInv, BenchTypes
<1>3. bench' \in {"pass", "fail"}
  OBVIOUS
<1>4. BenchTypes' /\ PhaseInv'
  BY <1>3 DEF BenchInv, BenchTypes, PhaseInv
<1>5. Bounded' /\ StartInv' /\ AtMostInv' /\ ExactInv'
  BY DEF BenchInv, Bounded, StartInv, AtMostInv, ExactInv
<1> QED
  BY <1>2, <1>4, <1>5 DEF BenchInv

\* The other steps change no measurement.
LEMMA BenchOther ==
  ASSUME BenchInv, Bench!Begin \/ Bench!SampleFails \/ Bench!EndSampling \/ UNCHANGED Bench!vars
  PROVE  BenchInv'
<1> USE DEF Bench!Begin, Bench!SampleFails, Bench!EndSampling, Bench!vars, Bench!readings
<1>1. BenchTypes'
  BY DEF BenchInv, BenchTypes
<1>2. Bounded' /\ StartInv' /\ AtMostInv' /\ ExactInv'
  BY DEF BenchInv, Bounded, StartInv, AtMostInv, ExactInv
<1>3. PhaseInv'
  BY DEF BenchInv, BenchTypes, PhaseInv
<1>4. VerdictInv'
  <2>1. CASE UNCHANGED Bench!vars
    BY <2>1, SameVerdict DEF BenchInv, VerdictInv
  <2>2. CASE bench' \notin {"pass", "fail"}
    BY <2>2 DEF VerdictInv
  <2> QED
    BY <2>1, <2>2
<1> QED
  BY <1>1, <1>2, <1>3, <1>4 DEF BenchInv

\* The invariant is inductive.
LEMMA BenchNext == BenchInv /\ [Bench!Next]_(Bench!vars) => BenchInv'
  BY SampleInv, WriteInv, RestartInv, CheckInv, BenchOther DEF Bench!Next

\* The benchmark keeps its invariant, from which its two properties follow.
THEOREM BenchInvariance == Bench!Spec => []BenchInv
  BY BenchInit, BenchNext, PTL DEF Bench!Spec

\* The variables of the benchmark keep their types, the counters within the bounds.
LEMMA BenchTypesCorrect == Bench!Spec => []Bench!TypeOK
<1>1. ASSUME BenchTypes, Bounded PROVE Bench!TypeOK
  <2>1. /\ counter \in [Services -> 0..MaxWritten] /\ first \in [Services -> 0..MaxWritten]
        /\ last \in [Services -> 0..MaxWritten]
    BY <1>1, BenchAssumption DEF BenchTypes, Bounded
  <2>2. ramMax \in [Services -> 0..MaxRam]
    BY <1>1, BenchAssumption DEF BenchTypes, Bounded
  <2> QED
    BY <1>1, <2>1, <2>2 DEF BenchTypes, Bench!TypeOK
<1> QED
  BY <1>1, BenchInvariance, PTL DEF BenchInv

-----------------------------------------------------------------------------
(* The benchmark: from the invariant to the verdicts.                       *)

\* A product grows with its factors.
LEMMA ProductGrows ==
  ASSUME NEW x \in Nat, NEW y \in Nat, NEW m \in Nat, NEW e \in Nat, x <= y, m <= e
  PROVE  x * m \in Nat /\ y * e \in Nat /\ x * m <= y * e
<1>1. PICK k \in Nat : y = x + k
  <2>1. y - x \in Nat /\ y = x + (y - x)
    OBVIOUS
  <2> QED
    BY <2>1
<1>2. PICK l \in Nat : e = m + l
  <2>1. e - m \in Nat /\ e = m + (e - m)
    OBVIOUS
  <2> QED
    BY <2>1
<1>3. x * m \in Nat /\ k * m \in Nat /\ y * l \in Nat /\ y * m \in Nat
  OBVIOUS
<1>4. y * m = x * m + k * m /\ y * e = y * m + y * l
  BY <1>1, <1>2
<1> QED
  BY <1>3, <1>4

\* A larger product with a factor that is no larger has a larger other factor.
LEMMA FactorGrows ==
  ASSUME NEW x \in Nat, NEW y \in Nat, NEW m \in Nat \ {0}, NEW e \in Nat, e <= m,
         x * m <= y * e
  PROVE  x <= y
<1> SUFFICES ASSUME y + 1 <= x PROVE FALSE
  OBVIOUS
<1>1. (y + 1) * m <= x * m /\ y * e <= y * m /\ y * m \in Nat /\ x * m \in Nat /\ y * e \in Nat
  BY ProductGrows
<1>2. (y + 1) * m = y * m + m
  OBVIOUS
<1> QED
  BY <1>1, <1>2

\* Dividing by the minutes twice makes the rate no larger in a minute or more, and
\* no smaller in a minute or less.
LEMMA RateLimits ==
  ASSUME NEW amount \in Nat, NEW budget \in Nat, duration \in Nat
  PROVE  /\ duration >= Bench!Minute /\ amount * Bench!Minute <= budget * duration
              => ~Bench!RateExceeds(amount, budget)
         /\ duration <= Bench!Minute /\ ~Bench!RateExceeds(amount, budget)
              => amount * Bench!Minute <= budget * duration
<1>1. Bench!Minute \in Nat \ {0} /\ Second \in Nat /\ Second <= Bench!Minute
  BY BenchAssumption DEF Bench!Minute
<1>2. /\ Bench!Divisor \in Nat
      /\ duration >= Bench!Minute => Bench!Minute <= Bench!Divisor
      /\ duration <= Bench!Minute => Bench!Divisor <= Bench!Minute
  BY <1>1 DEF Bench!Divisor
<1>3. amount * Bench!Minute \in Nat /\ budget * duration \in Nat
  BY <1>1, ProductGrows
<1>4. /\ (amount * Bench!Minute) * Bench!Minute \in Nat
      /\ (budget * duration) * Bench!Divisor \in Nat
  <2> DEFINE x == amount * Bench!Minute
             y == budget * duration
  <2>1. x \in Nat /\ y \in Nat
    BY <1>3
  <2> HIDE DEF x, y
  <2>2. x * Bench!Minute \in Nat /\ y * Bench!Divisor \in Nat
    BY <1>1, <1>2, <2>1, ProductGrows
  <2> QED
    BY <2>2 DEF x, y
<1>5. Bench!RateExceeds(amount, budget)
        <=> (amount * Bench!Minute) * Bench!Minute > (budget * duration) * Bench!Divisor
  BY DEF Bench!RateExceeds
<1>6. ASSUME duration >= Bench!Minute, amount * Bench!Minute <= budget * duration
      PROVE  ~Bench!RateExceeds(amount, budget)
  <2>1. (amount * Bench!Minute) * Bench!Minute <= (budget * duration) * Bench!Divisor
    BY <1>1, <1>2, <1>3, <1>6, ProductGrows
  <2> QED
    BY <1>4, <1>5, <2>1
<1>7. ASSUME duration <= Bench!Minute, ~Bench!RateExceeds(amount, budget)
      PROVE  amount * Bench!Minute <= budget * duration
  <2>1. (amount * Bench!Minute) * Bench!Minute <= (budget * duration) * Bench!Divisor
    BY <1>4, <1>5, <1>7
  <2> QED
    BY <1>1, <1>2, <1>3, <1>7, <2>1, FactorGrows
<1> QED
  BY <1>6, <1>7

\* The window shows at most what was written, and just that if nothing restarted.
LEMMA WindowAtMost ==
  ASSUME BenchInv
  PROVE  /\ Bench!Window \in [Services -> Nat] /\ \A s \in Services : Bench!Window[s] <= written[s]
         /\ restarts = 0 => Bench!Window = written
<1> USE DEF BenchInv, BenchTypes
<1>1. ASSUME NEW s \in Services
      PROVE  /\ Bench!Window[s] \in Nat /\ Bench!Window[s] <= written[s]
             /\ restarts = 0 => Bench!Window[s] = written[s]
  <2>1. first[s] \in Nat /\ last[s] \in Nat /\ written[s] \in Nat /\ samples \in Nat
    BY BenchAssumption
  <2>2. Bench!Window[s] = IF last[s] > first[s] THEN last[s] - first[s] ELSE 0
    BY DEF Bench!Window
  <2>3. CASE samples = 0
    BY <2>1, <2>2, <2>3 DEF StartInv, Bench!Zero
  <2>4. CASE samples > 0
    BY <2>1, <2>2, <2>4 DEF AtMostInv, ExactInv
  <2> QED
    BY <2>1, <2>3, <2>4
<1>2. Bench!Window = [s \in Services |-> Bench!Window[s]]
  BY DEF Bench!Window
<1>3. restarts = 0 => Bench!Window = written
  BY <1>1, <1>2
<1> QED
  BY <1>1, <1>2, <1>3

\* A stack within its budgets is within them by what the benchmark measured, too,
\* if that took a minute.
LEMMA FailureInv == BenchInv => Bench!FailureIsReal
<1> SUFFICES ASSUME BenchInv, bench = "fail", duration >= Bench!Minute, Bench!TrulyWithin
             PROVE  Bench!WithinBudgets
  BY DEF Bench!FailureIsReal, BenchInv, VerdictInv
<1>1. duration \in Nat /\ Bench!Minute \in Nat
  <2>1. duration \in Nat
    BY BenchAssumption DEF BenchInv, PhaseInv
  <2>2. Bench!Minute \in Nat
    BY BenchAssumption DEF Bench!Minute
  <2> QED
    BY <2>1, <2>2
<1>2. /\ Bench!Window \in [Services -> Nat] /\ written \in [Services -> Nat]
      /\ ramMax \in [Services -> Nat]
      /\ \A s \in Services : Bench!Window[s] <= written[s]
  BY WindowAtMost DEF BenchInv, BenchTypes
<1>3. Bench!RamProblems = {} /\ Bench!Total(ramMax) <= RamTotal
  <2>1. \A s \in Services \ Exempt :
          ramMax[s] \in Nat /\ RamBudget[s] \in Nat /\ ramMax[s] <= RamBudget[s]
    BY <1>2, BenchAssumption DEF Bench!TrulyWithin
  <2> QED
    BY <2>1 DEF Bench!TrulyWithin, Bench!RamProblems
\* What limits the larger amount limits the smaller.
<1>4. ASSUME NEW x \in Nat, NEW y \in Nat, NEW b \in Nat, x <= y,
             y * Bench!Minute <= b * duration
      PROVE  ~Bench!RateExceeds(x, b)
  <2>1. /\ x * Bench!Minute <= y * Bench!Minute /\ x * Bench!Minute \in Nat
        /\ y * Bench!Minute \in Nat /\ b * duration \in Nat
    BY <1>1, <1>4, ProductGrows
  <2>2. x * Bench!Minute <= b * duration
    BY <1>4, <2>1
  <2> QED
    BY <1>1, <2>2, RateLimits
<1>5. Bench!WriteProblems = {}
  <2> SUFFICES ASSUME NEW s \in Services \ Exempt
               PROVE  ~Bench!RateExceeds(Bench!Window[s], WriteBudget[s])
    BY DEF Bench!WriteProblems
  <2>1. /\ WriteBudget[s] \in Nat /\ Bench!Window[s] \in Nat /\ written[s] \in Nat
        /\ Bench!Window[s] <= written[s]
        /\ written[s] * Bench!Minute <= WriteBudget[s] * duration
    BY <1>2, BenchAssumption DEF Bench!TrulyWithin
  <2> QED
    BY <1>4, <2>1
<1>6. ~Bench!RateExceeds(Bench!Total(Bench!Window), WriteTotal)
  <2>1. /\ Bench!Total(Bench!Window) \in Nat /\ Bench!Total(written) \in Nat
        /\ Bench!Total(Bench!Window) <= Bench!Total(written)
    BY <1>2, TotalMonotonic
  <2>2. WriteTotal \in Nat /\ Bench!Total(written) * Bench!Minute <= WriteTotal * duration
    BY BenchAssumption DEF Bench!TrulyWithin
  <2> QED
    BY <1>4, <2>1, <2>2
<1> QED
  BY <1>3, <1>5, <1>6 DEF Bench!WithinBudgets

\* Without restarts the benchmark measures what was written, and in a minute or
\* less it makes no smaller rate of it.
LEMMA PassInv == BenchInv => Bench!ShortPassIsReal
<1> SUFFICES ASSUME BenchInv, bench = "pass", enforced, duration <= Bench!Minute, restarts = 0
             PROVE  Bench!TrulyWithin
  BY DEF Bench!ShortPassIsReal
<1>1. Bench!WithinBudgets
  BY DEF BenchInv, VerdictInv
<1>2. Bench!Window = written /\ written \in [Services -> Nat] /\ ramMax \in [Services -> Nat]
  BY WindowAtMost DEF BenchInv, BenchTypes
<1>3. duration \in Nat
  BY BenchAssumption DEF BenchInv, PhaseInv
<1>4. \A s \in Services \ Exempt :
        ramMax[s] <= RamBudget[s] /\ written[s] * Bench!Minute <= WriteBudget[s] * duration
  <2> SUFFICES ASSUME NEW s \in Services \ Exempt
               PROVE  /\ ramMax[s] <= RamBudget[s]
                      /\ written[s] * Bench!Minute <= WriteBudget[s] * duration
    OBVIOUS
  <2>1. ramMax[s] \in Nat /\ RamBudget[s] \in Nat /\ WriteBudget[s] \in Nat /\ written[s] \in Nat
    BY <1>2, BenchAssumption
  <2>2. ~(ramMax[s] > RamBudget[s]) /\ ~Bench!RateExceeds(written[s], WriteBudget[s])
    BY <1>1, <1>2 DEF Bench!WithinBudgets, Bench!RamProblems, Bench!WriteProblems
  <2> QED
    BY <1>3, <2>1, <2>2, RateLimits
<1>5. Bench!Total(ramMax) <= RamTotal
  BY <1>1 DEF Bench!WithinBudgets
<1>6. Bench!Total(written) * Bench!Minute <= WriteTotal * duration
  <2>1. \A s \in Services : written[s] <= written[s]
    BY <1>2
  <2>2. Bench!Total(written) \in Nat /\ WriteTotal \in Nat
    BY <1>2, <2>1, TotalMonotonic, BenchAssumption
  <2>3. ~Bench!RateExceeds(Bench!Total(written), WriteTotal)
    BY <1>1, <1>2 DEF Bench!WithinBudgets
  <2> QED
    BY <1>3, <2>2, <2>3, RateLimits
<1> QED
  BY <1>4, <1>5, <1>6 DEF Bench!TrulyWithin

-----------------------------------------------------------------------------
(* The alert GitOps commands: the inductive invariant.                      *)

\* An import is under way.
Importing == command \in {"destination", "import"}

\* What the variables are, in four parts.
StoreType ==
  /\ DOMAIN store \subseteq AlertIds /\ \A i \in DOMAIN store : store[i] \in GitOps!Alert
  /\ store = [i \in DOMAIN store |-> store[i]]
ListType ==
  /\ alerts \in Seq(GitOps!Alert) /\ queue \in Seq(GitOps!Alert) /\ fetched \in Seq(GitOps!Alert)
  /\ listed \subseteq AlertIds
CommandType ==
  /\ command \in {"idle", "destination", "import", "export"} /\ DOMAIN known \subseteq Names
  /\ destination \in BOOLEAN /\ quiet \in BOOLEAN /\ mirrored \in BOOLEAN
BoundType ==
  userEdits \in 0..MaxUserEdits /\ commands \in 0..MaxCommands /\ requests \in 0..MaxRequests
GitOpsTypes == StoreType /\ ListType /\ CommandType /\ BoundType

\* The repository's side never has OpenObserve's name of the stream.
Local(s) == \A k \in DOMAIN s : s[k].stream # "system_logs"
StreamInv == Local(alerts) /\ Local(queue) /\ Local(fetched) /\ GitOps!QueriesNameTheStream

\* Ids an import knows stay those of the names, unless somebody else changes an alert.
KnownInv ==
  Importing /\ (quiet \/ userEdits = 0) =>
    \A n \in DOMAIN known : known[n] \in DOMAIN store /\ store[known[n]].name = n

\* No name twice, and none that an import is about to create in the store already.
Distinct(s) == \A j, k \in DOMAIN s : s[j].name = s[k].name => j = k
NewToStore ==
  \A k \in DOMAIN queue : queue[k].name \in DOMAIN known \union (Names \ GitOps!StoredNames)
FromStore ==
  /\ listed \subseteq DOMAIN store
  /\ \A k \in DOMAIN fetched : \E i \in DOMAIN store \ listed : store[i].name = fetched[k].name
NameInv ==
  userEdits = 0 =>
    /\ GitOps!UniqueNames /\ Distinct(alerts) /\ Distinct(fetched)
    /\ Importing => Distinct(queue) /\ NewToStore
    /\ command = "export" => FromStore

\* How far an import has got: the queue is the rest of the file, and of every name
\* the latest alert that was sent is in the store.
Sent == Len(alerts) - Len(queue)
InStore(a) == \E i \in DOMAIN store : GitOps!CleanAlert(store[i]) = GitOps!CleanAlert(a)
LatestSent(k) == \A j \in 1..Sent : alerts[j].name = alerts[k].name => j <= k
QueueInv ==
  Importing =>
    /\ Len(queue) <= Len(alerts)
    /\ \A k \in 1..Len(queue) : queue[k] = alerts[Sent + k]
    /\ command = "destination" => queue = alerts
SentInv == Importing /\ quiet => \A k \in 1..Sent : LatestSent(k) => InStore(alerts[k])

\* What an export has fetched is in the store.
FetchedInv == command = "export" /\ quiet => \A k \in DOMAIN fetched : InStore(fetched[k])

MirrorInv == (mirrored => command = "idle") /\ GitOps!FileAndStoreAgree

GitOpsInv ==
  /\ GitOpsTypes /\ StreamInv /\ KnownInv /\ NameInv
  /\ QueueInv /\ SentInv /\ FetchedInv /\ MirrorInv

-----------------------------------------------------------------------------
(* The alert GitOps commands: one lemma per part of the invariant.          *)

\* The conversions keep alerts alerts and their names, and CleanAlert undoes Payload.
LEMMA Conversions ==
  ASSUME NEW a \in GitOps!Alert
  PROVE  /\ GitOps!CleanAlert(a) \in GitOps!Alert /\ GitOps!CleanAlert(a).name = a.name
         /\ GitOps!CleanAlert(a).stream # "system_logs"
         /\ GitOps!CleanAlert(GitOps!CleanAlert(a)) = GitOps!CleanAlert(a)
         /\ GitOps!Payload(a) \in GitOps!Alert /\ GitOps!Payload(a).name = a.name
         /\ GitOps!CleanAlert(GitOps!Payload(a)) = GitOps!CleanAlert(a)
         /\ a.stream # "system_logs" /\ GitOps!Payload(a).stream = "system_logs"
              => GitOps!Payload(a).sql # "system-logs"
<1> a.name \in Names /\ a.stream \in GitOps!Streams /\ a.sql \in GitOps!Streams
  BY DEF GitOps!Alert
<1> QED
  BY DEF GitOps!Alert, GitOps!Streams, GitOps!CleanAlert, GitOps!Payload, GitOps!Rename

\* OpenObserve has no alerts, and the file is the committed one.
LEMMA GitOpsInit == GitOps!Init => GitOpsInv
<1> SUFFICES ASSUME GitOps!Init PROVE GitOpsInv
  OBVIOUS
<1> USE GitOpsAssumption DEF GitOps!Init, GitOps!NoAlerts
<1>1. GitOpsTypes
  <2>1. StoreType /\ DOMAIN known = {}
    BY DEF StoreType
  <2>2. ListType
    BY DEF ListType
  <2>3. CommandType
    BY <2>1 DEF CommandType
  <2>4. BoundType
    BY DEF BoundType
  <2> QED
    BY <2>1, <2>2, <2>3, <2>4 DEF GitOpsTypes
<1>2. StreamInv
  BY DEF StreamInv, Local, GitOps!QueriesNameTheStream
<1>3. NameInv
  BY DEF NameInv, GitOps!UniqueNames, Distinct, Importing
<1> QED
  BY <1>1, <1>2, <1>3
     DEF GitOpsInv, KnownInv, QueueInv, SentInv, FetchedInv, MirrorInv,
         GitOps!FileAndStoreAgree, Importing

\* A function on 1..n is a sequence.
LEMMA IsSequence == \A S : \A n \in Nat : \A f \in [1..n -> S] : f \in Seq(S)
  OBVIOUS

\* The alerts add_agent_alerts adds are agent alerts, each of a name the file lacks.
LEMMA AddedAlerts ==
  LET S == {[name |-> n, stream |-> "other", sql |-> "other"] :
              n \in AgentNames \ GitOps!NamesIn(alerts)}
      new == GitOps!SetToSeq(S)
  IN  /\ new \in Seq(S) /\ S \subseteq GitOps!Alert
      /\ \A j, k \in DOMAIN new : new[j] = new[k] => j = k
<1> DEFINE new == AgentNames \ GitOps!NamesIn(alerts)
           S == {[name |-> n, stream |-> "other", sql |-> "other"] : n \in new}
           record == [n \in new |-> [name |-> n, stream |-> "other", sql |-> "other"]]
<1>1. IsFiniteSet(new)
  BY FS_Subset, GitOpsAssumption
<1>2. record \in Surjection(new, S)
  BY DEF Surjection
<1>3. IsFiniteSet(S)
  BY <1>1, <1>2, FS_Surjection
<1>4. Cardinality(S) \in Nat /\ ExistsBijection(1..Cardinality(S), S)
  BY <1>3, FS_CardinalityType
<1>5. PICK f \in [1..Cardinality(S) -> S] : GitOps!IsInjective(f)
  BY <1>4 DEF ExistsBijection, Bijection, Injection, IsInjective, GitOps!IsInjective
<1>c. GitOps!Cardinality(S) = Cardinality(S)
  BY DEF GitOps!Cardinality, Cardinality, GitOps!IsFiniteSet, IsFiniteSet
<1>6. GitOps!SetToSeq(S) \in [1..Cardinality(S) -> S] /\ GitOps!IsInjective(GitOps!SetToSeq(S))
  BY <1>5, <1>c DEF GitOps!SetToSeq
<1>7. GitOps!SetToSeq(S) \in Seq(S)
  BY <1>4, <1>6, IsSequence
<1>8. S \subseteq GitOps!Alert
  BY GitOpsAssumption DEF GitOps!Alert, GitOps!Streams
<1> QED
  BY <1>6, <1>7, <1>8 DEF GitOps!IsInjective

\* Every step's inputs and results have their types.
LEMMA StoreTypeNext ==
  ASSUME StoreType, ListType, [GitOps!Next]_(GitOps!vars)
  PROVE  StoreType'
<1> USE DEF StoreType, GitOps!process, GitOps!bounds
<1>1. ASSUME queue # <<>>, GitOps!Update(Head(queue)) \/ GitOps!Create(Head(queue)) PROVE StoreType'
  <2>1. Head(queue) \in GitOps!Alert
    BY <1>1 DEF ListType
  <2>2. GitOps!Payload(Head(queue)) \in GitOps!Alert
    BY <2>1, Conversions
  <2>3. CASE UNCHANGED store
    BY <2>3
  <2>4. ASSUME NEW i \in AlertIds, store' = GitOps!Put(store, i, GitOps!Payload(Head(queue)))
        PROVE  StoreType'
    BY <2>2, <2>4 DEF GitOps!Put
  <2> QED
    BY <1>1, <2>3, <2>4 DEF GitOps!Update, GitOps!Create
<1>2. CASE GitOps!ImportAlert \/ GitOps!ImportAlertFails
  BY <1>1, <1>2 DEF GitOps!ImportAlert, GitOps!ImportAlertFails
<1>3. CASE GitOps!UserCreates
  <2>1. PICK i \in AlertIds \ DOMAIN store, a \in GitOps!Alert : store' = GitOps!Put(store, i, a)
    BY <1>3 DEF GitOps!UserCreates, GitOps!Alert, GitOps!Streams
  <2> QED
    BY <2>1 DEF GitOps!Put
<1>4. CASE GitOps!UserDeletes
  BY <1>4 DEF GitOps!UserDeletes
<1>5. CASE UNCHANGED store
  BY <1>5
<1> QED
  BY <1>2, <1>3, <1>4, <1>5
     DEF GitOps!Next, GitOps!Import, GitOps!Export, GitOps!BeginImport, GitOps!SetupDestination,
         GitOps!SetupFails, GitOps!Exits, GitOps!EndImport, GitOps!BeginExport,
         GitOps!FetchDetails, GitOps!FetchFails, GitOps!WriteAlerts, GitOps!AddAgentAlerts,
         GitOps!vars

\* The file, the queue and what was fetched stay sequences of alerts.
LEMMA ListTypeNext ==
  ASSUME StoreType, ListType, [GitOps!Next]_(GitOps!vars)
  PROVE  ListType'
<1> USE DEF ListType, GitOps!process, GitOps!bounds
<1>1. CASE GitOps!BeginImport
  BY <1>1 DEF GitOps!BeginImport, GitOps!BeginCommand
<1>2. CASE GitOps!BeginExport
  BY <1>2 DEF GitOps!BeginExport, GitOps!BeginCommand, StoreType
<1>3. CASE GitOps!ImportAlert \/ GitOps!ImportAlertFails
  <2>1. Tail(queue) \in Seq(GitOps!Alert)
    BY <1>3 DEF GitOps!ImportAlert, GitOps!ImportAlertFails
  <2> QED
    BY <1>3, <2>1 DEF GitOps!ImportAlert, GitOps!ImportAlertFails
<1>4. CASE GitOps!FetchDetails
  <2>1. PICK i \in listed \intersect DOMAIN store :
          fetched' = Append(fetched, GitOps!CleanAlert(store[i])) /\ listed' = listed \ {i}
    BY <1>4 DEF GitOps!FetchDetails
  <2>2. GitOps!CleanAlert(store[i]) \in GitOps!Alert
    BY Conversions DEF StoreType
  <2> QED
    BY <1>4, <2>1, <2>2 DEF GitOps!FetchDetails
<1>5. CASE GitOps!FetchFails \/ GitOps!WriteAlerts
  BY <1>5 DEF GitOps!FetchFails, GitOps!WriteAlerts
<1>6. CASE GitOps!AddAgentAlerts
  BY <1>6, AddedAlerts DEF GitOps!AddAgentAlerts
<1>7. CASE UNCHANGED <<alerts, queue, fetched, listed>>
  BY <1>7
<1> QED
  BY <1>1, <1>2, <1>3, <1>4, <1>5, <1>6, <1>7
     DEF GitOps!Next, GitOps!Import, GitOps!Export, GitOps!SetupDestination, GitOps!SetupFails,
         GitOps!Exits, GitOps!EndImport, GitOps!UserCreates, GitOps!UserDeletes,
         GitOps!UserEdit, GitOps!vars

\* So do the command and what it remembers.
LEMMA CommandTypeNext ==
  ASSUME StoreType, CommandType, [GitOps!Next]_(GitOps!vars)
  PROVE  CommandType'
<1> USE DEF CommandType, GitOps!process, GitOps!bounds
<1>1. CASE GitOps!BeginImport
  <2>1. DOMAIN known' \subseteq Names
    BY <1>1
       DEF GitOps!BeginImport, GitOps!ListAlerts, GitOps!StoredNames, StoreType, GitOps!Alert
  <2> QED
    BY <1>1, <2>1 DEF GitOps!BeginImport, GitOps!BeginCommand
<1>2. CASE GitOps!BeginExport
  BY <1>2 DEF GitOps!BeginExport, GitOps!BeginCommand
<1>3. CASE GitOps!SetupDestination \/ GitOps!EndImport \/ GitOps!WriteAlerts
  BY <1>3 DEF GitOps!SetupDestination, GitOps!EndImport, GitOps!WriteAlerts
<1>4. CASE GitOps!SetupFails
  BY <1>4 DEF GitOps!SetupFails, GitOps!Exits
<1>5. CASE GitOps!ImportAlertFails \/ GitOps!FetchFails
  BY <1>5 DEF GitOps!ImportAlertFails, GitOps!FetchFails
<1>6. CASE GitOps!AddAgentAlerts
  BY <1>6 DEF GitOps!AddAgentAlerts
<1>7. CASE GitOps!UserCreates \/ GitOps!UserDeletes
  BY <1>7 DEF GitOps!UserCreates, GitOps!UserDeletes, GitOps!UserEdit
<1>8. CASE UNCHANGED <<command, known, destination, quiet, mirrored>>
  BY <1>8
<1> QED
  BY <1>1, <1>2, <1>3, <1>4, <1>5, <1>6, <1>7, <1>8
     DEF GitOps!Next, GitOps!Import, GitOps!Export, GitOps!ImportAlert, GitOps!FetchDetails,
         GitOps!vars

\* And the counts stay within their bounds.
LEMMA BoundTypeNext ==
  ASSUME BoundType, [GitOps!Next]_(GitOps!vars)
  PROVE  BoundType'
<1> USE GitOpsAssumption DEF BoundType, GitOps!process, GitOps!bounds
<1>1. CASE GitOps!BeginImport \/ GitOps!BeginExport
  BY <1>1 DEF GitOps!BeginImport, GitOps!BeginExport, GitOps!BeginCommand
<1>2. CASE GitOps!SetupFails \/ GitOps!ImportAlertFails \/ GitOps!FetchFails
  <2>1. UNCHANGED <<userEdits, commands>> /\ (GitOps!Fails \/ UNCHANGED requests)
    BY <1>2 DEF GitOps!SetupFails, GitOps!Exits, GitOps!ImportAlertFails, GitOps!FetchFails
  <2> QED
    BY <2>1 DEF GitOps!Fails
<1>3. CASE GitOps!AddAgentAlerts
  BY <1>3 DEF GitOps!AddAgentAlerts
<1>4. CASE GitOps!UserCreates \/ GitOps!UserDeletes
  BY <1>4 DEF GitOps!UserCreates, GitOps!UserDeletes, GitOps!UserEdit
<1>5. CASE UNCHANGED <<userEdits, commands, requests>>
  BY <1>5
<1> QED
  BY <1>1, <1>2, <1>3, <1>4, <1>5
     DEF GitOps!Next, GitOps!Import, GitOps!Export, GitOps!SetupDestination, GitOps!ImportAlert,
         GitOps!EndImport, GitOps!FetchDetails, GitOps!WriteAlerts, GitOps!vars

\* The four together.
LEMMA GitOpsTypesNext == GitOpsTypes /\ [GitOps!Next]_(GitOps!vars) => GitOpsTypes'
  BY StoreTypeNext, ListTypeNext, CommandTypeNext, BoundTypeNext DEF GitOpsTypes

\* A request that has its effect puts one alert into the store, over one of its name or
\* beside the others.
Sends(a) ==
  \/ UNCHANGED store /\ a.name \in DOMAIN known /\ known[a.name] \notin DOMAIN store
  \/ \E i \in AlertIds : /\ store' = GitOps!Put(store, i, GitOps!Payload(a))
                    /\ \/ a.name \in DOMAIN known /\ i = known[a.name] /\ i \in DOMAIN store
                       \/ a.name \notin DOMAIN known /\ i \notin DOMAIN store

\* PUT and POST do that.
LEMMA RequestSends ==
  ASSUME StoreType, NEW a, GitOps!Update(a) \/ GitOps!Create(a)
  PROVE  Sends(a)
  BY DEF StoreType, GitOps!Update, GitOps!Create, Sends

\* A step of an import takes the first alert of the queue and sends it or does not.
LEMMA ImportSends ==
  ASSUME GitOpsTypes, GitOps!ImportAlert \/ GitOps!ImportAlertFails
  PROVE  /\ queue # <<>> /\ Head(queue) = queue[1] /\ queue[1] \in GitOps!Alert
         /\ Len(queue) \in Nat \ {0} /\ Len(queue') = Len(queue) - 1
         /\ \A k \in 1..Len(queue') : queue'[k] = queue[k + 1] /\ k + 1 \in 1..Len(queue)
         /\ UNCHANGED <<alerts, command, known, listed, fetched, mirrored, userEdits>>
         /\ Sends(queue[1]) \/ UNCHANGED store
<1> USE DEF GitOpsTypes, ListType
<1>1. queue # <<>> /\ queue' = Tail(queue)
      /\ (UNCHANGED store \/ GitOps!Update(Head(queue)) \/ GitOps!Create(Head(queue)))
      /\ UNCHANGED <<alerts, command, known, listed, fetched, mirrored, userEdits>>
  BY DEF GitOps!ImportAlert, GitOps!ImportAlertFails, GitOps!bounds
<1>2. Head(queue) = queue[1] /\ queue[1] \in GitOps!Alert /\ Len(queue) \in Nat \ {0}
  BY <1>1
<1> QED
  BY <1>1, <1>2, RequestSends

\* OpenObserve's name of the stream stays out of the file and the queue.
LEMMA StreamNext ==
  ASSUME GitOpsTypes, StreamInv, [GitOps!Next]_(GitOps!vars)
  PROVE  StreamInv'
<1> USE DEF GitOpsTypes, ListType, StreamInv, Local, GitOps!process, GitOps!bounds
<1>1. CASE GitOps!ImportAlert \/ GitOps!ImportAlertFails
  <2>1. Local(queue')
    BY <1>1, ImportSends
  <2>2. ASSUME NEW i \in AlertIds, store' = GitOps!Put(store, i, GitOps!Payload(queue[1]))
        PROVE  GitOps!QueriesNameTheStream'
    <3>1. queue[1] \in GitOps!Alert /\ queue[1].stream # "system_logs"
      BY <1>1, ImportSends
    <3>2. GitOps!Payload(queue[1]).stream = "system_logs"
            => GitOps!Payload(queue[1]).sql # "system-logs"
      BY <3>1, Conversions
    <3> QED
      BY <2>2, <3>2 DEF GitOps!QueriesNameTheStream, GitOps!Put
  <2>3. ASSUME UNCHANGED store PROVE GitOps!QueriesNameTheStream'
    BY <2>3 DEF GitOps!QueriesNameTheStream
  <2> QED
    BY <1>1, <2>1, <2>2, <2>3, ImportSends DEF Sends
<1>2. CASE GitOps!BeginImport \/ GitOps!BeginExport
  BY <1>2
     DEF GitOps!BeginImport, GitOps!BeginExport, GitOps!BeginCommand,
         GitOps!QueriesNameTheStream
<1>3. CASE GitOps!FetchDetails
  <2>1. PICK i \in DOMAIN store : fetched' = Append(fetched, GitOps!CleanAlert(store[i]))
    BY <1>3 DEF GitOps!FetchDetails
  <2>2. GitOps!CleanAlert(store[i]).stream # "system_logs"
    BY Conversions DEF StoreType
  <2> QED
    BY <1>3, <2>1, <2>2 DEF GitOps!FetchDetails, GitOps!QueriesNameTheStream
<1>4. CASE GitOps!WriteAlerts
  BY <1>4 DEF GitOps!WriteAlerts, GitOps!QueriesNameTheStream
<1>5. CASE GitOps!AddAgentAlerts
  <2> DEFINE S == {[name |-> n, stream |-> "other", sql |-> "other"] :
                     n \in AgentNames \ GitOps!NamesIn(alerts)}
             new == GitOps!SetToSeq(S)
  <2>1. new \in Seq(S) /\ alerts' = alerts \o new
    BY <1>5, AddedAlerts DEF GitOps!AddAgentAlerts
  <2>2. \A k \in DOMAIN new : new[k].stream = "other"
    BY <2>1
  <2>3. Local(alerts')
    <3> HIDE DEF new
    <3> QED BY <2>1, <2>2
  <2> QED
    BY <1>5, <2>3 DEF GitOps!AddAgentAlerts, GitOps!QueriesNameTheStream
<1>6. CASE GitOps!UserCreates
  <2>1. PICK i \in AlertIds \ DOMAIN store, n \in Names, s, q \in {"system_logs", "other"} :
          store' = GitOps!Put(store, i, [name |-> n, stream |-> s, sql |-> q])
    BY <1>6 DEF GitOps!UserCreates
  <2> QED
    BY <1>6, <2>1
       DEF GitOps!UserCreates, GitOps!UserEdit, GitOps!QueriesNameTheStream, GitOps!Put
<1>7. CASE GitOps!UserDeletes
  BY <1>7 DEF GitOps!UserDeletes, GitOps!UserEdit, GitOps!QueriesNameTheStream
<1>8. CASE UNCHANGED <<store, alerts, queue, fetched>>
  BY <1>8 DEF GitOps!QueriesNameTheStream
<1> QED
  BY <1>1, <1>2, <1>3, <1>4, <1>5, <1>6, <1>7, <1>8
     DEF GitOps!Next, GitOps!Import, GitOps!Export, GitOps!SetupDestination, GitOps!SetupFails,
         GitOps!Exits, GitOps!EndImport, GitOps!FetchFails, GitOps!vars

\* A request changes the alert of one name only, and leaves its name.
LEMMA KnownNext ==
  ASSUME GitOpsTypes, KnownInv, [GitOps!Next]_(GitOps!vars)
  PROVE  KnownInv'
<1> USE DEF KnownInv, Importing, GitOps!process, GitOps!bounds
<1>1. CASE GitOps!BeginImport
  BY <1>1 DEF GitOps!BeginImport, GitOps!ListAlerts
<1>2. CASE GitOps!SetupDestination
  BY <1>2 DEF GitOps!SetupDestination
<1>3. CASE GitOps!ImportAlert \/ GitOps!ImportAlertFails
  <2>1. quiet' => quiet
    BY <1>3 DEF GitOps!ImportAlert, GitOps!ImportAlertFails, GitOpsTypes, CommandType
  <2>2. ASSUME NEW i \in AlertIds, store' = GitOps!Put(store, i, GitOps!Payload(queue[1])),
               \A n \in DOMAIN known : known[n] \in DOMAIN store /\ store[known[n]].name = n,
               \/ queue[1].name \in DOMAIN known /\ i = known[queue[1].name]
               \/ i \notin DOMAIN store
        PROVE  \A n \in DOMAIN known : known[n] \in DOMAIN store' /\ store'[known[n]].name = n
    <3>1. GitOps!Payload(queue[1]).name = queue[1].name
      BY <1>3, ImportSends, Conversions
    <3> QED
      BY <2>2, <3>1 DEF GitOps!Put
  <2> QED
    BY <1>3, <2>1, <2>2, ImportSends DEF Sends
<1>4. CASE GitOps!UserCreates \/ GitOps!UserDeletes
  BY <1>4 DEF GitOps!UserCreates, GitOps!UserDeletes, GitOps!UserEdit, GitOpsTypes, BoundType
<1>5. CASE command' \notin {"destination", "import"}
  BY <1>5
<1>6. CASE UNCHANGED <<store, known, command, quiet, userEdits>>
  BY <1>6
<1> QED
  BY <1>1, <1>2, <1>3, <1>4, <1>5, <1>6
     DEF GitOps!Next, GitOps!Import, GitOps!Export, GitOps!SetupFails, GitOps!Exits,
         GitOps!EndImport, GitOps!BeginExport, GitOps!BeginCommand, GitOps!FetchDetails,
         GitOps!FetchFails, GitOps!WriteAlerts, GitOps!AddAgentAlerts, GitOps!vars

\* Without other editors no step makes a second alert of a name.
LEMMA NameNext ==
  ASSUME GitOpsTypes, KnownInv, NameInv, [GitOps!Next]_(GitOps!vars)
  PROVE  NameInv'
<1> SUFFICES ASSUME userEdits' = 0
             PROVE  /\ GitOps!UniqueNames' /\ Distinct(alerts') /\ Distinct(fetched')
                    /\ Importing' => Distinct(queue') /\ NewToStore'
                    /\ command' = "export" => FromStore'
  BY DEF NameInv, Distinct
<1> USE DEF GitOps!process, GitOps!bounds
<1>1. userEdits = 0
  <2>1. userEdits' \in {userEdits, userEdits + 1}
    BY DEF GitOps!Next, GitOps!Import, GitOps!Export, GitOps!BeginImport,
           GitOps!SetupDestination, GitOps!SetupFails, GitOps!Exits, GitOps!ImportAlert,
           GitOps!ImportAlertFails, GitOps!EndImport, GitOps!BeginExport, GitOps!BeginCommand,
           GitOps!FetchDetails, GitOps!FetchFails, GitOps!WriteAlerts, GitOps!AddAgentAlerts,
           GitOps!UserCreates, GitOps!UserDeletes, GitOps!UserEdit, GitOps!vars
  <2> QED
    BY <2>1 DEF GitOpsTypes, BoundType
<1>2. /\ GitOps!UniqueNames /\ Distinct(alerts) /\ Distinct(fetched)
      /\ Importing => Distinct(queue) /\ NewToStore
      /\ command = "export" => FromStore
  BY <1>1 DEF NameInv
<1>3. CASE GitOps!BeginImport
  <2>1. DOMAIN known' = GitOps!StoredNames /\ UNCHANGED <<store, alerts>> /\ queue' = alerts
        /\ fetched' = <<>> /\ command' = "destination"
    BY <1>3 DEF GitOps!BeginImport, GitOps!BeginCommand, GitOps!ListAlerts
  <2>2. \A k \in DOMAIN alerts : alerts[k].name \in Names
    <3>1. \A k \in DOMAIN alerts : alerts[k] \in GitOps!Alert
      BY DEF GitOpsTypes, ListType
    <3> QED
      BY <3>1 DEF GitOps!Alert
  <2> QED
    BY <1>2, <2>1, <2>2 DEF GitOps!UniqueNames, Distinct, NewToStore, GitOps!StoredNames
<1>4. CASE GitOps!ImportAlert \/ GitOps!ImportAlertFails
  <2>0. command = "import" /\ command' = "import"
    BY <1>4 DEF GitOps!ImportAlert, GitOps!ImportAlertFails
  <2>1. Distinct(alerts') /\ Distinct(fetched')
    BY <1>2, <1>4, ImportSends
  <2>2. Distinct(queue) /\ NewToStore
    BY <1>2, <2>0 DEF Importing
  <2>3. \A k \in 1..Len(queue') :
           k + 1 \in DOMAIN queue /\ queue'[k] = queue[k + 1] /\ queue[k + 1].name # queue[1].name
    BY <1>4, <2>2, ImportSends DEF Distinct, GitOpsTypes, ListType
  <2>4. DOMAIN queue' = 1..Len(queue')
    BY <1>4, GitOpsTypesNext DEF GitOpsTypes, ListType
  <2>5. Distinct(queue')
    BY <2>2, <2>3, <2>4 DEF Distinct
  <2>6. ASSUME UNCHANGED store PROVE GitOps!UniqueNames' /\ NewToStore'
    BY <1>2, <1>4, <2>2, <2>3, <2>4, <2>6, ImportSends
       DEF GitOps!UniqueNames, NewToStore, GitOps!StoredNames
  <2>7. ASSUME NEW i \in AlertIds, store' = GitOps!Put(store, i, GitOps!Payload(queue[1])),
               queue[1].name \in DOMAIN known, i = known[queue[1].name]
        PROVE  GitOps!UniqueNames' /\ NewToStore'
    <3>1. i \in DOMAIN store /\ store[i].name = queue[1].name
      BY <1>1, <2>0, <2>7 DEF KnownInv, Importing
    <3>2. GitOps!Payload(queue[1]).name = queue[1].name
      BY <1>4, ImportSends, Conversions
    <3>3. DOMAIN store' = DOMAIN store /\ \A j \in DOMAIN store : store'[j].name = store[j].name
      BY <2>7, <3>1, <3>2 DEF GitOps!Put
    <3>4. GitOps!StoredNames' = GitOps!StoredNames
      BY <3>3 DEF GitOps!StoredNames
    <3> QED
      BY <1>2, <1>4, <2>2, <2>3, <2>4, <3>3, <3>4, ImportSends
         DEF GitOps!UniqueNames, NewToStore
  <2>8. ASSUME NEW i \in AlertIds, store' = GitOps!Put(store, i, GitOps!Payload(queue[1])),
               queue[1].name \notin DOMAIN known, i \notin DOMAIN store
        PROVE  GitOps!UniqueNames' /\ NewToStore'
    <3>1. queue[1].name \notin GitOps!StoredNames
      BY <1>4, <2>2, <2>8, ImportSends DEF NewToStore, GitOpsTypes, ListType
    <3>2. GitOps!Payload(queue[1]).name = queue[1].name
      BY <1>4, ImportSends, Conversions
    <3>3. GitOps!StoredNames' = GitOps!StoredNames \union {queue[1].name}
      BY <2>8, <3>2 DEF GitOps!StoredNames, GitOps!Put
    <3>4. GitOps!UniqueNames'
      BY <1>2, <2>8, <3>1, <3>2 DEF GitOps!UniqueNames, GitOps!StoredNames, GitOps!Put
    <3> QED
      BY <1>4, <2>2, <2>3, <2>4, <3>3, <3>4, ImportSends DEF NewToStore
  <2> QED
    BY <1>4, <2>0, <2>1, <2>5, <2>6, <2>7, <2>8, ImportSends DEF Sends
<1>5. CASE GitOps!BeginExport
  BY <1>2, <1>5
     DEF GitOps!BeginExport, GitOps!BeginCommand, GitOps!UniqueNames, Distinct, FromStore,
         Importing
<1>6. CASE GitOps!FetchDetails
  <2>1. PICK i \in listed \intersect DOMAIN store :
          fetched' = Append(fetched, GitOps!CleanAlert(store[i])) /\ listed' = listed \ {i}
    BY <1>6 DEF GitOps!FetchDetails
  <2>2. FromStore /\ command = "export" /\ UNCHANGED <<store, alerts, command>>
    BY <1>2, <1>6 DEF GitOps!FetchDetails
  <2>3. GitOps!CleanAlert(store[i]).name = store[i].name
    BY Conversions DEF GitOpsTypes, StoreType
  <2>4. \A k \in DOMAIN fetched : fetched[k].name # store[i].name
    BY <1>2, <2>1, <2>2 DEF FromStore, GitOps!UniqueNames
  <2>5. /\ DOMAIN fetched' = DOMAIN fetched \union {Len(fetched) + 1}
        /\ \A k \in DOMAIN fetched : fetched'[k] = fetched[k]
        /\ fetched'[Len(fetched) + 1].name = store[i].name
    BY <2>1, <2>3 DEF GitOpsTypes, ListType
  <2>6. Distinct(fetched')
    BY <1>2, <2>4, <2>5 DEF Distinct
  <2>7. FromStore'
    BY <2>1, <2>2, <2>5 DEF FromStore
  <2> QED
    BY <1>2, <2>2, <2>6, <2>7 DEF GitOps!UniqueNames, Importing
<1>7. CASE GitOps!FetchFails
  BY <1>2, <1>7 DEF GitOps!FetchFails, GitOps!UniqueNames, FromStore, Importing
<1>8. CASE GitOps!WriteAlerts
  BY <1>2, <1>8 DEF GitOps!WriteAlerts, GitOps!UniqueNames, Importing
<1>9. CASE GitOps!AddAgentAlerts
  <2> DEFINE S == {[name |-> n, stream |-> "other", sql |-> "other"] :
                     n \in AgentNames \ GitOps!NamesIn(alerts)}
             new == GitOps!SetToSeq(S)
  <2>1. /\ new \in Seq(S) /\ alerts' = alerts \o new
        /\ \A j, k \in DOMAIN new : new[j] = new[k] => j = k
    BY <1>9, AddedAlerts DEF GitOps!AddAgentAlerts
  <2>2. \A k \in DOMAIN new : new[k] \in S
    <3> HIDE DEF S, new
    <3> QED BY <2>1
  <2>3. \A k \in DOMAIN new :
          /\ new[k] = [name |-> new[k].name, stream |-> "other", sql |-> "other"]
          /\ new[k].name \notin GitOps!NamesIn(alerts)
    <3>1. \A r \in S : /\ r = [name |-> r.name, stream |-> "other", sql |-> "other"]
                       /\ r.name \notin GitOps!NamesIn(alerts)
      OBVIOUS
    <3> HIDE DEF S, new
    <3> QED
      BY <2>2, <3>1
  <2>4. Distinct(alerts')
    <3> HIDE DEF S, new
    <3>1. /\ \A k \in DOMAIN alerts' :
               \/ k \in DOMAIN alerts /\ alerts'[k] = alerts[k]
               \/ k - Len(alerts) \in DOMAIN new /\ alerts'[k] = new[k - Len(alerts)]
          /\ DOMAIN alerts' \subseteq Nat /\ Len(alerts) \in Nat
      BY <2>1 DEF GitOpsTypes, ListType
    <3>2. \A k \in DOMAIN alerts : alerts[k].name \in GitOps!NamesIn(alerts)
      BY DEF GitOps!NamesIn
    <3>3. \A j, k \in DOMAIN new : new[j].name = new[k].name => j = k
      BY <2>1, <2>3
    <3> QED
      BY <1>2, <2>3, <3>1, <3>2, <3>3 DEF Distinct
  <2> QED
    BY <1>2, <1>9, <2>4 DEF GitOps!AddAgentAlerts, GitOps!UniqueNames, Importing
<1>10. CASE GitOps!SetupDestination
  BY <1>2, <1>10
     DEF GitOps!SetupDestination, GitOps!UniqueNames, NewToStore, GitOps!StoredNames, Importing
<1>11. CASE GitOps!SetupFails \/ GitOps!EndImport
  BY <1>2, <1>11
     DEF GitOps!SetupFails, GitOps!Exits, GitOps!EndImport, GitOps!UniqueNames, Importing
<1>12. CASE GitOps!UserCreates \/ GitOps!UserDeletes
  BY <1>1, <1>12 DEF GitOps!UserCreates, GitOps!UserDeletes, GitOps!UserEdit
<1>13. CASE UNCHANGED GitOps!vars
  BY <1>2, <1>13
     DEF GitOps!vars, GitOps!UniqueNames, NewToStore, FromStore, GitOps!StoredNames, Importing
<1> QED
  BY <1>3, <1>4, <1>5, <1>6, <1>7, <1>8, <1>9, <1>10, <1>11, <1>12, <1>13
     DEF GitOps!Next, GitOps!Import, GitOps!Export

\* The queue stays the rest of the file.
LEMMA QueueNext ==
  ASSUME GitOpsTypes, QueueInv, [GitOps!Next]_(GitOps!vars)
  PROVE  QueueInv'
<1> USE DEF GitOpsTypes, ListType, QueueInv, Importing, Sent, GitOps!process, GitOps!bounds
<1>1. CASE GitOps!BeginImport
  BY <1>1 DEF GitOps!BeginImport, GitOps!BeginCommand
<1>2. CASE GitOps!SetupDestination
  BY <1>2 DEF GitOps!SetupDestination
<1>3. CASE GitOps!ImportAlert \/ GitOps!ImportAlertFails
  <2>1. command = "import" /\ command' = "import" /\ alerts' = alerts
        /\ Len(queue) \in Nat /\ Len(alerts) \in Nat
    BY <1>3 DEF GitOps!ImportAlert, GitOps!ImportAlertFails
  <2>2. Len(queue') = Len(queue) - 1 /\ Sent' = Sent + 1 /\ Sent \in Int
    <3>1. Len(queue') = Len(queue) - 1
      BY <1>3, ImportSends
    <3> QED
      BY <2>1, <3>1
  <2>3. \A k \in 1..Len(queue') : queue'[k] = alerts'[Sent' + k]
    <3> SUFFICES ASSUME NEW k \in 1..Len(queue') PROVE queue'[k] = alerts'[Sent' + k]
      OBVIOUS
    <3>1. queue'[k] = queue[k + 1] /\ k + 1 \in 1..Len(queue)
      BY <1>3, ImportSends
    <3>2. queue[k + 1] = alerts[Sent + (k + 1)]
      BY <2>1, <3>1
    <3>3. Sent + (k + 1) = Sent' + k
      BY <2>2
    <3> QED
      BY <2>1, <3>1, <3>2, <3>3
  <2>4. Len(queue') <= Len(alerts')
    BY <2>1, <2>2
  <2> QED
    BY <2>1, <2>3, <2>4
<1>4. CASE command' \notin {"destination", "import"}
  BY <1>4
<1>5. CASE UNCHANGED <<alerts, queue, command>>
  BY <1>5
<1> QED
  BY <1>1, <1>2, <1>3, <1>4, <1>5
     DEF GitOps!Next, GitOps!Import, GitOps!Export, GitOps!SetupFails, GitOps!Exits,
         GitOps!EndImport, GitOps!BeginExport, GitOps!BeginCommand, GitOps!FetchDetails,
         GitOps!FetchFails, GitOps!WriteAlerts, GitOps!AddAgentAlerts, GitOps!UserCreates,
         GitOps!UserDeletes, GitOps!UserEdit, GitOps!vars

\* A quiet import overwrites an alert it has sent only by a later one of that name.
LEMMA SentNext ==
  ASSUME GitOpsTypes, KnownInv, QueueInv, SentInv, [GitOps!Next]_(GitOps!vars)
  PROVE  SentInv'
<1> USE DEF GitOpsTypes, ListType, SentInv, Importing, GitOps!process, GitOps!bounds
<1>1. CASE GitOps!BeginImport
  <2>1. Sent' = 0
    BY <1>1 DEF GitOps!BeginImport, Sent
  <2> QED
    BY <2>1
<1>2. CASE GitOps!SetupDestination
  <2>1. Sent' = 0
    BY <1>2 DEF GitOps!SetupDestination, Sent, QueueInv
  <2> QED
    BY <2>1
<1>3. CASE GitOps!ImportAlert
  <2> SUFFICES ASSUME quiet', NEW k \in 1..Sent', LatestSent(k)'
               PROVE  InStore(alerts[k])'
    OBVIOUS
  <2> DEFINE a == queue[1]
  <2>1. quiet /\ command = "import" /\ alerts' = alerts /\ known' = known
    BY <1>3 DEF GitOps!ImportAlert
  <2>2. /\ Sent \in Nat /\ Sent' = Sent + 1 /\ a = alerts[Sent + 1] /\ a \in GitOps!Alert
        /\ \A j \in 1..Sent' : j \in DOMAIN alerts /\ alerts[j] \in GitOps!Alert
    <3>1. Len(queue) \in Nat \ {0} /\ Len(queue') = Len(queue) - 1 /\ Len(alerts) \in Nat
      BY <1>3, ImportSends
    <3>2. Len(queue) <= Len(alerts) /\ queue[1] = alerts[Sent + 1]
      BY <2>1, <3>1 DEF QueueInv
    <3> QED
      BY <1>3, <2>1, <3>1, <3>2, ImportSends DEF Sent
  <2>3. /\ GitOps!CleanAlert(GitOps!Payload(a)) = GitOps!CleanAlert(a)
        /\ GitOps!Payload(a).name = a.name
    BY <2>2, Conversions
  <2>4. PICK i \in AlertIds :
          /\ store' = GitOps!Put(store, i, GitOps!Payload(a))
          /\ \/ a.name \in DOMAIN known /\ i = known[a.name] /\ i \in DOMAIN store
             \/ a.name \notin DOMAIN known /\ i \notin DOMAIN store
    <3>1. Sends(a)
      BY <1>3, RequestSends, ImportSends DEF GitOps!ImportAlert
    <3> QED
      BY <2>1, <3>1 DEF Sends, KnownInv
  <2>5. CASE k = Sent + 1
    BY <2>1, <2>2, <2>3, <2>4, <2>5 DEF InStore, GitOps!Put
  <2>6. CASE k # Sent + 1
    <3>1. k \in 1..Sent /\ Sent + 1 \in 1..Sent' /\ ~(Sent + 1 <= k)
      BY <2>2, <2>6
    <3>a. \A j \in 1..Sent' : alerts[j].name = alerts[k].name => j <= k
      BY <2>1 DEF LatestSent
    <3>b. alerts[k].name # a.name
      BY <2>2, <3>1, <3>a
    <3>c. LatestSent(k)
      BY <2>2, <3>a DEF LatestSent
    <3>2. PICK j \in DOMAIN store : GitOps!CleanAlert(store[j]) = GitOps!CleanAlert(alerts[k])
      BY <2>1, <3>1, <3>c DEF InStore, SentInv
    <3>3. store[j].name = alerts[k].name
      <4>1. GitOps!CleanAlert(store[j]).name = store[j].name
        BY Conversions DEF StoreType
      <4>2. GitOps!CleanAlert(alerts[k]).name = alerts[k].name
        BY <2>2, <3>1, Conversions
      <4> QED
        BY <3>2, <4>1, <4>2
    <3>4. i # j
      BY <2>1, <2>4, <3>b, <3>3 DEF KnownInv
    <3> QED
      BY <2>1, <2>4, <3>2, <3>4 DEF InStore, GitOps!Put
  <2> QED
    BY <2>5, <2>6
<1>4. CASE ~quiet' \/ command' \notin {"destination", "import"}
  BY <1>4
<1>5. CASE UNCHANGED <<store, alerts, queue, command, quiet>>
  BY <1>5 DEF Sent, LatestSent, InStore
<1> QED
  BY <1>1, <1>2, <1>3, <1>4, <1>5
     DEF GitOps!Next, GitOps!Import, GitOps!Export, GitOps!SetupFails, GitOps!Exits,
         GitOps!ImportAlertFails, GitOps!EndImport, GitOps!BeginExport, GitOps!BeginCommand,
         GitOps!FetchDetails, GitOps!FetchFails, GitOps!WriteAlerts, GitOps!AddAgentAlerts,
         GitOps!UserCreates, GitOps!UserDeletes, GitOps!UserEdit, GitOps!vars

\* A quiet export fetches from a store that stays as it is.
LEMMA FetchedNext ==
  ASSUME GitOpsTypes, FetchedInv, [GitOps!Next]_(GitOps!vars)
  PROVE  FetchedInv'
<1> USE DEF GitOpsTypes, ListType, FetchedInv, GitOps!process, GitOps!bounds
<1>1. CASE GitOps!BeginExport
  BY <1>1 DEF GitOps!BeginExport, GitOps!BeginCommand
<1>2. CASE GitOps!FetchDetails
  <2>1. PICK i \in DOMAIN store : fetched' = Append(fetched, GitOps!CleanAlert(store[i]))
    BY <1>2 DEF GitOps!FetchDetails
  <2>2. store' = store /\ quiet' = quiet /\ command = "export"
    BY <1>2 DEF GitOps!FetchDetails
  <2>3. GitOps!CleanAlert(GitOps!CleanAlert(store[i])) = GitOps!CleanAlert(store[i])
    BY Conversions DEF StoreType
  <2>4. \A k \in DOMAIN fetched' :
          \/ k \in DOMAIN fetched /\ fetched'[k] = fetched[k]
          \/ fetched'[k] = GitOps!CleanAlert(store[i])
    BY <2>1
  <2> QED
    BY <2>2, <2>3, <2>4 DEF InStore
<1>3. CASE ~quiet' \/ command' # "export"
  BY <1>3
<1>4. CASE UNCHANGED <<store, command, fetched, quiet>>
  BY <1>4 DEF InStore
<1> QED
  BY <1>1, <1>2, <1>3, <1>4
     DEF GitOps!Next, GitOps!Import, GitOps!Export, GitOps!BeginImport, GitOps!SetupDestination,
         GitOps!SetupFails, GitOps!Exits, GitOps!ImportAlert, GitOps!ImportAlertFails,
         GitOps!EndImport, GitOps!BeginCommand, GitOps!FetchFails, GitOps!WriteAlerts,
         GitOps!AddAgentAlerts, GitOps!UserCreates, GitOps!UserDeletes, GitOps!UserEdit,
         GitOps!vars

\* When a quiet command ends, all of the file has been sent or fetched.
LEMMA MirrorNext ==
  ASSUME GitOpsTypes, QueueInv, SentInv, FetchedInv, MirrorInv, [GitOps!Next]_(GitOps!vars)
  PROVE  MirrorInv'
<1> USE DEF GitOpsTypes, ListType, MirrorInv, GitOps!FileAndStoreAgree, GitOps!process,
            GitOps!bounds
<1>1. CASE GitOps!EndImport
  <2>1. /\ UNCHANGED <<store, alerts>> /\ mirrored' = quiet /\ queue = <<>>
        /\ command = "import" /\ command' = "idle"
    BY <1>1 DEF GitOps!EndImport
  <2>2. Sent = Len(alerts) /\ DOMAIN alerts = 1..Sent
    BY <2>1 DEF Sent
  <2>3. \A k \in DOMAIN alerts : GitOps!Latest(k) => LatestSent(k)
    BY <2>2 DEF GitOps!Latest, LatestSent
  <2>4. quiet => \A k \in DOMAIN alerts : GitOps!Latest(k) => InStore(alerts[k])
    BY <2>1, <2>2, <2>3 DEF SentInv, Importing
  <2> QED
    BY <2>1, <2>4 DEF InStore, GitOps!Latest
<1>2. CASE GitOps!WriteAlerts
  BY <1>2 DEF GitOps!WriteAlerts, FetchedInv, InStore
<1>3. CASE ~mirrored'
  BY <1>3
<1>4. CASE command # "idle" /\ mirrored' = mirrored
  BY <1>3, <1>4 DEF CommandType
<1>5. CASE UNCHANGED <<store, alerts, command, mirrored>>
  BY <1>5 DEF GitOps!Latest
<1> QED
  BY <1>1, <1>2, <1>3, <1>4, <1>5
     DEF GitOps!Next, GitOps!Import, GitOps!Export, GitOps!BeginImport, GitOps!SetupDestination,
         GitOps!SetupFails, GitOps!Exits, GitOps!ImportAlert, GitOps!ImportAlertFails,
         GitOps!BeginExport, GitOps!BeginCommand, GitOps!FetchDetails, GitOps!FetchFails,
         GitOps!AddAgentAlerts, GitOps!UserCreates, GitOps!UserDeletes, GitOps!UserEdit,
         GitOps!vars

\* The invariant is inductive.
LEMMA GitOpsNext == GitOpsInv /\ [GitOps!Next]_(GitOps!vars) => GitOpsInv'
  BY GitOpsTypesNext, StreamNext, KnownNext, NameNext, QueueNext, SentNext, FetchedNext,
     MirrorNext
     DEF GitOpsInv

\* The GitOps commands keep their invariant, from which their three properties follow.
THEOREM GitOpsInvariance == GitOps!Spec => []GitOpsInv
  BY GitOpsInit, GitOpsNext, PTL DEF GitOps!Spec

\* The variables of the GitOps commands keep their types.
LEMMA GitOpsTypesCorrect == GitOps!Spec => []GitOps!TypeOK
<1>1. ASSUME GitOpsTypes PROVE GitOps!TypeOK
  <2>1. /\ \A i \in DOMAIN alerts : alerts[i] \in GitOps!Alert
        /\ \A i \in DOMAIN fetched : fetched[i] \in GitOps!Alert
    BY <1>1 DEF GitOpsTypes, ListType
  <2> QED
    BY <1>1, <2>1 DEF GitOpsTypes, StoreType, CommandType, BoundType, GitOps!TypeOK
<1> QED
  BY <1>1, GitOpsInvariance, PTL DEF GitOpsInv

-----------------------------------------------------------------------------
(* The host's behaviors are those of each tool.                             *)

IntelP == INSTANCE ThreatIntelSyncProofs
BridgeP == INSTANCE AlertBridgeProofs WITH Ids <- FileNames
SupervisorP == INSTANCE ObserverSupervisorProofs WITH Commands <- Invocations, pc <- place

\* A step of the host is one of the tool's or leaves its variables alone: of the
\* ledger, whose module HostTools extends,
LEMMA LedgerSpec == HostSpec => Spec
<1>1. HostInit => Init
  BY DEF HostInit
<1>2. [HostNext]_allvars => [Next]_vars
  BY DEF HostNext, LedgerStep, IntelStep, SigmaStep, BenchStep, GitOpsStep, BridgeStep,
         BridgeStays, SupervisorStep, allvars
<1> QED
  BY <1>1, <1>2, PTL DEF HostSpec, Spec

\* of the curation,
LEMMA SigmaSpec == HostSpec => Sigma!Spec
<1>1. HostInit => Sigma!Init
  BY DEF HostInit
<1>2. [HostNext]_allvars => [Sigma!Next]_(Sigma!vars)
  BY DEF HostNext, LedgerStep, IntelStep, SigmaStep, BenchStep, GitOpsStep, BridgeStep,
         BridgeStays, SupervisorStep, allvars, sigma, Sigma!vars, Sigma!directory, Sigma!process,
         Sigma!bounds
<1> QED
  BY <1>1, <1>2, PTL DEF HostSpec, Sigma!Spec

\* The same of the benchmark.
LEMMA BenchSpec == HostSpec => Bench!Spec
<1>1. HostInit => Bench!Init
  BY DEF HostInit
<1>2. [HostNext]_allvars => [Bench!Next]_(Bench!vars)
  BY DEF HostNext, LedgerStep, IntelStep, SigmaStep, BenchStep, GitOpsStep, BridgeStep,
         BridgeStays, SupervisorStep, allvars, benchmark, Bench!vars, Bench!readings
<1> QED
  BY <1>1, <1>2, PTL DEF HostSpec, Bench!Spec

\* Of the GitOps commands.
LEMMA GitOpsSpec == HostSpec => GitOps!Spec
<1>1. HostInit => GitOps!Init
  BY DEF HostInit
<1>2. [HostNext]_allvars => [GitOps!Next]_(GitOps!vars)
  BY DEF HostNext, LedgerStep, IntelStep, SigmaStep, BenchStep, GitOpsStep, BridgeStep,
         BridgeStays, SupervisorStep, allvars, gitops, GitOps!vars, GitOps!process, GitOps!bounds
<1> QED
  BY <1>1, <1>2, PTL DEF HostSpec, GitOps!Spec

\* Of the threat-intelligence sync.
LEMMA IntelSpec == HostSpec => Intel!Spec
<1>1. HostInit => Intel!Init
  BY DEF HostInit
<1>2. [HostNext]_allvars => [Intel!Next]_(Intel!vars)
  BY DEF HostNext, LedgerStep, IntelStep, SigmaStep, BenchStep, GitOpsStep, BridgeStep,
         BridgeStays, SupervisorStep, allvars, intel, Intel!vars, Intel!files, Intel!process,
         Intel!ghosts
<1> QED
  BY <1>1, <1>2, PTL DEF HostSpec, Intel!Spec

\* Of the alert bridge.
LEMMA BridgeSpec == HostSpec => Bridge!Spec
<1>1. HostInit => Bridge!Init
  BY DEF HostInit
<1>2. [HostNext]_allvars => [Bridge!Next]_(Bridge!vars)
  BY DEF HostNext, LedgerStep, IntelStep, SigmaStep, BenchStep, GitOpsStep, BridgeStep,
         BridgeStays, SupervisorStep, allvars, bridge, Bridge!vars, Bridge!webhook,
         Bridge!daemon
<1> QED
  BY <1>1, <1>2, PTL DEF HostSpec, Bridge!Spec

\* Of the observer's supervisor script.
LEMMA SupervisorSpec == HostSpec => Supervisor!Spec
<1>1. HostInit => Supervisor!Init
  BY DEF HostInit
<1>2. [HostNext]_allvars => [Supervisor!Next]_(Supervisor!vars)
  BY DEF HostNext, LedgerStep, IntelStep, SigmaStep, BenchStep, GitOpsStep, BridgeStep,
         BridgeStays, SupervisorStep, allvars, supervisor, Supervisor!vars
<1> QED
  BY <1>1, <1>2, PTL DEF HostSpec, Supervisor!Spec

-----------------------------------------------------------------------------
(* The instances of the proof modules say of their tool what its own says.  *)

\* ThreatIntelSync, as ThreatIntelSyncProofs extends it.
LEMMA IntelSame == Intel!Spec => IntelP!Spec
<1>1. Intel!Init => IntelP!Init
  BY Zenon DEF Intel!Init, IntelP!Init, Intel!Nothing, IntelP!Nothing, Intel!Keys, IntelP!Keys
<1>2. [Intel!Next]_(Intel!vars) => [IntelP!Next]_(IntelP!vars)
  BY DEF Intel!Next, IntelP!Next, Intel!vars, IntelP!vars, Intel!files, IntelP!files,
         Intel!process, IntelP!process, Intel!ghosts, IntelP!ghosts, Intel!Sync, IntelP!Sync,
         Intel!Keys, IntelP!Keys, Intel!Update, IntelP!Update, Intel!Begin, IntelP!Begin,
         Intel!Fetch, IntelP!Fetch, Intel!FetchFails, IntelP!FetchFails, Intel!TextWriteFails,
         IntelP!TextWriteFails, Intel!CacheWriteFails,
         IntelP!CacheWriteFails, Intel!EndCollect, IntelP!EndCollect, Intel!WriteData,
         IntelP!WriteData, Intel!WriteFalcoList, IntelP!WriteFalcoList, Intel!WriteWatchList,
         IntelP!WriteWatchList, Intel!Killed, IntelP!Killed, Intel!Active, IntelP!Active,
         Intel!Collecting, IntelP!Collecting, Intel!Current, IntelP!Current, Intel!Put,
         IntelP!Put, Intel!Extracted, IntelP!Extracted, Intel!Normalized, IntelP!Normalized,
         Intel!FallBack, IntelP!FallBack, Intel!Collects, IntelP!Collects, Intel!Reread,
         IntelP!Reread, Intel!Nothing, IntelP!Nothing
<1> QED
  BY <1>1, <1>2, PTL DEF Intel!Spec, IntelP!Spec

\* AlertBridge, as AlertBridgeProofs extends it.
LEMMA BridgeSame == Bridge!Spec => BridgeP!Spec
<1>1. Bridge!Init => BridgeP!Init
  BY DEF Bridge!Init, BridgeP!Init
<1>2. [Bridge!Next]_(Bridge!vars) => [BridgeP!Next]_(BridgeP!vars)
  BY DEF Bridge!Next, BridgeP!Next, Bridge!vars, BridgeP!vars, Bridge!daemon, BridgeP!daemon,
         Bridge!webhook, BridgeP!webhook, Bridge!Put, BridgeP!Put, Bridge!Open, BridgeP!Open,
         Bridge!Fill, BridgeP!Fill, Bridge!Remove, BridgeP!Remove, Bridge!Premature,
         BridgeP!Premature, Bridge!Ended, BridgeP!Ended, Bridge!StartNotifier,
         BridgeP!StartNotifier, Bridge!Poll, BridgeP!Poll, Bridge!NextFile, BridgeP!NextFile,
         Bridge!Shows, BridgeP!Shows, Bridge!Read, BridgeP!Read, Bridge!Send, BridgeP!Send,
         Bridge!SendFails, BridgeP!SendFails, Bridge!Unlink, BridgeP!Unlink, Bridge!Seen,
         BridgeP!Seen, Bridge!EndPass, BridgeP!EndPass, Bridge!Stop, BridgeP!Stop, Bridge!Watch,
         BridgeP!Watch, Bridge!Move, BridgeP!Move, Bridge!Notify, BridgeP!Notify,
         Bridge!NotSent, BridgeP!NotSent, Bridge!Min,
         BridgeP!Min
<1> QED
  BY <1>1, <1>2, PTL DEF Bridge!Spec, BridgeP!Spec

\* ObserverSupervisor, as ObserverSupervisorProofs extends it.
LEMMA SupervisorSame == Supervisor!Spec => SupervisorP!Spec
<1>1. Supervisor!Init => SupervisorP!Init
  BY DEF Supervisor!Init, SupervisorP!Init, Supervisor!NoPid, SupervisorP!NoPid
<1>2. [Supervisor!Next]_(Supervisor!vars) => [SupervisorP!Next]_(SupervisorP!vars)
  BY DEF Supervisor!Next, SupervisorP!Next, Supervisor!vars, SupervisorP!vars, Supervisor!NoPid,
         SupervisorP!NoPid, Supervisor!Alive, SupervisorP!Alive, Supervisor!Lives,
         SupervisorP!Lives, Supervisor!AnyProcess, SupervisorP!AnyProcess, Supervisor!Running,
         SupervisorP!Running, Supervisor!Goes, SupervisorP!Goes, Supervisor!Ends,
         SupervisorP!Ends, Supervisor!Aborts, SupervisorP!Aborts, Supervisor!Begin,
         SupervisorP!Begin, Supervisor!CheckStart, SupervisorP!CheckStart, Supervisor!Held,
         SupervisorP!Held, Supervisor!Launch, SupervisorP!Launch, Supervisor!Record,
         SupervisorP!Record, Supervisor!Executing, SupervisorP!Executing, Supervisor!Settle,
         SupervisorP!Settle, Supervisor!CheckStop, SupervisorP!CheckStop, Supervisor!Kill,
         SupervisorP!Kill, Supervisor!Wait, SupervisorP!Wait, Supervisor!GiveUp,
         SupervisorP!GiveUp, Supervisor!Forget, SupervisorP!Forget, Supervisor!CheckStatus,
         SupervisorP!CheckStatus, Supervisor!Interrupt, SupervisorP!Interrupt,
         Supervisor!Becomes, SupervisorP!Becomes, Supervisor!Exec, SupervisorP!Exec,
         Supervisor!Dies, SupervisorP!Dies, Supervisor!Reused, SupervisorP!Reused,
         Supervisor!Command, SupervisorP!Command
<1> QED
  BY <1>1, <1>2, PTL DEF Supervisor!Spec, SupervisorP!Spec

\* What the proof modules assume is what HostTools assumes.
LEMMA Assumed == IntelP!Assumptions /\ BridgeP!Assumptions
  BY IntelAssumption, BridgeAssumption
     DEF IntelP!Assumptions, Intel!Keys, IntelP!Keys, BridgeP!Assumptions

-----------------------------------------------------------------------------
(* Theorems: the host's safety properties.                                  *)

\* The variables of all the instanced tools keep their types.
THEOREM ToolsTypesCorrect == HostSpec => []ToolsTypeOK
<1>1. HostSpec => []Sigma!TypeOK /\ []Bench!TypeOK /\ []GitOps!TypeOK
  BY SigmaSpec, SigmaTypesCorrect, BenchSpec, BenchTypesCorrect, GitOpsSpec, GitOpsTypesCorrect,
     PTL
<1>2. HostSpec => []Intel!TypeOK
  <2>1. IntelP!Spec => []IntelP!TypeOK
    BY Assumed, IntelP!TypeCorrect
  <2>2. IntelP!TypeOK => Intel!TypeOK
    BY DEF IntelP!TypeOK, Intel!TypeOK, IntelP!Keys, Intel!Keys, IntelP!Indicators,
           Intel!Indicators
  <2> QED
    BY <2>1, <2>2, IntelSpec, IntelSame, PTL
<1>3. HostSpec => []Bridge!TypeOK
  <2>1. BridgeP!Spec => []BridgeP!TypeOK
    BY Assumed, BridgeP!TypeCorrect
  <2>2. BridgeP!TypeOK => Bridge!TypeOK
    BY DEF BridgeP!TypeOK, Bridge!TypeOK
  <2> QED
    BY <2>1, <2>2, BridgeSpec, BridgeSame, PTL
<1>4. HostSpec => []Supervisor!TypeOK
  <2>1. SupervisorP!TypeOK => Supervisor!TypeOK
    BY DEF SupervisorP!TypeOK, Supervisor!TypeOK, SupervisorP!Named, Supervisor!Named,
           SupervisorP!NoPid, Supervisor!NoPid, SupervisorP!Places, Supervisor!Places
  <2> QED
    BY <2>1, SupervisorP!TypeCorrect, SupervisorSpec, SupervisorSame, PTL
<1>5. Intel!TypeOK /\ Sigma!TypeOK /\ Bench!TypeOK /\ GitOps!TypeOK /\ Bridge!TypeOK
        /\ Supervisor!TypeOK => ToolsTypeOK
  BY DEF ToolsTypeOK
<1> QED
  BY <1>1, <1>2, <1>3, <1>4, <1>5, PTL

\* compliance_audit_ledger, among the other tools: its types, a broken chain is never
\* extended, crashes raise no alarm, and audits one at a time lose no block.
THEOREM LedgerIsSafe ==
  HostSpec => [](TypeOK /\ OnlyVerifiedChainsGrow /\ NoFalseAlarm /\ CommittedStays)
<1>1. IInv => TypeOK /\ OnlyVerifiedChainsGrow /\ NoFalseAlarm /\ CommittedStays
  BY DEF IInv
<1> QED
  BY <1>1, Invariance, LedgerSpec, PTL

\* sync_threat_intel: Falco's lists, the merged data and the watched text files agree
\* after runs that only the network disturbed.
THEOREM IntelFiles == HostSpec => []IntelFilesAgree
<1>1. IntelP!Spec => []IntelP!FilesAgree
  BY Assumed, IntelP!Agreement
<1>2. IntelP!FilesAgree => IntelFilesAgree
  BY DEF IntelP!FilesAgree, IntelFilesAgree, Intel!FilesAgree, IntelP!Active, Intel!Active,
         IntelP!Reread, Intel!Reread
<1> QED
  BY <1>1, <1>2, IntelSpec, IntelSame, PTL

\* sync_threat_intel: osquery is never told to watch a file that does not exist.
THEOREM WatchedFiles == HostSpec => []WatchedFilesExist
<1>1. IntelP!Spec => []IntelP!WatchedFilesExist
  BY Assumed, IntelP!NoMissingFile
<1>2. IntelP!WatchedFilesExist => WatchedFilesExist
  BY DEF IntelP!WatchedFilesExist, WatchedFilesExist, Intel!WatchedFilesExist, IntelP!Keys,
         Intel!Keys
<1> QED
  BY <1>1, <1>2, IntelSpec, IntelSame, PTL

\* sync_threat_intel: a failed fetch empties no list of Falco's.
THEOREM OutagesKeepLists == HostSpec => OutageKeepsIndicators
<1> DEFINE Kept == \A s \in DOMAIN falcoList \ emptied :
                     ~disturbed' /\ falcoList[s] # {} => falcoList'[s] # {}
<1>1. IntelP!Spec => [][Kept]_(IntelP!vars)
  BY Assumed, IntelP!NothingLostToOutages DEF IntelP!OutageKeepsIndicators
<1>2. [Kept]_(IntelP!vars) => [Kept]_(Intel!vars)
  BY DEF Intel!vars, IntelP!vars, Intel!files, IntelP!files, Intel!process, IntelP!process,
         Intel!ghosts, IntelP!ghosts
<1>3. HostSpec => [][Kept]_(Intel!vars)
  BY <1>1, <1>2, IntelSpec, IntelSame, PTL
<1> QED
  BY <1>3 DEF OutageKeepsIndicators, Intel!OutageKeepsIndicators

\* manage_rules: what a policy disables is not in the directory that was emptied for
\* it, wherever curations are killed and however policies change.
THEOREM DisabledRules == HostSpec => []DisabledRulesAreOut
<1>1. SigmaInv => DisabledRulesAreOut
  BY CompiledByRule DEF SigmaInv, CompiledInv, DisabledRulesAreOut, Sigma!DisabledRulesAreOut
<1> QED
  BY <1>1, SigmaInvariance, SigmaSpec, PTL

\* manage_rules: a curation that went through has compiled every enabled rule and
\* nothing else.
THEOREM WholeCuration == HostSpec => []CurationIsComplete
<1>1. SigmaInv => CurationIsComplete
  BY DEF SigmaInv, CompiledInv, ProgressInv, CompleteInv, CurationIsComplete,
         Sigma!CurationIsComplete
<1> QED
  BY <1>1, SigmaInvariance, SigmaSpec, PTL

\* bench_stack: no stack that kept its budgets fails a benchmark of a minute or
\* more, for any services, budgets and restarts.
THEOREM NoFalseFailure == HostSpec => []FailureIsReal
<1>1. BenchInv => FailureIsReal
  BY FailureInv DEF FailureIsReal
<1> QED
  BY <1>1, BenchInvariance, BenchSpec, PTL

\* bench_stack: nor does one that broke them pass a benchmark of a minute or less in
\* which nothing restarted.
THEOREM NoFalsePass == HostSpec => []ShortPassIsReal
<1>1. BenchInv => ShortPassIsReal
  BY PassInv DEF ShortPassIsReal
<1> QED
  BY <1>1, BenchInvariance, BenchSpec, PTL

\* oo_alerts: alerts on the system logs query OpenObserve's stream, through any
\* exports, imports and edits.
THEOREM StreamNames == HostSpec => []QueriesNameTheStream
<1>1. GitOpsInv => QueriesNameTheStream
  BY DEF GitOpsInv, StreamInv, QueriesNameTheStream
<1> QED
  BY <1>1, GitOpsInvariance, GitOpsSpec, PTL

\* oo_alerts: after an undisturbed command the store has what the file says of each
\* name, whatever earlier commands left half done.
THEOREM ImportRepairs == HostSpec => []FileAndStoreAgree
<1>1. GitOpsInv => FileAndStoreAgree
  BY DEF GitOpsInv, MirrorInv, FileAndStoreAgree
<1> QED
  BY <1>1, GitOpsInvariance, GitOpsSpec, PTL

\* oo_alerts: commands that fail and are repeated create no second alert of a name.
THEOREM OneAlertPerName == HostSpec => []NamesAreUnique
<1>1. GitOpsInv => NamesAreUnique
  BY DEF GitOpsInv, NameInv, NamesAreUnique, GitOps!NamesAreUnique
<1> QED
  BY <1>1, GitOpsInvariance, GitOpsSpec, PTL

\* The bridge loses an alert in the named ways alone.
THEOREM NoOtherLossOfAlerts == HostSpec => []NothingElseIsLost
<1>1. BridgeP!Spec => []BridgeP!NothingElseIsLost
  BY Assumed, BridgeP!NoOtherLoss
<1>2. BridgeP!NothingElseIsLost => NothingElseIsLost
  BY DEF BridgeP!NothingElseIsLost, NothingElseIsLost, Bridge!NothingElseIsLost,
         BridgeP!Excused, Bridge!Excused, BridgeP!Collides, Bridge!Collides
<1> QED
  BY <1>1, <1>2, BridgeSpec, BridgeSame, PTL

\* zed-agent-observer.sh: one observer at most, and the pid file names it, while
\* commands come one after the other.
THEOREM NamedObserver == HostSpec => []SingleNamedObserver
<1>1. SupervisorP!SingleNamedObserver => SingleNamedObserver
  BY DEF SupervisorP!SingleNamedObserver, SingleNamedObserver, Supervisor!SingleNamedObserver
<1> QED
  BY <1>1, SupervisorP!OneObserver, SupervisorSpec, SupervisorSame, PTL

\* zed-agent-observer.sh: a stop kills no other program.
THEOREM StopsSpareOthers == HostSpec => StopSparesOthers
<1> DEFINE Spared == \A p \in Pids : process[p] = "other" => process'[p] # "stopping"
<1>1. SupervisorP!Spec => [][Spared]_(SupervisorP!vars)
  BY SupervisorP!OthersAreSpared DEF SupervisorP!StopSparesOthers
<1>2. [Spared]_(SupervisorP!vars) => [Spared]_(Supervisor!vars)
  BY DEF SupervisorP!vars, Supervisor!vars
<1>3. HostSpec => [][Spared]_(Supervisor!vars)
  BY <1>1, <1>2, SupervisorSpec, SupervisorSame, PTL
<1> QED
  BY <1>3 DEF StopSparesOthers, Supervisor!StopSparesOthers
=============================================================================
