----------------------------- MODULE SigmaCuration -----------------------------
(***************************************************************************)
(* The Sigma curation engine (rules/sigma/manage_rules.py) rebuilds         *)
(* active_rules, the directory rsigma watches, from the rule files under    *)
(* rules/ and the policy in curated_rules.yaml.  It is started by hand, one *)
(* curation at a time; the directory is emptied first.                      *)
(***************************************************************************)
EXTENDS Naturals

CONSTANTS
  RuleFiles,      \* files under rules/: [dir, name, id, tags, parses]
  HandNames,      \* names of rule files people put into active_rules
  Policies,       \* contents of curated_rules.yaml: [ids, tags, tweaks, malformed]
  FirstPolicy,    \* the committed one
  MaxCurations,   \* bound: curations started
  MaxPolicies,    \* bound: policyEdits of the policy
  MaxKills        \* bound: curations killed

VARIABLES
  policy,         \* curated_rules.yaml
  active,         \* active_rules: [file name -> the rule and whether it was tweaked]
  stage,          \* of the curation: "idle", "clean", "compile", "validate"
  loaded,         \* the policy the curation has read
  applied,        \* the policy active_rules was last emptied for
  left,           \* rule files it has still to compile
  complete,       \* has it compiled them all?
  curations, policyEdits, kills

directory == <<active, left, complete>>      \* and how far the compilation got
bounds == <<curations, policyEdits, kills>>
process == <<stage, loaded>>
vars == <<policy, directory, process, applied, bounds>>

Compiled(f, p) == [id |-> f.id, tweaked |-> f.id \in p.tweaks, byHand |-> FALSE]
ByHand == [id |-> "hand", tweaked |-> FALSE, byHand |-> TRUE]
Put(f, n, r) == [m \in DOMAIN f \union {n} |-> IF m = n THEN r ELSE f[m]]
Empty == [n \in {} |-> ByHand]

TypeOK ==
  /\ policy \in Policies /\ loaded \in Policies /\ applied \in Policies
  /\ DOMAIN active \subseteq {f.name : f \in RuleFiles} \union HandNames
  /\ stage \in {"idle", "clean", "compile", "validate"}
  /\ left \subseteq RuleFiles
  /\ complete \in BOOLEAN
  /\ curations \in 0..MaxCurations /\ policyEdits \in 0..MaxPolicies /\ kills \in 0..MaxKills

Init ==
  /\ policy = FirstPolicy /\ loaded = policy /\ applied = policy
  /\ active = Empty
  /\ stage = "idle" /\ left = {} /\ complete = FALSE
  /\ curations = 0 /\ policyEdits = 0 /\ kills = 0

-----------------------------------------------------------------------------
\* disabled_ids and disabled_tags; enabled_rules is read and not used.
Disabled(f, p) == f.id \in p.ids \/ f.tags \intersect p.tags # {}
Enabled(p) == {f \in RuleFiles : f.parses /\ ~Disabled(f, p)}

\* load_config.
Begin ==
  /\ stage = "idle" /\ curations < MaxCurations
  /\ curations' = curations + 1
  /\ loaded' = policy
  /\ stage' = "clean"
  /\ UNCHANGED <<policy, applied, directory, policyEdits, kills>>

KeepDirectory ==                                                  \* faulty Clean
  /\ stage = "clean"
  /\ left' = RuleFiles /\ complete' = FALSE
  /\ applied' = loaded
  /\ stage' = IF loaded.malformed THEN "idle" ELSE "compile"
  /\ UNCHANGED <<policy, active, loaded, bounds>>

\* clean_active_dir; then process_rules reads the policy, and raises when a
\* "tags:" in it has no entries.
Clean ==
  /\ stage = "clean"
  /\ active' = Empty
  /\ left' = RuleFiles /\ complete' = FALSE
  /\ applied' = loaded
  /\ stage' = IF loaded.malformed THEN "idle" ELSE "compile"
  /\ UNCHANGED <<policy, loaded, bounds>>

StopsAtDisabled(f) ==                                             \* faulty Skip
  /\ stage = "compile" /\ f \in left \ Enabled(loaded)
  /\ left' = {}
  /\ UNCHANGED <<policy, active, process, applied, complete, bounds>>

\* A file that does not parse, or is disabled.
Skip(f) ==
  /\ stage = "compile" /\ f \in left \ Enabled(loaded)
  /\ left' = left \ {f}
  /\ UNCHANGED <<policy, active, process, applied, complete, bounds>>

\* The output has the base name of the rule file, in whatever directory that is.
Compile(f) ==
  /\ stage = "compile" /\ f \in left \intersect Enabled(loaded)
  /\ active' = Put(active, f.name, Compiled(f, loaded))
  /\ left' = left \ {f}
  /\ UNCHANGED <<policy, process, applied, complete, bounds>>

EndCompile ==
  /\ stage = "compile" /\ left = {}
  /\ complete' = TRUE
  /\ stage' = "validate"
  /\ UNCHANGED <<policy, active, loaded, applied, left, bounds>>

\* The exit code is rsigma's; the directory stays as it is whatever it says.
Validate ==
  /\ stage = "validate"
  /\ stage' = "idle"
  /\ UNCHANGED <<policy, directory, loaded, applied, bounds>>

Kill ==
  /\ stage # "idle" /\ kills < MaxKills
  /\ kills' = kills + 1
  /\ stage' = "idle"
  /\ UNCHANGED <<policy, directory, loaded, applied, curations, policyEdits>>

\* Or in the middle of clean_active_dir: some of the old rules are still there.
KillInClean ==
  /\ stage = "clean" /\ kills < MaxKills
  /\ kills' = kills + 1
  /\ \E kept \in SUBSET DOMAIN active : active' = [n \in kept |-> active[n]]
  /\ complete' = FALSE
  /\ stage' = "idle"
  /\ UNCHANGED <<policy, left, loaded, applied, curations, policyEdits>>

EditPolicy ==
  /\ policyEdits < MaxPolicies
  /\ policy' \in Policies \ {policy}
  /\ policyEdits' = policyEdits + 1
  /\ UNCHANGED <<process, applied, directory, curations, kills>>

\* Somebody adds a rule, the way docs/ai_agent_observability.md says.
Drop(n) ==
  /\ n \notin DOMAIN active
  /\ active' = Put(active, n, ByHand)
  /\ UNCHANGED <<policy, process, applied, left, complete, bounds>>

Curation ==
  \/ Begin \/ Clean \/ EndCompile \/ Validate \/ Kill \/ KillInClean
  \/ \E f \in RuleFiles : Skip(f) \/ Compile(f)

Next == Curation \/ EditPolicy \/ (\E n \in HandNames : Drop(n))

Spec == Init /\ [][Next]_vars

-----------------------------------------------------------------------------
(* Properties.                                                              *)

FromRules == {n \in DOMAIN active : ~active[n].byHand}

\* From the moment a curation has emptied the directory no rule that its policy
\* disables is active, whatever policies came before and wherever it was killed.
\* (One killed while it empties it has not: what is left is the last one's.)
DisabledRulesAreOut ==
  \A n \in FromRules : \E f \in Enabled(applied) : f.name = n /\ f.id = active[n].id

\* A curation that went through leaves one rule of each name that an enabled rule
\* has, tweaked when the policy says so, and none besides those put there by hand.
CurationIsComplete ==
  complete =>
    /\ FromRules = {f.name : f \in Enabled(applied)}
    /\ \A n \in FromRules : \E f \in Enabled(applied) :
         f.name = n /\ active[n] = Compiled(f, applied)

\* docs/ai_agent_observability.md: "Add rules by dropping a YAML file into
\* rules/sigma/active_rules/" - such a rule stays until somebody removes it.
DroppedRulesStay ==
  [][\A n \in DOMAIN active : active[n].byHand => n \in DOMAIN active']_vars
=============================================================================
