----------------------------- MODULE MC_HostTools -----------------------------
(***************************************************************************)
(* HostTools for TLC: the constants of its parts that are more than a       *)
(* number or a set of model values.                                         *)
(***************************************************************************)
EXTENDS HostTools

\* ThreatIntelSync: a source with addresses and one with user agents.
MCSources == <<"tor_ips", "bad_user_agents">>

\* SigmaCuration: two rule files of one name, a file that does not parse, policies
\* that disable by id and by tag and one that does not load.
Rule(n, i, t) == [name |-> n, id |-> i, tags |-> t, parses |-> TRUE]
Policy(i, t, w, m) == [ids |-> i, tags |-> t, tweaks |-> w, malformed |-> m]

MCRuleFiles ==
  { Rule("shell.yml", "a", {"unstable"}), Rule("shell.yml", "b", {}),
    Rule("unshare.yaml", "c", {}), [Rule("broken.yml", "d", {}) EXCEPT !.parses = FALSE] }
MCFirstPolicy == Policy({}, {"unstable"}, {"c"}, FALSE)
MCPolicies ==
  { MCFirstPolicy, Policy({"c"}, {}, {"b"}, FALSE), Policy({}, {}, {}, FALSE),
    Policy({}, {}, {}, TRUE) }

\* BenchBudgets: services that may write two units and one a minute, and two as a
\* stack: a service, or only the two together, may go over that.
MCWriteBudget == [openobserve |-> 2, collector |-> 1]
MCRamBudget == [openobserve |-> 0, collector |-> 1]

\* AlertGitOps: a file with an alert on the system logs and one on another stream.
MCInitialFile ==
  << [name |-> "sudo", stream |-> "system-logs", sql |-> "system-logs"],
     [name |-> "falco", stream |-> "other", sql |-> "other"] >>
=============================================================================
