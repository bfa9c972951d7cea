--------------------------- MODULE MC_SigmaCuration ---------------------------
(* SigmaCuration for TLC: two rule files of one name, a file that does not     *)
(* parse, and policies that disable by id and by tag.                          *)
EXTENDS SigmaCuration

Rule(d, n, i, t) == [dir |-> d, name |-> n, id |-> i, tags |-> t, parses |-> TRUE]

MCRuleFiles == {
  Rule("linux", "shell.yml", "a", {"unstable"}),
  Rule("local", "shell.yml", "b", {}),
  Rule("local", "unshare.yaml", "c", {}),
  [Rule("local", "broken.yml", "d", {}) EXCEPT !.parses = FALSE] }

Policy(i, t, w, m) == [ids |-> i, tags |-> t, tweaks |-> w, malformed |-> m]
MCFirstPolicy == Policy({}, {"unstable"}, {"c"}, FALSE)
MCPolicies ==
  { MCFirstPolicy, Policy({"c"}, {}, {"b"}, FALSE), Policy({}, {}, {}, FALSE),
    Policy({}, {}, {}, TRUE) }
=============================================================================
