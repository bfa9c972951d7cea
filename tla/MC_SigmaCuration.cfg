SPECIFICATION Spec
CONSTANTS
  RuleFiles <- MCRuleFiles
  Policies <- MCPolicies
  FirstPolicy <- MCFirstPolicy
  HandNames = {"agent.yaml"}
  MaxCurations = 2
  MaxPolicies = 1
  MaxKills = 1
PROPERTY DroppedRulesStay
CHECK_DEADLOCK FALSE
