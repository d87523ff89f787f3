CONSTANTS
  Chains = {r1}
  Depth = 0
  Raised = {}
  Strays = {}
  MaxCrashes = 0
SPECIFICATION Spec
PROPERTIES FinalFollowsProvisional
CHECK_DEADLOCK FALSE
