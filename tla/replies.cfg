CONSTANTS
  Chains = {r1}
  Depth = 2
  Raised = {"NotFound", "internal"}
  Strays = {404, 503}
  MaxCrashes = 1
SPECIFICATION FairSpec
INVARIANTS TypeOK DoneOnlyIfAnnounced NoFailureAsPayload CodeHasOrigin RepliedCodeHasOrigin
PROPERTIES PromiseKept HangingCalleeDoesNotHold
CHECK_DEADLOCK FALSE
