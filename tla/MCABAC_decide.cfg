SPECIFICATION ABACSpec
CONSTANTS
  Callers = {p1}
  PolicyIDs <- MCIDs
  PolicyDefs <- MCDefs
  Requests <- RequireRequests
  Conditions <- MCConditions
  Applies <- MCApplies
  NilCondition = NilCondition
  DefaultEffect = "Deny"
  StoreFails = TRUE
  NoPolicy = NoPolicy
  NoRequest = NoRequest
  NoClaims = NoClaims
  MintedClaims <- MCClaims
  Actions <- MCActions
  Resources <- MCResources
INVARIANTS ABACTypeOK DecisionFollowsPriority OwnershipNeedsASubject
