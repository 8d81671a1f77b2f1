SPECIFICATION Spec
CONSTANTS
  Configs <- MCConfigs
  Requests <- MCRequests
  OuterHeaders <- MCOuterHeaders
  HandlerHeaders <- MCHandlerHeaders
  DefaultMaxAge = 2000
  FreshFor = 1
  MaxTime = 3
  MaxDeploys = 1
INVARIANTS
  TypeOK
  ReadWasPermitted
  RefusedWasForbidden
  HandledWasPermitted
  ResponsesAreHardened
