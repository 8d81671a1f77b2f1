SPECIFICATION Spec
CONSTANTS
  Procs = {p1}
  Tokens <- MCTokens
  Strangers <- MCStrangers
  NoToken = NoToken
  Subjects <- MCSubjects
  Roles <- MCRoles
  Grants <- MCGrants
  Routes <- MCRoutes
  Requests <- MCRequests
INVARIANTS TypeOK ServedIsEntitled RefusalIsJustified
