SPECIFICATION FairSpec
CONSTANTS
  Procs = {p1}
  Subjects = {"alice"}
  RoleNames = {"a", "b", "c"}
  RoleDefs <- Defs
  Queries <- AllQ
  VisitLimit = 2
INVARIANTS
  TypeOK
  GrantIsJustified
  DenialIsJustified
PROPERTY
  CanTerminates
