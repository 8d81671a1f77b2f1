SPECIFICATION AuditSpec
CONSTANTS
  Procs = {p1, p2}
  Sinks <- MCSinks
  Modes = {"inject", "auto"}
  Statuses = {403}
  Metas = {"unmarshalable"}
  Subjects = {"bob"}
  Tables <- MCTables
  MaxHeaders = 1
  MaxEvents = 2
  MaxClock = 1
SYMMETRY MCSymmetry
INVARIANTS AuditTypeOK SinksFailAlone VerdictOnRecord RecentIsTheTrail
