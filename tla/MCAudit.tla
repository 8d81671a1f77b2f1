------------------------------ MODULE MCAudit -------------------------------
EXTENDS Audit, TLC

JSON == [kind |-> "json"]
DB(opts) == [kind |-> "db", opts |-> opts]
Table(name) == [opt |-> "WithTableName", name |-> name]
Custom(name, mapper) == [opt |-> "WithCustomSchema", name |-> name, mapper |-> mapper]

\* The combination of the package documentation, with a renamed table; and one with a
\* mapper, whose table name comes too late to matter.
MCSinks == <<JSON, DB(<<Table("trail")>>), DB(<<Custom("changes", TRUE), Table("trail")>>)>>
MCTables == {"audit_logs", "trail", "changes"}
MCSymmetry == Permutations(Procs)
=============================================================================
