\* Two sessions on one table, one table per statement, DML and LOCK TABLES
\* scopes, DB::Write may fail and the machine may crash: the batch protocol
\* implements BatchedTable.
CONSTANTS
  Sessions = {s1, s2}
  Tables = {t1}
  Keys = {k1, k2}
  Vals = {v1}
  Absent = Absent
  None = None
  Cmds <- DmlAndLockTables
  MaxStmtTables = 1
  MaxBatch = 2
  WriteMayFail = TRUE
  MayCrash = TRUE
SPECIFICATION Spec
INVARIANT TypeOK
PROPERTY Refinement
