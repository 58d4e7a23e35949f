\* Two sessions running UPDATE statements on one table: store_lock turns
\* TL_WRITE into TL_WRITE_ALLOW_WRITE and an update is lost.
CONSTANTS
  Sessions = {s1, s2}
  Tables = {t1}
  Keys = {k1, k2}
  Vals = {v1}
  Absent = Absent
  None = None
  Cmds <- DmlOnly
  MaxStmtTables = 1
  MaxBatch = 2
  WriteMayFail = FALSE
  MayCrash = FALSE
SPECIFICATION Spec
INVARIANT NoLostUpdate
