\* Two sessions writing two tables under LOCK TABLES ... WRITE (one or both
\* tables per scope): store_lock keeps TL_WRITE, so no update is lost.
CONSTANTS
  Sessions = {s1, s2}
  Tables = {t1, t2}
  Keys = {k1, k2}
  Vals = {v1}
  Absent = Absent
  None = None
  Cmds <- LockTablesOnly
  MaxStmtTables = 2
  MaxBatch = 2
  WriteMayFail = TRUE
  MayCrash = TRUE
SPECIFICATION Spec
INVARIANT NoLostUpdate
