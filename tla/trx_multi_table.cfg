\* One session whose statement locks two tables (INSERT ... SELECT, a
\* multi-table UPDATE): the batch is written to the first table locked.
CONSTANTS
  Sessions = {s1}
  Tables = {t1, t2}
  Keys = {k1, k2}
  Vals = {v1}
  Absent = Absent
  None = None
  Cmds <- DmlOnly
  MaxStmtTables = 2
  MaxBatch = 2
  WriteMayFail = FALSE
  MayCrash = FALSE
SPECIFICATION Spec
PROPERTY Refinement
