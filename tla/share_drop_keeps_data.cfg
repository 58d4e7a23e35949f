\* CREATE TABLE, DROP TABLE: DestroyDB cannot take the LOCK the leaked DB
\* object holds, its error is ignored, and the data stays.
CONSTANTS
  h1 = h1  h2 = h2  h3 = h3  t1 = t1  t2 = t2
  Handlers <- MCHandlers
  Tables <- MCTables
  HandlerTable <- MCHandlerTable
  None = None
  MallocMayFail = FALSE
  InsertMayFail = FALSE
  MaxDbHandles = 2
SPECIFICATION FairSpec
INVARIANT DroppedTableHasNoData
