\* CREATE TABLE, then open: the DB object create() leaked still holds the
\* directory when get_share opens it again.
CONSTANTS
  h1 = h1  h2 = h2  h3 = h3  t1 = t1  t2 = t2
  Handlers <- MCHandlers
  Tables <- MCTables
  HandlerTable <- MCHandlerTable
  None = None
  MallocMayFail = FALSE
  InsertMayFail = FALSE
  MaxDbHandles = 2
SPECIFICATION FairSpec
INVARIANT OpenHasExclusiveDb
