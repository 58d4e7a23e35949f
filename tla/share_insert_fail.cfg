\* my_hash_insert fails in get_share: the error path returns without
\* unlocking ldb_mutex.
CONSTANTS
  h1 = h1  h2 = h2  h3 = h3  t1 = t1  t2 = t2
  Handlers <- MCHandlers
  Tables <- MCTables
  HandlerTable <- MCHandlerTable
  None = None
  MallocMayFail = FALSE
  InsertMayFail = TRUE
  MaxDbHandles = 2
SPECIFICATION FairSpec
PROPERTY MutexReleased
