\* Every path through get_share and free_share but a failed my_hash_insert:
\* whoever takes ldb_mutex releases it.
CONSTANTS
  h1 = h1  h2 = h2  h3 = h3  t1 = t1  t2 = t2
  Handlers <- MCHandlers
  Tables <- MCTables
  HandlerTable <- MCHandlerTable
  None = None
  MallocMayFail = TRUE
  InsertMayFail = FALSE
  MaxDbHandles = 2
SPECIFICATION FairSpec
PROPERTY MutexReleased
