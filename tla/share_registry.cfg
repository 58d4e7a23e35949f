\* Concurrent open/close of two tables with CREATE/DROP TABLE, malloc and
\* hash-insert failures and restarts: reference counting of the shares.
CONSTANTS
  h1 = h1  h2 = h2  h3 = h3  t1 = t1  t2 = t2
  Handlers <- MCHandlers
  Tables <- MCTables
  HandlerTable <- MCHandlerTable
  None = None
  MallocMayFail = TRUE
  InsertMayFail = TRUE
  MaxDbHandles = 2
SPECIFICATION FairSpec
INVARIANT TypeOK
INVARIANT OneSharePerTable
INVARIANT NoShareLeak
PROPERTY RegistryRefinement
