\* CREATE TABLE t1 and the first open of t2 at once: get_share's
\* leveldb_open resets the global options.create_if_missing between
\* create()'s write of it and its DB::Open, and the new table is not created.
CONSTANTS
  h1 = h1  h2 = h2  h3 = h3  t1 = t1  t2 = t2
  Handlers <- MCHandlers
  Tables <- MCTables
  HandlerTable <- MCHandlerTable
  None = None
  MallocMayFail = FALSE
  InsertMayFail = FALSE
  MaxDbHandles = 2
SPECIFICATION FairSpec
PROPERTY CreateSucceedsWhenFree
