------------------------------- MODULE LdbShare -------------------------------
(***************************************************************************)
(* The share registry of ha_ldb.cc and the LevelDB databases behind it:    *)
(* ha_ldb::open/close through get_share/free_share under ldb_mutex,        *)
(* ha_ldb::create and ha_ldb::delete_table, leveldb_open, and a process    *)
(* restart (ldb_done_func / ldb_init_func).                                *)
(*                                                                         *)
(* Each handler object is a thread of its own; get_share and free_share    *)
(* are split at the points where ldb_mutex is taken.  A LEVELDB_SHARE is   *)
(* named by the handler whose get_share allocated it.                      *)
(*                                                                         *)
(* LevelDB is modelled by what it does to a database directory: whether    *)
(* it exists, and how many leveldb::DB objects of this process hold it     *)
(* open (each holds the directory's LOCK file).  Whether a second open in  *)
(* the same process fails depends on the LevelDB build: newer builds keep  *)
(* an in-process table of locked files, older ones rely on fcntl() only,   *)
(* which a process never conflicts with itself on; lockTable is that       *)
(* choice, made once.                                                      *)
(***************************************************************************)
EXTENDS Integers, FiniteSets, Functions, TLC

CONSTANTS
  Handlers,       \* ha_ldb objects, each a thread
  Tables,         \* table names (database directories)
  HandlerTable,   \* the table each handler object was created for
  None,           \* NULL
  MallocMayFail,  \* my_multi_malloc may return NULL
  InsertMayFail,  \* my_hash_insert may fail (out of memory)
  MaxDbHandles    \* bound: DB objects on a directory when CREATE TABLE runs

ASSUME HandlerTable \in [Handlers -> Tables]
ASSUME MaxDbHandles \in Nat \ {0}

VARIABLES
  mutex,      \* owner of ldb_mutex, or None
  pc,         \* pc[h]: where handler h is in open/close
  share,      \* share[h]: the LEVELDB_SHARE h points to, or None
  hash,       \* ldb_open_tables: share -> [name, count (use_count), db]
  lockTable,  \* LevelDB build: a second open in this process fails
  dbHandles,  \* dbHandles[t]: leveldb::DB objects open on directory t
  onDisk,     \* onDisk[t]: directory t holds a database
  options,    \* the global leveldb::Options: its create_if_missing
  ddl,        \* ddl[t]: "idle", or "open" while CREATE TABLE t opens
  frm         \* host catalog: table t exists (its .frm)

vars == <<mutex, pc, share, hash, lockTable, dbHandles, onDisk, options, ddl, frm>>
ldb == <<mutex, pc, share, hash>>
leveldb == <<lockTable, dbHandles, onDisk, options>>

\* Points of pc at which the handler holds its share (open() returned 0).
Holding == {"open", "fs_lock", "fs_dec"}

Holders(id) == {h \in Handlers : share[h] = id /\ pc[h] \in Holding}

-----------------------------------------------------------------------------
(* LevelDB                                                                 *)

\* leveldb::DB::Open succeeds: the directory exists or may be created, and
\* no other DB object of this process holds its LOCK (or the build cannot
\* tell).
OpenOk(t, createIfMissing) ==
  /\ onDisk[t] \/ createIfMissing
  /\ dbHandles[t] = 0 \/ ~lockTable

\* leveldb_open is split at the global options it shares with every other
\* caller: it writes options.create_if_missing, then DB::Open reads it.
\* DB::Open with the options as they are now: on success a new DB object
\* holds the directory.
LeveldbOpen(t, createIfMissing) ==
  IF OpenOk(t, createIfMissing)
  THEN /\ dbHandles' = [dbHandles EXCEPT ![t] = @ + 1]
       /\ onDisk' = [onDisk EXCEPT ![t] = TRUE]
  ELSE UNCHANGED <<dbHandles, onDisk>>

-----------------------------------------------------------------------------

Init ==
  /\ mutex = None
  /\ pc = [h \in Handlers |-> "closed"]
  /\ share = [h \in Handlers |-> None]
  /\ hash = [id \in {} |-> None]
  /\ lockTable \in BOOLEAN
  /\ dbHandles = [t \in Tables |-> 0]
  /\ options = FALSE
  /\ ddl = [t \in Tables |-> "idle"]
  \* Tables created in an earlier run of the server (or not at all).
  /\ frm \in [Tables -> BOOLEAN]
  /\ onDisk = frm

\* ha_ldb::open calls get_share(name); the host opens existing tables only.
Open(h) ==
  /\ pc[h] = "closed"
  /\ frm[HandlerTable[h]]
  /\ pc' = [pc EXCEPT ![h] = "gs_lock"]
  /\ UNCHANGED <<mutex, share, hash, leveldb, ddl, frm>>

\* get_share entering its critical section without taking ldb_mutex.
GsLockNoWait(h) ==
  /\ pc[h] = "gs_lock"
  /\ pc' = [pc EXCEPT ![h] = "gs_search"]
  /\ UNCHANGED <<mutex, share, hash, leveldb, ddl, frm>>

\* get_share: mysql_mutex_lock(&ldb_mutex).
GsLock(h) ==
  /\ pc[h] = "gs_lock"
  /\ mutex = None
  /\ mutex' = h
  /\ pc' = [pc EXCEPT ![h] = "gs_search"]
  /\ UNCHANGED <<share, hash, leveldb, ddl, frm>>

\* ldb_get_key returning a key that matches no table name (a
\* table_name_length not yet set).
LdbGetKeyUnset(sh) == None

\* ldb_get_key: ldb_open_tables is keyed on the share's table_name.
LdbGetKey(sh) == sh.name

\* get_share: my_hash_search(&ldb_open_tables, table_name).
GsSearch(h) ==
  LET found == {id \in DOMAIN hash : LdbGetKey(hash[id]) = HandlerTable[h]} IN
  /\ pc[h] = "gs_search"
  /\ IF found /= {}
     THEN /\ share' = [share EXCEPT ![h] = CHOOSE id \in found : TRUE]
          /\ pc' = [pc EXCEPT ![h] = "gs_incr"]
     ELSE /\ pc' = [pc EXCEPT ![h] = "gs_create"]
          /\ UNCHANGED share
  /\ UNCHANGED <<mutex, hash, leveldb, ddl, frm>>

\* get_share: the new share, use_count=0 and table_name set (lines
\* 202-207); ok is whether leveldb_open gave it a DB.
NewShare(t, ok) == [name |-> t, count |-> 0, db |-> ok]

\* The malloc failure path returning without mysql_mutex_unlock.
GsMallocFailNoUnlock(h) ==
  /\ pc[h] = "gs_create"
  /\ MallocMayFail
  /\ pc' = [pc EXCEPT ![h] = "closed"]
  /\ UNCHANGED <<mutex, share, hash, leveldb, ddl, frm>>

\* get_share, table not found, my_multi_malloc returned NULL: unlock and
\* return NULL (open() returns 1).
GsMallocFail(h) ==
  /\ pc[h] = "gs_create"
  /\ MallocMayFail
  /\ mutex' = None
  /\ pc' = [pc EXCEPT ![h] = "closed"]
  /\ UNCHANGED <<share, hash, leveldb, ddl, frm>>

\* get_share, table not found, the share allocated: leveldb_open(name,
\* false) sets options.create_if_missing= false.
GsAlloc(h) ==
  /\ pc[h] = "gs_create"
  /\ options' = FALSE
  /\ pc' = [pc EXCEPT ![h] = "gs_open"]
  /\ UNCHANGED <<mutex, share, hash, lockTable, dbHandles, onDisk, ddl, frm>>

\* get_share: DB::Open with the options as they now are, its status
\* ignored (share->db stays NULL on failure), then my_hash_insert.  If the
\* insert fails, the error: path frees the share and returns NULL with
\* ldb_mutex still locked and the DB object leaked.
GsCreate(h) ==
  LET t == HandlerTable[h] IN
  /\ pc[h] = "gs_open"
  /\ LeveldbOpen(t, options)
  /\ \/ /\ hash' = (h :> NewShare(t, OpenOk(t, options))) @@ hash
        /\ share' = [share EXCEPT ![h] = h]
        /\ pc' = [pc EXCEPT ![h] = "gs_incr"]
     \/ /\ InsertMayFail
        /\ pc' = [pc EXCEPT ![h] = "closed"]
        /\ UNCHANGED <<share, hash>>
  /\ UNCHANGED <<mutex, lockTable, options, ddl, frm>>

\* use_count++ placed inside the "not found" branch: only the handler that
\* allocated the share counts itself.
GsIncrNewOnly(h) ==
  /\ pc[h] = "gs_incr"
  /\ hash' = IF hash[share[h]].count = 0
             THEN [hash EXCEPT ![share[h]].count = @ + 1] ELSE hash
  /\ mutex' = None
  /\ pc' = [pc EXCEPT ![h] = "open"]
  /\ UNCHANGED <<share, leveldb, ddl, frm>>

\* get_share: share->use_count++; unlock; open() returns 0.
GsIncr(h) ==
  /\ pc[h] = "gs_incr"
  /\ hash' = [hash EXCEPT ![share[h]].count = @ + 1]
  /\ mutex' = None
  /\ pc' = [pc EXCEPT ![h] = "open"]
  /\ UNCHANGED <<share, leveldb, ddl, frm>>

\* ha_ldb::close calls free_share(share).
Close(h) ==
  /\ pc[h] = "open"
  /\ pc' = [pc EXCEPT ![h] = "fs_lock"]
  /\ UNCHANGED <<mutex, share, hash, leveldb, ddl, frm>>

\* free_share: mysql_mutex_lock(&ldb_mutex).
FsLock(h) ==
  /\ pc[h] = "fs_lock"
  /\ mutex = None
  /\ mutex' = h
  /\ pc' = [pc EXCEPT ![h] = "fs_dec"]
  /\ UNCHANGED <<share, hash, leveldb, ddl, frm>>

\* free_share: if (!--share->use_count) delete the DB object and remove the
\* share from the hash; unlock.  (use_count is a uint: a decrement of 0
\* would wrap, which TypeOK reports as a negative count.)
\* Post-decrement (!share->use_count--) tests the count before it drops.
IsLastRefPost(c) == c = 0

IsLastRef(c) == c - 1 = 0

FsDec(h) ==
  LET id == share[h]
      n  == hash[id].count - 1
      t  == hash[id].name
  IN
  /\ pc[h] = "fs_dec"
  /\ IF IsLastRef(hash[id].count)
     THEN /\ hash' = [x \in DOMAIN hash \ {id} |-> hash[x]]
          /\ dbHandles' = IF hash[id].db THEN [dbHandles EXCEPT ![t] = @ - 1]
                          ELSE dbHandles
     ELSE /\ hash' = [hash EXCEPT ![id].count = n]
          /\ UNCHANGED dbHandles
  /\ mutex' = None
  /\ share' = [share EXCEPT ![h] = None]
  /\ pc' = [pc EXCEPT ![h] = "closed"]
  /\ UNCHANGED <<lockTable, onDisk, options, ddl, frm>>

\* ha_ldb::create (CREATE TABLE with one unique key part; the host holds
\* the name exclusively, not ldb_mutex): leveldb_open(name, true) sets
\* options.create_if_missing= true ...
CreateSetOptions(t) ==
  /\ ~frm[t]
  /\ ddl[t] = "idle"
  /\ dbHandles[t] < MaxDbHandles
  /\ options' = TRUE
  /\ ddl' = [ddl EXCEPT ![t] = "open"]
  /\ UNCHANGED <<ldb, lockTable, dbHandles, onDisk, frm>>

\* ... then DB::Open with the options as they now are, into a local
\* pointer that is never deleted.  The host keeps the table only if
\* create() returned 0.
Create(t) ==
  /\ ddl[t] = "open"
  /\ LeveldbOpen(t, options)
  /\ frm' = [frm EXCEPT ![t] = OpenOk(t, options)]
  /\ ddl' = [ddl EXCEPT ![t] = "idle"]
  /\ UNCHANGED <<ldb, lockTable, options>>

\* ha_ldb::delete_table (DROP TABLE, every handler of t closed):
\* DestroyDB's status is ignored and 0 returned.  DestroyDB deletes the
\* files only if it can take the directory's LOCK.
DeleteTable(t) ==
  /\ frm[t]
  /\ \A h \in Handlers : HandlerTable[h] = t => pc[h] = "closed"
  /\ onDisk' = [onDisk EXCEPT ![t] = onDisk[t] /\ dbHandles[t] > 0 /\ lockTable]
  /\ frm' = [frm EXCEPT ![t] = FALSE]
  /\ UNCHANGED <<ldb, lockTable, dbHandles, options, ddl>>

\* The server process exits (shutdown, ldb_done_func, or a crash) and
\* starts again (ldb_init_func): every in-memory object is gone, the
\* directories and the catalog remain.
Restart ==
  /\ mutex' = None
  /\ pc' = [h \in Handlers |-> "closed"]
  /\ share' = [h \in Handlers |-> None]
  /\ hash' = [id \in {} |-> None]
  /\ dbHandles' = [t \in Tables |-> 0]
  /\ options' = FALSE
  /\ ddl' = [t \in Tables |-> "idle"]
  /\ UNCHANGED <<lockTable, onDisk, frm>>

Next ==
  \/ \E h \in Handlers :
       \/ Open(h) \/ GsLock(h) \/ GsSearch(h) \/ GsMallocFail(h) \/ GsAlloc(h)
       \/ GsCreate(h) \/ GsIncr(h)
       \/ Close(h) \/ FsLock(h) \/ FsDec(h)
  \/ \E t \in Tables : CreateSetOptions(t) \/ Create(t) \/ DeleteTable(t)
  \/ Restart

\* Inside get_share/free_share a thread runs to the unlock without waiting
\* (spec.md 5: no operation suspends); taking the mutex and the host's
\* open/close calls carry no fairness.
Fairness ==
  \A h \in Handlers :
    WF_vars(GsSearch(h) \/ GsMallocFail(h) \/ GsAlloc(h) \/ GsCreate(h)
            \/ GsIncr(h) \/ FsDec(h))

Spec == Init /\ [][Next]_vars
FairSpec == Spec /\ Fairness

-----------------------------------------------------------------------------
(* Properties                                                              *)

\* Types; a handler's share pointer is NULL or points to a share still in
\* ldb_open_tables (never to a freed one).
TypeOK ==
  /\ mutex \in Handlers \cup {None}
  /\ pc \in [Handlers -> {"closed", "gs_lock", "gs_search", "gs_create",
                          "gs_open", "gs_incr", "open", "fs_lock", "fs_dec"}]
  /\ share \in [Handlers -> DOMAIN hash \cup {None}]
  /\ DOMAIN hash \subseteq Handlers
  /\ \A id \in DOMAIN hash :
       hash[id] \in [name: Tables, count: Nat, db: BOOLEAN]
  /\ lockTable \in BOOLEAN
  /\ dbHandles \in [Tables -> Nat]
  /\ options \in BOOLEAN
  /\ ddl \in [Tables -> {"idle", "open"}]

\* One share per table name (spec.md 3): concurrent opens of a table never
\* put two LEVELDB_SHAREs, and two DB objects, in ldb_open_tables.
OneSharePerTable ==
  \A a, b \in DOMAIN hash : a /= b => hash[a].name /= hash[b].name

\* ldb_done_func: when no handler has a table open, ldb_open_tables is
\* empty (a share left behind is a reference-count leak).
NoShareLeak ==
  (\A h \in Handlers : pc[h] = "closed") => DOMAIN hash = {}

\* Whoever takes ldb_mutex in get_share or free_share releases it.
MutexReleased == mutex /= None ~> mutex = None

\* The share registry implements what spec.md 4.3 promises (ShareRegistry):
\* get_share's use_count++ is the acquire, returning the share already in
\* ldb_open_tables for the name or the one this call inserted, and
\* free_share's decrement the release, removing the share at zero.  A
\* share still at use_count 0 (inserted, not yet counted) is no entry yet.
Entries == {id \in DOMAIN hash : hash[id].count > 0}
Registry ==
  INSTANCE ShareRegistry WITH
    Adapters <- Handlers,
    registry <- [t \in {hash[id].name : id \in Entries} |->
                  LET id == CHOOSE id \in Entries : hash[id].name = t
                  IN [store |-> id, useCount |-> hash[id].count]],
    holding <- [h \in Handlers |-> IF pc[h] \in Holding THEN share[h] ELSE None]
RegistryRefinement == Registry!Spec

\* A handler whose open() returned 0 reaches a usable leveldb::DB
\* (share->db, dereferenced by index_read and by the commit in
\* external_lock), and that DB is the only one open on its directory (the
\* LevelDB contract: one opener at a time).
OpenHasExclusiveDb ==
  \A h \in Handlers :
    pc[h] = "open" =>
      /\ hash[share[h]].db
      /\ dbHandles[HandlerTable[h]] = 1

\* DROP TABLE removes the table's data: a table the host no longer has
\* leaves no database behind for a later CREATE TABLE of the same name.
DroppedTableHasNoData == \A t \in Tables : ~frm[t] => ~onDisk[t]

\* CREATE TABLE (ha_ldb::create with leveldb_open(name, true)) fails only
\* when another DB object of this process holds the directory: a table
\* nobody holds is always created.
CreateSucceedsWhenFree ==
  [][\A t \in Tables : Create(t) /\ dbHandles[t] = 0 => frm'[t]]_vars

=============================================================================
