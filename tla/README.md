# TLA+ models of ha_ldb (MySQL storage engine over LevelDB)

This directory holds TLA+ models of `src/leveldb/ha_ldb.cc` and
`src/leveldb/ha_ldb.h`, with the TLC configurations that check them.
`PROJECT.json` lists the components, runs, mutants, the map from
definitions to source lines, the findings and the hazards.

## The system

`ha_ldb` is a MySQL pluggable storage engine. Each SQL table is one LevelDB
database directory. The parts and how they interact:

| Part | Code | State | Operations |
|---|---|---|---|
| Share registry | `get_share`, `free_share`, `ha_ldb::open/close`, `ldb_init_func`, `ldb_done_func` | `ldb_open_tables` (name -> `LEVELDB_SHARE` {use_count, db}), `ldb_mutex` | open: look up or create the share under the mutex and take a reference; close: drop the reference and delete the share and its `leveldb::DB` at zero |
| Store (LevelDB) | `leveldb_open`, `create`, `delete_table` | the directory, the `DB` objects holding its LOCK file | open (with or without create_if_missing), DestroyDB |
| Lock-scope batch (`trx_t`) | `external_lock`, `store_lock`, `free_trx` | per session: `trx_t {pobj, batch}` | the first lock of a session creates `trx_t` with `pobj` = this handler; each unlock writes the batch to `pobj`'s DB and frees it |
| Row operations | `write_row`, `update_row`, `delete_row`, `index_read` | the session's batch | stage Put/Delete into the batch; point lookup on the committed DB |
| Key and record codec | `get_key`, `index_read`, `my_compress`/`my_uncompress` | none | bytes of the key part; key cut from the host's key image; compress the record |
| Scans and stubs | `index_next`, scans, `position`, `info`, `extra`, `truncate`, `rename_table`, ... | none | end of file, HA_ERR_WRONG_COMMAND, or constants |

The host (mysqld) drives them. `store_lock` picks each table's thr_lock
type. thr_lock grants a statement all its table locks at once. Then come
`external_lock(F_WRLCK/F_RDLCK)` once per table, the row calls, and
`external_lock(F_UNLCK)` once per table.

Hard behaviours:
- **Concurrent sessions.** Different sessions stage and commit batches
  concurrently on the same table, and `store_lock` weakens write locks.
- **Concurrent opens.** Opens and closes race through one process-wide
  mutex, with several error paths inside it.
- **One opener per directory.** A LevelDB directory accepts one opener, but
  `create()` never closes what it opens.
- **Build-dependent second open.** Whether a second open in the same process
  fails depends on the LevelDB build. Newer builds keep an in-process lock
  table, so the second open fails. Older builds rely on fcntl only, so it
  succeeds. The model chooses this once, in `Init` (`lockTable`).
- **Unlocked global options.** `leveldb_open` writes the file-scope
  `leveldb::Options` and then opens with it. `get_share` calls it under
  `ldb_mutex`, but `create()` calls it without the mutex.
- **Unchecked statuses.** `leveldb_open` in `get_share` and `DestroyDB` in
  `delete_table` have their status ignored.

## Modules

- `BatchedTable.tla` is the abstract specification of what the engine
  promises (spec.md 3 and 4.4):
  - Row operations (`ins`, `upd`, `del`) a session issues during a lock
    scope stay pending.
  - On release, they are applied to the tables they were issued against, in
    order, all or none.
  - A crash (`Crash`) loses every pending operation and keeps the tables.
  - It has no counterpart in the code, so it has no map entries.
- `LdbTrx.tla` models the lock-scope batch and the row operations.
  - **Variables.** `store` holds the DB contents per table and `trx` holds
    `trx_t` per session. `phase`, `held`, `extLocked` and `rowBuf` are host
    state: the statement's progress, granted thr locks, external locks taken,
    and the row last returned by `index_read`. `intent` and `lost` are
    history variables.
  - **Actions.** There is one action per handler call:
    - `ExternalLock` is the lock branch and `ExternalUnlock` the F_UNLCK
      branch. `ExternalUnlock` covers the no-`trx_t` return, `CommitBatch` or
      `FailBatch`, and `FreeTrx`.
    - `WriteRow`, `UpdateRow`, `DeleteRow` and `IndexRead` are the row calls.
    - `IndexNext` ends a scan (HA_ERR_END_OF_FILE). `UnsupportedCall` is any
      call returning HA_ERR_WRONG_COMMAND (index_prev/first/last, the rnd_*
      scan, delete_all_rows, truncate): the statement fails, and its tables
      are unlocked with the rows staged so far.
    - `BeginStmt` (thr_lock with `StoreLock`) and `EndStmt` are the host.
    - `Crash` is a machine crash and restart of mysqld: every `trx_t`,
      statement and lock is gone, and each DB recovers its synced log.
  - **Durability.** `durable` is what LevelDB recovers after a crash.
    `CommitBatch` syncs it because `wo.sync` is set by `leveldb_open`
    (`WriteOptionsSync`).
  - **Batch semantics.** The batch is a sequence of Put/Delete applied by
    `ApplyBatch`, a fold, as `WriteBatch` and `DB::Write` do.
  - **Row abstraction.** A row is abstracted to its key and its contents.
    `get_key` and compression are taken as exact on that abstraction (see
    "Not modelled").
  - **Refinement.** `Refinement` is `INSTANCE BatchedTable WITH
    tables <- store, pending <- intent`.
- `LdbShare.tla` models the share registry with the LevelDB directories,
  `create`, `delete_table` and a process restart.
  - **Threads.** Each handler object is a thread. Its `pc` splits
    `get_share` at the mutex (`GsLock`, `GsSearch`, `GsMallocFail`,
    `GsCreate`, `GsIncr`) and `free_share` likewise (`FsLock`, `FsDec`).
  - **Shares.** A share is named by the handler that allocated it.
  - **Directories.** `dbHandles[t]` counts the `DB` objects of the process
    holding directory `t`, and `onDisk[t]` says whether it holds a database.
    `frm` is the host catalog.
  - **Global options.** `options` is `options.create_if_missing`. The
    `leveldb_open` of `get_share` is split into the write (`GsAlloc`) and
    `DB::Open` (`GsCreate`); the one of `create()` into `CreateSetOptions`
    and `Create`. `ddl[t]` marks a `create()` between the two.
- `LdbKeyCodec.tla` models the key codec at the byte level.
  - **Code.** `GetKey` is `ha_ldb::get_key` on the record buffer: the null
    bitmap (`KeyOffset`), a one- or two-byte length prefix, and
    `key_part->length` (`KeyLen`) bytes. `IndexReadKey` is the key
    `index_read` cuts from the host's key image, and `Lookup` is its `Get`.
  - **Key image.** The key image the host passes is a 2-byte length, the
    value and zero fill.
  - **Compression.** `MyCompress` is write_row's `my_compress` in place on
    record[0] (kept only when at least `MinCompressLength` bytes and
    shorter); `ReadRow` is index_read's `memcpy` of the stored value over
    record[0] and `my_uncompress`.
  - **Host buffer.** `recBuf` is record[0] and outlives each call. An INSERT
    with a column list restores it from the defaults first; one without
    (`INSERT INTO t VALUES ...`) sets only its first byte, as mysql_insert
    does. An UPDATE stores the new value into the row as read.
  - **State.** `db` maps key bytes to stored values. `hasRow` says record[0]
    holds the row the last `index_read` returned. `tbl` is the set of key
    values the SQL table holds.
- `ShareRegistry.tla` is the abstract contract of the share registry
  (spec.md 4.3), with no counterpart in the code and no map entries.
  - **State.** `registry` maps each open table name to its entry, a Store
    and a use count. `holding[a]` is the Store adapter `a` acquired.
  - **Actions.** `Acquire(a, t)` returns the entry's Store and counts `a`,
    or creates the entry with a new Store. `Release(a)` uncounts `a` and
    removes the entry at zero. `Shutdown` is process exit.
  - **Refinement.** `LdbShare` checks `RegistryRefinement`, which is
    `INSTANCE ShareRegistry WITH`:
    - `registry` maps each table to the share in `ldb_open_tables` with
      `use_count > 0`;
    - `holding[h]` is `share[h]` while handler `h` holds a share.
    `GsIncr` is the acquire, `FsDec` the release and `Restart` the shutdown.
    Every other step is a stutter, including a share inserted but not yet
    counted.
- `MCLdbTrx.tla` and `MCLdbShare.tla` give model values and command sets for
  TLC.

## Runs

| Run | Expect | What it shows |
|---|---|---|
| `trx_refine` | pass | With one table per statement, the batch protocol implements `BatchedTable`. Two sessions run DML and LOCK TABLES scopes, `DB::Write` may fail, and the machine may crash: a crash loses the pending batches (`BatchedTable`'s `Crash`) and nothing committed. `TypeOK` holds. |
| `trx_lock_tables` | pass | Under LOCK TABLES, `store_lock` keeps TL_WRITE, and no read-then-update of one session is overwritten by another's commit (`NoLostUpdate`). It uses two tables and one or two tables per scope, so it also covers the no-`trx_t` unlock. |
| `trx_multi_table` | violation | `Refinement` fails. A statement over two tables writes the rows for the second into the first table's DB (`pobj`). |
| `trx_dml_lost_update` | violation | `NoLostUpdate` fails. An ordinary UPDATE gets TL_WRITE_ALLOW_WRITE, so two sessions read a row and the later commit overwrites the earlier one. |
| `share_registry` | pass | Three handlers on two tables open and close concurrently, with CREATE/DROP, malloc and hash-insert failures, and restarts. The checks: one share per table; no share left once every handler is closed; no handler points at a freed share (`TypeOK`). `RegistryRefinement`: every step implements spec.md 4.3's acquire/release contract. This includes `use_count` equal to the number of handlers holding the share. In particular, a second opener gets the share already registered, and the last close removes it. A `ldb_get_key` returning the wrong key breaks this (its mutant). |
| `share_mutex` | pass | With every failure except a failed `my_hash_insert`, whoever takes `ldb_mutex` releases it (`MutexReleased`, under fairness). |
| `share_insert_fail` | violation | `MutexReleased` fails: the `error:` path of `get_share` returns with the mutex held. |
| `share_open_after_create` | violation | `OpenHasExclusiveDb` fails. The DB that `create()` leaks holds the directory. The first open then gets a NULL `share->db` (lock-table build) or a second DB on the same directory (fcntl build). |
| `share_create_options_race` | violation | `CreateSucceedsWhenFree` fails. A handler opening `t2` sets `create_if_missing = false` between `create()`'s write of it and its `DB::Open`, and CREATE TABLE `t1` fails on a free directory. |
| `codec_full_length` | pass | For a VARCHAR key with a one-byte length prefix and values of the declared length, INSERT (both forms), key-changing UPDATE and DELETE round-trip through `get_key`, `my_compress`, `index_read` and `my_uncompress` (`RoundTrip`). Records with trailing zeros are stored compressed, the others raw. `TypeOK` includes that record[0] keeps its length. |
| `codec_stale_tail` | violation | `RoundTrip` fails. `INSERT INTO t VALUES ('11'),('1')`: without a column list mysql_insert does not restore record[0] between rows, so `get_key` of the second row takes the first row's second byte, and the row `'1'` is stored under `'11'` and replaces it. With `InsertForms = {"columns"}` TLC shows the other way in: an UPDATE from `'11'` to `'1'` stores the row under `'11'`, and a lookup of `'1'` misses it. |
| `share_drop_keeps_data` | violation | `DroppedTableHasNoData` fails. DestroyDB cannot take the LOCK the leaked DB holds, its error is ignored, and the data survives DROP TABLE. |

Each property of a passing run has a mutant in `PROJECT.json`: a plausible bug
in the code it is about that TLC catches.

## Bounds and why they are enough

- **LdbTrx.** Two sessions are needed for a lost update and for a write
  failure racing a commit. The other bounds:
  - Two keys let an update change its key, which exercises Delete(old)
    followed by Put(new).
  - `MaxBatch = 2` holds an update with a key change, or two row calls.
  - One value suffices: with one value, rows still differ by key and by
    presence, which is what the properties tell apart.

  `trx_refine` uses one table (205k states, about a minute). Two tables and two
  values did not finish in 30 minutes. Multi-table behaviour is covered by
  `trx_lock_tables` and `trx_multi_table`.
- **LdbShare.** Two handlers on `t1` race on one share, and a third on `t2`
  shows the shares stay apart. `MaxDbHandles = 2` bounds CREATE TABLE
  repetitions on a directory with a leaked DB. Both LevelDB builds and every
  initial catalog are initial states.
- **LdbKeyCodec.** Two data bytes are the least for a value shorter than the
  declared length (the stale tail and the zero fill). Two or three byte
  values give keys that differ in either byte. `KeyOffset = 1` is a one-byte
  null bitmap, and one byte of another column lets a record end in zeros.
  `codec_full_length` scales MIN_COMPRESS_LENGTH down to the 5-byte record,
  so some records are stored compressed and others raw; `codec_stale_tail`
  keeps the real 50. Without a database of its own the module has no concurrency,
  so its state space is the reachable tables of that workload.

## Fairness

- **LdbShare.** `FairSpec` puts weak fairness on each step inside the
  critical section (`GsSearch`, `GsMallocFail`, `GsCreate`, `GsIncr`,
  `FsDec`, and `GsAlloc`). spec.md 5 says no operation suspends and each call runs to
  completion. Taking the mutex, and the host's open and close calls, carry
  no fairness: the host need never call them.
- **LdbTrx.** It is checked for safety only, so it has no fairness.

## Fault model

- **LdbShare.** `Restart` is a mysqld restart: `ldb_done_func`, then
  `ldb_init_func`, with the directories kept.
- **LdbTrx.** `Crash` is a machine crash. LevelDB recovers each database
  from its log, which holds exactly the batches whose `DB::Write` returned
  (sync writes). Not modelled: a `DB::Write` that fails after appending to
  the log (a failed sync) and is replayed by recovery; that is LevelDB's
  code, and `LdbTrx` takes spec.md 4.4's premise that a failed write
  applies nothing.
- `DB::Write` failure (`FailBatch`), malloc and hash-insert failures, and
  DB::Open failures are the other faults; the runs say which each enables.

## Not modelled, and the plan for later

- **zlib.** `my_compress` and `my_uncompress` are modelled by their
  contract on a lossless stand-in (`Deflate`/`Inflate`): a stream starts
  with a magic byte no record starts with, and the compressed form is kept
  only when it is shorter. What zlib does to the bytes is left out.
- **Trailing NUL bytes.** With a VARBINARY key, values that differ only in
  trailing NUL bytes (0x00 and 0x0000) get one LevelDB key, because the key
  is zero-filled to the declared length. `RoundTrip` fails on it with
  `Bytes = {0,1}` and `KeyType = "VARBINARY2"`. It has the same cause as
  `codec_stale_tail`, so it has no run of its own.
- **Read-your-writes.** `index_read` does not read the pending batch. spec.md
  accepts this, and `Refinement` checks writes only.
- **Return codes.** The second `external_lock(F_UNLCK)` of a multi-table
  scope returns 1 after the batch was written. `ExternalUnlock` keeps that
  branch, but the model records no return codes, and what the host reports
  for them is outside the repository.
- **Layout changes.** `LdbKeyCodec` has one record layout. Rows left by a
  dropped table (`share_drop_keeps_data`) under a new layout, which
  `index_read` would `memcpy` past record[0], are outside it.
- **Composition.** `LdbTrx` assumes every table is open with a usable DB.
  Next: compose it with `LdbShare`, so that a NULL `share->db` reached from
  `IndexRead` or `CommitBatch` is a state.
- **Stubs and plugin.** `position`, `info`, `extra` and `records_in_range`
  return constants and change no state. Plugin registration and system
  variables are static data.
