-------------------------------- MODULE LdbTrx --------------------------------
(***************************************************************************)
(* The write-batch-per-lock-scope protocol of ha_ldb.cc: how the host's    *)
(* table locks drive external_lock(), how write_row/update_row/delete_row  *)
(* stage Put/Delete operations into the session's trx_t batch, how         *)
(* index_read reads the committed LevelDB contents, and how the unlock     *)
(* call writes the batch to the database of trx->pobj.                     *)
(*                                                                         *)
(* The tables are open and each has a usable leveldb::DB (the share        *)
(* registry is modelled in LdbShare).  A row is abstracted to its key and  *)
(* its remaining contents; key extraction and compression are the          *)
(* identity on that abstraction (see README).                              *)
(*                                                                         *)
(* The host (mysqld) is modelled as each session running statements:      *)
(* thr_lock grants every table lock of the statement (store_lock decides   *)
(* the lock type), then external_lock is called per table, row calls       *)
(* follow, then external_lock(F_UNLCK) per table and the thr locks go.     *)
(***************************************************************************)
EXTENDS Integers, Sequences, SequencesExt, FiniteSets

CONSTANTS
  Sessions,        \* THDs
  Tables,          \* table names, one LevelDB database each
  Keys, Vals,      \* key values and non-key row contents
  Absent,          \* no value stored under a key (Get returns NotFound)
  None,            \* a NULL pointer: no trx_t, no row read
  Cmds,            \* sql commands a statement may be (thd_sql_command)
  MaxStmtTables,   \* bound: tables locked by one statement
  MaxBatch,        \* bound: operations in one trx_t batch
  WriteMayFail,    \* whether DB::Write may return a non-ok status
  MayCrash         \* whether the host machine may crash (power loss)

ASSUME MaxStmtTables \in 1..Cardinality(Tables) /\ MaxBatch \in Nat
ASSUME WriteMayFail \in BOOLEAN /\ MayCrash \in BOOLEAN

VARIABLES
  store,      \* store[t]: contents of table t's leveldb::DB
  durable,    \* durable[t]: what LevelDB recovers of t after a crash
  trx,        \* trx[s]: thd_get_ha_data(s, ldb_hton), None or [pobj, batch]
  phase,      \* host: "idle", "lock" (external locks), "run", "unlock"
  held,       \* host: table -> thr lock type granted to the statement of s
  extLocked,  \* host: tables of s whose external_lock(F_*LCK) has returned
  rowBuf,     \* host: row last returned to s by index_read, or None
  intent,     \* history: row operations s issued in this lock scope
  lost        \* history: indices of intent[s] that update a row another
              \* session has overwritten since s read it

vars == <<store, durable, trx, phase, held, extLocked, rowBuf, intent, lost>>
host == <<phase, held, extLocked>>

-----------------------------------------------------------------------------
(* Lock types and the host's lock manager.                                 *)

ReqLocks == {"TL_READ", "TL_WRITE"}
\* Commands for which store_lock keeps TL_WRITE (lines 945-950).
KeepWriteLock == {"LOCK_TABLES", "TRUNCATE", "OPTIMIZE", "CREATE_TABLE"}

\* ha_ldb::store_lock: a write lock of an ordinary statement becomes
\* TL_WRITE_ALLOW_WRITE, which lets other writers in.
StoreLockAlways(lt, c) ==
  IF lt = "TL_WRITE" THEN "TL_WRITE_ALLOW_WRITE" ELSE lt

StoreLock(lt, c) ==
  IF lt = "TL_WRITE" /\ c \notin KeepWriteLock
  THEN "TL_WRITE_ALLOW_WRITE"
  ELSE lt

\* thr_lock: TL_WRITE excludes every other lock; TL_READ and
\* TL_WRITE_ALLOW_WRITE are compatible with each other.
Compatible(a, b) == a /= "TL_WRITE" /\ b /= "TL_WRITE"

WriteLocks == {"TL_WRITE", "TL_WRITE_ALLOW_WRITE"}

NoLocks == [t \in {} |-> "TL_READ"]

-----------------------------------------------------------------------------
(* The LevelDB write batch and its application (leveldb::WriteBatch,       *)
(* DB::Write: all operations, in order, or none).                          *)

PutOp(k, v) == [op |-> "put", key |-> k, val |-> v]
DelOp(k)    == [op |-> "del", key |-> k, val |-> Absent]

ApplyOp(db, o) == [db EXCEPT ![o.key] = IF o.op = "put" THEN o.val ELSE Absent]
ApplyBatch(db, b) == FoldLeft(ApplyOp, db, b)

\* The operations each row call appends to trx->batch.
WriteRowOps(k, v) == <<PutOp(k, v)>>

\* update_row without the Delete of the old key.
UpdateRowOpsNoDelete(oldKey, newKey, v) == WriteRowOps(newKey, v)

UpdateRowOps(oldKey, newKey, v) ==
  (IF oldKey /= newKey THEN <<DelOp(oldKey)>> ELSE <<>>) \o WriteRowOps(newKey, v)

DeleteRowOps(k) == <<DelOp(k)>>

-----------------------------------------------------------------------------

Init ==
  /\ store = [t \in Tables |-> [k \in Keys |-> Absent]]
  /\ durable = store
  /\ trx = [s \in Sessions |-> None]
  /\ phase = [s \in Sessions |-> "idle"]
  /\ held = [s \in Sessions |-> NoLocks]
  /\ extLocked = [s \in Sessions |-> {}]
  /\ rowBuf = [s \in Sessions |-> None]
  /\ intent = [s \in Sessions |-> <<>>]
  /\ lost = [s \in Sessions |-> {}]

\* mysql_lock_tables: thr_multi_lock grants the statement's locks once they
\* are compatible with those of every other session.
BeginStmt(s) ==
  /\ phase[s] = "idle"
  /\ \E tabs \in SUBSET Tables, c \in Cmds, req \in [Tables -> ReqLocks] :
       LET grant == [t \in tabs |-> StoreLock(req[t], c)] IN
       /\ tabs /= {}
       /\ Cardinality(tabs) <= MaxStmtTables
       /\ \A o \in Sessions \ {s} :
            \A t \in tabs \cap DOMAIN held[o] : Compatible(grant[t], held[o][t])
       /\ held' = [held EXCEPT ![s] = grant]
  /\ phase' = [phase EXCEPT ![s] = "lock"]
  /\ UNCHANGED <<store, durable, trx, extLocked, rowBuf, intent, lost>>

\* new trx_t (trx->pobj left unset).
NewTrxNoPobj(t) == [pobj |-> None, batch |-> <<>>]

\* new trx_t; trx->pobj= this.
NewTrx(t) == [pobj |-> t, batch |-> <<>>]

\* ha_ldb::external_lock, lock_type != F_UNLCK: the first lock of the
\* session creates its trx_t, owned by this handler (trx->pobj= this).
ExternalLock(s, t) ==
  /\ phase[s] = "lock"
  /\ t \in DOMAIN held[s] \ extLocked[s]
  /\ trx' = IF trx[s] = None
            THEN [trx EXCEPT ![s] = NewTrx(t)]
            ELSE trx
  /\ extLocked' = [extLocked EXCEPT ![s] = @ \cup {t}]
  /\ phase' = [phase EXCEPT ![s] =
                 IF extLocked'[s] = DOMAIN held[s] THEN "run" ELSE "lock"]
  /\ UNCHANGED <<store, durable, held, rowBuf, intent, lost>>

CanRead(s, t)  == phase[s] = "run" /\ t \in extLocked[s]
CanWrite(s, t) == CanRead(s, t) /\ held[s][t] \in WriteLocks

\* ha_ldb::index_read: Get on the committed database; the batch of s is
\* not consulted.
IndexRead(s, t, k) ==
  /\ CanRead(s, t)
  /\ rowBuf' = [rowBuf EXCEPT ![s] =
                  IF store[t][k] = Absent THEN None
                  ELSE [tbl |-> t, key |-> k, stale |-> FALSE]]
  /\ UNCHANGED <<store, durable, trx, host, intent, lost>>

\* ha_ldb::index_next: STATUS_NOT_FOUND, HA_ERR_END_OF_FILE; the host's
\* index scan ends with no further row.
IndexNext(s, t) ==
  /\ CanRead(s, t)
  /\ rowBuf' = [rowBuf EXCEPT ![s] = None]
  /\ UNCHANGED <<store, durable, trx, host, intent, lost>>

\* index_prev/first/last, rnd_init/next/pos (and the scans DELETE without
\* WHERE and TRUNCATE fall back to): HA_ERR_WRONG_COMMAND.  The statement
\* fails and the host unlocks its tables; rows it staged before the call
\* stay in the batch and are written at the unlock.  rnd_end and position,
\* between them, return without changing anything.
UnsupportedCall(s, t) ==
  /\ CanRead(s, t)
  /\ phase' = [phase EXCEPT ![s] = "unlock"]
  /\ rowBuf' = [rowBuf EXCEPT ![s] = None]
  /\ UNCHANGED <<store, durable, trx, held, extLocked, intent, lost>>

\* Appends ops to the batch of s and records the row operation r the host
\* issued; isLost says r updates a row overwritten since it was read.
StageRow(s, ops, r, isLost) ==
  /\ Len(trx[s].batch) + Len(ops) <= MaxBatch
  /\ trx' = [trx EXCEPT ![s].batch = @ \o ops]
  /\ intent' = [intent EXCEPT ![s] = Append(@, r)]
  /\ lost' = IF isLost THEN [lost EXCEPT ![s] = @ \cup {Len(intent'[s])}]
             ELSE lost

\* ha_ldb::write_row (INSERT): trx->batch.Put(key, value).
WriteRow(s, t, k, v) ==
  /\ CanWrite(s, t)
  /\ StageRow(s, WriteRowOps(k, v),
              [tbl |-> t, kind |-> "ins", key |-> k, nkey |-> k, val |-> v], FALSE)
  /\ UNCHANGED <<store, durable, host, rowBuf>>

\* ha_ldb::update_row on the row last read: Delete(old_key) when the key
\* changes, then write_row(new_data).
UpdateRow(s, t, nk, v) ==
  /\ CanWrite(s, t)
  /\ rowBuf[s] /= None /\ rowBuf[s].tbl = t
  /\ StageRow(s, UpdateRowOps(rowBuf[s].key, nk, v),
              [tbl |-> t, kind |-> "upd", key |-> rowBuf[s].key, nkey |-> nk, val |-> v],
              rowBuf[s].stale)
  /\ rowBuf' = [rowBuf EXCEPT ![s] = None]
  /\ UNCHANGED <<store, durable, host>>

\* ha_ldb::delete_row on the row last read: trx->batch.Delete(key).
DeleteRow(s, t) ==
  /\ CanWrite(s, t)
  /\ rowBuf[s] /= None /\ rowBuf[s].tbl = t
  /\ StageRow(s, DeleteRowOps(rowBuf[s].key),
              [tbl |-> t, kind |-> "del", key |-> rowBuf[s].key, nkey |-> rowBuf[s].key,
               val |-> Absent], FALSE)
  /\ rowBuf' = [rowBuf EXCEPT ![s] = None]
  /\ UNCHANGED <<store, durable, host>>

\* The statement has issued its row calls.
EndStmt(s) ==
  /\ phase[s] = "run"
  /\ phase' = [phase EXCEPT ![s] = "unlock"]
  /\ rowBuf' = [rowBuf EXCEPT ![s] = None]
  /\ UNCHANGED <<store, durable, trx, held, extLocked, intent, lost>>

\* free_trx: delete the session's trx_t and clear thd_set_ha_data.
FreeTrx(s) == trx' = [trx EXCEPT ![s] = None]

\* wo, the file-scope leveldb::WriteOptions, as first constructed
\* (sync = false).
WriteOptionsDefault == FALSE

\* wo.sync: leveldb_open sets it on every open, and every table written is
\* open, so each DB::Write syncs the log before it returns.
WriteOptionsSync == TRUE

\* trx->pobj->share->db->Write(wo, &trx->batch) returning ok; with wo.sync
\* the batch is in the synced log and survives a crash.  The history
\* marks the rows other sessions have read or updated that it overwrites.
CommitBatch(s) ==
  LET t  == trx[s].pobj
      b  == trx[s].batch
      wk == {b[i].key : i \in DOMAIN b}
      Hit(r) == r.tbl = t /\ r.key \in wk
  IN
  /\ store' = [store EXCEPT ![t] = ApplyBatch(@, b)]
  /\ durable' = IF WriteOptionsSync THEN store' ELSE durable
  /\ rowBuf' = [o \in Sessions |->
                  IF o /= s /\ rowBuf[o] /= None /\ Hit(rowBuf[o])
                  THEN [rowBuf[o] EXCEPT !.stale = TRUE] ELSE rowBuf[o]]
  /\ lost' = [o \in Sessions |->
                IF o = s THEN {}
                ELSE lost[o] \cup {i \in DOMAIN intent[o] :
                                     intent[o][i].kind = "upd" /\ Hit(intent[o][i])}]

\* DB::Write returning a non-ok status: nothing of the batch is applied.
FailBatch(s) ==
  /\ WriteMayFail
  /\ lost' = [lost EXCEPT ![s] = {}]
  /\ UNCHANGED <<store, durable, rowBuf>>

\* ha_ldb::external_lock(F_UNLCK).  With no trx_t it returns 1; otherwise
\* it writes the batch and frees the trx_t, whatever the status.
ExternalUnlock(s, t) ==
  /\ phase[s] = "unlock"
  /\ t \in extLocked[s]
  /\ \/ /\ trx[s] = None
        /\ UNCHANGED <<store, durable, trx, rowBuf, intent, lost>>
     \/ /\ trx[s] /= None
        /\ CommitBatch(s) \/ FailBatch(s)
        /\ FreeTrx(s)
        /\ intent' = [intent EXCEPT ![s] = <<>>]
  /\ extLocked' = [extLocked EXCEPT ![s] = @ \ {t}]
  \* mysql_unlock_tables: thr locks go after the last external unlock.
  /\ IF extLocked'[s] = {}
     THEN /\ phase' = [phase EXCEPT ![s] = "idle"]
          /\ held' = [held EXCEPT ![s] = NoLocks]
     ELSE UNCHANGED <<phase, held>>

\* The machine crashes and mysqld restarts: every THD, trx_t and table lock
\* is gone, and each DB recovers from its log what was synced.
Crash ==
  /\ MayCrash
  /\ store' = durable
  /\ trx' = [s \in Sessions |-> None]
  /\ phase' = [s \in Sessions |-> "idle"]
  /\ held' = [s \in Sessions |-> NoLocks]
  /\ extLocked' = [s \in Sessions |-> {}]
  /\ rowBuf' = [s \in Sessions |-> None]
  /\ intent' = [s \in Sessions |-> <<>>]
  /\ lost' = [s \in Sessions |-> {}]
  /\ UNCHANGED durable

Next ==
  \/ Crash
  \/ \E s \in Sessions :
    \/ BeginStmt(s)
    \/ EndStmt(s)
    \/ \E t \in Tables :
         \/ ExternalLock(s, t)
         \/ ExternalUnlock(s, t)
         \/ DeleteRow(s, t)
         \/ IndexNext(s, t)
         \/ UnsupportedCall(s, t)
         \/ \E k \in Keys :
              \/ IndexRead(s, t, k)
              \/ \E v \in Vals : WriteRow(s, t, k, v) \/ UpdateRow(s, t, k, v)

Spec == Init /\ [][Next]_vars

-----------------------------------------------------------------------------
(* Properties                                                              *)

TypeOK ==
  /\ store \in [Tables -> [Keys -> Vals \cup {Absent}]]
  /\ durable \in [Tables -> [Keys -> Vals \cup {Absent}]]
  /\ trx \in [Sessions -> {None} \cup
               [pobj: Tables, batch: Seq([op: {"put", "del"}, key: Keys,
                                          val: Vals \cup {Absent}])]]
  /\ phase \in [Sessions -> {"idle", "lock", "run", "unlock"}]
  /\ \A s \in Sessions : DOMAIN held[s] \subseteq Tables
  /\ extLocked \in [Sessions -> SUBSET Tables]
  /\ \A s \in Sessions : extLocked[s] \subseteq DOMAIN held[s]

\* The engine implements what it promises (BatchedTable): when a session
\* releases its locks, ha_ldb::external_lock writes exactly the row
\* operations write_row/update_row/delete_row staged in that lock scope, to
\* the tables they were issued against, in order, all or none.
Abs == INSTANCE BatchedTable WITH tables <- store, pending <- intent
Refinement == Abs!Spec

\* No lost update: no session holds a staged update of a row that another
\* session's commit overwrote after the row was read by index_read (the
\* isolation the host's write lock is meant to give; store_lock decides it).
NoLostUpdate == \A s \in Sessions : lost[s] = {}

=============================================================================
