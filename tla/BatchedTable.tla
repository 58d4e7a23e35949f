---------------------------- MODULE BatchedTable ----------------------------
(***************************************************************************)
(* What the LEVELDB engine promises its host (spec.md sections 3 and 4.4): *)
(* the row operations a session issues while it holds its table locks stay *)
(* pending and, when the session releases its locks, are applied to the    *)
(* tables they were issued against, in issue order, all of them or none.   *)
(*                                                                         *)
(* A row operation is a record [tbl, kind, key, nkey, val]:                *)
(*   "ins"  the row (key, val) is written (an existing key is replaced);   *)
(*   "upd"  the row at key is replaced by the row (nkey, val);             *)
(*   "del"  the row at key is removed.                                     *)
(***************************************************************************)
EXTENDS Sequences, SequencesExt

CONSTANTS
  Sessions,   \* host sessions (THDs)
  Tables,     \* table names
  Keys,       \* values of the table's single unique key
  Vals,       \* non-key contents of a row
  Absent      \* marks a key with no row

VARIABLES
  tables,     \* tables[t][k]: the row contents stored under key k of table t
  pending     \* pending[s]: the row operations of s not yet applied

RowOps ==
  [tbl: Tables, kind: {"ins"}, key: Keys, nkey: Keys, val: Vals]
    \cup [tbl: Tables, kind: {"upd"}, key: Keys, nkey: Keys, val: Vals]
    \cup [tbl: Tables, kind: {"del"}, key: Keys, nkey: Keys, val: {Absent}]

\* The table after one row operation.
ApplyRow(db, r) ==
  CASE r.kind = "ins" -> [db EXCEPT ![r.key] = r.val]
    [] r.kind = "upd" -> [[db EXCEPT ![r.key] = Absent] EXCEPT ![r.nkey] = r.val]
    [] r.kind = "del" -> [db EXCEPT ![r.key] = Absent]

\* The table after a sequence of row operations, first to last.
ApplyRows(db, rs) == FoldLeft(ApplyRow, db, rs)

\* The operations of rs issued against table t, in issue order.
OnTable(rs, t) == SelectSeq(rs, LAMBDA r : r.tbl = t)

Init ==
  /\ tables = [t \in Tables |-> [k \in Keys |-> Absent]]
  /\ pending = [s \in Sessions |-> <<>>]

Issue(s, r) ==
  /\ pending' = [pending EXCEPT ![s] = Append(@, r)]
  /\ UNCHANGED tables

\* Lock release with a successful write: every table receives its own
\* operations of s at once.
Apply(s) ==
  /\ tables' = [t \in Tables |-> ApplyRows(tables[t], OnTable(pending[s], t))]
  /\ pending' = [pending EXCEPT ![s] = <<>>]

\* Lock release with a failed write: nothing of s is applied.
Discard(s) ==
  /\ pending' = [pending EXCEPT ![s] = <<>>]
  /\ UNCHANGED tables

\* The host crashes: every session's pending operations are lost, and the
\* tables keep exactly what was applied (the store's durability, spec.md 4.4).
Crash ==
  /\ pending' = [s \in Sessions |-> <<>>]
  /\ UNCHANGED tables

Next ==
  \/ \E s \in Sessions :
       \/ \E r \in RowOps : Issue(s, r)
       \/ Apply(s)
       \/ Discard(s)
  \/ Crash

Spec == Init /\ [][Next]_<<tables, pending>>

=============================================================================
