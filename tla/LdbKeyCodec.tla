------------------------------ MODULE LdbKeyCodec ------------------------------
(***************************************************************************)
(* How ha_ldb turns the table's single VARCHAR/VARBINARY key part into a   *)
(* LevelDB key and a row into a LevelDB value, at the byte level:          *)
(* ha_ldb::get_key and my_compress on the host's record buffer record[0]   *)
(* (write_row, update_row, delete_row), and index_read's key cut from the  *)
(* host's key image, Get, memcpy into record[0] and my_uncompress.  Every  *)
(* row call is applied at once: the batching of LdbTrx is orthogonal to    *)
(* the byte layout.                                                        *)
(*                                                                         *)
(* record[0] holds KeyOffset leading bytes (the null bitmap), the key      *)
(* field's length prefix (LenBytes bytes, little-endian), KeyLen data      *)
(* bytes of which the first Len(value) are the value, and TailLen bytes of *)
(* the row's other, fixed-length columns (0 in the workload).  The bytes   *)
(* past the value are whatever record[0] held: write_row compresses it in  *)
(* place, index_read copies a stored value over it, an UPDATE stores the   *)
(* new value into the row as read, and an INSERT either restores the       *)
(* table defaults first or (VALUES without a column list) only byte 0.     *)
(*                                                                         *)
(* zlib is represented by a lossless stand-in with the same contract: a    *)
(* stream starts with the byte ZlibMagic, which no record starts with,     *)
(* and compresses the record's trailing zero bytes to a count.             *)
(***************************************************************************)
EXTENDS Integers, Sequences, SequencesExt, FiniteSets, TLC

CONSTANTS
  Bytes,       \* byte values a key value may contain (0 is NUL)
  ValueLens,   \* lengths the key values of the workload have
  KeyLen,      \* key_part->length: declared maximum data length
  KeyType,     \* key_part->type (Field_varstring::key_type())
  KeyOffset,   \* key_part->offset: bytes before the field in the record
  TailLen,     \* bytes of the other columns after the key field
  MinCompressLength, \* MIN_COMPRESS_LENGTH of my_compress (50, scaled)
  InsertForms, \* "columns": INSERT ... (cols) VALUES; "values": no column list
  None         \* no row

ASSUME /\ ValueLens \subseteq 0..KeyLen /\ KeyOffset \in 1..2 /\ TailLen \in Nat
       /\ KeyType \in {"VARTEXT1", "VARBINARY1", "VARTEXT2", "VARBINARY2"}
       /\ InsertForms \subseteq {"columns", "values"} /\ InsertForms /= {}

\* The SQL values of the key column (binary collation: byte strings).
Values == UNION {[1..n -> Bytes] : n \in ValueLens}

\* length_bytes of the field: the type says how long its prefix is.
LenBytes == IF KeyType \in {"VARTEXT1", "VARBINARY1"} THEN 1 ELSE 2

Zeros(n) == [i \in 1..n |-> 0]

\* The length prefix of the field, as int2store/one byte writes it.
LenPrefix(n) == IF LenBytes = 1 THEN <<n>> ELSE <<n % 256, n \div 256>>

\* table->s->rec_buff_length.
RecLen == KeyOffset + LenBytes + KeyLen + TailLen
TailStart == KeyOffset + LenBytes + KeyLen

\* The value stored in a record's key field.
FieldValue(rec) ==
  LET p == SubSeq(rec, KeyOffset + 1, KeyOffset + LenBytes)
      n == IF LenBytes = 1 THEN p[1] ELSE p[1] + 256 * p[2]
  IN SubSeq(rec, KeyOffset + LenBytes + 1, KeyOffset + LenBytes + n)

\* Field_varstring::store into a record buffer: the prefix and the value's
\* bytes are written, the bytes past the value stay as they were.
StoreField(rec, v) ==
  LET d == KeyOffset + LenBytes IN
  [i \in 1..RecLen |->
     IF i \in KeyOffset + 1..d THEN LenPrefix(Len(v))[i - KeyOffset]
     ELSE IF i \in d + 1..d + Len(v) THEN v[i - d]
     ELSE rec[i]]

\* fill_record of a whole row: the key field and the other columns (0).
StoreRow(rec, v) ==
  [i \in 1..RecLen |-> IF i > TailStart THEN 0 ELSE StoreField(rec, v)[i]]

\* restore_record(table, s->default_values): a zeroed record.
DefaultRecord == Zeros(RecLen)

\* The record[0] an INSERT of value v fills: the defaults, or (a VALUES
\* list without columns, mysql_insert) record[0] as it is with only its
\* first byte set from default_values.
InsertRecord(buf, v, form) ==
  StoreRow(IF form = "columns" THEN DefaultRecord ELSE [buf EXCEPT ![1] = 0], v)

\* The key image the host passes to index_read (key_copy,
\* Field_varstring::get_key_image): a 2-byte length, the value and zero
\* fill up to the declared length.  key_len is KeyLen + 2.
KeyImage(v) == <<Len(v) % 256, Len(v) \div 256>> \o v \o Zeros(KeyLen - Len(v))

ZlibMagic == 120

\* The stand-in for zlib's compress and uncompress.
Deflate(s) ==
  LET n == SelectLastInSeq(s, LAMBDA b : b /= 0)
  IN <<ZlibMagic, Len(s) - n>> \o SubSeq(s, 1, n)
Inflate(z) == SubSeq(z, 3, Len(z)) \o Zeros(z[2])

\* memcpy(buf, s, Len(s)): s over the first bytes of buf.
CopyOver(buf, s) == s \o SubSeq(buf, Len(s) + 1, Len(buf))

-----------------------------------------------------------------------------
(* The code                                                                *)

\* get_key testing only the two-byte key types.
GetKeyNoVarText1(buf) ==
  LET bitStart == IF KeyType \in {"VARTEXT2", "VARBINARY2"} THEN 2 ELSE 0
  IN SubSeq(buf, KeyOffset + bitStart + 1, KeyOffset + bitStart + KeyLen)

\* ha_ldb::get_key: key_part->length bytes after the length prefix.
GetKey(buf) ==
  LET bitStart == CASE KeyType \in {"VARTEXT1", "VARBINARY1"} -> 1
                    [] KeyType \in {"VARTEXT2", "VARBINARY2"} -> 2
                    [] OTHER -> 0
  IN SubSeq(buf, KeyOffset + bitStart + 1, KeyOffset + bitStart + KeyLen)

\* write_row's my_compress keeping the compressed form even when it is not
\* shorter than the record.
MyCompressAlways(buf) ==
  IF RecLen < MinCompressLength THEN [buf |-> buf, len |-> RecLen]
  ELSE LET z == Deflate(buf) IN [buf |-> CopyOver(buf, z), len |-> Len(z)]

\* write_row: raw_len= rec_buff_length; my_compress(buf, &raw_len, ..)
\* compresses buf in place when the record is at least MIN_COMPRESS_LENGTH
\* long and the compressed form is shorter, and sets raw_len to its length;
\* the value stored is the first raw_len bytes of buf.
MyCompress(buf) ==
  LET z == Deflate(buf) IN
  IF RecLen < MinCompressLength \/ Len(z) >= RecLen
  THEN [buf |-> buf, len |-> RecLen]
  ELSE [buf |-> CopyOver(buf, z), len |-> Len(z)]

\* ha_ldb::index_read: skey is the key image past HA_VAR_LENGTH_PART's two
\* length bytes, key_len - bit_start bytes.
IndexReadKey(key, keyLen) ==
  LET bitStart == 2 IN SubSeq(key, bitStart + 1, keyLen)

\* index_read after an ok Get: memcpy(buf, svalue) and my_uncompress(buf,
\* comlen, &uncomlen= rec_buff_length), which inflates a zlib stream of at
\* most rec_buff_length bytes over buf and otherwise fails, leaving buf as
\* copied.
ReadRow(buf, svalue) ==
  LET b == CopyOver(buf, svalue) IN
  IF b[1] = ZlibMagic /\ Len(Inflate(svalue)) <= RecLen
  THEN CopyOver(b, Inflate(svalue))
  ELSE b

VARIABLES
  db,       \* the LevelDB database: key bytes -> stored value
  recBuf,   \* host: record[0]
  hasRow,   \* host: record[0] holds the row index_read returned
  tbl       \* history: the key values the SQL table holds

vars == <<db, recBuf, hasRow, tbl>>

\* The record index_read(record[0], KeyImage(x), KeyLen + 2) returns for
\* value x: None on HA_ERR_END_OF_FILE (status not ok).
Lookup(x) ==
  LET k == IndexReadKey(KeyImage(x), KeyLen + 2) IN
  IF k \in DOMAIN db THEN ReadRow(recBuf, db[k]) ELSE None

\* write_row(buf): Put(get_key(buf), compressed buf); buf is left
\* compressed.
WriteRowEffect(buf, dbWithout) ==
  LET c == MyCompress(buf) IN
  /\ db' = (GetKey(buf) :> SubSeq(c.buf, 1, c.len)) @@ dbWithout
  /\ recBuf' = c.buf

Init ==
  /\ db = [k \in {} |-> <<>>]
  /\ recBuf = DefaultRecord
  /\ hasRow = FALSE
  /\ tbl = {}

\* INSERT of one row: fill record[0], write_row(record[0]).
WriteRow(v, form) ==
  /\ WriteRowEffect(InsertRecord(recBuf, v, form), db)
  /\ tbl' = tbl \cup {v}
  /\ hasRow' = FALSE

\* index_read(record[0], KeyImage(x), KeyLen + 2, HA_READ_KEY_EXACT).
IndexRead(x) ==
  LET r == Lookup(x) IN
  /\ hasRow' = (r /= None)
  /\ recBuf' = IF r = None THEN recBuf ELSE r
  /\ UNCHANGED <<db, tbl>>

\* UPDATE of the row read: record[1] (old_data) is a copy of it, the new
\* value is stored into record[0] (new_data); mysql_update calls
\* update_row only when the records differ.  update_row: Delete(old_key)
\* if the keys differ, then write_row(new_data).
UpdateRow(nv) ==
  LET new == StoreField(recBuf, nv) IN
  /\ hasRow /\ new /= recBuf
  /\ WriteRowEffect(new, [j \in DOMAIN db \ {GetKey(recBuf)} |-> db[j]])
  /\ tbl' = (tbl \ {FieldValue(recBuf)}) \cup {nv}
  /\ hasRow' = FALSE

\* DELETE of the row read: delete_row(record[0]) deletes get_key(record).
DeleteRow ==
  /\ hasRow
  /\ db' = [j \in DOMAIN db \ {GetKey(recBuf)} |-> db[j]]
  /\ tbl' = tbl \ {FieldValue(recBuf)}
  /\ hasRow' = FALSE
  /\ UNCHANGED recBuf

Next ==
  \/ \E v \in Values :
       \/ \E form \in InsertForms : WriteRow(v, form)
       \/ IndexRead(v)
       \/ UpdateRow(v)
  \/ DeleteRow

Spec == Init /\ [][Next]_vars

-----------------------------------------------------------------------------
(* Properties                                                              *)

TypeOK ==
  /\ \A k \in DOMAIN db : db[k] \in Seq(Nat)
  /\ recBuf \in [1..RecLen -> Nat]
  /\ hasRow \in BOOLEAN
  /\ tbl \subseteq Values

\* Round trip (spec.md 8): after any sequence of INSERT, UPDATE and DELETE
\* through get_key and my_compress, index_read of every key value, into
\* record[0] as it is, returns exactly the row with that value when the
\* table holds one, and no row otherwise.
RoundTrip ==
  \A x \in Values :
    LET r == Lookup(x) IN
    IF x \in tbl THEN r /= None /\ FieldValue(r) = x ELSE r = None

=============================================================================
