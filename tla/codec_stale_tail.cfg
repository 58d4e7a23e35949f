\* VARCHAR(2) key with values of length 1 and 2 and both INSERT forms, with
\* the real MIN_COMPRESS_LENGTH (records are stored raw): bytes past a
\* shorter value are left over in record[0], and get_key keeps them.
CONSTANTS
  Bytes = {1, 2}
  ValueLens = {1, 2}
  KeyLen = 2
  KeyType = "VARTEXT1"
  KeyOffset = 1
  TailLen = 1
  MinCompressLength = 50
  InsertForms = {"columns", "values"}
  None = None
SPECIFICATION Spec
INVARIANT RoundTrip
