\* VARCHAR(2) key with one length byte and a one-byte column after it;
\* values of the full declared length, NUL bytes included.  The record is
\* 5 bytes and MIN_COMPRESS_LENGTH is scaled to 5, so records with trailing
\* zeros are stored compressed and the others raw.  Both INSERT forms.
CONSTANTS
  Bytes = {0, 1, 2}
  ValueLens = {2}
  KeyLen = 2
  KeyType = "VARTEXT1"
  KeyOffset = 1
  TailLen = 1
  MinCompressLength = 5
  InsertForms = {"columns", "values"}
  None = None
SPECIFICATION Spec
INVARIANT TypeOK
INVARIANT RoundTrip
