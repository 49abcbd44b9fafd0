SPECIFICATION Spec
CONSTANTS
  NoTimeout = NoTimeout
  NoFile = NoFile
  Minute = 3
  Longest = 4
  Grace = 2
  Chunk = 2
  RawTimeouts <- MCRawTimeouts
  Body <- MCBody
  Old <- MCOld
  Kinds = {"a", "e", "t", "k", "u", "bad"}
  BAD = "bad"
  Missing = {"u"}
  Foreign <- MCForeign
  Utf8 <- MCUtf8
  Texts <- MCTexts
  ChunkBytes = 4
  OutBytes = 8
  KeepBytes = 1
  BlockBytes = 6
  JoinBytes = 4
  NULL = NULL
  Tables <- FewTables
  Delims = {",", "-"}
  Readers <- MCReaders
INVARIANT
  QuotedFieldsDoNotRoundTrip
