CONSTANTS
  Bytes <- MCBytes
  Keyword <- MCKeyword
  StaticSize = 2
  Files <- MCFiles
  BufferSize = 1
  BufferFrontload = 3
  MaxSeeks = 1

SPECIFICATION Spec

INVARIANTS
  TokensReadBack

PROPERTIES
  PlainReader
  ReaderStops

\* The reader stops at the end of the file.
CHECK_DEADLOCK FALSE
