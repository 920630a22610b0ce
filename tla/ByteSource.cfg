SPECIFICATION SourceSpec
CONSTANTS
  Starts <- MCStarts
  FirstFresh = 5
  U64Max = 6
  Deltas <- MCDeltas
  Buffers = {1, 3}
  Meddles = 1
PROPERTIES
    ReaderIsBound
    ReadsAsOneSlice
