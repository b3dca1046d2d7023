\* Every cut of every stream of up to three commands, for both programs.
SPECIFICATION FairSpec
CONSTANTS
  None = None
  Sent <- MCSent
  MaxSent = 3
  BufferSize <- MCBufferSize
CHECK_DEADLOCK FALSE
INVARIANTS ParsesAsModelled ClientTakesWhole
PROPERTY ClientTakesAll
