SPECIFICATION Spec
CONSTANTS
  BLOCK_LEN = 2
  CHUNK_LEN = 8
  Word = 32
  MAX_DEPTH = 6
  Hosts <- MCHosts
  Contexts = {17}
  Lens = {0, 1, 3, 8, 16, 24, 40, 128, 256}
  MaxTotal = 512
  Requests <- MCRequests
INVARIANTS
  StackIsBinary
  HashIsTree
  BackEndsAgree
CHECK_DEADLOCK FALSE
