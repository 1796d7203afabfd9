CONSTANTS
  NumClusters  = 10
  ClusterSize  = 2
  CountSize    = 1
  EntrySize    = 1
  WordSize     = 1024
  Names        <- MCNames
  Bytes        <- MCBytes
  DefaultFiles <- MCDefaultFiles
  Stdouts      <- MCStdouts
  Buffers      <- MCBuffers
  Procs        <- MCTwoProcs
  MaxOpen      = 2
  MaxFileSize  = 6
SPECIFICATION Spec
INVARIANTS HeldFilesStayOpen
