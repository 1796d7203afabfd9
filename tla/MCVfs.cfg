CONSTANTS
  NumClusters  = 11
  ClusterSize  = 2
  CountSize    = 1
  EntrySize    = 2
  WordSize     = 1024
  Names        <- MCNames
  Bytes        <- MCBytes
  DefaultFiles <- MCDefaultFiles
  Stdouts      <- MCStdouts
  Buffers      <- MCBuffers
  Procs        <- MCOneProc
  MaxOpen      = 1
  MaxFileSize  = 6
SPECIFICATION Spec
INVARIANTS TypeOK ChainsDisjoint OpenFilesHaveHolder StdoutsPersist RootFolderLoads ShellIgnoresStaleBuffer ShellFollowsHelp
VIEW StructureView
