CONSTANTS
  p1 = p1
  p2 = p2
  p3 = p3
  Procs <- MCProcs
  NumFrames <- MCNumFrames
  BootUsed <- MCBootUsed
  Entries <- MCEntries
  KernelTables <- MCKernelTables
  HeapTables <- MCHeapTables
  ImagePages <- MCImagePages
  ImageCopied <- MCImageCopied
SYMMETRY Symmetry
SPECIFICATION Spec
INVARIANT AddressSpaceReclaimed
