CONSTANTS
  HeapSize   <- MCHeapSize
  HeaderSize <- MCHeaderSize
  Requests   <- MCRequests
SPECIFICATION Spec
INVARIANTS
  TypeOK
  ChainTilesHeap
  LiveBlocksAllocated
PROPERTIES
  RefinesAbstractHeap
