CONSTANTS
  PageSize <- MCPageSize
  Entries <- MCEntries
  StackTable <- MCStackTable
  Programs <- SpecScenario
SPECIFICATION Spec
CHECK_DEADLOCK FALSE
INVARIANT SegmentBytesLoaded
