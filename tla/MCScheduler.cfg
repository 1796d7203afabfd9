CONSTANTS
  NumTerminals <- SafetyTerminals
  MaxSlots     <- SafetySlots
SPECIFICATION Spec
INVARIANTS
  TypeOK
  EveryProcessInOnePlace
  PidTableMatchesProcesses
  LatestIsLive
  RescheduleKeepsOrder
PROPERTIES
  RefinesAbstractScheduler
VIEW SafetyView
