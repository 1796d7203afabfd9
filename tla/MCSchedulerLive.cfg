CONSTANTS
  NumTerminals <- LivenessTerminals
  MaxSlots     <- LivenessSlots
SPECIFICATION Spec
PROPERTIES
  ReadyEventuallyRuns
