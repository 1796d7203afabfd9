CONSTANTS
  NumTerminals <- BugTerminals
  MaxSlots     <- BugSlots
SPECIFICATION Spec
PROPERTY
  WokenByOwnChild
