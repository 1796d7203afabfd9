CONSTANTS
  NumTerminals <- BugTerminals
  MaxSlots     <- BugSlots
SPECIFICATION Spec
INVARIANT
  KeyboardHeadIsFocused
