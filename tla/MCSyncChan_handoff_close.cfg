CONSTANTS
  Thread = {1, 2, 3, 4}
  Uses <- ClosingUses
  MaxCalls = 2
SPECIFICATION Spec
INVARIANT ExactlyOnce
CHECK_DEADLOCK FALSE
