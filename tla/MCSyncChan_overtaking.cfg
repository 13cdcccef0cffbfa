CONSTANTS
  Thread = {1, 2, 3, 4}
  Uses <- OvertakingUses
  MaxCalls = 3
SPECIFICATION Spec
INVARIANT SlotOrder
CHECK_DEADLOCK FALSE
