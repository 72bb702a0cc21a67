SPECIFICATION Spec
CONSTANTS
  MaxChanges = 3
  MaxSlot = 2
  MaxSubs = 2
  Touches <- MCTouches
INVARIANTS VaultTypeOK ReserveIsBalance
PROPERTY ReservesGoForward
CHECK_DEADLOCK FALSE
