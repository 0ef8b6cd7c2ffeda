SPECIFICATION Spec
CONSTANTS
  l1 = l1
  l2 = l2
  Links = {l1}
  SlotOf <- OwnSlots
  FailClosed = TRUE
  Repair = 1
  Drifts = {}
  MaxChanges = 0
  MaxFaults = 0
  MaxStops = 2
  NoMark = NoMark
  Blocked = Blocked
  Nothing = Nothing
INVARIANTS BlockedThroughGap
