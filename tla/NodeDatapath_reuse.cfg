SPECIFICATION FairSpec
CONSTANTS
  l1 = l1
  l2 = l2
  Links = {l1, l2}
  SlotOf <- OneSlot
  FailClosed = FALSE
  Repair = 1
  Drifts = {}
  MaxChanges = 1
  MaxFaults = 0
  MaxStops = 0
  NoMark = NoMark
  Blocked = Blocked
  Nothing = Nothing
PROPERTIES HostSettles
