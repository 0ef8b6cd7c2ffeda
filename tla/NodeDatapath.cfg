SPECIFICATION FairSpec
CONSTANTS
  l1 = l1
  l2 = l2
  Links = {l1, l2}
  SlotOf <- OwnSlots
  FailClosed = TRUE
  Repair = 1
  Drifts = {"moved", "wrong"}
  MaxChanges = 2
  MaxFaults = 2
  MaxStops = 2
  NoMark = NoMark
  Blocked = Blocked
  Nothing = Nothing
INVARIANTS TypeOK AppliedMatches KeptBlocked
PROPERTIES CommitOverLiveLink HostSettles
