SPECIFICATION Spec
CONSTANTS
  n1 = n1
  n2 = n2
  Nodes = {n1, n2}
  Keys = {1, 2}
  Peers <- MCPeers
  NSlots = 3
  BadSlots = {1}
  MaxAge = 0
  MaxChanges = 1
  MaxFaults = 1
  Free = Free
  Malformed = Malformed
SYMMETRY Symmetry
INVARIANTS TypeOK NoSharedSlot Coherent
PROPERTIES LinksLeaveUnusedOrDuplicate ImplementsLease
