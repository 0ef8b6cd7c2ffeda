SPECIFICATION FairSpec
CONSTANTS
  n1 = n1
  n2 = n2
  Nodes = {n1, n2}
  Keys = {1, 2}
  Peers <- MCPeers
  NSlots = 2
  BadSlots = {}
  MaxAge = 0
  MaxChanges = 1
  MaxFaults = 0
  Free = Free
  Malformed = Malformed
PROPERTIES Settles
