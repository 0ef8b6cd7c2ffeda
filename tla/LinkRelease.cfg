SPECIFICATION TimelySpec
CONSTANTS
  n1 = n1
  n2 = n2
  Nodes = {n1, n2}
  Keys = {1}
  Peers <- MCPeers
  NSlots = 2
  BadSlots = {}
  MaxAge = 1
  MaxChanges = 4
  MaxFaults = 1
  Free = Free
  Malformed = Malformed
SYMMETRY Symmetry
PROPERTIES QuietBeforeRelease
