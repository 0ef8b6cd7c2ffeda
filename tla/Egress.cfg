SPECIFICATION FairSpec
CONSTANTS
  p1 = p1
  p2 = p2
  x = x
  Nodes = {1, 2}
  Pods = {p1, p2}
  Egresses = {1, 2}
  Classes = {1}
  Labels = {x}
  PoolSize = 1
  Moves = {"egress", "pod", "relabel", "node", "class", "host"}
  MaxChanges = 1
  MaxFaults = 1
  Absent = Absent
  NoNode = NoNode
  Blocked = Blocked
INVARIANTS TypeOK OneDevice
PROPERTIES StaysHeld EgressSettles
CHECK_DEADLOCK FALSE
