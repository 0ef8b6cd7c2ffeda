SPECIFICATION FairSpec
CONSTANTS
  n1 = n1
  n2 = n2
  Nodes = {n1, n2}
  FirstNode = n1
  MaxTries = 2
  MaxChanges = 1
  MaxFaults = 1
  NoRow = NoRow
INVARIANTS TypeOK
PROPERTIES OwnRowOnly StatusSettles
CHECK_DEADLOCK FALSE
