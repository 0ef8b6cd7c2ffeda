SPECIFICATION Spec
CONSTANTS
  Names = {1, 2, 3}
  Classes = {"c1", "c2"}
  Protocols = {"tcp", "udp"}
  Services = {"http"}
  Ports = {1, 2}
  MinPort = 1
  MaxPort = 2
  Reserved = {}
  Flaws = {"None"}
  Nodes = {1}
  ClassNodes <- OneNode
  Multi = {}
  NoReturn = {}
  Pods = {1}
  PodService <- OnePodService
  PodNode <- OnePodNode
  PodPort <- OnePodPort
  MaxSeconds = 1
  Absent = Absent
INVARIANTS HeldDisjoint ConflictHasHolder OneReturnRule LoopDecides
PROPERTIES LaterChangesNothing
