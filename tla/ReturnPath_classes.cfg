SPECIFICATION RPSpec
CONSTANTS
  Names = {1, 2}
  Classes = {"c1", "c2"}
  Protocols = {"tcp"}
  Services = {"http"}
  Ports = {1}
  MinPort = 1
  MaxPort = 1
  Reserved = {}
  Flaws = {"None"}
  Nodes = {1, 2, 3}
  ClassNodes <- TwoClassNodes
  Multi = {}
  NoReturn = {}
  Pods = {1}
  PodService <- OneService
  PodNode <- MCPodNode
  PodPort <- TwoPodPort
  MaxSeconds = 0
  Absent = Absent
  Offered <- TwoOffered
  NodeSets <- TwoNodeSets
  Ifaces <- TwoIfaces
  Slots = {0, 1}
  Pods6 = {}
  Forward6 = {}
  MTU <- MCMTU
  LocalAddrs <- MCLocalAddrs
  MaxChanges = 3
  None = None
INVARIANTS RepliesReturn
