SPECIFICATION RPSpec
CONSTANTS
  Names = {1, 2}
  Classes = {"single", "multi", "none", "gone"}
  Protocols = {"tcp"}
  Services = {"http", "web"}
  Ports = {1, 2, 3}
  MinPort = 1
  MaxPort = 3
  Reserved = {}
  Flaws = {"None", "ClassNotFound"}
  Nodes = {1, 2, 3}
  ClassNodes <- MCClassNodes
  Multi = {"multi"}
  NoReturn = {"none"}
  Pods = {1, 2, 3}
  PodService <- MCPodService
  PodNode <- MCPodNode
  PodPort <- MCPodPort
  MaxSeconds = 0
  Absent = Absent
  Offered <- MCOffered
  NodeSets <- MCNodeSets
  Ifaces <- MCIfaces
  Slots = {0, 255, 256}
  Pods6 = {1, 2}
  Forward6 = {1, 2, 3}
  MTU <- MCMTU
  LocalAddrs <- MCLocalAddrs
  MaxChanges = 4
  None = None
INVARIANTS RepliesReturn FlowsByRole ProgrammedServes WayBack LocalFirst OneWriter
