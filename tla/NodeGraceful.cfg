CONSTANTS
  d = d
  r = r
  p1 = p1
  p2 = p2
  ip1 = ip1
  ip2 = ip2
  t1 = t1
  t2 = t2
  Pods = {p1, p2}
  Nodes <- MCNodes
  DataNodes <- MCDataNodes
  NodeOf <- LocalAndRemote
  Uids <- MCUids
  IPs = {ip1}
  None = None
  EnvOps = {"graceful"}
  Threads = {t1, t2}
  FaultKinds = {}
  MaxFaults = 0
  HidingNodes = {}
  SetMode = TRUE
  Plugins <- MCPlugins
  DataDir = "local-volume"
  PodVolumeDirs <- InTreeDirs
SPECIFICATION FairSpec

PROPERTY LastUnmountCleansUp
