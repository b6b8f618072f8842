CONSTANTS
  d = d
  r = r
  p1 = p1
  p2 = p2
  ip1 = ip1
  ip2 = ip2
  t1 = t1
  t2 = t2
  Pods = {p1, p2}
  Nodes <- MCNodes
  DataNodes <- MCNodes
  NodeOf <- LocalAndRemote
  Uids <- MCUids
  IPs = {ip1, ip2}
  None = None
  EnvOps = {"forced", "deletePV", "deleteDataPVC"}
  Threads = {t1, t2}
  FaultKinds = {"api", "crash", "mount", "fs", "slow"}
  MaxFaults = 2
  HidingNodes = {r}
  SetMode = TRUE
  Plugins <- MCPlugins
  DataDir = "local-volume"
  PodVolumeDirs <- InTreeDirs
SPECIFICATION Spec
SYMMETRY ThreadSymmetry
INVARIANTS PublishedHasServer NoStackedMounts DoneMeansUnmounted
PROPERTIES ExportRefined
