CONSTANTS
  Images = {"nfs-server", "nfs-ganesha"}
  FaultKinds = {"command", "die", "kill"}
  MaxFaults = 3
SPECIFICATION FairSpec
INVARIANTS TypeOK WatchedIsExported CleanStop
PROPERTIES ServiceRefined ServesAtLast
