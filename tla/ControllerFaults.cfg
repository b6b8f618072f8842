CONSTANTS
  t1 = t1
  t2 = t2
  Volumes <- MCVolumes
  Classes <- MCClasses
  Parameters <- MCParameters
  Namespace <- MCNamespace
  Absent = Absent
  Threads = {t1, t2}
  FaultKinds = {"api", "list", "crash", "deadline"}
  MaxFaults = 1
  MaxChanges = 1
SPECIFICATION FairSpec
INVARIANTS TypeOK PVHasData OwnData DataClassHonoured
PROPERTIES ClaimsServed ClaimServed
