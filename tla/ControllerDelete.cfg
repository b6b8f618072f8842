CONSTANTS
  t1 = t1
  t2 = t2
  Volumes <- MCVolumes
  Classes <- MCClasses
  Parameters <- MCParameters
  Namespace <- MCNamespace
  Absent = Absent
  Threads = {t1, t2}
  FaultKinds = {}
  MaxFaults = 0
  MaxChanges = 0
SPECIFICATION Spec

INVARIANT DeleteRemovesData
