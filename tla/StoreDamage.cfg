SPECIFICATION Spec
CONSTANTS
  empty = empty
  s1 = s1
  s2 = s2
  Session <- MCSession
  DefaultSession = empty
  Absent = Absent
  Corrupt = Corrupt
  Faults = {"io", "crash", "power", "corrupt"}
INVARIANTS TypeOK PowerLossBringsBackASave
PROPERTIES RecoversFromBackup BackupTrailsByOneSave
\* A start that finds both files damaged is refused.
CHECK_DEADLOCK FALSE
