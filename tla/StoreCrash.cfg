SPECIFICATION Spec
CONSTANTS
  empty = empty
  s1 = s1
  s2 = s2
  Session <- MCSession
  DefaultSession = empty
  Absent = Absent
  Corrupt = Corrupt
  Faults = {"io", "crash"}
INVARIANT OldOrNew
PROPERTIES RestartKeepsSession ImplementsSavedSession
