SPECIFICATION Spec
CONSTANTS
  Process = {p, q, r}
  Nobody = Nobody
  Absent = Absent
  MaxChanges = 2
  Faults = {"engine", "listen", "crash"}
SYMMETRY Symmetry
INVARIANTS ServerIsReachable HandOverKeepsChanges
