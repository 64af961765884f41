SPECIFICATION Spec
CONSTANTS
  Session = {s1, s2}
  Pid = {p1, p2}
  Port = {n1}
  NoPid = NoPid
INVARIANTS TypeOK KillsOnlyApis RunningIsRecorded
SYMMETRY Symmetry
