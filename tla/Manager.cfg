SPECIFICATION Spec
CONSTANTS
  n1 = n1
  n2 = n2
  p1 = p1
  p2 = p2
  t1 = t1
  t2 = t2
  t3 = t3
  Names = {n1, n2}
  Ports = {p1, p2}
  Tasks = {t1, t2, t3}
  Cancellable = {t2}
  MaxAdds = 2
  MaxSwitches = 2
SYMMETRY Symmetry
CONSTRAINT SecondSwitchOnSharedPort
INVARIANTS
  RefsAgree
  SamePortSerialises
  NothingLeaks
  ResultsComplete
CHECK_DEADLOCK FALSE
