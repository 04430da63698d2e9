\* Two sessions, three names, room for two.
CONSTANTS
  n1 = n1
  n2 = n2
  n3 = n3
  t1 = t1
  t2 = t2
  NoName = NoName
  Names = {n1, n2, n3}
  Tasks = {t1, t2}
  Ttl = 2
  MaxEntries = 2
  MaxTime = 4
  MaxGets = 5
SPECIFICATION Spec
SYMMETRY MCSymmetry
CHECK_DEADLOCK FALSE
INVARIANTS
  Bounded
  ServedWithinTtl
  CountersBalance
PROPERTIES
  LiveEntriesGoLast
