SPECIFICATION FairSpec
CONSTANTS
  p1 = p1
  p2 = p2
  c1 = c1
  c2 = c2
  Path = {p1, p2}
  Content = {c1, c2}
  Skipped = Skipped
  Absent = Absent
  Delta <- MCDelta
  Reader = {r1}
  MaxDeltas = 2
  MaxQueue = 1
  MaxFaults = 1
  MaxFailures = 1
  MaxRestarts = 1
  MaxTrouble = 1
INVARIANTS
  BlobsPresent
  WrittenIsTracked
PROPERTIES
  AtomicSpec
  ExpiredGoes
  OrphansGo
