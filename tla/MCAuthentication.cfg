SPECIFICATION FairSpec
CONSTANTS
  Calls = {c1, c2, c3}
  Nobody = Nobody
  NoThread = NoThread
  Sources = {s1, s2}
  Workers = {w1, w2}
  Threads = {t1, t2}
  SourceLimit = 2
  PreAuthLimit = 3
  WorkerLimit = 1
  GlobalLimit = 2
  AuditLimit = 1
  MaxAuthConcurrency = 2
  MaxVerifications = 1
  MaxRefills = 1
INVARIANTS TypeOK CapacityIsAccounted VerifiersAreBounded NobodyDrawsMoreThanItsOwn
PROPERTY BusyEnds
CHECK_DEADLOCK FALSE
