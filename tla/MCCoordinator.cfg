CONSTANTS
  w1 = w1
  w2 = w2
  j1 = j1
  j2 = j2
  d1 = d1
  d2 = d2
  s1 = s1
  s2 = s2
  Jobs = {j1, j2}
  Workers = {w1, w2}
  Nobody = Nobody
  Capabilities = {"c", "x"}
  OutputKeys = {"k1"}
  Digests = {d1, d2}
  NoDigest = NoDigest
  Submission <- MCReplays
  Offers <- MCOffers
  NoOffer = NoOffer
  Subjects = {w1, w2}
  NoSubject = NoSubject
  Enrollments <- MCSameTenant
  Slots = {s1, s2}
  Identity <- MCIdentity
  Unqualified = {"x"}
  DefaultLease = 0
  Calls <- JobCalls
  HostStatuses = {"revoked"}
SPECIFICATION Spec
INVARIANTS
  IInv
  QueuedHasBudget
  ClaimIsCoherent
  CompletedOutputIsStored
  AuditIsTruthful
PROPERTIES
  KeepsLifecycle
  ReplaysFindTheOriginal
SYMMETRY Symmetric
