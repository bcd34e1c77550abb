CONSTANTS
  w1 = w1
  w2 = w2
  j1 = j1
  j2 = j2
  d1 = d1
  d2 = d2
  s1 = s1
  s2 = s2
  Jobs = {j2}
  Workers = {w1, w2}
  Nobody = Nobody
  Capabilities = {"c", "x"}
  OutputKeys = {"k2"}
  Digests = {d1}
  NoDigest = NoDigest
  Submission <- MCSubmission
  Offers <- MCRows
  NoOffer = NoOffer
  Subjects = {w1, w2}
  NoSubject = NoSubject
  Enrollments <- MCListed
  Slots = {s1, s2}
  Identity <- MCIdentity
  Unqualified = {"x"}
  DefaultLease = 0
  Calls <- AdmissionCalls
  HostStatuses = {"active", "revoked"}
  Asked <- MCAsked
SPECIFICATION EnrollmentSpec
INVARIANTS
  TenantsNeverMix
PROPERTIES
  RevokedIsNotAdmitted
  BindingsArePermanent
SYMMETRY SlotsSymmetric
