CONSTANTS
  w1 = w1
  w2 = w2
  j1 = j1
  d1 = d1
  d2 = d2
  s1 = s1
  s2 = s2
  s3 = s3
  s4 = s4
  Jobs = {j1}
  Workers = {w1}
  Nobody = Nobody
  Capabilities = {"c"}
  OutputKeys = {"k"}
  Digests = {d1}
  NoDigest = NoDigest
  Submission <- MCSubmission
  Offers <- MCOffers
  NoOffer = NoOffer
  Subjects = {w1}
  NoSubject = NoSubject
  Enrollments <- MCEnrollments
  Slots = {s1, s2}
  Identity <- MCIdentity
  Unqualified = {}
  DefaultLease = 0
  Calls <- MCCalls
  HostStatuses = {"draining"}
  NoSlot = NoSlot
  Advertised <- MCAdvertised
  Refused = {}
  AgentLease = 0
  MaxFaults = 0
  MaxStops = 0
SPECIFICATION PoolSpec
PROPERTIES
  DrainingLeasesNothing
