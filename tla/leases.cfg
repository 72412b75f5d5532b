SPECIFICATION LeasesSpec
CONSTANTS
  o1 = o1
  o2 = o2
  Owner = {o1, o2}
  Verifier = {v1, v2}
  Minor <- Mixed
  Lease = 2
  Retention = 1
  MaxClientId = 3
  MaxSeq = 2
  MaxTokens = 2
  NoClient = NoClient
SYMMETRY Symmetry
INVARIANT OneConfirmedPerOwner
PROPERTIES LeaseIsRespected ExpiredClientsAreTold
CHECK_DEADLOCK FALSE
