\* Every interleaving of the requests with the two services.
SPECIFICATION FairSpec
CONSTANTS
  Configured = "answerer"
  DiskFaults = TRUE
INVARIANTS TypeOK RoleMatchesActive CallerInCharge
PROPERTIES RoleReverts
