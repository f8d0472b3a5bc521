CONSTANTS Pids <- FewPids
          NoPid = 0
          MaxConsec = 2
          WavStrikes = 2
          CapturePolls = 2
          CalmPolls = 2
          MaxResumes = 1
          Cuts = TRUE
          QueryFails = TRUE
SPECIFICATION FairSpec
INVARIANTS TypeOK Accounted CleanWhenTracked
PROPERTIES AbortLeavesNothing NoEarlyGivingUp Recovers
CHECK_DEADLOCK FALSE
