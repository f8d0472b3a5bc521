CONSTANTS X = X
          Y = Y
          NoStation = NoStation
          Stations = {X}
          Parity <- OneParity
          MaxSlot = 3
          RetryCount = 1
          MaxLate = 1
          Requests <- OperatorRequests
          MaxRequests = 2
          TargetLife = 1
          Timely = FALSE
          DiskFaults = TRUE
SPECIFICATION FairSpec
INVARIANT Watched
PROPERTIES Refines SessionsEnd
