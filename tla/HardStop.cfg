CONSTANTS X = X
          Y = Y
          NoStation = NoStation
          Stations = {X, Y}
          Parity <- TwoParities
          MaxSlot = 4
          RetryCount = 1
          MaxLate = 1
          Requests <- AbortRequests
          MaxRequests = 2
          TargetLife = 1
          Timely = TRUE
          DiskFaults = FALSE
SPECIFICATION Spec
PROPERTY HardStop
