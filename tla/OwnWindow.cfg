CONSTANTS X = X
          Y = Y
          NoStation = NoStation
          Stations = {X, Y}
          Parity <- TwoParities
          MaxSlot = 6
          RetryCount = 1
          MaxLate = 1
          Requests <- ClickRequests
          MaxRequests = 1
          TargetLife = 1
          Timely = TRUE
          DiskFaults = FALSE
SPECIFICATION Spec
PROPERTY OwnWindowNotCounted
