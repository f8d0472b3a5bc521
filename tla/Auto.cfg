CONSTANTS X = X
          Y = Y
          NoStation = NoStation
          Stations = {X, Y}
          Parity <- TwoParities
          MaxSlot = 7
          RetryCount = 1
          MaxLate = 2
          Requests <- AutoRequests
          MaxRequests = 2
          TargetLife = 1
          Timely = TRUE
          DiskFaults = FALSE
SPECIFICATION Spec
INVARIANTS TypeOK OwnParity HeldReplySentAtFirstChance SupervisedSessions HeldReplyBelongs RetryRepeatsTheRightMessage
PROPERTY Refines
