CONSTANTS X = X
          NoStation = NoStation
          Stations = {X}
          Parity <- OneParity
          MaxSlot = 6
          RetryCount = 1
          MaxLate = 1
          Modes <- BothModes
          Requests <- OperatorRequests
          MaxRequests = 3
          PickLife = 2
          Timely = TRUE
          DiskFaults = TRUE
SPECIFICATION FairSpec
INVARIANTS TypeOK HeldReplyBelongs OwnParity StopWakes
PROPERTIES Refines StopHonoured
