CONSTANTS A = A
          B = B
          Devices <- TwoDevices
          NoDevice = NoDevice
          MaxAttempts = 2
          Threshold = 2
          MaxFaults = 2
          MaxSaves = 1
          Stalls = TRUE
          Overruns = TRUE
          DiskFaults = TRUE
          MayClose = TRUE
SPECIFICATION FromA
INVARIANTS TypeOK FollowsTheLastSave OnePipeline DeadIsRetried ReportIsTrue StaysDown
CHECK_DEADLOCK FALSE
PROPERTIES KeptUp
