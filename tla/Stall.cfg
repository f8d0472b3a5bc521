CONSTANTS A = A
          B = B
          Devices <- TwoDevices
          NoDevice = NoDevice
          MaxAttempts = 2
          Threshold = 2
          MaxFaults = 1
          MaxSaves = 0
          Stalls = TRUE
          Overruns = FALSE
          DiskFaults = FALSE
          MayClose = FALSE
SPECIFICATION FairSpec
PROPERTY StallRestarted
CHECK_DEADLOCK FALSE
