CONSTANTS Services <- OneService
          Testers <- OneTester
          MaxKeyings = 2
          MaxEvents = 1
SPECIFICATION FairSpec
INVARIANTS TypeOK Attended LockAttended
PROPERTIES Released LockFreed
CHECK_DEADLOCK FALSE
