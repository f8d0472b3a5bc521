CONSTANTS Services <- OneService
          Testers <- OneTester
          MaxKeyings = 1
          MaxEvents = 1
SPECIFICATION Spec
INVARIANT GuaranteedRelease
CHECK_DEADLOCK FALSE
