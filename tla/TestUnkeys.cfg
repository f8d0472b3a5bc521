CONSTANTS Services <- OneService
          Testers <- OneTester
          MaxKeyings = 2
          MaxEvents = 0
SPECIFICATION Spec
PROPERTY TestNeverUnkeysATransmission
CHECK_DEADLOCK FALSE
