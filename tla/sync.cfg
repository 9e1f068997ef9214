SPECIFICATION Spec
CONSTANTS
  NumDevices = 2
  NumEntities = 2
  DeviceOf <- FanAndLight
  Unreadable <- GroupDiffers
  FALLBACK_INTERVAL_BPUP_ALIVE = 2
  FALLBACK_INTERVAL_BPUP_DEAD = 1
  MaxChanges = 2
  MaxFaults = 2
  MaxManual = 1
INVARIANTS TypeOK DriftBounded
PROPERTIES SiblingsAgree Convergence
