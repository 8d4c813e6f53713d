\* Provisioning commands behind a configuration that is not acknowledged.
CONSTANTS
  Connector = c1
  ControlTtl = 2
  MinInterval = 1
  Slots = 1
  RotationTtl = 2
  MaxBacklog = 2
  PageSize = 3
  Provisioning = TRUE
  ClockMayRegress = TRUE
  MaxTime = 2
  MaxCommands = 3
  MaxEpoch = 3
  MaxDrops = 2
  MaxHeartbeat = 0
SPECIFICATION Spec
INVARIANTS BarrierRule
CHECK_DEADLOCK FALSE
