\* A replay page that is shorter than the backlog.
CONSTANTS
  Connector = c1
  ControlTtl = 2
  MinInterval = 1
  Slots = 1
  RotationTtl = 2
  MaxBacklog = 2
  PageSize = 1
  Provisioning = TRUE
  ClockMayRegress = TRUE
  MaxTime = 2
  MaxCommands = 3
  MaxEpoch = 3
  MaxDrops = 2
  MaxHeartbeat = 0
SPECIFICATION Spec
INVARIANTS ReconnectsRecoverable
CHECK_DEADLOCK FALSE
