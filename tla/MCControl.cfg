\* A Connector with one slot, a backlog of two commands and a replay page of one.
CONSTANTS
  Connector = c1
  ControlTtl = 2
  MinInterval = 1
  Slots = 1
  RotationTtl = 2
  MaxBacklog = 2
  PageSize = 1
  Provisioning = TRUE
  ClockMayRegress = TRUE
  MaxTime = 2
  MaxCommands = 4
  MaxEpoch = 12
  MaxDrops = 3
  MaxHeartbeat = 1
SPECIFICATION ControlSpec
INVARIANTS TypeOK EffectsOnce FenceAgreement Resumable SuccessorReachable
PROPERTIES LeaseAuthoritySpec RotationSettles
CHECK_DEADLOCK FALSE
