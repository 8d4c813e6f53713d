\* One device whose socket may be lost once, or two devices, pages of one event, two publishers of
\* which one may die, and events that expire out of order; two mailboxes of the device.
CONSTANTS
  k1 = k1  k2 = k2  k3 = k3  dev = dev  peer = peer
  RtDevices = {dev, peer}
  Conns = {k1, k2, k3}
  DeviceOf <- SocketOwner
  Gateways = {"g1", "g2"}
  LeaseTtl = 2
  ClaimTtl = 1
  PageLimit = 1
  BatchLimit = 2
  RtRetention = 2
  DeliveryTtls = {1}
  RtMaxTime = 2
  MaxCursor = 2
  MaxFence = 4
  MaxFaults = 1
  MaxCrashes = 1
  Registrants = {"d1"}
  Mutations = {"put", "replace", "delete"}
  MutationOf <- ThreeMutations
  Wakes = {"w1"}
  WakeDevice <- OneTarget
  Brokers = {"a", "b"}
  WakeTtl = 2
  WakeLease = 1
  WakeRetention = 1
  ClaimBatch = 2
  RetryDelays = {1}
  MaxHeads = 2
  MaxStops = 1
  PushMaxTime = 2
SPECIFICATION FairSpec
INVARIANTS NoSilentGap CatchUpJustified RegistrationsSound
PROPERTIES FencedSend CompactionSparesLive PushStepsFenced DeviceCatchesUp OutboxDrains DeliveryReachesHead QuotaReleased
CHECK_DEADLOCK FALSE
