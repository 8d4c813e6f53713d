\* A wake intent is kept longer than the replay horizon.
CONSTANTS
  Mailboxes = {"m1"}
  BoxOwner <- OwnerOfBoxes
  Sent = {"e1", "e2"}
  Offers = {}
  MailboxOf <- BoxOfEnvelope
  Expiry <- ExpiryOf
  Candidate <- ForSecondDevice
  Devices = {"d2"}
  InitialDevice = "d2"
  BoxTtl = 3
  MaxTtl = 3
  Quota = 2
  Retention = 1
  Budget = 2
  PushDevices = {"d2"}
  PushRetention = 2
  Skew = 0
  PullLimit = 1
  MaxEarliest = 0
  MaxTime = 4
  MaxSequence = 3
  MaxVersion = 1
SPECIFICATION Spec
INVARIANTS HorizonPermitsCollection
CHECK_DEADLOCK FALSE
