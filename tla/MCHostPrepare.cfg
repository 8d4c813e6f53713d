\* The situations of MCNode, one property.
CONSTANTS
  Owner = "o"
  Persons = {"p", "q"}
  Leafs = {"d0", "d1", "d2", "d3"}
  Holder <- DeviceHolders
  Invitations = {"i1"}
  Requests = {"r1", "r2"}
  GroupWorkers = {"w1", "w2"}
  MaxAdmins = 1
  MaxUses = 1
  InviteLife = 2
  OutboxLease = 1
  MaxRevision = 7
  MaxEpoch = 4
  MaxClaims = 4
  GroupMaxTime = 2
  IdDevices = {"d1", "d2"}
  Drafts = {"e1", "e2", "e3", "e4", "e5"}
  Intents <- SignedByClients
  Cards = {"c1"}
  CardDevice <- CardsForSecond
  CardTtl = 1
  CardRetention = 2
  ChallengeTtl = 1
  SessionTtl = 2
  IdMaxTime = 2
  Packages = {"p1", "p2", "p3"}
  PackageDevice <- PackageOwner
  PackageExpiry <- PackageEnds
  ClaimCommands = {"c1", "c2", "c3"}
  ClaimTarget <- ClaimedFrom
  PackageTtl = 3
  ReplayRetention = 2
  KdMaxHead = 2
  KdMaxTime = 5
  HostConns = {"cn"}
  HostOps = {"ensure", "start", "stop", "restart", "rotate", "remove", "prepare", "finalize"}
  HostOpOf <- OneOfEach
  HostRuns = {"h1", "h2"}
  PlanGeneration = 1
  MaxHostFaults = 2
  Mailboxes = {"m1", "m2", "m3"}
  BoxOwner <- OwnerOfBoxes
  Sent = {"e1", "e2", "e3"}
  Offers = {"o1"}
  MailboxOf <- BoxOfEnvelope
  Expiry <- ExpiryOf
  Candidate <- ForSecondDevice
  Devices = {"d1", "d2"}
  InitialDevice = "d1"
  BoxTtl = 3
  MaxTtl = 3
  Quota = 1
  Retention = 1
  Budget = 2
  PushDevices = {"d2"}
  PushRetention = 1
  Skew = 1
  PullLimit = 1
  MaxEarliest = 1
  MaxTime = 2
  MaxSequence = 3
  MaxVersion = 2
SPECIFICATION NodeSpec
INVARIANTS PreparedIsRecorded
CHECK_DEADLOCK FALSE
