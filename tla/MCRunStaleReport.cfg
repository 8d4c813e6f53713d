\* The situations of MCRunRouting, one property.
CONSTANTS
  c1 = c1  c2 = c2  r1 = r1  r2 = r2  b1 = b1  b2 = b2  b3 = b3
  Connectors = {c1, c2}
  Runs = {r1, r2}
  Bindings = {b1, b2, b3}
  BindingConnector <- Routes
  BindingMax <- OneEach
  MaxConcurrency <- Slots
  Candidates <- Plans
  QueueDeadline <- Deadlines
  GrantExpires <- GrantLong
  ControlTtl = 2
  OfferTtl = 1
  RunTtl = 2
  Streams = {"checkpoint", "output"}
  Payloads = {"p"}
  Volatile = {b1, r1}
  ClockMayRegress = TRUE
  MaxTime = 3
  MaxEpoch = 2
  MaxHeartbeat = 2
  MaxAttempts = 3
  MaxReports = 1
SPECIFICATION RunsSpec
PROPERTIES StaleRunLeaseFailsClosed
CHECK_DEADLOCK FALSE
