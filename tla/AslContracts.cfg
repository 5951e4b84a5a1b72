\* A contract that is deleted, made again and rewritten under the queue; messages
\* that expect no response or are too large.
SPECIFICATION Spec
CONSTANTS
  Contract = {c1}
  Aperiodic = {c1}
  Window = 2
  MaxMsg = 2
  Kinds = {"req", "norsp"}
  Prios = {0}
  Fits = {TRUE, FALSE}
  PacketMax = 2
  RTOs = {1}
  TimeoutCap = 2
  FailTimeout = 1
  MaxRetry = 1
  Lifetime = 4
  ReqMod = 2
  MaxGen = 2
  Rewrites = TRUE
INVARIANTS NoSlotLeaked ToldOnce
CHECK_DEADLOCK FALSE
