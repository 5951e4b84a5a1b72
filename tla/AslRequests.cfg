\* Requests on a contract with a window of two and on one without a window.
SPECIFICATION FairSpec
CONSTANTS
  Contract = {c1, c2}
  Aperiodic = {c1}
  Window = 2
  MaxMsg = 2
  Kinds = {"req"}
  Prios = {0}
  Fits = {TRUE}
  PacketMax = 2
  RTOs = {1}
  TimeoutCap = 2
  FailTimeout = 1
  MaxRetry = 1
  Lifetime = 5
  ReqMod = 4
  MaxGen = 1
  Rewrites = FALSE
INVARIANTS TypeOK SlotsAccounted WindowReopens ToldOnce
PROPERTY RequestResolved WindowRecovers ImplementsAslService
CHECK_DEADLOCK FALSE
