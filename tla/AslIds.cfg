\* More requests than request ids, on a contract that is deleted and made again while
\* answers to its old requests are still coming.
SPECIFICATION Spec
CONSTANTS
  Contract = {c1}
  Aperiodic = {c1}
  Window = 2
  MaxMsg = 3
  Kinds = {"req"}
  Prios = {0}
  Fits = {TRUE}
  PacketMax = 2
  RTOs = {1}
  TimeoutCap = 2
  FailTimeout = 1
  MaxRetry = 1
  Lifetime = 3
  ReqMod = 2
  MaxGen = 2
  Rewrites = FALSE
INVARIANT AnswersOwn
CHECK_DEADLOCK FALSE
