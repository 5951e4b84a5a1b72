\* A lease of each kind in a session of finite or unlimited period, renewed and
\* expired in any order, with a loss and a reset; what must end, ends.
SPECIFICATION FairSpec
CONSTANTS
  r1 = r1
  r2 = r2
  r3 = r3
  Conn = {k1}
  Ref = {r1}
  Dst = {d1}
  SMDst = none
  NoDst = none
  Kinds = {"CLIENT", "SERVER", "SUBSCRIBER"}
  Tsap = {1}
  ContractId = {1}
  MaxContracts = 2
  MaxSessions = 1
  PendingTimeout = 1
  UsageMod = 256
  Periods = {1, 2}
  MaxSessionId = 1
  MaxTime = 3
  MaxResets = 1
  MaxLosses = 1
INVARIANT LeaseWithinSession
PROPERTY ExpiredSessionEnds OverdueRequestEnds
