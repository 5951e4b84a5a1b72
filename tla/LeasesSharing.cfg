\* Three leases of two sessions share the contracts to one device, across
\* unsolicited contracts, deletions by the System Manager and a stack reset.
SPECIFICATION Spec
CONSTANTS
  r1 = r1
  r2 = r2
  r3 = r3
  Conn = {k1}
  Ref = {r1, r2, r3}
  Dst = {d1}
  SMDst = none
  NoDst = none
  Kinds = {"CLIENT"}
  Tsap = {1}
  ContractId = {1, 2}
  MaxContracts = 2
  MaxSessions = 2
  PendingTimeout = 1
  UsageMod = 256
  Periods = {}
  MaxSessionId = 2
  MaxTime = 0
  MaxResets = 1
  MaxLosses = 0
SYMMETRY MCSymmetry
INVARIANTS TypeOK UsageMatches LeaseHasSession ActiveLeaseHasContract SessionOwned PendingDeleteAwaited
PROPERTY TerminateOnlyUnused
