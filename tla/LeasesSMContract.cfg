\* The GW->SM contract: the gateway's own request, host leases to the System
\* Manager that share it, message loss and a stack reset.
SPECIFICATION Spec
CONSTANTS
  r1 = r1
  r2 = r2
  r3 = r3
  Conn = {k1}
  Ref = {r1, r2}
  Dst = {sm}
  SMDst = sm
  NoDst = none
  Kinds = {"CLIENT"}
  Tsap = {1}
  ContractId = {1, 2}
  MaxContracts = 2
  MaxSessions = 1
  PendingTimeout = 1
  UsageMod = 256
  Periods = {}
  MaxSessionId = 1
  MaxTime = 1
  MaxResets = 1
  MaxLosses = 1
SYMMETRY MCSymmetry
INVARIANTS SMContractLive
