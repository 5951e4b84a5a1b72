\* Two hosts share the contract of a device while the gateway polls the System
\* Manager: a tracker of two entries, late answers, discarded requests, leases
\* and sessions that end, and a contract id that is given out again.
SPECIFICATION FairSpec
CONSTANTS
  Contract = {c1, c2}
  SMContract = c2
  Leased = {c1}
  Attr = {list}
  List = list
  Session = {s1, s2}
  Txn = {t1}
  MaxHandle = 3
  Capacity = 2
  MaxAge = 1
  MaxTime = 2
  StackLife = 1
  CacheLife = 1
  MaxGen = 2
  Revokes = FALSE
  Discards = TRUE
INVARIANTS TypeOK PendingAsked NoConfirmLost CacheOwn
PROPERTY HostConfirmed
CHECK_DEADLOCK FALSE
