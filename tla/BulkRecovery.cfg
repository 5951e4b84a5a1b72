\* A device that refuses an abort or a reset of the gateway's own recovery.
SPECIFICATION FairSpec
CONSTANTS
  Lease = {l1}
  MaxHandle = 2
  Blocks = 2
  TrackerFull = FALSE
PROPERTY RecoveryGivesUp
