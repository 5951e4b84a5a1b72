\* A transfer and those that follow it on the lease: every answer of the device,
\* timeouts, aborts, the end of the lease and a full tracker in any order.
SPECIFICATION FairSpec
CONSTANTS
  Lease = {l1}
  MaxHandle = 3
  Blocks = 2
  TrackerFull = TRUE
INVARIANTS TypeOK StuckOnlyByDiscard ConfirmMatches OrphanRecovers
 
