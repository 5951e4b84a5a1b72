\* As many destinations as request ids: ids are used again, answers are late,
\* lost or reordered, and the contract table fills up.
SPECIFICATION FairSpec
CONSTANTS
  Dst = {d1, d2}
  IdMod = 2
  CountMod = 2
  Timeout = 1
  MaxContracts = 2
  MaxInFlight = 2
INVARIANTS TypeOK Answerable ContractMatches
PROPERTY ImplementsService RequestAnswered
