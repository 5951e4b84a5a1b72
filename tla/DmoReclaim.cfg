\* More destinations than request ids: ids are reclaimed.
SPECIFICATION Spec
CONSTANTS
  Dst = {d1, d2, d3}
  IdMod = 2
  CountMod = 2
  Timeout = 0
  MaxContracts = 1
  MaxInFlight = 2
SYMMETRY MCSymmetry
INVARIANT UniqueDst
