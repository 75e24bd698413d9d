SPECIFICATION Spec
CONSTANTS
  Caller = {c1, c2}
  MaxGeneration = 5
  MaxBody = 3
INVARIANTS
  PowerLossRecovers
PROPERTY
  OpenNeverGoesBack
