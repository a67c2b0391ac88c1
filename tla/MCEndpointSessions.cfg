CONSTANTS
  d1 = d1
  d2 = d2
  d3 = d3
  Dials <- ThreeDials
  MaxEndpoints = 4
SPECIFICATION Spec
INVARIANT SessionsAreIndependent
CHECK_DEADLOCK FALSE
