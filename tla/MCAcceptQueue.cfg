CONSTANTS
  a1 = a1
  a2 = a2
  c1 = c1
  c2 = c2
  c3 = c3
  Acceptors <- MCAcceptors
  Calls <- MCCalls
  Capacity = 1
  MaxIncoming = 3
SPECIFICATION Spec
SYMMETRY MCSymmetry
INVARIANTS
  HandedOutInOrder
  NobodyWaitsInVain
CHECK_DEADLOCK FALSE
