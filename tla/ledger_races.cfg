SPECIFICATION Spec
CONSTANTS
  Workers = {w1, w2}
  Ops = {"dialplan"}
  Calls = {c1, c2}
  Legs = {"B"}
  Amounts = {1}
  Opening = 4
  Before = {}
  Cost = 2
  Attempts = 1
  MaxRequests = 0
  MaxLosses = 0
SYMMETRY Symmetry
CHECK_DEADLOCK FALSE
INVARIANT DeductedPerCall
