SPECIFICATION Spec
CONSTANTS
  i1 = i1
  i2 = i2
  p1 = p1
  p2 = p2
  Invoice = {i1, i2}
  Payment = {p1, p2}
  Party = party
  Total <- MCTotal
  Pays <- MCPays
  MaxFaults = 0
  MaxRestarts = 0
INVARIANTS
  CancelledIsUnpaid
CHECK_DEADLOCK FALSE
