SPECIFICATION Spec
CONSTANTS
  b1 = b1
  b2 = b2
  t1 = t1
  t2 = t2
  t3 = t3
  t4 = t4
  a1 = a1
  a2 = a2
  a3 = a3
  NONE = NONE
  Recovery = recovery
  Batch = {b1, b2}
  Tx = {t1, t3}
  Acct = {a1}
  Mapped = {a1}
  Feeder = {f1}
  AcctOf <- MCAcctOf
  Adds <- MCAdds
  Removes <- MCRemoves
  Reviewed = {}
  MaxAttempts = 2
  MaxCrashes = 1
  DbMayFail = TRUE
  ServerPurges = FALSE
INVARIANTS
  TypeOK
  AckedIsLanded
  OneStatement
  OneApplyPerBatch
PROPERTIES
  TransactionIsOwned
  DeliverySpec
CHECK_DEADLOCK FALSE
