SPECIFICATION Spec
CONSTANTS
  Debts = {1, 2, 3}
  CustomerOf <- OwnerOf
  Chunks = 2
  ChunkOf <- ByCustomer
  Unfit = {}
  Workers = {"w1"}
  Callers = {"a1"}
  MaxAttempts = 2
  Budget <- OneChange
CHECK_DEADLOCK FALSE
INVARIANTS OptOutCancels
