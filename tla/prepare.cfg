SPECIFICATION FairSpec
CONSTANTS
  Debts = {1, 2, 3}
  CustomerOf <- OwnerOf
  Chunks = 2
  ChunkOf <- ByCustomer
  Unfit = {}
  Workers = {"w1"}
  Callers = {"a1", "a2"}
  MaxAttempts = 2
  Budget <- Disturbed
CHECK_DEADLOCK FALSE
INVARIANTS PreparedInFull EligibleCounted OneMessagePerCustomer
PROPERTIES PreparationEnds
