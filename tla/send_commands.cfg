SPECIFICATION Spec
CONSTANTS
  Campaigns = {1}
  Recipients = {1, 2}
  CampaignOf <- OneCampaign
  PhoneOf <- OnePhone
  CustomerOf <- DistinctCustomers
  Workers = {"w1"}
  Callers = {"a1"}
  BatchSize = 1
  MaxAttempts = 2
  MinSample = 2
  FailureRate = 50
  ConsecutiveFailures = 1
  Rejections = {"RETRYABLE", "PERMANENT_RECIPIENT", "PERMANENT_ACCOUNT"}
  Budget <- CommandOptOutReceipt
INVARIANTS BatchBound OneDispatcher
PROPERTY CancelledStays
