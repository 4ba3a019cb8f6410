SPECIFICATION Spec
CONSTANTS
  Campaigns = {1, 2}
  Recipients = {1, 2}
  CampaignOf <- OwnCampaign
  PhoneOf <- OnePhone
  CustomerOf <- DistinctCustomers
  Workers = {"w1"}
  Callers = {"a1", "a2"}
  BatchSize = 1
  MaxAttempts = 2
  MinSample = 2
  FailureRate = 50
  ConsecutiveFailures = 1
  Rejections = {}
  Budget <- OneCommand
INVARIANTS OneRunningPerPhone
