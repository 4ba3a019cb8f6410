SPECIFICATION FairSpec
CONSTANTS
  Campaigns = {1, 2}
  Recipients = {1, 2}
  CampaignOf <- OwnCampaign
  PhoneOf <- OnePhone
  CustomerOf <- DistinctCustomers
  Workers = {"w1"}
  Callers = {"a1"}
  BatchSize = 1
  MaxAttempts = 2
  MinSample = 2
  FailureRate = 50
  ConsecutiveFailures = 1
  Rejections = {"RETRYABLE", "PERMANENT_RECIPIENT", "PERMANENT_TEMPLATE", "PERMANENT_ACCOUNT"}
  Budget <- OneExpiry
PROPERTIES CampaignsEnd ClaimResolves
