SPECIFICATION FairSpec
CONSTANTS
  Customers = {"c1", "c2"}
  Filters = {"f1", "f2"}
  Matches <- Found
  Fit = {"c1", "c2"}
  Approved = {"t1", "t2"}
  Complete = {"t1", "t2"}
  Budget <- Usage
CHECK_DEADLOCK FALSE
PROPERTIES PreviewComes
