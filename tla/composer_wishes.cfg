SPECIFICATION DeskSpec
CONSTANTS
  Customers = {"c1", "c2"}
  Filters = {"f1", "f2"}
  Matches <- Found
  Fit = {"c1", "c2"}
  Approved = {"t1", "t2"}
  Complete = {"t1", "t2"}
  Rows = {"d1"}
  Texts <- Forms
  Rules <- Choices
  Contents <- Debtors
  Inbound = {"i"}
  Uploads = {"u", "w"}
  Allowed = {"u"}
  Sizes = {0, 1, 4}
  People = {"p", "q"}
  Drafts = {"x", "y"}
  Papers = {"f"}
  Messages = {"m1", "m2"}
  Instances = {"i1", "i2"}
  Tabs = {"t1"}
  PageSize = 1
  Processes = {"p1", "p2"}
  Limit = 1
  Window = 2
  Pause = 1
  Horizon = 3
  Budget <- Usage
CONSTRAINT NamedInOrder
CHECK_DEADLOCK FALSE
INVARIANT MicrophoneShown
\* INVARIANT SentWhereShown
