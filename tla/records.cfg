SPECIFICATION Spec
CONSTANTS
  Customers = {"c1", "c2"}
  First = "c1"
  Numbers = {"n1", "n2"}
  Requests = {r1, r2}
  Staff = {"e1"}
  Kept = "n1"
  Plans <- Bodies
  Budget <- Usage
SYMMETRY Alike
CHECK_DEADLOCK FALSE
INVARIANTS NumberHasOneHolder RowsAgree ConversationFollows
