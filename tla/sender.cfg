SPECIFICATION Spec
CONSTANTS
  Customers = {"c1", "c2"}
  First = "c1"
  Numbers = {"n1", "n2", "n3"}
  Requests = {r1, r2}
  Staff = {"e1", "e2"}
  Kept = "n3"
  Plans <- Moves
  Budget <- Calm
SYMMETRY Alike
CHECK_DEADLOCK FALSE
INVARIANTS SenderIsFound
