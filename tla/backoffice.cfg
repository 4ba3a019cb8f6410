SPECIFICATION BackofficeSpec
CONSTANTS
  new1 = new1
  new2 = new2
  r1 = r1
  r2 = r2
  Users = {"admin", "sara", "omar", "ali", new1, new2}
  First <- Staffing
  Names = {"Sara", "Omar", "O mar", "nobody"}
  KeyOf <- Spelling
  Codes = {"c1", "c2"}
  Requests = {r1, r2}
  Plans <- Bodies
  Defaults <- Usual
  Settings <- Customized
  Budget <- Usage
  Imports = {"i1"}
  Customers = {"k1", "k2", "k3"}
  Known <- Clients
  Chances = 1
SYMMETRY Alike
CONSTRAINT OneDisturbance
CHECK_DEADLOCK FALSE
INVARIANTS TeamIsLed RightsAreHeld ReportIsTrue
