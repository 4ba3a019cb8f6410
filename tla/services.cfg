SPECIFICATION ServicesSpec
CONSTANTS
  Users = {"u1"}
  Sockets = {"s1", "s2"}
  UserOf <- OneUser
  Order <- ByName
  PageSize = 1
  Shapes <- Looks
  Held <- AtFirst
  Profile <- Profiles
  Asks = {"a1"}
  Saves = {"s1", "s2"}
  Choices <- Bodies
  Sends = {"m1"}
  Fillings <- Filled
  MaxAttempts = 2
  Budget <- Usage
CHECK_DEADLOCK FALSE
INVARIANTS ViewIsCurrent SyncedIsRecent ChosenMappingKept RefusedIsStale
PROPERTIES LeaverIsAnnounced SyncAnswers
