SPECIFICATION Spec
CONSTANTS
  Deliveries = {"d1", "d2"}
  MessageOf <- SameMessage
  OptOutTexts = {"hello"}
  Staff = {"e1"}
  Workers = {"w1", "w2"}
  Agents = {"a1"}
  MaxAttempts = 2
  Budget <- Disturbed
CHECK_DEADLOCK FALSE
INVARIANT AssignmentMirrored
\* INVARIANT OptOutRecorded
