SPECIFICATION FairSpec
CONSTANT MaxStates = 3
CHECK_DEADLOCK FALSE
INVARIANTS NoDoubleSet WhenConsistent FailureHandedOn TimeoutConsistent
  
