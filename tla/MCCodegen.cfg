SPECIFICATION Spec
CONSTANTS
  Tasks <- MCTasks
  Genvk = {"layer_trait", "global_simple_intercept"}
INVARIANTS
  TypeOK
  ComparedWhenComplete
  CheckVerdict
  FailureIsReported
PROPERTIES
  Exits
CHECK_DEADLOCK FALSE
