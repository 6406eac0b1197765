SPECIFICATION QueueSpec
CHECK_DEADLOCK FALSE
INVARIANTS
  WorkersServeTheQueue
