SPECIFICATION ToolsSpec
CHECK_DEADLOCK FALSE
INVARIANTS
  OneEncoder
