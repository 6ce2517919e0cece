SPECIFICATION FairSpec
CONSTANTS
  Agents = {a1, a2}
  MaxWorks = 2
  MaxBatch = 2
  MaxDeps = 1
  Capacity = 1
  Events = {"stop", "close", "crash", "lost", "load_error", "model_down", "other_work", "model_reject", "hook_block", "hook_error", "start_reject", "fail", "agent_wait", "age"}
  MaxEvents = 1
CHECK_DEADLOCK FALSE
PROPERTIES
  EveryWorkSettles
