SPECIFICATION LiveSpec
CONSTANTS
  Servers = {s1}
  Calls = {c1}
  Previews <- OnePreview
  Configs <- AllConfigs
  FirstConfig <- First
  LaneSize = 2
  HostLaneSize = 1
  Events = {"connect_error", "catalog_error", "list_changed", "transport_failure", "protocol_failure", "periodic", "list_error", "call_error", "call_conformance", "close_error", "close", "reconnect", "reload"}
  MaxEvents = 1
  FollowUps = {"list_error"}
  MaxGen = 3
CHECK_DEADLOCK FALSE
INVARIANTS ConnectionInv CatalogInv
PROPERTIES McpProgress
