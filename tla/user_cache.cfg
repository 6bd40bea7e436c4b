\* Three requests of any kind about one player.
SPECIFICATION Spec
CONSTANTS
  Ops = {"load", "get", "rename", "roleinit", "addvalue", "delete", "unload"}
  Tasks = 3
INVARIANTS CacheIsRedis FreshReads
CHECK_DEADLOCK FALSE
