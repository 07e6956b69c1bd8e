SPECIFICATION TransportSpec
CONSTANTS Depth = 2 MaxWindows = 3
INVARIANT OneReplyAheadPasses
CHECK_DEADLOCK FALSE
