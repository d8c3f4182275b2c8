SPECIFICATION Spec
CONSTANT PresenceLimit = 2
CHECK_DEADLOCK FALSE
INVARIANT KeepaliveHasMessage
