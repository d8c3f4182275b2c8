SPECIFICATION Spec
CONSTANT PresenceLimit = 3
CHECK_DEADLOCK FALSE
INVARIANTS
    PresenceLimited
PROPERTY LostReaderEndsSession
