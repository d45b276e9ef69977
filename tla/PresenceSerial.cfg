SPECIFICATION FairSpec
CONSTANTS
    Handlers = {h1}
    Sockets = {s1, s2, s3}
    Ops = {"setStatus", "remove"}
    None = None
    Undef = Undef
INVARIANTS ReconnectCancels DropIsScheduled
PROPERTIES GoneGoesOffline
CHECK_DEADLOCK FALSE
