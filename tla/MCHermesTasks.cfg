SPECIFICATION Spec
CONSTANTS
    t1 = t1  t2 = t2
    c1 = c1  c2 = c2
    Task = {t1, t2}
    Context = {c1, c2}
    Nobody = Nobody
    Watchdog = Watchdog
    Contexts <- MCContexts
    Before <- MCBefore
    MaxTerminal = 1
    Asking = {t1}
    Forwarded = {t2}
    Cancelled = {t1}
    Watched = {t1}
    Ending = {"completed"}
    MaxSends = 2
    MaxDrops = 1
INVARIANTS PendingOwned RepliesKept WatchersWoken OwnedNotOrphaned
PROPERTIES OutcomeStays
CHECK_DEADLOCK FALSE
