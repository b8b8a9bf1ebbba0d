SPECIFICATION FairSpec
CONSTANTS
    None = None
    c1 = c1
    c2 = c2
    w1 = w1
    w2 = w2
    w3 = w3
    r1 = r1
    r2 = r2
    Watched = c1
    Campaigns = {c1}
    Workers = {w1, w2}
    Requests = {r1}
    MaxCommands = 1
    MaxWatchdogs = 1
    MaxRequests = 2
    MaxFaults = 1
    MaxTimeouts = 1
CHECK_DEADLOCK FALSE
PROPERTIES
    StopSettles
    Replaced
