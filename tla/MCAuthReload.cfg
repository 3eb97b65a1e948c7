\* Two commits in a row beside one client, two sessions issued, one kept at a time, one edit.
CONSTANTS
    s1 = s1
    s2 = s2
    s3 = s3
    Gone = Gone
    Nobody = Nobody
    r1 = r1
    c1 = c1
    Short = {}
    Specs <- ThreeSpecs
    Files = {"token", "second", "password"}
    Edited = {"token"}
    Contents = {s1, s2, Gone}
    InitialFiles <- Mounted
    Presented = {s2}
    Users = {"u"}
    Sent = {"login", "view", "logout", "stream", "mcp"}
    Peers = {TRUE}
    StdioSecret = s1
    Cookies = {1, 2}
    Reloaders = {r1}
    Callers = {c1}
    IdleTime = 0
    AbsoluteTime = 0
    MaxSessions = 1
    MaxTime = 1
    MaxCommits = 2
    MaxEdits = 1
SPECIFICATION FairAuthSpec
INVARIANTS QuietMeansCurrent CommittedSpecLoads
PROPERTIES LiveSessionKept RevokedStreamEnds
CHECK_DEADLOCK FALSE
