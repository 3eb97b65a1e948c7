\* One reset between two documents that swap their tokens, beside one client that logs in.
CONSTANTS
    s1 = s1
    s2 = s2
    s3 = s3
    Gone = Gone
    Nobody = Nobody
    r1 = r1
    c1 = c1
    Short = {}
    Specs <- TwoSpecs
    Files = {"token", "second", "password"}
    Edited = {}
    Contents = {s1, s2, s3, Gone}
    InitialFiles <- Apart
    Presented = {s2}
    Users = {"u"}
    Sent = {"login"}
    Peers = {TRUE}
    StdioSecret = s1
    Cookies = {1}
    Reloaders = {r1}
    Callers = {c1}
    IdleTime = 0
    AbsoluteTime = 0
    MaxSessions = 1
    MaxTime = 1
    MaxCommits = 1
    MaxEdits = 0
SPECIFICATION AuthSpec
INVARIANT SessionsOfBasic
CHECK_DEADLOCK FALSE
