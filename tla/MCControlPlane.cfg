\* Applies, plans and resets while mail arrives; a cache of one entry.
SPECIFICATION Spec
CONSTANTS
    k1 = k1
    k2 = k2
    plain = plain
    NoKey = NoKey
    None = None
    SmtpParts = {plain}
    CapsSet <- AllCaps
    Requests <- MixedRequests
    PlanKeys = {k1}
    CacheMax = 1
    MaxGen = 3
INVARIANTS CapsAgree BootstrapKnown AppliedOnce
PROPERTIES NoSilentEviction NoLostUpdate
