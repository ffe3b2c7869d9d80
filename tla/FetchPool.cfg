SPECIFICATION FairSpec
CONSTANTS
    w1 = w1
    w2 = w2
    object = object
    config = config
    good = good
    bad = bad
    NoDigest = NoDigest
    Absent = Absent
    Partial = Partial
    Workers = {w1, w2}
    N = 3
    Dests = {object, config}
    Dest <- MCDest
    Bodies = {good, bad}
    Digest <- MCDigest
    MaxKills = 1
INVARIANTS
    NilMeansComplete
    ErrorIsRootCause
    QuietAfterReturn
    NeverStranded
    CountedIsFetched
PROPERTIES
    OnlyVerifiedBytesLand
    EveryStepCounts
    KeepsPromise
    Returns
