SPECIFICATION FairSpec
CONSTANTS
    Advertised <- MCAdvertised
    Lifetime = 5
INVARIANTS
    NeverTooSoon
    AccountIsApprovedOwner
    ErrorsTellTheTruth
PROPERTIES
    KeepsPromise
    Ends
