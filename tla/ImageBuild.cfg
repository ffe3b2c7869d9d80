SPECIFICATION Spec
CONSTANTS
    Lists <- MCLists
    Present <- MCPresent
    Needs <- MCNeeds
    Requests <- MCRequests
    MaxRuns = 3
INVARIANTS
    DevicesAreSafe
    SuccessIsWhole
    NothingLeftBehind
