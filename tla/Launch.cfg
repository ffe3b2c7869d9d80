SPECIFICATION FairSpec
CONSTANTS
    lib = lib
    client = client
    object = object
    other = other
    Libraries = {lib, client}
    Objects = {object, other}
    Assets = {object}
    Majors <- MCMajors
INVARIANTS
    NeverLaunchesIncomplete
    NeverLaunchesUnsigned
    ExitTellsTheSession
    GameNeverOutlivesTheAgent
PROPERTIES
    DryRunChangesNothing
    Decides
    SigtermEnds
