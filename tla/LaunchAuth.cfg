SPECIFICATION FairSpec
CONSTANTS
    lib = lib
    client = client
    object = object
    other = other
    Libraries = {lib, client}
    Objects = {object, other}
    Assets = {object}
    Majors <- MCMajors
PROPERTY
    AuthFailureStopsDownloads
