SPECIFICATION FairSpec
CONSTANTS
    Advertised <- MCAdvertised
    Lifetime = 5
PROPERTY
    BlocksUntilAnswered
