SPECIFICATION Spec
CONSTANTS
    WellFormed <- MCWellFormed
    Trimmed <- MCTrimmed
    MatchesEmpty <- MCMatchesEmpty
    JarOf <- MCJarOf
    Features <- MCFeatures
    Inputs <- MCInputs
    Published <- MCPublished
    Roots <- MCRoots
    Atoi <- MCAtoi
    Profiles <- MCProfiles
    OfflineUUID <- MCOfflineUUID
INVARIANTS
    OneFilePerDestination
    AcceptedCanSignIn
    ClasspathIsInstalled
    LastMatchDecides
    TemplatesAreFilled
    ManifestArgsOverride
    RuntimeIsTheVersionsOwn
