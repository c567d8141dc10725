CONSTANTS
    Versions <- MCVersions
    First = "v1"
    Paths <- MCPaths
    Assets <- MCAssets
    Static <- MCStatic
    Shell = "/"
    Tabs = {t1, t2}
    Null = Null
    NotFound = NotFound
    Failed = Failed
    MaxDeploys = 2
    MaxFailures = 1
SPECIFICATION FairSpec
INVARIANTS
    TypeOK
    PrecacheWhole
PROPERTIES
    LossExplained
    FollowsServer
