CONSTANTS
    old = old
    new = new
    cli = cli
    Servers = {old, new}
    Setups = {cli}
    Names <- Files
    Body <- Bodies
    Embedded <- Builds
    Envs <- Environments
    Unset = Unset
    NotANumber = NotANumber
    MaxStarts = 3
SPECIFICATION FairSpec
INVARIANTS
    TypeOK
    SchemaMatchesRecord
    RunsOnFullSchema
    SoloStartMigrates
    ProductionHasKey
PROPERTIES
    ImplementsSchemaHistory
    StartsSettle
