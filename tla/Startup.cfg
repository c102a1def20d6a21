SPECIFICATION FairDeploySpec
CONSTANTS
    Replicas = {r1, r2}
    Build <- RollingBuild
    Versions = 3
    Unverified = {3}
    Own = {help, about}
    Builtin = {start}
    Locales = 3
    MenuLimit = 2
    MaxFaults = 2
    r1 = r1
    r2 = r2
    help = help
    about = about
    start = start
CHECK_DEADLOCK FALSE
INVARIANTS
    NoMigrationRepeated
    ServesItsSchema
    KeepsCommandsWithRoom
PROPERTIES
    EveryReplicaServes
