CONSTANTS
    registry = registry
    storage = storage
    NoHost = NoHost
    NoPort = 0
    Registry <- MCRegistry
    Hosts = {registry, storage}
    Ports = {443, 8443}
    Statuses <- MCStatuses
    MaxIdle = 1
SPECIFICATION FairSpec
INVARIANTS
    CredentialStaysHome
    VerdictIsTheRegistrys
    OnlySeenPeers
PROPERTIES
    ChainsEnd
