SPECIFICATION Spec
CONSTANTS
    Types <- MCTypes
    MaxConnects = 3
    MaxWaits = 30
    MaxEvents = 6
INVARIANTS
    TypeOK
    LinkKnown
    IdleIsOffline
PROPERTIES
    LossNoticed
    DisconnectObeyed
    ServiceSpec
