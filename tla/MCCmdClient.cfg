SPECIFICATION Spec
CONSTANTS
    Fds <- MCFds
    TRY = 2
INVARIANTS
    TypeOK
    NoSocketLeak
    ReadyHasSocket
    NotWatchedAtRest
PROPERTIES
    ErrorAfterFailedSend
    DisconnectServed
    DeadLinkDropped
    Reconnects
