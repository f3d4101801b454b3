SPECIFICATION Spec
CONSTANTS
    Fds <- MCFds
    TRY = 2
INVARIANTS
    SocketsOwned
PROPERTIES
    SilentClientDropped
    NotWorkingInTheEnd
    ServesAgain
