\* Connection::poll after maybe_cleanup: does the unwrap of get_recv_mut hold?
CONSTANTS
    MaxRemoteUniStreams = 1
    NStreams = 2
    StreamReceiveWindow = 2
    ReceiveWindow = 2
    MaxRx = 5
SPECIFICATION Spec
\* A connection that has failed takes no more steps.
CHECK_DEADLOCK FALSE
INVARIANT NoPanic
