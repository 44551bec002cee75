\* Two chunks, two local readers and a remote one; four objects of any size,
\* one more than a socket keeps.
CONSTANTS
    Local = {1, 2}
    Remote = {3}
    MaxChunks = 2
    SendHWM = 3
    MaxObjects = 4
SPECIFICATION Spec
INVARIANT
    SocketNeverFull
PROPERTIES
    IsBroadcast
    ReaderKeepsChunk
    EnqueueReturns
CHECK_DEADLOCK FALSE
