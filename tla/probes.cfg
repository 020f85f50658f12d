CONSTANTS
    Loops = {l1, l2}
    Idle = Idle
    Checks <- MCChecks
    Sights <- MCSights
    Self = "me"
    Strays <- MCStrays
    Latencies = {1, 2, 3, 5}
    SeqSpace = 3
    Window = 3
    MaxEchoes = 4
    Ms = 2
    Day = 4
    Half = 16
    DefaultTimeout = 5
    NoResult = NoResult
SPECIFICATION Spec
INVARIANTS TypeOK OwnReplyOnly AsDocumented
CHECK_DEADLOCK FALSE
