SPECIFICATION Spec
CONSTANTS
    a = a
    b = b
    c = c
    d = d
    e = e
    g = g
    Messages = {a, b, c, d, e, g}
    Form <- MCForm
    NoMessage = NoMessage
    Frames = {1, 255}
    NoFrame = 255
    TypeErrLen = 1
    PacketMax = 512
    StatusLens = {1, 15, 16, 17, 60, 223, 224}
    MaxLen = 3
    MemoryFails = TRUE
INVARIANT DeliversWhatWasSent
INVARIANT WholeIsParsed
INVARIANT AnswersReadBack
CHECK_DEADLOCK FALSE
