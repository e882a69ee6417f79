\* Two connections: any division of the stream of one, while the other is idle,
\* and one transient accept error.
SPECIFICATION Spec
CONSTANTS
    c1 = c1
    c2 = c2
    Conn = {c1, c2}
    Stream <- StreamOf
    Radix = 4
    LengthSize = 2
    CodeSize = 2
    TokenLengthAt = 1
    TokenLengthSize = 1
    MaximumFrameSize = 7
    MessageTypeHandshake = 1
    MessageTypeError = 2
    ErrUnsupportedMessageType = 1
    ErrInvalidHandshakePayload = 2
    ErrHandshakeTokenTruncated = 3
    ErrHandshakeNotImplemented = 4
    TextLength <- Texts
    MaxAcceptErrors = 1
CHECK_DEADLOCK FALSE
INVARIANTS
    AnswersInOrder
PROPERTIES
    CancelReturns
    ClientsServed
    FramesAnswered
