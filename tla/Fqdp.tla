------------------------------- MODULE Fqdp -------------------------------
(***************************************************************************)
(* The FQDP server (package fqdp): the accept loop with the goroutine that *)
(* closes its listener, and one goroutine per connection that reads frames *)
(* off a TCP stream and answers each of them with an Error frame.          *)
(*                                                                         *)
(* A byte is a number below Radix.  A connection's stream is what its      *)
(* client sends in all; TCP delivers it in order, in pieces of any size.   *)
(* The text of an Error is as many arbitrary bytes as it is long.          *)
(***************************************************************************)
EXTENDS Integers, Sequences, SequencesExt

CONSTANTS
    Conn,
    Stream,             \* what the client of each connection may send
    Radix,              \* 256
    LengthSize,         \* bytes of a frame's length: 4
    CodeSize,           \* bytes of an error code, and of a text's length: 2
    TokenLengthAt,      \* offset of the token's length in a Handshake: 6
    TokenLengthSize,    \* and its bytes: 2
    MaximumFrameSize,
    MessageTypeHandshake, MessageTypeError,
    ErrUnsupportedMessageType, ErrInvalidHandshakePayload,
    ErrHandshakeTokenTruncated, ErrHandshakeNotImplemented,
    TextLength,         \* of the text of each error
    MaxAcceptErrors     \* bound: Accept fails that often while the listener is open

VARIABLES
    ctx,        \* "live" | "cancelled"
    listener,   \* "open" | "closed"
    loop,       \* StartTCPServer: "accepting" | "failed" (in its select) | "returned",
                \* or "killed" with the process
    errors,     \* how often Accept has failed
    client,     \* the client's end of each connection
    stream,     \* what it sends in all
    sent,       \* and how much of that has arrived
    taken,      \* how much of what was written to it it has read
    served,     \* serveConnection: "none" | "length" | "payload" | "frame" | "ended"
    read,       \* how much of the stream it has consumed
    buffer,     \* the bytes of the ReadFull that is running, or the frame read
    length,     \* the bytes it allocated for that ReadFull
    written,    \* the bytes written to the client
    answered    \* history: the codes of the frames answered

accepting == <<ctx, listener, loop, errors>>
peers == <<client, stream, sent, taken>>
serving == <<served, read, buffer, length, written, answered>>
vars == <<accepting, peers, serving>>

----------------------------------------------------------------------------
(* encoding/binary *)

BigEndian(bytes) ==
    LET upTo[i \in 0..Len(bytes)] == IF i = 0 THEN 0 ELSE Radix * upTo[i - 1] + bytes[i]
    IN  upTo[Len(bytes)]
Largest(size) == BigEndian([i \in 1..size |-> Radix - 1])
\* n >> 8 * k, and byte(n >> 8 * (size - i)) as byte i from the left.
Shifted(n, k) ==
    LET shifted[j \in 0..k] == IF j = 0 THEN n ELSE shifted[j - 1] \div Radix
    IN  shifted[k]
PutUint(n, size) == [i \in 1..size |-> Shifted(n, size - i) % Radix]

----------------------------------------------------------------------------
(* Messages *)

TokenTruncated(payload, at, tokenLen) == Len(payload) < at + tokenLen

\* The error a frame is answered with: nothing is implemented yet.
handleHandshake(payload) ==
    LET at == TokenLengthAt + TokenLengthSize
        tokenLen == BigEndian(SubSeq(payload, TokenLengthAt + 1, at))
    IN  IF Len(payload) < at THEN ErrInvalidHandshakePayload
        ELSE IF TokenTruncated(payload, at, tokenLen) THEN ErrHandshakeTokenTruncated
        ELSE ErrHandshakeNotImplemented
Dispatch(frame) ==
    IF frame[1] = MessageTypeHandshake THEN handleHandshake(Tail(frame))
    ELSE ErrUnsupportedMessageType

TotalLength(text) == 1 + CodeSize + CodeSize + text
sendError(code) ==
    LET text == TextLength[code] IN
    PutUint(TotalLength(text), LengthSize) \o <<MessageTypeError>>
        \o PutUint(code, CodeSize) \o PutUint(text, CodeSize) \o [i \in 1..text |-> 0]

\* Every code and every text fits in its field, every Error in a frame.
Byte == 0..(Radix - 1)
ErrorCode == {ErrUnsupportedMessageType, ErrInvalidHandshakePayload,
              ErrHandshakeTokenTruncated, ErrHandshakeNotImplemented}
ASSUME WireAssumption ==
    /\ Radix \in Nat \ {0} /\ LengthSize \in Nat \ {0} /\ CodeSize \in Nat
    /\ TokenLengthAt \in Nat /\ TokenLengthSize \in Nat /\ MaximumFrameSize \in Nat
    /\ \A c \in Conn : Stream[c] \subseteq Seq(Byte)
    /\ MessageTypeError \in Byte
ASSUME ErrorAssumption ==
    \A code \in ErrorCode :
        LET text == TextLength[code] IN
        /\ code \in 0..Largest(CodeSize) /\ text \in 0..Largest(CodeSize)
        /\ TotalLength(text) <= MaximumFrameSize /\ TotalLength(text) <= Largest(LengthSize)

----------------------------------------------------------------------------
(* StartTCPServer *)

Init ==
    /\ ctx = "live" /\ listener = "open" /\ loop = "accepting" /\ errors = 0
    /\ client = [c \in Conn |-> "idle"] /\ stream \in [Conn -> UNION {Stream[c] : c \in Conn}]
    /\ \A c \in Conn : stream[c] \in Stream[c]
    /\ sent = [c \in Conn |-> 0] /\ taken = [c \in Conn |-> 0]
    /\ served = [c \in Conn |-> "none"] /\ read = [c \in Conn |-> 0]
    /\ buffer = [c \in Conn |-> <<>>] /\ length = [c \in Conn |-> 0]
    /\ written = [c \in Conn |-> <<>>] /\ answered = [c \in Conn |-> <<>>]

Cancel ==
    /\ ctx = "live" /\ loop # "killed" /\ ctx' = "cancelled"
    /\ UNCHANGED <<listener, loop, errors, peers, serving>>

\* Clients still in the backlog are refused.
Refuse ==
    client' = [c \in Conn |-> IF client[c] = "connecting" THEN "refused" ELSE client[c]]

\* The goroutine that waits for ctx.
CloseListener ==
    /\ ctx = "cancelled" /\ listener = "open"
    /\ listener' = "closed" /\ Refuse
    /\ UNCHANGED <<ctx, loop, errors, stream, sent, taken, serving>>

\* Without "go", one connection at a time.
Accept_Inline(c) ==
    /\ \A d \in Conn : served[d] \in {"none", "ended"}
    /\ loop = "accepting" /\ listener = "open" /\ client[c] = "connecting"
    /\ client' = [client EXCEPT ![c] = "open"]
    /\ served' = [served EXCEPT ![c] = "length"]
    /\ length' = [length EXCEPT ![c] = LengthSize]
    /\ UNCHANGED <<accepting, stream, sent, taken, read, buffer, written, answered>>
Accept(c) ==
    /\ loop = "accepting" /\ listener = "open" /\ client[c] = "connecting"
    /\ client' = [client EXCEPT ![c] = "open"]
    /\ served' = [served EXCEPT ![c] = "length"]
    /\ length' = [length EXCEPT ![c] = LengthSize]
    /\ UNCHANGED <<accepting, stream, sent, taken, read, buffer, written, answered>>
AcceptFails ==
    /\ loop = "accepting"
    /\ listener = "open" => errors < MaxAcceptErrors
    /\ errors' = IF listener = "open" THEN errors + 1 ELSE errors
    /\ loop' = "failed"
    /\ UNCHANGED <<ctx, listener, peers, serving>>

AfterError_Retries == "accepting"
AfterError == IF ctx = "cancelled" THEN "returned" ELSE "accepting"
\* select on ctx.Done(); a return closes the listener, if it is open.
CheckDone ==
    /\ loop = "failed" /\ loop' = AfterError
    /\ IF loop' = "returned" THEN listener' = "closed" /\ Refuse
       ELSE UNCHANGED <<listener, client>>
    /\ UNCHANGED <<ctx, errors, stream, sent, taken, serving>>

\* run() returns, at any moment after StartTCPServer was called, or the process
\* is killed: it waits for none of these goroutines, and their sockets go.
Exit ==
    /\ loop # "killed" /\ loop' = "killed" /\ listener' = "closed"
    /\ client' = [c \in Conn |->
                     IF client[c] = "connecting" THEN "refused"
                     ELSE IF client[c] \in {"open", "closed"} THEN "reset" ELSE client[c]]
    /\ served' = [c \in Conn |-> IF served[c] = "none" THEN "none" ELSE "ended"]
    /\ buffer' = [c \in Conn |-> <<>>]
    /\ UNCHANGED <<ctx, errors, stream, sent, taken, read, length, written, answered>>

----------------------------------------------------------------------------
(* serveConnection *)

\* The next readFrame.
NextFrame_Appending(c) ==
    /\ served' = [served EXCEPT ![c] = "length"]
    /\ length' = [length EXCEPT ![c] = LengthSize]
    /\ UNCHANGED buffer
NextFrame(c) ==
    /\ served' = [served EXCEPT ![c] = "length"]
    /\ buffer' = [buffer EXCEPT ![c] = <<>>]
    /\ length' = [length EXCEPT ![c] = LengthSize]
Return(c) ==
    /\ served' = [served EXCEPT ![c] = "ended"]
    /\ buffer' = [buffer EXCEPT ![c] = <<>>]
    /\ UNCHANGED length

TooLong(size) == size > MaximumFrameSize

\* The length has been read: an empty frame is skipped.
ReadLength_EmptyEnds(c, bytes) ==
    LET size == BigEndian(bytes) IN
    IF size = 0 \/ TooLong(size) THEN Return(c)
    ELSE /\ served' = [served EXCEPT ![c] = "payload"]
         /\ buffer' = [buffer EXCEPT ![c] = <<>>]
         /\ length' = [length EXCEPT ![c] = size]
ReadLength(c, bytes) ==
    LET size == BigEndian(bytes) IN
    IF size = 0 THEN NextFrame(c)
    ELSE IF TooLong(size) THEN Return(c)
    ELSE /\ served' = [served EXCEPT ![c] = "payload"]
         /\ buffer' = [buffer EXCEPT ![c] = <<>>]
         /\ length' = [length EXCEPT ![c] = size]
ReadPayload(c, bytes) ==
    /\ served' = [served EXCEPT ![c] = "frame"]
    /\ buffer' = [buffer EXCEPT ![c] = bytes]
    /\ UNCHANGED length

\* io.ReadFull gets the bytes that have arrived, until it has all it wants.
Wanted(c) == length[c] - Len(buffer[c])
Available(c) == IF sent[c] - read[c] < Wanted(c) THEN sent[c] - read[c] ELSE Wanted(c)
Read(c) ==
    LET bytes == buffer[c] \o SubSeq(stream[c], read[c] + 1, read[c] + Available(c)) IN
    /\ served[c] \in {"length", "payload"} /\ Available(c) > 0
    /\ read' = [read EXCEPT ![c] = @ + Available(c)]
    /\ IF Len(bytes) < length[c]
       THEN buffer' = [buffer EXCEPT ![c] = bytes] /\ UNCHANGED <<served, length>>
       ELSE IF served[c] = "length" THEN ReadLength(c, bytes)
       ELSE ReadPayload(c, bytes)
    /\ UNCHANGED <<accepting, peers, written, answered>>

\* io.EOF, io.ErrUnexpectedEOF or a connection reset: what was read is dropped.
ReadFails(c) ==
    /\ served[c] \in {"length", "payload"}
    /\ client[c] \in {"closed", "reset"} /\ read[c] = sent[c]
    /\ Return(c)
    /\ UNCHANGED <<accepting, peers, read, written, answered>>

\* A Write that fails, for the connection was reset, is only logged.  It has no
\* deadline: while its client does not read, it may block for ever.
Drained(c) == client[c] = "reset" \/ taken[c] = Len(written[c])
Answer(c) ==
    LET code == Dispatch(buffer[c]) IN
    /\ served[c] = "frame"
    /\ IF client[c] # "reset" THEN written' = [written EXCEPT ![c] = @ \o sendError(code)]
       ELSE UNCHANGED written
    /\ answered' = [answered EXCEPT ![c] = Append(@, code)]
    /\ NextFrame(c)
    /\ UNCHANGED <<accepting, peers, read>>

----------------------------------------------------------------------------
(* Clients *)

Connect(c) ==
    /\ client[c] = "idle"
    /\ client' = [client EXCEPT ![c] = IF listener = "open" THEN "connecting" ELSE "refused"]
    /\ UNCHANGED <<accepting, stream, sent, taken, serving>>
Send(c) ==
    /\ client[c] \in {"connecting", "open"}
    /\ \E n \in (sent[c] + 1)..Len(stream[c]) : sent' = [sent EXCEPT ![c] = n]
    /\ UNCHANGED <<accepting, client, stream, taken, serving>>
\* The client may go before it has sent everything.  A reset, by a client that
\* is open or that was written to after it closed, loses what was not read.
Close(c) ==
    /\ client[c] = "open"
    /\ client' = [client EXCEPT ![c] = "closed"]
    /\ UNCHANGED <<accepting, stream, sent, taken, serving>>
Reset(c) ==
    /\ client[c] \in {"open", "closed"}
    /\ client' = [client EXCEPT ![c] = "reset"]
    /\ \E n \in read[c]..sent[c] : sent' = [sent EXCEPT ![c] = n]
    /\ UNCHANGED <<accepting, stream, taken, serving>>
\* The client reads all there is; less would free no Write.
Take(c) ==
    /\ client[c] \in {"open", "closed"} /\ taken[c] < Len(written[c])
    /\ taken' = [taken EXCEPT ![c] = Len(written[c])]
    /\ UNCHANGED <<accepting, client, stream, sent, serving>>

Next ==
    \/ Cancel \/ CloseListener \/ AcceptFails \/ CheckDone \/ Exit
    \/ \E c \in Conn :
         \/ Accept(c) \/ Read(c) \/ ReadFails(c) \/ Answer(c)
         \/ Connect(c) \/ Send(c) \/ Close(c) \/ Reset(c) \/ Take(c)

\* The server's goroutines are scheduled while the process lasts, which may end
\* or not.  Clients owe nothing, not even to read: a Write returns for certain
\* only if its client has read all that was written before.
Fairness ==
    /\ WF_vars(CloseListener) /\ WF_vars(CheckDone)
    /\ WF_vars(AcceptFails /\ listener = "closed")
    /\ \A c \in Conn : WF_vars(Accept(c)) /\ WF_vars(Read(c)) /\ WF_vars(ReadFails(c))
                       /\ WF_vars(Answer(c) /\ Drained(c))

Spec == Init /\ [][Next]_vars /\ Fairness

----------------------------------------------------------------------------
(* Properties *)

\* What docs/fqdp.md 3 says of a stream, read as a whole: the frames that are
\* complete, the empty ones left out, up to the first that is too long.
Number(bytes) == CHOOSE n \in 0..Largest(Len(bytes)) : PutUint(n, Len(bytes)) = bytes
OneFrameMore(bytes, parsed) ==
    LET lengthEnd == parsed.at + LengthSize
        size == Number(SubSeq(bytes, parsed.at + 1, lengthEnd))
        end == lengthEnd + size
    IN  IF Len(bytes) < lengthEnd \/ size > MaximumFrameSize \/ Len(bytes) < end THEN parsed
        ELSE [at |-> end,
              frames |-> IF size = 0 THEN parsed.frames
                         ELSE Append(parsed.frames, SubSeq(bytes, lengthEnd + 1, end))]
Parsed(bytes, n) ==
    LET upTo[i \in 0..n] == IF i = 0 THEN [at |-> 0, frames |-> <<>>]
                            ELSE OneFrameMore(bytes, upTo[i - 1])
    IN  upTo[n]
FramesOf(bytes) == Parsed(bytes, Len(bytes)).frames
CodeOf(frame) ==
    LET tokenAt == 1 + TokenLengthAt + TokenLengthSize IN
    IF frame[1] # MessageTypeHandshake THEN ErrUnsupportedMessageType
    ELSE IF Len(frame) < tokenAt THEN ErrInvalidHandshakePayload
    ELSE IF tokenAt + Number(SubSeq(frame, 2 + TokenLengthAt, tokenAt)) <= Len(frame)
    THEN ErrHandshakeNotImplemented
    ELSE ErrHandshakeTokenTruncated
Codes(bytes) == LET frames == FramesOf(bytes) IN [i \in DOMAIN frames |-> CodeOf(frames[i])]
Arrived(c) == SubSeq(stream[c], 1, sent[c])

Answers(c) ==
    LET frames == FramesOf(written[c])
    IN  [i \in DOMAIN frames |-> <<frames[i][1], Number(SubSeq(frames[i], 2, 1 + CodeSize))>>]

\* However the stream is cut into pieces, frames are answered in order, each
\* once, with the error it calls for (readFrame, serveConnection); and what the
\* server writes is frames by the same rules, in which its client reads those
\* answers, up to the ones it did not stay for (sendError).
AnswersInOrder ==
    \A c \in Conn :
        LET errorFrames == [i \in DOMAIN answered[c] |-> <<MessageTypeError, answered[c][i]>>]
        IN  /\ IsPrefix(answered[c], Codes(stream[c]))
            /\ IsPrefix(Answers(c), errorFrames)
            /\ client[c] # "reset" => Answers(c) = errorFrames

\* Once ctx is cancelled the server ends, before the process if that lasts: the
\* listener is closed under the blocked Accept, and its error is told from any other.
CancelReturns == ctx = "cancelled" ~> loop \in {"returned", "killed"}

\* A client that connects is served, whatever errors Accept had before and
\* whatever the other connections do, idle or blocked in a Write for ever, unless
\* the server is being stopped.
ClientsServed ==
    \A c \in Conn :
        client[c] = "connecting" ~> served[c] # "none" \/ ctx = "cancelled" \/ loop = "killed"

\* To a client that reads what it is sent, every frame of a connection that was
\* accepted and that arrived complete is answered in the end, as long as the
\* process lasts: also when the client closes its end, and after ctx is cancelled.
FramesAnswered ==
    \A c \in Conn :
        []<>Drained(c)
            => <>[](loop # "killed" /\ served[c] # "none" => answered[c] = Codes(Arrived(c)))
=============================================================================
