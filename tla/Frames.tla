-------------------------------- MODULE Frames --------------------------------
(***************************************************************************)
(* WebSocket frames of realtime/websocket.go on one connection: the bytes  *)
(* that WriteMessage or a client writes, and what ReadMessage or a client  *)
(* makes of them. A client may also send control frames and messages in    *)
(* fragments; ReadMessage takes every frame for a message. Bytes are small numbers: lengths up to Short take one,   *)
(* and the digits of a longer one are in base Base (256 in the code, where *)
(* Short is 125).                                                          *)
(***************************************************************************)
EXTENDS Naturals, Sequences, SequencesExt

CONSTANTS
    Short, Base,   \* the numbers above
    Payloads,      \* messages, whose bytes are single bits
    MaxSent        \* bound: messages of the connection

ASSUME FramesAssumption ==
    Short \in Nat /\ Base \in Nat \ {0} /\ Payloads \subseteq Seq({0, 1})

Code16 == Short + 1     \* 126: two digits follow
Code64 == Short + 2     \* 127: eight digits follow; here four

\* What the first byte says: a whole text message, a fragment of a message, or
\* a control frame (close, ping or pong; its payload is at most Short long).
Text == 0
Part == 1
Control == 2
FrameKinds == {Text, Part, Control}

VARIABLES
    serves,     \* whether the server writes and a client reads, or the other way round
    sent,       \* payloads of the frames written
    kinds,      \* their kinds
    stream,     \* bytes on the way
    arrived,    \* messages read
    open        \* the reader got no error so far

frameVars == <<serves, sent, kinds, stream, arrived, open>>

FramesInit ==
    /\ serves \in BOOLEAN
    /\ sent = <<>> /\ kinds = <<>> /\ stream = <<>> /\ arrived = <<>>
    /\ open = TRUE

\* Mutant: a length of Short goes into two digits that the first byte does not announce.
OneByteTooLong(n) == n <= Short + 1

OneByte(n) == n <= Short

Digits16(n) == <<(n \div Base) % Base, n % Base>>

\* byte(length>>8), byte(length): what is above two digits is lost.
WriteLength(n) == IF OneByte(n) THEN <<n>> ELSE <<Code16>> \o Digits16(n)

\* RFC 6455
ClientLength(n) ==
    CASE n <= Short -> <<n>>
      [] n > Short /\ n < Base * Base -> <<Code16>> \o Digits16(n)
      [] OTHER -> <<Code64>> \o Digits16(n \div (Base * Base)) \o Digits16(n)

\* The client masks its payload; the key is in the frame.
Masked(message, mask) == [i \in DOMAIN message |-> (message[i] + mask) % 2]

WriteMessage(message) ==
    /\ serves
    /\ kinds' = Append(kinds, Text)
    /\ stream' = stream \o <<Text>> \o WriteLength(Len(message)) \o message

ClientWrites(message) ==
    /\ ~serves
    /\ \E kind \in FrameKinds, mask \in {0, 1} :
          /\ kind = Control => Len(message) <= Short
          /\ kinds' = Append(kinds, kind)
          /\ stream' = stream \o <<kind>> \o ClientLength(Len(message)) \o <<mask>> \o Masked(message, mask)

WriteFrame(message) ==
    /\ Len(sent) < MaxSent
    /\ sent' = Append(sent, message)
    /\ WriteMessage(message) \/ ClientWrites(message)
    /\ UNCHANGED <<serves, arrived, open>>

\* The number whose two digits begin at place i.
Number(i) == stream[i] * Base + stream[i + 1]

\* A frame that begins where the stream does: the length it gives, and where
\* its payload begins. ReadMessage knows no length of eight digits.
Header == LET skip == IF serves THEN 0 ELSE 1
          IN  CASE stream[2] = Code16 -> [length |-> Number(3), from |-> 5 + skip]
                [] stream[2] = Code64 /\ serves -> [length |-> Number(3) * Base * Base + Number(5), from |-> 7 + skip]
                [] OTHER -> [length |-> stream[2], from |-> 3 + skip]

HasHeader ==
    /\ Len(stream) >= 2
    /\ stream[2] = Code16 => Len(stream) >= 4
    /\ stream[2] = Code64 /\ serves => Len(stream) >= 6

\* The first byte is read and never looked at.
ReadMessage ==
    /\ open /\ HasHeader
    /\ LET frame == Header
           to == frame.from + frame.length - 1
           mask == IF serves THEN 0 ELSE stream[frame.from - 1]
       IN  /\ Len(stream) >= to
           /\ arrived' = Append(arrived, Masked(SubSeq(stream, frame.from, to), mask))
           /\ stream' = SubSeq(stream, to + 1, Len(stream))
    /\ UNCHANGED <<serves, sent, kinds, open>>

\* io.ReadFull fails: the connection ends in the middle of a frame, or between two.
Disconnect ==
    /\ open
    /\ open' = FALSE
    /\ UNCHANGED <<serves, sent, kinds, stream, arrived>>

FramesNext == (\E message \in Payloads : WriteFrame(message)) \/ ReadMessage \/ Disconnect

-----------------------------------------------------------------------------
\* What WriteMessage writes and ReadMessage returns, with a client on the other
\* side: while no payload needs more than two digits, the payloads of the frames
\* arrive as they were sent, in order, none skipped and none made up, whatever
\* the kinds of the frames; a longer one loses the frames' boundaries.
FramesIntact ==
    (\A i \in DOMAIN sent : Len(sent[i]) < Base * Base) => IsPrefix(arrived, sent)

\* Does not hold: "ReadMessage reads a WebSocket text message frame"
\* (websocket.go): what it returns as a message was sent as one, not as a ping,
\* a close or a fragment.
ReadsTextMessages == \A i \in DOMAIN arrived : kinds[i] = Text
=============================================================================
