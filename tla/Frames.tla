------------------------------- MODULE Frames -------------------------------
(***************************************************************************)
(* The bytes of a GT06 connection (internal/gpsv2/device/gt06: frame.go,   *)
(* newFrame and newCommand of parser.go): one end writes frames, the other *)
(* reads them with readMessage in the loop of run(), into the one Message  *)
(* and the one Buffer that the device keeps for all its connections.       *)
(*                                                                         *)
(* A short frame is                                                        *)
(*    START START length protocol payload serial(2) check(2) CR LF         *)
(* and an extended one has START2 and a length of two bytes; the length    *)
(* counts from the protocol to the check sum.  readMessage never looks at  *)
(* the check sum: here it is any two bytes.  Bytes arrive one by one, and  *)
(* the read deadline may pass before any of them.                          *)
(***************************************************************************)
EXTENDS Naturals, Sequences

CONSTANTS
    Radix,          \* values of a byte (256)
    START, START2,  \* 0x78 and 0x79
    CR, LF,         \* the two bytes that end a frame
    serverCommand,  \* the protocol number of commands (0x80)
    MinPayload,     \* of a protocol number: bytes its parser indexes unasked
    Message,        \* the messages that are written
    BufLen,         \* length of Buffer (1000)
    MaxSent,        \* bound: frames written on a connection
    MaxConn         \* bound: connections of the device

Byte == 0..(Radix - 1)

ASSUME FramesAssumption ==
    /\ Radix \in Nat \ {0} /\ BufLen \in Nat /\ BufLen >= 4
    /\ {START, START2, CR, LF, serverCommand} \subseteq Byte
    /\ START # START2
    /\ Message \subseteq [protocol : Byte, payload : Seq(Byte), serial : Nat,
                           check : Seq(Byte), extended : BOOLEAN]
    /\ \A m \in Message : Len(m.check) = 2
    /\ MaxSent \in Nat /\ MaxConn \in Nat

(* The message that a device starts with has no payload.                   *)
ASSUME MinPayloadAssumption == MinPayload \in [Byte -> Nat] /\ MinPayload[0] = 0

(* Two bytes, big endian.                                                  *)
uint16(x) == x % (Radix * Radix)
PutUint16(x) == <<uint16(x) \div Radix, uint16(x) % Radix>>
Uint16(hi, lo) == hi * Radix + lo

(* After the payload.                                                      *)
Trailer(m) == PutUint16(m.serial) \o m.check \o <<CR, LF>>

newFrame(m) ==
    <<START, START, (Len(m.payload) + 5) % Radix, m.protocol>> \o m.payload \o Trailer(m)

(* Terminals alone write these.                                            *)
extendedFrame(m) ==
    <<START2, START2>> \o PutUint16(Len(m.payload) + 5) \o <<m.protocol>> \o m.payload \o Trailer(m)

(* newCommand: the length of the text, the server flag, the text.          *)
newCommand(text, flag, serial, check) ==
    [protocol |-> serverCommand, serial |-> serial, check |-> check, extended |-> FALSE,
     payload  |-> <<Len(text) % Radix, 0, 0, 0, flag>> \o text]

Frame(m) == IF m.extended THEN extendedFrame(m) ELSE newFrame(m)

(* What a reader is to make of a message.                                  *)
Content(m) == [protocol |-> m.protocol, payload |-> m.payload, serial |-> uint16(m.serial)]

(* The parser of its protocol indexes the payload beyond its end.          *)
TooShort(m) == Len(m.payload) < MinPayload[m.protocol]

(* The length fits in its field, and the frame in the reader's buffer.     *)
Fits(m) ==
    /\ Len(m.payload) + 5 < IF m.extended THEN Radix * Radix ELSE Radix
    /\ Len(Frame(m)) <= BufLen

VARIABLES
    wire,     \* bytes written and not read
    sent,     \* history: the messages written on the connection
    Buffer,   \* msg.Buffer
    msg,      \* the other fields of gt06.msg; Payload is a slice of Buffer
    got,      \* bytes of the frame that are in Buffer
    need,     \* bytes the ReadFull in progress asks for
    pc,       \* of run()
    timeout_ping_sent,
    handled,  \* history: the frames the switch of run() was given, by connection
    repeated, \* history: what it was given again, by connection
    last,     \* history: the frame decoded last
    lost,     \* history: the deadline passed inside a frame
    torn,     \* history: bytes of another frame's body have been read since
    conns     \* connections so far

readVars == <<Buffer, msg, got, need>>
histVars == <<sent, handled, repeated, last, lost, torn, conns>>
vars == <<wire, readVars, pc, timeout_ping_sent, histVars>>

Nothing == [protocol |-> 0, payload |-> <<>>, serial |-> 0]

Init ==
    /\ wire = <<>> /\ sent = <<>>
    /\ Buffer = [i \in 1..BufLen |-> 0]
    /\ msg = [Protocol |-> 0, from |-> 1, to |-> 0, Serial |-> 0, Extended |-> FALSE, Length |-> 0]
    /\ got = 0 /\ need = 4
    /\ pc = "read"
    /\ timeout_ping_sent = FALSE
    /\ handled = <<>> /\ repeated = <<>> /\ last = Nothing /\ lost = FALSE /\ torn = FALSE
    /\ conns = 1

(* Nothing is read any more: the connection or the process has ended, or   *)
(* run() is in a call that does not return.                                *)
Over == pc \in {"closed", "bad", "panic", "stuck"}

-----------------------------------------------------------------------------
(* The other end; what it writes after the end is not read.                *)
Write(m) ==
    /\ ~Over
    /\ Len(sent) < MaxSent
    /\ wire' = wire \o Frame(m)
    /\ sent' = Append(sent, m)
    /\ UNCHANGED <<readVars, pc, timeout_ping_sent, handled, repeated, last, lost, torn, conns>>

(* io.ReadFull.                                                            *)
TakeByte ==
    /\ pc = "read" /\ got < need
    /\ wire # <<>>
    /\ Buffer' = [Buffer EXCEPT ![got + 1] = Head(wire)]
    /\ got' = got + 1
    /\ wire' = Tail(wire)
    /\ torn' = (torn \/ got >= 4)
    /\ UNCHANGED <<msg, need, pc, timeout_ping_sent, sent, handled, repeated, last, lost, conns>>

short    == Buffer[1] = START
extended == ~short /\ Buffer[2] = START2
length   == IF short THEN Buffer[3] ELSE Uint16(Buffer[3], Buffer[4])
frame_length_ofShort == length + 5
frame_length == length + (IF short THEN 5 ELSE 6)

Header_anyLength ==
    /\ pc = "read" /\ got = 4 /\ need = 4
    /\ short \/ extended
    /\ msg' = [msg EXCEPT !.Length = frame_length, !.Extended = @ \/ extended]
    /\ need' = frame_length
    /\ UNCHANGED <<wire, Buffer, got, pc, timeout_ping_sent, histVars>>

Header_setsProtocol ==
    /\ pc = "read" /\ got = 4 /\ need = 4
    /\ short \/ extended
    /\ msg' = [msg EXCEPT !.Length = frame_length, !.Protocol = Buffer[4]]
    /\ IF frame_length <= BufLen
       THEN need' = frame_length /\ UNCHANGED pc
       ELSE pc' = "bad" /\ UNCHANGED need
    /\ UNCHANGED <<wire, Buffer, got, timeout_ping_sent, histVars>>

(* The four bytes tell how long the frame is.                              *)
Header ==
    /\ pc = "read" /\ got = 4 /\ need = 4
    /\ short \/ extended
    /\ msg' = [msg EXCEPT !.Length = frame_length, !.Extended = @ \/ extended]
    /\ IF frame_length <= BufLen
       THEN need' = frame_length /\ UNCHANGED pc
       ELSE pc' = "bad" /\ UNCHANGED need
    /\ UNCHANGED <<wire, Buffer, got, timeout_ping_sent, histVars>>

BadHeader ==
    /\ pc = "read" /\ got = 4 /\ need = 4
    /\ ~short /\ ~extended
    /\ pc' = "bad"
    /\ UNCHANGED <<wire, readVars, timeout_ping_sent, histVars>>

Body == pc = "read" /\ need > 4 /\ got = need
Ends == Buffer[need - 1] = CR /\ Buffer[need] = LF

(* Where var_buf begins.                                                   *)
var_buf == IF short THEN 4 ELSE 5

Decoded_withSerial ==
    [msg EXCEPT !.Protocol = Buffer[var_buf],
                !.from = var_buf + 1,
                !.to = var_buf + length - 3,
                !.Serial = Uint16(Buffer[var_buf + length - 4], Buffer[var_buf + length - 3])]

Decoded ==
    [msg EXCEPT !.Protocol = Buffer[var_buf],
                !.from = var_buf + 1,
                !.to = var_buf + length - 5,
                !.Serial = Uint16(Buffer[var_buf + length - 4], Buffer[var_buf + length - 3])]

Payload(b, p) == [i \in 1..(p.to + 1 - p.from) |-> b[p.from + i - 1]]
Contents(b, p) == [protocol |-> p.Protocol, payload |-> Payload(b, p), serial |-> p.Serial]

Decode_skipsEmpty ==
    /\ Body /\ Ends
    /\ length >= 5
    /\ msg' = Decoded
    /\ last' = Contents(Buffer, Decoded) /\ torn' = FALSE
    /\ IF length = 5 THEN got' = 0 /\ need' = 4 /\ pc' = "read"
                     ELSE pc' = "handle" /\ UNCHANGED <<got, need>>
    /\ UNCHANGED <<wire, Buffer, timeout_ping_sent, sent, handled, repeated, lost, conns>>

Decode ==
    /\ Body /\ Ends
    /\ length >= 5
    /\ msg' = Decoded
    /\ last' = Contents(Buffer, Decoded) /\ torn' = FALSE
    /\ pc' = "handle"
    /\ UNCHANGED <<wire, Buffer, got, need, timeout_ping_sent, sent, handled, repeated, lost, conns>>

(* A length below 5 makes the bounds of Payload wrong: the server panics.  *)
DecodePanics ==
    /\ Body /\ Ends
    /\ length < 5
    /\ pc' = "panic"
    /\ UNCHANGED <<wire, readVars, timeout_ping_sent, histVars>>

BadBody ==
    /\ Body /\ ~Ends
    /\ pc' = "bad"
    /\ UNCHANGED <<wire, readVars, timeout_ping_sent, histVars>>

(* The switch of run() on gt06.msg, and the next call of readMessage.  The *)
(* parsers do not look at the length of a payload before they index it,    *)
(* and nobody recovers from the panic: it ends the process.  An answer     *)
(* that cannot be written ends the connection; a push to a subscriber, or  *)
(* an answer to a terminal that reads no more, need not return.            *)
Switch(m) ==
    /\ IF TooShort(m) THEN pc' = "panic" ELSE pc' \in {"read", "closed", "stuck"}
    /\ got' = 0 /\ need' = 4

Handle ==
    /\ pc = "handle"
    /\ Switch(Contents(Buffer, msg))
    /\ handled' = Append(handled, Contents(Buffer, msg))
    /\ UNCHANGED <<wire, Buffer, msg, timeout_ping_sent, sent, repeated, last, lost, torn, conns>>

(* The deadline passes while ReadFull waits.  The first time a STATUS# is  *)
(* sent, and the switch follows on the frame that is still in msg.         *)
TimeoutPing ==
    /\ pc = "read" /\ got < need
    /\ ~timeout_ping_sent
    /\ timeout_ping_sent' = TRUE
    /\ lost' = (lost \/ got > 0)
    /\ \/ Switch(Contents(Buffer, msg)) /\ repeated' = Append(repeated, Contents(Buffer, msg))
       \/ pc' = "closed" /\ UNCHANGED <<repeated, got, need>>
    /\ UNCHANGED <<wire, Buffer, msg, sent, handled, last, torn, conns>>

TimeoutClose ==
    /\ pc = "read" /\ got < need
    /\ timeout_ping_sent
    /\ pc' = "closed"
    /\ UNCHANGED <<wire, readVars, timeout_ping_sent, histVars>>

(* The connection ends, whatever is still on its way.                      *)
ReadError ==
    /\ pc = "read" /\ got < need
    /\ pc' = "closed"
    /\ UNCHANGED <<wire, readVars, timeout_ping_sent, histVars>>

(* run() on the next connection, after its login: msg and Buffer stay.     *)
NextConn ==
    /\ pc \in {"closed", "bad"}
    /\ conns < MaxConn
    /\ conns' = conns + 1
    /\ wire' = <<>> /\ sent' = <<>> /\ handled' = <<>> /\ repeated' = <<>> /\ lost' = FALSE
    /\ got' = 0 /\ need' = 4
    /\ timeout_ping_sent' = FALSE
    /\ pc' = "read"
    /\ UNCHANGED <<Buffer, msg, last, torn>>

-----------------------------------------------------------------------------
ReadStep ==
    TakeByte \/ Header \/ BadHeader \/ Decode \/ DecodePanics \/ BadBody \/ Handle

Next ==
    \/ \E m \in Message : Write(m)
    \/ ReadStep \/ TimeoutPing \/ TimeoutClose \/ ReadError \/ NextConn

Spec == Init /\ [][Next]_vars

(* The goroutine of run() goes on as long as there are bytes, unless it is *)
(* stuck in a call that does not return: Handle may end there.             *)
FairSpec == Spec /\ WF_vars(ReadStep)

-----------------------------------------------------------------------------
(* A message whose frame cannot be read is among the first n.              *)
LongAmong(n) == \E i \in 1..n : i <= Len(sent) /\ ~Fits(sent[i])

(* The n-th message that was written is too short for its parser.          *)
ShortAt(n) == n \in DOMAIN sent /\ TooShort(sent[n])

(* Types of gt06.msg and of the local variables of readMessage and run().  *)
(* The slice of the payload lies within the buffer (frame.go:48-66).       *)
TypeOK ==
    /\ wire \in Seq(Byte)
    /\ Buffer \in [1..BufLen -> Byte]
    /\ msg \in [Protocol : Byte, from : 1..BufLen, to : 0..BufLen, Serial : Nat,
               Extended : BOOLEAN, Length : Nat]
    /\ need \in 4..BufLen /\ got \in 0..need
    /\ pc \in {"read", "handle", "closed", "bad", "panic", "stuck"}
    /\ timeout_ping_sent \in BOOLEAN /\ lost \in BOOLEAN /\ torn \in BOOLEAN
    /\ conns \in Nat

(* The frames decoded on a connection are those that were written on it,   *)
(* none left out and none mixed with another, up to the first whose length *)
(* does not fit in its field or in the buffer (parser.go:261,              *)
(* frame.go:48), unless a deadline passed inside a frame: the bytes read   *)
(* by then are gone (frame.go:52-55).                                      *)
InOrder ==
    lost \/ \A i \in DOMAIN handled :
                \/ LongAmong(i)
                \/ i <= Len(sent) /\ handled[i] = Content(sent[i])

(* A connection ends with errBadFrame or "buffer too small" only after     *)
(* such a deadline or such a frame, and the process ends with a panic of   *)
(* readMessage (frame.go:65) or of a parser (parser.go:140-253) only after *)
(* one of these, or when it handles, in its turn, a frame that the other   *)
(* end wrote too short for its parser; the frame that a first deadline     *)
(* makes it handle again never does it.                                    *)
ErrorsExplained ==
    /\ pc = "bad" => lost \/ LongAmong(Len(sent))
    /\ pc = "panic" => lost \/ LongAmong(Len(sent)) \/ ShortAt(Len(handled))

(* After the first deadline run() handles gt06.msg again (gt06.go:479-498) *)
(* and Payload is a slice of the buffer that is being read into: what is   *)
(* handled is the frame decoded last, on this or an earlier connection,    *)
(* unless a part of another one was read after its header.                 *)
RepeatsLast ==
    [][repeated' # repeated /\ repeated' # <<>>
          => LET h == repeated'[Len(repeated')]
             IN  /\ h.protocol = last.protocol /\ h.serial = last.serial
                 /\ h.payload = last.payload \/ torn]_vars

(* What was written is decoded, as long as every frame so far could be     *)
(* read, the connection and the process last, and run() is not stuck in a  *)
(* push or an answer that does not return.                                 *)
Delivered ==
    \A n \in 1..MaxSent :
        Len(sent) >= n ~> Len(handled) >= n \/ Over \/ lost \/ LongAmong(n)
=============================================================================
