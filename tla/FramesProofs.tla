---------------------------- MODULE FramesProofs ----------------------------
(***************************************************************************)
(* Proofs about Frames for any size of a byte, of the buffer and of the    *)
(* messages.                                                               *)
(***************************************************************************)
EXTENDS Frames, TLAPS

(* Two bytes hold a number below the square of what one holds.             *)
LEMMA DivFacts ==
    ASSUME NEW u \in Nat, NEW r \in Nat \ {0}, u < r * r
    PROVE  /\ u % r \in 0..(r - 1) /\ u \div r \in 0..(r - 1)
           /\ (u \div r) * r + (u % r) = u
<1>1. u % r \in 0..(r - 1) /\ u \div r \in Nat /\ (u \div r) * r + (u % r) = u
  OBVIOUS
<1> DEFINE q == u \div r
<1>2. q \in Nat /\ q * r <= u
  BY <1>1
<1> HIDE DEF q
<1>3. ASSUME q >= r PROVE FALSE
  <2>1. q * r >= r * r
    BY <1>2, <1>3
  <2>2. QED
    BY <1>2, <2>1
<1>4. q \in 0..(r - 1)
  BY <1>2, <1>3
<1>5. QED
  BY <1>1, <1>4 DEF q

LEMMA Uint16Facts ==
    ASSUME NEW x \in Nat
    PROVE  /\ uint16(x) \in Nat
           /\ x < Radix * Radix => uint16(x) = x
           /\ \E hi, lo \in Byte : PutUint16(x) = <<hi, lo>> /\ Uint16(hi, lo) = uint16(x)
<1>1. Radix \in Nat \ {0} /\ Radix * Radix \in Nat \ {0}
  BY FramesAssumption
<1>2. uint16(x) \in Nat /\ uint16(x) < Radix * Radix /\ (x < Radix * Radix => uint16(x) = x)
  <2> DEFINE s == Radix * Radix
  <2>1. s \in Nat \ {0}
    BY <1>1
  <2> HIDE DEF s
  <2>2. x % s \in Nat /\ x % s < s /\ (x < s => x % s = x)
    BY <2>1
  <2>3. QED
    BY <2>2 DEF uint16, s
<1>3. QED
  BY <1>1, <1>2, DivFacts DEF PutUint16, Uint16, Byte

ConcatIs(c, s, t) ==
    /\ c \in Seq(Byte) /\ Len(s) \in Nat /\ Len(t) \in Nat /\ Len(c) = Len(s) + Len(t)
    /\ \A i \in 1..Len(s) : c[i] = s[i]
    /\ \A i \in 1..Len(t) : c[Len(s) + i] = t[i]

LEMMA ConcatFacts == \A s, t \in Seq(Byte) : ConcatIs(s \o t, s, t)
BY DEF ConcatIs

(* Where var_buf begins in the frame of a message.                         *)
Head4(m) == IF m.extended THEN 5 ELSE 4

(* What stands where in a frame.                                           *)
LEMMA FrameLayout ==
    ASSUME NEW m \in Message
    PROVE  /\ Frame(m) \in Seq(Byte)
           /\ Len(m.payload) \in Nat
           /\ Len(Frame(m)) = Len(m.payload) + Head4(m) + 6
           /\ m.extended => /\ Frame(m)[1] = START2 /\ Frame(m)[2] = START2
                            /\ Uint16(Frame(m)[3], Frame(m)[4]) = uint16(Len(m.payload) + 5)
           /\ ~m.extended => /\ Frame(m)[1] = START
                             /\ Frame(m)[3] = (Len(m.payload) + 5) % Radix
           /\ Frame(m)[Head4(m)] = m.protocol
           /\ \A i \in 1..Len(m.payload) : Frame(m)[Head4(m) + i] = m.payload[i]
           /\ Uint16(Frame(m)[Head4(m) + Len(m.payload) + 1], Frame(m)[Head4(m) + Len(m.payload) + 2])
                 = uint16(m.serial)
           /\ Frame(m)[Head4(m) + Len(m.payload) + 5] = CR
           /\ Frame(m)[Head4(m) + Len(m.payload) + 6] = LF
<1> DEFINE L == Len(m.payload)
<1>1. /\ m.payload \in Seq(Byte) /\ m.check \in Seq(Byte) /\ Len(m.check) = 2
      /\ m.serial \in Nat /\ m.protocol \in Byte /\ m.extended \in BOOLEAN
      /\ START \in Byte /\ START2 \in Byte /\ CR \in Byte /\ LF \in Byte
  BY FramesAssumption
<1>2. L \in Nat /\ L + 5 \in Nat
  BY <1>1
<1>3. (L + 5) % Radix \in Byte
  <2>1. Radix \in Nat \ {0} /\ L + 5 \in Nat
    BY <1>2, FramesAssumption
  <2> HIDE DEF L
  <2>2. QED
    BY <2>1 DEF Byte
<1>4. PICK sh, sl \in Byte : PutUint16(m.serial) = <<sh, sl>> /\ Uint16(sh, sl) = uint16(m.serial)
  BY <1>1, Uint16Facts
<1>5. PICK lh, ll \in Byte : PutUint16(L + 5) = <<lh, ll>> /\ Uint16(lh, ll) = uint16(L + 5)
  BY <1>2, Uint16Facts
<1> HIDE DEF L
<1>6. /\ Trailer(m) \in Seq(Byte) /\ Len(Trailer(m)) = 6
      /\ Trailer(m)[1] = sh /\ Trailer(m)[2] = sl /\ Trailer(m)[5] = CR /\ Trailer(m)[6] = LF
  <2> DEFINE s == <<sh, sl>>  e == <<CR, LF>>
  <2>1. /\ s \in Seq(Byte) /\ Len(s) = 2 /\ s[1] = sh /\ s[2] = sl
        /\ e \in Seq(Byte) /\ Len(e) = 2 /\ e[1] = CR /\ e[2] = LF
    BY <1>1
  <2>2. Trailer(m) = s \o m.check \o e
    BY <1>4 DEF Trailer
  <2> HIDE DEF s, e
  <2> DEFINE sc == s \o m.check
  <2>3. sc = s \o m.check /\ Trailer(m) = sc \o e
    BY <2>2
  <2> HIDE DEF sc
  <2>4. sc \in Seq(Byte) /\ Len(sc) = 4 /\ \A i \in 1..2 : sc[i] = s[i]
    <3>1. ConcatIs(sc, s, m.check)
      BY <1>1, <2>1, <2>3, ConcatFacts
    <3>2. QED
      BY <1>1, <2>1, <3>1 DEF ConcatIs
  <2>5. /\ Trailer(m) \in Seq(Byte) /\ Len(Trailer(m)) = 6
        /\ \A i \in 1..4 : Trailer(m)[i] = sc[i]
        /\ \A i \in 1..2 : Trailer(m)[4 + i] = e[i]
    <3>1. ConcatIs(Trailer(m), sc, e)
      BY <2>1, <2>3, <2>4, ConcatFacts
    <3>2. QED
      BY <2>1, <2>4, <3>1 DEF ConcatIs
  <2>6. Trailer(m)[1] = sc[1] /\ Trailer(m)[2] = sc[2] /\ Trailer(m)[4 + 1] = e[1] /\ Trailer(m)[4 + 2] = e[2]
    BY <2>5
  <2>7. QED
    BY <2>1, <2>4, <2>5, <2>6
<1>7. CASE ~m.extended
  <2> DEFINE h == <<START, START, (L + 5) % Radix, m.protocol>>
  <2>1. /\ h \in Seq(Byte) /\ Len(h) = 4
        /\ h[1] = START /\ h[3] = (L + 5) % Radix /\ h[4] = m.protocol
    BY <1>1, <1>3
  <2>2. Frame(m) = h \o m.payload \o Trailer(m)
    BY <1>7 DEF Frame, newFrame, L
  <2> HIDE DEF h
  <2> DEFINE hp == h \o m.payload
  <2>3. hp = h \o m.payload /\ Frame(m) = hp \o Trailer(m)
    BY <2>2
  <2> HIDE DEF hp
  <2>4. /\ hp \in Seq(Byte) /\ Len(hp) = 4 + L
        /\ \A i \in 1..4 : hp[i] = h[i]
        /\ \A i \in 1..L : hp[4 + i] = m.payload[i]
    <3>1. ConcatIs(hp, h, m.payload)
      BY <1>1, <2>1, <2>3, ConcatFacts
    <3>2. QED
      BY <2>1, <3>1 DEF ConcatIs, L
  <2>5. /\ Frame(m) \in Seq(Byte) /\ Len(Frame(m)) = L + 10
        /\ \A i \in 1..(4 + L) : Frame(m)[i] = hp[i]
        /\ \A i \in 1..6 : Frame(m)[4 + L + i] = Trailer(m)[i]
    <3>1. Len(hp) + Len(Trailer(m)) = L + 10
      BY <1>2, <1>6, <2>4
    <3>2. ConcatIs(Frame(m), hp, Trailer(m))
      BY <1>6, <2>3, <2>4, ConcatFacts
    <3>3. QED
      BY <1>6, <2>4, <3>1, <3>2 DEF ConcatIs
  <2>6. Frame(m)[4 + L + 1] = sh /\ Frame(m)[4 + L + 2] = sl
        /\ Frame(m)[4 + L + 5] = CR /\ Frame(m)[4 + L + 6] = LF
    BY <1>6, <2>5
  <2>7. Frame(m)[1] = START /\ Frame(m)[3] = (L + 5) % Radix /\ Frame(m)[4] = m.protocol
    BY <1>2, <2>1, <2>4, <2>5
  <2>8. \A i \in 1..L : Frame(m)[4 + i] = m.payload[i]
    <3>1. \A i \in 1..L : 4 + i \in 1..(4 + L)
      BY <1>2
    <3>2. QED
      BY <2>4, <2>5, <3>1
  <2>9. QED
    BY <1>2, <1>4, <1>7, <2>5, <2>6, <2>7, <2>8 DEF Head4, L
<1>8. CASE m.extended
  <2> DEFINE h == <<START2, START2>> \o <<lh, ll>> \o <<m.protocol>>
  <2>1. /\ h \in Seq(Byte) /\ Len(h) = 5
        /\ h[1] = START2 /\ h[2] = START2 /\ h[3] = lh /\ h[4] = ll /\ h[5] = m.protocol
    BY <1>1
  <2>2. Frame(m) = h \o m.payload \o Trailer(m)
    BY <1>5, <1>8 DEF Frame, extendedFrame, L
  <2> HIDE DEF h
  <2> DEFINE hp == h \o m.payload
  <2>3. hp = h \o m.payload /\ Frame(m) = hp \o Trailer(m)
    BY <2>2
  <2> HIDE DEF hp
  <2>4. /\ hp \in Seq(Byte) /\ Len(hp) = 5 + L
        /\ \A i \in 1..5 : hp[i] = h[i]
        /\ \A i \in 1..L : hp[5 + i] = m.payload[i]
    <3>1. ConcatIs(hp, h, m.payload)
      BY <1>1, <2>1, <2>3, ConcatFacts
    <3>2. QED
      BY <2>1, <3>1 DEF ConcatIs, L
  <2>5. /\ Frame(m) \in Seq(Byte) /\ Len(Frame(m)) = L + 11
        /\ \A i \in 1..(5 + L) : Frame(m)[i] = hp[i]
        /\ \A i \in 1..6 : Frame(m)[5 + L + i] = Trailer(m)[i]
    <3>1. Len(hp) + Len(Trailer(m)) = L + 11
      BY <1>2, <1>6, <2>4
    <3>2. ConcatIs(Frame(m), hp, Trailer(m))
      BY <1>6, <2>3, <2>4, ConcatFacts
    <3>3. QED
      BY <1>6, <2>4, <3>1, <3>2 DEF ConcatIs
  <2>6. Frame(m)[5 + L + 1] = sh /\ Frame(m)[5 + L + 2] = sl
        /\ Frame(m)[5 + L + 5] = CR /\ Frame(m)[5 + L + 6] = LF
    BY <1>6, <2>5
  <2>7. Frame(m)[1] = START2 /\ Frame(m)[2] = START2 /\ Frame(m)[3] = lh /\ Frame(m)[4] = ll
        /\ Frame(m)[5] = m.protocol
    BY <1>2, <2>1, <2>4, <2>5
  <2>8. \A i \in 1..L : Frame(m)[5 + i] = m.payload[i]
    <3>1. \A i \in 1..L : 5 + i \in 1..(5 + L)
      BY <1>2
    <3>2. QED
      BY <2>4, <2>5, <3>1
  <2>9. QED
    BY SMTT(30), <1>2, <1>4, <1>5, <1>8, <2>5, <2>6, <2>7, <2>8 DEF Head4, L
<1>9. QED
  BY <1>1, <1>7, <1>8

(* The header that is in the buffer is the one the bounds come from.       *)
HeaderInv ==
    /\ need > 4 => /\ got >= 4
                   /\ short \/ extended
                   /\ need = frame_length
    /\ pc = "handle" => need > 4

FrameInv == TypeOK /\ HeaderInv

LEMMA ByteFacts ==
    /\ Byte \subseteq Nat /\ 0 \in Byte
    /\ \A hi, lo \in Byte : Uint16(hi, lo) \in Nat
BY FramesAssumption DEF Byte, Uint16

(* The length field and what follows from it are natural numbers.          *)
LEMMA LengthIsNat ==
    ASSUME TypeOK
    PROVE  length \in Nat /\ frame_length \in Nat /\ frame_length >= 5
<1>1. 3 \in 1..BufLen /\ 4 \in 1..BufLen
  BY FramesAssumption
<1>2. Buffer[3] \in Byte /\ Buffer[4] \in Byte
  BY <1>1 DEF TypeOK
<1>3. Buffer[3] \in Nat /\ Uint16(Buffer[3], Buffer[4]) \in Nat
  BY <1>2, ByteFacts
<1>4. length \in Nat
  BY <1>3 DEF length
<1>5. QED
  BY <1>4 DEF frame_length

LEMMA TypeInit == Init => FrameInv
<1> SUFFICES ASSUME Init PROVE FrameInv
  OBVIOUS
<1>1. 0 \in Byte /\ 4 \in 4..BufLen /\ 1 \in 1..BufLen /\ 0 \in 0..BufLen
  BY FramesAssumption DEF Byte
<1>2. wire \in Seq(Byte) /\ Buffer \in [1..BufLen -> Byte]
  BY <1>1 DEF Init
<1>3. msg \in [Protocol : Byte, from : 1..BufLen, to : 0..BufLen, Serial : Nat,
               Extended : BOOLEAN, Length : Nat]
  BY <1>1 DEF Init
<1>4. need \in 4..BufLen /\ got \in 0..need
  <2>1. got = 0 /\ need = 4
    BY DEF Init
  <2>2. QED
    BY <2>1, <1>1
<1>5. TypeOK
  BY <1>2, <1>3, <1>4 DEF Init, TypeOK
<1>6. HeaderInv
  BY DEF Init, HeaderInv
<1>7. QED
  BY <1>5, <1>6 DEF FrameInv

LEMMA TypeNext ==
    ASSUME FrameInv, [Next]_vars
    PROVE  FrameInv'
<1>1. ASSUME NEW m \in Message, Write(m) PROVE FrameInv'
  <2>1. wire \in Seq(Byte) /\ Frame(m) \in Seq(Byte)
    BY FrameLayout DEF FrameInv, TypeOK
  <2>2. wire' \in Seq(Byte)
    BY <1>1, <2>1 DEF Write
  <2>3. UNCHANGED <<Buffer, msg, got, need, pc, timeout_ping_sent, lost, torn, conns>>
    BY <1>1 DEF Write, readVars
  <2>4. QED
    BY <2>2, <2>3 DEF FrameInv, TypeOK, HeaderInv, short, extended, length, frame_length
<1>2. CASE TakeByte
  <2>1. wire \in Seq(Byte) /\ wire # <<>> /\ got \in 0..need /\ need \in 4..BufLen /\ got < need
    BY <1>2 DEF TakeByte, FrameInv, TypeOK
  <2>2. Head(wire) \in Byte /\ wire' \in Seq(Byte)
    BY <1>2, <2>1 DEF TakeByte
  <2>3. Buffer' = [Buffer EXCEPT ![got + 1] = Head(wire)] /\ got' = got + 1
        /\ UNCHANGED <<msg, need, pc, timeout_ping_sent, lost, conns>>
    BY <1>2 DEF TakeByte
  <2>4. Buffer' \in [1..BufLen -> Byte] /\ got' \in 0..need'
    BY <2>1, <2>2, <2>3, FramesAssumption DEF FrameInv, TypeOK
  <2>5. torn' \in BOOLEAN
    BY <1>2, <2>1 DEF TakeByte, FrameInv, TypeOK
  <2>6. TypeOK'
    BY <2>2, <2>3, <2>4, <2>5 DEF FrameInv, TypeOK
  <2>7. need > 4 => Buffer'[1] = Buffer[1] /\ Buffer'[2] = Buffer[2]
                    /\ Buffer'[3] = Buffer[3] /\ Buffer'[4] = Buffer[4]
    BY <2>1, <2>3 DEF FrameInv, TypeOK, HeaderInv
  <2>8. HeaderInv'
    BY <2>1, <2>3, <2>7 DEF FrameInv, HeaderInv, short, extended, length, frame_length
  <2>9. QED
    BY <2>6, <2>8 DEF FrameInv
<1>3. CASE Header
  <2>1. frame_length \in Nat /\ frame_length >= 5
    BY LengthIsNat DEF FrameInv
  <2>2. msg' = [msg EXCEPT !.Length = frame_length, !.Extended = @ \/ extended]
        /\ UNCHANGED <<wire, Buffer, got, timeout_ping_sent, lost, torn, conns>>
        /\ got = 4 /\ need = 4 /\ pc = "read" /\ (short \/ extended)
    BY <1>3 DEF Header, histVars
  <2>3. \/ need' = frame_length /\ frame_length <= BufLen /\ pc' = pc
        \/ need' = need /\ pc' = "bad"
    BY <1>3 DEF Header
  <2>4. need' \in 4..BufLen /\ got' \in 0..need'
    BY <2>1, <2>2, <2>3, FramesAssumption
  <2>5. (msg.Extended \/ extended) \in BOOLEAN
    BY DEF FrameInv, TypeOK
  <2>6. msg' \in [Protocol : Byte, from : 1..BufLen, to : 0..BufLen, Serial : Nat,
                 Extended : BOOLEAN, Length : Nat]
    BY <2>1, <2>2, <2>5 DEF FrameInv, TypeOK
  <2>7. TypeOK'
    BY <2>2, <2>3, <2>4, <2>6 DEF FrameInv, TypeOK
  <2>8. HeaderInv'
    BY <2>2, <2>3 DEF HeaderInv, short, extended, length, frame_length
  <2>9. QED
    BY <2>7, <2>8 DEF FrameInv
<1>4. CASE BadHeader
  BY <1>4
     DEF BadHeader, short, extended, readVars, histVars, FrameInv, TypeOK,
         HeaderInv, length, frame_length
<1>5. CASE Decode
  <2>1. length \in Nat /\ length >= 5 /\ need = frame_length /\ need \in 4..BufLen /\ need > 4
    BY <1>5, LengthIsNat DEF Decode, Body, FrameInv, TypeOK, HeaderInv
  <2>2. var_buf + 1 \in 1..BufLen /\ var_buf \in 1..BufLen /\ var_buf + length - 5 \in 0..BufLen
        /\ var_buf + length - 4 \in 1..BufLen /\ var_buf + length - 3 \in 1..BufLen
    BY <2>1, FramesAssumption DEF var_buf, frame_length
  <2>3. Buffer[var_buf] \in Byte
        /\ Uint16(Buffer[var_buf + length - 4], Buffer[var_buf + length - 3]) \in Nat
    BY <2>2, ByteFacts DEF FrameInv, TypeOK
  <2>4. Decoded \in [Protocol : Byte, from : 1..BufLen, to : 0..BufLen, Serial : Nat,
                    Extended : BOOLEAN, Length : Nat]
    BY <2>2, <2>3 DEF Decoded, FrameInv, TypeOK
  <2>5. msg' = Decoded /\ pc' = "handle" /\ torn' = FALSE
        /\ UNCHANGED <<wire, Buffer, got, need, timeout_ping_sent, lost, conns>>
    BY <1>5 DEF Decode
  <2>6. TypeOK'
    BY <2>4, <2>5 DEF FrameInv, TypeOK
  <2>7. HeaderInv'
    BY <2>1, <2>5 DEF FrameInv, HeaderInv, short, extended, length, frame_length
  <2>8. QED
    BY <2>6, <2>7 DEF FrameInv
<1>6. CASE DecodePanics
  BY <1>6
     DEF DecodePanics, Body, Ends, readVars, histVars, FrameInv, TypeOK,
         HeaderInv, short, extended, length, frame_length
<1>7. CASE BadBody
  BY <1>7
     DEF BadBody, Body, Ends, readVars, histVars, FrameInv, TypeOK,
         HeaderInv, short, extended, length, frame_length
<1>8. CASE Handle
  <2>1. got' = 0 /\ need' = 4 /\ pc' \in {"read", "closed", "stuck", "panic"}
        /\ UNCHANGED <<Buffer, msg, torn>>
        /\ timeout_ping_sent' \in BOOLEAN /\ lost' \in BOOLEAN
    BY <1>8 DEF Handle, Switch, FrameInv, TypeOK
  <2>2. wire' \in Seq(Byte) /\ conns' \in Nat
    BY <1>8 DEF Handle, FrameInv, TypeOK
  <2>3. 4 \in 4..BufLen
    BY FramesAssumption
  <2>4. TypeOK'
    BY <2>1, <2>2, <2>3 DEF FrameInv, TypeOK
  <2>5. HeaderInv'
    BY <2>1 DEF HeaderInv
  <2>6. QED
    BY <2>4, <2>5 DEF FrameInv
<1>9. CASE TimeoutPing
  <2>1. UNCHANGED <<wire, Buffer, msg, torn, conns>> /\ pc = "read"
        /\ timeout_ping_sent' \in BOOLEAN /\ lost' \in BOOLEAN
    BY <1>9 DEF TimeoutPing, FrameInv, TypeOK
  <2>2. \/ got' = 0 /\ need' = 4 /\ pc' \in {"read", "closed", "stuck", "panic"}
        \/ got' = got /\ need' = need /\ pc' = "closed"
    BY <1>9 DEF TimeoutPing, Switch
  <2>3. 4 \in 4..BufLen
    BY FramesAssumption
  <2>4. TypeOK'
    BY <2>1, <2>2, <2>3 DEF FrameInv, TypeOK
  <2>5. HeaderInv'
    BY <2>1, <2>2 DEF FrameInv, HeaderInv, short, extended, length, frame_length
  <2>6. QED
    BY <2>4, <2>5 DEF FrameInv
<1>10. CASE TimeoutClose
  BY <1>10
     DEF TimeoutClose, readVars, histVars, FrameInv, TypeOK, HeaderInv,
         short, extended, length, frame_length
<1>11. CASE ReadError
  BY <1>11
     DEF ReadError, readVars, histVars, FrameInv, TypeOK, HeaderInv, short,
         extended, length, frame_length
<1>12. CASE NextConn
  <2>1. got' = 0 /\ need' = 4 /\ pc' = "read"
        /\ UNCHANGED <<Buffer, msg, torn>>
        /\ timeout_ping_sent' \in BOOLEAN /\ lost' \in BOOLEAN
    BY <1>12 DEF NextConn, FrameInv, TypeOK
  <2>2. wire' \in Seq(Byte) /\ conns' \in Nat
    BY <1>12 DEF NextConn, FrameInv, TypeOK
  <2>3. 4 \in 4..BufLen
    BY FramesAssumption
  <2>4. TypeOK'
    BY <2>1, <2>2, <2>3 DEF FrameInv, TypeOK
  <2>5. HeaderInv'
    BY <2>1 DEF HeaderInv
  <2>6. QED
    BY <2>4, <2>5 DEF FrameInv
<1>13. CASE UNCHANGED vars
  BY <1>13
     DEF vars, readVars, histVars, FrameInv, TypeOK, HeaderInv, short,
         extended, length, frame_length
<1>14. QED
  BY <1>1, <1>2, <1>3, <1>4, <1>5, <1>6, <1>7, <1>8, <1>9, <1>10, <1>11,
     <1>12, <1>13
     DEF Next, ReadStep

(* gt06.msg and the bounds of its slice are within their types for any     *)
(* bytes on the wire (frame.go:20-68).                                     *)
THEOREM TypeCorrect == Spec => []TypeOK
<1>1. FrameInv => TypeOK
  BY DEF FrameInv
<1>2. QED
  BY <1>1, TypeInit, TypeNext, PTL DEF Spec

-----------------------------------------------------------------------------
(* The frame in gt06.msg has a payload of some length, and has been through *)
(* its parser once run() reads on: the parser did not panic on it.         *)
Digested ==
    /\ msg.from <= msg.to + 1
    /\ pc \in {"read", "closed", "bad"} => msg.to + 1 - msg.from >= MinPayload[msg.Protocol]

ReadInv == FrameInv /\ Digested

LEMMA PayloadLength ==
    ASSUME NEW b, NEW p, p.from \in Nat, p.to \in Nat, p.from <= p.to + 1
    PROVE  Len(Payload(b, p)) = p.to + 1 - p.from
<1> DEFINE n == p.to + 1 - p.from
<1>1. n \in Nat
  OBVIOUS
<1> HIDE DEF n
<1>2. Len([i \in 1..n |-> b[p.from + i - 1]]) = n
  BY <1>1
<1>3. QED
  BY <1>2 DEF n, Payload

(* What the test of the parser in Switch amounts to.                       *)
LEMMA ShortPayload ==
    ASSUME ReadInv
    PROVE  TooShort(Contents(Buffer, msg))
              <=> msg.to + 1 - msg.from < MinPayload[msg.Protocol]
<1>1. msg.from \in Nat /\ msg.to \in Nat /\ msg.from <= msg.to + 1
  BY FramesAssumption DEF ReadInv, FrameInv, TypeOK, Digested
<1>2. Len(Payload(Buffer, msg)) = msg.to + 1 - msg.from
  BY <1>1, PayloadLength
<1>3. QED
  BY <1>2 DEF TooShort, Contents

LEMMA ReadInit == Init => ReadInv
<1> SUFFICES ASSUME Init PROVE ReadInv
  OBVIOUS
<1>1. msg.from = 1 /\ msg.to = 0 /\ msg.Protocol = 0
  BY DEF Init
<1>2. QED
  BY <1>1, TypeInit, MinPayloadAssumption DEF ReadInv, Digested

LEMMA ReadNext ==
    ASSUME ReadInv, [Next]_vars
    PROVE  ReadInv'
<1>1. FrameInv'
  BY TypeNext DEF ReadInv
<1>2. FrameInv /\ Digested
  BY DEF ReadInv
<1>3. SUFFICES Digested'
  BY <1>1 DEF ReadInv
<1>4. ASSUME UNCHANGED <<msg, pc>> PROVE Digested'
  BY <1>2, <1>4 DEF Digested
<1>5. ASSUME UNCHANGED msg, pc \in {"read", "closed", "bad"} PROVE Digested'
  BY <1>2, <1>5 DEF Digested
<1>6. ASSUME NEW m \in Message, Write(m) PROVE Digested'
  BY <1>4, <1>6 DEF Write, readVars
<1>7. CASE TakeByte
  BY <1>4, <1>7 DEF TakeByte
<1>8. CASE Header
  <2>1. /\ pc = "read" /\ msg'.from = msg.from /\ msg'.to = msg.to
        /\ msg'.Protocol = msg.Protocol
    BY <1>2, <1>8 DEF Header, FrameInv, TypeOK
  <2>2. QED
    BY <1>2, <2>1 DEF Digested
<1>9. CASE BadHeader
  BY <1>5, <1>9 DEF BadHeader, readVars
<1>10. CASE Decode
  <2>1. /\ pc' = "handle" /\ length >= 5
        /\ msg'.from = var_buf + 1 /\ msg'.to = var_buf + length - 5
    BY <1>2, <1>10 DEF Decode, Decoded, FrameInv, TypeOK
  <2>2. length \in Nat /\ var_buf \in Nat
    BY <1>2, LengthIsNat DEF var_buf, FrameInv
  <2>3. QED
    BY <2>1, <2>2 DEF Digested
<1>11. CASE DecodePanics
  <2>1. UNCHANGED msg /\ pc' = "panic"
    BY <1>11 DEF DecodePanics, readVars
  <2>2. QED
    BY <1>2, <2>1 DEF Digested
<1>12. CASE BadBody
  BY <1>5, <1>12 DEF BadBody, Body, readVars
<1>13. CASE Handle
  <2>1. UNCHANGED msg /\ (TooShort(Contents(Buffer, msg)) => pc' = "panic")
    BY <1>13 DEF Handle, Switch
  <2>2. msg.Protocol \in Byte /\ msg.from \in Nat /\ msg.to \in Nat
    BY <1>2, FramesAssumption DEF FrameInv, TypeOK
  <2>3. MinPayload[msg.Protocol] \in Nat
    BY <2>2, MinPayloadAssumption
  <2>4. pc' = "panic" \/ ~(msg.to + 1 - msg.from < MinPayload[msg.Protocol])
    BY <2>1, ShortPayload
  <2>5. QED
    BY <1>2, <2>1, <2>2, <2>3, <2>4 DEF Digested
<1>14. CASE TimeoutPing
  BY <1>5, <1>14 DEF TimeoutPing
<1>15. CASE TimeoutClose
  BY <1>5, <1>15 DEF TimeoutClose, readVars
<1>16. CASE ReadError
  BY <1>5, <1>16 DEF ReadError, readVars
<1>17. CASE NextConn
  BY <1>5, <1>17 DEF NextConn
<1>18. CASE UNCHANGED vars
  BY <1>4, <1>18 DEF vars, readVars
<1>19. QED
  BY <1>6, <1>7, <1>8, <1>9, <1>10, <1>11, <1>12, <1>13, <1>14, <1>15, <1>16, <1>17, <1>18
     DEF Next, ReadStep

-----------------------------------------------------------------------------
(* What gt06.msg holds is the frame decoded last; its payload lies behind  *)
(* the four bytes that a header is read into, or is empty.                 *)
Repeats(b, p) ==
    /\ p.Protocol = last.protocol /\ p.Serial = last.serial
    /\ torn \/ Payload(b, p) = last.payload
    /\ p.from >= 5 \/ p.to < p.from

RepeatInv ==
    /\ FrameInv
    /\ \E S : repeated \in Seq(S)
    /\ Repeats(Buffer, msg)

LEMMA RepeatInit == Init => RepeatInv
<1> SUFFICES ASSUME Init PROVE RepeatInv
  OBVIOUS
<1>1. FrameInv
  BY TypeInit
<1>2. repeated \in Seq({})
  BY DEF Init
<1>3. msg.from = 1 /\ msg.to = 0 /\ msg.Protocol = 0 /\ msg.Serial = 0
      /\ last = [protocol |-> 0, payload |-> <<>>, serial |-> 0]
  BY DEF Init, Nothing
<1>4. Payload(Buffer, msg) = <<>>
  BY <1>3 DEF Payload
<1>5. Repeats(Buffer, msg)
  BY <1>3, <1>4 DEF Repeats
<1>6. QED
  BY <1>1, <1>2, <1>5 DEF RepeatInv

LEMMA AppendSeq ==
    ASSUME NEW S, NEW s \in Seq(S), NEW e
    PROVE  /\ Append(s, e) \in Seq(S \cup {e})
           /\ Append(s, e)[Len(Append(s, e))] = e
<1>1. s \in Seq(S \cup {e}) /\ e \in S \cup {e}
  OBVIOUS
<1>2. Append(s, e) \in Seq(S \cup {e})
  BY <1>1
<1>3. Append(s, e)[Len(Append(s, e))] = e
  BY <1>1
<1>4. QED
  BY <1>2, <1>3

LEMMA RepeatedSeq ==
    ASSUME \E S : repeated \in Seq(S), repeated' = Append(repeated, Contents(Buffer, msg))
    PROVE  /\ \E S : repeated' \in Seq(S)
           /\ repeated'[Len(repeated')] = Contents(Buffer, msg)
<1>1. PICK S : repeated \in Seq(S)
  OBVIOUS
<1> DEFINE e == Contents(Buffer, msg)
<1> HIDE DEF e
<1>2. repeated' \in Seq(S \cup {e}) /\ repeated'[Len(repeated')] = e
  BY <1>1, AppendSeq DEF e
<1>3. QED
  BY <1>2 DEF e

LEMMA RepeatNext ==
    ASSUME RepeatInv, [Next]_vars
    PROVE  RepeatInv'
<1>1. FrameInv'
  BY TypeNext DEF RepeatInv
<1>2. FrameInv /\ Repeats(Buffer, msg)
  BY DEF RepeatInv
<1>3. \E S : repeated \in Seq(S)
  BY DEF RepeatInv
<1>4. (\E S : repeated' \in Seq(S)) /\ Repeats(Buffer, msg)' => RepeatInv'
  BY <1>1 DEF RepeatInv
<1>5. (UNCHANGED <<Buffer, msg, last, torn, repeated>>) => RepeatInv'
  BY <1>2, <1>3, <1>4 DEF Repeats, Payload
<1>6. ASSUME NEW m \in Message, Write(m) PROVE RepeatInv'
  BY <1>5, <1>6 DEF Write, readVars
<1>7. CASE TakeByte
  <2>1. Buffer' = [Buffer EXCEPT ![got + 1] = Head(wire)]
        /\ UNCHANGED <<msg, last, repeated>> /\ torn' = (torn \/ got >= 4)
    BY <1>7 DEF TakeByte
  <2>2. got \in Nat /\ Buffer \in [1..BufLen -> Byte] /\ BufLen \in Nat
    BY <1>2, FramesAssumption DEF FrameInv, TypeOK
  <2>3. msg.from \in 1..BufLen /\ msg.to \in 0..BufLen
    BY <1>2 DEF FrameInv, TypeOK
  <2>4. ASSUME got < 4 PROVE Payload(Buffer', msg) = Payload(Buffer, msg)
    <3>1. ASSUME NEW i \in 1..(msg.to + 1 - msg.from)
          PROVE  Buffer'[msg.from + i - 1] = Buffer[msg.from + i - 1]
      <4>1. msg.from >= 5
        BY <1>2, <2>3, <3>1 DEF Repeats
      <4>2. msg.from + i - 1 \in 1..BufLen /\ msg.from + i - 1 # got + 1
        BY <2>2, <2>3, <2>4, <3>1, <4>1
      <4>3. QED
        BY <2>1, <2>2, <4>2
    <3>2. QED
      BY <3>1 DEF Payload
  <2>5. ~torn' => ~torn /\ got < 4
    <3>1. ~torn' => ~torn /\ ~(got >= 4)
      BY <2>1
    <3>2. ~(got >= 4) => got < 4
      BY <2>2
    <3>3. QED
      BY <3>1, <3>2
  <2>6. Repeats(Buffer, msg)'
    BY <1>2, <2>1, <2>4, <2>5 DEF Repeats
  <2>7. QED
    BY <1>3, <1>4, <2>1, <2>6
<1>8. CASE Header
  <2>1. msg' = [msg EXCEPT !.Length = frame_length, !.Extended = @ \/ extended]
        /\ UNCHANGED <<Buffer, last, torn, repeated>>
    BY <1>8 DEF Header, histVars
  <2>2. msg'.Protocol = msg.Protocol /\ msg'.Serial = msg.Serial
        /\ msg'.from = msg.from /\ msg'.to = msg.to
    BY <1>2, <2>1 DEF FrameInv, TypeOK
  <2>3. Payload(Buffer', msg') = Payload(Buffer, msg)
    BY <2>1, <2>2 DEF Payload
  <2>4. Repeats(Buffer, msg)'
    BY <1>2, <2>1, <2>2, <2>3 DEF Repeats
  <2>5. QED
    BY <1>3, <1>4, <2>1, <2>4
<1>9. CASE BadHeader
  BY <1>5, <1>9 DEF BadHeader, readVars, histVars
<1>10. CASE Decode
  <2>1. msg' = Decoded /\ last' = Contents(Buffer, Decoded) /\ torn' = FALSE
        /\ UNCHANGED <<Buffer, repeated>>
    BY <1>10 DEF Decode
  <2>2. Decoded.from = var_buf + 1
    BY <1>2 DEF Decoded, FrameInv, TypeOK
  <2>3. msg'.from >= 5
    BY <2>1, <2>2 DEF var_buf
  <2>4. Payload(Buffer', msg') = last'.payload
    BY <2>1 DEF Contents, Payload
  <2>5. msg'.Protocol = last'.protocol /\ msg'.Serial = last'.serial
    BY <2>1 DEF Contents
  <2>6. Repeats(Buffer, msg)'
    BY <2>3, <2>4, <2>5 DEF Repeats
  <2>7. QED
    BY <1>3, <1>4, <2>1, <2>6
<1>11. CASE DecodePanics
  BY <1>5, <1>11 DEF DecodePanics, readVars, histVars
<1>12. CASE BadBody
  BY <1>5, <1>12 DEF BadBody, readVars, histVars
<1>13. CASE Handle
  BY <1>5, <1>13 DEF Handle
<1>14. CASE TimeoutPing
  <2>1. /\ UNCHANGED <<Buffer, msg, last, torn>>
        /\ repeated' = Append(repeated, Contents(Buffer, msg)) \/ UNCHANGED repeated
    BY <1>14 DEF TimeoutPing
  <2>2. Repeats(Buffer, msg)'
    BY <1>2, <2>1 DEF Repeats, Payload
  <2>3. QED
    BY <1>3, <1>4, <2>1, <2>2, RepeatedSeq
<1>15. CASE TimeoutClose
  BY <1>5, <1>15 DEF TimeoutClose, readVars, histVars
<1>16. CASE ReadError
  BY <1>5, <1>16 DEF ReadError, readVars, histVars
<1>17. CASE NextConn
  <2>1. UNCHANGED <<Buffer, msg, last, torn>> /\ repeated' = <<>>
    BY <1>17 DEF NextConn
  <2>2. repeated' \in Seq({})
    BY <2>1
  <2>3. Repeats(Buffer, msg)'
    BY <1>2, <2>1 DEF Repeats, Payload
  <2>4. QED
    BY <1>4, <2>2, <2>3
<1>18. CASE UNCHANGED vars
  BY <1>5, <1>18 DEF vars, readVars, histVars
<1>19. QED
  BY <1>6, <1>7, <1>8, <1>9, <1>10, <1>11, <1>12, <1>13, <1>14, <1>15, <1>16, <1>17, <1>18
     DEF Next, ReadStep

(* What run() handles again after the first deadline is the frame decoded  *)
(* last, unless a part of another one was read behind its header           *)
(* (gt06.go:473-498).                                                      *)
THEOREM RepeatsLastHolds == Spec => RepeatsLast
<1> DEFINE h == repeated'[Len(repeated')]
<1> DEFINE SameFrame == /\ h.protocol = last.protocol /\ h.serial = last.serial
                        /\ h.payload = last.payload \/ torn
<1>1. ASSUME RepeatInv, [Next]_vars, repeated' # repeated, repeated' # <<>>
      PROVE  SameFrame
  <2>1. CASE TimeoutPing
    <3>1. repeated' = Append(repeated, Contents(Buffer, msg))
      BY <1>1, <2>1 DEF TimeoutPing
    <3>2. h = Contents(Buffer, msg)
      BY <1>1, <3>1, RepeatedSeq DEF RepeatInv
    <3>3. Repeats(Buffer, msg)
      BY <1>1 DEF RepeatInv
    <3>4. h.protocol = msg.Protocol /\ h.serial = msg.Serial /\ h.payload = Payload(Buffer, msg)
      BY <3>2 DEF Contents
    <3>5. QED
      BY <3>3, <3>4 DEF Repeats
  <2>2. CASE ~TimeoutPing
    <3>1. UNCHANGED repeated \/ repeated' = <<>>
      BY <1>1, <2>2
         DEF Next, ReadStep, Write, TakeByte, Header, BadHeader, Decode, DecodePanics,
             BadBody, Handle, TimeoutClose, ReadError, NextConn, vars, readVars, histVars
    <3>2. QED
      BY <1>1, <3>1
  <2>3. QED
    BY <2>1, <2>2
<1>2. ASSUME RepeatInv, [Next]_vars
      PROVE  [repeated' # repeated /\ repeated' # <<>> => SameFrame]_vars
  BY <1>1, <1>2
<1>3. QED
  BY <1>2, RepeatInit, RepeatNext, PTL DEF Spec, RepeatsLast

-----------------------------------------------------------------------------
(* Where frames begin on the wire.                                         *)

(* b[i]: the bytes of the frames before the i-th.                          *)
Begins(b) ==
    /\ b \in [1..(Len(sent) + 1) -> Nat]
    /\ \A i \in 1..Len(sent) : b[i + 1] = b[i] + Len(Frame(sent[i]))
    /\ \A i, j \in 1..(Len(sent) + 1) : i <= j => b[i] <= b[j]

(* The byte at x, counted from the beginning of the frame that is read: g  *)
(* of them are in Buffer.                                                  *)
Coming(g, x) == IF x <= g THEN Buffer[x] ELSE wire[x - g]

(* What has come since the k-th frame began, and is still to come, is the  *)
(* k-th frame and those behind it.                                         *)
Aligned(k, g) ==
    \E b : /\ Begins(b)
           /\ b[Len(sent) + 1] = b[k] + g + Len(wire)
           /\ \A i \in k..Len(sent) : \A x \in 1..Len(Frame(sent[i])) :
                 Coming(g, b[i] - b[k] + x) = Frame(sent[i])[x]

(* The frame that is read, or was decoded and will be handled.             *)
Current == Len(handled) + 1

(* Reading is in step with writing: no byte was lost and no message too    *)
(* long for the reader came before.                                        *)
InStep == ~lost /\ ~LongAmong(Current)

StreamInv ==
    /\ ReadInv
    /\ sent \in Seq(Message)
    /\ \E S : handled \in Seq(S)
    /\ InOrder
    /\ ErrorsExplained
    /\ pc = "read" /\ InStep =>
          Current <= Len(sent) + 1 /\ Aligned(Current, got)
    /\ pc = "handle" /\ InStep =>
          /\ Current <= Len(sent) /\ Contents(Buffer, msg) = Content(sent[Current])
          /\ Aligned(Current + 1, 0)

LEMMA LongGrows ==
    ASSUME NEW n \in Nat, NEW m \in Message, sent \in Seq(Message), sent' = Append(sent, m)
    PROVE  LongAmong(n) => LongAmong(n)'
<1>1. Len(sent') = Len(sent) + 1 /\ \A i \in 1..Len(sent) : sent'[i] = sent[i]
  OBVIOUS
<1>2. ASSUME NEW i \in 1..n, i <= Len(sent), ~Fits(sent[i])
      PROVE  i <= Len(sent') /\ ~Fits(sent'[i])
  BY <1>1, <1>2
<1>3. QED
  BY <1>2 DEF LongAmong

(* A frame that has begun is one that was written.                         *)
LEMMA AlignedFrame ==
    ASSUME TypeOK, sent \in Seq(Message),
           NEW k \in 1..(Len(sent) + 1), NEW g \in 0..BufLen, g > 0, Aligned(k, g)
    PROVE  /\ k \in 1..Len(sent) /\ sent[k] \in Message
           /\ \A x \in 1..Len(Frame(sent[k])) : x <= g => Buffer[x] = Frame(sent[k])[x]
<1>1. PICK b : /\ Begins(b)
               /\ b[Len(sent) + 1] = b[k] + g + Len(wire)
               /\ \A i \in k..Len(sent) : \A x \in 1..Len(Frame(sent[i])) :
                     Coming(g, b[i] - b[k] + x) = Frame(sent[i])[x]
  BY DEF Aligned
<1>2. Len(sent) \in Nat /\ Len(wire) \in Nat /\ g \in Nat /\ b[k] \in Nat
  <2>1. Len(sent) \in Nat /\ Len(wire) \in Nat /\ g \in Nat
    BY FramesAssumption DEF TypeOK
  <2>2. b \in [1..(Len(sent) + 1) -> Nat]
    BY <1>1 DEF Begins
  <2>3. QED
    BY <2>1, <2>2
<1>3. k # Len(sent) + 1
  BY <1>1, <1>2
<1>4. k \in 1..Len(sent) /\ sent[k] \in Message
  BY <1>2, <1>3
<1>5. ASSUME NEW x \in 1..Len(Frame(sent[k])), x <= g
      PROVE  Buffer[x] = Frame(sent[k])[x]
  <2>1. Coming(g, b[k] - b[k] + x) = Frame(sent[k])[x]
    BY <1>1, <1>2, <1>4
  <2>2. b[k] - b[k] + x = x
    BY <1>2, <1>4, FrameLayout
  <2>3. QED
    BY <1>5, <2>1, <2>2 DEF Coming
<1>6. QED
  BY <1>4, <1>5

(* Its header tells how long it is.                                        *)
LEMMA HeaderOfFrame ==
    ASSUME NEW m \in Message, Fits(m), \A x \in 1..4 : Buffer[x] = Frame(m)[x]
    PROVE  /\ short <=> ~m.extended
           /\ extended <=> m.extended
           /\ length = Len(m.payload) + 5
           /\ frame_length = Len(Frame(m)) /\ frame_length <= BufLen
           /\ var_buf = Head4(m)
<1> DEFINE L == Len(m.payload)
<1>1. L \in Nat /\ m.extended \in BOOLEAN
  BY FrameLayout, FramesAssumption
<1>2. /\ Buffer[1] = Frame(m)[1] /\ Buffer[2] = Frame(m)[2]
      /\ Buffer[3] = Frame(m)[3] /\ Buffer[4] = Frame(m)[4]
  OBVIOUS
<1>3. Len(Frame(m)) = L + Head4(m) + 6 /\ Len(Frame(m)) <= BufLen
  BY FrameLayout DEF Fits
<1>4. CASE m.extended
  <2>1. Buffer[1] = START2 /\ Buffer[2] = START2
    BY <1>2, <1>4, FrameLayout
  <2>2. Uint16(Buffer[3], Buffer[4]) = uint16(L + 5)
    BY <1>2, <1>4, FrameLayout
  <2>3. L + 5 < Radix * Radix
    BY <1>4 DEF Fits
  <2>4. uint16(L + 5) = L + 5
    <3>1. L + 5 \in Nat
      BY <1>1
    <3> HIDE DEF L
    <3>2. QED
      BY <2>3, <3>1, Uint16Facts
  <2>5. ~short /\ extended
    BY <2>1, FramesAssumption DEF short, extended
  <2>6. length = L + 5 /\ var_buf = 5 /\ Head4(m) = 5
    BY <1>4, <2>2, <2>4, <2>5 DEF length, var_buf, Head4
  <2>7. frame_length = L + 11
    BY <1>1, <2>5, <2>6 DEF frame_length
  <2>8. QED
    BY <1>1, <1>3, <1>4, <2>5, <2>6, <2>7
<1>5. CASE ~m.extended
  <2>1. Buffer[1] = START /\ Buffer[3] = (L + 5) % Radix
    BY <1>2, <1>5, FrameLayout
  <2>2. L + 5 < Radix
    BY <1>5 DEF Fits
  <2>3. (L + 5) % Radix = L + 5
    <3>1. L + 5 \in Nat /\ Radix \in Nat \ {0}
      BY <1>1, FramesAssumption
    <3> DEFINE y == L + 5
    <3> HIDE DEF y
    <3>2. y \in Nat /\ y < Radix => y % Radix = y
      BY <3>1
    <3>3. QED
      BY <2>2, <3>1, <3>2 DEF y
  <2>4. short /\ ~extended
    BY <2>1 DEF short, extended
  <2>5. length = L + 5 /\ var_buf = 4 /\ Head4(m) = 4
    BY <1>5, <2>1, <2>3, <2>4 DEF length, var_buf, Head4
  <2>6. frame_length = L + 10
    BY <1>1, <2>4, <2>5 DEF frame_length
  <2>7. QED
    BY <1>1, <1>3, <1>5, <2>4, <2>5, <2>6
<1>6. QED
  BY <1>1, <1>4, <1>5

(* It is decoded to what was written.                                      *)
LEMMA DecodedFrame ==
    ASSUME TypeOK, NEW m \in Message, Fits(m),
           \A x \in 1..Len(Frame(m)) : Buffer[x] = Frame(m)[x]
    PROVE  /\ length >= 5
           /\ need = frame_length => Ends
           /\ Contents(Buffer, Decoded) = Content(m)
<1> DEFINE L == Len(m.payload)  h == Head4(m)
<1>1. /\ L \in Nat /\ h \in {4, 5} /\ m.payload \in Seq(Byte)
      /\ Len(Frame(m)) = L + h + 6
  BY FrameLayout, FramesAssumption DEF Head4
<1>2. \A x \in 1..4 : Buffer[x] = Frame(m)[x]
  BY <1>1
<1>3. length = L + 5 /\ frame_length = L + h + 6 /\ var_buf = h
  BY <1>1, <1>2, HeaderOfFrame
<1>4. /\ Frame(m)[h] = m.protocol
      /\ \A i \in 1..L : Frame(m)[h + i] = m.payload[i]
      /\ Uint16(Frame(m)[h + L + 1], Frame(m)[h + L + 2]) = uint16(m.serial)
      /\ Frame(m)[h + L + 5] = CR /\ Frame(m)[h + L + 6] = LF
  BY FrameLayout
<1> HIDE DEF L, h
<1>5. /\ Buffer[h] = Frame(m)[h]
      /\ Buffer[h + L + 1] = Frame(m)[h + L + 1] /\ Buffer[h + L + 2] = Frame(m)[h + L + 2]
      /\ Buffer[h + L + 5] = Frame(m)[h + L + 5] /\ Buffer[h + L + 6] = Frame(m)[h + L + 6]
      /\ \A i \in 1..L : Buffer[h + i] = Frame(m)[h + i]
  BY SMTT(30), <1>1
<1>6. need = frame_length => Ends
  <2>1. need = frame_length => need = h + L + 6 /\ need - 1 = h + L + 5
    BY <1>1, <1>3
  <2>2. Buffer[h + L + 5] = CR /\ Buffer[h + L + 6] = LF
    BY <1>4, <1>5
  <2>3. QED
    BY <2>1, <2>2 DEF Ends
<1>7. /\ Decoded.Protocol = Buffer[h] /\ Decoded.from = h + 1 /\ Decoded.to = h + L
      /\ Decoded.Serial = Uint16(Buffer[h + L + 1], Buffer[h + L + 2])
  <2>1. h + (L + 5) - 5 = h + L /\ h + (L + 5) - 4 = h + L + 1 /\ h + (L + 5) - 3 = h + L + 2
    BY <1>1
  <2>2. h + length - 5 = h + L /\ h + length - 4 = h + L + 1 /\ h + length - 3 = h + L + 2
    BY <1>3, <2>1
  <2>3. msg \in [Protocol : Byte, from : 1..BufLen, to : 0..BufLen, Serial : Nat,
                 Extended : BOOLEAN, Length : Nat]
    BY DEF TypeOK
  <2>4. QED
    BY <1>3, <2>2, <2>3 DEF Decoded
<1>8. Payload(Buffer, Decoded) = m.payload
  <2>1. Payload(Buffer, Decoded) = [i \in 1..L |-> Buffer[h + 1 + i - 1]]
    <3>1. h + L + 1 - (h + 1) = L
      BY <1>1
    <3>2. QED
      BY <1>7, <3>1 DEF Payload
  <2>2. \A i \in 1..L : Buffer[h + 1 + i - 1] = m.payload[i]
    <3>1. \A i \in 1..L : h + 1 + i - 1 = h + i
      BY <1>1
    <3>2. QED
      BY <1>4, <1>5, <3>1
  <2>3. m.payload = [i \in 1..L |-> m.payload[i]]
    BY <1>1 DEF L
  <2>4. QED
    BY <2>1, <2>2, <2>3
<1>9. Contents(Buffer, Decoded) = Content(m)
  BY <1>4, <1>5, <1>7, <1>8 DEF Contents, Content
<1>10. QED
  BY <1>1, <1>3, <1>6, <1>9

(* Behind the last byte of a frame the next one begins.                    *)
LEMMA AlignedNext ==
    ASSUME TypeOK, sent \in Seq(Message),
           NEW k \in 1..Len(sent), NEW g \in Nat, g = Len(Frame(sent[k])), Aligned(k, g)
    PROVE  Aligned(k + 1, 0)
<1>1. PICK b : /\ Begins(b)
               /\ b[Len(sent) + 1] = b[k] + g + Len(wire)
               /\ \A i \in k..Len(sent) : \A x \in 1..Len(Frame(sent[i])) :
                     Coming(g, b[i] - b[k] + x) = Frame(sent[i])[x]
  BY DEF Aligned
<1>2. Len(sent) \in Nat /\ Len(wire) \in Nat
  BY DEF TypeOK
<1>3. b \in [1..(Len(sent) + 1) -> Nat]
  BY <1>1 DEF Begins
<1>4. b[k + 1] = b[k] + g /\ b[k] \in Nat /\ b[k + 1] \in Nat
  BY <1>1, <1>2, <1>3 DEF Begins
<1>5. b[Len(sent) + 1] = b[k + 1] + 0 + Len(wire)
  BY <1>1, <1>2, <1>4
<1>6. ASSUME NEW i \in (k + 1)..Len(sent), NEW x \in 1..Len(Frame(sent[i]))
      PROVE  Coming(0, b[i] - b[k + 1] + x) = Frame(sent[i])[x]
  <2>1. b[k + 1] <= b[i] /\ b[i] \in Nat
    <3>1. k + 1 \in 1..(Len(sent) + 1) /\ i \in 1..(Len(sent) + 1) /\ k + 1 <= i
      BY <1>2
    <3>2. QED
      BY <1>1, <1>3, <3>1 DEF Begins
  <2>2. x \in Nat /\ x >= 1
    BY <1>2, FrameLayout
  <2>3. Coming(g, b[i] - b[k] + x) = Frame(sent[i])[x]
    BY <1>1, <1>2
  <2> DEFINE y == b[i] - b[k] + x  z == b[i] - b[k + 1] + x
  <2>4. ~(y <= g) /\ ~(z <= 0) /\ y - g = z /\ z - 0 = z
    <3> DEFINE bi == b[i]  bk == b[k]  bn == b[k + 1]
    <3>1. bi \in Nat /\ bk \in Nat /\ bn = bk + g /\ bn <= bi
      BY <1>4, <2>1
    <3> HIDE DEF bi, bk, bn
    <3>2. /\ ~(bi - bk + x <= g) /\ ~(bi - bn + x <= 0)
          /\ (bi - bk + x) - g = bi - bn + x /\ (bi - bn + x) - 0 = bi - bn + x
      BY <2>2, <3>1
    <3>3. QED
      BY <3>2 DEF bi, bk, bn
  <2> HIDE DEF y, z
  <2>5. Coming(0, z) = Coming(g, y)
    BY <2>4 DEF Coming
  <2>6. QED
    BY <2>3, <2>5 DEF y, z
<1>7. QED
  BY <1>1, <1>5, <1>6 DEF Aligned

LEMMA AlignedTake ==
    ASSUME TypeOK, sent \in Seq(Message), TakeByte,
           NEW k \in 1..(Len(sent) + 1), Aligned(k, got)
    PROVE  Aligned(k, got)'
<1>1. PICK b : /\ Begins(b)
               /\ b[Len(sent) + 1] = b[k] + got + Len(wire)
               /\ \A i \in k..Len(sent) : \A x \in 1..Len(Frame(sent[i])) :
                     Coming(got, b[i] - b[k] + x) = Frame(sent[i])[x]
  BY DEF Aligned
<1>2. Len(sent) \in Nat /\ wire \in Seq(Byte) /\ got \in Nat /\ got + 1 \in 1..BufLen
  BY FramesAssumption DEF TypeOK, TakeByte
<1>3. b \in [1..(Len(sent) + 1) -> Nat]
  BY <1>1 DEF Begins
<1>4. sent' = sent /\ got' = got + 1 /\ Buffer' = [Buffer EXCEPT ![got + 1] = Head(wire)]
      /\ wire # <<>> /\ wire' = Tail(wire)
  BY DEF TakeByte
<1>5. /\ Len(wire) \in Nat \ {0} /\ Len(wire') = Len(wire) - 1 /\ Head(wire) = wire[1]
      /\ \A z \in 1..(Len(wire) - 1) : wire'[z] = wire[z + 1]
  BY <1>2, <1>4
<1>6. Begins(b)'
  BY <1>1, <1>4 DEF Begins
<1>7. b[k] \in Nat /\ b[Len(sent) + 1] = b[k] + got' + Len(wire')
  <2>1. b[k] \in Nat /\ b[Len(sent) + 1] = b[k] + got + Len(wire)
    BY <1>1, <1>2, <1>3
  <2>2. b[k] + got + Len(wire) = b[k] + (got + 1) + (Len(wire) - 1)
    <3> DEFINE bk == b[k]  w == Len(wire)
    <3>1. bk \in Nat /\ w \in Nat
      BY <1>5, <2>1
    <3> HIDE DEF bk, w
    <3>2. bk + got + w = bk + (got + 1) + (w - 1)
      BY <1>2, <3>1
    <3>3. QED
      BY <3>2 DEF bk, w
  <2>3. QED
    BY <1>4, <1>5, <2>1, <2>2
<1>8. ASSUME NEW i \in k..Len(sent), NEW x \in 1..Len(Frame(sent[i]))
      PROVE  Coming(got, b[i] - b[k] + x)' = Frame(sent[i])[x]
  <2> DEFINE y == b[i] - b[k] + x
  <2>1. b[k] <= b[i] /\ b[i] \in Nat /\ b[i + 1] <= b[Len(sent) + 1]
        /\ b[i + 1] = b[i] + Len(Frame(sent[i]))
    <3>1. /\ i \in 1..Len(sent) /\ i \in 1..(Len(sent) + 1) /\ k <= i
          /\ i + 1 \in 1..(Len(sent) + 1) /\ Len(sent) + 1 \in 1..(Len(sent) + 1)
          /\ i + 1 <= Len(sent) + 1
      BY <1>2
    <3>2. QED
      BY <1>1, <1>3, <3>1 DEF Begins
  <2>2. sent[i] \in Message
    BY <1>2
  <2>3. Len(Frame(sent[i])) \in Nat /\ x \in Nat /\ x >= 1 /\ x <= Len(Frame(sent[i]))
    BY <2>2, FrameLayout
  <2>4. y \in Nat /\ y >= 1 /\ y <= got + Len(wire)
    <3> DEFINE bi == b[i]  bk == b[k]  w == Len(wire)  f == Len(Frame(sent[i]))
    <3>1. bi \in Nat /\ bk \in Nat /\ w \in Nat /\ f \in Nat /\ bk <= bi /\ x <= f
          /\ bi + f <= bk + got + w
      BY <1>1, <1>5, <1>7, <2>1, <2>3
    <3> HIDE DEF bi, bk, w, f
    <3>2. bi - bk + x \in Nat /\ bi - bk + x >= 1 /\ bi - bk + x <= got + w
      BY <1>2, <2>3, <3>1
    <3>3. QED
      BY <3>2 DEF bi, bk, w
  <2>5. Coming(got, y) = Frame(sent[i])[x]
    BY <1>1
  <2> HIDE DEF y
  <2>6. CASE y <= got
    <3>1. Buffer'[y] = Buffer[y] /\ y <= got'
      BY <1>2, <1>4, <2>4, <2>6 DEF TypeOK
    <3>2. QED
      BY <2>5, <2>6, <3>1 DEF Coming, y
  <2>7. CASE y = got + 1
    <3>1. Buffer'[y] = wire[1] /\ y - got = 1 /\ ~(y <= got) /\ y <= got'
      BY <1>2, <1>4, <1>5, <2>7 DEF TypeOK
    <3>2. QED
      BY <2>5, <3>1 DEF Coming, y
  <2>8. CASE y > got + 1
    <3>1. /\ ~(y <= got) /\ ~(y <= got') /\ y - got' \in 1..(Len(wire) - 1)
          /\ y - got' + 1 = y - got
      BY <1>2, <1>4, <1>5, <2>4, <2>8
    <3>2. wire'[y - got'] = wire[y - got]
      BY <1>5, <3>1
    <3>3. QED
      BY <2>5, <3>1, <3>2 DEF Coming, y
  <2>9. QED
    BY <1>2, <2>4, <2>6, <2>7, <2>8
<1>9. QED
  BY <1>4, <1>6, <1>7, <1>8 DEF Aligned

LEMMA AlignedWrite ==
    ASSUME TypeOK, sent \in Seq(Message), NEW m \in Message, Write(m),
           NEW k \in 1..(Len(sent) + 1), NEW g \in Nat, Aligned(k, g)
    PROVE  Aligned(k, g)'
<1>1. PICK b : /\ Begins(b)
               /\ b[Len(sent) + 1] = b[k] + g + Len(wire)
               /\ \A i \in k..Len(sent) : \A x \in 1..Len(Frame(sent[i])) :
                     Coming(g, b[i] - b[k] + x) = Frame(sent[i])[x]
  BY DEF Aligned
<1> DEFINE n == Len(sent)  f == Frame(m)
<1>2. wire' = wire \o f /\ sent' = Append(sent, m) /\ Buffer' = Buffer
  BY DEF Write, readVars
<1>3. /\ n \in Nat /\ Len(sent') = n + 1 /\ sent'[n + 1] = m
      /\ \A i \in 1..n : sent'[i] = sent[i] /\ sent[i] \in Message
  BY <1>2
<1>4. f \in Seq(Byte) /\ wire \in Seq(Byte)
  BY FrameLayout DEF TypeOK
<1>5. /\ Len(wire) \in Nat /\ Len(f) \in Nat /\ Len(wire') = Len(wire) + Len(f)
      /\ \A z \in 1..Len(wire) : wire'[z] = wire[z]
      /\ \A z \in 1..Len(f) : wire'[Len(wire) + z] = f[z]
  <2>1. ConcatIs(wire', wire, f)
    BY <1>2, <1>4, ConcatFacts
  <2>2. QED
    BY <2>1 DEF ConcatIs
<1>6. /\ b \in [1..(n + 1) -> Nat]
      /\ \A i \in 1..n : b[i + 1] = b[i] + Len(Frame(sent[i]))
      /\ \A i, j \in 1..(n + 1) : i <= j => b[i] <= b[j]
  BY <1>1 DEF Begins
<1> HIDE DEF n, f
<1>7. PICK d : d = [i \in 1..(n + 2) |-> IF i = n + 2 THEN b[n + 1] + Len(f) ELSE b[i]]
  OBVIOUS
<1>8. /\ d \in [1..(n + 2) -> Nat] /\ d[n + 2] = b[n + 1] + Len(f) /\ b[n + 1] \in Nat
      /\ \A i \in 1..(n + 1) : d[i] = b[i]
  <2>1. b[n + 1] \in Nat /\ b[n + 1] + Len(f) \in Nat
    BY <1>3, <1>5, <1>6
  <2>2. \A i \in 1..(n + 2) : i # n + 2 => i \in 1..(n + 1) /\ b[i] \in Nat
    BY <1>3, <1>6
  <2>3. n + 2 \in 1..(n + 2) /\ \A i \in 1..(n + 1) : i \in 1..(n + 2) /\ i # n + 2
    BY <1>3
  <2>4. QED
    BY <1>7, <2>1, <2>2, <2>3
<1>9. Begins(d)'
  <2>1. Len(sent') + 1 = n + 2
    BY <1>3
  <2>2. ASSUME NEW i \in 1..Len(sent') PROVE d[i + 1] = d[i] + Len(Frame(sent'[i]))
    <3>1. CASE i = n + 1
      <4>1. i \in 1..(n + 1) /\ i + 1 = n + 2
        BY <1>3, <3>1
      <4>2. QED
        BY <1>3, <1>8, <3>1, <4>1 DEF f
    <3>2. CASE i # n + 1
      <4>1. i \in 1..n /\ i \in 1..(n + 1) /\ i + 1 \in 1..(n + 1)
        BY <1>3, <3>2
      <4>2. QED
        BY <1>3, <1>6, <1>8, <4>1
    <3>3. QED
      BY <3>1, <3>2
  <2>3. ASSUME NEW i \in 1..(n + 2), NEW j \in 1..(n + 2), i <= j PROVE d[i] <= d[j]
    <3>1. CASE j = n + 2
      <4>1. \A x \in 1..(n + 1) : b[x] \in Nat /\ b[x] <= b[n + 1]
        BY <1>3, <1>6
      <4>2. CASE i = n + 2
        BY <1>5, <1>8, <3>1, <4>2
      <4>3. CASE i # n + 2
        <5>1. i \in 1..(n + 1)
          BY <1>3, <4>3
        <5>2. d[i] \in Nat /\ d[i] <= b[n + 1]
          BY <1>8, <4>1, <5>1
        <5>3. QED
          BY <1>5, <1>8, <3>1, <5>2
      <4>4. QED
        BY <4>2, <4>3
    <3>2. CASE j # n + 2
      <4>1. j \in 1..(n + 1) /\ i \in 1..(n + 1)
        BY <1>3, <2>3, <3>2
      <4>2. QED
        BY <1>6, <1>8, <2>3, <4>1
    <3>3. QED
      BY <3>1, <3>2
  <2>4. QED
    BY <1>8, <2>1, <2>2, <2>3 DEF Begins
<1>10. k \in 1..(n + 1) /\ b[k] \in Nat /\ d[k] = b[k] /\ b[n + 1] = b[k] + g + Len(wire)
  BY <1>1, <1>6, <1>8 DEF n
<1>11. d[Len(sent') + 1] = d[k] + g + Len(wire')
  <2>1. Len(sent') + 1 = n + 2
    BY <1>3
  <2>2. b[k] + g + Len(wire) + Len(f) = b[k] + g + (Len(wire) + Len(f))
    BY <1>5, <1>10
  <2>3. QED
    BY <1>5, <1>8, <1>10, <2>1, <2>2
<1>12. ASSUME NEW i \in k..Len(sent'), NEW x \in 1..Len(Frame(sent'[i]))
       PROVE  Coming(g, d[i] - d[k] + x)' = Frame(sent'[i])[x]
  <2>1. CASE i = n + 1
    <3>1. sent'[i] = m /\ x \in 1..Len(f) /\ d[i] = b[n + 1]
      <4>1. i \in 1..(n + 1)
        BY <1>3, <2>1
      <4>2. QED
        BY <1>3, <1>8, <2>1, <4>1 DEF f
    <3>0. PICK y : y = d[i] - d[k] + x
      OBVIOUS
    <3>2. y - g = Len(wire) + x /\ ~(y <= g)
      <4> DEFINE bk == b[k]  w == Len(wire)
      <4>1. y = bk + g + w - bk + x /\ bk \in Nat /\ w \in Nat /\ x \in Nat /\ x >= 1
        BY <1>5, <1>10, <3>0, <3>1
      <4> HIDE DEF bk, w
      <4>2. y - g = w + x /\ ~(y <= g)
        BY <4>1
      <4>3. QED
        BY <4>2 DEF w
    <3>3. Coming(g, y)' = wire'[Len(wire) + x]
      BY <3>2 DEF Coming
    <3>4. QED
      BY <1>5, <3>0, <3>1, <3>3 DEF f
  <2>2. CASE i # n + 1
    <3>1. i \in k..n /\ i \in 1..n /\ i \in 1..(n + 1) /\ i + 1 \in 1..(n + 1)
      BY <1>3, <1>10, <2>2
    <3>2. sent'[i] = sent[i] /\ d[i] = b[i] /\ sent[i] \in Message
      BY <1>3, <1>8, <3>1
    <3>0. PICK y : y = b[i] - b[k] + x
      OBVIOUS
    <3>3. Coming(g, y) = Frame(sent[i])[x]
      BY <1>1, <3>0, <3>1, <3>2 DEF n
    <3>4. y - g <= Len(wire) /\ y \in Nat /\ y >= 1
      <4> DEFINE bi == b[i]  bk == b[k]  w == Len(wire)  l == Len(Frame(sent[i]))
      <4>1. bi \in Nat /\ bk \in Nat /\ w \in Nat /\ bk <= bi
        <5>1. k <= i
          BY <1>3, <1>10, <3>1
        <5>2. QED
          BY <1>5, <1>6, <1>10, <3>1, <5>1
      <4>2. l \in Nat /\ x \in Nat /\ x >= 1 /\ x <= l
        BY <3>2, FrameLayout
      <4>3. bi + l <= bk + g + w
        <5>1. b[i + 1] = bi + l /\ b[i + 1] <= b[n + 1]
          BY <1>3, <1>6, <3>1
        <5>2. QED
          BY <1>10, <5>1
      <4> HIDE DEF bi, bk, w, l
      <4>4. (bi - bk + x) - g <= w /\ bi - bk + x \in Nat /\ bi - bk + x >= 1
        BY <4>1, <4>2, <4>3
      <4>5. QED
        BY <3>0, <4>4 DEF bi, bk, w
    <3>5. ~(y <= g) => y - g \in 1..Len(wire)
      BY <1>5, <3>4
    <3>6. Coming(g, y)' = Coming(g, y)
      BY <1>2, <1>5, <3>5 DEF Coming
    <3>7. QED
      BY <1>10, <3>0, <3>2, <3>3, <3>6
  <2>3. QED
    BY <2>1, <2>2
<1>13. QED
  BY <1>9, <1>11, <1>12 DEF Aligned

LEMMA AlignedSame ==
    ASSUME UNCHANGED <<Buffer, wire, sent>>, NEW k, NEW g, Aligned(k, g)
    PROVE  Aligned(k, g)'
BY DEF Aligned, Begins, Coming

(* The place of a frame, named by a number, is that of the current one.    *)
LEMMA AlignedHere ==
    ASSUME NEW k, NEW g, Aligned(k, g)'
    PROVE  /\ k = Current' /\ g = got' => Aligned(Current, got)'
           /\ k = Current' + 1 /\ g = 0 => Aligned(Current + 1, 0)'
<1>1. PICK b : /\ Begins(b)'
               /\ b[Len(sent') + 1] = b[k] + g + Len(wire')
               /\ \A i \in k..Len(sent') : \A x \in 1..Len(Frame(sent'[i])) :
                     Coming(g, b[i] - b[k] + x)' = Frame(sent'[i])[x]
  BY DEF Aligned
<1>2. ASSUME k = Current', g = got' PROVE Aligned(Current, got)'
  <2>1. b[Len(sent') + 1] = b[Current'] + got' + Len(wire')
    BY <1>1, <1>2
  <2>2. \A i \in Current'..Len(sent') : \A x \in 1..Len(Frame(sent'[i])) :
           Coming(got, b[i] - b[Current] + x)' = Frame(sent'[i])[x]
    BY <1>1, <1>2 DEF Coming
  <2>3. QED
    BY <1>1, <2>1, <2>2 DEF Aligned
<1>3. ASSUME k = Current' + 1, g = 0 PROVE Aligned(Current + 1, 0)'
  <2>1. b[Len(sent') + 1] = b[Current' + 1] + 0 + Len(wire')
    BY <1>1, <1>3
  <2>2. \A i \in (Current' + 1)..Len(sent') : \A x \in 1..Len(Frame(sent'[i])) :
           Coming(0, b[i] - b[Current + 1] + x)' = Frame(sent'[i])[x]
    BY <1>1, <1>3 DEF Coming
  <2>3. QED
    BY <1>1, <2>1, <2>2 DEF Aligned
<1>4. QED
  BY <1>2, <1>3

LEMMA LongAll ==
    ASSUME NEW n \in Nat, LongAmong(n), sent \in Seq(Message)
    PROVE  LongAmong(Len(sent))
<1>1. PICK i \in 1..n : i <= Len(sent) /\ ~Fits(sent[i])
  BY DEF LongAmong
<1>2. i \in 1..Len(sent)
  BY <1>1
<1>3. QED
  BY <1>1, <1>2 DEF LongAmong

(* The beginning of a connection: nothing was sent.                        *)
LEMMA AlignedInit == sent = <<>> /\ wire = <<>> => Aligned(1, 0) /\ (\A n : ~LongAmong(n))
<1> SUFFICES ASSUME sent = <<>>, wire = <<>> PROVE Aligned(1, 0) /\ \A n : ~LongAmong(n)
  OBVIOUS
<1>1. Len(sent) = 0 /\ Len(wire) = 0
  OBVIOUS
<1> DEFINE b == [i \in 1..1 |-> 0]
<1>2. b \in [1..(Len(sent) + 1) -> Nat] /\ b[1] = 0
  BY <1>1
<1>3. Begins(b)
  BY <1>1, <1>2 DEF Begins
<1>4. b[Len(sent) + 1] = b[1] + 0 + Len(wire)
  BY <1>1, <1>2
<1>5. 1..Len(sent) = {}
  BY <1>1
<1> HIDE DEF b
<1>6. Aligned(1, 0)
  BY <1>3, <1>4, <1>5 DEF Aligned
<1>7. \A n : ~LongAmong(n)
  BY <1>1 DEF LongAmong
<1>8. QED
  BY <1>6, <1>7

LEMMA StreamInit == Init => StreamInv
<1> SUFFICES ASSUME Init PROVE StreamInv
  OBVIOUS
<1>1. ReadInv
  BY ReadInit
<1>2. sent = <<>> /\ wire = <<>> /\ handled = <<>> /\ pc = "read" /\ got = 0
  BY DEF Init
<1>3. handled \in Seq({}) /\ sent \in Seq(Message) /\ DOMAIN handled = {} /\ Current = 1
      /\ Len(sent) = 0
  BY <1>2 DEF Current
<1>4. Aligned(Current, got)
  BY <1>2, <1>3, AlignedInit
<1>5. InOrder /\ ErrorsExplained
  BY <1>2, <1>3 DEF InOrder, ErrorsExplained
<1>6. QED
  BY <1>1, <1>2, <1>3, <1>4, <1>5 DEF StreamInv

(* What the reader knows of the frame in its buffer while it is in step.   *)
LEMMA ReadingInStep ==
    ASSUME StreamInv, pc = "read", got >= 4, InStep
    PROVE  /\ Current \in 1..Len(sent) /\ sent[Current] \in Message /\ Fits(sent[Current])
           /\ short \/ extended
           /\ frame_length <= BufLen /\ frame_length = Len(Frame(sent[Current]))
           /\ Aligned(Current, got)
           /\ got = frame_length =>
                 /\ length >= 5 /\ (need = frame_length => Ends)
                 /\ Contents(Buffer, Decoded) = Content(sent[Current])
<1>1. TypeOK /\ sent \in Seq(Message) /\ Current <= Len(sent) + 1 /\ Aligned(Current, got)
  BY DEF StreamInv, ReadInv, FrameInv
<1>2. Current \in Nat \ {0} /\ Len(sent) \in Nat
  BY DEF StreamInv, Current
<1>3. Current \in 1..(Len(sent) + 1)
  BY <1>1, <1>2
<1>4. got \in 0..BufLen /\ got > 0
  BY FramesAssumption, <1>1 DEF TypeOK
<1>5. /\ Current \in 1..Len(sent) /\ sent[Current] \in Message
      /\ \A x \in 1..Len(Frame(sent[Current])) : x <= got => Buffer[x] = Frame(sent[Current])[x]
  BY <1>1, <1>3, <1>4, AlignedFrame
<1>6. Fits(sent[Current])
  BY <1>2, <1>5 DEF InStep, LongAmong
<1>7. Len(Frame(sent[Current])) \in Nat /\ Len(Frame(sent[Current])) >= 4
  <2> DEFINE m == sent[Current]  L == Len(m.payload)
  <2>1. L \in Nat /\ Len(Frame(m)) = L + Head4(m) + 6 /\ Head4(m) \in {4, 5}
    BY <1>5, FrameLayout DEF Head4
  <2> HIDE DEF m, L
  <2>2. Len(Frame(m)) \in Nat /\ Len(Frame(m)) >= 4
    BY <2>1
  <2>3. QED
    BY <2>2 DEF m
<1>8. \A x \in 1..4 : Buffer[x] = Frame(sent[Current])[x]
  BY <1>4, <1>5, <1>7
<1>9. /\ short \/ extended
      /\ frame_length = Len(Frame(sent[Current])) /\ frame_length <= BufLen
  <2>1. sent[Current].extended \in BOOLEAN
    BY <1>5, FramesAssumption
  <2>2. QED
    BY <1>5, <1>6, <1>8, <2>1, HeaderOfFrame
<1>10. got = frame_length =>
          /\ length >= 5 /\ (need = frame_length => Ends)
          /\ Contents(Buffer, Decoded) = Content(sent[Current])
  <2> SUFFICES ASSUME got = frame_length
               PROVE  /\ length >= 5 /\ (need = frame_length => Ends)
                      /\ Contents(Buffer, Decoded) = Content(sent[Current])
    OBVIOUS
  <2>1. \A x \in 1..Len(Frame(sent[Current])) : Buffer[x] = Frame(sent[Current])[x]
    BY <1>5, <1>7, <1>9
  <2>2. QED
    BY <1>1, <1>5, <1>6, <2>1, DecodedFrame
<1>11. QED
  BY <1>1, <1>5, <1>6, <1>9, <1>10

LEMMA StreamNext ==
    ASSUME StreamInv, [Next]_vars
    PROVE  StreamInv'
<1>1. ReadInv'
  BY ReadNext DEF StreamInv
<1>2. /\ TypeOK /\ HeaderInv /\ sent \in Seq(Message) /\ InOrder /\ ErrorsExplained
      /\ \E S : handled \in Seq(S)
  BY DEF StreamInv, ReadInv, FrameInv
<1>3. /\ Len(handled) \in Nat /\ DOMAIN handled = 1..Len(handled)
      /\ Current \in Nat \ {0} /\ Len(sent) \in Nat
  BY <1>2 DEF Current
<1>4. pc = "read" /\ InStep => Current \in 1..(Len(sent) + 1) /\ Aligned(Current, got)
  BY <1>3 DEF StreamInv
<1>5. pc = "handle" /\ InStep =>
         /\ Current \in 1..Len(sent) /\ Contents(Buffer, msg) = Content(sent[Current])
         /\ Aligned(Current + 1, 0)
  BY <1>3 DEF StreamInv
<1>6. ~InStep => lost \/ LongAmong(Len(sent))
  BY <1>2, <1>3, LongAll DEF InStep
(* No frame is handled.                                                    *)
<1>7. ASSUME UNCHANGED <<sent, handled>>, lost => lost'
      PROVE  /\ sent' \in Seq(Message) /\ (\E S : handled' \in Seq(S)) /\ InOrder'
             /\ Current' = Current /\ (InStep' => InStep)
  BY <1>2, <1>7 DEF InOrder, LongAmong, Current, InStep
<1>8. ASSUME UNCHANGED <<sent, handled>>, lost => lost',
             pc' \in {"closed", "stuck"} \/ (pc' \in {"bad", "panic"} /\ (lost' \/ LongAmong(Len(sent))))
      PROVE  StreamInv'
  <2>1. ErrorsExplained'
    BY <1>8 DEF ErrorsExplained, LongAmong
  <2>2. QED
    BY <1>1, <1>7, <1>8, <2>1 DEF StreamInv
<1>9. ASSUME NEW m \in Message, Write(m) PROVE StreamInv'
  <2>1. sent' = Append(sent, m) /\ UNCHANGED <<Buffer, msg, got, need, pc, handled, lost>>
        /\ pc \notin {"closed", "bad", "panic"}
    BY <1>9 DEF Write, readVars, Over
  <2>2. /\ sent' \in Seq(Message) /\ Len(sent') = Len(sent) + 1
        /\ \A i \in 1..Len(sent) : sent'[i] = sent[i]
    BY <1>2, <2>1
  <2>3. \A n \in Nat : LongAmong(n) => LongAmong(n)'
    BY <1>2, <2>1, LongGrows
  <2>4. Current' = Current /\ (InStep' => InStep)
    <3>1. Current' = Current /\ lost' = lost
      BY <2>1 DEF Current
    <3>2. LongAmong(Current) => LongAmong(Current)'
      BY <1>2, <1>3, <2>1, <3>1, LongGrows DEF LongAmong
    <3>3. QED
      BY <3>1, <3>2 DEF InStep
  <2>5. InOrder'
    <3>1. ASSUME ~lost, NEW i \in DOMAIN handled
          PROVE  LongAmong(i)' \/ (i <= Len(sent') /\ handled[i] = Content(sent'[i]))
      <4>1. i \in Nat /\ i >= 1
        BY <1>3
      <4>2. LongAmong(i) \/ (i <= Len(sent) /\ handled[i] = Content(sent[i]))
        BY <1>2, <3>1 DEF InOrder
      <4>3. QED
        BY <1>3, <2>2, <2>3, <4>1, <4>2
    <3>2. QED
      BY <2>1, <3>1 DEF InOrder
  <2>6. ErrorsExplained'
    BY <2>1 DEF ErrorsExplained
  <2>7. ASSUME pc' = "read", InStep'
        PROVE  Current' <= Len(sent') + 1 /\ Aligned(Current, got)'
    <3>1. Current \in 1..(Len(sent) + 1) /\ Aligned(Current, got)
      BY <1>4, <2>1, <2>4, <2>7
    <3>2. PICK k : k = Current
      OBVIOUS
    <3>3. PICK g : g = got
      OBVIOUS
    <3>4. g \in Nat /\ k \in 1..(Len(sent) + 1) /\ Aligned(k, g)
      BY <1>2, <3>1, <3>2, <3>3 DEF TypeOK
    <3>5. Aligned(k, g)'
      BY <1>2, <1>9, <3>4, AlignedWrite
    <3>6. Aligned(Current, got)'
      BY <2>1, <2>4, <3>2, <3>3, <3>5, AlignedHere
    <3>7. QED
      BY <1>3, <2>2, <2>4, <3>1, <3>6
  <2>8. ASSUME pc' = "handle", InStep'
        PROVE  /\ Current' <= Len(sent') /\ Contents(Buffer', msg') = Content(sent'[Current'])
               /\ Aligned(Current + 1, 0)'
    <3>1. Current \in 1..Len(sent) /\ Contents(Buffer, msg) = Content(sent[Current])
          /\ Aligned(Current + 1, 0)
      BY <1>5, <2>1, <2>4, <2>8
    <3>2. PICK k : k = Current + 1
      OBVIOUS
    <3>3. k \in 1..(Len(sent) + 1) /\ Aligned(k, 0)
      BY <1>3, <3>1, <3>2
    <3>4. Aligned(k, 0)'
      BY <1>2, <1>9, <3>3, AlignedWrite
    <3>5. Aligned(Current + 1, 0)'
      BY <2>4, <3>2, <3>4, AlignedHere
    <3>6. QED
      BY <1>3, <2>1, <2>2, <2>4, <3>1, <3>5
  <2>9. QED
    BY <1>1, <1>2, <2>1, <2>2, <2>5, <2>6, <2>7, <2>8 DEF StreamInv
<1>10. CASE TakeByte
  <2>1. UNCHANGED <<sent, handled, lost, pc>> /\ pc = "read"
    BY <1>10 DEF TakeByte
  <2>2. Current' = Current /\ (InStep' => InStep)
    BY <1>7, <2>1
  <2>3. ASSUME InStep' PROVE Current' <= Len(sent') + 1 /\ Aligned(Current, got)'
    <3>1. Current \in 1..(Len(sent) + 1) /\ Aligned(Current, got)
      BY <1>4, <2>1, <2>2, <2>3
    <3>2. PICK k : k = Current
      OBVIOUS
    <3>3. Aligned(k, got)'
      BY <1>2, <1>10, <3>1, <3>2, AlignedTake
    <3>4. Aligned(Current, got)'
      BY <2>2, <3>2, <3>3, AlignedHere
    <3>5. QED
      BY <1>3, <2>1, <2>2, <3>1, <3>4
  <2>4. ErrorsExplained'
    BY <2>1 DEF ErrorsExplained
  <2>5. QED
    BY <1>1, <1>7, <2>1, <2>3, <2>4 DEF StreamInv
<1>11. CASE Header
  <2>1. UNCHANGED <<Buffer, wire, sent, handled, lost, got>> /\ pc = "read" /\ got = 4
    BY <1>11 DEF Header, histVars
  <2>2. CASE InStep
    <3>1. frame_length <= BufLen /\ Current \in 1..Len(sent) /\ Aligned(Current, got)
      BY <2>1, <2>2, ReadingInStep
    <3>2. pc' = "read"
      BY <1>11, <3>1 DEF Header
    <3>3. Current' = Current
      BY <1>7, <2>1
    <3>4. PICK k : k = Current
      OBVIOUS
    <3>5. PICK g : g = got
      OBVIOUS
    <3>6. Aligned(k, g)'
      BY <2>1, <3>1, <3>4, <3>5, AlignedSame
    <3>7. Aligned(Current, got)'
      BY <2>1, <3>3, <3>4, <3>5, <3>6, AlignedHere
    <3>8. ErrorsExplained'
      BY <3>2 DEF ErrorsExplained
    <3>9. Current' <= Len(sent') + 1
      BY <1>3, <2>1, <3>1, <3>3
    <3>10. QED
      BY <1>1, <1>7, <2>1, <3>2, <3>7, <3>8, <3>9 DEF StreamInv
  <2>3. CASE ~InStep
    <3>1. pc' = "bad" \/ pc' = "read"
      BY <1>11, <2>1 DEF Header
    <3>2. CASE pc' = "bad"
      BY <1>6, <1>8, <2>1, <2>3, <3>2
    <3>3. CASE pc' = "read"
      <4>1. ErrorsExplained'
        BY <3>3 DEF ErrorsExplained
      <4>2. ~InStep'
        BY <1>7, <2>1, <2>3
      <4>3. QED
        BY <1>1, <1>7, <2>1, <3>3, <4>1, <4>2 DEF StreamInv
    <3>4. QED
      BY <3>1, <3>2, <3>3
  <2>4. QED
    BY <2>2, <2>3
<1>12. ASSUME pc = "read", Body PROVE got >= 4 /\ need = frame_length /\ got = need
  BY <1>2, <1>12, FramesAssumption DEF Body, HeaderInv, TypeOK
<1>13. CASE BadHeader
  <2>1. UNCHANGED <<sent, handled, lost>> /\ pc = "read" /\ got = 4 /\ ~short /\ ~extended
        /\ pc' = "bad"
    BY <1>13 DEF BadHeader, histVars
  <2>2. ~InStep
    BY <2>1, ReadingInStep
  <2>3. QED
    BY <1>6, <1>8, <2>1, <2>2
<1>14. CASE Decode
  <2>1. UNCHANGED <<Buffer, wire, sent, handled, lost>> /\ pc = "read" /\ Body /\ Ends
        /\ msg' = Decoded /\ pc' = "handle"
    BY <1>14 DEF Decode, Body
  <2>2. got >= 4 /\ need = frame_length /\ got = need
    BY <1>12, <2>1
  <2>3. Current' = Current /\ (InStep' => InStep)
    BY <1>7, <2>1
  <2>4. ASSUME InStep
        PROVE  /\ Current' <= Len(sent') /\ Contents(Buffer', msg') = Content(sent'[Current'])
               /\ Aligned(Current + 1, 0)'
    <3>1. /\ Current \in 1..Len(sent) /\ got = Len(Frame(sent[Current]))
          /\ Aligned(Current, got) /\ Contents(Buffer, Decoded) = Content(sent[Current])
      BY <2>1, <2>2, <2>4, ReadingInStep
    <3>2. got \in Nat
      BY <1>2 DEF TypeOK
    <3>3. Aligned(Current + 1, 0)
      BY <1>2, <3>1, <3>2, AlignedNext
    <3>4. PICK k : k = Current + 1
      OBVIOUS
    <3>5. Aligned(k, 0)'
      BY <2>1, <3>3, <3>4, AlignedSame
    <3>6. Aligned(Current + 1, 0)'
      BY <2>3, <3>4, <3>5, AlignedHere
    <3>7. Current' <= Len(sent')
      BY <1>3, <2>1, <2>3, <3>1
    <3>8. QED
      BY <2>1, <2>3, <3>1, <3>6, <3>7
  <2>5. ErrorsExplained'
    BY <2>1 DEF ErrorsExplained
  <2>6. QED
    BY <1>1, <1>7, <2>1, <2>3, <2>4, <2>5 DEF StreamInv
<1>15. CASE DecodePanics
  <2>1. UNCHANGED <<sent, handled, lost>> /\ pc = "read" /\ Body /\ length < 5 /\ pc' = "panic"
    BY <1>15 DEF DecodePanics, Body, histVars
  <2>2. ~InStep
    <3>1. length \in Nat
      BY <1>2, LengthIsNat
    <3>2. QED
      BY <1>12, <2>1, <3>1, ReadingInStep
  <2>3. QED
    BY <1>6, <1>8, <2>1, <2>2
<1>16. CASE BadBody
  <2>1. UNCHANGED <<sent, handled, lost>> /\ pc = "read" /\ Body /\ ~Ends /\ pc' = "bad"
    BY <1>16 DEF BadBody, Body, histVars
  <2>2. ~InStep
    BY <1>12, <2>1, ReadingInStep
  <2>3. QED
    BY <1>6, <1>8, <2>1, <2>2
<1>17. CASE Handle
  <2> DEFINE c == Contents(Buffer, msg)
  <2>1. /\ UNCHANGED <<Buffer, wire, sent, lost>> /\ pc = "handle" /\ pc' \in {"read", "closed", "stuck", "panic"}
        /\ got' = 0 /\ handled' = Append(handled, c)
    BY <1>17 DEF Handle, Switch
  <2> HIDE DEF c
  <2>2. /\ Len(handled') = Len(handled) + 1 /\ handled'[Len(handled) + 1] = c
        /\ DOMAIN handled' = 1..(Len(handled) + 1)
        /\ \A i \in 1..Len(handled) : handled'[i] = handled[i]
        /\ \E S : handled' \in Seq(S)
    <3>1. PICK S : handled \in Seq(S)
      BY <1>2
    <3>2. handled \in Seq(S \cup {c}) /\ c \in S \cup {c}
      BY <3>1
    <3>3. handled' \in Seq(S \cup {c})
      BY <2>1, <3>2
    <3>4. QED
      BY <2>1, <3>2, <3>3
  <2>3. Current' = Current + 1
    BY <2>2 DEF Current
  <2>4. InStep' => InStep
    <3>1. ASSUME LongAmong(Current) PROVE LongAmong(Current)'
      BY <1>3, <2>1, <2>3, <3>1 DEF LongAmong
    <3>2. QED
      BY <2>1, <3>1 DEF InStep
  <2>5. InOrder'
    <3>1. ASSUME ~lost, NEW i \in DOMAIN handled'
          PROVE  LongAmong(i)' \/ (i <= Len(sent') /\ handled'[i] = Content(sent'[i]))
      <4>1. CASE i = Current
        <5>1. CASE InStep
          BY <1>3, <1>5, <2>1, <2>2, <4>1, <5>1 DEF Current, c
        <5>2. CASE ~InStep
          BY <2>1, <3>1, <4>1, <5>2 DEF InStep, LongAmong
        <5>3. QED
          BY <5>1, <5>2
      <4>2. CASE i # Current
        <5>1. i \in 1..Len(handled)
          BY <1>3, <2>2, <4>2 DEF Current
        <5>2. LongAmong(i) \/ (i <= Len(sent) /\ handled[i] = Content(sent[i]))
          BY <1>2, <1>3, <3>1, <5>1 DEF InOrder
        <5>3. QED
          BY <2>1, <2>2, <5>1, <5>2 DEF LongAmong
      <4>3. QED
        BY <4>1, <4>2
    <3>2. QED
      BY <2>1, <3>1 DEF InOrder
  <2>6. ASSUME InStep' PROVE Current' <= Len(sent') + 1 /\ Aligned(Current, got)'
    <3>1. Current \in 1..Len(sent) /\ Aligned(Current + 1, 0)
      BY <1>5, <2>1, <2>4, <2>6
    <3>2. PICK k : k = Current + 1
      OBVIOUS
    <3>3. Aligned(k, 0)'
      BY <2>1, <3>1, <3>2, AlignedSame
    <3>4. Aligned(Current, got)'
      BY <2>1, <2>3, <3>2, <3>3, AlignedHere
    <3>5. QED
      BY <1>3, <2>1, <2>3, <3>1, <3>4
  <2>7. ErrorsExplained'
    <3>1. SUFFICES ASSUME pc' = "panic", InStep
                   PROVE  ShortAt(Len(handled))'
      <4>1. ~InStep => lost' \/ LongAmong(Len(sent))'
        BY <1>6, <2>1 DEF LongAmong
      <4>2. QED
        BY <2>1, <3>1, <4>1 DEF ErrorsExplained
    <3>2. TooShort(c)
      BY <1>17, <3>1 DEF Handle, Switch, c
    <3>3. c = Content(sent[Current]) /\ Current \in 1..Len(sent)
      BY <1>5, <2>1, <3>1 DEF c
    <3>4. TooShort(sent[Current])
      BY <3>2, <3>3 DEF TooShort, Content
    <3>5. Len(handled') = Current /\ DOMAIN sent = 1..Len(sent)
      BY <1>2, <2>2 DEF Current
    <3>6. QED
      BY <2>1, <3>3, <3>4, <3>5 DEF ShortAt, TooShort
  <2>8. QED
    BY <1>1, <1>2, <2>1, <2>2, <2>5, <2>6, <2>7 DEF StreamInv
<1>18. CASE TimeoutPing
  <2>1. /\ UNCHANGED <<Buffer, wire, sent, handled>> /\ pc = "read"
        /\ lost' = (lost \/ got > 0)
        /\ \/ pc' \in {"read", "closed", "stuck"} /\ got' = 0
           \/ pc' = "closed" /\ got' = got
    <3>1. msg.to + 1 - msg.from >= MinPayload[msg.Protocol] /\ ReadInv
      BY <1>18 DEF TimeoutPing, StreamInv, ReadInv, Digested
    <3>2. msg.Protocol \in Byte /\ msg.from \in Nat /\ msg.to \in Nat
      BY <1>2, FramesAssumption DEF TypeOK
    <3>3. MinPayload[msg.Protocol] \in Nat
      BY <3>2, MinPayloadAssumption
    <3>4. ~TooShort(Contents(Buffer, msg))
      BY <3>1, <3>2, <3>3, ShortPayload
    <3>5. QED
      BY <1>18, <3>4 DEF TimeoutPing, Switch
  <2>2. lost => lost'
    BY <2>1
  <2>3. CASE pc' \in {"closed", "stuck"}
    BY <1>8, <2>1, <2>2, <2>3
  <2>4. CASE pc' = "read"
    <3>1. got' = 0 /\ Current' = Current /\ (InStep' => InStep)
      BY <1>7, <2>1, <2>2, <2>4
    <3>2. ASSUME InStep' PROVE Current' <= Len(sent') + 1 /\ Aligned(Current, got)'
      <4>1. ~lost'
        BY <3>2 DEF InStep
      <4>2. got = 0
        <5>1. got \in Nat
          BY <1>2 DEF TypeOK
        <5>2. lost' = (lost \/ got > 0)
          BY <2>1
        <5>3. ~(got > 0)
          BY <4>1, <5>2, Zenon
        <5>4. QED
          BY <5>1, <5>3
      <4>3. Current \in 1..(Len(sent) + 1) /\ Aligned(Current, 0)
        BY <1>4, <2>1, <3>1, <3>2, <4>2
      <4>4. PICK k : k = Current
        OBVIOUS
      <4>5. Aligned(k, 0)'
        BY <2>1, <4>3, <4>4, AlignedSame
      <4>6. Aligned(Current, got)'
        BY <3>1, <4>4, <4>5, AlignedHere
      <4>7. QED
        BY <1>3, <2>1, <3>1, <4>3, <4>6
    <3>3. ErrorsExplained'
      BY <2>4 DEF ErrorsExplained
    <3>4. QED
      BY <1>1, <1>7, <2>1, <2>2, <2>4, <3>2, <3>3 DEF StreamInv
  <2>5. QED
    BY <2>1, <2>3, <2>4
<1>19. CASE TimeoutClose
  BY <1>8, <1>19 DEF TimeoutClose, histVars
<1>20. CASE ReadError
  BY <1>8, <1>20 DEF ReadError, histVars
<1>21. CASE NextConn
  <2>1. sent' = <<>> /\ wire' = <<>> /\ handled' = <<>> /\ pc' = "read" /\ got' = 0
    BY <1>21 DEF NextConn
  <2>2. sent' \in Seq(Message) /\ handled' \in Seq({}) /\ DOMAIN handled' = {} /\ Current' = 1
        /\ Len(sent') = 0
    BY <2>1 DEF Current
  <2>3. Aligned(1, 0)'
    <3>1. (sent = <<>> /\ wire = <<>>)' => Aligned(1, 0)'
      BY AlignedInit, PTL
    <3>2. QED
      BY <2>1, <3>1
  <2>4. Aligned(Current, got)'
    BY <2>1, <2>2, <2>3, AlignedHere
  <2>5. InOrder' /\ ErrorsExplained'
    BY <2>1, <2>2 DEF InOrder, ErrorsExplained
  <2>6. QED
    BY <1>1, <2>1, <2>2, <2>4, <2>5 DEF StreamInv
<1>22. CASE UNCHANGED vars
  <2>1. UNCHANGED <<wire, Buffer, msg, got, need, pc, sent, handled, lost>>
    BY <1>22 DEF vars, readVars, histVars
  <2>2. Current' = Current /\ (InStep' <=> InStep)
    BY <2>1 DEF Current, InStep, LongAmong
  <2>3. ASSUME Aligned(Current, got) PROVE Aligned(Current, got)'
    <3>1. PICK k, g : k = Current /\ g = got /\ Aligned(k, g)
      BY <2>3
    <3>2. Aligned(k, g)'
      BY <2>1, <3>1, AlignedSame
    <3>3. QED
      BY <2>1, <2>2, <3>1, <3>2, AlignedHere
  <2>4. ASSUME Aligned(Current + 1, 0) PROVE Aligned(Current + 1, 0)'
    <3>1. PICK k : k = Current + 1 /\ Aligned(k, 0)
      BY <2>4
    <3>2. Aligned(k, 0)'
      BY <2>1, <3>1, AlignedSame
    <3>3. QED
      BY <2>2, <3>1, <3>2, AlignedHere
  <2>5. InOrder' /\ ErrorsExplained'
    <3>1. InOrder'
      BY <1>2, <2>1 DEF InOrder, LongAmong
    <3>2. ErrorsExplained'
      BY <1>2, <2>1 DEF ErrorsExplained, LongAmong, ShortAt, TooShort
    <3>3. QED
      BY <3>1, <3>2
  <2>6. QED
    BY <1>1, <1>2, <2>1, <2>2, <2>3, <2>4, <2>5 DEF StreamInv
<1>23. QED
  BY <1>9, <1>10, <1>11, <1>13, <1>14, <1>15, <1>16, <1>17, <1>18, <1>19, <1>20, <1>21, <1>22
     DEF Next, ReadStep

(* The frames handled on a connection are the first that were written on   *)
(* it, in their order, up to a deadline inside a frame or a message too    *)
(* long for its length field or the buffer (readMessage, frame.go:48-66;   *)
(* newFrame, parser.go:261): for any size of a byte and of the buffer.     *)
THEOREM InOrderHolds == Spec => []InOrder
<1>1. StreamInv => InOrder
  BY DEF StreamInv
<1>2. QED
  BY <1>1, StreamInit, StreamNext, PTL DEF Spec

(* Only such a deadline or such a message makes readMessage fail on what   *)
(* the other end wrote, or panic (frame.go:48-66); any other panic comes   *)
(* from the parser of the frame that is handled in its turn, which was     *)
(* written too short for it (parser.go:140-253), and never from the frame  *)
(* that a deadline makes run() handle again (gt06.go:479-498).             *)
THEOREM ErrorsExplainedHolds == Spec => []ErrorsExplained
<1>1. StreamInv => ErrorsExplained
  BY DEF StreamInv
<1>2. QED
  BY <1>1, StreamInit, StreamNext, PTL DEF Spec
=============================================================================
