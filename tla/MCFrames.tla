------------------------------ MODULE MCFrames ------------------------------
(* Instances of Frames with bytes of 12 values: a payload of 7 bytes is    *)
(* the first whose length does not fit in its field.                       *)
EXTENDS Frames

Short(protocol, payload, serial) ==
    [protocol |-> protocol, payload |-> payload, serial |-> serial, check |-> <<CR, LF>>, extended |-> FALSE]

Extended(protocol, payload, serial) ==
    [Short(protocol, payload, serial) EXCEPT !.extended = TRUE]

(* Protocol 4 is the heartbeat, whose parser indexes 5 bytes, and 2 the    *)
(* text, whose parser takes 7.                                             *)
MinPayloads == [p \in Byte |-> CASE p = 4 -> 5 [] p = 2 -> 7 [] OTHER -> 0]

(* A request for the time, a heartbeat that lacks a byte, a command as     *)
(* long as the field allows whose serial number takes more than two bytes, *)
(* a text with an end of line that is longer, an extended frame, and one   *)
(* longer than the buffer.                                                 *)
Messages ==
    { Short(3, <<>>, 17),
      Short(4, <<0, 0, 0, 0>>, 1),
      newCommand(<<LF>>, 1, Radix * Radix + 1, <<0, 0>>),
      Short(2, <<CR, LF, 1, 1, 1, 1, 1, 1>>, 1),
      Extended(9, <<START, CR, LF>>, 2),
      Extended(9, [i \in 1..9 |-> 1], 2) }
=============================================================================
