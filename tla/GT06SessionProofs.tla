-------------------------- MODULE GT06SessionProofs --------------------------
(***************************************************************************)
(* Proofs about GT06Session, for every number of callers, commands and     *)
(* connections.  A lemma about a step follows the disjuncts of Next, with  *)
(* a step of its own for every action that disturbs what it is about.      *)
(***************************************************************************)
EXTENDS GT06Session, TLAPS

(* A connection that has sent no STATUS# has one to send.                  *)
FlagBound ==
    IF pinged THEN flag <= MaxCmd + conns ELSE flag < MaxCmd + conns

(* TypeOK in three parts: the command slot and its senders ...             *)
SlotTyped ==
    /\ status \in {"empty", "submitted", "sent"}
    /\ flag \in Nat
    /\ conns \in 1..MaxConn
    /\ pinged \in BOOLEAN
    /\ FlagBound
    /\ current_msg \in Command \cup {nil}
    /\ sent_time \in Nat
    /\ spc \in [Sender -> {"idle", "pending", "write", "mark", "event"}]
    /\ smsg \in [Sender -> Command \cup {nil}]
    /\ sflag \in [Sender -> Nat]
    /\ \A s \in Sender : spc[s] = "write" => smsg[s] \in Command

(* ... the frames and what run() does with them ...                        *)
FrameTyped ==
    /\ rpc \in {"read", "ping", "handle", "save", "update", "done",
               "stuck", "panic"}
    /\ msg \in Frame
    /\ skewed \in BOOLEAN
    /\ rcmd \in Command \cup {nil}
    /\ terminal \subseteq [flag : Nat, msg : Command]
    /\ arriving \in Frame \cup {nil}
    /\ fresh \in BOOLEAN /\ garbled \in BOOLEAN

(* ... and what is stored.                                                 *)
StoreTyped ==
    /\ si \in Info /\ loc \in Info /\ log_si \in Info /\ log_cell \in Info
    /\ announced \in {"started", "disconnected"}
    /\ put \in {nil} \cup {[lon |-> Lat(i), lat |-> Lon(i)] : i \in Info}
    /\ attribute \in [Attr \cup {"terminal_status"} -> Text \cup Info]
    /\ answered \in BOOLEAN /\ forced \in BOOLEAN

Inv == SlotTyped /\ FrameTyped /\ StoreTyped

LEMMA InvInit == Init => Inv
<1> SUFFICES ASSUME Init PROVE Inv
  OBVIOUS
<1> USE SessionAssumption
<1>1. SlotTyped
  <2>1. FlagBound /\ flag \in Nat /\ conns \in 1..MaxConn
    BY DEF Init, FlagBound
  <2> QED
    BY <2>1 DEF Init, SlotTyped, Command
<1>2. FrameTyped
  BY DEF Init, Report, FrameTyped, Command, Text, Frame
<1>3. StoreTyped
  BY DEF Init, StoreTyped, Text
<1> QED BY <1>1, <1>2, <1>3 DEF Inv

LEMMA InvTypeOK == Inv => TypeOK
<1> SUFFICES ASSUME Inv PROVE TypeOK
  OBVIOUS
<1>1. SlotTyped /\ FrameTyped /\ StoreTyped
  BY DEF Inv
<1>2. flag \in 0..(MaxCmd + MaxConn)
  BY <1>1, SessionAssumption DEF SlotTyped, FlagBound
<1> QED BY <1>1, <1>2 DEF SlotTyped, FrameTyped, StoreTyped, TypeOK

LEMMA SlotStep ==
    ASSUME SlotTyped, [Next]_vars
    PROVE  SlotTyped'
<1> USE SessionAssumption
<1>1. ASSUME NEW a \in Api, ApiStep(a) PROVE SlotTyped'
  BY <1>1
     DEF ApiStep, Submit, Slot, Refuse, envVars, devVars, readVars, cmdVars,
         SlotTyped, FlagBound, Sender, Command
<1>2. ASSUME NEW s \in Sender, SendStep(s) PROVE SlotTyped'
  BY <1>2
     DEF SendStep, Write, WriteError, Disconnected, Mark, SentEvent, cmdVars,
         devVars, readVars, envVars, SlotTyped, FlagBound, Sender, Command
<1>3. CASE Read \/ ReadGarbage \/ BadFrame \/ ReadError \/ TimeoutClose
  BY <1>3
     DEF Read, ReadGarbage, BadFrame, Disconnected, ReadError, TimeoutClose,
         cmdVars, sendVars, devVars, envVars, readVars, SlotTyped, FlagBound,
         Sender, Command
<1>4. CASE Handle
  BY <1>4
     DEF Handle, HandleUnknown, Handles, HandleTime, HandleHeartbeat,
         HandleLocation, Located, Stored, LocationStuck, TooShort,
         ParsePanics, HandleAlarm, HandleInfo, Match, Mismatch,
         SaveResponse, UpdateAttribute, cmdVars, sendVars, envVars, devVars,
         SlotTyped, FlagBound, Sender, Command
<1>5. CASE Answer \/ Reports
  BY <1>5
     DEF Answer, Response, Reports, Report, cmdVars, sendVars, devVars,
         readVars, SlotTyped, FlagBound, Sender, Command
<1>6. CASE TimeoutPing
  BY <1>6 DEF TimeoutPing, Slot, SlotTyped, FlagBound, Sender, Command, envVars
<1>7. CASE TimeoutInFrame
  BY <1>7 DEF TimeoutInFrame, Slot, SlotTyped, FlagBound, Sender, Command
<1>8. CASE Reconnect
  <2>1. flag \in Nat /\ conns \in Nat /\ conns < MaxConn
        /\ flag <= MaxCmd + conns
    BY <1>8 DEF Reconnect, SlotTyped, FlagBound
  <2>2. flag' = flag /\ conns' = conns + 1 /\ pinged' = FALSE
    BY <1>8 DEF Reconnect, cmdVars
  <2>3. conns' \in 1..MaxConn /\ flag' < MaxCmd + conns'
    BY <2>1, <2>2
  <2>4. FlagBound'
    BY <2>2, <2>3 DEF FlagBound
  <2> QED
    BY <1>8, <2>2, <2>3, <2>4 DEF Reconnect, SlotTyped, cmdVars, sendVars
<1>9. CASE UNCHANGED vars
  BY <1>9
     DEF vars, cmdVars, sendVars, envVars, devVars, readVars, SlotTyped,
         FlagBound, Sender, Command
<1> QED
  BY <1>1, <1>2, <1>3, <1>4, <1>5, <1>6, <1>7, <1>8, <1>9
     DEF Next, RunStep, Handle, ApiStep, SendStep, Sender

(* A read that fails leaves a frame in the buffer.                         *)
LEMMA AbandonedFrame ==
    ASSUME FrameTyped, Abandoned
    PROVE  msg' \in Frame /\ garbled' \in BOOLEAN
<1> USE SessionAssumption
<1>1. CASE UNCHANGED <<msg, garbled>>
  BY <1>1 DEF FrameTyped
<1>2. CASE arriving # nil /\ Overwritten(arriving)
  <2>1. msg \in Frame /\ arriving \in Frame /\ garbled \in BOOLEAN
    BY <1>2 DEF FrameTyped
  <2>2. ASSUME NEW x \in AnyFlag, NEW t \in {msg.text, arriving.text, Mixed},
               msg' = [msg EXCEPT !.flag = x, !.text = t]
        PROVE  msg' \in Frame
    <3>1. x \in Nat \cup {nil} /\ t \in Text
      BY <2>1 DEF AnyFlag, Frame, Text
    <3> QED
      BY <2>1, <2>2, <3>1 DEF Frame
  <2>3. ASSUME NEW i \in Info, msg' = [msg EXCEPT !.info = i]
        PROVE  msg' \in Frame
    BY <2>1, <2>3 DEF Frame
  <2>4. garbled' \in BOOLEAN
    BY <1>2, <2>1 DEF Overwritten
  <2> QED
    BY <1>2, <2>2, <2>3, <2>4 DEF Overwritten
<1> QED
  BY <1>1, <1>2 DEF Abandoned

LEMMA GarbageFrame ==
    ASSUME FrameTyped, ReadGarbage
    PROVE  msg' \in Frame /\ garbled' \in BOOLEAN
<1> USE SessionAssumption
<1>1. ASSUME NEW x \in AnyFlag PROVE Response(x, Mixed) \in Frame
  <2>1. x \in Nat \cup {nil}
    BY DEF AnyFlag
  <2> QED
    BY <2>1 DEF Response, Frame, Text
<1>2. ASSUME NEW k \in Kind \cup {"unknown", "response"},
             NEW i \in Info \cup {Short}
      PROVE  Report(k, i) \in Frame
  BY DEF Report, Frame, Text
<1>3. msg' \in Frame
  BY <1>1, <1>2 DEF ReadGarbage
<1>4. garbled' \in BOOLEAN
  <2>1. garbled' = (garbled \/ msg'.flag # nil) \/ garbled' = garbled
    BY DEF ReadGarbage
  <2> QED
    BY <2>1 DEF FrameTyped
<1> QED
  BY <1>3, <1>4

(* It has no flag, or one that no frame carried.                           *)
LEMMA GarbageFlag ==
    ASSUME ReadGarbage
    PROVE  garbled' \/ (~garbled /\ msg'.flag = nil)
<1>1. CASE garbled' = (garbled \/ msg'.flag # nil)
  BY <1>1
<1>2. ASSUME NEW k, NEW i, msg' = Report(k, i), garbled' = garbled
      PROVE  garbled' \/ (~garbled /\ msg'.flag = nil)
  BY <1>2 DEF Report
<1> QED
  BY <1>1, <1>2 DEF ReadGarbage

LEMMA FrameStep ==
    ASSUME SlotTyped, FrameTyped, [Next]_vars
    PROVE  FrameTyped'
<1> USE SessionAssumption
<1>1. ASSUME NEW a \in Api, ApiStep(a) PROVE FrameTyped'
  BY <1>1
     DEF ApiStep, Submit, Slot, Refuse, envVars, devVars, readVars, cmdVars,
         FrameTyped, Frame, Text, Command
<1>2. ASSUME NEW s \in Sender, WriteError(s) \/ Mark(s) \/ SentEvent(s)
      PROVE  FrameTyped'
  BY <1>2
     DEF WriteError, Disconnected, Mark, SentEvent, cmdVars, envVars, devVars,
         readVars, FrameTyped, Frame, Text, Command
<1>3. CASE Read \/ TimeoutPing \/ Reconnect
  BY <1>3
     DEF Read, TimeoutPing, Slot, Reconnect, cmdVars, sendVars, devVars,
         envVars, readVars, FrameTyped, Frame, Text, Command
<1>4. CASE HandleUnknown \/ HandleTime \/ HandleHeartbeat \/ HandleLocation
           \/ LocationStuck \/ ParsePanics \/ HandleAlarm \/ HandleInfo
           \/ Mismatch \/ SaveResponse \/ UpdateAttribute
  BY <1>4
     DEF HandleUnknown, Handles, HandleTime, HandleHeartbeat, HandleLocation,
         Located, Stored, LocationStuck, TooShort, ParsePanics, HandleAlarm,
         HandleInfo, Mismatch, SaveResponse, UpdateAttribute, cmdVars,
         sendVars, envVars, devVars, FrameTyped, Frame, Text, Command
<1>5. CASE Answer \/ Reports
  BY <1>5
     DEF Answer, Response, Reports, Report, cmdVars, sendVars, devVars,
         readVars, FrameTyped, Frame, Text, Command
<1>6. ASSUME NEW s \in Sender, Write(s) PROVE FrameTyped'
  BY <1>6, sflag[s] \in Nat, smsg[s] \in Command
     DEF Write, SlotTyped, FrameTyped, cmdVars, readVars
<1>7. CASE ReadError \/ BadFrame \/ TimeoutClose \/ TimeoutInFrame
  <2>1. msg' \in Frame /\ garbled' \in BOOLEAN
    BY <1>7, AbandonedFrame
       DEF ReadError, BadFrame, TimeoutClose, TimeoutInFrame
  <2> QED
    BY <1>7, <2>1
       DEF ReadError, BadFrame, TimeoutClose, TimeoutInFrame, Disconnected,
           Slot, FrameTyped, cmdVars, sendVars, envVars
<1>10. CASE ReadGarbage
  <2>1. msg' \in Frame /\ garbled' \in BOOLEAN
    BY <1>10, GarbageFrame
  <2> QED
    BY <1>10, <2>1 DEF ReadGarbage, FrameTyped
<1>8. CASE Match
  BY <1>8 DEF Match, Handles, SlotTyped, FrameTyped, sendVars, envVars, devVars
<1>9. CASE UNCHANGED vars
  BY <1>9
     DEF vars, cmdVars, sendVars, envVars, devVars, readVars, FrameTyped,
         Frame, Text, Command
<1> QED
  BY <1>1, <1>2, <1>3, <1>4, <1>5, <1>6, <1>7, <1>8, <1>9, <1>10
     DEF Next, RunStep, Handle, ApiStep, SendStep, Sender

LEMMA StoreStep ==
    ASSUME FrameTyped, StoreTyped, [Next]_vars
    PROVE  StoreTyped'
<1> USE SessionAssumption
<1>1. ASSUME NEW a \in Api, ApiStep(a) PROVE StoreTyped'
  BY <1>1
     DEF ApiStep, Submit, Slot, Refuse, envVars, devVars, readVars, cmdVars,
         FrameTyped, StoreTyped, Frame, Text
<1>2. ASSUME NEW s \in Sender, SendStep(s) PROVE StoreTyped'
  BY <1>2
     DEF SendStep, Write, WriteError, Disconnected, Mark, SentEvent, cmdVars,
         devVars, readVars, envVars, FrameTyped, StoreTyped, Frame, Text
<1>3. CASE Read \/ ReadGarbage \/ BadFrame \/ ReadError \/ TimeoutClose
           \/ TimeoutPing \/ TimeoutInFrame \/ Reconnect
  BY <1>3
     DEF Read, ReadGarbage, BadFrame, Disconnected, ReadError, TimeoutClose,
         TimeoutPing, Slot, TimeoutInFrame, Reconnect, cmdVars, sendVars,
         devVars, envVars, readVars, FrameTyped, StoreTyped, Frame, Text
<1>4. CASE Handle
  BY <1>4
     DEF Handle, HandleUnknown, Handles, HandleTime, HandleHeartbeat,
         HandleLocation, Located, Stored, LocationStuck, TooShort,
         ParsePanics, HandleAlarm, HandleInfo, Match, Mismatch,
         SaveResponse, UpdateAttribute, cmdVars, sendVars, envVars, devVars,
         FrameTyped, StoreTyped, Frame, Text
<1>5. CASE Answer \/ Reports
  BY <1>5
     DEF Answer, Response, Reports, Report, cmdVars, sendVars, devVars,
         readVars, FrameTyped, StoreTyped, Frame, Text
<1>6. CASE UNCHANGED vars
  BY <1>6
     DEF vars, cmdVars, sendVars, envVars, devVars, readVars, FrameTyped,
         StoreTyped, Frame, Text
<1> QED
  BY <1>1, <1>2, <1>3, <1>4, <1>5, <1>6
     DEF Next, RunStep, Handle, ApiStep, SendStep, Sender

LEMMA InvStep ==
    ASSUME Inv, [Next]_vars
    PROVE  Inv'
BY SlotStep, FrameStep, StoreStep DEF Inv

LEMMA InvHolds == Spec => []Inv
BY InvInit, InvStep, PTL DEF Spec

(* The types hold, and no connection sends a second STATUS#.               *)
THEOREM TypeCorrect == Spec => []TypeOK
BY InvHolds, InvTypeOK, PTL

-----------------------------------------------------------------------------
(* What the frames carry.  A command is with its sender, at the terminal,  *)
(* on its way back as an answer, or in run()'s hand.  None has a flag      *)
(* above the slot's, and the one with the slot's flag is the slot's        *)
(* command; a frame that was handled before has an older flag, as long as  *)
(* no flag was read that no frame carried.                                 *)
Known(f, m) == f <= flag /\ (f = flag => m = current_msg)

SenderKnown ==
    \A s \in Sender :
        spc[s] = "write" => sflag[s] > 0 /\ Known(sflag[s], smsg[s])
TerminalKnown == \A x \in terminal : x.flag > 0 /\ Known(x.flag, x.msg)
ArrivingKnown ==
    arriving # nil /\ arriving.flag # nil =>
        arriving.flag > 0 /\ Known(arriving.flag, arriving.text)
FlagsWhole ==
    /\ msg.flag # nil => msg.flag \in 1..flag
    /\ rpc = "handle" /\ msg.flag = flag => fresh /\ msg.text = current_msg
    /\ rpc = "ping" => msg.flag # flag
    /\ rpc \in {"save", "update"} => rcmd = msg.text
MsgKnown ==
    /\ garbled \/ FlagsWhole
    /\ spc["run"] # "idle" => rpc = "ping"

Content == SenderKnown /\ TerminalKnown /\ ArrivingKnown /\ MsgKnown

LEMMA ContentInit == Init => Content
BY SessionAssumption
   DEF Init, Report, Content, SenderKnown, TerminalKnown, ArrivingKnown,
       MsgKnown, FlagsWhole, Sender

LEMMA SenderKnownStep ==
    ASSUME Inv, Content, [Next]_vars
    PROVE  SenderKnown'
<1> SlotTyped /\ FrameTyped
  BY DEF Inv
<1> USE SessionAssumption
<1>1. ASSUME NEW a \in Api, ApiStep(a) PROVE SenderKnown'
  BY <1>1
     DEF ApiStep, Submit, Slot, Refuse, envVars, devVars, readVars, cmdVars,
         Content, SenderKnown, Sender, SlotTyped, FrameTyped, Frame, Known
<1>2. ASSUME NEW s \in Sender, SendStep(s) PROVE SenderKnown'
  BY <1>2
     DEF SendStep, Write, WriteError, Disconnected, Mark, SentEvent, cmdVars,
         devVars, readVars, envVars, Content, SenderKnown, Sender, SlotTyped,
         FrameTyped, Frame, Known
<1>3. CASE Read \/ ReadGarbage \/ BadFrame \/ ReadError \/ TimeoutClose
           \/ TimeoutPing \/ TimeoutInFrame \/ Reconnect
  BY <1>3
     DEF Read, ReadGarbage, BadFrame, Disconnected, ReadError, TimeoutClose,
         TimeoutPing, Slot, TimeoutInFrame, Reconnect, cmdVars, sendVars,
         devVars, envVars, readVars, Content, SenderKnown, Sender, SlotTyped,
         FrameTyped, Frame, Known
<1>4. CASE Handle
  BY <1>4
     DEF Handle, HandleUnknown, Handles, HandleTime, HandleHeartbeat,
         HandleLocation, Located, Stored, LocationStuck, TooShort,
         ParsePanics, HandleAlarm, HandleInfo, Match, Mismatch,
         SaveResponse, UpdateAttribute, cmdVars, sendVars, envVars, devVars,
         Content, SenderKnown, Sender, SlotTyped, FrameTyped, Frame, Known
<1>5. CASE Answer \/ Reports
  BY <1>5
     DEF Answer, Response, Reports, Report, cmdVars, sendVars, devVars,
         readVars, Content, SenderKnown, Sender, SlotTyped, FrameTyped, Frame,
         Known
<1>6. CASE UNCHANGED vars
  BY <1>6
     DEF vars, cmdVars, sendVars, envVars, devVars, readVars, Content,
         SenderKnown, Sender, SlotTyped, FrameTyped, Frame, Known
<1> QED
  BY <1>1, <1>2, <1>3, <1>4, <1>5, <1>6
     DEF Next, RunStep, Handle, ApiStep, SendStep, Sender

LEMMA TerminalKnownStep ==
    ASSUME Inv, Content, [Next]_vars
    PROVE  TerminalKnown'
<1> SlotTyped /\ FrameTyped
  BY DEF Inv
<1> USE SessionAssumption
<1>1. ASSUME NEW a \in Api, ApiStep(a) PROVE TerminalKnown'
  BY <1>1
     DEF ApiStep, Submit, Slot, Refuse, envVars, devVars, readVars, cmdVars,
         Content, SenderKnown, TerminalKnown, SlotTyped, FrameTyped, Frame,
         Known
<1>2. ASSUME NEW s \in Sender, SendStep(s) PROVE TerminalKnown'
  BY <1>2
     DEF SendStep, Write, WriteError, Disconnected, Mark, SentEvent, cmdVars,
         devVars, readVars, envVars, Content, SenderKnown, TerminalKnown,
         SlotTyped, FrameTyped, Frame, Known
<1>3. CASE Read \/ ReadGarbage \/ BadFrame \/ ReadError \/ TimeoutClose
           \/ TimeoutPing \/ TimeoutInFrame \/ Reconnect
  BY <1>3
     DEF Read, ReadGarbage, BadFrame, Disconnected, ReadError, TimeoutClose,
         TimeoutPing, Slot, TimeoutInFrame, Reconnect, cmdVars, sendVars,
         devVars, envVars, readVars, Content, SenderKnown, TerminalKnown,
         SlotTyped, FrameTyped, Frame, Known
<1>4. CASE Handle
  BY <1>4
     DEF Handle, HandleUnknown, Handles, HandleTime, HandleHeartbeat,
         HandleLocation, Located, Stored, LocationStuck, TooShort,
         ParsePanics, HandleAlarm, HandleInfo, Match, Mismatch,
         SaveResponse, UpdateAttribute, cmdVars, sendVars, envVars, devVars,
         Content, SenderKnown, TerminalKnown, SlotTyped, FrameTyped, Frame,
         Known
<1>5. CASE Answer \/ Reports
  BY <1>5
     DEF Answer, Response, Reports, Report, cmdVars, sendVars, devVars,
         readVars, Content, SenderKnown, TerminalKnown, SlotTyped, FrameTyped,
         Frame, Known
<1>6. CASE UNCHANGED vars
  BY <1>6
     DEF vars, cmdVars, sendVars, envVars, devVars, readVars, Content,
         SenderKnown, TerminalKnown, SlotTyped, FrameTyped, Frame, Known
<1> QED
  BY <1>1, <1>2, <1>3, <1>4, <1>5, <1>6
     DEF Next, RunStep, Handle, ApiStep, SendStep, Sender

LEMMA ArrivingKnownStep ==
    ASSUME Inv, Content, [Next]_vars
    PROVE  ArrivingKnown'
<1> SlotTyped /\ FrameTyped
  BY DEF Inv
<1> USE SessionAssumption
<1>1. ASSUME NEW a \in Api, ApiStep(a) PROVE ArrivingKnown'
  BY <1>1
     DEF ApiStep, Submit, Slot, Refuse, envVars, devVars, readVars, cmdVars,
         Content, TerminalKnown, ArrivingKnown, SlotTyped, FrameTyped, Frame,
         Known
<1>2. ASSUME NEW s \in Sender, SendStep(s) PROVE ArrivingKnown'
  BY <1>2
     DEF SendStep, Write, WriteError, Disconnected, Mark, SentEvent, cmdVars,
         devVars, readVars, envVars, Content, TerminalKnown, ArrivingKnown,
         SlotTyped, FrameTyped, Frame, Known
<1>3. CASE Read \/ ReadGarbage \/ BadFrame \/ ReadError \/ TimeoutClose
           \/ TimeoutPing \/ TimeoutInFrame \/ Reconnect
  BY <1>3
     DEF Read, ReadGarbage, BadFrame, Disconnected, ReadError, TimeoutClose,
         TimeoutPing, Slot, TimeoutInFrame, Reconnect, cmdVars, sendVars,
         devVars, envVars, readVars, Content, TerminalKnown, ArrivingKnown,
         SlotTyped, FrameTyped, Frame, Known
<1>4. CASE Handle
  BY <1>4
     DEF Handle, HandleUnknown, Handles, HandleTime, HandleHeartbeat,
         HandleLocation, Located, Stored, LocationStuck, TooShort,
         ParsePanics, HandleAlarm, HandleInfo, Match, Mismatch,
         SaveResponse, UpdateAttribute, cmdVars, sendVars, envVars, devVars,
         Content, TerminalKnown, ArrivingKnown, SlotTyped, FrameTyped, Frame,
         Known
<1>5. CASE Answer \/ Reports
  BY <1>5
     DEF Answer, Response, Reports, Report, cmdVars, sendVars, devVars,
         readVars, Content, TerminalKnown, ArrivingKnown, SlotTyped,
         FrameTyped, Frame, Known
<1>6. CASE UNCHANGED vars
  BY <1>6
     DEF vars, cmdVars, sendVars, envVars, devVars, readVars, Content,
         TerminalKnown, ArrivingKnown, SlotTyped, FrameTyped, Frame, Known
<1> QED
  BY <1>1, <1>2, <1>3, <1>4, <1>5, <1>6
     DEF Next, RunStep, Handle, ApiStep, SendStep, Sender

LEMMA AbandonedFlag ==
    ASSUME Inv, Content, Abandoned
    PROVE  garbled' \/ (msg'.flag # nil => msg'.flag \in 1..flag)
<1> SlotTyped /\ FrameTyped
  BY DEF Inv
<1> USE SessionAssumption
<1> SUFFICES ASSUME ~garbled' PROVE msg'.flag # nil => msg'.flag \in 1..flag
  OBVIOUS
<1>1. msg \in Frame
  BY DEF FrameTyped
<1>2. CASE UNCHANGED <<msg, garbled>>
  BY <1>2 DEF Content, MsgKnown, FlagsWhole
<1>3. CASE arriving # nil /\ Overwritten(arriving)
  <2>1. ~garbled /\ msg'.flag \in {msg.flag, arriving.flag, nil}
    <3>1. ASSUME NEW x, NEW t, msg' = [msg EXCEPT !.flag = x, !.text = t],
                 garbled' = (garbled \/ x \notin {msg.flag, arriving.flag, nil})
          PROVE  ~garbled /\ msg'.flag \in {msg.flag, arriving.flag, nil}
      <4>1. msg'.flag = x
        BY <1>1, <3>1 DEF Frame
      <4> QED
        BY <3>1, <4>1
    <3>2. ASSUME NEW i, msg' = [msg EXCEPT !.info = i], garbled' = garbled
          PROVE  ~garbled /\ msg'.flag \in {msg.flag, arriving.flag, nil}
      BY <1>1, <3>2 DEF Frame
    <3> QED
      BY <1>3, <3>1, <3>2 DEF Overwritten
  <2>2. arriving \in Frame
    BY <1>3 DEF FrameTyped
  <2> QED
    BY <1>3, <2>1, <2>2
       DEF Content, ArrivingKnown, MsgKnown, FlagsWhole, Known, Frame,
           SlotTyped
<1> QED
  BY <1>2, <1>3 DEF Abandoned

LEMMA MsgKnownStep ==
    ASSUME Inv, Content, [Next]_vars
    PROVE  MsgKnown'
<1> SlotTyped /\ FrameTyped
  BY DEF Inv
<1> USE SessionAssumption
<1>1. ASSUME NEW a \in Api, ApiStep(a) PROVE MsgKnown'
  BY <1>1
     DEF ApiStep, Submit, Slot, Refuse, envVars, devVars, readVars, cmdVars,
         Content, ArrivingKnown, MsgKnown, FlagsWhole, Sender, SlotTyped,
         FrameTyped, Frame, Known
<1>2. ASSUME NEW s \in Sender, SendStep(s) PROVE MsgKnown'
  BY <1>2
     DEF SendStep, Write, WriteError, Disconnected, Mark, SentEvent, cmdVars,
         devVars, readVars, envVars, Content, ArrivingKnown, MsgKnown,
         FlagsWhole, Sender, SlotTyped, FrameTyped, Frame, Known
<1>3. CASE Read \/ TimeoutPing \/ Reconnect
  BY <1>3
     DEF Read, TimeoutPing, Slot, Reconnect, cmdVars, sendVars, devVars,
         envVars, readVars, Content, ArrivingKnown, MsgKnown, FlagsWhole,
         Sender, SlotTyped, FrameTyped, Frame, Known
<1>4. CASE Handle
  BY <1>4
     DEF Handle, HandleUnknown, Handles, HandleTime, HandleHeartbeat,
         HandleLocation, Located, Stored, LocationStuck, TooShort,
         ParsePanics, HandleAlarm, HandleInfo, Match, Mismatch, SaveResponse,
         UpdateAttribute, cmdVars, sendVars, envVars, devVars, Content,
         ArrivingKnown, MsgKnown, FlagsWhole, Sender, SlotTyped, FrameTyped,
         Frame, Known
<1>5. CASE Answer \/ Reports
  BY <1>5
     DEF Answer, Response, Reports, Report, cmdVars, sendVars, devVars,
         readVars, Content, ArrivingKnown, MsgKnown, FlagsWhole, Sender,
         SlotTyped, FrameTyped, Frame, Known
<1>6. CASE ReadError \/ BadFrame \/ TimeoutClose \/ TimeoutInFrame
  <2>1. garbled' \/ (msg'.flag # nil => msg'.flag \in 1..flag)
    BY <1>6, AbandonedFlag
       DEF ReadError, BadFrame, TimeoutClose, TimeoutInFrame
  <2>2. CASE TimeoutInFrame
    <3>1. flag \in Nat /\ flag' = flag + 1 /\ rpc' = "ping"
      BY <2>2 DEF TimeoutInFrame, Slot, SlotTyped
    <3> QED
      BY <2>1, <3>1 DEF MsgKnown, FlagsWhole
  <2>3. CASE ReadError \/ BadFrame \/ TimeoutClose
    <3>1. /\ flag' = flag /\ spc' = spc
          /\ rpc = "read" /\ rpc' \in {"done", "stuck"}
      BY <2>3
         DEF ReadError, BadFrame, TimeoutClose, Disconnected, cmdVars, sendVars
    <3>2. spc["run"] = "idle"
      BY <3>1 DEF Content, MsgKnown
    <3> QED
      BY <2>1, <3>1, <3>2 DEF MsgKnown, FlagsWhole
  <2> QED
    BY <1>6, <2>2, <2>3
<1>8. CASE ReadGarbage
  <2>1. garbled' \/ msg'.flag = nil
    BY <1>8, GarbageFlag
  <2>2. /\ flag' = flag /\ spc' = spc
        /\ rpc = "read" /\ rpc' = "handle"
    BY <1>8 DEF ReadGarbage, cmdVars, sendVars
  <2>3. spc["run"] = "idle" /\ nil # flag
    BY <2>2 DEF Content, MsgKnown, SlotTyped
  <2> QED
    BY <2>1, <2>2, <2>3 DEF MsgKnown, FlagsWhole
<1>7. CASE UNCHANGED vars
  BY <1>7
     DEF vars, cmdVars, sendVars, envVars, devVars, readVars, Content,
         ArrivingKnown, MsgKnown, FlagsWhole, Sender, SlotTyped, FrameTyped,
         Frame, Known
<1> QED
  BY <1>1, <1>2, <1>3, <1>4, <1>5, <1>6, <1>7, <1>8
     DEF Next, RunStep, Handle, ApiStep, SendStep, Sender

LEMMA ContentStep ==
    ASSUME Inv, Content, [Next]_vars
    PROVE  Content'
BY SenderKnownStep, TerminalKnownStep, ArrivingKnownStep, MsgKnownStep
   DEF Content

LEMMA ContentHolds == Spec => [](Inv /\ Content)
BY InvInit, InvStep, ContentInit, ContentStep, PTL DEF Spec

(* An attribute is set to the text of a response whose flag was the slot's *)
(* when it was matched, under the name copied in the same critical         *)
(* section: the text is that command's answer.                             *)
LEMMA AttributeStep ==
    ASSUME Inv, Content, AttributeMatches, [Next]_vars
    PROVE  AttributeMatches'
<1> USE SessionAssumption
<1>1. ASSUME NEW a \in Api, ApiStep(a) PROVE AttributeMatches'
  BY <1>1
     DEF ApiStep, Submit, Slot, Refuse, envVars, devVars, readVars, cmdVars,
         AttributeMatches
<1>2. ASSUME NEW s \in Sender, SendStep(s) PROVE AttributeMatches'
  BY <1>2
     DEF SendStep, Write, WriteError, Disconnected, Mark, SentEvent, cmdVars,
         devVars, readVars, envVars, AttributeMatches
<1>3. CASE Read \/ ReadGarbage \/ BadFrame \/ ReadError \/ TimeoutClose
           \/ TimeoutPing \/ TimeoutInFrame \/ Reconnect
  BY <1>3
     DEF Read, ReadGarbage, BadFrame, Disconnected, ReadError, TimeoutClose,
         Abandoned, Overwritten, TimeoutPing, Slot, TimeoutInFrame, Reconnect,
         cmdVars, sendVars, devVars, envVars, readVars, AttributeMatches
<1>4. CASE HandleUnknown \/ HandleTime \/ HandleHeartbeat \/ HandleLocation
           \/ LocationStuck \/ ParsePanics \/ HandleAlarm \/ Match \/ Mismatch
           \/ SaveResponse
  BY <1>4
     DEF HandleUnknown, Handles, HandleTime, HandleHeartbeat, HandleLocation,
         Located, Stored, LocationStuck, TooShort, ParsePanics, HandleAlarm,
         Match, Mismatch, SaveResponse, cmdVars, sendVars, envVars, devVars,
         AttributeMatches
<1>5. CASE Answer \/ Reports
  BY <1>5
     DEF Answer, Response, Reports, Report, cmdVars, sendVars, devVars,
         readVars, AttributeMatches
<1>6. CASE UpdateAttribute
  <2>1. garbled' = garbled /\ (garbled \/ rcmd = msg.text)
    BY <1>6 DEF UpdateAttribute, Content, MsgKnown, FlagsWhole
  <2>2. attribute \in [Attr \cup {"terminal_status"} -> Text \cup Info]
    BY DEF Inv, StoreTyped
  <2> QED
    BY <1>6, <2>1, <2>2 DEF UpdateAttribute, AttributeMatches
<1>7. CASE HandleInfo
  BY <1>7 DEF HandleInfo, Inv, StoreTyped, AttributeMatches
<1>8. CASE UNCHANGED vars
  BY <1>8
     DEF vars, cmdVars, sendVars, envVars, devVars, readVars, AttributeMatches
<1> QED
  BY <1>1, <1>2, <1>3, <1>4, <1>5, <1>6, <1>7, <1>8
     DEF Next, RunStep, Handle, ApiStep, SendStep, Sender

(* An attribute holds the answer to its own command, unless run() read a   *)
(* flag that no frame carried.                                             *)
THEOREM AttributeMatchesHolds == Spec => []AttributeMatches
<1>1. Init => AttributeMatches
  BY DEF Init, AttributeMatches
<1> QED
  BY <1>1, ContentHolds, AttributeStep, PTL DEF Spec

-----------------------------------------------------------------------------
(* There is one copy of the slot's command at most, and none once it has   *)
(* been answered, as long as no flag was read that no frame carried.       *)
WrittenBy(s) == spc[s] = "write" /\ sflag[s] = flag
AtTerminal   == \E x \in terminal : x.flag = flag
OnItsWay     == arriving # nil /\ arriving.flag = flag
InHand       == rpc = "handle" /\ msg.flag = flag

OneSender ==
    \A s, t \in Sender : WrittenBy(s) /\ WrittenBy(t) => s = t
NotWritten == \A s \in Sender : ~WrittenBy(s)
InHandAlone ==
    /\ InHand => NotWritten /\ ~AtTerminal /\ ~OnItsWay
    /\ answered => NotWritten /\ ~AtTerminal /\ ~OnItsWay /\ ~InHand
OneCopy ==
    /\ OneSender
    /\ AtTerminal => NotWritten
    /\ OnItsWay => NotWritten /\ ~AtTerminal
    /\ garbled \/ InHandAlone

LEMMA OneCopyInit == Init => OneCopy
BY SessionAssumption
   DEF Init, OneCopy, OneSender, NotWritten, WrittenBy, AtTerminal, OnItsWay,
       InHand, InHandAlone, Sender

(* A new flag: only its sender has it.                                     *)
LEMMA OneCopySlot ==
    ASSUME Inv, Content, NEW s \in Sender, NEW m, NEW force, Slot(s, m, force),
           terminal' = terminal, arriving' = arriving \/ arriving' = nil,
           rpc' # "handle" \/ UNCHANGED <<msg, garbled>>
    PROVE  OneCopy'
<1> SlotTyped /\ FrameTyped
  BY DEF Inv
<1> USE SessionAssumption
<1>1. flag \in Nat /\ flag' = flag + 1 /\ answered' = FALSE
  BY DEF Slot, SlotTyped
<1>2. \A t \in Sender : t # s => ~WrittenBy(t)'
  BY <1>1 DEF Slot, WrittenBy, Content, SenderKnown, Known, SlotTyped
<1>3. ~AtTerminal'
  BY <1>1 DEF AtTerminal, Content, TerminalKnown, Known, FrameTyped
<1>4. ~OnItsWay'
  BY <1>1 DEF OnItsWay, Content, ArrivingKnown, Known, FrameTyped, Frame
<1>5. garbled' \/ ~InHand'
  BY <1>1 DEF InHand, Content, MsgKnown, FlagsWhole
<1> QED
  BY <1>1, <1>2, <1>3, <1>4, <1>5
     DEF OneCopy, InHandAlone, OneSender, NotWritten

LEMMA OneCopyStep ==
    ASSUME Inv, Content, OneCopy, [Next]_vars
    PROVE  OneCopy'
<1> SlotTyped /\ FrameTyped
  BY DEF Inv
<1> USE SessionAssumption
<1>1. ASSUME NEW a \in Api, Refuse(a) PROVE OneCopy'
  BY <1>1
     DEF Refuse, cmdVars, envVars, devVars, readVars, OneCopy, InHandAlone,
         OneSender, NotWritten, WrittenBy, AtTerminal, OnItsWay, InHand,
         SlotTyped, FrameTyped
<1>2. ASSUME NEW s \in Sender, Write(s) \/ WriteError(s) \/ Mark(s)
      PROVE  OneCopy'
  BY <1>2
     DEF Write, WriteError, Disconnected, Mark, cmdVars, devVars, readVars,
         envVars, OneCopy, InHandAlone, OneSender, NotWritten, WrittenBy,
         AtTerminal, OnItsWay, InHand, SlotTyped, FrameTyped
<1>3. CASE Read \/ Reconnect
  BY <1>3
     DEF Read, Reconnect, cmdVars, sendVars, devVars, envVars, readVars,
         OneCopy, InHandAlone, OneSender, NotWritten, WrittenBy, AtTerminal,
         OnItsWay, InHand, SlotTyped, FrameTyped
<1>12. CASE ReadError \/ BadFrame \/ TimeoutClose
  <2>1. /\ flag' = flag /\ answered' = answered /\ spc' = spc /\ sflag' = sflag
        /\ terminal' = terminal /\ arriving' = arriving
        /\ rpc = "read" /\ rpc' \in {"done", "stuck"}
    BY <1>12
       DEF ReadError, BadFrame, TimeoutClose, Disconnected, cmdVars, sendVars,
           envVars
  <2>2. garbled => garbled'
    BY <1>12
       DEF ReadError, BadFrame, TimeoutClose, Abandoned, Overwritten
  <2> QED
    BY <2>1, <2>2
       DEF OneCopy, InHandAlone, OneSender, NotWritten, WrittenBy, AtTerminal,
           OnItsWay, InHand
<1>13. CASE ReadGarbage
  <2>1. /\ flag' = flag /\ answered' = answered /\ spc' = spc /\ sflag' = sflag
        /\ terminal' = terminal /\ arriving' = nil /\ rpc = "read"
    BY <1>13 DEF ReadGarbage, cmdVars, sendVars
  <2>2. garbled' \/ (~garbled /\ msg'.flag = nil)
    BY <1>13, GarbageFlag
  <2>3. nil # flag
    BY DEF SlotTyped
  <2> QED
    BY <2>1, <2>2, <2>3
       DEF OneCopy, InHandAlone, OneSender, NotWritten, WrittenBy, AtTerminal,
           OnItsWay, InHand
<1>4. CASE Handle
  BY <1>4
     DEF Handle, HandleUnknown, Handles, HandleTime, HandleHeartbeat,
         HandleLocation, Located, Stored, LocationStuck, TooShort,
         ParsePanics, HandleAlarm, HandleInfo, Match, Mismatch, SaveResponse,
         UpdateAttribute, cmdVars, sendVars, envVars, devVars, OneCopy,
         InHandAlone, OneSender, NotWritten, WrittenBy, AtTerminal, OnItsWay,
         InHand, SlotTyped, FrameTyped
<1>5. CASE Reports
  BY <1>5
     DEF Reports, Report, cmdVars, sendVars, devVars, readVars, OneCopy,
         InHandAlone, OneSender, NotWritten, WrittenBy, AtTerminal, OnItsWay,
         InHand, SlotTyped, FrameTyped
<1>6. ASSUME NEW a \in Api, NEW m \in Attr \cup Other, NEW force \in BOOLEAN,
               Submit(a, m, force)
        PROVE  OneCopy'
  BY <1>6, OneCopySlot DEF Submit, envVars, readVars, Sender
<1>7. CASE TimeoutPing
  BY <1>7, OneCopySlot DEF TimeoutPing, envVars, Sender
<1>8. CASE TimeoutInFrame
  <2>1. "run" \in Sender /\ Slot("run", Status, TRUE) /\ terminal' = terminal
        /\ arriving' = nil /\ rpc' # "handle"
    BY <1>8 DEF TimeoutInFrame, Sender
  <2> QED
    BY <2>1, OneCopySlot
<1>9. ASSUME NEW s \in Sender, SentEvent(s) PROVE OneCopy'
  <2>1. \A t \in Sender : WrittenBy(t)' => WrittenBy(t)
    BY <1>9 DEF SentEvent, WrittenBy, SlotTyped, cmdVars
  <2>2. AtTerminal' = AtTerminal /\ OnItsWay' = OnItsWay /\ answered' = answered
    BY <1>9 DEF SentEvent, AtTerminal, OnItsWay, cmdVars, envVars
  <2>3. rpc' = rpc \/ rpc = "ping"
    BY <1>9 DEF SentEvent, Content, MsgKnown
  <2>4. garbled' = garbled /\ (garbled \/ (InHand' => InHand))
    BY <1>9, <2>3
       DEF SentEvent, InHand, Content, MsgKnown, FlagsWhole, cmdVars, readVars
  <2> QED
    BY <2>1, <2>2, <2>4 DEF OneCopy, InHandAlone, OneSender, NotWritten
<1>10. CASE Answer
  <2>1. PICK x \in terminal :
           /\ terminal' = terminal \ {x}
           /\ arriving' = Response(x.flag, x.msg)
    BY <1>10 DEF Answer
  <2>2. /\ flag' = flag /\ answered' = answered /\ garbled' = garbled
        /\ \A s \in Sender : WrittenBy(s)' <=> WrittenBy(s)
        /\ InHand' <=> InHand
    BY <1>10 DEF Answer, WrittenBy, InHand, cmdVars, sendVars, readVars
  <2>3. x.flag = flag => AtTerminal /\ ~AtTerminal'
    <3>1. \A y \in terminal : y.flag = flag => y.msg = current_msg
      BY DEF Content, TerminalKnown, Known
    <3>2. \A y \in terminal : y.flag = flag /\ x.flag = flag => y = x
      BY <3>1 DEF FrameTyped
    <3> QED
      BY <2>1, <2>2, <3>2 DEF AtTerminal
  <2>4. AtTerminal' => AtTerminal
    BY <2>1, <2>2 DEF AtTerminal
  <2>5. OnItsWay' => x.flag = flag
    BY <2>1, <2>2 DEF OnItsWay, Response
  <2> QED
    BY <2>2, <2>3, <2>4, <2>5 DEF OneCopy, InHandAlone, OneSender, NotWritten
<1>11. CASE UNCHANGED vars
  BY <1>11
     DEF vars, cmdVars, sendVars, envVars, devVars, readVars, OneCopy,
         InHandAlone, OneSender, NotWritten, WrittenBy, AtTerminal, OnItsWay,
         InHand, SlotTyped, FrameTyped
<1> QED
  BY <1>1, <1>2, <1>3, <1>4, <1>5, <1>6, <1>7, <1>8, <1>9, <1>10, <1>11,
     <1>12, <1>13
     DEF Next, RunStep, Handle, ApiStep, SendStep, Sender

LEMMA OneCopyHolds == Spec => [](Inv /\ Content /\ OneCopy)
BY ContentHolds, OneCopyInit, OneCopyStep, PTL DEF Spec

LEMMA MatchedFlag ==
    ASSUME [Next]_vars, rpc = "handle", rpc' = "save"
    PROVE  msg.flag = flag
<1>1. ASSUME NEW a \in Api, ApiStep(a) PROVE msg.flag = flag
  BY <1>1
     DEF ApiStep, Submit, Slot, Refuse, envVars, devVars, readVars, cmdVars
<1>2. ASSUME NEW s \in Sender, SendStep(s) PROVE msg.flag = flag
  BY <1>2
     DEF SendStep, Write, WriteError, Disconnected, Mark, SentEvent, cmdVars,
         devVars, readVars, envVars
<1>3. CASE Read \/ ReadGarbage \/ BadFrame \/ ReadError \/ TimeoutClose
           \/ TimeoutPing \/ TimeoutInFrame \/ Reconnect
  BY <1>3
     DEF Read, ReadGarbage, BadFrame, Disconnected, ReadError, TimeoutClose,
         TimeoutPing, Slot, TimeoutInFrame, Reconnect, cmdVars, sendVars,
         devVars, envVars, readVars
<1>4. CASE Handle
  BY <1>4
     DEF Handle, HandleUnknown, Handles, HandleTime, HandleHeartbeat,
         HandleLocation, Located, Stored, LocationStuck, TooShort,
         ParsePanics, HandleAlarm, HandleInfo, Match, Mismatch,
         SaveResponse, UpdateAttribute, cmdVars, sendVars, envVars, devVars
<1>5. CASE Answer \/ Reports
  BY <1>5
     DEF Answer, Response, Reports, Report, cmdVars, sendVars, devVars,
         readVars
<1>6. CASE UNCHANGED vars
  BY <1>6
     DEF vars, cmdVars, sendVars, envVars, devVars, readVars
<1> QED
  BY <1>1, <1>2, <1>3, <1>4, <1>5, <1>6
     DEF Next, RunStep, Handle, ApiStep, SendStep, Sender

(* No response is matched once its command has been answered: not even the *)
(* frame that run() handles a second time; unless it read a flag that no   *)
(* frame carried.                                                          *)
THEOREM AnsweredOnceHolds == Spec => AnsweredOnce
<1>1. ASSUME OneCopy, [Next]_vars
      PROVE  [rpc = "handle" /\ rpc' = "save" => ~answered \/ garbled]_vars
  <2>1. ASSUME rpc = "handle", rpc' = "save" PROVE ~answered \/ garbled
    BY <1>1, <2>1, MatchedFlag DEF OneCopy, InHandAlone, InHand
  <2> QED
    BY <2>1
<1> QED
  BY <1>1, OneCopyHolds, PTL DEF Spec, AnsweredOnce

(* Until another command is submitted, the response being stored has the   *)
(* slot's flag and current_msg is the command that was matched.            *)
SavedKnown ==
    garbled \/ (rpc = "save" /\ msg.flag = flag => rcmd = current_msg)

LEMMA SavedKnownStep ==
    ASSUME Inv, Content, SavedKnown, [Next]_vars
    PROVE  SavedKnown'
<1> USE SessionAssumption
<1>1. ASSUME NEW a \in Api, ApiStep(a) PROVE SavedKnown'
  <2>1. flag \in Nat /\ (garbled \/ (msg.flag # nil => msg.flag \in 1..flag))
    BY DEF Inv, SlotTyped, Content, MsgKnown, FlagsWhole
  <2>2. CASE Refuse(a)
    BY <2>2 DEF Refuse, readVars, cmdVars, SavedKnown
  <2>3. ASSUME NEW m, NEW force, Submit(a, m, force) PROVE SavedKnown'
    <3>1. msg' = msg /\ flag' = flag + 1 /\ garbled' = garbled
      BY <2>3 DEF Submit, Slot, readVars
    <3> QED
      BY <2>1, <3>1 DEF SavedKnown
  <2> QED
    BY <1>1, <2>2, <2>3 DEF ApiStep
<1>2. ASSUME NEW s \in Sender, SendStep(s) PROVE SavedKnown'
  BY <1>2
     DEF SendStep, Write, WriteError, Disconnected, Mark, SentEvent, cmdVars,
         devVars, readVars, envVars, SavedKnown
<1>3. CASE Read \/ ReadGarbage \/ TimeoutPing \/ TimeoutInFrame \/ Reconnect
  BY <1>3
     DEF Read, ReadGarbage, TimeoutPing, TimeoutInFrame, Reconnect, SavedKnown
<1>7. CASE BadFrame \/ ReadError \/ TimeoutClose
  BY <1>7
     DEF BadFrame, ReadError, TimeoutClose, Disconnected, SavedKnown
<1>4. CASE Handle
  BY <1>4
     DEF Handle, HandleUnknown, Handles, HandleTime, HandleHeartbeat,
         HandleLocation, Located, Stored, LocationStuck, TooShort,
         ParsePanics, HandleAlarm, HandleInfo, Match, Mismatch,
         SaveResponse, UpdateAttribute, cmdVars, sendVars, envVars, devVars,
         SavedKnown
<1>5. CASE Answer \/ Reports
  BY <1>5
     DEF Answer, Response, Reports, Report, cmdVars, sendVars, devVars,
         readVars, SavedKnown
<1>6. CASE UNCHANGED vars
  BY <1>6
     DEF vars, cmdVars, sendVars, envVars, devVars, readVars, SavedKnown
<1> QED
  BY <1>1, <1>2, <1>3, <1>4, <1>5, <1>6, <1>7
     DEF Next, RunStep, Handle, ApiStep, SendStep, Sender

(* A response is stored with the command it answers, unless a command was  *)
(* submitted since it was matched or run() read a flag that no frame       *)
(* carried.                                                                *)
THEOREM SavedUnlessSubmittedHolds == Spec => SavedUnlessSubmitted
<1>1. Init => SavedKnown
  BY DEF Init, SavedKnown
<1>2. ASSUME Content, SavedKnown
      PROVE  [SaveResponse => \/ ResponseRow.command = ResponseRow.response
                              \/ ResponseRow.server_flag # flag
                              \/ garbled]_vars
  BY <1>2
     DEF Content, MsgKnown, FlagsWhole, SavedKnown, SaveResponse, ResponseRow
<1> QED
  BY <1>1, <1>2, ContentHolds, SavedKnownStep, PTL
     DEF Spec, SavedUnlessSubmitted

(* The slot is empty only when nothing was submitted or it was answered.   *)
EmptyMeansAnswered == status = "empty" => flag = 0 \/ answered

LEMMA EmptyStep ==
    ASSUME EmptyMeansAnswered, [Next]_vars
    PROVE  EmptyMeansAnswered'
<1>1. ASSUME NEW a \in Api, ApiStep(a) PROVE EmptyMeansAnswered'
  BY <1>1
     DEF ApiStep, Submit, Slot, Refuse, envVars, devVars, readVars, cmdVars,
         EmptyMeansAnswered
<1>2. ASSUME NEW s \in Sender, SendStep(s) PROVE EmptyMeansAnswered'
  BY <1>2
     DEF SendStep, Write, WriteError, Disconnected, Mark, SentEvent, cmdVars,
         devVars, readVars, envVars, EmptyMeansAnswered
<1>3. CASE Read \/ ReadGarbage \/ BadFrame \/ ReadError \/ TimeoutClose
           \/ TimeoutPing \/ TimeoutInFrame \/ Reconnect
  BY <1>3
     DEF Read, ReadGarbage, BadFrame, Disconnected, ReadError, TimeoutClose,
         TimeoutPing, Slot, TimeoutInFrame, Reconnect, cmdVars, sendVars,
         devVars, envVars, readVars, EmptyMeansAnswered
<1>4. CASE Handle
  BY <1>4
     DEF Handle, HandleUnknown, Handles, HandleTime, HandleHeartbeat,
         HandleLocation, Located, Stored, LocationStuck, TooShort,
         ParsePanics, HandleAlarm, HandleInfo, Match, Mismatch,
         SaveResponse, UpdateAttribute, cmdVars, sendVars, envVars, devVars,
         EmptyMeansAnswered
<1>5. CASE Answer \/ Reports
  BY <1>5
     DEF Answer, Response, Reports, Report, cmdVars, sendVars, devVars,
         readVars, EmptyMeansAnswered
<1>6. CASE UNCHANGED vars
  BY <1>6
     DEF vars, cmdVars, sendVars, envVars, devVars, readVars,
         EmptyMeansAnswered
<1> QED
  BY <1>1, <1>2, <1>3, <1>4, <1>5, <1>6
     DEF Next, RunStep, Handle, ApiStep, SendStep, Sender

LEMMA EmptyHolds == Spec => [](Inv /\ EmptyMeansAnswered)
<1>1. Init => EmptyMeansAnswered
  BY DEF Init, EmptyMeansAnswered
<1> QED
  BY <1>1, EmptyStep, InvHolds, PTL DEF Spec

LEMMA SlotWaits ==
    ASSUME Inv, EmptyMeansAnswered, [Next]_vars, flag' # flag, ~forced'
    PROVE  flag = 0 \/ answered
<1>1. ASSUME NEW a \in Api, ApiStep(a) PROVE flag = 0 \/ answered
  BY <1>1
     DEF ApiStep, Submit, Slot, Refuse, envVars, devVars, readVars, cmdVars,
         EmptyMeansAnswered
<1>2. ASSUME NEW s \in Sender, SendStep(s) PROVE flag = 0 \/ answered
  BY <1>2
     DEF SendStep, Write, WriteError, Disconnected, Mark, SentEvent, cmdVars,
         devVars, readVars, envVars, EmptyMeansAnswered
<1>3. CASE Read \/ ReadGarbage \/ BadFrame \/ ReadError \/ TimeoutClose
           \/ TimeoutPing \/ TimeoutInFrame \/ Reconnect
  BY <1>3
     DEF Read, ReadGarbage, BadFrame, Disconnected, ReadError, TimeoutClose,
         TimeoutPing, Slot, TimeoutInFrame, Reconnect, cmdVars, sendVars,
         devVars, envVars, readVars, EmptyMeansAnswered
<1>4. CASE Handle
  BY <1>4
     DEF Handle, HandleUnknown, Handles, HandleTime, HandleHeartbeat,
         HandleLocation, Located, Stored, LocationStuck, TooShort,
         ParsePanics, HandleAlarm, HandleInfo, Match, Mismatch,
         SaveResponse, UpdateAttribute, cmdVars, sendVars, envVars, devVars,
         EmptyMeansAnswered
<1>5. CASE Answer \/ Reports
  BY <1>5
     DEF Answer, Response, Reports, Report, cmdVars, sendVars, devVars,
         readVars, EmptyMeansAnswered
<1>6. CASE UNCHANGED vars
  BY <1>6
     DEF vars, cmdVars, sendVars, envVars, devVars, readVars,
         EmptyMeansAnswered
<1> QED
  BY <1>1, <1>2, <1>3, <1>4, <1>5, <1>6
     DEF Next, RunStep, Handle, ApiStep, SendStep, Sender

(* A command without an answer is superseded by force only.                *)
THEOREM UnforcedWaitsHolds == Spec => UnforcedWaits
<1>1. ASSUME Inv, EmptyMeansAnswered, [Next]_vars
      PROVE  [flag' # flag /\ ~forced' => flag = 0 \/ answered]_vars
  BY <1>1, SlotWaits
<1> QED
  BY <1>1, EmptyHolds, PTL DEF Spec, UnforcedWaits

-----------------------------------------------------------------------------
(* The events and the status, the events and the connection.               *)
LEMMA EventStep ==
    ASSUME log_si = si /\ log_cell = loc, [Next]_vars
    PROVE  (log_si = si /\ log_cell = loc)'
<1>1. ASSUME NEW a \in Api, ApiStep(a) PROVE (log_si = si /\ log_cell = loc)'
  BY <1>1
     DEF ApiStep, Submit, Slot, Refuse, envVars, devVars, readVars, cmdVars
<1>2. ASSUME NEW s \in Sender, SendStep(s)
      PROVE  (log_si = si /\ log_cell = loc)'
  BY <1>2
     DEF SendStep, Write, WriteError, Disconnected, Mark, SentEvent, cmdVars,
         devVars, readVars, envVars
<1>3. CASE Read \/ ReadGarbage \/ BadFrame \/ ReadError \/ TimeoutClose
           \/ TimeoutPing \/ TimeoutInFrame \/ Reconnect
  BY <1>3
     DEF Read, ReadGarbage, BadFrame, Disconnected, ReadError, TimeoutClose,
         TimeoutPing, Slot, TimeoutInFrame, Reconnect, cmdVars, sendVars,
         devVars, envVars, readVars
<1>4. CASE Handle
  BY <1>4
     DEF Handle, HandleUnknown, Handles, HandleTime, HandleHeartbeat,
         HandleLocation, Located, Stored, LocationStuck, TooShort,
         ParsePanics, HandleAlarm, HandleInfo, Match, Mismatch,
         SaveResponse, UpdateAttribute, cmdVars, sendVars, envVars, devVars
<1>5. CASE Answer \/ Reports
  BY <1>5
     DEF Answer, Response, Reports, Report, cmdVars, sendVars, devVars,
         readVars
<1>6. CASE UNCHANGED vars
  BY <1>6
     DEF vars, cmdVars, sendVars, envVars, devVars, readVars
<1> QED
  BY <1>1, <1>2, <1>3, <1>4, <1>5, <1>6
     DEF Next, RunStep, Handle, ApiStep, SendStep, Sender

(* Between two frames the events tell the status and the cell.             *)
THEOREM EventsTellHolds == Spec => []EventsTell
<1>1. Init => log_si = si /\ log_cell = loc
  BY DEF Init
<1>2. log_si = si /\ log_cell = loc => EventsTell
  BY DEF EventsTell
<1> QED
  BY <1>1, <1>2, EventStep, PTL DEF Spec

LEMMA AnnouncedStep ==
    ASSUME AnnouncedUnlessReplyFailed, [Next]_vars
    PROVE  AnnouncedUnlessReplyFailed'
<1>1. ASSUME NEW a \in Api, ApiStep(a) PROVE AnnouncedUnlessReplyFailed'
  BY <1>1
     DEF ApiStep, Submit, Slot, Refuse, envVars, devVars, readVars, cmdVars,
         AnnouncedUnlessReplyFailed, TooShort
<1>2. ASSUME NEW s \in Sender, SendStep(s) PROVE AnnouncedUnlessReplyFailed'
  BY <1>2
     DEF SendStep, Write, WriteError, Disconnected, Mark, SentEvent, cmdVars,
         devVars, readVars, envVars, AnnouncedUnlessReplyFailed, TooShort
<1>3. CASE Read \/ ReadGarbage \/ BadFrame \/ ReadError \/ TimeoutClose
           \/ TimeoutPing \/ TimeoutInFrame \/ Reconnect
  BY <1>3
     DEF Read, ReadGarbage, BadFrame, Disconnected, ReadError, TimeoutClose,
         TimeoutPing, Slot, TimeoutInFrame, Reconnect, cmdVars, sendVars,
         devVars, envVars, readVars, AnnouncedUnlessReplyFailed, TooShort
<1>4. CASE Handle
  BY <1>4
     DEF Handle, HandleUnknown, Handles, HandleTime, HandleHeartbeat,
         HandleLocation, Located, Stored, LocationStuck, TooShort,
         ParsePanics, HandleAlarm, HandleInfo, Match, Mismatch,
         SaveResponse, UpdateAttribute, cmdVars, sendVars, envVars, devVars,
         AnnouncedUnlessReplyFailed, TooShort
<1>5. CASE Answer \/ Reports
  BY <1>5
     DEF Answer, Response, Reports, Report, cmdVars, sendVars, devVars,
         readVars, AnnouncedUnlessReplyFailed, TooShort
<1>6. CASE UNCHANGED vars
  BY <1>6
     DEF vars, cmdVars, sendVars, envVars, devVars, readVars,
         AnnouncedUnlessReplyFailed, TooShort
<1> QED
  BY <1>1, <1>2, <1>3, <1>4, <1>5, <1>6
     DEF Next, RunStep, Handle, ApiStep, SendStep, Sender

(* Only a reply that cannot be written ends a connection unannounced, or   *)
(* the parser of a payload too short for it, with the process.             *)
THEOREM AnnouncedUnlessReplyFailedHolds == Spec => []AnnouncedUnlessReplyFailed
<1>1. Init => AnnouncedUnlessReplyFailed
  BY DEF Init, AnnouncedUnlessReplyFailed, TooShort
<1> QED
  BY <1>1, AnnouncedStep, PTL DEF Spec
=============================================================================
