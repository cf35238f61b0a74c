---------------------------- MODULE GT06Session ----------------------------
(***************************************************************************)
(* What a GT06 device object does on its connections, one after the other: *)
(* the read loop run() with its deadlines and its frame handlers, and the  *)
(* single slot for a server command, shared by run(), which sends a        *)
(* STATUS# of its own after a silence, and by the callers of SendCommand   *)
(* (internal/gpsv2/device/gt06/gt06.go).  How connections replace each     *)
(* other, and the locks c_mu and rs_mu, are GT06Conn's subject: here one   *)
(* _run goroutine serves the device.                                       *)
(*                                                                         *)
(* The terminal may answer each command it received once, at any time or   *)
(* never.  server_flag_counter, serial_counter and current_server_flag are *)
(* assigned together and always equal: they are the variable flag.  Of the *)
(* events, those that carry no state (command.sent, command.response) are  *)
(* left out; DeviceConfig's Store and SublistSend are on.  An event is a   *)
(* call of SaveEvent and SendEvent: that the database keeps the row is not *)
(* said (an error of SaveEvent is only logged, miscpg.go:31).              *)
(*                                                                         *)
(* A call that may never return, a push to a subscriber or a write on a    *)
(* connection (neither has a deadline), leaves run() stuck.  A payload too *)
(* short for its parser panics, which ends the process.                    *)
(***************************************************************************)
EXTENDS Naturals

CONSTANTS
    Api,      \* callers of SendCommand
    Attr,     \* commands whose answer is kept as an attribute: VERSION#...
    Other,    \* the other commands of the callers
    Status,   \* STATUS#, which run() sends to a silent terminal
    Kind,     \* the frames that arrive unasked
    Info,     \* their contents
    Zero,     \* the content every field of a new device has
    Short,    \* the content of a payload too short for its parser
    Mixed,    \* a text put together from two frames
    MaxCmd,   \* bound: callers submit no further command after this many
    MaxConn,  \* bound: connections of the device
    nil

ASSUME SessionAssumption ==
    /\ "run" \notin Api
    /\ Kind \subseteq {"time", "heartbeat", "location", "alarm", "info",
                "response"}
    /\ Zero \in Info
    /\ Short \notin Info
    /\ Mixed \notin Attr \cup Other \cup {Status, nil}
    /\ nil \notin Attr \cup Other \cup {Status}
    /\ nil \notin Nat
    /\ Status \notin Attr
    /\ "terminal_status" \notin Attr
    /\ MaxCmd \in Nat
    /\ MaxConn \in Nat \ {0}

(* server_flag_counter does not wrap (it is a uint32; TLC's integers end   *)
(* here).                                                                  *)
ASSUME CounterAssumption == MaxCmd + MaxConn < 2147483647

Sender  == Api \cup {"run"}
Command == Attr \cup Other \cup {Status}
Text    == Command \cup {Mixed, nil}
Frame   == [kind : Kind \cup {"response", "unknown"}, flag : Nat \cup {nil},
            text : Text, info : Info \cup {Short}]

Response(f, t) == [kind |-> "response", flag |-> f, text |-> t, info |-> Zero]
Report(k, i)   == [kind |-> k, flag |-> nil, text |-> nil, info |-> i]

(* The bytes where a flag is expected; nil is a flag no command has.       *)
AnyFlag == 0..(MaxCmd + MaxConn) \cup {nil}

(* What a frame says where the terminal is.                                *)
Lat(i) == <<"lat", i>>
Lon(i) == <<"lon", i>>

VARIABLES
    status,      \* of the command slot: empty, submitted or sent
    flag,        \* server flag of the last command submitted
    current_msg, \* that command
    sent_time,   \* flag of the command whose sending set sent_time
    spc, smsg, sflag,  \* senders: program counter, command, flag
    rpc,         \* program counter of run()
    msg,         \* gt06.msg, the frame decoded last
    pinged,      \* timeout_ping_sent
    skewed,      \* the next byte of the stream is inside a frame
    rcmd,        \* cmd of handle_command_response
    terminal,    \* commands the terminal may still answer
    arriving,    \* the frame on its way to the server
    conns,       \* connections served so far
    si, loc,     \* gt06_status.si and gt06_location.loc
    log_si, log_cell,  \* what the events say of them
    announced,   \* the later of the events started and disconnected
    put,         \* the last row given to the location store
    attribute,   \* what UpdateAttribute was last given for a key
    fresh,       \* history: msg has not been handled
    garbled,     \* history: a flag was read that no frame carried
    answered,    \* history: the last command submitted has been answered
    forced       \* history: it was submitted by force

cmdVars  == <<status, flag, current_msg, sent_time>>
sendVars == <<spc, smsg, sflag>>
envVars  == <<terminal, arriving, conns>>
devVars  == <<si, loc, log_si, log_cell, announced, put>>
readVars == <<msg, garbled, pinged, skewed, rcmd, fresh>>
vars     == <<cmdVars, sendVars, envVars, devVars, attribute, readVars, rpc,
              answered, forced>>

Init ==
    /\ status = "empty" /\ flag = 0 /\ current_msg = nil /\ sent_time = 0
    /\ spc = [s \in Sender |-> "idle"]
    /\ smsg = [s \in Sender |-> nil]
    /\ sflag = [s \in Sender |-> 0]
    /\ rpc \in {"read", "stuck"}
    /\ msg = Report("unknown", Zero)
    /\ pinged = FALSE /\ skewed = FALSE /\ rcmd = nil
    /\ terminal = {} /\ arriving = nil /\ conns = 1
    /\ si = Zero /\ loc = Zero /\ log_si = Zero /\ log_cell = Zero
    /\ announced = "started"
    /\ put = nil
    /\ attribute = [m \in Attr \cup {"terminal_status"} |-> nil]
    /\ fresh = FALSE /\ garbled = FALSE /\ answered = FALSE /\ forced = FALSE

(* handle_diconnection, closeAndSetErr and the return from run(), unless   *)
(* the push of the event does not return.                                  *)
Disconnected ==
    /\ rpc' \in {"done", "stuck"}
    /\ announced' = "disconnected"
    /\ UNCHANGED <<si, loc, log_si, log_cell, put>>

-----------------------------------------------------------------------------
(* The command slot: _send_command by a caller or by run().                *)

Slot_reusesFlag(s, m, force) ==
    LET f == IF status = "empty" THEN flag + 1 ELSE flag IN
    /\ status = "empty" \/ force
    /\ flag' = f
    /\ current_msg' = m
    /\ status' = "submitted"
    /\ spc' = [spc EXCEPT ![s] = "write"]
    /\ smsg' = [smsg EXCEPT ![s] = m]
    /\ sflag' = [sflag EXCEPT ![s] = f]
    /\ forced' = force
    /\ answered' = FALSE
    /\ UNCHANGED sent_time

Slot(s, m, force) ==
    /\ status = "empty" \/ force
    /\ flag' = flag + 1
    /\ current_msg' = m
    /\ status' = "submitted"
    /\ spc' = [spc EXCEPT ![s] = "write"]
    /\ smsg' = [smsg EXCEPT ![s] = m]
    /\ sflag' = [sflag EXCEPT ![s] = flag + 1]
    /\ forced' = force
    /\ answered' = FALSE
    /\ UNCHANGED sent_time

Submit(a, m, force) ==
    /\ spc[a] \in {"idle", "pending"}
    /\ flag < MaxCmd
    /\ Slot(a, m, force)
    /\ UNCHANGED <<envVars, devVars, attribute, readVars, rpc>>

(* The slot is taken: SendCommand returns pending.                         *)
Refuse(a) ==
    /\ spc[a] \in {"idle", "pending"}
    /\ status # "empty"
    /\ spc' = [spc EXCEPT ![a] = "pending"]
    /\ UNCHANGED <<cmdVars, smsg, sflag, envVars, devVars, attribute, readVars,
                   rpc, answered, forced>>

Write(s) ==
    /\ spc[s] = "write"
    /\ rpc # "done"
    /\ terminal' = terminal \cup {[flag |-> sflag[s], msg |-> smsg[s]]}
    /\ spc' = [spc EXCEPT ![s] = "mark"]
    /\ UNCHANGED <<cmdVars, smsg, sflag, arriving, conns, devVars,
                   attribute, readVars, rpc, answered, forced>>

WriteError_silent(s) ==
    /\ spc[s] = "write"
    /\ spc' = [spc EXCEPT ![s] = "idle"]
    /\ smsg' = [smsg EXCEPT ![s] = nil]
    /\ sflag' = [sflag EXCEPT ![s] = 0]
    /\ rpc' = IF s = "run" THEN "done" ELSE rpc
    /\ UNCHANGED <<cmdVars, devVars, envVars, attribute, readVars, answered,
                   forced>>

(* The write fails: run() closes the connection, a caller returns err.     *)
(* The write of run() may not return at all.                               *)
WriteError(s) ==
    /\ spc[s] = "write"
    /\ spc' = [spc EXCEPT ![s] = "idle"]
    /\ smsg' = [smsg EXCEPT ![s] = nil]
    /\ sflag' = [sflag EXCEPT ![s] = 0]
    /\ \/ s = "run" /\ Disconnected
       \/ s = "run" /\ rpc' = "stuck" /\ UNCHANGED devVars
       \/ s # "run" /\ UNCHANGED <<rpc, devVars>>
    /\ UNCHANGED <<cmdVars, envVars, attribute, readVars, answered,
                   forced>>

Mark(s) ==
    /\ spc[s] = "mark"
    /\ status' = "sent"
    /\ sent_time' = sflag[s]
    /\ spc' = [spc EXCEPT ![s] = "event"]
    /\ UNCHANGED <<flag, current_msg, smsg, sflag, envVars, devVars, attribute,
                   readVars, rpc, answered, forced>>

(* SaveEvent "command.sent".  In run() the switch on gt06.msg comes next.  *)
SentEvent(s) ==
    /\ spc[s] = "event"
    /\ spc' = [spc EXCEPT ![s] = "idle"]
    /\ smsg' = [smsg EXCEPT ![s] = nil]
    /\ sflag' = [sflag EXCEPT ![s] = 0]
    /\ rpc' = IF s = "run" THEN "handle" ELSE rpc
    /\ UNCHANGED <<cmdVars, envVars, devVars, attribute, readVars,
                   answered, forced>>

-----------------------------------------------------------------------------
(* run(): reading.                                                         *)

Read ==
    /\ rpc = "read" /\ ~skewed
    /\ arriving # nil
    /\ msg' = arriving
    /\ arriving' = nil
    /\ fresh' = TRUE
    /\ rpc' = "handle"
    /\ UNCHANGED <<cmdVars, sendVars, terminal, conns, devVars,
                   attribute, garbled, pinged, skewed, rcmd, answered, forced>>

(* gt06.msg.Payload is a slice of the buffer that a half read frame is     *)
(* copied over byte by byte: its protocol and length stay, its flag may    *)
(* become any mix of the two frames' bytes, which have a flag at different *)
(* places, or none (parser.go:142, 149).                                   *)
Overwritten(f) ==
    \/ /\ msg.kind = "response"
       /\ \E x \in AnyFlag, t \in {msg.text, f.text, Mixed} :
             /\ msg' = [msg EXCEPT !.flag = x, !.text = t]
             /\ garbled' = (garbled \/ x \notin {msg.flag, f.flag, nil})
    \/ /\ msg.kind # "response" /\ msg.info # Short
       /\ \E i \in Info : msg' = [msg EXCEPT !.info = i]
       /\ UNCHANGED garbled

(* What a read that fails leaves in the buffer.                            *)
Abandoned ==
    \/ UNCHANGED <<msg, garbled>>
    \/ arriving # nil /\ Overwritten(arriving)

(* The peer is gone, or another goroutine closed the connection.           *)
ReadError ==
    /\ rpc = "read"
    /\ Abandoned
    /\ Disconnected
    /\ UNCHANGED <<cmdVars, sendVars, envVars, attribute, pinged, skewed, rcmd,
                   fresh, answered, forced>>

(* The rest of a frame whose beginning was thrown away: errBadFrame ...    *)
BadFrame ==
    /\ rpc = "read" /\ skewed
    /\ arriving # nil
    /\ Abandoned
    /\ Disconnected
    /\ UNCHANGED <<cmdVars, sendVars, envVars, attribute, pinged, skewed, rcmd,
                   fresh, answered, forced>>

(* ... unless its bytes happen to have the form of a frame: one byte is    *)
(* compared at the beginning, and two at the end.                          *)
ReadGarbage ==
    /\ rpc = "read" /\ skewed
    /\ arriving # nil
    /\ \/ /\ \E x \in AnyFlag : msg' = Response(x, Mixed)
          /\ garbled' = (garbled \/ msg'.flag # nil)
       \/ /\ \E k \in Kind \cup {"unknown", "response"},
                i \in Info \cup {Short} : msg' = Report(k, i)
          /\ UNCHANGED garbled
    /\ arriving' = nil
    /\ skewed' \in BOOLEAN
    /\ fresh' = TRUE
    /\ rpc' = "handle"
    /\ UNCHANGED <<cmdVars, sendVars, terminal, conns, devVars, attribute,
                   pinged, rcmd, answered, forced>>

TimeoutClose_ignored ==
    /\ rpc = "read" /\ pinged
    /\ rpc' = "handle"
    /\ UNCHANGED <<cmdVars, sendVars, envVars, devVars, attribute, readVars,
                   answered, forced>>

(* The read deadline passes for the second time, whatever arrived since    *)
(* the first.                                                              *)
TimeoutClose ==
    /\ rpc = "read" /\ pinged
    /\ Abandoned
    /\ Disconnected
    /\ UNCHANGED <<cmdVars, sendVars, envVars, attribute, pinged, skewed, rcmd,
                   fresh, answered, forced>>

TimeoutPing_unforced ==
    /\ rpc = "read" /\ ~pinged
    /\ arriving = nil
    /\ pinged' = TRUE
    /\ \/ /\ Slot("run", Status, FALSE)
          /\ rpc' = "ping"
       \/ /\ status # "empty"
          /\ rpc' = "handle"
          /\ UNCHANGED <<cmdVars, sendVars, answered, forced>>
    /\ UNCHANGED <<envVars, devVars, attribute, msg, garbled, skewed, rcmd,
                   fresh>>

(* It passes for the first time, with nothing read of a next frame ...     *)
TimeoutPing ==
    /\ rpc = "read" /\ ~pinged
    /\ arriving = nil
    /\ pinged' = TRUE
    /\ Slot("run", Status, TRUE)
    /\ rpc' = "ping"
    /\ UNCHANGED <<envVars, devVars, attribute, msg, garbled, skewed, rcmd,
                   fresh>>

(* ... or with a part of it.                                               *)
TimeoutInFrame ==
    /\ rpc = "read" /\ ~pinged /\ ~skewed
    /\ arriving # nil
    /\ Abandoned
    /\ arriving' = nil
    /\ pinged' = TRUE
    /\ skewed' = TRUE
    /\ Slot("run", Status, TRUE)
    /\ rpc' = "ping"
    /\ UNCHANGED <<terminal, conns, devVars, attribute, rcmd, fresh>>

-----------------------------------------------------------------------------
(* run(): the switch on gt06.msg.Protocol.  Each handler returns to the    *)
(* read; a reply that cannot be written ends run().                        *)

(* The parsers index the payload, whatever its length.                     *)
TooShort == msg.info = Short /\ msg.kind \notin {"time", "unknown"}

Handles(kind) ==
    rpc = "handle" /\ msg.kind = kind /\ ~TooShort /\ fresh' = FALSE

ParsePanics ==
    /\ rpc = "handle" /\ TooShort
    /\ fresh' = FALSE
    /\ rpc' = "panic"
    /\ UNCHANGED <<cmdVars, sendVars, envVars, devVars, attribute, msg,
                   garbled, pinged, skewed, rcmd, answered, forced>>

HandleUnknown ==
    /\ Handles("unknown")
    /\ rpc' = "read"
    /\ UNCHANGED <<cmdVars, sendVars, envVars, devVars, attribute, msg,
                   garbled, pinged, skewed, rcmd, answered, forced>>

HandleTime ==
    /\ Handles("time")
    /\ rpc' \in {"read", "done", "stuck"}
    /\ UNCHANGED <<cmdVars, sendVars, envVars, devVars, attribute, msg,
                   garbled, pinged, skewed, rcmd, answered, forced>>

HandleHeartbeat_late ==
    /\ Handles("heartbeat")
    /\ rpc' = "read"
    /\ si' = msg.info
    /\ log_si' = IF si' # msg.info THEN msg.info ELSE log_si
    /\ UNCHANGED <<loc, log_cell, announced, put, cmdVars, sendVars, envVars,
                   attribute, msg, garbled, pinged, skewed, rcmd, answered,
                   forced>>

HandleHeartbeat ==
    /\ Handles("heartbeat")
    /\ \/ /\ rpc' \in {"done", "stuck"}
          /\ UNCHANGED devVars
       \/ /\ rpc' \in {"read"} \cup IF si # msg.info THEN {"stuck"} ELSE {}
          /\ si' = msg.info
          /\ log_si' = IF si # msg.info THEN msg.info ELSE log_si
          /\ UNCHANGED <<loc, log_cell, announced, put>>
    /\ UNCHANGED <<cmdVars, sendVars, envVars, attribute, msg, garbled, pinged,
                   skewed, rcmd, answered, forced>>

(* handle_location.  Put is declared (nsn, lon, lat, ...) and called with  *)
(* (Nsn, Latitude, Longitude, ...).                                        *)
Stored == put' = [lon |-> Lat(msg.info), lat |-> Lon(msg.info)]

Located ==
    /\ Stored
    /\ loc' = msg.info
    /\ log_cell' = IF loc # msg.info THEN msg.info ELSE log_cell

HandleLocation ==
    /\ Handles("location")
    /\ Located
    /\ rpc' = "read"
    /\ UNCHANGED <<cmdVars, sendVars, envVars, attribute, msg, garbled, pinged,
                   skewed, rcmd, si, log_si, announced, answered, forced>>

(* The push of the location does not return.                               *)
LocationStuck ==
    /\ Handles("location") \/ Handles("alarm")
    /\ Stored
    /\ rpc' = "stuck"
    /\ UNCHANGED <<cmdVars, sendVars, envVars, attribute, msg, garbled, pinged,
                   skewed, rcmd, si, loc, log_si, log_cell, announced,
                   answered, forced>>

HandleAlarm ==
    /\ Handles("alarm")
    /\ Located
    /\ si' = msg.info
    /\ log_si' = msg.info
    /\ rpc' \in {"read", "stuck"}
    /\ UNCHANGED <<cmdVars, sendVars, envVars, attribute, msg, garbled, pinged,
                   skewed, rcmd, announced, answered, forced>>

HandleInfo ==
    /\ Handles("info")
    /\ attribute' = [attribute EXCEPT !["terminal_status"] = msg.info]
    /\ rpc' = "read"
    /\ UNCHANGED <<cmdVars, sendVars, envVars, devVars, msg, garbled, pinged,
                   skewed, rcmd, answered, forced>>

(* handle_command_response, up to the unlock ...                           *)
Match ==
    /\ Handles("response")
    /\ msg.flag = flag
    /\ status' = "empty"
    /\ rcmd' = current_msg
    /\ answered' = TRUE
    /\ rpc' = "save"
    /\ UNCHANGED <<flag, current_msg, sent_time, sendVars, envVars, devVars,
                   attribute, msg, garbled, pinged, skewed, forced>>

Mismatch ==
    /\ Handles("response")
    /\ msg.flag # flag
    /\ rpc' = "read"
    /\ UNCHANGED <<cmdVars, sendVars, envVars, devVars, attribute, msg,
                   garbled, pinged, skewed, rcmd, answered, forced>>

(* ... after SaveEvent, with current_msg and sent_time read unlocked ...   *)
ResponseRow == [server_flag |-> msg.flag, command |-> current_msg,
                ct |-> sent_time, response |-> msg.text]

SaveResponse_late ==
    /\ rpc = "save"
    /\ IF current_msg \in Attr
          THEN rpc' = "update" /\ rcmd' = current_msg
          ELSE rpc' = "read" /\ rcmd' = nil
    /\ UNCHANGED <<cmdVars, sendVars, envVars, devVars, attribute, msg,
                   garbled, pinged, skewed, fresh, answered, forced>>

SaveResponse ==
    /\ rpc = "save"
    /\ IF rcmd \in Attr
          THEN rpc' = "update" /\ UNCHANGED rcmd
          ELSE rpc' = "read" /\ rcmd' = nil
    /\ UNCHANGED <<cmdVars, sendVars, envVars, devVars, attribute, msg,
                   garbled, pinged, skewed, fresh, answered, forced>>

(* ... and the attribute, by the command copied under the lock.            *)
UpdateAttribute ==
    /\ rpc = "update"
    /\ attribute' = [attribute EXCEPT ![rcmd] = msg.text]
    /\ rcmd' = nil
    /\ rpc' = "read"
    /\ UNCHANGED <<cmdVars, sendVars, envVars, devVars, msg, garbled, pinged,
                   skewed, fresh, answered, forced>>

(* use_next_conn or a later _run: run() begins again on a new connection.  *)
(* The swap waits for the senders, who hold c_mu from the write on.        *)
Reconnect ==
    /\ rpc = "done"
    /\ conns < MaxConn
    /\ \A s \in Sender : spc[s] \notin {"mark", "event"}
    /\ conns' = conns + 1
    /\ rpc' \in {"read", "stuck"}
    /\ pinged' = FALSE
    /\ skewed' = FALSE
    /\ arriving' = nil
    /\ announced' = "started"
    /\ UNCHANGED <<cmdVars, sendVars, terminal, si, loc, log_si, log_cell, put,
                   attribute, msg, garbled, rcmd, fresh, answered, forced>>

-----------------------------------------------------------------------------
(* The terminal.                                                           *)

Answer ==
    /\ arriving = nil /\ rpc # "done"
    /\ \E x \in terminal :
          /\ terminal' = terminal \ {x}
          /\ arriving' = Response(x.flag, x.msg)
    /\ UNCHANGED <<cmdVars, sendVars, conns, devVars, attribute, readVars,
                   rpc, answered, forced>>

Reports ==
    /\ arriving = nil /\ rpc # "done"
    /\ \E k \in Kind, i \in Info \cup {Short} :
          arriving' = Report(k, i)
    /\ UNCHANGED <<cmdVars, sendVars, terminal, conns, devVars, attribute,
                   readVars, rpc, answered, forced>>

-----------------------------------------------------------------------------
ApiStep(a) ==
    \/ \E m \in Attr \cup Other, force \in BOOLEAN : Submit(a, m, force)
    \/ Refuse(a)

SendStep(s) == Write(s) \/ WriteError(s) \/ Mark(s) \/ SentEvent(s)

Handle ==
    \/ HandleUnknown \/ HandleTime \/ HandleHeartbeat \/ HandleLocation
    \/ HandleAlarm \/ LocationStuck \/ HandleInfo \/ Match \/ Mismatch
    \/ SaveResponse \/ UpdateAttribute \/ ParsePanics

(* What run() does when it is scheduled and its deadline passes.           *)
RunStep ==
    \/ Read \/ BadFrame \/ ReadGarbage
    \/ TimeoutClose \/ TimeoutPing \/ TimeoutInFrame
    \/ Handle \/ SendStep("run")

Next ==
    /\ rpc # "panic"
    /\ \/ RunStep \/ ReadError \/ Reconnect
       \/ \E a \in Api : ApiStep(a) \/ SendStep(a)
       \/ Answer \/ Reports

Spec == Init /\ [][Next]_vars

(* The goroutine of run() is scheduled, and a deadline that was set passes *)
(* when nothing arrives.  A call of run() that never returns is a step to  *)
(* "stuck", where RunStep is over.                                         *)
FairSpec == Spec /\ WF_vars(RunStep)
-----------------------------------------------------------------------------
(* The types, and the count of server flags: run() submits one STATUS# on  *)
(* a connection at most, because timeout_ping_sent is never reset.         *)
TypeOK ==
    /\ status \in {"empty", "submitted", "sent"}
    /\ flag \in 0..(MaxCmd + MaxConn)
    /\ current_msg \in Command \cup {nil}
    /\ sent_time \in Nat
    /\ spc \in [Sender -> {"idle", "pending", "write", "mark", "event"}]
    /\ smsg \in [Sender -> Command \cup {nil}]
    /\ sflag \in [Sender -> Nat]
    /\ rpc \in {"read", "ping", "handle", "save", "update", "done",
               "stuck", "panic"}
    /\ msg \in Frame
    /\ pinged \in BOOLEAN /\ skewed \in BOOLEAN
    /\ rcmd \in Command \cup {nil}
    /\ terminal \subseteq [flag : Nat, msg : Command]
    /\ arriving \in Frame \cup {nil}
    /\ conns \in 1..MaxConn
    /\ si \in Info /\ loc \in Info /\ log_si \in Info /\ log_cell \in Info
    /\ announced \in {"started", "disconnected"}
    /\ put \in {nil} \cup {[lon |-> Lat(i), lat |-> Lon(i)] : i \in Info}
    /\ attribute \in [Attr \cup {"terminal_status"} -> Text \cup Info]
    /\ fresh \in BOOLEAN /\ garbled \in BOOLEAN
    /\ answered \in BOOLEAN /\ forced \in BOOLEAN

(* No response is taken for the answer to a command that has been answered *)
(* already (two rows for one command), although run() handles the frame it *)
(* decoded last a second time after its STATUS#: the new flag is assigned  *)
(* before that.  The exception is a flag that no frame carried, read from  *)
(* bytes of several frames (frame.go:52) or in the middle of one           *)
(* (frame.go:33): it may be any command's.                                 *)
AnsweredOnce ==
    [][rpc = "handle" /\ rpc' = "save" => ~answered \/ garbled]_vars

(* An attribute is the answer to the command it is named for, never the    *)
(* answer to another one and never a text mixed from two frames, whatever  *)
(* is submitted while the response is being stored; unless a flag was read *)
(* that no frame carried.                                                  *)
AttributeMatches == garbled \/ \A m \in Attr : attribute[m] \in {nil, m}

(* A response is stored with the command it answers, unless a command was  *)
(* submitted after it was matched: current_msg is read without the lock    *)
(* (gt06.go:447; store.go:12 names the arguments server_flag, command, ct, *)
(* response); or unless a flag was read that no frame carried.             *)
SavedUnlessSubmitted ==
    [][SaveResponse => \/ ResponseRow.command = ResponseRow.response
                       \/ ResponseRow.server_flag # flag
                       \/ garbled]_vars

(* The slot does what pending promises a caller who does not force: a      *)
(* command that has not been answered is superseded by force only.         *)
UnforcedWaits ==
    [][flag' # flag /\ ~forced' => flag = 0 \/ answered]_vars

(* Between two frames the events tell the status and the cell that the     *)
(* device object holds, although an alarm replaces the status too.         *)
EventsTell == rpc = "read" => log_si = si /\ log_cell = loc

(* A connection that ended without the event disconnected ended at the     *)
(* reply to a time check or a heartbeat (gt06.go:505, 512), or with the    *)
(* process, in the parser of a payload too short for it (parser.go:142,    *)
(* 149, 174, 189, gt06.go:537).                                            *)
AnnouncedUnlessReplyFailed ==
    rpc \in {"done", "panic"} /\ announced = "started" =>
        /\ ~fresh
        /\ rpc = "done" => msg.kind \in {"time", "heartbeat"}
        /\ rpc = "panic" => TooShort

(* A terminal that falls silent is disconnected: the first deadline sends  *)
(* a STATUS#, the second closes.  run() does not get that far when a call  *)
(* of it never returns (the push of an event to a subscriber, gt06.go:378, *)
(* a reply or the STATUS#), or when a short payload ended the process.     *)
SilentIsClosed ==
    <>[](arriving = nil) =>
        []<>(rpc = "done") \/ <>(rpc \in {"stuck", "panic"})

-----------------------------------------------------------------------------
(* What the code says of itself and does not do.                           *)

(* tracker.go:595 answers "has pending message", gt06.go:272 logs "there   *)
(* is pending command": a caller is refused only while the last command    *)
(* has no answer.                                                          *)
PendingMeansUnanswered ==
    [][\A a \in Api : spc[a] # "pending" /\ spc'[a] = "pending"
                           => ~answered]_vars
=============================================================================
