----------------------------- MODULE GpsServer -----------------------------
(***************************************************************************)
(* Logins of terminals and the registry of device objects                  *)
(* (internal/gpsv2/server/server.go): the listener, one login handler for  *)
(* each accepted connection, the two maps of device_list, and the tracker  *)
(* table as the logins use it.                                             *)
(*                                                                         *)
(* A device object is named by the connection whose login made it, and a   *)
(* row of the table by the login that inserted it; Old names the rows that *)
(* were there when the server started.  What a device does with the calls  *)
(* it gets (Run, ReplaceConn, Stop) is in GT06Conn.  All critical sections *)
(* of device_list.mu are single steps: nothing inside them waits.          *)
(***************************************************************************)
EXTENDS Naturals, FiniteSets

CONSTANTS
    Conn,        \* accepted connections
    Sn,          \* serial numbers, as the login messages have them
    JsonSnType,  \* serial types of SimpleJSON: mac 1, aid 2, any other 5
    SnMod,       \* serial numbers are cut to a remainder of this (2^60)
    Old,         \* rows of the tracker table that earlier servers inserted
    nil          \* no device, no row, nothing decoded yet

ASSUME ServerAssumption ==
    /\ Sn \subseteq Nat
    /\ JsonSnType \subseteq Nat \ {0}
    /\ SnMod \in Nat \ {0}
    /\ Conn \cap Old = {}
    /\ nil \notin Conn \cup Old \cup Nat

Protocol == {"gt06", "simplejson"}

(* What a terminal logs in with: GT06 has the IMEI, type 0, in 16 decimal  *)
(* digits, which are never cut; SimpleJSON has any 64-bit number.          *)
Serial(p) ==
    IF p = "gt06" THEN [sn_type : {0}, sn : {s \in Sn : s < SnMod}]
                  ELSE [sn_type : JsonSnType, sn : Sn]

CombineSn_noType(sn_type, sn) == sn % SnMod

CombineSn(sn_type, sn) == (sn % SnMod) + sn_type * SnMod

Tid == Conn \cup Old

VARIABLES
    listening,      \* runListener still accepts
    lpc,            \* login handlers: program counter ...
    kind, ser,      \* ... protocol and serial number of the login message ...
    nsn,            \* ... the number CombineSn makes of it ...
    target,         \* ... the device deviceNsn found ...
    tid, allow,     \* ... the row fetched: its id and AllowConnect
    closed,         \* connections closed by their login handler
    row,            \* the table: nsn of each row
    nsnlist, list,  \* the maps of device_list
    made,           \* devices made and started with Run
    given,          \* the device a connection was handed to
    stopped,        \* devices that Stop was called on
    raced           \* history: logins of one serial number that overlapped

hVars   == <<kind, ser, nsn, target, tid, allow>>
regVars == <<nsnlist, list>>
devVars == <<made, given, stopped>>
vars    == <<listening, lpc, hVars, closed, row, regVars, devVars, raced>>

Nsn == {CombineSn(t, s) : t \in {0} \cup JsonSnType, s \in Sn}

(* A server starts with no devices and with any table of old rows.         *)
Init ==
    /\ listening = TRUE
    /\ lpc = [k \in Conn |-> "none"]
    /\ kind = [k \in Conn |-> nil]
    /\ ser = [k \in Conn |-> nil]
    /\ nsn = [k \in Conn |-> nil]
    /\ target = [k \in Conn |-> nil]
    /\ tid = [k \in Conn |-> nil]
    /\ allow = [k \in Conn |-> FALSE]
    /\ closed = {}
    /\ \E r \in [Old -> Nsn \cup {nil}] :
          row = [t \in Tid |-> IF t \in Old THEN r[t] ELSE nil]
    /\ nsnlist = [n \in Nsn |-> nil]
    /\ list = [t \in Tid |-> nil]
    /\ made = {}
    /\ given = [k \in Conn |-> nil]
    /\ stopped = {}
    /\ raced = {}

-----------------------------------------------------------------------------
(* The listener.                                                           *)

Accept(k) ==
    /\ listening
    /\ lpc[k] = "none"
    /\ lpc' = [lpc EXCEPT ![k] = "peek"]
    /\ UNCHANGED <<listening, hVars, closed, row, regVars, devVars, raced>>

(* Any error of Accept ends the listener for good.                         *)
AcceptError ==
    /\ listening
    /\ listening' = FALSE
    /\ UNCHANGED <<lpc, hVars, closed, row, regVars, devVars, raced>>

-----------------------------------------------------------------------------
(* The login handler of connection k.                                      *)

(* h.c.Close() and return.                                                 *)
CloseAndReturn(k) ==
    /\ closed' = closed \cup {k}
    /\ lpc' = [lpc EXCEPT ![k] = "done"]

PeekFails_armedLate(k) ==
    /\ lpc[k] = "frame"
    /\ CloseAndReturn(k)
    /\ UNCHANGED <<listening, hVars, row, regVars, devVars, raced>>

(* No first byte within two seconds of the deadline set at line 277.       *)
PeekFails(k) ==
    /\ lpc[k] = "peek"
    /\ CloseAndReturn(k)
    /\ UNCHANGED <<listening, hVars, row, regVars, devVars, raced>>

(* The first byte tells the protocol; a connection with any other byte is  *)
(* neither closed nor handed to anyone.                                    *)
Peek(k, p) ==
    /\ lpc[k] = "peek"
    /\ kind' = [kind EXCEPT ![k] = p]
    /\ lpc' = [lpc EXCEPT ![k] = IF p \in Protocol THEN "frame" ELSE "done"]
    /\ UNCHANGED <<listening, ser, nsn, target, tid, allow, closed, row,
                   regVars, devVars, raced>>

(* The deadline passes, the frame is bad or no login, or its serial number *)
(* does not parse.                                                         *)
RejectFrame(k) ==
    /\ lpc[k] = "frame"
    /\ CloseAndReturn(k)
    /\ UNCHANGED <<listening, hVars, row, regVars, devVars, raced>>

(* ParseLoginMessage of a GT06 payload of eleven bytes reads a twelfth.    *)
(* Nothing recovers a panic: the whole server ends.                        *)
Panic(k) ==
    /\ lpc[k] = "frame"
    /\ kind[k] = "gt06"
    /\ lpc' = [lpc EXCEPT ![k] = "panic"]
    /\ UNCHANGED <<listening, hVars, closed, row, regVars, devVars, raced>>

Up == \A k \in Conn : lpc[k] # "panic"

(* A login message: GT06 acknowledges it before it looks for a device.     *)
Login(k, n) ==
    /\ lpc[k] = "frame"
    /\ n \in Serial(kind[k])
    /\ ser' = [ser EXCEPT ![k] = n]
    /\ nsn' = [nsn EXCEPT ![k] = CombineSn(n.sn_type, n.sn)]
    /\ lpc' = [lpc EXCEPT ![k] = IF kind[k] = "gt06" THEN "ack" ELSE "lookup"]
    /\ UNCHANGED <<listening, kind, target, tid, allow, closed, row, regVars,
                   devVars, raced>>

SendLoginOK(k) ==
    /\ lpc[k] = "ack"
    /\ lpc' = [lpc EXCEPT ![k] = "lookup"]
    /\ UNCHANGED <<listening, hVars, closed, row, regVars, devVars, raced>>

SendLoginFails(k) ==
    /\ lpc[k] = "ack"
    /\ CloseAndReturn(k)
    /\ UNCHANGED <<listening, hVars, row, regVars, devVars, raced>>

(* deviceNsn, with nil for not found.                                      *)
deviceNsn(n) == IF nsnlist[n] = nil THEN nil ELSE list[nsnlist[n]]

(* Logins that found no device and have not registered one.                *)
Creating(k) == lpc[k] \in {"select", "insert", "config", "add"}

(* Deleted is set on a copy of the entry only (line 138): no entry of the  *)
(* registry has it.                                                        *)
LookupFound(k) ==
    /\ lpc[k] = "lookup"
    /\ deviceNsn(nsn[k]) # nil
    /\ target' = [target EXCEPT ![k] = deviceNsn(nsn[k])]
    /\ lpc' = [lpc EXCEPT ![k] = "replace"]
    /\ UNCHANGED <<listening, kind, ser, nsn, tid, allow, closed, row, regVars,
                   devVars, raced>>

LookupMissed_always(k) ==
    /\ lpc[k] = "lookup"
    /\ lpc' = [lpc EXCEPT ![k] = "select"]
    /\ raced' = raced \cup {{k, l} : l \in {l \in Conn \ {k} :
                                  Creating(l) /\ nsn[l] = nsn[k]}}
    /\ UNCHANGED <<listening, hVars, closed, row, regVars, devVars>>

LookupMissed(k) ==
    /\ lpc[k] = "lookup"
    /\ deviceNsn(nsn[k]) = nil
    /\ lpc' = [lpc EXCEPT ![k] = "select"]
    /\ raced' = raced \cup {{k, l} : l \in {l \in Conn \ {k} :
                                  Creating(l) /\ nsn[l] = nsn[k]}}
    /\ UNCHANGED <<listening, hVars, closed, row, regVars, devVars>>

(* ReplaceConn of the device that was found, some time after the lookup.   *)
Replace(k) ==
    /\ lpc[k] = "replace"
    /\ given' = [given EXCEPT ![k] = target[k]]
    /\ lpc' = [lpc EXCEPT ![k] = "done"]
    /\ UNCHANGED <<listening, hVars, closed, row, regVars, made, stopped, raced>>

-----------------------------------------------------------------------------
(* register_and_fetch_config_attr and add_tracker_default.  The API edits  *)
(* the configuration of a row and the template at any time                 *)
(* (EditTrackerSettings), so that AllowConnect may be read as either.      *)

Fetched(k, t, a) ==
    /\ tid' = [tid EXCEPT ![k] = t]
    /\ allow' = [allow EXCEPT ![k] = a]
    /\ lpc' = [lpc EXCEPT ![k] = "config"]

(* SELECT ... WHERE nsn = $1; of several rows the query takes any.         *)
Select(k) ==
    /\ lpc[k] = "select"
    /\ \E t \in Tid, a \in BOOLEAN : row[t] = nsn[k] /\ Fetched(k, t, a)
    /\ UNCHANGED <<listening, kind, ser, nsn, target, closed, row, regVars, devVars,
                   raced>>

SelectNoRows(k) ==
    /\ lpc[k] = "select"
    /\ \A t \in Tid : row[t] # nsn[k]
    /\ lpc' = [lpc EXCEPT ![k] = "insert"]
    /\ UNCHANGED <<listening, hVars, closed, row, regVars, devVars, raced>>

(* INSERT ... SELECT from the template.  The code neither asks for a       *)
(* unique nsn nor relies on it: if the table has the constraint, the       *)
(* second insert is a QueryFails.                                          *)
Insert(k) ==
    /\ lpc[k] = "insert"
    /\ row' = [row EXCEPT ![k] = nsn[k]]
    /\ \E a \in BOOLEAN : Fetched(k, k, a)
    /\ UNCHANGED <<listening, kind, ser, nsn, target, closed, regVars, devVars, raced>>

(* A database error, or no template to insert from.                        *)
QueryFails(k) ==
    /\ lpc[k] \in {"select", "insert"}
    /\ CloseAndReturn(k)
    /\ UNCHANGED <<listening, hVars, row, regVars, devVars, raced>>

-----------------------------------------------------------------------------
(* The new device.                                                         *)

Refuse_goesOn(k) ==
    /\ lpc[k] = "config"
    /\ ~allow[k]
    /\ closed' = closed \cup {k}
    /\ made' = made \cup {k}
    /\ given' = [given EXCEPT ![k] = k]
    /\ lpc' = [lpc EXCEPT ![k] = "add"]
    /\ UNCHANGED <<listening, hVars, row, regVars, stopped, raced>>

Refuse(k) ==
    /\ lpc[k] = "config"
    /\ ~allow[k]
    /\ CloseAndReturn(k)
    /\ UNCHANGED <<listening, hVars, row, regVars, devVars, raced>>

(* NewGT06 or NewSimpleJSON, and Run: the device is at work before the     *)
(* registry has it.                                                        *)
Create(k) ==
    /\ lpc[k] = "config"
    /\ allow[k]
    /\ made' = made \cup {k}
    /\ given' = [given EXCEPT ![k] = k]
    /\ lpc' = [lpc EXCEPT ![k] = "add"]
    /\ UNCHANGED <<listening, hVars, closed, row, regVars, stopped, raced>>

addDevice_oneMap(k) ==
    /\ lpc[k] = "add"
    /\ list' = [list EXCEPT ![tid[k]] = k]
    /\ lpc' = [lpc EXCEPT ![k] = "done"]
    /\ UNCHANGED <<listening, hVars, closed, row, nsnlist, devVars, raced>>

addDevice(k) ==
    /\ lpc[k] = "add"
    /\ nsnlist' = [nsnlist EXCEPT ![nsn[k]] = tid[k]]
    /\ list' = [list EXCEPT ![tid[k]] = k]
    /\ lpc' = [lpc EXCEPT ![k] = "done"]
    /\ UNCHANGED <<listening, hVars, closed, row, devVars, raced>>

-----------------------------------------------------------------------------
(* The API: PurgeDevice calls Stop and leaves the entry where it is.  For  *)
(* an id without an entry it panics on the nil Dev, with no effect.        *)
PurgeDevice(t) ==
    /\ list[t] # nil
    /\ stopped' = stopped \cup {list[t]}
    /\ UNCHANGED <<listening, lpc, hVars, closed, row, regVars, made, given, raced>>

(* What a handler does whatever the terminal sends: it reads with a        *)
(* deadline, and everything after the login message is its own.            *)
Handle(k) ==
    \/ PeekFails(k) \/ RejectFrame(k)
    \/ SendLoginOK(k) \/ SendLoginFails(k)
    \/ LookupFound(k) \/ LookupMissed(k)
    \/ Select(k) \/ SelectNoRows(k) \/ Insert(k) \/ QueryFails(k)
    \/ Refuse(k) \/ Create(k) \/ addDevice(k)

Receive(k) ==
    \/ \E p \in Protocol \cup {"other"} : Peek(k, p)
    \/ \E n \in Serial(kind[k]) : Login(k, n)
    \/ Panic(k)

Next ==
    /\ Up
    /\ \/ AcceptError
       \/ \E k \in Conn : Accept(k) \/ Receive(k) \/ Handle(k) \/ Replace(k)
       \/ \E t \in Tid : PurgeDevice(t)

Spec == Init /\ [][Next]_vars

(* Goroutines are scheduled, deadlines pass and the database answers.      *)
(* Nothing makes ReplaceConn return: a device may hold its lock for ever   *)
(* (ReplaceReturns of GT06Conn).                                           *)
FairSpec == Spec /\ \A k \in Conn : WF_vars(Up /\ Handle(k))

-----------------------------------------------------------------------------
TypeOK ==
    /\ listening \in BOOLEAN
    /\ lpc \in [Conn -> {"none", "peek", "frame", "ack", "lookup", "replace",
                         "select", "insert", "config", "add", "done",
                         "panic"}]
    /\ kind \in [Conn -> Protocol \cup {"other", nil}]
    /\ ser \in [Conn -> [sn_type : {0} \cup JsonSnType, sn : Sn] \cup {nil}]
    /\ nsn \in [Conn -> Nsn \cup {nil}]
    /\ target \in [Conn -> Conn \cup {nil}]
    /\ tid \in [Conn -> Tid \cup {nil}]
    /\ allow \in [Conn -> BOOLEAN]
    /\ closed \subseteq Conn
    /\ row \in [Tid -> Nsn \cup {nil}]
    /\ nsnlist \in [Nsn -> Tid \cup {nil}]
    /\ list \in [Tid -> Conn \cup {nil}]
    /\ made \subseteq Conn /\ stopped \subseteq made
    /\ given \in [Conn -> Conn \cup {nil}]
    /\ raced \subseteq SUBSET Conn
    /\ \A k \in Conn : lpc[k] \in {"config", "add"} => tid[k] \in Tid

(* The two maps of device_list and the table agree: the row of an entry    *)
(* has the serial number of the entry's device, and a serial number leads  *)
(* to a device of that serial number if any entry has one (line 49 relies  *)
(* on it after two lookups in two maps).                                   *)
MapsAgree ==
    /\ \A n \in Nsn :
          nsnlist[n] # nil => deviceNsn(n) # nil /\ nsn[deviceNsn(n)] = n
    /\ \A t \in Tid :
          list[t] # nil => /\ tid[list[t]] = t
                           /\ row[t] = nsn[list[t]]
                           /\ nsnlist[row[t]] # nil

(* Two devices serve one serial number only if the logins that made them   *)
(* overlapped: each looked for a device (line 335) before the other had    *)
(* registered its own (line 357).  After that the serial number keeps its  *)
(* device, purged or not.                                                  *)
TwinsRaced ==
    \A d, e \in made : d # e /\ nsn[d] = nsn[e] => {d, e} \in raced

(* GetDevice and PurgeDevice find the device of a tracker by the id its    *)
(* login fetched, unless an overlapping login took the entry.              *)
FoundUnlessRaced ==
    \A d \in made :
        lpc[d] = "done" => list[tid[d]] = d \/ {d, list[tid[d]]} \in raced

(* A serial number gets a second row only from overlapping logins: every   *)
(* other login of it finds the row that is there (line 235).               *)
RowsRaced ==
    \A k \in Conn, t \in Tid :
        t # k /\ row[k] # nil /\ row[t] = row[k] => {k, t} \in raced

(* A device is handed connections of the terminal it was made for only:    *)
(* the same protocol, serial type and serial number, although the registry *)
(* has one number for the serial numbers of all protocols (CombineSn).     *)
(* The exception is a SimpleJSON serial number of more than 60 bits: it is *)
(* cut, and its terminal shares a device with the one whose number is the  *)
(* remainder.                                                              *)
Cut(k) == ser[k].sn >= SnMod

OwnTerminal ==
    \A k \in Conn :
        given[k] # nil =>
            LET d == given[k]
            IN  /\ d \in made
                /\ kind[d] = kind[k]
                /\ ser[d].sn_type = ser[k].sn_type
                /\ \/ ser[d].sn = ser[k].sn
                   \/ kind[k] = "simplejson" /\ (Cut(d) \/ Cut(k))

(* A login ends with its connection either closed or handed to a device,   *)
(* on each of its error paths too.  The exceptions are a connection whose  *)
(* first byte is of no protocol, and the login message that panics, with   *)
(* which the server ends.                                                  *)
ClosedOrServed ==
    \A k \in Conn :
        /\ k \in closed => given[k] = nil
        /\ lpc[k] = "done" /\ kind[k] # "other" =>
              k \in closed \/ given[k] # nil

(* A connection does not stay in the login handler, whatever its terminal  *)
(* sends or does not send, with two exceptions: a login message that       *)
(* panics ends the server, and a device that was found may keep the        *)
(* handler waiting in ReplaceConn.                                         *)
LoginEnds ==
    \A k \in Conn :
        lpc[k] = "peek" ~> (lpc[k] \in {"done", "replace"} \/ ~Up)
=============================================================================
