----------------------------- MODULE SimpleJson -----------------------------
(***************************************************************************)
(* The connection lifecycle of a SimpleJSON device object                  *)
(* (internal/gpsv2/device/simplejson/simplejson.go): Run by the login that *)
(* makes the device, ReplaceConn by every later login, the goroutine _run, *)
(* and Stop by a purge.  The names are those of GT06Conn; the code differs *)
(* in where it locks and in what it forgets.                               *)
(*                                                                         *)
(* Every critical section of rs_mu, c_mu, c_next_mu and stopped_mu is      *)
(* short: nothing inside it waits but for another such section.  So each   *)
(* is one step, and rs_mu is a variable only because one path keeps it.    *)
(* A goroutine is named by the connection whose login spawned it.          *)
(***************************************************************************)
EXTENDS Naturals

CONSTANTS
    Conn,       \* accepted connections
    first,      \* the connection whose login makes the device
    MaxBuffer,  \* bound: whole messages waiting in the reader of a connection
    nil         \* the nil pointer, and the holder of a free lock

ASSUME JsonAssumption ==
    /\ first \in Conn
    /\ nil \notin Conn
    /\ MaxBuffer \in Nat

VARIABLES
    c,             \* the connection the device serves
    c_next,        \* the connection handed over last to a running device
    runningState,  \* created, running or paused
    stopped,       \* set once by Stop
    rs_mu,         \* mutex of runningState: the handler that keeps it
    open,          \* connections the server has not closed
    buffered,      \* messages in the bufio.Reader of each connection
    hpc,           \* login handlers: program counter
    rpc, rconn,    \* _run goroutines: program counter, connection being read
    spc,           \* Stop: program counter
    stored,        \* the connection of the last location given to the store
    stamp, clock,  \* history: the order in which connections were handed over
    taken,         \* history: connections some goroutine has read
    superseded,    \* history: not taken when the next one was handed over
    late,          \* history: handed over when no goroutine would look again
    overlapped     \* history: two goroutines at once

devVars  == <<c, c_next, runningState, stopped, rs_mu>>
netVars  == <<open, buffered, stored>>
procVars == <<hpc, rpc, rconn, spc>>
histVars == <<stamp, clock, taken, superseded, late, overlapped>>
vars     == <<devVars, netVars, procVars, histVars>>

Live(r) == rpc[r] \notin {"none", "done"}

(* A goroutine that still has use_next_conn before it.                     *)
WillLook(r) == rpc[r] \in {"start", "read", "reading", "handle", "stuck", "check", "swap"}

(* NewSimpleJSON: the login handler has the device for itself.             *)
Init ==
    /\ c = first
    /\ c_next = nil
    /\ runningState = "created"
    /\ stopped = FALSE
    /\ rs_mu = nil
    /\ open = {first}
    /\ buffered = [k \in Conn |-> 0]
    /\ hpc = [k \in Conn |-> IF k = first THEN "run" ELSE "login"]
    /\ rpc = [k \in Conn |-> "none"]
    /\ rconn = [k \in Conn |-> nil]
    /\ spc = "idle"
    /\ stored = nil
    /\ stamp = [k \in Conn |-> IF k = first THEN 1 ELSE 0]
    /\ clock = 1
    /\ taken = {}
    /\ superseded = {}
    /\ late = FALSE
    /\ overlapped = FALSE

-----------------------------------------------------------------------------
(* The login handlers.                                                     *)

(* Run sets the state itself; the goroutine it spawns will set it again.   *)
Run(k) ==
    /\ hpc[k] = "run"
    /\ rs_mu = nil
    /\ runningState' = "running"
    /\ hpc' = [hpc EXCEPT ![k] = "spawn"]
    /\ UNCHANGED <<c, c_next, stopped, rs_mu, netVars, rpc, rconn, spc, histVars>>

(* go _run(), at the end of Run and of ReplaceConn.                        *)
Spawn(k) ==
    /\ hpc[k] = "spawn"
    /\ rpc' = [rpc EXCEPT ![k] = "start"]
    /\ hpc' = [hpc EXCEPT ![k] = IF k = first THEN "register" ELSE "returned"]
    /\ overlapped' = (overlapped \/ \E r \in Conn : Live(r))
    /\ UNCHANGED <<devVars, netVars, rconn, spc, stamp, clock, taken, superseded, late>>

(* The device is registered after Run; from here other logins find it.     *)
AddDevice(k) ==
    /\ hpc[k] = "register"
    /\ hpc' = [hpc EXCEPT ![k] = "returned"]
    /\ UNCHANGED <<devVars, netVars, rpc, rconn, spc, histVars>>

Registered == hpc[first] = "returned"

Login(k) ==
    /\ hpc[k] = "login"
    /\ Registered
    /\ open' = open \cup {k}
    /\ hpc' = [hpc EXCEPT ![k] = "replace"]
    /\ UNCHANGED <<devVars, buffered, stored, rpc, rconn, spc, histVars>>

(* What a connection handed over does to the history.                      *)
Given(k) ==
    /\ clock' = clock + 1
    /\ stamp' = [stamp EXCEPT ![k] = clock + 1]
    /\ superseded' = superseded \cup {j \in Conn : stamp[j] > 0 /\ j \notin taken}

ReplaceConn_sameField(k) ==
    /\ hpc[k] = "replace"
    /\ rs_mu = nil
    /\ Given(k)
    /\ c' = k
    /\ hpc' = [hpc EXCEPT ![k] = IF runningState = "running" THEN "close" ELSE "spawn"]
    /\ late' = (late \/ (runningState = "running" /\ ~\E r \in Conn : WillLook(r)))
    /\ UNCHANGED <<c_next, runningState, stopped, rs_mu, netVars, rpc, rconn, spc, taken, overlapped>>

(* ReplaceConn up to the release of rs_mu.  In state created no branch is  *)
(* taken and the lock is kept.                                             *)
ReplaceConn(k) ==
    /\ hpc[k] = "replace"
    /\ rs_mu = nil
    /\ IF runningState = "created" THEN UNCHANGED <<stamp, clock, superseded>> ELSE Given(k)
    /\ c_next' = IF runningState = "running" THEN k ELSE c_next
    /\ c' = IF runningState = "paused" THEN k ELSE c
    /\ rs_mu' = IF runningState = "created" THEN k ELSE nil
    /\ hpc' = [hpc EXCEPT ![k] = CASE runningState = "running" -> "close"
                                   [] runningState = "paused"  -> "spawn"
                                   [] runningState = "created" -> "returned"]
    /\ late' = (late \/ (runningState = "running" /\ ~\E r \in Conn : WillLook(r)))
    /\ UNCHANGED <<runningState, stopped, netVars, rpc, rconn, spc, taken, overlapped>>

CloseReplaced_skipped(k) ==
    /\ hpc[k] = "close"
    /\ hpc' = [hpc EXCEPT ![k] = "returned"]
    /\ UNCHANGED <<devVars, netVars, rpc, rconn, spc, histVars>>

(* j.c.Close() after the lock was released: whatever j.c is by then.       *)
CloseReplaced(k) ==
    /\ hpc[k] = "close"
    /\ open' = open \ {c}
    /\ hpc' = [hpc EXCEPT ![k] = "returned"]
    /\ UNCHANGED <<devVars, buffered, stored, rpc, rconn, spc, histVars>>

-----------------------------------------------------------------------------
(* Stop, by a purge: the flag under stopped_mu, then j.c without a lock.   *)

StopSet ==
    /\ Registered
    /\ spc = "idle"
    /\ stopped' = TRUE
    /\ spc' = "close"
    /\ UNCHANGED <<c, c_next, runningState, rs_mu, netVars, hpc, rpc, rconn, histVars>>

StopClose ==
    /\ spc = "close"
    /\ open' = open \ {c}
    /\ spc' = "idle"
    /\ UNCHANGED <<devVars, buffered, stored, hpc, rpc, rconn, histVars>>

-----------------------------------------------------------------------------
(* The goroutine _run and, inside it, run().                               *)

RunStart(r) ==
    /\ rpc[r] = "start"
    /\ rs_mu = nil
    /\ runningState' = "running"
    /\ rpc' = [rpc EXCEPT ![r] = "read"]
    /\ UNCHANGED <<c, c_next, stopped, rs_mu, netVars, hpc, rconn, spc, histVars>>

(* readMessage(j.c, ...): the argument is read with no lock.               *)
BeginRead(r) ==
    /\ rpc[r] = "read"
    /\ rconn' = [rconn EXCEPT ![r] = c]
    /\ taken' = taken \cup {c}
    /\ rpc' = [rpc EXCEPT ![r] = "reading"]
    /\ UNCHANGED <<devVars, netVars, hpc, spc, stamp, clock, superseded, late, overlapped>>

(* A whole frame: from the buffer, also of a closed connection, or from    *)
(* the network, which may leave more frames in the buffer.                 *)
ReadOK(r) ==
    LET k == rconn[r] IN
    /\ rpc[r] = "reading"
    /\ \/ /\ buffered[k] > 0
          /\ buffered' = [buffered EXCEPT ![k] = @ - 1]
       \/ /\ buffered[k] = 0 /\ k \in open
          /\ \E n \in 0..MaxBuffer : buffered' = [buffered EXCEPT ![k] = n]
    /\ rpc' = [rpc EXCEPT ![r] = "handle"]
    /\ UNCHANGED <<devVars, open, stored, hpc, rconn, spc, histVars>>

closeAndSetErr == open' = open \ {c}

ReadError_noClose(r) ==
    /\ rpc[r] = "reading"
    /\ rpc' = [rpc EXCEPT ![r] = "check"]
    /\ UNCHANGED <<devVars, netVars, hpc, rconn, spc, histVars>>

(* A closed or broken connection, a frame cut short or ill formed:         *)
(* closeAndSetErr closes j.c and run() returns.                            *)
ReadError(r) ==
    /\ rpc[r] = "reading"
    /\ closeAndSetErr
    /\ rpc' = [rpc EXCEPT ![r] = "check"]
    /\ UNCHANGED <<devVars, buffered, stored, hpc, rconn, spc, histVars>>

(* The switch of run(): a location is stored; status, GPS_ERROR, GPS_INIT  *)
(* and unknown kinds leave nothing but the last message of their kind.     *)
HandleMessage(r) ==
    /\ rpc[r] = "handle"
    /\ stored' \in {stored, rconn[r]}
    /\ rpc' = [rpc EXCEPT ![r] = "read"]
    /\ UNCHANGED <<devVars, open, buffered, hpc, rconn, spc, histVars>>

(* SendLocation does not come back from a subscriber whose lock is kept    *)
(* for ever, or whose browser reads no more (webstream.go:223,266): the    *)
(* goroutine has no further step, and the location is not stored.          *)
Block(r) ==
    /\ rpc[r] = "handle"
    /\ rpc' = [rpc EXCEPT ![r] = "stuck"]
    /\ UNCHANGED <<devVars, netVars, hpc, rconn, spc, histVars>>

(* Content that does not parse, and every SAT_UPDATE (its Unmarshal is not *)
(* given a pointer): j.c is closed, but the break only leaves the switch,  *)
(* and the loop reads on.                                                  *)
BadMessage(r) ==
    /\ rpc[r] = "handle"
    /\ closeAndSetErr
    /\ rpc' = [rpc EXCEPT ![r] = "read"]
    /\ UNCHANGED <<devVars, buffered, stored, hpc, rconn, spc, histVars>>

CheckStopped_onlyOnce(r) ==
    /\ rpc[r] = "check"
    /\ rpc' = [rpc EXCEPT ![r] = "exit"]
    /\ UNCHANGED <<devVars, netVars, hpc, rconn, spc, histVars>>

CheckStopped(r) ==
    /\ rpc[r] = "check"
    /\ rpc' = [rpc EXCEPT ![r] = IF stopped THEN "exit" ELSE "swap"]
    /\ UNCHANGED <<devVars, netVars, hpc, rconn, spc, histVars>>

UseNextConn_ifOther(r) ==
    /\ rpc[r] = "swap"
    /\ c' = IF c_next = nil THEN c ELSE c_next
    /\ rpc' = [rpc EXCEPT ![r] = IF c_next \in {nil, c} THEN "exit" ELSE "read"]
    /\ UNCHANGED <<c_next, runningState, stopped, rs_mu, netVars, hpc, rconn, spc, histVars>>

(* c = c_next; c_next keeps its value.                                     *)
UseNextConn(r) ==
    /\ rpc[r] = "swap"
    /\ c' = IF c_next = nil THEN c ELSE c_next
    /\ rpc' = [rpc EXCEPT ![r] = IF c_next = nil THEN "exit" ELSE "read"]
    /\ UNCHANGED <<c_next, runningState, stopped, rs_mu, netVars, hpc, rconn, spc, histVars>>

(* The deferred function of _run.                                          *)
RunExit(r) ==
    /\ rpc[r] = "exit"
    /\ rs_mu = nil
    /\ runningState' = "paused"
    /\ rpc' = [rpc EXCEPT ![r] = "done"]
    /\ UNCHANGED <<c, c_next, stopped, rs_mu, netVars, hpc, rconn, spc, histVars>>

-----------------------------------------------------------------------------
HandlerNext(k) ==
    Run(k) \/ Spawn(k) \/ AddDevice(k) \/ Login(k) \/ ReplaceConn(k) \/ CloseReplaced(k)

RunNext(r) ==
    \/ RunStart(r) \/ BeginRead(r) \/ ReadOK(r) \/ ReadError(r) \/ HandleMessage(r)
    \/ Block(r) \/ BadMessage(r) \/ CheckStopped(r) \/ UseNextConn(r) \/ RunExit(r)

Next ==
    \/ \E k \in Conn : HandlerNext(k)
    \/ \E r \in Conn : RunNext(r)
    \/ StopSet \/ StopClose

Spec == Init /\ [][Next]_vars

(* Every lock is short, so what a goroutine waits for in this module is    *)
(* never taken away again: weak fairness of each.  A Read of a closed      *)
(* connection whose buffer is empty returns an error; there is no read     *)
(* deadline, so nothing ends the Read of an open connection.  A message    *)
(* whose push returns is HandleMessage; one whose push does not is Block,  *)
(* after which the goroutine has no step.                                  *)
RunProgress(r) ==
    \/ RunStart(r) \/ BeginRead(r) \/ HandleMessage(r) \/ CheckStopped(r)
    \/ UseNextConn(r) \/ RunExit(r)
    \/ /\ rpc[r] = "reading" /\ rconn[r] \notin open
       /\ IF buffered[rconn[r]] > 0 THEN ReadOK(r) ELSE ReadError(r)

HandlerProgress(k) ==
    Run(k) \/ Spawn(k) \/ AddDevice(k) \/ ReplaceConn(k) \/ CloseReplaced(k)

Fairness ==
    /\ \A r \in Conn : WF_vars(RunProgress(r))
    /\ \A k \in Conn : WF_vars(HandlerProgress(k))

FairSpec == Spec /\ Fairness

-----------------------------------------------------------------------------
(* Types of the device's fields, the program counters and the histories    *)
(* (simplejson.go:28-47).                                                  *)
TypeOK ==
    /\ c \in Conn
    /\ c_next \in Conn \cup {nil}
    /\ runningState \in {"created", "running", "paused"}
    /\ stopped \in BOOLEAN
    /\ rs_mu \in Conn \cup {nil}
    /\ open \in SUBSET Conn
    /\ buffered \in [Conn -> 0..MaxBuffer]
    /\ hpc \in [Conn -> {"run", "spawn", "register", "login", "replace", "close", "returned"}]
    /\ rpc \in [Conn -> {"none", "start", "read", "reading", "handle", "stuck",
                         "check", "swap", "exit", "done"}]
    /\ rconn \in [Conn -> Conn \cup {nil}]
    /\ \A r \in Conn : rpc[r] \in {"reading", "handle"} => rconn[r] \in Conn
    /\ spc \in {"idle", "close"}
    /\ stored \in Conn \cup {nil}
    /\ stamp \in [Conn -> Nat]
    /\ clock \in Nat
    /\ taken \in SUBSET Conn
    /\ superseded \in SUBSET Conn
    /\ late \in BOOLEAN
    /\ overlapped \in BOOLEAN

(* What a goroutine closes after a bad message or a read error is the      *)
(* connection it read from: closeAndSetErr evaluates j.c again             *)
(* (simplejson.go:89-92), with no lock that run() would hold.  Only two    *)
(* goroutines at once break it.                                            *)
ReadsCurrent ==
    \A r \in Conn : rpc[r] \in {"reading", "handle"} => rconn[r] = c \/ overlapped

(* A connection that was handed over and that no goroutine can reach any   *)
(* more.                                                                   *)
Orphan(k) ==
    /\ hpc[k] = "returned"
    /\ k \in open
    /\ k \notin {c, c_next}
    /\ ~\E r \in Conn : rpc[r] \in {"reading", "handle", "stuck"} /\ rconn[r] = k

(* The server forgets a connection without closing it only when the next   *)
(* one came before a goroutine had read anything of it, or after two       *)
(* goroutines overlapped: ReplaceConn closes j.c, which need not be the    *)
(* connection it replaces in c_next (simplejson.go:123-131).               *)
OrphansSuperseded ==
    \A k \in Conn : Orphan(k) => k \in superseded \/ overlapped

(* A device that was handed a second connection never pauses again, unless *)
(* it is stopped, or the connection came between use_next_conn and the     *)
(* deferred assignment, or goroutines overlapped: c_next is not reset      *)
(* (simplejson.go:110-116), so after the last connection ends the          *)
(* goroutine takes the same closed connection again and again.             *)
NeverPausesAgain ==
    \A r \in Conn : rpc[r] = "exit" /\ c_next # nil => stopped \/ late \/ overlapped

(* Locations reach the store in the order in which their connections were  *)
(* handed over, although a closed connection is read until its buffer is   *)
(* empty and c_next keeps a connection that is over (simplejson.go:106-118,*)
(* 234-236).                                                               *)
StoredForward ==
    [][stored' # stored /\ stored # nil
          => stamp[stored'] > stamp[stored] \/ late \/ overlapped]_vars

(* No login keeps rs_mu.  In GT06 the same missing branch for the state    *)
(* created (gt06.go:331-346) leaks it; here Run has set the state before   *)
(* the device can be found by another login (simplejson.go:122-143,        *)
(* server.go:424-425).                                                     *)
NeverLeaks == rs_mu = nil

(* A connection handed to a running device is read by its goroutine,       *)
(* unless the next one came first, the device was stopped, nobody was left *)
(* to look, or a goroutine is stuck in a push to a subscriber              *)
(* (simplejson.go:123-127, 175-186, 232).                                  *)
HandedTaken ==
    \A k \in Conn :
        hpc[k] = "close" ~> \/ k \in taken \cup superseded \/ stopped \/ late
                            \/ overlapped
                            \/ \E r \in Conn : rpc[r] = "stuck"
=============================================================================
