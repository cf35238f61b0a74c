------------------------------ MODULE GT06Conn ------------------------------
(***************************************************************************)
(* The connection lifecycle of a GT06 device object                        *)
(* (internal/gpsv2/device/gt06/gt06.go): the goroutine _run that serves    *)
(* one TCP connection after the other, ReplaceConn called by the login     *)
(* handler of every later connection of the same serial number, Stop       *)
(* called by a purge, and the readers SendCommand and CurrentConnInfo.     *)
(*                                                                         *)
(* Every accepted connection k has one login handler, and that handler     *)
(* spawns at most one _run goroutine, so a connection also names its       *)
(* handler and the goroutine the handler spawns.  A device is named by the *)
(* connection whose login created it.                                      *)
(*                                                                         *)
(* A step is the code between two points where another goroutine can be    *)
(* observed: a lock acquisition, an unlocked access, a return.  A mutex    *)
(* whose critical section has no such point inside is not a variable.      *)
(***************************************************************************)
EXTENDS Naturals, FiniteSets

CONSTANTS
    Conn,     \* accepted connections
    Device,   \* device objects, each named by its first connection
    Api,      \* callers of SendCommand and CurrentConnInfo
    nil       \* the nil pointer, and the holder of a free lock

ASSUME ConnAssumption ==
    /\ Device \subseteq Conn
    /\ nil \notin Conn
    /\ nil \notin {"run", "replace"} \X Conn

VARIABLES
    c,             \* the connection a device serves
    c_next,        \* the connection waiting to replace it
    runningState,  \* created, running or paused
    stopped,       \* set once by Stop
    rs_mu,         \* mutex of runningState: the handler holding it
    c_next_mu,     \* mutex of c_next: the goroutine holding it
    readers,       \* read locks held on c_mu
    c_writer,      \* the goroutine that holds or waits for c_mu.Lock
    open,          \* connections the server has not closed
    hpc, hdev,     \* login handlers: program counter, device
    rpc, rdev,     \* _run goroutines: program counter, device
    pinged,        \* timeout_ping_sent of each goroutine
    apc, adev,     \* callers of the API: program counter, device
    spc,           \* Stop: program counter for each device
    overlapped     \* history: a second goroutine was spawned for the device

devVars  == <<c, c_next, runningState, stopped>>
lockVars == <<rs_mu, c_next_mu, readers, c_writer>>
procVars == <<hpc, hdev, rpc, rdev, pinged, apc, adev, spc, overlapped>>
vars     == <<devVars, lockVars, open, procVars>>

Writer == {"run", "replace"} \X Conn
Token  == ({"run", "ping"} \X Conn) \cup ({"api"} \X Api)

(* Where a goroutine holds its read lock of c_mu for the whole of run().   *)
InRun(r) == rpc[r] \in {"read", "ping", "pinging", "notify", "stuck", "unlock"}

(* A caller of the API holds its read lock of c_mu.                        *)
ApiHolds(a) == apc[a] \in {"hold", "stuck"}

(* A goroutine that has been spawned and has not returned.                 *)
Live(r) == rpc[r] \notin {"none", "done"}

(* NewGT06 on the first connection, and Run: the goroutine is spawned but  *)
(* has not been scheduled, so runningState is still created.               *)
Init ==
    /\ c = [d \in Device |-> d]
    /\ c_next = [d \in Device |-> nil]
    /\ runningState = [d \in Device |-> "created"]
    /\ stopped = [d \in Device |-> FALSE]
    /\ rs_mu = [d \in Device |-> nil]
    /\ c_next_mu = [d \in Device |-> nil]
    /\ readers = [d \in Device |-> {}]
    /\ c_writer = [d \in Device |-> nil]
    /\ open = Device
    /\ hpc = [k \in Conn |-> IF k \in Device THEN "returned" ELSE "login"]
    /\ hdev = [k \in Conn |-> IF k \in Device THEN k ELSE nil]
    /\ rpc = [k \in Conn |-> IF k \in Device THEN "start" ELSE "none"]
    /\ rdev = [k \in Conn |-> IF k \in Device THEN k ELSE nil]
    /\ pinged = [k \in Conn |-> FALSE]
    /\ apc = [a \in Api |-> "idle"]
    /\ adev = [a \in Api |-> nil]
    /\ spc = [d \in Device |-> "idle"]
    /\ overlapped = [d \in Device |-> FALSE]

-----------------------------------------------------------------------------
(* The goroutine _run and, inside it, run().                               *)

RunStart_noState(r) ==
    LET d == rdev[r] IN
    /\ rpc[r] = "start"
    /\ rs_mu[d] = nil
    /\ rpc' = [rpc EXCEPT ![r] = "rlock"]
    /\ UNCHANGED <<devVars, lockVars, open, hpc, hdev, rdev, pinged, apc, adev,
                   spc, overlapped>>

RunStart(r) ==
    LET d == rdev[r] IN
    /\ rpc[r] = "start"
    /\ rs_mu[d] = nil
    /\ runningState' = [runningState EXCEPT ![d] = "running"]
    /\ rpc' = [rpc EXCEPT ![r] = "rlock"]
    /\ UNCHANGED <<c, c_next, stopped, lockVars, open, hpc, hdev, rdev,
                   pinged, apc, adev, spc, overlapped>>

(* run() takes c_mu.RLock for as long as the connection lasts.             *)
RunRLock(r) ==
    LET d == rdev[r] IN
    /\ rpc[r] = "rlock"
    /\ c_writer[d] = nil
    /\ readers' = [readers EXCEPT ![d] = @ \cup {<<"run", r>>}]
    /\ pinged' = [pinged EXCEPT ![r] = FALSE]
    /\ rpc' = [rpc EXCEPT ![r] = "read"]
    /\ UNCHANGED <<devVars, rs_mu, c_next_mu, c_writer, open, hpc, hdev,
                   rdev, apc, adev, spc, overlapped>>

(* The first read deadline that passes: _send_command("STATUS#", true).    *)
ReadTimeout(r) ==
    /\ rpc[r] = "read"
    /\ c[rdev[r]] \in open
    /\ ~pinged[r]
    /\ pinged' = [pinged EXCEPT ![r] = TRUE]
    /\ rpc' = [rpc EXCEPT ![r] = "ping"]
    /\ UNCHANGED <<devVars, lockVars, open, hpc, hdev, rdev, apc, adev, spc, overlapped>>

(* _send_command takes c_mu.RLock a second time in the same goroutine; a   *)
(* waiting writer makes it block, as sync.RWMutex prescribes.              *)
PingRLock(r) ==
    LET d == rdev[r] IN
    /\ rpc[r] = "ping"
    /\ c_writer[d] = nil
    /\ readers' = [readers EXCEPT ![d] = @ \cup {<<"ping", r>>}]
    /\ rpc' = [rpc EXCEPT ![r] = "pinging"]
    /\ UNCHANGED <<devVars, rs_mu, c_next_mu, c_writer, open, hpc, hdev,
                   rdev, pinged, apc, adev, spc, overlapped>>

(* The write succeeds and reading goes on.                                 *)
PingOK(r) ==
    LET d == rdev[r] IN
    /\ rpc[r] = "pinging"
    /\ c[d] \in open
    /\ readers' = [readers EXCEPT ![d] = @ \ {<<"ping", r>>}]
    /\ rpc' = [rpc EXCEPT ![r] = "read"]
    /\ UNCHANGED <<devVars, rs_mu, c_next_mu, c_writer, open, hpc, hdev,
                   rdev, pinged, apc, adev, spc, overlapped>>

(* The write fails: run() is about to announce the disconnection.          *)
PingError(r) ==
    LET d == rdev[r] IN
    /\ rpc[r] = "pinging"
    /\ readers' = [readers EXCEPT ![d] = @ \ {<<"ping", r>>}]
    /\ rpc' = [rpc EXCEPT ![r] = "notify"]
    /\ UNCHANGED <<devVars, rs_mu, c_next_mu, c_writer, open, hpc, hdev,
                   rdev, pinged, apc, adev, spc, overlapped>>

(* A read error or the second deadline: handle_diconnection is called.     *)
ReadError(r) ==
    /\ rpc[r] = "read"
    /\ rpc' = [rpc EXCEPT ![r] = "notify"]
    /\ UNCHANGED <<devVars, lockVars, open, hpc, hdev, rdev, pinged, apc,
                   adev, spc, overlapped>>

(* The disconnection has been pushed to every subscriber: closeAndSetErr.  *)
Disconnect(r) ==
    /\ rpc[r] = "notify"
    /\ open' = open \ {c[rdev[r]]}
    /\ rpc' = [rpc EXCEPT ![r] = "unlock"]
    /\ UNCHANGED <<devVars, lockVars, hpc, hdev, rdev, pinged, apc, adev, spc, overlapped>>

(* A response that cannot be written: closeAndSetErr, and no announcement. *)
ResponseError(r) ==
    /\ rpc[r] = "read"
    /\ open' = open \ {c[rdev[r]]}
    /\ rpc' = [rpc EXCEPT ![r] = "unlock"]
    /\ UNCHANGED <<devVars, lockVars, hpc, hdev, rdev, pinged, apc, adev, spc, overlapped>>

(* A push to a subscriber whose lock is kept for ever, or whose browser    *)
(* reads no more (webstream.go:223,266), while a frame is handled or the   *)
(* disconnection is announced: run() never returns.                        *)
Block(r) ==
    /\ rpc[r] \in {"read", "notify"}
    /\ rpc' = [rpc EXCEPT ![r] = "stuck"]
    /\ UNCHANGED <<devVars, lockVars, open, hpc, hdev, rdev, pinged, apc,
                   adev, spc, overlapped>>

(* The deferred RUnlock of run().                                          *)
RunReturn(r) ==
    LET d == rdev[r] IN
    /\ rpc[r] = "unlock"
    /\ readers' = [readers EXCEPT ![d] = @ \ {<<"run", r>>}]
    /\ rpc' = [rpc EXCEPT ![r] = "check"]
    /\ UNCHANGED <<devVars, rs_mu, c_next_mu, c_writer, open, hpc, hdev,
                   rdev, pinged, apc, adev, spc, overlapped>>

CheckStopped(r) ==
    /\ rpc[r] = "check"
    /\ rpc' = [rpc EXCEPT ![r] = IF stopped[rdev[r]] THEN "exit" ELSE "swap"]
    /\ UNCHANGED <<devVars, lockVars, open, hpc, hdev, rdev, pinged, apc,
                   adev, spc, overlapped>>

UseNextConn_keepsMu(r) ==
    LET d == rdev[r] IN
    /\ rpc[r] = "swap"
    /\ c_next_mu[d] = nil
    /\ rpc' = [rpc EXCEPT ![r] = IF c_next[d] = nil THEN "exit" ELSE "lock_c"]
    /\ c_next_mu' = [c_next_mu EXCEPT ![d] = r]
    /\ UNCHANGED <<devVars, rs_mu, readers, c_writer, open, hpc, hdev, rdev,
                   pinged, apc, adev, spc, overlapped>>

(* use_next_conn: look at c_next under c_next_mu, which stays locked while *)
(* the goroutine waits for c_mu.Lock.                                      *)
UseNextConn(r) ==
    LET d == rdev[r] IN
    /\ rpc[r] = "swap"
    /\ c_next_mu[d] = nil
    /\ IF c_next[d] = nil
       THEN /\ rpc' = [rpc EXCEPT ![r] = "exit"]
            /\ UNCHANGED c_next_mu
       ELSE /\ rpc' = [rpc EXCEPT ![r] = "lock_c"]
            /\ c_next_mu' = [c_next_mu EXCEPT ![d] = r]
    /\ UNCHANGED <<devVars, rs_mu, readers, c_writer, open, hpc, hdev, rdev,
                   pinged, apc, adev, spc, overlapped>>

SwapLock(r) ==
    LET d == rdev[r] IN
    /\ rpc[r] = "lock_c"
    /\ c_writer[d] = nil
    /\ c_writer' = [c_writer EXCEPT ![d] = <<"run", r>>]
    /\ rpc' = [rpc EXCEPT ![r] = "swapping"]
    /\ UNCHANGED <<devVars, rs_mu, c_next_mu, readers, open, hpc, hdev, rdev,
                   pinged, apc, adev, spc, overlapped>>

(* c = c_next and c_next = nil under both locks; run() follows.            *)
Swap(r) ==
    LET d == rdev[r] IN
    /\ rpc[r] = "swapping"
    /\ readers[d] = {}
    /\ c' = [c EXCEPT ![d] = c_next[d]]
    /\ c_next' = [c_next EXCEPT ![d] = nil]
    /\ c_writer' = [c_writer EXCEPT ![d] = nil]
    /\ c_next_mu' = [c_next_mu EXCEPT ![d] = nil]
    /\ rpc' = [rpc EXCEPT ![r] = "rlock"]
    /\ UNCHANGED <<runningState, stopped, rs_mu, readers, open, hpc, hdev,
                   rdev, pinged, apc, adev, spc, overlapped>>

(* The deferred function of _run.                                          *)
RunExit(r) ==
    LET d == rdev[r] IN
    /\ rpc[r] = "exit"
    /\ rs_mu[d] = nil
    /\ runningState' = [runningState EXCEPT ![d] = "paused"]
    /\ rpc' = [rpc EXCEPT ![r] = "done"]
    /\ UNCHANGED <<c, c_next, stopped, lockVars, open, hpc, hdev, rdev,
                   pinged, apc, adev, spc, overlapped>>

-----------------------------------------------------------------------------
(* ReplaceConn(k), in the login handler of connection k.                   *)

(* The branch on runningState.  In state created no branch is taken and    *)
(* the call returns without unlocking rs_mu.                               *)
ReplaceConn(k) ==
    LET d == hdev[k] IN
    /\ hpc[k] = "replace"
    /\ rs_mu[d] = nil
    /\ rs_mu' = [rs_mu EXCEPT ![d] = k]
    /\ hpc' = [hpc EXCEPT ![k] = CASE runningState[d] = "running" -> "set_next"
                                   [] runningState[d] = "paused"  -> "set_conn"
                                   [] runningState[d] = "created" -> "returned"]
    /\ UNCHANGED <<devVars, c_next_mu, readers, c_writer, open, hdev, rpc,
                   rdev, pinged, apc, adev, spc, overlapped>>

SetNextConn_keepsLock(k) ==
    LET d == hdev[k] IN
    /\ hpc[k] = "set_next"
    /\ c_next_mu[d] = nil
    /\ c_next' = [c_next EXCEPT ![d] = k]
    /\ hpc' = [hpc EXCEPT ![k] = "close"]
    /\ UNCHANGED <<c, runningState, stopped, lockVars, open, hdev, rpc, rdev,
                   pinged, apc, adev, spc, overlapped>>

SetNextConn_current(k) ==
    LET d == hdev[k] IN
    /\ hpc[k] = "set_next"
    /\ c_next_mu[d] = nil
    /\ c' = [c EXCEPT ![d] = k]
    /\ rs_mu' = [rs_mu EXCEPT ![d] = nil]
    /\ hpc' = [hpc EXCEPT ![k] = "close"]
    /\ UNCHANGED <<c_next, runningState, stopped, c_next_mu, readers, c_writer,
                   open, hdev, rpc, rdev, pinged, apc, adev, spc, overlapped>>

SetNextConn(k) ==
    LET d == hdev[k] IN
    /\ hpc[k] = "set_next"
    /\ c_next_mu[d] = nil
    /\ c_next' = [c_next EXCEPT ![d] = k]
    /\ rs_mu' = [rs_mu EXCEPT ![d] = nil]
    /\ hpc' = [hpc EXCEPT ![k] = "close"]
    /\ UNCHANGED <<c, runningState, stopped, c_next_mu, readers, c_writer,
                   open, hdev, rpc, rdev, pinged, apc, adev, spc, overlapped>>

CloseReplaced_skipped(k) ==
    /\ hpc[k] = "close"
    /\ hpc' = [hpc EXCEPT ![k] = "returned"]
    /\ UNCHANGED <<devVars, lockVars, open, hdev, rpc, rdev, pinged, apc,
                   adev, spc, overlapped>>

(* gt06.c is read without c_mu after rs_mu has been released.              *)
CloseReplaced(k) ==
    /\ hpc[k] = "close"
    /\ open' = open \ {c[hdev[k]]}
    /\ hpc' = [hpc EXCEPT ![k] = "returned"]
    /\ UNCHANGED <<devVars, lockVars, hdev, rpc, rdev, pinged, apc, adev, spc, overlapped>>

SetConnLock(k) ==
    LET d == hdev[k] IN
    /\ hpc[k] = "set_conn"
    /\ c_writer[d] = nil
    /\ c_writer' = [c_writer EXCEPT ![d] = <<"replace", k>>]
    /\ hpc' = [hpc EXCEPT ![k] = "setting"]
    /\ UNCHANGED <<devVars, rs_mu, c_next_mu, readers, open, hdev, rpc, rdev,
                   pinged, apc, adev, spc, overlapped>>

SetConn(k) ==
    LET d == hdev[k] IN
    /\ hpc[k] = "setting"
    /\ readers[d] = {}
    /\ c' = [c EXCEPT ![d] = k]
    /\ c_writer' = [c_writer EXCEPT ![d] = nil]
    /\ rs_mu' = [rs_mu EXCEPT ![d] = nil]
    /\ hpc' = [hpc EXCEPT ![k] = "spawn"]
    /\ UNCHANGED <<c_next, runningState, stopped, c_next_mu, readers, open,
                   hdev, rpc, rdev, pinged, apc, adev, spc, overlapped>>

(* go gt06._run(), after rs_mu was released with runningState paused.      *)
Spawn(k) ==
    LET d == hdev[k] IN
    /\ hpc[k] = "spawn"
    /\ rpc' = [rpc EXCEPT ![k] = "start"]
    /\ rdev' = [rdev EXCEPT ![k] = d]
    /\ hpc' = [hpc EXCEPT ![k] = "returned"]
    /\ overlapped' = [overlapped EXCEPT ![d] =
                        @ \/ \E r \in Conn : rdev[r] = d /\ Live(r)]
    /\ UNCHANGED <<devVars, lockVars, open, hdev, pinged, apc, adev, spc>>

-----------------------------------------------------------------------------
(* The callers.                                                            *)

(* A later connection logs in with the serial number of d: the server      *)
(* finds the device object and calls ReplaceConn.                          *)
Login(k) ==
    /\ hpc[k] = "login"
    /\ \E d \in Device : hdev' = [hdev EXCEPT ![k] = d]
    /\ open' = open \cup {k}
    /\ hpc' = [hpc EXCEPT ![k] = "replace"]
    /\ UNCHANGED <<devVars, lockVars, rpc, rdev, pinged, apc, adev, spc,
                   overlapped>>

(* Stop: the flag is set under stopped_mu, c is closed without a lock.     *)
StopSet(d) ==
    /\ spc[d] = "idle"
    /\ stopped' = [stopped EXCEPT ![d] = TRUE]
    /\ spc' = [spc EXCEPT ![d] = "close"]
    /\ UNCHANGED <<c, c_next, runningState, lockVars, open, hpc, hdev, rpc,
                   rdev, pinged, apc, adev, overlapped>>

StopClose(d) ==
    /\ spc[d] = "close"
    /\ open' = open \ {c[d]}
    /\ spc' = [spc EXCEPT ![d] = "idle"]
    /\ UNCHANGED <<devVars, lockVars, hpc, hdev, rpc, rdev, pinged, apc,
                   adev, overlapped>>

(* SendCommand and CurrentConnInfo use c between RLock and RUnlock; a      *)
(* failed write is returned to the caller and closes nothing.              *)
ApiRLock(a) ==
    /\ apc[a] = "idle"
    /\ \E d \in Device :
          /\ c_writer[d] = nil
          /\ readers' = [readers EXCEPT ![d] = @ \cup {<<"api", a>>}]
          /\ adev' = [adev EXCEPT ![a] = d]
    /\ apc' = [apc EXCEPT ![a] = "hold"]
    /\ UNCHANGED <<devVars, rs_mu, c_next_mu, c_writer, open, hpc, hdev, rpc,
                   rdev, pinged, spc, overlapped>>

(* SendCommand writes to a terminal that reads no more, without a deadline: *)
(* it keeps the read lock until somebody closes the connection.            *)
ApiBlock(a) ==
    /\ apc[a] = "hold"
    /\ apc' = [apc EXCEPT ![a] = "stuck"]
    /\ UNCHANGED <<devVars, lockVars, open, hpc, hdev, rpc, rdev, pinged,
                   adev, spc, overlapped>>

ApiRUnlock(a) ==
    /\ \/ apc[a] = "hold"
       \/ apc[a] = "stuck" /\ c[adev[a]] \notin open
    /\ readers' = [readers EXCEPT ![adev[a]] = @ \ {<<"api", a>>}]
    /\ apc' = [apc EXCEPT ![a] = "idle"]
    /\ adev' = [adev EXCEPT ![a] = nil]
    /\ UNCHANGED <<devVars, rs_mu, c_next_mu, c_writer, open, hpc, hdev, rpc,
                   rdev, pinged, spc, overlapped>>

-----------------------------------------------------------------------------
RunNext(r) ==
    \/ RunStart(r) \/ RunRLock(r) \/ ReadTimeout(r) \/ PingRLock(r)
    \/ PingOK(r) \/ PingError(r) \/ ReadError(r) \/ Disconnect(r)
    \/ ResponseError(r) \/ Block(r) \/ RunReturn(r) \/ CheckStopped(r)
    \/ UseNextConn(r) \/ SwapLock(r) \/ Swap(r) \/ RunExit(r)

HandlerNext(k) ==
    \/ Login(k) \/ ReplaceConn(k) \/ SetNextConn(k) \/ CloseReplaced(k)
    \/ SetConnLock(k) \/ SetConn(k) \/ Spawn(k)

Next ==
    \/ \E r \in Conn : RunNext(r)
    \/ \E k \in Conn : HandlerNext(k)
    \/ \E d \in Device : StopSet(d) \/ StopClose(d)
    \/ \E a \in Api : ApiRLock(a) \/ ApiBlock(a) \/ ApiRUnlock(a)

Spec == Init /\ [][Next]_vars

(* What the Go scheduler and the mutexes owe to a goroutine.  sync.Mutex   *)
(* hands a lock over in FIFO order once a waiter starves, so a lock that   *)
(* is free again and again is got: strong fairness.  A read or a write on  *)
(* a closed connection returns; writes have no deadline, so on an open one *)
(* they may take for ever.  Nothing makes a terminal go silent or its      *)
(* reads and responses fail, and no login, purge or call of the API has to *)
(* come.  A push that does return is Disconnect, one that does not is      *)
(* Block, after which the goroutine has no step.  All of this is about a   *)
(* process that lives: GT06Session says what ends it.                      *)
RunProgress(r) ==
    \/ RunStart(r) \/ RunRLock(r) \/ PingRLock(r)
    \/ (PingError(r) \/ ReadError(r)) /\ c[rdev[r]] \notin open
    \/ Disconnect(r) \/ RunReturn(r) \/ CheckStopped(r) \/ UseNextConn(r)
    \/ SwapLock(r) \/ Swap(r) \/ RunExit(r)

HandlerProgress(k) ==
    \/ ReplaceConn(k) \/ SetNextConn(k) \/ CloseReplaced(k)
    \/ SetConnLock(k) \/ SetConn(k) \/ Spawn(k)

Fairness ==
    /\ \A r \in Conn : SF_vars(RunProgress(r))
    /\ \A k \in Conn : SF_vars(HandlerProgress(k))
    /\ \A d \in Device : WF_vars(StopClose(d))
    /\ \A a \in Api : WF_vars(ApiRUnlock(a))

FairSpec == Spec /\ Fairness

-----------------------------------------------------------------------------
(* Type correctness of the lock holders, the program counters and the      *)
(* connection pointers.                                                    *)
TypeOK ==
    /\ c \in [Device -> Conn]
    /\ c_next \in [Device -> Conn \cup {nil}]
    /\ runningState \in [Device -> {"created", "running", "paused"}]
    /\ stopped \in [Device -> BOOLEAN]
    /\ rs_mu \in [Device -> Conn \cup {nil}]
    /\ c_next_mu \in [Device -> Conn \cup {nil}]
    /\ readers \in [Device -> SUBSET Token]
    /\ c_writer \in [Device -> Writer \cup {nil}]
    /\ open \in SUBSET Conn
    /\ hpc \in [Conn -> {"login", "replace", "set_next", "close", "set_conn",
                         "setting", "spawn", "returned"}]
    /\ hdev \in [Conn -> Device \cup {nil}]
    /\ \A k \in Conn : hpc[k] # "login" => hdev[k] \in Device
    /\ rpc \in [Conn -> {"none", "start", "rlock", "read", "ping", "pinging",
                         "notify", "stuck", "unlock", "check", "swap", "lock_c", "swapping",
                         "exit", "done"}]
    /\ rdev \in [Conn -> Device \cup {nil}]
    /\ \A r \in Conn : rpc[r] # "none" => rdev[r] \in Device
    /\ pinged \in [Conn -> BOOLEAN]
    /\ apc \in [Api -> {"idle", "hold", "stuck"}]
    /\ adev \in [Api -> Device \cup {nil}]
    /\ \A a \in Api : ApiHolds(a) => adev[a] \in Device
    /\ spc \in [Device -> {"idle", "close"}]
    /\ overlapped \in [Device -> BOOLEAN]

(* While a goroutine is inside run() the connection of its device is not   *)
(* exchanged under it: run() reads and writes gt06.c with no lock but the  *)
(* RLock it took on entry (gt06.go:463), and both writers of gt06.c wait   *)
(* for that lock.                                                          *)
ConnStable ==
    [][\A r \in Conn :
          InRun(r) /\ InRun(r)' => c'[rdev[r]] = c[rdev[r]]]_vars

(* A caller of SendCommand or CurrentConnInfo sees one connection from its *)
(* RLock to its RUnlock.                                                   *)
ApiConnStable ==
    [][\A a \in Api :
          ApiHolds(a) /\ ApiHolds(a)'
             => c'[adev[a]] = c[adev[a]]]_vars

(* The connection that waits in c_next has not been closed by anybody and  *)
(* is not the one being served: ReplaceConn, Stop and run() close gt06.c   *)
(* with no lock that orders them with use_next_conn (gt06.go:165,196,339). *)
PendingIsWaiting ==
    \A d \in Device :
        c_next[d] # nil => c_next[d] \in open /\ c_next[d] # c[d]

(* run() returns only after it closed the connection it served, so the     *)
(* goroutine never moves to the next connection, or ends, and leaves the   *)
(* socket of the last one open (gt06.go:477,484,490,505,512).              *)
RunEndsClosed ==
    \A r \in Conn : rpc[r] = "unlock" => c[rdev[r]] \notin open

(* The lock leaked by ReplaceConn in state created (gt06.go:334-346) is    *)
(* the only one a returned login handler keeps, and then no goroutine of   *)
(* the device ever passes the first lines of _run.                         *)
LeakOnlyBeforeStart ==
    \A d \in Device :
        rs_mu[d] # nil /\ hpc[rs_mu[d]] = "returned"
           => /\ runningState[d] = "created"
              /\ c_next[d] = nil
              /\ \A r \in Conn : rdev[r] = d => rpc[r] = "start"

(* Somebody waits for c_mu.Lock while a goroutine serves a connection with *)
(* the read lock in its hands.                                             *)
Blocked(d) ==
    /\ c_writer[d] # nil
    /\ \E r \in Conn : rdev[r] = d /\ InRun(r)

(* As long as a device never had two _run goroutines, no writer waits      *)
(* behind a goroutine that serves a connection, and so the second RLock of *)
(* _send_command (gt06.go:287, called from run at 481) cannot deadlock     *)
(* with it.  Two goroutines arise when two logins find runningState paused *)
(* before the goroutine the first one spawned has set it to running        *)
(* (gt06.go:341-344).                                                      *)
BlockedOnlyAfterOverlap ==
    \A d \in Device : Blocked(d) => overlapped[d]

(* rs_mu is held for ever.                                                 *)
Leaked(d) == rs_mu[d] # nil /\ hpc[rs_mu[d]] = "returned"

(* A SendCommand that holds c_mu for as long as its terminal reads nothing. *)
Writing(d) == \E a \in Api : apc[a] = "stuck" /\ adev[a] = d

(* A login handler gets out of ReplaceConn, unless rs_mu was leaked, the   *)
(* device had two goroutines, or a SendCommand keeps c_mu in a write to a  *)
(* terminal that reads no more; c_next_mu, which use_next_conn keeps while *)
(* it waits for c_mu, and a goroutine stuck in a push are no other cause.  *)
ReplaceReturns ==
    \A k \in Conn \ Device :
        hpc[k] = "replace"
           ~> \/ hpc[k] = "returned"
              \/ \E d \in Device : hdev[k] = d /\ (Leaked(d) \/ overlapped[d] \/ Writing(d))

(* Where a goroutine still has use_next_conn before it.                    *)
BeforeSwap(r) == rpc[r] \in {"rlock", "read", "ping", "pinging", "notify",
                             "unlock", "check", "swap"}

(* A connection put in c_next for a goroutine that has still to look there *)
(* is taken, or overwritten by a later login, unless the device is stopped *)
(* or had two goroutines (gt06.go:335-339, 224-236), or the goroutine is   *)
(* stuck in a push to a subscriber: it pushes what the last frames say,    *)
(* and the disconnection, before it closes and returns (gt06.go:378, 489). *)
PendingTaken ==
    \A d \in Device, k \in Conn \ Device :
        (/\ c_next[d] = k /\ hdev[k] = d /\ hpc[k] = "close"
         /\ \E r \in Conn : rdev[r] = d /\ BeforeSwap(r))
           ~> \/ c_next[d] # k \/ stopped[d] \/ overlapped[d]
              \/ \E r \in Conn : rdev[r] = d /\ rpc[r] = "stuck"
=============================================================================
