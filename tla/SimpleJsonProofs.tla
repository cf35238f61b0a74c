-------------------------- MODULE SimpleJsonProofs --------------------------
(***************************************************************************)
(* Proofs about SimpleJson for any number of connections and any length of *)
(* a connection's buffer.                                                  *)
(***************************************************************************)
EXTENDS SimpleJson, TLAPS

(* The device's fields, handlers and goroutines have their types.          *)
LEMMA TypeInit == Init => TypeOK
<1> SUFFICES ASSUME Init PROVE TypeOK
  OBVIOUS
<1>1. buffered \in [Conn -> 0..MaxBuffer] /\ stamp \in [Conn -> Nat] /\ clock \in Nat
  BY JsonAssumption DEF Init
<1>2. /\ hpc \in [Conn -> {"run", "spawn", "register", "login", "replace", "close", "returned"}]
      /\ rpc \in [Conn -> {"none", "start", "read", "reading", "handle", "stuck",
                       "check", "swap", "exit", "done"}]
      /\ rconn \in [Conn -> Conn \cup {nil}]
      /\ \A r \in Conn : rpc[r] \in {"reading", "handle"} => rconn[r] \in Conn
  BY JsonAssumption DEF Init
<1>3. QED
  BY <1>1, <1>2, JsonAssumption DEF Init, TypeOK

LEMMA TypeNext ==
    ASSUME TypeOK, [Next]_vars
    PROVE  TypeOK'
<1>1. ASSUME NEW k \in Conn, HandlerNext(k) PROVE TypeOK'
  <2>1. CASE Run(k)
    BY <2>1, JsonAssumption
       DEF Run, devVars, netVars, procVars, histVars, TypeOK
  <2>2. CASE Spawn(k)
    BY <2>2, JsonAssumption
       DEF Spawn, devVars, netVars, procVars, histVars, TypeOK
  <2>3. CASE AddDevice(k)
    BY <2>3, JsonAssumption
       DEF AddDevice, devVars, netVars, procVars, histVars, TypeOK
  <2>4. CASE Login(k)
    BY <2>4, JsonAssumption
       DEF Login, devVars, netVars, procVars, histVars, TypeOK
  <2>5. CASE ReplaceConn(k)
    BY <2>5, JsonAssumption
       DEF ReplaceConn, Given, devVars, netVars, procVars, histVars, TypeOK
  <2>6. CASE CloseReplaced(k)
    BY <2>6, JsonAssumption
       DEF CloseReplaced, devVars, netVars, procVars, histVars, TypeOK
  <2>7. QED
    BY <1>1, <2>1, <2>2, <2>3, <2>4, <2>5, <2>6 DEF HandlerNext
<1>2. ASSUME NEW r \in Conn, RunNext(r) PROVE TypeOK'
  <2>1. CASE RunStart(r)
    BY <2>1, JsonAssumption
       DEF RunStart, devVars, netVars, procVars, histVars, TypeOK
  <2>2. CASE BeginRead(r)
    BY <2>2, JsonAssumption
       DEF BeginRead, devVars, netVars, procVars, histVars, TypeOK
  <2>3. CASE ReadOK(r)
    BY <2>3, JsonAssumption
       DEF ReadOK, devVars, netVars, procVars, histVars, TypeOK
  <2>4. CASE ReadError(r)
    BY <2>4, JsonAssumption
       DEF ReadError, closeAndSetErr, devVars, netVars, procVars, histVars,
           TypeOK
  <2>5. CASE HandleMessage(r)
    BY <2>5, JsonAssumption
       DEF HandleMessage, devVars, netVars, procVars, histVars, TypeOK
  <2>6. CASE BadMessage(r)
    BY <2>6, JsonAssumption
       DEF BadMessage, closeAndSetErr, devVars, netVars, procVars, histVars,
           TypeOK
  <2>7. CASE CheckStopped(r)
    BY <2>7, JsonAssumption
       DEF CheckStopped, devVars, netVars, procVars, histVars, TypeOK
  <2>8. CASE UseNextConn(r)
    BY <2>8, JsonAssumption
       DEF UseNextConn, devVars, netVars, procVars, histVars, TypeOK
  <2>9. CASE RunExit(r)
    BY <2>9, JsonAssumption
       DEF RunExit, devVars, netVars, procVars, histVars, TypeOK
  <2>10. CASE Block(r)
    BY <2>10, JsonAssumption
       DEF Block, devVars, netVars, procVars, histVars, TypeOK
  <2>11. QED
    BY <1>2, <2>1, <2>2, <2>3, <2>4, <2>5, <2>6, <2>7, <2>8, <2>9, <2>10
       DEF RunNext
<1>3. CASE StopSet
  BY <1>3, JsonAssumption
     DEF StopSet, devVars, netVars, procVars, histVars, TypeOK
<1>4. CASE StopClose
  BY <1>4, JsonAssumption
     DEF StopClose, devVars, netVars, procVars, histVars, TypeOK
<1>5. CASE UNCHANGED vars
  BY <1>5, JsonAssumption
     DEF vars, devVars, netVars, procVars, histVars, TypeOK
<1>6. QED
  BY <1>1, <1>2, <1>3, <1>4, <1>5 DEF Next

(* Fields, program counters and histories keep their types (simplejson.go  *)
(* 28-47).                                                                 *)
THEOREM TypeCorrect == Spec => []TypeOK
BY TypeInit, TypeNext, PTL DEF Spec

-----------------------------------------------------------------------------
(* No login keeps rs_mu: state created is over when the device is found.   *)

FirstMakes ==
    /\ hpc[first] \notin {"login", "replace", "close"}
    /\ \A k \in Conn : k # first => hpc[k] \notin {"run", "register"}

FoundRegistered == \A k \in Conn : k # first /\ hpc[k] # "login" => Registered

CreatedIsNew == runningState = "created" => hpc[first] = "run"

LoginInv == NeverLeaks /\ FirstMakes /\ FoundRegistered /\ CreatedIsNew

LEMMA LoginInit == Init => LoginInv
BY JsonAssumption DEF Init, LoginInv, NeverLeaks, FirstMakes, FoundRegistered,
   Registered, CreatedIsNew

LEMMA LoginNext ==
    ASSUME TypeOK, LoginInv, [Next]_vars
    PROVE  LoginInv'
<1>1. ASSUME NEW k \in Conn, HandlerNext(k) PROVE LoginInv'
  <2>1. CASE Run(k)
    BY <2>1, JsonAssumption
       DEF Run, devVars, netVars, procVars, histVars, TypeOK, LoginInv,
           NeverLeaks, FirstMakes, FoundRegistered, Registered, CreatedIsNew
  <2>2. CASE Spawn(k)
    BY <2>2, JsonAssumption
       DEF Spawn, devVars, netVars, procVars, histVars, TypeOK, LoginInv,
           NeverLeaks, FirstMakes, FoundRegistered, Registered, CreatedIsNew
  <2>3. CASE AddDevice(k)
    BY <2>3, JsonAssumption
       DEF AddDevice, devVars, netVars, procVars, histVars, TypeOK, LoginInv,
           NeverLeaks, FirstMakes, FoundRegistered, Registered, CreatedIsNew
  <2>4. CASE Login(k)
    BY <2>4, JsonAssumption
       DEF Login, devVars, netVars, procVars, histVars, TypeOK, LoginInv,
           NeverLeaks, FirstMakes, FoundRegistered, Registered, CreatedIsNew
  <2>5. CASE ReplaceConn(k)
    BY <2>5, JsonAssumption
       DEF ReplaceConn, Given, devVars, netVars, procVars, histVars, TypeOK,
           LoginInv, NeverLeaks, FirstMakes, FoundRegistered, Registered,
           CreatedIsNew
  <2>6. CASE CloseReplaced(k)
    BY <2>6, JsonAssumption
       DEF CloseReplaced, devVars, netVars, procVars, histVars, TypeOK,
           LoginInv, NeverLeaks, FirstMakes, FoundRegistered, Registered,
           CreatedIsNew
  <2>7. QED
    BY <1>1, <2>1, <2>2, <2>3, <2>4, <2>5, <2>6 DEF HandlerNext
<1>2. ASSUME NEW r \in Conn, RunNext(r) PROVE LoginInv'
  <2>1. CASE RunStart(r)
    BY <2>1, JsonAssumption
       DEF RunStart, devVars, netVars, procVars, histVars, TypeOK, LoginInv,
           NeverLeaks, FirstMakes, FoundRegistered, Registered, CreatedIsNew
  <2>2. CASE BeginRead(r)
    BY <2>2, JsonAssumption
       DEF BeginRead, devVars, netVars, procVars, histVars, TypeOK, LoginInv,
           NeverLeaks, FirstMakes, FoundRegistered, Registered, CreatedIsNew
  <2>3. CASE ReadOK(r)
    BY <2>3, JsonAssumption
       DEF ReadOK, devVars, netVars, procVars, histVars, TypeOK, LoginInv,
           NeverLeaks, FirstMakes, FoundRegistered, Registered, CreatedIsNew
  <2>4. CASE ReadError(r)
    BY <2>4, JsonAssumption
       DEF ReadError, closeAndSetErr, devVars, netVars, procVars, histVars,
           TypeOK, LoginInv, NeverLeaks, FirstMakes, FoundRegistered,
           Registered, CreatedIsNew
  <2>5. CASE HandleMessage(r)
    BY <2>5, JsonAssumption
       DEF HandleMessage, devVars, netVars, procVars, histVars, TypeOK,
           LoginInv, NeverLeaks, FirstMakes, FoundRegistered, Registered,
           CreatedIsNew
  <2>6. CASE BadMessage(r)
    BY <2>6, JsonAssumption
       DEF BadMessage, closeAndSetErr, devVars, netVars, procVars, histVars,
           TypeOK, LoginInv, NeverLeaks, FirstMakes, FoundRegistered,
           Registered, CreatedIsNew
  <2>7. CASE CheckStopped(r)
    BY <2>7, JsonAssumption
       DEF CheckStopped, devVars, netVars, procVars, histVars, TypeOK,
           LoginInv, NeverLeaks, FirstMakes, FoundRegistered, Registered,
           CreatedIsNew
  <2>8. CASE UseNextConn(r)
    BY <2>8, JsonAssumption
       DEF UseNextConn, devVars, netVars, procVars, histVars, TypeOK,
           LoginInv, NeverLeaks, FirstMakes, FoundRegistered, Registered,
           CreatedIsNew
  <2>9. CASE RunExit(r)
    BY <2>9, JsonAssumption
       DEF RunExit, devVars, netVars, procVars, histVars, TypeOK, LoginInv,
           NeverLeaks, FirstMakes, FoundRegistered, Registered, CreatedIsNew
  <2>10. CASE Block(r)
    BY <2>10, JsonAssumption
       DEF Block, devVars, netVars, procVars, histVars, TypeOK,
           LoginInv, NeverLeaks, FirstMakes, FoundRegistered, Registered,
           CreatedIsNew
  <2>11. QED
    BY <1>2, <2>1, <2>2, <2>3, <2>4, <2>5, <2>6, <2>7, <2>8, <2>9, <2>10
       DEF RunNext
<1>3. CASE StopSet
  BY <1>3, JsonAssumption
     DEF StopSet, devVars, netVars, procVars, histVars, TypeOK, LoginInv,
         NeverLeaks, FirstMakes, FoundRegistered, Registered, CreatedIsNew
<1>4. CASE StopClose
  BY <1>4, JsonAssumption
     DEF StopClose, devVars, netVars, procVars, histVars, TypeOK, LoginInv,
         NeverLeaks, FirstMakes, FoundRegistered, Registered, CreatedIsNew
<1>5. CASE UNCHANGED vars
  BY <1>5, JsonAssumption
     DEF vars, devVars, netVars, procVars, histVars, TypeOK, LoginInv,
         NeverLeaks, FirstMakes, FoundRegistered, Registered, CreatedIsNew
<1>6. QED
  BY <1>1, <1>2, <1>3, <1>4, <1>5 DEF Next

LEMMA LoginHolds == Spec => [](TypeOK /\ LoginInv)
<1>1. TypeOK /\ LoginInv /\ [Next]_vars => TypeOK' /\ LoginInv'
  BY TypeNext, LoginNext
<1>2. QED
  BY <1>1, TypeInit, LoginInit, PTL DEF Spec

(* No call of ReplaceConn leaks rs_mu, for Run sets the state before the   *)
(* device is registered (simplejson.go:120-143).                           *)
THEOREM NeverLeaksHolds == Spec => []NeverLeaks
<1>1. LoginInv => NeverLeaks
  BY DEF LoginInv
<1>2. QED
  BY <1>1, LoginHolds, PTL

-----------------------------------------------------------------------------
(* The order in which connections are handed over.                         *)

Stamped ==
    /\ \A k \in Conn : stamp[k] = 0 <=> hpc[k] \in {"login", "replace"}
    /\ \A k \in Conn : stamp[k] =< clock
    /\ \A j, k \in Conn : stamp[j] = stamp[k] /\ stamp[j] > 0 => j = k

HeldStamped ==
    /\ stamp[c] > 0
    /\ c_next # nil => stamp[c_next] > 0
    /\ \A k \in taken : stamp[k] > 0

StampInv == Stamped /\ HeldStamped

LEMMA StampInit == Init => StampInv
BY JsonAssumption DEF Init, StampInv, Stamped, HeldStamped

LEMMA StampNext ==
    ASSUME TypeOK, LoginInv, StampInv, [Next]_vars
    PROVE  StampInv'
<1>1. ASSUME NEW k \in Conn, HandlerNext(k) PROVE StampInv'
  <2>1. CASE Run(k)
    BY <2>1, JsonAssumption
       DEF Run, devVars, netVars, procVars, histVars, TypeOK, StampInv,
           Stamped, HeldStamped
  <2>2. CASE Spawn(k)
    BY <2>2, JsonAssumption
       DEF Spawn, devVars, netVars, procVars, histVars, TypeOK, StampInv,
           Stamped, HeldStamped
  <2>3. CASE AddDevice(k)
    BY <2>3, JsonAssumption
       DEF AddDevice, devVars, netVars, procVars, histVars, TypeOK, StampInv,
           Stamped, HeldStamped
  <2>4. CASE Login(k)
    BY <2>4, JsonAssumption
       DEF Login, devVars, netVars, procVars, histVars, TypeOK, StampInv,
           Stamped, HeldStamped
  <2>5. CASE ReplaceConn(k)
    <3>1. runningState \in {"running", "paused"}
      BY <2>5 DEF ReplaceConn, TypeOK, LoginInv, FirstMakes, FoundRegistered,
             Registered, CreatedIsNew
    <3>2. /\ clock' = clock + 1 /\ stamp' = [stamp EXCEPT ![k] = clock + 1]
          /\ hpc[k] = "replace" /\ hpc'[k] \in {"close", "spawn"}
          /\ \A j \in Conn : j # k => hpc'[j] = hpc[j]
          /\ taken' = taken
      BY <2>5, <3>1 DEF ReplaceConn, Given, TypeOK
    <3>3. c' \in {c, k} /\ c_next' \in {c_next, k}
      BY <2>5 DEF ReplaceConn
    <3>4. Stamped'
      BY <3>2 DEF TypeOK, StampInv, Stamped
    <3>5. HeldStamped'
      BY <3>2, <3>3, JsonAssumption DEF TypeOK, StampInv, HeldStamped
    <3>6. QED
      BY <3>4, <3>5 DEF StampInv
  <2>6. CASE CloseReplaced(k)
    BY <2>6, JsonAssumption
       DEF CloseReplaced, devVars, netVars, procVars, histVars, TypeOK,
           StampInv, Stamped, HeldStamped
  <2>7. QED
    BY <1>1, <2>1, <2>2, <2>3, <2>4, <2>5, <2>6 DEF HandlerNext
<1>2. ASSUME NEW r \in Conn, RunNext(r) PROVE StampInv'
  <2>1. CASE RunStart(r)
    BY <2>1, JsonAssumption
       DEF RunStart, devVars, netVars, procVars, histVars, TypeOK, StampInv,
           Stamped, HeldStamped
  <2>2. CASE BeginRead(r)
    BY <2>2, JsonAssumption
       DEF BeginRead, devVars, netVars, procVars, histVars, TypeOK, StampInv,
           Stamped, HeldStamped
  <2>3. CASE ReadOK(r)
    BY <2>3, JsonAssumption
       DEF ReadOK, devVars, netVars, procVars, histVars, TypeOK, StampInv,
           Stamped, HeldStamped
  <2>4. CASE ReadError(r)
    BY <2>4, JsonAssumption
       DEF ReadError, closeAndSetErr, devVars, netVars, procVars, histVars,
           TypeOK, StampInv, Stamped, HeldStamped
  <2>5. CASE HandleMessage(r)
    BY <2>5, JsonAssumption
       DEF HandleMessage, devVars, netVars, procVars, histVars, TypeOK,
           StampInv, Stamped, HeldStamped
  <2>6. CASE BadMessage(r)
    BY <2>6, JsonAssumption
       DEF BadMessage, closeAndSetErr, devVars, netVars, procVars, histVars,
           TypeOK, StampInv, Stamped, HeldStamped
  <2>7. CASE CheckStopped(r)
    BY <2>7, JsonAssumption
       DEF CheckStopped, devVars, netVars, procVars, histVars, TypeOK,
           StampInv, Stamped, HeldStamped
  <2>8. CASE UseNextConn(r)
    BY <2>8, JsonAssumption
       DEF UseNextConn, devVars, netVars, procVars, histVars, TypeOK,
           StampInv, Stamped, HeldStamped
  <2>9. CASE RunExit(r)
    BY <2>9, JsonAssumption
       DEF RunExit, devVars, netVars, procVars, histVars, TypeOK, StampInv,
           Stamped, HeldStamped
  <2>10. CASE Block(r)
    BY <2>10, JsonAssumption
       DEF Block, devVars, netVars, procVars, histVars, TypeOK,
           StampInv, Stamped, HeldStamped
  <2>11. QED
    BY <1>2, <2>1, <2>2, <2>3, <2>4, <2>5, <2>6, <2>7, <2>8, <2>9, <2>10
       DEF RunNext
<1>3. CASE StopSet
  BY <1>3, JsonAssumption
     DEF StopSet, devVars, netVars, procVars, histVars, TypeOK, StampInv,
         Stamped, HeldStamped
<1>4. CASE StopClose
  BY <1>4, JsonAssumption
     DEF StopClose, devVars, netVars, procVars, histVars, TypeOK, StampInv,
         Stamped, HeldStamped
<1>5. CASE UNCHANGED vars
  BY <1>5, JsonAssumption
     DEF vars, devVars, netVars, procVars, histVars, TypeOK, StampInv,
         Stamped, HeldStamped
<1>6. QED
  BY <1>1, <1>2, <1>3, <1>4, <1>5 DEF Next

-----------------------------------------------------------------------------
(* As long as no two goroutines overlapped, there is one.                  *)

OneGoroutine == \A q, r \in Conn : Live(q) /\ Live(r) => q = r

PausedIdle ==
    runningState = "paused" => \A r \in Conn : rpc[r] \in {"none", "start", "done"}

SoloInv ==
    /\ ~overlapped => OneGoroutine /\ PausedIdle
    /\ ReadsCurrent
    /\ NeverPausesAgain

LEMMA SoloInit == Init => SoloInv
BY DEF Init, SoloInv, OneGoroutine, PausedIdle, ReadsCurrent, NeverPausesAgain, Live

LEMMA SoloNext ==
    ASSUME TypeOK, LoginInv, SoloInv, [Next]_vars
    PROVE  SoloInv'
<1>1. ASSUME NEW k \in Conn, HandlerNext(k) PROVE SoloInv'
  <2>1. CASE Run(k)
    BY <2>1
       DEF Run, devVars, netVars, procVars, histVars, TypeOK, SoloInv,
           OneGoroutine, PausedIdle, ReadsCurrent, NeverPausesAgain, Live
  <2>2. CASE Spawn(k)
    BY <2>2
       DEF Spawn, devVars, netVars, procVars, histVars, TypeOK, SoloInv,
           OneGoroutine, PausedIdle, ReadsCurrent, NeverPausesAgain, Live
  <2>3. CASE AddDevice(k)
    BY <2>3
       DEF AddDevice, devVars, netVars, procVars, histVars, TypeOK, SoloInv,
           OneGoroutine, PausedIdle, ReadsCurrent, NeverPausesAgain, Live
  <2>4. CASE Login(k)
    BY <2>4
       DEF Login, devVars, netVars, procVars, histVars, TypeOK, SoloInv,
           OneGoroutine, PausedIdle, ReadsCurrent, NeverPausesAgain, Live
  <2>5. CASE ReplaceConn(k)
    <3>1. runningState \in {"running", "paused"}
      BY <2>5, JsonAssumption DEF ReplaceConn, TypeOK, LoginInv, FirstMakes,
             FoundRegistered, Registered, CreatedIsNew
    <3>2. UNCHANGED <<runningState, stopped, overlapped, rpc, rconn>>
      BY <2>5 DEF ReplaceConn
    <3>3. ReadsCurrent'
      BY <2>5, <3>2 DEF ReplaceConn, SoloInv, PausedIdle, ReadsCurrent
    <3>4. NeverPausesAgain'
      <4>1. CASE runningState = "paused"
        BY <2>5, <3>2, <4>1 DEF ReplaceConn, SoloInv, PausedIdle, NeverPausesAgain
      <4>2. CASE runningState = "running"
        <5>1. SUFFICES ASSUME NEW r \in Conn, rpc[r] = "exit", ~overlapped
                       PROVE  late'
          BY <3>2 DEF NeverPausesAgain
        <5>2. ~\E q \in Conn : WillLook(q)
          BY <5>1 DEF SoloInv, OneGoroutine, Live, WillLook
        <5>3. QED
          BY <2>5, <4>2, <5>2 DEF ReplaceConn
      <4>3. QED
        BY <3>1, <4>1, <4>2
    <3>5. QED
      BY <3>2, <3>3, <3>4 DEF SoloInv, OneGoroutine, PausedIdle, Live
  <2>6. CASE CloseReplaced(k)
    BY <2>6
       DEF CloseReplaced, devVars, netVars, procVars, histVars, TypeOK,
           SoloInv, OneGoroutine, PausedIdle, ReadsCurrent, NeverPausesAgain,
           Live
  <2>7. QED
    BY <1>1, <2>1, <2>2, <2>3, <2>4, <2>5, <2>6 DEF HandlerNext
<1>2. ASSUME NEW r \in Conn, RunNext(r) PROVE SoloInv'
  <2>1. CASE RunStart(r)
    BY <2>1
       DEF RunStart, devVars, netVars, procVars, histVars, TypeOK, SoloInv,
           OneGoroutine, PausedIdle, ReadsCurrent, NeverPausesAgain, Live
  <2>2. CASE BeginRead(r)
    BY <2>2
       DEF BeginRead, devVars, netVars, procVars, histVars, TypeOK, SoloInv,
           OneGoroutine, PausedIdle, ReadsCurrent, NeverPausesAgain, Live
  <2>3. CASE ReadOK(r)
    BY <2>3
       DEF ReadOK, devVars, netVars, procVars, histVars, TypeOK, SoloInv,
           OneGoroutine, PausedIdle, ReadsCurrent, NeverPausesAgain, Live
  <2>4. CASE ReadError(r)
    BY <2>4
       DEF ReadError, closeAndSetErr, devVars, netVars, procVars, histVars,
           TypeOK, SoloInv, OneGoroutine, PausedIdle, ReadsCurrent,
           NeverPausesAgain, Live
  <2>5. CASE HandleMessage(r)
    BY <2>5
       DEF HandleMessage, devVars, netVars, procVars, histVars, TypeOK,
           SoloInv, OneGoroutine, PausedIdle, ReadsCurrent, NeverPausesAgain,
           Live
  <2>6. CASE BadMessage(r)
    BY <2>6
       DEF BadMessage, closeAndSetErr, devVars, netVars, procVars, histVars,
           TypeOK, SoloInv, OneGoroutine, PausedIdle, ReadsCurrent,
           NeverPausesAgain, Live
  <2>7. CASE CheckStopped(r)
    BY <2>7
       DEF CheckStopped, devVars, netVars, procVars, histVars, TypeOK,
           SoloInv, OneGoroutine, PausedIdle, ReadsCurrent, NeverPausesAgain,
           Live
  <2>8. CASE UseNextConn(r)
    BY <2>8
       DEF UseNextConn, devVars, netVars, procVars, histVars, TypeOK,
           SoloInv, OneGoroutine, PausedIdle, ReadsCurrent, NeverPausesAgain,
           Live
  <2>9. CASE RunExit(r)
    BY <2>9
       DEF RunExit, devVars, netVars, procVars, histVars, TypeOK, SoloInv,
           OneGoroutine, PausedIdle, ReadsCurrent, NeverPausesAgain, Live
  <2>10. CASE Block(r)
    BY <2>10
       DEF Block, devVars, netVars, procVars, histVars, TypeOK,
           SoloInv, OneGoroutine, PausedIdle, ReadsCurrent, NeverPausesAgain,
           Live
  <2>11. QED
    BY <1>2, <2>1, <2>2, <2>3, <2>4, <2>5, <2>6, <2>7, <2>8, <2>9, <2>10
       DEF RunNext
<1>3. CASE StopSet
  BY <1>3
     DEF StopSet, devVars, netVars, procVars, histVars, TypeOK, SoloInv,
         OneGoroutine, PausedIdle, ReadsCurrent, NeverPausesAgain, Live
<1>4. CASE StopClose
  BY <1>4
     DEF StopClose, devVars, netVars, procVars, histVars, TypeOK, SoloInv,
         OneGoroutine, PausedIdle, ReadsCurrent, NeverPausesAgain, Live
<1>5. CASE UNCHANGED vars
  BY <1>5
     DEF vars, devVars, netVars, procVars, histVars, TypeOK, SoloInv,
         OneGoroutine, PausedIdle, ReadsCurrent, NeverPausesAgain, Live
<1>6. QED
  BY <1>1, <1>2, <1>3, <1>4, <1>5 DEF Next

LEMMA SoloHolds == Spec => [](TypeOK /\ LoginInv /\ StampInv /\ SoloInv)
<1>1. TypeOK /\ LoginInv /\ StampInv /\ SoloInv /\ [Next]_vars
      => TypeOK' /\ LoginInv' /\ StampInv' /\ SoloInv'
  BY TypeNext, LoginNext, StampNext, SoloNext
<1>2. QED
  BY <1>1, TypeInit, LoginInit, StampInit, SoloInit, PTL DEF Spec

(* closeAndSetErr closes the connection that was read                      *)
(* (simplejson.go:89-92), unless two goroutines overlapped.                *)
THEOREM ReadsCurrentHolds == Spec => []ReadsCurrent
<1>1. SoloInv => ReadsCurrent
  BY DEF SoloInv
<1>2. QED
  BY <1>1, SoloHolds, PTL

(* A device that was handed a second connection pauses in three cases only *)
(* (simplejson.go:110-116, 175-186).                                       *)
THEOREM NeverPausesAgainHolds == Spec => []NeverPausesAgain
<1>1. SoloInv => NeverPausesAgain
  BY DEF SoloInv
<1>2. QED
  BY <1>1, SoloHolds, PTL

-----------------------------------------------------------------------------
(* What happens to connections nobody can reach any more.                  *)

(* A goroutine that left run() has closed the device's connection.         *)
LeftClosed ==
    \A r \in Conn : rpc[r] \in {"check", "swap", "exit"} => c \notin open

(* The connection of a paused device is over, or new.                      *)
PausedClosed == runningState = "paused" => c \notin open \/ c \notin taken

(* A connection that was read and is current no more is closed.            *)
TakenClosed == \A k \in taken : k = c \/ k \notin open

Reachable ==
    \A k \in Conn :
        stamp[k] > 0 /\ k \in open /\ k \notin {c, c_next} => k \in superseded

ReachInv == ~overlapped => LeftClosed /\ PausedClosed /\ TakenClosed /\ Reachable

LEMMA ReachInit == Init => ReachInv
BY JsonAssumption DEF Init, ReachInv, LeftClosed, PausedClosed, TakenClosed, Reachable

LEMMA ReachNext ==
    ASSUME TypeOK, LoginInv, StampInv, SoloInv, ReachInv, [Next]_vars
    PROVE  ReachInv'
<1>1. ASSUME NEW k \in Conn, HandlerNext(k) PROVE ReachInv'
  <2>1. CASE Run(k)
    BY <2>1
       DEF Run, devVars, netVars, procVars, histVars, TypeOK, ReachInv,
           LeftClosed, PausedClosed, TakenClosed, Reachable
  <2>2. CASE Spawn(k)
    BY <2>2
       DEF Spawn, devVars, netVars, procVars, histVars, TypeOK, ReachInv,
           LeftClosed, PausedClosed, TakenClosed, Reachable
  <2>3. CASE AddDevice(k)
    BY <2>3
       DEF AddDevice, devVars, netVars, procVars, histVars, TypeOK, ReachInv,
           LeftClosed, PausedClosed, TakenClosed, Reachable
  <2>4. CASE Login(k)
    <3>1. stamp[k] = 0 /\ c # k /\ k \notin taken
      BY <2>4 DEF Login, TypeOK, StampInv, Stamped, HeldStamped
    <3>2. QED
      BY <2>4, <3>1 DEF Login, devVars, histVars, TypeOK, ReachInv, LeftClosed,
             PausedClosed, TakenClosed, Reachable
  <2>5. CASE ReplaceConn(k)
    <3>1. SUFFICES ASSUME ~overlapped
                   PROVE  (LeftClosed /\ PausedClosed /\ TakenClosed /\ Reachable)'
      BY <2>5 DEF ReplaceConn, ReachInv
    <3>2. UNCHANGED <<runningState, rpc, taken, open>> /\ stamp[k] = 0 /\ k \notin taken
      BY <2>5 DEF ReplaceConn, netVars, TypeOK, StampInv, Stamped, HeldStamped
    <3>3. CASE runningState = "running"
      <4>1. c' = c /\ c_next' = k /\ Given(k)
        BY <2>5, <3>3 DEF ReplaceConn
      <4>2. LeftClosed' /\ PausedClosed' /\ TakenClosed'
        BY <3>1, <3>2, <4>1 DEF ReachInv, LeftClosed, PausedClosed, TakenClosed
      <4>3. Reachable'
        BY <3>1, <3>2, <4>1 DEF Given, TypeOK, ReachInv, TakenClosed, Reachable
      <4>4. QED
        BY <4>2, <4>3
    <3>4. CASE runningState = "paused"
      <4>1. c' = k /\ c_next' = c_next /\ Given(k)
        BY <2>5, <3>4 DEF ReplaceConn
      <4>2. LeftClosed' /\ PausedClosed'
        BY <3>1, <3>2, <3>4, <4>1 DEF SoloInv, PausedIdle, LeftClosed, PausedClosed
      <4>3. TakenClosed'
        BY <3>1, <3>2, <3>4, <4>1 DEF ReachInv, PausedClosed, TakenClosed
      <4>4. Reachable'
        <5>1. SUFFICES ASSUME NEW j \in Conn, stamp'[j] > 0, j \in open, j # k, j # c_next
                       PROVE  j \in superseded'
          BY <3>2, <4>1 DEF Reachable
        <5>2. stamp[j] > 0
          BY <4>1, <5>1 DEF Given, TypeOK
        <5>3. CASE j = c
          BY <3>1, <3>4, <4>1, <5>1, <5>2, <5>3 DEF Given, ReachInv, PausedClosed
        <5>4. CASE j # c
          BY <3>1, <4>1, <5>1, <5>2, <5>4 DEF Given, ReachInv, Reachable
        <5>5. QED
          BY <5>3, <5>4
      <4>5. QED
        BY <4>2, <4>3, <4>4
    <3>5. runningState \in {"running", "paused"}
      BY <2>5, JsonAssumption DEF ReplaceConn, TypeOK, LoginInv, FirstMakes,
             FoundRegistered, Registered, CreatedIsNew
    <3>6. QED
      BY <3>3, <3>4, <3>5
  <2>6. CASE CloseReplaced(k)
    BY <2>6
       DEF CloseReplaced, devVars, netVars, procVars, histVars, TypeOK,
           ReachInv, LeftClosed, PausedClosed, TakenClosed, Reachable
  <2>7. QED
    BY <1>1, <2>1, <2>2, <2>3, <2>4, <2>5, <2>6 DEF HandlerNext
<1>2. ASSUME NEW r \in Conn, RunNext(r) PROVE ReachInv'
  <2>1. CASE RunStart(r)
    BY <2>1
       DEF RunStart, devVars, netVars, procVars, histVars, TypeOK, ReachInv,
           LeftClosed, PausedClosed, TakenClosed, Reachable
  <2>2. CASE BeginRead(r)
    <3>1. ~overlapped => runningState # "paused"
      BY <2>2 DEF BeginRead, SoloInv, PausedIdle
    <3>2. QED
      BY <2>2, <3>1 DEF BeginRead, devVars, netVars, TypeOK, ReachInv, LeftClosed,
             PausedClosed, TakenClosed, Reachable
  <2>3. CASE ReadOK(r)
    BY <2>3
       DEF ReadOK, devVars, netVars, procVars, histVars, TypeOK, ReachInv,
           LeftClosed, PausedClosed, TakenClosed, Reachable
  <2>4. CASE ReadError(r)
    BY <2>4
       DEF ReadError, closeAndSetErr, devVars, netVars, procVars, histVars,
           TypeOK, ReachInv, LeftClosed, PausedClosed, TakenClosed, Reachable
  <2>5. CASE HandleMessage(r)
    BY <2>5
       DEF HandleMessage, devVars, netVars, procVars, histVars, TypeOK,
           ReachInv, LeftClosed, PausedClosed, TakenClosed, Reachable
  <2>6. CASE BadMessage(r)
    <3>1. open' \subseteq open /\ UNCHANGED <<devVars, histVars>>
      BY <2>6 DEF BadMessage, closeAndSetErr, devVars
    <3>2. LeftClosed => LeftClosed'
      BY <2>6, <3>1 DEF BadMessage, TypeOK, LeftClosed, devVars
    <3>3. QED
      BY <3>1, <3>2 DEF devVars, histVars, ReachInv, PausedClosed, TakenClosed, Reachable
  <2>7. CASE CheckStopped(r)
    BY <2>7
       DEF CheckStopped, devVars, netVars, procVars, histVars, TypeOK,
           ReachInv, LeftClosed, PausedClosed, TakenClosed, Reachable
  <2>8. CASE UseNextConn(r)
    <3>1. SUFFICES ASSUME ~overlapped
                   PROVE  (LeftClosed /\ PausedClosed /\ TakenClosed /\ Reachable)'
      BY <2>8 DEF UseNextConn, histVars, ReachInv
    <3>2. /\ rpc[r] = "swap" /\ c \notin open /\ runningState # "paused"
          /\ UNCHANGED <<c_next, runningState, open, histVars>>
      BY <2>8, <3>1 DEF UseNextConn, netVars, ReachInv, LeftClosed, SoloInv, PausedIdle
    <3>3. CASE c_next = nil
      BY <2>8, <3>1, <3>2, <3>3 DEF UseNextConn, histVars, TypeOK, ReachInv,
             LeftClosed, PausedClosed, TakenClosed, Reachable
    <3>4. CASE c_next # nil
      <4>1. c' = c_next /\ rpc' = [rpc EXCEPT ![r] = "read"]
        BY <2>8, <3>4 DEF UseNextConn
      <4>2. LeftClosed'
        BY <3>1, <3>2, <4>1 DEF TypeOK, LeftClosed, SoloInv, OneGoroutine, Live
      <4>3. PausedClosed' /\ TakenClosed' /\ Reachable'
        BY <3>1, <3>2, <4>1 DEF histVars, ReachInv, PausedClosed, TakenClosed, Reachable
      <4>4. QED
        BY <4>2, <4>3
    <3>5. QED
      BY <3>3, <3>4
  <2>9. CASE RunExit(r)
    BY <2>9
       DEF RunExit, devVars, netVars, procVars, histVars, TypeOK, ReachInv,
           LeftClosed, PausedClosed, TakenClosed, Reachable
  <2>10. CASE Block(r)
    BY <2>10
       DEF Block, devVars, netVars, procVars, histVars, TypeOK,
           ReachInv, LeftClosed, PausedClosed, TakenClosed, Reachable
  <2>11. QED
    BY <1>2, <2>1, <2>2, <2>3, <2>4, <2>5, <2>6, <2>7, <2>8, <2>9, <2>10
       DEF RunNext
<1>3. CASE StopSet
  BY <1>3
     DEF StopSet, devVars, netVars, procVars, histVars, TypeOK, ReachInv,
         LeftClosed, PausedClosed, TakenClosed, Reachable
<1>4. CASE StopClose
  BY <1>4
     DEF StopClose, devVars, netVars, procVars, histVars, TypeOK, ReachInv,
         LeftClosed, PausedClosed, TakenClosed, Reachable
<1>5. CASE UNCHANGED vars
  BY <1>5
     DEF vars, devVars, netVars, procVars, histVars, TypeOK, ReachInv,
         LeftClosed, PausedClosed, TakenClosed, Reachable
<1>6. QED
  BY <1>1, <1>2, <1>3, <1>4, <1>5 DEF Next

LEMMA ReachHolds == Spec => [](TypeOK /\ LoginInv /\ StampInv /\ SoloInv /\ ReachInv)
<1>1. TypeOK /\ LoginInv /\ StampInv /\ SoloInv /\ ReachInv /\ [Next]_vars
      => TypeOK' /\ LoginInv' /\ StampInv' /\ SoloInv' /\ ReachInv'
  BY TypeNext, LoginNext, StampNext, SoloNext, ReachNext
<1>2. QED
  BY <1>1, TypeInit, LoginInit, StampInit, SoloInit, ReachInit, PTL DEF Spec

(* A connection is left open and out of reach only when the next one came  *)
(* before it was read, or after an overlap (simplejson.go:120-134).        *)
THEOREM OrphansSupersededHolds == Spec => []OrphansSuperseded
<1>1. TypeOK /\ StampInv /\ ReachInv => OrphansSuperseded
  BY DEF TypeOK, StampInv, Stamped, ReachInv, Reachable, OrphansSuperseded, Orphan
<1>2. QED
  BY <1>1, ReachHolds, PTL

-----------------------------------------------------------------------------
(* The order of what is stored.                                            *)

StoredBefore == stored # nil => stamp[stored] > 0 /\ stamp[stored] =< stamp[c]

(* A device pauses with a connection in c_next only when it is stopped.    *)
PausedStopped == runningState = "paused" /\ c_next # nil => stopped

(* What use_next_conn takes was not handed over before what it leaves.     *)
NextIsLater ==
    c_next # nil =>
        \/ stamp[c] =< stamp[c_next]
        \/ stopped /\ \A r \in Conn : rpc[r] # "swap"

ForwardInv ==
    ~late /\ ~overlapped => StoredBefore /\ PausedStopped /\ NextIsLater

LEMMA ForwardInit == Init => ForwardInv
BY DEF Init, ForwardInv, StoredBefore, PausedStopped, NextIsLater

LEMMA ForwardNext ==
    ASSUME TypeOK, LoginInv, StampInv, SoloInv, ForwardInv, [Next]_vars
    PROVE  ForwardInv'
<1>1. ASSUME NEW k \in Conn, HandlerNext(k) PROVE ForwardInv'
  <2>1. CASE Run(k)
    BY <2>1
       DEF Run, devVars, netVars, procVars, histVars, TypeOK, ForwardInv,
           StoredBefore, PausedStopped, NextIsLater
  <2>2. CASE Spawn(k)
    BY <2>2
       DEF Spawn, devVars, netVars, procVars, histVars, TypeOK, ForwardInv,
           StoredBefore, PausedStopped, NextIsLater
  <2>3. CASE AddDevice(k)
    BY <2>3
       DEF AddDevice, devVars, netVars, procVars, histVars, TypeOK,
           ForwardInv, StoredBefore, PausedStopped, NextIsLater
  <2>4. CASE Login(k)
    BY <2>4
       DEF Login, devVars, netVars, procVars, histVars, TypeOK, ForwardInv,
           StoredBefore, PausedStopped, NextIsLater
  <2>5. CASE ReplaceConn(k)
    <3>0. (late => late') /\ overlapped' = overlapped
      BY <2>5 DEF ReplaceConn, TypeOK
    <3>1. SUFFICES ASSUME ~late, ~overlapped
                   PROVE  (StoredBefore /\ PausedStopped /\ NextIsLater)'
      BY <3>0, Zenon DEF ForwardInv
    <3>2. /\ UNCHANGED <<runningState, stopped, rpc, stored>>
          /\ StoredBefore /\ PausedStopped /\ NextIsLater
          /\ c \in Conn /\ c # k /\ c_next # k /\ stored # k
          /\ clock \in Nat /\ stamp \in [Conn -> Nat] /\ stamp[c] =< clock
      BY <2>5, <3>1, JsonAssumption DEF ReplaceConn, netVars, TypeOK, StampInv,
             Stamped, HeldStamped, ForwardInv, StoredBefore
    <3>3. runningState \in {"running", "paused"}
      BY <2>5, JsonAssumption DEF ReplaceConn, TypeOK, LoginInv, FirstMakes,
             FoundRegistered, Registered, CreatedIsNew
    <3>4. stamp' = [stamp EXCEPT ![k] = clock + 1]
      BY <2>5, <3>3 DEF ReplaceConn, Given
    <3>5. CASE runningState = "running"
      <4>1. c' = c /\ c_next' = k
        BY <2>5, <3>5 DEF ReplaceConn
      <4>2. QED
        BY <3>2, <3>4, <3>5, <4>1 DEF TypeOK, StoredBefore, PausedStopped, NextIsLater
    <3>6. CASE runningState = "paused"
      <4>1. c' = k /\ c_next' = c_next
        BY <2>5, <3>6 DEF ReplaceConn
      <4>2. StoredBefore'
        BY <3>2, <3>4, <4>1 DEF TypeOK, StampInv, Stamped, StoredBefore
      <4>3. PausedStopped'
        BY <3>2, <4>1 DEF PausedStopped
      <4>4. NextIsLater'
        BY <3>1, <3>2, <3>6, <4>1 DEF PausedStopped, NextIsLater, SoloInv, PausedIdle
      <4>5. QED
        BY <4>2, <4>3, <4>4
    <3>7. QED
      BY <3>3, <3>5, <3>6
  <2>6. CASE CloseReplaced(k)
    BY <2>6
       DEF CloseReplaced, devVars, netVars, procVars, histVars, TypeOK,
           ForwardInv, StoredBefore, PausedStopped, NextIsLater
  <2>7. QED
    BY <1>1, <2>1, <2>2, <2>3, <2>4, <2>5, <2>6 DEF HandlerNext
<1>2. ASSUME NEW r \in Conn, RunNext(r) PROVE ForwardInv'
  <2>1. CASE RunStart(r)
    BY <2>1
       DEF RunStart, devVars, netVars, procVars, histVars, TypeOK,
           ForwardInv, StoredBefore, PausedStopped, NextIsLater
  <2>2. CASE BeginRead(r)
    BY <2>2
       DEF BeginRead, devVars, netVars, procVars, histVars, TypeOK,
           ForwardInv, StoredBefore, PausedStopped, NextIsLater
  <2>3. CASE ReadOK(r)
    BY <2>3
       DEF ReadOK, devVars, netVars, procVars, histVars, TypeOK, ForwardInv,
           StoredBefore, PausedStopped, NextIsLater
  <2>4. CASE ReadError(r)
    BY <2>4
       DEF ReadError, closeAndSetErr, devVars, netVars, procVars, histVars,
           TypeOK, ForwardInv, StoredBefore, PausedStopped, NextIsLater
  <2>5. CASE HandleMessage(r)
    <3>1. overlapped \/ rconn[r] = c
      BY <2>5 DEF HandleMessage, SoloInv, ReadsCurrent
    <3>2. QED
      BY <2>5, <3>1 DEF HandleMessage, devVars, histVars, TypeOK, StampInv,
             HeldStamped, ForwardInv, StoredBefore, PausedStopped, NextIsLater
  <2>6. CASE BadMessage(r)
    BY <2>6
       DEF BadMessage, closeAndSetErr, devVars, netVars, procVars, histVars,
           TypeOK, ForwardInv, StoredBefore, PausedStopped, NextIsLater
  <2>7. CASE CheckStopped(r)
    BY <2>7
       DEF CheckStopped, devVars, netVars, procVars, histVars, TypeOK,
           ForwardInv, StoredBefore, PausedStopped, NextIsLater
  <2>8. CASE UseNextConn(r)
    <3>0. late' = late /\ overlapped' = overlapped
      BY <2>8 DEF UseNextConn, histVars
    <3>1. SUFFICES ASSUME ~late, ~overlapped
                   PROVE  (StoredBefore /\ PausedStopped /\ NextIsLater)'
      BY <3>0, Zenon DEF ForwardInv
    <3>2. /\ UNCHANGED <<c_next, runningState, stopped, stored, stamp>>
          /\ StoredBefore /\ PausedStopped /\ NextIsLater /\ rpc[r] = "swap"
      BY <2>8, <3>1 DEF UseNextConn, netVars, histVars, ForwardInv
    <3>3. CASE c_next = nil
      BY <2>8, <3>2, <3>3 DEF UseNextConn, StoredBefore, PausedStopped, NextIsLater
    <3>4. CASE c_next # nil
      <4>1. c' = c_next /\ stamp[c] =< stamp[c_next]
        BY <2>8, <3>2, <3>4 DEF UseNextConn, NextIsLater
      <4>2. c \in Conn /\ c_next \in Conn /\ stamp \in [Conn -> Nat] /\ stored \in Conn \cup {nil}
        BY <3>4 DEF TypeOK
      <4>3. QED
        BY <3>2, <4>1, <4>2 DEF StoredBefore, PausedStopped, NextIsLater
    <3>5. QED
      BY <3>3, <3>4
  <2>9. CASE RunExit(r)
    <3>1. late \/ overlapped \/ (c_next # nil => stopped)
      BY <2>9 DEF RunExit, SoloInv, NeverPausesAgain
    <3>2. StoredBefore => StoredBefore'
      BY <2>9 DEF RunExit, netVars, histVars, StoredBefore
    <3>3. (c_next # nil => stopped) => PausedStopped'
      BY <2>9 DEF RunExit, PausedStopped
    <3>4. NextIsLater => NextIsLater'
      BY <2>9 DEF RunExit, histVars, TypeOK, NextIsLater
    <3>5. late' = late /\ overlapped' = overlapped
      BY <2>9 DEF RunExit, histVars
    <3>6. QED
      BY <3>1, <3>2, <3>3, <3>4, <3>5, Zenon DEF ForwardInv
  <2>10. CASE Block(r)
    BY <2>10
       DEF Block, devVars, netVars, procVars, histVars, TypeOK,
           ForwardInv, StoredBefore, PausedStopped, NextIsLater
  <2>11. QED
    BY <1>2, <2>1, <2>2, <2>3, <2>4, <2>5, <2>6, <2>7, <2>8, <2>9, <2>10
       DEF RunNext
<1>3. CASE StopSet
  BY <1>3
     DEF StopSet, devVars, netVars, procVars, histVars, TypeOK, ForwardInv,
         StoredBefore, PausedStopped, NextIsLater
<1>4. CASE StopClose
  BY <1>4
     DEF StopClose, devVars, netVars, procVars, histVars, TypeOK, ForwardInv,
         StoredBefore, PausedStopped, NextIsLater
<1>5. CASE UNCHANGED vars
  BY <1>5
     DEF vars, devVars, netVars, procVars, histVars, TypeOK, ForwardInv,
         StoredBefore, PausedStopped, NextIsLater
<1>6. QED
  BY <1>1, <1>2, <1>3, <1>4, <1>5 DEF Next

LEMMA ForwardHolds ==
    Spec => [](TypeOK /\ LoginInv /\ StampInv /\ SoloInv /\ ForwardInv)
<1>1. TypeOK /\ LoginInv /\ StampInv /\ SoloInv /\ ForwardInv /\ [Next]_vars
      => TypeOK' /\ LoginInv' /\ StampInv' /\ SoloInv' /\ ForwardInv'
  BY TypeNext, LoginNext, StampNext, SoloNext, ForwardNext
<1>2. QED
  BY <1>1, TypeInit, LoginInit, StampInit, SoloInit, ForwardInit, PTL DEF Spec

(* Only HandleMessage stores, and it stores what was read from c.          *)
LEMMA StoresCurrent ==
    ASSUME TypeOK, SoloInv, [Next]_vars, stored' # stored
    PROVE  overlapped \/ (stored' = c /\ UNCHANGED <<stamp, late, overlapped>>)
<1>1. PICK r \in Conn : HandleMessage(r)
  BY DEF Next, HandlerNext, RunNext, Run, Spawn, AddDevice, Login, ReplaceConn,
     CloseReplaced, StopSet, StopClose, RunStart, BeginRead, ReadOK, ReadError,
     Block, BadMessage, CheckStopped, UseNextConn, RunExit, vars, netVars
<1>2. QED
  BY <1>1 DEF HandleMessage, histVars, SoloInv, ReadsCurrent

(* Locations are stored in the order in which their connections were       *)
(* handed over, with the two exceptions the property names                 *)
(* (simplejson.go:106-118, 234-236).                                       *)
THEOREM StoredForwardHolds == Spec => StoredForward
<1>1. TypeOK /\ StampInv /\ SoloInv /\ ForwardInv /\ [Next]_vars
      => [stored' # stored /\ stored # nil
             => stamp[stored'] > stamp[stored] \/ late \/ overlapped]_vars
  <2>1. SUFFICES ASSUME TypeOK, StampInv, SoloInv, ForwardInv, [Next]_vars,
                        stored' # stored, stored # nil, ~late, ~overlapped
                 PROVE  stamp[stored'] > stamp[stored]
    OBVIOUS
  <2>2. stored' = c /\ stored \in Conn /\ c \in Conn /\ stamp \in [Conn -> Nat]
    BY <2>1, StoresCurrent DEF TypeOK
  <2>3. stamp[stored] > 0 /\ stamp[stored] =< stamp[c]
    BY <2>1 DEF ForwardInv, StoredBefore
  <2>4. stamp[stored] # stamp[c]
    BY <2>1, <2>2, <2>3 DEF StampInv, Stamped
  <2>5. QED
    BY <2>2, <2>3, <2>4
<1>2. QED
  BY <1>1, ForwardHolds, PTL DEF StoredForward, Spec
=============================================================================
