--------------------------- MODULE GT06ConnProofs ---------------------------
(***************************************************************************)
(* Proofs about GT06Conn, for every set of connections, devices and        *)
(* callers of the API.                                                     *)
(***************************************************************************)
EXTENDS GT06Conn, TLAPS

(* A goroutine inside use_next_conn holds c_next_mu, and there is a        *)
(* connection to take.                                                     *)
SwapHolds ==
    \A r \in Conn : rpc[r] \in {"lock_c", "swapping"}
        => c_next_mu[rdev[r]] = r /\ c_next[rdev[r]] # nil

TypeInv == TypeOK /\ SwapHolds

LEMMA TypeInit == Init => TypeInv
BY ConnAssumption DEF ApiHolds, Init, TypeInv, TypeOK, SwapHolds, Token, Writer

LEMMA TypeStep ==
    ASSUME TypeInv, [Next]_vars
    PROVE  TypeInv'
<1> USE ConnAssumption DEF ApiHolds, TypeInv, TypeOK, SwapHolds, Token, Writer
<1>1. ASSUME NEW r \in Conn, RunStart(r) PROVE TypeInv'
  BY <1>1 DEF RunStart, lockVars
<1>2. ASSUME NEW r \in Conn, RunRLock(r) PROVE TypeInv'
  BY <1>2 DEF RunRLock, devVars
<1>3. ASSUME NEW r \in Conn, ReadTimeout(r) PROVE TypeInv'
  BY <1>3 DEF ReadTimeout, devVars, lockVars
<1>4. ASSUME NEW r \in Conn, PingRLock(r) PROVE TypeInv'
  BY <1>4 DEF PingRLock, devVars
<1>5. ASSUME NEW r \in Conn, PingOK(r) PROVE TypeInv'
  BY <1>5 DEF PingOK, devVars
<1>6. ASSUME NEW r \in Conn, PingError(r) PROVE TypeInv'
  BY <1>6 DEF PingError, devVars
<1>7. ASSUME NEW r \in Conn, ReadError(r) PROVE TypeInv'
  BY <1>7 DEF ReadError, devVars, lockVars
<1>8. ASSUME NEW r \in Conn, RunReturn(r) PROVE TypeInv'
  BY <1>8 DEF RunReturn, devVars
<1>9. ASSUME NEW r \in Conn, CheckStopped(r) PROVE TypeInv'
  BY <1>9 DEF CheckStopped, devVars, lockVars
<1>10. ASSUME NEW r \in Conn, UseNextConn(r) PROVE TypeInv'
  <2>1. CASE c_next[rdev[r]] = nil
    BY <1>10, <2>1 DEF UseNextConn, devVars
  <2>2. CASE c_next[rdev[r]] # nil
    <3>1. rdev[r] \in Device /\ rdev' = rdev /\ c_next' = c_next
      BY <1>10, <2>2 DEF UseNextConn, devVars
    <3>2. /\ rpc' = [rpc EXCEPT ![r] = "lock_c"]
          /\ c_next_mu' = [c_next_mu EXCEPT ![rdev[r]] = r]
          /\ c_next_mu[rdev[r]] = nil
      BY <1>10, <2>2 DEF UseNextConn, devVars
    <3>3. TypeOK'
      BY <1>10, <2>2, <3>1, <3>2 DEF UseNextConn, devVars
    <3>4. SwapHolds'
      BY <2>2, <3>1, <3>2
    <3> QED BY <3>3, <3>4
  <2> QED BY <2>1, <2>2
<1>11. ASSUME NEW r \in Conn, SwapLock(r) PROVE TypeInv'
  BY <1>11 DEF SwapLock, devVars
<1>12. ASSUME NEW r \in Conn, Swap(r) PROVE TypeInv'
  BY <1>12 DEF Swap
<1>13. ASSUME NEW r \in Conn, RunExit(r) PROVE TypeInv'
  BY <1>13 DEF RunExit, lockVars
<1>14. ASSUME NEW k \in Conn, Login(k) PROVE TypeInv'
  BY <1>14 DEF Login, devVars, lockVars
<1>15. ASSUME NEW k \in Conn, ReplaceConn(k) PROVE TypeInv'
  BY <1>15 DEF ReplaceConn, devVars
<1>16. ASSUME NEW k \in Conn, SetNextConn(k) PROVE TypeInv'
  BY <1>16 DEF SetNextConn
<1>17. ASSUME NEW k \in Conn, CloseReplaced(k) PROVE TypeInv'
  BY <1>17 DEF CloseReplaced, devVars, lockVars
<1>18. ASSUME NEW k \in Conn, SetConnLock(k) PROVE TypeInv'
  BY <1>18 DEF SetConnLock, devVars
<1>19. ASSUME NEW k \in Conn, SetConn(k) PROVE TypeInv'
  BY <1>19 DEF SetConn
<1>20. ASSUME NEW k \in Conn, Spawn(k) PROVE TypeInv'
  BY <1>20 DEF Spawn, devVars, lockVars
<1>21. ASSUME NEW d \in Device, StopSet(d) PROVE TypeInv'
  BY <1>21 DEF StopSet, lockVars
<1>22. ASSUME NEW d \in Device, StopClose(d) PROVE TypeInv'
  BY <1>22 DEF StopClose, devVars, lockVars
<1>23. ASSUME NEW a \in Api, ApiRLock(a) PROVE TypeInv'
  BY <1>23 DEF ApiRLock, devVars
<1>24. ASSUME NEW a \in Api, ApiRUnlock(a) PROVE TypeInv'
  BY <1>24 DEF ApiRUnlock, devVars
<1>26. ASSUME NEW r \in Conn, Disconnect(r) PROVE TypeInv'
  BY <1>26 DEF Disconnect, devVars, lockVars
<1>27. ASSUME NEW r \in Conn, ResponseError(r) PROVE TypeInv'
  BY <1>27 DEF ResponseError, devVars, lockVars
<1>28. ASSUME NEW r \in Conn, Block(r) PROVE TypeInv'
  BY <1>28 DEF Block, devVars, lockVars
<1>29. ASSUME NEW a \in Api, ApiBlock(a) PROVE TypeInv'
  BY <1>29 DEF ApiBlock, devVars, lockVars
<1>25. CASE UNCHANGED vars
  BY <1>25 DEF vars, devVars, lockVars, procVars
<1> QED BY <1>1, <1>2, <1>3, <1>4, <1>5, <1>6, <1>7, <1>8, <1>9, <1>10,
           <1>11, <1>12, <1>13, <1>14, <1>15, <1>16, <1>17, <1>18, <1>19,
           <1>20, <1>21, <1>22, <1>23, <1>24, <1>25, <1>26, <1>27, <1>28,
           <1>29 DEF Next, RunNext, HandlerNext

(* The type invariant of the connection lifecycle: the lock holders, the   *)
(* program counters and the connection pointers of gt06.go:61-85 keep      *)
(* their types; in particular use_next_conn (gt06.go:318-331) never makes  *)
(* a nil connection current.                                               *)
THEOREM TypeCorrect == Spec => []TypeOK
<1>1. Init => TypeInv
  BY TypeInit
<1>2. TypeInv /\ [Next]_vars => TypeInv'
  BY TypeStep
<1>3. TypeInv => TypeOK
  BY DEF TypeInv
<1> QED BY <1>1, <1>2, <1>3, PTL DEF Spec
-----------------------------------------------------------------------------
(* run() and the callers of the API hold their read lock.                  *)
ReadHeld ==
    /\ \A r \in Conn : InRun(r) => <<"run", r>> \in readers[rdev[r]]
    /\ \A a \in Api : ApiHolds(a) => <<"api", a>> \in readers[adev[a]]

(* A handler spawns its goroutine last.                                    *)
SpawnedLast == \A k \in Conn : hpc[k] # "returned" => rpc[k] = "none"

LockInv == ReadHeld /\ SpawnedLast

LEMMA LockInit == Init => LockInv
BY ConnAssumption DEF ApiHolds, Init, LockInv, ReadHeld, SpawnedLast, InRun

LEMMA LockStep ==
    ASSUME TypeInv, LockInv, [Next]_vars
    PROVE  LockInv'
<1> USE ConnAssumption DEF ApiHolds, TypeInv, TypeOK, LockInv, ReadHeld, SpawnedLast, InRun
<1>1. ASSUME NEW r \in Conn, RunStart(r) PROVE LockInv'
  BY <1>1 DEF RunStart, lockVars
<1>2. ASSUME NEW r \in Conn, RunRLock(r) PROVE LockInv'
  BY <1>2 DEF RunRLock, devVars
<1>3. ASSUME NEW r \in Conn, ReadTimeout(r) PROVE LockInv'
  BY <1>3 DEF ReadTimeout, devVars, lockVars
<1>4. ASSUME NEW r \in Conn, PingRLock(r) PROVE LockInv'
  BY <1>4 DEF PingRLock, devVars
<1>5. ASSUME NEW r \in Conn, PingOK(r) PROVE LockInv'
  BY <1>5 DEF PingOK, devVars
<1>6. ASSUME NEW r \in Conn, PingError(r) PROVE LockInv'
  BY <1>6 DEF PingError, devVars
<1>7. ASSUME NEW r \in Conn, ReadError(r) PROVE LockInv'
  BY <1>7 DEF ReadError, devVars, lockVars
<1>8. ASSUME NEW r \in Conn, RunReturn(r) PROVE LockInv'
  BY <1>8 DEF RunReturn, devVars
<1>9. ASSUME NEW r \in Conn, CheckStopped(r) PROVE LockInv'
  BY <1>9 DEF CheckStopped, devVars, lockVars
<1>10. ASSUME NEW r \in Conn, UseNextConn(r) PROVE LockInv'
  BY <1>10 DEF UseNextConn, devVars
<1>11. ASSUME NEW r \in Conn, SwapLock(r) PROVE LockInv'
  BY <1>11 DEF SwapLock, devVars
<1>12. ASSUME NEW r \in Conn, Swap(r) PROVE LockInv'
  BY <1>12 DEF Swap
<1>13. ASSUME NEW r \in Conn, RunExit(r) PROVE LockInv'
  BY <1>13 DEF RunExit, lockVars
<1>14. ASSUME NEW k \in Conn, Login(k) PROVE LockInv'
  BY <1>14 DEF Login, devVars, lockVars
<1>15. ASSUME NEW k \in Conn, ReplaceConn(k) PROVE LockInv'
  BY <1>15 DEF ReplaceConn, devVars
<1>16. ASSUME NEW k \in Conn, SetNextConn(k) PROVE LockInv'
  BY <1>16 DEF SetNextConn
<1>17. ASSUME NEW k \in Conn, CloseReplaced(k) PROVE LockInv'
  BY <1>17 DEF CloseReplaced, devVars, lockVars
<1>18. ASSUME NEW k \in Conn, SetConnLock(k) PROVE LockInv'
  BY <1>18 DEF SetConnLock, devVars
<1>19. ASSUME NEW k \in Conn, SetConn(k) PROVE LockInv'
  BY <1>19 DEF SetConn
<1>20. ASSUME NEW k \in Conn, Spawn(k) PROVE LockInv'
  BY <1>20 DEF Spawn, devVars, lockVars
<1>21. ASSUME NEW d \in Device, StopSet(d) PROVE LockInv'
  BY <1>21 DEF StopSet, lockVars
<1>22. ASSUME NEW d \in Device, StopClose(d) PROVE LockInv'
  BY <1>22 DEF StopClose, devVars, lockVars
<1>23. ASSUME NEW a \in Api, ApiRLock(a) PROVE LockInv'
  BY <1>23 DEF ApiRLock, devVars
<1>24. ASSUME NEW a \in Api, ApiRUnlock(a) PROVE LockInv'
  BY <1>24 DEF ApiRUnlock, devVars
<1>26. ASSUME NEW r \in Conn, Disconnect(r) PROVE LockInv'
  BY <1>26 DEF Disconnect, devVars, lockVars
<1>27. ASSUME NEW r \in Conn, ResponseError(r) PROVE LockInv'
  BY <1>27 DEF ResponseError, devVars, lockVars
<1>28. ASSUME NEW r \in Conn, Block(r) PROVE LockInv'
  BY <1>28 DEF Block, devVars, lockVars
<1>29. ASSUME NEW a \in Api, ApiBlock(a) PROVE LockInv'
  BY <1>29 DEF ApiBlock, devVars, lockVars
<1>25. CASE UNCHANGED vars
  BY <1>25 DEF vars, devVars, lockVars, procVars
<1> QED BY <1>1, <1>2, <1>3, <1>4, <1>5, <1>6, <1>7, <1>8, <1>9, <1>10,
           <1>11, <1>12, <1>13, <1>14, <1>15, <1>16, <1>17, <1>18, <1>19,
           <1>20, <1>21, <1>22, <1>23, <1>24, <1>25, <1>26, <1>27, <1>28,
           <1>29 DEF Next, RunNext, HandlerNext

LEMMA LockCorrect == Spec => [](TypeInv /\ LockInv)
<1>1. Init => TypeInv /\ LockInv
  BY TypeInit, LockInit
<1>2. TypeInv /\ LockInv /\ [Next]_vars => (TypeInv /\ LockInv)'
  BY TypeStep, LockStep
<1> QED BY <1>1, <1>2, PTL DEF Spec

(* gt06.c is exchanged only while nobody holds a read lock.                *)
LEMMA ExchangeStep ==
    ASSUME TypeInv, [Next]_vars, NEW e \in Device, c'[e] # c[e]
    PROVE  readers[e] = {}
<1> USE ConnAssumption DEF ApiHolds, TypeInv, TypeOK
<1>1. ASSUME NEW r \in Conn, RunStart(r) PROVE readers[e] = {}
  BY <1>1 DEF RunStart, lockVars
<1>2. ASSUME NEW r \in Conn, RunRLock(r) PROVE readers[e] = {}
  BY <1>2 DEF RunRLock, devVars
<1>3. ASSUME NEW r \in Conn, ReadTimeout(r) PROVE readers[e] = {}
  BY <1>3 DEF ReadTimeout, devVars, lockVars
<1>4. ASSUME NEW r \in Conn, PingRLock(r) PROVE readers[e] = {}
  BY <1>4 DEF PingRLock, devVars
<1>5. ASSUME NEW r \in Conn, PingOK(r) PROVE readers[e] = {}
  BY <1>5 DEF PingOK, devVars
<1>6. ASSUME NEW r \in Conn, PingError(r) PROVE readers[e] = {}
  BY <1>6 DEF PingError, devVars
<1>7. ASSUME NEW r \in Conn, ReadError(r) PROVE readers[e] = {}
  BY <1>7 DEF ReadError, devVars, lockVars
<1>8. ASSUME NEW r \in Conn, RunReturn(r) PROVE readers[e] = {}
  BY <1>8 DEF RunReturn, devVars
<1>9. ASSUME NEW r \in Conn, CheckStopped(r) PROVE readers[e] = {}
  BY <1>9 DEF CheckStopped, devVars, lockVars
<1>10. ASSUME NEW r \in Conn, UseNextConn(r) PROVE readers[e] = {}
  BY <1>10 DEF UseNextConn, devVars
<1>11. ASSUME NEW r \in Conn, SwapLock(r) PROVE readers[e] = {}
  BY <1>11 DEF SwapLock, devVars
<1>12. ASSUME NEW r \in Conn, Swap(r) PROVE readers[e] = {}
  BY <1>12 DEF Swap
<1>13. ASSUME NEW r \in Conn, RunExit(r) PROVE readers[e] = {}
  BY <1>13 DEF RunExit, lockVars
<1>14. ASSUME NEW k \in Conn, Login(k) PROVE readers[e] = {}
  BY <1>14 DEF Login, devVars, lockVars
<1>15. ASSUME NEW k \in Conn, ReplaceConn(k) PROVE readers[e] = {}
  BY <1>15 DEF ReplaceConn, devVars
<1>16. ASSUME NEW k \in Conn, SetNextConn(k) PROVE readers[e] = {}
  BY <1>16 DEF SetNextConn
<1>17. ASSUME NEW k \in Conn, CloseReplaced(k) PROVE readers[e] = {}
  BY <1>17 DEF CloseReplaced, devVars, lockVars
<1>18. ASSUME NEW k \in Conn, SetConnLock(k) PROVE readers[e] = {}
  BY <1>18 DEF SetConnLock, devVars
<1>19. ASSUME NEW k \in Conn, SetConn(k) PROVE readers[e] = {}
  BY <1>19 DEF SetConn
<1>20. ASSUME NEW k \in Conn, Spawn(k) PROVE readers[e] = {}
  BY <1>20 DEF Spawn, devVars, lockVars
<1>21. ASSUME NEW d \in Device, StopSet(d) PROVE readers[e] = {}
  BY <1>21 DEF StopSet, lockVars
<1>22. ASSUME NEW d \in Device, StopClose(d) PROVE readers[e] = {}
  BY <1>22 DEF StopClose, devVars, lockVars
<1>23. ASSUME NEW a \in Api, ApiRLock(a) PROVE readers[e] = {}
  BY <1>23 DEF ApiRLock, devVars
<1>24. ASSUME NEW a \in Api, ApiRUnlock(a) PROVE readers[e] = {}
  BY <1>24 DEF ApiRUnlock, devVars
<1>26. ASSUME NEW r \in Conn, Disconnect(r) PROVE readers[e] = {}
  BY <1>26 DEF Disconnect, devVars, lockVars
<1>27. ASSUME NEW r \in Conn, ResponseError(r) PROVE readers[e] = {}
  BY <1>27 DEF ResponseError, devVars, lockVars
<1>28. ASSUME NEW r \in Conn, Block(r) PROVE readers[e] = {}
  BY <1>28 DEF Block, devVars, lockVars
<1>29. ASSUME NEW a \in Api, ApiBlock(a) PROVE readers[e] = {}
  BY <1>29 DEF ApiBlock, devVars, lockVars
<1>25. CASE UNCHANGED vars
  BY <1>25 DEF vars, devVars, lockVars, procVars
<1> QED BY <1>1, <1>2, <1>3, <1>4, <1>5, <1>6, <1>7, <1>8, <1>9, <1>10,
           <1>11, <1>12, <1>13, <1>14, <1>15, <1>16, <1>17, <1>18, <1>19,
           <1>20, <1>21, <1>22, <1>23, <1>24, <1>25, <1>26, <1>27, <1>28,
           <1>29 DEF Next, RunNext, HandlerNext
(* While a goroutine is inside run() the connection of its device is not   *)
(* exchanged under it: run() never writes a response to, or closes, a      *)
(* connection it did not read the frame from (gt06.go:463, 312-331).       *)
THEOREM ConnStableHolds == Spec => ConnStable
<1>1. TypeInv /\ LockInv /\ [Next]_vars
        => [\A r \in Conn :
              InRun(r) /\ InRun(r)' => c'[rdev[r]] = c[rdev[r]]]_vars
  <2> SUFFICES ASSUME TypeInv, LockInv, [Next]_vars,
                      NEW r \in Conn, InRun(r)
               PROVE  c'[rdev[r]] = c[rdev[r]]
    OBVIOUS
  <2>1. rdev[r] \in Device /\ readers[rdev[r]] # {}
    BY DEF TypeInv, TypeOK, LockInv, ReadHeld, InRun
  <2> QED BY <2>1, ExchangeStep
<1> QED BY <1>1, LockCorrect, PTL DEF Spec, ConnStable

(* SendCommand and CurrentConnInfo use one connection from RLock to        *)
(* RUnlock (gt06.go:287-303, 455-459).                                     *)
THEOREM ApiConnStableHolds == Spec => ApiConnStable
<1>1. TypeInv /\ LockInv /\ [Next]_vars
        => [\A a \in Api :
              ApiHolds(a) /\ ApiHolds(a)'
                 => c'[adev[a]] = c[adev[a]]]_vars
  <2> SUFFICES ASSUME TypeInv, LockInv, [Next]_vars,
                      NEW a \in Api, ApiHolds(a)
               PROVE  c'[adev[a]] = c[adev[a]]
    OBVIOUS
  <2>1. adev[a] \in Device /\ readers[adev[a]] # {}
    BY DEF TypeInv, TypeOK, LockInv, ReadHeld
  <2> QED BY <2>1, ExchangeStep
<1> QED BY <1>1, LockCorrect, PTL DEF Spec, ApiConnStable

-----------------------------------------------------------------------------
(* A connection becomes current only through its own handler, which has    *)
(* got past the point where it decides so.                                 *)
CurrentSet ==
    \A d \in Device :
        hdev[c[d]] = d /\ hpc[c[d]] \in {"close", "spawn", "returned"}

(* The same for the waiting connection, which is another and is open.      *)
PendingSet ==
    \A d \in Device : c_next[d] # nil =>
        /\ hdev[c_next[d]] = d
        /\ hpc[c_next[d]] \in {"close", "returned"}
        /\ c_next[d] # c[d]
        /\ c_next[d] \in open

(* A connection that is neither current nor waiting yet is open.           *)
NewIsOpen ==
    \A k \in Conn :
        hpc[k] \in {"replace", "set_next", "set_conn", "setting"} => k \in open

PointerInv == CurrentSet /\ PendingSet /\ NewIsOpen /\ RunEndsClosed

LEMMA PointerInit == Init => PointerInv
BY ConnAssumption DEF Init, PointerInv, CurrentSet, PendingSet, NewIsOpen,
                      RunEndsClosed

LEMMA PointerStep ==
    ASSUME TypeInv, LockInv, PointerInv, [Next]_vars
    PROVE  PointerInv'
<1> USE ConnAssumption DEF ApiHolds, TypeInv, TypeOK, SwapHolds, PointerInv, CurrentSet,
        PendingSet, NewIsOpen, RunEndsClosed
<1>1. ASSUME NEW r \in Conn, RunStart(r) PROVE PointerInv'
  BY <1>1 DEF RunStart, lockVars
<1>2. ASSUME NEW r \in Conn, RunRLock(r) PROVE PointerInv'
  BY <1>2 DEF RunRLock, devVars
<1>3. ASSUME NEW r \in Conn, ReadTimeout(r) PROVE PointerInv'
  BY <1>3 DEF ReadTimeout, devVars, lockVars
<1>4. ASSUME NEW r \in Conn, PingRLock(r) PROVE PointerInv'
  BY <1>4 DEF PingRLock, devVars
<1>5. ASSUME NEW r \in Conn, PingOK(r) PROVE PointerInv'
  BY <1>5 DEF PingOK, devVars
<1>6. ASSUME NEW r \in Conn, PingError(r) PROVE PointerInv'
  BY <1>6 DEF PingError, devVars
<1>7. ASSUME NEW r \in Conn, ReadError(r) PROVE PointerInv'
  <2>1. CurrentSet'
    BY <1>7 DEF ReadError, devVars, lockVars
  <2>2. PendingSet'
    BY <1>7 DEF ReadError, devVars, lockVars
  <2>3. NewIsOpen'
    BY <1>7 DEF ReadError, devVars, lockVars
  <2>4. RunEndsClosed'
    BY <1>7 DEF ReadError, devVars, lockVars
  <2> QED BY <2>1, <2>2, <2>3, <2>4
<1>8. ASSUME NEW r \in Conn, RunReturn(r) PROVE PointerInv'
  BY <1>8 DEF RunReturn, devVars
<1>9. ASSUME NEW r \in Conn, CheckStopped(r) PROVE PointerInv'
  BY <1>9 DEF CheckStopped, devVars, lockVars
<1>10. ASSUME NEW r \in Conn, UseNextConn(r) PROVE PointerInv'
  BY <1>10 DEF UseNextConn, devVars
<1>11. ASSUME NEW r \in Conn, SwapLock(r) PROVE PointerInv'
  BY <1>11 DEF SwapLock, devVars
<1>12. ASSUME NEW r \in Conn, Swap(r) PROVE PointerInv'
  <2>1. CurrentSet'
    BY <1>12 DEF Swap
  <2>2. PendingSet'
    BY <1>12 DEF Swap
  <2>3. NewIsOpen'
    BY <1>12 DEF Swap
  <2>4. RunEndsClosed'
    <3>1. readers[rdev[r]] = {} /\ rdev' = rdev /\ open' = open
      BY <1>12 DEF Swap
    <3>2. ASSUME NEW q \in Conn, rpc'[q] = "unlock"
          PROVE  rpc[q] = "unlock" /\ rdev[q] # rdev[r]
      <4>1. rpc[q] = "unlock"
        BY <1>12, <3>2 DEF Swap
      <4>2. <<"run", q>> \in readers[rdev[q]]
        BY <4>1 DEF LockInv, ReadHeld, InRun
      <4> QED BY <3>1, <4>1, <4>2
    <3> QED BY <1>12, <3>1, <3>2 DEF Swap
  <2> QED BY <2>1, <2>2, <2>3, <2>4
<1>13. ASSUME NEW r \in Conn, RunExit(r) PROVE PointerInv'
  BY <1>13 DEF RunExit, lockVars
<1>14. ASSUME NEW k \in Conn, Login(k) PROVE PointerInv'
  BY <1>14 DEF Login, devVars, lockVars
<1>15. ASSUME NEW k \in Conn, ReplaceConn(k) PROVE PointerInv'
  BY <1>15 DEF ReplaceConn, devVars
<1>16. ASSUME NEW k \in Conn, SetNextConn(k) PROVE PointerInv'
  BY <1>16 DEF SetNextConn
<1>17. ASSUME NEW k \in Conn, CloseReplaced(k) PROVE PointerInv'
  BY <1>17 DEF CloseReplaced, devVars, lockVars
<1>18. ASSUME NEW k \in Conn, SetConnLock(k) PROVE PointerInv'
  BY <1>18 DEF SetConnLock, devVars
<1>19. ASSUME NEW k \in Conn, SetConn(k) PROVE PointerInv'
  <2>1. CurrentSet'
    BY <1>19 DEF SetConn
  <2>2. PendingSet'
    BY <1>19 DEF SetConn
  <2>3. NewIsOpen'
    BY <1>19 DEF SetConn
  <2>4. RunEndsClosed'
    <3>1. readers[hdev[k]] = {} /\ rdev' = rdev /\ open' = open
      BY <1>19 DEF SetConn
    <3>2. ASSUME NEW q \in Conn, rpc'[q] = "unlock"
          PROVE  rpc[q] = "unlock" /\ rdev[q] # hdev[k]
      <4>1. rpc[q] = "unlock"
        BY <1>19, <3>2 DEF SetConn
      <4>2. <<"run", q>> \in readers[rdev[q]]
        BY <4>1 DEF LockInv, ReadHeld, InRun
      <4> QED BY <3>1, <4>1, <4>2
    <3> QED BY <1>19, <3>1, <3>2 DEF SetConn
  <2> QED BY <2>1, <2>2, <2>3, <2>4
<1>20. ASSUME NEW k \in Conn, Spawn(k) PROVE PointerInv'
  BY <1>20 DEF Spawn, devVars, lockVars
<1>21. ASSUME NEW d \in Device, StopSet(d) PROVE PointerInv'
  BY <1>21 DEF StopSet, lockVars
<1>22. ASSUME NEW d \in Device, StopClose(d) PROVE PointerInv'
  BY <1>22 DEF StopClose, devVars, lockVars
<1>23. ASSUME NEW a \in Api, ApiRLock(a) PROVE PointerInv'
  BY <1>23 DEF ApiRLock, devVars
<1>24. ASSUME NEW a \in Api, ApiRUnlock(a) PROVE PointerInv'
  BY <1>24 DEF ApiRUnlock, devVars
<1>26. ASSUME NEW r \in Conn, Disconnect(r) PROVE PointerInv'
  <2>1. CurrentSet'
    BY <1>26 DEF Disconnect, devVars, lockVars
  <2>2. PendingSet'
    BY <1>26 DEF Disconnect, devVars, lockVars
  <2>3. NewIsOpen'
    BY <1>26 DEF Disconnect, devVars, lockVars
  <2>4. RunEndsClosed'
    BY <1>26 DEF Disconnect, devVars, lockVars
  <2> QED BY <2>1, <2>2, <2>3, <2>4
<1>27. ASSUME NEW r \in Conn, ResponseError(r) PROVE PointerInv'
  <2>1. CurrentSet'
    BY <1>27 DEF ResponseError, devVars, lockVars
  <2>2. PendingSet'
    BY <1>27 DEF ResponseError, devVars, lockVars
  <2>3. NewIsOpen'
    BY <1>27 DEF ResponseError, devVars, lockVars
  <2>4. RunEndsClosed'
    BY <1>27 DEF ResponseError, devVars, lockVars
  <2> QED BY <2>1, <2>2, <2>3, <2>4
<1>28. ASSUME NEW r \in Conn, Block(r) PROVE PointerInv'
  BY <1>28 DEF Block, devVars, lockVars
<1>29. ASSUME NEW a \in Api, ApiBlock(a) PROVE PointerInv'
  BY <1>29 DEF ApiBlock, devVars, lockVars
<1>25. CASE UNCHANGED vars
  BY <1>25 DEF vars, devVars, lockVars, procVars
<1> QED BY <1>1, <1>2, <1>3, <1>4, <1>5, <1>6, <1>7, <1>8, <1>9, <1>10,
           <1>11, <1>12, <1>13, <1>14, <1>15, <1>16, <1>17, <1>18, <1>19,
           <1>20, <1>21, <1>22, <1>23, <1>24, <1>25, <1>26, <1>27, <1>28,
           <1>29 DEF Next, RunNext, HandlerNext

LEMMA PointerCorrect == Spec => [](TypeInv /\ LockInv /\ PointerInv)
<1>1. Init => TypeInv /\ LockInv /\ PointerInv
  BY TypeInit, LockInit, PointerInit
<1>2. TypeInv /\ LockInv /\ PointerInv /\ [Next]_vars
        => (TypeInv /\ LockInv /\ PointerInv)'
  BY TypeStep, LockStep, PointerStep
<1> QED BY <1>1, <1>2, PTL DEF Spec

(* No connection is closed while it waits in c_next, though ReplaceConn,   *)
(* Stop and run() close gt06.c without a lock that orders them with        *)
(* use_next_conn (gt06.go:165, 196, 339).                                  *)
THEOREM PendingIsWaitingHolds == Spec => []PendingIsWaiting
<1>1. PointerInv => PendingIsWaiting
  BY DEF PointerInv, PendingSet, PendingIsWaiting
<1> QED BY <1>1, PointerCorrect, PTL

(* A goroutine that leaves run() has closed the connection it served       *)
(* (gt06.go:477-490, 505, 512).                                            *)
THEOREM RunEndsClosedHolds == Spec => []RunEndsClosed
<1>1. PointerInv => RunEndsClosed
  BY DEF PointerInv
<1> QED BY <1>1, PointerCorrect, PTL
-----------------------------------------------------------------------------
(* Who holds rs_mu, and that ReplaceConn leaks it in state created only.   *)
StateHeld ==
    /\ \A k \in Conn : hpc[k] \in {"set_next", "set_conn", "setting"}
          => rs_mu[hdev[k]] = k
    /\ \A d \in Device : rs_mu[d] # nil =>
          /\ hdev[rs_mu[d]] = d
          /\ \/ hpc[rs_mu[d]] \in {"set_next", "set_conn", "setting"}
             \/ hpc[rs_mu[d]] = "returned" /\ runningState[d] = "created"

(* A device in state created has done nothing yet.                         *)
CreatedIsNew ==
    \A d \in Device : runningState[d] = "created" =>
        /\ c_next[d] = nil
        /\ \A r \in Conn : rdev[r] = d => rpc[r] = "start"
        /\ \A k \in Conn : hdev[k] = d =>
              hpc[k] \in {"login", "replace", "returned"}

(* The branch taken in ReplaceConn stays the right one while rs_mu is held. *)
PausedHeld ==
    \A k \in Conn : hpc[k] \in {"set_conn", "setting"}
        => runningState[hdev[k]] = "paused"

StateInv == StateHeld /\ CreatedIsNew /\ PausedHeld

LEMMA StateInit == Init => StateInv
BY ConnAssumption DEF Init, StateInv, StateHeld, CreatedIsNew, PausedHeld

LEMMA StateStep ==
    ASSUME TypeInv, LockInv, StateInv, [Next]_vars
    PROVE  StateInv'
<1> USE ConnAssumption DEF ApiHolds, TypeInv, TypeOK, LockInv, SpawnedLast, StateInv,
        StateHeld, CreatedIsNew, PausedHeld
<1>1. ASSUME NEW r \in Conn, RunStart(r) PROVE StateInv'
  BY <1>1 DEF RunStart, lockVars
<1>2. ASSUME NEW r \in Conn, RunRLock(r) PROVE StateInv'
  BY <1>2 DEF RunRLock, devVars
<1>3. ASSUME NEW r \in Conn, ReadTimeout(r) PROVE StateInv'
  BY <1>3 DEF ReadTimeout, devVars, lockVars
<1>4. ASSUME NEW r \in Conn, PingRLock(r) PROVE StateInv'
  BY <1>4 DEF PingRLock, devVars
<1>5. ASSUME NEW r \in Conn, PingOK(r) PROVE StateInv'
  BY <1>5 DEF PingOK, devVars
<1>6. ASSUME NEW r \in Conn, PingError(r) PROVE StateInv'
  BY <1>6 DEF PingError, devVars
<1>7. ASSUME NEW r \in Conn, ReadError(r) PROVE StateInv'
  BY <1>7 DEF ReadError, devVars, lockVars
<1>8. ASSUME NEW r \in Conn, RunReturn(r) PROVE StateInv'
  BY <1>8 DEF RunReturn, devVars
<1>9. ASSUME NEW r \in Conn, CheckStopped(r) PROVE StateInv'
  BY <1>9 DEF CheckStopped, devVars, lockVars
<1>10. ASSUME NEW r \in Conn, UseNextConn(r) PROVE StateInv'
  BY <1>10 DEF UseNextConn, devVars
<1>11. ASSUME NEW r \in Conn, SwapLock(r) PROVE StateInv'
  BY <1>11 DEF SwapLock, devVars
<1>12. ASSUME NEW r \in Conn, Swap(r) PROVE StateInv'
  BY <1>12 DEF Swap
<1>13. ASSUME NEW r \in Conn, RunExit(r) PROVE StateInv'
  BY <1>13 DEF RunExit, lockVars
<1>14. ASSUME NEW k \in Conn, Login(k) PROVE StateInv'
  BY <1>14 DEF Login, devVars, lockVars
<1>15. ASSUME NEW k \in Conn, ReplaceConn(k) PROVE StateInv'
  BY <1>15 DEF ReplaceConn, devVars
<1>16. ASSUME NEW k \in Conn, SetNextConn(k) PROVE StateInv'
  BY <1>16 DEF SetNextConn
<1>17. ASSUME NEW k \in Conn, CloseReplaced(k) PROVE StateInv'
  BY <1>17 DEF CloseReplaced, devVars, lockVars
<1>18. ASSUME NEW k \in Conn, SetConnLock(k) PROVE StateInv'
  BY <1>18 DEF SetConnLock, devVars
<1>19. ASSUME NEW k \in Conn, SetConn(k) PROVE StateInv'
  BY <1>19 DEF SetConn
<1>20. ASSUME NEW k \in Conn, Spawn(k) PROVE StateInv'
  BY <1>20 DEF Spawn, devVars, lockVars
<1>21. ASSUME NEW d \in Device, StopSet(d) PROVE StateInv'
  BY <1>21 DEF StopSet, lockVars
<1>22. ASSUME NEW d \in Device, StopClose(d) PROVE StateInv'
  BY <1>22 DEF StopClose, devVars, lockVars
<1>23. ASSUME NEW a \in Api, ApiRLock(a) PROVE StateInv'
  BY <1>23 DEF ApiRLock, devVars
<1>24. ASSUME NEW a \in Api, ApiRUnlock(a) PROVE StateInv'
  BY <1>24 DEF ApiRUnlock, devVars
<1>26. ASSUME NEW r \in Conn, Disconnect(r) PROVE StateInv'
  BY <1>26 DEF Disconnect, devVars, lockVars
<1>27. ASSUME NEW r \in Conn, ResponseError(r) PROVE StateInv'
  BY <1>27 DEF ResponseError, devVars, lockVars
<1>28. ASSUME NEW r \in Conn, Block(r) PROVE StateInv'
  BY <1>28 DEF Block, devVars, lockVars
<1>29. ASSUME NEW a \in Api, ApiBlock(a) PROVE StateInv'
  BY <1>29 DEF ApiBlock, devVars, lockVars
<1>25. CASE UNCHANGED vars
  BY <1>25 DEF vars, devVars, lockVars, procVars
<1> QED BY <1>1, <1>2, <1>3, <1>4, <1>5, <1>6, <1>7, <1>8, <1>9, <1>10,
           <1>11, <1>12, <1>13, <1>14, <1>15, <1>16, <1>17, <1>18, <1>19,
           <1>20, <1>21, <1>22, <1>23, <1>24, <1>25, <1>26, <1>27, <1>28,
           <1>29 DEF Next, RunNext, HandlerNext

LEMMA StateCorrect == Spec => [](TypeInv /\ LockInv /\ StateInv)
<1>1. Init => TypeInv /\ LockInv /\ StateInv
  BY TypeInit, LockInit, StateInit
<1>2. TypeInv /\ LockInv /\ StateInv /\ [Next]_vars
        => (TypeInv /\ LockInv /\ StateInv)'
  BY TypeStep, LockStep, StateStep
<1> QED BY <1>1, <1>2, PTL DEF Spec

(* The lock that ReplaceConn leaks in state created is the only one a      *)
(* returned login handler keeps, and then no goroutine of the device has   *)
(* passed or ever passes the first lines of _run (gt06.go:221, 334-346).   *)
THEOREM LeakOnlyBeforeStartHolds == Spec => []LeakOnlyBeforeStart
<1>1. TypeInv /\ StateInv => LeakOnlyBeforeStart
  BY ConnAssumption DEF TypeInv, TypeOK, StateInv, StateHeld, CreatedIsNew,
     LeakOnlyBeforeStart
<1> QED BY <1>1, StateCorrect, PTL

-----------------------------------------------------------------------------
(* Who waits for or holds c_mu.Lock.                                       *)
WriterIs ==
    \A d \in Device :
        /\ \A k \in Conn : c_writer[d] = <<"replace", k>> =>
              hpc[k] = "setting" /\ hdev[k] = d
        /\ \A r \in Conn : c_writer[d] = <<"run", r>> =>
              rpc[r] = "swapping" /\ rdev[r] = d

(* Without an overlap a device has one goroutine, and runningState says    *)
(* whether it is past its first lines.                                     *)
OneGoroutine ==
    \A d \in Device : ~overlapped[d] =>
        \A r \in Conn : rdev[r] = d /\ Live(r) =>
            /\ \A q \in Conn : rdev[q] = d /\ Live(q) => q = r
            /\ runningState[d] = "paused" => rpc[r] = "start"

OverlapInv == WriterIs /\ OneGoroutine

LEMMA OverlapInit == Init => OverlapInv
BY ConnAssumption DEF Init, OverlapInv, WriterIs, OneGoroutine, Live

(* use_next_conn moves the goroutine and nothing the overlap is about.     *)
LEMMA UseNextConnMoves ==
    ASSUME TypeOK, NEW r \in Conn, UseNextConn(r)
    PROVE  /\ rpc[r] = "swap" /\ rpc'[r] \in {"exit", "lock_c"}
           /\ \A q \in Conn \ {r} : rpc'[q] = rpc[q]
           /\ rdev' = rdev /\ runningState' = runningState
           /\ overlapped' = overlapped
BY DEF UseNextConn, devVars, TypeOK

LEMMA UseNextConnKeepsOne ==
    ASSUME TypeOK, OneGoroutine, NEW r \in Conn, UseNextConn(r)
    PROVE  OneGoroutine'
<1>1. /\ rpc[r] = "swap" /\ rpc'[r] \in {"exit", "lock_c"}
      /\ \A q \in Conn \ {r} : rpc'[q] = rpc[q]
      /\ rdev' = rdev /\ runningState' = runningState
      /\ overlapped' = overlapped
  BY UseNextConnMoves
<1>2. \A q \in Conn : Live(q)' => Live(q)
  BY <1>1 DEF Live
<1>3. \A q \in Conn : rpc[q] = "start" => rpc'[q] = "start"
  BY <1>1
<1> QED BY <1>1, <1>2, <1>3 DEF OneGoroutine

LEMMA OverlapStep ==
    ASSUME TypeInv, LockInv, StateInv, OverlapInv, [Next]_vars
    PROVE  OverlapInv'
<1> USE ConnAssumption DEF ApiHolds, TypeInv, TypeOK, Writer, LockInv, SpawnedLast,
        OverlapInv, WriterIs, OneGoroutine, Live
<1>1. ASSUME NEW r \in Conn, RunStart(r) PROVE OverlapInv'
  BY <1>1 DEF RunStart, lockVars
<1>2. ASSUME NEW r \in Conn, RunRLock(r) PROVE OverlapInv'
  BY <1>2 DEF RunRLock, devVars
<1>3. ASSUME NEW r \in Conn, ReadTimeout(r) PROVE OverlapInv'
  BY <1>3 DEF ReadTimeout, devVars, lockVars
<1>4. ASSUME NEW r \in Conn, PingRLock(r) PROVE OverlapInv'
  BY <1>4 DEF PingRLock, devVars
<1>5. ASSUME NEW r \in Conn, PingOK(r) PROVE OverlapInv'
  BY <1>5 DEF PingOK, devVars
<1>6. ASSUME NEW r \in Conn, PingError(r) PROVE OverlapInv'
  BY <1>6 DEF PingError, devVars
<1>7. ASSUME NEW r \in Conn, ReadError(r) PROVE OverlapInv'
  BY <1>7 DEF ReadError, devVars, lockVars
<1>8. ASSUME NEW r \in Conn, RunReturn(r) PROVE OverlapInv'
  BY <1>8 DEF RunReturn, devVars
<1>9. ASSUME NEW r \in Conn, CheckStopped(r) PROVE OverlapInv'
  BY <1>9 DEF CheckStopped, devVars, lockVars
<1>10. ASSUME NEW r \in Conn, UseNextConn(r) PROVE OverlapInv'
  <2>1. WriterIs'
    BY <1>10 DEF UseNextConn, devVars
  <2>2. OneGoroutine'
    BY <1>10, UseNextConnKeepsOne
  <2> QED BY <2>1, <2>2
<1>11. ASSUME NEW r \in Conn, SwapLock(r) PROVE OverlapInv'
  <2>1. WriterIs'
    BY <1>11 DEF SwapLock, devVars
  <2>2. OneGoroutine'
    <3>1. /\ rpc[r] = "lock_c" /\ rpc' = [rpc EXCEPT ![r] = "swapping"]
          /\ rdev' = rdev /\ runningState' = runningState
          /\ overlapped' = overlapped
      BY <1>11 DEF SwapLock, devVars
    <3> QED BY <3>1
  <2> QED BY <2>1, <2>2
<1>12. ASSUME NEW r \in Conn, Swap(r) PROVE OverlapInv'
  <2>1. WriterIs'
    <3>1. \A q \in Conn : nil # <<"replace", q>> /\ nil # <<"run", q>>
      OBVIOUS
    <3>2. /\ c_writer' = [c_writer EXCEPT ![rdev[r]] = nil]
          /\ hdev' = hdev /\ hpc' = hpc /\ rdev' = rdev
      BY <1>12 DEF Swap
    <3>3. ASSUME NEW d \in Device, c_writer'[d] # nil
          PROVE  d # rdev[r] /\ c_writer[d] = c_writer'[d]
      BY <1>12, <3>2, <3>3 DEF Swap
    <3>4. ASSUME NEW d \in Device, NEW q \in Conn, c_writer'[d] = <<"replace", q>>
          PROVE  hpc'[q] = "setting" /\ hdev'[q] = d
      <4>1. c_writer'[d] # nil
        BY <3>1, <3>4
      <4>2. d # rdev[r] /\ c_writer[d] = <<"replace", q>>
        BY <3>3, <3>4, <4>1
      <4>3. hpc[q] = "setting" /\ hdev[q] = d
        BY <4>2
      <4> QED BY <1>12, <3>2, <4>2, <4>3 DEF Swap
    <3>5. ASSUME NEW d \in Device, NEW q \in Conn, c_writer'[d] = <<"run", q>>
          PROVE  rpc'[q] = "swapping" /\ rdev'[q] = d
      <4>1. c_writer'[d] # nil
        BY <3>1, <3>5
      <4>2. d # rdev[r] /\ c_writer[d] = <<"run", q>>
        BY <3>3, <3>5, <4>1
      <4>3. rpc[q] = "swapping" /\ rdev[q] = d
        BY <4>2
      <4> QED BY <1>12, <3>2, <4>2, <4>3 DEF Swap
    <3> QED BY <3>4, <3>5
  <2>2. OneGoroutine'
    BY <1>12 DEF Swap
  <2> QED BY <2>1, <2>2
<1>13. ASSUME NEW r \in Conn, RunExit(r) PROVE OverlapInv'
  BY <1>13 DEF RunExit, lockVars
<1>14. ASSUME NEW k \in Conn, Login(k) PROVE OverlapInv'
  BY <1>14 DEF Login, devVars, lockVars
<1>15. ASSUME NEW k \in Conn, ReplaceConn(k) PROVE OverlapInv'
  BY <1>15 DEF ReplaceConn, devVars
<1>16. ASSUME NEW k \in Conn, SetNextConn(k) PROVE OverlapInv'
  BY <1>16 DEF SetNextConn
<1>17. ASSUME NEW k \in Conn, CloseReplaced(k) PROVE OverlapInv'
  BY <1>17 DEF CloseReplaced, devVars, lockVars
<1>18. ASSUME NEW k \in Conn, SetConnLock(k) PROVE OverlapInv'
  BY <1>18 DEF SetConnLock, devVars
<1>19. ASSUME NEW k \in Conn, SetConn(k) PROVE OverlapInv'
  <2>1. WriterIs'
    <3>1. \A q \in Conn : nil # <<"replace", q>> /\ nil # <<"run", q>>
      OBVIOUS
    <3>2. /\ c_writer' = [c_writer EXCEPT ![hdev[k]] = nil]
          /\ hdev' = hdev /\ rpc' = rpc /\ rdev' = rdev
      BY <1>19 DEF SetConn
    <3>3. ASSUME NEW d \in Device, c_writer'[d] # nil
          PROVE  d # hdev[k] /\ c_writer[d] = c_writer'[d]
      BY <1>19, <3>2, <3>3 DEF SetConn
    <3>4. ASSUME NEW d \in Device, NEW q \in Conn, c_writer'[d] = <<"replace", q>>
          PROVE  hpc'[q] = "setting" /\ hdev'[q] = d
      <4>1. c_writer'[d] # nil
        BY <3>1, <3>4
      <4>2. d # hdev[k] /\ c_writer[d] = <<"replace", q>>
        BY <3>3, <3>4, <4>1
      <4>3. hpc[q] = "setting" /\ hdev[q] = d
        BY <4>2
      <4> QED BY <1>19, <3>2, <4>2, <4>3 DEF SetConn
    <3>5. ASSUME NEW d \in Device, NEW q \in Conn, c_writer'[d] = <<"run", q>>
          PROVE  rpc'[q] = "swapping" /\ rdev'[q] = d
      <4>1. c_writer'[d] # nil
        BY <3>1, <3>5
      <4>2. d # hdev[k] /\ c_writer[d] = <<"run", q>>
        BY <3>3, <3>5, <4>1
      <4>3. rpc[q] = "swapping" /\ rdev[q] = d
        BY <4>2
      <4> QED BY <1>19, <3>2, <4>2, <4>3 DEF SetConn
    <3> QED BY <3>4, <3>5
  <2>2. OneGoroutine'
    BY <1>19 DEF SetConn
  <2> QED BY <2>1, <2>2
<1>20. ASSUME NEW k \in Conn, Spawn(k) PROVE OverlapInv'
  <2>1. WriterIs'
    BY <1>20 DEF Spawn, devVars, lockVars
  <2>2. OneGoroutine'
    <3>1. /\ rpc' = [rpc EXCEPT ![k] = "start"] /\ rpc[k] = "none"
          /\ rdev' = [rdev EXCEPT ![k] = hdev[k]] /\ hdev[k] \in Device
          /\ runningState' = runningState
      BY <1>20 DEF Spawn, devVars, lockVars
    <3>2. SUFFICES ASSUME NEW d \in Device, ~overlapped'[d],
                          NEW r \in Conn, rdev'[r] = d, Live(r)'
                   PROVE  /\ \A q \in Conn : rdev'[q] = d /\ Live(q)' => q = r
                          /\ runningState'[d] = "paused" => rpc'[r] = "start"
      OBVIOUS
    <3>3. ~overlapped[d]
      BY <1>20, <3>2 DEF Spawn, devVars, lockVars
    <3>4. CASE d = hdev[k]
      <4>1. overlapped'[d] = (overlapped[d]
                                \/ \E q \in Conn : rdev[q] = d /\ Live(q))
        BY <1>20, <3>4 DEF Spawn, devVars, lockVars
      <4>2. \A q \in Conn : ~(rdev[q] = d /\ Live(q))
        BY <3>2, <4>1
      <4> QED BY <3>1, <3>2, <4>2
    <3>5. CASE d # hdev[k]
      BY <3>1, <3>2, <3>3, <3>5
    <3> QED BY <3>4, <3>5
  <2> QED BY <2>1, <2>2
<1>21. ASSUME NEW d \in Device, StopSet(d) PROVE OverlapInv'
  BY <1>21 DEF StopSet, lockVars
<1>22. ASSUME NEW d \in Device, StopClose(d) PROVE OverlapInv'
  BY <1>22 DEF StopClose, devVars, lockVars
<1>23. ASSUME NEW a \in Api, ApiRLock(a) PROVE OverlapInv'
  BY <1>23 DEF ApiRLock, devVars
<1>24. ASSUME NEW a \in Api, ApiRUnlock(a) PROVE OverlapInv'
  BY <1>24 DEF ApiRUnlock, devVars
<1>26. ASSUME NEW r \in Conn, Disconnect(r) PROVE OverlapInv'
  BY <1>26 DEF Disconnect, devVars, lockVars
<1>27. ASSUME NEW r \in Conn, ResponseError(r) PROVE OverlapInv'
  BY <1>27 DEF ResponseError, devVars, lockVars
<1>28. ASSUME NEW r \in Conn, Block(r) PROVE OverlapInv'
  BY <1>28 DEF Block, devVars, lockVars
<1>29. ASSUME NEW a \in Api, ApiBlock(a) PROVE OverlapInv'
  BY <1>29 DEF ApiBlock, devVars, lockVars
<1>25. CASE UNCHANGED vars
  BY <1>25 DEF vars, devVars, lockVars, procVars
<1> QED BY <1>1, <1>2, <1>3, <1>4, <1>5, <1>6, <1>7, <1>8, <1>9, <1>10,
           <1>11, <1>12, <1>13, <1>14, <1>15, <1>16, <1>17, <1>18, <1>19,
           <1>20, <1>21, <1>22, <1>23, <1>24, <1>25, <1>26, <1>27, <1>28,
           <1>29 DEF Next, RunNext, HandlerNext

LEMMA OverlapCorrect == Spec => [](TypeInv /\ StateInv /\ OverlapInv)
<1>1. Init => TypeInv /\ LockInv /\ StateInv /\ OverlapInv
  BY TypeInit, LockInit, StateInit, OverlapInit
<1>2. TypeInv /\ LockInv /\ StateInv /\ OverlapInv /\ [Next]_vars
        => (TypeInv /\ LockInv /\ StateInv /\ OverlapInv)'
  BY TypeStep, LockStep, StateStep, OverlapStep
<1> QED BY <1>1, <1>2, PTL DEF Spec

(* No writer waits behind a goroutine that serves a connection unless the  *)
(* device had two goroutines, which two logins in state paused can cause:  *)
(* without that, the second RLock of _send_command cannot deadlock         *)
(* (gt06.go:287, 341-344, 481).                                            *)
THEOREM BlockedOnlyAfterOverlapHolds == Spec => []BlockedOnlyAfterOverlap
<1>1. TypeInv /\ StateInv /\ OverlapInv => BlockedOnlyAfterOverlap
  <2> SUFFICES ASSUME TypeInv, StateInv, OverlapInv, NEW d \in Device,
                      ~overlapped[d], c_writer[d] # nil,
                      NEW r \in Conn, rdev[r] = d, InRun(r)
               PROVE  FALSE
    BY DEF BlockedOnlyAfterOverlap, Blocked
  <2>1. Live(r) /\ rpc[r] \notin {"start", "swapping"}
    BY DEF InRun, Live
  <2>2. c_writer[d] \in Writer
    BY DEF TypeInv, TypeOK
  <2>3. CASE \E k \in Conn : c_writer[d] = <<"replace", k>>
    <3>1. runningState[d] = "paused"
      BY <2>3 DEF OverlapInv, WriterIs, StateInv, PausedHeld
    <3> QED BY <2>1, <3>1 DEF OverlapInv, OneGoroutine
  <2>4. CASE \E q \in Conn : c_writer[d] = <<"run", q>>
    <3>1. PICK q \in Conn : rpc[q] = "swapping" /\ rdev[q] = d
      BY <2>4 DEF OverlapInv, WriterIs
    <3>2. Live(q)
      BY <3>1 DEF Live
    <3> QED BY <2>1, <3>1, <3>2 DEF OverlapInv, OneGoroutine
  <2> QED BY <2>2, <2>3, <2>4 DEF Writer
<1> QED BY <1>1, OverlapCorrect, PTL
=============================================================================
