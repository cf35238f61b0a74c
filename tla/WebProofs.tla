----------------------------- MODULE WebProofs ------------------------------
(***************************************************************************)
(* Proofs about the web side: about WebSession for any number of logins,   *)
(* changes of the password and calls, and about Webstream for any number   *)
(* of trackers, clients, publications and messages, and any limit.  The    *)
(* two modules share no variable.                                          *)
(***************************************************************************)
EXTENDS WebSession, Webstream, TLAPS

-----------------------------------------------------------------------------
(* WebSession                                                              *)

(* The tables and the requests' local variables have their types.          *)
LEMMA WebTypeInit == WebInit => WebTypeOK
<1> SUFFICES ASSUME WebInit PROVE WebTypeOK
  OBVIOUS
<1>1. 0 \in 0..MaxPwd
  BY WebAssumption
<1>2. /\ password \in 0..MaxPwd
      /\ lpwd \in [Sess -> 0..MaxPwd] /\ lhash \in [Sess -> 0..MaxPwd]
      /\ cpwd \in [Change -> 0..MaxPwd] /\ chash \in [Change -> 0..MaxPwd]
  BY <1>1 DEF WebInit
<1>3. QED
  BY <1>2 DEF WebInit, WebTypeOK

LEMMA WebTypeNext ==
    ASSUME WebTypeOK, [WebNext]_webVars
    PROVE  WebTypeOK'
<1>1. ASSUME NEW s \in Sess, LoginStep(s) \/ Logout(s) \/ Expire(s) PROVE WebTypeOK'
  <2>1. ASSUME NEW pwd \in 0..MaxPwd, LoginSelect(s, pwd) PROVE WebTypeOK'
    BY <2>1, WebAssumption
       DEF LoginSelect, userVars, tableVars, loginVars, changeVars, callVars,
           WebTypeOK
  <2>2. CASE LoginCompare(s)
    BY <2>2, WebAssumption
       DEF LoginCompare, userVars, tableVars, loginVars, changeVars,
           callVars, WebTypeOK
  <2>3. CASE LoginInsert(s)
    BY <2>3, WebAssumption
       DEF LoginInsert, userVars, tableVars, loginVars, changeVars, callVars,
           WebTypeOK
  <2>4. CASE LoginFails(s)
    BY <2>4, WebAssumption
       DEF LoginFails, userVars, tableVars, loginVars, changeVars, callVars,
           WebTypeOK
  <2>5. CASE Logout(s)
    BY <2>5, WebAssumption
       DEF Logout, userVars, tableVars, loginVars, changeVars, callVars,
           WebTypeOK
  <2>6. CASE Expire(s)
    BY <2>6, WebAssumption
       DEF Expire, userVars, tableVars, loginVars, changeVars, callVars,
           WebTypeOK
  <2>7. QED
    BY <1>1, <2>1, <2>2, <2>3, <2>4, <2>5, <2>6 DEF LoginStep
<1>2. ASSUME NEW c \in Change, ChangeStep(c) PROVE WebTypeOK'
  <2>1. ASSUME NEW s \in Sess, NEW pwd \in 0..MaxPwd, ChangeBegin(c, s, pwd)
        PROVE  WebTypeOK'
    BY <2>1, WebAssumption
       DEF ChangeBegin, Valid, userVars, tableVars, loginVars, changeVars,
           callVars, WebTypeOK
  <2>2. ASSUME NEW s \in Sess, ChangeRefused(c, s) PROVE WebTypeOK'
    BY <2>2, WebAssumption
       DEF ChangeRefused, Valid, userVars, tableVars, loginVars, changeVars,
           callVars, WebTypeOK
  <2>3. CASE ChangeUpdate(c)
    BY <2>3, WebAssumption
       DEF ChangeUpdate, userVars, tableVars, loginVars, changeVars,
           callVars, WebTypeOK
  <2>4. CASE ChangeDelete(c)
    BY <2>4, WebAssumption
       DEF ChangeDelete, userVars, tableVars, loginVars, changeVars,
           callVars, WebTypeOK
  <2>5. CASE ChangeCommit(c)
    <3>1. password' \in 0..MaxPwd
      BY <2>5, WebAssumption DEF ChangeCommit, WebTypeOK
    <3>2. session' \in SUBSET Sess /\ overlapped' \in SUBSET Sess
      BY <2>5 DEF ChangeCommit, WebTypeOK
    <3>3. cpc' \in [Change -> {"idle", "compare", "delete", "commit", "done"}]
      BY <2>5 DEF ChangeCommit, WebTypeOK
    <3>4. rowlock' \in Change \cup {none} /\ require_change_pwd' \in BOOLEAN
      BY <2>5 DEF ChangeCommit
    <3>5. QED
      BY <2>5, <3>1, <3>2, <3>3, <3>4
         DEF ChangeCommit, loginVars, callVars, WebTypeOK
  <2>6. CASE ChangeRollback(c)
    BY <2>6, WebAssumption
       DEF ChangeRollback, userVars, tableVars, loginVars, changeVars,
           callVars, WebTypeOK
  <2>7. QED
    BY <1>2, <2>1, <2>2, <2>3, <2>4, <2>5, <2>6 DEF ChangeStep
<1>3. ASSUME NEW k \in Call, CallStep(k) PROVE WebTypeOK'
  <2>1. ASSUME NEW s \in Sess, CallCheck(k, s) PROVE WebTypeOK'
    BY <2>1, WebAssumption
       DEF CallCheck, Valid, userVars, tableVars, loginVars, changeVars,
           callVars, WebTypeOK
  <2>2. CASE CallFunction(k)
    BY <2>2, WebAssumption
       DEF CallFunction, userVars, tableVars, loginVars, changeVars,
           callVars, WebTypeOK
  <2>3. CASE CreateWsToken(k)
    BY <2>3, WebAssumption
       DEF CreateWsToken, userVars, tableVars, loginVars, changeVars,
           callVars, WebTypeOK
  <2>4. CASE OpenStream(k)
    BY <2>4, WebAssumption
       DEF OpenStream, Valid, userVars, tableVars, loginVars, changeVars,
           callVars, WebTypeOK
  <2>5. QED
    BY <1>3, <2>1, <2>2, <2>3, <2>4 DEF CallStep
<1>4. ASSUME NEW all \in BOOLEAN, PurgeSession(all) PROVE WebTypeOK'
  BY <1>4, WebAssumption
     DEF PurgeSession, userVars, tableVars, loginVars, changeVars, callVars,
         WebTypeOK
<1>5. CASE SetSuspendFlag
  BY <1>5, WebAssumption
     DEF SetSuspendFlag, userVars, tableVars, loginVars, changeVars,
         callVars, WebTypeOK
<1>6. CASE UNCHANGED webVars
  BY <1>6, WebAssumption
     DEF webVars, userVars, tableVars, loginVars, changeVars, callVars, WebTypeOK
<1>7. QED
  BY <1>1, <1>2, <1>3, <1>4, <1>5, <1>6 DEF WebNext

(* Columns, program counters and what a request holds keep their types     *)
(* (login.go:31-38, changepwd.go:24-25, dispatcher.go:78-81).              *)
THEOREM WebTypeCorrect == WebSpec => []WebTypeOK
BY WebTypeInit, WebTypeNext, PTL DEF WebSpec

-----------------------------------------------------------------------------
(* One transaction at a time has the user's row, and while it has it the   *)
(* row is the one it read.                                                 *)

InTransaction(c) == cpc[c] \in {"compare", "delete", "commit"}

OneHolder == \A c \in Change : InTransaction(c) <=> rowlock = c

ReadStillTrue ==
    \A c \in Change :
        /\ InTransaction(c) => chash[c] = password /\ ~suspend_login
        /\ cpc[c] \in {"delete", "commit"} => cpwd[c] = password

RowInv == OneHolder /\ ReadStillTrue

LEMMA RowInit == WebInit => RowInv
BY WebAssumption DEF WebInit, RowInv, OneHolder, ReadStillTrue, InTransaction

LEMMA RowNext ==
    ASSUME WebTypeOK, RowInv, [WebNext]_webVars
    PROVE  RowInv'
<1>1. ASSUME NEW s \in Sess, LoginStep(s) \/ Logout(s) \/ Expire(s) PROVE RowInv'
  <2>1. ASSUME NEW pwd \in 0..MaxPwd, LoginSelect(s, pwd) PROVE RowInv'
    BY <2>1, WebAssumption
       DEF LoginSelect, userVars, tableVars, loginVars, changeVars, callVars,
           WebTypeOK, RowInv, OneHolder, ReadStillTrue, InTransaction
  <2>2. CASE LoginCompare(s)
    BY <2>2, WebAssumption
       DEF LoginCompare, userVars, tableVars, loginVars, changeVars,
           callVars, WebTypeOK, RowInv, OneHolder, ReadStillTrue, InTransaction
  <2>3. CASE LoginInsert(s)
    BY <2>3, WebAssumption
       DEF LoginInsert, userVars, tableVars, loginVars, changeVars, callVars,
           WebTypeOK, RowInv, OneHolder, ReadStillTrue, InTransaction
  <2>4. CASE LoginFails(s)
    BY <2>4, WebAssumption
       DEF LoginFails, userVars, tableVars, loginVars, changeVars, callVars,
           WebTypeOK, RowInv, OneHolder, ReadStillTrue, InTransaction
  <2>5. CASE Logout(s)
    BY <2>5, WebAssumption
       DEF Logout, userVars, tableVars, loginVars, changeVars, callVars,
           WebTypeOK, RowInv, OneHolder, ReadStillTrue, InTransaction
  <2>6. CASE Expire(s)
    BY <2>6, WebAssumption
       DEF Expire, userVars, tableVars, loginVars, changeVars, callVars,
           WebTypeOK, RowInv, OneHolder, ReadStillTrue, InTransaction
  <2>7. QED
    BY <1>1, <2>1, <2>2, <2>3, <2>4, <2>5, <2>6 DEF LoginStep
<1>2. ASSUME NEW c \in Change, ChangeStep(c) PROVE RowInv'
  <2>1. ASSUME NEW s \in Sess, NEW pwd \in 0..MaxPwd, ChangeBegin(c, s, pwd)
        PROVE  RowInv'
    BY <2>1, WebAssumption
       DEF ChangeBegin, Valid, userVars, tableVars, loginVars, changeVars,
           callVars, WebTypeOK, RowInv, OneHolder, ReadStillTrue, InTransaction
  <2>2. ASSUME NEW s \in Sess, ChangeRefused(c, s) PROVE RowInv'
    BY <2>2, WebAssumption
       DEF ChangeRefused, Valid, userVars, tableVars, loginVars, changeVars,
           callVars, WebTypeOK, RowInv, OneHolder, ReadStillTrue, InTransaction
  <2>3. CASE ChangeUpdate(c)
    BY <2>3, WebAssumption
       DEF ChangeUpdate, userVars, tableVars, loginVars, changeVars,
           callVars, WebTypeOK, RowInv, OneHolder, ReadStillTrue, InTransaction
  <2>4. CASE ChangeDelete(c)
    BY <2>4, WebAssumption
       DEF ChangeDelete, userVars, tableVars, loginVars, changeVars,
           callVars, WebTypeOK, RowInv, OneHolder, ReadStillTrue, InTransaction
  <2>5. CASE ChangeCommit(c)
    BY <2>5, WebAssumption
       DEF ChangeCommit, userVars, tableVars, loginVars, changeVars,
           callVars, WebTypeOK, RowInv, OneHolder, ReadStillTrue, InTransaction
  <2>6. CASE ChangeRollback(c)
    BY <2>6, WebAssumption
       DEF ChangeRollback, userVars, tableVars, loginVars, changeVars,
           callVars, WebTypeOK, RowInv, OneHolder, ReadStillTrue, InTransaction
  <2>7. QED
    BY <1>2, <2>1, <2>2, <2>3, <2>4, <2>5, <2>6 DEF ChangeStep
<1>3. ASSUME NEW k \in Call, CallStep(k) PROVE RowInv'
  <2>1. ASSUME NEW s \in Sess, CallCheck(k, s) PROVE RowInv'
    BY <2>1, WebAssumption
       DEF CallCheck, Valid, userVars, tableVars, loginVars, changeVars,
           callVars, WebTypeOK, RowInv, OneHolder, ReadStillTrue, InTransaction
  <2>2. CASE CallFunction(k)
    BY <2>2, WebAssumption
       DEF CallFunction, userVars, tableVars, loginVars, changeVars,
           callVars, WebTypeOK, RowInv, OneHolder, ReadStillTrue, InTransaction
  <2>3. CASE CreateWsToken(k)
    BY <2>3, WebAssumption
       DEF CreateWsToken, userVars, tableVars, loginVars, changeVars,
           callVars, WebTypeOK, RowInv, OneHolder, ReadStillTrue, InTransaction
  <2>4. CASE OpenStream(k)
    BY <2>4, WebAssumption
       DEF OpenStream, Valid, userVars, tableVars, loginVars, changeVars,
           callVars, WebTypeOK, RowInv, OneHolder, ReadStillTrue, InTransaction
  <2>5. QED
    BY <1>3, <2>1, <2>2, <2>3, <2>4 DEF CallStep
<1>4. ASSUME NEW all \in BOOLEAN, PurgeSession(all) PROVE RowInv'
  BY <1>4, WebAssumption
     DEF PurgeSession, userVars, tableVars, loginVars, changeVars, callVars,
         WebTypeOK, RowInv, OneHolder, ReadStillTrue, InTransaction
<1>5. CASE SetSuspendFlag
  BY <1>5, WebAssumption
     DEF SetSuspendFlag, userVars, tableVars, loginVars, changeVars,
         callVars, WebTypeOK, RowInv, OneHolder, ReadStillTrue, InTransaction
<1>6. CASE UNCHANGED webVars
  BY <1>6, WebAssumption
     DEF webVars, userVars, tableVars, loginVars, changeVars, callVars, WebTypeOK,
         RowInv, OneHolder, ReadStillTrue, InTransaction
<1>7. QED
  BY <1>1, <1>2, <1>3, <1>4, <1>5, <1>6 DEF WebNext

LEMMA RowHolds == WebSpec => [](WebTypeOK /\ RowInv)
<1>1. WebTypeOK /\ RowInv /\ [WebNext]_webVars => WebTypeOK' /\ RowInv'
  BY WebTypeNext, RowNext
<1>2. QED
  BY <1>1, WebTypeInit, RowInit, PTL DEF WebSpec

(* Only a commit replaces the password.                                    *)
LEMMA OnlyCommitReplaces ==
    ASSUME [WebNext]_webVars, password' # password
    PROVE  \E c \in Change : ChangeCommit(c)
BY DEF WebNext, LoginStep, ChangeStep, CallStep, LoginSelect, LoginCompare,
   LoginInsert, LoginFails, Logout, Expire, ChangeBegin, ChangeRefused,
   ChangeUpdate, ChangeDelete, ChangeRollback, CallCheck, CallFunction,
   CreateWsToken, OpenStream, PurgeSession, SetSuspendFlag, webVars, userVars

(* The password that is replaced is the one the request gave, and its user *)
(* is not suspended: the row stays locked from FOR UPDATE to Commit        *)
(* (changepwd.go:33-79).                                                   *)
THEOREM ReplacesKnownHolds == WebSpec => ReplacesKnown
<1>1. WebTypeOK /\ RowInv /\ [WebNext]_webVars
      => [password' # password
            => /\ ~suspend_login
               /\ \E c \in Change : cpc[c] = "commit" /\ cpc'[c] = "done" /\ cpwd[c] = password]_webVars
  <2>1. SUFFICES ASSUME WebTypeOK, RowInv, [WebNext]_webVars, password' # password
                 PROVE  /\ ~suspend_login
                        /\ \E c \in Change : cpc[c] = "commit" /\ cpc'[c] = "done" /\ cpwd[c] = password
    OBVIOUS
  <2>2. PICK c \in Change : ChangeCommit(c)
    BY <2>1, OnlyCommitReplaces
  <2>3. cpc[c] = "commit" /\ cpc'[c] = "done"
    BY <2>1, <2>2 DEF ChangeCommit, WebTypeOK
  <2>4. QED
    BY <2>1, <2>3 DEF RowInv, ReadStillTrue, InTransaction
<1>2. QED
  BY <1>1, RowHolds, PTL DEF ReplacesKnown, WebSpec

-----------------------------------------------------------------------------
(* Which sessions a commit leaves.                                         *)

(* A login, or its session, that read an older password.                   *)
Outdated(s) ==
    /\ lpc[s] \in {"compare", "insert"} \/ s \in session
    /\ lhash[s] # password

LoginsAsRead ==
    \A s \in Sess :
        /\ s \in session => lpc[s] = "done"
        /\ s \in session \/ lpc[s] = "insert" => lpwd[s] = lhash[s]
        /\ Outdated(s) => s \in overlapped

(* The rows of the logins that were over at the DELETE are among those it  *)
(* found.                                                                  *)
DeleteFound ==
    \A c \in Change, s \in Sess :
        cpc[c] = "commit" /\ s \in settled[c]
            => lpc[s] = "done" /\ (s \in session => s \in cdeleted[c])

SessionInv == LoginsAsRead /\ DeleteFound

LEMMA SessionInit == WebInit => SessionInv
BY WebAssumption DEF WebInit, SessionInv, LoginsAsRead, DeleteFound, Outdated

LEMMA SessionNext ==
    ASSUME WebTypeOK, SessionInv, [WebNext]_webVars
    PROVE  SessionInv'
<1>1. ASSUME NEW s \in Sess, LoginStep(s) \/ Logout(s) \/ Expire(s) PROVE SessionInv'
  <2>1. ASSUME NEW pwd \in 0..MaxPwd, LoginSelect(s, pwd) PROVE SessionInv'
    BY <2>1
       DEF LoginSelect, userVars, tableVars, loginVars, changeVars, callVars,
           WebTypeOK, SessionInv, LoginsAsRead, DeleteFound, Outdated
  <2>2. CASE LoginCompare(s)
    BY <2>2
       DEF LoginCompare, userVars, tableVars, loginVars, changeVars,
           callVars, WebTypeOK, SessionInv, LoginsAsRead, DeleteFound, Outdated
  <2>3. CASE LoginInsert(s)
    BY <2>3
       DEF LoginInsert, userVars, tableVars, loginVars, changeVars, callVars,
           WebTypeOK, SessionInv, LoginsAsRead, DeleteFound, Outdated
  <2>4. CASE LoginFails(s)
    BY <2>4
       DEF LoginFails, userVars, tableVars, loginVars, changeVars, callVars,
           WebTypeOK, SessionInv, LoginsAsRead, DeleteFound, Outdated
  <2>5. CASE Logout(s)
    BY <2>5
       DEF Logout, userVars, tableVars, loginVars, changeVars, callVars,
           WebTypeOK, SessionInv, LoginsAsRead, DeleteFound, Outdated
  <2>6. CASE Expire(s)
    BY <2>6
       DEF Expire, userVars, tableVars, loginVars, changeVars, callVars,
           WebTypeOK, SessionInv, LoginsAsRead, DeleteFound, Outdated
  <2>7. QED
    BY <1>1, <2>1, <2>2, <2>3, <2>4, <2>5, <2>6 DEF LoginStep
<1>2. ASSUME NEW c \in Change, ChangeStep(c) PROVE SessionInv'
  <2>1. ASSUME NEW s \in Sess, NEW pwd \in 0..MaxPwd, ChangeBegin(c, s, pwd)
        PROVE  SessionInv'
    BY <2>1
       DEF ChangeBegin, Valid, userVars, tableVars, loginVars, changeVars,
           callVars, WebTypeOK, SessionInv, LoginsAsRead, DeleteFound, Outdated
  <2>2. ASSUME NEW s \in Sess, ChangeRefused(c, s) PROVE SessionInv'
    BY <2>2
       DEF ChangeRefused, Valid, userVars, tableVars, loginVars, changeVars,
           callVars, WebTypeOK, SessionInv, LoginsAsRead, DeleteFound, Outdated
  <2>3. CASE ChangeUpdate(c)
    BY <2>3
       DEF ChangeUpdate, userVars, tableVars, loginVars, changeVars,
           callVars, WebTypeOK, SessionInv, LoginsAsRead, DeleteFound, Outdated
  <2>4. CASE ChangeDelete(c)
    BY <2>4
       DEF ChangeDelete, userVars, tableVars, loginVars, changeVars,
           callVars, WebTypeOK, SessionInv, LoginsAsRead, DeleteFound, Outdated
  <2>5. CASE ChangeCommit(c)
    BY <2>5
       DEF ChangeCommit, userVars, tableVars, loginVars, changeVars,
           callVars, WebTypeOK, SessionInv, LoginsAsRead, DeleteFound, Outdated
  <2>6. CASE ChangeRollback(c)
    BY <2>6
       DEF ChangeRollback, userVars, tableVars, loginVars, changeVars,
           callVars, WebTypeOK, SessionInv, LoginsAsRead, DeleteFound, Outdated
  <2>7. QED
    BY <1>2, <2>1, <2>2, <2>3, <2>4, <2>5, <2>6 DEF ChangeStep
<1>3. ASSUME NEW k \in Call, CallStep(k) PROVE SessionInv'
  <2>1. ASSUME NEW s \in Sess, CallCheck(k, s) PROVE SessionInv'
    BY <2>1
       DEF CallCheck, Valid, userVars, tableVars, loginVars, changeVars,
           callVars, WebTypeOK, SessionInv, LoginsAsRead, DeleteFound, Outdated
  <2>2. CASE CallFunction(k)
    BY <2>2
       DEF CallFunction, userVars, tableVars, loginVars, changeVars,
           callVars, WebTypeOK, SessionInv, LoginsAsRead, DeleteFound, Outdated
  <2>3. CASE CreateWsToken(k)
    BY <2>3
       DEF CreateWsToken, userVars, tableVars, loginVars, changeVars,
           callVars, WebTypeOK, SessionInv, LoginsAsRead, DeleteFound, Outdated
  <2>4. CASE OpenStream(k)
    BY <2>4
       DEF OpenStream, Valid, userVars, tableVars, loginVars, changeVars,
           callVars, WebTypeOK, SessionInv, LoginsAsRead, DeleteFound, Outdated
  <2>5. QED
    BY <1>3, <2>1, <2>2, <2>3, <2>4 DEF CallStep
<1>4. ASSUME NEW all \in BOOLEAN, PurgeSession(all) PROVE SessionInv'
  BY <1>4
     DEF PurgeSession, userVars, tableVars, loginVars, changeVars, callVars,
         WebTypeOK, SessionInv, LoginsAsRead, DeleteFound, Outdated
<1>5. CASE SetSuspendFlag
  BY <1>5
     DEF SetSuspendFlag, userVars, tableVars, loginVars, changeVars,
         callVars, WebTypeOK, SessionInv, LoginsAsRead, DeleteFound, Outdated
<1>6. CASE UNCHANGED webVars
  BY <1>6
     DEF webVars, userVars, tableVars, loginVars, changeVars, callVars, WebTypeOK,
         SessionInv, LoginsAsRead, DeleteFound, Outdated
<1>7. QED
  BY <1>1, <1>2, <1>3, <1>4, <1>5, <1>6 DEF WebNext

LEMMA SessionHolds == WebSpec => [](WebTypeOK /\ SessionInv)
<1>1. WebTypeOK /\ SessionInv /\ [WebNext]_webVars => WebTypeOK' /\ SessionInv'
  BY WebTypeNext, SessionNext
<1>2. QED
  BY <1>1, WebTypeInit, SessionInit, PTL DEF WebSpec

(* A session opened with an older password is one whose login overlapped a *)
(* change (login.go:31-58, changepwd.go:63-79).                            *)
THEOREM OldPasswordOverlappedHolds == WebSpec => []OldPasswordOverlapped
<1>1. WebTypeOK /\ SessionInv => OldPasswordOverlapped
  BY DEF WebTypeOK, SessionInv, LoginsAsRead, Outdated, OldPasswordOverlapped
<1>2. QED
  BY <1>1, SessionHolds, PTL

-----------------------------------------------------------------------------
(* Who may act.                                                            *)

(* The sessions of calls that passed the check, and those they served.     *)
Passed(s) ==
    \/ s \in acted \cup streaming
    \/ ws_token[s] # none
    \/ \E k \in Call : kpc[k] = "call" /\ ksess[k] = s

ActInv ==
    /\ password = 0 => require_change_pwd
    /\ \A s \in Sess : Passed(s) => lpc[s] = "done" /\ (lpwd[s] # 0 \/ s \in overlapped)

LEMMA ActInit == WebInit => ActInv
BY WebAssumption DEF WebInit, ActInv, Passed

LEMMA ActNext ==
    ASSUME WebTypeOK, SessionInv, ActInv, [WebNext]_webVars
    PROVE  ActInv'
<1>1. ASSUME NEW s \in Sess, LoginStep(s) \/ Logout(s) \/ Expire(s) PROVE ActInv'
  <2>1. ASSUME NEW pwd \in 0..MaxPwd, LoginSelect(s, pwd) PROVE ActInv'
    BY <2>1, WebAssumption
       DEF LoginSelect, userVars, tableVars, loginVars, changeVars, callVars,
           WebTypeOK, ActInv, Passed
  <2>2. CASE LoginCompare(s)
    BY <2>2, WebAssumption
       DEF LoginCompare, userVars, tableVars, loginVars, changeVars,
           callVars, WebTypeOK, ActInv, Passed
  <2>3. CASE LoginInsert(s)
    BY <2>3, WebAssumption
       DEF LoginInsert, userVars, tableVars, loginVars, changeVars, callVars,
           WebTypeOK, ActInv, Passed
  <2>4. CASE LoginFails(s)
    BY <2>4, WebAssumption
       DEF LoginFails, userVars, tableVars, loginVars, changeVars, callVars,
           WebTypeOK, ActInv, Passed
  <2>5. CASE Logout(s)
    BY <2>5, WebAssumption
       DEF Logout, userVars, tableVars, loginVars, changeVars, callVars,
           WebTypeOK, ActInv, Passed
  <2>6. CASE Expire(s)
    BY <2>6, WebAssumption
       DEF Expire, userVars, tableVars, loginVars, changeVars, callVars,
           WebTypeOK, ActInv, Passed
  <2>7. QED
    BY <1>1, <2>1, <2>2, <2>3, <2>4, <2>5, <2>6 DEF LoginStep
<1>2. ASSUME NEW c \in Change, ChangeStep(c) PROVE ActInv'
  <2>1. ASSUME NEW s \in Sess, NEW pwd \in 0..MaxPwd, ChangeBegin(c, s, pwd)
        PROVE  ActInv'
    BY <2>1, WebAssumption
       DEF ChangeBegin, Valid, userVars, tableVars, loginVars, changeVars,
           callVars, WebTypeOK, ActInv, Passed
  <2>2. ASSUME NEW s \in Sess, ChangeRefused(c, s) PROVE ActInv'
    BY <2>2, WebAssumption
       DEF ChangeRefused, Valid, userVars, tableVars, loginVars, changeVars,
           callVars, WebTypeOK, ActInv, Passed
  <2>3. CASE ChangeUpdate(c)
    BY <2>3, WebAssumption
       DEF ChangeUpdate, userVars, tableVars, loginVars, changeVars,
           callVars, WebTypeOK, ActInv, Passed
  <2>4. CASE ChangeDelete(c)
    BY <2>4, WebAssumption
       DEF ChangeDelete, userVars, tableVars, loginVars, changeVars,
           callVars, WebTypeOK, ActInv, Passed
  <2>5. CASE ChangeCommit(c)
    BY <2>5, WebAssumption
       DEF ChangeCommit, userVars, tableVars, loginVars, changeVars,
           callVars, WebTypeOK, ActInv, Passed
  <2>6. CASE ChangeRollback(c)
    BY <2>6, WebAssumption
       DEF ChangeRollback, userVars, tableVars, loginVars, changeVars,
           callVars, WebTypeOK, ActInv, Passed
  <2>7. QED
    BY <1>2, <2>1, <2>2, <2>3, <2>4, <2>5, <2>6 DEF ChangeStep
<1>3. ASSUME NEW k \in Call, CallStep(k) PROVE ActInv'
  <2>1. ASSUME NEW s \in Sess, CallCheck(k, s) PROVE ActInv'
    <3>1. Valid(s) /\ ~require_change_pwd => lpc[s] = "done" /\ (lpwd[s] # 0 \/ s \in overlapped)
      BY DEF Valid, SessionInv, LoginsAsRead, Outdated, ActInv, WebTypeOK
    <3>2. UNCHANGED <<userVars, tableVars, loginVars, acted, streaming, overlapped>>
      BY <2>1 DEF CallCheck
    <3>3. \A q \in Sess : Passed(q)' => Passed(q) \/ (q = s /\ Valid(s) /\ ~require_change_pwd)
      BY <2>1, <3>2 DEF CallCheck, tableVars, Passed, WebTypeOK
    <3>4. QED
      BY <3>1, <3>2, <3>3 DEF ActInv, userVars, loginVars
  <2>2. CASE CallFunction(k)
    BY <2>2, WebAssumption
       DEF CallFunction, userVars, tableVars, loginVars, changeVars,
           callVars, WebTypeOK, ActInv, Passed
  <2>3. CASE CreateWsToken(k)
    BY <2>3, WebAssumption
       DEF CreateWsToken, userVars, tableVars, loginVars, changeVars,
           callVars, WebTypeOK, ActInv, Passed
  <2>4. CASE OpenStream(k)
    BY <2>4, WebAssumption
       DEF OpenStream, Valid, userVars, tableVars, loginVars, changeVars,
           callVars, WebTypeOK, ActInv, Passed
  <2>5. QED
    BY <1>3, <2>1, <2>2, <2>3, <2>4 DEF CallStep
<1>4. ASSUME NEW all \in BOOLEAN, PurgeSession(all) PROVE ActInv'
  BY <1>4, WebAssumption
     DEF PurgeSession, userVars, tableVars, loginVars, changeVars, callVars,
         WebTypeOK, ActInv, Passed
<1>5. CASE SetSuspendFlag
  BY <1>5, WebAssumption
     DEF SetSuspendFlag, userVars, tableVars, loginVars, changeVars,
         callVars, WebTypeOK, ActInv, Passed
<1>6. CASE UNCHANGED webVars
  BY <1>6, WebAssumption
     DEF webVars, userVars, tableVars, loginVars, changeVars, callVars, WebTypeOK,
         ActInv, Passed
<1>7. QED
  BY <1>1, <1>2, <1>3, <1>4, <1>5, <1>6 DEF WebNext

(* Nothing is done, and nothing streamed, in the name of a session opened  *)
(* with the first password, unless its login overlapped a change           *)
(* (dispatcher.go:53-72, webstream.go:122-139).                            *)
THEOREM FirstPasswordIdleHolds == WebSpec => []FirstPasswordIdle
<1>1. WebTypeOK /\ SessionInv /\ ActInv /\ [WebNext]_webVars => WebTypeOK' /\ SessionInv' /\ ActInv'
  BY WebTypeNext, SessionNext, ActNext
<1>2. WebTypeOK /\ ActInv => FirstPasswordIdle
  BY DEF WebTypeOK, ActInv, Passed, FirstPasswordIdle
<1>3. QED
  BY <1>1, <1>2, WebTypeInit, SessionInit, ActInit, PTL DEF WebSpec

-----------------------------------------------------------------------------
(* Webstream                                                               *)

-----------------------------------------------------------------------------
(* Types.                                                                  *)

(* Who has assigned a feed has a number; who is in the range over the      *)
(* subscribers is at one of them; who changes a subscription names it.     *)
AtWork ==
    /\ \A r \in Run : /\ ppc[r] # "idle" => pfeed[r] \in Feed
                      /\ ppc[r] = "lock" => pub[pfeed[r]] > 0
                      /\ ppc[r] = "push" => pcur[r] \in Client
    /\ \A c \in Client :
          rpc[c] \in {"sub", "data", "event", "limit",
               "unsub"} => rtr[c] \in Tracker

MuHolder == {nil} \cup ({"pub"} \X Run) \cup ({"sub"} \X Client)

LockHolder == {nil} \cup ({"pub"} \X Tracker) \cup ({"sub", "write"} \X Client)

PubTyped ==
    /\ list \in [Tracker -> SUBSET Client]
    /\ mu \in [Tracker -> MuHolder]
    /\ pub \in [Feed -> 0..MaxPub]
    /\ torn \in [Feed -> BOOLEAN]
    /\ raced \in [Feed -> BOOLEAN]
    /\ ppc \in [Run -> {"idle", "lock", "push"}]
    /\ pfeed \in [Run -> Feed \cup {nil}]
    /\ ptodo \in [Run -> SUBSET Client]
    /\ pcur \in [Run -> Client \cup {nil}]

BufTyped ==
    /\ lock \in [Client -> LockHolder]
    /\ closed \in [Client -> BOOLEAN]
    /\ buf \in [Client -> Seq(Item)]
    /\ written \in [Client -> Nat]
    /\ \A c \in Client : written[c] <= Len(buf[c])

LoopTyped ==
    /\ subs \in [Client -> SUBSET Tracker]
    /\ rpc \in [Client -> {"read", "sub", "data", "event", "limit",
                           "unsub", "gone", "done", "panic"}]
    /\ rtr \in [Client -> Tracker \cup {nil}]
    /\ msgs \in [Client -> 0..MaxMsg]
    /\ wpc \in [Client -> {"sleep", "write", "done"}]
    /\ upto \in [Client -> [Feed -> 0..MaxPub]]

TypeInv == PubTyped /\ BufTyped /\ LoopTyped /\ AtWork

LEMMA TypeParts == TypeOK <=> PubTyped /\ BufTyped /\ LoopTyped
BY DEF TypeOK, PubTyped, BufTyped, LoopTyped, MuHolder, LockHolder

LEMMA TypeInit == Init => TypeInv
<1> SUFFICES ASSUME Init PROVE TypeInv
  OBVIOUS
<1>1. PubTyped
  BY StreamAssumption DEF Init, PubTyped, MuHolder
<1>2. BufTyped
  BY DEF Init, BufTyped, LockHolder
<1>3. LoopTyped
  BY StreamAssumption DEF Init, LoopTyped
<1>4. AtWork
  BY DEF Init, AtWork
<1>5. QED
  BY <1>1, <1>2, <1>3, <1>4 DEF TypeInv

(* A goroutine that publishes does it to the tracker of a feed.            *)
LEMMA FeedTracker == \A f \in Feed : trk[f] \in Tracker
BY StreamAssumption

(* The holders of mu and of a client's lock.                               *)
LEMMA Holders ==
    /\ nil \in MuHolder /\ nil \in LockHolder
    /\ \A r \in Run : <<"pub", r>> \in MuHolder
    /\ \A t \in Tracker : <<"pub", t>> \in LockHolder
    /\ \A c \in Client : /\ <<"sub", c>> \in MuHolder
                         /\ <<"sub", c>> \in LockHolder
                         /\ <<"write", c>> \in LockHolder
BY DEF MuHolder, LockHolder

(* What Range and Push do, goroutine by goroutine, tracker by tracker and  *)
(* client by client.                                                       *)
Leaves(r, f) ==
    /\ ppc'[r] = "idle" /\ mu'[trk[f]] = nil
    /\ raced'[f] => raced[f]
    /\ ~raced'[f] => ~raced[f] \/ Inside(f, r) = {}

RangeEffect(r, f, rest) ==
    /\ mu' \in [Tracker -> MuHolder]
    /\ ppc' \in [Run -> {"idle", "lock", "push"}]
    /\ ptodo' \in [Run -> SUBSET Client]
    /\ pcur' \in [Run -> Client \cup {nil}]
    /\ pfeed' \in [Run -> Feed \cup {nil}]
    /\ raced' \in [Feed -> BOOLEAN]
    /\ \A u \in Tracker \ {trk[f]} : mu'[u] = mu[u]
    /\ \A g \in Feed \ {f} : raced'[g] = raced[g]
    /\ \A q \in Run \ {r} :
          /\ ppc'[q] = ppc[q] /\ pfeed'[q] = pfeed[q]
          /\ ptodo'[q] = ptodo[q] /\ pcur'[q] = pcur[q]
    /\ \/ /\ ppc'[r] = "push" /\ mu'[trk[f]] = <<"pub", r>>
          /\ pcur'[r] \in rest /\ ptodo'[r] = rest \ {pcur'[r]}
          /\ pfeed'[r] = f /\ raced'[f] = raced[f]
       \/ rest = {} /\ Leaves(r, f)

PushEffect(who, c, x) ==
    /\ lock' \in [Client -> LockHolder]
    /\ buf' \in [Client -> Seq(Item)]
    /\ \A d \in Client \ {c} : lock'[d] = lock[d] /\ buf'[d] = buf[d]
    /\ lock[c] = nil
    /\ \/ closed[c] /\ lock'[c] = who /\ buf'[c] = buf[c]
       \/ /\ ~closed[c] /\ lock'[c] = nil
          /\ buf'[c] = Append(buf[c], x)
          /\ Len(buf'[c]) = Len(buf[c]) + 1
          /\ buf'[c][Len(buf'[c])] = x

LEMMA RangeStep ==
    ASSUME PubTyped, NEW r \in Run, NEW f \in Feed, f = pfeed[r],
           NEW rest \in SUBSET Client, Range(r, rest)
    PROVE  RangeEffect(r, f, rest)
<1> DEFINE t == trk[f]
<1>0. t \in Tracker /\ <<"pub", r>> \in MuHolder /\ nil \in MuHolder
  BY FeedTracker, Holders
<1>1. CASE rest = {}
  <2>1. /\ pcur' = [pcur EXCEPT ![r] = nil]
        /\ mu' = [mu EXCEPT ![t] = nil]
        /\ ppc' = [ppc EXCEPT ![r] = "idle"]
        /\ pfeed' = [pfeed EXCEPT ![r] = nil]
        /\ ptodo' = ptodo
    BY <1>1 DEF Range
  <2>2. raced' = [raced EXCEPT ![f] = @ /\ Inside(f, r) # {}]
    BY <1>1 DEF Range
  <2>3. /\ pcur' \in [Run -> Client \cup {nil}]
        /\ ppc'[r] = "idle" /\ ppc' \in [Run -> {"idle", "lock", "push"}]
        /\ pfeed' \in [Run -> Feed \cup {nil}]
        /\ ptodo' \in [Run -> SUBSET Client]
        /\ \A q \in Run \ {r} : /\ ppc'[q] = ppc[q] /\ pfeed'[q] = pfeed[q]
                                /\ ptodo'[q] = ptodo[q] /\ pcur'[q] = pcur[q]
    BY <2>1 DEF PubTyped
  <2>4. /\ mu' \in [Tracker -> MuHolder]
        /\ mu'[t] = nil /\ \A u \in Tracker \ {t} : mu'[u] = mu[u]
    BY <1>0, <2>1 DEF PubTyped
  <2>5. raced' \in [Feed -> BOOLEAN] /\ \A g \in Feed \ {f} : raced'[g] = raced[g]
    BY <2>2, Zenon DEF PubTyped
  <2>6. raced'[f] = (raced[f] /\ Inside(f, r) # {})
    BY <2>2, Zenon DEF PubTyped
  <2>7. Leaves(r, f)
    BY <2>3, <2>4, <2>6 DEF Leaves
  <2>8. QED
    BY <1>1, <2>3, <2>4, <2>5, <2>7 DEF RangeEffect
<1>2. CASE rest # {}
  <2>1. PICK c \in rest : pcur' = [pcur EXCEPT ![r] = c]
    BY <1>2 DEF Range
  <2>2. /\ ptodo' = [ptodo EXCEPT ![r] = rest \ {pcur'[r]}]
        /\ mu' = [mu EXCEPT ![t] = <<"pub", r>>]
        /\ ppc' = [ppc EXCEPT ![r] = "push"]
        /\ pfeed' = pfeed /\ raced' = raced
    BY <1>2 DEF Range
  <2>3. pcur'[r] = c /\ pcur' \in [Run -> Client \cup {nil}]
        /\ \A q \in Run \ {r} : pcur'[q] = pcur[q]
    BY <2>1 DEF PubTyped
  <2>4. /\ mu' \in [Tracker -> MuHolder]
        /\ mu'[t] = <<"pub", r>> /\ \A u \in Tracker \ {t} : mu'[u] = mu[u]
    BY <1>0, <2>2 DEF PubTyped
  <2>5. ppc'[r] = "push" /\ ppc' \in [Run -> {"idle", "lock", "push"}]
        /\ \A q \in Run \ {r} : ppc'[q] = ppc[q]
    BY <2>2 DEF PubTyped
  <2>6. ptodo'[r] = rest \ {pcur'[r]} /\ ptodo' \in [Run -> SUBSET Client]
        /\ \A q \in Run \ {r} : ptodo'[q] = ptodo[q]
    BY <2>2 DEF PubTyped
  <2>7. /\ pfeed' \in [Run -> Feed \cup {nil}] /\ raced' \in [Feed -> BOOLEAN]
        /\ pfeed'[r] = f
    BY <2>2 DEF PubTyped
  <2>8. QED
    BY <2>2, <2>3, <2>4, <2>5, <2>6, <2>7 DEF RangeEffect
<1>3. QED
  BY <1>1, <1>2

LEMMA PushStep ==
    ASSUME BufTyped, NEW c \in Client, NEW x \in Item,
           NEW who \in LockHolder, Push(who, c, x)
    PROVE  PushEffect(who, c, x)
<1>1. CASE closed[c]
  <2>1. lock[c] = nil /\ lock' = [lock EXCEPT ![c] = who] /\ buf' = buf
    BY <1>1 DEF Push
  <2>2. /\ lock' \in [Client -> LockHolder]
        /\ lock'[c] = who /\ \A d \in Client \ {c} : lock'[d] = lock[d]
    BY <2>1 DEF BufTyped
  <2>3. QED
    BY <1>1, <2>1, <2>2 DEF PushEffect, BufTyped
<1>2. CASE ~closed[c]
  <2>1. /\ buf[c] \in Seq(Item)
        /\ buf' = [buf EXCEPT ![c] = Append(@, x)]
        /\ lock' = lock /\ lock[c] = nil
    BY <1>2 DEF Push, BufTyped
  <2>2. QED
    BY <1>2, <2>1 DEF PushEffect, BufTyped
<1>3. QED
  BY <1>1, <1>2

LEMMA PushTyped ==
    ASSUME BufTyped, NEW c \in Client, NEW x, NEW who,
           PushEffect(who, c, x), closed' = closed, written' = written
    PROVE  BufTyped'
<1>1. ASSUME NEW d \in Client PROVE written[d] <= Len(buf'[d])
  <2>1. written[d] \in Nat /\ written[d] <= Len(buf[d]) /\ Len(buf[d]) \in Nat
    BY DEF BufTyped
  <2>2. CASE d = c
    BY <2>1, <2>2 DEF PushEffect
  <2>3. CASE d # c
    BY <2>1, <2>3 DEF PushEffect
  <2>4. QED
    BY <2>2, <2>3
<1>2. QED
  BY <1>1 DEF BufTyped, PushEffect

(* What PubPush does: it pushes what it can read from the feed.            *)
LEMMA ReadTyped ==
    ASSUME PubTyped, NEW r \in Run, pfeed[r] \in Feed
    PROVE  \A n \in Read(r) : <<pfeed[r], n>> \in Item
<1>1. Read(r) \subseteq {pub[pfeed[r]], Torn}
  BY DEF Read
<1>2. pub[pfeed[r]] \in 0..MaxPub
  BY DEF PubTyped
<1>3. QED
  BY <1>1, <1>2 DEF Item

LEMMA PubPushStep ==
    ASSUME TypeInv, NEW r \in Run, PubPush(r)
    PROVE  /\ pfeed[r] \in Feed /\ pcur[r] \in Client
           /\ RangeEffect(r, pfeed[r], ptodo[r])
           /\ \E n \in Read(r) :
                 PushEffect(<<"pub", trk[pfeed[r]]>>, pcur[r], <<pfeed[r], n>>)
<1>1. pfeed[r] \in Feed /\ pcur[r] \in Client /\ ptodo[r] \in SUBSET Client
  BY DEF PubPush, TypeInv, AtWork, PubTyped
<1>2. RangeEffect(r, pfeed[r], ptodo[r])
  BY <1>1, RangeStep DEF PubPush, TypeInv
<1>3. PICK n \in Read(r) :
         Push(<<"pub", trk[pfeed[r]]>>, pcur[r], <<pfeed[r], n>>)
  BY DEF PubPush
<1>4. <<pfeed[r], n>> \in Item /\ <<"pub", trk[pfeed[r]]>> \in LockHolder
  BY <1>1, ReadTyped, FeedTracker, Holders DEF TypeInv
<1>5. PushEffect(<<"pub", trk[pfeed[r]]>>, pcur[r], <<pfeed[r], n>>)
  BY <1>1, <1>3, <1>4, PushStep DEF TypeInv
<1>6. QED
  BY <1>1, <1>2, <1>5

LEMMA PubLockStep ==
    ASSUME TypeInv, NEW r \in Run, PubLock(r)
    PROVE  /\ pfeed[r] \in Feed /\ trk[pfeed[r]] \in Tracker
           /\ mu[trk[pfeed[r]]] = nil /\ ppc[r] = "lock"
           /\ RangeEffect(r, pfeed[r], list[trk[pfeed[r]]])
<1>1. pfeed[r] \in Feed /\ trk[pfeed[r]] \in Tracker
  BY FeedTracker DEF PubLock, TypeInv, AtWork
<1>2. list[trk[pfeed[r]]] \in SUBSET Client
  BY <1>1 DEF TypeInv, PubTyped
<1>3. Range(r, list[trk[pfeed[r]]]) /\ mu[trk[pfeed[r]]] = nil /\ ppc[r] = "lock"
  BY DEF PubLock
<1>4. RangeEffect(r, pfeed[r], list[trk[pfeed[r]]])
  BY <1>1, <1>2, <1>3, RangeStep DEF TypeInv
<1>5. QED
  BY <1>1, <1>3, <1>4

(* What Subscribe pushes.                                                  *)
LEMMA SubPushStep ==
    ASSUME TypeInv, NEW c \in Client, SubData(c) \/ SubEvent(c)
    PROVE  /\ PushEffect(<<"sub", c>>, c, Placeholder)
           /\ rtr[c] \in Tracker
<1>1. Placeholder \in Item
  BY StreamAssumption DEF Placeholder, Item
<1>2. Push(<<"sub", c>>, c, Placeholder)
  BY DEF SubData, SubEvent
<1>3. QED
  BY <1>1, <1>2, Holders, PushStep DEF TypeInv, SubData, SubEvent, AtWork

(* The holders of locks are told apart.                                    *)
LEMMA Names ==
    /\ \A r \in Run : <<"pub", r>> # nil
    /\ \A t \in Tracker : <<"pub", t>> # nil
    /\ \A c \in Client : <<"sub", c>> # nil /\ <<"write", c>> # nil
    /\ \A t, u : <<"pub", t>> = <<"pub", u>> => t = u
    /\ \A c, d : <<"sub", c>> = <<"sub", d>> => c = d
    /\ \A t, c : <<"pub", t>> # <<"sub", c>> /\ <<"pub", t>> # <<"write", c>>
    /\ \A c, d : <<"sub", c>> # <<"write", d>>
<1>0. \A r \in Run : <<"pub", r>> \in {"pub"} \X Run
  OBVIOUS
<1>1. \A t \in Tracker : <<"pub", t>> \in {"pub"} \X Tracker
  OBVIOUS
<1>2. \A c \in Client : /\ <<"sub", c>> \in {"sub", "write"} \X Client
                        /\ <<"write", c>> \in {"sub", "write"} \X Client
  OBVIOUS
<1>3. "pub" # "sub" /\ "pub" # "write" /\ "sub" # "write"
  OBVIOUS
<1>4. QED
  BY <1>0, <1>1, <1>2, <1>3, StreamAssumption

LEMMA TypeNext ==
    ASSUME TypeInv, [Next]_vars
    PROVE  TypeInv'
<1>1. ASSUME NEW r \in Run, NEW f \in Feed, Publish(r, f) PROVE TypeInv'
  <2>1. /\ pub[f] \in 0..MaxPub /\ pub[f] < MaxPub /\ MaxPub \in Nat
        /\ pub' = [pub EXCEPT ![f] = @ + 1]
        /\ ppc' = [ppc EXCEPT ![r] = "lock"]
        /\ pfeed' = [pfeed EXCEPT ![r] = f]
        /\ \E b \in BOOLEAN : torn' = [torn EXCEPT ![f] = b]
    BY <1>1, StreamAssumption DEF Publish, TypeInv, PubTyped
  <2>2. pub[f] + 1 \in 0..MaxPub /\ pub[f] + 1 > 0
    BY <2>1
  <2>3. pub' \in [Feed -> 0..MaxPub]
    BY <2>1, <2>2 DEF TypeInv, PubTyped
  <2>4. raced' = [raced EXCEPT ![f] = @ \/ Inside(f, r) # {}]
    BY <1>1 DEF Publish
  <2>5. raced' \in [Feed -> BOOLEAN]
    BY <2>4, Zenon DEF TypeInv, PubTyped
  <2>6. torn' \in [Feed -> BOOLEAN]
    BY <2>1 DEF TypeInv, PubTyped
  <2>7. PubTyped'
    BY <1>1, <2>1, <2>3, <2>5, <2>6 DEF Publish, TypeInv, PubTyped
  <2>8. BufTyped'
    BY <1>1 DEF Publish, TypeInv, BufTyped, wrVars
  <2>9. LoopTyped'
    BY <1>1 DEF Publish, TypeInv, LoopTyped, readVars, wrVars
  <2>10. AtWork'
    <3>1. ASSUME NEW q \in Run
          PROVE  /\ ppc'[q] # "idle" => pfeed'[q] \in Feed
                 /\ ppc'[q] = "lock" => pub'[pfeed'[q]] > 0
                 /\ ppc'[q] = "push" => pcur'[q] \in Client
      <4>1. pcur' = pcur
        BY <1>1 DEF Publish
      <4>2. CASE q = r
        BY <2>1, <2>2, <4>2 DEF TypeInv, PubTyped
      <4>3. CASE q # r
        <5>1. ppc'[q] = ppc[q] /\ pfeed'[q] = pfeed[q]
          BY <2>1, <4>3 DEF TypeInv, PubTyped
        <5>2. ppc[q] = "lock" => pub'[pfeed[q]] > 0
          <6>1. HAVE ppc[q] = "lock"
          <6>2. pfeed[q] \in Feed /\ pub[pfeed[q]] > 0
            BY <6>1 DEF TypeInv, AtWork
          <6>3. pub'[pfeed[q]] = pub[pfeed[q]] \/ pub'[pfeed[q]] = pub[f] + 1
            BY <2>1, <6>2 DEF TypeInv, PubTyped
          <6>4. QED
            BY <2>2, <6>2, <6>3
        <5>3. QED
          BY <4>1, <5>1, <5>2 DEF TypeInv, AtWork
      <4>4. QED
        BY <4>2, <4>3
    <3>2. rpc' = rpc /\ rtr' = rtr
      BY <1>1 DEF Publish, readVars
    <3>3. QED
      BY <3>1, <3>2 DEF TypeInv, AtWork
  <2>11. QED
    BY <2>7, <2>8, <2>9, <2>10 DEF TypeInv
<1>2. ASSUME NEW r \in Run, PubLock(r) PROVE TypeInv'
  <2>1. PICK f \in Feed : f = pfeed[r]
    BY <1>2, PubLockStep
  <2>2. RangeEffect(r, f, list[trk[f]]) /\ list[trk[f]] \in SUBSET Client
    BY <1>2, <2>1, PubLockStep DEF TypeInv, PubTyped
  <2>3. PubTyped'
    BY <1>2, <2>2 DEF PubLock, RangeEffect, TypeInv, PubTyped
  <2>4. BufTyped'
    BY <1>2 DEF PubLock, TypeInv, BufTyped, wrVars
  <2>5. LoopTyped'
    BY <1>2 DEF PubLock, TypeInv, LoopTyped, readVars, wrVars
  <2>6. AtWork'
    <3>1. pub' = pub /\ rpc' = rpc /\ rtr' = rtr
      BY <1>2 DEF PubLock, readVars
    <3>2. ASSUME NEW q \in Run
          PROVE  /\ ppc'[q] # "idle" => pfeed'[q] \in Feed
                 /\ ppc'[q] = "lock" => pub[pfeed'[q]] > 0
                 /\ ppc'[q] = "push" => pcur'[q] \in Client
      <4>1. CASE q = r
        BY <2>2, <4>1 DEF RangeEffect, Leaves
      <4>2. CASE q # r
        BY <2>2, <4>2 DEF RangeEffect, TypeInv, AtWork
      <4>3. QED
        BY <4>1, <4>2
    <3>3. QED
      BY <3>1, <3>2 DEF TypeInv, AtWork
  <2>7. QED
    BY <2>3, <2>4, <2>5, <2>6 DEF TypeInv
<1>3. ASSUME NEW r \in Run, PubPush(r) PROVE TypeInv'
  <2>1. PICK f \in Feed : f = pfeed[r]
    BY <1>3, PubPushStep
  <2>2. RangeEffect(r, f, ptodo[r]) /\ ptodo[r] \in SUBSET Client
    BY <1>3, <2>1, PubPushStep DEF TypeInv, PubTyped
  <2>3. PICK n \in Read(r) : PushEffect(<<"pub", trk[f]>>, pcur[r], <<f, n>>)
    BY <1>3, <2>1, PubPushStep
  <2>4. PubTyped'
    <3>1. list' \in [Tracker -> SUBSET Client] /\ pub' = pub /\ torn' = torn
      BY <1>3 DEF PubPush, TypeInv, PubTyped
    <3>2. QED
      BY <2>2, <3>1 DEF RangeEffect, TypeInv, PubTyped
  <2>5. BufTyped'
    <3>1. pcur[r] \in Client /\ closed' = closed /\ written' = written
      BY <1>3, PubPushStep DEF PubPush, wrVars
    <3>2. QED
      BY <2>3, <3>1, PushTyped DEF TypeInv
  <2>6. LoopTyped'
    <3>1. upto' = IF closed[pcur[r]] THEN upto ELSE [upto EXCEPT ![pcur[r]][f] = pub[f]]
      BY <1>3, <2>1 DEF PubPush
    <3>2. upto' \in [Client -> [Feed -> 0..MaxPub]]
      BY <3>1 DEF TypeInv, PubTyped, LoopTyped
    <3>3. QED
      BY <1>3, <3>2 DEF PubPush, TypeInv, LoopTyped, readVars, wrVars
  <2>7. AtWork'
    <3>1. pub' = pub /\ rpc' = rpc /\ rtr' = rtr
      BY <1>3 DEF PubPush, readVars
    <3>2. ASSUME NEW q \in Run
          PROVE  /\ ppc'[q] # "idle" => pfeed'[q] \in Feed
                 /\ ppc'[q] = "lock" => pub[pfeed'[q]] > 0
                 /\ ppc'[q] = "push" => pcur'[q] \in Client
      <4>1. CASE q = r
        BY <2>2, <4>1 DEF RangeEffect, Leaves
      <4>2. CASE q # r
        BY <2>2, <4>2 DEF RangeEffect, TypeInv, AtWork
      <4>3. QED
        BY <4>1, <4>2
    <3>3. QED
      BY <3>1, <3>2 DEF TypeInv, AtWork
  <2>8. QED
    BY <2>4, <2>5, <2>6, <2>7 DEF TypeInv
<1>4. ASSUME NEW c \in Client, NEW t \in Tracker, AddSub(c, t) PROVE TypeInv'
  <2>1. PubTyped'
    BY <1>4, Holders
    DEF AddSub, TypeInv, PubTyped, AtWork, pubVars
  <2>2. BufTyped'
    BY <1>4, Holders
    DEF AddSub, TypeInv, BufTyped, wrVars
  <2>3. LoopTyped'
    BY <1>4, StreamAssumption
    DEF AddSub, TypeInv, LoopTyped, AtWork, readVars, wrVars
  <2>4. AtWork'
    BY <1>4
    DEF AddSub, TypeInv, LoopTyped, AtWork, pubVars, readVars
  <2>5. QED
    BY <2>1, <2>2, <2>3, <2>4 DEF TypeInv
<1>5. ASSUME NEW c \in Client, NEW t \in Tracker, DelSub(c, t) PROVE TypeInv'
  <2>1. PubTyped'
    BY <1>5, Holders
    DEF DelSub, TypeInv, PubTyped, AtWork, pubVars
  <2>2. BufTyped'
    BY <1>5, Holders
    DEF DelSub, TypeInv, BufTyped, wrVars
  <2>3. LoopTyped'
    BY <1>5, StreamAssumption
    DEF DelSub, TypeInv, LoopTyped, AtWork, readVars, wrVars
  <2>4. AtWork'
    BY <1>5
    DEF DelSub, TypeInv, LoopTyped, AtWork, pubVars, readVars
  <2>5. QED
    BY <2>1, <2>2, <2>3, <2>4 DEF TypeInv
<1>6. ASSUME NEW c \in Client, SubLock(c) PROVE TypeInv'
  <2>1. PubTyped'
    BY <1>6, Holders
    DEF SubLock, TypeInv, PubTyped, AtWork, pubVars
  <2>2. BufTyped'
    BY <1>6, Holders
    DEF SubLock, TypeInv, BufTyped, wrVars
  <2>3. LoopTyped'
    <3>1. PICK t \in Tracker : t = rtr[c]
      BY <1>6 DEF SubLock, TypeInv, AtWork
    <3>2. \A f \in Feed : Begun(f) \in 0..MaxPub
      <4>1. ASSUME NEW f \in Feed PROVE Begun(f) \in 0..MaxPub
        <5>1. pub[f] \in 0..MaxPub
          BY DEF TypeInv, PubTyped
        <5>2. CASE \E q \in Run : ppc[q] = "lock" /\ pfeed[q] = f
          <6>1. pub[f] > 0 /\ Begun(f) = pub[f] - 1
            BY <5>2 DEF TypeInv, AtWork, Begun
          <6>2. MaxPub \in Nat
            BY StreamAssumption
          <6>3. pub[f] - 1 \in 0..MaxPub
            BY <5>1, <6>1, <6>2
          <6>4. QED
            BY <6>1, <6>3
        <5>3. CASE ~\E q \in Run : ppc[q] = "lock" /\ pfeed[q] = f
          BY <5>1, <5>3 DEF Begun
        <5>4. QED
          BY <5>2, <5>3
      <4>2. QED
        BY <4>1
    <3>3. upto' = [upto EXCEPT ![c] =
                     [f \in Feed |-> IF trk[f] = t THEN Begun(f) ELSE @[f]]]
      BY <1>6, <3>1 DEF SubLock
    <3>4. upto' \in [Client -> [Feed -> 0..MaxPub]]
      BY <3>2, <3>3 DEF TypeInv, LoopTyped
    <3>5. QED
      BY <1>6, <3>4 DEF SubLock, TypeInv, LoopTyped, wrVars
  <2>4. AtWork'
    BY <1>6
    DEF SubLock, TypeInv, LoopTyped, AtWork, pubVars, readVars
  <2>5. QED
    BY <2>1, <2>2, <2>3, <2>4 DEF TypeInv
<1>7. ASSUME NEW c \in Client, SubData(c) PROVE TypeInv'
  <2>1. PushEffect(<<"sub", c>>, c, Placeholder)
    BY <1>7, SubPushStep
  <2>2. PubTyped'
    BY <1>7, Holders
    DEF SubData, TypeInv, PubTyped, AtWork, pubVars
  <2>3. BufTyped'
    BY <1>7, <2>1, PushTyped DEF SubData, TypeInv, wrVars
  <2>4. LoopTyped'
    BY <1>7, StreamAssumption
    DEF SubData, TypeInv, LoopTyped, AtWork, readVars, wrVars
  <2>5. AtWork'
    BY <1>7
    DEF SubData, TypeInv, LoopTyped, AtWork, pubVars, readVars
  <2>6. QED
    BY <2>2, <2>3, <2>4, <2>5 DEF TypeInv
<1>8. ASSUME NEW c \in Client, SubEvent(c) PROVE TypeInv'
  <2>1. PushEffect(<<"sub", c>>, c, Placeholder)
    BY <1>8, SubPushStep
  <2>2. PubTyped'
    BY <1>8, Holders
    DEF SubEvent, TypeInv, PubTyped, AtWork, pubVars
  <2>3. BufTyped'
    BY <1>8, <2>1, PushTyped DEF SubEvent, TypeInv, wrVars
  <2>4. LoopTyped'
    BY <1>8, StreamAssumption
    DEF SubEvent, TypeInv, LoopTyped, AtWork, readVars, wrVars
  <2>5. AtWork'
    BY <1>8
    DEF SubEvent, TypeInv, LoopTyped, AtWork, pubVars, readVars
  <2>6. QED
    BY <2>2, <2>3, <2>4, <2>5 DEF TypeInv
<1>9. ASSUME NEW c \in Client, CheckLimit(c) PROVE TypeInv'
  <2>1. PubTyped'
    BY <1>9, Holders
    DEF CheckLimit, TypeInv, PubTyped, AtWork, pubVars
  <2>2. BufTyped'
    BY <1>9, Holders
    DEF CheckLimit, TypeInv, BufTyped, wrVars
  <2>3. LoopTyped'
    BY <1>9, StreamAssumption
    DEF CheckLimit, TypeInv, LoopTyped, AtWork, readVars, wrVars
  <2>4. AtWork'
    BY <1>9
    DEF CheckLimit, TypeInv, LoopTyped, AtWork, pubVars, readVars
  <2>5. QED
    BY <2>1, <2>2, <2>3, <2>4 DEF TypeInv
<1>10. ASSUME NEW c \in Client, Unsub(c) PROVE TypeInv'
  <2>1. PubTyped'
    BY <1>10, Holders
    DEF Unsub, TypeInv, PubTyped, AtWork, pubVars
  <2>2. BufTyped'
    BY <1>10, Holders
    DEF Unsub, TypeInv, BufTyped, wrVars
  <2>3. LoopTyped'
    BY <1>10, StreamAssumption
    DEF Unsub, TypeInv, LoopTyped, AtWork, readVars, wrVars
  <2>4. AtWork'
    BY <1>10
    DEF Unsub, TypeInv, LoopTyped, AtWork, pubVars, readVars
  <2>5. QED
    BY <2>1, <2>2, <2>3, <2>4 DEF TypeInv
<1>11. ASSUME NEW c \in Client, ReadError(c) PROVE TypeInv'
  <2>1. PubTyped'
    BY <1>11, Holders
    DEF ReadError, TypeInv, PubTyped, AtWork, pubVars
  <2>2. BufTyped'
    BY <1>11, Holders
    DEF ReadError, TypeInv, BufTyped, wrVars
  <2>3. LoopTyped'
    BY <1>11, StreamAssumption
    DEF ReadError, TypeInv, LoopTyped, AtWork, readVars, wrVars
  <2>4. AtWork'
    BY <1>11
    DEF ReadError, TypeInv, LoopTyped, AtWork, pubVars, readVars
  <2>5. QED
    BY <2>1, <2>2, <2>3, <2>4 DEF TypeInv
<1>12. ASSUME NEW c \in Client, ReadClose(c) PROVE TypeInv'
  <2>1. PubTyped'
    BY <1>12, Holders
    DEF ReadClose, TypeInv, PubTyped, AtWork, pubVars
  <2>2. BufTyped'
    BY <1>12, Holders
    DEF ReadClose, TypeInv, BufTyped, wrVars
  <2>3. LoopTyped'
    BY <1>12, StreamAssumption
    DEF ReadClose, TypeInv, LoopTyped, AtWork, readVars, wrVars
  <2>4. AtWork'
    BY <1>12
    DEF ReadClose, TypeInv, LoopTyped, AtWork, pubVars, readVars
  <2>5. QED
    BY <2>1, <2>2, <2>3, <2>4 DEF TypeInv
<1>13. ASSUME NEW c \in Client, WriteLock(c) PROVE TypeInv'
  <2>1. PubTyped'
    BY <1>13, Holders
    DEF WriteLock, TypeInv, PubTyped, AtWork, pubVars
  <2>2. BufTyped'
    BY <1>13, Holders
    DEF WriteLock, TypeInv, BufTyped, wrVars
  <2>3. LoopTyped'
    BY <1>13, StreamAssumption
    DEF WriteLock, TypeInv, LoopTyped, AtWork, readVars, wrVars
  <2>4. AtWork'
    BY <1>13
    DEF WriteLock, TypeInv, LoopTyped, AtWork, pubVars, readVars
  <2>5. QED
    BY <2>1, <2>2, <2>3, <2>4 DEF TypeInv
<1>14. ASSUME NEW c \in Client, Write(c) PROVE TypeInv'
  <2>1. PubTyped'
    BY <1>14, Holders
    DEF Write, TypeInv, PubTyped, AtWork, pubVars
  <2>2. BufTyped'
    BY <1>14, Holders
    DEF Write, TypeInv, BufTyped, wrVars
  <2>3. LoopTyped'
    BY <1>14, StreamAssumption
    DEF Write, TypeInv, LoopTyped, AtWork, readVars, wrVars
  <2>4. AtWork'
    BY <1>14
    DEF Write, TypeInv, LoopTyped, AtWork, pubVars, readVars
  <2>5. QED
    BY <2>1, <2>2, <2>3, <2>4 DEF TypeInv
<1>15. ASSUME NEW c \in Client, WriteError(c) PROVE TypeInv'
  <2>1. PubTyped'
    BY <1>15, Holders
    DEF WriteError, TypeInv, PubTyped, AtWork, pubVars
  <2>2. BufTyped'
    BY <1>15, Holders
    DEF WriteError, TypeInv, BufTyped, wrVars
  <2>3. LoopTyped'
    BY <1>15, StreamAssumption
    DEF WriteError, TypeInv, LoopTyped, AtWork, readVars, wrVars
  <2>4. AtWork'
    BY <1>15
    DEF WriteError, TypeInv, LoopTyped, AtWork, pubVars, readVars
  <2>5. QED
    BY <2>1, <2>2, <2>3, <2>4 DEF TypeInv
<1>16. ASSUME NEW c \in Client, WriteUnlock(c) PROVE TypeInv'
  <2>1. PubTyped'
    BY <1>16, Holders
    DEF WriteUnlock, TypeInv, PubTyped, AtWork, pubVars
  <2>2. BufTyped'
    <3>1. <<>> \in Seq(Item) /\ Len(<<>>) = 0
      OBVIOUS
    <3>2. \A d \in Client : written[d] \in Nat /\ written[d] <= Len(buf[d])
      BY DEF TypeInv, BufTyped
    <3>3. /\ buf' = [buf EXCEPT ![c] = <<>>]
          /\ written' = [written EXCEPT ![c] = 0]
          /\ lock' = [lock EXCEPT ![c] = nil] /\ closed' = closed
      BY <1>16 DEF WriteUnlock
    <3>4. ASSUME NEW d \in Client PROVE written'[d] \in Nat /\ written'[d] <= Len(buf'[d])
      <4>1. CASE d = c
        <5>1. buf'[c] = <<>>
          BY <3>3 DEF TypeInv, BufTyped
        <5>2. written'[c] = 0
          BY <3>3 DEF TypeInv, BufTyped
        <5>3. QED
          BY <3>1, <4>1, <5>1, <5>2
      <4>2. CASE d # c
        BY <3>2, <3>3, <4>2 DEF TypeInv, BufTyped
      <4>3. QED
        BY <4>1, <4>2
    <3>5. QED
      BY <3>1, <3>3, <3>4, Holders DEF TypeInv, BufTyped
  <2>3. LoopTyped'
    BY <1>16, StreamAssumption
    DEF WriteUnlock, TypeInv, LoopTyped, AtWork, readVars, wrVars
  <2>4. AtWork'
    BY <1>16
    DEF WriteUnlock, TypeInv, LoopTyped, AtWork, pubVars, readVars
  <2>5. QED
    BY <2>1, <2>2, <2>3, <2>4 DEF TypeInv
<1>17. ASSUME NEW c \in Client, ShortMessage(c) PROVE TypeInv'
  <2>1. PubTyped'
    BY <1>17, Holders
    DEF ShortMessage, TypeInv, PubTyped, AtWork, pubVars
  <2>2. BufTyped'
    BY <1>17, Holders
    DEF ShortMessage, TypeInv, BufTyped, wrVars
  <2>3. LoopTyped'
    BY <1>17, StreamAssumption
    DEF ShortMessage, TypeInv, LoopTyped, AtWork, readVars, wrVars
  <2>4. AtWork'
    BY <1>17
    DEF ShortMessage, TypeInv, LoopTyped, AtWork, pubVars, readVars
  <2>5. QED
    BY <2>1, <2>2, <2>3, <2>4 DEF TypeInv
<1>18. CASE UNCHANGED vars
  BY <1>18 DEF TypeInv, PubTyped, BufTyped, LoopTyped, AtWork, vars, pubVars,
       readVars, wrVars
<1>19. QED
  BY <1>1, <1>2, <1>3, <1>4, <1>5, <1>6, <1>7, <1>8, <1>9, <1>10,
     <1>11, <1>12, <1>13, <1>14, <1>15, <1>16, <1>17, <1>18
     DEF Next, PubStep, ReadStep, WriteStep

(* Every variable keeps its type, and what is written never exceeds what   *)
(* was pushed.                                                             *)
THEOREM TypeCorrect == Spec => []TypeOK
<1>1. TypeInv => TypeOK
  BY TypeParts DEF TypeInv
<1>2. QED
  BY <1>1, TypeInit, TypeNext, PTL DEF Spec

LEMMA TypeAlways == Spec => []TypeInv
BY TypeInit, TypeNext, PTL DEF Spec

-----------------------------------------------------------------------------
(* Who holds a tracker's mutex, and the two sides of a subscription.       *)

MuHeld ==
    /\ \A r \in Run : ppc[r] = "push" => mu[trk[pfeed[r]]] = <<"pub", r>>
    /\ \A c \in Client :
          rpc[c] \in {"data", "event"} => mu[rtr[c]] = <<"sub", c>>

Agree(c, t) ==
    /\ c \in list[t] => t \in subs[c]
    /\ t \in subs[c] /\ ~closed[c] => c \in list[t]

(* The client is in the list while Subscribe pushes to it, and enters the  *)
(* tracker in its own map afterwards.                                      *)
BothSides ==
    \A c \in Client, t \in Tracker :
        IF rtr[c] = t /\ rpc[c] \in {"data", "event"}
           THEN c \in list[t] ELSE Agree(c, t)

ListInv == MuHeld /\ BothSides

LEMMA ListInit == Init => ListInv
BY DEF Init, ListInv, MuHeld, BothSides, Agree

(* One publication at a time is in the range over a tracker's subscribers, *)
(* and none while a client subscribes.                                     *)
LEMMA OnePush ==
    ASSUME MuHeld, NEW r \in Run, ppc[r] = "push"
    PROVE  /\ mu[trk[pfeed[r]]] = <<"pub", r>>
           /\ \A q \in Run : ppc[q] = "push" /\ trk[pfeed[q]] = trk[pfeed[r]] => q = r
           /\ \A c \in Client :
                 rpc[c] \in {"data", "event"} => rtr[c] # trk[pfeed[r]]
BY Names DEF MuHeld

(* A range that has mu, or takes it, leaves the other holders alone.       *)
LEMMA MuHeldRange ==
    ASSUME TypeInv, MuHeld, NEW r \in Run, NEW f \in Feed, f = pfeed[r],
           NEW rest \in SUBSET Client, RangeEffect(r, f, rest),
           mu[trk[f]] = nil \/ mu[trk[f]] = <<"pub", r>>,
           UNCHANGED <<rpc, rtr>>
    PROVE  MuHeld'
<1>1. trk[f] \in Tracker
  BY FeedTracker
<1>2. ASSUME NEW q \in Run, ppc'[q] = "push" PROVE mu'[trk[pfeed'[q]]] = <<"pub", q>>
  <2>1. CASE q = r
    BY <1>2, <2>1 DEF RangeEffect, Leaves
  <2>2. CASE q # r
    <3>1. ppc[q] = "push" /\ pfeed'[q] = pfeed[q] /\ pfeed[q] \in Feed
      BY <1>2, <2>2 DEF RangeEffect, TypeInv, AtWork
    <3>2. mu[trk[pfeed[q]]] = <<"pub", q>> /\ trk[pfeed[q]] \in Tracker
      BY <3>1, FeedTracker DEF MuHeld
    <3>3. trk[pfeed[q]] # trk[f]
      BY <2>2, <3>2, Names
    <3>4. mu'[trk[pfeed[q]]] = mu[trk[pfeed[q]]]
      BY <3>2, <3>3 DEF RangeEffect
    <3>5. QED
      BY <3>1, <3>2, <3>4
  <2>3. QED
    BY <2>1, <2>2
<1>3. ASSUME NEW c \in Client, rpc[c] \in {"data", "event"}
      PROVE  mu'[rtr[c]] = <<"sub", c>>
  <2>1. rtr[c] \in Tracker /\ mu[rtr[c]] = <<"sub", c>>
    BY <1>3 DEF TypeInv, AtWork, MuHeld
  <2>2. rtr[c] # trk[f]
    BY <2>1, Names
  <2>3. QED
    BY <2>1, <2>2 DEF RangeEffect
<1>4. QED
  BY <1>2, <1>3 DEF MuHeld

LEMMA ListNext ==
    ASSUME TypeInv, ListInv, [Next]_vars
    PROVE  ListInv'
<1>1. ASSUME NEW r \in Run, NEW f \in Feed, Publish(r, f) PROVE ListInv'
  <2>1. /\ ppc[r] = "idle" /\ ppc' = [ppc EXCEPT ![r] = "lock"]
        /\ pfeed' = [pfeed EXCEPT ![r] = f]
        /\ UNCHANGED <<mu, list, rpc, rtr, subs, closed>>
    BY <1>1 DEF Publish, readVars
  <2>2. MuHeld'
    BY <2>1 DEF TypeInv, PubTyped, ListInv, MuHeld
  <2>3. BothSides'
    BY <2>1 DEF ListInv, BothSides, Agree
  <2>4. QED
    BY <2>2, <2>3 DEF ListInv
<1>2. ASSUME NEW r \in Run, PubLock(r) PROVE ListInv'
  <2>1. PICK f \in Feed : f = pfeed[r]
    BY <1>2, PubLockStep
  <2>2. /\ RangeEffect(r, f, list[trk[f]]) /\ list[trk[f]] \in SUBSET Client
        /\ mu[trk[f]] = nil
    BY <1>2, <2>1, PubLockStep DEF TypeInv, PubTyped
  <2>3. UNCHANGED <<list, rpc, rtr, subs, closed>>
    BY <1>2 DEF PubLock, readVars
  <2>4. MuHeld'
    BY <2>1, <2>2, <2>3, MuHeldRange DEF ListInv
  <2>5. BothSides'
    BY <2>3 DEF ListInv, BothSides, Agree
  <2>6. QED
    BY <2>4, <2>5 DEF ListInv
<1>3. ASSUME NEW r \in Run, PubPush(r) PROVE ListInv'
  <2>1. PICK f \in Feed : f = pfeed[r]
    BY <1>3, PubPushStep
  <2>2. /\ RangeEffect(r, f, ptodo[r]) /\ ptodo[r] \in SUBSET Client
        /\ trk[f] \in Tracker
    BY <1>3, <2>1, PubPushStep, FeedTracker DEF TypeInv, PubTyped
  <2>3. ppc[r] = "push" /\ UNCHANGED <<rpc, rtr, subs, closed>>
    BY <1>3 DEF PubPush, readVars
  <2>4. /\ mu[trk[f]] = <<"pub", r>>
        /\ \A c \in Client : rpc[c] \in {"data", "event"} => rtr[c] # trk[f]
    BY <2>1, <2>3, OnePush DEF ListInv
  <2>5. MuHeld'
    BY <2>1, <2>2, <2>3, <2>4, MuHeldRange DEF ListInv
  <2>6. BothSides'
    <3>1. list' = IF closed[pcur[r]]
                     THEN [list EXCEPT ![trk[f]] = @ \ {pcur[r]}] ELSE list
      BY <1>3, <2>1 DEF PubPush
    <3>2. QED
      BY <2>2, <2>3, <2>4, <3>1 DEF TypeInv, PubTyped, ListInv, BothSides, Agree
  <2>7. QED
    BY <2>5, <2>6 DEF ListInv
<1>4. ASSUME NEW c \in Client, NEW t \in Tracker, AddSub(c, t) PROVE ListInv'
  <2>1. MuHeld'
    BY <1>4, Names
    DEF AddSub, TypeInv, PubTyped, LoopTyped, AtWork, ListInv, MuHeld, pubVars,
        readVars, wrVars
  <2>2. BothSides'
    BY <1>4, Names
    DEF AddSub, TypeInv, PubTyped, BufTyped, LoopTyped, AtWork, ListInv, MuHeld,
        BothSides, Agree, pubVars, readVars, wrVars
  <2>3. QED
    BY <2>1, <2>2 DEF ListInv
<1>5. ASSUME NEW c \in Client, NEW t \in Tracker, DelSub(c, t) PROVE ListInv'
  <2>1. MuHeld'
    BY <1>5, Names
    DEF DelSub, TypeInv, PubTyped, LoopTyped, AtWork, ListInv, MuHeld, pubVars,
        readVars, wrVars
  <2>2. BothSides'
    BY <1>5, Names
    DEF DelSub, TypeInv, PubTyped, BufTyped, LoopTyped, AtWork, ListInv, MuHeld,
        BothSides, Agree, pubVars, readVars, wrVars
  <2>3. QED
    BY <2>1, <2>2 DEF ListInv
<1>6. ASSUME NEW c \in Client, SubLock(c) PROVE ListInv'
  <2>1. MuHeld'
    <3>1. /\ rtr[c] \in Tracker /\ mu[rtr[c]] = nil
          /\ mu' = [mu EXCEPT ![rtr[c]] = <<"sub", c>>]
          /\ rpc' = [rpc EXCEPT ![c] = "data"]
          /\ UNCHANGED <<ppc, pfeed, rtr>>
      BY <1>6 DEF SubLock, TypeInv, AtWork, pubVars
    <3>2. ASSUME NEW r \in Run, ppc[r] = "push" PROVE mu'[trk[pfeed[r]]] = <<"pub", r>>
      <4>1. pfeed[r] \in Feed /\ trk[pfeed[r]] \in Tracker
        BY <3>2, FeedTracker DEF TypeInv, AtWork
      <4>2. mu[trk[pfeed[r]]] = <<"pub", r>> /\ <<"pub", r>> # nil
        BY <3>2, Names DEF ListInv, MuHeld
      <4>3. QED
        BY <3>1, <4>1, <4>2 DEF TypeInv, PubTyped
    <3>3. ASSUME NEW d \in Client, rpc'[d] \in {"data", "event"}
          PROVE  mu'[rtr[d]] = <<"sub", d>>
      <4>1. CASE d = c
        BY <3>1, <4>1 DEF TypeInv, PubTyped
      <4>2. CASE d # c
        <5>1. rpc[d] \in {"data", "event"}
          BY <3>1, <3>3, <4>2 DEF TypeInv, LoopTyped
        <5>2. rtr[d] \in Tracker /\ mu[rtr[d]] = <<"sub", d>> /\ <<"sub", d>> # nil
          BY <5>1, Names DEF TypeInv, AtWork, ListInv, MuHeld
        <5>3. QED
          BY <3>1, <5>2 DEF TypeInv, PubTyped
      <4>3. QED
        BY <4>1, <4>2
    <3>4. QED
      BY <3>1, <3>2, <3>3 DEF MuHeld
  <2>2. BothSides'
    BY <1>6, Names
    DEF SubLock, TypeInv, PubTyped, BufTyped, LoopTyped, AtWork, ListInv, MuHeld,
        BothSides, Agree, pubVars, readVars, wrVars
  <2>3. QED
    BY <2>1, <2>2 DEF ListInv
<1>7. ASSUME NEW c \in Client, SubData(c) PROVE ListInv'
  <2>1. MuHeld'
    BY <1>7, Names
    DEF SubData, TypeInv, PubTyped, LoopTyped, AtWork, ListInv, MuHeld, pubVars,
        readVars, wrVars
  <2>2. BothSides'
    BY <1>7, Names
    DEF SubData, TypeInv, PubTyped, BufTyped, LoopTyped, AtWork, ListInv, MuHeld,
        BothSides, Agree, pubVars, readVars, wrVars
  <2>3. QED
    BY <2>1, <2>2 DEF ListInv
<1>8. ASSUME NEW c \in Client, SubEvent(c) PROVE ListInv'
  <2>1. MuHeld'
    BY <1>8, Names
    DEF SubEvent, TypeInv, PubTyped, LoopTyped, AtWork, ListInv, MuHeld, pubVars,
        readVars, wrVars
  <2>2. BothSides'
    BY <1>8, Names
    DEF SubEvent, TypeInv, PubTyped, BufTyped, LoopTyped, AtWork, ListInv, MuHeld,
        BothSides, Agree, pubVars, readVars, wrVars
  <2>3. QED
    BY <2>1, <2>2 DEF ListInv
<1>9. ASSUME NEW c \in Client, CheckLimit(c) PROVE ListInv'
  <2>1. MuHeld'
    BY <1>9, Names
    DEF CheckLimit, TypeInv, PubTyped, LoopTyped, AtWork, ListInv, MuHeld, pubVars,
        readVars, wrVars
  <2>2. BothSides'
    BY <1>9, Names
    DEF CheckLimit, TypeInv, PubTyped, BufTyped, LoopTyped, AtWork, ListInv, MuHeld,
        BothSides, Agree, pubVars, readVars, wrVars
  <2>3. QED
    BY <2>1, <2>2 DEF ListInv
<1>10. ASSUME NEW c \in Client, Unsub(c) PROVE ListInv'
  <2>1. MuHeld'
    BY <1>10, Names
    DEF Unsub, TypeInv, PubTyped, LoopTyped, AtWork, ListInv, MuHeld, pubVars,
        readVars, wrVars
  <2>2. BothSides'
    BY <1>10, Names
    DEF Unsub, TypeInv, PubTyped, BufTyped, LoopTyped, AtWork, ListInv, MuHeld,
        BothSides, Agree, pubVars, readVars, wrVars
  <2>3. QED
    BY <2>1, <2>2 DEF ListInv
<1>11. ASSUME NEW c \in Client, ReadError(c) PROVE ListInv'
  <2>1. MuHeld'
    BY <1>11, Names
    DEF ReadError, TypeInv, PubTyped, LoopTyped, AtWork, ListInv, MuHeld, pubVars,
        readVars, wrVars
  <2>2. BothSides'
    BY <1>11, Names
    DEF ReadError, TypeInv, PubTyped, BufTyped, LoopTyped, AtWork, ListInv, MuHeld,
        BothSides, Agree, pubVars, readVars, wrVars
  <2>3. QED
    BY <2>1, <2>2 DEF ListInv
<1>12. ASSUME NEW c \in Client, ReadClose(c) PROVE ListInv'
  <2>1. MuHeld'
    BY <1>12, Names
    DEF ReadClose, TypeInv, PubTyped, LoopTyped, AtWork, ListInv, MuHeld, pubVars,
        readVars, wrVars
  <2>2. BothSides'
    BY <1>12, Names
    DEF ReadClose, TypeInv, PubTyped, BufTyped, LoopTyped, AtWork, ListInv, MuHeld,
        BothSides, Agree, pubVars, readVars, wrVars
  <2>3. QED
    BY <2>1, <2>2 DEF ListInv
<1>13. ASSUME NEW c \in Client, WriteLock(c) PROVE ListInv'
  <2>1. MuHeld'
    BY <1>13, Names
    DEF WriteLock, TypeInv, PubTyped, LoopTyped, AtWork, ListInv, MuHeld, pubVars,
        readVars, wrVars
  <2>2. BothSides'
    BY <1>13, Names
    DEF WriteLock, TypeInv, PubTyped, BufTyped, LoopTyped, AtWork, ListInv, MuHeld,
        BothSides, Agree, pubVars, readVars, wrVars
  <2>3. QED
    BY <2>1, <2>2 DEF ListInv
<1>14. ASSUME NEW c \in Client, Write(c) PROVE ListInv'
  <2>1. MuHeld'
    BY <1>14, Names
    DEF Write, TypeInv, PubTyped, LoopTyped, AtWork, ListInv, MuHeld, pubVars,
        readVars, wrVars
  <2>2. BothSides'
    BY <1>14, Names
    DEF Write, TypeInv, PubTyped, BufTyped, LoopTyped, AtWork, ListInv, MuHeld,
        BothSides, Agree, pubVars, readVars, wrVars
  <2>3. QED
    BY <2>1, <2>2 DEF ListInv
<1>15. ASSUME NEW c \in Client, WriteError(c) PROVE ListInv'
  <2>1. MuHeld'
    BY <1>15, Names
    DEF WriteError, TypeInv, PubTyped, LoopTyped, AtWork, ListInv, MuHeld, pubVars,
        readVars, wrVars
  <2>2. BothSides'
    BY <1>15, Names
    DEF WriteError, TypeInv, PubTyped, BufTyped, LoopTyped, AtWork, ListInv, MuHeld,
        BothSides, Agree, pubVars, readVars, wrVars
  <2>3. QED
    BY <2>1, <2>2 DEF ListInv
<1>16. ASSUME NEW c \in Client, WriteUnlock(c) PROVE ListInv'
  <2>1. MuHeld'
    BY <1>16, Names
    DEF WriteUnlock, TypeInv, PubTyped, LoopTyped, AtWork, ListInv, MuHeld, pubVars,
        readVars, wrVars
  <2>2. BothSides'
    BY <1>16, Names
    DEF WriteUnlock, TypeInv, PubTyped, BufTyped, LoopTyped, AtWork, ListInv, MuHeld,
        BothSides, Agree, pubVars, readVars, wrVars
  <2>3. QED
    BY <2>1, <2>2 DEF ListInv
<1>17. ASSUME NEW c \in Client, ShortMessage(c) PROVE ListInv'
  <2>1. MuHeld'
    BY <1>17, Names
    DEF ShortMessage, TypeInv, PubTyped, LoopTyped, AtWork, ListInv, MuHeld, pubVars,
        readVars, wrVars
  <2>2. BothSides'
    BY <1>17, Names
    DEF ShortMessage, TypeInv, PubTyped, BufTyped, LoopTyped, AtWork, ListInv, MuHeld,
        BothSides, Agree, pubVars, readVars, wrVars
  <2>3. QED
    BY <2>1, <2>2 DEF ListInv
<1>18. CASE UNCHANGED vars
  BY <1>18 DEF ListInv, MuHeld, BothSides, Agree, vars, pubVars, readVars, wrVars
<1>19. QED
  BY <1>1, <1>2, <1>3, <1>4, <1>5, <1>6, <1>7, <1>8, <1>9, <1>10,
     <1>11, <1>12, <1>13, <1>14, <1>15, <1>16, <1>17, <1>18
     DEF Next, PubStep, ReadStep, WriteStep

LEMMA ListAlways == Spec => []ListInv
BY TypeAlways, ListInit, ListNext, PTL DEF Spec

(* The client's map and the trackers' lists agree but for the tracker the  *)
(* client is at, whatever publications drop and however clients end.       *)
THEOREM ListsAgreeHolds == Spec => []ListsAgree
<1>1. ListInv => ListsAgree
  BY DEF ListInv, BothSides, Agree, ListsAgree
<1>2. QED
  BY <1>1, ListAlways, PTL

-----------------------------------------------------------------------------
(* Lost locks.                                                             *)

(* A goroutine in the range over the subscribers of t.                     *)
Ranging(r, t) == ppc[r] = "push" /\ trk[pfeed[r]] = t

(* A client whose lock a publication to t took away is not in the list of  *)
(* t, unless it is subscribing again and blocked at its own lock, with mu. *)
Dropped ==
    \A c \in Client, t \in Tracker :
        lock[c] = <<"pub", t>> =>
            /\ c \in list[t] => rtr[c] = t /\ rpc[c] = "data"
            /\ \A r \in Run : Ranging(r, t) => c # pcur[r] /\ c \notin ptodo[r]

OncePerRange ==
    \A r \in Run : ppc[r] = "push" => pcur[r] \notin ptodo[r]

ClosedIfLost == \A c \in Client : Lost(c) => closed[c]

LostInv == Dropped /\ OncePerRange /\ ClosedIfLost

LEMMA LostInit == Init => LostInv
<1> SUFFICES ASSUME Init PROVE LostInv
  OBVIOUS
<1>1. Dropped
  BY Names DEF Init, Dropped
<1>2. QED
  BY <1>1 DEF Init, LostInv, OncePerRange, ClosedIfLost, Lost

(* An action that takes no client's lock in the name of a publication and  *)
(* leaves the lists and the publications alone.                            *)
LEMMA LostFrame ==
    ASSUME Dropped, OncePerRange,
           \A d \in Client, u \in Tracker :
              lock'[d] = <<"pub", u>> =>
                 /\ lock[d] = <<"pub", u>>
                 /\ d \in list'[u] => d \in list[u]
                 /\ d \in list[u] /\ rtr[d] = u /\ rpc[d] = "data" =>
                       rtr'[d] = u /\ rpc'[d] = "data",
           UNCHANGED <<ppc, pfeed, ptodo, pcur>>
    PROVE  Dropped' /\ OncePerRange'
BY DEF Dropped, OncePerRange, Ranging

LEMMA LostNext ==
    ASSUME TypeInv, ListInv, LostInv, [Next]_vars
    PROVE  LostInv'
<1>1. ASSUME NEW r \in Run, NEW f \in Feed, Publish(r, f) PROVE LostInv'
  <2>1. /\ ppc[r] = "idle" /\ ppc' = [ppc EXCEPT ![r] = "lock"]
        /\ pfeed' = [pfeed EXCEPT ![r] = f]
        /\ UNCHANGED <<lock, list, rpc, rtr, closed, ptodo, pcur>>
    BY <1>1 DEF Publish, readVars
  <2>2. \A q \in Run : ppc'[q] = "push" => ppc[q] = "push" /\ pfeed'[q] = pfeed[q]
    BY <2>1 DEF TypeInv, PubTyped
  <2>3. Dropped'
    BY <2>1, <2>2 DEF LostInv, Dropped, Ranging
  <2>4. QED
    BY <2>1, <2>2, <2>3 DEF LostInv, OncePerRange, ClosedIfLost, Lost
<1>2. ASSUME NEW r \in Run, PubLock(r) PROVE LostInv'
  <2>1. PICK f \in Feed : f = pfeed[r]
    BY <1>2, PubLockStep
  <2>2. RangeEffect(r, f, list[trk[f]]) /\ trk[f] \in Tracker /\ mu[trk[f]] = nil
    BY <1>2, <2>1, PubLockStep
  <2>3. UNCHANGED <<lock, list, rpc, rtr, closed>>
    BY <1>2 DEF PubLock, readVars
  <2>4. Dropped'
    <3>1. ASSUME NEW d \in Client, NEW u \in Tracker, lock[d] = <<"pub", u>>,
                 NEW q \in Run, Ranging(q, u)'
          PROVE  d # pcur'[q] /\ d \notin ptodo'[q]
      <4>1. CASE q = r
        <5>1. u = trk[f] /\ pcur'[q] \in list[u] /\ ptodo'[q] \subseteq list[u]
          BY <2>2, <3>1, <4>1 DEF RangeEffect, Leaves, Ranging
        <5>2. d \notin list[u]
          <6>1. SUFFICES ASSUME d \in list[u] PROVE FALSE
            OBVIOUS
          <6>2. mu[trk[f]] = <<"sub", d>>
            BY <3>1, <5>1, <6>1 DEF LostInv, Dropped, ListInv, MuHeld
          <6>3. QED
            BY <2>2, <6>2, Names
        <5>3. QED
          BY <5>1, <5>2
      <4>2. CASE q # r
        <5>1. Ranging(q, u) /\ pcur'[q] = pcur[q] /\ ptodo'[q] = ptodo[q]
          BY <2>2, <3>1, <4>2 DEF RangeEffect, Ranging
        <5>2. QED
          BY <3>1, <5>1 DEF LostInv, Dropped
      <4>3. QED
        BY <4>1, <4>2
    <3>2. QED
      BY <2>3, <3>1 DEF LostInv, Dropped
  <2>5. OncePerRange'
    BY <2>2 DEF RangeEffect, Leaves, LostInv, OncePerRange
  <2>6. QED
    BY <2>3, <2>4, <2>5 DEF LostInv, ClosedIfLost, Lost
<1>3. ASSUME NEW r \in Run, PubPush(r) PROVE LostInv'
  <2>1. PICK f \in Feed : f = pfeed[r]
    BY <1>3, PubPushStep
  <2>2. PICK c \in Client : c = pcur[r]
    BY <1>3, PubPushStep
  <2>3. RangeEffect(r, f, ptodo[r]) /\ trk[f] \in Tracker
    BY <1>3, <2>1, PubPushStep, FeedTracker
  <2>4. PICK n \in Read(r) : PushEffect(<<"pub", trk[f]>>, c, <<f, n>>)
    BY <1>3, <2>1, <2>2, PubPushStep
  <2>5. /\ ppc[r] = "push" /\ c \notin ptodo[r]
        /\ UNCHANGED <<rpc, rtr, closed>>
        /\ list' = IF closed[c] THEN [list EXCEPT ![trk[f]] = @ \ {c}] ELSE list
    BY <1>3, <2>1, <2>2 DEF PubPush, readVars, LostInv, OncePerRange
  <2>6. \A u \in Tracker : list'[u] \subseteq list[u]
    BY <2>5 DEF TypeInv, PubTyped
  <2>7. \A q \in Run : ppc[q] = "push" /\ trk[pfeed[q]] = trk[f] => q = r
    BY <2>1, <2>5, OnePush DEF ListInv
  <2>8. ppc'[r] = "push" =>
           pcur'[r] \in ptodo[r] /\ ptodo'[r] \subseteq ptodo[r] /\ pfeed'[r] = f
    BY <2>3 DEF RangeEffect, Leaves
  <2>9. Dropped'
    <3>1. ASSUME NEW d \in Client, NEW u \in Tracker, lock'[d] = <<"pub", u>>,
                 lock[d] # <<"pub", u>>
          PROVE  d = c /\ u = trk[f] /\ closed[d]
      BY <2>3, <2>4, <3>1, Names DEF PushEffect
    <3>2. ASSUME NEW d \in Client, NEW u \in Tracker, lock'[d] = <<"pub", u>>
          PROVE  d \in list'[u] => rtr[d] = u /\ rpc[d] = "data"
      <4>1. CASE lock[d] # <<"pub", u>>
        <5>1. d = c /\ u = trk[f] /\ closed[d]
          BY <3>1, <3>2, <4>1
        <5>2. d \notin list'[u]
          BY <2>5, <5>1 DEF TypeInv, PubTyped
        <5>3. QED
          BY <5>2
      <4>2. CASE lock[d] = <<"pub", u>>
        BY <2>6, <4>2 DEF LostInv, Dropped
      <4>3. QED
        BY <4>1, <4>2
    <3>3. ASSUME NEW d \in Client, NEW u \in Tracker, lock'[d] = <<"pub", u>>,
                 NEW q \in Run, Ranging(q, u)'
          PROVE  d # pcur'[q] /\ d \notin ptodo'[q]
      <4>1. CASE q = r
        <5>1. u = trk[f] /\ pcur'[q] \in ptodo[r] /\ ptodo'[q] \subseteq ptodo[r]
          BY <2>8, <3>3, <4>1 DEF Ranging
        <5>2. d \notin ptodo[r]
          <6>1. CASE lock[d] # <<"pub", u>>
            BY <2>5, <3>1, <3>3, <6>1
          <6>2. CASE lock[d] = <<"pub", u>>
            BY <2>1, <2>5, <5>1, <6>2 DEF LostInv, Dropped, Ranging
          <6>3. QED
            BY <6>1, <6>2
        <5>3. QED
          BY <5>1, <5>2
      <4>2. CASE q # r
        <5>1. Ranging(q, u) /\ pcur'[q] = pcur[q] /\ ptodo'[q] = ptodo[q]
          BY <2>3, <3>3, <4>2 DEF RangeEffect, Ranging
        <5>2. u # trk[f]
          BY <2>7, <4>2, <5>1 DEF Ranging
        <5>3. lock[d] = <<"pub", u>>
          BY <3>1, <3>3, <5>2
        <5>4. QED
          BY <5>1, <5>3 DEF LostInv, Dropped
      <4>3. QED
        BY <4>1, <4>2
    <3>4. QED
      BY <2>5, <3>2, <3>3 DEF Dropped
  <2>10. OncePerRange'
    BY <2>3 DEF RangeEffect, Leaves, LostInv, OncePerRange
  <2>11. ClosedIfLost'
    <3>1. ASSUME NEW d \in Client, Lost(d)' PROVE closed[d]
      BY <2>4, <3>1 DEF PushEffect, LostInv, ClosedIfLost, Lost
    <3>2. QED
      BY <2>5, <3>1 DEF ClosedIfLost
  <2>12. QED
    BY <2>9, <2>10, <2>11 DEF LostInv
<1>4. ASSUME NEW c \in Client, NEW t \in Tracker, AddSub(c, t) PROVE LostInv'
  <2>1. Dropped' /\ OncePerRange'
    <3>1. \A d \in Client, u \in Tracker : lock'[d] = <<"pub", u>> =>
             lock[d] = <<"pub", u>>
      BY <1>4, Names DEF AddSub, TypeInv, BufTyped, wrVars
    <3>2. \A d \in Client, u \in Tracker :
             /\ d \in list'[u] => d \in list[u]
             /\ rtr[d] = u /\ rpc[d] = "data" => rtr'[d] = u /\ rpc'[d] = "data"
      BY <1>4 DEF AddSub, TypeInv, PubTyped, LoopTyped, AtWork, readVars
    <3>3. UNCHANGED <<ppc, pfeed, ptodo, pcur>>
      BY <1>4 DEF AddSub, pubVars
    <3>4. QED
      BY <3>1, <3>2, <3>3, LostFrame DEF LostInv
  <2>2. ClosedIfLost'
    BY <1>4, Names
    DEF AddSub, TypeInv, BufTyped, LostInv, ClosedIfLost, Lost, pubVars, readVars,
        wrVars
  <2>3. QED
    BY <2>1, <2>2 DEF LostInv
<1>5. ASSUME NEW c \in Client, NEW t \in Tracker, DelSub(c, t) PROVE LostInv'
  <2>1. Dropped' /\ OncePerRange'
    <3>1. \A d \in Client, u \in Tracker : lock'[d] = <<"pub", u>> =>
             lock[d] = <<"pub", u>>
      BY <1>5, Names DEF DelSub, TypeInv, BufTyped, wrVars
    <3>2. \A d \in Client, u \in Tracker :
             /\ d \in list'[u] => d \in list[u]
             /\ rtr[d] = u /\ rpc[d] = "data" => rtr'[d] = u /\ rpc'[d] = "data"
      BY <1>5 DEF DelSub, TypeInv, PubTyped, LoopTyped, AtWork, readVars
    <3>3. UNCHANGED <<ppc, pfeed, ptodo, pcur>>
      BY <1>5 DEF DelSub, pubVars
    <3>4. QED
      BY <3>1, <3>2, <3>3, LostFrame DEF LostInv
  <2>2. ClosedIfLost'
    BY <1>5, Names
    DEF DelSub, TypeInv, BufTyped, LostInv, ClosedIfLost, Lost, pubVars, readVars,
        wrVars
  <2>3. QED
    BY <2>1, <2>2 DEF LostInv
<1>6. ASSUME NEW c \in Client, SubLock(c) PROVE LostInv'
  <2>1. /\ rtr[c] \in Tracker
        /\ list' = [list EXCEPT ![rtr[c]] = @ \cup {c}]
        /\ rpc[c] = "sub" /\ rpc' = [rpc EXCEPT ![c] = "data"]
        /\ UNCHANGED <<lock, rtr, closed, ppc, pfeed, ptodo, pcur>>
    BY <1>6 DEF SubLock, TypeInv, AtWork, pubVars
  <2>2. Dropped'
    <3>1. ASSUME NEW d \in Client, NEW u \in Tracker, lock[d] = <<"pub", u>>,
                 d \in list'[u]
          PROVE  rtr[d] = u /\ rpc'[d] = "data"
      <4>1. CASE d = c /\ u = rtr[c]
        BY <2>1, <4>1 DEF TypeInv, LoopTyped
      <4>2. CASE ~(d = c /\ u = rtr[c])
        <5>1. d \in list[u]
          BY <2>1, <3>1, <4>2 DEF TypeInv, PubTyped
        <5>2. rtr[d] = u /\ rpc[d] = "data"
          BY <3>1, <5>1 DEF LostInv, Dropped
        <5>3. QED
          BY <2>1, <5>2 DEF TypeInv, LoopTyped
      <4>3. QED
        BY <4>1, <4>2
    <3>2. QED
      BY <2>1, <3>1 DEF LostInv, Dropped, Ranging
  <2>3. QED
    BY <2>1, <2>2 DEF LostInv, OncePerRange, ClosedIfLost, Lost
<1>7. ASSUME NEW c \in Client, SubData(c) PROVE LostInv'
  <2>1. PushEffect(<<"sub", c>>, c, Placeholder)
    BY <1>7, SubPushStep
  <2>2. \A d \in Client, u \in Tracker : lock'[d] = <<"pub", u>> =>
           d # c /\ lock[d] = <<"pub", u>>
    BY <2>1, Names DEF PushEffect
  <2>3. Dropped' /\ OncePerRange'
    BY <1>7, <2>2, LostFrame
    DEF SubData, LostInv, TypeInv, LoopTyped, pubVars
  <2>4. ClosedIfLost'
    <3>1. ASSUME NEW d \in Client, Lost(d)' PROVE closed[d]
      BY <2>1, <3>1 DEF PushEffect, LostInv, ClosedIfLost, Lost
    <3>2. QED
      BY <1>7, <3>1 DEF SubData, ClosedIfLost
  <2>5. QED
    BY <2>3, <2>4 DEF LostInv
<1>8. ASSUME NEW c \in Client, SubEvent(c) PROVE LostInv'
  <2>1. PushEffect(<<"sub", c>>, c, Placeholder)
    BY <1>8, SubPushStep
  <2>2. \A d \in Client, u \in Tracker : lock'[d] = <<"pub", u>> =>
           d # c /\ lock[d] = <<"pub", u>>
    BY <2>1, Names DEF PushEffect
  <2>3. Dropped' /\ OncePerRange'
    BY <1>8, <2>2, LostFrame
    DEF SubEvent, LostInv, TypeInv, LoopTyped, pubVars
  <2>4. ClosedIfLost'
    <3>1. ASSUME NEW d \in Client, Lost(d)' PROVE closed[d]
      BY <2>1, <3>1 DEF PushEffect, LostInv, ClosedIfLost, Lost
    <3>2. QED
      BY <1>8, <3>1 DEF SubEvent, ClosedIfLost
  <2>5. QED
    BY <2>3, <2>4 DEF LostInv
<1>9. ASSUME NEW c \in Client, CheckLimit(c) PROVE LostInv'
  <2>1. Dropped' /\ OncePerRange'
    <3>1. \A d \in Client, u \in Tracker : lock'[d] = <<"pub", u>> =>
             lock[d] = <<"pub", u>>
      BY <1>9, Names DEF CheckLimit, TypeInv, BufTyped, wrVars
    <3>2. \A d \in Client, u \in Tracker :
             /\ d \in list'[u] => d \in list[u]
             /\ rtr[d] = u /\ rpc[d] = "data" => rtr'[d] = u /\ rpc'[d] = "data"
      BY <1>9 DEF CheckLimit, TypeInv, PubTyped, LoopTyped, AtWork, readVars
    <3>3. UNCHANGED <<ppc, pfeed, ptodo, pcur>>
      BY <1>9 DEF CheckLimit, pubVars
    <3>4. QED
      BY <3>1, <3>2, <3>3, LostFrame DEF LostInv
  <2>2. ClosedIfLost'
    BY <1>9, Names
    DEF CheckLimit, TypeInv, BufTyped, LostInv, ClosedIfLost, Lost, pubVars, readVars,
        wrVars
  <2>3. QED
    BY <2>1, <2>2 DEF LostInv
<1>10. ASSUME NEW c \in Client, Unsub(c) PROVE LostInv'
  <2>1. Dropped' /\ OncePerRange'
    <3>1. \A d \in Client, u \in Tracker : lock'[d] = <<"pub", u>> =>
             lock[d] = <<"pub", u>>
      BY <1>10, Names DEF Unsub, TypeInv, BufTyped, wrVars
    <3>2. \A d \in Client, u \in Tracker :
             /\ d \in list'[u] => d \in list[u]
             /\ rtr[d] = u /\ rpc[d] = "data" => rtr'[d] = u /\ rpc'[d] = "data"
      BY <1>10 DEF Unsub, TypeInv, PubTyped, LoopTyped, AtWork, readVars
    <3>3. UNCHANGED <<ppc, pfeed, ptodo, pcur>>
      BY <1>10 DEF Unsub, pubVars
    <3>4. QED
      BY <3>1, <3>2, <3>3, LostFrame DEF LostInv
  <2>2. ClosedIfLost'
    BY <1>10, Names
    DEF Unsub, TypeInv, BufTyped, LostInv, ClosedIfLost, Lost, pubVars, readVars,
        wrVars
  <2>3. QED
    BY <2>1, <2>2 DEF LostInv
<1>11. ASSUME NEW c \in Client, ReadError(c) PROVE LostInv'
  <2>1. Dropped' /\ OncePerRange'
    <3>1. \A d \in Client, u \in Tracker : lock'[d] = <<"pub", u>> =>
             lock[d] = <<"pub", u>>
      BY <1>11, Names DEF ReadError, TypeInv, BufTyped, wrVars
    <3>2. \A d \in Client, u \in Tracker :
             /\ d \in list'[u] => d \in list[u]
             /\ rtr[d] = u /\ rpc[d] = "data" => rtr'[d] = u /\ rpc'[d] = "data"
      BY <1>11 DEF ReadError, TypeInv, PubTyped, LoopTyped, AtWork, readVars
    <3>3. UNCHANGED <<ppc, pfeed, ptodo, pcur>>
      BY <1>11 DEF ReadError, pubVars
    <3>4. QED
      BY <3>1, <3>2, <3>3, LostFrame DEF LostInv
  <2>2. ClosedIfLost'
    BY <1>11, Names
    DEF ReadError, TypeInv, BufTyped, LostInv, ClosedIfLost, Lost, pubVars, readVars,
        wrVars
  <2>3. QED
    BY <2>1, <2>2 DEF LostInv
<1>12. ASSUME NEW c \in Client, ReadClose(c) PROVE LostInv'
  <2>1. Dropped' /\ OncePerRange'
    <3>1. \A d \in Client, u \in Tracker : lock'[d] = <<"pub", u>> =>
             lock[d] = <<"pub", u>>
      BY <1>12, Names DEF ReadClose, TypeInv, BufTyped, wrVars
    <3>2. \A d \in Client, u \in Tracker :
             /\ d \in list'[u] => d \in list[u]
             /\ rtr[d] = u /\ rpc[d] = "data" => rtr'[d] = u /\ rpc'[d] = "data"
      BY <1>12 DEF ReadClose, TypeInv, PubTyped, LoopTyped, AtWork, readVars
    <3>3. UNCHANGED <<ppc, pfeed, ptodo, pcur>>
      BY <1>12 DEF ReadClose, pubVars
    <3>4. QED
      BY <3>1, <3>2, <3>3, LostFrame DEF LostInv
  <2>2. ClosedIfLost'
    BY <1>12, Names
    DEF ReadClose, TypeInv, BufTyped, LostInv, ClosedIfLost, Lost, pubVars, readVars,
        wrVars
  <2>3. QED
    BY <2>1, <2>2 DEF LostInv
<1>13. ASSUME NEW c \in Client, WriteLock(c) PROVE LostInv'
  <2>1. Dropped' /\ OncePerRange'
    <3>1. \A d \in Client, u \in Tracker : lock'[d] = <<"pub", u>> =>
             lock[d] = <<"pub", u>>
      BY <1>13, Names DEF WriteLock, TypeInv, BufTyped, wrVars
    <3>2. \A d \in Client, u \in Tracker :
             /\ d \in list'[u] => d \in list[u]
             /\ rtr[d] = u /\ rpc[d] = "data" => rtr'[d] = u /\ rpc'[d] = "data"
      BY <1>13 DEF WriteLock, TypeInv, PubTyped, LoopTyped, AtWork, readVars
    <3>3. UNCHANGED <<ppc, pfeed, ptodo, pcur>>
      BY <1>13 DEF WriteLock, pubVars
    <3>4. QED
      BY <3>1, <3>2, <3>3, LostFrame DEF LostInv
  <2>2. ClosedIfLost'
    BY <1>13, Names
    DEF WriteLock, TypeInv, BufTyped, LostInv, ClosedIfLost, Lost, pubVars, readVars,
        wrVars
  <2>3. QED
    BY <2>1, <2>2 DEF LostInv
<1>14. ASSUME NEW c \in Client, Write(c) PROVE LostInv'
  <2>1. Dropped' /\ OncePerRange'
    <3>1. \A d \in Client, u \in Tracker : lock'[d] = <<"pub", u>> =>
             lock[d] = <<"pub", u>>
      BY <1>14, Names DEF Write, TypeInv, BufTyped, wrVars
    <3>2. \A d \in Client, u \in Tracker :
             /\ d \in list'[u] => d \in list[u]
             /\ rtr[d] = u /\ rpc[d] = "data" => rtr'[d] = u /\ rpc'[d] = "data"
      BY <1>14 DEF Write, TypeInv, PubTyped, LoopTyped, AtWork, readVars
    <3>3. UNCHANGED <<ppc, pfeed, ptodo, pcur>>
      BY <1>14 DEF Write, pubVars
    <3>4. QED
      BY <3>1, <3>2, <3>3, LostFrame DEF LostInv
  <2>2. ClosedIfLost'
    BY <1>14, Names
    DEF Write, TypeInv, BufTyped, LostInv, ClosedIfLost, Lost, pubVars, readVars,
        wrVars
  <2>3. QED
    BY <2>1, <2>2 DEF LostInv
<1>15. ASSUME NEW c \in Client, WriteError(c) PROVE LostInv'
  <2>1. Dropped' /\ OncePerRange'
    <3>1. \A d \in Client, u \in Tracker : lock'[d] = <<"pub", u>> =>
             lock[d] = <<"pub", u>>
      BY <1>15, Names DEF WriteError, TypeInv, BufTyped, wrVars
    <3>2. \A d \in Client, u \in Tracker :
             /\ d \in list'[u] => d \in list[u]
             /\ rtr[d] = u /\ rpc[d] = "data" => rtr'[d] = u /\ rpc'[d] = "data"
      BY <1>15 DEF WriteError, TypeInv, PubTyped, LoopTyped, AtWork, readVars
    <3>3. UNCHANGED <<ppc, pfeed, ptodo, pcur>>
      BY <1>15 DEF WriteError, pubVars
    <3>4. QED
      BY <3>1, <3>2, <3>3, LostFrame DEF LostInv
  <2>2. ClosedIfLost'
    BY <1>15, Names
    DEF WriteError, TypeInv, BufTyped, LostInv, ClosedIfLost, Lost, pubVars, readVars,
        wrVars
  <2>3. QED
    BY <2>1, <2>2 DEF LostInv
<1>16. ASSUME NEW c \in Client, WriteUnlock(c) PROVE LostInv'
  <2>1. Dropped' /\ OncePerRange'
    <3>1. \A d \in Client, u \in Tracker : lock'[d] = <<"pub", u>> =>
             lock[d] = <<"pub", u>>
      BY <1>16, Names DEF WriteUnlock, TypeInv, BufTyped, wrVars
    <3>2. \A d \in Client, u \in Tracker :
             /\ d \in list'[u] => d \in list[u]
             /\ rtr[d] = u /\ rpc[d] = "data" => rtr'[d] = u /\ rpc'[d] = "data"
      BY <1>16 DEF WriteUnlock, TypeInv, PubTyped, LoopTyped, AtWork, readVars
    <3>3. UNCHANGED <<ppc, pfeed, ptodo, pcur>>
      BY <1>16 DEF WriteUnlock, pubVars
    <3>4. QED
      BY <3>1, <3>2, <3>3, LostFrame DEF LostInv
  <2>2. ClosedIfLost'
    BY <1>16, Names
    DEF WriteUnlock, TypeInv, BufTyped, LostInv, ClosedIfLost, Lost, pubVars, readVars,
        wrVars
  <2>3. QED
    BY <2>1, <2>2 DEF LostInv
<1>17. ASSUME NEW c \in Client, ShortMessage(c) PROVE LostInv'
  <2>1. Dropped' /\ OncePerRange'
    <3>1. \A d \in Client, u \in Tracker : lock'[d] = <<"pub", u>> =>
             lock[d] = <<"pub", u>>
      BY <1>17, Names DEF ShortMessage, TypeInv, BufTyped, wrVars
    <3>2. \A d \in Client, u \in Tracker :
             /\ d \in list'[u] => d \in list[u]
             /\ rtr[d] = u /\ rpc[d] = "data" => rtr'[d] = u /\ rpc'[d] = "data"
      BY <1>17 DEF ShortMessage, TypeInv, PubTyped, LoopTyped, AtWork, readVars
    <3>3. UNCHANGED <<ppc, pfeed, ptodo, pcur>>
      BY <1>17 DEF ShortMessage, pubVars
    <3>4. QED
      BY <3>1, <3>2, <3>3, LostFrame DEF LostInv
  <2>2. ClosedIfLost'
    BY <1>17, Names
    DEF ShortMessage, TypeInv, BufTyped, LostInv, ClosedIfLost, Lost, pubVars, readVars,
        wrVars
  <2>3. QED
    BY <2>1, <2>2 DEF LostInv
<1>18. CASE UNCHANGED vars
  BY <1>18 DEF LostInv, Dropped, Ranging, OncePerRange, ClosedIfLost, Lost,
       vars, pubVars, readVars, wrVars
<1>19. QED
  BY <1>1, <1>2, <1>3, <1>4, <1>5, <1>6, <1>7, <1>8, <1>9, <1>10,
     <1>11, <1>12, <1>13, <1>14, <1>15, <1>16, <1>17, <1>18
     DEF Next, PubStep, ReadStep, WriteStep

LEMMA LostAlways == Spec => []LostInv
BY TypeAlways, ListAlways, LostInit, LostNext, PTL DEF Spec

(* A lock is lost of closed clients only, and never stops a later          *)
(* publication to the tracker whose publication lost it, whichever device  *)
(* or goroutine makes it.                                                  *)
THEOREM StuckOnAnotherHolds == Spec => []StuckOnAnother
<1>1. TypeInv /\ LostInv => StuckOnAnother
  <2> SUFFICES ASSUME TypeInv, LostInv PROVE StuckOnAnother
    OBVIOUS
  <2>1. ASSUME NEW r \in Run, ppc[r] = "push"
        PROVE  lock[pcur[r]] # <<"pub", trk[pfeed[r]]>>
    <3>1. pcur[r] \in Client /\ trk[pfeed[r]] \in Tracker
      BY <2>1, FeedTracker DEF TypeInv, AtWork
    <3>2. QED
      BY <2>1, <3>1 DEF LostInv, Dropped, Ranging
  <2>2. QED
    BY <2>1 DEF LostInv, ClosedIfLost, StuckOnAnother
<1>2. QED
  BY <1>1, TypeAlways, LostAlways, PTL

-----------------------------------------------------------------------------
(* No gap.                                                                 *)

(* Goroutines that publish f, those of them that wait for mu, and the      *)
(* subscribers that the range has not pushed to.                           *)
In(r, f) == ppc[r] # "idle" /\ pfeed[r] = f
Waiting(f) == \E q \in Run : ppc[q] = "lock" /\ pfeed[q] = f
Behind(c, f) ==
    \E r \in Run : /\ ppc[r] = "push" /\ pfeed[r] = f
                   /\ c = pcur[r] \/ c \in ptodo[r]

(* Clients that are to be pushed the value assigned last.                  *)
Late(c, f) == (c \in list[trk[f]] /\ Waiting(f)) \/ Behind(c, f)

(* Publications of a field that do not overlap are alone with it.          *)
Alone(f) ==
    ~raced[f] => /\ \A q, r \in Run : In(q, f) /\ In(r, f) => q = r
                 /\ torn[f] => \A r \in Run : ~In(r, f)

(* Clients that have been pushed it, or are one publication behind.        *)
Due(c, f) ==
    /\ upto[c][f] <= pub[f]
    /\ ~raced[f] /\ Late(c, f) => upto[c][f] + 1 = pub[f]
    /\ c \in list[trk[f]] /\ ~Late(c, f) => upto[c][f] = pub[f]

UpToDate ==
    \A f \in Feed, c \in Client : Alone(f) /\ Due(c, f)

LEMMA UpToDateInit == Init => UpToDate
<1> SUFFICES ASSUME Init, NEW f \in Feed, NEW c \in Client PROVE Alone(f) /\ Due(c, f)
  BY DEF UpToDate
<1>1. trk[f] \in Tracker
  BY FeedTracker
<1>2. Alone(f)
  BY DEF Init, Alone, In
<1>3. upto[c][f] = 0 /\ pub[f] = 0 /\ list[trk[f]] = {} /\ ~Behind(c, f)
  BY <1>1 DEF Init, Behind
<1>4. QED
  BY <1>2, <1>3 DEF Due, Late

(* A step that leaves publications and what was pushed alone, and enters   *)
(* nobody in a list.                                                       *)
LEMMA UpToDateFrame ==
    ASSUME UpToDate, UNCHANGED <<pubVars, upto>>,
           \A t \in Tracker : list'[t] \subseteq list[t]
    PROVE  UpToDate'
<1> SUFFICES ASSUME NEW f \in Feed, NEW c \in Client PROVE Alone(f)' /\ Due(c, f)'
  BY DEF UpToDate
<1>1. UNCHANGED <<pub, torn, raced, ppc, pfeed, ptodo, pcur, upto>>
  BY DEF pubVars
<1>2. list'[trk[f]] \subseteq list[trk[f]] /\ Alone(f) /\ Due(c, f)
  BY FeedTracker DEF UpToDate
<1>3. Waiting(f)' = Waiting(f) /\ Behind(c, f)' = Behind(c, f)
  BY <1>1 DEF Waiting, Behind
<1>4. Late(c, f)' => Late(c, f)
  BY <1>2, <1>3 DEF Late
<1>5. c \in list'[trk[f]] /\ ~Late(c, f)' => ~Late(c, f)
  BY <1>2, <1>3 DEF Late
<1>6. Alone(f)'
  BY <1>1, <1>2 DEF Alone, In
<1>7. Due(c, f)'
  BY <1>1, <1>2, <1>4, <1>5 DEF Due
<1>8. QED
  BY <1>6, <1>7

(* Other feeds than the one the goroutine r publishes.                     *)
LEMMA OtherFeed ==
    ASSUME TypeInv, NEW r \in Run, NEW g \in Feed, ~In(r, g), ~In(r, g)',
           \A q \in Run \ {r} :
              /\ ppc'[q] = ppc[q] /\ pfeed'[q] = pfeed[q]
              /\ ptodo'[q] = ptodo[q] /\ pcur'[q] = pcur[q],
           pub'[g] = pub[g], torn'[g] = torn[g], raced'[g] = raced[g],
           NEW c \in Client, upto'[c][g] = upto[c][g],
           \A t \in Tracker : list'[t] \subseteq list[t],
           Alone(g), Due(c, g)
    PROVE  Alone(g)' /\ Due(c, g)'
<1>1. \A q \in Run : In(q, g)' <=> In(q, g)
  BY DEF In
<1>2. Alone(g)'
  BY <1>1 DEF Alone
<1>3. Waiting(g)' = Waiting(g)
  BY DEF Waiting, In
<1>4. Behind(c, g)' = Behind(c, g)
  BY DEF Behind, In
<1>5. list'[trk[g]] \subseteq list[trk[g]]
  BY FeedTracker
<1>6. Late(c, g)' => Late(c, g)
  BY <1>3, <1>4, <1>5 DEF Late
<1>7. c \in list'[trk[g]] /\ ~Late(c, g)' => c \in list[trk[g]] /\ ~Late(c, g)
  BY <1>3, <1>4, <1>5 DEF Late
<1>8. Due(c, g)'
  BY <1>6, <1>7 DEF Due
<1>9. QED
  BY <1>2, <1>8

LEMMA UpToDateNext ==
    ASSUME TypeInv, ListInv, LostInv, UpToDate, [Next]_vars
    PROVE  UpToDate'
<1>1. ASSUME NEW r \in Run, NEW f \in Feed, Publish(r, f) PROVE UpToDate'
  <2>1. /\ ppc[r] = "idle"
        /\ pub' = [pub EXCEPT ![f] = @ + 1]
        /\ ppc' = [ppc EXCEPT ![r] = "lock"]
        /\ pfeed' = [pfeed EXCEPT ![r] = f]
        /\ UNCHANGED <<list, upto, ptodo, pcur>>
    BY <1>1 DEF Publish
  <2>2. PICK b \in BOOLEAN : /\ b => Assigning(f, r) # {}
                             /\ torn' = [torn EXCEPT ![f] = b]
    BY <1>1 DEF Publish
  <2>3. raced' = [raced EXCEPT ![f] = @ \/ Inside(f, r) # {}]
    BY <1>1 DEF Publish
  <2>4. /\ raced'[f] = (raced[f] \/ Inside(f, r) # {})
        /\ \A g \in Feed \ {f} : raced'[g] = raced[g]
    BY <2>3, Zenon DEF TypeInv, PubTyped
  <2>5. /\ torn'[f] = b /\ pub'[f] = pub[f] + 1
        /\ \A g \in Feed \ {f} : torn'[g] = torn[g] /\ pub'[g] = pub[g]
    BY <2>1, <2>2 DEF TypeInv, PubTyped
  <2>6. \A q \in Run \ {r} : /\ ppc'[q] = ppc[q] /\ pfeed'[q] = pfeed[q]
                             /\ ptodo'[q] = ptodo[q] /\ pcur'[q] = pcur[q]
    BY <2>1 DEF TypeInv, PubTyped
  <2>7. ppc'[r] = "lock" /\ pfeed'[r] = f
    BY <2>1 DEF TypeInv, PubTyped
  <2>8. ASSUME NEW g \in Feed, NEW c \in Client PROVE Alone(g)' /\ Due(c, g)'
    <3>1. Alone(g) /\ Due(c, g) /\ upto'[c][g] = upto[c][g]
      BY <2>1 DEF UpToDate
    <3>2. CASE g # f
      <4>1. ~In(r, g) /\ ~In(r, g)'
        BY <2>1, <2>7, <3>2 DEF In
      <4>2. \A t \in Tracker : list'[t] \subseteq list[t]
        BY <2>1
      <4>3. QED
        BY <2>4, <2>5, <2>6, <3>1, <3>2, <4>1, <4>2, OtherFeed
    <3>3. CASE g = f
      <4>1. pub[f] \in Nat /\ upto[c][f] \in Nat
        BY StreamAssumption DEF TypeInv, PubTyped, LoopTyped
      <4>2. ~raced'[f] => ~raced[f] /\ \A q \in Run : ~In(q, f)
        BY <2>1, <2>4 DEF Inside, In
      <4>3. ~raced'[f] => ~b
        BY <2>2, <2>4 DEF Inside, Assigning
      <4>4. Waiting(f)'
        BY <2>7 DEF Waiting
      <4>5. ASSUME ~raced'[f]
            PROVE  \A p, q \in Run : In(p, f)' /\ In(q, f)' => p = q
        BY <2>6, <4>2, <4>5 DEF In
      <4>6. Alone(f)'
        BY <2>5, <4>3, <4>5 DEF Alone
      <4>7. ASSUME ~raced'[f], Late(c, f)' PROVE upto[c][f] = pub[f]
        <5>1. ~Waiting(f) /\ ~Behind(c, f)
          BY <4>2, <4>7 DEF Waiting, Behind, In
        <5>2. ~Behind(c, f)'
          BY <2>6, <2>7, <4>2, <4>7 DEF Behind, In
        <5>3. c \in list[trk[f]] /\ ~Late(c, f)
          BY <2>1, <4>7, <5>1, <5>2 DEF Late
        <5>4. QED
          BY <3>1, <3>3, <5>3 DEF Due
      <4>8. c \in list[trk[f]] => Late(c, f)'
        BY <2>1, <4>4 DEF Late
      <4>9. upto[c][f] <= pub[f]
        BY <3>1, <3>3 DEF Due
      <4>10. upto[c][f] <= pub'[f] /\ (upto[c][f] = pub[f] => upto[c][f] + 1 = pub'[f])
        BY <2>5, <4>1, <4>9
      <4>11. Due(c, f)'
        BY <2>1, <3>1, <3>3, <4>7, <4>8, <4>10 DEF Due
      <4>12. QED
        BY <3>3, <4>6, <4>11
    <3>4. QED
      BY <3>2, <3>3
  <2>9. QED
    BY <2>8 DEF UpToDate
<1>2. ASSUME NEW r \in Run, PubLock(r) PROVE UpToDate'
  <2>1. PICK f \in Feed : f = pfeed[r]
    BY <1>2, PubLockStep
  <2>2. /\ RangeEffect(r, f, list[trk[f]]) /\ trk[f] \in Tracker
        /\ mu[trk[f]] = nil /\ ppc[r] = "lock"
    BY <1>2, <2>1, PubLockStep
  <2>3. UNCHANGED <<list, pub, torn, upto>>
    BY <1>2 DEF PubLock
  <2>4. \A q \in Run \ {r} : /\ ppc'[q] = ppc[q] /\ pfeed'[q] = pfeed[q]
                             /\ ptodo'[q] = ptodo[q] /\ pcur'[q] = pcur[q]
    BY <2>2 DEF RangeEffect
  <2>5. \A c \in Client : ~Behind(c, f)
    <3>1. ASSUME NEW q \in Run, ppc[q] = "push", pfeed[q] = f PROVE FALSE
      BY <2>2, <3>1, Names DEF ListInv, MuHeld
    <3>2. QED
      BY <3>1 DEF Behind
  <2>6. In(r, f) /\ Waiting(f)
    BY <2>1, <2>2 DEF In, Waiting
  <2>7. ASSUME NEW g \in Feed, NEW c \in Client PROVE Alone(g)' /\ Due(c, g)'
    <3>1. Alone(g) /\ Due(c, g) /\ upto'[c][g] = upto[c][g]
      BY <2>3 DEF UpToDate
    <3>2. CASE g # f
      <4>1. ~In(r, g) /\ ~In(r, g)'
        BY <2>1, <2>2, <3>2 DEF In, RangeEffect, Leaves
      <4>2. raced'[g] = raced[g]
        BY <2>2, <3>2 DEF RangeEffect
      <4>3. \A t \in Tracker : list'[t] \subseteq list[t]
        BY <2>3
      <4>4. QED
        BY <2>3, <2>4, <3>1, <4>1, <4>2, <4>3, OtherFeed
    <3>3. CASE g = f /\ ppc'[r] = "push"
      <4>1. /\ pfeed'[r] = f /\ raced'[f] = raced[f] /\ In(r, f)'
            /\ \A d \in list[trk[f]] : d = pcur'[r] \/ d \in ptodo'[r]
            /\ pcur'[r] \in list[trk[f]] /\ ptodo'[r] \subseteq list[trk[f]]
        BY <2>2, <3>3 DEF RangeEffect, Leaves, In
      <4>2. \A q \in Run : In(q, f)' <=> In(q, f)
        BY <2>4, <2>6, <4>1 DEF In
      <4>3. Alone(f)'
        BY <2>3, <3>1, <3>3, <4>1, <4>2 DEF Alone
      <4>4. Behind(c, f)' <=> c \in list[trk[f]]
        <5>1. Behind(c, f)' => c \in list[trk[f]]
          <6>1. SUFFICES ASSUME Behind(c, f)' PROVE c \in list[trk[f]]
            OBVIOUS
          <6>2. PICK q \in Run : /\ ppc'[q] = "push" /\ pfeed'[q] = f
                                 /\ c = pcur'[q] \/ c \in ptodo'[q]
            BY <6>1 DEF Behind
          <6>3. CASE q = r
            BY <4>1, <6>2, <6>3
          <6>4. CASE q # r
            BY <2>4, <2>5, <6>2, <6>4 DEF Behind
          <6>5. QED
            BY <6>3, <6>4
        <5>2. c \in list[trk[f]] => Behind(c, f)'
          BY <3>3, <4>1 DEF Behind
        <5>3. QED
          BY <5>1, <5>2
      <4>5. Late(c, f)' <=> c \in list[trk[f]]
        BY <2>3, <4>4 DEF Late
      <4>6. c \in list[trk[f]] => Late(c, f)
        BY <2>6 DEF Late
      <4>7. Due(c, f)'
        BY <2>3, <3>1, <3>3, <4>1, <4>5, <4>6 DEF Due
      <4>8. QED
        BY <3>3, <4>3, <4>7
    <3>4. CASE g = f /\ ppc'[r] # "push"
      <4>1. list[trk[f]] = {} /\ Leaves(r, f)
        BY <2>2, <3>4 DEF RangeEffect
      <4>2. ~In(r, f)' /\ \A q \in Run : In(q, f)' => In(q, f) /\ q # r
        BY <2>4, <4>1 DEF Leaves, In
      <4>3. ~raced'[f] => \A q \in Run : ~In(q, f)'
        <5>1. ~raced'[f] /\ ~raced[f] => \A q \in Run : ~In(q, f)'
          BY <2>6, <3>1, <3>4, <4>2 DEF Alone
        <5>2. ~raced'[f] /\ Inside(f, r) = {} => \A q \in Run : ~In(q, f)'
          BY <4>2 DEF Inside, In
        <5>3. QED
          BY <4>1, <5>1, <5>2 DEF Leaves
      <4>4. Alone(f)'
        BY <4>3 DEF Alone
      <4>5. ~Behind(c, f)'
        BY <2>4, <2>5, <3>4 DEF Behind
      <4>6. ~Late(c, f)' /\ c \notin list'[trk[f]]
        BY <2>3, <4>1, <4>5 DEF Late
      <4>7. Due(c, f)'
        BY <2>3, <3>1, <3>4, <4>6 DEF Due
      <4>8. QED
        BY <3>4, <4>4, <4>7
    <3>5. QED
      BY <3>2, <3>3, <3>4
  <2>8. QED
    BY <2>7 DEF UpToDate
<1>3. ASSUME NEW r \in Run, PubPush(r) PROVE UpToDate'
  <2>1. PICK f \in Feed : f = pfeed[r]
    BY <1>3, PubPushStep
  <2>2. PICK p \in Client : p = pcur[r]
    BY <1>3, PubPushStep
  <2>3. RangeEffect(r, f, ptodo[r]) /\ trk[f] \in Tracker
    BY <1>3, <2>1, PubPushStep, FeedTracker
  <2>4. /\ ppc[r] = "push" /\ p \notin ptodo[r]
        /\ UNCHANGED <<pub, torn>>
        /\ list' = IF closed[p] THEN [list EXCEPT ![trk[f]] = @ \ {p}] ELSE list
        /\ upto' = IF closed[p] THEN upto ELSE [upto EXCEPT ![p][f] = pub[f]]
    BY <1>3, <2>1, <2>2 DEF PubPush, LostInv, OncePerRange
  <2>5. \A u \in Tracker : list'[u] \subseteq list[u]
    BY <2>4 DEF TypeInv, PubTyped
  <2>6. \A q \in Run : ppc[q] = "push" /\ pfeed[q] = f => q = r
    BY <2>1, <2>4, OnePush DEF ListInv
  <2>7. \A q \in Run \ {r} : /\ ppc'[q] = ppc[q] /\ pfeed'[q] = pfeed[q]
                             /\ ptodo'[q] = ptodo[q] /\ pcur'[q] = pcur[q]
    BY <2>3 DEF RangeEffect
  <2>8. In(r, f)
    BY <2>1, <2>4 DEF In
  <2>9. ASSUME NEW g \in Feed, NEW c \in Client PROVE Alone(g)' /\ Due(c, g)'
    <3>1. Alone(g) /\ Due(c, g)
      BY DEF UpToDate
    <3>2. c # p \/ g # f => upto'[c][g] = upto[c][g]
      BY <2>4 DEF TypeInv, LoopTyped
    <3>3. CASE g # f
      <4>1. ~In(r, g) /\ ~In(r, g)'
        BY <2>1, <2>3, <2>4, <3>3 DEF In, RangeEffect, Leaves
      <4>2. raced'[g] = raced[g]
        BY <2>3, <3>3 DEF RangeEffect
      <4>3. QED
        BY <2>4, <2>5, <2>7, <3>1, <3>2, <3>3, <4>1, <4>2, OtherFeed
    <3>4. CASE g = f
      <4>1. \A d \in Client : Behind(d, f) <=> d = p \/ d \in ptodo[r]
        BY <2>1, <2>2, <2>4, <2>6 DEF Behind
      <4>2. \A d \in Client : Behind(d, f)' <=> d \in ptodo[r]
        <5>1. ASSUME NEW d \in Client PROVE Behind(d, f)' => d \in ptodo[r]
          BY <2>3, <2>6, <2>7 DEF Behind, RangeEffect, Leaves
        <5>2. ASSUME NEW d \in Client, d \in ptodo[r] PROVE Behind(d, f)'
          <6>1. /\ ppc'[r] = "push" /\ pfeed'[r] = f
                /\ d = pcur'[r] \/ d \in ptodo'[r]
            BY <2>3, <5>2 DEF RangeEffect
          <6>2. QED
            BY <6>1 DEF Behind
        <5>3. QED
          BY <5>1, <5>2
      <4>3. Waiting(f)' <=> Waiting(f)
        <5>1. ppc'[r] # "lock" /\ ppc[r] # "lock"
          BY <2>3, <2>4 DEF RangeEffect, Leaves
        <5>2. QED
          BY <2>7, <5>1 DEF Waiting
      <4>4. \A q \in Run : In(q, f)' => In(q, f)
        BY <2>3, <2>7, <2>8 DEF In, RangeEffect, Leaves
      <4>5. ~raced'[f] => ~raced[f] \/ \A q \in Run : ~In(q, f)'
        <5>1. CASE ppc'[r] = "push"
          BY <2>3, <5>1 DEF RangeEffect, Leaves
        <5>2. CASE ppc'[r] # "push"
          <6>1. Leaves(r, f)
            BY <2>3, <5>2 DEF RangeEffect
          <6>2. Inside(f, r) = {} => \A q \in Run : ~In(q, f)'
            BY <2>7, <6>1 DEF Inside, In, Leaves
          <6>3. QED
            BY <6>1, <6>2 DEF Leaves
        <5>3. QED
          BY <5>1, <5>2
      <4>6. ~raced[f] => ~torn[f] /\ ~Waiting(f)
        BY <2>4, <2>8, <3>1, <3>4 DEF Alone, Waiting, In
      <4>7. Alone(f)'
        BY <2>4, <3>1, <3>4, <4>4, <4>5 DEF Alone
      <4>8. ~raced'[f] /\ Late(c, f)' => ~raced[f] /\ ~Waiting(f) /\ c \in ptodo[r]
        <5>1. SUFFICES ASSUME ~raced'[f], Late(c, f)'
                       PROVE  ~raced[f] /\ ~Waiting(f) /\ c \in ptodo[r]
          OBVIOUS
        <5>2. PICK q \in Run : In(q, f)'
          BY <5>1 DEF Late, Waiting, Behind, In
        <5>3. ~raced[f] /\ ~Waiting(f)
          BY <4>5, <4>6, <5>1, <5>2
        <5>4. QED
          BY <4>2, <4>3, <5>1, <5>3 DEF Late
      <4>9. pub[f] \in Nat /\ upto[c][f] \in Nat
        BY StreamAssumption DEF TypeInv, PubTyped, LoopTyped
      <4>10. CASE c # p
        <5>1. Late(c, f)' => Late(c, f)
          BY <2>5, <2>3, <4>1, <4>2, <4>3 DEF Late
        <5>2. c \in list'[trk[f]] /\ ~Late(c, f)' => c \in list[trk[f]] /\ ~Late(c, f)
          BY <2>3, <2>5, <4>1, <4>2, <4>3, <4>10 DEF Late
        <5>3. ~raced'[f] /\ Late(c, f)' => ~raced[f] /\ Late(c, f)
          BY <4>8, <5>1
        <5>4. Due(c, f)'
          BY <2>4, <3>1, <3>2, <3>4, <4>10, <5>2, <5>3 DEF Due
        <5>5. QED
          BY <3>4, <4>7, <5>4
      <4>11. CASE c = p /\ closed[p]
        <5>1. upto' = upto /\ c \notin list'[trk[f]]
          BY <2>3, <2>4, <4>11 DEF TypeInv, PubTyped
        <5>2. ~(~raced'[f] /\ Late(c, f)')
          BY <2>4, <4>8, <4>11
        <5>3. Due(c, f)'
          BY <2>4, <3>1, <3>4, <5>1, <5>2 DEF Due
        <5>4. QED
          BY <3>4, <4>7, <5>3
      <4>12. CASE c = p /\ ~closed[p]
        <5>1. upto'[c][f] = pub[f]
          BY <2>4, <4>12 DEF TypeInv, LoopTyped
        <5>2. ~(~raced'[f] /\ Late(c, f)')
          BY <2>4, <4>8, <4>12
        <5>3. Due(c, f)'
          BY <2>4, <4>9, <5>1, <5>2 DEF Due
        <5>4. QED
          BY <3>4, <4>7, <5>3
      <4>13. QED
        BY <4>10, <4>11, <4>12
    <3>5. QED
      BY <3>3, <3>4
  <2>10. QED
    BY <2>9 DEF UpToDate
<1>4. ASSUME NEW c \in Client, NEW t \in Tracker, AddSub(c, t) PROVE UpToDate'
  <2>1. UNCHANGED <<pubVars, upto>> /\ \A u \in Tracker : list'[u] \subseteq list[u]
    BY <1>4 DEF AddSub, TypeInv, PubTyped, AtWork
  <2>2. QED
    BY <2>1, UpToDateFrame
<1>5. ASSUME NEW c \in Client, NEW t \in Tracker, DelSub(c, t) PROVE UpToDate'
  <2>1. UNCHANGED <<pubVars, upto>> /\ \A u \in Tracker : list'[u] \subseteq list[u]
    BY <1>5 DEF DelSub, TypeInv, PubTyped, AtWork
  <2>2. QED
    BY <2>1, UpToDateFrame
<1>6. ASSUME NEW c \in Client, SubLock(c) PROVE UpToDate'
  <2>1. PICK t \in Tracker : t = rtr[c]
    BY <1>6 DEF SubLock, TypeInv, AtWork
  <2>2. /\ mu[t] = nil
        /\ list' = [list EXCEPT ![t] = @ \cup {c}]
        /\ upto' = [upto EXCEPT ![c] =
                      [f \in Feed |-> IF trk[f] = t THEN Begun(f) ELSE @[f]]]
        /\ UNCHANGED <<pub, torn, raced, ppc, pfeed, ptodo, pcur>>
    BY <1>6, <2>1 DEF SubLock, pubVars
  <2>3. ASSUME NEW f \in Feed, NEW d \in Client PROVE Alone(f)' /\ Due(d, f)'
    <3>1. Alone(f) /\ Due(d, f) /\ trk[f] \in Tracker
      BY FeedTracker DEF UpToDate
    <3>2. Alone(f)'
      BY <2>2, <3>1 DEF Alone, In
    <3>3. Waiting(f)' = Waiting(f) /\ Behind(d, f)' = Behind(d, f)
      BY <2>2 DEF Waiting, Behind
    <3>4. CASE d = c /\ trk[f] = t
      <4>1. upto'[d][f] = Begun(f)
        BY <2>2, <3>4 DEF TypeInv, LoopTyped
      <4>2. ~Behind(d, f)
        <5>1. ASSUME NEW q \in Run, ppc[q] = "push", pfeed[q] = f PROVE FALSE
          BY <2>2, <3>4, <5>1, Names DEF ListInv, MuHeld
        <5>2. QED
          BY <5>1 DEF Behind
      <4>3. pub[f] \in Nat
        BY StreamAssumption DEF TypeInv, PubTyped
      <4>4. CASE Waiting(f)
        <5>1. Begun(f) = pub[f] - 1
          BY <4>4 DEF Begun, Waiting
        <5>2. c \in list'[t]
          BY <2>2 DEF TypeInv, PubTyped
        <5>3. Late(d, f)'
          BY <3>3, <3>4, <4>4, <5>2 DEF Late
        <5>4. upto'[d][f] <= pub[f] /\ upto'[d][f] + 1 = pub[f]
          BY <4>1, <4>3, <5>1
        <5>5. Due(d, f)'
          BY <2>2, <5>3, <5>4 DEF Due
        <5>6. QED
          BY <3>2, <5>5
      <4>5. CASE ~Waiting(f)
        <5>1. Begun(f) = pub[f]
          BY <4>5 DEF Begun, Waiting
        <5>2. ~Late(d, f)'
          BY <3>3, <4>2, <4>5 DEF Late
        <5>3. upto'[d][f] <= pub[f] /\ upto'[d][f] = pub[f]
          BY <4>1, <4>3, <5>1
        <5>4. Due(d, f)'
          BY <2>2, <5>2, <5>3 DEF Due
        <5>5. QED
          BY <3>2, <5>4
      <4>6. QED
        BY <4>4, <4>5
    <3>5. CASE ~(d = c /\ trk[f] = t)
      <4>1. upto'[d][f] = upto[d][f]
        BY <2>2, <3>5 DEF TypeInv, LoopTyped
      <4>2. d \in list'[trk[f]] <=> d \in list[trk[f]]
        BY <2>2, <3>1, <3>5 DEF TypeInv, PubTyped
      <4>3. Late(d, f)' <=> Late(d, f)
        BY <3>3, <4>2 DEF Late
      <4>4. Due(d, f)'
        BY <2>2, <3>1, <4>1, <4>2, <4>3 DEF Due
      <4>5. QED
        BY <3>2, <4>4
    <3>6. QED
      BY <3>4, <3>5
  <2>4. QED
    BY <2>3 DEF UpToDate
<1>7. ASSUME NEW c \in Client, SubData(c) PROVE UpToDate'
  <2>1. UNCHANGED <<pubVars, upto>> /\ \A u \in Tracker : list'[u] \subseteq list[u]
    BY <1>7 DEF SubData, TypeInv, PubTyped, AtWork
  <2>2. QED
    BY <2>1, UpToDateFrame
<1>8. ASSUME NEW c \in Client, SubEvent(c) PROVE UpToDate'
  <2>1. UNCHANGED <<pubVars, upto>> /\ \A u \in Tracker : list'[u] \subseteq list[u]
    BY <1>8 DEF SubEvent, TypeInv, PubTyped, AtWork
  <2>2. QED
    BY <2>1, UpToDateFrame
<1>9. ASSUME NEW c \in Client, CheckLimit(c) PROVE UpToDate'
  <2>1. UNCHANGED <<pubVars, upto>> /\ \A u \in Tracker : list'[u] \subseteq list[u]
    BY <1>9 DEF CheckLimit, TypeInv, PubTyped, AtWork
  <2>2. QED
    BY <2>1, UpToDateFrame
<1>10. ASSUME NEW c \in Client, Unsub(c) PROVE UpToDate'
  <2>1. UNCHANGED <<pubVars, upto>> /\ \A u \in Tracker : list'[u] \subseteq list[u]
    BY <1>10 DEF Unsub, TypeInv, PubTyped, AtWork
  <2>2. QED
    BY <2>1, UpToDateFrame
<1>11. ASSUME NEW c \in Client, ReadError(c) PROVE UpToDate'
  <2>1. UNCHANGED <<pubVars, upto>> /\ \A u \in Tracker : list'[u] \subseteq list[u]
    BY <1>11 DEF ReadError, TypeInv, PubTyped, AtWork
  <2>2. QED
    BY <2>1, UpToDateFrame
<1>12. ASSUME NEW c \in Client, ReadClose(c) PROVE UpToDate'
  <2>1. UNCHANGED <<pubVars, upto>> /\ \A u \in Tracker : list'[u] \subseteq list[u]
    BY <1>12 DEF ReadClose, TypeInv, PubTyped, AtWork
  <2>2. QED
    BY <2>1, UpToDateFrame
<1>13. ASSUME NEW c \in Client, WriteLock(c) PROVE UpToDate'
  <2>1. UNCHANGED <<pubVars, upto>> /\ \A u \in Tracker : list'[u] \subseteq list[u]
    BY <1>13 DEF WriteLock, TypeInv, PubTyped, AtWork
  <2>2. QED
    BY <2>1, UpToDateFrame
<1>14. ASSUME NEW c \in Client, Write(c) PROVE UpToDate'
  <2>1. UNCHANGED <<pubVars, upto>> /\ \A u \in Tracker : list'[u] \subseteq list[u]
    BY <1>14 DEF Write, TypeInv, PubTyped, AtWork
  <2>2. QED
    BY <2>1, UpToDateFrame
<1>15. ASSUME NEW c \in Client, WriteError(c) PROVE UpToDate'
  <2>1. UNCHANGED <<pubVars, upto>> /\ \A u \in Tracker : list'[u] \subseteq list[u]
    BY <1>15 DEF WriteError, TypeInv, PubTyped, AtWork
  <2>2. QED
    BY <2>1, UpToDateFrame
<1>16. ASSUME NEW c \in Client, WriteUnlock(c) PROVE UpToDate'
  <2>1. UNCHANGED <<pubVars, upto>> /\ \A u \in Tracker : list'[u] \subseteq list[u]
    BY <1>16 DEF WriteUnlock, TypeInv, PubTyped, AtWork
  <2>2. QED
    BY <2>1, UpToDateFrame
<1>17. ASSUME NEW c \in Client, ShortMessage(c) PROVE UpToDate'
  <2>1. UNCHANGED <<pubVars, upto>> /\ \A u \in Tracker : list'[u] \subseteq list[u]
    BY <1>17 DEF ShortMessage, TypeInv, PubTyped, AtWork
  <2>2. QED
    BY <2>1, UpToDateFrame
<1>18. CASE UNCHANGED vars
  BY <1>18, UpToDateFrame DEF vars
<1>19. QED
  BY <1>1, <1>2, <1>3, <1>4, <1>5, <1>6, <1>7, <1>8, <1>9, <1>10,
     <1>11, <1>12, <1>13, <1>14, <1>15, <1>16, <1>17, <1>18
     DEF Next, PubStep, ReadStep, WriteStep

(* NoGap, of a single step.                                                *)
Step ==
    \A c \in Client :
        Len(buf'[c]) > Len(buf[c]) =>
           LET x == buf'[c][Len(buf'[c])] IN
           x = Placeholder \/ InTurn(c, x[1], x[2])

LEMMA NoGapStep ==
    ASSUME TypeInv, ListInv, UpToDate, [Next]_vars
    PROVE  Step
<1>1. ASSUME UNCHANGED buf PROVE Step
  BY <1>1 DEF Step, TypeInv, BufTyped
<1>2. ASSUME NEW r \in Run, PubPush(r) PROVE Step
  <2>1. PICK f \in Feed : f = pfeed[r]
    BY <1>2, PubPushStep
  <2>2. PICK p \in Client : p = pcur[r]
    BY <1>2, PubPushStep
  <2>3. PICK n \in Read(r) : PushEffect(<<"pub", trk[f]>>, p, <<f, n>>)
    BY <1>2, <2>1, <2>2, PubPushStep
  <2>4. ppc[r] = "push" /\ In(r, f) /\ Behind(p, f)
    BY <1>2, <2>1, <2>2 DEF PubPush, In, Behind
  <2>5. Alone(f) /\ Due(p, f)
    BY DEF UpToDate
  <2>6. pub[f] \in Nat /\ upto[p][f] \in Nat
    BY StreamAssumption DEF TypeInv, PubTyped, LoopTyped
  <2>7. CASE ~raced[f]
    <3>1. ~torn[f] /\ Assigning(f, r) = {}
      BY <2>4, <2>5, <2>7 DEF Alone, In, Assigning
    <3>2. n = pub[f]
      BY <2>1, <2>3, <3>1 DEF Read
    <3>3. n = upto[p][f] + 1
      BY <2>4, <2>5, <2>7, <3>2 DEF Due, Late
    <3>4. QED
      <4>1. InTurn(p, f, n)
        BY <3>3 DEF InTurn
      <4>2. ASSUME NEW c \in Client, Len(buf'[c]) > Len(buf[c])
            PROVE  c = p /\ buf'[c][Len(buf'[c])] = <<f, n>>
        <5>1. Len(buf[c]) \in Nat
          BY DEF TypeInv, BufTyped
        <5>2. QED
          BY <2>3, <4>2, <5>1 DEF PushEffect
      <4>3. QED
        BY <4>1, <4>2 DEF Step
  <2>8. CASE raced[f]
    <3>1. n = pub[f] \/ n = Torn
      BY <2>1, <2>3 DEF Read
    <3>2. upto[p][f] <= pub[f]
      BY <2>5 DEF Due
    <3>3. n = Torn \/ n >= upto[p][f]
      BY <2>6, <3>1, <3>2
    <3>4. InTurn(p, f, n)
      BY <2>8, <3>3 DEF InTurn
    <3>5. ASSUME NEW c \in Client, Len(buf'[c]) > Len(buf[c])
          PROVE  c = p /\ buf'[c][Len(buf'[c])] = <<f, n>>
      <4>1. Len(buf[c]) \in Nat
        BY DEF TypeInv, BufTyped
      <4>2. QED
        BY <2>3, <3>5, <4>1 DEF PushEffect
    <3>6. QED
      BY <3>4, <3>5 DEF Step
  <2>9. QED
    BY <2>7, <2>8
<1>3. ASSUME NEW c \in Client, SubData(c) \/ SubEvent(c) PROVE Step
  <2>1. PushEffect(<<"sub", c>>, c, Placeholder)
    BY <1>3, SubPushStep
  <2>2. ASSUME NEW d \in Client, Len(buf'[d]) > Len(buf[d])
        PROVE  buf'[d][Len(buf'[d])] = Placeholder
    <3>1. Len(buf[d]) \in Nat
      BY DEF TypeInv, BufTyped
    <3>2. d = c
      BY <2>1, <2>2, <3>1 DEF PushEffect
    <3>3. QED
      BY <2>1, <2>2, <3>1, <3>2 DEF PushEffect
  <2>3. QED
    BY <2>2 DEF Step
<1>4. ASSUME NEW c \in Client, WriteUnlock(c) PROVE Step
  <2>1. ASSUME NEW d \in Client, Len(buf'[d]) > Len(buf[d]) PROVE FALSE
    <3>1. buf' = [buf EXCEPT ![c] = <<>>]
      BY <1>4 DEF WriteUnlock
    <3>2. buf'[d] = <<>> \/ buf'[d] = buf[d]
      BY <3>1 DEF TypeInv, BufTyped
    <3>3. Len(<<>>) = 0 /\ Len(buf[d]) \in Nat
      BY DEF TypeInv, BufTyped
    <3>4. QED
      BY <2>1, <3>2, <3>3
  <2>2. QED
    BY <2>1 DEF Step
<1>5. QED
  BY <1>1, <1>2, <1>3, <1>4
     DEF Next, PubStep, ReadStep, WriteStep, vars, Publish, PubLock, AddSub,
         DelSub, SubLock, CheckLimit, Unsub, ReadError, ReadClose, WriteLock,
         Write, WriteError, ShortMessage

(* A subscriber is pushed every publication of a field after its           *)
(* subscription, once and in order, however it leaves and comes back, as   *)
(* long as goroutines of the device do not publish the field at the same   *)
(* time; and when they do, an earlier one never follows a later one.       *)
THEOREM NoGapHolds == Spec => NoGap
<1>1. TypeInv /\ ListInv /\ UpToDate /\ [Next]_vars => [Step]_vars
  BY NoGapStep
<1>2. Spec => [][Step]_vars
  BY <1>1, TypeAlways, ListAlways, LostAlways, UpToDateInit, UpToDateNext, PTL
     DEF Spec
<1>3. QED
  BY <1>2 DEF NoGap, Step

=============================================================================
