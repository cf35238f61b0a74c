----------------------------- MODULE WebSession -----------------------------
(***************************************************************************)
(* The web API's sessions of one user (internal/webapp): login, logout,    *)
(* change of password, session check, the dispatcher in front of the API   *)
(* functions, the token of the web stream, and the functions of usermgmt.  *)
(*                                                                         *)
(* Every request has a goroutine of its own; what they share is the        *)
(* database.  A statement is one step.  Only ChangePassword uses a         *)
(* transaction: what it writes is seen by others when it commits, and it   *)
(* keeps the user's row locked until then.  A password is the number of    *)
(* changes that led to it; 0 is the one the user was created with.         *)
(***************************************************************************)
EXTENDS Naturals

CONSTANTS
    Sess,     \* session ids; each is drawn by one login request
    Change,   \* requests ChangePassword
    Call,     \* requests /func/{name}; also names the token a call creates
    MaxPwd,   \* bound: changes of the password
    none      \* no session, no token, no holder of the row lock

ASSUME WebAssumption ==
    /\ none \notin Sess \cup Change \cup Call
    /\ MaxPwd \in Nat

VARIABLES
    password, require_change_pwd, suspend_login,  \* the row of table user
    rowlock,      \* the transaction that holds the row
    session,      \* rows of table session
    expired,      \* sessions whose valid_until has passed
    ws_token,     \* table websocket_session: the token of each session
    lpc, lpwd, lhash,         \* logins: program counter, password given and read
    cpc, csess, cpwd, chash,  \* changes: the same, and the session of the cookie
    cdeleted,     \* what the DELETE of each transaction found
    kpc, ksess,   \* calls: program counter, session of the cookie
    acted,        \* sessions in whose name a function of the API was called
    streaming,    \* sessions whose token opened a web stream
    settled,      \* history: logins over when the DELETE of a change ran
    overlapped    \* history: logins that overlapped a change

userVars   == <<password, require_change_pwd, suspend_login, rowlock>>
tableVars  == <<session, expired, ws_token>>
loginVars  == <<lpc, lpwd, lhash>>
changeVars == <<cpc, csess, cpwd, chash, cdeleted, settled>>
callVars   == <<kpc, ksess, acted, streaming>>
webVars == <<userVars, tableVars, loginVars, changeVars, callVars, overlapped>>

(* session.valid_until > now() of a row that is there.                     *)
Valid(s) == s \in session /\ s \notin expired

(* Rows that an open transaction has deleted are locked.                   *)
RowFree(s) == \A c \in Change : cpc[c] = "commit" => s \notin cdeleted[c]

(* A user is created with a password that must be changed (AddUser).       *)
WebInit ==
    /\ password = 0 /\ require_change_pwd = TRUE /\ suspend_login = FALSE
    /\ rowlock = none
    /\ session = {} /\ expired = {}
    /\ ws_token = [s \in Sess |-> none]
    /\ lpc = [s \in Sess |-> "idle"]
    /\ lpwd = [s \in Sess |-> 0] /\ lhash = [s \in Sess |-> 0]
    /\ cpc = [c \in Change |-> "idle"]
    /\ csess = [c \in Change |-> none]
    /\ cpwd = [c \in Change |-> 0] /\ chash = [c \in Change |-> 0]
    /\ cdeleted = [c \in Change |-> {}] /\ settled = [c \in Change |-> {}]
    /\ kpc = [k \in Call |-> "idle"] /\ ksess = [k \in Call |-> none]
    /\ acted = {} /\ streaming = {}
    /\ overlapped = {}

-----------------------------------------------------------------------------
(* Login.                                                                  *)

(* The SELECT; a user that is suspended is refused.                        *)
LoginSelect(s, pwd) ==
    /\ lpc[s] = "idle"
    /\ lpwd' = [lpwd EXCEPT ![s] = pwd]
    /\ lhash' = [lhash EXCEPT ![s] = password]
    /\ lpc' = [lpc EXCEPT ![s] = IF suspend_login THEN "done" ELSE "compare"]
    /\ UNCHANGED <<userVars, tableVars, changeVars, callVars, overlapped>>

LoginCompare(s) ==
    /\ lpc[s] = "compare"
    /\ lpc' = [lpc EXCEPT ![s] = IF lpwd[s] = lhash[s] THEN "insert" ELSE "done"]
    /\ UNCHANGED <<userVars, tableVars, lpwd, lhash, changeVars, callVars, overlapped>>

(* INSERT INTO session; the user's row is not looked at again.             *)
LoginInsert(s) ==
    /\ lpc[s] = "insert"
    /\ session' = session \cup {s}
    /\ lpc' = [lpc EXCEPT ![s] = "done"]
    /\ UNCHANGED <<userVars, expired, ws_token, lpwd, lhash, changeVars, callVars, overlapped>>

(* The query or the insert fails: the handler panics.                      *)
LoginFails(s) ==
    /\ lpc[s] \in {"compare", "insert"}
    /\ lpc' = [lpc EXCEPT ![s] = "done"]
    /\ UNCHANGED <<userVars, tableVars, lpwd, lhash, changeVars, callVars, overlapped>>

-----------------------------------------------------------------------------
(* Logout, and the functions of usermgmt: single statements.               *)

Logout(s) ==
    /\ s \in session /\ RowFree(s)
    /\ session' = session \ {s}
    /\ UNCHANGED <<userVars, expired, ws_token, loginVars, changeVars, callVars, overlapped>>

(* DELETE of the user's sessions, of all or of those still valid.          *)
PurgeSession(all) ==
    LET found == IF all THEN session ELSE session \ expired IN
    /\ \A s \in found : RowFree(s)
    /\ session' = session \ found
    /\ UNCHANGED <<userVars, expired, ws_token, loginVars, changeVars, callVars, overlapped>>

SetSuspendFlag_noWait ==
    /\ suspend_login' = TRUE
    /\ UNCHANGED <<password, require_change_pwd, rowlock, tableVars, loginVars, changeVars, callVars, overlapped>>

(* UPDATE of the user's row: waits for a transaction that holds it.  The   *)
(* validator's "required" refuses a request whose flag is false.           *)
SetSuspendFlag ==
    /\ rowlock = none
    /\ suspend_login' = TRUE
    /\ UNCHANGED <<password, require_change_pwd, rowlock, tableVars, loginVars, changeVars, callVars, overlapped>>

Expire(s) ==
    /\ s \in session \ expired
    /\ expired' = expired \cup {s}
    /\ UNCHANGED <<userVars, session, ws_token, loginVars, changeVars, callVars, overlapped>>

-----------------------------------------------------------------------------
(* ChangePassword.                                                         *)

ChangeBegin_noLock(c, s, pwd) ==
    /\ cpc[c] = "idle" /\ Valid(s) /\ ~suspend_login
    /\ csess' = [csess EXCEPT ![c] = s]
    /\ cpwd' = [cpwd EXCEPT ![c] = pwd]
    /\ chash' = [chash EXCEPT ![c] = password]
    /\ cpc' = [cpc EXCEPT ![c] = "compare"]
    /\ UNCHANGED <<userVars, tableVars, loginVars, cdeleted, settled, callVars, overlapped>>

(* BEGIN; SELECT ... FOR UPDATE OF "user" NOWAIT by the session's row.     *)
ChangeBegin(c, s, pwd) ==
    /\ cpc[c] = "idle" /\ Valid(s) /\ ~suspend_login
    /\ rowlock = none
    /\ rowlock' = c
    /\ csess' = [csess EXCEPT ![c] = s]
    /\ cpwd' = [cpwd EXCEPT ![c] = pwd]
    /\ chash' = [chash EXCEPT ![c] = password]
    /\ cpc' = [cpc EXCEPT ![c] = "compare"]
    /\ UNCHANGED <<password, require_change_pwd, suspend_login, tableVars, loginVars, cdeleted, settled,
                   callVars, overlapped>>

(* No valid session, a suspended user, or a row that is locked: NOWAIT     *)
(* makes the statement fail, and the handler panics.                       *)
ChangeRefused(c, s) ==
    /\ cpc[c] = "idle"
    /\ ~Valid(s) \/ suspend_login \/ rowlock # none
    /\ cpc' = [cpc EXCEPT ![c] = "done"]
    /\ UNCHANGED <<userVars, tableVars, loginVars, csess, cpwd, chash, cdeleted, settled, callVars, overlapped>>

(* The deferred Rollback after a wrong password, a failed statement or a   *)
(* failed Commit; before the last one the client has been told success.    *)
ChangeRollback(c) ==
    /\ cpc[c] \in {"compare", "delete", "commit"}
    /\ rowlock' = none
    /\ cpc' = [cpc EXCEPT ![c] = "done"]
    /\ UNCHANGED <<password, require_change_pwd, suspend_login, tableVars, loginVars, csess, cpwd, chash,
                   cdeleted, settled, callVars, overlapped>>

(* The current password is right: UPDATE, of a row that is locked already. *)
ChangeUpdate(c) ==
    /\ cpc[c] = "compare"
    /\ cpwd[c] = chash[c]
    /\ cpc' = [cpc EXCEPT ![c] = "delete"]
    /\ UNCHANGED <<userVars, tableVars, loginVars, csess, cpwd, chash, cdeleted, settled, callVars, overlapped>>

ChangeDelete_ownSession(c) ==
    /\ cpc[c] = "delete"
    /\ cdeleted' = [cdeleted EXCEPT ![c] = {csess[c]}]
    /\ settled' = [settled EXCEPT ![c] = {s \in Sess : lpc[s] = "done"}]
    /\ cpc' = [cpc EXCEPT ![c] = "commit"]
    /\ UNCHANGED <<userVars, tableVars, loginVars, csess, cpwd, chash, callVars, overlapped>>

(* DELETE FROM session: the rows that are committed now.                   *)
ChangeDelete(c) ==
    /\ cpc[c] = "delete"
    /\ cdeleted' = [cdeleted EXCEPT ![c] = session]
    /\ settled' = [settled EXCEPT ![c] = {s \in Sess : lpc[s] = "done"}]
    /\ cpc' = [cpc EXCEPT ![c] = "commit"]
    /\ UNCHANGED <<userVars, tableVars, loginVars, csess, cpwd, chash, callVars, overlapped>>

ChangeCommit(c) ==
    /\ cpc[c] = "commit"
    /\ password < MaxPwd
    /\ password' = password + 1
    /\ require_change_pwd' = FALSE
    /\ rowlock' = none
    /\ session' = session \ cdeleted[c]
    /\ cpc' = [cpc EXCEPT ![c] = "done"]
    /\ overlapped' = overlapped \cup {s \in Sess : lpc[s] # "idle" /\ s \notin settled[c]}
    /\ UNCHANGED <<suspend_login, expired, ws_token, loginVars, csess, cpwd, chash, cdeleted, settled, callVars>>

-----------------------------------------------------------------------------
(* The dispatcher, and the functions whose effect is in these tables.      *)

CallCheck_pwdNotAsked(k, s) ==
    /\ kpc[k] = "idle"
    /\ ksess' = [ksess EXCEPT ![k] = s]
    /\ kpc' = [kpc EXCEPT ![k] = IF Valid(s) THEN "call" ELSE "done"]
    /\ UNCHANGED <<userVars, tableVars, loginVars, changeVars, acted, streaming, overlapped>>

(* session_check: one SELECT, which does not ask for suspend_login.        *)
CallCheck(k, s) ==
    /\ kpc[k] = "idle"
    /\ ksess' = [ksess EXCEPT ![k] = s]
    /\ kpc' = [kpc EXCEPT ![k] = IF Valid(s) /\ ~require_change_pwd THEN "call" ELSE "done"]
    /\ UNCHANGED <<userVars, tableVars, loginVars, changeVars, acted, streaming, overlapped>>

(* Any function but CreateWsToken, and a request body that is refused.     *)
CallFunction(k) ==
    /\ kpc[k] = "call"
    /\ acted' \in {acted, acted \cup {ksess[k]}}
    /\ kpc' = [kpc EXCEPT ![k] = "done"]
    /\ UNCHANGED <<userVars, tableVars, loginVars, changeVars, ksess, streaming, overlapped>>

(* INSERT ... ON CONFLICT (session_id) DO UPDATE, whether or not the       *)
(* session is still there.                                                 *)
CreateWsToken(k) ==
    /\ kpc[k] = "call"
    /\ ws_token' = [ws_token EXCEPT ![ksess[k]] = k]
    /\ acted' = acted \cup {ksess[k]}
    /\ kpc' = [kpc EXCEPT ![k] = "done"]
    /\ UNCHANGED <<userVars, session, expired, loginVars, changeVars, ksess, streaming, overlapped>>

(* serve_http and validate_token: a browser presents a token.              *)
OpenStream(k) ==
    /\ \E s \in Sess : /\ ws_token[s] = k /\ Valid(s)
                       /\ streaming' = streaming \cup {s}
    /\ UNCHANGED <<userVars, tableVars, loginVars, changeVars, kpc, ksess, acted, overlapped>>

-----------------------------------------------------------------------------
LoginStep(s) ==
    \/ \E pwd \in 0..MaxPwd : LoginSelect(s, pwd)
    \/ LoginCompare(s) \/ LoginInsert(s) \/ LoginFails(s)

ChangeStep(c) ==
    \/ \E s \in Sess, pwd \in 0..MaxPwd : ChangeBegin(c, s, pwd)
    \/ \E s \in Sess : ChangeRefused(c, s)
    \/ ChangeUpdate(c) \/ ChangeDelete(c) \/ ChangeCommit(c) \/ ChangeRollback(c)

CallStep(k) ==
    \/ \E s \in Sess : CallCheck(k, s)
    \/ CallFunction(k) \/ CreateWsToken(k) \/ OpenStream(k)

WebNext ==
    \/ \E s \in Sess : LoginStep(s) \/ Logout(s) \/ Expire(s)
    \/ \E c \in Change : ChangeStep(c)
    \/ \E k \in Call : CallStep(k)
    \/ \E all \in BOOLEAN : PurgeSession(all)
    \/ SetSuspendFlag

WebSpec == WebInit /\ [][WebNext]_webVars

-----------------------------------------------------------------------------
(* Types of the tables' columns and of what each request holds             *)
(* (login.go:31-38, changepwd.go:24-25, dispatcher.go:78-81).              *)
WebTypeOK ==
    /\ password \in 0..MaxPwd
    /\ require_change_pwd \in BOOLEAN /\ suspend_login \in BOOLEAN
    /\ rowlock \in Change \cup {none}
    /\ session \in SUBSET Sess /\ expired \in SUBSET Sess
    /\ ws_token \in [Sess -> Call \cup {none}]
    /\ lpc \in [Sess -> {"idle", "compare", "insert", "done"}]
    /\ lpwd \in [Sess -> 0..MaxPwd] /\ lhash \in [Sess -> 0..MaxPwd]
    /\ cpc \in [Change -> {"idle", "compare", "delete", "commit", "done"}]
    /\ csess \in [Change -> Sess \cup {none}]
    /\ cpwd \in [Change -> 0..MaxPwd] /\ chash \in [Change -> 0..MaxPwd]
    /\ cdeleted \in [Change -> SUBSET Sess] /\ settled \in [Change -> SUBSET Sess]
    /\ kpc \in [Call -> {"idle", "call", "done"}]
    /\ ksess \in [Call -> Sess \cup {none}]
    /\ \A k \in Call : kpc[k] = "call" => ksess[k] \in Sess
    /\ acted \in SUBSET Sess /\ streaming \in SUBSET Sess /\ overlapped \in SUBSET Sess

(* "invalidate all session" (changepwd.go:63): a session that was opened   *)
(* with an older password than the user's is one whose login, three        *)
(* statements without a transaction (login.go:31-58), overlapped a change  *)
(* between its DELETE and its Commit.                                      *)
OldPasswordOverlapped ==
    \A s \in session : lpwd[s] # password => s \in overlapped

(* Nothing is done and nothing streamed in the name of a session that was  *)
(* opened with the user's first password, unless its login overlapped a    *)
(* change: the dispatcher asks for require_change_pwd (dispatcher.go:60),  *)
(* the web stream does not (webstream.go:122-139), and neither asks which  *)
(* password the session is from.                                           *)
FirstPasswordIdle ==
    \A s \in acted \cup streaming : lpwd[s] # 0 \/ s \in overlapped

(* A password is replaced only by a request that knew it, and never that   *)
(* of a suspended user, although it is compared two statements before it   *)
(* is replaced (changepwd.go:33-57).                                       *)
ReplacesKnown ==
    [][password' # password
          => /\ ~suspend_login
             /\ \E c \in Change : cpc[c] = "commit" /\ cpc'[c] = "done" /\ cpwd[c] = password]_webVars
=============================================================================
