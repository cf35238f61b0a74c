----------------------------- MODULE Webstream -----------------------------
(***************************************************************************)
(* How locations and events of a tracker reach the browsers: the list of   *)
(* subscribers of the tracker (internal/gpsv2/sublist/sublist.go), which   *)
(* the device's goroutine publishes to, and the websocket clients that     *)
(* subscribe (internal/webapp/tracker/webstream/webstream.go), each with a *)
(* goroutine that reads subscriptions and one that writes what was pushed. *)
(*                                                                         *)
(* GetSublist returns a copy of the Sublist: list and mu are shared by all *)
(* copies, data and event_data are not, so that what Subscribe pushes is   *)
(* never the tracker's last location but the byte the copy was made with.  *)
(* The goroutines of one device share its copy, though, and there may be   *)
(* two (see GT06Conn and SimpleJson): a feed is data or event_data of one  *)
(* device's copy, trk its tracker, feeds[r] the fields of goroutine r's    *)
(* device.  SendLocation and SendEvent do the same with different fields:  *)
(* both are Publish, and the n-th assignment to a feed is the number n.    *)
(***************************************************************************)
EXTENDS Naturals, Sequences, FiniteSets

CONSTANTS
    Tracker,   \* trackers
    Feed,      \* fields data and event_data of the devices' copies
    trk,       \* the tracker of a feed
    Run,       \* goroutines that publish
    feeds,     \* the feeds of the goroutine's device
    Client,    \* websocket clients
    Limit,     \* more subscriptions than this close a client (5)
    MaxPub,    \* bound: publications of a feed
    MaxMsg,    \* bound: messages a browser sends
    Torn,      \* a slice header of which two assignments wrote a part
    nil        \* the holder of a free lock

ASSUME StreamAssumption ==
    /\ trk \in [Feed -> Tracker]
    /\ feeds \in [Run -> SUBSET Feed]
    /\ Limit \in Nat
    /\ MaxPub \in Nat
    /\ MaxMsg \in Nat
    /\ Torn \notin 0..MaxPub
    /\ nil \notin {"pub"} \X Run
    /\ nil \notin {"pub"} \X Tracker
    /\ nil \notin {"sub", "write"} \X Client
    /\ nil \notin Client \cup Feed

VARIABLES
    list,    \* subscribers of a tracker
    mu,      \* its mutex: who holds it
    pub,     \* the number of the value a feed was assigned last ...
    torn,    \* ... and whether that assignment met another one
    ppc,     \* SendLocation or SendEvent: program counter of a goroutine,
    pfeed,   \* ... the feed it assigned ...
    ptodo,   \* ... subscribers its loop has not reached ...
    pcur,    \* ... and the one it is at
    raced,   \* history: publications of the feed overlap, or did until now
    lock,    \* lock of a client: who holds it
    closed, buf, subs,  \* its fields closed, buf and sublist
    rpc,     \* readloop: program counter ...
    rtr,     \* ... the tracker it is subscribing to or leaving ...
    msgs,    \* ... and the messages it has read
    wpc,     \* writeLoop: program counter ...
    written, \* ... and how much of buf it has written
    upto     \* history: the last publication of a feed the client was pushed

pubVars  == <<pub, torn, ppc, pfeed, ptodo, pcur, raced>>
readVars == <<subs, rpc, rtr, msgs>>
wrVars   == <<wpc, written>>
vars     == <<list, mu, pubVars, lock, closed, buf, readVars, wrVars, upto>>

Init ==
    /\ list = [t \in Tracker |-> {}]
    /\ mu = [t \in Tracker |-> nil]
    /\ pub = [f \in Feed |-> 0]
    /\ torn = [f \in Feed |-> FALSE]
    /\ raced = [f \in Feed |-> FALSE]
    /\ ppc = [r \in Run |-> "idle"]
    /\ pfeed = [r \in Run |-> nil]
    /\ ptodo = [r \in Run |-> {}]
    /\ pcur = [r \in Run |-> nil]
    /\ lock = [c \in Client |-> nil]
    /\ closed = [c \in Client |-> FALSE]
    /\ buf = [c \in Client |-> <<>>]
    /\ subs = [c \in Client |-> {}]
    /\ rpc = [c \in Client |-> "read"]
    /\ rtr = [c \in Client |-> nil]
    /\ msgs = [c \in Client |-> 0]
    /\ wpc = [c \in Client |-> "sleep"]
    /\ written = [c \in Client |-> 0]
    /\ upto = [c \in Client |-> [f \in Feed |-> 0]]

-----------------------------------------------------------------------------
(* WebstreamClient.Push, called by who with x: the lock of a closed client *)
(* is not released.                                                        *)
Push(who, c, x) ==
    /\ lock[c] = nil
    /\ IF closed[c]
          THEN /\ lock' = [lock EXCEPT ![c] = who]
               /\ UNCHANGED buf
          ELSE /\ buf' = [buf EXCEPT ![c] = Append(@, x)]
               /\ UNCHANGED lock

(* Goroutines other than r that publish f; those of them that may still be *)
(* assigning it: nothing orders the assignment before what others do until *)
(* mu is taken.                                                            *)
Inside(f, r) == {q \in Run \ {r} : ppc[q] # "idle" /\ pfeed[q] = f}
Assigning(f, r) == {q \in Run \ {r} : ppc[q] = "lock" /\ pfeed[q] = f}

(* SendLocation and SendEvent assign the field, and then wait for mu.      *)
Publish(r, f) ==
    /\ ppc[r] = "idle"
    /\ f \in feeds[r]
    /\ pub[f] < MaxPub
    /\ pub' = [pub EXCEPT ![f] = @ + 1]
    /\ \E b \in BOOLEAN :
          /\ b => Assigning(f, r) # {}
          /\ torn' = [torn EXCEPT ![f] = b]
    /\ raced' = [raced EXCEPT ![f] = @ \/ Inside(f, r) # {}]
    /\ ppc' = [ppc EXCEPT ![r] = "lock"]
    /\ pfeed' = [pfeed EXCEPT ![r] = f]
    /\ UNCHANGED <<list, mu, ptodo, pcur, lock, closed, buf, readVars, wrVars,
                   upto>>

(* The range over the map, with the subscribers rest before it, in any     *)
(* order; after the last one mu is released.                               *)
Range(r, rest) ==
    LET f == pfeed[r] IN
    \/ /\ rest # {}
       /\ \E c \in rest : pcur' = [pcur EXCEPT ![r] = c]
       /\ ptodo' = [ptodo EXCEPT ![r] = rest \ {pcur'[r]}]
       /\ mu' = [mu EXCEPT ![trk[f]] = <<"pub", r>>]
       /\ ppc' = [ppc EXCEPT ![r] = "push"]
       /\ UNCHANGED <<pfeed, raced>>
    \/ /\ rest = {}
       /\ pcur' = [pcur EXCEPT ![r] = nil]
       /\ mu' = [mu EXCEPT ![trk[f]] = nil]
       /\ ppc' = [ppc EXCEPT ![r] = "idle"]
       /\ pfeed' = [pfeed EXCEPT ![r] = nil]
       /\ raced' = [raced EXCEPT ![f] = @ /\ Inside(f, r) # {}]
       /\ UNCHANGED ptodo

\* Mutant: nothing is pushed when mu is taken.
PubLock_try(r) ==
    LET t == trk[pfeed[r]] IN
    /\ ppc[r] = "lock"
    /\ Range(r, IF mu[t] = nil THEN list[t] ELSE {})
    /\ UNCHANGED <<list, pub, torn, lock, closed, buf, readVars, wrVars, upto>>

PubLock(r) ==
    LET t == trk[pfeed[r]] IN
    /\ ppc[r] = "lock"
    /\ mu[t] = nil
    /\ Range(r, list[t])
    /\ UNCHANGED <<list, pub, torn, lock, closed, buf, readVars, wrVars, upto>>

(* What r reads from the field at each push: the value assigned last, be   *)
(* it that of another goroutine, or, if that one is about to assign it, a  *)
(* part of it.                                                             *)
Read(r) ==
    LET f == pfeed[r]
        parts == torn[f] \/ Assigning(f, r) # {}
    IN  (IF torn[f] THEN {} ELSE {pub[f]}) \cup (IF parts THEN {Torn} ELSE {})

\* Mutant: a closed subscriber stays.
PubPush_keeps(r) ==
    LET c == pcur[r]
        f == pfeed[r]
    IN
    /\ ppc[r] = "push"
    /\ \E n \in Read(r) : Push(<<"pub", trk[f]>>, c, <<f, n>>)
    /\ upto' = IF closed[c] THEN upto ELSE [upto EXCEPT ![c][f] = pub[f]]
    /\ Range(r, ptodo[r])
    /\ UNCHANGED <<list, pub, torn, closed, readVars, wrVars>>

PubPush(r) ==
    LET c == pcur[r]
        f == pfeed[r]
        t == trk[f]
    IN
    /\ ppc[r] = "push"
    /\ \E n \in Read(r) : Push(<<"pub", t>>, c, <<f, n>>)
    /\ list' = IF closed[c] THEN [list EXCEPT ![t] = @ \ {c}] ELSE list
    /\ upto' = IF closed[c] THEN upto ELSE [upto EXCEPT ![c][f] = pub[f]]
    /\ Range(r, ptodo[r])
    /\ UNCHANGED <<pub, torn, closed, readVars, wrVars>>

-----------------------------------------------------------------------------
(* A client: readloop.  A message names one tracker; the ids of a longer   *)
(* one are handled one after the other in the same way.                    *)
AddSub(c, t) ==
    /\ rpc[c] = "read"
    /\ msgs[c] < MaxMsg
    /\ msgs' = [msgs EXCEPT ![c] = @ + 1]
    /\ rpc' = [rpc EXCEPT ![c] = IF t \in subs[c] THEN "limit" ELSE "sub"]
    /\ rtr' = [rtr EXCEPT ![c] = t]
    /\ UNCHANGED <<list, mu, pubVars, lock, closed, buf, subs, wrVars, upto>>

(* A message of its six letters alone has no msg[7:]: readloop panics,     *)
(* which ends the process.                                                 *)
ShortMessage(c) ==
    /\ rpc[c] = "read"
    /\ rpc' = [rpc EXCEPT ![c] = "panic"]
    /\ UNCHANGED <<list, mu, pubVars, lock, closed, buf, subs, rtr, msgs, wrVars, upto>>

(* The last publication of f that is not still to be pushed to everyone.   *)
Begun(f) ==
    IF \E q \in Run : ppc[q] = "lock" /\ pfeed[q] = f THEN pub[f] - 1 ELSE pub[f]

(* What Subscribe pushes, the data and event_data of the client's copy.    *)
Placeholder == <<nil, 0>>

(* Subscribe: it takes mu, enters the client ...                           *)
SubLock(c) ==
    LET t == rtr[c] IN
    /\ rpc[c] = "sub"
    /\ mu[t] = nil
    /\ mu' = [mu EXCEPT ![t] = <<"sub", c>>]
    /\ list' = [list EXCEPT ![t] = @ \cup {c}]
    /\ upto' = [upto EXCEPT ![c] =
                   [f \in Feed |-> IF trk[f] = t THEN Begun(f) ELSE @[f]]]
    /\ rpc' = [rpc EXCEPT ![c] = "data"]
    /\ UNCHANGED <<pubVars, lock, closed, buf, subs, rtr, msgs, wrVars>>

(* ... pushes data, whatever Push returns, ...                             *)
SubData(c) ==
    /\ rpc[c] = "data"
    /\ Push(<<"sub", c>>, c, Placeholder)
    /\ rpc' = [rpc EXCEPT ![c] = "event"]
    /\ UNCHANGED <<list, mu, pubVars, closed, subs, rtr, msgs, wrVars, upto>>

(* ... and event_data, and releases mu.                                    *)
SubEvent(c) ==
    /\ rpc[c] = "event"
    /\ Push(<<"sub", c>>, c, Placeholder)
    /\ mu' = [mu EXCEPT ![rtr[c]] = nil]
    /\ subs' = [subs EXCEPT ![c] = @ \cup {rtr[c]}]
    /\ rpc' = [rpc EXCEPT ![c] = "limit"]
    /\ UNCHANGED <<list, pubVars, closed, rtr, msgs, wrVars, upto>>

(* Too many subscriptions: closed is set without the lock, and the loop    *)
(* goes on reading.                                                        *)
CheckLimit(c) ==
    /\ rpc[c] = "limit"
    /\ closed' = [closed EXCEPT ![c] = @ \/ Cardinality(subs[c]) > Limit]
    /\ rpc' = [rpc EXCEPT ![c] = "read"]
    /\ rtr' = [rtr EXCEPT ![c] = nil]
    /\ UNCHANGED <<list, mu, pubVars, lock, buf, subs, msgs, wrVars, upto>>

DelSub(c, t) ==
    /\ rpc[c] = "read"
    /\ t \in subs[c]
    /\ msgs[c] < MaxMsg
    /\ msgs' = [msgs EXCEPT ![c] = @ + 1]
    /\ rpc' = [rpc EXCEPT ![c] = "unsub"]
    /\ rtr' = [rtr EXCEPT ![c] = t]
    /\ UNCHANGED <<list, mu, pubVars, lock, closed, buf, subs, wrVars, upto>>

\* Mutant: the client forgets the tracker, the tracker keeps the client.
Unsub_half(c) ==
    LET t == rtr[c] IN
    /\ rpc[c] = "unsub"
    /\ mu[t] = nil
    /\ subs' = [subs EXCEPT ![c] = @ \ {t}]
    /\ rpc' = [rpc EXCEPT ![c] = "read"]
    /\ rtr' = [rtr EXCEPT ![c] = nil]
    /\ UNCHANGED <<list, mu, pubVars, lock, closed, buf, msgs, wrVars, upto>>

Unsub(c) ==
    LET t == rtr[c] IN
    /\ rpc[c] = "unsub"
    /\ mu[t] = nil
    /\ list' = [list EXCEPT ![t] = @ \ {c}]
    /\ subs' = [subs EXCEPT ![c] = @ \ {t}]
    /\ rpc' = [rpc EXCEPT ![c] = "read"]
    /\ rtr' = [rtr EXCEPT ![c] = nil]
    /\ UNCHANGED <<mu, pubVars, lock, closed, buf, msgs, wrVars, upto>>

(* The browser is gone; nothing is unsubscribed.                           *)
ReadError(c) ==
    /\ rpc[c] = "read"
    /\ rpc' = [rpc EXCEPT ![c] = "gone"]
    /\ UNCHANGED <<list, mu, pubVars, lock, closed, buf, subs, rtr, msgs, wrVars, upto>>

ReadClose(c) ==
    /\ rpc[c] = "gone"
    /\ lock[c] = nil
    /\ closed' = [closed EXCEPT ![c] = TRUE]
    /\ rpc' = [rpc EXCEPT ![c] = "done"]
    /\ UNCHANGED <<list, mu, pubVars, lock, buf, subs, rtr, msgs, wrVars, upto>>

-----------------------------------------------------------------------------
(* A client: writeLoop.  It holds the lock while it writes and never looks *)
(* at closed.                                                              *)
WriteLock(c) ==
    /\ wpc[c] = "sleep"
    /\ lock[c] = nil
    /\ lock' = [lock EXCEPT ![c] = <<"write", c>>]
    /\ wpc' = [wpc EXCEPT ![c] = "write"]
    /\ UNCHANGED <<list, mu, pubVars, closed, buf, readVars, written, upto>>

\* Mutant: what is written leaves buf at once.
Write(c) ==
    /\ wpc[c] = "write"
    /\ written[c] < Len(buf[c])
    /\ rpc[c] \notin {"gone", "done"}
    /\ written' = [written EXCEPT ![c] = @ + 1]
    /\ UNCHANGED <<list, mu, pubVars, lock, closed, buf, readVars, wpc, upto>>

\* Mutant: the return after a failed write keeps the lock.
WriteError_locked(c) ==
    /\ wpc[c] = "write"
    /\ written[c] < Len(buf[c])
    /\ closed' = [closed EXCEPT ![c] = TRUE]
    /\ wpc' = [wpc EXCEPT ![c] = "done"]
    /\ UNCHANGED <<list, mu, pubVars, lock, buf, readVars, written, upto>>

WriteError(c) ==
    /\ wpc[c] = "write"
    /\ written[c] < Len(buf[c])
    /\ closed' = [closed EXCEPT ![c] = TRUE]
    /\ lock' = [lock EXCEPT ![c] = nil]
    /\ wpc' = [wpc EXCEPT ![c] = "done"]
    /\ UNCHANGED <<list, mu, pubVars, buf, readVars, written, upto>>

\* Mutant: buf is not emptied.
WriteUnlock(c) ==
    /\ wpc[c] = "write"
    /\ written[c] = Len(buf[c])
    /\ buf' = [buf EXCEPT ![c] = <<>>]
    /\ written' = [written EXCEPT ![c] = 0]
    /\ lock' = [lock EXCEPT ![c] = nil]
    /\ wpc' = [wpc EXCEPT ![c] = "sleep"]
    /\ UNCHANGED <<list, mu, pubVars, closed, readVars, upto>>

-----------------------------------------------------------------------------
PubStep(r) == PubLock(r) \/ PubPush(r)

ReadStep(c) ==
    \/ SubLock(c) \/ SubData(c) \/ SubEvent(c) \/ CheckLimit(c)
    \/ Unsub(c) \/ ReadClose(c)

WriteStep(c) == WriteLock(c) \/ Write(c) \/ WriteError(c) \/ WriteUnlock(c)

Up == \A c \in Client : rpc[c] # "panic"

Next ==
    /\ Up
    /\ \/ \E r \in Run :
             \/ \E f \in Feed : Publish(r, f)
             \/ PubStep(r)
       \/ \E c \in Client :
             \/ \E t \in Tracker : AddSub(c, t) \/ DelSub(c, t)
             \/ ShortMessage(c) \/ ReadError(c)
             \/ ReadStep(c) \/ WriteStep(c)

Spec == Init /\ [][Next]_vars

(* Goroutines are scheduled, and a mutex that is released again and again  *)
(* is acquired (sync.Mutex hands over to a waiter in FIFO order once it    *)
(* has waited 1ms).  Nothing makes a browser read or write: AddSub, DelSub,*)
(* ShortMessage, ReadError, Write and WriteError are not fair, the         *)
(* connection has no deadlines.                                            *)
FairSpec ==
    /\ Spec
    /\ \A r \in Run : SF_vars(Up /\ PubStep(r))
    /\ \A c \in Client :
          /\ SF_vars(Up /\ ReadStep(c))
          /\ SF_vars(Up /\ WriteLock(c))
          /\ WF_vars(Up /\ WriteUnlock(c))

-----------------------------------------------------------------------------
Item == (Feed \cup {nil}) \X (0..MaxPub \cup {Torn})

TypeOK ==
    /\ list \in [Tracker -> SUBSET Client]
    /\ mu \in [Tracker -> {nil} \cup ({"pub"} \X Run) \cup ({"sub"} \X Client)]
    /\ pub \in [Feed -> 0..MaxPub]
    /\ torn \in [Feed -> BOOLEAN]
    /\ raced \in [Feed -> BOOLEAN]
    /\ ppc \in [Run -> {"idle", "lock", "push"}]
    /\ pfeed \in [Run -> Feed \cup {nil}]
    /\ ptodo \in [Run -> SUBSET Client]
    /\ pcur \in [Run -> Client \cup {nil}]
    /\ lock \in [Client -> {nil} \cup ({"pub"} \X Tracker)
                                 \cup ({"sub", "write"} \X Client)]
    /\ closed \in [Client -> BOOLEAN]
    /\ buf \in [Client -> Seq(Item)]
    /\ subs \in [Client -> SUBSET Tracker]
    /\ rpc \in [Client -> {"read", "sub", "data", "event", "limit",
                           "unsub", "gone", "done", "panic"}]
    /\ rtr \in [Client -> Tracker \cup {nil}]
    /\ msgs \in [Client -> 0..MaxMsg]
    /\ wpc \in [Client -> {"sleep", "write", "done"}]
    /\ written \in [Client -> Nat]
    /\ \A c \in Client : written[c] <= Len(buf[c])
    /\ upto \in [Client -> [Feed -> 0..MaxPub]]

(* What a push of feed f to c, with the number n, may be: the one after    *)
(* the last.  While two goroutines of a device publish the same field, one *)
(* publication may be missing, another pushed twice, and one in parts; but *)
(* an earlier one never follows a later one.                               *)
InTurn(c, f, n) ==
    \/ n = upto[c][f] + 1
    \/ raced[f] /\ (n = Torn \/ n >= upto[c][f])

(* A subscriber is pushed every publication from the one after it          *)
(* subscribed, once and in order, although the field is assigned (lines    *)
(* 119 and 132) before the lock is taken and clients come and go, unless   *)
(* publications of the field overlap.                                      *)
NoGap ==
    [][\A c \in Client :
          Len(buf'[c]) > Len(buf[c]) =>
             LET x == buf'[c][Len(buf'[c])] IN
             x = Placeholder \/ InTurn(c, x[1], x[2])]_vars

(* The client's map of subscriptions and the trackers' lists of            *)
(* subscribers agree, except while the client is changing them: a closed   *)
(* client alone may be missing from a list.                                *)
ListsAgree ==
    \A c \in Client, t \in Tracker :
        rtr[c] # t => /\ c \in list[t] => t \in subs[c]
                      /\ t \in subs[c] /\ ~closed[c] => c \in list[t]

(* A client whose lock was kept by a Push.                                 *)
Lost(c) == lock[c] \notin {nil, <<"write", c>>}

(* The lock of a client is not released (Push of a closed client) only     *)
(* when it is closed, and a publication to a tracker is stuck there only   *)
(* because one to another tracker, or the client's own subscription, had   *)
(* taken it: the publication that finds a client closed drops it.          *)
StuckOnAnother ==
    /\ \A c \in Client : Lost(c) => closed[c]
    /\ \A r \in Run :
          ppc[r] = "push" => lock[pcur[r]] # <<"pub", trk[pfeed[r]]>>

(* While browsers take what is written to them, SendLocation and SendEvent *)
(* return, as they run in the goroutine that reads the tracker, unless the *)
(* lock of some client is lost, or a message of a browser ends the process.*)
PublishReturns ==
    \A r \in Run :
        (\A c \in Client : []<>(wpc[c] # "write")) =>
            (ppc[r] # "idle" ~>
                ppc[r] = "idle" \/ ~Up \/ \E c \in Client : Lost(c))
=============================================================================
