-------------------------- MODULE GpsServerProofs --------------------------
(***************************************************************************)
(* Proofs about GpsServer for any number of connections, serial numbers,   *)
(* serial types and rows left by earlier servers.                          *)
(***************************************************************************)
EXTENDS GpsServer, TLAPS

(* The error paths of a login handler are one step.                        *)
GivesUp(k) ==
    /\ lpc[k] \in {"peek", "frame", "ack", "select", "insert", "config"}
    /\ CloseAndReturn(k)
    /\ UNCHANGED <<listening, hVars, row, regVars, devVars, raced>>

(* Steps that change the program counter alone.                            *)
Passes(k) ==
    /\ \/ lpc[k] = "none" /\ lpc' = [lpc EXCEPT ![k] = "peek"]
       \/ lpc[k] = "ack" /\ lpc' = [lpc EXCEPT ![k] = "lookup"]
       \/ lpc[k] = "frame" /\ lpc' = [lpc EXCEPT ![k] = "panic"]
    /\ UNCHANGED <<listening, hVars, closed, row, regVars, devVars, raced>>

(* Steps of the listener and of the API.                                   *)
Outside ==
    /\ \/ listening' \in BOOLEAN /\ stopped' = stopped
       \/ listening' = listening /\ \E t \in Tid :
             list[t] # nil /\ stopped' = stopped \cup {list[t]}
    /\ UNCHANGED <<lpc, hVars, closed, row, regVars, made, given, raced>>

Step(k) ==
    \/ GivesUp(k) \/ Passes(k)
    \/ \E p \in Protocol \cup {"other"} : Peek(k, p)
    \/ \E n \in Serial(kind[k]) : Login(k, n)
    \/ LookupFound(k) \/ LookupMissed(k) \/ Replace(k)
    \/ Select(k) \/ SelectNoRows(k) \/ Insert(k)
    \/ Create(k) \/ addDevice(k)

LEMMA NextCases ==
    ASSUME [Next]_vars, listening \in BOOLEAN
    PROVE  Outside \/ UNCHANGED vars \/ \E k \in Conn : Step(k)
<1>1. ASSUME NEW k \in Conn, Accept(k) PROVE Step(k)
  BY <1>1 DEF Accept, Step, Passes
<1>2. ASSUME NEW k \in Conn, Receive(k) PROVE Step(k)
  <2>1. CASE Panic(k)
    BY <2>1 DEF Panic, Step, Passes
  <2>2. QED
    BY <1>2, <2>1 DEF Receive, Step
<1>3. ASSUME NEW k \in Conn, Handle(k) PROVE Step(k)
  <2>1. CASE PeekFails(k) \/ RejectFrame(k) \/ SendLoginFails(k)
             \/ QueryFails(k) \/ Refuse(k)
    BY <2>1 DEF PeekFails, RejectFrame, SendLoginFails, QueryFails, Refuse,
                Step, GivesUp
  <2>2. CASE SendLoginOK(k)
    BY <2>2 DEF SendLoginOK, Step, Passes
  <2>3. QED
    BY <1>3, <2>1, <2>2 DEF Handle, Step
<1>4. AcceptError => Outside
  BY DEF AcceptError, Outside, devVars
<1>5. ASSUME NEW t \in Tid, PurgeDevice(t) PROVE Outside
  BY <1>5 DEF PurgeDevice, Outside
<1>6. ASSUME NEW k \in Conn, Replace(k) PROVE Step(k)
  BY <1>6 DEF Step
<1>7. QED
  BY <1>1, <1>2, <1>3, <1>4, <1>5, <1>6 DEF Next

-----------------------------------------------------------------------------
(* Types.                                                                  *)

(* What a handler has decoded and found by the time it needs it.           *)
AtLogin ==
    \A k \in Conn :
        /\ lpc[k] = "frame" => kind[k] \in Protocol
        /\ lpc[k] \in {"ack", "lookup", "replace", "select", "insert",
                       "config", "add"} => kind[k] \in Protocol /\ nsn[k] \in Nsn
        /\ lpc[k] = "replace" => target[k] \in Conn
        /\ k \in made => /\ nsn[k] \in Nsn /\ tid[k] \in Tid
                         /\ lpc[k] \in {"add", "done"}
        /\ lpc[k] = "add" => k \in made

(* Entries are devices, so that a purge stops a device.                    *)
EntryMade == \A t \in Tid : list[t] # nil => list[t] \in made

TypeInv == TypeOK /\ AtLogin /\ EntryMade

LEMMA NsnNotNil == nil \notin Nsn /\ Nsn \subseteq Nat
<1>1. ASSUME NEW t \in {0} \cup JsonSnType, NEW s \in Sn
      PROVE  CombineSn(t, s) \in Nat
  <2>1. s % SnMod \in Nat /\ t * SnMod \in Nat
    BY ServerAssumption
  <2>2. QED
    BY <2>1 DEF CombineSn
<1>2. QED
  BY <1>1, ServerAssumption DEF Nsn

(* What the parts of a serial number are, by the protocol.                 *)
LEMMA SerialParts ==
    ASSUME NEW p \in Protocol, NEW n \in Serial(p)
    PROVE  /\ n.sn_type \in Nat /\ n.sn \in Sn /\ n.sn \in Nat
           /\ n \in [sn_type : {0} \cup JsonSnType, sn : Sn]
           /\ p = "gt06" <=> n.sn_type = 0
           /\ p = "gt06" => n.sn < SnMod
<1>1. CASE p = "gt06"
  <2>1. n \in [sn_type : {0}, sn : {s \in Sn : s < SnMod}]
    BY <1>1 DEF Serial
  <2>2. /\ n.sn_type = 0 /\ n.sn \in Sn /\ n.sn < SnMod
        /\ n = [sn_type |-> n.sn_type, sn |-> n.sn]
    BY <2>1
  <2>3. QED
    BY <1>1, <2>2, ServerAssumption
<1>2. CASE p # "gt06"
  <2>1. n \in [sn_type : JsonSnType, sn : Sn]
    BY <1>2 DEF Serial
  <2>2. QED
    BY <1>2, <2>1, ServerAssumption
<1>3. QED
  BY <1>1, <1>2

LEMMA TypeInit == Init => TypeInv
BY ServerAssumption DEF Init, TypeInv, TypeOK, AtLogin, EntryMade, Tid

LEMMA TypeNext ==
    ASSUME TypeInv, [Next]_vars
    PROVE  TypeInv'
<1>1. CASE Outside \/ UNCHANGED vars
  BY <1>1 DEF Outside, vars, hVars, regVars, devVars, TypeInv, TypeOK,
         AtLogin, EntryMade
<1>2. ASSUME NEW k \in Conn, Step(k) PROVE TypeInv'
  <2>1. CASE GivesUp(k)
    BY <2>1 DEF GivesUp, CloseAndReturn, hVars, regVars, devVars, TypeInv,
           TypeOK, AtLogin, EntryMade
  <2>2. CASE Passes(k)
    BY <2>2 DEF Passes, hVars, regVars, devVars, TypeInv, TypeOK, AtLogin,
           EntryMade
  <2>3. ASSUME NEW p \in Protocol \cup {"other"}, Peek(k, p)
        PROVE  TypeInv'
    BY <2>3 DEF Peek, regVars, devVars, TypeInv, TypeOK, AtLogin, EntryMade
  <2>4. ASSUME NEW n \in Serial(kind[k]), Login(k, n)
        PROVE  TypeInv'
    <3>1. CombineSn(n.sn_type, n.sn) \in Nsn
      BY DEF Nsn, Serial
    <3>2. n \in [sn_type : {0} \cup JsonSnType, sn : Sn]
      BY <2>4, SerialParts DEF Login, TypeInv, AtLogin
    <3>3. QED
      BY <2>4, <3>1, <3>2 DEF Login, regVars, devVars, TypeInv, TypeOK, AtLogin,
             EntryMade
  <2>5. CASE LookupFound(k)
    <3>1. deviceNsn(nsn[k]) \in Conn
      BY <2>5 DEF LookupFound, deviceNsn, TypeInv, TypeOK, AtLogin
    <3>2. QED
      BY <2>5, <3>1 DEF LookupFound, regVars, devVars, TypeInv, TypeOK, AtLogin,
             EntryMade
  <2>6. CASE LookupMissed(k)
    BY <2>6 DEF LookupMissed, hVars, regVars, devVars, TypeInv, TypeOK,
           AtLogin, EntryMade
  <2>7. CASE Replace(k)
    BY <2>7 DEF Replace, hVars, regVars, TypeInv, TypeOK, AtLogin, EntryMade
  <2>8. CASE Select(k)
    BY <2>8 DEF Select, Fetched, regVars, devVars, TypeInv, TypeOK, AtLogin,
           EntryMade
  <2>9. CASE SelectNoRows(k)
    BY <2>9 DEF SelectNoRows, hVars, regVars, devVars, TypeInv, TypeOK,
           AtLogin, EntryMade
  <2>10. CASE Insert(k)
    BY <2>10 DEF Insert, Fetched, regVars, devVars, TypeInv, TypeOK, AtLogin,
           EntryMade, Tid
  <2>11. CASE Create(k)
    BY <2>11 DEF Create, hVars, regVars, TypeInv, TypeOK, AtLogin, EntryMade
  <2>12. CASE addDevice(k)
    BY <2>12 DEF addDevice, hVars, devVars, TypeInv, TypeOK, AtLogin,
           EntryMade
  <2>13. QED
    BY <1>2, <2>1, <2>2, <2>3, <2>4, <2>5, <2>6, <2>7, <2>8, <2>9, <2>10,
           <2>11, <2>12 DEF Step
<1>3. QED
  BY <1>1, <1>2, NextCases DEF TypeInv, TypeOK

(* Every variable keeps its type; a device and a stopped device exist only *)
(* where the login that made it has fetched its row.                       *)
THEOREM TypeCorrect == Spec => []TypeOK
<1>1. Spec => []TypeInv
  BY TypeInit, TypeNext, PTL DEF Spec
<1>2. TypeInv => TypeOK
  BY DEF TypeInv
<1>3. QED
  BY <1>1, <1>2, PTL

-----------------------------------------------------------------------------
(* The maps and the table.                                                 *)

(* A row that was fetched has the serial number it was fetched for.        *)
RowFetched ==
    \A k \in Conn :
        lpc[k] \in {"config", "add"} \/ k \in made => row[tid[k]] = nsn[k]

(* An entry is a device whose login has ended, in its own row, and its     *)
(* serial number is in nsnlist.                                            *)
EntryOfDevice ==
    \A t \in Tid :
        list[t] # nil => /\ list[t] \in made /\ lpc[list[t]] = "done"
                         /\ tid[list[t]] = t /\ nsnlist[nsn[list[t]]] # nil

NumberToEntry ==
    \A n \in Nsn :
        nsnlist[n] # nil =>
            list[nsnlist[n]] # nil /\ nsn[list[nsnlist[n]]] = n

(* A registered device keeps its serial number in nsnlist.                 *)
DoneListed ==
    \A d \in made : lpc[d] = "done" => nsnlist[nsn[d]] # nil

(* A row is inserted by the login it is named after, once.                 *)
RowInserted ==
    \A k \in Conn :
        row[k] # nil =>
            row[k] = nsn[k] /\ lpc[k] \in {"config", "add", "done"}

RegInv ==
    /\ RowFetched /\ RowInserted
    /\ EntryOfDevice /\ NumberToEntry /\ DoneListed

LEMMA RegInit == Init => RegInv
BY ServerAssumption
   DEF Init, RegInv, RowFetched, RowInserted, EntryOfDevice, NumberToEntry,
       DoneListed, Tid

LEMMA RegMapsAgree == TypeInv /\ RegInv => MapsAgree
BY ServerAssumption
   DEF TypeInv, TypeOK, AtLogin, RegInv, RowFetched, EntryOfDevice,
       NumberToEntry, MapsAgree, deviceNsn, Tid

LEMMA RegNext ==
    ASSUME TypeInv, RegInv, [Next]_vars
    PROVE  RegInv'
<1>1. CASE Outside \/ UNCHANGED vars
  BY <1>1 DEF Outside, vars, hVars, regVars, devVars, RegInv, RowFetched,
         RowInserted, EntryOfDevice, NumberToEntry, DoneListed
<1>2. ASSUME NEW k \in Conn, Step(k) PROVE RegInv'
  <2>1. CASE GivesUp(k)
    BY <2>1 DEF GivesUp, CloseAndReturn, hVars, regVars, devVars, TypeInv,
           AtLogin, RegInv, RowFetched, RowInserted, EntryOfDevice,
           NumberToEntry, DoneListed
  <2>2. CASE Passes(k)
    BY <2>2 DEF Passes, hVars, regVars, devVars, TypeInv, TypeOK, RegInv,
           RowFetched, RowInserted, EntryOfDevice, NumberToEntry, DoneListed
  <2>3. ASSUME NEW p \in Protocol \cup {"other"}, Peek(k, p)
        PROVE  RegInv'
    BY <2>3 DEF Peek, regVars, devVars, TypeInv, AtLogin, RegInv, RowFetched,
           RowInserted, EntryOfDevice, NumberToEntry, DoneListed
  <2>4. ASSUME NEW n \in Serial(kind[k]), Login(k, n)
        PROVE  RegInv'
    BY <2>4 DEF Login, regVars, devVars, TypeInv, TypeOK, AtLogin, RegInv,
           RowFetched, RowInserted, EntryOfDevice, NumberToEntry, DoneListed
  <2>5. CASE LookupFound(k)
    BY <2>5 DEF LookupFound, regVars, devVars, RegInv, RowFetched,
           RowInserted, EntryOfDevice, NumberToEntry, DoneListed
  <2>6. CASE LookupMissed(k)
    BY <2>6 DEF LookupMissed, hVars, regVars, devVars, RegInv, RowFetched,
           RowInserted, EntryOfDevice, NumberToEntry, DoneListed
  <2>7. CASE Replace(k)
    BY <2>7 DEF Replace, hVars, regVars, TypeInv, AtLogin, RegInv,
           RowFetched, RowInserted, EntryOfDevice, NumberToEntry, DoneListed
  <2>8. CASE Select(k)
    BY <2>8 DEF Select, Fetched, regVars, devVars, TypeInv, TypeOK, RegInv,
           RowFetched, RowInserted, EntryOfDevice, NumberToEntry, DoneListed
  <2>9. CASE SelectNoRows(k)
    BY <2>9 DEF SelectNoRows, hVars, regVars, devVars, RegInv, RowFetched,
           RowInserted, EntryOfDevice, NumberToEntry, DoneListed
  <2>10. CASE Insert(k)
    BY <2>10, NsnNotNil DEF Insert, Fetched, regVars, devVars, TypeInv,
           TypeOK, AtLogin, Tid, RegInv, RowFetched, RowInserted,
           EntryOfDevice, NumberToEntry, DoneListed
  <2>11. CASE Create(k)
    BY <2>11 DEF Create, hVars, regVars, RegInv, RowFetched, RowInserted,
           EntryOfDevice, NumberToEntry, DoneListed
  <2>12. CASE addDevice(k)
    BY <2>12, ServerAssumption DEF addDevice, hVars, devVars, TypeInv,
           TypeOK, AtLogin, Tid, RegInv, RowFetched, RowInserted,
           EntryOfDevice, NumberToEntry, DoneListed
  <2>13. QED
    BY <1>2, <2>1, <2>2, <2>3, <2>4, <2>5, <2>6, <2>7, <2>8, <2>9, <2>10,
           <2>11, <2>12 DEF Step
<1>3. QED
  BY <1>1, <1>2, NextCases DEF TypeInv, TypeOK

LEMMA RegHolds == Spec => [](TypeInv /\ RegInv)
<1>1. TypeInv /\ RegInv /\ [Next]_vars => TypeInv' /\ RegInv'
  BY TypeNext, RegNext
<1>2. QED
  BY <1>1, TypeInit, RegInit, PTL DEF Spec

(* The registry's two maps and the table agree (lines 49 to 68 and 235):   *)
(* whoever finds a serial number finds a device of that serial number.     *)
THEOREM MapsAgreeHolds == Spec => []MapsAgree
BY RegHolds, RegMapsAgree, PTL

-----------------------------------------------------------------------------
(* Overlapping logins.                                                     *)

(* A login that is creating a device overlapped every other one that is or *)
(* has done so, for the same serial number.                                *)
CreatingRaced ==
    \A k, l \in Conn :
        k # l /\ nsn[k] = nsn[l] /\ Creating(k) /\ (Creating(l) \/ l \in made)
            => {k, l} \in raced

(* Who is about to insert saw no row: one that is there came meanwhile.    *)
InsertRaced ==
    \A k \in Conn, t \in Tid :
        lpc[k] = "insert" /\ row[t] = nsn[k] => {k, t} \in raced

RaceInv ==
    /\ CreatingRaced /\ InsertRaced
    /\ TwinsRaced /\ RowsRaced /\ FoundUnlessRaced

LEMMA RaceInit == Init => RaceInv
BY ServerAssumption
   DEF Init, RaceInv, CreatingRaced, InsertRaced, TwinsRaced,
       RowsRaced, FoundUnlessRaced, Creating, Tid

LEMMA RaceNext ==
    ASSUME TypeInv, RegInv, RaceInv, [Next]_vars
    PROVE  RaceInv'
<1>1. CASE Outside \/ UNCHANGED vars
  BY <1>1 DEF Outside, vars, hVars, regVars, devVars, RaceInv, CreatingRaced,
         InsertRaced, TwinsRaced, RowsRaced, FoundUnlessRaced, Creating
<1>2. ASSUME NEW k \in Conn, Step(k) PROVE RaceInv'
  <2>1. CASE GivesUp(k)
    BY <2>1 DEF GivesUp, CloseAndReturn, hVars, regVars, devVars, TypeInv,
           AtLogin, RaceInv, CreatingRaced, InsertRaced, TwinsRaced,
           RowsRaced, FoundUnlessRaced, Creating
  <2>2. CASE Passes(k)
    BY <2>2 DEF Passes, hVars, regVars, devVars, TypeInv, TypeOK, AtLogin,
           RaceInv, CreatingRaced, InsertRaced, TwinsRaced, RowsRaced,
           FoundUnlessRaced, Creating
  <2>3. ASSUME NEW p \in Protocol \cup {"other"}, Peek(k, p)
        PROVE  RaceInv'
    BY <2>3 DEF Peek, regVars, devVars, TypeInv, AtLogin, RaceInv,
           CreatingRaced, InsertRaced, TwinsRaced, RowsRaced,
           FoundUnlessRaced, Creating
  <2>4. ASSUME NEW n \in Serial(kind[k]), Login(k, n)
        PROVE  RaceInv'
    BY <2>4 DEF Login, regVars, devVars, TypeInv, AtLogin, RaceInv,
           CreatingRaced, InsertRaced, TwinsRaced, RowsRaced,
           FoundUnlessRaced, Creating
  <2>5. CASE LookupFound(k)
    BY <2>5 DEF LookupFound, regVars, devVars, RaceInv, CreatingRaced,
           InsertRaced, TwinsRaced, RowsRaced, FoundUnlessRaced, Creating
  <2>6. CASE LookupMissed(k)
    <3>1. nsn[k] \in Nsn /\ nsnlist[nsn[k]] = nil /\ k \notin made
      BY <2>6 DEF LookupMissed, deviceNsn, TypeInv, TypeOK, AtLogin, RegInv,
               NumberToEntry
    <3>2. ASSUME NEW l \in Conn \ {k}, nsn[l] = nsn[k],
                 Creating(l) \/ l \in made
          PROVE  {k, l} \in raced' /\ {l, k} \in raced'
      <4>1. Creating(l)
        BY <3>1, <3>2 DEF Creating, TypeInv, AtLogin, RegInv, DoneListed
      <4>2. QED
        BY <2>6, <3>2, <4>1 DEF LookupMissed
    <3>3. /\ raced \subseteq raced' /\ lpc' = [lpc EXCEPT ![k] = "select"]
          /\ UNCHANGED <<nsn, tid, row, list, made>>
      BY <2>6 DEF LookupMissed, hVars, regVars, devVars
    <3>4. ASSUME NEW l \in Conn \ {k}
          PROVE  lpc'[l] = lpc[l] /\ (Creating(l)' <=> Creating(l))
      BY <3>3 DEF TypeInv, TypeOK, Creating
    <3>5. CreatingRaced'
      <4>1. ASSUME NEW a \in Conn, NEW b \in Conn, a # b, nsn[a] = nsn[b],
                   Creating(a)', Creating(b)' \/ b \in made
            PROVE  {a, b} \in raced'
        <5>1. CASE a = k \/ b = k
          BY <3>2, <3>4, <4>1, <5>1, <3>1
        <5>2. CASE a # k /\ b # k
          BY <3>3, <3>4, <4>1, <5>2 DEF RaceInv, CreatingRaced
        <5>3. QED
          BY <5>1, <5>2
      <4>2. QED
        BY <3>3, <4>1 DEF CreatingRaced
    <3>6. InsertRaced'
      BY <3>3, <3>4 DEF RaceInv, InsertRaced, TypeInv, TypeOK
    <3>7. TwinsRaced' /\ RowsRaced'
      BY <3>3 DEF RaceInv, TwinsRaced, RowsRaced
    <3>8. FoundUnlessRaced'
      BY <3>1, <3>3, <3>4 DEF RaceInv, FoundUnlessRaced, TypeInv, TypeOK
    <3>9. QED
      BY <3>5, <3>6, <3>7, <3>8 DEF RaceInv
  <2>7. CASE Replace(k)
    BY <2>7 DEF Replace, hVars, regVars, TypeInv, TypeOK, AtLogin, RaceInv,
           CreatingRaced, InsertRaced, TwinsRaced, RowsRaced,
           FoundUnlessRaced, Creating
  <2>8. CASE Select(k)
    BY <2>8 DEF Select, Fetched, regVars, devVars, RaceInv, CreatingRaced,
           InsertRaced, TwinsRaced, RowsRaced, FoundUnlessRaced, Creating
  <2>9. CASE SelectNoRows(k)
    BY <2>9 DEF SelectNoRows, hVars, regVars, devVars, RaceInv,
           CreatingRaced, InsertRaced, TwinsRaced, RowsRaced,
           FoundUnlessRaced, Creating
  <2>10. CASE Insert(k)
    <3>1. /\ lpc[k] = "insert" /\ lpc' = [lpc EXCEPT ![k] = "config"]
          /\ row' = [row EXCEPT ![k] = nsn[k]]
          /\ tid' = [tid EXCEPT ![k] = k]
          /\ UNCHANGED <<nsn, list, made, raced>>
      BY <2>10 DEF Insert, Fetched, regVars, devVars
    <3>2. \A l \in Conn : Creating(l)' <=> Creating(l)
      BY <3>1 DEF TypeInv, TypeOK, Creating
    <3>3. CreatingRaced' /\ TwinsRaced'
      BY <3>1, <3>2 DEF RaceInv, CreatingRaced, TwinsRaced
    <3>4. k \notin made
      BY <3>1 DEF TypeInv, AtLogin
    <3>5. FoundUnlessRaced'
      BY <3>1, <3>4 DEF RaceInv, FoundUnlessRaced, TypeInv, TypeOK
    <3>6. row[k] = nil /\ nsn[k] # nil
      BY <3>1, NsnNotNil DEF TypeInv, AtLogin, RegInv, RowInserted
    <3>7. InsertRaced'
      <4>1. ASSUME NEW l \in Conn, lpc'[l] = "insert", nsn[l] = nsn[k]
            PROVE  {l, k} \in raced
        BY <3>1, <4>1 DEF TypeInv, TypeOK, RaceInv, CreatingRaced, Creating
      <4>2. QED
        BY <3>1, <4>1 DEF TypeInv, TypeOK, RaceInv, InsertRaced, Tid
    <3>8. RowsRaced'
      <4>1. ASSUME NEW t \in Tid \ {k}, row[t] = nsn[k]
            PROVE  {k, t} \in raced
        BY <3>1, <4>1 DEF RaceInv, InsertRaced
      <4>2. ASSUME NEW a \in Conn, NEW b \in Tid, b # a,
                   row'[a] # nil, row'[b] = row'[a]
            PROVE  {a, b} \in raced
        <5>1. CASE a = k
          <6>1. b \in Tid \ {k} /\ row[b] = nsn[k]
            BY <3>1, <4>2, <5>1 DEF TypeInv, TypeOK, Tid
          <6>2. QED
            BY <4>1, <5>1, <6>1
        <5>2. CASE b = k
          <6>1. a \in Tid \ {k} /\ row[a] = nsn[k]
            BY <3>1, <4>2, <5>2 DEF TypeInv, TypeOK, Tid
          <6>2. {a, b} = {k, a}
            BY <5>2
          <6>3. QED
            BY <4>1, <6>1, <6>2
        <5>3. CASE a # k /\ b # k
          BY <3>1, <4>2, <5>3 DEF RaceInv, RowsRaced
        <5>4. QED
          BY <5>1, <5>2, <5>3
      <4>3. QED
        BY <3>1, <4>2 DEF RowsRaced
    <3>9. QED
      BY <3>3, <3>5, <3>7, <3>8 DEF RaceInv
  <2>11. CASE Create(k)
    BY <2>11 DEF Create, hVars, regVars, TypeInv, TypeOK, RaceInv,
           CreatingRaced, InsertRaced, TwinsRaced, RowsRaced,
           FoundUnlessRaced, Creating
  <2>12. CASE addDevice(k)
    BY <2>12 DEF addDevice, hVars, devVars, TypeInv, TypeOK, AtLogin, RegInv,
           RowFetched, RaceInv, CreatingRaced, InsertRaced, TwinsRaced,
           RowsRaced, FoundUnlessRaced, Creating
  <2>13. QED
    BY <1>2, <2>1, <2>2, <2>3, <2>4, <2>5, <2>6, <2>7, <2>8, <2>9, <2>10,
           <2>11, <2>12 DEF Step
<1>3. QED
  BY <1>1, <1>2, NextCases DEF TypeInv, TypeOK

LEMMA RaceHolds == Spec => [](TypeInv /\ RegInv /\ RaceInv)
<1>1. TypeInv /\ RegInv /\ RaceInv /\ [Next]_vars
      => TypeInv' /\ RegInv' /\ RaceInv'
  BY TypeNext, RegNext, RaceNext
<1>2. QED
  BY <1>1, TypeInit, RegInit, RaceInit, PTL DEF Spec

(* A serial number gets a second device from overlapping logins only       *)
(* (lines 335 to 357 of two handlers).                                     *)
THEOREM TwinsRacedHolds == Spec => []TwinsRaced
<1>1. RaceInv => TwinsRaced
  BY DEF RaceInv
<1>2. QED
  BY <1>1, RaceHolds, PTL

(* It gets a second row from overlapping logins only (lines 235 to 239).   *)
THEOREM RowsRacedHolds == Spec => []RowsRaced
<1>1. RaceInv => RowsRaced
  BY DEF RaceInv
<1>2. QED
  BY <1>1, RaceHolds, PTL

(* GetDevice and PurgeDevice find a registered device by its tracker's id, *)
(* unless an overlapping login has overwritten the entry.                  *)
THEOREM FoundUnlessRacedHolds == Spec => []FoundUnlessRaced
<1>1. RaceInv => FoundUnlessRaced
  BY DEF RaceInv
<1>2. QED
  BY <1>1, RaceHolds, PTL

-----------------------------------------------------------------------------
(* Connections.                                                            *)

(* CombineSn keeps the serial type, and the remainder of the serial number.*)
LEMMA CombineKeeps ==
    ASSUME NEW t \in Nat, NEW r \in Nat, NEW u \in Nat, NEW q \in Nat,
           CombineSn(t, r) = CombineSn(u, q)
    PROVE  t = u /\ r % SnMod = q % SnMod
<1> DEFINE a == r % SnMod
           b == q % SnMod
<1>1. a \in 0..(SnMod - 1) /\ b \in 0..(SnMod - 1) /\ SnMod \in Nat \ {0}
  BY ServerAssumption
<1>2. a + t * SnMod = b + u * SnMod
  BY DEF CombineSn
<1>3. ASSUME NEW x \in Nat, NEW y \in Nat, x < y
      PROVE  x * SnMod + SnMod <= y * SnMod
  <2>1. y * SnMod = x * SnMod + SnMod + (y - x - 1) * SnMod
    BY <1>1, <1>3
  <2>2. (y - x - 1) * SnMod \in Nat /\ x * SnMod \in Nat
    BY <1>1, <1>3
  <2>3. QED
    BY <1>1, <2>1, <2>2
<1>4. t * SnMod \in Nat /\ u * SnMod \in Nat
  BY <1>1
<1>5. ~(t < u) /\ ~(u < t)
  <2>1. t < u => t * SnMod + SnMod <= u * SnMod
    BY <1>3
  <2>2. u < t => u * SnMod + SnMod <= t * SnMod
    BY <1>3
  <2> HIDE DEF a, b
  <2>3. QED
    BY <1>1, <1>2, <1>4, <2>1, <2>2
<1>6. t = u
  BY <1>5
<1>7. a = b
  <2> HIDE DEF a, b
  <2>1. QED
    BY <1>1, <1>2, <1>4, <1>6
<1>8. QED
  BY <1>6, <1>7

(* The number of a login is the one CombineSn made of its serial number.   *)
NsnOfSerial ==
    \A k \in Conn :
        nsn[k] # nil => /\ kind[k] \in Protocol
                        /\ ser[k] \in Serial(kind[k])
                        /\ nsn[k] = CombineSn(ser[k].sn_type, ser[k].sn)

(* Who is handed what, by the program counter of the login.                *)
HandedBy ==
    \A k \in Conn :
        /\ lpc[k] \in {"none", "peek", "frame"} => nsn[k] = nil
        /\ lpc[k] = "replace" =>
              target[k] \in made /\ nsn[target[k]] = nsn[k]
        /\ lpc[k] \notin {"add", "done"} => given[k] = nil
        /\ lpc[k] = "add" => given[k] = k /\ k \in made
        /\ k \in closed => lpc[k] = "done"

(* A device and its connections have the same number in the registry.      *)
SameNumber ==
    \A k \in Conn :
        given[k] # nil => /\ given[k] \in made
                          /\ nsn[k] # nil /\ nsn[given[k]] = nsn[k]

HandInv == NsnOfSerial /\ HandedBy /\ SameNumber /\ ClosedOrServed

(* The same number means the same protocol and serial type, and the same   *)
(* serial number unless one was cut.                                       *)
LEMMA NumberTells == TypeInv /\ HandInv => OwnTerminal
<1> SUFFICES ASSUME TypeInv, HandInv, NEW k \in Conn, given[k] # nil
             PROVE  LET d == given[k]
                    IN  /\ d \in made
                        /\ kind[d] = kind[k]
                        /\ ser[d].sn_type = ser[k].sn_type
                        /\ \/ ser[d].sn = ser[k].sn
                           \/ kind[k] = "simplejson" /\ (Cut(d) \/ Cut(k))
  BY DEF OwnTerminal
<1> DEFINE d == given[k]
<1>1. /\ d \in made /\ d \in Conn
      /\ nsn[k] # nil /\ nsn[d] = nsn[k]
  BY DEF HandInv, SameNumber, TypeInv, TypeOK
<1>2. /\ kind[k] \in Protocol /\ ser[k] \in Serial(kind[k])
      /\ kind[d] \in Protocol /\ ser[d] \in Serial(kind[d])
      /\ CombineSn(ser[d].sn_type, ser[d].sn)
            = CombineSn(ser[k].sn_type, ser[k].sn)
  BY <1>1 DEF HandInv, NsnOfSerial
<1>3. /\ ser[k].sn_type \in Nat /\ ser[k].sn \in Nat
      /\ kind[k] = "gt06" <=> ser[k].sn_type = 0
      /\ kind[k] = "gt06" => ser[k].sn < SnMod
  BY <1>2, SerialParts
<1>4. /\ ser[d].sn_type \in Nat /\ ser[d].sn \in Nat
      /\ kind[d] = "gt06" <=> ser[d].sn_type = 0
      /\ kind[d] = "gt06" => ser[d].sn < SnMod
  BY <1>2, SerialParts
<1>5. /\ ser[d].sn_type = ser[k].sn_type
      /\ ser[d].sn % SnMod = ser[k].sn % SnMod
  BY <1>2, <1>3, <1>4, CombineKeeps
<1>6. kind[d] = kind[k]
  BY <1>2, <1>3, <1>4, <1>5 DEF Protocol
<1>7. ASSUME NEW x \in Nat, x < SnMod PROVE x % SnMod = x
  BY <1>7, ServerAssumption
<1>8. CASE ser[d].sn < SnMod /\ ser[k].sn < SnMod
  BY <1>1, <1>3, <1>4, <1>5, <1>6, <1>7, <1>8
<1>9. CASE ~(ser[d].sn < SnMod /\ ser[k].sn < SnMod)
  <2>1. kind[k] = "simplejson"
    BY <1>2, <1>3, <1>4, <1>6, <1>9 DEF Protocol
  <2>2. ser[d].sn >= SnMod \/ ser[k].sn >= SnMod
    BY <1>3, <1>4, <1>9, ServerAssumption
  <2>3. QED
    BY <1>1, <1>5, <1>6, <2>1, <2>2 DEF Cut
<1>10. QED
  BY <1>8, <1>9

LEMMA HandInit == Init => HandInv
BY DEF Init, HandInv, NsnOfSerial, HandedBy, SameNumber, ClosedOrServed

LEMMA HandNext ==
    ASSUME TypeInv, RegInv, HandInv, [Next]_vars
    PROVE  HandInv'
<1>1. CASE Outside \/ UNCHANGED vars
  BY <1>1 DEF Outside, vars, hVars, devVars, HandInv, NsnOfSerial, HandedBy,
         SameNumber, ClosedOrServed
<1>2. ASSUME NEW k \in Conn, Step(k) PROVE HandInv'
  <2>1. CASE GivesUp(k)
    BY <2>1 DEF GivesUp, CloseAndReturn, hVars, devVars, TypeInv, TypeOK,
           HandInv, NsnOfSerial, HandedBy, SameNumber, ClosedOrServed
  <2>2. CASE Passes(k)
    BY <2>2 DEF Passes, hVars, devVars, TypeInv, TypeOK, HandInv, NsnOfSerial,
           HandedBy, SameNumber, ClosedOrServed
  <2>3. ASSUME NEW p \in Protocol \cup {"other"}, Peek(k, p)
        PROVE  HandInv'
    BY <2>3 DEF Peek, devVars, TypeInv, TypeOK, HandInv, NsnOfSerial, HandedBy,
           SameNumber, ClosedOrServed
  <2>4. ASSUME NEW n \in Serial(kind[k]), Login(k, n)
        PROVE  HandInv'
    <3>1. kind[k] \in Protocol /\ nsn[k] = nil
      BY <2>4 DEF Login, TypeInv, AtLogin, HandInv, HandedBy
    <3>2. /\ nsn' = [nsn EXCEPT ![k] = CombineSn(n.sn_type, n.sn)]
          /\ ser' = [ser EXCEPT ![k] = n]
          /\ lpc[k] = "frame" /\ n \in Serial(kind[k])
          /\ lpc' = [lpc EXCEPT ![k] = IF kind[k] = "gt06" THEN "ack"
                                                          ELSE "lookup"]
          /\ UNCHANGED <<kind, target, closed, made, given>>
      BY <2>4 DEF Login, devVars
    <3>3. CombineSn(n.sn_type, n.sn) \in Nsn
      BY <3>1, <3>2, SerialParts DEF Nsn
    <3>4. k \notin made /\ given[k] = nil /\ \A l \in Conn : given[l] # k
      BY <3>1, <3>2, ServerAssumption
         DEF TypeInv, AtLogin, HandInv, HandedBy, SameNumber
    <3>5. NsnOfSerial'
      BY <3>1, <3>2 DEF TypeInv, TypeOK, HandInv, NsnOfSerial
    <3>6. HandedBy'
      BY <3>2, <3>4, ServerAssumption DEF TypeInv, TypeOK, AtLogin, HandInv,
             HandedBy
    <3>7. SameNumber'
      BY <3>2, <3>4 DEF TypeInv, TypeOK, HandInv, SameNumber
    <3>8. ClosedOrServed'
      BY <3>2 DEF TypeInv, TypeOK, HandInv, ClosedOrServed
    <3>9. QED
      BY <3>5, <3>6, <3>7, <3>8 DEF HandInv
  <2>5. CASE LookupFound(k)
    <3>1. deviceNsn(nsn[k]) \in made /\ nsn[deviceNsn(nsn[k])] = nsn[k]
      BY <2>5 DEF LookupFound, deviceNsn, TypeInv, TypeOK, AtLogin, EntryMade,
               RegInv, NumberToEntry
    <3>2. QED
      BY <2>5, <3>1 DEF LookupFound, devVars, TypeInv, TypeOK, HandInv,
             NsnOfSerial, HandedBy, SameNumber, ClosedOrServed
  <2>6. CASE LookupMissed(k)
    BY <2>6 DEF LookupMissed, hVars, devVars, HandInv, NsnOfSerial, HandedBy,
           SameNumber, ClosedOrServed
  <2>7. CASE Replace(k)
    BY <2>7, ServerAssumption, NsnNotNil DEF Replace, hVars, TypeInv, TypeOK,
           AtLogin, HandInv, NsnOfSerial, HandedBy, SameNumber,
           ClosedOrServed, Protocol
  <2>8. CASE Select(k)
    BY <2>8 DEF Select, Fetched, devVars, HandInv, NsnOfSerial, HandedBy,
           SameNumber, ClosedOrServed
  <2>9. CASE SelectNoRows(k)
    BY <2>9 DEF SelectNoRows, hVars, devVars, HandInv, NsnOfSerial, HandedBy,
           SameNumber, ClosedOrServed
  <2>10. CASE Insert(k)
    BY <2>10 DEF Insert, Fetched, devVars, HandInv, NsnOfSerial, HandedBy,
           SameNumber, ClosedOrServed
  <2>11. CASE Create(k)
    BY <2>11, NsnNotNil DEF Create, hVars, TypeInv, TypeOK, AtLogin, HandInv,
           NsnOfSerial, HandedBy, SameNumber, ClosedOrServed
  <2>12. CASE addDevice(k)
    BY <2>12, ServerAssumption DEF addDevice, hVars, devVars, HandInv,
           NsnOfSerial, HandedBy, SameNumber, ClosedOrServed
  <2>13. QED
    BY <1>2, <2>1, <2>2, <2>3, <2>4, <2>5, <2>6, <2>7, <2>8, <2>9, <2>10,
           <2>11, <2>12 DEF Step
<1>3. QED
  BY <1>1, <1>2, NextCases DEF TypeInv, TypeOK

LEMMA HandHolds == Spec => [](TypeInv /\ HandInv)
<1>1. TypeInv /\ RegInv /\ HandInv /\ [Next]_vars
      => TypeInv' /\ RegInv' /\ HandInv'
  BY TypeNext, RegNext, HandNext
<1>2. QED
  BY <1>1, TypeInit, RegInit, HandInit, PTL DEF Spec

(* ReplaceConn gets connections of the device's own terminal only: the     *)
(* number CombineSn makes tells the serial type, and with it the protocol, *)
(* and the serial number if it has not been cut (device.go:86).            *)
THEOREM OwnTerminalHolds == Spec => []OwnTerminal
BY NumberTells, HandHolds, PTL

(* Every way through handleAsGT06 and handleAsSimpleJson closes the        *)
(* connection or hands it to a device, and never does both.                *)
THEOREM ClosedOrServedHolds == Spec => []ClosedOrServed
<1>1. HandInv => ClosedOrServed
  BY DEF HandInv
<1>2. QED
  BY <1>1, HandHolds, PTL
=============================================================================
