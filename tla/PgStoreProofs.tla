--------------------------- MODULE PgStoreProofs ----------------------------
(***************************************************************************)
(* Proofs about PgStore, for every size of the buffer and every number of  *)
(* records: type correctness, no loss before publication, and that PgStore *)
(* implements LocationLog.                                                 *)
(***************************************************************************)
EXTENDS PgStore, SequenceTheorems, TLAPS

(* The caller of flush never publishes an empty buffer, and wbuf is not    *)
(* touched until it is replaced.                                           *)
FlushHolds ==
    /\ flushing # "no" => wbuf # <<>>
    /\ flushing = "signal" => rbuf = wbuf

Inv == TypeOK /\ NothingDropped /\ FlushHolds

LEMMA InvInit == Init => Inv
<1> SUFFICES ASSUME Init PROVE Inv
  OBVIOUS
<1>1. TypeOK
  <2>1. <<>> \in Seq(1..MaxPut) /\ <<>> \in Seq(Seq(1..MaxPut)) /\ Len(<<>>) = 0
    BY EmptySeq
  <2>2. accepted \in 0..MaxPut /\ wbuf = <<>> /\ 0 < BufSize /\ 0 <= BufSize
    BY StoreAssumption DEF Init
  <2>3. /\ aged \in BOOLEAN /\ flushing \in {"no", "publish", "signal"}
        /\ hpc \in {"off", "idle", "waiting", "signalled", "copying"}
        /\ rbuf = <<>> /\ hbuf = <<>> /\ db = <<>>
    BY DEF Init
  <2> QED BY <2>1, <2>2, <2>3 DEF TypeOK
<1>2. NothingDropped /\ FlushHolds
  BY DEF Init, NothingDropped, FlushHolds, Handed
<1> QED BY <1>1, <1>2 DEF Inv

LEMMA HandedType ==
    ASSUME TypeOK
    PROVE  Handed \in Nat
BY StoreAssumption DEF TypeOK, Handed, LastOf

LEMMA InvStep ==
    ASSUME Inv, [Next]_vars
    PROVE  Inv'
<1> TypeOK /\ NothingDropped /\ FlushHolds
  BY DEF Inv
<1> USE StoreAssumption
<1>1. ASSUME Put PROVE Inv'
  <2>1. TypeOK'
    BY <1>1 DEF Put, TypeOK
  <2>2. FlushHolds'
    BY <1>1 DEF Put, TypeOK, FlushHolds
  <2>3. /\ flushing # "signal" /\ flushing' # "signal"
        /\ Handed' = Handed
    BY <1>1 DEF Put, Handed
  <2>4. /\ Len(wbuf') = Len(wbuf) + 1
        /\ \A i \in 1..Len(wbuf) : wbuf'[i] = wbuf[i]
        /\ wbuf'[Len(wbuf) + 1] = accepted + 1
        /\ accepted' = accepted + 1
    BY <1>1 DEF Put, TypeOK
  <2>5. Handed \in Nat /\ Len(wbuf) \in Nat /\ accepted \in Nat
    BY HandedType DEF TypeOK
  <2>6. /\ Handed + Len(wbuf) = accepted
        /\ \A i \in 1..Len(wbuf) : wbuf[i] = Handed + i
    BY <2>3 DEF NothingDropped
  <2>7. NothingDropped'
    <3>1. Handed' + Len(wbuf') = accepted'
      BY <2>3, <2>4, <2>5, <2>6
    <3>2. ASSUME NEW i \in 1..Len(wbuf') PROVE wbuf'[i] = Handed' + i
      <4>1. CASE i \in 1..Len(wbuf)
        BY <2>3, <2>4, <2>6, <4>1
      <4>2. CASE i = Len(wbuf) + 1
        BY <2>3, <2>4, <2>5, <2>6, <4>2
      <4> QED BY <2>4, <2>5, <4>1, <4>2
    <3> QED BY <2>3, <3>1, <3>2 DEF NothingDropped
  <2> QED BY <2>1, <2>2, <2>7 DEF Inv
<1>2. ASSUME Age PROVE Inv'
  BY <1>2 DEF Age, Inv, TypeOK, NothingDropped, Handed, FlushHolds
<1>3. ASSUME TimerFlush PROVE Inv'
  BY <1>3 DEF TimerFlush, Inv, TypeOK, NothingDropped, Handed, FlushHolds
<1>4. ASSUME Publish PROVE Inv'
  <2>1. TypeOK' /\ FlushHolds'
    BY <1>4 DEF Publish, TypeOK, FlushHolds
  <2>2. Handed \in Nat /\ Len(wbuf) \in Nat /\ accepted \in Nat /\ wbuf # <<>>
    BY <1>4, HandedType DEF Publish, TypeOK, FlushHolds
  <2>3. wbuf[Len(wbuf)] = accepted
    <3>1. Len(wbuf) \in 1..Len(wbuf)
      BY <2>2 DEF TypeOK
    <3> QED BY <1>4, <2>2, <3>1 DEF Publish, NothingDropped
  <2>4. NothingDropped'
    BY <1>4, <2>2, <2>3 DEF Publish, NothingDropped, Handed, LastOf
  <2> QED BY <2>1, <2>4 DEF Inv
<1>5. ASSUME Signal PROVE Inv'
  <2>1. <<>> \in Seq(1..MaxPut) /\ Len(<<>>) = 0
    BY EmptySeq
  <2>2. /\ wbuf' = <<>> /\ flushing' = "no" /\ aged' = FALSE
        /\ accepted' = accepted /\ rbuf' = rbuf /\ hbuf' = hbuf /\ db' = db
        /\ hpc' \in {hpc, "signalled"}
    BY <1>5 DEF Signal
  <2>3. TypeOK' /\ FlushHolds'
    <3>1. wbuf' \in Seq(1..MaxPut) /\ Len(wbuf') = 0 /\ 0 < BufSize /\ 0 <= BufSize
      BY <2>1, <2>2
    <3>2. FlushHolds'
      BY <2>2 DEF FlushHolds
    <3>3. TypeOK'
      BY <2>2, <3>1 DEF TypeOK
    <3> QED BY <3>2, <3>3
  <2>4. Handed' = Handed /\ Handed = accepted /\ accepted' = accepted
    BY <1>5 DEF Signal, NothingDropped, Handed
  <2>5. NothingDropped'
    BY <2>1, <2>2, <2>4 DEF NothingDropped, TypeOK
  <2> QED BY <2>3, <2>5 DEF Inv
<1>6. ASSUME HWait PROVE Inv'
  BY <1>6 DEF HWait, Inv, TypeOK, NothingDropped, Handed, FlushHolds
<1>7. ASSUME HRead PROVE Inv'
  BY <1>7 DEF HRead, Inv, TypeOK, NothingDropped, Handed, FlushHolds
<1>8. ASSUME HCopy PROVE Inv'
  <2>1. hbuf \in Seq(1..MaxPut) /\ db \in Seq(Seq(1..MaxPut))
    BY DEF TypeOK
  <2>2. Append(db, hbuf) \in Seq(Seq(1..MaxPut))
    BY <2>1, AppendProperties
  <2>3. db' \in Seq(Seq(1..MaxPut))
    BY <1>8, <2>1, <2>2 DEF HCopy
  <2> QED BY <1>8, <2>3 DEF HCopy, Inv, TypeOK, NothingDropped, Handed, FlushHolds
<1>9. CASE UNCHANGED vars
  BY <1>9 DEF vars, Inv, TypeOK, NothingDropped, Handed, FlushHolds
<1> QED BY <1>1, <1>2, <1>3, <1>4, <1>5, <1>6, <1>7, <1>8, <1>9 DEF Next

(* The store's buffers and indices keep their types; in particular wbuf    *)
(* never outgrows BufSize, which Put only tests for equality               *)
(* (pgstore.go:93).                                                        *)
THEOREM TypeCorrect == Spec => []TypeOK
<1>1. Inv => TypeOK
  BY DEF Inv
<1> QED BY <1>1, InvInit, InvStep, PTL DEF Spec

(* The records not published are those after the last published one, all   *)
(* of them and in order: Put and flush lose nothing (pgstore.go:86-108).   *)
THEOREM NothingDroppedHolds == Spec => []NothingDropped
<1>1. Inv => NothingDropped
  BY DEF Inv
<1> QED BY <1>1, InvInit, InvStep, PTL DEF Spec

-----------------------------------------------------------------------------
(* A run of consecutive records that fits in a buffer.                     *)
IsRun(s) ==
    /\ s \in Seq(1..MaxPut)
    /\ Len(s) \in 1..BufSize
    /\ \A i \in 1..Len(s) : s[i] = s[1] + i - 1
    /\ LastOf(s) <= accepted

(* a is the same buffer as b, or an earlier one.                           *)
UpTo(a, b) == a = b \/ LastOf(a) < b[1]

LastIs(b) == db # <<>> /\ LastOf(db) = b

Twice(b) == LastIs(b) /\ Len(db) > 1 /\ db[Len(db) - 1] = b

(* What is published, copied or stored is a run, and older in this order.  *)
Runs ==
    /\ rbuf # <<>> => IsRun(rbuf)
    /\ hpc = "signalled" => rbuf # <<>>
    /\ hpc = "copying" => rbuf # <<>> /\ IsRun(hbuf) /\ UpTo(hbuf, rbuf)
    /\ db # <<>> => rbuf # <<>> /\ IsRun(LastOf(db)) /\ UpTo(LastOf(db), rbuf)
    /\ hpc = "copying" /\ db # <<>> => UpTo(LastOf(db), hbuf)

(* How often the buffer handle reads or copies can have been stored.       *)
Copies ==
    /\ hpc = "copying" => ~Twice(hbuf)
    /\ hpc = "signalled" => ~Twice(rbuf)
    /\ flushing = "signal" =>
         /\ ~Twice(rbuf)
         /\ hpc = "signalled" => ~LastIs(rbuf)
         /\ hpc = "copying" /\ hbuf = rbuf => ~LastIs(rbuf)

OrderInv == Runs /\ Copies

LEMMA RunEnds ==
    ASSUME NEW s, IsRun(s)
    PROVE  /\ s[1] \in Nat /\ LastOf(s) \in Nat /\ Len(s) \in Nat
           /\ s[1] <= LastOf(s)
           /\ LastOf(s) = s[1] + Len(s) - 1
BY StoreAssumption DEF IsRun, LastOf

(* A run stays one while Put goes on counting.                             *)
LEMMA RunKept ==
    ASSUME TypeOK, NEW s, IsRun(s), accepted' \in {accepted, accepted + 1}
    PROVE  IsRun(s)'
<1>1. /\ s \in Seq(1..MaxPut) /\ Len(s) \in 1..BufSize
      /\ \A i \in 1..Len(s) : s[i] = s[1] + i - 1
      /\ LastOf(s) <= accepted
  BY DEF IsRun
<1>2. LastOf(s) <= accepted'
  <2>1. accepted \in Nat /\ LastOf(s) \in Nat
    BY RunEnds, StoreAssumption DEF TypeOK
  <2> QED BY <1>1, <2>1
<1>3. LastOf(s)' = LastOf(s)
  BY DEF LastOf
<1> QED BY <1>1, <1>2, <1>3 DEF IsRun

(* Appending a batch to the table.                                         *)
LEMMA Appended ==
    ASSUME TypeOK, db' = Append(db, hbuf)
    PROVE  /\ db' # <<>> /\ Len(db') = Len(db) + 1
           /\ LastOf(db') = hbuf
           /\ db # <<>> => Len(db) > 0 /\ db'[Len(db') - 1] = LastOf(db)
<1>1. db \in Seq(Seq(1..MaxPut)) /\ hbuf \in Seq(1..MaxPut)
  BY DEF TypeOK
<1>2. /\ db' # <<>> /\ Len(db') = Len(db) + 1 /\ Len(db) \in Nat
      /\ \A i \in 1..Len(db) : db'[i] = db[i]
      /\ db'[Len(db) + 1] = hbuf
  BY <1>1, AppendProperties, LenProperties
<1>3. db # <<>> => Len(db) \in Nat \ {0}
  BY <1>1, EmptySeq
<1> QED BY <1>2, <1>3 DEF LastOf

LEMMA OrderInit == Init => OrderInv
BY DEF Init, OrderInv, Runs, Copies

LEMMA OrderStep ==
    ASSUME Inv, OrderInv, [Next]_vars
    PROVE  OrderInv'
<1> TypeOK /\ NothingDropped /\ FlushHolds
  BY DEF Inv
<1> Runs /\ Copies
  BY DEF OrderInv
<1> USE StoreAssumption
<1>1. ASSUME Put PROVE OrderInv'
  <2>1. /\ accepted' = accepted + 1 /\ flushing # "signal" /\ flushing' # "signal"
        /\ rbuf' = rbuf /\ hpc' = hpc /\ hbuf' = hbuf /\ db' = db
    BY <1>1 DEF Put
  <2>2. \A s : IsRun(s) => IsRun(s)'
    BY <2>1, RunKept
  <2>3. Runs'
    BY <2>1, <2>2 DEF Runs, UpTo
  <2>4. Copies'
    BY <2>1 DEF Copies, Twice, LastIs
  <2> QED BY <2>3, <2>4 DEF OrderInv
<1>2. ASSUME Age PROVE OrderInv'
  BY <1>2 DEF Age, OrderInv, Runs, Copies, IsRun, UpTo, Twice, LastIs
<1>3. ASSUME TimerFlush PROVE OrderInv'
  BY <1>3 DEF TimerFlush, OrderInv, Runs, Copies, IsRun, UpTo, Twice, LastIs
<1>4. ASSUME Publish PROVE OrderInv'
  <2>1. /\ rbuf' = wbuf /\ wbuf' = wbuf /\ flushing' = "signal" /\ accepted' = accepted
        /\ hpc' = hpc /\ hbuf' = hbuf /\ db' = db
        /\ flushing = "publish" /\ wbuf # <<>>
    BY <1>4 DEF Publish, FlushHolds
  <2>2. /\ Handed \in Nat /\ Len(wbuf) \in Nat \ {0} /\ Len(wbuf) <= BufSize
        /\ accepted \in Nat
    BY <2>1, HandedType DEF TypeOK
  <2>3. /\ Handed + Len(wbuf) = accepted
        /\ \A i \in 1..Len(wbuf) : wbuf[i] = Handed + i
    BY <2>1 DEF NothingDropped
  <2>4. wbuf[1] = Handed + 1 /\ LastOf(wbuf) = Handed + Len(wbuf)
    BY <2>2, <2>3 DEF LastOf
  <2>5. IsRun(wbuf)
    BY <2>2, <2>3, <2>4 DEF IsRun, TypeOK
  <2>6. ASSUME NEW s, IsRun(s), rbuf # <<>>, UpTo(s, rbuf)
        PROVE  LastOf(s) < wbuf[1] /\ s # wbuf
    <3>1. Handed = LastOf(rbuf) /\ IsRun(rbuf)
      BY <2>6 DEF Handed, Runs
    <3>2. LastOf(s) <= Handed
      BY <2>6, <3>1, RunEnds DEF UpTo
    <3> QED BY <2>2, <2>4, <2>6, <3>2, RunEnds
  <2>7. IsRun(wbuf)' /\ \A s : IsRun(s) => IsRun(s)'
    BY <2>1, <2>5 DEF IsRun
  <2>8. Runs'
    <3>1. rbuf' # <<>> /\ IsRun(rbuf)'
      BY <2>1, <2>7 DEF IsRun
    <3>2. hpc = "copying" => IsRun(hbuf)' /\ LastOf(hbuf) < wbuf[1]
      BY <2>1, <2>6, <2>7 DEF Runs, IsRun
    <3>3. db # <<>> => IsRun(LastOf(db))' /\ LastOf(LastOf(db)) < wbuf[1]
      BY <2>1, <2>6, <2>7 DEF Runs, IsRun
    <3> QED BY <2>1, <3>1, <3>2, <3>3 DEF Runs, UpTo
  <2>9. ~LastIs(wbuf) /\ (hpc = "copying" => hbuf # wbuf)
    BY <2>6 DEF Runs, LastIs
  <2>10. Copies'
    BY <2>1, <2>9 DEF Copies, Twice, LastIs
  <2> QED BY <2>8, <2>10 DEF OrderInv
<1>5. ASSUME Signal PROVE OrderInv'
  <2>1. /\ accepted' = accepted /\ rbuf' = rbuf /\ hbuf' = hbuf /\ db' = db
        /\ flushing = "signal" /\ flushing' = "no"
        /\ hpc' = IF hpc = "waiting" THEN "signalled" ELSE hpc
        /\ rbuf # <<>>
    BY <1>5 DEF Signal, FlushHolds
  <2>2. Runs'
    BY <2>1 DEF Runs, IsRun, UpTo
  <2>3. Copies'
    BY <2>1 DEF Copies, Twice, LastIs
  <2> QED BY <2>2, <2>3 DEF OrderInv
<1>6. ASSUME HWait PROVE OrderInv'
  BY <1>6 DEF HWait, OrderInv, Runs, Copies, IsRun, UpTo, Twice, LastIs
<1>7. ASSUME HRead PROVE OrderInv'
  <2>1. /\ accepted' = accepted /\ rbuf' = rbuf /\ hbuf' = rbuf /\ db' = db
        /\ hpc = "signalled" /\ hpc' = "copying" /\ flushing' = flushing
    BY <1>7 DEF HRead
  <2>2. Runs'
    BY <2>1 DEF Runs, IsRun, UpTo
  <2>3. Copies'
    BY <2>1 DEF Copies, Twice, LastIs
  <2> QED BY <2>2, <2>3 DEF OrderInv
<1>8. ASSUME HCopy PROVE OrderInv'
  <2>1. /\ accepted' = accepted /\ rbuf' = rbuf /\ hbuf' = hbuf
        /\ hpc = "copying" /\ hpc' = "idle" /\ flushing' = flushing
        /\ db' = Append(db, hbuf) \/ db' = db
    BY <1>8 DEF HCopy
  <2>2. CASE db' = db
    BY <2>1, <2>2 DEF OrderInv, Runs, Copies, IsRun, UpTo, Twice, LastIs
  <2>3. CASE db' = Append(db, hbuf)
    <3>1. /\ db' # <<>> /\ LastOf(db') = hbuf /\ Len(db') = Len(db) + 1
          /\ db # <<>> => db'[Len(db') - 1] = LastOf(db)
      BY <2>3, Appended
    <3>2. Runs'
      BY <2>1, <3>1 DEF Runs, IsRun, UpTo
    <3>3. db = <<>> => Len(db) = 0
      OBVIOUS
    <3>4. Copies'
      BY <2>1, <3>1, <3>3 DEF Copies, Twice, LastIs
    <3> QED BY <3>2, <3>4 DEF OrderInv
  <2> QED BY <2>1, <2>2, <2>3
<1>9. CASE UNCHANGED vars
  BY <1>9 DEF vars, OrderInv, Runs, Copies, IsRun, UpTo, Twice, LastIs
<1> QED BY <1>1, <1>2, <1>3, <1>4, <1>5, <1>6, <1>7, <1>8, <1>9 DEF Next

(* The run with given ends is the batch LocationLog stores.                *)
LEMMA RunIsBatch ==
    ASSUME NEW s, IsRun(s)
    PROVE  s = Log!Batch(s[1], LastOf(s))
<1>1. s = [i \in 1..Len(s) |-> s[i]]
  BY LenProperties DEF IsRun
<1>2. LastOf(s) - s[1] + 1 = Len(s)
  BY RunEnds
<1> QED BY <1>1, <1>2 DEF IsRun, Log!Batch

(* What handle writes is a step of the log: a later batch or the last one  *)
(* once more.                                                              *)
LEMMA CopyStep ==
    ASSUME Inv, OrderInv, HCopy, db' = Append(db, hbuf)
    PROVE  Log!StoreNext \/ Log!StoreAgain
<1>1. /\ hpc = "copying" /\ accepted' = accepted /\ IsRun(hbuf)
      /\ ~Twice(hbuf) /\ (db # <<>> => UpTo(LastOf(db), hbuf))
  BY DEF HCopy, OrderInv, Runs, Copies
<1>2. CASE LastIs(hbuf)
  BY <1>1, <1>2 DEF LastIs, Twice, Log!StoreAgain, Log!LastOf, LastOf
<1>3. CASE ~LastIs(hbuf)
  <2> DEFINE first == hbuf[1]
             last  == LastOf(hbuf)
  <2>1. /\ first \in Nat /\ last \in Nat /\ first <= last /\ last <= accepted
        /\ last - first < BufSize /\ first > 0
    <3>1. hbuf[1] \in 1..MaxPut
      <4>1. hbuf \in Seq(1..MaxPut) /\ Len(hbuf) \in 1..BufSize
        BY <1>1 DEF IsRun
      <4>2. 1 \in 1..Len(hbuf)
        BY <4>1, StoreAssumption
      <4> QED BY <4>1, <4>2, ElementOfSeq
    <3>2. /\ hbuf[1] \in Nat /\ LastOf(hbuf) \in Nat /\ Len(hbuf) \in Nat
          /\ hbuf[1] <= LastOf(hbuf)
          /\ LastOf(hbuf) = hbuf[1] + Len(hbuf) - 1
      BY <1>1, RunEnds
    <3>3. Len(hbuf) <= BufSize /\ LastOf(hbuf) <= accepted
      BY <1>1 DEF IsRun
    <3> QED BY <3>1, <3>2, <3>3, StoreAssumption
  <2>2. db # <<>> => LastOf(LastOf(db)) < first
    BY <1>1, <1>3 DEF UpTo, LastIs
  <2>3. hbuf = Log!Batch(first, last)
    BY <1>1, RunIsBatch
  <2>4. accepted \in Nat
    BY StoreAssumption DEF Inv, TypeOK
  <2>5. last \in 1..accepted /\ first \in 1..last
    BY <2>1, <2>4
  <2> HIDE DEF first, last
  <2> QED BY <1>1, <2>1, <2>2, <2>3, <2>5 DEF Log!StoreNext, Log!LastOf, LastOf
<1> QED BY <1>2, <1>3

(* The buffered store implements the log: whatever the interleaving of     *)
(* Put, the timer and handle, the table holds consecutive records in       *)
(* batches of at most BufSize, in order, each batch twice at most          *)
(* (pgstore.go:75-152).                                                    *)
THEOREM PgStoreImplementsLocationLog == Spec => ImplementsLocationLog
<1>1. Init => Log!Init
  BY DEF Init, Log!Init
<1>2. Inv /\ OrderInv /\ [Next]_vars => [Log!Next]_(Log!vars)
  <2> SUFFICES ASSUME Inv, OrderInv, [Next]_vars
               PROVE  Log!Next \/ UNCHANGED <<accepted, db>>
    BY DEF Log!vars
  <2>1. CASE Put
    BY <2>1 DEF Put, Log!Next, Log!Accept
  <2>2. CASE HCopy
    <3>1. accepted' = accepted /\ (db' = db \/ db' = Append(db, hbuf))
      BY <2>2 DEF HCopy
    <3> QED BY <2>2, <3>1, CopyStep DEF Log!Next
  <2>3. CASE Age \/ TimerFlush \/ Publish \/ Signal \/ HWait \/ HRead \/ UNCHANGED vars
    BY <2>3 DEF Age, TimerFlush, Publish, Signal, HWait, HRead, vars
  <2> QED BY <2>1, <2>2, <2>3 DEF Next
<1>3. Init => Inv /\ OrderInv
  BY InvInit, OrderInit
<1>4. Inv /\ OrderInv /\ [Next]_vars => (Inv /\ OrderInv)'
  BY InvStep, OrderStep
<1> QED BY <1>1, <1>2, <1>3, <1>4, PTL DEF Spec, ImplementsLocationLog, Log!Spec
=============================================================================
