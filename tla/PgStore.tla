------------------------------ MODULE PgStore -------------------------------
(***************************************************************************)
(* The buffered location store (internal/store/impl/pgstore/pgstore.go):   *)
(* Put, called by every device goroutine, fills wbuf under wlock; a full   *)
(* buffer, or an old one found by timer_flusher, is published in rbuf and  *)
(* the goroutine handle is signalled through a condition variable; handle  *)
(* copies what it finds in rbuf to the database.                           *)
(*                                                                         *)
(* A record is named by the order in which Put accepted it.  wlock is held *)
(* exactly while flushing is not "no"; the critical sections of cond.L are *)
(* single steps.  The numbers in buffer.seq are read by nothing.           *)
(***************************************************************************)
EXTENDS Naturals, Sequences

CONSTANTS
    BufSize,    \* StoreConfig.BufSize
    MaxPut      \* bound: calls of Put

ASSUME StoreAssumption == BufSize \in Nat \ {0} /\ MaxPut \in Nat

VARIABLES
    accepted,   \* how many records were put
    wbuf,       \* the buffer Put fills
    aged,       \* a tick would find wbuf.t1 older than MaxAgeFlush
    flushing,   \* the caller of flush, which holds wlock: no, publish, signal
    rbuf,       \* the buffer published last
    hpc,        \* handle: off, idle, waiting, signalled, copying
    hbuf,       \* handle's copy of rbuf
    db          \* the batches copied to the table

vars == <<accepted, wbuf, aged, flushing, rbuf, hpc, hbuf, db>>

LastOf(s) == s[Len(s)]

(* NewStore and Run; when no database connection can be acquired, neither  *)
(* goroutine is started and Put works all the same.                        *)
Init ==
    /\ accepted = 0
    /\ wbuf = <<>>
    /\ aged = FALSE
    /\ flushing = "no"
    /\ rbuf = <<>>
    /\ hpc \in {"off", "idle"}
    /\ hbuf = <<>>
    /\ db = <<>>

-----------------------------------------------------------------------------
(* Writers: Put, and flush in its caller.                                  *)

Put_late ==
    /\ accepted < MaxPut
    /\ flushing = "no"
    /\ accepted' = accepted + 1
    /\ wbuf' = Append(wbuf, accepted + 1)
    /\ aged' = (aged /\ wbuf # <<>>)
    /\ flushing' = IF Len(wbuf) = BufSize THEN "publish" ELSE "no"
    /\ UNCHANGED <<rbuf, hpc, hbuf, db>>

Put_noLock ==
    /\ accepted < MaxPut
    /\ accepted' = accepted + 1
    /\ wbuf' = Append(wbuf, accepted + 1)
    /\ aged' = (aged /\ wbuf # <<>>)
    /\ flushing' = IF Len(wbuf') = BufSize THEN "publish" ELSE flushing
    /\ UNCHANGED <<rbuf, hpc, hbuf, db>>

(* The first record of a buffer sets t1; the last one starts flush.        *)
Put ==
    /\ accepted < MaxPut
    /\ flushing = "no"
    /\ accepted' = accepted + 1
    /\ wbuf' = Append(wbuf, accepted + 1)
    /\ aged' = (aged /\ wbuf # <<>>)
    /\ flushing' = IF Len(wbuf') = BufSize THEN "publish" ELSE "no"
    /\ UNCHANGED <<rbuf, hpc, hbuf, db>>

(* Time passes.                                                            *)
Age ==
    /\ wbuf # <<>>
    /\ ~aged
    /\ aged' = TRUE
    /\ UNCHANGED <<accepted, wbuf, flushing, rbuf, hpc, hbuf, db>>

TimerFlush_two ==
    /\ hpc # "off"
    /\ flushing = "no"
    /\ Len(wbuf) > 1
    /\ aged
    /\ flushing' = "publish"
    /\ UNCHANGED <<accepted, wbuf, aged, rbuf, hpc, hbuf, db>>

(* A tick of timer_flusher that finds an old buffer.                       *)
TimerFlush ==
    /\ hpc # "off"
    /\ flushing = "no"
    /\ wbuf # <<>>
    /\ aged
    /\ flushing' = "publish"
    /\ UNCHANGED <<accepted, wbuf, aged, rbuf, hpc, hbuf, db>>

(* rbuf = wbuf under cond.L.                                               *)
Publish ==
    /\ flushing = "publish"
    /\ rbuf' = wbuf
    /\ flushing' = "signal"
    /\ UNCHANGED <<accepted, wbuf, aged, hpc, hbuf, db>>

(* cond.Signal wakes handle if it waits and is lost otherwise; then a new  *)
(* buffer, and wlock is released.                                          *)
Signal ==
    /\ flushing = "signal"
    /\ hpc' = IF hpc = "waiting" THEN "signalled" ELSE hpc
    /\ wbuf' = <<>>
    /\ aged' = FALSE
    /\ flushing' = "no"
    /\ UNCHANGED <<accepted, rbuf, hbuf, db>>

-----------------------------------------------------------------------------
(* The goroutine handle.                                                   *)

HWait_not ==
    /\ hpc = "idle"
    /\ hpc' = "signalled"
    /\ UNCHANGED <<accepted, wbuf, aged, flushing, rbuf, hbuf, db>>

HWait ==
    /\ hpc = "idle"
    /\ hpc' = "waiting"
    /\ UNCHANGED <<accepted, wbuf, aged, flushing, rbuf, hbuf, db>>

(* Wait has got cond.L back: whatever rbuf holds by now is read.           *)
HRead ==
    /\ hpc = "signalled"
    /\ hbuf' = rbuf
    /\ hpc' = "copying"
    /\ UNCHANGED <<accepted, wbuf, aged, flushing, rbuf, db>>

(* CopyFrom: all rows of the batch, or none and the batch is forgotten.    *)
HCopy ==
    /\ hpc = "copying"
    /\ db' \in {Append(db, hbuf), db}
    /\ hpc' = "idle"
    /\ UNCHANGED <<accepted, wbuf, aged, flushing, rbuf, hbuf>>

Next == Put \/ Age \/ TimerFlush \/ Publish \/ Signal \/ HWait \/ HRead \/ HCopy

Spec == Init /\ [][Next]_vars

(* Time passes, the ticker ticks, a goroutine that can run runs, and the   *)
(* database answers; nobody has to call Put.                               *)
Fairness ==
    /\ WF_vars(Age) /\ WF_vars(TimerFlush)
    /\ WF_vars(Publish) /\ WF_vars(Signal)
    /\ WF_vars(HWait) /\ WF_vars(HRead) /\ WF_vars(HCopy)

FairSpec == Spec /\ Fairness

-----------------------------------------------------------------------------
(* Type correctness, and the test len(wbuf) == BufSize (pgstore.go:93)     *)
(* never meets a longer buffer.                                            *)
TypeOK ==
    /\ accepted \in 0..MaxPut
    /\ wbuf \in Seq(1..MaxPut) /\ Len(wbuf) <= BufSize
    /\ flushing = "no" => Len(wbuf) < BufSize
    /\ aged \in BOOLEAN
    /\ flushing \in {"no", "publish", "signal"}
    /\ rbuf \in Seq(1..MaxPut)
    /\ hpc \in {"off", "idle", "waiting", "signalled", "copying"}
    /\ hbuf \in Seq(1..MaxPut)
    /\ db \in Seq(Seq(1..MaxPut))

(* The last record that was published.                                     *)
Handed == IF rbuf = <<>> THEN 0 ELSE LastOf(rbuf)

(* No record gets lost between Put and the publication of its buffer: the  *)
(* records not published yet are those after the last published one, all   *)
(* of them and in order (pgstore.go:88-96, 100-106).                       *)
NothingDropped ==
    IF flushing = "signal"
    THEN Handed = accepted
    ELSE /\ Handed + Len(wbuf) = accepted
         /\ \A i \in 1..Len(wbuf) : wbuf[i] = Handed + i

(* The table is what LocationLog allows: consecutive records of at most    *)
(* BufSize in a batch, in order, and a batch twice at most although handle *)
(* can be woken by one flush and read the buffer of the next, whose signal *)
(* then wakes it again (pgstore.go:99-108, 131-136).                       *)
Log == INSTANCE LocationLog WITH stored <- db

ImplementsLocationLog == Log!Spec

(* A record does not stay in wbuf: the timer publishes a buffer that never *)
(* fills, if the store could be started (pgstore.go:75-84).                *)
Published ==
    \A n \in 1..MaxPut :
        (accepted >= n /\ hpc # "off")
           ~> (rbuf # <<>> /\ LastOf(rbuf) >= n)
=============================================================================
