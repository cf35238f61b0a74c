------------------------------- MODULE Broker -------------------------------
(***************************************************************************)
(* The broker (internal/broker/broker.go): Broadcast fills wbuf under      *)
(* wlock; flush publishes it in rbuf and wakes every connection that waits *)
(* for it; each of them writes what it then finds in rbuf to its client.   *)
(*                                                                         *)
(* A connection copies rbuf, a slice, but not the array the slice lies in, *)
(* and net.Buffers.WriteTo empties a slice as it writes: it gathers the    *)
(* entries for writev, and removes as many bytes as were written from the  *)
(* array, which all connections that were woken share.                     *)
(*                                                                         *)
(* A record is named by the order in which Broadcast accepted it and has   *)
(* Size bytes.  An entry of an array is a slice of a record: its last      *)
(* bytes, all of them at first.                                            *)
(***************************************************************************)
EXTENDS Naturals, SequencesExt

CONSTANTS
    BufSize,  \* BrokerConfig.BufSize
    Conn,     \* connections
    Size,     \* bytes of a record
    MaxRec    \* bound: calls of Broadcast

ASSUME BrokerAssumption ==
    BufSize \in Nat /\ Size \in Nat \ {0} /\ MaxRec \in Nat

VARIABLES
    accepted,  \* records broadcast
    array,     \* the arrays allocated, each a sequence of entries
    wbuf,      \* the buffer that fills: its array and its length
    rbuf,      \* the buffer published last
    flushing,  \* somebody holds wlock and is about to flush
    pc,        \* of handle, by connection
    buf,       \* the slice WriteTo works on and its local variables
    got,       \* history: the bytes a client received, as <<record, byte>>
    parts,     \* history: who wrote a part only of what it had gathered, by array
    collided   \* history: the arrays of which two changed an entry at once

writers == <<accepted, wbuf, rbuf, flushing>>
vars == <<writers, array, pc, buf, got, parts, collided>>

(* Room of an array: append makes a larger one where there is no BufSize.  *)
(* An array is replaced before anybody else has it, and keeps its name.    *)
Cap == IF BufSize = 0 THEN MaxRec ELSE BufSize

(* new_buffer: its length is 0.                                            *)
Empty == [i \in 1..Cap |-> [rec |-> 0, left |-> 0]]
NewBuffer(a) == [arr |-> a, len |-> 0]

(* The slice from pos on, the entry to gather next, what was gathered, the *)
(* bytes that were written and are not removed, the entry being removed.   *)
NoSlice == [arr |-> 0, len |-> 0, pos |-> 1, next |-> 1, vec |-> <<>>, n |-> 0, ln0 |-> 0]

Init ==
    /\ accepted = 0
    /\ array = << Empty >>
    /\ wbuf = NewBuffer(1) /\ rbuf = NewBuffer(0)
    /\ flushing = FALSE
    /\ pc = [c \in Conn |-> "idle"]
    /\ buf = [c \in Conn |-> NoSlice]
    /\ got = [c \in Conn |-> <<>>]
    /\ parts = << {} >> /\ collided = {}

-----------------------------------------------------------------------------
(* Writers.                                                                *)

Broadcast_front ==
    /\ accepted < MaxRec /\ ~flushing
    /\ accepted' = accepted + 1
    /\ array' = [array EXCEPT ![wbuf.arr] =
                   [i \in 1..Cap |-> IF i = 1 THEN [rec |-> accepted + 1, left |-> Size] ELSE @[i - 1]]]
    /\ wbuf' = [wbuf EXCEPT !.len = @ + 1]
    /\ flushing' = (wbuf'.len = BufSize)
    /\ UNCHANGED <<rbuf, pc, buf, got, parts, collided>>

(* append; the record that makes the length BufSize starts flush, which    *)
(* with a BufSize of 0 is none.                                            *)
Broadcast ==
    /\ accepted < MaxRec /\ ~flushing
    /\ accepted' = accepted + 1
    /\ array' = [array EXCEPT ![wbuf.arr][wbuf.len + 1] = [rec |-> accepted + 1, left |-> Size]]
    /\ wbuf' = [wbuf EXCEPT !.len = @ + 1]
    /\ flushing' = (wbuf'.len = BufSize)
    /\ UNCHANGED <<rbuf, pc, buf, got, parts, collided>>

TimerFlush_whenFull ==
    /\ ~flushing /\ wbuf.len # 0 /\ wbuf.len = BufSize
    /\ flushing' = TRUE
    /\ UNCHANGED <<accepted, array, wbuf, rbuf, pc, buf, got, parts, collided>>

(* A tick that finds an old buffer.                                        *)
TimerFlush ==
    /\ ~flushing /\ wbuf.len # 0
    /\ flushing' = TRUE
    /\ UNCHANGED <<accepted, array, wbuf, rbuf, pc, buf, got, parts, collided>>

(* Under rlock rbuf is set and all that wait are woken.                    *)
Publish ==
    /\ flushing /\ flushing' = FALSE
    /\ rbuf' = wbuf
    /\ pc' = [c \in Conn |-> IF pc[c] = "waiting" THEN "woken" ELSE pc[c]]

Flush_sameArray ==
    /\ Publish
    /\ wbuf' = NewBuffer(wbuf.arr)
    /\ UNCHANGED <<accepted, array, buf, got, parts, collided>>

(* Then a new buffer is allocated.                                         *)
Flush ==
    /\ Publish
    /\ array' = Append(array, Empty)
    /\ wbuf' = NewBuffer(Len(array) + 1)
    /\ parts' = Append(parts, {})
    /\ UNCHANGED <<accepted, buf, got, collided>>

-----------------------------------------------------------------------------
(* A connection.                                                           *)

Wait(c) ==
    /\ pc[c] = "idle"
    /\ pc' = [pc EXCEPT ![c] = "waiting"]
    /\ UNCHANGED <<writers, array, buf, got, parts, collided>>

(* Wait returns with the read lock: rbuf is the buffer published last.     *)
Copy(c) ==
    /\ pc[c] = "woken"
    /\ buf' = [buf EXCEPT ![c] = [NoSlice EXCEPT !.arr = rbuf.arr, !.len = rbuf.len]]
    /\ pc' = [pc EXCEPT ![c] = "gather"]
    /\ UNCHANGED <<writers, array, got, parts, collided>>

Entry(c, i) == array[buf[c].arr][i]

(* The bytes of an entry.                                                  *)
Bytes(e) == [i \in 1..e.left |-> <<e.rec, Size - e.left + i>>]

(* WriteTo collects the entries that hold bytes.                           *)
Gather(c) ==
    /\ pc[c] = "gather" /\ buf[c].next <= buf[c].len
    /\ buf' = [buf EXCEPT ![c].vec = @ \o Bytes(Entry(c, buf[c].next)),
                          ![c].next = @ + 1]
    /\ UNCHANGED <<writers, array, pc, got, parts, collided>>

Gathered(c) == pc[c] = "gather" /\ buf[c].next > buf[c].len

Return(c, to) ==
    /\ pc' = [pc EXCEPT ![c] = to]
    /\ buf' = [buf EXCEPT ![c] = NoSlice]
    /\ UNCHANGED <<writers, array, got, parts, collided>>

NothingLeft(c) == Gathered(c) /\ buf[c].vec = <<>> /\ Return(c, "idle")

(* The deadline has passed or the client is gone: handle ends.             *)
WriteError(c) == Gathered(c) /\ buf[c].vec # <<>> /\ Return(c, "closed")

(* writev takes all the bytes, or as many as the socket has room for.      *)
Writev(c) ==
    /\ Gathered(c) /\ buf[c].vec # <<>>
    /\ \E k \in DOMAIN buf[c].vec :
          /\ got' = [got EXCEPT ![c] = @ \o SubSeq(buf[c].vec, 1, k)]
          /\ buf' = [buf EXCEPT ![c].n = k, ![c].vec = <<>>]
          /\ parts' = IF k = Len(buf[c].vec) THEN parts
                      ELSE [parts EXCEPT ![buf[c].arr] = @ \cup {c}]
    /\ pc' = [pc EXCEPT ![c] = "consume"]
    /\ UNCHANGED <<writers, array, collided>>

(* The length of the slice's first entry is read ...                       *)
Load(c) ==
    /\ pc[c] = "consume" /\ buf[c].pos <= buf[c].len
    /\ buf' = [buf EXCEPT ![c].ln0 = Entry(c, buf[c].pos).left]
    /\ pc' = [pc EXCEPT ![c] = "store"]
    /\ UNCHANGED <<writers, array, got, parts, collided>>

(* ... and the entry replaced.                                             *)
Store(c, left) ==
    /\ array' = [array EXCEPT ![buf[c].arr][buf[c].pos].left = left]
    /\ collided' = IF Entry(c, buf[c].pos).left = buf[c].ln0 THEN collided
                   ELSE collided \cup {buf[c].arr}
    /\ UNCHANGED <<writers, got, parts>>

(* It was written to its end.                                              *)
Shift(c) ==
    /\ pc[c] = "store" /\ buf[c].ln0 <= buf[c].n
    /\ Store(c, 0)
    /\ buf' = [buf EXCEPT ![c].n = @ - buf[c].ln0, ![c].pos = @ + 1, ![c].ln0 = 0]
    /\ pc' = [pc EXCEPT ![c] = "consume"]

(* What is left is gathered again.                                         *)
Again(c) ==
    /\ buf' = [buf EXCEPT ![c].n = 0, ![c].next = buf[c].pos, ![c].ln0 = 0]
    /\ pc' = [pc EXCEPT ![c] = "gather"]

(* It was written in part or not at all.                                   *)
Trim(c) ==
    /\ pc[c] = "store" /\ buf[c].ln0 > buf[c].n
    /\ Store(c, buf[c].ln0 - buf[c].n)
    /\ Again(c)

Written(c) == pc[c] = "consume" /\ buf[c].pos > buf[c].len /\ Return(c, "idle")

-----------------------------------------------------------------------------
Handle(c) ==
    \/ Wait(c) \/ Copy(c) \/ Gather(c) \/ NothingLeft(c) \/ Writev(c)
    \/ WriteError(c) \/ Load(c) \/ Shift(c) \/ Trim(c) \/ Written(c)

Next == Broadcast \/ TimerFlush \/ Flush \/ \E c \in Conn : Handle(c)

Spec == Init /\ [][Next]_vars

(* The ticker goes on, and whoever has begun to flush ends: the read lock  *)
(* is held for a copy only.                                                *)
FairSpec == Spec /\ WF_vars(TimerFlush) /\ WF_vars(Flush)

-----------------------------------------------------------------------------
(* Types; the test len(wbuf.buf) == BufSize never meets a longer buffer    *)
(* (broker.go:96), except with a BufSize of 0, where the buffer holds what *)
(* was broadcast since the last tick that flushed.                         *)
TypeOK ==
    /\ accepted \in 0..MaxRec
    /\ array \in Seq([1..Cap -> [rec : 0..MaxRec, left : 0..Size]])
    /\ wbuf.arr = Len(array) /\ wbuf.len \in 0..Cap /\ wbuf.len <= accepted
    /\ rbuf.arr \in 0..Len(array) /\ rbuf.len \in 0..Cap
    /\ flushing \in BOOLEAN /\ (~flushing /\ BufSize # 0 => wbuf.len < BufSize)
    /\ pc \in [Conn -> {"idle", "waiting", "woken", "gather", "consume", "store", "closed"}]
    /\ parts \in Seq(SUBSET Conn) /\ collided \subseteq DOMAIN array

(* A client gets the bytes of the records in the order in which they were  *)
(* broadcast, and no byte twice, although its connection may be woken by   *)
(* one flush and find the buffer of a later one (broker.go:105-107,        *)
(* 134-140); bytes come twice only where two connections changed one entry *)
(* of the shared array at the same time (broker.go:137).                   *)
InOrder ==
    collided = {} =>
        \A c \in Conn : \A i \in 2..Len(got[c]) :
            LET x == got[c][i - 1]  y == got[c][i]
            IN  x[1] < y[1] \/ (x[1] = y[1] /\ x[2] < y[2])

(* What is gone from a published buffer was sent to somebody, unless two   *)
(* connections had written parts of it: each then removes a number of      *)
(* bytes from entries the other has shortened, and takes bytes away that   *)
(* nobody has sent (broker.go:137-140).                                    *)
WrittenOrLeft ==
    \A a \in DOMAIN array :
        \/ a \in collided
        \/ \E c, d \in parts[a] : c # d
        \/ \A i \in DOMAIN array[a] : LET e == array[a][i] IN e.rec # 0 =>
              \A u \in 1..(Size - e.left) :
                  \E c \in Conn : Contains(got[c], <<e.rec, u>>)

(* What was broadcast is published, whoever else broadcasts and however    *)
(* few: without a BufSize the tick alone flushes (broker.go:81-83).        *)
Published ==
    \A n \in 1..MaxRec :
        accepted >= n ~> \E i \in 1..rbuf.len : array[rbuf.arr][i].rec >= n
=============================================================================
