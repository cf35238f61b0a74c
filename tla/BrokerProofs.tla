---------------------------- MODULE BrokerProofs ----------------------------
(***************************************************************************)
(* Proofs about Broker for any number of connections and of records, and   *)
(* any size of a buffer and of a record.                                   *)
(*                                                                         *)
(* In order: types and what each action does to them (the lemmas named     *)
(* ...Effect), what any step may do (Grows), the records of the arrays     *)
(* (RecordsInv), the arrays a connection is done with (BelowInv), the      *)
(* slice a connection works on while others shorten its entries            *)
(* (SliceInv), and from them the two properties (SortInv, WrittenInv).     *)
(* Sums of bytes over a slice are functions whose existence SliceInv       *)
(* states: an action gives the function of the next state from the one it  *)
(* found.                                                                  *)
(***************************************************************************)
EXTENDS Broker, TLAPS

Pair == Nat \X Nat
EntryType == [rec : 0..MaxRec, left : 0..Size]
ArrayType == [1..Cap -> EntryType]
SliceType == [arr : Nat, len : 0..Cap, pos : Nat, next : Nat, vec : Seq(Pair),
              n : Nat, ln0 : 0..Size]
PcType == {"idle", "waiting", "woken", "gather", "consume", "store", "closed"}

Working(c) == pc[c] \in {"gather", "consume", "store"}

(* A connection works on an array that is published, within its slice.     *)
SliceBounds(c) ==
    /\ Working(c) => buf[c].arr \in 1..rbuf.arr
    /\ pc[c] = "woken" => rbuf.arr >= 1
    /\ buf[c].pos \in 1..(buf[c].len + 1) /\ buf[c].next \in 1..(buf[c].len + 1)
    /\ pc[c] = "gather" => buf[c].pos <= buf[c].next
    /\ pc[c] = "store" => buf[c].pos <= buf[c].len
    /\ pc[c] # "gather" => buf[c].vec = <<>>

TypeInv ==
    /\ accepted \in 0..MaxRec
    /\ array \in Seq(ArrayType) /\ wbuf.arr = Len(array) /\ rbuf.arr < Len(array)
    /\ wbuf \in [arr : Nat, len : 0..Cap] /\ rbuf \in [arr : Nat, len : 0..Cap]
    /\ flushing \in BOOLEAN /\ (~flushing /\ BufSize # 0 => wbuf.len < BufSize)
    /\ wbuf.len <= accepted
    /\ pc \in [Conn -> PcType] /\ buf \in [Conn -> SliceType] /\ got \in [Conn -> Seq(Pair)]
    /\ parts \in Seq(SUBSET Conn) /\ Len(parts) = Len(array)
    /\ collided \subseteq 1..Len(array)
    /\ \A c \in Conn : SliceBounds(c)

(* The room of an array, and how it relates to BufSize.                    *)
LEMMA CapNat == Cap \in Nat /\ (BufSize # 0 => Cap = BufSize) /\ (BufSize = 0 => Cap = MaxRec)
BY BrokerAssumption DEF Cap

LEMMA EmptyType == Empty \in ArrayType
BY BrokerAssumption, CapNat DEF Empty, EntryType, ArrayType

LEMMA NoSliceType == NoSlice \in SliceType
BY BrokerAssumption, CapNat DEF NoSlice, SliceType

LEMMA TypeInit == Init => TypeInv
<1> SUFFICES ASSUME Init PROVE TypeInv
  OBVIOUS
<1>1. array \in Seq(ArrayType) /\ Len(array) = 1
  BY EmptyType DEF Init
<1>2. parts \in Seq(SUBSET Conn) /\ Len(parts) = 1
  BY DEF Init
<1>3. wbuf = [arr |-> 1, len |-> 0] /\ rbuf = [arr |-> 0, len |-> 0]
  BY DEF Init, NewBuffer
<1>4. buf \in [Conn -> SliceType] /\ got \in [Conn -> Seq(Pair)] /\ pc \in [Conn -> PcType]
  BY NoSliceType DEF Init, PcType
<1>5. 0 \in 0..Cap /\ (BufSize # 0 => 0 < BufSize) /\ 0 \in 0..MaxRec
  BY BrokerAssumption, CapNat
<1>6. wbuf.arr = Len(array) /\ rbuf.arr < Len(array) /\ (BufSize # 0 => wbuf.len < BufSize)
      /\ wbuf.len = 0
      /\ wbuf \in [arr : Nat, len : 0..Cap] /\ rbuf \in [arr : Nat, len : 0..Cap]
  BY <1>1, <1>3, <1>5
<1>7. flushing \in BOOLEAN /\ accepted \in 0..MaxRec /\ collided \subseteq 1..Len(array)
      /\ accepted = 0
  BY <1>5 DEF Init
<1>8. \A c \in Conn : SliceBounds(c)
  BY BrokerAssumption, CapNat DEF Init, SliceBounds, Working, NoSlice
<1>9. QED
  BY <1>1, <1>2, <1>4, <1>6, <1>7, <1>8 DEF TypeInv

(* The arrays and their entries.                                           *)
LEMMA EntryTyped ==
    ASSUME TypeInv
    PROVE  /\ \A a \in 1..Len(array) : array[a] \in ArrayType
           /\ \A a \in 1..Len(array), i \in 1..Cap :
                 array[a][i] \in EntryType /\ array[a][i].rec \in Nat /\ array[a][i].left \in 0..Size
           /\ Len(array) \in Nat \ {0} /\ DOMAIN array = 1..Len(array)
           /\ DOMAIN parts = 1..Len(array)
           /\ wbuf.arr = Len(array) /\ rbuf.arr \in Nat /\ rbuf.arr < Len(array)
           /\ wbuf.len \in 0..Cap /\ rbuf.len \in 0..Cap
           /\ \A a \in 1..rbuf.arr : a \in 1..Len(array) /\ a # wbuf.arr
<1>1. /\ array \in Seq(ArrayType) /\ parts \in Seq(SUBSET Conn) /\ Len(parts) = Len(array)
      /\ rbuf.arr < Len(array) /\ wbuf.arr = Len(array) /\ rbuf.arr \in Nat
      /\ wbuf.len \in 0..Cap /\ rbuf.len \in 0..Cap
  BY DEF TypeInv
<1>2. \A a \in 1..Len(array) : array[a] \in ArrayType
  BY <1>1
<1>3. \A a \in 1..Len(array), i \in 1..Cap :
        array[a][i] \in EntryType /\ array[a][i].rec \in Nat /\ array[a][i].left \in 0..Size
  <2>1. \A a \in 1..Len(array), i \in 1..Cap : array[a][i] \in EntryType
    BY <1>2 DEF ArrayType
  <2>2. \A e \in EntryType : e.rec \in Nat /\ e.left \in 0..Size
    BY BrokerAssumption, CapNat DEF EntryType
  <2>3. QED
    BY <2>1, <2>2
<1>4. QED
  BY <1>1, <1>2, <1>3

(* The slice a connection works on.                                        *)
LEMMA SliceTyped ==
    ASSUME TypeInv, NEW c \in Conn
    PROVE  /\ buf[c] \in SliceType /\ got[c] \in Seq(Pair) /\ pc[c] \in PcType
           /\ buf[c].arr \in Nat /\ buf[c].len \in 0..Cap
           /\ buf[c].pos \in Nat \ {0} /\ buf[c].next \in Nat \ {0}
           /\ buf[c].pos <= buf[c].len + 1 /\ buf[c].next <= buf[c].len + 1
           /\ buf[c].vec \in Seq(Pair) /\ buf[c].n \in Nat /\ buf[c].ln0 \in 0..Size
           /\ Working(c) => buf[c].arr \in 1..rbuf.arr /\ buf[c].arr \in 1..Len(array)
           /\ pc[c] = "woken" => rbuf.arr >= 1
           /\ pc[c] = "gather" => buf[c].pos <= buf[c].next
           /\ pc[c] = "store" => buf[c].pos <= buf[c].len
           /\ pc[c] # "gather" => buf[c].vec = <<>>
<1>1. buf[c] \in SliceType /\ got[c] \in Seq(Pair) /\ pc[c] \in PcType /\ SliceBounds(c)
  BY DEF TypeInv
<1>2. /\ buf[c].arr \in Nat /\ buf[c].len \in 0..Cap /\ buf[c].pos \in Nat /\ buf[c].next \in Nat
      /\ buf[c].vec \in Seq(Pair) /\ buf[c].n \in Nat /\ buf[c].ln0 \in 0..Size
  BY <1>1 DEF SliceType
<1>3. /\ buf[c].pos \in Nat \ {0} /\ buf[c].next \in Nat \ {0}
      /\ buf[c].pos <= buf[c].len + 1 /\ buf[c].next <= buf[c].len + 1
  BY <1>1, <1>2, BrokerAssumption, CapNat DEF SliceBounds
<1>4. Working(c) => buf[c].arr \in 1..rbuf.arr /\ buf[c].arr \in 1..Len(array)
  BY <1>1, EntryTyped DEF SliceBounds
<1>5. QED
  BY <1>1, <1>2, <1>3, <1>4 DEF SliceBounds

(* The bytes of an entry: those that are left.                             *)
LEMMA BytesFacts ==
    ASSUME NEW e \in EntryType
    PROVE  /\ Bytes(e) \in Seq(Pair) /\ Len(Bytes(e)) = e.left
           /\ \A i \in 1..e.left : Bytes(e)[i] = <<e.rec, Size - e.left + i>>
<1>1. e.rec \in Nat /\ e.left \in Nat /\ e.left <= Size /\ Size \in Nat
  BY BrokerAssumption, CapNat DEF EntryType
<1>2. \A i \in 1..e.left : Size - e.left + i \in Nat
  BY <1>1
<1>3. \A i \in 1..e.left : <<e.rec, Size - e.left + i>> \in Pair
  BY <1>1, <1>2 DEF Pair
<1>4. QED
  BY <1>1, <1>3 DEF Bytes

ConcatIs(r, s, t) ==
    /\ r \in Seq(Pair) /\ Len(s) \in Nat /\ Len(t) \in Nat /\ Len(r) = Len(s) + Len(t)
    /\ \A i \in 1..Len(s) : r[i] = s[i]
    /\ \A i \in 1..Len(t) : r[Len(s) + i] = t[i]

LEMMA ConcatFacts == \A s, t \in Seq(Pair) : ConcatIs(s \o t, s, t)
BY DEF ConcatIs

LEMMA PrefixFacts ==
    ASSUME NEW s \in Seq(Pair), NEW k \in 1..Len(s)
    PROVE  /\ SubSeq(s, 1, k) \in Seq(Pair) /\ Len(SubSeq(s, 1, k)) = k
           /\ \A i \in 1..k : SubSeq(s, 1, k)[i] = s[i]
OBVIOUS

(* An entry of an array is replaced.                                       *)
Replaced(t, s, a, i, e) ==
    /\ t \in Seq(ArrayType) /\ Len(t) = Len(s)
    /\ t[a][i] = e
    /\ \A x \in 1..Len(s), y \in 1..Cap : x # a \/ y # i => t[x][y] = s[x][y]

LEMMA SetEntry ==
    ASSUME NEW s \in Seq(ArrayType), NEW a \in 1..Len(s), NEW i \in 1..Cap, NEW e \in EntryType
    PROVE  Replaced([s EXCEPT ![a][i] = e], s, a, i, e)
<1> DEFINE r == [s[a] EXCEPT ![i] = e]
           t == [s EXCEPT ![a] = r]
<1>1. s[a] \in ArrayType
  OBVIOUS
<1>2. r \in ArrayType /\ r[i] = e /\ \A y \in 1..Cap : y # i => r[y] = s[a][y]
  BY <1>1 DEF ArrayType
<1> HIDE DEF r
<1>3. /\ t \in Seq(ArrayType) /\ Len(t) = Len(s) /\ t[a] = r
      /\ \A x \in 1..Len(s) : x # a => t[x] = s[x]
  BY <1>2
<1> HIDE DEF t
<1>4. \A x \in 1..Len(s), y \in 1..Cap : x # a \/ y # i => t[x][y] = s[x][y]
  BY <1>2, <1>3
<1>5. Replaced(t, s, a, i, e)
  BY <1>2, <1>3, <1>4 DEF Replaced
<1>6. QED
  BY <1>5 DEF t, r

(* A field of a slice is replaced.                                         *)
LEMMA SetVec ==
    ASSUME NEW b \in SliceType, NEW v \in Seq(Pair), NEW r, r = [b EXCEPT !.vec = v]
    PROVE  /\ r \in SliceType /\ r.arr = b.arr /\ r.len = b.len /\ r.pos = b.pos
           /\ r.next = b.next /\ r.vec = v /\ r.n = b.n /\ r.ln0 = b.ln0
BY DEF SliceType

LEMMA SetPos ==
    ASSUME NEW b \in SliceType, NEW v \in Nat, NEW r, r = [b EXCEPT !.pos = v]
    PROVE  /\ r \in SliceType /\ r.arr = b.arr /\ r.len = b.len /\ r.pos = v
           /\ r.next = b.next /\ r.vec = b.vec /\ r.n = b.n /\ r.ln0 = b.ln0
BY DEF SliceType

LEMMA SetNext ==
    ASSUME NEW b \in SliceType, NEW v \in Nat, NEW r, r = [b EXCEPT !.next = v]
    PROVE  /\ r \in SliceType /\ r.arr = b.arr /\ r.len = b.len /\ r.pos = b.pos
           /\ r.next = v /\ r.vec = b.vec /\ r.n = b.n /\ r.ln0 = b.ln0
BY DEF SliceType

LEMMA SetN ==
    ASSUME NEW b \in SliceType, NEW v \in Nat, NEW r, r = [b EXCEPT !.n = v]
    PROVE  /\ r \in SliceType /\ r.arr = b.arr /\ r.len = b.len /\ r.pos = b.pos
           /\ r.next = b.next /\ r.vec = b.vec /\ r.n = v /\ r.ln0 = b.ln0
BY DEF SliceType

LEMMA SetLn0 ==
    ASSUME NEW b \in SliceType, NEW v \in 0..Size, NEW r, r = [b EXCEPT !.ln0 = v]
    PROVE  /\ r \in SliceType /\ r.arr = b.arr /\ r.len = b.len /\ r.pos = b.pos
           /\ r.next = b.next /\ r.vec = b.vec /\ r.n = b.n /\ r.ln0 = v
BY DEF SliceType

(* What a step of connection c leaves alone, and the bounds it keeps.      *)
Moves(c) ==
    /\ UNCHANGED writers
    /\ pc' \in [Conn -> PcType] /\ buf' \in [Conn -> SliceType]
    /\ \A d \in Conn \ {c} : pc'[d] = pc[d] /\ buf'[d] = buf[d]
    /\ SliceBounds(c)'

LEMMA MovesTo ==
    ASSUME TypeInv, NEW c \in Conn, UNCHANGED writers,
           NEW p \in PcType, NEW b \in SliceType,
           pc' = [pc EXCEPT ![c] = p], buf' = [buf EXCEPT ![c] = b],
           p \in {"gather", "consume", "store"} => b.arr \in 1..rbuf.arr,
           p = "woken" => rbuf.arr >= 1,
           b.pos \in 1..(b.len + 1), b.next \in 1..(b.len + 1),
           p = "gather" => b.pos <= b.next,
           p = "store" => b.pos <= b.len,
           p # "gather" => b.vec = <<>>
    PROVE  Moves(c) /\ pc'[c] = p /\ buf'[c] = b
<1>1. pc \in [Conn -> PcType] /\ buf \in [Conn -> SliceType] /\ rbuf' = rbuf
  BY DEF TypeInv, writers
<1>2. pc' \in [Conn -> PcType] /\ buf' \in [Conn -> SliceType] /\ pc'[c] = p /\ buf'[c] = b
      /\ \A d \in Conn \ {c} : pc'[d] = pc[d] /\ buf'[d] = buf[d]
  BY <1>1
<1>3. SliceBounds(c)'
  BY <1>1, <1>2 DEF SliceBounds, Working
<1>4. QED
  BY <1>2, <1>3 DEF Moves

LEMMA WaitEffect ==
    ASSUME TypeInv, NEW c \in Conn, Wait(c)
    PROVE  /\ Moves(c) /\ pc[c] = "idle" /\ pc'[c] = "waiting" /\ buf'[c] = buf[c]
           /\ UNCHANGED <<array, got, parts, collided>>
<1>1. buf \in [Conn -> SliceType] /\ buf[c] \in SliceType /\ SliceBounds(c)
  BY DEF TypeInv
<1>2. pc' = [pc EXCEPT ![c] = "waiting"] /\ buf' = [buf EXCEPT ![c] = buf[c]] /\ pc[c] = "idle"
      /\ UNCHANGED <<writers, array, got, parts, collided>>
  BY <1>1 DEF Wait
<1>3. "waiting" \in PcType
  BY DEF PcType
<1>4. QED
  BY <1>1, <1>2, <1>3, MovesTo DEF SliceBounds

LEMMA ReturnEffect ==
    ASSUME TypeInv, NEW c \in Conn, NEW p \in {"idle", "closed"}, Return(c, p)
    PROVE  /\ Moves(c) /\ pc'[c] = p /\ buf'[c] = NoSlice
           /\ UNCHANGED <<array, got, parts, collided>>
<1>1. pc' = [pc EXCEPT ![c] = p] /\ buf' = [buf EXCEPT ![c] = NoSlice]
      /\ UNCHANGED <<writers, array, got, parts, collided>>
  BY DEF Return
<1>2. NoSlice \in SliceType /\ NoSlice.pos = 1 /\ NoSlice.len = 0 /\ NoSlice.next = 1
      /\ NoSlice.vec = <<>>
  BY NoSliceType DEF NoSlice
<1>3. p \in PcType /\ p \notin {"gather", "consume", "store", "woken"}
  BY DEF PcType
<1>4. NoSlice.pos \in 1..(NoSlice.len + 1) /\ NoSlice.next \in 1..(NoSlice.len + 1)
  BY <1>2
<1>5. QED
  BY <1>1, <1>2, <1>3, <1>4, MovesTo

LEMMA CopyEffect ==
    ASSUME TypeInv, NEW c \in Conn, Copy(c)
    PROVE  /\ Moves(c) /\ pc[c] = "woken" /\ pc'[c] = "gather"
           /\ buf'[c].arr = rbuf.arr /\ buf'[c].len = rbuf.len /\ buf'[c].pos = 1
           /\ buf'[c].next = 1 /\ buf'[c].vec = <<>>
           /\ UNCHANGED <<array, got, parts, collided>>
<1> DEFINE b == [NoSlice EXCEPT !.arr = rbuf.arr, !.len = rbuf.len]
<1>1. pc' = [pc EXCEPT ![c] = "gather"] /\ buf' = [buf EXCEPT ![c] = b] /\ pc[c] = "woken"
      /\ UNCHANGED <<writers, array, got, parts, collided>>
  BY DEF Copy
<1>2. rbuf.arr \in Nat /\ rbuf.len \in 0..Cap /\ rbuf.arr >= 1
  BY <1>1, EntryTyped, SliceTyped
<1>3. b \in SliceType /\ b.arr = rbuf.arr /\ b.len = rbuf.len /\ b.pos = 1 /\ b.next = 1 /\ b.vec = <<>>
  BY <1>2, NoSliceType DEF NoSlice, SliceType
<1> HIDE DEF b
<1>4. b.arr \in 1..rbuf.arr /\ b.pos \in 1..(b.len + 1) /\ b.next \in 1..(b.len + 1) /\ b.pos <= b.next
  BY <1>2, <1>3
<1>5. "gather" \in PcType
  BY DEF PcType
<1>6. Moves(c) /\ pc'[c] = "gather" /\ buf'[c] = b
  BY <1>1, <1>2, <1>3, <1>4, <1>5, MovesTo
<1>7. QED
  BY <1>1, <1>3, <1>6

LEMMA GatherEffect ==
    ASSUME TypeInv, NEW c \in Conn, Gather(c)
    PROVE  /\ Moves(c) /\ pc[c] = "gather" /\ pc'[c] = "gather" /\ buf[c].next \in 1..buf[c].len
           /\ buf[c].next \in 1..Cap /\ Entry(c, buf[c].next) \in EntryType
           /\ buf'[c].arr = buf[c].arr /\ buf'[c].len = buf[c].len /\ buf'[c].pos = buf[c].pos
           /\ buf'[c].next = buf[c].next + 1
           /\ ConcatIs(buf'[c].vec, buf[c].vec, Bytes(Entry(c, buf[c].next)))
           /\ UNCHANGED <<array, got, parts, collided>>
<1>0. buf[c] \in SliceType /\ buf \in [Conn -> SliceType] /\ pc \in [Conn -> PcType]
  BY DEF TypeInv
<1> DEFINE v == buf[c].vec \o Bytes(Entry(c, buf[c].next))
           b1 == [buf[c] EXCEPT !.vec = v]
           b == [b1 EXCEPT !.next = buf[c].next + 1]
<1>1. pc[c] = "gather" /\ buf[c].next <= buf[c].len /\ buf' = [buf EXCEPT ![c] = b]
      /\ pc' = [pc EXCEPT ![c] = "gather"]
      /\ UNCHANGED <<writers, array, got, parts, collided>>
  BY <1>0 DEF Gather
<1>2. buf[c].next \in 1..buf[c].len /\ buf[c].next \in 1..Cap
  BY <1>1, SliceTyped, BrokerAssumption, CapNat
<1>3. Entry(c, buf[c].next) \in EntryType
  BY <1>1, <1>2, SliceTyped, EntryTyped DEF Entry, Working
<1>4. v \in Seq(Pair) /\ ConcatIs(v, buf[c].vec, Bytes(Entry(c, buf[c].next)))
  <2>1. buf[c].vec \in Seq(Pair) /\ Bytes(Entry(c, buf[c].next)) \in Seq(Pair)
    BY <1>3, BytesFacts, SliceTyped
  <2>2. QED
    BY <2>1, ConcatFacts
<1> HIDE DEF v
<1>5. /\ b1 \in SliceType /\ b1.arr = buf[c].arr /\ b1.len = buf[c].len /\ b1.pos = buf[c].pos
      /\ b1.vec = v
  BY <1>0, <1>4, SetVec
<1> HIDE DEF b1
<1>6. /\ b \in SliceType /\ b.arr = buf[c].arr /\ b.len = buf[c].len /\ b.pos = buf[c].pos
      /\ b.next = buf[c].next + 1 /\ b.vec = v
  BY <1>2, <1>5, SetNext
<1> HIDE DEF b
<1>7. /\ b.arr \in 1..rbuf.arr /\ b.pos \in 1..(b.len + 1) /\ b.next \in 1..(b.len + 1)
      /\ b.pos <= b.next
  BY <1>1, <1>2, <1>6, SliceTyped DEF Working
<1>8. "gather" \in PcType
  BY DEF PcType
<1>9. Moves(c) /\ pc'[c] = "gather" /\ buf'[c] = b
  BY <1>1, <1>6, <1>7, <1>8, MovesTo
<1>10. QED
  BY <1>1, <1>2, <1>3, <1>4, <1>6, <1>9 DEF v

LEMMA WritevEffect ==
    ASSUME TypeInv, NEW c \in Conn, Writev(c)
    PROVE  /\ Moves(c) /\ pc[c] = "gather" /\ pc'[c] = "consume" /\ buf[c].next = buf[c].len + 1
           /\ buf'[c].arr = buf[c].arr /\ buf'[c].len = buf[c].len /\ buf'[c].pos = buf[c].pos
           /\ buf'[c].n \in 1..Len(buf[c].vec)
           /\ got' \in [Conn -> Seq(Pair)] /\ \A d \in Conn \ {c} : got'[d] = got[d]
           /\ Len(got'[c]) = Len(got[c]) + buf'[c].n
           /\ \A i \in 1..Len(got[c]) : got'[c][i] = got[c][i]
           /\ \A i \in 1..buf'[c].n : got'[c][Len(got[c]) + i] = buf[c].vec[i]
           /\ parts' \in Seq(SUBSET Conn) /\ Len(parts') = Len(parts)
           /\ \A a \in 1..Len(parts) : a # buf[c].arr => parts'[a] = parts[a]
           /\ parts'[buf[c].arr] = IF buf'[c].n = Len(buf[c].vec) THEN parts[buf[c].arr]
                                   ELSE parts[buf[c].arr] \cup {c}
           /\ UNCHANGED <<array, collided>>
<1>0. /\ buf[c] \in SliceType /\ buf \in [Conn -> SliceType] /\ pc \in [Conn -> PcType]
      /\ got \in [Conn -> Seq(Pair)] /\ parts \in Seq(SUBSET Conn) /\ Len(parts) = Len(array)
  BY DEF TypeInv
<1>1. PICK k \in DOMAIN buf[c].vec :
         /\ got' = [got EXCEPT ![c] = @ \o SubSeq(buf[c].vec, 1, k)]
         /\ buf' = [buf EXCEPT ![c].n = k, ![c].vec = <<>>]
         /\ parts' = IF k = Len(buf[c].vec) THEN parts
                     ELSE [parts EXCEPT ![buf[c].arr] = @ \cup {c}]
  BY DEF Writev
<1>2. buf[c].vec \in Seq(Pair) /\ k \in 1..Len(buf[c].vec) /\ k \in Nat
  BY SliceTyped
<1> DEFINE b1 == [buf[c] EXCEPT !.n = k]
           b == [b1 EXCEPT !.vec = <<>>]
           s == SubSeq(buf[c].vec, 1, k)
<1>3. pc' = [pc EXCEPT ![c] = "consume"] /\ buf' = [buf EXCEPT ![c] = b]
      /\ pc[c] = "gather" /\ buf[c].next > buf[c].len /\ UNCHANGED <<writers, array, collided>>
  BY <1>0, <1>1 DEF Writev, Gathered
<1>4. b1 \in SliceType /\ b1.arr = buf[c].arr /\ b1.len = buf[c].len /\ b1.pos = buf[c].pos
      /\ b1.next = buf[c].next /\ b1.n = k
  BY <1>0, <1>2, SetN
<1> HIDE DEF b1
<1>5. b \in SliceType /\ b.arr = buf[c].arr /\ b.len = buf[c].len /\ b.pos = buf[c].pos
      /\ b.next = buf[c].next /\ b.n = k /\ b.vec = <<>>
  <2>1. PICK v : v = <<>>
    OBVIOUS
  <2>2. v \in Seq(Pair)
    BY <2>1
  <2>3. PICK r : r = [b1 EXCEPT !.vec = v]
    OBVIOUS
  <2>4. r \in SliceType /\ r.arr = b1.arr /\ r.len = b1.len /\ r.pos = b1.pos
        /\ r.next = b1.next /\ r.n = b1.n /\ r.vec = v
    BY <1>4, <2>2, <2>3, SetVec
  <2>5. b = r
    BY <2>1, <2>3
  <2>6. QED
    BY <1>4, <2>1, <2>4, <2>5
<1> HIDE DEF b
<1>6. buf[c].arr \in 1..rbuf.arr /\ buf[c].arr \in 1..Len(array) /\ buf[c].next = buf[c].len + 1
  BY <1>3, SliceTyped DEF Working
<1>7. Moves(c) /\ pc'[c] = "consume" /\ buf'[c] = b
  <2>1. "consume" \in PcType
    BY DEF PcType
  <2>2. b.arr \in 1..rbuf.arr /\ b.pos \in 1..(b.len + 1) /\ b.next \in 1..(b.len + 1)
    BY <1>5, <1>6, SliceTyped
  <2>3. QED
    BY ZenonT(30), <1>3, <1>5, <2>1, <2>2, MovesTo
<1>8. s \in Seq(Pair) /\ Len(s) = k /\ \A i \in 1..k : s[i] = buf[c].vec[i]
  BY <1>2, PrefixFacts
<1> HIDE DEF s
<1>9. got'[c] = got[c] \o s /\ got[c] \in Seq(Pair) /\ \A d \in Conn \ {c} : got'[d] = got[d]
  BY <1>0, <1>1 DEF s
<1>10. ConcatIs(got'[c], got[c], s)
  BY <1>8, <1>9, ConcatFacts
<1>11. /\ Len(got'[c]) = Len(got[c]) + k /\ got'[c] \in Seq(Pair)
       /\ \A i \in 1..Len(got[c]) : got'[c][i] = got[c][i]
       /\ \A i \in 1..k : got'[c][Len(got[c]) + i] = buf[c].vec[i]
  BY <1>8, <1>10 DEF ConcatIs
<1>12. got' \in [Conn -> Seq(Pair)]
  <2>1. got[c] \o s \in Seq(Pair)
    BY <1>8, <1>9
  <2>2. got' = [got EXCEPT ![c] = got[c] \o s]
    BY <1>1 DEF s
  <2>3. QED
    BY <1>0, <2>1, <2>2
<1>13. /\ parts' \in Seq(SUBSET Conn) /\ Len(parts') = Len(parts)
       /\ \A a \in 1..Len(parts) : a # buf[c].arr => parts'[a] = parts[a]
       /\ parts'[buf[c].arr] = IF k = Len(buf[c].vec) THEN parts[buf[c].arr]
                               ELSE parts[buf[c].arr] \cup {c}
  <2>1. CASE k = Len(buf[c].vec)
    BY <1>0, <1>1, <2>1
  <2>2. CASE k # Len(buf[c].vec)
    <3> DEFINE q == parts[buf[c].arr] \cup {c}
    <3>1. parts' = [parts EXCEPT ![buf[c].arr] = q] /\ q \in SUBSET Conn
          /\ buf[c].arr \in 1..Len(parts)
      BY <1>0, <1>1, <1>6, <2>2
    <3> HIDE DEF q
    <3>2. parts' \in Seq(SUBSET Conn) /\ Len(parts') = Len(parts) /\ parts'[buf[c].arr] = q
          /\ \A a \in 1..Len(parts) : a # buf[c].arr => parts'[a] = parts[a]
      BY <1>0, <3>1
    <3>3. QED
      BY <2>2, <3>2 DEF q
  <2>3. QED
    BY <2>1, <2>2
<1>14. QED
  BY <1>2, <1>3, <1>5, <1>6, <1>7, <1>9, <1>11, <1>12, <1>13

LEMMA OthersGot ==
    ASSUME TypeInv, NEW c \in Conn, NEW d \in Conn, Writev(d), d # c
    PROVE  got'[c] = got[c]
<1>1. \A e \in Conn \ {d} : got'[e] = got[e]
  BY WritevEffect
<1>2. QED
  BY <1>1

LEMMA LoadEffect ==
    ASSUME TypeInv, NEW c \in Conn, Load(c)
    PROVE  /\ Moves(c) /\ pc[c] = "consume" /\ pc'[c] = "store"
           /\ buf'[c].arr = buf[c].arr /\ buf'[c].len = buf[c].len /\ buf'[c].pos = buf[c].pos
           /\ buf'[c].n = buf[c].n
           /\ UNCHANGED <<array, got, parts, collided>>
<1>0. buf[c] \in SliceType /\ buf \in [Conn -> SliceType] /\ pc \in [Conn -> PcType]
  BY DEF TypeInv
<1> DEFINE l == Entry(c, buf[c].pos).left
           b == [buf[c] EXCEPT !.ln0 = l]
<1>1. pc' = [pc EXCEPT ![c] = "store"] /\ buf' = [buf EXCEPT ![c] = b]
      /\ pc[c] = "consume" /\ buf[c].pos <= buf[c].len
      /\ UNCHANGED <<writers, array, got, parts, collided>>
  BY <1>0 DEF Load
<1>2. buf[c].arr \in 1..rbuf.arr /\ buf[c].arr \in 1..Len(array) /\ buf[c].pos \in 1..Cap
  BY <1>1, SliceTyped, BrokerAssumption, CapNat DEF Working
<1>3. l \in 0..Size
  BY <1>2, EntryTyped DEF Entry
<1> HIDE DEF l
<1>4. b \in SliceType /\ b.arr = buf[c].arr /\ b.len = buf[c].len /\ b.pos = buf[c].pos
      /\ b.next = buf[c].next /\ b.n = buf[c].n /\ b.vec = buf[c].vec
  BY <1>0, <1>3, SetLn0
<1> HIDE DEF b
<1>5. "store" \in PcType
  BY DEF PcType
<1>6. /\ b.arr \in 1..rbuf.arr /\ b.pos \in 1..(b.len + 1) /\ b.next \in 1..(b.len + 1)
      /\ b.pos <= b.len /\ b.vec = <<>>
  BY <1>1, <1>2, <1>4, SliceTyped
<1>7. Moves(c) /\ pc'[c] = "store" /\ buf'[c] = b
  BY <1>1, <1>4, <1>5, <1>6, MovesTo
<1>8. QED
  BY <1>1, <1>4, <1>7

(* Connection c leaves l bytes of the first entry of its slice.            *)
Leaves(c, l) ==
    /\ array' \in Seq(ArrayType) /\ Len(array') = Len(array)
    /\ \A a \in 1..Len(array), i \in 1..Cap :
          /\ a # buf[c].arr \/ i # buf[c].pos => array'[a][i] = array[a][i]
          /\ array'[a][i].rec = array[a][i].rec
    /\ buf[c].arr \in 1..rbuf.arr /\ buf[c].arr \in 1..Len(array) /\ buf[c].pos \in 1..Cap
    /\ buf[c].pos <= buf[c].len
    /\ array'[buf[c].arr][buf[c].pos].left = l
    /\ collided \subseteq collided' /\ collided' \subseteq 1..Len(array)
    /\ buf[c].arr \notin collided' => array[buf[c].arr][buf[c].pos].left = buf[c].ln0

LEMMA StoreEffect ==
    ASSUME TypeInv, NEW c \in Conn, NEW l \in 0..Size, Store(c, l), pc[c] = "store"
    PROVE  Leaves(c, l) /\ UNCHANGED <<writers, got, parts>>
<1>1. /\ buf[c].arr \in 1..rbuf.arr /\ buf[c].arr \in 1..Len(array) /\ buf[c].pos \in 1..Cap
      /\ buf[c].pos <= buf[c].len
  BY SliceTyped, BrokerAssumption, CapNat DEF Working
<1> DEFINE e == [array[buf[c].arr][buf[c].pos] EXCEPT !.left = l]
<1>2. array' = [array EXCEPT ![buf[c].arr][buf[c].pos] = e] /\ UNCHANGED <<writers, got, parts>>
      /\ collided' = IF array[buf[c].arr][buf[c].pos].left = buf[c].ln0 THEN collided
                     ELSE collided \cup {buf[c].arr}
  BY DEF Store, Entry
<1>3. e \in EntryType /\ e.left = l /\ e.rec = array[buf[c].arr][buf[c].pos].rec
  <2>1. array[buf[c].arr][buf[c].pos] \in EntryType
    BY <1>1, EntryTyped
  <2>2. QED
    BY <2>1 DEF EntryType
<1> HIDE DEF e
<1>4. array \in Seq(ArrayType) /\ collided \subseteq 1..Len(array)
  BY DEF TypeInv
<1>5. Replaced(array', array, buf[c].arr, buf[c].pos, e)
  BY <1>1, <1>2, <1>3, <1>4, SetEntry
<1>6. /\ array' \in Seq(ArrayType) /\ Len(array') = Len(array)
      /\ \A a \in 1..Len(array), i \in 1..Cap :
            /\ a # buf[c].arr \/ i # buf[c].pos => array'[a][i] = array[a][i]
            /\ array'[a][i].rec = array[a][i].rec
      /\ array'[buf[c].arr][buf[c].pos].left = l
  BY <1>1, <1>3, <1>5 DEF Replaced
<1>7. /\ collided \subseteq collided' /\ collided' \subseteq 1..Len(array)
      /\ buf[c].arr \notin collided' => array[buf[c].arr][buf[c].pos].left = buf[c].ln0
  BY <1>1, <1>2, <1>4
<1>8. QED
  BY <1>1, <1>2, <1>6, <1>7 DEF Leaves

LEMMA ShiftEffect ==
    ASSUME TypeInv, NEW c \in Conn, Shift(c)
    PROVE  /\ Moves(c) /\ Leaves(c, 0) /\ pc[c] = "store" /\ pc'[c] = "consume"
           /\ buf[c].ln0 <= buf[c].n
           /\ buf'[c].arr = buf[c].arr /\ buf'[c].len = buf[c].len /\ buf'[c].pos = buf[c].pos + 1
           /\ buf'[c].n = buf[c].n - buf[c].ln0
           /\ UNCHANGED <<got, parts>>
<1>0. buf[c] \in SliceType /\ buf \in [Conn -> SliceType] /\ pc \in [Conn -> PcType]
  BY DEF TypeInv
<1> DEFINE b1 == [buf[c] EXCEPT !.n = buf[c].n - buf[c].ln0]
           b2 == [b1 EXCEPT !.pos = buf[c].pos + 1]
           b == [b2 EXCEPT !.ln0 = 0]
<1>1. pc' = [pc EXCEPT ![c] = "consume"] /\ pc[c] = "store" /\ buf[c].ln0 <= buf[c].n /\ Store(c, 0)
  BY DEF Shift
<1>2. 0 \in 0..Size /\ buf[c].n - buf[c].ln0 \in Nat /\ buf[c].pos + 1 \in Nat
  BY <1>1, SliceTyped, BrokerAssumption, CapNat
<1>3. Leaves(c, 0) /\ UNCHANGED <<writers, got, parts>>
  BY <1>1, <1>2, StoreEffect
<1>4. /\ b1 \in SliceType /\ b1.arr = buf[c].arr /\ b1.len = buf[c].len /\ b1.pos = buf[c].pos
      /\ b1.next = buf[c].next /\ b1.n = buf[c].n - buf[c].ln0 /\ b1.vec = buf[c].vec
  BY <1>0, <1>2, SetN
<1>5. /\ b2 \in SliceType /\ b2.arr = b1.arr /\ b2.len = b1.len /\ b2.pos = buf[c].pos + 1
      /\ b2.next = b1.next /\ b2.n = b1.n /\ b2.vec = b1.vec
  <2> HIDE DEF b1
  <2>1. QED
    BY <1>2, <1>4, SetPos
<1>6. /\ b \in SliceType /\ b.arr = b2.arr /\ b.len = b2.len /\ b.pos = b2.pos
      /\ b.next = b2.next /\ b.n = b2.n /\ b.vec = b2.vec
  <2> HIDE DEF b2
  <2>1. QED
    BY <1>2, <1>5, SetLn0
<1>7. buf' = [buf EXCEPT ![c] = b]
  BY <1>0 DEF Shift
<1> HIDE DEF b1, b2, b
<1>8. b.arr \in 1..rbuf.arr /\ b.pos \in 1..(b.len + 1) /\ b.next \in 1..(b.len + 1)
      /\ b.vec = <<>>
  BY SMTT(30), <1>1, <1>3, <1>4, <1>5, <1>6, SliceTyped DEF Leaves
<1>9. "consume" \in PcType
  BY DEF PcType
<1>10. Moves(c) /\ pc'[c] = "consume" /\ buf'[c] = b
  BY <1>1, <1>3, <1>6, <1>7, <1>8, <1>9, MovesTo
<1>11. QED
  BY <1>1, <1>3, <1>4, <1>5, <1>6, <1>8, <1>10

LEMMA TrimEffect ==
    ASSUME TypeInv, NEW c \in Conn, Trim(c)
    PROVE  /\ Moves(c) /\ Leaves(c, buf[c].ln0 - buf[c].n) /\ pc[c] = "store" /\ pc'[c] = "gather"
           /\ buf[c].ln0 > buf[c].n
           /\ buf'[c].arr = buf[c].arr /\ buf'[c].len = buf[c].len /\ buf'[c].pos = buf[c].pos
           /\ buf'[c].next = buf[c].pos
           /\ buf'[c].vec = <<>>
           /\ UNCHANGED <<got, parts>>
<1>0. buf[c] \in SliceType /\ buf \in [Conn -> SliceType] /\ pc \in [Conn -> PcType]
  BY DEF TypeInv
<1> DEFINE b1 == [buf[c] EXCEPT !.n = 0]
           b2 == [b1 EXCEPT !.next = buf[c].pos]
           b == [b2 EXCEPT !.ln0 = 0]
<1>1. pc' = [pc EXCEPT ![c] = "gather"] /\ pc[c] = "store" /\ buf[c].ln0 > buf[c].n
      /\ Store(c, buf[c].ln0 - buf[c].n)
  BY DEF Trim, Again
<1>2. 0 \in 0..Size /\ 0 \in Nat /\ buf[c].ln0 - buf[c].n \in 0..Size /\ buf[c].pos \in Nat
  BY <1>1, SliceTyped, BrokerAssumption, CapNat
<1>3. Leaves(c, buf[c].ln0 - buf[c].n) /\ UNCHANGED <<writers, got, parts>>
  BY <1>1, <1>2, StoreEffect
<1>4. /\ b1 \in SliceType /\ b1.arr = buf[c].arr /\ b1.len = buf[c].len /\ b1.pos = buf[c].pos
      /\ b1.vec = buf[c].vec
  BY <1>0, <1>2, SetN
<1>5. /\ b2 \in SliceType /\ b2.arr = b1.arr /\ b2.len = b1.len /\ b2.pos = b1.pos
      /\ b2.next = buf[c].pos /\ b2.vec = b1.vec
  <2> HIDE DEF b1
  <2>1. QED
    BY <1>2, <1>4, SetNext
<1>6. /\ b \in SliceType /\ b.arr = b2.arr /\ b.len = b2.len /\ b.pos = b2.pos
      /\ b.next = b2.next /\ b.vec = b2.vec
  <2> HIDE DEF b2
  <2>1. QED
    BY <1>2, <1>5, SetLn0
<1>7. buf' = [buf EXCEPT ![c] = b]
  BY <1>0 DEF Trim, Again
<1> HIDE DEF b1, b2, b
<1>8. /\ b.arr \in 1..rbuf.arr /\ b.pos \in 1..(b.len + 1) /\ b.next \in 1..(b.len + 1)
      /\ b.pos <= b.next /\ b.vec = <<>>
  BY <1>1, <1>3, <1>4, <1>5, <1>6, SliceTyped DEF Leaves
<1>9. "gather" \in PcType
  BY DEF PcType
<1>10. Moves(c) /\ pc'[c] = "gather" /\ buf'[c] = b
  BY <1>1, <1>3, <1>6, <1>7, <1>8, <1>9, MovesTo
<1>11. QED
  BY <1>1, <1>3, <1>4, <1>5, <1>6, <1>8, <1>10

LEMMA BroadcastEffect ==
    ASSUME TypeInv, Broadcast
    PROVE  /\ accepted' = accepted + 1 /\ accepted' \in 0..MaxRec
           /\ wbuf.len + 1 \in 1..Cap
           /\ Replaced(array', array, Len(array), wbuf.len + 1, [rec |-> accepted + 1, left |-> Size])
           /\ wbuf' \in [arr : Nat, len : 0..Cap]
           /\ wbuf'.arr = wbuf.arr /\ wbuf'.len = wbuf.len + 1
           /\ flushing' \in BOOLEAN /\ (~flushing' /\ BufSize # 0 => wbuf'.len < BufSize)
           /\ wbuf'.len <= accepted'
           /\ UNCHANGED <<rbuf, pc, buf, got, parts, collided>>
<1>1. /\ accepted < MaxRec /\ ~flushing /\ accepted' = accepted + 1
      /\ array' = [array EXCEPT ![wbuf.arr][wbuf.len + 1] = [rec |-> accepted + 1, left |-> Size]]
      /\ wbuf' = [wbuf EXCEPT !.len = @ + 1]
      /\ flushing' = (wbuf'.len = BufSize)
      /\ UNCHANGED <<rbuf, pc, buf, got, parts, collided>>
  BY DEF Broadcast
<1>2. accepted \in 0..MaxRec /\ array \in Seq(ArrayType) /\ wbuf \in [arr : Nat, len : 0..Cap]
      /\ wbuf.arr = Len(array) /\ (~flushing /\ BufSize # 0 => wbuf.len < BufSize)
      /\ wbuf.len <= accepted
  BY DEF TypeInv
<1>3. accepted' \in 0..MaxRec /\ [rec |-> accepted + 1, left |-> Size] \in EntryType
  BY <1>1, <1>2, BrokerAssumption, CapNat DEF EntryType
<1>4. wbuf.len \in 0..Cap /\ wbuf.len + 1 \in 1..Cap /\ wbuf.arr \in 1..Len(array)
  BY <1>1, <1>2, EntryTyped, BrokerAssumption, CapNat
<1>5. Replaced(array', array, wbuf.arr, wbuf.len + 1, [rec |-> accepted + 1, left |-> Size])
  BY <1>1, <1>2, <1>3, <1>4, SetEntry
<1>6. wbuf' \in [arr : Nat, len : 0..Cap] /\ wbuf'.arr = wbuf.arr /\ wbuf'.len = wbuf.len + 1
  <2> DEFINE n == wbuf.len + 1
  <2>1. n \in 0..Cap /\ wbuf' = [wbuf EXCEPT !.len = n]
    BY <1>1, <1>4, BrokerAssumption, CapNat
  <2> HIDE DEF n
  <2>2. wbuf' \in [arr : Nat, len : 0..Cap] /\ wbuf'.arr = wbuf.arr /\ wbuf'.len = n
    BY <1>2, <2>1
  <2>3. QED
    BY <2>2 DEF n
<1>7. flushing' \in BOOLEAN
  BY <1>1
<1>8. ASSUME ~flushing', BufSize # 0 PROVE wbuf'.len < BufSize
  <2>1. wbuf'.len # BufSize
    BY <1>1, <1>8, Zenon
  <2>2. QED
    BY <1>4, <1>6, <1>8, <2>1, BrokerAssumption, CapNat
<1>9. QED
  BY <1>1, <1>2, <1>3, <1>4, <1>5, <1>6, <1>7, <1>8

LEMMA FlushEffect ==
    ASSUME TypeInv, Flush
    PROVE  /\ flushing' = FALSE /\ rbuf' = wbuf
           /\ array' \in Seq(ArrayType) /\ Len(array') = Len(array) + 1
           /\ \A a \in 1..Len(array) : array'[a] = array[a]
           /\ array'[Len(array) + 1] = Empty
           /\ wbuf' = [arr |-> Len(array) + 1, len |-> 0]
           /\ parts' \in Seq(SUBSET Conn) /\ Len(parts') = Len(parts) + 1
           /\ \A a \in 1..Len(array) : parts'[a] = parts[a]
           /\ pc' \in [Conn -> PcType]
           /\ \A c \in Conn : pc'[c] = IF pc[c] = "waiting" THEN "woken" ELSE pc[c]
           /\ UNCHANGED <<accepted, buf, got, collided>>
<1>1. /\ flushing' = FALSE /\ rbuf' = wbuf /\ array' = Append(array, Empty)
      /\ wbuf' = [arr |-> Len(array) + 1, len |-> 0] /\ parts' = Append(parts, {})
      /\ pc' = [c \in Conn |-> IF pc[c] = "waiting" THEN "woken" ELSE pc[c]]
      /\ UNCHANGED <<accepted, buf, got, collided>>
  BY DEF Flush, Publish, NewBuffer
<1>2. array \in Seq(ArrayType) /\ parts \in Seq(SUBSET Conn) /\ Len(parts) = Len(array)
      /\ pc \in [Conn -> PcType]
  BY DEF TypeInv
<1>3. /\ array' \in Seq(ArrayType) /\ Len(array') = Len(array) + 1
      /\ \A a \in 1..Len(array) : array'[a] = array[a]
      /\ array'[Len(array) + 1] = Empty
  BY <1>1, <1>2, EmptyType
<1>4. /\ parts' \in Seq(SUBSET Conn) /\ Len(parts') = Len(parts) + 1
      /\ \A a \in 1..Len(array) : parts'[a] = parts[a]
  BY <1>1, <1>2
<1>5. pc' \in [Conn -> PcType]
  BY <1>1, <1>2 DEF PcType
<1>6. QED
  BY <1>1, <1>3, <1>4, <1>5

LEMMA TypeNext ==
    ASSUME TypeInv, [Next]_vars
    PROVE  TypeInv'
<1>1. /\ accepted \in 0..MaxRec
      /\ array \in Seq(ArrayType) /\ wbuf.arr = Len(array) /\ rbuf.arr < Len(array)
      /\ wbuf \in [arr : Nat, len : 0..Cap] /\ rbuf \in [arr : Nat, len : 0..Cap]
      /\ flushing \in BOOLEAN /\ (~flushing /\ BufSize # 0 => wbuf.len < BufSize)
      /\ wbuf.len <= accepted
      /\ pc \in [Conn -> PcType] /\ buf \in [Conn -> SliceType] /\ got \in [Conn -> Seq(Pair)]
      /\ parts \in Seq(SUBSET Conn) /\ Len(parts) = Len(array)
      /\ collided \subseteq 1..Len(array)
      /\ \A c \in Conn : SliceBounds(c)
  BY DEF TypeInv
<1>2. CASE Broadcast
  <2>1. /\ accepted' \in 0..MaxRec /\ array' \in Seq(ArrayType) /\ Len(array') = Len(array)
        /\ wbuf' \in [arr : Nat, len : 0..Cap] /\ wbuf'.arr = wbuf.arr
        /\ flushing' \in BOOLEAN /\ (~flushing' /\ BufSize # 0 => wbuf'.len < BufSize)
        /\ wbuf'.len <= accepted'
        /\ UNCHANGED <<rbuf, pc, buf, got, parts, collided>>
    BY <1>2, BroadcastEffect DEF Replaced
  <2>2. \A c \in Conn : SliceBounds(c)'
    BY <1>1, <2>1 DEF SliceBounds, Working
  <2>3. QED
    BY <1>1, <2>1, <2>2 DEF TypeInv
<1>3. CASE TimerFlush
  <2>1. flushing' = TRUE /\ UNCHANGED <<accepted, array, wbuf, rbuf, pc, buf, got, parts, collided>>
    BY <1>3 DEF TimerFlush
  <2>2. \A c \in Conn : SliceBounds(c)'
    BY <1>1, <2>1 DEF SliceBounds, Working
  <2>3. QED
    BY <1>1, <2>1, <2>2 DEF TypeInv
<1>4. CASE Flush
  <2>1. /\ flushing' = FALSE /\ rbuf' = wbuf
        /\ array' \in Seq(ArrayType) /\ Len(array') = Len(array) + 1
        /\ wbuf' = [arr |-> Len(array) + 1, len |-> 0]
        /\ parts' \in Seq(SUBSET Conn) /\ Len(parts') = Len(parts) + 1
        /\ pc' \in [Conn -> PcType]
        /\ \A c \in Conn : pc'[c] = IF pc[c] = "waiting" THEN "woken" ELSE pc[c]
        /\ UNCHANGED <<accepted, buf, got, collided>>
    BY <1>4, FlushEffect
  <2>2. Len(array) \in Nat \ {0} /\ rbuf.arr \in Nat
    BY EntryTyped
  <2>3. ASSUME NEW c \in Conn PROVE SliceBounds(c)'
    <3>1. SliceBounds(c) /\ buf'[c] = buf[c] /\ rbuf'.arr = Len(array)
          /\ pc'[c] = IF pc[c] = "waiting" THEN "woken" ELSE pc[c]
      BY <1>1, <2>1
    <3>2. QED
      BY <1>1, <2>2, <3>1 DEF SliceBounds, Working
  <2>4. wbuf' \in [arr : Nat, len : 0..Cap] /\ wbuf'.arr = Len(array')
        /\ (BufSize # 0 => wbuf'.len < BufSize) /\ wbuf'.len <= accepted'
    BY <1>1, <2>1, <2>2, BrokerAssumption, CapNat
  <2>5. rbuf' \in [arr : Nat, len : 0..Cap] /\ rbuf'.arr < Len(array')
        /\ collided' \subseteq 1..Len(array')
    BY <1>1, <2>1, <2>2
  <2>6. QED
    BY <1>1, <2>1, <2>3, <2>4, <2>5 DEF TypeInv
<1>5. ASSUME NEW c \in Conn, Moves(c),
             got' \in [Conn -> Seq(Pair)],
             array' \in Seq(ArrayType), Len(array') = Len(array),
             parts' \in Seq(SUBSET Conn), Len(parts') = Len(parts),
             collided' \subseteq 1..Len(array)
      PROVE  TypeInv'
  <2>1. /\ UNCHANGED <<accepted, wbuf, rbuf, flushing>>
        /\ pc' \in [Conn -> PcType] /\ buf' \in [Conn -> SliceType]
    BY <1>5 DEF Moves, writers
  <2>2. ASSUME NEW d \in Conn PROVE SliceBounds(d)'
    <3>1. CASE d = c
      BY <1>5, <3>1 DEF Moves
    <3>2. CASE d # c
      BY <1>1, <1>5, <2>1, <3>2 DEF Moves, SliceBounds, Working
    <3>3. QED
      BY <3>1, <3>2
  <2>3. QED
    BY <1>1, <1>5, <2>1, <2>2 DEF TypeInv
<1>6. ASSUME NEW c \in Conn, Handle(c) PROVE TypeInv'
  <2>1. CASE Wait(c)
    BY <1>1, <1>5, <2>1, WaitEffect
  <2>2. CASE Copy(c)
    BY <1>1, <1>5, <2>2, CopyEffect
  <2>3. CASE Gather(c)
    BY <1>1, <1>5, <2>3, GatherEffect
  <2>4. CASE NothingLeft(c) \/ WriteError(c) \/ Written(c)
    <3>1. PICK p \in {"idle", "closed"} : Return(c, p)
      BY <2>4 DEF NothingLeft, WriteError, Written
    <3>2. Moves(c) /\ UNCHANGED <<array, got, parts, collided>>
      BY <3>1, ReturnEffect
    <3>3. QED
      BY <1>1, <1>5, <3>2
  <2>5. CASE Writev(c)
    <3>1. /\ Moves(c) /\ got' \in [Conn -> Seq(Pair)]
          /\ parts' \in Seq(SUBSET Conn) /\ Len(parts') = Len(parts)
          /\ UNCHANGED <<array, collided>>
      BY <2>5, WritevEffect
    <3>2. QED
      BY <1>1, <1>5, <3>1
  <2>6. CASE Load(c)
    BY <1>1, <1>5, <2>6, LoadEffect
  <2>7. CASE Shift(c)
    <3>1. Moves(c) /\ Leaves(c, 0) /\ UNCHANGED <<got, parts>>
      BY <2>7, ShiftEffect
    <3>2. QED
      BY <1>1, <1>5, <3>1 DEF Leaves
  <2>8. CASE Trim(c)
    <3>1. Moves(c) /\ Leaves(c, buf[c].ln0 - buf[c].n) /\ UNCHANGED <<got, parts>>
      BY <2>8, TrimEffect
    <3>2. QED
      BY <1>1, <1>5, <3>1 DEF Leaves
  <2>9. QED
    BY <1>6, <2>1, <2>2, <2>3, <2>4, <2>5, <2>6, <2>7, <2>8 DEF Handle
<1>7. CASE UNCHANGED vars
  <2>1. UNCHANGED <<accepted, array, wbuf, rbuf, flushing, pc, buf, got, parts, collided>>
    BY <1>7 DEF vars, writers
  <2>2. \A c \in Conn : SliceBounds(c)'
    BY <1>1, <2>1 DEF SliceBounds, Working
  <2>3. QED
    BY <1>1, <2>1, <2>2 DEF TypeInv
<1>8. QED
  BY <1>2, <1>3, <1>4, <1>6, <1>7 DEF Next

(* The arrays, the buffers and the slices keep their bounds for any number *)
(* of records and connections; with a BufSize, the buffer that fills is    *)
(* never longer than it when Broadcast or a tick tests it (broker.go:96),  *)
(* and without one it holds at most what was broadcast.                    *)
THEOREM TypeCorrect == Spec => []TypeOK
<1>1. TypeInv => TypeOK
  <2> SUFFICES ASSUME TypeInv PROVE TypeOK
    OBVIOUS
  <2>1. /\ rbuf.arr \in 0..Len(array) /\ wbuf.len \in 0..Cap /\ rbuf.len \in 0..Cap
        /\ DOMAIN array = 1..Len(array)
    BY EntryTyped
  <2>2. QED
    BY <2>1 DEF TypeInv, TypeOK, ArrayType, EntryType, PcType
<1>2. QED
  BY <1>1, TypeInit, TypeNext, PTL DEF Spec

-----------------------------------------------------------------------------
(* What no step takes back.                                                *)

WasSent(x) == \E c \in Conn : Contains(got[c], x)

(* Arrays are added and records get higher numbers; a published array      *)
(* keeps its records, and its entries shrink unless two changed one at     *)
(* once.                                                                   *)
Grows ==
    /\ Len(array) <= Len(array') /\ accepted <= accepted' /\ rbuf.arr <= rbuf'.arr
    /\ \A a \in 1..Len(array'), i \in 1..Cap :
          \/ a \in 1..Len(array) /\ array'[a][i].rec = array[a][i].rec
          \/ array'[a][i].rec = 0
          \/ array'[a][i].rec = accepted + 1 /\ accepted' = accepted + 1
    /\ \A a \in 1..Len(array) : parts[a] \subseteq parts'[a]
    /\ \A a \in 1..rbuf.arr, i \in 1..Cap :
          /\ array'[a][i].rec = array[a][i].rec
          /\ a \notin collided' => array'[a][i].left <= array[a][i].left
    /\ collided \subseteq collided'
    /\ \A x : WasSent(x) => WasSent(x)'

LEMMA StoreGrows ==
    ASSUME TypeInv, NEW c \in Conn, NEW l \in Nat, Leaves(c, l), UNCHANGED <<writers, got, parts>>,
           l <= buf[c].ln0
    PROVE  Grows
<1>1. /\ array' \in Seq(ArrayType) /\ Len(array') = Len(array)
      /\ \A a \in 1..Len(array), i \in 1..Cap :
            /\ a # buf[c].arr \/ i # buf[c].pos => array'[a][i] = array[a][i]
            /\ array'[a][i].rec = array[a][i].rec
      /\ buf[c].arr \in 1..rbuf.arr /\ buf[c].arr \in 1..Len(array) /\ buf[c].pos \in 1..Cap
      /\ array'[buf[c].arr][buf[c].pos].left = l
      /\ collided \subseteq collided'
      /\ buf[c].arr \notin collided' => array[buf[c].arr][buf[c].pos].left = buf[c].ln0
  BY DEF Leaves
<1>2. /\ accepted' = accepted /\ rbuf' = rbuf /\ parts' = parts /\ got' = got
      /\ Len(array) \in Nat /\ rbuf.arr \in Nat /\ accepted \in Nat
      /\ \A a \in 1..rbuf.arr : a \in 1..Len(array)
      /\ \A a \in 1..Len(array), i \in 1..Cap : array[a][i].left \in Nat
  <2>1. accepted \in Nat
    BY BrokerAssumption, CapNat DEF TypeInv
  <2>2. accepted' = accepted /\ rbuf' = rbuf /\ parts' = parts /\ got' = got
    BY DEF writers
  <2>3. \A l1 \in 0..Size : l1 \in Nat
    BY BrokerAssumption, CapNat
  <2>4. QED
    BY <2>1, <2>2, <2>3, EntryTyped
<1>3. ASSUME NEW a \in 1..rbuf.arr, NEW i \in 1..Cap, a \notin collided'
      PROVE  array'[a][i].left <= array[a][i].left
  <2>1. a \in 1..Len(array)
    BY <1>2
  <2>2. CASE a = buf[c].arr /\ i = buf[c].pos
    BY <1>1, <1>3, <2>2
  <2>3. CASE a # buf[c].arr \/ i # buf[c].pos
    <3>1. array'[a][i] = array[a][i] /\ array[a][i].left \in Nat
      BY <1>1, <1>2, <2>1, <2>3
    <3>2. QED
      BY <3>1
  <2>4. QED
    BY <2>2, <2>3
<1>4. \A x : WasSent(x) => WasSent(x)'
  BY <1>2 DEF WasSent
<1>5. QED
  BY <1>1, <1>2, <1>3, <1>4 DEF Grows

LEMMA GrowsStep ==
    ASSUME TypeInv, [Next]_vars
    PROVE  Grows
<1>1. /\ Len(array) \in Nat \ {0} /\ rbuf.arr \in Nat /\ rbuf.arr < Len(array) /\ accepted \in Nat
      /\ \A a \in 1..rbuf.arr : a \in 1..Len(array) /\ a # Len(array)
      /\ \A a \in 1..Len(array), i \in 1..Cap : array[a][i].left \in Nat
      /\ DOMAIN parts = 1..Len(array)
  BY EntryTyped, BrokerAssumption, CapNat DEF TypeInv
<1>2. ASSUME UNCHANGED <<accepted, array, rbuf, parts, collided>>, \A x : WasSent(x) => WasSent(x)'
      PROVE  Grows
  BY <1>1, <1>2 DEF Grows
<1>3. ASSUME UNCHANGED <<accepted, array, rbuf, got, parts, collided>> PROVE Grows
  <2>1. \A x : WasSent(x) => WasSent(x)'
    BY <1>3 DEF WasSent
  <2>2. QED
    BY <1>2, <1>3, <2>1
<1>4. CASE Broadcast
  <2>1. /\ accepted' = accepted + 1
        /\ Replaced(array', array, Len(array), wbuf.len + 1, [rec |-> accepted + 1, left |-> Size])
        /\ UNCHANGED <<rbuf, got, parts, collided>>
    BY <1>4, BroadcastEffect
  <2>2. /\ Len(array') = Len(array)
        /\ array'[Len(array)][wbuf.len + 1].rec = accepted + 1
        /\ \A a \in 1..Len(array), i \in 1..Cap :
              a # Len(array) \/ i # wbuf.len + 1 => array'[a][i] = array[a][i]
    BY <2>1 DEF Replaced
  <2>3. \A a \in 1..rbuf.arr, i \in 1..Cap : array'[a][i] = array[a][i]
    BY <1>1, <2>2
  <2>4. \A a \in 1..Len(array'), i \in 1..Cap :
          \/ a \in 1..Len(array) /\ array'[a][i].rec = array[a][i].rec
          \/ array'[a][i].rec = accepted + 1 /\ accepted' = accepted + 1
    BY <2>1, <2>2
  <2>5. \A x : WasSent(x) => WasSent(x)'
    BY <2>1 DEF WasSent
  <2>6. QED
    BY <1>1, <2>1, <2>2, <2>3, <2>4, <2>5 DEF Grows
<1>5. CASE TimerFlush
  BY <1>3, <1>5 DEF TimerFlush
<1>6. CASE Flush
  <2>1. /\ rbuf' = wbuf /\ Len(array') = Len(array) + 1 /\ wbuf.arr = Len(array)
        /\ \A a \in 1..Len(array) : array'[a] = array[a] /\ parts'[a] = parts[a]
        /\ array'[Len(array) + 1] = Empty
        /\ UNCHANGED <<accepted, got, collided>>
    BY <1>6, FlushEffect, EntryTyped
  <2>2. \A i \in 1..Cap : Empty[i].rec = 0
    BY DEF Empty
  <2>3. ASSUME NEW a \in 1..Len(array'), NEW i \in 1..Cap
        PROVE  \/ a \in 1..Len(array) /\ array'[a][i].rec = array[a][i].rec
               \/ array'[a][i].rec = 0
    <3>1. a \in 1..Len(array) \/ a = Len(array) + 1
      BY <1>1, <2>1
    <3>2. QED
      BY <2>1, <2>2, <3>1
  <2>4. \A x : WasSent(x) => WasSent(x)'
    BY <2>1 DEF WasSent
  <2>5. Len(array) <= Len(array') /\ rbuf.arr <= rbuf'.arr /\ accepted <= accepted'
    BY <1>1, <2>1
  <2>6. \A a \in 1..rbuf.arr : parts'[a] = parts[a] /\ array'[a] = array[a]
    BY <1>1, <2>1
  <2>7. QED
    BY <1>1, <2>1, <2>3, <2>4, <2>5, <2>6 DEF Grows
<1>7. ASSUME NEW c \in Conn, Handle(c) PROVE Grows
  <2>1. CASE Wait(c)
    BY <1>3, <2>1, WaitEffect DEF Moves, writers
  <2>2. CASE Copy(c)
    BY <1>3, <2>2, CopyEffect DEF Moves, writers
  <2>3. CASE Gather(c)
    BY <1>3, <2>3, GatherEffect DEF Moves, writers
  <2>4. CASE NothingLeft(c) \/ WriteError(c) \/ Written(c)
    <3>1. PICK p \in {"idle", "closed"} : Return(c, p)
      BY <2>4 DEF NothingLeft, WriteError, Written
    <3>2. QED
      BY <1>3, <3>1 DEF Return, writers
  <2>5. CASE Writev(c)
    <3>1. /\ UNCHANGED <<accepted, rbuf, array, collided>>
          /\ \A d \in Conn \ {c} : got'[d] = got[d]
          /\ Len(got'[c]) = Len(got[c]) + buf'[c].n /\ buf'[c].n \in Nat
          /\ \A i \in 1..Len(got[c]) : got'[c][i] = got[c][i]
          /\ \A a \in 1..Len(parts) : a # buf[c].arr => parts'[a] = parts[a]
          /\ parts[buf[c].arr] \subseteq parts'[buf[c].arr]
      <4>1. /\ Moves(c) /\ UNCHANGED <<array, collided>>
            /\ \A d \in Conn \ {c} : got'[d] = got[d]
            /\ Len(got'[c]) = Len(got[c]) + buf'[c].n /\ buf'[c].n \in 1..Len(buf[c].vec)
            /\ \A i \in 1..Len(got[c]) : got'[c][i] = got[c][i]
            /\ \A a \in 1..Len(parts) : a # buf[c].arr => parts'[a] = parts[a]
            /\ parts'[buf[c].arr] = IF buf'[c].n = Len(buf[c].vec) THEN parts[buf[c].arr]
                                    ELSE parts[buf[c].arr] \cup {c}
        BY <2>5, WritevEffect
      <4>2. UNCHANGED <<accepted, rbuf>>
        BY <4>1 DEF Moves, writers
      <4>3. buf'[c].n \in Nat
        BY <4>1
      <4>4. parts[buf[c].arr] \subseteq parts'[buf[c].arr]
        BY <4>1
      <4>5. QED
        BY <4>1, <4>2, <4>3, <4>4
    <3>2. Len(got[c]) \in Nat
      BY SliceTyped
    <3>3. ASSUME NEW x, NEW d \in Conn, Contains(got[d], x) PROVE WasSent(x)'
      <4>1. CASE d = c
        <5>1. PICK i \in 1..Len(got[c]) : got[c][i] = x
          BY <3>3, <4>1 DEF Contains
        <5>2. i \in 1..Len(got'[c]) /\ got'[c][i] = x
          BY <3>1, <3>2, <5>1
        <5>3. QED
          BY <5>2 DEF WasSent, Contains
      <4>2. CASE d # c
        <5>1. Contains(got'[d], x)
          BY <3>1, <3>3, <4>2
        <5>2. QED
          BY <5>1 DEF WasSent
      <4>3. QED
        BY <4>1, <4>2
    <3>4. \A x : WasSent(x) => WasSent(x)'
      BY <3>3 DEF WasSent
    <3>5. \A a \in 1..Len(array) : parts[a] \subseteq parts'[a]
      BY <1>1, <3>1 DEF TypeInv
    <3>6. /\ Len(array) <= Len(array') /\ accepted <= accepted' /\ rbuf.arr <= rbuf'.arr
          /\ \A a \in 1..rbuf.arr, i \in 1..Cap : array'[a][i].left <= array[a][i].left
      BY <1>1, <3>1
    <3>7. /\ \A a \in 1..Len(array') : a \in 1..Len(array)
          /\ collided \subseteq collided'
      BY <3>1
    <3>8. QED
      BY <3>1, <3>4, <3>5, <3>6, <3>7 DEF Grows
  <2>6. CASE Load(c)
    BY <1>3, <2>6, LoadEffect DEF Moves, writers
  <2>7. CASE Shift(c)
    <3>1. Leaves(c, 0) /\ UNCHANGED <<writers, got, parts>> /\ 0 <= buf[c].ln0
      BY <2>7, ShiftEffect, SliceTyped DEF Moves
    <3>2. QED
      BY <3>1, StoreGrows
  <2>8. CASE Trim(c)
    <3>1. /\ Leaves(c, buf[c].ln0 - buf[c].n) /\ UNCHANGED <<writers, got, parts>>
          /\ buf[c].ln0 > buf[c].n /\ buf[c].ln0 \in 0..Size /\ buf[c].n \in Nat
      BY <2>8, TrimEffect, SliceTyped DEF Moves
    <3>2. buf[c].ln0 - buf[c].n \in Nat /\ buf[c].ln0 - buf[c].n <= buf[c].ln0
      BY <3>1, BrokerAssumption, CapNat
    <3>3. QED
      BY <3>1, <3>2, StoreGrows
  <2>9. QED
    BY <1>7, <2>1, <2>2, <2>3, <2>4, <2>5, <2>6, <2>7, <2>8 DEF Handle
<1>8. CASE UNCHANGED vars
  BY <1>3, <1>8 DEF vars, writers
<1>9. QED
  BY <1>4, <1>5, <1>6, <1>7, <1>8 DEF Next

-----------------------------------------------------------------------------
(* Where the records lie.                                                  *)

Later(a, i, b, j) == a < b \/ (a = b /\ i < j)

(* The entries of a buffer that hold a record are those up to its length.  *)
Filled(b) == \A i \in 1..Cap : array[b.arr][i].rec = 0 <=> i > b.len

RecordsInv ==
    /\ \A a \in 1..Len(array), i \in 1..Cap :
          /\ array[a][i].rec <= accepted
          /\ array[a][i].rec = 0 => array[a][i].left = 0
    /\ Filled(wbuf)
    /\ rbuf.arr >= 1 => Filled(rbuf)
    /\ \A c \in Conn : Working(c) => Filled(buf[c])
    /\ \A a, b \in 1..Len(array) : \A i, j \in 1..Cap :
          Later(a, i, b, j) /\ array[b][j].rec # 0 => array[a][i].rec < array[b][j].rec

LEMMA RecordsInit == Init => RecordsInv
<1> SUFFICES ASSUME Init PROVE RecordsInv
  OBVIOUS
<1>1. array = << Empty >> /\ accepted = 0 /\ wbuf = [arr |-> 1, len |-> 0] /\ rbuf = [arr |-> 0, len |-> 0]
      /\ \A c \in Conn : ~Working(c)
  BY DEF Init, NewBuffer, Working
<1>2. \A a \in 1..Len(array), i \in 1..Cap : array[a][i].rec = 0 /\ array[a][i].left = 0
  <2>1. \A i \in 1..Cap : Empty[i].rec = 0 /\ Empty[i].left = 0
    BY DEF Empty
  <2>2. Len(array) = 1 /\ array[1] = Empty
    BY <1>1
  <2>3. QED
    BY <2>1, <2>2
<1>3. 1 \in 1..Len(array) /\ wbuf.arr = 1 /\ wbuf.len = 0 /\ rbuf.arr = 0
  BY <1>1
<1>4. Filled(wbuf)
  BY <1>2, <1>3 DEF Filled
<1>5. QED
  BY <1>1, <1>2, <1>3, <1>4 DEF RecordsInv

(* A step that leaves the records alone.                                   *)
LEMMA RecordsKept ==
    ASSUME TypeInv, RecordsInv, UNCHANGED <<accepted, wbuf, rbuf>>, Len(array') = Len(array),
           \A a \in 1..Len(array), i \in 1..Cap :
              /\ array'[a][i].rec = array[a][i].rec
              /\ array[a][i].rec = 0 => array'[a][i].left = array[a][i].left,
           \A c \in Conn : Working(c)' =>
              \/ Working(c) /\ buf'[c].arr = buf[c].arr /\ buf'[c].len = buf[c].len
              \/ rbuf.arr >= 1 /\ buf'[c].arr = rbuf.arr /\ buf'[c].len = rbuf.len
    PROVE  RecordsInv'
<1>1. /\ wbuf.arr \in 1..Len(array) /\ rbuf.arr \in Nat /\ rbuf.arr < Len(array) /\ Len(array) \in Nat
      /\ \A c \in Conn : Working(c) => buf[c].arr \in 1..Len(array)
  BY EntryTyped, SliceTyped
<1>2. /\ \A a \in 1..Len(array), i \in 1..Cap :
            /\ array[a][i].rec <= accepted
            /\ array[a][i].rec = 0 => array[a][i].left = 0
      /\ Filled(wbuf)
      /\ rbuf.arr >= 1 => Filled(rbuf)
      /\ \A c \in Conn : Working(c) => Filled(buf[c])
      /\ \A a, b \in 1..Len(array) : \A i, j \in 1..Cap :
            Later(a, i, b, j) /\ array[b][j].rec # 0 => array[a][i].rec < array[b][j].rec
  BY DEF RecordsInv
<1>3. Filled(wbuf)'
  BY <1>1, <1>2 DEF Filled
<1>4. ASSUME rbuf.arr >= 1 PROVE Filled(rbuf)'
  BY <1>1, <1>2, <1>4 DEF Filled
<1>5. ASSUME NEW c \in Conn, Working(c)' PROVE Filled(buf[c])'
  <2>1. CASE Working(c) /\ buf'[c].arr = buf[c].arr /\ buf'[c].len = buf[c].len
    BY <1>1, <1>2, <2>1 DEF Filled
  <2>2. CASE rbuf.arr >= 1 /\ buf'[c].arr = rbuf.arr /\ buf'[c].len = rbuf.len
    BY <1>1, <1>2, <2>2 DEF Filled
  <2>3. QED
    BY <1>5, <2>1, <2>2
<1>6. \A a, b \in 1..Len(array') : \A i, j \in 1..Cap :
         Later(a, i, b, j) /\ array'[b][j].rec # 0 => array'[a][i].rec < array'[b][j].rec
  BY <1>2
<1>7. /\ \A a \in 1..Len(array'), i \in 1..Cap :
            /\ array'[a][i].rec <= accepted'
            /\ array'[a][i].rec = 0 => array'[a][i].left = 0
  BY <1>2
<1>8. QED
  BY <1>3, <1>4, <1>5, <1>6, <1>7 DEF RecordsInv, Later

LEMMA RecordsStore ==
    ASSUME TypeInv, RecordsInv, NEW c \in Conn, NEW l \in Nat, Moves(c), Leaves(c, l), Working(c),
           buf'[c].arr = buf[c].arr, buf'[c].len = buf[c].len
    PROVE  RecordsInv'
<1>1. /\ Len(array') = Len(array)
      /\ \A a \in 1..Len(array), i \in 1..Cap :
            /\ a # buf[c].arr \/ i # buf[c].pos => array'[a][i] = array[a][i]
            /\ array'[a][i].rec = array[a][i].rec
      /\ buf[c].arr \in 1..Len(array) /\ buf[c].pos \in 1..Cap /\ buf[c].pos <= buf[c].len
  BY DEF Leaves
<1>2. array[buf[c].arr][buf[c].pos].rec # 0
  <2>1. Filled(buf[c]) /\ buf[c].len \in Nat
    BY SliceTyped, BrokerAssumption, CapNat DEF RecordsInv
  <2>2. QED
    BY <1>1, <2>1 DEF Filled
<1>3. \A a \in 1..Len(array), i \in 1..Cap :
         array[a][i].rec = 0 => array'[a][i].left = array[a][i].left
  BY <1>1, <1>2
<1>4. \A d \in Conn : Working(d)' => Working(d) /\ buf'[d].arr = buf[d].arr /\ buf'[d].len = buf[d].len
  BY DEF Moves, Working
<1>5. UNCHANGED <<accepted, wbuf, rbuf>>
  BY DEF Moves, writers
<1>6. QED
  BY <1>1, <1>3, <1>4, <1>5, RecordsKept

LEMMA RecordsNext ==
    ASSUME TypeInv, RecordsInv, [Next]_vars
    PROVE  RecordsInv'
<1>1. /\ wbuf.arr = Len(array) /\ rbuf.arr \in Nat /\ rbuf.arr < Len(array) /\ Len(array) \in Nat \ {0}
      /\ wbuf.len \in 0..Cap /\ accepted \in Nat /\ Cap \in Nat
      /\ \A a \in 1..Len(array), i \in 1..Cap : array[a][i].rec \in Nat
      /\ \A c \in Conn : Working(c) => buf[c].arr \in 1..rbuf.arr
      /\ \A a \in 1..rbuf.arr : a \in 1..Len(array) /\ a # Len(array)
  <2>1. accepted \in Nat
    BY BrokerAssumption, CapNat DEF TypeInv
  <2>2. QED
    BY <2>1, EntryTyped, SliceTyped, BrokerAssumption, CapNat
<1>2. /\ \A a \in 1..Len(array), i \in 1..Cap :
            /\ array[a][i].rec <= accepted
            /\ array[a][i].rec = 0 => array[a][i].left = 0
      /\ Filled(wbuf)
      /\ rbuf.arr >= 1 => Filled(rbuf)
      /\ \A c \in Conn : Working(c) => Filled(buf[c])
      /\ \A a, b \in 1..Len(array) : \A i, j \in 1..Cap :
            Later(a, i, b, j) /\ array[b][j].rec # 0 => array[a][i].rec < array[b][j].rec
  BY DEF RecordsInv
<1>3. CASE Broadcast
  <2> DEFINE e == [rec |-> accepted + 1, left |-> Size]
  <2>0. accepted \in Nat
    BY BrokerAssumption, CapNat DEF TypeInv
  <2>1. /\ accepted' = accepted + 1 /\ wbuf.len + 1 \in 1..Cap
        /\ Replaced(array', array, Len(array), wbuf.len + 1, e)
        /\ wbuf'.arr = Len(array) /\ wbuf'.len = wbuf.len + 1
        /\ UNCHANGED <<rbuf, pc, buf>>
    BY <1>1, <1>3, BroadcastEffect
  <2>2. /\ Len(array') = Len(array)
        /\ array'[Len(array)][wbuf.len + 1].rec = accepted + 1
        /\ \A a \in 1..Len(array), i \in 1..Cap :
              a # Len(array) \/ i # wbuf.len + 1 => array'[a][i] = array[a][i]
    BY <2>1 DEF Replaced
  <2>3. \A a \in 1..rbuf.arr, i \in 1..Cap : array'[a][i] = array[a][i]
    BY <1>1, <2>2
  <2>4. Filled(wbuf)'
    <3>1. \A i \in 1..Cap : array[Len(array)][i].rec = 0 <=> i > wbuf.len
      BY <1>1, <1>2 DEF Filled
    <3>2. ASSUME NEW i \in 1..Cap PROVE array'[Len(array)][i].rec = 0 <=> i > wbuf.len + 1
      <4>1. CASE i = wbuf.len + 1
        BY <1>1, <2>2, <4>1
      <4>2. CASE i # wbuf.len + 1
        <5>1. array'[Len(array)][i] = array[Len(array)][i]
          BY <1>1, <2>2, <4>2
        <5>2. i > wbuf.len <=> i > wbuf.len + 1
          BY <1>1, <4>2
        <5>3. QED
          BY <3>1, <5>1, <5>2
      <4>3. QED
        BY <4>1, <4>2
    <3>3. QED
      BY <2>1, <3>2 DEF Filled
  <2>5. ASSUME rbuf'.arr >= 1 PROVE Filled(rbuf)'
    <3>1. Filled(rbuf) /\ rbuf' = rbuf /\ rbuf.arr \in 1..rbuf.arr
      BY <1>1, <1>2, <2>1, <2>5
    <3>2. QED
      BY <2>3, <3>1 DEF Filled
  <2>6. ASSUME NEW c \in Conn, Working(c)' PROVE Filled(buf[c])'
    <3>1. Working(c) /\ buf' = buf
      BY <2>1, <2>6 DEF Working
    <3>2. Filled(buf[c]) /\ buf[c].arr \in 1..rbuf.arr
      BY <1>1, <1>2, <3>1
    <3>3. QED
      BY <2>3, <3>1, <3>2 DEF Filled
  <2>7. \A a \in 1..Len(array'), i \in 1..Cap :
           /\ array'[a][i].rec <= accepted'
           /\ array'[a][i].rec = 0 => array'[a][i].left = 0
    <3>1. ASSUME NEW a \in 1..Len(array), NEW i \in 1..Cap
          PROVE  /\ array'[a][i].rec <= accepted + 1
                 /\ array'[a][i].rec = 0 => array'[a][i].left = 0
      <4>1. accepted \in Nat /\ array[a][i].rec \in Nat /\ array[a][i].rec <= accepted
            /\ (array[a][i].rec = 0 => array[a][i].left = 0)
        BY <1>2, <2>0, EntryTyped
      <4>2. CASE a = Len(array) /\ i = wbuf.len + 1
        <5>1. array'[a][i].rec = accepted + 1
          BY <2>2, <4>2
        <5>2. QED
          BY <4>1, <5>1
      <4>3. CASE a # Len(array) \/ i # wbuf.len + 1
        <5>1. array'[a][i] = array[a][i]
          BY <2>2, <4>3
        <5>2. QED
          BY <4>1, <5>1
      <4>4. QED
        BY <4>2, <4>3
    <3>2. QED
      BY <2>1, <2>2, <3>1
  <2>8. ASSUME NEW a \in 1..Len(array), NEW b \in 1..Len(array),
               NEW i \in 1..Cap, NEW j \in 1..Cap,
               Later(a, i, b, j), array'[b][j].rec # 0
        PROVE  array'[a][i].rec < array'[b][j].rec
    <3>1. a # b \/ i # j
      BY <2>8 DEF Later
    <3>2. CASE b = Len(array) /\ j = wbuf.len + 1
      <4>1. array'[a][i] = array[a][i]
        BY <2>2, <3>1, <3>2
      <4>2. array[a][i].rec \in Nat /\ array[a][i].rec <= accepted /\ accepted \in Nat
        BY <1>2, <2>0, EntryTyped
      <4>3. array'[b][j].rec = accepted + 1
        BY <2>2, <3>2
      <4>4. QED
        BY <4>1, <4>2, <4>3
    <3>3. CASE ~(b = Len(array) /\ j = wbuf.len + 1)
      <4>1. array'[b][j] = array[b][j]
        BY <2>2, <3>3
      <4>2. CASE a = Len(array) /\ i = wbuf.len + 1
        <5>1. b = Len(array) /\ j > wbuf.len
          BY <1>1, <2>8, <4>2 DEF Later
        <5>2. array[b][j].rec = 0
          BY <1>1, <1>2, <5>1 DEF Filled
        <5>3. QED
          BY <2>8, <4>1, <5>2
      <4>3. CASE ~(a = Len(array) /\ i = wbuf.len + 1)
        <5>1. array'[a][i] = array[a][i]
          BY <2>2, <4>3
        <5>2. QED
          BY <1>2, <2>8, <4>1, <5>1
      <4>4. QED
        BY <4>2, <4>3
    <3>4. QED
      BY <3>2, <3>3
  <2>9. QED
    BY <2>2, <2>4, <2>5, <2>6, <2>7, <2>8 DEF RecordsInv, Later
<1>4. CASE TimerFlush
  BY <1>4, RecordsKept DEF TimerFlush, Working
<1>5. CASE Flush
  <2>1. /\ rbuf' = wbuf /\ Len(array') = Len(array) + 1
        /\ \A a \in 1..Len(array) : array'[a] = array[a]
        /\ array'[Len(array) + 1] = Empty
        /\ wbuf'.arr = Len(array) + 1 /\ wbuf'.len = 0
        /\ \A c \in Conn : pc'[c] = IF pc[c] = "waiting" THEN "woken" ELSE pc[c]
        /\ UNCHANGED <<accepted, buf>>
    BY <1>5, FlushEffect
  <2>2. \A i \in 1..Cap : Empty[i].rec = 0 /\ Empty[i].left = 0
    BY DEF Empty
  <2>3. Filled(wbuf)'
    BY <2>1, <2>2 DEF Filled
  <2>4. Filled(rbuf)'
    BY <1>1, <1>2, <2>1 DEF Filled
  <2>5. ASSUME NEW c \in Conn, Working(c)' PROVE Filled(buf[c])'
    <3>1. Working(c) /\ buf'[c] = buf[c]
      BY <2>1, <2>5 DEF Working
    <3>2. QED
      BY <1>1, <1>2, <2>1, <3>1 DEF Filled
  <2>6. \A a \in 1..Len(array') : a \in 1..Len(array) \/ a = Len(array) + 1
    BY <1>1, <2>1
  <2>7. \A a \in 1..Len(array'), i \in 1..Cap :
           /\ array'[a][i].rec <= accepted'
           /\ array'[a][i].rec = 0 => array'[a][i].left = 0
    BY <1>1, <1>2, <2>1, <2>2, <2>6
  <2>8. ASSUME NEW a \in 1..Len(array'), NEW b \in 1..Len(array'),
               NEW i \in 1..Cap, NEW j \in 1..Cap,
               Later(a, i, b, j), array'[b][j].rec # 0
        PROVE  array'[a][i].rec < array'[b][j].rec
    <3>1. b \in 1..Len(array)
      BY <2>1, <2>2, <2>6, <2>8
    <3>2. a \in 1..Len(array)
      BY <1>1, <2>6, <2>8, <3>1 DEF Later
    <3>3. QED
      BY <1>2, <2>1, <2>8, <3>1, <3>2
  <2>9. QED
    BY <2>3, <2>4, <2>5, <2>7, <2>8 DEF RecordsInv, Later
<1>6. ASSUME NEW c \in Conn, Moves(c), UNCHANGED array,
             Working(c)' =>
              \/ Working(c) /\ buf'[c].arr = buf[c].arr /\ buf'[c].len = buf[c].len
              \/ rbuf.arr >= 1 /\ buf'[c].arr = rbuf.arr /\ buf'[c].len = rbuf.len
      PROVE  RecordsInv'
  <2>1. UNCHANGED <<accepted, wbuf, rbuf>>
    BY <1>6 DEF Moves, writers
  <2>2. \A d \in Conn : Working(d)' =>
              \/ Working(d) /\ buf'[d].arr = buf[d].arr /\ buf'[d].len = buf[d].len
              \/ rbuf.arr >= 1 /\ buf'[d].arr = rbuf.arr /\ buf'[d].len = rbuf.len
    BY <1>6 DEF Moves, Working
  <2>3. QED
    BY <1>6, <2>1, <2>2, RecordsKept
<1>7. ASSUME NEW c \in Conn, Handle(c) PROVE RecordsInv'
  <2>1. CASE Wait(c)
    BY <1>6, <2>1, WaitEffect DEF Working
  <2>2. CASE Copy(c)
    BY <1>6, <2>2, CopyEffect, SliceTyped DEF Working
  <2>3. CASE Gather(c)
    BY <1>6, <2>3, GatherEffect DEF Working
  <2>4. CASE NothingLeft(c) \/ WriteError(c) \/ Written(c)
    <3>1. PICK p \in {"idle", "closed"} : Return(c, p)
      BY <2>4 DEF NothingLeft, WriteError, Written
    <3>2. Moves(c) /\ pc'[c] = p /\ UNCHANGED array
      BY <3>1, ReturnEffect
    <3>3. QED
      BY <1>6, <3>2 DEF Working
  <2>5. CASE Writev(c)
    BY <1>6, <2>5, WritevEffect DEF Working
  <2>6. CASE Load(c)
    BY <1>6, <2>6, LoadEffect DEF Working
  <2>7. CASE Shift(c)
    <3>1. /\ Moves(c) /\ Leaves(c, 0) /\ Working(c)
          /\ buf'[c].arr = buf[c].arr /\ buf'[c].len = buf[c].len
      BY <2>7, ShiftEffect DEF Working
    <3>2. QED
      BY <3>1, RecordsStore
  <2>8. CASE Trim(c)
    <3>1. /\ Moves(c) /\ Leaves(c, buf[c].ln0 - buf[c].n) /\ Working(c)
          /\ buf'[c].arr = buf[c].arr /\ buf'[c].len = buf[c].len
          /\ buf[c].ln0 > buf[c].n
      BY <2>8, TrimEffect DEF Working
    <3>2. buf[c].ln0 - buf[c].n \in Nat
      BY <3>1, SliceTyped, BrokerAssumption, CapNat
    <3>3. QED
      BY <3>1, <3>2, RecordsStore
  <2>9. QED
    BY <1>7, <2>1, <2>2, <2>3, <2>4, <2>5, <2>6, <2>7, <2>8 DEF Handle
<1>8. CASE UNCHANGED vars
  BY <1>8, RecordsKept DEF vars, writers, Working
<1>9. QED
  BY <1>3, <1>4, <1>5, <1>7, <1>8 DEF Next

-----------------------------------------------------------------------------
(* The bytes a client got, and those its connection has gathered, are of   *)
(* records that precede those of the arrays it has still to see.           *)

Floor(c) ==
    IF Working(c) THEN buf[c].arr ELSE IF pc[c] = "woken" THEN rbuf.arr - 1 ELSE rbuf.arr

Passed(x, f) ==
    /\ x[1] <= accepted
    /\ \A a \in 1..Len(array), j \in 1..Cap :
          a > f /\ array[a][j].rec # 0 => x[1] < array[a][j].rec

Below(c) ==
    /\ \A i \in 1..Len(got[c]) : Passed(got[c][i], Floor(c))
    /\ \A i \in 1..Len(buf[c].vec) : Passed(buf[c].vec[i], Floor(c))

BelowInv == \A c \in Conn : Below(c)

LEMMA BelowInit == Init => BelowInv
BY DEF Init, BelowInv, Below, NoSlice

LEMMA PassedKept ==
    ASSUME TypeInv, TypeInv', Grows, NEW f \in Nat, NEW g \in Nat, f <= g, NEW x \in Pair, Passed(x, f)
    PROVE  Passed(x, g)'
<1>1. x[1] \in Nat /\ accepted \in Nat
  BY BrokerAssumption, CapNat DEF Pair, TypeInv
<1>2. accepted <= accepted'
      /\ \A a \in 1..Len(array'), i \in 1..Cap :
            \/ a \in 1..Len(array) /\ array'[a][i].rec = array[a][i].rec
            \/ array'[a][i].rec = 0
            \/ array'[a][i].rec = accepted + 1 /\ accepted' = accepted + 1
  BY DEF Grows
<1>3. x[1] <= accepted /\ \A a \in 1..Len(array), j \in 1..Cap :
            a > f /\ array[a][j].rec # 0 => x[1] < array[a][j].rec
  BY DEF Passed
<1>4. x[1] <= accepted'
  <2>1. accepted' \in Nat
    BY BrokerAssumption, CapNat DEF TypeInv
  <2>2. QED
    BY <1>1, <1>2, <1>3, <2>1
<1>5. ASSUME NEW a \in 1..Len(array'), NEW j \in 1..Cap, a > g, array'[a][j].rec # 0
      PROVE  x[1] < array'[a][j].rec
  <2>1. CASE a \in 1..Len(array) /\ array'[a][j].rec = array[a][j].rec
    <3>1. a > f
      BY <1>5, <2>1
    <3>2. QED
      BY <1>3, <1>5, <2>1, <3>1
  <2>2. CASE array'[a][j].rec = accepted + 1
    BY <1>1, <1>3, <2>2
  <2>3. QED
    BY <1>2, <1>5, <2>1, <2>2
<1>6. QED
  BY <1>4, <1>5 DEF Passed

LEMMA FloorGrows ==
    ASSUME TypeInv, [Next]_vars, NEW c \in Conn
    PROVE  Floor(c) \in Nat /\ Floor(c)' \in Nat /\ Floor(c) <= Floor(c)'
<1>1. /\ rbuf.arr \in Nat /\ rbuf.arr < Len(array) /\ Len(array) \in Nat
      /\ Working(c) => buf[c].arr \in 1..rbuf.arr
      /\ pc[c] = "woken" => rbuf.arr >= 1
  BY EntryTyped, SliceTyped
<1>2. ASSUME UNCHANGED <<rbuf, pc, buf>>
      PROVE  Floor(c) \in Nat /\ Floor(c)' \in Nat /\ Floor(c) <= Floor(c)'
  BY <1>1, <1>2 DEF Floor, Working
<1>3. CASE Flush
  <2>1. rbuf'.arr = Len(array) /\ buf' = buf
        /\ pc'[c] = IF pc[c] = "waiting" THEN "woken" ELSE pc[c]
    BY <1>3, FlushEffect, EntryTyped
  <2>2. QED
    BY <1>1, <2>1 DEF Floor, Working
<1>4. ASSUME NEW d \in Conn, Handle(d)
      PROVE  Floor(c) \in Nat /\ Floor(c)' \in Nat /\ Floor(c) <= Floor(c)'
  <2>1. ASSUME Moves(d), d # c
        PROVE  Floor(c) \in Nat /\ Floor(c)' \in Nat /\ Floor(c) <= Floor(c)'
    BY <1>1, <2>1 DEF Moves, writers, Floor, Working
  <2>2. ASSUME Moves(d), d = c, Working(c), Working(c)', buf'[c].arr = buf[c].arr
        PROVE  Floor(c) \in Nat /\ Floor(c)' \in Nat /\ Floor(c) <= Floor(c)'
    BY <1>1, <2>2 DEF Floor
  <2>3. ASSUME Moves(d), d = c, ~Working(c)', pc'[c] # "woken"
        PROVE  Floor(c) \in Nat /\ Floor(c)' \in Nat /\ Floor(c) <= Floor(c)'
    BY <1>1, <2>3 DEF Moves, writers, Floor
  <2>4. CASE Wait(d)
    BY <2>1, <2>3, <2>4, WaitEffect DEF Working
  <2>5. CASE Copy(d)
    <3>1. Moves(d) /\ pc[d] = "woken" /\ pc'[d] = "gather" /\ buf'[d].arr = rbuf.arr
      BY <2>5, CopyEffect
    <3>2. CASE d = c
      BY <1>1, <3>1, <3>2 DEF Floor, Working
    <3>3. QED
      BY <2>1, <3>1, <3>2
  <2>6. CASE Gather(d)
    BY <2>1, <2>2, <2>6, GatherEffect DEF Working
  <2>7. CASE NothingLeft(d) \/ WriteError(d) \/ Written(d)
    <3>1. PICK p \in {"idle", "closed"} : Return(d, p)
      BY <2>7 DEF NothingLeft, WriteError, Written
    <3>2. Moves(d) /\ pc'[d] = p
      BY <3>1, ReturnEffect
    <3>3. QED
      BY <2>1, <2>3, <3>2 DEF Working
  <2>8. CASE Writev(d)
    BY <2>1, <2>2, <2>8, WritevEffect DEF Working
  <2>9. CASE Load(d)
    BY <2>1, <2>2, <2>9, LoadEffect DEF Working
  <2>10. CASE Shift(d)
    BY <2>1, <2>2, <2>10, ShiftEffect DEF Working
  <2>11. CASE Trim(d)
    BY <2>1, <2>2, <2>11, TrimEffect DEF Working
  <2>12. QED
    BY <1>4, <2>4, <2>5, <2>6, <2>7, <2>8, <2>9, <2>10, <2>11 DEF Handle
<1>5. CASE Broadcast
  BY <1>2, <1>5, BroadcastEffect
<1>6. CASE TimerFlush
  BY <1>2, <1>6 DEF TimerFlush
<1>7. CASE UNCHANGED vars
  BY <1>2, <1>7 DEF vars, writers
<1>8. QED
  BY <1>3, <1>4, <1>5, <1>6, <1>7 DEF Next

(* Only Gather and Writev lengthen what a connection holds or has sent.    *)
LEMMA StreamStep ==
    ASSUME TypeInv, [Next]_vars, NEW c \in Conn
    PROVE  \/ got'[c] = got[c] /\ (buf'[c].vec = buf[c].vec \/ buf'[c].vec = <<>>)
           \/ Gather(c) \/ Writev(c)
<1>1. ASSUME NEW d \in Conn, Handle(d)
      PROVE  \/ got'[c] = got[c] /\ (buf'[c].vec = buf[c].vec \/ buf'[c].vec = <<>>)
             \/ Gather(c) \/ Writev(c)
  <2>1. Moves(d) /\ (got' = got \/ Writev(d))
    BY <1>1, WaitEffect, CopyEffect, GatherEffect, ReturnEffect, WritevEffect, LoadEffect, ShiftEffect,
       TrimEffect DEF Handle, NothingLeft, WriteError, Written
  <2>2. CASE d # c
    <3>1. buf'[c] = buf[c]
      BY <2>1, <2>2 DEF Moves
    <3>2. got'[c] = got[c]
      BY <2>1, <2>2, OthersGot
    <3>3. QED
      BY <3>1, <3>2
  <2>3. CASE d = c
    <3>1. CASE pc'[c] # "gather"
      <4>1. buf'[c].vec = <<>>
        BY <2>1, <2>3, <3>1 DEF Moves, SliceBounds
      <4>2. QED
        BY <2>1, <2>3, <4>1
    <3>2. CASE pc'[c] = "gather"
      <4>1. \/ Gather(c) \/ Writev(c) \/ buf'[c].vec = <<>>
        BY <1>1, <2>3, <3>2, WaitEffect, CopyEffect, ReturnEffect, LoadEffect, ShiftEffect,
           TrimEffect DEF Handle, NothingLeft, WriteError, Written
      <4>2. QED
        BY <2>1, <2>3, <4>1
    <3>3. QED
      BY <3>1, <3>2
  <2>4. QED
    BY <2>2, <2>3
<1>2. CASE Broadcast
  BY <1>2, BroadcastEffect
<1>3. CASE TimerFlush
  BY <1>3 DEF TimerFlush
<1>4. CASE Flush
  BY <1>4, FlushEffect
<1>5. CASE UNCHANGED vars
  BY <1>5 DEF vars
<1>6. QED
  BY <1>1, <1>2, <1>3, <1>4, <1>5 DEF Next

LEMMA BelowNext ==
    ASSUME TypeInv, RecordsInv, BelowInv, [Next]_vars
    PROVE  BelowInv'
<1> SUFFICES ASSUME NEW c \in Conn PROVE Below(c)'
  BY DEF BelowInv
<1>1. TypeInv' /\ Grows
  BY TypeNext, GrowsStep
<1>2. Floor(c) \in Nat /\ Floor(c)' \in Nat /\ Floor(c) <= Floor(c)'
  BY FloorGrows
<1>3. /\ \A i \in 1..Len(got[c]) : Passed(got[c][i], Floor(c))
      /\ \A i \in 1..Len(buf[c].vec) : Passed(buf[c].vec[i], Floor(c))
      /\ got[c] \in Seq(Pair) /\ buf[c].vec \in Seq(Pair)
  BY SliceTyped DEF BelowInv, Below
<1>4. got'[c] \in Seq(Pair) /\ buf'[c].vec \in Seq(Pair)
  BY <1>1 DEF TypeInv, SliceType
<1>5. \A i \in 1..Len(got'[c]) : Passed(got'[c][i], Floor(c))
  <2>1. CASE got'[c] = got[c]
    BY <1>3, <2>1
  <2>2. CASE Writev(c)
    <3>1. /\ Len(got'[c]) = Len(got[c]) + buf'[c].n /\ buf'[c].n \in 1..Len(buf[c].vec)
          /\ \A i \in 1..Len(got[c]) : got'[c][i] = got[c][i]
          /\ \A i \in 1..buf'[c].n : got'[c][Len(got[c]) + i] = buf[c].vec[i]
      BY <2>2, WritevEffect
    <3>2. Len(got[c]) \in Nat /\ Len(buf[c].vec) \in Nat
      BY <1>3
    <3>3. ASSUME NEW i \in 1..Len(got'[c]) PROVE Passed(got'[c][i], Floor(c))
      <4>1. CASE i <= Len(got[c])
        BY <1>3, <3>1, <3>2, <4>1
      <4>2. CASE i > Len(got[c])
        <5>1. i - Len(got[c]) \in 1..buf'[c].n /\ i = Len(got[c]) + (i - Len(got[c]))
              /\ i - Len(got[c]) \in 1..Len(buf[c].vec)
          BY SMTT(30), <3>1, <3>2, <4>2
        <5>2. QED
          BY <1>3, <3>1, <5>1
      <4>3. QED
        BY <3>1, <3>2, <4>1, <4>2
    <3>4. QED
      BY <3>3
  <2>3. CASE Gather(c)
    BY <1>3, <2>3, GatherEffect
  <2>4. QED
    BY <2>1, <2>2, <2>3, StreamStep
<1>6. \A i \in 1..Len(buf'[c].vec) : Passed(buf'[c].vec[i], Floor(c))
  <2>1. CASE buf'[c].vec = buf[c].vec
    BY <1>3, <2>1
  <2>2. CASE buf'[c].vec = <<>>
    BY <2>2
  <2>3. CASE Writev(c)
    <3>1. buf'[c].vec = <<>>
      <4>1. Moves(c) /\ pc'[c] = "consume"
        BY <2>3, WritevEffect
      <4>2. QED
        BY <4>1 DEF Moves, SliceBounds
    <3>2. QED
      BY <2>2, <3>1
  <2>4. CASE Gather(c)
    <3> DEFINE e == Entry(c, buf[c].next)
    <3>1. /\ e \in EntryType /\ buf[c].next \in 1..Cap /\ pc[c] = "gather"
          /\ ConcatIs(buf'[c].vec, buf[c].vec, Bytes(e))
      BY <2>4, GatherEffect
    <3>2. Floor(c) = buf[c].arr /\ buf[c].arr \in 1..Len(array) /\ e = array[buf[c].arr][buf[c].next]
      BY <3>1, SliceTyped DEF Floor, Working, Entry
    <3>3. e.rec <= accepted /\ \A a \in 1..Len(array), j \in 1..Cap :
             a > Floor(c) /\ array[a][j].rec # 0 => e.rec < array[a][j].rec
      BY <3>1, <3>2, EntryTyped DEF RecordsInv, Later
    <3> HIDE DEF e
    <3>4. \A i \in 1..Len(Bytes(e)) : Bytes(e)[i][1] = e.rec
      BY <3>1, BytesFacts
    <3>5. \A i \in 1..Len(Bytes(e)) : Passed(Bytes(e)[i], Floor(c))
      BY <3>3, <3>4 DEF Passed
    <3>6. ASSUME NEW i \in 1..Len(buf'[c].vec) PROVE Passed(buf'[c].vec[i], Floor(c))
      <4>1. /\ Len(buf[c].vec) \in Nat /\ Len(Bytes(e)) \in Nat
            /\ Len(buf'[c].vec) = Len(buf[c].vec) + Len(Bytes(e))
            /\ \A k \in 1..Len(buf[c].vec) : buf'[c].vec[k] = buf[c].vec[k]
            /\ \A k \in 1..Len(Bytes(e)) : buf'[c].vec[Len(buf[c].vec) + k] = Bytes(e)[k]
        BY <3>1 DEF ConcatIs
      <4>2. CASE i <= Len(buf[c].vec)
        BY <1>3, <4>1, <4>2
      <4>3. CASE i > Len(buf[c].vec)
        <5>1. i - Len(buf[c].vec) \in 1..Len(Bytes(e))
              /\ i = Len(buf[c].vec) + (i - Len(buf[c].vec))
          BY <4>1, <4>3
        <5>2. QED
          BY <3>5, <4>1, <5>1
      <4>4. QED
        BY <4>1, <4>2, <4>3
    <3>7. QED
      BY <3>6
  <2>5. QED
    BY <2>1, <2>2, <2>3, <2>4, StreamStep
<1>7. PICK f, g \in Nat : f = Floor(c) /\ g = Floor(c)' /\ f <= g
  BY <1>2
<1>8. ASSUME NEW x \in Pair, Passed(x, f)
      PROVE  /\ x[1] <= accepted'
             /\ \A a \in 1..Len(array'), j \in 1..Cap :
                   a > g /\ array'[a][j].rec # 0 => x[1] < array'[a][j].rec
  <2>1. Passed(x, g)'
    BY <1>1, <1>7, <1>8, PassedKept
  <2>2. QED
    BY <2>1 DEF Passed
<1>9. /\ \A i \in 1..Len(got'[c]) : got'[c][i] \in Pair /\ Passed(got'[c][i], f)
      /\ \A i \in 1..Len(buf'[c].vec) : buf'[c].vec[i] \in Pair /\ Passed(buf'[c].vec[i], f)
  BY <1>4, <1>5, <1>6, <1>7
<1>10. /\ \A i \in 1..Len(got'[c]) :
             /\ got'[c][i][1] <= accepted'
             /\ \A a \in 1..Len(array'), j \in 1..Cap :
                   a > g /\ array'[a][j].rec # 0 => got'[c][i][1] < array'[a][j].rec
       /\ \A i \in 1..Len(buf'[c].vec) :
             /\ buf'[c].vec[i][1] <= accepted'
             /\ \A a \in 1..Len(array'), j \in 1..Cap :
                   a > g /\ array'[a][j].rec # 0 => buf'[c].vec[i][1] < array'[a][j].rec
  BY <1>8, <1>9
<1>11. QED
  BY <1>7, <1>10 DEF Below, Passed

-----------------------------------------------------------------------------
(* One round of WriteTo, in terms of an array A, a slice b of it and the   *)
(* bytes s the client has received.                                        *)

Lt(x, y) == x[1] < y[1] \/ (x[1] = y[1] /\ x[2] < y[2])

Sorted(s) == \A i, j \in 1..Len(s) : i < j => Lt(s[i], s[j])

Precedes(s, x) == \A i \in 1..Len(s) : Lt(s[i], x)

(* All that an entry still holds is after what the client has.             *)
Behind(s, e) == \A u \in 1..Size : u + e.left > Size => Precedes(s, <<e.rec, u>>)

Offset == [1..(Cap + 1) -> Nat]

(* f[j] is the number of bytes gathered before entry j.  What the entry    *)
(* holds now is at the end of what was gathered from it, and is all of it  *)
(* if nobody else has shortened it.                                        *)
Offsets(f, A, b) ==
    /\ f[b.pos] = 0 /\ f[b.next] = Len(b.vec)
    /\ \A i, j \in b.pos..b.next : i <= j => f[i] <= f[j]
    /\ \A j \in b.pos..(b.next - 1) :
          /\ f[j] + A[j].left <= f[j + 1]
          /\ \A u \in 1..Size :
                u + A[j].left > Size => b.vec[f[j + 1] + u - Size] = <<A[j].rec, u>>

ExactOffsets(f, A, b) == \A j \in b.pos..(b.next - 1) : f[j] + A[j].left = f[j + 1]

GatheredInOrder(A, b, s) ==
    /\ Sorted(b.vec)
    /\ \A i \in 1..Len(b.vec) : Precedes(s, b.vec[i])
    /\ \A j \in b.next..b.len :
          Behind(s, A[j]) /\ \A i \in 1..Len(b.vec) : b.vec[i][1] < A[j].rec

(* g[j] is the number of bytes that were written and will be removed from  *)
(* entry j and those after it, if nobody else has shortened them.          *)
Counts(g, A, b, s) ==
    /\ g[b.pos] <= b.n
    /\ \A i, j \in b.pos..(b.len + 1) : i <= j => g[j] <= g[i]
    /\ \A j \in b.pos..b.len :
          /\ g[j] < g[j + 1] + A[j].left => g[j + 1] = 0
          /\ \A u \in 1..Size :
                u + A[j].left + g[j + 1] > Size + g[j] => Precedes(s, <<A[j].rec, u>>)

ExactCounts(g, A, b, s) ==
    /\ g[b.pos] = b.n
    /\ \A j \in b.pos..b.len :
          /\ g[j] <= g[j + 1] + A[j].left
          /\ \A u \in 1..Size :
                u + A[j].left > Size /\ u + A[j].left + g[j + 1] <= Size + g[j] =>
                   \E i \in 1..Len(s) : s[i] = <<A[j].rec, u>>

Bounded(b) ==
    /\ b.len \in 0..Cap
    /\ b.pos \in 1..(b.len + 1) /\ b.next \in b.pos..(b.len + 1)
    /\ b.vec \in Seq(Pair)

LEMMA EntryNumbers ==
    ASSUME NEW A \in ArrayType, NEW j \in 1..Cap
    PROVE  A[j] \in EntryType /\ A[j].rec \in Nat /\ A[j].left \in Nat /\ A[j].left <= Size
<1>1. A[j] \in EntryType
  BY DEF ArrayType
<1>2. QED
  BY <1>1, BrokerAssumption, CapNat DEF EntryType

(* What k bytes leave for those that begin at offset f.                    *)
Rest(k, f) == IF k > f THEN k - f ELSE 0

LEMMA RestFacts ==
    \A k, f \in Nat : Rest(k, f) \in Nat /\ k <= f + Rest(k, f) /\ (f = 0 => Rest(k, f) = k)
BY DEF Rest

LEMMA RestOrder ==
    ASSUME NEW k \in Nat, NEW f \in Nat, NEW f1 \in Nat, f <= f1
    PROVE  Rest(k, f1) <= Rest(k, f)
BY DEF Rest

LEMMA RestStep ==
    ASSUME NEW k \in Nat, NEW f \in Nat, NEW f1 \in Nat, NEW l \in Nat, f + l <= f1
    PROVE  /\ Rest(k, f) < Rest(k, f1) + l => Rest(k, f1) = 0
           /\ f + l = f1 => Rest(k, f) <= Rest(k, f1) + l
BY DEF Rest

LEMMA RestByte ==
    ASSUME NEW k \in Nat, NEW f \in Nat, NEW f1 \in Nat, NEW l \in 0..Size, NEW u \in 1..Size,
           f + l <= f1
    PROVE  /\ u + l + Rest(k, f1) > Size + Rest(k, f) =>
                 f1 + u - Size \in Nat \ {0} /\ f1 + u - Size > k /\ f1 + u - Size <= f1 /\ u + l > Size
           /\ f + l = f1 /\ u + l > Size /\ u + l + Rest(k, f1) <= Size + Rest(k, f) =>
                 f1 + u - Size \in 1..k
BY BrokerAssumption, CapNat DEF Rest

(* writev takes k bytes.                                                   *)
LEMMA WritevCounts ==
    ASSUME NEW A \in ArrayType, NEW b, NEW b2, NEW s \in Seq(Pair), NEW t \in Seq(Pair),
           Bounded(b), b.next = b.len + 1, NEW k \in 1..Len(b.vec),
           b2.pos = b.pos, b2.len = b.len, b2.n = k,
           Len(t) = Len(s) + k, \A i \in 1..Len(s) : t[i] = s[i], \A i \in 1..k : t[Len(s) + i] = b.vec[i],
           GatheredInOrder(A, b, s), NEW f \in Offset, Offsets(f, A, b)
    PROVE  \E g \in Offset : Counts(g, A, b2, t) /\ (ExactOffsets(f, A, b) => ExactCounts(g, A, b2, t))
<1> DEFINE g == [j \in 1..(Cap + 1) |-> Rest(k, f[j])]
<1>1. b.vec \in Seq(Pair) /\ b.len \in 0..Cap /\ b.pos \in 1..(b.len + 1)
  BY DEF Bounded
<1>0. /\ b.len \in 0..Cap /\ b.pos \in 1..(b.len + 1) /\ b.pos \in Nat \ {0} /\ b.len \in Nat
       /\ k \in Nat \ {0} /\ k <= Len(b.vec) /\ Len(b.vec) \in Nat /\ Len(s) \in Nat
       /\ Cap \in Nat /\ Size \in Nat
  BY <1>1, BrokerAssumption, CapNat
<1>2. \A j \in 1..(Cap + 1) : f[j] \in Nat /\ g[j] = Rest(k, f[j])
  BY DEF Offset
<1>3. g \in Offset
  BY <1>0, <1>2, RestFacts DEF Offset
<1>4. \A j \in b.pos..(b.len + 1) : j \in 1..(Cap + 1) /\ f[j] \in Nat /\ g[j] \in Nat
      /\ g[j] = Rest(k, f[j])
  <2> HIDE DEF g
  <2>1. \A j \in b.pos..(b.len + 1) : j \in 1..(Cap + 1)
    BY <1>0
  <2>2. \A j \in 1..(Cap + 1) : g[j] \in Nat
    BY <1>3 DEF Offset
  <2>3. QED
    BY <1>2, <2>1, <2>2
<1> HIDE DEF g
<1>5. /\ f[b.pos] = 0 /\ f[b.len + 1] = Len(b.vec)
      /\ \A i, j \in b.pos..(b.len + 1) : i <= j => f[i] <= f[j]
      /\ \A j \in b.pos..b.len :
            /\ f[j] + A[j].left <= f[j + 1]
            /\ \A u \in 1..Size :
                u + A[j].left > Size => b.vec[f[j + 1] + u - Size] = <<A[j].rec, u>>
  <2>1. b.next = b.len + 1 /\ b.next - 1 = b.len
    BY <1>0
  <2>2. QED
    BY <2>1 DEF Offsets
<1>6. ASSUME NEW j \in b.pos..b.len
      PROVE  /\ f[j] \in Nat /\ f[j + 1] \in Nat /\ g[j] \in Nat /\ g[j + 1] \in Nat
             /\ g[j] = Rest(k, f[j])
             /\ g[j + 1] = Rest(k, f[j + 1])
             /\ A[j].left \in Nat /\ A[j].left <= Size /\ A[j].rec \in Nat
             /\ f[j] + A[j].left <= f[j + 1] /\ f[j + 1] <= Len(b.vec)
  <2>1. j \in b.pos..(b.len + 1) /\ j + 1 \in b.pos..(b.len + 1) /\ j \in 1..Cap
        /\ b.len + 1 \in b.pos..(b.len + 1) /\ j + 1 <= b.len + 1
    BY <1>0
  <2>2. A[j].left \in Nat /\ A[j].left <= Size /\ A[j].rec \in Nat
    BY <2>1, EntryNumbers
  <2>3. f[j + 1] <= Len(b.vec)
    BY <1>5, <2>1
  <2>4. QED
    BY <1>4, <1>5, <2>1, <2>2, <2>3
<1>7. ASSUME NEW i \in b.pos..(b.len + 1), NEW j \in b.pos..(b.len + 1), i <= j PROVE g[j] <= g[i]
  <2>1. f[i] \in Nat /\ f[j] \in Nat /\ f[i] <= f[j] /\ k \in Nat
        /\ g[i] = Rest(k, f[i])
        /\ g[j] = Rest(k, f[j])
    BY <1>0, <1>4, <1>5, <1>7
  <2>2. Rest(k, f[j]) <= Rest(k, f[i])
    BY <2>1, RestOrder
  <2>3. QED
    BY <2>1, <2>2
<1>8. g[b.pos] = k
  <2>1. b.pos \in b.pos..(b.len + 1)
    BY <1>0
  <2>2. g[b.pos] = Rest(k, f[b.pos]) /\ f[b.pos] = 0 /\ k \in Nat \ {0}
    BY <1>0, <1>4, <1>5, <2>1
  <2>3. QED
    BY <2>2 DEF Rest
<1>9. ASSUME NEW j \in b.pos..b.len, g[j] < g[j + 1] + A[j].left PROVE g[j + 1] = 0
  <2>1. /\ f[j] \in Nat /\ f[j + 1] \in Nat /\ g[j] \in Nat /\ g[j + 1] \in Nat
        /\ g[j] = Rest(k, f[j])
        /\ g[j + 1] = Rest(k, f[j + 1])
        /\ A[j].left \in Nat /\ f[j] + A[j].left <= f[j + 1] /\ k \in Nat
    BY <1>0, <1>6
  <2>2. Rest(k, f[j]) < Rest(k, f[j + 1]) + A[j].left
    BY <1>9, <2>1
  <2>3. Rest(k, f[j + 1]) = 0
    BY <2>1, <2>2, RestStep
  <2>4. QED
    BY <2>1, <2>3
<1>10. ASSUME NEW p \in 1..Len(b.vec), p > k PROVE Precedes(t, b.vec[p])
  <2>1. /\ \A i, j \in 1..Len(b.vec) : i < j => Lt(b.vec[i], b.vec[j])
        /\ \A i \in 1..Len(s) : Lt(s[i], b.vec[p])
    BY DEF GatheredInOrder, Sorted, Precedes
  <2>2. ASSUME NEW i \in 1..Len(t) PROVE Lt(t[i], b.vec[p])
    <3>1. CASE i <= Len(s)
      BY <1>0, <2>1, <3>1
    <3>2. CASE i > Len(s)
      <4>1. PICK m \in 1..k : i = Len(s) + m
        <5>1. i - Len(s) \in 1..k /\ i = Len(s) + (i - Len(s))
          BY <1>0, <3>2
        <5>2. QED
          BY <5>1
      <4>2. t[i] = b.vec[m] /\ m \in 1..Len(b.vec) /\ m < p
        BY <1>0, <1>10, <4>1
      <4>3. QED
        BY <2>1, <4>2
    <3>3. QED
      BY <1>0, <3>1, <3>2
  <2>3. QED
    BY <2>2 DEF Precedes
<1>11. ASSUME NEW j \in b.pos..b.len, NEW u \in 1..Size, u + A[j].left + g[j + 1] > Size + g[j]
       PROVE  Precedes(t, <<A[j].rec, u>>)
  <2>1. /\ f[j] \in Nat /\ f[j + 1] \in Nat /\ k \in Nat
        /\ g[j] = Rest(k, f[j]) /\ g[j + 1] = Rest(k, f[j + 1])
        /\ f[j] + A[j].left <= f[j + 1] /\ f[j + 1] <= Len(b.vec) /\ Len(b.vec) \in Nat
        /\ A[j].left \in 0..Size
    BY <1>0, <1>6
  <2>2. u + A[j].left + Rest(k, f[j + 1]) > Size + Rest(k, f[j])
    BY <1>11, <2>1
  <2>3. PICK p : p = f[j + 1] + u - Size
    OBVIOUS
  <2>4. p \in Nat \ {0} /\ p > k /\ p <= f[j + 1] /\ u + A[j].left > Size
    BY <2>1, <2>2, <2>3, RestByte
  <2>5. p \in 1..Len(b.vec)
    BY <2>1, <2>4
  <2>6. Precedes(t, b.vec[p])
    BY <1>10, <2>4, <2>5
  <2>7. b.vec[p] = <<A[j].rec, u>>
    BY <1>5, <2>3, <2>4
  <2>8. QED
    BY <2>6, <2>7
<1>12. Counts(g, A, b2, t)
  BY <1>0, <1>7, <1>8, <1>9, <1>11 DEF Counts
<1>13. ASSUME ExactOffsets(f, A, b) PROVE ExactCounts(g, A, b2, t)
  <2>1. \A j \in b.pos..b.len : f[j] + A[j].left = f[j + 1]
    <3>1. b.next - 1 = b.len
      BY <1>0
    <3>2. QED
      BY <1>13, <3>1 DEF ExactOffsets
  <2>2. ASSUME NEW j \in b.pos..b.len PROVE g[j] <= g[j + 1] + A[j].left
    <3>1. /\ f[j] \in Nat /\ f[j + 1] \in Nat /\ g[j] \in Nat /\ g[j + 1] \in Nat
          /\ g[j] = Rest(k, f[j])
          /\ g[j + 1] = Rest(k, f[j + 1])
          /\ A[j].left \in Nat /\ f[j] + A[j].left = f[j + 1] /\ k \in Nat
      BY <1>0, <1>6, <2>1
    <3>0. f[j] + A[j].left <= f[j + 1]
      BY <3>1
    <3>2. Rest(k, f[j]) <= Rest(k, f[j + 1]) + A[j].left
      BY <3>1, <3>0, RestStep
    <3>3. QED
      BY <3>1, <3>2
  <2>3. ASSUME NEW j \in b.pos..b.len, NEW u \in 1..Size,
               u + A[j].left > Size, u + A[j].left + g[j + 1] <= Size + g[j]
        PROVE  \E i \in 1..Len(t) : t[i] = <<A[j].rec, u>>
    <3>1. /\ f[j] \in Nat /\ f[j + 1] \in Nat /\ k \in Nat
          /\ g[j] = Rest(k, f[j]) /\ g[j + 1] = Rest(k, f[j + 1])
          /\ A[j].left \in 0..Size /\ f[j] + A[j].left = f[j + 1] /\ f[j] + A[j].left <= f[j + 1]
      BY <1>0, <1>6, <2>1
    <3>2. u + A[j].left > Size /\ u + A[j].left + Rest(k, f[j + 1]) <= Size + Rest(k, f[j])
      BY <2>3, <3>1
    <3>3. f[j + 1] + u - Size \in 1..k
      BY <3>1, <3>2, RestByte
    <3>4. b.vec[f[j + 1] + u - Size] = <<A[j].rec, u>>
      BY <1>5, <2>3
    <3>5. PICK m \in 1..k : m = f[j + 1] + u - Size
      BY <3>3
    <3>6. t[Len(s) + m] = <<A[j].rec, u>>
      BY <3>4, <3>5
    <3>8. Len(s) + m \in 1..Len(t)
      <4>1. Len(s) \in Nat /\ Len(t) = Len(s) + k /\ k \in Nat
        BY <1>0
      <4>2. QED
        BY <4>1
    <3>7. QED
      BY <3>6, <3>8
  <2>4. QED
    BY <1>8, <2>2, <2>3 DEF ExactCounts
<1>14. QED
  BY <1>3, <1>12, <1>13

(* Entry next is gathered.                                                 *)
LEMMA GatherOffsets ==
    ASSUME NEW A \in ArrayType, NEW b, NEW b2, NEW s \in Seq(Pair),
           Bounded(b), b.next <= b.len,
           b2.pos = b.pos, b2.len = b.len, b2.next = b.next + 1,
           ConcatIs(b2.vec, b.vec, Bytes(A[b.next])),
           \A i, j \in b.next..b.len : i < j => A[i].rec < A[j].rec,
           GatheredInOrder(A, b, s), NEW f \in Offset, Offsets(f, A, b)
    PROVE  /\ GatheredInOrder(A, b2, s)
           /\ \E h \in Offset : Offsets(h, A, b2) /\ (ExactOffsets(f, A, b) => ExactOffsets(h, A, b2))
<1> DEFINE e == A[b.next]
           h == [f EXCEPT ![b.next + 1] = Len(b.vec) + e.left]
<1>0. b.vec \in Seq(Pair)
  BY DEF Bounded
<1>1. /\ b.len \in 0..Cap /\ b.pos \in 1..(b.len + 1) /\ b.pos \in Nat \ {0} /\ b.len \in Nat
      /\ b.next \in b.pos..b.len /\ b.next \in 1..Cap /\ b.next \in Nat
      /\ Len(b.vec) \in Nat
      /\ Cap \in Nat /\ Size \in Nat
  BY <1>0, BrokerAssumption, CapNat DEF Bounded
<1>2. e \in EntryType /\ e.rec \in Nat /\ e.left \in Nat /\ e.left <= Size
  BY <1>1, EntryNumbers
<1>3. /\ Len(b2.vec) = Len(b.vec) + e.left /\ b2.vec \in Seq(Pair)
      /\ \A i \in 1..Len(b.vec) : b2.vec[i] = b.vec[i]
      /\ \A i \in 1..e.left : b2.vec[Len(b.vec) + i] = <<e.rec, Size - e.left + i>>
  <2>1. Len(Bytes(e)) = e.left /\ \A i \in 1..e.left : Bytes(e)[i] = <<e.rec, Size - e.left + i>>
    BY <1>2, BytesFacts
  <2>2. ConcatIs(b2.vec, b.vec, Bytes(e))
    OBVIOUS
  <2> HIDE DEF e
  <2>3. QED
    BY <2>1, <2>2 DEF ConcatIs
<1>4. /\ Sorted(b.vec)
      /\ \A i \in 1..Len(b.vec) : Precedes(s, b.vec[i])
      /\ \A j \in b.next..b.len :
            Behind(s, A[j]) /\ \A i \in 1..Len(b.vec) : b.vec[i][1] < A[j].rec
  BY DEF GatheredInOrder
<1>5. Behind(s, e) /\ \A i \in 1..Len(b.vec) : b.vec[i][1] < e.rec
  <2>1. b.next \in b.next..b.len
    BY <1>1
  <2> HIDE DEF e
  <2>2. e = A[b.next]
    BY DEF e
  <2>3. QED
    BY <1>4, <2>1, <2>2
<1>6. Behind(s, e)
  BY <1>5
<1>7. \A j \in (b.next + 1)..b.len : e.rec < A[j].rec /\ j \in b.next..b.len
  BY <1>1
<1> HIDE DEF e
<1>8. ASSUME NEW i \in 1..Len(b2.vec)
      PROVE  \/ i \in 1..Len(b.vec) /\ b2.vec[i] = b.vec[i]
             \/ \E m \in 1..e.left : i = Len(b.vec) + m /\ b2.vec[i] = <<e.rec, Size - e.left + m>>
  <2>1. CASE i <= Len(b.vec)
    BY <1>1, <1>3, <2>1
  <2>2. CASE i > Len(b.vec)
    <3>1. i - Len(b.vec) \in 1..e.left /\ i = Len(b.vec) + (i - Len(b.vec))
      BY SMTT(30), <1>1, <1>2, <1>3, <2>2
    <3>2. QED
      BY <1>3, <3>1
  <2>3. i \in Nat
    BY <1>1, <1>2, <1>3
  <2>4. i <= Len(b.vec) \/ i > Len(b.vec)
    BY <1>1, <2>3
  <2>5. QED
    BY <2>1, <2>2, <2>4
<1>9. Sorted(b2.vec)
  <2>1. ASSUME NEW i \in 1..Len(b2.vec), NEW j \in 1..Len(b2.vec), i < j
        PROVE  Lt(b2.vec[i], b2.vec[j])
    <3>1. CASE j \in 1..Len(b.vec)
      <4>1. i \in 1..Len(b.vec)
        BY <1>1, <2>1, <3>1
      <4>2. QED
        BY <1>3, <1>4, <2>1, <3>1, <4>1 DEF Sorted
    <3>2. CASE j \notin 1..Len(b.vec)
      <4>1. PICK m \in 1..e.left : j = Len(b.vec) + m /\ b2.vec[j] = <<e.rec, Size - e.left + m>>
        BY <1>8, <3>2
      <4>2. CASE i \in 1..Len(b.vec)
        BY <1>3, <1>5, <4>1, <4>2 DEF Lt
      <4>3. CASE i \notin 1..Len(b.vec)
        <5>1. PICK q \in 1..e.left : i = Len(b.vec) + q /\ b2.vec[i] = <<e.rec, Size - e.left + q>>
          BY <1>8, <4>3
        <5>2. Size - e.left + q < Size - e.left + m
          BY <1>1, <1>2, <2>1, <4>1, <5>1
        <5>3. QED
          BY <4>1, <5>1, <5>2 DEF Lt
      <4>4. QED
        BY <4>2, <4>3
    <3>3. QED
      BY <3>1, <3>2
  <2>2. QED
    BY <2>1 DEF Sorted
<1>10. ASSUME NEW i \in 1..Len(b2.vec) PROVE Precedes(s, b2.vec[i])
  <2>1. CASE i \in 1..Len(b.vec)
    BY <1>3, <1>4, <2>1
  <2>2. CASE i \notin 1..Len(b.vec)
    <3>1. PICK m \in 1..e.left : b2.vec[i] = <<e.rec, Size - e.left + m>>
      BY <1>8, <2>2
    <3>2. PICK u : u = Size - e.left + m
      OBVIOUS
    <3>3. u \in 1..Size /\ u + e.left > Size
      <4>1. Size \in Nat /\ e.left \in Nat /\ e.left <= Size
        BY <1>1, <1>2
      <4>2. QED
        BY <3>2, <4>1
    <3>4. QED
      BY <1>6, <3>1, <3>2, <3>3 DEF Behind
  <2>3. QED
    BY <2>1, <2>2
<1>11. ASSUME NEW j \in b2.next..b2.len
       PROVE  Behind(s, A[j]) /\ \A i \in 1..Len(b2.vec) : b2.vec[i][1] < A[j].rec
  <2>1. e.rec < A[j].rec /\ j \in b.next..b.len
    BY <1>7
  <2>2. ASSUME NEW i \in 1..Len(b2.vec) PROVE b2.vec[i][1] < A[j].rec
    BY SMTT(30), <1>4, <1>8, <2>1
  <2>3. QED
    BY <1>4, <2>1, <2>2
<1>12. GatheredInOrder(A, b2, s)
  BY <1>9, <1>10, <1>11 DEF GatheredInOrder
<1>13. /\ f[b.pos] = 0 /\ f[b.next] = Len(b.vec)
       /\ \A i, j \in b.pos..b.next : i <= j => f[i] <= f[j]
       /\ \A j \in b.pos..(b.next - 1) :
             /\ f[j] + A[j].left <= f[j + 1]
             /\ \A u \in 1..Size :
                   u + A[j].left > Size => b.vec[f[j + 1] + u - Size] = <<A[j].rec, u>>
  BY DEF Offsets
<1>14. h \in Offset
  <2>1. Len(b.vec) + e.left \in Nat
    BY <1>1, <1>2
  <2>2. QED
    BY <2>1 DEF Offset
<1>15. /\ h[b.next + 1] = Len(b2.vec)
       /\ \A j \in b.pos..b.next : h[j] = f[j] /\ f[j] \in Nat
  <2>1. b.next + 1 \in 1..(Cap + 1)
    BY <1>1
  <2>2. \A j \in b.pos..b.next : j \in 1..(Cap + 1) /\ j # b.next + 1
    BY <1>1
  <2>3. f \in [1..(Cap + 1) -> Nat]
    BY DEF Offset
  <2>4. Len(b2.vec) = Len(b.vec) + e.left
    BY <1>3
  <2>5. QED
    BY <2>1, <2>2, <2>3, <2>4
<1> HIDE DEF h
<1>16. \A j \in b.pos..(b.next - 1) : j \in b.pos..b.next /\ j + 1 \in b.pos..b.next
                                      /\ A[j].left \in Nat /\ A[j].left <= Size
  BY <1>1, EntryNumbers
<1>17. h[b2.pos] = 0 /\ h[b2.next] = Len(b2.vec)
  <2>1. b.pos \in b.pos..b.next
    BY <1>1
  <2>2. b2.pos = b.pos /\ b2.next = b.next + 1
    OBVIOUS
  <2>3. QED
    BY <1>13, <1>15, <2>1, <2>2
<1>18. ASSUME NEW i \in b2.pos..b2.next, NEW j \in b2.pos..b2.next, i <= j PROVE h[i] <= h[j]
  <2>1. CASE j \in b.pos..b.next
    <3>1. i \in b.pos..b.next
      BY <1>1, <1>18, <2>1
    <3>2. QED
      BY <1>13, <1>15, <1>18, <2>1, <3>1
  <2>2. CASE i \in b.pos..b.next /\ j = b.next + 1
    <3>1. f[i] <= f[b.next] /\ f[i] \in Nat
      BY <1>1, <1>13, <1>15, <2>2
    <3>2. QED
      BY <1>1, <1>2, <1>3, <1>13, <1>15, <2>2, <3>1
  <2>3. CASE i = b.next + 1 /\ j = b.next + 1
    BY <1>1, <1>2, <1>3, <1>15, <2>3
  <2>4. QED
    BY <1>1, <1>18, <2>1, <2>2, <2>3
<1>19. \A j \in b2.pos..(b2.next - 1) : j \in b.pos..(b.next - 1) \/ j = b.next
  BY <1>1
<1>20. ASSUME NEW j \in b2.pos..(b2.next - 1)
       PROVE  /\ h[j] + A[j].left <= h[j + 1]
              /\ \A u \in 1..Size :
                    u + A[j].left > Size => b2.vec[h[j + 1] + u - Size] = <<A[j].rec, u>>
  <2>1. CASE j \in b.pos..(b.next - 1)
    <3>1. h[j] = f[j] /\ h[j + 1] = f[j + 1] /\ f[j] \in Nat /\ f[j + 1] \in Nat
      BY <1>15, <1>16, <2>1
    <3>2. f[j] + A[j].left <= f[j + 1] /\ f[j + 1] <= Len(b.vec)
      BY <1>1, <1>13, <1>16, <2>1
    <3>3. ASSUME NEW u \in 1..Size, u + A[j].left > Size
          PROVE  b2.vec[f[j + 1] + u - Size] = <<A[j].rec, u>>
      <4>1. f[j + 1] + u - Size \in 1..Len(b.vec)
        <5>1. A[j].left \in Nat /\ A[j].left <= Size /\ Size \in Nat /\ Len(b.vec) \in Nat
          BY <1>1, <1>16, <2>1
        <5>2. QED
          BY SMTT(30), <3>1, <3>2, <3>3, <5>1
      <4>2. QED
        BY <1>3, <1>13, <2>1, <3>3, <4>1
    <3>4. QED
      BY <3>1, <3>2, <3>3
  <2>2. CASE j = b.next
    <3>1. h[j] = Len(b.vec) /\ h[j + 1] = Len(b.vec) + e.left /\ A[j] = e
      BY <1>1, <1>3, <1>13, <1>15, <2>2 DEF e
    <3>2. ASSUME NEW u \in 1..Size, u + e.left > Size
          PROVE  b2.vec[Len(b.vec) + e.left + u - Size] = <<e.rec, u>>
      <4>1. PICK m : m = u + e.left - Size
        OBVIOUS
      <4>2. m \in 1..e.left /\ Size - e.left + m = u /\ Len(b.vec) + e.left + u - Size = Len(b.vec) + m
        <5>1. PICK l \in Nat, n \in Nat : l = e.left /\ n = Len(b.vec)
          BY <1>1, <1>2
        <5>2. Size \in Nat /\ l <= Size /\ u + l > Size /\ m = u + l - Size
          BY <1>1, <1>2, <3>2, <4>1, <5>1
        <5>3. m \in 1..l /\ Size - l + m = u /\ n + l + u - Size = n + m
          BY <5>2
        <5>4. QED
          BY <5>1, <5>3
      <4>3. b2.vec[Len(b.vec) + m] = <<e.rec, Size - e.left + m>>
        BY <1>3, <4>2
      <4>4. QED
        BY <4>2, <4>3
    <3>3. Len(b.vec) + e.left <= Len(b.vec) + e.left
      BY <1>1, <1>2
    <3>4. QED
      BY <3>1, <3>2, <3>3
  <2>3. QED
    BY <1>19, <2>1, <2>2
<1>21. Offsets(h, A, b2)
  BY <1>17, <1>18, <1>20 DEF Offsets
<1>22. ASSUME ExactOffsets(f, A, b) PROVE ExactOffsets(h, A, b2)
  <2>1. ASSUME NEW j \in b2.pos..(b2.next - 1) PROVE h[j] + A[j].left = h[j + 1]
    <3>1. CASE j \in b.pos..(b.next - 1)
      BY <1>15, <1>16, <1>22, <3>1 DEF ExactOffsets
    <3>2. CASE j = b.next
      BY <1>1, <1>3, <1>13, <1>15, <3>2 DEF e
    <3>3. QED
      BY <1>19, <3>1, <3>2
  <2>2. QED
    BY <2>1 DEF ExactOffsets
<1>23. QED
  BY <1>12, <1>14, <1>21, <1>22

(* The first entry was written to its end.                                 *)
LEMMA ShiftCounts ==
    ASSUME NEW A \in ArrayType, NEW A2 \in ArrayType, NEW b, NEW b2, NEW s,
           b.len \in 0..Cap, b.pos \in 1..b.len, b.n \in Nat,
           \A j \in 1..Cap : j # b.pos => A2[j] = A[j],
           A[b.pos].left <= b.n, b2.pos = b.pos + 1, b2.len = b.len, b2.n = b.n - A[b.pos].left,
           NEW g \in Offset, Counts(g, A, b, s)
    PROVE  Counts(g, A2, b2, s) /\ (ExactCounts(g, A, b, s) => ExactCounts(g, A2, b2, s))
<1> DEFINE l == A[b.pos].left
<1>1. b.len \in Nat /\ b.pos \in Nat \ {0} /\ Cap \in Nat /\ b.len <= Cap /\ b.pos <= b.len
  BY BrokerAssumption, CapNat
<1>2. b.pos \in b.pos..b.len /\ b.pos \in 1..Cap /\ b.pos + 1 \in 1..(Cap + 1)
  BY <1>1
<1>3. /\ l \in Nat /\ l <= b.n /\ b.n \in Nat /\ b2.n = b.n - l
      /\ g[b.pos] \in Nat /\ g[b.pos + 1] \in Nat
  <2>1. A[b.pos].left \in Nat
    BY <1>2, EntryNumbers
  <2>2. g[b.pos] \in Nat /\ g[b.pos + 1] \in Nat
    BY <1>1, <1>2 DEF Offset
  <2>3. QED
    BY <2>1, <2>2
<1> HIDE DEF l
<1>4. /\ \A j \in (b.pos + 1)..b.len : j \in b.pos..b.len /\ A2[j] = A[j]
      /\ \A j \in (b.pos + 1)..(b.len + 1) : j \in b.pos..(b.len + 1)
  BY <1>1
<1>5. /\ g[b.pos] <= b.n
      /\ \A i, j \in b.pos..(b.len + 1) : i <= j => g[j] <= g[i]
      /\ \A j \in b.pos..b.len :
            /\ g[j] < g[j + 1] + A[j].left => g[j + 1] = 0
            /\ \A u \in 1..Size :
                  u + A[j].left + g[j + 1] > Size + g[j] => Precedes(s, <<A[j].rec, u>>)
  BY DEF Counts
<1>6. g[b.pos] < g[b.pos + 1] + l => g[b.pos + 1] = 0
  BY <1>2, <1>5 DEF l
<1>7. g[b.pos + 1] <= b2.n
  BY <1>3, <1>5, <1>6
<1>8. Counts(g, A2, b2, s)
  BY <1>4, <1>5, <1>7 DEF Counts
<1>9. ASSUME ExactCounts(g, A, b, s) PROVE ExactCounts(g, A2, b2, s)
  <2>1. /\ g[b.pos] = b.n
        /\ \A j \in b.pos..b.len :
              /\ g[j] <= g[j + 1] + A[j].left
              /\ \A u \in 1..Size :
                    u + A[j].left > Size /\ u + A[j].left + g[j + 1] <= Size + g[j] =>
                       \E i \in 1..Len(s) : s[i] = <<A[j].rec, u>>
    BY <1>9 DEF ExactCounts
  <2>2. g[b.pos] <= g[b.pos + 1] + l
    BY <1>2, <2>1 DEF l
  <2>3. g[b.pos + 1] = b2.n
    BY <1>3, <1>7, <2>1, <2>2
  <2>4. QED
    BY <1>4, <2>1, <2>3 DEF ExactCounts
<1>10. QED
  BY <1>8, <1>9

(* All its bytes were sent.                                                *)
LEMMA ShiftSent ==
    ASSUME NEW A \in ArrayType, NEW b, NEW s,
           b.len \in 0..Cap, b.pos \in 1..b.len, b.n \in Nat, A[b.pos].left <= b.n,
           NEW g \in Offset, Counts(g, A, b, s), ExactCounts(g, A, b, s),
           NEW u \in 1..Size, u + A[b.pos].left > Size
    PROVE  \E i \in 1..Len(s) : s[i] = <<A[b.pos].rec, u>>
<1>1. b.len \in Nat /\ b.pos \in Nat \ {0} /\ Cap \in Nat /\ b.len <= Cap /\ b.pos <= b.len
      /\ Size \in Nat
  BY BrokerAssumption, CapNat
<1>2. b.pos \in b.pos..b.len /\ b.pos \in 1..Cap /\ b.pos + 1 \in 1..(Cap + 1)
      /\ b.pos \in 1..(Cap + 1)
  BY <1>1
<1>3. g[b.pos] \in Nat /\ g[b.pos + 1] \in Nat
  BY <1>2 DEF Offset
<1>4. A[b.pos].left \in Nat
  BY <1>2, EntryNumbers
<1>5. /\ g[b.pos] < g[b.pos + 1] + A[b.pos].left => g[b.pos + 1] = 0
      /\ g[b.pos] = b.n
  BY <1>2 DEF Counts, ExactCounts
<1>6. g[b.pos + 1] + A[b.pos].left <= g[b.pos]
  BY <1>3, <1>4, <1>5
<1>7. u + A[b.pos].left + g[b.pos + 1] <= Size + g[b.pos]
  BY <1>1, <1>3, <1>4, <1>6
<1>8. QED
  BY <1>2, <1>7 DEF ExactCounts

(* What it holds after b.n bytes of it was not sent, and what it loses was.*)
(* s holds the bytes of the entry e that e2, with fewer left, counts as    *)
(* written.                                                                *)
HasWritten(s, e, e2) ==
    \A u \in 1..Size : u + e.left > Size /\ ~(u + e2.left > Size) =>
        \E i \in 1..Len(s) : s[i] = <<e.rec, u>>

LEMMA TrimBehind ==
    ASSUME NEW A \in ArrayType, NEW A2 \in ArrayType, NEW b, NEW s,
           b.len \in 0..Cap, b.pos \in 1..b.len, b.n \in Nat,
           \A j \in 1..Cap : j # b.pos => A2[j] = A[j],
           A2[b.pos].rec = A[b.pos].rec, b.n < A[b.pos].left, A2[b.pos].left = A[b.pos].left - b.n,
           NEW g \in Offset, Counts(g, A, b, s)
    PROVE  /\ \A j \in b.pos..b.len : Behind(s, A2[j])
           /\ ExactCounts(g, A, b, s) => HasWritten(s, A[b.pos], A2[b.pos])
<1>1. b.len \in Nat /\ b.pos \in Nat \ {0} /\ Cap \in Nat /\ b.len <= Cap /\ b.pos <= b.len
      /\ Size \in Nat /\ b.n \in Nat
  BY BrokerAssumption, CapNat
<1>2. b.pos \in b.pos..b.len /\ b.pos \in 1..Cap /\ b.pos + 1 \in 1..(Cap + 1)
      /\ b.pos \in 1..(Cap + 1)
  BY <1>1
<1>3. A[b.pos].left \in Nat
  BY <1>2, EntryNumbers
<1>4. /\ g[b.pos] <= b.n
      /\ \A i, j \in b.pos..(b.len + 1) : i <= j => g[j] <= g[i]
      /\ \A j \in b.pos..b.len :
            /\ g[j] < g[j + 1] + A[j].left => g[j + 1] = 0
            /\ \A u \in 1..Size :
                  u + A[j].left + g[j + 1] > Size + g[j] => Precedes(s, <<A[j].rec, u>>)
  BY DEF Counts
<1>5. \A j \in b.pos..(b.len + 1) : j \in 1..(Cap + 1) /\ g[j] \in Nat
  <2>1. \A j \in b.pos..(b.len + 1) : j \in 1..(Cap + 1)
    BY <1>1
  <2>2. QED
    BY <2>1 DEF Offset
<1>6. g[b.pos] \in Nat /\ g[b.pos + 1] \in Nat
  BY <1>2 DEF Offset
<1>7. g[b.pos + 1] = 0
  <2>1. g[b.pos] < g[b.pos + 1] + A[b.pos].left
    BY <1>1, <1>3, <1>4, <1>6
  <2>2. QED
    BY <1>2, <1>4, <2>1
<1>8. \A j \in (b.pos + 1)..(b.len + 1) : g[j] = 0
  <2>1. SUFFICES ASSUME NEW j \in (b.pos + 1)..(b.len + 1) PROVE g[j] = 0
    OBVIOUS
  <2>2. j \in b.pos..(b.len + 1) /\ b.pos + 1 \in b.pos..(b.len + 1) /\ b.pos + 1 <= j
    BY <1>1
  <2>3. g[j] <= g[b.pos + 1] /\ g[j] \in Nat
    BY <1>4, <1>5, <2>2
  <2>4. QED
    BY <1>7, <2>3
<1>9. Behind(s, A2[b.pos])
  <2>1. ASSUME NEW u \in 1..Size, u + A2[b.pos].left > Size PROVE Precedes(s, <<A[b.pos].rec, u>>)
    <3>1. u + A[b.pos].left + g[b.pos + 1] > Size + g[b.pos]
      BY <1>1, <1>3, <1>4, <1>6, <1>7, <2>1
    <3>2. QED
      BY <1>2, <1>4, <3>1
  <2>2. QED
    BY <2>1 DEF Behind
<1>10. ASSUME NEW j \in (b.pos + 1)..b.len PROVE Behind(s, A2[j])
  <2>1. j \in b.pos..b.len /\ j \in (b.pos + 1)..(b.len + 1) /\ j + 1 \in (b.pos + 1)..(b.len + 1)
        /\ j \in 1..Cap /\ j # b.pos
    BY <1>1
  <2>2. g[j] = 0 /\ g[j + 1] = 0 /\ A2[j] = A[j] /\ A[j].left \in Nat
    BY <1>8, <2>1, EntryNumbers
  <2>3. ASSUME NEW u \in 1..Size, u + A[j].left > Size PROVE Precedes(s, <<A[j].rec, u>>)
    <3>1. u + A[j].left + g[j + 1] > Size + g[j]
      BY <1>1, <2>2, <2>3
    <3>2. QED
      BY <1>4, <2>1, <3>1
  <2>4. QED
    BY <2>2, <2>3 DEF Behind
<1>11. \A j \in b.pos..b.len : j = b.pos \/ j \in (b.pos + 1)..b.len
  BY <1>1
<1>12. ASSUME ExactCounts(g, A, b, s), NEW u \in 1..Size,
              u + A[b.pos].left > Size, ~(u + A2[b.pos].left > Size)
       PROVE  \E i \in 1..Len(s) : s[i] = <<A[b.pos].rec, u>>
  <2>1. /\ g[b.pos] = b.n
        /\ \A v \in 1..Size :
              v + A[b.pos].left > Size /\ v + A[b.pos].left + g[b.pos + 1] <= Size + g[b.pos] =>
                 \E i \in 1..Len(s) : s[i] = <<A[b.pos].rec, v>>
    BY <1>2, <1>12 DEF ExactCounts
  <2>2. u + A[b.pos].left + g[b.pos + 1] <= Size + g[b.pos]
    BY <1>1, <1>3, <1>6, <1>7, <1>12, <2>1
  <2>3. QED
    BY <1>12, <2>1, <2>2
<1>13. ExactCounts(g, A, b, s) => HasWritten(s, A[b.pos], A2[b.pos])
  BY <1>12 DEF HasWritten
<1>14. QED
  BY <1>9, <1>10, <1>11, <1>13

(* Somebody else has shortened entries.                                    *)
Shrunk(A2, A) == \A j \in 1..Cap : A2[j].rec = A[j].rec /\ A2[j].left <= A[j].left

LEMMA ShrunkGather ==
    ASSUME NEW A \in ArrayType, NEW A2 \in ArrayType, Shrunk(A2, A), NEW b, NEW s, Bounded(b),
           GatheredInOrder(A, b, s), NEW f \in Offset, Offsets(f, A, b)
    PROVE  GatheredInOrder(A2, b, s) /\ Offsets(f, A2, b)
<1>0. b.len \in 0..Cap /\ b.pos \in 1..(b.len + 1) /\ b.next \in b.pos..(b.len + 1)
  BY DEF Bounded
<1>1. /\ b.len \in Nat /\ b.len <= Cap /\ b.pos \in Nat \ {0} /\ b.next \in Nat
      /\ b.next >= b.pos /\ b.next <= b.len + 1 /\ Cap \in Nat /\ Size \in Nat
  BY <1>0, BrokerAssumption, CapNat
<1>2. ASSUME NEW j \in 1..Cap
      PROVE  /\ A2[j].rec = A[j].rec /\ A2[j].left <= A[j].left
             /\ A2[j].left \in Nat /\ A[j].left \in Nat
             /\ \A u \in 1..Size : u + A2[j].left > Size => u + A[j].left > Size
  <2>1. /\ A2[j].rec = A[j].rec /\ A2[j].left <= A[j].left
        /\ A2[j].left \in Nat /\ A[j].left \in Nat
    BY EntryNumbers DEF Shrunk
  <2>2. QED
    BY <1>1, <2>1
<1>3. \A j \in b.next..b.len : j \in 1..Cap
  BY <1>1
<1>4. \A j \in b.pos..(b.next - 1) : j \in 1..Cap /\ j + 1 \in 1..(Cap + 1) /\ j \in 1..(Cap + 1)
  BY <1>1
<1>5. GatheredInOrder(A2, b, s)
  <2>1. /\ Sorted(b.vec)
        /\ \A i \in 1..Len(b.vec) : Precedes(s, b.vec[i])
        /\ \A j \in b.next..b.len :
              Behind(s, A[j]) /\ \A i \in 1..Len(b.vec) : b.vec[i][1] < A[j].rec
    BY DEF GatheredInOrder
  <2>2. \A j \in b.next..b.len :
              Behind(s, A2[j]) /\ \A i \in 1..Len(b.vec) : b.vec[i][1] < A2[j].rec
    BY <1>2, <1>3, <2>1 DEF Behind
  <2>3. QED
    BY <2>1, <2>2 DEF GatheredInOrder
<1>6. Offsets(f, A2, b)
  <2>1. /\ f[b.pos] = 0 /\ f[b.next] = Len(b.vec)
        /\ \A i, j \in b.pos..b.next : i <= j => f[i] <= f[j]
        /\ \A j \in b.pos..(b.next - 1) :
              /\ f[j] + A[j].left <= f[j + 1]
              /\ \A u \in 1..Size :
                    u + A[j].left > Size => b.vec[f[j + 1] + u - Size] = <<A[j].rec, u>>
    BY DEF Offsets
  <2>2. ASSUME NEW j \in b.pos..(b.next - 1)
        PROVE  /\ f[j] + A2[j].left <= f[j + 1]
               /\ \A u \in 1..Size :
                     u + A2[j].left > Size => b.vec[f[j + 1] + u - Size] = <<A2[j].rec, u>>
    <3>1. f[j] \in Nat /\ f[j + 1] \in Nat
      BY <1>4 DEF Offset
    <3>2. /\ A2[j].rec = A[j].rec /\ A2[j].left <= A[j].left
          /\ A2[j].left \in Nat /\ A[j].left \in Nat
          /\ \A u \in 1..Size : u + A2[j].left > Size => u + A[j].left > Size
      BY <1>2, <1>4
    <3>3. f[j] + A[j].left <= f[j + 1]
      BY <2>1
    <3>4. f[j] + A2[j].left <= f[j + 1]
      BY <3>1, <3>2, <3>3
    <3>5. QED
      BY <2>1, <3>2, <3>4
  <2>3. QED
    BY <2>1, <2>2 DEF Offsets
<1>7. QED
  BY <1>5, <1>6

LEMMA ShrunkCounts ==
    ASSUME NEW A \in ArrayType, NEW A2 \in ArrayType, Shrunk(A2, A), NEW b, NEW s, Bounded(b),
           NEW g \in Offset, Counts(g, A, b, s)
    PROVE  Counts(g, A2, b, s)
<1>0. b.len \in 0..Cap /\ b.pos \in 1..(b.len + 1)
  BY DEF Bounded
<1>1. /\ b.len \in Nat /\ b.len <= Cap /\ b.pos \in Nat \ {0} /\ Cap \in Nat /\ Size \in Nat
  BY <1>0, BrokerAssumption, CapNat
<1>2. \A j \in b.pos..b.len : j \in 1..Cap /\ j + 1 \in 1..(Cap + 1) /\ j \in 1..(Cap + 1)
  BY <1>1
<1>3. /\ g[b.pos] <= b.n
      /\ \A i, j \in b.pos..(b.len + 1) : i <= j => g[j] <= g[i]
      /\ \A j \in b.pos..b.len :
            /\ g[j] < g[j + 1] + A[j].left => g[j + 1] = 0
            /\ \A u \in 1..Size :
                  u + A[j].left + g[j + 1] > Size + g[j] => Precedes(s, <<A[j].rec, u>>)
  BY DEF Counts
<1>4. ASSUME NEW j \in b.pos..b.len
      PROVE  /\ g[j] < g[j + 1] + A2[j].left => g[j + 1] = 0
             /\ \A u \in 1..Size :
                   u + A2[j].left + g[j + 1] > Size + g[j] => Precedes(s, <<A2[j].rec, u>>)
  <2>1. g[j] \in Nat /\ g[j + 1] \in Nat
    BY <1>2 DEF Offset
  <2>2. /\ A2[j].rec = A[j].rec /\ A2[j].left <= A[j].left
        /\ A2[j].left \in Nat /\ A[j].left \in Nat
    BY <1>2, EntryNumbers DEF Shrunk
  <2>3. g[j] < g[j + 1] + A2[j].left => g[j] < g[j + 1] + A[j].left
    BY <2>1, <2>2
  <2>4. \A u \in 1..Size :
           u + A2[j].left + g[j + 1] > Size + g[j] => u + A[j].left + g[j + 1] > Size + g[j]
    BY <1>1, <2>1, <2>2
  <2>5. QED
    BY <1>3, <2>2, <2>3, <2>4
<1>5. QED
  BY <1>3, <1>4 DEF Counts

LEMMA ByteIndex ==
    ASSUME NEW x \in Nat, NEW y \in Nat, NEW l \in Nat, NEW n \in Nat, NEW u \in 1..Size,
           x + l <= y, y <= n, u + l > Size
    PROVE  y + u - Size \in 1..n
BY BrokerAssumption, CapNat

(* A byte that an entry holds was gathered, if the entry was.              *)
LEMMA OffsetByte ==
    ASSUME NEW A \in ArrayType, NEW b, Bounded(b), NEW f \in Offset, Offsets(f, A, b),
           NEW j \in b.pos..(b.next - 1), NEW u \in 1..Size, u + A[j].left > Size
    PROVE  Contains(b.vec, <<A[j].rec, u>>)
<1>1. b.vec \in Seq(Pair) /\ b.len \in 0..Cap /\ b.pos \in 1..(b.len + 1)
      /\ b.next \in b.pos..(b.len + 1)
  BY DEF Bounded
<1>2. /\ b.len \in Nat /\ b.pos \in Nat \ {0} /\ b.next \in Nat /\ b.next <= b.len + 1
      /\ b.len <= Cap /\ Cap \in Nat /\ Size \in Nat
  BY <1>1, BrokerAssumption, CapNat
<1>3. j \in 1..Cap /\ j \in 1..(Cap + 1) /\ j + 1 \in 1..(Cap + 1)
      /\ j + 1 \in b.pos..b.next /\ b.next \in b.pos..b.next /\ j + 1 <= b.next
  BY <1>2
<1>4. f[j] \in Nat /\ f[j + 1] \in Nat /\ Len(b.vec) \in Nat /\ A[j].left \in Nat /\ A[j].left <= Size
  BY SMTT(30), <1>1, <1>3, EntryNumbers DEF Offset
<1>5. f[j] + A[j].left <= f[j + 1] /\ f[j + 1] <= Len(b.vec)
      /\ b.vec[f[j + 1] + u - Size] = <<A[j].rec, u>>
  BY <1>3 DEF Offsets
<1>6. f[j + 1] + u - Size \in 1..Len(b.vec)
  BY <1>4, <1>5, ByteIndex
<1>7. QED
  BY <1>5, <1>6 DEF Contains

LEMMA SortedConcat ==
    ASSUME NEW s \in Seq(Pair), NEW v, NEW k \in 1..Len(v), NEW t, v \in Seq(Pair),
           Sorted(s), Sorted(v), \A i \in 1..Len(v) : Precedes(s, v[i]),
           Len(t) = Len(s) + k, \A i \in 1..Len(s) : t[i] = s[i], \A i \in 1..k : t[Len(s) + i] = v[i]
    PROVE  Sorted(t)
<1>1. Len(s) \in Nat /\ Len(v) \in Nat /\ k \in Nat /\ k <= Len(v)
  OBVIOUS
<1>2. ASSUME NEW i \in 1..Len(t)
      PROVE  \/ i \in 1..Len(s) /\ t[i] = s[i]
             \/ \E m \in 1..k : i = Len(s) + m /\ t[i] = v[m]
  <2>1. CASE i <= Len(s)
    BY <1>1, <2>1
  <2>2. CASE i > Len(s)
    <3>1. i - Len(s) \in 1..k /\ i = Len(s) + (i - Len(s))
      BY <1>1, <2>2
    <3>2. QED
      BY <3>1
  <2>3. i \in Nat
    BY <1>1
  <2>4. QED
    BY <1>1, <2>1, <2>2, <2>3
<1>3. ASSUME NEW i \in 1..Len(t), NEW j \in 1..Len(t), i < j PROVE Lt(t[i], t[j])
  <2>1. CASE j \in 1..Len(s) /\ t[j] = s[j]
    <3>1. i \in 1..Len(s) /\ t[i] = s[i]
      BY <1>1, <1>3, <2>1
    <3>2. QED
      BY <1>3, <2>1, <3>1 DEF Sorted
  <2>2. CASE \E m \in 1..k : j = Len(s) + m /\ t[j] = v[m]
    <3>1. PICK m \in 1..k : j = Len(s) + m /\ t[j] = v[m]
      BY <2>2
    <3>2. m \in 1..Len(v)
      BY <1>1
    <3>3. CASE i \in 1..Len(s) /\ t[i] = s[i]
      BY <3>1, <3>2, <3>3 DEF Precedes
    <3>4. CASE \E q \in 1..k : i = Len(s) + q /\ t[i] = v[q]
      <4>1. PICK q \in 1..k : i = Len(s) + q /\ t[i] = v[q]
        BY <3>4
      <4>2. q \in 1..Len(v) /\ q < m
        BY <1>1, <1>3, <3>1, <4>1
      <4>3. QED
        BY <3>1, <3>2, <4>1, <4>2 DEF Sorted
    <3>5. QED
      BY <1>2, <3>3, <3>4
  <2>3. QED
    BY <1>2, <2>1, <2>2
<1>4. QED
  BY <1>3 DEF Sorted

-----------------------------------------------------------------------------
(* What a connection has gathered or written, and what the array of its    *)
(* slice still holds.                                                      *)

(* At most one connection wrote a part, and no two changed an entry at     *)
(* once.                                                                   *)
OneByOne(a) == a \notin collided /\ \A c, d \in parts[a] : c = d

Sent(a) ==
    \A i \in 1..Cap : array[a][i].rec # 0 => \A u \in 1..Size : WasSent(<<array[a][i].rec, u>>)

Unsent(a) == OneByOne(a) /\ ~Sent(a)

Gathering(c, a) ==
    /\ GatheredInOrder(array[a], buf[c], got[c])
    /\ \E f \in Offset :
          /\ Offsets(f, array[a], buf[c])
          /\ Unsent(a) /\ parts[a] \subseteq {c} => ExactOffsets(f, array[a], buf[c])

(* While there are records of the array that nobody has, a connection that *)
(* removes bytes from it is the only one that wrote a part of it.          *)
Consuming(c, a) ==
    /\ Unsent(a) => c \in parts[a]
    /\ \E g \in Offset :
          /\ Counts(g, array[a], buf[c], got[c])
          /\ Unsent(a) => ExactCounts(g, array[a], buf[c], got[c])

Slice(c, a) ==
    /\ \A j \in 1..(buf[c].pos - 1) : array[a][j].left = 0
    /\ pc[c] = "gather" => Gathering(c, a)
    /\ pc[c] # "gather" => Consuming(c, a)

SliceInv ==
    \A c \in Conn, a \in 1..Len(array) :
       Working(c) /\ buf[c].arr = a /\ a \notin collided => Slice(c, a)

RemovedSent(e) ==
    e.rec # 0 => \A u \in 1..Size : ~(u + e.left > Size) => WasSent(<<e.rec, u>>)

WrittenInv ==
    \A e : \A a \in 1..Len(array), i \in 1..Cap :
        e = array[a][i] /\ OneByOne(a) => RemovedSent(e)

SortInv == collided = {} => \A c \in Conn : Sorted(got[c])

LEMMA OneByOneBack ==
    ASSUME Grows, NEW a \in 1..Len(array), OneByOne(a)'
    PROVE  OneByOne(a)
BY DEF Grows, OneByOne

LEMMA UnsentBack ==
    ASSUME TypeInv, Grows, NEW a \in 1..rbuf.arr, Unsent(a)'
    PROVE  Unsent(a)
<1>1. a \in 1..Len(array) /\ OneByOne(a)' /\ ~Sent(a)'
  BY EntryTyped DEF Unsent
<1>2. OneByOne(a)
  BY <1>1, OneByOneBack
<1>3. ASSUME Sent(a) PROVE Sent(a)'
  BY <1>3 DEF Sent, Grows
<1>4. QED
  BY <1>1, <1>2, <1>3 DEF Unsent

(* The slice that a working connection has is in bounds.                   *)
LEMMA SliceBounded ==
    ASSUME TypeInv, NEW c \in Conn, Working(c)
    PROVE  /\ buf[c].len \in 0..Cap /\ buf[c].pos \in 1..(buf[c].len + 1)
           /\ buf[c].next \in 1..(buf[c].len + 1) /\ buf[c].n \in Nat
           /\ pc[c] = "gather" => Bounded(buf[c])
           /\ array[buf[c].arr] \in ArrayType /\ buf[c].arr \in 1..rbuf.arr /\ buf[c].arr \in 1..Len(array)
           /\ got[c] \in Seq(Pair) /\ buf[c].vec \in Seq(Pair)
<1>1. /\ buf[c].len \in 0..Cap /\ buf[c].pos \in Nat \ {0} /\ buf[c].next \in Nat \ {0}
      /\ buf[c].pos <= buf[c].len + 1 /\ buf[c].next <= buf[c].len + 1
      /\ buf[c].vec \in Seq(Pair) /\ buf[c].n \in Nat /\ got[c] \in Seq(Pair)
      /\ buf[c].arr \in 1..rbuf.arr /\ buf[c].arr \in 1..Len(array)
      /\ pc[c] = "gather" => buf[c].pos <= buf[c].next
  BY SliceTyped
<1>2. array[buf[c].arr] \in ArrayType
  BY <1>1, EntryTyped
<1>3. buf[c].pos \in 1..(buf[c].len + 1) /\ buf[c].next \in 1..(buf[c].len + 1)
  BY <1>1, BrokerAssumption, CapNat
<1>4. ASSUME pc[c] = "gather" PROVE Bounded(buf[c])
  <2>1. buf[c].next \in buf[c].pos..(buf[c].len + 1)
    BY <1>1, <1>4, BrokerAssumption, CapNat
  <2>2. QED
    BY <1>1, <1>3, <2>1 DEF Bounded
<1>5. QED
  BY <1>1, <1>2, <1>3, <1>4

(* A step of another connection, or of a writer.                           *)
LEMMA SliceStable ==
    ASSUME TypeInv, TypeInv', Grows, NEW c \in Conn, NEW a, Working(c), buf[c].arr = a, a \notin collided',
           Slice(c, a), buf'[c] = buf[c], pc'[c] = pc[c], got'[c] = got[c],
           Unsent(a)' /\ (pc[c] = "gather" => parts'[a] \subseteq {c}) => array'[a] = array[a]
    PROVE  Slice(c, a)'
<1>1. /\ a \in 1..rbuf.arr /\ a \in 1..Len(array) /\ array[a] \in ArrayType
      /\ buf[c].len \in 0..Cap /\ buf[c].pos \in 1..(buf[c].len + 1)
      /\ pc[c] = "gather" => Bounded(buf[c])
  BY SliceBounded
<1>2. array'[a] \in ArrayType
  <2>1. array' \in Seq(ArrayType) /\ Len(array) <= Len(array')
    BY DEF TypeInv, Grows
  <2>2. Len(array) \in Nat /\ Len(array') \in Nat
    BY <2>1, EntryTyped
  <2>3. a \in 1..Len(array')
    BY <1>1, <2>1, <2>2
  <2>4. QED
    BY <2>1, <2>3
<1>3. Shrunk(array'[a], array[a]) /\ parts[a] \subseteq parts'[a]
  BY <1>1 DEF Grows, Shrunk
<1>4. Unsent(a)' => Unsent(a)
  BY <1>1, UnsentBack
<1>5. \A j \in 1..(buf[c].pos - 1) : array'[a][j].left = 0
  <2>1. SUFFICES ASSUME NEW j \in 1..(buf[c].pos - 1) PROVE array'[a][j].left = 0
    OBVIOUS
  <2>2. buf[c].len \in Nat /\ buf[c].len <= Cap /\ buf[c].pos \in Nat /\ buf[c].pos <= buf[c].len + 1
        /\ Cap \in Nat
    BY <1>1, BrokerAssumption, CapNat
  <2>3. j \in 1..Cap
    BY <2>2
  <2>4. array'[a][j].left \in Nat /\ array[a][j].left = 0 /\ array'[a][j].left <= array[a][j].left
    BY <1>2, <1>3, <2>3, EntryNumbers DEF Slice, Shrunk
  <2>5. QED
    BY <2>4
<1>6. ASSUME pc[c] = "gather" PROVE Gathering(c, a)'
  <2>1. GatheredInOrder(array[a], buf[c], got[c])
    BY <1>6 DEF Slice, Gathering
  <2>2. PICK f \in Offset :
          /\ Offsets(f, array[a], buf[c])
          /\ Unsent(a) /\ parts[a] \subseteq {c} => ExactOffsets(f, array[a], buf[c])
    BY <1>6 DEF Slice, Gathering
  <2>3. GatheredInOrder(array'[a], buf[c], got[c]) /\ Offsets(f, array'[a], buf[c])
    BY <1>1, <1>2, <1>3, <1>6, <2>1, <2>2, ShrunkGather
  <2>4. ASSUME Unsent(a)', parts'[a] \subseteq {c} PROVE ExactOffsets(f, array'[a], buf[c])
    BY <1>3, <1>4, <2>2, <2>4
  <2>5. QED
    BY <2>3, <2>4 DEF Gathering
<1>7. ASSUME pc[c] # "gather" PROVE Consuming(c, a)'
  <2>1. PICK g \in Offset :
          /\ Counts(g, array[a], buf[c], got[c])
          /\ Unsent(a) => ExactCounts(g, array[a], buf[c], got[c])
    BY <1>7 DEF Slice, Consuming
  <2>2. Unsent(a) => c \in parts[a]
    BY <1>7 DEF Slice, Consuming
  <2>3. Counts(g, array'[a], buf[c], got[c])
    <3>1. PICK b : b = [pos |-> buf[c].pos, len |-> buf[c].len, next |-> buf[c].pos, vec |-> <<>>, n |-> buf[c].n]
      OBVIOUS
    <3>2. b.pos = buf[c].pos /\ b.len = buf[c].len /\ b.next = buf[c].pos /\ b.vec = <<>> /\ b.n = buf[c].n
      BY <3>1
    <3>3. Bounded(b)
      <4>1. buf[c].pos \in buf[c].pos..(buf[c].len + 1)
        BY <1>1, BrokerAssumption, CapNat
      <4>2. QED
        BY <1>1, <3>2, <4>1 DEF Bounded
    <3>4. Counts(g, array[a], b, got[c])
      BY <2>1, <3>2 DEF Counts
    <3>5. Counts(g, array'[a], b, got[c])
      BY <1>1, <1>2, <1>3, <3>3, <3>4, ShrunkCounts
    <3>6. QED
      BY <3>2, <3>5 DEF Counts
  <2>4. ASSUME Unsent(a)' PROVE c \in parts'[a] /\ ExactCounts(g, array'[a], buf[c], got[c])
    BY <1>3, <1>4, <1>7, <2>1, <2>2, <2>4
  <2>5. QED
    BY <2>3, <2>4 DEF Consuming
<1>8. QED
  BY <1>5, <1>6, <1>7 DEF Slice

LEMMA SliceCopy ==
    ASSUME TypeInv, RecordsInv, BelowInv, NEW c \in Conn, Copy(c), NEW a, buf'[c].arr = a
    PROVE  Slice(c, a)'
<1>1. /\ pc[c] = "woken" /\ pc'[c] = "gather" /\ a = rbuf.arr /\ buf'[c].len = rbuf.len
      /\ buf'[c].pos = 1 /\ buf'[c].next = 1 /\ buf'[c].vec = <<>>
      /\ array' = array /\ got' = got
  BY CopyEffect
<1>2. rbuf.arr \in 1..Len(array) /\ rbuf.arr \in Nat /\ rbuf.len \in 0..Cap /\ Cap \in Nat
  <2>1. rbuf.arr \in Nat /\ rbuf.arr < Len(array) /\ Len(array) \in Nat /\ rbuf.arr >= 1
    BY <1>1, EntryTyped, SliceTyped
  <2>2. QED
    BY <2>1, EntryTyped, BrokerAssumption, CapNat
<1>3. \A j \in 1..rbuf.len : j \in 1..Cap /\ array[a][j].rec # 0
  <2>1. Filled(rbuf)
    BY <1>2 DEF RecordsInv
  <2>2. \A j \in 1..rbuf.len : j \in 1..Cap /\ ~(j > rbuf.len)
    BY <1>2
  <2>3. QED
    BY <1>1, <2>1, <2>2 DEF Filled
<1>4. ASSUME NEW i \in 1..Len(got[c]), NEW j \in 1..rbuf.len PROVE got[c][i][1] < array[a][j].rec
  <2>1. Floor(c) = rbuf.arr - 1
    BY <1>1 DEF Floor, Working
  <2>2. Passed(got[c][i], Floor(c))
    BY DEF BelowInv, Below
  <2>3. a > Floor(c)
    BY <1>1, <1>2, <2>1
  <2>4. QED
    BY <1>1, <1>2, <1>3, <2>2, <2>3 DEF Passed
<1>5. ASSUME NEW j \in 1..rbuf.len PROVE Behind(got[c], array[a][j])
  BY <1>4 DEF Behind, Precedes, Lt
<1>6. GatheredInOrder(array'[a], buf'[c], got'[c])
  BY <1>1, <1>5 DEF GatheredInOrder, Sorted
<1>7. PICK f \in Offset : f = [j \in 1..(Cap + 1) |-> 0]
  BY DEF Offset
<1>8. 1 \in 1..(Cap + 1)
  BY <1>2
<1>9. Offsets(f, array'[a], buf'[c]) /\ ExactOffsets(f, array'[a], buf'[c])
  <2>1. f[1] = 0
    BY <1>7, <1>8
  <2>2. \A i, j \in 1..1 : f[i] <= f[j]
    BY <2>1
  <2>3. 1..(1 - 1) = {}
    OBVIOUS
  <2>4. QED
    BY <1>1, <2>1, <2>2, <2>3 DEF Offsets, ExactOffsets
<1>10. Gathering(c, a)'
  BY <1>6, <1>9 DEF Gathering
<1>11. \A j \in 1..(buf'[c].pos - 1) : array'[a][j].left = 0
  BY <1>1
<1>12. QED
  BY <1>1, <1>10, <1>11 DEF Slice

LEMMA SliceGather ==
    ASSUME TypeInv, RecordsInv, Grows, NEW c \in Conn, Gather(c), NEW a, buf[c].arr = a, Slice(c, a)
    PROVE  Slice(c, a)'
<1>1. /\ pc[c] = "gather" /\ pc'[c] = "gather" /\ buf[c].next \in 1..buf[c].len
      /\ buf'[c].len = buf[c].len /\ buf'[c].pos = buf[c].pos /\ buf'[c].next = buf[c].next + 1
      /\ ConcatIs(buf'[c].vec, buf[c].vec, Bytes(array[a][buf[c].next]))
      /\ UNCHANGED <<array, got, parts, collided>>
  BY GatherEffect DEF Entry
<1>2. /\ Working(c) /\ Bounded(buf[c]) /\ array[a] \in ArrayType /\ a \in 1..rbuf.arr /\ a \in 1..Len(array)
      /\ got[c] \in Seq(Pair) /\ buf[c].len \in 0..Cap /\ buf[c].next \in 1..(buf[c].len + 1)
  <2>1. Working(c)
    BY <1>1 DEF Working
  <2>2. QED
    BY <1>1, <2>1, SliceBounded
<1>3. \A i, j \in buf[c].next..buf[c].len : i < j => array[a][i].rec < array[a][j].rec
  <2>1. SUFFICES ASSUME NEW i \in buf[c].next..buf[c].len, NEW j \in buf[c].next..buf[c].len, i < j
                 PROVE  array[a][i].rec < array[a][j].rec
    OBVIOUS
  <2>2. buf[c].len \in Nat /\ buf[c].len <= Cap /\ buf[c].next \in Nat \ {0} /\ Cap \in Nat
    BY <1>2, BrokerAssumption, CapNat
  <2>3. i \in 1..Cap /\ j \in 1..Cap /\ ~(j > buf[c].len)
    BY <2>2
  <2>4. array[a][j].rec # 0
    BY <1>2, <2>3 DEF RecordsInv, Filled
  <2>5. Later(a, i, a, j)
    BY <2>1 DEF Later
  <2>6. QED
    BY <1>2, <2>3, <2>4, <2>5 DEF RecordsInv
<1>4. GatheredInOrder(array[a], buf[c], got[c])
  BY <1>1 DEF Slice, Gathering
<1>5. PICK f \in Offset :
        /\ Offsets(f, array[a], buf[c])
        /\ Unsent(a) /\ parts[a] \subseteq {c} => ExactOffsets(f, array[a], buf[c])
  BY <1>1 DEF Slice, Gathering
<1>6. buf[c].next <= buf[c].len
  BY <1>1, <1>2
<1>7. /\ GatheredInOrder(array[a], buf'[c], got[c])
      /\ \E h \in Offset : /\ Offsets(h, array[a], buf'[c])
                           /\ ExactOffsets(f, array[a], buf[c]) => ExactOffsets(h, array[a], buf'[c])
  BY <1>1, <1>2, <1>3, <1>4, <1>5, <1>6, GatherOffsets
<1>8. PICK h \in Offset : /\ Offsets(h, array[a], buf'[c])
                          /\ ExactOffsets(f, array[a], buf[c]) => ExactOffsets(h, array[a], buf'[c])
  BY <1>7
<1>9. Unsent(a)' /\ parts'[a] \subseteq {c} => ExactOffsets(h, array'[a], buf'[c])
  BY <1>1, <1>2, <1>5, <1>8, UnsentBack
<1>10. Gathering(c, a)'
  BY <1>1, <1>7, <1>8, <1>9 DEF Gathering
<1>11. QED
  BY <1>1, <1>10 DEF Slice

LEMMA SliceWritev ==
    ASSUME TypeInv, RecordsInv, WrittenInv, Grows, NEW c \in Conn, Writev(c),
           NEW a, buf[c].arr = a, Slice(c, a)
    PROVE  Slice(c, a)'
<1>1. /\ pc[c] = "gather" /\ pc'[c] = "consume" /\ buf[c].next = buf[c].len + 1
      /\ buf'[c].len = buf[c].len /\ buf'[c].pos = buf[c].pos
      /\ buf'[c].n \in 1..Len(buf[c].vec)
      /\ got' \in [Conn -> Seq(Pair)]
      /\ Len(got'[c]) = Len(got[c]) + buf'[c].n
      /\ \A i \in 1..Len(got[c]) : got'[c][i] = got[c][i]
      /\ \A i \in 1..buf'[c].n : got'[c][Len(got[c]) + i] = buf[c].vec[i]
      /\ parts'[a] = IF buf'[c].n = Len(buf[c].vec) THEN parts[a] ELSE parts[a] \cup {c}
      /\ array' = array
  BY WritevEffect
<1>2. /\ Working(c) /\ Bounded(buf[c]) /\ array[a] \in ArrayType /\ a \in 1..rbuf.arr /\ a \in 1..Len(array)
      /\ got[c] \in Seq(Pair) /\ buf[c].vec \in Seq(Pair) /\ got'[c] \in Seq(Pair)
      /\ buf[c].len \in 0..Cap /\ buf[c].pos \in 1..(buf[c].len + 1)
  <2>1. Working(c)
    BY <1>1 DEF Working
  <2>2. QED
    BY <1>1, <2>1, SliceBounded
<1>3. GatheredInOrder(array[a], buf[c], got[c])
  BY <1>1 DEF Slice, Gathering
<1>4. PICK f \in Offset :
        /\ Offsets(f, array[a], buf[c])
        /\ Unsent(a) /\ parts[a] \subseteq {c} => ExactOffsets(f, array[a], buf[c])
  BY <1>1 DEF Slice, Gathering
<1>5. \E g \in Offset : /\ Counts(g, array[a], buf'[c], got'[c])
                        /\ ExactOffsets(f, array[a], buf[c]) => ExactCounts(g, array[a], buf'[c], got'[c])
  <2>1. PICK A \in ArrayType, s, t \in Seq(Pair) : A = array[a] /\ s = got[c] /\ t = got'[c]
    BY <1>2
  <2>2. PICK b, d : b = buf[c] /\ d = buf'[c]
    OBVIOUS
  <2>3. PICK k \in 1..Len(b.vec) : k = d.n
    BY <1>1, <2>2
  <2>4. /\ Len(t) = Len(s) + k /\ \A i \in 1..Len(s) : t[i] = s[i]
        /\ \A i \in 1..k : t[Len(s) + i] = b.vec[i]
        /\ b.next = b.len + 1 /\ d.pos = b.pos /\ d.len = b.len
    BY <1>1, <2>1, <2>2, <2>3
  <2>5. Bounded(b) /\ GatheredInOrder(A, b, s) /\ Offsets(f, A, b)
    BY <1>2, <1>3, <1>4, <2>1, <2>2
  <2>6. \E g \in Offset : Counts(g, A, d, t) /\ (ExactOffsets(f, A, b) => ExactCounts(g, A, d, t))
    BY <2>3, <2>4, <2>5, WritevCounts
  <2>7. QED
    BY <2>1, <2>2, <2>6
<1>6. PICK g \in Offset : /\ Counts(g, array[a], buf'[c], got'[c])
                          /\ ExactOffsets(f, array[a], buf[c]) => ExactCounts(g, array[a], buf'[c], got'[c])
  BY <1>5
<1>7. ASSUME Unsent(a)', buf'[c].n # Len(buf[c].vec)
      PROVE  c \in parts'[a] /\ ExactCounts(g, array[a], buf'[c], got'[c])
  <2>1. parts'[a] = parts[a] \cup {c}
    BY <1>1, <1>7
  <2>2. parts[a] \subseteq {c}
    BY <1>7, <2>1 DEF Unsent, OneByOne
  <2>3. Unsent(a)
    BY <1>2, <1>7, UnsentBack
  <2>4. QED
    BY <1>4, <1>6, <2>1, <2>2, <2>3
<1>8. ASSUME buf'[c].n = Len(buf[c].vec), Unsent(a)' PROVE Sent(a)'
  <2>1. Unsent(a)
    BY <1>2, <1>8, UnsentBack
  <2>2. ASSUME NEW i \in 1..Cap, array[a][i].rec # 0, NEW u \in 1..Size
        PROVE  WasSent(<<array[a][i].rec, u>>)'
    <3>1. CASE ~(u + array[a][i].left > Size)
      <4>1. WasSent(<<array[a][i].rec, u>>)
        BY <1>2, <2>1, <2>2, <3>1 DEF WrittenInv, RemovedSent, Unsent
      <4>2. PICK x : x = <<array[a][i].rec, u>>
        OBVIOUS
      <4>3. WasSent(x)'
        BY <4>1, <4>2 DEF Grows
      <4>4. QED
        BY <1>1, <4>2, <4>3 DEF WasSent
    <3>2. CASE u + array[a][i].left > Size
      <4>1. i <= buf[c].len
        BY <1>2, <2>2, BrokerAssumption, CapNat DEF RecordsInv, Filled
      <4>2. i >= buf[c].pos
        <5>1. SUFFICES ASSUME i < buf[c].pos PROVE FALSE
          BY <1>2, BrokerAssumption, CapNat
        <5>2. i \in 1..(buf[c].pos - 1)
          BY <1>2, <5>1, BrokerAssumption, CapNat
        <5>3. array[a][i].left = 0
          BY <5>2 DEF Slice
        <5>4. QED
          BY <3>2, <5>3, BrokerAssumption, CapNat
      <4>3. i \in buf[c].pos..(buf[c].next - 1)
        BY <1>1, <1>2, <4>1, <4>2, BrokerAssumption, CapNat
      <4>4. PICK m \in 1..Len(buf[c].vec) : buf[c].vec[m] = <<array[a][i].rec, u>>
        <5>1. PICK A \in ArrayType : A = array[a]
          BY <1>2
        <5>2. PICK b : b = buf[c]
          OBVIOUS
        <5>3. PICK j \in b.pos..(b.next - 1) : j = i
          BY <4>3, <5>2
        <5>4. Bounded(b) /\ Offsets(f, A, b) /\ u + A[j].left > Size
          BY <1>2, <1>4, <3>2, <5>1, <5>2, <5>3
        <5>5. Contains(b.vec, <<A[j].rec, u>>)
          BY <5>4, OffsetByte
        <5>6. QED
          BY <5>1, <5>2, <5>3, <5>5 DEF Contains
      <4>5. got'[c][Len(got[c]) + m] = <<array[a][i].rec, u>>
        BY <1>1, <1>8, <4>4
      <4>6. Len(got[c]) + m \in 1..Len(got'[c])
        <5>1. Len(got[c]) \in Nat /\ Len(buf[c].vec) \in Nat
              /\ Len(got'[c]) = Len(got[c]) + Len(buf[c].vec)
          BY <1>1, <1>2, <1>8
        <5>2. \A x, y \in Nat : \A z \in 1..y : x + z \in 1..(x + y)
          OBVIOUS
        <5>3. QED
          BY <5>1, <5>2
      <4>7. QED
        BY <1>1, <4>5, <4>6 DEF WasSent, Contains
    <3>3. QED
      BY <3>1, <3>2
  <2>3. QED
    BY <1>1, <2>2 DEF Sent, WasSent
<1>9. Unsent(a)' => c \in parts'[a] /\ ExactCounts(g, array'[a], buf'[c], got'[c])
  <2>1. ASSUME Unsent(a)' PROVE buf'[c].n # Len(buf[c].vec)
    <3>1. ~Sent(a)'
      BY <2>1 DEF Unsent
    <3>2. QED
      BY <1>8, <2>1, <3>1
  <2>2. QED
    BY <1>1, <1>7, <2>1
<1>10. Consuming(c, a)'
  BY <1>1, <1>6, <1>9 DEF Consuming
<1>11. QED
  BY <1>1, <1>10 DEF Slice

LEMMA SliceLoad ==
    ASSUME TypeInv, Grows, NEW c \in Conn, Load(c), NEW a, buf[c].arr = a, Slice(c, a)
    PROVE  Slice(c, a)'
<1>1. /\ pc[c] = "consume" /\ pc'[c] = "store"
      /\ buf'[c].len = buf[c].len /\ buf'[c].pos = buf[c].pos /\ buf'[c].n = buf[c].n
      /\ UNCHANGED <<array, got, parts, collided>>
  BY LoadEffect
<1>2. a \in 1..rbuf.arr
  BY <1>1, SliceBounded DEF Working
<1>3. PICK g \in Offset :
        /\ Counts(g, array[a], buf[c], got[c])
        /\ Unsent(a) => ExactCounts(g, array[a], buf[c], got[c])
  BY <1>1 DEF Slice, Consuming
<1>4. Counts(g, array[a], buf'[c], got[c])
  BY <1>1, <1>3 DEF Counts
<1>5. ExactCounts(g, array[a], buf[c], got[c]) => ExactCounts(g, array[a], buf'[c], got[c])
  BY <1>1 DEF ExactCounts
<1>6. Unsent(a) => c \in parts[a]
  BY <1>1 DEF Slice, Consuming
<1>7. Unsent(a)' => Unsent(a)
  BY <1>2, UnsentBack
<1>8. Consuming(c, a)'
  BY <1>1, <1>3, <1>4, <1>5, <1>6, <1>7 DEF Consuming
<1>9. QED
  BY <1>1, <1>8 DEF Slice

(* What a connection's store makes of the array.                           *)
LEMMA StoreArray ==
    ASSUME TypeInv, Grows, NEW c \in Conn, NEW l \in Nat, Leaves(c, l), pc[c] = "store",
           NEW a, buf[c].arr = a, a \notin collided'
    PROVE  /\ Working(c) /\ array[a] \in ArrayType /\ array'[a] \in ArrayType
           /\ a \in 1..rbuf.arr /\ a \in 1..Len(array)
           /\ buf[c].pos \in 1..Cap /\ buf[c].pos \in 1..buf[c].len /\ buf[c].len \in 0..Cap
           /\ buf[c].n \in Nat
           /\ \A j \in 1..Cap : j # buf[c].pos => array'[a][j] = array[a][j]
           /\ array'[a][buf[c].pos].rec = array[a][buf[c].pos].rec
           /\ array'[a][buf[c].pos].left = l
           /\ array[a][buf[c].pos].left = buf[c].ln0
<1>1. Working(c)
  BY DEF Working
<1>2. /\ array[a] \in ArrayType /\ a \in 1..rbuf.arr /\ a \in 1..Len(array)
      /\ buf[c].len \in 0..Cap /\ buf[c].pos \in 1..(buf[c].len + 1) /\ buf[c].n \in Nat
  BY <1>1, SliceBounded
<1>3. /\ array' \in Seq(ArrayType) /\ Len(array') = Len(array)
      /\ \A i \in 1..Cap :
            /\ i # buf[c].pos => array'[a][i] = array[a][i]
            /\ array'[a][i].rec = array[a][i].rec
      /\ buf[c].pos \in 1..Cap /\ buf[c].pos <= buf[c].len
      /\ array'[a][buf[c].pos].left = l
      /\ array[a][buf[c].pos].left = buf[c].ln0
  BY <1>2 DEF Leaves
<1>4. array'[a] \in ArrayType
  BY <1>2, <1>3
<1>5. buf[c].pos \in 1..buf[c].len
  BY <1>2, <1>3, BrokerAssumption, CapNat
<1>6. QED
  BY <1>1, <1>2, <1>3, <1>4, <1>5

LEMMA SliceShift ==
    ASSUME TypeInv, Grows, NEW c \in Conn, Shift(c), NEW a, buf[c].arr = a, Slice(c, a), a \notin collided'
    PROVE  Slice(c, a)'
<1>1. /\ Leaves(c, 0) /\ pc[c] = "store" /\ pc'[c] = "consume" /\ buf[c].ln0 <= buf[c].n
      /\ buf'[c].len = buf[c].len /\ buf'[c].pos = buf[c].pos + 1
      /\ buf'[c].n = buf[c].n - buf[c].ln0 /\ got' = got /\ parts' = parts
  BY ShiftEffect
<1>2. /\ array[a] \in ArrayType /\ array'[a] \in ArrayType /\ a \in 1..rbuf.arr
      /\ buf[c].pos \in 1..Cap /\ buf[c].pos \in 1..buf[c].len /\ buf[c].len \in 0..Cap
      /\ buf[c].n \in Nat
      /\ \A j \in 1..Cap : j # buf[c].pos => array'[a][j] = array[a][j]
      /\ array'[a][buf[c].pos].left = 0
      /\ array[a][buf[c].pos].left = buf[c].ln0
  <2>1. 0 \in Nat
    OBVIOUS
  <2>2. QED
    BY <1>1, <2>1, StoreArray
<1>3. PICK g \in Offset :
        /\ Counts(g, array[a], buf[c], got[c])
        /\ Unsent(a) => ExactCounts(g, array[a], buf[c], got[c])
  BY <1>1 DEF Slice, Consuming
<1>4. /\ Counts(g, array'[a], buf'[c], got[c])
      /\ ExactCounts(g, array[a], buf[c], got[c]) => ExactCounts(g, array'[a], buf'[c], got[c])
  <2>1. array[a][buf[c].pos].left <= buf[c].n /\ buf'[c].n = buf[c].n - array[a][buf[c].pos].left
    BY <1>1, <1>2
  <2>2. QED
    BY <1>1, <1>2, <1>3, <2>1, ShiftCounts
<1>5. Unsent(a) => c \in parts[a]
  BY <1>1 DEF Slice, Consuming
<1>6. Unsent(a)' => Unsent(a)
  BY <1>2, UnsentBack
<1>7. Consuming(c, a)'
  BY <1>1, <1>3, <1>4, <1>5, <1>6 DEF Consuming
<1>8. \A j \in 1..(buf'[c].pos - 1) : array'[a][j].left = 0
  <2>1. SUFFICES ASSUME NEW j \in 1..(buf'[c].pos - 1) PROVE array'[a][j].left = 0
    OBVIOUS
  <2>2. buf[c].pos \in Nat /\ buf[c].pos <= Cap /\ Cap \in Nat
    BY <1>2, BrokerAssumption, CapNat
  <2>3. j = buf[c].pos \/ (j \in 1..(buf[c].pos - 1) /\ j \in 1..Cap /\ j # buf[c].pos)
    BY <1>1, <2>2
  <2>4. QED
    BY <1>2, <2>3 DEF Slice
<1>9. QED
  BY <1>1, <1>7, <1>8 DEF Slice

LEMMA SliceTrim ==
    ASSUME TypeInv, Grows, NEW c \in Conn, Trim(c), NEW a, buf[c].arr = a, Slice(c, a), a \notin collided'
    PROVE  Slice(c, a)'
<1>1. /\ Leaves(c, buf[c].ln0 - buf[c].n) /\ pc[c] = "store" /\ pc'[c] = "gather" /\ buf[c].ln0 > buf[c].n
      /\ buf'[c].len = buf[c].len /\ buf'[c].pos = buf[c].pos /\ buf'[c].next = buf[c].pos
      /\ buf'[c].vec = <<>> /\ got' = got /\ parts' = parts
  BY TrimEffect
<1>2. buf[c].ln0 \in Nat /\ buf[c].n \in Nat /\ buf[c].ln0 - buf[c].n \in Nat
  <2>1. buf[c].ln0 \in Nat /\ buf[c].n \in Nat
    BY SliceTyped, BrokerAssumption, CapNat
  <2>2. QED
    BY <1>1, <2>1
<1>3. /\ array[a] \in ArrayType /\ array'[a] \in ArrayType /\ a \in 1..rbuf.arr
      /\ buf[c].pos \in 1..Cap /\ buf[c].pos \in 1..buf[c].len /\ buf[c].len \in 0..Cap
      /\ \A j \in 1..Cap : j # buf[c].pos => array'[a][j] = array[a][j]
      /\ array'[a][buf[c].pos].rec = array[a][buf[c].pos].rec
      /\ array'[a][buf[c].pos].left = buf[c].ln0 - buf[c].n
      /\ array[a][buf[c].pos].left = buf[c].ln0
  BY SMTT(30), <1>1, <1>2, StoreArray
<1>4. PICK g \in Offset : Counts(g, array[a], buf[c], got[c])
  BY <1>1 DEF Slice, Consuming
<1>5. \A j \in buf[c].pos..buf[c].len : Behind(got[c], array'[a][j])
  <2>1. buf[c].n < array[a][buf[c].pos].left
        /\ array'[a][buf[c].pos].left = array[a][buf[c].pos].left - buf[c].n
    BY <1>1, <1>2, <1>3
  <2>2. QED
    BY <1>2, <1>3, <1>4, <2>1, TrimBehind
<1>6. GatheredInOrder(array'[a], buf'[c], got'[c])
  BY <1>1, <1>5 DEF GatheredInOrder, Sorted
<1>7. PICK f \in Offset : f = [j \in 1..(Cap + 1) |-> 0]
  BY DEF Offset
<1>8. PICK p \in 1..(Cap + 1) : p = buf[c].pos
  BY <1>3, BrokerAssumption, CapNat
<1>9. Offsets(f, array'[a], buf'[c]) /\ ExactOffsets(f, array'[a], buf'[c])
  <2>1. f[p] = 0
    BY <1>7, <1>8
  <2>2. p \in Nat /\ p..p = {p} /\ p..(p - 1) = {}
    BY BrokerAssumption, CapNat
  <2>3. \A i, j \in p..p : f[i] <= f[j]
    BY <2>1, <2>2
  <2>4. QED
    BY <1>1, <1>8, <2>1, <2>2, <2>3 DEF Offsets, ExactOffsets
<1>10. Gathering(c, a)'
  BY <1>6, <1>9 DEF Gathering
<1>11. \A j \in 1..(buf'[c].pos - 1) : array'[a][j].left = 0
  <2>1. SUFFICES ASSUME NEW j \in 1..(buf[c].pos - 1) PROVE array'[a][j].left = 0
    BY <1>1
  <2>2. buf[c].pos \in Nat /\ buf[c].pos <= Cap /\ Cap \in Nat
    BY <1>3, BrokerAssumption, CapNat
  <2>3. j \in 1..Cap /\ j # buf[c].pos
    BY <2>2
  <2>4. QED
    BY <1>3, <2>3 DEF Slice
<1>12. QED
  BY <1>1, <1>10, <1>11 DEF Slice

LEMMA ArrayEqual ==
    ASSUME NEW A \in ArrayType, NEW B \in ArrayType, \A i \in 1..Cap : A[i] = B[i]
    PROVE  A = B
<1>1. A = [i \in 1..Cap |-> A[i]] /\ B = [i \in 1..Cap |-> B[i]]
  BY DEF ArrayType
<1>2. QED
  BY <1>1

LEMMA SliceNext ==
    ASSUME TypeInv, RecordsInv, BelowInv, SliceInv, WrittenInv, [Next]_vars
    PROVE  SliceInv'
<1> SUFFICES ASSUME NEW c \in Conn, NEW a, Working(c)', buf'[c].arr = a, a \notin collided'
             PROVE  Slice(c, a)'
  BY DEF SliceInv
<1>1. TypeInv' /\ Grows
  BY TypeNext, GrowsStep
<1>2. /\ \A d \in Conn : Working(d) =>
            buf[d].arr \in 1..rbuf.arr /\ buf[d].arr \in 1..Len(array) /\ array[buf[d].arr] \in ArrayType
      /\ \A b \in 1..rbuf.arr : b \in 1..Len(array) /\ b # Len(array)
  BY SliceBounded, EntryTyped
<1>3. a \notin collided
  BY <1>1 DEF Grows
<1>4. ASSUME NEW d \in Conn, Working(d), buf[d].arr = a PROVE Slice(d, a)
  BY <1>2, <1>3, <1>4 DEF SliceInv
<1>5. ASSUME Working(c), buf'[c] = buf[c], pc'[c] = pc[c], got'[c] = got[c], array'[a] = array[a]
      PROVE  Slice(c, a)'
  BY <1>1, <1>4, <1>5, SliceStable
<1>6. CASE Broadcast
  <2>1. /\ Replaced(array', array, Len(array), wbuf.len + 1, [rec |-> accepted + 1, left |-> Size])
        /\ wbuf.len + 1 \in 1..Cap /\ UNCHANGED <<pc, buf, got>>
    BY <1>6, BroadcastEffect
  <2>2. Working(c) /\ a \in 1..rbuf.arr
    BY <1>2, <2>1 DEF Working
  <2>3. array[a] \in ArrayType /\ array'[a] \in ArrayType
        /\ \A i \in 1..Cap : array'[a][i] = array[a][i]
    BY <1>2, <2>1, <2>2 DEF Replaced
  <2>4. array'[a] = array[a]
    BY <2>3, ArrayEqual
  <2>5. QED
    BY <1>5, <2>1, <2>2, <2>4
<1>7. CASE TimerFlush \/ UNCHANGED vars
  BY <1>5, <1>7 DEF TimerFlush, vars, Working
<1>8. CASE Flush
  <2>1. /\ \A b \in 1..Len(array) : array'[b] = array[b]
        /\ pc'[c] = IF pc[c] = "waiting" THEN "woken" ELSE pc[c]
        /\ UNCHANGED <<buf, got>>
    BY <1>8, FlushEffect
  <2>2. Working(c) /\ pc'[c] = pc[c]
    BY <2>1 DEF Working
  <2>3. QED
    BY <1>2, <1>5, <2>1, <2>2
<1>9. ASSUME NEW d \in Conn, Handle(d), d # c PROVE Slice(c, a)'
  <2>1. Moves(d) /\ (got' = got \/ Writev(d)) /\ (array' = array \/ Shift(d) \/ Trim(d))
    BY <1>9, WaitEffect, CopyEffect, GatherEffect, ReturnEffect, WritevEffect, LoadEffect, ShiftEffect,
       TrimEffect DEF Handle, NothingLeft, WriteError, Written
  <2>2. buf'[c] = buf[c] /\ pc'[c] = pc[c]
    BY <1>9, <2>1 DEF Moves
  <2>3. got'[c] = got[c]
    BY <1>9, <2>1, OthersGot
  <2>4. Working(c) /\ buf[c].arr = a
    BY <2>2 DEF Working
  <2>5. CASE array' = array
    BY <1>5, <2>2, <2>3, <2>4, <2>5
  <2>6. CASE Shift(d) \/ Trim(d)
    <3>1. PICK l : Leaves(d, l) /\ pc[d] = "store"
      BY <2>6, ShiftEffect, TrimEffect
    <3>2. ASSUME Unsent(a)', pc[c] = "gather" => parts'[a] \subseteq {c} PROVE array'[a] = array[a]
      <4>1. Unsent(a) /\ parts[a] \subseteq parts'[a]
        BY <1>1, <1>2, <2>4, <3>2, UnsentBack DEF Grows
      <4>2. ASSUME buf[d].arr = a PROVE FALSE
        <5>1. Slice(d, a)
          BY <1>4, <3>1, <4>2 DEF Working
        <5>2. d \in parts[a]
          BY <3>1, <4>1, <5>1 DEF Slice, Consuming
        <5>3. CASE pc[c] = "gather"
          BY <1>9, <3>2, <4>1, <5>2, <5>3
        <5>4. CASE pc[c] # "gather"
          <6>1. Slice(c, a)
            BY <1>4, <2>4
          <6>2. c \in parts[a]
            BY <4>1, <5>4, <6>1 DEF Slice, Consuming
          <6>3. QED
            BY <1>9, <4>1, <5>2, <6>2 DEF Unsent, OneByOne
        <5>5. QED
          BY <5>3, <5>4
      <4>3. array[a] \in ArrayType /\ array'[a] \in ArrayType
            /\ \A i \in 1..Cap : array'[a][i] = array[a][i]
        BY <1>2, <2>4, <3>1, <4>2 DEF Leaves
      <4>4. QED
        BY <4>3, ArrayEqual
    <3>3. Slice(c, a)
      BY <1>4, <2>4
    <3>4. QED
      BY <1>1, <2>2, <2>3, <2>4, <3>2, <3>3, SliceStable
  <2>7. QED
    BY <2>1, <2>5, <2>6
<1>10. ASSUME Handle(c) PROVE Slice(c, a)'
  <2>1. CASE Wait(c)
    BY <2>1, WaitEffect DEF Working
  <2>2. CASE Copy(c)
    BY <2>2, SliceCopy
  <2>3. CASE NothingLeft(c) \/ WriteError(c) \/ Written(c)
    <3>1. PICK p \in {"idle", "closed"} : Return(c, p)
      BY <2>3 DEF NothingLeft, WriteError, Written
    <3>2. pc'[c] = p
      BY <3>1, ReturnEffect
    <3>3. QED
      BY <3>2 DEF Working
  <2>4. CASE Gather(c)
    <3>1. Working(c) /\ buf[c].arr = a
      BY <2>4, GatherEffect DEF Working
    <3>2. Slice(c, a)
      BY <1>4, <3>1
    <3>3. QED
      BY <1>1, <2>4, <3>1, <3>2, SliceGather
  <2>5. CASE Writev(c)
    <3>1. Working(c) /\ buf[c].arr = a
      BY <2>5, WritevEffect DEF Working
    <3>2. Slice(c, a)
      BY <1>4, <3>1
    <3>3. QED
      BY <1>1, <2>5, <3>1, <3>2, SliceWritev
  <2>6. CASE Load(c)
    <3>1. Working(c) /\ buf[c].arr = a
      BY <2>6, LoadEffect DEF Working
    <3>2. Slice(c, a)
      BY <1>4, <3>1
    <3>3. QED
      BY <1>1, <2>6, <3>1, <3>2, SliceLoad
  <2>7. CASE Shift(c)
    <3>1. Working(c) /\ buf[c].arr = a
      BY <2>7, ShiftEffect DEF Working
    <3>2. Slice(c, a)
      BY <1>4, <3>1
    <3>3. QED
      BY <1>1, <2>7, <3>1, <3>2, SliceShift
  <2>8. CASE Trim(c)
    <3>1. Working(c) /\ buf[c].arr = a
      BY <2>8, TrimEffect DEF Working
    <3>2. Slice(c, a)
      BY <1>4, <3>1
    <3>3. QED
      BY <1>1, <2>8, <3>1, <3>2, SliceTrim
  <2>9. QED
    BY <1>10, <2>1, <2>2, <2>3, <2>4, <2>5, <2>6, <2>7, <2>8 DEF Handle
<1>11. QED
  BY <1>6, <1>7, <1>8, <1>9, <1>10 DEF Next

LEMMA RemovedKept ==
    ASSUME Grows, NEW e, RemovedSent(e)
    PROVE  RemovedSent(e)'
<1>1. ASSUME NEW x, WasSent(x) PROVE WasSent(x)'
  BY <1>1 DEF Grows
<1>2. QED
  BY <1>1 DEF RemovedSent

(* A connection removes bytes from the first entry of its slice.           *)
LEMMA WrittenStore ==
    ASSUME TypeInv, SliceInv, WrittenInv, Grows, NEW c \in Conn, NEW l \in Nat,
           Leaves(c, l), got' = got, pc[c] = "store",
           l = (IF buf[c].ln0 > buf[c].n THEN buf[c].ln0 - buf[c].n ELSE 0)
    PROVE  WrittenInv'
<1>1. Len(array') = Len(array)
  BY DEF Leaves
<1> SUFFICES ASSUME NEW e, NEW a \in 1..Len(array), NEW i \in 1..Cap,
                    e = array'[a][i], OneByOne(a)'
             PROVE  RemovedSent(e)'
  BY <1>1 DEF WrittenInv
<1>2. OneByOne(a) /\ RemovedSent(array[a][i])
  BY OneByOneBack DEF WrittenInv
<1>3. CASE a # buf[c].arr \/ i # buf[c].pos
  <2>1. e = array[a][i]
    BY <1>3 DEF Leaves
  <2>2. QED
    BY <1>2, <2>1, RemovedKept
<1>4. CASE a = buf[c].arr /\ i = buf[c].pos
  <2>1. a \notin collided' /\ a \notin collided
    BY <1>2 DEF OneByOne
  <2>2. /\ Working(c) /\ array[a] \in ArrayType /\ array'[a] \in ArrayType
        /\ i \in 1..buf[c].len /\ buf[c].len \in 0..Cap /\ buf[c].n \in Nat
        /\ \A j \in 1..Cap : j # i => array'[a][j] = array[a][j]
        /\ array'[a][i].rec = array[a][i].rec
        /\ array'[a][i].left = l
        /\ array[a][i].left = buf[c].ln0
    BY <1>4, <2>1, StoreArray
  <2>3. Slice(c, a)
    BY <1>4, <2>1, <2>2 DEF SliceInv
  <2>4. PICK g \in Offset :
          /\ Counts(g, array[a], buf[c], got[c])
          /\ Unsent(a) => ExactCounts(g, array[a], buf[c], got[c])
    BY <2>3 DEF Slice, Consuming
  <2>5. ASSUME NEW u \in 1..Size, array[a][i].rec # 0, ~(u + l > Size)
        PROVE  WasSent(<<array[a][i].rec, u>>)
    <3>1. CASE ~(u + array[a][i].left > Size)
      BY <1>2, <2>5, <3>1 DEF RemovedSent
    <3>2. CASE Sent(a)
      BY <2>5, <3>2 DEF Sent
    <3>3. CASE u + array[a][i].left > Size /\ ~Sent(a)
      <4>1. ExactCounts(g, array[a], buf[c], got[c])
        BY <1>2, <2>4, <3>3 DEF Unsent
      <4>2. PICK A \in ArrayType : A = array[a]
        BY <2>2
      <4>3. PICK b, s : b = buf[c] /\ s = got[c]
        OBVIOUS
      <4>4. /\ b.len \in 0..Cap /\ b.pos \in 1..b.len /\ b.n \in Nat /\ b.pos = i
            /\ Counts(g, A, b, s) /\ ExactCounts(g, A, b, s) /\ A[b.pos].left = b.ln0
            /\ u + A[b.pos].left > Size /\ A[b.pos].left \in Nat
        BY <1>4, <2>2, <2>4, <3>3, <4>1, <4>2, <4>3, EntryNumbers
      <4>5. CASE ~(b.ln0 > b.n)
        <5>1. A[b.pos].left <= b.n
          BY <4>4, <4>5
        <5>2. \E m \in 1..Len(s) : s[m] = <<A[b.pos].rec, u>>
          BY <4>4, <5>1, ShiftSent
        <5>3. QED
          BY <4>2, <4>3, <4>4, <5>2 DEF WasSent, Contains
      <4>6. CASE b.ln0 > b.n
        <5>1. PICK A2 \in ArrayType : A2 = array'[a]
          BY <2>2
        <5>2. /\ \A j \in 1..Cap : j # b.pos => A2[j] = A[j]
              /\ A2[b.pos].rec = A[b.pos].rec /\ b.n < A[b.pos].left
              /\ A2[b.pos].left = A[b.pos].left - b.n /\ ~(u + A2[b.pos].left > Size)
          BY <2>2, <2>5, <4>2, <4>3, <4>4, <4>6, <5>1
        <5>3. \E m \in 1..Len(s) : s[m] = <<A[b.pos].rec, u>>
          <6>1. /\ b.len \in 0..Cap /\ b.pos \in 1..b.len /\ b.n \in Nat
                /\ Counts(g, A, b, s) /\ ExactCounts(g, A, b, s)
            BY <4>4
          <6>2. HasWritten(s, A[b.pos], A2[b.pos])
            BY <5>2, <6>1, TrimBehind
          <6>3. QED
            BY <4>4, <5>2, <6>2 DEF HasWritten
        <5>4. QED
          BY <4>2, <4>3, <4>4, <5>3 DEF WasSent, Contains
      <4>7. QED
        BY <4>5, <4>6
    <3>4. QED
      BY <3>1, <3>2, <3>3
  <2>6. RemovedSent(e)
    BY <2>2, <2>5 DEF RemovedSent
  <2>7. QED
    BY <2>6, RemovedKept
<1>5. QED
  BY <1>3, <1>4

LEMMA WrittenNext ==
    ASSUME TypeInv, SliceInv, WrittenInv, [Next]_vars
    PROVE  WrittenInv'
<1>1. Grows /\ Len(array) \in Nat
  BY GrowsStep, EntryTyped
<1>2. ASSUME NEW e, NEW a \in 1..Len(array), NEW i \in 1..Cap, e = array[a][i], OneByOne(a)'
      PROVE  RemovedSent(e)'
  <2>1. OneByOne(a)
    BY <1>1, <1>2, OneByOneBack
  <2>2. RemovedSent(e)
    BY <1>2, <2>1 DEF WrittenInv
  <2>3. QED
    BY <1>1, <2>2, RemovedKept
<1>3. CASE array' = array
  BY <1>2, <1>3 DEF WrittenInv
<1>4. CASE Broadcast
  <2>1. Replaced(array', array, Len(array), wbuf.len + 1, [rec |-> accepted + 1, left |-> Size])
    BY <1>4, BroadcastEffect
  <2>2. ASSUME NEW e, NEW a \in 1..Len(array), NEW i \in 1..Cap,
               e = array'[a][i], OneByOne(a)'
        PROVE  RemovedSent(e)'
    <3>1. CASE a = Len(array) /\ i = wbuf.len + 1
      <4>1. e.left = Size
        BY <2>1, <2>2, <3>1 DEF Replaced
      <4>2. \A u \in 1..Size : u + Size > Size
        BY BrokerAssumption, CapNat
      <4>3. QED
        BY <4>1, <4>2 DEF RemovedSent
    <3>2. CASE a # Len(array) \/ i # wbuf.len + 1
      <4>1. e = array[a][i]
        BY <2>1, <2>2, <3>2 DEF Replaced
      <4>2. QED
        BY <1>2, <2>2, <4>1
    <3>3. QED
      BY <3>1, <3>2
  <2>3. Len(array') = Len(array)
    BY <2>1 DEF Replaced
  <2>4. QED
    BY <2>2, <2>3 DEF WrittenInv
<1>5. CASE Flush
  <2>1. /\ Len(array') = Len(array) + 1 /\ \A a \in 1..Len(array) : array'[a] = array[a]
        /\ array'[Len(array) + 1] = Empty
    BY <1>5, FlushEffect
  <2>2. ASSUME NEW e, NEW a \in 1..Len(array'), NEW i \in 1..Cap,
               e = array'[a][i], OneByOne(a)'
        PROVE  RemovedSent(e)'
    <3>1. a \in 1..Len(array) \/ a = Len(array) + 1
      BY <1>1, <2>1
    <3>2. CASE a \in 1..Len(array)
      BY <1>2, <2>1, <2>2, <3>2
    <3>3. CASE a = Len(array) + 1
      <4>1. Empty[i].rec = 0
        BY DEF Empty
      <4>2. e.rec = 0
        BY <2>1, <2>2, <3>3, <4>1
      <4>3. QED
        BY <4>2 DEF RemovedSent
    <3>4. QED
      BY <3>1, <3>2, <3>3
  <2>3. QED
    BY <2>2 DEF WrittenInv
<1>6. ASSUME NEW c \in Conn, Shift(c) PROVE WrittenInv'
  <2>1. Leaves(c, 0) /\ got' = got /\ pc[c] = "store" /\ buf[c].ln0 <= buf[c].n
    BY <1>6, ShiftEffect
  <2>2. ~(buf[c].ln0 > buf[c].n)
    BY <2>1, SliceTyped, BrokerAssumption, CapNat
  <2>3. PICK l \in Nat : l = 0
    OBVIOUS
  <2>4. Leaves(c, l) /\ l = (IF buf[c].ln0 > buf[c].n THEN buf[c].ln0 - buf[c].n ELSE 0)
    BY <2>1, <2>2, <2>3
  <2>5. QED
    BY <1>1, <2>1, <2>4, WrittenStore
<1>7. ASSUME NEW c \in Conn, Trim(c) PROVE WrittenInv'
  <2>1. Leaves(c, buf[c].ln0 - buf[c].n) /\ got' = got /\ pc[c] = "store" /\ buf[c].ln0 > buf[c].n
    BY <1>7, TrimEffect
  <2>2. PICK l \in Nat : l = buf[c].ln0 - buf[c].n
    <3>1. buf[c].ln0 \in Nat /\ buf[c].n \in Nat
      BY SliceTyped, BrokerAssumption, CapNat
    <3>2. QED
      BY <2>1, <3>1
  <2>3. Leaves(c, l) /\ l = (IF buf[c].ln0 > buf[c].n THEN buf[c].ln0 - buf[c].n ELSE 0)
    BY <2>1, <2>2
  <2>4. QED
    BY <1>1, <2>1, <2>3, WrittenStore
<1>8. array' = array \/ Broadcast \/ Flush \/ \E c \in Conn : Shift(c) \/ Trim(c)
  <2>1. ASSUME NEW c \in Conn, Handle(c) PROVE array' = array \/ Shift(c) \/ Trim(c)
    BY <2>1, WaitEffect, CopyEffect, GatherEffect, ReturnEffect, WritevEffect, LoadEffect
       DEF Handle, NothingLeft, WriteError, Written
  <2>2. QED
    BY <2>1 DEF Next, TimerFlush, vars
<1>9. QED
  BY <1>3, <1>4, <1>5, <1>6, <1>7, <1>8

LEMMA SortNext ==
    ASSUME TypeInv, SliceInv, SortInv, [Next]_vars
    PROVE  SortInv'
<1> SUFFICES ASSUME collided' = {}, NEW c \in Conn PROVE Sorted(got'[c])
  BY DEF SortInv
<1>1. collided = {}
  BY GrowsStep DEF Grows
<1>2. Sorted(got[c])
  BY <1>1 DEF SortInv
<1>3. CASE got'[c] = got[c]
  BY <1>2, <1>3
<1>4. CASE Writev(c)
  <2>1. /\ pc[c] = "gather" /\ buf'[c].n \in 1..Len(buf[c].vec)
        /\ Len(got'[c]) = Len(got[c]) + buf'[c].n
        /\ \A i \in 1..Len(got[c]) : got'[c][i] = got[c][i]
        /\ \A i \in 1..buf'[c].n : got'[c][Len(got[c]) + i] = buf[c].vec[i]
    BY <1>4, WritevEffect
  <2>2. Working(c) /\ got[c] \in Seq(Pair) /\ buf[c].vec \in Seq(Pair) /\ buf[c].arr \in 1..Len(array)
    BY <2>1, SliceTyped DEF Working
  <2>3. PICK a \in 1..Len(array) : a = buf[c].arr
    BY <2>2
  <2>4. Slice(c, a)
    BY <1>1, <2>2, <2>3 DEF SliceInv
  <2>5. Sorted(buf[c].vec) /\ \A i \in 1..Len(buf[c].vec) : Precedes(got[c], buf[c].vec[i])
    BY <2>1, <2>4 DEF Slice, Gathering, GatheredInOrder
  <2>6. PICK s, v \in Seq(Pair) : s = got[c] /\ v = buf[c].vec
    BY <2>2
  <2>7. PICK k \in 1..Len(v) : k = buf'[c].n
    BY <2>1, <2>6
  <2>8. PICK t : t = got'[c]
    OBVIOUS
  <2>9. /\ Sorted(s) /\ Sorted(v) /\ \A i \in 1..Len(v) : Precedes(s, v[i])
        /\ Len(t) = Len(s) + k
        /\ \A i \in 1..Len(s) : t[i] = s[i]
        /\ \A i \in 1..k : t[Len(s) + i] = v[i]
    BY <1>2, <2>1, <2>5, <2>6, <2>7, <2>8
  <2>10. Sorted(t)
    BY <2>9, SortedConcat
  <2>11. QED
    BY <2>8, <2>10
<1>5. CASE Gather(c)
  BY <1>2, <1>5, GatherEffect
<1>6. QED
  BY <1>3, <1>4, <1>5, StreamStep

-----------------------------------------------------------------------------
Inv == TypeInv /\ RecordsInv /\ BelowInv /\ SliceInv /\ WrittenInv /\ SortInv

LEMMA InvInit == Init => Inv
<1> SUFFICES ASSUME Init PROVE Inv
  OBVIOUS
<1>1. TypeInv /\ RecordsInv /\ BelowInv
  BY TypeInit, RecordsInit, BelowInit
<1>2. SliceInv
  BY DEF Init, SliceInv, Working
<1>3. WrittenInv
  <2>1. array = << Empty >>
    BY DEF Init
  <2>2. \A i \in 1..Cap : Empty[i].rec = 0
    BY DEF Empty
  <2>3. \A a \in 1..Len(array), i \in 1..Cap : array[a][i].rec = 0
    BY <2>1, <2>2
  <2>4. QED
    BY <2>3 DEF WrittenInv, RemovedSent
<1>4. SortInv
  BY DEF Init, SortInv, Sorted
<1>5. QED
  BY <1>1, <1>2, <1>3, <1>4 DEF Inv

LEMMA InvNext == Inv /\ [Next]_vars => Inv'
BY TypeNext, RecordsNext, BelowNext, SliceNext, WrittenNext, SortNext DEF Inv

(* Every client gets the bytes of the records in the order in which they   *)
(* were broadcast, each once, for any number of connections that share the *)
(* published arrays and whatever writev takes, as long as no two of them   *)
(* change an entry of an array at the same time (broker.go:105-107,        *)
(* 134-140).                                                               *)
THEOREM InOrderHolds == Spec => []InOrder
<1>1. Inv => InOrder
  <2> SUFFICES ASSUME Inv, collided = {}, NEW c \in Conn, NEW i \in 2..Len(got[c])
               PROVE  Lt(got[c][i - 1], got[c][i])
    BY DEF InOrder, Lt
  <2>1. Sorted(got[c]) /\ got[c] \in Seq(Pair)
    BY SliceTyped DEF Inv, SortInv
  <2>2. i - 1 \in 1..Len(got[c]) /\ i \in 1..Len(got[c]) /\ i - 1 < i
    BY <2>1
  <2>3. QED
    BY <2>1, <2>2 DEF Sorted
<1>2. QED
  BY <1>1, InvInit, InvNext, PTL DEF Spec

(* What WriteTo has removed from an array that at most one connection      *)
(* wrote in part was sent, however many others wrote it whole and removed  *)
(* the same bytes (broker.go:137-140).                                     *)
THEOREM WrittenOrLeftHolds == Spec => []WrittenOrLeft
<1>1. Inv => WrittenOrLeft
  <2> SUFFICES ASSUME Inv, NEW a \in DOMAIN array, OneByOne(a), NEW i \in DOMAIN array[a],
                      array[a][i].rec # 0, NEW u \in 1..(Size - array[a][i].left)
               PROVE  WasSent(<<array[a][i].rec, u>>)
    BY DEF WrittenOrLeft, OneByOne, WasSent
  <2>1. a \in 1..Len(array) /\ array[a] \in ArrayType
    BY EntryTyped DEF Inv
  <2>2. i \in 1..Cap
    BY <2>1 DEF ArrayType
  <2>3. array[a][i].left \in Nat /\ array[a][i].left <= Size
    BY <2>1, <2>2, EntryNumbers
  <2>4. u \in 1..Size /\ ~(u + array[a][i].left > Size)
    BY <2>3, BrokerAssumption, CapNat
  <2>5. RemovedSent(array[a][i])
    BY <2>1, <2>2 DEF Inv, WrittenInv
  <2>6. QED
    BY <2>4, <2>5 DEF RemovedSent
<1>2. QED
  BY <1>1, InvInit, InvNext, PTL DEF Spec
=============================================================================
