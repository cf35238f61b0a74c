---------------------------- MODULE LocationLog -----------------------------
(***************************************************************************)
(* What the location store promises about the rows in the table: records   *)
(* are numbered in the order Put accepted them, and the table receives     *)
(* batches.  A batch is a run of consecutive records, at most BufSize of   *)
(* them; batches arrive in order; a batch may be skipped for ever, and it  *)
(* may be stored a second time, then immediately after the first.          *)
(***************************************************************************)
EXTENDS Naturals, Sequences

CONSTANTS
    BufSize,    \* records in a batch
    MaxPut      \* bound: records accepted

VARIABLES
    accepted,   \* how many records Put has accepted
    stored      \* the batches written to the table

vars == <<accepted, stored>>

Batch(first, last) == [i \in 1..(last - first + 1) |-> first + i - 1]

LastOf(s) == s[Len(s)]

Init == accepted = 0 /\ stored = <<>>

Accept ==
    /\ accepted < MaxPut
    /\ accepted' = accepted + 1
    /\ UNCHANGED stored

(* A batch later than all the stored ones, whatever was skipped.           *)
StoreNext ==
    /\ \E last \in 1..accepted : \E first \in 1..last :
          /\ last - first < BufSize
          /\ stored # <<>> => LastOf(LastOf(stored)) < first
          /\ stored' = Append(stored, Batch(first, last))
    /\ UNCHANGED accepted

(* The last batch once more.                                               *)
StoreAgain ==
    /\ stored # <<>>
    /\ Len(stored) > 1 => stored[Len(stored) - 1] # LastOf(stored)
    /\ stored' = Append(stored, LastOf(stored))
    /\ UNCHANGED accepted

Next == Accept \/ StoreNext \/ StoreAgain

Spec == Init /\ [][Next]_vars
=============================================================================
