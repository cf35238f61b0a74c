---------------------------- MODULE MCWebstream ----------------------------
(* Instances of Webstream for TLC.                                         *)
EXTENDS Webstream, TLC

CONSTANTS r1, r2, r3, f1, f2, f3, t1, t2

(* One goroutine of a device and two of another, which share f1.           *)
Trackers == (f1 :> t1) @@ (f2 :> t2)
Fields == (r1 :> {f1}) @@ (r2 :> {f1}) @@ (r3 :> {f2})

SameDevice == Permutations({r1, r2})

(* Two devices of one tracker and a device of another.                     *)
TwinTrackers == (f1 :> t1) @@ (f2 :> t1) @@ (f3 :> t2)
TwinFields == (r1 :> {f1}) @@ (r2 :> {f2}) @@ (r3 :> {f3})
=============================================================================
