--------------------------- MODULE MCGT06Session ---------------------------
EXTENDS GT06Session, TLC
Callers == Permutations(Api)

(* The properties of session_commands are about what run() does while it   *)
(* has read no flag that no frame carried.  Both its end and such a flag   *)
(* are for good: what follows them is not explored.                        *)
Relevant == ~garbled /\ rpc # "stuck"
=============================================================================
