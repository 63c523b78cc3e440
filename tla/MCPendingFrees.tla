--------------------------- MODULE MCPendingFrees ---------------------------
(* Small instances of PendingFrees: three addresses, two of which collide. *)
EXTENDS PendingFrees, TLC

CONSTANTS t1, t2, a1, a2, a3, none

TwoBuckets == {0, 1}
Hash1 == a1 :> 0
Hash == a1 :> 0 @@ a2 :> 0 @@ a3 :> 0
=============================================================================
