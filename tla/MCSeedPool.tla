----------------------------- MODULE MCSeedPool ------------------------------
(* A small instance of SeedPool: two candidates, one of which fills the pool,   *)
(* and one torrent of somebody else.                                           *)
EXTENDS SeedPool

CONSTANTS c1, c2, u1

Bytes1 == (c1 :> 1) @@ (c2 :> 2) @@ (u1 :> 1)
=============================================================================
