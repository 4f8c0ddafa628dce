-------------------------- MODULE MCPrecreatePool --------------------------
(* Instances of PrecreatePool: a request asks for a handle of one chosen   *)
(* pool, or for one of every pool.                                         *)
EXTENDS PrecreatePool

MCPool == CHOOSE p \in Pool : TRUE

MCAsk == {[p \in Pool |-> 1], [NoHandles EXCEPT ![MCPool] = 1]}
=============================================================================
