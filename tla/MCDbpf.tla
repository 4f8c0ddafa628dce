------------------------------- MODULE MCDbpf -------------------------------
(***************************************************************************)
(* Dbpf for TLC: a few operations, each posted as any of the given kinds.  *)
(***************************************************************************)
EXTENDS Dbpf, TLC

Meta(type, sync, coll) == [type |-> type, sync |-> sync, coll |-> coll, eor |-> 0, parts |-> 1]
Write(coll, eor, parts) == [type |-> "write", sync |-> TRUE, coll |-> coll, eor |-> eor, parts |-> parts]
Read(coll) == [type |-> "read", sync |-> FALSE, coll |-> coll, eor |-> 0, parts |-> 1]

\* one collection; two sizes a write may end at, one write of two batches
MCKind == {Meta("keyval", TRUE, 1), Meta("dspace", TRUE, 1), Meta("dspace", FALSE, 1),
           Meta("query", FALSE, 1), Write(1, 1, 1), Write(1, 2, 2), Read(1)}

MCSyncMode == {{}, {1}}

Perms == Permutations(Op)
=============================================================================
