------------------------------ MODULE MCLedger ------------------------------
(* Five handles: two for metadata, three for data.                          *)
EXTENDS Ledger, TLC

CONSTANTS m1, m2, d1, d2, d3, t1, t2

MCHandle == {m1, m2, d1, d2, d3}
MCExtents == {{m1, m2}, {d1, d2, d3}}
MCThread == {t1, t2}

Sym == Permutations({m1, m2}) \cup Permutations({d1, d2, d3}) \cup Permutations(MCThread)

=============================================================================
