--------------------------- MODULE MCMsgPairArray ---------------------------
(* Arrays of the shapes the callers of the machine set up. *)
EXTENDS MsgPairArray

\* A single request with no completion function; several with completion
\* functions (both retried); several that nobody retries.
MCShapes ==
    {[pairs |-> 1..1, comp_fn |-> {}, retry |-> 1..1],
     [pairs |-> 1..2, comp_fn |-> 1..2, retry |-> 1..2],
     [pairs |-> 1..2, comp_fn |-> {}, retry |-> {}]}

=============================================================================
