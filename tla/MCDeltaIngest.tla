--------------------------- MODULE MCDeltaIngest ---------------------------
EXTENDS DeltaIngest

CONSTANTS k1, k2, v1, v2

MCBase == {[key |-> k1, time |-> 2, value |-> v1, id |-> <<0, 1>>]}

(* An update with a new row, a late row with a newer one, and one row. *)
MCDelta ==
    {<<[key |-> k1, time |-> 2, value |-> v2], [key |-> k2, time |-> 3, value |-> v1]>>,
     <<[key |-> k2, time |-> 0, value |-> v2], [key |-> k1, time |-> 4, value |-> v1]>>,
     <<[key |-> k2, time |-> 3, value |-> v2]>>}
==============================================================================
