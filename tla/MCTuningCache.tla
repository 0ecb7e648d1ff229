--------------------------- MODULE MCTuningCache ---------------------------
(* Small instances of the persistent tuning cache for TLC.                 *)
EXTENDS TuningCache, TLC

CONSTANTS p, q

Roomy == [entries |-> 2, bytes |-> 4, age |-> 9]
Small == [entries |-> 1, bytes |-> 3, age |-> 0]

\* Two records of the roomy process may be too long for the small one, or only
\* too many, or too old.
Mixed == p :> Roomy @@ q :> Small
=============================================================================
