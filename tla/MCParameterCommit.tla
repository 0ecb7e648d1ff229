------------------------- MODULE MCParameterCommit -------------------------
(* Three leaves, two of them tied.                                         *)
EXTENDS ParameterCommit, TLC

CONSTANTS weight, tied, bias, shared, own, x, y

MCContents == {x, y}
Symmetric == Permutations(MCContents)
MCSlotOf == weight :> shared @@ tied :> shared @@ bias :> own
=============================================================================
