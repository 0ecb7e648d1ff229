-------------------------- MODULE MCTuningService --------------------------
(* Small instances of the tuning service for TLC.                          *)
EXTENDS TuningService

CONSTANTS c1, c2, k1, fast, slow, r0, r1

\* A record whose winner is legal for its set, and one whose winner is not.
RightAndWrong == [legal: {{fast}}, winner: {fast, slow}]

TwoLegalSets == {{fast}, {slow}}
=============================================================================
