----------------------------- MODULE MCEmitter -----------------------------
(* Two training threads and lanes of one or two events.                    *)
EXTENDS Emitter

CONSTANTS t1, t2
=============================================================================
