--------------------------- MODULE OrderedStream ---------------------------
(***************************************************************************)
(* What one epoch promises its trainer, however many workers produce it:   *)
(* the batches in order, up to the first one that fails, and a failure     *)
(* named by its own position.  A receive timeout may end the epoch at any  *)
(* position.  Nothing follows a failure.                                   *)
(***************************************************************************)
EXTENDS Naturals, Sequences

CONSTANTS
  Total,       \* batches of the epoch
  Failures,    \* how a batch may fail; a "lost" one is known by the disconnection
  MayTimeOut   \* whether a timeout was asked for

VARIABLES
  outcome,   \* what each batch comes to: "ok" or a failure
  stream,    \* the batches yielded so far
  verdict    \* the failure that ended the epoch, or none

vars == <<outcome, stream, verdict>>

None == [batch |-> 0, failure |-> "none"]
Verdict(batch, failure) == [batch |-> batch, failure |-> failure]

Init ==
  /\ outcome \in [0..Total - 1 -> {"ok"} \cup Failures]
  /\ stream = <<>>
  /\ verdict = None

Position == Len(stream)

Deliver ==
  /\ verdict = None /\ Position < Total /\ outcome[Position] = "ok"
  /\ stream' = Append(stream, Position)
  /\ UNCHANGED <<outcome, verdict>>

Fail ==
  /\ verdict = None /\ Position < Total /\ outcome[Position] # "ok"
  /\ verdict' = Verdict(Position, IF outcome[Position] = "lost" THEN "disconnected"
                                  ELSE outcome[Position])
  /\ UNCHANGED <<outcome, stream>>

TimeOut ==
  /\ MayTimeOut /\ verdict = None /\ Position < Total
  /\ verdict' = Verdict(Position, "timeout")
  /\ UNCHANGED <<outcome, stream>>

Next == Deliver \/ Fail \/ TimeOut

Spec == Init /\ [][Next]_vars
=============================================================================
