-------------------------- MODULE PipelineSchedule --------------------------
(***************************************************************************)
(* Two-stage pipeline schedules as pure functions of the schedule and the  *)
(* number of microbatches: the clocks each stage works through, the order  *)
(* in which the boundary transfers are launched, and the tag that names a  *)
(* transfer in the plan both ranks hash.  A transfer is named like the     *)
(* compute action that produces it: the forward pass of microbatch m sends *)
(* its activation to stage 1, the backward pass its gradient to stage 0.   *)
(***************************************************************************)
EXTENDS Integers, FiniteSets

CONSTANT MicrobatchLimit  \* microbatch indices a tag can hold: 2^32

ASSUME LimitAssumption == MicrobatchLimit \in Nat \ {0}

Stages == {0, 1}
Schedules == {"GPipe", "1F1B"}
Forward(m) == [pass |-> "forward", microbatch |-> m]
Backward(m) == [pass |-> "backward", microbatch |-> m]
Bubble == [pass |-> "none", microbatch |-> 0]
Actions(M) == [pass: {"forward", "backward"}, microbatch: 0..(M - 1)]

Source(t) == IF t.pass = "forward" THEN 0 ELSE 1
Direction(t) == IF t.pass = "forward" THEN 0 ELSE 1

\* Mutant: the microbatch is not shifted past the direction bit.
TagUnshifted(boundary, t) ==
  2 * (boundary * MicrobatchLimit)
    + t.microbatch + Direction(t) * (1 - (t.microbatch % 2))

\* boundary, microbatch and direction packed into one integer.
PlanTag(boundary, t) ==
  2 * (boundary * MicrobatchLimit + t.microbatch) + Direction(t)

----------------------------------------------------------------------------
(* The order of the transfers, numbered from 1.                            *)

TransferCount(M) == 2 * M

GPipeOrder(M) ==
  [k \in 1..TransferCount(M) |-> IF k <= M THEN Forward(k - 1) ELSE Backward(2 * M - k)]

\* Mutant: every activation is sent before the first gradient.
ForwardsFirst(M) == GPipeOrder(M)

\* F0, then F(m) and B(m - 1) in turn, and B(M - 1) at the end.
OneFOneBOrder(M) ==
  [k \in 1..TransferCount(M) |->
     CASE k = 1 -> Forward(0)
       [] k = 2 * M -> Backward(M - 1)
       [] k \notin {1, 2 * M} /\ k % 2 = 0 -> Forward(k \div 2)
       [] OTHER -> Backward((k - 3) \div 2)]

TransferOrder(schedule, M) ==
  IF schedule = "GPipe" THEN GPipeOrder(M) ELSE OneFOneBOrder(M)

----------------------------------------------------------------------------
(* The clocks, numbered from 0; at each a stage has one action or none.    *)

When(condition, action) == IF condition THEN action ELSE Bubble
Row(zero, one) == [s \in Stages |-> IF s = 0 THEN zero ELSE one]
LastClock(M) == 2 * M + 1

GPipeClock(M, c) ==
  LET d == c - M - 1 IN
  IF c <= M THEN Row(When(c < M, Forward(c)), When(c > 0, Forward(c - 1)))
  ELSE Row(When(d > 0, Backward(M - d)), When(d < M, Backward(M - 1 - d)))

\* Mutant: the stages fill up before they drain.
FillThenDrain(M, c) == GPipeClock(M, c)

OneFOneBClock(M, c) ==
  LET m == (c - 1) \div 2 IN
  CASE c = 0 -> Row(Forward(0), Bubble)
    [] c = 1 -> Row(When(M > 1, Forward(1)), Forward(0))
    [] c = 2 -> Row(Bubble, Backward(0))
    [] c = LastClock(M) -> Row(Backward(M - 1), Bubble)
    [] c \in 3..(2 * M) /\ c % 2 = 1 -> Row(Backward(m - 1), Forward(m))
    [] OTHER -> Row(When(m + 1 < M, Forward(m + 1)), Backward(m))

Clock(schedule, M, c) ==
  IF schedule = "GPipe" THEN GPipeClock(M, c) ELSE OneFOneBClock(M, c)

At(schedule, M, s, action) ==
  {c \in 0..LastClock(M) : Clock(schedule, M, c)[s] = action}

\* validate_clocks: every pass of every microbatch once on every stage, the
\* forward one first, and nothing else.
ValidClocks(schedule, M) ==
  /\ \A s \in Stages, c \in 0..LastClock(M) :
       Clock(schedule, M, c)[s] \in Actions(M) \cup {Bubble}
  /\ \A s \in Stages, m \in 0..(M - 1) :
       \E f, b \in 0..LastClock(M) :
         /\ f < b
         /\ At(schedule, M, s, Forward(m)) = {f}
         /\ At(schedule, M, s, Backward(m)) = {b}

\* Activations a stage retains after its first c clocks.
Live(schedule, M, s, c) ==
  LET made(pass) == {d \in 0..(c - 1) : Clock(schedule, M, d)[s].pass = pass}
  IN  Cardinality(made("forward")) - Cardinality(made("backward"))
=============================================================================
