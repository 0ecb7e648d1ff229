---------------------------- MODULE ShardedStep ----------------------------
(***************************************************************************)
(* The training step of two ranks (Trainer::fit, fit_with_config and       *)
(* fit_scaled): backward, gradient reduction, optimizer step, and under    *)
(* ZeRO the gather of the parameters each rank owns a slice of.  Every     *)
(* parameter has one slice per rank.  A slice is not computed with: its    *)
(* content records how many updates it got and by whose gradients: the     *)
(* mean of both ranks, or one rank's own.  A collective is one step of     *)
(* both ranks; the rendezvous that pairs them is GradientRendezvous.       *)
(***************************************************************************)
EXTENDS Integers

CONSTANTS
  N,               \* parameters, in the order every rank visits them
  Stages,          \* subset of {"none", "zero1", "zero2"}
  Scalings,        \* subset of BOOLEAN: whether the loss is scaled
  InitialScale,    \* LossScaling, as exponents of two
  GrowthInterval,
  MaxBatches       \* BOUND: batches of the run

ASSUME CountsAssumption ==
  /\ N \in Nat \ {0} /\ MaxBatches \in Nat
  /\ InitialScale \in Nat /\ GrowthInterval \in Nat
ASSUME ModesAssumption ==
  Stages \subseteq {"none", "zero1", "zero2"} /\ Scalings \subseteq BOOLEAN

VARIABLES
  stage, scaled,   \* the plan, the same on both ranks
  pc,              \* rank -> where it is in its step
  at,              \* rank -> the parameter its per-parameter walk has reached
  batches,         \* rank -> the batches it has stepped
  value,           \* rank -> slice -> content of its replica
  mean,            \* rank -> the slices whose gradient is the ranks' mean
  bad,             \* rank -> the slices whose gradient is not finite
  scale, finite,   \* rank -> its LossScaleState
  broke            \* history: a rank failed on its own

mode == <<stage, scaled>>
gradients == <<mean, bad>>
scaler == <<scale, finite>>
vars == <<mode, pc, at, batches, value, gradients, scaler, broke>>

Ranks == {0, 1}
Peer(r) == 1 - r
Params == 1..N
Slices == Params \X Ranks
Contents == [updates : Nat, by : SUBSET Ranks]

Places == {"forward", "reduce", "mask", "step", "gather", "readback", "done", "failed"}
Ended(r) == pc[r] \in {"done", "failed"}
Waits(r) == pc[r] \in {"reduce", "gather"}

Init ==
  /\ stage \in Stages /\ scaled \in Scalings
  /\ pc = [r \in Ranks |-> "forward"] /\ at = [r \in Ranks |-> 1]
  /\ batches = [r \in Ranks |-> 0]
  /\ value = [r \in Ranks |-> [s \in Slices |-> [updates |-> 0, by |-> Ranks]]]
  /\ mean = [r \in Ranks |-> {}] /\ bad = [r \in Ranks |-> {}]
  /\ scale = [r \in Ranks |-> InitialScale] /\ finite = [r \in Ranks |-> 0]
  /\ broke = FALSE

\* Mutant: the chunk of the other rank.
OwnedSwapped(r) == Params \X {Peer(r)}
Owned(r) == Params \X {r}
SlicesOf(p) == {p} \X Ranks

Go(r, place) == pc' = [pc EXCEPT ![r] = place]
BothGo(place) == pc' = [r \in Ranks |-> place]

-----------------------------------------------------------------------------
(* One rank's own work                                                     *)

\* Loss and backward: any gradient may have overflowed.  The gradients are
\* at the scale of the moment, which does not change before they are used.
Backward(r) ==
  /\ pc[r] = "forward" /\ batches[r] < MaxBatches
  /\ \E overflow \in SUBSET Slices :
       /\ scaled \/ overflow = {}
       /\ bad' = [bad EXCEPT ![r] = overflow]
  /\ mean' = [mean EXCEPT ![r] = {}]
  /\ at' = [at EXCEPT ![r] = 1]
  /\ Go(r, "reduce")
  /\ UNCHANGED <<mode, batches, value, scaler, broke>>

\* ZeRO-1: zeros outside the owned slices.
Mask(r) ==
  /\ pc[r] = "mask"
  /\ mean' = [mean EXCEPT ![r] = @ \cap Owned(r)]
  /\ bad' = [bad EXCEPT ![r] = @ \cap Owned(r)]
  /\ Go(r, "step")
  /\ UNCHANGED <<mode, at, batches, value, scaler, broke>>

\* LossScaleState::update
Backoff(r) ==
  /\ scale' = [scale EXCEPT ![r] = IF @ = 0 THEN 0 ELSE @ - 1]
  /\ finite' = [finite EXCEPT ![r] = 0]
Grow(r) ==
  IF finite[r] + 1 >= GrowthInterval
    THEN /\ scale' = [scale EXCEPT ![r] = @ + 1]
         /\ finite' = [finite EXCEPT ![r] = 0]
    ELSE /\ scale' = scale
         /\ finite' = [finite EXCEPT ![r] = @ + 1]

\* The optimizer walks whole tensors: a slice without the mean gradient is
\* changed too, by weight decay and by momentum.
Updated(r) ==
  [s \in Slices |->
     [updates |-> value[r][s].updates + 1,
      by |-> IF s \in mean[r] THEN value[r][s].by ELSE {r}]]

\* Mutant: a step that was skipped is not followed by the gather.
AfterStepSkipping(r) ==
  IF stage = "none" \/ (scaled /\ bad[r] # {}) THEN "readback" ELSE "gather"

\* Mutant: only ZeRO-2 gathers.
AfterStepOfZero2(r) == IF stage = "zero2" THEN "gather" ELSE "readback"

AfterStep(r) == IF stage = "none" THEN "readback" ELSE "gather"

\* step, or step_scaled when it finds every gradient of the rank finite.
Step(r) ==
  /\ pc[r] = "step" /\ (scaled => bad[r] = {})
  /\ value' = [value EXCEPT ![r] = Updated(r)]
  /\ IF scaled THEN Grow(r) ELSE UNCHANGED scaler
  /\ at' = [at EXCEPT ![r] = 1]
  /\ Go(r, AfterStep(r))
  /\ UNCHANGED <<mode, batches, gradients, broke>>

\* step_scaled finds an overflow: no update, and the scale backs off.
Skip(r) ==
  /\ pc[r] = "step" /\ scaled /\ bad[r] # {}
  /\ Backoff(r)
  /\ at' = [at EXCEPT ![r] = 1]
  /\ Go(r, AfterStep(r))
  /\ UNCHANGED <<mode, batches, value, gradients, broke>>

Readback(r) ==
  /\ pc[r] = "readback"
  /\ batches' = [batches EXCEPT ![r] = @ + 1]
  /\ Go(r, "forward")
  /\ UNCHANGED <<mode, at, value, gradients, scaler, broke>>

Finish(r) ==
  /\ pc[r] = "forward" /\ batches[r] = MaxBatches
  /\ Go(r, "done")
  /\ UNCHANGED <<mode, at, batches, value, gradients, scaler, broke>>

\* The loss, the optimizer, a copy or a readback fails; or the wait for the
\* other rank times out, or finds that it brought another operation.
Fail(r) ==
  /\ ~Ended(r)
  /\ Go(r, "failed") /\ broke' = TRUE
  /\ UNCHANGED <<mode, at, batches, value, gradients, scaler>>

-----------------------------------------------------------------------------
(* Collectives                                                             *)

Operation(r) ==
  CASE pc[r] = "gather" -> "all_gather"
    [] pc[r] = "reduce" /\ stage = "zero2" -> "reduce_scatter"
    [] OTHER -> "all_reduce"

Meet(operation) == \A r \in Ranks : Waits(r) /\ Operation(r) = operation

\* A mean of gradients at different scales is nobody's mean.
SameScale == scale[0] = scale[1]

\* The mean is finite where both contributions are.
BadAfter(r, slices) == slices \cap (bad[0] \cup bad[1])

AllReduce ==
  /\ Meet("all_reduce")
  /\ mean' = [r \in Ranks |-> IF SameScale THEN Slices ELSE {}]
  /\ bad' = [r \in Ranks |-> BadAfter(r, Slices)]
  /\ BothGo(IF stage = "zero1" THEN "mask" ELSE "step")
  /\ UNCHANGED <<mode, at, batches, value, scaler, broke>>

\* One parameter of each rank's walk: its slice of the mean, zeros elsewhere.
ReduceScatter ==
  /\ Meet("reduce_scatter")
  /\ mean' = [r \in Ranks |->
       mean[r] \cup IF SameScale /\ at[0] = at[1] THEN SlicesOf(at[r]) \cap Owned(r) ELSE {}]
  /\ bad' = [r \in Ranks |->
       (bad[r] \ SlicesOf(at[r])) \cup BadAfter(r, SlicesOf(at[r]) \cap Owned(r))]
  /\ at' = [r \in Ranks |-> at[r] + 1]
  /\ pc' = [r \in Ranks |-> IF at[r] = N THEN "step" ELSE "reduce"]
  /\ UNCHANGED <<mode, batches, value, scaler, broke>>

\* One parameter of each rank's walk: every slice from the rank that owns it.
Gather ==
  /\ Meet("all_gather")
  /\ value' = [r \in Ranks |-> [s \in Slices |->
       IF s[1] = at[r] THEN value[s[2]][<<at[s[2]], s[2]>>] ELSE value[r][s]]]
  /\ at' = [r \in Ranks |-> at[r] + 1]
  /\ pc' = [r \in Ranks |-> IF at[r] = N THEN "readback" ELSE "gather"]
  /\ UNCHANGED <<mode, batches, gradients, scaler, broke>>

\* The other rank is gone: the wait ends with an error.
Refused(r) ==
  /\ Waits(r) /\ Ended(Peer(r))
  /\ Go(r, "failed")
  /\ UNCHANGED <<mode, at, batches, value, gradients, scaler, broke>>

Progress ==
  \/ AllReduce \/ ReduceScatter \/ Gather
  \/ \E r \in Ranks :
       \/ Backward(r) \/ Mask(r) \/ Step(r) \/ Skip(r)
       \/ Readback(r) \/ Finish(r) \/ Refused(r)

Next == Progress \/ \E r \in Ranks : Fail(r)

Spec == Init /\ [][Next]_vars

\* Every rank's thread goes on where it can; nothing has to fail.
FairSpec == Spec /\ WF_vars(Progress)

-----------------------------------------------------------------------------
(* Properties                                                              *)

\* Every variable has its type.
TypeOK ==
  /\ stage \in Stages /\ scaled \in Scalings
  /\ pc \in [Ranks -> Places] /\ at \in [Ranks -> 1..N + 1]
  /\ batches \in [Ranks -> 0..MaxBatches]
  /\ value \in [Ranks -> [Slices -> Contents]]
  /\ mean \in [Ranks -> SUBSET Slices] /\ bad \in [Ranks -> SUBSET Slices]
  /\ scale \in [Ranks -> Nat] /\ finite \in [Ranks -> Nat]
  /\ broke \in BOOLEAN

\* The batches whose update is in the replica of r, when it is not in the
\* middle of one.
Settled(r) == pc[r] \in {"readback", "forward", "reduce", "mask", "done"}
Round(r) == batches[r] + IF pc[r] = "readback" THEN 1 ELSE 0
Level == Settled(0) /\ Settled(1) /\ Round(0) = Round(1)

\* Two ranks that have gone through the same batches have the same parameters,
\* bit for bit, in every mode; so whatever one rank did to a slice it does not
\* own, or skipped, the gather put right.
ReplicasAgree == Level => value[0] = value[1]

\* Both ranks come to their collectives in the same order: when both wait, it
\* is for the same operation on the same parameter of the same batch.  This is
\* why the gather runs after a skipped step.
PairsAlike ==
  Waits(0) /\ Waits(1) =>
    /\ Operation(0) = Operation(1) /\ batches[0] = batches[1]
    /\ Operation(0) # "all_reduce" => at[0] = at[1]

\* Without sharding, or without loss scaling, a settled replica is one that a
\* single process could have: every slice got the same updates, all of them
\* with the mean gradient.
MatchesOneProcess ==
  stage = "none" \/ ~scaled =>
    \A r \in Ranks : Settled(r) =>
      \A s, t \in Slices : value[r][s] = value[r][t] /\ value[r][s].by = Ranks

\* Without sharding the ranks see the same overflows: their scales are equal
\* whenever they have gone through the same batches.
UniformScale == stage = "none" /\ Level => scale[0] = scale[1] /\ finite[0] = finite[1]

\* A run in which no rank fails on its own ends, on both ranks, with every
\* batch stepped: the ranks never stop one another, whatever they skip.
RunsToTheEnd ==
  [](~broke) => <>(\A r \in Ranks : pc[r] = "done")
=============================================================================
