--------------------------- MODULE TrainingProofs ---------------------------
(***************************************************************************)
(* Proofs about what runs while a model trains.                            *)
(*                                                                         *)
(* The training step of two ranks, for any number of parameters and        *)
(* batches and any loss scaling: the ranks come to their collectives in    *)
(* the same order, their replicas agree, and without sharding or without   *)
(* scaling they are a single process's.  Neither keeps the other waiting   *)
(* for ever unless a rank fails, and a run without failures is finite.     *)
(*                                                                         *)
(* The telemetry emitter, for any number of producers, any capacity of its *)
(* lanes and any size of a batch: what overflows is counted, priority      *)
(* events do not starve, and shutdown loses nothing.                       *)
(***************************************************************************)
EXTENDS ShardedStep, Emitter, FiniteSetTheorems, TLAPS

(* The sharded step *)

BothRun == pc[0] # "failed" /\ pc[1] # "failed"

\* What a place in the step allows.
Placed ==
  \A r \in Ranks :
    /\ pc[r] \in {"reduce", "mask", "step", "gather", "readback"} => batches[r] < MaxBatches
    /\ Waits(r) => at[r] <= N
    /\ pc[r] = "reduce" /\ stage # "zero2" => at[r] = 1
    /\ pc[r] = "gather" => stage # "none"
    /\ pc[r] = "mask" => stage = "zero1"

\* Between two collectives a rank runs freely: what is the same for all places
\* in between is whether a sharded step is open, how many batches are reduced
\* or stepped, and how far the walk over the parameters has come.
Half(r) == stage # "none" /\ pc[r] \in {"mask", "step", "gather"}
Count(r) ==
  batches[r] + IF pc[r] = "readback" \/ (stage = "none" /\ pc[r] = "step") THEN 1 ELSE 0
Walked(r) == IF Waits(r) THEN at[r] ELSE 1

Aligned ==
  BothRun => /\ Half(0) <=> Half(1)
             /\ Count(0) = Count(1) /\ Walked(0) = Walked(1)

\* With sharding: equal before either rank has stepped, and then as far as both
\* have gathered.
Agreed ==
  BothRun /\ stage # "none" =>
    /\ pc[0] # "gather" /\ pc[1] # "gather" => value[0] = value[1]
    /\ pc[0] = "gather" /\ pc[1] = "gather" =>
         \A s \in Slices : s[1] < at[0] => value[0][s] = value[1][s]

\* What r will have when it has made the step it is about to make.
Skips(r) == scaled /\ bad[r] # {}
NextValue(r) == IF pc[r] = "step" /\ ~Skips(r) THEN Updated(r) ELSE value[r]
Grows(r) == finite[r] + 1 >= GrowthInterval
NextScale(r) ==
  IF pc[r] # "step" \/ ~scaled THEN scale[r]
  ELSE IF Skips(r) THEN (IF scale[r] = 0 THEN 0 ELSE scale[r] - 1)
  ELSE IF Grows(r) THEN scale[r] + 1 ELSE scale[r]
NextFinite(r) ==
  IF pc[r] # "step" \/ ~scaled THEN finite[r]
  ELSE IF Skips(r) \/ Grows(r) THEN 0 ELSE finite[r] + 1

\* Without sharding both ranks step the same gradients, so that they are the
\* same once each has made its step.
StepsMeans == stage = "none" => \A r \in Ranks : pc[r] = "step" => mean[r] = Slices
Twins ==
  BothRun /\ stage = "none" =>
    /\ NextValue(0) = NextValue(1)
    /\ NextScale(0) = NextScale(1) /\ NextFinite(0) = NextFinite(1)
Uniform ==
  stage = "none" =>
    \A r \in Ranks : \A s, t \in Slices : value[r][s] = value[r][t] /\ value[r][s].by = Ranks

\* With sharding and without scaling a rank has the mean gradient of the slices
\* it owns, as far as it has reduced, and its replica is exact but for the
\* slices it has yet to gather.
Covered ==
  ~scaled =>
    /\ SameScale
    /\ stage # "none" => \A r \in Ranks : \A s \in Owned(r) :
         \/ pc[r] \in {"mask", "step"}
         \/ pc[r] = "reduce" /\ s[1] < at[r]
         => s \in mean[r]
Stepped(r) == batches[r] + IF pc[r] \in {"gather", "readback"} THEN 1 ELSE 0
Exact ==
  ~scaled /\ stage # "none" =>
    \A r \in Ranks : pc[r] # "failed" => \A s \in Slices :
      pc[r] # "gather" \/ s[2] = r \/ s[1] < at[r] =>
        value[r][s] = [updates |-> Stepped(r), by |-> Ranks]

----------------------------------------------------------------------------
(* Types and places.                                                       *)

LEMMA SliceTypes ==
  /\ \A r \in Ranks : Owned(r) \subseteq Slices
  /\ \A p \in Params : SlicesOf(p) \subseteq Slices
  /\ \A s \in Slices : s[1] \in Params /\ s[2] \in Ranks
  /\ 1 \in Params
BY CountsAssumption DEF Owned, SlicesOf, Slices, Ranks, Params

LEMMA PlaceTypes ==
  {"forward", "reduce", "mask", "step", "gather", "readback", "done", "failed"} = Places
BY DEF Places

LEMMA TypeInit == Init => TypeOK /\ Placed
<1>. SUFFICES ASSUME Init PROVE TypeOK /\ Placed
  OBVIOUS
<1>1. [updates |-> 0, by |-> Ranks] \in Contents
  BY DEF Contents
<1>2. 1 \in 1..N + 1 /\ 0 \in 0..MaxBatches /\ InitialScale \in Nat
  BY CountsAssumption
<1>3. TypeOK
  BY <1>1, <1>2 DEF Init, TypeOK, Places
<1>4. Placed
  BY DEF Init, Placed, Waits
<1>. QED  BY <1>3, <1>4

\* Where the ranks are when they meet.
LEMMA MeetingPlaces ==
  ASSUME TypeOK, Placed, NEW r \in Ranks
  PROVE  /\ AllReduce => pc[r] = "reduce" /\ at[r] = 1 /\ stage # "zero2"
         /\ ReduceScatter => pc[r] = "reduce" /\ at[r] \in Params /\ stage = "zero2"
         /\ Gather => pc[r] = "gather" /\ at[r] \in Params /\ stage # "none"
<1>1. Waits(r) => at[r] \in Params
  BY CountsAssumption DEF TypeOK, Placed, Params
<1>2. ASSUME AllReduce PROVE pc[r] = "reduce" /\ at[r] = 1 /\ stage # "zero2"
  BY <1>2 DEF AllReduce, Meet, Waits, Operation, Placed
<1>3. ASSUME ReduceScatter PROVE pc[r] = "reduce" /\ at[r] \in Params /\ stage = "zero2"
  BY <1>1, <1>3 DEF ReduceScatter, Meet, Waits, Operation
<1>4. ASSUME Gather PROVE pc[r] = "gather" /\ at[r] \in Params /\ stage # "none"
  <2>1. Waits(r) /\ Operation(r) = "all_gather"
    BY <1>4 DEF Gather, Meet
  <2>2. pc[r] = "gather"
    BY <2>1 DEF Waits, Operation
  <2>. QED  BY <1>1, <2>1, <2>2 DEF Placed
<1>. QED  BY <1>2, <1>3, <1>4

LEMMA UpdatedType == ASSUME TypeOK, NEW r \in Ranks PROVE Updated(r) \in [Slices -> Contents]
<1>. SUFFICES ASSUME NEW s \in Slices
              PROVE  [updates |-> value[r][s].updates + 1,
                      by |-> IF s \in mean[r] THEN value[r][s].by ELSE {r}] \in Contents
  BY DEF Updated
<1>1. value[r][s] \in Contents
  BY DEF TypeOK
<1>2. value[r][s].updates + 1 \in Nat /\ value[r][s].by \in SUBSET Ranks /\ {r} \in SUBSET Ranks
  BY <1>1 DEF Contents
<1>. QED  BY <1>2 DEF Contents

LEMMA TypeNext == TypeOK /\ Placed /\ [Next]_vars => TypeOK' /\ Placed'
<1>. SUFFICES ASSUME TypeOK, Placed, [Next]_vars PROVE TypeOK' /\ Placed'
  OBVIOUS
<1>. USE CountsAssumption, PlaceTypes DEF mode, gradients, scaler, Go, BothGo
<1>1. CASE UNCHANGED vars
  BY <1>1 DEF vars, TypeOK, Placed, Waits
<1>2. CASE AllReduce
  <2>1. mean' \in [Ranks -> SUBSET Slices] /\ bad' \in [Ranks -> SUBSET Slices]
    BY <1>2 DEF AllReduce, BadAfter
  <2>. QED  BY <1>2, <2>1 DEF AllReduce, Meet, Operation, TypeOK, Placed, Waits
<1>3. CASE ReduceScatter
  <2>0. \A r \in Ranks : pc[r] = "reduce" /\ at[r] \in Params /\ stage = "zero2"
    BY <1>3, MeetingPlaces
  <2>1. mean' \in [Ranks -> SUBSET Slices]
    <3>1. \A r \in Ranks : mean'[r] \subseteq Slices
      BY <1>3, <2>0, SliceTypes DEF ReduceScatter, TypeOK
    <3>. QED  BY <1>3, <3>1 DEF ReduceScatter
  <2>2. bad' \in [Ranks -> SUBSET Slices]
    <3>1. \A r \in Ranks : bad'[r] \subseteq Slices
      BY <1>3, <2>0, SliceTypes DEF ReduceScatter, BadAfter, TypeOK
    <3>. QED  BY <1>3, <3>1 DEF ReduceScatter
  <2>3. at' \in [Ranks -> 1..N + 1] /\ \A r \in Ranks : pc'[r] = "reduce" => at'[r] <= N
    <3>1. at' = [r \in Ranks |-> at[r] + 1]
          /\ \A r \in Ranks : pc'[r] = "reduce" => at[r] # N
      BY <1>3 DEF ReduceScatter
    <3>2. \A r \in Ranks : at[r] \in 1..N /\ at[r] + 1 \in 1..N + 1
      BY <2>0 DEF Params
    <3>3. \A r \in Ranks : at[r] # N => at[r] + 1 <= N
      BY <3>2
    <3>. QED  BY <3>1, <3>2, <3>3
  <2>4. pc' \in [Ranks -> Places] /\ \A r \in Ranks : pc'[r] \in {"reduce", "step"}
    BY <1>3 DEF ReduceScatter
  <2>5. TypeOK'
    BY <1>3, <2>1, <2>2, <2>3, <2>4 DEF ReduceScatter, TypeOK
  <2>. QED  BY <1>3, <2>0, <2>3, <2>4, <2>5 DEF ReduceScatter, Placed, Waits
<1>4. CASE Gather
  <2>0. \A r \in Ranks : pc[r] = "gather" /\ at[r] \in Params /\ stage # "none"
    BY <1>4, MeetingPlaces
  <2>1. value' \in [Ranks -> [Slices -> Contents]]
    <3>1. ASSUME NEW r \in Ranks, NEW s \in Slices
          PROVE  (IF s[1] = at[r] THEN value[s[2]][<<at[s[2]], s[2]>>] ELSE value[r][s])
                   \in Contents
      <4>1. s[2] \in Ranks /\ <<at[s[2]], s[2]>> \in Slices
        BY <2>0, SliceTypes DEF Slices
      <4>. QED  BY <4>1 DEF TypeOK
    <3>. QED  BY <1>4, <3>1 DEF Gather
  <2>2. at' \in [Ranks -> 1..N + 1] /\ \A r \in Ranks : pc'[r] = "gather" => at'[r] <= N
    <3>1. at' = [r \in Ranks |-> at[r] + 1]
          /\ \A r \in Ranks : pc'[r] = "gather" => at[r] # N
      BY <1>4 DEF Gather
    <3>2. \A r \in Ranks : at[r] \in 1..N /\ at[r] + 1 \in 1..N + 1
      BY <2>0 DEF Params
    <3>3. \A r \in Ranks : at[r] # N => at[r] + 1 <= N
      BY <3>2
    <3>. QED  BY <3>1, <3>2, <3>3
  <2>3. pc' \in [Ranks -> Places] /\ \A r \in Ranks : pc'[r] \in {"gather", "readback"}
    BY <1>4 DEF Gather
  <2>4. TypeOK'
    BY <1>4, <2>1, <2>2, <2>3 DEF Gather, TypeOK
  <2>. QED  BY <1>4, <2>0, <2>2, <2>3, <2>4 DEF Gather, Placed, Waits
<1>5. ASSUME NEW r \in Ranks, Backward(r) PROVE TypeOK' /\ Placed'
  <2>1. bad' \in [Ranks -> SUBSET Slices]
    BY <1>5 DEF Backward, TypeOK
  <2>. QED  BY <1>5, <2>1 DEF Backward, TypeOK, Placed, Waits
<1>6. ASSUME NEW r \in Ranks, Mask(r) PROVE TypeOK' /\ Placed'
  BY <1>6 DEF Mask, TypeOK, Placed, Waits
<1>7. ASSUME NEW r \in Ranks, Step(r) \/ Skip(r) PROVE TypeOK' /\ Placed'
  <2>1. value' \in [Ranks -> [Slices -> Contents]]
    BY <1>7, UpdatedType DEF Step, Skip, TypeOK
  <2>2. scale' \in [Ranks -> Nat] /\ finite' \in [Ranks -> Nat]
    <3>1. scale[r] \in Nat /\ finite[r] \in Nat /\ (scale[r] # 0 => scale[r] - 1 \in Nat)
      BY DEF TypeOK
    <3>2. CASE UNCHANGED scaler
      BY <3>2 DEF TypeOK
    <3>3. CASE Backoff(r)
      BY <3>1, <3>3 DEF Backoff, TypeOK
    <3>4. CASE Grow(r)
      BY <3>1, <3>4 DEF Grow, TypeOK
    <3>. QED  BY <1>7, <3>2, <3>3, <3>4 DEF Step, Skip
  <2>3. UNCHANGED <<stage, scaled, batches, mean, bad, broke>>
        /\ at' = [at EXCEPT ![r] = 1] /\ pc' = [pc EXCEPT ![r] = AfterStep(r)] /\ pc[r] = "step"
    BY <1>7 DEF Step, Skip
  <2>. QED  BY <2>1, <2>2, <2>3 DEF AfterStep, TypeOK, Placed, Waits
<1>8. ASSUME NEW r \in Ranks, Readback(r) \/ Finish(r) \/ Refused(r) \/ Fail(r)
      PROVE  TypeOK' /\ Placed'
  <2>1. CASE Readback(r)
    <3>1. batches[r] \in 0..MaxBatches /\ batches[r] < MaxBatches
      BY <2>1 DEF Readback, TypeOK, Placed
    <3>2. batches[r] + 1 \in 0..MaxBatches
      BY <3>1
    <3>. QED  BY <2>1, <3>2 DEF Readback, TypeOK, Placed, Waits
  <2>2. CASE Finish(r)
    BY <2>2 DEF Finish, TypeOK, Placed, Waits
  <2>3. CASE Refused(r) \/ Fail(r)
    BY <2>3 DEF Refused, Fail, TypeOK, Placed, Waits
  <2>. QED  BY <1>8, <2>1, <2>2, <2>3
<1>. QED  BY <1>1, <1>2, <1>3, <1>4, <1>5, <1>6, <1>7, <1>8 DEF Next, Progress

\* Every reachable state is well typed.
THEOREM TypeCorrect == Spec => []TypeOK
BY TypeInit, TypeNext, PTL DEF Spec
----------------------------------------------------------------------------
(* The ranks keep pace.                                                    *)

\* One rank's own step.
Own(r) ==
  \/ Backward(r) \/ Mask(r) \/ Step(r) \/ Skip(r) \/ Readback(r)
  \/ Finish(r) \/ Refused(r) \/ Fail(r)

LEMMA NextCases ==
  [Next]_vars => UNCHANGED vars \/ AllReduce \/ ReduceScatter \/ Gather \/ \E r \in Ranks : Own(r)
BY DEF Next, Progress, Own

\* What a rank's own step leaves alone.
LEMMA OwnFrame ==
  ASSUME TypeOK, NEW r \in Ranks, Own(r)
  PROVE  /\ UNCHANGED <<stage, scaled>> /\ pc[r] # "failed"
         /\ \A q \in Ranks : q # r =>
              /\ pc'[q] = pc[q] /\ at'[q] = at[q] /\ batches'[q] = batches[q]
              /\ value'[q] = value[q] /\ mean'[q] = mean[q] /\ bad'[q] = bad[q]
              /\ scale'[q] = scale[q] /\ finite'[q] = finite[q]
<1>. USE DEF mode, gradients, scaler, Go, TypeOK
<1>1. CASE Backward(r)
  BY <1>1 DEF Backward
<1>2. CASE Mask(r)
  BY <1>2 DEF Mask
<1>3. CASE Step(r)
  <2>1. \A q \in Ranks : q # r => scale'[q] = scale[q] /\ finite'[q] = finite[q]
    BY <1>3 DEF Step, Grow
  <2>. QED  BY <1>3, <2>1 DEF Step
<1>4. CASE Skip(r)
  BY <1>4 DEF Skip, Backoff
<1>5. CASE Readback(r) \/ Finish(r) \/ Refused(r) \/ Fail(r)
  BY <1>5 DEF Readback, Finish, Refused, Fail, Ended, Waits
<1>. QED  BY <1>1, <1>2, <1>3, <1>4, <1>5 DEF Own

\* A rank that failed stays so.
LEMMA FailedStays == ASSUME TypeOK, Placed, [Next]_vars, BothRun' PROVE BothRun
<1>1. CASE UNCHANGED vars
  BY <1>1 DEF vars, BothRun
<1>2. CASE AllReduce \/ ReduceScatter \/ Gather
  BY <1>2, MeetingPlaces DEF BothRun, Ranks
<1>3. ASSUME NEW r \in Ranks, Own(r) PROVE BothRun
  BY <1>3, OwnFrame DEF BothRun, Ranks
<1>. QED  BY <1>1, <1>2, <1>3, NextCases

LEMMA AlignedNext == TypeOK /\ Placed /\ Aligned /\ [Next]_vars => Aligned'
<1>. SUFFICES ASSUME TypeOK, Placed, Aligned, [Next]_vars, BothRun'
              PROVE  (/\ Half(0) <=> Half(1)
                      /\ Count(0) = Count(1) /\ Walked(0) = Walked(1))'
  BY DEF Aligned
<1>. USE CountsAssumption DEF mode, gradients, scaler, Go, BothGo
<1>0. \A r \in Ranks : batches[r] \in Nat /\ at[r] \in Nat
  BY DEF TypeOK
<1>1. BothRun
  BY FailedStays
<1>2. /\ Half(0) <=> Half(1)
      /\ Count(0) = Count(1) /\ Walked(0) = Walked(1)
  BY <1>1 DEF Aligned
<1>3. ASSUME NEW r \in Ranks, Own(r)
      PROVE  \A q \in Ranks : (Half(q)' <=> Half(q)) /\ Count(q)' = Count(q) /\ Walked(q)' = Walked(q)
  <2>. DEFINE Same(q) == (Half(q)' <=> Half(q)) /\ Count(q)' = Count(q) /\ Walked(q)' = Walked(q)
  <2>1. ASSUME NEW q \in Ranks, q # r PROVE Same(q)
    <3>1. pc'[q] = pc[q] /\ at'[q] = at[q] /\ batches'[q] = batches[q] /\ stage' = stage
      BY <1>3, <2>1, OwnFrame
    <3>. QED  BY <3>1 DEF Half, Count, Walked, Waits
  <2>2. Same(r)
    <3>0. stage' = stage
      BY <1>3, OwnFrame
    <3>1. CASE Backward(r)
      BY <1>0, <3>0, <3>1 DEF Backward, TypeOK, Half, Count, Walked, Waits
    <3>2. CASE Mask(r)
      BY <1>0, <3>0, <3>2 DEF Mask, TypeOK, Placed, Half, Count, Walked, Waits
    <3>3. CASE Step(r) \/ Skip(r)
      <4>1. /\ pc[r] = "step" /\ pc'[r] = IF stage = "none" THEN "readback" ELSE "gather"
            /\ at'[r] = 1 /\ batches'[r] = batches[r]
        BY <3>3 DEF Step, Skip, AfterStep, TypeOK
      <4>. QED  BY <1>0, <3>0, <4>1 DEF Half, Count, Walked, Waits
    <3>4. CASE Readback(r)
      BY <1>0, <3>0, <3>4 DEF Readback, TypeOK, Half, Count, Walked, Waits
    <3>5. CASE Finish(r)
      BY <1>0, <3>0, <3>5 DEF Finish, TypeOK, Half, Count, Walked, Waits
    <3>6. CASE Refused(r) \/ Fail(r)
      BY <3>6 DEF Refused, Fail, TypeOK, BothRun, Ranks
    <3>. QED  BY <1>3, <3>1, <3>2, <3>3, <3>4, <3>5, <3>6 DEF Own
  <2>. QED  BY <2>1, <2>2
<1>4. CASE UNCHANGED vars
  BY <1>2, <1>4 DEF vars, Half, Count, Walked, Waits
<1>5. CASE AllReduce
  <2>1. \A r \in Ranks : pc[r] = "reduce" /\ at[r] = 1
    BY <1>5, MeetingPlaces
  <2>2. /\ \A r \in Ranks : pc'[r] = IF stage = "zero1" THEN "mask" ELSE "step"
        /\ UNCHANGED <<stage, at, batches>>
    BY <1>5 DEF AllReduce
  <2>. QED  BY <1>0, <1>2, <2>1, <2>2 DEF Half, Count, Walked, Waits, Ranks
<1>6. CASE ReduceScatter
  <2>1. \A r \in Ranks : pc[r] = "reduce" /\ stage = "zero2"
    BY <1>6, MeetingPlaces
  <2>2. /\ \A r \in Ranks : pc'[r] = (IF at[r] = N THEN "step" ELSE "reduce") /\ at'[r] = at[r] + 1
        /\ UNCHANGED <<stage, batches>>
    BY <1>6 DEF ReduceScatter
  <2>. QED  BY <1>0, <1>2, <2>1, <2>2 DEF Half, Count, Walked, Waits, Ranks
<1>7. CASE Gather
  <2>1. \A r \in Ranks : pc[r] = "gather" /\ stage # "none"
    BY <1>7, MeetingPlaces
  <2>2. /\ \A r \in Ranks : pc'[r] = (IF at[r] = N THEN "readback" ELSE "gather") /\ at'[r] = at[r] + 1
        /\ UNCHANGED <<stage, batches>>
    BY <1>7 DEF Gather
  <2>. QED  BY <1>0, <1>2, <2>1, <2>2 DEF Half, Count, Walked, Waits, Ranks
<1>8. ASSUME NEW r \in Ranks, Own(r)
      PROVE (/\ Half(0) <=> Half(1)
             /\ Count(0) = Count(1) /\ Walked(0) = Walked(1))'
  BY <1>2, <1>3, <1>8 DEF Ranks
<1>. QED  BY <1>4, <1>5, <1>6, <1>7, <1>8, NextCases

LEMMA AlignedAlike == TypeOK /\ Placed /\ Aligned => PairsAlike
<1>. SUFFICES ASSUME TypeOK, Placed, Aligned, Waits(0), Waits(1)
              PROVE  /\ Operation(0) = Operation(1) /\ batches[0] = batches[1] /\ at[0] = at[1]
  BY DEF PairsAlike
<1>1. Half(0) <=> Half(1)
  BY DEF Aligned, BothRun, Waits
<1>2. \A r \in Ranks : Half(r) <=> pc[r] = "gather"
  BY DEF Half, Placed, Waits, Ranks
<1>3. Operation(0) = Operation(1)
  BY <1>1, <1>2 DEF Operation, Waits, Ranks
<1>4. batches[0] = batches[1] /\ at[0] = at[1]
  BY DEF Aligned, BothRun, Waits, Count, Walked, TypeOK, Ranks
<1>. QED  BY <1>3, <1>4

----------------------------------------------------------------------------
(* The replicas of a sharded run.                                          *)

LEMMA AgreedNext == TypeOK /\ Placed /\ Aligned /\ Agreed /\ [Next]_vars => Agreed'
<1>. SUFFICES ASSUME TypeOK, Placed, Aligned, Agreed, [Next]_vars, BothRun', stage' # "none"
              PROVE  (/\ pc[0] # "gather" /\ pc[1] # "gather" => value[0] = value[1]
                      /\ pc[0] = "gather" /\ pc[1] = "gather" =>
                           \A s \in Slices : s[1] < at[0] => value[0][s] = value[1][s])'
  BY DEF Agreed
<1>. USE CountsAssumption DEF mode, gradients, scaler, Go, BothGo
<1>1. BothRun
  BY FailedStays
<1>2. stage # "none" => /\ pc[0] # "gather" /\ pc[1] # "gather" => value[0] = value[1]
                        /\ pc[0] = "gather" /\ pc[1] = "gather" =>
                             \A s \in Slices : s[1] < at[0] => value[0][s] = value[1][s]
  BY <1>1 DEF Agreed
<1>3. CASE UNCHANGED vars
  BY <1>2, <1>3 DEF vars
<1>4. CASE AllReduce \/ ReduceScatter
  <2>1. /\ \A r \in Ranks : pc[r] = "reduce" /\ pc'[r] # "gather"
        /\ UNCHANGED <<stage, value>>
    <3>1. \A r \in Ranks : pc[r] = "reduce"
      BY <1>4, MeetingPlaces
    <3>2. \A r \in Ranks : pc'[r] # "gather"
      BY <1>4 DEF AllReduce, ReduceScatter
    <3>. QED  BY <1>4, <3>1, <3>2 DEF AllReduce, ReduceScatter
  <2>. QED  BY <1>2, <2>1 DEF Ranks
<1>5. CASE Gather
  <2>1. \A r \in Ranks : pc[r] = "gather" /\ at[r] \in Params /\ stage # "none"
    BY <1>5, MeetingPlaces
  <2>2. at[0] = at[1]
    BY <1>1, <2>1 DEF Aligned, Walked, Waits, Ranks
  <2>3. /\ \A r \in Ranks : at'[r] = at[r] + 1
        /\ \A r \in Ranks : pc'[r] = IF at[r] = N THEN "readback" ELSE "gather"
        /\ \A r \in Ranks : value'[r] = [s \in Slices |->
              IF s[1] = at[r] THEN value[s[2]][<<at[s[2]], s[2]>>] ELSE value[r][s]]
    BY <1>5 DEF Gather
  <2>4. ASSUME NEW s \in Slices, s[1] < at[0] + 1 PROVE value'[0][s] = value'[1][s]
    <3>1. CASE s[1] = at[0]
      <4>1. \A r \in Ranks : s[1] = at[r]
        BY <2>2, <3>1 DEF Ranks
      <4>2. \A r \in Ranks : value'[r][s] = value[s[2]][<<at[s[2]], s[2]>>]
        <5>1. ASSUME NEW r \in Ranks
              PROVE  value'[r][s]
                       = IF s[1] = at[r] THEN value[s[2]][<<at[s[2]], s[2]>>] ELSE value[r][s]
          BY <2>3, Zenon
        <5>. QED  BY <4>1, <5>1
      <4>. QED  BY <4>2 DEF Ranks
    <3>2. CASE s[1] # at[0]
      <4>1. s[1] < at[0]
        BY <2>1, <2>4, <3>2, SliceTypes DEF Params, Ranks
      <4>. QED  BY <1>2, <2>1, <2>2, <2>3, <3>2, <4>1 DEF Ranks
    <3>. QED  BY <3>1, <3>2
  <2>5. ASSUME at[0] = N PROVE value'[0] = value'[1]
    <3>1. \A s \in Slices : value'[0][s] = value'[1][s]
      BY <2>4, <2>5, SliceTypes DEF Params
    <3>2. value' \in [Ranks -> [Slices -> Contents]]
      BY TypeNext DEF TypeOK
    <3>. QED  BY <3>1, <3>2 DEF Ranks
  <2>. QED  BY <2>2, <2>3, <2>4, <2>5 DEF Ranks
<1>6. ASSUME NEW r \in Ranks, Own(r)
      PROVE  (/\ pc[0] # "gather" /\ pc[1] # "gather" => value[0] = value[1]
              /\ pc[0] = "gather" /\ pc[1] = "gather" =>
                   \A s \in Slices : s[1] < at[0] => value[0][s] = value[1][s])'
  <2>0. stage' = stage /\ \A q \in Ranks : q # r => pc'[q] = pc[q] /\ at'[q] = at[q]
    BY <1>6, OwnFrame
  <2>1. CASE Step(r) \/ Skip(r)
    \* It opens its gather; the other one is at the head of its own, or before it.
    <3>1. pc[r] = "step" /\ pc'[r] = "gather" /\ at'[r] = 1
      BY <2>0, <2>1 DEF Step, Skip, AfterStep, TypeOK
    <3>2. \A q \in Ranks : q # r /\ pc[q] = "gather" => at[q] = 1
      BY <1>1, <3>1 DEF Aligned, Walked, Waits, Ranks
    <3>3. pc'[0] = "gather" /\ pc'[1] = "gather" => at'[0] = 1
      BY <2>0, <3>1, <3>2 DEF Ranks
    <3>4. \A s \in Slices : ~(s[1] < 1)
      BY SliceTypes DEF Params
    <3>. QED  BY <3>1, <3>3, <3>4 DEF Ranks
  <2>2. CASE ~(Step(r) \/ Skip(r))
    <3>1. value' = value
      BY <1>6, <2>2 DEF Own, Backward, Mask, Readback, Finish, Refused, Fail
    <3>2. pc'[r] # "gather" /\ (pc[r] = "gather" => pc'[r] = "failed")
      BY <1>6, <2>2 DEF Own, Backward, Mask, Readback, Finish, Refused, Fail, TypeOK
    <3>. QED  BY <1>2, <2>0, <3>1, <3>2 DEF BothRun, Ranks
  <2>. QED  BY <2>1, <2>2
<1>. QED  BY <1>3, <1>4, <1>5, <1>6, NextCases

----------------------------------------------------------------------------
(* Without sharding.                                                       *)

\* Without sharding the mean is everybody's.
LEMMA ReduceAlone ==
  ASSUME TypeOK, Placed, Twins, stage = "none", AllReduce
  PROVE  /\ SameScale /\ \A r \in Ranks : pc[r] = "reduce" /\ pc'[r] = "step"
         /\ value[0] = value[1] /\ finite[0] = finite[1] /\ UNCHANGED <<mode, value, scaler>>
         /\ \A r \in Ranks : mean'[r] = Slices /\ bad'[r] = BadAfter(r, Slices)
<1>1. \A r \in Ranks : pc[r] = "reduce"
  BY MeetingPlaces
<1>2. value[0] = value[1] /\ scale[0] = scale[1] /\ finite[0] = finite[1]
  BY <1>1 DEF Twins, BothRun, NextValue, NextScale, NextFinite, Ranks
<1>. QED  BY <1>1, <1>2 DEF AllReduce, SameScale, BothGo, mode, scaler

\* A rank's own step is the one it was about to make.
LEMMA OwnForeseen ==
  ASSUME TypeOK, Placed, stage = "none", NEW r \in Ranks, Own(r), pc'[r] # "failed"
  PROVE  /\ NextValue(r)' = NextValue(r)
         /\ NextScale(r)' = NextScale(r) /\ NextFinite(r)' = NextFinite(r)
<1>. USE DEF mode, gradients, scaler, Go, NextValue, NextScale, NextFinite, Skips, Grows
<1>1. CASE Backward(r) \/ Readback(r) \/ Finish(r)
  <2>1. pc[r] # "step" /\ pc'[r] # "step" /\ UNCHANGED <<value, scale, finite>>
    BY <1>1 DEF Backward, Readback, Finish, TypeOK
  <2>. QED  BY <2>1
<1>2. CASE Mask(r)
  BY <1>2 DEF Mask, Placed
<1>3. CASE Step(r)
  <2>1. /\ pc[r] = "step" /\ pc'[r] = "readback" /\ value'[r] = Updated(r)
        /\ scaled' = scaled /\ (scaled => bad[r] = {})
    BY <1>3 DEF Step, AfterStep, TypeOK
  <2>2. CASE scaled
    <3>1. /\ scale'[r] = IF finite[r] + 1 >= GrowthInterval THEN scale[r] + 1 ELSE scale[r]
          /\ finite'[r] = IF finite[r] + 1 >= GrowthInterval THEN 0 ELSE finite[r] + 1
      BY <1>3, <2>2 DEF Step, Grow, TypeOK
    <3>. QED  BY <2>1, <2>2, <3>1
  <2>3. CASE ~scaled
    BY <1>3, <2>1, <2>3 DEF Step
  <2>. QED  BY <2>2, <2>3
<1>4. CASE Skip(r)
  <2>1. /\ pc[r] = "step" /\ pc'[r] = "readback" /\ scaled /\ bad[r] # {} /\ value' = value
        /\ scale'[r] = (IF scale[r] = 0 THEN 0 ELSE scale[r] - 1) /\ finite'[r] = 0
    BY <1>4 DEF Skip, AfterStep, Backoff, TypeOK
  <2>. QED  BY <2>1
<1>5. CASE Refused(r) \/ Fail(r)
  BY <1>5 DEF Refused, Fail, TypeOK
<1>. QED  BY <1>1, <1>2, <1>3, <1>4, <1>5 DEF Own

LEMMA TwinsNext == TypeOK /\ Placed /\ Twins /\ [Next]_vars => Twins'
<1>. SUFFICES ASSUME TypeOK, Placed, Twins, [Next]_vars, BothRun', stage' = "none"
              PROVE  (/\ NextValue(0) = NextValue(1)
                      /\ NextScale(0) = NextScale(1) /\ NextFinite(0) = NextFinite(1))'
  BY DEF Twins
<1>1. BothRun
  BY FailedStays
<1>2. stage = "none" => /\ NextValue(0) = NextValue(1)
                        /\ NextScale(0) = NextScale(1) /\ NextFinite(0) = NextFinite(1)
  BY <1>1 DEF Twins
<1>3. CASE UNCHANGED vars
  BY <1>2, <1>3 DEF vars, mode, gradients, scaler, NextValue, NextScale, NextFinite, Skips, Grows, Updated
<1>4. CASE AllReduce
  <2>1. stage = "none" /\ scaled' = scaled
    BY <1>4 DEF AllReduce, mode
  <2>2. /\ SameScale /\ \A r \in Ranks : pc'[r] = "step"
        /\ value[0] = value[1] /\ finite[0] = finite[1] /\ UNCHANGED <<value, scale, finite>>
        /\ mean'[0] = Slices /\ mean'[1] = Slices
        /\ bad'[0] = bad'[1]
    BY <1>4, <2>1, ReduceAlone DEF Ranks, BadAfter, scaler
  <2>3. Updated(0)' = Updated(1)'
    <3>1. \A s \in Slices :
            (IF s \in mean'[0] THEN value'[0][s].by ELSE {0})
              = (IF s \in mean'[1] THEN value'[1][s].by ELSE {1})
      BY <2>2
    <3>2. value'[0] = value'[1]
      BY <2>2
    <3>. QED  BY <3>1, <3>2 DEF Updated
  <2>. QED  BY <2>2, <2>3 DEF NextValue, NextScale, NextFinite, Skips, Grows, SameScale, Ranks
<1>5. CASE ReduceScatter \/ Gather
  BY <1>5, MeetingPlaces DEF ReduceScatter, Gather, mode, Ranks
<1>6. ASSUME NEW r \in Ranks, Own(r)
      PROVE  \A q \in Ranks : /\ NextValue(q)' = NextValue(q)
                              /\ NextScale(q)' = NextScale(q) /\ NextFinite(q)' = NextFinite(q)
  <2>1. stage = "none"
    BY <1>6, OwnFrame
  <2>2. pc'[r] # "failed"
    BY DEF BothRun, Ranks
  <2>3. ASSUME NEW q \in Ranks, q # r
        PROVE  /\ NextValue(q)' = NextValue(q)
               /\ NextScale(q)' = NextScale(q) /\ NextFinite(q)' = NextFinite(q)
    <3>1. /\ scaled' = scaled /\ pc'[q] = pc[q] /\ value'[q] = value[q] /\ mean'[q] = mean[q]
          /\ bad'[q] = bad[q] /\ scale'[q] = scale[q] /\ finite'[q] = finite[q]
      BY <1>6, <2>3, OwnFrame
    <3>2. Updated(q)' = Updated(q)
      BY <3>1 DEF Updated
    <3>. QED  BY <3>1, <3>2 DEF NextValue, NextScale, NextFinite, Skips, Grows
  <2>. QED  BY <1>6, <2>1, <2>2, <2>3, OwnForeseen
<1>. QED  BY <1>2, <1>3, <1>4, <1>5, <1>6, NextCases, OwnFrame DEF Ranks

LEMMA StepsMeansNext == TypeOK /\ Placed /\ Twins /\ StepsMeans /\ [Next]_vars => StepsMeans'
<1>. SUFFICES ASSUME TypeOK, Placed, Twins, StepsMeans, [Next]_vars, stage' = "none",
                     NEW q \in Ranks, pc'[q] = "step"
              PROVE  mean'[q] = Slices
  BY DEF StepsMeans
<1>1. CASE UNCHANGED vars
  BY <1>1 DEF vars, mode, gradients, StepsMeans
<1>2. CASE AllReduce
  BY <1>2, ReduceAlone DEF AllReduce, mode
<1>3. CASE ReduceScatter \/ Gather
  BY <1>3, MeetingPlaces DEF ReduceScatter, Gather, mode
<1>4. ASSUME NEW r \in Ranks, Own(r) PROVE mean'[q] = Slices
  <2>1. stage = "none" /\ (q # r => pc[q] = "step" /\ mean'[q] = mean[q])
    BY <1>4, OwnFrame
  <2>2. q # r
    BY <1>4, <2>1 DEF Own, Backward, Mask, Step, Skip, AfterStep, Readback, Finish, Refused, Fail,
                      Go, Placed, TypeOK
  <2>. QED  BY <2>1, <2>2 DEF StepsMeans
<1>. QED  BY <1>1, <1>2, <1>3, <1>4, NextCases

LEMMA UniformNext == TypeOK /\ Placed /\ StepsMeans /\ Uniform /\ [Next]_vars => Uniform'
<1>. SUFFICES ASSUME TypeOK, Placed, StepsMeans, Uniform, [Next]_vars, stage' = "none",
                     NEW q \in Ranks, NEW s \in Slices, NEW t \in Slices
              PROVE  value'[q][s] = value'[q][t] /\ value'[q][s].by = Ranks
  BY DEF Uniform
<1>1. CASE value'[q] = value[q] /\ stage' = stage
  BY <1>1 DEF Uniform
<1>2. CASE UNCHANGED vars \/ AllReduce
  BY <1>1, <1>2 DEF vars, mode, AllReduce
<1>3. CASE ReduceScatter \/ Gather
  BY <1>3, MeetingPlaces DEF ReduceScatter, Gather, mode
<1>4. ASSUME NEW r \in Ranks, Own(r) PROVE value'[q][s] = value'[q][t] /\ value'[q][s].by = Ranks
  <2>0. stage = "none" /\ stage' = stage
    BY <1>4, OwnFrame
  <2>1. CASE Step(r) /\ q = r
    <3>1. value'[q] = Updated(q) /\ mean[q] = Slices
      BY <2>0, <2>1 DEF Step, TypeOK, StepsMeans
    <3>2. value[q][s] = value[q][t] /\ value[q][s].by = Ranks
      BY <2>0 DEF Uniform
    <3>. QED  BY <3>1, <3>2 DEF Updated
  <2>2. CASE ~(Step(r) /\ q = r)
    <3>1. value'[q] = value[q]
      BY <1>4, <2>2, OwnFrame DEF Own, Backward, Mask, Skip, Readback, Finish, Refused, Fail
    <3>. QED  BY <1>1, <2>0, <3>1
  <2>. QED  BY <2>1, <2>2
<1>. QED  BY <1>2, <1>3, <1>4, NextCases

----------------------------------------------------------------------------
(* With sharding, without scaling.                                         *)

LEMMA CoveredNext == TypeOK /\ Placed /\ Aligned /\ Covered /\ [Next]_vars => Covered'
<1>. SUFFICES ASSUME TypeOK, Placed, Aligned, Covered, [Next]_vars, ~scaled'
              PROVE  (/\ SameScale
                      /\ stage # "none" => \A r \in Ranks : \A s \in Owned(r) :
                           \/ pc[r] \in {"mask", "step"}
                           \/ pc[r] = "reduce" /\ s[1] < at[r]
                           => s \in mean[r])'
  BY DEF Covered
<1>. USE CountsAssumption DEF mode, gradients, scaler, Go, BothGo
<1>1. UNCHANGED <<stage, scaled>>
  BY NextCases, OwnFrame DEF vars, AllReduce, ReduceScatter, Gather
<1>2. /\ SameScale
      /\ stage # "none" => \A r \in Ranks : \A s \in Owned(r) :
           \/ pc[r] \in {"mask", "step"}
           \/ pc[r] = "reduce" /\ s[1] < at[r]
           => s \in mean[r]
  BY <1>1 DEF Covered
<1>3. SameScale'
  <2>1. UNCHANGED scaler
    BY <1>1, NextCases
       DEF vars, AllReduce, ReduceScatter, Gather, Own, Backward, Mask, Step, Skip, Readback,
           Finish, Refused, Fail
  <2>. QED  BY <1>2, <2>1 DEF SameScale
<1>. SUFFICES ASSUME stage # "none", NEW q \in Ranks, NEW s \in Owned(q),
                     pc'[q] \in {"mask", "step"} \/ (pc'[q] = "reduce" /\ s[1] < at'[q])
              PROVE  s \in mean'[q]
  BY <1>1, <1>3, SliceTypes DEF Owned
<1>4. s \in Slices /\ s[1] \in 1..N
  BY SliceTypes DEF Params
<1>5. CASE pc'[q] = pc[q] /\ at'[q] = at[q] /\ mean'[q] = mean[q]
  BY <1>2, <1>5
<1>6. CASE AllReduce
  BY <1>2, <1>4, <1>6 DEF AllReduce
<1>7. CASE ReduceScatter
  <2>1. /\ \A r \in Ranks : pc[r] = "reduce" /\ at[r] \in Params /\ stage = "zero2"
        /\ at[0] = at[1]
    <3>1. \A r \in Ranks : pc[r] = "reduce" /\ at[r] \in Params /\ stage = "zero2"
      BY <1>7, MeetingPlaces
    <3>. QED  BY <3>1 DEF Aligned, BothRun, Walked, Waits, Ranks
  <2>2. /\ mean'[q] = mean[q] \cup (SlicesOf(at[q]) \cap Owned(q))
        /\ at'[q] = at[q] + 1 /\ pc'[q] = IF at[q] = N THEN "step" ELSE "reduce"
    BY <1>2, <1>7, <2>1 DEF ReduceScatter
  <2>3. s[1] < at[q] \/ s[1] = at[q]
    BY <1>4, <2>1, <2>2 DEF Params
  <2>4. s[1] = at[q] => s \in SlicesOf(at[q])
    BY <1>4 DEF SlicesOf, Slices
  <2>. QED  BY <1>2, <2>1, <2>2, <2>3, <2>4
<1>8. CASE Gather
  <2>1. pc'[q] \in {"readback", "gather"}
    BY <1>8 DEF Gather
  <2>. QED  BY <2>1
<1>9. ASSUME NEW r \in Ranks, Own(r) PROVE s \in mean'[q]
  <2>1. CASE q # r
    BY <1>5, <1>9, <2>1, OwnFrame
  <2>2. CASE q = r
    <3>1. CASE Backward(r)
      <4>1. pc'[q] = "reduce" /\ at'[q] = 1
        BY <2>2, <3>1 DEF Backward, TypeOK
      <4>. QED  BY <1>4, <4>1
    <3>2. CASE Mask(r)
      BY <1>2, <2>2, <3>2 DEF Mask, TypeOK
    <3>3. CASE ~Backward(r) /\ ~Mask(r)
      <4>1. pc'[q] \notin {"mask", "step", "reduce"}
        BY <1>9, <2>2, <3>3
           DEF Own, Step, Skip, AfterStep, Readback, Finish, Refused, Fail, TypeOK
      <4>. QED  BY <4>1
    <3>. QED  BY <3>1, <3>2, <3>3
  <2>. QED  BY <2>1, <2>2
<1>10. CASE UNCHANGED vars
  BY <1>5, <1>10 DEF vars
<1>. QED  BY <1>6, <1>7, <1>8, <1>9, <1>10, NextCases

LEMMA ExactNext ==
  TypeOK /\ Placed /\ Aligned /\ Covered /\ Exact /\ [Next]_vars => Exact'
<1>. SUFFICES ASSUME TypeOK, Placed, Aligned, Covered, Exact, [Next]_vars,
                     ~scaled', stage' # "none", NEW q \in Ranks, pc'[q] # "failed",
                     NEW s \in Slices, pc'[q] # "gather" \/ s[2] = q \/ s[1] < at'[q]
              PROVE  value'[q][s] = [updates |-> Stepped(q)', by |-> Ranks]
  BY DEF Exact
<1>. USE CountsAssumption DEF mode, gradients, scaler, Go, BothGo
<1>1. UNCHANGED <<stage, scaled>>
  BY NextCases, OwnFrame DEF vars, AllReduce, ReduceScatter, Gather
<1>2. \A r \in Ranks : pc[r] # "failed" => \A t \in Slices :
        pc[r] # "gather" \/ t[2] = r \/ t[1] < at[r] =>
          value[r][t] = [updates |-> Stepped(r), by |-> Ranks]
  BY <1>1 DEF Exact
<1>3. s[1] \in 1..N /\ s[2] \in Ranks /\ s = <<s[1], s[2]>>
  BY SliceTypes DEF Params, Slices
<1>4. \A r \in Ranks : batches[r] \in Nat /\ at[r] \in Nat
  BY DEF TypeOK
<1>5. CASE pc'[q] = pc[q] /\ at'[q] = at[q] /\ value'[q] = value[q] /\ batches'[q] = batches[q]
  BY <1>2, <1>5 DEF Stepped
<1>6. CASE UNCHANGED vars
  BY <1>5, <1>6 DEF vars
<1>7. CASE AllReduce \/ ReduceScatter
  <2>1. /\ pc[q] = "reduce" /\ pc'[q] \in {"reduce", "mask", "step"}
        /\ UNCHANGED <<value, batches>>
    <3>1. pc[q] = "reduce"
      BY <1>7, MeetingPlaces
    <3>2. pc'[q] \in {"reduce", "mask", "step"}
      BY <1>7 DEF AllReduce, ReduceScatter
    <3>. QED  BY <1>7, <3>1, <3>2 DEF AllReduce, ReduceScatter
  <2>. QED  BY <1>2, <2>1 DEF Stepped
<1>8. CASE Gather
  <2>1. \A r \in Ranks : pc[r] = "gather" /\ at[r] \in Params
    BY <1>8, MeetingPlaces
  <2>2. at[0] = at[1] /\ batches[0] = batches[1]
    BY <1>1, <1>4, <2>1 DEF Aligned, BothRun, Count, Walked, Waits, Ranks
  <2>3. /\ at'[q] = at[q] + 1 /\ pc'[q] = (IF at[q] = N THEN "readback" ELSE "gather")
        /\ batches' = batches
        /\ value'[q] = [t \in Slices |->
             IF t[1] = at[q] THEN value[t[2]][<<at[t[2]], t[2]>>] ELSE value[q][t]]
    BY <1>8 DEF Gather
  <2>4. value'[q][s] = IF s[1] = at[q] THEN value[s[2]][<<at[s[2]], s[2]>>] ELSE value[q][s]
    BY <2>3, Zenon
  <2>5. Stepped(q)' = Stepped(q)
    BY <2>1, <2>3 DEF Stepped
  <2>6. CASE s[1] = at[q]
    <3>1. at[s[2]] = s[1] /\ <<at[s[2]], s[2]>> = s
      BY <1>3, <2>2, <2>6 DEF Ranks
    <3>2. value[s[2]][s] = [updates |-> Stepped(s[2]), by |-> Ranks]
      BY <1>2, <1>3, <2>1
    <3>3. Stepped(s[2]) = Stepped(q)
      BY <1>3, <2>1, <2>2 DEF Stepped, Ranks
    <3>. QED  BY <2>4, <2>5, <2>6, <3>1, <3>2, <3>3
  <2>7. CASE s[1] # at[q]
    <3>1. s[2] = q \/ s[1] < at[q]
      BY <1>3, <2>1, <2>3, <2>7 DEF Params
    <3>. QED  BY <1>2, <2>1, <2>4, <2>5, <2>7, <3>1
  <2>. QED  BY <2>6, <2>7
<1>9. ASSUME NEW r \in Ranks, Own(r)
      PROVE  value'[q][s] = [updates |-> Stepped(q)', by |-> Ranks]
  <2>1. CASE q # r
    BY <1>5, <1>9, <2>1, OwnFrame
  <2>2. CASE q = r /\ Step(r)
    <3>1. /\ pc[q] = "step" /\ pc'[q] = "gather" /\ at'[q] = 1
          /\ value'[q] = Updated(q) /\ batches' = batches
      BY <1>1, <2>2 DEF Step, AfterStep, TypeOK
    <3>2. s \in Owned(q) /\ s \in mean[q]
      <4>1. s[2] = q
        BY <1>3, <3>1
      <4>2. s \in Owned(q)
        BY <1>3, <4>1 DEF Owned, Params
      <4>. QED  BY <1>1, <3>1, <4>2 DEF Covered
    <3>3. value[q][s] = [updates |-> batches[q], by |-> Ranks]
      BY <1>2, <1>4, <3>1 DEF Stepped
    <3>4. value'[q][s] = [updates |-> batches[q] + 1, by |-> Ranks]
      BY <3>1, <3>2, <3>3 DEF Updated
    <3>. QED  BY <3>1, <3>4 DEF Stepped
  <2>3. CASE q = r /\ ~Step(r)
    <3>1. value'[q] = value[q] /\ pc[q] # "gather" /\ Stepped(q)' = Stepped(q)
      <4>1. CASE Backward(r)
        BY <1>4, <2>3, <4>1 DEF Backward, Stepped, TypeOK
      <4>2. CASE Mask(r)
        BY <1>4, <2>3, <4>2 DEF Mask, Stepped, TypeOK
      <4>3. CASE Skip(r)
        BY <1>1, <4>3 DEF Skip
      <4>4. CASE Readback(r)
        BY <1>4, <2>3, <4>4 DEF Readback, Stepped, TypeOK
      <4>5. CASE Finish(r)
        BY <1>4, <2>3, <4>5 DEF Finish, Stepped, TypeOK
      <4>6. CASE Refused(r) \/ Fail(r)
        BY <2>3, <4>6 DEF Refused, Fail, TypeOK
      <4>. QED  BY <1>9, <2>3, <4>1, <4>2, <4>3, <4>4, <4>5, <4>6 DEF Own
    <3>2. pc[q] # "failed"
      BY <1>9, <2>3, OwnFrame
    <3>. QED  BY <1>2, <3>1, <3>2
  <2>. QED  BY <2>1, <2>2, <2>3
<1>. QED  BY <1>6, <1>7, <1>8, <1>9, NextCases

----------------------------------------------------------------------------
(* Theorems.                                                               *)

\* The inductive invariant.
StepInv ==
  /\ TypeOK /\ Placed /\ Aligned /\ Agreed
  /\ StepsMeans /\ Twins /\ Uniform /\ Covered /\ Exact

LEMMA StepInit == Init => StepInv
<1>. SUFFICES ASSUME Init PROVE StepInv
  OBVIOUS
<1>1. TypeOK /\ Placed
  BY TypeInit
<1>2. Aligned /\ Agreed
  BY DEF Init, Aligned, Agreed, Half, Count, Walked, Waits, Ranks
<1>3. StepsMeans /\ Twins /\ Uniform
  BY DEF Init, StepsMeans, Twins, Uniform, NextValue, NextScale, NextFinite, Ranks
<1>4. Covered
  <2>1. SameScale
    BY DEF Init, SameScale, Ranks
  <2>2. \A s \in Slices : ~(s[1] < 1)
    BY SliceTypes DEF Params
  <2>. QED  BY <2>1, <2>2, SliceTypes DEF Init, Covered
<1>5. Exact
  BY DEF Init, Exact, Stepped
<1>. QED  BY <1>1, <1>2, <1>3, <1>4, <1>5 DEF StepInv

\* The inductive invariant holds.
THEOREM StepInvariant == Spec => []StepInv
<1>1. StepInv /\ [Next]_vars => StepInv'
  BY TypeNext, AlignedNext, AgreedNext, StepsMeansNext, TwinsNext, UniformNext, CoveredNext,
     ExactNext DEF StepInv
<1>. QED  BY <1>1, StepInit, PTL DEF Spec

\* When both ranks wait, it is for the same operation on the same parameter of
\* the same batch (PairsAlike), whatever one of them skipped.
THEOREM CollectivesPair == Spec => []PairsAlike
<1>1. StepInv => PairsAlike
  BY AlignedAlike DEF StepInv
<1>. QED  BY <1>1, StepInvariant, PTL

\* Ranks that have gone through the same batches have the same parameters
\* (ReplicasAgree), in every mode.
THEOREM ReplicasEqual == Spec => []ReplicasAgree
<1>1. ASSUME StepInv, Settled(0), Settled(1) PROVE value[0] = value[1]
  <2>1. BothRun /\ \A r \in Ranks : pc[r] \notin {"step", "gather"}
    BY <1>1 DEF Settled, BothRun, Ranks
  <2>2. CASE stage = "none"
    BY <1>1, <2>1, <2>2 DEF StepInv, Twins, NextValue, Ranks
  <2>3. CASE stage # "none"
    BY <1>1, <2>1, <2>3 DEF StepInv, Agreed, Ranks
  <2>. QED  BY <2>2, <2>3
<1>2. StepInv => ReplicasAgree
  BY <1>1 DEF ReplicasAgree, Level
<1>. QED  BY <1>2, StepInvariant, PTL

\* Without sharding, or without loss scaling, a settled replica is a single
\* process's (MatchesOneProcess).
THEOREM OneProcess == Spec => []MatchesOneProcess
<1>1. ASSUME StepInv, stage = "none" \/ ~scaled, NEW r \in Ranks, Settled(r),
             NEW s \in Slices, NEW t \in Slices
      PROVE  value[r][s] = value[r][t] /\ value[r][s].by = Ranks
  <2>1. CASE stage = "none"
    BY <1>1, <2>1 DEF StepInv, Uniform
  <2>2. CASE stage # "none"
    <3>1. \A u \in {s, t} : value[r][u] = [updates |-> Stepped(r), by |-> Ranks]
      BY <1>1, <2>2 DEF StepInv, Exact, Settled
    <3>. QED  BY <3>1
  <2>. QED  BY <2>1, <2>2
<1>2. StepInv => MatchesOneProcess
  BY <1>1 DEF MatchesOneProcess
<1>. QED  BY <1>2, StepInvariant, PTL

\* Without sharding the loss scales of the ranks never part (UniformScale):
\* the ranks look for overflows in the same mean.
THEOREM ScalesEqual == Spec => []UniformScale
<1>1. ASSUME StepInv, stage = "none", Settled(0), Settled(1)
      PROVE  scale[0] = scale[1] /\ finite[0] = finite[1]
  BY <1>1 DEF StepInv, Twins, NextScale, NextFinite, Settled, BothRun, Ranks
<1>2. StepInv => UniformScale
  BY <1>1 DEF UniformScale, Level
<1>. QED  BY <1>2, StepInvariant, PTL

----------------------------------------------------------------------------
(* The ranks do not stop one another: the safety core of RunsToTheEnd.     *)

\* While no rank failed on its own, neither failed; and who is done has
\* stepped every batch.
Healthy ==
  /\ ~broke => BothRun
  /\ \A r \in Ranks : pc[r] = "done" => batches[r] = MaxBatches

\* While no rank failed on its own: both are done, or a rank has work of its
\* own, or both have brought the same collective.  A rank never waits for one
\* that has finished its run, nor two ranks for different collectives.
NeverDeserted ==
  ~broke =>
    \/ \A r \in Ranks : pc[r] = "done"
    \/ \E r \in Ranks : ~Ended(r) /\ ~Waits(r)
    \/ \E operation \in {"all_reduce", "reduce_scatter", "all_gather"} : Meet(operation)

\* How far a rank has come: every place of a batch is worth more than the one
\* before, and a whole batch is worth PerBatch.
PerBatch == 2 * N + 4
WithinBatch(r) ==
  CASE pc[r] = "reduce" -> at[r]
    [] pc[r] = "mask" -> N + 1
    [] pc[r] = "step" -> N + 2
    [] pc[r] = "gather" -> N + 2 + at[r]
    [] pc[r] = "readback" -> 2 * N + 3
    [] pc[r] = "done" -> 1
    [] OTHER -> 0
Work(r) == (batches[r] * PerBatch) + WithinBatch(r)
WholeRun == (MaxBatches * PerBatch) + 1

\* No step but a failure takes a rank back, and a rank's work is bounded: a
\* run without failures is over after finitely many steps.
Advances == [][~broke' => Work(0)' + Work(1)' > Work(0) + Work(1)]_vars
WorkFits == \A r \in Ranks : Work(r) <= WholeRun

\* A rank that waits has stepped as many batches as the other has: one that is
\* done would have stepped more.
LEMMA NotDeserted ==
  ASSUME TypeOK, Placed, Aligned, Healthy, BothRun, NEW r \in Ranks, Waits(r)
  PROVE  pc[Peer(r)] # "done"
<1>. SUFFICES ASSUME pc[Peer(r)] = "done" PROVE FALSE
  OBVIOUS
<1>1. Peer(r) \in Ranks /\ Ranks = {r, Peer(r)}
  BY DEF Peer, Ranks
<1>2. Count(0) = Count(1)
  BY DEF Aligned
<1>3. Count(Peer(r)) = MaxBatches
  BY <1>1, CountsAssumption DEF Count, Healthy, TypeOK
<1>4. Count(r) < MaxBatches
  <2>1. pc[r] \in {"reduce", "gather"} /\ batches[r] < MaxBatches
    BY DEF Waits, Placed
  <2>. QED  BY <2>1 DEF Count, TypeOK
<1>5. Count(r) = Count(Peer(r))
  BY <1>2 DEF Ranks, Peer
<1>. QED  BY <1>3, <1>4, <1>5, CountsAssumption DEF Count, TypeOK

LEMMA HealthyNext == TypeOK /\ Placed /\ Aligned /\ Healthy /\ [Next]_vars => Healthy'
<1>. SUFFICES ASSUME TypeOK, Placed, Aligned, Healthy, [Next]_vars PROVE Healthy'
  OBVIOUS
<1>1. CASE UNCHANGED vars
  BY <1>1 DEF vars, mode, Healthy, BothRun
<1>2. CASE AllReduce
  <2>1. UNCHANGED broke /\ \A r \in Ranks : pc'[r] \in {"mask", "step"}
    BY <1>2 DEF AllReduce, BothGo
  <2>. QED  BY <2>1 DEF Healthy, BothRun, Ranks
<1>3. CASE ReduceScatter
  <2>1. UNCHANGED broke /\ \A r \in Ranks : pc'[r] \in {"step", "reduce"}
    BY <1>3 DEF ReduceScatter
  <2>. QED  BY <2>1 DEF Healthy, BothRun, Ranks
<1>4. CASE Gather
  <2>1. UNCHANGED broke /\ \A r \in Ranks : pc'[r] \in {"readback", "gather"}
    BY <1>4 DEF Gather
  <2>. QED  BY <2>1 DEF Healthy, BothRun, Ranks
<1>5. ASSUME NEW r \in Ranks, Own(r) PROVE Healthy'
  <2>1. \A q \in Ranks : q # r => pc'[q] = pc[q] /\ batches'[q] = batches[q]
    BY <1>5, OwnFrame
  <2>2. pc'[r] = "done" => batches'[r] = MaxBatches
    <3>1. CASE Finish(r)
      BY <3>1 DEF Finish
    <3>2. CASE Backward(r) \/ Mask(r) \/ Readback(r) \/ Refused(r) \/ Fail(r)
      BY <3>2 DEF Backward, Mask, Readback, Refused, Fail, Go, TypeOK
    <3>3. CASE Step(r) \/ Skip(r)
      BY <3>3 DEF Step, Skip, AfterStep, Go, TypeOK
    <3>. QED  BY <1>5, <3>1, <3>2, <3>3 DEF Own
  <2>3. ~broke' => pc'[r] # "failed" /\ ~broke
    <3>1. CASE Backward(r) \/ Mask(r) \/ Readback(r) \/ Finish(r) \/ Fail(r)
      BY <3>1 DEF Backward, Mask, Readback, Finish, Fail, Go, TypeOK
    <3>2. CASE Step(r) \/ Skip(r)
      BY <3>2 DEF Step, Skip, AfterStep, Go, TypeOK
    <3>3. CASE Refused(r)
      <4>1. broke
        <5>. SUFFICES ASSUME ~broke PROVE FALSE
          OBVIOUS
        <5>1. BothRun
          BY DEF Healthy
        <5>2. pc[Peer(r)] = "done"
          BY <3>3, <5>1 DEF Refused, Ended, BothRun, Peer, Ranks
        <5>. QED  BY <3>3, <5>1, <5>2, NotDeserted DEF Refused
      <4>. QED  BY <3>3, <4>1 DEF Refused
    <3>. QED  BY <1>5, <3>1, <3>2, <3>3 DEF Own
  <2>. QED  BY <2>1, <2>2, <2>3 DEF Healthy, BothRun, Ranks
<1>. QED  BY <1>1, <1>2, <1>3, <1>4, <1>5, NextCases

LEMMA HealthyAlways == Spec => []Healthy
<1>1. Init => Healthy
  BY DEF Init, Healthy, BothRun, Ranks
<1>2. StepInv /\ Healthy /\ [Next]_vars => Healthy'
  BY HealthyNext DEF StepInv
<1>. QED  BY <1>1, <1>2, StepInvariant, PTL DEF Spec

\* While no rank failed on its own, the ranks are done or one of them can go on
\* (NeverDeserted): what is left to RunsToTheEnd is that who can go on does.
THEOREM StepNeverStuck == Spec => []NeverDeserted
<1>1. ASSUME StepInv, Healthy, ~broke PROVE NeverDeserted
  <2>. SUFFICES ASSUME \A r \in Ranks : Ended(r) \/ Waits(r), ~ \A r \in Ranks : pc[r] = "done"
                PROVE  \E operation \in {"all_reduce", "reduce_scatter", "all_gather"} : Meet(operation)
    BY DEF NeverDeserted
  <2>1. BothRun
    BY <1>1 DEF Healthy
  <2>2. PICK r \in Ranks : Waits(r)
    BY <2>1 DEF Ended, BothRun, Ranks
  <2>3. Peer(r) \in Ranks /\ Ranks = {r, Peer(r)}
    BY DEF Peer, Ranks
  <2>4. pc[Peer(r)] # "done"
    BY <1>1, <2>1, <2>2, NotDeserted DEF StepInv
  <2>5. Waits(Peer(r))
    BY <2>1, <2>3, <2>4 DEF Ended, BothRun, Ranks
  <2>6. PairsAlike /\ Waits(0) /\ Waits(1)
    BY <1>1, <2>2, <2>3, <2>5, AlignedAlike DEF StepInv, Ranks
  <2>7. Operation(0) = Operation(1) /\ Operation(0) \in {"all_reduce", "reduce_scatter", "all_gather"}
    BY <2>6 DEF PairsAlike, Operation
  <2>. QED  BY <2>6, <2>7 DEF Meet, Ranks
<1>2. StepInv /\ Healthy => NeverDeserted
  BY <1>1 DEF NeverDeserted
<1>. QED  BY <1>2, StepInvariant, HealthyAlways, PTL

\* What a step does to a rank's work, with the product taken apart.
LEMMA BatchWork ==
  /\ PerBatch \in Nat
  /\ \A b \in Nat : b * PerBatch \in Nat /\ (b + 1) * PerBatch = (b * PerBatch) + PerBatch
  /\ \A b, c \in Nat : b < c => (b * PerBatch) + PerBatch <= c * PerBatch
<1>1. PerBatch \in Nat
  BY CountsAssumption DEF PerBatch
<1>2. ASSUME NEW b \in Nat
      PROVE  b * PerBatch \in Nat /\ (b + 1) * PerBatch = (b * PerBatch) + PerBatch
  BY <1>1
<1>3. ASSUME NEW b \in Nat, NEW c \in Nat, b < c
      PROVE  (b * PerBatch) + PerBatch <= c * PerBatch
  <2>1. PICK d \in Nat : c = (b + 1) + d
    <3>1. c - (b + 1) \in Nat
      BY <1>3
    <3>. QED  BY <3>1
  <2>2. c * PerBatch = ((b + 1) * PerBatch) + (d * PerBatch)
    BY <1>1, <2>1
  <2>. QED  BY <1>1, <1>2, <2>2
<1>. QED  BY <1>1, <1>2, <1>3

LEMMA WorkTyped ==
  ASSUME TypeOK, NEW r \in Ranks
  PROVE  WithinBatch(r) \in Nat /\ Work(r) \in Nat
<1>1. at[r] \in Nat /\ batches[r] \in Nat
  BY DEF TypeOK
<1>2. WithinBatch(r) \in Nat
  BY <1>1, CountsAssumption DEF WithinBatch
<1>. QED  BY <1>1, <1>2, BatchWork DEF Work

\* A rank's own step is worth something, unless it is a failure.
LEMMA OwnAdvances ==
  ASSUME TypeOK, Placed, NEW r \in Ranks, Own(r), pc'[r] # "failed"
  PROVE  Work(r)' > Work(r)
<1>. USE CountsAssumption DEF Go
<1>0. batches[r] \in Nat /\ at[r] \in Nat /\ batches[r] * PerBatch \in Nat /\ WithinBatch(r) \in Nat
  BY BatchWork, WorkTyped DEF TypeOK
<1>1. CASE Backward(r)
  <2>1. pc[r] = "forward" /\ pc'[r] = "reduce" /\ at'[r] = 1 /\ batches'[r] = batches[r]
    BY <1>1 DEF Backward, TypeOK
  <2>. QED  BY <1>0, <2>1 DEF Work, WithinBatch
<1>2. CASE Mask(r)
  <2>1. pc[r] = "mask" /\ pc'[r] = "step" /\ batches'[r] = batches[r]
    BY <1>2 DEF Mask, TypeOK
  <2>. QED  BY <1>0, <2>1 DEF Work, WithinBatch
<1>3. CASE Step(r) \/ Skip(r)
  <2>1. pc[r] = "step" /\ pc'[r] \in {"gather", "readback"} /\ at'[r] = 1 /\ batches'[r] = batches[r]
    BY <1>3 DEF Step, Skip, AfterStep, TypeOK
  <2>. QED  BY <1>0, <2>1 DEF Work, WithinBatch
<1>4. CASE Readback(r)
  <2>1. pc[r] = "readback" /\ pc'[r] = "forward" /\ batches'[r] = batches[r] + 1
    BY <1>4 DEF Readback, TypeOK
  <2>2. Work(r) = (batches[r] * PerBatch) + (2 * N + 3) /\ Work(r)' = (batches[r] + 1) * PerBatch
    BY <1>0, <2>1, BatchWork DEF Work, WithinBatch
  <2>3. (batches[r] + 1) * PerBatch = (batches[r] * PerBatch) + (2 * N + 4)
    BY <1>0, BatchWork DEF PerBatch
  <2>. QED  BY <1>0, <2>2, <2>3
<1>5. CASE Finish(r)
  <2>1. pc[r] = "forward" /\ pc'[r] = "done" /\ batches'[r] = batches[r]
    BY <1>5 DEF Finish, TypeOK
  <2>. QED  BY <1>0, <2>1 DEF Work, WithinBatch
<1>6. CASE Refused(r) \/ Fail(r)
  BY <1>6 DEF Refused, Fail, TypeOK
<1>. QED  BY <1>1, <1>2, <1>3, <1>4, <1>5, <1>6 DEF Own

\* A collective is worth something to both ranks.
LEMMA MeetingAdvances ==
  ASSUME TypeOK, Placed, AllReduce \/ ReduceScatter \/ Gather, NEW r \in Ranks
  PROVE  Work(r)' > Work(r)
<1>. USE CountsAssumption DEF BothGo
<1>0. batches[r] \in Nat /\ at[r] \in 1..N + 1 /\ batches[r] * PerBatch \in Nat
  BY BatchWork DEF TypeOK
<1>1. CASE AllReduce
  <2>1. pc[r] = "reduce" /\ at[r] = 1
    BY <1>1, MeetingPlaces
  <2>2. pc'[r] \in {"mask", "step"} /\ batches'[r] = batches[r]
    BY <1>1 DEF AllReduce
  <2>. QED  BY <1>0, <2>1, <2>2 DEF Work, WithinBatch
<1>2. CASE ReduceScatter
  <2>1. pc[r] = "reduce" /\ at[r] <= N
    BY <1>2, MeetingPlaces DEF Placed, Waits
  <2>2. /\ pc'[r] = (IF at[r] = N THEN "step" ELSE "reduce") /\ at'[r] = at[r] + 1
        /\ batches'[r] = batches[r]
    BY <1>2 DEF ReduceScatter
  <2>. QED  BY <1>0, <2>1, <2>2 DEF Work, WithinBatch
<1>3. CASE Gather
  <2>1. pc[r] = "gather" /\ at[r] <= N
    BY <1>3, MeetingPlaces DEF Placed, Waits
  <2>2. /\ pc'[r] = (IF at[r] = N THEN "readback" ELSE "gather") /\ at'[r] = at[r] + 1
        /\ batches'[r] = batches[r]
    BY <1>3 DEF Gather
  <2>. QED  BY <1>0, <2>1, <2>2 DEF Work, WithinBatch
<1>. QED  BY <1>1, <1>2, <1>3

LEMMA WorkTypedNext ==
  ASSUME TypeOK', NEW r \in Ranks
  PROVE  Work(r)' \in Nat
<1>1. at'[r] \in Nat /\ batches'[r] \in Nat
  BY DEF TypeOK
<1>2. WithinBatch(r)' \in Nat
  BY <1>1, CountsAssumption DEF WithinBatch
<1>3. \A b \in Nat : b * (2 * N + 4) \in Nat
  BY CountsAssumption
<1>4. batches'[r] * (2 * N + 4) \in Nat
  BY <1>1, <1>3
<1>. QED  BY <1>2, <1>4 DEF Work, PerBatch

LEMMA WorkBound == ASSUME TypeOK, Placed, NEW r \in Ranks PROVE Work(r) <= WholeRun
<1>. USE CountsAssumption
<1>1. batches[r] \in 0..MaxBatches /\ at[r] \in 1..N + 1 /\ pc[r] \in Places
  BY DEF TypeOK
<1>2. (batches[r] * PerBatch) \in Nat /\ (MaxBatches * PerBatch) \in Nat /\ PerBatch \in Nat
  <2>1. \A b \in Nat : b * PerBatch \in Nat
    BY BatchWork
  <2>2. batches[r] \in Nat
    BY <1>1
  <2>. QED  BY <2>1, <2>2, BatchWork
<1>3. CASE batches[r] < MaxBatches
  <2>1. (batches[r] * PerBatch) + PerBatch <= MaxBatches * PerBatch
    BY <1>1, <1>3, BatchWork
  <2>2. WithinBatch(r) \in Nat /\ WithinBatch(r) <= PerBatch
    BY <1>1 DEF WithinBatch, PerBatch, Placed, Waits
  <2>. QED  BY <1>2, <2>1, <2>2 DEF Work, WholeRun
<1>4. CASE batches[r] = MaxBatches
  <2>1. pc[r] \in {"forward", "done", "failed"}
    BY <1>1, <1>4 DEF Placed, Places
  <2>2. WithinBatch(r) \in {0, 1}
    BY <2>1 DEF WithinBatch
  <2>. QED  BY <1>2, <1>4, <2>2 DEF Work, WholeRun
<1>. QED  BY <1>1, <1>3, <1>4

\* A run in which no rank fails on its own takes finitely many steps: each
\* advances a rank and takes none back (Advances), and work is bounded
\* (WorkFits).
THEOREM StepAdvances == Spec => Advances /\ []WorkFits
<1>1. ASSUME StepInv, Healthy', Next, ~broke' PROVE Work(0)' + Work(1)' > Work(0) + Work(1)
  <2>0. TypeOK' /\ 0 \in Ranks /\ 1 \in Ranks
    BY <1>1, TypeNext DEF StepInv, Ranks
  <2>1. Work(0) \in Nat /\ Work(1) \in Nat /\ Work(0)' \in Nat /\ Work(1)' \in Nat
    BY <1>1, <2>0, WorkTyped, WorkTypedNext DEF StepInv
  <2>2. CASE AllReduce \/ ReduceScatter \/ Gather
    <3>1. Work(0)' > Work(0) /\ Work(1)' > Work(1)
      BY <1>1, <2>0, <2>2, MeetingAdvances DEF StepInv
    <3>. QED  BY <2>1, <3>1
  <2>3. ASSUME NEW r \in Ranks, Own(r) PROVE Work(0)' + Work(1)' > Work(0) + Work(1)
    <3>1. pc'[r] # "failed"
      BY <1>1, <2>3 DEF Healthy, BothRun, Ranks
    <3>2. Work(r)' > Work(r)
      BY <1>1, <2>3, <3>1, OwnAdvances DEF StepInv
    <3>3. \A q \in Ranks : q # r => Work(q)' = Work(q)
      BY <1>1, <2>3, OwnFrame DEF StepInv, Work, WithinBatch
    <3>. QED  BY <2>1, <3>2, <3>3 DEF Ranks
  <2>4. CASE \E r \in Ranks : Own(r)
    BY <2>3, <2>4
  <2>. QED  BY <1>1, <2>2, <2>4 DEF Next, Progress, Own
<1>2. StepInv /\ Healthy' /\ [Next]_vars => [~broke' => Work(0)' + Work(1)' > Work(0) + Work(1)]_vars
  BY <1>1
<1>3. Spec => Advances
  BY <1>2, StepInvariant, HealthyAlways, PTL DEF Spec, Advances
<1>4. StepInv => WorkFits
  BY WorkBound DEF StepInv, WorkFits
<1>. QED  BY <1>3, <1>4, StepInvariant, PTL

----------------------------------------------------------------------------
(* The telemetry emitter: the inductive invariants *)

\* Each drop that is counted pays for two losses: the sender that evicts still
\* has both to spend, the one that retries has one.
Senders(place) == {p \in Producers : sending[p] = place}
LossLedger ==
  /\ IsFiniteSet(lost) /\ IsFiniteSet(Senders("evict")) /\ IsFiniteSet(Senders("retry"))
  /\ Cardinality(lost) + 2 * Cardinality(Senders("evict")) + Cardinality(Senders("retry"))
       <= 2 * dropped

\* Priority events overtaken by bulk ones are at most those of one batch.
BatchBounded ==
  /\ overtaken <= Batch
  /\ writer = "bulk" => overtaken <= drained
  /\ writer # "dead" /\ overtaken > 0 => priority # <<>>

\* An event has been numbered by its sender and is in one place only.
Gone == written \cup lost \cup refused
Numbered(e) == e.n <= sent[e.by] /\ (sending[e.by] # "idle" => e.n < sent[e.by])
Once(lane) == \A i, j \in DOMAIN lane : lane[i] = lane[j] => i = j
EachOnce ==
  /\ written \cap (lost \cup refused) = {}
  /\ (ToSet(bulk) \cup ToSet(priority)) \cap Gone = {}
  /\ Once(bulk) /\ Once(priority)
  /\ \A e \in ToSet(bulk) : e.lane = "bulk" /\ Numbered(e)
  /\ \A e \in ToSet(priority) : e.lane = "priority" /\ Numbered(e)
  /\ \A e \in Gone : Numbered(e)

\* Every event that was numbered is somewhere: in a lane, written, lost, refused,
\* or in the hands of its sender.
Found(p, n) == \E e \in ToSet(bulk) \cup ToSet(priority) \cup Gone : e.by = p /\ e.n = n
NoneMissing ==
  \A p \in Producers : \A n \in 1..sent[p] :
     Found(p, n) \/ (sending[p] # "idle" /\ n = sent[p])

\* shutdown closes the lanes one after the other, and the writer has drained each
\* of them before it ends.
ClosedInOrder ==
  /\ owner # "open" => \A p \in Producers : sending[p] = "idle"
  /\ "priority" \in gone => owner # "open" /\ priority = <<>>
  /\ "bulk" \in gone => owner \in {"joining", "joined"} /\ bulk = <<>>
  /\ writer = "ended" => gone = Lanes
  /\ writer = "dead" => priority = <<>>

\* Queues as sets of events.
LEMMA QueueEmpty == ToSet(<<>>) = {} /\ Once(<<>>)
BY DEF ToSet, Once

LEMMA QueueAppend ==
  ASSUME NEW S, NEW s \in Seq(S), NEW e \in S
  PROVE  /\ Append(s, e) \in Seq(S) /\ Append(s, e) # <<>>
         /\ Len(Append(s, e)) = Len(s) + 1
         /\ ToSet(Append(s, e)) = ToSet(s) \cup {e}
         /\ Once(s) /\ e \notin ToSet(s) => Once(Append(s, e))
<1> DEFINE t == Append(s, e)
<1>1. /\ t \in Seq(S) /\ t # <<>> /\ Len(t) = Len(s) + 1 /\ Len(s) \in Nat
      /\ DOMAIN t = 1..(Len(s) + 1) /\ DOMAIN s = 1..Len(s)
      /\ t[Len(s) + 1] = e /\ \A i \in 1..Len(s) : t[i] = s[i]
  OBVIOUS
<1> HIDE DEF t
<1>2. ToSet(t) = ToSet(s) \cup {e}
  BY <1>1, SMT DEF ToSet
<1>3. Once(s) /\ e \notin ToSet(s) => Once(t)
  BY <1>1, SMT DEF ToSet, Once
<1> QED BY <1>1, <1>2, <1>3 DEF t

LEMMA QueueTail ==
  ASSUME NEW S, NEW s \in Seq(S), s # <<>>
  PROVE  /\ Tail(s) \in Seq(S) /\ Head(s) \in S /\ Len(s) \in Nat
         /\ Len(s) # 0 /\ Len(Tail(s)) = Len(s) - 1
         /\ ToSet(s) = ToSet(Tail(s)) \cup {Head(s)}
         /\ Once(s) => Once(Tail(s)) /\ Head(s) \notin ToSet(Tail(s))
<1> DEFINE t == Tail(s)
<1> DEFINE h == Head(s)
<1>1. /\ t \in Seq(S) /\ h \in S /\ Len(s) \in Nat /\ Len(s) # 0 /\ Len(t) = Len(s) - 1
      /\ DOMAIN t = 1..(Len(s) - 1) /\ DOMAIN s = 1..Len(s)
      /\ h = s[1] /\ \A i \in 1..(Len(s) - 1) : t[i] = s[i + 1]
  OBVIOUS
<1> HIDE DEF t, h
<1>2. ToSet(s) = ToSet(t) \cup {h}
  <2>1. ASSUME NEW x \in ToSet(s) PROVE x \in ToSet(t) \cup {h}
    <3>1. PICK i \in 1..Len(s) : x = s[i]
      BY <1>1, <2>1 DEF ToSet
    <3>2. i = 1 \/ (i - 1 \in 1..(Len(s) - 1) /\ s[(i - 1) + 1] = s[i])
      BY <1>1, <3>1
    <3> QED BY <1>1, <3>1, <3>2 DEF ToSet
  <2>2. ASSUME NEW x \in ToSet(t) \cup {h} PROVE x \in ToSet(s)
    BY <1>1, <2>2, SMT DEF ToSet
  <2> QED BY <2>1, <2>2
<1>3. Once(s) => Once(t) /\ h \notin ToSet(t)
  <2>1. \A i \in 1..(Len(s) - 1) : t[i] = s[i + 1] /\ i + 1 \in 1..Len(s) /\ i + 1 # 1
    BY <1>1
  <2>2. 1 \in 1..Len(s)
    BY <1>1
  <2>3. Once(s) => Once(t)
    <3> SUFFICES ASSUME Once(s), NEW i \in DOMAIN t, NEW j \in DOMAIN t, t[i] = t[j] PROVE i = j
      BY DEF Once
    <3>1. i \in 1..(Len(s) - 1) /\ j \in 1..(Len(s) - 1)
      BY <1>1
    <3>2. s[i + 1] = s[j + 1] /\ i + 1 \in DOMAIN s /\ j + 1 \in DOMAIN s
      BY <1>1, <2>1, <3>1
    <3>3. i + 1 = j + 1
      BY <3>2 DEF Once
    <3> QED BY <3>1, <3>3
  <2>4. Once(s) => h \notin ToSet(t)
    <3> SUFFICES ASSUME Once(s), NEW i \in DOMAIN t, h = t[i] PROVE FALSE
      BY DEF ToSet
    <3>1. i \in 1..(Len(s) - 1)
      BY <1>1
    <3>2. s[i + 1] = s[1] /\ i + 1 \in DOMAIN s /\ 1 \in DOMAIN s /\ i + 1 # 1
      BY <1>1, <2>1, <2>2, <3>1
    <3> QED BY <3>2 DEF Once
  <2> QED BY <2>3, <2>4
<1> QED BY <1>1, <1>2, <1>3 DEF t, h


\* The shape of the emitter, and a sender in a call has numbered an event.
InHand == EmitterTypeOK /\ \A p \in Producers : sending[p] # "idle" => sent[p] # 0

LEMMA EventTyped ==
  ASSUME InHand, NEW p \in Producers
  PROVE  /\ sending[p] # "idle" => Event(p, "bulk") \in Events /\ Event(p, "priority") \in Events
         /\ sent[p] < MaxEvents => NewEvent(p, "bulk") \in Events
         /\ NewEvent(p, "bulk") = [by |-> p, n |-> sent[p] + 1, lane |-> "bulk"]
         /\ sent[p] \in Nat
<1> USE CapsAssumption
<1>1. sent[p] \in 0..MaxEvents
  BY DEF InHand, EmitterTypeOK
<1>2. sending[p] # "idle" => sent[p] \in 1..MaxEvents
  BY <1>1 DEF InHand
<1>3. NewEvent(p, "bulk") = [by |-> p, n |-> sent[p] + 1, lane |-> "bulk"]
  BY DEF NewEvent, Event
<1> QED BY <1>1, <1>2, <1>3 DEF Event, Events, Lanes

LEMMA EmitterTyped == EmitterSpec => []InHand
<1> USE CapsAssumption
<1>1. EmitterInit => InHand
  BY SMT DEF EmitterInit, InHand, EmitterTypeOK, WriterPlaces
<1>2. InHand /\ [EmitterNext]_emitterVars => InHand'
  <2> SUFFICES ASSUME InHand, [EmitterNext]_emitterVars PROVE InHand'
    OBVIOUS
  <2>t. InHand BY DEF InHand
  <2> USE DEF InHand, EmitterTypeOK, channels, history, thread, Start, Goes, Place
  <2>b. bulk # <<>> => Tail(bulk) \in Seq(Events) /\ Head(bulk) \in Events /\ Len(Tail(bulk)) <= BulkCap
    BY QueueTail
  <2>p. priority # <<>> => /\ Tail(priority) \in Seq(Events) /\ Head(priority) \in Events
                           /\ Len(Tail(priority)) <= PriorityCap
    BY QueueTail
  <2>1. ASSUME NEW p \in Producers, SendBulk(p) PROVE InHand'
    <3>1. NewEvent(p, "bulk") \in Events
      BY <2>1, <2>t, EventTyped DEF SendBulk
    <3>2. bulk' \in Seq(Events) /\ Len(bulk') <= BulkCap
      BY <2>1, <3>1, QueueAppend DEF SendBulk
    <3> QED BY <2>1, <3>2 DEF SendBulk
  <2>2. ASSUME NEW p \in Producers, FoundFull(p) PROVE InHand'
    BY <2>2 DEF FoundFull
  <2>3. ASSUME NEW p \in Producers, SendPriority(p) PROVE InHand'
    BY <2>3 DEF SendPriority
  <2>4. ASSUME NEW p \in Producers, Evict(p) PROVE InHand'
    BY <2>4, <2>b DEF Evict
  <2>5. ASSUME NEW p \in Producers, Retry(p) PROVE InHand'
    <3>1. Event(p, "bulk") \in Events
      BY <2>5, <2>t, EventTyped DEF Retry
    <3>2. bulk' \in Seq(Events) /\ Len(bulk') <= BulkCap
      <4>1. CASE Len(bulk) < BulkCap
        <5>1. bulk' = Append(bulk, Event(p, "bulk"))
          BY <2>5, <4>1 DEF Retry
        <5> QED BY <4>1, <5>1, <3>1, QueueAppend
      <4>2. CASE ~(Len(bulk) < BulkCap)
        BY <2>5, <4>2 DEF Retry
      <4> QED BY <4>1, <4>2
    <3> QED BY <2>5, <3>1, <3>2 DEF Retry
  <2>6. ASSUME NEW p \in Producers, Queue(p) PROVE InHand'
    <3>1. Event(p, "priority") \in Events
      BY <2>6, <2>t, EventTyped DEF Queue
    <3>2. priority' \in Seq(Events) /\ Len(priority') <= PriorityCap
      BY <2>6, <3>1, QueueAppend DEF Queue
    <3> QED BY <2>6, <3>2 DEF Queue
  <2>7. ASSUME NEW p \in Producers, GiveUp(p) PROVE InHand'
    <3>1. Event(p, "priority") \in Events
      BY <2>7, <2>t, EventTyped DEF GiveUp
    <3> QED BY <2>7, <3>1 DEF GiveUp
  <2>8. CASE Close BY <2>8 DEF Close
  <2>9. CASE CloseBulk BY <2>9 DEF CloseBulk
  <2>10. CASE Join BY <2>10 DEF Join
  <2>11. CASE WritePriority BY <2>11, <2>p DEF WritePriority
  <2>12. CASE PriorityEmpty BY <2>12 DEF PriorityEmpty, WriterPlaces, Lanes
  <2>13. CASE WriteBulk BY <2>13, <2>b DEF WriteBulk, MoreBulk
  <2>14. CASE BulkEmpty BY <2>14 DEF BulkEmpty, WriterPlaces, Lanes
  <2>15. CASE BatchDone BY <2>15 DEF BatchDone, WriterPlaces
  <2>16. CASE Check BY <2>16 DEF Check, WriterPlaces
  <2>17. CASE Idle BY <2>17 DEF Idle, WriterPlaces
  <2>18. CASE WriterPanics
    <3>1. ToSet(priority) \subseteq Events
      BY DEF ToSet
    <3>2. priority' = <<>> /\ refused' \subseteq Events
      BY <2>18, <3>1 DEF WriterPanics
    <3>3. priority' \in Seq(Events) /\ Len(priority') <= PriorityCap
      BY <3>2
    <3> QED BY <2>18, <3>2, <3>3 DEF WriterPanics, WriterPlaces
  <2>19. CASE UNCHANGED emitterVars BY <2>19 DEF emitterVars
  <2> QED
    BY <2>1, <2>2, <2>3, <2>4, <2>5, <2>6, <2>7, <2>8, <2>9, <2>10, <2>11, <2>12, <2>13, <2>14,
       <2>15, <2>16, <2>17, <2>18, <2>19 DEF EmitterNext, Continue, Write
<1> QED BY <1>1, <1>2, PTL DEF EmitterSpec

\* EmitterTypeOK: the lanes keep to their capacities, a batch to its size.
THEOREM EmitterTypeCorrect == EmitterSpec => []EmitterTypeOK
<1>1. InHand => EmitterTypeOK
  BY DEF InHand
<1> QED BY <1>1, EmitterTyped, PTL


\* The arithmetic of a step of the ledger.
LEMMA LedgerMoves ==
  ASSUME NEW l \in Nat, NEW e \in Nat, NEW r \in Nat, NEW d \in Nat,
         NEW l1 \in Nat, l1 <= l + 1, l + 2 * e + r <= 2 * d
  PROVE  /\ l1 + 2 * (e - 1) + (r + 1) <= 2 * d
         /\ l1 + 2 * e + (r - 1) <= 2 * d
OBVIOUS

LEMMA Ledger == EmitterSpec => []LossLedger
<1> USE CapsAssumption
<1>1. EmitterInit => LossLedger
  <2> SUFFICES ASSUME EmitterInit PROVE LossLedger
    OBVIOUS
  <2>1. lost = {} /\ Senders("evict") = {} /\ Senders("retry") = {} /\ dropped = 0
    BY DEF EmitterInit, Senders
  <2> QED BY <2>1, FS_EmptySet DEF LossLedger
<1>2. InHand /\ LossLedger /\ [EmitterNext]_emitterVars => LossLedger'
  <2> SUFFICES ASSUME InHand, LossLedger, [EmitterNext]_emitterVars PROVE LossLedger'
    OBVIOUS
  <2> USE DEF InHand, EmitterTypeOK, channels, history, thread, Start, Goes, Place
  <2>0. /\ Cardinality(lost) \in Nat /\ Cardinality(Senders("evict")) \in Nat
        /\ Cardinality(Senders("retry")) \in Nat /\ dropped \in Nat
    BY FS_CardinalityType DEF LossLedger
  <2>u. ASSUME UNCHANGED <<lost, dropped>>, Senders("evict")' = Senders("evict"),
               Senders("retry")' = Senders("retry")
        PROVE  LossLedger'
    BY <2>u DEF LossLedger
  <2>s. ASSUME UNCHANGED <<lost, dropped, sending>> PROVE LossLedger'
    BY <2>s, <2>u DEF Senders
  <2>1. ASSUME NEW p \in Producers, SendBulk(p) PROVE LossLedger'
    BY <2>1, <2>s DEF SendBulk
  <2>2. ASSUME NEW p \in Producers, FoundFull(p) PROVE LossLedger'
    <3>1. /\ Senders("evict")' = Senders("evict") \cup {p} /\ p \notin Senders("evict")
          /\ Senders("retry")' = Senders("retry") /\ lost' = lost /\ dropped' = dropped + 1
      BY <2>2 DEF FoundFull, Senders
    <3>2. /\ IsFiniteSet(Senders("evict") \cup {p})
          /\ Cardinality(Senders("evict") \cup {p}) = Cardinality(Senders("evict")) + 1
      BY <3>1, FS_AddElement DEF LossLedger
    <3>3. LossLedger' <=>
            /\ IsFiniteSet(lost) /\ IsFiniteSet(Senders("evict") \cup {p})
            /\ IsFiniteSet(Senders("retry"))
            /\ Cardinality(lost) + 2 * Cardinality(Senders("evict") \cup {p})
                 + Cardinality(Senders("retry")) <= 2 * (dropped + 1)
      BY <3>1 DEF LossLedger
    <3> QED BY <2>0, <3>2, <3>3 DEF LossLedger
  <2>3. ASSUME NEW p \in Producers, SendPriority(p) PROVE LossLedger'
    <3>1. Senders("evict")' = Senders("evict") /\ Senders("retry")' = Senders("retry")
      BY <2>3 DEF SendPriority, Senders
    <3> QED BY <2>3, <3>1, <2>u DEF SendPriority
  <2>4. ASSUME NEW p \in Producers, Evict(p) PROVE LossLedger'
    <3>1. /\ Senders("evict")' = Senders("evict") \ {p} /\ p \in Senders("evict")
          /\ Senders("retry")' = Senders("retry") \cup {p} /\ p \notin Senders("retry")
          /\ dropped' = dropped
      BY <2>4 DEF Evict, Senders
    <3>2. lost' = lost \/ lost' = lost \cup {Head(bulk)}
      BY <2>4 DEF Evict
    <3>3. /\ IsFiniteSet(Senders("evict") \ {p}) /\ IsFiniteSet(Senders("retry") \cup {p})
          /\ Cardinality(Senders("evict") \ {p}) = Cardinality(Senders("evict")) - 1
          /\ Cardinality(Senders("retry") \cup {p}) = Cardinality(Senders("retry")) + 1
      BY <3>1, FS_AddElement, FS_RemoveElement DEF LossLedger
    <3>4. IsFiniteSet(lost') /\ Cardinality(lost') \in Nat /\ Cardinality(lost') <= Cardinality(lost) + 1
      <4>1. CASE lost' = lost BY <4>1, <2>0 DEF LossLedger
      <4>2. CASE lost' = lost \cup {Head(bulk)}
        <5> DEFINE more == lost \cup {Head(bulk)}
        <5>1. IsFiniteSet(more) /\ Cardinality(more) \in {Cardinality(lost), Cardinality(lost) + 1}
          BY FS_AddElement DEF LossLedger
        <5>2. lost' = more BY <4>2
        <5> HIDE DEF more
        <5>3. Cardinality(lost') = Cardinality(more) /\ IsFiniteSet(lost')
          BY <5>1, <5>2, Zenon
        <5> QED BY <5>1, <5>3, <2>0
      <4> QED BY <3>2, <4>1, <4>2
    <3>5. LossLedger' <=>
            /\ IsFiniteSet(lost') /\ IsFiniteSet(Senders("evict") \ {p})
            /\ IsFiniteSet(Senders("retry") \cup {p})
            /\ Cardinality(lost') + 2 * Cardinality(Senders("evict") \ {p})
                 + Cardinality(Senders("retry") \cup {p}) <= 2 * dropped
      BY <3>1 DEF LossLedger
    <3>6. Cardinality(lost) + 2 * Cardinality(Senders("evict")) + Cardinality(Senders("retry"))
            <= 2 * dropped
      BY DEF LossLedger
    <3>7. Cardinality(lost') + 2 * Cardinality(Senders("evict") \ {p}) + Cardinality(Senders("retry") \cup {p})
            <= 2 * dropped
      BY <2>0, <3>3, <3>4, <3>6, LedgerMoves, Zenon
    <3>8. IsFiniteSet(Senders("evict")) /\ IsFiniteSet(Senders("retry"))
      BY DEF LossLedger
    <3> QED BY <3>3, <3>4, <3>5, <3>7, <3>8
  <2>5. ASSUME NEW p \in Producers, Retry(p) PROVE LossLedger'
    <3>1. /\ Senders("retry")' = Senders("retry") \ {p} /\ p \in Senders("retry")
          /\ Senders("evict")' = Senders("evict") /\ dropped' = dropped
      BY <2>5 DEF Retry, Senders
    <3>2. lost' = lost \/ lost' = lost \cup {Event(p, "bulk")}
      BY <2>5 DEF Retry
    <3>3. /\ IsFiniteSet(Senders("retry") \ {p})
          /\ Cardinality(Senders("retry") \ {p}) = Cardinality(Senders("retry")) - 1
      BY <3>1, FS_RemoveElement DEF LossLedger
    <3>4. IsFiniteSet(lost') /\ Cardinality(lost') \in Nat /\ Cardinality(lost') <= Cardinality(lost) + 1
      <4>1. CASE lost' = lost BY <4>1, <2>0 DEF LossLedger
      <4>2. CASE lost' = lost \cup {Event(p, "bulk")}
        <5> DEFINE more == lost \cup {Event(p, "bulk")}
        <5>1. IsFiniteSet(more) /\ Cardinality(more) \in {Cardinality(lost), Cardinality(lost) + 1}
          BY FS_AddElement DEF LossLedger
        <5>2. lost' = more BY <4>2
        <5> HIDE DEF more
        <5>3. Cardinality(lost') = Cardinality(more) /\ IsFiniteSet(lost')
          BY <5>1, <5>2, Zenon
        <5> QED BY <5>1, <5>3, <2>0
      <4> QED BY <3>2, <4>1, <4>2
    <3>5. LossLedger' <=>
            /\ IsFiniteSet(lost') /\ IsFiniteSet(Senders("evict"))
            /\ IsFiniteSet(Senders("retry") \ {p})
            /\ Cardinality(lost') + 2 * Cardinality(Senders("evict"))
                 + Cardinality(Senders("retry") \ {p}) <= 2 * dropped
      BY <3>1 DEF LossLedger
    <3>6. Cardinality(lost) + 2 * Cardinality(Senders("evict")) + Cardinality(Senders("retry"))
            <= 2 * dropped
      BY DEF LossLedger
    <3>7. Cardinality(lost') + 2 * Cardinality(Senders("evict")) + Cardinality(Senders("retry") \ {p})
            <= 2 * dropped
      BY <2>0, <3>3, <3>4, <3>6, LedgerMoves, Zenon
    <3>8. IsFiniteSet(Senders("evict")) /\ IsFiniteSet(Senders("retry"))
      BY DEF LossLedger
    <3> QED BY <3>3, <3>4, <3>5, <3>7, <3>8
  <2>6. ASSUME NEW p \in Producers, Queue(p) \/ GiveUp(p) PROVE LossLedger'
    <3>1. Senders("evict")' = Senders("evict") /\ Senders("retry")' = Senders("retry")
      BY <2>6 DEF Queue, GiveUp, Senders
    <3> QED BY <2>6, <3>1, <2>u DEF Queue, GiveUp
  <2>7. CASE Write \/ WriterPanics \/ Close \/ CloseBulk \/ Join \/ UNCHANGED emitterVars
    <3>1. UNCHANGED <<lost, dropped, sending>>
      BY <2>7 DEF Write, WritePriority, PriorityEmpty, WriteBulk, BulkEmpty, BatchDone, Check, Idle,
         WriterPanics, Close, CloseBulk, Join, emitterVars
    <3> QED BY <3>1, <2>s
  <2> QED
    BY <2>1, <2>2, <2>3, <2>4, <2>5, <2>6, <2>7 DEF EmitterNext, Continue
<1> QED BY <1>1, <1>2, EmitterTyped, PTL DEF EmitterSpec

LEMMA Bounded == EmitterSpec => []BatchBounded
<1> USE CapsAssumption
<1>1. EmitterInit => BatchBounded
  BY DEF EmitterInit, BatchBounded
<1>2. InHand /\ BatchBounded /\ [EmitterNext]_emitterVars => BatchBounded'
  <2> SUFFICES ASSUME InHand, BatchBounded, [EmitterNext]_emitterVars PROVE BatchBounded'
    OBVIOUS
  <2> USE DEF InHand, EmitterTypeOK, BatchBounded, channels, history, thread, Start, Goes, Place
  <2>1. ASSUME NEW p \in Producers, SendBulk(p) \/ FoundFull(p) \/ SendPriority(p) PROVE BatchBounded'
    BY <2>1 DEF SendBulk, FoundFull, SendPriority
  <2>2. ASSUME NEW p \in Producers, Evict(p) \/ Retry(p) \/ GiveUp(p) PROVE BatchBounded'
    BY <2>2 DEF Evict, Retry, GiveUp
  <2>3. ASSUME NEW p \in Producers, Queue(p) PROVE BatchBounded'
    <3>1. sending[p] # "idle" /\ priority' = Append(priority, Event(p, "priority"))
      BY <2>3 DEF Queue
    <3>2. priority' # <<>>
      BY <3>1, EventTyped, QueueAppend
    <3> QED BY <2>3, <3>2 DEF Queue
  <2>4. CASE Close \/ CloseBulk \/ Join BY <2>4 DEF Close, CloseBulk, Join
  <2>5. CASE WritePriority BY <2>5 DEF WritePriority
  <2>6. CASE PriorityEmpty BY <2>6 DEF PriorityEmpty
  <2>7. CASE WriteBulk BY <2>7 DEF WriteBulk, MoreBulk
  <2>8. CASE BulkEmpty \/ BatchDone \/ Check \/ Idle BY <2>8 DEF BulkEmpty, BatchDone, Check, Idle
  <2>9. CASE WriterPanics BY <2>9 DEF WriterPanics
  <2>10. CASE UNCHANGED emitterVars BY <2>10 DEF emitterVars
  <2> QED
    BY <2>1, <2>2, <2>3, <2>4, <2>5, <2>6, <2>7, <2>8, <2>9, <2>10 DEF EmitterNext, Continue, Write
<1> QED BY <1>1, <1>2, EmitterTyped, PTL DEF EmitterSpec

\* PriorityNotStarved: a waiting priority event sees at most one batch of bulk
\* events go first.
THEOREM PriorityServed == EmitterSpec => []PriorityNotStarved
<1>1. BatchBounded => PriorityNotStarved
  BY DEF BatchBounded, PriorityNotStarved
<1> QED BY <1>1, Bounded, PTL

LEMMA StaysSettled ==
  ASSUME InHand, [EmitterNext]_emitterVars, NEW e \in Events, Numbered(e)
  PROVE  Numbered(e)'
<1> USE CapsAssumption DEF InHand, EmitterTypeOK, channels, history, thread, Start, Goes, Numbered
<1>0. e.by \in Producers /\ e.n \in Nat /\ sent[e.by] \in Nat
  BY DEF Events
<1>1. ASSUME NEW p \in Producers, SendBulk(p) \/ FoundFull(p) \/ SendPriority(p) PROVE Numbered(e)'
  <2>1. /\ sending[p] = "idle" /\ sent' = [sent EXCEPT ![p] = @ + 1]
        /\ \A q \in Producers : q # p => sending'[q] = sending[q]
    BY <1>1 DEF SendBulk, FoundFull, SendPriority
  <2>2. CASE e.by = p
    <3>1. sent'[p] = sent[p] + 1 /\ e.n <= sent[p] /\ sent[p] \in Nat
      BY <1>0, <2>1, <2>2
    <3> QED BY <1>0, <2>2, <3>1
  <2>3. CASE e.by # p
    BY <1>0, <2>1, <2>3
  <2> QED BY <2>2, <2>3
<1>2. ASSUME NEW p \in Producers, Continue(p) PROVE Numbered(e)'
  BY <1>0, <1>2 DEF Continue, Evict, Retry, Queue, GiveUp
<1>3. CASE Write \/ WriterPanics \/ Close \/ CloseBulk \/ Join \/ UNCHANGED emitterVars
  <2>1. UNCHANGED <<sent, sending>>
    BY <1>3 DEF Write, WritePriority, PriorityEmpty, WriteBulk, BulkEmpty, BatchDone, Check, Idle,
       WriterPanics, Close, CloseBulk, Join, emitterVars
  <2> QED BY <2>1
<1> QED BY <1>1, <1>2, <1>3 DEF EmitterNext

Fresh(e) ==
  /\ e \notin ToSet(bulk) \cup ToSet(priority) \cup Gone

LEMMA SentOnce == EmitterSpec => []EachOnce
<1> USE CapsAssumption
<1>1. EmitterInit => EachOnce
  BY QueueEmpty DEF EmitterInit, EachOnce, Gone
<1>2. InHand /\ EachOnce /\ [EmitterNext]_emitterVars => EachOnce'
  <2> SUFFICES ASSUME InHand, EachOnce, [EmitterNext]_emitterVars PROVE EachOnce'
    OBVIOUS
  <2> USE DEF channels, history, thread, Start, Goes, Place
  <2>t. /\ bulk \in Seq(Events) /\ priority \in Seq(Events)
        /\ ToSet(bulk) \subseteq Events /\ ToSet(priority) \subseteq Events /\ Gone \subseteq Events
    BY DEF InHand, EmitterTypeOK, ToSet, Gone
  <2>k. \A e \in Events : Numbered(e) => Numbered(e)'
    BY StaysSettled
  <2>m. \A e \in Events : ~Numbered(e) => Fresh(e)
    BY DEF EachOnce, Fresh
  <2>f. ASSUME NEW p \in Producers, NEW e, sending[p] # "idle", NEW lane \in Lanes, e = Event(p, lane)
        PROVE  /\ e \in Events /\ Fresh(e) /\ e.lane = lane
               /\ sent' = sent /\ sending'[p] = "idle" => Numbered(e)'
    <3>1. e \in Events
      BY <2>f, EventTyped DEF Lanes
    <3>2. e.by = p /\ e.n = sent[p] /\ e.lane = lane
      BY <2>f DEF Event
    <3>3. sent[p] \in Nat
      BY EventTyped
    <3>4. ~Numbered(e)
      BY <2>f, <3>2, <3>3 DEF Numbered
    <3>5. Numbered(e)' <=> e.n <= sent'[p] /\ (sending'[p] # "idle" => e.n < sent'[p])
      BY <3>2 DEF Numbered
    <3>6. sent' = sent /\ sending'[p] = "idle" => Numbered(e)'
      BY <3>2, <3>3, <3>5
    <3> QED BY <2>m, <3>1, <3>2, <3>4, <3>6
  <2>d. sending \in [Producers -> {"idle", "evict", "retry", "wait"}]
    BY DEF InHand, EmitterTypeOK
  <2>s. ASSUME UNCHANGED <<bulk, priority, written, lost, refused>> PROVE EachOnce'
    BY <2>s, <2>k, <2>t DEF EachOnce, Gone
  <2>1. ASSUME NEW p \in Producers, SendBulk(p) PROVE EachOnce'
    <3> PICK e : e = NewEvent(p, "bulk")
      OBVIOUS
    <3>1. e \in Events /\ e = [by |-> p, n |-> sent[p] + 1, lane |-> "bulk"] /\ sent[p] \in Nat
      BY <2>1, EventTyped DEF SendBulk
    <3>a. e.by = p /\ e.n = sent[p] + 1 /\ e.lane = "bulk"
      BY <3>1
    <3>b. sent'[p] = sent[p] + 1 /\ sending'[p] = "idle" /\ sending[p] = "idle"
      BY <2>1 DEF SendBulk, InHand, EmitterTypeOK
    <3>c. ~Numbered(e)
      <4>1. Numbered(e) => e.n <= sent[p]
        BY <3>a DEF Numbered
      <4> QED BY <4>1, <3>a, <3>1
    <3>d. Numbered(e)'
      <4>1. Numbered(e)' <=> e.n <= sent'[p] /\ (sending'[p] # "idle" => e.n < sent'[p])
        BY <3>a DEF Numbered
      <4> QED BY <4>1, <3>a, <3>b, <3>1
    <3>2. ~Numbered(e) /\ Numbered(e)' /\ e.lane = "bulk"
      BY <3>a, <3>c, <3>d
    <3>3. /\ bulk' = Append(bulk, e)
          /\ UNCHANGED <<priority, written, lost, refused>>
      BY <2>1 DEF SendBulk
    <3>4. Fresh(e)
      BY <2>m, <3>1, <3>2
    <3>5. ToSet(bulk') = ToSet(bulk) \cup {e} /\ Once(bulk')
      BY <2>t, <3>1, <3>3, <3>4, QueueAppend DEF EachOnce, Fresh
    <3>c1. (written \cap (lost \cup refused) = {})'
      BY <2>k, <2>t, <3>2, <3>3, <3>4, <3>5 DEF EachOnce, Gone, Fresh
    <3>c2. ((ToSet(bulk) \cup ToSet(priority)) \cap Gone = {})'
      BY <2>k, <2>t, <3>2, <3>3, <3>4, <3>5 DEF EachOnce, Gone, Fresh
    <3>c3. (\A e1 \in ToSet(bulk) : e1.lane = "bulk" /\ Numbered(e1))'
      BY <2>k, <2>t, <3>2, <3>3, <3>4, <3>5 DEF EachOnce
    <3>c4. (\A e1 \in ToSet(priority) : e1.lane = "priority" /\ Numbered(e1))'
      BY <2>k, <2>t, <3>2, <3>3, <3>4, <3>5 DEF EachOnce
    <3>c5. (\A e1 \in Gone : Numbered(e1))'
      BY <2>k, <2>t, <3>2, <3>3, <3>4, <3>5 DEF EachOnce, Gone
    <3> QED BY <2>k, <2>t, <3>2, <3>3, <3>4, <3>5, <3>c1, <3>c2, <3>c3, <3>c4, <3>c5 DEF EachOnce
  <2>2. ASSUME NEW p \in Producers, FoundFull(p) \/ SendPriority(p) PROVE EachOnce'
    BY <2>2, <2>s DEF FoundFull, SendPriority
  <2>3. ASSUME NEW p \in Producers, Evict(p) PROVE EachOnce'
    <3>1. CASE bulk = <<>>
      BY <2>3, <3>1, <2>s DEF Evict
    <3>2. CASE bulk # <<>>
      <4>1. bulk' = Tail(bulk) /\ lost' = lost \cup {Head(bulk)} /\ UNCHANGED <<priority, written, refused>>
        BY <2>3, <3>2 DEF Evict
      <4> DEFINE h == Head(bulk)
      <4>2. /\ ToSet(bulk) = ToSet(bulk') \cup {h} /\ Once(bulk') /\ h \notin ToSet(bulk')
        BY <2>t, <3>2, <4>1, QueueTail DEF EachOnce
      <4>3. lost' = lost \cup {h}
        BY <4>1
      <4> HIDE DEF h
      <4> QED BY <2>k, <2>t, <4>1, <4>2, <4>3 DEF EachOnce, Gone
    <3> QED BY <3>1, <3>2
  <2>4. ASSUME NEW p \in Producers, Retry(p) PROVE EachOnce'
    <3> PICK e : e = Event(p, "bulk")
      OBVIOUS
    <3>1. e \in Events /\ Fresh(e) /\ Numbered(e)' /\ e.lane = "bulk"
      BY <2>4, <2>d, <2>f DEF Retry, Lanes
    <3>2. UNCHANGED <<priority, written, refused>>
      BY <2>4 DEF Retry
    <3>3. CASE Len(bulk) < BulkCap
      <4>1. bulk' = Append(bulk, e) /\ lost' = lost
        BY <2>4, <3>3 DEF Retry
      <4>2. ToSet(bulk') = ToSet(bulk) \cup {e} /\ Once(bulk')
        BY <2>t, <3>1, <4>1, QueueAppend DEF EachOnce, Fresh
      <4>c1. (written \cap (lost \cup refused) = {})'
        BY <2>k, <2>t, <3>1, <3>2, <4>1, <4>2 DEF EachOnce, Gone, Fresh
      <4>c2. ((ToSet(bulk) \cup ToSet(priority)) \cap Gone = {})'
        BY <2>k, <2>t, <3>1, <3>2, <4>1, <4>2 DEF EachOnce, Gone, Fresh
      <4>c3. (\A e1 \in ToSet(bulk) : e1.lane = "bulk" /\ Numbered(e1))'
        BY <2>k, <2>t, <3>1, <3>2, <4>1, <4>2 DEF EachOnce
      <4>c4. (\A e1 \in ToSet(priority) : e1.lane = "priority" /\ Numbered(e1))'
        BY <2>k, <2>t, <3>1, <3>2, <4>1, <4>2 DEF EachOnce
      <4>c5. (\A e1 \in Gone : Numbered(e1))'
        BY <2>k, <2>t, <3>1, <3>2, <4>1, <4>2 DEF EachOnce, Gone
      <4> QED BY <2>k, <2>t, <3>1, <3>2, <4>1, <4>2, <4>c1, <4>c2, <4>c3, <4>c4, <4>c5 DEF EachOnce
    <3>4. CASE ~(Len(bulk) < BulkCap)
      <4>1. bulk' = bulk /\ lost' = lost \cup {e}
        BY <2>4, <3>4 DEF Retry
      <4>c1. (written \cap (lost \cup refused) = {})'
        BY <2>k, <2>t, <3>1, <3>2, <4>1 DEF EachOnce, Gone, Fresh
      <4>c2. ((ToSet(bulk) \cup ToSet(priority)) \cap Gone = {})'
        BY <2>k, <2>t, <3>1, <3>2, <4>1 DEF EachOnce, Gone, Fresh
      <4>c3. (\A e1 \in ToSet(bulk) : e1.lane = "bulk" /\ Numbered(e1))'
        BY <2>k, <2>t, <3>1, <3>2, <4>1 DEF EachOnce
      <4>c4. (\A e1 \in ToSet(priority) : e1.lane = "priority" /\ Numbered(e1))'
        BY <2>k, <2>t, <3>1, <3>2, <4>1 DEF EachOnce
      <4>c5. (\A e1 \in Gone : Numbered(e1))'
        BY <2>k, <2>t, <3>1, <3>2, <4>1 DEF EachOnce, Gone
      <4> QED BY <2>k, <2>t, <3>1, <3>2, <4>1, <4>c1, <4>c2, <4>c3, <4>c4, <4>c5 DEF EachOnce
    <3> QED BY <3>3, <3>4
  <2>5. ASSUME NEW p \in Producers, Queue(p) PROVE EachOnce'
    <3> PICK e : e = Event(p, "priority")
      OBVIOUS
    <3>1. e \in Events /\ Fresh(e) /\ Numbered(e)' /\ e.lane = "priority"
      BY <2>5, <2>d, <2>f DEF Queue, Lanes
    <3>2. priority' = Append(priority, e) /\ UNCHANGED <<bulk, written, lost, refused>>
      BY <2>5 DEF Queue
    <3>3. ToSet(priority') = ToSet(priority) \cup {e} /\ Once(priority')
      BY <2>t, <3>1, <3>2, QueueAppend DEF EachOnce, Fresh
    <3>c1. (written \cap (lost \cup refused) = {})'
      BY <2>k, <2>t, <3>1, <3>2, <3>3 DEF EachOnce, Gone, Fresh
    <3>c2. ((ToSet(bulk) \cup ToSet(priority)) \cap Gone = {})'
      BY <2>k, <2>t, <3>1, <3>2, <3>3 DEF EachOnce, Gone, Fresh
    <3>c3. (\A e1 \in ToSet(bulk) : e1.lane = "bulk" /\ Numbered(e1))'
      BY <2>k, <2>t, <3>1, <3>2, <3>3 DEF EachOnce
    <3>c4. (\A e1 \in ToSet(priority) : e1.lane = "priority" /\ Numbered(e1))'
      BY <2>k, <2>t, <3>1, <3>2, <3>3 DEF EachOnce
    <3>c5. (\A e1 \in Gone : Numbered(e1))'
      BY <2>k, <2>t, <3>1, <3>2, <3>3 DEF EachOnce, Gone
    <3> QED BY <2>k, <2>t, <3>1, <3>2, <3>3, <3>c1, <3>c2, <3>c3, <3>c4, <3>c5 DEF EachOnce
  <2>6. ASSUME NEW p \in Producers, GiveUp(p) PROVE EachOnce'
    <3> PICK e : e = Event(p, "priority")
      OBVIOUS
    <3>1. e \in Events /\ Fresh(e) /\ Numbered(e)' /\ e.lane = "priority"
      BY <2>6, <2>d, <2>f DEF GiveUp, Lanes
    <3>2. refused' = refused \cup {e} /\ UNCHANGED <<bulk, priority, written, lost>>
      BY <2>6 DEF GiveUp
    <3>c1. (written \cap (lost \cup refused) = {})'
      BY <2>k, <2>t, <3>1, <3>2 DEF EachOnce, Gone, Fresh
    <3>c2. ((ToSet(bulk) \cup ToSet(priority)) \cap Gone = {})'
      BY <2>k, <2>t, <3>1, <3>2 DEF EachOnce, Gone, Fresh
    <3>c3. (\A e1 \in ToSet(bulk) : e1.lane = "bulk" /\ Numbered(e1))'
      BY <2>k, <2>t, <3>1, <3>2 DEF EachOnce
    <3>c4. (\A e1 \in ToSet(priority) : e1.lane = "priority" /\ Numbered(e1))'
      BY <2>k, <2>t, <3>1, <3>2 DEF EachOnce
    <3>c5. (\A e1 \in Gone : Numbered(e1))'
      BY <2>k, <2>t, <3>1, <3>2 DEF EachOnce, Gone
    <3> QED BY <2>k, <2>t, <3>1, <3>2, <3>c1, <3>c2, <3>c3, <3>c4, <3>c5 DEF EachOnce
  <2>7. CASE WritePriority
    <3> DEFINE h == Head(priority)
    <3>1. priority' = Tail(priority) /\ written' = written \cup {h} /\ UNCHANGED <<bulk, lost, refused>>
      BY <2>7 DEF WritePriority
    <3>2. ToSet(priority) = ToSet(priority') \cup {h} /\ Once(priority') /\ h \notin ToSet(priority')
      BY <2>t, <2>7, <3>1, QueueTail DEF EachOnce, WritePriority
    <3> HIDE DEF h
    <3>3. h \notin ToSet(bulk)
      BY <3>2, Zenon DEF EachOnce
    <3> QED BY <2>k, <2>t, <3>1, <3>2, <3>3 DEF EachOnce, Gone
  <2>8. CASE WriteBulk
    <3> DEFINE h == Head(bulk)
    <3>1. bulk' = Tail(bulk) /\ written' = written \cup {h} /\ UNCHANGED <<priority, lost, refused>>
      BY <2>8 DEF WriteBulk
    <3>2. ToSet(bulk) = ToSet(bulk') \cup {h} /\ Once(bulk') /\ h \notin ToSet(bulk')
      BY <2>t, <2>8, <3>1, QueueTail DEF EachOnce, WriteBulk
    <3> HIDE DEF h
    <3>3. h \notin ToSet(priority)
      BY <3>2 DEF EachOnce
    <3> QED BY <2>k, <2>t, <3>1, <3>2, <3>3 DEF EachOnce, Gone
  <2>9. CASE WriterPanics
    <3>1. /\ priority' = <<>> /\ refused' = refused \cup ToSet(priority)
          /\ UNCHANGED <<bulk, written, lost>>
      BY <2>9 DEF WriterPanics
    <3>2. ToSet(priority') = {} /\ Once(priority')
      BY <3>1, QueueEmpty
    <3>3. ToSet(bulk) \cap ToSet(priority) = {}
      BY DEF EachOnce
    <3> QED BY <2>k, <2>t, <3>1, <3>2, <3>3 DEF EachOnce, Gone
  <2>10. CASE PriorityEmpty \/ BulkEmpty \/ BatchDone \/ Check \/ Idle
    BY <2>10, <2>s DEF PriorityEmpty, BulkEmpty, BatchDone, Check, Idle
  <2>11. CASE Close \/ CloseBulk \/ Join \/ UNCHANGED emitterVars
    BY <2>11, <2>s DEF Close, CloseBulk, Join, emitterVars
  <2> QED
    BY <2>1, <2>2, <2>3, <2>4, <2>5, <2>6, <2>7, <2>8, <2>9, <2>10, <2>11
    DEF EmitterNext, Continue, Write
<1> QED BY <1>1, <1>2, EmitterTyped, PTL DEF EmitterSpec

\* An event that has a place keeps one.
Somewhere == ToSet(bulk) \cup ToSet(priority) \cup Gone

LEMMA StaysSomewhere ==
  ASSUME InHand, [EmitterNext]_emitterVars, NEW e \in Somewhere
  PROVE  e \in Somewhere'
<1> USE CapsAssumption DEF channels, history, thread, Start, Goes, Place
<1>t. bulk \in Seq(Events) /\ priority \in Seq(Events)
  BY DEF InHand, EmitterTypeOK
<1>s. ASSUME UNCHANGED <<channels, written, history>> PROVE e \in Somewhere'
  BY <1>s DEF Somewhere, Gone
<1>1. ASSUME NEW p \in Producers, SendBulk(p) PROVE e \in Somewhere'
  <2>1. bulk' = Append(bulk, NewEvent(p, "bulk")) /\ UNCHANGED <<priority, written, history>>
    BY <1>1 DEF SendBulk
  <2>2. NewEvent(p, "bulk") \in Events
    BY <1>1, EventTyped DEF SendBulk
  <2>3. ToSet(bulk) \subseteq ToSet(bulk')
    BY <1>t, <2>1, <2>2, QueueAppend
  <2> QED BY <2>1, <2>3 DEF Somewhere, Gone
<1>2. ASSUME NEW p \in Producers, FoundFull(p) \/ SendPriority(p) PROVE e \in Somewhere'
  BY <1>2, <1>s DEF FoundFull, SendPriority
<1>3. ASSUME NEW p \in Producers, Evict(p) PROVE e \in Somewhere'
  <2>1. CASE bulk = <<>> BY <1>3, <2>1, <1>s DEF Evict
  <2>2. CASE bulk # <<>>
    <3>1. bulk' = Tail(bulk) /\ lost' = lost \cup {Head(bulk)} /\ UNCHANGED <<priority, written, refused>>
      BY <1>3, <2>2 DEF Evict
    <3>2. ToSet(bulk) = ToSet(bulk') \cup {Head(bulk)}
      BY <1>t, <2>2, <3>1, QueueTail
    <3> QED BY <3>1, <3>2 DEF Somewhere, Gone
  <2> QED BY <2>1, <2>2
<1>4. ASSUME NEW p \in Producers, Retry(p) PROVE e \in Somewhere'
  <2>1. Event(p, "bulk") \in Events
    BY <1>4, EventTyped DEF Retry
  <2>2. CASE Len(bulk) < BulkCap
    <3>1. bulk' = Append(bulk, Event(p, "bulk")) /\ UNCHANGED <<priority, written, history>>
      BY <1>4, <2>2 DEF Retry
    <3>2. ToSet(bulk) \subseteq ToSet(bulk')
      BY <1>t, <2>1, <3>1, QueueAppend
    <3> QED BY <3>1, <3>2 DEF Somewhere, Gone
  <2>3. CASE ~(Len(bulk) < BulkCap)
    <3>1. lost \subseteq lost' /\ UNCHANGED <<channels, written, refused>>
      BY <1>4, <2>3 DEF Retry
    <3> QED BY <3>1 DEF Somewhere, Gone
  <2> QED BY <2>2, <2>3
<1>5. ASSUME NEW p \in Producers, Queue(p) PROVE e \in Somewhere'
  <2>1. Event(p, "priority") \in Events
    BY <1>5, EventTyped DEF Queue
  <2>2. priority' = Append(priority, Event(p, "priority")) /\ UNCHANGED <<bulk, written, history>>
    BY <1>5 DEF Queue
  <2>3. ToSet(priority) \subseteq ToSet(priority')
    BY <1>t, <2>1, <2>2, QueueAppend
  <2> QED BY <2>2, <2>3 DEF Somewhere, Gone
<1>6. ASSUME NEW p \in Producers, GiveUp(p) PROVE e \in Somewhere'
  <2>1. refused \subseteq refused' /\ UNCHANGED <<channels, written, lost>>
    BY <1>6 DEF GiveUp
  <2> QED BY <2>1 DEF Somewhere, Gone
<1>7. CASE WritePriority
  <2>1. /\ priority # <<>> /\ priority' = Tail(priority) /\ written' = written \cup {Head(priority)}
        /\ UNCHANGED <<bulk, lost, refused>>
    BY <1>7 DEF WritePriority
  <2>2. ToSet(priority) = ToSet(priority') \cup {Head(priority)}
    BY <1>t, <2>1, QueueTail
  <2> QED BY <2>1, <2>2 DEF Somewhere, Gone
<1>8. CASE WriteBulk
  <2>1. /\ bulk # <<>> /\ bulk' = Tail(bulk) /\ written' = written \cup {Head(bulk)}
        /\ UNCHANGED <<priority, lost, refused>>
    BY <1>8 DEF WriteBulk
  <2>2. ToSet(bulk) = ToSet(bulk') \cup {Head(bulk)}
    BY <1>t, <2>1, QueueTail
  <2> QED BY <2>1, <2>2 DEF Somewhere, Gone
<1>9. CASE WriterPanics
  <2>1. refused' = refused \cup ToSet(priority) /\ UNCHANGED <<bulk, written, lost>>
    BY <1>9 DEF WriterPanics
  <2> QED BY <2>1 DEF Somewhere, Gone
<1>10. CASE PriorityEmpty \/ BulkEmpty \/ BatchDone \/ Check \/ Idle
  BY <1>10, <1>s DEF PriorityEmpty, BulkEmpty, BatchDone, Check, Idle
<1>11. CASE Close \/ CloseBulk \/ Join \/ UNCHANGED emitterVars
  BY <1>11, <1>s DEF Close, CloseBulk, Join, emitterVars
<1> QED
  BY <1>1, <1>2, <1>3, <1>4, <1>5, <1>6, <1>7, <1>8, <1>9, <1>10, <1>11
  DEF EmitterNext, Continue, Write

LEMMA NothingMissing == EmitterSpec => []NoneMissing
<1> USE CapsAssumption
<1>1. EmitterInit => NoneMissing
  BY DEF EmitterInit, NoneMissing
<1>2. InHand /\ NoneMissing /\ [EmitterNext]_emitterVars => NoneMissing'
  <2> SUFFICES ASSUME InHand, NoneMissing, [EmitterNext]_emitterVars, NEW p \in Producers,
                      NEW n \in 1..sent'[p]
               PROVE  Found(p, n)' \/ (sending'[p] # "idle" /\ n = sent'[p])
    BY DEF NoneMissing
  <2> USE DEF channels, history, thread, Start, Goes, Place
  <2>t. /\ bulk \in Seq(Events) /\ priority \in Seq(Events) /\ sent[p] \in Nat
        /\ sent \in [Producers -> 0..MaxEvents]
        /\ sending \in [Producers -> {"idle", "evict", "retry", "wait"}]
    BY EventTyped DEF InHand, EmitterTypeOK
  <2>i. n \in 1..sent[p] => Found(p, n) \/ (sending[p] # "idle" /\ n = sent[p])
    BY DEF NoneMissing
  <2>f. Found(p, n) => Found(p, n)'
    BY StaysSomewhere DEF Found, Somewhere
  <2>h. ASSUME NEW e \in Somewhere', e.by = p, e.n = n PROVE Found(p, n)'
    BY <2>h DEF Found, Somewhere
  <2>0. CASE sent'[p] = sent[p] /\ (sending'[p] # "idle" \/ sending[p] = "idle")
    BY <2>0, <2>i, <2>f
  <2>1. ASSUME NEW r \in Producers, SendBulk(r)
        PROVE  Found(p, n)' \/ (sending'[p] # "idle" /\ n = sent'[p])
    <3>1. CASE r # p
      BY <2>1, <3>1, <2>0, <2>t DEF SendBulk
    <3>2. CASE r = p
      <4>1. sent'[p] = sent[p] + 1 /\ sending[p] = "idle"
        BY <2>1, <3>2, <2>t DEF SendBulk
      <4>2. PICK e : e = NewEvent(p, "bulk")
        OBVIOUS
      <4>3. e \in Events /\ e.by = p /\ e.n = sent[p] + 1
        BY <2>1, <3>2, <4>2, EventTyped DEF SendBulk
      <4>4. ToSet(bulk') = ToSet(bulk) \cup {e}
        BY <2>1, <2>t, <3>2, <4>2, <4>3, QueueAppend DEF SendBulk
      <4>5. e \in Somewhere'
        BY <4>4 DEF Somewhere
      <4> QED BY <2>i, <2>f, <2>h, <2>t, <4>1, <4>3, <4>5
    <3> QED BY <3>1, <3>2
  <2>2. ASSUME NEW r \in Producers, FoundFull(r) \/ SendPriority(r)
        PROVE  Found(p, n)' \/ (sending'[p] # "idle" /\ n = sent'[p])
    <3>1. CASE r # p
      BY <2>2, <3>1, <2>0, <2>t DEF FoundFull, SendPriority
    <3>2. CASE r = p
      <4>1. sent'[p] = sent[p] + 1 /\ sending[p] = "idle" /\ sending'[p] # "idle"
        BY <2>2, <3>2, <2>t DEF FoundFull, SendPriority
      <4> QED BY <2>i, <2>f, <2>t, <4>1
    <3> QED BY <3>1, <3>2
  <2>3. ASSUME NEW r \in Producers, Evict(r)
        PROVE  Found(p, n)' \/ (sending'[p] # "idle" /\ n = sent'[p])
    BY <2>3, <2>0, <2>t DEF Evict
  <2>4. ASSUME NEW r \in Producers, Retry(r) \/ Queue(r) \/ GiveUp(r)
        PROVE  Found(p, n)' \/ (sending'[p] # "idle" /\ n = sent'[p])
    <3>1. CASE r # p
      BY <2>4, <3>1, <2>0, <2>t DEF Retry, Queue, GiveUp
    <3>2. CASE r = p
      <4>1. sent' = sent /\ sending[p] # "idle"
        BY <2>4, <3>2 DEF Retry, Queue, GiveUp
      <4>2. PICK lane \in Lanes : Event(p, lane) \in Somewhere'
        <5>1. Event(p, "bulk") \in Events /\ Event(p, "priority") \in Events
          BY <4>1, EventTyped
        <5>2. Retry(p) => Event(p, "bulk") \in ToSet(bulk') \/ Event(p, "bulk") \in lost'
          BY <2>t, <5>1, QueueAppend DEF Retry
        <5>3. Queue(p) => Event(p, "priority") \in ToSet(priority')
          BY <2>t, <5>1, QueueAppend DEF Queue
        <5>4. GiveUp(p) => Event(p, "priority") \in refused'
          BY DEF GiveUp
        <5> QED BY <2>4, <3>2, <5>2, <5>3, <5>4 DEF Somewhere, Gone, Lanes
      <4>3. Event(p, lane).by = p /\ Event(p, lane).n = sent[p]
        BY DEF Event
      <4>4. n = sent[p] => Found(p, n)'
        BY <2>h, <4>2, <4>3
      <4> QED BY <2>i, <2>f, <2>t, <4>1, <4>4
    <3> QED BY <3>1, <3>2
  <2>5. CASE Write \/ WriterPanics \/ Close \/ CloseBulk \/ Join \/ UNCHANGED emitterVars
    <3>1. UNCHANGED <<sent, sending>>
      BY <2>5 DEF Write, WritePriority, PriorityEmpty, WriteBulk, BulkEmpty, BatchDone, Check, Idle,
         WriterPanics, Close, CloseBulk, Join, emitterVars
    <3> QED BY <3>1, <2>0
  <2> QED BY <2>1, <2>2, <2>3, <2>4, <2>5 DEF EmitterNext, Continue
<1> QED BY <1>1, <1>2, EmitterTyped, PTL DEF EmitterSpec

LEMMA ClosesInOrder == EmitterSpec => []ClosedInOrder
<1> USE CapsAssumption
<1>1. EmitterInit => ClosedInOrder
  BY DEF EmitterInit, ClosedInOrder
<1>2. InHand /\ ClosedInOrder /\ [EmitterNext]_emitterVars => ClosedInOrder'
  <2> SUFFICES ASSUME InHand, ClosedInOrder, [EmitterNext]_emitterVars PROVE ClosedInOrder'
    OBVIOUS
  <2> USE DEF channels, history, thread, Start, Goes, Place, ClosedInOrder
  <2>t. /\ sending \in [Producers -> {"idle", "evict", "retry", "wait"}]
        /\ owner \in {"open", "closing", "joining", "joined"} /\ gone \subseteq Lanes
    BY DEF InHand, EmitterTypeOK
  <2>1. ASSUME NEW p \in Producers, SendBulk(p) \/ FoundFull(p) \/ SendPriority(p)
        PROVE  ClosedInOrder'
    <3>1. owner = "open" /\ UNCHANGED <<owner, priority, gone, writer>>
      BY <2>1 DEF SendBulk, FoundFull, SendPriority
    <3> QED BY <2>t, <3>1
  <2>2. ASSUME NEW p \in Producers, Continue(p) PROVE ClosedInOrder'
    <3>1. sending[p] # "idle" /\ UNCHANGED <<owner, gone, writer>>
      BY <2>2 DEF Continue, Evict, Retry, Queue, GiveUp
    <3>2. owner = "open"
      BY <3>1
    <3>3. priority' = priority \/ writer # "dead"
      BY <2>2 DEF Continue, Evict, Retry, Queue, GiveUp
    <3> QED BY <2>t, <3>1, <3>2, <3>3
  <2>3. CASE Close \/ CloseBulk \/ Join BY <2>3, <2>t DEF Close, CloseBulk, Join
  <2>4. CASE WritePriority BY <2>4, <2>t DEF WritePriority
  <2>5. CASE PriorityEmpty BY <2>5, <2>t DEF PriorityEmpty, Closed
  <2>6. CASE WriteBulk BY <2>6, <2>t DEF WriteBulk
  <2>7. CASE BulkEmpty BY <2>7, <2>t DEF BulkEmpty, Closed
  <2>8. CASE BatchDone \/ Idle BY <2>8, <2>t DEF BatchDone, Idle
  <2>9. CASE Check BY <2>9, <2>t DEF Check, Finished
  <2>10. CASE WriterPanics BY <2>10, <2>t DEF WriterPanics
  <2>11. CASE UNCHANGED emitterVars BY <2>11 DEF emitterVars
  <2> QED
    BY <2>1, <2>2, <2>3, <2>4, <2>5, <2>6, <2>7, <2>8, <2>9, <2>10, <2>11 DEF EmitterNext, Write
<1> QED BY <1>1, <1>2, EmitterTyped, PTL DEF EmitterSpec

\* A bounded queue holds at most as many events as its length, and a sender's
\* call is known by the event it sent.
LEMMA QueueSize ==
  ASSUME NEW S, NEW s \in Seq(S)
  PROVE  IsFiniteSet(ToSet(s)) /\ Cardinality(ToSet(s)) <= Len(s)
<1>1. Len(s) \in Nat /\ DOMAIN s = 1..Len(s)
  OBVIOUS
<1>2. IsFiniteSet(1..Len(s)) /\ Cardinality(1..Len(s)) = Len(s)
  <2>1. \A n \in Nat : IsFiniteSet(1..n) /\ Cardinality(1..n) = IF 1 > n THEN 0 ELSE n - 1 + 1
    BY FS_Interval
  <2>2. \A n \in Nat : IF 1 > n THEN n = 0 ELSE n = n - 1 + 1
    OBVIOUS
  <2> QED BY <1>1, <2>1, <2>2
<1> DEFINE f == [i \in 1..Len(s) |-> s[i]]
<1>3. f \in Surjection(1..Len(s), ToSet(s))
  BY <1>1 DEF Surjection, ToSet
<1> HIDE DEF f
<1> QED BY <1>2, <1>3, FS_Surjection

LEMMA CallsOfEvents ==
  ASSUME NEW calls, NEW events, IsFiniteSet(events),
         \A c \in calls : c \in Producers \X (1..MaxEvents),
         \A c \in calls : \E e \in events : e.by = c[1] /\ e.n = c[2]
  PROVE  IsFiniteSet(calls) /\ Cardinality(calls) <= Cardinality(events)
<1> DEFINE f == [c \in calls |-> CHOOSE e \in events : e.by = c[1] /\ e.n = c[2]]
<1>1. \A c \in calls : f[c] \in events /\ f[c].by = c[1] /\ f[c].n = c[2]
  OBVIOUS
<1>2. f \in [calls -> events]
  BY <1>1
<1>3. \A c, d \in calls : c[1] = d[1] /\ c[2] = d[2] => c = d
  OBVIOUS
<1> HIDE DEF f
<1>4. \A c, d \in calls : f[c] = f[d] => c = d
  BY <1>1, <1>3
<1>5. f \in Injection(calls, events)
  BY <1>2, <1>4 DEF Injection, IsInjective
<1> QED BY <1>5, FS_Injection

\* LossIsCounted: however many senders overflow the bulk lane at once, each drop
\* they count stands for at most two events that no transport sees, because
\* send_bulk counts before it evicts; only a panic of a transport loses more, and
\* never more than the bulk lane holds.
THEOREM LossCounted == EmitterSpec => []LossIsCounted
<1> USE CapsAssumption
<1>1. InHand /\ LossLedger /\ NoneMissing /\ ClosedInOrder => LossIsCounted
  <2> SUFFICES ASSUME InHand, LossLedger, NoneMissing, ClosedInOrder PROVE LossIsCounted
    OBVIOUS
  <2> DEFINE stranded == IF writer = "dead" THEN ToSet(bulk) ELSE {}
  <2>t. /\ bulk \in Seq(Events) /\ Len(bulk) \in Nat /\ Len(bulk) <= BulkCap /\ dropped \in Nat
        /\ sent \in [Producers -> 0..MaxEvents] /\ writer \in WriterPlaces
    BY DEF InHand, EmitterTypeOK
  <2>1. Cardinality(lost) \in Nat /\ Cardinality(lost) <= 2 * dropped /\ IsFiniteSet(lost)
    <3>1. /\ Cardinality(lost) \in Nat /\ Cardinality(Senders("evict")) \in Nat
          /\ Cardinality(Senders("retry")) \in Nat /\ IsFiniteSet(lost)
      BY FS_CardinalityType DEF LossLedger
    <3>2. Cardinality(lost) + 2 * Cardinality(Senders("evict")) + Cardinality(Senders("retry"))
            <= 2 * dropped
      BY DEF LossLedger
    <3> QED BY <2>t, <3>1, <3>2
  <2>2. IsFiniteSet(stranded) /\ Cardinality(stranded) \in Nat
        /\ Cardinality(stranded) <= IF writer = "dead" THEN BulkCap ELSE 0
    <3>1. IsFiniteSet(ToSet(bulk)) /\ Cardinality(ToSet(bulk)) <= Len(bulk)
      BY <2>t, QueueSize
    <3>2. CASE writer = "dead"
      BY <2>t, <3>1, <3>2, FS_CardinalityType
    <3>3. CASE writer # "dead"
      BY <3>3, FS_EmptySet
    <3> QED BY <3>2, <3>3
  <2>3. ASSUME NEW c \in Unseen
        PROVE  \E e \in lost \cup stranded : e.by = c[1] /\ e.n = c[2]
    <3>1. /\ c[1] \in Producers /\ c[2] \in 1..MaxEvents /\ c[2] <= sent[c[1]]
          /\ sending[c[1]] # "idle" => c[2] < sent[c[1]]
          /\ ~ \E e \in Delivered \cup refused : e.by = c[1] /\ e.n = c[2]
      BY DEF Unseen, Returned
    <3>2. c[2] \in 1..sent[c[1]] /\ (sending[c[1]] # "idle" => c[2] # sent[c[1]])
      BY <2>t, <3>1
    <3>3. Found(c[1], c[2])
      BY <3>1, <3>2 DEF NoneMissing
    <3>4. PICK e \in ToSet(bulk) \cup ToSet(priority) \cup Gone : e.by = c[1] /\ e.n = c[2]
      BY <3>3 DEF Found
    <3>5. e \notin Delivered /\ e \notin refused
      BY <3>1, <3>4
    <3>6. CASE Running
      BY <3>4, <3>5, <3>6 DEF Delivered, Gone
    <3>7. CASE writer = "ended"
      <4>1. ToSet(bulk) = {} /\ ToSet(priority) = {}
        BY <3>7, QueueEmpty DEF ClosedInOrder, Lanes
      <4> QED BY <3>4, <3>5, <4>1 DEF Delivered, Gone
    <3>8. CASE writer = "dead"
      <4>1. ToSet(priority) = {}
        BY <3>8, QueueEmpty DEF ClosedInOrder
      <4> QED BY <3>4, <3>5, <3>8, <4>1 DEF Delivered, Gone
    <3> QED BY <3>6, <3>7, <3>8 DEF Running
  <2>4. IsFiniteSet(lost \cup stranded)
        /\ Cardinality(lost \cup stranded) <= Cardinality(lost) + Cardinality(stranded)
    <3> HIDE DEF stranded
    <3>1. /\ IsFiniteSet(lost \cup stranded) /\ IsFiniteSet(lost \cap stranded)
          /\ Cardinality(lost \cup stranded) =
               Cardinality(lost) + Cardinality(stranded) - Cardinality(lost \cap stranded)
      BY <2>1, <2>2, FS_Union, FS_Intersection
    <3>2. Cardinality(lost \cap stranded) \in Nat
      BY <3>1, FS_CardinalityType
    <3> QED BY <2>1, <2>2, <3>1, <3>2
  <2> HIDE DEF stranded
  <2>5. \A c \in Unseen : c \in Producers \X (1..MaxEvents)
    BY DEF Unseen, Returned
  <2>6. IsFiniteSet(Unseen) /\ Cardinality(Unseen) <= Cardinality(lost \cup stranded)
    BY <2>3, <2>4, <2>5, CallsOfEvents
  <2>7. Cardinality(Unseen) \in Nat /\ Cardinality(lost \cup stranded) \in Nat
    BY <2>4, <2>6, FS_CardinalityType
  <2> QED BY <2>t, <2>1, <2>2, <2>4, <2>6, <2>7 DEF LossIsCounted
<1> QED BY <1>1, Ledger, EmitterTyped, NothingMissing, ClosesInOrder, PTL

\* ShutdownFlushes: when shutdown returns and the writer did not die, every event
\* of every sender has been written, or counted as lost, or refused to its sender.
THEOREM ShutdownComplete == EmitterSpec => []ShutdownFlushes
<1>1. EachOnce /\ NoneMissing /\ ClosedInOrder => ShutdownFlushes
  <2> SUFFICES ASSUME EachOnce, NoneMissing, ClosedInOrder, owner = "joined", writer = "ended"
               PROVE  /\ written \cap (lost \cup refused) = {}
                      /\ \A p \in Producers : \A n \in 1..sent[p] :
                           \E e \in written \cup lost \cup refused : e.by = p /\ e.n = n
    BY DEF ShutdownFlushes
  <2>1. bulk = <<>> /\ priority = <<>> /\ \A p \in Producers : sending[p] = "idle"
    BY DEF ClosedInOrder, Lanes
  <2>2. ToSet(bulk) = {} /\ ToSet(priority) = {}
    BY <2>1, QueueEmpty
  <2> QED BY <2>1, <2>2 DEF EachOnce, NoneMissing, Found, Gone
<1> QED BY <1>1, SentOnce, NothingMissing, ClosesInOrder, PTL
=============================================================================
