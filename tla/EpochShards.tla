---------------------------- MODULE EpochShards ----------------------------
(***************************************************************************)
(* How data-parallel ranks cut one epoch among themselves without talking: *)
(* each rank derives the same permutation of the dataset, truncates or     *)
(* pads it, keeps every world-th index and cuts those into batches.  The   *)
(* ranks then train in lockstep: a step's collective completes when every  *)
(* rank has entered it.                                                    *)
(***************************************************************************)
EXTENDS Naturals, FiniteSets, Sequences, Functions

CONSTANTS
  Lengths,     \* sizes of the dataset
  World,       \* DistributedSampler::world_size
  BatchSizes,  \* sizes of a batch
  Policies     \* subset of {"Drop", "Pad"}

ASSUME WorldAssumption ==
  Lengths \subseteq Nat /\ World \in Nat \ {0} /\ BatchSizes \subseteq Nat \ {0}
ASSUME PoliciesAssumption == Policies \subseteq {"Drop", "Pad"}

VARIABLES
  len, batchSize, policy, dropLast,  \* the loader's configuration
  shuffled,  \* the permutation every rank derives from (seed, epoch)
  status,    \* each rank: "new", "running" or "panicked"
  batches,   \* each rank: its batches, sequences of samples
  entered    \* each rank: the collectives it has entered

epoch == <<len, batchSize, policy, dropLast, shuffled>>
epochVars == <<epoch, status, batches, entered>>

Ranks == 0..World - 1
Samples == 0..len - 1

EpochInit ==
  /\ len \in Lengths /\ batchSize \in BatchSizes
  /\ policy \in Policies /\ dropLast \in BOOLEAN
  /\ shuffled \in Bijection(1..len, Samples)
  /\ status = [r \in Ranks |-> "new"]
  /\ batches = [r \in Ranks |-> <<>>]
  /\ entered = [r \in Ranks |-> 0]

----------------------------------------------------------------------------
CeilDiv(a, b) == (a + b - 1) \div b
NextMultiple(a, b) == CeilDiv(a, b) * b

\* `indices[..n]` panics when there are not that many.
PaddingExists == NextMultiple(len, World) - len <= len

Truncated == SubSeq(shuffled, 1, len - (len % World))
Padded == shuffled \o SubSeq(shuffled, 1, NextMultiple(len, World) - len)

\* Mutant: no truncation.
NarrowedByPad == IF policy = "Drop" THEN shuffled ELSE Padded

\* Mutant: the padding repeats the whole epoch.
NarrowedTwice == IF policy = "Drop" THEN Truncated ELSE Padded \o Padded

Narrowed == IF policy = "Drop" THEN Truncated ELSE Padded

\* skip(rank).step_by(world)
Slice(r) ==
  [k \in 1..CeilDiv(Len(Narrowed) - r, World) |-> Narrowed[r + (k - 1) * World + 1]]

Smaller(a, b) == IF a < b THEN a ELSE b

Batches(slice) ==
  LET number == IF dropLast THEN Len(slice) \div batchSize
                ELSE CeilDiv(Len(slice), batchSize)
  IN  [i \in 1..number |->
         SubSeq(slice, (i - 1) * batchSize + 1, Smaller(i * batchSize, Len(slice)))]

----------------------------------------------------------------------------
\* A rank opens its epoch: into_iter.
Derive(r) ==
  /\ status[r] = "new"
  /\ policy = "Pad" => PaddingExists
  /\ batches' = [batches EXCEPT ![r] = Batches(Slice(r))]
  /\ status' = [status EXCEPT ![r] = "running"]
  /\ UNCHANGED <<epoch, entered>>

DerivePanics(r) ==
  /\ status[r] = "new"
  /\ policy = "Pad" /\ ~PaddingExists
  /\ status' = [status EXCEPT ![r] = "panicked"]
  /\ UNCHANGED <<epoch, batches, entered>>

\* A rank trains on its next batch, once everyone has joined the last collective.
Step(r) ==
  /\ status[r] = "running" /\ entered[r] < Len(batches[r])
  /\ \A s \in Ranks : entered[s] >= entered[r]
  /\ entered' = [entered EXCEPT ![r] = @ + 1]
  /\ UNCHANGED <<epoch, status, batches>>

EpochNext == \E r \in Ranks : Derive(r) \/ DerivePanics(r) \/ Step(r)

EpochSpec == EpochInit /\ [][EpochNext]_epochVars

\* A rank that is not waiting for another one goes on.
EpochFairSpec == EpochSpec /\ \A r \in Ranks : WF_epochVars(Derive(r) \/ DerivePanics(r) \/ Step(r))

----------------------------------------------------------------------------
(* Properties                                                              *)

\* The shape of every variable.
EpochTypeOK ==
  /\ status \in [Ranks -> {"new", "running", "panicked"}]
  /\ \A r \in Ranks :
       /\ entered[r] \in 0..Len(batches[r])
       /\ \A i \in 1..Len(batches[r]) :
            /\ Len(batches[r][i]) \in 1..batchSize
            /\ Range(batches[r][i]) \subseteq Samples

Running == {r \in Ranks : status[r] = "running"}
Seen(r) == UNION {Range(batches[r][i]) : i \in 1..Len(batches[r])}
Reads == {read \in Ranks \X (1..len + World) \X (1..len + World) :
            /\ read[2] <= Len(batches[read[1]])
            /\ read[3] <= Len(batches[read[1]][read[2]])}
SampleAt(read) == batches[read[1]][read[2]][read[3]]

\* Under Drop no sample is read twice, on whichever ranks; under Pad at most
\* World - 1 reads repeat one.
FewRepeats ==
  LET repeats == Cardinality(Reads) - Cardinality({SampleAt(read) : read \in Reads})
  IN  IF policy = "Drop" THEN repeats = 0 ELSE repeats < World

\* When every rank has opened its epoch, Pad leaves no sample unread, Drop at
\* most World - 1; a dropped last batch costs each rank less than a batch.
Coverage ==
  Running = Ranks =>
    LET unread == len - Cardinality(UNION {Seen(r) : r \in Ranks})
        tails == IF dropLast THEN World * (batchSize - 1) ELSE 0
    IN  unread <= tails + (IF policy = "Drop" THEN World - 1 ELSE 0)

\* The ranks share the dataset: nearly every sample is read, nearly none twice.
SharedFairly == FewRepeats /\ Coverage

\* No rank waits in a collective that another rank will never enter: every rank
\* that opened its epoch gets through its last collective.
EpochEnds ==
  \A r \in Ranks :
    status[r] = "running" ~>
      entered[r] = Len(batches[r]) /\ \A s \in Ranks : entered[s] >= entered[r]
=============================================================================
