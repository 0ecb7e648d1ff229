-------------------------- MODULE AtomicityProofs --------------------------
(***************************************************************************)
(* What is stored changes all at once or not at all.                       *)
(*                                                                         *)
(* In memory: load_state and an optimizer's step are atomic for any model: *)
(* any number of leaves, any sharing of variables, any refusal of the      *)
(* backend.  The invariant says, for each pass, which variables may differ *)
(* from what the call found and which leaf answers for each of them.       *)
(*                                                                         *)
(* On disk: the tuning cache file, for any number of processes, records,   *)
(* faults and limits, is never torn, keeps every acknowledged record       *)
(* through crashes, and gives up its oldest records first - or a whole     *)
(* file, when a process with a smaller byte limit finds it too long.       *)
(***************************************************************************)
EXTENDS ParameterCommit, TuningCache, FiniteSetTheorems, WellFoundedInduction, TLAPS

(* load_state and commit of a prepared update *)

(* The variables have not changed since the call began. *)
Untouched == value = before.value

(* What Prepare stages for a leaf. *)
StagedPair(l) == {[original |-> before.value[SlotOf[l]], candidate |-> target[l]]}
AllStaged == \A l \in Leaves : pending[l] = StagedPair(l)

(* A variable that differs from what the call found belongs to one of S. *)
ChangedOnlyBy(S) ==
  \A s \in Slots : value[s] # before.value[s] => \E l \in S : SlotOf[l] = s

MarkedIffStaged == \A l \in Leaves : l \in committed <=> pending[l] # {}

Preparing ==
  /\ group = Leaves /\ NoConflict(target) /\ Untouched
  /\ \A l \in Leaves : IF l \in todo THEN l \in committed <=> pending[l] # {}
                                     ELSE pending[l] = StagedPair(l)
Committing ==
  /\ group = Leaves /\ NoConflict(target) /\ AllStaged
  /\ Leaves \ todo \subseteq committed
  /\ \A l \in Leaves \ todo : value[SlotOf[l]] = target[l]
  /\ ChangedOnlyBy(Leaves \ todo)
RollingBack ==
  /\ AllStaged
  /\ ChangedOnlyBy(committed)
  /\ ~ rejected => committed \subseteq todo
Updating ==
  /\ MarkedIffStaged
  /\ ChangedOnlyBy(group \ todo)
  /\ \A l \in group \ todo :
       \E k \in group : SlotOf[k] = SlotOf[l] /\ value[SlotOf[l]] = target[k]
Reverting ==
  /\ MarkedIffStaged
  /\ ChangedOnlyBy(todo)

PassInv ==
  /\ call = "prepare" => Preparing
  /\ call = "commit" => Committing
  /\ call = "rollback" => RollingBack
  /\ call = "update" => Updating
  /\ call = "revert" => Reverting
  /\ call # "none" => SameOptimizer

IInv == TypeOK /\ PassInv /\ AllOrNothing /\ UnrestoredIsMarked /\ StagingReleased

-----------------------------------------------------------------------------
(* Types                                                                   *)

(* The model at rest is a record of its parts. *)
LEMMA ModelParts ==
  ASSUME TypeOK
  PROVE  /\ Model = before <=> Untouched /\ SameOptimizer
         /\ value \in [Slots -> Contents] /\ before.value \in [Slots -> Contents]
         /\ moments \in [Leaves -> Nat] /\ steps \in Nat
         /\ before.moments \in [Leaves -> Nat] /\ before.steps \in Nat
         /\ Model.value = value /\ Model.moments = moments /\ Model.steps = steps
<1>1. before = [value |-> before.value, moments |-> before.moments, steps |-> before.steps]
  BY DEF TypeOK, Models
<1>2. /\ Model.value = value /\ Model.moments = moments /\ Model.steps = steps
  BY DEF Model
<1>3. before.value \in [Slots -> Contents] /\ before.moments \in [Leaves -> Nat] /\ before.steps \in Nat
  BY DEF TypeOK, Models
<1>4. value \in [Slots -> Contents] /\ moments \in [Leaves -> Nat] /\ steps \in Nat
  BY <1>2 DEF TypeOK, Models
<1>5. Model = before => Untouched /\ SameOptimizer
  BY <1>2 DEF Untouched, SameOptimizer
<1>6. ASSUME Untouched, SameOptimizer PROVE Model = before
  <2>1. Model = [value |-> before.value, moments |-> before.moments, steps |-> before.steps]
    BY <1>6 DEF Model, Untouched, SameOptimizer
  <2> QED BY <1>1, <2>1, Zenon
<1> QED BY <1>2, <1>3, <1>4, <1>5, <1>6

(* A staged pair has the type of one. *)
LEMMA StagedPairTyped ==
  ASSUME TypeOK, NEW l \in Leaves
  PROVE  [original |-> value[SlotOf[l]], candidate |-> target[l]] \in Staged
BY ModelParts, SlotAssumption DEF Staged, TypeOK

(* The initial state is well typed. *)
LEMMA InitTyped == Init => TypeOK
<1> SUFFICES ASSUME Init PROVE TypeOK
  OBVIOUS
<1>1. Model \in Models
  BY DEF Init, Model, Models
<1>2. target \in [Leaves -> Contents]
  BY SlotAssumption DEF Init
<1>3. pending \in [Leaves -> {{}} \cup {{staged} : staged \in Staged}]
  BY DEF Init
<1> QED BY <1>1, <1>2, <1>3 DEF Init, TypeOK, Passes, Outcomes

(* Every step keeps the types. *)
LEMMA NextTyped == TypeOK /\ PassInv /\ [Next]_vars => TypeOK'
<1> SUFFICES ASSUME TypeOK, PassInv, [Next]_vars PROVE TypeOK'
  OBVIOUS
<1>0. /\ value \in [Slots -> Contents] /\ before.value \in [Slots -> Contents]
      /\ moments \in [Leaves -> Nat] /\ steps \in Nat /\ Model \in Models
      /\ before \in Models /\ target \in [Leaves -> Contents]
      /\ \A l \in Leaves : SlotOf[l] \in Slots
  BY ModelParts, SlotAssumption DEF TypeOK
<1>1. Model' \in Models
  <2> SUFFICES /\ value' \in [Slots -> Contents]
               /\ moments' \in [Leaves -> Nat] /\ steps' \in Nat
    BY DEF Model, Models
  <2>1. CASE UNCHANGED <<value, optimizer>>
    BY <1>0, <2>1 DEF optimizer
  <2>2. ASSUME NEW l \in Leaves, Commit(l) \/ Rollback(l)
        PROVE  value' \in [Slots -> Contents] /\ UNCHANGED optimizer
    <3>1. CASE value' = value
      BY <1>0, <2>2, <3>1 DEF Commit, Rollback
    <3>2. CASE \E staged \in pending[l] :
                 Assign(l, staged.candidate) \/ Assign(l, staged.original)
      <4>1. PICK staged \in Staged : Assign(l, staged.candidate) \/ Assign(l, staged.original)
        BY <3>2 DEF TypeOK
      <4>2. staged.candidate \in Contents /\ staged.original \in Contents
        BY DEF Staged
      <4> QED BY <1>0, <2>2, <4>1, <4>2 DEF Assign, Commit, Rollback
    <3> QED BY <2>2, <3>1, <3>2 DEF Commit, Rollback
  <2>3. ASSUME NEW l \in Leaves, Update(l) \/ Revert(l)
        PROVE  value' \in [Slots -> Contents] /\ UNCHANGED optimizer
    BY <1>0, <2>3 DEF Update, Revert, Assign
  <2>4. CASE Publish
    BY <1>0, <2>4 DEF Publish
  <2> QED
    BY <1>0, <2>1, <2>2, <2>3, <2>4
    DEF Next, vars, optimizer, RefuseLoad, RefuseStep, BeginLoad, BeginStep, Prepare,
        RollbackRejected, PrepareFails, Prepared, CommitFails, Committed, RolledBack,
        UpdateFails, RevertRejected, Reverted
<1>2. before' \in Models /\ target' \in [Leaves -> Contents] /\ group' \subseteq Leaves
  BY <1>0
  DEF Next, vars, request, Begin, RefuseLoad, RefuseStep, BeginLoad, BeginStep, Prepare,
      Commit, Rollback, RollbackRejected, PrepareFails, Prepared, CommitFails, Committed,
      RolledBack, Update, UpdateFails, Publish, Revert, RevertRejected, Reverted, TypeOK
<1>3. /\ call' \in Passes /\ outcome' \in Outcomes /\ rejected' \in BOOLEAN
      /\ todo' \subseteq group'
  BY DEF Next, vars, request, Begin, RefuseLoad, RefuseStep, BeginLoad, BeginStep, Prepare,
      Commit, Rollback, RollbackRejected, PrepareFails, Prepared, CommitFails, Committed,
      RolledBack, Update, UpdateFails, Publish, Revert, RevertRejected, Reverted,
      TypeOK, Enter, Visit, Returns, Passes, Outcomes, PassInv, Preparing, Committing
<1>4. /\ committed' \subseteq Leaves
      /\ pending' \in [Leaves -> {{}} \cup {{staged} : staged \in Staged}]
  <2>1. ASSUME NEW l \in Leaves, Prepare(l) PROVE <1>4!1 /\ <1>4!2
    BY <2>1, StagedPairTyped DEF Prepare, TypeOK
  <2>2. ASSUME NEW l \in Leaves, Commit(l) \/ Rollback(l) \/ RollbackRejected(l) \/ Update(l) \/ Revert(l)
        PROVE  <1>4!1 /\ <1>4!2
    BY <2>2 DEF Commit, Rollback, RollbackRejected, Update, Revert, TypeOK, staging
  <2>3. CASE PrepareFails \/ Committed \/ RolledBack
    BY <2>3 DEF PrepareFails, Committed, RolledBack, ClearAll, TypeOK
  <2>4. CASE UNCHANGED staging
    BY <2>4 DEF TypeOK, staging
  <2> QED
    BY <2>1, <2>2, <2>3, <2>4
    DEF Next, vars, RefuseLoad, RefuseStep, BeginLoad, BeginStep, Prepared, CommitFails,
        UpdateFails, Publish, RevertRejected, Reverted
<1> QED BY <1>1, <1>2, <1>3, <1>4 DEF TypeOK

-----------------------------------------------------------------------------
(* The passes                                                              *)

(* Nothing between calls but a new call changes the properties at rest. *)
AtRest == AllOrNothing /\ UnrestoredIsMarked /\ StagingReleased

(* A step into or within a pass promises nothing about rest. *)
LEMMA BusyIsTrivial ==
  ASSUME call' # "none"
  PROVE  AtRest'
BY DEF AtRest, AllOrNothing, UnrestoredIsMarked, StagingReleased

(* Beginning a call, or refusing it, touches nothing. *)
LEMMA BeginKeeps ==
  ASSUME TypeOK, IInv,
         \/ RefuseLoad \/ RefuseStep
         \/ \E goal \in [Leaves -> Contents] :
              BeginLoad(goal) \/ \E leaves \in SUBSET Leaves : BeginStep(leaves, goal)
  PROVE  PassInv' /\ AtRest'
<1>0. /\ call = "none" /\ before' = Model /\ UNCHANGED <<value, staging, optimizer>>
      /\ StagingReleased
  BY DEF Begin, RefuseLoad, RefuseStep, BeginLoad, BeginStep, IInv
<1>1. /\ MarkedIffStaged /\ MarkedIffStaged' /\ SameOptimizer' /\ Untouched' /\ Model' = before'
  BY <1>0, ModelParts
  DEF StagingReleased, MarkedIffStaged, SameOptimizer, Untouched, staging, optimizer, Model
<1>2. CASE RefuseLoad \/ RefuseStep
  <2>1. call' = "none" /\ outcome' = "err"
    BY <1>2 DEF RefuseLoad, RefuseStep, Returns, Enter
  <2> QED
    BY <1>1, <2>1
    DEF PassInv, AtRest, AllOrNothing, UnrestoredIsMarked, StagingReleased, MarkedIffStaged
<1>3. ASSUME NEW goal \in [Leaves -> Contents], BeginLoad(goal)
      PROVE  PassInv' /\ AtRest'
  <2>1. /\ call' = "prepare" /\ todo' = Leaves /\ group' = Leaves /\ target' = goal
        /\ NoConflict(goal)
    BY <1>3 DEF BeginLoad, Begin, Enter
  <2>2. Preparing'
    BY <1>1, <2>1 DEF Preparing, NoConflict, MarkedIffStaged
  <2> QED BY <1>1, <2>1, <2>2, BusyIsTrivial DEF PassInv
<1>4. ASSUME NEW goal \in [Leaves -> Contents], NEW leaves \in SUBSET Leaves, BeginStep(leaves, goal)
      PROVE  PassInv' /\ AtRest'
  <2>1. call' = "update" /\ todo' = leaves /\ group' = leaves
    BY <1>4 DEF BeginStep, Begin, Enter
  <2>2. Updating'
    BY <1>1, <2>1 DEF Updating, ChangedOnlyBy, Untouched
  <2> QED BY <1>1, <2>1, <2>2, BusyIsTrivial DEF PassInv
<1> QED BY <1>2, <1>3, <1>4

(* Preparing stages every leaf, or clears all of them, and assigns nothing. *)
LEMMA PrepareKeeps ==
  ASSUME TypeOK, IInv, (\E l \in Leaves : Prepare(l)) \/ PrepareFails \/ Prepared
  PROVE  PassInv' /\ AtRest'
<1>0. /\ call = "prepare" /\ Preparing /\ SameOptimizer /\ UNCHANGED <<value, optimizer, request>>
  BY DEF Prepare, PrepareFails, Prepared, IInv, PassInv
<1>1. SameOptimizer' /\ Untouched' /\ (Model = before)'
  BY <1>0, ModelParts DEF SameOptimizer, optimizer, request, Preparing, Untouched, Model
<1>2. ASSUME NEW l \in Leaves, Prepare(l)
      PROVE  PassInv' /\ AtRest'
  <2>1. /\ call' = "prepare" /\ todo' = todo \ {l} /\ committed' = committed
        /\ UNCHANGED request
        /\ pending' = [pending EXCEPT ![l] =
              {[original |-> value[SlotOf[l]], candidate |-> target[l]]}]
    BY <1>0, <1>2 DEF Prepare, Visit
  <2>2. value = before.value
    BY <1>0 DEF Preparing, Untouched
  <2>3. pending'[l] = StagedPair(l)'
    <3>1. l \in DOMAIN pending
      BY <1>2 DEF Prepare, TypeOK
    <3> QED BY <2>1, <2>2, <3>1 DEF StagedPair, request
  <2>4. \A k \in Leaves \ {l} : pending'[k] = pending[k] /\ StagedPair(k)' = StagedPair(k)
    BY <2>1 DEF StagedPair, request
  <2>5. Preparing'
    BY <1>0, <1>1, <2>1, <2>3, <2>4 DEF Preparing, request, NoConflict
  <2> QED BY <1>1, <2>1, <2>5, BusyIsTrivial DEF PassInv
<1>3. CASE PrepareFails
  <2>1. call' = "none" /\ outcome' = "err" /\ ClearAll
    BY <1>3 DEF PrepareFails, Returns, Enter
  <2> QED
    BY <1>1, <2>1
    DEF PassInv, AtRest, AllOrNothing, UnrestoredIsMarked, StagingReleased, ClearAll
<1>4. CASE Prepared
  <2>1. /\ call' = "commit" /\ todo = {} /\ todo' = Leaves /\ UNCHANGED <<pending, committed, request>>
    BY <1>4 DEF Prepared, Enter, staging
  <2>2. Committing'
    BY <1>0, <1>1, <2>1
    DEF Preparing, Committing, AllStaged, StagedPair, ChangedOnlyBy, Untouched, request, NoConflict
  <2> QED BY <1>1, <2>1, <2>2, BusyIsTrivial DEF PassInv
<1> QED BY <1>2, <1>3, <1>4

(* Committing changes variables of visited leaves only, all of them marked. *)
LEMMA CommitKeeps ==
  ASSUME TypeOK, IInv, (\E l \in Leaves : Commit(l)) \/ CommitFails \/ Committed
  PROVE  PassInv' /\ AtRest'
<1>0. /\ call = "commit" /\ Committing /\ SameOptimizer /\ UNCHANGED <<optimizer, request>>
  BY DEF Commit, CommitFails, Committed, IInv, PassInv
<1>1. SameOptimizer'
  BY <1>0 DEF SameOptimizer, optimizer, request
<1>2. ASSUME NEW l \in Leaves, Commit(l)
      PROVE  PassInv' /\ AtRest'
  <2>1. /\ call' = "commit" /\ l \in todo /\ todo' = todo \ {l}
        /\ committed' = committed \cup {l} /\ pending' = pending
    BY <1>0, <1>2 DEF Commit, Visit
  <2>2. PICK staged \in pending[l] : Assign(l, staged.candidate)
    BY <1>2 DEF Commit
  <2>3. staged.candidate = target[l]
    BY <1>0, <2>2 DEF Committing, AllStaged, StagedPair
  <2>4. value' = [value EXCEPT ![SlotOf[l]] = target[l]]
    BY <2>2, <2>3 DEF Assign
  <2>5. /\ value'[SlotOf[l]] = target[l]
        /\ \A s \in Slots : s # SlotOf[l] => value'[s] = value[s]
    BY <2>4, ModelParts, SlotAssumption
  <2>6. \A k \in Leaves \ todo' : value'[SlotOf[k]] = target[k]
    BY <1>0, <2>1, <2>5, SlotAssumption DEF Committing, NoConflict, Tied
  <2>7. ChangedOnlyBy(Leaves \ todo)'
    BY <1>0, <2>1, <2>5 DEF Committing, ChangedOnlyBy, request
  <2>8. Committing'
    BY <1>0, <2>1, <2>6, <2>7
    DEF Committing, AllStaged, StagedPair, NoConflict, request
  <2> QED BY <1>1, <2>1, <2>8, BusyIsTrivial DEF PassInv
<1>3. CASE CommitFails
  <2>1. call' = "rollback" /\ todo' = Leaves /\ UNCHANGED <<value, pending, committed>>
    BY <1>3 DEF CommitFails, Enter, staging
  <2>2. committed \subseteq Leaves
    BY DEF TypeOK
  <2>3. RollingBack'
    BY <1>0, <2>1, <2>2
    DEF Committing, RollingBack, AllStaged, StagedPair, ChangedOnlyBy, request
  <2> QED BY <1>1, <2>1, <2>3, BusyIsTrivial DEF PassInv
<1>4. CASE Committed
  <2>1. call' = "none" /\ outcome' = "ok" /\ ClearAll /\ value' = value /\ todo = {}
    BY <1>4 DEF Committed, Returns, Enter
  <2>2. AllAssigned
    BY <1>0, <2>1 DEF Committing, AllAssigned, ChangedOnlyBy
  <2>3. AllAssigned'
    BY <1>0, <2>1, <2>2 DEF AllAssigned, request
  <2> QED
    BY <1>1, <2>1, <2>3
    DEF PassInv, AtRest, AllOrNothing, UnrestoredIsMarked, StagingReleased, ClearAll
<1> QED BY <1>2, <1>3, <1>4

(* Rolling back leaves only marked leaves' variables changed. *)
LEMMA RollbackKeeps ==
  ASSUME TypeOK, IInv,
         (\E l \in Leaves : Rollback(l) \/ RollbackRejected(l)) \/ RolledBack
  PROVE  PassInv' /\ AtRest'
<1>0. /\ call = "rollback" /\ RollingBack /\ SameOptimizer /\ UNCHANGED <<optimizer, request>>
  BY DEF Rollback, RollbackRejected, RolledBack, IInv, PassInv
<1>1. SameOptimizer'
  BY <1>0 DEF SameOptimizer, optimizer, request
<1>2. ASSUME NEW l \in Leaves, Rollback(l)
      PROVE  PassInv' /\ AtRest'
  <2>1. /\ call' = "rollback" /\ todo' = todo \ {l} /\ committed' = committed \ {l}
        /\ pending' = pending /\ rejected' = rejected
    BY <1>0, <1>2 DEF Rollback, Visit
  <2>2. CASE l \notin committed
    <3>1. value' = value /\ committed' = committed
      BY <1>2, <2>1, <2>2 DEF Rollback
    <3>2. RollingBack'
      BY <1>0, <2>1, <2>2, <3>1 DEF RollingBack, AllStaged, StagedPair, ChangedOnlyBy, request
    <3> QED BY <1>1, <2>1, <3>2, BusyIsTrivial DEF PassInv
  <2>3. CASE l \in committed
    <3>1. PICK staged \in pending[l] : Assign(l, staged.original)
      BY <1>2, <2>3 DEF Rollback
    <3>2. staged.original = before.value[SlotOf[l]]
      BY <1>0, <3>1 DEF RollingBack, AllStaged, StagedPair
    <3>3. /\ value'[SlotOf[l]] = before.value[SlotOf[l]]
          /\ \A s \in Slots : s # SlotOf[l] => value'[s] = value[s]
      BY <3>1, <3>2, ModelParts, SlotAssumption DEF Assign
    <3>4. ChangedOnlyBy(committed)'
      BY <1>0, <2>1, <3>3 DEF RollingBack, ChangedOnlyBy, request
    <3>5. RollingBack'
      BY <1>0, <2>1, <3>4 DEF RollingBack, AllStaged, StagedPair, request
    <3> QED BY <1>1, <2>1, <3>5, BusyIsTrivial DEF PassInv
  <2> QED BY <2>2, <2>3
<1>3. ASSUME NEW l \in Leaves, RollbackRejected(l)
      PROVE  PassInv' /\ AtRest'
  <2>1. /\ call' = "rollback" /\ rejected' /\ UNCHANGED <<value, committed, pending>>
    BY <1>0, <1>3 DEF RollbackRejected, Visit, staging
  <2>2. RollingBack'
    BY <1>0, <2>1 DEF RollingBack, AllStaged, StagedPair, ChangedOnlyBy, request
  <2> QED BY <1>1, <2>1, <2>2, BusyIsTrivial DEF PassInv
<1>4. CASE RolledBack
  <2>1. /\ call' = "none" /\ outcome' = (IF rejected THEN "rollback" ELSE "err")
        /\ todo = {} /\ UNCHANGED <<value, committed>>
        /\ pending' = [l \in Leaves |-> IF l \in committed THEN pending[l] ELSE {}]
    BY <1>4 DEF RolledBack, Returns, Enter
  <2>2. \A l \in committed : l \in Leaves /\ pending'[l] = StagedPair(l)
    BY <1>0, <2>1 DEF RollingBack, AllStaged, TypeOK
  <2>3. StagingReleased'
    BY <2>1, <2>2 DEF StagingReleased, StagedPair
  <2>4. UnrestoredIsMarked'
    <3>1. value' = value /\ before' = before /\ committed' = committed
      BY <1>0, <2>1 DEF request
    <3>2. ASSUME NEW s \in Slots, value[s] # before.value[s]
          PROVE  \E l \in committed : \E staged \in pending'[l] :
                   SlotOf[l] = s /\ staged.original = before.value[s]
      <4>1. PICK l \in committed : SlotOf[l] = s
        BY <1>0, <3>2 DEF RollingBack, ChangedOnlyBy
      <4>2. [original |-> before.value[SlotOf[l]], candidate |-> target[l]] \in pending'[l]
        BY <2>2, <4>1 DEF StagedPair
      <4> QED BY <4>1, <4>2
    <3> QED BY <3>1, <3>2 DEF UnrestoredIsMarked
  <2>5. AllOrNothing'
    <3>1. CASE rejected
      BY <1>1, <2>1, <3>1 DEF AllOrNothing
    <3>2. CASE ~ rejected
      <4>1. ChangedOnlyBy({})
        BY <1>0, <2>1, <3>2 DEF RollingBack
      <4>2. Untouched
        BY <4>1, ModelParts DEF ChangedOnlyBy, Untouched
      <4>3. (Model = before)'
        <5>1. Model = before
          BY <1>0, <4>2, ModelParts
        <5> QED BY <1>0, <2>1, <5>1 DEF Model, optimizer, request
      <4> QED BY <2>1, <3>2, <4>3 DEF AllOrNothing
    <3> QED BY <3>1, <3>2
  <2> QED BY <2>1, <2>3, <2>4, <2>5 DEF PassInv, AtRest
<1> QED BY <1>2, <1>3, <1>4

(* An optimizer's updates change only variables of updated leaves. *)
LEMMA UpdateKeeps ==
  ASSUME TypeOK, IInv, (\E l \in Leaves : Update(l)) \/ UpdateFails \/ Publish
  PROVE  PassInv' /\ AtRest'
<1>0. /\ call = "update" /\ Updating /\ SameOptimizer /\ UNCHANGED <<staging, request>>
      /\ group \subseteq Leaves
  BY DEF Update, UpdateFails, Publish, IInv, PassInv, TypeOK
<1>1. MarkedIffStaged'
  BY <1>0 DEF Updating, MarkedIffStaged, staging
<1>2. ASSUME NEW l \in Leaves, Update(l)
      PROVE  PassInv' /\ AtRest'
  <2>1. /\ call' = "update" /\ l \in todo /\ todo' = todo \ {l} /\ l \in group
        /\ UNCHANGED optimizer
    BY <1>0, <1>2 DEF Update, Visit, TypeOK
  <2>2. /\ value'[SlotOf[l]] = target[l]
        /\ \A s \in Slots : s # SlotOf[l] => value'[s] = value[s]
    BY <1>2, ModelParts, SlotAssumption DEF Update, Assign
  <2>3. ChangedOnlyBy(group \ todo)'
    BY <1>0, <2>1, <2>2 DEF Updating, ChangedOnlyBy, request
  <2>4. ASSUME NEW k \in group \ todo'
        PROVE  \E j \in group : SlotOf[j] = SlotOf[k] /\ value'[SlotOf[k]] = target[j]
    <3>1. CASE SlotOf[k] = SlotOf[l]
      BY <2>1, <2>2, <3>1
    <3>2. CASE SlotOf[k] # SlotOf[l]
      BY <1>0, <2>1, <2>2, <2>4, <3>2, SlotAssumption DEF Updating
    <3> QED BY <3>1, <3>2
  <2>5. Updating'
    BY <1>0, <1>1, <2>3, <2>4 DEF Updating, request
  <2>6. SameOptimizer'
    BY <1>0, <2>1 DEF SameOptimizer, optimizer, request
  <2> QED BY <2>1, <2>5, <2>6, BusyIsTrivial DEF PassInv
<1>3. CASE UpdateFails
  <2>1. call' = "revert" /\ todo' = group /\ UNCHANGED <<value, optimizer>>
    BY <1>3 DEF UpdateFails, Enter
  <2>2. Reverting' /\ SameOptimizer'
    BY <1>0, <1>1, <2>1
    DEF Reverting, Updating, ChangedOnlyBy, SameOptimizer, optimizer, request
  <2> QED BY <2>1, <2>2, BusyIsTrivial DEF PassInv
<1>4. CASE Publish
  <2>1. /\ call' = "none" /\ outcome' = "ok" /\ value' = value /\ todo = {}
        /\ steps' = steps + 1
        /\ moments' = [l \in Leaves |-> IF l \in group THEN steps' ELSE moments[l]]
    BY <1>4 DEF Publish, Returns, Enter
  <2>2. AllAssigned
    <3> SUFFICES ASSUME NEW s \in Slots
                 PROVE  LET meant == {target[l] : l \in {k \in group : SlotOf[k] = s}}
                        IN  IF meant = {} THEN value[s] = before.value[s] ELSE value[s] \in meant
      BY DEF AllAssigned
    <3>1. CASE \E l \in group : SlotOf[l] = s
      <4>1. PICK l \in group : SlotOf[l] = s
        BY <3>1
      <4>2. PICK k \in group : SlotOf[k] = s /\ value[s] = target[k]
        BY <1>0, <2>1, <4>1 DEF Updating
      <4> QED BY <4>2
    <3>2. CASE ~ \E l \in group : SlotOf[l] = s
      <4>1. value[s] = before.value[s]
        BY <1>0, <2>1, <3>2 DEF Updating, ChangedOnlyBy
      <4> QED BY <3>2, <4>1
    <3> QED BY <3>1, <3>2
  <2>3. AllAssigned' /\ SteppedOptimizer'
    BY <1>0, <2>1, <2>2 DEF AllAssigned, SteppedOptimizer, SameOptimizer, request
  <2> QED
    BY <1>1, <2>1, <2>3
    DEF PassInv, AtRest, AllOrNothing, UnrestoredIsMarked, StagingReleased, MarkedIffStaged
<1> QED BY <1>2, <1>3, <1>4

(* Reverting leaves only the variables of leaves still to visit changed. *)
LEMMA RevertKeeps ==
  ASSUME TypeOK, IInv, (\E l \in Leaves : Revert(l)) \/ RevertRejected \/ Reverted
  PROVE  PassInv' /\ AtRest'
<1>0. /\ call = "revert" /\ Reverting /\ SameOptimizer
      /\ UNCHANGED <<staging, request, optimizer>>
  BY DEF Revert, RevertRejected, Reverted, IInv, PassInv
<1>1. MarkedIffStaged' /\ SameOptimizer'
  BY <1>0 DEF Reverting, MarkedIffStaged, SameOptimizer, staging, optimizer, request
<1>2. ASSUME NEW l \in Leaves, Revert(l)
      PROVE  PassInv' /\ AtRest'
  <2>1. call' = "revert" /\ todo' = todo \ {l}
    BY <1>0, <1>2 DEF Revert, Visit
  <2>2. /\ value'[SlotOf[l]] = before.value[SlotOf[l]]
        /\ \A s \in Slots : s # SlotOf[l] => value'[s] = value[s]
    BY <1>2, ModelParts, SlotAssumption DEF Revert, Assign
  <2>3. Reverting'
    BY <1>0, <1>1, <2>1, <2>2 DEF Reverting, ChangedOnlyBy, request
  <2> QED BY <1>1, <2>1, <2>3, BusyIsTrivial DEF PassInv
<1>3. CASE RevertRejected
  <2>1. call' = "none" /\ outcome' = "broken"
    BY <1>3 DEF RevertRejected, Returns, Enter
  <2> QED
    BY <1>1, <2>1
    DEF PassInv, AtRest, AllOrNothing, UnrestoredIsMarked, StagingReleased, MarkedIffStaged
<1>4. CASE Reverted
  <2>1. call' = "none" /\ outcome' = "err" /\ value' = value /\ todo = {}
    BY <1>4 DEF Reverted, Returns, Enter
  <2>2. Untouched
    BY <1>0, <2>1, ModelParts DEF Reverting, ChangedOnlyBy, Untouched
  <2>3. Model = before
    BY <1>0, <2>2, ModelParts
  <2>4. (Model = before)'
    BY <1>0, <2>1, <2>3 DEF Model, optimizer, request
  <2> QED
    BY <1>1, <2>1, <2>4
    DEF PassInv, AtRest, AllOrNothing, UnrestoredIsMarked, StagingReleased, MarkedIffStaged
<1> QED BY <1>2, <1>3, <1>4

(* The invariant is inductive. *)
LEMMA Inductive == Spec => []IInv
<1>1. Init => IInv
  <2> SUFFICES ASSUME Init PROVE IInv
    OBVIOUS
  <2>1. TypeOK
    BY InitTyped
  <2>2. Model = before /\ call = "none" /\ outcome = "ok" /\ group = Leaves
    BY DEF Init
  <2>3. AllAssigned /\ SameOptimizer
    <3>1. Untouched /\ SameOptimizer
      BY <2>1, <2>2, ModelParts
    <3>2. target = [l \in Leaves |-> value[SlotOf[l]]]
      BY DEF Init
    <3> QED BY <2>2, <3>1, <3>2, SlotAssumption DEF AllAssigned, Untouched
  <2>4. StagingReleased
    BY DEF Init, StagingReleased
  <2> QED BY <2>1, <2>2, <2>3, <2>4 DEF IInv, PassInv, AllOrNothing, UnrestoredIsMarked
<1>2. IInv /\ [Next]_vars => IInv'
  <2> SUFFICES ASSUME IInv, [Next]_vars PROVE IInv'
    OBVIOUS
  <2>1. TypeOK /\ TypeOK'
    BY NextTyped DEF IInv
  <2>2. CASE Next
    BY <2>1, <2>2, BeginKeeps, PrepareKeeps, CommitKeeps, RollbackKeeps, UpdateKeeps, RevertKeeps
    DEF Next, IInv, AtRest
  <2>3. CASE UNCHANGED vars
    <3>1. PassInv'
      BY <2>3
      DEF IInv, PassInv, vars, request, optimizer, staging, SameOptimizer, Preparing,
          Committing, RollingBack, Updating, Reverting, AllStaged, StagedPair,
          ChangedOnlyBy, MarkedIffStaged, NoConflict, Untouched
    <3>2. AtRest'
      BY <2>3
      DEF IInv, AtRest, vars, request, optimizer, staging, AllOrNothing, UnrestoredIsMarked,
          StagingReleased, Model, AllAssigned, SameOptimizer, SteppedOptimizer
    <3> QED BY <2>1, <3>1, <3>2 DEF IInv, AtRest
  <2> QED BY <2>2, <2>3
<1> QED BY <1>1, <1>2, PTL DEF Spec

-----------------------------------------------------------------------------
(* Theorems                                                                *)

(* Every variable has its type in every reachable state. *)
THEOREM Typed == Spec => []TypeOK
<1>1. IInv => TypeOK
  BY DEF IInv
<1> QED BY <1>1, Inductive, PTL

(* A load or an optimizer step happens entirely or, unless the backend     *)
(* refuses the rollback and the error says so, not at all.                 *)
THEOREM Atomic == Spec => []AllOrNothing
<1>1. IInv => AllOrNothing
  BY DEF IInv
<1> QED BY <1>1, Inductive, PTL

(* What a rejected rollback left changed is marked, with its original.     *)
THEOREM FailuresMarked == Spec => []UnrestoredIsMarked
<1>1. IInv => UnrestoredIsMarked
  BY DEF IInv
<1> QED BY <1>1, Inductive, PTL

(* Staged storage is held between calls by marked leaves only.             *)
THEOREM StagingGone == Spec => []StagingReleased
<1>1. IInv => StagingReleased
  BY DEF IInv
<1> QED BY <1>1, Inductive, PTL

----------------------------------------------------------------------------
(* The tuning cache: the inductive invariant *)

\* What is in the files and what the calls hold.
Bytestring == [state : {"absent", "valid", "bad"}, entries : SUBSET Records, synced : BOOLEAN]
Call == [kind : {"none", "open", "commit", "clear"}, record : Records, asOf : Nat]
CacheShape ==
  /\ now \in 0..MaxTime /\ merges \in Nat /\ damaged \in BOOLEAN
  /\ file \in Bytestring /\ durable \in Bytestring /\ unsynced \subseteq Bytestring
  /\ pc \in [Processes -> {"closed", "idle"} \cup InCall]
  /\ lock \in Processes \cup {Nobody}
  /\ op \in [Processes -> Call]
  /\ loaded \in [Processes -> SUBSET Records]
  /\ temp \in [Processes -> Bytestring]
  /\ view \in [Processes -> SUBSET Records] /\ acked \subseteq Records

\* The places of a call that holds the file lock, and that only one holds it.
Inside == InCall \ {"lock"}
OneInside == \A p \in Processes : pc[p] \in Inside => lock = p

\* Every version of the file a power loss may leave behind.
OnDisk == {file, durable} \cup unsynced

\* A temporary file is complete before it is synced and durable before it is
\* renamed over the cache.
TempReady ==
  \A p \in Processes : pc[p] \in {"sync", "rename"} =>
    /\ temp[p].state = "valid" /\ temp[p].entries = loaded[p]
    /\ pc[p] = "rename" => temp[p].synced

\* Unless something outside the cache damaged the file, every version of it is
\* whole and its bytes are durable.
DiskWhole == ~damaged => \A f \in OnDisk : f.state # "bad" /\ f.synced

\* Records are kept one per key, finitely many, with numbers handed out so far.
OneOfEach(S) == \A r, s \in S : r.key = s.key => r = s
Tidy(S, last) == IsFiniteSet(S) /\ OneOfEach(S) /\ \A r \in S : r.serial <= last
AllTidy ==
  /\ \A f \in OnDisk : Tidy(f.entries, merges)
  /\ \A p \in Processes : Tidy(loaded[p], merges)
  /\ \A p \in Processes : Tidy(temp[p].entries, merges)
  /\ \A r \in acked : r.serial <= merges
  /\ \A p \in Processes : op[p].record.serial <= merges

\* What a call is about to write comes from the file it loaded, which nobody has
\* replaced since, and from its own record, which no one was promised yet.
Working(p) == pc[p] \in {"write", "sync", "rename"}
Ruined == damaged /\ file.state = "bad"
LoadedSince(p) ==
  /\ pc[p] = "merge" => op[p].kind = "commit"
  /\ pc[p] = "lock" => op[p].kind # "none"
  /\ pc[p] = "load" => op[p].kind \in {"open", "commit"}
  /\ pc[p] \in {"closed", "idle", "lock", "load"} \/ op[p].kind = "clear" => loaded[p] = {}
  /\ pc[p] = "merge" => loaded[p] \subseteq file.entries \/ Ruined
  /\ Working(p) => \/ loaded[p] \subseteq file.entries \/ Ruined
                   \/ op[p].kind = "commit" /\ loaded[p] \subseteq file.entries \cup {op[p].record}
  /\ Working(p) /\ op[p].kind = "commit" => op[p].record \notin acked
LoadedFrom == \A p \in Processes : LoadedSince(p)

\* A record that was acknowledged and is still in the file is in every version a
\* power loss may bring back: the directory was synced before the promise.
AckedEverywhere ==
  ~damaged =>
    /\ \A f \in OnDisk : acked \cap file.entries \subseteq f.entries
    /\ \A p \in Processes : pc[p] = "done" /\ op[p].kind = "commit" =>
         durable = file /\ unsynced = {}

\* What Load and Merge have dropped from the file, and why they were allowed to.
Spared(r, S) == \A s \in S \cap file.entries : Older(r, s)
ByLoad(p) ==
  pc[p] = "merge" /\ file.state = "valid" =>
    \A r \in file.entries \ loaded[p] :
      /\ Spared(r, loaded[p])
      /\ Age(r, op[p].asOf) > Limits[p].age \/ Exceeds(file.entries, Limits[p])
Lawful(p) ==
  Working(p) /\ op[p].kind # "clear" /\ file.state = "valid" =>
    \A r \in file.entries \ loaded[p] :
      \/ \E s \in loaded[p] : s.key = r.key /\ s.serial > r.serial
      \/ NoRoom(p, r) /\ Spared(r, loaded[p])
Evicted == \A p \in Processes : ByLoad(p) /\ Lawful(p)

\* What is written fits the limits of the process that wrote it.
Fits(S) == S = {} \/ \E q \in Processes : Bytes(S) <= Limits[q].bytes
FileFits(f) == Fits(f.entries) /\ (f.state # "valid" => f.entries = {})
AllFit ==
  /\ \A f \in OnDisk : FileFits(f)
  /\ \A p \in Processes : Fits(loaded[p]) /\ FileFits(temp[p])

\* Pruning only drops records.
LEMMA PruneKeepsSome ==
  ASSUME NEW S, NEW limits, NEW t
  PROVE  Prune(S, limits, t) \subseteq S
BY DEF Prune, PruneSize, PruneCount, PruneAge

LEMMA Constants ==
  /\ Nobody \notin Processes /\ Keys \subseteq Nat /\ Sizes \subseteq Nat
  /\ MaxTime \in Nat /\ MaxCommits \in Nat /\ MaxFaults \in Nat
  /\ \A p \in Processes :
       Limits[p].entries \in Nat /\ Limits[p].bytes \in Nat /\ Limits[p].age \in Nat
BY ProcessesAssumption, KeysAssumption, SizesAssumption, LimitsAssumption, CacheBoundAssumption

LEMMA FilesTyped ==
  /\ NoFile \in Bytestring /\ BadFile \in Bytestring /\ NoOp \in Call
  /\ NoRecord \in Records
  /\ NoFile.entries = {} /\ BadFile.entries = {} /\ NoFile.state = "absent" /\ BadFile.state = "bad"
  /\ NoFile.synced = TRUE
  /\ \A S \in SUBSET Records : \A b \in BOOLEAN :
       /\ Valid(S, b) \in Bytestring
       /\ Valid(S, b).entries = S /\ Valid(S, b).synced = b /\ Valid(S, b).state = "valid"
BY Constants DEF NoFile, BadFile, Valid, File, Bytestring, NoOp, NoRecord, Call, Records

\* The records the actions change field by field.
LEMMA SyncedFile ==
  ASSUME NEW f \in Bytestring
  PROVE  LET g == [f EXCEPT !.synced = TRUE]
         IN  /\ g \in Bytestring /\ g.state = f.state /\ g.entries = f.entries /\ g.synced = TRUE
<1>1. f = [state |-> f.state, entries |-> f.entries, synced |-> f.synced]
      /\ f.state \in {"absent", "valid", "bad"} /\ f.entries \in SUBSET Records
  BY DEF Bytestring
<1>2. [f EXCEPT !.synced = TRUE] = [state |-> f.state, entries |-> f.entries, synced |-> TRUE]
  <2>1. \A x : [f EXCEPT !.synced = x] = [state |-> f.state, entries |-> f.entries, synced |-> x]
    BY <1>1
  <2> QED BY <2>1, Zenon
<1> QED BY <1>1, <1>2 DEF Bytestring

LEMMA Numbered ==
  ASSUME NEW r \in Records, NEW n \in Nat
  PROVE  LET s == [r EXCEPT !.serial = n]
         IN  s \in Records /\ s.key = r.key /\ s.created = r.created /\ s.serial = n
<1>1. r = [key |-> r.key, created |-> r.created, size |-> r.size, serial |-> r.serial]
      /\ r.key \in Keys \cup {0} /\ r.created \in 0..MaxTime /\ r.size \in Sizes \cup {0}
  BY DEF Records
<1>2. [r EXCEPT !.serial = n] = [key |-> r.key, created |-> r.created, size |-> r.size, serial |-> n]
  BY <1>1
<1> QED BY <1>1, <1>2 DEF Records

LEMMA CallOf ==
  ASSUME NEW c \in Call, NEW r \in Records
  PROVE  LET d == [c EXCEPT !.record = r]
         IN  d \in Call /\ d.kind = c.kind /\ d.record = r /\ d.asOf = c.asOf
<1>1. c = [kind |-> c.kind, record |-> c.record, asOf |-> c.asOf]
      /\ c.kind \in {"none", "open", "commit", "clear"} /\ c.asOf \in Nat
  BY DEF Call
<1>2. [c EXCEPT !.record = r] = [kind |-> c.kind, record |-> r, asOf |-> c.asOf]
  BY <1>1
<1> QED BY <1>1, <1>2 DEF Call

LEMMA CacheTyped == CacheSpec => []CacheShape
<1> USE Constants, FilesTyped
<1>1. CacheInit => CacheShape
  <2> SUFFICES ASSUME CacheInit PROVE CacheShape
    OBVIOUS
  <2>1. now = 0 /\ merges = 0 /\ damaged = FALSE /\ acked = {} /\ unsynced = {}
    BY DEF CacheInit
  <2>2. file = NoFile /\ durable = NoFile
    BY DEF CacheInit
  <2>3. /\ pc \in [Processes -> {"closed", "idle"} \cup InCall] /\ op \in [Processes -> Call]
        /\ temp \in [Processes -> Bytestring]
    BY DEF CacheInit
  <2>4. loaded \in [Processes -> SUBSET Records] /\ view \in [Processes -> SUBSET Records]
    BY DEF CacheInit
  <2>5. now \in 0..MaxTime /\ merges \in Nat /\ lock \in Processes \cup {Nobody}
    BY <2>1 DEF CacheInit
  <2> QED BY <2>1, <2>2, <2>3, <2>4, <2>5 DEF CacheShape
<1>2. CacheShape /\ [CacheNext]_cacheVars => CacheShape'
  <2> SUFFICES ASSUME CacheShape, [CacheNext]_cacheVars PROVE CacheShape'
    OBVIOUS
  <2> USE DEF CacheShape, disk, bounds, history, Goto, Finish, Start, Renamed, InCall
  <2>1. ASSUME NEW p \in Processes, Open(p) \/ Clear(p) PROVE CacheShape'
    <3>1. [kind |-> "open", record |-> NoRecord, asOf |-> now] \in Call
      BY DEF Call
    <3>2. [kind |-> "clear", record |-> NoRecord, asOf |-> now] \in Call
      BY DEF Call
    <3> QED BY <2>1, <3>1, <3>2 DEF Open, Clear
  <2>2. ASSUME NEW p \in Processes, CommitRecord(p) PROVE CacheShape'
    <3>1. PICK key \in Keys, created \in 0..MaxTime, size \in Sizes :
            Start(p, "commit", [key |-> key, created |-> created, size |-> size, serial |-> 0])
      BY <2>2 DEF CommitRecord
    <3>2. [key |-> key, created |-> created, size |-> size, serial |-> 0] \in Records
      BY DEF Records
    <3>3. [kind |-> "commit", record |-> [key |-> key, created |-> created, size |-> size, serial |-> 0],
           asOf |-> now] \in Call
      BY <3>2 DEF Call
    <3> QED BY <3>1, <3>3
  <2>3. ASSUME NEW p \in Processes, Lock(p) PROVE CacheShape'
    BY <2>3 DEF Lock
  <2>4. ASSUME NEW p \in Processes, Quarantine(p) PROVE CacheShape'
    BY <2>4 DEF Quarantine
  <2>5. ASSUME NEW p \in Processes, Load(p) PROVE CacheShape'
    <3>1. Prune(file.entries, Limits[p], op[p].asOf) \in SUBSET Records
      BY PruneKeepsSome DEF Bytestring
    <3> QED BY <2>5, <3>1 DEF Load
  <2>6. ASSUME NEW p \in Processes, Merge(p) PROVE CacheShape'
    <3> DEFINE record == [op[p].record EXCEPT !.serial = merges + 1]
    <3> DEFINE kept == Prune(Insert(loaded[p], record), Limits[p], op[p].asOf)
    <3>1. record \in Records /\ [op[p] EXCEPT !.record = record] \in Call
      <4>1. op[p] \in Call /\ op[p].record \in Records /\ merges + 1 \in Nat
        BY DEF Call
      <4> QED BY <4>1, Numbered, CallOf
    <3>2. kept \in SUBSET Records
      BY <3>1, PruneKeepsSome DEF Insert
    <3>3. \/ /\ op' = [op EXCEPT ![p].record = record] /\ loaded' = [loaded EXCEPT ![p] = kept]
             /\ Goto(p, "write") /\ merges' = merges + 1 /\ UNCHANGED <<lock, temp>>
          \/ Finish(p, "RecordTooLarge") /\ UNCHANGED merges
      BY <2>6 DEF Merge
    <3>4. UNCHANGED <<now, disk, view, bounds, acked>>
      BY <2>6 DEF Merge
    <3> HIDE DEF record, kept
    <3>5. op' \in [Processes -> Call]
      <4>1. CASE op' = [op EXCEPT ![p].record = record]
        <5>1. op' = [op EXCEPT ![p] = [op[p] EXCEPT !.record = record]]
          BY <4>1
        <5> QED BY <3>1, <5>1
      <4>2. CASE Finish(p, "RecordTooLarge")
        BY <4>2
      <4> QED BY <3>3, <4>1, <4>2
    <3> QED BY <3>2, <3>3, <3>4, <3>5
  <2>7. ASSUME NEW p \in Processes, Write(p) PROVE CacheShape'
    BY <2>7 DEF Write
  <2>8. ASSUME NEW p \in Processes, Sync(p) PROVE CacheShape'
    <3>1. [temp[p] EXCEPT !.synced = TRUE] \in Bytestring
      BY SyncedFile
    <3>2. temp' = [temp EXCEPT ![p] = [temp[p] EXCEPT !.synced = TRUE]]
      BY <2>8 DEF Sync
    <3> QED BY <2>8, <3>1, <3>2 DEF Sync
  <2>9. ASSUME NEW p \in Processes, Rename(p) PROVE CacheShape'
    BY <2>9 DEF Rename
  <2>10. ASSUME NEW p \in Processes, SyncParent(p) PROVE CacheShape'
    BY <2>10 DEF SyncParent
  <2>11. ASSUME NEW p \in Processes, Done(p) PROVE CacheShape'
    <3>1. op[p].record \in Records
      BY DEF Call
    <3> QED BY <2>11, <3>1 DEF Done
  <2>12. ASSUME NEW p \in Processes, IoError(p) PROVE CacheShape'
    BY <2>12 DEF IoError, Fault
  <2>13. ASSUME NEW p \in Processes, Kill(p) PROVE CacheShape'
    BY <2>13 DEF Kill, Fault, Dead
  <2>14. CASE PowerLoss
    <3>1. PICK f \in {durable} \cup unsynced :
            file' \in {[f EXCEPT !.synced = TRUE]} \cup {b \in {BadFile} : ~f.synced}
      BY <2>14 DEF PowerLoss
    <3>2. [f EXCEPT !.synced = TRUE] \in Bytestring
      BY SyncedFile
    <3>3. file' \in Bytestring
      BY <3>1, <3>2
    <3> QED BY <2>14, <3>3 DEF PowerLoss, Dead, Fault
  <2>15. CASE Damage
    BY <2>15 DEF Damage, Fault
  <2>16. CASE Tick
    BY <2>16 DEF Tick
  <2>17. CASE UNCHANGED cacheVars
    BY <2>17 DEF cacheVars
  <2> QED
    BY <2>1, <2>2, <2>3, <2>4, <2>5, <2>6, <2>7, <2>8, <2>9, <2>10, <2>11, <2>12, <2>13, <2>14,
       <2>15, <2>16, <2>17 DEF CacheNext, Work
<1> QED BY <1>1, <1>2, PTL DEF CacheSpec

\* CacheTypeOK: the clock and the ages stay within their bounds, and every record
\* anywhere is one that some call brought.
THEOREM CacheTypeCorrect == CacheSpec => []CacheTypeOK
<1>1. CacheShape => CacheTypeOK
  <2> SUFFICES ASSUME CacheShape PROVE CacheTypeOK
    OBVIOUS
  <2>1. ASSUME NEW f \in {file, durable} \cup unsynced \cup {temp[p] : p \in Processes}
        PROVE  f.state \in {"absent", "valid", "bad"} /\ f.entries \subseteq Records
    BY DEF CacheShape, Bytestring
  <2>2. \A p \in Processes : op[p].record \in Records
    BY DEF CacheShape, Call
  <2>3. now \in 0..MaxTime /\ merges \in Nat /\ acked \subseteq Records /\ lock \in Processes \cup {Nobody}
        /\ \A p \in Processes : /\ pc[p] \in {"closed", "idle"} \cup InCall
                                /\ loaded[p] \subseteq Records /\ view[p] \subseteq Records
    BY DEF CacheShape
  <2> QED BY <2>1, <2>2, <2>3, Zenon DEF CacheTypeOK
<1> QED BY <1>1, CacheTyped, PTL

LEMMA InsideIs ==
  Inside = {"load", "merge", "write", "sync", "rename", "syncParent", "done"}
BY DEF Inside, InCall

LEMMA LockExcludes == CacheSpec => []OneInside
<1> USE Constants, InsideIs
<1>1. CacheInit => OneInside
  BY DEF CacheInit, OneInside
<1>2. CacheShape /\ OneInside /\ [CacheNext]_cacheVars => OneInside'
  <2> SUFFICES ASSUME CacheShape, OneInside, [CacheNext]_cacheVars, NEW q \in Processes,
                      pc'[q] \in Inside
               PROVE  lock' = q
    BY DEF OneInside
  <2>0. pc \in [Processes -> {"closed", "idle"} \cup InCall]
    BY DEF CacheShape
  <2>i. pc[q] \in Inside => lock = q
    BY DEF OneInside
  <2>o. \A p \in Processes : pc[p] \in Inside => lock = p
    BY DEF OneInside
  <2> USE DEF Goto, Finish, Start
  <2>1. ASSUME NEW p \in Processes, Open(p) \/ CommitRecord(p) \/ Clear(p) PROVE lock' = q
    BY <2>0, <2>1, <2>i DEF Open, CommitRecord, Clear
  <2>2. ASSUME NEW p \in Processes, Lock(p) PROVE lock' = q
    BY <2>0, <2>2, <2>i DEF Lock
  <2>3. ASSUME NEW p \in Processes, Quarantine(p) \/ Load(p) PROVE lock' = q
    BY <2>0, <2>3, <2>i, <2>o DEF Quarantine, Load
  <2>4. ASSUME NEW p \in Processes, Merge(p) PROVE lock' = q
    BY <2>0, <2>4, <2>i, <2>o DEF Merge
  <2>5. ASSUME NEW p \in Processes, Write(p) \/ Sync(p) \/ Rename(p) \/ SyncParent(p) PROVE lock' = q
    BY <2>0, <2>5, <2>i, <2>o DEF Write, Sync, Rename, SyncParent
  <2>6. ASSUME NEW p \in Processes, Done(p) \/ IoError(p) PROVE lock' = q
    BY <2>0, <2>6, <2>i, <2>o DEF Done, IoError
  <2>7. ASSUME NEW p \in Processes, Kill(p) PROVE lock' = q
    BY <2>0, <2>7, <2>i DEF Kill, Dead
  <2>8. CASE PowerLoss BY <2>0, <2>8 DEF PowerLoss, Dead
  <2>9. CASE Damage \/ Tick \/ UNCHANGED cacheVars
    BY <2>9, <2>i DEF Damage, Tick, cacheVars
  <2> QED
    BY <2>1, <2>2, <2>3, <2>4, <2>5, <2>6, <2>7, <2>8, <2>9 DEF CacheNext, Work
<1> QED BY <1>1, <1>2, CacheTyped, PTL DEF CacheSpec

\* While q holds the lock the disk changes only by q's own steps (or by damage
\* from outside).
OwnStep(q) ==
  \/ Lock(q) \/ Quarantine(q) \/ Load(q) \/ Merge(q)
  \/ Write(q) \/ Sync(q) \/ Rename(q) \/ SyncParent(q)

Elsewhere(q) ==
  /\ pc'[q] = pc[q] /\ op'[q] = op[q] /\ loaded'[q] = loaded[q] /\ temp'[q] = temp[q]
  /\ pc[q] \in Inside => UNCHANGED <<disk, acked, merges, damaged>>

LEMMA StepsInside ==
  ASSUME CacheShape, OneInside, [CacheNext]_cacheVars, NEW q \in Processes, pc'[q] \in Inside
  PROVE  Damage \/ OwnStep(q) \/ Elsewhere(q)
<1> USE Constants, InsideIs DEF disk, bounds, history, Goto, Finish, Start, Renamed
<1>0. /\ pc \in [Processes -> {"closed", "idle"} \cup InCall]
      /\ op \in [Processes -> Call] /\ loaded \in [Processes -> SUBSET Records]
      /\ temp \in [Processes -> Bytestring]
  BY DEF CacheShape
<1>i. \A p \in Processes : pc[p] \in Inside => lock = p
  BY DEF OneInside
<1>1. ASSUME NEW p \in Processes, Open(p) \/ CommitRecord(p) \/ Clear(p) PROVE Elsewhere(q)
  BY <1>0, <1>1 DEF Open, CommitRecord, Clear, Elsewhere
<1>2. ASSUME NEW p \in Processes, p # q, Lock(p) \/ Quarantine(p) \/ Load(p) PROVE Elsewhere(q)
  BY <1>0, <1>2, <1>i DEF Lock, Quarantine, Load, Elsewhere
<1>3. ASSUME NEW p \in Processes, p # q, Merge(p) PROVE Elsewhere(q)
  BY <1>0, <1>3, <1>i DEF Merge, Elsewhere
<1>4. ASSUME NEW p \in Processes, p # q, Write(p) \/ Sync(p) PROVE Elsewhere(q)
  BY <1>0, <1>4, <1>i DEF Write, Sync, Elsewhere
<1>5. ASSUME NEW p \in Processes, p # q, Rename(p) \/ SyncParent(p) PROVE Elsewhere(q)
  BY <1>0, <1>5, <1>i DEF Rename, SyncParent, Elsewhere
<1>6. ASSUME NEW p \in Processes, Done(p) \/ IoError(p) PROVE Elsewhere(q)
  BY <1>0, <1>6, <1>i DEF Done, IoError, Elsewhere
<1>7. ASSUME NEW p \in Processes, Kill(p) PROVE Elsewhere(q)
  BY <1>0, <1>7 DEF Kill, Dead, Elsewhere
<1>8. CASE PowerLoss BY <1>0, <1>8 DEF PowerLoss, Dead
<1>9. CASE Tick \/ UNCHANGED cacheVars BY <1>9 DEF Tick, cacheVars, Elsewhere
<1> QED
  BY <1>1, <1>2, <1>3, <1>4, <1>5, <1>6, <1>7, <1>8, <1>9 DEF CacheNext, Work, OwnStep

LEMMA TempIsReady == CacheSpec => []TempReady
<1> USE Constants, InsideIs, FilesTyped
<1>1. CacheInit => TempReady
  BY DEF CacheInit, TempReady
<1>2. CacheShape /\ OneInside /\ TempReady /\ [CacheNext]_cacheVars => TempReady'
  <2> SUFFICES ASSUME CacheShape, OneInside, TempReady, [CacheNext]_cacheVars, NEW q \in Processes,
                      pc'[q] \in {"sync", "rename"}
               PROVE  /\ temp'[q].state = "valid" /\ temp'[q].entries = loaded'[q]
                      /\ pc'[q] = "rename" => temp'[q].synced
    BY DEF TempReady
  <2>0. /\ pc \in [Processes -> {"closed", "idle"} \cup InCall]
        /\ loaded \in [Processes -> SUBSET Records] /\ temp \in [Processes -> Bytestring]
    BY DEF CacheShape
  <2>i. pc[q] \in {"sync", "rename"} =>
          /\ temp[q].state = "valid" /\ temp[q].entries = loaded[q]
          /\ pc[q] = "rename" => temp[q].synced
    BY DEF TempReady
  <2>1. Damage \/ OwnStep(q) \/ Elsewhere(q)
    BY StepsInside
  <2> USE DEF Goto, Finish
  <2>2. CASE Damage \/ Elsewhere(q)
    BY <2>2, <2>i DEF Damage, Elsewhere
  <2>3. CASE Lock(q) \/ Quarantine(q) \/ Load(q)
    BY <2>0, <2>3 DEF Lock, Quarantine, Load
  <2>4. CASE Merge(q)
    BY <2>0, <2>4 DEF Merge
  <2>5. CASE Write(q)
    <3>1. pc'[q] = "sync" /\ temp'[q] = Valid(loaded[q], FALSE) /\ loaded' = loaded
      BY <2>0, <2>5 DEF Write
    <3>2. temp'[q].state = "valid" /\ temp'[q].entries = loaded[q]
      BY <3>1 DEF Valid, File
    <3> QED BY <3>1, <3>2
  <2>6. CASE Sync(q)
    <3>1. pc[q] = "sync" /\ loaded' = loaded /\ temp'[q] = [temp[q] EXCEPT !.synced = TRUE]
      BY <2>0, <2>6 DEF Sync
    <3>2. /\ temp'[q].state = temp[q].state /\ temp'[q].entries = temp[q].entries
          /\ temp'[q].synced = TRUE
      BY <2>0, <3>1, SyncedFile
    <3> QED BY <2>i, <3>1, <3>2
  <2>7. CASE Rename(q) \/ SyncParent(q)
    BY <2>0, <2>7 DEF Rename, SyncParent
  <2> QED BY <2>1, <2>2, <2>3, <2>4, <2>5, <2>6, <2>7 DEF OwnStep
<1> QED BY <1>1, <1>2, CacheTyped, LockExcludes, PTL DEF CacheSpec

\* The steps that change the disk.
DiskStep ==
  \/ Damage \/ PowerLoss
  \/ \E p \in Processes : Quarantine(p) \/ Rename(p) \/ SyncParent(p)
  \/ UNCHANGED <<disk, damaged>>

LEMMA DiskSteps == ASSUME [CacheNext]_cacheVars PROVE DiskStep
<1> USE DEF disk, bounds
<1>1. ASSUME NEW p \in Processes, Open(p) \/ CommitRecord(p) \/ Clear(p) PROVE UNCHANGED <<disk, damaged>>
  BY <1>1 DEF Open, CommitRecord, Clear, Start
<1>2. ASSUME NEW p \in Processes, Lock(p) \/ Load(p) PROVE UNCHANGED <<disk, damaged>>
  BY <1>2 DEF Lock, Load
<1>3. ASSUME NEW p \in Processes, Merge(p) PROVE UNCHANGED <<disk, damaged>>
  BY <1>3 DEF Merge
<1>4. ASSUME NEW p \in Processes, Write(p) \/ Sync(p) PROVE UNCHANGED <<disk, damaged>>
  BY <1>4 DEF Write, Sync
<1>5. ASSUME NEW p \in Processes, Done(p) \/ IoError(p) \/ Kill(p) PROVE UNCHANGED <<disk, damaged>>
  BY <1>5 DEF Done, IoError, Kill
<1>6. CASE Tick \/ UNCHANGED cacheVars
  BY <1>6 DEF Tick, cacheVars, DiskStep
<1> HIDE DEF disk, bounds
<1> QED BY <1>1, <1>2, <1>3, <1>4, <1>5, <1>6 DEF CacheNext, Work, DiskStep

LEMMA DiskStaysWhole == CacheSpec => []DiskWhole
<1> USE Constants, FilesTyped
<1>1. CacheInit => DiskWhole
  BY DEF CacheInit, DiskWhole, OnDisk
<1>2. CacheShape /\ TempReady /\ DiskWhole /\ [CacheNext]_cacheVars => DiskWhole'
  <2> SUFFICES ASSUME CacheShape, TempReady, DiskWhole, [CacheNext]_cacheVars, ~damaged'
               PROVE  \A f \in OnDisk' : f.state # "bad" /\ f.synced
    BY DEF DiskWhole
  <2> USE DEF disk, bounds, Renamed
  <2>t. file \in Bytestring /\ durable \in Bytestring /\ unsynced \subseteq Bytestring
    BY DEF CacheShape
  <2>i. ~damaged => \A f \in OnDisk : f.state # "bad" /\ f.synced
    BY DEF DiskWhole
  <2>1. CASE Damage BY <2>1 DEF Damage
  <2>2. CASE PowerLoss
    <3>1. PICK f \in {durable} \cup unsynced :
            file' \in {[f EXCEPT !.synced = TRUE]} \cup {b \in {BadFile} : ~f.synced}
      BY <2>2 DEF PowerLoss
    <3>2. damaged' = damaged /\ durable' = file' /\ unsynced' = {}
      BY <2>2 DEF PowerLoss
    <3>3. f.state # "bad" /\ f.synced /\ f \in Bytestring
      BY <2>t, <2>i, <3>1, <3>2 DEF OnDisk
    <3>4. file' = [f EXCEPT !.synced = TRUE]
      BY <3>1, <3>3
    <3>5. file'.state # "bad" /\ file'.synced
      BY <3>3, <3>4, SyncedFile
    <3> QED BY <3>2, <3>5 DEF OnDisk
  <2>3. ASSUME NEW p \in Processes, Quarantine(p) PROVE \A f \in OnDisk' : f.state # "bad" /\ f.synced
    BY <2>3, <2>i DEF Quarantine, OnDisk
  <2>4. ASSUME NEW p \in Processes, Rename(p) PROVE \A f \in OnDisk' : f.state # "bad" /\ f.synced
    <3>1. /\ file' = temp[p] /\ unsynced' = unsynced \cup {temp[p]} /\ durable' = durable
          /\ damaged' = damaged /\ pc[p] = "rename"
      BY <2>4 DEF Rename
    <3>2. temp[p].state = "valid" /\ temp[p].synced
      BY <3>1 DEF TempReady
    <3> QED BY <2>i, <3>1, <3>2 DEF OnDisk
  <2>5. ASSUME NEW p \in Processes, SyncParent(p) PROVE \A f \in OnDisk' : f.state # "bad" /\ f.synced
    BY <2>5, <2>i DEF SyncParent, OnDisk
  <2>6. CASE UNCHANGED <<disk, damaged>>
    BY <2>6, <2>i DEF OnDisk
  <2> QED BY <2>1, <2>2, <2>3, <2>4, <2>5, <2>6, DiskSteps DEF DiskStep
<1> QED BY <1>1, <1>2, CacheTyped, TempIsReady, PTL DEF CacheSpec

\* NeverTorn: a reader of the cache file never finds half a write, whatever is
\* killed and whenever the power goes: write_atomically syncs the temporary file
\* before it renames it.
THEOREM FileNeverTorn == CacheSpec => []NeverTorn
<1>1. DiskWhole => NeverTorn
  BY DEF DiskWhole, NeverTorn, OnDisk
<1> QED BY <1>1, DiskStaysWhole, PTL

\* prune_age, prune_count and prune_size each drop the oldest records and only
\* when a limit is exceeded.
LEMMA OlderIsOrder ==
  ASSUME NEW q \in Records, NEW r \in Records, NEW s \in Records
  PROVE  /\ ~Older(r, r)
         /\ Older(q, r) /\ Older(r, s) => Older(q, s)
         /\ r.key # s.key => Older(r, s) \/ Older(s, r)
<1>1. ASSUME NEW x \in Records PROVE x.created \in Nat /\ x.key \in Nat
  <2>1. x.created \in 0..MaxTime /\ x.key \in Keys \cup {0}
    BY DEF Records
  <2>2. MaxTime \in Nat /\ Keys \subseteq Nat
    BY Constants
  <2>3. x.created \in Nat
    BY <2>1, <2>2
  <2>4. x.key \in Nat
    <3>1. CASE x.key \in Keys
      BY <2>2, <3>1, Zenon
    <3>2. CASE x.key = 0
      BY <3>2
    <3> QED BY <2>1, <3>1, <3>2
  <2> QED BY <2>3, <2>4
<1> QED BY <1>1 DEF Older

LEMMA AgeEvictsOldest ==
  ASSUME NEW S \in SUBSET Records, NEW limits, limits.age \in Nat, NEW t \in Nat,
         NEW r \in S \ PruneAge(S, limits, t)
  PROVE  /\ \A s \in PruneAge(S, limits, t) : Older(r, s)
         /\ Age(r, t) > limits.age
<1>1. r \in Records /\ r.created \in Nat /\ Age(r, t) > limits.age
  BY DEF PruneAge, Age, Records
<1>2. ASSUME NEW s \in S, Age(s, t) <= limits.age PROVE Older(r, s)
  <2>1. s.created \in Nat
    BY DEF Records
  <2>2. r.created < s.created
    BY <1>1, <1>2, <2>1 DEF Age
  <2> QED BY <2>2 DEF Older
<1> QED BY <1>1, <1>2 DEF PruneAge

LEMMA CountEvictsOldest ==
  ASSUME NEW S \in SUBSET Records, IsFiniteSet(S), OneOfEach(S), NEW maximum \in Nat,
         NEW r \in S \ PruneCount(S, maximum)
  PROVE  /\ \A s \in PruneCount(S, maximum) : Older(r, s)
         /\ Cardinality(S) > maximum
<1> DEFINE newer == NewerThan(r, S)
<1>1. newer \in SUBSET S /\ r \notin newer
  BY OlderIsOrder DEF NewerThan
<1>2. IsFiniteSet(newer) /\ Cardinality(newer) \in Nat /\ ~(Cardinality(newer) < maximum)
  BY <1>1, FS_Subset, FS_CardinalityType DEF PruneCount
<1>3. ASSUME NEW s \in PruneCount(S, maximum) PROVE Older(r, s)
  <2>1. s \in S /\ Cardinality(NewerThan(s, S)) < maximum
    BY <1>3 DEF PruneCount
  <2>2. CASE Older(s, r)
    <3>1. newer \in SUBSET NewerThan(s, S) /\ NewerThan(s, S) \in SUBSET S
      BY <2>1, <2>2, OlderIsOrder DEF NewerThan
    <3>2. Cardinality(newer) <= Cardinality(NewerThan(s, S)) /\ Cardinality(NewerThan(s, S)) \in Nat
      BY <3>1, FS_Subset, FS_CardinalityType
    <3> QED BY <1>2, <2>1, <3>2
  <2>3. r # s
    BY <1>3
  <2>4. r.key # s.key
    BY <2>1, <2>3 DEF OneOfEach
  <2> QED BY <2>1, <2>2, <2>4, OlderIsOrder
<1>4. Cardinality(S) > maximum
  <2> HIDE DEF newer
  <2>1. newer \cup {r} \in SUBSET S
    BY <1>1
  <2>2. Cardinality(newer \cup {r}) = Cardinality(newer) + 1
    BY <1>1, <1>2, FS_AddElement
  <2>3. Cardinality(newer \cup {r}) <= Cardinality(S) /\ Cardinality(S) \in Nat
    BY <2>1, FS_Subset, FS_CardinalityType
  <2> QED BY <1>2, <2>2, <2>3
<1> QED BY <1>3, <1>4

LEMMA SizeEvictsOldest ==
  ASSUME NEW S \in SUBSET Records, OneOfEach(S), NEW maximum,
         NEW r \in S \ PruneSize(S, maximum)
  PROVE  /\ \A s \in PruneSize(S, maximum) : Older(r, s)
         /\ \E T \in SUBSET S : ~(Bytes(T) <= maximum)
<1>1. ASSUME NEW s \in PruneSize(S, maximum) PROVE Older(r, s)
  <2>1. PICK q \in S : (q = s \/ Older(q, s)) /\ Bytes(NewerThan(q, S) \cup {q}) <= maximum
    BY <1>1 DEF PruneSize
  <2>2. q # r /\ ~Older(q, r) /\ s \in S
    BY <1>1, <2>1 DEF PruneSize
  <2>3. Older(r, q)
    BY <2>2, OlderIsOrder DEF OneOfEach
  <2> QED BY <2>1, <2>2, <2>3, OlderIsOrder
<1>2. ~(Bytes(NewerThan(r, S) \cup {r}) <= maximum) /\ NewerThan(r, S) \cup {r} \in SUBSET S
  BY DEF PruneSize, NewerThan
<1> QED BY <1>1, <1>2

LEMMA PartTidy ==
  ASSUME NEW S, NEW T \in SUBSET S, IsFiniteSet(S), OneOfEach(S)
  PROVE  IsFiniteSet(T) /\ OneOfEach(T)
BY FS_Subset DEF OneOfEach

LEMMA MoreExceeds ==
  ASSUME NEW S, NEW T \in SUBSET S, IsFiniteSet(S), NEW limits, limits.entries \in Nat,
         Exceeds(T, limits)
  PROVE  Exceeds(S, limits)
<1>1. Cardinality(T) <= Cardinality(S) /\ Cardinality(T) \in Nat /\ Cardinality(S) \in Nat
  BY FS_Subset, FS_CardinalityType
<1> QED BY <1>1 DEF Exceeds

LEMMA PruneEvictsOldest ==
  ASSUME NEW S \in SUBSET Records, IsFiniteSet(S), OneOfEach(S), NEW t \in Nat,
         NEW limits, limits.entries \in Nat, limits.age \in Nat,
         NEW r \in S \ Prune(S, limits, t)
  PROVE  /\ \A s \in Prune(S, limits, t) : Older(r, s)
         /\ Age(r, t) > limits.age \/ Exceeds(S, limits)
<1> DEFINE young == PruneAge(S, limits, t)
<1> DEFINE few == PruneCount(young, limits.entries)
<1> DEFINE kept == PruneSize(few, limits.bytes)
<1>1. young \in SUBSET S /\ few \in SUBSET young /\ kept \in SUBSET few
  BY DEF PruneAge, PruneCount, PruneSize
<1>2. Prune(S, limits, t) = kept
  BY DEF Prune
<1>3. CASE r \notin young
  BY <1>1, <1>2, <1>3, AgeEvictsOldest
<1> HIDE DEF young
<1>4. IsFiniteSet(young) /\ OneOfEach(young) /\ young \in SUBSET Records
  BY <1>1, PartTidy
<1>5. CASE r \in young \ few
  <2>1. (\A s \in few : Older(r, s)) /\ Cardinality(young) > limits.entries
    BY <1>4, <1>5, CountEvictsOldest
  <2>2. Exceeds(S, limits)
    BY <1>1, <2>1, MoreExceeds DEF Exceeds
  <2> QED BY <1>1, <1>2, <2>1, <2>2
<1> HIDE DEF few
<1>6. IsFiniteSet(few) /\ OneOfEach(few) /\ few \in SUBSET Records
  BY <1>1, <1>4, PartTidy
<1>7. CASE r \in few \ kept
  <2>1. (\A s \in kept : Older(r, s)) /\ \E T \in SUBSET few : ~(Bytes(T) <= limits.bytes)
    BY <1>6, <1>7, SizeEvictsOldest
  <2>2. Exceeds(few, limits)
    BY <2>1 DEF Exceeds
  <2>3. Exceeds(S, limits)
    BY <1>1, <2>2, MoreExceeds
  <2> QED BY <1>2, <2>1, <2>3
<1> QED BY <1>2, <1>3, <1>5, <1>7

\* A set of natural numbers has a least one.
LEMMA LeastNatural ==
  ASSUME NEW T \in SUBSET Nat, T # {}
  PROVE  \E x \in T : \A y \in T : x <= y
<1>1. PICK less : IsWellFoundedOn(less, Nat) /\ \A x, y \in Nat : y < x => <<y, x>> \in less
  <2>1. \A x, y \in Nat : y < x => <<y, x>> \in OpToRel(<, Nat)
    BY DEF OpToRel
  <2> QED BY <2>1, NatLessThanWellFounded
<1>2. PICK x \in T : \A y \in T : ~(<<y, x>> \in less)
  BY <1>1, WFMin
<1>3. \A y \in T : ~(y < x)
  BY <1>1, <1>2
<1> QED BY <1>3

\* What prune_size leaves fits the limit, unless it leaves nothing.
LEMMA SizeFits ==
  ASSUME NEW S \in SUBSET Records, IsFiniteSet(S), OneOfEach(S), NEW maximum,
         PruneSize(S, maximum) # {}
  PROVE  Bytes(PruneSize(S, maximum)) <= maximum
<1> DEFINE enough == {q \in S : Bytes(NewerThan(q, S) \cup {q}) <= maximum}
<1> DEFINE older(q) == Cardinality(S) - Cardinality(NewerThan(q, S))
<1>1. \A q \in S : /\ NewerThan(q, S) \in SUBSET S /\ IsFiniteSet(NewerThan(q, S))
                   /\ Cardinality(NewerThan(q, S)) \in Nat /\ older(q) \in Nat
  <2>1. \A q \in S : NewerThan(q, S) \in SUBSET S
    BY DEF NewerThan
  <2>2. \A T \in SUBSET S : /\ IsFiniteSet(T) /\ Cardinality(T) \in Nat
                            /\ Cardinality(T) <= Cardinality(S)
    BY FS_Subset, FS_CardinalityType
  <2>3. Cardinality(S) \in Nat
    BY FS_CardinalityType
  <2> QED BY <2>1, <2>2, <2>3
<1>2. {older(q) : q \in enough} \in SUBSET Nat /\ {older(q) : q \in enough} # {}
  BY <1>1 DEF PruneSize
<1>3. PICK q \in enough : \A s \in enough : older(q) <= older(s)
  <2> DEFINE T == {older(s) : s \in enough}
  <2>1. PICK x \in T : \A y \in T : x <= y
    <3> HIDE DEF T
    <3> QED BY <1>2, LeastNatural DEF T
  <2>2. PICK s \in enough : x = older(s)
    BY <2>1
  <2> QED BY <2>1, <2>2
<1>4. ASSUME NEW s \in enough PROVE s = q \/ Older(q, s)
  <2> SUFFICES ASSUME s # q, Older(s, q) PROVE FALSE
    BY OlderIsOrder DEF OneOfEach
  <2>1. NewerThan(q, S) \cup {q} \in SUBSET NewerThan(s, S) /\ q \notin NewerThan(q, S)
    BY OlderIsOrder DEF NewerThan
  <2>2. Cardinality(NewerThan(q, S) \cup {q}) = Cardinality(NewerThan(q, S)) + 1
    BY <1>1, <2>1, FS_AddElement
  <2>3. Cardinality(NewerThan(q, S) \cup {q}) <= Cardinality(NewerThan(s, S))
    BY <1>1, <2>1, FS_Subset
  <2>4. older(q) <= older(s) /\ Cardinality(S) \in Nat
    BY <1>3, FS_CardinalityType
  <2> QED BY <1>1, <2>2, <2>3, <2>4
<1>5. PruneSize(S, maximum) = NewerThan(q, S) \cup {q}
  <2>1. \A r \in PruneSize(S, maximum) : \E s \in enough : s = r \/ Older(s, r)
    BY DEF PruneSize
  <2>2. ASSUME NEW r \in PruneSize(S, maximum) PROVE r \in NewerThan(q, S) \cup {q}
    <3>1. PICK s \in enough : s = r \/ Older(s, r)
      BY <2>1
    <3>2. r \in S /\ q \in Records /\ r \in Records /\ s \in Records
      BY DEF PruneSize
    <3>3. r = q \/ Older(q, r)
      BY <1>4, <3>1, <3>2, OlderIsOrder
    <3> QED BY <3>2, <3>3 DEF NewerThan
  <2>3. ASSUME NEW r \in NewerThan(q, S) \cup {q} PROVE r \in PruneSize(S, maximum)
    BY DEF PruneSize, NewerThan
  <2> QED BY <2>2, <2>3
<1> QED BY <1>5

\* So does what a call keeps after Prune.
LEMMA PruneFits ==
  ASSUME NEW S \in SUBSET Records, IsFiniteSet(S), OneOfEach(S), NEW limits, NEW t,
         Prune(S, limits, t) # {}
  PROVE  Bytes(Prune(S, limits, t)) <= limits.bytes
<1> DEFINE few == PruneCount(PruneAge(S, limits, t), limits.entries)
<1>1. few \in SUBSET S
  BY DEF PruneAge, PruneCount
<1>2. Prune(S, limits, t) = PruneSize(few, limits.bytes)
  BY DEF Prune
<1> HIDE DEF few
<1>3. IsFiniteSet(few) /\ OneOfEach(few) /\ few \in SUBSET Records
  BY <1>1, PartTidy
<1> QED BY <1>2, <1>3, SizeFits
\* Which steps change the records a call holds.
LEMMA Effects ==
  ASSUME CacheShape, [CacheNext]_cacheVars, NEW q \in Processes
  PROVE  /\ loaded'[q] = loaded[q] \/ loaded'[q] = {} \/ Load(q) \/ Merge(q)
         /\ temp'[q] = temp[q] \/ temp'[q] = NoFile \/ Write(q) \/ Sync(q)
         /\ op'[q].record = op[q].record \/ op'[q].record.serial = 0 \/ Merge(q)
<1> USE DEF disk, bounds, history, Goto, Finish, Start
<1>0. /\ op \in [Processes -> Call] /\ loaded \in [Processes -> SUBSET Records]
      /\ temp \in [Processes -> Bytestring] /\ NoOp.record.serial = 0 /\ NoRecord.serial = 0
  BY DEF CacheShape, NoOp, NoRecord
<1>1. ASSUME NEW p \in Processes, Open(p) \/ CommitRecord(p) \/ Clear(p)
      PROVE  /\ loaded' = loaded /\ temp' = temp /\ merges' = merges
             /\ op'[q] = op[q] \/ op'[q].record.serial = 0
  BY <1>0, <1>1 DEF Open, CommitRecord, Clear
<1>2. ASSUME NEW p \in Processes, Lock(p) \/ Quarantine(p) \/ Rename(p) \/ SyncParent(p)
      PROVE  /\ loaded'[q] = loaded[q] \/ loaded'[q] = {}
             /\ temp'[q] = temp[q] \/ temp'[q] = NoFile
             /\ op' = op /\ merges' = merges
  BY <1>0, <1>2 DEF Lock, Quarantine, Rename, SyncParent
<1>3. ASSUME NEW p \in Processes, Load(p)
      PROVE  /\ p # q => loaded'[q] = loaded[q]
             /\ temp' = temp /\ op' = op /\ merges' = merges
  BY <1>0, <1>3 DEF Load
<1>4. ASSUME NEW p \in Processes, Merge(p)
      PROVE  /\ p # q => /\ loaded'[q] = loaded[q] /\ op'[q] = op[q]
             /\ temp'[q] = temp[q] \/ temp'[q] = NoFile
             /\ (merges' = merges \/ merges' = merges + 1)
  BY <1>0, <1>4 DEF Merge
<1>5. ASSUME NEW p \in Processes, Write(p) \/ Sync(p)
      PROVE  /\ p # q => temp'[q] = temp[q]
             /\ loaded' = loaded /\ op' = op /\ merges' = merges
  BY <1>0, <1>5 DEF Write, Sync
<1>6. ASSUME NEW p \in Processes, Done(p) \/ IoError(p)
      PROVE  /\ loaded'[q] = loaded[q] \/ loaded'[q] = {}
             /\ temp'[q] = temp[q] \/ temp'[q] = NoFile
             /\ op'[q] = op[q] \/ op'[q] = NoOp
             /\ merges' = merges
  BY <1>0, <1>6 DEF Done, IoError
<1>7. ASSUME NEW P \in SUBSET Processes, Dead(P)
      PROVE  /\ loaded'[q] = loaded[q] \/ loaded'[q] = {}
             /\ temp'[q] = temp[q] \/ temp'[q] = NoFile
             /\ op'[q] = op[q] \/ op'[q] = NoOp
  BY <1>0, <1>7 DEF Dead
<1>8. ASSUME NEW p \in Processes, Kill(p)
      PROVE  Dead({p}) /\ merges' = merges
  BY <1>8 DEF Kill
<1>9. CASE PowerLoss
  <2>1. Dead(Processes) /\ merges' = merges
    BY <1>9 DEF PowerLoss
  <2> QED BY <1>0, <1>7, <2>1
<1>10. CASE Damage \/ Tick \/ UNCHANGED cacheVars
  BY <1>10 DEF Damage, Tick, cacheVars
<1>11. ASSUME NEW p \in Processes, Open(p) \/ CommitRecord(p) \/ Clear(p) \/ Work(p) \/ IoError(p) \/ Kill(p)
       PROVE  /\ loaded'[q] = loaded[q] \/ loaded'[q] = {} \/ Load(q) \/ Merge(q)
              /\ temp'[q] = temp[q] \/ temp'[q] = NoFile \/ Write(q) \/ Sync(q)
              /\ op'[q].record = op[q].record \/ op'[q].record.serial = 0 \/ Merge(q)
  <2>1. CASE Open(p) \/ CommitRecord(p) \/ Clear(p) BY <1>1, <2>1
  <2>2. CASE Lock(p) \/ Quarantine(p) \/ Rename(p) \/ SyncParent(p) BY <1>2, <2>2
  <2>3. CASE Load(p) BY <1>3, <2>3
  <2>4. CASE Merge(p) BY <1>4, <2>4
  <2>5. CASE Write(p) \/ Sync(p) BY <1>5, <2>5
  <2>6. CASE Done(p) \/ IoError(p) BY <1>0, <1>6, <2>6
  <2>7. CASE Kill(p)
    <3>1. Dead({p}) /\ {p} \in SUBSET Processes /\ merges' = merges
      BY <1>8, <2>7
    <3> QED BY <1>0, <1>7, <3>1
  <2> QED BY <1>11, <2>1, <2>2, <2>3, <2>4, <2>5, <2>6, <2>7 DEF Work
<1> QED BY <1>9, <1>10, <1>11 DEF CacheNext

LEMMA MergesCount ==
  ASSUME [CacheNext]_cacheVars
  PROVE  /\ merges' = merges \/ merges' = merges + 1
         /\ acked' = acked \/ \E p \in Processes : Done(p)
BY DEF CacheNext, Work, history, Open, CommitRecord, Clear, Start, Lock, Quarantine, Load, Merge, Write,
   Sync, Rename, SyncParent, Done, IoError, Kill, PowerLoss, Damage, Tick, cacheVars

\* Tidiness is kept by dropping records, by numbering on and by inserting.
LEMMA TidyAfter ==
  ASSUME NEW last \in Nat, NEW later \in Nat, last <= later, NEW S \in SUBSET Records, Tidy(S, last),
         NEW T \in SUBSET S
  PROVE  Tidy(T, later)
<1>1. IsFiniteSet(T) /\ OneOfEach(T)
  BY PartTidy DEF Tidy
<1>2. \A r \in T : r.serial <= later
  BY DEF Tidy, Records
<1> QED BY <1>1, <1>2 DEF Tidy

LEMMA InsertTidy ==
  ASSUME NEW last \in Nat, NEW S \in SUBSET Records, Tidy(S, last), NEW r \in Records, r.serial = last + 1
  PROVE  Tidy(Insert(S, r), last + 1)
<1> DEFINE rest == {s \in S : s.key # r.key}
<1>1. rest \in SUBSET S
  OBVIOUS
<1>2. Tidy(rest, last + 1)
  BY <1>1, TidyAfter
<1>3. \A s \in rest : s.key # r.key
  OBVIOUS
<1> HIDE DEF rest
<1>4. IsFiniteSet(rest \cup {r})
  BY <1>2, FS_AddElement DEF Tidy
<1>5. OneOfEach(rest \cup {r})
  BY <1>2, <1>3 DEF Tidy, OneOfEach
<1>6. \A s \in rest \cup {r} : s.serial <= last + 1
  BY <1>2 DEF Tidy
<1>7. Tidy(rest \cup {r}, last + 1)
  BY <1>4, <1>5, <1>6 DEF Tidy
<1> QED BY <1>7 DEF rest, Insert

LEMMA NoneTidy ==
  ASSUME NEW S, S = {}, NEW last
  PROVE  Tidy(S, last)
BY FS_EmptySet DEF Tidy, OneOfEach

\* What Merge(p) numbers and keeps.
Numbering(p) == [op[p].record EXCEPT !.serial = merges + 1]
KeptOf(p) == Prune(Insert(loaded[p], Numbering(p)), Limits[p], op[p].asOf)

LEMMA MergeParts ==
  ASSUME CacheShape, NEW p \in Processes, Merge(p)
  PROVE  /\ Numbering(p) \in Records /\ Numbering(p).serial = merges + 1
         /\ Numbering(p).key = op[p].record.key /\ Numbering(p).created = op[p].record.created
         /\ KeptOf(p) \subseteq Insert(loaded[p], Numbering(p))
         /\ \/ /\ pc'[p] = "write" /\ op'[p].kind = op[p].kind /\ op'[p].asOf = op[p].asOf
               /\ op'[p].record = Numbering(p)
               /\ Numbering(p) \in KeptOf(p) /\ loaded'[p] = KeptOf(p) /\ temp' = temp /\ merges' = merges + 1
            \/ /\ pc'[p] \in {"idle", "closed"} /\ op'[p] = NoOp /\ loaded'[p] = {} /\ temp'[p] = NoFile
               /\ merges' = merges
         /\ UNCHANGED <<disk, damaged, acked>>
<1>0. /\ op \in [Processes -> Call] /\ loaded \in [Processes -> SUBSET Records] /\ merges \in Nat
      /\ temp \in [Processes -> Bytestring] /\ pc \in [Processes -> {"closed", "idle"} \cup InCall]
  BY DEF CacheShape
<1>1. op[p] \in Call /\ op[p].record \in Records /\ merges + 1 \in Nat
  BY <1>0 DEF Call
<1>2. /\ Numbering(p) \in Records /\ Numbering(p).serial = merges + 1
      /\ Numbering(p).key = op[p].record.key /\ Numbering(p).created = op[p].record.created
  BY <1>1, Numbered DEF Numbering
<1>3. KeptOf(p) \subseteq Insert(loaded[p], Numbering(p))
  BY PruneKeepsSome DEF KeptOf
<1>4. \/ /\ Numbering(p) \in KeptOf(p) /\ op' = [op EXCEPT ![p].record = Numbering(p)]
         /\ loaded' = [loaded EXCEPT ![p] = KeptOf(p)]
         /\ Goto(p, "write") /\ merges' = merges + 1 /\ UNCHANGED temp
      \/ Finish(p, "RecordTooLarge") /\ UNCHANGED merges
  BY DEF Merge, Numbering, KeptOf
<1>5. UNCHANGED <<disk, damaged, acked>>
  BY DEF Merge, bounds
<1>6. op' = [op EXCEPT ![p].record = Numbering(p)] =>
        op'[p].kind = op[p].kind /\ op'[p].asOf = op[p].asOf /\ op'[p].record = Numbering(p)
  <2> SUFFICES ASSUME op' = [op EXCEPT ![p].record = Numbering(p)]
               PROVE  op'[p].kind = op[p].kind /\ op'[p].asOf = op[p].asOf /\ op'[p].record = Numbering(p)
    OBVIOUS
  <2>1. op'[p] = [op[p] EXCEPT !.record = Numbering(p)]
    BY <1>0
  <2>2. LET d == [op[p] EXCEPT !.record = Numbering(p)]
        IN  d.kind = op[p].kind /\ d.record = Numbering(p) /\ d.asOf = op[p].asOf
    BY <1>1, <1>2, CallOf, Zenon
  <2> QED BY <2>1, <2>2, Zenon
<1> QED BY <1>0, <1>2, <1>3, <1>4, <1>5, <1>6 DEF Goto, Finish

LEMMA StaysTidy == CacheSpec => []AllTidy
<1> USE Constants, FilesTyped
<1>1. CacheInit => AllTidy
  <2> SUFFICES ASSUME CacheInit PROVE AllTidy
    OBVIOUS
  <2>1. /\ \A f \in OnDisk : f.entries = {}
        /\ \A p \in Processes : loaded[p] = {} /\ temp[p].entries = {}
        /\ \A p \in Processes : op[p].record.serial = 0
        /\ merges = 0 /\ acked = {}
    BY DEF CacheInit, OnDisk, NoOp, NoRecord
  <2>2. \A p \in Processes : op[p].record.serial <= merges
    BY <2>1
  <2> QED BY <2>1, <2>2, NoneTidy, Zenon DEF AllTidy
<1>2. CacheShape /\ AllTidy /\ [CacheNext]_cacheVars => AllTidy'
  <2> SUFFICES ASSUME CacheShape, AllTidy, [CacheNext]_cacheVars PROVE AllTidy'
    OBVIOUS
  <2>t. /\ merges \in Nat /\ file \in Bytestring /\ durable \in Bytestring
        /\ unsynced \subseteq Bytestring /\ \A p \in Processes : loaded[p] \in SUBSET Records
        /\ \A p \in Processes : temp[p] \in Bytestring
        /\ \A f \in OnDisk : f \in Bytestring
        /\ \A f \in Bytestring : f.entries \in SUBSET Records
        /\ op \in [Processes -> Call]
        /\ \A p \in Processes : op[p].record.serial \in Nat
    BY DEF CacheShape, Bytestring, OnDisk, Call, Records
  <2>m. merges' \in Nat /\ merges <= merges'
    BY <2>t, MergesCount
  <2>k. ASSUME NEW S \in SUBSET Records, Tidy(S, merges) PROVE Tidy(S, merges')
    BY <2>t, <2>m, <2>k, TidyAfter
  <2>n. /\ \A f \in OnDisk : Tidy(f.entries, merges') /\ f.entries \in SUBSET Records
        /\ \A p \in Processes : Tidy(loaded[p], merges') /\ Tidy(temp[p].entries, merges')
    BY <2>t, <2>k DEF AllTidy
  <2>1. \A f \in OnDisk' : Tidy(f.entries, merges')
    <3> USE DEF Renamed
    <3>1. CASE Damage BY <3>1, <2>n, NoneTidy DEF Damage, OnDisk
    <3>2. CASE PowerLoss
      <4>1. PICK f \in {durable} \cup unsynced :
              file' \in {[f EXCEPT !.synced = TRUE]} \cup {b \in {BadFile} : ~f.synced}
        BY <3>2 DEF PowerLoss
      <4>2. durable' = file' /\ unsynced' = {}
        BY <3>2 DEF PowerLoss
      <4>3. [f EXCEPT !.synced = TRUE].entries = f.entries
        BY <2>t, <4>1, SyncedFile
      <4>4. file'.entries = {} \/ file'.entries = f.entries
        BY <4>1, <4>3
      <4>5. Tidy(file'.entries, merges')
        BY <2>n, <4>1, <4>4, NoneTidy DEF OnDisk
      <4> QED BY <4>2, <4>5 DEF OnDisk
    <3>3. ASSUME NEW p \in Processes, Quarantine(p) PROVE \A f \in OnDisk' : Tidy(f.entries, merges')
      BY <3>3, <2>n, NoneTidy DEF Quarantine, OnDisk
    <3>4. ASSUME NEW p \in Processes, Rename(p) PROVE \A f \in OnDisk' : Tidy(f.entries, merges')
      BY <3>4, <2>n DEF Rename, OnDisk
    <3>5. ASSUME NEW p \in Processes, SyncParent(p) PROVE \A f \in OnDisk' : Tidy(f.entries, merges')
      BY <3>5, <2>n DEF SyncParent, OnDisk
    <3>6. CASE UNCHANGED <<disk, damaged>>
      BY <3>6, <2>n DEF OnDisk, disk
    <3> QED BY <3>1, <3>2, <3>3, <3>4, <3>5, <3>6, DiskSteps DEF DiskStep
  <2>2. ASSUME NEW q \in Processes PROVE Tidy(loaded'[q], merges')
    <3>1. CASE Load(q)
      <4>1. loaded'[q] = Prune(file.entries, Limits[q], op[q].asOf)
        BY <3>1 DEF Load, CacheShape
      <4>2. loaded'[q] \in SUBSET file.entries
        BY <4>1, PruneKeepsSome
      <4>3. Tidy(file.entries, merges) /\ file.entries \in SUBSET Records
        BY <2>t DEF AllTidy, OnDisk
      <4> QED BY <2>t, <2>m, <4>2, <4>3, TidyAfter
    <3>2. CASE Merge(q)
      <4>1. CASE loaded'[q] = {} BY <4>1, NoneTidy
      <4>2. CASE loaded'[q] = KeptOf(q) /\ merges' = merges + 1
        <5> DEFINE S == Insert(loaded[q], Numbering(q))
        <5>1. Numbering(q) \in Records /\ Numbering(q).serial = merges + 1 /\ KeptOf(q) \subseteq S
          BY <3>2, MergeParts
        <5>2. Tidy(S, merges + 1)
          BY <2>t, <5>1, InsertTidy DEF AllTidy
        <5>3. S \in SUBSET Records
          BY <2>t, <5>1 DEF Insert
        <5> HIDE DEF S
        <5>4. merges + 1 \in Nat /\ merges + 1 <= merges + 1
          BY <2>t
        <5>5. Tidy(KeptOf(q), merges + 1)
          BY <5>1, <5>2, <5>3, <5>4, TidyAfter
        <5> QED BY <4>2, <5>5
      <4> QED BY <3>2, <4>1, <4>2, MergeParts
    <3>3. CASE loaded'[q] = loaded[q] \/ loaded'[q] = {}
      BY <3>3, <2>n, NoneTidy
    <3> QED BY <3>1, <3>2, <3>3, Effects
  <2>3. ASSUME NEW q \in Processes PROVE Tidy(temp'[q].entries, merges')
    <3>1. CASE Write(q)
      <4>1. temp'[q] = Valid(loaded[q], FALSE)
        BY <3>1 DEF Write, CacheShape
      <4>2. temp'[q].entries = loaded[q]
        BY <4>1 DEF Valid, File
      <4> QED BY <2>n, <4>2
    <3>2. CASE Sync(q)
      <4>1. temp'[q] = [temp[q] EXCEPT !.synced = TRUE]
        BY <3>2 DEF Sync, CacheShape
      <4>2. temp'[q].entries = temp[q].entries
        BY <2>t, <4>1, SyncedFile
      <4> QED BY <2>n, <4>2
    <3>3. CASE temp'[q] = temp[q] \/ temp'[q] = NoFile
      BY <3>3, <2>n, NoneTidy
    <3> QED BY <3>1, <3>2, <3>3, Effects
  <2>4. ASSUME NEW q \in Processes PROVE op'[q].record.serial <= merges'
    <3>1. op[q].record.serial <= merges
      BY DEF AllTidy
    <3>2. CASE Merge(q)
      <4>1. Numbering(q).serial = merges + 1 /\ NoOp.record.serial = 0
        BY <3>2, MergeParts DEF NoOp, NoRecord
      <4> QED BY <2>t, <3>2, <4>1, MergeParts
    <3>3. CASE op'[q].record = op[q].record \/ op'[q].record.serial = 0
      BY <2>t, <2>m, <3>1, <3>3
    <3> QED BY <3>2, <3>3, Effects
  <2>5. ASSUME NEW r \in acked' PROVE r.serial <= merges'
    <3>0. acked \subseteq Records
      BY DEF CacheShape
    <3>1. CASE r \in acked
      BY <2>t, <2>m, <3>0, <3>1 DEF AllTidy, Records
    <3>2. ASSUME NEW p \in Processes, Done(p) PROVE r \in acked \/ r = op[p].record
      BY <2>5, <3>2 DEF Done
    <3>3. ASSUME NEW p \in Processes, r = op[p].record PROVE r.serial <= merges'
      BY <2>t, <2>m, <3>3 DEF AllTidy
    <3> QED BY <2>5, <3>1, <3>2, <3>3, MergesCount
  <2> QED BY <2>1, <2>2, <2>3, <2>4, <2>5 DEF AllTidy
<1> QED BY <1>1, <1>2, CacheTyped, PTL DEF CacheSpec

\* A call that does not hold the lock holds no records.
LEMMA OutsideSteps ==
  ASSUME CacheShape, OneInside, LoadedFrom, [CacheNext]_cacheVars, NEW q \in Processes,
         pc'[q] \notin Inside
  PROVE  /\ loaded'[q] = {}
         /\ pc'[q] = "lock" => op'[q].kind # "none"
         /\ pc'[q] \in {"closed", "idle", "lock"}
<1> USE Constants, InsideIs DEF disk, bounds, history, Goto, Finish, Renamed
<1> DEFINE Goal == /\ loaded'[q] = {}
                   /\ pc'[q] = "lock" => op'[q].kind # "none"
                   /\ pc'[q] \in {"closed", "idle", "lock"}
<1>0. /\ pc \in [Processes -> {"closed", "idle"} \cup InCall]
      /\ op \in [Processes -> Call] /\ loaded \in [Processes -> SUBSET Records]
  BY DEF CacheShape
<1>i. /\ pc[q] \notin Inside => loaded[q] = {}
      /\ pc[q] = "lock" => op[q].kind # "none"
      /\ pc[q] \notin Inside => pc[q] \in {"closed", "idle", "lock"}
  BY <1>0 DEF LoadedFrom, LoadedSince, InCall
<1>s. ASSUME pc'[q] = pc[q], op'[q] = op[q], loaded'[q] = loaded[q] PROVE Goal
  BY <1>i, <1>s
<1>1. ASSUME NEW p \in Processes, Open(p) \/ CommitRecord(p) \/ Clear(p) PROVE Goal
  <2>1. PICK kind \in {"open", "commit", "clear"} : \E record : Start(p, kind, record)
    BY <1>1 DEF Open, CommitRecord, Clear
  <2>2. PICK record : Start(p, kind, record)
    BY <2>1
  <2>3. CASE p = q
    <3>1. pc[q] \notin Inside
      BY <1>1, <2>3 DEF Open, CommitRecord, Clear
    <3>2. op'[q] = [kind |-> kind, record |-> record, asOf |-> now] /\ loaded' = loaded /\ pc'[q] = "lock"
      BY <1>0, <2>2, <2>3 DEF Start
    <3>3. op'[q].kind = kind
      BY <3>2
    <3> QED BY <1>i, <3>1, <3>2, <3>3
  <2>4. CASE p # q
    BY <1>0, <1>s, <2>2, <2>4 DEF Start
  <2> QED BY <2>3, <2>4
<1>2. ASSUME NEW p \in Processes, Lock(p) \/ Quarantine(p) \/ Load(p) PROVE Goal
  <2>1. p # q
    BY <1>0, <1>2 DEF Lock, Quarantine, Load
  <2> QED BY <1>0, <1>2, <1>s, <2>1 DEF Lock, Quarantine, Load
<1>3. ASSUME NEW p \in Processes, Merge(p) PROVE Goal
  <2>1. CASE p = q
    BY <1>0, <1>3, <2>1, MergeParts
  <2>2. CASE p # q
    BY <1>0, <1>3, <1>s, <2>2 DEF Merge
  <2> QED BY <2>1, <2>2
<1>4. ASSUME NEW p \in Processes, Write(p) \/ Sync(p) \/ Rename(p) \/ SyncParent(p) PROVE Goal
  <2>1. p # q
    BY <1>0, <1>4 DEF Write, Sync, Rename, SyncParent
  <2> QED BY <1>0, <1>4, <1>s, <2>1 DEF Write, Sync, Rename, SyncParent
<1>5. ASSUME NEW p \in Processes, Done(p) \/ IoError(p) PROVE Goal
  <2>1. CASE p = q
    BY <1>0, <1>5, <2>1 DEF Done, IoError
  <2>2. CASE p # q
    BY <1>0, <1>5, <1>s, <2>2 DEF Done, IoError
  <2> QED BY <2>1, <2>2
<1>6. ASSUME NEW P, Dead(P) PROVE Goal
  BY <1>0, <1>6, <1>s DEF Dead
<1>7. ASSUME NEW p \in Processes, Kill(p) PROVE Goal
  <2>1. Dead({p})
    BY <1>7 DEF Kill
  <2> HIDE DEF Goal
  <2> QED BY <1>6, <2>1
<1>8. ASSUME PowerLoss PROVE Goal
  <2>1. Dead(Processes)
    BY <1>8 DEF PowerLoss
  <2> HIDE DEF Goal
  <2> QED BY <1>6, <2>1
<1>9. ASSUME Damage \/ Tick \/ UNCHANGED cacheVars PROVE Goal
  BY <1>9, <1>s DEF Damage, Tick, cacheVars
<1> HIDE DEF Goal
<1>10. ASSUME NEW p \in Processes, Work(p) PROVE Goal
  BY <1>2, <1>3, <1>4, <1>5, <1>10 DEF Work
<1>11. ASSUME NEW p \in Processes,
              Open(p) \/ CommitRecord(p) \/ Clear(p) \/ Work(p) \/ IoError(p) \/ Kill(p)
       PROVE  Goal
  BY <1>1, <1>5, <1>7, <1>10, <1>11
<1>12. Goal
  BY <1>8, <1>9, <1>11 DEF CacheNext
<1> QED BY <1>12 DEF Goal

LEMMA StaysLoadedFrom == CacheSpec => []LoadedFrom
<1> USE Constants, FilesTyped, InsideIs
<1>1. CacheInit => LoadedFrom
  <2> SUFFICES ASSUME CacheInit, NEW p \in Processes PROVE LoadedSince(p)
    BY DEF LoadedFrom
  <2>1. pc[p] = "closed" /\ loaded[p] = {}
    BY DEF CacheInit
  <2> QED BY <2>1 DEF LoadedSince, Working
<1>2. CacheShape /\ OneInside /\ AllTidy /\ LoadedFrom /\ [CacheNext]_cacheVars => LoadedFrom'
  <2> SUFFICES ASSUME CacheShape, OneInside, AllTidy, LoadedFrom, [CacheNext]_cacheVars,
                      NEW q \in Processes
               PROVE  LoadedSince(q)'
    BY DEF LoadedFrom
  <2>t. /\ pc \in [Processes -> {"closed", "idle"} \cup InCall]
        /\ op \in [Processes -> Call] /\ loaded \in [Processes -> SUBSET Records]
        /\ temp \in [Processes -> Bytestring] /\ merges \in Nat
    BY DEF CacheShape
  <2>i. LoadedSince(q)
    BY DEF LoadedFrom
  <2> USE DEF LoadedSince, Working, Ruined, disk, bounds, history, Goto, Finish, Start, Renamed
  <2>1. CASE pc'[q] \in Inside
    <3>0. Damage \/ OwnStep(q) \/ Elsewhere(q)
      BY <2>1, StepsInside
    <3>1. CASE Damage BY <3>1, <2>i DEF Damage
    <3>2. CASE Lock(q)
      <4>1. op[q].kind \in {"open", "commit", "clear"}
        BY <3>2, <2>i, <2>t DEF Lock, Call
      <4> QED BY <3>2, <4>1, <2>i, <2>t DEF Lock
    <3>3. CASE Quarantine(q) BY <3>3, <2>i, <2>t DEF Quarantine
    <3>4. CASE Load(q)
      <4>1. Prune(file.entries, Limits[q], op[q].asOf) \subseteq file.entries
        BY PruneKeepsSome
      <4> QED BY <3>4, <4>1, <2>i, <2>t DEF Load
    <3>5. CASE Merge(q)
      <4>1. pc[q] = "merge" /\ op[q].kind = "commit" /\ (loaded[q] \subseteq file.entries \/ Ruined)
        BY <3>5, <2>i DEF Merge
      <4>2. /\ pc'[q] = "write" /\ op'[q].kind = "commit" /\ op'[q].record = Numbering(q)
            /\ loaded'[q] \subseteq Insert(loaded[q], Numbering(q)) /\ Numbering(q).serial = merges + 1
            /\ UNCHANGED <<disk, damaged, acked>>
        BY <2>1, <3>5, <4>1, MergeParts
      <4>3. loaded'[q] \subseteq loaded[q] \cup {Numbering(q)}
        BY <4>2 DEF Insert
      <4>4. Numbering(q) \notin acked
        BY <2>t, <4>2 DEF AllTidy
      <4>5. file' = file /\ damaged' = damaged /\ acked' = acked
        BY <4>2
      <4>6. \/ loaded'[q] \subseteq file'.entries \/ Ruined'
            \/ op'[q].kind = "commit" /\ loaded'[q] \subseteq file'.entries \cup {op'[q].record}
        <5>1. CASE loaded[q] \subseteq file.entries
          BY <4>2, <4>3, <4>5, <5>1
        <5>2. CASE Ruined
          BY <4>5, <5>2
        <5> QED BY <4>1, <5>1, <5>2
      <4> QED BY <4>2, <4>4, <4>5, <4>6
    <3>6. CASE Write(q) BY <3>6, <2>i, <2>t DEF Write
    <3>7. CASE Sync(q) BY <3>7, <2>i, <2>t DEF Sync
    <3>8. CASE Rename(q) BY <3>8, <2>i, <2>t DEF Rename
    <3>9. CASE SyncParent(q) BY <3>9, <2>i, <2>t DEF SyncParent
    <3>10. CASE Elsewhere(q) BY <2>1, <3>10, <2>i, <2>t DEF Elsewhere
    <3> QED BY <3>0, <3>1, <3>2, <3>3, <3>4, <3>5, <3>6, <3>7, <3>8, <3>9, <3>10 DEF OwnStep
  <2>2. CASE pc'[q] \notin Inside
    BY <2>2, OutsideSteps
  <2> QED BY <2>1, <2>2
<1> QED BY <1>1, <1>2, CacheTyped, LockExcludes, StaysTidy, PTL DEF CacheSpec

LEMMA StaysAcked == CacheSpec => []AckedEverywhere
<1> USE Constants, FilesTyped, InsideIs
<1>1. CacheInit => AckedEverywhere
  <2> SUFFICES ASSUME CacheInit PROVE AckedEverywhere
    OBVIOUS
  <2>1. acked = {} /\ \A p \in Processes : pc[p] = "closed"
    BY DEF CacheInit
  <2> QED BY <2>1 DEF AckedEverywhere
<1>2. CacheShape /\ OneInside /\ TempReady /\ LoadedFrom /\ AckedEverywhere /\ [CacheNext]_cacheVars => AckedEverywhere'
  <2> SUFFICES ASSUME CacheShape, OneInside, TempReady, LoadedFrom, AckedEverywhere, [CacheNext]_cacheVars,
                      ~damaged'
               PROVE  /\ \A f \in OnDisk' : acked' \cap file'.entries \subseteq f.entries
                      /\ \A q \in Processes : pc'[q] = "done" /\ op'[q].kind = "commit" =>
                           durable' = file' /\ unsynced' = {}
    BY DEF AckedEverywhere
  <2>t. /\ pc \in [Processes -> {"closed", "idle"} \cup InCall]
        /\ op \in [Processes -> Call] /\ loaded \in [Processes -> SUBSET Records]
        /\ temp \in [Processes -> Bytestring]
    BY DEF CacheShape
  <2> USE DEF disk, bounds, history, Goto, Finish, Renamed
  <2>d. ~damaged
    BY DEF CacheNext, Work, Open, CommitRecord, Clear, Start, Lock, Quarantine, Load, Merge, Write,
       Sync, Rename, SyncParent, Done, IoError, Kill, PowerLoss, Damage, Tick, cacheVars
  <2>i. /\ \A f \in OnDisk : acked \cap file.entries \subseteq f.entries
        /\ \A q \in Processes : pc[q] = "done" /\ op[q].kind = "commit" => durable = file /\ unsynced = {}
    BY <2>d DEF AckedEverywhere
  <2>1. \A f \in OnDisk' : acked' \cap file'.entries \subseteq f.entries
    <3>1. ASSUME NEW p \in Processes, Quarantine(p)
          PROVE  \A f \in OnDisk' : acked' \cap file'.entries \subseteq f.entries
      BY <3>1 DEF Quarantine
    <3>2. ASSUME NEW p \in Processes, Rename(p)
          PROVE  \A f \in OnDisk' : acked' \cap file'.entries \subseteq f.entries
      <4>1. /\ pc[p] = "rename" /\ file' = temp[p] /\ unsynced' = unsynced \cup {temp[p]}
            /\ durable' = durable /\ acked' = acked
        BY <3>2 DEF Rename
      <4>2. temp[p].entries = loaded[p] /\ LoadedSince(p)
        BY <4>1 DEF TempReady, LoadedFrom
      <4>3. acked \cap loaded[p] \subseteq file.entries
        BY <2>d, <4>1, <4>2 DEF LoadedSince, Working, Ruined
      <4> QED BY <2>i, <4>1, <4>2, <4>3 DEF OnDisk
    <3>3. ASSUME NEW p \in Processes, SyncParent(p)
          PROVE  \A f \in OnDisk' : acked' \cap file'.entries \subseteq f.entries
      BY <3>3 DEF SyncParent, OnDisk
    <3>4. ASSUME NEW p \in Processes, Done(p)
          PROVE  \A f \in OnDisk' : acked' \cap file'.entries \subseteq f.entries
      <4>1. UNCHANGED disk /\ pc[p] = "done"
        BY <3>4 DEF Done
      <4>2. CASE op[p].kind = "commit"
        BY <2>i, <4>1, <4>2 DEF OnDisk
      <4>3. CASE op[p].kind # "commit"
        BY <2>i, <3>4, <4>1, <4>3 DEF Done, OnDisk
      <4> QED BY <4>2, <4>3
    <3>5. CASE PowerLoss
      BY <3>5 DEF PowerLoss, OnDisk
    <3>6. CASE Damage
      BY <3>6 DEF Damage
    <3>7. CASE UNCHANGED <<disk, acked>>
      BY <2>i, <3>7 DEF OnDisk
    <3>8. \/ Damage \/ PowerLoss \/ UNCHANGED <<disk, acked>>
          \/ \E p \in Processes : Quarantine(p) \/ Rename(p) \/ SyncParent(p) \/ Done(p)
      <4>1. ASSUME NEW p \in Processes, Open(p) \/ CommitRecord(p) \/ Clear(p)
            PROVE  UNCHANGED <<disk, acked>>
        BY <4>1 DEF Open, CommitRecord, Clear, Start
      <4>2. ASSUME NEW p \in Processes, IoError(p) \/ Kill(p) PROVE UNCHANGED <<disk, acked>>
        BY <4>2 DEF IoError, Kill
      <4>3. ASSUME NEW p \in Processes, Lock(p) \/ Load(p) PROVE UNCHANGED <<disk, acked>>
        BY <4>3 DEF Lock, Load
      <4>4. ASSUME NEW p \in Processes, Merge(p) PROVE UNCHANGED <<disk, acked>>
        BY <4>4 DEF Merge
      <4>5. ASSUME NEW p \in Processes, Write(p) \/ Sync(p) PROVE UNCHANGED <<disk, acked>>
        BY <4>5 DEF Write, Sync
      <4>6. CASE Tick \/ UNCHANGED cacheVars
        BY <4>6 DEF Tick, cacheVars
      <4>. QED  BY <4>1, <4>2, <4>3, <4>4, <4>5, <4>6 DEF CacheNext, Work
    <3> QED BY <3>1, <3>2, <3>3, <3>4, <3>5, <3>6, <3>7, <3>8
  <2>2. ASSUME NEW q \in Processes, pc'[q] = "done", op'[q].kind = "commit"
        PROVE  durable' = file' /\ unsynced' = {}
    <3>0. Damage \/ OwnStep(q) \/ Elsewhere(q)
      BY <2>2, StepsInside
    <3>1. CASE Damage BY <3>1 DEF Damage
    <3>2. CASE Elsewhere(q) BY <2>2, <2>i, <3>2 DEF Elsewhere
    <3>3. CASE SyncParent(q) BY <3>3 DEF SyncParent
    <3>4. CASE Lock(q) \/ Quarantine(q) \/ Load(q)
      BY <2>2, <2>t, <3>4 DEF Lock, Quarantine, Load
    <3>5. CASE Merge(q)
      BY <2>2, <3>5, MergeParts
    <3>6. CASE Write(q) \/ Sync(q) \/ Rename(q)
      BY <2>2, <2>t, <3>6 DEF Write, Sync, Rename
    <3> QED BY <3>0, <3>1, <3>2, <3>3, <3>4, <3>5, <3>6 DEF OwnStep
  <2> QED BY <2>1, <2>2
<1> QED BY <1>1, <1>2, CacheTyped, LockExcludes, TempIsReady, StaysLoadedFrom, PTL DEF CacheSpec

\* AckedSurvives: a commit that returned survives the kill of any process and a
\* power loss, because the directory is synced before commit returns.
THEOREM AckedRecordsSurvive == CacheSpec => AckedSurvives
<1> DEFINE Loss == ~damaged /\ (PowerLoss \/ \E p \in Processes : Kill(p))
<1>1. CacheShape /\ DiskWhole /\ AckedEverywhere /\ Loss =>
        \A r \in acked \cap file.entries : \E s \in file'.entries : s.key = r.key /\ s.serial >= r.serial
  <2> SUFFICES ASSUME CacheShape, DiskWhole, AckedEverywhere, Loss, NEW r \in acked \cap file.entries
               PROVE  r \in file'.entries /\ r.serial \in Nat
    OBVIOUS
  <2>1. r.serial \in Nat
    BY DEF CacheShape, Records
  <2>2. CASE PowerLoss
    <3>1. PICK f \in {durable} \cup unsynced :
            file' \in {[f EXCEPT !.synced = TRUE]} \cup {b \in {BadFile} : ~f.synced}
      BY <2>2 DEF PowerLoss
    <3>2. f \in OnDisk /\ f \in Bytestring
      BY <3>1 DEF OnDisk, CacheShape
    <3>3. r \in f.entries /\ f.synced
      BY <3>2 DEF DiskWhole, AckedEverywhere
    <3>4. file' = [f EXCEPT !.synced = TRUE]
      BY <3>1, <3>3
    <3> QED BY <2>1, <3>2, <3>3, <3>4, SyncedFile
  <2>3. CASE \E p \in Processes : Kill(p)
    BY <2>1, <2>3 DEF Kill, disk
  <2> QED BY <2>2, <2>3
<1> QED BY <1>1, CacheTyped, DiskStaysWhole, StaysAcked, PTL DEF AckedSurvives

LEMMA StaysEvicted == CacheSpec => []Evicted
<1> USE Constants, FilesTyped, InsideIs
<1>1. CacheInit => Evicted
  <2> SUFFICES ASSUME CacheInit, NEW p \in Processes PROVE ByLoad(p) /\ Lawful(p)
    BY DEF Evicted
  <2>1. pc[p] = "closed"
    BY DEF CacheInit
  <2> QED BY <2>1 DEF ByLoad, Lawful, Working
<1>2. CacheShape /\ OneInside /\ AllTidy /\ LoadedFrom /\ Evicted /\ [CacheNext]_cacheVars => Evicted'
  <2> SUFFICES ASSUME CacheShape, OneInside, AllTidy, LoadedFrom, Evicted, [CacheNext]_cacheVars,
                      NEW q \in Processes
               PROVE  ByLoad(q)' /\ Lawful(q)'
    BY DEF Evicted
  <2>t. /\ pc \in [Processes -> {"closed", "idle"} \cup InCall]
        /\ op \in [Processes -> Call] /\ loaded \in [Processes -> SUBSET Records]
        /\ temp \in [Processes -> Bytestring] /\ merges \in Nat
        /\ file.entries \in SUBSET Records /\ op[q].asOf \in Nat
    BY DEF CacheShape, Call, Bytestring
  <2>f. /\ IsFiniteSet(file.entries) /\ OneOfEach(file.entries)
        /\ \A r \in file.entries : r.serial <= merges /\ r.serial \in Nat
    BY <2>t DEF AllTidy, OnDisk, Tidy, Records
  <2>i. ByLoad(q) /\ Lawful(q) /\ LoadedSince(q)
    BY DEF Evicted, LoadedFrom
  <2> USE DEF disk, bounds, history, Goto, Start, Renamed
  <2>s. ASSUME UNCHANGED <<file, pc[q], op[q], loaded[q]>> PROVE ByLoad(q)' /\ Lawful(q)'
    BY <2>i, <2>s DEF ByLoad, Lawful, Working, Spared, NoRoom
  <2>w. ASSUME Working(q)', Working(q), UNCHANGED <<file, op[q], loaded[q]>> PROVE ByLoad(q)' /\ Lawful(q)'
    BY <2>i, <2>w DEF ByLoad, Lawful, Working, Spared, NoRoom
  <2>v. ASSUME file'.state # "valid" \/ (pc'[q] # "merge" /\ ~Working(q)') PROVE ByLoad(q)' /\ Lawful(q)'
    BY <2>v DEF ByLoad, Lawful
  <2>1. CASE pc'[q] \in Inside
    <3>0. Damage \/ OwnStep(q) \/ Elsewhere(q)
      BY <2>1, StepsInside
    <3>1. CASE Damage BY <3>1, <2>v DEF Damage
    <3>2. CASE Lock(q)
      <4>1. UNCHANGED <<op, file>> /\ pc'[q] = IF op[q].kind = "clear" THEN "write" ELSE "load"
        BY <3>2, <2>t DEF Lock
      <4> QED BY <4>1 DEF ByLoad, Lawful, Working
    <3>3. CASE Quarantine(q) BY <3>3, <2>v DEF Quarantine
    <3>4. CASE Load(q)
      <4> DEFINE kept == Prune(file.entries, Limits[q], op[q].asOf)
      <4>1. UNCHANGED <<file, op>> /\ loaded'[q] = kept /\ pc'[q] \in {"merge", "write", "done"}
        BY <3>4, <2>t DEF Load
      <4>2. \A r \in file.entries \ kept :
              /\ \A s \in kept : Older(r, s)
              /\ Age(r, op[q].asOf) > Limits[q].age \/ Exceeds(file.entries, Limits[q])
        BY <2>t, <2>f, PruneEvictsOldest
      <4> HIDE DEF kept
      <4> QED BY <4>1, <4>2 DEF ByLoad, Lawful, Spared, NoRoom
    <3>5. CASE Merge(q)
      <4> DEFINE new == Numbering(q)
      <4> DEFINE S == Insert(loaded[q], new)
      <4> DEFINE kept == KeptOf(q)
      <4>1. /\ pc'[q] = "write" /\ op'[q].kind = op[q].kind /\ op'[q].asOf = op[q].asOf
            /\ op'[q].record = new /\ new \in kept /\ loaded'[q] = kept
            /\ new \in Records /\ new.serial = merges + 1 /\ kept \subseteq S /\ file' = file
        BY <2>1, <3>5, MergeParts
      <4>2. pc[q] = "merge" /\ op[q].kind = "commit" /\ (loaded[q] \subseteq file.entries \/ file.state = "bad")
        BY <3>5, <2>i DEF Merge, LoadedSince, Ruined
      <4>3. Tidy(loaded[q], merges) /\ loaded[q] \in SUBSET Records
        BY <2>t DEF AllTidy
      <4>4. Tidy(S, merges + 1) /\ S \in SUBSET Records
        BY <2>t, <4>1, <4>3, InsertTidy DEF Insert
      <4>5. kept = Prune(S, Limits[q], op[q].asOf)
        BY DEF KeptOf
      <4>6. S = {s \in loaded[q] : s.key # new.key} \cup {new}
        BY DEF Insert
      <4>7. Insert(file.entries, new) = {s \in file.entries : s.key # new.key} \cup {new}
        BY DEF Insert
      <4> HIDE DEF new, S, kept
      <4>8. IsFiniteSet(Insert(file.entries, new))
        <5>1. {s \in file.entries : s.key # new.key} \in SUBSET file.entries
          OBVIOUS
        <5>2. IsFiniteSet({s \in file.entries : s.key # new.key})
          BY <2>f, <5>1, FS_Subset
        <5>3. IsFiniteSet({s \in file.entries : s.key # new.key} \cup {new})
          BY <5>2, FS_AddElement
        <5> QED BY <4>7, <5>3
      <4>9. SUFFICES ASSUME file.state = "valid", NEW r \in file.entries \ kept
                     PROVE  \/ \E s \in kept : s.key = r.key /\ s.serial > r.serial
                            \/ /\ \/ Age(r, op[q].asOf) > Limits[q].age \/ Exceeds(file.entries, Limits[q])
                                  \/ Exceeds(Insert(file.entries, new), Limits[q])
                               /\ \A s \in kept \cap file.entries : Older(r, s)
        BY <4>1, <4>2 DEF ByLoad, Lawful, Spared, NoRoom
      <4>10. loaded[q] \subseteq file.entries
        BY <4>2, <4>9
      <4>11. CASE r \notin loaded[q]
        <5>1. /\ \A s \in loaded[q] \cap file.entries : Older(r, s)
              /\ Age(r, op[q].asOf) > Limits[q].age \/ Exceeds(file.entries, Limits[q])
          BY <2>i, <4>2, <4>9, <4>11 DEF ByLoad, Spared
        <5>2. new \notin file.entries
          BY <2>t, <2>f, <4>1
        <5>3. \A s \in kept \cap file.entries : s \in loaded[q]
          BY <4>1, <4>6, <5>2
        <5> QED BY <5>1, <5>3
      <4>12. CASE r \in loaded[q] /\ r.key = new.key
        BY <2>t, <2>f, <4>1, <4>12
      <4>13. CASE r \in loaded[q] /\ r.key # new.key
        <5>1. r \in S \ kept
          BY <4>6, <4>13
        <5>2. IsFiniteSet(S) /\ OneOfEach(S)
          BY <4>4 DEF Tidy
        <5>3. /\ \A s \in kept : Older(r, s)
              /\ Age(r, op[q].asOf) > Limits[q].age \/ Exceeds(S, Limits[q])
          BY <2>t, <4>4, <4>5, <5>1, <5>2, PruneEvictsOldest
        <5>4. S \in SUBSET Insert(file.entries, new)
          BY <4>6, <4>7, <4>10
        <5>5. Exceeds(S, Limits[q]) => Exceeds(Insert(file.entries, new), Limits[q])
          BY <4>8, <5>4, MoreExceeds
        <5> QED BY <5>3, <5>5
      <4> QED BY <4>11, <4>12, <4>13
    <3>6. CASE Write(q) \/ Sync(q)
      <4>1. UNCHANGED <<file, op[q], loaded[q]>> /\ Working(q) /\ Working(q)'
        BY <3>6, <2>t DEF Write, Sync, Working
      <4> QED BY <4>1, <2>w
    <3>7. CASE Rename(q) \/ SyncParent(q)
      <4>1. pc'[q] # "merge" /\ ~Working(q)'
        BY <3>7, <2>t DEF Rename, SyncParent, Working
      <4> QED BY <4>1, <2>v
    <3>8. CASE Elsewhere(q)
      <4>1. UNCHANGED <<file, pc[q], op[q], loaded[q]>>
        BY <2>1, <3>8 DEF Elsewhere
      <4> QED BY <4>1, <2>s
    <3> QED BY <3>0, <3>1, <3>2, <3>3, <3>4, <3>5, <3>6, <3>7, <3>8 DEF OwnStep
  <2>2. CASE pc'[q] \notin Inside
    BY <2>2, <2>v DEF Working
  <2> QED BY <2>1, <2>2
<1> QED BY <1>1, <1>2, CacheTyped, LockExcludes, StaysTidy, StaysLoadedFrom, PTL DEF CacheSpec

LEMMA StaysFitting == CacheSpec => []AllFit
<1> USE Constants, FilesTyped
<1>1. CacheInit => AllFit
  BY DEF CacheInit, AllFit, OnDisk, FileFits, Fits
<1>2. CacheShape /\ AllTidy /\ AllFit /\ [CacheNext]_cacheVars => AllFit'
  <2> SUFFICES ASSUME CacheShape, AllTidy, AllFit, [CacheNext]_cacheVars PROVE AllFit'
    OBVIOUS
  <2>t. /\ merges \in Nat /\ file \in Bytestring /\ durable \in Bytestring
        /\ unsynced \subseteq Bytestring /\ \A p \in Processes : loaded[p] \in SUBSET Records
        /\ \A p \in Processes : temp[p] \in Bytestring
        /\ \A f \in OnDisk : f \in Bytestring
        /\ \A p \in Processes : op[p].asOf \in Nat
    BY DEF CacheShape, Bytestring, OnDisk, Call
  <2>n. /\ \A f \in OnDisk : FileFits(f)
        /\ \A p \in Processes : Fits(loaded[p]) /\ FileFits(temp[p])
        /\ FileFits(NoFile) /\ FileFits(BadFile)
    BY DEF AllFit, FileFits, Fits
  <2>y. ASSUME NEW f \in Bytestring, FileFits(f) PROVE FileFits([f EXCEPT !.synced = TRUE])
    BY <2>y, SyncedFile DEF FileFits
  <2>1. \A f \in OnDisk' : FileFits(f)
    <3> USE DEF Renamed
    <3>1. CASE Damage BY <3>1, <2>n DEF Damage, OnDisk
    <3>2. CASE PowerLoss
      <4>1. PICK f \in {durable} \cup unsynced :
              file' \in {[f EXCEPT !.synced = TRUE]} \cup {b \in {BadFile} : ~f.synced}
        BY <3>2 DEF PowerLoss
      <4>2. durable' = file' /\ unsynced' = {}
        BY <3>2 DEF PowerLoss
      <4>3. FileFits([f EXCEPT !.synced = TRUE])
        BY <2>t, <2>n, <2>y, <4>1 DEF OnDisk
      <4>4. FileFits(file')
        BY <2>n, <4>1, <4>3
      <4> QED BY <4>2, <4>4 DEF OnDisk
    <3>3. ASSUME NEW p \in Processes, Quarantine(p) PROVE \A f \in OnDisk' : FileFits(f)
      BY <3>3, <2>n DEF Quarantine, OnDisk
    <3>4. ASSUME NEW p \in Processes, Rename(p) PROVE \A f \in OnDisk' : FileFits(f)
      BY <3>4, <2>n DEF Rename, OnDisk
    <3>5. ASSUME NEW p \in Processes, SyncParent(p) PROVE \A f \in OnDisk' : FileFits(f)
      BY <3>5, <2>n DEF SyncParent, OnDisk
    <3>6. CASE UNCHANGED <<disk, damaged>>
      BY <3>6, <2>n DEF OnDisk, disk
    <3> QED BY <3>1, <3>2, <3>3, <3>4, <3>5, <3>6, DiskSteps DEF DiskStep
  <2>2. ASSUME NEW q \in Processes PROVE Fits(loaded'[q])
    <3>1. CASE Load(q)
      <4>1. loaded'[q] = Prune(file.entries, Limits[q], op[q].asOf)
        BY <3>1 DEF Load, CacheShape
      <4>2. IsFiniteSet(file.entries) /\ OneOfEach(file.entries) /\ file.entries \in SUBSET Records
        BY <2>t DEF AllTidy, OnDisk, Tidy, Bytestring
      <4> QED BY <4>1, <4>2, PruneFits DEF Fits
    <3>2. CASE Merge(q)
      <4>1. CASE loaded'[q] = {} BY <4>1 DEF Fits
      <4>2. CASE loaded'[q] = KeptOf(q)
        <5> DEFINE S == Insert(loaded[q], Numbering(q))
        <5>1. Numbering(q) \in Records /\ Numbering(q).serial = merges + 1
          BY <3>2, MergeParts
        <5>2. Tidy(S, merges + 1)
          BY <2>t, <5>1, InsertTidy DEF AllTidy
        <5>3. S \in SUBSET Records
          BY <2>t, <5>1 DEF Insert
        <5>4. KeptOf(q) = Prune(S, Limits[q], op[q].asOf)
          BY DEF KeptOf
        <5> HIDE DEF S
        <5>5. IsFiniteSet(S) /\ OneOfEach(S)
          BY <5>2 DEF Tidy
        <5> QED BY <4>2, <5>3, <5>4, <5>5, PruneFits DEF Fits
      <4> QED BY <3>2, <4>1, <4>2, MergeParts
    <3>3. CASE loaded'[q] = loaded[q] \/ loaded'[q] = {}
      BY <3>3, <2>n DEF Fits
    <3> QED BY <3>1, <3>2, <3>3, Effects
  <2>3. ASSUME NEW q \in Processes PROVE FileFits(temp'[q])
    <3>1. CASE Write(q)
      <4>1. temp'[q] = Valid(loaded[q], FALSE)
        BY <3>1 DEF Write, CacheShape
      <4>2. temp'[q].entries = loaded[q] /\ temp'[q].state = "valid"
        BY <4>1 DEF Valid, File
      <4> QED BY <2>n, <4>2 DEF FileFits
    <3>2. CASE Sync(q)
      <4>1. temp'[q] = [temp[q] EXCEPT !.synced = TRUE]
        BY <3>2 DEF Sync, CacheShape
      <4> QED BY <2>t, <2>n, <2>y, <4>1
    <3>3. CASE temp'[q] = temp[q] \/ temp'[q] = NoFile
      BY <3>3, <2>n
    <3> QED BY <3>1, <3>2, <3>3, Effects
  <2> QED BY <2>1, <2>2, <2>3 DEF AllFit
<1> QED BY <1>1, <1>2, CacheTyped, StaysTidy, PTL DEF CacheSpec

\* OnlyOldestEvicted: damage and power loss excepted, a record leaves the file in
\* no step but one of the process that holds the lock, for a newer version of its
\* key, by clear, as the oldest for lack of room, or with a whole file that is too
\* long for this process and was not for the one that wrote it.
THEOREM OldestEvicted == CacheSpec => OnlyOldestEvicted
<1> DEFINE Rightly(p, r) ==
      /\ lock = p
      /\ \/ \E s \in file'.entries : s.key = r.key /\ s.serial > r.serial
         \/ op[p].kind = "clear"
         \/ /\ file'.state = "valid" /\ NoRoom(p, r)
            /\ \A s \in file'.entries \cap file.entries : Older(r, s)
         \/ SetAside(p)
<1> DEFINE Step ==
      \A r \in file.entries \ file'.entries :
        \/ Damage \/ PowerLoss
        \/ \E p \in Processes : Rightly(p, r)
<1>1. OneInside /\ TempReady /\ Evicted /\ AllFit /\ [CacheNext]_cacheVars => Step
  <2> SUFFICES ASSUME OneInside, TempReady, Evicted, AllFit, [CacheNext]_cacheVars,
                      NEW r \in file.entries \ file'.entries, ~Damage, ~PowerLoss
               PROVE  \E p \in Processes : Rightly(p, r)
    OBVIOUS
  <2>1. file.state = "valid" /\ Fits(file.entries) /\ file.entries # {}
    BY DEF AllFit, OnDisk, FileFits
  <2>2. PICK p \in Processes : Quarantine(p) \/ Rename(p)
    <3>1. ASSUME NEW p \in Processes, SyncParent(p) PROVE file' = file
      BY <3>1 DEF SyncParent
    <3>2. UNCHANGED <<disk, damaged>> => file' = file
      BY DEF disk
    <3> QED BY <3>1, <3>2, DiskSteps DEF DiskStep
  <2>3. lock = p
    BY <2>2, InsideIs DEF OneInside, Quarantine, Rename
  <2>4. CASE Quarantine(p)
    <3>1. TooLong(p) /\ file' = NoFile
      BY <2>1, <2>4 DEF Quarantine, Rejected, Renamed
    <3> QED BY <2>1, <2>3, <3>1 DEF SetAside, Fits
  <2>5. CASE Rename(p) /\ op[p].kind # "clear"
    <3>1. pc[p] = "rename" /\ file' = temp[p]
      BY <2>5 DEF Rename, Renamed
    <3>2. /\ file'.state = "valid" /\ file'.entries = loaded[p]
          /\ Working(p) /\ Lawful(p)
      BY <3>1 DEF TempReady, Working, Evicted
    <3> QED BY <2>1, <2>3, <2>5, <3>2 DEF Lawful, Spared
  <2> QED BY <2>2, <2>3, <2>4, <2>5
<1> QED
  BY <1>1, LockExcludes, TempIsReady, StaysEvicted, StaysFitting, PTL DEF CacheSpec, OnlyOldestEvicted
=============================================================================
