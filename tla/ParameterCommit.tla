-------------------------- MODULE ParameterCommit --------------------------
(***************************************************************************)
(* The two calls that replace a model's parameters, both meant to happen   *)
(* entirely or not at all on a backend that assigns one variable at a      *)
(* time and may refuse:                                                    *)
(*   load_state  prepares every leaf, commits every leaf, and on a refusal *)
(*               rolls back the committed ones, visiting all of them;      *)
(*   step        of an optimizer prepares every update, commits them, and  *)
(*               on a refusal reassigns what was there before; the moments *)
(*               and the step counter are published last.                  *)
(* Leaves whose handles share a variable slot are tied parameters.  A pass *)
(* visits the leaves in the module's order; here, in any order.            *)
(***************************************************************************)
EXTENDS Naturals, FiniteSets

CONSTANTS
  Leaves,    \* parameters and buffers, by path
  Slots,     \* the backend's variables
  SlotOf,    \* leaf -> its variable
  Contents,  \* what a variable may hold
  MaxSteps   \* BOUND: optimizer steps

ASSUME SlotAssumption == SlotOf \in [Leaves -> Slots]
ASSUME BoundAssumption == MaxSteps \in Nat

VARIABLES
  value,      \* slot -> its content
  pending,    \* leaf -> pending_state: {} or one [original, candidate]
  committed,  \* the leaves whose state_committed marker is set
  moments,    \* leaf -> the step its moments are of, 0 for none
  steps,      \* the optimizer's step counter
  call,       \* the pass the current call is in, "none" between calls
  group,      \* the leaves the current call is about
  todo,       \* those the pass has still to visit
  target,     \* leaf -> the content the call is to give it
  rejected,   \* StateRollback.first_error is some
  outcome,    \* what the last call returned
  before      \* what the call found: variables, moments, step counter

optimizer == <<moments, steps>>
staging == <<pending, committed>>
request == <<group, target, before>>
vars == <<value, staging, optimizer, call, todo, request, rejected, outcome>>

Staged == [original : Contents, candidate : Contents]
Passes == {"none", "prepare", "commit", "rollback", "update", "revert"}

(* "rollback" is Error::InvalidModuleState with operation "load state      *)
(* rollback", "broken" InternalInvariant "backend rejected optimizer       *)
(* rollback", "err" every other error.                                     *)
Outcomes == {"ok", "err", "rollback", "broken"}

Model == [value |-> value, moments |-> moments, steps |-> steps]

Init ==
  /\ value \in [Slots -> Contents]
  /\ pending = [l \in Leaves |-> {}] /\ committed = {}
  /\ moments = [l \in Leaves |-> 0] /\ steps = 0
  /\ call = "none" /\ group = Leaves /\ todo = {}
  /\ target = [l \in Leaves |-> value[SlotOf[l]]]
  /\ rejected = FALSE /\ outcome = "ok"
  /\ before = Model

Tied(l, k) == SlotOf[l] = SlotOf[k]
Assign(l, content) == value' = [value EXCEPT ![SlotOf[l]] = content]

Enter(pass, leaves) == call' = pass /\ todo' = leaves
Visit(l) == l \in todo /\ todo' = todo \ {l} /\ call' = call
Returns(result) == Enter("none", {}) /\ outcome' = result

(* A call, on the given leaves. *)
Begin(leaves, goal) ==
  /\ call = "none"
  /\ group' = leaves /\ target' = goal /\ before' = Model

-----------------------------------------------------------------------------
(* load_state                                                              *)

(* The payloads of tied parameters agree. *)
NoConflict(snapshot) ==
  \A l, k \in Leaves : Tied(l, k) => snapshot[l] = snapshot[k]

(* The paths differ, or tied parameters have conflicting payloads. *)
RefuseLoad ==
  /\ Begin(Leaves, target)
  /\ Returns("err")
  /\ UNCHANGED <<value, staging, optimizer, rejected>>

BeginLoad(snapshot) ==
  /\ Begin(Leaves, snapshot)
  /\ NoConflict(snapshot)
  /\ Enter("prepare", Leaves)
  /\ rejected' = FALSE
  /\ UNCHANGED <<value, staging, optimizer, outcome>>

(* Both the variable's current storage and the candidate are staged. *)
Prepare(l) ==
  /\ call = "prepare" /\ Visit(l)
  /\ pending' = [pending EXCEPT ![l] =
       {[original |-> value[SlotOf[l]], candidate |-> target[l]]}]
  /\ UNCHANGED <<value, committed, optimizer, request, rejected, outcome>>

(* Mutant: the markers of an earlier failed rollback survive. *)
ClearPending == pending' = [l \in Leaves |-> {}] /\ committed' = committed
(* StateFinalize drops every leaf's staging. *)
ClearAll == pending' = [l \in Leaves |-> {}] /\ committed' = {}

(* A payload has the wrong shape, or does not fit on the device. *)
PrepareFails ==
  /\ call = "prepare" /\ todo # {}
  /\ ClearAll
  /\ Returns("err")
  /\ UNCHANGED <<value, optimizer, request, rejected>>

Prepared ==
  /\ call = "prepare" /\ todo = {}
  /\ Enter("commit", Leaves)
  /\ UNCHANGED <<value, staging, optimizer, request, rejected, outcome>>

(* Mutant: the marker is set by the pass that fails. *)
CommitUnmarked(l) ==
  /\ call = "commit" /\ Visit(l)
  /\ \E staged \in pending[l] : Assign(l, staged.candidate)
  /\ UNCHANGED <<staging, optimizer, request, rejected, outcome>>

Commit(l) ==
  /\ call = "commit" /\ Visit(l)
  /\ \E staged \in pending[l] : Assign(l, staged.candidate)
  /\ committed' = committed \cup {l}
  /\ UNCHANGED <<pending, optimizer, request, rejected, outcome>>

(* The backend refuses an assignment, which leaves the variable alone. *)
CommitFails ==
  /\ call = "commit" /\ todo # {}
  /\ Enter("rollback", Leaves)
  /\ UNCHANGED <<value, staging, optimizer, request, rejected, outcome>>

Committed ==
  /\ call = "commit" /\ todo = {}
  /\ ClearAll
  /\ Returns("ok")
  /\ UNCHANGED <<value, optimizer, request, rejected>>

(* A leaf with the marker gets its original back and loses the marker. *)
Rollback(l) ==
  /\ call = "rollback" /\ Visit(l)
  /\ IF l \in committed THEN \E staged \in pending[l] : Assign(l, staged.original)
                        ELSE UNCHANGED value
  /\ committed' = committed \ {l}
  /\ UNCHANGED <<pending, optimizer, request, rejected, outcome>>

(* Mutant: the marker is dropped although the backend refused. *)
RollbackForgets(l) ==
  /\ call = "rollback" /\ Visit(l) /\ l \in committed
  /\ rejected' = TRUE /\ committed' = committed \ {l}
  /\ UNCHANGED <<value, pending, optimizer, request, outcome>>

(* The backend refuses; the leaf stays marked and the pass goes on. *)
RollbackRejected(l) ==
  /\ call = "rollback" /\ Visit(l) /\ l \in committed
  /\ rejected' = TRUE
  /\ UNCHANGED <<value, staging, optimizer, request, outcome>>

(* StateAbortClear keeps the staging of the leaves still marked. *)
RolledBack ==
  /\ call = "rollback" /\ todo = {}
  /\ pending' = [l \in Leaves |-> IF l \in committed THEN pending[l] ELSE {}]
  /\ Returns(IF rejected THEN "rollback" ELSE "err")
  /\ UNCHANGED <<value, committed, optimizer, request, rejected>>

-----------------------------------------------------------------------------
(* Optimizer::step                                                         *)

(* No gradient reached the group, or an update cannot be computed. *)
RefuseStep ==
  /\ Begin({}, target)
  /\ Returns("err")
  /\ UNCHANGED <<value, staging, optimizer, rejected>>

(* Every update is computed from the variables as they are; leaves are the *)
(* parameters a gradient reached.                                          *)
BeginStep(leaves, updates) ==
  /\ steps < MaxSteps /\ leaves # {}
  /\ Begin(leaves, updates)
  /\ Enter("update", leaves)
  /\ UNCHANGED <<value, staging, optimizer, rejected, outcome>>

Update(l) ==
  /\ call = "update" /\ Visit(l)
  /\ Assign(l, target[l])
  /\ UNCHANGED <<staging, optimizer, request, rejected, outcome>>

(* The backend refuses one: all of them are reverted, assigned or not. *)
UpdateFails ==
  /\ call = "update" /\ todo # {}
  /\ Enter("revert", group)
  /\ UNCHANGED <<value, staging, optimizer, request, rejected, outcome>>

(* The moments of the group and the step counter are published together. *)
Publish ==
  /\ call = "update" /\ todo = {}
  /\ steps' = steps + 1
  /\ moments' = [l \in Leaves |-> IF l \in group THEN steps' ELSE moments[l]]
  /\ Returns("ok")
  /\ UNCHANGED <<value, staging, request, rejected>>

Revert(l) ==
  /\ call = "revert" /\ Visit(l)
  /\ Assign(l, before.value[SlotOf[l]])
  /\ UNCHANGED <<staging, optimizer, request, rejected, outcome>>

(* The backend refuses that too: the call stops there. *)
RevertRejected ==
  /\ call = "revert" /\ todo # {}
  /\ Returns("broken")
  /\ UNCHANGED <<value, staging, optimizer, request, rejected>>

Reverted ==
  /\ call = "revert" /\ todo = {}
  /\ Returns("err")
  /\ UNCHANGED <<value, staging, optimizer, request, rejected>>

Next ==
  \/ RefuseLoad \/ RefuseStep
  \/ \E goal \in [Leaves -> Contents] :
       BeginLoad(goal) \/ \E leaves \in SUBSET Leaves : BeginStep(leaves, goal)
  \/ \E l \in Leaves : Prepare(l) \/ Commit(l) \/ Rollback(l) \/ RollbackRejected(l)
  \/ PrepareFails \/ Prepared \/ CommitFails \/ Committed \/ RolledBack
  \/ \E l \in Leaves : Update(l) \/ Revert(l)
  \/ UpdateFails \/ Publish \/ RevertRejected \/ Reverted

Spec == Init /\ [][Next]_vars

-----------------------------------------------------------------------------
(* Properties                                                              *)

Models == [value : [Slots -> Contents], moments : [Leaves -> Nat], steps : Nat]

(* Every variable has its type. *)
TypeOK ==
  /\ Model \in Models /\ before \in Models
  /\ pending \in [Leaves -> {{}} \cup {{staged} : staged \in Staged}]
  /\ committed \subseteq Leaves
  /\ call \in Passes /\ outcome \in Outcomes /\ rejected \in BOOLEAN
  /\ todo \subseteq group /\ group \subseteq Leaves
  /\ target \in [Leaves -> Contents]

(* A variable of the call's leaves has the content meant for it (tied      *)
(* updates overwrite one another), every other one is as it was.           *)
AllAssigned ==
  \A s \in Slots :
    LET meant == {target[l] : l \in {k \in group : SlotOf[k] = s}}
    IN  IF meant = {} THEN value[s] = before.value[s] ELSE value[s] \in meant

(* The moments and the counter are those of before, or all of them moved. *)
SameOptimizer == moments = before.moments /\ steps = before.steps
SteppedOptimizer ==
  /\ steps = before.steps + 1
  /\ moments = [l \in Leaves |-> IF l \in group THEN steps ELSE before.moments[l]]

(* A load or a step that returns Ok did all of it; one that returns an     *)
(* error left the parameters, the moments and the counter as it found      *)
(* them, unless the error says that the backend refused the rollback too.  *)
AllOrNothing ==
  call = "none" =>
    /\ outcome = "ok" => AllAssigned /\ (SameOptimizer \/ SteppedOptimizer)
    /\ outcome = "err" => Model = before
    /\ outcome \in {"rollback", "broken"} => SameOptimizer

(* After a rejected rollback every variable that was not restored is       *)
(* pointed at: a leaf of it keeps its marker and the original content.     *)
UnrestoredIsMarked ==
  call = "none" /\ outcome = "rollback" =>
    \A s \in Slots : value[s] # before.value[s] =>
      \E l \in committed : \E staged \in pending[l] :
        SlotOf[l] = s /\ staged.original = before.value[s]

(* Between calls a leaf keeps a staged pair, twice its size on the device, *)
(* exactly when it is marked as not rolled back.                           *)
StagingReleased ==
  call = "none" => \A l \in Leaves : l \in committed <=> pending[l] # {}
=============================================================================
