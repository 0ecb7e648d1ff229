----------------------------- MODULE MemoryPlan -----------------------------
(***************************************************************************)
(* A compiled graph's buffer slots, from capture to execution.             *)
(* CapturedGraph::capture and LivenessMap::compute walk the nodes,         *)
(* AllocationPlanner::plan hands a slot to every value and takes it back   *)
(* after the value's last use, and the CPU executor reads and writes       *)
(* values only through the slots.  Every operation the executor dispatches *)
(* returns one storage, so a node defines one value.  The free list is a   *)
(* set: the properties hold whichever free slot is handed out.             *)
(***************************************************************************)
EXTENDS Integers, FiniteSets

CONSTANTS
  Values,     \* value ids
  Empty,      \* what a slot of a fresh invocation holds
  MaxNodes,   \* BOUND: nodes of a graph
  MaxReads,   \* BOUND: inputs of a node
  MaxSources  \* BOUND: inputs and initializers of a graph

ASSUME EmptyAssumption == Empty \notin Values
ASSUME BoundAssumption == MaxNodes \in Nat

VARIABLES
  sources,    \* the graph's inputs and initializers
  reads,      \* node -> the values it reads
  writes,     \* node -> the value it defines
  count,      \* number of nodes captured
  results,    \* the graph's outputs
  defined,    \* the values defined so far by the capture
  defAt,      \* value -> def_node of its interval
  lastUse,    \* value -> last_use_node of its interval
  phase,      \* which loop the program is in
  at,         \* the node that loop is at
  slotOf,     \* assignments, for the values in placed
  placed,     \* the values that have an assignment
  live,       \* currently_live
  free,       \* free_slots
  nextSlot,   \* next_slot
  peak,       \* peak_live_slots
  memory      \* the invocation's slots: slot -> the value it holds

graphVars == <<sources, reads, writes, count, results, defined, defAt, lastUse>>
planVars == <<slotOf, placed, live, free, nextSlot, peak>>
vars == <<graphVars, phase, at, planVars, memory>>

Phases == {"capture", "plan", "load", "run", "returned"}
NoSlots == [s \in {} |-> Empty]

(* The graph's inputs and initializers are distinct values, live at node 0. *)
Init ==
  /\ sources \in {S \in SUBSET Values : IsFiniteSet(S) /\ Cardinality(S) <= MaxSources}
  /\ defined = sources
  /\ reads = [i \in 0..MaxNodes |-> {}]
  /\ writes = [i \in 0..MaxNodes |-> Empty]
  /\ count = 0 /\ results = {}
  /\ defAt = [v \in Values |-> 0]
  /\ lastUse = [v \in Values |-> 0]
  /\ phase = "capture" /\ at = 0
  /\ slotOf = [v \in Values |-> 0]
  /\ placed = {} /\ live = {} /\ free = {}
  /\ nextSlot = 0 /\ peak = 0
  /\ memory = NoSlots

-----------------------------------------------------------------------------
(* Capture and liveness                                                    *)

(* The intervals' ends after node i, which reads R and defines v. *)
UseAt(i, R, v) ==
  [w \in Values |-> IF w = v \/ (w \in R /\ i > lastUse[w]) THEN i ELSE lastUse[w]]

(* Mutant: the graph's outputs are used by nodes only. *)
NotHeld(n, O) == lastUse
(* The intervals' ends of a closed graph of n nodes with outputs O. *)
HeldToTheEnd(n, O) == [w \in Values |-> IF w \in O THEN n ELSE lastUse[w]]

(* capture admits a node whose inputs are defined and whose output is new. *)
CaptureNode(R, v) ==
  /\ phase = "capture" /\ count < MaxNodes
  /\ R \subseteq defined /\ v \notin defined
  /\ reads' = [reads EXCEPT ![count] = R]
  /\ writes' = [writes EXCEPT ![count] = v]
  /\ defined' = defined \cup {v}
  /\ defAt' = [defAt EXCEPT ![v] = count]
  /\ lastUse' = UseAt(count, R, v)
  /\ count' = count + 1
  /\ UNCHANGED <<sources, results, phase, at, planVars, memory>>

(* The graph's outputs are defined values; planning starts. *)
CloseGraph(O) ==
  /\ phase = "capture"
  /\ O \subseteq defined
  /\ results' = O
  /\ lastUse' = HeldToTheEnd(count, O)
  /\ phase' = "plan"
  /\ UNCHANGED <<sources, reads, writes, count, defined, defAt, at, planVars, memory>>

-----------------------------------------------------------------------------
(* The planner                                                             *)

(* v gets slot s. *)
Assign(v, s) ==
  /\ slotOf' = [slotOf EXCEPT ![v] = s]
  /\ placed' = placed \cup {v}
  /\ live' = live \cup {v}

SourcesPlaced == sources \subseteq placed

(* Inputs and initializers take the first slots, one each. *)
PlaceSource(v) ==
  /\ phase = "plan" /\ v \in sources \ placed
  /\ Assign(v, nextSlot)
  /\ nextSlot' = nextSlot + 1
  /\ peak' = Cardinality(live')
  /\ UNCHANGED <<graphVars, phase, at, free, memory>>

(* No node from the current one on uses v. *)
Dead(v) == v \in live /\ lastUse[v] < at

Release(v) ==
  /\ phase = "plan" /\ SourcesPlaced /\ Dead(v)
  /\ live' = live \ {v}
  /\ free' = free \cup {slotOf[v]}
  /\ UNCHANGED <<graphVars, phase, at, slotOf, placed, nextSlot, peak, memory>>

NothingDead == \A v \in live : ~ Dead(v)

(* The slots the next value may take: a free one, or a new one. *)
Candidates == IF free # {} THEN free ELSE {nextSlot}

(* Mutant: the peak is taken before the node's output is counted. *)
PeakBefore(p) == IF Cardinality(live) > p THEN Cardinality(live) ELSE p
(* The peak after a step of the loop. *)
PeakAfter(p) == IF Cardinality(live') > p THEN Cardinality(live') ELSE p

(* The output of the node the loop is at. *)
AllocateOutput ==
  /\ phase = "plan" /\ SourcesPlaced /\ NothingDead
  /\ at < count
  /\ \E s \in Candidates :
       /\ Assign(writes[at], s)
       /\ free' = free \ {s}
       /\ nextSlot' = IF s = nextSlot THEN nextSlot + 1 ELSE nextSlot
  /\ peak' = PeakAfter(peak)
  /\ at' = at + 1
  /\ UNCHANGED <<graphVars, phase, memory>>

(* The loop's last turn releases and allocates nothing. *)
PlanReady ==
  /\ phase = "plan" /\ SourcesPlaced /\ NothingDead
  /\ at = count
  /\ phase' = "load"
  /\ UNCHANGED <<graphVars, at, planVars, memory>>

-----------------------------------------------------------------------------
(* The executor                                                            *)

(* A fresh set of slots; the inputs and initializers are stored in theirs, *)
(* in whatever order.                                                      *)
LoadSources ==
  /\ phase = "load"
  /\ memory' \in [0..peak - 1 -> sources \cup {Empty}]
  /\ \A s \in 0..peak - 1 :
       IF \E v \in sources : slotOf[v] = s
         THEN memory'[s] \in sources /\ slotOf[memory'[s]] = s
         ELSE memory'[s] = Empty
  /\ phase' = "run" /\ at' = 0
  /\ UNCHANGED <<graphVars, planVars>>

Available(V) == \A v \in V : memory[slotOf[v]] # Empty

(* One node: its inputs are read, its storage is stored in its output's slot. *)
RunNode ==
  /\ phase = "run" /\ at < count
  /\ Available(reads[at])
  /\ memory' = [memory EXCEPT ![slotOf[writes[at]]] = writes[at]]
  /\ at' = at + 1
  /\ UNCHANGED <<graphVars, phase, planVars>>

(* The outputs are cloned out of their slots. *)
Return ==
  /\ phase = "run" /\ at = count
  /\ Available(results)
  /\ phase' = "returned"
  /\ UNCHANGED <<graphVars, at, planVars, memory>>

(* The plan is run again, with slots of its own. *)
NextInvocation ==
  /\ phase = "returned"
  /\ phase' = "load" /\ memory' = NoSlots
  /\ UNCHANGED <<graphVars, at, planVars>>

Next ==
  \/ \E R \in SUBSET defined, v \in Values :
       Cardinality(R) <= MaxReads /\ CaptureNode(R, v)
  \/ \E O \in SUBSET defined : CloseGraph(O)
  \/ \E v \in Values : PlaceSource(v) \/ Release(v)
  \/ AllocateOutput \/ PlanReady
  \/ LoadSources \/ RunNode \/ Return \/ NextInvocation

Spec == Init /\ [][Next]_vars

-----------------------------------------------------------------------------
(* Properties                                                              *)

(* Every variable has its type. *)
TypeOK ==
  /\ sources \subseteq defined /\ results \subseteq defined
  /\ defined \subseteq Values
  /\ count \in 0..MaxNodes /\ at \in 0..count
  /\ reads \in [0..MaxNodes -> SUBSET Values]
  /\ writes \in [0..MaxNodes -> Values \cup {Empty}]
  /\ defAt \in [Values -> Nat] /\ lastUse \in [Values -> Nat]
  /\ phase \in Phases
  /\ slotOf \in [Values -> Nat]
  /\ live \subseteq placed /\ placed \subseteq defined
  /\ free \subseteq 0..nextSlot - 1
  /\ nextSlot \in Nat /\ peak \in Nat
  /\ phase \in {"run", "returned"} =>
       memory \in [0..peak - 1 -> Values \cup {Empty}]

(* Reuse of slots is invisible: when a node reads an input, and when the   *)
(* graph's outputs are cloned, the slot of a value holds that very value   *)
(* and not one that took the slot over or has not been produced.           *)
ReadsItsOwn ==
  phase = "run" =>
    \A v \in IF at < count THEN reads[at] ELSE results :
      slotOf[v] < peak /\ memory[slotOf[v]] = v

(* The values whose interval covers node i. *)
LiveAt(i) == {v \in defined : defAt[v] <= i /\ i <= lastUse[v]}

(* The plan is as small as any plan can be: it uses peak_live_slots slots, *)
(* numbered without a gap, and that many values are live at one node.      *)
PlanIsTight ==
  phase = "load" =>
    /\ nextSlot = peak
    /\ \A v \in defined : v \in placed /\ slotOf[v] < peak
    /\ \A i \in 0..count : Cardinality(LiveAt(i)) <= peak
    /\ peak > 0 => \E i \in 0..count : Cardinality(LiveAt(i)) = peak
=============================================================================
