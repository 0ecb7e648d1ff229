-------------------------- MODULE MemoryPlanProofs --------------------------
(***************************************************************************)
(* Reuse of a compiled plan's slots is safe for every graph.  The argument *)
(* follows the code: capture gives intervals that cover every use          *)
(* (GraphInv), the planner hands a slot on only when the interval of every *)
(* earlier holder has ended and numbers no more slots than are live at     *)
(* once (PlanInv), so while a value's interval lasts its slot holds it     *)
(* (RunInv).                                                               *)
(***************************************************************************)
EXTENDS MemoryPlan, FiniteSetTheorems, TLAPS

(* The values defined before node i. *)
Before(i) == sources \cup {writes[j] : j \in 0..i - 1}

(* What capture and liveness establish: each node defines a value of its   *)
(* own and reads values defined before it, and intervals cover the uses.   *)
GraphInv ==
  /\ defined = Before(count)
  /\ \A i \in 0..count - 1 :
       /\ writes[i] \notin Before(i)
       /\ reads[i] \subseteq Before(i)
       /\ \A v \in reads[i] : i <= lastUse[v]
  /\ phase # "capture" => \A v \in results : lastUse[v] = count

(* While sources are placed nothing has been released. *)
Placing == ~ SourcesPlaced => at = 0 /\ free = {} /\ live = placed

(* Slots of live values are distinct and not free; all slots are counted.  *)
SlotsCounted ==
  /\ IsFiniteSet(live) /\ IsFiniteSet(free)
  /\ \A u, v \in live : slotOf[u] = slotOf[v] => u = v
  /\ \A v \in live : slotOf[v] \notin free
  /\ nextSlot = Cardinality(live) + Cardinality(free)
  /\ peak = nextSlot

(* A node's output takes no slot of an earlier value whose interval lasts. *)
HandedOn(i) ==
  \A j \in 0..i - 1 : \A v \in Before(j) :
    slotOf[v] = slotOf[writes[j]] => lastUse[v] < j

SourcesApart ==
  \A u, v \in sources \cap placed : slotOf[u] = slotOf[v] => u = v

PlanInv ==
  /\ \A v \in placed : slotOf[v] < nextSlot
  /\ SourcesApart
  /\ phase = "capture" => at = 0 /\ placed = {} /\ free = {}
  /\ phase = "plan" =>
       /\ Placing
       /\ IF SourcesPlaced THEN placed = Before(at) ELSE placed \subseteq sources
       /\ \A v \in placed \ live : lastUse[v] < at
       /\ HandedOn(at)
  /\ phase \in {"capture", "plan"} => SlotsCounted
  /\ phase \notin {"capture", "plan"} =>
       placed = defined /\ HandedOn(count) /\ peak = nextSlot

(* While its interval lasts, a value's slot holds it. *)
RunInv ==
  phase = "run" =>
    \A v \in Before(at) : at <= lastUse[v] => memory[slotOf[v]] = v

(* Intervals start where their value is defined, and do not end earlier. *)
IntervalsStart ==
  /\ IsFiniteSet(defined)
  /\ \A v \in sources : defAt[v] = 0
  /\ \A i \in 0..count - 1 : defAt[writes[i]] = i /\ i <= lastUse[writes[i]]

(* The peak counts the sources or the values live at one of the nodes left. *)
PeakReached(n) ==
  /\ Cardinality(sources) <= peak
  /\ \A i \in 0..n : Cardinality(LiveAt(i)) <= peak
  /\ peak # Cardinality(sources) => \E i \in 0..n : Cardinality(LiveAt(i)) = peak

TightInv ==
  /\ IntervalsStart
  /\ phase = "plan" /\ SourcesPlaced => PeakReached(at - 1)
  /\ phase \notin {"capture", "plan"} => PeakReached(count)

IInv == TypeOK /\ GraphInv /\ PlanInv /\ RunInv /\ TightInv

-----------------------------------------------------------------------------
(* Types                                                                   *)

(* The initial state is well typed. *)
LEMMA InitTyped == Init => TypeOK
BY BoundAssumption DEF Init, TypeOK, Phases, NoSlots

(* Every step keeps the types, given that the slots of live values are     *)
(* below next_slot.                                                        *)
LEMMA NextTyped == TypeOK /\ GraphInv /\ PlanInv /\ [Next]_vars => TypeOK'
<1> SUFFICES ASSUME TypeOK, GraphInv, PlanInv, [Next]_vars PROVE TypeOK'
  OBVIOUS
<1> USE BoundAssumption DEF TypeOK, Phases
<1>1. ASSUME NEW R \in SUBSET defined, NEW v \in Values, CaptureNode(R, v)
      PROVE  TypeOK'
  <2>1. UseAt(count, R, v) \in [Values -> Nat]
    BY DEF UseAt
  <2>2. /\ count \in 0..MaxNodes /\ count' \in 0..MaxNodes /\ at \in 0..count'
        /\ R \subseteq Values
    BY <1>1 DEF CaptureNode
  <2>3. /\ reads' \in [0..MaxNodes -> SUBSET Values]
        /\ writes' \in [0..MaxNodes -> Values \cup {Empty}]
        /\ defAt' \in [Values -> Nat]
    BY <1>1, <2>2 DEF CaptureNode
  <2> QED BY <1>1, <2>1, <2>2, <2>3 DEF CaptureNode, planVars
<1>2. ASSUME NEW O \in SUBSET defined, CloseGraph(O)
      PROVE  TypeOK'
  <2>1. HeldToTheEnd(count, O) \in [Values -> Nat]
    BY DEF HeldToTheEnd
  <2> QED BY <1>2, <2>1 DEF CloseGraph, planVars
<1>3. ASSUME NEW v \in Values, PlaceSource(v)
      PROVE  TypeOK'
  <2>1. peak' \in Nat
    <3>1. IsFiniteSet(live) /\ live' = live \cup {v}
      BY <1>3 DEF PlaceSource, Assign, PlanInv, SlotsCounted
    <3> QED BY <1>3, <3>1, FS_AddElement, FS_CardinalityType DEF PlaceSource
  <2> QED BY <1>3, <2>1 DEF PlaceSource, Assign, graphVars
<1>4. ASSUME NEW v \in Values, Release(v)
      PROVE  TypeOK'
  <2>1. slotOf[v] \in 0..nextSlot - 1
    BY <1>4 DEF Release, Dead, PlanInv
  <2> QED BY <1>4, <2>1 DEF Release, graphVars
<1>5. CASE AllocateOutput
  <2>1. peak' \in Nat
    <3>1. IsFiniteSet(live) /\ live' = live \cup {writes[at]}
      BY <1>5 DEF AllocateOutput, Assign, PlanInv, SlotsCounted
    <3>2. Cardinality(live') \in Nat
      BY <3>1, FS_AddElement, FS_CardinalityType
    <3> QED BY <1>5, <3>2 DEF AllocateOutput, PeakAfter
  <2>2. PICK s \in Candidates :
          /\ Assign(writes[at], s)
          /\ free' = free \ {s}
          /\ nextSlot' = IF s = nextSlot THEN nextSlot + 1 ELSE nextSlot
    BY <1>5 DEF AllocateOutput
  <2>3. s \in 0..nextSlot
    BY DEF Candidates
  <2>4. writes[at] \in defined
    BY <1>5 DEF AllocateOutput, GraphInv, Before
  <2> QED BY <1>5, <2>1, <2>2, <2>3, <2>4 DEF AllocateOutput, Assign, graphVars
<1>6. CASE PlanReady
  BY <1>6 DEF PlanReady, graphVars, planVars
<1>7. CASE LoadSources
  BY <1>7 DEF LoadSources, graphVars, planVars
<1>8. CASE RunNode
  <2>1. writes[at] \in Values \cup {Empty} /\ phase \in {"run", "returned"} /\ at' \in 0..count
    BY <1>8 DEF RunNode
  <2>2. memory' \in [0..peak - 1 -> Values \cup {Empty}]
    BY <1>8, <2>1 DEF RunNode
  <2> QED BY <1>8, <2>1, <2>2 DEF RunNode, graphVars, planVars
<1>9. CASE Return
  BY <1>9 DEF Return, graphVars, planVars
<1>10. CASE NextInvocation
  BY <1>10 DEF NextInvocation, graphVars, planVars, NoSlots
<1>11. CASE UNCHANGED vars
  BY <1>11 DEF vars, graphVars, planVars
<1> QED
  BY <1>1, <1>2, <1>3, <1>4, <1>5, <1>6, <1>7, <1>8, <1>9, <1>10, <1>11 DEF Next

-----------------------------------------------------------------------------
(* Capture and liveness                                                    *)

(* Nothing is defined before the first node but the sources, and each node *)
(* adds the value it writes.                                               *)
LEMMA BeforeNext ==
  ASSUME NEW i \in Nat
  PROVE  Before(0) = sources /\ Before(i + 1) = Before(i) \cup {writes[i]}
<1>1. 0..0 - 1 = {} /\ 0..(i + 1) - 1 = (0..i - 1) \cup {i}
  OBVIOUS
<1>2. {writes[j] : j \in 0..(i + 1) - 1} = {writes[j] : j \in 0..i - 1} \cup {writes[i]}
  BY <1>1
<1> QED BY <1>1, <1>2 DEF Before

(* Once captured, the graph stays as it is. *)
LEMMA GraphKept ==
  ASSUME GraphInv, UNCHANGED graphVars, phase # "capture"
  PROVE  GraphInv'
BY DEF GraphInv, graphVars, Before

(* Capture and liveness establish GraphInv and every step keeps it. *)
LEMMA NextGraph == TypeOK /\ GraphInv /\ [Next]_vars => GraphInv'
<1> SUFFICES ASSUME TypeOK, GraphInv, [Next]_vars PROVE GraphInv'
  OBVIOUS
<1>1. ASSUME NEW R \in SUBSET defined, NEW v \in Values, CaptureNode(R, v)
      PROVE  GraphInv'
  <2>1. /\ count \in Nat /\ count \in 0..MaxNodes /\ count' = count + 1
        /\ sources' = sources /\ phase = "capture" /\ phase' = "capture"
        /\ writes'[count] = v /\ reads'[count] = R
        /\ \A j \in 0..count - 1 : writes'[j] = writes[j] /\ reads'[j] = reads[j]
    BY <1>1, BoundAssumption DEF CaptureNode, TypeOK
  <2>2. ASSUME NEW i \in 0..count PROVE Before(i)' = Before(i)
    <3>1. \A j \in 0..i - 1 : writes'[j] = writes[j]
      BY <2>1
    <3> QED BY <2>1, <3>1 DEF Before
  <2>3. defined' = Before(count)'
    <3>1. PICK n \in Nat : n = count
      BY <2>1
    <3>2. Before(n + 1)' = Before(n)' \cup {writes'[n]}
      <4>1. 0..(n + 1) - 1 = (0..n - 1) \cup {n}
        BY <3>1
      <4>2. {writes'[j] : j \in 0..(n + 1) - 1} = {writes'[j] : j \in 0..n - 1} \cup {writes'[n]}
        BY <4>1
      <4> QED BY <4>2 DEF Before
    <3>3. Before(n)' = Before(count)
      BY <2>2, <3>1
    <3>4. Before(count)' = Before(n + 1)'
      BY <2>1, <3>1 DEF Before
    <3> QED BY <1>1, <2>1, <3>1, <3>2, <3>3, <3>4 DEF CaptureNode, GraphInv
  <2>4. ASSUME NEW i \in 0..count' - 1
        PROVE  /\ writes'[i] \notin Before(i)'
               /\ reads'[i] \subseteq Before(i)'
               /\ \A w \in reads'[i] : i <= lastUse'[w]
    <3>1. i \in 0..count /\ Before(i)' = Before(i)
      BY <2>1, <2>2
    <3>2. \A w \in Values : lastUse'[w] = count \/ (lastUse'[w] = lastUse[w] /\ ~(w \in R /\ count > lastUse[w]))
      BY <1>1 DEF CaptureNode, UseAt
    <3>3. lastUse \in [Values -> Nat] /\ R \subseteq Values
      BY DEF TypeOK
    <3>4. CASE i = count
      BY <1>1, <2>1, <3>1, <3>2, <3>3, <3>4 DEF CaptureNode, GraphInv
    <3>5. CASE i \in 0..count - 1
      <4>1. /\ writes[i] \notin Before(i) /\ reads[i] \subseteq Before(i)
            /\ \A w \in reads[i] : i <= lastUse[w]
        BY <3>5 DEF GraphInv
      <4>2. reads[i] \subseteq Values
        BY <3>1, <2>1, BoundAssumption DEF TypeOK
      <4> QED BY <2>1, <3>1, <3>2, <3>3, <3>5, <4>1, <4>2
    <3> QED BY <2>1, <3>1, <3>4, <3>5
  <2> QED BY <2>1, <2>3, <2>4 DEF GraphInv
<1>2. ASSUME NEW O \in SUBSET defined, CloseGraph(O)
      PROVE  GraphInv'
  <2>1. /\ \A w \in Values : lastUse'[w] = IF w \in O THEN count ELSE lastUse[w]
        /\ results' = O /\ O \subseteq Values
    BY <1>2 DEF CloseGraph, HeldToTheEnd, TypeOK
  <2>2. UNCHANGED <<sources, reads, writes, count, defined>>
    BY <1>2 DEF CloseGraph
  <2>3. ASSUME NEW i \in 0..count - 1, NEW w \in reads[i] PROVE i <= lastUse'[w]
    <3>1. i <= lastUse[w] /\ w \in Values /\ count \in Nat
      BY BoundAssumption DEF GraphInv, TypeOK
    <3> QED BY <2>1, <3>1
  <2>4. \A i : Before(i)' = Before(i)
    BY <2>2 DEF Before
  <2> QED BY <2>1, <2>2, <2>3, <2>4 DEF GraphInv
<1>3. ASSUME NEW v \in Values, PlaceSource(v) \/ Release(v)
      PROVE  GraphInv'
  BY <1>3, GraphKept DEF PlaceSource, Release
<1>4. CASE AllocateOutput \/ PlanReady \/ LoadSources \/ RunNode \/ Return \/ NextInvocation
  BY <1>4, GraphKept
  DEF AllocateOutput, PlanReady, LoadSources, RunNode, Return, NextInvocation
<1>5. CASE UNCHANGED vars
  BY <1>5 DEF vars, graphVars, GraphInv, Before
<1> QED BY <1>1, <1>2, <1>3, <1>4, <1>5 DEF Next

-----------------------------------------------------------------------------
(* The planner                                                             *)

(* The planner's first slot goes to a source; the counters agree. *)
LEMMA PlaceSourceKeeps ==
  ASSUME TypeOK, GraphInv, PlanInv, NEW v \in Values, PlaceSource(v)
  PROVE  PlanInv'
<1>1. /\ phase = "plan" /\ phase' = "plan" /\ v \in sources /\ v \notin placed
      /\ UNCHANGED <<graphVars, at, free>>
      /\ ~ SourcesPlaced /\ at = 0 /\ free = {} /\ live = placed /\ placed \subseteq sources
  BY DEF PlaceSource, PlanInv, Placing, SourcesPlaced
<1>2. /\ slotOf' = [slotOf EXCEPT ![v] = nextSlot] /\ nextSlot' = nextSlot + 1
      /\ placed' = placed \cup {v} /\ live' = live \cup {v}
      /\ peak' = Cardinality(live')
  BY DEF PlaceSource, Assign
<1>3. /\ slotOf'[v] = nextSlot /\ nextSlot \in Nat
      /\ \A u \in placed : slotOf'[u] = slotOf[u] /\ slotOf[u] \in 0..nextSlot - 1
  BY <1>1, <1>2 DEF TypeOK, PlanInv
<1>4. /\ IsFiniteSet(live') /\ Cardinality(live') = Cardinality(live) + 1
      /\ IsFiniteSet(free) /\ Cardinality(free) = 0 /\ Cardinality(live) \in Nat
      /\ nextSlot = Cardinality(live) + Cardinality(free)
  BY <1>1, <1>2, FS_AddElement, FS_EmptySet, FS_CardinalityType DEF PlanInv, SlotsCounted
<1>5. SlotsCounted'
  <2>1. nextSlot' = Cardinality(live') + Cardinality(free') /\ peak' = nextSlot'
    BY <1>1, <1>2, <1>4
  <2>2. \A u, w \in live' : slotOf'[u] = slotOf'[w] => u = w
    BY <1>1, <1>2, <1>3 DEF PlanInv, SlotsCounted
  <2> QED BY <1>1, <1>4, <2>1, <2>2 DEF SlotsCounted
<1>6. \A u \in placed' : slotOf'[u] < nextSlot'
  BY <1>2, <1>3
<1>7. SourcesApart'
  BY <1>1, <1>2, <1>3 DEF SourcesApart, PlanInv, SlotsCounted, graphVars
<1>8. (IF SourcesPlaced THEN placed = Before(at) ELSE placed \subseteq sources)'
  BY <1>1, <1>2 DEF SourcesPlaced, Before, graphVars
<1>9. Placing' /\ HandedOn(at)' /\ \A u \in placed' \ live' : lastUse'[u] < at'
  BY <1>1, <1>2 DEF Placing, HandedOn
<1> QED BY <1>1, <1>5, <1>6, <1>7, <1>8, <1>9 DEF PlanInv

(* Releasing a value moves its slot to the free list. *)
LEMMA ReleaseKeeps ==
  ASSUME TypeOK, GraphInv, PlanInv, NEW v \in Values, Release(v)
  PROVE  PlanInv'
<1>1. /\ phase = "plan" /\ phase' = "plan" /\ SourcesPlaced
      /\ v \in live /\ lastUse[v] < at
      /\ live' = live \ {v} /\ free' = free \cup {slotOf[v]}
      /\ UNCHANGED <<graphVars, at, slotOf, placed, nextSlot, peak>>
  BY DEF Release, Dead
<1>2. SlotsCounted
  BY <1>1 DEF PlanInv
<1>3. /\ IsFiniteSet(live') /\ Cardinality(live') = Cardinality(live) - 1
      /\ IsFiniteSet(free') /\ Cardinality(free') = Cardinality(free) + 1
      /\ Cardinality(live) \in Nat /\ Cardinality(free) \in Nat
  BY <1>1, <1>2, FS_AddElement, FS_RemoveElement, FS_CardinalityType DEF SlotsCounted
<1>4. SlotsCounted'
  BY <1>1, <1>2, <1>3 DEF SlotsCounted
<1>5. SourcesPlaced' /\ Placing' /\ placed' = Before(at)'
  BY <1>1 DEF PlanInv, Placing, SourcesPlaced, Before, graphVars
<1>6. HandedOn(at)' /\ SourcesApart' /\ \A u \in placed' : slotOf'[u] < nextSlot'
  BY <1>1 DEF PlanInv, HandedOn, SourcesApart, Before, graphVars
<1>7. \A u \in placed' \ live' : lastUse'[u] < at'
  BY <1>1 DEF PlanInv, graphVars
<1> QED BY <1>1, <1>4, <1>5, <1>6, <1>7 DEF PlanInv

(* A node's output takes a slot no live value has. *)
LEMMA AllocateKeeps ==
  ASSUME TypeOK, GraphInv, PlanInv, AllocateOutput
  PROVE  PlanInv'
<1> DEFINE w == writes[at]
<1>1. /\ phase = "plan" /\ phase' = "plan" /\ SourcesPlaced /\ at < count
      /\ UNCHANGED graphVars /\ at' = at + 1 /\ at \in 0..count - 1 /\ at \in Nat
      /\ peak' = PeakAfter(peak)
  BY DEF AllocateOutput, TypeOK
<1>2. PICK s \in Candidates :
        /\ slotOf' = [slotOf EXCEPT ![w] = s]
        /\ placed' = placed \cup {w} /\ live' = live \cup {w}
        /\ free' = free \ {s}
        /\ nextSlot' = IF s = nextSlot THEN nextSlot + 1 ELSE nextSlot
  BY DEF AllocateOutput, Assign
<1>3. /\ w \notin Before(at) /\ w \in defined /\ placed = Before(at)
      /\ sources \subseteq placed
  BY <1>1 DEF GraphInv, Before, PlanInv, SourcesPlaced
<1>4. /\ w \in Values /\ slotOf'[w] = s /\ w \notin live /\ w \notin placed
      /\ \A u \in placed : slotOf'[u] = slotOf[u] /\ slotOf[u] \in 0..nextSlot - 1
      /\ live \subseteq placed /\ nextSlot \in Nat
  BY <1>2, <1>3 DEF TypeOK, PlanInv
<1> HIDE DEF w
<1>5. SlotsCounted
  BY <1>1 DEF PlanInv
<1>6. /\ IsFiniteSet(live') /\ Cardinality(live') = Cardinality(live) + 1
      /\ Cardinality(live) \in Nat /\ Cardinality(free) \in Nat
  BY <1>2, <1>4, <1>5, FS_AddElement, FS_CardinalityType DEF SlotsCounted
<1>7. \A u \in live : slotOf[u] # s
  BY <1>4, <1>5 DEF SlotsCounted, Candidates
<1>8. /\ IsFiniteSet(free') /\ peak' = nextSlot'
      /\ nextSlot' = Cardinality(live') + Cardinality(free')
      /\ s < nextSlot' /\ nextSlot <= nextSlot'
  <2>1. CASE free # {}
    <3>1. s \in free /\ s \in 0..nextSlot - 1
      BY <2>1 DEF Candidates, TypeOK
    <3>2. /\ IsFiniteSet(free') /\ Cardinality(free') = Cardinality(free) - 1
          /\ Cardinality(free') \in Nat
      BY <1>2, <1>5, <3>1, FS_RemoveElement, FS_CardinalityType DEF SlotsCounted
    <3>3. nextSlot' = nextSlot
      BY <1>2, <1>4, <3>1
    <3> QED BY <1>1, <1>4, <1>5, <1>6, <3>1, <3>2, <3>3 DEF SlotsCounted, PeakAfter
  <2>2. CASE free = {}
    <3>1. s = nextSlot /\ free' = {} /\ Cardinality(free) = 0 /\ Cardinality(free') = 0
      BY <1>2, <2>2, FS_EmptySet DEF Candidates
    <3>2. nextSlot' = nextSlot + 1
      BY <1>2, <3>1
    <3> QED
      BY <1>1, <1>4, <1>5, <1>6, <3>1, <3>2, FS_EmptySet DEF SlotsCounted, PeakAfter
  <2> QED BY <2>1, <2>2
<1>9. SlotsCounted'
  <2>1. \A u, x \in live' : slotOf'[u] = slotOf'[x] => u = x
    BY <1>2, <1>4, <1>5, <1>7 DEF SlotsCounted
  <2>2. \A u \in live' : slotOf'[u] \notin free'
    BY <1>2, <1>4, <1>5, <1>7 DEF SlotsCounted
  <2> QED BY <1>6, <1>8, <2>1, <2>2 DEF SlotsCounted
<1>10. \A u \in placed' : slotOf'[u] < nextSlot'
  <2>1. ASSUME NEW u \in placed PROVE slotOf'[u] < nextSlot'
    BY <1>2, <1>4
  <2> QED BY <1>2, <1>4, <1>8, <2>1
<1>11. SourcesApart'
  BY <1>1, <1>2, <1>3, <1>4 DEF SourcesApart, PlanInv, graphVars
<1>12. SourcesPlaced' /\ Placing' /\ placed' = Before(at)'
  <2>1. Before(at + 1) = Before(at) \cup {w}
    BY <1>1, BeforeNext DEF w
  <2>2. Before(at)' = Before(at + 1)
    BY <1>1 DEF Before, graphVars
  <2> QED BY <1>1, <1>2, <1>3, <2>1, <2>2 DEF SourcesPlaced, Placing, graphVars
<1>13. \A u \in placed' \ live' : lastUse'[u] < at'
  <2>1. \A u \in placed \ live : lastUse[u] < at /\ lastUse[u] \in Nat
    BY <1>1 DEF PlanInv, TypeOK
  <2> QED BY <1>1, <1>2, <2>1 DEF graphVars
<1>14. HandedOn(at)'
  <2> SUFFICES ASSUME NEW j \in 0..at, NEW v \in Before(j),
                      slotOf'[v] = slotOf'[writes[j]]
               PROVE  lastUse[v] < j
    BY <1>1 DEF HandedOn, Before, graphVars
  <2>1. CASE j = at
    <3>1. v \in placed /\ slotOf[v] = s
      BY <1>2, <1>3, <1>4, <2>1 DEF w
    <3>2. v \notin live
      BY <1>7, <3>1
    <3> QED BY <1>1, <2>1, <3>1, <3>2 DEF PlanInv
  <2>2. CASE j \in 0..at - 1
    <3>1. v \in placed /\ writes[j] \in placed
      BY <1>1, <1>3, <2>2 DEF Before
    <3>2. slotOf[v] = slotOf[writes[j]]
      BY <1>4, <3>1
    <3> QED BY <1>1, <2>2, <3>2 DEF PlanInv, HandedOn
  <2> QED BY <1>1, <2>1, <2>2
<1> QED BY <1>1, <1>9, <1>10, <1>11, <1>12, <1>13, <1>14 DEF PlanInv

(* A finished plan stays as it is. *)
LEMMA PlanKept ==
  ASSUME TypeOK, GraphInv, PlanInv, phase \notin {"capture", "plan"},
         phase' \notin {"capture", "plan"}, UNCHANGED <<graphVars, planVars>>
  PROVE  PlanInv'
BY DEF PlanInv, HandedOn, SourcesApart, Before, graphVars, planVars

(* Every step keeps the planner's invariant. *)
LEMMA NextPlan == TypeOK /\ GraphInv /\ PlanInv /\ [Next]_vars => PlanInv'
<1> SUFFICES ASSUME TypeOK, GraphInv, PlanInv, [Next]_vars PROVE PlanInv'
  OBVIOUS
<1>1. ASSUME NEW R \in SUBSET defined, NEW v \in Values, CaptureNode(R, v)
      PROVE  PlanInv'
  BY <1>1 DEF CaptureNode, planVars, PlanInv, SourcesApart, SlotsCounted
<1>2. ASSUME NEW O \in SUBSET defined, CloseGraph(O)
      PROVE  PlanInv'
  <2>1. /\ phase = "capture" /\ phase' = "plan" /\ at = 0 /\ placed = {} /\ free = {}
        /\ live = {} /\ UNCHANGED <<sources, at, planVars>>
    BY <1>2 DEF CloseGraph, PlanInv, TypeOK
  <2>2. SourcesApart' /\ SlotsCounted'
    BY <2>1 DEF SourcesApart, PlanInv, SlotsCounted, planVars
  <2>3. HandedOn(at)' /\ Placing'
    BY <2>1 DEF HandedOn, Placing, planVars
  <2>4. (IF SourcesPlaced THEN placed = Before(at) ELSE placed \subseteq sources)'
    BY <2>1 DEF SourcesPlaced, Before, planVars
  <2> QED BY <2>1, <2>2, <2>3, <2>4 DEF PlanInv, planVars
<1>3. ASSUME NEW v \in Values, PlaceSource(v)
      PROVE  PlanInv'
  BY <1>3, PlaceSourceKeeps
<1>4. ASSUME NEW v \in Values, Release(v)
      PROVE  PlanInv'
  BY <1>4, ReleaseKeeps
<1>5. CASE AllocateOutput
  BY <1>5, AllocateKeeps
<1>6. CASE PlanReady
  <2>1. /\ phase = "plan" /\ phase' = "load" /\ at = count
        /\ UNCHANGED <<graphVars, planVars>> /\ SourcesPlaced
    BY <1>6 DEF PlanReady
  <2>2. placed = defined /\ HandedOn(count) /\ peak = nextSlot
    BY <2>1 DEF PlanInv, GraphInv, SlotsCounted
  <2>3. HandedOn(count)' /\ SourcesApart'
    BY <2>1, <2>2 DEF HandedOn, Before, graphVars, planVars, PlanInv, SourcesApart
  <2> QED BY <2>1, <2>2, <2>3 DEF PlanInv, graphVars, planVars
<1>7. CASE LoadSources \/ RunNode \/ Return \/ NextInvocation
  BY <1>7, PlanKept DEF LoadSources, RunNode, Return, NextInvocation
<1>8. CASE UNCHANGED vars
  BY <1>8 DEF vars, graphVars, planVars, PlanInv, SourcesApart, SlotsCounted, Placing,
              SourcesPlaced, Before, HandedOn
<1> QED BY <1>1, <1>2, <1>3, <1>4, <1>5, <1>6, <1>7, <1>8 DEF Next

-----------------------------------------------------------------------------
(* The executor                                                            *)

(* Storing a node's output overwrites no value a later node still reads. *)
LEMMA NextRun ==
  TypeOK /\ GraphInv /\ PlanInv /\ RunInv /\ [Next]_vars => RunInv'
<1> SUFFICES ASSUME TypeOK, GraphInv, PlanInv, RunInv, [Next]_vars, phase' = "run"
             PROVE  RunInv'
  BY DEF RunInv
<1>1. CASE LoadSources
  <2>1. /\ at' = 0 /\ UNCHANGED <<graphVars, planVars>> /\ phase = "load"
    BY <1>1 DEF LoadSources
  <2>2. Before(at)' = sources
    BY <2>1 DEF Before, graphVars
  <2>3. ASSUME NEW v \in sources PROVE memory'[slotOf[v]] = v
    <3>1. slotOf[v] \in 0..peak - 1 /\ v \in placed
      BY <2>1 DEF TypeOK, PlanInv
    <3>2. memory'[slotOf[v]] \in sources /\ slotOf[memory'[slotOf[v]]] = slotOf[v]
      BY <1>1, <3>1 DEF LoadSources
    <3> QED BY <2>1, <3>2 DEF PlanInv, SourcesApart, TypeOK
  <2> QED BY <2>1, <2>2, <2>3 DEF RunInv, planVars
<1>2. CASE RunNode
  <2> DEFINE w == writes[at]
  <2>1. /\ phase = "run" /\ at' = at + 1 /\ UNCHANGED <<graphVars, planVars>>
        /\ at \in 0..count - 1 /\ at \in Nat
        /\ memory' = [memory EXCEPT ![slotOf[w]] = w]
        /\ memory \in [0..peak - 1 -> Values \cup {Empty}]
    BY <1>2 DEF RunNode, TypeOK
  <2>2. Before(at)' = Before(at) \cup {w}
    <3>1. Before(at)' = Before(at + 1)
      BY <2>1 DEF Before, graphVars
    <3> QED BY <2>1, <3>1, BeforeNext
  <2>3. /\ w \in defined /\ Before(at) \subseteq defined /\ w \notin Before(at)
        /\ \A v \in defined : slotOf[v] \in 0..peak - 1
    BY <2>1 DEF GraphInv, Before, PlanInv, TypeOK
  <2>4. ASSUME NEW v \in Before(at), at + 1 <= lastUse[v] PROVE memory'[slotOf[v]] = v
    <3>1. lastUse[v] \in Nat
      BY <2>3 DEF TypeOK
    <3>2. slotOf[v] # slotOf[w]
      BY <2>1, <2>4, <3>1 DEF PlanInv, HandedOn
    <3>3. memory[slotOf[v]] = v
      BY <2>1, <2>4, <3>1 DEF RunInv
    <3> QED BY <2>1, <2>3, <3>2, <3>3
  <2>5. memory'[slotOf[w]] = w
    BY <2>1, <2>3
  <2> QED BY <2>1, <2>2, <2>4, <2>5 DEF RunInv, graphVars, planVars
<1>3. CASE UNCHANGED vars
  BY <1>3 DEF vars, RunInv, Before, graphVars, planVars
<1> QED
  BY <1>1, <1>2, <1>3
  DEF Next, CaptureNode, CloseGraph, PlaceSource, Release, AllocateOutput, PlanReady,
      Return, NextInvocation

-----------------------------------------------------------------------------
(* The size of the plan                                                    *)

(* Once the dead are released, the live values and the output of the node  *)
(* the loop is at are those whose intervals cover the node.                *)
LEMMA LiveNow ==
  ASSUME TypeOK, GraphInv, PlanInv, IntervalsStart,
         phase = "plan", SourcesPlaced, NothingDead
  PROVE  LiveAt(at) = live \cup IF at < count THEN {writes[at]} ELSE {}
<1>1. /\ placed = Before(at) /\ live \subseteq placed /\ placed \subseteq defined
      /\ at \in 0..count /\ count \in Nat /\ defined = Before(count)
      /\ \A v \in placed \ live : lastUse[v] < at
      /\ \A v \in live : ~ (lastUse[v] < at)
      /\ \A v \in defined : lastUse[v] \in Nat /\ defAt[v] \in Nat
  BY BoundAssumption DEF TypeOK, PlanInv, GraphInv, NothingDead, Dead
<1>2. ASSUME NEW v \in LiveAt(at), v \notin live
      PROVE  at < count /\ v = writes[at]
  <2>1. v \in Before(count) /\ v \notin Before(at) /\ defAt[v] <= at
    BY <1>1, <1>2 DEF LiveAt
  <2>2. PICK j \in 0..count - 1 : v = writes[j]
    BY <2>1 DEF Before
  <2>3. j = defAt[v] /\ j \notin 0..at - 1
    BY <2>1, <2>2 DEF Before, IntervalsStart
  <2> QED BY <1>1, <2>1, <2>2, <2>3
<1>3. ASSUME NEW v \in live
      PROVE  v \in LiveAt(at)
  <2>1. v \in Before(at)
    BY <1>1
  <2>2. defAt[v] <= at
    BY <1>1, <2>1 DEF Before, IntervalsStart
  <2> QED BY <1>1, <2>2 DEF LiveAt
<1>4. ASSUME at < count
      PROVE  writes[at] \in LiveAt(at)
  BY <1>1, <1>4 DEF LiveAt, IntervalsStart, Before
<1> QED BY <1>2, <1>3, <1>4

(* The sources are live at node 0; the values live at a node are finitely many. *)
LEMMA LiveSizes ==
  ASSUME TypeOK, GraphInv, IntervalsStart
  PROVE  /\ \A i : IsFiniteSet(LiveAt(i)) /\ Cardinality(LiveAt(i)) \in Nat
         /\ Cardinality(sources) \in Nat
         /\ Cardinality(sources) <= Cardinality(LiveAt(0))
<1>1. \A i : LiveAt(i) \subseteq defined
  BY DEF LiveAt
<1>2. sources \subseteq LiveAt(0)
  BY DEF LiveAt, IntervalsStart, TypeOK
<1> QED BY <1>1, <1>2, FS_Subset, FS_CardinalityType DEF IntervalsStart, TypeOK

(* The peak is what the busiest node needs. *)
LEMMA NextTight ==
  TypeOK /\ GraphInv /\ PlanInv /\ TightInv /\ [Next]_vars => TightInv'
<1> SUFFICES ASSUME TypeOK, GraphInv, PlanInv, TightInv, [Next]_vars PROVE TightInv'
  OBVIOUS
<1>1. ASSUME NEW R \in SUBSET defined, NEW v \in Values, CaptureNode(R, v)
      PROVE  TightInv'
  <2>1. /\ count \in Nat /\ count \in 0..MaxNodes /\ count' = count + 1 /\ phase' = "capture"
        /\ sources' = sources /\ defined' = defined \cup {v} /\ v \notin defined
        /\ writes'[count] = v /\ \A j \in 0..count - 1 : writes'[j] = writes[j]
        /\ defAt'[v] = count /\ \A u \in defined : defAt'[u] = defAt[u]
    BY <1>1, BoundAssumption DEF CaptureNode, TypeOK
  <2>2. /\ lastUse'[v] = count
        /\ \A u \in Values : lastUse'[u] = count \/ lastUse'[u] = lastUse[u]
    BY <1>1 DEF CaptureNode, UseAt
  <2>3. \A j \in 0..count - 1 : writes[j] \in defined /\ writes[j] \in Values
    BY DEF GraphInv, Before, TypeOK
  <2>4. ASSUME NEW i \in 0..count' - 1
        PROVE  defAt'[writes'[i]] = i /\ i <= lastUse'[writes'[i]]
    <3>1. CASE i = count
      BY <2>1, <2>2, <3>1
    <3>2. CASE i \in 0..count - 1
      BY <2>1, <2>2, <2>3, <3>2 DEF TightInv, IntervalsStart
    <3> QED BY <2>1, <3>1, <3>2
  <2>5. IsFiniteSet(defined') /\ \A u \in sources' : defAt'[u] = 0
    BY <2>1, FS_AddElement DEF TightInv, IntervalsStart, TypeOK
  <2> QED BY <2>1, <2>4, <2>5 DEF TightInv, IntervalsStart
<1>2. ASSUME NEW O \in SUBSET defined, CloseGraph(O)
      PROVE  TightInv'
  <2>1. /\ phase' = "plan" /\ at = 0 /\ placed = {} /\ live = {} /\ free = {} /\ count \in Nat
        /\ UNCHANGED <<sources, defined, writes, count, defAt, at, planVars>>
    BY <1>2, BoundAssumption DEF CloseGraph, PlanInv, TypeOK
  <2>2. \A u \in Values : lastUse'[u] = count \/ lastUse'[u] = lastUse[u]
    BY <1>2 DEF CloseGraph, HeldToTheEnd
  <2>3. \A j \in 0..count - 1 : writes[j] \in Values
    BY DEF GraphInv, Before, TypeOK
  <2>4. IntervalsStart'
    BY <2>1, <2>2, <2>3 DEF TightInv, IntervalsStart
  <2>5. ASSUME SourcesPlaced' PROVE PeakReached(at - 1)'
    <3>1. sources = {}
      BY <2>1, <2>5 DEF SourcesPlaced, planVars
    <3>2. Cardinality(sources) = 0 /\ peak = 0
      BY <1>2, <2>1, <3>1, FS_EmptySet DEF CloseGraph, PlanInv, SlotsCounted
    <3> QED BY <2>1, <3>2 DEF PeakReached, planVars
  <2> QED BY <2>1, <2>4, <2>5 DEF TightInv
<1>3. ASSUME NEW v \in Values, PlaceSource(v)
      PROVE  TightInv'
  <2>1. /\ phase' = "plan" /\ UNCHANGED <<graphVars, at>> /\ at = 0
        /\ live = placed /\ placed \subseteq sources /\ v \in sources
        /\ live' = live \cup {v} /\ placed' = placed \cup {v} /\ peak' = Cardinality(live')
    BY <1>3 DEF PlaceSource, Assign, PlanInv, Placing, SourcesPlaced
  <2>2. IntervalsStart'
    BY <2>1 DEF TightInv, IntervalsStart, graphVars
  <2>3. ASSUME SourcesPlaced' PROVE PeakReached(at - 1)'
    <3>1. live' = sources
      BY <2>1, <2>3 DEF SourcesPlaced, graphVars
    <3>2. Cardinality(sources) \in Nat
      BY LiveSizes DEF TightInv
    <3> QED BY <2>1, <3>1, <3>2 DEF PeakReached, graphVars
  <2> QED BY <2>1, <2>2, <2>3 DEF TightInv
<1>4. ASSUME NEW v \in Values, Release(v)
      PROVE  TightInv'
  BY <1>4 DEF Release, TightInv, IntervalsStart, PeakReached, LiveAt, graphVars, SourcesPlaced
<1>5. CASE AllocateOutput
  <2>1. /\ phase = "plan" /\ phase' = "plan" /\ SourcesPlaced /\ NothingDead
        /\ at < count /\ at \in Nat /\ at' = at + 1
        /\ UNCHANGED graphVars /\ live' = live \cup {writes[at]} /\ peak' = PeakAfter(peak)
    BY <1>5, BoundAssumption DEF AllocateOutput, Assign, TypeOK
  <2>2. LiveAt(at) = live'
    BY <2>1, LiveNow DEF TightInv
  <2>3. /\ \A i : Cardinality(LiveAt(i)) \in Nat
        /\ Cardinality(live') \in Nat /\ Cardinality(sources) \in Nat /\ peak \in Nat
    BY <2>2, LiveSizes DEF TightInv, TypeOK
  <2>4. PeakReached(at - 1)
    BY <2>1 DEF TightInv
  <2>5. PICK n \in Nat : n = at
    BY <2>1
  <2>6. \A i \in 0..n : i \in 0..n - 1 \/ i = at
    BY <2>5
  <2>7. /\ peak <= peak' /\ Cardinality(live') <= peak' /\ peak' \in Nat
        /\ peak' = peak \/ peak' = Cardinality(live')
    BY <2>1, <2>3 DEF PeakAfter
  <2>8. /\ Cardinality(sources) <= peak'
        /\ \A i \in 0..n : Cardinality(LiveAt(i)) <= peak'
        /\ peak' # Cardinality(sources) => \E i \in 0..n : Cardinality(LiveAt(i)) = peak'
    <3>1. \A i \in 0..n - 1 : Cardinality(LiveAt(i)) <= peak
      BY <2>4, <2>5 DEF PeakReached
    <3>2. \A i \in 0..n : Cardinality(LiveAt(i)) <= peak'
      BY <2>2, <2>3, <2>6, <2>7, <3>1
    <3>3. CASE peak' = peak
      BY <2>4, <2>5, <2>7, <3>2, <3>3 DEF PeakReached
    <3>4. CASE peak' = Cardinality(live')
      BY <2>2, <2>3, <2>4, <2>5, <2>7, <3>2, <3>4 DEF PeakReached
    <3> QED BY <2>7, <3>3, <3>4
  <2>9. PeakReached(n)'
    BY <2>1, <2>8 DEF PeakReached, LiveAt, graphVars
  <2>10. PeakReached(at - 1)'
    BY <2>1, <2>5, <2>9 DEF PeakReached
  <2> QED BY <2>1, <2>10 DEF TightInv, IntervalsStart, graphVars
<1>6. CASE PlanReady
  <2>1. /\ phase = "plan" /\ phase' = "load" /\ SourcesPlaced /\ NothingDead
        /\ at = count /\ count \in Nat /\ UNCHANGED <<graphVars, planVars>>
    BY <1>6, BoundAssumption DEF PlanReady, TypeOK
  <2>2. LiveAt(count) = live
    BY <2>1, LiveNow DEF TightInv
  <2>3. Cardinality(LiveAt(count)) <= peak
    BY <2>1, <2>2, FS_CardinalityType DEF PlanInv, SlotsCounted
  <2>4. PeakReached(count)
    BY <2>1, <2>3 DEF TightInv, PeakReached
  <2>5. PeakReached(count)'
    BY <2>1, <2>4 DEF PeakReached, LiveAt, graphVars, planVars
  <2> QED BY <2>1, <2>5 DEF TightInv, IntervalsStart, graphVars
<1>7. CASE LoadSources \/ RunNode \/ Return \/ NextInvocation
  <2>1. /\ phase \notin {"capture", "plan"} /\ phase' \notin {"capture", "plan"}
        /\ UNCHANGED <<graphVars, planVars>>
    BY <1>7 DEF LoadSources, RunNode, Return, NextInvocation
  <2>2. PeakReached(count)'
    BY <2>1 DEF TightInv, PeakReached, LiveAt, graphVars, planVars
  <2> QED BY <2>1, <2>2 DEF TightInv, IntervalsStart, graphVars
<1>8. CASE UNCHANGED vars
  BY <1>8 DEF vars, graphVars, planVars, TightInv, IntervalsStart, PeakReached, LiveAt, SourcesPlaced
<1> QED BY <1>1, <1>2, <1>3, <1>4, <1>5, <1>6, <1>7, <1>8 DEF Next

(* The invariant is inductive. *)
LEMMA Inductive == Spec => []IInv
<1>1. Init => IInv
  <2> SUFFICES ASSUME Init PROVE IInv
    OBVIOUS
  <2>1. TypeOK
    BY InitTyped
  <2>2. GraphInv /\ RunInv
    BY DEF Init, GraphInv, RunInv, Before
  <2>3. PlanInv
    BY FS_EmptySet DEF Init, PlanInv, SourcesApart, SlotsCounted
  <2>4. TightInv
    BY FS_Subset DEF Init, TightInv, IntervalsStart
  <2> QED BY <2>1, <2>2, <2>3, <2>4 DEF IInv
<1>2. IInv /\ [Next]_vars => IInv'
  BY NextTyped, NextGraph, NextPlan, NextRun, NextTight DEF IInv
<1> QED BY <1>1, <1>2, PTL DEF Spec

-----------------------------------------------------------------------------
(* Theorems                                                                *)

(* Every variable has its type in every reachable state. *)
THEOREM Typed == Spec => []TypeOK
<1>1. IInv => TypeOK
  BY DEF IInv
<1> QED BY <1>1, Inductive, PTL

(* Whatever the graph, and whichever free slot the planner hands out, a    *)
(* node and the caller read from a value's slot that very value, and no    *)
(* slot is outside the executor's array.                                   *)
THEOREM ReuseIsInvisible == Spec => []ReadsItsOwn
<1>1. IInv => ReadsItsOwn
  <2> SUFFICES ASSUME IInv, phase = "run",
                      NEW v \in IF at < count THEN reads[at] ELSE results
               PROVE  slotOf[v] < peak /\ memory[slotOf[v]] = v
    BY DEF ReadsItsOwn
  <2>1. at \in 0..count /\ count \in Nat
    BY BoundAssumption DEF IInv, TypeOK
  <2>2. v \in Before(at) /\ at <= lastUse[v]
    <3>1. CASE at < count
      BY <2>1, <3>1 DEF IInv, GraphInv
    <3>2. CASE at = count
      BY <2>1, <3>2 DEF IInv, GraphInv, TypeOK
    <3> QED BY <2>1, <3>1, <3>2
  <2>3. v \in placed /\ peak = nextSlot
    BY <2>1, <2>2 DEF IInv, GraphInv, PlanInv, Before
  <2> QED BY <2>2, <2>3 DEF IInv, RunInv, PlanInv
<1> QED BY <1>1, Inductive, PTL

(* The plan has exactly as many slots as the busiest node has live values: *)
(* no plan that keeps overlapping intervals apart has fewer.               *)
THEOREM TightPlan == Spec => []PlanIsTight
<1>1. IInv => PlanIsTight
  <2> SUFFICES ASSUME IInv, phase = "load" PROVE PlanIsTight
    BY DEF PlanIsTight
  <2>1. /\ PeakReached(count) /\ peak = nextSlot /\ placed = defined /\ count \in Nat
        /\ peak \in Nat /\ \A v \in placed : slotOf[v] < nextSlot
    BY BoundAssumption DEF IInv, TypeOK, TightInv, PlanInv
  <2>2. /\ Cardinality(sources) <= Cardinality(LiveAt(0)) /\ Cardinality(sources) \in Nat
        /\ Cardinality(LiveAt(0)) \in Nat
    BY LiveSizes DEF IInv, TightInv
  <2>3. \E i \in 0..count : Cardinality(LiveAt(i)) = peak
    BY <2>1, <2>2 DEF PeakReached
  <2> QED BY <2>1, <2>3 DEF PeakReached, PlanIsTight
<1> QED BY <1>1, Inductive, PTL
=============================================================================
