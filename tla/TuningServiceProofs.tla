------------------------ MODULE TuningServiceProofs ------------------------
(***************************************************************************)
(* Proofs about the lease protocol of TuningService, for any number of     *)
(* callers, keys, candidates and legal sets, and any budgets and bounds.   *)
(***************************************************************************)
EXTENDS TuningService, FiniteSetTheorems, TLAPS

----------------------------------------------------------------------------
(* Types of the constants and helpers the actions are built from.          *)

LEMMA AnyRequestType == AnyRequest \in Request
<1>. DEFINE Fresh == [key: Keys, legal: LegalSets, heuristic: Candidates,
                      budget: TimeBudgets, deadline: {0}]
<1>1. Fresh # {}
  <2>1. PICK k \in Keys, l \in LegalSets, h \in Candidates, b \in TimeBudgets : TRUE
    BY NonEmptyAssumption
  <2>2. [key |-> k, legal |-> l, heuristic |-> h, budget |-> b, deadline |-> 0] \in Fresh
    BY <2>1
  <2>. QED  BY <2>2
<1>2. AnyRequest \in Fresh
  BY <1>1 DEF AnyRequest
<1>. QED  BY <1>2 DEF Request

LEMMA ConstantTypes ==
  /\ NoLease \in Lease /\ NoPermit \in Lease
  /\ NoResult \in Record
  /\ NoEntry \in Entry
  /\ Awake \in Sleep
  /\ NoReply \in Reply
<1>1. NoLease \in Lease /\ NoPermit \in Lease
  BY DEF NoLease, NoPermit, Lease
<1>2. NoResult \in Record
  BY DEF NoResult, Record
<1>3. NoEntry \in Entry
  BY DEF NoEntry, Entry
<1>4. Awake \in Sleep
  BY DEF Awake, Sleep
<1>5. NoReply \in Reply
  BY DEF NoReply, Reply, Outcomes
<1>. QED  BY <1>1, <1>2, <1>3, <1>4, <1>5

LEMMA NotifyAllType == TypeOK => NotifyAll \in [Callers -> Sleep]
BY DEF TypeOK, NotifyAll, Sleep

----------------------------------------------------------------------------
(* Type correctness.                                                       *)

LEMMA TypeInit == Init => TypeOK
<1>. SUFFICES ASSUME Init PROVE TypeOK
  OBVIOUS
<1>. USE DEF Init
<1>1. nextEpoch \in Nat \ {0} /\ now \in Nat /\ policy \in Policies /\ participants \in Topologies /\ attached \in BOOLEAN
  OBVIOUS
<1>2. /\ lease \in [Keys -> Lease]
      /\ results \in [Keys -> [LegalSets -> Record]]
      /\ permit \in [Callers -> Lease]
      /\ sleep \in [Callers -> Sleep]
      /\ reply \in Reply
  BY ConstantTypes
<1>3. cache \in [Keys -> Entry]
  <2>1. {record \in Imported : attached} \subseteq Entry
    BY ImportedAssumption DEF Entry
  <2>. QED  BY <2>1, ConstantTypes
<1>4. pc \in [Callers -> Labels] /\ ballots \subseteq Ballot
  BY DEF Labels
<1>5. req \in [Callers -> Request]
  BY AnyRequestType
<1>6. choice \in [Callers -> Candidates \cup {None}]
  OBVIOUS
<1>. QED  BY <1>1, <1>2, <1>3, <1>4, <1>5, <1>6 DEF TypeOK

\* Return is the only way an action writes `reply`, and resets `req`.
LEMMA ReturnType ==
  ASSUME TypeOK, NEW c \in Callers, NEW outcome \in Outcomes,
         NEW candidate \in Candidates \cup {None}, NEW legal \in LegalSets \cup {{}},
         Return(c, outcome, candidate, legal)
  PROVE  pc' \in [Callers -> Labels] /\ req' \in [Callers -> Request]
         /\ reply' \in Reply
<1>1. [outcome |-> outcome, candidate |-> candidate, legal |-> legal] \in Reply
  BY DEF Reply
<1>2. "idle" \in Labels
  BY DEF Labels
<1>. QED  BY <1>1, <1>2, AnyRequestType DEF TypeOK, Return, Goto

LEMMA LabelTypes ==
  {"results", "cache", "loop", "waiting", "woken", "check", "persist", "publish",
   "measuring", "release", "notifyCommit", "notifyRelease"} \subseteq Labels
BY DEF Labels, Deciding, Finishing, Holding, Notifying

LEMMA RequestBudget ==
  ASSUME TypeOK, NEW c \in Callers
  PROVE  req[c].budget \in Nat /\ req[c].deadline \in Nat
<1>1. req[c] \in Request /\ TimeBudgets \subseteq Nat
  BY BudgetAssumption DEF TypeOK
<1>2. req[c].budget \in TimeBudgets /\ req[c].deadline \in Nat
  BY <1>1 DEF Request
<1>. QED  BY <1>1, <1>2

LEMMA OutcomeTypes ==
  CachedSource \in Outcomes
BY DEF CachedSource, Outcomes

\* However the votes are counted, commit_coordinated finishes or refuses.
LEMMA CoordinatedFinish ==
  ASSUME NEW c \in Callers, CommitCoordinated(c)
  PROVE  \E candidate \in Candidates :
           StartFinish(c, candidate) \/ (Refuse(c) /\ UNCHANGED choice)
<1>1. PICK candidate \in Candidates, n \in 1..Cardinality(participants) :
        \E votes \in [1..n -> ballots] :
          IF Unanimous(votes, permit[c].epoch, candidate)
          THEN StartFinish(c, candidate)
          ELSE Refuse(c) /\ UNCHANGED choice
  BY Zenon DEF CommitCoordinated
<1>2. PICK votes \in [1..n -> ballots] :
        IF Unanimous(votes, permit[c].epoch, candidate)
        THEN StartFinish(c, candidate)
        ELSE Refuse(c) /\ UNCHANGED choice
  BY <1>1
<1>3. StartFinish(c, candidate) \/ (Refuse(c) /\ UNCHANGED choice)
  BY <1>2
<1>. QED  BY <1>3

LEMMA CollectiveFinish ==
  ASSUME NEW c \in Callers, CommitCollective(c)
  PROVE  \E candidate \in Candidates :
           StartFinish(c, candidate) \/ (Refuse(c) /\ UNCHANGED choice)
BY DEF CommitCollective

LEMMA TypeNext == TypeOK /\ [Next]_vars => TypeOK'
<1>. SUFFICES ASSUME TypeOK, [Next]_vars PROVE TypeOK'
  OBVIOUS
<1>. USE LabelTypes, ConstantTypes
<1>1. CASE UNCHANGED vars
  BY <1>1 DEF TypeOK, vars, serviceVars, leaseVars
<1>2. CASE Tick
  BY <1>2 DEF TypeOK, Tick, serviceVars, leaseVars
<1>3. ASSUME NEW r \in Ranks, Vote(r) \/ VoteCollective(r) PROVE TypeOK'
  <2>1. \E e \in Nat, candidate \in Candidates :
          ballots' = ballots \cup {[rank |-> r, epoch |-> e, candidate |-> candidate]}
    BY <1>3 DEF Vote, VoteCollective, NoEpoch, TypeOK, Lease
  <2>2. ballots' \subseteq Ballot
    BY <2>1 DEF TypeOK, Ballot
  <2>. QED  BY <1>3, <2>2 DEF TypeOK, Vote, VoteCollective, serviceVars, leaseVars
<1>4. ASSUME NEW c \in Callers, Step(c) PROVE TypeOK'
  <2>. USE DEF serviceVars, leaseVars
  <2>1. CASE Decide(c)
    <3>1. PICK k \in Keys, legal \in LegalSets, budget \in TimeBudgets,
               fallback \in Candidates, heuristic \in Candidates :
            \/ Return(c, "IllegalDeclaration", None, {})
            \/ Return(c, "Disabled", fallback, legal)
            \/ Return(c, "Heuristic", heuristic, legal)
            \/ /\ req' = [req EXCEPT ![c] =
                   [key |-> k, legal |-> legal, budget |-> budget, deadline |-> 0,
                    heuristic |-> IF policy = "ProfileGuided" THEN heuristic
                                  ELSE AnyRequest.heuristic]]
               /\ Goto(c, "results")
               /\ reply' = NoReply
      BY <2>1 DEF Decide, Fail
    <3>2. pc' \in [Callers -> Labels] /\ req' \in [Callers -> Request]
          /\ reply' \in Reply
      <4>1. CASE Return(c, "IllegalDeclaration", None, {})
        BY <4>1, ReturnType DEF Outcomes
      <4>2. CASE Return(c, "Disabled", fallback, legal)
        BY <4>2, ReturnType DEF Outcomes
      <4>3. CASE Return(c, "Heuristic", heuristic, legal)
        BY <4>3, ReturnType DEF Outcomes
      <4>4. CASE Goto(c, "results")
                 /\ reply' = NoReply
                 /\ req' = [req EXCEPT ![c] =
                      [key |-> k, legal |-> legal, budget |-> budget, deadline |-> 0,
                       heuristic |-> IF policy = "ProfileGuided" THEN heuristic
                                     ELSE AnyRequest.heuristic]]
        <5>1. [key |-> k, legal |-> legal, budget |-> budget, deadline |-> 0,
               heuristic |-> IF policy = "ProfileGuided" THEN heuristic
                             ELSE AnyRequest.heuristic] \in Request
          BY AnyRequestType, BudgetAssumption DEF Request
        <5>. QED  BY <4>4, <5>1 DEF TypeOK, Goto
      <4>. QED  BY <3>1, <4>1, <4>2, <4>3, <4>4
    <3>. QED  BY <2>1, <3>2 DEF TypeOK, Decide
  <2>2. CASE LookupResults(c)
    <3>1. CASE Goto(c, "cache") /\ UNCHANGED <<req, reply>>
      BY <2>2, <3>1 DEF TypeOK, LookupResults, Goto
    <3>2. ASSUME Return(c, CachedSource, results[Key(c)][Legal(c)].winner, Legal(c))
          PROVE  TypeOK'
      <4>1. results[Key(c)][Legal(c)].winner \in Candidates \cup {None}
            /\ Legal(c) \in LegalSets \cup {{}} /\ CachedSource \in Outcomes
        BY OutcomeTypes DEF TypeOK, Key, Legal, Request, Record
      <4>2. pc' \in [Callers -> Labels] /\ req' \in [Callers -> Request]
            /\ reply' \in Reply
        BY <3>2, <4>1, ReturnType
      <4>. QED  BY <2>2, <4>2 DEF TypeOK, LookupResults
    <3>. QED  BY <2>2, <3>1, <3>2 DEF LookupResults
  <2>3. CASE LookupCache(c)
    <3>1. CASE Goto(c, "loop")
               /\ req' = [req EXCEPT ![c].deadline = now + req[c].budget]
               /\ UNCHANGED reply
      <4>1. req[c] \in Request /\ now + req[c].budget \in Nat
        BY RequestBudget DEF TypeOK
      <4>2. [req[c] EXCEPT !.deadline = now + req[c].budget] \in Request
        BY <4>1 DEF Request
      <4>3. req' \in [Callers -> Request]
        BY <3>1, <4>2 DEF TypeOK
      <4>. QED  BY <2>3, <3>1, <4>3 DEF TypeOK, LookupCache, Goto
    <3>2. ASSUME NEW outcome \in Outcomes, NEW w \in Candidates \cup {None},
                 Return(c, outcome, w, Legal(c))
          PROVE  TypeOK'
      <4>1. Legal(c) \in LegalSets \cup {{}}
        BY DEF TypeOK, Legal, Request
      <4>2. pc' \in [Callers -> Labels] /\ req' \in [Callers -> Request]
            /\ reply' \in Reply
        BY <3>2, <4>1, ReturnType
      <4>. QED  BY <2>3, <4>2 DEF TypeOK, LookupCache
    <3>3. /\ cache[Key(c)].winner \in Candidates \cup {None}
          /\ req[c].heuristic \in Candidates \cup {None}
          /\ CachedSource \in Outcomes /\ "Heuristic" \in Outcomes
      BY OutcomeTypes DEF TypeOK, Key, Request, Entry, Outcomes
    <3>. QED  BY <2>3, <3>1, <3>2, <3>3 DEF LookupCache
  <2>4. CASE LoopFindsResult(c)
    <3>1. /\ results[Key(c)][Legal(c)].winner \in Candidates \cup {None}
          /\ Legal(c) \in LegalSets \cup {{}} /\ "WarmupCache" \in Outcomes
      BY DEF TypeOK, Key, Legal, Request, Record, Outcomes
    <3>2. pc' \in [Callers -> Labels] /\ req' \in [Callers -> Request]
          /\ reply' \in Reply
      BY <2>4, <3>1, ReturnType DEF LoopFindsResult
    <3>. QED  BY <2>4, <3>2 DEF TypeOK, LoopFindsResult
  <2>5. CASE LoopWaits(c)
    <3>1. MinOf(lease[Key(c)].deadline, req[c].deadline) \in Nat
      BY DEF TypeOK, Key, Request, Lease, MinOf
    <3>2. [Awake EXCEPT !.wakeAt = MinOf(lease[Key(c)].deadline, req[c].deadline)] \in Sleep
      BY <3>1 DEF Awake, Sleep
    <3>. QED  BY <2>5, <3>2 DEF TypeOK, LoopWaits, Goto
  <2>6. CASE WaitTimeout(c)
    <3>1. pc' \in [Callers -> Labels] /\ req' \in [Callers -> Request]
          /\ reply' \in Reply
      BY <2>6, ReturnType DEF WaitTimeout, Fail, Outcomes
    <3>. QED  BY <2>6, <3>1 DEF TypeOK, WaitTimeout
  <2>7. CASE LoopLeases(c)
    <3>. DEFINE mine == [epoch |-> nextEpoch,
                         deadline |-> now + MinOf(PolicyBudget, req[c].budget)]
    <3>1. mine \in Lease
      <4>1. MinOf(PolicyBudget, req[c].budget) \in Nat
        BY BudgetAssumption, RequestBudget DEF MinOf
      <4>. QED  BY <4>1 DEF TypeOK, Lease
    <3>2. lease' = [lease EXCEPT ![Key(c)] = mine] /\ permit' = [permit EXCEPT ![c] = mine]
      BY <2>7 DEF LoopLeases
    <3>3. lease' \in [Keys -> Lease] /\ permit' \in [Callers -> Lease]
      BY <3>1, <3>2 DEF TypeOK
    <3>4. nextEpoch' \in Nat \ {0}
      BY <2>7 DEF TypeOK, LoopLeases
    <3>5. sleep' \in [Callers -> Sleep]
      BY <2>7, NotifyAllType DEF TypeOK, LoopLeases
    <3>. QED  BY <2>7, <3>3, <3>4, <3>5 DEF TypeOK, LoopLeases, Goto
  <2>8. CASE Wake(c)
    <3>1. sleep' \in [Callers -> Sleep]
      BY <2>8 DEF TypeOK, Wake, Sleep
    <3>. QED  BY <2>8, <3>1 DEF TypeOK, Wake, Goto
  <2>9. CASE SpuriousWake(c)
    BY <2>9 DEF TypeOK, SpuriousWake, Goto
  <2>10. CASE CommitLocal(c)
    BY <2>10 DEF TypeOK, CommitLocal, StartFinish, Refuse, Goto
  <2>11. CASE CommitCoordinated(c) \/ CommitCollective(c)
    <3>1. PICK candidate \in Candidates :
            StartFinish(c, candidate) \/ (Refuse(c) /\ UNCHANGED choice)
      BY <2>11, CoordinatedFinish, CollectiveFinish
    <3>2. pc' \in [Callers -> Labels] /\ choice' \in [Callers -> Candidates \cup {None}]
      BY <3>1 DEF TypeOK, StartFinish, Refuse, Goto
    <3>. QED  BY <2>11, <3>2 DEF TypeOK, CommitCoordinated, CommitCollective
  <2>12. CASE CheckActive(c) \/ Cancel(c)
    BY <2>12 DEF TypeOK, CheckActive, Cancel, Refuse, Goto
  <2>13. CASE Persist(c)
    <3>1. [legal |-> Legal(c), winner |-> choice[c]] \in Entry
      BY DEF TypeOK, Legal, Request, Entry
    <3>. QED  BY <2>13, <3>1 DEF TypeOK, Persist, Refuse, Goto
  <2>14. CASE Publish(c)
    <3>1. [winner |-> choice[c], epoch |-> permit[c].epoch] \in Record
      BY DEF TypeOK, Lease, Record
    <3>2. lease' \in [Keys -> Lease]
      BY <2>14 DEF TypeOK, Publish
    <3>3. Key(c) \in Keys /\ Legal(c) \in LegalSets
      BY DEF TypeOK, Key, Legal, Request
    <3>4. results' \in [Keys -> [LegalSets -> Record]]
      <4>1. CASE UNCHANGED results
        BY <4>1 DEF TypeOK
      <4>2. CASE results' = [results EXCEPT ![Key(c)][Legal(c)] =
                               [winner |-> choice[c], epoch |-> permit[c].epoch]]
        <5>1. [results[Key(c)] EXCEPT ![Legal(c)] =
                 [winner |-> choice[c], epoch |-> permit[c].epoch]] \in [LegalSets -> Record]
          BY <3>1, <3>3 DEF TypeOK
        <5>. QED  BY <4>2, <5>1, <3>3 DEF TypeOK
      <4>. QED  BY <2>14, <4>1, <4>2 DEF Publish
    <3>. QED  BY <2>14, <3>2, <3>4 DEF TypeOK, Publish, Refuse, Goto
  <2>15. CASE Release(c)
    BY <2>15 DEF TypeOK, Release, Goto
  <2>16. CASE NotifyCommit(c)
    <3>1. choice[c] \in Candidates \cup {None} /\ Legal(c) \in LegalSets \cup {{}}
          /\ "Measurement" \in Outcomes
      BY DEF TypeOK, Legal, Request, Outcomes
    <3>2. pc' \in [Callers -> Labels] /\ req' \in [Callers -> Request]
          /\ reply' \in Reply
      BY <2>16, <3>1, ReturnType DEF NotifyCommit
    <3>. QED  BY <2>16, <3>2, NotifyAllType DEF TypeOK, NotifyCommit, DropPermit
  <2>17. CASE NotifyRelease(c)
    <3>1. pc' \in [Callers -> Labels] /\ req' \in [Callers -> Request]
          /\ reply' \in Reply
      BY <2>17, ReturnType DEF NotifyRelease, Fail, Outcomes
    <3>. QED  BY <2>17, <3>1, NotifyAllType DEF TypeOK, NotifyRelease, DropPermit
  <2>. QED  BY <1>4, <2>1, <2>2, <2>3, <2>4, <2>5, <2>6, <2>7, <2>8, <2>9, <2>10, <2>11,
               <2>12, <2>13, <2>14, <2>15, <2>16, <2>17 DEF Step, Serve
<1>. QED  BY <1>1, <1>2, <1>3, <1>4 DEF Next

\* Every reachable state of the service is well typed.
THEOREM TypeCorrect == Spec => []TypeOK
BY TypeInit, TypeNext, PTL DEF Spec

----------------------------------------------------------------------------
(* Single flight.                                                          *)
(*                                                                         *)
(* That two permits for a key do not overlap is not inductive: it needs to *)
(* know why a permit within its deadline still owns the lease.  The        *)
(* strengthening: epochs are handed out once, so two holders never have    *)
(* the same one, and a holder whose deadline has not come is the one the   *)
(* lease table names, with the same deadline.                              *)

\* Every epoch in use has been handed out, and next_epoch is ahead of all.
EpochsIssued ==
  /\ \A k \in Keys : lease[k].epoch < nextEpoch
  /\ \A c \in Callers : pc[c] \in Holding => permit[c].epoch \in 1..(nextEpoch - 1)

EpochsDistinct ==
  \A c, d \in Callers :
    c # d /\ {pc[c], pc[d]} \subseteq Holding => permit[c].epoch # permit[d].epoch

UnexpiredOwns ==
  \A c \in Callers :
    pc[c] \in Holding /\ now < permit[c].deadline => lease[Key(c)] = permit[c]

\* A holder that still owns its key's lease has a problem nobody has settled.
OwnerUnsettled ==
  \A c \in Callers :
    pc[c] \in Holding /\ Active(c) => results[Key(c)][Legal(c)] = NoResult

\* What is recorded as a result names a winner of its legal set.
ResultsUsable ==
  \A k \in Keys, l \in LegalSets :
    results[k][l] # NoResult => Usable(results[k][l].winner, l)

ChoiceLegal ==
  \A c \in Callers : pc[c] \in Finishing => choice[c] \in Legal(c)

LeaseInv ==
  /\ TypeOK
  /\ EpochsIssued
  /\ EpochsDistinct
  /\ UnexpiredOwns
  /\ OwnerUnsettled
  /\ ResultsUsable
  /\ ChoiceLegal

LEMMA LeaseInit == Init => LeaseInv
<1>. SUFFICES ASSUME Init PROVE LeaseInv
  OBVIOUS
<1>1. TypeOK
  BY TypeInit
<1>2. \A c \in Callers : pc[c] \notin Holding
  BY DEF Init, Holding, Finishing
<1>3. \A c \in Callers : pc[c] \notin Finishing
  BY DEF Init, Finishing
<1>4. EpochsIssued
  BY <1>2 DEF Init, EpochsIssued, NoLease
<1>5. ResultsUsable
  BY DEF Init, ResultsUsable
<1>. QED  BY <1>1, <1>2, <1>3, <1>4, <1>5
     DEF LeaseInv, EpochsDistinct, UnexpiredOwns, OwnerUnsettled, ChoiceLegal

\* A step that leaves the tables alone and lets nobody become a holder keeps the
\* invariant; time may pass.
LEMMA QuietStep ==
  ASSUME LeaseInv, TypeOK', now' \in {now, now + 1},
         UNCHANGED <<lease, results, nextEpoch>>,
         \A c \in Callers : pc'[c] \in Holding =>
           pc[c] \in Holding /\ permit'[c] = permit[c] /\ req'[c] = req[c],
         \A c \in Callers : pc'[c] \in Finishing =>
           pc'[c] \in Holding /\ choice'[c] \in Legal(c)
  PROVE  LeaseInv'
<1>. USE DEF LeaseInv
<1>1. EpochsIssued'
  BY DEF EpochsIssued
<1>2. EpochsDistinct'
  BY DEF EpochsDistinct
<1>3. UnexpiredOwns'
  <2>. SUFFICES ASSUME NEW c \in Callers, pc'[c] \in Holding, now' < permit'[c].deadline
                PROVE  lease'[Key(c)'] = permit'[c]
    BY DEF UnexpiredOwns
  <2>1. now < permit[c].deadline
    BY DEF TypeOK, Lease
  <2>. QED  BY <2>1 DEF UnexpiredOwns, Key
<1>4. OwnerUnsettled'
  BY DEF OwnerUnsettled, Active, Key, Legal
<1>5. ResultsUsable'
  BY DEF ResultsUsable
<1>6. ChoiceLegal'
  BY DEF ChoiceLegal, Legal
<1>. QED  BY <1>1, <1>2, <1>3, <1>4, <1>5, <1>6

\* Taking the lease: the epoch is new, and the key had no unexpired holder.
LEMMA LeasesStep ==
  ASSUME LeaseInv, TypeOK', NEW c \in Callers, LoopLeases(c)
  PROVE  LeaseInv'
<1>. DEFINE k == Key(c)
            mine == [epoch |-> nextEpoch,
                     deadline |-> now + MinOf(PolicyBudget, req[c].budget)]
<1>. USE DEF LeaseInv
<1>1. /\ lease' = [lease EXCEPT ![k] = mine]
      /\ permit' = [permit EXCEPT ![c] = mine]
      /\ pc' = [pc EXCEPT ![c] = "measuring"]
      /\ nextEpoch' = nextEpoch + 1
      /\ UNCHANGED <<now, results, req, choice>>
      /\ ~Held(k) /\ ~Usable(results[k][Legal(c)].winner, Legal(c))
  BY DEF LoopLeases, Goto, serviceVars
<1>2. k \in Keys /\ Legal(c) \in LegalSets
  BY DEF TypeOK, Key, Legal, Request
<1>3. /\ lease'[k] = mine /\ permit'[c] = mine
      /\ \A j \in Keys : j # k => lease'[j] = lease[j]
      /\ \A d \in Callers : d # c => permit'[d] = permit[d] /\ pc'[d] = pc[d]
      /\ pc'[c] = "measuring" /\ pc[c] \notin Holding
  BY <1>1, <1>2 DEF TypeOK, LoopLeases, InLoop, Holding, Finishing
<1>4. EpochsIssued'
  <2>1. \A j \in Keys : lease'[j].epoch < nextEpoch'
    BY <1>1, <1>3 DEF EpochsIssued, TypeOK, Lease
  <2>2. \A d \in Callers : pc'[d] \in Holding => permit'[d].epoch \in 1..(nextEpoch' - 1)
    BY <1>1, <1>3 DEF EpochsIssued, TypeOK, Lease
  <2>. QED  BY <2>1, <2>2 DEF EpochsIssued
<1>5. EpochsDistinct'
  <2>1. \A d \in Callers : d # c /\ pc'[d] \in Holding => permit'[d].epoch # permit'[c].epoch
    BY <1>1, <1>3 DEF EpochsIssued, TypeOK
  <2>. QED  BY <1>3, <2>1 DEF EpochsDistinct
<1>6. UnexpiredOwns'
  <2>. SUFFICES ASSUME NEW d \in Callers, pc'[d] \in Holding, now' < permit'[d].deadline
                PROVE  lease'[Key(d)'] = permit'[d]
    BY DEF UnexpiredOwns
  <2>0. Key(d)' = Key(d) /\ Key(d) \in Keys
    BY <1>1 DEF Key, TypeOK, Request
  <2>1. CASE d = c
    BY <1>3, <2>0, <2>1
  <2>2. CASE d # c
    <3>1. lease[Key(d)] = permit[d]
      BY <1>1, <1>3, <2>2 DEF UnexpiredOwns
    <3>2. Key(d) # k
      <4>. SUFFICES ASSUME Key(d) = k PROVE FALSE
        OBVIOUS
      <4>1. permit[d].epoch \in 1..(nextEpoch - 1)
        BY <1>3, <2>2 DEF EpochsIssued
      <4>2. lease[k] # NoLease
        BY <3>1, <4>1 DEF NoLease
      <4>3. now < lease[k].deadline
        BY <1>1, <1>3, <2>2, <3>1
      <4>. QED  BY <1>1, <4>2, <4>3 DEF Held
    <3>. QED  BY <1>3, <2>0, <2>2, <3>1, <3>2
  <2>. QED  BY <2>1, <2>2
<1>7. OwnerUnsettled'
  <2>. SUFFICES ASSUME NEW d \in Callers, pc'[d] \in Holding, Active(d)'
                PROVE  results'[Key(d)'][Legal(d)'] = NoResult
    BY DEF OwnerUnsettled
  <2>0. Key(d)' = Key(d) /\ Key(d) \in Keys /\ Legal(d)' = Legal(d)
    BY <1>1 DEF Key, Legal, TypeOK, Request
  <2>1. CASE d = c
    <3>1. results[k][Legal(c)] = NoResult
      BY <1>1, <1>2 DEF ResultsUsable
    <3>. QED  BY <1>1, <2>0, <2>1, <3>1
  <2>2. CASE d # c
    <3>1. permit[d].epoch \in 1..(nextEpoch - 1)
      BY <1>3, <2>2 DEF EpochsIssued
    <3>2. Key(d) # k
      BY <1>3, <2>0, <2>2, <3>1 DEF Active, TypeOK
    <3>3. Active(d)
      BY <1>3, <2>0, <2>2, <3>2 DEF Active
    <3>. QED  BY <1>1, <1>3, <2>0, <2>2, <3>3 DEF OwnerUnsettled
  <2>. QED  BY <2>1, <2>2
<1>8. ResultsUsable'
  BY <1>1 DEF ResultsUsable
<1>9. ChoiceLegal'
  BY <1>1, <1>3 DEF ChoiceLegal, Legal, Finishing
<1>. QED  BY <1>4, <1>5, <1>6, <1>7, <1>8, <1>9

\* Giving the lease up: an owner that publishes its result or releases it.  No
\* other unexpired holder of the key exists to lose it.
LEMMA GiveUpStep ==
  ASSUME LeaseInv, TypeOK', NEW c \in Callers, Publish(c) \/ Release(c)
  PROVE  LeaseInv'
<1>. DEFINE k == Key(c)
<1>. USE DEF LeaseInv
<1>1. /\ pc[c] \in Holding /\ UNCHANGED <<now, nextEpoch, req, permit, choice>>
      /\ \A d \in Callers : d # c => pc'[d] = pc[d]
      /\ pc'[c] \in {"notifyCommit", "notifyRelease", "release"}
      /\ \/ UNCHANGED lease
         \/ Active(c) /\ lease' = [lease EXCEPT ![k] = NoLease]
              /\ pc'[c] \notin Holding
  BY DEF Publish, Release, Refuse, Goto, TypeOK, Holding, Finishing
<1>2. \A d \in Callers : pc'[d] \in Holding => pc[d] \in Holding
  BY <1>1
<1>3. k \in Keys /\ Legal(c) \in LegalSets
  BY DEF TypeOK, Key, Legal, Request
<1>4. \A d \in Callers : /\ Key(d)' = Key(d) /\ Legal(d)' = Legal(d)
                          /\ Key(d) \in Keys /\ Legal(d) \in LegalSets
  BY <1>1 DEF Key, Legal, TypeOK, Request
<1>5. EpochsIssued'
  <2>1. \A j \in Keys : lease'[j] = lease[j] \/ lease'[j] = NoLease
    BY <1>1 DEF TypeOK
  <2>2. \A j \in Keys : lease'[j].epoch < nextEpoch'
    BY <1>1, <2>1 DEF EpochsIssued, NoLease, TypeOK
  <2>. QED  BY <1>1, <1>2, <2>2 DEF EpochsIssued
<1>6. EpochsDistinct'
  BY <1>1, <1>2 DEF EpochsDistinct
<1>7. \A d \in Callers : pc'[d] \in Holding /\ Active(d)' =>
        /\ lease'[Key(d)] = lease[Key(d)] /\ Active(d)
        /\ UNCHANGED lease \/ Key(d) # k
  BY <1>1, <1>4 DEF Active, TypeOK
<1>8. UnexpiredOwns'
  <2>. SUFFICES ASSUME NEW d \in Callers, pc'[d] \in Holding, now' < permit'[d].deadline
                PROVE  lease'[Key(d)] = permit'[d]
    BY <1>4 DEF UnexpiredOwns
  <2>1. lease[Key(d)] = permit[d] /\ pc[d] \in Holding
    BY <1>1, <1>2 DEF UnexpiredOwns
  <2>2. CASE UNCHANGED lease
    BY <1>1, <2>1, <2>2
  <2>3. CASE Active(c) /\ lease' = [lease EXCEPT ![k] = NoLease] /\ pc'[c] \notin Holding
    <3>1. d # c
      BY <2>3
    <3>2. Key(d) # k
      BY <1>1, <2>1, <2>3, <3>1 DEF EpochsDistinct, Active
    <3>. QED  BY <1>1, <1>4, <2>1, <2>3, <3>2 DEF TypeOK
  <2>. QED  BY <1>1, <2>2, <2>3
<1>9. OwnerUnsettled'
  <2>. SUFFICES ASSUME NEW d \in Callers, pc'[d] \in Holding, Active(d)'
                PROVE  results'[Key(d)][Legal(d)] = NoResult
    BY <1>4 DEF OwnerUnsettled
  <2>1. Active(d) /\ results[Key(d)][Legal(d)] = NoResult
    BY <1>2, <1>7 DEF OwnerUnsettled
  <2>2. CASE UNCHANGED results
    BY <2>1, <2>2
  <2>3. CASE ~UNCHANGED results
    <3>1. Publish(c) /\ Active(c) /\ lease' = [lease EXCEPT ![k] = NoLease]
          /\ results' = [results EXCEPT ![k][Legal(c)] =
                           [winner |-> choice[c], epoch |-> permit[c].epoch]]
      BY <2>3 DEF Publish, Release
    <3>2. Key(d) # k
      BY <1>3, <1>4, <3>1 DEF Active, TypeOK
    <3>. QED  BY <1>4, <2>1, <3>1, <3>2 DEF TypeOK
  <2>. QED  BY <2>2, <2>3
<1>10. ResultsUsable'
  <2>1. CASE UNCHANGED results
    BY <2>1 DEF ResultsUsable
  <2>2. CASE ~UNCHANGED results
    <3>. DEFINE new == [winner |-> choice[c], epoch |-> permit[c].epoch]
    <3>1. results' = [results EXCEPT ![k][Legal(c)] = new] /\ pc[c] = "publish"
      BY <2>2 DEF Publish, Release
    <3>2. choice[c] \in Legal(c)
      BY <3>1 DEF ChoiceLegal, Finishing
    <3>3. \A j \in Keys, l \in LegalSets :
            results'[j][l] = results[j][l] \/ (l = Legal(c) /\ results'[j][l] = new)
      BY <3>1 DEF TypeOK
    <3>. QED  BY <3>2, <3>3 DEF ResultsUsable, Usable
  <2>. QED  BY <2>1, <2>2
<1>11. ChoiceLegal'
  BY <1>1, <1>4 DEF ChoiceLegal, Finishing
<1>. QED  BY <1>5, <1>6, <1>8, <1>9, <1>10, <1>11

LEMMA LeaseNext == LeaseInv /\ [Next]_vars => LeaseInv'
<1>. SUFFICES ASSUME LeaseInv, [Next]_vars PROVE LeaseInv'
  OBVIOUS
<1>0. TypeOK /\ TypeOK'
  BY TypeNext DEF LeaseInv
<1>. USE DEF serviceVars, leaseVars
<1>1. CASE UNCHANGED vars
  BY <1>0, <1>1, QuietStep DEF vars, ChoiceLegal, LeaseInv, Holding, Finishing
<1>2. CASE Tick
  BY <1>0, <1>2, QuietStep DEF Tick, ChoiceLegal, LeaseInv, Holding, Finishing
<1>3. ASSUME NEW r \in Ranks, Vote(r) \/ VoteCollective(r) PROVE LeaseInv'
  BY <1>0, <1>3, QuietStep DEF Vote, VoteCollective, ChoiceLegal, LeaseInv, Holding, Finishing
<1>4. ASSUME NEW c \in Callers, Step(c) PROVE LeaseInv'
  <2>1. CASE LoopLeases(c)
    BY <1>0, <2>1, LeasesStep
  <2>2. CASE Publish(c) \/ Release(c)
    BY <1>0, <2>2, GiveUpStep
  <2>3. ASSUME UNCHANGED <<now, lease, results, nextEpoch>>,
               \A d \in Callers : d # c =>
                 /\ pc'[d] = pc[d] /\ permit'[d] = permit[d]
                 /\ req'[d] = req[d] /\ choice'[d] = choice[d],
               pc'[c] \in Holding =>
                 pc[c] \in Holding /\ permit'[c] = permit[c] /\ req'[c] = req[c],
               pc'[c] \in Finishing => choice'[c] \in Legal(c)
        PROVE  LeaseInv'
    <3>1. \A d \in Callers : pc'[d] \in Holding =>
            pc[d] \in Holding /\ permit'[d] = permit[d] /\ req'[d] = req[d]
      BY <2>3
    <3>2. \A d \in Callers : pc'[d] \in Finishing =>
            pc'[d] \in Holding /\ choice'[d] \in Legal(d)
      BY <2>3 DEF LeaseInv, ChoiceLegal, Holding
    <3>. QED  BY <1>0, <2>3, <3>1, <3>2, QuietStep
  <2>. USE <1>0 DEF TypeOK, Goto, Holding, Finishing
  <2>4. CASE Decide(c)
    BY <2>3, <2>4 DEF Decide, Fail, Return
  <2>5. CASE LookupResults(c)
    BY <2>3, <2>5 DEF LookupResults, Return
  <2>6. CASE LookupCache(c)
    BY <2>3, <2>6 DEF LookupCache, Return
  <2>7. CASE LoopFindsResult(c)
    BY <2>3, <2>7 DEF LoopFindsResult, Return
  <2>8. CASE LoopWaits(c) \/ Wake(c) \/ SpuriousWake(c)
    BY <2>3, <2>8 DEF LoopWaits, Wake, SpuriousWake
  <2>9. CASE WaitTimeout(c)
    BY <2>3, <2>9 DEF WaitTimeout, Fail, Return
  <2>10. CASE CommitLocal(c)
    BY <2>3, <2>10 DEF CommitLocal, StartFinish, Refuse
  <2>11. CASE CommitCoordinated(c) \/ CommitCollective(c)
    <3>1. PICK candidate \in Candidates :
            StartFinish(c, candidate) \/ (Refuse(c) /\ UNCHANGED choice)
      BY <2>11, CoordinatedFinish, CollectiveFinish
    <3>. QED  BY <2>3, <2>11, <3>1
         DEF CommitCoordinated, CommitCollective, StartFinish, Refuse
  <2>12. CASE CheckActive(c) \/ Cancel(c)
    BY <2>3, <2>12 DEF CheckActive, Cancel, Refuse, LeaseInv, ChoiceLegal
  <2>13. CASE Persist(c)
    BY <2>3, <2>13 DEF Persist, Refuse, LeaseInv, ChoiceLegal
  <2>14. CASE NotifyCommit(c)
    BY <2>3, <2>14 DEF NotifyCommit, Return, DropPermit
  <2>15. CASE NotifyRelease(c)
    BY <2>3, <2>15 DEF NotifyRelease, Fail, Return, DropPermit
  <2>. QED  BY <1>4, <2>1, <2>2, <2>4, <2>5, <2>6, <2>7, <2>8, <2>9, <2>10, <2>11, <2>12,
               <2>13, <2>14, <2>15 DEF Step, Serve
<1>. QED  BY <1>1, <1>2, <1>3, <1>4 DEF Next

\* The lease protocol's inductive invariant holds: epochs are issued once, and a
\* permit in time is the lease in the table.
THEOREM LeaseInvariant == Spec => []LeaseInv
BY LeaseInit, LeaseNext, PTL DEF Spec

\* Two callers never hold permits for one key that are both within their
\* deadlines: the single flight the service is named for.
THEOREM SingleFlightHolds == Spec => []SingleFlight
<1>1. LeaseInv => SingleFlight
  BY DEF LeaseInv, UnexpiredOwns, EpochsDistinct, SingleFlight
<1>. QED  BY LeaseInvariant, <1>1, PTL

\* A published result never changes, whatever expired holders still try.
THEOREM ResultsStay == Spec => ResultWrittenOnce
<1>1. LeaseInv /\ [Next]_vars =>
        [\A k \in Keys, l \in LegalSets :
           results[k][l] # NoResult => results'[k][l] = results[k][l]]_vars
  <2>. SUFFICES ASSUME LeaseInv, [Next]_vars, NEW k \in Keys, NEW l \in LegalSets,
                       results[k][l] # NoResult
                PROVE  results'[k][l] = results[k][l]
    OBVIOUS
  <2>1. CASE UNCHANGED results
    BY <2>1
  <2>2. ASSUME NEW c \in Callers, Publish(c), Active(c) PROVE results'[k][l] = results[k][l]
    <3>1. results[Key(c)][Legal(c)] = NoResult
      BY <2>2 DEF LeaseInv, OwnerUnsettled, Publish, Holding, Finishing
    <3>2. results' = [results EXCEPT ![Key(c)][Legal(c)] =
                        [winner |-> choice[c], epoch |-> permit[c].epoch]]
      BY <2>2 DEF Publish
    <3>. QED  BY <3>1, <3>2 DEF LeaseInv, TypeOK
  <2>3. UNCHANGED results \/ \E c \in Callers : Publish(c) /\ Active(c)
    BY DEF Next, Step, Serve, vars, serviceVars, leaseVars, Tick, Vote, VoteCollective, Decide,
           LookupResults, LookupCache, LoopFindsResult, LoopWaits, WaitTimeout, LoopLeases,
           Wake, SpuriousWake, CommitLocal, CommitCoordinated, CommitCollective,
           CheckActive, Persist, Publish,
           NotifyCommit, Cancel, Release, NotifyRelease
  <2>. QED  BY <2>1, <2>2, <2>3
<1>. QED  BY LeaseInvariant, <1>1, PTL DEF Spec, ResultWrittenOnce

----------------------------------------------------------------------------
(* Legal selections and unanimous votes.                                   *)

\* What a profile-guided decide falls back to is legal, and so is the choice of
\* a commit that has only to call notify_all.
HeuristicLegal ==
  \A c \in Callers :
    policy = "ProfileGuided" /\ pc[c] \in {"results", "cache"}
      => req[c].heuristic \in Legal(c)

CommittedLegal ==
  \A c \in Callers : pc[c] = "notifyCommit" => choice[c] \in Legal(c)

\* A commit under way has the vote of every participant, if there are several.
Accepted(epoch, candidate) ==
  \A r \in participants : [rank |-> r, epoch |-> epoch, candidate |-> candidate] \in ballots
Backed(c) ==
  Cardinality(participants) > 1 =>
    \E epoch \in {permit[c].epoch, NoEpoch} : Accepted(epoch, choice[c])
FinishingBacked == \A c \in Callers : pc[c] \in Finishing => Backed(c)

SelectionInv ==
  /\ participants \in Topologies
  /\ HeuristicLegal /\ CommittedLegal /\ SelectionLegal
  /\ FinishingBacked /\ PublishedUnanimously

LEMMA SelectionInit == Init => SelectionInv
BY DEF Init, SelectionInv, HeuristicLegal, CommittedLegal, SelectionLegal,
       FinishingBacked, PublishedUnanimously, NoReply, NoResult, Finishing

\* Accepting votes of as many different participants as there are participants
\* are votes of all of them.
LEMMA VotesOfAll ==
  ASSUME participants \in Topologies, ballots \subseteq Ballot,
         NEW n \in 1..Cardinality(participants), NEW votes \in [1..n -> ballots],
         NEW epoch, NEW candidate, Unanimous(votes, epoch, candidate)
  PROVE  Accepted(epoch, candidate)
<1>. DEFINE rankOf == [i \in 1..n |-> votes[i].rank]
            voters == {rankOf[i] : i \in 1..n}
<1>1. IsFiniteSet(participants) /\ Cardinality(participants) \in Nat
  BY TopologiesAssumption, FS_CardinalityType
<1>2. n \in Nat /\ IsFiniteSet(1..n) /\ Cardinality(1..n) = n
  BY <1>1, FS_Interval
<1>3. n = Cardinality(participants)
  BY <1>2 DEF Unanimous
<1>4. rankOf \in Bijection(1..n, voters)
  BY DEF Unanimous, Bijection, Injection, Surjection, IsInjective
<1>5. IsFiniteSet(voters) /\ Cardinality(voters) = n
  <2>1. ExistsBijection(1..n, voters)
    BY <1>4 DEF ExistsBijection
  <2>. HIDE DEF voters
  <2>. QED  BY <1>2, <2>1, FS_Bijection
<1>6. voters \subseteq participants
  BY DEF Unanimous
<1>7. voters = participants
  BY <1>1, <1>3, <1>5, <1>6, FS_Subset
<1>. SUFFICES ASSUME NEW r \in participants
              PROVE  [rank |-> r, epoch |-> epoch, candidate |-> candidate] \in ballots
  BY DEF Accepted
<1>8. PICK i \in 1..n : votes[i].rank = r
  BY <1>7
<1>9. votes[i] \in ballots /\ votes[i] \in Ballot
  OBVIOUS
<1>10. votes[i].epoch = epoch /\ votes[i].candidate = candidate
  BY <1>9 DEF Unanimous, Ballot
<1>11. votes[i] = [rank |-> votes[i].rank, epoch |-> votes[i].epoch,
                   candidate |-> votes[i].candidate]
  BY <1>9 DEF Ballot
<1>. QED  BY <1>8, <1>9, <1>10, <1>11

\* commit_coordinated refuses, or goes on with a candidate everybody voted for.
LEMMA CoordinatedBacked ==
  ASSUME TypeOK, participants \in Topologies, NEW c \in Callers, CommitCoordinated(c)
  PROVE  \/ Refuse(c) /\ UNCHANGED choice
         \/ StartFinish(c, choice'[c]) /\ Backed(c)'
<1>1. PICK candidate \in Candidates, n \in 1..Cardinality(participants) :
        \E votes \in [1..n -> ballots] :
          IF Unanimous(votes, permit[c].epoch, candidate)
          THEN StartFinish(c, candidate)
          ELSE Refuse(c) /\ UNCHANGED choice
  BY Zenon DEF CommitCoordinated
<1>2. PICK votes \in [1..n -> ballots] :
        IF Unanimous(votes, permit[c].epoch, candidate)
        THEN StartFinish(c, candidate)
        ELSE Refuse(c) /\ UNCHANGED choice
  BY <1>1
<1>3. CASE Refuse(c) /\ UNCHANGED choice
  BY <1>3
<1>4. CASE StartFinish(c, candidate) /\ ~(Refuse(c) /\ UNCHANGED choice)
           /\ Unanimous(votes, permit[c].epoch, candidate)
  <2>1. choice' = [choice EXCEPT ![c] = candidate]
    BY <1>4 DEF StartFinish
  <2>2. choice'[c] = candidate
    BY <2>1 DEF TypeOK
  <2>3. Accepted(permit[c].epoch, candidate)
    BY <1>4, VotesOfAll DEF TypeOK
  <2>4. UNCHANGED <<participants, permit, ballots>>
    BY DEF CommitCoordinated, serviceVars
  <2>. QED  BY <1>4, <2>2, <2>3, <2>4 DEF Backed, Accepted
<1>. QED  BY <1>2, <1>3, <1>4

\* So does commit_collective.
LEMMA CollectiveBacked ==
  ASSUME TypeOK, NEW c \in Callers, CommitCollective(c)
  PROVE  \/ Refuse(c) /\ UNCHANGED choice
         \/ StartFinish(c, choice'[c]) /\ Backed(c)'
<1>1. PICK candidate \in Candidates :
        /\ Committed(candidate)
        /\ IF participants = Pair THEN StartFinish(c, candidate)
           ELSE Refuse(c) /\ UNCHANGED choice
  BY DEF CommitCollective
<1>2. CASE participants # Pair \/ (Refuse(c) /\ UNCHANGED choice)
  BY <1>1, <1>2
<1>3. CASE participants = Pair /\ ~(Refuse(c) /\ UNCHANGED choice)
  <2>1. choice' = [choice EXCEPT ![c] = candidate]
    BY <1>1, <1>3 DEF StartFinish
  <2>2. choice'[c] = candidate
    BY <2>1 DEF TypeOK
  <2>3. Accepted(NoEpoch, candidate)
    BY <1>1, <1>3 DEF Committed, Accepted
  <2>4. UNCHANGED <<participants, ballots>>
    BY DEF CommitCollective, serviceVars
  <2>. QED  BY <1>1, <1>3, <2>2, <2>3, <2>4 DEF Backed, Accepted
<1>. QED  BY <1>2, <1>3

\* A step of one caller that publishes nothing keeps the invariant if it does so
\* for that caller.
LEMMA SelectionFrame ==
  ASSUME TypeOK, SelectionInv, NEW c \in Callers,
         UNCHANGED <<policy, participants, ballots, results>>,
         \A d \in Callers : d # c =>
           /\ pc'[d] = pc[d] /\ req'[d] = req[d] /\ permit'[d] = permit[d]
           /\ choice'[d] = choice[d],
         policy = "ProfileGuided" /\ pc'[c] \in {"results", "cache"}
           => req'[c].heuristic \in req'[c].legal,
         pc'[c] = "notifyCommit" => choice'[c] \in req'[c].legal,
         reply'.candidate # None => reply'.candidate \in reply'.legal,
         pc'[c] \in Finishing => Backed(c)'
  PROVE  SelectionInv'
<1>. USE DEF SelectionInv
<1>1. HeuristicLegal'
  BY DEF HeuristicLegal, Legal
<1>2. CommittedLegal'
  BY DEF CommittedLegal, Legal
<1>3. SelectionLegal'
  BY DEF SelectionLegal
<1>4. FinishingBacked'
  <2>. SUFFICES ASSUME NEW d \in Callers, pc'[d] \in Finishing, d # c
                PROVE  Backed(d)'
    BY DEF FinishingBacked
  <2>1. Backed(d)
    BY DEF FinishingBacked
  <2>. QED  BY <2>1 DEF Backed, Accepted
<1>5. PublishedUnanimously'
  BY DEF PublishedUnanimously
<1>. QED  BY <1>1, <1>2, <1>3, <1>4, <1>5

LEMMA SelectionNext == LeaseInv /\ SelectionInv /\ [Next]_vars => SelectionInv'
<1>. SUFFICES ASSUME LeaseInv, SelectionInv, [Next]_vars PROVE SelectionInv'
  OBVIOUS
<1>0. TypeOK
  BY DEF LeaseInv
<1>. USE DEF serviceVars, leaseVars
<1>1. CASE UNCHANGED <<policy, participants, results, pc, req, permit, choice, reply>>
           /\ ballots \subseteq ballots'
  <2>. USE <1>1 DEF SelectionInv
  <2>1. HeuristicLegal' /\ CommittedLegal' /\ SelectionLegal'
    BY DEF HeuristicLegal, CommittedLegal, SelectionLegal, Legal
  <2>2. FinishingBacked'
    BY DEF FinishingBacked, Backed, Accepted
  <2>3. PublishedUnanimously'
    BY DEF PublishedUnanimously
  <2>. QED  BY <2>1, <2>2, <2>3
<1>2. CASE UNCHANGED vars \/ Tick \/ \E r \in Ranks : Vote(r) \/ VoteCollective(r)
  BY <1>1, <1>2 DEF vars, Tick, Vote, VoteCollective
<1>3. ASSUME NEW c \in Callers, Step(c) PROVE SelectionInv'
  <2>. USE <1>0 DEF TypeOK, Goto
  <2>0. /\ policy = "ProfileGuided" /\ pc[c] \in {"results", "cache"}
             => req[c].heuristic \in req[c].legal
        /\ pc[c] = "notifyCommit" => choice[c] \in req[c].legal
        /\ reply.candidate # None => reply.candidate \in reply.legal
        /\ pc[c] \in Finishing => Backed(c) /\ choice[c] \in req[c].legal
    BY DEF LeaseInv, ChoiceLegal, SelectionInv, HeuristicLegal, CommittedLegal,
           SelectionLegal, FinishingBacked, Legal
  <2>. USE DEF Finishing
  \* Steps that touch neither a choice, a permit nor the results.
  <2>1. ASSUME UNCHANGED <<policy, participants, ballots, results>>,
               \A d \in Callers : d # c =>
                 /\ pc'[d] = pc[d] /\ req'[d] = req[d] /\ permit'[d] = permit[d]
                 /\ choice'[d] = choice[d],
               pc'[c] \notin Finishing \cup {"notifyCommit"},
               policy = "ProfileGuided" /\ pc'[c] \in {"results", "cache"}
                 => req'[c].heuristic \in req'[c].legal,
               reply'.candidate # None => reply'.candidate \in reply'.legal
        PROVE  SelectionInv'
    BY <1>0, <2>1, SelectionFrame
  <2>2. CASE Decide(c)
    <3>1. PICK k \in Keys, legal \in LegalSets, budget \in TimeBudgets,
               fallback \in Candidates, heuristic \in Candidates :
            \/ Return(c, "IllegalDeclaration", None, {})
            \/ /\ {fallback, heuristic} \subseteq legal
               /\ \/ Return(c, "Disabled", fallback, legal)
                  \/ Return(c, "Heuristic", heuristic, legal)
                  \/ /\ req' = [req EXCEPT ![c] =
                          [key |-> k, legal |-> legal, budget |-> budget, deadline |-> 0,
                           heuristic |-> IF policy = "ProfileGuided" THEN heuristic
                                         ELSE AnyRequest.heuristic]]
                     /\ Goto(c, "results")
                     /\ reply' = NoReply
      BY <2>2 DEF Decide, Fail
    <3>2. CASE Return(c, "IllegalDeclaration", None, {})
      BY <2>1, <2>2, <3>2 DEF Decide, Return
    <3>3. CASE {fallback, heuristic} \subseteq legal
               /\ (Return(c, "Disabled", fallback, legal) \/ Return(c, "Heuristic", heuristic, legal))
      BY <2>1, <2>2, <3>3 DEF Decide, Return
    <3>4. CASE /\ {fallback, heuristic} \subseteq legal
               /\ req' = [req EXCEPT ![c] =
                    [key |-> k, legal |-> legal, budget |-> budget, deadline |-> 0,
                     heuristic |-> IF policy = "ProfileGuided" THEN heuristic
                                   ELSE AnyRequest.heuristic]]
               /\ Goto(c, "results")
               /\ reply' = NoReply
      BY <2>1, <2>2, <3>4 DEF Decide, NoReply
    <3>. QED  BY <3>1, <3>2, <3>3, <3>4
  <2>3. CASE LookupResults(c)
    BY <2>0, <2>1, <2>3 DEF LookupResults, Return, Usable, Legal
  <2>4. CASE LookupCache(c)
    <3>1. CASE Goto(c, "loop") /\ UNCHANGED reply
               /\ req' = [req EXCEPT ![c].deadline = now + req[c].budget]
      BY <2>0, <2>1, <2>4, <3>1 DEF LookupCache
    <3>2. ASSUME NEW outcome, NEW w \in Legal(c), Return(c, outcome, w, Legal(c))
          PROVE  SelectionInv'
      BY <2>1, <2>4, <3>2 DEF LookupCache, Return
    <3>3. policy = "ProfileGuided" => req[c].heuristic \in Legal(c)
      BY <2>0, <2>4 DEF LookupCache, Legal
    <3>. QED  BY <2>4, <3>1, <3>2, <3>3 DEF LookupCache, Usable
  <2>5. CASE LoopFindsResult(c)
    BY <2>0, <2>1, <2>5 DEF LoopFindsResult, Return, Usable, Legal
  <2>6. CASE LoopWaits(c) \/ Wake(c) \/ SpuriousWake(c)
    BY <2>0, <2>1, <2>6 DEF LoopWaits, Wake, SpuriousWake
  <2>7. CASE WaitTimeout(c)
    BY <2>0, <2>1, <2>7 DEF WaitTimeout, Fail, Return
  <2>8. CASE LoopLeases(c)
    BY <2>0, <2>1, <2>8 DEF LoopLeases
  <2>9. CASE CommitLocal(c)
    <3>1. UNCHANGED <<policy, participants, ballots, results>> /\ UNCHANGED <<req, permit, reply>>
          /\ pc'[c] \in {"release", "check"} /\ (\A d \in Callers : d # c =>
                 pc'[d] = pc[d] /\ choice'[d] = choice[d])
      BY <2>9 DEF CommitLocal, StartFinish, Refuse
    <3>2. pc'[c] = "check" => Cardinality(participants) = 1
      BY <2>9 DEF CommitLocal, Refuse
    <3>3. pc'[c] = "check" => Backed(c)'
      BY <3>1, <3>2 DEF Backed
    <3>. QED  BY <1>0, <2>0, <3>1, <3>3, SelectionFrame
  <2>10. CASE CommitCoordinated(c) \/ CommitCollective(c)
    <3>1. \/ Refuse(c) /\ UNCHANGED choice
          \/ StartFinish(c, choice'[c]) /\ Backed(c)'
      BY <1>0, <2>10, CoordinatedBacked, CollectiveBacked DEF SelectionInv
    <3>2. UNCHANGED <<policy, participants, ballots, results, req, permit, reply>>
      BY <2>10 DEF CommitCoordinated, CommitCollective
    <3>3. pc'[c] \in {"release", "check"} /\ (\A d \in Callers : d # c =>
                 pc'[d] = pc[d] /\ choice'[d] = choice[d])
      BY <3>1 DEF StartFinish, Refuse
    <3>4. pc'[c] = "check" => Backed(c)'
      BY <3>1 DEF Refuse
    <3>. QED  BY <1>0, <2>0, <3>2, <3>3, <3>4, SelectionFrame
  <2>11. CASE CheckActive(c) \/ Cancel(c) \/ Persist(c)
    <3>1. /\ UNCHANGED <<policy, participants, ballots, results>>
          /\ UNCHANGED <<req, permit, choice, reply>>
          /\ pc'[c] \in {"release", "persist", "publish"}
          /\ pc'[c] # "release" => pc[c] \in Finishing
          /\ \A d \in Callers : d # c => pc'[d] = pc[d]
      BY <2>11 DEF CheckActive, Cancel, Persist, Refuse
    <3>2. pc'[c] \in Finishing => Backed(c)'
      BY <2>0, <3>1 DEF Backed, Accepted
    <3>. QED  BY <1>0, <2>0, <3>1, <3>2, SelectionFrame
  <2>12. CASE Publish(c)
    <3>. USE DEF SelectionInv
    <3>1. /\ pc[c] = "publish" /\ pc'[c] \in {"release", "notifyCommit"}
          /\ \A d \in Callers : d # c => pc'[d] = pc[d]
          /\ UNCHANGED <<policy, participants, ballots>> /\ UNCHANGED <<req, permit, choice, reply>>
      BY <2>12 DEF Publish, Refuse
    <3>2. HeuristicLegal' /\ CommittedLegal' /\ SelectionLegal'
      BY <2>0, <3>1 DEF HeuristicLegal, CommittedLegal, SelectionLegal, Legal
    <3>3. FinishingBacked'
      BY <3>1 DEF FinishingBacked, Backed, Accepted
    <3>4. PublishedUnanimously'
      <4>1. CASE UNCHANGED results
        BY <3>1, <4>1 DEF PublishedUnanimously
      <4>2. CASE results' = [results EXCEPT ![Key(c)][Legal(c)] =
                               [winner |-> choice[c], epoch |-> permit[c].epoch]]
        <5>. SUFFICES ASSUME NEW k \in Keys, NEW l \in LegalSets,
                             results'[k][l] # NoResult, Cardinality(participants) > 1
                      PROVE  \E epoch \in {results'[k][l].epoch, NoEpoch} :
                               Accepted(epoch, results'[k][l].winner)
          BY <3>1 DEF PublishedUnanimously, Accepted
        <5>1. CASE results'[k][l] = results[k][l]
          BY <5>1 DEF PublishedUnanimously, Accepted
        <5>2. CASE results'[k][l] = [winner |-> choice[c], epoch |-> permit[c].epoch]
          BY <2>0, <3>1, <5>2 DEF Backed
        <5>. QED  BY <4>2, <5>1, <5>2
      <4>. QED  BY <2>12, <4>1, <4>2 DEF Publish
    <3>. QED  BY <3>1, <3>2, <3>3, <3>4
  <2>13. CASE NotifyCommit(c)
    BY <2>0, <2>1, <2>13 DEF NotifyCommit, Return, DropPermit, Legal
  <2>14. CASE Release(c)
    BY <2>0, <2>1, <2>14 DEF Release
  <2>15. CASE NotifyRelease(c)
    BY <2>0, <2>1, <2>15 DEF NotifyRelease, Fail, Return, DropPermit
  <2>. QED  BY <1>3, <2>2, <2>3, <2>4, <2>5, <2>6, <2>7, <2>8, <2>9, <2>10, <2>11, <2>12,
               <2>13, <2>14, <2>15 DEF Step, Serve
<1>. QED  BY <1>2, <1>3 DEF Next

\* A selection is legal for the caller that gets it, whatever a cache record says
\* and whoever measured it.
THEOREM SelectionsLegal == Spec => []SelectionLegal
<1>1. SelectionInv => SelectionLegal
  BY DEF SelectionInv
<1>. QED  BY LeaseInvariant, SelectionInit, SelectionNext, <1>1, PTL DEF Spec

\* What several participants publish, each of them accepted in that epoch.
THEOREM VotesUnanimous == Spec => []PublishedUnanimously
<1>1. SelectionInv => PublishedUnanimously
  BY DEF SelectionInv
<1>. QED  BY LeaseInvariant, SelectionInit, SelectionNext, <1>1, PTL DEF Spec

----------------------------------------------------------------------------
(* Wakeups.                                                                *)

\* What a caller asleep without a signal may rely on.
Notified(c) == \E d \in Callers : pc[d] \in Notifying /\ Key(d) = Key(c)
Watches(c) ==
  /\ lease[Key(c)] # NoLease
  /\ sleep[c].wakeAt = MinOf(lease[Key(c)].deadline, req[c].deadline)
  /\ ~Usable(results[Key(c)][Legal(c)].winner, Legal(c))

\* A step of c that neither takes a lease nor ends a notification.
LEMMA WakeupFrame ==
  ASSUME TypeOK, NoLostWakeup, NEW c \in Callers,
         UNCHANGED <<lease, results>>,
         \A d \in Callers : d # c => pc'[d] = pc[d] /\ req'[d] = req[d] /\ sleep'[d] = sleep[d],
         pc[c] \in Notifying => pc'[c] \in Notifying /\ req'[c] = req[c],
         pc'[c] = "waiting" /\ ~sleep'[c].signalled =>
           \/ pc[c] = "waiting" /\ req'[c] = req[c] /\ sleep'[c] = sleep[c]
           \/ Watches(c)'
  PROVE  NoLostWakeup'
<1>. SUFFICES ASSUME NEW d \in Callers, pc'[d] = "waiting", ~sleep'[d].signalled
              PROVE  Notified(d)' \/ Watches(d)'
  BY DEF NoLostWakeup, Notified, Watches
<1>1. CASE Watches(d)'
  BY <1>1
<1>2. CASE pc[d] = "waiting" /\ req'[d] = req[d] /\ sleep'[d] = sleep[d]
  <2>1. Notified(d) \/ Watches(d)
    BY <1>2 DEF NoLostWakeup, Notified, Watches
  <2>2. CASE Watches(d)
    BY <1>2, <2>2 DEF Watches, Key, Legal
  <2>3. CASE Notified(d)
    BY <1>2, <2>3 DEF Notified, Key
  <2>. QED  BY <2>1, <2>2, <2>3
<1>. QED  BY <1>1, <1>2

\* Whoever calls notify_all leaves nobody asleep without a signal.
LEMMA WakeupAll ==
  ASSUME TypeOK, NEW c \in Callers, sleep' = NotifyAll \/ sleep' = [NotifyAll EXCEPT ![c] = Awake],
         \A d \in Callers : d # c => pc'[d] = pc[d], pc'[c] # "waiting"
  PROVE  NoLostWakeup'
<1>1. ASSUME NEW d \in Callers, d # c, pc[d] = "waiting" PROVE sleep'[d].signalled
  <2>1. sleep'[d] = NotifyAll[d]
    BY <1>1 DEF NotifyAll
  <2>2. NotifyAll[d] = [sleep[d] EXCEPT !.signalled = TRUE]
    BY <1>1 DEF NotifyAll
  <2>3. sleep[d] \in [wakeAt: Nat, signalled: BOOLEAN, timedOut: BOOLEAN]
    BY DEF TypeOK, Sleep
  <2>. QED  BY <2>1, <2>2, <2>3
<1>. QED  BY <1>1 DEF NoLostWakeup

LEMMA WakeupNext == TypeOK /\ NoLostWakeup /\ [Next]_vars => NoLostWakeup'
<1>. SUFFICES ASSUME TypeOK, NoLostWakeup, [Next]_vars PROVE NoLostWakeup'
  OBVIOUS
<1>. USE DEF serviceVars, leaseVars
<1>1. CASE UNCHANGED vars \/ Tick \/ \E r \in Ranks : Vote(r) \/ VoteCollective(r)
  BY <1>1 DEF vars, Tick, Vote, VoteCollective, NoLostWakeup, Key, Legal
<1>2. ASSUME NEW c \in Callers, Step(c) PROVE NoLostWakeup'
  <2>. USE DEF TypeOK, Goto, Notifying
  <2>1. CASE LoopLeases(c)
    <3>1. CASE Expired(Key(c))
      BY <2>1, <3>1, WakeupAll DEF LoopLeases
    <3>2. CASE lease[Key(c)] = NoLease
      <4>. SUFFICES ASSUME NEW d \in Callers, pc'[d] = "waiting", ~sleep'[d].signalled
                    PROVE  Notified(d)' \/ Watches(d)'
        BY DEF NoLostWakeup, Notified, Watches
      <4>1. /\ d # c /\ pc[d] = "waiting" /\ sleep'[d] = sleep[d] /\ req' = req
            /\ pc[c] \notin Notifying /\ \A e \in Callers : e # c => pc'[e] = pc[e]
            /\ \A k \in Keys : k # Key(c) => lease'[k] = lease[k]
            /\ UNCHANGED results
        BY <2>1, <3>2 DEF LoopLeases, Expired, InLoop
      <4>2. Notified(d) \/ Watches(d)
        BY <4>1 DEF NoLostWakeup, Notified, Watches
      <4>3. CASE Notified(d)
        BY <4>1, <4>3 DEF Notified, Key
      <4>4. CASE Watches(d)
        <5>1. Key(d) \in Keys /\ Key(d) # Key(c)
          BY <3>2, <4>4 DEF Watches, Key, Request
        <5>. QED  BY <4>1, <4>4, <5>1 DEF Watches, Key, Legal
      <4>. QED  BY <4>2, <4>3, <4>4
    <3>3. lease[Key(c)] # NoLease /\ ~Held(Key(c)) => Expired(Key(c))
      <4>1. Key(c) \in Keys /\ lease[Key(c)].deadline \in Nat /\ now \in Nat
        BY DEF Key, Request, Lease
      <4>. QED  BY <4>1 DEF Held, Expired
    <3>. QED  BY <2>1, <3>1, <3>2, <3>3 DEF LoopLeases
  <2>2. CASE (Publish(c) \/ Release(c)) /\ ~UNCHANGED <<lease, results>>
    <3>. SUFFICES ASSUME NEW d \in Callers, pc'[d] = "waiting", ~sleep'[d].signalled
                  PROVE  Notified(d)' \/ Watches(d)'
      BY DEF NoLostWakeup, Notified, Watches
    <3>1. /\ d # c /\ pc[d] = "waiting" /\ sleep' = sleep /\ req' = req
          /\ pc'[c] \in Notifying /\ pc[c] \notin Notifying
          /\ \A e \in Callers : e # c => pc'[e] = pc[e]
          /\ \A k \in Keys : k # Key(c) => lease'[k] = lease[k] /\ results'[k] = results[k]
      BY <2>2 DEF Publish, Release, Refuse
    <3>2. CASE Key(d) = Key(c)
      BY <3>1, <3>2 DEF Notified, Key
    <3>3. CASE Key(d) # Key(c)
      <4>1. Notified(d) \/ Watches(d)
        BY <3>1 DEF NoLostWakeup, Notified, Watches
      <4>2. CASE Notified(d)
        BY <3>1, <4>2 DEF Notified, Key
      <4>3. CASE Watches(d)
        <5>1. Key(d) \in Keys
          BY DEF Key, Request
        <5>. QED  BY <3>1, <3>3, <4>3, <5>1 DEF Watches, Key, Legal
      <4>. QED  BY <4>1, <4>2, <4>3
    <3>. QED  BY <3>2, <3>3
  <2>3. CASE (Publish(c) \/ Release(c)) /\ UNCHANGED <<lease, results>>
    BY <2>3, WakeupFrame DEF Publish, Release, Refuse
  <2>4. CASE NotifyCommit(c)
    BY <2>4, WakeupAll DEF NotifyCommit, Return
  <2>5. CASE NotifyRelease(c)
    BY <2>5, WakeupAll DEF NotifyRelease, Fail, Return
  <2>6. CASE LoopWaits(c)
    <3>1. /\ sleep'[c] = [Awake EXCEPT !.wakeAt = MinOf(lease[Key(c)].deadline, req[c].deadline)]
          /\ ~Usable(results[Key(c)][Legal(c)].winner, Legal(c)) /\ Held(Key(c))
          /\ UNCHANGED <<lease, results, req>> /\ pc[c] \notin Notifying
          /\ \A d \in Callers : d # c => pc'[d] = pc[d] /\ sleep'[d] = sleep[d]
      BY <2>6 DEF LoopWaits, InLoop
    <3>2. Watches(c)'
      BY <3>1 DEF Watches, Held, Awake, Key, Legal
    <3>. QED  BY <3>1, <3>2, WakeupFrame
  <2>7. CASE Wake(c) \/ SpuriousWake(c)
    BY <2>7, WakeupFrame DEF Wake, SpuriousWake
  <2>8. CASE Decide(c)
    BY <2>8, WakeupFrame DEF Decide, Fail, Return
  <2>9. CASE LookupResults(c)
    BY <2>9, WakeupFrame DEF LookupResults, Return
  <2>10. CASE LookupCache(c)
    BY <2>10, WakeupFrame DEF LookupCache, Return
  <2>11. CASE LoopFindsResult(c)
    BY <2>11, WakeupFrame DEF LoopFindsResult, InLoop, Return
  <2>12. CASE WaitTimeout(c)
    BY <2>12, WakeupFrame DEF WaitTimeout, InLoop, Fail, Return
  <2>13. CASE CommitLocal(c)
    BY <2>13, WakeupFrame DEF CommitLocal, StartFinish, Refuse
  <2>14. CASE CommitCoordinated(c) \/ CommitCollective(c)
    <3>1. PICK candidate \in Candidates :
            StartFinish(c, candidate) \/ (Refuse(c) /\ UNCHANGED choice)
      BY <2>14, CoordinatedFinish, CollectiveFinish
    <3>. QED  BY <2>14, <3>1, WakeupFrame
         DEF CommitCoordinated, CommitCollective, StartFinish, Refuse
  <2>15. CASE CheckActive(c) \/ Cancel(c) \/ Persist(c)
    BY <2>15, WakeupFrame DEF CheckActive, Cancel, Persist, Refuse
  <2>. QED  BY <1>2, <2>1, <2>2, <2>3, <2>4, <2>5, <2>6, <2>7, <2>8, <2>9, <2>10, <2>11,
               <2>12, <2>13, <2>14, <2>15 DEF Step, Serve
<1>. QED  BY <1>1, <1>2 DEF Next

\* A caller that sleeps without a signal sleeps for a lease that is still there.
THEOREM NobodyOversleeps == Spec => []NoLostWakeup
<1>1. Init => NoLostWakeup
  BY DEF Init, NoLostWakeup
<1>. QED  BY TypeCorrect, WakeupNext, <1>1, PTL DEF Spec

----------------------------------------------------------------------------
(* The lease table implements SingleFlight.                                *)

\* c holds the permit whose epoch is in the lease table under k.
Owns(c, k) == pc[c] \in Holding /\ Key(c) = k /\ Active(c)

\* There is at most one: epochs are handed out once.
OwnersNamed ==
  \A k \in Keys :
    /\ \A c \in Callers : Owns(c, k) => Owner(k) = [caller |-> c, legal |-> Legal(c)]
    /\ (\A c \in Callers : ~Owns(c, k)) => Owner(k) = [caller |-> None, legal |-> {}]

LEMMA OwnerShape == LeaseInv => OwnersNamed
<1>. SUFFICES ASSUME LeaseInv, NEW k \in Keys
              PROVE  /\ \A c \in Callers : Owns(c, k) => Owner(k) = [caller |-> c, legal |-> Legal(c)]
                     /\ (\A c \in Callers : ~Owns(c, k)) => Owner(k) = [caller |-> None, legal |-> {}]
  BY DEF OwnersNamed
<1>. DEFINE owners == {c \in Callers : pc[c] \in Holding /\ Key(c) = k /\ Active(c)}
<1>1. ASSUME NEW c \in Callers, Owns(c, k)
      PROVE  Owner(k) = [caller |-> c, legal |-> Legal(c)]
  <2>1. \A d \in Callers : Owns(d, k) => d = c
    BY <1>1 DEF Owns, Active, LeaseInv, EpochsDistinct
  <2>2. owners = {c}
    BY <1>1, <2>1 DEF Owns
  <2>3. owners # {} /\ (CHOOSE d \in owners : TRUE) = c
    BY <2>2
  <2>. QED  BY <2>3 DEF Owner
<1>2. ASSUME \A c \in Callers : ~Owns(c, k)
      PROVE  Owner(k) = [caller |-> None, legal |-> {}]
  <2>1. owners = {}
    BY <1>2 DEF Owns
  <2>. QED  BY <2>1 DEF Owner
<1>. QED  BY <1>1, <1>2

\* The owner of a key is settled by who owns it and under which legal set.
LEMMA OwnerKept ==
  LeaseInv /\ LeaseInv' =>
    \A k \in Keys :
      (\A c \in Callers : /\ Owns(c, k)' <=> Owns(c, k)
                          /\ Owns(c, k) => Legal(c)' = Legal(c))
        => Owner(k)' = Owner(k)
<1>1. LeaseInv' => OwnersNamed'
  BY OwnerShape, PTL
<1>. QED  BY <1>1, OwnerShape DEF OwnersNamed

LEMMA FlightInit == Init => Flight!Init
<1>. SUFFICES ASSUME Init PROVE Flight!Init
  OBVIOUS
<1>1. LeaseInv
  BY LeaseInit
<1>2. \A c \in Callers, k \in Keys : ~Owns(c, k)
  BY DEF Init, Owns, Holding, Finishing
<1>3. \A k \in Keys : Owner(k) = [caller |-> None, legal |-> {}]
  BY <1>1, <1>2, OwnerShape DEF OwnersNamed
<1>. QED  BY <1>3 DEF Flight!Init, Flight!Free, Init, NoResult

\* What a step of one caller does to the owners: it becomes the owner of its
\* key, stops being it, or changes nothing.
LEMMA FlightFrame ==
  ASSUME LeaseInv, LeaseInv', UNCHANGED <<lease, results>>,
         \A c \in Callers :
           /\ pc'[c] \in Holding <=> pc[c] \in Holding
           /\ pc[c] \in Holding => permit'[c] = permit[c] /\ req'[c] = req[c]
  PROVE  UNCHANGED <<[k \in Keys |-> Owner(k)],
                     [k \in Keys |-> [l \in LegalSets |-> results[k][l].winner]]>>
<1>1. \A k \in Keys, c \in Callers :
        /\ Owns(c, k)' <=> Owns(c, k)
        /\ Owns(c, k) => Legal(c)' = Legal(c)
  BY DEF Owns, Active, Key, Legal
<1>2. \A k \in Keys : Owner(k)' = Owner(k)
  BY <1>1, OwnerKept
<1>. QED  BY <1>2

\* A key whose lease did not change keeps its owner when only c's own standing
\* changes, and c has to do with another key.
LEMMA OtherOwners ==
  ASSUME LeaseInv, LeaseInv', NEW c \in Callers, NEW k \in Keys, NEW j \in Keys, j # k,
         lease'[j] = lease[j], Key(c) = k, req' = req,
         \A d \in Callers : d # c => pc'[d] = pc[d] /\ permit'[d] = permit[d]
  PROVE  Owner(j)' = Owner(j)
<1>1. \A d \in Callers : /\ Owns(d, j)' <=> Owns(d, j)
                         /\ Owns(d, j) => Legal(d)' = Legal(d)
  BY DEF Owns, Active, Key, Legal
<1>. QED  BY <1>1, OwnerKept

\* An owner that gives its lease up leaves its key without an owner.
LEMMA KeyFreed ==
  ASSUME LeaseInv, LeaseInv', NEW c \in Callers, NEW k \in Keys, Key(c) = k, Active(c),
         pc[c] \in Holding, lease' = [lease EXCEPT ![k] = NoLease], req' = req, permit' = permit,
         \A d \in Callers : d # c => pc'[d] = pc[d]
  PROVE  /\ Owner(k) = [caller |-> c, legal |-> Legal(c)]
         /\ [j \in Keys |-> Owner(j)]' =
              [[j \in Keys |-> Owner(j)] EXCEPT ![k] = [caller |-> None, legal |-> {}]]
<1>1. Owner(k) = [caller |-> c, legal |-> Legal(c)]
  BY OwnerShape DEF Owns, OwnersNamed
<1>2. lease'[k] = NoLease /\ \A j \in Keys : j # k => lease'[j] = lease[j]
  BY DEF LeaseInv, TypeOK
<1>3. \A d \in Callers : ~Owns(d, k)'
  BY <1>2 DEF Owns, Active
<1>4. Owner(k)' = [caller |-> None, legal |-> {}]
  <2>1. LeaseInv' => OwnersNamed'
    BY OwnerShape, PTL
  <2>. QED  BY <1>3, <2>1 DEF OwnersNamed
<1>5. \A j \in Keys : j # k => Owner(j)' = Owner(j)
  BY <1>2, OtherOwners
<1>. QED  BY <1>1, <1>4, <1>5

Winners == [k \in Keys |-> [l \in LegalSets |-> results[k][l].winner]]

\* Taking the lease of a key grants it.
LEMMA LeasesGrant ==
  ASSUME LeaseInv, LeaseInv', NEW c \in Callers, LoopLeases(c)
  PROVE  Flight!Grant(c, Key(c), Legal(c))
<1>. DEFINE mine == [epoch |-> nextEpoch,
                     deadline |-> now + MinOf(PolicyBudget, req[c].budget)]
<1>0. TypeOK /\ Key(c) \in Keys /\ Legal(c) \in LegalSets
  BY DEF LeaseInv, TypeOK, Key, Legal, Request
<1>. PICK k \in Keys : k = Key(c)
  BY <1>0
<1>1. /\ lease' = [lease EXCEPT ![k] = mine] /\ permit' = [permit EXCEPT ![c] = mine]
      /\ pc' = [pc EXCEPT ![c] = "measuring"] /\ UNCHANGED <<results, req>>
      /\ ~Usable(results[k][Legal(c)].winner, Legal(c))
      /\ pc[c] \notin Holding
  BY <1>0 DEF LoopLeases, Goto, InLoop, Holding, Finishing, TypeOK
<1>2. /\ lease'[k] = mine /\ permit'[c] = mine /\ pc'[c] = "measuring"
      /\ \A j \in Keys : j # k => lease'[j] = lease[j]
      /\ \A d \in Callers : d # c => pc'[d] = pc[d] /\ permit'[d] = permit[d]
  BY <1>0, <1>1 DEF TypeOK
<1>3. results[k][Legal(c)].winner = None
  BY <1>0, <1>1 DEF LeaseInv, ResultsUsable, NoResult
<1>4. Owner(k).caller # c
  <2>1. CASE \E d \in Callers : Owns(d, k)
    <3>1. PICK d \in Callers : Owns(d, k)
      BY <2>1
    <3>2. Owner(k) = [caller |-> d, legal |-> Legal(d)] /\ d # c
      BY <1>0, <1>1, <3>1, OwnerShape DEF OwnersNamed, Owns
    <3>. QED  BY <3>2
  <2>2. CASE \A d \in Callers : ~Owns(d, k)
    BY <1>0, <2>2, OwnerShape, CandidatesAssumption DEF OwnersNamed
  <2>. QED  BY <2>1, <2>2
<1>5. Owner(k)' = [caller |-> c, legal |-> Legal(c)]
  <2>1. Key(c)' = k /\ Legal(c)' = Legal(c)
    BY <1>1 DEF Key, Legal
  <2>2. Active(c)'
    <3>1. mine.epoch # 0
      BY <1>0 DEF TypeOK
    <3>. QED  BY <1>0, <1>2, <2>1, <3>1 DEF Active, NoLease
  <2>3. Owns(c, k)'
    BY <1>2, <2>1, <2>2 DEF Owns, Holding
  <2>4. OwnersNamed'
    BY OwnerShape, PTL
  <2>. QED  BY <1>0, <2>1, <2>3, <2>4 DEF OwnersNamed
<1>6. \A j \in Keys : j # k => Owner(j)' = Owner(j)
  BY <1>0, <1>1, <1>2, OtherOwners
<1>7. [j \in Keys |-> Owner(j)]' =
        [[j \in Keys |-> Owner(j)] EXCEPT ![k] = [caller |-> c, legal |-> Legal(c)]]
  BY <1>0, <1>5, <1>6
<1>. QED  BY <1>0, <1>1, <1>3, <1>4, <1>7 DEF Flight!Grant

\* Publishing settles the problem of the lease.
LEMMA PublishSettles ==
  ASSUME LeaseInv, LeaseInv', NEW c \in Callers, Publish(c), Active(c),
         NEW k \in Keys, k = Key(c), NEW l \in LegalSets, l = Legal(c)
  PROVE  Flight!Settle(c, k, l)
<1>0. TypeOK
  BY DEF LeaseInv
<1>1. /\ lease' = [lease EXCEPT ![k] = NoLease]
      /\ results' = [results EXCEPT ![k][l] =
                       [winner |-> choice[c], epoch |-> permit[c].epoch]]
      /\ pc[c] = "publish" /\ pc' = [pc EXCEPT ![c] = "notifyCommit"]
      /\ UNCHANGED <<req, permit>>
  BY DEF Publish, Goto
<1>2. /\ Owner(k) = [caller |-> c, legal |-> l]
      /\ [j \in Keys |-> Owner(j)]' =
           [[j \in Keys |-> Owner(j)] EXCEPT ![k] = [caller |-> None, legal |-> {}]]
  <2>1. pc[c] \in Holding /\ pc'[c] \notin Holding
        /\ \A d \in Callers : d # c => pc'[d] = pc[d]
    BY <1>0, <1>1 DEF Holding, Finishing, TypeOK
  <2>. QED  BY <1>0, <1>1, <2>1, KeyFreed
<1>3. choice[c] \in l
  BY <1>1 DEF LeaseInv, ChoiceLegal, Finishing
<1>4. results[k][l] = NoResult
  BY <1>1 DEF LeaseInv, OwnerUnsettled, Holding, Finishing
<1>5. Winners' = [Winners EXCEPT ![k][l] = choice[c]]
  BY <1>0, <1>1 DEF Winners, TypeOK
<1>6. Winners[k][l] = None
  BY <1>0, <1>4 DEF Winners, NoResult
<1>. QED  BY <1>0, <1>2, <1>3, <1>5, <1>6 DEF Flight!Settle, Flight!Free, Winners

\* Releasing a lease one still owns revokes it.
LEMMA ReleaseRevokes ==
  ASSUME LeaseInv, LeaseInv', NEW c \in Callers, Release(c), Active(c)
  PROVE  Flight!Revoke(Key(c))
<1>. DEFINE k == Key(c)
<1>0. TypeOK /\ k \in Keys
  BY DEF LeaseInv, TypeOK, Key, Request
<1>1. /\ lease' = [lease EXCEPT ![k] = NoLease]
      /\ pc[c] = "release" /\ pc' = [pc EXCEPT ![c] = "notifyRelease"]
      /\ UNCHANGED <<req, permit, results>>
  BY DEF Release, Goto
<1>2. [j \in Keys |-> Owner(j)]' =
        [[j \in Keys |-> Owner(j)] EXCEPT ![k] = [caller |-> None, legal |-> {}]]
  <2>1. pc[c] \in Holding /\ \A d \in Callers : d # c => pc'[d] = pc[d]
    BY <1>0, <1>1 DEF Holding, TypeOK
  <2>. QED  BY <1>0, <1>1, <2>1, KeyFreed
<1>. QED  BY <1>1, <1>2 DEF Flight!Revoke, Flight!Free

FlightVars == <<[k \in Keys |-> Owner(k)], Winners>>

LEMMA FlightNext ==
  LeaseInv /\ LeaseInv' /\ [Next]_vars => Flight!Next \/ UNCHANGED FlightVars
<1>. SUFFICES ASSUME LeaseInv, LeaseInv', [Next]_vars
              PROVE  Flight!Next \/ UNCHANGED FlightVars
  OBVIOUS
<1>. USE DEF serviceVars, leaseVars
<1>1. ASSUME UNCHANGED <<lease, results>>,
             \A c \in Callers :
               /\ pc'[c] \in Holding <=> pc[c] \in Holding
               /\ pc[c] \in Holding => permit'[c] = permit[c] /\ req'[c] = req[c]
      PROVE  UNCHANGED FlightVars
  BY <1>1, FlightFrame DEF FlightVars, Winners
<1>2. CASE UNCHANGED vars \/ Tick \/ \E r \in Ranks : Vote(r) \/ VoteCollective(r)
  BY <1>1, <1>2 DEF vars, Tick, Vote, VoteCollective
<1>3. ASSUME NEW c \in Callers, Step(c) PROVE Flight!Next \/ UNCHANGED FlightVars
  <2>0. TypeOK /\ Key(c) \in Keys /\ Legal(c) \in LegalSets
    BY DEF LeaseInv, TypeOK, Key, Legal, Request
  <2>1. CASE LoopLeases(c)
    BY <2>0, <2>1, LeasesGrant DEF Flight!Next
  <2>2. CASE Publish(c) /\ Active(c)
    <3>1. PICK k \in Keys, l \in LegalSets : k = Key(c) /\ l = Legal(c)
      BY <2>0
    <3>2. Flight!Settle(c, k, l)
      BY <2>2, <3>1, PublishSettles
    <3>. QED  BY <3>2, Zenon DEF Flight!Next
  <2>3. CASE Release(c) /\ Active(c)
    BY <2>0, <2>3, ReleaseRevokes DEF Flight!Next
  \* Nobody who does not own a lease changes the owners.
  <2>4. CASE Release(c) /\ ~Active(c)
    <3>1. \A d \in Callers, k \in Keys :
            /\ Owns(d, k)' <=> Owns(d, k)
            /\ Owns(d, k) => Legal(d)' = Legal(d)
      BY <2>0, <2>4 DEF Release, Goto, Owns, Active, Key, Legal, Holding, Finishing, TypeOK
    <3>2. \A k \in Keys : Owner(k)' = Owner(k)
      BY <3>1, OwnerKept
    <3>. QED  BY <2>4, <3>2 DEF Release, FlightVars, Winners
  <2>. USE <2>0 DEF TypeOK, Goto, Holding, Finishing
  <2>5. ASSUME UNCHANGED <<lease, results>>,
               \A d \in Callers : d # c =>
                 pc'[d] = pc[d] /\ permit'[d] = permit[d] /\ req'[d] = req[d],
               pc'[c] \in Holding <=> pc[c] \in Holding,
               pc[c] \in Holding => permit'[c] = permit[c] /\ req'[c] = req[c]
        PROVE  UNCHANGED FlightVars
    BY <1>1, <2>5
  <2>6. CASE Decide(c)
    BY <2>5, <2>6 DEF Decide, Fail, Return
  <2>7. CASE LookupResults(c)
    BY <2>5, <2>7 DEF LookupResults, Return
  <2>8. CASE LookupCache(c)
    BY <2>5, <2>8 DEF LookupCache, Return
  <2>9. CASE LoopFindsResult(c)
    BY <2>5, <2>9 DEF LoopFindsResult, InLoop, Return
  <2>10. CASE LoopWaits(c) \/ Wake(c) \/ SpuriousWake(c)
    BY <2>5, <2>10 DEF LoopWaits, InLoop, Wake, SpuriousWake
  <2>11. CASE WaitTimeout(c)
    BY <2>5, <2>11 DEF WaitTimeout, InLoop, Fail, Return
  <2>12. CASE CommitLocal(c)
    BY <2>5, <2>12 DEF CommitLocal, StartFinish, Refuse
  <2>13. CASE CommitCoordinated(c) \/ CommitCollective(c)
    <3>1. PICK candidate \in Candidates :
            StartFinish(c, candidate) \/ (Refuse(c) /\ UNCHANGED choice)
      BY <2>13, CoordinatedFinish, CollectiveFinish
    <3>. QED  BY <2>5, <2>13, <3>1
         DEF CommitCoordinated, CommitCollective, StartFinish, Refuse
  <2>14. CASE CheckActive(c) \/ Cancel(c)
    BY <2>5, <2>14 DEF CheckActive, Cancel, Refuse
  <2>15. CASE Persist(c)
    BY <2>5, <2>15 DEF Persist, Refuse
  <2>16. CASE Publish(c) /\ ~Active(c)
    BY <2>5, <2>16 DEF Publish, Refuse
  <2>17. CASE NotifyCommit(c)
    BY <2>5, <2>17 DEF NotifyCommit, Return, DropPermit
  <2>18. CASE NotifyRelease(c)
    BY <2>5, <2>18 DEF NotifyRelease, Fail, Return, DropPermit
  <2>. QED  BY <1>3, <2>1, <2>2, <2>3, <2>4, <2>6, <2>7, <2>8, <2>9, <2>10, <2>11, <2>12,
               <2>13, <2>14, <2>15, <2>16, <2>17, <2>18 DEF Step, Serve
<1>. QED  BY <1>2, <1>3 DEF Next

\* Epochs, deadlines, expiries, releases and late commits together keep the
\* promise of SingleFlight: one owner a key, who alone settles, once.
THEOREM FlightImplemented == Spec => ImplementsSingleFlight
<1>1. LeaseInv /\ LeaseInv' /\ [Next]_vars =>
        [Flight!Next]_<<[k \in Keys |-> Owner(k)],
                        [k \in Keys |-> [l \in LegalSets |-> results[k][l].winner]]>>
  BY FlightNext DEF FlightVars, Winners
<1>. QED  BY LeaseInvariant, FlightInit, <1>1, PTL DEF Spec, ImplementsSingleFlight, Flight!Spec
=============================================================================
