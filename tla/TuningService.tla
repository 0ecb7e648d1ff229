--------------------------- MODULE TuningService ---------------------------
(***************************************************************************)
(* The single-flight lease protocol of the autotuning service: one         *)
(* TuningService shared by several callers, each of which asks for a       *)
(* decision on a (key, legal candidate set) pair and is given a selection, *)
(* told to measure under a time-bounded lease, made to wait for somebody   *)
(* else's lease, or refused.                                               *)
(*                                                                         *)
(* One action is one critical section of the code: a stretch executed      *)
(* under `state`, under `cache`, or between two of them.  A legal set      *)
(* stands for its digest, a candidate for its hash and encoding.           *)
(***************************************************************************)
EXTENDS Naturals, FiniteSets

CONSTANTS
  Callers,        \* threads sharing one service
  Keys,           \* cache keys
  Candidates,     \* tuning candidates
  LegalSets,      \* the filtered candidate sets the contexts can produce
  Ranks,          \* ranks that may send a vote
  Pair,           \* ranks 0 and 1, the ones collective tuning knows
  Topologies,     \* the sets of ranks a service may coordinate; one rank without a topology
  Policies,       \* the policies the service may be built with
  PolicyBudget,   \* budget of CoordinatedWarmup
  TimeBudgets,    \* time budgets contexts are built with
  Imported,       \* the records a profile may hold when it is opened
  MaxTime,        \* bound: the clock stops here
  MaxEpoch,       \* bound: epochs handed out
  MaxVotes,       \* bound: votes sent
  None            \* no candidate, no caller

ASSUME NonEmptyAssumption ==
  Keys # {} /\ LegalSets # {} /\ Candidates # {} /\ TimeBudgets # {}
ASSUME CandidatesAssumption ==
  None \notin Candidates \cup Callers /\ LegalSets \subseteq (SUBSET Candidates) \ {{}}
ASSUME TopologiesAssumption ==
  /\ \A T \in Topologies : IsFiniteSet(T) /\ T # {} /\ T \subseteq Ranks
  /\ Pair \subseteq Ranks
ASSUME PolicyAssumption ==
  Policies \subseteq {"Disabled", "Heuristic", "ProfileGuided", "CoordinatedWarmup"}
ASSUME ImportedAssumption == Imported \subseteq [legal: LegalSets, winner: Candidates]
ASSUME BudgetAssumption ==
  PolicyBudget \in Nat \ {0} /\ TimeBudgets \subseteq Nat \ {0}
ASSUME BoundAssumption == {MaxTime, MaxEpoch, MaxVotes} \subseteq Nat

VARIABLES
  policy,      \* the AutotunePolicy, fixed at construction
  participants, \* the ranks of the topology, fixed at construction
  attached,    \* whether a persistent cache is attached, fixed at construction
  now,         \* the monotonic clock every deadline is read against
  nextEpoch,   \* next_epoch
  lease,       \* leases: key -> epoch and deadline, NoLease when absent
  results,     \* results: key, legal set -> winner and the epoch that measured it
  cache,       \* entries of the attached persistent cache: key -> record
  ballots,     \* every accepting vote a rank has sent; one may be late, or used twice
  pc,          \* the step each caller is at
  req,         \* the arguments of the caller's current decide
  permit,      \* the caller's TuningPermit: its epoch and deadline
  choice,      \* the candidate the caller is committing
  sleep,       \* the caller's wait on `ready`
  reply        \* what the last call to return returned, whoever made it

serviceVars == <<policy, participants, attached>>
leaseVars == <<nextEpoch, lease, results>>
vars == <<serviceVars, now, leaseVars, cache, ballots, pc, req, permit, choice, sleep, reply>>

NoLease  == [epoch |-> 0, deadline |-> 0]     \* next_epoch starts at 1
NoResult == [winner |-> None, epoch |-> 0]
NoEntry  == [legal |-> {}, winner |-> None]
NoPermit == NoLease
NoEpoch  == 0                                 \* of a CommitVote: it names none
NoReply  == [outcome |-> "None", candidate |-> None, legal |-> {}]
Awake    == [wakeAt |-> 0, signalled |-> FALSE, timedOut |-> FALSE]

Deciding  == {"results", "cache", "loop", "waiting", "woken"}
Finishing == {"check", "persist", "publish"}
Holding   == {"measuring", "release"} \cup Finishing
Notifying == {"notifyCommit", "notifyRelease"}
Labels    == {"idle"} \cup Deciding \cup Holding \cup Notifying
Outcomes  == {"None", "IllegalDeclaration", "Disabled", "Heuristic", "Profile",
              "WarmupCache", "Measurement", "WaitTimeout", "Released"}

MinOf(a, b) == IF a <= b THEN a ELSE b

----------------------------------------------------------------------------
(* State functions.                                                        *)

Key(c)   == req[c].key
Legal(c) == req[c].legal

\* A mutant: leases end one instant early.
HeldEarly(k) == lease[k] # NoLease /\ now + 1 < lease[k].deadline

Held(k) == lease[k] # NoLease /\ now < lease[k].deadline
Expired(k) == lease[k] # NoLease /\ now >= lease[k].deadline

\* The test of finish and release: the lease of my key is mine.
Active(c) == lease[Key(c)] # NoLease /\ lease[Key(c)].epoch = permit[c].epoch

\* A mutant: any recorded winner is used.
UsableUnchecked(winner, legal) == winner # None

\* selection_from_record: a recorded winner counts only if it is still legal.
Usable(winner, legal) == winner \in legal

NotifyAll ==
  [d \in Callers |->
     IF pc[d] = "waiting" THEN [sleep[d] EXCEPT !.signalled = TRUE] ELSE sleep[d]]

\* Placeholder arguments of a caller that is not in a call.
AnyRequest ==
  CHOOSE r \in [key: Keys, legal: LegalSets, heuristic: Candidates,
                budget: TimeBudgets, deadline: {0}] : TRUE

Goto(c, label) == pc' = [pc EXCEPT ![c] = label]

\* A call returns: its outcome, and the arguments it was about are gone.
Return(c, outcome, candidate, legal) ==
  /\ Goto(c, "idle")
  /\ req' = [req EXCEPT ![c] = AnyRequest]
  /\ reply' = [outcome |-> outcome, candidate |-> candidate, legal |-> legal]
Fail(c, outcome) == Return(c, outcome, None, {})

\* Any error return of a commit: the permit goes out of scope, and its Drop
\* releases the lease before the error reaches the caller.
Refuse(c) == Goto(c, "release")

InFlight == {d \in Callers : pc[d] # "idle"}

----------------------------------------------------------------------------
Init ==
  /\ policy \in Policies /\ participants \in Topologies
  /\ attached \in BOOLEAN /\ (policy = "ProfileGuided" => attached)
  /\ now = 0
  /\ nextEpoch = 1
  /\ lease = [k \in Keys |-> NoLease]
  /\ results = [k \in Keys |-> [l \in LegalSets |-> NoResult]]
  \* An opened profile may name any winner: its bytes are untrusted.
  /\ cache \in [Keys -> {NoEntry} \cup {record \in Imported : attached}]
  /\ ballots = {}
  /\ pc = [c \in Callers |-> "idle"]
  /\ req = [c \in Callers |-> AnyRequest]
  /\ permit = [c \in Callers |-> NoPermit]
  /\ choice = [c \in Callers |-> None]
  /\ sleep = [c \in Callers |-> Awake]
  /\ reply = NoReply

----------------------------------------------------------------------------
(* decide                                                                  *)

\* Argument checks, and the policies that answer at once.  The heuristic is kept
\* only under the policy that reads it later.
Decide(c) ==
  /\ pc[c] = "idle"
  /\ now <= MaxTime /\ nextEpoch + Cardinality(InFlight) <= MaxEpoch
  /\ \E k \in Keys, legal \in LegalSets, budget \in TimeBudgets,
        fallback \in Candidates, heuristic \in Candidates :
       LET declared == {fallback, heuristic} \subseteq legal
       IN  \/ ~declared /\ Fail(c, "IllegalDeclaration")
           \/ declared /\ policy = "Disabled" /\ Return(c, "Disabled", fallback, legal)
           \/ declared /\ policy = "Heuristic" /\ Return(c, "Heuristic", heuristic, legal)
           \/ /\ declared /\ policy \in {"ProfileGuided", "CoordinatedWarmup"}
              /\ req' = [req EXCEPT ![c] =
                   [key |-> k, legal |-> legal, budget |-> budget, deadline |-> 0,
                    heuristic |-> IF policy = "ProfileGuided" THEN heuristic
                                  ELSE AnyRequest.heuristic]]
              /\ Goto(c, "results")
              /\ reply' = NoReply
  /\ UNCHANGED <<serviceVars, now, leaseVars, cache, ballots, permit, choice, sleep>>

CachedSource == IF policy = "ProfileGuided" THEN "Profile" ELSE "WarmupCache"

\* cached_selection, first half: the results table, under the state lock.
LookupResults(c) ==
  /\ pc[c] = "results"
  /\ LET winner == results[Key(c)][Legal(c)].winner
     IN  \/ Usable(winner, Legal(c)) /\ Return(c, CachedSource, winner, Legal(c))
         \/ ~Usable(winner, Legal(c)) /\ Goto(c, "cache") /\ UNCHANGED <<req, reply>>
  /\ UNCHANGED <<serviceVars, now, leaseVars, cache, ballots, permit, choice, sleep>>

\* cached_selection, second half: the persistent cache, under its own lock.
\* A miss ends a profile-guided decide with the heuristic; a coordinated one
\* fixes its wait deadline and goes on to the lease table.
LookupCache(c) ==
  /\ pc[c] = "cache"
  /\ LET entry == cache[Key(c)]
         hit == entry.legal = Legal(c) /\ Usable(entry.winner, Legal(c))
     IN  \/ hit /\ Return(c, CachedSource, entry.winner, Legal(c))
         \/ /\ ~hit /\ policy = "ProfileGuided"
            /\ Return(c, "Heuristic", req[c].heuristic, Legal(c))
         \/ /\ ~hit /\ policy = "CoordinatedWarmup"
            /\ Goto(c, "loop")
            /\ req' = [req EXCEPT ![c].deadline = now + req[c].budget]
            /\ UNCHANGED reply
  /\ UNCHANGED <<serviceVars, now, leaseVars, cache, ballots, permit, choice, sleep>>

\* The body of the wait loop, entered with the state lock held: from the top,
\* or after a wait that did not end at the wait deadline.
InLoop(c) ==
  \/ pc[c] = "loop"
  \/ pc[c] = "woken" /\ ~(sleep[c].timedOut /\ now >= req[c].deadline)

LoopFindsResult(c) ==
  /\ InLoop(c)
  /\ LET winner == results[Key(c)][Legal(c)].winner
     IN  Usable(winner, Legal(c)) /\ Return(c, "WarmupCache", winner, Legal(c))
  /\ sleep' = [sleep EXCEPT ![c] = Awake]
  /\ UNCHANGED <<serviceVars, now, leaseVars, cache, ballots, permit, choice>>

\* A mutant: the wait is not cut short at the caller's own deadline.
LoopWaitsForLease(c) ==
  /\ InLoop(c)
  /\ ~Usable(results[Key(c)][Legal(c)].winner, Legal(c))
  /\ Held(Key(c))
  /\ Goto(c, "waiting")
  /\ sleep' = [sleep EXCEPT ![c] = [Awake EXCEPT !.wakeAt = lease[Key(c)].deadline + MaxTime]]
  /\ UNCHANGED <<serviceVars, now, leaseVars, cache, ballots, req, permit, choice, reply>>

LoopWaits(c) ==
  /\ InLoop(c)
  /\ ~Usable(results[Key(c)][Legal(c)].winner, Legal(c))
  /\ Held(Key(c))
  /\ now < req[c].deadline
  /\ Goto(c, "waiting")
  /\ sleep' = [sleep EXCEPT ![c] =
                 [Awake EXCEPT !.wakeAt = MinOf(lease[Key(c)].deadline, req[c].deadline)]]
  /\ UNCHANGED <<serviceVars, now, leaseVars, cache, ballots, req, permit, choice, reply>>

\* The two WaitTimeout returns: in the loop body, and straight after a wait.
WaitTimeout(c) ==
  /\ \/ /\ InLoop(c)
        /\ ~Usable(results[Key(c)][Legal(c)].winner, Legal(c))
        /\ Held(Key(c))
     \/ pc[c] = "woken" /\ sleep[c].timedOut
  /\ now >= req[c].deadline
  /\ Fail(c, "WaitTimeout")
  /\ sleep' = [sleep EXCEPT ![c] = Awake]
  /\ UNCHANGED <<serviceVars, now, leaseVars, cache, ballots, permit, choice>>

\* No lease, or an expired one that this caller removes (waking every waiter)
\* before it takes its own, without releasing the lock in between.
LoopLeases(c) ==
  /\ InLoop(c)
  /\ ~Usable(results[Key(c)][Legal(c)].winner, Legal(c))
  /\ ~Held(Key(c))
  /\ LET mine == [epoch |-> nextEpoch,
                  deadline |-> now + MinOf(PolicyBudget, req[c].budget)]
     IN  /\ lease' = [lease EXCEPT ![Key(c)] = mine]
         /\ permit' = [permit EXCEPT ![c] = mine]
  /\ nextEpoch' = nextEpoch + 1
  /\ Goto(c, "measuring")
  /\ sleep' = [(IF Expired(Key(c)) THEN NotifyAll ELSE sleep) EXCEPT ![c] = Awake]
  /\ UNCHANGED <<serviceVars, now, results, cache, ballots, req, choice, reply>>

\* Condvar::wait_timeout returns: notified or at its timeout...
Wake(c) ==
  /\ pc[c] = "waiting"
  /\ \E timedOut \in BOOLEAN :
       /\ IF timedOut THEN now >= sleep[c].wakeAt ELSE sleep[c].signalled
       /\ sleep' = [sleep EXCEPT ![c].timedOut = timedOut]
  /\ Goto(c, "woken")
  /\ UNCHANGED <<serviceVars, now, leaseVars, cache, ballots, req, permit, choice, reply>>

\* ... or for no reason at all.
SpuriousWake(c) ==
  /\ pc[c] = "waiting"
  /\ Goto(c, "woken")
  /\ UNCHANGED <<serviceVars, now, leaseVars, cache, ballots, req, permit, choice, sleep, reply>>

----------------------------------------------------------------------------
(* The permit                                                              *)

\* A rank accepts the measurement of a permit.  A vote that rejects refuses the
\* commit it is used in, as a missing vote does, and is left out.
Vote(r) ==
  /\ Cardinality(participants) > 1 /\ Cardinality(ballots) < MaxVotes
  /\ \E c \in Callers, candidate \in Candidates :
       /\ pc[c] = "measuring"
       /\ candidate \in Legal(c)
       /\ ballots' = ballots \cup
            {[rank |-> r, epoch |-> permit[c].epoch, candidate |-> candidate]}
  /\ UNCHANGED <<serviceVars, now, leaseVars, cache, pc, req, permit, choice, sleep, reply>>

\* A rank of the pair accepts the result of a collective measurement, which
\* needs no permit and may be over before there is one.
VoteCollective(r) ==
  /\ r \in Pair /\ Cardinality(participants) > 1 /\ Cardinality(ballots) < MaxVotes
  /\ \E candidate \in Candidates :
       ballots' = ballots \cup
         {[rank |-> r, epoch |-> NoEpoch, candidate |-> candidate]}
  /\ UNCHANGED <<serviceVars, now, leaseVars, cache, pc, req, permit, choice, sleep, reply>>

\* finish, before it takes any lock.
StartFinish(c, candidate) ==
  \E samples \in 0..1 :
    LET accepted == samples > 0 /\ now <= permit[c].deadline /\ candidate \in Legal(c)
    IN  \/ ~accepted /\ Refuse(c) /\ UNCHANGED choice
        \/ accepted /\ Goto(c, "check") /\ choice' = [choice EXCEPT ![c] = candidate]

CommitLocal(c) ==
  /\ pc[c] = "measuring"
  /\ \/ Cardinality(participants) # 1 /\ Refuse(c) /\ UNCHANGED choice
     \/ /\ Cardinality(participants) = 1
        /\ \E candidate \in Candidates : StartFinish(c, candidate)
  /\ UNCHANGED <<serviceVars, now, leaseVars, cache, ballots, req, permit, sleep, reply>>

\* A mutant: votes of an earlier lease count.
UnanimousAnyEpoch(votes, epoch, candidate) ==
  /\ Cardinality(DOMAIN votes) = Cardinality(participants)
  /\ \A i \in DOMAIN votes :
       /\ votes[i].rank \in participants
       /\ \A j \in DOMAIN votes : votes[j].rank = votes[i].rank => j = i
       /\ votes[i].candidate = candidate

\* commit_coordinated's walk over the votes: right count, every rank a
\* participant, none twice, all for this epoch and this candidate.
Unanimous(votes, epoch, candidate) ==
  /\ Cardinality(DOMAIN votes) = Cardinality(participants)
  /\ \A i \in DOMAIN votes :
       /\ votes[i].rank \in participants
       /\ \A j \in DOMAIN votes : votes[j].rank = votes[i].rank => j = i
       /\ votes[i].epoch = epoch /\ votes[i].candidate = candidate

CommitCoordinated(c) ==
  /\ pc[c] = "measuring"
  /\ Cardinality(participants) > 1
  /\ \E candidate \in Candidates, n \in 1..Cardinality(participants) :
       \E votes \in [1..n -> ballots] :
         IF Unanimous(votes, permit[c].epoch, candidate)
         THEN StartFinish(c, candidate)
         ELSE Refuse(c) /\ UNCHANGED choice
  /\ UNCHANGED <<serviceVars, now, leaseVars, cache, ballots, req, permit, sleep, reply>>

\* commit_collective_tuning: one vote from each rank of the pair.
Committed(candidate) ==
  \A r \in Pair :
    [rank |-> r, epoch |-> NoEpoch, candidate |-> candidate] \in ballots

CommitCollective(c) ==
  /\ pc[c] = "measuring"
  /\ \E candidate \in Candidates :
       /\ Committed(candidate)
       /\ IF participants = Pair
          THEN StartFinish(c, candidate)
          ELSE Refuse(c) /\ UNCHANGED choice
  /\ UNCHANGED <<serviceVars, now, leaseVars, cache, ballots, req, permit, sleep, reply>>

\* finish: the first look at the lease, under the state lock.
CheckActive(c) ==
  /\ pc[c] = "check"
  /\ IF Active(c) THEN Goto(c, "persist") ELSE Refuse(c)
  /\ UNCHANGED <<serviceVars, now, leaseVars, cache, ballots, req, permit, choice, sleep, reply>>

\* finish: the record goes to the persistent cache, if there is one, under the
\* cache lock only.  A cache error refuses the commit.
Persist(c) ==
  /\ pc[c] = "persist"
  /\ \/ ~attached /\ Goto(c, "publish") /\ UNCHANGED cache
     \/ /\ attached
        /\ cache' = [cache EXCEPT ![Key(c)] = [legal |-> Legal(c), winner |-> choice[c]]]
        /\ Goto(c, "publish")
     \/ attached /\ Refuse(c) /\ UNCHANGED cache
  /\ UNCHANGED <<serviceVars, now, leaseVars, ballots, req, permit, choice, sleep, reply>>

\* A mutant: the lease is not looked at again.
PublishUnchecked(c) ==
  /\ pc[c] = "publish"
  /\ lease' = [lease EXCEPT ![Key(c)] = NoLease]
  /\ results' = [results EXCEPT ![Key(c)][Legal(c)] =
                   [winner |-> choice[c], epoch |-> permit[c].epoch]]
  /\ Goto(c, "notifyCommit")
  /\ UNCHANGED <<serviceVars, now, nextEpoch, cache, ballots, req, permit, choice, sleep, reply>>

\* finish: the second look at the lease and the publication, one critical section.
Publish(c) ==
  /\ pc[c] = "publish"
  /\ \/ /\ Active(c)
        /\ lease' = [lease EXCEPT ![Key(c)] = NoLease]
        /\ results' = [results EXCEPT ![Key(c)][Legal(c)] =
                         [winner |-> choice[c], epoch |-> permit[c].epoch]]
        /\ Goto(c, "notifyCommit")
     \/ ~Active(c) /\ Refuse(c) /\ UNCHANGED <<lease, results>>
  /\ UNCHANGED <<serviceVars, now, nextEpoch, cache, ballots, req, permit, choice, sleep, reply>>

\* The permit is gone once its holder has called notify_all.
DropPermit(c) ==
  /\ permit' = [permit EXCEPT ![c] = NoPermit]
  /\ choice' = [choice EXCEPT ![c] = None]

NotifyCommit(c) ==
  /\ pc[c] = "notifyCommit"
  /\ sleep' = NotifyAll
  /\ Return(c, "Measurement", choice[c], Legal(c))
  /\ DropPermit(c)
  /\ UNCHANGED <<serviceVars, now, leaseVars, cache, ballots>>

\* cancel, or the permit dropped without a commit.
Cancel(c) ==
  /\ pc[c] = "measuring"
  /\ Refuse(c)
  /\ UNCHANGED <<serviceVars, now, leaseVars, cache, ballots, req, permit, choice, sleep, reply>>

\* release, under the state lock, then its notify_all outside it.
Release(c) ==
  /\ pc[c] = "release"
  /\ lease' = IF Active(c) THEN [lease EXCEPT ![Key(c)] = NoLease] ELSE lease
  /\ Goto(c, "notifyRelease")
  /\ UNCHANGED <<serviceVars, now, nextEpoch, results, cache, ballots, req, permit, choice, sleep, reply>>

\* A mutant: a released lease wakes nobody.
NotifyReleaseSilently(c) ==
  /\ pc[c] = "notifyRelease"
  /\ Fail(c, "Released")
  /\ DropPermit(c)
  /\ UNCHANGED <<serviceVars, now, leaseVars, cache, ballots, sleep>>

NotifyRelease(c) ==
  /\ pc[c] = "notifyRelease"
  /\ sleep' = NotifyAll
  /\ Fail(c, "Released")
  /\ DropPermit(c)
  /\ UNCHANGED <<serviceVars, now, leaseVars, cache, ballots>>

----------------------------------------------------------------------------
\* The bound on the clock never keeps a caller from reaching its wait deadline.
Tick ==
  /\ \/ now < MaxTime
     \/ \E c \in Callers : pc[c] \in {"loop", "waiting", "woken"} /\ now < req[c].deadline
  /\ now' = now + 1
  /\ UNCHANGED <<serviceVars, leaseVars, cache, ballots, pc, req, permit, choice, sleep, reply>>

\* The steps of the service itself, which a running thread keeps taking; what
\* is left out is up to the application: calling, measuring, committing.
Serve(c) ==
  \/ LookupResults(c) \/ LookupCache(c)
  \/ LoopFindsResult(c) \/ LoopWaits(c) \/ WaitTimeout(c) \/ LoopLeases(c) \/ Wake(c)
  \/ CheckActive(c) \/ Persist(c) \/ Publish(c) \/ NotifyCommit(c)
  \/ Release(c) \/ NotifyRelease(c)

Step(c) ==
  \/ Decide(c) \/ SpuriousWake(c)
  \/ CommitLocal(c) \/ CommitCoordinated(c) \/ CommitCollective(c) \/ Cancel(c)
  \/ Serve(c)

Next ==
  \/ Tick
  \/ \E r \in Ranks : Vote(r) \/ VoteCollective(r)
  \/ \E c \in Callers : Step(c)

Spec == Init /\ [][Next]_vars

\* Service threads keep running and the clock keeps going.  Nothing makes the
\* application commit or cancel the permit it holds.
FairSpec == Spec /\ WF_vars(Tick) /\ \A c \in Callers : WF_vars(Serve(c))

----------------------------------------------------------------------------
(* Properties                                                              *)

Request == [key: Keys, legal: LegalSets, heuristic: Candidates,
            budget: TimeBudgets, deadline: Nat]
Lease == [epoch: Nat, deadline: Nat]
Record == [winner: Candidates \cup {None}, epoch: Nat]
Entry == [legal: LegalSets \cup {{}}, winner: Candidates \cup {None}]
Ballot == [rank: Ranks, epoch: Nat, candidate: Candidates]
Sleep == [wakeAt: Nat, signalled: BOOLEAN, timedOut: BOOLEAN]
Reply == [outcome: Outcomes, candidate: Candidates \cup {None},
          legal: LegalSets \cup {{}}]

\* The shape of every variable.
TypeOK ==
  /\ policy \in Policies /\ participants \in Topologies /\ attached \in BOOLEAN
  /\ now \in Nat
  /\ nextEpoch \in Nat \ {0}
  /\ lease \in [Keys -> Lease]
  /\ results \in [Keys -> [LegalSets -> Record]]
  /\ cache \in [Keys -> Entry]
  /\ ballots \subseteq Ballot
  /\ pc \in [Callers -> Labels]
  /\ req \in [Callers -> Request]
  /\ permit \in [Callers -> Lease]
  /\ choice \in [Callers -> Candidates \cup {None}]
  /\ sleep \in [Callers -> Sleep]
  /\ reply \in Reply

\* Two permits for one key are never both within their deadlines: decide leases
\* a key again only after the previous lease was given back or ran out, on the
\* same clock its holder's commit is refused by.
SingleFlight ==
  \A c, d \in Callers :
    c # d /\ {pc[c], pc[d]} \subseteq Holding /\ Key(c) = Key(d)
      => ~(now < permit[c].deadline /\ now < permit[d].deadline)

\* A caller asleep on `ready` that nobody has woken is waiting for the lease now
\* in the table, with no result to read, and will not sleep past its end; or the
\* thread that changed the table has still to call notify_all.
NoLostWakeup ==
  \A c \in Callers :
    pc[c] = "waiting" /\ ~sleep[c].signalled
      => \/ \E d \in Callers : pc[d] \in Notifying /\ Key(d) = Key(c)
         \/ /\ lease[Key(c)] # NoLease
            /\ sleep[c].wakeAt = MinOf(lease[Key(c)].deadline, req[c].deadline)
            /\ ~Usable(results[Key(c)][Legal(c)].winner, Legal(c))

\* A selection is legal for the context that asked, whatever an imported cache
\* record claims and whoever measured it.
SelectionLegal == reply.candidate # None => reply.candidate \in reply.legal

\* What several participants publish was accepted by all of them, in the epoch
\* that published it or in one collective measurement: late votes of an older
\* lease, repeated votes and a mixture of the two kinds do not count.
PublishedUnanimously ==
  \A k \in Keys, l \in LegalSets :
    results[k][l] # NoResult /\ Cardinality(participants) > 1
      => \E epoch \in {results[k][l].epoch, NoEpoch} : \A r \in participants :
           [rank |-> r, epoch |-> epoch, candidate |-> results[k][l].winner] \in ballots

\* A problem is measured to a result once: the result a caller may already have
\* read never changes, although expired holders keep running and try to commit.
ResultWrittenOnce ==
  [][\A k \in Keys, l \in LegalSets :
       results[k][l] # NoResult => results'[k][l] = results[k][l]]_vars

\* Every decide returns: a permit, a selection or WaitTimeout, even if the
\* holder it waits for never commits.
DecideReturns == \A c \in Callers : pc[c] \in Deciding ~> pc[c] \notin Deciding

\* The owner of a key is the caller whose permit has the epoch of the lease.
Owner(k) ==
  LET owners == {c \in Callers : pc[c] \in Holding /\ Key(c) = k /\ Active(c)}
  IN  IF owners = {} THEN [caller |-> None, legal |-> {}]
      ELSE LET c == CHOOSE c \in owners : TRUE IN [caller |-> c, legal |-> Legal(c)]

Flight == INSTANCE SingleFlight WITH
  Nobody <- None,
  owner <- [k \in Keys |-> Owner(k)],
  winner <- [k \in Keys |-> [l \in LegalSets |-> results[k][l].winner]]

\* The lease table with its epochs, deadlines, releases and expiries implements
\* the promise of SingleFlight: only the owner settles, and settled stays settled.
ImplementsSingleFlight == Flight!Spec
=============================================================================
