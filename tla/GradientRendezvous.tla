------------------------- MODULE GradientRendezvous -------------------------
(***************************************************************************)
(* The in-process rendezvous of two training ranks (ReferenceDataParallel  *)
(* in train.rs).  A rank deposits what it brings to a collective and waits *)
(* on a condition variable; the leader, when it finds both deposits, runs  *)
(* the transport and publishes one result for each rank.  Whole steps of   *)
(* gradients ("batch") and the collectives of FSDP ("single") use slots of *)
(* their own and share the poison, the liveness flags and the condition.   *)
(* One mutex guards everything: at most one rank is "looking".  A deposit  *)
(* is named by its rank's call; shape stands for the operation and the     *)
(* lengths that the ranks must agree on.                                   *)
(***************************************************************************)
EXTENDS Integers, Sequences

CONSTANTS
  Shapes,    \* what the ranks may bring to a collective
  MaxCalls   \* bound: collectives each rank calls

ASSUME RendezvousAssumption == MaxCalls \in Nat \ {0}

VARIABLES
  pending,   \* [slot][rank]: no deposit, or one
  ready,     \* [slot][rank]: no result, or one: the pair of deposits it combines
  poison,    \* why the pair has stopped, or "none"
  alive,     \* whether the rank still has its handle
  pc,        \* "idle", "looking" (has the mutex), "asleep", "awake", "expired"
  call,      \* each rank's call; late: it was made after the pair had stopped
  calls,     \* how many collectives each rank has called
  got,       \* history: the results returned to each rank
  failedAt   \* history: each rank's first call that failed, or 0

table == <<pending, ready>>
history == <<calls, got, failedAt>>
vars == <<table, poison, alive, pc, call, history>>

Ranks == {0, 1}
Leader == 1
Peer(r) == 1 - r
Slots == {"batch", "single"}
Reasons == {"none", "timeout", "gone", "diverged", "twice", "corrupt",
            "transport", "shutdown"}
Deposits == [step: 1..MaxCalls, shape: Shapes]
Calls == [slot: Slots, shape: Shapes, late: BOOLEAN]

Init ==
  /\ pending = [s \in Slots |-> [r \in Ranks |-> {}]]
  /\ ready = [s \in Slots |-> [r \in Ranks |-> {}]]
  /\ poison = "none"
  /\ alive = [r \in Ranks |-> TRUE]
  /\ pc = [r \in Ranks |-> "idle"]
  /\ \E c \in Calls : ~c.late /\ call = [r \in Ranks |-> c]
  /\ calls = [r \in Ranks |-> 0]
  /\ got = [r \in Ranks |-> <<>>]
  /\ failedAt = [r \in Ranks |-> 0]

Free == \A r \in Ranks : pc[r] # "looking"

\* notify_all; r goes on at place.
Notify(r, place) ==
  pc' = [p \in Ranks |-> IF p = r THEN place
                         ELSE IF pc[p] = "asleep" THEN "awake" ELSE pc[p]]
Go(r, place) == pc' = [pc EXCEPT ![r] = place]

\* The call of r, its n-th, ends with an error.
Fails(r, n) == failedAt' = [failedAt EXCEPT ![r] = IF @ = 0 THEN n ELSE @]

\* r stops the pair for this reason; an earlier reason is overwritten.
Stop(r, n, reason) ==
  /\ poison' = reason
  /\ Fails(r, n)
  /\ Notify(r, "idle")

----------------------------------------------------------------------------
(* A call: deposit, then look, and look again whenever the condition fires. *)

Deposit(r, slot, shape) ==
  /\ pending' = [pending EXCEPT ![slot][r] = {[step |-> calls[r] + 1, shape |-> shape]}]
  /\ Notify(r, "looking")
  /\ UNCHANGED <<poison, failedAt>>

Call(r, slot, shape) ==
  /\ pc[r] = "idle" /\ alive[r] /\ Free /\ calls[r] < MaxCalls
  /\ calls' = [calls EXCEPT ![r] = @ + 1]
  /\ call' = [call EXCEPT ![r] =
                [slot |-> slot, shape |-> shape, late |-> poison # "none"]]
  /\ IF pending[slot][r] = {}
       THEN Deposit(r, slot, shape)
       ELSE Stop(r, calls[r] + 1, "twice") /\ UNCHANGED pending
  /\ UNCHANGED <<ready, alive, got>>

Slot(r) == call[r].slot
Result(r) == ready[Slot(r)][r]
Mine(r) == pending[Slot(r)][r]
Theirs(r) == pending[Slot(r)][Peer(r)]

\* A result is there: it is taken before anything else is looked at.  Only the
\* batch path compares its shape with the call's.
Take(r) ==
  /\ pc[r] = "looking"
  /\ \E pair \in Result(r) :
       /\ ready' = [ready EXCEPT ![Slot(r)][r] = {}]
       /\ IF Slot(r) = "batch" /\ pair[r].shape # call[r].shape
            THEN Stop(r, calls[r], "corrupt") /\ UNCHANGED got
            ELSE /\ got' = [got EXCEPT ![r] =
                              Append(@, [pair |-> pair, late |-> call[r].late])]
                 /\ Go(r, "idle")
                 /\ UNCHANGED <<poison, failedAt>>
  /\ UNCHANGED <<pending, alive, call, calls>>

\* Mutant: a rank with a deposit does not look at the poison.
PoisonedUnmet(r) == poison # "none" /\ Theirs(r) = {}

Poisoned(r) == poison # "none"

Refuse(r) ==
  /\ pc[r] = "looking" /\ Result(r) = {} /\ Poisoned(r)
  /\ Fails(r, calls[r]) /\ Go(r, "idle")
  /\ UNCHANGED <<table, poison, alive, call, calls, got>>

PeerGone(r) ==
  /\ pc[r] = "looking" /\ Result(r) = {} /\ ~Poisoned(r) /\ ~alive[Peer(r)]
  /\ Stop(r, calls[r], "gone")
  /\ UNCHANGED <<table, alive, call, calls, got>>

Open(r) ==
  /\ pc[r] = "looking" /\ Result(r) = {}
  /\ ~Poisoned(r) /\ alive[Peer(r)]

\* Mutant: only the presence of the two deposits counts.
AgreeUnchecked(r) == Mine(r) # {}

Agree(r) == \E m \in Mine(r), t \in Theirs(r) : m.shape = t.shape

Diverge(r) ==
  /\ Open(r) /\ Theirs(r) # {} /\ ~Agree(r)
  /\ Stop(r, calls[r], "diverged")
  /\ UNCHANGED <<table, alive, call, calls, got>>

Emptied(r) == [pending EXCEPT ![Slot(r)] = [p \in Ranks |-> {}]]

Publish(r) ==
  /\ Open(r) /\ Theirs(r) # {} /\ Agree(r) /\ r = Leader
  /\ \E m \in Mine(r), t \in Theirs(r) :
       ready' = [ready EXCEPT ![Slot(r)] =
                   [p \in Ranks |-> {[q \in Ranks |-> IF q = r THEN m ELSE t]}]]
  /\ pending' = Emptied(r)
  /\ Notify(r, "looking")
  /\ UNCHANGED <<poison, alive, call, history>>

\* The transport refuses the deposits.
TransportRefuses(r) ==
  /\ Open(r) /\ Theirs(r) # {} /\ Agree(r) /\ r = Leader
  /\ pending' = Emptied(r)
  /\ Stop(r, calls[r], "transport")
  /\ UNCHANGED <<ready, alive, call, calls, got>>

Sleep(r) ==
  /\ Open(r) /\ (Theirs(r) = {} \/ (Agree(r) /\ r # Leader))
  /\ Go(r, "asleep")
  /\ UNCHANGED <<table, poison, alive, call, history>>

Wake(r) ==
  /\ pc[r] = "awake" /\ Free
  /\ Go(r, "looking")
  /\ UNCHANGED <<table, poison, alive, call, history>>

\* The time of the wait is over.  (A wake-up for no reason would look and sleep again.)
Expire(r) ==
  /\ pc[r] = "asleep" /\ Go(r, "expired")
  /\ UNCHANGED <<table, poison, alive, call, history>>

\* Mutant: the wait starts anew.
TimesOutAgain(r) ==
  /\ pc[r] = "expired" /\ Free
  /\ Go(r, "asleep")
  /\ UNCHANGED <<table, poison, alive, call, history>>

\* A wait that timed out fails, whatever was published since.
TimesOut(r) ==
  /\ pc[r] = "expired" /\ Free
  /\ Stop(r, calls[r], "timeout")
  /\ UNCHANGED <<table, alive, call, calls, got>>

----------------------------------------------------------------------------
(* The handles.                                                            *)

\* Mutant: the peer is not told.
LeaveSilently(r) ==
  /\ pc[r] = "idle" /\ alive[r] /\ Free
  /\ alive' = [alive EXCEPT ![r] = FALSE]
  /\ UNCHANGED <<table, poison, pc, call, history>>

\* The rank drops its handle: it is done, has failed, or panicked.
Leave(r) ==
  /\ pc[r] = "idle" /\ alive[r] /\ Free
  /\ alive' = [alive EXCEPT ![r] = FALSE]
  /\ Notify(r, "idle")
  /\ UNCHANGED <<table, poison, call, history>>

\* The driver stops the pair.
Shutdown ==
  /\ Free /\ poison = "none"
  /\ poison' = "shutdown"
  /\ pc' = [p \in Ranks |-> IF pc[p] = "asleep" THEN "awake" ELSE pc[p]]
  /\ UNCHANGED <<table, alive, call, history>>

Look(r) ==
  \/ Take(r) \/ Refuse(r) \/ PeerGone(r) \/ Diverge(r)
  \/ Publish(r) \/ TransportRefuses(r) \/ Sleep(r)
Thread(r) == Look(r) \/ Wake(r) \/ TimesOut(r)
Elsewhere(r) == Expire(r) \/ Leave(r)

Next ==
  \/ \E r \in Ranks : Thread(r) \/ Elsewhere(r)
  \/ \E r \in Ranks, slot \in Slots, shape \in Shapes : Call(r, slot, shape)
  \/ Shutdown

Spec == Init /\ [][Next]_vars

\* The threads run; nobody has to call, and no deadline has to pass.
FairSpec == Spec /\ \A r \in Ranks : WF_vars(Thread(r))

----------------------------------------------------------------------------
(* Properties                                                              *)

\* The shape of every variable; only one rank has the mutex, and a call fails
\* only when the pair has stopped.
TypeOK ==
  /\ pending \in [Slots -> [Ranks -> SUBSET Deposits]]
  /\ ready \in [Slots -> [Ranks -> SUBSET [Ranks -> Deposits]]]
  /\ poison \in Reasons
  /\ alive \in [Ranks -> BOOLEAN]
  /\ pc \in [Ranks -> {"idle", "looking", "asleep", "awake", "expired"}]
  /\ call \in [Ranks -> Calls]
  /\ calls \in [Ranks -> 0..MaxCalls]
  /\ got \in [Ranks -> Seq([pair: [Ranks -> Deposits], late: BOOLEAN])]
  /\ failedAt \in [Ranks -> 0..MaxCalls]
  /\ pc[0] # "looking" \/ pc[1] # "looking"
  /\ \A r \in Ranks : failedAt[r] # 0 => poison # "none"

\* Until its first error, the n-th result of a rank combines the n-th deposits of
\* both ranks, and they are of the same shape: no gradient is averaged with that of
\* another step or another tensor.
Paired ==
  \A r \in Ranks : failedAt[r] = 0 =>
    \A n \in 1..Len(got[r]) :
      LET pair == got[r][n].pair
      IN  pair[0] = pair[1] /\ pair[r].step = n

\* When a rank fails, its peer gets no result beyond the one that was already being
\* computed: the two replicas are at most one step apart.
BothStop ==
  \A r \in Ranks :
    failedAt[r] # 0 /\ failedAt[Peer(r)] = 0 => Len(got[Peer(r)]) <= failedAt[r]

\* A collective called after the pair has stopped does not succeed.
FutureRefuses ==
  \A r \in Ranks : \A n \in 1..Len(got[r]) : ~got[r][n].late

\* A rank in a call does not need its deadline to learn that the pair has stopped,
\* that its peer is gone or that its peer has brought its deposit.
Informed ==
  \A r \in Ranks :
    pc[r] # "idle" /\ (poison # "none" \/ ~alive[Peer(r)] \/ Theirs(r) # {})
      ~> pc[r] = "idle"

\* With the deadline, every call returns, whatever the peer does.
CallsReturn ==
  (\A r \in Ranks : WF_vars(Expire(r))) =>
    \A r \in Ranks : pc[r] # "idle" ~> pc[r] = "idle"
=============================================================================
