---------------------------- MODULE PipelineRun ----------------------------
(***************************************************************************)
(* One pipeline step on two ranks.  Each rank builds its own plan, the     *)
(* ranks compare plan summaries over TCP before they create an NCCL        *)
(* communicator, and then each works through the clocks of its stage and   *)
(* launches the plan's transfers one after the other.  A transfer is done  *)
(* when both ranks have launched it.  With a distributed context           *)
(* (connect_context) any failed call invalidates the context; without one  *)
(* (connect) nothing is remembered.  The repository has no executor of the *)
(* clocks yet: the one here computes as soon as the inputs are there.      *)
(***************************************************************************)
EXTENDS PipelineSchedule, Sequences

CONSTANTS
  Boundaries,       \* stage boundaries the ranks may name
  MaxMicrobatches,  \* bound: microbatches of a step
  MaxFaults,        \* bound: deaths, failed calls and slow peers
  WithContext       \* whether the transport has a fail-stop handle

ASSUME RunAssumption ==
  /\ Boundaries \subseteq Nat
  /\ MaxMicrobatches \in 1..MicrobatchLimit
  /\ MaxFaults \in Nat
  /\ WithContext \in BOOLEAN

VARIABLES
  plan,       \* the plan each rank built
  link,       \* each rank's connection: "start", "sent", "init", "up", "failed"
  answered,   \* rank 0 has written its summary and the unique id
  active,     \* whether the context of each rank is Active
  cursor,     \* NcclTransport::cursor
  submitted,  \* history: what each rank has put on its NCCL stream
  seen,       \* completion events each rank has waited for
  clock,      \* clocks of its stage each rank has worked through
  faults

connection == <<plan, link, answered>>
stream == <<cursor, submitted, seen>>
vars == <<connection, active, stream, clock, faults>>

Ranks == Stages
Root == 0
Peer == 1
Other(r) == 1 - r
Plans == [boundary: Boundaries, schedule: Schedules, microbatches: 1..MaxMicrobatches]

M(r) == plan[r].microbatches
Order(r) == TransferOrder(plan[r].schedule, M(r))
Work(r, c) == Clock(plan[r].schedule, M(r), c)[r]

\* build_checked; a plan whose clocks are not valid is not built.
Init ==
  /\ plan \in [Ranks -> Plans]
  /\ link = [r \in Ranks |->
               IF ValidClocks(plan[r].schedule, M(r)) THEN "start" ELSE "failed"]
  /\ answered = FALSE
  /\ active = [r \in Ranks |-> TRUE]
  /\ cursor = [r \in Ranks |-> 0]
  /\ submitted = [r \in Ranks |-> <<>>]
  /\ seen = [r \in Ranks |-> 0]
  /\ clock = [r \in Ranks |-> 0]
  /\ faults = 0

Fault == faults < MaxFaults /\ faults' = faults + 1
NoFault == UNCHANGED faults

\* What a failed call leaves behind: an invalid context, if there is one.
Invalidate(r) == active' = [active EXCEPT ![r] = @ /\ ~WithContext]

----------------------------------------------------------------------------
(* connect: the summaries are compared, then the communicator is created.  *)

LinkTo(r, stage) == link' = [link EXCEPT ![r] = stage]

\* Mutant: only the meshes and the numbers of collectives are compared.
CountsAgree == M(Root) = M(Peer)

\* preflight: mesh, number of collectives and hash of every descriptor.
PlansAgree == plan[Root] = plan[Peer]

Hello ==
  /\ link[Root] = "start" /\ link[Peer] = "start"
  /\ LinkTo(Peer, "sent")
  /\ UNCHANGED <<plan, answered, active, stream, clock, faults>>

\* Rank 0 answers only when it accepts; rank 1 compares again.
Compare(r) ==
  /\ IF r = Root THEN link[Root] = "start" /\ link[Peer] = "sent"
                 ELSE link[Peer] = "sent" /\ answered
  /\ \/ PlansAgree /\ LinkTo(r, "init") /\ answered' = TRUE /\ UNCHANGED active
     \/ ~PlansAgree /\ LinkTo(r, "failed") /\ Invalidate(r) /\ UNCHANGED answered
  /\ UNCHANGED <<plan, stream, clock, faults>>

\* A deadline elapses, or the other end is closed.
GiveUp(r) ==
  /\ link[r] \in {"start", "sent"}
  /\ \/ link[Other(r)] = "failed" /\ NoFault
     \/ Fault
  /\ LinkTo(r, "failed") /\ Invalidate(r)
  /\ UNCHANGED <<plan, answered, stream, clock>>

\* ncclCommInitRank returns when both ranks have called it.
CommInit ==
  /\ \A r \in Ranks : link[r] = "init"
  /\ link' = [r \in Ranks |-> "up"]
  /\ UNCHANGED <<plan, answered, active, stream, clock, faults>>

\* The CUDA device cannot be opened.
CommInitFails(r) ==
  /\ link[r] = "init" /\ Fault
  /\ LinkTo(r, "failed") /\ Invalidate(r)
  /\ UNCHANGED <<plan, answered, stream, clock>>

----------------------------------------------------------------------------
(* The transport.                                                          *)

Ready(r) == link[r] = "up" /\ active[r]
Exhausted(r) == cursor[r] = TransferCount(M(r))
Due(r) == Order(r)[cursor[r] + 1]

\* The executor has the data of transfer t: the source computed it.
Has(r, t) ==
  Source(t) = r => \E c \in 0..(clock[r] - 1) : Work(r, c) = t

\* validate_pipeline_launch: the call names the transfer that is due.
Names(r, t) ==
  /\ PlanTag(plan[r].boundary, t) = PlanTag(plan[r].boundary, Due(r))
  /\ Source(t) = Source(Due(r))

Launch(r, t) == submitted' = [submitted EXCEPT ![r] = Append(@, t)]

\* A call for transfer t; one that is not due is a mistake of the caller.
Execute(r, t) ==
  /\ Ready(r) /\ ~Exhausted(r)
  /\ Has(r, t)
  /\ IF t = Due(r) THEN NoFault ELSE Fault
  /\ IF Names(r, t)
       THEN /\ Launch(r, t)
            /\ cursor' = [cursor EXCEPT ![r] = @ + 1]
            /\ UNCHANGED active
       ELSE Invalidate(r) /\ UNCHANGED <<cursor, submitted>>
  /\ UNCHANGED <<connection, seen, clock>>

\* A call after the last transfer: PlanExhausted.
ExecuteTooMany(r) ==
  /\ Ready(r) /\ Exhausted(r) /\ Fault
  /\ Invalidate(r)
  /\ UNCHANGED <<connection, stream, clock>>

\* The call fails before the launch, or after it, when the event is recorded.
ExecuteFails(r) ==
  /\ Ready(r) /\ ~Exhausted(r) /\ Has(r, Due(r)) /\ Fault
  /\ Launch(r, Due(r)) \/ UNCHANGED submitted
  /\ Invalidate(r)
  /\ UNCHANGED <<connection, cursor, seen, clock>>

\* NCCL pairs the k-th operations of the two streams; it knows no names.  While
\* no call is repeated, the event of the k-th call is that of the k-th operation.
Completed(k) ==
  \A j \in 1..k :
    /\ \A r \in Ranks : j <= Len(submitted[r])
    /\ Source(submitted[Root][j]) = Source(submitted[Peer][j])

Waiting(r) == Ready(r) /\ seen[r] < cursor[r]

Wait(r) ==
  /\ Waiting(r) /\ Completed(seen[r] + 1)
  /\ seen' = [seen EXCEPT ![r] = @ + 1]
  /\ UNCHANGED <<connection, active, cursor, submitted, clock, faults>>

\* Mutant: wait instead of wait_timeout.
WaitUnbounded(r) ==
  /\ Waiting(r) /\ ~Completed(seen[r] + 1) /\ Fault
  /\ Invalidate(r)
  /\ UNCHANGED <<connection, stream, clock>>

\* wait_timeout gives up on a peer that is lost, or only slow.
WaitTimesOut(r) ==
  /\ Waiting(r) /\ ~Completed(seen[r] + 1)
  /\ IF Ready(Other(r)) THEN Fault ELSE NoFault
  /\ Invalidate(r)
  /\ UNCHANGED <<connection, stream, clock>>

----------------------------------------------------------------------------
(* The executor of the clocks, and the processes.                          *)

\* The transfer that brings a stage its input has been waited for.
Received(r, action) ==
  \E k \in 1..seen[r] : Order(r)[k] = action

InputReady(r, action) ==
  action = Bubble \/ Source(action) = r \/ Received(r, action)

Compute(r) ==
  /\ Ready(r) /\ clock[r] <= LastClock(M(r))
  /\ InputReady(r, Work(r, clock[r]))
  /\ clock' = [clock EXCEPT ![r] = @ + 1]
  /\ UNCHANGED <<connection, active, stream, faults>>

Die(r) ==
  /\ link[r] # "failed" /\ Fault
  /\ LinkTo(r, "failed")
  /\ UNCHANGED <<plan, answered, active, stream, clock>>

Connect == Hello \/ CommInit \/ \E r \in Ranks : Compare(r) \/ GiveUp(r)
Transport(r) ==
  \/ \E t \in Actions(M(r)) : Execute(r, t)
  \/ Wait(r) \/ WaitTimesOut(r)
Failures(r) == CommInitFails(r) \/ ExecuteTooMany(r) \/ ExecuteFails(r) \/ Die(r)

Next == Connect \/ \E r \in Ranks : Transport(r) \/ Compute(r) \/ Failures(r)

Spec == Init /\ [][Next]_vars

\* Both processes go on: they launch what is due, wait, and compute; a deadline is
\* only counted on once the peer is gone, not to get out of a wait both are stuck in.
Proceeds(r) ==
  \/ ~Exhausted(r) /\ Execute(r, Due(r))
  \/ Wait(r) \/ Compute(r)
  \/ ~Ready(Other(r)) /\ WaitTimesOut(r)

FairSpec == Spec /\ WF_vars(Connect) /\ \A r \in Ranks : WF_vars(Proceeds(r))

----------------------------------------------------------------------------
(* Properties                                                              *)

\* The shape of every variable.
TypeOK ==
  /\ plan \in [Ranks -> Plans]
  /\ link \in [Ranks -> {"start", "sent", "init", "up", "failed"}]
  /\ active \in [Ranks -> BOOLEAN]
  /\ answered \in BOOLEAN
  /\ cursor \in [Ranks -> Nat]
  /\ submitted \in [Ranks -> Seq(Actions(MaxMicrobatches))]
  /\ seen \in [Ranks -> Nat]
  /\ clock \in [Ranks -> Nat]
  /\ faults \in Nat
  /\ \A r \in Ranks : /\ seen[r] <= cursor[r]
                       /\ cursor[r] <= TransferCount(M(r))

\* What one rank sends is what the other expects at that place of the stream,
\* whatever plans the ranks came with, calls they confused and calls that failed.
TransfersPair ==
  \A k \in (1..Len(submitted[Root])) \cap (1..Len(submitted[Peer])) :
    submitted[Root][k] = submitted[Peer][k]

Done(r, action) ==
  \E c \in 0..(clock[r] - 1) : c <= LastClock(M(r)) /\ Work(r, c) = action

\* Activations and gradients are used after they were computed: a microbatch goes
\* forward through stage 0 and stage 1, and backward through stage 1 and stage 0.
CausalOrder ==
  \A m \in 0..(MaxMicrobatches - 1) :
    /\ Done(1, Forward(m)) => Done(0, Forward(m))
    /\ Done(1, Backward(m)) => Done(1, Forward(m))
    /\ Done(0, Backward(m)) => Done(1, Backward(m))

\* 1F1B retains at most two activations on stage 0 and one on stage 1, however
\* many microbatches there are.
LiveBounded ==
  \A r \in Ranks :
    plan[r].schedule = "1F1B" =>
      Live("1F1B", M(r), r, clock[r]) <= (IF r = 0 THEN 2 ELSE 1)

Finished(r) ==
  Exhausted(r) /\ seen[r] = cursor[r] /\ clock[r] = LastClock(M(r)) + 1

\* The clocks and the order of the transfers fit together: with nothing failing,
\* neither stage waits for something the other can only launch later.
StepCompletes ==
  <>(faults > 0 \/ ~PlansAgree \/ \A r \in Ranks : Finished(r))

\* A rank whose peer died, failed or stopped does not wait for ever.
NobodyHangs ==
  \A r \in Ranks : link[r] = "up" ~> Finished(r) \/ ~Ready(r)
=============================================================================
