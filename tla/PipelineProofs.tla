--------------------------- MODULE PipelineProofs ---------------------------
(***************************************************************************)
(* Proofs about the two-stage pipeline: tags name transfers, and with a    *)
(* distributed context the streams of the two ranks pair, neither stage is *)
(* ever stuck, for every bound.                                            *)
(***************************************************************************)
EXTENDS PipelineRun, FiniteSetTheorems, TLAPS

\* A plan and a microbatch leave room for each other in a tag.
LEMMA Packed ==
  ASSUME NEW L \in Nat, NEW a \in Nat, NEW b \in Nat,
         NEW m \in 0..(L - 1), NEW n \in 0..(L - 1),
         a * L + m = b * L + n
  PROVE  a = b /\ m = n
<1>1. ASSUME NEW x \in Nat, NEW y \in Nat, x < y
      PROVE  x * L + L <= y * L
  <2>1. PICK d \in Nat : y = x + 1 + d
    <3>1. y - x - 1 \in Nat /\ y = x + 1 + (y - x - 1)
      BY <1>1
    <3>2. QED
      BY <3>1
  <2>2. d * L \in Nat
    OBVIOUS
  <2>3. y * L = x * L + L + d * L
    BY <2>1
  <2>4. QED
    BY <2>2, <2>3
<1>2. a * L \in Nat /\ b * L \in Nat
  OBVIOUS
<1>3. ~(a < b)
  <2>1. SUFFICES ASSUME a < b PROVE FALSE
    OBVIOUS
  <2>2. a * L + L <= b * L
    BY <1>1, <2>1
  <2>3. QED
    BY <1>2, <2>2
<1>4. ~(b < a)
  <2>1. SUFFICES ASSUME b < a PROVE FALSE
    OBVIOUS
  <2>2. b * L + L <= a * L
    BY <1>1, <2>1
  <2>3. QED
    BY <1>2, <2>2
<1>5. a = b
  BY <1>3, <1>4
<1>6. QED
  BY <1>2, <1>5

\* PipelineTransfer::plan_tag gives different transfers, of the same boundary or of
\* different ones, different tags, as long as the microbatch fits its field.
THEOREM TagsDistinct ==
  ASSUME NEW a \in Nat, NEW b \in Nat,
         NEW t \in Actions(MicrobatchLimit), NEW u \in Actions(MicrobatchLimit),
         PlanTag(a, t) = PlanTag(b, u)
  PROVE  a = b /\ t = u
<1> DEFINE L == MicrobatchLimit
           x == a * L + t.microbatch
           y == b * L + u.microbatch
<1>1. L \in Nat
  BY LimitAssumption
<1>2. /\ t.microbatch \in 0..(L - 1) /\ u.microbatch \in 0..(L - 1)
      /\ t.pass \in {"forward", "backward"} /\ u.pass \in {"forward", "backward"}
      /\ t = [pass |-> t.pass, microbatch |-> t.microbatch]
      /\ u = [pass |-> u.pass, microbatch |-> u.microbatch]
  BY DEF Actions
<1>3. Direction(t) \in {0, 1} /\ Direction(u) \in {0, 1}
  BY DEF Direction
<1>4. x \in Nat /\ y \in Nat
  <2>1. a * L \in Nat /\ b * L \in Nat
    BY <1>1
  <2>2. QED
    BY <1>1, <1>2, <2>1
<1>5. 2 * x + Direction(t) = 2 * y + Direction(u)
  BY DEF PlanTag
<1>6. x = y /\ Direction(t) = Direction(u)
  <2> HIDE DEF x, y
  <2>1. QED
    BY <1>3, <1>4, <1>5
<1>7. a = b /\ t.microbatch = u.microbatch
  BY <1>1, <1>2, <1>6, Packed
<1>8. t.pass = u.pass
  BY <1>2, <1>6 DEF Direction
<1>9. QED
  BY <1>2, <1>7, <1>8

----------------------------------------------------------------------------

\* Every place of the order holds a transfer of one of the step's microbatches.
LEMMA OrderTyped ==
  ASSUME NEW n \in Nat \ {0}, NEW schedule \in Schedules,
         NEW k \in 1..TransferCount(n)
  PROVE  TransferOrder(schedule, n)[k] \in Actions(n)
<1>1. CASE schedule = "GPipe"
  BY <1>1 DEF TransferOrder, GPipeOrder, TransferCount, Actions, Forward, Backward
<1>2. CASE schedule # "GPipe"
  <2> DEFINE o == OneFOneBOrder(n)[k]
  <2>1. TransferOrder(schedule, n)[k] = o
    BY <1>2 DEF TransferOrder
  <2>2. CASE k = 1
    BY <2>1, <2>2 DEF OneFOneBOrder, TransferCount, Actions, Forward
  <2>3. CASE k # 1 /\ k = 2 * n
    <3>1. o = Backward(n - 1)
      BY <2>3 DEF OneFOneBOrder, TransferCount
    <3>2. QED
      BY <2>1, <3>1 DEF Actions, Backward
  <2>4. CASE k \notin {1, 2 * n} /\ k % 2 = 0
    <3>1. o = Forward(k \div 2)
      BY <2>4 DEF OneFOneBOrder, TransferCount
    <3>2. k \div 2 \in 0..(n - 1)
      BY <2>4 DEF TransferCount
    <3>3. QED
      BY <2>1, <3>1, <3>2 DEF Actions, Forward
  <2>5. CASE k \notin {1, 2 * n} /\ k % 2 # 0
    <3>1. o = Backward((k - 3) \div 2)
      BY <2>5 DEF OneFOneBOrder, TransferCount
    <3>2. (k - 3) \div 2 \in 0..(n - 1)
      BY <2>5 DEF TransferCount
    <3>3. QED
      BY <2>1, <3>1, <3>2 DEF Actions, Backward
  <2>6. QED
    BY <2>2, <2>3, <2>4, <2>5
<1>3. QED
  BY <1>1, <1>2

----------------------------------------------------------------------------
(* Type correctness.                                                       *)

LEMMA PlanTyped ==
  ASSUME TypeOK, NEW r \in Ranks
  PROVE  /\ M(r) \in Nat \ {0}
         /\ M(r) \in 1..MaxMicrobatches
         /\ plan[r].schedule \in Schedules
         /\ plan[r].boundary \in Nat
         /\ Actions(M(r)) \subseteq Actions(MaxMicrobatches)
         /\ Actions(M(r)) \subseteq Actions(MicrobatchLimit)
<1>1. plan[r] \in Plans
  BY DEF TypeOK
<1>2. /\ plan[r].microbatches \in 1..MaxMicrobatches
      /\ plan[r].schedule \in Schedules
      /\ plan[r].boundary \in Boundaries
  BY <1>1 DEF Plans
<1>3. MaxMicrobatches \in Nat /\ MaxMicrobatches <= MicrobatchLimit /\ MicrobatchLimit \in Nat
  BY RunAssumption, LimitAssumption
<1>4. 0..(M(r) - 1) \subseteq 0..(MaxMicrobatches - 1)
  BY <1>2, <1>3 DEF M
<1>5. 0..(M(r) - 1) \subseteq 0..(MicrobatchLimit - 1)
  BY <1>2, <1>3 DEF M
<1>6. M(r) \in Nat \ {0} /\ M(r) \in 1..MaxMicrobatches
  BY <1>2, <1>3 DEF M
<1>7. plan[r].boundary \in Nat
  BY <1>2, RunAssumption
<1>8. QED
  BY <1>2, <1>4, <1>5, <1>6, <1>7 DEF Actions

LEMMA DueTyped ==
  ASSUME TypeOK, NEW r \in Ranks, ~Exhausted(r)
  PROVE  /\ cursor[r] + 1 \in 1..TransferCount(M(r))
         /\ Due(r) = Order(r)[cursor[r] + 1]
         /\ Due(r) \in Actions(M(r))
<1>1. M(r) \in Nat \ {0} /\ plan[r].schedule \in Schedules
  BY PlanTyped
<1>2. cursor[r] \in Nat /\ cursor[r] <= TransferCount(M(r))
  BY DEF TypeOK
<1>3. TransferCount(M(r)) \in Nat
  BY <1>1 DEF TransferCount
<1>4. cursor[r] + 1 \in 1..TransferCount(M(r))
  BY <1>2, <1>3 DEF Exhausted
<1>5. Order(r)[cursor[r] + 1] \in Actions(M(r))
  BY <1>1, <1>4, OrderTyped DEF Order
<1>6. QED
  BY <1>4, <1>5 DEF Due

\* A call that is accepted names the transfer that is due.
LEMMA NamesDue ==
  ASSUME TypeOK, NEW r \in Ranks, ~Exhausted(r), NEW t \in Actions(M(r)), Names(r, t)
  PROVE  t = Due(r)
<1>1. plan[r].boundary \in Nat /\ Actions(M(r)) \subseteq Actions(MicrobatchLimit)
  BY PlanTyped
<1>2. Due(r) \in Actions(M(r))
  BY DueTyped
<1>3. PlanTag(plan[r].boundary, t) = PlanTag(plan[r].boundary, Due(r))
  BY DEF Names
<1>4. QED
  BY <1>1, <1>2, <1>3, TagsDistinct

LEMMA TypeInit == Init => TypeOK
<1> SUFFICES ASSUME Init PROVE TypeOK
  OBVIOUS
<1>1. \A r \in Ranks : plan[r].microbatches \in Nat /\ plan \in [Ranks -> Plans]
  BY RunAssumption, LimitAssumption DEF Init, Plans
<1>2. /\ active \in [Ranks -> BOOLEAN] /\ answered \in BOOLEAN
      /\ cursor \in [Ranks -> Nat] /\ seen \in [Ranks -> Nat] /\ clock \in [Ranks -> Nat]
      /\ submitted \in [Ranks -> Seq(Actions(MaxMicrobatches))]
      /\ faults \in Nat
  <2>1. /\ active = [r \in Ranks |-> TRUE] /\ answered = FALSE
        /\ cursor = [r \in Ranks |-> 0] /\ seen = [r \in Ranks |-> 0]
        /\ clock = [r \in Ranks |-> 0] /\ faults = 0
        /\ submitted = [r \in Ranks |-> <<>>]
    BY Zenon DEF Init
  <2>2. /\ active \in [Ranks -> BOOLEAN] /\ answered \in BOOLEAN
        /\ cursor \in [Ranks -> Nat] /\ seen \in [Ranks -> Nat]
        /\ clock \in [Ranks -> Nat] /\ faults \in Nat
    BY <2>1
  <2>3. <<>> \in Seq(Actions(MaxMicrobatches))
    OBVIOUS
  <2>4. submitted \in [Ranks -> Seq(Actions(MaxMicrobatches))]
    BY <2>1, <2>3, Zenon
  <2>5. QED
    BY <2>2, <2>4
<1>3. \A r \in Ranks : seen[r] <= cursor[r] /\ cursor[r] <= TransferCount(M(r))
  BY <1>1 DEF Init, TransferCount, M
<1>4. plan \in [Ranks -> Plans]
  BY DEF Init
<1>5. link \in [Ranks -> {"start", "sent", "init", "up", "failed"}]
  <2>1. link = [r \in Ranks |->
                  IF ValidClocks(plan[r].schedule, M(r)) THEN "start" ELSE "failed"]
    BY Zenon DEF Init
  <2>2. ASSUME NEW r \in Ranks
        PROVE  (IF ValidClocks(plan[r].schedule, M(r)) THEN "start" ELSE "failed")
                 \in {"start", "sent", "init", "up", "failed"}
    <3>1. CASE ValidClocks(plan[r].schedule, M(r))
      BY <3>1, Zenon
    <3>2. CASE ~ValidClocks(plan[r].schedule, M(r))
      BY <3>2, Zenon
    <3>3. QED
      BY <3>1, <3>2, Zenon
  <2>3. QED
    BY <2>1, <2>2, Zenon
<1>6. QED
  BY <1>2, <1>3, <1>4, <1>5 DEF TypeOK

LEMMA InvalidateTyped ==
  ASSUME TypeOK, NEW r \in Ranks, Invalidate(r)
  PROVE  active' \in [Ranks -> BOOLEAN]
BY DEF TypeOK, Invalidate

LEMMA LinkTyped ==
  ASSUME TypeOK, NEW r \in Ranks,
         NEW stage \in {"start", "sent", "init", "up", "failed"}, LinkTo(r, stage)
  PROVE  link' \in [Ranks -> {"start", "sent", "init", "up", "failed"}]
BY DEF TypeOK, LinkTo

LEMMA TypeStep == TypeOK /\ [Next]_vars => TypeOK'
<1> SUFFICES ASSUME TypeOK, [Next]_vars PROVE TypeOK'
  OBVIOUS
<1> USE DEF connection, stream
<1>1. CASE Hello
  BY <1>1 DEF TypeOK, Hello, LinkTo, M, Peer, Ranks, Stages
<1>2. CASE CommInit
  BY <1>2 DEF TypeOK, CommInit, M
<1>3. ASSUME NEW r \in Ranks, Compare(r) PROVE TypeOK'
  <2>1. active' \in [Ranks -> BOOLEAN]
    BY <1>3, InvalidateTyped DEF Compare, TypeOK
  <2>2. QED
    BY <1>3, <2>1 DEF TypeOK, Compare, LinkTo, M
<1>4. ASSUME NEW r \in Ranks, GiveUp(r) PROVE TypeOK'
  <2>1. active' \in [Ranks -> BOOLEAN]
    BY <1>4, InvalidateTyped DEF GiveUp
  <2>2. link' \in [Ranks -> {"start", "sent", "init", "up", "failed"}]
    BY <1>4, LinkTyped DEF GiveUp
  <2>3. faults' \in Nat
    BY <1>4 DEF GiveUp, Fault, NoFault, TypeOK
  <2>4. UNCHANGED <<plan, answered, stream, clock>>
    BY <1>4 DEF GiveUp
  <2>5. QED
    BY <2>1, <2>2, <2>3, <2>4 DEF TypeOK, M
<1>5. ASSUME NEW r \in Ranks, NEW t \in Actions(M(r)), Execute(r, t) PROVE TypeOK'
  <2>1. ~Exhausted(r)
    BY <1>5 DEF Execute
  <2>2. cursor[r] + 1 \in 1..TransferCount(M(r)) /\ TransferCount(M(r)) \in Nat
    BY <2>1, DueTyped, PlanTyped DEF TransferCount
  <2>3. faults' \in Nat
    BY <1>5 DEF Execute, Fault, NoFault, TypeOK
  <2>4. /\ UNCHANGED <<connection, seen, clock>>
    BY <1>5 DEF Execute
  <2>5. CASE Names(r, t)
    <3>1. /\ submitted' = [submitted EXCEPT ![r] = Append(@, t)]
          /\ cursor' = [cursor EXCEPT ![r] = @ + 1] /\ active' = active
      BY <1>5, <2>5 DEF Execute, Launch
    <3>2. t \in Actions(MaxMicrobatches)
      BY PlanTyped
    <3>3. submitted' \in [Ranks -> Seq(Actions(MaxMicrobatches))]
      BY <3>1, <3>2 DEF TypeOK
    <3>4. /\ cursor' \in [Ranks -> Nat]
          /\ \A q \in Ranks : seen[q] <= cursor'[q] /\ cursor'[q] <= TransferCount(M(q))
      BY <2>2, <3>1 DEF TypeOK
    <3>5. QED
      BY <2>3, <2>4, <3>1, <3>3, <3>4 DEF TypeOK, M
  <2>6. CASE ~Names(r, t)
    <3>1. Invalidate(r) /\ UNCHANGED <<cursor, submitted>>
      BY <1>5, <2>6 DEF Execute
    <3>2. active' \in [Ranks -> BOOLEAN]
      BY <3>1, InvalidateTyped
    <3>3. QED
      BY <2>3, <2>4, <3>1, <3>2 DEF TypeOK, M
  <2>7. QED
    BY <2>5, <2>6
<1>6. ASSUME NEW r \in Ranks, Wait(r) PROVE TypeOK'
  BY <1>6 DEF TypeOK, Wait, Waiting, M
<1>7. ASSUME NEW r \in Ranks, WaitTimesOut(r) PROVE TypeOK'
  <2>1. active' \in [Ranks -> BOOLEAN]
    BY <1>7, InvalidateTyped DEF WaitTimesOut
  <2>2. QED
    BY <1>7, <2>1 DEF TypeOK, WaitTimesOut, M, Fault, NoFault
<1>8. ASSUME NEW r \in Ranks, Compute(r) PROVE TypeOK'
  BY <1>8 DEF TypeOK, Compute, M
<1>9. ASSUME NEW r \in Ranks, CommInitFails(r) PROVE TypeOK'
  <2>1. active' \in [Ranks -> BOOLEAN]
    BY <1>9, InvalidateTyped DEF CommInitFails
  <2>2. link' \in [Ranks -> {"start", "sent", "init", "up", "failed"}]
    BY <1>9, LinkTyped DEF CommInitFails
  <2>3. faults' \in Nat
    BY <1>9 DEF CommInitFails, Fault, TypeOK
  <2>4. UNCHANGED <<plan, answered, stream, clock>>
    BY <1>9 DEF CommInitFails
  <2>5. QED
    BY <2>1, <2>2, <2>3, <2>4 DEF TypeOK, M
<1>10. ASSUME NEW r \in Ranks, ExecuteTooMany(r) PROVE TypeOK'
  <2>1. active' \in [Ranks -> BOOLEAN]
    BY <1>10, InvalidateTyped DEF ExecuteTooMany
  <2>2. QED
    BY <1>10, <2>1 DEF TypeOK, ExecuteTooMany, M, Fault
<1>11. ASSUME NEW r \in Ranks, ExecuteFails(r) PROVE TypeOK'
  <2>1. active' \in [Ranks -> BOOLEAN]
    BY <1>11, InvalidateTyped DEF ExecuteFails
  <2>2. Due(r) \in Actions(MaxMicrobatches)
    BY <1>11, DueTyped, PlanTyped DEF ExecuteFails
  <2>3. submitted' \in [Ranks -> Seq(Actions(MaxMicrobatches))]
    <3>1. Launch(r, Due(r)) \/ UNCHANGED submitted
      BY <1>11, Zenon DEF ExecuteFails
    <3>2. CASE Launch(r, Due(r))
      <4> DEFINE t == Due(r)
      <4>1. submitted' = [submitted EXCEPT ![r] = Append(@, t)]
        BY <3>2 DEF Launch
      <4> HIDE DEF t
      <4>2. t \in Actions(MaxMicrobatches)
        BY <2>2 DEF t
      <4>3. QED
        BY <4>1, <4>2 DEF TypeOK
    <3>3. CASE UNCHANGED submitted
      BY <3>3 DEF TypeOK
    <3>4. QED
      BY <3>1, <3>2, <3>3
  <2>4. QED
    BY <1>11, <2>1, <2>3 DEF TypeOK, ExecuteFails, M, Fault
<1>12. ASSUME NEW r \in Ranks, Die(r) PROVE TypeOK'
  BY <1>12 DEF TypeOK, Die, LinkTo, M, Fault
<1>13. CASE UNCHANGED vars
  BY <1>13 DEF TypeOK, vars, M
<1>14. QED
  BY <1>1, <1>2, <1>3, <1>4, <1>5, <1>6, <1>7, <1>8, <1>9, <1>10, <1>11, <1>12, <1>13
     DEF Next, Connect, Transport, Failures

\* Every reachable state of a pipeline step is well typed, with or without a context.
THEOREM TypeCorrect == Spec => []TypeOK
BY TypeInit, TypeStep, PTL DEF Spec

----------------------------------------------------------------------------
(* The streams.                                                            *)

\* Rank 0 answers, and a communicator exists, only when the plans are equal.
Agreed ==
  \A r \in Ranks :
    answered \/ link[r] \in {"init", "up"} \/ submitted[r] # <<>> => PlansAgree

\* A stream holds a prefix of the plan's order, at most one launch ahead of the
\* cursor, and that only once the context is invalid.
Streams ==
  \A r \in Ranks :
    /\ \/ Len(submitted[r]) = cursor[r]
       \/ Len(submitted[r]) = cursor[r] + 1 /\ ~active[r]
    /\ Len(submitted[r]) <= TransferCount(M(r))
    /\ \A k \in 1..Len(submitted[r]) : submitted[r][k] = Order(r)[k]

StreamInvariant == TypeOK /\ Agreed /\ Streams

LEMMA StreamsPair == StreamInvariant => TransfersPair
<1> SUFFICES ASSUME StreamInvariant,
                    NEW k \in (1..Len(submitted[Root])) \cap (1..Len(submitted[Peer]))
             PROVE  submitted[Root][k] = submitted[Peer][k]
  BY DEF TransfersPair
<1>1. Root \in Ranks /\ Peer \in Ranks
  BY DEF Root, Peer, Ranks, Stages
<1>2. submitted[Root][k] = Order(Root)[k] /\ submitted[Peer][k] = Order(Peer)[k]
  BY <1>1 DEF StreamInvariant, Streams
<1>3. submitted[Root] # <<>>
  OBVIOUS
<1>4. plan[Root] = plan[Peer]
  BY <1>1, <1>3 DEF StreamInvariant, Agreed, PlansAgree
<1>5. QED
  BY <1>2, <1>4 DEF Order, M
LEMMA StreamsInit == Init => Agreed /\ Streams
BY RunAssumption, LimitAssumption DEF Init, Agreed, Streams, TransferCount, M, Plans

\* What leaves the streams and the plans alone keeps them in order.
LEMMA QuietStep ==
  ASSUME StreamInvariant,
         UNCHANGED <<plan, answered, cursor, submitted>>,
         \A r \in Ranks : link'[r] \in {"init", "up"} => link[r] \in {"init", "up"},
         \A r \in Ranks : ~active[r] => ~active'[r]
  PROVE  Agreed' /\ Streams'
<1>1. Agreed'
  BY DEF StreamInvariant, Agreed, PlansAgree
<1>2. Streams'
  BY DEF StreamInvariant, Streams, Order, M
<1>3. QED
  BY <1>1, <1>2

\* A call that fails leaves an invalid context, and no other context becomes valid.
LEMMA Invalidated ==
  ASSUME TypeOK, WithContext, NEW r \in Ranks, Invalidate(r)
  PROVE  ~active'[r] /\ \A q \in Ranks : ~active[q] => ~active'[q]
BY DEF TypeOK, Invalidate

\* A launch of the transfer that is due appends the next place of the order.
LEMMA LaunchStep ==
  ASSUME StreamInvariant, NEW r \in Ranks, Ready(r), ~Exhausted(r), Launch(r, Due(r)),
         UNCHANGED <<plan, link, answered>>,
         NEW n \in {cursor[r], cursor[r] + 1}, cursor' = [cursor EXCEPT ![r] = n],
         n = cursor[r] => ~active'[r],
         \A q \in Ranks : ~active[q] => ~active'[q]
  PROVE  Agreed' /\ Streams'
<1> DEFINE t == Due(r)
<1>1. /\ cursor \in [Ranks -> Nat] /\ submitted \in [Ranks -> Seq(Actions(MaxMicrobatches))]
      /\ TypeOK
  BY DEF StreamInvariant, TypeOK
<1>2. Len(submitted[r]) = cursor[r]
  BY DEF StreamInvariant, Streams, Ready
<1>3. /\ cursor[r] + 1 \in 1..TransferCount(M(r))
      /\ t = Order(r)[cursor[r] + 1] /\ t \in Actions(MaxMicrobatches)
  BY <1>1, DueTyped, PlanTyped
<1>4. submitted' = [submitted EXCEPT ![r] = Append(@, t)]
  BY DEF Launch
<1> HIDE DEF t
<1>5. /\ submitted'[r] = Append(submitted[r], t)
      /\ \A q \in Ranks : q # r => submitted'[q] = submitted[q]
  BY <1>1, <1>4
<1>6. /\ Len(submitted'[r]) = cursor[r] + 1
      /\ submitted'[r][cursor[r] + 1] = t
      /\ \A k \in 1..cursor[r] : submitted'[r][k] = submitted[r][k]
  BY <1>1, <1>2, <1>3, <1>5
<1>7. Agreed'
  <2>1. PlansAgree
    BY DEF StreamInvariant, Agreed, Ready
  <2>2. QED
    BY <2>1 DEF Agreed, PlansAgree
<1>8. ASSUME NEW q \in Ranks
      PROVE  /\ \/ Len(submitted'[q]) = cursor'[q]
                \/ Len(submitted'[q]) = cursor'[q] + 1 /\ ~active'[q]
             /\ Len(submitted'[q]) <= TransferCount(M(q))
             /\ \A k \in 1..Len(submitted'[q]) : submitted'[q][k] = Order(q)[k]
  <2>1. CASE q = r
    <3>1. cursor'[r] = n
      BY <1>1
    <3>2. \A k \in 1..cursor[r] : submitted'[r][k] = Order(r)[k]
      BY <1>2, <1>6 DEF StreamInvariant, Streams
    <3>3. cursor[r] \in Nat /\ TransferCount(M(r)) \in Nat
      BY <1>1, PlanTyped DEF TransferCount
    <3>4. \A k \in 1..(cursor[r] + 1) : k \in 1..cursor[r] \/ k = cursor[r] + 1
      BY <3>3
    <3>5. QED
      BY <2>1, <1>3, <1>6, <3>1, <3>2, <3>3, <3>4
  <2>2. CASE q # r
    BY <2>2, <1>1, <1>5 DEF StreamInvariant, Streams
  <2>3. QED
    BY <2>1, <2>2
<1>9. Streams'
  BY <1>8 DEF Streams, Order, M
<1>10. QED
  BY <1>7, <1>9

LEMMA StreamsStep == ASSUME WithContext PROVE StreamInvariant /\ [Next]_vars => Agreed' /\ Streams'
<1> SUFFICES ASSUME StreamInvariant, [Next]_vars PROVE Agreed' /\ Streams'
  OBVIOUS
<1> USE DEF connection, stream
<1>0. TypeOK /\ link \in [Ranks -> {"start", "sent", "init", "up", "failed"}]
  BY DEF StreamInvariant, TypeOK
<1>1. CASE Hello
  BY <1>0, <1>1, QuietStep DEF Hello, LinkTo
<1>2. CASE CommInit
  BY <1>0, <1>2, QuietStep DEF CommInit
<1>3. ASSUME NEW r \in Ranks, Compare(r) PROVE Agreed' /\ Streams'
  <2>1. CASE PlansAgree
    <3>1. UNCHANGED <<plan, cursor, submitted, active>>
      BY <1>3, <2>1 DEF Compare
    <3>2. Agreed'
      BY <2>1, <3>1 DEF Agreed, PlansAgree
    <3>3. Streams'
      BY <3>1 DEF StreamInvariant, Streams, Order, M
    <3>4. QED
      BY <3>2, <3>3
  <2>2. CASE ~PlansAgree
    <3>1. /\ LinkTo(r, "failed") /\ Invalidate(r)
          /\ UNCHANGED <<plan, answered, cursor, submitted>>
      BY <1>3, <2>2 DEF Compare
    <3>2. \A q \in Ranks : ~active[q] => ~active'[q]
      BY <1>0, <3>1, Invalidated
    <3>3. \A q \in Ranks : link'[q] \in {"init", "up"} => link[q] \in {"init", "up"}
      BY <1>0, <3>1 DEF LinkTo
    <3>4. QED
      BY <3>1, <3>2, <3>3, QuietStep
  <2>3. QED
    BY <2>1, <2>2
<1>4. ASSUME NEW r \in Ranks, GiveUp(r) \/ CommInitFails(r) PROVE Agreed' /\ Streams'
  <2>1. /\ LinkTo(r, "failed") /\ Invalidate(r)
        /\ UNCHANGED <<plan, answered, cursor, submitted>>
    BY <1>4 DEF GiveUp, CommInitFails
  <2>2. \A q \in Ranks : ~active[q] => ~active'[q]
    BY <1>0, <2>1, Invalidated
  <2>3. \A q \in Ranks : link'[q] \in {"init", "up"} => link[q] \in {"init", "up"}
    BY <1>0, <2>1 DEF LinkTo
  <2>4. QED
    BY <2>1, <2>2, <2>3, QuietStep
<1>5. ASSUME NEW r \in Ranks, NEW t \in Actions(M(r)), Execute(r, t)
      PROVE  Agreed' /\ Streams'
  <2>1. Ready(r) /\ ~Exhausted(r) /\ UNCHANGED <<plan, link, answered>>
    BY <1>5 DEF Execute
  <2>2. CASE Names(r, t)
    <3>1. t = Due(r)
      BY <1>0, <2>1, <2>2, NamesDue
    <3>2. Launch(r, t) /\ cursor' = [cursor EXCEPT ![r] = cursor[r] + 1] /\ active' = active
      BY <1>5, <2>2 DEF Execute
    <3>3. cursor[r] # cursor[r] + 1
      BY <1>0 DEF TypeOK
    <3>4. QED
      BY <2>1, <3>1, <3>2, <3>3, LaunchStep
  <2>3. CASE ~Names(r, t)
    <3>1. Invalidate(r) /\ UNCHANGED <<cursor, submitted>>
      BY <1>5, <2>3 DEF Execute
    <3>2. \A q \in Ranks : ~active[q] => ~active'[q]
      BY <1>0, <3>1, Invalidated
    <3>3. QED
      BY <2>1, <3>1, <3>2, QuietStep
  <2>4. QED
    BY <2>2, <2>3
<1>6. ASSUME NEW r \in Ranks, Wait(r) \/ Compute(r) PROVE Agreed' /\ Streams'
  BY <1>6, QuietStep DEF Wait, Compute
<1>7. ASSUME NEW r \in Ranks, WaitTimesOut(r) \/ ExecuteTooMany(r) PROVE Agreed' /\ Streams'
  <2>1. Invalidate(r) /\ UNCHANGED <<plan, link, answered, cursor, submitted>>
    BY <1>7 DEF WaitTimesOut, ExecuteTooMany
  <2>2. \A q \in Ranks : ~active[q] => ~active'[q]
    BY <1>0, <2>1, Invalidated
  <2>3. QED
    BY <2>1, <2>2, QuietStep
<1>8. ASSUME NEW r \in Ranks, ExecuteFails(r) PROVE Agreed' /\ Streams'
  <2>1. /\ Ready(r) /\ ~Exhausted(r) /\ Invalidate(r)
        /\ UNCHANGED <<plan, link, answered, cursor>>
        /\ Launch(r, Due(r)) \/ UNCHANGED submitted
    BY <1>8 DEF ExecuteFails
  <2>2. ~active'[r] /\ \A q \in Ranks : ~active[q] => ~active'[q]
    BY <1>0, <2>1, Invalidated
  <2>3. CASE UNCHANGED submitted
    BY <2>1, <2>2, <2>3, QuietStep
  <2>4. CASE Launch(r, Due(r))
    <3>1. cursor' = [cursor EXCEPT ![r] = cursor[r]]
      BY <1>0, <2>1 DEF TypeOK
    <3>2. QED
      BY <2>1, <2>2, <2>4, <3>1, LaunchStep
  <2>5. QED
    BY <2>1, <2>3, <2>4
<1>9. ASSUME NEW r \in Ranks, Die(r) PROVE Agreed' /\ Streams'
  <2>1. \A q \in Ranks : link'[q] \in {"init", "up"} => link[q] \in {"init", "up"}
    BY <1>0, <1>9 DEF Die, LinkTo
  <2>2. QED
    BY <1>9, <2>1, QuietStep DEF Die
<1>10. CASE UNCHANGED vars
  BY <1>10, QuietStep DEF vars
<1>11. QED
  BY <1>1, <1>2, <1>3, <1>4, <1>5, <1>6, <1>7, <1>8, <1>9, <1>10
     DEF Next, Connect, Transport, Failures

\* With a distributed context the streams of the ranks pair: whatever plans they
\* built, whatever calls fail or are confused, for every number of microbatches.
THEOREM TransfersAlwaysPair == WithContext => (Spec => []TransfersPair)
<1> SUFFICES ASSUME WithContext PROVE Spec => []TransfersPair
  OBVIOUS
<1>1. Init => StreamInvariant
  BY TypeInit, StreamsInit DEF StreamInvariant
<1>2. StreamInvariant /\ [Next]_vars => StreamInvariant'
  BY TypeStep, StreamsStep DEF StreamInvariant
<1>3. QED
  BY <1>1, <1>2, StreamsPair, PTL DEF Spec

----------------------------------------------------------------------------
(* The causal order.                                                       *)

\* A rank works through clocks that build_checked has validated.
ClocksValid ==
  \A r \in Ranks :
    /\ link[r] # "failed" \/ clock[r] > 0 => ValidClocks(plan[r].schedule, M(r))
    /\ clock[r] <= LastClock(M(r)) + 1

\* A wait returns for a place that both streams have reached.
Fed == \A r, q \in Ranks : seen[r] <= Len(submitted[q])

\* What a rank sends it has computed, and what it computes it has the input of.
Produced ==
  \A r \in Ranks : \A k \in 1..Len(submitted[r]) :
    Source(submitted[r][k]) = r => Done(r, submitted[r][k])
Used == \A r \in Ranks : \A c \in 0..(clock[r] - 1) : InputReady(r, Work(r, c))

CausalInvariant == StreamInvariant /\ ClocksValid /\ Fed /\ Produced /\ Used

LEMMA CausalInit == Init => CausalInvariant
<1> SUFFICES ASSUME Init PROVE CausalInvariant
  OBVIOUS
<1>1. StreamInvariant
  BY TypeInit, StreamsInit DEF StreamInvariant
<1>2. ClocksValid
  <2>1. ASSUME NEW r \in Ranks PROVE clock[r] = 0 /\ clock[r] <= LastClock(M(r)) + 1
    <3>1. M(r) \in Nat
      BY <1>1, PlanTyped DEF StreamInvariant
    <3>2. QED
      BY <3>1 DEF Init, LastClock
  <2>2. ASSUME NEW r \in Ranks, link[r] # "failed" PROVE ValidClocks(plan[r].schedule, M(r))
    BY <2>2, Zenon DEF Init
  <2>3. QED
    BY <2>1, <2>2 DEF ClocksValid
<1>3. Fed /\ Produced /\ Used
  <2>1. \A r \in Ranks : clock[r] = 0 /\ seen[r] = 0 /\ submitted[r] = <<>>
    BY DEF Init
  <2>2. QED
    BY <2>1 DEF Fed, Produced, Used
<1>4. QED
  BY <1>1, <1>2, <1>3 DEF CausalInvariant

\* What a rank did stays done, and its inputs stay there.
LEMMA DoneStays ==
  ASSUME TypeOK, plan' = plan, NEW r \in Ranks, clock'[r] \in Nat, clock[r] <= clock'[r],
         NEW action, Done(r, action)
  PROVE  Done(r, action)'
<1>1. PICK c \in 0..(clock[r] - 1) : c <= LastClock(M(r)) /\ Work(r, c) = action
  BY DEF Done
<1>2. c \in 0..(clock'[r] - 1)
  BY <1>1 DEF TypeOK
<1>3. QED
  BY <1>1, <1>2 DEF Done, Work, M

LEMMA ReadyStays ==
  ASSUME TypeOK, plan' = plan, NEW r \in Ranks, seen'[r] \in Nat, seen[r] <= seen'[r],
         NEW action, InputReady(r, action)
  PROVE  InputReady(r, action)'
<1>1. \A k \in 1..seen[r] : k \in 1..seen'[r]
  BY DEF TypeOK
<1>2. QED
  BY <1>1 DEF InputReady, Received, Order, M

\* A step that neither computes nor waits nor launches.
LEMMA CausalQuiet ==
  ASSUME CausalInvariant, StreamInvariant', UNCHANGED <<plan, seen, submitted, clock>>,
         \A r \in Ranks : link[r] = "failed" => link'[r] = "failed"
  PROVE  CausalInvariant'
<1>1. ClocksValid'
  BY DEF CausalInvariant, ClocksValid, M
<1>2. Fed'
  BY DEF CausalInvariant, Fed
<1>3. Produced'
  BY DEF CausalInvariant, Produced, Done, Work, M
<1>4. Used'
  BY DEF CausalInvariant, Used, InputReady, Received, Order, Work, M
<1>5. QED
  BY <1>1, <1>2, <1>3, <1>4 DEF CausalInvariant

\* A launch of a transfer the rank has the data of.
LEMMA CausalLaunch ==
  ASSUME CausalInvariant, StreamInvariant', UNCHANGED <<plan, link, seen, clock>>,
         NEW r \in Ranks, NEW t \in Actions(MaxMicrobatches), Has(r, t), Launch(r, t)
  PROVE  CausalInvariant'
<1>0. TypeOK /\ submitted \in [Ranks -> Seq(Actions(MaxMicrobatches))]
  BY DEF CausalInvariant, StreamInvariant, TypeOK
<1>1. ClocksValid'
  BY DEF CausalInvariant, ClocksValid, M
<1>2. /\ submitted'[r] = Append(submitted[r], t)
      /\ \A q \in Ranks : q # r => submitted'[q] = submitted[q]
  BY <1>0 DEF Launch
<1>3. /\ Len(submitted'[r]) = Len(submitted[r]) + 1 /\ Len(submitted[r]) \in Nat
      /\ \A k \in 1..Len(submitted'[r]) :
           submitted'[r][k] = IF k \in 1..Len(submitted[r]) THEN submitted[r][k] ELSE t
  BY <1>0, <1>2
<1>4. Fed'
  <2>1. \A q \in Ranks : Len(submitted[q]) \in Nat /\ Len(submitted[q]) <= Len(submitted'[q])
    BY <1>0, <1>2, <1>3
  <2>2. \A p, q \in Ranks : seen[p] <= Len(submitted[q]) /\ seen[p] \in Nat
    BY <1>0 DEF CausalInvariant, Fed, TypeOK
  <2>3. QED
    BY <1>0, <2>1, <2>2 DEF Fed
<1>5. Source(t) = r => Done(r, t)
  <2>1. ASSUME Source(t) = r PROVE Done(r, t)
    <3>1. PICK c \in 0..(clock[r] - 1) : Work(r, c) = t
      BY <2>1 DEF Has
    <3>2. clock[r] \in Nat /\ clock[r] <= LastClock(M(r)) + 1 /\ LastClock(M(r)) \in Nat
      BY <1>0, PlanTyped DEF CausalInvariant, ClocksValid, TypeOK, LastClock
    <3>3. c <= LastClock(M(r))
      BY <3>2
    <3>4. QED
      BY <3>1, <3>3 DEF Done
  <2>2. QED
    BY <2>1
<1>6. \A q \in Ranks : \A u : Done(q, u)' <=> Done(q, u)
  BY DEF Done, Work, M
<1>7. Produced'
  <2>1. \A q \in Ranks : \A k \in 1..Len(submitted[q]) :
          Source(submitted[q][k]) = q => Done(q, submitted[q][k])
    BY DEF CausalInvariant, Produced
  <2>2. \A q \in Ranks : \A k \in 1..Len(submitted'[q]) :
          Source(submitted'[q][k]) = q => Done(q, submitted'[q][k])
    BY <1>2, <1>3, <1>5, <2>1
  <2>3. QED
    BY <2>2, <1>6 DEF Produced
<1>8. Used'
  BY DEF CausalInvariant, Used, InputReady, Received, Order, Work, M
<1>9. QED
  BY <1>1, <1>4, <1>7, <1>8 DEF CausalInvariant

LEMMA CausalWait ==
  ASSUME CausalInvariant, StreamInvariant', NEW r \in Ranks, Wait(r)
  PROVE  CausalInvariant'
<1> USE DEF connection
<1>0. TypeOK /\ seen \in [Ranks -> Nat] /\ Root \in Ranks /\ Peer \in Ranks
  BY DEF CausalInvariant, StreamInvariant, TypeOK, Root, Peer, Ranks, Stages
<1>1. /\ seen' = [seen EXCEPT ![r] = seen[r] + 1] /\ UNCHANGED <<plan, link, submitted, clock>>
      /\ \A q \in Ranks : seen[r] + 1 <= Len(submitted[q])
  BY <1>0 DEF Wait, Completed
<1>2. ClocksValid'
  BY <1>1 DEF CausalInvariant, ClocksValid, M
<1>3. Fed'
  BY <1>0, <1>1 DEF CausalInvariant, Fed
<1>4. Produced'
  BY <1>1 DEF CausalInvariant, Produced, Done, Work, M
<1>5. \A q \in Ranks : seen'[q] \in Nat /\ seen[q] <= seen'[q]
  BY <1>0, <1>1
<1>6. Used'
  <2>1. \A q \in Ranks : \A c \in 0..(clock[q] - 1) : InputReady(q, Work(q, c))
    BY DEF CausalInvariant, Used
  <2>2. ASSUME NEW q \in Ranks, NEW c \in 0..(clock[q] - 1) PROVE InputReady(q, Work(q, c))'
    <3> DEFINE u == Work(q, c)
    <3>1. u' = u
      BY <1>1 DEF Work, M
    <3> HIDE DEF u
    <3>2. InputReady(q, u)
      BY <2>1 DEF u
    <3>3. PICK a : a = u
      OBVIOUS
    <3>4. InputReady(q, a)'
      BY <1>0, <1>1, <1>5, <3>2, <3>3, ReadyStays
    <3>5. QED
      BY <3>1, <3>3, <3>4 DEF u
  <2>3. QED
    BY <1>1, <2>2 DEF Used
<1>7. QED
  BY <1>2, <1>3, <1>4, <1>6 DEF CausalInvariant

LEMMA CausalCompute ==
  ASSUME CausalInvariant, StreamInvariant', NEW r \in Ranks, Compute(r)
  PROVE  CausalInvariant'
<1> USE DEF connection, stream
<1>0. TypeOK /\ clock \in [Ranks -> Nat] /\ M(r) \in Nat
  BY PlanTyped DEF CausalInvariant, StreamInvariant, TypeOK
<1>1. /\ clock' = [clock EXCEPT ![r] = clock[r] + 1] /\ clock[r] <= LastClock(M(r))
      /\ UNCHANGED <<plan, link, seen, submitted>> /\ link[r] = "up"
      /\ InputReady(r, Work(r, clock[r]))
  BY DEF Compute, Ready
<1>2. \A q \in Ranks : clock'[q] = IF q = r THEN clock[r] + 1 ELSE clock[q]
  BY <1>0, <1>1
<1>3. \A q \in Ranks : clock[q] \in Nat /\ clock'[q] \in Nat /\ clock[q] <= clock'[q]
  BY <1>0, <1>2
<1>4. ClocksValid'
  <2>1. LastClock(M(r)) \in Nat /\ clock[r] + 1 <= LastClock(M(r)) + 1
    BY <1>0, <1>1 DEF LastClock
  <2>2. \A q \in Ranks : M(q)' = M(q)
    BY <1>1 DEF M
  <2>3. \A q \in Ranks : clock'[q] <= LastClock(M(q)) + 1
    BY <1>2, <2>1 DEF CausalInvariant, ClocksValid
  <2>4. \A q \in Ranks : link[q] # "failed" \/ clock'[q] > 0 => ValidClocks(plan[q].schedule, M(q))
    BY <1>1, <1>2 DEF CausalInvariant, ClocksValid
  <2>5. QED
    BY <1>1, <2>2, <2>3, <2>4 DEF ClocksValid
<1>5. Fed'
  BY <1>1 DEF CausalInvariant, Fed
<1>6. Produced'
  <2>1. ASSUME NEW q \in Ranks, NEW k \in 1..Len(submitted[q]), Source(submitted[q][k]) = q
        PROVE  Done(q, submitted[q][k])'
    <3>1. PICK a : a = submitted[q][k]
      OBVIOUS
    <3>2. Done(q, a)
      BY <2>1, <3>1 DEF CausalInvariant, Produced
    <3>3. Done(q, a)'
      BY <1>0, <1>1, <1>3, <3>2, DoneStays
    <3>4. submitted'[q][k] = a
      BY <1>1, <3>1
    <3>5. QED
      BY <3>3, <3>4
  <2>2. QED
    BY <1>1, <2>1 DEF Produced
<1>7. Used'
  <2>1. ASSUME NEW q \in Ranks, NEW c \in 0..(clock'[q] - 1) PROVE InputReady(q, Work(q, c))
    <3>1. CASE c \in 0..(clock[q] - 1)
      BY <3>1 DEF CausalInvariant, Used
    <3>2. CASE c \notin 0..(clock[q] - 1)
      <4>1. q = r /\ c = clock[r]
        BY <1>2, <1>3, <3>2
      <4>2. QED
        BY <1>1, <4>1
    <3>3. QED
      BY <3>1, <3>2
  <2>2. \A q \in Ranks : \A c \in 0..(clock'[q] - 1) : InputReady(q, Work(q, c))' <=> InputReady(q, Work(q, c))
    BY <1>1 DEF InputReady, Received, Order, Work, M
  <2>3. QED
    BY <2>1, <2>2 DEF Used
<1>8. QED
  BY <1>4, <1>5, <1>6, <1>7 DEF CausalInvariant

LEMMA CausalStep ==
  ASSUME CausalInvariant, StreamInvariant', [Next]_vars PROVE CausalInvariant'
<1> USE DEF connection, stream
<1>0. TypeOK /\ link \in [Ranks -> {"start", "sent", "init", "up", "failed"}]
  BY DEF CausalInvariant, StreamInvariant, TypeOK
<1>1. CASE Hello
  BY <1>0, <1>1, CausalQuiet DEF Hello, LinkTo, Root, Peer
<1>2. CASE CommInit
  BY <1>0, <1>2, CausalQuiet DEF CommInit
<1>3. ASSUME NEW r \in Ranks, Compare(r) PROVE CausalInvariant'
  <2>1. link[r] # "failed"
    BY <1>3 DEF Compare, Root, Peer, Ranks, Stages
  <2>2. LinkTo(r, "init") \/ LinkTo(r, "failed")
    BY <1>3 DEF Compare
  <2>3. \A q \in Ranks : link[q] = "failed" => link'[q] = "failed"
    BY <1>0, <2>1, <2>2 DEF LinkTo
  <2>4. UNCHANGED <<plan, seen, submitted, clock>>
    BY <1>3 DEF Compare
  <2>5. QED
    BY <2>3, <2>4, CausalQuiet
<1>4. ASSUME NEW r \in Ranks, GiveUp(r) \/ CommInitFails(r) \/ Die(r) PROVE CausalInvariant'
  <2>1. LinkTo(r, "failed") /\ UNCHANGED <<plan, seen, submitted, clock>>
    BY <1>4 DEF GiveUp, CommInitFails, Die
  <2>2. \A q \in Ranks : link[q] = "failed" => link'[q] = "failed"
    BY <1>0, <2>1 DEF LinkTo
  <2>3. QED
    BY <2>1, <2>2, CausalQuiet
<1>5. ASSUME NEW r \in Ranks, NEW t \in Actions(M(r)), Execute(r, t) PROVE CausalInvariant'
  <2>1. UNCHANGED <<plan, link, seen, clock>> /\ Has(r, t)
    BY <1>5 DEF Execute
  <2>2. CASE Names(r, t)
    <3>1. t \in Actions(MaxMicrobatches) /\ Launch(r, t)
      BY <1>0, <1>5, <2>2, PlanTyped DEF Execute
    <3>2. QED
      BY <2>1, <3>1, CausalLaunch
  <2>3. CASE ~Names(r, t)
    BY <1>5, <2>1, <2>3, CausalQuiet DEF Execute
  <2>4. QED
    BY <2>2, <2>3
<1>6. ASSUME NEW r \in Ranks, WaitTimesOut(r) \/ ExecuteTooMany(r) PROVE CausalInvariant'
  BY <1>6, CausalQuiet DEF WaitTimesOut, ExecuteTooMany
<1>7. ASSUME NEW r \in Ranks, ExecuteFails(r) PROVE CausalInvariant'
  <2>1. /\ UNCHANGED <<plan, link, seen, clock>> /\ ~Exhausted(r) /\ Has(r, Due(r))
        /\ Launch(r, Due(r)) \/ UNCHANGED submitted
    BY <1>7 DEF ExecuteFails
  <2>2. Due(r) \in Actions(MaxMicrobatches)
    BY <1>0, <2>1, DueTyped, PlanTyped
  <2>3. PICK t : t = Due(r)
    OBVIOUS
  <2>4. t \in Actions(MaxMicrobatches) /\ Has(r, t) /\ (Launch(r, t) \/ UNCHANGED submitted)
    BY <2>1, <2>2, <2>3
  <2>5. CASE Launch(r, t)
    BY <2>1, <2>4, <2>5, CausalLaunch
  <2>6. CASE UNCHANGED submitted
    BY <2>1, <2>6, CausalQuiet
  <2>7. QED
    BY <2>4, <2>5, <2>6
<1>8. CASE UNCHANGED vars
  BY <1>8, CausalQuiet DEF vars
<1>9. QED
  BY <1>1, <1>2, <1>3, <1>4, <1>5, <1>6, <1>7, <1>8, CausalWait, CausalCompute
     DEF Next, Connect, Transport, Failures

\* What a stage computed from the other stage's work, that stage has computed.
LEMMA InputComputed ==
  ASSUME CausalInvariant, NEW r \in Ranks, NEW action, action # Bubble,
         Source(action) = Other(r), Done(r, action)
  PROVE  Done(Other(r), action)
<1>0. TypeOK /\ Other(r) \in Ranks /\ Other(r) # r /\ {Root, Peer} = {r, Other(r)}
  BY DEF CausalInvariant, StreamInvariant, Other, Ranks, Stages, Root, Peer
<1>1. PICK c \in 0..(clock[r] - 1) : Work(r, c) = action
  BY DEF Done
<1>2. Received(r, action)
  BY <1>0, <1>1 DEF CausalInvariant, Used, InputReady
<1>3. PICK k \in 1..seen[r] : Order(r)[k] = action
  BY <1>2 DEF Received
<1>4. k \in 1..Len(submitted[Other(r)])
  <2>1. seen[r] <= Len(submitted[Other(r)]) /\ seen[r] \in Nat
    BY <1>0 DEF CausalInvariant, Fed, TypeOK
  <2>2. Len(submitted[Other(r)]) \in Nat
    BY <1>0 DEF TypeOK
  <2>3. QED
    BY <1>3, <2>1, <2>2
<1>5. submitted[Other(r)][k] = Order(Other(r))[k] /\ PlansAgree
  <2>1. submitted[Other(r)] # <<>>
    BY <1>4
  <2>2. QED
    BY <1>0, <1>4, <2>1 DEF CausalInvariant, StreamInvariant, Streams, Agreed
<1>6. Order(Other(r)) = Order(r)
  BY <1>0, <1>5 DEF PlansAgree, Order, M
<1>7. QED
  BY <1>0, <1>3, <1>4, <1>5, <1>6 DEF CausalInvariant, Produced

LEMMA InOrder == CausalInvariant => CausalOrder
<1> SUFFICES ASSUME CausalInvariant, NEW m \in 0..(MaxMicrobatches - 1)
             PROVE  /\ Done(1, Forward(m)) => Done(0, Forward(m))
                    /\ Done(1, Backward(m)) => Done(1, Forward(m))
                    /\ Done(0, Backward(m)) => Done(1, Backward(m))
  BY DEF CausalOrder
<1>1. Done(1, Forward(m)) => Done(0, Forward(m))
  <2>1. Forward(m) # Bubble /\ Source(Forward(m)) = 0
    BY DEF Forward, Bubble, Source
  <2>2. 1 \in Ranks /\ Other(1) = 0
    BY DEF Ranks, Stages, Other
  <2>3. QED
    BY <2>1, <2>2, InputComputed
<1>2. Done(0, Backward(m)) => Done(1, Backward(m))
  <2>1. Backward(m) # Bubble /\ Source(Backward(m)) = 1
    BY DEF Backward, Bubble, Source
  <2>2. 0 \in Ranks /\ Other(0) = 1
    BY DEF Ranks, Stages, Other
  <2>3. QED
    BY <2>1, <2>2, InputComputed
<1>3. ASSUME Done(1, Backward(m)) PROVE Done(1, Forward(m))
  <2> DEFINE S == plan[1].schedule
             n == M(1)
  <2>0. TypeOK /\ 1 \in Ranks /\ 1 \in Stages /\ clock[1] \in Nat
    BY DEF CausalInvariant, StreamInvariant, TypeOK, Ranks, Stages
  <2>1. PICK c \in 0..(clock[1] - 1) : c <= LastClock(n) /\ Clock(S, n, c)[1] = Backward(m)
    BY <1>3 DEF Done, Work
  <2>2. ValidClocks(S, n)
    BY <2>0, <2>1 DEF CausalInvariant, ClocksValid
  <2>3. n \in Nat /\ LastClock(n) \in Nat
    BY <2>0, PlanTyped DEF LastClock
  <2> HIDE DEF S, n
  <2>4. c \in 0..LastClock(n)
    BY <2>0, <2>1, <2>3
  <2>5. m \in 0..(n - 1)
    <3>1. Backward(m) \in Actions(n) \cup {Bubble}
      BY <2>0, <2>1, <2>2, <2>4 DEF ValidClocks
    <3>2. QED
      BY <3>1 DEF Actions, Backward, Bubble
  <2>6. PICK f \in 0..LastClock(n), b \in 0..LastClock(n) :
          /\ f < b
          /\ At(S, n, 1, Forward(m)) = {f} /\ At(S, n, 1, Backward(m)) = {b}
    BY <2>0, <2>2, <2>5 DEF ValidClocks
  <2>7. c = b
    <3>1. c \in At(S, n, 1, Backward(m))
      BY <2>1, <2>4 DEF At
    <3>2. QED
      BY <2>6, <3>1
  <2>8. Clock(S, n, f)[1] = Forward(m)
    <3>1. f \in At(S, n, 1, Forward(m))
      BY <2>6
    <3>2. QED
      BY <3>1 DEF At
  <2>9. f \in 0..(clock[1] - 1) /\ f <= LastClock(n)
    BY <2>0, <2>1, <2>3, <2>6, <2>7
  <2>10. QED
    BY <2>8, <2>9 DEF Done, Work, S, n
<1>4. QED
  BY <1>1, <1>2, <1>3

\* With a distributed context no stage uses an activation or a gradient before
\* it was computed (CausalOrder), for every number of microbatches and whatever
\* plans the ranks built.
THEOREM AlwaysCausal == WithContext => (Spec => []CausalOrder)
<1> SUFFICES ASSUME WithContext PROVE Spec => []CausalOrder
  OBVIOUS
<1>1. CausalInvariant /\ [Next]_vars => CausalInvariant'
  <2>1. CausalInvariant /\ [Next]_vars => StreamInvariant'
    BY TypeStep, StreamsStep DEF StreamInvariant, CausalInvariant
  <2>2. QED
    BY <2>1, CausalStep
<1>2. QED
  BY <1>1, CausalInit, InOrder, PTL DEF Spec

----------------------------------------------------------------------------
(* The retained activations.                                               *)

\* What a clock adds to the retained activations.
Change(action) == IF action.pass = "forward" THEN 1 ELSE IF action.pass = "backward" THEN -1 ELSE 0

LEMMA LiveNext ==
  ASSUME NEW n, NEW s, NEW c \in Nat
  PROVE  /\ Live("1F1B", n, s, 0) = 0 /\ Live("1F1B", n, s, c) \in Int
         /\ Live("1F1B", n, s, c + 1) = Live("1F1B", n, s, c) + Change(OneFOneBClock(n, c)[s])
<1> DEFINE Pass(d) == OneFOneBClock(n, d)[s].pass
           Made(e, pass) == {d \in 0..(e - 1) : Pass(d) = pass}
<1>1. \A e \in Nat : Live("1F1B", n, s, e)
                        = Cardinality(Made(e, "forward")) - Cardinality(Made(e, "backward"))
  BY DEF Live, Clock
<1>2. Change(OneFOneBClock(n, c)[s])
        = IF Pass(c) = "forward" THEN 1 ELSE IF Pass(c) = "backward" THEN -1 ELSE 0
  BY DEF Change
<1> HIDE DEF Pass
<1>3. ASSUME NEW e \in Nat, NEW pass
      PROVE  IsFiniteSet(Made(e, pass)) /\ Cardinality(Made(e, pass)) \in Nat
  <2>1. IsFiniteSet(0..(e - 1))
    BY FS_Interval
  <2>2. Made(e, pass) \subseteq 0..(e - 1)
    OBVIOUS
  <2>. HIDE DEF Made
  <2>3. IsFiniteSet(Made(e, pass))
    BY <2>1, <2>2, FS_Subset
  <2>. QED
    BY <2>3, FS_CardinalityType
<1>4. ASSUME NEW pass
      PROVE  Cardinality(Made(c + 1, pass))
               = Cardinality(Made(c, pass)) + IF Pass(c) = pass THEN 1 ELSE 0
  <2>1. Made(c + 1, pass) = IF Pass(c) = pass THEN Made(c, pass) \cup {c} ELSE Made(c, pass)
    <3>1. \A d : d \in 0..(c + 1 - 1) <=> d \in 0..(c - 1) \/ d = c
      OBVIOUS
    <3>. QED
      BY <3>1
  <2>2. c \notin Made(c, pass)
    OBVIOUS
  <2>3. IsFiniteSet(Made(c, pass)) /\ Cardinality(Made(c, pass)) \in Nat
    BY <1>3
  <2>. HIDE DEF Made
  <2>. QED
    BY <2>1, <2>2, <2>3, FS_AddElement
<1>5. Made(0, "forward") = {} /\ Made(0, "backward") = {}
  OBVIOUS
<1>. HIDE DEF Made
<1>6. QED
  BY <1>1, <1>2, <1>3, <1>4, <1>5, FS_EmptySet

\* What stage s retains after its first c clocks.
Retained(n, s, c) ==
  IF s = 0
    THEN IF c = 0 \/ c = 2 * n + 2 THEN 0
         ELSE IF (c = 2 /\ n > 1) \/ (c % 2 = 1 /\ c \in 3..(2 * n - 1)) THEN 2 ELSE 1
    ELSE IF c % 2 = 0 /\ c \in 2..(2 * n) THEN 1 ELSE 0

LEMMA ClockChange ==
  ASSUME NEW n \in Nat \ {0}, NEW s \in Stages, NEW c \in 0..LastClock(n)
  PROVE  Retained(n, s, c + 1) = Retained(n, s, c) + Change(OneFOneBClock(n, c)[s])
<1> DEFINE w == OneFOneBClock(n, c)[s]
           m == (c - 1) \div 2
<1> USE DEF Row, When, Forward, Backward, Bubble, Change
<1>0. c \in Nat /\ c <= 2 * n + 1 /\ s \in {0, 1}
  BY DEF LastClock, Stages
<1>1. CASE c = 0
  <2>1. w = IF s = 0 THEN Forward(0) ELSE Bubble
    BY <1>1 DEF OneFOneBClock, LastClock
  <2>2. QED
    BY <1>0, <1>1, <2>1 DEF Retained
<1>2. CASE c = 1
  <2>1. w = IF s = 0 THEN When(n > 1, Forward(1)) ELSE Forward(0)
    BY <1>2 DEF OneFOneBClock, LastClock
  <2>2. QED
    BY <1>0, <1>2, <2>1 DEF Retained
<1>3. CASE c = 2
  <2>1. w = IF s = 0 THEN Bubble ELSE Backward(0)
    BY <1>3 DEF OneFOneBClock, LastClock
  <2>2. QED
    BY <1>0, <1>3, <2>1 DEF Retained
<1>4. CASE c = 2 * n + 1
  <2>1. w = IF s = 0 THEN Backward(n - 1) ELSE Bubble
    BY <1>4 DEF OneFOneBClock, LastClock
  <2>2. QED
    BY <1>0, <1>4, <2>1 DEF Retained
<1>5. CASE c \in 3..(2 * n) /\ c % 2 = 1
  <2>1. w = IF s = 0 THEN Backward(m - 1) ELSE Forward(m)
    BY <1>5 DEF OneFOneBClock, LastClock
  <2>2. Change(w) = IF s = 0 THEN -1 ELSE 1
    BY <1>0, <2>1
  <2>3. (c + 1) % 2 = 0 /\ c <= 2 * n - 1
    BY <1>5
  <2>. HIDE DEF w, m
  <2>4. QED
    BY <1>0, <1>5, <2>2, <2>3 DEF Retained, w
<1>6. CASE c \in 3..(2 * n) /\ c % 2 # 1
  <2>1. w = IF s = 0 THEN When(m + 1 < n, Forward(m + 1)) ELSE Backward(m)
    BY <1>6 DEF OneFOneBClock, LastClock
  <2>2. Change(w) = IF s = 0 THEN (IF m + 1 < n THEN 1 ELSE 0) ELSE -1
    BY <1>0, <2>1
  <2>3. (m + 1 < n <=> c < 2 * n) /\ (c + 1) % 2 = 1 /\ c % 2 = 0
    BY <1>6
  <2>. HIDE DEF w, m
  <2>4. QED
    BY <1>0, <1>6, <2>2, <2>3 DEF Retained, w
<1>7. QED
  BY <1>0, <1>1, <1>2, <1>3, <1>4, <1>5, <1>6

Kept ==
  \A r \in Ranks :
    /\ clock[r] <= LastClock(M(r)) + 1
    /\ plan[r].schedule = "1F1B" =>
         Live("1F1B", M(r), r, clock[r]) = Retained(M(r), r, clock[r])

LEMMA KeptInit == Init => Kept
<1> SUFFICES ASSUME Init, NEW r \in Ranks
             PROVE  /\ clock[r] <= LastClock(M(r)) + 1
                    /\ Live("1F1B", M(r), r, clock[r]) = Retained(M(r), r, clock[r])
  BY DEF Kept
<1>1. clock[r] = 0 /\ M(r) \in Nat
  BY TypeInit, PlanTyped DEF Init
<1>2. Retained(M(r), r, 0) = 0
  BY DEF Retained
<1>3. QED
  BY <1>1, <1>2, LiveNext DEF LastClock

LEMMA KeptStep == TypeOK /\ Kept /\ [Next]_vars => Kept'
<1> SUFFICES ASSUME TypeOK, Kept, [Next]_vars, NEW r \in Ranks
             PROVE  /\ clock'[r] <= LastClock(M(r)) + 1
                    /\ plan[r].schedule = "1F1B" =>
                         Live("1F1B", M(r), r, clock'[r]) = Retained(M(r), r, clock'[r])
  <2>1. CASE UNCHANGED vars
    BY <2>1 DEF vars, connection, Kept, M
  <2>2. CASE Connect
    <3>1. plan' = plan
      BY <2>2 DEF Connect, Hello, CommInit, Compare, GiveUp
    <3>2. QED
      BY <3>1 DEF Kept, M
  <2>3. ASSUME NEW q \in Ranks, Transport(q) \/ Compute(q) \/ Failures(q) PROVE plan' = plan
    <3>1. CASE Transport(q)
      BY <3>1 DEF Transport, Execute, Wait, WaitTimesOut, connection
    <3>2. CASE Compute(q)
      BY <3>2 DEF Compute, connection
    <3>3. CASE Failures(q)
      BY <3>3 DEF Failures, CommInitFails, ExecuteTooMany, ExecuteFails, Die, connection
    <3>4. QED
      BY <2>3, <3>1, <3>2, <3>3
  <2>4. CASE plan' = plan
    BY <2>4 DEF Kept, M
  <2>5. QED
    BY <2>1, <2>2, <2>3, <2>4 DEF Next
<1>1. clock[r] \in Nat /\ M(r) \in Nat \ {0} /\ LastClock(M(r)) \in Nat /\ r \in Stages
  BY PlanTyped DEF TypeOK, LastClock, Ranks
<1>2. clock'[r] = clock[r] \/ (clock'[r] = clock[r] + 1 /\ clock[r] <= LastClock(M(r)))
  <2>1. CASE UNCHANGED vars
    BY <2>1 DEF vars
  <2>2. CASE Connect
    BY <2>2 DEF Connect, Hello, CommInit, Compare, GiveUp
  <2>3. ASSUME NEW q \in Ranks, Transport(q) \/ Failures(q) PROVE clock' = clock
    <3>1. CASE Transport(q)
      BY <3>1 DEF Transport, Execute, Wait, WaitTimesOut
    <3>2. CASE Failures(q)
      BY <3>2 DEF Failures, CommInitFails, ExecuteTooMany, ExecuteFails, Die
    <3>3. QED
      BY <2>3, <3>1, <3>2
  <2>4. ASSUME NEW q \in Ranks, Compute(q)
        PROVE clock'[r] = clock[r] \/ (clock'[r] = clock[r] + 1 /\ clock[r] <= LastClock(M(r)))
    BY <2>4 DEF Compute, TypeOK
  <2>5. QED
    BY <2>1, <2>2, <2>3, <2>4 DEF Next
<1>3. CASE clock'[r] = clock[r]
  BY <1>3 DEF Kept
<1>4. CASE clock'[r] = clock[r] + 1 /\ clock[r] <= LastClock(M(r))
  <2>1. clock[r] \in 0..LastClock(M(r)) /\ clock'[r] <= LastClock(M(r)) + 1
    BY <1>1, <1>4
  <2>2. Retained(M(r), r, clock[r] + 1)
          = Retained(M(r), r, clock[r]) + Change(OneFOneBClock(M(r), clock[r])[r])
    BY <1>1, <2>1, ClockChange
  <2>3. Live("1F1B", M(r), r, clock[r] + 1)
          = Live("1F1B", M(r), r, clock[r]) + Change(OneFOneBClock(M(r), clock[r])[r])
    BY <1>1, LiveNext
  <2>4. QED
    BY <1>4, <2>1, <2>2, <2>3 DEF Kept
<1>5. QED
  BY <1>2, <1>3, <1>4

\* With 1F1B a stage never retains more than its share (LiveBounded): two
\* activations on stage 0 and one on stage 1, for every number of microbatches
\* and with or without a context.
THEOREM FewRetained == Spec => []LiveBounded
<1>1. TypeOK /\ Kept => LiveBounded
  <2> SUFFICES ASSUME TypeOK, Kept, NEW r \in Ranks, plan[r].schedule = "1F1B"
               PROVE  Live("1F1B", M(r), r, clock[r]) <= (IF r = 0 THEN 2 ELSE 1)
    BY DEF LiveBounded
  <2>1. Live("1F1B", M(r), r, clock[r]) = Retained(M(r), r, clock[r])
    BY DEF Kept
  <2>2. Retained(M(r), r, clock[r]) \in {0, 1, 2} /\ (r # 0 => Retained(M(r), r, clock[r]) \in {0, 1})
    BY DEF Retained
  <2>3. QED
    BY <2>1, <2>2
<1>2. QED
  BY <1>1, TypeInit, TypeStep, KeptInit, KeptStep, PTL DEF Spec

----------------------------------------------------------------------------
(* The clocks and the order in closed form.                                *)

\* The clock at which stage s performs a, and the place of transfer t in the order.
ClockOf(schedule, n, s, a) ==
  IF schedule = "GPipe"
    THEN IF a.pass = "forward" THEN a.microbatch + s ELSE 2 * n + 1 - a.microbatch - s
    ELSE IF a.pass = "backward" THEN 2 * a.microbatch + 3 - s
         ELSE IF s = 0 /\ a.microbatch < 2 THEN a.microbatch ELSE 2 * a.microbatch + s
PlaceOf(schedule, n, t) ==
  IF schedule = "GPipe"
    THEN IF t.pass = "forward" THEN t.microbatch + 1 ELSE 2 * n - t.microbatch
    ELSE IF t.pass = "forward" THEN IF t.microbatch = 0 THEN 1 ELSE 2 * t.microbatch
         ELSE IF t.microbatch = n - 1 THEN 2 * n ELSE 2 * t.microbatch + 3

\* The clocks and the order, action by action.
LEMMA ActionIs ==
  ASSUME NEW n \in Nat \ {0}, NEW a \in Actions(n)
  PROVE  \E m \in 0..(n - 1) : a = Forward(m) \/ a = Backward(m)
BY DEF Actions, Forward, Backward

LEMMA GPipeClocks ==
  ASSUME NEW n \in Nat \ {0}, NEW s \in Stages, NEW c \in 0..LastClock(n)
  PROVE  LET w == GPipeClock(n, c)[s]
         IN  /\ w \in Actions(n) \cup {Bubble}
             /\ \A m \in 0..(n - 1) : /\ w = Forward(m) <=> c = m + s
                                      /\ w = Backward(m) <=> c = 2 * n + 1 - m - s
<1> DEFINE w == GPipeClock(n, c)[s]
<1> USE DEF Forward, Backward, Bubble, When, Row
<1>0. c \in Nat /\ c <= 2 * n + 1 /\ s \in {0, 1}
  BY DEF LastClock, Stages
<1>1. CASE c <= n
  <2>1. w = IF s = 0 THEN When(c < n, Forward(c)) ELSE When(c > 0, Forward(c - 1))
    BY <1>1 DEF GPipeClock, Stages
  <2> QED BY <1>0, <1>1, <2>1 DEF Actions
<1>2. CASE c > n
  <2>1. w = IF s = 0 THEN When(c - n - 1 > 0, Backward(n - (c - n - 1)))
                     ELSE When(c - n - 1 < n, Backward(n - 1 - (c - n - 1)))
    BY <1>0, <1>2 DEF GPipeClock, Stages
  <2> QED BY <1>0, <1>2, <2>1 DEF Actions
<1> QED BY <1>0, <1>1, <1>2

LEMMA OneFOneBClocks ==
  ASSUME NEW n \in Nat \ {0}, NEW s \in Stages, NEW c \in 0..LastClock(n)
  PROVE  LET w == OneFOneBClock(n, c)[s]
         IN  /\ w \in Actions(n) \cup {Bubble}
             /\ \A m \in 0..(n - 1) : /\ w = Forward(m) <=> c = (IF s = 0 /\ m < 2 THEN m ELSE 2 * m + s)
                                      /\ w = Backward(m) <=> c = 2 * m + 3 - s
<1> DEFINE w == OneFOneBClock(n, c)[s]
           m == (c - 1) \div 2
<1> USE DEF Forward, Backward, Bubble, When, Row
<1>0. c \in Nat /\ c <= 2 * n + 1 /\ s \in {0, 1}
  BY DEF LastClock, Stages
<1>1. CASE c = 0
  <2>1. w = IF s = 0 THEN Forward(0) ELSE Bubble
    BY <1>1 DEF OneFOneBClock, LastClock
  <2> QED BY <1>0, <1>1, <2>1 DEF Actions
<1>2. CASE c = 1
  <2>1. w = IF s = 0 THEN When(n > 1, Forward(1)) ELSE Forward(0)
    BY <1>2 DEF OneFOneBClock, LastClock
  <2> QED BY <1>0, <1>2, <2>1 DEF Actions
<1>3. CASE c = 2
  <2>1. w = IF s = 0 THEN Bubble ELSE Backward(0)
    BY <1>3 DEF OneFOneBClock, LastClock
  <2>2. w \in Actions(n) \cup {Bubble}
    BY <1>0, <2>1 DEF Actions
  <2>3. ASSUME NEW j \in 0..(n - 1)
        PROVE  /\ w = Forward(j) <=> c = (IF s = 0 /\ j < 2 THEN j ELSE 2 * j + s)
               /\ w = Backward(j) <=> c = 2 * j + 3 - s
    <3>1. CASE s = 0
      BY <1>3, <2>1, <3>1
    <3>2. CASE s = 1
      BY <1>3, <2>1, <3>2
    <3> QED BY <1>0, <3>1, <3>2
  <2> HIDE DEF w
  <2>4. \A j \in 0..(n - 1) : /\ w = Forward(j) <=> c = (IF s = 0 /\ j < 2 THEN j ELSE 2 * j + s)
                              /\ w = Backward(j) <=> c = 2 * j + 3 - s
    BY <2>3
  <2> QED BY <2>2, <2>4 DEF w
<1>4. CASE c \notin {0, 1, 2} /\ c = 2 * n + 1
  <2>1. w = IF s = 0 THEN Backward(n - 1) ELSE Bubble
    BY <1>4 DEF OneFOneBClock, LastClock
  <2> QED BY <1>0, <1>4, <2>1 DEF Actions
<1>5. CASE c \in 3..(2 * n) /\ c % 2 = 1
  <2>1. w = IF s = 0 THEN Backward(m - 1) ELSE Forward(m)
    BY <1>5 DEF OneFOneBClock, LastClock
  <2>2. c = 2 * m + 1 /\ m \in 1..(n - 1)
    BY <1>5
  <2> HIDE DEF w, m
  <2>3. w \in Actions(n)
    BY <1>0, <2>1, <2>2 DEF Actions
  <2> QED BY <1>0, <2>1, <2>2, <2>3 DEF w
<1>6. CASE c \in 3..(2 * n) /\ c % 2 # 1
  <2>1. w = IF s = 0 THEN When(m + 1 < n, Forward(m + 1)) ELSE Backward(m)
    BY <1>6 DEF OneFOneBClock, LastClock
  <2>2. c = 2 * m + 2 /\ m \in 1..(n - 1)
    BY <1>6
  <2> HIDE DEF w, m
  <2>3. w \in Actions(n) \cup {Bubble}
    BY <1>0, <2>1, <2>2 DEF Actions
  <2> QED BY <1>0, <2>1, <2>2, <2>3 DEF w
<1> QED BY <1>0, <1>1, <1>2, <1>3, <1>4, <1>5, <1>6

LEMMA ClockIs ==
  ASSUME NEW n \in Nat \ {0}, NEW schedule \in Schedules, NEW s \in Stages,
         NEW c \in 0..LastClock(n), NEW a \in Actions(n)
  PROVE  Clock(schedule, n, c)[s] = a <=> c = ClockOf(schedule, n, s, a)
<1>1. PICK m \in 0..(n - 1) : a = Forward(m) \/ a = Backward(m)
  BY ActionIs
<1>2. CASE schedule = "GPipe"
  <2>1. Clock(schedule, n, c) = GPipeClock(n, c)
    BY <1>2 DEF Clock
  <2>2. /\ Clock(schedule, n, c)[s] = Forward(m) <=> c = m + s
        /\ Clock(schedule, n, c)[s] = Backward(m) <=> c = 2 * n + 1 - m - s
    BY <2>1, GPipeClocks
  <2>3. CASE a = Forward(m)
    BY <1>2, <2>2, <2>3 DEF ClockOf, Forward
  <2>4. CASE a = Backward(m)
    BY <1>2, <2>2, <2>4 DEF ClockOf, Backward
  <2> QED BY <1>1, <2>3, <2>4
<1>3. CASE schedule # "GPipe"
  <2>1. Clock(schedule, n, c) = OneFOneBClock(n, c)
    BY <1>3 DEF Clock
  <2>2. /\ Clock(schedule, n, c)[s] = Forward(m) <=> c = (IF s = 0 /\ m < 2 THEN m ELSE 2 * m + s)
        /\ Clock(schedule, n, c)[s] = Backward(m) <=> c = 2 * m + 3 - s
    BY <2>1, OneFOneBClocks
  <2>3. CASE a = Forward(m)
    BY <1>3, <2>2, <2>3 DEF ClockOf, Forward
  <2>4. CASE a = Backward(m)
    BY <1>3, <2>2, <2>4 DEF ClockOf, Backward
  <2> QED BY <1>1, <2>3, <2>4
<1> QED BY <1>2, <1>3

LEMMA ClockOfIs ==
  ASSUME NEW n \in Nat \ {0}, NEW schedule \in Schedules, NEW s \in Stages, NEW a \in Actions(n)
  PROVE  ClockOf(schedule, n, s, a) \in 0..LastClock(n)
BY DEF ClockOf, LastClock, Stages, Actions

LEMMA PlaceIs ==
  ASSUME NEW n \in Nat \ {0}, NEW schedule \in Schedules, NEW a \in Actions(n)
  PROVE  /\ PlaceOf(schedule, n, a) \in 1..TransferCount(n)
         /\ TransferOrder(schedule, n)[PlaceOf(schedule, n, a)] = a
<1>1. PICK m \in 0..(n - 1) : a = Forward(m) \/ a = Backward(m)
  BY ActionIs
<1> DEFINE k == PlaceOf(schedule, n, a)
<1>2. k \in 1..(2 * n)
  BY <1>1 DEF PlaceOf, Forward, Backward
<1>3. CASE schedule = "GPipe"
  BY <1>1, <1>2, <1>3 DEF PlaceOf, TransferOrder, GPipeOrder, TransferCount, Forward, Backward
<1>4. CASE schedule # "GPipe"
  <2>1. TransferOrder(schedule, n)[k] =
          CASE k = 1 -> Forward(0)
            [] k = 2 * n -> Backward(n - 1)
            [] k \notin {1, 2 * n} /\ k % 2 = 0 -> Forward(k \div 2)
            [] OTHER -> Backward((k - 3) \div 2)
    BY <1>2, <1>4 DEF TransferOrder, OneFOneBOrder, TransferCount
  <2>2. CASE a = Forward(m)
    <3>1. k = IF m = 0 THEN 1 ELSE 2 * m
      BY <1>4, <2>2 DEF PlaceOf, Forward
    <3>2. m # 0 => k \notin {1, 2 * n} /\ k % 2 = 0 /\ k \div 2 = m
      BY <3>1
    <3> HIDE DEF k
    <3>3. TransferOrder(schedule, n)[k] = a
      BY <2>1, <2>2, <3>1, <3>2
    <3> QED BY <1>2, <3>3 DEF k, TransferCount
  <2>3. CASE a = Backward(m)
    <3>1. k = IF m = n - 1 THEN 2 * n ELSE 2 * m + 3
      BY <1>4, <2>3 DEF PlaceOf, Backward
    <3>2. k # 1 /\ (m # n - 1 => k # 2 * n /\ k % 2 # 0 /\ (k - 3) \div 2 = m)
      BY <3>1
    <3> HIDE DEF k
    <3>3. TransferOrder(schedule, n)[k] = a
      BY <2>1, <2>3, <3>1, <3>2
    <3> QED BY <1>2, <3>3 DEF k, TransferCount
  <2> QED BY <1>1, <2>2, <2>3
<1> QED BY <1>3, <1>4

\* No transfer has two places.
LEMMA PlaceUnique ==
  ASSUME NEW n \in Nat \ {0}, NEW schedule \in Schedules, NEW k \in 1..TransferCount(n)
  PROVE  PlaceOf(schedule, n, TransferOrder(schedule, n)[k]) = k
<1>1. CASE schedule = "GPipe"
  BY <1>1 DEF PlaceOf, TransferOrder, GPipeOrder, TransferCount, Forward, Backward
<1>2. CASE schedule # "GPipe"
  <2> DEFINE o == OneFOneBOrder(n)[k]
  <2>1. TransferOrder(schedule, n)[k] = o
    BY <1>2 DEF TransferOrder
  <2>2. CASE k = 1
    <3>1. o = Forward(0)
      BY <2>2 DEF OneFOneBOrder, TransferCount
    <3> QED BY <1>2, <2>1, <2>2, <3>1 DEF PlaceOf, Forward
  <2>3. CASE k # 1 /\ k = 2 * n
    <3>1. o = Backward(n - 1)
      BY <2>3 DEF OneFOneBOrder, TransferCount
    <3> QED BY <1>2, <2>1, <2>3, <3>1 DEF PlaceOf, Backward
  <2>4. CASE k \notin {1, 2 * n} /\ k % 2 = 0
    <3>1. o = Forward(k \div 2)
      BY <2>4 DEF OneFOneBOrder, TransferCount
    <3>2. k \div 2 # 0 /\ 2 * (k \div 2) = k
      BY <2>4 DEF TransferCount
    <3> QED BY <1>2, <2>1, <3>1, <3>2 DEF PlaceOf, Forward
  <2>5. CASE k \notin {1, 2 * n} /\ k % 2 # 0
    <3>1. o = Backward((k - 3) \div 2)
      BY <2>5 DEF OneFOneBOrder, TransferCount
    <3>2. (k - 3) \div 2 # n - 1 /\ 2 * ((k - 3) \div 2) + 3 = k
      BY <2>5 DEF TransferCount
    <3> QED BY <1>2, <2>1, <3>1, <3>2 DEF PlaceOf, Backward
  <2> QED BY <2>2, <2>3, <2>4, <2>5
<1> QED BY <1>1, <1>2

\* A stage needs for what it sends only what comes earlier in the order.
LEMMA OrderFits ==
  ASSUME NEW n \in Nat \ {0}, NEW schedule \in Schedules,
         NEW t \in Actions(n), NEW u \in Actions(n), Source(u) # Source(t),
         ClockOf(schedule, n, Source(t), u) < ClockOf(schedule, n, Source(t), t)
  PROVE  PlaceOf(schedule, n, u) < PlaceOf(schedule, n, t)
<1>1. PICK m \in 0..(n - 1) : t = Forward(m) \/ t = Backward(m)
  BY ActionIs
<1>2. PICK j \in 0..(n - 1) : u = Forward(j) \/ u = Backward(j)
  BY ActionIs
<1>3. CASE t = Forward(m) /\ u = Backward(j)
  BY <1>3 DEF ClockOf, PlaceOf, Forward, Backward, Source
<1>4. CASE t = Backward(m) /\ u = Forward(j)
  BY <1>4 DEF ClockOf, PlaceOf, Forward, Backward, Source
<1> QED BY <1>1, <1>2, <1>3, <1>4 DEF Source, Forward, Backward

\* validate_clocks accepts the clocks that the code generates, whatever the schedule
\* and the number of microbatches: build_checked never refuses a plan because of them.
THEOREM ClocksAlwaysValid ==
  ASSUME NEW n \in Nat \ {0}, NEW schedule \in Schedules
  PROVE  ValidClocks(schedule, n)
<1>1. ASSUME NEW s \in Stages, NEW c \in 0..LastClock(n)
      PROVE  Clock(schedule, n, c)[s] \in Actions(n) \cup {Bubble}
  BY GPipeClocks, OneFOneBClocks DEF Clock
<1>2. ASSUME NEW s \in Stages, NEW m \in 0..(n - 1)
      PROVE  \E f, b \in 0..LastClock(n) :
               /\ f < b
               /\ At(schedule, n, s, Forward(m)) = {f}
               /\ At(schedule, n, s, Backward(m)) = {b}
  <2>1. Forward(m) \in Actions(n) /\ Backward(m) \in Actions(n)
    BY DEF Forward, Backward, Actions
  <2>2. PICK f \in 0..LastClock(n) : f = ClockOf(schedule, n, s, Forward(m))
    BY <2>1, ClockOfIs
  <2>3. PICK b \in 0..LastClock(n) : b = ClockOf(schedule, n, s, Backward(m))
    BY <2>1, ClockOfIs
  <2>4. f < b
    BY <2>2, <2>3 DEF ClockOf, Forward, Backward, Stages
  <2>5. At(schedule, n, s, Forward(m)) = {f}
    BY <2>1, <2>2, ClockIs DEF At
  <2>6. At(schedule, n, s, Backward(m)) = {b}
    BY <2>1, <2>3, ClockIs DEF At
  <2> QED BY <2>4, <2>5, <2>6
<1> QED BY <1>1, <1>2 DEF ValidClocks

----------------------------------------------------------------------------
(* Nobody is stuck.                                                        *)

\* The guards of what a rank can do next: launch what is due, return from a wait,
\* compute; and of the steps of connect.
Launches(r) == Ready(r) /\ ~Exhausted(r) /\ Has(r, Due(r))
Receives(r) == Waiting(r) /\ Completed(seen[r] + 1)
Computes(r) ==
  Ready(r) /\ clock[r] <= LastClock(M(r)) /\ InputReady(r, Work(r, clock[r]))
Connecting ==
  \/ link[Root] = "start" /\ link[Peer] \in {"start", "sent"}
  \/ link[Peer] = "sent" /\ answered
  \/ \A r \in Ranks : link[r] = "init"

\* While nothing fails and the plans agree, a step is finished on both ranks, or some
\* rank can go on: with neither schedule, and for no number of microbatches, do the
\* two stages wait for each other.  This is the safety core of StepCompletes.
NeverStuck ==
  faults = 0 /\ PlansAgree =>
    \/ \A r \in Ranks : Finished(r)
    \/ Connecting
    \/ \E r \in Ranks : Launches(r) \/ Receives(r) \/ Computes(r)

\* As long as nothing fails: the ranks come to the link together, each stream is as
\* much of the plan as its cursor says, and a rank has waited for no more than both
\* have launched.
LinksUp ==
  \/ link[Root] = "start" /\ link[Peer] \in {"start", "sent"} /\ ~answered
  \/ link[Root] = "init" /\ link[Peer] \in {"sent", "init"} /\ answered
  \/ link[Root] = "up" /\ link[Peer] = "up"
InStep(r) ==
  /\ active[r] /\ Len(submitted[r]) = cursor[r]
  /\ \A k \in 1..cursor[r] : submitted[r][k] = Order(r)[k]
  /\ \A q \in Ranks : seen[r] <= cursor[q]
  /\ clock[r] <= LastClock(M(r)) + 1
Smooth == faults = 0 /\ PlansAgree => LinksUp /\ \A r \in Ranks : InStep(r)

LEMMA TwoRanks ==
  /\ Ranks = {0, 1} /\ Root = 0 /\ Peer = 1 /\ Ranks = Stages
  /\ \A r \in Ranks : Other(r) \in Ranks /\ Other(r) # r /\ \A q \in Ranks : q = r \/ q = Other(r)
BY DEF Ranks, Stages, Root, Peer, Other

LEMMA SmoothInit == Init => Smooth
<1> SUFFICES ASSUME Init, PlansAgree PROVE LinksUp /\ \A r \in Ranks : InStep(r)
  BY DEF Smooth
<1>1. TypeOK
  BY TypeInit
<1>2. ASSUME NEW r \in Ranks PROVE link[r] = "start"
  <2>1. ValidClocks(plan[r].schedule, M(r))
    BY <1>1, PlanTyped, ClocksAlwaysValid
  <2> QED BY <2>1, Zenon DEF Init
<1>3. ASSUME NEW r \in Ranks PROVE InStep(r)
  <2>1. /\ active[r] /\ submitted[r] = <<>> /\ clock[r] = 0
        /\ \A q \in Ranks : cursor[q] = 0 /\ seen[q] = 0
    BY DEF Init
  <2>2. LastClock(M(r)) \in Nat
    BY <1>1, PlanTyped DEF LastClock
  <2> QED BY <2>1, <2>2 DEF InStep
<1>4. ~answered
  BY DEF Init
<1> QED BY <1>2, <1>3, <1>4, TwoRanks DEF LinksUp

\* A step that only changes the links.
LEMMA SmoothConnect ==
  ASSUME \A r \in Ranks : InStep(r), UNCHANGED <<plan, active, cursor, submitted, seen, clock>>
  PROVE  \A r \in Ranks : InStep(r)'
BY DEF InStep, Order, M

LEMMA PlanStays == ASSUME TypeOK, [Next]_vars PROVE plan' = plan /\ faults' \in {faults, faults + 1}
<1> USE DEF connection, stream, NoFault, Fault
<1>1. CASE Connect
  BY <1>1 DEF Connect, Hello, CommInit, Compare, GiveUp
<1>2. ASSUME NEW r \in Ranks, Transport(r) PROVE plan' = plan /\ faults' \in {faults, faults + 1}
  <2>1. ASSUME NEW t, Execute(r, t) PROVE plan' = plan /\ faults' \in {faults, faults + 1}
    BY <2>1 DEF Execute
  <2>2. CASE Wait(r)
    BY <2>2 DEF Wait
  <2>3. CASE WaitTimesOut(r)
    BY <2>3 DEF WaitTimesOut
  <2> QED BY <1>2, <2>1, <2>2, <2>3 DEF Transport
<1>3. ASSUME NEW r \in Ranks, Compute(r) PROVE plan' = plan /\ faults' \in {faults, faults + 1}
  BY <1>3 DEF Compute
<1>4. ASSUME NEW r \in Ranks, Failures(r) PROVE plan' = plan /\ faults' \in {faults, faults + 1}
  BY <1>4 DEF Failures, CommInitFails, ExecuteTooMany, ExecuteFails, Die
<1>5. CASE UNCHANGED vars
  BY <1>5 DEF vars
<1> QED BY <1>1, <1>2, <1>3, <1>4, <1>5 DEF Next

LEMMA SmoothStep == ASSUME TypeOK, TypeOK', Smooth, [Next]_vars PROVE Smooth'
<1> SUFFICES ASSUME faults' = 0, PlansAgree' PROVE LinksUp' /\ \A r \in Ranks : InStep(r)'
  BY DEF Smooth
<1> USE DEF connection, stream
<1>0. plan' = plan /\ faults = 0 /\ PlansAgree
  <2>1. plan' = plan /\ faults' \in {faults, faults + 1} /\ faults \in Nat
    BY PlanStays DEF TypeOK
  <2> QED BY <2>1 DEF PlansAgree
<1>1. LinksUp /\ \A r \in Ranks : InStep(r)
  BY <1>0 DEF Smooth
<1>2. ~Fault
  BY <1>0 DEF Fault
<1>3. link \in [Ranks -> {"start", "sent", "init", "up", "failed"}]
  BY DEF TypeOK
<1>4. \A r \in Ranks : link[r] # "failed"
  BY <1>1, TwoRanks DEF LinksUp
<1>5. CASE Hello
  <2>1. LinksUp'
    BY <1>1, <1>3, <1>5, TwoRanks DEF Hello, LinksUp, LinkTo
  <2> QED BY <1>1, <1>5, <2>1, SmoothConnect DEF Hello
<1>6. CASE CommInit
  <2>1. LinksUp'
    BY <1>6, TwoRanks DEF CommInit, LinksUp
  <2> QED BY <1>1, <1>6, <2>1, SmoothConnect DEF CommInit
<1>7. ASSUME NEW r \in Ranks, Compare(r) PROVE LinksUp' /\ \A q \in Ranks : InStep(q)'
  <2>1. /\ IF r = Root THEN link[Root] = "start" /\ link[Peer] = "sent" ELSE link[Peer] = "sent" /\ answered
        /\ LinkTo(r, "init") /\ answered' = TRUE
        /\ UNCHANGED <<plan, active, cursor, submitted, seen, clock>>
    BY <1>0, <1>7 DEF Compare
  <2>2. LinksUp'
    BY <1>1, <1>3, <2>1, TwoRanks DEF LinksUp, LinkTo
  <2> QED BY <1>1, <2>1, <2>2, SmoothConnect
<1>8. ASSUME NEW r \in Ranks, GiveUp(r) PROVE FALSE
  BY <1>2, <1>4, <1>8, TwoRanks DEF GiveUp
<1>9. ASSUME NEW r \in Ranks, Failures(r) PROVE FALSE
  BY <1>2, <1>9 DEF Failures, CommInitFails, ExecuteTooMany, ExecuteFails, Die
<1>10. ASSUME NEW r \in Ranks, WaitTimesOut(r) PROVE FALSE
  <2>1. link[r] = "up" /\ ~Ready(Other(r))
    BY <1>2, <1>10 DEF WaitTimesOut, Waiting, Ready
  <2>2. link[Other(r)] = "up" /\ active[Other(r)]
    BY <1>1, <2>1, TwoRanks DEF LinksUp, InStep
  <2> QED BY <2>1, <2>2 DEF Ready
<1>11. ASSUME NEW r \in Ranks, NEW t \in Actions(M(r)), Execute(r, t)
       PROVE  LinksUp' /\ \A q \in Ranks : InStep(q)'
  <2>1. t = Due(r) /\ ~Exhausted(r) /\ UNCHANGED <<plan, link, answered, seen, clock>>
    BY <1>2, <1>11 DEF Execute
  <2>2. Launch(r, t) /\ cursor' = [cursor EXCEPT ![r] = cursor[r] + 1] /\ UNCHANGED active
    BY <1>11, <2>1 DEF Execute, Names
  <2>3. t = Order(r)[cursor[r] + 1] /\ cursor \in [Ranks -> Nat]
        /\ submitted \in [Ranks -> Seq(Actions(MaxMicrobatches))]
        /\ t \in Actions(MaxMicrobatches) /\ seen \in [Ranks -> Nat]
    BY <2>1, DueTyped, PlanTyped DEF TypeOK
  <2>4. /\ submitted'[r] = Append(submitted[r], t) /\ cursor'[r] = cursor[r] + 1
        /\ \A q \in Ranks : q # r => submitted'[q] = submitted[q] /\ cursor'[q] = cursor[q]
        /\ \A q \in Ranks : cursor[q] <= cursor'[q] /\ cursor[q] \in Nat /\ cursor'[q] \in Nat
    BY <2>2, <2>3 DEF Launch
  <2>5. Len(submitted'[r]) = cursor'[r] /\ \A k \in 1..cursor'[r] : submitted'[r][k] = Order(r)[k]
    <3>1. Len(submitted[r]) = cursor[r] /\ \A k \in 1..cursor[r] : submitted[r][k] = Order(r)[k]
      BY <1>1 DEF InStep
    <3>2. /\ Len(submitted'[r]) = Len(submitted[r]) + 1
          /\ \A k \in 1..Len(submitted[r]) : submitted'[r][k] = submitted[r][k]
          /\ submitted'[r][Len(submitted[r]) + 1] = t
      BY <2>3, <2>4
    <3> QED BY <2>3, <2>4, <3>1, <3>2
  <2>6. ASSUME NEW q \in Ranks PROVE InStep(q)'
    <3>1. Order(q)' = Order(q) /\ M(q)' = M(q)
      BY <2>1 DEF Order, M
    <3>2. \A p \in Ranks : seen'[q] <= cursor'[p]
      BY <1>1, <2>1, <2>3, <2>4 DEF InStep
    <3>3. active'[q] /\ clock'[q] <= LastClock(M(q)) + 1
      BY <1>1, <2>1, <2>2 DEF InStep
    <3>4. Len(submitted'[q]) = cursor'[q] /\ \A k \in 1..cursor'[q] : submitted'[q][k] = Order(q)[k]
      <4>1. CASE q = r
        BY <2>5, <4>1
      <4>2. CASE q # r
        <5>1. submitted'[q] = submitted[q] /\ cursor'[q] = cursor[q]
          BY <2>4, <4>2
        <5>2. Len(submitted[q]) = cursor[q] /\ \A k \in 1..cursor[q] : submitted[q][k] = Order(q)[k]
          BY <1>1 DEF InStep
        <5> QED BY <5>1, <5>2
      <4> QED BY <4>1, <4>2
    <3> QED BY <3>1, <3>2, <3>3, <3>4 DEF InStep
  <2> QED BY <1>1, <2>1, <2>6 DEF LinksUp
<1>12. ASSUME NEW r \in Ranks, Wait(r) PROVE LinksUp' /\ \A q \in Ranks : InStep(q)'
  <2>1. /\ Completed(seen[r] + 1) /\ seen' = [seen EXCEPT ![r] = seen[r] + 1]
        /\ UNCHANGED <<plan, link, answered, active, cursor, submitted, clock>>
    BY <1>12 DEF Wait
  <2>2. \A q \in Ranks : seen[r] + 1 <= cursor[q] /\ seen[q] \in Nat
    <3>1. \A q \in Ranks : seen[r] + 1 <= Len(submitted[q]) /\ seen[q] \in Nat
      BY <2>1 DEF Completed, TypeOK
    <3> QED BY <1>1, <3>1 DEF InStep
  <2>3. \A q \in Ranks : seen'[q] = IF q = r THEN seen[r] + 1 ELSE seen[q]
    BY <2>1 DEF TypeOK
  <2>4. ASSUME NEW q \in Ranks PROVE InStep(q)'
    BY <1>1, <2>1, <2>2, <2>3 DEF InStep, Order, M
  <2> QED BY <1>1, <2>1, <2>4 DEF LinksUp
<1>13. ASSUME NEW r \in Ranks, Compute(r) PROVE LinksUp' /\ \A q \in Ranks : InStep(q)'
  <2>1. /\ clock[r] <= LastClock(M(r)) /\ clock' = [clock EXCEPT ![r] = clock[r] + 1]
        /\ UNCHANGED <<plan, link, answered, active, cursor, submitted, seen>>
    BY <1>13 DEF Compute
  <2>2. clock[r] \in Nat /\ LastClock(M(r)) \in Nat
    BY PlanTyped DEF TypeOK, LastClock
  <2>3. ASSUME NEW q \in Ranks PROVE clock'[q] <= LastClock(M(q)) + 1
    BY <1>1, <2>1, <2>2 DEF InStep, TypeOK
  <2>4. ASSUME NEW q \in Ranks PROVE InStep(q)'
    BY <1>1, <2>1, <2>3 DEF InStep, Order, M
  <2> QED BY <1>1, <2>1, <2>4 DEF LinksUp
<1>14. CASE UNCHANGED vars
  BY <1>1, <1>14, SmoothConnect DEF vars, LinksUp
<1> QED
  BY <1>5, <1>6, <1>7, <1>8, <1>9, <1>10, <1>11, <1>12, <1>13, <1>14 DEF Next, Connect, Transport

\* If nobody can go on, both have waited for the same k transfers; the one that is due
\* next is not computed, because its stage waits for one that comes later (OrderFits).
LEMMA SmoothMoves == TypeOK /\ Smooth => NeverStuck
<1> SUFFICES ASSUME TypeOK, Smooth, faults = 0, PlansAgree, ~Connecting,
                    \A r \in Ranks : ~Launches(r) /\ ~Receives(r) /\ ~Computes(r)
             PROVE  \A r \in Ranks : Finished(r)
  BY DEF NeverStuck
<1>1. LinksUp /\ \A r \in Ranks : InStep(r)
  BY DEF Smooth
<1>2. \A r \in Ranks : Ready(r)
  BY <1>1, TwoRanks DEF LinksUp, Connecting, Ready, InStep
<1>3. PICK n \in Nat \ {0}, schedule \in Schedules :
        \A r \in Ranks : M(r) = n /\ plan[r].schedule = schedule
  BY TwoRanks, PlanTyped DEF PlansAgree, M
<1>4. \A r \in Ranks : Order(r) = TransferOrder(schedule, n)
  BY <1>3 DEF Order
<1>5. \A r \in Ranks : /\ cursor[r] \in Nat /\ seen[r] \in Nat /\ clock[r] \in Nat
                       /\ cursor[r] <= 2 * n /\ clock[r] <= LastClock(n) + 1
                       /\ \A q \in Ranks : seen[r] <= cursor[q]
  BY <1>1, <1>3 DEF TypeOK, InStep, TransferCount
<1>6. PICK k \in Nat : /\ \A r \in Ranks : k <= cursor[r]
                       /\ \E r \in Ranks : k = cursor[r]
  BY <1>5, TwoRanks
<1>7. \A r \in Ranks : seen[r] = k
  <2> SUFFICES ASSUME NEW r \in Ranks, seen[r] # k PROVE FALSE
    OBVIOUS
  <2>1. seen[r] + 1 <= k /\ seen[r] < cursor[r]
    BY <1>5, <1>6
  <2>2. ASSUME NEW j \in 1..(seen[r] + 1)
        PROVE  /\ \A q \in Ranks : j <= Len(submitted[q])
               /\ submitted[Root][j] = submitted[Peer][j]
    <3>1. \A q \in Ranks : j \in 1..cursor[q]
      BY <1>5, <1>6, <2>1
    <3> QED BY <1>1, <1>4, <3>1, TwoRanks DEF InStep
  <2>3. Completed(seen[r] + 1)
    BY <2>2 DEF Completed
  <2> QED BY <1>2, <2>1, <2>3 DEF Receives, Waiting
<1>8. ASSUME NEW r \in Ranks, clock[r] <= LastClock(n)
      PROVE  \E u \in Actions(n) : /\ Clock(schedule, n, clock[r])[r] = u /\ Source(u) # r
                                   /\ k < PlaceOf(schedule, n, u)
  <2> DEFINE u == Clock(schedule, n, clock[r])[r]
  <2>1. Work(r, clock[r]) = u
    BY <1>3 DEF Work
  <2>2. u # Bubble /\ Source(u) # r /\ ~Received(r, u)
    BY <1>2, <1>3, <1>8, <2>1 DEF Computes, InputReady
  <2>3. u \in Actions(n)
    <3>1. clock[r] \in 0..LastClock(n) /\ r \in Stages
      BY <1>5, <1>8, TwoRanks DEF LastClock
    <3> QED BY <2>2, <3>1, ClocksAlwaysValid DEF ValidClocks
  <2> HIDE DEF u
  <2>4. PICK p \in 1..(2 * n) : p = PlaceOf(schedule, n, u) /\ Order(r)[p] = u
    BY <1>4, <2>3, PlaceIs DEF TransferCount
  <2>5. p \notin 1..k
    BY <1>7, <2>2, <2>4 DEF Received
  <2> QED BY <1>6, <2>2, <2>3, <2>4, <2>5 DEF u
<1>9. CASE k = 2 * n
  <2>1. ASSUME NEW r \in Ranks PROVE clock[r] = LastClock(n) + 1
    <3>1. \A u \in Actions(n) : ~(2 * n < PlaceOf(schedule, n, u))
      BY PlaceIs DEF TransferCount
    <3>2. ~(clock[r] <= LastClock(n))
      BY <1>8, <1>9, <3>1
    <3> QED BY <1>5, <3>2 DEF LastClock
  <2>2. \A r \in Ranks : cursor[r] = 2 * n
    BY <1>5, <1>6, <1>9
  <2> QED BY <1>3, <1>7, <1>9, <2>1, <2>2 DEF Finished, Exhausted, TransferCount
<1>10. CASE k # 2 * n
  <2>1. k + 1 \in 1..TransferCount(n)
    BY <1>5, <1>6, <1>10 DEF TransferCount
  <2>2. PICK t \in Actions(n) : t = TransferOrder(schedule, n)[k + 1]
    BY <2>1, OrderTyped
  <2>3. ASSUME NEW r \in Ranks, cursor[r] = k
        PROVE  Source(t) = r /\ \A c \in 0..(clock[r] - 1) : Clock(schedule, n, c)[r] # t
    <3>1. Due(r) = t /\ ~Exhausted(r)
      BY <1>3, <1>4, <1>10, <2>2, <2>3 DEF Due, Exhausted, TransferCount
    <3>2. ~Has(r, t)
      BY <1>2, <3>1 DEF Launches
    <3> QED BY <1>3, <3>2 DEF Has, Work
  <2>4. PICK r \in Ranks : cursor[r] = k
    BY <1>6
  <2>5. Source(t) = r /\ r \in Stages
    BY <2>3, <2>4, TwoRanks
  <2>6. PICK c \in 0..LastClock(n) : c = ClockOf(schedule, n, r, t) /\ Clock(schedule, n, c)[r] = t
    BY <2>5, ClockOfIs, ClockIs
  <2>7. clock[r] <= c
    BY <1>5, <2>3, <2>4, <2>6
  <2>8. PICK u \in Actions(n) : /\ Clock(schedule, n, clock[r])[r] = u /\ Source(u) # r
                                /\ k < PlaceOf(schedule, n, u)
    <3>1. clock[r] <= LastClock(n)
      BY <1>5, <2>6, <2>7 DEF LastClock
    <3> QED BY <1>8, <3>1
  <2>9. clock[r] = ClockOf(schedule, n, r, u) /\ clock[r] < c
    <3>1. clock[r] \in 0..LastClock(n) /\ clock[r] # c
      BY <1>5, <2>5, <2>6, <2>7, <2>8 DEF LastClock
    <3>2. clock[r] = ClockOf(schedule, n, r, u)
      BY <2>5, <2>8, <3>1, ClockIs
    <3> QED BY <1>5, <2>7, <3>1, <3>2
  <2>10. PlaceOf(schedule, n, u) < PlaceOf(schedule, n, t)
    BY <2>5, <2>6, <2>8, <2>9, OrderFits
  <2>11. PlaceOf(schedule, n, t) = k + 1
    BY <2>1, <2>2, PlaceUnique
  <2>12. PlaceOf(schedule, n, u) \in Nat
    BY PlaceIs DEF TransferCount
  <2> QED BY <2>8, <2>10, <2>11, <2>12
<1> QED BY <1>9, <1>10

\* NeverStuck, with or without a distributed context, for every number of
\* microbatches.
THEOREM PipelineNeverStuck == Spec => []NeverStuck
<1>1. Init => TypeOK /\ Smooth
  BY TypeInit, SmoothInit
<1>2. TypeOK /\ Smooth /\ [Next]_vars => TypeOK' /\ Smooth'
  BY TypeStep, SmoothStep
<1> QED BY <1>1, <1>2, SmoothMoves, PTL DEF Spec

\* How far a step has come; it can come no further than Effort = Most.
Stage(l) == CASE l = "start" -> 0 [] l = "sent" -> 1 [] l = "init" -> 2 [] OTHER -> 3
Effort ==
  Stage(link[Root]) + Stage(link[Peer]) + cursor[Root] + cursor[Peer]
    + seen[Root] + seen[Peer] + clock[Root] + clock[Peer]
Most == 12 * M(Root) + 10

\* While nothing fails each step brings the ranks closer to the end, which is at most
\* Most away: with NeverStuck, a run of which no rank stops finishes.
OnlyForward == [][faults' = 0 /\ PlansAgree => Effort < Effort' /\ Effort' <= Most]_vars

EffortFits == faults = 0 /\ PlansAgree => Effort <= Most

LEMMA EffortBounded == TypeOK /\ Smooth => EffortFits
<1> SUFFICES ASSUME TypeOK, Smooth, faults = 0, PlansAgree PROVE Effort <= Most
  BY DEF EffortFits
<1>1. \A l : Stage(l) \in 0..3
  BY DEF Stage
<1>2. PICK n \in Nat \ {0} : M(Root) = n /\ M(Peer) = n
  BY TwoRanks, PlanTyped DEF PlansAgree, M
<1>3. ASSUME NEW r \in Ranks
      PROVE  cursor[r] \in 0..(2 * n) /\ seen[r] \in 0..(2 * n) /\ clock[r] \in 0..(2 * n + 2)
  <2>1. M(r) = n
    BY <1>2, TwoRanks
  <2>2. cursor[r] \in Nat /\ seen[r] \in Nat /\ clock[r] \in Nat
        /\ seen[r] <= cursor[r] /\ cursor[r] <= 2 * n
    BY <2>1 DEF TypeOK, TransferCount
  <2>3. clock[r] <= LastClock(n) + 1
    BY <2>1 DEF Smooth, InStep
  <2> QED BY <2>2, <2>3 DEF LastClock
<1>4. Stage(link[Root]) \in 0..3 /\ Stage(link[Peer]) \in 0..3
  BY <1>1
<1> QED BY <1>2, <1>3, <1>4, TwoRanks DEF Effort, Most

LEMMA Forwards ==
  ASSUME TypeOK, Smooth, EffortFits', [Next]_vars, vars' # vars, faults' = 0, PlansAgree
  PROVE  Effort < Effort' /\ Effort' <= Most
<1> USE DEF connection, stream
<1>0. plan' = plan /\ faults = 0
  <2>1. plan' = plan /\ faults' \in {faults, faults + 1} /\ faults \in Nat
    BY PlanStays DEF TypeOK
  <2> QED BY <2>1
<1>1. LinksUp /\ \A r \in Ranks : active[r]
  BY <1>0 DEF Smooth, InStep
<1>2. ~Fault
  BY <1>0 DEF Fault
<1>3. /\ link \in [Ranks -> {"start", "sent", "init", "up", "failed"}]
      /\ cursor \in [Ranks -> Nat] /\ seen \in [Ranks -> Nat] /\ clock \in [Ranks -> Nat]
  BY DEF TypeOK
<1>4. \A l : Stage(l) \in 0..3
  BY DEF Stage
<1>5. Effort' <= Most
  <2>1. Effort' <= Most'
    BY <1>0 DEF EffortFits, PlansAgree
  <2> QED BY <1>0, <2>1 DEF Most, M
<1>6. ASSUME UNCHANGED <<cursor, seen, clock>>,
             Stage(link[Root]) + Stage(link[Peer]) < Stage(link'[Root]) + Stage(link'[Peer])
      PROVE  Effort < Effort'
  <2>1. PICK a \in Int, b \in Int : /\ a = Stage(link[Root]) + Stage(link[Peer])
                                   /\ b = Stage(link'[Root]) + Stage(link'[Peer])
    BY <1>4
  <2> QED BY <1>3, <1>6, <2>1, TwoRanks DEF Effort
<1>7. CASE Hello
  <2>1. link[Root] = "start" /\ link[Peer] = "start" /\ link'[Root] = "start" /\ link'[Peer] = "sent"
    BY <1>3, <1>7, TwoRanks DEF Hello, LinkTo
  <2> QED BY <1>5, <1>6, <1>7, <2>1 DEF Hello, Stage
<1>8. CASE CommInit
  <2>1. link[Root] = "init" /\ link[Peer] = "init" /\ link'[Root] = "up" /\ link'[Peer] = "up"
    BY <1>8, TwoRanks DEF CommInit
  <2> QED BY <1>5, <1>6, <1>8, <2>1 DEF CommInit, Stage
<1>9. ASSUME NEW r \in Ranks, Compare(r) PROVE Effort < Effort'
  <2>1. /\ link[r] \in {"start", "sent"} /\ link'[r] = "init"
        /\ \A q \in Ranks : q # r => link'[q] = link[q]
        /\ UNCHANGED <<cursor, seen, clock>>
    BY <1>3, <1>9, TwoRanks DEF Compare, LinkTo
  <2>2. Stage(link[r]) < 2 /\ Stage(link'[r]) = 2
    BY <2>1 DEF Stage
  <2>3. Stage(link[Root]) + Stage(link[Peer]) < Stage(link'[Root]) + Stage(link'[Peer])
    <3>1. CASE r = Root
      BY <1>4, <2>1, <2>2, <3>1, TwoRanks
    <3>2. CASE r = Peer
      BY <1>4, <2>1, <2>2, <3>2, TwoRanks
    <3> QED BY <3>1, <3>2, TwoRanks
  <2> QED BY <1>6, <2>1, <2>3
<1>10. ASSUME NEW r \in Ranks, GiveUp(r) \/ Failures(r) \/ WaitTimesOut(r) PROVE FALSE
  <2>1. ~GiveUp(r)
    BY <1>1, <1>2, TwoRanks DEF GiveUp, LinksUp
  <2>2. ~Failures(r)
    BY <1>2 DEF Failures, CommInitFails, ExecuteTooMany, ExecuteFails, Die
  <2>3. CASE WaitTimesOut(r)
    <3>1. link[r] = "up" /\ ~Ready(Other(r))
      BY <1>2, <2>3 DEF WaitTimesOut, Waiting, Ready
    <3>2. link[Other(r)] = "up" /\ active[Other(r)]
      BY <1>1, <3>1, TwoRanks DEF LinksUp
    <3> QED BY <3>1, <3>2 DEF Ready
  <2> QED BY <1>10, <2>1, <2>2, <2>3
<1>11. ASSUME NEW f, f \in [Ranks -> Nat], NEW g, NEW r \in Ranks, g = [f EXCEPT ![r] = f[r] + 1]
       PROVE  g[Root] + g[Peer] = f[Root] + f[Peer] + 1
  BY <1>11, TwoRanks
<1>12. ASSUME NEW r \in Ranks, NEW t \in Actions(M(r)), Execute(r, t) PROVE Effort < Effort'
  <2>1. t = Due(r) /\ UNCHANGED <<link, seen, clock>>
    BY <1>2, <1>12 DEF Execute
  <2>2. cursor' = [cursor EXCEPT ![r] = cursor[r] + 1]
    BY <1>12, <2>1 DEF Execute, Names
  <2>3. cursor'[Root] + cursor'[Peer] = cursor[Root] + cursor[Peer] + 1
    BY <1>3, <1>11, <2>2
  <2>4. \A q \in Ranks : cursor'[q] \in Nat
    BY <1>3, <2>2
  <2>5. PICK a \in Int, b \in Int : a = Stage(link[Root]) /\ b = Stage(link[Peer])
    BY <1>4
  <2> QED BY <1>3, <2>1, <2>3, <2>4, <2>5, TwoRanks DEF Effort
<1>13. ASSUME NEW r \in Ranks, Wait(r) PROVE Effort < Effort'
  <2>1. seen' = [seen EXCEPT ![r] = seen[r] + 1] /\ UNCHANGED <<link, cursor, clock>>
    BY <1>13 DEF Wait
  <2>2. seen'[Root] + seen'[Peer] = seen[Root] + seen[Peer] + 1
    BY <1>3, <1>11, <2>1
  <2>3. \A q \in Ranks : seen'[q] \in Nat
    BY <1>3, <2>1
  <2>4. PICK a \in Int, b \in Int : a = Stage(link[Root]) /\ b = Stage(link[Peer])
    BY <1>4
  <2> QED BY <1>3, <2>1, <2>2, <2>3, <2>4, TwoRanks DEF Effort
<1>14. ASSUME NEW r \in Ranks, Compute(r) PROVE Effort < Effort'
  <2>1. clock' = [clock EXCEPT ![r] = clock[r] + 1] /\ UNCHANGED <<link, cursor, seen>>
    BY <1>14 DEF Compute
  <2>2. clock'[Root] + clock'[Peer] = clock[Root] + clock[Peer] + 1
    BY <1>3, <1>11, <2>1
  <2>3. \A q \in Ranks : clock'[q] \in Nat
    BY <1>3, <2>1
  <2>4. PICK a \in Int, b \in Int : a = Stage(link[Root]) /\ b = Stage(link[Peer])
    BY <1>4
  <2> QED BY <1>3, <2>1, <2>2, <2>3, <2>4, TwoRanks DEF Effort
<1> QED
  BY <1>5, <1>7, <1>8, <1>9, <1>10, <1>12, <1>13, <1>14 DEF Next, Connect, Transport

\* OnlyForward: what is launched, waited for and computed is never undone.
THEOREM PipelineOnlyForward == Spec => OnlyForward
<1>1. Init => TypeOK /\ Smooth
  BY TypeInit, SmoothInit
<1>2. TypeOK /\ Smooth /\ [Next]_vars => TypeOK' /\ Smooth'
  BY TypeStep, SmoothStep
<1>3. TypeOK /\ Smooth /\ EffortFits' /\ [Next]_vars =>
        [faults' = 0 /\ PlansAgree => Effort < Effort' /\ Effort' <= Most]_vars
  BY Forwards
<1> QED BY <1>1, <1>2, <1>3, EffortBounded, PTL DEF Spec, OnlyForward
==============================================================================
