---------------------- MODULE GradientRendezvousProofs ----------------------
(***************************************************************************)
(* For every set of shapes and every number of calls: the rendezvous is    *)
(* well typed, the gradients it combines belong together, and both ranks   *)
(* stop.  The invariant follows a rank up to its first error: an idle rank *)
(* has left nothing behind, a rank in a call has its deposit or its result *)
(* in the table but not both, and as long as neither has failed the same   *)
(* number of collectives is settled for both.  When a rank fails the pair  *)
(* is poisoned and nothing is published any more, so what is settled for   *)
(* its peer then is all the peer will ever get.  And no rank sleeps while  *)
(* there is something for it to see.                                       *)
(***************************************************************************)
EXTENDS GradientRendezvous, TLAPS

Fresh(r) == failedAt[r] = 0

\* A rank in a call has called.
Called == \A r \in Ranks : pc[r] # "idle" => calls[r] \in 1..MaxCalls

\* Paired, for one rank.
PairedFor(r) ==
  Fresh(r) =>
    \A n \in 1..Len(got[r]) :
      got[r][n].pair[0] = got[r][n].pair[1] /\ got[r][n].pair[r].step = n

\* Collectives whose result a rank has, or that is there for it to take.
Settled(r) == IF pc[r] # "idle" /\ Result(r) = {} THEN calls[r] - 1 ELSE calls[r]

IdleClean(r) ==
  Fresh(r) /\ pc[r] = "idle" =>
    /\ Len(got[r]) = calls[r]
    /\ \A s \in Slots : pending[s][r] = {} /\ ready[s][r] = {}

BusyOwn(r) ==
  Fresh(r) /\ pc[r] # "idle" =>
    /\ Len(got[r]) = calls[r] - 1 /\ calls[r] >= 1
    /\ \A s \in Slots \ {Slot(r)} : pending[s][r] = {} /\ ready[s][r] = {}
    /\ Mine(r) = {} \/ Result(r) = {}
    /\ \A d \in Mine(r) : d.step = calls[r] /\ d.shape = call[r].shape
    /\ \A pair \in Result(r) :
         /\ pair[0] = pair[1]
         /\ pair[r].step = calls[r] /\ pair[r].shape = call[r].shape

Level == Fresh(0) /\ Fresh(1) => Settled(0) = Settled(1)

NotBeyond(r) == ~Fresh(r) /\ Fresh(Peer(r)) => Settled(Peer(r)) <= failedAt[r]

RankInvariant(r) == IdleClean(r) /\ BusyOwn(r) /\ PairedFor(r)

RendezvousInvariant ==
  /\ TypeOK /\ Called
  /\ \A r \in Ranks : RankInvariant(r) /\ NotBeyond(r)
  /\ Level

----------------------------------------------------------------------------
(* Types.                                                                  *)

LEMMA RankFacts ==
  /\ Ranks = {0, 1} /\ Leader \in Ranks
  /\ \A r \in Ranks : Peer(r) \in Ranks /\ Peer(r) # r /\ Peer(Peer(r)) = r
  /\ \A r, p \in Ranks : p = r \/ p = Peer(r)
BY DEF Ranks, Leader, Peer

\* What Notify and Go do to the program counters.
LEMMA NotifyMoves ==
  ASSUME TypeOK, NEW r \in Ranks,
         NEW place \in {"idle", "looking", "asleep", "awake", "expired"},
         Notify(r, place)
  PROVE  /\ pc' \in [Ranks -> {"idle", "looking", "asleep", "awake", "expired"}]
         /\ pc'[r] = place
         /\ \A p \in Ranks : p # r =>
              pc'[p] = (IF pc[p] = "asleep" THEN "awake" ELSE pc[p])
BY DEF Notify, TypeOK

LEMMA GoMoves ==
  ASSUME TypeOK, NEW r \in Ranks,
         NEW place \in {"idle", "looking", "asleep", "awake", "expired"},
         Go(r, place)
  PROVE  /\ pc' \in [Ranks -> {"idle", "looking", "asleep", "awake", "expired"}]
         /\ pc'[r] = place
         /\ \A p \in Ranks : p # r => pc'[p] = pc[p]
BY DEF Go, TypeOK

LEMMA FailsMoves ==
  ASSUME TypeOK, NEW r \in Ranks, NEW n \in 1..MaxCalls, Fails(r, n)
  PROVE  /\ failedAt' \in [Ranks -> 0..MaxCalls]
         /\ failedAt'[r] # 0
         /\ failedAt'[r] = (IF failedAt[r] = 0 THEN n ELSE failedAt[r])
         /\ \A p \in Ranks : p # r => failedAt'[p] = failedAt[p]
BY RendezvousAssumption DEF Fails, TypeOK

LEMMA StopMoves ==
  ASSUME TypeOK, NEW r \in Ranks, NEW n \in 1..MaxCalls,
         NEW reason \in Reasons \ {"none"}, Stop(r, n, reason)
  PROVE  /\ poison' = reason /\ poison' \in Reasons /\ poison' # "none"
         /\ failedAt' \in [Ranks -> 0..MaxCalls]
         /\ failedAt'[r] # 0
         /\ failedAt'[r] = (IF failedAt[r] = 0 THEN n ELSE failedAt[r])
         /\ \A p \in Ranks : p # r => failedAt'[p] = failedAt[p]
         /\ pc' \in [Ranks -> {"idle", "looking", "asleep", "awake", "expired"}]
         /\ pc'[r] = "idle"
         /\ \A p \in Ranks : p # r =>
              pc'[p] = (IF pc[p] = "asleep" THEN "awake" ELSE pc[p])
<1>1. poison' = reason /\ Fails(r, n) /\ Notify(r, "idle")
  BY DEF Stop
<1>2. QED
  BY <1>1, FailsMoves, NotifyMoves DEF Reasons

LEMMA TypeInit == Init => TypeOK /\ Called
<1> SUFFICES ASSUME Init PROVE TypeOK /\ Called
  OBVIOUS
<1>1. call \in [Ranks -> Calls]
  BY DEF Init
<1>2. <<>> \in Seq([pair: [Ranks -> Deposits], late: BOOLEAN])
  OBVIOUS
<1>3. got \in [Ranks -> Seq([pair: [Ranks -> Deposits], late: BOOLEAN])]
  BY <1>2, Zenon DEF Init
<1>4. /\ pending \in [Slots -> [Ranks -> SUBSET Deposits]]
      /\ ready \in [Slots -> [Ranks -> SUBSET [Ranks -> Deposits]]]
  BY DEF Init
<1>5. QED
  BY <1>1, <1>3, <1>4, RendezvousAssumption DEF Init, TypeOK, Called, Ranks, Reasons

\* A step of rank r that leaves the table alone and stops the pair.
LEMMA StopTyped ==
  ASSUME TypeOK, Called, NEW r \in Ranks, pc[r] # "idle",
         NEW reason \in Reasons \ {"none"}, Stop(r, calls[r], reason),
         UNCHANGED <<alive, call, calls, got>>,
         pending' \in [Slots -> [Ranks -> SUBSET Deposits]],
         ready' \in [Slots -> [Ranks -> SUBSET [Ranks -> Deposits]]]
  PROVE  TypeOK' /\ Called'
<1>1. calls[r] \in 1..MaxCalls
  BY DEF Called
<1>2. QED
  BY <1>1, StopMoves, RankFacts DEF TypeOK, Called

\* A step that only moves program counters, and no rank into a call.
LEMMA MoveTyped ==
  ASSUME TypeOK, Called, UNCHANGED <<poison, call, history>>,
         alive' \in [Ranks -> BOOLEAN],
         pending' \in [Slots -> [Ranks -> SUBSET Deposits]],
         ready' \in [Slots -> [Ranks -> SUBSET [Ranks -> Deposits]]],
         pc' \in [Ranks -> {"idle", "looking", "asleep", "awake", "expired"}],
         pc'[0] # "looking" \/ pc'[1] # "looking",
         \A p \in Ranks : pc'[p] # "idle" => pc[p] # "idle"
  PROVE  TypeOK' /\ Called'
BY DEF TypeOK, Called, history

LEMMA CallTyped ==
  ASSUME TypeOK, Called, NEW r \in Ranks, NEW slot \in Slots, NEW shape \in Shapes,
         Call(r, slot, shape)
  PROVE  TypeOK' /\ Called'
<1> DEFINE c == [slot |-> slot, shape |-> shape, late |-> poison # "none"]
<1>1. calls[r] \in 0..MaxCalls /\ calls[r] < MaxCalls /\ calls[r] + 1 \in 1..MaxCalls
  BY RendezvousAssumption DEF Call, TypeOK
<1>2. calls' = [calls EXCEPT ![r] = calls[r] + 1] /\ calls' \in [Ranks -> 0..MaxCalls]
  BY <1>1 DEF Call, TypeOK
<1>3. call' \in [Ranks -> Calls]
  <2>1. c \in Calls
    BY DEF Calls
  <2>2. call' = [call EXCEPT ![r] = c]
    BY DEF Call
  <2>3. QED
    BY <2>1, <2>2 DEF TypeOK
<1>4. UNCHANGED <<ready, alive, got>>
  BY DEF Call
<1>5. CASE pending[slot][r] = {}
  <2>1. Deposit(r, slot, shape)
    BY <1>5 DEF Call
  <2>2. pending' \in [Slots -> [Ranks -> SUBSET Deposits]]
    <3>1. [step |-> calls[r] + 1, shape |-> shape] \in Deposits
      BY <1>1 DEF Deposits
    <3>2. pending' = [pending EXCEPT ![slot][r] =
                        {[step |-> calls[r] + 1, shape |-> shape]}]
      BY <2>1 DEF Deposit
    <3>3. QED
      BY <3>1, <3>2 DEF TypeOK
  <2>3. Notify(r, "looking") /\ UNCHANGED <<poison, failedAt>>
    BY <2>1 DEF Deposit
  <2>4. /\ pc' \in [Ranks -> {"idle", "looking", "asleep", "awake", "expired"}]
        /\ \A p \in Ranks : p # r => pc'[p] # "looking"
        /\ \A p \in Ranks : p # r /\ pc'[p] # "idle" => pc[p] # "idle"
    BY <2>3, NotifyMoves DEF Call, Free
  <2>5. pc'[0] # "looking" \/ pc'[1] # "looking"
    BY <2>4, RankFacts
  <2>6. QED
    BY <1>1, <1>2, <1>3, <1>4, <2>2, <2>3, <2>4, <2>5 DEF TypeOK, Called
<1>6. CASE pending[slot][r] # {}
  <2>1. Stop(r, calls[r] + 1, "twice") /\ UNCHANGED pending
    BY <1>6 DEF Call
  <2>2. "twice" \in Reasons \ {"none"}
    BY DEF Reasons
  <2>3. /\ poison' \in Reasons /\ poison' # "none"
        /\ failedAt' \in [Ranks -> 0..MaxCalls]
        /\ pc' \in [Ranks -> {"idle", "looking", "asleep", "awake", "expired"}]
        /\ pc'[r] = "idle"
        /\ \A p \in Ranks : p # r => pc'[p] = (IF pc[p] = "asleep" THEN "awake" ELSE pc[p])
    BY <1>1, <2>1, <2>2, StopMoves
  <2>4. pc'[0] # "looking" \/ pc'[1] # "looking"
    BY <2>3, RankFacts
  <2>5. \A p \in Ranks : pc'[p] # "idle" => pc[p] # "idle" /\ calls'[p] = calls[p]
    BY <1>2, <2>3 DEF TypeOK
  <2>6. QED
    BY <1>2, <1>3, <1>4, <2>1, <2>3, <2>4, <2>5 DEF TypeOK, Called
<1>7. QED
  BY <1>5, <1>6

LEMMA TakeTyped ==
  ASSUME TypeOK, Called, NEW r \in Ranks, Take(r)
  PROVE  TypeOK' /\ Called'
<1>1. PICK pair \in Result(r) :
        /\ ready' = [ready EXCEPT ![Slot(r)][r] = {}]
        /\ IF Slot(r) = "batch" /\ pair[r].shape # call[r].shape
             THEN Stop(r, calls[r], "corrupt") /\ UNCHANGED got
             ELSE /\ got' = [got EXCEPT ![r] =
                               Append(@, [pair |-> pair, late |-> call[r].late])]
                  /\ Go(r, "idle")
                  /\ UNCHANGED <<poison, failedAt>>
  BY Zenon DEF Take
<1>2. pc[r] = "looking" /\ UNCHANGED <<pending, alive, call, calls>>
  BY DEF Take
<1>3. Slot(r) \in Slots /\ call[r].late \in BOOLEAN
  BY DEF TypeOK, Slot, Calls
<1>4. ready' \in [Slots -> [Ranks -> SUBSET [Ranks -> Deposits]]]
  BY <1>1, <1>3 DEF TypeOK
<1>5. CASE Slot(r) = "batch" /\ pair[r].shape # call[r].shape
  <2>1. Stop(r, calls[r], "corrupt") /\ UNCHANGED got
    BY <1>1, <1>5, Zenon
  <2>2. "corrupt" \in Reasons \ {"none"}
    BY DEF Reasons
  <2>3. pending' \in [Slots -> [Ranks -> SUBSET Deposits]]
    BY <1>2 DEF TypeOK
  <2>4. QED
    BY <1>2, <1>4, <2>1, <2>2, <2>3, StopTyped
<1>6. CASE ~(Slot(r) = "batch" /\ pair[r].shape # call[r].shape)
  <2>1. /\ got' = [got EXCEPT ![r] =
                      Append(got[r], [pair |-> pair, late |-> call[r].late])]
        /\ Go(r, "idle") /\ UNCHANGED <<poison, failedAt>>
    BY <1>1, <1>6, Zenon
  <2>2. pair \in [Ranks -> Deposits]
    BY <1>3 DEF TypeOK, Result
  <2>3. got' \in [Ranks -> Seq([pair: [Ranks -> Deposits], late: BOOLEAN])]
    <3> DEFINE R == [pair: [Ranks -> Deposits], late: BOOLEAN]
               entry == [pair |-> pair, late |-> call[r].late]
    <3>1. entry \in R
      BY <1>3, <2>2
    <3>2. got \in [Ranks -> Seq(R)]
      BY DEF TypeOK
    <3>3. got' = [got EXCEPT ![r] = Append(got[r], entry)]
      BY <2>1
    <3> HIDE DEF R, entry
    <3>4. Append(got[r], entry) \in Seq(R)
      BY <3>1, <3>2
    <3>5. got' \in [Ranks -> Seq(R)]
      BY <3>2, <3>3, <3>4
    <3>6. QED
      BY <3>5 DEF R
  <2>4. /\ pc' \in [Ranks -> {"idle", "looking", "asleep", "awake", "expired"}]
        /\ pc'[r] = "idle" /\ \A p \in Ranks : p # r => pc'[p] = pc[p]
    BY <2>1, GoMoves
  <2>5. pc'[0] # "looking" \/ pc'[1] # "looking"
    BY <2>4, RankFacts
  <2>6. QED
    BY <1>2, <1>4, <2>1, <2>3, <2>4, <2>5 DEF TypeOK, Called
<1>7. QED
  BY <1>5, <1>6

LEMMA LookTyped ==
  ASSUME TypeOK, Called, NEW r \in Ranks, Look(r)
  PROVE  TypeOK' /\ Called'
<1>1. /\ pending \in [Slots -> [Ranks -> SUBSET Deposits]]
      /\ ready \in [Slots -> [Ranks -> SUBSET [Ranks -> Deposits]]]
      /\ alive \in [Ranks -> BOOLEAN] /\ Slot(r) \in Slots
  BY DEF TypeOK, Slot, Calls
<1>2. Emptied(r) \in [Slots -> [Ranks -> SUBSET Deposits]]
  BY <1>1 DEF Emptied
<1>3. {"gone", "diverged", "transport"} \subseteq Reasons \ {"none"}
  BY DEF Reasons
<1>4. CASE Take(r)
  BY <1>4, TakeTyped
<1>5. CASE Refuse(r)
  <2>1. /\ pc[r] = "looking" /\ poison # "none"
        /\ Fails(r, calls[r]) /\ Go(r, "idle")
        /\ UNCHANGED <<table, poison, alive, call, calls, got>>
    BY <1>5 DEF Refuse, Poisoned
  <2>2. failedAt' \in [Ranks -> 0..MaxCalls]
    BY <2>1, FailsMoves DEF Called
  <2>3. /\ pc' \in [Ranks -> {"idle", "looking", "asleep", "awake", "expired"}]
        /\ pc'[r] = "idle" /\ \A p \in Ranks : p # r => pc'[p] = pc[p]
    BY <2>1, GoMoves
  <2>4. pc'[0] # "looking" \/ pc'[1] # "looking"
    BY <2>3, RankFacts
  <2>5. QED
    BY <2>1, <2>2, <2>3, <2>4 DEF TypeOK, Called, table
<1>6. CASE PeerGone(r)
  <2>1. pc[r] = "looking" /\ Stop(r, calls[r], "gone")
        /\ UNCHANGED <<table, alive, call, calls, got>>
    BY <1>6 DEF PeerGone
  <2>2. QED
    BY <1>1, <1>3, <2>1, StopTyped DEF table
<1>7. CASE Diverge(r)
  <2>1. pc[r] = "looking" /\ Stop(r, calls[r], "diverged")
        /\ UNCHANGED <<table, alive, call, calls, got>>
    BY <1>7 DEF Diverge, Open
  <2>2. QED
    BY <1>1, <1>3, <2>1, StopTyped DEF table
<1>8. CASE Publish(r)
  <2>1. PICK m \in Mine(r), t \in Theirs(r) :
          ready' = [ready EXCEPT ![Slot(r)] =
                      [p \in Ranks |-> {[q \in Ranks |-> IF q = r THEN m ELSE t]}]]
    BY <1>8, Zenon DEF Publish
  <2>2. m \in Deposits /\ t \in Deposits
    BY <1>1, RankFacts DEF Mine, Theirs
  <2>3. [q \in Ranks |-> IF q = r THEN m ELSE t] \in [Ranks -> Deposits]
    BY <2>2
  <2>4. ready' \in [Slots -> [Ranks -> SUBSET [Ranks -> Deposits]]]
    BY <1>1, <2>1, <2>3
  <2>5. /\ pc[r] = "looking" /\ Notify(r, "looking") /\ pending' = Emptied(r)
        /\ UNCHANGED <<poison, alive, call, history>>
    BY <1>8 DEF Publish, Open
  <2>6. /\ pc' \in [Ranks -> {"idle", "looking", "asleep", "awake", "expired"}]
        /\ pc'[r] = "looking"
        /\ \A p \in Ranks : p # r =>
             pc'[p] = (IF pc[p] = "asleep" THEN "awake" ELSE pc[p])
    BY <2>5, NotifyMoves
  <2>7. pc'[0] # "looking" \/ pc'[1] # "looking"
    BY <2>5, <2>6, RankFacts DEF TypeOK
  <2>8. \A p \in Ranks : pc'[p] # "idle" => pc[p] # "idle"
    BY <2>5, <2>6
  <2>9. alive' \in [Ranks -> BOOLEAN] /\ pending' \in [Slots -> [Ranks -> SUBSET Deposits]]
    BY <1>1, <1>2, <2>5
  <2>10. QED
    BY <2>4, <2>5, <2>6, <2>7, <2>8, <2>9, MoveTyped
<1>9. CASE TransportRefuses(r)
  <2>1. pc[r] = "looking" /\ pending' = Emptied(r) /\ Stop(r, calls[r], "transport")
        /\ UNCHANGED <<ready, alive, call, calls, got>>
    BY <1>9 DEF TransportRefuses, Open
  <2>2. QED
    BY <1>1, <1>2, <1>3, <2>1, StopTyped
<1>10. CASE Sleep(r)
  <2>1. /\ pc[r] = "looking" /\ Go(r, "asleep")
        /\ UNCHANGED <<table, poison, alive, call, history>>
    BY <1>10 DEF Sleep, Open
  <2>2. /\ pc' \in [Ranks -> {"idle", "looking", "asleep", "awake", "expired"}]
        /\ pc'[r] = "asleep" /\ \A p \in Ranks : p # r => pc'[p] = pc[p]
    BY <2>1, GoMoves
  <2>3. pc'[0] # "looking" \/ pc'[1] # "looking"
    BY <2>2, RankFacts
  <2>4. \A p \in Ranks : pc'[p] # "idle" => pc[p] # "idle"
    BY <2>1, <2>2
  <2>5. QED
    BY <1>1, <2>1, <2>2, <2>3, <2>4, MoveTyped DEF table
<1>11. QED
  BY <1>4, <1>5, <1>6, <1>7, <1>8, <1>9, <1>10 DEF Look

\* The steps in which nobody looks: a rank wakes, its time is over, it leaves, or
\* the driver stops the pair.
LEMMA OtherTyped ==
  ASSUME TypeOK, Called
  PROVE  /\ \A r \in Ranks : Wake(r) \/ TimesOut(r) \/ Elsewhere(r) => TypeOK' /\ Called'
         /\ Shutdown => TypeOK' /\ Called'
<1>1. /\ pending \in [Slots -> [Ranks -> SUBSET Deposits]]
      /\ ready \in [Slots -> [Ranks -> SUBSET [Ranks -> Deposits]]]
      /\ alive \in [Ranks -> BOOLEAN]
  BY DEF TypeOK
<1>2. ASSUME NEW r \in Ranks, Wake(r) PROVE TypeOK' /\ Called'
  <2>1. /\ pc[r] = "awake" /\ Free /\ Go(r, "looking")
        /\ UNCHANGED <<table, poison, alive, call, history>>
    BY <1>2 DEF Wake
  <2>2. /\ pc' \in [Ranks -> {"idle", "looking", "asleep", "awake", "expired"}]
        /\ pc'[r] = "looking" /\ \A p \in Ranks : p # r => pc'[p] = pc[p]
    BY <2>1, GoMoves
  <2>3. pc'[0] # "looking" \/ pc'[1] # "looking"
    BY <2>1, <2>2, RankFacts DEF Free
  <2>4. \A p \in Ranks : pc'[p] # "idle" => pc[p] # "idle"
    BY <2>1, <2>2
  <2>5. QED
    BY <1>1, <2>1, <2>2, <2>3, <2>4, MoveTyped DEF table
<1>3. ASSUME NEW r \in Ranks, TimesOut(r) PROVE TypeOK' /\ Called'
  <2>1. /\ pc[r] = "expired" /\ Stop(r, calls[r], "timeout")
        /\ UNCHANGED <<table, alive, call, calls, got>>
    BY <1>3 DEF TimesOut
  <2>2. "timeout" \in Reasons \ {"none"}
    BY DEF Reasons
  <2>3. QED
    BY <1>1, <2>1, <2>2, StopTyped DEF table
<1>4. ASSUME NEW r \in Ranks, Expire(r) PROVE TypeOK' /\ Called'
  <2>1. /\ pc[r] = "asleep" /\ Go(r, "expired")
        /\ UNCHANGED <<table, poison, alive, call, history>>
    BY <1>4 DEF Expire
  <2>2. /\ pc' \in [Ranks -> {"idle", "looking", "asleep", "awake", "expired"}]
        /\ pc'[r] = "expired" /\ \A p \in Ranks : p # r => pc'[p] = pc[p]
    BY <2>1, GoMoves
  <2>3. pc'[0] # "looking" \/ pc'[1] # "looking"
    BY <2>2, RankFacts
  <2>4. \A p \in Ranks : pc'[p] # "idle" => pc[p] # "idle"
    BY <2>1, <2>2
  <2>5. QED
    BY <1>1, <2>1, <2>2, <2>3, <2>4, MoveTyped DEF table
<1>5. ASSUME NEW r \in Ranks, Leave(r) PROVE TypeOK' /\ Called'
  <2>1. /\ pc[r] = "idle" /\ Free /\ Notify(r, "idle")
        /\ alive' = [alive EXCEPT ![r] = FALSE]
        /\ UNCHANGED <<table, poison, call, history>>
    BY <1>5 DEF Leave
  <2>2. /\ pc' \in [Ranks -> {"idle", "looking", "asleep", "awake", "expired"}]
        /\ pc'[r] = "idle"
        /\ \A p \in Ranks : p # r =>
             pc'[p] = (IF pc[p] = "asleep" THEN "awake" ELSE pc[p])
    BY <2>1, NotifyMoves
  <2>3. pc'[0] # "looking" \/ pc'[1] # "looking"
    BY <2>2, RankFacts
  <2>4. \A p \in Ranks : pc'[p] # "idle" => pc[p] # "idle"
    BY <2>1, <2>2
  <2>5. alive' \in [Ranks -> BOOLEAN]
    BY <1>1, <2>1
  <2>6. QED
    BY <1>1, <2>1, <2>2, <2>3, <2>4, <2>5, MoveTyped DEF table
<1>6. ASSUME Shutdown PROVE TypeOK' /\ Called'
  <2>1. /\ Free /\ poison' = "shutdown"
        /\ pc' = [p \in Ranks |-> IF pc[p] = "asleep" THEN "awake" ELSE pc[p]]
        /\ UNCHANGED <<table, alive, call, history>>
    BY <1>6 DEF Shutdown
  <2>2. poison' \in Reasons /\ poison' # "none"
    BY <2>1 DEF Reasons
  <2>3. QED
    BY <2>1, <2>2, RankFacts DEF TypeOK, Called, Free, table, history
<1>7. QED
  BY <1>2, <1>3, <1>4, <1>5, <1>6 DEF Elsewhere

LEMMA TypeStep == TypeOK /\ Called /\ [Next]_vars => TypeOK' /\ Called'
<1> SUFFICES ASSUME TypeOK, Called, [Next]_vars PROVE TypeOK' /\ Called'
  OBVIOUS
<1>1. CASE Next
  <2>1. \A r \in Ranks, slot \in Slots, shape \in Shapes :
          Call(r, slot, shape) => TypeOK' /\ Called'
    BY CallTyped
  <2>2. \A r \in Ranks : Look(r) => TypeOK' /\ Called'
    BY LookTyped
  <2>3. QED
    BY <1>1, <2>1, <2>2, OtherTyped, Zenon DEF Next, Thread
<1>2. CASE UNCHANGED vars
  BY <1>2 DEF vars, table, history, TypeOK, Called
<1>3. QED
  BY <1>1, <1>2

\* Every variable keeps its shape, one rank at most has the mutex, and a failed call
\* has stopped the pair.
THEOREM TypeCorrect == Spec => []TypeOK
<1>1. Spec => [](TypeOK /\ Called)
  BY TypeInit, TypeStep, PTL DEF Spec
<1>2. QED
  BY <1>1, PTL

----------------------------------------------------------------------------
(* The gradients that are combined belong together, and both ranks stop.    *)

\* What a step leaves a rank that does not take it: at most its deposit is gone.
Kept(p) ==
  /\ \A s \in Slots : pending'[s][p] \subseteq pending[s][p] /\ ready'[s][p] = ready[s][p]
  /\ call'[p] = call[p] /\ calls'[p] = calls[p]
  /\ got'[p] = got[p] /\ failedAt'[p] = failedAt[p]
  /\ pc'[p] = "idle" <=> pc[p] = "idle"

LEMMA KeptSame ==
  ASSUME TypeOK, NEW p \in Ranks, Kept(p), RankInvariant(p)
  PROVE  RankInvariant(p)' /\ Settled(p)' = Settled(p) /\ Fresh(p)' = Fresh(p)
<1>1. Slot(p)' = Slot(p) /\ Slot(p) \in Slots
  BY DEF Kept, Slot, TypeOK, Calls
<1>2. Result(p)' = Result(p) /\ Mine(p)' \subseteq Mine(p)
  BY <1>1 DEF Kept, Result, Mine
<1>3. Fresh(p)' = Fresh(p)
  BY DEF Kept, Fresh
<1>4. Settled(p)' = Settled(p)
  BY <1>2 DEF Kept, Settled
<1>5. PairedFor(p)'
  BY <1>3 DEF RankInvariant, PairedFor, Kept
<1>6. IdleClean(p)'
  BY <1>3 DEF RankInvariant, IdleClean, Kept
<1>7. BusyOwn(p)'
  BY <1>1, <1>2, <1>3 DEF RankInvariant, BusyOwn, Kept
<1>8. QED
  BY <1>3, <1>4, <1>5, <1>6, <1>7 DEF RankInvariant

\* A step in which a call fails.
LEMMA FailKeeps ==
  ASSUME RendezvousInvariant, TypeOK', Called', NEW r \in Ranks, NEW n \in Nat,
         Kept(Peer(r)), n >= calls[r], failedAt'[r] # 0,
         failedAt'[r] = (IF failedAt[r] = 0 THEN n ELSE failedAt[r])
  PROVE  RendezvousInvariant'
<1>1. ~Fresh(r)' /\ RankInvariant(r)'
  BY DEF Fresh, RankInvariant, IdleClean, BusyOwn, PairedFor
<1>2. /\ RankInvariant(Peer(r))' /\ Settled(Peer(r))' = Settled(Peer(r))
      /\ Fresh(Peer(r))' = Fresh(Peer(r))
  BY KeptSame, RankFacts DEF RendezvousInvariant
<1>3. Level'
  BY <1>1, RankFacts DEF Level
<1>4. NotBeyond(Peer(r))'
  BY <1>1, RankFacts DEF NotBeyond
<1>5. NotBeyond(r)'
  <2> SUFFICES ASSUME Fresh(Peer(r)) PROVE Settled(Peer(r)) <= failedAt'[r]
    BY <1>2, RankFacts DEF NotBeyond, Peer
  <2>1. CASE failedAt[r] # 0
    BY <2>1 DEF RendezvousInvariant, NotBeyond, Fresh
  <2>2. CASE failedAt[r] = 0
    <3>1. Settled(Peer(r)) = Settled(r)
      BY <2>2, RankFacts DEF RendezvousInvariant, Level, Fresh, Peer, Ranks
    <3>2. Settled(r) <= calls[r] /\ Settled(r) \in Int /\ calls[r] \in Int
      BY DEF Settled, RendezvousInvariant, TypeOK
    <3>3. QED
      BY <2>2, <3>1, <3>2
  <2>3. QED
    BY <2>1, <2>2
<1>6. QED
  BY <1>1, <1>2, <1>3, <1>4, <1>5, RankFacts DEF RendezvousInvariant

\* A step that settles nothing.
LEMMA SteadyKeeps ==
  ASSUME RendezvousInvariant, TypeOK', Called', failedAt' = failedAt,
         \A p \in Ranks : RankInvariant(p)',
         \A p \in Ranks : Fresh(p) => Settled(p)' = Settled(p)
  PROVE  RendezvousInvariant'
<1>1. \A p \in Ranks : Fresh(p)' = Fresh(p)
  BY DEF Fresh
<1>2. Level'
  BY <1>1, RankFacts DEF Level, RendezvousInvariant, Ranks
<1>3. \A p \in Ranks : NotBeyond(p)'
  BY <1>1, RankFacts DEF NotBeyond, RendezvousInvariant, Peer
<1>4. QED
  BY <1>2, <1>3 DEF RendezvousInvariant

\* Stop and Fails, seen from the peer.
LEMMA PeerKept ==
  ASSUME TypeOK, NEW r \in Ranks,
         \A s \in Slots : pending'[s][Peer(r)] \subseteq pending[s][Peer(r)],
         \A s \in Slots : ready'[s][Peer(r)] = ready[s][Peer(r)],
         call'[Peer(r)] = call[Peer(r)], calls'[Peer(r)] = calls[Peer(r)],
         got'[Peer(r)] = got[Peer(r)], failedAt'[Peer(r)] = failedAt[Peer(r)],
         pc'[Peer(r)] \in {pc[Peer(r)],
                           IF pc[Peer(r)] = "asleep" THEN "awake" ELSE pc[Peer(r)]}
  PROVE  Kept(Peer(r))
BY DEF Kept

LEMMA StopKeeps ==
  ASSUME RendezvousInvariant, TypeOK', Called', NEW r \in Ranks, pc[r] # "idle",
         NEW reason \in Reasons \ {"none"}, Stop(r, calls[r], reason),
         UNCHANGED <<call, calls, got>>,
         \A s \in Slots : pending'[s][Peer(r)] \subseteq pending[s][Peer(r)],
         \A s \in Slots : ready'[s][Peer(r)] = ready[s][Peer(r)]
  PROVE  RendezvousInvariant'
<1>1. TypeOK /\ calls[r] \in 1..MaxCalls /\ calls[r] \in Nat /\ Peer(r) \in Ranks /\ Peer(r) # r
  BY RankFacts DEF RendezvousInvariant, Called
<1>2. /\ failedAt'[r] # 0
      /\ failedAt'[r] = (IF failedAt[r] = 0 THEN calls[r] ELSE failedAt[r])
      /\ failedAt'[Peer(r)] = failedAt[Peer(r)]
      /\ pc'[Peer(r)] = (IF pc[Peer(r)] = "asleep" THEN "awake" ELSE pc[Peer(r)])
  BY <1>1, StopMoves
<1>3. Kept(Peer(r))
  BY <1>1, <1>2, PeerKept
<1>4. QED
  BY <1>1, <1>2, <1>3, FailKeeps

LEMMA CallKeeps ==
  ASSUME RendezvousInvariant, TypeOK', Called', NEW r \in Ranks,
         NEW slot \in Slots, NEW shape \in Shapes, Call(r, slot, shape)
  PROVE  RendezvousInvariant'
<1>1. /\ TypeOK /\ RankInvariant(r) /\ Peer(r) \in Ranks /\ Peer(r) # r
      /\ \A p \in Ranks : p = r \/ p = Peer(r)
  BY RankFacts DEF RendezvousInvariant
<1>2. /\ pc[r] = "idle" /\ calls[r] \in Nat /\ calls[r] + 1 \in 1..MaxCalls
      /\ calls' = [calls EXCEPT ![r] = calls[r] + 1]
      /\ call' = [call EXCEPT ![r] =
                    [slot |-> slot, shape |-> shape, late |-> poison # "none"]]
      /\ UNCHANGED <<ready, alive, got>>
  BY <1>1, RendezvousAssumption DEF Call, TypeOK
<1>3. /\ calls'[r] = calls[r] + 1 /\ calls'[Peer(r)] = calls[Peer(r)]
      /\ call'[r].slot = slot /\ call'[r].shape = shape
      /\ call'[Peer(r)] = call[Peer(r)]
  BY <1>1, <1>2 DEF TypeOK
<1>4. CASE pending[slot][r] = {}
  <2> DEFINE d == [step |-> calls[r] + 1, shape |-> shape]
  <2>1. /\ pending' = [pending EXCEPT ![slot][r] = {d}]
        /\ Notify(r, "looking") /\ UNCHANGED <<poison, failedAt>>
    BY <1>4 DEF Call, Deposit
  <2>2. /\ pending'[slot][r] = {d}
        /\ \A s \in Slots : s # slot => pending'[s][r] = pending[s][r]
        /\ \A s \in Slots : pending'[s][Peer(r)] = pending[s][Peer(r)]
    BY <1>1, <2>1 DEF TypeOK
  <2>3. /\ pc'[r] = "looking"
        /\ pc'[Peer(r)] = (IF pc[Peer(r)] = "asleep" THEN "awake" ELSE pc[Peer(r)])
    BY <1>1, <2>1, NotifyMoves
  <2>4. Kept(Peer(r))
    BY <1>1, <1>2, <1>3, <2>1, <2>2, <2>3, PeerKept
  <2>5. RankInvariant(Peer(r))' /\ Settled(Peer(r))' = Settled(Peer(r))
    BY <1>1, <2>4, KeptSame DEF RendezvousInvariant
  <2>6. Slot(r)' = slot /\ Mine(r)' = {d} /\ Result(r)' = ready[slot][r]
    BY <1>2, <1>3, <2>2 DEF Slot, Mine, Result
  <2>7. ASSUME Fresh(r)
        PROVE  /\ Len(got[r]) = calls[r]
               /\ \A s \in Slots : pending[s][r] = {} /\ ready[s][r] = {}
    BY <1>1, <1>2, <2>7 DEF RankInvariant, IdleClean
  <2>8. Fresh(r)' = Fresh(r)
    BY <2>1 DEF Fresh
  <2>9. RankInvariant(r)'
    <3>1. IdleClean(r)'
      BY <2>3 DEF IdleClean
    <3>2. PairedFor(r)'
      BY <1>1, <1>2, <2>8 DEF RankInvariant, PairedFor
    <3>3. BusyOwn(r)'
      BY <1>2, <1>3, <2>2, <2>6, <2>7, <2>8 DEF BusyOwn
    <3>4. QED
      BY <3>1, <3>2, <3>3 DEF RankInvariant
  <2>10. Fresh(r) => Settled(r)' = Settled(r)
    BY <1>2, <1>3, <2>3, <2>6, <2>7 DEF Settled
  <2>11. QED
    BY <1>1, <2>1, <2>5, <2>9, <2>10, SteadyKeeps
<1>5. CASE pending[slot][r] # {}
  <2>1. Stop(r, calls[r] + 1, "twice") /\ UNCHANGED pending
    BY <1>5 DEF Call
  <2>2. "twice" \in Reasons \ {"none"}
    BY DEF Reasons
  <2>3. /\ failedAt'[r] # 0
        /\ failedAt'[r] = (IF failedAt[r] = 0 THEN calls[r] + 1 ELSE failedAt[r])
        /\ failedAt'[Peer(r)] = failedAt[Peer(r)]
        /\ pc'[Peer(r)] = (IF pc[Peer(r)] = "asleep" THEN "awake" ELSE pc[Peer(r)])
    BY <1>1, <1>2, <2>1, <2>2, StopMoves
  <2>4. Kept(Peer(r))
    BY <1>1, <1>2, <1>3, <2>1, <2>3, PeerKept
  <2>5. calls[r] + 1 \in Nat /\ calls[r] + 1 >= calls[r]
    BY <1>2
  <2>6. QED
    BY <2>3, <2>4, <2>5, FailKeeps
<1>6. QED
  BY <1>4, <1>5

LEMMA TakeKeeps ==
  ASSUME RendezvousInvariant, TypeOK', Called', NEW r \in Ranks, Take(r)
  PROVE  RendezvousInvariant'
<1>1. /\ TypeOK /\ RankInvariant(r) /\ Peer(r) \in Ranks /\ Peer(r) # r
      /\ \A p \in Ranks : p = r \/ p = Peer(r)
  BY RankFacts DEF RendezvousInvariant
<1>2. PICK pair \in Result(r) :
        /\ ready' = [ready EXCEPT ![Slot(r)][r] = {}]
        /\ IF Slot(r) = "batch" /\ pair[r].shape # call[r].shape
             THEN Stop(r, calls[r], "corrupt") /\ UNCHANGED got
             ELSE /\ got' = [got EXCEPT ![r] =
                               Append(@, [pair |-> pair, late |-> call[r].late])]
                  /\ Go(r, "idle")
                  /\ UNCHANGED <<poison, failedAt>>
  BY Zenon DEF Take
<1>3. pc[r] = "looking" /\ UNCHANGED <<pending, alive, call, calls>>
  BY DEF Take
<1>4. Slot(r) \in Slots
  BY <1>1 DEF TypeOK, Slot, Calls
<1>5. /\ ready'[Slot(r)][r] = {}
      /\ \A s \in Slots : s # Slot(r) => ready'[s][r] = ready[s][r]
      /\ \A s \in Slots : ready'[s][Peer(r)] = ready[s][Peer(r)]
  BY <1>1, <1>2, <1>4 DEF TypeOK
<1>6. CASE Slot(r) = "batch" /\ pair[r].shape # call[r].shape
  <2>1. Stop(r, calls[r], "corrupt") /\ UNCHANGED got
    BY <1>2, <1>6, Zenon
  <2>2. "corrupt" \in Reasons \ {"none"}
    BY DEF Reasons
  <2>3. QED
    BY <1>3, <1>5, <2>1, <2>2, StopKeeps
<1>7. CASE ~(Slot(r) = "batch" /\ pair[r].shape # call[r].shape)
  <2> DEFINE entry == [pair |-> pair, late |-> call[r].late]
  <2>1. got' = [got EXCEPT ![r] = Append(got[r], entry)] /\ Go(r, "idle")
        /\ UNCHANGED <<poison, failedAt>>
    BY <1>2, <1>7, Zenon
  <2>2. got'[r] = Append(got[r], entry) /\ got'[Peer(r)] = got[Peer(r)]
    BY <1>1, <2>1 DEF TypeOK
  <2>3. pc'[r] = "idle" /\ pc'[Peer(r)] = pc[Peer(r)]
    BY <1>1, <2>1, GoMoves
  <2>4. Kept(Peer(r))
    BY <1>1, <1>3, <1>5, <2>1, <2>2, <2>3, PeerKept
  <2>5. RankInvariant(Peer(r))' /\ Settled(Peer(r))' = Settled(Peer(r))
    BY <1>1, <2>4, KeptSame DEF RendezvousInvariant
  <2>6. Fresh(r)' = Fresh(r)
    BY <2>1 DEF Fresh
  <2>7. Settled(r)' = Settled(r)
    BY <1>2, <1>3, <2>3 DEF Settled
  <2>8. RankInvariant(r)'
    <3>1. CASE ~Fresh(r)
      BY <2>6, <3>1 DEF RankInvariant, IdleClean, BusyOwn, PairedFor
    <3>2. CASE Fresh(r)
      <4>1. /\ Len(got[r]) = calls[r] - 1 /\ calls[r] \in Nat /\ calls[r] >= 1
            /\ \A s \in Slots \ {Slot(r)} : pending[s][r] = {} /\ ready[s][r] = {}
            /\ Mine(r) = {}
            /\ pair[0] = pair[1] /\ pair[r].step = calls[r]
        BY <1>1, <1>2, <1>3, <3>2 DEF RankInvariant, BusyOwn, TypeOK
      <4>2. IdleClean(r)'
        <5>1. Len(got'[r]) = calls[r]
          <6>1. got[r] \in Seq([pair: [Ranks -> Deposits], late: BOOLEAN])
            BY <1>1 DEF TypeOK
          <6>2. Len(Append(got[r], entry)) = Len(got[r]) + 1
            BY <6>1
          <6>3. QED
            BY <2>2, <4>1, <6>2
        <5>2. \A s \in Slots : pending[s][r] = {} /\ ready'[s][r] = {}
          BY <1>5, <4>1 DEF Mine
        <5>3. QED
          BY <1>3, <5>1, <5>2 DEF IdleClean
      <4>3. BusyOwn(r)'
        BY <2>3 DEF BusyOwn
      <4>4. PairedFor(r)'
        <5> SUFFICES ASSUME NEW n \in 1..Len(got'[r])
                     PROVE  /\ got'[r][n].pair[0] = got'[r][n].pair[1]
                            /\ got'[r][n].pair[r].step = n
          BY DEF PairedFor
        <5>1. got[r] \in Seq([pair: [Ranks -> Deposits], late: BOOLEAN])
          BY <1>1 DEF TypeOK
        <5>2. /\ Len(got'[r]) = Len(got[r]) + 1 /\ Len(got[r]) \in Nat
              /\ \A k \in 1..Len(got[r]) : got'[r][k] = got[r][k]
              /\ got'[r][Len(got[r]) + 1] = entry
          BY <2>2, <5>1
        <5>3. CASE n \in 1..Len(got[r])
          BY <1>1, <3>2, <5>2, <5>3 DEF RankInvariant, PairedFor
        <5>4. CASE n = Len(got[r]) + 1
          <6>1. entry.pair = pair
            OBVIOUS
          <6>2. n = calls[r]
            BY <4>1, <5>4
          <6>3. QED
            BY <4>1, <5>2, <5>4, <6>1, <6>2
        <5>5. QED
          BY <5>2, <5>3, <5>4
      <4>5. QED
        BY <4>2, <4>3, <4>4 DEF RankInvariant
    <3>3. QED
      BY <3>1, <3>2
  <2>9. QED
    BY <1>1, <2>1, <2>5, <2>7, <2>8, SteadyKeeps
<1>8. QED
  BY <1>6, <1>7

\* The leader finds both deposits: neither rank has failed, both are in a call on this
\* slot, and as many collectives are settled for one as for the other.
LEMMA Meeting ==
  ASSUME RendezvousInvariant, NEW r \in Ranks, Open(r), Theirs(r) # {}, Agree(r),
         NEW m \in Mine(r), NEW t \in Theirs(r)
  PROVE  /\ m = t /\ m.step = calls[r] /\ m.shape = call[r].shape
         /\ calls[Peer(r)] = calls[r] /\ call[Peer(r)].shape = call[r].shape
         /\ Slot(Peer(r)) = Slot(r) /\ pc[Peer(r)] # "idle"
         /\ Fresh(r) /\ Fresh(Peer(r)) /\ Result(Peer(r)) = {}
<1>1. /\ TypeOK /\ RankInvariant(r) /\ RankInvariant(Peer(r))
      /\ Peer(r) \in Ranks /\ Peer(r) # r
  BY RankFacts DEF RendezvousInvariant
<1>2. Fresh(r) /\ Fresh(Peer(r))
  BY <1>1 DEF Open, Poisoned, Fresh, TypeOK
<1>3. Slot(r) \in Slots /\ Slot(Peer(r)) \in Slots
  BY <1>1 DEF TypeOK, Slot, Calls
<1>4. pc[r] # "idle" /\ Result(r) = {} /\ pending[Slot(r)][Peer(r)] # {}
  BY DEF Open, Theirs
<1>5. pc[Peer(r)] # "idle"
  BY <1>1, <1>2, <1>3, <1>4 DEF RankInvariant, IdleClean
<1>6. Slot(Peer(r)) = Slot(r)
  BY <1>1, <1>2, <1>3, <1>4, <1>5 DEF RankInvariant, BusyOwn
<1>7. Theirs(r) = Mine(Peer(r)) /\ Result(Peer(r)) = {}
  <2>1. Theirs(r) = Mine(Peer(r))
    BY <1>6 DEF Theirs, Mine
  <2>2. QED
    BY <1>1, <1>2, <1>5, <2>1 DEF RankInvariant, BusyOwn
<1>8. calls[Peer(r)] = calls[r]
  <2>1. Settled(r) = calls[r] - 1 /\ Settled(Peer(r)) = calls[Peer(r)] - 1
    BY <1>4, <1>5, <1>7 DEF Settled
  <2>2. Settled(r) = Settled(Peer(r))
    BY <1>2, RankFacts DEF RendezvousInvariant, Level, Ranks, Peer
  <2>3. calls[r] \in Int /\ calls[Peer(r)] \in Int
    BY <1>1 DEF TypeOK
  <2>4. QED
    BY <2>1, <2>2, <2>3
<1>9. /\ \A d \in Mine(r) : d.step = calls[r] /\ d.shape = call[r].shape
      /\ \A d \in Theirs(r) : d.step = calls[r] /\ d.shape = call[Peer(r)].shape
  BY <1>1, <1>2, <1>4, <1>5, <1>7, <1>8 DEF RankInvariant, BusyOwn
<1>10. call[Peer(r)].shape = call[r].shape
  BY <1>9 DEF Agree
<1>11. m = t
  <2>1. m \in Deposits /\ t \in Deposits
    BY <1>1, <1>3 DEF TypeOK, Mine, Theirs
  <2>2. m.step = t.step /\ m.shape = t.shape
    BY <1>9, <1>10
  <2>3. QED
    BY <2>1, <2>2 DEF Deposits
<1>12. QED
  BY <1>2, <1>5, <1>6, <1>7, <1>8, <1>9, <1>10, <1>11

LEMMA PublishKeeps ==
  ASSUME RendezvousInvariant, TypeOK', Called', NEW r \in Ranks, Publish(r)
  PROVE  RendezvousInvariant'
<1>1. /\ TypeOK /\ RankInvariant(r) /\ RankInvariant(Peer(r))
      /\ Peer(r) \in Ranks /\ Peer(r) # r
      /\ \A p \in Ranks : p = r \/ p = Peer(r)
  BY RankFacts DEF RendezvousInvariant
<1>2. Open(r) /\ Theirs(r) # {} /\ Agree(r) /\ pc[r] = "looking"
  BY DEF Publish, Open
<1>3. PICK m \in Mine(r), t \in Theirs(r) :
        ready' = [ready EXCEPT ![Slot(r)] =
                    [p \in Ranks |-> {[q \in Ranks |-> IF q = r THEN m ELSE t]}]]
  BY Zenon DEF Publish
<1> DEFINE pair == [q \in Ranks |-> IF q = r THEN m ELSE t]
<1>4. /\ m = t /\ m.step = calls[r] /\ m.shape = call[r].shape
      /\ calls[Peer(r)] = calls[r] /\ call[Peer(r)].shape = call[r].shape
      /\ Slot(Peer(r)) = Slot(r) /\ pc[Peer(r)] # "idle"
      /\ Fresh(r) /\ Fresh(Peer(r)) /\ Result(Peer(r)) = {}
  BY <1>2, Meeting
<1>5. /\ pending' = Emptied(r) /\ Notify(r, "looking")
      /\ UNCHANGED <<poison, alive, call, calls, got, failedAt>>
  BY DEF Publish, history
<1>6. \A p \in Ranks : pc'[p] # "idle"
  <2>1. /\ pc'[r] = "looking"
        /\ pc'[Peer(r)] = (IF pc[Peer(r)] = "asleep" THEN "awake" ELSE pc[Peer(r)])
    BY <1>1, <1>5, NotifyMoves
  <2>2. QED
    BY <1>1, <1>4, <2>1
<1>7. \A p \in Ranks : pc[p] # "idle" /\ Slot(p) = Slot(r) /\ Slot(p)' = Slot(r)
                       /\ calls[p] = calls[r] /\ call[p].shape = call[r].shape
                       /\ Fresh(p) /\ Fresh(p)' /\ Result(p) = {}
  <2>1. Result(r) = {}
    BY <1>2 DEF Open
  <2>2. \A p \in Ranks : Slot(p)' = Slot(p) /\ Fresh(p)' = Fresh(p)
    BY <1>5 DEF Slot, Fresh
  <2>3. QED
    BY <1>1, <1>2, <1>4, <2>1, <2>2
<1>8. Slot(r) \in Slots
  BY <1>1 DEF TypeOK, Slot, Calls
<1>9. \A p \in Ranks :
        /\ pending'[Slot(r)][p] = {} /\ ready'[Slot(r)][p] = {pair}
        /\ \A s \in Slots \ {Slot(r)} :
             pending'[s][p] = pending[s][p] /\ ready'[s][p] = ready[s][p]
  <2>1. pending' = [pending EXCEPT ![Slot(r)] = [p \in Ranks |-> {}]]
    BY <1>5 DEF Emptied
  <2>2. ready' = [ready EXCEPT ![Slot(r)] = [p \in Ranks |-> {pair}]]
    BY <1>3
  <2> HIDE DEF pair
  <2>3. QED
    BY <1>1, <1>8, <2>1, <2>2 DEF TypeOK
<1>10. /\ pair[0] = pair[1]
       /\ \A p \in Ranks : pair[p].step = calls[r] /\ pair[p].shape = call[r].shape
  BY <1>1, <1>4 DEF Ranks
<1> HIDE DEF pair
<1>11. \A p \in Ranks : Mine(p)' = {} /\ Result(p)' = {pair}
  BY <1>7, <1>9 DEF Mine, Result
<1>12. ASSUME NEW p \in Ranks PROVE RankInvariant(p)' /\ Settled(p)' = calls[r]
  <2>1. RankInvariant(p)
    BY DEF RendezvousInvariant
  <2>2. IdleClean(p)'
    BY <1>6 DEF IdleClean
  <2>3. PairedFor(p)'
    BY <1>5, <1>7, <2>1 DEF RankInvariant, PairedFor
  <2>4. /\ Len(got[p]) = calls[p] - 1 /\ calls[p] >= 1
        /\ \A s \in Slots \ {Slot(r)} : pending[s][p] = {} /\ ready[s][p] = {}
    BY <1>7, <2>1 DEF RankInvariant, BusyOwn
  <2>5. BusyOwn(p)'
    BY <1>5, <1>7, <1>9, <1>10, <1>11, <2>4 DEF BusyOwn
  <2>6. Settled(p)' = calls[r]
    BY <1>5, <1>7, <1>11 DEF Settled
  <2>7. QED
    BY <2>2, <2>3, <2>5, <2>6 DEF RankInvariant
<1>13. Level'
  BY <1>12 DEF Level, Ranks
<1>14. \A p \in Ranks : NotBeyond(p)'
  BY <1>7 DEF NotBeyond
<1>15. QED
  BY <1>12, <1>13, <1>14 DEF RendezvousInvariant

\* A step that moves program counters within a call, and nothing else of a rank.
LEMMA MoveKeeps ==
  ASSUME RendezvousInvariant, TypeOK', Called', UNCHANGED <<table, call, history>>,
         \A p \in Ranks : pc'[p] = "idle" <=> pc[p] = "idle"
  PROVE  RendezvousInvariant'
<1>1. TypeOK /\ \A p \in Ranks : Kept(p)
  BY DEF RendezvousInvariant, Kept, table, history
<1>2. \A p \in Ranks : RankInvariant(p)' /\ Settled(p)' = Settled(p)
  BY <1>1, KeptSame DEF RendezvousInvariant
<1>3. failedAt' = failedAt
  BY DEF history
<1>4. QED
  BY <1>2, <1>3, SteadyKeeps

LEMMA LookKeeps ==
  ASSUME RendezvousInvariant, TypeOK', Called', NEW r \in Ranks, Look(r)
  PROVE  RendezvousInvariant'
<1>1. /\ TypeOK /\ Called /\ Peer(r) \in Ranks /\ Peer(r) # r
      /\ \A p \in Ranks : p = r \/ p = Peer(r)
  BY RankFacts DEF RendezvousInvariant
<1>2. {"gone", "diverged", "transport"} \subseteq Reasons \ {"none"}
  BY DEF Reasons
<1>3. CASE Take(r)
  BY <1>3, TakeKeeps
<1>4. CASE Refuse(r)
  <2>1. /\ pc[r] = "looking" /\ Fails(r, calls[r]) /\ Go(r, "idle")
        /\ UNCHANGED <<table, poison, alive, call, calls, got>>
    BY <1>4 DEF Refuse
  <2>2. calls[r] \in 1..MaxCalls /\ calls[r] \in Nat /\ calls[r] >= calls[r]
    BY <1>1, <2>1, RendezvousAssumption DEF Called
  <2>3. /\ failedAt'[r] # 0
        /\ failedAt'[r] = (IF failedAt[r] = 0 THEN calls[r] ELSE failedAt[r])
        /\ failedAt'[Peer(r)] = failedAt[Peer(r)]
    BY <1>1, <2>1, <2>2, FailsMoves
  <2>4. pc'[Peer(r)] = pc[Peer(r)]
    BY <1>1, <2>1, GoMoves
  <2>5. Kept(Peer(r))
    BY <1>1, <2>1, <2>3, <2>4, PeerKept DEF table
  <2>6. QED
    BY <2>2, <2>3, <2>5, FailKeeps
<1>5. CASE PeerGone(r)
  <2>1. pc[r] = "looking" /\ Stop(r, calls[r], "gone")
        /\ UNCHANGED <<pending, ready, alive, call, calls, got>>
    BY <1>5 DEF PeerGone, table
  <2>2. QED
    BY <1>2, <2>1, StopKeeps
<1>6. CASE Diverge(r)
  <2>1. pc[r] = "looking" /\ Stop(r, calls[r], "diverged")
        /\ UNCHANGED <<pending, ready, alive, call, calls, got>>
    BY <1>6 DEF Diverge, Open, table
  <2>2. QED
    BY <1>2, <2>1, StopKeeps
<1>7. CASE Publish(r)
  BY <1>7, PublishKeeps
<1>8. CASE TransportRefuses(r)
  <2>1. pc[r] = "looking" /\ pending' = Emptied(r) /\ Stop(r, calls[r], "transport")
        /\ UNCHANGED <<ready, alive, call, calls, got>>
    BY <1>8 DEF TransportRefuses, Open
  <2>2. \A s \in Slots : pending'[s][Peer(r)] \subseteq pending[s][Peer(r)]
    BY <1>1, <2>1 DEF Emptied, TypeOK
  <2>3. QED
    BY <1>2, <2>1, <2>2, StopKeeps
<1>9. CASE Sleep(r)
  <2>1. /\ pc[r] = "looking" /\ Go(r, "asleep")
        /\ UNCHANGED <<table, poison, alive, call, history>>
    BY <1>9 DEF Sleep, Open
  <2>2. \A p \in Ranks : pc'[p] = "idle" <=> pc[p] = "idle"
    BY <1>1, <2>1, GoMoves
  <2>3. QED
    BY <2>1, <2>2, MoveKeeps
<1>10. QED
  BY <1>3, <1>4, <1>5, <1>6, <1>7, <1>8, <1>9 DEF Look

LEMMA OtherKeeps ==
  ASSUME RendezvousInvariant, TypeOK', Called'
  PROVE  /\ \A r \in Ranks : Wake(r) \/ TimesOut(r) \/ Elsewhere(r) => RendezvousInvariant'
         /\ Shutdown => RendezvousInvariant'
<1>1. TypeOK /\ \A r \in Ranks : \A p \in Ranks : p = r \/ p = Peer(r)
  BY RankFacts DEF RendezvousInvariant
<1>2. ASSUME NEW r \in Ranks, Wake(r) PROVE RendezvousInvariant'
  <2>1. pc[r] = "awake" /\ Go(r, "looking") /\ UNCHANGED <<table, call, history>>
    BY <1>2 DEF Wake
  <2>2. \A p \in Ranks : pc'[p] = "idle" <=> pc[p] = "idle"
    BY <1>1, <2>1, GoMoves
  <2>3. QED
    BY <2>1, <2>2, MoveKeeps
<1>3. ASSUME NEW r \in Ranks, TimesOut(r) PROVE RendezvousInvariant'
  <2>1. pc[r] = "expired" /\ Stop(r, calls[r], "timeout")
        /\ UNCHANGED <<pending, ready, alive, call, calls, got>>
    BY <1>3 DEF TimesOut, table
  <2>2. "timeout" \in Reasons \ {"none"}
    BY DEF Reasons
  <2>3. QED
    BY <2>1, <2>2, StopKeeps
<1>4. ASSUME NEW r \in Ranks, Expire(r) PROVE RendezvousInvariant'
  <2>1. pc[r] = "asleep" /\ Go(r, "expired") /\ UNCHANGED <<table, call, history>>
    BY <1>4 DEF Expire
  <2>2. \A p \in Ranks : pc'[p] = "idle" <=> pc[p] = "idle"
    BY <1>1, <2>1, GoMoves
  <2>3. QED
    BY <2>1, <2>2, MoveKeeps
<1>5. ASSUME NEW r \in Ranks, Leave(r) PROVE RendezvousInvariant'
  <2>1. pc[r] = "idle" /\ Notify(r, "idle") /\ UNCHANGED <<table, call, history>>
    BY <1>5 DEF Leave
  <2>2. \A p \in Ranks : pc'[p] = "idle" <=> pc[p] = "idle"
    BY <1>1, <2>1, NotifyMoves
  <2>3. QED
    BY <2>1, <2>2, MoveKeeps
<1>6. ASSUME Shutdown PROVE RendezvousInvariant'
  <2>1. /\ pc' = [p \in Ranks |-> IF pc[p] = "asleep" THEN "awake" ELSE pc[p]]
        /\ UNCHANGED <<table, call, history>>
    BY <1>6 DEF Shutdown
  <2>2. QED
    BY <2>1, MoveKeeps
<1>7. QED
  BY <1>2, <1>3, <1>4, <1>5, <1>6 DEF Elsewhere

LEMMA InvariantInit == Init => RendezvousInvariant
<1> SUFFICES ASSUME Init PROVE RendezvousInvariant
  OBVIOUS
<1>1. TypeOK /\ Called
  BY TypeInit
<1>2. \A r \in Ranks :
        /\ failedAt[r] = 0 /\ pc[r] = "idle" /\ calls[r] = 0 /\ got[r] = <<>>
        /\ \A s \in Slots : pending[s][r] = {} /\ ready[s][r] = {}
  BY DEF Init
<1>3. \A r \in Ranks : RankInvariant(r) /\ NotBeyond(r)
  BY <1>2, RankFacts
  DEF RankInvariant, IdleClean, BusyOwn, PairedFor, NotBeyond, Fresh
<1>4. Level
  BY <1>2 DEF Level, Settled, Ranks
<1>5. QED
  BY <1>1, <1>3, <1>4 DEF RendezvousInvariant

LEMMA InvariantStep == RendezvousInvariant /\ [Next]_vars => RendezvousInvariant'
<1> SUFFICES ASSUME RendezvousInvariant, [Next]_vars PROVE RendezvousInvariant'
  OBVIOUS
<1>1. TypeOK' /\ Called'
  BY TypeStep DEF RendezvousInvariant
<1>2. CASE Next
  <2>1. \A r \in Ranks, slot \in Slots, shape \in Shapes :
          Call(r, slot, shape) => RendezvousInvariant'
    BY <1>1, CallKeeps
  <2>2. \A r \in Ranks : Look(r) => RendezvousInvariant'
    BY <1>1, LookKeeps
  <2>3. QED
    BY <1>1, <1>2, <2>1, <2>2, OtherKeeps, Zenon DEF Next, Thread
<1>3. CASE UNCHANGED vars
  BY <1>1, <1>3, MoveKeeps DEF vars
<1>4. QED
  BY <1>2, <1>3

\* What a rank has in the table, and how far the ranks are from each other, as long as
\* nobody has failed (Call, Publish, Take), and what a failure leaves (Stop).
THEOREM Rendezvous == Spec => []RendezvousInvariant
BY InvariantInit, InvariantStep, PTL DEF Spec

\* The n-th result of a rank that has not failed combines the n-th deposits of both,
\* and they agree (Publish).
THEOREM PairsBelongTogether == Spec => []Paired
<1>1. RendezvousInvariant => Paired
  BY DEF RendezvousInvariant, RankInvariant, PairedFor, Fresh, Paired
<1>2. QED
  BY <1>1, Rendezvous, PTL

\* The peer of a rank that failed gets at most the result of that call (Stop).
THEOREM FailureStopsBoth == Spec => []BothStop
<1>1. RendezvousInvariant => BothStop
  <2> SUFFICES ASSUME RendezvousInvariant, NEW r \in Ranks,
                      failedAt[r] # 0, failedAt[Peer(r)] = 0
               PROVE  Len(got[Peer(r)]) <= failedAt[r]
    BY DEF BothStop
  <2>1. Peer(r) \in Ranks /\ TypeOK /\ RankInvariant(Peer(r)) /\ NotBeyond(r)
    BY RankFacts DEF RendezvousInvariant
  <2>2. Settled(Peer(r)) <= failedAt[r]
    BY <2>1 DEF NotBeyond, Fresh
  <2>3. /\ failedAt[r] \in Int /\ calls[Peer(r)] \in Int
        /\ Len(got[Peer(r)]) \in Int
    BY <2>1 DEF TypeOK
  <2>4. Len(got[Peer(r)]) <= Settled(Peer(r))
    BY <2>1, <2>3 DEF RankInvariant, IdleClean, BusyOwn, Settled, Fresh
  <2>5. QED
    BY <2>2, <2>3, <2>4 DEF Settled
<1>2. QED
  BY <1>1, Rendezvous, PTL
----------------------------------------------------------------------------
(* Nobody sleeps over what he has to know: the safety core of Informed.    *)

\* Until the pair stops, a rank in a call has its deposit or its result there.
Provided ==
  poison = "none" => \A r \in Ranks : pc[r] # "idle" => Mine(r) # {} \/ Result(r) # {}

\* What a rank knew when it went to sleep is still so: what changes it wakes it.
Unaware ==
  \A r \in Ranks : pc[r] = "asleep" =>
    /\ poison = "none" /\ alive[Peer(r)]
    /\ Mine(r) # {} /\ Result(r) = {}
    /\ r = Leader => Theirs(r) = {}

\* A rank sleeps only while the pair goes on, its peer is there and it has no
\* result.  If its peer's deposit for the same collective is there too, the peer is
\* the leader and is up to look at both: the two never sleep on a full table.
NothingUnseen ==
  \A r \in Ranks : pc[r] = "asleep" =>
    /\ poison = "none" /\ alive[Peer(r)] /\ Result(r) = {}
    /\ Theirs(r) # {} =>
         /\ r # Leader /\ Slot(Leader) = Slot(r)
         /\ pc[Leader] \in {"looking", "awake", "expired"}

Seen == RendezvousInvariant /\ Provided /\ Unaware

\* Nobody sleeps after a notify_all.
LEMMA NobodySleeps ==
  ASSUME TypeOK, NEW r \in Ranks, NEW place \in {"idle", "looking"}, Notify(r, place)
  PROVE  /\ \A p \in Ranks : pc'[p] # "asleep"
         /\ \A p \in Ranks : p # r => (pc'[p] = "idle" <=> pc[p] = "idle")
BY NotifyMoves

\* A step that stops the pair, or one that leaves it stopped.
LEMMA StopSeen ==
  ASSUME TypeOK, NEW r \in Ranks, NEW n, NEW reason \in Reasons \ {"none"}, Stop(r, n, reason)
  PROVE  Provided' /\ Unaware'
<1>1. poison' # "none" /\ Notify(r, "idle")
  BY DEF Stop
<1>2. \A p \in Ranks : pc'[p] # "asleep"
  BY <1>1, NobodySleeps
<1>. QED  BY <1>1, <1>2 DEF Provided, Unaware

\* A step in which a rank goes on where it is and nothing else changes.
LEMMA MoveSeen ==
  ASSUME Seen, NEW r \in Ranks, pc[r] # "idle",
         NEW place \in {"idle", "looking", "awake", "expired"}, Go(r, place),
         UNCHANGED <<table, poison, alive, call>>
  PROVE  Provided' /\ Unaware'
<1>1. pc'[r] = place /\ \A p \in Ranks : p # r => pc'[p] = pc[p]
  BY GoMoves DEF Seen, RendezvousInvariant
<1>2. \A p \in Ranks : /\ Mine(p)' = Mine(p) /\ Theirs(p)' = Theirs(p)
                       /\ Result(p)' = Result(p) /\ alive' = alive
  BY DEF table, Mine, Theirs, Result, Slot
<1>3. Provided'
  BY <1>1, <1>2 DEF Seen, Provided
<1>4. Unaware'
  BY <1>1, <1>2 DEF Seen, Unaware
<1>. QED  BY <1>3, <1>4

LEMMA CallSeen ==
  ASSUME Seen, NEW r \in Ranks, NEW slot \in Slots, NEW shape \in Shapes, Call(r, slot, shape)
  PROVE  Provided' /\ Unaware'
<1>0. TypeOK
  BY DEF Seen, RendezvousInvariant
<1>1. CASE Deposit(r, slot, shape)
  <2>1. Notify(r, "looking") /\ poison' = poison
    BY <1>1 DEF Deposit
  <2>2. Unaware'
    BY <1>0, <2>1, NobodySleeps DEF Unaware
  <2>3. call'[r].slot = slot /\ pending'[slot][r] # {}
    BY <1>0, <1>1 DEF Call, Deposit, TypeOK
  <2>4. Mine(r)' # {}
    BY <2>3 DEF Mine, Slot
  <2>5. ASSUME NEW p \in Ranks, p # r PROVE Mine(p)' = Mine(p) /\ Result(p)' = Result(p)
    <3>1. call'[p] = call[p] /\ ready' = ready
      BY <1>0, <2>5 DEF Call, TypeOK
    <3>2. \A s \in Slots : pending'[s][p] = pending[s][p]
      BY <1>0, <1>1, <2>5 DEF Deposit, TypeOK
    <3>3. call[p].slot \in Slots
      BY <1>0 DEF TypeOK, Calls
    <3>. QED  BY <3>1, <3>2, <3>3 DEF Mine, Result, Slot
  <2>6. Provided'
    BY <1>0, <2>1, <2>4, <2>5, NobodySleeps DEF Seen, Provided
  <2>. QED  BY <2>2, <2>6
<1>2. CASE Stop(r, calls[r] + 1, "twice")
  BY <1>0, <1>2, StopSeen DEF Reasons
<1>. QED  BY <1>1, <1>2 DEF Call

LEMMA TakeSeen ==
  ASSUME Seen, NEW r \in Ranks, Take(r)
  PROVE  Provided' /\ Unaware'
<1>0. TypeOK
  BY DEF Seen, RendezvousInvariant
<1>1. CASE Stop(r, calls[r], "corrupt")
  BY <1>0, <1>1, StopSeen DEF Reasons
<1>2. CASE ~ Stop(r, calls[r], "corrupt")
  <2>1. /\ Go(r, "idle") /\ UNCHANGED <<pending, poison, alive, call>>
        /\ ready' = [ready EXCEPT ![Slot(r)][r] = {}]
    BY <1>2 DEF Take
  <2>2. pc'[r] = "idle" /\ \A p \in Ranks : p # r => pc'[p] = pc[p]
    BY <1>0, <2>1, GoMoves
  <2>3. ASSUME NEW p \in Ranks, p # r
        PROVE  Mine(p)' = Mine(p) /\ Theirs(p)' = Theirs(p) /\ Result(p)' = Result(p)
    <3>1. Slot(p) \in Slots /\ \A s \in Slots : ready'[s][p] = ready[s][p]
      BY <1>0, <2>1, <2>3 DEF TypeOK, Calls, Slot
    <3>. QED  BY <2>1, <3>1 DEF Mine, Theirs, Result, Slot
  <2>4. Provided'
    BY <2>1, <2>2, <2>3 DEF Seen, Provided
  <2>5. Unaware'
    BY <2>1, <2>2, <2>3 DEF Seen, Unaware
  <2>. QED  BY <2>4, <2>5
<1>. QED  BY <1>1, <1>2

LEMMA PublishSeen ==
  ASSUME Seen, NEW r \in Ranks, Publish(r)
  PROVE  Provided' /\ Unaware'
<1>0. TypeOK /\ Slot(r) \in Slots
  BY DEF Seen, RendezvousInvariant, TypeOK, Calls, Slot
<1>1. /\ pc[r] = "looking" /\ Notify(r, "looking") /\ UNCHANGED <<poison, alive, call>>
      /\ pending' = Emptied(r)
  BY DEF Publish, Open
<1>2. \A p \in Ranks : pc'[p] # "asleep"
  BY <1>0, <1>1, NobodySleeps
<1>3. \A p \in Ranks : pc'[p] # "idle" => pc[p] # "idle"
  BY <1>0, <1>1, NobodySleeps
<1>4. /\ \A p \in Ranks : ready'[Slot(r)][p] # {}
      /\ \A s \in Slots \ {Slot(r)} : \A p \in Ranks :
           ready'[s][p] = ready[s][p] /\ pending'[s][p] = pending[s][p]
  <2>1. PICK m \in Mine(r), t \in Theirs(r) :
          ready' = [ready EXCEPT ![Slot(r)] =
                      [p \in Ranks |-> {[q \in Ranks |-> IF q = r THEN m ELSE t]}]]
    BY DEF Publish
  <2>2. \A p \in Ranks : ready'[Slot(r)][p] = {[q \in Ranks |-> IF q = r THEN m ELSE t]}
    BY <1>0, <2>1 DEF TypeOK
  <2>3. \A s \in Slots \ {Slot(r)} : ready'[s] = ready[s] /\ pending'[s] = pending[s]
    BY <1>0, <1>1, <2>1 DEF Emptied, TypeOK
  <2>. QED  BY <2>2, <2>3
<1>5. ASSUME NEW p \in Ranks, Mine(p) # {} \/ Result(p) # {}
      PROVE  Mine(p)' # {} \/ Result(p)' # {}
  <2>1. Slot(p)' = Slot(p) /\ Slot(p) \in Slots
    BY <1>0, <1>1 DEF TypeOK, Calls, Slot
  <2>2. CASE Slot(p) = Slot(r)
    BY <1>4, <2>1, <2>2 DEF Result
  <2>3. CASE Slot(p) # Slot(r)
    BY <1>4, <1>5, <2>1, <2>3 DEF Result, Mine
  <2>. QED  BY <2>2, <2>3
<1>6. Provided'
  BY <1>1, <1>3, <1>5 DEF Seen, Provided
<1>. QED  BY <1>2, <1>6 DEF Unaware

LEMMA SleepSeen ==
  ASSUME Seen, NEW r \in Ranks, Sleep(r)
  PROVE  Provided' /\ Unaware'
<1>0. TypeOK
  BY DEF Seen, RendezvousInvariant
<1>1. /\ pc[r] = "looking" /\ Result(r) = {} /\ poison = "none" /\ alive[Peer(r)]
      /\ Go(r, "asleep") /\ UNCHANGED <<table, poison, alive, call>>
      /\ r = Leader => Theirs(r) = {}
  BY DEF Sleep, Open, Poisoned
<1>2. pc'[r] = "asleep" /\ \A p \in Ranks : p # r => pc'[p] = pc[p]
  BY <1>0, <1>1, GoMoves
<1>3. \A p \in Ranks : Mine(p)' = Mine(p) /\ Theirs(p)' = Theirs(p) /\ Result(p)' = Result(p)
  BY <1>1 DEF table, Mine, Theirs, Result, Slot
<1>4. Mine(r) # {}
  BY <1>1 DEF Seen, Provided
<1>5. Provided'
  BY <1>1, <1>2, <1>3 DEF Seen, Provided
<1>6. Unaware'
  BY <1>1, <1>2, <1>3, <1>4 DEF Seen, Unaware
<1>. QED  BY <1>5, <1>6

LEMMA LookSeen ==
  ASSUME Seen, NEW r \in Ranks, Look(r)
  PROVE  Provided' /\ Unaware'
<1>0. TypeOK /\ {"gone", "diverged", "transport"} \subseteq Reasons \ {"none"}
  BY DEF Seen, RendezvousInvariant, Reasons
<1>1. CASE Refuse(r)
  BY <1>1, MoveSeen DEF Refuse
<1>2. CASE PeerGone(r)
  BY <1>0, <1>2, StopSeen DEF PeerGone
<1>3. CASE Diverge(r)
  BY <1>0, <1>3, StopSeen DEF Diverge
<1>4. CASE TransportRefuses(r)
  BY <1>0, <1>4, StopSeen DEF TransportRefuses
<1>. QED  BY <1>1, <1>2, <1>3, <1>4, TakeSeen, PublishSeen, SleepSeen DEF Look

LEMMA OtherSeen ==
  ASSUME Seen
  PROVE  /\ \A r \in Ranks : Wake(r) \/ TimesOut(r) \/ Elsewhere(r) => Provided' /\ Unaware'
         /\ Shutdown => Provided' /\ Unaware'
<1>0. TypeOK /\ "timeout" \in Reasons \ {"none"}
  BY DEF Seen, RendezvousInvariant, Reasons
<1>1. ASSUME NEW r \in Ranks, Wake(r) PROVE Provided' /\ Unaware'
  BY <1>1, MoveSeen DEF Wake
<1>2. ASSUME NEW r \in Ranks, TimesOut(r) PROVE Provided' /\ Unaware'
  BY <1>0, <1>2, StopSeen DEF TimesOut
<1>3. ASSUME NEW r \in Ranks, Expire(r) PROVE Provided' /\ Unaware'
  BY <1>3, MoveSeen DEF Expire
<1>4. ASSUME NEW r \in Ranks, Leave(r) PROVE Provided' /\ Unaware'
  <2>1. pc[r] = "idle" /\ Notify(r, "idle") /\ UNCHANGED <<table, poison, call>>
    BY <1>4 DEF Leave
  <2>2. \A p \in Ranks : pc'[p] # "asleep" /\ (pc'[p] # "idle" => pc[p] # "idle")
    BY <1>0, <2>1, NobodySleeps, NotifyMoves
  <2>3. \A p \in Ranks : Mine(p)' = Mine(p) /\ Result(p)' = Result(p)
    BY <2>1 DEF table, Mine, Result, Slot
  <2>. QED  BY <2>1, <2>2, <2>3 DEF Seen, Provided, Unaware
<1>5. ASSUME Shutdown PROVE Provided' /\ Unaware'
  <2>1. poison' # "none" /\ \A p \in Ranks : pc'[p] # "asleep"
    BY <1>5 DEF Shutdown
  <2>. QED  BY <2>1 DEF Provided, Unaware
<1>. QED  BY <1>1, <1>2, <1>3, <1>4, <1>5 DEF Elsewhere

LEMMA SeenStep == Seen /\ [Next]_vars => Provided' /\ Unaware'
<1>. SUFFICES ASSUME Seen, [Next]_vars PROVE Provided' /\ Unaware'
  OBVIOUS
<1>1. CASE Next
  <2>1. \A r \in Ranks, slot \in Slots, shape \in Shapes :
          Call(r, slot, shape) => Provided' /\ Unaware'
    BY CallSeen
  <2>2. \A r \in Ranks : Look(r) => Provided' /\ Unaware'
    BY LookSeen
  <2>. QED  BY <1>1, <2>1, <2>2, OtherSeen, Zenon DEF Next, Thread
<1>2. CASE UNCHANGED vars
  <2>1. /\ UNCHANGED <<poison, alive, pc>>
        /\ \A p \in Ranks : Mine(p)' = Mine(p) /\ Theirs(p)' = Theirs(p) /\ Result(p)' = Result(p)
    BY <1>2 DEF vars, table, Mine, Theirs, Result, Slot
  <2>. QED  BY <2>1 DEF Seen, Provided, Unaware
<1>. QED  BY <1>1, <1>2

\* Whatever a waiting rank has to know of (the poison, the peer's departure, a
\* result, a deposit it has to answer) either is not so or has woken it
\* (NothingUnseen): what is left to Informed is that who is awake looks.
THEOREM NobodyOverlooked == Spec => []NothingUnseen
<1>1. Init => Provided /\ Unaware
  BY DEF Init, Provided, Unaware
<1>2. Spec => []Seen
  BY <1>1, SeenStep, Rendezvous, PTL DEF Spec, Seen
<1>3. ASSUME Seen, NEW r \in Ranks, pc[r] = "asleep", Theirs(r) # {}
      PROVE  /\ r # Leader /\ Slot(Leader) = Slot(r)
             /\ pc[Leader] \in {"looking", "awake", "expired"}
  <2>1. poison = "none" /\ Mine(r) # {} /\ r # Leader
    BY <1>3 DEF Seen, Unaware
  <2>2. Peer(r) = Leader /\ Peer(Leader) = r /\ Leader \in Ranks
    BY <2>1, RankFacts DEF Leader, Ranks, Peer
  <2>3. Slot(r) \in Slots /\ pending[Slot(r)][Leader] # {}
    BY <1>3, <2>2 DEF Theirs, Seen, RendezvousInvariant, TypeOK, Calls, Slot
  <2>4. Fresh(Leader) /\ RankInvariant(Leader) /\ TypeOK
    BY <1>3, <2>1, <2>2 DEF Seen, RendezvousInvariant, TypeOK, Fresh
  <2>5. pc[Leader] # "idle"
    BY <2>3, <2>4 DEF RankInvariant, IdleClean
  <2>6. Slot(Leader) = Slot(r)
    BY <2>3, <2>4, <2>5 DEF RankInvariant, BusyOwn
  <2>7. Theirs(Leader) # {}
    BY <2>1, <2>2, <2>6 DEF Theirs, Mine
  <2>8. pc[Leader] # "asleep"
    BY <1>3, <2>2, <2>7 DEF Seen, Unaware
  <2>. QED  BY <2>1, <2>2, <2>4, <2>5, <2>6, <2>8 DEF TypeOK
<1>4. Seen => NothingUnseen
  BY <1>3 DEF Seen, Unaware, NothingUnseen
<1>. QED  BY <1>2, <1>4, PTL
=============================================================================
