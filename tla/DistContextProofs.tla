------------------------- MODULE DistContextProofs -------------------------
(***************************************************************************)
(* For any number of threads and calls: the two ranks of a context are of  *)
(* one run, a shutdown is mutual, and one clone at a time runs it.  The    *)
(* invariant says what the messages under way stand for: until rank 0 has  *)
(* answered only hellos are under way, an acceptance names the run of rank *)
(* 0, and a Shutdown message was written by the other rank, as `told`      *)
(* records; and which of its steps a thread takes with the lock in hand.   *)
(***************************************************************************)
EXTENDS DistContext, TLAPS

In(m, s) == \E i \in 1..Len(s) : s[i] = m

WithLock == {"read", "answer", "answered", "await"}
Acknowledged == {"answer", "answered", "store"}
InShutdown == {"shutdown", "await", "store", "fail"}

\* What the ranks know of each other's run.
Handshake ==
  /\ boot[Root] = "start" =>
       /\ boot[Peer] # "up"
       /\ \A m \in Messages : ~In(m, inbox[Peer])
       /\ \A m \in Messages : In(m, inbox[Root]) => m.run = run[Peer]
  /\ \A m \in Messages : In(m, inbox[Peer]) /\ m.kind = "Accepted" => m.run = run[Root]
  /\ SameRun

\* No calls before the rendezvous is over.
Quiet(r) == boot[r] \in {"start", "reading"} => \A t \in Threads : pc[r][t] = "idle"

\* Whoever acts on a shutdown of the other rank was told.
Heeds(r) ==
  Other(r) \notin told =>
    /\ ~In(ShutdownMessage, inbox[r])
    /\ \A t \in Threads : pc[r][t] \notin Acknowledged
    /\ state[r] # "Shutdown"

Locked(r) == \A t \in Threads : pc[r][t] \in WithLock => lock[r] = t

Exclusive(r) ==
  \A t \in Threads : pc[r][t] \in InShutdown =>
    /\ state[r] # "Active"
    /\ \A u \in Threads : u # t => pc[r][u] \notin InShutdown

RankInvariant(r) == Quiet(r) /\ Heeds(r) /\ Locked(r) /\ Exclusive(r)

ContextInvariant == TypeOK /\ Handshake /\ \A r \in Ranks : RankInvariant(r)

----------------------------------------------------------------------------
(* Ranks, messages, and what the small steps of an action do.              *)

LEMMA RankFacts ==
  /\ Root \in Ranks /\ Peer \in Ranks /\ Root # Peer
  /\ Other(Root) = Peer /\ Other(Peer) = Root
  /\ \A r \in Ranks : Other(r) \in Ranks /\ Other(r) # r /\ Other(Other(r)) = r
  /\ \A r, p \in Ranks : p = r \/ p = Other(r)
BY DEF Ranks, Root, Peer, Other

LEMMA MessageFacts ==
  /\ ShutdownMessage \in Messages /\ AbortMessage \in Messages
  /\ AbortMessage # ShutdownMessage
  /\ ShutdownMessage.kind # "Accepted" /\ AbortMessage.kind # "Accepted"
  /\ \A kind \in {"Hello", "Accepted", "Reject"}, id \in Runs :
       /\ Message(kind, id) \in Messages
       /\ Message(kind, id).kind = kind /\ Message(kind, id).run = id
       /\ Message(kind, id) # ShutdownMessage
BY DEF Messages, Message, ShutdownMessage, AbortMessage

LEMMA AppendFacts ==
  ASSUME NEW s \in Seq(Messages), NEW m \in Messages
  PROVE  /\ Append(s, m) \in Seq(Messages)
         /\ \A n \in Messages : In(n, Append(s, m)) => In(n, s) \/ n = m
<1>1. Append(s, m) \in Seq(Messages)
  OBVIOUS
<1>2. ASSUME NEW n \in Messages, NEW i \in 1..Len(Append(s, m)), Append(s, m)[i] = n
      PROVE  In(n, s) \/ n = m
  <2>1. CASE i = Len(s) + 1
    BY <1>2, <2>1
  <2>2. CASE i # Len(s) + 1
    <3>1. i \in 1..Len(s) /\ s[i] = n
      BY <1>2, <2>2
    <3>2. QED
      BY <3>1 DEF In
  <2>3. QED
    BY <2>1, <2>2
<1>3. QED
  BY <1>1, <1>2 DEF In

LEMMA TailFacts ==
  ASSUME NEW s \in Seq(Messages), s # <<>>
  PROVE  /\ Tail(s) \in Seq(Messages)
         /\ Head(s) \in Messages /\ In(Head(s), s)
         /\ \A n \in Messages : In(n, Tail(s)) => In(n, s)
<1>1. /\ Tail(s) \in Seq(Messages) /\ Head(s) \in Messages
      /\ Len(s) \in Nat \ {0} /\ Len(Tail(s)) = Len(s) - 1
      /\ Head(s) = s[1] /\ \A i \in 1..Len(Tail(s)) : Tail(s)[i] = s[i + 1]
  OBVIOUS
<1>2. In(Head(s), s)
  BY <1>1 DEF In
<1>3. ASSUME NEW n \in Messages, NEW i \in 1..Len(Tail(s)), Tail(s)[i] = n
      PROVE  In(n, s)
  <2>1. i + 1 \in 1..Len(s) /\ s[i + 1] = n
    BY <1>1, <1>3
  <2>2. QED
    BY <2>1 DEF In
<1>4. QED
  BY <1>1, <1>2, <1>3 DEF In

Inboxes == [Ranks -> Seq(Messages)]

LEMMA WrittenFacts ==
  ASSUME NEW r \in Ranks, NEW in \in Inboxes, NEW m \in Messages
  PROVE  /\ Written(r, in, m) \in Inboxes
         /\ Written(r, in, m)[r] = in[r]
         /\ \A p \in Ranks, n \in Messages :
              In(n, Written(r, in, m)[p]) => In(n, in[p]) \/ (n = m /\ p = Other(r))
<1>1. CASE Gone(Other(r))
  BY <1>1 DEF Written
<1>2. CASE ~Gone(Other(r))
  <2> DEFINE longer == Append(in[Other(r)], m)
  <2>1. in[Other(r)] \in Seq(Messages)
    BY RankFacts DEF Inboxes
  <2>2. /\ longer \in Seq(Messages)
        /\ \A n \in Messages : In(n, longer) => In(n, in[Other(r)]) \/ n = m
    BY <2>1, AppendFacts
  <2>3. Written(r, in, m) = [in EXCEPT ![Other(r)] = longer]
    BY <1>2 DEF Written
  <2> HIDE DEF longer
  <2>4. QED
    BY <2>2, <2>3, RankFacts DEF Inboxes
<1>3. QED
  BY <1>1, <1>2

LEMMA ReadFacts ==
  ASSUME TypeOK, NEW r \in Ranks, Heard(r)
  PROVE  LET rest == [inbox EXCEPT ![r] = Tail(@)]
         IN  /\ rest \in Inboxes
             /\ rest[Other(r)] = inbox[Other(r)]
             /\ Head1(r) \in Messages /\ In(Head1(r), inbox[r])
             /\ \A p \in Ranks, n \in Messages : In(n, rest[p]) => In(n, inbox[p])
<1> DEFINE tail == Tail(inbox[r])
<1>1. inbox \in Inboxes /\ inbox[r] \in Seq(Messages) /\ inbox[r] # <<>>
  BY DEF TypeOK, Heard, Inboxes
<1>2. /\ tail \in Seq(Messages)
      /\ Head1(r) \in Messages /\ In(Head1(r), inbox[r])
      /\ \A n \in Messages : In(n, tail) => In(n, inbox[r])
  BY <1>1, TailFacts DEF Head1
<1>3. [inbox EXCEPT ![r] = Tail(@)] = [inbox EXCEPT ![r] = tail]
  OBVIOUS
<1> HIDE DEF tail
<1>4. QED
  BY <1>1, <1>2, <1>3, RankFacts DEF Inboxes

LEMMA GotoMoves ==
  ASSUME TypeOK, NEW r \in Ranks, NEW t \in Threads, NEW label \in Steps, Goto(r, t, label)
  PROVE  /\ pc' \in [Ranks -> [Threads -> Steps]]
         /\ pc'[r][t] = label
         /\ \A p \in Ranks, u \in Threads : p # r \/ u # t => pc'[p][u] = pc[p][u]
<1> DEFINE row == [pc[r] EXCEPT ![t] = label]
<1>1. pc' = [pc EXCEPT ![r] = row]
  BY DEF Goto
<1>2. /\ row \in [Threads -> Steps] /\ row[t] = label
      /\ \A u \in Threads : u # t => row[u] = pc[r][u]
  BY DEF TypeOK
<1> HIDE DEF row
<1>3. QED
  BY <1>1, <1>2 DEF TypeOK

LEMMA StateMoves ==
  ASSUME TypeOK, NEW r \in Ranks, NEW value \in States, SetState(r, value)
  PROVE  /\ state' \in [Ranks -> States] /\ state'[r] = value
         /\ \A p \in Ranks : p # r => state'[p] = state[p]
BY DEF TypeOK, SetState

LEMMA BootMoves ==
  ASSUME TypeOK, NEW r \in Ranks,
         NEW stage \in {"start", "reading", "up", "closed"}, BootTo(r, stage)
  PROVE  /\ boot' \in [Ranks -> {"start", "reading", "up", "closed"}]
         /\ boot'[r] = stage
         /\ \A p \in Ranks : p # r => boot'[p] = boot[p]
BY DEF TypeOK, BootTo

LEMMA LockMoves ==
  ASSUME TypeOK, NEW r \in Ranks, NEW h \in Threads \cup {Nobody},
         lock' = [lock EXCEPT ![r] = h]
  PROVE  /\ lock' \in [Ranks -> Threads \cup {Nobody}] /\ lock'[r] = h
         /\ \A p \in Ranks : p # r => lock'[p] = lock[p]
BY DEF TypeOK

----------------------------------------------------------------------------
(* What the steps of all calls have in common.                             *)

\* Rank r's thread t takes a step: it leaves the other rank and the other threads
\* alone, and writes nothing but what `told` records.
LeavesOthers(r, t) ==
  /\ Up(r) /\ UNCHANGED wire
  /\ told \subseteq told'
  /\ \A p \in Ranks, u \in Threads : p # r \/ u # t => pc'[p][u] = pc[p][u]
  /\ \A p \in Ranks : p # r => state'[p] = state[p] /\ lock'[p] = lock[p]
  /\ \A p \in Ranks, m \in Messages :
       In(m, inbox'[p]) =>
         \/ In(m, inbox[p])
         \/ p = Other(r) /\ m \in {AbortMessage, ShutdownMessage}
            /\ (m = ShutdownMessage => r \in told')

\* It heeds what it was told, holds the lock where it has to, and enters a shutdown
\* only from "Active".
Orderly(r, t) ==
  /\ Other(r) \notin told' => pc'[r][t] \notin Acknowledged /\ state'[r] # "Shutdown"
  /\ lock'[r] = lock[r] \/ lock[r] \in {Nobody, t}
  /\ pc'[r][t] \in WithLock => lock'[r] = t
  /\ state'[r] = "Active" =>
       state[r] = "Active" /\ (pc'[r][t] \in InShutdown => pc[r][t] \in InShutdown)
  /\ pc'[r][t] \in InShutdown => pc[r][t] \in InShutdown \/ state[r] = "Active"

CallStep(r, t) == TypeOK' /\ LeavesOthers(r, t) /\ Orderly(r, t)

LEMMA CallKeepsHandshake ==
  ASSUME ContextInvariant, NEW r \in Ranks, NEW t \in Threads, CallStep(r, t)
  PROVE  Handshake'
<1>1. /\ TypeOK /\ Handshake /\ Up(r)
      /\ boot' = boot /\ run' = run
      /\ \A p \in Ranks, m \in Messages :
           In(m, inbox'[p]) =>
             \/ In(m, inbox[p])
             \/ p = Other(r) /\ m \in {AbortMessage, ShutdownMessage}
  BY DEF ContextInvariant, CallStep, LeavesOthers, wire
<1>2. \A m \in Messages : In(m, inbox'[Peer]) /\ m.kind = "Accepted" => m.run = run[Root]
  BY <1>1, RankFacts, MessageFacts DEF Handshake
<1>3. ASSUME boot[Root] = "start" PROVE FALSE
  <2>1. r # Root /\ r # Peer
    BY <1>1, <1>3 DEF Handshake, Up
  <2>2. QED
    BY <2>1, RankFacts
<1>4. SameRun'
  BY <1>1 DEF Handshake, SameRun, Up
<1>5. QED
  BY <1>1, <1>2, <1>3, <1>4 DEF Handshake

LEMMA CallKeepsRank ==
  ASSUME ContextInvariant, NEW r \in Ranks, NEW t \in Threads, CallStep(r, t)
  PROVE  RankInvariant(r)'
<1>1. /\ TypeOK /\ RankInvariant(r) /\ LeavesOthers(r, t) /\ Orderly(r, t)
  BY DEF ContextInvariant, CallStep
<1>2. \A u \in Threads : u # t => pc'[r][u] = pc[r][u]
  BY <1>1 DEF LeavesOthers
<1>3. Quiet(r)'
  BY <1>1 DEF LeavesOthers, Quiet, Up, wire
<1>4. Heeds(r)'
  <2>1. SUFFICES ASSUME Other(r) \notin told' PROVE Heeds(r)'
    BY DEF Heeds
  <2>2. Other(r) \notin told /\ Other(r) # r
    BY <1>1, <2>1, RankFacts DEF LeavesOthers
  <2>3. ~In(ShutdownMessage, inbox'[r])
    BY <1>1, <2>2, MessageFacts DEF LeavesOthers, RankInvariant, Heeds
  <2>4. QED
    BY <1>1, <1>2, <2>1, <2>2, <2>3 DEF Orderly, RankInvariant, Heeds
<1>5. Locked(r)'
  <2>1. SUFFICES ASSUME NEW u \in Threads, pc'[r][u] \in WithLock PROVE lock'[r] = u
    BY DEF Locked
  <2>2. CASE u = t
    BY <1>1, <2>1, <2>2 DEF Orderly
  <2>3. CASE u # t
    <3>1. lock[r] = u
      BY <1>1, <1>2, <2>1, <2>3 DEF RankInvariant, Locked
    <3>2. QED
      BY <1>1, <2>3, <3>1, ThreadsAssumption DEF Orderly
  <2>4. QED
    BY <2>2, <2>3
<1>6. Exclusive(r)'
  BY <1>1, <1>2 DEF Orderly, RankInvariant, Exclusive
<1>7. QED
  BY <1>3, <1>4, <1>5, <1>6 DEF RankInvariant

LEMMA CallKeepsOther ==
  ASSUME ContextInvariant, NEW r \in Ranks, NEW t \in Threads, CallStep(r, t)
  PROVE  RankInvariant(Other(r))'
<1> DEFINE p == Other(r)
<1>1. /\ RankInvariant(p) /\ p \in Ranks /\ p # r /\ Other(p) = r
  BY RankFacts DEF ContextInvariant
<1>2. /\ \A u \in Threads : pc'[p][u] = pc[p][u]
      /\ state'[p] = state[p] /\ lock'[p] = lock[p] /\ boot' = boot
      /\ told \subseteq told'
      /\ In(ShutdownMessage, inbox'[p]) => In(ShutdownMessage, inbox[p]) \/ r \in told'
  BY <1>1, MessageFacts DEF CallStep, LeavesOthers, wire
<1>3. Quiet(p)' /\ Locked(p)' /\ Exclusive(p)'
  BY <1>1, <1>2 DEF RankInvariant, Quiet, Locked, Exclusive
<1>4. Heeds(p)'
  BY <1>1, <1>2 DEF RankInvariant, Heeds
<1>5. QED
  BY <1>3, <1>4 DEF RankInvariant

LEMMA CallKeeps ==
  ASSUME ContextInvariant, NEW r \in Ranks, NEW t \in Threads, CallStep(r, t)
  PROVE  ContextInvariant'
<1>1. \A p \in Ranks : RankInvariant(p)'
  BY CallKeepsRank, CallKeepsOther, RankFacts
<1>2. QED
  BY <1>1, CallKeepsHandshake DEF ContextInvariant, CallStep

----------------------------------------------------------------------------
(* Each step of a call is one.                                             *)

\* A step that reads nothing and writes nothing.
LEMMA SilentStep ==
  ASSUME ContextInvariant, NEW r \in Ranks, NEW t \in Threads, Up(r),
         NEW label \in Steps, Goto(r, t, label),
         NEW value \in States, SetState(r, value),
         NEW h \in Threads \cup {Nobody}, lock' = [lock EXCEPT ![r] = h],
         UNCHANGED <<wire, inbox, told>>,
         calls' \in Nat, faults' \in Nat
  PROVE  TypeOK' /\ LeavesOthers(r, t)
<1>1. TypeOK
  BY DEF ContextInvariant
<1>2. TypeOK'
  BY <1>1, GotoMoves, StateMoves, LockMoves DEF TypeOK, wire
<1>3. LeavesOthers(r, t)
  BY <1>1, GotoMoves, StateMoves, LockMoves DEF LeavesOthers
<1>4. QED
  BY <1>2, <1>3

\* A step that reads the next message.
LEMMA ReadingStep ==
  ASSUME ContextInvariant, NEW r \in Ranks, NEW t \in Threads, Up(r),
         Heard(r), Reading(r),
         NEW label \in Steps, Goto(r, t, label),
         NEW value \in States, SetState(r, value),
         NEW h \in Threads \cup {Nobody}, lock' = [lock EXCEPT ![r] = h],
         UNCHANGED <<wire, told, bounds>>
  PROVE  TypeOK' /\ LeavesOthers(r, t)
<1>1. TypeOK
  BY DEF ContextInvariant
<1>2. inbox' \in Inboxes /\ \A p \in Ranks, m \in Messages : In(m, inbox'[p]) => In(m, inbox[p])
  BY <1>1, ReadFacts DEF Reading
<1>3. TypeOK'
  BY <1>1, <1>2, GotoMoves, StateMoves, LockMoves DEF TypeOK, wire, bounds, Inboxes
<1>4. LeavesOthers(r, t)
  BY <1>1, <1>2, GotoMoves, StateMoves, LockMoves DEF LeavesOthers
<1>5. QED
  BY <1>3, <1>4

\* A step that writes a message.
LEMMA WritingStep ==
  ASSUME ContextInvariant, NEW r \in Ranks, NEW t \in Threads, Up(r),
         NEW m \in {AbortMessage, ShutdownMessage}, inbox' = Written(r, inbox, m),
         told' = told \cup (IF m = ShutdownMessage THEN {r} ELSE {}),
         NEW label \in Steps, Goto(r, t, label),
         NEW h \in Threads \cup {Nobody}, lock' = [lock EXCEPT ![r] = h],
         UNCHANGED <<wire, state, bounds>>
  PROVE  TypeOK' /\ LeavesOthers(r, t)
<1>1. TypeOK /\ inbox \in Inboxes /\ m \in Messages
  BY MessageFacts DEF ContextInvariant, TypeOK, Inboxes
<1>2. /\ inbox' \in Inboxes
      /\ \A p \in Ranks, n \in Messages :
           In(n, inbox'[p]) => In(n, inbox[p]) \/ (n = m /\ p = Other(r))
  BY <1>1, WrittenFacts
<1>3. TypeOK'
  BY <1>1, <1>2, GotoMoves, LockMoves DEF TypeOK, wire, bounds, Inboxes
<1>4. LeavesOthers(r, t)
  BY <1>1, <1>2, GotoMoves, LockMoves DEF LeavesOthers
<1>5. QED
  BY <1>3, <1>4

\* SetState and Unlock may be left out.
LEMMA Stays ==
  ASSUME ContextInvariant, NEW r \in Ranks
  PROVE  /\ state[r] \in States /\ state = [state EXCEPT ![r] = state[r]]
         /\ lock[r] \in Threads \cup {Nobody} /\ lock = [lock EXCEPT ![r] = lock[r]]
BY DEF ContextInvariant, TypeOK

LEMMA CallsOrderly ==
  ASSUME ContextInvariant, NEW r \in Ranks, NEW t \in Threads,
         Abort(r, t) \/ WaitForPeer(r, t) \/ Shutdown(r, t)
  PROVE  CallStep(r, t)
<1>1. TypeOK /\ RankInvariant(r)
  BY DEF ContextInvariant
<1>2. Up(r) /\ pc[r][t] = "idle" /\ calls' \in Nat /\ UNCHANGED <<wire, inbox, told, faults>>
  BY <1>1 DEF Abort, WaitForPeer, Shutdown, Call, At, TypeOK
<1>3. faults' \in Nat
  BY <1>1, <1>2 DEF TypeOK
<1>4. CASE Abort(r, t)
  <2>1. Goto(r, t, "abort") /\ SetState(r, "Failed") /\ lock' = lock
    BY <1>4 DEF Abort
  <2>2. "abort" \in Steps /\ "Failed" \in States
    BY DEF Steps, States
  <2>3. TypeOK' /\ LeavesOthers(r, t)
    BY <1>2, <1>3, <2>1, <2>2, Stays, SilentStep
  <2>4. Orderly(r, t)
    BY <1>1, <2>1, <2>2, GotoMoves, StateMoves DEF Orderly, WithLock, Acknowledged, InShutdown
  <2>5. QED
    BY <2>3, <2>4 DEF CallStep
<1>5. CASE WaitForPeer(r, t)
  <2>1. Goto(r, t, "read") /\ state' = state /\ lock[r] = Nobody /\ lock' = [lock EXCEPT ![r] = t]
    BY <1>5 DEF WaitForPeer, Acquire, Free
  <2>2. "read" \in Steps
    BY DEF Steps
  <2>3. TypeOK' /\ LeavesOthers(r, t)
    BY <1>2, <1>3, <2>1, <2>2, Stays, SilentStep DEF SetState
  <2>4. pc'[r][t] = "read" /\ lock'[r] = t /\ state' = state
    <3>1. pc'[r][t] = "read"
      BY <1>1, <2>1, <2>2, GotoMoves
    <3>2. lock'[r] = t
      BY <1>1, <2>1 DEF TypeOK
    <3>3. QED
      BY <2>1, <3>1, <3>2
  <2>5. Other(r) \notin told' => state'[r] # "Shutdown"
    BY <1>1, <1>2, <2>4 DEF RankInvariant, Heeds
  <2>6. Orderly(r, t)
    BY <2>1, <2>4, <2>5 DEF Orderly, WithLock, Acknowledged, InShutdown
  <2>7. QED
    BY <2>3, <2>6 DEF CallStep
<1>6. CASE Shutdown(r, t)
  <2>1. /\ Goto(r, t, "shutdown") /\ SetState(r, "ShuttingDown") /\ lock' = lock
        /\ state[r] = "Active"
    BY <1>6 DEF Shutdown
  <2>2. "shutdown" \in Steps /\ "ShuttingDown" \in States
    BY DEF Steps, States
  <2>3. TypeOK' /\ LeavesOthers(r, t)
    BY <1>2, <1>3, <2>1, <2>2, Stays, SilentStep
  <2>4. Orderly(r, t)
    BY <1>1, <2>1, <2>2, GotoMoves, StateMoves DEF Orderly, WithLock, Acknowledged, InShutdown
  <2>5. QED
    BY <2>3, <2>4 DEF CallStep
<1>7. QED
  BY <1>4, <1>5, <1>6

\* A later step of a call: to which step, state and lock a thread may go.
Allowed(r, t, label, value, h) ==
  /\ label \in Acknowledged => Other(r) \in told
  /\ value = state[r] \/ value = "Failed" \/ (value = "Shutdown" /\ Other(r) \in told)
  /\ h = lock[r] \/ lock[r] \in {Nobody, t}
  /\ label \in WithLock => h = t
  /\ label \in InShutdown => pc[r][t] \in InShutdown

LEMMA AllowedOrderly ==
  ASSUME ContextInvariant, NEW r \in Ranks, NEW t \in Threads,
         NEW label \in Steps, Goto(r, t, label),
         NEW value \in States, SetState(r, value),
         NEW h \in Threads \cup {Nobody}, lock' = [lock EXCEPT ![r] = h],
         told \subseteq told', Allowed(r, t, label, value, h)
  PROVE  Orderly(r, t)
<1>1. TypeOK /\ RankInvariant(r)
  BY DEF ContextInvariant
<1>2. pc'[r][t] = label
  BY <1>1, GotoMoves
<1>3. state'[r] = value
  BY <1>1, StateMoves
<1>4. lock'[r] = h
  BY <1>1, LockMoves
<1>5. Other(r) \notin told' => label \notin Acknowledged /\ value # "Shutdown"
  BY <1>1 DEF Allowed, RankInvariant, Heeds
<1>6. QED
  BY <1>2, <1>3, <1>4, <1>5 DEF Allowed, Orderly

\* Where a thread is in a call, and what it therefore has and knows.
LEMMA InHand ==
  ASSUME ContextInvariant, NEW r \in Ranks, NEW t \in Threads
  PROVE  /\ TypeOK /\ calls \in Nat /\ faults \in Nat
         /\ pc[r][t] \in WithLock => lock[r] = t
         /\ pc[r][t] \in Acknowledged => Other(r) \in told
         /\ In(ShutdownMessage, inbox[r]) => Other(r) \in told
         /\ t \in Threads \cup {Nobody} /\ Nobody \in Threads \cup {Nobody}
         /\ state[r] \in States /\ state = [state EXCEPT ![r] = state[r]]
         /\ lock[r] \in Threads \cup {Nobody} /\ lock = [lock EXCEPT ![r] = lock[r]]
         /\ Steps = {"idle", "abort", "read", "answer", "answered",
                     "shutdown", "await", "store", "fail"}
         /\ "Failed" \in States /\ "Shutdown" \in States
BY Stays DEF ContextInvariant, TypeOK, RankInvariant, Locked, Heeds, Steps, States

LEMMA SilentCall ==
  ASSUME ContextInvariant, NEW r \in Ranks, NEW t \in Threads, Up(r),
         NEW label \in Steps, Goto(r, t, label),
         NEW value \in States, SetState(r, value),
         NEW h \in Threads \cup {Nobody}, lock' = [lock EXCEPT ![r] = h],
         UNCHANGED <<wire, inbox, told, bounds>>, Allowed(r, t, label, value, h)
  PROVE  CallStep(r, t)
<1>1. calls' \in Nat /\ faults' \in Nat
  BY DEF ContextInvariant, TypeOK, bounds
<1>2. TypeOK' /\ LeavesOthers(r, t)
  BY <1>1, SilentStep
<1>3. QED
  BY <1>2, AllowedOrderly DEF CallStep

LEMMA ReadingCall ==
  ASSUME ContextInvariant, NEW r \in Ranks, NEW t \in Threads, Up(r),
         Heard(r), Reading(r),
         NEW label \in Steps, Goto(r, t, label),
         NEW value \in States, SetState(r, value),
         NEW h \in Threads \cup {Nobody}, lock' = [lock EXCEPT ![r] = h],
         UNCHANGED <<wire, told, bounds>>, Allowed(r, t, label, value, h)
  PROVE  CallStep(r, t)
<1>1. TypeOK' /\ LeavesOthers(r, t)
  BY ReadingStep
<1>2. QED
  BY <1>1, AllowedOrderly DEF CallStep

LEMMA WritingCall ==
  ASSUME ContextInvariant, NEW r \in Ranks, NEW t \in Threads, Up(r),
         NEW m \in {AbortMessage, ShutdownMessage}, inbox' = Written(r, inbox, m),
         told' = told \cup (IF m = ShutdownMessage THEN {r} ELSE {}),
         NEW label \in Steps, Goto(r, t, label),
         NEW h \in Threads \cup {Nobody}, lock' = [lock EXCEPT ![r] = h],
         UNCHANGED <<wire, state, bounds>>, Allowed(r, t, label, state[r], h)
  PROVE  CallStep(r, t)
<1>1. TypeOK' /\ LeavesOthers(r, t)
  BY WritingStep
<1>2. state[r] \in States /\ SetState(r, state[r]) /\ told \subseteq told'
  BY Stays DEF SetState
<1>3. QED
  BY <1>1, <1>2, AllowedOrderly DEF CallStep

LEMMA QuietSteps ==
  ASSUME ContextInvariant, NEW r \in Ranks, NEW t \in Threads,
         \/ WaitFails(r, t) \/ WaitStores(r, t)
         \/ ShutdownHearsNothing(r, t) \/ ShutdownStores(r, t) \/ ShutdownFails(r, t)
  PROVE  CallStep(r, t)
<1>1. CASE WaitFails(r, t)
  <2>1. /\ Up(r) /\ pc[r][t] = "read" /\ Goto(r, t, "idle")
        /\ SetState(r, "Failed") /\ lock' = [lock EXCEPT ![r] = Nobody]
        /\ UNCHANGED <<wire, inbox, told, bounds>>
    BY <1>1, InHand DEF WaitFails, At, SetState, Unlock
  <2>2. Allowed(r, t, "idle", "Failed", Nobody)
    BY <2>1, InHand DEF Allowed, WithLock, Acknowledged, InShutdown
  <2>3. "idle" \in Steps /\ "Failed" \in States /\ Nobody \in Threads \cup {Nobody}
    BY InHand
  <2>4. QED
    BY <2>1, <2>2, <2>3, SilentCall
<1>2. CASE WaitStores(r, t)
  <2>1. /\ Up(r) /\ pc[r][t] = "answered" /\ Goto(r, t, "idle")
        /\ SetState(r, "Shutdown") /\ lock' = [lock EXCEPT ![r] = Nobody]
        /\ UNCHANGED <<wire, inbox, told, bounds>>
    BY <1>2, InHand DEF WaitStores, At, SetState, Unlock
  <2>2. Allowed(r, t, "idle", "Shutdown", Nobody)
    BY <2>1, InHand DEF Allowed, WithLock, Acknowledged, InShutdown
  <2>3. "idle" \in Steps /\ "Shutdown" \in States /\ Nobody \in Threads \cup {Nobody}
    BY InHand
  <2>4. QED
    BY <2>1, <2>2, <2>3, SilentCall
<1>3. CASE ShutdownHearsNothing(r, t)
  <2>1. /\ Up(r) /\ pc[r][t] = "await" /\ Goto(r, t, "fail")
        /\ SetState(r, state[r]) /\ lock' = [lock EXCEPT ![r] = Nobody]
        /\ UNCHANGED <<wire, inbox, told, bounds>>
    BY <1>3, InHand DEF ShutdownHearsNothing, At, SetState, Unlock
  <2>2. Allowed(r, t, "fail", state[r], Nobody)
    BY <2>1, InHand DEF Allowed, WithLock, Acknowledged, InShutdown
  <2>3. "fail" \in Steps /\ state[r] \in States /\ Nobody \in Threads \cup {Nobody}
    BY InHand
  <2>4. QED
    BY <2>1, <2>2, <2>3, SilentCall
<1>4. CASE ShutdownStores(r, t)
  <2>1. /\ Up(r) /\ pc[r][t] = "store" /\ Goto(r, t, "idle")
        /\ SetState(r, "Shutdown") /\ lock' = [lock EXCEPT ![r] = lock[r]]
        /\ UNCHANGED <<wire, inbox, told, bounds>>
    BY <1>4, InHand DEF ShutdownStores, At, SetState
  <2>2. Allowed(r, t, "idle", "Shutdown", lock[r])
    BY <2>1, InHand DEF Allowed, WithLock, Acknowledged, InShutdown
  <2>3. "idle" \in Steps /\ "Shutdown" \in States /\ lock[r] \in Threads \cup {Nobody}
    BY InHand
  <2>4. QED
    BY <2>1, <2>2, <2>3, SilentCall
<1>5. CASE ShutdownFails(r, t)
  <2>1. /\ Up(r) /\ pc[r][t] = "fail" /\ Goto(r, t, "idle")
        /\ SetState(r, "Failed") /\ lock' = [lock EXCEPT ![r] = lock[r]]
        /\ UNCHANGED <<wire, inbox, told, bounds>>
    BY <1>5, InHand DEF ShutdownFails, At, SetState
  <2>2. Allowed(r, t, "idle", "Failed", lock[r])
    BY <2>1, InHand DEF Allowed, WithLock, Acknowledged, InShutdown
  <2>3. "idle" \in Steps /\ "Failed" \in States /\ lock[r] \in Threads \cup {Nobody}
    BY InHand
  <2>4. QED
    BY <2>1, <2>2, <2>3, SilentCall
<1>6. QED
  BY <1>1, <1>2, <1>3, <1>4, <1>5

LEMMA ReadingSteps ==
  ASSUME ContextInvariant, NEW r \in Ranks, NEW t \in Threads,
         WaitReads(r, t) \/ ShutdownReads(r, t)
  PROVE  CallStep(r, t)
<1>1. Heard(r) /\ Reading(r) /\ Up(r) /\ UNCHANGED <<wire, told, bounds>>
  BY DEF WaitReads, ShutdownReads, At
<1>2. Head1(r) = ShutdownMessage => Other(r) \in told
  <2>1. In(Head1(r), inbox[r])
    BY <1>1, InHand, ReadFacts
  <2>2. In(ShutdownMessage, inbox[r]) => Other(r) \in told
    BY InHand
  <2>3. QED
    BY <2>1, <2>2
<1>3. CASE WaitReads(r, t) /\ Head1(r) = ShutdownMessage
  <2>1. /\ pc[r][t] = "read" /\ Goto(r, t, "answer")
        /\ SetState(r, state[r]) /\ lock' = [lock EXCEPT ![r] = lock[r]]
    BY <1>3, InHand DEF WaitReads, At, SetState
  <2>2. Allowed(r, t, "answer", state[r], lock[r])
    BY <1>2, <1>3, <2>1, InHand DEF Allowed, WithLock, Acknowledged, InShutdown
  <2>3. QED
    BY <1>1, <2>1, <2>2, InHand, ReadingCall
<1>4. CASE WaitReads(r, t) /\ Head1(r) # ShutdownMessage
  <2>1. /\ pc[r][t] = "read" /\ Goto(r, t, "idle")
        /\ SetState(r, "Failed") /\ lock' = [lock EXCEPT ![r] = Nobody]
    BY <1>4 DEF WaitReads, At, Unlock
  <2>2. Allowed(r, t, "idle", "Failed", Nobody)
    BY <2>1, InHand DEF Allowed, WithLock, Acknowledged, InShutdown
  <2>3. QED
    BY <1>1, <2>1, <2>2, InHand, ReadingCall
<1>5. CASE ShutdownReads(r, t)
  <2> DEFINE label == IF Head1(r) = ShutdownMessage THEN "store" ELSE "fail"
  <2>1. /\ pc[r][t] = "await" /\ Goto(r, t, label)
        /\ SetState(r, state[r]) /\ lock' = [lock EXCEPT ![r] = Nobody]
    BY <1>5, InHand DEF ShutdownReads, At, Unlock, SetState
  <2>2. Allowed(r, t, label, state[r], Nobody)
    BY <1>2, <2>1, InHand DEF Allowed, WithLock, Acknowledged, InShutdown
  <2>3. label \in Steps
    BY InHand
  <2> HIDE DEF label
  <2>4. QED
    BY <1>1, <2>1, <2>2, <2>3, InHand, ReadingCall
<1>6. QED
  BY <1>3, <1>4, <1>5

LEMMA WritingSteps ==
  ASSUME ContextInvariant, NEW r \in Ranks, NEW t \in Threads,
         AbortSends(r, t) \/ WaitAnswers(r, t) \/ ShutdownSends(r, t)
  PROVE  CallStep(r, t)
<1>1. AbortMessage # ShutdownMessage
  BY MessageFacts
<1>2. CASE AbortSends(r, t)
  <2>1. /\ Up(r) /\ pc[r][t] = "abort" /\ UNCHANGED <<wire, bounds>>
    BY <1>2 DEF AbortSends, At
  <2>2. CASE /\ inbox' = Written(r, inbox, AbortMessage) /\ told' = told /\ state' = state
             /\ Goto(r, t, "idle") /\ lock' = [lock EXCEPT ![r] = lock[r]]
    <3>1. Allowed(r, t, "idle", state[r], lock[r])
      BY <2>1, <2>2, InHand DEF Allowed, WithLock, Acknowledged, InShutdown
    <3>2. told' = told \cup (IF AbortMessage = ShutdownMessage THEN {r} ELSE {})
      BY <1>1, <2>2
    <3>3. "idle" \in Steps /\ lock[r] \in Threads \cup {Nobody}
      BY InHand
    <3>4. QED
      BY <2>1, <2>2, <3>1, <3>2, <3>3, WritingCall
  <2>3. CASE /\ UNCHANGED <<inbox, told>> /\ Goto(r, t, "idle") /\ SetState(r, "Failed")
             /\ lock' = [lock EXCEPT ![r] = lock[r]]
    <3>1. Allowed(r, t, "idle", "Failed", lock[r])
      BY <2>1, <2>3, InHand DEF Allowed, WithLock, Acknowledged, InShutdown
    <3>2. "idle" \in Steps /\ "Failed" \in States /\ lock[r] \in Threads \cup {Nobody}
      BY InHand
    <3>3. QED
      BY <2>1, <2>3, <3>1, <3>2, SilentCall
  <2>4. QED
    BY <1>2, <2>2, <2>3, InHand DEF AbortSends
<1>3. CASE WaitAnswers(r, t)
  <2>1. /\ Up(r) /\ pc[r][t] = "answer" /\ UNCHANGED <<wire, bounds>>
    BY <1>3 DEF WaitAnswers, At
  <2>2. CASE /\ inbox' = Written(r, inbox, ShutdownMessage) /\ told' = told \cup {r} /\ state' = state
             /\ Goto(r, t, "answered") /\ lock' = [lock EXCEPT ![r] = lock[r]]
    <3>1. Allowed(r, t, "answered", state[r], lock[r])
      BY <2>1, <2>2, InHand DEF Allowed, WithLock, Acknowledged, InShutdown
    <3>2. told' = told \cup (IF ShutdownMessage = ShutdownMessage THEN {r} ELSE {})
      BY <1>1, <2>2
    <3>3. "answered" \in Steps /\ lock[r] \in Threads \cup {Nobody}
      BY InHand
    <3>4. QED
      BY <2>1, <2>2, <3>1, <3>2, <3>3, WritingCall
  <2>3. CASE /\ UNCHANGED <<inbox, told>> /\ Goto(r, t, "idle") /\ SetState(r, "Failed")
             /\ lock' = [lock EXCEPT ![r] = Nobody]
    <3>1. Allowed(r, t, "idle", "Failed", Nobody)
      BY <2>1, <2>3, InHand DEF Allowed, WithLock, Acknowledged, InShutdown
    <3>2. "idle" \in Steps /\ "Failed" \in States /\ Nobody \in Threads \cup {Nobody}
      BY InHand
    <3>3. QED
      BY <2>1, <2>3, <3>1, <3>2, SilentCall
  <2>4. QED
    BY <1>3, <2>2, <2>3, InHand DEF WaitAnswers, Unlock
<1>4. CASE ShutdownSends(r, t)
  <2>1. /\ Up(r) /\ pc[r][t] = "shutdown" /\ UNCHANGED <<wire, bounds>>
    BY <1>4 DEF ShutdownSends, At
  <2>2. CASE /\ inbox' = Written(r, inbox, ShutdownMessage) /\ told' = told \cup {r} /\ state' = state
             /\ Goto(r, t, "await") /\ lock' = [lock EXCEPT ![r] = t] /\ lock[r] = Nobody
    <3>1. Allowed(r, t, "await", state[r], t)
      BY <2>1, <2>2, InHand DEF Allowed, WithLock, Acknowledged, InShutdown
    <3>2. told' = told \cup (IF ShutdownMessage = ShutdownMessage THEN {r} ELSE {})
      BY <1>1, <2>2
    <3>3. "await" \in Steps /\ t \in Threads \cup {Nobody}
      BY InHand
    <3>4. QED
      BY <2>1, <2>2, <3>1, <3>2, <3>3, WritingCall
  <2>3. CASE /\ UNCHANGED <<inbox, told>> /\ Goto(r, t, "fail") /\ SetState(r, state[r])
             /\ lock' = [lock EXCEPT ![r] = lock[r]]
    <3>1. Allowed(r, t, "fail", state[r], lock[r])
      BY <2>1, <2>3, InHand DEF Allowed, WithLock, Acknowledged, InShutdown
    <3>2. "fail" \in Steps /\ state[r] \in States /\ lock[r] \in Threads \cup {Nobody}
      BY InHand
    <3>3. QED
      BY <2>1, <2>3, <3>1, <3>2, SilentCall
  <2>4. QED
    BY <1>4, <2>2, <2>3, InHand DEF ShutdownSends, Acquire, Free, SetState
<1>5. QED
  BY <1>2, <1>3, <1>4

----------------------------------------------------------------------------
(* The rendezvous and the faults.                                          *)

LEMMA InvariantInit == Init => ContextInvariant
<1> SUFFICES ASSUME Init PROVE ContextInvariant
  OBVIOUS
<1>1. <<>> \in Seq(Messages) /\ Len(<<>>) = 0
  OBVIOUS
<1>2. inbox \in [Ranks -> Seq(Messages)] /\ \A r \in Ranks, m \in Messages : ~In(m, inbox[r])
  <2>1. inbox \in [Ranks -> Seq(Messages)]
    BY <1>1, Zenon DEF Init
  <2>2. \A r \in Ranks : Len(inbox[r]) = 0
    BY <1>1 DEF Init
  <2>3. QED
    BY <2>1, <2>2 DEF In
<1>3. TypeOK
  <2>1. pc \in [Ranks -> [Threads -> Steps]]
    BY DEF Init, Steps
  <2>2. QED
    BY <1>2, <2>1 DEF Init, TypeOK, States
<1>4. Handshake
  BY <1>2, RankFacts DEF Init, Handshake, SameRun, Up
<1>5. \A r \in Ranks : RankInvariant(r)
  <2> TAKE r \in Ranks
  <2>1. ~In(ShutdownMessage, inbox[r])
    BY <1>2, MessageFacts
  <2>2. state[r] = "None" /\ \A t \in Threads : pc[r][t] = "idle"
    BY DEF Init
  <2>3. QED
    BY <2>1, <2>2 DEF RankInvariant, Quiet, Heeds, Locked, Exclusive,
                      WithLock, Acknowledged, InShutdown
<1>6. QED
  BY <1>3, <1>4, <1>5 DEF ContextInvariant

\* What the steps of the rendezvous and the faults have in common: no thread of a
\* call moves.
LEMMA ElsewhereKeepsRank ==
  ASSUME ContextInvariant, NEW r \in Ranks,
         pc'[r] = pc[r], lock'[r] = lock[r], told' = told,
         In(ShutdownMessage, inbox'[r]) => In(ShutdownMessage, inbox[r]),
         boot'[r] \in {"start", "reading"} => boot[r] \in {"start", "reading"},
         \/ state'[r] = state[r] \/ state'[r] = "Failed"
         \/ state'[r] = "Active" /\ boot[r] \in {"start", "reading"}
  PROVE  RankInvariant(r)'
<1>1. RankInvariant(r)
  BY DEF ContextInvariant
<1>2. Quiet(r)' /\ Heeds(r)' /\ Locked(r)'
  BY <1>1 DEF RankInvariant, Quiet, Heeds, Locked
<1>3. Exclusive(r)'
  BY <1>1 DEF RankInvariant, Exclusive, Quiet, InShutdown
<1>4. QED
  BY <1>2, <1>3 DEF RankInvariant

LEMMA ConnectKeeps == ContextInvariant /\ Connect => ContextInvariant'
<1> SUFFICES ASSUME ContextInvariant, Connect PROVE ContextInvariant'
  OBVIOUS
<1> DEFINE hello == Message("Hello", run[Peer])
           longer == Append(inbox[Root], hello)
<1>1. TypeOK /\ Handshake /\ boot[Root] = "start" /\ boot[Peer] = "start"
  BY DEF ContextInvariant, Connect
<1>2. /\ run[Peer] \in Runs /\ inbox[Root] \in Seq(Messages)
      /\ hello \in Messages /\ hello.run = run[Peer] /\ hello # ShutdownMessage
  BY <1>1, RankFacts, MessageFacts DEF TypeOK
<1>3. /\ longer \in Seq(Messages)
      /\ \A n \in Messages : In(n, longer) => In(n, inbox[Root]) \/ n = hello
  BY <1>2, AppendFacts
<1>4. inbox' = [inbox EXCEPT ![Root] = longer]
  BY DEF Connect
<1> HIDE DEF longer, hello
<1>5. /\ inbox' \in [Ranks -> Seq(Messages)]
      /\ inbox'[Peer] = inbox[Peer]
      /\ \A n \in Messages : In(n, inbox'[Root]) => In(n, inbox[Root]) \/ n = hello
  BY <1>1, <1>3, <1>4, RankFacts DEF TypeOK
<1>6. /\ boot' \in [Ranks -> {"start", "reading", "up", "closed"}]
      /\ boot'[Peer] = "reading" /\ boot'[Root] = "start"
  BY <1>1, RankFacts, BootMoves DEF Connect
<1>7. UNCHANGED <<run, state, lock, pc, told, bounds>>
  BY DEF Connect
<1>8. TypeOK'
  BY <1>1, <1>5, <1>6, <1>7 DEF TypeOK, bounds
<1>9. Handshake'
  BY <1>1, <1>2, <1>5, <1>6, <1>7, RankFacts DEF Handshake, SameRun, Up, Ranks
<1>10. RankInvariant(Root)' /\ RankInvariant(Peer)'
  BY <1>1, <1>2, <1>5, <1>6, <1>7, RankFacts, MessageFacts, ElsewhereKeepsRank
<1>11. QED
  BY <1>8, <1>9, <1>10 DEF ContextInvariant, Ranks

\* What Configured does.
LEMMA ConfiguredMoves ==
  ASSUME TypeOK, NEW r \in Ranks,
         Configured(r) \/ (BootTo(r, "closed") /\ UNCHANGED state)
  PROVE  /\ boot' \in [Ranks -> {"start", "reading", "up", "closed"}]
         /\ state' \in [Ranks -> States]
         /\ boot'[r] \in {"up", "closed"}
         /\ state'[r] = state[r] \/ state'[r] = "Active"
         /\ \A p \in Ranks : p # r => boot'[p] = boot[p] /\ state'[p] = state[p]
<1>1. CASE BootTo(r, "up") /\ SetState(r, "Active")
  <2>1. "Active" \in States
    BY DEF States
  <2>2. QED
    BY <1>1, <2>1, BootMoves, StateMoves
<1>2. CASE BootTo(r, "closed") /\ UNCHANGED state
  BY <1>2, BootMoves DEF TypeOK
<1>3. QED
  BY <1>1, <1>2 DEF Configured

LEMMA RootReadsKeeps == ContextInvariant /\ RootReads => ContextInvariant'
<1> SUFFICES ASSUME ContextInvariant, RootReads PROVE ContextInvariant'
  OBVIOUS
<1> DEFINE same == Head1(Root).run = run[Root]
           answer == Message(IF same THEN "Accepted" ELSE "Reject", run[Root])
           rest == [inbox EXCEPT ![Root] = Tail(@)]
<1>1. TypeOK /\ Handshake /\ boot[Root] = "start" /\ Heard(Root)
  BY DEF ContextInvariant, RootReads
<1>2. /\ rest \in Inboxes /\ rest[Peer] = inbox[Peer]
      /\ Head1(Root) \in Messages /\ In(Head1(Root), inbox[Root])
      /\ \A p \in Ranks, n \in Messages : In(n, rest[p]) => In(n, inbox[p])
  BY <1>1, RankFacts, ReadFacts
<1>3. same => run[Root] = run[Peer]
  BY <1>1, <1>2 DEF Handshake
<1>4. run[Root] \in Runs /\ answer \in Messages
  BY <1>1, RankFacts, MessageFacts DEF TypeOK
<1>5. answer.run = run[Root] /\ answer # ShutdownMessage
  BY <1>4, MessageFacts
<1>6. inbox' = Written(Root, rest, answer) /\ UNCHANGED <<run, lock, pc, told, bounds>>
  BY DEF RootReads
<1>7. /\ Configured(Root) \/ (BootTo(Root, "closed") /\ UNCHANGED state)
      /\ same \/ BootTo(Root, "closed")
  BY DEF RootReads
<1> HIDE DEF same, answer, rest
<1>8. /\ inbox' \in [Ranks -> Seq(Messages)]
      /\ \A n \in Messages : In(n, inbox'[Root]) => In(n, inbox[Root])
      /\ \A n \in Messages : In(n, inbox'[Peer]) => In(n, inbox[Peer]) \/ n = answer
  <2>1. /\ inbox' \in Inboxes
        /\ \A p \in Ranks, n \in Messages :
             In(n, inbox'[p]) => In(n, rest[p]) \/ (n = answer /\ p = Peer)
    BY <1>2, <1>4, <1>6, RankFacts, WrittenFacts
  <2>2. QED
    BY <1>2, <2>1, RankFacts DEF Inboxes
<1>9. /\ boot' \in [Ranks -> {"start", "reading", "up", "closed"}]
      /\ state' \in [Ranks -> States]
      /\ boot'[Root] \in {"up", "closed"}
      /\ state'[Root] = state[Root] \/ state'[Root] = "Active"
      /\ boot'[Peer] = boot[Peer] /\ state'[Peer] = state[Peer]
  BY <1>1, <1>7, RankFacts, ConfiguredMoves
<1>10. boot'[Root] = "up" => run[Root] = run[Peer]
  BY <1>1, <1>3, <1>7, RankFacts, BootMoves
<1>11. TypeOK'
  BY <1>1, <1>6, <1>8, <1>9 DEF TypeOK, bounds
<1>12. Handshake'
  BY <1>1, <1>5, <1>6, <1>8, <1>9, <1>10, RankFacts DEF Handshake, SameRun, Up, Ranks
<1>13. RankInvariant(Root)' /\ RankInvariant(Peer)'
  BY <1>1, <1>5, <1>6, <1>8, <1>9, RankFacts, MessageFacts, ElsewhereKeepsRank
<1>14. QED
  BY <1>11, <1>12, <1>13 DEF ContextInvariant, Ranks

LEMMA PeerReadsKeeps == ContextInvariant /\ PeerReads => ContextInvariant'
<1> SUFFICES ASSUME ContextInvariant, PeerReads PROVE ContextInvariant'
  OBVIOUS
<1> DEFINE accepted == Head1(Peer).kind = "Accepted" /\ Head1(Peer).run = run[Peer]
<1>1. TypeOK /\ Handshake /\ boot[Peer] = "reading" /\ Heard(Peer)
  BY DEF ContextInvariant, PeerReads
<1>2. /\ inbox' \in [Ranks -> Seq(Messages)]
      /\ Head1(Peer) \in Messages /\ In(Head1(Peer), inbox[Peer])
      /\ \A p \in Ranks, n \in Messages : In(n, inbox'[p]) => In(n, inbox[p])
  BY <1>1, RankFacts, ReadFacts DEF PeerReads, Reading, Inboxes
<1>3. boot[Root] # "start" /\ (accepted => run[Root] = run[Peer])
  BY <1>1, <1>2 DEF Handshake
<1>4. /\ Configured(Peer) \/ (BootTo(Peer, "closed") /\ UNCHANGED state)
      /\ accepted \/ BootTo(Peer, "closed")
      /\ UNCHANGED <<run, lock, pc, told, bounds>>
  BY DEF PeerReads
<1> HIDE DEF accepted
<1>5. /\ boot' \in [Ranks -> {"start", "reading", "up", "closed"}]
      /\ state' \in [Ranks -> States]
      /\ boot'[Peer] \in {"up", "closed"}
      /\ state'[Peer] = state[Peer] \/ state'[Peer] = "Active"
      /\ boot'[Root] = boot[Root] /\ state'[Root] = state[Root]
  BY <1>1, <1>4, RankFacts, ConfiguredMoves
<1>6. boot'[Peer] = "up" => run[Root] = run[Peer]
  BY <1>1, <1>3, <1>4, RankFacts, BootMoves
<1>7. TypeOK'
  BY <1>1, <1>2, <1>4, <1>5 DEF TypeOK, bounds
<1>8. Handshake'
  BY <1>1, <1>2, <1>3, <1>4, <1>5, <1>6, RankFacts DEF Handshake, SameRun, Up, Ranks
<1>9. RankInvariant(Root)' /\ RankInvariant(Peer)'
  BY <1>1, <1>2, <1>4, <1>5, RankFacts, MessageFacts, ElsewhereKeepsRank
<1>10. QED
  BY <1>7, <1>8, <1>9 DEF ContextInvariant, Ranks

\* A rank that gives up, dies, or is invalidated.
LEMMA LossKeeps ==
  ASSUME ContextInvariant, NEW r \in Ranks, BootFails(r) \/ Die(r) \/ Invalidate(r)
  PROVE  ContextInvariant'
<1>1. TypeOK /\ Handshake
  BY DEF ContextInvariant
<1>2. /\ UNCHANGED <<run, inbox, lock, pc, told>> /\ calls' = calls
      /\ faults' = faults \/ faults' = faults + 1
  BY DEF BootFails, Die, Invalidate, Fault, bounds, wire
<1>3. /\ boot' \in [Ranks -> {"start", "reading", "up", "closed"}]
      /\ state' \in [Ranks -> States]
      /\ \A p \in Ranks : boot'[p] = boot[p] \/ boot'[p] = "closed"
      /\ \A p \in Ranks : state'[p] = state[p] \/ state'[p] = "Failed"
  <2>1. CASE BootTo(r, "closed") /\ UNCHANGED state
    BY <1>1, <2>1, BootMoves DEF TypeOK
  <2>2. CASE boot' = boot /\ SetState(r, "Failed")
    <3>1. "Failed" \in States
      BY DEF States
    <3>2. QED
      BY <1>1, <2>2, <3>1, StateMoves DEF TypeOK
  <2>3. QED
    BY <2>1, <2>2 DEF BootFails, Die, Invalidate, wire
<1>4. TypeOK'
  BY <1>1, <1>2, <1>3 DEF TypeOK
<1>5. Handshake'
  BY <1>1, <1>2, <1>3, RankFacts DEF Handshake, SameRun, Up
<1>6. \A p \in Ranks : RankInvariant(p)'
  BY <1>2, <1>3, ElsewhereKeepsRank
<1>7. QED
  BY <1>4, <1>5, <1>6 DEF ContextInvariant

----------------------------------------------------------------------------
(* The theorems.                                                           *)

LEMMA InvariantStep == ContextInvariant /\ [Next]_vars => ContextInvariant'
<1>1. CASE UNCHANGED vars
  BY <1>1 DEF vars, wire, bounds, ContextInvariant, TypeOK, Handshake, SameRun, Up,
              RankInvariant, Quiet, Heeds, Locked, Exclusive
<1>2. CASE ContextInvariant /\ Boot
  BY <1>2, ConnectKeeps, RootReadsKeeps, PeerReadsKeeps, LossKeeps DEF Boot
<1>3. CASE ContextInvariant /\ \E r \in Ranks : Invalidate(r) \/ Die(r)
  BY <1>3, LossKeeps
<1>4. ASSUME ContextInvariant, NEW r \in Ranks, NEW t \in Threads,
             Abort(r, t) \/ WaitForPeer(r, t) \/ Shutdown(r, t) \/ InCall(r, t)
      PROVE  ContextInvariant'
  <2>1. CallStep(r, t)
    BY <1>4, CallsOrderly, QuietSteps, ReadingSteps, WritingSteps DEF InCall
  <2>2. QED
    BY <1>4, <2>1, CallKeeps
<1>5. QED
  BY <1>1, <1>2, <1>3, <1>4 DEF Next

\* What the messages under way and the steps of the calls stand for, always.
THEOREM Lifecycle == Spec => []ContextInvariant
BY InvariantInit, InvariantStep, PTL DEF Spec

\* Every variable of the context keeps its shape.
THEOREM TypeCorrect == Spec => []TypeOK
<1>1. ContextInvariant => TypeOK
  BY DEF ContextInvariant
<1>2. QED
  BY <1>1, Lifecycle, PTL

\* A rank that comes up has met a rank of its own run: rank 0 compared the hello
\* (RootReads), rank 1 the acceptance (PeerReads).
THEOREM RunsMatch == Spec => []SameRun
<1>1. ContextInvariant => SameRun
  BY DEF ContextInvariant, Handshake
<1>2. QED
  BY <1>1, Lifecycle, PTL

\* A rank reports Shutdown only when the other rank wrote its own (ShutdownReads,
\* WaitReads), for any number of threads that call on either side.
THEOREM ShutdownMutual == Spec => []ShutdownAcknowledged
<1>1. ContextInvariant => ShutdownAcknowledged
  BY DEF ContextInvariant, RankInvariant, Heeds, ShutdownAcknowledged
<1>2. QED
  BY <1>1, Lifecycle, PTL

\* One clone at a time runs the shutdown exchange, with the lock while it waits for
\* the answer.
THEOREM ShutdownOnce == Spec => []OneShutdown
<1>1. ContextInvariant => OneShutdown
  BY DEF ContextInvariant, RankInvariant, Locked, Exclusive, OneShutdown, WithLock, InShutdown
<1>2. QED
  BY <1>1, Lifecycle, PTL
=============================================================================
