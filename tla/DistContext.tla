---------------------------- MODULE DistContext ----------------------------
(***************************************************************************)
(* The distributed context of a two-rank run: rank 0 listens and rank 1    *)
(* connects, they compare run identities over TCP, and from then on each   *)
(* has an atomic lifecycle state that all its clones and its communicator  *)
(* share, and one control socket behind a lock.  Clones are used by        *)
(* several threads.  A socket end closes when its process ends.            *)
(***************************************************************************)
EXTENDS Naturals, Sequences, FiniteSets, Functions

CONSTANTS
  Runs,       \* run identities ranks may be launched with
  Threads,    \* threads of a rank
  MaxCalls,   \* bound: calls of abort, wait_for_peer and shutdown
  MaxFaults   \* bound: deaths and communicator failures

ASSUME BoundAssumption == {MaxCalls, MaxFaults} \subseteq Nat

VARIABLES
  run,     \* the identity each rank was launched with
  boot,    \* rendezvous: "start", "reading" or "up"; "closed" when the socket is gone
  inbox,   \* messages a rank has still to read
  state,   \* DistributedContextHandle::state
  lock,    \* who holds the control lock
  pc,      \* each thread's step
  told,    \* history: the ranks that wrote a Shutdown message
  calls, faults  \* counters of the bounds

wire == <<run, boot>>
bounds == <<calls, faults>>
vars == <<wire, inbox, state, lock, pc, told, bounds>>

Root == 0
Peer == 1
Ranks == {Root, Peer}
Other(r) == 1 - r
Nobody == "nobody"
ASSUME ThreadsAssumption == Nobody \notin Threads

Message(kind, id) == [kind |-> kind, run |-> id]
NoRun == "none"
ShutdownMessage == Message("Shutdown", NoRun)
AbortMessage == Message("Abort", NoRun)

Init ==
  /\ run \in [Ranks -> Runs]
  /\ boot = [r \in Ranks |-> "start"]
  /\ inbox = [r \in Ranks |-> <<>>]
  /\ state = [r \in Ranks |-> "None"]
  /\ lock = [r \in Ranks |-> Nobody]
  /\ pc = [r \in Ranks |-> [t \in Threads |-> "idle"]]
  /\ told = {}
  /\ calls = 0 /\ faults = 0

Gone(r) == boot[r] = "closed"
Head1(r) == Head(inbox[r])
Heard(r) == inbox[r] # <<>>

\* Nothing is read: the deadline elapses, or the other end was closed and the
\* connection is reset, which may lose what was written before.
Silence(r) == inbox[r] = <<>> \/ Gone(Other(r))

Reading(r) == inbox' = [inbox EXCEPT ![r] = Tail(@)]

\* write_all; what is written to a closed end is lost.
Written(r, in, message) ==
  IF Gone(Other(r)) THEN in ELSE [in EXCEPT ![Other(r)] = Append(@, message)]

\* A write fails only against a closed end, and not always then.
MayFail(r) == Gone(Other(r))

SetState(r, value) == state' = [state EXCEPT ![r] = value]

----------------------------------------------------------------------------
(* rendezvous                                                              *)

BootTo(r, stage) == boot' = [boot EXCEPT ![r] = stage]

\* connect_until succeeds while rank 0 listens; the hello is written.
Connect ==
  /\ boot[Peer] = "start" /\ boot[Root] = "start"
  /\ inbox' = [inbox EXCEPT ![Root] = Append(@, Message("Hello", run[Peer]))]
  /\ BootTo(Peer, "reading")
  /\ UNCHANGED <<run, state, lock, pc, told, bounds>>

\* The last configuration of the socket may fail after the messages.
Configured(r) ==
  \/ BootTo(r, "up") /\ SetState(r, "Active")
  \/ BootTo(r, "closed") /\ UNCHANGED state

\* Rank 0 accepts, reads the hello, and accepts or rejects the run.
RootReads ==
  /\ boot[Root] = "start" /\ Heard(Root)
  /\ LET same == Head1(Root).run = run[Root]
         answer == Message(IF same THEN "Accepted" ELSE "Reject", run[Root])
         rest == [inbox EXCEPT ![Root] = Tail(@)]
     IN  /\ inbox' = Written(Root, rest, answer)
         /\ \/ same /\ Configured(Root)
            \/ ~same /\ BootTo(Root, "closed") /\ UNCHANGED state
  /\ UNCHANGED <<run, lock, pc, told, bounds>>

PeerReads ==
  /\ boot[Peer] = "reading" /\ Heard(Peer)
  /\ Reading(Peer)
  /\ LET accepted == Head1(Peer).kind = "Accepted" /\ Head1(Peer).run = run[Peer]
     IN  \/ accepted /\ Configured(Peer)
         \/ ~accepted /\ BootTo(Peer, "closed") /\ UNCHANGED state
  /\ UNCHANGED <<run, lock, pc, told, bounds>>

\* accept_until, connect_until or read_startup gives up, or the socket fails;
\* a deadline of rank 0 may elapse when rank 1 has just connected.
BootFails(r) ==
  /\ boot[r] \in {"start", "reading"}
  /\ BootTo(r, "closed")
  /\ UNCHANGED <<run, inbox, state, lock, pc, told, bounds>>

----------------------------------------------------------------------------
(* The lifecycle calls.                                                    *)

Up(r) == boot[r] = "up"
At(r, t, label) == Up(r) /\ pc[r][t] = label
Goto(r, t, label) == pc' = [pc EXCEPT ![r][t] = label]
Free(r) == lock[r] = Nobody
Acquire(r, t) == Free(r) /\ lock' = [lock EXCEPT ![r] = t]
Unlock(r) == lock' = [lock EXCEPT ![r] = Nobody]
Call(r, t) == At(r, t, "idle") /\ calls < MaxCalls /\ calls' = calls + 1

\* abort invalidates first, and then waits for the lock.
Abort(r, t) ==
  /\ Call(r, t)
  /\ SetState(r, "Failed")
  /\ Goto(r, t, "abort")
  /\ UNCHANGED <<wire, inbox, lock, told, faults>>

AbortSends(r, t) ==
  /\ At(r, t, "abort") /\ Free(r)
  /\ \/ inbox' = Written(r, inbox, AbortMessage) /\ UNCHANGED state
     \/ MayFail(r) /\ SetState(r, "Failed") /\ UNCHANGED inbox
  /\ Goto(r, t, "idle")
  /\ UNCHANGED <<wire, lock, told, bounds>>

\* wait_for_peer holds the lock while it reads.
WaitForPeer(r, t) ==
  /\ Call(r, t)
  /\ Acquire(r, t)
  /\ Goto(r, t, "read")
  /\ UNCHANGED <<wire, inbox, state, told, faults>>

\* Mutant: an abort is not an error, as if the peer were only leaving.
WaitIgnoresAbort(r, t) ==
  /\ At(r, t, "read") /\ Heard(r)
  /\ Reading(r)
  /\ \/ /\ Head1(r) = ShutdownMessage
        /\ Goto(r, t, "answer") /\ UNCHANGED <<state, lock>>
     \/ /\ Head1(r) # ShutdownMessage
        /\ Unlock(r) /\ Goto(r, t, "idle") /\ UNCHANGED state
  /\ UNCHANGED <<wire, told, bounds>>

WaitReads(r, t) ==
  /\ At(r, t, "read") /\ Heard(r)
  /\ Reading(r)
  /\ \/ /\ Head1(r) = ShutdownMessage
        /\ Goto(r, t, "answer") /\ UNCHANGED <<state, lock>>
     \/ /\ Head1(r) # ShutdownMessage
        /\ SetState(r, "Failed") /\ Unlock(r) /\ Goto(r, t, "idle")
  /\ UNCHANGED <<wire, told, bounds>>

\* Mutant: the control socket has no read deadline.
WaitFailsIfClosed(r, t) ==
  /\ At(r, t, "read") /\ Gone(Other(r))
  /\ SetState(r, "Failed") /\ Unlock(r) /\ Goto(r, t, "idle")
  /\ UNCHANGED <<wire, inbox, told, bounds>>

WaitFails(r, t) ==
  /\ At(r, t, "read") /\ Silence(r)
  /\ SetState(r, "Failed") /\ Unlock(r) /\ Goto(r, t, "idle")
  /\ UNCHANGED <<wire, inbox, told, bounds>>

WaitAnswers(r, t) ==
  /\ At(r, t, "answer")
  /\ \/ /\ inbox' = Written(r, inbox, ShutdownMessage) /\ told' = told \cup {r}
        /\ Goto(r, t, "answered") /\ UNCHANGED <<state, lock>>
     \/ /\ MayFail(r)
        /\ SetState(r, "Failed") /\ Unlock(r) /\ Goto(r, t, "idle")
        /\ UNCHANGED <<inbox, told>>
  /\ UNCHANGED <<wire, bounds>>

WaitStores(r, t) ==
  /\ At(r, t, "answered")
  /\ SetState(r, "Shutdown") /\ Unlock(r) /\ Goto(r, t, "idle")
  /\ UNCHANGED <<wire, inbox, told, bounds>>

\* The compare-and-exchange of shutdown; in any other state it only returns.
Shutdown(r, t) ==
  /\ Call(r, t)
  /\ state[r] = "Active"
  /\ SetState(r, "ShuttingDown")
  /\ Goto(r, t, "shutdown")
  /\ UNCHANGED <<wire, inbox, lock, told, faults>>

ShutdownSends(r, t) ==
  /\ At(r, t, "shutdown") /\ Free(r)
  /\ \/ /\ inbox' = Written(r, inbox, ShutdownMessage) /\ told' = told \cup {r}
        /\ Acquire(r, t) /\ Goto(r, t, "await")
     \/ MayFail(r) /\ Goto(r, t, "fail") /\ UNCHANGED <<inbox, told, lock>>
  /\ UNCHANGED <<wire, state, bounds>>

\* Mutant: any answer counts as the acknowledgement.
ShutdownReadsAny(r, t) ==
  /\ At(r, t, "await") /\ Heard(r)
  /\ Reading(r) /\ Unlock(r)
  /\ Goto(r, t, "store")
  /\ UNCHANGED <<wire, state, told, bounds>>

\* The lock is released before the outcome is stored.
ShutdownReads(r, t) ==
  /\ At(r, t, "await") /\ Heard(r)
  /\ Reading(r) /\ Unlock(r)
  /\ Goto(r, t, IF Head1(r) = ShutdownMessage THEN "store" ELSE "fail")
  /\ UNCHANGED <<wire, state, told, bounds>>

ShutdownHearsNothing(r, t) ==
  /\ At(r, t, "await") /\ Silence(r)
  /\ Unlock(r) /\ Goto(r, t, "fail")
  /\ UNCHANGED <<wire, inbox, state, told, bounds>>

ShutdownStores(r, t) ==
  /\ At(r, t, "store")
  /\ SetState(r, "Shutdown") /\ Goto(r, t, "idle")
  /\ UNCHANGED <<wire, inbox, lock, told, bounds>>

ShutdownFails(r, t) ==
  /\ At(r, t, "fail")
  /\ SetState(r, "Failed") /\ Goto(r, t, "idle")
  /\ UNCHANGED <<wire, inbox, lock, told, bounds>>

----------------------------------------------------------------------------
(* Faults.                                                                 *)

Fault == faults < MaxFaults /\ faults' = faults + 1

\* A communicator invalidates the handle after an error of its own.
Invalidate(r) ==
  /\ Fault /\ Up(r)
  /\ SetState(r, "Failed")
  /\ UNCHANGED <<wire, inbox, lock, pc, told, calls>>

\* The process ends: its socket end is closed.
Die(r) ==
  /\ Fault /\ ~Gone(r)
  /\ BootTo(r, "closed")
  /\ UNCHANGED <<run, inbox, state, lock, pc, told, calls>>

InCall(r, t) ==
  \/ AbortSends(r, t)
  \/ WaitReads(r, t) \/ WaitFails(r, t) \/ WaitAnswers(r, t) \/ WaitStores(r, t)
  \/ ShutdownSends(r, t) \/ ShutdownReads(r, t) \/ ShutdownHearsNothing(r, t)
  \/ ShutdownStores(r, t) \/ ShutdownFails(r, t)

Boot == Connect \/ RootReads \/ PeerReads \/ \E r \in Ranks : BootFails(r)

Next ==
  \/ Boot
  \/ \E r \in Ranks : Invalidate(r) \/ Die(r)
  \/ \E r \in Ranks, t \in Threads :
       Abort(r, t) \/ WaitForPeer(r, t) \/ Shutdown(r, t) \/ InCall(r, t)

Spec == Init /\ [][Next]_vars

\* Threads keep running and every socket operation has a deadline.
FairSpec ==
  /\ Spec
  /\ WF_vars(Boot)
  /\ \A r \in Ranks, t \in Threads : WF_vars(InCall(r, t))

----------------------------------------------------------------------------
(* Properties                                                              *)

States == {"None", "Active", "ShuttingDown", "Shutdown", "Failed"}
Steps == {"idle", "abort", "read", "answer", "answered",
          "shutdown", "await", "store", "fail"}
Messages ==
  [kind: {"Hello", "Accepted", "Reject"}, run: Runs] \cup {ShutdownMessage, AbortMessage}

\* The shape of every variable.
TypeOK ==
  /\ run \in [Ranks -> Runs]
  /\ boot \in [Ranks -> {"start", "reading", "up", "closed"}]
  /\ inbox \in [Ranks -> Seq(Messages)]
  /\ state \in [Ranks -> States]
  /\ lock \in [Ranks -> Threads \cup {Nobody}]
  /\ pc \in [Ranks -> [Threads -> Steps]]
  /\ told \subseteq Ranks
  /\ calls \in Nat /\ faults \in Nat

\* A rank that comes up has met a rank of its own run.
SameRun == \A r \in Ranks : Up(r) => run[Root] = run[Peer]

\* Shutdown means that both ranks acknowledged it, whatever calls of whatever
\* clones raced for the lock, the answers and the state.
ShutdownAcknowledged == \A r \in Ranks : Up(r) /\ state[r] = "Shutdown" => Other(r) \in told

\* At most one clone runs the shutdown exchange, and nobody reads its answer.
OneShutdown ==
  \A r \in Ranks, t, u \in Threads :
    /\ pc[r][t] \in {"shutdown", "await", "store", "fail"} /\ t # u
         => pc[r][u] \notin {"shutdown", "await", "store", "fail"}
    /\ pc[r][t] = "await" => lock[r] = t

\* Every call returns: a peer that is silent or gone, or a clone that sits on
\* the control lock, holds nobody up for good.
CallsReturn ==
  \A r \in Ranks, t \in Threads : Up(r) /\ pc[r][t] # "idle" ~> ~Up(r) \/ pc[r][t] = "idle"

\* A rank that waits for its peer stops working once the peer has aborted or died.
PeerLossNoticed ==
  \A r \in Ranks, t \in Threads :
    At(r, t, "read") /\ (Gone(Other(r)) \/ AbortMessage \in Range(inbox[r]))
      ~> state[r] # "Active" \/ Gone(r)
=============================================================================
