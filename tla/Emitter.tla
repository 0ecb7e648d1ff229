------------------------------ MODULE Emitter ------------------------------
(***************************************************************************)
(* The telemetry emitter: training threads put events on two bounded       *)
(* channels, a writer thread drains them into the transports.  The bulk    *)
(* lane drops its oldest event when it is full, the priority lane makes    *)
(* the sender wait for a moment.  Dropping the emitter closes both lanes   *)
(* and joins the writer.  One step is one operation on a channel; an event *)
(* is named by its sender and number.                                      *)
(***************************************************************************)
EXTENDS Naturals, FiniteSets, Sequences, SequencesExt

CONSTANTS
  Producers,    \* threads that share the emitter
  BulkCap,      \* BULK_CAP
  PriorityCap,  \* PRIORITY_CAP
  Batch,        \* BULK_DRAIN_BATCH
  MaxEvents     \* BOUND: events of each producer

ASSUME CapsAssumption ==
  BulkCap \in Nat \ {0} /\ PriorityCap \in Nat \ {0} /\ Batch \in Nat \ {0} /\ MaxEvents \in Nat

VARIABLES
  bulk, priority,  \* the channels
  sent,            \* producer -> events it has started to send
  sending,         \* producer -> "idle", "evict", "retry" or "wait"
  dropped,         \* dropped_count
  owner,           \* of the emitter: "open", "closing", "joining" or "joined"
  writer,          \* the writer's place in its loop
  drained,         \* bulk events written in this iteration
  gone,            \* the lanes this iteration saw disconnected
  written,         \* history: the events handed to the transports
  lost,            \* history: bulk events that were taken out or given up
  refused,         \* history: priority events given up, by a sender or with the writer
  overtaken        \* history: bulk events written while a priority event waited

channels == <<bulk, priority>>
history == <<lost, refused, overtaken>>
thread == <<writer, drained, gone>>
emitterVars == <<channels, sent, sending, dropped, owner, thread, written, history>>

Lanes == {"bulk", "priority"}
WriterPlaces == {"priority", "bulk", "check", "idle", "ended", "dead"}
Events == [by : Producers, n : 1..MaxEvents, lane : Lanes]

EmitterInit ==
  /\ bulk = <<>> /\ priority = <<>> /\ written = {}
  /\ sent = [p \in Producers |-> 0] /\ sending = [p \in Producers |-> "idle"]
  /\ dropped = 0 /\ owner = "open"
  /\ writer = "priority" /\ drained = 0 /\ gone = {}
  /\ lost = {} /\ refused = {} /\ overtaken = 0

\* The event p is sending.
Event(p, lane) == [by |-> p, n |-> sent[p], lane |-> lane]
NewEvent(p, lane) == [Event(p, lane) EXCEPT !.n = @ + 1]
Goes(p, place) == sending' = [sending EXCEPT ![p] = place]
Running == writer \notin {"ended", "dead"}

-----------------------------------------------------------------------------
(* The training threads                                                    *)

\* A call starts while the emitter is still borrowed.
Start(p) ==
  /\ sending[p] = "idle" /\ owner = "open" /\ sent[p] < MaxEvents
  /\ sent' = [sent EXCEPT ![p] = @ + 1]

\* send_bulk, first try_send.  The emitter keeps a receiver of this lane, so
\* it never disconnects.
SendBulk(p) ==
  /\ Start(p) /\ Len(bulk) < BulkCap
  /\ bulk' = Append(bulk, NewEvent(p, "bulk"))
  /\ UNCHANGED <<priority, sending, dropped, owner, thread, written, history>>

\* Mutant: the drop is not counted.
FoundFullUncounted(p) ==
  /\ Start(p) /\ Len(bulk) = BulkCap
  /\ Goes(p, "evict")
  /\ UNCHANGED <<channels, dropped, owner, thread, written, history>>

FoundFull(p) ==
  /\ Start(p) /\ Len(bulk) = BulkCap
  /\ dropped' = dropped + 1
  /\ Goes(p, "evict")
  /\ UNCHANGED <<channels, owner, thread, written, history>>

\* The oldest queued event goes, if the writer has left one.
Evict(p) ==
  /\ sending[p] = "evict"
  /\ IF bulk = <<>> THEN UNCHANGED <<bulk, lost>>
                    ELSE bulk' = Tail(bulk) /\ lost' = lost \cup {Head(bulk)}
  /\ Goes(p, "retry")
  /\ UNCHANGED <<priority, sent, dropped, owner, thread, written, refused, overtaken>>

\* The second try_send, whatever comes of it.
Retry(p) ==
  /\ sending[p] = "retry"
  /\ IF Len(bulk) < BulkCap
       THEN bulk' = Append(bulk, Event(p, "bulk")) /\ UNCHANGED lost
       ELSE lost' = lost \cup {Event(p, "bulk")} /\ UNCHANGED bulk
  /\ Goes(p, "idle")
  /\ UNCHANGED <<priority, sent, dropped, owner, thread, written, refused, overtaken>>

SendPriority(p) ==
  /\ Start(p)
  /\ Goes(p, "wait")
  /\ UNCHANGED <<channels, dropped, owner, thread, written, history>>

\* send_timeout finds room...
Queue(p) ==
  /\ sending[p] = "wait" /\ writer # "dead" /\ Len(priority) < PriorityCap
  /\ priority' = Append(priority, Event(p, "priority"))
  /\ Goes(p, "idle")
  /\ UNCHANGED <<bulk, sent, dropped, owner, thread, written, history>>

\* Mutant: a send without a timeout.
GiveUpOnlyWhenDead(p) ==
  /\ sending[p] = "wait" /\ writer = "dead"
  /\ refused' = refused \cup {Event(p, "priority")}
  /\ Goes(p, "idle")
  /\ UNCHANGED <<channels, sent, dropped, owner, thread, written, lost, overtaken>>

\* ... or runs into its timeout, or the writer is dead; nothing is counted.
GiveUp(p) ==
  /\ sending[p] = "wait" /\ (writer = "dead" \/ Len(priority) = PriorityCap)
  /\ refused' = refused \cup {Event(p, "priority")}
  /\ Goes(p, "idle")
  /\ UNCHANGED <<channels, sent, dropped, owner, thread, written, lost, overtaken>>

-----------------------------------------------------------------------------
(* Drop for Emitter: both senders go, then the writer is joined            *)

Close ==
  /\ owner = "open" /\ \A p \in Producers : sending[p] = "idle"
  /\ owner' = "closing"
  /\ UNCHANGED <<channels, sent, sending, dropped, thread, written, history>>

CloseBulk ==
  /\ owner = "closing"
  /\ owner' = "joining"
  /\ UNCHANGED <<channels, sent, sending, dropped, thread, written, history>>

Join ==
  /\ owner = "joining" /\ ~Running
  /\ owner' = "joined"
  /\ UNCHANGED <<channels, sent, sending, dropped, thread, written, history>>

\* Mutant: the writer's own sender keeps the lane open.
ClosedNever(lane) == FALSE
\* All senders of the lane are gone.
Closed(lane) ==
  IF lane = "priority" THEN owner # "open" ELSE owner \in {"joining", "joined"}

-----------------------------------------------------------------------------
(* The writer                                                              *)

Place(place) == writer' = place

\* Priority is drained to the end.
WritePriority ==
  /\ writer = "priority" /\ priority # <<>>
  /\ written' = written \cup {Head(priority)}
  /\ priority' = Tail(priority)
  /\ overtaken' = 0
  /\ UNCHANGED <<bulk, sent, sending, dropped, owner, thread, lost, refused>>

PriorityEmpty ==
  /\ writer = "priority" /\ priority = <<>>
  /\ gone' = {lane \in {"priority"} : Closed(lane)}
  /\ drained' = 0
  /\ Place("bulk")
  /\ UNCHANGED <<channels, sent, sending, dropped, owner, written, history>>

\* Mutant: bulk is drained to the end.
MoreBulkAlways == TRUE
\* At most Batch bulk events before priority is looked at again.
MoreBulk == drained < Batch

WriteBulk ==
  /\ writer = "bulk" /\ bulk # <<>> /\ MoreBulk
  /\ written' = written \cup {Head(bulk)}
  /\ bulk' = Tail(bulk)
  /\ drained' = IF drained < Batch THEN drained + 1 ELSE drained
  /\ overtaken' = IF priority = <<>> THEN 0 ELSE overtaken + 1
  /\ UNCHANGED <<priority, sent, sending, dropped, owner, writer, gone, lost, refused>>

BulkEmpty ==
  /\ writer = "bulk" /\ bulk = <<>> /\ MoreBulk
  /\ gone' = gone \cup {lane \in {"bulk"} : Closed(lane)}
  /\ Place("check")
  /\ UNCHANGED <<channels, drained, sent, sending, dropped, owner, written, history>>

BatchDone ==
  /\ writer = "bulk" /\ ~MoreBulk
  /\ Place("check")
  /\ UNCHANGED <<channels, drained, gone, sent, sending, dropped, owner, written, history>>

\* Mutant: one disconnected lane is enough.
FinishedEither == gone # {}
Finished == gone = Lanes

Check ==
  /\ writer = "check"
  /\ Place(IF Finished THEN "ended" ELSE "idle")
  /\ UNCHANGED <<channels, drained, gone, sent, sending, dropped, owner, written, history>>

\* ready_timeout returns, with something ready or without.
Idle ==
  /\ writer = "idle"
  /\ Place("priority")
  /\ UNCHANGED <<channels, drained, gone, sent, sending, dropped, owner, written, history>>

\* A transport panics in the middle of a write: the thread is gone with its
\* receivers, and what is left in the priority lane with them.
WriterPanics ==
  /\ writer \in {"priority", "bulk"} /\ written # {}
  /\ Place("dead")
  /\ priority' = <<>>
  /\ refused' = refused \cup ToSet(priority)
  /\ UNCHANGED <<bulk, drained, gone, sent, sending, dropped, owner, written, lost, overtaken>>

Write ==
  \/ WritePriority \/ PriorityEmpty \/ WriteBulk \/ BulkEmpty \/ BatchDone
  \/ Check \/ Idle

Continue(p) == Evict(p) \/ Retry(p) \/ Queue(p) \/ GiveUp(p)

EmitterNext ==
  \/ Write \/ WriterPanics
  \/ Close \/ CloseBulk \/ Join
  \/ \E p \in Producers :
       SendBulk(p) \/ FoundFull(p) \/ SendPriority(p) \/ Continue(p)

EmitterSpec == EmitterInit /\ [][EmitterNext]_emitterVars

\* A call that has started goes on, on its own thread.
CallsGoOn == \A p \in Producers : WF_emitterVars(Continue(p))

\* The transports' writes return and drop goes on: what a shutdown relies on.
WriterGoesOn == WF_emitterVars(Write) /\ WF_emitterVars(CloseBulk) /\ WF_emitterVars(Join)

EmitterFairSpec == EmitterSpec /\ CallsGoOn

-----------------------------------------------------------------------------
(* Properties                                                              *)

\* Every variable has its type.
EmitterTypeOK ==
  /\ bulk \in Seq(Events) /\ Len(bulk) <= BulkCap
  /\ priority \in Seq(Events) /\ Len(priority) <= PriorityCap
  /\ sent \in [Producers -> 0..MaxEvents]
  /\ sending \in [Producers -> {"idle", "evict", "retry", "wait"}]
  /\ dropped \in Nat /\ drained \in 0..Batch /\ overtaken \in Nat
  /\ owner \in {"open", "closing", "joining", "joined"}
  /\ writer \in WriterPlaces /\ gone \subseteq Lanes
  /\ {written, lost, refused} \subseteq SUBSET Events

\* The calls that have returned, and those whose event no transport has seen or
\* will see, though it was not refused.
Returned ==
  {c \in Producers \X (1..MaxEvents) :
     c[2] <= sent[c[1]] /\ (sending[c[1]] # "idle" => c[2] < sent[c[1]])}
Delivered == written \cup (IF Running THEN ToSet(bulk) \cup ToSet(priority) ELSE {})
Unseen == {c \in Returned : ~ \E e \in Delivered \cup refused : e.by = c[1] /\ e.n = c[2]}

\* What a viewer may conclude from dropped_count: every bulk event whose call
\* returned was written or is queued for a running writer, but for at most two
\* losses for each drop counted (the evicted event, and the new one when another
\* thread took the room) and, once a transport has panicked, the one lane of
\* events that may be left in the channel, which nothing counts.
LossIsCounted ==
  Cardinality(Unseen) <= 2 * dropped + (IF writer = "dead" THEN BulkCap ELSE 0)

\* When shutdown returns, and no transport has panicked, nothing is left in
\* the lanes: every event was written, or dropped, or refused.
ShutdownFlushes ==
  owner = "joined" /\ writer = "ended" =>
    /\ written \cap (lost \cup refused) = {}
    /\ \A p \in Producers : \A n \in 1..sent[p] :
         \E e \in written \cup lost \cup refused : e.by = p /\ e.n = n

\* A waiting priority event sees at most one batch of bulk events go first,
\* however fast the training threads fill the bulk lane.
PriorityNotStarved == overtaken <= Batch

\* A training thread's call returns whether or not the writer ever moves; and
\* shutdown returns when the transports do, even after a panic of one.
CallsReturn ==
  /\ \A p \in Producers : sending[p] # "idle" ~> sending[p] = "idle"
  /\ WriterGoesOn => (owner # "open" ~> owner = "joined")
=============================================================================
