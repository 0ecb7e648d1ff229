----------------------------- MODULE DataLoader -----------------------------
(***************************************************************************)
(* One epoch of the data loader.  Workers take batch numbers from a shared *)
(* iterator, read and collate the samples, and send the result through a   *)
(* bounded channel.  The consumer's next() puts the results back in order; *)
(* dropping the iterator cancels and joins the workers.  With no workers,  *)
(* next() does the work itself.                                            *)
(*                                                                         *)
(* A batch comes to "ok", "read" (Dataset::get failed, panicked or found   *)
(* nothing), "collate" (collating failed or panicked) or "lost" (a panic   *)
(* outside catch_unwind, as of Dataset::len, which kills the thread).      *)
(***************************************************************************)
EXTENDS Naturals, Sequences, FiniteSets

CONSTANTS
  Threads,     \* the threads workers may run on
  Total,       \* batches of the epoch
  Prefetch,    \* capacity of the channel
  MayTimeOut   \* whether DataLoader::timeout is set

ASSUME ThreadsAssumption == IsFiniteSet(Threads)
ASSUME NumbersAssumption == Total \in Nat /\ Prefetch \in Nat \ {0}
ASSUME TimeoutAssumption == MayTimeOut \in BOOLEAN

VARIABLES
  workers,       \* the workers of this loader; none means next() does the work
  outcome,       \* what each batch comes to
  iter,          \* the next batch number of the shared iterator
  cancel,        \* the cancel flag
  chan,          \* results in the channel: batch numbers
  open,          \* whether the receiver still exists
  pc, batch,     \* each worker: its step and its batch
  phase,         \* the consumer: "idle", "recv", "joining" or "dropped"
  pending,       \* results that came early
  nextSequence,  \* the batch next() has to yield
  terminated,    \* next() yielded an error
  stream,        \* EpochBatches: the batches it yielded, next_batch of them
  verdict        \* EpochBatches: the EpochError it yielded

workerVars == <<iter, pc, batch>>
consumerVars == <<phase, pending, nextSequence, terminated, stream, verdict>>
config == <<workers, outcome>>
vars == <<config, cancel, chan, open, workerVars, consumerVars>>

Numbers == 0..Total - 1
Reported == {"read", "collate"}
Failures == Reported \cup {"lost"}
None == [batch |-> 0, failure |-> "none"]
Verdict(number, failure) == [batch |-> number, failure |-> failure]
Answers(number) == outcome[number] # "lost"

Init ==
  /\ workers \in SUBSET Threads
  /\ outcome \in [Numbers -> {"ok"} \cup Failures]
  /\ iter = 0 /\ cancel = FALSE
  /\ chan = <<>> /\ open = TRUE
  /\ pc = [w \in workers |-> "loop"] /\ batch = [w \in workers |-> 0]
  /\ phase = "idle" /\ pending = {} /\ nextSequence = 0 /\ terminated = FALSE
  /\ stream = <<>> /\ verdict = None

----------------------------------------------------------------------------
(* A worker.                                                               *)

Goto(w, label) == pc' = [pc EXCEPT ![w] = label]

CheckCancel(w) ==
  /\ pc[w] = "loop"
  /\ Goto(w, IF cancel THEN "done" ELSE "take")
  /\ UNCHANGED <<config, cancel, chan, open, iter, batch, consumerVars>>

\* Iterator::next under the lock.
Take(w) ==
  /\ pc[w] = "take" /\ iter < Total
  /\ batch' = [batch EXCEPT ![w] = iter]
  /\ iter' = iter + 1
  /\ Goto(w, "send")
  /\ UNCHANGED <<config, cancel, chan, open, consumerVars>>

Exhausted(w) ==
  /\ pc[w] = "take" /\ iter >= Total
  /\ Goto(w, "done")
  /\ UNCHANGED <<config, cancel, chan, open, iter, batch, consumerVars>>

\* The batch is read and collated, and the result fits the channel.  A worker
\* whose dataset failed stops; one whose collation failed carries on.
Send(w) ==
  /\ pc[w] = "send" /\ Answers(batch[w]) /\ open /\ Len(chan) < Prefetch
  /\ chan' = Append(chan, batch[w])
  /\ Goto(w, IF outcome[batch[w]] = "read" THEN "flag" ELSE "loop")
  /\ UNCHANGED <<config, cancel, open, iter, batch, consumerVars>>

\* Mutant: only the cancel flag ends a blocked send.
SendFailsIfTold(w) ==
  /\ pc[w] = "send" /\ Answers(batch[w]) /\ ~open /\ cancel
  /\ Goto(w, "done")
  /\ UNCHANGED <<config, cancel, chan, open, iter, batch, consumerVars>>

\* The receiver is gone: send returns an error at once.
SendFails(w) ==
  /\ pc[w] = "send" /\ Answers(batch[w]) /\ ~open
  /\ Goto(w, IF outcome[batch[w]] = "read" THEN "flag" ELSE "done")
  /\ UNCHANGED <<config, cancel, chan, open, iter, batch, consumerVars>>

\* The thread dies with its batch; nobody is told.
Lost(w) ==
  /\ pc[w] = "send" /\ ~Answers(batch[w])
  /\ Goto(w, "done")
  /\ UNCHANGED <<config, cancel, chan, open, iter, batch, consumerVars>>

Flag(w) ==
  /\ pc[w] = "flag"
  /\ cancel' = TRUE
  /\ Goto(w, "done")
  /\ UNCHANGED <<config, chan, open, iter, batch, consumerVars>>

Worker(w) ==
  CheckCancel(w) \/ Take(w) \/ Exhausted(w) \/ Send(w) \/ SendFails(w) \/ Lost(w) \/ Flag(w)

----------------------------------------------------------------------------
(* The consumer: EpochBatches::next over DataLoaderIter::next.             *)

\* next() returns batch n, in the slot that was due.
Yield(n) ==
  IF outcome[n] = "ok"
  THEN stream' = Append(stream, n) /\ UNCHANGED verdict
  ELSE verdict' = Verdict(Len(stream), outcome[n]) /\ UNCHANGED stream

\* The receiver goes away with what is in the channel.
Close == open' = FALSE /\ chan' = <<>>

\* An error ends the epoch and stops the workers.
YieldDue(n, rest) ==
  /\ Yield(n)
  /\ nextSequence' = nextSequence + 1
  /\ IF outcome[n] = "ok"
     THEN chan' = rest /\ UNCHANGED <<cancel, open, terminated>>
     ELSE terminated' = TRUE /\ cancel' = TRUE /\ Close

Due == ~terminated /\ nextSequence < Total

SyncNext ==
  /\ workers = {} /\ phase = "idle" /\ Due /\ Answers(nextSequence)
  /\ Yield(nextSequence)
  /\ nextSequence' = nextSequence + 1
  /\ terminated' = (outcome[nextSequence] # "ok")
  /\ UNCHANGED <<config, cancel, chan, open, workerVars, phase, pending>>

\* The panic reaches the caller, whose frame drops the iterator.
SyncPanics ==
  /\ workers = {} /\ phase = "idle" /\ Due /\ ~Answers(nextSequence)
  /\ phase' = "dropped"
  /\ UNCHANGED <<config, cancel, chan, open, workerVars, pending, nextSequence,
                 terminated, stream, verdict>>

NextFromPending ==
  /\ workers # {} /\ phase = "idle" /\ Due
  /\ nextSequence \in pending
  /\ pending' = pending \ {nextSequence}
  /\ YieldDue(nextSequence, chan)
  /\ UNCHANGED <<config, workerVars, phase>>

NextWaits ==
  /\ workers # {} /\ phase = "idle" /\ Due
  /\ nextSequence \notin pending
  /\ phase' = "recv"
  /\ UNCHANGED <<config, cancel, chan, open, workerVars, pending, nextSequence,
                 terminated, stream, verdict>>

\* Mutant: batches are yielded as they arrive.
ReceiveAny ==
  /\ phase = "recv" /\ chan # <<>>
  /\ YieldDue(Head(chan), Tail(chan))
  /\ phase' = "idle"
  /\ UNCHANGED <<config, workerVars, pending>>

ReceiveDue ==
  /\ phase = "recv" /\ chan # <<>> /\ Head(chan) = nextSequence
  /\ YieldDue(nextSequence, Tail(chan))
  /\ phase' = "idle"
  /\ UNCHANGED <<config, workerVars, pending>>

\* The look at the reorder buffer that follows finds nothing: next() looked there
\* before it began to receive.
ReceiveEarly ==
  /\ phase = "recv" /\ chan # <<>> /\ Head(chan) # nextSequence
  /\ pending' = pending \cup {Head(chan)}
  /\ chan' = Tail(chan)
  /\ UNCHANGED <<config, cancel, open, workerVars, phase, nextSequence, terminated,
                 stream, verdict>>

\* recv fails: the receiver is dropped, the cancel flag is not set.
ReceiveFails(failure) ==
  /\ phase = "recv" /\ chan = <<>>
  /\ verdict' = Verdict(Len(stream), failure)
  /\ terminated' = TRUE
  /\ Close
  /\ phase' = "idle"
  /\ UNCHANGED <<config, cancel, workerVars, pending, nextSequence, stream>>

ReceiveTimesOut == MayTimeOut /\ ReceiveFails("timeout")

ReceiveDisconnected ==
  (\A w \in workers : pc[w] = "done") /\ ReceiveFails("disconnected")

\* Mutant: the receiver lives until the workers are joined.
DropKeepsReceiver ==
  /\ phase = "idle"
  /\ cancel' = TRUE
  /\ phase' = "joining"
  /\ UNCHANGED <<config, chan, open, workerVars, pending, nextSequence, terminated,
                 stream, verdict>>

\* Drop for DataLoaderIter: cancel, close, then join every worker.
Drop ==
  /\ phase = "idle"
  /\ cancel' = TRUE
  /\ Close
  /\ phase' = "joining"
  /\ UNCHANGED <<config, workerVars, pending, nextSequence, terminated, stream, verdict>>

Joined ==
  /\ phase = "joining" /\ \A w \in workers : pc[w] = "done"
  /\ phase' = "dropped"
  /\ UNCHANGED <<config, cancel, chan, open, workerVars, pending, nextSequence,
                 terminated, stream, verdict>>

Call == SyncNext \/ SyncPanics \/ NextFromPending \/ NextWaits \/ Drop
InCall ==
  ReceiveDue \/ ReceiveEarly \/ ReceiveTimesOut \/ ReceiveDisconnected \/ Joined

Next == Call \/ InCall \/ \E w \in workers : Worker(w)

Spec == Init /\ [][Next]_vars

\* Threads run, datasets and collators return; the consumer need not call.  No
\* timeout has to happen.
FairSpec ==
  /\ Spec
  /\ WF_vars(ReceiveDue \/ ReceiveEarly \/ ReceiveDisconnected \/ Joined)
  /\ \A w \in Threads : WF_vars(w \in workers /\ Worker(w))

----------------------------------------------------------------------------
(* Properties                                                              *)

\* The shape of every variable.
TypeOK ==
  /\ workers \subseteq Threads
  /\ outcome \in [Numbers -> {"ok"} \cup Failures]
  /\ iter \in 0..Total /\ cancel \in BOOLEAN
  /\ chan \in Seq(Numbers) /\ Len(chan) <= Prefetch /\ open \in BOOLEAN
  /\ pc \in [workers -> {"loop", "take", "send", "flag", "done"}]
  /\ batch \in [workers -> Nat]
  /\ phase \in {"idle", "recv", "joining", "dropped"}
  /\ pending \subseteq Numbers
  /\ nextSequence \in 0..Total /\ terminated \in BOOLEAN
  /\ stream \in Seq(Numbers)
  /\ verdict \in [batch: 0..Total, failure: Reported \cup {"none", "timeout", "disconnected"}]

\* The epoch is the ordered stream: batches in order up to the first failure,
\* however the workers race, and whoever fails first.
Ordered == INSTANCE OrderedStream
ImplementsOrderedStream == Ordered!Spec

\* next() returns, however early the other batches come, and drop() joins all
\* workers, also those that are blocked in a send to a full channel.
CallsReturn == (phase = "recv" ~> phase # "recv") /\ (phase = "joining" ~> phase = "dropped")

\* An abandoned epoch stops on its own: once the receiver is gone every worker
\* ends without being joined.
WorkersStop == ~open ~> \A w \in workers : pc[w] = "done"
=============================================================================
