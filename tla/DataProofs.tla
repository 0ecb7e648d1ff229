-------------------------------- MODULE DataProofs --------------------------
(***************************************************************************)
(* Proofs about one epoch of the data loader.                              *)
(*                                                                         *)
(* One rank: for any number of batches and workers and any capacity of the *)
(* channel, whatever the workers do, what the iterator yields is           *)
(* OrderedStream.                                                          *)
(*                                                                         *)
(* All ranks: for any dataset, permutation, batch size and number of       *)
(* ranks, nearly every sample is read, nearly none is read twice, and no   *)
(* rank has a batch more than another.                                     *)
(***************************************************************************)
EXTENDS DataLoader, EpochShards, FiniteSetTheorems, TLAPS

(* The loader: the inductive invariant *)

\* The cursor has passed nothing but good batches.
Cursor ==
  ~terminated =>
    /\ verdict = None /\ nextSequence = Len(stream)
    /\ \A n \in Numbers : n < nextSequence => outcome[n] = "ok"

Calling ==
  /\ phase \in {"idle", "recv"} /\ ~terminated => open
  /\ phase = "recv" => /\ ~terminated /\ nextSequence < Total
                       /\ workers # {} /\ nextSequence \notin pending

\* A batch in a worker's hands has been taken; one that was sent was answered.
InHand == \A w \in workers : pc[w] = "send" => batch[w] < iter
Answered ==
  /\ \A n \in pending : Answers(n)
  /\ \A i \in 1..Len(chan) : Answers(chan[i])

\* Every batch that was taken is somewhere, unless its worker died with it.
Held(n) ==
  \/ n \in pending
  \/ \E i \in 1..Len(chan) : chan[i] = n
  \/ \E w \in workers : pc[w] = "send" /\ batch[w] = n
Accounted ==
  open /\ ~terminated =>
    \A n \in Numbers : n < iter => n < nextSequence \/ Held(n) \/ outcome[n] = "lost"

\* A worker stops before the last batch only if some batch taken has failed.
Stopping == cancel \/ \E w \in workers : pc[w] \in {"flag", "done"}
Broken == \E n \in Numbers : n < iter /\ outcome[n] \in {"read", "lost"}
Stopped == open /\ ~terminated /\ Stopping => iter = Total \/ Broken

LoaderInv ==
  TypeOK /\ Cursor /\ Calling /\ InHand /\ Answered /\ Accounted /\ Stopped

----------------------------------------------------------------------------
(* Types and the cursor.                                                   *)

LEMMA NextCases ==
  ASSUME [Next]_vars
  PROVE  \/ UNCHANGED vars
         \/ \E w \in workers : Worker(w)
         \/ SyncNext \/ SyncPanics \/ NextFromPending \/ NextWaits \/ Drop
         \/ ReceiveDue \/ ReceiveEarly \/ ReceiveTimesOut \/ ReceiveDisconnected \/ Joined
BY DEF Next, Call, InCall

LEMMA LoaderInit == Init => LoaderInv
<1>. SUFFICES ASSUME Init PROVE LoaderInv
  OBVIOUS
<1>. USE NumbersAssumption
<1>1. TypeOK
  <2>1. <<>> \in Seq(Numbers) /\ Len(<<>>) <= Prefetch /\ 0 \in 0..Total
    OBVIOUS
  <2>2. None \in [batch: 0..Total, failure: Reported \cup {"none", "timeout", "disconnected"}]
    BY DEF None
  <2>. QED  BY <2>1, <2>2 DEF Init, TypeOK
<1>2. Cursor /\ Accounted
  <2>1. \A n \in Numbers : ~(n < 0)
    BY DEF Numbers
  <2>. QED  BY <2>1 DEF Init, Cursor, Accounted
<1>3. Calling /\ InHand /\ Answered
  BY DEF Init, Calling, InHand, Answered
<1>4. Stopped
  BY DEF Init, Stopped, Stopping
<1>. QED  BY <1>1, <1>2, <1>3, <1>4 DEF LoaderInv

\* The head of the channel.
LEMMA ChanHead ==
  ASSUME TypeOK, chan # <<>>
  PROVE  /\ Head(chan) = chan[1] /\ 1 \in 1..Len(chan) /\ Head(chan) \in Numbers
         /\ Tail(chan) \in Seq(Numbers) /\ Len(Tail(chan)) = Len(chan) - 1
         /\ Len(Tail(chan)) <= Prefetch
         /\ \A i \in 1..Len(Tail(chan)) : i + 1 \in 1..Len(chan) /\ Tail(chan)[i] = chan[i + 1]
         /\ \A i \in 1..Len(chan) : i # 1 => i - 1 \in 1..Len(Tail(chan))
BY NumbersAssumption DEF TypeOK

\* next() yields a batch that was answered, with what is left in the channel.
Yielding(n, rest) ==
  /\ Due /\ n = nextSequence /\ n \in Numbers /\ Answers(n)
  /\ Yield(n) /\ nextSequence' = n + 1
  /\ rest \in Seq(Numbers) /\ Len(rest) <= Prefetch
  /\ outcome[n] = "ok" =>
       chan' = rest /\ cancel' = cancel /\ open' = open /\ terminated' = FALSE
  /\ outcome[n] # "ok" =>
       terminated' = TRUE /\ (chan' = <<>> \/ chan' = rest) /\ cancel' \in BOOLEAN /\ open' \in BOOLEAN
  /\ UNCHANGED <<workers, outcome, iter, pc, batch>>

LEMMA Yields ==
  ASSUME LoaderInv
  PROVE  /\ SyncNext => Yielding(nextSequence, chan) /\ UNCHANGED <<phase, pending>> /\ open' = open
         /\ NextFromPending => /\ Yielding(nextSequence, chan) /\ UNCHANGED phase
                               /\ pending' = pending \ {nextSequence}
         /\ ReceiveDue => /\ Yielding(nextSequence, Tail(chan)) /\ UNCHANGED pending
                          /\ phase = "recv" /\ phase' = "idle"
<1>. USE NumbersAssumption DEF LoaderInv, config, workerVars
<1>0. Due => nextSequence \in Numbers
  BY DEF Due, TypeOK, Numbers
<1>1. ASSUME SyncNext
      PROVE  Yielding(nextSequence, chan) /\ UNCHANGED <<phase, pending>> /\ open' = open
  BY <1>0, <1>1 DEF SyncNext, Yielding, TypeOK
<1>2. ASSUME NextFromPending
      PROVE  Yielding(nextSequence, chan) /\ UNCHANGED phase /\ pending' = pending \ {nextSequence}
  <2>1. Answers(nextSequence)
    BY <1>2 DEF NextFromPending, Answered
  <2>. QED  BY <1>0, <1>2, <2>1 DEF NextFromPending, YieldDue, Close, Yielding, TypeOK, Due
<1>3. ASSUME ReceiveDue
      PROVE  /\ Yielding(nextSequence, Tail(chan)) /\ UNCHANGED pending
             /\ phase = "recv" /\ phase' = "idle"
  <2>1. Due /\ chan # <<>> /\ Head(chan) = nextSequence
    BY <1>3 DEF ReceiveDue, Calling, Due
  <2>2. Answers(nextSequence)
    BY <2>1, ChanHead DEF Answered
  <2>3. Tail(chan) \in Seq(Numbers) /\ Len(Tail(chan)) <= Prefetch
    BY <2>1, ChanHead
  <2>. QED  BY <1>0, <1>3, <2>1, <2>2, <2>3 DEF ReceiveDue, YieldDue, Close, Yielding, TypeOK, Due
<1>. QED  BY <1>1, <1>2, <1>3

LEMMA YieldTypes ==
  ASSUME LoaderInv, NEW n, NEW rest, Yielding(n, rest)
  PROVE  /\ nextSequence' \in 0..Total /\ terminated' \in BOOLEAN /\ cancel' \in BOOLEAN
         /\ open' \in BOOLEAN /\ chan' \in Seq(Numbers) /\ Len(chan') <= Prefetch
         /\ stream' \in Seq(Numbers)
         /\ verdict' \in [batch: 0..Total, failure: Reported \cup {"none", "timeout", "disconnected"}]
         /\ Cursor'
<1>. USE NumbersAssumption DEF LoaderInv
<1>1. n \in Numbers /\ n = nextSequence /\ n = Len(stream) /\ verdict = None /\ n + 1 \in 0..Total
  BY DEF Yielding, Due, Cursor, TypeOK, Numbers
<1>2. /\ terminated' \in BOOLEAN /\ cancel' \in BOOLEAN /\ open' \in BOOLEAN
      /\ nextSequence' = n + 1 /\ chan' \in Seq(Numbers) /\ Len(chan') <= Prefetch
  <2>1. cancel \in BOOLEAN /\ open \in BOOLEAN
    BY DEF TypeOK
  <2>2. /\ terminated' \in BOOLEAN /\ cancel' \in BOOLEAN /\ open' \in BOOLEAN
        /\ nextSequence' = n + 1
    BY <2>1, Zenon DEF Yielding
  <2>3. (chan' = rest \/ chan' = <<>>) /\ rest \in Seq(Numbers) /\ Len(rest) <= Prefetch
    BY Zenon DEF Yielding
  <2>4. <<>> \in Seq(Numbers) /\ Len(<<>>) <= Prefetch
    OBVIOUS
  <2>. QED  BY <2>2, <2>3, <2>4
<1>3. CASE outcome[n] = "ok"
  <2>1. stream' = Append(stream, n) /\ verdict' = verdict
    BY <1>3 DEF Yielding, Yield
  <2>2. stream' \in Seq(Numbers) /\ Len(stream') = n + 1
    BY <1>1, <2>1 DEF TypeOK
  <2>3. \A m \in Numbers : m < n + 1 => outcome'[m] = "ok"
    <3>1. \A m \in Numbers : m < n => outcome[m] = "ok"
      BY <1>1 DEF Cursor, Yielding, Due
    <3>2. \A m \in Numbers : m < n + 1 => m < n \/ m = n
      BY <1>1 DEF Numbers
    <3>. QED  BY <1>3, <3>1, <3>2 DEF Yielding
  <2>4. Cursor'
    BY <1>1, <1>2, <2>1, <2>2, <2>3 DEF Cursor, None
  <2>. QED  BY <1>1, <1>2, <2>1, <2>2, <2>4 DEF TypeOK
<1>4. CASE outcome[n] # "ok"
  <2>1. verdict' = Verdict(n, outcome[n]) /\ stream' = stream /\ terminated'
    BY <1>1, <1>4 DEF Yielding, Yield
  <2>2. outcome[n] \in Reported
    BY <1>1, <1>4 DEF Yielding, Answers, TypeOK, Failures
  <2>3. n \in 0..Total
    BY <1>1 DEF Numbers
  <2>. QED  BY <1>1, <1>2, <2>1, <2>2, <2>3 DEF Cursor, Verdict, TypeOK
<1>. QED  BY <1>3, <1>4

LEMMA TypeNext == LoaderInv /\ [Next]_vars => TypeOK' /\ Cursor'
<1>. SUFFICES ASSUME LoaderInv, [Next]_vars PROVE TypeOK' /\ Cursor'
  OBVIOUS
<1>. USE NumbersAssumption DEF LoaderInv, config, workerVars, consumerVars
<1>1. CASE UNCHANGED vars
  BY <1>1 DEF vars, TypeOK, Cursor
<1>2. ASSUME NEW w \in workers, Worker(w) PROVE TypeOK' /\ Cursor'
  <2>. USE DEF Goto
  <2>1. CASE CheckCancel(w) \/ Exhausted(w) \/ SendFails(w) \/ Lost(w) \/ Flag(w)
    <3>1. CASE CheckCancel(w)
      BY <3>1 DEF CheckCancel, TypeOK, Cursor
    <3>2. CASE Exhausted(w)
      BY <3>2 DEF Exhausted, TypeOK, Cursor
    <3>3. CASE SendFails(w)
      BY <3>3 DEF SendFails, TypeOK, Cursor
    <3>4. CASE Lost(w)
      BY <3>4 DEF Lost, TypeOK, Cursor
    <3>5. CASE Flag(w)
      BY <3>5 DEF Flag, TypeOK, Cursor
    <3>. QED  BY <2>1, <3>1, <3>2, <3>3, <3>4, <3>5
  <2>2. CASE Take(w)
    <3>1. iter \in Nat /\ iter + 1 \in 0..Total
      BY <2>2 DEF Take, TypeOK
    <3>. QED  BY <2>2, <3>1 DEF Take, TypeOK, Cursor
  <2>3. CASE Send(w)
    <3>1. batch[w] \in Numbers
      BY <2>3 DEF Send, InHand, TypeOK, Numbers
    <3>2. chan' \in Seq(Numbers) /\ Len(chan') <= Prefetch
      BY <2>3, <3>1 DEF Send, TypeOK
    <3>. QED  BY <2>3, <3>2 DEF Send, TypeOK, Cursor
  <2>. QED  BY <1>2, <2>1, <2>2, <2>3 DEF Worker
<1>3. ASSUME SyncNext \/ NextFromPending \/ ReceiveDue PROVE TypeOK' /\ Cursor'
  <2>1. PICK rest : Yielding(nextSequence, rest)
    BY <1>3, Yields
  <2>2. UNCHANGED <<workers, outcome, iter, pc, batch>>
    BY <2>1 DEF Yielding
  <2>3. phase' \in {"idle", "recv", "joining", "dropped"} /\ pending' \subseteq Numbers
    BY <1>3, Yields DEF TypeOK
  <2>. QED  BY <2>1, <2>2, <2>3, YieldTypes DEF TypeOK
<1>4. CASE SyncPanics \/ NextWaits \/ Joined
  BY <1>4 DEF SyncPanics, NextWaits, Joined, TypeOK, Cursor
<1>5. CASE Drop
  <2>1. <<>> \in Seq(Numbers) /\ Len(<<>>) <= Prefetch
    OBVIOUS
  <2>. QED  BY <1>5, <2>1 DEF Drop, Close, TypeOK, Cursor
<1>6. CASE ReceiveEarly
  <2>1. /\ Head(chan) \in Numbers /\ Tail(chan) \in Seq(Numbers) /\ Len(Tail(chan)) <= Prefetch
    BY <1>6, ChanHead DEF ReceiveEarly
  <2>. QED  BY <1>6, <2>1 DEF ReceiveEarly, TypeOK, Cursor
<1>7. ASSUME NEW failure \in {"timeout", "disconnected"}, ReceiveFails(failure) PROVE TypeOK' /\ Cursor'
  <2>1. Len(stream) \in 0..Total
    BY <1>7 DEF ReceiveFails, Calling, Cursor, TypeOK
  <2>2. <<>> \in Seq(Numbers) /\ Len(<<>>) <= Prefetch
    OBVIOUS
  <2>. QED  BY <1>7, <2>1, <2>2 DEF ReceiveFails, Close, Verdict, TypeOK, Cursor
<1>. QED  BY <1>1, <1>2, <1>3, <1>4, <1>5, <1>6, <1>7, NextCases DEF ReceiveTimesOut, ReceiveDisconnected

----------------------------------------------------------------------------
(* The batches under way.                                                  *)

LEMMA CallingNext == LoaderInv /\ [Next]_vars => Calling' /\ InHand' /\ Answered'
<1>. SUFFICES ASSUME LoaderInv, [Next]_vars PROVE Calling' /\ InHand' /\ Answered'
  OBVIOUS
<1>. USE NumbersAssumption DEF LoaderInv, config, workerVars, consumerVars, Answers
<1>1. CASE UNCHANGED vars
  BY <1>1 DEF vars, Calling, InHand, Answered
<1>2. ASSUME NEW w \in workers, Worker(w) PROVE Calling' /\ InHand' /\ Answered'
  <2>0. Calling'
    <3>1. UNCHANGED <<phase, terminated, open, nextSequence, workers, pending>>
      BY <1>2 DEF Worker, CheckCancel, Take, Exhausted, Send, SendFails, Lost, Flag
    <3>. QED  BY <3>1 DEF Calling
  <2>. SUFFICES InHand' /\ Answered'
    BY <2>0
  <2>. USE DEF Goto
  <2>1. CASE CheckCancel(w) \/ Exhausted(w) \/ SendFails(w) \/ Lost(w) \/ Flag(w)
    <3>1. CASE CheckCancel(w)
      BY <3>1 DEF CheckCancel, TypeOK, InHand, Answered
    <3>2. CASE Exhausted(w)
      BY <3>2 DEF Exhausted, TypeOK, InHand, Answered
    <3>3. CASE SendFails(w)
      BY <3>3 DEF SendFails, TypeOK, InHand, Answered
    <3>4. CASE Lost(w)
      BY <3>4 DEF Lost, TypeOK, InHand, Answered
    <3>5. CASE Flag(w)
      BY <3>5 DEF Flag, TypeOK, InHand, Answered
    <3>. QED  BY <2>1, <3>1, <3>2, <3>3, <3>4, <3>5
  <2>2. CASE Take(w)
    <3>1. iter \in Nat /\ iter < iter + 1 /\ iter' = iter + 1
      BY <2>2 DEF Take, TypeOK
    <3>2. \A v \in workers : batch'[v] = IF v = w THEN iter ELSE batch[v]
      BY <2>2 DEF Take, TypeOK
    <3>3. \A v \in workers : v # w => pc'[v] = pc[v]
      BY <2>2 DEF Take, TypeOK
    <3>4. \A v \in workers : batch[v] \in Nat
      BY DEF TypeOK
    <3>5. InHand'
      BY <2>2, <3>1, <3>2, <3>3, <3>4 DEF Take, InHand
    <3>. QED  BY <2>2, <3>5 DEF Take, Answered
  <2>3. CASE Send(w)
    <3>1. chan' = Append(chan, batch[w]) /\ Answers(batch[w]) /\ batch[w] \in Numbers
      BY <2>3 DEF Send, InHand, TypeOK, Numbers
    <3>2. \A i \in 1..Len(chan') : chan'[i] = IF i \in 1..Len(chan) THEN chan[i] ELSE batch[w]
      BY <3>1 DEF TypeOK
    <3>. QED  BY <2>3, <3>1, <3>2 DEF Send, TypeOK, InHand, Answered
  <2>. QED  BY <1>2, <2>1, <2>2, <2>3 DEF Worker
<1>3. ASSUME SyncNext \/ NextFromPending \/ ReceiveDue PROVE Calling' /\ InHand' /\ Answered'
  <2>1. PICK rest : /\ Yielding(nextSequence, rest)
                    /\ rest = chan \/ (chan # <<>> /\ rest = Tail(chan))
    BY <1>3, Yields DEF ReceiveDue
  <2>2. Due /\ UNCHANGED <<workers, outcome, iter, pc, batch>>
        /\ (terminated' \/ open' = open) /\ (chan' = <<>> \/ chan' = rest)
    BY <2>1 DEF Yielding
  <2>3. /\ pending' \subseteq pending /\ phase' = "idle" /\ phase \in {"idle", "recv"}
    BY <1>3, Yields DEF SyncNext, NextFromPending, ReceiveDue
  <2>4. Calling'
    BY <2>2, <2>3 DEF Calling, Due
  <2>5. \A i \in 1..Len(rest) : Answers(rest[i])
    BY <2>1, ChanHead DEF Answered
  <2>6. Answered'
    BY <2>2, <2>3, <2>5 DEF Answered
  <2>. QED  BY <2>2, <2>4, <2>6 DEF InHand
<1>4. CASE SyncPanics \/ NextWaits \/ Joined
  BY <1>4 DEF SyncPanics, NextWaits, Joined, Due, Calling, InHand, Answered
<1>5. CASE Drop
  BY <1>5 DEF Drop, Close, Calling, InHand, Answered
<1>6. CASE ReceiveEarly
  <2>1. Answers(Head(chan)) /\ \A i \in 1..Len(Tail(chan)) : Answers(Tail(chan)[i])
    BY <1>6, ChanHead DEF ReceiveEarly, Answered
  <2>. QED  BY <1>6, <2>1 DEF ReceiveEarly, Calling, InHand, Answered
<1>7. ASSUME NEW failure, ReceiveFails(failure) PROVE Calling' /\ InHand' /\ Answered'
  BY <1>7 DEF ReceiveFails, Close, Calling, InHand, Answered
<1>. QED  BY <1>1, <1>2, <1>3, <1>4, <1>5, <1>6, <1>7, NextCases DEF ReceiveTimesOut, ReceiveDisconnected

LEMMA AccountedNext == LoaderInv /\ [Next]_vars => Accounted'
<1>. SUFFICES ASSUME LoaderInv, [Next]_vars, open', ~terminated', NEW n \in Numbers, n < iter'
              PROVE  n < nextSequence' \/ Held(n)' \/ outcome'[n] = "lost"
  BY DEF Accounted
<1>. DEFINE InChan == \E i \in 1..Len(chan) : chan[i] = n
            WithWorker == \E w \in workers : pc[w] = "send" /\ batch[w] = n
<1>. USE NumbersAssumption DEF LoaderInv, config, workerVars, consumerVars
<1>0. ASSUME open, ~terminated, n < iter
      PROVE  n < nextSequence \/ n \in pending \/ InChan \/ WithWorker \/ outcome[n] = "lost"
  BY <1>0 DEF Accounted, Held
<1>1. CASE UNCHANGED vars
  BY <1>0, <1>1 DEF vars, Held
<1>2. ASSUME NEW w \in workers, Worker(w)
      PROVE  n < nextSequence' \/ Held(n)' \/ outcome'[n] = "lost"
  <2>1. /\ UNCHANGED <<open, terminated, nextSequence, outcome, pending, workers>>
        /\ iter' = iter \/ Take(w)
    BY <1>2 DEF Worker, CheckCancel, Take, Exhausted, Send, SendFails, Lost, Flag
  <2>. USE DEF Goto
  <2>2. CASE CheckCancel(w) \/ Exhausted(w) \/ Flag(w)
    <3>1. pc[w] # "send" /\ \A v \in workers : v # w => pc'[v] = pc[v]
      BY <2>2 DEF CheckCancel, Exhausted, Flag, TypeOK
    <3>2. UNCHANGED <<chan, batch, iter>>
      BY <2>2 DEF CheckCancel, Exhausted, Flag
    <3>. QED  BY <1>0, <2>1, <3>1, <3>2 DEF Held
  <2>3. CASE Take(w)
    <3>1. /\ pc[w] # "send" /\ pc'[w] = "send" /\ batch'[w] = iter /\ iter' = iter + 1
          /\ UNCHANGED chan
          /\ \A v \in workers : v # w => pc'[v] = pc[v] /\ batch'[v] = batch[v]
      BY <2>3 DEF Take, TypeOK
    <3>2. n < iter \/ n = iter
      BY <3>1 DEF TypeOK, Numbers
    <3>. QED  BY <1>0, <2>1, <3>1, <3>2 DEF Held
  <2>4. CASE Send(w)
    <3>1. /\ chan' = Append(chan, batch[w]) /\ batch[w] \in Numbers /\ UNCHANGED <<batch, iter>>
          /\ \A v \in workers : v # w => pc'[v] = pc[v]
      BY <2>4 DEF Send, InHand, TypeOK, Numbers
    <3>2. /\ Len(chan) + 1 \in 1..Len(chan') /\ chan'[Len(chan) + 1] = batch[w]
          /\ \A i \in 1..Len(chan) : i \in 1..Len(chan') /\ chan'[i] = chan[i]
      BY <3>1 DEF TypeOK
    <3>. QED  BY <1>0, <2>1, <3>1, <3>2 DEF Held
  <2>5. CASE SendFails(w)
    BY <2>1, <2>5 DEF SendFails
  <2>6. CASE Lost(w)
    <3>1. /\ outcome[batch[w]] = "lost" /\ UNCHANGED <<chan, batch, iter>>
          /\ \A v \in workers : v # w => pc'[v] = pc[v]
      BY <2>6 DEF Lost, Answers, TypeOK
    <3>. QED  BY <1>0, <2>1, <3>1 DEF Held
  <2>. QED  BY <1>2, <2>2, <2>3, <2>4, <2>5, <2>6 DEF Worker
<1>3. ASSUME SyncNext \/ NextFromPending \/ ReceiveDue
      PROVE  n < nextSequence' \/ Held(n)' \/ outcome'[n] = "lost"
  <2>1. PICK rest : /\ Yielding(nextSequence, rest)
                    /\ \/ rest = chan
                       \/ chan # <<>> /\ rest = Tail(chan) /\ Head(chan) = nextSequence
    BY <1>3, Yields DEF ReceiveDue
  <2>2. /\ ~terminated /\ open /\ UNCHANGED <<workers, outcome, iter, pc, batch>>
        /\ nextSequence' = nextSequence + 1 /\ chan' = rest
    BY <2>1 DEF Yielding, Due
  <2>3. pending' = pending \/ pending' = pending \ {nextSequence}
    BY <1>3, Yields
  <2>4. n < nextSequence' <=> n < nextSequence \/ n = nextSequence
    BY <2>2 DEF TypeOK, Numbers
  <2>5. InChan => n = nextSequence \/ \E i \in 1..Len(rest) : rest[i] = n
    <3>1. CASE rest = chan
      BY <3>1
    <3>2. CASE chan # <<>> /\ rest = Tail(chan) /\ Head(chan) = nextSequence
      <4>1. \A i \in 1..Len(chan) : i # 1 => i - 1 \in 1..Len(rest) /\ rest[i - 1] = chan[i]
        BY <3>2, ChanHead
      <4>. QED  BY <3>2, <4>1, ChanHead
    <3>. QED  BY <2>1, <3>1, <3>2
  <2>. QED  BY <1>0, <2>2, <2>3, <2>4, <2>5 DEF Held
<1>4. CASE SyncPanics \/ NextWaits \/ Joined
  BY <1>0, <1>4 DEF SyncPanics, NextWaits, Joined, Held
<1>5. CASE Drop \/ ReceiveTimesOut \/ ReceiveDisconnected
  BY <1>5 DEF Drop, ReceiveTimesOut, ReceiveDisconnected, ReceiveFails, Close
<1>6. CASE ReceiveEarly
  <2>1. /\ chan # <<>> /\ chan' = Tail(chan) /\ pending' = pending \cup {Head(chan)}
        /\ UNCHANGED <<open, terminated, nextSequence, outcome, workers, iter, pc, batch>>
    BY <1>6 DEF ReceiveEarly
  <2>2. \A i \in 1..Len(chan) : i # 1 => i - 1 \in 1..Len(chan') /\ chan'[i - 1] = chan[i]
    BY <2>1, ChanHead
  <2>3. InChan => n = Head(chan) \/ \E i \in 1..Len(chan') : chan'[i] = n
    BY <2>1, <2>2, ChanHead
  <2>. QED  BY <1>0, <2>1, <2>3 DEF Held
<1>. QED  BY <1>1, <1>2, <1>3, <1>4, <1>5, <1>6, NextCases

LEMMA StoppedNext == LoaderInv /\ [Next]_vars => Stopped'
<1>. SUFFICES ASSUME LoaderInv, [Next]_vars, open', ~terminated', Stopping'
              PROVE  iter' = Total \/ Broken'
  BY DEF Stopped
<1>. USE NumbersAssumption DEF LoaderInv, config, workerVars, consumerVars
<1>1. open /\ ~terminated /\ outcome' = outcome /\ workers' = workers
  <2>1. CASE UNCHANGED vars
    BY <2>1 DEF vars
  <2>2. CASE \E w \in workers : Worker(w)
    <3>1. UNCHANGED <<open, terminated, outcome, workers>>
      BY <2>2 DEF Worker, CheckCancel, Take, Exhausted, Send, SendFails, Lost, Flag
    <3>. QED  BY <3>1
  <2>3. CASE SyncNext \/ NextFromPending \/ ReceiveDue
    <3>1. PICK rest : Yielding(nextSequence, rest)
      BY <2>3, Yields
    <3>. QED  BY <3>1 DEF Yielding, Due
  <2>4. CASE SyncPanics \/ NextWaits \/ Joined \/ Drop \/ ReceiveEarly
    <3>1. UNCHANGED <<open, terminated, outcome, workers>>
      BY <2>4 DEF SyncPanics, NextWaits, Joined, Drop, Close, ReceiveEarly
    <3>. QED  BY <3>1
  <2>5. CASE ReceiveTimesOut \/ ReceiveDisconnected
    BY <2>5 DEF ReceiveTimesOut, ReceiveDisconnected, ReceiveFails
  <2>. QED  BY <2>1, <2>2, <2>3, <2>4, <2>5, NextCases
<1>2. CASE cancel' = cancel /\ UNCHANGED <<pc, iter>>
  BY <1>1, <1>2 DEF Stopping, Broken, Stopped
<1>3. ASSUME NEW w \in workers, Worker(w) PROVE iter' = Total \/ Broken'
  <2>. USE DEF Goto
  <2>1. CASE Stopping /\ iter' = iter
    BY <1>1, <2>1 DEF Broken, Stopped
  <2>2. CASE CheckCancel(w) \/ Flag(w)
    <3>1. Stopping /\ iter' = iter
      <4>1. CASE Flag(w)
        BY <4>1 DEF Flag, Stopping
      <4>2. CASE CheckCancel(w)
        <5>1. \A v \in workers : pc'[v] \in {"flag", "done"} => cancel \/ pc[v] \in {"flag", "done"}
          BY <4>2 DEF CheckCancel, TypeOK
        <5>. QED  BY <1>1, <4>2, <5>1 DEF CheckCancel, Stopping
      <4>. QED  BY <2>2, <4>1, <4>2
    <3>. QED  BY <2>1, <3>1
  <2>3. CASE Take(w)
    <3>1. Stopping /\ iter < Total /\ iter' = iter + 1
      <4>1. \A v \in workers : pc'[v] \in {"flag", "done"} => pc[v] = pc'[v]
        BY <2>3 DEF Take, TypeOK
      <4>. QED  BY <1>1, <2>3, <4>1 DEF Take, Stopping
    <3>2. Broken
      BY <1>1, <3>1 DEF Stopped
    <3>3. \A n \in Numbers : n < iter => n < iter'
      BY <3>1 DEF Numbers, TypeOK
    <3>. QED  BY <1>1, <3>2, <3>3 DEF Broken
  <2>4. CASE Exhausted(w)
    BY <2>4 DEF Exhausted, TypeOK
  <2>5. CASE Send(w)
    <3>1. iter' = iter /\ cancel' = cancel
      BY <2>5 DEF Send
    <3>2. CASE outcome[batch[w]] = "read"
      <4>1. batch[w] \in Numbers /\ batch[w] < iter
        BY <2>5 DEF Send, InHand, TypeOK, Numbers
      <4>. QED  BY <1>1, <3>1, <3>2, <4>1 DEF Broken
    <3>3. CASE outcome[batch[w]] # "read"
      <4>1. \A v \in workers : pc'[v] \in {"flag", "done"} => pc[v] = pc'[v]
        BY <2>5, <3>3 DEF Send, TypeOK
      <4>2. Stopping
        BY <1>1, <3>1, <4>1 DEF Stopping
      <4>. QED  BY <2>1, <3>1, <4>2
    <3>. QED  BY <3>2, <3>3
  <2>6. CASE SendFails(w)
    BY <1>1, <2>6 DEF SendFails
  <2>7. CASE Lost(w)
    <3>1. batch[w] \in Numbers /\ batch[w] < iter /\ outcome[batch[w]] = "lost" /\ iter' = iter
      BY <2>7 DEF Lost, Answers, InHand, TypeOK, Numbers
    <3>. QED  BY <1>1, <3>1 DEF Broken
  <2>. QED  BY <1>3, <2>2, <2>3, <2>4, <2>5, <2>6, <2>7 DEF Worker
<1>4. CASE UNCHANGED vars
  BY <1>2, <1>4 DEF vars
<1>5. CASE SyncNext \/ NextFromPending \/ ReceiveDue
  <2>1. PICK rest : Yielding(nextSequence, rest)
    BY <1>5, Yields
  <2>. QED  BY <1>2, <2>1 DEF Yielding
<1>6. CASE SyncPanics \/ NextWaits \/ Joined \/ ReceiveEarly
  BY <1>2, <1>6 DEF SyncPanics, NextWaits, Joined, ReceiveEarly
<1>7. CASE Drop \/ ReceiveTimesOut \/ ReceiveDisconnected
  BY <1>7 DEF Drop, ReceiveTimesOut, ReceiveDisconnected, ReceiveFails, Close
<1>. QED  BY <1>3, <1>4, <1>5, <1>6, <1>7, NextCases

----------------------------------------------------------------------------
(* Theorems.                                                               *)

\* The inductive invariant holds.
THEOREM LoaderInvariant == Spec => []LoaderInv
<1>1. LoaderInv /\ [Next]_vars => LoaderInv'
  BY TypeNext, CallingNext, AccountedNext, StoppedNext DEF LoaderInv
<1>. QED  BY <1>1, LoaderInit, PTL DEF Spec

\* Every reachable state is well typed.
THEOREM TypeCorrect == Spec => []TypeOK
<1>1. LoaderInv => TypeOK
  BY DEF LoaderInv
<1>. QED  BY <1>1, LoaderInvariant, PTL

\* When recv fails because every sender is gone, the batch that was due is one
\* whose worker died with it.
LEMMA DisconnectionIsLoss ==
  ASSUME LoaderInv, ReceiveDisconnected PROVE outcome[nextSequence] = "lost"
<1>. USE NumbersAssumption DEF LoaderInv
<1>1. /\ phase = "recv" /\ chan = <<>> /\ workers # {} /\ \A w \in workers : pc[w] = "done"
      /\ open /\ ~terminated /\ nextSequence < Total /\ nextSequence \notin pending
  BY DEF ReceiveDisconnected, ReceiveFails, Calling
<1>2. nextSequence \in Numbers
  BY <1>1 DEF TypeOK, Numbers
<1>3. nextSequence < iter
  <2>1. iter = Total \/ Broken
    BY <1>1 DEF Stopped, Stopping
  <2>2. ASSUME NEW n \in Numbers, n < iter, outcome[n] \in {"read", "lost"} PROVE nextSequence < iter
    <3>1. ~(n < nextSequence)
      BY <1>1, <2>2 DEF Cursor
    <3>. QED  BY <1>2, <2>2, <3>1 DEF TypeOK, Numbers
  <2>. QED  BY <1>1, <2>1, <2>2 DEF Broken
<1>4. ~Held(nextSequence)
  BY <1>1 DEF Held
<1>5. ~(nextSequence < nextSequence)
  BY <1>2 DEF Numbers
<1>. QED  BY <1>1, <1>2, <1>3, <1>4, <1>5 DEF Accounted

LEMMA StreamNext == LoaderInv /\ [Next]_vars => [Ordered!Next]_(Ordered!vars)
<1>. SUFFICES ASSUME LoaderInv, [Next]_vars, ~(UNCHANGED <<outcome, stream, verdict>>)
              PROVE  Ordered!Next
  BY DEF Ordered!vars
<1>. USE NumbersAssumption DEF LoaderInv, config, workerVars, consumerVars
<1>1. CASE SyncNext \/ NextFromPending \/ ReceiveDue
  <2>1. PICK rest : Yielding(nextSequence, rest)
    BY <1>1, Yields
  <2>2. /\ nextSequence \in Numbers /\ nextSequence < Total /\ Len(stream) = nextSequence
        /\ verdict = None /\ Yield(nextSequence) /\ outcome' = outcome
        /\ outcome[nextSequence] # "lost"
    BY <2>1 DEF Yielding, Due, Cursor, Answers
  <2>3. CASE outcome[nextSequence] = "ok"
    BY <2>2, <2>3 DEF Yield, Ordered!Next, Ordered!Deliver, Ordered!Position, Ordered!None, None
  <2>4. CASE outcome[nextSequence] # "ok"
    BY <2>2, <2>4 DEF Yield, Verdict, Ordered!Next, Ordered!Fail, Ordered!Position, Ordered!None,
                      Ordered!Verdict, None
  <2>. QED  BY <2>3, <2>4
<1>2. ASSUME NEW failure, ReceiveFails(failure)
      PROVE  /\ verdict = None /\ Len(stream) = nextSequence /\ Len(stream) < Total
             /\ verdict' = Verdict(Len(stream), failure) /\ UNCHANGED <<outcome, stream>>
  BY <1>2 DEF ReceiveFails, Calling, Cursor
<1>3. CASE ReceiveTimesOut
  BY <1>2, <1>3 DEF ReceiveTimesOut, Verdict, Ordered!Next, Ordered!TimeOut, Ordered!Position,
                    Ordered!None, Ordered!Verdict, None
<1>4. CASE ReceiveDisconnected
  <2>1. outcome[nextSequence] = "lost"
    BY <1>4, DisconnectionIsLoss
  <2>. QED  BY <1>2, <1>4, <2>1
            DEF ReceiveDisconnected, Verdict, Ordered!Next, Ordered!Fail, Ordered!Position,
                Ordered!None, Ordered!Verdict, None
<1>5. CASE \E w \in workers : Worker(w)
  BY <1>5 DEF Worker, CheckCancel, Take, Exhausted, Send, SendFails, Lost, Flag
<1>6. CASE UNCHANGED vars \/ SyncPanics \/ NextWaits \/ Drop \/ ReceiveEarly \/ Joined
  BY <1>6 DEF vars, SyncPanics, NextWaits, Drop, ReceiveEarly, Joined
<1>. QED  BY <1>1, <1>3, <1>4, <1>5, <1>6, NextCases

\* The loader implements the ordered stream (ImplementsOrderedStream): its
\* batches come in order up to the first failure, which is named by its own
\* position, however many workers race.
THEOREM StreamImplemented == Spec => ImplementsOrderedStream
<1>1. Init => Ordered!Init
  BY DEF Init, Numbers, None, Ordered!Init, Ordered!None
<1>. QED  BY <1>1, LoaderInvariant, StreamNext, PTL DEF Spec, ImplementsOrderedStream, Ordered!Spec

----------------------------------------------------------------------------
(* The shards: arithmetic *)

\* Products and quotients of naturals: what the provers need to know of them.
LEMMA TimesKeepsOrder ==
  ASSUME NEW x \in Int, NEW y \in Int, NEW b \in Nat, x <= y
  PROVE  x * b <= y * b /\ x * b \in Int
OBVIOUS

LEMMA TimesNext ==
  ASSUME NEW x \in Int, NEW b \in Int
  PROVE  (x + 1) * b = x * b + b /\ (x - 1) * b = x * b - b
OBVIOUS

LEMMA DivIsInt ==
  ASSUME NEW a \in Nat, NEW b \in Nat \ {0}
  PROVE  a \div b \in Int
OBVIOUS

LEMMA ModBounds ==
  ASSUME NEW a \in Nat, NEW b \in Nat \ {0}
  PROVE  a % b \in 0..b - 1
OBVIOUS

LEMMA DivTimes ==
  ASSUME NEW a \in Nat, NEW b \in Nat \ {0}
  PROVE  a = (a \div b) * b + (a % b)
OBVIOUS

\* div and % are what they should be: quotient and remainder of a natural number
\* exist and are the only ones.
LEMMA NotNegative ==
  ASSUME NEW b \in Nat \ {0}, NEW q \in Int, NEW e \in 0..b - 1, q * b + e >= 0
  PROVE  q \in Nat
<1>1. CASE q < 0
  <2>1. (q + 1) * b <= 0 * b /\ (q + 1) * b = q * b + b /\ 0 * b = 0
    BY <1>1, TimesKeepsOrder, TimesNext
  <2> QED BY <2>1
<1> QED BY <1>1

LEMMA DivMod ==
  ASSUME NEW a \in Nat, NEW b \in Nat \ {0}
  PROVE  /\ a \div b \in Nat /\ a % b \in 0..b - 1
         /\ a = (a \div b) * b + (a % b)
<1>1. a \div b \in Int /\ a % b \in 0..b - 1 /\ a = (a \div b) * b + (a % b)
  BY DivIsInt, ModBounds, DivTimes
<1>2. \A q \in Int : \A e \in 0..b - 1 : a = q * b + e => q \in Nat
  BY NotNegative
<1> QED BY <1>1, <1>2, Zenon

LEMMA DivUnique ==
  ASSUME NEW b \in Nat \ {0}, NEW q \in Int, NEW s \in Int, NEW d \in 0..b - 1, NEW e \in 0..b - 1,
         q * b + d = s * b + e
  PROVE  q = s /\ d = e
<1>1. CASE q < s
  <2>1. (q + 1) * b <= s * b
    BY <1>1, TimesKeepsOrder
  <2>2. (q + 1) * b = q * b + b
    BY TimesNext
  <2> QED BY <2>1, <2>2
<1>2. CASE s < q
  <2>1. (s + 1) * b <= q * b
    BY <1>2, TimesKeepsOrder
  <2>2. (s + 1) * b = s * b + b
    BY TimesNext
  <2> QED BY <2>1, <2>2
<1> QED BY <1>1, <1>2

LEMMA DivIs ==
  ASSUME NEW b \in Nat \ {0}, NEW a \in Nat, NEW q \in Int, NEW d \in 0..b - 1, a = q * b + d
  PROVE  a \div b = q /\ a % b = d
<1> DEFINE s == a \div b
<1> DEFINE e == a % b
<1>0. s \in Nat /\ e \in 0..b - 1 /\ a = s * b + e
  BY DivMod, Zenon
<1> HIDE DEF s, e
<1>1. s \in Int /\ s * b + e = q * b + d
  BY <1>0
<1>2. s = q /\ e = d
  BY <1>0, <1>1, DivUnique
<1> QED BY <1>2 DEF s, e

\* div_ceil: the least number of groups of b that hold a.
LEMMA CeilDivIs ==
  ASSUME NEW a \in Int, NEW b \in Nat \ {0}, a + b - 1 >= 0
  PROVE  /\ CeilDiv(a, b) \in Nat
         /\ (CeilDiv(a, b) - 1) * b < a /\ a <= CeilDiv(a, b) * b
         /\ CeilDiv(a, b) * b < a + b
<1>1. PICK x \in Nat : x = a + b - 1
  OBVIOUS
<1>2. PICK q \in Nat : q = x \div b
  BY DivMod
<1>3. PICK e \in 0..b - 1 : x = q * b + e
  BY <1>2, DivMod
<1>4. CeilDiv(a, b) = q
  BY <1>1, <1>2 DEF CeilDiv
<1>5. (q - 1) * b = q * b - b /\ q * b \in Int
  BY TimesNext, TimesKeepsOrder
<1>6. (q - 1) * b < a /\ a <= q * b /\ q * b < a + b
  BY <1>1, <1>3, <1>5
<1> QED BY <1>4, <1>6

----------------------------------------------------------------------------
\* The configuration of an epoch, and that its padding exists.
Config ==
  /\ len \in Nat /\ batchSize \in Nat \ {0} /\ policy \in {"Drop", "Pad"} /\ dropLast \in BOOLEAN
  /\ shuffled \in Bijection(1..len, Samples)
Usable == policy = "Pad" => PaddingExists

\* How many samples each rank gets.
Share == Len(Narrowed) \div World

\* Sequences: concatenation and prefix.
LEMMA Concatenated ==
  ASSUME NEW S, NEW s \in Seq(S), NEW u \in Seq(S)
  PROVE  /\ s \o u \in Seq(S) /\ Len(s \o u) = Len(s) + Len(u)
         /\ \A k \in 1..Len(s) : (s \o u)[k] = s[k]
OBVIOUS

LEMMA Front ==
  ASSUME NEW S, NEW s \in Seq(S), NEW c \in 0..Len(s)
  PROVE  SubSeq(s, 1, c) \in Seq(S) /\ Len(SubSeq(s, 1, c)) = c
OBVIOUS

\* Whatever the policy, the narrowed list divides by the number of ranks, starts
\* like the permutation, and differs from it in length by less than World.
LEMMA NarrowedIs ==
  ASSUME Config, Usable
  PROVE  /\ Narrowed \in Seq(Samples) /\ Share \in Nat /\ Len(Narrowed) = Share * World
         /\ \A k \in 1..Len(Narrowed) : k <= len => Narrowed[k] = shuffled[k]
         /\ policy = "Drop" => Len(Narrowed) <= len /\ len < Len(Narrowed) + World
         /\ policy = "Pad" => len <= Len(Narrowed) /\ Len(Narrowed) < len + World
<1> USE WorldAssumption
<1>1. /\ shuffled \in [1..len -> Samples] /\ len \in Nat
  BY DEF Config, Bijection, Injection
<1>2. shuffled \in Seq(Samples) /\ Len(shuffled) = len
  BY <1>1
<1>3. ASSUME NEW m \in Nat, Narrowed \in Seq(Samples), Len(Narrowed) = m * World
      PROVE  Share = m /\ Len(Narrowed) = Share * World
  <2>1. PICK a \in Nat : a = Len(Narrowed)
    BY <1>3
  <2>2. a = m * World + 0 /\ 0 \in 0..World - 1
    BY <1>3, <2>1, TimesKeepsOrder
  <2>3. a \div World = m
    BY <2>2, DivIs
  <2> QED BY <1>3, <2>1, <2>3 DEF Share
<1>4. CASE policy = "Drop"
  <2>1. PICK m \in Nat, e \in 0..World - 1 : len = m * World + e /\ e = len % World
    BY <1>1, DivMod
  <2>2. PICK n \in Int : n = m * World
    BY TimesKeepsOrder
  <2>3. n \in 0..len /\ n = len - (len % World) /\ len < n + World
    <3>1. 0 * World <= m * World /\ 0 * World = 0
      BY TimesKeepsOrder
    <3> QED BY <2>1, <2>2, <3>1
  <2>4. Narrowed = SubSeq(shuffled, 1, n)
    BY <1>4, <2>3 DEF Narrowed, Truncated
  <2>5. /\ Narrowed \in Seq(Samples) /\ Len(Narrowed) = n
        /\ \A k \in 1..n : Narrowed[k] = shuffled[k]
    BY <1>2, <2>3, <2>4
  <2>6. Share = m /\ Len(Narrowed) = Share * World
    <3>1. Len(Narrowed) = m * World
      BY <2>2, <2>5
    <3> QED BY <1>3, <2>1, <2>5, <3>1
  <2>7. Share \in Nat /\ Len(Narrowed) <= len /\ len < Len(Narrowed) + World
    BY <2>1, <2>3, <2>5, <2>6
  <2>8. \A k \in 1..Len(Narrowed) : k <= len => Narrowed[k] = shuffled[k]
    BY <2>5
  <2> QED BY <1>4, <2>5, <2>6, <2>7, <2>8
<1>5. CASE policy = "Pad"
  <2>1. PICK m \in Nat : m = CeilDiv(len, World)
    <3>1. len \in Int /\ len + World - 1 >= 0
      BY <1>1
    <3> QED BY <3>1, CeilDivIs
  <2>2. PICK n \in Int : n = m * World
    BY TimesKeepsOrder
  <2>3. len <= n /\ n < len + World /\ n - len <= len /\ NextMultiple(len, World) = n
    <3>1. len \in Int /\ len + World - 1 >= 0
      BY <1>1
    <3>2. NextMultiple(len, World) = n
      BY <2>1, <2>2 DEF NextMultiple
    <3>3. len <= n /\ n < len + World
      BY <2>1, <2>2, <3>1, CeilDivIs
    <3> QED BY <1>5, <3>2, <3>3 DEF Usable, PaddingExists
  <2>4. Narrowed = shuffled \o SubSeq(shuffled, 1, n - len)
    BY <1>5, <2>3 DEF Narrowed, Padded
  <2>a. PICK c \in 0..len : c = n - len
    BY <1>1, <2>3
  <2>5. PICK more \in Seq(Samples) : more = SubSeq(shuffled, 1, n - len) /\ Len(more) = c
    <3>1. SubSeq(shuffled, 1, c) \in Seq(Samples) /\ Len(SubSeq(shuffled, 1, c)) = c
      BY <1>2, <2>a, Front
    <3> QED BY <2>a, <3>1
  <2>6. Narrowed = shuffled \o more
    BY <2>4, <2>5
  <2>7. Narrowed \in Seq(Samples) /\ Len(Narrowed) = n
    BY <1>2, <2>a, <2>5, <2>6, Concatenated
  <2>8. \A k \in 1..n : k <= len => Narrowed[k] = shuffled[k]
    BY <1>2, <2>a, <2>5, <2>6, Concatenated
  <2>9. Share = m /\ Len(Narrowed) = Share * World
    <3>1. Len(Narrowed) = m * World
      BY <2>2, <2>7
    <3> QED BY <1>3, <2>1, <2>7, <3>1
  <2> QED BY <1>5, <2>1, <2>3, <2>7, <2>8, <2>9
<1> QED BY <1>4, <1>5 DEF Config

\* A rank's slice is every World-th index, and all slices are of one length.
LEMMA SliceIs ==
  ASSUME Config, Usable, NEW r \in Ranks
  PROVE  /\ Slice(r) \in Seq(Samples) /\ Len(Slice(r)) = Share
         /\ \A k \in 1..Share : /\ r + (k - 1) * World + 1 \in 1..Len(Narrowed)
                                /\ Slice(r)[k] = Narrowed[r + (k - 1) * World + 1]
<1> USE WorldAssumption
<1>0. r \in 0..World - 1
  BY DEF Ranks
<1>1. /\ Narrowed \in Seq(Samples) /\ Share \in Nat /\ Len(Narrowed) = Share * World
      /\ Len(Narrowed) \in Nat
  BY NarrowedIs
<1>2. CeilDiv(Len(Narrowed) - r, World) = Share
  <2>1. PICK a \in Nat : a = Share * World + (World - 1 - r)
    BY <1>0, <1>1
  <2>2. Len(Narrowed) - r + World - 1 = a
    BY <1>0, <1>1, <2>1
  <2>3. a \div World = Share
    BY <1>0, <1>1, <2>1, DivIs
  <2> QED BY <2>2, <2>3 DEF CeilDiv
<1>3. Slice(r) = [k \in 1..Share |-> Narrowed[r + (k - 1) * World + 1]]
  BY <1>2 DEF Slice
<1>4. ASSUME NEW k \in 1..Share
      PROVE  r + (k - 1) * World + 1 \in 1..Len(Narrowed)
  <2>1. 0 * World <= (k - 1) * World /\ 0 * World = 0 /\ k * World <= Share * World
    BY <1>1, TimesKeepsOrder
  <2>2. (k - 1) * World = k * World - World /\ k * World \in Int
    BY TimesNext, TimesKeepsOrder
  <2> QED BY <1>0, <1>1, <2>1, <2>2
<1>5. \A k \in 1..Share : Narrowed[r + (k - 1) * World + 1] \in Samples
  BY <1>1, <1>4
<1> QED BY <1>1, <1>3, <1>4, <1>5

\* How many batches a slice of n samples is cut into.
Number(n) == IF dropLast THEN n \div batchSize ELSE CeilDiv(n, batchSize)

\* How many batches there are against how many samples.
LEMMA NumberIs ==
  ASSUME Config, NEW n \in Nat
  PROVE  /\ Number(n) \in Nat
         /\ (Number(n) - 1) * batchSize < n
         /\ ~dropLast => n <= Number(n) * batchSize
         /\ dropLast => Number(n) * batchSize <= n /\ n < Number(n) * batchSize + batchSize
<1>0. batchSize \in Nat \ {0}
  BY DEF Config
<1>1. CASE dropLast
  <2>1. PICK q \in Nat, e \in 0..batchSize - 1 : q = n \div batchSize /\ n = q * batchSize + e
    BY <1>0, DivMod
  <2>2. Number(n) = q
    BY <1>1, <2>1 DEF Number
  <2>3. (q - 1) * batchSize = q * batchSize - batchSize /\ q * batchSize \in Int
    BY <1>0, TimesNext, TimesKeepsOrder
  <2>4. (q - 1) * batchSize < n /\ q * batchSize <= n /\ n < q * batchSize + batchSize
    BY <1>0, <2>1, <2>3
  <2> QED BY <1>1, <2>2, <2>4
<1>2. CASE ~dropLast
  <2>1. n \in Int /\ n + batchSize - 1 >= 0
    BY <1>0
  <2>2. Number(n) = CeilDiv(n, batchSize)
    BY <1>2 DEF Number
  <2> QED BY <1>0, <1>2, <2>1, <2>2, CeilDivIs
<1> QED BY <1>1, <1>2

\* Where a batch starts and ends.
LEMMA BatchSpan ==
  ASSUME Config, NEW n \in Nat, NEW i \in 1..Number(n)
  PROVE  /\ (i - 1) * batchSize \in 0..n - 1
         /\ i * batchSize = (i - 1) * batchSize + batchSize
         /\ Smaller(i * batchSize, n) \in (i - 1) * batchSize + 1 .. n
         /\ Smaller(i * batchSize, n) - (i - 1) * batchSize \in 1..batchSize
<1>0. batchSize \in Nat \ {0} /\ Number(n) \in Nat /\ (Number(n) - 1) * batchSize < n
  BY NumberIs DEF Config
<1>1. /\ 0 * batchSize <= (i - 1) * batchSize /\ 0 * batchSize = 0
      /\ (i - 1) * batchSize <= (Number(n) - 1) * batchSize
      /\ (i - 1) * batchSize \in Int /\ (Number(n) - 1) * batchSize \in Int
  BY <1>0, TimesKeepsOrder
<1>2. i * batchSize = (i - 1) * batchSize + batchSize
  BY <1>0, TimesNext
<1>3. PICK x \in Int, y \in Int : x = (i - 1) * batchSize /\ y = i * batchSize
  BY <1>0, <1>1, <1>2
<1>4. x \in 0..n - 1 /\ y = x + batchSize
  BY <1>0, <1>1, <1>2, <1>3
<1>5. Smaller(y, n) \in x + 1 .. n /\ Smaller(y, n) - x \in 1..batchSize
  BY <1>0, <1>4 DEF Smaller
<1> QED BY <1>2, <1>3, <1>4, <1>5

\* A part of a sequence.
LEMMA Middle ==
  ASSUME NEW S, NEW s \in Seq(S), NEW x \in 0..Len(s) - 1, NEW y \in x + 1 .. Len(s)
  PROVE  /\ Len(SubSeq(s, x + 1, y)) = y - x
         /\ \A k \in 1..y - x : SubSeq(s, x + 1, y)[k] = s[x + k]
OBVIOUS

\* A batch is the slice's samples from its start to its end.
LEMMA BatchesAre ==
  ASSUME Config, NEW S, NEW s \in Seq(S)
  PROVE  /\ Len(Batches(s)) = Number(Len(s))
         /\ \A i \in 1..Number(Len(s)) :
              /\ Len(Batches(s)[i]) = Smaller(i * batchSize, Len(s)) - (i - 1) * batchSize
              /\ \A k \in 1..Len(Batches(s)[i]) : Batches(s)[i][k] = s[(i - 1) * batchSize + k]
<1>1. PICK n \in Nat : n = Len(s)
  OBVIOUS
<1>2. Number(n) \in Nat
  BY NumberIs
<1>3. Batches(s) = [i \in 1..Number(n) |->
                      SubSeq(s, (i - 1) * batchSize + 1, Smaller(i * batchSize, n))]
  BY <1>1 DEF Batches, Number
<1>4. Len(Batches(s)) = Number(n)
  BY <1>2, <1>3
<1>5. ASSUME NEW i \in 1..Number(n)
      PROVE  /\ Len(Batches(s)[i]) = Smaller(i * batchSize, n) - (i - 1) * batchSize
             /\ \A k \in 1..Len(Batches(s)[i]) : Batches(s)[i][k] = s[(i - 1) * batchSize + k]
  <2>1. PICK x \in 0..n - 1 : x = (i - 1) * batchSize
    BY BatchSpan
  <2>a. PICK y \in x + 1 .. n : y = Smaller(i * batchSize, n)
    BY <2>1, BatchSpan
  <2>2. Batches(s)[i] = SubSeq(s, x + 1, y)
    BY <1>3, <2>1, <2>a
  <2>3. /\ Len(SubSeq(s, x + 1, y)) = y - x
        /\ \A k \in 1..y - x : SubSeq(s, x + 1, y)[k] = s[x + k]
    BY <1>1, <2>1, Middle
  <2> QED BY <2>1, <2>a, <2>2, <2>3
<1> QED BY <1>1, <1>4, <1>5

\* The batch and the place in it of the c-th sample of a slice (counted from 0).
LEMMA BatchOf ==
  ASSUME Config, NEW S, NEW s \in Seq(S), NEW c \in 0..Len(s) - 1
  PROVE  \/ \E i \in 1..Len(Batches(s)) : \E k \in 1..Len(Batches(s)[i]) : Batches(s)[i][k] = s[c + 1]
         \/ /\ dropLast
            /\ \E d \in 1..batchSize - 1 : c + 1 = Number(Len(s)) * batchSize + d
<1>1. PICK n \in Nat : n = Len(s)
  OBVIOUS
<1>2. batchSize \in Nat \ {0} /\ c \in Nat /\ c < n
  BY <1>1 DEF Config
<1>3. PICK q \in Nat, e \in 0..batchSize - 1 : c = q * batchSize + e
  BY <1>2, DivMod
<1>4. Number(n) \in Nat
  BY NumberIs
<1>5. CASE q < Number(n)
  <2>1. q + 1 \in 1..Number(n) /\ (q + 1) - 1 = q /\ q * batchSize \in Int
    BY <1>2, <1>4, <1>5, TimesKeepsOrder
  <2>2. (q + 1) * batchSize = q * batchSize + batchSize
    BY <1>2, TimesNext
  <2>3. e + 1 \in 1 .. Smaller((q + 1) * batchSize, n) - q * batchSize
    BY <1>2, <1>3, <2>1, <2>2 DEF Smaller
  <2>4. /\ Len(Batches(s)[q + 1]) = Smaller((q + 1) * batchSize, n) - q * batchSize
        /\ \A k \in 1..Len(Batches(s)[q + 1]) : Batches(s)[q + 1][k] = s[q * batchSize + k]
        /\ Len(Batches(s)) = Number(n)
    BY <1>1, <2>1, BatchesAre
  <2>5. q * batchSize + (e + 1) = c + 1
    BY <1>2, <1>3, <2>1
  <2>6. e + 1 \in 1..Len(Batches(s)[q + 1])
    BY <2>3, <2>4
  <2>7. Batches(s)[q + 1][e + 1] = s[c + 1]
    BY <2>4, <2>5, <2>6
  <2> QED BY <2>1, <2>4, <2>6, <2>7
<1>6. CASE ~(q < Number(n))
  <2>1. Number(n) * batchSize <= q * batchSize /\ Number(n) * batchSize \in Int /\ q * batchSize \in Int
    BY <1>2, <1>4, <1>6, TimesKeepsOrder
  <2>2. dropLast /\ n < Number(n) * batchSize + batchSize
    <3>1. c >= Number(n) * batchSize
      BY <1>2, <1>3, <2>1
    <3>2. /\ ~dropLast => n <= Number(n) * batchSize
          /\ dropLast => n < Number(n) * batchSize + batchSize
      BY NumberIs
    <3> QED BY <1>1, <1>2, <2>1, <3>1, <3>2 DEF Config
  <2>3. PICK d \in 1..batchSize - 1 : d = c + 1 - Number(n) * batchSize
    BY <1>2, <1>3, <2>1, <2>2
  <2> QED BY <1>1, <1>2, <2>1, <2>2, <2>3
<1> QED BY <1>5, <1>6

----------------------------------------------------------------------------
\* A rank's batches are none yet, or those of its slice of the permutation.
Cut(r) == Usable /\ batches[r] = Batches(Slice(r))
Parted ==
  /\ DOMAIN batches = Ranks /\ DOMAIN status = Ranks
  /\ \A r \in Ranks : (batches[r] = <<>> \/ Cut(r)) /\ (status[r] = "running" => Cut(r))

\* An epoch is derived from a dataset and a permutation that stay.
LEMMA EpochFixed ==
  ASSUME [EpochNext]_epochVars
  PROVE  UNCHANGED epoch
BY DEF EpochNext, Derive, DerivePanics, Step, epochVars

LEMMA SameSlices ==
  ASSUME UNCHANGED epoch
  PROVE  /\ Ranks' = Ranks /\ Samples' = Samples /\ Usable' = Usable
         /\ \A r \in Ranks : Batches(Slice(r))' = Batches(Slice(r))
<1>1. UNCHANGED <<len, batchSize, policy, dropLast, shuffled>>
  BY DEF epoch
<1>2. Ranks' = Ranks /\ Samples' = Samples /\ Usable' = Usable
  BY <1>1 DEF Ranks, Samples, Usable, PaddingExists, NextMultiple, CeilDiv
<1>3. Narrowed' = Narrowed
  BY <1>1 DEF Narrowed, Truncated, Padded, NextMultiple, CeilDiv
<1>4. ASSUME NEW r \in Ranks PROVE Batches(Slice(r))' = Batches(Slice(r))
  <2>1. Slice(r)' = Slice(r)
    BY <1>3 DEF Slice, CeilDiv
  <2> QED BY <1>1, <2>1 DEF Batches, CeilDiv, Smaller
<1> QED BY <1>2, <1>4

\* The inductive invariant: the batches of a rank are those of its slice of the
\* same permutation, with the same narrowing as on every other rank.
LEMMA EpochParted == EpochSpec => [](Config /\ Parted)
<1> USE WorldAssumption, PoliciesAssumption
<1>1. EpochInit => Config /\ Parted
  BY DEF EpochInit, Config, Parted
<1>2. Config /\ Parted /\ [EpochNext]_epochVars => (Config /\ Parted)'
  <2> SUFFICES ASSUME Config, Parted, [EpochNext]_epochVars PROVE Config' /\ Parted'
    OBVIOUS
  <2>1. UNCHANGED epoch
    BY EpochFixed
  <2>2. Config'
    BY <2>1, SameSlices DEF Config, epoch
  <2>3. ASSUME NEW r \in Ranks PROVE Cut(r)' <=> Usable /\ batches'[r] = Batches(Slice(r))
    BY <2>1, SameSlices DEF Cut
  <2>4. ASSUME NEW r \in Ranks, Derive(r) PROVE Parted'
    <3>1. Usable
      BY <2>4 DEF Derive, Usable
    <3> QED BY <2>1, <2>3, <2>4, <3>1, SameSlices DEF Derive, Parted, Cut
  <2>5. ASSUME NEW r \in Ranks, DerivePanics(r) PROVE Parted'
    BY <2>1, <2>3, <2>5, SameSlices DEF DerivePanics, Parted, Cut
  <2>6. ASSUME status' = status, batches' = batches PROVE Parted'
    BY <2>1, <2>3, <2>6, SameSlices DEF Parted, Cut
  <2>7. ASSUME NEW r \in Ranks, Step(r) PROVE Parted'
    BY <2>6, <2>7 DEF Step
  <2>8. CASE UNCHANGED epochVars
    <3>1. status' = status /\ batches' = batches
      BY <2>8 DEF epochVars
    <3> QED BY <2>2, <2>6, <3>1
  <2> QED BY <2>2, <2>4, <2>5, <2>7, <2>8 DEF EpochNext
<1> QED BY <1>1, <1>2, PTL DEF EpochSpec

\* The place in the narrowed permutation of what is read.
Place(read) == read[1] + ((read[2] - 1) * batchSize + (read[3] - 1)) * World + 1

\* A read takes the sample at its place of the narrowed permutation.
LEMMA ReadIs ==
  ASSUME Config, Parted, NEW read \in Reads
  PROVE  /\ Usable
         /\ read[1] \in 0..World - 1 /\ read[2] \in Nat \ {0} /\ read[3] \in 1..batchSize
         /\ (read[2] - 1) * batchSize + (read[3] - 1) \in Nat
         /\ Place(read) \in 1..Len(Narrowed) /\ SampleAt(read) = Narrowed[Place(read)]
         /\ read = <<read[1], read[2], read[3]>>
<1> USE WorldAssumption
<1>1. /\ read[1] \in Ranks /\ read[2] \in 1..len + World /\ read[3] \in 1..len + World
      /\ read[2] <= Len(batches[read[1]]) /\ read[3] <= Len(batches[read[1]][read[2]])
      /\ read = <<read[1], read[2], read[3]>>
  BY DEF Reads
<1>2. PICK r \in Ranks, i \in Nat \ {0}, k \in Nat \ {0} : r = read[1] /\ i = read[2] /\ k = read[3]
  BY <1>1 DEF Config
<1>3. i <= Len(batches[r]) /\ k <= Len(batches[r][i])
  BY <1>1, <1>2
<1>4. Cut(r)
  BY <1>3 DEF Parted
<1>5. PICK s \in Seq(Samples) : s = Slice(r) /\ Len(s) = Share
  BY <1>4, SliceIs DEF Cut
<1>6. Share \in Nat
  BY <1>4, NarrowedIs DEF Cut
<1>7. i \in 1..Number(Share) /\ Len(batches[r][i]) = Smaller(i * batchSize, Share) - (i - 1) * batchSize
      /\ \A m \in 1..Len(batches[r][i]) : batches[r][i][m] = s[(i - 1) * batchSize + m]
  <2>1. Len(Batches(s)) = Number(Share) /\ Number(Share) \in Nat
    BY <1>5, <1>6, BatchesAre, NumberIs
  <2>2. batches[r] = Batches(s)
    BY <1>4, <1>5 DEF Cut
  <2>3. i \in 1..Number(Share)
    BY <1>3, <2>1, <2>2
  <2> QED BY <1>5, <2>2, <2>3, BatchesAre
<1>8. PICK x \in 0..Share - 1 : x = (i - 1) * batchSize
  BY <1>6, <1>7, BatchSpan
<1>9. PICK y \in x + 1 .. Share : y = Smaller(i * batchSize, Share) /\ y - x \in 1..batchSize
  BY <1>6, <1>7, <1>8, BatchSpan
<1>a. PICK z \in 1..batchSize : z = y - x /\ z = Len(batches[r][i])
  BY <1>7, <1>8, <1>9
<1>10. k \in 1..batchSize /\ k \in 1..Len(batches[r][i]) /\ x + k \in 1..Share
  <2>1. k <= z /\ z \in Nat /\ z <= batchSize /\ batchSize \in Nat
    BY <1>3, <1>a DEF Config
  <2>2. x + k <= y /\ y <= Share /\ x \in Nat /\ y \in Nat
    BY <1>6, <1>8, <1>9, <1>a, <2>1
  <2> QED BY <1>6, <1>a, <2>1, <2>2
<1>11. batches[r][i][k] = s[x + k]
  BY <1>7, <1>8, <1>10
<1>12. /\ r + ((x + k) - 1) * World + 1 \in 1..Len(Narrowed)
       /\ s[x + k] = Narrowed[r + ((x + k) - 1) * World + 1]
  BY <1>4, <1>5, <1>10, SliceIs DEF Cut
<1>13. (x + k) - 1 = x + (k - 1) /\ x + (k - 1) \in Nat
  BY <1>8, <1>10
<1>14. Place(read) = r + ((x + k) - 1) * World + 1 /\ SampleAt(read) = batches[r][i][k]
  BY <1>2, <1>8, <1>13 DEF Place, SampleAt
<1>15. Usable /\ r \in 0..World - 1
  BY <1>4 DEF Cut, Ranks
<1> QED BY <1>1, <1>2, <1>8, <1>10, <1>11, <1>12, <1>13, <1>14, <1>15

\* No two reads, of one rank or of two, take from the same place.
LEMMA OnePlace ==
  ASSUME Config, Parted, NEW a \in Reads, NEW b \in Reads, Place(a) = Place(b)
  PROVE  a = b
<1> USE WorldAssumption
<1>1. PICK x \in Nat, y \in Nat : /\ x = (a[2] - 1) * batchSize + (a[3] - 1)
                                 /\ y = (b[2] - 1) * batchSize + (b[3] - 1)
  BY ReadIs
<1>2. a[1] \in 0..World - 1 /\ b[1] \in 0..World - 1
  BY ReadIs
<1>3. x * World + a[1] = y * World + b[1]
  <2>1. x * World \in Int /\ y * World \in Int
    BY TimesKeepsOrder
  <2> QED BY <1>1, <1>2, <2>1 DEF Place
<1>4. x = y /\ a[1] = b[1]
  BY <1>2, <1>3, DivUnique
<1>5. batchSize \in Nat \ {0}
  BY DEF Config
<1>a. PICK i \in Int, k \in 0..batchSize - 1 : i = a[2] - 1 /\ k = a[3] - 1 /\ a[2] = i + 1 /\ a[3] = k + 1
  <2>1. a[2] \in Nat \ {0} /\ a[3] \in 1..batchSize
    BY ReadIs
  <2> QED BY <1>5, <2>1
<1>b. PICK j \in Int, m \in 0..batchSize - 1 : j = b[2] - 1 /\ m = b[3] - 1 /\ b[2] = j + 1 /\ b[3] = m + 1
  <2>1. b[2] \in Nat \ {0} /\ b[3] \in 1..batchSize
    BY ReadIs
  <2> QED BY <1>5, <2>1
<1>6. i * batchSize + k = j * batchSize + m
  BY <1>1, <1>4, <1>a, <1>b
<1>c. i = j /\ k = m
  BY <1>5, <1>6, DivUnique
<1>7. a[2] = b[2] /\ a[3] = b[3]
  BY <1>a, <1>b, <1>c
<1>8. a = <<a[1], a[2], a[3]>> /\ b = <<b[1], b[2], b[3]>>
  BY ReadIs
<1> QED BY <1>4, <1>7, <1>8

----------------------------------------------------------------------------
\* The narrowed permutation repeats a sample only past its first len places.
LEMMA FirstTime ==
  ASSUME Config, Parted, NEW a \in Reads, NEW b \in Reads, Place(a) <= len, Place(b) <= len,
         SampleAt(a) = SampleAt(b)
  PROVE  a = b
<1>1. /\ Usable /\ Place(a) \in 1..Len(Narrowed) /\ Place(b) \in 1..Len(Narrowed)
      /\ Narrowed[Place(a)] = Narrowed[Place(b)] /\ Len(Narrowed) \in Nat
  <2>1. /\ Usable /\ Place(a) \in 1..Len(Narrowed) /\ SampleAt(a) = Narrowed[Place(a)]
        /\ Place(b) \in 1..Len(Narrowed) /\ SampleAt(b) = Narrowed[Place(b)]
    BY ReadIs
  <2>2. Len(Narrowed) \in Nat
    BY <2>1, NarrowedIs
  <2> QED BY <2>1, <2>2
<1>2. shuffled[Place(a)] = shuffled[Place(b)] /\ Place(a) \in 1..len /\ Place(b) \in 1..len
  BY <1>1, NarrowedIs DEF Config
<1>3. Place(a) = Place(b)
  BY <1>2 DEF Config, Bijection, Injection, IsInjective
<1> QED BY <1>3, OnePlace

LEMMA RepeatsFew == ASSUME Config, Parted PROVE FewRepeats
<1> USE WorldAssumption
<1> DEFINE Image == {SampleAt(read) : read \in Reads}
<1> DEFINE early == {read \in Reads : Place(read) <= len}
<1>1. CASE Reads = {}
  <2>1. Image = {}
    BY <1>1
  <2>2. Cardinality(Reads) = 0 /\ Cardinality(Image) = 0
    BY <1>1, <2>1, FS_EmptySet
  <2> HIDE DEF Image
  <2>3. Cardinality(Reads) - Cardinality(Image) = 0 /\ 0 < World
    BY <2>2
  <2> QED BY <2>3 DEF FewRepeats, Image
<1>2. CASE Reads # {}
  <2>1. Usable
    BY <1>2, ReadIs
  <2>2. PICK n \in Nat : n = Len(Narrowed)
    BY <2>1, NarrowedIs
  <2>3. len \in Nat /\ (policy = "Drop" => n <= len) /\ (policy # "Drop" => n < len + World)
    BY <2>1, <2>2, NarrowedIs DEF Config
  <2>4. IsFiniteSet(Reads)
    <3> DEFINE at == [read \in Reads |-> Place(read)]
    <3>1. at \in Injection(Reads, 1..n)
      BY <2>2, ReadIs, OnePlace DEF Injection, IsInjective
    <3>2. IsFiniteSet(1..n)
      BY FS_Interval
    <3> QED BY <3>1, <3>2, FS_Injection
  <2>5. /\ IsFiniteSet(Image) /\ Cardinality(Image) <= Cardinality(Reads)
    <3> DEFINE sample == [read \in Reads |-> SampleAt(read)]
    <3>1. sample \in Surjection(Reads, Image)
      BY DEF Surjection
    <3> HIDE DEF sample, Image
    <3> QED BY <2>4, <3>1, FS_Surjection
  <2>6. /\ IsFiniteSet(early) /\ IsFiniteSet(Reads \ early)
        /\ Cardinality(Reads) = Cardinality(early) + Cardinality(Reads \ early)
        /\ Cardinality(early) \in Nat /\ Cardinality(Reads \ early) \in Nat
    <3>1. early \in SUBSET Reads /\ Reads \cap early = early
      OBVIOUS
    <3> HIDE DEF early
    <3>2. IsFiniteSet(early)
      BY <2>4, <3>1, FS_Subset
    <3>3. IsFiniteSet(Reads \ early) /\ Cardinality(Reads \ early) = Cardinality(Reads) - Cardinality(early)
      BY <2>4, <3>1, FS_Difference
    <3>4. /\ Cardinality(Reads) \in Nat /\ Cardinality(early) \in Nat
          /\ Cardinality(Reads \ early) \in Nat
      BY <2>4, <3>2, <3>3, FS_CardinalityType
    <3> QED BY <3>2, <3>3, <3>4
  <2>7. Cardinality(early) <= Cardinality(Image)
    <3> DEFINE sample == [read \in early |-> SampleAt(read)]
    <3>1. sample \in Injection(early, Image)
      BY FirstTime DEF Injection, IsInjective
    <3> HIDE DEF sample, early, Image
    <3> QED BY <2>5, <3>1, FS_Injection
  <2>8. Cardinality(Reads \ early) <= IF len + 1 > n THEN 0 ELSE n - len
    <3> DEFINE late == Reads \ early
    <3> DEFINE at == [read \in late |-> Place(read)]
    <3>1. at \in Injection(late, len + 1 .. n)
      <4>1. \A read \in late : Place(read) \in len + 1 .. n
        BY <2>2, <2>3, ReadIs
      <4>2. \A a, b \in late : Place(a) = Place(b) => a = b
        BY OnePlace
      <4> QED BY <4>1, <4>2 DEF Injection, IsInjective
    <3>2. IsFiniteSet(len + 1 .. n) /\ Cardinality(len + 1 .. n) = IF len + 1 > n THEN 0 ELSE n - (len + 1) + 1
      BY <2>3, FS_Interval
    <3> HIDE DEF at
    <3>3. Cardinality(late) <= Cardinality(len + 1 .. n)
      BY <3>1, <3>2, FS_Injection
    <3> HIDE DEF late
    <3>4. Cardinality(late) <= IF len + 1 > n THEN 0 ELSE n - len
      BY <2>3, <3>2, <3>3
    <3> QED BY <3>4 DEF late
  <2>9. Cardinality(Image) \in Nat
    BY <2>5, FS_CardinalityType
  <2>10. /\ Cardinality(Reads) - Cardinality(Image) \in 0..Cardinality(Reads \ early)
    BY <2>5, <2>6, <2>7, <2>9
  <2> HIDE DEF early, Image
  <2>11. /\ policy = "Drop" => Cardinality(Reads) - Cardinality(Image) = 0
         /\ policy # "Drop" => Cardinality(Reads) - Cardinality(Image) < World
    BY <2>3, <2>6, <2>8, <2>10
  <2> QED BY <2>11 DEF FewRepeats, Image
<1> QED BY <1>1, <1>2

----------------------------------------------------------------------------
\* Everything some rank reads, and the place that a rank's dropped last batch
\* leaves unread.
All == UNION {Seen(r) : r \in Ranks}
TailPlace(r, d) == r + (Number(Share) * batchSize + d - 1) * World + 1

\* A batch has at least one sample, at most batchSize, and all are in the dataset.
LEMMA BatchTyped ==
  ASSUME Config, NEW r \in Ranks, Cut(r), NEW i \in 1..Len(batches[r])
  PROVE  Len(batches[r][i]) \in 1..batchSize /\ Range(batches[r][i]) \subseteq Samples
<1>1. PICK s \in Seq(Samples) : s = Slice(r) /\ batches[r] = Batches(s)
  BY SliceIs DEF Cut
<1>2. PICK n \in Nat : n = Len(s)
  OBVIOUS
<1>3. Len(Batches(s)) = Number(n) /\ Number(n) \in Nat
  BY <1>2, BatchesAre, NumberIs
<1>4. i \in 1..Number(n)
  BY <1>1, <1>3
<1>5. PICK x \in 0..n - 1 : x = (i - 1) * batchSize
  BY <1>4, BatchSpan
<1>6. PICK y \in x + 1 .. n : y = Smaller(i * batchSize, n) /\ y - x \in 1..batchSize
  BY <1>4, <1>5, BatchSpan
<1>7. Batches(s)[i] = SubSeq(s, x + 1, y)
  BY <1>2, <1>4, <1>5, <1>6 DEF Batches, Number
<1>8. SubSeq(s, x + 1, y) \in Seq(Samples) /\ Len(SubSeq(s, x + 1, y)) = y - x
  BY <1>2, <1>5, <1>6
<1> QED BY <1>1, <1>6, <1>7, <1>8 DEF Range

\* What is read is in the dataset.
LEMMA AllAreSamples == ASSUME Config, \A r \in Ranks : Cut(r) PROVE All \subseteq Samples
<1>1. \A r \in Ranks : Seen(r) \subseteq Samples
  BY BatchTyped DEF Seen
<1> QED BY <1>1 DEF All

\* Every place of the narrowed permutation is read, unless it is in the last,
\* incomplete batch of a rank that drops it.
LEMMA PlaceRead ==
  ASSUME Config, \A r \in Ranks : Cut(r), NEW k \in 1..Len(Narrowed)
  PROVE  \/ Narrowed[k] \in All
         \/ dropLast /\ \E r \in Ranks, d \in 1..batchSize - 1 : k = TailPlace(r, d)
<1> USE WorldAssumption
<1>1. Usable /\ 0 \in Ranks
  BY DEF Cut, Ranks
<1>2. Share \in Nat /\ Len(Narrowed) = Share * World /\ Len(Narrowed) \in Nat
  BY <1>1, NarrowedIs
<1>3. PICK c \in Nat, r \in 0..World - 1 : k - 1 = c * World + r
  <2>1. PICK a \in Nat : a = k - 1
    BY <1>2
  <2> QED BY <2>1, DivMod
<1>4. c \in 0..Share - 1
  <2>1. CASE c >= Share
    <3>1. Share * World <= c * World /\ c * World \in Int
      BY <1>2, <2>1, TimesKeepsOrder
    <3> QED BY <1>2, <1>3, <3>1
  <2> QED BY <1>2, <2>1
<1>5. r \in Ranks /\ Cut(r)
  BY DEF Ranks
<1>6. PICK s \in Seq(Samples) : s = Slice(r) /\ Len(s) = Share /\ batches[r] = Batches(s)
  BY <1>5, SliceIs DEF Cut
<1>7. s[c + 1] = Narrowed[k]
  <2>1. c + 1 \in 1..Share /\ (c + 1) - 1 = c
    BY <1>2, <1>4
  <2>2. r + c * World + 1 = k
    <3>1. c * World \in Int
      BY TimesKeepsOrder
    <3> QED BY <1>3, <3>1
  <2>3. Slice(r)[c + 1] = Narrowed[r + ((c + 1) - 1) * World + 1]
    BY <1>5, <2>1, SliceIs DEF Cut
  <2> QED BY <1>6, <2>1, <2>2, <2>3
<1>8. CASE \E i \in 1..Len(Batches(s)) : \E m \in 1..Len(Batches(s)[i]) : Batches(s)[i][m] = s[c + 1]
  <2>1. PICK i \in 1..Len(Batches(s)) : \E m \in 1..Len(Batches(s)[i]) : Batches(s)[i][m] = s[c + 1]
    BY <1>8
  <2>2. PICK m \in 1..Len(Batches(s)[i]) : Batches(s)[i][m] = s[c + 1]
    BY <2>1
  <2>3. m \in DOMAIN Batches(s)[i]
    <3>1. PICK n \in Nat : n = Len(s)
      OBVIOUS
    <3>2. Len(Batches(s)) = Number(n) /\ Number(n) \in Nat
      BY <3>1, BatchesAre, NumberIs
    <3>3. PICK x \in 0..n - 1 : x = (i - 1) * batchSize
      BY <3>2, BatchSpan
    <3>4. PICK y \in x + 1 .. n : y = Smaller(i * batchSize, n)
      BY <3>2, <3>3, BatchSpan
    <3>5. Batches(s)[i] = SubSeq(s, x + 1, y)
      BY <3>1, <3>2, <3>3, <3>4 DEF Batches, Number
    <3>6. SubSeq(s, x + 1, y) \in Seq(Samples)
      BY <3>1, <3>3, <3>4
    <3> QED BY <3>5, <3>6
  <2>4. s[c + 1] \in Range(batches[r][i])
    BY <1>6, <2>2, <2>3 DEF Range
  <2>5. s[c + 1] \in Seen(r)
    BY <1>6, <2>1, <2>4 DEF Seen
  <2> QED BY <1>5, <1>7, <2>5 DEF All
<1>9. CASE dropLast /\ \E d \in 1..batchSize - 1 : c + 1 = Number(Len(s)) * batchSize + d
  <2>1. PICK d \in 1..batchSize - 1 : c + 1 = Number(Share) * batchSize + d
    BY <1>6, <1>9
  <2>2. Number(Share) * batchSize + d - 1 = c
    <3>1. PICK x \in Int : x = Number(Share) * batchSize
      BY <1>2, NumberIs, TimesKeepsOrder DEF Config
    <3> QED BY <2>1, <3>1
  <2>3. TailPlace(r, d) = k
    <3>1. c * World \in Int
      BY TimesKeepsOrder
    <3>2. TailPlace(r, d) = r + c * World + 1
      BY <2>2 DEF TailPlace
    <3> QED BY <1>3, <3>1, <3>2
  <2> QED BY <1>5, <1>9, <2>3
<1>10. c \in 0..Len(s) - 1
  BY <1>4, <1>6
<1> QED BY <1>8, <1>9, <1>10, BatchOf

\* Coverage: the samples that nobody reads are those cut off and those of the
\* dropped batches.
LEMMA CoversAll == ASSUME Config, Parted PROVE Coverage
<1> USE WorldAssumption
<1> SUFFICES ASSUME Running = Ranks
             PROVE  len - Cardinality(All) <= (IF dropLast THEN World * (batchSize - 1) ELSE 0)
                                               + (IF policy = "Drop" THEN World - 1 ELSE 0)
  BY DEF Coverage, All
<1>1. \A r \in Ranks : Cut(r)
  BY DEF Running, Parted
<1>2. Usable /\ 0 \in Ranks
  BY <1>1 DEF Cut, Ranks
<1>3. len \in Nat /\ batchSize \in Nat \ {0} /\ World \in Nat \ {0}
  BY DEF Config
<1>4. PICK n \in Nat : n = Len(Narrowed)
  BY <1>2, NarrowedIs
<1>5. (policy = "Drop" => len < n + World) /\ (policy # "Drop" => len <= n)
  BY <1>2, <1>4, NarrowedIs DEF Config
<1> DEFINE unread == Samples \ All
<1> DEFINE late == {shuffled[k] : k \in n + 1 .. len}
<1> DEFINE pairs == IF dropLast THEN Ranks \X (1..batchSize - 1) ELSE {}
<1> DEFINE tails == {Narrowed[TailPlace(x[1], x[2])] : x \in pairs}
<1>6. unread \subseteq late \cup tails
  <2> SUFFICES ASSUME NEW sample \in Samples, sample \notin All, sample \notin late
               PROVE  sample \in tails
    OBVIOUS
  <2>1. PICK k \in 1..len : sample = shuffled[k]
    BY DEF Config, Bijection, Surjection
  <2>2. k \in 1..n /\ Narrowed[k] = sample
    <3>1. k \in 1..n
      BY <1>3, <1>4, <2>1
    <3> QED BY <1>2, <1>4, <2>1, <3>1, NarrowedIs
  <2>3. PICK r \in Ranks, d \in 1..batchSize - 1 : dropLast /\ k = TailPlace(r, d)
    BY <1>1, <1>4, <2>2, PlaceRead
  <2>4. <<r, d>> \in pairs /\ <<r, d>>[1] = r /\ <<r, d>>[2] = d
    BY <2>3
  <2> QED BY <2>2, <2>3, <2>4
<1>7. IsFiniteSet(Samples) /\ Cardinality(Samples) = len
  BY <1>3, FS_Interval DEF Samples
<1>8. /\ IsFiniteSet(All) /\ IsFiniteSet(unread)
      /\ Cardinality(unread) = len - Cardinality(All)
      /\ Cardinality(unread) \in Nat /\ Cardinality(All) \in Nat
  <2>1. All \in SUBSET Samples /\ Samples \cap All = All
    BY <1>1, AllAreSamples
  <2>2. IsFiniteSet(All)
    BY <1>7, <2>1, FS_Subset
  <2>3. IsFiniteSet(unread) /\ Cardinality(unread) = Cardinality(Samples) - Cardinality(All)
    BY <1>7, <2>1, FS_Difference
  <2>4. Cardinality(unread) \in Nat /\ Cardinality(All) \in Nat
    BY <2>2, <2>3, FS_CardinalityType
  <2> QED BY <1>7, <2>2, <2>3, <2>4
<1>9. /\ IsFiniteSet(late) /\ Cardinality(late) \in Nat
      /\ Cardinality(late) <= IF policy = "Drop" THEN World - 1 ELSE 0
  <2> DEFINE places == n + 1 .. len
  <2> DEFINE f == [k \in places |-> shuffled[k]]
  <2>1. f \in Surjection(places, late)
    BY DEF Surjection
  <2>2. IsFiniteSet(places) /\ Cardinality(places) = IF n + 1 > len THEN 0 ELSE len - (n + 1) + 1
    BY <1>3, FS_Interval
  <2> HIDE DEF f, places, late
  <2>3. IsFiniteSet(late) /\ Cardinality(late) <= Cardinality(places)
    BY <2>1, <2>2, FS_Surjection
  <2>4. Cardinality(late) \in Nat
    BY <2>3, FS_CardinalityType
  <2> QED BY <1>3, <1>5, <2>2, <2>3, <2>4
<1>10. /\ IsFiniteSet(tails) /\ Cardinality(tails) \in Nat
       /\ Cardinality(tails) <= IF dropLast THEN World * (batchSize - 1) ELSE 0
  <2> DEFINE f == [x \in pairs |-> Narrowed[TailPlace(x[1], x[2])]]
  <2>1. f \in Surjection(pairs, tails)
    BY DEF Surjection
  <2>2. IsFiniteSet(pairs) /\ Cardinality(pairs) = IF dropLast THEN World * (batchSize - 1) ELSE 0
    <3>1. CASE dropLast
      <4>1. IsFiniteSet(Ranks) /\ Cardinality(Ranks) = World
        BY FS_Interval DEF Ranks
      <4>2. IsFiniteSet(1..batchSize - 1) /\ Cardinality(1..batchSize - 1) = batchSize - 1
        BY <1>3, FS_Interval
      <4>3. /\ IsFiniteSet(Ranks \X (1..batchSize - 1))
            /\ Cardinality(Ranks \X (1..batchSize - 1)) = Cardinality(Ranks) * Cardinality(1..batchSize - 1)
        BY <4>1, <4>2, FS_Product
      <4> QED BY <3>1, <4>1, <4>2, <4>3
    <3>2. CASE ~dropLast
      BY <3>2, FS_EmptySet
    <3> QED BY <3>1, <3>2
  <2> HIDE DEF f, pairs, tails
  <2>3. IsFiniteSet(tails) /\ Cardinality(tails) <= Cardinality(pairs)
    BY <2>1, <2>2, FS_Surjection
  <2>4. Cardinality(tails) \in Nat
    BY <2>3, FS_CardinalityType
  <2> QED BY <2>2, <2>3, <2>4
<1> HIDE DEF unread, late, tails, pairs
<1>11. Cardinality(unread) <= Cardinality(late) + Cardinality(tails)
  <2>1. /\ IsFiniteSet(late \cup tails)
        /\ Cardinality(late \cup tails) = Cardinality(late) + Cardinality(tails) - Cardinality(late \cap tails)
    BY <1>9, <1>10, FS_Union
  <2>2. Cardinality(late \cap tails) \in Nat
    BY <1>9, FS_Intersection, FS_CardinalityType
  <2>3. Cardinality(unread) <= Cardinality(late \cup tails)
    BY <1>6, <2>1, FS_Subset
  <2> QED BY <1>8, <1>9, <1>10, <2>1, <2>2, <2>3
<1> QED
  <2>1. PICK a \in Int : a = World * (batchSize - 1)
    BY <1>3
  <2> QED BY <1>3, <1>8, <1>9, <1>10, <1>11, <2>1

\* SharedFairly: for any dataset, batch size and number of ranks, the slices the
\* ranks cut from the same permutation leave at most World - 1 samples unread
\* (and less than a batch per rank when the last one is dropped), and no sample
\* is read twice except for Pad's at most World - 1.
THEOREM EpochShared == EpochSpec => []SharedFairly
<1>1. Config /\ Parted => SharedFairly
  BY RepeatsFew, CoversAll DEF SharedFairly
<1> QED BY <1>1, EpochParted, PTL

\* A collective that one rank has entered is one that every other rank with an
\* epoch has entered or will come to: what EpochEnds rests on.
NobodyStranded == \A r, s \in Running : entered[r] <= Len(batches[s])

\* A rank has entered a collective for each batch it has taken.
Entered ==
  /\ entered \in [Ranks -> Nat]
  /\ \A r \in Ranks : entered[r] <= Len(batches[r]) /\ Len(batches[r]) \in Nat

\* The number of batches depends on the length of a slice only, which is the same
\* for all ranks.
LEMMA CutLength ==
  ASSUME Config, Usable, NEW r \in Ranks
  PROVE  Len(Batches(Slice(r))) = Number(Share) /\ Number(Share) \in Nat
<1>1. Slice(r) \in Seq(Samples) /\ Len(Slice(r)) = Share /\ Share \in Nat
  BY SliceIs, NarrowedIs
<1>2. Len(Batches(Slice(r))) = Number(Share)
  BY <1>1, BatchesAre
<1> QED BY <1>1, <1>2, NumberIs

\* No rank enters a collective without a batch of its own.
LEMMA EnteredStays == EpochSpec => []Entered
<1>1. EpochInit => Entered
  BY DEF EpochInit, Entered
<1>2. Config /\ Parted /\ Entered /\ [EpochNext]_epochVars => Entered'
  <2> SUFFICES ASSUME Config, Parted, Entered, [EpochNext]_epochVars PROVE Entered'
    OBVIOUS
  <2>1. Ranks' = Ranks
    BY EpochFixed, SameSlices
  <2>2. ASSUME NEW r \in Ranks, Derive(r) PROVE Entered'
    <3>1. /\ entered' = entered /\ status'[r] = "running"
          /\ \A s \in Ranks : s # r => batches'[s] = batches[s]
      BY <2>2 DEF Derive, Parted
    <3>2. Len(batches'[r]) \in Nat /\ entered[r] <= Len(batches'[r])
      <4>1. batches[r] = <<>> => entered[r] = 0
        BY DEF Entered
      <4>2. Usable /\ batches'[r] = Batches(Slice(r))
        BY <2>2 DEF Derive, Usable, Parted
      <4>3. Len(batches'[r]) \in Nat
        BY <4>2, CutLength
      <4>4. batches[r] = <<>> \/ batches[r] = batches'[r]
        BY <4>2 DEF Parted, Cut
      <4> QED BY <4>1, <4>3, <4>4 DEF Entered
    <3> QED BY <2>1, <3>1, <3>2 DEF Entered
  <2>3. ASSUME NEW r \in Ranks, Step(r) PROVE Entered'
    BY <2>1, <2>3 DEF Step, Entered
  <2>4. ASSUME entered' = entered, batches' = batches PROVE Entered'
    BY <2>1, <2>4 DEF Entered
  <2>5. ASSUME NEW r \in Ranks, DerivePanics(r) PROVE Entered'
    BY <2>4, <2>5 DEF DerivePanics
  <2>6. CASE UNCHANGED epochVars
    <3>1. entered' = entered /\ batches' = batches
      BY <2>6 DEF epochVars
    <3> QED BY <2>4, <3>1
  <2> QED BY <2>2, <2>3, <2>5, <2>6 DEF EpochNext
<1> QED BY <1>1, <1>2, EpochParted, PTL DEF EpochSpec

Statuses == status \in [Ranks -> {"new", "running", "panicked"}]

\* EpochTypeOK: batches are neither empty nor too long, hold samples of the dataset,
\* and a rank takes no more of them than it has.
THEOREM EpochTypeCorrect == EpochSpec => []EpochTypeOK
<1>1. EpochInit => Statuses
  BY DEF EpochInit, Statuses
<1>2. Statuses /\ [EpochNext]_epochVars => Statuses'
  <2> SUFFICES ASSUME Statuses, [EpochNext]_epochVars PROVE Statuses'
    OBVIOUS
  <2>1. Ranks' = Ranks
    BY EpochFixed, SameSlices
  <2> QED BY <2>1 DEF Statuses, EpochNext, Derive, DerivePanics, Step, epochVars
<1>3. Config /\ Parted /\ Entered /\ Statuses => EpochTypeOK
  <2> SUFFICES ASSUME Config, Parted, Entered, Statuses, NEW r \in Ranks
               PROVE  /\ entered[r] \in 0..Len(batches[r])
                      /\ \A i \in 1..Len(batches[r]) :
                           /\ Len(batches[r][i]) \in 1..batchSize
                           /\ Range(batches[r][i]) \subseteq Samples
    BY DEF EpochTypeOK, Statuses
  <2>1. entered[r] \in 0..Len(batches[r])
    BY DEF Entered
  <2>2. CASE batches[r] = <<>>
    BY <2>1, <2>2
  <2>3. CASE batches[r] # <<>>
    <3>1. Cut(r)
      BY <2>3 DEF Parted
    <3> QED BY <2>1, <3>1, BatchTyped
  <2> QED BY <2>2, <2>3
<1> QED BY <1>1, <1>2, <1>3, EpochParted, EnteredStays, PTL DEF EpochSpec

\* The ranks' epochs have equally many batches whatever the length of the dataset
\* and the remainder policy, so no rank waits in a collective that another one,
\* done with its epoch, will never enter.
THEOREM EpochsEqual == EpochSpec => []NobodyStranded
<1>1. Config /\ Parted /\ Entered => NobodyStranded
  <2> SUFFICES ASSUME Config, Parted, Entered, NEW r \in Running, NEW s \in Running
               PROVE  entered[r] <= Len(batches[s])
    BY DEF NobodyStranded
  <2>1. r \in Ranks /\ s \in Ranks /\ Cut(r) /\ Cut(s)
    BY DEF Running, Parted
  <2>2. Len(batches[r]) = Number(Share) /\ Len(batches[s]) = Number(Share)
    BY <2>1, CutLength DEF Cut
  <2> QED BY <2>1, <2>2 DEF Entered
<1> QED BY <1>1, EpochParted, EnteredStays, PTL

=============================================================================
