---------------------------- MODULE SingleFlight ----------------------------
(***************************************************************************)
(* What the tuning service promises its callers, without clocks, epochs,   *)
(* wakeups or caches.  For each key at most one caller owns the right to   *)
(* settle a problem, the right can be taken away at any moment, and only   *)
(* its owner settles; a settled problem stays as it is and is never again  *)
(* leased under the same legal set.                                        *)
(***************************************************************************)
CONSTANTS Callers, Keys, Candidates, LegalSets, None, Nobody

VARIABLES
  owner,     \* key -> the caller entitled to settle it and its legal set
  winner     \* key, legal set -> the settled candidate, None before

Free == [caller |-> Nobody, legal |-> {}]

Init ==
  /\ owner = [k \in Keys |-> Free]
  /\ winner = [k \in Keys |-> [l \in LegalSets |-> None]]

Grant(c, k, l) ==
  /\ winner[k][l] = None
  /\ owner[k].caller # c
  /\ owner' = [owner EXCEPT ![k] = [caller |-> c, legal |-> l]]
  /\ UNCHANGED winner

Revoke(k) ==
  /\ owner' = [owner EXCEPT ![k] = Free]
  /\ UNCHANGED winner

Settle(c, k, l) ==
  /\ owner[k] = [caller |-> c, legal |-> l]
  /\ winner[k][l] = None
  /\ \E w \in l : winner' = [winner EXCEPT ![k][l] = w]
  /\ owner' = [owner EXCEPT ![k] = Free]

Next ==
  \E k \in Keys :
    \/ Revoke(k)
    \/ \E c \in Callers, l \in LegalSets : Grant(c, k, l) \/ Settle(c, k, l)

Spec == Init /\ [][Next]_<<owner, winner>>
=============================================================================
