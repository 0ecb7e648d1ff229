---------------------------- MODULE TuningCache ----------------------------
(***************************************************************************)
(* The persistent tuning cache: processes that share one JSON file.        *)
(* open, commit and clear each run under an exclusive file lock: read the  *)
(* file, quarantine or prune it, write a temporary file, fsync it, rename  *)
(* it over the old one and fsync the directory.  A process may die and the *)
(* machine may lose power between any two of these steps, and each of them *)
(* may fail.                                                               *)
(*                                                                         *)
(* A file is its set of records, or rejected bytes ("bad": not JSON, wrong *)
(* schema, wrong checksum, invalid or duplicate record).  Keys are ordered *)
(* as CacheKey is.                                                         *)
(***************************************************************************)
EXTENDS Naturals, FiniteSets, FiniteSetsExt

CONSTANTS
  Processes,
  Keys,          \* ordered cache keys, a set of numbers
  Sizes,         \* serialized sizes of a record
  Overhead,      \* serialized size of an empty cache
  Limits,        \* the limits each process opens the cache with
  MaxTime,       \* bound: the wall clock stops here
  MaxCommits,    \* bound: commits and clears
  MaxFaults      \* bound: I/O errors, deaths, power losses and damaged files

Nobody == "nobody"

ASSUME ProcessesAssumption == Nobody \notin Processes
ASSUME KeysAssumption == Keys \subseteq Nat /\ IsFiniteSet(Keys)
ASSUME SizesAssumption == Sizes \subseteq Nat \ {0} /\ Overhead \in Nat \ {0}
ASSUME LimitsAssumption ==
  Limits \in [Processes -> [entries: Nat \ {0}, bytes: Nat, age: Nat]]
  /\ \A p \in Processes : Limits[p].bytes >= Overhead
ASSUME CacheBoundAssumption ==
  {MaxTime, MaxCommits, MaxFaults} \subseteq Nat

VARIABLES
  now,        \* unix_time_ms
  file,       \* what the path names
  durable,    \* what it named when the directory was last synced
  unsynced,   \* what it has named since
  lock,       \* who holds the file lock
  pc, op,     \* each process: its step, and the call it is in
  loaded,     \* the records the call has loaded, merged and pruned
  temp,       \* its temporary file
  view,       \* PersistentTuningCache::entries
  reply,      \* how its last call ended
  commits, faults,  \* counters of the bounds
  damaged,    \* history: another program has damaged the file
  merges,     \* history: the merges so far, which number the records
  acked       \* history: the records whose commit returned Ok

disk == <<file, durable, unsynced>>
bounds == <<commits, faults, damaged>>
history == <<merges, acked>>
cacheVars == <<now, disk, lock, pc, op, loaded, temp, view, reply, bounds, history>>

File(state, entries, synced) == [state |-> state, entries |-> entries, synced |-> synced]
NoFile == File("absent", {}, TRUE)
BadFile == File("bad", {}, TRUE)
Valid(entries, synced) == File("valid", entries, synced)
NoRecord == [key |-> 0, created |-> 0, size |-> 0, serial |-> 0]
NoOp == [kind |-> "none", record |-> NoRecord, asOf |-> 0]

----------------------------------------------------------------------------
(* Bounds: oldest-first eviction.                                          *)

\* evict_oldest's order: creation time, then key.
Older(r, s) == r.created < s.created \/ (r.created = s.created /\ r.key < s.key)
NewerThan(r, S) == {s \in S : Older(r, s)}

Bytes(S) == Overhead + MapThenSumSet(LAMBDA r : r.size, S)

\* A record created in the future has age zero (saturating_sub).
Age(r, t) == IF t >= r.created THEN t - r.created ELSE 0

PruneAge(S, limits, t) == {r \in S : Age(r, t) <= limits.age}
PruneCount(S, maximum) == {r \in S : Cardinality(NewerThan(r, S)) < maximum}
\* What is left when the oldest go until the rest fits.
PruneSize(S, maximum) ==
  {r \in S : \E q \in S : (q = r \/ Older(q, r)) /\ Bytes(NewerThan(q, S) \cup {q}) <= maximum}

Prune(S, limits, t) ==
  PruneSize(PruneCount(PruneAge(S, limits, t), limits.entries), limits.bytes)

Insert(S, r) == {s \in S : s.key # r.key} \cup {r}

----------------------------------------------------------------------------
CacheInit ==
  /\ now = 0
  /\ file = NoFile /\ durable = NoFile /\ unsynced = {}
  /\ lock = Nobody
  /\ pc = [p \in Processes |-> "closed"]
  /\ op = [p \in Processes |-> NoOp]
  /\ loaded = [p \in Processes |-> {}]
  /\ temp = [p \in Processes |-> NoFile]
  /\ view = [p \in Processes |-> {}]
  /\ reply = [p \in Processes |-> "none"]
  /\ commits = 0 /\ faults = 0 /\ damaged = FALSE
  /\ merges = 0 /\ acked = {}

Goto(p, label) == pc' = [pc EXCEPT ![p] = label]

\* Mutant: only the successful return unlocks.
FinishKeepsLock(p, outcome) ==
  /\ lock' = IF lock = p /\ outcome = "Ok" THEN Nobody ELSE lock
  /\ reply' = [reply EXCEPT ![p] = outcome]
  /\ op' = [op EXCEPT ![p] = NoOp]
  /\ loaded' = [loaded EXCEPT ![p] = {}]
  /\ temp' = [temp EXCEPT ![p] = NoFile]
  /\ Goto(p, IF outcome # "Ok" /\ op[p].kind = "open" THEN "closed" ELSE "idle")

\* A call returns; the lock handle is closed, whatever the outcome.  A failed
\* open leaves no cache to call.
Finish(p, outcome) ==
  /\ lock' = IF lock = p THEN Nobody ELSE lock
  /\ reply' = [reply EXCEPT ![p] = outcome]
  /\ op' = [op EXCEPT ![p] = NoOp]
  /\ loaded' = [loaded EXCEPT ![p] = {}]
  /\ temp' = [temp EXCEPT ![p] = NoFile]
  /\ Goto(p, IF outcome # "Ok" /\ op[p].kind = "open" THEN "closed" ELSE "idle")

\* The path names something else; the directory is not synced yet.
Renamed(new) ==
  /\ file' = new
  /\ unsynced' = unsynced \cup {new}
  /\ UNCHANGED durable

----------------------------------------------------------------------------
(* The calls, up to the lock.                                              *)

Start(p, kind, record) ==
  /\ op' = [op EXCEPT ![p] = [kind |-> kind, record |-> record, asOf |-> now]]
  /\ Goto(p, "lock")
  /\ reply' = [reply EXCEPT ![p] = "none"]
  /\ UNCHANGED <<now, disk, lock, loaded, temp, view, faults, damaged, history>>

Open(p) == pc[p] = "closed" /\ Start(p, "open", NoRecord) /\ UNCHANGED commits

\* The caller's record says itself when it was created.
CommitRecord(p) ==
  /\ pc[p] = "idle" /\ commits < MaxCommits
  /\ \E key \in Keys, created \in 0..MaxTime, size \in Sizes :
       Start(p, "commit", [key |-> key, created |-> created, size |-> size, serial |-> 0])
  /\ commits' = commits + 1

Clear(p) ==
  /\ pc[p] = "idle" /\ commits < MaxCommits
  /\ Start(p, "clear", NoRecord)
  /\ commits' = commits + 1

\* lock_exclusive; clear goes straight on to write an empty cache.
Lock(p) ==
  /\ pc[p] = "lock" /\ lock = Nobody
  /\ lock' = p
  /\ Goto(p, IF op[p].kind = "clear" THEN "write" ELSE "load")
  /\ UNCHANGED <<now, disk, op, loaded, temp, view, reply, bounds, history>>

----------------------------------------------------------------------------
(* load_entries, and the merge of commit_at.                               *)

TooLong(p) == file.state = "valid" /\ Bytes(file.entries) > Limits[p].bytes
Rejected(p) == file.state = "bad" \/ TooLong(p)

\* The bytes are moved aside, and the call goes on with an empty cache.
Quarantine(p) ==
  /\ pc[p] = "load" /\ Rejected(p)
  /\ Renamed(NoFile)
  /\ loaded' = [loaded EXCEPT ![p] = {}]
  /\ Goto(p, IF op[p].kind = "commit" THEN "merge" ELSE "done")
  /\ UNCHANGED <<now, lock, op, temp, view, reply, bounds, history>>

\* Mutant: commit merges into its own view and does not read the file again.
LoadView(p) ==
  /\ pc[p] = "load" /\ ~Rejected(p)
  /\ LET kept == Prune(view[p], Limits[p], op[p].asOf)
     IN  /\ loaded' = [loaded EXCEPT ![p] = kept]
         /\ Goto(p, IF op[p].kind = "commit" THEN "merge" ELSE "done")
  /\ UNCHANGED <<now, disk, lock, op, temp, view, reply, bounds, history>>

\* open writes only if it pruned something.
Load(p) ==
  /\ pc[p] = "load" /\ ~Rejected(p)
  /\ LET kept == Prune(file.entries, Limits[p], op[p].asOf)
     IN  /\ loaded' = [loaded EXCEPT ![p] = kept]
         /\ Goto(p, IF op[p].kind = "commit" THEN "merge"
                    ELSE IF kept = file.entries THEN "done" ELSE "write")
  /\ UNCHANGED <<now, disk, lock, op, temp, view, reply, bounds, history>>

\* A record is numbered by its merge, so that a version of a key can be told from
\* an older one.
Merge(p) ==
  /\ pc[p] = "merge"
  /\ LET record == [op[p].record EXCEPT !.serial = merges + 1]
         kept == Prune(Insert(loaded[p], record), Limits[p], op[p].asOf)
     IN  \/ /\ record \in kept
            /\ op' = [op EXCEPT ![p].record = record]
            /\ loaded' = [loaded EXCEPT ![p] = kept]
            /\ Goto(p, "write")
            /\ merges' = merges + 1
            /\ UNCHANGED <<lock, temp, reply>>
         \/ record \notin kept /\ Finish(p, "RecordTooLarge") /\ UNCHANGED merges
  /\ UNCHANGED <<now, disk, view, bounds, acked>>

----------------------------------------------------------------------------
(* write_entries.                                                          *)

Write(p) ==
  /\ pc[p] = "write"
  /\ temp' = [temp EXCEPT ![p] = Valid(loaded[p], FALSE)]
  /\ Goto(p, "sync")
  /\ UNCHANGED <<now, disk, lock, op, loaded, view, reply, bounds, history>>

\* Mutant: the temporary file is renamed without fsync.
SyncSkipped(p) ==
  /\ pc[p] = "sync"
  /\ Goto(p, "rename")
  /\ UNCHANGED <<now, disk, lock, op, loaded, temp, view, reply, bounds, history>>

Sync(p) ==
  /\ pc[p] = "sync"
  /\ temp' = [temp EXCEPT ![p].synced = TRUE]
  /\ Goto(p, "rename")
  /\ UNCHANGED <<now, disk, lock, op, loaded, view, reply, bounds, history>>

Rename(p) ==
  /\ pc[p] = "rename"
  /\ Renamed(temp[p])
  /\ temp' = [temp EXCEPT ![p] = NoFile]
  /\ Goto(p, "syncParent")
  /\ UNCHANGED <<now, lock, op, loaded, view, reply, bounds, history>>

\* Mutant: the directory is not synced.
SyncParentSkipped(p) ==
  /\ pc[p] = "syncParent"
  /\ Goto(p, "done")
  /\ UNCHANGED <<now, disk, lock, op, loaded, temp, view, reply, bounds, history>>

SyncParent(p) ==
  /\ pc[p] = "syncParent"
  /\ durable' = file /\ unsynced' = {}
  /\ Goto(p, "done")
  /\ UNCHANGED <<now, file, lock, op, loaded, temp, view, reply, bounds, history>>

\* unlock, and the process-local view moves to what was loaded or written.
Done(p) ==
  /\ pc[p] = "done"
  /\ view' = [view EXCEPT ![p] = loaded[p]]
  /\ acked' = IF op[p].kind = "commit" THEN acked \cup {op[p].record} ELSE acked
  /\ Finish(p, "Ok")
  /\ UNCHANGED <<now, disk, bounds, merges>>

----------------------------------------------------------------------------
(* Faults.                                                                 *)

InCall == {"lock", "load", "merge", "write", "sync", "rename", "syncParent", "done"}
Fault == faults < MaxFaults /\ faults' = faults + 1

\* Any filesystem step fails, taking the lock and dropping it included: the
\* temporary file is removed, the lock released if it is held, the view kept, and the error returned.
IoError(p) ==
  /\ Fault
  /\ pc[p] \in InCall \ {"merge"}
  /\ Finish(p, "Io")
  /\ UNCHANGED <<now, disk, view, commits, damaged, history>>

Dead(P) ==
  /\ lock' = IF lock \in P THEN Nobody ELSE lock
  /\ pc' = [p \in Processes |-> IF p \in P THEN "closed" ELSE pc[p]]
  /\ op' = [p \in Processes |-> IF p \in P THEN NoOp ELSE op[p]]
  /\ loaded' = [p \in Processes |-> IF p \in P THEN {} ELSE loaded[p]]
  /\ temp' = [p \in Processes |-> IF p \in P THEN NoFile ELSE temp[p]]
  /\ view' = [p \in Processes |-> IF p \in P THEN {} ELSE view[p]]
  /\ reply' = [p \in Processes |-> IF p \in P THEN "none" ELSE reply[p]]

\* A process is killed; the operating system drops its lock.
Kill(p) ==
  /\ Fault
  /\ pc[p] # "closed"
  /\ Dead({p})
  /\ UNCHANGED <<now, disk, commits, damaged, history>>

\* Power fails: the directory may name any version since its last sync, and a
\* version whose bytes were not synced may be torn.
PowerLoss ==
  /\ Fault
  /\ \E f \in {durable} \cup unsynced :
       file' \in {[f EXCEPT !.synced = TRUE]} \cup {b \in {BadFile} : ~f.synced}
  /\ durable' = file' /\ unsynced' = {}
  /\ Dead(Processes)
  /\ UNCHANGED <<now, commits, damaged, history>>

\* Somebody else's program damages the file.
Damage ==
  /\ Fault
  /\ damaged' = TRUE
  /\ file.state = "valid"
  /\ Renamed(BadFile)
  /\ UNCHANGED <<now, lock, pc, op, loaded, temp, view, reply, commits, history>>

Tick ==
  /\ now < MaxTime
  /\ now' = now + 1
  /\ UNCHANGED <<disk, lock, pc, op, loaded, temp, view, reply, bounds, history>>

Work(p) ==
  \/ Lock(p) \/ Quarantine(p) \/ Load(p) \/ Merge(p)
  \/ Write(p) \/ Sync(p) \/ Rename(p) \/ SyncParent(p) \/ Done(p)

CacheNext ==
  \/ Tick \/ Damage \/ PowerLoss
  \/ \E p \in Processes :
       Open(p) \/ CommitRecord(p) \/ Clear(p) \/ Work(p) \/ IoError(p) \/ Kill(p)

CacheSpec == CacheInit /\ [][CacheNext]_cacheVars

\* A process in a call keeps running.  Nothing is asked of the file lock beyond
\* granting it when it stays free.
CacheFairSpec == CacheSpec /\ \A p \in Processes : WF_cacheVars(Work(p))

----------------------------------------------------------------------------
(* Properties                                                              *)

Records == [key: Keys \cup {0}, created: 0..MaxTime, size: Sizes \cup {0}, serial: Nat]

\* The shape of every variable.
CacheTypeOK ==
  /\ now \in 0..MaxTime
  /\ \A f \in {file, durable} \cup unsynced \cup {temp[p] : p \in Processes} :
       f.state \in {"absent", "valid", "bad"} /\ f.entries \subseteq Records
  /\ lock \in Processes \cup {Nobody}
  /\ \A p \in Processes :
       /\ pc[p] \in {"closed", "idle"} \cup InCall
       /\ op[p].record \in Records
       /\ loaded[p] \subseteq Records /\ view[p] \subseteq Records
  /\ merges \in Nat /\ acked \subseteq Records

\* No death of a process or of the machine leaves bytes a reader would reject.
NeverTorn == ~damaged => file.state # "bad"

Exceeds(S, limits) ==
  Cardinality(S) > limits.entries \/ \E T \in SUBSET S : ~(Bytes(T) <= limits.bytes)

\* The limits p goes by do not let it keep r and everything else it has read.
NoRoom(p, r) ==
  \/ Age(r, op[p].asOf) > Limits[p].age
  \/ Exceeds(file.entries, Limits[p])
  \/ op[p].kind = "commit" /\ Exceeds(Insert(file.entries, op[p].record), Limits[p])

\* A process quarantines a valid file only because it is too long for the limits
\* that process was opened with, though it fits those of another.
SetAside(p) ==
  /\ TooLong(p) /\ file' = NoFile
  /\ \E q \in Processes : Bytes(file.entries) <= Limits[q].bytes

\* Processes that commit at the same time do not lose each other's records: in
\* whatever step a record leaves the file, damage by another program and the loss
\* of power excepted, the step is that of the process that holds the lock, and
\* either a newer version of the record's key takes its place, or the process
\* clears the cache, or it has no room for the record and every other record that
\* stays is younger (the record just committed may be older: its clock was read
\* before the lock was taken), or SetAside takes the whole file away.
\* The last is the one way in which records of other processes go although
\* they are the newest, and it needs processes whose byte limits differ.
OnlyOldestEvicted ==
  [][\A r \in file.entries \ file'.entries :
       \/ Damage \/ PowerLoss
       \/ \E p \in Processes :
            /\ lock = p
            /\ \/ \E s \in file'.entries : s.key = r.key /\ s.serial > r.serial
               \/ op[p].kind = "clear"
               \/ /\ file'.state = "valid" /\ NoRoom(p, r)
                  /\ \A s \in file'.entries \cap file.entries : Older(r, s)
               \/ SetAside(p)]_cacheVars

\* A record whose commit returned Ok survives the death of any process and the
\* loss of power, in that version or a later one of its key, while no other program
\* damages the file.
AckedSurvives ==
  [][~damaged /\ (PowerLoss \/ \E p \in Processes : Kill(p)) =>
       \A r \in acked \cap file.entries :
         \E s \in file'.entries : s.key = r.key /\ s.serial >= r.serial]_cacheVars

\* Every call ends, whoever else dies inside the lock.
CallsEnd == \A p \in Processes : pc[p] \in InCall ~> pc[p] \notin InCall
=============================================================================
