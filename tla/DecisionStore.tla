---------------------------- MODULE DecisionStore ----------------------------
(***************************************************************************)
(* DecisionStore (decision_store.py) over file_lock.py: a JSON file shared *)
(* by the threads of several processes.  Every mutation takes the store's  *)
(* thread lock and the file's flock, reloads the file into memory, changes *)
(* the memory, writes a temporary file and renames it over the data file.  *)
(* A process can die at any step (the kernel then frees its flock) and a   *)
(* save can fail.                                                          *)
(***************************************************************************)
EXTENDS DecisionOps, Integers

CONSTANTS
    Store,      \* DecisionStore objects, each in a process of its own
    Task,       \* threads, each performing one operation
    StoreOf,    \* the store object a thread uses
    OnDisk,     \* whether the data file may exist at the start: a set of BOOLEAN
    Nobody,     \* a free lock
    MaxCrashes  \* bound of the model on process deaths

ASSUME StoreOfAssumption == StoreOf \in [Task -> Store]
ASSUME OnDiskAssumption  == OnDisk \subseteq BOOLEAN
ASSUME NobodyAssumption  == Nobody \notin Task
ASSUME CrashAssumption   == MaxCrashes \in Nat

VARIABLES
    file,        \* the data file, Empty while it does not exist
    exists,      \* the data file exists
    tmp,         \* the temporary file next to it
    flock,       \* holder of the lock on the sidecar .lock file
    mutex,       \* holder of each store's threading.Lock
    mem,         \* _entries and _outcomes of each store
    up,          \* the store's process is running
    operation,   \* what each task asked for
    pc,          \* where each task is
    crashes

vars == <<file, exists, tmp, flock, mutex, mem, up, operation, pc, crashes>>

NoOperation == [kind |-> "none"]
Ended       == {"done", "failed", "dead"}

(* Step t moves on; the store it belongs to is running. *)
Move(t, from, to) ==
    /\ pc[t] = from
    /\ up[StoreOf[t]]
    /\ pc' = [pc EXCEPT ![t] = to]

Init ==
    /\ file = Empty
    /\ exists \in OnDisk
    /\ tmp = Empty
    /\ flock = Nobody
    /\ mutex = [s \in Store |-> Nobody]
    /\ mem = [s \in Store |-> Empty]
    /\ up = [s \in Store |-> TRUE]
    /\ operation = [t \in Task |-> NoOperation]
    /\ pc = [t \in Task |-> "idle"]
    /\ crashes = 0

------------------------------------------------------------------------------
(* A caller calls record, set_stage, notify_host, record_outcome or close. *)
Call(t) ==
    /\ Move(t, "idle", "called")
    /\ \E op \in Operation : operation' = [operation EXCEPT ![t] = op]
    /\ UNCHANGED <<file, exists, tmp, flock, mutex, mem, up, crashes>>

(* with self._lock *)
TakeMutex(t) ==
    /\ Move(t, "called", "alone")
    /\ mutex[StoreOf[t]] = Nobody
    /\ mutex' = [mutex EXCEPT ![StoreOf[t]] = t]
    /\ UNCHANGED <<file, exists, tmp, flock, mem, up, operation, crashes>>

(* Mutant: the file lock does not exclude. *)
TakeFileLock_Shared(t) ==
    /\ Move(t, "alone", "locked")
    /\ flock' = t
    /\ UNCHANGED <<file, exists, tmp, mutex, mem, up, operation, crashes>>

(* with file_lock(self.file) *)
TakeFileLock(t) ==
    /\ Move(t, "alone", "locked")
    /\ flock = Nobody
    /\ flock' = t
    /\ UNCHANGED <<file, exists, tmp, mutex, mem, up, operation, crashes>>

(* Mutant: the memory is trusted to be current. *)
Reload_Skipped(t) ==
    /\ Move(t, "locked", "loaded")
    /\ UNCHANGED <<file, exists, tmp, flock, mutex, mem, up, operation, crashes>>

(* _reload: a missing file leaves the memory as it is. *)
Reload(t) ==
    /\ Move(t, "locked", "loaded")
    /\ mem' = IF exists THEN [mem EXCEPT ![StoreOf[t]] = file] ELSE mem
    /\ UNCHANGED <<file, exists, tmp, flock, mutex, up, operation, crashes>>

(* The body of the `with self._exclusive()` block. *)
Change(t) ==
    /\ Move(t, "loaded", "changed")
    /\ mem' = [mem EXCEPT ![StoreOf[t]] = Effect(@, operation[t], t)]
    /\ UNCHANGED <<file, exists, tmp, flock, mutex, up, operation, crashes>>

(* _save: atomic_write_text writes the temporary file, then renames it. *)
WriteTmp(t) ==
    /\ Move(t, "changed", "written")
    /\ tmp' = mem[StoreOf[t]]
    /\ UNCHANGED <<file, exists, flock, mutex, mem, up, operation, crashes>>

Replace(t) ==
    /\ Move(t, "written", "saved")
    /\ file' = tmp
    /\ exists' = TRUE
    /\ UNCHANGED <<tmp, flock, mutex, mem, up, operation, crashes>>

Unlock(t) ==
    /\ flock' = Nobody
    /\ mutex' = [mutex EXCEPT ![StoreOf[t]] = Nobody]

Return(t) ==
    /\ Move(t, "saved", "done")
    /\ Unlock(t)
    /\ UNCHANGED <<file, exists, tmp, mem, up, operation, crashes>>

(* Mutant: an exception skips the release of the thread lock. *)
Fails_KeepsMutex(t) ==
    /\ pc[t] \in {"locked", "changed", "written"}
    /\ Move(t, pc[t], "failed")
    /\ flock' = Nobody
    /\ UNCHANGED <<file, exists, tmp, mutex, mem, up, operation, crashes>>

(* Reading, writing or renaming raises: the locks are released, the caller sees
   the exception, and this process's memory keeps the change, if it was made. *)
Fails(t) ==
    /\ pc[t] \in {"locked", "changed", "written"}
    /\ Move(t, pc[t], "failed")
    /\ Unlock(t)
    /\ UNCHANGED <<file, exists, tmp, mem, up, operation, crashes>>

(* The process dies with all its threads. *)
Crash(s) ==
    /\ up[s]
    /\ crashes < MaxCrashes
    /\ crashes' = crashes + 1
    /\ up' = [up EXCEPT ![s] = FALSE]
    /\ pc' = [t \in Task |-> IF StoreOf[t] = s /\ pc[t] \notin Ended \cup {"idle"}
                             THEN "dead" ELSE pc[t]]
    /\ flock' = IF flock # Nobody /\ StoreOf[flock] = s THEN Nobody ELSE flock
    /\ mutex' = [mutex EXCEPT ![s] = Nobody]
    /\ UNCHANGED <<file, exists, tmp, mem, operation>>

(* DecisionStore.__init__ in a new process: reads the file under its lock. *)
Restart(s) ==
    /\ ~up[s]
    /\ exists => flock = Nobody
    /\ up' = [up EXCEPT ![s] = TRUE]
    /\ mem' = [mem EXCEPT ![s] = file]
    /\ UNCHANGED <<file, exists, tmp, flock, mutex, operation, pc, crashes>>

Progress(t) ==
    \/ TakeMutex(t) \/ TakeFileLock(t) \/ Reload(t) \/ Change(t)
    \/ WriteTmp(t) \/ Replace(t) \/ Fails(t) \/ Return(t)

Next ==
    \/ \E t \in Task : Call(t) \/ Progress(t)
    \/ \E s \in Store : Crash(s) \/ Restart(s)

Spec == Init /\ [][Next]_vars

(* Threads run, a lock that is free is eventually granted, and processes are
   restarted. *)
FairSpec ==
    /\ Spec
    /\ \A t \in Task : WF_vars(Progress(t))
    /\ \A s \in Store : WF_vars(Restart(s))

------------------------------------------------------------------------------
Stages  == {"pending", "approved", "scheduled", "implemented", "rejected", "deferred"}
Entries == [status : {"accepted", "rejected", "deferred", "pending"}, stage : Stages,
            notify : {"not_requested", "requested"},
            history : Seq([by : Task, stage : Stages \cup {"none"}])]
Contents == [entries : [Rid -> Entries], outcomes : Seq(Task)]

(* Every variable has its type. *)
TypeOK ==
    /\ exists \in BOOLEAN
    /\ file \in Contents /\ tmp \in Contents
    /\ flock \in Task \cup {Nobody}
    /\ mutex \in [Store -> Task \cup {Nobody}]
    /\ mem \in [Store -> Contents]
    /\ up \in [Store -> BOOLEAN]
    /\ operation \in [Task -> Operation \cup {NoOperation}]
    /\ pc \in [Task -> {"idle", "called", "alone", "locked", "loaded", "changed",
                        "written", "saved"} \cup Ended]
    /\ crashes \in 0 .. MaxCrashes

Logged(contents, t) ==
    \/ \E i \in DOMAIN contents.outcomes : contents.outcomes[i] = t
    \/ \E r \in Rid : \E i \in DOMAIN contents.entries[r].history :
          contents.entries[r].history[i].by = t

(* An operation that returned is in the file, for good: no other process
   overwrites it with an older copy and no crash loses it. *)
NoLostUpdate ==
    \A t \in Task : pc[t] = "done" /\ operation[t].kind # "close" => Logged(file, t)

(* The stage of an entry is the one its history last recorded. *)
Staged(entry) ==
    \A i \in DOMAIN entry.history :
        entry.history[i].stage \notin {"none", entry.stage}
            => \E j \in DOMAIN entry.history : j > i /\ entry.history[j].stage # "none"

(* So it is for every entry of the file. *)
StageIsLogged == \A r \in Rid : Staged(file.entries[r])

(* What was acknowledged is in the file, under its stage. *)
FileKept == TypeOK /\ NoLostUpdate /\ StageIsLogged

(* The history in the file is append-only: no step of any process or any crash
   removes or rewrites a record. *)
AppendOnly ==
    [][\A r \in Rid :
        LET old == file.entries[r].history
            new == file'.entries[r].history
        IN  Len(old) <= Len(new) /\ SubSeq(new, 1, Len(old)) = old]_vars

(* record never takes a scheduled or implemented action back to approved or
   pending, against the contents of the file at the moment it is written. *)
KeepsCommitment ==
    [][\A t \in Task, r \in Rid :
        /\ Replace(t)
        /\ operation[t].kind = "record"
        /\ file.entries[r].stage \in {"scheduled", "implemented"}
        => file'.entries[r].stage \notin {"approved", "pending"}]_vars

(* The two above: what a process may count on whatever the others do. *)
HistoryKept == AppendOnly /\ KeepsCommitment

(* Every call returns or fails, unless its process dies: no failed save and no
   death of another process leaves a lock behind. *)
CallsEnd == \A t \in Task : pc[t] = "called" ~> pc[t] \in Ended

(* What the log sees of a task. *)
StateOf(place) ==
    CASE place = "idle" -> "idle"
      [] place = "saved" -> "applied"
      [] place = "done" -> "returned"
      [] place \in {"failed", "dead"} -> "gave up"
      [] OTHER -> "waiting"

LogState == [t \in Task |-> StateOf(pc[t])]

(* A store over an existing file implements the log: an operation takes effect
   when the temporary file replaces the data file.  (Without a file, a change
   whose save failed stays in memory and is written by the next operation.) *)
Log == INSTANCE DecisionLog WITH db <- file, state <- LogState

ImplementsLog == Log!Spec
==============================================================================
