--------------------------- MODULE IdempotentAgent ---------------------------
(***************************************************************************)
(* IdempotentAgent over InMemoryIdempotencyStore (core/idempotency.py):    *)
(* requests that carry an idempotency key are answered from the store when *)
(* a final answer to the key is there.  On one event loop the lookup runs  *)
(* together with the start of the delegate, and the save together with its *)
(* return; other requests run in between.                                  *)
(***************************************************************************)
EXTENDS Naturals, Sequences

CONSTANTS
    Request,     \* calls of run
    Key,         \* scoped keys: tenant, principal, session and key together
    KeyOf,       \* the key of a request, or NoKey
    NoKey,
    MaxEntries   \* max_entries of the store

ASSUME MaxEntriesAssumption == MaxEntries \in Nat \ {0}
ASSUME KeyOfAssumption      == KeyOf \in [Request -> Key \cup {NoKey}]
ASSUME NoKeyAssumption      == NoKey \notin Key

VARIABLES
    entries,   \* the OrderedDict, oldest entry first
    pc,        \* where each request is
    reply,     \* what each request returned
    evicted,   \* keys whose answer the store has dropped
    repeats    \* requests that arrived after a final answer to their key

vars == <<entries, pc, reply, evicted, repeats>>

Answer  == [by : Request, retryable : BOOLEAN]
NoReply == [by |-> "nobody", retryable |-> FALSE]

Holds(store, key) == \E i \in DOMAIN store : store[i].key = key

Init ==
    /\ entries = <<>>
    /\ pc = [r \in Request |-> "idle"]
    /\ reply = [r \in Request |-> NoReply]
    /\ evicted = {}
    /\ repeats = {}

Final(r) == pc[r] = "done" /\ ~reply[r].retryable

Arrive(r) ==
    /\ pc[r] = "idle"
    /\ repeats' = IF \E q \in Request : Final(q) /\ KeyOf[q] = KeyOf[r]
                  THEN repeats \cup {r} ELSE repeats

(* The store has an answer: it is returned and the delegate does not run. *)
Replay(r) ==
    /\ Arrive(r)
    /\ \E i \in DOMAIN entries :
          /\ entries[i].key = KeyOf[r]
          /\ reply' = [reply EXCEPT ![r] = entries[i].answer]
    /\ pc' = [pc EXCEPT ![r] = "done"]
    /\ UNCHANGED <<entries, evicted>>

(* No key, or no answer to it yet: the delegate runs. *)
Run(r) ==
    /\ Arrive(r)
    /\ ~Holds(entries, KeyOf[r])
    /\ pc' = [pc EXCEPT ![r] = "running"]
    /\ UNCHANGED <<entries, reply, evicted>>

(* Mutant: the store is allowed one entry too many. *)
Saved_OneMore(store, key, answer) ==
    IF Holds(store, key)
    THEN store
    ELSE LET grown == Append(store, [key |-> key, answer |-> answer])
         IN  IF Len(grown) > MaxEntries + 1 THEN Tail(grown) ELSE grown

(* Mutant: the newest entry is popped. *)
Saved_PopsNewest(store, key, answer) ==
    IF Holds(store, key) \/ Len(store) = MaxEntries
    THEN store
    ELSE Append(store, [key |-> key, answer |-> answer])

(* save: the first write wins, and the oldest entry makes room. *)
Saved(store, key, answer) ==
    IF Holds(store, key)
    THEN store
    ELSE LET grown == Append(store, [key |-> key, answer |-> answer])
         IN  IF Len(grown) > MaxEntries THEN Tail(grown) ELSE grown

(* Mutant: every answer is kept. *)
Kept_Always(key, answer) == key # NoKey

(* The answers that are saved. *)
Kept(key, answer) == key # NoKey /\ ~answer.retryable

(* The delegate returns a final or a retryable answer. *)
Return(r) ==
    /\ pc[r] = "running"
    /\ \E retryable \in BOOLEAN :
          LET answer == [by |-> r, retryable |-> retryable]
          IN  /\ reply' = [reply EXCEPT ![r] = answer]
              /\ entries' = IF Kept(KeyOf[r], answer)
                            THEN Saved(entries, KeyOf[r], answer) ELSE entries
    /\ pc' = [pc EXCEPT ![r] = "done"]
    /\ evicted' = evicted \cup {k \in Key : Holds(entries, k) /\ ~Holds(entries', k)}
    /\ UNCHANGED repeats

(* The delegate raises or the caller is cancelled. *)
Fail(r) ==
    /\ pc[r] = "running"
    /\ pc' = [pc EXCEPT ![r] = "failed"]
    /\ UNCHANGED <<entries, reply, evicted, repeats>>

Next == \E r \in Request : Replay(r) \/ Run(r) \/ Return(r) \/ Fail(r)

Spec == Init /\ [][Next]_vars

------------------------------------------------------------------------------
(* Every variable has its type, and the store keeps its bound. *)
TypeOK ==
    /\ entries \in Seq([key : Key, answer : Answer])
    /\ Len(entries) <= MaxEntries
    /\ pc \in [Request -> {"idle", "running", "done", "failed"}]
    /\ reply \in [Request -> Answer \cup {NoReply}]
    /\ evicted \subseteq Key
    /\ repeats \subseteq Request

(* A request that returns another one's answer returns a final answer to its
   own key: no retryable reply is replayed and no key sees another's answer. *)
ReplaysAreFinal ==
    \A r \in Request : pc[r] = "done" /\ reply[r].by # r =>
        /\ ~reply[r].retryable
        /\ KeyOf[r] # NoKey
        /\ KeyOf[reply[r].by] = KeyOf[r]

(* The two above: what the proofs strengthen together. *)
RepliesSafe == TypeOK /\ ReplaysAreFinal

(* A request that repeats a key after a final answer to it was returned does
   not run the delegate again, as long as the store has not dropped the key. *)
NoSecondRun ==
    \A r \in repeats :
        KeyOf[r] \in Key \ evicted => pc[r] = "done" /\ reply[r].by # r

------------------------------------------------------------------------------
(* The inductive invariant. *)
Stored == [key : Key, answer : Answer]

(* Every stored answer is final, and is the reply of a request with that key. *)
StoreFinal ==
    \A i \in DOMAIN entries :
        LET e == entries[i]
        IN  /\ ~e.answer.retryable
            /\ KeyOf[e.answer.by] = e.key
            /\ pc[e.answer.by] = "done"

(* The store holds every key that was answered for good, or has dropped it. *)
AnsweredHeld ==
    \A q \in Request :
        Final(q) /\ KeyOf[q] \in Key \ evicted => Holds(entries, KeyOf[q])

(* Repeats have arrived. *)
RepeatsArrived == \A r \in repeats : pc[r] # "idle"

IInv == /\ TypeOK /\ StoreFinal /\ AnsweredHeld /\ RepeatsArrived
        /\ ReplaysAreFinal /\ NoSecondRun
==============================================================================
