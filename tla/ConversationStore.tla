-------------------------- MODULE ConversationStore --------------------------
(***************************************************************************)
(* The in-memory conversation store of the agent core                      *)
(* (core/memory.py, class InMemoryConversationStore).                      *)
(*                                                                         *)
(* A turn runs inside `async with store.memory(tenant, session)`: it pins  *)
(* the session's entry, waits for the entry's FIFO lock, runs its body     *)
(* holding that lock, releases it, and in a `finally` takes the store's    *)
(* lock again to unpin the entry and evict idle sessions over the limit.   *)
(* A session can be deleted at any moment (delete is synchronous and takes *)
(* no lock), and a turn can be cancelled at any await.                     *)
(*                                                                         *)
(* Code that runs between two awaits is one action.  The store's own lock  *)
(* protects only such stretches, so it is not a variable.                  *)
(***************************************************************************)
EXTENDS Integers, FiniteSets, SequencesExt

CONSTANTS
    Key,          \* (tenant, session_id) pairs
    Turn,         \* tasks that use the store
    Entry,        \* identities of _Entry objects
    None,         \* Python's None, for a missing key and an unset local
    MaxSessions,  \* max_sessions, after max(1, .)
    MaxPins,      \* bound of the model on pins, which cancellation can leak
    Deletes,      \* the host deletes sessions
    Cancels       \* turns are cancelled (a deadline scope of GovernedAgent)

ASSUME KeyAssumption     == IsFiniteSet(Key)
ASSUME TurnAssumption    == IsFiniteSet(Turn)
ASSUME NoneAssumption    == None \notin Entry \cup Key
ASSUME LimitAssumption   == MaxSessions \in Nat \ {0} /\ MaxPins \in Nat
ASSUME ModeAssumption    == Deletes \in BOOLEAN /\ Cancels \in BOOLEAN

VARIABLES
    slot,       \* _entries: the entry of each key
    pins,       \* _Entry.pins
    waiters,    \* _Entry.lock: its owner, then the tasks waiting for it
    age,        \* order of _Entry.last_access, a larger age is more recent
    phase,      \* where each task is
    session,    \* the local `key` of each task
    held,       \* the local `entry` of each task
    cancelled,  \* a cancellation was delivered inside memory()
    disturbed   \* history: deleted while a turn that is still open used it

vars == <<slot, pins, waiters, age, phase, session, held, cancelled, disturbed>>

Active        == {t \in Turn : phase[t] # "out"}
Users(k)      == {t \in Active : session[t] = k}
Present(s)    == {k \in Key : s[k] # None}
Idle_IgnorePins(s, p) == Present(s)  \* mutant: eviction forgets the pins

Idle(s, p)    == {k \in Present(s) : p[s[k]] = 0}
Reachable(e)  == (\E k \in Key : slot[k] = e) \/ (\E t \in Active : held[t] = e)

(* The task runs the body of `async with entry.lock`. *)
Holds(t) == /\ phase[t] = "inside"
            /\ waiters[held[t]] # <<>>
            /\ Head(waiters[held[t]]) = t

Init ==
    /\ slot = [k \in Key |-> None]
    /\ pins = [e \in Entry |-> 0]
    /\ waiters = [e \in Entry |-> <<>>]
    /\ age \in [Key -> 1 .. Cardinality(Key)]
    /\ \A j, k \in Key : age[j] = age[k] => j = k
    /\ phase = [t \in Turn |-> "out"]
    /\ session = [t \in Turn |-> None]
    /\ held = [t \in Turn |-> None]
    /\ cancelled = [t \in Turn |-> FALSE]
    /\ disturbed = {}

------------------------------------------------------------------------------
(* last_access = the incremented clock: k becomes the most recent key. *)
Touch(k) == [j \in Key |-> IF j = k THEN Cardinality(Key)
                           ELSE IF age[j] > age[k] THEN age[j] - 1
                           ELSE age[j]]

(* The first block of memory(): find or create the entry, pin it, and queue
   for its lock (an uncontended lock is owned at once). *)
Enter(t, k) ==
    /\ phase[t] = "out"
    /\ \E e \in Entry :
        /\ IF slot[k] # None
           THEN /\ e = slot[k]
                /\ pins[e] < MaxPins
                /\ pins' = [pins EXCEPT ![e] = @ + 1]
                /\ waiters' = [waiters EXCEPT ![e] = Append(@, t)]
           ELSE /\ ~Reachable(e)
                /\ pins' = [pins EXCEPT ![e] = 1]
                /\ waiters' = [waiters EXCEPT ![e] = <<t>>]
        /\ slot' = [slot EXCEPT ![k] = e]
        /\ held' = [held EXCEPT ![t] = e]
    /\ age' = Touch(k)
    /\ phase' = [phase EXCEPT ![t] = "inside"]
    /\ session' = [session EXCEPT ![t] = k]
    /\ UNCHANGED <<cancelled, disturbed>>

(* The body returns or raises; leaving `async with entry.lock` hands the lock
   to the next waiter. *)
Finish(t) ==
    /\ Holds(t)
    /\ waiters' = [waiters EXCEPT ![held[t]] = Tail(@)]
    /\ phase' = [phase EXCEPT ![t] = "leaving"]
    /\ UNCHANGED <<slot, pins, age, session, held, cancelled, disturbed>>

(* Mutant: the cancelled waiter stays in the queue of the lock. *)
CancelInside_StaysQueued(t) ==
    /\ Cancels
    /\ phase[t] = "inside"
    /\ phase' = [phase EXCEPT ![t] = "leaving"]
    /\ cancelled' = [cancelled EXCEPT ![t] = TRUE]
    /\ UNCHANGED <<slot, pins, waiters, age, session, held, disturbed>>

(* Mutant: the cancelled turn unpins at once, and again in its `finally`. *)
CancelInside_UnpinsTwice(t) ==
    /\ Cancels
    /\ phase[t] = "inside"
    /\ \E i \in DOMAIN waiters[held[t]] :
        /\ waiters[held[t]][i] = t
        /\ waiters' = [waiters EXCEPT ![held[t]] = RemoveAt(@, i)]
    /\ pins' = [pins EXCEPT ![held[t]] = IF @ > 0 THEN @ - 1 ELSE 0]
    /\ phase' = [phase EXCEPT ![t] = "leaving"]
    /\ cancelled' = [cancelled EXCEPT ![t] = TRUE]
    /\ UNCHANGED <<slot, age, session, held, disturbed>>

(* Cancelled while it waits for the entry lock or inside the body: it leaves
   the lock's queue, and a lock it owned goes to the next waiter. *)
CancelInside(t) ==
    /\ Cancels
    /\ phase[t] = "inside"
    /\ \E i \in DOMAIN waiters[held[t]] :
        /\ waiters[held[t]][i] = t
        /\ waiters' = [waiters EXCEPT ![held[t]] = RemoveAt(@, i)]
    /\ phase' = [phase EXCEPT ![t] = "leaving"]
    /\ cancelled' = [cancelled EXCEPT ![t] = TRUE]
    /\ UNCHANGED <<slot, pins, age, session, held, disturbed>>

(* Cancelled at the await of the `finally`. *)
CancelLeaving(t) ==
    /\ Cancels
    /\ phase[t] = "leaving"
    /\ ~cancelled[t]
    /\ cancelled' = [cancelled EXCEPT ![t] = TRUE]
    /\ UNCHANGED <<slot, pins, waiters, age, phase, session, held, disturbed>>

(* The task is out of memory(); its locals are gone. *)
Gone(t) ==
    /\ phase' = [phase EXCEPT ![t] = "out"]
    /\ session' = [session EXCEPT ![t] = None]
    /\ held' = [held EXCEPT ![t] = None]
    /\ cancelled' = [cancelled EXCEPT ![t] = FALSE]
    /\ disturbed' = IF Users(session[t]) = {t} THEN disturbed \ {session[t]}
                                                ELSE disturbed

(* Mutants: the decrement can go below zero; the pins are cleared. *)
Unpinned_NoFloor(k) == IF slot[k] = None THEN pins
                       ELSE [pins EXCEPT ![slot[k]] = @ - 1]
Unpinned_Clear(k) == IF slot[k] = None THEN pins
                     ELSE [pins EXCEPT ![slot[k]] = 0]

(* pins = max(0, pins - 1) on the entry that is in the dictionary now. *)
Unpinned(k) == IF slot[k] = None THEN pins
               ELSE [pins EXCEPT ![slot[k]] = IF @ > 0 THEN @ - 1 ELSE 0]

(* Mutant: one session over the limit is tolerated. *)
Victims_OneOver(p) ==
    IF Cardinality(Present(slot)) <= MaxSessions + 1 THEN {{}}
    ELSE {{k} : k \in Idle(slot, p)}

(* _evict_if_needed: over the limit, drop the least recently entered unpinned
   keys until the limit is met or no unpinned key is left. *)
Victims(p) ==
    LET excess == Cardinality(Present(slot)) - MaxSessions
        idle   == Idle(slot, p)
    IN  {V \in SUBSET idle :
            /\ Cardinality(V) = IF excess <= 0 THEN 0
                                ELSE IF excess <= Cardinality(idle) THEN excess
                                ELSE Cardinality(idle)
            /\ \A k \in V, j \in idle \ V : age[k] < age[j]}

(* The `finally` block runs. *)
Leave(t) ==
    /\ phase[t] = "leaving"
    /\ pins' = Unpinned(session[t])
    /\ \E V \in Victims(pins') :
        slot' = [k \in Key |-> IF k \in V THEN None ELSE slot[k]]
    /\ Gone(t)
    /\ UNCHANGED <<waiters, age>>

(* The `finally` block of a cancelled turn: under a cancelled anyio scope the
   acquisition of the store's lock raises again, so nothing is unpinned and
   nothing evicted.  (Leave stays possible: a contended acquisition can be
   granted first, and a plain asyncio cancellation is delivered only once.) *)
LeaveInterrupted(t) ==
    /\ phase[t] = "leaving"
    /\ cancelled[t]
    /\ Gone(t)
    /\ UNCHANGED <<slot, pins, waiters, age>>

(* delete: the entry leaves the dictionary whoever is using it. *)
Delete(k) ==
    /\ Deletes
    /\ slot[k] # None
    /\ slot' = [slot EXCEPT ![k] = None]
    /\ disturbed' = IF Users(k) # {} THEN disturbed \cup {k} ELSE disturbed
    /\ UNCHANGED <<pins, waiters, age, phase, session, held, cancelled>>

TurnStep(t) ==
    \/ \E k \in Key : Enter(t, k)
    \/ Finish(t)
    \/ CancelInside(t)
    \/ CancelLeaving(t)
    \/ Leave(t)
    \/ LeaveInterrupted(t)

Next == (\E t \in Turn : TurnStep(t)) \/ (\E k \in Key : Delete(k))

Spec == Init /\ [][Next]_vars

(* Bodies end (the model call returns or the turn's deadline cancels it) and
   the event loop runs every ready task. *)
Fairness == \A t \in Turn :
    WF_vars(Finish(t)) /\ WF_vars(Leave(t) \/ LeaveInterrupted(t))

FairSpec == Spec /\ Fairness

------------------------------------------------------------------------------
(* Every variable has its type. *)
TypeOK ==
    /\ slot \in [Key -> Entry \cup {None}]
    /\ pins \in [Entry -> Nat]
    /\ waiters \in [Entry -> Seq(Turn)]
    /\ age \in [Key -> Int]
    /\ phase \in [Turn -> {"out", "inside", "leaving"}]
    /\ session \in [Turn -> Key \cup {None}]
    /\ held \in [Turn -> Entry \cup {None}]
    /\ cancelled \in [Turn -> BOOLEAN]
    /\ disturbed \in SUBSET Key

(* An entry in use is never evicted: as long as no delete disturbed the
   session, every turn open on it works on the memory the dictionary holds,
   whatever eviction and cancellation do (pins and _evict_if_needed). *)
InUseKept ==
    \A t \in Active : session[t] \notin disturbed => held[t] = slot[session[t]]

(* The pins of an undisturbed session count at least its open turns, so the
   decrement of the `finally` is never taken from another turn. *)
PinsCoverUsers ==
    \A k \in Key \ disturbed :
        Users(k) # {} => Cardinality(Users(k)) <= pins[slot[k]]

(* Turns of one undisturbed session run one at a time. *)
SessionExclusive ==
    \A t, u \in Turn :
        Holds(t) /\ Holds(u) /\ session[t] = session[u]
                 /\ session[t] \notin disturbed => t = u

(* What a turn relies on while its session is open. *)
StoreSafe == TypeOK /\ InUseKept /\ PinsCoverUsers /\ SessionExclusive

(* "Bounded": the dictionary holds at most the limit, plus one entry for each
   turn that is open (memory() and _evict_if_needed); so when no turn is open
   the limit holds. *)
Bounded ==
    Cardinality(Present(slot)) <= MaxSessions + Cardinality(Active)

(* The entries whose pins exceed the turns that use them: a cancelled turn
   left its pin behind. *)
Leaked == {k \in Present(slot) :
              pins[slot[k]] > Cardinality({t \in Active : held[t] = slot[k]})}

(* Only leaked entries can break the bound: the others are at most the limit
   plus one for each open turn, whatever is cancelled, deleted or evicted. *)
BoundedButLeaks ==
    Cardinality(Present(slot) \ Leaked) <= MaxSessions + Cardinality(Active)

(* A turn that asked for its session gets it and leaves: no cancellation,
   delete or eviction strands a waiter of the entry lock. *)
EveryTurnServed == \A t \in Turn : phase[t] = "inside" ~> phase[t] = "out"
==============================================================================
