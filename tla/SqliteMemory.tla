---------------------------- MODULE SqliteMemory ----------------------------
(***************************************************************************)
(* SQLiteConversationStore (memory.py): processes that share one database  *)
(* file.  A turn reads the history, goes on without the database, and then *)
(* appends its messages in two steps: SELECT MAX(ordinal), and the INSERTs *)
(* of one transaction.  The lock of a session is known in one process only.*)
(***************************************************************************)
EXTENDS Integers, Sequences, FiniteSets, Functions, FiniteSetsExt

CONSTANTS
    Process, Session,
    Lengths,                    \* numbers of messages a turn may add
    MaxTurns, MaxDeletes, MaxFaults     \* bounds of the model

VARIABLES
    rows,       \* conversation_messages: the turn that wrote each ordinal
    turn,       \* of each process and session: the turn that has the lock
    ended,      \* what became of each turn, and what it had read
    turns, deletes, faults

vars == <<rows, turn, ended, turns, deletes, faults>>

NoTurn == [phase |-> "none"]

Init ==
    /\ rows = [s \in Session |-> <<>>]
    /\ turn = [p \in Process |-> [s \in Session |-> NoTurn]]
    /\ ended = {}
    /\ turns = 0 /\ deletes = 0 /\ faults = 0

MaxOrdinal(s) == IF rows[s] = <<>> THEN -1 ELSE Max(DOMAIN rows[s])

Set(p, s, v) == turn' = [turn EXCEPT ![p][s] = v]
End(p, s, how) ==
    /\ Set(p, s, NoTurn)
    /\ ended' = ended \cup {[id |-> turn[p][s].id, by |-> p, session |-> s, how |-> how,
                             size |-> turn[p][s].size, read |-> turn[p][s].read]}

(* memory(): the lock of this process, and the messages that are stored. *)
Begin(p, s) ==
    /\ turn[p][s] = NoTurn /\ turns < MaxTurns
    /\ turns' = turns + 1
    /\ \E n \in Lengths :
          Set(p, s, [phase |-> "open", id |-> turns + 1, size |-> n, read |-> rows[s]])
    /\ UNCHANGED <<rows, ended, deletes, faults>>

(* The body raises or is cancelled: what follows the yield is not reached. *)
BodyBreaks(p, s) ==
    /\ turn[p][s].phase = "open"
    /\ End(p, s, "raised")
    /\ UNCHANGED <<rows, turns, deletes, faults>>

(* _touch_session: a turn without messages writes nothing. *)
NothingNew(p, s) ==
    /\ turn[p][s].phase = "open" /\ turn[p][s].size = 0
    /\ End(p, s, "stored")
    /\ UNCHANGED <<rows, turns, deletes, faults>>

SelectMax(p, s) ==
    /\ turn[p][s].phase = "open" /\ turn[p][s].size > 0
    /\ Set(p, s, [phase |-> "insert", id |-> turn[p][s].id, size |-> turn[p][s].size,
                  read |-> turn[p][s].read, first |-> MaxOrdinal(s) + 1])
    /\ UNCHANGED <<rows, ended, turns, deletes, faults>>

Ordinals(t) == t.first .. t.first + t.size - 1

(* Mutant: INSERT OR REPLACE. *)
Taken_Never(p, s) == FALSE

(* A row has an ordinal already: the primary key. *)
Taken(p, s) == Ordinals(turn[p][s]) \cap DOMAIN rows[s] # {}

(* executemany and the commit. *)
Insert(p, s) ==
    LET t == turn[p][s]
    IN  /\ t.phase = "insert" /\ ~Taken(p, s)
        /\ rows' = [rows EXCEPT ![s] =
                       [o \in DOMAIN @ \cup Ordinals(t) |-> IF o \in Ordinals(t) THEN t.id ELSE @[o]]]
        /\ End(p, s, "stored")
        /\ UNCHANGED <<turns, deletes, faults>>

(* IntegrityError, or a database that is locked: the transaction is undone. *)
InsertFails(p, s) ==
    /\ turn[p][s].phase = "insert"
    /\ \/ Taken(p, s) /\ UNCHANGED faults
       \/ ~Taken(p, s) /\ faults < MaxFaults /\ faults' = faults + 1
    /\ End(p, s, IF Taken(p, s) THEN "collided" ELSE "raised")
    /\ UNCHANGED <<rows, turns, deletes>>

(* delete(): asks for no lock. *)
Delete(s) ==
    /\ rows[s] # <<>> /\ deletes < MaxDeletes
    /\ deletes' = deletes + 1
    /\ rows' = [rows EXCEPT ![s] = <<>>]
    /\ UNCHANGED <<turn, ended, turns, faults>>

(* A process dies and starts again: its locks and open turns are gone. *)
Crash(p) ==
    /\ faults < MaxFaults /\ faults' = faults + 1
    /\ turn' = [turn EXCEPT ![p] = [s \in Session |-> NoTurn]]
    /\ UNCHANGED <<rows, ended, turns, deletes>>

Next ==
    \/ \E p \in Process, s \in Session :
          Begin(p, s) \/ BodyBreaks(p, s) \/ NothingNew(p, s) \/ SelectMax(p, s)
          \/ Insert(p, s) \/ InsertFails(p, s)
    \/ \E s \in Session : Delete(s)
    \/ \E p \in Process : Crash(p)

Spec == Init /\ [][Next]_vars

------------------------------------------------------------------------------
OrdinalsOf(s, id) == {o \in DOMAIN rows[s] : rows[s][o] = id}
Written(s) == {rows[s][o] : o \in DOMAIN rows[s]}
EndOf(id) == CHOOSE e \in ended : e.id = id

(* What is stored of a session is whole turns, each in a row: no turn of another
   process comes in between or overwrites one, and one that collided, raised or
   died left nothing.  As long as nothing was deleted, every turn that ended
   well is there, and without gaps. *)
TurnsAreWhole ==
    \A s \in Session :
        /\ \A id \in Written(s) :
              /\ \E e \in ended : e.id = id /\ e.session = s /\ e.how = "stored"
              /\ Cardinality(OrdinalsOf(s, id)) = EndOf(id).size
              /\ Max(OrdinalsOf(s, id)) - Min(OrdinalsOf(s, id)) = EndOf(id).size - 1
        /\ deletes = 0 =>
              /\ DOMAIN rows[s] = 0 .. Cardinality(DOMAIN rows[s]) - 1
              /\ \A e \in ended : e.session = s /\ e.how = "stored" /\ e.size > 0 =>
                    e.id \in Written(s)

(* A turn is lost to another one only when two processes serve the session: the
   lock of one process keeps its own turns apart, so each has read all those
   that were stored by this process before. *)
LostToAnotherProcess ==
    \A e \in ended :
        /\ e.how = "collided" => \E f \in ended : f.session = e.session /\ f.by # e.by
        /\ e.how = "stored" /\ deletes = 0 =>
              \A f \in ended :
                 f.session = e.session /\ f.by = e.by /\ f.how = "stored" /\ f.size > 0 /\ f.id < e.id
                    => f.id \in {e.read[o] : o \in DOMAIN e.read}
------------------------------------------------------------------------------
(* What the two properties rest on. *)

(* The functions have their domains; ordinals and ids are numbers. *)
Shaped ==
    /\ rows = [s \in Session |-> rows[s]]
    /\ turn = [p \in Process |-> [s \in Session |-> turn[p][s]]]
    /\ \A s \in Session : DOMAIN rows[s] \subseteq Nat
    /\ turns \in Nat /\ deletes \in Nat
    /\ \A e \in ended : e.id \in 1 .. turns /\ e.by \in Process /\ e.size \in Lengths

Open(p, s) == turn[p][s].phase \in {"open", "insert"}
Inserting(p, s) == turn[p][s].phase = "insert"

(* What is known of a turn that has the lock: its id is its own, and later than
   those of the turns its process has ended in this session. *)
TurnsApart ==
    /\ \A p \in Process, s \in Session :
          /\ turn[p][s] = NoTurn \/ Open(p, s)
          /\ Open(p, s) => turn[p][s].id \in 1 .. turns /\ turn[p][s].size \in Lengths
          /\ Inserting(p, s) => turn[p][s].first \in Nat /\ turn[p][s].size > 0
          /\ Open(p, s) => \A e \in ended :
                e.id # turn[p][s].id /\ (e.by = p /\ e.session = s => e.id < turn[p][s].id)
    /\ \A p, q \in Process, s, z \in Session :
          Open(p, s) /\ Open(q, z) /\ turn[p][s].id = turn[q][z].id => p = q /\ s = z
    /\ \A e, f \in ended : e.id = f.id => e = f

(* The rows of a session are those of stored turns, each at consecutive ordinals,
   and there is a last one. *)
RowsInRuns ==
    \A s \in Session :
        /\ \A o \in DOMAIN rows[s] : \E e \in ended :
              /\ e.id = rows[s][o] /\ e.session = s /\ e.how = "stored" /\ e.size > 0
              /\ \E first \in DOMAIN rows[s] : OrdinalsOf(s, e.id) = first .. first + e.size - 1
        /\ rows[s] # <<>> => \E last \in DOMAIN rows[s] : \A o \in DOMAIN rows[s] : o <= last

(* Before the first delete: no gaps, no stored turn is missing, and the ordinals
   below the ones a turn is about to insert are taken. *)
NothingMissing ==
    deletes = 0 => \A s \in Session :
        /\ \A o \in DOMAIN rows[s] : 0 .. o \subseteq DOMAIN rows[s]
        /\ \A e \in ended :
              e.session = s /\ e.how = "stored" /\ e.size > 0 => e.id \in Written(s)
        /\ \A p \in Process : Inserting(p, s) => 0 .. turn[p][s].first - 1 \subseteq DOMAIN rows[s]

(* Ordinals that a turn finds taken came from another process after its SELECT,
   and what its own process had stored was there when it began. *)
OwnTurnsSeen ==
    \A p \in Process, s \in Session :
        /\ Inserting(p, s) => \A o \in DOMAIN rows[s] : o >= turn[p][s].first =>
              \E e \in ended : e.session = s /\ e.by # p
        /\ deletes = 0 /\ Open(p, s) => \A e \in ended :
              e.session = s /\ e.by = p /\ e.how = "stored" /\ e.size > 0
                 => e.id \in {turn[p][s].read[o] : o \in DOMAIN turn[p][s].read}

IInv ==
    Shaped /\ TurnsApart /\ RowsInRuns /\ NothingMissing /\ OwnTurnsSeen /\ LostToAnotherProcess
==============================================================================
