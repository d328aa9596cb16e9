------------------------ MODULE ConversationStore_proof ------------------------
(***************************************************************************)
(* Proofs about ConversationStore, for every set of keys and turns, every  *)
(* limit and every combination of deletes and cancellations.               *)
(***************************************************************************)
EXTENDS ConversationStore, FiniteSetTheorems, SequenceTheorems, TLAPS

(* The locals `key` and `entry` are set exactly while the turn is open. *)
LocalsOK ==
    \A t \in Turn : IF phase[t] = "out" THEN session[t] = None /\ held[t] = None
                                        ELSE session[t] \in Key /\ held[t] \in Entry

(* No entry object serves two keys. *)
SlotsDistinct ==
    \A j, k \in Key : slot[j] = slot[k] /\ slot[j] # None => j = k

IInv == TypeOK /\ LocalsOK /\ SlotsDistinct /\ InUseKept /\ PinsCoverUsers

(* Removing one place of a queue leaves a queue of the same elements. *)
LEMMA RemoveAtType ==
    ASSUME NEW S, NEW s \in Seq(S), NEW i \in DOMAIN s
    PROVE  RemoveAt(s, i) \in Seq(S)
BY DEF RemoveAt

(* The decrement of the `finally` never leaves the naturals. *)
LEMMA UnpinnedType ==
    ASSUME NEW k, pins \in [Entry -> Nat]
    PROVE  Unpinned(k) \in [Entry -> Nat]
<1> DEFINE one(e) == IF pins[e] > 0 THEN pins[e] - 1 ELSE 0
<1>1. ASSUME NEW e \in Entry PROVE one(e) \in Nat
  BY <1>1
<1>2. [pins EXCEPT ![slot[k]] = IF @ > 0 THEN @ - 1 ELSE 0]
        = [e \in Entry |-> IF e = slot[k] THEN one(e) ELSE pins[e]]
  OBVIOUS
<1> HIDE DEF one
<1> QED
  BY ZenonT(60), <1>1, <1>2 DEF Unpinned

(* The state is well typed in every reachable state. *)
LEMMA TypeInit == Init => TypeOK
<1> SUFFICES ASSUME Init PROVE TypeOK
  OBVIOUS
<1>1. Cardinality(Key) \in Nat
  BY KeyAssumption, FS_CardinalityType
<1>2. age \in [Key -> Int]
  BY <1>1 DEF Init
<1> QED
  BY <1>2 DEF Init, TypeOK

LEMMA TypeStep == TypeOK /\ [Next]_vars => TypeOK'
<1> SUFFICES ASSUME TypeOK, [Next]_vars PROVE TypeOK'
  OBVIOUS
<1> USE DEF TypeOK
<1>1. ASSUME NEW t \in Turn, NEW k \in Key, Enter(t, k) PROVE TypeOK'
  <2>1. Cardinality(Key) \in Nat
    BY KeyAssumption, FS_CardinalityType
  <2>2. age' \in [Key -> Int]
    BY <1>1, <2>1 DEF Enter, Touch
  <2>3. PICK e \in Entry : /\ slot' = [slot EXCEPT ![k] = e]
                           /\ held' = [held EXCEPT ![t] = e]
                           /\ \/ /\ pins' = [pins EXCEPT ![e] = @ + 1]
                                 /\ waiters' = [waiters EXCEPT ![e] = Append(@, t)]
                              \/ /\ pins' = [pins EXCEPT ![e] = 1]
                                 /\ waiters' = [waiters EXCEPT ![e] = <<t>>]
    BY <1>1 DEF Enter
  <2>4. pins' \in [Entry -> Nat]
    BY <2>3
  <2>5. Append(waiters[e], t) \in Seq(Turn) /\ <<t>> \in Seq(Turn)
    OBVIOUS
  <2>6. waiters' \in [Entry -> Seq(Turn)]
    BY <2>3, <2>5
  <2> QED
    BY <1>1, <2>2, <2>3, <2>4, <2>6 DEF Enter
<1>2. ASSUME NEW t \in Turn, Finish(t) PROVE TypeOK'
  <2>0. ASSUME NEW e \in Entry, e = held[t] PROVE Tail(waiters[e]) \in Seq(Turn)
    BY <1>2, <2>0, HeadTailProperties DEF Finish, Holds
  <2>1. waiters' \in [Entry -> Seq(Turn)]
    BY <1>2, <2>0 DEF Finish
  <2> QED
    BY <1>2, <2>1 DEF Finish
<1>3. ASSUME NEW t \in Turn, CancelInside(t) PROVE TypeOK'
  <2>1. PICK i \in DOMAIN waiters[held[t]] :
            waiters' = [waiters EXCEPT ![held[t]] = RemoveAt(@, i)]
    BY <1>3 DEF CancelInside
  <2>2. waiters' \in [Entry -> Seq(Turn)]
    BY <2>1, RemoveAtType
  <2> QED
    BY <1>3, <2>2 DEF CancelInside
<1>4. ASSUME NEW t \in Turn, CancelLeaving(t) PROVE TypeOK'
  BY <1>4 DEF CancelLeaving
<1>5. ASSUME NEW t \in Turn, Leave(t) PROVE TypeOK'
  <2>1. pins' \in [Entry -> Nat]
    BY <1>5, UnpinnedType DEF Leave
  <2>2. slot' \in [Key -> Entry \cup {None}]
    BY <1>5 DEF Leave
  <2> QED
    BY <1>5, <2>1, <2>2 DEF Leave, Gone
<1>6. ASSUME NEW t \in Turn, LeaveInterrupted(t) PROVE TypeOK'
  BY <1>6 DEF LeaveInterrupted, Gone
<1>7. ASSUME NEW k \in Key, Delete(k) PROVE TypeOK'
  BY <1>7 DEF Delete
<1>8. ASSUME UNCHANGED vars PROVE TypeOK'
  BY <1>8 DEF vars
<1> QED
  BY <1>1, <1>2, <1>3, <1>4, <1>5, <1>6, <1>7, <1>8 DEF Next, TurnStep

(* Every variable keeps its type in every reachable state of the store,
   whatever turns, deletes and cancellations do. *)
THEOREM TypeCorrect == Spec => []TypeOK
BY TypeInit, TypeStep, PTL DEF Spec

------------------------------------------------------------------------------
(* How the set of a session's open turns changes: it grows by the turn that
   enters, it loses the turn that leaves, and it is a finite set. *)
LEMMA UsersFinite == \A k : IsFiniteSet(Users(k)) /\ Cardinality(Users(k)) \in Nat
<1>1. \A k : Users(k) \in SUBSET Turn
  BY DEF Users, Active
<1> QED
  BY <1>1, TurnAssumption, FS_Subset, FS_CardinalityType

LEMMA UsersEnter ==
    ASSUME TypeOK, LocalsOK, NEW t \in Turn, NEW k \in Key, Enter(t, k)
    PROVE  /\ t \notin Users(k)
           /\ Users(k)' = Users(k) \cup {t}
           /\ Cardinality(Users(k)') = Cardinality(Users(k)) + 1
           /\ \A j \in Key \ {k} : Users(j)' = Users(j)
<1>1. t \notin Users(k) /\ Users(k)' = Users(k) \cup {t}
  BY DEF Enter, Users, Active, TypeOK
<1>2. \A j \in Key \ {k} : Users(j)' = Users(j)
  BY NoneAssumption DEF Enter, Users, Active, TypeOK, LocalsOK
<1> QED
  BY SMTT(30), <1>1, <1>2, UsersFinite, FS_AddElement

LEMMA UsersGone ==
    ASSUME TypeOK, LocalsOK, NEW t \in Turn, phase[t] = "leaving", Gone(t)
    PROVE  /\ session[t] \in Key /\ held[t] \in Entry
           /\ t \in Users(session[t])
           /\ Cardinality(Users(session[t])) > 0
           /\ \A k \in Key : Users(k)' = Users(k) \ {t}
           /\ \A k \in Key \ {session[t]} : Users(k)' = Users(k)
<1>1. session[t] \in Key /\ held[t] \in Entry /\ t \in Users(session[t])
  BY DEF Users, Active, LocalsOK
<1>2. {u \in Turn : phase'[u] # "out"} = Active \ {t}
  BY DEF Gone, TypeOK, Active
<1>3. \A u \in Turn \ {t} : session'[u] = session[u]
  BY DEF Gone, TypeOK
<1>4. \A k \in Key : Users(k)' = Users(k) \ {t}
  BY <1>2, <1>3 DEF Users, Active
<1>5. Cardinality(Users(session[t])) # 0
  BY <1>1, UsersFinite, FS_EmptySet
<1>6. \A k \in Key \ {session[t]} : Users(k)' = Users(k)
  BY <1>4 DEF Users
<1>7. Cardinality(Users(session[t])) \in Nat
  BY UsersFinite
<1> QED
  BY <1>1, <1>4, <1>5, <1>6, <1>7

(* The turns that stay open keep their locals when t leaves. *)
LEMMA GoneKeepsOthers ==
    ASSUME TypeOK, NEW t \in Turn, Gone(t), NEW u \in Active'
    PROVE  u # t /\ u \in Active /\ session'[u] = session[u] /\ held'[u] = held[u]
BY DEF Gone, TypeOK, Active

(* A session that is undisturbed after t left either was undisturbed before,
   or has no open turn left. *)
LEMMA GoneDisturbed ==
    ASSUME TypeOK, LocalsOK, NEW t \in Turn, phase[t] = "leaving", Gone(t),
           NEW k \in Key, k \notin disturbed', Users(k)' # {}
    PROVE  k \notin disturbed
<1>1. CASE k = session[t] /\ Users(session[t]) = {t}
  BY <1>1, UsersGone
<1>2. CASE ~(k = session[t] /\ Users(session[t]) = {t})
  BY <1>2 DEF Gone
<1> QED
  BY <1>1, <1>2

------------------------------------------------------------------------------
LEMMA IInvInit == Init => IInv
<1> SUFFICES ASSUME Init PROVE IInv
  OBVIOUS
<1>1. Active = {}
  BY DEF Init, Active
<1>2. \A k : Users(k) = {}
  BY <1>1 DEF Users
<1>3. LocalsOK /\ SlotsDistinct /\ InUseKept
  BY <1>1 DEF Init, LocalsOK, SlotsDistinct, InUseKept
<1> QED
  BY <1>2, <1>3, TypeInit DEF IInv, PinsCoverUsers

(* Entering: a missing session gets an entry nobody can reach. *)
LEMMA IInvEnter ==
    ASSUME IInv, NEW t \in Turn, NEW k \in Key, Enter(t, k)
    PROVE  LocalsOK' /\ SlotsDistinct' /\ InUseKept' /\ PinsCoverUsers'
<1> USE DEF IInv
<1>1. PICK e \in Entry :
        /\ slot' = [slot EXCEPT ![k] = e]
        /\ held' = [held EXCEPT ![t] = e]
        /\ \/ /\ slot[k] # None /\ e = slot[k]
              /\ pins' = [pins EXCEPT ![e] = @ + 1]
           \/ /\ slot[k] = None /\ ~Reachable(e)
              /\ pins' = [pins EXCEPT ![e] = 1]
  BY DEF Enter
<1>2. LocalsOK'
  BY <1>1 DEF Enter, LocalsOK, TypeOK
<1>3. \A j \in Key \ {k} : slot'[j] = slot[j] /\ slot[j] # e
  BY <1>1 DEF SlotsDistinct, Reachable, TypeOK
<1>4. slot'[k] = e /\ e # None
  BY <1>1, NoneAssumption DEF TypeOK
<1>5. SlotsDistinct'
  BY <1>3, <1>4 DEF SlotsDistinct
<1>6. InUseKept'
  <2> SUFFICES ASSUME NEW u \in Active', session'[u] \notin disturbed'
               PROVE  held'[u] = slot'[session'[u]]
    BY DEF InUseKept, Active
  <2>1. CASE u = t
    BY <2>1, <1>1, <1>4 DEF Enter, TypeOK
  <2>2. CASE u # t
    <3>1. /\ u \in Active /\ session'[u] = session[u] /\ held'[u] = held[u]
          /\ session[u] \notin disturbed
      BY <2>2, <1>1 DEF Enter, TypeOK, Active
    <3>2. session[u] \in Key /\ held[u] \in Entry /\ held[u] = slot[session[u]]
      BY <3>1 DEF LocalsOK, InUseKept, Active
    <3>3. slot[k] # None \/ session[u] # k
      BY <3>2, NoneAssumption
    <3> QED
      BY <3>1, <3>2, <3>3, <1>1, <1>3, <1>4
  <2> QED
    BY <2>1, <2>2
<1>7. PinsCoverUsers'
  <2> SUFFICES ASSUME NEW j \in Key \ disturbed', Users(j)' # {}
               PROVE  Cardinality(Users(j)') <= pins'[slot'[j]]
    BY DEF PinsCoverUsers
  <2>1. j \notin disturbed
    BY DEF Enter
  <2>2. CASE j = k
    <3>1. CASE slot[k] # None
      <4>1. pins'[e] = pins[e] + 1 /\ e = slot[k] /\ pins[e] \in Nat
        BY <1>1, <3>1 DEF TypeOK
      <4>2. Cardinality(Users(k)) <= pins[e]
        <5>1. CASE Users(k) = {}
          BY <5>1, <4>1, FS_EmptySet
        <5>2. CASE Users(k) # {}
          BY <5>2, <4>1, <2>1, <2>2 DEF PinsCoverUsers
        <5> QED
          BY <5>1, <5>2
      <4> QED
        BY <4>1, <4>2, <2>2, <1>4, UsersEnter, UsersFinite
    <3>2. CASE slot[k] = None
      <4>1. \A u \in Users(k) : held[u] = None /\ held[u] \in Entry
        BY <3>2, <2>1, <2>2 DEF Users, Active, InUseKept, LocalsOK
      <4>2. Users(k) = {}
        BY <4>1, NoneAssumption
      <4>3. pins'[e] = 1
        BY <1>1, <3>2 DEF TypeOK
      <4> QED
        BY <4>2, <4>3, <2>2, <1>4, UsersEnter, FS_EmptySet
    <3> QED
      BY <3>1, <3>2
  <2>3. CASE j # k
    <3>1. Users(j)' = Users(j) /\ slot'[j] = slot[j]
      BY <2>3, <1>3, UsersEnter
    <3>0. slot[j] \in Entry /\ slot[j] # e
      BY <3>1, <2>1, <2>3, <1>3 DEF Users, Active, InUseKept, LocalsOK
    <3>2. pins'[slot[j]] = pins[slot[j]]
      BY <3>0, <1>1 DEF TypeOK
    <3> QED
      BY <2>1, <3>1, <3>2 DEF PinsCoverUsers
  <2> QED
    BY <2>2, <2>3
<1> QED
  BY <1>2, <1>5, <1>6, <1>7

(* Leaving through the `finally`: the decrement hits the turn's own pin, and
   eviction takes only keys nobody pins. *)
LEMMA IInvLeave ==
    ASSUME IInv, NEW t \in Turn, Leave(t)
    PROVE  LocalsOK' /\ SlotsDistinct' /\ InUseKept' /\ PinsCoverUsers'
<1> USE DEF IInv
<1> DEFINE s == session[t]
<1>1. phase[t] = "leaving" /\ Gone(t) /\ pins' = Unpinned(s)
  BY DEF Leave
<1>2. s \in Key /\ t \in Users(s)
  BY <1>1, UsersGone
<1>3. PICK V \in Victims(pins') :
        slot' = [k \in Key |-> IF k \in V THEN None ELSE slot[k]]
  BY DEF Leave
<1>4. \A k \in V : slot[k] # None /\ pins'[slot[k]] = 0
  BY DEF Victims, Idle, Present
<1>5. LocalsOK'
  BY <1>1 DEF Gone, LocalsOK, TypeOK
<1>6. SlotsDistinct'
  BY <1>3 DEF SlotsDistinct
<1>7. ASSUME NEW k \in Key \ disturbed', Users(k)' # {}
      PROVE  /\ k \notin V /\ slot'[k] = slot[k] /\ slot[k] \in Entry
             /\ Cardinality(Users(k)') <= pins'[slot[k]]
  <2>1. k \notin disturbed
    BY <1>1, <1>7, GoneDisturbed
  <2>2. Users(k) # {} /\ Users(k)' = Users(k) \ {t}
    BY <1>1, <1>7, UsersGone
  <2>3. slot[k] \in Entry /\ Cardinality(Users(k)) <= pins[slot[k]]
    BY <2>1, <2>2 DEF Users, Active, InUseKept, LocalsOK, PinsCoverUsers
  <2>4. pins[slot[k]] \in Nat /\ Cardinality(Users(k)) \in Nat
    BY <2>3, UsersFinite DEF TypeOK
  <2>5. Cardinality(Users(k)') <= pins'[slot[k]]
    <3>1. CASE k = s
      <4>1. Cardinality(Users(k) \ {t}) = Cardinality(Users(k)) - 1
        BY <3>1, <1>2, UsersFinite, FS_RemoveElement
      <4>2. slot[s] # None /\ Cardinality(Users(k)) > 0
        BY <3>1, <2>3, NoneAssumption, <1>1, UsersGone
      <4>3. pins'[slot[k]] = pins[slot[k]] - 1
        BY <4>2, <3>1, <1>1, <2>3, <2>4 DEF Unpinned, TypeOK
      <4> QED
        BY <4>1, <4>3, <2>2, <2>3, <2>4
    <3>2. CASE k # s
      <4>1. Users(k)' = Users(k)
        BY <3>2, <1>1, UsersGone
      <4>2. slot[s] # slot[k]
        BY <3>2, <1>2, <2>3, NoneAssumption DEF SlotsDistinct
      <4>3. pins'[slot[k]] = pins[slot[k]]
        BY <4>2, <1>1, <2>3 DEF Unpinned, TypeOK
      <4> QED
        BY <4>1, <4>3, <2>3
    <3> QED
      BY <3>1, <3>2
  <2>6. Cardinality(Users(k)') # 0 /\ Cardinality(Users(k)') \in Nat
    <3>1. IsFiniteSet(Users(k)')
      BY <2>2, UsersFinite, FS_RemoveElement
    <3> QED
      BY <3>1, <1>7, FS_CardinalityType, FS_EmptySet
  <2>7. k \notin V
    BY <1>4, <2>5, <2>6
  <2> QED
    BY <2>3, <2>5, <2>7, <1>3
<1>8. InUseKept'
  <2> SUFFICES ASSUME NEW u \in Active', session'[u] \notin disturbed'
               PROVE  held'[u] = slot'[session'[u]]
    BY DEF InUseKept, Active
  <2>1. u # t /\ u \in Active /\ session'[u] = session[u] /\ held'[u] = held[u]
    BY <1>1, GoneKeepsOthers
  <2>2. session[u] \in Key /\ u \in Users(session[u])
    BY <2>1 DEF Users, Active, LocalsOK
  <2>3. PICK k \in Key : k = session[u]
    BY <2>2
  <2>4. Users(k)' # {}
    BY <2>1, <2>2, <2>3, <1>1, UsersGone
  <2>5. k \notin disturbed /\ slot'[k] = slot[k]
    BY <2>1, <2>3, <2>4, <1>1, <1>7, GoneDisturbed
  <2> QED
    BY <2>1, <2>3, <2>5 DEF InUseKept
<1>9. PinsCoverUsers'
  BY <1>7 DEF PinsCoverUsers
<1> QED
  BY <1>5, <1>6, <1>8, <1>9

(* Leaving without the `finally`: the leaked pin only over-counts. *)
LEMMA IInvLeaveInterrupted ==
    ASSUME IInv, NEW t \in Turn, LeaveInterrupted(t)
    PROVE  LocalsOK' /\ SlotsDistinct' /\ InUseKept' /\ PinsCoverUsers'
<1> USE DEF IInv
<1>1. phase[t] = "leaving" /\ Gone(t) /\ slot' = slot /\ pins' = pins
  BY DEF LeaveInterrupted
<1>2. LocalsOK' /\ SlotsDistinct'
  BY <1>1 DEF Gone, LocalsOK, TypeOK, SlotsDistinct
<1>3. InUseKept'
  <2> SUFFICES ASSUME NEW u \in Active', session'[u] \notin disturbed'
               PROVE  held'[u] = slot'[session'[u]]
    BY DEF InUseKept, Active
  <2>1. u # t /\ u \in Active /\ session'[u] = session[u] /\ held'[u] = held[u]
    BY <1>1, GoneKeepsOthers
  <2>2. PICK k \in Key : k = session[u] /\ u \in Users(k)
    BY <2>1 DEF Users, Active, LocalsOK
  <2>3. Users(k)' # {}
    BY <2>1, <2>2, <1>1, UsersGone
  <2>4. k \notin disturbed
    BY <2>1, <2>2, <2>3, <1>1, GoneDisturbed
  <2> QED
    BY <2>1, <2>2, <2>4, <1>1 DEF InUseKept
<1>4. PinsCoverUsers'
  <2> SUFFICES ASSUME NEW k \in Key \ disturbed', Users(k)' # {}
               PROVE  Cardinality(Users(k)') <= pins'[slot'[k]]
    BY DEF PinsCoverUsers
  <2>1. k \notin disturbed /\ Users(k)' = Users(k) \ {t} /\ Users(k) # {}
    BY <1>1, GoneDisturbed, UsersGone
  <2>2. Cardinality(Users(k)) <= pins[slot[k]] /\ slot[k] \in Entry
    BY <2>1 DEF Users, Active, InUseKept, LocalsOK, PinsCoverUsers
  <2>3. Cardinality(Users(k) \ {t}) <= Cardinality(Users(k))
    BY UsersFinite, FS_Subset
  <2>4. /\ pins[slot[k]] \in Nat /\ Cardinality(Users(k)) \in Nat
        /\ Cardinality(Users(k) \ {t}) \in Nat
    BY <2>2, UsersFinite, FS_RemoveElement, FS_CardinalityType DEF TypeOK
  <2> QED
    BY <2>1, <2>2, <2>3, <2>4, <1>1
<1> QED
  BY <1>2, <1>3, <1>4

(* Deleting a session somebody uses disturbs it. *)
LEMMA IInvDelete ==
    ASSUME IInv, NEW k \in Key, Delete(k)
    PROVE  LocalsOK' /\ SlotsDistinct' /\ InUseKept' /\ PinsCoverUsers'
<1> USE DEF IInv
<1>1. \A j : Users(j)' = Users(j)
  BY DEF Delete, Users, Active
<1>2. LocalsOK' /\ SlotsDistinct'
  BY DEF Delete, LocalsOK, SlotsDistinct, TypeOK
<1>3. \A j \in Key \ disturbed' : Users(j) # {} => j \notin disturbed /\ j # k
  BY DEF Delete
<1>4. \A j \in Key : j # k => slot'[j] = slot[j]
  BY DEF Delete, TypeOK
<1>5. InUseKept'
  <2> SUFFICES ASSUME NEW u \in Active', session'[u] \notin disturbed'
               PROVE  held'[u] = slot'[session'[u]]
    BY DEF InUseKept, Active
  <2>1. u \in Active /\ session'[u] = session[u] /\ held'[u] = held[u]
    BY DEF Delete, Active
  <2>2. session[u] \in Key /\ u \in Users(session[u])
    BY <2>1 DEF Users, Active, LocalsOK
  <2> QED
    BY <2>1, <2>2, <1>3, <1>4 DEF InUseKept
<1>6. PinsCoverUsers'
  BY <1>1, <1>3, <1>4 DEF PinsCoverUsers, Delete
<1> QED
  BY <1>2, <1>5, <1>6

(* A step that only moves a turn inside memory() keeps the relation of turns,
   slots and pins. *)
LEMMA IInvInside ==
    ASSUME IInv, NEW t \in Turn, phase[t] # "out",
           phase' = phase \/ phase' = [phase EXCEPT ![t] = "leaving"],
           UNCHANGED <<slot, pins, session, held, disturbed>>
    PROVE  LocalsOK' /\ SlotsDistinct' /\ InUseKept' /\ PinsCoverUsers'
<1> USE DEF IInv
<1>1. \A u \in Turn : phase'[u] = "out" <=> phase[u] = "out"
  BY DEF TypeOK
<1>2. Active' = Active /\ \A k : Users(k)' = Users(k)
  BY <1>1 DEF Active, Users
<1> QED
  BY <1>1, <1>2 DEF LocalsOK, SlotsDistinct, InUseKept, PinsCoverUsers

LEMMA IInvStep == IInv /\ [Next]_vars => IInv'
<1> SUFFICES ASSUME IInv, [Next]_vars PROVE IInv'
  OBVIOUS
<1>0. TypeOK'
  BY TypeStep DEF IInv
<1> DEFINE Rest == LocalsOK /\ SlotsDistinct /\ InUseKept /\ PinsCoverUsers
<1>1. ASSUME NEW t \in Turn, NEW k \in Key, Enter(t, k) PROVE Rest'
  BY <1>1, IInvEnter
<1>2. ASSUME NEW t \in Turn, Finish(t) PROVE Rest'
  BY <1>2, IInvInside DEF Finish, Holds
<1>3. ASSUME NEW t \in Turn, CancelInside(t) PROVE Rest'
  BY <1>3, IInvInside DEF CancelInside
<1>4. ASSUME NEW t \in Turn, CancelLeaving(t) PROVE Rest'
  BY <1>4, IInvInside DEF CancelLeaving
<1>5. ASSUME NEW t \in Turn, Leave(t) PROVE Rest'
  BY <1>5, IInvLeave
<1>6. ASSUME NEW t \in Turn, LeaveInterrupted(t) PROVE Rest'
  BY <1>6, IInvLeaveInterrupted
<1>7. ASSUME NEW k \in Key, Delete(k) PROVE Rest'
  BY <1>7, IInvDelete
<1>8. ASSUME UNCHANGED vars PROVE Rest'
  BY <1>8 DEF vars, IInv, LocalsOK, SlotsDistinct, InUseKept, PinsCoverUsers,
              Users, Active
<1>9. Rest'
  <2> HIDE DEF Rest
  <2> QED
    BY <1>1, <1>2, <1>3, <1>4, <1>5, <1>6, <1>7, <1>8 DEF Next, TurnStep
<1> QED
  BY <1>0, <1>9 DEF IInv

LEMMA IInvariant == Spec => []IInv
BY IInvInit, IInvStep, PTL DEF Spec

(* An entry in use is never evicted: an open turn of an undisturbed session
   works on the memory the dictionary holds, for any limit, any number of
   turns, and any deletes and cancellations. *)
THEOREM EvictionSparesUsers == Spec => []InUseKept
<1>1. IInv => InUseKept
  BY DEF IInv
<1> QED
  BY <1>1, IInvariant, PTL

(* The pins of an undisturbed session count at least its open turns. *)
THEOREM PinsCoverUsersAlways == Spec => []PinsCoverUsers
<1>1. IInv => PinsCoverUsers
  BY DEF IInv
<1> QED
  BY <1>1, IInvariant, PTL

(* Turns of an undisturbed session run one at a time. *)
THEOREM OneTurnPerSession == Spec => []SessionExclusive
<1>1. IInv => SessionExclusive
  <2> SUFFICES ASSUME IInv, NEW t \in Turn, NEW u \in Turn, Holds(t), Holds(u),
                      session[t] = session[u], session[t] \notin disturbed
               PROVE  t = u
    BY DEF SessionExclusive
  <2>1. t \in Active /\ u \in Active
    BY DEF Holds, Active
  <2>2. held[t] = held[u]
    BY <2>1 DEF IInv, InUseKept
  <2> QED
    BY <2>2 DEF Holds
<1> QED
  BY <1>1, IInvariant, PTL

------------------------------------------------------------------------------
(* The bound on the dictionary, when no turn is cancelled: then no pin leaks. *)

NoneCancelled == \A t \in Turn : ~cancelled[t]

(* Every pin belongs to an open turn of its session. *)
PinsWithinUsers ==
    \A k \in Present(slot) : pins[slot[k]] <= Cardinality(Users(k))

BInv == IInv /\ NoneCancelled /\ PinsWithinUsers /\ Bounded

LEMMA PresentFinite ==
    \A s : IsFiniteSet(Present(s)) /\ Cardinality(Present(s)) \in Nat
<1>1. \A s : Present(s) \in SUBSET Key
  BY DEF Present
<1> QED
  BY <1>1, KeyAssumption, FS_Subset, FS_CardinalityType

LEMMA ActiveFinite == IsFiniteSet(Active) /\ Cardinality(Active) \in Nat
<1>1. Active \in SUBSET Turn
  BY DEF Active
<1> QED
  BY <1>1, TurnAssumption, FS_Subset, FS_CardinalityType

LEMMA BInvInit == Init => BInv
<1> SUFFICES ASSUME Init PROVE BInv
  OBVIOUS
<1>1. Present(slot) = {} /\ Active = {}
  BY DEF Init, Present, Active
<1>2. Bounded
  BY <1>1, FS_EmptySet, LimitAssumption DEF Bounded
<1>3. NoneCancelled
  BY DEF Init, NoneCancelled
<1>4. PinsWithinUsers
  BY <1>1 DEF PinsWithinUsers
<1> QED
  BY <1>2, <1>3, <1>4, IInvInit DEF BInv

LEMMA BInvEnter ==
    ASSUME BInv, NEW t \in Turn, NEW k \in Key, Enter(t, k)
    PROVE  NoneCancelled' /\ PinsWithinUsers' /\ Bounded'
<1> USE DEF BInv, IInv
<1>1. PICK e \in Entry :
        /\ slot' = [slot EXCEPT ![k] = e]
        /\ \/ /\ slot[k] # None /\ e = slot[k]
              /\ pins' = [pins EXCEPT ![e] = @ + 1]
           \/ /\ slot[k] = None /\ ~Reachable(e)
              /\ pins' = [pins EXCEPT ![e] = 1]
  BY DEF Enter
<1>2. e # None /\ slot'[k] = e
  BY <1>1, NoneAssumption DEF TypeOK
<1>3. \A j \in Key \ {k} : slot'[j] = slot[j] /\ slot[j] # e
  BY <1>1 DEF SlotsDistinct, Reachable, TypeOK
<1>4. NoneCancelled'
  BY DEF Enter, NoneCancelled
<1>5. PinsWithinUsers'
  <2> SUFFICES ASSUME NEW j \in Present(slot)'
               PROVE  pins'[slot'[j]] <= Cardinality(Users(j)')
    BY DEF PinsWithinUsers
  <2>0. j \in Key
    BY DEF Present
  <2>1. CASE j = k /\ slot[k] # None
    <3>1. pins[slot[k]] <= Cardinality(Users(k)) /\ slot[k] = e /\ pins[e] \in Nat
      BY <2>1, <1>1 DEF PinsWithinUsers, Present, TypeOK
    <3>2. pins'[slot'[k]] = pins[e] + 1
      BY <2>1, <1>1, <1>2 DEF TypeOK
    <3> QED
      BY <2>1, <3>1, <3>2, UsersEnter, UsersFinite
  <2>2. CASE j = k /\ slot[k] = None
    <3>1. pins'[slot'[k]] = 1
      BY <2>2, <1>1, <1>2 DEF TypeOK
    <3> QED
      BY <2>2, <3>1, UsersEnter, UsersFinite
  <2>3. CASE j # k
    <3>1. slot'[j] = slot[j] /\ slot[j] # e /\ j \in Present(slot)
      BY <2>0, <2>3, <1>3 DEF Present
    <3>2. pins'[slot[j]] = pins[slot[j]]
      BY <2>0, <3>1, <1>1 DEF TypeOK, Present
    <3>3. Users(j)' = Users(j)
      BY <2>0, <2>3, UsersEnter
    <3> QED
      BY <3>1, <3>2, <3>3 DEF PinsWithinUsers
  <2> QED
    BY <2>1, <2>2, <2>3
<1>6. Bounded'
  <2>1. Active' = Active \cup {t} /\ t \notin Active
    BY DEF Enter, Active, TypeOK
  <2>2. Cardinality(Active') = Cardinality(Active) + 1
    BY <2>1, ActiveFinite, FS_AddElement
  <2>3. Present(slot)' = Present(slot) \cup {k}
    BY <1>2, <1>3 DEF Present
  <2>4. Cardinality(Present(slot)') <= Cardinality(Present(slot)) + 1
    <3>1. Cardinality(Present(slot) \cup {k})
            = IF k \in Present(slot) THEN Cardinality(Present(slot))
                                     ELSE Cardinality(Present(slot)) + 1
      BY PresentFinite, FS_AddElement
    <3> QED
      BY <3>1, <2>3, PresentFinite
  <2>5. Cardinality(Present(slot)') \in Nat
    BY PresentFinite
  <2> QED
    BY <2>2, <2>4, <2>5, PresentFinite, ActiveFinite, LimitAssumption DEF Bounded
<1> QED
  BY <1>4, <1>5, <1>6

(* Leaving unpins the turn's own pin, and evicts down to the limit or to the
   pinned keys, which are no more than the turns still open. *)
LEMMA BInvLeave ==
    ASSUME BInv, NEW t \in Turn, Leave(t)
    PROVE  NoneCancelled' /\ PinsWithinUsers' /\ Bounded'
<1> USE DEF BInv, IInv
<1> DEFINE s == session[t]
           P == Present(slot)
           N == Cardinality(P)
           idle == Idle(slot, pins')
<1>1. phase[t] = "leaving" /\ Gone(t) /\ pins' = Unpinned(s)
  BY DEF Leave
<1>2. PICK V \in Victims(pins') :
        slot' = [k \in Key |-> IF k \in V THEN None ELSE slot[k]]
  BY DEF Leave
<1>3. V \in SUBSET idle /\ idle \in SUBSET P
  BY DEF Victims, Idle
<1>4. NoneCancelled'
  BY <1>1 DEF Gone, NoneCancelled, TypeOK
<1>5. Present(slot)' = P \ V /\ \A k \in P \ V : slot'[k] = slot[k]
  BY <1>2 DEF Present
<1>6. \A k \in P : pins'[slot[k]] <= Cardinality(Users(k)') /\ pins'[slot[k]] \in Nat
  <2> SUFFICES ASSUME NEW k \in P
               PROVE  /\ pins'[slot[k]] <= Cardinality(Users(k)')
                      /\ pins'[slot[k]] \in Nat
    OBVIOUS
  <2>1. /\ k \in Key /\ slot[k] \in Entry /\ slot[k] # None
        /\ pins[slot[k]] \in Nat /\ pins[slot[k]] <= Cardinality(Users(k))
    BY DEF PinsWithinUsers, Present, TypeOK
  <2>2. Cardinality(Users(k)) \in Nat /\ IsFiniteSet(Users(k))
    BY UsersFinite
  <2>3. CASE k = s
    <3>1. Cardinality(Users(k) \ {t}) = Cardinality(Users(k)) - 1
      BY <2>2, <2>3, <1>1, UsersGone, FS_RemoveElement
    <3>2. Users(k)' = Users(k) \ {t} /\ Cardinality(Users(k)) > 0
      BY <2>1, <2>3, <1>1, UsersGone
    <3>3. pins'[slot[k]] = IF pins[slot[k]] > 0 THEN pins[slot[k]] - 1 ELSE 0
      BY <2>1, <2>3, <1>1 DEF Unpinned, TypeOK
    <3> QED
      BY <3>1, <3>2, <3>3, <2>1, <2>2
  <2>4. CASE k # s
    <3>1. Users(k)' = Users(k)
      BY <2>1, <2>4, <1>1, UsersGone
    <3>2. slot[s] # slot[k]
      BY <2>1, <2>4, <1>1, UsersGone DEF SlotsDistinct
    <3>3. pins'[slot[k]] = pins[slot[k]]
      BY <2>1, <3>2, <1>1 DEF Unpinned, TypeOK
    <3> QED
      BY <3>1, <3>3, <2>1
  <2> QED
    BY <2>3, <2>4
<1>7. PinsWithinUsers'
  BY <1>5, <1>6 DEF PinsWithinUsers
<1>8. Bounded'
  <2>1. IsFiniteSet(P) /\ N \in Nat
    BY PresentFinite
  <2>2. IsFiniteSet(idle) /\ IsFiniteSet(V)
    BY <1>3, <2>1, FS_Subset
  <2>3. Cardinality(idle) \in Nat /\ Cardinality(V) \in Nat
    BY <2>2, FS_CardinalityType
  <2>4. Cardinality(P \ V) = N - Cardinality(V)
    <3>1. P \cap V = V
      BY <1>3
    <3>2. Cardinality(P \ V) = N - Cardinality(P \cap V)
      BY <2>1, FS_Difference
    <3> QED
      BY <3>1, <3>2
  <2>5. Cardinality(Active') \in Nat /\ MaxSessions \in Nat
    <3>1. Active' = Active \ {t}
      BY <1>1 DEF Gone, Active, TypeOK
    <3> QED
      BY <3>1, ActiveFinite, FS_RemoveElement, FS_CardinalityType, LimitAssumption
  <2>6. /\ N - MaxSessions <= 0 => Cardinality(V) = 0
        /\ N - MaxSessions > 0 /\ N - MaxSessions <= Cardinality(idle)
             => Cardinality(V) = N - MaxSessions
        /\ N - MaxSessions > 0 /\ N - MaxSessions > Cardinality(idle)
             => Cardinality(V) = Cardinality(idle)
    BY <2>1, <2>3, <2>5 DEF Victims
  <2>7. CASE N - MaxSessions <= Cardinality(idle)
    BY <2>1, <2>3, <2>4, <2>5, <2>6, <2>7, <1>5 DEF Bounded
  <2>8. CASE N - MaxSessions > Cardinality(idle)
    <3>1. V = idle
      BY <1>3, <2>1, <2>2, <2>3, <2>5, <2>6, <2>8, FS_Subset
    <3>2. \A k \in P \ V : Cardinality(Users(k)') # 0
      <4> SUFFICES ASSUME NEW k \in P \ V PROVE Cardinality(Users(k)') # 0
        OBVIOUS
      <4>1. pins'[slot[k]] # 0
        BY <3>1 DEF Idle
      <4> QED
        BY <4>1, <1>6
    <3>3. \A k \in P \ V : Users(k)' # {}
      BY <3>2, FS_EmptySet
    <3>4. Cardinality(P \ V) <= Cardinality(Active')
      <4>1. P \ V \in SUBSET Key
        BY DEF Present
      <4>2. \A k \in P \ V : k \in {session'[u] : u \in Active'}
        BY <3>3 DEF Users
      <4>3. Active' \in SUBSET Active
        BY <1>1 DEF Gone, Active, TypeOK
      <4>4. \A u \in Active' : session'[u] = session[u]
        BY <1>1, GoneKeepsOthers
      <4>5. IsFiniteSet(Active')
        BY <4>3, ActiveFinite, FS_Subset
      <4> DEFINE f == [k \in P \ V |-> CHOOSE u \in Active' : session'[u] = k]
      <4>6. \A k \in P \ V : f[k] \in Active' /\ session'[f[k]] = k
        BY <4>2
      <4>7. f \in Injection(P \ V, Active')
        BY <4>6 DEF Injection, IsInjective
      <4> QED
        BY <4>5, <4>7, FS_Injection
    <3> QED
      BY <3>4, <2>1, <2>3, <2>4, <2>5, <1>5 DEF Bounded
  <2> QED
    BY <2>7, <2>8, <2>1, <2>3, <2>5
<1> QED
  BY <1>4, <1>7, <1>8

LEMMA BInvDelete ==
    ASSUME BInv, NEW k \in Key, Delete(k)
    PROVE  NoneCancelled' /\ PinsWithinUsers' /\ Bounded'
<1> USE DEF BInv, IInv
<1>1. Active' = Active /\ \A j : Users(j)' = Users(j)
  BY DEF Delete, Users, Active
<1>2. /\ Present(slot)' = Present(slot) \ {k}
      /\ \A j \in Present(slot) \ {k} : slot'[j] = slot[j]
  BY DEF Delete, Present, TypeOK
<1>3. NoneCancelled' /\ PinsWithinUsers'
  BY <1>1, <1>2 DEF Delete, NoneCancelled, PinsWithinUsers
<1>4. Cardinality(Present(slot) \ {k}) <= Cardinality(Present(slot))
  BY PresentFinite, FS_Subset
<1>5. Cardinality(Present(slot)') \in Nat
  BY PresentFinite
<1> QED
  BY <1>1, <1>2, <1>3, <1>4, <1>5, PresentFinite, ActiveFinite, LimitAssumption
     DEF Bounded

LEMMA BInvFinish ==
    ASSUME BInv, NEW t \in Turn, Finish(t)
    PROVE  NoneCancelled' /\ PinsWithinUsers' /\ Bounded'
<1> USE DEF BInv, IInv
<1>1. \A u \in Turn : phase'[u] = "out" <=> phase[u] = "out"
  BY DEF Finish, Holds, TypeOK
<1>2. Active' = Active /\ \A k : Users(k)' = Users(k)
  BY <1>1 DEF Active, Users, Finish
<1> QED
  BY <1>2 DEF Finish, NoneCancelled, PinsWithinUsers, Bounded

LEMMA BInvStep == ~Cancels /\ BInv /\ [Next]_vars => BInv'
<1> SUFFICES ASSUME ~Cancels, BInv, [Next]_vars PROVE BInv'
  OBVIOUS
<1>0. IInv'
  BY IInvStep DEF BInv
<1> DEFINE Rest == NoneCancelled /\ PinsWithinUsers /\ Bounded
<1>1. ASSUME NEW t \in Turn, NEW k \in Key, Enter(t, k) PROVE Rest'
  BY <1>1, BInvEnter
<1>2. ASSUME NEW t \in Turn, Finish(t) PROVE Rest'
  BY <1>2, BInvFinish
<1>3. ASSUME NEW t \in Turn, CancelInside(t) \/ CancelLeaving(t) PROVE FALSE
  BY <1>3 DEF CancelInside, CancelLeaving
<1>4. ASSUME NEW t \in Turn, LeaveInterrupted(t) PROVE FALSE
  BY <1>4 DEF LeaveInterrupted, BInv, NoneCancelled
<1>5. ASSUME NEW t \in Turn, Leave(t) PROVE Rest'
  BY <1>5, BInvLeave
<1>6. ASSUME NEW k \in Key, Delete(k) PROVE Rest'
  BY <1>6, BInvDelete
<1>7. ASSUME UNCHANGED vars PROVE Rest'
  BY <1>7 DEF vars, BInv, NoneCancelled, PinsWithinUsers, Bounded, Users, Active
<1>8. Rest'
  <2> HIDE DEF Rest
  <2> QED
    BY <1>1, <1>2, <1>3, <1>4, <1>5, <1>6, <1>7 DEF Next, TurnStep
<1> QED
  BY <1>0, <1>8 DEF BInv

(* Without cancellation the dictionary holds at most the limit plus one entry
   for each open turn, for any limit, with or without deletes. *)
THEOREM BoundedWithoutCancels ==
    ASSUME ~Cancels
    PROVE  Spec => []Bounded
<1>1. BInv /\ [Next]_vars => BInv'
  BY BInvStep
<1>2. BInv => Bounded
  BY DEF BInv
<1> QED
  BY <1>1, <1>2, BInvInit, PTL DEF Spec

------------------------------------------------------------------------------
(* The bound on the entries that leaked no pin, with cancellations. *)

(* The limit holds for the sessions nobody pins. *)
IdleBounded == Cardinality(Idle(slot, pins)) <= MaxSessions

LEMMA IdleFinite ==
    \A s, p : IsFiniteSet(Idle(s, p)) /\ Cardinality(Idle(s, p)) \in Nat
<1>1. \A s, p : Idle(s, p) \in SUBSET Present(s)
  BY DEF Idle
<1> QED
  BY <1>1, PresentFinite, FS_Subset, FS_CardinalityType

(* A step after which no other session is idle keeps the bound. *)
LEMMA IdleShrinks ==
    ASSUME IdleBounded, Idle(slot, pins)' \in SUBSET Idle(slot, pins)
    PROVE  IdleBounded'
<1>1. Cardinality(Idle(slot, pins)') <= Cardinality(Idle(slot, pins))
  BY IdleFinite, FS_Subset
<1> QED
  BY <1>1, IdleFinite, LimitAssumption DEF IdleBounded

LEMMA IdleBoundedInit == Init => IdleBounded
<1> SUFFICES ASSUME Init PROVE IdleBounded
  OBVIOUS
<1>1. Idle(slot, pins) = {}
  BY DEF Init, Idle, Present
<1> QED
  BY <1>1, FS_EmptySet, LimitAssumption DEF IdleBounded

(* The session that is entered is pinned; the others keep their pins. *)
LEMMA IdleBoundedEnter ==
    ASSUME IInv, IdleBounded, NEW t \in Turn, NEW k \in Key, Enter(t, k)
    PROVE  IdleBounded'
<1> USE DEF IInv
<1>1. PICK e \in Entry :
        /\ slot' = [slot EXCEPT ![k] = e]
        /\ \/ /\ slot[k] # None /\ e = slot[k]
              /\ pins' = [pins EXCEPT ![e] = @ + 1]
           \/ /\ slot[k] = None /\ ~Reachable(e)
              /\ pins' = [pins EXCEPT ![e] = 1]
  BY DEF Enter
<1>2. slot'[k] = e /\ pins'[e] # 0
  BY <1>1 DEF TypeOK
<1>3. \A j \in Key \ {k} : slot'[j] = slot[j] /\ slot[j] # e
  BY <1>1 DEF SlotsDistinct, Reachable, TypeOK
<1>4. \A j \in Key \ {k} : slot[j] # None => pins'[slot[j]] = pins[slot[j]]
  BY <1>1, <1>3 DEF TypeOK
<1>5. Idle(slot, pins)' \in SUBSET Idle(slot, pins)
  BY <1>2, <1>3, <1>4 DEF Idle, Present
<1> QED
  BY <1>5, IdleShrinks

(* Eviction leaves no idle session, or no more sessions than the limit. *)
LEMMA IdleBoundedLeave ==
    ASSUME TypeOK, NEW t \in Turn, Leave(t)
    PROVE  IdleBounded'
<1> DEFINE P == Present(slot)
           N == Cardinality(P)
           idle == Idle(slot, pins')
<1>1. PICK V \in Victims(pins') :
        slot' = [k \in Key |-> IF k \in V THEN None ELSE slot[k]]
  BY DEF Leave
<1>2. V \in SUBSET idle /\ idle \in SUBSET P
  BY DEF Victims, Idle
<1>3. Idle(slot, pins)' = idle \ V
  BY <1>1, <1>2 DEF Idle, Present
<1>4. /\ IsFiniteSet(P) /\ IsFiniteSet(idle) /\ IsFiniteSet(V)
      /\ N \in Nat /\ Cardinality(idle) \in Nat /\ Cardinality(V) \in Nat
  BY <1>2, PresentFinite, IdleFinite, FS_Subset, FS_CardinalityType
<1>5. /\ N - MaxSessions <= 0 => Cardinality(V) = 0
      /\ N - MaxSessions > 0 /\ N - MaxSessions <= Cardinality(idle)
           => Cardinality(V) = N - MaxSessions
      /\ N - MaxSessions > 0 /\ N - MaxSessions > Cardinality(idle)
           => Cardinality(V) = Cardinality(idle)
  BY <1>4, LimitAssumption DEF Victims
<1>6. Cardinality(idle \ V) = Cardinality(idle) - Cardinality(V)
  <2>1. idle \cap V = V
    BY <1>2
  <2> QED
    BY <2>1, <1>4, FS_Difference
<1>7. Cardinality(idle) <= N
  BY <1>2, <1>4, FS_Subset
<1> QED
  BY <1>3, <1>4, <1>5, <1>6, <1>7, LimitAssumption DEF IdleBounded

LEMMA IdleBoundedStep == IInv /\ IdleBounded /\ [Next]_vars => IdleBounded'
<1> SUFFICES ASSUME IInv, IdleBounded, [Next]_vars PROVE IdleBounded'
  OBVIOUS
<1>1. ASSUME NEW t \in Turn, NEW k \in Key, Enter(t, k) PROVE IdleBounded'
  BY <1>1, IdleBoundedEnter
<1>2. ASSUME NEW t \in Turn, Leave(t) PROVE IdleBounded'
  BY <1>2, IdleBoundedLeave DEF IInv
<1>3. ASSUME UNCHANGED <<slot, pins>> PROVE IdleBounded'
  BY <1>3 DEF IdleBounded, Idle, Present
<1>4. ASSUME NEW t \in Turn,
             Finish(t) \/ CancelInside(t) \/ CancelLeaving(t) \/ LeaveInterrupted(t)
      PROVE  IdleBounded'
  BY <1>3, <1>4 DEF Finish, CancelInside, CancelLeaving, LeaveInterrupted
<1>5. ASSUME NEW k \in Key, Delete(k) PROVE IdleBounded'
  <2>1. Idle(slot, pins)' \in SUBSET Idle(slot, pins)
    BY <1>5 DEF Delete, Idle, Present, IInv, TypeOK
  <2> QED
    BY <2>1, IdleShrinks
<1> QED
  BY <1>1, <1>2, <1>3, <1>4, <1>5 DEF Next, TurnStep, vars

(* A session without a leaked pin is idle or has an open turn on its entry. *)
LEMMA NotLeakedCounted ==
    ASSUME IInv, IdleBounded
    PROVE  BoundedButLeaks
<1> USE DEF IInv
<1> DEFINE idle == Idle(slot, pins)
           sound == Present(slot) \ Leaked
           on(k) == {t \in Active : held[t] = slot[k]}
           busy == sound \ idle
<1>1. \A k \in busy : k \in Key /\ slot[k] # None /\ on(k) # {}
  <2> SUFFICES ASSUME NEW k \in busy
               PROVE  k \in Key /\ slot[k] # None /\ on(k) # {}
    OBVIOUS
  <2>1. k \in Key /\ slot[k] # None /\ pins[slot[k]] # 0
    BY DEF Present, Idle
  <2>2. pins[slot[k]] \in Nat
    BY <2>1 DEF TypeOK
  <2>3. ~(pins[slot[k]] > Cardinality(on(k)))
    BY DEF Leaked
  <2>4. CASE on(k) = {}
    BY <2>1, <2>2, <2>3, <2>4, FS_EmptySet
  <2> QED
    BY <2>1, <2>4
<1>2. Cardinality(busy) <= Cardinality(Active)
  <2> DEFINE f == [k \in busy |-> CHOOSE t \in Active : held[t] = slot[k]]
  <2>1. \A k \in busy : f[k] \in Active /\ held[f[k]] = slot[k]
    BY <1>1
  <2>2. \A j, k \in busy : f[j] = f[k] => j = k
    BY <2>1, <1>1 DEF SlotsDistinct
  <2>3. f \in Injection(busy, Active)
    BY <2>1, <2>2 DEF Injection, IsInjective
  <2> QED
    BY <2>3, ActiveFinite, FS_Injection
<1>3. IsFiniteSet(sound) /\ IsFiniteSet(busy)
      /\ Cardinality(sound) \in Nat /\ Cardinality(busy) \in Nat
  BY PresentFinite, FS_Subset, FS_CardinalityType
<1>4. Cardinality(sound \cap idle) <= Cardinality(idle)
  BY IdleFinite, FS_Subset
<1>5. /\ Cardinality(busy) = Cardinality(sound) - Cardinality(sound \cap idle)
      /\ Cardinality(sound \cap idle) \in Nat
  BY <1>3, FS_Difference, FS_Subset, FS_CardinalityType
<1> QED
  BY <1>2, <1>3, <1>4, <1>5, IdleFinite, ActiveFinite, LimitAssumption
     DEF IdleBounded, BoundedButLeaks

(* Only entries with a leaked pin can exceed the limit: the others are at most
   the limit plus one for each open turn, whatever is cancelled or deleted. *)
THEOREM BoundedButLeaksAlways == Spec => []BoundedButLeaks
<1>1. Init => IInv /\ IdleBounded
  BY IInvInit, IdleBoundedInit
<1>2. (IInv /\ IdleBounded) /\ [Next]_vars => (IInv /\ IdleBounded)'
  BY IInvStep, IdleBoundedStep
<1>3. IInv /\ IdleBounded => BoundedButLeaks
  BY NotLeakedCounted
<1> QED
  BY <1>1, <1>2, <1>3, PTL DEF Spec

(* All that a turn relies on while its session is open. *)
THEOREM StoreSafeAlways == Spec => []StoreSafe
<1>1. TypeOK /\ InUseKept /\ PinsCoverUsers /\ SessionExclusive => StoreSafe
  BY DEF StoreSafe
<1> QED
  BY <1>1, TypeCorrect, EvictionSparesUsers, PinsCoverUsersAlways, OneTurnPerSession, PTL
================================================================================
