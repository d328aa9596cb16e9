----------------------------- MODULE Core_proof -----------------------------
(***************************************************************************)
(* Proofs about the parts of Core, for every value of the constants: for   *)
(* each part the lemmas that make its inductive invariant one, and at the  *)
(* end the theorems.                                                       *)
(***************************************************************************)
EXTENDS Core, Facts, FiniteSetTheorems, SequenceTheorems

-----------------------------------------------------------------------------
(* Idempotent agent. *)

(* What save does: the store keeps its type and bound, every entry is the new
   one or an old one, and the key is held afterwards. *)
LEMMA SavedProperties ==
    ASSUME NEW store \in Seq(Stored), Len(store) <= MaxEntries,
           NEW key \in Key, NEW answer \in Answer
    PROVE  /\ Saved(store, key, answer) \in Seq(Stored)
           /\ Len(Saved(store, key, answer)) <= MaxEntries
           /\ \A i \in DOMAIN Saved(store, key, answer) :
                 \/ Saved(store, key, answer)[i] = [key |-> key, answer |-> answer]
                 \/ \E j \in DOMAIN store : Saved(store, key, answer)[i] = store[j]
           /\ Holds(Saved(store, key, answer), key)
<1> DEFINE new == [key |-> key, answer |-> answer]
           grown == Append(store, new)
<1>1. CASE Holds(store, key)
  <2>1. Saved(store, key, answer) = store
    BY <1>1 DEF Saved
  <2> QED
    BY <2>1, <1>1
<1>2. CASE ~Holds(store, key)
  <2>1. new \in Stored
    BY DEF Stored
  <2> HIDE DEF new
  <2>2. /\ grown \in Seq(Stored) /\ Len(grown) = Len(store) + 1
        /\ \A i \in 1 .. Len(store) : grown[i] = store[i]
        /\ grown[Len(store) + 1] = new
    BY <2>1
  <2> HIDE DEF grown
  <2>3. Len(store) \in Nat /\ DOMAIN store = 1 .. Len(store)
    OBVIOUS
  <2>4. Saved(store, key, answer) = IF Len(grown) > MaxEntries THEN Tail(grown) ELSE grown
    BY <1>2 DEF Saved, grown, new
  <2>5. new.key = key
    BY DEF new
  <2>6. CASE Len(grown) > MaxEntries
    <3>1. /\ Tail(grown) \in Seq(Stored) /\ Len(Tail(grown)) = Len(store)
          /\ \A i \in 1 .. Len(store) : Tail(grown)[i] = grown[i + 1]
      BY <2>2, <2>3, HeadTailProperties
    <3>2. Len(store) >= 1
      BY <2>2, <2>3, <2>6, MaxEntriesAssumption
    <3>3. \A i \in 1 .. Len(store) :
              Tail(grown)[i] = new \/ \E j \in 1 .. Len(store) : Tail(grown)[i] = store[j]
      <4> SUFFICES ASSUME NEW i \in 1 .. Len(store)
                   PROVE  Tail(grown)[i] = new
                            \/ \E j \in 1 .. Len(store) : Tail(grown)[i] = store[j]
        OBVIOUS
      <4>1. CASE i = Len(store)
        BY <4>1, <3>1, <2>2
      <4>2. CASE i # Len(store)
        <5>1. \A n \in Nat : i \in 1 .. n /\ i # n => i + 1 \in 1 .. n
          OBVIOUS
        <5>2. i + 1 \in 1 .. Len(store)
          BY <5>1, <4>2, <2>3
        <5> QED
          BY <5>2, <3>1, <2>2
      <4> QED
        BY <4>1, <4>2
    <3>4. Tail(grown)[Len(store)] = new /\ DOMAIN Tail(grown) = 1 .. Len(store)
      BY <3>1, <3>2, <2>2, <2>3
    <3>5. Holds(Tail(grown), key)
      BY <3>2, <3>4, <2>3, <2>5 DEF Holds
    <3>6. Len(Tail(grown)) <= MaxEntries
      BY <3>1
    <3>7. Saved(store, key, answer) = Tail(grown)
      BY <2>4, <2>6
    <3> QED
      BY <3>1, <3>3, <3>4, <3>5, <3>6, <3>7, <2>3 DEF new
  <2>7. CASE ~(Len(grown) > MaxEntries)
    <3>1. DOMAIN grown = 1 .. Len(store) + 1
      BY <2>2, <2>3
    <3>2. \A i \in DOMAIN grown : grown[i] = new \/ \E j \in DOMAIN store : grown[i] = store[j]
      BY <3>1, <2>2, <2>3
    <3>3. Holds(grown, key)
      BY <3>1, <2>2, <2>3, <2>5 DEF Holds
    <3>4. Len(grown) <= MaxEntries
      BY <2>2, <2>3, <2>7, MaxEntriesAssumption
    <3>5. Saved(store, key, answer) = grown
      BY <2>4, <2>7
    <3> QED
      BY <3>2, <3>3, <3>4, <3>5, <2>2 DEF new
  <2> QED
    BY <2>6, <2>7
<1> QED
  BY <1>1, <1>2

(* The author of a stored answer is a request. *)
LEMMA StoredBy ==
    ASSUME TypeOK, NEW i \in DOMAIN entries
    PROVE  /\ entries[i].key \in Key /\ entries[i].answer \in Answer
           /\ entries[i].answer.by \in Request
<1>1. entries[i] \in [key : Key, answer : Answer]
  <2>1. entries \in Seq([key : Key, answer : Answer])
    BY DEF TypeOK
  <2>2. i \in 1 .. Len(entries)
    BY <2>1
  <2>3. \A S, seq, n : seq \in Seq(S) /\ n \in 1 .. Len(seq) => seq[n] \in S
    BY ElementOfSeq
  <2> QED
    BY <2>1, <2>2, <2>3, Zenon
<1>2. entries[i].key \in Key /\ entries[i].answer \in Answer
  BY <1>1
<1> QED
  BY <1>2 DEF Answer

(* At first nothing is stored and no request has arrived. *)
LEMMA IInvInit == Init => IInv
<1> SUFFICES ASSUME Init PROVE IInv
  OBVIOUS
<1>1. TypeOK
  BY MaxEntriesAssumption DEF Init, TypeOK
<1>2. StoreFinal /\ AnsweredHeld /\ RepeatsArrived /\ ReplaysAreFinal /\ NoSecondRun
  BY DEF Init, StoreFinal, AnsweredHeld, RepeatsArrived, ReplaysAreFinal, NoSecondRun, Final
<1> QED
  BY <1>1, <1>2 DEF IInv

(* Replaying: the reply is the stored one, and its author is another request. *)
LEMMA IInvReplay ==
    ASSUME IInv, NEW r \in Request, Replay(r)
    PROVE  IInv'
<1> USE DEF IInv
<1>1. PICK i \in DOMAIN entries :
        /\ entries[i].key = KeyOf[r]
        /\ reply' = [reply EXCEPT ![r] = entries[i].answer]
  BY DEF Replay
<1>2. /\ pc[r] = "idle" /\ pc' = [pc EXCEPT ![r] = "done"]
      /\ entries' = entries /\ evicted' = evicted
  BY DEF Replay, Arrive
<1>3. repeats' \in SUBSET (repeats \cup {r}) /\ repeats' \in SUBSET Request
  BY DEF Replay, Arrive, TypeOK
<1>4. /\ entries[i].answer \in Answer /\ entries[i].key \in Key
      /\ ~entries[i].answer.retryable
      /\ KeyOf[entries[i].answer.by] = KeyOf[r]
      /\ pc[entries[i].answer.by] = "done"
  BY <1>1, StoredBy DEF StoreFinal
<1>5. entries[i].answer.by # r /\ KeyOf[r] # NoKey
  BY <1>1, <1>2, <1>4, NoKeyAssumption
<1>6. TypeOK'
  BY <1>1, <1>2, <1>3, <1>4 DEF TypeOK
<1>7. StoreFinal'
  BY <1>2 DEF StoreFinal, TypeOK
<1>8. \A q \in Request \ {r} : pc'[q] = pc[q] /\ reply'[q] = reply[q]
  BY <1>1, <1>2 DEF TypeOK
<1>9. pc'[r] = "done" /\ reply'[r] = entries[i].answer
  BY <1>1, <1>2 DEF TypeOK
<1>10. Holds(entries, KeyOf[r])
  BY <1>1 DEF Holds
<1>11. AnsweredHeld'
  BY <1>2, <1>8, <1>10 DEF AnsweredHeld, Final, Holds
<1>12. RepeatsArrived'
  BY <1>2, <1>3, <1>8, <1>9 DEF RepeatsArrived, TypeOK
<1>13. ReplaysAreFinal'
  BY <1>4, <1>5, <1>8, <1>9 DEF ReplaysAreFinal
<1>14. NoSecondRun'
  <2>1. \A q \in repeats' \ {r} : q \in repeats /\ q \in Request
    BY <1>3 DEF TypeOK
  <2> QED
    BY <2>1, <1>2, <1>5, <1>8, <1>9 DEF NoSecondRun
<1> QED
  BY <1>6, <1>7, <1>11, <1>12, <1>13, <1>14

(* Running: a repeat that runs has a key the store dropped, or none. *)
LEMMA IInvRun ==
    ASSUME IInv, NEW r \in Request, Run(r)
    PROVE  IInv'
<1> USE DEF IInv
<1>1. /\ pc[r] = "idle" /\ pc' = [pc EXCEPT ![r] = "running"]
      /\ entries' = entries /\ evicted' = evicted /\ reply' = reply
      /\ ~Holds(entries, KeyOf[r])
      /\ repeats' = IF \E q \in Request : Final(q) /\ KeyOf[q] = KeyOf[r]
                    THEN repeats \cup {r} ELSE repeats
  BY DEF Run, Arrive
<1>2. TypeOK'
  BY <1>1 DEF TypeOK
<1>3. \A q \in Request \ {r} : pc'[q] = pc[q]
  BY <1>1 DEF TypeOK
<1>4. pc'[r] = "running"
  BY <1>1 DEF TypeOK
<1>5. StoreFinal'
  <2> SUFFICES ASSUME NEW i \in DOMAIN entries
               PROVE  /\ ~entries[i].answer.retryable
                      /\ KeyOf[entries[i].answer.by] = entries[i].key
                      /\ pc'[entries[i].answer.by] = "done"
    BY <1>1 DEF StoreFinal
  <2>1. entries[i].answer.by \in Request \ {r}
    BY <1>1, StoredBy DEF StoreFinal
  <2> QED
    BY <2>1, <1>3 DEF StoreFinal
<1>6. AnsweredHeld'
  BY <1>1, <1>3, <1>4 DEF AnsweredHeld, Final, Holds
<1>7. RepeatsArrived'
  BY <1>1, <1>3, <1>4 DEF RepeatsArrived, TypeOK
<1>8. ReplaysAreFinal'
  BY <1>1, <1>3, <1>4 DEF ReplaysAreFinal
<1>9. NoSecondRun'
  <2> SUFFICES ASSUME NEW q \in repeats', KeyOf[q] \in Key \ evicted
               PROVE  pc'[q] = "done" /\ reply'[q].by # q
    BY <1>1 DEF NoSecondRun
  <2>1. CASE q = r /\ q \notin repeats
    <3>1. \E p \in Request : Final(p) /\ KeyOf[p] = KeyOf[r]
      BY <2>1, <1>1
    <3> QED
      BY <3>1, <2>1, <1>1 DEF AnsweredHeld
  <2>2. CASE q \in repeats
    <3>1. q # r /\ q \in Request
      BY <2>2, <1>1 DEF RepeatsArrived, TypeOK
    <3> QED
      BY <3>1, <2>2, <1>1, <1>3 DEF NoSecondRun
  <2> QED
    BY <2>1, <2>2, <1>1
<1> QED
  BY <1>2, <1>5, <1>6, <1>7, <1>8, <1>9

(* Returning: a final answer is stored, or its key was answered before; a key
   that leaves the store is recorded as dropped. *)
LEMMA IInvReturn ==
    ASSUME IInv, NEW r \in Request, Return(r)
    PROVE  IInv'
<1> USE DEF IInv
<1>1. PICK retryable \in BOOLEAN :
        /\ reply' = [reply EXCEPT ![r] = [by |-> r, retryable |-> retryable]]
        /\ entries' = IF Kept(KeyOf[r], [by |-> r, retryable |-> retryable])
                      THEN Saved(entries, KeyOf[r], [by |-> r, retryable |-> retryable])
                      ELSE entries
  BY DEF Return
<1> DEFINE answer == [by |-> r, retryable |-> retryable]
<1>2. /\ pc[r] = "running" /\ pc' = [pc EXCEPT ![r] = "done"]
      /\ evicted' = evicted \cup {k \in Key : Holds(entries, k) /\ ~Holds(entries', k)}
      /\ repeats' = repeats
  BY DEF Return
<1>3. /\ answer \in Answer /\ answer.by = r /\ answer.retryable = retryable
      /\ KeyOf[r] # NoKey => KeyOf[r] \in Key
  BY KeyOfAssumption DEF Answer
<1> HIDE DEF answer
<1>4. /\ entries' \in Seq(Stored) /\ Len(entries') <= MaxEntries
      /\ \A i \in DOMAIN entries' :
            \/ entries'[i] = [key |-> KeyOf[r], answer |-> answer] /\ ~retryable
            \/ \E j \in DOMAIN entries : entries'[i] = entries[j]
      /\ ~retryable /\ KeyOf[r] # NoKey => Holds(entries', KeyOf[r])
  <2>1. CASE Kept(KeyOf[r], answer)
    <3>1. KeyOf[r] \in Key /\ ~retryable
      BY <2>1, <1>3 DEF Kept
    <3>2. entries' = Saved(entries, KeyOf[r], answer)
      BY <2>1, <1>1 DEF answer
    <3>3. entries \in Seq(Stored) /\ Len(entries) <= MaxEntries
      BY DEF TypeOK, Stored
    <3> QED
      BY <3>1, <3>2, <3>3, <1>3, SavedProperties
  <2>2. CASE ~Kept(KeyOf[r], answer)
    <3>1. entries' = entries /\ (retryable \/ KeyOf[r] = NoKey)
      BY <2>2, <1>1, <1>3 DEF Kept, answer
    <3> QED
      BY <3>1 DEF TypeOK, Stored
  <2> QED
    BY <2>1, <2>2
<1>5. TypeOK'
  <2>1. entries' \in Seq([key : Key, answer : Answer])
    BY <1>4 DEF Stored
  <2>2. reply' \in [Request -> Answer \cup {NoReply}]
    BY <1>1, <1>3 DEF TypeOK, answer
  <2> QED
    BY <2>1, <2>2, <1>2, <1>4 DEF TypeOK
<1>6. \A q \in Request \ {r} : pc'[q] = pc[q] /\ reply'[q] = reply[q]
  BY <1>1, <1>2 DEF TypeOK
<1>7. pc'[r] = "done" /\ reply'[r] = answer
  BY <1>1, <1>2 DEF TypeOK, answer
<1>8. StoreFinal'
  <2> SUFFICES ASSUME NEW i \in DOMAIN entries'
               PROVE  /\ ~entries'[i].answer.retryable
                      /\ KeyOf[entries'[i].answer.by] = entries'[i].key
                      /\ pc'[entries'[i].answer.by] = "done"
    BY DEF StoreFinal
  <2>1. CASE entries'[i] = [key |-> KeyOf[r], answer |-> answer] /\ ~retryable
    BY <2>1, <1>3, <1>7
  <2>2. CASE \E j \in DOMAIN entries : entries'[i] = entries[j]
    <3>1. PICK j \in DOMAIN entries : entries'[i] = entries[j]
      BY <2>2
    <3>2. entries[j].answer.by \in Request \ {r}
      BY <1>2, StoredBy DEF StoreFinal
    <3> QED
      BY <3>1, <3>2, <1>6 DEF StoreFinal
  <2> QED
    BY <2>1, <2>2, <1>4
<1>9. AnsweredHeld'
  <2> SUFFICES ASSUME NEW q \in Request, Final(q)', KeyOf[q] \in Key \ evicted'
               PROVE  Holds(entries', KeyOf[q])
    BY DEF AnsweredHeld
  <2>1. CASE q = r
    BY <2>1, <1>3, <1>4, <1>7, NoKeyAssumption DEF Final
  <2>2. CASE q # r
    <3>1. Final(q) /\ KeyOf[q] \notin evicted
      BY <2>2, <1>2, <1>6 DEF Final
    <3> QED
      BY <3>1, <1>2 DEF AnsweredHeld
  <2> QED
    BY <2>1, <2>2
<1>10. RepeatsArrived'
  BY <1>2, <1>6, <1>7 DEF RepeatsArrived, TypeOK
<1>11. ReplaysAreFinal'
  BY <1>3, <1>6, <1>7 DEF ReplaysAreFinal
<1>12. NoSecondRun'
  <2> SUFFICES ASSUME NEW q \in repeats, KeyOf[q] \in Key \ evicted'
               PROVE  pc'[q] = "done" /\ reply'[q].by # q
    BY <1>2 DEF NoSecondRun
  <2>1. KeyOf[q] \in Key \ evicted /\ q \in Request
    BY <1>2 DEF TypeOK
  <2>2. pc[q] = "done" /\ reply[q].by # q
    BY <2>1 DEF NoSecondRun
  <2> QED
    BY <2>1, <2>2, <1>2, <1>6
<1> QED
  BY <1>5, <1>8, <1>9, <1>10, <1>11, <1>12

(* A delegate that raises leaves the store as it was. *)
LEMMA IInvFail ==
    ASSUME IInv, NEW r \in Request, Fail(r)
    PROVE  IInv'
<1> USE DEF IInv
<1>1. /\ pc[r] = "running" /\ pc' = [pc EXCEPT ![r] = "failed"]
      /\ UNCHANGED <<entries, reply, evicted, repeats>>
  BY DEF Fail
<1>2. TypeOK'
  BY <1>1 DEF TypeOK
<1>3. \A q \in Request : pc'[q] = "done" <=> pc[q] = "done"
  BY <1>1 DEF TypeOK
<1>4. StoreFinal'
  <2>1. \A i \in DOMAIN entries : entries[i].answer.by \in Request
    BY StoredBy
  <2> QED
    BY <2>1, <1>1, <1>3 DEF StoreFinal
<1>5. AnsweredHeld'
  BY <1>1, <1>3 DEF AnsweredHeld, Final, Holds
<1>6. RepeatsArrived'
  BY <1>1 DEF RepeatsArrived, TypeOK
<1>7. ReplaysAreFinal' /\ NoSecondRun'
  BY <1>1, <1>3 DEF ReplaysAreFinal, NoSecondRun, TypeOK
<1> QED
  BY <1>2, <1>4, <1>5, <1>6, <1>7

(* IInv is inductive. *)
LEMMA IInvStep == IInv /\ [Next]_vars => IInv'
<1> SUFFICES ASSUME IInv, [Next]_vars PROVE IInv'
  OBVIOUS
<1>1. CASE UNCHANGED vars
  BY <1>1 DEF vars, IInv, TypeOK, StoreFinal, AnsweredHeld, RepeatsArrived,
              ReplaysAreFinal, NoSecondRun, Final, Holds
<1>2. CASE Next
  BY <1>2, IInvReplay, IInvRun, IInvReturn, IInvFail DEF Next
<1> QED
  BY <1>1, <1>2

-----------------------------------------------------------------------------
(* Checkpoint saver.  Its variables are s1 = suspends, s2 = doc, s3 = calls, *)
(* s4 = step, s5 = versions, s6 = ran, s7 = acked, s8 = puts, s9 = crashes. *)

(* Of the writes of a task to a channel one is kept. *)
LEMMA OneIsKept ==
    ASSUME NEW t \in Task, NEW i \in DOMAIN Writes[t]
    PROVE  \E j \in DOMAIN Writes[t] : Writes[t][j] = Writes[t][i] /\ Saver!Kept(t, j)
<1> DEFINE S == {j \in DOMAIN Writes[t] : Writes[t][j] = Writes[t][i]}
<1>1. /\ Writes[t] \in Seq(Channel) /\ Len(Writes[t]) \in Nat
      /\ DOMAIN Writes[t] = 1 .. Len(Writes[t])
  BY SaverAssumption
<1>2. S \subseteq 1 .. Len(Writes[t]) /\ S \subseteq Nat /\ S # {}
  BY <1>1
<1>3. PICK x \in S : \A y \in S : x <= y
  <2> HIDE DEF S
  <2> QED
    BY <1>2, LeastNatural
<1>4. PICK z \in S : \A y \in S : y <= z
  <2> HIDE DEF S
  <2> QED
    BY <1>1, <1>2, MaxOfInterval
<1>5. CASE Writes[t][i] \in Special
  BY <1>4, <1>5 DEF Saver!Kept
<1>6. CASE Writes[t][i] \notin Special
  BY <1>3, <1>6 DEF Saver!Kept
<1> QED
  BY <1>5, <1>6

(* What aput_writes saves: the checkpoint stays as it is, every kind of write
   that was there is still there, and so is every one of the task. *)
LEMMA WritesSaved ==
    ASSUME NEW call \in Saver!CallRecord, call.task \in Task, call.id # 0,
           NEW copy \in Saver!Document, Saver!Made(copy),
           NEW d, d = Saver!WithWrites(call, copy)
    PROVE  /\ d \in Saver!Document /\ (copy.id # 0 => Saver!Made(d))
           /\ d.id = copy.id /\ d.versions = copy.versions /\ d.blobs = copy.blobs
           /\ \A w \in copy.writes : \E x \in d.writes :
                 x.id = w.id /\ x.task = w.task /\ x.channel = w.channel
           /\ \A i \in DOMAIN Writes[call.task] : \E x \in d.writes :
                 x.id = call.id /\ x.task = call.task /\ x.channel = Writes[call.task][i]
<1> DEFINE key(x) == <<x.id, x.task, x.channel>>
           ours == {Saver!Write(call, i) :
                     i \in {j \in DOMAIN Writes[call.task] : Saver!Kept(call.task, j)}}
           new == {w \in ours : w.channel \in Special \/ \A x \in copy.writes : key(x) # key(w)}
           kept == {x \in copy.writes : \A y \in new : key(x) # key(y)}
           Written == [id : Saver!Ids, task : Task, channel : Channel, idx : Nat]
<1>1. d = [copy EXCEPT !.writes = kept \cup new]
  BY DEF Saver!WithWrites
<1>2. copy = [id |-> copy.id, versions |-> copy.versions, blobs |-> copy.blobs,
              writes |-> copy.writes]
      /\ copy.writes \subseteq Written
      /\ copy.id \in Saver!Ids /\ copy.versions \in [Channel -> Saver!Ids]
      /\ copy.blobs \in SUBSET (Channel \X Saver!Ids)
  BY DEF Saver!Document
<1>3. ASSUME NEW w \in ours
      PROVE  /\ w \in Written /\ w.id = call.id /\ w.task = call.task
             /\ w.idx \in DOMAIN Writes[call.task] /\ w.channel = Writes[call.task][w.idx]
             /\ Saver!Kept(call.task, w.idx)
  <2>1. PICK i \in DOMAIN Writes[call.task] :
           w = Saver!Write(call, i) /\ Saver!Kept(call.task, i)
    OBVIOUS
  <2>2. /\ Writes[call.task] \in Seq(Channel)
        /\ i \in Nat /\ Writes[call.task][i] \in Channel
    BY SaverAssumption
  <2>3. call.id \in Saver!Ids
    BY DEF Saver!CallRecord
  <2> QED
    BY <2>1, <2>2, <2>3 DEF Saver!Write
<1>4. ASSUME NEW i \in DOMAIN Writes[call.task]
      PROVE  \E w \in ours : w.channel = Writes[call.task][i]
  <2>1. PICK j \in DOMAIN Writes[call.task] :
           Writes[call.task][j] = Writes[call.task][i] /\ Saver!Kept(call.task, j)
    BY OneIsKept
  <2>2. Saver!Write(call, j) \in ours
    BY <2>1
  <2> QED
    BY <2>1, <2>2 DEF Saver!Write
<1> HIDE DEF ours
<1>5. kept \subseteq Written /\ new \subseteq Written
  BY <1>2, <1>3
<1>6. \A w \in copy.writes : \E x \in kept \cup new : key(x) = key(w)
  OBVIOUS
<1>7. \A w \in ours : \E x \in kept \cup new : key(x) = key(w)
  <2> SUFFICES ASSUME NEW w \in ours, w \notin new
               PROVE  \E x \in kept : key(x) = key(w)
    OBVIOUS
  <2>1. w.channel \notin Special /\ \E x \in copy.writes : key(x) = key(w)
    OBVIOUS
  <2>2. PICK x \in copy.writes : key(x) = key(w)
    BY <2>1
  <2>3. ASSUME NEW y \in new, key(x) = key(y) PROVE FALSE
    <3>1. y.channel = w.channel
      BY <2>2, <2>3
    <3> QED
      BY <2>1, <2>3, <3>1
  <2> QED
    BY <2>2, <2>3
<1>8. /\ d.id = copy.id /\ d.versions = copy.versions /\ d.blobs = copy.blobs
      /\ d.writes = kept \cup new
      /\ d = [id |-> copy.id, versions |-> copy.versions, blobs |-> copy.blobs,
              writes |-> kept \cup new]
  BY <1>1, <1>2
<1>9. d \in Saver!Document
  BY <1>2, <1>5, <1>8 DEF Saver!Document
<1>10. ASSUME copy.id # 0 PROVE Saver!Made(d)
  <2>1. \A w \in new :
          /\ w.id # 0 /\ w.idx \in DOMAIN Writes[w.task]
          /\ w.channel = Writes[w.task][w.idx] /\ Saver!Kept(w.task, w.idx)
    BY <1>3
  <2>2. \A w \in kept : w \in copy.writes
    OBVIOUS
  <2> HIDE DEF kept, new
  <2> QED
    BY <1>8, <1>10, <2>1, <2>2 DEF Saver!Made
<1>11. \A i \in DOMAIN Writes[call.task] : \E x \in d.writes :
          x.id = call.id /\ x.task = call.task /\ x.channel = Writes[call.task][i]
  <2> SUFFICES ASSUME NEW i \in DOMAIN Writes[call.task]
               PROVE  \E x \in d.writes :
                  x.id = call.id /\ x.task = call.task /\ x.channel = Writes[call.task][i]
    OBVIOUS
  <2>1. PICK w \in ours : w.channel = Writes[call.task][i]
    BY <1>4
  <2>2. PICK x \in kept \cup new : key(x) = key(w)
    BY <1>7
  <2> QED
    BY <1>3, <1>8, <2>1, <2>2
<1> QED
  BY <1>6, <1>8, <1>9, <1>10, <1>11

(* What a call of the saver saves is a document that an aput has made. *)
LEMMA DocumentSaved ==
    ASSUME Saver!IInv, NEW i \in DOMAIN s3, NEW copy \in Saver!Document, Saver!Made(copy),
           Saver!IsPut(i) => copy.id < s3[i].id,
           NEW d, d = Saver!Saved(s3[i], copy)
    PROVE  /\ d \in Saver!Document /\ Saver!Made(d)
           /\ Saver!IsPut(i) =>
                 /\ d.id = s3[i].id /\ d.versions = s3[i].versions
                 /\ d.blobs = copy.blobs \cup {<<c, s3[i].id>> : c \in s3[i].new}
           /\ ~Saver!IsPut(i) => d = s2 \/ d.id = copy.id
           /\ ~Saver!IsPut(i) /\ copy.id # 0 => d = Saver!WithWrites(s3[i], copy)
<1>1. /\ s3[i] \in Saver!CallRecord /\ s3[i].id \in 1 .. s8 /\ s8 \in Saver!Ids
      /\ s2 \in Saver!Document /\ Saver!Made(s2) /\ MaxPuts[s1] \in Nat /\ Saver!Asked(i)
  BY SaverAssumption DEF Saver!IInv, Saver!Shaped, Saver!Asked
<1>2. CASE Saver!IsPut(i)
  <2>1. d = [id |-> s3[i].id, versions |-> s3[i].versions,
             blobs |-> copy.blobs \cup {<<c, s3[i].id>> : c \in s3[i].new}, writes |-> {}]
    BY <1>2 DEF Saver!Saved, Saver!NextDoc, Saver!IsPut
  <2>2. /\ s3[i].new \subseteq Channel /\ s3[i].versions \in [Channel -> Saver!Ids]
        /\ s3[i].id \in Saver!Ids
    BY <1>1 DEF Saver!CallRecord
  <2>3. copy.blobs \subseteq Channel \X Saver!Ids /\ copy.id \in Saver!Ids
    BY DEF Saver!Document
  <2>4. d.blobs \subseteq Channel \X Saver!Ids
    BY <2>1, <2>2, <2>3
  <2>5. d \in Saver!Document
    BY <2>1, <2>2, <2>4 DEF Saver!Document
  <2>6. \A blob \in d.blobs : blob[2] <= d.id
    <3> SUFFICES ASSUME NEW blob \in d.blobs PROVE blob[2] <= d.id
      OBVIOUS
    <3>1. CASE blob \in copy.blobs
      <4>1. blob[2] <= copy.id /\ blob[2] \in Saver!Ids
        BY <3>1, <2>3 DEF Saver!Made
      <4> QED
        BY <4>1, <1>1, <1>2, <2>1, <2>3 DEF Saver!Ids
    <3>2. CASE blob \notin copy.blobs
      BY <3>2, <1>1, <2>1 DEF Saver!Ids
    <3> QED
      BY <3>1, <3>2
  <2>7. Saver!Made(d)
    <3>1. d.id <= s8 /\ d.id # 0
      BY <1>1, <2>1 DEF Saver!Ids
    <3>2. \A c \in Channel : d.versions[c] <= d.id
             /\ (d.versions[c] = d.id /\ d.id # 0 => <<c, d.id>> \in d.blobs)
      <4>1. /\ d.id = s3[i].id /\ d.versions = s3[i].versions
            /\ \A c \in s3[i].new : <<c, d.id>> \in d.blobs
        BY <2>1
      <4>2. \A c \in Channel : /\ s3[i].versions[c] <= s3[i].id
                               /\ s3[i].versions[c] = s3[i].id => c \in s3[i].new
        BY <1>1, <1>2 DEF Saver!Asked
      <4> QED
        BY <4>1, <4>2
    <3>3. d.writes = {}
      BY <2>1
    <3> QED
      BY <3>1, <3>2, <3>3, <2>6 DEF Saver!Made
  <2> QED
    BY <1>2, <2>1, <2>5, <2>7
<1>3. CASE ~Saver!IsPut(i) /\ copy = Saver!NoDoc
  <2>1. d = s2
    BY <1>3 DEF Saver!Saved, Saver!IsPut
  <2>2. copy.id = 0
    BY <1>3 DEF Saver!NoDoc
  <2> QED
    BY <1>1, <1>3, <2>1, <2>2
<1>4. CASE ~Saver!IsPut(i) /\ copy # Saver!NoDoc
  <2>1. d = Saver!WithWrites(s3[i], copy)
    BY <1>4 DEF Saver!Saved, Saver!IsPut
  <2>2. s3[i].task \in Task /\ s3[i].id # 0 /\ copy.id # 0
    BY <1>1, <1>4 DEF Saver!Asked, Saver!Made
  <2> QED
    BY <1>1, <1>4, <2>1, <2>2, WritesSaved
<1> QED
  BY <1>2, <1>3, <1>4

(* A document stays one that was made. *)
LEMMA MadeForGood ==
    ASSUME NEW d \in Saver!Document, Saver!Made(d), s8 \in Nat, s8' \in Nat, s8 <= s8', s1' = s1,
           MaxPuts[s1] \in Nat
    PROVE  Saver!Made(d)'
<1>1. d.id \in Nat /\ d.id <= s8 /\ d.id <= s8'
  BY DEF Saver!Document, Saver!Ids, Saver!Made
<1> QED
  BY <1>1 DEF Saver!Made, Saver!NoDoc

(* At first there is no document and no call. *)
LEMMA SaverInit == ASSUME Saver!Init PROVE Saver!IInv
<1>1. s1 \in BOOLEAN /\ MaxPuts[s1] \in Nat /\ 0 \in Saver!Ids
  BY SaverAssumption DEF Saver!Init, Saver!Ids
<1>2. s2 \in Saver!Document /\ Saver!Made(s2)
  BY <1>1 DEF Saver!Init, Saver!NoDoc, Saver!Document, Saver!Made
<1>3. Saver!Shaped
  BY <1>1, <1>2 DEF Saver!Init, Saver!Shaped
<1>4. Saver!InMemory
  BY DEF Saver!Init, Saver!InMemory, Saver!ChannelsComplete, Saver!Recorded
<1> QED
  BY <1>2, <1>3, <1>4 DEF Saver!Init, Saver!IInv

(* What the invariant says of the present calls. *)
LEMMA CallFacts ==
    ASSUME Saver!IInv
    PROVE  /\ s1 \in BOOLEAN /\ MaxPuts[s1] \in Nat /\ Saver!Ids = 0 .. MaxPuts[s1]
           /\ s3 \in Seq(Saver!CallRecord) /\ Len(s3) \in Nat /\ DOMAIN s3 = 1 .. Len(s3)
           /\ s2 \in Saver!Document /\ s2.id \in Nat /\ s2.id <= s8
           /\ s4 \in Nat /\ s4 <= s8 /\ s8 \in Nat /\ s8 \in Saver!Ids
           /\ s5 \in [Channel -> Saver!Ids] /\ Saver!NoDoc.id = 0
           /\ \A i \in DOMAIN s3 :
                 /\ s3[i] \in Saver!CallRecord /\ s3[i].id \in Nat
                 /\ s3[i].id > 0 /\ s3[i].id <= s8
                 /\ s3[i].copy \in Saver!Document /\ s3[i].copy.id \in Nat
                 /\ s3[i].copy.id <= s8 /\ Saver!Made(s3[i].copy)
<1>1. /\ s1 \in BOOLEAN /\ MaxPuts[s1] \in Nat /\ Saver!Ids = 0 .. MaxPuts[s1]
      /\ s3 \in Seq(Saver!CallRecord) /\ Len(s3) \in Nat /\ DOMAIN s3 = 1 .. Len(s3)
      /\ s2 \in Saver!Document /\ Saver!Made(s2)
      /\ s4 \in 0 .. s8 /\ s8 \in Saver!Ids
      /\ s5 \in [Channel -> Saver!Ids]
  BY SaverAssumption DEF Saver!IInv, Saver!Shaped, Saver!Ids
<1>2. \A d \in Saver!Document : d.id \in Nat /\ (Saver!Made(d) => d.id <= s8)
  BY <1>1 DEF Saver!Document, Saver!Made
<1>3. ASSUME NEW i \in DOMAIN s3
      PROVE  /\ s3[i] \in Saver!CallRecord /\ s3[i].id \in 1 .. s8
             /\ s3[i].copy \in Saver!Document /\ Saver!Made(s3[i].copy)
  <2>1. s3[i] \in Saver!CallRecord
    BY <1>1
  <2> QED
    BY <2>1 DEF Saver!IInv, Saver!Asked, Saver!CallRecord
<1>4. Saver!NoDoc.id = 0
  BY DEF Saver!NoDoc
<1> QED
  BY <1>1, <1>2, <1>3, <1>4

(* NoDoc is a document that was made. *)
LEMMA NoDocMade ==
    ASSUME s1 \in BOOLEAN, MaxPuts[s1] \in Nat, s8 \in Nat
    PROVE  Saver!NoDoc \in Saver!Document /\ Saver!Made(Saver!NoDoc)
<1>1. 0 \in Saver!Ids
  BY DEF Saver!Ids
<1> QED
  BY <1>1 DEF Saver!NoDoc, Saver!Document, Saver!Made

(* A call that the graph adds to those under way leaves the others as they were. *)
LEMMA CallAdded ==
    ASSUME Saver!IInv, NEW e \in Saver!CallRecord, s3' = Append(s3, e), s1' = s1, s2' = s2,
           s8' \in Nat, s8 <= s8', e.copy = Saver!NoDoc, e.loaded = FALSE, e.id \in 1 .. s8'
    PROVE  /\ s3' \in Seq(Saver!CallRecord) /\ Len(s3') = Len(s3) + 1
           /\ DOMAIN s3' = 1 .. Len(s3) + 1 /\ s3'[Len(s3) + 1] = e
           /\ \A i \in DOMAIN s3 : i \in DOMAIN s3' /\ s3'[i] = s3[i]
           /\ Saver!Made(s2)'
           /\ \A i \in DOMAIN s3 : Saver!Asked(i)' /\ Saver!InOrder(i)'
           /\ \A c \in Channel, v, n \in Nat :
                 n <= Len(s3) /\ Saver!Available(c, v, n) => Saver!Available(c, v, n)'
           /\ \A id, n \in Nat :
                 n <= Len(s3) /\ Saver!Reached(id, n) => Saver!Reached(id, n)'
<1>1. /\ s3' \in Seq(Saver!CallRecord) /\ Len(s3') = Len(s3) + 1
      /\ DOMAIN s3' = 1 .. Len(s3) + 1 /\ s3'[Len(s3) + 1] = e
      /\ \A i \in DOMAIN s3 : i \in DOMAIN s3' /\ s3'[i] = s3[i]
  BY CallFacts
<1>2. Saver!Made(s2)' /\ Saver!Made(Saver!NoDoc)'
  <2>1. Saver!Made(s2)
    BY DEF Saver!IInv
  <2>2. \A d \in Saver!Document : Saver!Made(d) => Saver!Made(d)'
    BY CallFacts, MadeForGood
  <2>3. Saver!Made(Saver!NoDoc) /\ Saver!NoDoc \in Saver!Document
    BY CallFacts, NoDocMade
  <2>4. \A d \in Saver!Document : d = s2 => Saver!Made(d)'
    BY <2>1, <2>2
  <2>5. \A d \in Saver!Document : d = s2' => Saver!Made(d)'
    BY <2>4
  <2>6. s2 \in Saver!Document
    BY CallFacts
  <2>7. \A d : d = s2' /\ Saver!Made(d)' => Saver!Made(s2)'
    BY DEF Saver!Made
  <2> QED
    BY <2>2, <2>3, <2>5, <2>6, <2>7
<1>3. ASSUME NEW i \in DOMAIN s3 PROVE Saver!Asked(i)' /\ Saver!InOrder(i)'
  <2>1. Saver!Asked(i) /\ Saver!InOrder(i)
    BY DEF Saver!IInv
  <2>2. s3'[i] = s3[i]
    BY <1>1
  <2>3. Saver!Made(s3[i].copy)'
    <3>1. \A d \in Saver!Document : Saver!Made(d) => Saver!Made(d)'
      BY CallFacts, MadeForGood
    <3>2. \A d : d = s3'[i].copy /\ Saver!Made(d)' => Saver!Made(s3[i].copy)'
      BY DEF Saver!Made
    <3>3. s3[i].copy \in Saver!Document /\ Saver!Made(s3[i].copy)
      BY CallFacts
    <3>4. \A d : d = s3[i].copy => Saver!Made(d)'
      BY <3>1, <3>3
    <3> QED
      BY <3>2, <3>4, <2>2
  <2>4. Saver!Asked(i)'
    BY <2>1, <2>2, <2>3, CallFacts DEF Saver!Asked, Saver!IsPut
  <2>5. Saver!InOrder(i)'
    <3>1. \A j \in DOMAIN s3' : j \in DOMAIN s3 \/ (j = Len(s3) + 1 /\ s3'[j] = e)
      BY <1>1, CallFacts
    <3>2. e.copy.id = 0 /\ i < Len(s3) + 1 /\ 0 < s3[i].id
      BY CallFacts
    <3> QED
      BY <1>1, <2>1, <2>2, <3>1, <3>2, CallFacts DEF Saver!InOrder, Saver!IsPut
  <2> QED
    BY <2>4, <2>5
<1>4. \A c \in Channel, v, n \in Nat :
         n <= Len(s3) /\ Saver!Available(c, v, n) => Saver!Available(c, v, n)'
  BY <1>1 DEF Saver!Available, Saver!IsPut
<1>5. \A id, n \in Nat :
         n <= Len(s3) /\ Saver!Reached(id, n) => Saver!Reached(id, n)'
  BY <1>1 DEF Saver!Reached, Saver!IsPut
<1> QED
  BY <1>1, <1>2, <1>3, <1>4, <1>5

(* A checkpoint that is handed over joins the calls; the document stays. *)
LEMMA SaverPut ==
    ASSUME Saver!IInv, NEW new \in SUBSET Channel, Saver!Put(new),
           UNCHANGED <<s1, s2, s7, s9>>, s4 # 0 \/ new = Channel
    PROVE  Saver!IInv'
<1> DEFINE e == [kind |-> "put", id |-> s8', new |-> new, versions |-> s5', task |-> "none",
                 loaded |-> FALSE, copy |-> Saver!NoDoc]
<1>1. /\ s8' = s8 + 1 /\ s4' = s8' /\ s6' = {} /\ s3' = Append(s3, e)
      /\ s5' = [c \in Channel |-> IF c \in new THEN s8' ELSE s5[c]]
      /\ s8' \in Saver!Ids /\ Saver!Ids' = Saver!Ids /\ s8' \in Nat /\ s8 < s8'
  BY CallFacts DEF Saver!Put, Saver!Ids
<1>2. /\ s5' \in [Channel -> Saver!Ids]
      /\ \A c \in Channel : s5[c] \in Nat /\ s5[c] <= s8 /\ s5'[c] \in Nat /\ s5'[c] <= s8'
      /\ \A c \in new : s5'[c] = s8'
      /\ \A c \in Channel \ new : s5'[c] = s5[c] /\ s5'[c] # s8'
  <2>1. \A c \in Channel : s5[c] \in Nat /\ s5[c] <= s4 /\ s4 <= s8 /\ s4 \in Nat
    BY CallFacts DEF Saver!IInv, Saver!Shaped
  <2>2. s5' \in [Channel -> Saver!Ids]
    BY <1>1, CallFacts
  <2> QED
    BY <1>1, <2>1, <2>2, CallFacts
<1>3. /\ e \in Saver!CallRecord /\ e.copy = Saver!NoDoc /\ e.loaded = FALSE
      /\ e.id = s8' /\ e.kind = "put" /\ e.new = new /\ e.versions = s5'
  BY <1>1, <1>2, CallFacts, NoDocMade DEF Saver!CallRecord
<1> HIDE DEF e
<1>4. /\ s3' \in Seq(Saver!CallRecord) /\ Len(s3') = Len(s3) + 1
      /\ DOMAIN s3' = 1 .. Len(s3) + 1 /\ s3'[Len(s3) + 1] = e
      /\ \A i \in DOMAIN s3 : i \in DOMAIN s3' /\ s3'[i] = s3[i]
      /\ Saver!Made(s2)'
      /\ \A i \in DOMAIN s3 : Saver!Asked(i)' /\ Saver!InOrder(i)'
      /\ \A c \in Channel, v, n \in Nat :
            n <= Len(s3) /\ Saver!Available(c, v, n) => Saver!Available(c, v, n)'
      /\ \A id, n \in Nat : n <= Len(s3) /\ Saver!Reached(id, n) => Saver!Reached(id, n)'
  <2>1. s8' \in Nat /\ s8 <= s8' /\ e.id \in 1 .. s8'
    BY <1>1, <1>3, CallFacts
  <2> QED
    BY <1>1, <1>3, <2>1, CallAdded
<1>5a. PICK last \in Nat : last = Len(s3) + 1
  BY CallFacts
<1>5. \A i \in DOMAIN s3' : i \in DOMAIN s3 \/ i = last
  BY <1>4, <1>5a, CallFacts
<1>6. Saver!Shaped'
  <2>1. s2' \in Saver!Document' /\ s3' \in Seq(Saver!CallRecord')
    BY <1>1, <1>4, CallFacts DEF Saver!Document, Saver!CallRecord, Saver!Ids
  <2>2. s8' \in 0 .. s8' /\ s8' # 0
    BY <1>1, CallFacts
  <2> QED
    BY <1>1, <1>2, <2>1, <2>2 DEF Saver!Shaped, Saver!IInv
<1>7. Saver!Asked(last)'
  <2>1. /\ s3'[last].copy = Saver!NoDoc /\ s3'[last].id = s8' /\ s3'[last].kind = "put"
        /\ s3'[last].new = new /\ s3'[last].versions = s5' /\ s8' \in 1 .. s8'
    BY <1>1, <1>3, <1>4, <1>5a, CallFacts
  <2>2. Saver!Made(s3[last].copy)'
    BY <1>1, <2>1 DEF Saver!Made, Saver!NoDoc
  <2> QED
    BY <1>2, <2>1, <2>2 DEF Saver!Asked, Saver!IsPut
<1>8. Saver!InOrder(last)'
  <2>1. s2'.id < s8' /\ Saver!NoDoc.id < s8'
    BY <1>1, CallFacts
  <2>2. \A j \in DOMAIN s3 : s3[j].id < s8' /\ s3[j].copy.id < s8'
    BY <1>1, CallFacts
  <2>3. s3'[last].id = s8' /\ s3'[last].copy.id < s8' /\ ~s3'[last].loaded
    BY <1>3, <1>4, <1>5a, <2>1
  <2>4. \A j \in DOMAIN s3' : s3'[j].copy.id < s8' /\ (j < last => s3'[j].id < s8')
    BY <1>4, <1>5, <1>5a, <2>2, <2>3
  <2> QED
    BY <2>1, <2>3, <2>4 DEF Saver!InOrder
<1>9. Saver!InMemory'
  <2> SUFFICES ASSUME ~s1 PROVE Saver!InMemory'
    BY <1>1 DEF Saver!InMemory
  <2>1. Saver!InMemory
    BY DEF Saver!IInv
  <2>0. PICK n \in Nat : n = Len(s3)
    BY CallFacts
  <2>2. \A v : \A c \in Channel : v = s5'[c] => Saver!Available(c, v, last)'
    <3> SUFFICES ASSUME NEW c \in Channel, NEW v, v = s5'[c] PROVE Saver!Available(c, v, last)'
      OBVIOUS
    <3>1. CASE c \in new
      BY <3>1, <1>2, <1>3, <1>4, <1>5a, CallFacts DEF Saver!Available, Saver!IsPut
    <3>2. CASE c \notin new
      <4>1. s4 # 0 /\ v = s5[c] /\ v \in Nat
        BY <3>2, <1>2
      <4>2. Saver!Available(c, v, n)
        BY <2>0, <2>1, <4>1 DEF Saver!InMemory
      <4>3. Saver!Available(c, v, n)'
        BY <4>1, <4>2, <1>4, <2>0
      <4> QED
        BY <4>3, <1>4, <1>5a, <2>0, CallFacts DEF Saver!Available
    <3> QED
      BY <3>1, <3>2
  <2>3. \A v : \A i \in DOMAIN s3', c \in Channel :
           s3'[i].kind = "put" /\ v = s3'[i].versions[c] => Saver!Available(c, v, i)'
    <3> SUFFICES ASSUME NEW i \in DOMAIN s3, NEW c \in Channel, NEW v, s3[i].kind = "put",
                        v = s3[i].versions[c]
                 PROVE  Saver!Available(c, v, i)'
      BY <2>2, <1>3, <1>4, <1>5, <1>5a
    <3>1. v \in Nat /\ i \in Nat /\ i <= Len(s3)
      BY CallFacts DEF Saver!CallRecord
    <3>2. Saver!Available(c, v, i)
      BY <2>1 DEF Saver!InMemory, Saver!IsPut
    <3> QED
      BY <3>1, <3>2, <1>4
  <2>4. \A c \in Channel : Saver!Available(c, s5[c], Len(s3))'
    BY <2>2, <1>4, <1>5a DEF Saver!Available
  <2>5. \A id : \A i \in DOMAIN s3' : id = s3'[i].id => Saver!Reached(id, i)'
    <3>1. ASSUME NEW i \in DOMAIN s3, NEW id, id = s3[i].id PROVE Saver!Reached(id, i)'
      BY <3>1, <2>1, <1>4, CallFacts DEF Saver!InMemory
    <3>2. \A id : id = s8' => Saver!Reached(id, last)'
      BY <1>3, <1>4, <1>5a DEF Saver!Reached, Saver!IsPut
    <3> QED
      BY <3>1, <3>2, <1>3, <1>4, <1>5, <1>5a
  <2>6. Saver!Reached(s4, Len(s3))'
    BY <1>1, <1>3, <1>4, <1>5a DEF Saver!Reached, Saver!IsPut
  <2>7. \A t \in Task, id \in Saver!Ids : <<id, t>> \in s7 => id <= s2.id
    BY <2>1 DEF Saver!InMemory
  <2>8. \A t \in Task : <<s4', t>> \notin s7'
    BY <2>7, <1>1, CallFacts
  <2>9. \A i \in DOMAIN s3' : s3'[i].kind = "put" \/ s3'[i].id # s4'
    BY <1>1, <1>3, <1>4, <1>5, <1>5a, CallFacts
  <2>10. Saver!ChannelsComplete' /\ Saver!Recorded'
    BY <1>1, <2>1 DEF Saver!InMemory, Saver!ChannelsComplete, Saver!Recorded, Saver!NoDoc
  <2>11. \A i \in DOMAIN s3', c \in Channel :
            Saver!IsPut(i)' => Saver!Available(c, s3[i].versions[c], i)'
    BY <2>3 DEF Saver!IsPut
  <2>12. \A i \in DOMAIN s3' : Saver!Reached(s3[i].id, i)'
    BY <2>5
  <2> QED
    BY <1>1, <2>4, <2>6, <2>7, <2>8, <2>9, <2>10, <2>11, <2>12 DEF Saver!InMemory, Saver!IsPut
<1> QED
  BY <1>4, <1>5, <1>6, <1>7, <1>8, <1>9 DEF Saver!IInv

(* So do the writes of a task that ends. *)
LEMMA SaverTaskEnds ==
    ASSUME Saver!IInv, NEW t \in Task, Saver!TaskEnds(t)
    PROVE  Saver!IInv'
<1> DEFINE e == [kind |-> "writes", id |-> s4, new |-> {}, versions |-> s5, task |-> t,
                 loaded |-> FALSE, copy |-> Saver!NoDoc]
<1>1. /\ s4 # 0 /\ t \notin s6 /\ s6' = s6 \cup {t} /\ s3' = Append(s3, e)
      /\ UNCHANGED <<s1, s2, s4, s5, s7, s8, s9>>
      /\ Saver!Ids' = Saver!Ids
  BY DEF Saver!TaskEnds, Saver!Ids
<1>2. /\ e \in Saver!CallRecord /\ e.copy = Saver!NoDoc /\ e.loaded = FALSE
      /\ e.id = s4 /\ e.kind = "writes" /\ e.task = t
  BY <1>1, CallFacts, NoDocMade DEF Saver!CallRecord
<1> HIDE DEF e
<1>3. /\ s3' \in Seq(Saver!CallRecord) /\ Len(s3') = Len(s3) + 1
      /\ DOMAIN s3' = 1 .. Len(s3) + 1 /\ s3'[Len(s3) + 1] = e
      /\ \A i \in DOMAIN s3 : i \in DOMAIN s3' /\ s3'[i] = s3[i]
      /\ Saver!Made(s2)'
      /\ \A i \in DOMAIN s3 : Saver!Asked(i)' /\ Saver!InOrder(i)'
      /\ \A c \in Channel, v, n \in Nat :
            n <= Len(s3) /\ Saver!Available(c, v, n) => Saver!Available(c, v, n)'
      /\ \A id, n \in Nat : n <= Len(s3) /\ Saver!Reached(id, n) => Saver!Reached(id, n)'
  <2>1. s8' \in Nat /\ s8 <= s8' /\ e.id \in 1 .. s8'
    BY <1>1, <1>2, CallFacts
  <2> QED
    BY <1>1, <1>2, <2>1, CallAdded
<1>4a. PICK n \in Nat : n = Len(s3)
  BY CallFacts
<1>4. PICK last \in Nat : last = Len(s3) + 1 /\ n = Len(s3)
  BY <1>4a
<1>5. \A i \in DOMAIN s3' : i \in DOMAIN s3 \/ i = last
  BY <1>3, <1>4, CallFacts
<1>6. Saver!Shaped'
  <2>1. s2' \in Saver!Document' /\ s3' \in Seq(Saver!CallRecord')
    BY <1>1, <1>3, CallFacts DEF Saver!Document, Saver!CallRecord, Saver!Ids
  <2> QED
    BY <1>1, <2>1 DEF Saver!Shaped, Saver!IInv
<1>7. Saver!Asked(last)' /\ Saver!InOrder(last)'
  <2>1. /\ s3'[last].copy = Saver!NoDoc /\ s3'[last].id = s4 /\ s3'[last].kind = "writes"
        /\ s3'[last].task = t /\ s4 \in 1 .. s8'
    BY <1>1, <1>2, <1>3, <1>4, CallFacts
  <2>2. Saver!Made(s3[last].copy)'
    BY <1>1, <2>1, CallFacts DEF Saver!Made, Saver!NoDoc
  <2> QED
    BY <2>1, <2>2 DEF Saver!Asked, Saver!InOrder, Saver!IsPut
<1>8. Saver!InMemory'
  <2> SUFFICES ASSUME ~s1 PROVE Saver!InMemory'
    BY <1>1 DEF Saver!InMemory
  <2>1. Saver!InMemory
    BY DEF Saver!IInv
  <2>2. \A i \in DOMAIN s3', c \in Channel :
           Saver!IsPut(i)' => Saver!Available(c, s3[i].versions[c], i)'
    <3> SUFFICES ASSUME NEW i \in DOMAIN s3, NEW c \in Channel, NEW v, s3[i].kind = "put",
                        v = s3[i].versions[c]
                 PROVE  Saver!Available(c, v, i)'
      BY <1>2, <1>3, <1>4, <1>5 DEF Saver!IsPut
    <3>1. v \in Nat /\ i \in Nat /\ i <= Len(s3)
      BY CallFacts DEF Saver!CallRecord
    <3>2. Saver!Available(c, v, i)
      BY <2>1 DEF Saver!InMemory, Saver!IsPut
    <3> QED
      BY <3>1, <3>2, <1>3
  <2>3. \A c \in Channel : Saver!Available(c, s5[c], Len(s3))'
    <3> SUFFICES ASSUME NEW c \in Channel, NEW v, v = s5[c]
                 PROVE  Saver!Available(c, v, last)'
      BY <1>1, <1>3, <1>4 DEF Saver!Available
    <3>1. v \in Nat
      BY CallFacts
    <3>2. Saver!Available(c, v, n)
      BY <1>1, <1>4, <2>1 DEF Saver!InMemory
    <3>3. Saver!Available(c, v, n)'
      BY <1>3, <1>4, <3>1, <3>2
    <3> QED
      BY <3>3, <1>3, <1>4, CallFacts DEF Saver!Available
  <2>4. \A id : id = s4 => Saver!Reached(id, last)'
    <3> SUFFICES ASSUME NEW id, id = s4 PROVE Saver!Reached(id, last)'
      OBVIOUS
    <3>1. Saver!Reached(id, n) /\ id \in Nat
      BY <1>1, <1>4, <2>1, CallFacts DEF Saver!InMemory
    <3>2. Saver!Reached(id, n)'
      BY <1>3, <1>4, <3>1
    <3> QED
      BY <3>2, <1>3, <1>4, CallFacts DEF Saver!Reached
  <2>5. \A i \in DOMAIN s3' : Saver!Reached(s3[i].id, i)'
    <3>1. ASSUME NEW i \in DOMAIN s3, NEW id, id = s3[i].id PROVE Saver!Reached(id, i)'
      BY <3>1, <2>1, <1>3, CallFacts DEF Saver!InMemory
    <3>2. \A id : \A i \in DOMAIN s3' : id = s3'[i].id => Saver!Reached(id, i)'
      BY <2>4, <3>1, <1>2, <1>3, <1>4, <1>5
    <3> QED
      BY <3>2
  <2>6. Saver!Reached(s4, Len(s3))'
    BY <2>4, <1>1, <1>3, <1>4 DEF Saver!Reached
  <2>7. Saver!ChannelsComplete' /\ Saver!Recorded'
    BY <1>1, <2>1 DEF Saver!InMemory, Saver!ChannelsComplete, Saver!Recorded, Saver!NoDoc
  <2>8. /\ \A u \in Task, id \in Saver!Ids : <<id, u>> \in s7 => id <= s2.id
        /\ \A u \in Task : <<s4, u>> \in s7 => u \in s6
        /\ \A i \in DOMAIN s3 : s3[i].kind # "put" /\ s3[i].id = s4 => s3[i].task \in s6
    BY <1>1, <2>1 DEF Saver!InMemory, Saver!IsPut
  <2>9. \A i \in DOMAIN s3' : ~Saver!IsPut(i)' /\ s3'[i].id = s4' => s3'[i].task \in s6'
    BY <1>1, <1>2, <1>3, <1>4, <1>5, <2>8 DEF Saver!IsPut
  <2> QED
    BY <1>1, <2>2, <2>3, <2>5, <2>6, <2>7, <2>8, <2>9 DEF Saver!InMemory
<1> QED
  BY <1>3, <1>5, <1>6, <1>7, <1>8 DEF Saver!IInv

(* A resumed run goes on where the document stands, its tasks with accepted
   writes done. *)
LEMMA SaverResume ==
    ASSUME Saver!IInv, Saver!Resume
    PROVE  Saver!IInv'
<1>1. /\ s4 = 0 /\ s2 # Saver!NoDoc /\ s4' = s2.id /\ s5' = s2.versions
      /\ s6' = {t \in Task : \E w \in s2.writes : w.id = s2.id /\ w.task = t}
      /\ UNCHANGED <<s1, s2, s3, s7, s8, s9>>
      /\ s3 = <<>> /\ Saver!Made(s2)
  BY DEF Saver!Resume, Saver!IInv, Saver!Shaped
<1>2. /\ s2.id # 0 /\ s2.id \in Nat /\ s2.id <= s8
      /\ s2.versions \in [Channel -> Saver!Ids]
      /\ \A c \in Channel : s2.versions[c] <= s2.id
  BY <1>1, CallFacts DEF Saver!Made, Saver!Document
<1>3. Saver!Shaped'
  <2>1. Saver!Ids' = Saver!Ids /\ s2' \in Saver!Document' /\ s3' \in Seq(Saver!CallRecord')
    BY <1>1, CallFacts DEF Saver!Document, Saver!CallRecord, Saver!Ids
  <2>2. s4' \in 0 .. s8'
    BY <1>1, <1>2, CallFacts
  <2> QED
    BY <1>1, <1>2, <2>1, <2>2 DEF Saver!Shaped, Saver!IInv
<1>4. Saver!Made(s2)'
  BY <1>1 DEF Saver!Made, Saver!NoDoc
<1>5. Saver!InMemory'
  <2> SUFFICES ASSUME ~s1 PROVE Saver!InMemory'
    BY <1>1 DEF Saver!InMemory
  <2>1. Saver!InMemory
    BY DEF Saver!IInv
  <2>2. Saver!ChannelsComplete' /\ Saver!Recorded'
    BY <1>1, <2>1 DEF Saver!InMemory, Saver!ChannelsComplete, Saver!Recorded, Saver!NoDoc
  <2>3. \A c \in Channel : Saver!Available(c, s5[c], Len(s3))'
    BY <1>1, <2>1 DEF Saver!InMemory, Saver!ChannelsComplete, Saver!Available, Saver!NoDoc
  <2>4. Saver!Reached(s4, Len(s3))'
    BY <1>1, <1>2 DEF Saver!Reached
  <2>5. \A t \in Task : <<s4', t>> \in s7' => t \in s6'
    <3> SUFFICES ASSUME NEW t \in Task, <<s2.id, t>> \in s7
                 PROVE  \E w \in s2.writes : w.id = s2.id /\ w.task = t
      BY <1>1
    <3>1. Writes[t] \in Seq(Channel) /\ Writes[t] # <<>>
      BY SaverAssumption
    <3>2. 1 \in DOMAIN Writes[t]
      BY <3>1
    <3> QED
      BY <2>1, <3>2 DEF Saver!InMemory, Saver!Recorded
  <2>6. \A u \in Task, id \in Saver!Ids' : <<id, u>> \in s7' => id <= s2'.id
    BY <1>1, <2>1 DEF Saver!InMemory, Saver!Ids
  <2>7. DOMAIN s3' = {}
    BY <1>1
  <2> QED
    BY <2>2, <2>3, <2>4, <2>5, <2>6, <2>7 DEF Saver!InMemory
<1>6. DOMAIN s3' = {}
  BY <1>1
<1> QED
  BY <1>3, <1>4, <1>5, <1>6 DEF Saver!IInv

(* A crash forgets the run and its calls, not the document. *)
LEMMA SaverCrash ==
    ASSUME Saver!IInv, Saver!Crash
    PROVE  Saver!IInv'
<1>1. /\ s4' = 0 /\ s6' = {} /\ s3' = <<>> /\ s5' = [c \in Channel |-> 0]
      /\ UNCHANGED <<s1, s2, s8, s7>>
  BY DEF Saver!Crash
<1>2. Saver!Shaped'
  <2>1. Saver!Ids' = Saver!Ids /\ s2' \in Saver!Document' /\ s3' \in Seq(Saver!CallRecord')
    BY <1>1, CallFacts DEF Saver!Document, Saver!Ids
  <2>2. s4' \in 0 .. s8' /\ 0 \in Saver!Ids
    BY <1>1, CallFacts
  <2> QED
    BY <1>1, <2>1, <2>2 DEF Saver!Shaped, Saver!IInv
<1>3. Saver!Made(s2)'
  BY <1>1 DEF Saver!Made, Saver!NoDoc, Saver!IInv
<1>4. DOMAIN s3' = {}
  BY <1>1
<1>5. Saver!InMemory'
  <2> SUFFICES ASSUME ~s1 PROVE Saver!InMemory'
    BY <1>1 DEF Saver!InMemory
  <2>1. Saver!InMemory
    BY DEF Saver!IInv
  <2>2. Saver!ChannelsComplete' /\ Saver!Recorded'
    BY <1>1, <2>1 DEF Saver!InMemory, Saver!ChannelsComplete, Saver!Recorded, Saver!NoDoc
  <2>3. \A u \in Task, id \in Saver!Ids' : <<id, u>> \in s7' => id <= s2'.id
    BY <1>1, <2>1 DEF Saver!InMemory, Saver!Ids
  <2> QED
    BY <1>1, <1>4, <2>2, <2>3 DEF Saver!InMemory
<1> QED
  BY <1>2, <1>3, <1>4, <1>5 DEF Saver!IInv

(* Over a store that suspends, a call takes a copy of the document, *)
LEMMA SaverLoads ==
    ASSUME Saver!IInv, NEW i \in DOMAIN s3, Saver!CallLoads(i)
    PROVE  Saver!IInv'
<1>1. /\ s1 /\ Saver!MayLoad(i) /\ UNCHANGED <<s1, s2, s4, s5, s6, s7, s8, s9>>
      /\ s3' = [s3 EXCEPT ![i].loaded = TRUE, ![i].copy = s2]
  BY DEF Saver!CallLoads, Saver!graph
<1>2. /\ DOMAIN s3' = DOMAIN s3 /\ Len(s3') = Len(s3) /\ s3' \in Seq(Saver!CallRecord)
      /\ \A j \in DOMAIN s3 : j # i => s3'[j] = s3[j]
      /\ \A j \in DOMAIN s3 :
            /\ s3'[j].kind = s3[j].kind /\ s3'[j].id = s3[j].id /\ s3'[j].new = s3[j].new
            /\ s3'[j].versions = s3[j].versions /\ s3'[j].task = s3[j].task
      /\ s3'[i].copy = s2
  <2> DEFINE e == [s3[i] EXCEPT !.loaded = TRUE, !.copy = s2]
  <2>1. /\ e \in Saver!CallRecord /\ e.kind = s3[i].kind /\ e.id = s3[i].id
        /\ e.new = s3[i].new /\ e.versions = s3[i].versions /\ e.task = s3[i].task
        /\ e.copy = s2
    BY CallFacts DEF Saver!CallRecord
  <2>2. s3' = [s3 EXCEPT ![i] = e]
    BY <1>1
  <2> HIDE DEF e
  <2>3. /\ DOMAIN s3' = DOMAIN s3 /\ s3'[i] = e /\ \A j \in DOMAIN s3 : j # i => s3'[j] = s3[j]
        /\ s3' \in Seq(Saver!CallRecord) /\ Len(s3') = Len(s3)
    BY <2>1, <2>2, CallFacts
  <2> QED
    BY <2>1, <2>3
<1>3. Saver!Shaped'
  <2>1. Saver!Ids' = Saver!Ids /\ s2' \in Saver!Document' /\ s3' \in Seq(Saver!CallRecord')
    BY <1>1, <1>2, CallFacts DEF Saver!Document, Saver!CallRecord, Saver!Ids
  <2>2. s4 # 0
    BY CallFacts DEF Saver!IInv, Saver!Shaped
  <2> QED
    BY <1>1, <2>1, <2>2 DEF Saver!Shaped, Saver!IInv
<1>4. Saver!Made(s2) /\ Saver!Made(s2)'
  BY <1>1 DEF Saver!Made, Saver!NoDoc, Saver!IInv
<1>5. ASSUME NEW j \in DOMAIN s3' PROVE Saver!Asked(j)' /\ Saver!InOrder(j)'
  <2>1. Saver!Asked(j) /\ Saver!InOrder(j) /\ j \in DOMAIN s3
    BY <1>2 DEF Saver!IInv
  <2>2. Saver!Made(s3[j].copy)'
    <3>1. s3'[j].copy = s3[j].copy \/ s3'[j].copy = s2
      BY <1>2, <2>1
    <3> QED
      BY <1>1, <1>4, <2>1, <3>1 DEF Saver!Made, Saver!NoDoc, Saver!Asked
  <2>3. Saver!Asked(j)'
    BY <1>1, <1>2, <2>1, <2>2 DEF Saver!Asked, Saver!IsPut
  <2>4. ASSUME s3[j].kind = "put" PROVE Saver!InOrder(j)'
    <3>1. \A k \in DOMAIN s3' : s3'[k].copy.id < s3[j].id
      BY <1>2, <2>1, <2>4 DEF Saver!InOrder, Saver!IsPut
    <3>2. ASSUME NEW k \in DOMAIN s3', k < j, s3[k].kind = "put"
          PROVE  s3[k].id < s3[j].id /\ ~s3'[j].loaded
      <4>1. k \in DOMAIN s3 /\ j \in DOMAIN s3 /\ j # i
        BY <1>1, <1>2, <2>1, <2>4, <3>2, CallFacts DEF Saver!MayLoad
      <4>2. s3'[j] = s3[j]
        BY <1>2, <4>1
      <4> QED
        BY <2>1, <2>4, <3>2, <4>1, <4>2 DEF Saver!InOrder, Saver!IsPut
    <3> QED
      BY <1>1, <1>2, <2>1, <2>4, <3>1, <3>2 DEF Saver!InOrder, Saver!IsPut
  <2>5. s3[j].kind # "put" => Saver!InOrder(j)'
    BY <1>2, <2>1 DEF Saver!InOrder, Saver!IsPut
  <2> QED
    BY <2>3, <2>4, <2>5
<1>6. Saver!InMemory'
  BY <1>1 DEF Saver!InMemory
<1> QED
  BY <1>3, <1>4, <1>5, <1>6 DEF Saver!IInv

(* A call that is over leaves the others in their order. *)
LEMMA CallDropped ==
    ASSUME Saver!IInv, NEW i \in DOMAIN s3, s3' = Saver!Drop(i)
    PROVE  /\ s3' \in Seq(Saver!CallRecord) /\ Len(s3') = Len(s3) - 1
           /\ DOMAIN s3' = 1 .. Len(s3) - 1
           /\ \A k \in DOMAIN s3' : k < i => k \in DOMAIN s3 /\ s3'[k] = s3[k]
           /\ \A k \in DOMAIN s3' : k >= i => k + 1 \in DOMAIN s3 /\ s3'[k] = s3[k + 1]
<1>1. /\ s3 \in Seq(Saver!CallRecord) /\ i \in 1 .. Len(s3) /\ Len(s3) \in Nat
  BY CallFacts
<1> DEFINE a == SubSeq(s3, 1, i - 1)
           b == SubSeq(s3, i + 1, Len(s3))
<1>2. /\ a \in Seq(Saver!CallRecord) /\ Len(a) = i - 1
      /\ \A k \in 1 .. i - 1 : a[k] = s3[k]
  BY <1>1
<1>3. /\ b \in Seq(Saver!CallRecord) /\ Len(b) = Len(s3) - i
      /\ \A k \in 1 .. Len(s3) - i : b[k] = s3[i + k]
  BY <1>1
<1>4. s3' = a \o b
  BY DEF Saver!Drop
<1> HIDE DEF a, b
<1>5. /\ s3' \in Seq(Saver!CallRecord) /\ Len(s3') = Len(a) + Len(b)
      /\ \A k \in 1 .. Len(a) : s3'[k] = a[k]
      /\ \A k \in 1 .. Len(b) : s3'[Len(a) + k] = b[k]
  <2>1. \A S : a \in Seq(S) /\ b \in Seq(S) =>
           /\ a \o b \in Seq(S) /\ Len(a \o b) = Len(a) + Len(b)
           /\ \A k \in 1 .. Len(a) : (a \o b)[k] = a[k]
           /\ \A k \in 1 .. Len(b) : (a \o b)[Len(a) + k] = b[k]
    OBVIOUS
  <2> QED
    BY <1>2, <1>3, <1>4, <2>1
<1>6. Len(s3') = Len(s3) - 1 /\ DOMAIN s3' = 1 .. Len(s3) - 1
  BY <1>1, <1>2, <1>3, <1>5
<1>7. ASSUME NEW k \in DOMAIN s3', k >= i PROVE k + 1 \in DOMAIN s3 /\ s3'[k] = s3[k + 1]
  <2>1. k - (i - 1) \in 1 .. Len(s3) - i
    BY <1>1, <1>6, <1>7
  <2>2. s3'[(i - 1) + (k - (i - 1))] = b[k - (i - 1)]
    BY <1>2, <1>3, <1>5, <2>1
  <2>3. b[k - (i - 1)] = s3[i + (k - (i - 1))]
    BY <1>3, <2>1
  <2>4. (i - 1) + (k - (i - 1)) = k /\ i + (k - (i - 1)) = k + 1
    BY <1>1, <1>6
  <2>5. k + 1 \in DOMAIN s3
    BY <1>1, <1>6, CallFacts
  <2> QED
    BY <2>2, <2>3, <2>4, <2>5
<1>8. ASSUME NEW k \in DOMAIN s3', k < i PROVE k \in DOMAIN s3 /\ s3'[k] = s3[k]
  <2>1. k \in 1 .. i - 1 /\ k \in 1 .. Len(a) /\ k \in DOMAIN s3
    BY <1>1, <1>2, <1>6, <1>8, CallFacts
  <2> QED
    BY <1>2, <1>5, <2>1
<1> QED
  BY <1>5, <1>6, <1>7, <1>8

(* When a call has saved what it made of the document that it knew, the documents
   are still in order. *)
LEMMA CallOver ==
    ASSUME Saver!IInv, NEW i \in DOMAIN s3, NEW copy \in Saver!Document, Saver!Made(copy),
           \A j \in DOMAIN s3 : Saver!IsPut(j) => copy.id < s3[j].id,
           Saver!IsPut(i) => \A j \in DOMAIN s3 : j < i => ~Saver!IsPut(j),
           s2' = Saver!Saved(s3[i], copy), s7' = Saver!Acked(s3[i]),
           UNCHANGED <<s1, s4, s5, s6, s8>>,
           s3' \in Seq(Saver!CallRecord), Len(s3') = Len(s3) - 1,
           DOMAIN s3' = 1 .. Len(s3) - 1,
           \A k \in DOMAIN s3' : k < i => k \in DOMAIN s3 /\ s3'[k] = s3[k],
           \A k \in DOMAIN s3' : k >= i => k + 1 \in DOMAIN s3 /\ s3'[k] = s3[k + 1]
    PROVE  /\ Saver!Shaped' /\ Saver!Made(s2)'
           /\ \A k \in DOMAIN s3' : Saver!Asked(k)' /\ Saver!InOrder(k)'
<1> DEFINE Old(k) == IF k < i THEN k ELSE k + 1
<1>1. /\ s2' \in Saver!Document /\ Saver!Made(s2')
      /\ Saver!IsPut(i) => s2'.id = s3[i].id
      /\ ~Saver!IsPut(i) => s2' = s2 \/ s2'.id = copy.id
  <2>1. \A d : d = Saver!Saved(s3[i], copy) =>
          /\ d \in Saver!Document /\ Saver!Made(d)
          /\ Saver!IsPut(i) => d.id = s3[i].id
          /\ ~Saver!IsPut(i) => d = s2 \/ d.id = copy.id
    BY DocumentSaved
  <2> QED
    BY <2>1
<1>2. Saver!Made(s2)'
  BY <1>1 DEF Saver!Made, Saver!NoDoc
<1>3. i \in Nat /\ \A k \in DOMAIN s3' : k \in Nat
  BY CallFacts
<1>4. \A k \in DOMAIN s3' : Old(k) \in DOMAIN s3 /\ Old(k) # i /\ s3'[k] = s3[Old(k)]
  BY <1>3
<1>5. \A j, k \in DOMAIN s3' : j < k => Old(j) < Old(k)
  BY <1>3
<1> HIDE DEF Old
<1>6. Saver!Shaped'
  <2>1. Saver!Ids' = Saver!Ids
    BY DEF Saver!Ids
  <2>2. s2' \in Saver!Document' /\ s3' \in Seq(Saver!CallRecord')
    BY <1>1, <2>1 DEF Saver!Document, Saver!CallRecord
  <2>3. s7' \subseteq Saver!Ids \X Task
    <3>1. s3[i].kind = "writes" => s3[i].task \in Task /\ s3[i].id \in Saver!Ids
      BY CallFacts DEF Saver!IInv, Saver!Asked, Saver!IsPut, Saver!CallRecord
    <3> QED
      BY <3>1 DEF Saver!Acked, Saver!IInv, Saver!Shaped
  <2>4. s4 # 0
    BY CallFacts DEF Saver!IInv, Saver!Shaped
  <2> QED
    BY <2>1, <2>2, <2>3, <2>4 DEF Saver!IInv, Saver!Shaped
<1>7. ASSUME NEW k \in DOMAIN s3' PROVE Saver!Asked(k)' /\ Saver!InOrder(k)'
  <2>1. Saver!Asked(Old(k)) /\ Saver!InOrder(Old(k)) /\ s3'[k] = s3[Old(k)]
    BY <1>4 DEF Saver!IInv
  <2>2. Saver!Asked(k)'
    BY <2>1 DEF Saver!Asked, Saver!IsPut, Saver!Made, Saver!NoDoc
  <2>3. ASSUME s3'[k].kind = "put" PROVE Saver!InOrder(k)'
    <3>1. s2'.id < s3'[k].id
      <4>1. CASE Saver!IsPut(i)
        <5>1. Old(k) > i
          BY <1>3, <1>4, <2>1, <2>3, <4>1, CallFacts DEF Saver!IsPut
        <5> QED
          BY <1>1, <2>1, <2>3, <4>1, <5>1 DEF Saver!InOrder, Saver!IsPut
      <4>2. CASE ~Saver!IsPut(i)
        BY <1>1, <1>4, <2>1, <2>3, <4>2 DEF Saver!InOrder, Saver!IsPut
      <4> QED
        BY <4>1, <4>2
    <3>2. \A j \in DOMAIN s3' : s3'[j].copy.id < s3'[k].id
      BY <1>4, <2>1, <2>3 DEF Saver!InOrder, Saver!IsPut
    <3>3. \A j \in DOMAIN s3' : j < k /\ s3'[j].kind = "put" =>
             s3'[j].id < s3'[k].id /\ ~s3'[k].loaded
      BY <1>4, <1>5, <2>1, <2>3 DEF Saver!InOrder, Saver!IsPut
    <3> QED
      BY <3>1, <3>2, <3>3 DEF Saver!InOrder, Saver!IsPut
  <2>4. s3'[k].kind # "put" => Saver!InOrder(k)'
    BY DEF Saver!InOrder, Saver!IsPut
  <2> QED
    BY <2>2, <2>3, <2>4
<1> QED
  BY <1>2, <1>6, <1>7

(* and saves that copy with its own part, whatever was saved in between. *)
LEMMA SaverSaves ==
    ASSUME Saver!IInv, NEW i \in DOMAIN s3, Saver!CallSaves(i)
    PROVE  Saver!IInv'
<1>1. /\ s1 /\ s3[i].loaded /\ UNCHANGED <<s1, s4, s5, s6, s8>>
      /\ s2' = Saver!Saved(s3[i], s3[i].copy) /\ s7' = Saver!Acked(s3[i])
      /\ s3' = Saver!Drop(i)
  BY DEF Saver!CallSaves, Saver!graph
<1>2. /\ s3[i].copy \in Saver!Document /\ Saver!Made(s3[i].copy)
      /\ \A j \in DOMAIN s3 : Saver!IsPut(j) => s3[i].copy.id < s3[j].id
      /\ Saver!IsPut(i) => \A j \in DOMAIN s3 : j < i => ~Saver!IsPut(j)
  BY <1>1, CallFacts DEF Saver!IInv, Saver!InOrder
<1>3. /\ Saver!Shaped' /\ Saver!Made(s2)'
      /\ \A k \in DOMAIN s3' : Saver!Asked(k)' /\ Saver!InOrder(k)'
  BY <1>1, <1>2, CallDropped, CallOver
<1>4. Saver!InMemory'
  BY <1>1 DEF Saver!InMemory
<1> QED
  BY <1>3, <1>4 DEF Saver!IInv

(* Over a store that does not suspend, a call reads and saves at once. *)
LEMMA SaverRuns ==
    ASSUME Saver!IInv, Saver!CallRuns
    PROVE  Saver!IInv'
<1>1. /\ ~s1 /\ s3 # <<>> /\ UNCHANGED <<s1, s4, s5, s6, s8>>
      /\ s2' = Saver!Saved(s3[1], s2) /\ s7' = Saver!Acked(s3[1]) /\ s3' = Tail(s3)
      /\ 1 \in DOMAIN s3
  BY CallFacts DEF Saver!CallRuns, Saver!graph
<1>2. /\ s3' \in Seq(Saver!CallRecord) /\ Len(s3') = Len(s3) - 1
      /\ DOMAIN s3' = 1 .. Len(s3) - 1
      /\ \A k \in DOMAIN s3' : k \in Nat /\ k >= 1 /\ k + 1 \in DOMAIN s3 /\ s3'[k] = s3[k + 1]
  BY <1>1, CallFacts
<1>3. /\ s2 \in Saver!Document /\ Saver!Made(s2)
      /\ \A j \in DOMAIN s3 : Saver!IsPut(j) => s2.id < s3[j].id
      /\ Saver!IsPut(1) => \A j \in DOMAIN s3 : j < 1 => ~Saver!IsPut(j)
  BY <1>1, CallFacts DEF Saver!IInv, Saver!InOrder
<1>4. /\ Saver!Shaped' /\ Saver!Made(s2)'
      /\ \A k \in DOMAIN s3' : Saver!Asked(k)' /\ Saver!InOrder(k)'
  <2>1. \A k \in DOMAIN s3' : k < 1 => k \in DOMAIN s3 /\ s3'[k] = s3[k]
    BY <1>2
  <2> QED
    BY <1>1, <1>2, <1>3, <2>1, CallOver
<1>5. Saver!InMemory /\ Saver!Asked(1) /\ Saver!InOrder(1)
  BY <1>1 DEF Saver!IInv
<1>6. /\ Saver!IsPut(1) => /\ s2'.id = s3[1].id /\ s2'.versions = s3[1].versions
                           /\ s2'.blobs = s2.blobs \cup {<<c, s3[1].id>> : c \in s3[1].new}
      /\ ~Saver!IsPut(1) => s2' = Saver!WithWrites(s3[1], s2)
      /\ ~Saver!IsPut(1) => s3[1].id <= s2.id /\ s2.id # 0 /\ s3[1].task \in Task
  <2>1. \A d : d = Saver!Saved(s3[1], s2) =>
          /\ Saver!IsPut(1) => /\ d.id = s3[1].id /\ d.versions = s3[1].versions
                               /\ d.blobs = s2.blobs \cup {<<c, s3[1].id>> : c \in s3[1].new}
          /\ ~Saver!IsPut(1) /\ s2.id # 0 => d = Saver!WithWrites(s3[1], s2)
    BY <1>1, <1>3, DocumentSaved
  <2>2. ~Saver!IsPut(1) => s3[1].id <= s2.id /\ s2.id # 0
    <3>1. Saver!Reached(s3[1].id, 1)
      BY <1>1, <1>5 DEF Saver!InMemory
    <3> QED
      BY <1>1, <3>1, CallFacts DEF Saver!Reached
  <2> QED
    BY <1>1, <1>5, <2>1, <2>2 DEF Saver!Asked
<1>7. ~Saver!IsPut(1) =>
        /\ s2'.id = s2.id /\ s2'.versions = s2.versions /\ s2'.blobs = s2.blobs
        /\ \A w \in s2.writes : \E x \in s2'.writes :
              x.id = w.id /\ x.task = w.task /\ x.channel = w.channel
        /\ \A k \in DOMAIN Writes[s3[1].task] : \E x \in s2'.writes :
              x.id = s3[1].id /\ x.task = s3[1].task /\ x.channel = Writes[s3[1].task][k]
  <2>1. s3[1] \in Saver!CallRecord /\ s3[1].id # 0
    BY <1>1, CallFacts
  <2> QED
    BY <1>3, <1>6, <2>1, WritesSaved
<1>8. /\ s2'.id \in Nat /\ s2.id <= s2'.id /\ s2.blobs \subseteq s2'.blobs
      /\ Saver!IsPut(1) => s2.id < s2'.id
  BY <1>1, <1>3, <1>6, <1>7, CallFacts
<1>9. ASSUME NEW c \in Channel, NEW v, NEW n \in Nat, Saver!Available(c, v, n + 1)
      PROVE  Saver!Available(c, v, n)'
  <2>1. CASE <<c, v>> \in s2.blobs
    BY <1>8, <2>1 DEF Saver!Available
  <2>2. CASE <<c, v>> \notin s2.blobs
    <3>1. PICK j \in DOMAIN s3 : j <= n + 1 /\ s3[j].kind = "put" /\ c \in s3[j].new /\ s3[j].id = v
      BY <1>9, <2>2 DEF Saver!Available, Saver!IsPut
    <3>2. CASE j = 1
      BY <1>6, <3>1, <3>2 DEF Saver!Available, Saver!IsPut
    <3>3. CASE j # 1
      <4>1. j - 1 \in DOMAIN s3' /\ s3'[j - 1] = s3[j] /\ j - 1 <= n
        BY <1>2, <3>1, <3>3, CallFacts
      <4> QED
        BY <3>1, <4>1 DEF Saver!Available, Saver!IsPut
    <3> QED
      BY <3>2, <3>3
  <2> QED
    BY <2>1, <2>2
<1>10. ASSUME NEW id \in Nat, NEW n \in Nat, Saver!Reached(id, n + 1)
       PROVE  Saver!Reached(id, n)'
  <2>1. CASE id <= s2.id
    BY <1>8, <2>1, CallFacts DEF Saver!Reached
  <2>2. CASE ~(id <= s2.id)
    <3>1. PICK j \in DOMAIN s3 : j <= n + 1 /\ s3[j].kind = "put" /\ s3[j].id = id
      BY <1>10, <2>2 DEF Saver!Reached, Saver!IsPut
    <3>2. CASE j = 1
      BY <1>6, <1>8, <3>1, <3>2 DEF Saver!Reached, Saver!IsPut
    <3>3. CASE j # 1
      <4>1. j - 1 \in DOMAIN s3' /\ s3'[j - 1] = s3[j] /\ j - 1 <= n
        BY SMTT(30), <1>2, <3>1, <3>3, CallFacts
      <4> QED
        BY <3>1, <4>1 DEF Saver!Reached, Saver!IsPut
    <3> QED
      BY <3>2, <3>3
  <2> QED
    BY <2>1, <2>2
<1>11. Saver!ChannelsComplete'
  <2>1. CASE Saver!IsPut(1)
    <3>1. \A c \in Channel : Saver!Available(c, s3[1].versions[c], 1)
      BY <1>1, <1>5, <2>1 DEF Saver!InMemory
    <3>2. \A c \in Channel : \/ <<c, s3[1].versions[c]>> \in s2.blobs
                             \/ c \in s3[1].new /\ s3[1].id = s3[1].versions[c]
      <4>1. \A j \in DOMAIN s3 : j <= 1 => j = 1
        BY CallFacts
      <4> QED
        BY <3>1, <4>1 DEF Saver!Available
    <3>3. s2'.versions = s3[1].versions /\ s2'.blobs = s2.blobs \cup {<<c, s3[1].id>> : c \in s3[1].new}
      BY <1>6, <2>1
    <3>4. \A c \in Channel : <<c, s2'.versions[c]>> \in s2'.blobs
      BY <3>2, <3>3
    <3> QED
      BY <3>4 DEF Saver!ChannelsComplete
  <2>2. CASE ~Saver!IsPut(1)
    <3>1. s2 # Saver!NoDoc
      BY <1>6, <2>2, CallFacts
    <3>2. \A c \in Channel : <<c, s2'.versions[c]>> \in s2'.blobs
      BY <1>1, <1>5, <1>7, <2>2, <3>1 DEF Saver!InMemory, Saver!ChannelsComplete
    <3> QED
      BY <3>2 DEF Saver!ChannelsComplete
  <2> QED
    BY <2>1, <2>2
<1>12. \A k \in DOMAIN s3', c \in Channel :
          Saver!IsPut(k)' => Saver!Available(c, s3[k].versions[c], k)'
  <2> SUFFICES ASSUME NEW k \in DOMAIN s3', NEW c \in Channel, s3'[k].kind = "put", NEW v,
                      v = s3'[k].versions[c]
               PROVE  Saver!Available(c, v, k)'
    BY DEF Saver!IsPut
  <2>1. Saver!Available(c, v, k + 1)
    BY <1>1, <1>2, <1>5 DEF Saver!InMemory, Saver!IsPut
  <2> QED
    BY <1>2, <1>9, <2>1
<1>13. PICK n \in Nat : n + 1 = Len(s3) /\ n = Len(s3')
  <2>1. Len(s3) - 1 \in Nat /\ Len(s3) - 1 + 1 = Len(s3)
    BY <1>1, CallFacts
  <2> QED
    BY <1>2, <2>1
<1>14. \A c \in Channel : s4 # 0 => Saver!Available(c, s5[c], Len(s3))'
  <2> SUFFICES ASSUME NEW c \in Channel, s4 # 0, NEW v, v = s5[c] PROVE Saver!Available(c, v, n)'
    BY <1>1, <1>13
  <2>1. Saver!Available(c, v, n + 1)
    BY <1>1, <1>5, <1>13 DEF Saver!InMemory
  <2> QED
    BY <1>9, <2>1
<1>15. \A k \in DOMAIN s3' : Saver!Reached(s3[k].id, k)'
  <2> SUFFICES ASSUME NEW k \in DOMAIN s3', NEW id, id = s3'[k].id PROVE Saver!Reached(id, k)'
    OBVIOUS
  <2>1. Saver!Reached(id, k + 1) /\ id \in Nat
    BY <1>1, <1>2, <1>5, CallFacts DEF Saver!InMemory
  <2> QED
    BY <1>2, <1>10, <2>1
<1>16. s4 # 0 => Saver!Reached(s4, Len(s3))'
  <2> SUFFICES ASSUME s4 # 0, NEW id, id = s4 PROVE Saver!Reached(id, n)'
    BY <1>1, <1>13
  <2>1. Saver!Reached(id, n + 1) /\ id \in Nat
    BY <1>1, <1>5, <1>13, CallFacts DEF Saver!InMemory
  <2> QED
    BY <1>10, <2>1
<1>17. /\ Saver!IsPut(1) => s7' = s7
       /\ ~Saver!IsPut(1) => s7' = s7 \cup {<<s3[1].id, s3[1].task>>}
  <2>1. s3[1].kind \in {"put", "writes"}
    BY <1>1, CallFacts DEF Saver!CallRecord
  <2> QED
    BY <1>1, <2>1 DEF Saver!Acked, Saver!IsPut
<1>18. \A t \in Task, id \in Saver!Ids' : <<id, t>> \in s7' => id <= s2'.id
  <2>1. \A t \in Task, id \in Saver!Ids : <<id, t>> \in s7 => id <= s2.id
    BY <1>1, <1>5 DEF Saver!InMemory
  <2>2. Saver!Ids' = Saver!Ids
    BY <1>1 DEF Saver!Ids
  <2>3. \A t \in Task, id \in Saver!Ids : <<id, t>> \in s7' => id <= s2.id
    BY <1>6, <1>17, <2>1
  <2> QED
    BY <1>8, <2>2, <2>3, CallFacts
<1>19. Saver!Recorded'
  <2>1. CASE Saver!IsPut(1)
    <3>1. \A t \in Task, id \in Saver!Ids : <<id, t>> \in s7 => id <= s2.id
      BY <1>1, <1>5 DEF Saver!InMemory
    <3>2. s2'.id \in Saver!Ids /\ s2.id < s2'.id
      BY <1>1, <1>6, <1>8, <2>1, CallFacts
    <3>3. \A t \in Task : <<s2'.id, t>> \notin s7'
      BY <1>17, <2>1, <3>1, <3>2, CallFacts
    <3> QED
      BY <3>3 DEF Saver!Recorded
  <2>2. CASE ~Saver!IsPut(1)
    <3> SUFFICES ASSUME NEW t \in Task, <<s2.id, t>> \in s7', NEW k \in DOMAIN Writes[t]
                 PROVE  \E w \in s2'.writes :
                           w.id = s2.id /\ w.task = t /\ w.channel = Writes[t][k]
      BY <1>7, <2>2 DEF Saver!Recorded
    <3>1. CASE <<s2.id, t>> \in s7
      <4>1. PICK w \in s2.writes : w.id = s2.id /\ w.task = t /\ w.channel = Writes[t][k]
        BY <1>1, <1>5, <3>1 DEF Saver!InMemory, Saver!Recorded
      <4> QED
        BY <1>7, <2>2, <4>1
    <3>2. CASE <<s2.id, t>> \notin s7
      <4>1. s3[1].id = s2.id /\ s3[1].task = t
        BY <1>17, <2>2, <3>2
      <4> QED
        BY <1>7, <2>2, <4>1
    <3> QED
      BY <3>1, <3>2
  <2> QED
    BY <2>1, <2>2
<1>20. s4 # 0 => \A t \in Task : <<s4, t>> \in s7' => t \in s6
  BY <1>1, <1>5, <1>17 DEF Saver!InMemory
<1>21. s4 # 0 => \A k \in DOMAIN s3' : ~Saver!IsPut(k)' /\ s3'[k].id = s4 => s3'[k].task \in s6
  BY <1>1, <1>2, <1>5 DEF Saver!InMemory, Saver!IsPut
<1>22. Saver!InMemory'
  BY <1>1, <1>11, <1>12, <1>14, <1>15, <1>16, <1>18, <1>19, <1>20, <1>21 DEF Saver!InMemory
<1> QED
  BY <1>4, <1>22 DEF Saver!IInv

(* Saver!IInv is inductive. *)
LEMMA SaverStep ==
    ASSUME Saver!IInv, [Saver!Next]_(Saver!vars)
    PROVE  Saver!IInv'
<1>1. CASE Saver!Start
  <2>1. s4 = 0 /\ Saver!Put(Channel) /\ UNCHANGED <<s1, s2, s7, s9>>
    BY <1>1 DEF Saver!Start
  <2>2. Channel \in SUBSET Channel
    OBVIOUS
  <2> QED
    BY <2>1, <2>2, SaverPut
<1>2. CASE Saver!StepEnds
  <2>1. /\ s4 # 0 /\ UNCHANGED <<s1, s2, s7, s9>>
        /\ \E new \in SUBSET Channel : Saver!Put(new)
    BY <1>2 DEF Saver!StepEnds
  <2> QED
    BY <2>1, SaverPut
<1>3. CASE UNCHANGED Saver!vars
  <2>1. UNCHANGED <<s1, s2, s3, s4, s5, s6, s7, s8, s9>>
    BY <1>3 DEF Saver!vars, Saver!graph
  <2>2. Saver!Shaped' /\ Saver!Made(s2)'
    <3>1. Saver!Ids' = Saver!Ids
      BY <2>1 DEF Saver!Ids
    <3>2. s2' \in Saver!Document' /\ s3' \in Seq(Saver!CallRecord')
      BY <2>1, <3>1, CallFacts DEF Saver!Document, Saver!CallRecord
    <3> QED
      BY <2>1, <3>1, <3>2 DEF Saver!IInv, Saver!Shaped, Saver!Made, Saver!NoDoc
  <2>3. \A i \in DOMAIN s3' : Saver!Asked(i)' /\ Saver!InOrder(i)'
    <3>1. ASSUME NEW i \in DOMAIN s3 PROVE Saver!Asked(i)' /\ Saver!InOrder(i)'
      <4>1. Saver!Asked(i) /\ Saver!InOrder(i)
        BY DEF Saver!IInv
      <4>2. Saver!Asked(i)'
        BY <2>1, <4>1 DEF Saver!Asked, Saver!IsPut, Saver!Made, Saver!NoDoc
      <4>3. Saver!InOrder(i)'
        BY <2>1, <4>1 DEF Saver!InOrder, Saver!IsPut
      <4> QED
        BY <4>2, <4>3
    <3> QED
      BY <2>1, <3>1
  <2>4. Saver!InMemory'
    <3>1. \A c, v, n : Saver!Available(c, v, n) => Saver!Available(c, v, n)'
      BY <2>1 DEF Saver!Available, Saver!IsPut
    <3>2. \A id, n : Saver!Reached(id, n) => Saver!Reached(id, n)'
      BY <2>1 DEF Saver!Reached, Saver!IsPut
    <3>3. Saver!ChannelsComplete => Saver!ChannelsComplete'
      BY <2>1 DEF Saver!ChannelsComplete, Saver!NoDoc
    <3>4. Saver!Recorded => Saver!Recorded'
      BY <2>1 DEF Saver!Recorded
    <3> QED
      BY <2>1, <3>1, <3>2, <3>3, <3>4 DEF Saver!IInv, Saver!InMemory, Saver!IsPut, Saver!Ids
  <2> QED
    BY <2>2, <2>3, <2>4 DEF Saver!IInv
<1>4. ASSUME NEW t \in Task, Saver!TaskEnds(t) PROVE Saver!IInv'
  BY <1>4, SaverTaskEnds
<1>5. ASSUME NEW i \in DOMAIN s3, Saver!CallLoads(i) \/ Saver!CallSaves(i) PROVE Saver!IInv'
  BY <1>5, SaverLoads, SaverSaves
<1> QED
  BY <1>1, <1>2, <1>3, <1>4, <1>5, SaverResume, SaverRuns, SaverCrash DEF Saver!Next

(* The document is whole: what CheckpointWhole says follows. *)
LEMMA SaverWhole ==
    ASSUME Saver!IInv
    PROVE  Saver!TypeOK /\ Saver!OneCheckpoint /\ Saver!ChannelsComplete /\ Saver!AckedWritesKept
<1>1. Saver!Made(s2) /\ s2 \in Saver!Document
  BY CallFacts DEF Saver!IInv
<1>2. Saver!TypeOK
  <2>1. s2.id \in Saver!Ids /\ s2.versions \in [Channel -> Saver!Ids]
        /\ s2.blobs \subseteq Channel \X Saver!Ids
        /\ s2.writes \subseteq [id : Saver!Ids, task : Task, channel : Channel, idx : Nat]
    BY <1>1 DEF Saver!Document
  <2>2. \A w \in s2.writes : w.id \in Saver!Ids \ {0} /\ w.task \in Task /\ w.channel \in Channel
    BY <1>1, <2>1 DEF Saver!Made
  <2>3. \A i \in DOMAIN s3 : s3[i].kind \in {"put", "writes"} /\ s3[i].id \in Saver!Ids
    BY CallFacts DEF Saver!CallRecord
  <2>4. s4 \in Saver!Ids
    BY CallFacts
  <2> QED
    BY <1>1, <2>1, <2>2, <2>3, <2>4 DEF Saver!IInv, Saver!Shaped, Saver!TypeOK, Saver!Made
<1>3. Saver!OneCheckpoint
  BY <1>1 DEF Saver!OneCheckpoint, Saver!Made
<1>4. Saver!ChannelsComplete
  BY DEF Saver!IInv, Saver!InMemory, Saver!ChannelsComplete
<1>5. Saver!AckedWritesKept
  <2> SUFFICES ASSUME ~s1, NEW t \in Task, NEW i \in DOMAIN Writes[t],
                      <<s2.id, t>> \in s7, Saver!Kept(t, i)
               PROVE  [id |-> s2.id, task |-> t, channel |-> Writes[t][i], idx |-> i] \in s2.writes
    BY DEF Saver!AckedWritesKept
  <2>1. PICK w \in s2.writes : w.id = s2.id /\ w.task = t /\ w.channel = Writes[t][i]
    BY DEF Saver!IInv, Saver!InMemory, Saver!Recorded
  <2>2. /\ w.idx \in DOMAIN Writes[t] /\ Writes[t][w.idx] = Writes[t][i]
        /\ Saver!Kept(t, w.idx)
    BY <1>1, <2>1 DEF Saver!Made
  <2>3. Writes[t] \in Seq(Channel)
    BY SaverAssumption
  <2>4. w.idx = i
    BY <2>2, <2>3 DEF Saver!Kept
  <2>5. w = [id |-> w.id, task |-> w.task, channel |-> w.channel, idx |-> w.idx]
    BY <1>1 DEF Saver!Document
  <2> QED
    BY <2>1, <2>4, <2>5
<1> QED
  BY <1>2, <1>3, <1>4, <1>5

(* No accepted task is run again. *)
LEMMA SaverRunsOnce ==
    ASSUME Saver!IInv, [Saver!Next]_(Saver!vars)
    PROVE  Saver!RunsOnce
<1> SUFFICES ASSUME NEW t \in Task, ~s1, t \in s6', t \notin s6, s4' = s4
             PROVE  <<s4, t>> \notin s7
  BY DEF Saver!RunsOnce
<1>1. CASE \E u \in Task : Saver!TaskEnds(u)
  BY <1>1 DEF Saver!TaskEnds, Saver!IInv, Saver!InMemory
<1>2. CASE Saver!Resume
  BY <1>2 DEF Saver!Resume, Saver!IInv, Saver!Made
<1>3. Saver!Start \/ Saver!StepEnds \/ Saver!Crash => s6' = {}
  BY DEF Saver!Start, Saver!StepEnds, Saver!Put, Saver!Crash
<1>4. Saver!CallRuns \/ (\E i \in DOMAIN s3 : Saver!CallLoads(i) \/ Saver!CallSaves(i))
         \/ UNCHANGED Saver!vars => s6' = s6
  BY DEF Saver!CallRuns, Saver!CallLoads, Saver!CallSaves, Saver!vars, Saver!graph
<1> QED
  BY <1>1, <1>2, <1>3, <1>4 DEF Saver!Next

-----------------------------------------------------------------------------
(* SQLite conversation store.  Its variables are s1 = rows, s2 = turn,     *)
(* s3 = ended, s4 = turns, s5 = deletes, s6 = faults.                      *)

(* At first no session has rows or turns. *)
LEMMA MemoryInit == Memory!Init => Memory!IInv
<1> SUFFICES ASSUME Memory!Init PROVE Memory!IInv
  OBVIOUS
<1> USE DEF Memory!Init, Memory!Open, Memory!Inserting, Memory!NoTurn
<1>1. Memory!Shaped
  BY DEF Memory!Shaped
<1>2. Memory!TurnsApart
  BY DEF Memory!TurnsApart
<1>3. Memory!RowsInRuns
  BY DEF Memory!RowsInRuns
<1>4. Memory!NothingMissing
  BY DEF Memory!NothingMissing
<1>5. Memory!OwnTurnsSeen /\ Memory!LostToAnotherProcess
  BY DEF Memory!OwnTurnsSeen, Memory!LostToAnotherProcess
<1> QED
  BY <1>1, <1>2, <1>3, <1>4, <1>5 DEF Memory!IInv

(* The turn of one process in one session is changed, and no other. *)
LEMMA SetChanges ==
    ASSUME Memory!Shaped, NEW p \in Process, NEW s \in Session, NEW v, Memory!Set(p, s, v)
    PROVE  /\ s2' = [q \in Process |-> [z \in Session |-> s2'[q][z]]]
           /\ s2'[p][s] = v
           /\ \A q \in Process, z \in Session : q # p \/ z # s => s2'[q][z] = s2[q][z]
<1>1. s2 = [q \in Process |-> [z \in Session |-> s2[q][z]]]
  BY DEF Memory!Shaped
<1>2. s2' = [s2 EXCEPT ![p] = [s2[p] EXCEPT ![s] = v]]
  BY DEF Memory!Set
<1>3. s2' = [q \in Process |-> IF q = p THEN [s2[p] EXCEPT ![s] = v] ELSE s2[q]]
  BY <1>1, <1>2
<1>4. [s2[p] EXCEPT ![s] = v] = [z \in Session |-> IF z = s THEN v ELSE s2[p][z]]
  BY <1>1
<1>5. s2' = [q \in Process |-> [z \in Session |-> IF q = p /\ z = s THEN v ELSE s2[q][z]]]
  BY <1>1, <1>3, <1>4
<1> QED
  BY <1>5

(* A turn of n > 0 messages begins: what it has read is what is stored. *)
LEMMA MemoryBegin ==
    ASSUME Memory!IInv, NEW p \in Process, NEW s \in Session, Memory!Begin(p, s)
    PROVE  Memory!IInv'
<1> USE LengthsAssumption
<1>1. PICK n \in Lengths :
         Memory!Set(p, s, [phase |-> "open", id |-> s4 + 1, size |-> n, read |-> s1[s]])
  BY DEF Memory!Begin
<1> DEFINE t == [phase |-> "open", id |-> s4 + 1, size |-> n, read |-> s1[s]]
<1>2. /\ s2' = [q \in Process |-> [z \in Session |-> s2'[q][z]]]
      /\ s2'[p][s] = t
      /\ \A q \in Process, z \in Session : q # p \/ z # s => s2'[q][z] = s2[q][z]
  BY <1>1, SetChanges DEF Memory!IInv
<1>3. /\ t.phase = "open" /\ t.id = s4 + 1 /\ t.size = n /\ t.read = s1[s]
  OBVIOUS
<1> HIDE DEF t
<1>4. s4' = s4 + 1 /\ UNCHANGED <<s1, s3, s5, s6>>
  BY DEF Memory!Begin
<1>5. s4 \in Nat /\ s5 \in Nat /\ \A e \in s3 : e.id \in 1 .. s4 /\ e.id # s4 + 1 /\ e.id < s4 + 1
  BY DEF Memory!IInv, Memory!Shaped
<1>6. Memory!Open(p, s)' /\ ~Memory!Inserting(p, s)'
  BY <1>2, <1>3 DEF Memory!Open, Memory!Inserting
<1>7. \A q \in Process, z \in Session : q # p \/ z # s =>
         (Memory!Open(q, z)' <=> Memory!Open(q, z))
         /\ (Memory!Inserting(q, z)' <=> Memory!Inserting(q, z))
  BY <1>2 DEF Memory!Open, Memory!Inserting
<1>8. Memory!Shaped'
  BY <1>2, <1>4, <1>5 DEF Memory!IInv, Memory!Shaped
<1>9. Memory!TurnsApart'
  <2>1. \A q \in Process, z \in Session :
           /\ s2'[q][z] = Memory!NoTurn \/ Memory!Open(q, z)'
           /\ Memory!Open(q, z)' => s2'[q][z].id \in 1 .. s4' /\ s2'[q][z].size \in Lengths
           /\ Memory!Inserting(q, z)' => s2'[q][z].first \in Nat /\ s2'[q][z].size > 0
    BY <1>2, <1>3, <1>4, <1>5, <1>6, <1>7 DEF Memory!IInv, Memory!TurnsApart, Memory!NoTurn
  <2>2. \A q \in Process, z \in Session : Memory!Open(q, z)' => \A e \in s3' :
           e.id # s2'[q][z].id /\ (e.by = q /\ e.session = z => e.id < s2'[q][z].id)
    BY <1>2, <1>3, <1>4, <1>5, <1>7 DEF Memory!IInv, Memory!TurnsApart
  <2>3. \A q, r \in Process, z, y \in Session :
           Memory!Open(q, z)' /\ Memory!Open(r, y)' /\ s2'[q][z].id = s2'[r][y].id => q = r /\ z = y
    <3>1. \A q \in Process, z \in Session :
             Memory!Open(q, z) => s2[q][z].id \in 1 .. s4 /\ s2[q][z].id # s4 + 1
      BY <1>5 DEF Memory!IInv, Memory!TurnsApart
    <3> QED
      BY <1>2, <1>3, <1>7, <3>1 DEF Memory!IInv, Memory!TurnsApart
  <2> QED
    BY <1>4, <2>1, <2>2, <2>3 DEF Memory!IInv, Memory!TurnsApart
<1>10. Memory!RowsInRuns'
  <2>1. \A id : \A z \in Session : Memory!OrdinalsOf(z, id)' = Memory!OrdinalsOf(z, id)
    BY <1>4 DEF Memory!OrdinalsOf
  <2> QED
    BY <1>4, <2>1 DEF Memory!IInv, Memory!RowsInRuns
<1>11. Memory!NothingMissing'
  BY <1>2, <1>4, <1>6, <1>7 DEF Memory!IInv, Memory!NothingMissing, Memory!Written
<1>12. Memory!OwnTurnsSeen'
  BY <1>2, <1>3, <1>4, <1>6, <1>7
     DEF Memory!IInv, Memory!NothingMissing, Memory!OwnTurnsSeen, Memory!Written
<1>13. Memory!LostToAnotherProcess'
  BY <1>4 DEF Memory!IInv, Memory!LostToAnotherProcess
<1> QED
  BY <1>8, <1>9, <1>10, <1>11, <1>12, <1>13 DEF Memory!IInv

(* What the end of a turn does, whatever becomes of the rows. *)
Gone(p, s, how) == [id |-> s2[p][s].id, by |-> p, session |-> s, how |-> how,
                    size |-> s2[p][s].size, read |-> s2[p][s].read]

(* What the end of a turn changes: its process has no turn in the session, and
   the end is noted. *)
LEMMA EndChanges ==
    ASSUME Memory!IInv, NEW p \in Process, NEW s \in Session, Memory!Open(p, s), NEW how,
           Memory!End(p, s, how)
    PROVE  /\ s2' = [q \in Process |-> [z \in Session |-> s2'[q][z]]]
           /\ s2'[p][s] = Memory!NoTurn /\ ~Memory!Open(p, s)' /\ ~Memory!Inserting(p, s)'
           /\ \A q \in Process, z \in Session : q # p \/ z # s =>
                 /\ s2'[q][z] = s2[q][z]
                 /\ (Memory!Open(q, z)' <=> Memory!Open(q, z))
                 /\ (Memory!Inserting(q, z)' <=> Memory!Inserting(q, z))
           /\ s3' = s3 \cup {Gone(p, s, how)}
<1>1. Memory!Set(p, s, Memory!NoTurn) /\ s3' = s3 \cup {Gone(p, s, how)}
  BY DEF Memory!End, Gone
<1>2. /\ s2' = [q \in Process |-> [z \in Session |-> s2'[q][z]]]
      /\ s2'[p][s] = Memory!NoTurn
      /\ \A q \in Process, z \in Session : q # p \/ z # s => s2'[q][z] = s2[q][z]
  BY <1>1, SetChanges DEF Memory!IInv
<1> QED
  BY <1>1, <1>2 DEF Memory!Open, Memory!Inserting, Memory!NoTurn

(* The turns stay apart, and one is lost only to another process. *)
LEMMA EndKeepsTurns ==
    ASSUME Memory!IInv, NEW p \in Process, NEW s \in Session, Memory!Open(p, s), NEW how,
           Memory!End(p, s, how), s4' = s4, s5' = s5,
           how = "collided" => \E f \in s3 : f.session = s /\ f.by # p
    PROVE  Memory!TurnsApart' /\ Memory!LostToAnotherProcess'
<1> DEFINE g == Gone(p, s, how)
<1>1. /\ s2'[p][s] = Memory!NoTurn /\ ~Memory!Open(p, s)' /\ ~Memory!Inserting(p, s)'
      /\ \A q \in Process, z \in Session : q # p \/ z # s =>
            /\ s2'[q][z] = s2[q][z]
            /\ (Memory!Open(q, z)' <=> Memory!Open(q, z))
            /\ (Memory!Inserting(q, z)' <=> Memory!Inserting(q, z))
      /\ s3' = s3 \cup {g}
  BY EndChanges
<1>2. /\ g.id = s2[p][s].id /\ g.by = p /\ g.session = s /\ g.how = how
      /\ g.size = s2[p][s].size /\ g.read = s2[p][s].read
  BY DEF Gone
<1> HIDE DEF g
<1>3. /\ s4 \in Nat /\ g.id \in 1 .. s4
      /\ \A e \in s3 : e.id \in 1 .. s4 /\ e.id # g.id
      /\ \A e \in s3 : e.by = p /\ e.session = s => e.id < g.id
  BY <1>2 DEF Memory!IInv, Memory!Shaped, Memory!TurnsApart
<1>4. Memory!TurnsApart'
  <2>1. \A q \in Process, z \in Session :
           /\ s2'[q][z] = Memory!NoTurn \/ Memory!Open(q, z)'
           /\ Memory!Open(q, z)' => s2'[q][z].id \in 1 .. s4' /\ s2'[q][z].size \in Lengths
           /\ Memory!Inserting(q, z)' => s2'[q][z].first \in Nat /\ s2'[q][z].size > 0
    BY <1>1 DEF Memory!IInv, Memory!TurnsApart
  <2>2. \A q \in Process, z \in Session : Memory!Open(q, z)' => \A e \in s3' :
           e.id # s2'[q][z].id /\ (e.by = q /\ e.session = z => e.id < s2'[q][z].id)
    <3> SUFFICES ASSUME NEW q \in Process, NEW z \in Session, Memory!Open(q, z)', NEW e \in s3'
                 PROVE  e.id # s2'[q][z].id
                        /\ (e.by = q /\ e.session = z => e.id < s2'[q][z].id)
      OBVIOUS
    <3>1. (q # p \/ z # s) /\ Memory!Open(q, z) /\ s2'[q][z] = s2[q][z]
      BY <1>1
    <3>2. CASE e \in s3
      BY <3>1, <3>2 DEF Memory!IInv, Memory!TurnsApart
    <3>3. CASE e = g
      BY <3>1, <3>3, <1>2 DEF Memory!IInv, Memory!TurnsApart
    <3> QED
      BY <3>2, <3>3, <1>1
  <2>3. \A q, r \in Process, z, y \in Session :
           Memory!Open(q, z)' /\ Memory!Open(r, y)' /\ s2'[q][z].id = s2'[r][y].id => q = r /\ z = y
    BY <1>1 DEF Memory!IInv, Memory!TurnsApart
  <2>4. \A e, f \in s3' : e.id = f.id => e = f
    BY <1>1, <1>3 DEF Memory!IInv, Memory!TurnsApart
  <2> QED
    BY <2>1, <2>2, <2>3, <2>4 DEF Memory!TurnsApart
<1>5. Memory!LostToAnotherProcess'
  <2> SUFFICES ASSUME NEW e \in s3'
               PROVE  /\ e.how = "collided" => \E f \in s3' : f.session = e.session /\ f.by # e.by
                      /\ e.how = "stored" /\ s5' = 0 => \A f \in s3' :
                            f.session = e.session /\ f.by = e.by /\ f.how = "stored" /\ f.size > 0
                               /\ f.id < e.id => f.id \in {e.read[o] : o \in DOMAIN e.read}
    BY DEF Memory!LostToAnotherProcess
  <2>1. CASE e \in s3
    <3>1. g.session = e.session /\ g.by = e.by => ~(g.id < e.id)
      BY <2>1, <1>2, <1>3
    <3> QED
      BY <2>1, <3>1, <1>1 DEF Memory!IInv, Memory!LostToAnotherProcess
  <2>2. CASE e = g
    <3>1. s5 = 0 => \A f \in s3 : f.session = s /\ f.by = p /\ f.how = "stored" /\ f.size > 0
             => f.id \in {g.read[o] : o \in DOMAIN g.read}
      BY <1>2 DEF Memory!IInv, Memory!OwnTurnsSeen
    <3> QED
      BY <2>2, <3>1, <1>1, <1>2, <1>3
  <2> QED
    BY <2>1, <2>2, <1>1
<1> QED
  BY <1>4, <1>5

(* A turn ends and leaves no row: its body raised, it had no message, or the
   database refused its rows. *)
LEMMA EndWithoutRows ==
    ASSUME Memory!IInv, NEW p \in Process, NEW s \in Session, Memory!Open(p, s), NEW how,
           Memory!End(p, s, how), s1' = s1, s4' = s4, s5' = s5,
           how = "collided" => \E f \in s3 : f.session = s /\ f.by # p,
           how = "stored" => s2[p][s].size = 0
    PROVE  Memory!IInv'
<1> DEFINE g == Gone(p, s, how)
<1>1. /\ s2' = [q \in Process |-> [z \in Session |-> s2'[q][z]]]
      /\ ~Memory!Open(p, s)' /\ ~Memory!Inserting(p, s)'
      /\ \A q \in Process, z \in Session : q # p \/ z # s =>
            /\ s2'[q][z] = s2[q][z]
            /\ (Memory!Open(q, z)' <=> Memory!Open(q, z))
            /\ (Memory!Inserting(q, z)' <=> Memory!Inserting(q, z))
      /\ s3' = s3 \cup {g}
  BY EndChanges
<1>2. /\ g.id = s2[p][s].id /\ g.by = p /\ g.session = s /\ g.how = how
      /\ g.size = s2[p][s].size
  BY DEF Gone
<1> HIDE DEF g
<1>3. Memory!TurnsApart' /\ Memory!LostToAnotherProcess'
  BY EndKeepsTurns
<1>4. /\ g.id \in 1 .. s4 /\ g.size \in Lengths
      /\ ~(g.how = "stored" /\ g.size > 0)
  BY <1>2 DEF Memory!IInv, Memory!TurnsApart
<1>5. Memory!Shaped'
  BY <1>1, <1>2, <1>4 DEF Memory!IInv, Memory!Shaped
<1>6. Memory!RowsInRuns'
  <2>1. \A id : \A z \in Session : Memory!OrdinalsOf(z, id)' = Memory!OrdinalsOf(z, id)
    BY DEF Memory!OrdinalsOf
  <2> QED
    BY <2>1, <1>1 DEF Memory!IInv, Memory!RowsInRuns
<1>7. Memory!NothingMissing'
  <2>1. \A z \in Session : Memory!Written(z)' = Memory!Written(z)
    BY DEF Memory!Written
  <2> QED
    BY <2>1, <1>1, <1>4 DEF Memory!IInv, Memory!NothingMissing
<1>8. Memory!OwnTurnsSeen'
  BY <1>1, <1>4 DEF Memory!IInv, Memory!OwnTurnsSeen
<1> QED
  BY <1>3, <1>5, <1>6, <1>7, <1>8 DEF Memory!IInv

(* SELECT MAX(ordinal): the next ordinal is beyond every row, right after one. *)
LEMMA NextOrdinal ==
    ASSUME Memory!IInv, NEW s \in Session
    PROVE  /\ Memory!MaxOrdinal(s) + 1 \in Nat
           /\ \A o \in DOMAIN s1[s] : o < Memory!MaxOrdinal(s) + 1
           /\ s5 = 0 => 0 .. (Memory!MaxOrdinal(s) + 1) - 1 \subseteq DOMAIN s1[s]
<1>1. DOMAIN s1[s] \subseteq Nat
  BY DEF Memory!IInv, Memory!Shaped
<1>2. CASE s1[s] = <<>>
  <2>1. DOMAIN s1[s] = {} /\ Memory!MaxOrdinal(s) = -1
    BY <1>2 DEF Memory!MaxOrdinal
  <2> QED
    BY <2>1
<1>3. CASE s1[s] # <<>>
  <2>1. PICK last \in DOMAIN s1[s] : \A o \in DOMAIN s1[s] : o <= last
    BY <1>3 DEF Memory!IInv, Memory!RowsInRuns
  <2>2. \E x \in DOMAIN s1[s] : \A y \in DOMAIN s1[s] : x >= y
    BY <1>1, <2>1
  <2>3. Memory!MaxOrdinal(s) = CHOOSE x \in DOMAIN s1[s] : \A y \in DOMAIN s1[s] : x >= y
    BY <1>3 DEF Memory!MaxOrdinal, Memory!Max
  <2>4. /\ Memory!MaxOrdinal(s) \in DOMAIN s1[s]
        /\ \A y \in DOMAIN s1[s] : Memory!MaxOrdinal(s) >= y
    BY <2>2, <2>3
  <2>5. s5 = 0 => 0 .. Memory!MaxOrdinal(s) \subseteq DOMAIN s1[s]
    BY <2>4 DEF Memory!IInv, Memory!NothingMissing
  <2> QED
    BY <1>1, <2>4, <2>5
<1> QED
  BY <1>2, <1>3

(* An append that has read the last ordinal writes after it. *)
LEMMA MemorySelectMax ==
    ASSUME Memory!IInv, NEW p \in Process, NEW s \in Session, Memory!SelectMax(p, s)
    PROVE  Memory!IInv'
<1> DEFINE first == Memory!MaxOrdinal(s) + 1
           t == [phase |-> "insert", id |-> s2[p][s].id, size |-> s2[p][s].size,
                 read |-> s2[p][s].read, first |-> first]
<1>1. /\ s2[p][s].phase = "open" /\ s2[p][s].size > 0 /\ Memory!Set(p, s, t)
      /\ UNCHANGED <<s1, s3, s4, s5, s6>>
  BY DEF Memory!SelectMax
<1>2. /\ s2' = [q \in Process |-> [z \in Session |-> s2'[q][z]]]
      /\ s2'[p][s] = t
      /\ \A q \in Process, z \in Session : q # p \/ z # s => s2'[q][z] = s2[q][z]
  BY <1>1, SetChanges DEF Memory!IInv
<1>3. /\ t.phase = "insert" /\ t.id = s2[p][s].id /\ t.size = s2[p][s].size
      /\ t.read = s2[p][s].read /\ t.first = first
  OBVIOUS
<1>4. /\ first \in Nat /\ \A o \in DOMAIN s1[s] : o < first
      /\ s5 = 0 => 0 .. first - 1 \subseteq DOMAIN s1[s]
  BY NextOrdinal
<1> HIDE DEF t, first
<1>5. /\ \A q \in Process, z \in Session :
            (Memory!Open(q, z)' <=> Memory!Open(q, z)) /\ s2'[q][z].id = s2[q][z].id
            /\ s2'[q][z].size = s2[q][z].size /\ s2'[q][z].read = s2[q][z].read
      /\ Memory!Open(p, s) /\ Memory!Open(p, s)' /\ Memory!Inserting(p, s)'
      /\ \A q \in Process, z \in Session : q # p \/ z # s =>
            (Memory!Inserting(q, z)' <=> Memory!Inserting(q, z))
  BY <1>1, <1>2, <1>3 DEF Memory!Open, Memory!Inserting
<1>6. Memory!Shaped'
  BY <1>1, <1>2 DEF Memory!IInv, Memory!Shaped
<1>7. Memory!TurnsApart'
  <2>1. \A q \in Process, z \in Session :
           /\ s2'[q][z] = Memory!NoTurn \/ Memory!Open(q, z)'
           /\ Memory!Inserting(q, z)' => s2'[q][z].first \in Nat /\ s2'[q][z].size > 0
    BY <1>1, <1>2, <1>3, <1>4, <1>5 DEF Memory!IInv, Memory!TurnsApart
  <2>2. \A q \in Process, z \in Session : Memory!Open(q, z)' =>
           /\ s2'[q][z].id \in 1 .. s4' /\ s2'[q][z].size \in Lengths
           /\ \A e \in s3' :
                 e.id # s2'[q][z].id /\ (e.by = q /\ e.session = z => e.id < s2'[q][z].id)
    BY <1>1, <1>5 DEF Memory!IInv, Memory!TurnsApart
  <2>3. \A q, r \in Process, z, y \in Session :
           Memory!Open(q, z)' /\ Memory!Open(r, y)' /\ s2'[q][z].id = s2'[r][y].id => q = r /\ z = y
    BY <1>5 DEF Memory!IInv, Memory!TurnsApart
  <2>4. \A e, f \in s3' : e.id = f.id => e = f
    BY <1>1 DEF Memory!IInv, Memory!TurnsApart
  <2> QED
    BY <2>1, <2>2, <2>3, <2>4 DEF Memory!TurnsApart
<1>8. Memory!RowsInRuns'
  <2>1. \A id : \A z \in Session : Memory!OrdinalsOf(z, id)' = Memory!OrdinalsOf(z, id)
    BY <1>1 DEF Memory!OrdinalsOf
  <2> QED
    BY <2>1, <1>1 DEF Memory!IInv, Memory!RowsInRuns
<1>9. Memory!NothingMissing'
  <2>1. \A z \in Session : Memory!Written(z)' = Memory!Written(z)
    BY <1>1 DEF Memory!Written
  <2> QED
    BY <2>1, <1>1, <1>2, <1>3, <1>4, <1>5 DEF Memory!IInv, Memory!NothingMissing
<1>10. Memory!OwnTurnsSeen'
  <2>1. \A q \in Process, z \in Session : Memory!Inserting(q, z)' =>
           \A o \in DOMAIN s1'[z] : o >= s2'[q][z].first =>
              \E e \in s3' : e.session = z /\ e.by # q
    <3>1. DOMAIN s1[s] \subseteq Nat
      BY DEF Memory!IInv, Memory!Shaped
    <3> QED
      BY <3>1, <1>1, <1>2, <1>3, <1>4, <1>5 DEF Memory!IInv, Memory!OwnTurnsSeen
  <2>2. \A q \in Process, z \in Session : s5' = 0 /\ Memory!Open(q, z)' =>
           \A e \in s3' : e.session = z /\ e.by = q /\ e.how = "stored" /\ e.size > 0
              => e.id \in {s2'[q][z].read[o] : o \in DOMAIN s2'[q][z].read}
    BY <1>1, <1>5 DEF Memory!IInv, Memory!OwnTurnsSeen
  <2> QED
    BY <2>1, <2>2 DEF Memory!OwnTurnsSeen
<1>11. Memory!LostToAnotherProcess'
  BY <1>1 DEF Memory!IInv, Memory!LostToAnotherProcess
<1> QED
  BY <1>6, <1>7, <1>8, <1>9, <1>10, <1>11 DEF Memory!IInv

(* DELETE: the ordinals begin again, under the turns that go on. *)
LEMMA MemoryDelete ==
    ASSUME Memory!IInv, NEW s \in Session, Memory!Delete(s)
    PROVE  Memory!IInv'
<1>1. /\ s1' = [s1 EXCEPT ![s] = <<>>] /\ s5' = s5 + 1
      /\ UNCHANGED <<s2, s3, s4, s6>>
  BY DEF Memory!Delete
<1>2. s1 = [z \in Session |-> s1[z]] /\ s5 \in Nat
  BY DEF Memory!IInv, Memory!Shaped
<1>3. /\ s1' = [z \in Session |-> s1'[z]] /\ s1'[s] = <<>> /\ DOMAIN s1'[s] = {}
      /\ \A z \in Session : z # s => s1'[z] = s1[z]
      /\ s5' \in Nat /\ s5' # 0
  BY <1>1, <1>2
<1>4. \A q \in Process, z \in Session :
         (Memory!Open(q, z)' <=> Memory!Open(q, z))
         /\ (Memory!Inserting(q, z)' <=> Memory!Inserting(q, z))
  BY <1>1 DEF Memory!Open, Memory!Inserting
<1>5. Memory!Shaped'
  BY <1>1, <1>3 DEF Memory!IInv, Memory!Shaped
<1>6. Memory!TurnsApart'
  BY <1>1, <1>4 DEF Memory!IInv, Memory!TurnsApart
<1>7. Memory!RowsInRuns'
  <2>1. \A z \in Session : z # s =>
           \A id : Memory!OrdinalsOf(z, id)' = Memory!OrdinalsOf(z, id)
    BY <1>3 DEF Memory!OrdinalsOf
  <2> QED
    BY <2>1, <1>1, <1>3 DEF Memory!IInv, Memory!RowsInRuns
<1>8. Memory!NothingMissing'
  BY <1>3 DEF Memory!NothingMissing
<1>9. Memory!OwnTurnsSeen'
  BY <1>1, <1>3, <1>4 DEF Memory!IInv, Memory!OwnTurnsSeen
<1>10. Memory!LostToAnotherProcess'
  BY <1>1, <1>3 DEF Memory!IInv, Memory!LostToAnotherProcess
<1> QED
  BY <1>5, <1>6, <1>7, <1>8, <1>9, <1>10 DEF Memory!IInv

(* A process dies: the turns it had open are nobody's. *)
LEMMA MemoryCrash ==
    ASSUME Memory!IInv, NEW p \in Process, Memory!Crash(p)
    PROVE  Memory!IInv'
<1>1. /\ s2' = [s2 EXCEPT ![p] = [s \in Session |-> Memory!NoTurn]]
      /\ UNCHANGED <<s1, s3, s4, s5>>
  BY DEF Memory!Crash
<1>2. s2 = [q \in Process |-> [z \in Session |-> s2[q][z]]]
  BY DEF Memory!IInv, Memory!Shaped
<1>3. /\ s2' = [q \in Process |-> [z \in Session |-> s2'[q][z]]]
      /\ \A q \in Process, z \in Session :
            s2'[q][z] = IF q = p THEN Memory!NoTurn ELSE s2[q][z]
  BY <1>1, <1>2
<1>4. \A q \in Process, z \in Session :
         /\ s2'[q][z] = Memory!NoTurn \/ s2'[q][z] = s2[q][z]
         /\ Memory!Open(q, z)' => Memory!Open(q, z) /\ s2'[q][z] = s2[q][z]
         /\ Memory!Inserting(q, z)' => Memory!Inserting(q, z) /\ s2'[q][z] = s2[q][z]
         /\ s2'[q][z] = Memory!NoTurn \/ Memory!Open(q, z)'
  BY <1>3 DEF Memory!Open, Memory!Inserting, Memory!NoTurn, Memory!IInv, Memory!TurnsApart
<1>5. Memory!Shaped'
  BY <1>1, <1>3 DEF Memory!IInv, Memory!Shaped
<1>6. Memory!TurnsApart'
  BY <1>1, <1>4 DEF Memory!IInv, Memory!TurnsApart
<1>7. Memory!RowsInRuns'
  <2>1. \A id : \A z \in Session : Memory!OrdinalsOf(z, id)' = Memory!OrdinalsOf(z, id)
    BY <1>1 DEF Memory!OrdinalsOf
  <2> QED
    BY <2>1, <1>1 DEF Memory!IInv, Memory!RowsInRuns
<1>8. Memory!NothingMissing'
  <2>1. \A z \in Session : Memory!Written(z)' = Memory!Written(z)
    BY <1>1 DEF Memory!Written
  <2> QED
    BY <2>1, <1>1, <1>4 DEF Memory!IInv, Memory!NothingMissing
<1>9. Memory!OwnTurnsSeen'
  BY <1>1, <1>4 DEF Memory!IInv, Memory!OwnTurnsSeen
<1>10. Memory!LostToAnotherProcess'
  BY <1>1 DEF Memory!IInv, Memory!LostToAnotherProcess
<1> QED
  BY <1>5, <1>6, <1>7, <1>8, <1>9, <1>10 DEF Memory!IInv

(* The INSERTs: none of their ordinals was taken, so no row of another turn is
   lost, and they close up to the last row. *)
LEMMA MemoryInsert ==
    ASSUME Memory!IInv, NEW p \in Process, NEW s \in Session, Memory!Insert(p, s)
    PROVE  Memory!IInv'
<1> USE LengthsAssumption
<1> DEFINE t == s2[p][s]
           g == Gone(p, s, "stored")
           O == t.first .. t.first + t.size - 1
<1>1. /\ Memory!Inserting(p, s) /\ O \cap DOMAIN s1[s] = {}
      /\ s1' = [s1 EXCEPT ![s] =
                  [o \in DOMAIN s1[s] \cup O |-> IF o \in O THEN t.id ELSE s1[s][o]]]
      /\ Memory!End(p, s, "stored")
      /\ UNCHANGED <<s4, s5, s6>>
  BY DEF Memory!Insert, Memory!Inserting, Memory!Taken, Memory!Ordinals
<1>2. Memory!Open(p, s)
  BY <1>1 DEF Memory!Open, Memory!Inserting
<1>3. /\ t.first \in Nat /\ t.size \in Nat /\ t.size > 0 /\ t.size \in Lengths
      /\ t.id \in 1 .. s4 /\ s4 \in Nat /\ DOMAIN s1[s] \subseteq Nat
  BY <1>1, <1>2 DEF Memory!IInv, Memory!Shaped, Memory!TurnsApart
<1>4. /\ s1' = [z \in Session |-> s1'[z]]
      /\ \A z \in Session : z # s => s1'[z] = s1[z]
      /\ DOMAIN s1'[s] = DOMAIN s1[s] \cup O
      /\ \A o \in O : s1'[s][o] = t.id
      /\ \A o \in DOMAIN s1[s] : s1'[s][o] = s1[s][o]
  <2>1. s1 = [z \in Session |-> s1[z]]
    BY DEF Memory!IInv, Memory!Shaped
  <2>2. s1'[s] = [o \in DOMAIN s1[s] \cup O |-> IF o \in O THEN t.id ELSE s1[s][o]]
    BY <1>1, <2>1
  <2>3. s1' = [z \in Session |-> s1'[z]] /\ \A z \in Session : z # s => s1'[z] = s1[z]
    BY <1>1, <2>1
  <2> HIDE DEF O
  <2> QED
    BY <1>1, <2>2, <2>3
<1>5. /\ g.id = t.id /\ g.by = p /\ g.session = s /\ g.how = "stored" /\ g.size = t.size
  BY DEF Gone
<1>6. /\ s2' = [q \in Process |-> [z \in Session |-> s2'[q][z]]]
      /\ ~Memory!Open(p, s)' /\ ~Memory!Inserting(p, s)'
      /\ \A q \in Process, z \in Session : q # p \/ z # s =>
            /\ s2'[q][z] = s2[q][z]
            /\ (Memory!Open(q, z)' <=> Memory!Open(q, z))
            /\ (Memory!Inserting(q, z)' <=> Memory!Inserting(q, z))
      /\ s3' = s3 \cup {g}
  BY <1>1, <1>2, EndChanges
<1> HIDE DEF g
<1>7. Memory!TurnsApart' /\ Memory!LostToAnotherProcess'
  BY <1>1, <1>2, EndKeepsTurns
<1>8. /\ \A e \in s3 : e.id # t.id
      /\ \A o \in DOMAIN s1[s] : s1[s][o] # t.id
  BY <1>2 DEF Memory!IInv, Memory!TurnsApart, Memory!RowsInRuns
<1>9. t.first \in O /\ t.first + t.size - 1 \in O /\ O \subseteq Nat
  BY <1>3
<1>10. Memory!Shaped'
  <2>1. s1' = [z \in Session |-> s1'[z]] /\ \A z \in Session : DOMAIN s1'[z] \subseteq Nat
    <3>1. DOMAIN s1'[s] \subseteq Nat
      BY <1>3, <1>4, <1>9
    <3>2. \A z \in Session : z # s => DOMAIN s1'[z] \subseteq Nat
      BY <1>4 DEF Memory!IInv, Memory!Shaped
    <3> QED
      BY <1>4, <3>1, <3>2
  <2>2. s2' = [q \in Process |-> [z \in Session |-> s2'[q][z]]]
    BY <1>6
  <2>3. \A e \in s3' : e.id \in 1 .. s4' /\ e.by \in Process /\ e.size \in Lengths
    BY <1>1, <1>3, <1>5, <1>6 DEF Memory!IInv, Memory!Shaped
  <2>4. s4' \in Nat /\ s5' \in Nat
    BY <1>1 DEF Memory!IInv, Memory!Shaped
  <2> QED
    BY <2>1, <2>2, <2>3, <2>4 DEF Memory!Shaped
<1>11. Memory!RowsInRuns'
  <2>1. \A z \in Session : z # s => \A id : Memory!OrdinalsOf(z, id)' = Memory!OrdinalsOf(z, id)
    BY <1>4 DEF Memory!OrdinalsOf
  <2>2. \A id : id = t.id => Memory!OrdinalsOf(s, id)' = O
    <3> HIDE DEF O
    <3> QED
      BY <1>4, <1>8 DEF Memory!OrdinalsOf
  <2>3. \A id : id # t.id => Memory!OrdinalsOf(s, id)' = Memory!OrdinalsOf(s, id)
    <3> HIDE DEF O
    <3> QED
      BY <1>4 DEF Memory!OrdinalsOf
  <2>4. ASSUME NEW o \in DOMAIN s1'[s]
        PROVE  \E e \in s3' :
                  /\ e.id = s1'[s][o] /\ e.session = s /\ e.how = "stored" /\ e.size > 0
                  /\ \E first \in DOMAIN s1'[s] :
                        Memory!OrdinalsOf(s, e.id)' = first .. first + e.size - 1
    <3>1. CASE o \in O
      <4>1. \A id : id = g.id => Memory!OrdinalsOf(s, id)' = t.first .. t.first + g.size - 1
        BY <2>2, <1>5
      <4> HIDE DEF O
      <4> QED
        BY <3>1, <4>1, <1>3, <1>4, <1>5, <1>6, <1>9
    <3>2. CASE o \in DOMAIN s1[s]
      <4>1. PICK e \in s3 :
               /\ e.id = s1[s][o] /\ e.session = s /\ e.how = "stored" /\ e.size > 0
               /\ \E first \in DOMAIN s1[s] :
                     Memory!OrdinalsOf(s, e.id) = first .. first + e.size - 1
        BY <3>2 DEF Memory!IInv, Memory!RowsInRuns
      <4>2. Memory!OrdinalsOf(s, e.id)' = Memory!OrdinalsOf(s, e.id)
        BY <2>3, <1>8
      <4> HIDE DEF O
      <4> QED
        BY <3>2, <4>1, <4>2, <1>4, <1>6
    <3> QED
      BY <3>1, <3>2, <1>4
  <2>5. \E last \in DOMAIN s1'[s] : \A o \in DOMAIN s1'[s] : o <= last
    <3>1. \A o \in O : o <= t.first + t.size - 1
      BY <1>3
    <3>2. CASE s1[s] = <<>>
      <4>1. DOMAIN s1[s] = {}
        BY <3>2
      <4> HIDE DEF O
      <4> QED
        BY <4>1, <3>1, <1>4, <1>9
    <3>3. CASE s1[s] # <<>>
      <4>1. PICK last \in DOMAIN s1[s] : \A o \in DOMAIN s1[s] : o <= last
        BY <3>3 DEF Memory!IInv, Memory!RowsInRuns
      <4>2. last \in Nat /\ t.first + t.size - 1 \in Nat
        BY <1>3, <1>9
      <4>3. CASE last <= t.first + t.size - 1
        <5>1. \A o \in DOMAIN s1[s] : o <= t.first + t.size - 1
          BY <4>1, <4>2, <4>3, <1>3
        <5> HIDE DEF O
        <5> QED
          BY <5>1, <3>1, <1>4, <1>9
      <4>4. CASE t.first + t.size - 1 < last
        <5>1. \A o \in O : o <= last
          BY <4>2, <4>4, <1>3
        <5> HIDE DEF O
        <5> QED
          BY <5>1, <4>1, <1>4
      <4> QED
        BY <4>2, <4>3, <4>4
    <3> QED
      BY <3>2, <3>3
  <2>6. \A z \in Session : z # s =>
           /\ \A o \in DOMAIN s1'[z] : \E e \in s3' :
                 /\ e.id = s1'[z][o] /\ e.session = z /\ e.how = "stored" /\ e.size > 0
                 /\ \E first \in DOMAIN s1'[z] :
                       Memory!OrdinalsOf(z, e.id)' = first .. first + e.size - 1
           /\ s1'[z] # <<>> => \E last \in DOMAIN s1'[z] : \A o \in DOMAIN s1'[z] : o <= last
    BY <2>1, <1>4, <1>6 DEF Memory!IInv, Memory!RowsInRuns
  <2> QED
    BY <2>4, <2>5, <2>6 DEF Memory!RowsInRuns
<1>12. Memory!NothingMissing'
  <2> SUFFICES ASSUME s5 = 0, NEW z \in Session
               PROVE  /\ \A o \in DOMAIN s1'[z] : 0 .. o \subseteq DOMAIN s1'[z]
                      /\ \A e \in s3' : e.session = z /\ e.how = "stored" /\ e.size > 0
                            => e.id \in Memory!Written(z)'
                      /\ \A q \in Process : Memory!Inserting(q, z)' =>
                            0 .. s2'[q][z].first - 1 \subseteq DOMAIN s1'[z]
    BY <1>1 DEF Memory!NothingMissing
  <2>1. /\ \A o \in DOMAIN s1[z] : 0 .. o \subseteq DOMAIN s1[z]
        /\ \A e \in s3 : e.session = z /\ e.how = "stored" /\ e.size > 0
              => e.id \in Memory!Written(z)
        /\ \A q \in Process : Memory!Inserting(q, z) =>
              0 .. s2[q][z].first - 1 \subseteq DOMAIN s1[z]
    BY DEF Memory!IInv, Memory!NothingMissing
  <2>2. CASE z # s
    <3>1. Memory!Written(z)' = Memory!Written(z) /\ s1'[z] = s1[z]
      BY <2>2, <1>4 DEF Memory!Written
    <3> QED
      BY <2>1, <2>2, <3>1, <1>5, <1>6
  <2>3. CASE z = s
    <3>1. ASSUME NEW o \in O PROVE 0 .. o \subseteq DOMAIN s1[s] \cup O
      <4>1. 0 .. t.first - 1 \subseteq DOMAIN s1[s]
        BY <1>1, <2>1, <2>3
      <4>2. 0 .. o \subseteq (0 .. t.first - 1) \cup O
        BY <1>3
      <4> QED
        BY <4>1, <4>2
    <3>2. Memory!Written(s) \subseteq Memory!Written(s)' /\ t.id \in Memory!Written(s)'
      <4> HIDE DEF O
      <4> QED
        BY <1>4, <1>9 DEF Memory!Written
    <3> HIDE DEF O
    <3> QED
      BY <2>1, <2>3, <3>1, <3>2, <1>4, <1>5, <1>6
  <2> QED
    BY <2>2, <2>3
<1>13. Memory!OwnTurnsSeen'
  <2>1. ASSUME NEW q \in Process, NEW z \in Session, Memory!Inserting(q, z)',
               NEW o \in DOMAIN s1'[z], o >= s2'[q][z].first
        PROVE  \E e \in s3' : e.session = z /\ e.by # q
    <3>1. (q # p \/ z # s) /\ Memory!Inserting(q, z) /\ s2'[q][z] = s2[q][z]
      BY <2>1, <1>6
    <3>2. CASE o \in DOMAIN s1[z]
      BY <2>1, <3>1, <3>2, <1>6 DEF Memory!IInv, Memory!OwnTurnsSeen
    <3>3. CASE o \notin DOMAIN s1[z]
      BY <3>1, <3>3, <1>4, <1>5, <1>6
    <3> QED
      BY <3>2, <3>3
  <2>2. \A q \in Process, z \in Session : s5' = 0 /\ Memory!Open(q, z)' =>
           \A e \in s3' : e.session = z /\ e.by = q /\ e.how = "stored" /\ e.size > 0
              => e.id \in {s2'[q][z].read[o] : o \in DOMAIN s2'[q][z].read}
    BY <1>1, <1>5, <1>6 DEF Memory!IInv, Memory!OwnTurnsSeen
  <2> QED
    BY <2>1, <2>2 DEF Memory!OwnTurnsSeen
<1> QED
  BY <1>7, <1>10, <1>11, <1>12, <1>13 DEF Memory!IInv

(* The ordinals were taken after the SELECT, by a turn of another process. *)
LEMMA MemoryInsertFails ==
    ASSUME Memory!IInv, NEW p \in Process, NEW s \in Session, Memory!InsertFails(p, s)
    PROVE  Memory!IInv'
<1> DEFINE how == IF Memory!Taken(p, s) THEN "collided" ELSE "raised"
<1>1. /\ Memory!Inserting(p, s) /\ Memory!Open(p, s) /\ Memory!End(p, s, how)
      /\ UNCHANGED <<s1, s4, s5>>
  BY DEF Memory!InsertFails, Memory!Inserting, Memory!Open
<1>2. ASSUME how = "collided" PROVE \E f \in s3 : f.session = s /\ f.by # p
  <2>1. PICK o \in DOMAIN s1[s] : o >= s2[p][s].first
    <3>1. s2[p][s].first \in Nat /\ s2[p][s].size \in Nat
      BY <1>1, LengthsAssumption DEF Memory!IInv, Memory!TurnsApart
    <3> QED
      BY <1>2, <3>1 DEF Memory!Taken, Memory!Ordinals
  <2> QED
    BY <2>1, <1>1 DEF Memory!IInv, Memory!OwnTurnsSeen
<1>3. how # "stored"
  OBVIOUS
<1> HIDE DEF how
<1> QED
  BY <1>1, <1>2, <1>3, EndWithoutRows

(* Memory!IInv is inductive. *)
LEMMA MemoryStep ==
    ASSUME Memory!IInv, [Memory!Next]_(Memory!vars)
    PROVE  Memory!IInv'
<1>1. ASSUME NEW p \in Process, NEW s \in Session,
             Memory!Begin(p, s) \/ Memory!BodyBreaks(p, s) \/ Memory!NothingNew(p, s)
             \/ Memory!SelectMax(p, s) \/ Memory!Insert(p, s) \/ Memory!InsertFails(p, s)
      PROVE  Memory!IInv'
  <2>1. CASE Memory!Begin(p, s)
    BY <2>1, MemoryBegin
  <2>2. CASE Memory!BodyBreaks(p, s)
    <3>1. /\ Memory!Open(p, s) /\ Memory!End(p, s, "raised")
          /\ s1' = s1 /\ s4' = s4 /\ s5' = s5
      BY <2>2 DEF Memory!BodyBreaks, Memory!Open
    <3> QED
      BY <3>1, EndWithoutRows
  <2>3. CASE Memory!NothingNew(p, s)
    <3>1. /\ Memory!Open(p, s) /\ Memory!End(p, s, "stored") /\ s2[p][s].size = 0
          /\ s1' = s1 /\ s4' = s4 /\ s5' = s5
      BY <2>3 DEF Memory!NothingNew, Memory!Open
    <3> QED
      BY <3>1, EndWithoutRows
  <2>4. CASE Memory!SelectMax(p, s)
    BY <2>4, MemorySelectMax
  <2>5. CASE Memory!Insert(p, s)
    BY <2>5, MemoryInsert
  <2>6. CASE Memory!InsertFails(p, s)
    BY <2>6, MemoryInsertFails
  <2> QED
    BY <1>1, <2>1, <2>2, <2>3, <2>4, <2>5, <2>6
<1>2. ASSUME NEW s \in Session, Memory!Delete(s) PROVE Memory!IInv'
  BY <1>2, MemoryDelete
<1>3. ASSUME NEW p \in Process, Memory!Crash(p) PROVE Memory!IInv'
  BY <1>3, MemoryCrash
<1>4. CASE UNCHANGED Memory!vars
  <2> USE <1>4 DEF Memory!vars, Memory!IInv
  <2>1. \A q \in Process, z \in Session :
           (Memory!Open(q, z)' <=> Memory!Open(q, z))
           /\ (Memory!Inserting(q, z)' <=> Memory!Inserting(q, z))
    BY DEF Memory!Open, Memory!Inserting
  <2>2. \A id : \A z \in Session :
           Memory!OrdinalsOf(z, id)' = Memory!OrdinalsOf(z, id)
           /\ Memory!Written(z)' = Memory!Written(z)
    BY DEF Memory!OrdinalsOf, Memory!Written
  <2>3. Memory!Shaped' /\ Memory!LostToAnotherProcess'
    BY DEF Memory!Shaped, Memory!LostToAnotherProcess
  <2>4. Memory!TurnsApart'
    BY <2>1 DEF Memory!TurnsApart
  <2>5. Memory!RowsInRuns'
    BY <2>2 DEF Memory!RowsInRuns
  <2>6. Memory!NothingMissing' /\ Memory!OwnTurnsSeen'
    BY <2>1, <2>2 DEF Memory!NothingMissing, Memory!OwnTurnsSeen
  <2> QED
    BY <2>3, <2>4, <2>5, <2>6
<1> QED
  BY <1>1, <1>2, <1>3, <1>4 DEF Memory!Next

(* The rows of a turn are as many as its messages, and end size - 1 after the
   first; before the first delete the rows of a session are without a gap. *)
LEMMA MemoryWhole == ASSUME Memory!IInv PROVE Memory!TurnsAreWhole
<1> USE LengthsAssumption
<1>1. \A S : Memory!Cardinality(S) = Cardinality(S)
  BY DEF Memory!Cardinality, Cardinality
<1>2. \A S \in SUBSET Int : \A m \in S : (\A x \in S : x <= m) => Memory!Max(S) = m
  <2> SUFFICES ASSUME NEW S \in SUBSET Int, NEW m \in S, \A x \in S : x <= m
               PROVE  Memory!Max(S) = m
    OBVIOUS
  <2>1. Memory!Max(S) \in S /\ \A y \in S : Memory!Max(S) >= y
    <3>1. \E x \in S : \A y \in S : x >= y
      OBVIOUS
    <3> QED
      BY <3>1 DEF Memory!Max
  <2>2. /\ Memory!Max(S) \in Int /\ m \in Int
        /\ Memory!Max(S) >= m /\ m >= Memory!Max(S)
    BY <2>1
  <2> QED
    BY <2>2
<1>3. \A S \in SUBSET Int : \A m \in S : (\A x \in S : m <= x) => Memory!Min(S) = m
  <2> SUFFICES ASSUME NEW S \in SUBSET Int, NEW m \in S, \A x \in S : m <= x
               PROVE  Memory!Min(S) = m
    OBVIOUS
  <2>1. Memory!Min(S) \in S /\ \A y \in S : Memory!Min(S) <= y
    <3>1. \E x \in S : \A y \in S : x <= y
      OBVIOUS
    <3> QED
      BY <3>1 DEF Memory!Min
  <2>2. /\ Memory!Min(S) \in Int /\ m \in Int
        /\ Memory!Min(S) >= m /\ m >= Memory!Min(S)
    BY <2>1
  <2> QED
    BY <2>2
<1>4. ASSUME NEW s \in Session, NEW id \in Memory!Written(s)
      PROVE  /\ \E e \in s3 : e.id = id /\ e.session = s /\ e.how = "stored"
             /\ Memory!Cardinality(Memory!OrdinalsOf(s, id)) = Memory!EndOf(id).size
             /\ Memory!Max(Memory!OrdinalsOf(s, id)) - Memory!Min(Memory!OrdinalsOf(s, id))
                   = Memory!EndOf(id).size - 1
  <2>1. PICK e \in s3 :
           /\ e.id = id /\ e.session = s /\ e.how = "stored" /\ e.size > 0
           /\ \E first \in DOMAIN s1[s] : Memory!OrdinalsOf(s, id) = first .. first + e.size - 1
    BY <1>4 DEF Memory!Written, Memory!IInv, Memory!RowsInRuns
  <2>2. PICK first \in DOMAIN s1[s] : Memory!OrdinalsOf(s, id) = first .. first + e.size - 1
    BY <2>1
  <2>3. first \in Nat /\ e.size \in Nat
    BY <2>1 DEF Memory!IInv, Memory!Shaped
  <2>4. Memory!EndOf(id) = e
    BY <2>1 DEF Memory!EndOf, Memory!IInv, Memory!TurnsApart
  <2>5. Cardinality(first .. first + e.size - 1) = e.size
    <3>1. first \in Int /\ first + e.size - 1 \in Int /\ ~(first > first + e.size - 1)
      BY <2>1, <2>3
    <3>2. Cardinality(first .. first + e.size - 1) = (first + e.size - 1) - first + 1
      BY <3>1, FS_Interval
    <3> QED
      BY <2>3, <3>2
  <2> DEFINE run == first .. first + e.size - 1
  <2>6. /\ run \in SUBSET Int /\ first \in run /\ first + e.size - 1 \in run
        /\ \A o \in run : first <= o /\ o <= first + e.size - 1
    BY <2>1, <2>3
  <2>7. Memory!Max(run) = first + e.size - 1 /\ Memory!Min(run) = first
    <3> HIDE DEF run
    <3> QED
      BY <2>6, <1>2, <1>3
  <2> QED
    BY <1>1, <2>1, <2>2, <2>3, <2>4, <2>5, <2>6, <2>7
<1>5. ASSUME NEW s \in Session, s5 = 0
      PROVE  /\ DOMAIN s1[s] = 0 .. Memory!Cardinality(DOMAIN s1[s]) - 1
             /\ \A e \in s3 : e.session = s /\ e.how = "stored" /\ e.size > 0
                   => e.id \in Memory!Written(s)
  <2>1. CASE s1[s] = <<>>
    <3>1. DOMAIN s1[s] = {} /\ Cardinality({}) = 0
      BY <2>1, FS_EmptySet
    <3> QED
      BY <3>1, <1>1, <1>5 DEF Memory!IInv, Memory!NothingMissing
  <2>2. CASE s1[s] # <<>>
    <3>1. PICK last \in DOMAIN s1[s] : \A o \in DOMAIN s1[s] : o <= last
      BY <2>2 DEF Memory!IInv, Memory!RowsInRuns
    <3>2. DOMAIN s1[s] \subseteq Nat /\ 0 .. last \subseteq DOMAIN s1[s]
      BY <1>5 DEF Memory!IInv, Memory!Shaped, Memory!NothingMissing
    <3>3. DOMAIN s1[s] = 0 .. last
      <4>1. \A o \in DOMAIN s1[s] : o \in Nat /\ o <= last
        BY <3>1, <3>2
      <4>2. last \in Nat
        BY <3>1, <3>2
      <4>3. \A o : o \in DOMAIN s1[s] => o \in 0 .. last
        BY <4>1, <4>2
      <4> QED
        BY <4>3, <3>2
    <3>4. Cardinality(0 .. last) = last + 1
      BY <3>1, <3>2, FS_Interval
    <3> QED
      BY <3>1, <3>2, <3>3, <3>4, <1>1, <1>5 DEF Memory!IInv, Memory!NothingMissing
  <2> QED
    BY <2>1, <2>2
<1> QED
  BY <1>4, <1>5 DEF Memory!TurnsAreWhole

-----------------------------------------------------------------------------
(* Recoverable threads.  Here s1 = interrupting, s2 = order, s3 = saved,   *)
(* s4 = run, s5 = asked, s6 = reply, s7 = loose, s8 = answered.            *)

(* What QuestionSaved says of one thread, and QuestionsPlaced of one question. *)
QuestionOf(t) ==
    /\ s5[t] # Threads!Empty =>
          t \in Threads!ToSet(s2) /\ s3[t].next /\ s3[t].input = s5[t]
    /\ \A c, d \in Threads!UnderWay(t) : c = d
    /\ \A c \in Threads!UnderWay(t) :
          /\ s4[c].phase = "node" /\ s5[t] # Threads!Empty => s4[c].input = s5[t]
          /\ s4[c].phase = "begun" /\ ~s4[c].resumes /\ s4[c].input = Threads!Empty =>
                s5[t] = Threads!Empty
    /\ Threads!UnderWay(t) = {} /\ s6[t] = "completed" => s5[t] = Threads!Empty

PlaceOf(q) ==
    /\ s4[q].phase \in {"idle", "begun"} => q \notin s8
    /\ \A t \in Thread : Threads!Holds(t, q) =>
          /\ s4[q].phase \notin {"idle", "begun"} /\ s4[q].thread = t
          /\ s3[t].next => q \notin s8
    /\ \A c \in Threads!Invocation : Threads!Works(c, q) =>
          s4[q].phase \notin {"idle", "begun"} /\ s4[q].thread = s4[c].thread

Inputs ==
    /\ s8 \subseteq Threads!Invocation
    /\ \A t \in Threads!ToSet(s2) :
          s3[t].input \in {Threads!Empty} \cup Threads!Invocation
    /\ \A c \in Threads!Invocation :
          /\ s4[c].phase = "node" =>
                s4[c].input \in {Threads!Empty} \cup Threads!Invocation
          /\ s4[c].phase = "begun" => s4[c].input \in {Threads!Empty, c}

LEMMA ThreadsParts ==
    /\ Threads!QuestionSaved <=> \A t \in Thread \ s7 : QuestionOf(t)
    /\ Threads!QuestionsPlaced <=> Inputs /\ \A q \in Threads!Invocation : PlaceOf(q)
BY DEF Threads!QuestionSaved, Threads!QuestionsPlaced, QuestionOf, PlaceOf, Inputs

(* A save keeps the checkpoints of the threads that were not dropped. *)
LEMMA SaveKeeps ==
    ASSUME Threads!Shaped, NEW t \in Thread, NEW c, NEW sure, Threads!Save(t, c, sure)
    PROVE  /\ s2' \in Seq(Thread) /\ s3' = [u \in Threads!ToSet(s2)' |-> s3'[u]]
           /\ s7 \ sure \subseteq s7'
           /\ t \notin s7' => t \in Threads!ToSet(s2)'
           /\ \A u \in Thread : u \notin s7' /\ u \in Threads!ToSet(s2) => u \in Threads!ToSet(s2)'
           /\ \A u \in Threads!ToSet(s2)' :
                 IF u = t THEN s3'[u] = c ELSE u \in Threads!ToSet(s2) /\ s3'[u] = s3[u]
<1> DEFINE known == IF t \in DOMAIN s3 THEN s2 ELSE Append(s2, t)
           kept  == IF Len(known) > MaxEntries THEN Tail(known) ELSE known
<1>1. /\ s2' = kept
      /\ s3' = [u \in Threads!ToSet(kept) |-> IF u = t THEN c ELSE s3[u]]
      /\ s7' = (s7 \ sure) \cup (Threads!ToSet(known) \ Threads!ToSet(kept))
  BY DEF Threads!Save
<1>2. s2 \in Seq(Thread) /\ DOMAIN s3 = Threads!ToSet(s2)
  BY DEF Threads!Shaped
<1>3. known \in Seq(Thread) /\ Threads!ToSet(known) = Threads!ToSet(s2) \cup {t}
  <2>1. CASE t \in DOMAIN s3
    BY <2>1, <1>2
  <2>2. CASE t \notin DOMAIN s3
    <3>1. /\ known = Append(s2, t) /\ known \in Seq(Thread) /\ Len(known) = Len(s2) + 1
          /\ known[Len(s2) + 1] = t /\ \A i \in 1 .. Len(s2) : known[i] = s2[i]
      BY <2>2, <1>2
    <3>2. DOMAIN known = 1 .. Len(s2) + 1 /\ DOMAIN s2 = 1 .. Len(s2) /\ Len(s2) \in Nat
      BY <3>1, <1>2
    <3> HIDE DEF known
    <3> QED
      BY <3>1, <3>2 DEF Threads!ToSet
  <2> QED
    BY <2>1, <2>2
<1> HIDE DEF known
<1>4. kept \in Seq(Thread) /\ Threads!ToSet(kept) \subseteq Threads!ToSet(known)
  <2>1. CASE known = <<>> \/ kept = known
    BY <2>1, <1>3 DEF Threads!ToSet
  <2>2. CASE known # <<>> /\ kept = Tail(known)
    <3>1. /\ kept \in Seq(Thread) /\ Len(kept) = Len(known) - 1 /\ Len(known) \in Nat
          /\ DOMAIN kept = 1 .. Len(kept) /\ DOMAIN known = 1 .. Len(known)
      BY <2>2, <1>3, HeadTailProperties
    <3>2. \A i \in 1 .. Len(kept) : kept[i] = known[i + 1]
      BY <2>2, <3>1, <1>3, HeadTailProperties
    <3> HIDE DEF kept
    <3>3. \A i \in 1 .. Len(kept) : i + 1 \in 1 .. Len(known)
      BY <3>1
    <3> QED
      BY <3>1, <3>2, <3>3 DEF Threads!ToSet
  <2> QED
    BY <2>1, <2>2
<1> HIDE DEF kept
<1>5. \A u : u \notin s7' /\ u \in Threads!ToSet(known) => u \in Threads!ToSet(kept)
  BY <1>1
<1>6. Threads!ToSet(s2)' = Threads!ToSet(kept)
  BY <1>1 DEF Threads!ToSet
<1> QED
  BY <1>1, <1>3, <1>4, <1>5, <1>6

(* A call moves on: only its thread may notice. *)
LEMMA CallMoves ==
    ASSUME Threads!Shaped, NEW c \in Threads!Invocation, NEW t \in Thread, NEW r,
           s4' = [s4 EXCEPT ![c] = r], r.thread = t, r.phase # "idle",
           s4[c] = Threads!Idle \/ s4[c].thread = t
    PROVE  /\ s4'[c] = r /\ s4' = [d \in Threads!Invocation |-> s4'[d]]
           /\ \A d \in Threads!Invocation : s4'[d] # Threads!Idle => s4'[d].thread \in Thread
           /\ \A d \in Threads!Invocation : d # c => s4'[d] = s4[d]
           /\ \A u \in Thread : u # t =>
                 Threads!UnderWay(u)' = Threads!UnderWay(u) /\ c \notin Threads!UnderWay(u)
           /\ Threads!UnderWay(t)' = IF r.phase \in {"begun", "node", "check"}
                                     THEN Threads!UnderWay(t) \cup {c}
                                     ELSE Threads!UnderWay(t) \ {c}
<1>1. s4 = [d \in Threads!Invocation |-> s4[d]]
      /\ \A d \in Threads!Invocation : s4[d] # Threads!Idle => s4[d].thread \in Thread
  BY DEF Threads!Shaped
<1>2. s4'[c] = r /\ s4' = [d \in Threads!Invocation |-> s4'[d]]
      /\ \A d \in Threads!Invocation : d # c => s4'[d] = s4[d]
  BY <1>1
<1>3. Threads!Idle.phase = "idle"
  BY DEF Threads!Idle
<1>4. \A d \in Threads!Invocation : s4'[d] # Threads!Idle => s4'[d].thread \in Thread
  BY <1>1, <1>2
<1>5. ASSUME NEW u \in Thread, u # t
      PROVE  Threads!UnderWay(u)' = Threads!UnderWay(u) /\ c \notin Threads!UnderWay(u)
  BY <1>2, <1>3, <1>5 DEF Threads!UnderWay
<1>6. Threads!UnderWay(t)' = IF r.phase \in {"begun", "node", "check"}
                             THEN Threads!UnderWay(t) \cup {c} ELSE Threads!UnderWay(t) \ {c}
  BY <1>2, <1>3 DEF Threads!UnderWay
<1> QED
  BY <1>2, <1>4, <1>5, <1>6

(* A step that one thread notices keeps what is known of the others. *)
LEMMA OtherThreads ==
    ASSUME Threads!QuestionSaved, NEW c \in Threads!Invocation, NEW t \in Thread,
           \A d \in Threads!Invocation : d # c => s4'[d] = s4[d],
           \A u \in Thread : u # t =>
               Threads!UnderWay(u)' = Threads!UnderWay(u) /\ c \notin Threads!UnderWay(u),
           \A u \in Thread : u # t => s5'[u] = s5[u] /\ s6'[u] = s6[u],
           \A u \in Thread : u # t /\ u \notin s7' =>
               u \notin s7 /\ (u \in Threads!ToSet(s2) =>
                                 u \in Threads!ToSet(s2)' /\ s3'[u] = s3[u]),
           t \notin s7' => QuestionOf(t)'
    PROVE  Threads!QuestionSaved'
<1>1. ASSUME NEW u \in Thread \ s7', u # t PROVE QuestionOf(u)'
  <2>1. u \notin s7 /\ QuestionOf(u)
    BY <1>1, ThreadsParts
  <2>2. \A d \in Threads!UnderWay(u) : s4'[d] = s4[d]
    BY <1>1 DEF Threads!UnderWay
  <2>3. /\ Threads!UnderWay(u)' = Threads!UnderWay(u) /\ s5'[u] = s5[u] /\ s6'[u] = s6[u]
        /\ u \in Threads!ToSet(s2) => u \in Threads!ToSet(s2)' /\ s3'[u] = s3[u]
    BY <1>1
  <2> QED
    BY <2>1, <2>2, <2>3 DEF QuestionOf
<1>2. \A u \in Thread \ s7' : QuestionOf(u)'
  BY <1>1
<1> QED
  BY <1>2 DEF Threads!QuestionSaved, QuestionOf

(* At first no thread runs and none is saved. *)
LEMMA ThreadsInit == Threads!Init => Threads!IInv
<1> SUFFICES ASSUME Threads!Init PROVE Threads!IInv
  OBVIOUS
<1>1. /\ s2 = <<>> /\ s2 \in Seq(Thread) /\ Threads!ToSet(s2) = {}
      /\ s4 = [c \in Threads!Invocation |-> Threads!Idle]
      /\ s5 = [t \in Thread |-> Threads!Empty] /\ s8 = {}
  BY DEF Threads!Init, Threads!ToSet
<1>2. Threads!Idle.phase = "idle"
  BY DEF Threads!Idle
<1>3. Threads!Shaped
  BY <1>1 DEF Threads!Init, Threads!Shaped
<1>4. Threads!QuestionSaved
  BY <1>1, <1>2 DEF Threads!QuestionSaved, Threads!UnderWay
<1>5. Threads!QuestionsPlaced
  BY <1>1, <1>2 DEF Threads!QuestionsPlaced, Threads!Holds, Threads!Works
<1> QED
  BY <1>3, <1>4, <1>5 DEF Threads!IInv

(* A request that begins is in the way of the others of its thread. *)
LEMMA ThreadsBegin ==
    ASSUME Threads!IInv, NEW c \in Threads!Invocation, NEW t \in Thread,
           NEW input \in {c, Threads!Empty}, Threads!Begin(c, t, input)
    PROVE  Threads!IInv'
<1> DEFINE r == [phase |-> "begun", thread |-> t, input |-> input,
                 resumes |-> Threads!Resumes(t, input)]
<1>1. /\ s4[c] = Threads!Idle /\ s4' = [s4 EXCEPT ![c] = r] /\ UNCHANGED <<s2, s3, s5, s8>>
      /\ s6' = [s6 EXCEPT ![t] = "none"]
      /\ s7' = IF Threads!UnderWay(t) = {} THEN s7 ELSE s7 \cup {t}
  BY DEF Threads!Begin
<1>2. /\ r.phase = "begun" /\ r.thread = t /\ r.input = input
      /\ r.resumes = Threads!Resumes(t, input)
  OBVIOUS
<1> HIDE DEF r
<1>3. Threads!Shaped /\ Threads!QuestionSaved /\ Threads!QuestionsPlaced /\ s4[c].phase = "idle"
  BY <1>1 DEF Threads!IInv, Threads!Idle
<1>4. /\ s4'[c] = r /\ s4' = [d \in Threads!Invocation |-> s4'[d]]
      /\ \A d \in Threads!Invocation : s4'[d] # Threads!Idle => s4'[d].thread \in Thread
      /\ \A d \in Threads!Invocation : d # c => s4'[d] = s4[d]
      /\ \A u \in Thread : u # t =>
            Threads!UnderWay(u)' = Threads!UnderWay(u) /\ c \notin Threads!UnderWay(u)
      /\ Threads!UnderWay(t)' = Threads!UnderWay(t) \cup {c}
  BY <1>1, <1>2, <1>3, CallMoves
<1>5. Threads!ToSet(s2)' = Threads!ToSet(s2)
  BY <1>1 DEF Threads!ToSet
<1>6. s6' = [u \in Thread |-> s6'[u]] /\ \A u \in Thread : u # t => s6'[u] = s6[u]
  BY <1>1, <1>3 DEF Threads!Shaped
<1>7. Threads!Shaped'
  BY <1>1, <1>3, <1>4, <1>5, <1>6 DEF Threads!Shaped
<1>8. ASSUME t \notin s7' PROVE QuestionOf(t)'
  <2>1. Threads!UnderWay(t) = {} /\ t \notin s7 /\ QuestionOf(t)
    BY <1>1, <1>3, <1>8, ThreadsParts
  <2>2. Threads!UnderWay(t)' = {c}
    BY <1>4, <2>1
  <2>3. input = Threads!Empty /\ ~Threads!Resumes(t, input) => s5[t] = Threads!Empty
    BY <1>3, <2>1 DEF Threads!Shaped, QuestionOf, Threads!Resumes, Threads!Pending
  <2> QED
    BY <1>1, <1>2, <1>4, <1>5, <2>1, <2>2, <2>3 DEF QuestionOf
<1>9. Threads!QuestionSaved'
  <2>1. \A u \in Thread : u # t => s5'[u] = s5[u] /\ s6'[u] = s6[u]
    BY <1>1, <1>6
  <2>2. \A u \in Thread : u # t /\ u \notin s7' =>
            u \notin s7 /\ (u \in Threads!ToSet(s2) => u \in Threads!ToSet(s2)' /\ s3'[u] = s3[u])
    BY <1>1, <1>5
  <2> QED
    BY <1>3, <1>4, <1>8, <2>1, <2>2, OtherThreads
<1>10. Inputs'
  BY <1>1, <1>2, <1>3, <1>4, <1>5, ThreadsParts DEF Inputs
<1>11. ASSUME NEW q \in Threads!Invocation PROVE PlaceOf(q)'
  <2>1. PlaceOf(q)
    BY <1>3, ThreadsParts
  <2>2. \A u : Threads!Holds(u, q)' <=> Threads!Holds(u, q)
    BY <1>1, <1>5 DEF Threads!Holds
  <2>3. \A d \in Threads!Invocation : Threads!Works(d, q)' => d # c /\ Threads!Works(d, q)
    BY <1>2, <1>4 DEF Threads!Works
  <2>4. q # c => s4'[q] = s4[q]
    BY <1>4
  <2> QED
    BY <1>1, <1>2, <1>3, <1>4, <2>1, <2>2, <2>3, <2>4 DEF PlaceOf
<1>12. Threads!QuestionsPlaced'
  BY <1>10, <1>11 DEF Threads!QuestionsPlaced, Inputs, PlaceOf
<1> QED
  BY <1>7, <1>9, <1>12 DEF Threads!IInv

(* A new turn: the only call of its thread knows of its question. *)
LEMMA ThreadsInvoke ==
    ASSUME Threads!IInv, NEW c \in Threads!Invocation, Threads!Invoke(c)
    PROVE  Threads!IInv'
<1> SUFFICES ASSUME NEW t, t = s4[c].thread, NEW input, input = s4[c].input
             PROVE  Threads!IInv'
  OBVIOUS
<1> DEFINE k == [input |-> input, next |-> TRUE]
           sure == IF input # Threads!Empty /\ Threads!UnderWay(t) = {c} THEN {t} ELSE {}
           r == [phase |-> IF s1 THEN "check" ELSE "node", thread |-> t, input |-> input]
<1>1. /\ s4[c].phase = "begun" /\ ~s4[c].resumes /\ s4' = [s4 EXCEPT ![c] = r]
      /\ Threads!Save(t, k, sure) /\ UNCHANGED <<s6, s8>>
      /\ s5' = [s5 EXCEPT ![t] = IF input = Threads!Empty THEN s5[t] ELSE input]
  BY DEF Threads!Invoke, Threads!At
<1>2. /\ r.phase \in {"check", "node"} /\ r.thread = t /\ r.input = input
      /\ k.input = input /\ k.next
  OBVIOUS
<1>3. Threads!Shaped /\ Threads!QuestionSaved /\ Threads!QuestionsPlaced /\ t \in Thread
  BY <1>1 DEF Threads!IInv, Threads!Shaped, Threads!Idle
<1>4. c \in Threads!UnderWay(t) /\ input \in {Threads!Empty, c} /\ c # Threads!Empty
  BY <1>1, <1>3, ThreadsParts DEF Inputs, Threads!UnderWay, Threads!Invocation, Threads!Empty
<1>5. sure \subseteq {t}
  OBVIOUS
<1>6. t \notin s7' => t \notin s7 \/ (input # Threads!Empty /\ Threads!UnderWay(t) = {c})
  BY <1>1, <1>3, SaveKeeps
<1> HIDE DEF k, sure, r
<1>7. /\ s2' \in Seq(Thread) /\ s3' = [u \in Threads!ToSet(s2)' |-> s3'[u]]
      /\ s7 \ sure \subseteq s7'
      /\ t \notin s7' => t \in Threads!ToSet(s2)'
      /\ \A u \in Thread : u \notin s7' /\ u \in Threads!ToSet(s2) => u \in Threads!ToSet(s2)'
      /\ \A u \in Threads!ToSet(s2)' :
            IF u = t THEN s3'[u] = k ELSE u \in Threads!ToSet(s2) /\ s3'[u] = s3[u]
  BY <1>1, <1>3, SaveKeeps
<1>8. /\ s4'[c] = r /\ s4' = [d \in Threads!Invocation |-> s4'[d]]
      /\ \A d \in Threads!Invocation : s4'[d] # Threads!Idle => s4'[d].thread \in Thread
      /\ \A d \in Threads!Invocation : d # c => s4'[d] = s4[d]
      /\ \A u \in Thread : u # t =>
            Threads!UnderWay(u)' = Threads!UnderWay(u) /\ c \notin Threads!UnderWay(u)
      /\ Threads!UnderWay(t)' = Threads!UnderWay(t)
  <2>1. s4[c].thread = t /\ r.phase # "idle"
    BY <1>2
  <2>2. Threads!UnderWay(t) \cup {c} = Threads!UnderWay(t)
    BY <1>4
  <2>3. r.phase \in {"begun", "node", "check"}
    BY <1>2
  <2> QED
    BY <1>1, <1>2, <1>3, <2>1, <2>2, <2>3, CallMoves
<1>9. /\ s5' = [u \in Thread |-> s5'[u]] /\ \A u \in Thread : u # t => s5'[u] = s5[u]
      /\ s5'[t] = IF input = Threads!Empty THEN s5[t] ELSE input
  BY <1>1, <1>3 DEF Threads!Shaped
<1>10. Threads!Shaped'
  BY <1>1, <1>3, <1>7, <1>8, <1>9 DEF Threads!Shaped
<1>11. ASSUME t \notin s7' PROVE QuestionOf(t)'
  <2>1. t \in Threads!ToSet(s2)' /\ s3'[t].next /\ s3'[t].input = input
    BY <1>2, <1>7, <1>11
  <2>2. CASE input # Threads!Empty /\ Threads!UnderWay(t) = {c}
    BY <1>1, <1>2, <1>8, <1>9, <2>1, <2>2 DEF QuestionOf
  <2>3. CASE t \notin s7 /\ ~(input # Threads!Empty /\ Threads!UnderWay(t) = {c})
    <3>1. QuestionOf(t)
      BY <1>3, <2>3, ThreadsParts
    <3>2. Threads!UnderWay(t) = {c} /\ input = Threads!Empty /\ s5[t] = Threads!Empty
      BY <1>1, <1>4, <2>3, <3>1 DEF QuestionOf
    <3> QED
      BY <1>1, <1>2, <1>8, <1>9, <2>1, <3>2 DEF QuestionOf
  <2> QED
    BY <1>6, <1>11, <2>2, <2>3
<1>12. Threads!QuestionSaved'
  <2>1. \A u \in Thread : u # t => s5'[u] = s5[u] /\ s6'[u] = s6[u]
    BY <1>1, <1>9
  <2>2. \A u \in Thread : u # t /\ u \notin s7' =>
            u \notin s7 /\ (u \in Threads!ToSet(s2) => u \in Threads!ToSet(s2)' /\ s3'[u] = s3[u])
    BY <1>5, <1>7
  <2> QED
    BY <1>3, <1>8, <1>11, <2>1, <2>2, OtherThreads
<1>13. Inputs'
  BY <1>1, <1>2, <1>3, <1>4, <1>7, <1>8, ThreadsParts DEF Inputs
<1>14. ASSUME NEW q \in Threads!Invocation PROVE PlaceOf(q)'
  <2>1. PlaceOf(q) /\ PlaceOf(c)
    BY <1>3, ThreadsParts
  <2>2. q # Threads!Empty
    BY DEF Threads!Invocation, Threads!Empty
  <2>3. ASSUME NEW u \in Thread, Threads!Holds(u, q)'
        PROVE  (u = t /\ q = c) \/ (u # t /\ Threads!Holds(u, q) /\ s3'[u] = s3[u])
    BY <1>2, <1>4, <1>7, <2>2, <2>3 DEF Threads!Holds
  <2>4. ASSUME NEW d \in Threads!Invocation, Threads!Works(d, q)'
        PROVE  (d = c /\ q = c) \/ (d # c /\ Threads!Works(d, q) /\ s4'[d] = s4[d])
    BY <1>2, <1>4, <1>8, <2>2, <2>4 DEF Threads!Works
  <2>5. CASE q = c
    <3>1. /\ s4'[c].phase \notin {"idle", "begun"} /\ s4'[c].thread = t /\ c \notin s8'
          /\ \A u : u \in Thread => ~Threads!Holds(u, c)
          /\ \A d \in Threads!Invocation : ~Threads!Works(d, c)
      BY <1>1, <1>2, <1>8, <2>1 DEF PlaceOf
    <3> QED
      BY <2>3, <2>4, <2>5, <3>1 DEF PlaceOf
  <2>6. CASE q # c
    <3>1. s4'[q] = s4[q] /\ s8' = s8
      BY <1>1, <1>8, <2>6
    <3> QED
      BY <2>1, <2>3, <2>4, <2>6, <3>1 DEF PlaceOf
  <2> QED
    BY <2>5, <2>6
<1>15. Threads!QuestionsPlaced'
  BY <1>13, <1>14 DEF Threads!QuestionsPlaced, Inputs, PlaceOf
<1> QED
  BY <1>10, <1>12, <1>15 DEF Threads!IInv

(* A resume: the node gets the question that is saved, and nothing else changes. *)
LEMMA ThreadsResume ==
    ASSUME Threads!IInv, NEW c \in Threads!Invocation, Threads!Resume(c)
    PROVE  Threads!IInv'
<1> SUFFICES ASSUME NEW t, t = s4[c].thread PROVE Threads!IInv'
  OBVIOUS
<1>1. /\ s4[c].phase = "begun" /\ UNCHANGED <<s2, s3, s5, s7, s8>>
      /\ Threads!Shaped /\ Threads!QuestionSaved /\ Threads!QuestionsPlaced /\ t \in Thread
      /\ c \in Threads!UnderWay(t)
  BY DEF Threads!IInv, Threads!Shaped, Threads!Resume, Threads!Idle, Threads!UnderWay
<1>2. PICK r : /\ s4' = [s4 EXCEPT ![c] = r] /\ r.thread = t
               /\ \/ /\ r.phase = "node" /\ r.input = s3[t].input
                     /\ t \in Threads!ToSet(s2) /\ s6' = s6
                  \/ r.phase = "check" /\ s6' = s6
                  \/ r.phase = "over" /\ s6' = [s6 EXCEPT ![t] = "model_error"]
  <2>1. DOMAIN s3 = Threads!ToSet(s2)
    BY <1>1 DEF Threads!Shaped
  <2>2. CASE Threads!Pending(t) /\ Threads!At(c, "node", s3[t].input) /\ UNCHANGED s6
    <3> DEFINE r == [phase |-> "node", thread |-> t, input |-> s3[t].input]
    <3>1. s4' = [s4 EXCEPT ![c] = r] /\ t \in Threads!ToSet(s2) /\ s6' = s6
      BY <2>1, <2>2 DEF Threads!At, Threads!Pending
    <3>2. r.thread = t /\ r.phase = "node" /\ r.input = s3[t].input
      OBVIOUS
    <3> HIDE DEF r
    <3> QED
      BY <3>1, <3>2
  <2>3. CASE Threads!At(c, "check", Threads!Empty) /\ UNCHANGED s6
    <3> DEFINE r == [phase |-> "check", thread |-> t, input |-> Threads!Empty]
    <3>1. s4' = [s4 EXCEPT ![c] = r] /\ s6' = s6
      BY <2>3 DEF Threads!At
    <3>2. r.thread = t /\ r.phase = "check"
      OBVIOUS
    <3> HIDE DEF r
    <3> QED
      BY <3>1, <3>2
  <2>4. CASE Threads!Reply(c, "model_error")
    <3> DEFINE r == Threads!Over(t)
    <3>1. s4' = [s4 EXCEPT ![c] = r] /\ s6' = [s6 EXCEPT ![t] = "model_error"]
      BY <2>4 DEF Threads!Reply
    <3>2. r.thread = t /\ r.phase = "over"
      BY DEF Threads!Over
    <3> HIDE DEF r
    <3> QED
      BY <3>1, <3>2
  <2> QED
    BY <2>2, <2>3, <2>4 DEF Threads!Resume
<1>3. /\ s4'[c] = r /\ s4' = [d \in Threads!Invocation |-> s4'[d]]
      /\ \A d \in Threads!Invocation : s4'[d] # Threads!Idle => s4'[d].thread \in Thread
      /\ \A d \in Threads!Invocation : d # c => s4'[d] = s4[d]
      /\ \A u \in Thread : u # t =>
            Threads!UnderWay(u)' = Threads!UnderWay(u) /\ c \notin Threads!UnderWay(u)
      /\ Threads!UnderWay(t)' = IF r.phase \in {"begun", "node", "check"}
                                THEN Threads!UnderWay(t) \cup {c}
                                ELSE Threads!UnderWay(t) \ {c}
  <2>1. r.phase # "idle"
    BY <1>2
  <2> QED
    BY <1>1, <1>2, <2>1, CallMoves
<1>4. Threads!ToSet(s2)' = Threads!ToSet(s2)
  BY <1>1 DEF Threads!ToSet
<1>5. /\ s6' = [u \in Thread |-> s6'[u]] /\ \A u \in Thread : u # t => s6'[u] = s6[u]
      /\ r.phase = "over" => s6'[t] = "model_error"
  BY <1>1, <1>2 DEF Threads!Shaped
<1>6. Threads!Shaped'
  BY <1>1, <1>3, <1>4, <1>5 DEF Threads!Shaped
<1>7. ASSUME t \notin s7' PROVE QuestionOf(t)'
  <2>1. QuestionOf(t) /\ Threads!UnderWay(t) = {c}
    BY <1>1, <1>7, ThreadsParts DEF QuestionOf
  <2>2. CASE r.phase \in {"node", "check"}
    <3>1. Threads!UnderWay(t)' = {c}
      BY <1>3, <2>1, <2>2
    <3> QED
      BY <1>1, <1>2, <1>3, <1>4, <2>1, <2>2, <3>1 DEF QuestionOf
  <2>3. CASE r.phase = "over"
    <3>1. Threads!UnderWay(t)' = {}
      BY <1>3, <2>1, <2>3
    <3> QED
      BY <1>1, <1>4, <1>5, <2>1, <2>3, <3>1 DEF QuestionOf
  <2> QED
    BY <1>2, <2>2, <2>3
<1>8. Threads!QuestionSaved'
  <2>1. \A u \in Thread : u # t => s5'[u] = s5[u] /\ s6'[u] = s6[u]
    BY <1>1, <1>5
  <2>2. \A u \in Thread : u # t /\ u \notin s7' =>
            u \notin s7 /\ (u \in Threads!ToSet(s2) => u \in Threads!ToSet(s2)' /\ s3'[u] = s3[u])
    BY <1>1, <1>4
  <2> QED
    BY <1>1, <1>3, <1>7, <2>1, <2>2, OtherThreads
<1>9. Inputs'
  BY <1>1, <1>2, <1>3, <1>4, ThreadsParts DEF Inputs
<1>10. ASSUME NEW q \in Threads!Invocation PROVE PlaceOf(q)'
  <2>1. PlaceOf(q) /\ PlaceOf(c)
    BY <1>1, ThreadsParts
  <2>2. \A u : (Threads!Holds(u, q)' <=> Threads!Holds(u, q)) /\ s3' = s3
    BY <1>1, <1>4 DEF Threads!Holds
  <2>3. ASSUME NEW d \in Threads!Invocation, Threads!Works(d, q)'
        PROVE  (d = c /\ Threads!Holds(t, q)) \/ (d # c /\ Threads!Works(d, q) /\ s4'[d] = s4[d])
    <3>1. CASE d = c
      BY <1>2, <1>3, <2>3, <3>1 DEF Threads!Works, Threads!Holds
    <3>2. CASE d # c
      BY <1>3, <2>3, <3>2 DEF Threads!Works
    <3> QED
      BY <3>1, <3>2
  <2>4. CASE q = c
    <3>1. /\ s4'[c].phase \notin {"idle", "begun"}
          /\ \A u \in Thread : ~Threads!Holds(u, c)
          /\ \A d \in Threads!Invocation : ~Threads!Works(d, c)
      BY <1>1, <1>2, <1>3, <2>1 DEF PlaceOf
    <3> QED
      BY <1>1, <2>2, <2>3, <2>4, <3>1 DEF PlaceOf
  <2>5. CASE q # c
    <3>1. s4'[q] = s4[q] /\ s8' = s8 /\ s4'[c].thread = t
      BY <1>1, <1>2, <1>3, <2>5
    <3> QED
      BY <1>1, <2>1, <2>2, <2>3, <3>1 DEF PlaceOf
  <2> QED
    BY <2>4, <2>5
<1>11. Threads!QuestionsPlaced'
  BY <1>9, <1>10 DEF Threads!QuestionsPlaced, Inputs, PlaceOf
<1> QED
  BY <1>6, <1>8, <1>11 DEF Threads!IInv

(* A node that ends answers its question, and saves the thread. *)
LEMMA ThreadsNodeEnds ==
    ASSUME Threads!IInv, NEW c \in Threads!Invocation, Threads!NodeEnds(c)
    PROVE  Threads!IInv'
<1> SUFFICES ASSUME NEW t, t = s4[c].thread, NEW input, input = s4[c].input
             PROVE  Threads!IInv'
  OBVIOUS
<1> DEFINE k == [input |-> input, next |-> FALSE]
           r == [phase |-> "check", thread |-> t, input |-> Threads!Empty]
<1>1. /\ s4[c].phase = "node" /\ s4' = [s4 EXCEPT ![c] = r]
      /\ Threads!Save(t, k, {}) /\ UNCHANGED <<s6>>
      /\ s5' = [s5 EXCEPT ![t] = IF s5[t] = input THEN Threads!Empty ELSE s5[t]]
      /\ s8' = s8 \cup ({input} \ {Threads!Empty})
  BY DEF Threads!NodeEnds, Threads!At
<1>2. r.phase = "check" /\ r.thread = t /\ k.input = input /\ ~k.next
  OBVIOUS
<1> HIDE DEF k, r
<1>3. /\ Threads!Shaped /\ Threads!QuestionSaved /\ Threads!QuestionsPlaced /\ t \in Thread
      /\ c \in Threads!UnderWay(t) /\ input \in {Threads!Empty} \cup Threads!Invocation
      /\ \A q \in Threads!Invocation : PlaceOf(q)
      /\ Inputs
  BY <1>1, ThreadsParts
     DEF Threads!IInv, Threads!Shaped, Threads!Idle, Threads!UnderWay, Inputs
<1>4. /\ s2' \in Seq(Thread) /\ s3' = [u \in Threads!ToSet(s2)' |-> s3'[u]]
      /\ s7 \ {} \subseteq s7'
      /\ \A u \in Thread : u \notin s7' /\ u \in Threads!ToSet(s2) => u \in Threads!ToSet(s2)'
      /\ \A u \in Threads!ToSet(s2)' :
            IF u = t THEN s3'[u] = k ELSE u \in Threads!ToSet(s2) /\ s3'[u] = s3[u]
  BY <1>1, <1>3, SaveKeeps
<1>5. /\ s4'[c] = r /\ s4' = [d \in Threads!Invocation |-> s4'[d]]
      /\ \A d \in Threads!Invocation : s4'[d] # Threads!Idle => s4'[d].thread \in Thread
      /\ \A d \in Threads!Invocation : d # c => s4'[d] = s4[d]
      /\ \A u \in Thread : u # t =>
            Threads!UnderWay(u)' = Threads!UnderWay(u) /\ c \notin Threads!UnderWay(u)
      /\ Threads!UnderWay(t)' = Threads!UnderWay(t)
  <2>1. s4[c].thread = t /\ r.phase # "idle" /\ r.phase \in {"begun", "node", "check"}
    BY <1>2
  <2>2. Threads!UnderWay(t) \cup {c} = Threads!UnderWay(t)
    BY <1>3
  <2> QED
    BY <1>1, <1>2, <1>3, <2>1, <2>2, CallMoves
<1>6. /\ s5' = [u \in Thread |-> s5'[u]] /\ \A u \in Thread : u # t => s5'[u] = s5[u]
      /\ s5'[t] = IF s5[t] = input THEN Threads!Empty ELSE s5[t]
  BY <1>1, <1>3 DEF Threads!Shaped
<1>7. Threads!Shaped'
  BY <1>1, <1>3, <1>4, <1>5, <1>6 DEF Threads!Shaped
<1>8. ASSUME t \notin s7' PROVE QuestionOf(t)'
  <2>1. QuestionOf(t)
    BY <1>3, <1>4, <1>8, ThreadsParts
  <2>2. Threads!UnderWay(t) = {c} /\ s5'[t] = Threads!Empty
    BY <1>1, <1>3, <1>6, <2>1 DEF QuestionOf
  <2> QED
    BY <1>1, <1>2, <1>5, <2>2 DEF QuestionOf
<1>9. Threads!QuestionSaved'
  <2>1. \A u \in Thread : u # t => s5'[u] = s5[u] /\ s6'[u] = s6[u]
    BY <1>1, <1>6
  <2>2. \A u \in Thread : u # t /\ u \notin s7' =>
            u \notin s7 /\ (u \in Threads!ToSet(s2) => u \in Threads!ToSet(s2)' /\ s3'[u] = s3[u])
    BY <1>4
  <2> QED
    BY <1>3, <1>5, <1>8, <2>1, <2>2, OtherThreads
<1>10. Inputs'
  <2>1. s8' \subseteq Threads!Invocation
    BY <1>1, <1>3 DEF Inputs
  <2>2. \A u \in Threads!ToSet(s2)' : s3'[u].input \in {Threads!Empty} \cup Threads!Invocation
    BY <1>2, <1>3, <1>4 DEF Inputs
  <2>3. \A d \in Threads!Invocation :
           /\ s4'[d].phase = "node" => s4'[d].input \in {Threads!Empty} \cup Threads!Invocation
           /\ s4'[d].phase = "begun" => s4'[d].input \in {Threads!Empty, d}
    BY <1>2, <1>3, <1>5 DEF Inputs
  <2> QED
    BY <2>1, <2>2, <2>3 DEF Inputs
<1>11. ASSUME NEW q \in Threads!Invocation PROVE PlaceOf(q)'
  <2>1. PlaceOf(q) /\ q # Threads!Empty
    BY <1>3 DEF Threads!Invocation, Threads!Empty
  <2>2. /\ s4'[q].phase \in {"idle", "begun"} => s4'[q] = s4[q]
        /\ s4[q].phase \notin {"idle", "begun"} =>
              s4'[q].phase \notin {"idle", "begun"} /\ s4'[q].thread = s4[q].thread
    BY <1>2, <1>5
  <2>3. \A d \in Threads!Invocation : s4'[d].thread = s4[d].thread
    BY <1>2, <1>5
  <2>4. q = input => Threads!Works(c, q)
    BY <1>1 DEF Threads!Works
  <2>5. ASSUME NEW u \in Thread, Threads!Holds(u, q)'
        PROVE  \/ u = t /\ q = input /\ ~s3'[u].next
               \/ u # t /\ Threads!Holds(u, q) /\ s3'[u] = s3[u]
    BY <1>2, <1>4, <2>5 DEF Threads!Holds
  <2>6. \A d \in Threads!Invocation : Threads!Works(d, q)' => Threads!Works(d, q)
    BY <1>2, <1>5 DEF Threads!Works
  <2>7. q \in s8' => q \in s8 \/ q = input
    BY <1>1
  <2>8. s4'[q].phase \in {"idle", "begun"} => q \notin s8'
    BY <1>3, <2>1, <2>2, <2>4, <2>7 DEF PlaceOf
  <2>9. ASSUME NEW u \in Thread, Threads!Holds(u, q)'
        PROVE  /\ s4'[q].phase \notin {"idle", "begun"} /\ s4'[q].thread = u
               /\ s3'[u].next => q \notin s8'
    BY <2>1, <2>2, <2>4, <2>5, <2>7, <2>9 DEF PlaceOf
  <2>10. \A d \in Threads!Invocation : Threads!Works(d, q)' =>
            s4'[q].phase \notin {"idle", "begun"} /\ s4'[q].thread = s4'[d].thread
    BY <2>1, <2>2, <2>3, <2>6 DEF PlaceOf
  <2> QED
    BY <2>8, <2>9, <2>10 DEF PlaceOf
<1>12. Threads!QuestionsPlaced'
  BY <1>10, <1>11 DEF Threads!QuestionsPlaced, Inputs, PlaceOf
<1> QED
  BY <1>7, <1>9, <1>12 DEF Threads!IInv

(* A call that is over leaves the checkpoint. *)
LEMMA ThreadsLeave ==
    ASSUME Threads!IInv, NEW c \in Threads!Invocation,
           Threads!Check(c) \/ Threads!NodeRaises(c) \/ Threads!Cancelled(c)
    PROVE  Threads!IInv'
<1> SUFFICES ASSUME NEW t, t = s4[c].thread PROVE Threads!IInv'
  OBVIOUS
<1> DEFINE r == Threads!Over(t)
<1>1. /\ s4[c].phase \in {"begun", "node", "check"} /\ UNCHANGED <<s2, s3, s5, s7, s8>>
      /\ s4' = [s4 EXCEPT ![c] = r]
  BY DEF Threads!Check, Threads!NodeRaises, Threads!Cancelled, Threads!Reply
<1>2. r.phase = "over" /\ r.thread = t
  BY DEF Threads!Over
<1> HIDE DEF r
<1>3. PICK reason : /\ s6' = [s6 EXCEPT ![t] = reason]
                    /\ reason = "completed" => ~Threads!Pending(t)
  <2>1. CASE Threads!Check(c)
    <3> DEFINE reason == IF Threads!Pending(t) THEN "interrupted" ELSE "completed"
    <3>1. s6' = [s6 EXCEPT ![t] = reason]
      BY <2>1 DEF Threads!Check, Threads!Reply
    <3>2. reason = "completed" => ~Threads!Pending(t)
      OBVIOUS
    <3> HIDE DEF reason
    <3> QED
      BY <3>1, <3>2
  <2>2. CASE Threads!NodeRaises(c)
    <3> DEFINE reason == "model_error"
    <3>1. s6' = [s6 EXCEPT ![t] = reason]
      BY <2>2 DEF Threads!NodeRaises, Threads!Reply
    <3>2. reason = "completed" => ~Threads!Pending(t)
      OBVIOUS
    <3> HIDE DEF reason
    <3> QED
      BY <3>1, <3>2
  <2>3. CASE Threads!Cancelled(c)
    <3> DEFINE reason == "none"
    <3>1. s6' = [s6 EXCEPT ![t] = reason]
      BY <2>3 DEF Threads!Cancelled, Threads!Reply
    <3>2. reason = "completed" => ~Threads!Pending(t)
      OBVIOUS
    <3> HIDE DEF reason
    <3> QED
      BY <3>1, <3>2
  <2> QED
    BY <2>1, <2>2, <2>3
<1>4. /\ Threads!Shaped /\ Threads!QuestionSaved /\ Threads!QuestionsPlaced /\ t \in Thread
      /\ c \in Threads!UnderWay(t)
  BY <1>1 DEF Threads!IInv, Threads!Shaped, Threads!Idle, Threads!UnderWay
<1>5. /\ s4'[c] = r /\ s4' = [d \in Threads!Invocation |-> s4'[d]]
      /\ \A d \in Threads!Invocation : s4'[d] # Threads!Idle => s4'[d].thread \in Thread
      /\ \A d \in Threads!Invocation : d # c => s4'[d] = s4[d]
      /\ \A u \in Thread : u # t =>
            Threads!UnderWay(u)' = Threads!UnderWay(u) /\ c \notin Threads!UnderWay(u)
      /\ Threads!UnderWay(t)' = Threads!UnderWay(t) \ {c}
  <2>1. s4[c].thread = t /\ r.phase # "idle" /\ r.phase \notin {"begun", "node", "check"}
    BY <1>2
  <2> QED
    BY <1>1, <1>2, <1>4, <2>1, CallMoves
<1>6. Threads!ToSet(s2)' = Threads!ToSet(s2)
  BY <1>1 DEF Threads!ToSet
<1>7. /\ s6' = [u \in Thread |-> s6'[u]] /\ \A u \in Thread : u # t => s6'[u] = s6[u]
      /\ s6'[t] = reason
  BY <1>3, <1>4 DEF Threads!Shaped
<1>8. Threads!Shaped'
  BY <1>1, <1>4, <1>5, <1>6, <1>7 DEF Threads!Shaped
<1>9. ASSUME t \notin s7' PROVE QuestionOf(t)'
  <2>1. QuestionOf(t) /\ Threads!UnderWay(t) = {c}
    BY <1>1, <1>4, <1>9, ThreadsParts DEF QuestionOf
  <2>2. Threads!UnderWay(t)' = {}
    BY <1>5, <2>1
  <2>3. reason = "completed" => s5[t] = Threads!Empty
    BY <1>3, <1>4, <2>1 DEF QuestionOf, Threads!Pending, Threads!Shaped
  <2> QED
    BY <1>1, <1>6, <1>7, <2>1, <2>2, <2>3 DEF QuestionOf
<1>10. Threads!QuestionSaved'
  <2>1. \A u \in Thread : u # t => s5'[u] = s5[u] /\ s6'[u] = s6[u]
    BY <1>1, <1>7
  <2>2. \A u \in Thread : u # t /\ u \notin s7' =>
            u \notin s7 /\ (u \in Threads!ToSet(s2) => u \in Threads!ToSet(s2)' /\ s3'[u] = s3[u])
    BY <1>1, <1>6
  <2> QED
    BY <1>4, <1>5, <1>9, <2>1, <2>2, OtherThreads
<1>11. Inputs'
  BY <1>1, <1>2, <1>4, <1>5, <1>6, ThreadsParts DEF Inputs
<1>12. ASSUME NEW q \in Threads!Invocation PROVE PlaceOf(q)'
  <2>1. PlaceOf(q)
    BY <1>4, ThreadsParts
  <2>2. \A u : (Threads!Holds(u, q)' <=> Threads!Holds(u, q)) /\ s3' = s3 /\ s8' = s8
    BY <1>1, <1>6 DEF Threads!Holds
  <2>3. /\ s4'[q].phase \in {"idle", "begun"} => s4'[q] = s4[q]
        /\ s4[q].phase \notin {"idle", "begun"} => s4'[q].phase \notin {"idle", "begun"}
    BY <1>2, <1>5
  <2>4. \A d \in Threads!Invocation : s4'[d].thread = s4[d].thread
    BY <1>2, <1>5
  <2>5. \A d \in Threads!Invocation : Threads!Works(d, q)' => Threads!Works(d, q)
    BY <1>2, <1>5 DEF Threads!Works
  <2> QED
    BY <2>1, <2>2, <2>3, <2>4, <2>5 DEF PlaceOf
<1>13. Threads!QuestionsPlaced'
  BY <1>11, <1>12 DEF Threads!QuestionsPlaced, Inputs, PlaceOf
<1> QED
  BY <1>8, <1>10, <1>13 DEF Threads!IInv

(* Threads!IInv is inductive. *)
LEMMA ThreadsStep ==
    ASSUME Threads!IInv, [Threads!Next]_(Threads!vars)
    PROVE  Threads!IInv'
<1>1. CASE Threads!Next
  <2>1. PICK c \in Threads!Invocation :
            \/ \E t \in Thread, input \in {c, Threads!Empty} : Threads!Begin(c, t, input)
            \/ Threads!Invoke(c) \/ Threads!Resume(c) \/ Threads!NodeEnds(c)
            \/ Threads!Check(c) \/ Threads!NodeRaises(c) \/ Threads!Cancelled(c)
    BY <1>1 DEF Threads!Next
  <2> QED
    BY <2>1, ThreadsBegin, ThreadsInvoke, ThreadsResume, ThreadsNodeEnds, ThreadsLeave
<1>2. CASE UNCHANGED Threads!vars
  <2>1. UNCHANGED <<s2, s3, s4, s5, s6, s7, s8>>
    BY <1>2 DEF Threads!vars
  <2>2. Threads!ToSet(s2)' = Threads!ToSet(s2)
    BY <2>1 DEF Threads!ToSet
  <2>3. \A t : Threads!UnderWay(t)' = Threads!UnderWay(t)
    BY <2>1 DEF Threads!UnderWay
  <2>4. Threads!Shaped'
    BY <2>1, <2>2 DEF Threads!IInv, Threads!Shaped
  <2>5. Threads!QuestionSaved'
    BY <2>1, <2>2, <2>3 DEF Threads!IInv, Threads!QuestionSaved
  <2>6. Threads!QuestionsPlaced'
    BY <2>1, <2>2 DEF Threads!IInv, Threads!QuestionsPlaced, Threads!Holds, Threads!Works
  <2> QED
    BY <2>4, <2>5, <2>6 DEF Threads!IInv
<1> QED
  BY <1>1, <1>2

(* A question is kept with its thread, and none that was answered waits. *)
LEMMA ThreadsKeep == ASSUME Threads!IInv PROVE Threads!ResumeKeepsQuestion
<1>1. Threads!Shaped /\ Threads!QuestionSaved /\ Inputs
      /\ \A q \in Threads!Invocation : PlaceOf(q)
  BY ThreadsParts DEF Threads!IInv
<1>2. s2 \in Seq(Thread) /\ DOMAIN s3 = Threads!ToSet(s2)
  BY <1>1 DEF Threads!Shaped
<1>3. ASSUME NEW t \in DOMAIN s3, s3[t].next PROVE s3[t].input \notin s8
  <2>1. t \in Thread
    BY <1>2, <1>3 DEF Threads!ToSet
  <2>2. ASSUME s3[t].input \in s8 PROVE FALSE
    <3>1. s3[t].input \in Threads!Invocation /\ Threads!Holds(t, s3[t].input)
      BY <1>1, <1>2, <1>3, <2>2 DEF Inputs, Threads!Holds
    <3> QED
      BY <1>1, <1>3, <2>1, <2>2, <3>1 DEF PlaceOf
  <2> QED
    BY <2>2
<1> QED
  BY <1>1, <1>2, <1>3
     DEF Threads!ResumeKeepsQuestion, Threads!QuestionSaved, Threads!Pending

-----------------------------------------------------------------------------
(* Governed tools.  Here s1 = setup, s2 = call, s3 = events,               *)
(* s4 = consented, s5 = ran, s6 = faults.                                  *)

(* Sequences of one and of two elements. *)
LEMMA ShortSeqs ==
    ASSUME NEW S, NEW a \in S, NEW b \in S
    PROVE  /\ <<a>> \in Seq(S) /\ <<a>> # <<>>
           /\ <<a, b>> \in Seq(S) /\ <<a, b>> # <<>>
OBVIOUS

(* The events that are recorded when a call starts and when it ends. *)
Kinds ==
    {<<"tool.start">>, <<"tool.denied", "tool.end denied">>,
     <<"tool.end completed">>, <<"tool.end error">>}

(* What a call reports is a sequence of events. *)
LEMMA KindsAreEvents == ASSUME NEW kinds \in Kinds PROVE kinds \in Seq(Gate!Event) /\ kinds # <<>>
<1>1. /\ "tool.start" \in Gate!Event /\ "tool.denied" \in Gate!Event
      /\ "tool.end denied" \in Gate!Event /\ "tool.end completed" \in Gate!Event
      /\ "tool.end error" \in Gate!Event
  BY DEF Gate!Event
<1>2. <<"tool.denied", "tool.end denied">> \in Seq(Gate!Event)
      /\ <<"tool.denied", "tool.end denied">> # <<>>
  BY <1>1, ShortSeqs
<1>3. <<"tool.start">> \in Seq(Gate!Event) /\ <<"tool.start">> # <<>>
  BY <1>1, ShortSeqs
<1>4. <<"tool.end completed">> \in Seq(Gate!Event) /\ <<"tool.end completed">> # <<>>
  BY <1>1, ShortSeqs
<1>5. <<"tool.end error">> \in Seq(Gate!Event) /\ <<"tool.end error">> # <<>>
  BY <1>1, ShortSeqs
<1>6. QED
  BY <1>2, <1>3, <1>4, <1>5 DEF Kinds

(* What _record does to the audit of one call, when no event was lost. *)
LEMMA RecordKeeps ==
    ASSUME Gate!TypeOK, NEW c \in Call, NEW kinds \in Kinds, Gate!Record(c, kinds)
    PROVE  /\ s3' \in [Call -> Seq(Gate!Event)]
           /\ s6' \in Nat
           /\ s6' = 0 => s6 = 0 /\ s3'[c] = s3[c] \o kinds
           /\ \A d \in Call \ {c} : s3'[d] = s3[d]
<1>1. s3[c] \in Seq(Gate!Event) /\ kinds \in Seq(Gate!Event) /\ Tail(kinds) \in Seq(Gate!Event)
  BY KindsAreEvents DEF Gate!TypeOK
<1>2. CASE s3' = [s3 EXCEPT ![c] = @ \o kinds] /\ UNCHANGED s6
  BY <1>1, <1>2 DEF Gate!TypeOK
<1>3. CASE /\ s6 < MaxFaults /\ s6' = s6 + 1
           /\ s3' = [s3 EXCEPT ![c] = @ \o Tail(kinds)]
  BY <1>1, <1>3 DEF Gate!TypeOK
<1>4. QED
  BY <1>2, <1>3 DEF Gate!Record

(* Audits that are joined, element by element. *)
LEMMA JoinedPair ==
    ASSUME NEW a, NEW b
    PROVE  <<a>> \o <<b>> = <<a, b>>
<1> DEFINE S == {a, b}
<1>0. a \in S /\ b \in S
  OBVIOUS
<1> HIDE DEF S
<1>1. <<a>> \in Seq(S) /\ <<b>> \in Seq(S) /\ <<a, b>> \in Seq(S)
  BY <1>0
<1>2. Len(<<a>>) = 1 /\ Len(<<b>>) = 1 /\ Len(<<a, b>>) = 2
  OBVIOUS
<1>3. /\ <<a>> \o <<b>> \in Seq(S) /\ Len(<<a>> \o <<b>>) = 2
      /\ (<<a>> \o <<b>>)[1] = <<a>>[1] /\ (<<a>> \o <<b>>)[2] = <<b>>[1]
  BY <1>1, <1>2, ConcatProperties
<1>4. \A i \in 1 .. Len(<<a>> \o <<b>>) : (<<a>> \o <<b>>)[i] = <<a, b>>[i]
  <2>1. <<a>>[1] = a /\ <<b>>[1] = b /\ <<a, b>>[1] = a /\ <<a, b>>[2] = b
    OBVIOUS
  <2>2. \A i \in 1 .. 2 : i = 1 \/ i = 2
    OBVIOUS
  <2>3. QED
    BY <1>3, <2>1, <2>2
<1>5. QED
  BY <1>1, <1>2, <1>3, <1>4, SeqEqual

(* One element before two. *)
LEMMA JoinedTriple ==
    ASSUME NEW a, NEW b, NEW c
    PROVE  <<a>> \o <<b, c>> = <<a, b, c>>
<1> DEFINE S == {a, b, c}
<1>0. a \in S /\ b \in S /\ c \in S
  OBVIOUS
<1> HIDE DEF S
<1>1. <<a>> \in Seq(S) /\ <<b, c>> \in Seq(S) /\ <<a, b, c>> \in Seq(S)
  BY <1>0
<1>2. Len(<<a>>) = 1 /\ Len(<<b, c>>) = 2 /\ Len(<<a, b, c>>) = 3
  OBVIOUS
<1>3. /\ <<a>> \o <<b, c>> \in Seq(S) /\ Len(<<a>> \o <<b, c>>) = 3
      /\ (<<a>> \o <<b, c>>)[1] = <<a>>[1]
      /\ (<<a>> \o <<b, c>>)[2] = <<b, c>>[1] /\ (<<a>> \o <<b, c>>)[3] = <<b, c>>[2]
  BY <1>1, <1>2, ConcatProperties
<1>4. \A i \in 1 .. Len(<<a>> \o <<b, c>>) : (<<a>> \o <<b, c>>)[i] = <<a, b, c>>[i]
  <2>1. /\ <<a>>[1] = a /\ <<b, c>>[1] = b /\ <<b, c>>[2] = c
        /\ <<a, b, c>>[1] = a /\ <<a, b, c>>[2] = b /\ <<a, b, c>>[3] = c
    OBVIOUS
  <2>2. \A i \in 1 .. 3 : i = 1 \/ i = 2 \/ i = 3
    OBVIOUS
  <2>3. QED
    BY <1>3, <2>1, <2>2
<1>5. QED
  BY <1>1, <1>2, <1>3, <1>4, SeqEqual

(* What a call can add to its audit when it ends. *)
LEMMA Audits ==
    /\ <<"tool.start">> \o <<"tool.denied", "tool.end denied">> = Gate!EventsOf("denied")
    /\ <<"tool.start">> \o <<"tool.end completed">> = Gate!EventsOf("ok")
    /\ <<"tool.start">> \o <<"tool.end error">> = Gate!EventsOf("error")
    /\ <<"tool.start">> \o <<"tool.end error">> = Gate!EventsOf("raised")
<1>1. <<"tool.start">> \o <<"tool.denied", "tool.end denied">>
         = <<"tool.start", "tool.denied", "tool.end denied">>
  BY JoinedTriple
<1>2. /\ <<"tool.start">> \o <<"tool.end completed">> = <<"tool.start", "tool.end completed">>
      /\ <<"tool.start">> \o <<"tool.end error">> = <<"tool.start", "tool.end error">>
  BY JoinedPair
<1>3. QED
  BY <1>1, <1>2 DEF Gate!EventsOf

(* At first no call was made. *)
LEMMA GateInit == Gate!Init => Gate!IInv
<1> SUFFICES ASSUME Gate!Init PROVE Gate!IInv
  OBVIOUS
<1>1. Gate!TypeOK
  BY DEF Gate!Init, Gate!TypeOK, Gate!CallRecord
<1>2. ASSUME NEW c \in Call PROVE Gate!Progressed(c) /\ Gate!Asked(c) /\ Gate!Reported(c)
  BY DEF Gate!Init, Gate!Progressed, Gate!Asked, Gate!Reported
<1>3. QED
  BY <1>1, <1>2 DEF Gate!IInv

(* A step of one call: what it says of that call is all there is to show. *)
LEMMA OneCall ==
    ASSUME Gate!IInv, NEW c \in Call, Gate!TypeOK',
           UNCHANGED s1, s6' = 0 => s6 = 0,
           \A d \in Call \ {c} :
              /\ s2'[d] = s2[d] /\ s3'[d] = s3[d]
              /\ d \in s5' <=> d \in s5
              /\ d \in s4' <=> d \in s4,
           Gate!Progressed(c)', Gate!Asked(c)', Gate!Reported(c)'
    PROVE  Gate!IInv'
<1>1. ASSUME NEW d \in Call \ {c} PROVE Gate!Progressed(d)' /\ Gate!Asked(d)' /\ Gate!Reported(d)'
  <2>1. Gate!Progressed(d) /\ Gate!Asked(d) /\ Gate!Reported(d)
    BY DEF Gate!IInv
  <2>2. Gate!Progressed(d)' /\ Gate!Asked(d)'
    BY <2>1 DEF Gate!Progressed, Gate!Asked
  <2>3. Gate!Reported(d)'
    BY <2>1 DEF Gate!Reported
  <2>4. QED
    BY <2>2, <2>3
<1>2. QED
  BY <1>1 DEF Gate!IInv

(* Gate!IInv is inductive. *)
LEMMA GateStep ==
    ASSUME Gate!IInv, [Gate!Next]_(Gate!vars)
    PROVE  Gate!IInv'
<1>1. CASE UNCHANGED Gate!vars
  BY <1>1 DEF Gate!vars, Gate!IInv, Gate!TypeOK, Gate!Progressed, Gate!Asked, Gate!Reported
<1>2. CASE Gate!Next
  <2>1. PICK c \in Call :
          \/ \E tool \in Gate!Tool : Gate!Start(c, tool)
          \/ Gate!Policy(c) \/ Gate!ApprovalBreaks(c) \/ Gate!Abandon(c)
          \/ \E yes \in BOOLEAN : Gate!Human(c, yes)
          \/ \E result \in {"ok", "error", "raised"} : Gate!Invoke(c, result)
    BY <1>2 DEF Gate!Next
  <2>2. Gate!TypeOK /\ Gate!Progressed(c) /\ Gate!Asked(c) /\ Gate!Reported(c)
    BY DEF Gate!IInv
  <2>3. /\ s2[c].phase # "idle" =>
              s2[c] \in [phase : {"policy", "human", "run", "over"}, tool : Gate!Tool,
                           awaited : BOOLEAN, result : Gate!Result]
        /\ c \in DOMAIN s2
    BY <2>2 DEF Gate!TypeOK, Gate!CallRecord
  <2>4. ASSUME NEW tool \in Gate!Tool, Gate!Start(c, tool) PROVE Gate!IInv'
    <3>1. Gate!Record(c, <<"tool.start">>) /\ <<"tool.start">> \in Kinds
      BY <2>4 DEF Gate!Start, Kinds
    <3>2. /\ s3' \in [Call -> Seq(Gate!Event)] /\ s6' \in Nat
          /\ s6' = 0 => s6 = 0 /\ s3'[c] = s3[c] \o <<"tool.start">>
          /\ \A d \in Call \ {c} : s3'[d] = s3[d]
      BY <2>2, <3>1, RecordKeeps
    <3>3. <<>> \o <<"tool.start">> = <<"tool.start">>
      BY ConcatEmptySeq, KindsAreEvents, <3>1
    <3>4. /\ s2'[c] = [phase |-> "policy", tool |-> tool, awaited |-> TRUE, result |-> "none"]
          /\ \A d \in Call \ {c} : s2'[d] = s2[d]
          /\ s2' \in [Call -> Gate!CallRecord]
      BY <2>4, <2>2 DEF Gate!Start, Gate!TypeOK, Gate!CallRecord, Gate!Result
    <3>5. Gate!TypeOK'
      BY <2>4, <2>2, <3>2, <3>4 DEF Gate!Start, Gate!TypeOK
    <3>6. Gate!Progressed(c)' /\ Gate!Asked(c)' /\ Gate!Reported(c)'
      BY <2>4, <2>2, <3>2, <3>3, <3>4 DEF Gate!Start, Gate!Progressed, Gate!Asked, Gate!Reported
    <3>7. QED
      BY <2>4, <3>2, <3>4, <3>5, <3>6, OneCall DEF Gate!Start
  <2>5. ASSUME NEW phase \in {"human", "run"}, s2[c].phase # "idle", Gate!Phase(c, phase)
        PROVE  /\ s2'[c] = [s2[c] EXCEPT !.phase = phase]
               /\ s2'[c].phase = phase /\ s2'[c].tool = s2[c].tool
               /\ \A d \in Call \ {c} : s2'[d] = s2[d]
               /\ s2' \in [Call -> Gate!CallRecord]
    BY <2>5, <2>2, <2>3 DEF Gate!Phase, Gate!TypeOK, Gate!CallRecord
  <2>6. ASSUME NEW result \in Gate!Result, s2[c].phase # "idle", Gate!Over(c, result)
        PROVE  /\ s2'[c].phase = "over" /\ s2'[c].result = result
               /\ s2'[c].tool = s2[c].tool
               /\ \A d \in Call \ {c} : s2'[d] = s2[d]
               /\ s2' \in [Call -> Gate!CallRecord]
    BY <2>6, <2>2, <2>3 DEF Gate!Over, Gate!TypeOK, Gate!CallRecord
  <2>7. ASSUME s2[c].phase \in {"policy", "human"}, Gate!Denied(c) PROVE Gate!IInv'
    <3>1. /\ Gate!Record(c, <<"tool.denied", "tool.end denied">>)
          /\ <<"tool.denied", "tool.end denied">> \in Kinds
      BY <2>7 DEF Gate!Denied, Kinds
    <3>2. /\ s3' \in [Call -> Seq(Gate!Event)] /\ s6' \in Nat
          /\ s6' = 0 =>
                /\ s6 = 0
                /\ s3'[c] = s3[c] \o <<"tool.denied", "tool.end denied">>
          /\ \A d \in Call \ {c} : s3'[d] = s3[d]
      BY <2>2, <3>1, RecordKeeps
    <3>3. /\ s2'[c].phase = "over" /\ s2'[c].result = "denied"
          /\ s2'[c].tool = s2[c].tool
          /\ \A d \in Call \ {c} : s2'[d] = s2[d]
          /\ s2' \in [Call -> Gate!CallRecord]
      BY <2>6, <2>7 DEF Gate!Denied, Gate!Result
    <3>4. Gate!TypeOK'
      BY <2>7, <2>2, <3>2, <3>3 DEF Gate!Denied, Gate!TypeOK
    <3>5. Gate!Progressed(c)' /\ Gate!Asked(c)' /\ Gate!Reported(c)'
      BY <2>7, <2>2, <3>2, <3>3, Audits
         DEF Gate!Denied, Gate!Progressed, Gate!Asked, Gate!Reported
    <3>6. QED
      BY <2>7, <3>2, <3>3, <3>4, <3>5, OneCall DEF Gate!Denied
  <2>8. ASSUME s2[c].phase \in {"policy", "human"},
               s2[c].tool \in Effectful => s1.human, Gate!Allowed(c)
        PROVE  Gate!IInv'
    <3>1. /\ s2'[c].phase = "run" /\ s2'[c].tool = s2[c].tool
          /\ \A d \in Call \ {c} : s2'[d] = s2[d]
          /\ s2' \in [Call -> Gate!CallRecord]
      BY <2>5, <2>8 DEF Gate!Allowed
    <3>2. Gate!TypeOK'
      BY <2>8, <2>2, <3>1 DEF Gate!Allowed, Gate!TypeOK
    <3>3. Gate!Progressed(c)' /\ Gate!Asked(c)' /\ Gate!Reported(c)'
      BY <2>8, <2>2, <3>1 DEF Gate!Allowed, Gate!Progressed, Gate!Asked, Gate!Reported
    <3>4. QED
      BY <2>8, <3>1, <3>2, <3>3, OneCall DEF Gate!Allowed
  <2>9. ASSUME Gate!Policy(c) PROVE Gate!IInv'
    <3>1. CASE s2[c].tool \in ReadOnly /\ Gate!Allowed(c)
      BY <2>8, <2>9, <3>1, EffectsAssumption DEF Gate!Policy
    <3>2. CASE s2[c].tool \in Effectful /\ ~s1.human /\ Gate!Denied(c)
      BY <2>7, <2>9, <3>2 DEF Gate!Policy
    <3>3. CASE /\ s2[c].tool \in Effectful /\ s1.human
               /\ Gate!Phase(c, "human")
               /\ UNCHANGED <<s1, s3, s4, s5, s6>>
      <4>1. /\ s2'[c].phase = "human" /\ s2'[c].tool = s2[c].tool
            /\ \A d \in Call \ {c} : s2'[d] = s2[d]
            /\ s2' \in [Call -> Gate!CallRecord]
        BY <2>5, <2>9, <3>3 DEF Gate!Policy
      <4>2. Gate!TypeOK'
        BY <2>2, <3>3, <4>1 DEF Gate!TypeOK
      <4>3. Gate!Progressed(c)' /\ Gate!Asked(c)' /\ Gate!Reported(c)'
        BY <2>2, <2>9, <3>3, <4>1 DEF Gate!Policy, Gate!Progressed, Gate!Asked, Gate!Reported
      <4>4. QED
        BY <3>3, <4>1, <4>2, <4>3, OneCall
    <3>4. QED
      BY <2>9, <3>1, <3>2, <3>3 DEF Gate!Policy
  <2>10. ASSUME NEW yes \in BOOLEAN, Gate!Human(c, yes) PROVE Gate!IInv'
    BY <2>2, <2>7, <2>8, <2>10 DEF Gate!Human, Gate!Asked
  <2>11. ASSUME NEW result \in {"ok", "error", "raised"}, Gate!Invoke(c, result) PROVE Gate!IInv'
    <3> DEFINE event == <<IF result = "ok" THEN "tool.end completed" ELSE "tool.end error">>
    <3>1. Gate!Record(c, event) /\ event \in Kinds
      BY <2>11 DEF Gate!Invoke, Kinds
    <3>2. <<"tool.start">> \o event = Gate!EventsOf(result)
      BY Audits
    <3> HIDE DEF event
    <3>3. /\ s3' \in [Call -> Seq(Gate!Event)] /\ s6' \in Nat
          /\ s6' = 0 => s6 = 0 /\ s3'[c] = s3[c] \o event
          /\ \A d \in Call \ {c} : s3'[d] = s3[d]
      BY <2>2, <3>1, RecordKeeps
    <3>4. /\ s2'[c].phase = "over" /\ s2'[c].result = result
          /\ s2'[c].tool = s2[c].tool
          /\ \A d \in Call \ {c} : s2'[d] = s2[d]
          /\ s2' \in [Call -> Gate!CallRecord]
      BY <2>6, <2>11 DEF Gate!Invoke, Gate!Result
    <3>5. Gate!TypeOK'
      BY <2>11, <2>2, <3>3, <3>4 DEF Gate!Invoke, Gate!TypeOK
    <3>6. Gate!Progressed(c)' /\ Gate!Asked(c)' /\ Gate!Reported(c)'
      BY <2>11, <2>2, <3>2, <3>3, <3>4
         DEF Gate!Invoke, Gate!Progressed, Gate!Asked, Gate!Reported
    <3>7. QED
      BY <2>11, <3>3, <3>4, <3>5, <3>6, OneCall DEF Gate!Invoke
  <2>12. ASSUME Gate!ApprovalBreaks(c) PROVE Gate!IInv'
    <3>1. Gate!Record(c, <<"tool.end error">>) /\ <<"tool.end error">> \in Kinds
      BY <2>12 DEF Gate!ApprovalBreaks, Kinds
    <3>2. /\ s3' \in [Call -> Seq(Gate!Event)] /\ s6' \in Nat
          /\ s6' = 0 => s6 = 0 /\ s3'[c] = s3[c] \o <<"tool.end error">>
          /\ \A d \in Call \ {c} : s3'[d] = s3[d]
      BY <2>2, <3>1, RecordKeeps
    <3>3. /\ s2'[c].phase = "over" /\ s2'[c].result = "raised"
          /\ s2'[c].tool = s2[c].tool
          /\ \A d \in Call \ {c} : s2'[d] = s2[d]
          /\ s2' \in [Call -> Gate!CallRecord]
      BY <2>6, <2>12 DEF Gate!ApprovalBreaks, Gate!Result
    <3>4. Gate!TypeOK'
      BY <2>12, <2>2, <3>2, <3>3 DEF Gate!ApprovalBreaks, Gate!TypeOK
    <3>5. Gate!Progressed(c)' /\ Gate!Asked(c)' /\ Gate!Reported(c)'
      BY <2>12, <2>2, <3>2, <3>3, Audits
         DEF Gate!ApprovalBreaks, Gate!Progressed, Gate!Asked, Gate!Reported
    <3>6. QED
      BY <2>12, <3>2, <3>3, <3>4, <3>5, OneCall DEF Gate!ApprovalBreaks
  <2>13. ASSUME Gate!Abandon(c) PROVE Gate!IInv'
    <3>1. /\ s2'[c].phase = s2[c].phase /\ s2'[c].tool = s2[c].tool
          /\ s2'[c].result = s2[c].result
          /\ \A d \in Call \ {c} : s2'[d] = s2[d]
          /\ s2' \in [Call -> Gate!CallRecord]
      BY <2>13, <2>2, <2>3 DEF Gate!Abandon, Gate!TypeOK, Gate!CallRecord
    <3>2. Gate!TypeOK'
      BY <2>13, <2>2, <3>1 DEF Gate!Abandon, Gate!TypeOK
    <3>3. Gate!Progressed(c)' /\ Gate!Asked(c)' /\ Gate!Reported(c)'
      BY <2>13, <2>2, <3>1 DEF Gate!Abandon, Gate!Progressed, Gate!Asked, Gate!Reported
    <3>4. QED
      BY <2>13, <3>1, <3>2, <3>3, OneCall DEF Gate!Abandon
  <2>14. QED
    BY <2>1, <2>4, <2>9, <2>10, <2>11, <2>12, <2>13
<1>3. QED
  BY <1>1, <1>2

(* What ConsentedAndAudited says follows. *)
LEMMA GateKeeps == ASSUME Gate!IInv PROVE Gate!ConsentedAndAudited
<1> SUFFICES ASSUME NEW c \in Call
             PROVE  /\ c \in s5 => c \in s4
                    /\ c \in s5 /\ s2[c].tool \in Effectful => s1.human
                    /\ s2[c].phase = "over" =>
                          /\ s2[c].result \in {"ok", "error"} => c \in s5
                          /\ s2[c].result = "denied" => c \notin s4
                          /\ s6 = 0 => s3[c] = Gate!EventsOf(s2[c].result)
  BY DEF Gate!ConsentedAndAudited
<1>1. Gate!Progressed(c) /\ Gate!Asked(c) /\ Gate!Reported(c)
  BY DEF Gate!IInv
<1> QED
  BY <1>1 DEF Gate!Progressed, Gate!Asked, Gate!Reported

-----------------------------------------------------------------------------
(* Token budget.  Here s1 = total, s2 = billed, s3 = late, s4 = run,        *)
(* s5 = begun.                                                             *)

(* The operators of the libraries that an instance repeats are the same. *)
LEMMA SameSum ==
    ASSUME NEW f, NEW D
    PROVE  Budget!SumFunctionOnSet(f, D) = SumFunctionOnSet(f, D)
BY Zenon DEF Budget!SumFunctionOnSet, Budget!FoldFunctionOnSet, Budget!MapThenFoldSet,
             SumFunctionOnSet, FoldFunctionOnSet, MapThenFoldSet

(* The cardinality of the library, seen through the instance. *)
LEMMA SameSize == Budget!Cardinality(Runs) = Cardinality(Runs)
BY DEF Budget!Cardinality, Cardinality

(* The room of the runs: they can cost no more than this. *)
LEMMA Room ==
    /\ Cardinality(Runs) \in Nat /\ MaxSteps * Cost \in Nat
    /\ Cardinality(Runs) * (MaxSteps * Cost) \in Nat
<1>1. Cardinality(Runs) \in Nat /\ Cost \in Nat /\ MaxSteps \in Nat
  BY BudgetAssumption, FS_CardinalityType
<1>2. \A m, n \in Nat : m * n \in Nat
  OBVIOUS
<1> QED
  BY <1>1, <1>2

(* What a run may cost, by its phase; never more than all its steps. *)
LEMMA LeftOf ==
    ASSUME Budget!Shaped
    PROVE  /\ Budget!Left \in [Runs -> Int]
           /\ \A r \in Runs :
                 /\ s4[r].phase \in {"idle", "stopped", "completed", "failed", "call", "backoff", "decide"}
                 /\ s4[r].phase \in {"call", "backoff", "decide"} => s4[r].calls \in 1 .. MaxSteps
                 /\ s4[r].phase \in {"call", "backoff"} =>
                       Budget!Left[r] = Cost * (MaxSteps - s4[r].calls + 1)
                 /\ s4[r].phase = "decide" => Budget!Left[r] = Cost * (MaxSteps - s4[r].calls)
                 /\ s4[r].phase \notin {"call", "backoff", "decide"} => Budget!Left[r] = 0
                 /\ 0 <= Budget!Left[r] /\ Budget!Left[r] <= MaxSteps * Cost
<1> SUFFICES ASSUME NEW r \in Runs
             PROVE  /\ Budget!Left[r] \in Int
                    /\ s4[r].phase \in {"idle", "stopped", "completed", "failed", "call", "backoff", "decide"}
                    /\ s4[r].phase \in {"call", "backoff", "decide"} => s4[r].calls \in 1 .. MaxSteps
                    /\ s4[r].phase \in {"call", "backoff"} =>
                          Budget!Left[r] = Cost * (MaxSteps - s4[r].calls + 1)
                    /\ s4[r].phase = "decide" => Budget!Left[r] = Cost * (MaxSteps - s4[r].calls)
                    /\ s4[r].phase \notin {"call", "backoff", "decide"} => Budget!Left[r] = 0
                    /\ 0 <= Budget!Left[r] /\ Budget!Left[r] <= MaxSteps * Cost
  BY DEF Budget!Left
<1>1. Cost \in Nat /\ MaxSteps \in Nat
  BY BudgetAssumption
<1>2. \/ s4[r] \in [phase : {"idle", "stopped", "completed", "failed"}]
      \/ s4[r] \in [phase : Budget!Made, calls : 1 .. MaxSteps, attempt : Nat]
  BY DEF Budget!Shaped
<1>3. /\ s4[r].phase \in {"idle", "stopped", "completed", "failed", "call", "backoff", "decide"}
      /\ s4[r].phase \in {"call", "backoff", "decide"} => s4[r].calls \in 1 .. MaxSteps
  BY <1>2 DEF Budget!Made
<1>4. \A n \in 0 .. MaxSteps : Cost * n \in Int /\ 0 <= Cost * n /\ Cost * n <= MaxSteps * Cost
  <2> SUFFICES ASSUME NEW n \in 0 .. MaxSteps
               PROVE  Cost * n \in Int /\ 0 <= Cost * n /\ Cost * n <= MaxSteps * Cost
    OBVIOUS
  <2>1. Cost * n \in Nat /\ Cost * (MaxSteps - n) \in Nat
    BY <1>1
  <2>2. MaxSteps * Cost = Cost * n + Cost * (MaxSteps - n)
    BY <1>1
  <2> QED
    BY <2>1, <2>2
<1>5. CASE s4[r].phase \in {"call", "backoff"}
  <2>1. Budget!Left[r] = Cost * (MaxSteps - s4[r].calls + 1)
    BY <1>5 DEF Budget!Left
  <2>2. MaxSteps - s4[r].calls + 1 \in 0 .. MaxSteps
    BY <1>1, <1>3, <1>5
  <2> QED
    BY <1>3, <1>4, <1>5, <2>1, <2>2
<1>6. CASE s4[r].phase = "decide"
  <2>1. Budget!Left[r] = Cost * (MaxSteps - s4[r].calls)
    BY <1>6 DEF Budget!Left
  <2>2. MaxSteps - s4[r].calls \in 0 .. MaxSteps
    BY <1>1, <1>3, <1>6
  <2> QED
    BY <1>3, <1>4, <1>6, <2>1, <2>2
<1>7. CASE s4[r].phase \notin {"call", "backoff", "decide"}
  <2>1. Budget!Left[r] = 0
    BY <1>7 DEF Budget!Left
  <2> QED
    BY <1>3, <1>7, <2>1, Room
<1> QED
  BY <1>5, <1>6, <1>7

(* The expected cost is what the sum of facts says. *)
LEMMA ExpectedSum ==
    ASSUME Budget!Shaped
    PROVE  /\ Budget!Expected = s1 + SumFunctionOnSet(Budget!Left, Runs)
           /\ SumFunctionOnSet(Budget!Left, Runs) \in Int
           /\ SumFunctionOnSet(Budget!Left, Runs) <= Cardinality(Runs) * (MaxSteps * Cost)
<1>1. Budget!Left \in [Runs -> Int] /\ \A r \in Runs : Budget!Left[r] <= MaxSteps * Cost
  BY LeftOf
<1>2. IsFiniteSet(Runs) /\ MaxSteps * Cost \in Int
  BY BudgetAssumption, Room
<1> QED
  BY <1>1, <1>2, SumBounded, SameSum DEF Budget!Expected

(* The same of the next state. *)
LEMMA ExpectedSumNext ==
    ASSUME Budget!Shaped'
    PROVE  /\ Budget!Expected' = s1' + SumFunctionOnSet(Budget!Left', Runs)
           /\ SumFunctionOnSet(Budget!Left', Runs) \in Int
           /\ SumFunctionOnSet(Budget!Left', Runs) <= Cardinality(Runs) * (MaxSteps * Cost)
           /\ Budget!Left' \in [Runs -> Int]
<1>1. (/\ Budget!Expected = s1 + SumFunctionOnSet(Budget!Left, Runs)
       /\ SumFunctionOnSet(Budget!Left, Runs) \in Int
       /\ SumFunctionOnSet(Budget!Left, Runs) <= Cardinality(Runs) * (MaxSteps * Cost)
       /\ Budget!Left \in [Runs -> Int])'
  BY ExpectedSum, LeftOf, PTL
<1> QED
  BY <1>1

(* A step that expects no more keeps the bound: d tokens are added to the total,
   and the run that took the step may cost d tokens less. *)
LEMMA NoMoreExpected ==
    ASSUME Budget!IInv, Budget!Shaped', NEW r \in Runs, NEW d \in Int, s1' <= s1 + d,
           \A q \in Runs \ {r} : s4'[q] = s4[q],
           Budget!Left'[r] + d <= Budget!Left[r],
           (s1 + s3 <= s2)'
    PROVE  Budget!IInv'
<1>1. Budget!Shaped /\ Budget!OverrunBounded
  BY DEF Budget!IInv
<1>2. Budget!Left \in [Runs -> Int] /\ Budget!Left' \in [Runs -> Int]
  BY <1>1, LeftOf, ExpectedSumNext
<1>3. \A q \in Runs : q # r => Budget!Left'[q] = Budget!Left[q]
  BY DEF Budget!Left
<1>4. SumFunctionOnSet(Budget!Left', Runs) + d <= SumFunctionOnSet(Budget!Left, Runs)
  <2>1. \A f, h \in [Runs -> Int] :
           h[r] + d <= f[r] /\ (\A q \in Runs : q # r => h[q] <= f[q])
             => SumFunctionOnSet(h, Runs) + d <= SumFunctionOnSet(f, Runs)
    BY SumMonotone, BudgetAssumption
  <2>2. \A q \in Runs : q # r => Budget!Left'[q] <= Budget!Left[q]
    BY <1>2, <1>3
  <2> QED
    BY <1>2, <2>1, <2>2
<1>5. s1 \in Nat /\ s1' \in Nat
  BY <1>1 DEF Budget!Shaped
<1>6. Budget!Expected' <= Budget!Expected /\ Budget!Expected \in Int /\ Budget!Expected' \in Int
  BY <1>1, <1>4, <1>5, ExpectedSum, ExpectedSumNext
<1>7. Budget!Expected' > 0 => Budget!Expected' < Limit + Cardinality(Runs) * (MaxSteps * Cost)
  <2>1. Budget!Expected > 0 => Budget!Expected < Limit + Cardinality(Runs) * (MaxSteps * Cost)
    BY <1>1, SameSize DEF Budget!OverrunBounded
  <2> QED
    BY <1>6, <2>1, Room, BudgetAssumption
<1> QED
  BY <1>7, SameSize DEF Budget!IInv, Budget!OverrunBounded

(* At first no run is expected to cost anything. *)
LEMMA BudgetInit == ASSUME Budget!Init PROVE Budget!IInv
<1>1. Budget!Shaped
  BY DEF Budget!Init, Budget!Shaped, Budget!Idle
<1>2. Budget!Left = [r \in Runs |-> 0]
  BY DEF Budget!Init, Budget!Left, Budget!Idle
<1>3. SumFunctionOnSet(Budget!Left, Runs) <= Cardinality(Runs) * 0
  BY <1>2, SumBounded, BudgetAssumption
<1>4. Cardinality(Runs) * 0 = 0
  BY Room
<1>5. ~(Budget!Expected > 0)
  BY <1>1, <1>3, <1>4, ExpectedSum DEF Budget!Init
<1> QED
  BY <1>1, <1>5 DEF Budget!Init, Budget!IInv, Budget!OverrunBounded

(* A run is let in below the limit, and all that is expected is less than all the
   runs could cost. *)
LEMMA BudgetBegin ==
    ASSUME Budget!IInv, NEW r \in Runs, Budget!Begin(r)
    PROVE  Budget!IInv'
<1>1. /\ Budget!Shaped /\ Budget!OverrunBounded /\ s1 \in Nat
      /\ s4[r].phase = "idle" /\ UNCHANGED <<s1, s2, s3>>
      /\ Budget!Set(r, IF Budget!Exhausted THEN [phase |-> "stopped"]
                       ELSE [phase |-> "call", calls |-> 1, attempt |-> 1])
  BY DEF Budget!Begin, Budget!IInv, Budget!Shaped
<1>2. \A q \in Runs \ {r} : s4'[q] = s4[q]
  BY <1>1 DEF Budget!Set, Budget!Shaped
<1>3. Budget!Shaped'
  <2>1. 1 \in 1 .. MaxSteps
    BY BudgetAssumption
  <2> QED
    BY <1>1, <2>1 DEF Budget!Shaped, Budget!Set, Budget!Made
<1>4. CASE Budget!Exhausted
  <2>1. s4'[r].phase = "stopped"
    BY <1>1, <1>4 DEF Budget!Set, Budget!Shaped
  <2>2. Budget!Left'[r] = 0 /\ Budget!Left[r] = 0
    BY <1>1, <2>1 DEF Budget!Left
  <2> QED
    BY <1>1, <1>2, <1>3, <2>2, NoMoreExpected DEF Budget!OverrunBounded
<1>5. CASE ~Budget!Exhausted
  <2>1. s1' < Limit
    BY <1>1, <1>5, BudgetAssumption DEF Budget!Exhausted
  <2>2. Budget!Expected' < Limit + Cardinality(Runs) * (MaxSteps * Cost)
    BY <1>1, <1>3, <2>1, ExpectedSumNext, Room, BudgetAssumption
  <2> QED
    BY <1>1, <1>3, <2>2, SameSize DEF Budget!IInv, Budget!OverrunBounded
<1> QED
  BY <1>4, <1>5

(* A step of a run that was let in, or its return, expects no more. *)
LEMMA BudgetProgress ==
    ASSUME Budget!IInv, NEW r \in Runs, Budget!Progress(r) \/ Budget!Return(r)
    PROVE  Budget!IInv'
<1>1. /\ Budget!Shaped /\ s1 + s3 <= s2 /\ s1 \in Nat /\ s2 \in Nat /\ s3 \in Nat
      /\ Cost \in Nat /\ MaxSteps \in Nat
  BY BudgetAssumption DEF Budget!IInv, Budget!Shaped, Budget!OverrunBounded
<1>2. \/ s4[r] \in [phase : {"idle", "stopped", "completed", "failed"}]
      \/ s4[r] \in [phase : Budget!Made, calls : 1 .. MaxSteps, attempt : Nat]
  BY <1>1 DEF Budget!Shaped
<1>3. ASSUME NEW v, Budget!Set(r, v)
      PROVE  /\ \A q \in Runs \ {r} : s4'[q] = s4[q]
             /\ s4'[r] = v
             /\ s1' \in Nat /\ s2' \in Nat /\ s3' \in Nat
                /\ (\/ v \in [phase : {"idle", "stopped", "completed", "failed"}]
                    \/ v \in [phase : Budget!Made, calls : 1 .. MaxSteps, attempt : Nat])
                  => Budget!Shaped'
  BY <1>1, <1>3 DEF Budget!Set, Budget!Shaped
<1>4. ASSUME NEW tokens \in 0 .. Cost, Budget!Answer(r, tokens) PROVE Budget!IInv'
  <2> DEFINE v == [s4[r] EXCEPT !.phase = "decide"]
  <2>1. /\ s4[r].phase = "call" /\ Budget!Set(r, v)
        /\ s2' = s2 + tokens /\ s1' = s1 + tokens /\ s3' = s3
    BY <1>4 DEF Budget!Answer
  <2>2. /\ v \in [phase : Budget!Made, calls : 1 .. MaxSteps, attempt : Nat]
        /\ v.phase = "decide" /\ v.calls = s4[r].calls /\ s4[r].calls \in 1 .. MaxSteps
    BY <1>2, <2>1 DEF Budget!Made
  <2> HIDE DEF v
  <2>3. Budget!Shaped' /\ s4'[r] = v /\ \A q \in Runs \ {r} : s4'[q] = s4[q]
    BY <1>1, <1>3, <2>1, <2>2
  <2>4. Budget!Left[r] = Cost * (MaxSteps - s4[r].calls + 1)
        /\ Budget!Left'[r] = Cost * (MaxSteps - s4[r].calls)
    BY <2>1, <2>2, <2>3 DEF Budget!Left
  <2>5. Budget!Left'[r] + tokens <= Budget!Left[r]
    <3>1. \A n \in Int : Cost * (n + 1) = Cost * n + Cost /\ Cost * n \in Int
      BY <1>1
    <3>2. PICK n \in Int : n = MaxSteps - s4[r].calls
      BY <1>1, <2>2
    <3>3. Budget!Left[r] = Cost * (n + 1) /\ Budget!Left'[r] = Cost * n
      BY <2>4, <3>2
    <3>4. Cost * (n + 1) = Cost * n + Cost /\ Cost * n \in Int
      BY <3>1
    <3> QED
      BY <1>1, <3>3, <3>4
  <2>6. (s1 + s3 <= s2)' /\ tokens \in Int /\ s1' <= s1 + tokens
    BY <1>1, <2>1
  <2> QED
    BY <2>3, <2>5, <2>6, NoMoreExpected
<1>5. ASSUME NEW v, Budget!Set(r, v), s1' = s1, s2' \in Nat, s3' \in Nat, (s1 + s3 <= s2)',
             v \in [phase : {"idle", "stopped", "completed", "failed"}]
             \/ /\ v \in [phase : Budget!Made, calls : 1 .. MaxSteps, attempt : Nat]
                /\ s4[r].phase \in {"call", "backoff"} /\ v.calls = s4[r].calls
             \/ /\ v \in [phase : Budget!Made, calls : 1 .. MaxSteps, attempt : Nat]
                /\ s4[r].phase = "decide" /\ v.calls = s4[r].calls + 1
      PROVE  Budget!IInv'
  <2>1. Budget!Shaped' /\ s4'[r] = v /\ \A q \in Runs \ {r} : s4'[q] = s4[q]
    BY <1>1, <1>3, <1>5
  <2>2. Budget!Left'[r] + 0 <= Budget!Left[r]
    <3>1. 0 <= Budget!Left[r] /\ Budget!Left[r] \in Int
      BY <1>1, LeftOf
    <3>2. CASE v \in [phase : {"idle", "stopped", "completed", "failed"}]
      <4>1. Budget!Left'[r] = 0
        BY <2>1, <3>2 DEF Budget!Left
      <4> QED
        BY <3>1, <4>1
    <3>3. CASE /\ v \in [phase : Budget!Made, calls : 1 .. MaxSteps, attempt : Nat]
               /\ s4[r].phase \in {"call", "backoff"} /\ v.calls = s4[r].calls
      <4>1. Budget!Left[r] = Cost * (MaxSteps - v.calls + 1)
        BY <3>3 DEF Budget!Left
      <4>2. Budget!Left'[r] = Cost * (MaxSteps - v.calls + 1)
               \/ Budget!Left'[r] = Cost * (MaxSteps - v.calls)
        BY <2>1, <3>3 DEF Budget!Left, Budget!Made
      <4>3. \A n \in Int : Cost * (n + 1) = Cost * n + Cost /\ Cost * n \in Int
        BY <1>1
      <4>4. PICK n \in Int : n = MaxSteps - v.calls
        BY <1>1, <3>3
      <4>5. /\ Budget!Left[r] = Cost * (n + 1)
            /\ Budget!Left'[r] = Cost * (n + 1) \/ Budget!Left'[r] = Cost * n
        BY <4>1, <4>2, <4>4
      <4>6. Cost * (n + 1) = Cost * n + Cost /\ Cost * n \in Int
        BY <4>3
      <4> QED
        BY <1>1, <4>5, <4>6
    <3>4. CASE /\ v \in [phase : Budget!Made, calls : 1 .. MaxSteps, attempt : Nat]
               /\ s4[r].phase = "decide" /\ v.calls = s4[r].calls + 1
      <4>1. Budget!Left[r] = Cost * (MaxSteps - s4[r].calls)
        BY <3>4 DEF Budget!Left
      <4>2. s4[r].calls \in 1 .. MaxSteps
        BY <1>2, <3>4 DEF Budget!Made
      <4>3. Budget!Left'[r] = Cost * (MaxSteps - v.calls + 1)
               \/ Budget!Left'[r] = Cost * (MaxSteps - v.calls)
        BY <2>1, <3>4 DEF Budget!Left, Budget!Made
      <4>4. \A n \in Int : Cost * (n + 1) = Cost * n + Cost /\ Cost * n \in Int
        BY <1>1
      <4>5. PICK n \in Int : n = MaxSteps - v.calls
        BY <1>1, <3>4, <4>2
      <4>6. MaxSteps - s4[r].calls = n + 1 /\ MaxSteps - v.calls + 1 = n + 1
        BY <1>1, <3>4, <4>2, <4>5
      <4>7. /\ Budget!Left[r] = Cost * (n + 1)
            /\ Budget!Left'[r] = Cost * (n + 1) \/ Budget!Left'[r] = Cost * n
        BY <4>1, <4>3, <4>5, <4>6
      <4>8. Cost * (n + 1) = Cost * n + Cost /\ Cost * n \in Int
        BY <4>4
      <4> QED
        BY <1>1, <4>7, <4>8
    <3> QED
      BY <1>5, <3>2, <3>3, <3>4
  <2>3. s1' <= s1 + 0
    BY <1>1, <1>5
  <2> QED
    BY <1>5, <2>1, <2>2, <2>3, NoMoreExpected
<1>6. s4[r].phase = "call" => Budget!Again(r) \in [phase : {"failed"}]
         \/ /\ Budget!Again(r) \in [phase : Budget!Made, calls : 1 .. MaxSteps, attempt : Nat]
            /\ Budget!Again(r).calls = s4[r].calls
  BY <1>2 DEF Budget!Again, Budget!Made
<1>7. ASSUME NEW tokens \in 0 .. Cost, Budget!Timeout(r, tokens) PROVE Budget!IInv'
  <2>1. /\ s4[r].phase = "call" /\ Budget!Set(r, Budget!Again(r)) /\ s1' = s1
        /\ s2' = s2 + tokens /\ s3' = s3 + tokens
    BY <1>7 DEF Budget!Timeout
  <2>2. (s1 + s3 <= s2)' /\ s2' \in Nat /\ s3' \in Nat
    BY <1>1, <2>1
  <2>3. \A v : v = Budget!Again(r) =>
           v \in [phase : {"idle", "stopped", "completed", "failed"}]
           \/ /\ v \in [phase : Budget!Made, calls : 1 .. MaxSteps, attempt : Nat]
              /\ s4[r].phase \in {"call", "backoff"} /\ v.calls = s4[r].calls
    BY <1>6, <2>1
  <2> QED
    BY <1>5, <2>1, <2>2, <2>3
<1>8. ASSUME UNCHANGED <<s1, s2, s3>>, NEW v, Budget!Set(r, v),
             v \in [phase : {"idle", "stopped", "completed", "failed"}]
             \/ /\ v \in [phase : Budget!Made, calls : 1 .. MaxSteps, attempt : Nat]
                /\ s4[r].phase \in {"call", "backoff"} /\ v.calls = s4[r].calls
             \/ /\ v \in [phase : Budget!Made, calls : 1 .. MaxSteps, attempt : Nat]
                /\ s4[r].phase = "decide" /\ v.calls = s4[r].calls + 1
      PROVE  Budget!IInv'
  BY <1>1, <1>5, <1>8
<1>9. ASSUME NEW retryable \in BOOLEAN, Budget!Raise(r, retryable) PROVE Budget!IInv'
  <2>1. CASE retryable
    <3>1. s4[r].phase = "call" /\ Budget!Set(r, Budget!Again(r)) /\ UNCHANGED <<s1, s2, s3>>
      BY <1>9, <2>1 DEF Budget!Raise
    <3> QED
      BY <1>6, <1>8, <3>1
  <2>2. CASE ~retryable
    <3>1. Budget!Set(r, [phase |-> "failed"]) /\ UNCHANGED <<s1, s2, s3>>
      BY <1>9, <2>2 DEF Budget!Raise
    <3> QED
      BY <1>8, <3>1
  <2> QED
    BY <2>1, <2>2
<1>10. CASE Budget!Retry(r)
  <2>1. /\ s4[r].phase = "backoff" /\ UNCHANGED <<s1, s2, s3>>
        /\ Budget!Set(r, [phase |-> "call", calls |-> s4[r].calls, attempt |-> s4[r].attempt + 1])
    BY <1>10 DEF Budget!Retry
  <2>2. s4[r] \in [phase : Budget!Made, calls : 1 .. MaxSteps, attempt : Nat]
    BY <1>2, <2>1
  <2>3. \A v : v = [phase |-> "call", calls |-> s4[r].calls, attempt |-> s4[r].attempt + 1] =>
           /\ v \in [phase : Budget!Made, calls : 1 .. MaxSteps, attempt : Nat]
           /\ v.calls = s4[r].calls
    BY <2>2 DEF Budget!Made
  <2> QED
    BY <1>8, <2>1, <2>3
<1>11. CASE Budget!CallAgain(r)
  <2>1. /\ s4[r].phase = "decide" /\ s4[r].calls < MaxSteps /\ UNCHANGED <<s1, s2, s3>>
        /\ Budget!Set(r, [phase |-> "call", calls |-> s4[r].calls + 1, attempt |-> 1])
    BY <1>11 DEF Budget!CallAgain
  <2>2. s4[r].calls + 1 \in 1 .. MaxSteps
    BY <1>1, <1>2, <2>1 DEF Budget!Made
  <2>3. \A v : v = [phase |-> "call", calls |-> s4[r].calls + 1, attempt |-> 1] =>
           /\ v \in [phase : Budget!Made, calls : 1 .. MaxSteps, attempt : Nat]
           /\ v.calls = s4[r].calls + 1
    BY <2>2 DEF Budget!Made
  <2> QED
    BY <1>8, <2>1, <2>3
<1>12. CASE Budget!Finish(r)
  <2>1. /\ UNCHANGED <<s1, s2, s3>>
        /\ Budget!Set(r, [phase |-> IF Budget!Exhausted THEN "stopped" ELSE "completed"])
    BY <1>12 DEF Budget!Finish
  <2> QED
    BY <1>8, <2>1
<1>13. CASE Budget!Return(r)
  <2>1. UNCHANGED <<s1, s2, s3>> /\ Budget!Set(r, [phase |-> "idle"])
    BY <1>13 DEF Budget!Return, Budget!Idle
  <2> QED
    BY <1>8, <2>1
<1> QED
  BY <1>4, <1>7, <1>9, <1>10, <1>11, <1>12, <1>13 DEF Budget!Progress

(* Budget!IInv is inductive. *)
LEMMA BudgetStep ==
    ASSUME Budget!IInv, [Budget!Next]_(Budget!vars)
    PROVE  Budget!IInv'
<1>1. CASE Budget!Reset
  <2>1. s1' = 0 /\ s1 > 0 /\ UNCHANGED <<s2, s3, s4>>
    BY <1>1 DEF Budget!Reset
  <2>2. Budget!Shaped /\ Budget!Shaped' /\ s1 + s3 <= s2 /\ s1 \in Nat /\ s3 \in Nat /\ s2 \in Nat
    BY <2>1 DEF Budget!IInv, Budget!Shaped, Budget!OverrunBounded
  <2>3. Budget!Left' = Budget!Left
    BY <2>1 DEF Budget!Left
  <2>4. Budget!Expected' <= Budget!Expected /\ Budget!Expected' \in Int /\ Budget!Expected \in Int
    BY <2>1, <2>2, <2>3, ExpectedSum, ExpectedSumNext
  <2>5. Budget!Expected > 0 => Budget!Expected < Limit + Cardinality(Runs) * (MaxSteps * Cost)
    BY SameSize DEF Budget!IInv, Budget!OverrunBounded
  <2>6. Budget!Expected' > 0 => Budget!Expected' < Limit + Cardinality(Runs) * (MaxSteps * Cost)
    BY <2>4, <2>5, Room, BudgetAssumption
  <2>7. (s1 + s3 <= s2)'
    BY <2>1, <2>2
  <2> QED
    BY <2>2, <2>6, <2>7, SameSize DEF Budget!IInv, Budget!OverrunBounded
<1>2. CASE UNCHANGED Budget!vars
  <2>1. UNCHANGED <<s1, s2, s3, s4>>
    BY <1>2 DEF Budget!vars
  <2>2. Budget!Left' = Budget!Left /\ Budget!Shaped /\ Budget!Shaped'
    BY <2>1 DEF Budget!Left, Budget!IInv, Budget!Shaped
  <2>3. Budget!Expected' = Budget!Expected
    BY <2>1, <2>2, ExpectedSum, ExpectedSumNext
  <2> QED
    BY <2>1, <2>2, <2>3 DEF Budget!IInv, Budget!OverrunBounded
<1>3. ASSUME NEW r \in Runs, Budget!Begin(r) \/ Budget!Progress(r) \/ Budget!Return(r)
      PROVE  Budget!IInv'
  BY <1>3, BudgetBegin, BudgetProgress
<1> QED
  BY <1>1, <1>2, <1>3 DEF Budget!Next

-----------------------------------------------------------------------------
(* Learning from reflection.  Here s1 = entries, s2 = recorded, s3 = run,  *)
(* s4 = asked, s5 = begun.                                                 *)

(* A suffix agrees with the sequence from the end on. *)
LEMMA SuffixIs ==
    ASSUME NEW S, NEW s \in Seq(S), NEW t \in Seq(S)
    PROVE  Reflection!IsSuffix(s, t) <=>
              Len(s) <= Len(t) /\ \A i \in 1 .. Len(s) : s[Len(s) - i + 1] = t[Len(t) - i + 1]
<1> DEFINE a == [i \in 1 .. Len(s) |-> s[(Len(s) - i) + 1]]
           b == [i \in 1 .. Len(t) |-> t[(Len(t) - i) + 1]]
<1>1. Reflection!Reverse(s) = a /\ Reflection!Reverse(t) = b
  BY DEF Reflection!Reverse
<1>2. /\ a \in Seq(S) /\ Len(a) = Len(s) /\ b \in Seq(S) /\ Len(b) = Len(t)
  <2>1. \A i \in 1 .. Len(s) : s[(Len(s) - i) + 1] \in S
    OBVIOUS
  <2>2. \A i \in 1 .. Len(t) : t[(Len(t) - i) + 1] \in S
    OBVIOUS
  <2> QED
    BY <2>1, <2>2
<1>3. Reflection!IsSuffix(s, t) <=>
        Len(s) <= Len(t) /\ SubSeq(a, 1, Len(s)) = SubSeq(b, 1, Len(s))
  BY <1>1, <1>2 DEF Reflection!IsSuffix, Reflection!IsPrefix
<1>4. ASSUME Len(s) <= Len(t)
      PROVE  SubSeq(a, 1, Len(s)) = SubSeq(b, 1, Len(s)) <=>
                \A i \in 1 .. Len(s) : s[Len(s) - i + 1] = t[Len(t) - i + 1]
  <2>1. /\ Len(s) \in Nat /\ Len(t) \in Nat
    OBVIOUS
  <2>2. /\ SubSeq(a, 1, Len(s)) = [i \in 1 .. Len(s) |-> a[i]]
        /\ SubSeq(b, 1, Len(s)) = [i \in 1 .. Len(s) |-> b[i]]
    <3> HIDE DEF a, b
    <3> QED
      BY <1>2, <1>4, <2>1
  <2>3. \A i \in 1 .. Len(s) : a[i] = s[Len(s) - i + 1] /\ b[i] = t[Len(t) - i + 1]
    BY <1>4, <2>1
  <2> HIDE DEF a, b
  <2> QED
    BY <2>2, <2>3
<1> QED
  BY <1>3, <1>4

(* Nothing is a suffix of everything, and one grows with the sequence. *)
LEMMA SuffixGrows ==
    ASSUME NEW S, NEW s \in Seq(S), NEW t \in Seq(S), NEW e \in S
    PROVE  /\ Reflection!IsSuffix(<<>>, t)
           /\ Reflection!IsSuffix(s, t) => Reflection!IsSuffix(Append(s, e), Append(t, e))
<1>1. Reflection!IsSuffix(<<>>, t)
  <2>1. <<>> \in Seq(S) /\ Len(<<>>) = 0 /\ Len(t) \in Nat
    OBVIOUS
  <2>2. ASSUME NEW a \in Seq(S), Len(a) = 0 PROVE Reflection!IsSuffix(a, t)
    <3>1. /\ Len(a) <= Len(t)
          /\ \A i \in 1 .. Len(a) : a[Len(a) - i + 1] = t[Len(t) - i + 1]
      BY <2>1, <2>2
    <3> QED
      BY <3>1, SuffixIs
  <2> QED
    BY <2>1, <2>2
<1>2. ASSUME Reflection!IsSuffix(s, t)
      PROVE  Reflection!IsSuffix(Append(s, e), Append(t, e))
  <2>1. Len(s) <= Len(t) /\ \A i \in 1 .. Len(s) : s[Len(s) - i + 1] = t[Len(t) - i + 1]
    BY <1>2, SuffixIs
  <2> DEFINE u == Append(s, e)
             v == Append(t, e)
  <2>2. /\ u \in Seq(S) /\ v \in Seq(S) /\ Len(u) = Len(s) + 1 /\ Len(v) = Len(t) + 1
        /\ Len(s) \in Nat /\ Len(t) \in Nat
    OBVIOUS
  <2>3. ASSUME NEW i \in 1 .. Len(u) PROVE u[Len(u) - i + 1] = v[Len(v) - i + 1]
    <3>1. CASE i = 1
      BY <2>2, <3>1
    <3>2. CASE i # 1
      <4>1. /\ i - 1 \in 1 .. Len(s) /\ Len(u) - i + 1 = Len(s) - (i - 1) + 1
            /\ Len(v) - i + 1 = Len(t) - (i - 1) + 1
        BY <2>2, <3>2
      <4>2. /\ u[Len(s) - (i - 1) + 1] = s[Len(s) - (i - 1) + 1]
            /\ v[Len(t) - (i - 1) + 1] = t[Len(t) - (i - 1) + 1]
        BY <2>1, <2>2, <4>1
      <4> QED
        BY <2>1, <4>1, <4>2
    <3> QED
      BY <3>1, <3>2
  <2>4. Len(u) <= Len(v)
    BY <2>1, <2>2
  <2> HIDE DEF u, v
  <2>5. Reflection!IsSuffix(u, v)
    BY <2>2, <2>3, <2>4, SuffixIs
  <2> QED
    BY <2>5 DEF u, v
<1> QED
  BY <1>1, <1>2

(* The first n of a sequence. *)
LEMMA FirstOf ==
    ASSUME NEW S, NEW s \in Seq(S), NEW n \in Nat
    PROVE  /\ Reflection!First(s, n) \in Seq(S)
           /\ Len(Reflection!First(s, n)) <= n
           /\ \A i \in DOMAIN Reflection!First(s, n) :
                 i \in DOMAIN s /\ Reflection!First(s, n)[i] = s[i]
<1> DEFINE m == IF Len(s) < n THEN Len(s) ELSE n
<1>1. m \in 0 .. Len(s) /\ m <= n
  OBVIOUS
<1> HIDE DEF m
<1>2. /\ SubSeq(s, 1, m) \in Seq(S) /\ Len(SubSeq(s, 1, m)) = m
      /\ \A i \in 1 .. m : SubSeq(s, 1, m)[i] = s[i] /\ i \in DOMAIN s
  BY <1>1
<1>3. Reflection!First(s, n) = SubSeq(s, 1, m)
  BY DEF m, Reflection!First
<1>4. DOMAIN SubSeq(s, 1, m) = 1 .. m
  BY <1>1, <1>2
<1> QED
  BY <1>1, <1>2, <1>3, <1>4

(* What is recalled are the first of the episodes of the tenant that match; the
   recursion that collects them ends with a sequence of such episodes. *)
IsFound(g, tenant, query) ==
    g = [n \in 0 .. Len(s1) |->
            IF n = 0 THEN <<>>
            ELSE IF s1[n].tenant = tenant /\ Reflection!Matches(query, s1[n].task)
                 THEN Append(g[n - 1], s1[n])
                 ELSE g[n - 1]]

(* The recursion of Found defines a function. *)
LEMMA FoundExists ==
    ASSUME Reflection!Shaped, NEW tenant, NEW query
    PROVE  \E g : IsFound(g, tenant, query)
<1> DEFINE V == Seq(Reflection!Episode)
           N == Len(s1)
           fits(n) == s1[n].tenant = tenant /\ Reflection!Matches(query, s1[n].task)
           step == [n \in Nat |-> [v \in V |->
                       IF n \in 1 .. N /\ fits(n) THEN Append(v, s1[n]) ELSE v]]
<1>1. N \in Nat /\ \A n \in 1 .. N : s1[n] \in Reflection!Episode
  BY DEF Reflection!Shaped
<1>2. step \in [Nat -> [V -> V]] /\ <<>> \in V
  BY <1>1
<1>3. \A n \in 1 .. N, v \in V : step[n][v] = IF fits(n) THEN Append(v, s1[n]) ELSE v
  BY <1>1
<1>4. PICK g : g \in [0 .. N -> V] /\ g[0] = <<>> /\ \A n \in 1 .. N : g[n] = step[n][g[n - 1]]
  <2> DEFINE base == <<>>
  <2>1. base \in V /\ \A n \in Nat, v \in V : step[n][v] \in V
    BY <1>2
  <2> HIDE DEF step, V, N, base
  <2>2. \E g : IsRecursion(g, N, V, base, step)
    BY <1>1, <2>1, RecursionExists
  <2> QED
    BY <2>2 DEF base, IsRecursion
<1>5. ASSUME NEW n \in 0 .. N
      PROVE  g[n] = IF n = 0 THEN <<>> ELSE IF fits(n) THEN Append(g[n - 1], s1[n]) ELSE g[n - 1]
  <2> HIDE DEF step, V, fits
  <2>1. CASE n = 0
    BY <1>4, <2>1
  <2>2. CASE n # 0
    <3>1. n \in 1 .. N /\ n - 1 \in 0 .. N
      BY <1>1, <2>2
    <3> QED
      BY <1>3, <1>4, <2>2, <3>1
  <2> QED
    BY <2>1, <2>2
<1>6. IsFound(g, tenant, query)
  BY <1>4, <1>5, Zenon DEF IsFound
<1> QED
  BY <1>6

(* What is found is of the tenant and matches the query. *)
LEMMA FoundIs ==
    ASSUME Reflection!Shaped, NEW tenant, NEW query
    PROVE  /\ Reflection!Found(tenant, query) \in Seq(Reflection!Episode)
           /\ \A i \in DOMAIN Reflection!Found(tenant, query) :
                 /\ Reflection!Found(tenant, query)[i].tenant = tenant
                 /\ Reflection!Matches(query, Reflection!Found(tenant, query)[i].task)
<1> DEFINE g == CHOOSE g : IsFound(g, tenant, query)
           fits(e) == e.tenant = tenant /\ Reflection!Matches(query, e.task)
           Good == {s \in Seq(Reflection!Episode) : \A i \in DOMAIN s : fits(s[i])}
           N == Len(s1)
           M == {n \in Nat : n <= N => g[n] \in Good}
<1>1. IsFound(g, tenant, query)
  BY FoundExists
<1>2. Reflection!Found(tenant, query) = g[N]
  BY Zenon DEF Reflection!Found, IsFound
<1> HIDE DEF g
<1>3. N \in Nat /\ \A n \in 1 .. N : s1[n] \in Reflection!Episode
  BY DEF Reflection!Shaped
<1>4. \A n \in 0 .. N : g[n] = IF n = 0 THEN <<>>
         ELSE IF fits(s1[n]) THEN Append(g[n - 1], s1[n]) ELSE g[n - 1]
  BY <1>1 DEF IsFound
<1>5. 0 \in M
  <2>1. g[0] = <<>> /\ <<>> \in Good
    BY <1>3, <1>4
  <2> HIDE DEF Good
  <2> QED
    BY <2>1
<1>6. ASSUME NEW n \in Nat, n \in M PROVE n + 1 \in M
  <2> SUFFICES ASSUME n + 1 <= N PROVE g[n + 1] \in Good
    OBVIOUS
  <2>1. n + 1 \in 1 .. N /\ n + 1 # 0 /\ (n + 1) - 1 = n /\ g[n] \in Good
    BY <1>3, <1>6
  <2>2. g[n + 1] = IF fits(s1[n + 1]) THEN Append(g[n], s1[n + 1]) ELSE g[n]
    BY <1>3, <1>4, <2>1
  <2>3. \A s \in Good, e \in Reflection!Episode : fits(e) => Append(s, e) \in Good
    <3> HIDE DEF fits
    <3> SUFFICES ASSUME NEW s \in Good, NEW e \in Reflection!Episode, fits(e)
                 PROVE  Append(s, e) \in Good
      OBVIOUS
    <3> DEFINE t == Append(s, e)
    <3>1. t \in Seq(Reflection!Episode) /\ Len(t) = Len(s) + 1 /\ Len(s) \in Nat
      OBVIOUS
    <3>2. t[Len(s) + 1] = e /\ \A i \in 1 .. Len(s) : t[i] = s[i]
      OBVIOUS
    <3> HIDE DEF t
    <3>3. \A i \in DOMAIN t : t[i] = e \/ (i \in DOMAIN s /\ t[i] = s[i])
      <4>1. DOMAIN t = 1 .. Len(s) + 1 /\ DOMAIN s = 1 .. Len(s)
        BY <3>1
      <4>2. \A i \in 1 .. Len(s) + 1 : i = Len(s) + 1 \/ i \in 1 .. Len(s)
        BY <3>1
      <4> QED
        BY <3>2, <4>1, <4>2
    <3>4. t \in Good
      BY <3>1, <3>3
    <3> QED
      BY <3>4 DEF t
  <2> HIDE DEF Good, fits
  <2> QED
    BY <1>3, <2>1, <2>2, <2>3
<1>7. N \in M
  <2> HIDE DEF M, N
  <2> QED
    BY <1>3, <1>5, <1>6, NatSetInduction
<1> QED
  BY <1>2, <1>3, <1>7

(* No more are recalled than the limit allows. *)
LEMMA RecallIs ==
    ASSUME Reflection!Shaped, NEW tenant, NEW query
    PROVE  /\ Reflection!Recall(tenant, query) \in Seq(Reflection!Episode)
           /\ Len(Reflection!Recall(tenant, query)) <= RecallLimit
           /\ \A i \in DOMAIN Reflection!Recall(tenant, query) :
                 /\ Reflection!Recall(tenant, query)[i].tenant = tenant
                 /\ Reflection!Matches(query, Reflection!Recall(tenant, query)[i].task)
<1>1. PICK s \in Seq(Reflection!Episode) : s = Reflection!Found(tenant, query)
  BY FoundIs
<1>2. \A i \in DOMAIN s : s[i].tenant = tenant /\ Reflection!Matches(query, s[i].task)
  BY <1>1, FoundIs
<1>3. Reflection!Recall(tenant, query) = Reflection!First(s, RecallLimit)
  BY <1>1 DEF Reflection!Recall
<1> QED
  BY <1>2, <1>3, FirstOf, LessonsAssumption

(* At first every run is idle. *)
LEMMA ReflectionInit == ASSUME Reflection!Init PROVE Reflection!IInv
BY DEF Reflection!Init, Reflection!IInv, Reflection!Shaped, Reflection!LessonsApplied

(* A run that works or reflects. *)
Busy(a) ==
    /\ a \in [phase : {"work", "reflect"}, tenant : Tenant, task : Reflection!TaskText, attempt : Nat,
              lessons : Seq(Reflection!Episode), own : Seq(Reflection!Episode)]
    /\ \A i \in DOMAIN a.lessons :
          a.lessons[i].tenant = a.tenant /\ Reflection!Matches(a.task, a.lessons[i].task)
    /\ Len(a.own) = a.attempt - 1
    /\ a.attempt <= MaxTries
    /\ Reflection!IsSuffix(a.own, a.lessons)
    /\ Len(a.lessons) <= RecallLimit + Len(a.own)

(* Every run is idle or busy. *)
AllBusy ==
    /\ s3 \in [Runs -> {s3[q] : q \in Runs}]
    /\ \A q \in Runs : s3[q] = Reflection!Idle \/ Busy(s3[q])

(* The invariant, run by run. *)
LEMMA BusyRuns ==
    ASSUME s1 \in Seq(Reflection!Episode) /\ s2 \in Nat
    PROVE  Reflection!IInv <=> AllBusy
<1>1. \A a : Busy(a) => a # Reflection!Idle
  BY DEF Busy, Reflection!Idle
<1> QED
  BY <1>1 DEF AllBusy, Busy, Reflection!IInv, Reflection!Shaped, Reflection!LessonsApplied

(* One run changes: what it becomes is idle or busy. *)
LEMMA OneRun ==
    ASSUME Reflection!IInv, NEW r \in Runs, NEW a, s3' = [s3 EXCEPT ![r] = a],
           a = Reflection!Idle \/ Busy(a),
           (s1 \in Seq(Reflection!Episode) /\ s2 \in Nat)'
    PROVE  Reflection!IInv'
<1>1. s1 \in Seq(Reflection!Episode) /\ s2 \in Nat
  BY DEF Reflection!IInv, Reflection!Shaped
<1>2. s3 \in [Runs -> {s3[q] : q \in Runs}] /\ \A q \in Runs : s3[q] = Reflection!Idle \/ Busy(s3[q])
  BY <1>1, BusyRuns DEF AllBusy
<1>3. AllBusy'
  BY <1>2 DEF AllBusy
<1>4. (Reflection!IInv <=> AllBusy)'
  BY BusyRuns, PTL
<1> QED
  BY <1>3, <1>4

(* What a run learns, it knows in every later attempt. *)
LEMMA LearnedIsBusy ==
    ASSUME Reflection!IInv, NEW r \in Runs, s3[r] # Reflection!Idle, s3[r].attempt < MaxTries,
           NEW e, e = [tenant |-> s3[r].tenant, task |-> s3[r].task, lesson |-> s2]
    PROVE  Busy(Reflection!Learned(r, e))
<1> DEFINE a == s3[r]
           b == Reflection!Learned(r, e)
           E == Reflection!Episode
<1>1. Busy(a)
  BY BusyRuns DEF AllBusy, Reflection!IInv, Reflection!Shaped
<1>2. /\ a.tenant \in Tenant /\ a.task \in Reflection!TaskText /\ a.attempt \in Nat
      /\ a.lessons \in Seq(E) /\ a.own \in Seq(E)
  BY <1>1 DEF Busy
<1>3. e \in E /\ e.tenant = a.tenant /\ e.task = a.task
  BY <1>2 DEF Reflection!Episode, Reflection!IInv, Reflection!Shaped
<1>4. b = [phase |-> "work", tenant |-> a.tenant, task |-> a.task, attempt |-> a.attempt + 1,
           lessons |-> Append(a.lessons, e), own |-> Append(a.own, e)]
  BY DEF Reflection!Learned
<1>5. /\ Append(a.lessons, e) \in Seq(E) /\ Append(a.own, e) \in Seq(E)
      /\ Len(Append(a.lessons, e)) = Len(a.lessons) + 1 /\ Len(Append(a.own, e)) = Len(a.own) + 1
      /\ Len(a.lessons) \in Nat /\ Len(a.own) \in Nat
  BY <1>2, <1>3
<1>6. Reflection!IsSuffix(Append(a.own, e), Append(a.lessons, e))
  BY <1>1, <1>2, <1>3, SuffixGrows DEF Busy
<1>7. ASSUME NEW i \in DOMAIN b.lessons
      PROVE  b.lessons[i].tenant = b.tenant /\ Reflection!Matches(b.task, b.lessons[i].task)
  <2>1. i \in 1 .. Len(a.lessons) + 1 /\ b.lessons = Append(a.lessons, e)
    BY <1>2, <1>4, <1>5
  <2>2. CASE i = Len(a.lessons) + 1
    <3>1. b.lessons[i] = e
      BY <1>2, <2>1, <2>2
    <3>2. Reflection!Matches(a.task, a.task)
      BY <1>2, LessonsAssumption DEF Reflection!Matches, Reflection!TaskText
    <3> QED
      BY <1>3, <1>4, <3>1, <3>2
  <2>3. CASE i # Len(a.lessons) + 1
    <3>1. i \in DOMAIN a.lessons /\ b.lessons[i] = a.lessons[i]
      BY <1>2, <1>5, <2>1, <2>3
    <3> QED
      BY <1>1, <1>4, <3>1 DEF Busy
  <2> QED
    BY <2>2, <2>3
<1>8. b \in [phase : {"work", "reflect"}, tenant : Tenant, task : Reflection!TaskText, attempt : Nat,
              lessons : Seq(E), own : Seq(E)]
  <2>1. a.attempt + 1 \in Nat
    BY <1>2
  <2> HIDE DEF a, b, E
  <2> QED
    BY <1>2, <1>4, <1>5, <2>1
<1>9. /\ Len(b.own) = b.attempt - 1 /\ b.attempt <= MaxTries
      /\ Reflection!IsSuffix(b.own, b.lessons)
      /\ Len(b.lessons) <= RecallLimit + Len(b.own)
  <2>1. /\ Len(a.own) = a.attempt - 1 /\ a.attempt < MaxTries
        /\ Len(a.lessons) <= RecallLimit + Len(a.own)
    BY <1>1 DEF Busy
  <2> HIDE DEF a, b, E
  <2>2. /\ b.own = Append(a.own, e) /\ b.lessons = Append(a.lessons, e)
        /\ b.attempt = a.attempt + 1
    BY <1>4
  <2>3. Len(b.own) = Len(a.own) + 1 /\ Len(b.lessons) = Len(a.lessons) + 1
    BY <1>5, <2>2
  <2>4. Len(b.own) = b.attempt - 1 /\ b.attempt <= MaxTries
    BY SMTT(30), <1>2, <1>5, <2>1, <2>2, <2>3, LessonsAssumption
  <2>5. Len(b.lessons) <= RecallLimit + Len(b.own)
    BY <1>5, <2>1, <2>3, LessonsAssumption
  <2> QED
    BY <1>6, <2>2, <2>4, <2>5
<1> QED
  BY <1>7, <1>8, <1>9 DEF Busy

(* Reflection!IInv is inductive. *)
LEMMA ReflectionStep ==
    ASSUME Reflection!IInv, [Reflection!Next]_(Reflection!vars)
    PROVE  Reflection!IInv'
<1>1. /\ s1 \in Seq(Reflection!Episode) /\ s2 \in Nat /\ Reflection!Shaped
      /\ s3 \in [Runs -> {s3[r] : r \in Runs}] /\ \A r \in Runs : s3[r] = Reflection!Idle \/ Busy(s3[r])
  BY BusyRuns DEF AllBusy, Reflection!IInv, Reflection!Shaped
<1>2. ASSUME NEW r \in Runs, NEW tenant \in Tenant, NEW task \in Reflection!TaskText,
             Reflection!Begin(r, tenant, task)
      PROVE  Reflection!IInv'
  <2> DEFINE recalled == Reflection!Recall(tenant, task)
             a == [phase |-> "work", tenant |-> tenant, task |-> task, attempt |-> 1,
                   lessons |-> recalled, own |-> <<>>]
  <2>1. s3' = [s3 EXCEPT ![r] = a] /\ s1' = s1 /\ s2' = s2
    BY <1>2 DEF Reflection!Begin
  <2>2. /\ recalled \in Seq(Reflection!Episode) /\ Len(recalled) <= RecallLimit
        /\ \A i \in DOMAIN recalled :
              recalled[i].tenant = tenant /\ Reflection!Matches(task, recalled[i].task)
    BY <1>1, RecallIs
  <2>3. Busy(a)
    <3> HIDE DEF recalled
    <3>1. /\ <<>> \in Seq(Reflection!Episode) /\ Len(<<>>) = 0
          /\ \A s \in Seq(Reflection!Episode) : Len(s) \in Nat
      OBVIOUS
    <3>2. Reflection!IsSuffix(<<>>, recalled)
      <4>1. PICK e : e \in [tenant : {tenant}, task : {task}, lesson : {0}]
        <5>1. [tenant |-> tenant, task |-> task, lesson |-> 0] \in [tenant : {tenant}, task : {task}, lesson : {0}]
          OBVIOUS
        <5> QED
          BY <5>1
      <4>2. e \in Reflection!Episode
        BY <4>1 DEF Reflection!Episode
      <4> QED
        BY <2>2, <3>1, <4>2, SuffixGrows
    <3>3. 1 <= MaxTries /\ RecallLimit \in Nat
      BY LessonsAssumption
    <3> QED
      BY <2>2, <3>1, <3>2, <3>3 DEF Busy
  <2> HIDE DEF a
  <2> QED
    BY <1>1, <2>1, <2>3, OneRun
<1>3. ASSUME NEW r \in Runs, Reflection!Work(r) PROVE Reflection!IInv'
  <2>1. PICK a : a = [s3[r] EXCEPT !.phase = "reflect"]
    OBVIOUS
  <2>2. s3' = [s3 EXCEPT ![r] = a] /\ s1' = s1 /\ s2' = s2 /\ s3[r] # Reflection!Idle
    BY <1>3, <1>1, <2>1 DEF Reflection!Work, Reflection!Idle
  <2>3. Busy(a)
    BY <1>1, <2>1, <2>2 DEF Busy
  <2> QED
    BY <1>1, <2>2, <2>3, OneRun
<1>4. ASSUME NEW r \in Runs, s3' = [s3 EXCEPT ![r] = Reflection!Idle], s1' = s1, s2' = s2
      PROVE  Reflection!IInv'
  BY <1>1, <1>4, OneRun
<1>5. ASSUME UNCHANGED <<s1, s2, s3>> PROVE Reflection!IInv'
  BY <1>5 DEF Reflection!IInv, Reflection!Shaped, Reflection!LessonsApplied
<1>6. ASSUME NEW r \in Runs, Reflection!Unreadable(r) PROVE Reflection!IInv'
  <2>1. s3' = s3 \/ s3' = [s3 EXCEPT ![r] = Reflection!Idle]
    BY <1>6 DEF Reflection!Unreadable
  <2>2. s1' = s1 /\ s2' = s2
    BY <1>6 DEF Reflection!Unreadable
  <2> QED
    BY <1>4, <1>5, <2>1, <2>2
<1>7. ASSUME NEW r \in Runs, Reflection!Satisfied(r) \/ Reflection!Breaks(r) PROVE Reflection!IInv'
  BY <1>4, <1>7 DEF Reflection!Satisfied, Reflection!Breaks
<1>8. ASSUME NEW r \in Runs, Reflection!Unsatisfied(r) PROVE Reflection!IInv'
  <2>1. PICK e : e = [tenant |-> s3[r].tenant, task |-> s3[r].task, lesson |-> s2]
    OBVIOUS
  <2>2. /\ s3[r].phase = "reflect" /\ Reflection!Record(e)
        /\ s3' = [s3 EXCEPT ![r] = IF s3[r].attempt < MaxTries THEN Reflection!Learned(r, e)
                                   ELSE Reflection!Idle]
    BY <1>8, <2>1 DEF Reflection!Unsatisfied
  <2>3. s3[r] # Reflection!Idle /\ Busy(s3[r])
    BY <1>1, <2>2 DEF Reflection!Idle
  <2>4. e \in Reflection!Episode
    BY <1>1, <2>1, <2>3 DEF Busy, Reflection!Episode
  <2>5. s2' \in Nat /\ s1' \in Seq(Reflection!Episode)
    <3>1. PICK grown \in Seq(Reflection!Episode) : grown = Append(s1, e)
      <4>1. Append(s1, e) \in Seq(Reflection!Episode)
        BY <1>1, <2>4
      <4> QED
        BY <4>1
    <3>2. \A i \in 1 .. 2 : SubSeq(grown, i, Len(grown)) \in Seq(Reflection!Episode)
      <4>1. Len(grown) \in Nat /\ \A j \in 1 .. Len(grown) : grown[j] \in Reflection!Episode
        BY <3>1
      <4> QED
        BY <4>1
    <3>3. \E i \in 1 .. 2 : s1' = SubSeq(grown, i, Len(grown))
      BY <2>2, <3>1 DEF Reflection!Record
    <3>4. s2' = s2 + 1
      BY <2>2 DEF Reflection!Record
    <3> QED
      BY <1>1, <3>2, <3>3, <3>4
  <2>6. CASE s3[r].attempt < MaxTries
    <3>1. PICK a : a = Reflection!Learned(r, e)
      OBVIOUS
    <3>2. Busy(a) /\ s3' = [s3 EXCEPT ![r] = a]
      BY <2>1, <2>2, <2>3, <2>6, <3>1, LearnedIsBusy
    <3> QED
      BY <2>5, <3>2, OneRun
  <2>7. CASE ~(s3[r].attempt < MaxTries)
    BY <2>2, <2>5, <2>7, OneRun
  <2> QED
    BY <2>6, <2>7
<1> QED
  BY <1>2, <1>3, <1>5, <1>6, <1>7, <1>8 DEF Reflection!Next, Reflection!vars

-----------------------------------------------------------------------------
(* A behaviour is one of one part, which takes its own steps. *)
LEMMA OnePart ==
    ASSUME [CoreNext]_all
    PROVE  /\ part' = part
           /\ [Next]_vars
           /\ part = "saver" => [Saver!Next]_(Saver!vars)
           /\ part = "memory" => [Memory!Next]_(Memory!vars)
           /\ part = "threads" => [Threads!Next]_(Threads!vars)
           /\ part = "gate" => [Gate!Next]_(Gate!vars)
           /\ part = "budget" => [Budget!Next]_(Budget!vars)
           /\ part = "reflection" => [Reflection!Next]_(Reflection!vars)
BY DEF CoreNext, all, others, Saver!vars, Saver!graph, Memory!vars, Threads!vars, Gate!vars,
       Budget!vars, Reflection!vars

(* The store of answers keeps its type and its bound, and a replayed reply is
   final and belongs to the key of the request, however requests overlap
   (IdempotentAgent.run). *)
THEOREM RepliesSafeAlways == CoreSpec => []RepliesSafe
<1>1. CoreInit => IInv
  BY IInvInit DEF CoreInit
<1>2. IInv /\ [CoreNext]_all => IInv'
  BY IInvStep, OnePart
<1>3. IInv => RepliesSafe
  BY DEF IInv, RepliesSafe
<1> QED
  BY <1>1, <1>2, <1>3, PTL DEF CoreSpec

(* A request that arrives after a final answer to its key does not run the
   delegate again unless the store has dropped the key (IdempotentAgent.run). *)
THEOREM NoSecondRunAlways == CoreSpec => []NoSecondRun
<1>1. CoreInit => IInv
  BY IInvInit DEF CoreInit
<1>2. IInv /\ [CoreNext]_all => IInv'
  BY IInvStep, OnePart
<1>3. IInv => NoSecondRun
  BY DEF IInv
<1> QED
  BY <1>1, <1>2, <1>3, PTL DEF CoreSpec

(* Whatever calls of the saver overlap and wherever runs die, the document of a
   thread is one checkpoint; over the in-memory store it can give the value of
   every channel, and it holds every write that was accepted for it
   (StoreCheckpointSaver.aput and aput_writes). *)
THEOREM CheckpointWholeAlways == CoreSpec => []CheckpointWhole
<1> DEFINE J == part = "saver" => Saver!IInv
<1>1. CoreInit => J
  BY SaverInit DEF CoreInit
<1>2. J /\ [CoreNext]_all => J'
  BY SaverStep, OnePart
<1>3. J => CheckpointWhole
  BY SaverWhole DEF CheckpointWhole
<1> QED
  BY <1>1, <1>2, <1>3, PTL DEF CoreSpec

(* Over the in-memory store, a task whose writes the saver accepted does not run
   again in the same step, whatever crashed (StoreCheckpointSaver.aget_tuple). *)
THEOREM NoTaskRunsTwiceAlways == CoreSpec => NoTaskRunsTwice
<1> DEFINE J == part = "saver" => Saver!IInv
<1>1. CoreInit => J
  BY SaverInit DEF CoreInit
<1>2. J /\ [CoreNext]_all => J'
  BY SaverStep, OnePart
<1>3. J /\ [CoreNext]_all => [part = "saver" => Saver!RunsOnce]_all
  BY SaverRunsOnce, OnePart
<1> QED
  BY <1>1, <1>2, <1>3, PTL DEF CoreSpec, NoTaskRunsTwice

(* Of every session of a SQLite file, what is stored is whole turns, one after
   the other, whatever processes append, raise, die or delete at once; before
   the first delete none is missing, and none collides with one of its own
   process (SQLiteConversationStore.memory). *)
THEOREM TurnsAreWholeAlways == CoreSpec => []TurnsAreWhole
<1> DEFINE J == part = "memory" => Memory!IInv
<1>1. CoreInit => J
  BY MemoryInit DEF CoreInit
<1>2. J /\ [CoreNext]_all => J'
  BY MemoryStep, OnePart
<1>3. J => TurnsAreWhole
  BY MemoryWhole DEF TurnsAreWhole, Memory!IInv
<1> QED
  BY <1>1, <1>2, <1>3, PTL DEF CoreSpec

(* A question that was asked alone of a thread, and that the store has not dropped, can
   be resumed wherever its turn was interrupted, failed or was given up; and of no
   thread, calls of it overlapping or not, is an answered question resumed
   (LangGraphAgent.run). *)
THEOREM ResumeKeepsQuestionAlways == CoreSpec => []ResumeKeepsQuestion
<1> DEFINE J == part = "threads" => Threads!IInv
<1>1. CoreInit => J
  BY ThreadsInit DEF CoreInit
<1>2. J /\ [CoreNext]_all => J'
  BY ThreadsStep, OnePart
<1>3. J => ResumeKeepsQuestion
  BY ThreadsKeep DEF ResumeKeepsQuestion
<1> QED
  BY <1>1, <1>2, <1>3, PTL DEF CoreSpec

(* If every tool is declared either effectful or read-only, a tool runs only with
   the consent its effect asks for, and its audit says what happened, whatever is
   abandoned, raises or is lost on the way (GovernedTool.invoke). *)
THEOREM ConsentedAndAuditedAlways == CoreSpec => []ConsentedAndAudited
<1> DEFINE J == part = "gate" => Gate!IInv
<1>1. CoreInit => J
  BY GateInit DEF CoreInit
<1>2. J /\ [CoreNext]_all => J'
  BY GateStep, OnePart
<1>3. J => ConsentedAndAudited
  BY GateKeeps DEF ConsentedAndAudited
<1> QED
  BY <1>1, <1>2, <1>3, PTL DEF CoreSpec

(* What the runs have used and may still cost stays below the limit plus what
   they were let in with, however many there are and whatever their calls cost
   within Cost, and nothing is counted that was not billed
   (TokenBudget.exhausted, BudgetAgent.run). *)
THEOREM OverrunBoundedAlways == CoreSpec => []OverrunBounded
<1> DEFINE J == part = "budget" => Budget!IInv
<1>1. CoreInit => J
  BY BudgetInit DEF CoreInit
<1>2. J /\ [CoreNext]_all => J'
  BY BudgetStep, OnePart
<1>3. J => OverrunBounded
  BY DEF OverrunBounded, Budget!IInv
<1> QED
  BY <1>1, <1>2, <1>3, PTL DEF CoreSpec

(* A lesson stays with its tenant and matches the task it is used for, and every
   attempt of a run knows the lessons of all its attempts before, in their order,
   whatever other runs have pushed out of the store (ReflectiveAgent.run). *)
THEOREM LessonsAppliedAlways == CoreSpec => []LessonsApplied
<1> DEFINE J == part = "reflection" => Reflection!IInv
<1>1. CoreInit => J
  BY ReflectionInit DEF CoreInit
<1>2. J /\ [CoreNext]_all => J'
  BY ReflectionStep, OnePart
<1>3. J => LessonsApplied
  BY DEF LessonsApplied, Reflection!IInv
<1> QED
  BY <1>1, <1>2, <1>3, PTL DEF CoreSpec
=============================================================================
