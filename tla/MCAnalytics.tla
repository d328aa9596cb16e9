----------------------------- MODULE MCAnalytics -----------------------------
(***************************************************************************)
(* The values of the constants of Analytics that TLC checks.               *)
(***************************************************************************)
EXTENDS Analytics, MCSamples

CONSTANTS k0, k1, k2, k3, v1, v2

(* The event time of a key: k1 is late from the start, k2 once k3 is in.  A day
   is two units. *)
EventTime == (k0 :> 4) @@ (k1 :> 0) @@ (k2 :> 3) @@ (k3 :> 7)

Event(key, value) == [key |-> key, time |-> EventTime[key], value |-> value]
Events == {Event(k0, v2), Event(k1, v1), Event(k2, v1), Event(k2, v2), Event(k3, v1)}

MCBase == {[key |-> k0, time |-> 4, value |-> v1, id |-> <<0, 1>>]}

Sequences2(rows) == {<<>>} \cup {<<row>> : row \in rows} \cup {<<r, s>> : r, s \in rows}

(* Batches without a repeated key, each key with its event time. *)
EventBatches == {batch \in Sequences2(Events) : Len(batch) = 2 => batch[1].key # batch[2].key}

(* Batches that repeat keys, move events and have no key: a row without a key, or
   two different rows.                                                      *)
NoKey    == [key |-> Null, time |-> 6, value |-> v1]
AnyBatches ==
    {<<>>, <<NoKey>>} \cup
    {batch \in Sequences2({Event(k2, v1), Event(k2, v2),
                           [key |-> k0, time |-> 1, value |-> v2], NoKey}) :
        Len(batch) = 2 /\ batch[1] # batch[2]}

MCBatch     == [any |-> AnyBatches, events |-> EventBatches]
MCKeysGiven == [any |-> {TRUE, FALSE}, events |-> {FALSE}]
MCModes     == [any |-> {"upsert", "append"}, events |-> {"upsert"}]

(* Questions on a large sample, a small one, one that was read from stale data on
   purpose, one with names that do not resolve, and one whose query raises. *)
Plainly == [known |-> TRUE, raises |-> FALSE, base |-> 300, rows |-> 300, cover |-> 100,
            gate |-> TRUE, verdict |-> "TRUSTED", joined |-> {"t1"}, listed |-> {},
            allow |-> FALSE, list |-> FALSE, synonyms |-> "s1"]
ToolQuestions ==
    {Plainly, [Plainly EXCEPT !.verdict = "NOISY"], [Plainly EXCEPT !.raises = TRUE],
     [Plainly EXCEPT !.base = 9, !.rows = 9, !.cover = 40, !.gate = FALSE, !.joined = {}],
     [Plainly EXCEPT !.base = 7, !.rows = 7, !.allow = TRUE],
     [Plainly EXCEPT !.known = FALSE, !.base = 50, !.rows = 50, !.cover = 90,
                     !.listed = {"t1"}, !.allow = TRUE]}

(* A prediction and a new fit, the columns in either order. *)
Fit(t, cols, retrain, predict) ==
    [table |-> t, columns |-> cols, retrain |-> retrain, predict |-> predict]
ModelRequests ==
    {Fit("t1", <<"v", "w">>, FALSE, TRUE), Fit("t1", <<"w", "v">>, TRUE, FALSE)}

(* Two uploads with one name and size, another, and one that cannot be read. *)
File(sig, content, good) == [sig |-> sig, content |-> content, good |-> good]
Uploads == {File(1, 1, TRUE), File(1, 2, TRUE), File(2, 3, TRUE), File(3, 4, FALSE)}
==============================================================================
