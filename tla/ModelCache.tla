----------------------------- MODULE ModelCache -----------------------------
(***************************************************************************)
(* Train once, serve many (models_tools.py) over FileModelStore            *)
(* (model_store.py): workers that share a cache directory.  Reading and    *)
(* writing a file is atomic (file_lock, atomic_write_bytes), training is   *)
(* not: another worker may act between the miss and the write.             *)
(***************************************************************************)
EXTENDS Integers, Sequences, FiniteSets, Functions

CONSTANTS
    Worker, Table, Column,
    Backend,        \* train_backend: bounded, full, incremental or dask
    Request,        \* what build_model and predict are asked for
    TTL,            \* model_ttl
    MaxNow, MaxCalls, MaxChanges, MaxRestarts, MaxTampers      \* bounds of the model

VARIABLES
    data,       \* rows, shape of the distributions, columns without a number
    files,      \* the cache directory: the envelope of each key
    sig,        \* dataset_sig of each worker, computed when it starts
    signing,    \* ANALYTICS_MODEL_CACHE_KEY is set
    backend,    \* train_backend of each worker
    job,        \* what each worker is training
    served,     \* the last model that was served
    now, calls, changes, restarts, tampers

vars == <<data, files, sig, signing, backend, job, served,
          now, calls, changes, restarts, tampers>>

(* fingerprint(row_count_aware=False): growth alone does not change it. *)
Fingerprint == data.shape

(* Mutant: the signature of the data is not part of the key. *)
ModelKey_NoSignature(s, r, columns) == <<0, "y", Range(columns), "random_forest">>

(* model_key: the target and the predictors are bare column names, the latter
   sorted; the algorithm is named after the task, not after the backend. *)
ModelKey(s, r, columns) == <<s, "y", Range(columns), "random_forest">>

(* The columns that are left for training: those without a number are dropped. *)
Features(r) == SelectSeq(r.columns, LAMBDA c : c \notin data.empty)

NoJob == [key |-> <<>>]
Nothing == [hit |-> FALSE, by |-> "none"]

Init ==
    /\ \E rows \in 0 .. 1 : data = [rows |-> rows, shape |-> 0, empty |-> {}]
    /\ files = <<>>
    /\ sig = [w \in Worker |-> 0]
    /\ signing \in BOOLEAN
    /\ backend \in [Worker -> Backend]
    /\ job = [w \in Worker |-> NoJob]
    /\ served = Nothing
    /\ now = 0 /\ calls = 0 /\ changes = 0 /\ restarts = 0 /\ tampers = 0

------------------------------------------------------------------------------
(* _serialize_record *)
Envelope(model) ==
    [model |-> model, trained |-> now, current |-> TRUE,
     seal |-> IF signing THEN "good" ELSE "none"]

(* Mutant: only a signature that is there is looked at. *)
Refused_BadOnly(e) == e.current /\ signing /\ e.seal = "bad"

(* _deserialize_record raises ModelCacheIntegrityError. *)
Refused(e) == e.current /\ signing /\ e.seal # "good"

(* Mutant: the age is not asked for. *)
Loaded_AnyAge(k) == k \in DOMAIN files /\ files[k].current

(* get() returns a record: no other format or version, and not too old. *)
Loaded(k) == k \in DOMAIN files /\ files[k].current /\ now - files[k].trained <= TTL

KeyOf(w, r) == ModelKey(sig[w], r, Features(r))

(* scored: predict applies the model to the columns as they were asked for. *)
Served(w, r, e, hit) ==
    [hit |-> hit, by |-> w, table |-> r.table, columns |-> r.columns, model |-> e.model,
     seal |-> e.seal, age |-> now - e.trained, sig |-> sig[w],
     scored |-> r.predict /\ Len(r.columns) = Len(e.model.columns)]

Call(w) == calls < MaxCalls /\ calls' = calls + 1 /\ job[w] = NoJob

(* _prepare_model_spec raises, or the store refuses the file: a failed result. *)
Fail(w, r) ==
    /\ Call(w)
    /\ \/ data.rows < 1 \/ Features(r) = <<>>
       \/ ~r.retrain /\ KeyOf(w, r) \in DOMAIN files /\ Refused(files[KeyOf(w, r)])
    /\ served' = Nothing
    /\ UNCHANGED <<data, files, sig, signing, backend, job, now, changes, restarts, tampers>>

Trainable(r) == data.rows >= 1 /\ Features(r) # <<>>

(* _train_or_load finds a model. *)
Hit(w, r) ==
    /\ Call(w)
    /\ Trainable(r) /\ ~r.retrain
    /\ Loaded(KeyOf(w, r)) /\ ~Refused(files[KeyOf(w, r)])
    /\ served' = Served(w, r, files[KeyOf(w, r)], TRUE)
    /\ UNCHANGED <<data, files, sig, signing, backend, job, now, changes, restarts, tampers>>

(* _train_or_load finds none: the data of this moment is what it trains on. *)
Miss(w, r) ==
    /\ Call(w)
    /\ Trainable(r)
    /\ r.retrain \/ ~Loaded(KeyOf(w, r))
    /\ ~r.retrain /\ KeyOf(w, r) \in DOMAIN files => ~Refused(files[KeyOf(w, r)])
    /\ job' = [job EXCEPT ![w] =
                  [key |-> KeyOf(w, r), request |-> r,
                   model |-> [table |-> r.table, columns |-> Features(r),
                              shape |-> data.shape, backend |-> backend[w]]]]
    /\ served' = Nothing
    /\ UNCHANGED <<data, files, sig, signing, backend, now, changes, restarts, tampers>>

(* _fit, put and the answer. *)
Trained(w) ==
    /\ job[w] # NoJob
    /\ LET e == Envelope(job[w].model)
       IN  /\ files' = [k \in DOMAIN files \cup {job[w].key} |->
                           IF k = job[w].key THEN e ELSE files[k]]
           /\ served' = Served(w, job[w].request, e, FALSE)
    /\ job' = [job EXCEPT ![w] = NoJob]
    /\ UNCHANGED <<data, sig, signing, backend, now, calls, changes, restarts, tampers>>

(* The fit or the write raises, or the process dies before it. *)
TrainingBreaks(w) ==
    /\ job[w] # NoJob
    /\ job' = [job EXCEPT ![w] = NoJob]
    /\ served' = Nothing
    /\ UNCHANGED <<data, files, sig, signing, backend, now, calls, changes, restarts, tampers>>

(* Rows arrive: more of the same, others, or rows that empty or fill a column. *)
Change ==
    /\ changes < MaxChanges
    /\ changes' = changes + 1
    /\ \/ data' = [data EXCEPT !.rows = 1]
       \/ \E empty \in {{}} \cup {{c} : c \in Column} :
             data' = [rows |-> 1, shape |-> data.shape + 1, empty |-> empty]
    /\ served' = Nothing
    /\ UNCHANGED <<files, sig, signing, backend, job, now, calls, restarts, tampers>>

(* A worker starts again, with the backend its environment names. *)
Restart(w) ==
    /\ restarts < MaxRestarts
    /\ restarts' = restarts + 1
    /\ sig' = [sig EXCEPT ![w] = Fingerprint]
    /\ \E b \in Backend : backend' = [backend EXCEPT ![w] = b]
    /\ job' = [job EXCEPT ![w] = NoJob]
    /\ served' = Nothing
    /\ UNCHANGED <<data, files, signing, now, calls, changes, tampers>>

(* A file is changed from outside, unsigned, or left by another version. *)
Tamper(k) ==
    /\ tampers < MaxTampers
    /\ tampers' = tampers + 1
    /\ \E e \in {[files[k] EXCEPT !.seal = "bad"], [files[k] EXCEPT !.seal = "none"],
                 [files[k] EXCEPT !.current = FALSE]} :
          files' = [files EXCEPT ![k] = e]
    /\ served' = Nothing
    /\ UNCHANGED <<data, sig, signing, backend, job, now, calls, changes, restarts>>

Tick ==
    /\ now < MaxNow
    /\ now' = now + 1
    /\ served' = Nothing
    /\ UNCHANGED <<data, files, sig, signing, backend, job, calls, changes, restarts, tampers>>

Next ==
    \/ \E w \in Worker, r \in Request : Fail(w, r) \/ Hit(w, r) \/ Miss(w, r)
    \/ \E w \in Worker : Trained(w) \/ TrainingBreaks(w) \/ Restart(w)
    \/ \E k \in DOMAIN files : Tamper(k)
    \/ Change \/ Tick

Spec == Init /\ [][Next]_vars

------------------------------------------------------------------------------
(* "a missing/invalid signature is rejected": with a key no altered or unsigned
   file is served, and with or without one no file that is too old. *)
SoundEntriesServed ==
    served.hit => /\ signing => served.seal = "good"
                  /\ served.age <= TTL

(* A model that a worker finds in the cache was trained on data of the present
   shape, whoever trained it, if the worker started since the data changed. *)
FreshAfterStart ==
    served.hit /\ served.sig = Fingerprint => served.model.shape = Fingerprint

(* "so a changed dataset invalidates cached models instead of serving stale
   fits": the same of every worker. *)
NoStaleFit == served.hit => served.model.shape = Fingerprint

(* "load the stored model for this spec": the model that scores rows was trained
   on the columns it is given, in that order, of that table. *)
ServedForItsSpec ==
    served.by # "none" /\ served.scored =>
        served.model.table = served.table /\ served.model.columns = served.columns

(* The inductive invariant: the signature a model is filed under is not newer than
   the data it was trained on, and that not newer than the present data. *)
Filed(key, model, shape) ==
    /\ key[1] \in Nat /\ model.shape \in Nat
    /\ key[1] <= model.shape /\ model.shape <= shape

IsEnvelope(e) ==
    e = [model |-> e.model, trained |-> e.trained, current |-> e.current, seal |-> e.seal]

IInv ==
    /\ data \in [rows : Nat, shape : Nat, empty : SUBSET Column]
    /\ sig \in [Worker -> Nat] /\ \A w \in Worker : sig[w] <= data.shape
    /\ DOMAIN job = Worker
    /\ \A w \in Worker : job[w] # NoJob => Filed(job[w].key, job[w].model, data.shape)
    /\ \A k \in DOMAIN files : IsEnvelope(files[k]) /\ Filed(k, files[k].model, data.shape)
    /\ SoundEntriesServed
    /\ served.hit => Filed(<<served.sig>>, served.model, data.shape)

==============================================================================
