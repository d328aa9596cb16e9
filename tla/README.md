# A TLA+ model of python-ai-agents

The repository has two parts: a library for governed agents
(`src/src/python_ai_agents`: the core and its adapters) and an analytics agent
built on it (`src/demos/analytics`). Both keep state that several turns,
threads, processes or runs share, and both promise something about it: a
session's memory survives its neighbours, a repeated request is not run twice, a
tool acts only with consent, a decision is not lost, a delta file is ingested
once, an answer does not rest on stale data. The modules here model the code
behind those promises, TLC checks them on small instances, and TLAPS proves the
most important ones for all instances.

Paths below are relative to the repository; `core/` stands for
`src/src/python_ai_agents/core/`, `adapters/` for its sibling and `analytics/`
for `src/demos/analytics/src/analytics/`.

## 1. Inventory

| component | state | operations | who else touches it | what makes it correct |
|---|---|---|---|---|
| in-memory conversation store (`core/memory.py`) | dictionary of entries, each with a memory, a FIFO lock, pins and an access clock | `memory()` (a context manager around a turn), `delete`, eviction | every turn; the host deletes | an entry in use is never evicted; one turn per session; bounded; no waiter is stranded |
| SQLite conversation store (`core/memory.py`) | rows of messages, a lock per session and process | load, append the tail of a turn, `delete` | other processes | turns are stored whole, in order, or not at all |
| governed turn (`core/trust.py`, `core/default_agent.py`) | session memory, audit log, loop position, worker threads, deadline scope | one turn: guardrails, model calls, tool calls | the deadline, tool threads that outlive the turn | the history is a conversation, calls are answered, effects are approved and audited, the turn ends |
| governed tools (`core/trust.py`, `core/tool.py`, `core/skill.py`) | the approval of each call, its audit events | policy, human approval, the tool | the tool timeout, which abandons a call | no effect without its consent; the audit says what happened |
| idempotent agent (`core/idempotency.py`) | ordered dictionary of answers | `run`: look up, delegate, save | overlapping requests | final answers only, the first stands, a repeat does not run |
| checkpoints (`adapters/langgraph.py`, `core/checkpoint.py`) | one JSON document for each thread | `aput`, `aput_writes`, `aget_tuple`; run and resume a workflow | the graph's background calls, crashes, eviction | a resumed run has all channels, repeats no finished task, keeps its question |
| token budget and retries (`core/budget.py`, `core/resilient.py`) | token counts; attempts | check, call, bill, time out, back off | concurrent runs | bounded overrun; a run ends |
| supervision (`core/supervise.py`) | transcript, hop counters | route, hand off, delegate, speak | the policies and models that choose | an answer within the budget; a block stops the chain |
| learning (`core/learn.py`, `episodic.py`, `structured.py`) | the episodes of all tenants | recall, attempt, judge, record | other runs | lessons stay with their tenant and reach every later attempt |
| decision store (`analytics/decision_store.py`, `file_lock.py`) | JSON file, its copy in each process, a thread lock and a flock | `record`, `set_stage`, `notify_host`, `record_outcome`, `close` | threads, processes, crashes | no change is lost, the history only grows, an agreed action stays agreed |
| CSV source (`analytics/csv_source.py`) | DuckDB table, watermarks | `upsert`, `append_rows` | repeated, late and broken batches | keys stay unique, replays add nothing, rows in the window are kept |
| ingestion of files (`analytics/ingest.py`) | processed and pending files, tables | `poll`, ingest, `commit`, `close` | writers of the directory, failures, restarts | every file is ingested, and once |
| ingestion of a stream (`analytics/ingest.py`) | consumer position, committed offset, table, metrics | poll, ingest, commit, control totals | producers, failures, restarts | what is committed is in the table; a missed total is a breach |
| analytics tools and lineage (`analytics/toolset.py`, `lineage.py`) | cached DSL engines, stale tables, graph of answers and its file | the tools, `refresh_after_ingest` | ingestion, restarts | no answer rests on old data or asserts more than its sample carries |
| answer trust (`analytics/trust.py`, `audit_store.py`) | thresholds, labelled outcomes, audit rows | grade, suggest, tune | the shared audit store, restarts | thresholds stay in order; each change is audited |
| model cache (`analytics/model_store.py`, `models_tools.py`) | envelopes keyed by a fingerprint | train or load, predict | other workers, changing data | no altered, old or foreign model is served |
| predictive tools (`analytics/models_tools.py`) | fitted models | build, predict, forecast, test, cluster | - | shifted data are flagged; too little data is refused |
| joins and planner (`analytics/relationships.py`, `semantic_model.py`, `query_planner.py`) | relationships found in the data | discover, plan, validate, drop, frame | tables that vanish | a plan joins what was asked along one tree |
| query language (`analytics/dsl/`) | tokens, parser state, catalogs | detect, render, parse, ground, plan | two layers of catalogs | the text means the question; no cycle is planned |
| profiler (`analytics/profiler.py`, `semantic_roles.py`) | statistics of columns, roles | profile, merge, infer, refine, refresh | ingestion, catalog, model hints | counts follow the stream; forced roles hold |
| demo application (`analytics/app.py`) | session state, open sources, directories, audit databases | upload, import, ask, chart | reruns that stop a run | charts are of the question and of the data loaded |
| guardrails, adapters, observers, statistics, other sources | - | text, I/O, numbers | - | not modelled (section 7) |

How they interact. `ProductionAgentRuntime` puts `GovernedAgent` around
`DefaultAgent`, whose `run` is one `async with store.memory(...)` of the
conversation store; each tool of it may be a `GovernedTool`. `IdempotentAgent`,
`BudgetAgent`, `ReflectiveAgent` and the supervision patterns wrap any agent.
`LangGraphAgent` runs an agent as a node of a graph whose checkpoints go
through `StoreCheckpointSaver` into a `CheckpointStore`. The analytics tools are
tools of a `DefaultAgent`: one writes to the decision store, the descriptive
ones go through the DSL and the planner to the source, the predictive ones
through the model cache. `MicroBatchRunner` feeds `IngestController.ingest`,
hence `CsvSource.upsert`, and then `refresh_after_ingest` of the tools and the
profile.

The hard behaviours: cancellation at every await (deadlines), worker threads
that cannot be stopped, load-modify-save across an await or between processes,
statements that commit one by one, files that appear at any time, exceptions in
the middle of a cycle, caches whose key leaves something out, scripts that are
stopped halfway and run again, and processes that die. `PROJECT.json` lists
them line by line under "hazards", with the properties that would catch each.

## 2. Modules

The library:

| module | models | state and actions |
|---|---|---|
| `ConversationStore` | `InMemoryConversationStore` | `slot`, `pins`, `waiters` are the dictionary, `_Entry.pins` and `_Entry.lock`; `phase`, `session`, `held` are a turn's position and locals. `Enter`, `Finish`, `Leave` are the three stretches of `memory()` between awaits; `CancelInside`, `CancelLeaving`, `LeaveInterrupted` a cancellation at each await; `Delete` |
| `SqliteMemory` | `SQLiteConversationStore` in several processes | `Begin`, `SelectMax`, `Insert` are the statements of a turn's end, since another process can come between any two; `InsertFails`, `BodyBreaks`, `Delete`, `Crash` |
| `AgentTurn` | `GovernedAgent.run` around `DefaultAgent.run` | `pc` walks through the code; `memory`, `audit`, `threads`, `effects` are what outlives the turn; `DeadlinePasses`, `TimerFires`, `Cancelled` are the clock, the scope's timer and the raised cancellation |
| `ToolGate` | `GovernedTool.invoke` under the tool timeout, and the tools that `SkillfulAgent` offers | `Start`, `Policy`, `Human`, `ApprovalBreaks`, `Invoke` are a call's steps; `Abandon` is the timeout, after which the call goes on in its thread |
| `IdempotentAgent` | `IdempotentAgent.run`, `InMemoryIdempotencyStore` | `Arrive`, `Replay`, `Run`, `Return`, `Fail` of overlapping requests |
| `CheckpointSaver` | `StoreCheckpointSaver` over both checkpoint stores | `CallRuns` over the in-memory store, `CallLoads` and `CallSaves` over SQLite; the graph's `Start`, `TaskEnds`, `StepEnds`, `Resume`, `Crash` are external |
| `Workflow` | `LangGraphAgent.run` over an `InMemoryCheckpointStore` that drops threads | `run` is what each call is doing, and calls of a session may overlap: `Begin` (up to the first `aget_state`) decides between a new turn, `Invoke`, and a `Resume`; `NodeEnds`, `NodeRaises`, `Check` (the second `aget_state`), `Cancelled` |
| `ModelCalls` | `BudgetAgent` and `BudgetObserver` with `ResilientModelPort` | `Answer`, `Timeout`, `Raise`, `Retry`, `CallAgain`, `Finish` of several runs over one budget; `Reset` |
| `Delegation` | `SupervisorAgent`, `HandoffAgent`, `ManagerAgent`, `GroupChatAgent` | one request to a team; `team` is what `build()` fixed |
| `Learning` | `ReflectiveAgent` over `InMemoryEpisodicStore`, `extract_structured` | `Begin` recalls, `Work` attempts, `Unreadable` asks for the verdict again, `Satisfied`, `Unsatisfied` |

The analytics agent:

| module | models | state and actions |
|---|---|---|
| `DecisionOps` | the operations of the decision store as functions from data to data | `Record`, `SetStage`, `NotifyHost`, `Effect` (which also has `record_outcome` and `close`) |
| `DecisionLog` | the abstract specification: operations take effect one at a time, once, between call and return | data and a status for each call |
| `DecisionStore` | `DecisionStore._exclusive` over `file_lock` and `atomic_write_text` | one action for each step: mutex, flock, reload, change, temporary file, rename, unlock, return; `Fails` is an exception from reading or saving; `Crash`, `Restart` |
| `CsvRows` | what the SQL statements of `upsert` do to a table | operators: `TooLate`, `Updated`, `Inserted`, `KeysDetected`, ... |
| `CsvUpsert` | `IngestController.ingest` over `upsert` and `append_rows` | `Refuse`, `UpsertNothing`, `Upsert`, `UpsertBreaks`, `AppendRows` |
| `DeltaIngest` | `MicroBatchRunner.process` over `FileDeltaConnector`, with the merge of `CsvRows` | `Drop`, `Poll`, `Ingest`, `Commit`; `PollBreaks`, `IngestBreaks`, `GateBreaks`; `NewConnector`, `Restart` |
| `StreamIngest` | `MicroBatchRunner` over `KafkaConnector`, control totals of `IngestController` | `Poll`, `Ingest`, `IngestBreaks`, `Commit`, `Restart`, `LoadCounted`, `LoadReconciled`; the consumer is external |
| `TrustGrade` | `grade()` and its evidence tiers | operators over thresholds, sample size and coverage, in integers |
| `AnswerTrust` | the tuning of the thresholds and its audit | `RecordOutcome`, `AutoTune`, `Restart` |
| `AnalyticsTools` | `AnalyticsToolset` and the lineage graph | `Invoke` of every descriptive tool with what the question meets in the data; `Ingest`, `RefreshBreaks`, `Age`, `Restart` |
| `ModelCache` | `build_model` and `predict` over `FileModelStore` | `Fail`, `Hit`, `Miss` and, later, `Trained` or `TrainingBreaks`; `Restart`, `Tamper`, `Change`, `Tick` |
| `PredictiveTools` | what each predictive tool accepts, refuses and compares | `Load`, `BuildModel`, `Predict`, `Forecast`, `AbTest`, `CausalEffect`, `Uplift`, `Cluster`, `AnomalyDetection` |
| `Picking` | list comprehensions with a condition | the operator `Picked` |
| `JoinDiscovery` | `discover_relationships` and the roles of columns | the seeds, simple and composite keys, kinds and confidence, found pair by pair |
| `QueryPlan` | `QueryPlanner` on what `JoinDiscovery` found | `Ask`, `Drop` (best effort), `Plan`, `Raise`, `Frame` |
| `DslQuery` | from words to a planned query | `AskInWords`, `AskInText`, `ParseStep`, `Ground` |
| `Profiler` | column statistics, roles, refresh | `Ingest` of a batch, `Refresh` |
| `AppSession` | one session of the demo application | `Rerun` and `Stop` are Streamlit's; the script's steps are the ones between two accesses to `session_state`: `Close`, `Remove`, `Import`, `AssignSig` to `AssignMessages`, `PopAgent`; `EnsureAgent`, `NewCapture` to `NewModel`; `Panel`, `Ask`, `Forget`, `ToolInTurn`, `Answer` |

`*_proof` modules hold the theorems of section 5, `Facts` what several of them
need. `MC*` modules hold the instances: batches, base tables, questions,
symmetry. `Core` and `Analytics` put components that share no state side by
side: a behaviour is one of a single part, chosen at the start, and each part's
property is checked in its own states. Both have constants, so that their theorems
hold for all of them, and `MCCore` and `MCAnalytics` give them values. `MCSamples` has
the sample texts, tables, batches and frames.

Definitions whose name has a suffix after `_` (`Victims_OneOver`) are mutants:
each is the definition of that name with a plausible mistake, and a property
must fail when it takes the definition's place. The ones `PROJECT.json` lists
break the property named there; the others break another conjunct of some property.

Choices that hold for all modules. Code that runs between two awaits of one
event loop is one action; code on threads or in processes is one action for each
access to what they share. Messages, answers, documents and rows are records of
the fields that the properties tell apart. Counters are bounded by constants
named `Max...`, all in guards.

### Notes on the modules

*ConversationStore.* The store's own lock protects stretches without an await,
so it is not a variable. A cancelled anyio scope raises again at every await:
that is `LeaveInterrupted`, and `Leave` stays possible after a cancellation since a plain
asyncio cancellation is delivered once. `age` orders the keys by last access, as
the clock does, without growing.

*SqliteMemory.* SQLite commits a transaction as a whole; `MAX(ordinal)` is read
before it begins, which is the window. The primary key refuses an ordinal that
is taken. A lock of one process does not know the other.

*AgentTurn.* The session's lock makes turns sequential, so one program counter
is enough. `late` is a history variable. The three ways a call is rejected are
one event, `tool.rejected`; no property tells them apart. `ToolGate` looks into
the call itself. Both assume that the audit sink records what it is given, but for
the one event that `ToolGate` may lose: the code swallows a sink's failure
(`default_agent.py:227`).

*Workflow.* A graph of one node: what its checkpoint holds is the input and
whether the node is next. `run()` takes no lock, so calls of one session overlap at
every await. `loose` are the threads that were dropped by the store or had calls that
overlapped; a question that is asked alone is sure again. `answered` is a history
variable.

*Delegation.* A handoff starts with a name of the team, and members answer or are
blocked: a start that names nobody raises `KeyError` (`supervise.py:145`), and what a
member raises goes through to the caller.

*Learning.* Tenants are names: that a blank one becomes "default"
(`episodic.py:27`) is left out.

*ModelCalls.* A run is let in by the budget and asks its model at most `MaxSteps`
times, each time with retries. An answer that comes after the timeout is paid
for (`billed`) and thrown away (`late`).

*DecisionStore.* `file` and `exists` are the data file; a process that has not
loaded keeps an empty memory. `Crash` releases the flock, as the kernel does,
and leaves the temporary file. `OnDisk` says whether the file may exist at the start.

*CsvUpsert.* A row has an `id` because a DuckDB table can hold equal rows. Which of
several matching rows an `UPDATE ... FROM` takes is a choice (`Picks`). A table
belongs to one `feed`, which fixes the batches, modes and keys it can meet: what
the code promises depends on the feed (`KeyedFeed`, `EventFeed`).

*DeltaIngest.* Each file is one table: a file's name is its table's. `fresh` and
`ingested` are history variables.

*CheckpointSaver.* `suspends` says which store is used: over SQLite every call
has two hops to a thread and calls overlap, except that an `aput` waits for the
one before it, which is what the graph's loop does. What the graph does is taken
from how the saver is used and marked external.

*TrustGrade.* Thresholds are multiples of 1/`Unit`, so that three tunings by 5/4
or 4/5, in any order, stay whole numbers, as `Unit` is the third power of 20; coverage is a
percentage. A suggestion of the audit store carries rates and no counts, so its
sample count is 0 and it is never applied.

*AnalyticsTools.* What a question meets in the data (sample size, coverage,
tables joined, whether a name resolves, whether the query raises) is part of the
question; the tools, the gate, the grade and the lineage are the code's.

*AnswerTrust.* Tunings are given an audit store, as the demo does; without one
(`trust.py:228`) they leave no row.

*ModelCache.* `data.shape` is what the fingerprint sees; rows that only grow do
not change it. Reading and writing a file is one step (`file_lock`,
`atomic_write_bytes`), training is between two.

*PredictiveTools.* Rows are told apart by one predictor's value only. The
deciles and the PSI are computed as the code does, in thousandths, with a table
of logarithms (`LnMilli`); fitted numbers do not occur.

*QueryPlan.* A sum is modelled by how often it counts each row of its table,
which is what a fan-out changes.

*DslQuery.* Names and texts are sequences of words in lower case. Tokens are
what the tokenizer's regular expression yields, so a text is a token sequence.

*Profiler.* Means and sums are fractions, never rounded. The sample values of a
column are its first distinct ones. That the heavy statistics of a large table come
from a reservoir sample (`profiler.py:207`) is not modelled.

*AppSession.* What survives a stopped run is `session_state`, so each assignment to it
is a step, after each of which a rerun can stop the script. `update()` assigns eight
keys; the three that no property reads (`session_id`, `profile`, `insights`) have no
step, since a stop before one of them leaves what a stop before the next step does.
`whole` says that no load was stopped within its update since the last that ended.

## 3. Runs

All runs are described in `PROJECT.json`; times are for two workers.

| run | instance | what it shows |
|---|---|---|
| `store_safety` | 2 turns, 2 keys, 1 session allowed, pins to 3, deletes and cancellations, fair | `StoreSafe` (an entry in use is not evicted, pins cover the users, an undisturbed session runs one turn at a time), `BoundedButLeaks`, `EveryTurnServed` (186k states) |
| `turns` | a session of 2 turns with 1 step, or of 1 turn with 2 steps (`MaxWork`), 2 calls a step, the deadline anywhere, fair | `StartsAreClosed`, `EffectsAreGoverned`, `SessionRemembers`, `TurnEnds` (914k states, 2 min) |
| `decision_safety` | 2 processes, one with 2 threads, a crash, failing saves, the file may be absent | `FileKept`, `HistoryKept` (1.7M states, 40 s) |
| `decision_log` | 2 processes with a thread each over an existing file, fair | `ImplementsLog` (refinement of `DecisionLog`), `CallsEnd` (389k states) |
| `delta_safety` | 2 files written 3 times, 2 failures, 2 replays or restarts, fair | `DeltaSafe`, `AtMostOnce`, `EveryNewDeltaRead` (127k states) |
| `core` | the parts below | (996k states, 2.5 min) |
| - part `idempotent` | 6 requests with 3 keys or none, room for 2 answers | `RepliesSafe`, `NoSecondRun` |
| - part `saver` | 2 tasks, 3 channels, both stores, a crash, 2 or 3 checkpoints | `CheckpointWhole`, `NoTaskRunsTwice` |
| - part `memory` | 2 processes, 4 turns of one session with 0 or 2 messages, a delete, a fault | `TurnsAreWhole` |
| - part `threads` | 3 threads, room for 2, 3 calls that may overlap | `ResumeKeepsQuestion` |
| - part `gate` | 2 calls, 3 tools, 2 skills, 1 lost audit event | `ConsentedAndAudited` |
| - part `reflection` | 2 runs of 2 tenants, 3 attempts, room for 2 episodes | `LessonsApplied` |
| - part `budget` | 2 runs at once of 3 requests, 2 steps, 2 attempts, fair | `OverrunBounded`, `RunsEnd` |
| - part `teams` | every kind of team of 3 names, budgets 0, 2 and 4, fair | `TeamAnswers` |
| `analytics` | the parts below | (1.4M states, 2.8 min) |
| - part `upsert`, feed `any` | batches of 2 rows that repeat keys, move events or have no key | `ResultAddsUp`, `KeyLostForGood` |
| - part `upsert`, feed `events` | batches of up to 2 events, each with its time, delivered in any order | `FeedKeysUnique`, `FeedMerges` |
| - part `trust` | 3 tunings, a labelled outcome, a restart, writes that fail | `TuningIsMonotone`, `TuningIsAudited` |
| - part `toolbox` | 2 calls of any tool, 6 kinds of question, an ingest, a failed write, a restart | `AnswersAreSupported`, `LineageComplete` |
| - part `models` | 2 workers, 2 requests, expiry, a change of the data, a restart, a tampered file | `CachedModelsSound` |
| - part `topic` | 4 records, poisoned ones too, a failure, a restart | `StreamIsServed` |
| - part `joins` | 3 tables in 27 databases, 18 questions, 6 ways to be broken | `PlansAreSound` |
| - part `dsl` | 96 questions in words and all one-token omissions of 3 texts | `QueriesAreMeant` |
| - part `session` | 4 uploads, 2 settings, 4 runs of the script, 3 loads, a stop anywhere | `ChartsAreOfTheQuestion` |
| - part `profiles` | 5 batches of 1 or 2 columns, 2 ingests, a refresh, forced roles and hints | `ProfileFollows` |
| - part `predictor` | 4 frames, 4 ways to build the toolset | `ShiftIsFlagged` |
| `store_leak`, `delta_lost`, `stream_breach`, `dsl_filters`, `profile_merge` | as above | one statement each of a doc or comment that the code does not keep (section 6) |

Why the bounds are enough. A hazard between two actors needs two of them, and a
third where one has to be dropped or served after both: two turns and room for
one session, three threads and room for two, three requests with one key and
two more keys to push it out. A crash, failure or restart is allowed once or
twice, anywhere. In `decision_safety` one process has two threads, so both locks
matter. Three deliveries are a batch, something in between, and the batch again.
Two ingests make a merge, and the refresh comes before, between or after them.
Frames for drift have ties, NULLs and a constant. The mutants show that every
property can fail within its bounds.

Deadlock is not checked in runs whose system stops by itself when its requests,
turns, files or checkpoints are used up; in the conversation store turns come
again for ever, and it is checked.

## 4. Fairness

* `ConversationStore`: the body of a turn ends (a model call returns or its
  deadline cancels it) and the event loop runs ready tasks. Nothing is assumed of
  entering, cancelling or deleting.
* `AgentTurn`: the task is scheduled, the model port answers or fails (it has a
  timeout of its own, `ResilientModelPort`), and a tool's timeout fires.
  Nothing is assumed of tools: `ToolReturns` and `ThreadEnds` have no fairness.
* `DecisionStore`: a thread that can go on does, and a lock that is free again
  and again is obtained. Nothing is assumed of crashes and failing saves.
* `DeltaIngest`: `process()` is called again and again, as `run` and the host's
  schedule do. Nothing is assumed of writers, failures and restarts.
* `ModelCalls`: a call of a run answers, raises or times out, and a backoff ends
  (`Progress`). That it does is what `anyio.fail_after` and the attempts counter
  are for; nothing is assumed of new requests or of `Reset`.
* `Delegation`: one coroutine that goes on. Whom the policies and models choose
  is not restricted.

## 5. Proofs

`ConversationStore_proof` proves about `Spec`, for all keys, turns, entries and
limits:

* `StoreSafeAlways` (`StoreSafe`), which is the conjunction of the next four:
  `TypeCorrect`, `EvictionSparesUsers` (`InUseKept`), `PinsCoverUsersAlways` and
  `OneTurnPerSession` (`SessionExclusive`), with deletes and cancellations.
* `BoundedWithoutCancels` (`Bounded`), assuming that no turn is cancelled; with
  cancellation the formula is false (`store_leak`).
* `BoundedButLeaksAlways` (`BoundedButLeaks`), with deletes and cancellations:
  only entries that keep a leaked pin can exceed the bound.

The invariant. `InUseKept` is not inductive: a state in which a user's entry
has no pin satisfies it, and the next eviction violates it. `IInv` adds that
the pins of an undisturbed session count its users (`PinsCoverUsers`), that a
turn's locals are set exactly while it is open (`LocalsOK`), and that no entry
serves two keys (`SlotsDistinct`). Each action then keeps each conjunct; only
`Leave` needs cardinalities, since it decrements a pin and removes a user at the
same time. `OneTurnPerSession` follows: two turns of the session hold one entry,
and the head of its queue is one turn.
`Bounded` needs, in the other direction, that pins are at most the users
(`PinsWithinUsers`), so that after an eviction every key left over the limit
has a turn open on it. With cancellations that fails, and what is left is that
the sessions nobody pins are at most the limit (`IdleBounded`): entering pins a
session, and an eviction ends with the limit met or no idle session. A session
that leaked no pin is idle, or an open turn holds its entry; by `SlotsDistinct`
different sessions have different such turns, hence the bound.

`AgentTurn_proof` proves, for any number of turns, steps and calls in a batch:
`TypeCorrect`, `EffectsAreGovernedAlways` (`EffectsAreGoverned`),
`StartsAreClosedAlways` (`StartsAreClosed`) and `SessionRemembersAlways`
(`SessionRemembers`). None is inductive. The invariant `IInv`
says which counters are set at each place of the loop (`Position`), that the
audit has no event yet of a call still to come (`Fresh`: without it a call could
start with its closing event already there), that a started call has exactly one
closing event unless it is the one that runs or its turn ran out of time
(`Closed`), and that a thread belongs to a call that was started and not
rejected (`Governed`), which is what makes a late effect an approved one.
`Remembers` adds what the memory needs: that only a turn whose deadline passed can
be cancelled (`Clocked`), that the open turn has its user message from the moment it
passed the guardrails, and its calls are those of the steps taken (`Placed`),
that every call the loop has passed has its result (`Answering`), that a turn
has an answer exactly when it is about to report it (`Replying`), and that a
turn blocked at its input has no message (`BlockedEmpty`). That the history stays
a conversation is a lemma about appending to a sequence (`FormedAppend`).

`Core_proof` proves of `CoreSpec`, for any values of the constants, the
invariants and the action property that the run `core` checks. `part` never
changes, so each theorem follows from the invariant of its part, which the
module of the part states as `IInv`:

* `RepliesSafeAlways` and `NoSecondRunAlways`, for any number of requests: the
  store holds only final replies of its keys (`StoreFinal`), a key answered
  finally is stored or has been dropped (`AnsweredHeld`), and only requests that
  arrived count as repeats (`RepeatsArrived`).
* `CheckpointWholeAlways` and `NoTaskRunsTwiceAlways`, for any tasks, channels,
  writes and crashes. A document is one that some checkpoint and the writes after it
  make (`Made`), and so is every copy that a call over SQLite has loaded; the calls
  in flight were asked by the loop, in the order of their checkpoints (`Asked`,
  `InOrder`), and over the in-memory store, where a call is one step, an
  acknowledged task is in the document (`InMemory`).
* `TurnsAreWholeAlways`, for any processes, sessions and lengths of a turn: an open turn's
  id is its own and later than those of the turns its process has ended in the
  session (`TurnsApart`); the rows of a session are those of stored turns, each at
  consecutive ordinals (`RowsInRuns`); before the first delete there are no gaps and no stored
  turn is missing (`NothingMissing`); and ordinals that a turn finds taken came from
  another process after its SELECT (`OwnTurnsSeen`).
* `ResumeKeepsQuestionAlways`, for calls that overlap: while a thread is not `loose` one
  call at most is under way in it, and its open question is in its checkpoint with the
  node still to come (`QuestionSaved`). That an answered question is never resumed is
  about all threads: a question is nowhere before the call that asks it invokes
  the graph, and then in the checkpoint and the nodes of that call's thread only
  (`QuestionsPlaced`), so only an `Invoke` of its own puts it next.
* `ConsentedAndAuditedAlways`: the events of a call, while none was lost, follow from
  its phase (`Reported`), and its consent and effect from the questions it passed
  (`Progressed`, `Asked`); an abandoned call keeps them.
* `OverrunBoundedAlways`, for any finite set of runs, any limit and any cost. What is
  counted exceeds the limit by at most one call for each run that was let in: the
  invariant counts what the open runs may still add as a sum over the runs
  (`Left`), and every action moves at most what it takes from one summand.
* `LessonsAppliedAlways`, for any tenants, words and bounds: `Found` is a recursive
  function, so `Core_proof` first shows that it exists (`RecursionExists` of `Facts`)
  and then, by induction on the number of episodes, that every episode found is one
  of the tenant that shares a word with the query, and that a matching
  episode is found; hence an attempt after a failed one is asked with a lesson.

`Facts` has what these need and the library states with an operator as parameter,
stated here with a set: induction as `NatSetInduction` (a set that has 0 and with each number
the next one has them all), the existence of a function defined by recursion,
a greatest element, sums over finite sets when one summand changes, and what is picked
from a sequence.

The lemmas about the SQL statements of `CsvRows` say that an UPDATE keeps each row's
key and identity and that an INSERT takes only keys the table lacks, so the merge of a
batch without repeated keys keeps keys unique. `DeltaIngest_proof` and `Analytics_proof`
both start with them.

`DeltaIngest_proof` proves `DeltaSafeAlways` (`DeltaSafe`), `AtMostOnceAlways`
(`AtMostOnce`), and the parts `CommittedUnlessFailedAlways` and
`TablesKeyedAlways`, the latter for deltas that do not repeat a key. The
invariant: the queue holds different files, all polled and none ingested
(`QueueAhead`); what was ingested is known to the connector
(`IngestedKnown`); and while nothing failed, a pending file is ingested or queued
(`NoneSkipped`).

`Analytics_proof` proves of `AnalyticsSpec`, for any values of the constants,
what the run `analytics` checks of its parts but the query language. As in `Core`, `part` never changes and
each part's module states its invariant (`IInv`):

* `ResultAddsUpAlways`, `KeyLostForGoodAlways`, for any feed; `FeedKeysUniqueAlways`
  for feeds of upserts whose batches have keys and repeat none; `FeedMergesAlways` for feeds of
  events. The invariant is that tables are finite and that a row's identity is its
  own and older than the next delivery (`Sound`); counting is by bijections, from
  the accepted rows whose key is missing to the inserted rows, and from the
  table to the updated table. `FeedMerges` also needs that every time in the table
  is the one its key has in the feed (`Timed`), that each key of a batch that was
  applied is in the table or too old for ever (`Settled`, since the newest time
  only grows), and what a batch that broke has left behind (`Broke`).
* `TuningIsAuditedAlways` and `TuningIsMonotoneAlways`: one tuning keeps the order
  of the thresholds, each of which moves by a factor and is clamped to its range,
  since the ranges are in order too; the audit rows of a process form a chain. A
  grade is antitone in the thresholds (`GradeAntitone`), so it is enough that a
  raise lowers none of them, which is integer arithmetic.
* `AnswersAreSupportedAlways` and `LineageCompleteAlways`: the last answer is the
  outcome of its tool and question on the tables as they are (`Answered`), and
  each answer of a conversation has exactly the earlier ones as parents
  (`Linked`), of which a trace by induction visits all. Without a fault the file is
  the graph.
* `CachedModelsSoundAlways`: the signature in a key is not newer than the data the
  model was trained on, nor these than the present data (`Filed`), also for a
  training that is under way; a worker whose signature is the present one can
  therefore only find models of present data.
* `StreamIsServedAlways`: while nothing failed, what was fetched is in the table or
  in the batch, unless a record could not be read.
* `ChartsAreOfTheQuestionAlways`, with a stop at any access to `session_state`: what is
  captured in a turn is of the question asked last and of the source loaded then
  (`Captured`), since an agent whose source is open works on the loaded one: the
  old source is closed before any key is assigned, and a load that is under way has
  assigned the keys before the place where it is (`Loading`). A load that reaches
  its end has therefore assigned all of them, whatever earlier loads left.
* `ProfileFollowsAlways`, for tables and batches of any size: while the profile is exact,
  each column's statistics are those of its values (`Summed`). They are
  shown to add up: the sum of two columns, one after the other, by induction on the
  second (`TotalAdds`, for the recursive function `Total`), the missing values by a
  bijection (`MissingAdds`), the bounds as the least and greatest of a union
  (`ExtremaAdd`), and the mean, a fraction, by the ring laws (`MergeIsSummed`).
* `ShiftIsFlaggedAlways`, for frames of any size: a prediction is over a frame with rows
  and says of it what the index does. There are at most 11 bins (`FewBins`); the term
  of a bin that no row fell in is at least 11416 thousandths per row and bin
  (`EmptyBinIsDrift`) and no other falls below -22 (`TermAtLeast`), so the index is
  over its threshold whatever the other bins hold.
* `PlansAreSoundAlways`, for any tables, data and questions. The invariant (`IInv` of
  `QueryPlan`): what was discovered relates tables of the profile by as many columns of
  the one as of the other (`DiscoveryInv`); the question that is planned is the one
  that was asked without the tables left out, each of which the source lacks in
  part. The rest follows from the plan: while the search runs, its edges are a tree
  that every set of tables spans which is closed under them (`Rooted`), and each table
  reached is in the queue or has its neighbours reached (`Whole`). An edge is added per
  table that is queued, so the queue is empty after as many pops as there are tables
  (`BfsSpans`). Pruning keeps a tree (`PrunedIsTree`). With one way between any two
  tables every relationship that is reached is used (`AllUsed`), so trees of two roots
  have the same edges up to their direction (`TreesAgree`), and an answer does not
  look at directions (`AnswerAgrees`).

`QueryLanguage_proof` proves of the part `dsl` of `AnalyticsSpec`, for any questions, texts,
models and catalogs, `QueriesAreMeantAlways` (`QueriesAreMeant`). The lemmas say first what the
text of a query is, token by token: a clause begins where the ones before it
end (`Upto`, `TextIs`), and in it each name, value and comma has its place
(`TextOfMetrics`, `TextOfDimensions`, `TextOfFilters`). The invariant (`IInv` of
`DslQuery`) then says where the parser is and that it has read what the text says up
to there (`Reading`, `Said`): between two metrics, two dimensions, within or after a
condition, at the word of a clause or after it. Each rule leads from one such place to
the next (`SelectStep` to `LimitStep`, together `ReadingStep`); after a clause follows the
keyword of a later one that is present or the end (`NextClause`). Of any text, also one
that a user typed, the parser stays within the tokens, and outside of parentheses but in
expressions (`AdvanceFits`). That a query is planned only when none of its metrics
depends on itself is a condition of `Grounds`, which is about the layered catalogs
(`ColumnsAreReached`).

The assumptions are those the modules state about their constants, and the ones
named in a theorem: finite sets, positive limits, `None` is no key; the saver is called with
channels of the graph by tasks that wrote (`SaverAssumption`), turns have a
length (`LengthsAssumption`), costs are not negative (`BudgetAssumption`), a text has a
word (`LessonsAssumption`: an empty one matches nothing, and `recall` is
tried with texts), and a tool is declared effectful or read-only and not both
(`EffectsAssumption`); of the analytics demo, that the configured thresholds are
in the range of the tuning and in order (`StartAssumption`; the defaults are, and
the code does not look, see section 6), that a poll asks for a number of records
(`RecordsAssumption`), and that questions have the fields of one (`AskedAssumption`),
that a table or batch has a column, and columns of one length (`ArrivalAssumption`),
that frames count rows of values and are no larger than the table of logarithms
(`FramesAssumption`), and that this table rounds: ln 11 is at most 2400 thousandths
(`LnAssumption`), and logarithms add up and grow but for two thousandths (`LnAdds`), as those of
`math.log` in thousandths do; and that the profile has finitely many columns and a question is
about tables of the profile (`JoinsAssumption`: references are resolved against it); and
that questions and texts are made of words, and the conditions of a question in words
compare with one value, as the detector writes them (`SentenceAssumption`).
`LiteralsAssumption` says that the language's keywords and signs are strings, which
they are, but the provers do not know.

Model-checked only. The liveness properties: the prover has no ENABLED and no
fairness. `TeamAnswers` of `Delegation` is one of them. All safety invariants and action
properties that the runs check are proved.

## 6. What the code does that its comments do not say

Five runs are expected to fail and are listed as findings: `store_leak`,
`delta_lost`, `stream_breach`, `dsl_filters` and `profile_merge`. While
modelling, TLC also found the following; they are stated here because they
delimit what the passing runs claim. Where a name is given, the module states
the property and a run of it fails; no configuration lists it.

The library:

* `IdempotentAgent`: a repeat that arrives before the first request returns runs
  the delegate too (`idempotency.py:54`). `NoSecondRun` is about later repeats.
* `StoreCheckpointSaver` over SQLite: an `aput_writes` that loaded before an
  `aput` and saves after it puts the older checkpoint back, so "only the latest
  checkpoint is retained" fails; two of them lose each other's writes; one that
  finds no document stores nothing (`langgraph.py:162`). Over any store the second
  write of a task to one channel is dropped unless the channel is special
  (`langgraph.py:171`): `AckedWritesKept` is about the writes that the saver means to
  keep (`Kept`), the first of a task to a channel and the last to a special one.
* `LangGraphAgent`: a thread that the store dropped is resumed with the empty
  question (`checkpoint.py:42`), and the verdict of a blocked reply does not
  survive the node. `OverlapKeepsQuestion`: no lock keeps calls of one session apart
  (`langgraph.py:244`), so when two overlap the one that asks, or the one whose node
  ends, writes over the question of the other, and each reports the state that it
  finds, "completed" for a question that was not answered. `ResumeKeepsQuestion`
  is therefore about questions asked alone, and about all of them once answered.
* `InMemoryConversationStore.delete`: a turn that is open goes on with a memory that the
  store no longer has while the next one begins with another. `StoreSafe` is about
  sessions that were not deleted.
* `DefaultAgent`: calls of a turn that was cut off stay without results, and an answer
  that came too late for the deadline stays in the session. `SessionRemembers`
  leaves both to the turns that were cut off.
* `GovernedTool`: an approval that a human gives after the tool timeout runs the
  tool, although the model was told of the timeout. The consent and the audit
  are there (`ConsentedAndAudited`); the model does not learn of the effect.
* `ResilientModelPort`: an answer that comes after the timeout is paid for and
  not counted against the budget. `OverrunBounded` is about what is counted.
* `InMemoryEpisodicStore.recall` returns the oldest episodes that match, so a
  full store hides the newer lessons.

Decisions and ingestion:

* `DecisionStore`: while the file does not exist, a change whose save failed
  stays in memory and is written by the next operation (`decision_store.py:115`),
  so the refinement is stated over an existing file. `record` with status pending
  takes an approved entry back to pending, although the comment says never
  (`decision_store.py:150`): `KeepsCommitment` is about scheduled and implemented.
* `CsvSource.upsert`: a batch that repeats a new key inserts it twice
  (`csv_source.py:324`); moving the newest row back takes the watermark back and
  makes the same batch have another effect the second time; a `late_window`
  below one day is no window (`csv_source.py:298`). `KeyedFeed` and `EventFeed`
  therefore ask for batches without repeated keys, events with one time, and whole days.
* `FileDeltaConnector` remembers paths, and a path names its table, so the next
  delta under the same name is not read by the same connector. A file that cannot
  be read makes every poll raise, and those behind it wait (`ingest.py:242`).
* `KafkaConnector`: the offsets are durable and the tables are not, and a poll
  that raised has moved the position, so after a restart or a failed cycle
  committed records are in no table (`ingest.py:320`); a record that is not JSON
  takes the rest of its batch with it. `CommittedIsServed` is about behaviours
  without either. `reconcile` against an expected 0 is always a mismatch.

Answers:

* `SqlAnswersAreFresh`: the gate finds tables in SQL after FROM and JOIN only, so
  those that are joined by a comma pass it, although it is to "refuse to answer
  silently against data older than the policy" (`toolset.py:1674`, `:622`).
* `ConformingCallAnswered`: `event_impact` is refused for a call that conforms to
  its schema (`toolset.py:918`, `:1012`).
* `NoStaleFit`: a worker computes the signature of the data when it starts and
  serves models of the old data after a change (`models_tools.py:79`).
* `ServedForItsSpec`: the key sorts the columns, so a model fitted on them in one
  order scores them in another; and it lacks the training backend
  (`model_store.py:96`).
* Environment variables can set thresholds outside the bounds that tuning keeps, or
  out of order; `StartAssumption` leaves such a configuration out, and the checked
  instance starts from the defaults.
* `QuietOnTrainingRows`: deciles that tie leave bins that the training rows
  themselves do not fill as expected, and drift is reported on the rows the model was
  trained on (`models_tools.py:1048`). In the other direction a constant training
  column has one bin, PSI 0, and is never flagged. A predictor that is all
  NaN is dropped in training and used in prediction.
* `EveryAnswerGraded`: `ab_test` returns none of the sizes that the grade looks
  for.

Queries, profiles and the application:

* `FanOutSafe` and `FrameKeepsGrain`: a sum, or a frame, over a join to a side
  that is not unique counts rows again. `to_unique` compares the number of
  distinct values with the row count of the other table, and a key that is unique
  on the FROM side only is called one-to-one (`relationships.py:171`, `:188`), so
  a relationship can pass for one that does not fan out.
* `ValidatedPlanRuns`: the table of a filter is neither joined nor checked, so a
  plan that validates may not run. Which table is the root follows from the order
  of a set. A spec of derived metrics alone makes the planner raise.
* `QueriesRoundTrip`: the dates of BETWEEN are rendered without quotes and are
  not read back (`dsl/ast.py:112`), nor are reserved words and backslashes; a
  question without a metric becomes a text that is none. Two catalogs without a
  cycle can have one when they are layered, and it is found only when planned.
* `HintsYieldToUser`: roles refined by a model replace forced ones until the next
  refresh, which drops the refined ones. `ProfileInSync`: a profile built on the
  first refresh counts the batch of that refresh twice. A column without a value
  in one batch loses its sum and mean for good.
* `UploadIsLoaded`: an upload is told from the last by names and sizes
  (`app.py:243`). `SourceIsOpen`: when loading fails, the session keeps the old
  signature and the agent of the old source, which is closed (`app.py:114`).
* `ChartsAreOfTheData`: a run that is stopped after `source=` and before `messages=` leaves
  the charts of the old data over the new (`app.py:135`); and since `data_sig` goes
  first, the same upload does not load again. Stopped before `source=`, the session
  keeps the closed source; stopped before `pop`, the old agent, which is used only if
  the sidebar's choice and the signature are those it was built for. A first load
  that is stopped leaves keys that the script then misses. `ChartsAreOfTheQuestion` is
  about the question and the data of each answer, and about whole sessions.
* `AgentIsOfSetting`: a run stopped between `agent=` and `model_sig=` leaves an agent that
  the old signature does not describe (`app.py:163`, `:173`), so going back to the old
  settings keeps it.
* `AuditIsDurable`: the audit database that "survives restarts" is in the
  temporary directory that the next load removes (`app.py:122`, `:159`).

## 7. Not modelled

* Text: guardrail patterns, prompts, the wording of answers and reports, the SQL
  guard. Their decisions are inputs of the models.
* Numbers: backtests, conformal forecasts, matching, segmentation, portfolio
  optimisation, fitting. Floating point over data frames is out of TLC's reach;
  what the tools around them refuse, compare and store is in `PredictiveTools`,
  `ModelCache` and `AnalyticsTools`.
* I/O: model and tool adapters (Ollama, MCP, OpenTelemetry), warehouses, Neo4j, the other data
  sources. They translate formats and keep no state that another part reads.
* Sinks: observers, metrics, cost, evaluation. Their failures are swallowed; the
  events that reach the audit are in `AgentTurn`, `ToolGate` and `AnswerTrust`.
* Streaming, structured output as such, and replay: single loops over their input.
* Of modelled components: `alist` and `delete` of the saver, schema evolution
  and query execution of the CSV source, `CdcConnector` (no offsets: each poll
  is a batch as in `CsvUpsert`), read-only queries and reports, editing and saving
  of catalogs, widgets and layout.
* `src/tools/model_scorecard.py`: a benchmark driver.

`PROJECT.json` has the reason for each component.

## 8. What could come next

1. `IdempotentAgent` composed with `AgentTurn`: a retry after a deadline repeats
   effects whose thread was abandoned.
2. `StreamIngest` and `Profiler` composed: the profile after a replay.
