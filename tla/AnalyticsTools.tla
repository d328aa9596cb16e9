--------------------------- MODULE AnalyticsTools ---------------------------
(***************************************************************************)
(* AnalyticsToolset (toolset.py): the governed tools over one data source, *)
(* with the trust grade, the freshness gate, the cached DSL engines, and   *)
(* the lineage graph (lineage.py) of the answers of a conversation.  What  *)
(* a question meets in the data is chosen with it: see Question.           *)
(***************************************************************************)
EXTENDS TrustGrade, Sequences, FiniteSets

CONSTANTS
    Table, Synonyms,            \* tables of the source; synonym maps of a DSL call
    Asked,                      \* questions that are put: a subset of Question
    MaxCalls, MaxChanges, MaxFaults, MaxRestarts    \* bounds of the model

VARIABLES
    data,       \* what the source holds, as the number of its last change
    stale,      \* tables older than ANALYTICS_MAX_STALE_DAYS
    model,      \* the data the semantic model was built from
    engines,    \* _dsl_engine_cache: synonyms and model of each engine
    nodes,      \* LineageGraph._nodes: the parents of each answer
    disk,       \* the lineage file
    scope,      \* LineageGraph.scope: the answers of this conversation
    last,       \* the last call: tool, question, result and model it used
    count,      \* counters: analytics.tool.calls, .errors, answers by tier, raised
    given,      \* ids of all answers that were given
    changes, faults, restarts

lineage == <<nodes, disk, scope, given>>
vars == <<data, stale, model, engines, lineage, last, count, changes, faults, restarts>>

Verdict == {"TRUSTED", "DIRECTIONAL", "NOISY", "INSUFFICIENT"}

(* known: the names resolve; raises: the planner or DuckDB raises; base, rows:
   rows of the base table and of the result; cover: coverage in percent; gate:
   the validation gates pass; verdict: of the backtest; joined: tables the
   question names after FROM or JOIN; listed: further tables it reads after a
   comma; allow: allow_stale; list: a reference is sent as the list that the
   input schema of event_impact declares. *)
Question == [known : BOOLEAN, raises : BOOLEAN, base : Nat, rows : Nat, cover : 0 .. 100,
             gate : BOOLEAN, verdict : Verdict, joined : SUBSET Table,
             listed : SUBSET Table, allow : BOOLEAN, list : BOOLEAN, synonyms : Synonyms]

Torn == [id \in {0} |-> {}]      \* a file that does not parse

Idle == [tool |-> "none", q |-> <<>>, result |-> <<>>, model |-> 0]

Init ==
    /\ data = 0 /\ model = 0
    /\ stale = {}
    /\ engines = {}
    /\ nodes = <<>> /\ disk = <<>> /\ scope = <<>> /\ given = {}
    /\ last = Idle
    /\ count = [calls |-> 0, errors |-> 0, graded |-> 0, raised |-> 0]
    /\ changes = 0 /\ faults = 0 /\ restarts = 0

------------------------------------------------------------------------------
(* Results.  _fail carries an envelope, ToolResult.failed does not. *)
Result(kind, tier, asserts) == [kind |-> kind, tier |-> tier, asserts |-> asserts]

Failed   == Result("failed", "none", FALSE)
Rejected == Result("rejected", "none", FALSE)
Raised   == Result("raised", "none", FALSE)

(* _ok: with evidence the answer is graded, without it carries no tier. *)
Ungraded == Result("ok", "none", TRUE)
Graded(n, cov, gates) ==
    Result("ok", Grade(DefaultThresholds, n * Unit, cov * Unit, gates, FALSE), TRUE)

(* The try of every invoke turns an exception into a failed result. *)
Guarded(q, result) == IF q.raises THEN Failed ELSE result

(* Mutant: a rebuilt grade is asked for its abstain flag, which it lacks. *)
Claim_FlagOnly(tier, flagged) ==
    Result("ok", tier, ~flagged)

(* should_abstain: the flag, or the tier. *)
Claim(tier, flagged) == Result("ok", tier, ~(flagged \/ tier = "INSUFFICIENT"))

StaleResult == Result("ok", "none", FALSE)

(* Mutant: an engine that is in the cache is not asked again. *)
Gated_Uncached(q, result) ==
    IF ~q.allow /\ q.joined \cap stale # {} /\ ~\E e \in engines : e.synonyms = q.synonyms
    THEN StaleResult ELSE result

(* The freshness gate looks at the names that _tables_in_sql finds. *)
Gated(q, result) == IF ~q.allow /\ q.joined \cap stale # {} THEN StaleResult ELSE result

DescribeDataset(q) == IF q.raises THEN Raised ELSE Ungraded
RunQuery(q) == Guarded(q, IF q.known THEN Graded(q.base, 100, NoGates) ELSE Failed)
Compare(q) == Guarded(q, IF q.known THEN Graded(q.rows, 100, NoGates) ELSE Failed)
Trend(q) == Guarded(q, IF q.known THEN Graded(q.base, 100, NoGates) ELSE Rejected)
Summarize(q) == Guarded(q, IF q.known THEN Graded(q.base, 100, NoGates) ELSE Rejected)

(* A pair of columns DuckDB cannot correlate is skipped. *)
Correlate(q) == IF q.known THEN Graded(q.base, 100, NoGates) ELSE Rejected
Outliers(q) == Guarded(q, IF q.known THEN Graded(q.base, 100, NoGates) ELSE Rejected)
Regression(q) ==
    Guarded(q, IF q.known /\ q.rows >= 10
               THEN Graded(q.rows, 100, [r2_positive |-> q.gate]) ELSE Rejected)
RunSql(q) ==
    Guarded(q, IF q.known THEN Gated(q, Graded(q.rows, 100, NoGates)) ELSE Rejected)

DslQuery(q) ==
    Guarded(q, IF q.known THEN Gated(q, Graded(q.rows, 100, NoGates)) ELSE Rejected)
NlQuery(q) ==
    Guarded(q, IF q.known THEN Gated(q, Graded(q.rows, 100, NoGates)) ELSE Rejected)

MappedVerdict == [TRUSTED |-> "TRUSTED", DIRECTIONAL |-> "DIRECTIONAL",
                  NOISY |-> "INSUFFICIENT", INSUFFICIENT |-> "INSUFFICIENT"]

(* The grade is built anew from the weaker tier, without the abstain flag. *)
MatchedImpact(q) ==
    Guarded(q, Claim(MinTier(MappedVerdict[q.verdict],
                             Graded(q.base, q.cover, [aa |-> TRUE, parallelTrends |-> q.gate]).tier),
                     FALSE))

(* The reference is used as a string: a list raises. *)
EventImpact(q) ==
    LET tier == Graded(q.rows, 100, [has_pre |-> q.rows > 0, has_post |-> q.rows > 0]).tier
    IN  IF q.list \/ q.raises THEN Failed
        ELSE IF ~q.known THEN Rejected
        ELSE Claim(tier, tier = "INSUFFICIENT")

ChangePoint(q) ==
    Guarded(q, IF q.known /\ q.rows >= 6
               THEN Graded(q.rows, 100, [has_break |-> q.gate]) ELSE Rejected)
ConformalForecast(q) ==
    Guarded(q, IF q.known THEN Graded(q.rows, q.cover, [calibrated |-> q.cover >= 80])
               ELSE Failed)
Segment(q) == Guarded(q, IF q.known THEN Graded(q.rows, 100, NoGates) ELSE Failed)
PortfolioOptimize(q) == Guarded(q, IF q.known THEN Ungraded ELSE Rejected)
ProposeDecision(q) == Guarded(q, Ungraded)
FreshnessReport(q) == Guarded(q, Ungraded)
Reconcile(q) == Guarded(q, Ungraded)
VerifyQuery(q) == Guarded(q, Ungraded)

DslTools == {"dsl_query", "nl_query"}
Causal == {"matched_impact", "event_impact"}

(* all_tools() *)
Tools ==
    {"describe_dataset", "run_query", "compare", "trend", "summarize", "correlate",
    "outliers", "regression", "run_sql", "dsl_query", "nl_query", "event_impact",
    "change_point", "matched_impact", "conformal_forecast", "segment",
    "portfolio_optimize", "propose_decision", "freshness", "reconcile",
    "verify_query"}

(* What the invoke of each tool returns. *)
Outcome(tool, q) ==
    CASE tool = "describe_dataset" -> DescribeDataset(q)
      [] tool = "run_query" -> RunQuery(q)
      [] tool = "compare" -> Compare(q)
      [] tool = "trend" -> Trend(q)
      [] tool = "summarize" -> Summarize(q)
      [] tool = "correlate" -> Correlate(q)
      [] tool = "outliers" -> Outliers(q)
      [] tool = "regression" -> Regression(q)
      [] tool = "run_sql" -> RunSql(q)
      [] tool = "dsl_query" -> DslQuery(q)
      [] tool = "nl_query" -> NlQuery(q)
      [] tool = "event_impact" -> EventImpact(q)
      [] tool = "change_point" -> ChangePoint(q)
      [] tool = "matched_impact" -> MatchedImpact(q)
      [] tool = "conformal_forecast" -> ConformalForecast(q)
      [] tool = "segment" -> Segment(q)
      [] tool = "portfolio_optimize" -> PortfolioOptimize(q)
      [] tool = "propose_decision" -> ProposeDecision(q)
      [] tool = "freshness" -> FreshnessReport(q)
      [] tool = "reconcile" -> Reconcile(q)
      [] tool = "verify_query" -> VerifyQuery(q)

------------------------------------------------------------------------------
(* The model of the engine that a DSL call runs on. *)
EngineModel(q) ==
    LET cached == {e \in engines : e.synonyms = q.synonyms}
    IN  IF cached = {} THEN model ELSE (CHOOSE e \in cached : TRUE).model

ModelUsed(tool, q) == IF tool = "dsl_query" THEN EngineModel(q) ELSE model

(* The engine of a DSL text is kept, whatever becomes of the query. *)
CacheEngine(tool, q) ==
    engines' = IF tool = "dsl_query" /\ q.known
               THEN engines \cup {[synonyms |-> q.synonyms, model |-> EngineModel(q)]}
               ELSE engines

(* _persist rewrites the file; a failure is swallowed and may leave half of it. *)
Persist(graph) ==
    \/ disk' = graph /\ UNCHANGED faults
    \/ faults < MaxFaults /\ faults' = faults + 1 /\ disk' \in {disk, Torn}

(* Mutant: an answer is its own parent and nothing comes before it. *)
Record_Itself(id) ==
    /\ nodes' = [i \in DOMAIN nodes \cup {id} |-> IF i = id THEN {id} ELSE nodes[i]]
    /\ Persist(nodes')
    /\ scope' = Append(scope, id)
    /\ given' = given \cup {id}

(* LineageGraph.record with the scope as parents, and the append to the scope. *)
Record(id) ==
    /\ nodes' = [i \in DOMAIN nodes \cup {id} |->
                    IF i = id THEN {scope[k] : k \in DOMAIN scope} ELSE nodes[i]]
    /\ Persist(nodes')
    /\ scope' = Append(scope, id)
    /\ given' = given \cup {id}

(* _make_tool: a raised exception is an error and no call. *)
Counted(result) ==
    [count EXCEPT !.calls = @ + (IF result = Raised THEN 0 ELSE 1),
                  !.raised = @ + (IF result = Raised THEN 1 ELSE 0),
                  !.errors = @ + (IF result.kind # "ok" THEN 1 ELSE 0),
                  !.graded = @ + (IF result.tier # "none" THEN 1 ELSE 0)]

Invoke(tool, q) ==
    LET result == Outcome(tool, q)
    IN  /\ count.calls + count.raised < MaxCalls
        /\ count' = Counted(result)
        /\ last' = [tool |-> tool, q |-> q, result |-> result, model |-> ModelUsed(tool, q)]
        /\ CacheEngine(tool, q)
        /\ \/ result.kind = "ok" /\ Record(count.calls + 1)
           \/ result.kind # "ok" /\ UNCHANGED <<lineage, faults>>
        /\ UNCHANGED <<data, stale, model, changes, restarts>>

(* Mutant: the engines of the old model are kept. *)
Refresh_KeepsEngines == model' = data' /\ UNCHANGED engines

(* refresh_after_ingest: a new model, and no engine of the old one. *)
Refresh == model' = data' /\ engines' = {}

(* ingest: the upsert, then the refresh; new rows may make a table fresh. *)
Ingest ==
    /\ changes < MaxChanges
    /\ changes' = changes + 1
    /\ data' = data + 1
    /\ Refresh
    /\ stale' \in SUBSET stale
    /\ last' = Idle
    /\ UNCHANGED <<lineage, count, faults, restarts>>

(* The upsert is done and the refresh raises. *)
RefreshBreaks ==
    /\ changes < MaxChanges
    /\ changes' = changes + 1
    /\ data' = data + 1
    /\ last' = Idle
    /\ UNCHANGED <<stale, model, engines, lineage, count, faults, restarts>>

(* Time passes and a table gets too old. *)
Age ==
    /\ stale # Table
    /\ \E t \in Table \ stale : stale' = stale \cup {t}
    /\ last' = Idle
    /\ UNCHANGED <<data, model, engines, lineage, count, changes, faults, restarts>>

(* A new process: a new toolset over the data as it is, and LineageGraph._load,
   to which a file that does not parse is an empty one. *)
Restart ==
    /\ restarts < MaxRestarts
    /\ restarts' = restarts + 1
    /\ model' = data /\ engines' = {}
    /\ nodes' = IF disk = Torn THEN <<>> ELSE disk
    /\ scope' = <<>>
    /\ last' = Idle
    /\ UNCHANGED <<data, stale, disk, given, count, changes, faults>>

Next ==
    \/ \E q \in Asked : \E tool \in Tools : Invoke(tool, q)
    \/ Ingest \/ RefreshBreaks \/ Age \/ Restart

Spec == Init /\ [][Next]_vars

------------------------------------------------------------------------------
(* "clears the cached DslEngine instances so subsequent dsl_query / nl_query
   calls use the new model": no call, and no engine that waits for one, uses a
   model older than the toolset's, also after a refresh that failed. *)
EnginesAreCurrent ==
    /\ \A e \in engines : e.model = model
    /\ last.tool # "none" => last.model = model

(* An answer whose SQL the planner wrote never rests on a table that is older
   than the policy, unless the caller allowed it. *)
PlannedAnswersAreFresh ==
    last.tool \in DslTools /\ last.result.kind = "ok" /\ last.result.asserts /\ ~last.q.allow
        => last.q.joined \cap stale = {}

(* "refuse to answer silently against data older than the policy": the same of
   the SQL that a caller wrote. *)
SqlAnswersAreFresh ==
    last.tool = "run_sql" /\ last.result.kind = "ok" /\ last.result.asserts /\ ~last.q.allow
        => (last.q.joined \cup last.q.listed) \cap stale = {}

(* "refuse to assert a causal claim when the evidence is insufficient": the
   causal tools assert no effect under an INSUFFICIENT grade, be it that of the
   sample or that of the verdict, and they trust no more than either. *)
ClaimsAreSupported ==
    last.tool \in Causal /\ last.result.kind = "ok" =>
        /\ last.result.asserts <=> last.result.tier # "INSUFFICIENT"
        /\ last.tool = "matched_impact" =>
              Rank[last.result.tier] <= Rank[MappedVerdict[last.q.verdict]]

(* A call that conforms to the input schema of event_impact, over names that
   resolve and data that can be read, is answered. *)
ConformingCallAnswered ==
    last.tool = "event_impact" /\ last.q.list /\ last.q.known /\ ~last.q.raises
        => last.result.kind = "ok"

(* The ids an answer was built from, at any distance. *)
Trace(id) ==
    LET up[i \in DOMAIN nodes] == {i} \cup UNION {up[p] : p \in nodes[i] \cap (DOMAIN nodes \ {i})}
    IN  up[id]

(* Each answer of a conversation leads back to all the earlier ones; and unless
   a write of the file failed, no answer is missing from the graph, whatever
   was restarted in between. *)
LineageComplete ==
    /\ \A i \in DOMAIN scope : Trace(scope[i]) = {scope[k] : k \in 1 .. i}
    /\ faults = 0 => DOMAIN nodes = given

(* The inductive invariant: the last result is that of its tool and question on the
   tables as they are, the answers of a conversation have the earlier ones for
   parents, and without a fault the file holds the graph. *)
Answered ==
    last.tool # "none" =>
        last.tool \in Tools /\ last.q \in Asked /\ last.result = Outcome(last.tool, last.q)

Linked ==
    /\ scope \in Seq(1 .. count.calls)
    /\ DOMAIN nodes \subseteq 1 .. count.calls /\ given \subseteq 1 .. count.calls
    /\ disk # Torn => DOMAIN disk \subseteq 1 .. count.calls
    /\ \A j, k \in DOMAIN scope : j < k => scope[j] < scope[k]
    /\ \A k \in DOMAIN scope :
          scope[k] \in DOMAIN nodes /\ nodes[scope[k]] = {scope[j] : j \in 1 .. k - 1}
    /\ faults = 0 => disk = nodes /\ DOMAIN nodes = given

IInv ==
    /\ count \in [calls : Nat, errors : Nat, graded : Nat, raised : Nat] /\ faults \in Nat
    /\ EnginesAreCurrent /\ Answered /\ Linked
==============================================================================
