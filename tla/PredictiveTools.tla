-------------------------- MODULE PredictiveTools --------------------------
(***************************************************************************)
(* The predictive tools of src/demos/analytics/src/analytics/models_tools  *)
(* over one table with one numeric predictor column and a target column.   *)
(* Rows are told apart by the predictor's value only, so a frame counts    *)
(* the rows of each value (NoValue: no number there).                         *)
(***************************************************************************)
EXTENDS Integers, Sequences, FiniteSets, FiniteSetsExt, Functions

CONSTANTS Table,        \* the contents the table can have
          Setups,       \* [target, cap, full, warehouse, linear] of a toolset
          Subsets,      \* value sets a filter of predict keeps
          MinRows,      \* _MIN_ROWS
          ArmRows,      \* rows uplift wants on either side of the treatment
          MinPeriods,   \* periods a forecast wants
          Months,       \* of each table: the months its time column has values in
          Asked,        \* the task argument
          LnMilli       \* LnMilli[i]: 1000 times the logarithm of i

NoValue == -1
Task == {"classification", "regression"}
NoFrame == <<>>

VARIABLES setup,     \* how the toolset was built
          rows,      \* the table
          models,    \* the stored model of each task: the frame it was fitted on
          answer     \* the last answer
vars == <<setup, rows, models, answer>>

Size(f) == SumFunction(f)
IsFrame(f) == IsFiniteSet(DOMAIN f) /\ f \in [DOMAIN f -> Nat] /\ Size(f) <= Len(LnMilli)
Only(f, kept) == [v \in DOMAIN f |-> IF v \in kept THEN f[v] ELSE 0]
Numeric(f) == Only(f, DOMAIN f \ {NoValue})
Present(f) == {v \in DOMAIN f \ {NoValue} : f[v] > 0}

(* USING SAMPLE cap ROWS: any cap rows of the frame. *)
Sampled(f, cap) ==
    IF cap = 0 \/ Size(f) <= cap THEN {f}
    ELSE LET surplus == Size(f) - cap IN
         {[v \in DOMAIN f |-> f[v] - out[v]] :
             out \in {o \in [DOMAIN f -> 0..surplus] :
                        Size(o) = surplus /\ \A v \in DOMAIN f : o[v] <= f[v]}}

(***************************************************************************)
(* Drift.  The training deciles (in tenths) without their duplicates are   *)
(* the bins, and every bin is expected to hold the same share of the rows. *)
(***************************************************************************)
ValueAt(f, i) ==                    \* the i-th value in order, from 0
    CHOOSE v \in Present(f) : /\ SumFunctionOnSet(f, {w \in Present(f) : w < v}) <= i
                              /\ SumFunctionOnSet(f, {w \in Present(f) : w <= v}) > i
Quantile(f, q) ==
    LET p == q * (Size(f) - 1) IN
    IF (p % 10) = 0 THEN 10 * ValueAt(f, p \div 10)
    ELSE (10 - (p % 10)) * ValueAt(f, p \div 10) + (p % 10) * ValueAt(f, (p \div 10) + 1)
Deciles(f) == {Quantile(f, q) : q \in 0..10}
Bins(edges) == edges \ {Max(edges)}                  \* a bin by its lower edge
BinOf(edges, v) == Max({e \in Bins(edges) : e <= 10 * v} \union {Min(edges)})
CountIn(edges, f, bin) == Size(Only(f, {v \in Present(f) : BinOf(edges, v) = bin}))

(* An index that leaves the empty bins out. *)
PsiTerm_SkipsEmpty(count, n, bins) ==
    (count * bins - n) * (IF count = 0 THEN 0
                          ELSE LnMilli[count] + LnMilli[bins] - LnMilli[n])
(* n * bins times 1000 times one bin's term of the index, with an empty bin
   taken as a millionth.                                                   *)
PsiTerm(count, n, bins) ==
    (count * bins - n) * (IF count = 0 THEN LnMilli[bins] - 13816
                          ELSE LnMilli[count] + LnMilli[bins] - LnMilli[n])
PsiDrift(trained, scored) ==
    LET edges == Deciles(trained)
        n     == Size(scored)
        bins  == Cardinality(Bins(edges))
        terms == [b \in Bins(edges) |-> PsiTerm(CountIn(edges, scored, b), n, bins)]
    IN bins > 0 /\ Size(terms) > 250 * n * bins

(* The warehouse compares means only: more than two deviations apart. *)
Total(f) == MapThenSumSet(LAMBDA v : v * f[v], Present(f))
Squares(f) == MapThenSumSet(LAMBDA v : v * v * f[v], Present(f))
MeanDrift(trained, scored) ==
    LET m   == Size(trained)
        n   == Size(scored)
        gap == Total(scored) * m - Total(trained) * n
        var == m * Squares(trained) - Total(trained) * Total(trained)
    IN gap * gap > 4 * n * n * (IF var = 0 THEN m * m ELSE var)

-----------------------------------------------------------------------------
Answer(tool, n, trained, scored, drift) ==
    [tool |-> tool, ok |-> TRUE, n |-> n, trained |-> trained, scored |-> scored, drift |-> drift]
Failed(tool) == [Answer(tool, 0, NoFrame, NoFrame, FALSE) EXCEPT !.ok = FALSE]
Ungraded == -1

Reply(a) == answer' = a /\ UNCHANGED <<setup, rows, models>>

Init == /\ setup \in Setups
        /\ rows \in Table
        /\ models = [t \in Task |-> NoFrame]
        /\ answer = Failed("none")

TaskOf(asked) ==
    IF asked # "auto" THEN asked
    ELSE IF setup.target = "measure" THEN "regression" ELSE "classification"

TrainingCap == IF setup.full THEN 0 ELSE setup.cap

(* Training data and fitted model: the data is read and judged before the
   store is asked; a text target breaks the fit of a regression.           *)
Fittable(task, data) == Size(data) >= MinRows /\ (task = "regression" => setup.target # "text")
Cached(task, retrain) == models[task] # NoFrame /\ ~retrain
Fitted(task, retrain, data) == IF Cached(task, retrain) THEN models[task] ELSE data
TrainOrLoad(task, retrain, data) ==
    /\ Size(data) >= MinRows
    /\ Cached(task, retrain) \/ Fittable(task, data)
    /\ models' = [models EXCEPT ![task] = Fitted(task, retrain, data)]
    /\ UNCHANGED <<setup, rows>>
TrainingFails(tool, task, retrain, data) ==
    /\ Size(data) < MinRows \/ ~(Fittable(task, data) \/ Cached(task, retrain))
    /\ Reply(Failed(tool))

BuildModel ==
    \E asked \in Asked, retrain \in BOOLEAN, sample \in Sampled(rows, TrainingCap) :
        LET data == Numeric(sample)
            fitted == Fitted(TaskOf(asked), retrain, data)
        IN  \/ /\ TrainOrLoad(TaskOf(asked), retrain, data)
               /\ answer' = Answer("build_model", Size(fitted), fitted, NoFrame, FALSE)
            \/ TrainingFails("build_model", TaskOf(asked), retrain, data)

(* Local scoring turns the whole frame into numbers, the target included. *)
Scorable(frame) == IF setup.target = "text" THEN Only(frame, {}) ELSE Numeric(frame)
ScoreHere(fitted, frame) ==
    LET scored == Scorable(frame) IN
    answer' = IF Size(scored) = 0 THEN Failed("predict")
              ELSE Answer("predict", Size(scored), fitted, scored, PsiDrift(fitted, scored))
(* The warehouse counts every row, and has no mean when no row has a value. *)
ScoreThere(fitted, frame) ==
    answer' = IF Size(Numeric(frame)) = 0 THEN Failed("predict")
              ELSE Answer("predict_in_warehouse", Size(frame), fitted, Numeric(frame),
                          MeanDrift(fitted, Numeric(frame)))

Predict ==
    \E asked \in Asked, kept \in Subsets, sample \in Sampled(rows, TrainingCap) :
        LET task == TaskOf(asked)
            fitted == Fitted(task, FALSE, Numeric(sample))
        IN  \/ /\ TrainOrLoad(task, FALSE, Numeric(sample))
               /\ IF setup.warehouse /\ setup.linear /\ task = "regression"
                  THEN ScoreThere(fitted, Only(rows, kept))
                  ELSE \E frame \in Sampled(Only(rows, kept), setup.cap) : ScoreHere(fitted, frame)
            \/ TrainingFails("predict", task, FALSE, Numeric(sample))

-----------------------------------------------------------------------------
(* The tools that keep no model. *)
Enough(tool, data, enough) ==
    Reply(IF enough THEN Answer(tool, Size(data), NoFrame, data, FALSE) ELSE Failed(tool))

Forecast == Reply(IF Months[rows] < MinPeriods THEN Failed("forecast")
                  ELSE Answer("forecast", Months[rows], NoFrame, NoFrame, FALSE))

(* Two values of the column are the groups; the result names both sizes, none
   of the keys the grade looks for.                                        *)
AbTest ==
    \E a, b \in DOMAIN rows \ {NoValue} :
        Reply(IF setup.target = "text" \/ rows[a] < 2 \/ rows[b] < 2 THEN Failed("ab_test")
              ELSE Answer("ab_test", Ungraded, NoFrame, Only(rows, {a, b}), FALSE))

CausalEffect ==
    \E sample \in Sampled(rows, setup.cap) :
        LET data == Scorable(sample) IN Enough("causal_effect", data, Size(data) >= MinRows)

Arm(data, treated) ==
    LET n == Size(data) IN
    IF n = 0 THEN {}
    ELSE LET median == ValueAt(data, (n - 1) \div 2) + ValueAt(data, n \div 2)
         IN {v \in DOMAIN data : (2 * v > median) = treated}
Uplift ==
    \E sample \in Sampled(rows, setup.cap) :
        LET data == Scorable(sample) IN
        Enough("uplift", data,
               \A treated \in BOOLEAN : SumFunctionOnSet(data, Arm(data, treated)) >= ArmRows)

(* Rows without a value never reach the sample of one table. *)
RowTool(tool) == \E data \in Sampled(Numeric(rows), setup.cap) :
                     Enough(tool, data, Size(data) >= MinRows)
Cluster == RowTool("cluster")
AnomalyDetection == RowTool("anomaly_detection")

(* The table gets other rows. *)
Load == /\ rows' \in Table
        /\ answer' = Failed("none")
        /\ UNCHANGED <<setup, models>>

Next == \/ Load \/ BuildModel \/ Predict \/ Forecast \/ AbTest
        \/ CausalEffect \/ Uplift \/ Cluster \/ AnomalyDetection

Spec == Init /\ [][Next]_vars

-----------------------------------------------------------------------------
(* A prediction over rows that leave a decile of the training rows empty says
   that the rows have drifted, however old the stored model is.            *)
ShiftIsFlagged ==
    answer.tool = "predict" /\ answer.ok =>
        LET edges == Deciles(answer.trained) IN
        (\E bin \in Bins(edges) : CountIn(edges, answer.scored, bin) = 0) => answer.drift

(* The inductive invariant: a prediction is over a frame that has rows, and says
   of it what the index does. *)
IInv ==
    /\ setup \in Setups /\ rows \in Table
    /\ answer.tool = "predict" /\ answer.ok =>
           /\ IsFrame(answer.scored) /\ Size(answer.scored) # 0
           /\ answer.drift = PsiDrift(answer.trained, answer.scored)

(* Rows with the values the model was trained on have not drifted. *)
QuietOnTrainingRows ==
    answer.tool = "predict" /\ answer.ok /\ answer.scored = answer.trained => ~answer.drift

(* Every answer says how much to trust it. *)
EveryAnswerGraded == answer.ok => answer.n # Ungraded

=============================================================================
