------------------------------ MODULE Analytics ------------------------------
(***************************************************************************)
(* The parts of the analytics demo that share no state, one beside the     *)
(* other: a behaviour is one of one part, which `part` names.  The upsert  *)
(* has its own variables; s1, s2, ... are those of the other parts.  A     *)
(* constant that two parts have, such as a bound, is one.                  *)
(***************************************************************************)
EXTENDS CsvUpsert, TrustGrade

CONSTANTS
    Start, MinSamples, MaxOutcomes, MaxTunings,                         \* trust
    Table, SynonymMaps, AskedTools,                                     \* toolbox
    Worker, Columns, Backend, Request, TTL, MaxNow, MaxTampers,         \* models
    RecordKey, Poison, MaxRecords, MaxLog, MaxLoads,                    \* topic
    Tables, Role, Databases, Questions, Gone, MaxJoinTables,            \* joins
    MetricRef, DimensionRef, ColumnOf, TimeColumn, Synonyms, ValueSynonyms,
    BaseCatalog, DatasetCatalog, Plain, Escaped, Sentence, Typed,       \* dsl
    Upload, Setting, MaxRuns, MaxImports,                               \* session
    Arrival, Forced, Hints, IdRows, SampleValues, MaxIngests, MaxRefreshes, \* profiles
    Frames, Setups, Subsets, MinRows, ArmRows, MinPeriods, Months, AskedTasks,
    LnMilli,                                                            \* predictor
    MaxCalls, MaxChanges, MaxFaults, MaxRestarts                        \* of several parts

(* The configured thresholds are in the range of the tuning, and in order. *)
ASSUME StartAssumption ==
    /\ Start \in [DOMAIN Low -> Int]
    /\ \A name \in DOMAIN Low : Start[name] \in Low[name] .. High[name]
    /\ Start.ABSTAIN_N <= Start.MIN_N /\ Start.MIN_N <= Start.TRUSTED_N

ASSUME RecordsAssumption == MaxRecords \in Nat

VARIABLES part, s1, s2, s3, s4, s5, s6, s7, s8, s9, s10, s11, s12, s13
others == <<s1, s2, s3, s4, s5, s6, s7, s8, s9, s10, s11, s12, s13>>
all    == <<part, vars, others>>

Trust == INSTANCE AnswerTrust WITH
    threshold <- s1, outcomes <- s2, audited <- s3, lost <- s4, tuned <- s5,
    tunings <- s6, restarts <- s7

Toolbox == INSTANCE AnalyticsTools WITH
    Synonyms <- SynonymMaps, Asked <- AskedTools,
    data <- s1, stale <- s2, model <- s3, engines <- s4, nodes <- s5, disk <- s6,
    scope <- s7, last <- s8, count <- s9, given <- s10, changes <- s11,
    faults <- s12, restarts <- s13

Models == INSTANCE ModelCache WITH
    Column <- Columns,
    data <- s1, files <- s2, sig <- s3, signing <- s4, backend <- s5, job <- s6,
    served <- s7, now <- s8, calls <- s9, changes <- s10, restarts <- s11, tampers <- s12

Topic == INSTANCE StreamIngest WITH
    Key <- RecordKey, MaxFailures <- MaxFaults,
    log <- s1, position <- s2, committed <- s3, batch <- s4, phase <- s5, table <- s6,
    metrics <- s7, control <- s8, loads <- s9, failures <- s10, restarts <- s11

Joins == INSTANCE QueryPlan WITH
    db <- s1, rels <- s2, coarse <- s3, seeds <- s4, pair <- s5, stage <- s6,
    question <- s7, working <- s8, gone <- s9, bestEffort <- s10, dropped <- s11,
    tree <- s12, phase <- s13

Dsl == INSTANCE DslQuery WITH
    asked <- s1, tokens <- s2, ps <- s3, spec <- s4, stage <- s5

Session == INSTANCE AppSession WITH
    MaxLoads <- MaxImports,
    upload <- s1, setting <- s2, ss <- s3, open <- s4, dirs <- s5, audits <- s6,
    capture <- s7, whole <- s8, at <- s9, loads <- s10, runs <- s11

Profiles == INSTANCE Profiler WITH
    Column <- Columns, Batch <- Arrival, Sampled <- SampleValues,
    table <- s1, profile <- s2, semantic <- s3, catalog <- s4, union <- s5, exact <- s6,
    hinted <- s7, ingests <- s8, refreshes <- s9

Predictor == INSTANCE PredictiveTools WITH
    Table <- Frames, Asked <- AskedTasks,
    setup <- s1, rows <- s2, models <- s3, answer <- s4

(* The table of logarithms reaches as far as the frames are large, and is exact to
   two thousandths. *)
ASSUME LnAssumption ==
    LnMilli \in Seq(Int) /\ Len(LnMilli) >= 11 /\ \A b \in 1 .. 11 : LnMilli[b] <= 2400
ASSUME LnAdds ==
    \A c, n \in DOMAIN LnMilli, b \in 1 .. 11 :
        /\ c * b >= n => LnMilli[c] + LnMilli[b] - LnMilli[n] >= -2
        /\ c * b <= n => LnMilli[c] + LnMilli[b] - LnMilli[n] <= 2
ASSUME FramesAssumption ==
    (\A f \in Frames : Predictor!IsFrame(f)) /\ \A setup \in Setups : setup.cap \in Nat

ASSUME JoinsAssumption ==
    /\ Tables \in Seq(Joins!Range(Tables))
    /\ \A t \in Joins!Range(Tables) : IsFiniteSet(Joins!Column(t))
    /\ \A q \in Questions : Joins!Requested(q) \subseteq Joins!Range(Tables)
(* Questions in words compare with one value, as LocalEntityDetector writes them; that
   literals are strings is known to TLC, but not to the provers. *)
ASSUME SentenceAssumption ==
    /\ (\A s \in Sentence : Dsl!IsSentence(s)) /\ Typed \subseteq Seq(Dsl!Token)
    /\ Escaped \in [DOMAIN Escaped -> Dsl!Name]
ASSUME LiteralsAssumption == Dsl!Written \subseteq STRING
ASSUME AskedAssumption == AskedTools \subseteq Toolbox!Question
ASSUME ArrivalAssumption == \A batch \in Arrival : Profiles!IsTable(batch)

-----------------------------------------------------------------------------
Unused(used) ==
    /\ used < 13 => s13 = 0
    /\ used < 12 => s12 = 0
    /\ used < 11 => s11 = 0
    /\ used < 10 => s10 = 0
    /\ used < 9 => s9 = 0
    /\ used < 8 => s8 = 0
    /\ used < 7 => s7 = 0
    /\ used < 6 => s6 = 0
    /\ used < 5 => s5 = 0

(* To the other parts it does not matter which feed the table has. *)
AnalyticsInit ==
    /\ Init
    /\ \/ part = "upsert" /\ s1 = 0 /\ s2 = 0 /\ s3 = 0 /\ s4 = 0 /\ Unused(4)
       \/ part = "trust" /\ Trust!Init /\ Unused(7)
       \/ part = "toolbox" /\ Toolbox!Init
       \/ part = "models" /\ Models!Init /\ Unused(12)
       \/ part = "topic" /\ Topic!Init /\ Unused(11)
       \/ part = "joins" /\ s1 \in Databases /\ Joins!Init
       \/ part = "dsl" /\ Dsl!Init /\ Unused(5)
       \/ part = "session" /\ Session!Init /\ Unused(11)
       \/ part = "profiles" /\ Profiles!Init /\ Unused(9)
       \/ part = "predictor" /\ Predictor!Init /\ Unused(4)
    /\ part # "upsert" => feed = CHOOSE f \in Feed : TRUE

(* What a part leaves alone, besides the table of CsvUpsert. *)
After4  == <<s5, s6, s7, s8, s9, s10, s11, s12, s13>>
After5  == <<s6, s7, s8, s9, s10, s11, s12, s13>>
After7  == <<s8, s9, s10, s11, s12, s13>>
After9  == <<s10, s11, s12, s13>>
After11 == <<s12, s13>>

AnalyticsNext ==
    \/ part = "upsert" /\ Next /\ UNCHANGED <<part, others>>
    \/ part = "trust" /\ Trust!Next /\ UNCHANGED <<part, vars, After7>>
    \/ part = "toolbox" /\ Toolbox!Next /\ UNCHANGED <<part, vars>>
    \/ part = "models" /\ Models!Next /\ UNCHANGED <<part, vars, s13>>
    \/ part = "topic" /\ Topic!Next /\ UNCHANGED <<part, vars, After11>>
    \/ part = "joins" /\ Joins!Next /\ UNCHANGED <<part, vars>>
    \/ part = "dsl" /\ Dsl!Next /\ UNCHANGED <<part, vars, After5>>
    \/ part = "session" /\ Session!Next /\ UNCHANGED <<part, vars, After11>>
    \/ part = "profiles" /\ Profiles!Next /\ UNCHANGED <<part, vars, After9>>
    \/ part = "predictor" /\ Predictor!Next /\ UNCHANGED <<part, vars, After4>>

AnalyticsSpec == AnalyticsInit /\ [][AnalyticsNext]_all

-----------------------------------------------------------------------------
(* A raise of the thresholds never makes an answer look better, a lower never
   worse, whatever was tuned before. *)
TuningIsMonotone == [][part = "trust" => Trust!TuningIsMonotone]_all

(* The thresholds in force are in order and follow from the audited tunings. *)
TuningIsAudited == part = "trust" => Trust!ThresholdsOrdered /\ Trust!TuningIsAudited

(* No answer rests on an old model or on stale tables that the planner read, and
   no effect is asserted that the sample and the backtest do not carry. *)
AnswersAreSupported ==
    part = "toolbox" => Toolbox!EnginesAreCurrent /\ Toolbox!PlannedAnswersAreFresh
                        /\ Toolbox!ClaimsAreSupported

(* Each answer leads back to the earlier ones, over restarts too. *)
LineageComplete == part = "toolbox" => Toolbox!LineageComplete

(* No altered or old file is served, and a worker serves models of the data it
   started with. *)
CachedModelsSound == part = "models" => Models!SoundEntriesServed /\ Models!FreshAfterStart

(* What is committed is in the table, and each missed row count is a breach. *)
StreamIsServed ==
    [][part = "topic" => Topic!CommittedIsServed' /\ Topic!BreachesCounted]_all

(* A plan joins what was asked for along one tree, and drops nothing but what is
   broken. *)
PlansAreSound == part = "joins" => Joins!PlanIsSound /\ Joins!DropsAreScoped

(* A question becomes the query it says, down to columns of the source. *)
QueriesAreMeant == part = "dsl" => Dsl!TextMeansQuery /\ Dsl!PlannedEndsInColumns

(* What is charted is of its question and of the data loaded then, and after a load
   that ran to its end all of the session is of that load. *)
ChartsAreOfTheQuestion == part = "session" => Session!ChartsAreOfTheQuestion

(* The counts of a profile are those of the stream, and forced roles hold. *)
ProfileFollows == part = "profiles" => Profiles!CountsFollowStream /\ Profiles!ForcedRolesHold

(* Rows that left a decile of the training rows have drifted. *)
ShiftIsFlagged == part = "predictor" => Predictor!ShiftIsFlagged
==============================================================================
