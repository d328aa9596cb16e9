------------------------------ MODULE Profiler ------------------------------
(***************************************************************************)
(* The profile of a table and what is made of it: the column statistics of *)
(* the profiler (profiler.py), as a whole or batch by batch, the roles     *)
(* (semantic_roles.py) a user may force (catalog.py) and a model refine    *)
(* (schema_builder.py), and the refresh after an ingest (toolset.py).      *)
(* Numbers are fractions <<numerator, denominator>>.                       *)
(***************************************************************************)
EXTENDS Integers, Sequences, FiniteSets, SequencesExt, FiniteSetsExt

CONSTANTS
    Column,         \* columns of the table, in its last schema
    Batch,          \* what an ingest brings: columns of values, all of one length
    Forced, Hints,  \* role_overrides of a catalog; the hints of a model
    IdRows,         \* rows from which on distinct values make an identifier (50)
    Sampled,        \* sample values that are kept (20)
    MaxIngests, MaxRefreshes        \* bounds of the model

VARIABLES
    table,      \* the values of each column that exists
    profile,    \* AnalyticsToolset._profile
    semantic,   \* the roles of the semantic model in use
    catalog,    \* Catalog: forced roles, include, exclude
    union,      \* the values each statistic was made of
    exact,      \* no value was profiled twice, replaced or decayed since
    hinted,     \* a model refined the roles
    ingests, refreshes

vars == <<table, profile, semantic, catalog, union, exact, hinted, ingests, refreshes>>

NoValue == -1
None == "none"

IsTable(t) ==
    /\ DOMAIN t # {}
    /\ \A c \in DOMAIN t : t[c] \in Seq(Int)
    /\ \A c, d \in DOMAIN t : Len(t[c]) = Len(t[d])

(* What is there in a column: how much of it is missing, what values, their sum. *)
Missing(values) == Cardinality({i \in DOMAIN values : values[i] = NoValue})
Present(values) == Range(values) \ {NoValue}
Total(values) ==
    LET upto[n \in 0 .. Len(values)] ==
            IF n = 0 THEN 0 ELSE upto[n - 1] + (IF values[n] = NoValue THEN 0 ELSE values[n])
    IN  upto[Len(values)]

Plus(x, y) == <<x[1] * y[2] + y[1] * x[2], x[2] * y[2]>>
Over(x, n) == <<x[1], x[2] * n>>
Same(x, y) == x[1] * y[2] = y[1] * x[2]

NoNumber == <<0, 0>>

(* _compute_signals, for whole numbers. *)
Signals(samples, rows, distinct) ==
    {s \in {"bool", "id"} :
        \/ s = "bool" /\ distinct = 2 /\ Range(samples) \subseteq {0, 1}
        \/ s = "id" /\ rows >= IdRows /\ 20 * distinct > 19 * rows}

Samples(values) ==
    LET add(acc, v) == IF v \in Range(acc) \cup {NoValue} THEN acc ELSE Append(acc, v)
        seen == FoldLeft(add, <<>>, values)
    IN  SubSeq(seen, 1, Min({Len(seen), Sampled}))

(* The statistics of one column; sumsq and stddev are kept as sum and mean are. *)
Stat(values, sum) ==
    LET there == Present(values)
    IN  [rows |-> Len(values), nulls |-> Missing(values), distinct |-> Cardinality(there),
         min |-> IF there = {} THEN NoValue ELSE Min(there),
         max |-> IF there = {} THEN NoValue ELSE Max(there),
         sum |-> IF there = {} THEN NoNumber ELSE sum,
         mean |-> IF there = {} THEN NoNumber ELSE <<Total(values), Len(values) - Missing(values)>>,
         samples |-> Samples(values),
         signals |-> Signals(Samples(values), Len(values), Cardinality(there))]

(* ColumnProfile.from_batch *)
FromBatch(values) == Stat(values, <<Total(values), 1>>)

(* profile_column: the sum is the mean of the values times all rows. *)
ProfileColumn(values) ==
    Stat(values, <<Total(values) * Len(values), Len(values) - Missing(values)>>)

(* int(round(n / 2)): a half goes to the even number. *)
HalfOf(n) == IF n % 4 = 3 THEN (n + 1) \div 2 ELSE n \div 2

(* _apply_decay, at a decay of one half. *)
Decayed(a) == [a EXCEPT !.rows = HalfOf(@), !.nulls = HalfOf(@),
                        !.sum = IF @ = NoNumber THEN @ ELSE Over(@, 2)]

Least(a, b)    == IF {a, b} = {NoValue} THEN NoValue ELSE Min({a, b} \ {NoValue})
Greatest(a, b) == IF {a, b} = {NoValue} THEN NoValue ELSE Max({a, b} \ {NoValue})

(* Mutant: the rows of the newer profile only. *)
Merge_NewerRows(a, b) ==
    LET samples == Samples(a.samples \o b.samples)
        sum == IF NoNumber \in {a.sum, b.sum} THEN NoNumber ELSE Plus(a.sum, b.sum)
    IN  [a EXCEPT !.rows = b.rows, !.nulls = @ + b.nulls, !.min = Least(@, b.min),
                  !.max = Greatest(@, b.max), !.sum = sum, !.mean = Over(sum, a.rows + b.rows),
                  !.samples = samples, !.signals = @ \cup b.signals]

(* merge_column_profiles: the mean is taken over all rows, nulls too; a column
   that was empty once has no sum and no mean any more; a signal stays. *)
Merge(a, b) ==
    LET samples == Samples(a.samples \o b.samples)
        sum == IF NoNumber \in {a.sum, b.sum} THEN NoNumber ELSE Plus(a.sum, b.sum)
        rows == a.rows + b.rows
    IN  [rows |-> rows, nulls |-> a.nulls + b.nulls,
         distinct |-> Max({a.distinct, b.distinct,
                           Cardinality(Range(a.samples) \cup Range(b.samples))}),
         min |-> Least(a.min, b.min), max |-> Greatest(a.max, b.max),
         sum |-> sum, mean |-> IF sum = NoNumber \/ rows = 0 THEN NoNumber ELSE Over(sum, rows),
         samples |-> samples, signals |-> a.signals \cup b.signals]

(* classify_role, for a column of whole numbers. *)
Classified(s) ==
    IF "bool" \in s.signals THEN "boolean"
    ELSE IF "id" \in s.signals THEN "identifier"
    ELSE IF s.min # NoValue /\ s.min >= 0 /\ s.max <= 1 THEN "ratio" ELSE "additive"

(* Mutant: the catalog is not asked. *)
RoleFor_Classified(c, s) == Classified(s)

(* Catalog.role_for *)
RoleFor(c, s) == IF catalog.forced[c] = None THEN Classified(s) ELSE catalog.forced[c]

(* discover, reduced to which columns may join, and Catalog.apply. *)
Relations(cols, roles) ==
    ({c \in cols : roles[c] \notin {"ratio", "additive"}} \ catalog.exclude) \cup catalog.include

Profile(stats, rels) ==
    [stats |-> stats, rels |-> rels, roles |-> [c \in DOMAIN stats |-> RoleFor(c, stats[c])]]

Discovered(stats) ==
    Relations(DOMAIN stats, [c \in DOMAIN stats |-> RoleFor(c, stats[c])])

(* profile_dataset *)
ProfileDataset(data) ==
    LET stats == [c \in DOMAIN data |-> ProfileColumn(data[c])]
    IN  Profile(stats, Discovered(stats))

NoProfile == [stats |-> <<>>, rels |-> {}, roles |-> <<>>]

(* profile_dataset_incremental of one table.  batch is <<>> when the source is
   to be profiled again. *)
Update(prev, data, batch, decay) ==
    LET old(c) == IF decay THEN Decayed(prev.stats[c]) ELSE prev.stats[c]
        new(c) == IF batch = <<>> THEN ProfileColumn(data[c]) ELSE FromBatch(batch[c])
        stats  == [c \in DOMAIN data |->
                      IF c \notin DOMAIN prev.stats
                      THEN IF batch # <<>> /\ c \in DOMAIN batch THEN FromBatch(batch[c])
                           ELSE ProfileColumn(data[c])
                      ELSE IF batch = <<>> \/ c \in DOMAIN batch THEN Merge(old(c), new(c))
                      ELSE prev.stats[c]]
    IN  Profile(stats, IF DOMAIN stats = DOMAIN prev.stats THEN prev.rels ELSE Discovered(stats))

(* What the statistics are then made of. *)
Fed(data, batch) ==
    [c \in DOMAIN data |->
        LET before == IF c \in DOMAIN union THEN union[c] ELSE <<>>
        IN  IF batch = <<>> \/ (before = <<>> /\ c \notin DOMAIN batch) THEN before \o data[c]
            ELSE IF c \in DOMAIN batch THEN before \o batch[c] ELSE before]

Rows == Len(table[CHOOSE c \in DOMAIN table : TRUE])
LengthOf(batch) == Len(batch[CHOOSE c \in DOMAIN batch : TRUE])
Empty(n) == [i \in 1 .. n |-> NoValue]

------------------------------------------------------------------------------
(* _apply_hints: those for columns that are known, with roles that are; they
   take the place of whatever the profile says. *)
Hinted(roles, hints) ==
    [c \in DOMAIN roles |-> IF hints[c] = None THEN roles[c] ELSE hints[c]]

(* build_semantic_model, and an AnalyticsToolset that is given the profile or
   profiles lazily.  A model that fails leaves the roles as they are. *)
Init ==
    /\ \E b \in Batch : table = b
    /\ catalog \in [forced : Forced, include : {{}, Column}, exclude : {{}, Column}]
    /\ LET first == ProfileDataset(table)
       IN  \/ /\ profile = first /\ union = table
              /\ semantic = first.roles /\ hinted = FALSE
           \/ /\ profile = NoProfile /\ union = <<>>
              /\ \E h \in Hints : semantic = Hinted(first.roles, h)
              /\ hinted = TRUE
    /\ exact = (profile # NoProfile)
    /\ ingests = 0 /\ refreshes = 0

(* Mutant: the model keeps the roles it had. *)
Refreshed_KeepsRoles(data, batch, decay) ==
    LET base == IF profile = NoProfile THEN ProfileDataset(data) ELSE profile
    IN  /\ profile' = Update(base, data, batch, decay)
        /\ semantic' = IF DOMAIN semantic = DOMAIN data THEN semantic ELSE profile'.roles
        /\ union' = Fed(data, batch)

(* refresh_after_ingest: a profile made now already has the batch in it. *)
Refreshed(data, batch, decay) ==
    LET base == IF profile = NoProfile THEN ProfileDataset(data) ELSE profile
    IN  /\ profile' = Update(base, data, batch, decay)
        /\ semantic' = profile'.roles
        /\ union' = IF profile = NoProfile
                    THEN [c \in DOMAIN data |->
                             IF batch = <<>> \/ c \in DOMAIN batch
                             THEN data[c] \o (IF batch = <<>> THEN data[c] ELSE batch[c])
                             ELSE data[c]]
                    ELSE Fed(data, batch)

(* ingest: rows are appended, or take the place of those with their keys, here
   the first ones; a column that is new is empty in the older rows. *)
Ingest(batch, replace, decay) ==
    LET n == LengthOf(batch)
        kept(c) == IF c \in DOMAIN table THEN table[c] ELSE Empty(Rows)
        given(c) == IF c \in DOMAIN batch THEN batch[c] ELSE Empty(n)
        data == [c \in DOMAIN table \cup DOMAIN batch |->
                    IF replace THEN given(c) \o SubSeq(kept(c), n + 1, Rows)
                    ELSE kept(c) \o given(c)]
    IN  /\ ingests < MaxIngests /\ ingests' = ingests + 1
        /\ replace => n <= Rows
        /\ table' = data
        /\ Refreshed(data, batch, decay)
        /\ exact' = (exact /\ ~replace /\ ~decay /\ DOMAIN table = DOMAIN batch)
        /\ hinted' = FALSE
        /\ UNCHANGED <<catalog, refreshes>>

(* refresh_after_ingest without rows: "re-profiled ... and merged". *)
Refresh ==
    /\ refreshes < MaxRefreshes /\ refreshes' = refreshes + 1
    /\ Refreshed(table, <<>>, FALSE)
    /\ exact' = FALSE /\ hinted' = FALSE
    /\ UNCHANGED <<table, catalog, ingests>>

Next ==
    \/ \E batch \in Batch, replace \in BOOLEAN, decay \in BOOLEAN : Ingest(batch, replace, decay)
    \/ Refresh

Spec == Init /\ [][Next]_vars

------------------------------------------------------------------------------
(* "the result equals profiling the union of both batches", as far as it does:
   without decay, rows, nulls, bounds and, when there are no nulls, the sum are
   those of everything that was profiled, in whatever batches it came; and when
   each row came once and none was replaced, that is the table. *)
CountsFollowStream ==
    exact => \A c \in DOMAIN profile.stats :
        LET s == profile.stats[c]
            u == ProfileColumn(union[c])
        IN  /\ union[c] = table[c]
            /\ s.rows = u.rows /\ s.nulls = u.nulls /\ s.min = u.min /\ s.max = u.max
            /\ s.nulls = 0 => Same(s.sum, u.sum) /\ Same(s.mean, u.mean)

(* A role the user forced holds after every ingest and refresh, in the profile
   and in the model that answers; and a relationship the user excluded is there
   only if the user included it. *)
ForcedRolesHold ==
    /\ \A c \in DOMAIN profile.roles :
          catalog.forced[c] # None =>
             profile.roles[c] = catalog.forced[c] /\ (~hinted => semantic[c] = catalog.forced[c])
    /\ profile # NoProfile =>
          /\ catalog.include \subseteq profile.rels
          /\ profile.rels \cap catalog.exclude \subseteq catalog.include
          /\ semantic = profile.roles

(* "so the result equals profiling the union of both batches" *)
MergeIsUnion ==
    exact => \A c \in DOMAIN profile.stats :
        Same(profile.stats[c].mean, ProfileColumn(union[c]).mean)

(* "Force a column's semantic role": also when a model has refined the roles. *)
HintsYieldToUser ==
    \A c \in DOMAIN semantic : catalog.forced[c] # None => semantic[c] = catalog.forced[c]

(* "keep it ... in sync with arriving data. When None, it is built lazily on first
   refresh": the profile counts the rows of the table. *)
ProfileInSync ==
    \A c \in DOMAIN profile.stats : profile.stats[c].rows = Rows

(* The inductive invariant: while the profile is exact, the statistics of a column
   are those of its values, and its sum and mean are fractions that say so. *)
Summed(s, values) ==
    /\ s.rows = Len(values) /\ s.nulls = Missing(values)
    /\ s.min = IF Present(values) = {} THEN NoValue ELSE Min(Present(values))
    /\ s.max = IF Present(values) = {} THEN NoValue ELSE Max(Present(values))
    /\ s.sum \in Int \X Int /\ s.mean \in Int \X Int
    /\ s.nulls = 0 => /\ s.sum[1] = Total(values) * s.sum[2]
                      /\ s.mean[1] * Len(values) = Total(values) * s.mean[2]

IInv ==
    /\ IsTable(table)
    /\ ForcedRolesHold
    /\ exact => /\ DOMAIN profile.stats = DOMAIN table /\ DOMAIN union = DOMAIN table
                /\ \A c \in DOMAIN table :
                      union[c] = table[c] /\ Summed(profile.stats[c], table[c])
=============================================================================
