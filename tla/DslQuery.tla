------------------------------ MODULE DslQuery ------------------------------
(***************************************************************************)
(* The analytics query language (dsl/): a question in words becomes a      *)
(* query (nl.py), its text (ast.py), tokens (parser.py), names of the      *)
(* model (grounding.py, catalog.py) and at last what is planned            *)
(* (engine.py).  A name or a text is a sequence of words in lower case.    *)
(***************************************************************************)
EXTENDS Integers, FiniteSetsExt, SequencesExt, Picking

CONSTANTS
    MetricRef, DimensionRef,    \* the model: names table.column ...
    ColumnOf,                   \* ... and the bare column of each
    TimeColumn,                 \* time_columns
    Synonyms,                   \* NameResolver.synonyms: [name -> name]
    ValueSynonyms,              \* NameResolver.value_synonyms, of every dimension
    BaseCatalog, DatasetCatalog,    \* calculated metrics: [name -> names in its expression]
    Plain,                      \* values that are one word or a number
    Escaped,                    \* values with a backslash, and what unescaping leaves
    Sentence,                   \* questions in words
    Typed                       \* token sequences that are typed in as they are

VARIABLES
    asked,      \* the query that nl_to_dsl built, or <<>> when a text was typed
    tokens, ps, \* the text, and the state of the parser
    spec,       \* the QuerySpec
    stage       \* "new", "parse", "ground", "planned", "failed"

vars == <<asked, tokens, ps, spec, stage>>

Tok(k, v) == [k |-> k, v |-> v]
Id(w) == Tok("ID", <<w>>)
Op(o) == Tok("OP", <<o>>)
End == Tok("END", <<>>)

Keyword == {"select", "by", "where", "and", "since", "between", "order", "asc",
            "desc", "limit", "as", "in", "like", "days", "weeks", "months"}
Reserved == {<<w>> : w \in Keyword}
Comparison == {"=", "!=", "<>", "<", "<=", ">", ">="}
Digits == {<<n>> : n \in {"7", "30", "100"}}

EmptyQuery == [metrics |-> <<>>, dims |-> <<>>, filters |-> <<>>, days |-> <<>>,
               between |-> <<>>, order |-> <<>>, desc |-> TRUE, limit |-> <<>>]

------------------------------------------------------------------------------
(* _render_value: bare, or in quotes with the quotes escaped but no backslash. *)
RenderValue(v) ==
    IF v \in Digits THEN Tok("NUM", v)
    ELSE IF v \in Plain THEN Tok("ID", v)
    ELSE Tok("STR", IF v \in DOMAIN Escaped THEN Escaped[v] ELSE v)

List(s) == [i \in 1 .. 2 * Len(s) - 1 |-> IF i % 2 = 1 THEN s[(i + 1) \div 2] ELSE Tok("COMMA", <<",">>)]

RenderFilter(f) ==
    IF f.op = "in"
    THEN <<Tok("ID", f.col), Id("in"), Tok("LP", <<"(">>)>>
         \o List([i \in DOMAIN f.val |-> RenderValue(f.val[i])]) \o <<Tok("RP", <<")">>)>>
    ELSE <<Tok("ID", f.col), IF f.op = "like" THEN Id("like") ELSE Op(f.op), RenderValue(f.val[1])>>

(* A date that is not quoted is read as numbers and signs. *)
RenderDate(d) == [i \in DOMAIN d |-> IF i % 2 = 1 THEN Tok("NUM", <<d[i]>>) ELSE Op(d[i])]

Clause(present, words) == IF present THEN words ELSE <<>>

Names(s) == List([i \in DOMAIN s |-> Tok("ID", s[i])])

(* DslQuery.to_text, and the tokens it is read as: names are quoted into one
   token, the names after ORDER BY are not. *)
SelectText(q) == <<Id("select")>> \o Names(q.metrics)

WhereText(q) ==
    <<Id("where")>> \o FlattenSeq([i \in DOMAIN q.filters |->
        (IF i > 1 THEN <<Id("and")>> ELSE <<>>) \o RenderFilter(q.filters[i])])

OrderText(q) ==
    <<Id("order"), Id("by")>> \o [i \in DOMAIN q.order |-> Id(q.order[i])]
    \o <<Id(IF q.desc THEN "desc" ELSE "asc")>>

(* The clauses in their order, those that are absent without a token. *)
ClauseTexts(q) ==
    <<Clause(q.dims # <<>>, <<Id("by")>> \o Names(q.dims)),
      Clause(q.filters # <<>>, WhereText(q)),
      Clause(q.days # <<>>, <<Id("since"), Tok("NUM", q.days), Id("days")>>),
      IF q.between = <<>> THEN <<>>
      ELSE <<Id("between")>> \o RenderDate(q.between[1]) \o <<Id("and")>> \o RenderDate(q.between[2]),
      Clause(q.order # <<>>, OrderText(q)),
      Clause(q.limit # <<>>, <<Id("limit"), Tok("NUM", q.limit)>>)>>

Render(q) == SelectText(q) \o FlattenSeq(ClauseTexts(q))

------------------------------------------------------------------------------
(* The parser: at says what is expected next, clause how far the query is, and
   expr, depth and compound belong to the metric that is being read. *)
ParserStart == [i |-> 1, at |-> "select", clause |-> 0, q |-> EmptyQuery,
                expr |-> <<>>, depth |-> 0, compound |-> FALSE, list |-> <<>>]

At(n) == IF ps.i + n \in DOMAIN tokens THEN tokens[ps.i + n] ELSE End
IsKw(t, w) == t.k = "ID" /\ t.v = <<w>>
Operand(t) == t.k = "ID" /\ t.v \notin Reserved
Scalar(t) == t.k \in {"NUM", "STR"} \/ Operand(t)

To(n, at, q) == [ps EXCEPT !.i = @ + n, !.at = at, !.q = q]
Error == [ps EXCEPT !.at = "error"]

(* parse_expr: the words, and whether it is more than one operand. *)
Expression(t) ==
    IF ps.at = "operand"
    THEN CASE t.k = "OP" /\ t.v \in {<<"-">>, <<"+">>} ->
                 [To(1, "operand", ps.q) EXCEPT !.expr = @ \o t.v,
                     !.compound = @ \/ (ps.expr = <<>> /\ t.v = <<"-">>)]
           [] t.k = "LP" -> [To(1, "operand", ps.q) EXCEPT !.expr = @ \o t.v, !.depth = @ + 1]
           [] t.k = "NUM" \/ Operand(t) -> [To(1, "operator", ps.q) EXCEPT !.expr = @ \o t.v]
           [] OTHER -> Error
    ELSE IF t.k = "OP" /\ t.v \in {<<"+">>, <<"-">>, <<"*">>, <<"/">>}
         THEN [To(1, "operand", ps.q) EXCEPT !.expr = @ \o t.v,
                                             !.compound = @ \/ ps.depth = 0]
         ELSE IF t.k = "RP" /\ ps.depth > 0
         THEN [To(1, "operator", ps.q) EXCEPT !.expr = @ \o t.v, !.depth = @ - 1]
         ELSE IF ps.depth > 0 THEN Error ELSE [ps EXCEPT !.at = "metric"]

(* The end of parse_metric: an expression needs a name. *)
MetricEnd(t) ==
    LET aliased == IsKw(t, "as") /\ At(1).k = "ID"
        text == ps.expr \o (IF aliased THEN <<"as">> \o At(1).v ELSE <<>>)
        n == IF aliased THEN 2 ELSE 0
        q == [ps.q EXCEPT !.metrics = Append(@, text)]
    IN  IF (IsKw(t, "as") /\ ~aliased) \/ (ps.compound /\ ~aliased) THEN Error
        ELSE IF At(n).k = "COMMA"
        THEN [To(n + 1, "operand", q) EXCEPT !.expr = <<>>, !.compound = FALSE]
        ELSE To(n, "clause", q)

(* parse_filter; the values of IN (...) are read one by one. *)
Filter(t) ==
    LET add(op, val) == [ps.q EXCEPT !.filters = Append(@, [col |-> t.v, op |-> op, val |-> val])]
    IN  IF ~Operand(t) THEN Error
        ELSE IF At(1).k = "OP" /\ At(1).v[1] \in Comparison /\ Scalar(At(2))
        THEN To(3, "filterEnd", add(At(1).v[1], <<At(2).v>>))
        ELSE IF IsKw(At(1), "like") /\ Scalar(At(2))
        THEN To(3, "filterEnd", add("like", <<At(2).v>>))
        ELSE IF IsKw(At(1), "in") /\ At(2).k = "LP"
        THEN [To(3, "values", add("in", <<>>)) EXCEPT !.list = <<>>]
        ELSE Error

Values(t) ==
    LET all == Append(ps.list, t.v)
        q == [ps.q EXCEPT !.filters[Len(ps.q.filters)].val = all]
    IN  IF ~Scalar(t) THEN Error
        ELSE IF At(1).k = "COMMA" THEN [To(2, "values", ps.q) EXCEPT !.list = all]
        ELSE IF At(1).k = "RP" THEN To(2, "filterEnd", q) ELSE Error

(* The clauses after the metrics, each at most once and in this order. *)
Order == <<"by", "where", "since", "between", "order", "limit">>

(* Mutant: a clause is only recognised when the one before it was left out. *)
ClauseStart_Skips(t) ==
    LET next == {c \in ps.clause + 2 .. Len(Order) : IsKw(t, Order[c])}
    IN  IF t = End THEN [ps EXCEPT !.at = "done"]
        ELSE IF next = {} THEN Error
        ELSE [To(1, Order[Min(next)], ps.q) EXCEPT !.clause = Min(next)]

ClauseStart(t) ==
    LET next == {c \in ps.clause + 1 .. Len(Order) : IsKw(t, Order[c])}
    IN  IF t = End THEN [ps EXCEPT !.at = "done"]
        ELSE IF next = {} THEN Error
        ELSE [To(1, Order[Min(next)], ps.q) EXCEPT !.clause = Min(next)]

Dimension(t) ==
    LET q == [ps.q EXCEPT !.dims = Append(@, t.v)]
    IN  IF ~Operand(t) THEN Error
        ELSE IF At(1).k = "COMMA" THEN To(2, "by", q) ELSE To(1, "clause", q)

(* parse_duration; here the days stand for what a unit makes of them. *)
Since(t) ==
    IF t.k = "NUM" /\ At(1).v \in {<<"days">>, <<"weeks">>, <<"months">>}
    THEN To(2, "clause", [ps.q EXCEPT !.days = t.v]) ELSE Error

Between(t) ==
    IF t.k \in {"STR", "NUM"} /\ IsKw(At(1), "and") /\ At(2).k \in {"STR", "NUM"}
    THEN To(3, "clause", [ps.q EXCEPT !.between = <<t.v, At(2).v>>]) ELSE Error

OrderBy(t) ==
    LET way == IsKw(At(2), "asc") \/ IsKw(At(2), "desc")
    IN  IF IsKw(t, "by") /\ Operand(At(1))
        THEN To(IF way THEN 3 ELSE 2, "clause",
                [ps.q EXCEPT !.order = At(1).v, !.desc = ~IsKw(At(2), "asc")])
        ELSE Error

Advance ==
    LET t == At(0) IN
    CASE ps.at = "select" -> IF IsKw(t, "select") THEN To(1, "operand", ps.q) ELSE Error
      [] ps.at \in {"operand", "operator"} -> Expression(t)
      [] ps.at = "metric" -> MetricEnd(t)
      [] ps.at = "clause" -> ClauseStart(t)
      [] ps.at = "by" -> Dimension(t)
      [] ps.at = "where" -> Filter(t)
      [] ps.at = "values" -> Values(t)
      [] ps.at = "filterEnd" -> IF IsKw(t, "and") THEN To(1, "where", ps.q) ELSE To(0, "clause", ps.q)
      [] ps.at = "since" -> Since(t)
      [] ps.at = "between" -> Between(t)
      [] ps.at = "order" -> OrderBy(t)
      [] ps.at = "limit" -> IF t.k = "NUM" THEN To(1, "clause", [ps.q EXCEPT !.limit = t.v]) ELSE Error

------------------------------------------------------------------------------
(* MetricCatalog.override: the dataset's definitions win. *)
Catalog == [n \in DOMAIN BaseCatalog \cup DOMAIN DatasetCatalog |->
               IF n \in DOMAIN DatasetCatalog THEN DatasetCatalog[n] ELSE BaseCatalog[n]]

Uses(cat, n) == cat[n] \cap DOMAIN cat

(* What a name depends on in a catalog, through any number of definitions. *)
Depends(cat, n) ==
    FoldSet(LAMBDA m, acc : acc \cup UNION {Uses(cat, x) : x \in acc}, Uses(cat, n), DOMAIN cat)

Cyclic(cat, n) == \E m \in {n} \cup Depends(cat, n) : m \in Depends(cat, m)

(* validate(), of the dataset's catalog alone: cycles and unknown columns. *)
Broken(cat) == \E n \in DOMAIN cat : Cyclic(cat, n)

FromModel(refs, n) == {r \in refs : n \in {r, ColumnOf[r]}}

(* NameResolver.resolve_metric: column, catalog, synonym; fuzzy matching is off. *)
ResolveMetric(n) ==
    IF FromModel(MetricRef, n) # {} THEN FromModel(MetricRef, n)
    ELSE IF n \in DOMAIN Catalog THEN {n}
    ELSE IF n \in DOMAIN Synonyms
    THEN FromModel(MetricRef, Synonyms[n]) \cup ({Synonyms[n]} \cap DOMAIN Catalog)
    ELSE {}

ResolveDimension(n) ==
    IF FromModel(DimensionRef, n) # {} THEN FromModel(DimensionRef, n)
    ELSE IF n \in DOMAIN Synonyms THEN FromModel(DimensionRef, Synonyms[n]) ELSE {}

(* Mutant: only the dataset's own definitions are followed. *)
Resolvable_Dataset(n) == ~(n \in DOMAIN DatasetCatalog /\ Cyclic(DatasetCatalog, n))

(* MetricCatalog.resolve raises on a cycle. *)
Resolvable(n) == ~(n \in DOMAIN Catalog /\ Cyclic(Catalog, n))

(* _split_alias: what comes before AS is expanded as it stands. *)
Inline(m) == \E i \in DOMAIN m : m[i] = "as"
InlineNames(m) == {<<m[i]>> : i \in {j \in DOMAIN m : ~\E k \in 1 .. j : m[k] = "as"}}

MetricGrounds(m) ==
    IF Inline(m) THEN \A n \in InlineNames(m) \cap DOMAIN Catalog : Resolvable(n)
    ELSE ResolveMetric(m) # {} /\ \A n \in ResolveMetric(m) : Resolvable(n)

(* _normalize_value raises for a column that is not a dimension. *)
FilterGrounds(f) == ResolveDimension(f.col) # {}

NormalValue(f, v) ==
    LET dim == CHOOSE d \in ResolveDimension(f.col) : TRUE
    IN  IF dim \in DOMAIN ValueSynonyms /\ v \in DOMAIN ValueSynonyms[dim]
        THEN ValueSynonyms[dim][v] ELSE v

Grounds(q) ==
    /\ \A i \in DOMAIN q.metrics : MetricGrounds(q.metrics[i])
    /\ \A i \in DOMAIN q.dims : ResolveDimension(q.dims[i]) # {}
    /\ \A i \in DOMAIN q.filters : FilterGrounds(q.filters[i])
    /\ (q.order # <<>> /\ ~\E i \in DOMAIN q.metrics : q.metrics[i] = q.order) =>
           ResolveDimension(q.order) # {}

(* to_spec, and the part of it that _build_where makes a condition of: a
   comparison, and a period when the model has a time column. *)
Spec0(q) ==
    LET normal == [i \in DOMAIN q.filters |->
                      [col |-> CHOOSE d \in ResolveDimension(q.filters[i].col) : TRUE,
                       op |-> q.filters[i].op,
                       val |-> [j \in DOMAIN q.filters[i].val |->
                                   NormalValue(q.filters[i], q.filters[i].val[j])]]]
    IN  [metrics |-> UNION {IF Inline(m) THEN InlineNames(m) \cap DOMAIN Catalog
                            ELSE ResolveMetric(m) : m \in Range(q.metrics)},
         filters |-> normal,
         where |-> SelectSeq(normal, LAMBDA f : f.op \in Comparison),
         period |-> (q.days # <<>> \/ q.between # <<>>) /\ TimeColumn # <<>>]

------------------------------------------------------------------------------
NoSpec == [metrics |-> {}, filters |-> <<>>, where |-> <<>>, period |-> FALSE]

(* LocalEntityDetector.detect: words that ground to a metric, else to a
   dimension; "<dimension> is <value>"; a period. *)
Detect(s) ==
    [EmptyQuery EXCEPT
        !.metrics = Picked(s.words, {i \in DOMAIN s.words : ResolveMetric(s.words[i]) # {}}),
        !.dims = Picked(s.words, {i \in DOMAIN s.words : ResolveMetric(s.words[i]) = {}
                                                       /\ ResolveDimension(s.words[i]) # {}}),
        !.filters = Picked(s.filters, {i \in DOMAIN s.filters :
                                          ResolveDimension(s.filters[i].col) # {}}),
        !.days = s.days, !.between = s.between, !.order = s.order, !.limit = s.limit]

Init ==
    /\ asked = <<>> /\ tokens = <<>> /\ ps = ParserStart /\ spec = NoSpec
    /\ stage = IF Broken(DatasetCatalog) THEN "failed" ELSE "new"

(* nl_query: the question becomes text, or it is not understood. *)
AskInWords(s) ==
    /\ stage = "new"
    /\ LET q == Detect(s)
       IN  IF q.metrics = <<>> /\ q.dims = <<>>
           THEN stage' = "failed" /\ UNCHANGED <<asked, tokens>>
           ELSE stage' = "parse" /\ asked' = <<q>> /\ tokens' = Render(q)
    /\ UNCHANGED <<ps, spec>>

(* dsl_query: the text comes from the model. *)
AskInText(text) ==
    /\ stage = "new"
    /\ stage' = "parse" /\ tokens' = text
    /\ UNCHANGED <<asked, ps, spec>>

ParseStep ==
    /\ stage = "parse"
    /\ ps' = Advance
    /\ stage' = CASE ps'.at = "error" -> "failed" [] ps'.at = "done" -> "ground" [] OTHER -> "parse"
    /\ UNCHANGED <<asked, tokens, spec>>

(* DslEngine._plan *)
Ground ==
    /\ stage = "ground"
    /\ IF Grounds(ps.q) THEN stage' = "planned" /\ spec' = Spec0(ps.q)
       ELSE stage' = "failed" /\ UNCHANGED spec
    /\ UNCHANGED <<asked, tokens, ps>>

Next ==
    \/ \E s \in Sentence : AskInWords(s)
    \/ \E text \in Typed : AskInText(text)
    \/ ParseStep
    \/ Ground

Spec == Init /\ [][Next]_vars

------------------------------------------------------------------------------
(* What the parser expects, and what texts and questions are. *)
Place == {"select", "operand", "operator", "metric", "clause", "by", "where", "values", "filterEnd",
          "since", "between", "order", "limit", "done", "error"}
Name == Seq(STRING)
Written == Keyword \cup Comparison \cup {",", "(", ")"}
Token == [k : {"ID", "NUM", "STR", "OP", "LP", "RP", "COMMA"}, v : Name]
Condition == {f \in [col : Name, op : Comparison, val : Seq(Name)] : Len(f.val) = 1}
Query == [metrics : Seq(Name), dims : Seq(Name), filters : Seq(Condition), days : Name,
          between : {<<>>} \cup (Name \X Name), order : Name, desc : {TRUE}, limit : Name]
IsSentence(s) ==
    /\ s.words \in Seq(Name) /\ s.filters \in Seq(Condition)
    /\ s.days \in Name /\ s.between \in {<<>>} \cup (Name \X Name)
    /\ s.order \in Name /\ s.limit \in Name

Expressible(q) ==
    /\ q.metrics # <<>> /\ q.between = <<>> /\ Len(q.order) <= 1
    /\ Reserved \cap (Range(q.metrics) \cup Range(q.dims) \cup {q.order}) = {}
    /\ \A f \in Range(q.filters) :
          /\ f.col \notin Reserved
          /\ \A v \in Range(f.val) : v \notin Reserved \cup DOMAIN Escaped

(* "canonical, normalized form of the query (round-trip)": the text of a query that
   has a metric, no dates and no reserved word is read back as that query. *)
TextMeansQuery ==
    \A q \in Range(asked) : Expressible(q) =>
        /\ stage \in {"ground", "planned"} => ps.q = q
        /\ ps.at # "error"

(* How many tokens of the text of q there are up to a clause, and what they say. *)
Upto(q, c) ==
    LET clause(n) == IF n <= c THEN Len(ClauseTexts(q)[n]) ELSE 0
    IN  Len(SelectText(q)) + clause(1) + clause(2) + clause(3) + clause(4) + clause(5) + clause(6)
Said(q, c) ==
    [metrics |-> q.metrics,
     dims    |-> IF c >= 1 THEN q.dims ELSE <<>>,
     filters |-> IF c >= 2 THEN q.filters ELSE <<>>,
     days    |-> IF c >= 3 THEN q.days ELSE <<>>,
     between |-> <<>>,
     order   |-> IF c >= 5 THEN q.order ELSE <<>>,
     desc    |-> TRUE,
     limit   |-> IF c >= 6 THEN q.limit ELSE <<>>]

(* How far the parser is in the text of q: so many elements of a list are read. *)
InMetrics(q) ==
    /\ ps.clause = 0 /\ ps.depth = 0 /\ ~ps.compound
    /\ \/ /\ ps.at = "operand" /\ ps.expr = <<>>
          /\ \E n \in 0 .. Len(q.metrics) - 1 :
                ps.i = 2 * n + 2 /\ ps.q = [EmptyQuery EXCEPT !.metrics = SubSeq(q.metrics, 1, n)]
       \/ /\ ps.at \in {"operator", "metric"}
          /\ \E n \in 0 .. Len(q.metrics) - 1 :
                /\ ps.i = 2 * n + 3 /\ ps.expr = q.metrics[n + 1]
                /\ ps.q = [EmptyQuery EXCEPT !.metrics = SubSeq(q.metrics, 1, n)]
InDimensions(q) ==
    /\ ps.at = "by" /\ ps.clause = 1
    /\ \E n \in 0 .. Len(q.dims) - 1 :
          ps.i = Upto(q, 0) + 2 * n + 2 /\ ps.q = [Said(q, 0) EXCEPT !.dims = SubSeq(q.dims, 1, n)]
InFilters(q) ==
    /\ ps.at \in {"where", "filterEnd"} /\ ps.clause = 2
    /\ \E n \in 0 .. Len(q.filters) :
          /\ ps.q = [Said(q, 1) EXCEPT !.filters = SubSeq(q.filters, 1, n)]
          /\ IF ps.at = "where" THEN n < Len(q.filters) /\ ps.i = Upto(q, 1) + 4 * n + 2
             ELSE n > 0 /\ ps.i = Upto(q, 1) + 4 * n + 1
InWord(q, at, c) ==
    /\ ps.at = at /\ ps.clause = c /\ ClauseTexts(q)[c] # <<>>
    /\ ps.i = Upto(q, c - 1) + 2 /\ ps.q = Said(q, c - 1)
AfterClause(q) ==
    /\ ps.at = "clause" /\ ps.clause \in 0 .. 6
    /\ ps.i = Upto(q, ps.clause) + 1 /\ ps.q = Said(q, ps.clause)
Reading(q) ==
    \/ ps = ParserStart
    \/ InMetrics(q) \/ InDimensions(q) \/ InFilters(q)
    \/ InWord(q, "since", 3) \/ InWord(q, "order", 5) \/ InWord(q, "limit", 6)
    \/ AfterClause(q)
    \/ ps.at = "done" /\ ps.q = q

(* "cyclic dependency among calculated metrics": what is planned ends in columns of
   the source, also when two catalogs that are each free of cycles are layered; and
   a text that is planned was read to its end. *)
PlannedEndsInColumns ==
    stage = "planned" =>
        /\ \A n \in spec.metrics \cap DOMAIN Catalog : n \notin Depends(Catalog, n)
        /\ ps.i = Len(tokens) + 1 /\ ps.depth = 0

(* The inductive invariant: the parser is at a place of the text with what was said up
   to there, and inside parentheses only while it reads an expression. *)
IInv ==
    /\ asked = <<>> \/ (asked = <<asked[1]>> /\ asked[1] \in Query)
    /\ tokens \in Seq(Token)
    /\ ps \in [i : 1 .. Len(tokens) + 1, at : Place, clause : 0 .. 6, q : {ps.q}, expr : {ps.expr},
               depth : Nat, compound : {ps.compound}, list : {ps.list}]
    /\ stage = "new" => asked = <<>> /\ ps = ParserStart
    /\ stage = "parse" => ps.at \notin {"done", "error"}
    /\ stage \in {"ground", "planned"} => ps.at = "done"
    /\ ps.at = "done" => ps.i = Len(tokens) + 1
    /\ ps.at \notin {"operand", "operator", "error"} => ps.depth = 0
    /\ \A q \in Range(asked) : Expressible(q) => tokens = Render(q) /\ Reading(q)
    /\ stage = "planned" => Grounds(ps.q) /\ spec = Spec0(ps.q)

(* "Comparisons: = != <> < <= > >= IN (...) LIKE": every filter of the text is a
   condition of the query. *)
FiltersApplied == stage = "planned" => spec.where = spec.filters

(* The same as TextMeansQuery of every query that a question can become. *)
QueriesRoundTrip == \A q \in Range(asked) : ps.at # "error" /\ (stage = "planned" => ps.q = q)
==============================================================================
