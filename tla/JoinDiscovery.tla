--------------------------- MODULE JoinDiscovery ----------------------------
(***************************************************************************)
(* How the relationships between tables are found in the data              *)
(* (relationships.py), and what the columns mean to a query                *)
(* (semantic_model.py).  A cell is a number, 0 is NULL.                    *)
(***************************************************************************)
EXTENDS Integers, SequencesExt, Picking

CONSTANTS
    Tables,         \* the tables of the profile, in their order
    Role            \* the role of every column: [table -> [column -> role]]

VARIABLES
    db,             \* the rows of each table: [table -> sequence of rows]
    rels,           \* relationships found so far, in order
    coarse,         \* of each pair of tables, the last one of low coverage
    seeds,          \* of each pair, the column pairs a composite key may use
    pair,           \* the indices of the next two tables to test
    stage           \* "pairs", "composite", "found"

discoveryVars == <<db, rels, coarse, seeds, pair, stage>>

Column(t) == DOMAIN Role[t]
Measure == {"additive", "ratio"}

(* SemanticModel.from_profile: what a query may ask for. *)
Refs(roles) == {ref \in Range(Tables) \X UNION {Column(u) : u \in Range(Tables)} :
                   ref[2] \in Column(ref[1]) /\ Role[ref[1]][ref[2]] \in roles}
Metrics == Refs(Measure)
Dimensions == Refs({"dimension", "boolean", "date", "timestamp"})

Row(t) == DOMAIN db[t]
Cell(t, r, c) == db[t][r][c]
Values(t, c) == {Cell(t, r, c) : r \in Row(t)} \ {0}

(* _is_join_candidate: neither a measure nor text with many values. *)
Candidate(t) == {c \in Column(t) :
    /\ Role[t][c] \notin Measure
    /\ Role[t][c] = "text" /\ db[t] # <<>> => 2 * Cardinality(Values(t, c)) < Len(db[t])}

JoinKind(fromUnique, toUnique) ==
    CASE fromUnique -> "one_to_one"
      [] ~fromUnique /\ toUnique -> "many_to_one"
      [] OTHER -> "many_to_many"

Relationship(t1, cols1, t2, cols2, kind, matched, total) ==
    [from |-> t1, fcols |-> cols1, to |-> t2, tcols |-> cols2, kind |-> kind,
     found |-> total > 0 /\ 20 * matched >= total,
     strong |-> total > 0 /\ 10 * matched >= 8 * total]

(* _test_pair: the to-side counts as unique when it has as many values as the
   FROM-side has rows. *)
TestPair(t1, c1, t2, c2) ==
    LET from == Values(t1, c1)
        to   == Values(t2, c2)
        rows == Len(db[t1])
    IN  Relationship(t1, <<c1>>, t2, <<c2>>,
                     JoinKind(1000 * Cardinality(from) >= 999 * rows, Cardinality(to) >= rows),
                     Cardinality(from \cap to), Cardinality(from))

Tuple(t, r, cols) == [i \in DOMAIN cols |-> Cell(t, r, cols[i])]
Tuples(t, cols) == {Tuple(t, r, cols) : r \in Row(t)}

(* _test_composite: here the rows that match are counted, and a side is unique
   when it has as many tuples as the FROM-side has rows. *)
TestComposite(t1, cols1, t2, cols2) ==
    LET total == Len(db[t1])
    IN  Relationship(t1, cols1, t2, cols2,
                     JoinKind(1000 * Cardinality(Tuples(t1, cols1)) >= 999 * total,
                              1000 * Cardinality(Tuples(t2, cols2)) >= 999 * total),
                     Cardinality({r \in Row(t1) : Tuple(t1, r, cols1) \in Tuples(t2, cols2)}), total)

(* What a relationship is: two tables and as many columns of the one as of the other. *)
Keys == Seq(UNION {Column(t) : t \in Range(Tables)}) \ {<<>>}
Relation == {r \in [from : Range(Tables), fcols : Keys, to : Range(Tables), tcols : Keys,
                    kind : {"one_to_one", "many_to_one", "many_to_many"},
                    found : BOOLEAN, strong : BOOLEAN] : Len(r.fcols) = Len(r.tcols)}

DiscoveryInit ==
    /\ rels = <<>> /\ coarse = <<>> /\ seeds = <<>>
    /\ pair = <<1, 2>> /\ stage = "pairs"

(* Every candidate column of one table against every one of the other. *)
Related(t1, t2) ==
    {r \in {TestPair(t1, c1, t2, c2) : c1 \in Candidate(t1), c2 \in Candidate(t2)} : r.found}

(* Two tables; the order within the pair is the order of two Python sets. *)
Probe ==
    /\ stage = "pairs" /\ pair[2] <= Len(Tables)
    /\ \E order \in SetToSeqs(Related(Tables[pair[1]], Tables[pair[2]])) :
         LET strong == {i \in DOMAIN order : order[i].strong}
             weak   == (DOMAIN order) \ strong
             fanOut == {i \in DOMAIN order : order[i].kind = "many_to_many"}
         IN  /\ rels' = rels \o Picked(order, strong)
             /\ coarse' = coarse \o Picked(order, {i \in weak : \A j \in weak : j <= i})
             /\ seeds' = Append(seeds, Picked(order, weak \cup fanOut))
    /\ pair' = IF pair[2] < Len(Tables) THEN <<pair[1], pair[2] + 1>>
               ELSE <<pair[1] + 1, pair[1] + 2>>
    /\ UNCHANGED <<db, stage>>

(* All pairs are tested, or the budget of 30 seconds is used up. *)
PairsDone ==
    /\ stage = "pairs"
    /\ stage' = "composite"
    /\ UNCHANGED <<db, rels, coarse, seeds, pair>>

Distinct(s) == Picked(s, {i \in DOMAIN s : \A j \in 1 .. (i - 1) : s[j] # s[i]})

Ordered2(cols) ==
    {<<cols[p[1]], cols[p[2]]>> : p \in {q \in (DOMAIN cols) \X (DOMAIN cols) : q[1] < q[2]}}

(* _discover_composite, for keys of two columns: combinations in the order the
   seeds were found, so that only equally ordered ones are compared. *)
CompositesOf(s) ==
    LET cols1 == Distinct([i \in DOMAIN s |-> s[i].fcols[1]])
        cols2 == Distinct([i \in DOMAIN s |-> s[i].tcols[1]])
    IN  IF Len(s) < 2 THEN {}
        ELSE {r \in {TestComposite(s[1].from, k1, s[1].to, k2) :
                        k1 \in Ordered2(cols1), k2 \in Ordered2(cols2)} : r.strong}

(* A composite key takes the place of the weak single column of its pair. *)
Composites ==
    /\ stage = "composite"
    /\ LET found == [i \in DOMAIN seeds |-> CompositesOf(seeds[i])]
           all == UNION Range(found)
           kept == Picked(coarse, {i \in DOMAIN coarse : \A k \in all :
                                      <<k.from, k.to>> # <<coarse[i].from, coarse[i].to>>})
       IN  \E order \in SetToSeqs(all) : rels' = rels \o kept \o order
    /\ stage' = "found"
    /\ UNCHANGED <<db, coarse, seeds, pair>>

(* The inductive invariant of the discovery. *)
DiscoveryInv ==
    /\ rels \in Seq(Relation) /\ coarse \in Seq(Relation) /\ seeds \in Seq(Seq(Relation))
    /\ pair \in Nat \X Nat /\ 1 <= pair[1] /\ pair[1] < pair[2]

DiscoveryNext == Probe \/ PairsDone \/ Composites
==============================================================================
