----------------------------- MODULE QueryPlan ------------------------------
(***************************************************************************)
(* From a question to its rows (query_planner.py): the joins are planned   *)
(* over the relationships that were found, the plan is checked against     *)
(* the live schema and, at best effort, tables that are broken are left    *)
(* out.  A sum is modelled by how often it counts each row of its table.   *)
(***************************************************************************)
EXTENDS JoinDiscovery, FiniteSetsExt

CONSTANTS
    Questions,      \* sets of metrics, dimensions and filters <<table, column, value>>
    Gone,           \* the columns that may be missing: sets of <<table, column>>,
                    \* <<table, "">> for the table
    MaxJoinTables   \* MAX_JOIN_TABLES

VARIABLES
    question,       \* the spec as it was asked
    working,        \* the spec with the broken tables left out
    gone,           \* what the source lacks, although the profile has it
    bestEffort,     \* ANALYTICS_QUERY_BEST_EFFORT
    dropped,        \* dropped_tables
    tree,           \* the JoinTree of the plan
    phase           \* "idle", "validate", "planned", "refused"

planVars == <<question, working, gone, bestEffort, dropped, tree, phase>>
vars == <<discoveryVars, planVars>>

NoQuestion == [metrics |-> {}, dimensions |-> {}, filters |-> {}]
NoTree == [root |-> "", edges |-> {}]

Init ==
    /\ DiscoveryInit
    /\ question = NoQuestion /\ working = NoQuestion
    /\ gone = {} /\ bestEffort = FALSE
    /\ dropped = {} /\ tree = NoTree /\ phase = "idle"

------------------------------------------------------------------------------
(* An edge of the undirected graph of the relationships, seen from its parent. *)
Edge(r, fromParent) ==
    IF fromParent THEN [parent |-> r.from, pcols |-> r.fcols, child |-> r.to,
                        ccols |-> r.tcols, kind |-> r.kind]
    ELSE [parent |-> r.to, pcols |-> r.tcols, child |-> r.from,
          ccols |-> r.fcols, kind |-> r.kind]

Visit(root, s, e) ==
    IF e.child = root \/ \E f \in s.edges : f.child = e.child THEN s
    ELSE [queue |-> Append(s.queue, e.child), edges |-> s.edges \cup {e}]

(* The edges of one table, in the order of the relationships. *)
Adjacent(root, start, t) ==
    LET upto[i \in 0 .. Len(rels)] ==
            IF i = 0 THEN start
            ELSE IF rels[i].from = t THEN Visit(root, upto[i - 1], Edge(rels[i], TRUE))
            ELSE IF rels[i].to = t THEN Visit(root, upto[i - 1], Edge(rels[i], FALSE))
            ELSE upto[i - 1]
    IN  upto[Len(rels)]

Pop(root, s) ==
    IF s.queue = <<>> THEN s
    ELSE Adjacent(root, [queue |-> Tail(s.queue), edges |-> s.edges], Head(s.queue))

(* _bfs: the edge by which each table was reached first. *)
Bfs(root) ==
    LET popped[n \in 0 .. Len(Tables)] ==
            IF n = 0 THEN [queue |-> <<root>>, edges |-> {}] ELSE Pop(root, popped[n - 1])
    IN  popped[Len(Tables)].edges

Reached(root) == {root} \cup {e.child : e \in Bfs(root)}

(* Mutant: the edges into requested tables, without the way to them. *)
Prune_LastHop(edges, requested) == {e \in edges : e.child \in requested}

(* _prune: the edges on a way from the root to a requested table; with a table,
   the table it was reached from is kept. *)
Ways(edges, requested) ==
    {keep \in SUBSET Range(Tables) :
        requested \subseteq keep /\ \A e \in edges : e.child \in keep => e.parent \in keep}
Prune(edges, requested) ==
    {e \in edges : \A keep \in Ways(edges, requested) : e.child \in keep}

TreeFrom(root, requested) == [root |-> root, edges |-> Prune(Bfs(root), requested)]

TablesOf(tr) == {tr.root} \cup {e.child : e \in tr.edges}

(* JoinTree.connect: any of the tables from which most of the others are
   reached; the first in the order of a set of strings wins. *)
Roots(requested) ==
    {t \in requested : \A u \in requested :
        Cardinality(requested \cap Reached(t)) >= Cardinality(requested \cap Reached(u))}

Trees(requested) ==
    {tr \in {TreeFrom(root, requested) : root \in Roots(requested)} :
        requested \subseteq TablesOf(tr) /\ Cardinality(TablesOf(tr)) <= MaxJoinTables}

------------------------------------------------------------------------------
TablesIn(refs) == {ref[1] : ref \in refs}
Facts(q) == TablesIn(q.metrics)
Requested(q) == Facts(q) \cup TablesIn(q.dimensions)

(* One table needs no join. *)
Plans(q) ==
    IF Cardinality(Requested(q)) = 1
    THEN {[root |-> t, edges |-> {}] : t \in Requested(q)} ELSE Trees(Requested(q))

MatchAt(e, p, c) ==
    \A i \in DOMAIN e.pcols :
        Cell(e.parent, p, e.pcols[i]) # 0 /\
        Cell(e.parent, p, e.pcols[i]) = Cell(e.child, c, e.ccols[i])

Kept(q, t, r) == \A f \in q.filters : f[1] = t => Cell(t, r, f[2]) = f[3]

(* FROM root JOIN ... WHERE: one row of every table of the tree. *)
Joined(q, tr) ==
    {f \in [TablesOf(tr) -> UNION {Row(t) : t \in TablesOf(tr)}] :
        /\ \A t \in TablesOf(tr) : f[t] \in Row(t) /\ Kept(q, t, f[t])
        /\ \A e \in tr.edges : MatchAt(e, f[e.parent], f[e.child])}

Group(q, f) == [d \in q.dimensions |-> Cell(d[1], f[d[1]], d[2])]

(* _group_by_query and _star_join: the joined rows are grouped after the join. *)
StarRows(q, rows) ==
    {[group |-> g, copy |-> 0,
      counted |-> [m \in q.metrics |-> [r \in Row(m[1]) |->
          Cardinality({f \in rows : Group(q, f) = g /\ f[m[1]] = r})]]] :
     g \in {Group(q, f) : f \in rows}}

(* The columns each table is grouped by in its CTE: the keys of its joins and the
   dimensions it has. *)
GroupColumns(q, tr) ==
    [t \in TablesOf(tr) |->
        UNION {(IF e.parent = t THEN Range(e.pcols) ELSE {}) \cup
               (IF e.child = t THEN Range(e.ccols) ELSE {}) : e \in tr.edges}
        \cup {d[2] : d \in {d \in q.dimensions : d[1] = t}}]

(* _fact_chain_join: every table is grouped first; the groups are joined, and
   not summed again.  A group is represented by its first row. *)
ChainRows(q, rows, columns) ==
    LET alike(t, r, s) == Kept(q, t, s) /\ \A c \in columns[t] : Cell(t, r, c) = Cell(t, s, c)
        first(t, r) == \A s \in Row(t) : alike(t, r, s) => r <= s
    IN  {[group |-> Group(q, f), copy |-> f,
          counted |-> [m \in q.metrics |-> [r \in Row(m[1]) |->
              IF alike(m[1], f[m[1]], r) THEN 1 ELSE 0]]] :
         f \in {g \in rows : \A t \in DOMAIN columns : first(t, g[t])}}

Answer(q, tr) ==
    IF Cardinality(Facts(q) \cap TablesOf(tr)) <= 1 THEN StarRows(q, Joined(q, tr))
    ELSE ChainRows(q, Joined(q, tr), GroupColumns(q, tr))

------------------------------------------------------------------------------
Lost(ref) == ref \in gone \/ <<ref[1], "">> \in gone
TableGone(t) == <<t, "">> \in gone

KeysOf(e) == {<<e.parent, c>> : c \in Range(e.pcols)} \cup {<<e.child, c>> : c \in Range(e.ccols)}

(* Mutant: dimensions are not looked up. *)
RefBreaches_MetricsOnly(q) == {x[1] : x \in {y \in q.metrics : Lost(y)}}

(* validate_plan: the tables of metrics and dimensions that the source lacks;
   which of them is reported first makes no difference in the end. *)
RefBreaches(q) == {x[1] : x \in {y \in q.metrics \cup q.dimensions : Lost(y)}}

(* ... and then of filters and join keys; these are passed over when the whole
   table is missing. *)
UseBreaches(q, tr) ==
    LET used == {<<f[1], f[2]>> : f \in q.filters} \cup UNION {KeysOf(e) : e \in tr.edges}
    IN  {x[1] : x \in {y \in used : y \in gone /\ ~TableGone(y[1])}}

Breaches(q) ==
    IF RefBreaches(q) # {} THEN RefBreaches(q)
    ELSE UNION {UseBreaches(q, tr) : tr \in Plans(q)}

Keep(refs, t) == {ref \in refs : ref[1] # t}

(* _drop_table_refs *)
Without(q, t) == [metrics |-> Keep(q.metrics, t), dimensions |-> Keep(q.dimensions, t),
                  filters |-> Keep(q.filters, t)]

(* run_query: a question that names metrics, dimensions and filters. *)
Ask(q) ==
    /\ stage = "found" /\ phase = "idle"
    /\ question' = q /\ working' = q
    /\ gone' \in Gone
    /\ bestEffort' \in BOOLEAN
    /\ phase' = "validate"
    /\ UNCHANGED <<discoveryVars, dropped, tree>>

(* plan_query at best effort: a broken table is left out, and the rest is
   validated again. *)
Drop(t) ==
    /\ phase = "validate" /\ bestEffort
    /\ t \in Breaches(working)
    /\ Without(working, t) # working
    /\ working' = Without(working, t)
    /\ dropped' = dropped \cup {t}
    /\ UNCHANGED <<discoveryVars, question, gone, bestEffort, tree, phase>>

(* Nothing left to sum, no way to join the tables, a breach that may not be left
   out, or one of a table that nothing refers to. *)
Raise ==
    /\ phase = "validate"
    /\ \/ RefBreaches(working) = {} /\ (working.metrics = {} \/ Plans(working) = {})
       \/ \E t \in Breaches(working) : ~bestEffort \/ Without(working, t) = working
    /\ phase' = "refused"
    /\ UNCHANGED <<discoveryVars, question, working, gone, bestEffort, dropped, tree>>

(* The plan validates, and is joined as it was validated. *)
Plan(tr) ==
    /\ phase = "validate"
    /\ working.metrics # {}
    /\ RefBreaches(working) = {} /\ tr \in Plans(working) /\ UseBreaches(working, tr) = {}
    /\ tree' = tr
    /\ phase' = "planned"
    /\ UNCHANGED <<discoveryVars, question, working, gone, bestEffort, dropped>>

(* feature_frame_sql: a table reached by a many-to-many relationship is grouped by
   its key first, every other one is joined as it is. *)
FrameRows(tr) ==
    LET grouped(e, f) == e.kind = "many_to_many" =>
            \A s \in Row(e.child) : Tuple(e.child, s, e.ccols) = Tuple(e.child, f[e.child], e.ccols)
                                     => f[e.child] <= s
    IN  {f \in Joined(NoQuestion, tr) : \A e \in tr.edges : grouped(e, f)}

(* A table that was grouped is not there any more under its own name. *)
FrameFails(tr) ==
    \E e, f \in tr.edges : e.kind = "many_to_many" /\ f.parent = e.child

(* build_model: a frame at the grain of the target's table. *)
Frame(target, others) ==
    /\ stage = "found" /\ phase = "idle"
    /\ LET tr == TreeFrom(target, {target} \cup others)
       IN  IF others \subseteq TablesOf(tr) /\ Cardinality(TablesOf(tr)) <= MaxJoinTables
              /\ ~FrameFails(tr)
           THEN tree' = tr /\ phase' = "framed"
           ELSE phase' = "refused" /\ UNCHANGED tree
    /\ UNCHANGED <<discoveryVars, question, working, gone, bestEffort, dropped>>

Next ==
    \/ DiscoveryNext /\ UNCHANGED planVars
    \/ \E q \in Questions : Ask(q)
    \/ \E t \in Range(Tables) : Drop(t)
    \/ phase = "validate" /\ \E tr \in Plans(working) : Plan(tr)
    \/ Raise
    \/ \E t \in Range(Tables) : \E others \in SUBSET (Range(Tables) \ {t}) : Frame(t, others)

Spec == Init /\ [][Next]_vars

------------------------------------------------------------------------------
(* Between two tables there is at most one way over the relationships. *)
OneWay ==
    \A t \in Range(Tables) :
        Cardinality({i \in DOMAIN rels : rels[i].from \in Reached(t)}) = Cardinality(Reached(t)) - 1

(* The joins of a plan form a tree that ends in requested tables only: no other
   table multiplies or drops rows.  The answer does not depend on the table the
   search started from (the order of a set of strings, another one in each
   process) when there is one way between any two tables. *)
PlanIsSound ==
    phase = "planned" =>
        /\ \A e \in tree.edges : e.parent \in TablesOf(tree)
        /\ Cardinality(tree.edges) = Cardinality(TablesOf(tree)) - 1
        /\ Requested(working) \subseteq TablesOf(tree)
        /\ \A t \in TablesOf(tree) \ Requested(working) : \E e \in tree.edges : e.parent = t
        /\ OneWay => \A tr \in Plans(working) : Answer(working, tr) = Answer(working, tree)

(* "a failing table is dropped from the spec and the partial query is returned":
   only tables that are broken are dropped, what remains is what was asked of
   the others, and it asks for nothing that is missing. *)
DropsAreScoped ==
    phase = "planned" =>
        /\ \A t \in dropped : \E ref \in gone : ref[1] = t
        /\ dropped # {} => bestEffort
        /\ \A ref \in working.metrics \cup working.dimensions : ~Lost(ref)
        /\ working.metrics = {m \in question.metrics : m[1] \notin dropped}
        /\ working.dimensions = {d \in question.dimensions : d[1] \notin dropped}

(* The inductive invariant: what remains of the question is what was asked of the
   tables that were not dropped, and the tree is a plan for it. *)
IInv ==
    /\ DiscoveryInv
    /\ phase # "idle" => stage = "found"
    /\ question \in Questions \cup {NoQuestion}
    /\ working.metrics = {m \in question.metrics : m[1] \notin dropped}
    /\ working.dimensions = {d \in question.dimensions : d[1] \notin dropped}
    /\ \A t \in dropped : \E ref \in gone : ref[1] = t
    /\ dropped # {} => bestEffort
    /\ phase = "idle" => dropped = {}
    /\ phase = "planned" => RefBreaches(working) = {} /\ tree \in Plans(working)

(* "turns metric/dimension/filter requests into fan-out-safe SQL": a sum over one
   table counts no row of it twice. *)
FanOutSafe ==
    phase = "planned" /\ Cardinality(Facts(working)) = 1 =>
        \A row \in Answer(working, tree), m \in working.metrics :
            \A r \in Row(m[1]) : row.counted[m][r] <= 1

(* "so the target keeps exactly one row per match", "each target row keeps its own
   attributes": no row of the target occurs twice in a frame. *)
FrameKeepsGrain ==
    phase = "framed" =>
        \A f, g \in FrameRows(tree) : f[tree.root] = g[tree.root] => f = g

(* "a missing/broken table yields a scoped QueryPlanError instead of a generic SQL
   failure": a plan that validates reads tables and columns that exist. *)
ValidatedPlanRuns ==
    phase = "planned" =>
        /\ \A t \in TablesOf(tree) : ~TableGone(t)
        /\ TablesIn(working.filters) \subseteq TablesOf(tree)
==============================================================================
