------------------------------ MODULE MCSamples ------------------------------
(***************************************************************************)
(* Inputs of the instances that are checked: texts and questions of the    *)
(* query language, tables that are joined, batches that are profiled and   *)
(* frames that models are fitted on.                                       *)
(***************************************************************************)
EXTENDS Integers, SequencesExt, TLC

W(w) == <<w>>

(* The query language over one table of sales. ----------------------------*)
QMetrics   == {W("s.amount"), W("s.qty")}
QDims      == {W("s.region"), W("s.order")}
QColumns   == (W("s.amount") :> W("amount")) @@ (W("s.qty") :> W("qty"))
              @@ (W("s.region") :> W("region")) @@ (W("s.order") :> W("order"))
QTime      == <<"t">>
QSynonyms  == (<<"net", "win">> :> W("s.amount")) @@ (W("revenue") :> W("s.amount"))
              @@ (W("area") :> W("s.region"))
QValues    == W("s.region") :> (W("europe") :> W("eu"))
(* Two catalogs without a cycle that have one together. *)
QBase      == (W("margin") :> {W("price"), W("s.qty")}) @@ (W("price") :> {W("s.amount")})
QDataset   == (W("price") :> {W("margin")}) @@ (W("avgp") :> {W("s.amount"), W("s.qty")})
QPlain     == {W("europe"), W("eu"), W("in")}
QEscaped   == W("a\\b") :> W("ab")

Equals(c, v) == [col |-> W(c), op |-> "=", val |-> <<W(v)>>]
Dates == <<<<"2024", "-", "01", "-", "02">>, <<"2024", "-", "02", "-", "02">>>>
Said(words) == [i \in DOMAIN words |-> W(words[i])]
QSentences ==
    [words : {Said(<<"revenue">>), Said(<<"amount", "by", "region">>), Said(<<"margin", "area">>), Said(<<"area">>),
              Said(<<"what">>), Said(<<"qty", "avgp", "order">>)},
     filters : {<<>>, <<Equals("region", "europe")>>,
                <<Equals("area", "in"), Equals("nope", "eu")>>,
                <<Equals("region", "a\\b"), Equals("area", "x y")>>},
     days : {<<>>, W("7")}, between : {<<>>, Dates}, order : {<<>>}, limit : {<<>>}]

T(k, v) == [k |-> k, v |-> <<v>>]
Names(words) == [i \in DOMAIN words |-> T("ID", words[i])]
Comma == T("COMMA", ",")
(* An expression with a name and one without, filters that are not comparisons,
   and all the clauses. *)
Whole ==
    {Names(<<"select">>)
       \o <<T("LP", "("), T("ID", "amount"), T("OP", "+"), T("ID", "qty"), T("RP", ")"),
            T("OP", "*"), T("NUM", "7")>>
       \o Names(<<"as", "x">>) \o <<Comma>> \o <<T("OP", "-")>> \o Names(<<"margin", "as", "z">>),
     Names(<<"select", "revenue", "by", "area">>) \o <<Comma>> \o Names(<<"region", "where", "region", "in">>)
       \o <<T("LP", "("), T("ID", "eu"), Comma, T("STR", "x y"), T("RP", ")")>>
       \o Names(<<"and", "area", "like">>) \o <<T("STR", "e%")>>
       \o Names(<<"order", "by", "region", "asc">>),
     Names(<<"select", "revenue", "where", "region">>) \o <<T("OP", "<="), T("NUM", "30")>>
       \o Names(<<"since">>) \o <<T("NUM", "30")>> \o Names(<<"weeks", "between">>)
       \o <<T("STR", "d1")>> \o Names(<<"and">>) \o <<T("STR", "d2")>>
       \o Names(<<"order", "by", "revenue", "limit">>) \o <<T("NUM", "7")>>}
(* Each of them, and each with a word left out. *)
QTyped == Whole \cup {RemoveAt(pair[1], pair[2]) :
                        pair \in {<<text, i>> \in Whole \X (1 .. 30) : i <= Len(text)}}

(* Three tables to join: orders, customers and groups. ---------------------*)
JTables == <<"o", "c", "g">>
JRoles  == [o |-> [k |-> "identifier", m |-> "additive"],
            c |-> [k |-> "identifier", j |-> "identifier", d |-> "dimension"],
            g |-> [j |-> "identifier", a |-> "additive", e |-> "dimension"]]
O(k)       == [k |-> k, m |-> 9]
C(k, j, d) == [k |-> k, j |-> j, d |-> d]
G(j, e)    == [j |-> j, a |-> 9, e |-> e]
JDatabases ==
    [o : {<<O(1), O(1)>>, <<O(1), O(2)>>, <<O(2), O(0)>>},
     c : {<<C(1, 21, 31)>>, <<C(1, 21, 31), C(1, 22, 31)>>, <<C(1, 21, 31), C(2, 22, 31)>>},
     g : {<<G(21, 41)>>, <<G(21, 41), G(22, 41)>>, <<G(21, 41), G(21, 42)>>}]
JQuestions ==
    [metrics : {{<<"o", "m">>}, {<<"g", "a">>}, {<<"o", "m">>, <<"g", "a">>}},
     dimensions : {{}, {<<"c", "d">>}, {<<"c", "d">>, <<"g", "e">>}},
     filters : {{}, {<<"c", "d", 31>>}}]
JGone == {{}, {<<"o", "">>}, {<<"c", "">>}, {<<"c", "k">>}, {<<"g", "e">>},
          {<<"g", "">>, <<"c", "d">>}}

(* Batches of one column or two, -1 for NULL. ------------------------------*)
PBatches == {[v |-> <<0, 1>>], [v |-> <<2>>], [v |-> <<-1, 1>>], [v |-> <<-1>>],
             [v |-> <<3, 1>>, w |-> <<0, 2>>]}
PForced  == {[v |-> "none", w |-> "none"], [v |-> "dimension", w |-> "none"]}
PHints   == {[v |-> "none", w |-> "none"], [v |-> "identifier", w |-> "identifier"]}

(* How often a frame has 0, 1, 2 and no value in its column. ---------------*)
Frame(zeros, ones, twos, nulls) == (0 :> zeros) @@ (1 :> ones) @@ (2 :> twos) @@ (-1 :> nulls)
MFrames  == {Frame(12, 4, 4, 0), Frame(12, 4, 12, 2), Frame(20, 0, 0, 3), Frame(5, 5, 5, 9)}
Toolset(target, cap, full, warehouse, linear) ==
    [target |-> target, cap |-> cap, full |-> full, warehouse |-> warehouse, linear |-> linear]
MSetups  == {Toolset("measure", 0, FALSE, FALSE, FALSE), Toolset("code", 29, TRUE, FALSE, FALSE),
             Toolset("text", 0, FALSE, FALSE, FALSE), Toolset("measure", 0, TRUE, TRUE, TRUE)}
MSubsets == {{0, 1, 2, -1}, {0, 2}, {-1}}
MMonths  == [f \in MFrames |-> IF f[0] = 5 THEN 3 ELSE 4]
(* 1000 times the logarithm of 1 .. 60. *)
MLn == <<0, 693, 1099, 1386, 1609, 1792, 1946, 2079, 2197, 2303, 2398, 2485, 2565, 2639, 2708,
         2773, 2833, 2890, 2944, 2996, 3045, 3091, 3135, 3178, 3219, 3258, 3296, 3332, 3367,
         3401, 3434, 3466, 3497, 3526, 3555, 3584, 3611, 3638, 3664, 3689, 3714, 3738, 3761,
         3784, 3807, 3829, 3850, 3871, 3892, 3912, 3932, 3951, 3970, 3989, 4007, 4025, 4043,
         4060, 4078, 4094>>
==============================================================================
