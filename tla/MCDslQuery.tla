------------------------------ MODULE MCDslQuery ------------------------------
EXTENDS MCSamples

VARIABLES asked, tokens, ps, spec, stage

Dsl == INSTANCE DslQuery WITH
    MetricRef <- QMetrics, DimensionRef <- QDims, ColumnOf <- QColumns, TimeColumn <- QTime,
    Synonyms <- QSynonyms, ValueSynonyms <- QValues, BaseCatalog <- QBase,
    DatasetCatalog <- QDataset, Plain <- QPlain, Escaped <- QEscaped,
    Sentence <- QSentences, Typed <- QTyped

Spec == Dsl!Spec

(* "Comparisons: = != <> < <= > >= IN (...) LIKE": every filter of the text is a
   condition of the query. *)
FiltersApplied == Dsl!FiltersApplied
==============================================================================
