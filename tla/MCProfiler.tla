------------------------------ MODULE MCProfiler ------------------------------
EXTENDS MCSamples

VARIABLES table, profile, semantic, catalog, union, exact, hinted, ingests, refreshes

Profiles == INSTANCE Profiler WITH
    Column <- {"v", "w"}, Batch <- PBatches, Forced <- PForced, Hints <- PHints,
    IdRows <- 3, Sampled <- 2, MaxIngests <- 2, MaxRefreshes <- 1

Spec == Profiles!Spec

(* "so the result equals profiling the union of both batches": also the mean of
   a column with NULLs. *)
MergeIsUnion == Profiles!MergeIsUnion
==============================================================================
