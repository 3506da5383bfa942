---------------------------- MODULE MCEvalReview ----------------------------
EXTENDS EvalReview

\* The generator of a run has its cases in memory, so what happens to the dataset while
\* a run is reviewed makes no difference here; EvalRuns is checked with its edits.
DatasetStays == category' = category
=============================================================================
