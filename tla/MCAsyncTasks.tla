----------------------------- MODULE MCAsyncTasks -----------------------------
EXTENDS AsyncTasks

CONSTANT MaxFailures

\* At most MaxFailures tasks fail.
FewFailures == Cardinality(failed) <= MaxFailures
=============================================================================
