---------------------------- MODULE MCThreadPool ----------------------------
\* Model-checking instances of ThreadPool.
EXTENDS ThreadPool

\* Tasks are numbered; the priority is the number.
NumberedPriority == [k \in Tasks |-> k]
=============================================================================
