------------------------------ MODULE MCMaster ------------------------------
\* Model-checking instances of Master.
EXTENDS Master

\* Two of the three children of the code: to the master they differ in nothing
\* but their names.
TwoKinds == <<"worker", "acq">>
=============================================================================
