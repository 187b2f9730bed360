------------------------------ MODULE MCSampler ------------------------------
\* Model-checking instances of Sampler.
EXTENDS Sampler

\* A rate may be negative: a counter starts again at 0.
MCMeasures == {-1, 0, 1}
=============================================================================
