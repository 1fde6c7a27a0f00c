------------------------------- MODULE MCCSem -------------------------------
EXTENDS CSem

MCWorkers == {0, 1}
MCSignalers == {2}
\* csem_alloc takes any int; no caller in the repository passes a negative one.
MCNegative == {-1}
==============================================================================
