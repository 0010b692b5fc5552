---- MODULE MCRunFamilies ----
\* One root that may delegate to two children, who may delegate in turn, on model
\* values; everything is contended for by sweeps of one row.
EXTENDS RunFamiliesProperties, TLC
====
