---------------------------- MODULE MCJobLimits ----------------------------
(* Small limits for JobLimits: a cap of 4, integers up to 20.                *)
EXTENDS JobLimits

Fitting == 0..8 \cup {20, Unset, Word}
Cpus    == {0, 1, 3, 6, Word}
=============================================================================
