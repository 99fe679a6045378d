------------------------------ MODULE JobLimits ------------------------------
(***************************************************************************)
(* How many make jobs a shell runs after it sourced                         *)
(* tools/env_gemmini_thermal.sh: TP_MAX_JOBS and MAKE_JOBS, which the user  *)
(* may have set to anything, are brought into range and exported, so that   *)
(* the next script that sources the file starts from what the last one left *)
(*                                                                          *)
(* A variable is Unset (or empty, the file does not tell them apart), a     *)
(* word that is not a number, or a number.  The tests [ a -lt b ] and       *)
(* [ a -gt b ] are those of bash: they fail, and count as false, when an    *)
(* operand is greater than MaxInt.                                          *)
(***************************************************************************)
EXTENDS Integers

CONSTANTS
    Cap,         \* the 128 of the file
    MaxInt,      \* the largest integer of the shell, 2^63 - 1
    Unset,       \* a variable that is not set, or empty
    Word,        \* a value that is not all digits
    UserValues,  \* what a user may give a variable
    NprocValues  \* what nproc may print: numbers, or a Word

ASSUME JobAssumption ==
    /\ Cap \in Nat \ {0} /\ MaxInt \in Nat /\ Cap <= MaxInt
    /\ Unset # Word /\ Unset \notin Nat /\ Word \notin Nat
    /\ UserValues \subseteq Nat \cup {Unset, Word}
    /\ NprocValues \subseteq Nat \cup {Word}

VARIABLES
    TP_MAX_JOBS,
    MAKE_JOBS,
    sourced   \* has the file been sourced since the user last set a variable?

jobVars == <<TP_MAX_JOBS, MAKE_JOBS, sourced>>

Numeral(v) == v \notin {Unset, Word}    \* =~ ^[0-9]+$

Less(v, w)    == v <= MaxInt /\ w <= MaxInt /\ v < w
Greater(v, w) == v <= MaxInt /\ w <= MaxInt /\ v > w

\* ! [[ v =~ ^[0-9]+$ ]] || [ v -lt 1 ]
Unusable(v) == ~Numeral(v) \/ Less(v, 1)

MaxJobs(v) ==
    IF Unusable(v) \/ Greater(v, Cap) THEN Cap ELSE v

Wanted(v, nproc) ==
    IF v = Unset THEN IF Unusable(nproc) THEN 1 ELSE nproc
    ELSE IF Unusable(v) THEN 1 ELSE v

\* Fault: the limit is compared with before it is brought into range.
JobsOfRawLimit(v, nproc, limit) ==
    LET n == Wanted(v, nproc) IN IF Numeral(TP_MAX_JOBS) /\ Greater(n, TP_MAX_JOBS) THEN limit ELSE n

Jobs(v, nproc, limit) ==
    LET n == Wanted(v, nproc) IN IF Greater(n, limit) THEN limit ELSE n

JobsInit ==
    /\ TP_MAX_JOBS \in UserValues
    /\ MAKE_JOBS \in UserValues
    /\ sourced = FALSE

SetMaxJobs(v) ==
    /\ TP_MAX_JOBS' = v
    /\ sourced' = FALSE
    /\ UNCHANGED MAKE_JOBS

SetMakeJobs(v) ==
    /\ MAKE_JOBS' = v
    /\ sourced' = FALSE
    /\ UNCHANGED TP_MAX_JOBS

\* Fault: the jobs of a variable that is set are taken from nproc at every sourcing.
SourceAfresh(nproc) ==
    /\ TP_MAX_JOBS' = MaxJobs(TP_MAX_JOBS)
    /\ MAKE_JOBS' = Jobs(Unset, nproc, MaxJobs(TP_MAX_JOBS))
    /\ sourced' = TRUE

Source(nproc) ==
    /\ TP_MAX_JOBS' = MaxJobs(TP_MAX_JOBS)
    /\ MAKE_JOBS' = Jobs(MAKE_JOBS, nproc, MaxJobs(TP_MAX_JOBS))
    /\ sourced' = TRUE

JobsNext ==
    \/ \E v \in UserValues : SetMaxJobs(v) \/ SetMakeJobs(v)
    \/ \E nproc \in NprocValues : Source(nproc)

JobsSpec == JobsInit /\ [][JobsNext]_jobVars
-----------------------------------------------------------------------------
(* Properties.                                                              *)

\* No number is beyond the shell's integers.
Representable == \A v \in UserValues \cup NprocValues : Numeral(v) => v <= MaxInt

\* What the documents promise of MAKE_JOBS in every script: after the environment
\* is set up it is a positive number, no greater than TP_MAX_JOBS or 128, whatever
\* the user had set.
JobsLimited ==
    sourced => /\ Numeral(TP_MAX_JOBS) /\ TP_MAX_JOBS \in 1..Cap
               /\ Numeral(MAKE_JOBS) /\ MAKE_JOBS \in 1..TP_MAX_JOBS

\* run_thermal_smoke_flow.sh sources the file, and so does the build script it
\* calls: sourcing again, even where nproc answers differently, changes nothing.
SourcingSettles ==
    [][sourced /\ sourced' => UNCHANGED <<TP_MAX_JOBS, MAKE_JOBS>>]_jobVars
=============================================================================
