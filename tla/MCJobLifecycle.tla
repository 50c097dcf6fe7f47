--------------------------- MODULE MCJobLifecycle ---------------------------
(* Small instances of JobLifecycle for TLC: the web process and the scheduler *)
(* tick, two jobs.  Job ids and pairs are interchangeable in safety runs.     *)
EXTENDS JobLifecycle, TLC

Interchangeable == Permutations(Jobs) \cup Permutations(Pairs)

\* A kill or a failing operation in a behaviour of two jobs, not both; the
\* run with one job has both.
OneTrouble == crashes + faults <= 1
=============================================================================
