------------------------------ MODULE MCEngine ------------------------------
(* Instances of the engine for TLC.                                        *)
EXTENDS Engine, TLC

CONSTANTS j1, j2

\* j1 is a one-time job and j2 a recurring one, each with one retry.
MCRecurring == Jobs \cap {j2}
MCMaxRetries == [j \in Jobs |-> 1]

\* Workers and futures are interchangeable in a run without temporal
\* properties that name them.
MCSymmetry == Permutations(Workers) \cup Permutations(Futures)
=============================================================================
