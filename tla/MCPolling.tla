------------------------------ MODULE MCPolling ------------------------------
(* Instances of the polling loop for TLC.                                  *)
EXTENDS Polling, TLC

CONSTANTS w1, w2

\* w1 has fewer threads than a batch has jobs, w2 has as many.
MCUneven == [w \in Workers |-> IF w = w1 THEN 1 ELSE 2]

Symmetry == Permutations(Jobs)

\* Two claims can each hold a row that the other waits for.
MCEven == [w \in Workers |-> 2]
=============================================================================
