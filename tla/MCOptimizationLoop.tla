------------------------- MODULE MCOptimizationLoop -------------------------
(* Small instances of the optimization loop for TLC.                       *)
EXTENDS OptimizationLoop

(* A run that is resumed with more candidates or repairs, or with fewer    *)
(* repairs and without profiling.                                          *)
Revised ==
  {[candidates |-> 1, repairs |-> 0, seconds |-> 7, profile |-> TRUE],
   [candidates |-> 2, repairs |-> 0, seconds |-> 7, profile |-> FALSE],
   [candidates |-> 2, repairs |-> 1, seconds |-> 7, profile |-> TRUE]}

Seconds == [evaluating |-> 1, proving |-> 1, timing |-> 1]

=============================================================================
