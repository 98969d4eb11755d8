--------------------------- MODULE MCOrchestrator ---------------------------
(* TLC instance of Orchestrator: the calls of run() are those of optimize, *)
(* the baseline alone, then one candidate.                                 *)
EXTENDS Orchestrator

Amounts(gpu, tokens) == [gpu |-> gpu, tokens |-> tokens]

BothResources == {"gpu", "tokens"}

OneCandidatePerCall == <<<<"baseline">>, <<"candidate-0">>>>

EstimateOf == [n \in Name |-> IF n = "baseline" THEN Amounts(2, 0) ELSE Amounts(2, 2)]

(* A lease shorter than its floor, and a token count above the estimate.   *)
MeasuredCosts == {Amounts(1, 3)}

LimitOf == Amounts(7, 6)

=============================================================================
