----------------------- MODULE MCCandidateGeneration -----------------------
(* Problems of several families, profiled and not, on the SM89 of the code. *)
EXTENDS CandidateGeneration

Launch == [metric \in CORE_TIER_A_METRICS |-> MISSING]
Profile == <<[Launch EXCEPT !["duration"] = 15, !["grid"] = 20, !["warps"] = 20],
             [Launch EXCEPT !["sm"] = 30, !["dram"] = 30, !["memory"] = 65]>>

Sm89 == [cc |-> 89, sm_count |-> MISSING]
Source(features) == [parses |-> TRUE, features |-> features]
Unparsable == [parses |-> FALSE, features |-> [NoFeatures EXCEPT !.calls = 3]]
Plain == [NoFeatures EXCEPT !.calls = 1]
Named(hints) == [hints |-> hints, batched |-> FALSE]

MCInputs ==
  {GeneratorInput(Named({}), Unparsable, <<>>, Sm89),
   GeneratorInput(Named({"matmul"}), Unparsable, <<Launch, Launch, Launch, Launch>>, Sm89),
   GeneratorInput(Named({}), Source([Plain EXCEPT !.transcendental = TRUE, !.host = TRUE]),
                  <<>>, Sm89),
   GeneratorInput(Named({}), Source([Plain EXCEPT !.mask = TRUE, !.autotune = TRUE]), <<>>, Sm89),
   GeneratorInput(Named({"elementwise"}), Source([Plain EXCEPT !.half = TRUE, !.calls = 2]),
                  <<>>, Sm89),
   GeneratorInput(Named({"reduction"}), Source([Plain EXCEPT !.hints = {"softmax"}, !.calls = 3]),
                  <<>>, Sm89),
   GeneratorInput(Named({"matmul"}), Source([Plain EXCEPT !.fp32 = TRUE]), Profile, Sm89),
   GeneratorInput([hints |-> {"matmul"}, batched |-> TRUE],
                  Source([Plain EXCEPT !.half = TRUE, !.tl_dot = TRUE, !.autotune = TRUE]),
                  <<>>, Sm89),
   GeneratorInput(Named({"reduction"}), Source([Plain EXCEPT !.half = TRUE]), Profile, Sm89)}

MCBatches ==
  {[n |-> k, min |-> lo, max |-> hi] : k \in {0, 12}, lo \in {100, 102}, hi \in {102, 103}}
=============================================================================
