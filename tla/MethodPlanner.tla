--------------------------- MODULE MethodPlanner ---------------------------
(***************************************************************************)
(* The planner of generators/: a pure function from what is known of a     *)
(* problem, the profile of its baseline and the history of its attempts to *)
(* the methods to try next and the ones that are refused. The catalog is   *)
(* the frozen one; of a signal only whether it fires is kept, of a history *)
(* the counts that the planner reads.                                      *)
(***************************************************************************)
EXTENDS Integers, Sequences, FiniteSets, FiniteSetsExt, TLC

CONSTANTS
  MISSING,        (* a metric or fact that was not measured                *)
  MaxFailures     (* bound: failures of one method that are told apart     *)

ASSUME MissingAssumption == MISSING \notin 0 .. 1000
ASSUME FailuresAssumption == MaxFailures \in 2 .. 6

(* generators/data/methods.json: id, category and the words of its         *)
(* expected_gain.                                                          *)
Catalog == <<
  <<"memory.coalesce_contiguous_access", "memory_layout", {"medium"}>>,
  <<"memory.vectorize_wide_loads", "memory_layout", {"low", "medium"}>>,
  <<"memory.l2_tile_swizzle", "memory_layout", {"low", "medium"}>>,
  <<"memory.fuse_elementwise_chain", "fusion", {"high"}>>,
  <<"memory.gemm_epilogue_fusion", "fusion", {"medium", "high"}>>,
  <<"memory.eliminate_intermediate_materialization", "fusion", {"high"}>>,
  <<"memory.register_pressure_reduction", "resource_tuning", {"medium"}>>,
  <<"parallel.occupancy_tuning", "parallelism", {"low", "medium"}>>,
  <<"parallel.grid_expansion_splitk", "parallelism", {"medium", "high"}>>,
  <<"parallel.grid_stride_elementwise", "parallelism", {"low"}>>,
  <<"parallel.batched_grouped_fusion", "parallelism", {"medium", "high"}>>,
  <<"compute.tensor_core_dot", "compute_precision", {"high"}>>,
  <<"compute.tf32_bf16_within_contract", "compute_precision", {"medium", "high"}>>,
  <<"compute.fp8_experimental", "compute_precision", {"high", "unknown"}>>,
  <<"compute.algebraic_strength_reduction", "compute_precision", {"low", "medium"}>>,
  <<"pipeline.num_stages_software_pipelining", "pipelining", {"medium"}>>,
  <<"pipeline.persistent_kernel", "pipelining", {"low", "medium"}>>,
  <<"pipeline.tma_tensor_descriptors", "pipelining", {"not_applicable"}>>,
  <<"pipeline.warp_specialization", "pipelining", {"not_applicable"}>>,
  <<"launch.multi_kernel_merge", "launch_overhead", {"medium"}>>,
  <<"launch.host_overhead_cleanup", "launch_overhead", {"medium"}>>,
  <<"launch.autotune_key_pruning", "launch_overhead", {"low"}>>,
  <<"reduction.two_pass_deterministic", "reduction", {"medium"}>>,
  <<"reduction.warp_block_staged", "reduction", {"low", "medium"}>>,
  <<"reduction.online_streaming", "reduction", {"medium", "high"}>>,
  <<"reduction.split_large_axis", "reduction", {"medium", "high"}>>,
  <<"algorithm.flash_tile_streaming", "algorithmic", {"high"}>>,
  <<"algorithm.masked_early_exit", "algorithmic", {"medium", "high"}>>,
  <<"algorithm.gather_scatter_optimization", "algorithmic", {"low", "medium"}>>,
  <<"tuning.autotune_space_design", "tuning_infra", {"medium"}>>,
  <<"tuning.do_bench_internal_protocol", "tuning_infra", {"low"}>>,
  <<"tuning.shape_bucket_cache", "tuning_infra", {"medium"}>>,
  <<"numerics.stable_softmax_logsumexp", "numerics", {"low"}>>,
  <<"numerics.fp32_accumulators", "numerics", {"low"}>>,
  <<"numerics.boundary_masking", "numerics", {"low"}>>,
  <<"hardware.sm89_adaptive_tile", "hardware_target", {"medium"}>>,
  <<"meta.one_factor_per_round", "search_discipline", {"low"}>>,
  <<"meta.failure_feedback_loop", "search_discipline", {"medium"}>> >>

Method == {Catalog[i][1] : i \in DOMAIN Catalog}
Index == [m \in Method |-> CHOOSE i \in DOMAIN Catalog : Catalog[i][1] = m]
Category(m) == Catalog[Index[m]][2]

TOP_K == 3
COST_FACTOR_CATEGORIES == {"tuning_infra", "launch_overhead"}
STREAMING_CLASSES == {"softmax", "attention", "layernorm", "rmsnorm"}
TILE_CLASSES == {"matmul", "conv"}
BASELINE_PLAN_METHODS ==
  <<"memory.coalesce_contiguous_access", "tuning.autotune_space_design",
    "launch.autotune_key_pruning">>

UNWIRED == {"tuning.do_bench_internal_protocol", "tuning.shape_bucket_cache",
            "hardware.sm89_adaptive_tile", "meta.one_factor_per_round",
            "meta.failure_feedback_loop"}

-----------------------------------------------------------------------------
(* What is known of a problem: the classes that its source and name hint   *)
(* at, its static features, the profile and the hardware.                  *)

OperatorClasses == <<"attention", "softmax", "rmsnorm", "layernorm", "conv", "matmul",
                     "embedding", "reduction", "elementwise">>

(* The first class of the list that is hinted at.                          *)
infer_operator_class(inp) ==
  IF inp.hints = {} THEN "unknown"
  ELSE OperatorClasses[CHOOSE i \in DOMAIN OperatorClasses :
         /\ OperatorClasses[i] \in inp.hints
         /\ \A j \in 1 .. i - 1 : OperatorClasses[j] \notin inp.hints]

(* What extract_code_features finds in the source, where it parses: hints, *)
(* dtypes, calls of forward() and what they do. Nothing is made up.        *)
NoFeatures ==
  [hints |-> {}, half |-> FALSE, fp32 |-> FALSE, fp8 |-> FALSE, calls |-> 0, autotune |-> FALSE,
   tl_dot |-> FALSE, host |-> FALSE, mask |-> FALSE, transcendental |-> FALSE, atomic |-> FALSE]

extract_code_features(source) == IF source.parses THEN source.features ELSE NoFeatures

CORE_TIER_A_METRICS == {"duration", "memory", "dram", "sm", "grid", "block", "registers",
                        "register_limit", "warps"}

(* A metric counts with its largest value among the launches.              *)
value(launches, metric) ==
  LET values == {launches[i][metric] : i \in DOMAIN launches} \ {MISSING}
  IN  IF values = {} THEN MISSING ELSE Max(values)

(* Name and category of the task, features, profile and hardware.          *)
GeneratorInput(task, source, launches, hardware) ==
  LET features == extract_code_features(source)
  IN  [features EXCEPT !.hints = @ \cup task.hints]
        @@ [batched |-> task.batched, launches |-> Len(launches),
            ncu |-> [metric \in CORE_TIER_A_METRICS |-> value(launches, metric)]]
        @@ hardware

Known(inp, metric) == inp.ncu[metric] # MISSING
AtLeast(inp, metric, n) == Known(inp, metric) /\ inp.ncu[metric] >= n
Below(inp, metric, n) == Known(inp, metric) /\ inp.ncu[metric] < n
Within(inp, metric, n, k) == AtLeast(inp, metric, n) /\ Below(inp, metric, k + 1)

SmallGrid(inp) == inp.sm_count # MISSING /\ Below(inp, "grid", 2 * inp.sm_count)

-----------------------------------------------------------------------------
(* classify_bottleneck: the label of the first priority with a signal, and *)
(* how much evidence there was.                                            *)

Labels == <<"numerical", "launch_bound", "parallel_deficit", "memory_bound", "compute_bound",
            "latency_bound">>

(* A signal with a missing metric is not evaluated.                        *)
TierA(inp) ==
  {p \in 1 .. 6 :
    \/ p = 2 /\ (Within(inp, "duration", 0, 20) \/ inp.launches >= 4)
    \/ p = 3 /\ \/ SmallGrid(inp)
                \/ /\ Below(inp, "warps", 30)
                   /\ Below(inp, "sm", 40) /\ Below(inp, "dram", 40)
    \/ p = 4 /\ AtLeast(inp, "dram", 60)
    \/ p = 5 /\ AtLeast(inp, "sm", 60)
    \/ p = 6 /\ Within(inp, "sm", 40, 70) /\ Within(inp, "dram", 40, 70)}

TierB(inp) ==
  LET oc == infer_operator_class(inp) IN
  {p \in 1 .. 6 :
    \/ p = 2 /\ inp.calls >= 3
    \/ p = 4 /\ oc \in STREAMING_CLASSES
    \/ p = 5 /\ oc \in TILE_CLASSES /\ ~inp.tl_dot}

TierC(h) == IF h.numeric THEN {1} ELSE {}

AnyMetric(inp) == \E metric \in CORE_TIER_A_METRICS : Known(inp, metric)

coverage(inp, h) ==
  CASE inp.launches > 0 /\ AnyMetric(inp) ->
         IF \A metric \in CORE_TIER_A_METRICS : Known(inp, metric) THEN "ncu_full"
                                                                  ELSE "ncu_partial"
    [] inp.launches = 0 /\ TierC(h) # {} /\ TierA(inp) \cup TierB(inp) = {} -> "history_only"
    [] OTHER -> "static_only"

classify_bottleneck(inp, h) ==
  LET fired == TierA(inp) \cup TierB(inp) \cup TierC(h)
  IN  IF fired = {} THEN "uncertain" ELSE Labels[Min(fired)]

-----------------------------------------------------------------------------
(* The signal rules: the methods for which something speaks.               *)

When(condition, methods) == IF condition THEN methods ELSE {}

MemoryRules(inp, oc) ==
  UNION {
    When(oc \in {"elementwise", "reduction", "embedding"} \/ AtLeast(inp, "memory", 60),
         {"memory.coalesce_contiguous_access"}),
    When(inp.half /\ oc \in {"elementwise"} \cup TILE_CLASSES, {"memory.vectorize_wide_loads"}),
    When(oc \in TILE_CLASSES, {"memory.l2_tile_swizzle"}),
    When(inp.calls >= 2 /\ oc \in STREAMING_CLASSES \cup {"elementwise", "reduction"},
         {"memory.fuse_elementwise_chain"}),
    When(inp.calls >= 2 /\ oc = "matmul", {"memory.gemm_epilogue_fusion"}),
    When(oc \in {"softmax", "attention"}, {"memory.eliminate_intermediate_materialization"}),
    When(AtLeast(inp, "register_limit", 60) \/ Below(inp, "warps", 30),
         {"memory.register_pressure_reduction"})}

ParallelRules(inp, oc) ==
  UNION {
    When(~inp.autotune /\ oc \in {"elementwise", "reduction", "embedding"} \cup TILE_CLASSES,
         {"parallel.occupancy_tuning"}),
    When(SmallGrid(inp) /\ oc \in TILE_CLASSES \cup {"reduction"},
         {"parallel.grid_expansion_splitk"}),
    When(oc = "elementwise", {"parallel.grid_stride_elementwise"}),
    When(inp.batched, {"parallel.batched_grouped_fusion"})}

ComputeRules(inp, oc) ==
  UNION {
    When(oc \in TILE_CLASSES /\ ~inp.tl_dot, {"compute.tensor_core_dot"}),
    When(oc \in TILE_CLASSES /\ inp.fp32, {"compute.tf32_bf16_within_contract"}),
    When(inp.fp8, {"compute.fp8_experimental"}),
    When(inp.transcendental, {"compute.algebraic_strength_reduction"})}

PipelineRules(inp, oc) ==
  UNION {
    When(~inp.autotune /\ oc \in TILE_CLASSES \cup {"reduction"},
         {"pipeline.num_stages_software_pipelining"}),
    When(oc \in TILE_CLASSES, {"pipeline.persistent_kernel", "pipeline.tma_tensor_descriptors",
                               "pipeline.warp_specialization"}),
    When(inp.calls >= 3, {"launch.multi_kernel_merge"}),
    When(inp.host, {"launch.host_overhead_cleanup"}),
    When(inp.autotune, {"launch.autotune_key_pruning"})}

ReductionRules(inp, oc) ==
  UNION {
    When(oc \in {"reduction", "layernorm", "rmsnorm", "softmax"} \/ inp.atomic,
         {"reduction.two_pass_deterministic"}),
    When(oc \in {"layernorm", "rmsnorm", "softmax"}, {"reduction.warp_block_staged"}),
    When(oc \in STREAMING_CLASSES, {"reduction.online_streaming"}),
    When(SmallGrid(inp) /\ oc = "reduction", {"reduction.split_large_axis"}),
    When(oc = "attention", {"algorithm.flash_tile_streaming"}),
    When(inp.mask, {"algorithm.masked_early_exit"}),
    When(oc = "embedding", {"algorithm.gather_scatter_optimization"}),
    When(inp.autotune \/ oc # "unknown", {"tuning.autotune_space_design"})}

(* The history speaks for two of them.                                     *)
NumericsRules(inp, oc, h) ==
  UNION {
    When(oc \in {"softmax", "attention"} \/ h.numeric, {"numerics.stable_softmax_logsumexp"}),
    When(inp.half /\ oc \in TILE_CLASSES \cup {"reduction"} \cup STREAMING_CLASSES,
         {"numerics.fp32_accumulators"}),
    When(h.bounds, {"numerics.boundary_masking"})}

Signalled(inp, h) ==
  LET oc == infer_operator_class(inp)
  IN  UNION {MemoryRules(inp, oc), ParallelRules(inp, oc), ComputeRules(inp, oc),
             PipelineRules(inp, oc), ReductionRules(inp, oc), NumericsRules(inp, oc, h)}

(* A capability that is not known is not assumed.                          *)
capability_guard(m, inp) ==
  /\ m \in {"pipeline.tma_tensor_descriptors", "pipeline.warp_specialization"}
  /\ inp.cc = MISSING \/ inp.cc < 90

-----------------------------------------------------------------------------
(* Ranking, in thirds of a millionth: 0.3 ^ n, 1 / 1.5 and 0.25 are whole.  *)

prior_gain(m) ==
  LET words == Catalog[Index[m]][3] IN
  IF "not_applicable" \in words THEN 0
  ELSE IF "unknown" \in words THEN 2
  ELSE Max({1} \cup {i \in 1 .. 3 : <<"low", "medium", "high">>[i] \in words})

(* 0.3 ^ n, in millionths.                                                 *)
Prior == <<1000000, 300000, 90000, 27000, 8100, 2430, 729>>

(* Mutant: one failure is as good as many.                                 *)
success_prior_once(m, h) == IF h.failed[m] = 0 THEN Prior[1] ELSE Prior[2]

(* Failures of the infrastructure do not count.                            *)
success_prior(m, h) == Prior[h.failed[m] + 1]

Base(m, h) ==
  prior_gain(m) * success_prior(m, h) * (IF Category(m) \in COST_FACTOR_CATEGORIES THEN 2 ELSE 3)

Exploration == 750000

Precedes(a, i, b, j) == a > b \/ (a = b /\ i < j)

(* The exploration bonus is for the best candidate of each category.       *)
Score(m, cands, h) ==
  IF \E o \in cands \ {m} : /\ Category(o) = Category(m)
                            /\ Precedes(Base(o, h), Index[o], Base(m, h), Index[m])
  THEN Base(m, h) ELSE Base(m, h) + Exploration

(* Correctness before performance, until it failed.                        *)
Front(m, h) == Category(m) = "numerics" /\ h.failed[m] = 0

Rank(m, cands, h) == [method |-> m, front |-> Front(m, h), score |-> Score(m, cands, h)]

Outranks(a, b) ==
  IF a.front # b.front THEN a.front
  ELSE Precedes(a.score, Index[a.method], b.score, Index[b.method])

(* The elements of S, where Before says of any two which one is first.     *)
Ordered(S, Before) ==
  [i \in 1 .. Cardinality(S) |->
     CHOOSE m \in S : Cardinality({o \in S : <<o, m>> \in Before}) = i - 1]

(* The best TOP_K candidates, in order.                                    *)
Chosen(cands, h) ==
  LET ranks == {Rank(m, cands, h) : m \in cands}
      ranked == Ordered(ranks, {pair \in ranks \X ranks : Outranks(pair[1], pair[2])})
  IN  [i \in 1 .. Min({TOP_K, Cardinality(ranks)}) |-> ranked[i].method]

(* Mutant: what is ranked below the plan is dropped without a word.        *)
RankedOutSilently(cands, chosen) == {}

RankedOut(cands, chosen) == cands \ {chosen[i] : i \in DOMAIN chosen}

(* _fallback_baseline: what was promoted is not proposed again.            *)
Baseline(h) ==
  LET open == {i \in DOMAIN BASELINE_PLAN_METHODS : BASELINE_PLAN_METHODS[i] \notin h.promoted}
      places == Ordered(open, {pair \in open \X open : pair[1] < pair[2]})
  IN  [i \in 1 .. Cardinality(open) |-> BASELINE_PLAN_METHODS[places[i]]]

(* MethodPlanner.plan: guards, unwired methods, signals, what was promoted, *)
(* and the low-risk baseline when there is nothing to say.                 *)
Plan(inp, h) ==
  LET guarded == {m \in Method : capability_guard(m, inp)}
      unwired == UNWIRED \ guarded
      fired == Signalled(inp, h) \ (guarded \cup unwired)
      cands == fired \ h.promoted
      chosen == Chosen(cands, h)
      label == classify_bottleneck(inp, h)
      fallback == cands = {} /\ label = "uncertain"
      unfired == Method \ (guarded \cup unwired \cup fired)
  IN  [items |-> IF fallback THEN Baseline(h) ELSE chosen,
       refused |-> guarded \cup unwired \cup unfired \cup (fired \ cands)
                           \cup RankedOut(cands, chosen),
       candidates |-> cands,
       fallback |-> fallback, label |-> label, coverage |-> coverage(inp, h)]

(* "None" when nothing remains to be proposed.                             *)
first_actionable(plan, h) ==
  LET open == {i \in DOMAIN plan.items : plan.items[i] \notin h.promoted}
  IN  IF open = {} THEN "None" ELSE plan.items[Min(open)]
=============================================================================
