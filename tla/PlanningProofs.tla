--------------------------- MODULE PlanningProofs ---------------------------
(***************************************************************************)
(* What an attempt is planned from and what its plan promises: the profile *)
(* of the baseline, for any number of calls and deaths, and the plan of    *)
(* each attempt, for any problem, history and answers of the provider.     *)
(***************************************************************************)
EXTENDS CandidateGeneration, BaselineProfiler, FiniteSetTheorems, TLAPS

(***************************************************************************)
(* The profile of the baseline.                                            *)
(***************************************************************************)

(* Where a call has decided to profile.                                    *)
Profiling ==
  {"staging", "launching", "waiting", "removing", "looking", "importing", "writing",
   "billing", "recording", "not run"}

(* Evidence, bill, record, in this order; a call that profiles has found   *)
(* nothing collected, so that none of its writes undoes a promise.         *)
WritesInOrder ==
  /\ at \in {"billing", "recording"} => evidence = "whole"
  /\ at = "recording" => bills > 0
  /\ at \in Profiling => profile # "collected"

ProfileInv == ProfileTypeOK /\ WritesInOrder /\ CollectedIsThere /\ EachBillOnRecord

(* Files are written by a call or by nobody.                               *)
LEMMA Writers == Nobody \in Writer /\ \A c \in Call : c \in Writer
  BY CallsAssumption DEF Call, Writer, Nobody

(* A run directory starts with the invariant.                              *)
LEMMA ProfileInvInit == ProfileInit => ProfileInv
<1>1. ProfileInit => measured \in BOOLEAN
  BY DEF ProfileInit
<1>2. ProfileInit => ProfileTypeOK
  BY <1>1, CallsAssumption DEF ProfileInit, ProfileTypeOK, Ended, Call, Nobody, Writer
<1>3. ProfileInit => WritesInOrder /\ CollectedIsThere /\ EachBillOnRecord
  BY DEF ProfileInit, WritesInOrder, CollectedIsThere, EachBillOnRecord, Profiling
<1>4. QED
  BY <1>2, <1>3 DEF ProfileInv

(* A step loses one bill or none.                                          *)
LEMMA LostCounts ==
  ASSUME ProfileTypeOK, lost' = lost \/ lost' = lost + 1
  PROVE  lost' \in Nat
<1>1. lost \in Nat
  BY DEF ProfileTypeOK
<1>2. QED
  BY <1>1

(* Every step keeps the types.                                             *)
LEMMA TypesKept == ProfileTypeOK /\ [ProfileNext]_profileVars => ProfileTypeOK'
<1> SUFFICES ASSUME ProfileTypeOK, [ProfileNext]_profileVars PROVE ProfileTypeOK'
  OBVIOUS
<1>1. calls \in Writer
  BY DEF ProfileTypeOK
<1>2. Begin => calls' \in Writer
  BY <1>1, CallsAssumption DEF Writer, Begin
<1> USE Writers DEF ProfileTypeOK, Ended, To, Stays, files
<1>3. measured' \in BOOLEAN
  BY DEF ProfileNext, Profiler, profileVars, Begin, Check, Stage, Launch, ClientReturns, TimeoutExpires,
         ForceRemove, Look, Import, WriteEvidence, Bill, RecordCollected, RecordNotRun, Die,
         Environment
<1>4. CASE Begin
  <2>1. calls' \in Writer
    BY <1>2, <1>4
  <2>2. at' = "called" /\ mode' \in {"loop", "profile"}
    BY <1>4 DEF Begin
  <2>3. profile' \in {profile, "none"}
    BY <1>4 DEF Begin
  <2>4. UNCHANGED <<container, scratch, report, evidence, bills>>
    BY <1>4 DEF Begin
  <2>5. lost' = lost \/ lost' = lost + 1
    BY <1>4 DEF Begin
  <2>6. lost' \in Nat
    BY <2>5, LostCounts
  <2>7. QED
    BY <1>3, <2>1, <2>2, <2>3, <2>4, <2>6
<1>5. CASE Check \/ Stage \/ Launch \/ ClientReturns \/ TimeoutExpires \/ ForceRemove
  BY <1>3, <1>5 DEF Check, Stage, Launch, ClientReturns, TimeoutExpires, ForceRemove,
                    Reusable
<1>6. CASE Look
  BY <1>3, <1>6 DEF Look
<1>7. CASE Import \/ WriteEvidence
  BY <1>3, <1>7 DEF Import, WriteEvidence
<1>8. CASE Bill
  BY <1>3, <1>8 DEF Bill
<1>9. CASE RecordCollected \/ RecordNotRun \/ Die
  <2>1. lost' = lost \/ lost' = lost + 1
    BY <1>9 DEF RecordCollected, RecordNotRun, Die
  <2>2. lost' \in Nat
    BY <2>1, LostCounts
  <2>3. CASE RecordCollected \/ RecordNotRun
    BY <1>3, <2>2, <2>3 DEF RecordCollected, RecordNotRun
  <2>4. CASE Die
    BY <1>3, <2>2, <2>4 DEF Die
  <2>5. QED
    BY <1>9, <2>3, <2>4
<1>10. CASE Environment
  BY <1>3, <1>10 DEF Environment, DriverEnds, ContainerEnds
<1>11. CASE UNCHANGED profileVars
  BY <1>3, <1>11 DEF profileVars
<1>12. QED
  BY <1>4, <1>5, <1>6, <1>7, <1>8, <1>9, <1>10, <1>11 DEF ProfileNext, Profiler

(* Every step keeps the order of the writes and the promise.               *)
LEMMA PromiseKept == ProfileInv /\ [ProfileNext]_profileVars => WritesInOrder' /\ CollectedIsThere'
<1> SUFFICES ASSUME ProfileInv, [ProfileNext]_profileVars PROVE WritesInOrder' /\ CollectedIsThere'
  OBVIOUS
<1> USE DEF ProfileInv, WritesInOrder, CollectedIsThere, Profiling, Ended, To, Stays, files
<1>1. CASE Begin
  BY <1>1 DEF Begin
<1>2. CASE Check \/ Stage \/ Launch \/ ClientReturns \/ TimeoutExpires \/ ForceRemove
  BY <1>2 DEF Check, Stage, Launch, ClientReturns, TimeoutExpires, ForceRemove, Reusable
<1>3. CASE Look \/ Import \/ WriteEvidence
  BY <1>3 DEF Look, Import, WriteEvidence
<1>4. CASE Bill
  BY <1>4 DEF Bill, ProfileTypeOK
<1>5. CASE RecordCollected \/ RecordNotRun \/ Die
  BY <1>5 DEF RecordCollected, RecordNotRun, Die
<1>6. CASE Environment
  BY <1>6 DEF Environment, DriverEnds, ContainerEnds
<1>7. CASE UNCHANGED profileVars
  BY <1>7 DEF profileVars
<1>8. QED
  BY <1>1, <1>2, <1>3, <1>4, <1>5, <1>6, <1>7 DEF ProfileNext, Profiler

(* With a record and no call between bill and record, one bill is not lost. *)
LEMMA OneOnRecord ==
  ASSUME ProfileTypeOK, EachBillOnRecord, profile = "collected", at # "recording"
  PROVE  bills = lost + 1
<1>1. lost \in Nat
  BY DEF ProfileTypeOK
<1>2. bills = lost + 1 + 0
  BY <1>1 DEF EachBillOnRecord
<1>3. QED
  BY <1>1, <1>2

(* Every step keeps the account of the bills: a bill enters it with Bill,  *)
(* and moves to the record with RecordCollected or to the lost.            *)
LEMMA AccountKept == ProfileInv /\ [ProfileNext]_profileVars => EachBillOnRecord'
<1> SUFFICES ASSUME ProfileInv, [ProfileNext]_profileVars PROVE EachBillOnRecord'
  OBVIOUS
<1> USE DEF ProfileInv, ProfileTypeOK, EachBillOnRecord, Ended, To, Stays, files
<1>1. CASE Begin
  <2>1. at # "recording" /\ at' # "recording" /\ bills' = bills
    BY <1>1 DEF Begin
  <2>2. CASE UNCHANGED <<profile, lost>>
    BY <2>1, <2>2
  <2>3. CASE profile = "collected" /\ profile' = "none" /\ lost' = lost + 1
    <3>1. bills = lost + 1
      BY <2>1, <2>3, OneOnRecord
    <3>2. lost' \in Nat
      BY <2>3, LostCounts
    <3>3. QED
      BY <2>1, <2>3, <3>1, <3>2
  <2>4. CASE profile # "collected" /\ profile' = "none" /\ lost' = lost
    BY <2>1, <2>4
  <2>5. QED
    BY <1>1, <2>2, <2>3, <2>4 DEF Begin
<1>2. CASE Check \/ Stage \/ Launch \/ ClientReturns \/ TimeoutExpires \/ ForceRemove
  BY <1>2 DEF Check, Stage, Launch, ClientReturns, TimeoutExpires, ForceRemove, Reusable
<1>3. CASE Look \/ Import \/ WriteEvidence
  BY <1>3 DEF Look, Import, WriteEvidence
<1>4. CASE Bill
  BY <1>4 DEF Bill
<1>5. CASE RecordCollected \/ RecordNotRun
  <2>1. profile # "collected" /\ UNCHANGED <<bills, lost>> /\ at' # "recording"
    BY <1>5 DEF RecordCollected, RecordNotRun, WritesInOrder, Profiling
  <2>2. CASE RecordCollected
    <3>1. at = "recording" /\ profile' = "collected"
      BY <2>2 DEF RecordCollected
    <3>2. QED
      BY <2>1, <3>1
  <2>3. CASE RecordNotRun
    <3>1. at # "recording" /\ profile' # "collected"
      BY <2>3 DEF RecordNotRun
    <3>2. QED
      BY <2>1, <3>1
  <2>4. QED
    BY <1>5, <2>2, <2>3
<1>6. CASE Die
  <2>1. at' # "recording" /\ UNCHANGED <<bills, profile>>
    BY <1>6 DEF Die
  <2>2. CASE at = "recording"
    <3>1. lost' = lost + 1
      BY <1>6, <2>2 DEF Die
    <3>2. QED
      BY <2>1, <2>2, <3>1
  <2>3. CASE at # "recording"
    <3>1. lost' = lost
      BY <1>6, <2>3 DEF Die
    <3>2. QED
      BY <2>1, <2>3, <3>1
  <2>4. QED
    BY <2>2, <2>3
<1>7. CASE Environment
  BY <1>7 DEF Environment, DriverEnds, ContainerEnds
<1>8. CASE UNCHANGED profileVars
  BY <1>8 DEF profileVars
<1>9. QED
  BY <1>1, <1>2, <1>3, <1>4, <1>5, <1>6, <1>7, <1>8 DEF ProfileNext, Profiler

(* The inductive invariant of a run directory's profile: whole evidence    *)
(* before its bill, its bill before its record.                            *)
THEOREM ProfileInvariant == ProfileSpec => []ProfileInv
<1>1. ProfileInv /\ [ProfileNext]_profileVars => ProfileInv'
  BY TypesKept, PromiseKept, AccountKept DEF ProfileInv
<1>2. QED
  BY ProfileInvInit, <1>1, PTL DEF ProfileSpec

(* Whatever call dies wherever, a profile that is recorded as collected    *)
(* has its evidence in whole and was billed.                               *)
THEOREM CollectedStaysThere == ProfileSpec => []CollectedIsThere
<1>1. ProfileInv => CollectedIsThere
  BY DEF ProfileInv
<1>2. QED
  BY <1>1, ProfileInvariant, PTL

(* Whatever call dies wherever, a profile is billed again only where the   *)
(* record of its bill was never written, or went with the old baseline.    *)
THEOREM BillsAreAccountedFor == ProfileSpec => []EachBillOnRecord
<1>1. ProfileInv => EachBillOnRecord
  BY DEF ProfileInv
<1>2. QED
  BY <1>1, ProfileInvariant, PTL

(***************************************************************************)
(* Lists in an order.                                                      *)
(***************************************************************************)

(* The least and the greatest of a set of numbers that has one.            *)
LEMMA LeastIs ==
  ASSUME NEW S, NEW least \in S, \A y \in S : least <= y, S \subseteq Int
  PROVE  Min(S) = least
<1>1. Min(S) \in S /\ \A y \in S : Min(S) <= y
  BY DEF Min
<1>2. Min(S) <= least /\ least <= Min(S) /\ Min(S) \in Int /\ least \in Int
  BY <1>1
<1>3. QED
  BY <1>2

LEMMA LeastOfTwo ==
  ASSUME NEW a \in Int, NEW b \in Int
  PROVE  Min({a, b}) = IF a <= b THEN a ELSE b
<1>1. CASE a <= b
  BY <1>1, LeastIs
<1>2. CASE ~(a <= b)
  BY <1>2, LeastIs
<1>3. QED
  BY <1>1, <1>2

(* A strict total order on S, as the pairs that it holds of.               *)
Orders(R, S) ==
  /\ \A a \in S : <<a, a>> \notin R
  /\ \A a, b \in S : a # b => <<a, b>> \in R \/ <<b, a>> \in R
  /\ \A a, b, c \in S : <<a, b>> \in R /\ <<b, c>> \in R => <<a, c>> \in R

(* The elements before each are fewer than the elements, and tell them     *)
(* apart: Ordered() is a list of all of them, without repetition, and what *)
(* is first in it comes before the rest.                                   *)
LEMMA OrderedLists ==
  ASSUME NEW S, IsFiniteSet(S), NEW R, Orders(R, S)
  PROVE  LET s == Ordered(S, R)
             n == Cardinality(S)
         IN  /\ n \in Nat
             /\ \A i \in 1 .. n : s[i] \in S
             /\ \A i, j \in 1 .. n : s[i] = s[j] => i = j
             /\ \A m \in S : \E i \in 1 .. n : s[i] = m
             /\ \A i, j \in 1 .. n : i < j => <<s[i], s[j]>> \in R
<1> DEFINE n == Cardinality(S)
           below(m) == {o \in S : <<o, m>> \in R}
           place == [m \in S |-> Cardinality(below(m))]
<1>1. n \in Nat
  BY FS_CardinalityType
<1>2. ASSUME NEW m \in S
      PROVE  IsFiniteSet(below(m)) /\ Cardinality(below(m)) \in 0 .. n - 1
  <2>1. m \notin below(m) /\ below(m) \in SUBSET S
    BY DEF Orders
  <2>2. /\ IsFiniteSet(below(m)) /\ Cardinality(below(m)) <= n
        /\ Cardinality(below(m)) # n
    BY <2>1, FS_Subset
  <2>3. Cardinality(below(m)) \in Nat
    BY <2>2, FS_CardinalityType
  <2>4. QED
    BY <1>1, <2>2, <2>3
<1>3. ASSUME NEW a \in S, NEW b \in S, <<a, b>> \in R
      PROVE  Cardinality(below(a)) < Cardinality(below(b))
  <2>1. below(a) \in SUBSET below(b)
    BY <1>3 DEF Orders
  <2>2. a \in below(b) /\ a \notin below(a)
    BY <1>3 DEF Orders
  <2> HIDE DEF below
  <2>3. Cardinality(below(a)) <= Cardinality(below(b)) /\ Cardinality(below(a)) # Cardinality(below(b))
    BY <1>2, <2>1, <2>2, FS_Subset
  <2>4. QED
    BY <1>2, <2>3, <1>1
<1>4. place \in [S -> 0 .. n - 1]
  BY <1>2
<1>5. \A a, b \in S : place[a] = place[b] => a = b
  <2> SUFFICES ASSUME NEW a \in S, NEW b \in S, a # b
               PROVE  place[a] # place[b]
    OBVIOUS
  <2>1. <<a, b>> \in R \/ <<b, a>> \in R
    BY DEF Orders
  <2>2. place[a] < place[b] \/ place[b] < place[a]
    BY <1>3, <2>1
  <2>3. place[a] \in Int /\ place[b] \in Int
    BY <1>4
  <2> HIDE DEF place
  <2>4. QED
    BY <2>2, <2>3
<1>6. \A k \in 0 .. n - 1 : \E m \in S : place[m] = k
  <2> HIDE DEF place
  <2>1. place \in Injection(S, 0 .. n - 1)
    BY <1>4, <1>5 DEF Injection, IsInjective
  <2>2. IsFiniteSet(0 .. n - 1) /\ Cardinality(0 .. n - 1) = n
    BY <1>1, FS_Interval
  <2>3. place \in Surjection(S, 0 .. n - 1)
    BY <2>1, <2>2, FS_Injection
  <2>4. QED
    BY <2>3 DEF Surjection
<1> DEFINE s == Ordered(S, R)
<1>7. ASSUME NEW i \in 1 .. n
      PROVE  s[i] \in S /\ place[s[i]] = i - 1
  <2>1. s[i] = CHOOSE m \in S : Cardinality(below(m)) = i - 1
    BY DEF Ordered
  <2>2. i - 1 \in 0 .. n - 1
    BY <1>1
  <2>3. \E m \in S : Cardinality(below(m)) = i - 1
    BY <1>6, <2>2
  <2> HIDE DEF s, below
  <2>4. QED
    BY <2>1, <2>3
<1> HIDE DEF s, place
<1>8. \A i, j \in 1 .. n : s[i] = s[j] => i = j
  BY <1>1, <1>7
<1>9. ASSUME NEW m \in S
      PROVE  \E i \in 1 .. n : s[i] = m
  <2>1. place[m] \in 0 .. n - 1
    BY <1>4
  <2>2. place[m] + 1 \in 1 .. n /\ (place[m] + 1) - 1 = place[m]
    BY <1>1, <2>1
  <2>3. s[place[m] + 1] = m
    BY <1>5, <1>7, <2>2
  <2>4. QED
    BY <2>2, <2>3
<1>10. ASSUME NEW i \in 1 .. n, NEW j \in 1 .. n, i < j
       PROVE  <<s[i], s[j]>> \in R
  <2>1. s[i] # s[j] /\ s[i] \in S /\ s[j] \in S
    BY <1>1, <1>7, <1>8, <1>10
  <2>2. <<s[j], s[i]>> \notin R
    <3>1. <<s[j], s[i]>> \in R => place[s[j]] < place[s[i]]
      BY <1>3, <2>1 DEF place
    <3>2. QED
      BY <1>1, <1>7, <1>10, <3>1
  <2>3. QED
    BY <2>1, <2>2 DEF Orders
<1>11. QED
  BY <1>1, <1>7, <1>8, <1>9, <1>10 DEF s

(***************************************************************************)
(* The catalog, its rules and its priors.                                  *)
(***************************************************************************)

(* What any history can be.                                                *)
History ==
  [failed : [Method -> 0 .. MaxFailures], promoted : SUBSET Method,
   numeric : BOOLEAN, bounds : BOOLEAN]

(* The catalog: each method has its place.                                 *)
LEMMA Places ==
  /\ DOMAIN Catalog = 1 .. 38
  /\ IsFiniteSet(Method)
  /\ \A m \in Method : Index[m] \in 1 .. 38 /\ Catalog[Index[m]][1] = m
<1>1. DOMAIN Catalog = 1 .. 38
  BY DEF Catalog
<1>2. \A m \in Method : Index[m] \in 1 .. 38 /\ Catalog[Index[m]][1] = m
  <2> SUFFICES ASSUME NEW m \in Method
               PROVE  Index[m] \in 1 .. 38 /\ Catalog[Index[m]][1] = m
    OBVIOUS
  <2>1. Index[m] = CHOOSE i \in DOMAIN Catalog : Catalog[i][1] = m
    BY DEF Index
  <2>2. \E i \in DOMAIN Catalog : Catalog[i][1] = m
    BY DEF Method
  <2>3. QED
    BY <1>1, <2>1, <2>2
<1>3. IsFiniteSet(Method)
  <2> DEFINE f == [m \in Method |-> Index[m]]
  <2>1. f \in Injection(Method, 1 .. 38)
    BY <1>2 DEF Injection, IsInjective
  <2>2. PICK a \in Int, b \in Int : a = 1 /\ b = 38
    OBVIOUS
  <2>3. IsFiniteSet(a .. b)
    BY FS_Interval
  <2> HIDE DEF f
  <2>4. QED
    BY <2>1, <2>2, <2>3, FS_Injection
<1>4. QED
  BY <1>1, <1>2, <1>3

(* Everything that the rules speak of is in it.                            *)
LEMMA RulesSpeakOfMethods ==
  ASSUME NEW inp, NEW h
  PROVE  /\ Signalled(inp, h) \subseteq Method
         /\ UNWIRED \subseteq Method
         /\ \A i \in DOMAIN BASELINE_PLAN_METHODS : BASELINE_PLAN_METHODS[i] \in Method
<1>1. \A oc : MemoryRules(inp, oc) \subseteq Method
  <2>1. {"memory.coalesce_contiguous_access", "memory.vectorize_wide_loads", "memory.l2_tile_swizzle",
         "memory.fuse_elementwise_chain", "memory.gemm_epilogue_fusion",
         "memory.eliminate_intermediate_materialization", "memory.register_pressure_reduction"}
          \subseteq Method
    BY DEF Catalog, Method
  <2>2. QED
    BY <2>1 DEF MemoryRules, When
<1>2. \A oc : ParallelRules(inp, oc) \subseteq Method
  <2>1. {"parallel.occupancy_tuning", "parallel.grid_expansion_splitk",
         "parallel.grid_stride_elementwise", "parallel.batched_grouped_fusion"} \subseteq Method
    BY DEF Catalog, Method
  <2>2. QED
    BY <2>1 DEF ParallelRules, When
<1>3. \A oc : ComputeRules(inp, oc) \subseteq Method
  <2>1. {"compute.tensor_core_dot", "compute.tf32_bf16_within_contract",
         "compute.fp8_experimental", "compute.algebraic_strength_reduction"} \subseteq Method
    BY DEF Catalog, Method
  <2>2. QED
    BY <2>1 DEF ComputeRules, When
<1>4. \A oc : PipelineRules(inp, oc) \subseteq Method
  <2>1. {"pipeline.num_stages_software_pipelining", "pipeline.persistent_kernel",
         "pipeline.tma_tensor_descriptors", "pipeline.warp_specialization",
         "launch.multi_kernel_merge", "launch.host_overhead_cleanup",
         "launch.autotune_key_pruning"} \subseteq Method
    BY DEF Catalog, Method
  <2>2. QED
    BY <2>1 DEF PipelineRules, When
<1>5. \A oc : ReductionRules(inp, oc) \subseteq Method
  <2>1. {"reduction.two_pass_deterministic", "reduction.warp_block_staged",
         "reduction.online_streaming", "reduction.split_large_axis",
         "algorithm.flash_tile_streaming", "algorithm.masked_early_exit",
         "algorithm.gather_scatter_optimization", "tuning.autotune_space_design"}
          \subseteq Method
    BY DEF Catalog, Method
  <2>2. QED
    BY <2>1 DEF ReductionRules, When
<1>6. \A oc : NumericsRules(inp, oc, h) \subseteq Method
  <2>1. {"numerics.stable_softmax_logsumexp", "numerics.fp32_accumulators",
         "numerics.boundary_masking"} \subseteq Method
    BY DEF Catalog, Method
  <2>2. QED
    BY <2>1 DEF NumericsRules, When
<1>7. Signalled(inp, h) \subseteq Method
  BY <1>1, <1>2, <1>3, <1>4, <1>5, <1>6 DEF Signalled
<1>8. UNWIRED \subseteq Method
  BY DEF Catalog, Method, UNWIRED
<1>9. ASSUME NEW i \in DOMAIN BASELINE_PLAN_METHODS
      PROVE  BASELINE_PLAN_METHODS[i] \in Method
  <2>1. {"memory.coalesce_contiguous_access", "tuning.autotune_space_design",
         "launch.autotune_key_pruning"} \subseteq Method
    BY DEF Catalog, Method
  <2>2. BASELINE_PLAN_METHODS[i] \in {"memory.coalesce_contiguous_access",
          "tuning.autotune_space_design", "launch.autotune_key_pruning"}
    BY DEF BASELINE_PLAN_METHODS
  <2>3. QED
    BY <2>1, <2>2
<1>10. QED
  BY <1>7, <1>8, <1>9

(* The prior of a gain is one of four.                                     *)
LEMMA Gains ==
  ASSUME NEW m \in Method
  PROVE  prior_gain(m) \in 0 .. 3
<1> DEFINE words == Catalog[Index[m]][3]
           S == {1} \cup {i \in 1 .. 3 : <<"low", "medium", "high">>[i] \in words}
<1> HIDE DEF words
<1>1. S \subseteq 1 .. 3 /\ 1 \in S
  OBVIOUS
<1>2. Max(S) \in S
  <2>1. \E x \in S : \A y \in S : x >= y
    <3> HIDE DEF S
    <3>1. CASE 3 \in S
      BY <1>1, <3>1
    <3>2. CASE 3 \notin S /\ 2 \in S
      BY <1>1, <3>2
    <3>3. CASE S = {1}
      BY <3>3
    <3>4. QED
      BY <1>1, <3>1, <3>2, <3>3
  <2> HIDE DEF S
  <2>2. QED
    BY <2>1 DEF Max
<1>3. prior_gain(m) \in {0, 2, Max(S)}
  BY DEF prior_gain, words
<1>4. Max(S) \in 0 .. 3
  BY <1>1, <1>2
<1> HIDE DEF S
<1>5. QED
  BY <1>3, <1>4

(* What is worth what: an untried method of some gain beats every one that *)
(* has failed twice, with its exploration bonus.                           *)
LEMMA Worth ==
  ASSUME NEW h \in History, NEW m \in Method, NEW cands
  PROVE  /\ Base(m, h) \in Int /\ Score(m, cands, h) \in Int
         /\ h.failed[m] = 0 /\ prior_gain(m) > 0 => Score(m, cands, h) >= 2000000
         /\ h.failed[m] >= 2 => Score(m, cands, h) <= 1560000
<1>1. h.failed[m] \in 0 .. 6
  BY FailuresAssumption DEF History
<1>2. PICK p \in Int : /\ p = success_prior(m, h) /\ p >= 0
                       /\ h.failed[m] = 0 => p = 1000000
                       /\ h.failed[m] >= 2 => p <= 90000
  BY <1>1 DEF success_prior, Prior
<1>3. PICK g \in 0 .. 3 : g = prior_gain(m)
  BY Gains
<1>4. PICK k \in {2, 3} : Base(m, h) = g * p * k
  BY <1>2, <1>3 DEF Base
<1>5. /\ Base(m, h) \in Int
      /\ h.failed[m] = 0 /\ g > 0 => Base(m, h) >= 2000000
      /\ h.failed[m] >= 2 => Base(m, h) <= 810000
  <2>1. CASE g = 0
    BY <1>2, <1>4, <2>1
  <2>2. CASE g = 1
    BY <1>2, <1>4, <2>2
  <2>3. CASE g = 2
    BY <1>2, <1>4, <2>3
  <2>4. CASE g = 3
    BY <1>2, <1>4, <2>4
  <2>5. QED
    BY <1>3, <2>1, <2>2, <2>3, <2>4
<1>6. Score(m, cands, h) \in {Base(m, h), Base(m, h) + 750000}
  BY DEF Score, Exploration
<1>7. QED
  BY <1>3, <1>5, <1>6

Ranked == [method : Method, front : BOOLEAN, score : Int]

(* Ranks of different methods are never level.                             *)
LEMMA Outranking ==
  ASSUME NEW a \in Ranked, NEW b \in Ranked, NEW c \in Ranked
  PROVE  /\ ~Outranks(a, a)
         /\ a.method # b.method => Outranks(a, b) \/ Outranks(b, a)
         /\ Outranks(a, b) /\ Outranks(b, c) => Outranks(a, c)
<1>1. PICK i \in 1 .. 38, j \in 1 .. 38, k \in 1 .. 38 :
        /\ i = Index[a.method] /\ j = Index[b.method] /\ k = Index[c.method]
        /\ a.method # b.method => i # j
  <2>1. a.method \in Method /\ b.method \in Method /\ c.method \in Method
    BY DEF Ranked
  <2>2. \A m \in Method : Index[m] \in 1 .. 38 /\ Catalog[Index[m]][1] = m
    BY Places
  <2>3. a.method # b.method => Index[a.method] # Index[b.method]
    BY <2>1, <2>2
  <2>4. QED
    BY <2>1, <2>2, <2>3
<1>2. PICK x \in Int, y \in Int, z \in Int : x = a.score /\ y = b.score /\ z = c.score
  BY DEF Ranked
<1>3. a.front \in BOOLEAN /\ b.front \in BOOLEAN /\ c.front \in BOOLEAN
  BY DEF Ranked
<1>4. ~Precedes(x, i, x, i)
  BY DEF Precedes
<1>5. a.method # b.method => Precedes(x, i, y, j) \/ Precedes(y, j, x, i)
  BY <1>1 DEF Precedes
<1>6. Precedes(x, i, y, j) /\ Precedes(y, j, z, k) => Precedes(x, i, z, k)
  BY DEF Precedes
<1>7. /\ Outranks(a, a) <=> Precedes(x, i, x, i)
      /\ Outranks(a, b) <=> IF a.front # b.front THEN a.front ELSE Precedes(x, i, y, j)
      /\ Outranks(b, a) <=> IF a.front # b.front THEN b.front ELSE Precedes(y, j, x, i)
      /\ Outranks(b, c) <=> IF b.front # c.front THEN b.front ELSE Precedes(y, j, z, k)
      /\ Outranks(a, c) <=> IF a.front # c.front THEN a.front ELSE Precedes(x, i, z, k)
  BY <1>1, <1>2, <1>3, Zenon DEF Outranks
<1>8. QED
  BY <1>3, <1>4, <1>5, <1>6, <1>7

(* Candidates have ranks of their own, so that the best are a list of      *)
(* candidates without repetition, and none beats the first.                *)
LEMMA ChosenAreBest ==
  ASSUME NEW h \in History, NEW cands \in SUBSET Method
  PROVE  \E n \in 0 .. TOP_K :
           LET s == Chosen(cands, h) IN
           /\ s \in [1 .. n -> cands]
           /\ \A i, j \in 1 .. n : s[i] = s[j] => i = j
           /\ cands # {} => n >= 1
           /\ n >= 1 => \A m \in cands :
                ~Outranks(Rank(m, cands, h), Rank(s[1], cands, h))
<1> DEFINE rank(m) == Rank(m, cands, h)
           ranks == {rank(m) : m \in cands}
           R == {pair \in ranks \X ranks : Outranks(pair[1], pair[2])}
           list == Ordered(ranks, R)
           k == Cardinality(ranks)
<1>1. \A m \in cands : rank(m) \in Ranked /\ rank(m).method = m
  BY Worth DEF Ranked, Rank, Front
<1>2. IsFiniteSet(cands)
  BY Places, FS_Subset
<1>3. IsFiniteSet(ranks)
  <2> DEFINE f == [m \in cands |-> rank(m)]
  <2>1. f \in Surjection(cands, ranks)
    BY DEF Surjection
  <2> HIDE DEF f, ranks
  <2>2. QED
    BY <1>2, <2>1, FS_Surjection
<1>4. \A a \in ranks : a \in Ranked /\ a.method \in cands /\ a = rank(a.method)
  BY <1>1
<1> HIDE DEF ranks, rank
<1>5. Orders(R, ranks)
  <2>1. \A a, b \in ranks : <<a, b>> \in R <=> Outranks(a, b)
    OBVIOUS
  <2> HIDE DEF R
  <2>2. \A a, b \in ranks : a # b => a.method # b.method
    BY <1>4
  <2>3. QED
    BY <1>4, <2>1, <2>2, Outranking DEF Orders
<1>6. /\ k \in Nat
      /\ \A i \in 1 .. k : list[i] \in ranks
      /\ \A i, j \in 1 .. k : list[i] = list[j] => i = j
      /\ \A a \in ranks : \E i \in 1 .. k : list[i] = a
      /\ \A i, j \in 1 .. k : i < j => <<list[i], list[j]>> \in R
  <2> HIDE DEF R
  <2>1. QED
    BY <1>3, <1>5, OrderedLists
<1>7. PICK n \in 0 .. TOP_K : n = Min({TOP_K, k})
  BY <1>6, LeastOfTwo DEF TOP_K
<1>8. n <= k /\ (k >= 1 => n >= 1)
  BY <1>6, <1>7, LeastOfTwo DEF TOP_K
<1> DEFINE s == Chosen(cands, h)
<1>9. s = [i \in 1 .. n |-> list[i].method]
  BY <1>7 DEF Chosen, ranks, rank
<1> HIDE DEF s, R, list
<1>10. s \in [1 .. n -> cands]
  BY <1>4, <1>6, <1>8, <1>9
<1>11. \A i, j \in 1 .. n : s[i] = s[j] => i = j
  <2> SUFFICES ASSUME NEW i \in 1 .. n, NEW j \in 1 .. n, s[i] = s[j]
               PROVE  i = j
    OBVIOUS
  <2>1. list[i] \in ranks /\ list[j] \in ranks
    BY <1>6, <1>8
  <2>2. list[i] = list[j]
    BY <1>4, <1>9, <2>1
  <2>3. QED
    BY <1>6, <1>8, <2>2
<1>12. cands # {} => n >= 1
  <2> SUFFICES ASSUME NEW m \in cands
               PROVE  n >= 1
    OBVIOUS
  <2>1. rank(m) \in ranks
    BY DEF ranks
  <2>2. k >= 1
    BY <1>6, <2>1
  <2>3. QED
    BY <1>8, <2>2
<1>13. ASSUME n >= 1, NEW m \in cands
       PROVE  ~Outranks(rank(m), rank(s[1]))
  <2>1. rank(m) \in ranks
    BY DEF ranks
  <2>2. PICK i \in 1 .. k : list[i] = rank(m)
    BY <1>6, <2>1
  <2>3. 1 \in 1 .. k /\ 1 \in 1 .. n /\ list[1] \in ranks
    BY <1>6, <1>8, <1>13
  <2>4. list[1] = rank(s[1])
    BY <1>4, <1>9, <2>3
  <2>5. i = 1 \/ <<list[1], list[i]>> \in R
    BY <1>6, <2>3
  <2>6. list[1] \in Ranked /\ list[i] \in Ranked
    BY <1>4, <1>6, <2>3
  <2>7. i = 1 \/ Outranks(list[1], list[i])
    BY <2>5 DEF R
  <2>8. ~Outranks(list[i], list[1])
    BY <2>6, <2>7, Outranking
  <2>9. QED
    BY <2>2, <2>4, <2>8
<1>14. QED
  BY <1>10, <1>11, <1>12, <1>13 DEF s, rank

(***************************************************************************)
(* Plans.                                                                  *)
(***************************************************************************)

Distinct(s) == \A i, j \in DOMAIN s : s[i] = s[j] => i = j
Listed(s) == {s[i] : i \in DOMAIN s}

(* A list without repetition has as many elements as places.               *)
LEMMA CountsDistinct ==
  ASSUME NEW S, NEW n \in Nat, NEW s \in [1 .. n -> S], Distinct(s)
  PROVE  Cardinality(Listed(s)) = n /\ Len(s) = n
<1>1. s \in [1 .. n -> Listed(s)]
  BY DEF Listed
<1>2. s \in Bijection(1 .. n, Listed(s))
  BY <1>1 DEF Bijection, Injection, Surjection, IsInjective, Distinct, Listed
<1>3. ExistsBijection(1 .. n, Listed(s))
  BY <1>2 DEF ExistsBijection
<1>4. Cardinality(Listed(s)) = n
  BY <1>3, FS_CountingElements
<1>5. Len(s) = n
  OBVIOUS
<1>6. QED
  BY <1>4, <1>5

(* The baseline plan is what is left of three methods.                     *)
LEMMA BaselineIsShort ==
  ASSUME NEW h
  PROVE  \E n \in 0 .. TOP_K : Baseline(h) \in [1 .. n -> Method] /\ Distinct(Baseline(h))
<1> DEFINE three == BASELINE_PLAN_METHODS
           open == {i \in DOMAIN three : three[i] \notin h.promoted}
           R == {pair \in open \X open : pair[1] < pair[2]}
           places == Ordered(open, R)
           n == Cardinality(open)
<1>1. DOMAIN three = 1 .. 3 /\ three[1] # three[2] /\ three[1] # three[3] /\ three[2] # three[3]
  BY DEF BASELINE_PLAN_METHODS
<1>2. \A i \in 1 .. 3 : three[i] \in Method
  BY <1>1, RulesSpeakOfMethods
<1> HIDE DEF three
<1>3. open \in SUBSET (1 .. 3)
  BY <1>1
<1>4. IsFiniteSet(open) /\ n <= 3
  <2>1. PICK a \in Int, b \in Int : a = 1 /\ b = 3
    OBVIOUS
  <2>2. /\ IsFiniteSet(a .. b)
        /\ Cardinality(a .. b) = IF a > b THEN 0 ELSE b - a + 1
    BY FS_Interval
  <2>3. Cardinality(a .. b) = 3
    BY <2>1, <2>2
  <2> HIDE DEF open
  <2>4. QED
    BY <1>3, <2>1, <2>2, <2>3, FS_Subset
<1> HIDE DEF open
<1>5. Orders(R, open)
  <2>1. \A a, b \in open : <<a, b>> \in R <=> a < b
    OBVIOUS
  <2> HIDE DEF R
  <2>2. \A a \in open : a \in Int
    BY <1>3
  <2>3. QED
    BY <2>1, <2>2 DEF Orders
<1>6. /\ n \in Nat
      /\ \A i \in 1 .. n : places[i] \in open
      /\ \A i, j \in 1 .. n : places[i] = places[j] => i = j
  <2> HIDE DEF R
  <2>1. QED
    BY <1>4, <1>5, OrderedLists
<1>7. Baseline(h) = [i \in 1 .. n |-> three[places[i]]]
  BY DEF Baseline, three, open
<1> HIDE DEF places, n
<1>8. Baseline(h) \in [1 .. n -> Method]
  BY <1>2, <1>3, <1>6, <1>7
<1>9. \A i, j \in 1 .. n : three[places[i]] = three[places[j]] => i = j
  <2> SUFFICES ASSUME NEW i \in 1 .. n, NEW j \in 1 .. n, three[places[i]] = three[places[j]]
               PROVE  i = j
    OBVIOUS
  <2>1. places[i] \in open /\ places[j] \in open
    BY <1>6
  <2>2. PICK x \in 1 .. 3, y \in 1 .. 3 : x = places[i] /\ y = places[j]
    BY <1>3, <2>1
  <2>3. (x = 1 \/ x = 2 \/ x = 3) /\ (y = 1 \/ y = 2 \/ y = 3)
    OBVIOUS
  <2>4. places[i] = places[j]
    BY <1>1, <2>2, <2>3
  <2>5. QED
    BY <1>6, <2>4
<1>10. n \in 0 .. TOP_K
  BY <1>4, <1>6 DEF TOP_K
<1>11. QED
  BY <1>7, <1>8, <1>9, <1>10 DEF Distinct

(* What a plan is, whatever is known of the problem: the best of the       *)
(* candidates, or the baseline plan where there are none.                  *)
LEMMA PlanIs ==
  ASSUME NEW inp, NEW h \in History
  PROVE  LET p == Plan(inp, h) IN
         /\ p.candidates \in SUBSET (Method \ h.promoted)
         /\ p.fallback \in BOOLEAN
         /\ ~p.fallback => p.items = Chosen(p.candidates, h)
         /\ p.fallback => p.items = Baseline(h) /\ p.candidates = {}
         /\ p.refused = Method \ (IF p.fallback THEN {} ELSE Listed(p.items))
<1> DEFINE guarded == {m \in Method : capability_guard(m, inp)}
           unwired == UNWIRED \ guarded
           fired == Signalled(inp, h) \ (guarded \cup unwired)
           cands == fired \ h.promoted
           chosen == Chosen(cands, h)
           label == classify_bottleneck(inp, h)
           fallback == cands = {} /\ label = "uncertain"
           unfired == Method \ (guarded \cup unwired \cup fired)
           refused == guarded \cup unwired \cup unfired \cup (fired \ cands)
                              \cup RankedOut(cands, chosen)
           p == Plan(inp, h)
<1>1. /\ p.items = IF fallback THEN Baseline(h) ELSE chosen
      /\ p.refused = refused /\ p.candidates = cands /\ p.fallback = fallback
  BY DEF Plan
<1>2. guarded \subseteq Method /\ unwired \subseteq Method /\ fired \subseteq Method
  BY RulesSpeakOfMethods
<1>3. cands \in SUBSET Method
  BY <1>2
<1>4. Listed(chosen) \subseteq cands /\ RankedOut(cands, chosen) = cands \ Listed(chosen)
  <2>1. chosen \in UNION {[1 .. n -> cands] : n \in 0 .. TOP_K}
    <3> HIDE DEF cands
    <3>1. QED
      BY <1>3, ChosenAreBest
  <2> HIDE DEF chosen, cands
  <2>2. QED
    BY <2>1 DEF Listed, RankedOut
<1>5. refused = Method \ Listed(chosen)
  <2>1. cands \subseteq fired /\ fired \cap (guarded \cup unwired) = {}
    OBVIOUS
  <2> HIDE DEF guarded, unwired, fired, cands, chosen
  <2>2. QED
    BY <1>2, <1>4, <2>1
<1>6. fallback => Listed(chosen) = {}
  BY <1>4
<1>7. fallback \in BOOLEAN
  OBVIOUS
<1>8. cands \cap h.promoted = {}
  OBVIOUS
<1> HIDE DEF refused, chosen, cands, p, fallback
<1>9. ~fallback => p.items = chosen
  BY <1>1
<1>10. fallback => p.items = Baseline(h) /\ cands = {}
  BY <1>1 DEF fallback
<1>11. p.refused = Method \ (IF fallback THEN {} ELSE Listed(p.items))
  BY <1>1, <1>5, <1>6, <1>9
<1>12. QED
  BY <1>1, <1>3, <1>7, <1>8, <1>9, <1>10, <1>11 DEF p, chosen

(* A plan is a short list of methods without repetition.                   *)
LEMMA ItemsAreListed ==
  ASSUME NEW inp, NEW h \in History
  PROVE  LET p == Plan(inp, h) IN
         \E n \in 0 .. TOP_K :
           /\ p.items \in [1 .. n -> Method] /\ Distinct(p.items)
           /\ ~p.fallback => /\ p.items \in [1 .. n -> p.candidates]
                             /\ p.candidates # {} => n >= 1
<1> DEFINE p == Plan(inp, h)
<1>1. /\ p.candidates \in SUBSET Method
      /\ p.fallback \in BOOLEAN
      /\ ~p.fallback => p.items = Chosen(p.candidates, h)
      /\ p.fallback => p.items = Baseline(h)
  BY PlanIs
<1> HIDE DEF p
<1>2. CASE p.fallback
  BY <1>1, <1>2, BaselineIsShort DEF p
<1>3. CASE ~p.fallback
  <2>1. PICK n \in 0 .. TOP_K :
          /\ p.items \in [1 .. n -> p.candidates]
          /\ \A i, j \in 1 .. n : p.items[i] = p.items[j] => i = j
          /\ p.candidates # {} => n >= 1
    BY <1>1, <1>3, ChosenAreBest
  <2>2. p.items \in [1 .. n -> Method] /\ Distinct(p.items)
    BY <1>1, <2>1 DEF Distinct
  <2>3. QED
    BY <1>3, <2>1, <2>2 DEF p
<1>4. QED
  BY <1>1, <1>2, <1>3

(* Of what is actionable, the first of the list is proposed.               *)
LEMMA FirstOfList ==
  ASSUME NEW p, NEW h, NEW n \in 0 .. TOP_K, NEW S, p.items \in [1 .. n -> S]
  PROVE  /\ first_actionable(p, h) \in S \cup {"None"}
         /\ n >= 1 /\ S \cap h.promoted = {} => first_actionable(p, h) = p.items[1]
<1> DEFINE open == {i \in DOMAIN p.items : p.items[i] \notin h.promoted}
<1>1. open \subseteq 1 .. n
  OBVIOUS
<1>2. CASE open = {}
  BY <1>2 DEF first_actionable
<1>3. CASE open # {}
  <2>1. PICK least \in open : \A i \in open : least <= i
    <3>1. PICK k \in {0, 1, 2, 3} : k = n /\ open \subseteq {1, 2, 3}
      BY <1>1 DEF TOP_K
    <3> HIDE DEF open
    <3>2. CASE 1 \in open
      BY <3>1, <3>2
    <3>3. CASE 1 \notin open /\ 2 \in open
      BY <3>1, <3>3
    <3>4. CASE open = {3}
      BY <3>4
    <3>5. QED
      BY <1>3, <3>1, <3>2, <3>3, <3>4
  <2>2. Min(open) = least
    <3>1. open \subseteq Int
      BY <1>1
    <3> HIDE DEF open
    <3>2. QED
      BY <2>1, <3>1, LeastIs
  <2>3. first_actionable(p, h) = p.items[least]
    BY <1>3, <2>2 DEF first_actionable
  <2>4. n >= 1 /\ S \cap h.promoted = {} => least = 1
    BY <1>1, <2>1
  <2>5. QED
    BY <1>1, <2>3, <2>4
<1>4. QED
  BY <1>2, <1>3

(* What the plan and its first actionable item promise.                    *)
LEMMA PlanPromises ==
  ASSUME NEW inp, NEW h \in History
  PROVE  LET p == Plan(inp, h)
             m0 == first_actionable(p, h)
         IN  /\ Listed(p.items) \cup p.refused = Method
             /\ Listed(p.items) \cap p.refused # {} => p.fallback
             /\ Cardinality(Listed(p.items)) = Len(p.items) /\ Len(p.items) <= TOP_K
             /\ m0 \in Method \cup {"None"}
             /\ m0 # "None" /\ h.failed[m0] >= 2 =>
                  \A m \in p.candidates : prior_gain(m) > 0 => h.failed[m] >= 1
<1>1. PICK p : p = Plan(inp, h)
  OBVIOUS
<1>2. PICK n \in 0 .. TOP_K :
        /\ p.items \in [1 .. n -> Method] /\ Distinct(p.items)
        /\ ~p.fallback => /\ p.items \in [1 .. n -> p.candidates]
                          /\ p.candidates # {} => n >= 1
  BY <1>1, ItemsAreListed
<1>3. /\ p.candidates \in SUBSET (Method \ h.promoted)
      /\ p.fallback \in BOOLEAN
      /\ ~p.fallback => p.items = Chosen(p.candidates, h)
      /\ p.fallback => p.candidates = {}
      /\ p.refused = Method \ (IF p.fallback THEN {} ELSE Listed(p.items))
  BY <1>1, PlanIs
<1>4. Listed(p.items) \subseteq Method
  BY <1>2 DEF Listed
<1>5. Listed(p.items) \cup p.refused = Method
  BY <1>3, <1>4
<1>6. Listed(p.items) \cap p.refused # {} => p.fallback
  BY <1>3
<1>7. Cardinality(Listed(p.items)) = Len(p.items) /\ Len(p.items) <= TOP_K
  <2>1. n \in Nat /\ n <= TOP_K
    BY DEF TOP_K
  <2>2. QED
    BY <1>2, <2>1, CountsDistinct
<1>8. PICK m0 : m0 = first_actionable(p, h)
  OBVIOUS
<1>9. m0 \in Method \cup {"None"}
  BY <1>2, <1>8, FirstOfList
<1>10. ASSUME m0 # "None", h.failed[m0] >= 2, NEW m \in p.candidates, prior_gain(m) > 0
       PROVE  h.failed[m] >= 1
  <2>1. ~p.fallback /\ p.items = Chosen(p.candidates, h)
    BY <1>3, <1>10
  <2>2. n >= 1 /\ p.items \in [1 .. n -> p.candidates]
    BY <1>2, <1>10, <2>1
  <2>3. m0 = p.items[1] /\ m0 \in p.candidates
    <3>1. p.candidates \cap h.promoted = {}
      BY <1>3
    <3>2. first_actionable(p, h) = p.items[1]
      BY <2>2, <3>1, FirstOfList
    <3>3. p.items[1] \in p.candidates
      <4>1. 1 \in 1 .. n
        BY <2>2
      <4>2. QED
        BY <2>2, <4>1
    <3>4. QED
      BY <1>8, <3>2, <3>3
  <2>4. ~Outranks(Rank(m, p.candidates, h), Rank(m0, p.candidates, h))
    <3>1. PICK k \in 0 .. TOP_K :
            /\ p.items \in [1 .. k -> p.candidates]
            /\ k >= 1 => \A c \in p.candidates :
                 ~Outranks(Rank(c, p.candidates, h), Rank(p.items[1], p.candidates, h))
            /\ p.candidates # {} => k >= 1
      BY <1>3, <2>1, ChosenAreBest
    <3>2. QED
      BY <1>10, <2>3, <3>1
  <2>5. m \in Method /\ m0 \in Method
    BY <1>3, <2>3
  <2>6. h.failed[m] \in 0 .. 6 /\ h.failed[m0] \in 0 .. 6
    BY <2>5, FailuresAssumption DEF History
  <2>7. SUFFICES ASSUME h.failed[m] = 0
                 PROVE  FALSE
    BY <2>6
  <2>8. PICK x \in Int, y \in Int :
          /\ x = Score(m, p.candidates, h) /\ y = Score(m0, p.candidates, h)
          /\ x >= 2000000 /\ y <= 1560000
    BY <1>10, <2>5, <2>7, Worth
  <2>9. ~Front(m0, h)
    BY <1>10, <2>6 DEF Front
  <2>10. Precedes(x, Index[m], y, Index[m0])
    BY <2>8 DEF Precedes
  <2>11. Outranks(Rank(m, p.candidates, h), Rank(m0, p.candidates, h))
    <3>1. PICK a, b : a = Rank(m, p.candidates, h) /\ b = Rank(m0, p.candidates, h)
      OBVIOUS
    <3>2. /\ a.method = m /\ a.score = x /\ a.front = Front(m, h)
          /\ b.method = m0 /\ b.score = y /\ b.front = Front(m0, h)
      <4>1. a.method = m /\ a.score = Score(m, p.candidates, h) /\ a.front = Front(m, h)
        BY <3>1 DEF Rank
      <4>2. b.method = m0 /\ b.score = Score(m0, p.candidates, h) /\ b.front = Front(m0, h)
        BY <3>1 DEF Rank
      <4>3. QED
        BY <2>8, <4>1, <4>2
    <3>3. Precedes(a.score, Index[a.method], b.score, Index[b.method])
      BY <2>10, <3>2
    <3>4. a.front \in BOOLEAN /\ b.front = FALSE
      <4>1. a.front \in BOOLEAN /\ b.front \in BOOLEAN
        BY <3>2 DEF Front
      <4>2. ~b.front
        BY <2>9, <3>2, Zenon
      <4>3. QED
        BY <4>1, <4>2, Zenon
    <3>5. Outranks(a, b)
      <4>1. CASE a.front = TRUE
        BY <3>4, <4>1, Zenon DEF Outranks
      <4>2. CASE a.front = FALSE
        BY <3>3, <3>4, <4>2, Zenon DEF Outranks
      <4>3. QED
        BY <3>4, <4>1, <4>2
    <3>6. QED
      BY <3>1, <3>5
  <2>12. QED
    BY <2>4, <2>11
<1>11. QED
  BY <1>1, <1>5, <1>6, <1>7, <1>8, <1>9, <1>10

(***************************************************************************)
(* The attempts over it.                                                   *)
(***************************************************************************)

(* The port has reported what the ledger holds, but for the call that is   *)
(* being parsed.                                                           *)
Settled ==
  /\ money.run = money.billed
  /\ money.ledger = money.billed + (IF phase \in {"answered", "raised"} THEN 1 ELSE 0)

PlanStands ==
  /\ plan.selected \in Method \cup {"None"}
  /\ EveryMethodIsDisposed /\ FailedMethodYields

AttemptInv == TypeOK /\ Settled /\ PlanStands

LEMMA AttemptInitial ==
  ASSUME Init
  PROVE  AttemptInv
<1>1. MaxFailures \in Nat /\ MaxAttempts \in Nat
  BY FailuresAssumption, AttemptsAssumption
<1>2. input \in Inputs /\ phase = "plan"
  BY DEF Init
<1>3. history \in [failed : [Method -> 0 .. MaxFailures], promoted : SUBSET Method,
                   numeric : BOOLEAN, bounds : BOOLEAN]
  <2>1. [m \in Method |-> 0] \in [Method -> 0 .. MaxFailures]
    BY <1>1
  <2>2. QED
    BY <2>1 DEF Init
<1>4. TypeOK
  BY <1>1, <1>2, <1>3 DEF Init, TypeOK, NoCall
<1>5. Settled
  BY DEF Init, Settled
<1>6. PlanStands
  BY <1>2 DEF Init, NoPlan, PlanStands, EveryMethodIsDisposed, FailedMethodYields, Selected
<1>7. QED
  BY <1>4, <1>5, <1>6 DEF AttemptInv

(* A failure counts for the method of the attempt, if it has one.          *)
LEMMA FailedIsHistory ==
  ASSUME TypeOK, PlanStands
  PROVE  Failed(Selected) \in History /\ history \in History
<1>1. history \in History
  BY DEF TypeOK, History
<1>2. CASE Selected = "None"
  BY <1>1, <1>2 DEF Failed
<1>3. CASE Selected # "None"
  <2>1. PICK m \in Method : m = Selected
    BY <1>3 DEF PlanStands, Selected
  <2>2. history.failed[m] + 1 \in Int /\ history.failed[m] + 1 >= 0 /\ MaxFailures \in Nat
    BY <1>1, FailuresAssumption DEF History
  <2>3. PICK k \in 0 .. MaxFailures : k = Min({MaxFailures, history.failed[m] + 1})
    BY <2>2, LeastOfTwo
  <2>4. Failed(Selected) = [history EXCEPT !.failed[m] = k]
    BY <1>3, <2>1, <2>3 DEF Failed
  <2>5. QED
    BY <1>1, <2>4 DEF History
<1>4. QED
  BY <1>1, <1>2, <1>3

(* A plan stands until the next one, and nobody asks after the history     *)
(* that it was made from has changed.                                      *)
LEMMA PlanStays ==
  ASSUME PlanStands, UNCHANGED plan, phase' # "send" \/ UNCHANGED <<phase, history>>
  PROVE  PlanStands'
<1>1. plan' = plan /\ Selected' = Selected /\ PlanRange' = PlanRange
  BY DEF Selected, PlanRange
<1>2. CASE phase' # "send"
  BY <1>1, <1>2 DEF PlanStands, EveryMethodIsDisposed, FailedMethodYields
<1>3. CASE UNCHANGED <<phase, history>>
  BY <1>1, <1>3 DEF PlanStands, EveryMethodIsDisposed, FailedMethodYields
<1>4. QED
  BY <1>2, <1>3

(* What a step keeps that changes neither the plan nor the money.          *)
LEMMA Quietly ==
  ASSUME AttemptInv, UNCHANGED <<input, attempts, plan, money>>,
         call' \in [tries : 0 .. 2, answer : Completed \cup {"None"}],
         history' \in History, phase' # "send" \/ UNCHANGED <<phase, history>>,
         phase' \in {"plan", "send", "answered", "judge", "confirm", "over", "raised"},
         phase \in {"answered", "raised"} <=> phase' \in {"answered", "raised"}
  PROVE  AttemptInv'
<1>1. TypeOK'
  BY DEF AttemptInv, TypeOK, History
<1>2. Settled'
  BY DEF AttemptInv, Settled
<1>3. PlanStands'
  BY PlanStays DEF AttemptInv
<1>4. QED
  BY <1>1, <1>2, <1>3 DEF AttemptInv

LEMMA PlanKeeps ==
  ASSUME AttemptInv, MakePlan
  PROVE  AttemptInv'
<1>1. history \in History /\ history' = history /\ phase = "plan" /\ phase' = "send"
  BY DEF AttemptInv, TypeOK, History, MakePlan
<1>2. PICK p : p = Plan(input, history)
  OBVIOUS
<1>3. plan' = [items |-> p.items, refused |-> p.refused, candidates |-> p.candidates,
               fallback |-> p.fallback, label |-> p.label, coverage |-> p.coverage,
               selected |-> first_actionable(p, history)]
  BY <1>2 DEF MakePlan
<1>4. PICK m0 : m0 = first_actionable(p, history)
  OBVIOUS
<1>5. /\ plan'.items = p.items /\ plan'.refused = p.refused /\ plan'.selected = m0
      /\ plan'.candidates = p.candidates /\ plan'.fallback = p.fallback
  BY <1>3, <1>4
<1>6. /\ Listed(p.items) \cup p.refused = Method
      /\ Listed(p.items) \cap p.refused # {} => p.fallback
      /\ Cardinality(Listed(p.items)) = Len(p.items) /\ Len(p.items) <= TOP_K
      /\ m0 \in Method \cup {"None"}
      /\ m0 # "None" /\ history.failed[m0] >= 2 =>
           \A m \in p.candidates : prior_gain(m) > 0 => history.failed[m] >= 1
  BY <1>1, <1>2, <1>4, PlanPromises
<1>7. PlanRange' = Listed(p.items) /\ Selected' = m0
  BY <1>5 DEF PlanRange, Listed, Selected
<1>8. PlanStands'
  BY <1>1, <1>5, <1>6, <1>7 DEF PlanStands, EveryMethodIsDisposed, FailedMethodYields
<1>9. attempts' \in 0 .. MaxAttempts
  BY FailuresAssumption, AttemptsAssumption DEF AttemptInv, TypeOK, MakePlan
<1>10. TypeOK'
  BY <1>9 DEF MakePlan, NoCall, AttemptInv, TypeOK
<1>11. Settled'
  BY <1>1 DEF MakePlan, AttemptInv, Settled
<1>12. QED
  BY <1>8, <1>10, <1>11 DEF AttemptInv

(* What the port reports is the ledger's.                                  *)
LEMMA Reporting ==
  ASSUME NEW m \in [provider : Nat, ledger : Nat, billed : Nat, run : Nat],
         m.run = m.billed, m.ledger >= m.billed
  PROVE  /\ Report(m) \in [provider : Nat, ledger : Nat, billed : Nat, run : Nat]
         /\ Report(m).run = Report(m).billed /\ Report(m).ledger = Report(m).billed
<1>1. m.ledger \in Nat /\ m.billed \in Nat /\ m.run \in Nat
  OBVIOUS
<1>2. m.run + m.ledger - m.billed = m.ledger
  BY <1>1
<1>3. Report(m) = [m EXCEPT !.run = m.ledger, !.billed = m.ledger]
  BY <1>2 DEF Report
<1>4. QED
  BY <1>1, <1>3

(* A generation that fails, with what was paid for it.                     *)
LEMMA FailingKeeps ==
  ASSUME AttemptInv, UNCHANGED <<input, attempts, plan>>,
         NEW m \in [provider : Nat, ledger : Nat, billed : Nat, run : Nat],
         m.run = m.billed, m.ledger >= m.billed, GenerationFails(m),
         call' \in [tries : 0 .. 2, answer : Completed \cup {"None"}]
  PROVE  AttemptInv'
<1>1. history' \in History /\ phase' = "plan"
  BY FailedIsHistory DEF GenerationFails, AttemptInv
<1>2. /\ money' \in [provider : Nat, ledger : Nat, billed : Nat, run : Nat]
      /\ money'.run = money'.billed /\ money'.ledger = money'.billed
  BY Reporting DEF GenerationFails
<1>3. TypeOK'
  BY <1>1, <1>2 DEF AttemptInv, TypeOK, History
<1>4. Settled'
  BY <1>1, <1>2 DEF Settled
<1>5. PlanStands'
  BY <1>1, PlanStays DEF AttemptInv
<1>6. QED
  BY <1>3, <1>4, <1>5 DEF AttemptInv

(* What is known of the money where nothing is being parsed, and where     *)
(* something is.                                                           *)
LEMMA Purse ==
  ASSUME AttemptInv
  PROVE  /\ money \in [provider : Nat, ledger : Nat, billed : Nat, run : Nat]
         /\ money.run = money.billed /\ money.ledger >= money.billed
         /\ phase = "send" => money.ledger = money.billed
         /\ phase = "answered" => money.ledger = money.billed + 1
BY DEF AttemptInv, TypeOK, Settled

LEMMA AnswerKeeps ==
  ASSUME AttemptInv, NEW answer \in Completed, Answered(answer)
  PROVE  AttemptInv'
<1>1. PICK paid : paid = [money EXCEPT !.provider = @ + 1]
  OBVIOUS
<1>2. /\ paid \in [provider : Nat, ledger : Nat, billed : Nat, run : Nat]
      /\ paid.run = paid.billed /\ paid.ledger = paid.billed
  BY <1>1, Purse DEF Answered
<1>3. /\ call' \in [tries : 0 .. 2, answer : Completed \cup {"None"}]
      /\ UNCHANGED <<input, attempts, plan>> /\ phase = "send"
  BY DEF Answered
<1>4. CASE answer \in Unusable
  BY <1>1, <1>2, <1>3, <1>4, FailingKeeps DEF Answered
<1>5. CASE answer \notin Unusable
  <2>1. money' = Recorded(paid) /\ phase' = "answered" /\ history' = history
    BY <1>1, <1>5 DEF Answered
  <2>2. /\ money' \in [provider : Nat, ledger : Nat, billed : Nat, run : Nat]
        /\ money'.run = money'.billed /\ money'.ledger = money'.billed + 1
    BY <1>2, <2>1 DEF Recorded
  <2>3. TypeOK'
    BY <1>3, <2>1, <2>2 DEF AttemptInv, TypeOK
  <2>4. Settled'
    BY <2>1, <2>2 DEF Settled
  <2>5. PlanStands'
    BY <1>3, <2>1, PlanStays DEF AttemptInv
  <2>6. QED
    BY <2>3, <2>4, <2>5 DEF AttemptInv
<1>6. QED
  BY <1>4, <1>5

LEMMA ParseKeeps ==
  ASSUME AttemptInv, ParseAnswer
  PROVE  AttemptInv'
<1>1. /\ UNCHANGED <<input, attempts, plan>> /\ phase = "answered"
      /\ call' \in [tries : 0 .. 2, answer : Completed \cup {"None"}]
  BY DEF ParseAnswer, AttemptInv, TypeOK
<1>2. CASE GenerationFails(money)
  BY <1>1, <1>2, Purse, FailingKeeps
<1>3. CASE phase' = "raised" /\ UNCHANGED <<history, money>>
  <2>1. history' \in History
    BY <1>3, FailedIsHistory DEF AttemptInv
  <2>2. QED
    BY <1>1, <1>3, <2>1, Quietly
<1>4. CASE money' = Report(money) /\ phase' = "judge" /\ UNCHANGED history
  <2>1. /\ money' \in [provider : Nat, ledger : Nat, billed : Nat, run : Nat]
        /\ money'.run = money'.billed /\ money'.ledger = money'.billed
    BY <1>1, <1>4, Purse, Reporting
  <2>2. TypeOK'
    BY <1>1, <1>4, <2>1 DEF AttemptInv, TypeOK
  <2>3. Settled'
    BY <1>4, <2>1 DEF Settled
  <2>4. PlanStands'
    BY <1>1, <1>4, PlanStays DEF AttemptInv
  <2>5. QED
    BY <2>2, <2>3, <2>4 DEF AttemptInv
<1>5. QED
  BY <1>2, <1>3, <1>4 DEF ParseAnswer

LEMMA RetryKeeps ==
  ASSUME AttemptInv, Transient \/ Refused
  PROVE  AttemptInv'
<1>1. NoCall \in [tries : 0 .. 2, answer : Completed \cup {"None"}]
  BY DEF NoCall
<1>2. UNCHANGED <<input, attempts, plan>>
  BY DEF Transient, Refused
<1>3. CASE GenerationFails(money) /\ call' = NoCall
  BY <1>1, <1>2, <1>3, Purse, FailingKeeps
<1>4. CASE Transient /\ call.tries # 2
  <2>1. call' \in [tries : 0 .. 2, answer : Completed \cup {"None"}]
    BY <1>4 DEF Transient, AttemptInv, TypeOK
  <2>2. UNCHANGED <<history, money, phase>>
    BY <1>4 DEF Transient
  <2>3. history' \in History
    BY <2>2, FailedIsHistory DEF AttemptInv
  <2>4. phase' = "send"
    BY <1>4, <2>2 DEF Transient
  <2>5. QED
    BY <1>2, <2>1, <2>2, <2>3, <2>4, Quietly
<1>5. QED
  BY <1>3, <1>4 DEF Transient, Refused

(* The stages change what is remembered of the method, and where the       *)
(* attempt is.                                                             *)
LEMMA StagesKeep ==
  ASSUME AttemptInv, Stages
  PROVE  AttemptInv'
<1>1. /\ UNCHANGED <<input, attempts, plan, call, money>>
      /\ phase \in {"judge", "confirm"} /\ phase' \in {"plan", "over", "confirm"}
  BY DEF Stages, PolicyGate, Reject, EvaluatorFails, Timed, Confirm, Rejected
<1>2. call' \in [tries : 0 .. 2, answer : Completed \cup {"None"}]
  BY <1>1 DEF AttemptInv, TypeOK
<1>3. Failed(Selected) \in History /\ history \in History
  BY FailedIsHistory DEF AttemptInv
<1>4. history' \in History
  <2>1. CASE PolicyGate \/ EvaluatorFails \/ Timed
    BY <1>3, <2>1 DEF PolicyGate, EvaluatorFails, Timed, Rejected
  <2>2. CASE Reject
    <3>1. CASE Rejected(Failed(Selected))
      BY <1>3, <3>1 DEF Rejected
    <3>2. ASSUME NEW nan \in BOOLEAN, NEW oob \in BOOLEAN,
                 Rejected([Failed(Selected) EXCEPT !.numeric = @ \/ nan \/ oob, !.bounds = @ \/ oob])
          PROVE  history' \in History
      BY <1>3, <3>2 DEF Rejected, History
    <3>3. QED
      BY <2>2, <3>1, <3>2 DEF Reject
  <2>3. CASE Confirm
    <3>1. history' \in {history, Failed(Selected)}
            \/ (/\ Selected # "None"
                /\ history' = [history EXCEPT !.promoted = @ \cup {Selected}])
      BY <2>3 DEF Confirm
    <3>2. Selected # "None" => Selected \in Method
      BY DEF AttemptInv, PlanStands, Selected
    <3>3. QED
      BY <1>3, <3>1, <3>2 DEF History
  <2>4. QED
    BY <2>1, <2>2, <2>3 DEF Stages
<1>5. QED
  BY <1>1, <1>2, <1>4, Quietly

(* What a run knows of its plans and of its tokens, at every moment.       *)
THEOREM AttemptInvariant == Spec => []AttemptInv
<1>1. Init => AttemptInv
  BY AttemptInitial
<1>2. AttemptInv /\ [Next]_vars => AttemptInv'
  <2> SUFFICES ASSUME AttemptInv, [Next]_vars
               PROVE  AttemptInv'
    OBVIOUS
  <2>1. CASE UNCHANGED vars
    BY <2>1 DEF vars, AttemptInv, TypeOK, Settled, PlanStands, EveryMethodIsDisposed,
                FailedMethodYields, PlanRange, Selected
  <2>2. QED
    BY <2>1, PlanKeeps, RetryKeeps, AnswerKeeps, ParseKeeps, StagesKeep DEF Next, Client
<1>3. QED
  BY <1>1, <1>2, PTL DEF Spec

(* The types.                                                              *)
THEOREM GenerationTypes == Spec => []TypeOK
<1>1. AttemptInv => TypeOK
  BY DEF AttemptInv
<1>2. QED
  BY <1>1, AttemptInvariant, PTL

(* Every method is planned or refused, whatever is known of the problem    *)
(* and whatever has been tried.                                            *)
THEOREM NothingIsLeftImplicit == Spec => []EveryMethodIsDisposed
<1>1. AttemptInv => EveryMethodIsDisposed
  BY DEF AttemptInv, PlanStands
<1>2. QED
  BY <1>1, AttemptInvariant, PTL

(* A method that failed twice waits for every other that promises a gain.  *)
THEOREM FailedMethodsWait == Spec => []FailedMethodYields
<1>1. AttemptInv => FailedMethodYields
  BY DEF AttemptInv, PlanStands
<1>2. QED
  BY <1>1, AttemptInvariant, PTL

(* The run is told the tokens of each call once.                           *)
THEOREM TokensAreToldOnce == Spec => []TokensAreDeltas
<1>1. AttemptInv => TokensAreDeltas
  BY Purse DEF AttemptInv, Settled, TypeOK, TokensAreDeltas
<1>2. QED
  BY <1>1, AttemptInvariant, PTL
=============================================================================
