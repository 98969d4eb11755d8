------------------------ MODULE CandidateGeneration ------------------------
(***************************************************************************)
(* The attempts of a run as the planner and the model provider see them:   *)
(* plan, ask, be billed, parse, judge, and plan again with what became of  *)
(* it. The provider answers late, wrongly or not at all; the stages on the *)
(* GPU are the answers that the history tells apart.                       *)
(***************************************************************************)
EXTENDS MethodPlanner

CONSTANTS
  Inputs,         (* the problems: what is known of them beforehand         *)
  MaxAttempts,    (* max_candidates                                         *)
  Batches         (* bound: batch timings, as [n, min, max]                 *)

ASSUME AttemptsAssumption == MaxAttempts \in 1 .. MaxFailures

VARIABLES
  input,
  history,        (* what the planner reads of attempt_history              *)
  attempts,       (* candidates begun                                       *)
  plan,           (* the plan of this attempt and what was selected of it   *)
  call,           (* requests sent for this attempt, and the last answer    *)
  money,          (* tokens: of the provider, the ledger, the port, the run *)
  verdict,        (* the decision on this attempt and its evidence          *)
  phase

vars == <<input, history, attempts, plan, call, money, verdict, phase>>

Selected == plan.selected
NoPlan == [items |-> <<>>, refused |-> {}, candidates |-> {}, fallback |-> FALSE,
           label |-> "uncertain", coverage |-> "static_only", selected |-> "None"]
NoCall == [tries |-> 0, answer |-> "None"]
NoVerdict == [outcome |-> "None", correct |-> FALSE, incumbent |-> [n |-> 0, min |-> 0, max |-> 0],
              candidate |-> [n |-> 0, min |-> 0, max |-> 0]]

(* A completed response: what the client rejects, what the generator does, *)
(* and a candidate, which may do what no candidate may.                    *)
Invalid == {"no usage", "no model"}
Unusable == {"not JSON", "malformed", "empty content", "other model"} \cup Invalid
Unparsed == {"prose", "no ModelNew"}
Tampering == {"imports os", "patches torch", "evaluates text", "opens /out"}
Completed == Unusable \cup Unparsed \cup Tampering \cup {"too deep", "candidate"}

TypeOK ==
  /\ input \in Inputs
  /\ history \in [failed : [Method -> 0 .. MaxFailures], promoted : SUBSET Method,
                  numeric : BOOLEAN, bounds : BOOLEAN]
  /\ attempts \in 0 .. MaxAttempts
  /\ call \in [tries : 0 .. 2, answer : Completed \cup {"None"}]
  /\ money \in [provider : Nat, ledger : Nat, billed : Nat, run : Nat]
  /\ phase \in {"plan", "send", "answered", "judge", "confirm", "over", "raised"}

Init ==
  /\ input \in Inputs
  /\ history = [failed |-> [m \in Method |-> 0], promoted |-> {},
                numeric |-> FALSE, bounds |-> FALSE]
  /\ attempts = 0 /\ plan = NoPlan /\ call = NoCall /\ verdict = NoVerdict
  /\ money = [provider |-> 0, ledger |-> 0, billed |-> 0, run |-> 0]
  /\ phase = "plan"

(* planner.plan() on the history, and compose_seed_note() with the one     *)
(* fragment of the first actionable item.                                  *)
MakePlan ==
  /\ phase = "plan" /\ attempts < MaxAttempts
  /\ LET p == Plan(input, history)
     IN  plan' = [items |-> p.items, refused |-> p.refused, candidates |-> p.candidates,
                  fallback |-> p.fallback, label |-> p.label, coverage |-> p.coverage,
                  selected |-> first_actionable(p, history)]
  /\ attempts' = attempts + 1
  /\ call' = NoCall /\ verdict' = NoVerdict
  /\ phase' = "send"
  /\ UNCHANGED <<input, history, money>>

(* An AttemptRecord with a failure class other than infra.                 *)
Failed(m) ==
  IF m = "None" THEN history
  ELSE [history EXCEPT !.failed[m] = Min({MaxFailures, @ + 1})]

-----------------------------------------------------------------------------
(* GenerationPort around CandidateGenerator around the client.             *)

(* Mutant: the port reports what the ledger holds.                         *)
ReportTotal(m) == [m EXCEPT !.run = @ + m.ledger, !.billed = m.ledger]

(* GenerationPort.__call__: the tokens of this call.                       *)
Report(m) == [m EXCEPT !.run = @ + m.ledger - m.billed, !.billed = m.ledger]

(* A GenerationFailure is a failure of class parse, whatever its stage.    *)
GenerationFails(m) ==
  /\ money' = Report(m)
  /\ history' = Failed(Selected)
  /\ phase' = "plan"

(* Mutant: transient statuses are retried for as long as they come.        *)
TransientForever ==
  /\ phase = "send"
  /\ call' = [call EXCEPT !.tries = (@ + 1) % 3]
  /\ UNCHANGED <<input, attempts, plan, verdict, history, money, phase>>

(* 408, 409, 425, 429, 5xx: three requests at most.                        *)
Transient ==
  /\ phase = "send"
  /\ IF call.tries = 2 THEN GenerationFails(money) /\ call' = NoCall
     ELSE call' = [call EXCEPT !.tries = @ + 1] /\ UNCHANGED <<history, money, phase>>
  /\ UNCHANGED <<input, attempts, plan, verdict>>

(* Any other status; no connection, a timeout: no second request.          *)
Refused ==
  /\ phase = "send"
  /\ call' = NoCall
  /\ GenerationFails(money)
  /\ UNCHANGED <<input, attempts, plan, verdict>>

(* CostLedger.record.                                                      *)
Recorded(m) == [m EXCEPT !.ledger = @ + 1]

(* A completion, which the provider bills. What the client cannot use it   *)
(* raises for, before the ledger has heard of it.                          *)
Answered(answer) ==
  /\ phase = "send"
  /\ call' = [tries |-> 0, answer |-> answer]
  /\ LET paid == [money EXCEPT !.provider = @ + 1]
     IN  IF answer \in Unusable THEN GenerationFails(paid)
         ELSE /\ money' = Recorded(paid)
              /\ phase' = "answered" /\ UNCHANGED history
  /\ UNCHANGED <<input, attempts, plan, verdict>>

(* extract_candidate_source and validate_candidate_structure. ast.parse    *)
(* may raise something else than a SyntaxError: that leaves the run.       *)
ParseAnswer ==
  /\ phase = "answered"
  /\ CASE call.answer \in Unparsed -> GenerationFails(money)
       [] call.answer = "too deep" -> phase' = "raised" /\ UNCHANGED <<history, money>>
       [] OTHER ->
            money' = Report(money) /\ phase' = "judge" /\ UNCHANGED history
  /\ UNCHANGED <<input, attempts, plan, call, verdict>>

Client == Transient \/ Refused \/ (\E answer \in Completed : Answered(answer)) \/ ParseAnswer

-----------------------------------------------------------------------------
(* The stages after the generation, as the history tells them apart.       *)

Rejected(h) == history' = h /\ phase' = "plan"

(* inspect_candidate_policy.                                               *)
Allowed == call.answer \notin Tampering

PolicyGate ==
  /\ phase = "judge" /\ ~Allowed
  /\ Rejected(Failed(Selected))
  /\ UNCHANGED <<input, attempts, plan, call, money, verdict>>

(* A wrong result, whose note may speak of NaN or of an access out of      *)
(* bounds; an invalid timing.                                              *)
Reject ==
  /\ phase = "judge" /\ Allowed
  /\ \/ Rejected(Failed(Selected))
     \/ \E nan, oob \in BOOLEAN :
          Rejected([Failed(Selected) EXCEPT !.numeric = @ \/ nan \/ oob, !.bounds = @ \/ oob])
  /\ UNCHANGED <<input, attempts, plan, call, money, verdict>>

(* No verdict from the evaluator: the run stops, no attempt is recorded.   *)
EvaluatorFails ==
  /\ phase = "judge" /\ Allowed /\ phase' = "over"
  /\ UNCHANGED <<input, history, attempts, plan, call, money, verdict>>

(* Timed, and correct or not: the facts that confirm() is given come from  *)
(* upstream, the gate before was the adapter's.                            *)
Timed ==
  /\ phase = "judge" /\ Allowed /\ phase' = "confirm"
  /\ \E correct \in BOOLEAN, b, c \in Batches :
       /\ c.n >= 1
       /\ verdict' = [outcome |-> "None", correct |-> correct, incumbent |-> b, candidate |-> c]
  /\ UNCHANGED <<input, history, attempts, plan, call, money>>

MIN_BATCHES == 5

(* bootstrap_ratio_ci: which of the ratios of means of resampled batches   *)
(* the lower bound is, is for the random numbers to say.                   *)
LowerBounds(b, c) == {<<x, y>> : x \in b.min .. b.max, y \in c.min .. c.max}

(* confirm_promotion with delta = 0.02. *)
confirm_promotion(v) ==
  CASE ~v.correct -> {"reject_incorrect"}
    [] v.correct /\ (v.incumbent.n < MIN_BATCHES \/ v.candidate.n < MIN_BATCHES) ->
         {"retain_incumbent"}
    [] OTHER -> {IF 100 * low[1] > 102 * low[2] THEN "promote" ELSE "retain_incumbent" :
                   low \in LowerBounds(v.incumbent, v.candidate)}

Confirm ==
  /\ phase = "confirm"
  /\ \E outcome \in confirm_promotion(verdict) :
       /\ IF outcome = "promote"
          THEN /\ verdict' = [verdict EXCEPT !.outcome = outcome]
               /\ history' = IF Selected = "None" THEN history
                             ELSE [history EXCEPT !.promoted = @ \cup {Selected}]
               /\ phase' = "over"
          ELSE verdict' = NoVerdict /\ history' = Failed(Selected) /\ phase' = "plan"
  /\ UNCHANGED <<input, attempts, plan, call, money>>

Stages == PolicyGate \/ Reject \/ EvaluatorFails \/ Timed \/ Confirm

Next == MakePlan \/ Client \/ Stages

(* A request has a timeout and the rest is computation.                    *)
Spec == Init /\ [][Next]_vars /\ WF_vars(Client)

-----------------------------------------------------------------------------
PlanRange == {plan.items[i] : i \in DOMAIN plan.items}

(* "nothing about a method's disposition is left implicit": every method of *)
(* the catalog is planned or refused, and only the baseline of a problem of *)
(* which nothing is known may plan what it had refused for want of signals. *)
EveryMethodIsDisposed ==
  phase = "send" =>
    /\ PlanRange \cup plan.refused = Method
    /\ PlanRange \cap plan.refused # {} => plan.fallback
    /\ Cardinality(PlanRange) = Len(plan.items) /\ Len(plan.items) <= TOP_K

(* A ranked-out method "will resurface when higher-ranked hypotheses fail": *)
(* none is tried a third time while another that matches, and promises a   *)
(* gain at all, has not been.                                              *)
FailedMethodYields ==
  phase = "send" /\ Selected # "None" /\ history.failed[Selected] >= 2 =>
    \A m \in plan.candidates : prior_gain(m) > 0 => history.failed[m] >= 1

(* The run is told the tokens of each call once, whatever the calls before *)
(* it came to: "cumulative ledger totals must never be settled twice".     *)
TokensAreDeltas ==
  phase \in {"plan", "judge", "confirm", "over"} => money.run = money.ledger

(* A generation comes to an end whatever the provider answers.             *)
GenerationReturns == (phase = "send") ~> (phase # "send")
=============================================================================
