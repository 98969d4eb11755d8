-------------------------- MODULE EvaluationStages --------------------------
(***************************************************************************)
(* A GPU stage of the optimization loop: the port that config.py builds    *)
(* runs the stage's driver in a container and reads the result file of its *)
(* work directory. Each port keeps something else of what it knows.        *)
(*                                                                         *)
(*   evaluate         None without a readable verdict (the loop records    *)
(*                    infra_error), else what the file says                *)
(*   correctness_pro  not ok unless the file says so                       *)
(*   timing           rejected unless the file holds valid samples         *)
(***************************************************************************)
EXTENDS ContainerWorker

CONSTANT Stage

ASSUME StageAssumption == Stage \subseteq {"evaluate", "correctness_pro", "timing"}

VARIABLES
  stage,      (* the stage whose container this is                         *)
  answer      (* what its port gives the loop                              *)

vars == <<workerVars, stage, answer>>

Answer == {"pending", "none", "fail", "pass"}

Init ==
  /\ WorkerInit
  /\ stage \in Stage
  /\ answer = "pending"

-----------------------------------------------------------------------------
(* The result file, if the outcome names a work directory and it parses.   *)
Payload == IF workdir /\ result \in {"fail", "pass"} THEN result ELSE "none"

(* derive_upstream_verdict; the port returns adapter_pass, and the         *)
(* "consistent" flag, which is false unless the container completed, is    *)
(* not part of what it returns.                                            *)
Evaluate == answer' = Payload

(* run_pro_case refuses a container that did not complete, and passes the  *)
(* checks of the payload on; the port derives the verdict from these       *)
(* checks a second time.                                                   *)
CorrectnessPro == answer' = IF Payload = "pass" THEN "pass" ELSE "fail"

(* validate_timing_payload on the file; outcome_status is not returned.    *)
Timing == answer' = IF Payload = "pass" THEN "pass" ELSE "fail"

Interpret ==
  /\ pc = "returned" /\ answer = "pending"
  /\ \/ stage = "evaluate" /\ Evaluate
     \/ stage = "correctness_pro" /\ CorrectnessPro
     \/ stage = "timing" /\ Timing
  /\ UNCHANGED <<workerVars, stage>>

Next ==
  \/ WorkerNext /\ UNCHANGED <<stage, answer>>
  \/ Interpret

(* The parent's steps take their time and no more: every docker command    *)
(* and every wait has a timeout. Nothing is assumed of docker or of the    *)
(* payload; the clock goes on.                                             *)
Fairness ==
  /\ WF_vars(Parent /\ UNCHANGED <<stage, answer>>)
  /\ WF_vars(Interpret)
  /\ WF_vars(Expire /\ UNCHANGED <<misled, stage, answer>>)

Spec == Init /\ [][Next]_vars /\ Fairness

-----------------------------------------------------------------------------
StageTypeOK ==
  /\ TypeOK
  /\ stage \in Stage
  /\ answer \in Answer

(* A stage always comes back, whatever docker and the payload do.          *)
StageAnswers == <>(answer # "pending")

(* "A result over its limits is a structured failed, timeout or            *)
(* infra_error and must not be turned into a correct score"                *)
(* (docs/adr/0001): a container that was cut short, or whose end is not    *)
(* known, gives no pass.                                                   *)
CutShortNeverScores == answer = "pass" => status = "completed"

=============================================================================
