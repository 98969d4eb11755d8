-------------------------- MODULE OptimizationLoop --------------------------
(***************************************************************************)
(* optimize() and `kernelagent profile`: the loop over one problem's       *)
(* baseline and candidates, and the files it leaves in the run directory:  *)
(* records, champion.json, report.json, each replaced atomically.          *)
(*                                                                         *)
(* The actions of the loop run through Orchestrator.run(), one per call;   *)
(* of its journal this module keeps what the loop depends on: which        *)
(* actions are finished, and the GPU seconds settled and held (module      *)
(* Orchestrator shows that a live budget equals these replayed totals and  *)
(* that a finish is there for good). One process at a time works on the    *)
(* directory (run.lock). Any of them may die between two steps: then the   *)
(* files stay and the reservation of the attempt stays held.               *)
(*                                                                         *)
(* Model and GPU stages are external: each may give any of the answers     *)
(* the loop tells apart. A stage that raises ends the process.             *)
(***************************************************************************)
EXTENDS Integers, Sequences, FiniteSets

CONSTANTS
  Top,               (* candidates any allowance reaches: 0 .. Top - 1     *)
  Allowance,         (* what a process may be configured with              *)
  Floor,             (* the timeout of each GPU stage, in seconds          *)
  Lease,             (* what the metered stages of one attempt may take    *)
  ProfileWall,       (* what collecting the baseline profile may take      *)
  CorrectnessPro,    (* the correctness_pro port is there                  *)
  MaxStarts          (* bound: processes ever started                      *)

Index == 0 .. Top - 1

ASSUME TopAssumption == Top \in Nat \ {0} /\ MaxStarts \in Nat
ASSUME AllowanceAssumption ==
  Allowance \subseteq
    [candidates : 1 .. Top, repairs : Nat, seconds : Nat, profile : BOOLEAN]
GpuStage == {"evaluating", "proving", "timing"}

ASSUME SecondsAssumption ==
  Floor \in [GpuStage -> Nat] /\ Lease \subseteq Nat /\ ProfileWall \subseteq Nat
ASSUME SwitchAssumption == CorrectnessPro \in BOOLEAN

VARIABLES
  directory,  (* "empty", "claimed" (lock, manifest) or "journaled"        *)
  timed,      (* baseline-eager is finished in the journal                 *)
  finished,   (* candidates finished in the journal                        *)
  settled, held,                                         (* its GPU seconds *)
  bills,      (* settlements of profile-baseline in it                     *)
  baseline,   (* records/baseline-eager.json and its profile field         *)
  record,     (* records/candidate-*.json                                  *)
  champion,   (* champion/champion.json                                    *)
  report,     (* report.json                                               *)
  starts,     (* processes started                                         *)
  sources,    (* candidate sources generated                               *)
  pc, allowance, index, repairs,
  history,    (* attempt_history, what the planner sees                    *)
  feedback,   (* what the next request says of the last failure            *)
  outcome,    (* of the attempt being made                                 *)
  state       (* the terminal state of the loop                            *)

ledgerVars == <<timed, finished, settled, held, bills>>
recordVars == <<baseline, record, champion>>
loopVars == <<allowance, index, repairs>>
planVars == <<history, feedback>>
countVars == <<starts, sources>>
diskVars == <<directory, ledgerVars, recordVars, report>>
mindVars == <<loopVars, planVars, outcome, state>>
vars == <<diskVars, countVars, pc, mindVars>>

NoRecord == [sha |-> 0, outcome |-> "none"]
NoChampion == [index |-> -1, sha |-> 0]
NoReport == [state |-> "none", champion |-> NoChampion, candidates |-> 0, repairs |-> 0]
NoFeedback == [sha |-> 0, text |-> ""]
NoAllowance == [candidates |-> 0, repairs |-> 0, seconds |-> 0, profile |-> TRUE]

Failed == {"generation", "evaluate", "correctness_pro"}
Rejected == {"policy", "timing", "async_leak"}
Outcome == Failed \cup Rejected \cup {"eval_infra", "retained", "promoted"}

(* The sentence the next request quotes, and the detail the record keeps:  *)
(* for an async leak they are two different texts.                         *)
Said(o) == o
Wrote(o) == IF o = "async_leak" THEN "async leak integrity check failed" ELSE o

Terminal == {"completed", "no_improvement", "budget_exhausted", "infra_error"}

Attempting == {"generating", "screening", "confirming", "crowning", "persisting",
               "committing"} \cup GpuStage
Phase == {"down", "baseline", "measuring", "settling", "profiling", "profiled",
          "candidate", "judging", "reporting", "returned"} \cup Attempting

BaselineEstimate == Floor["timing"]
CandidateEstimate ==
  Floor["evaluating"] + (IF CorrectnessPro THEN Floor["proving"] ELSE 0) + Floor["timing"]

(* Mutant: what interrupted attempts hold is not counted.                  *)
AffordableUnheld(estimate) == settled + estimate <= allowance.seconds

Affordable(estimate) == settled + held + estimate <= allowance.seconds

(* _stage_deadline_seconds: what the budget leaves a stage of an attempt   *)
(* that reserved estimate, never more than the stage's own timeout.        *)
Deadline(estimate, floor) ==
  LET heldByOthers == held - estimate
      remaining == allowance.seconds - settled - heldByOthers
  IN  IF remaining < 0 THEN 0 ELSE IF remaining < floor THEN remaining ELSE floor

-----------------------------------------------------------------------------
(* What a process that starts reads back from the candidate records.       *)

Recorded == {i \in Index : record[i] # NoRecord}
Attempt(i) == [index |-> i, sha |-> record[i].sha, outcome |-> record[i].outcome]

(* Mutant: rejected candidates are left out of the restored history.       *)
RestoredFailures ==
  LET kept == {i \in Recorded : record[i].outcome \notin Rejected}
  IN  [n \in 1 .. Cardinality(kept) |->
         Attempt(CHOOSE i \in kept : Cardinality({j \in kept : j < i}) = n - 1)]

Restored == [n \in 1 .. Cardinality(Recorded) |->
               Attempt(CHOOSE i \in Recorded :
                         Cardinality({j \in Recorded : j < i}) = n - 1)]

Telling == {i \in Recorded : record[i].outcome \notin {"promoted", "eval_infra"}}

RestoredFeedback ==
  IF Telling = {} THEN NoFeedback
  ELSE LET i == CHOOSE i \in Telling : \A j \in Telling : j <= i
       IN  [sha |-> record[i].sha, text |-> Wrote(record[i].outcome)]

-----------------------------------------------------------------------------
(* A process starts under run.lock. NoAllowance marks `kernelagent         *)
(* profile`, which has no budget of its own.                               *)

Boot(a) ==
  /\ pc = "down"
  /\ starts < MaxStarts
  /\ starts' = starts + 1
  /\ allowance' = a
  /\ history' = Restored
  /\ feedback' = RestoredFeedback
  /\ UNCHANGED <<ledgerVars, recordVars, report, sources, index, repairs, outcome, state>>

(* A fresh run refuses a directory that holds anything; its manifest is    *)
(* there before its journal.                                               *)
StartFresh ==
  /\ directory = "empty"
  /\ \E a \in Allowance : Boot(a)
  /\ directory' = "claimed"
  /\ pc' = "baseline"

(* A resumed run needs the journal and may revise the allowance.           *)
Resume ==
  /\ directory = "journaled"
  /\ \E a \in Allowance : Boot(a)
  /\ pc' = "baseline"
  /\ UNCHANGED directory

StartProfile ==
  /\ directory # "empty"
  /\ Boot(NoAllowance)
  /\ pc' = "profiling"
  /\ UNCHANGED directory

(* The memory of a process that is gone.                                   *)
Forget ==
  /\ pc' = "down"
  /\ allowance' = NoAllowance
  /\ index' = 0
  /\ repairs' = 0
  /\ history' = << >>
  /\ feedback' = NoFeedback
  /\ outcome' = "none"
  /\ state' = "completed"
  /\ UNCHANGED <<recordVars, report, starts, sources>>

Die ==
  /\ pc # "down"
  /\ Forget
  /\ UNCHANGED <<directory, ledgerVars>>

Estimate == IF pc = "settling" THEN BaselineEstimate ELSE CandidateEstimate

(* Stages that used no GPU settle exactly 0.                               *)
LeaseOf(o) == IF o \in {"generation", "policy"} THEN {0} ELSE Lease

Settle(cost) ==
  /\ settled' = settled + cost
  /\ held' = held - Estimate

(* The process dies inside the commit block: billed, not finished.         *)
DieInCommit ==
  /\ pc \in {"settling", "committing"}
  /\ \E cost \in LeaseOf(outcome) : Settle(cost)
  /\ Forget
  /\ UNCHANGED <<directory, timed, finished, bills>>

-----------------------------------------------------------------------------
(* The baseline action.                                                    *)

SkipBaseline ==
  /\ pc = "baseline"
  /\ timed
  /\ pc' = "profiling"
  /\ UNCHANGED <<diskVars, countVars, mindVars>>

RefuseBaseline ==
  /\ pc = "baseline"
  /\ ~timed
  /\ ~Affordable(BaselineEstimate)
  /\ directory' = "journaled"
  /\ state' = "budget_exhausted"
  /\ pc' = "reporting"
  /\ UNCHANGED <<ledgerVars, recordVars, report, countVars, loopVars, planVars, outcome>>

ReserveBaseline ==
  /\ pc = "baseline"
  /\ ~timed
  /\ Affordable(BaselineEstimate)
  /\ directory' = "journaled"
  /\ held' = held + BaselineEstimate
  /\ pc' = "measuring"
  /\ UNCHANGED <<timed, finished, settled, bills, recordVars, report, countVars, mindVars>>

(* A measured baseline is recorded; an invalid one leaves no record, and   *)
(* its action returns all the same.                                        *)
MeasureBaseline ==
  /\ pc = "measuring"
  /\ baseline' \in {"measured", baseline}
  /\ pc' = "settling"
  /\ UNCHANGED <<directory, ledgerVars, record, champion, report, countVars, mindVars>>

CommitBaseline ==
  /\ pc = "settling"
  /\ \E cost \in Lease : Settle(cost)
  /\ timed' = TRUE
  /\ pc' = "profiling"
  /\ UNCHANGED <<directory, finished, bills, recordVars, report, countVars, mindVars>>

-----------------------------------------------------------------------------
(* _run_baseline_profile, in the loop or from the command line.            *)

InLoop == allowance # NoAllowance
AfterProfile == IF InLoop THEN "candidate" ELSE "returned"
Profiles == pc = "profiling" /\ allowance.profile
Exhausted == InLoop /\ settled + held >= allowance.seconds

NoProfiler ==
  /\ pc = "profiling"
  /\ ~allowance.profile
  /\ pc' = AfterProfile
  /\ UNCHANGED <<diskVars, countVars, mindVars>>

(* No baseline to profile: an event says so, the first of its journal if   *)
(* the run died before it wrote any.                                       *)
ProfileUnmeasured ==
  /\ Profiles
  /\ baseline = "none"
  /\ directory' = "journaled"
  /\ pc' = AfterProfile
  /\ UNCHANGED <<ledgerVars, recordVars, report, countVars, mindVars>>

ProfileReused ==
  /\ Profiles
  /\ \/ baseline = "collected"
     \/ baseline \in {"measured", "not_run"} /\ Exhausted
  /\ pc' = AfterProfile
  /\ UNCHANGED <<diskVars, countVars, mindVars>>

ToProfile == Profiles /\ baseline \in {"measured", "not_run"} /\ ~Exhausted

ProfileFailed ==
  /\ ToProfile
  /\ baseline' = "not_run"
  /\ pc' = AfterProfile
  /\ UNCHANGED <<directory, ledgerVars, record, champion, report, countVars, mindVars>>

(* Evidence collected: first its wall time is billed, then the record      *)
(* names it.                                                               *)
BillProfile ==
  /\ ToProfile
  /\ \E wall \in ProfileWall : settled' = settled + wall
  /\ bills' = bills + 1
  /\ pc' = "profiled"
  /\ UNCHANGED <<directory, timed, finished, held, recordVars, report, countVars, mindVars>>

RecordProfile ==
  /\ pc = "profiled"
  /\ baseline' = "collected"
  /\ pc' = AfterProfile
  /\ UNCHANGED <<directory, ledgerVars, record, champion, report, countVars, mindVars>>

-----------------------------------------------------------------------------
(* One candidate action.                                                   *)

(* Mutant: only candidates executed by this process are judged.            *)
SkipWithoutJudging ==
  /\ pc = "candidate"
  /\ index \in finished
  /\ IF index + 1 < allowance.candidates
     THEN index' = index + 1 /\ UNCHANGED <<pc, state>>
     ELSE pc' = "reporting" /\ state' = "no_improvement" /\ UNCHANGED index
  /\ UNCHANGED <<diskVars, countVars, allowance, repairs, planVars, outcome>>

SkipCandidate ==
  /\ pc = "candidate"
  /\ index \in finished
  /\ pc' = "judging"
  /\ UNCHANGED <<diskVars, countVars, mindVars>>

RefuseCandidate ==
  /\ pc = "candidate"
  /\ index \notin finished
  /\ ~Affordable(CandidateEstimate)
  /\ state' = "budget_exhausted"
  /\ pc' = "reporting"
  /\ UNCHANGED <<diskVars, countVars, loopVars, planVars, outcome>>

(* Mutant: a finished candidate may be attempted again.                    *)
ReserveAgain ==
  /\ pc = "candidate"
  /\ Affordable(CandidateEstimate)
  /\ held' = held + CandidateEstimate
  /\ pc' = "generating"
  /\ UNCHANGED <<directory, timed, finished, settled, bills, recordVars, report,
                 countVars, mindVars>>

ReserveCandidate ==
  /\ pc = "candidate"
  /\ index \notin finished
  /\ Affordable(CandidateEstimate)
  /\ held' = held + CandidateEstimate
  /\ pc' = "generating"
  /\ UNCHANGED <<directory, timed, finished, settled, bills, recordVars, report,
                 countVars, mindVars>>

(* A stage of the attempt either passes the source on or ends the attempt. *)
PassTo(stage) ==
  /\ pc' = stage
  /\ UNCHANGED <<diskVars, starts, mindVars>>

(* Mutant: an attempt without a verdict leaves no record.                  *)
EndWithoutRecord(o) ==
  /\ outcome' = o
  /\ pc' = IF o = "eval_infra" THEN "committing" ELSE "persisting"
  /\ UNCHANGED <<diskVars, starts, loopVars, planVars, state>>

EndWith(o) ==
  /\ outcome' = o
  /\ pc' = "persisting"
  /\ UNCHANGED <<diskVars, starts, loopVars, planVars, state>>

Generate ==
  /\ pc = "generating"
  /\ sources' = sources + 1
  /\ PassTo("screening") \/ EndWith("generation")

Screen ==
  /\ pc = "screening"
  /\ PassTo("evaluating") \/ EndWith("policy")
  /\ UNCHANGED sources

Evaluate ==
  /\ pc = "evaluating"
  /\ PassTo(IF CorrectnessPro THEN "proving" ELSE "timing") \/ EndWith("evaluate") \/ EndWith("eval_infra")
  /\ UNCHANGED sources

Prove ==
  /\ pc = "proving"
  /\ PassTo("timing") \/ EndWith("correctness_pro")
  /\ UNCHANGED sources

Time ==
  /\ pc = "timing"
  /\ PassTo("confirming") \/ EndWith("timing") \/ EndWith("async_leak")
  /\ UNCHANGED sources

(* confirm_promotion: without the incumbent's batches nothing is promoted. *)
Confirm ==
  /\ pc = "confirming"
  /\ (baseline # "none" /\ PassTo("crowning")) \/ EndWith("retained")
  /\ UNCHANGED sources

(* Mutant: champion.json is written once and kept.                         *)
CrownOnce ==
  /\ pc = "crowning"
  /\ champion' = IF champion = NoChampion THEN [index |-> index, sha |-> sources] ELSE champion
  /\ outcome' = "promoted"
  /\ pc' = "persisting"
  /\ UNCHANGED <<directory, ledgerVars, baseline, record, report, countVars, loopVars,
                 planVars, state>>

Crown ==
  /\ pc = "crowning"
  /\ champion' = [index |-> index, sha |-> sources]
  /\ outcome' = "promoted"
  /\ pc' = "persisting"
  /\ UNCHANGED <<directory, ledgerVars, baseline, record, report, countVars, loopVars,
                 planVars, state>>

(* The outcome is recorded, and remembered for the next request.           *)
Persist ==
  /\ pc = "persisting"
  /\ record' = [record EXCEPT ![index] = [sha |-> sources, outcome |-> outcome]]
  /\ history' = IF outcome = "eval_infra" THEN history
                ELSE Append(history, [index |-> index, sha |-> sources, outcome |-> outcome])
  /\ feedback' = CASE outcome = "eval_infra" -> feedback
                   [] outcome = "promoted" -> NoFeedback
                   [] OTHER -> [sha |-> sources, text |-> Said(outcome)]
  /\ pc' = "committing"
  /\ UNCHANGED <<directory, ledgerVars, baseline, champion, report, countVars, loopVars,
                 outcome, state>>

Commit ==
  /\ pc = "committing"
  /\ \E cost \in LeaseOf(outcome) : Settle(cost)
  /\ finished' = finished \cup {index}
  /\ pc' = "judging"
  /\ UNCHANGED <<directory, timed, bills, recordVars, report, countVars, mindVars>>

-----------------------------------------------------------------------------
(* The loop's decision about the candidate whose action returned.          *)

Verdict == record[index].outcome

Refused == IF Verdict \in Failed \cup Rejected THEN repairs + 1 ELSE repairs
LastCandidate == index + 1 >= allowance.candidates

Conclude(s) ==
  /\ state' = s
  /\ pc' = "reporting"
  /\ UNCHANGED index

JudgeInfra ==
  /\ record[index] = NoRecord \/ Verdict = "eval_infra"
  /\ Conclude("infra_error")
  /\ UNCHANGED repairs

JudgePromoted ==
  /\ Verdict = "promoted"
  /\ Conclude("completed")
  /\ UNCHANGED repairs

(* Mutant: a retained candidate is looked at again.                        *)
JudgeInPlace ==
  /\ Verdict \in Failed \cup Rejected \cup {"retained"}
  /\ repairs' = Refused
  /\ IF repairs' > allowance.repairs THEN Conclude("no_improvement")
     ELSE /\ pc' = "candidate"
          /\ UNCHANGED <<index, state>>

JudgeOther ==
  /\ Verdict \in Failed \cup Rejected \cup {"retained"}
  /\ repairs' = Refused
  /\ IF repairs' > allowance.repairs \/ LastCandidate THEN Conclude("no_improvement")
     ELSE /\ index' = index + 1
          /\ pc' = "candidate"
          /\ UNCHANGED state

Judge ==
  /\ pc = "judging"
  /\ JudgeInfra \/ JudgePromoted \/ JudgeOther
  /\ UNCHANGED <<diskVars, countVars, allowance, planVars, outcome>>

Report ==
  /\ pc = "reporting"
  /\ report' = [state |-> state,
                champion |-> IF state = "completed" THEN [index |-> index, sha |-> record[index].sha]
                             ELSE NoChampion,
                candidates |-> allowance.candidates, repairs |-> allowance.repairs]
  /\ pc' = "returned"
  /\ UNCHANGED <<directory, ledgerVars, recordVars, countVars, mindVars>>

-----------------------------------------------------------------------------
Init ==
  /\ directory = "empty"
  /\ timed = FALSE /\ finished = {}
  /\ settled = 0 /\ held = 0 /\ bills = 0
  /\ baseline = "none"
  /\ record = [i \in Index |-> NoRecord]
  /\ champion = NoChampion
  /\ report = NoReport
  /\ starts = 0 /\ sources = 0
  /\ pc = "down"
  /\ allowance = NoAllowance /\ index = 0 /\ repairs = 0
  /\ history = << >> /\ feedback = NoFeedback
  /\ outcome = "none" /\ state = "completed"

BaselineStep == SkipBaseline \/ RefuseBaseline \/ ReserveBaseline \/ MeasureBaseline \/ CommitBaseline
ProfileStep == NoProfiler \/ ProfileUnmeasured \/ ProfileReused \/ ProfileFailed
               \/ BillProfile \/ RecordProfile
CandidateStep == SkipCandidate \/ RefuseCandidate \/ ReserveCandidate \/ Generate \/ Screen
                 \/ Evaluate \/ Prove \/ Time \/ Confirm \/ Crown \/ Persist \/ Commit
LoopStep == BaselineStep \/ ProfileStep \/ CandidateStep \/ Judge \/ Report

Next == StartFresh \/ Resume \/ StartProfile \/ LoopStep \/ Die \/ DieInCommit

Spec == Init /\ [][Next]_vars

(* A live process keeps going: model calls and GPU stages have timeouts.   *)
FairSpec == Spec /\ WF_vars(LoopStep)

-----------------------------------------------------------------------------
TypeOK ==
  /\ directory \in {"empty", "claimed", "journaled"}
  /\ timed \in BOOLEAN
  /\ finished \subseteq Index
  /\ settled \in Nat /\ held \in Nat /\ bills \in Nat
  /\ baseline \in {"none", "measured", "collected", "not_run"}
  /\ record \in [Index -> [sha : Nat, outcome : Outcome \cup {"none"}]]
  /\ champion \in [index : Index \cup {-1}, sha : Nat]
  /\ report.state \in Terminal \cup {"none"}
  /\ starts \in 0 .. MaxStarts /\ sources \in Nat
  /\ pc \in Phase
  /\ allowance \in Allowance \cup {NoAllowance}
  /\ index \in Index /\ repairs \in Nat
  /\ outcome \in Outcome \cup {"none"} /\ state \in Terminal

(* "Records are persisted before the action returns": no finished          *)
(* candidate lacks its record, so infra_error means an evaluator without   *)
(* a verdict and nothing else.                                             *)
FinishedIsRecorded == \A i \in finished : record[i] # NoRecord

(* The record of a finished candidate is never written again, by resumed   *)
(* runs with other allowances either.                                      *)
RecordsStand == [][ \A i \in finished : record'[i] = record[i] ]_vars

(* A candidate is attempted only when every earlier one is finished and    *)
(* none of them was promoted or ended in an infrastructure error, whatever *)
(* crashes and resumes came in between.                                    *)
AttemptsInOrder ==
  pc \in Attempting =>
    \A j \in 0 .. index - 1 :
      j \in finished /\ record[j].outcome \notin {"promoted", "eval_infra"}

(* "tolerates at most max_repair_rounds failed/rejected candidates": the   *)
(* count is of the whole run, not of this process.                         *)
RepairBound ==
  pc \in Attempting =>
    Cardinality({j \in 0 .. index - 1 : record[j].outcome \in Failed \cup Rejected})
      <= allowance.repairs

(* A completed report names a finished, promoted candidate, and            *)
(* champion.json holds that very source, even if an attempt of the         *)
(* candidate crashed after it had been promoted.                           *)
ChampionIsReported ==
  report.state = "completed" =>
    LET c == report.champion
    IN  /\ c.index \in finished
        /\ record[c.index] = [sha |-> c.sha, outcome |-> "promoted"]
        /\ champion = c

(* Nothing is promoted in a run whose baseline was never measured.         *)
PromotedOverBaseline ==
  \A i \in Index : record[i].outcome = "promoted" => timed /\ baseline # "none"

(* "never free or hidden": evidence that a record names has been billed.   *)
ProfileNeverFree == baseline = "collected" => bills > 0

(* The records tell the history of the run to whoever resumes it: of every *)
(* finished candidate, of the order in which they were tried, and of the   *)
(* profile that was paid for.                                              *)
RecordsTell == FinishedIsRecorded /\ AttemptsInOrder /\ ProfileNeverFree

(* The champion of a report earned it, in this process or an earlier one.  *)
ChampionIsEarned == ChampionIsReported /\ PromotedOverBaseline

(* A candidate's request misses nothing: what the planner sees of each     *)
(* earlier candidate ends with its recorded outcome, and the feedback      *)
(* answers the failure of the last one.                                    *)
RequestKnowsRecords ==
  pc = "generating" /\ record[index] = NoRecord =>
    /\ \A j \in 0 .. index - 1 : \E n \in DOMAIN history :
         /\ history[n] = Attempt(j)
         /\ \A m \in DOMAIN history : m > n => history[m].index > j
    /\ feedback.sha = IF index = 0 THEN 0 ELSE record[index - 1].sha

(* The deadline of a running GPU stage is its whole timeout: what crashed  *)
(* attempts hold and earlier overruns cost was subtracted when the attempt *)
(* was reserved, not when it runs.                                         *)
StageFunded ==
  /\ pc \in GpuStage => Deadline(CandidateEstimate, Floor[pc]) = Floor[pc]
  /\ pc = "measuring" => Deadline(BaselineEstimate, Floor["timing"]) = Floor["timing"]

(* The limits of the run hold across its processes.                        *)
LimitsHold == RepairBound /\ StageFunded

(* A resumed run with the allowance of the last report comes to the same   *)
(* verdict about the same champion (unless the budget had stopped it).     *)
VerdictRepeats ==
  [][ (/\ report.state \notin {"none", "budget_exhausted"}
       /\ report'.candidates = report.candidates
       /\ report'.repairs = report.repairs) => report' = report ]_vars

(* Every process that enters the loop reports, unless it dies.             *)
RunReports == pc = "baseline" ~> pc \in {"returned", "down"}

-----------------------------------------------------------------------------
(* Three promises of the comments that a crash or a resume breaks (README, *)
(* "Promises the code does not keep").                                     *)

(* "structured attempt history is rebuilt from persisted candidate records *)
(* so a resumed run plans on the same evidence path as an uninterrupted    *)
(* one": the planner sees one attempt per earlier candidate, the recorded. *)
HistoryParity ==
  pc = "generating" /\ record[index] = NoRecord =>
    history = [n \in 1 .. index |-> Attempt(n - 1)]

(* "keeping the resumed request content on the same path as an             *)
(* uninterrupted run": the sentence a candidate's first request quotes is  *)
(* the one an uninterrupted run would have quoted.                         *)
FeedbackParity ==
  pc = "generating" /\ record[index] = NoRecord /\ index > 0 =>
    feedback.text = Said(record[index - 1].outcome)

(* "reused verbatim on resume (idempotent, no re-run, no duplicate         *)
(* billing)".                                                              *)
ProfileBilledOnce == bills <= 1

=============================================================================
