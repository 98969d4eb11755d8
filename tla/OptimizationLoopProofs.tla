----------------------- MODULE OptimizationLoopProofs -----------------------
(***************************************************************************)
(* What the files of a run tell, and what its limits allow, for any number *)
(* of candidates, processes, crashes and revised allowances.               *)
(***************************************************************************)
EXTENDS OptimizationLoop, FiniteSetTheorems, TLAPS

Judging == Attempting \cup {"candidate", "judging"}
Fresh == {"down", "baseline", "measuring", "settling", "profiling", "profiled"}

ReportType ==
  [state : Terminal \cup {"none"}, champion : [index : Index \cup {-1}, sha : Nat],
   candidates : Nat, repairs : Nat]

Types == TypeOK /\ report \in ReportType

(* The candidates below n that were a repair, and the way to candidate i   *)
(* under R repairs: everything before is finished and let the loop go on.  *)
Bad(n) == {j \in 0 .. n - 1 : record[j].outcome \in Failed \cup Rejected}

Passed(i, R) ==
  \A j \in 0 .. i - 1 :
    /\ j \in finished
    /\ record[j].outcome \notin {"promoted", "eval_infra"}
    /\ Cardinality(Bad(j + 1)) <= R

(* The verdict s of a run of K candidates and R repairs, given at k.       *)
Decided(s, k, K, R) ==
  /\ k \in finished /\ k < K /\ Passed(k, R)
  /\ s \in {"completed", "infra_error", "no_improvement"}
  /\ s = "completed" => record[k].outcome = "promoted"
  /\ s = "infra_error" => record[k].outcome = "eval_infra"
  /\ s = "no_improvement" =>
       /\ record[k].outcome \notin {"promoted", "eval_infra"}
       /\ Cardinality(Bad(k + 1)) > R \/ k + 1 >= K

OnCourse ==
  /\ index < allowance.candidates
  /\ Passed(index, allowance.repairs)
  /\ repairs = Cardinality(Bad(index))

(* What the place of a process says of its memory,                         *)
Course ==
  /\ pc \in Fresh => index = 0 /\ repairs = 0
  /\ pc \in {"baseline", "measuring", "settling", "reporting"} \cup Judging => InLoop
  /\ pc \in {"profiling", "profiled"} /\ InLoop => timed
  /\ pc \in Judging => timed /\ OnCourse
  /\ pc = "judging" => index \in finished
  /\ pc \in Attempting => index \notin finished

(* of the attempt in its hands,                                            *)
InHand ==
  /\ pc = "profiled" => bills > 0
  /\ pc = "crowning" => baseline # "none"
  /\ pc = "proving" => CorrectnessPro
  /\ pc \in {"persisting", "committing"} =>
       /\ outcome \in Outcome
       /\ outcome = "promoted" =>
            baseline # "none" /\ champion = [index |-> index, sha |-> sources]
  /\ pc = "committing" => record[index] = [sha |-> sources, outcome |-> outcome]

(* and of the seconds that it may spend.                                   *)
Funded ==
  /\ pc \in Attempting => held >= CandidateEstimate /\ settled + held <= allowance.seconds
  /\ pc \in {"measuring", "settling"} =>
       held >= BaselineEstimate /\ settled + held <= allowance.seconds

(* What the files tell, whoever wrote them.                                *)
Files ==
  /\ FinishedIsRecorded /\ PromotedOverBaseline /\ ProfileNeverFree
  /\ finished # {} => timed
  /\ \A i \in finished : \A j \in 0 .. i - 1 : j \in finished
  /\ \A i \in finished :
       record[i].outcome = "promoted" => champion = [index |-> i, sha |-> record[i].sha]

(* A process that stops has a verdict, or ran out of budget before one.    *)
Reporting ==
  pc = "reporting" =>
    \/ /\ state = "budget_exhausted"
       /\ ~timed \/ (index \notin finished /\ index < allowance.candidates
                     /\ Passed(index, allowance.repairs))
    \/ Decided(state, index, allowance.candidates, allowance.repairs)

ChampionAt(s, k) ==
  IF s = "completed" THEN [index |-> k, sha |-> record[k].sha] ELSE NoChampion

Reported ==
  report.state \notin {"none", "budget_exhausted"} =>
    \E k \in Index :
      /\ Decided(report.state, k, report.candidates, report.repairs)
      /\ report.champion = ChampionAt(report.state, k)

LoopInv == Types /\ Course /\ InHand /\ Funded /\ Files /\ Reporting /\ Reported

(***************************************************************************)
(* What a step does to finished candidates: nothing.                       *)
(***************************************************************************)
Standing == finished \subseteq finished' /\ \A i \in finished : record'[i] = record[i]

(* Only Persist writes a record, and only Commit finishes a candidate.     *)
LEMMA Stands ==
  ASSUME Types, Course, [Next]_vars
  PROVE  Standing
<1>1. CASE Persist
  BY <1>1 DEF Persist, Standing, ledgerVars, Types, TypeOK, Course, Attempting
<1>2. CASE Commit
  BY <1>2 DEF Commit, Standing, recordVars
<1>3. CASE UNCHANGED <<finished, record>>
  BY <1>3 DEF Standing
<1>4. CASE StartFresh \/ Resume \/ StartProfile
  BY <1>3, <1>4 DEF StartFresh, Resume, StartProfile, Boot, ledgerVars, recordVars
<1>5. CASE Die \/ DieInCommit
  BY <1>3, <1>5 DEF Die, DieInCommit, Forget, ledgerVars, recordVars
<1>6. CASE BaselineStep
  BY <1>3, <1>6 DEF BaselineStep, SkipBaseline, RefuseBaseline, ReserveBaseline,
     MeasureBaseline, CommitBaseline, diskVars, ledgerVars, recordVars
<1>7. CASE ProfileStep
  BY <1>3, <1>7 DEF ProfileStep, NoProfiler, ProfileUnmeasured, ProfileReused, ProfileFailed,
     BillProfile, RecordProfile, diskVars, ledgerVars, recordVars
<1>8. CASE SkipCandidate \/ RefuseCandidate \/ ReserveCandidate \/ Crown
  BY <1>3, <1>8 DEF SkipCandidate, RefuseCandidate, ReserveCandidate, Crown,
     diskVars, ledgerVars, recordVars
<1>9. CASE Generate \/ Screen \/ Evaluate \/ Prove \/ Time \/ Confirm
  BY <1>3, <1>9 DEF Generate, Screen, Evaluate, Prove, Time, Confirm, PassTo, EndWith,
     diskVars, ledgerVars, recordVars
<1>10. CASE Judge \/ Report
  BY <1>3, <1>10 DEF Judge, Report, diskVars, ledgerVars, recordVars
<1>11. CASE UNCHANGED vars
  BY <1>3, <1>11 DEF vars, diskVars, ledgerVars, recordVars
<1>12. QED
  BY <1>1, <1>2, <1>4, <1>5, <1>6, <1>7, <1>8, <1>9, <1>10, <1>11
     DEF Next, LoopStep, CandidateStep

(* So what was counted below a candidate stays counted,                    *)
LEMMA BadStands ==
  ASSUME Standing, NEW n \in Nat, \A j \in 0 .. n - 1 : j \in finished
  PROVE  Bad(n)' = Bad(n)
BY DEF Standing, Bad

(* as does the way to it,                                                  *)
LEMMA PassedStands ==
  ASSUME Standing, NEW i \in Nat, NEW R, Passed(i, R)
  PROVE  Passed(i, R)'
<1> SUFFICES ASSUME NEW j \in 0 .. i - 1
             PROVE  /\ j \in finished'
                    /\ record'[j].outcome \notin {"promoted", "eval_infra"}
                    /\ Cardinality(Bad(j + 1)') <= R
  BY DEF Passed
<1>1. \A m \in 0 .. (j + 1) - 1 : m \in finished
  BY DEF Passed
<1>2. Bad(j + 1)' = Bad(j + 1)
  BY <1>1, BadStands
<1>3. QED
  BY <1>2 DEF Passed, Standing

(* and a verdict once given stays right.                                   *)
LEMMA DecidedStands ==
  ASSUME Standing, Files, NEW s, NEW k \in Nat, NEW K, NEW R, Decided(s, k, K, R)
  PROVE  Decided(s, k, K, R)' /\ record'[k] = record[k]
<1>1. k \in finished /\ \A m \in 0 .. (k + 1) - 1 : m \in finished
  BY DEF Decided, Files
<1>2. Bad(k + 1)' = Bad(k + 1)
  BY <1>1, BadStands
<1>3. Passed(k, R)'
  BY PassedStands DEF Decided
<1>4. QED
  BY <1>1, <1>2, <1>3 DEF Decided, Standing

(* One candidate more.                                                     *)
LEMMA BadNext ==
  ASSUME Types, NEW n \in Nat
  PROVE  /\ IsFiniteSet(Bad(n)) /\ Cardinality(Bad(n)) \in Nat
         /\ Cardinality(Bad(n + 1)) =
              IF record[n].outcome \in Failed \cup Rejected
              THEN Cardinality(Bad(n)) + 1 ELSE Cardinality(Bad(n))
         /\ Cardinality(Bad(0)) = 0
<1>1. Bad(n) \subseteq 0 .. n - 1
  BY DEF Bad
<1>2. IsFiniteSet(0 .. n - 1)
  BY FS_Interval
<1>3. IsFiniteSet(Bad(n)) /\ Cardinality(Bad(n)) \in Nat
  BY <1>1, <1>2, FS_Subset, FS_CardinalityType
<1>4. record[n].outcome \in Failed \cup Rejected => Cardinality(Bad(n + 1)) = Cardinality(Bad(n)) + 1
  <2> SUFFICES ASSUME record[n].outcome \in Failed \cup Rejected
               PROVE  Cardinality(Bad(n + 1)) = Cardinality(Bad(n)) + 1
    OBVIOUS
  <2>1. Bad(n + 1) = Bad(n) \cup {n} /\ n \notin Bad(n)
    BY DEF Bad
  <2>2. Cardinality(Bad(n) \cup {n}) = Cardinality(Bad(n)) + 1
    BY <1>3, <2>1, FS_AddElement
  <2>3. QED
    BY <2>1, <2>2
<1>5. record[n].outcome \notin Failed \cup Rejected => Bad(n + 1) = Bad(n)
  BY DEF Bad
<1>6. Bad(0) = {}
  BY DEF Bad
<1>7. QED
  BY <1>3, <1>4, <1>5, <1>6, FS_EmptySet

(* The way on from a candidate that let the loop go on.                    *)
LEMMA PassedNext ==
  ASSUME NEW i \in Nat, NEW R, Passed(i, R), i \in finished,
         record[i].outcome \notin {"promoted", "eval_infra"}, Cardinality(Bad(i + 1)) <= R
  PROVE  Passed(i + 1, R)
<1> SUFFICES ASSUME NEW j \in 0 .. (i + 1) - 1
             PROVE  /\ j \in finished
                    /\ record[j].outcome \notin {"promoted", "eval_infra"}
                    /\ Cardinality(Bad(j + 1)) <= R
  BY DEF Passed
<1>1. CASE j = i
  BY <1>1
<1>2. CASE j \in 0 .. i - 1
  BY <1>2 DEF Passed
<1>3. QED
  BY <1>1, <1>2

(* The loop stays on its way while only other things change.               *)
LEMMA CourseKept ==
  ASSUME Types, OnCourse, Standing, UNCHANGED loopVars
  PROVE  OnCourse'
<1>1. PICK i, R : i = index /\ R = allowance.repairs
  OBVIOUS
<1>2. i \in Nat /\ Passed(i, R)'
  BY <1>1, PassedStands DEF Types, TypeOK, Index, OnCourse
<1>3. index' = i /\ allowance' = allowance /\ repairs' = repairs
  BY <1>1 DEF loopVars
<1>4. \A j \in 0 .. i - 1 : j \in finished
  BY <1>1 DEF OnCourse, Passed
<1>5. Bad(i)' = Bad(i)
  BY <1>2, <1>4, BadStands
<1>6. Bad(index)' = Bad(index)
  BY <1>1, <1>3, <1>5
<1>7. Passed(index, allowance.repairs)'
  BY <1>1, <1>2, <1>3
<1>8. index' < allowance'.candidates /\ repairs' = Cardinality(Bad(index))'
  BY <1>3, <1>6 DEF OnCourse, loopVars
<1>9. QED
  BY <1>7, <1>8 DEF OnCourse

(***************************************************************************)
(* What a process knows, step by step.                                     *)
(***************************************************************************)
Mind == Types /\ Course /\ InHand /\ Funded

(* The seconds of a stage, and of the attempt that it is part of.          *)
LEMMA Estimates ==
  /\ BaselineEstimate \in Nat /\ CandidateEstimate \in Nat
  /\ Floor["timing"] = BaselineEstimate
  /\ \A stage \in GpuStage : Floor[stage] \in Nat
  /\ \A stage \in GpuStage :
       (stage = "proving" => CorrectnessPro) => Floor[stage] <= CandidateEstimate
<1>1. /\ Floor["evaluating"] \in Nat /\ Floor["proving"] \in Nat /\ Floor["timing"] \in Nat
  BY SecondsAssumption DEF GpuStage
<1>2. QED
  BY <1>1, SwitchAssumption DEF BaselineEstimate, CandidateEstimate, GpuStage

(* What a process may be configured with.                                  *)
LEMMA Allowances ==
  ASSUME NEW a \in Allowance \cup {NoAllowance}
  PROVE  /\ a.candidates \in 0 .. Top /\ a.repairs \in Nat /\ a.seconds \in Nat
         /\ a.profile \in BOOLEAN
         /\ a # NoAllowance => a.candidates > 0
<1>1. CASE a = NoAllowance
  BY <1>1, TopAssumption DEF NoAllowance
<1>2. CASE a \in Allowance
  BY <1>2, AllowanceAssumption, TopAssumption
<1>3. QED
  BY <1>1, <1>2

(* A process starts.                                                       *)
LEMMA StartsMind ==
  ASSUME Mind, StartFresh \/ Resume \/ StartProfile
  PROVE  Mind'
<1>1. PICK a \in Allowance \cup {NoAllowance} : Boot(a)
  BY DEF StartFresh, Resume, StartProfile
<1>2. /\ pc = "down" /\ pc' \in {"baseline", "profiling"} /\ allowance' = a
      /\ pc' = "baseline" => a \in Allowance
      /\ pc' = "profiling" => a = NoAllowance
      /\ directory' \in {"empty", "claimed", "journaled"}
      /\ starts' = starts + 1 /\ starts < MaxStarts
      /\ UNCHANGED <<ledgerVars, recordVars, report, sources, index, repairs, outcome, state>>
  BY <1>1 DEF StartFresh, Resume, StartProfile, Boot, Mind, Types, TypeOK
<1>3. NoAllowance \notin Allowance
  BY AllowanceAssumption DEF NoAllowance
<1>4. Types'
  BY <1>2, TopAssumption DEF Mind, Types, TypeOK, ledgerVars, recordVars, Phase
<1>5. Course'
  BY <1>2, <1>3 DEF Mind, Course, InLoop, Fresh, Judging, Attempting, GpuStage
<1>6. InHand' /\ Funded'
  BY <1>2 DEF InHand, Funded, Attempting, GpuStage
<1>7. QED
  BY <1>4, <1>5, <1>6 DEF Mind

(* A process dies, between two steps or within a commit.                   *)
LEMMA DiesMind ==
  ASSUME Mind, Die \/ DieInCommit
  PROVE  Mind'
<1>1. /\ Forget /\ directory' = directory
      /\ timed' = timed /\ finished' = finished /\ bills' = bills
  BY DEF Die, DieInCommit, ledgerVars
<1>2. settled' \in Nat /\ held' \in Nat
  <2>1. CASE Die
    BY <2>1 DEF Die, ledgerVars, Mind, Types, TypeOK
  <2>2. CASE DieInCommit
    <3>1. PICK cost \in LeaseOf(outcome) : Settle(cost)
      BY <2>2 DEF DieInCommit
    <3>2. cost \in Nat /\ held >= Estimate /\ Estimate \in Nat
      BY <2>2, <3>1, SecondsAssumption, Estimates
         DEF DieInCommit, LeaseOf, Estimate, Mind, Funded, Attempting
    <3>3. QED
      BY <3>1, <3>2 DEF Settle, Mind, Types, TypeOK
  <2>3. QED
    BY <2>1, <2>2
<1>3. Types'
  BY <1>1, <1>2, TopAssumption
     DEF Forget, Mind, Types, TypeOK, recordVars, Phase, Index, Terminal
<1>4. Course'
  BY <1>1 DEF Forget, Course, Fresh, Judging, Attempting, GpuStage
<1>5. InHand' /\ Funded'
  BY <1>1 DEF Forget, InHand, Funded, Attempting, GpuStage
<1>6. QED
  BY <1>3, <1>4, <1>5 DEF Mind

(* The baseline action.                                                    *)
LEMMA BaselineMind ==
  ASSUME Mind, BaselineStep
  PROVE  Mind'
<1>1. CASE SkipBaseline
  BY <1>1 DEF SkipBaseline, Mind, Types, TypeOK, Course, InHand, Funded, Fresh, Judging,
     Attempting, GpuStage, Phase, InLoop, diskVars, ledgerVars, recordVars, countVars,
     mindVars, loopVars, planVars
<1>2. CASE RefuseBaseline
  BY <1>2 DEF RefuseBaseline, Mind, Types, TypeOK, Course, InHand, Funded, Fresh, Judging,
     Attempting, GpuStage, Phase, InLoop, Terminal, ledgerVars, recordVars, countVars,
     loopVars, planVars
<1>3. CASE ReserveBaseline
  <2>1. held' = held + BaselineEstimate /\ settled + held' <= allowance.seconds
    BY <1>3, Estimates DEF ReserveBaseline, Affordable, Mind, Types, TypeOK
  <2>2. Types'
    BY <1>3, <2>1, Estimates
       DEF ReserveBaseline, Mind, Types, TypeOK, Phase, recordVars, countVars, mindVars,
           loopVars, planVars
  <2>3. Course' /\ InHand'
    BY <1>3 DEF ReserveBaseline, Mind, Course, InHand, Fresh, Judging, Attempting, GpuStage,
       InLoop, recordVars, countVars, mindVars, loopVars, planVars
  <2>4. Funded'
    BY <1>3, <2>1, Estimates
       DEF ReserveBaseline, Mind, Types, TypeOK, Funded, Attempting, GpuStage, mindVars,
           loopVars
  <2>5. QED
    BY <2>2, <2>3, <2>4 DEF Mind
<1>4. CASE MeasureBaseline
  BY <1>4 DEF MeasureBaseline, Mind, Types, TypeOK, Course, InHand, Funded, Fresh, Judging,
     Attempting, GpuStage, Phase, InLoop, ledgerVars, countVars, mindVars, loopVars, planVars
<1>5. CASE CommitBaseline
  <2>1. PICK cost \in Lease : Settle(cost)
    BY <1>5 DEF CommitBaseline
  <2>2. settled' \in Nat /\ held' \in Nat
    BY <1>5, <2>1, SecondsAssumption, Estimates
       DEF CommitBaseline, Settle, Estimate, Mind, Types, TypeOK, Funded
  <2>3. Types'
    BY <1>5, <2>2 DEF CommitBaseline, Mind, Types, TypeOK, Phase, recordVars, countVars,
       mindVars, loopVars, planVars
  <2>4. Course' /\ InHand' /\ Funded'
    BY <1>5 DEF CommitBaseline, Mind, Course, InHand, Funded, Fresh, Judging, Attempting,
       GpuStage, InLoop, mindVars, loopVars
  <2>5. QED
    BY <2>3, <2>4 DEF Mind
<1>6. QED
  BY <1>1, <1>2, <1>3, <1>4, <1>5 DEF BaselineStep

(* The profile of the baseline, which may lead to the first candidate.     *)
LEMMA ProfilesMind ==
  ASSUME Mind, ProfileStep
  PROVE  Mind'
<1>1. AfterProfile \in {"candidate", "returned"} /\ (AfterProfile = "candidate" <=> InLoop)
  BY DEF AfterProfile
<1>2. allowance \in Allowance \cup {NoAllowance}
  BY DEF Mind, Types, TypeOK
<1>3. InLoop => 0 < allowance.candidates
  BY <1>2, Allowances DEF InLoop
<1>4. InLoop => allowance.repairs >= 0
  BY <1>2, Allowances
<1>5. index = 0 /\ repairs = 0 /\ (InLoop => timed)
  BY DEF ProfileStep, NoProfiler, ProfileUnmeasured, ProfileReused, ProfileFailed, BillProfile,
     RecordProfile, ToProfile, Profiles, Mind, Course, Fresh
<1>6. /\ pc \in {"profiling", "profiled"}
      /\ pc' = AfterProfile \/ (pc' = "profiled" /\ bills' = bills + 1)
      /\ UNCHANGED <<timed, finished, held, record, champion, report, countVars, mindVars>>
      /\ directory' \in {directory, "journaled"}
      /\ baseline' \in {baseline, "not_run", "collected"}
      /\ bills' \in {bills, bills + 1}
      /\ settled' = settled \/ (\E wall \in ProfileWall : settled' = settled + wall)
  BY DEF ProfileStep, NoProfiler, ProfileUnmeasured, ProfileReused, ProfileFailed, BillProfile,
     RecordProfile, ToProfile, Profiles, diskVars, ledgerVars, recordVars
<1>7. Types'
  BY <1>1, <1>6, SecondsAssumption
     DEF Mind, Types, TypeOK, Phase, Attempting, countVars, mindVars, loopVars, planVars
<1>8. InLoop => OnCourse'
  <2>1. Cardinality(Bad(0)') = 0
    BY FS_EmptySet DEF Bad
  <2>2. Bad(index)' = Bad(0)'
    BY <1>5, <1>6 DEF mindVars, loopVars
  <2>3. Passed(index, allowance.repairs)'
    BY <1>5, <1>6 DEF mindVars, loopVars, Passed
  <2>4. QED
    BY <1>3, <1>5, <1>6, <2>1, <2>2, <2>3 DEF OnCourse, mindVars, loopVars
<1>9. Course'
  BY <1>1, <1>5, <1>6, <1>8 DEF Course, Fresh, Judging, Attempting, GpuStage, InLoop, mindVars,
     loopVars
<1>10. InHand' /\ Funded'
  BY <1>1, <1>6 DEF InHand, Funded, Attempting, GpuStage, Mind, Types, TypeOK
<1>11. QED
  BY <1>7, <1>9, <1>10 DEF Mind

(* While the loop is at one candidate, it stays on course.                 *)
LEMMA StaysOnCourse ==
  ASSUME Mind, Standing, pc \in Judging, UNCHANGED loopVars, timed' = timed
  PROVE  timed' /\ OnCourse' /\ InLoop'
<1>1. timed /\ OnCourse /\ InLoop
  BY DEF Mind, Course
<1>2. OnCourse'
  BY <1>1, CourseKept DEF Mind
<1>3. QED
  BY <1>1, <1>2 DEF InLoop, loopVars

(* A candidate is skipped, refused or reserved.                            *)
LEMMA BeginsMind ==
  ASSUME Mind, Standing, SkipCandidate \/ RefuseCandidate \/ ReserveCandidate
  PROVE  Mind'
<1>1. timed' /\ OnCourse' /\ InLoop'
  <2>1. pc \in Judging /\ UNCHANGED loopVars /\ timed' = timed
    BY DEF SkipCandidate, RefuseCandidate, ReserveCandidate, Judging, diskVars, ledgerVars,
       mindVars
  <2>2. QED
    BY <2>1, StaysOnCourse
<1>2. CASE SkipCandidate
  BY <1>1, <1>2 DEF SkipCandidate, Mind, Types, TypeOK, Course, InHand, Funded, Fresh, Judging,
     Attempting, GpuStage, Phase, diskVars, ledgerVars, recordVars, countVars, mindVars,
     loopVars, planVars
<1>3. CASE RefuseCandidate
  BY <1>1, <1>3 DEF RefuseCandidate, Mind, Types, TypeOK, Course, InHand, Funded, Fresh,
     Judging, Attempting, GpuStage, Phase, Terminal, diskVars, ledgerVars, recordVars,
     countVars, loopVars, planVars
<1>4. CASE ReserveCandidate
  <2>1. held' = held + CandidateEstimate /\ settled + held' <= allowance.seconds
    BY <1>4, Estimates DEF ReserveCandidate, Affordable, Mind, Types, TypeOK
  <2>2. Types'
    BY <1>4, <2>1, Estimates
       DEF ReserveCandidate, Mind, Types, TypeOK, Phase, Attempting, recordVars, countVars,
           mindVars, loopVars, planVars
  <2>3. Course' /\ InHand'
    BY <1>1, <1>4 DEF ReserveCandidate, Mind, Course, InHand, Fresh, Judging, Attempting,
       GpuStage, mindVars, loopVars
  <2>4. Funded'
    BY <1>4, <2>1, Estimates
       DEF ReserveCandidate, Mind, Types, TypeOK, Funded, Attempting, GpuStage, mindVars,
           loopVars
  <2>5. QED
    BY <2>2, <2>3, <2>4 DEF Mind
<1>5. QED
  BY <1>2, <1>3, <1>4

(* A stage of the attempt: its way on and its ways out.                    *)
LEMMA AttemptsMind ==
  ASSUME Mind, Standing, Generate \/ Screen \/ Evaluate \/ Prove \/ Time \/ Confirm
  PROVE  Mind'
<1>1. /\ pc \in Attempting \ {"crowning", "persisting", "committing"}
      /\ sources' \in {sources, sources + 1}
      /\ UNCHANGED <<diskVars, starts, loopVars, planVars, state>>
      /\ \/ /\ outcome' = outcome
            /\ pc' \in {"screening", "evaluating", "proving", "timing", "confirming", "crowning"}
            /\ pc' = "crowning" => baseline # "none"
            /\ pc' = "proving" => CorrectnessPro
         \/ outcome' \in Outcome \ {"promoted"} /\ pc' = "persisting"
  BY SwitchAssumption
     DEF Generate, Screen, Evaluate, Prove, Time, Confirm, PassTo, EndWith, Attempting, GpuStage,
         Outcome, Failed, Rejected, mindVars
<1>2. timed' /\ OnCourse' /\ InLoop'
  BY <1>1, StaysOnCourse DEF Judging, diskVars, ledgerVars
<1>3. Types'
  BY <1>1 DEF Mind, Types, TypeOK, Phase, Attempting, GpuStage, diskVars, ledgerVars, recordVars,
     loopVars, planVars
<1>4. Course'
  BY <1>1, <1>2 DEF Mind, Course, Fresh, Judging, Attempting, GpuStage, diskVars, ledgerVars,
     loopVars
<1>5. InHand'
  BY <1>1 DEF InHand, diskVars, recordVars
<1>6. Funded'
  BY <1>1 DEF Mind, Funded, Attempting, GpuStage, diskVars, ledgerVars, loopVars
<1>7. QED
  BY <1>3, <1>4, <1>5, <1>6 DEF Mind

(* The champion and the record are written.                                *)
LEMMA RecordsMind ==
  ASSUME Mind, Standing, Crown \/ Persist
  PROVE  Mind'
<1>1. pc \in Judging /\ UNCHANGED loopVars /\ timed' = timed
  BY DEF Crown, Persist, Judging, Attempting, ledgerVars
<1>2. timed' /\ OnCourse' /\ InLoop'
  BY <1>1, StaysOnCourse
<1>3. CASE Crown
  <2>1. Types'
    BY <1>3 DEF Crown, Mind, Types, TypeOK, Phase, Attempting, Outcome, ledgerVars, countVars,
       loopVars, planVars
  <2>2. Course' /\ Funded'
    BY <1>2, <1>3 DEF Crown, Mind, Course, Funded, Fresh, Judging, Attempting, GpuStage,
       ledgerVars, countVars, loopVars
  <2>3. InHand'
    BY <1>3 DEF Crown, Mind, InHand, Outcome, ledgerVars, countVars, loopVars
  <2>4. QED
    BY <2>1, <2>2, <2>3 DEF Mind
<1>4. CASE Persist
  <2>1. Types'
    BY <1>4 DEF Persist, Mind, Types, TypeOK, InHand, Phase, Attempting, ledgerVars, countVars,
       loopVars
  <2>2. Course' /\ Funded'
    BY <1>2, <1>4 DEF Persist, Mind, Course, Funded, Fresh, Judging, Attempting, GpuStage,
       ledgerVars, countVars, loopVars
  <2>3. InHand'
    BY <1>4 DEF Persist, Mind, Types, TypeOK, InHand, ledgerVars, countVars, loopVars
  <2>4. QED
    BY <2>1, <2>2, <2>3 DEF Mind
<1>5. QED
  BY <1>3, <1>4

(* The attempt is settled and the candidate finished.                      *)
LEMMA CommitsMind ==
  ASSUME Mind, Standing, Commit
  PROVE  Mind'
<1>1. timed' /\ OnCourse' /\ InLoop'
  BY StaysOnCourse DEF Commit, Judging, Attempting, mindVars
<1>2. PICK cost \in LeaseOf(outcome) : Settle(cost)
  BY DEF Commit
<1>3. cost \in Nat /\ held >= CandidateEstimate /\ Estimate = CandidateEstimate
  BY SecondsAssumption DEF Commit, LeaseOf, Estimate, Mind, Funded, Attempting
<1>4. settled' \in Nat /\ held' \in Nat
  BY <1>2, <1>3, Estimates DEF Settle, Mind, Types, TypeOK
<1>5. Types'
  BY <1>4 DEF Commit, Mind, Types, TypeOK, Phase, recordVars, countVars, mindVars, loopVars,
     planVars
<1>6. Course' /\ InHand' /\ Funded'
  BY <1>1 DEF Commit, Course, InHand, Funded, Fresh, Judging, Attempting, GpuStage, mindVars,
     loopVars
<1>7. QED
  BY <1>5, <1>6 DEF Mind

(* The count of repairs after the candidate that is judged.                *)
LEMMA Counted ==
  ASSUME Mind, Judge
  PROVE  /\ index \in Nat /\ Refused \in Nat /\ Cardinality(Bad(index + 1)) = Refused
         /\ allowance.repairs \in Nat /\ allowance.candidates \in 0 .. Top
<1>1. index \in Nat /\ allowance \in Allowance \cup {NoAllowance} /\ repairs \in Nat
  BY DEF Mind, Types, TypeOK, Index
<1>2. repairs = Cardinality(Bad(index))
  BY DEF Judge, Mind, Course, OnCourse, Judging
<1>3. Cardinality(Bad(index + 1)) =
        IF record[index].outcome \in Failed \cup Rejected
        THEN Cardinality(Bad(index)) + 1 ELSE Cardinality(Bad(index))
  BY <1>1, BadNext DEF Mind
<1>4. Refused \in Nat /\ Cardinality(Bad(index + 1)) = Refused
  BY <1>1, <1>2, <1>3 DEF Refused, Verdict
<1>5. allowance.repairs \in Nat /\ allowance.candidates \in 0 .. Top
  BY <1>1, Allowances
<1>6. QED
  BY <1>1, <1>4, <1>5

(* The loop decides, and goes on to the next candidate or stops.           *)
LEMMA JudgesMind ==
  ASSUME Mind, Judge
  PROVE  Mind'
<1>1. /\ pc = "judging" /\ index \in finished /\ timed /\ OnCourse /\ InLoop
      /\ UNCHANGED <<diskVars, countVars, allowance, planVars, outcome>>
  BY DEF Judge, Mind, Course, Judging
<1>2. CASE pc' = "reporting" /\ index' = index /\ repairs' \in {repairs, Refused}
           /\ state' \in {"infra_error", "completed", "no_improvement"}
  <2>1. Types'
    BY <1>1, <1>2, Counted DEF Mind, Types, TypeOK, Phase, Terminal, diskVars, ledgerVars,
       recordVars, countVars, planVars
  <2>2. Course' /\ InHand' /\ Funded'
    BY <1>1, <1>2 DEF Course, InHand, Funded, Fresh, Judging, Attempting, GpuStage, InLoop
  <2>3. QED
    BY <2>1, <2>2 DEF Mind
<1>3. CASE /\ pc' = "candidate" /\ index' = index + 1 /\ repairs' = Refused /\ state' = state
           /\ Verdict \notin {"promoted", "eval_infra"}
           /\ ~(Refused > allowance.repairs) /\ ~LastCandidate
  <2>1. index + 1 < allowance.candidates /\ Cardinality(Bad(index + 1)) <= allowance.repairs
    BY <1>3, Counted DEF LastCandidate
  <2>2. Passed(index + 1, allowance.repairs)
    BY <1>1, <1>3, <2>1, Counted, PassedNext DEF OnCourse, Verdict
  <2>3. Types'
    BY <1>1, <1>3, <2>1, Counted, TopAssumption
       DEF Mind, Types, TypeOK, Phase, Index, diskVars, ledgerVars, recordVars, countVars,
           planVars
  <2>4. finished' = finished /\ record' = record
    BY <1>1 DEF diskVars, ledgerVars, recordVars
  <2>5. /\ Bad(index)' = Bad(index + 1)
        /\ Passed(index, allowance.repairs)'
    BY <1>1, <1>3, <2>2, <2>4 DEF Bad, Passed
  <2>6. OnCourse'
    BY <1>1, <1>3, <2>1, <2>5, Counted DEF OnCourse
  <2>7. Course' /\ InHand' /\ Funded'
    <3>1. index + 1 \notin finished \/ pc' \notin Attempting
      BY <1>3 DEF Attempting, GpuStage
    <3>2. QED
      BY <1>1, <1>3, <2>6, <3>1
         DEF Course, InHand, Funded, Fresh, Judging, Attempting, GpuStage, InLoop, diskVars,
             ledgerVars
  <2>8. QED
    BY <2>3, <2>7 DEF Mind
<1>4. CASE JudgeInfra \/ JudgePromoted
  BY <1>2, <1>4 DEF JudgeInfra, JudgePromoted, Conclude
<1>5. CASE JudgeOther
  BY <1>2, <1>3, <1>5 DEF JudgeOther, Conclude, Failed, Rejected
<1>6. QED
  BY <1>4, <1>5 DEF Judge

(* The report is written.                                                  *)
LEMMA ReportsMind ==
  ASSUME Mind, Report
  PROVE  Mind'
<1>1. pc' = "returned" /\ report' \in ReportType
      /\ UNCHANGED <<directory, ledgerVars, recordVars, countVars, mindVars>>
  <2>1. allowance \in Allowance \cup {NoAllowance} /\ index \in Index /\ record[index].sha \in Nat
        /\ state \in Terminal
    BY DEF Mind, Types, TypeOK
  <2>2. allowance.candidates \in Nat /\ allowance.repairs \in Nat
    BY <2>1, Allowances, TopAssumption
  <2>3. report' \in ReportType
    BY <2>1, <2>2 DEF Report, ReportType, NoChampion
  <2>4. QED
    BY <2>3 DEF Report
<1>2. Types'
  BY <1>1 DEF Mind, Types, TypeOK, ReportType, Phase, ledgerVars, recordVars, countVars,
     mindVars, loopVars, planVars
<1>3. Course' /\ InHand' /\ Funded'
  BY <1>1 DEF Course, InHand, Funded, Fresh, Judging, Attempting, GpuStage
<1>4. QED
  BY <1>2, <1>3 DEF Mind

(* Nothing happens.                                                        *)
LEMMA RestsMind ==
  ASSUME Mind, UNCHANGED vars
  PROVE  Mind'
<1>1. UNCHANGED <<directory, timed, finished, settled, held, bills, baseline, record, champion,
                  report, starts, sources, pc, allowance, index, repairs, outcome, state>>
  BY DEF vars, diskVars, countVars, mindVars, ledgerVars, recordVars, loopVars
<1>2. Types'
  BY <1>1 DEF Mind, Types, TypeOK
<1>3. OnCourse => OnCourse'
  BY <1>1 DEF OnCourse, Passed, Bad
<1>4. Course' /\ InHand' /\ Funded'
  BY <1>1, <1>3 DEF Mind, Course, InHand, Funded, InLoop
<1>5. QED
  BY <1>2, <1>4 DEF Mind

(* Every step.                                                             *)
LEMMA KeepsMind ==
  ASSUME Mind, [Next]_vars
  PROVE  Mind' /\ Standing
<1>1. Standing
  BY Stands DEF Mind
<1>2. Mind'
  BY <1>1, StartsMind, DiesMind, BaselineMind, ProfilesMind, BeginsMind, AttemptsMind,
     RecordsMind, CommitsMind, JudgesMind, ReportsMind, RestsMind
     DEF Next, LoopStep, CandidateStep
<1>3. QED
  BY <1>1, <1>2

(***************************************************************************)
(* What the files tell.                                                    *)
(***************************************************************************)

(* In an attempt, everything finished is before it and let the loop go on: *)
(* no finished candidate was promoted.                                     *)
LEMMA NonePromoted ==
  ASSUME Mind, Files, pc \in Attempting, NEW i \in finished
  PROVE  i < index /\ record[i].outcome # "promoted"
<1>1. index \in Nat /\ i \in Nat
  BY DEF Mind, Types, TypeOK, Index
<1>2. index \notin finished /\ Passed(index, allowance.repairs)
  BY DEF Mind, Course, OnCourse, Judging
<1>3. ~(index < i)
  BY <1>1, <1>2 DEF Files
<1>4. i < index
  BY <1>1, <1>2, <1>3
<1>5. QED
  BY <1>1, <1>2, <1>4 DEF Passed

(* Every step, for what the files tell: eight of them write one.           *)
LEMMA KeepsFiles ==
  ASSUME Mind, Files, [Next]_vars
  PROVE  Files'
<1>1. CASE UNCHANGED <<timed, finished, record, champion, baseline, bills>>
  BY <1>1 DEF Files, FinishedIsRecorded, PromotedOverBaseline, ProfileNeverFree
<1>2. CASE /\ UNCHANGED <<finished, record, champion>>
           /\ timed => timed'
           /\ baseline # "none" => baseline' # "none"
           /\ ProfileNeverFree'
  BY <1>2 DEF Files, FinishedIsRecorded, PromotedOverBaseline
<1>3. CASE Crown
  <2>1. \A i \in finished : record[i].outcome # "promoted"
    BY <1>3, NonePromoted DEF Crown, Attempting
  <2>2. UNCHANGED <<timed, finished, record, baseline, bills>>
    BY <1>3 DEF Crown, ledgerVars
  <2>3. QED
    BY <2>1, <2>2 DEF Files, FinishedIsRecorded, PromotedOverBaseline, ProfileNeverFree
<1>4. CASE Persist
  <2>1. UNCHANGED <<timed, finished, champion, baseline, bills>>
    BY <1>4 DEF Persist, ledgerVars
  <2>2. /\ index \notin finished /\ timed
        /\ outcome = "promoted" => baseline # "none"
    BY <1>4 DEF Persist, Mind, Course, InHand, Attempting, Judging
  <2>3. /\ \A i \in Index \ {index} : record'[i] = record[i]
        /\ record'[index].outcome = outcome
    BY <1>4 DEF Persist, Mind, Types, TypeOK
  <2>4. finished \subseteq Index
    BY DEF Mind, Types, TypeOK
  <2>5. FinishedIsRecorded'
    BY <2>1, <2>2, <2>3, <2>4 DEF Files, FinishedIsRecorded, NoRecord
  <2>6. PromotedOverBaseline'
    BY <2>1, <2>2, <2>3 DEF Files, PromotedOverBaseline
  <2>7. ProfileNeverFree'
    BY <2>1 DEF Files, ProfileNeverFree
  <2>8. QED
    BY <2>1, <2>2, <2>3, <2>4, <2>5, <2>6, <2>7 DEF Files
<1>5. CASE Commit
  <2>1. /\ UNCHANGED <<timed, record, champion, baseline, bills>>
        /\ finished' = finished \cup {index}
    BY <1>5 DEF Commit, recordVars
  <2>2. /\ record[index] = [sha |-> sources, outcome |-> outcome] /\ outcome \in Outcome
        /\ outcome = "promoted" => champion = [index |-> index, sha |-> sources]
        /\ timed /\ Passed(index, allowance.repairs)
    BY <1>5 DEF Commit, Mind, Course, OnCourse, InHand, Judging, Attempting
  <2>3. record[index] # NoRecord
    BY <2>2 DEF NoRecord, Outcome, Failed, Rejected
  <2>4. FinishedIsRecorded'
    BY <2>1, <2>3 DEF Files, FinishedIsRecorded
  <2>5. \A i \in finished' : \A j \in 0 .. i - 1 : j \in finished'
    BY <2>1, <2>2 DEF Files, Passed
  <2>6. \A i \in finished' : record'[i].outcome = "promoted"
                               => champion' = [index |-> i, sha |-> record'[i].sha]
    BY <2>1, <2>2 DEF Files
  <2>7. PromotedOverBaseline' /\ ProfileNeverFree'
    BY <2>1 DEF Files, PromotedOverBaseline, ProfileNeverFree
  <2>8. QED
    BY <2>1, <2>2, <2>4, <2>5, <2>6, <2>7 DEF Files
<1>6. CASE StartFresh \/ Resume \/ StartProfile \/ Die \/ DieInCommit
  BY <1>1, <1>6 DEF StartFresh, Resume, StartProfile, Boot, Die, DieInCommit, Forget, ledgerVars,
     recordVars
<1>7. CASE BaselineStep
  <2>1. UNCHANGED <<finished, record, champion, bills>> /\ (timed => timed')
        /\ baseline' \in {baseline, "measured"}
    BY <1>7 DEF BaselineStep, SkipBaseline, RefuseBaseline, ReserveBaseline, MeasureBaseline,
       CommitBaseline, diskVars, ledgerVars, recordVars
  <2>2. QED
    BY <1>2, <2>1 DEF Files, ProfileNeverFree
<1>8. CASE ProfileStep
  <2>1. UNCHANGED <<finished, record, champion, timed>>
        /\ bills' \in {bills, bills + 1}
        /\ \/ baseline' \in {baseline, "not_run"}
           \/ baseline' = "collected" /\ pc = "profiled" /\ bills' = bills
    BY <1>8 DEF ProfileStep, NoProfiler, ProfileUnmeasured, ProfileReused, ProfileFailed,
       BillProfile, RecordProfile, diskVars, ledgerVars, recordVars
  <2>2. bills \in Nat /\ (pc = "profiled" => bills > 0)
    BY DEF Mind, Types, TypeOK, InHand
  <2>3. QED
    BY <1>2, <2>1, <2>2 DEF Files, ProfileNeverFree
<1>9. CASE SkipCandidate \/ RefuseCandidate \/ ReserveCandidate
  BY <1>1, <1>9 DEF SkipCandidate, RefuseCandidate, ReserveCandidate, diskVars, ledgerVars,
     recordVars
<1>10. CASE Generate \/ Screen \/ Evaluate \/ Prove \/ Time \/ Confirm
  BY <1>1, <1>10 DEF Generate, Screen, Evaluate, Prove, Time, Confirm, PassTo, EndWith, diskVars,
     ledgerVars, recordVars
<1>11. CASE Judge \/ Report \/ UNCHANGED vars
  BY <1>1, <1>11 DEF Judge, Report, vars, diskVars, ledgerVars, recordVars
<1>12. QED
  BY <1>3, <1>4, <1>5, <1>6, <1>7, <1>8, <1>9, <1>10, <1>11 DEF Next, LoopStep, CandidateStep

(***************************************************************************)
(* There is one verdict.                                                   *)
(***************************************************************************)

(* A verdict about one candidate leaves no way to a later one.             *)
LEMMA DecidedEnds ==
  ASSUME Types, NEW s, NEW k \in Nat, NEW K \in Nat, NEW R \in Nat, Decided(s, k, K, R),
         NEW i \in Nat, i < K, Passed(i, R)
  PROVE  ~(k < i)
<1> SUFFICES ASSUME k < i PROVE FALSE
  OBVIOUS
<1>1. /\ record[k].outcome \notin {"promoted", "eval_infra"}
      /\ Cardinality(Bad(k + 1)) <= R
  BY DEF Passed
<1>2. Cardinality(Bad(k + 1)) \in Nat
  BY BadNext
<1>3. Cardinality(Bad(k + 1)) > R \/ k + 1 >= K
  BY <1>1 DEF Decided
<1>4. QED
  BY <1>1, <1>2, <1>3

(* Two verdicts under the same limits are the same.                        *)
LEMMA OneVerdict ==
  ASSUME Types, NEW K \in Nat, NEW R \in Nat,
         NEW s, NEW k \in Nat, Decided(s, k, K, R), NEW t, NEW i \in Nat, Decided(t, i, K, R)
  PROVE  k = i /\ s = t
<1>1. k < K /\ i < K /\ Passed(k, R) /\ Passed(i, R)
  BY DEF Decided
<1>2. ~(k < i) /\ ~(i < k)
  BY <1>1, DecidedEnds
<1>3. k = i
  BY <1>2
<1>4. QED
  BY <1>3 DEF Decided

(* Nor is there a candidate yet to be attempted.                           *)
LEMMA NothingLeft ==
  ASSUME Types, Files, NEW K \in Nat, NEW R \in Nat, NEW s, NEW k \in Nat, Decided(s, k, K, R),
         NEW i \in Nat, i < K, Passed(i, R)
  PROVE  i \in finished
<1>1. ~(k < i)
  BY DecidedEnds
<1>2. k \in finished
  BY DEF Decided
<1>3. QED
  BY <1>1, <1>2 DEF Files

(* A process that stops has come to its verdict.                           *)
LEMMA KeepsReporting ==
  ASSUME Mind, Files, Reporting, [Next]_vars
  PROVE  Reporting'
<1>1. CASE RefuseBaseline
  BY <1>1 DEF RefuseBaseline, Reporting, ledgerVars
<1>2. CASE RefuseCandidate
  <2>1. OnCourse
    BY <1>2 DEF RefuseCandidate, Mind, Course, Judging
  <2>2. /\ state' = "budget_exhausted" /\ index \notin finished
        /\ UNCHANGED <<finished, record, index, allowance>>
    BY <1>2 DEF RefuseCandidate, diskVars, ledgerVars, recordVars, loopVars
  <2>3. Passed(index, allowance.repairs)'
    BY <2>1, <2>2 DEF OnCourse, Passed, Bad
  <2>4. QED
    BY <2>1, <2>2, <2>3 DEF OnCourse, Reporting
<1>3. CASE Judge
  <2>1. pc = "judging" /\ index \in finished /\ OnCourse
    BY <1>3 DEF Judge, Mind, Course, Judging
  <2>2. UNCHANGED <<finished, record, allowance>>
    BY <1>3 DEF Judge, diskVars, ledgerVars, recordVars
  <2>3. CASE pc' = "reporting"
    <3>1. index' = index /\ state' \in {"completed", "infra_error", "no_improvement"}
      BY <1>3, <2>3 DEF Judge, JudgeInfra, JudgePromoted, JudgeOther, Conclude
    <3>2. record[index] # NoRecord
      BY <2>1 DEF Files, FinishedIsRecorded
    <3>3. /\ state' = "completed" => record[index].outcome = "promoted"
          /\ state' = "infra_error" => record[index].outcome = "eval_infra"
          /\ state' = "no_improvement" =>
               record[index].outcome \notin {"promoted", "eval_infra"}
      BY <1>3, <2>3, <3>2 DEF Judge, JudgeInfra, JudgePromoted, JudgeOther, Conclude, Verdict,
         Failed, Rejected
    <3>4. state' = "no_improvement" =>
            Cardinality(Bad(index + 1)) > allowance.repairs \/ index + 1 >= allowance.candidates
      BY <1>3, <2>3, Counted DEF Judge, JudgeInfra, JudgePromoted, JudgeOther, Conclude,
         LastCandidate
    <3>5. Passed(index, allowance.repairs)' /\ Bad(index + 1)' = Bad(index + 1)
      BY <2>1, <2>2, <3>1 DEF OnCourse, Passed, Bad
    <3>6. Decided(state, index, allowance.candidates, allowance.repairs)'
      BY <2>1, <2>2, <3>1, <3>3, <3>4, <3>5 DEF OnCourse, Decided
    <3>7. QED
      BY <3>6 DEF Reporting
  <2>4. QED
    BY <2>3 DEF Reporting
<1>4. CASE UNCHANGED vars
  BY <1>4 DEF vars, diskVars, ledgerVars, recordVars, mindVars, loopVars, Reporting, Decided,
     Passed, Bad
<1>5. CASE pc' # "reporting"
  BY <1>5 DEF Reporting
<1>6. ASSUME pc' = "reporting"
      PROVE  RefuseBaseline \/ RefuseCandidate \/ Judge \/ UNCHANGED vars
  BY <1>6 DEF Next, LoopStep, StartFresh, Resume, StartProfile, Die, DieInCommit, Forget,
     BaselineStep, SkipBaseline, ReserveBaseline, MeasureBaseline, CommitBaseline, ProfileStep,
     NoProfiler, ProfileUnmeasured, ProfileReused, ProfileFailed, BillProfile, RecordProfile,
     AfterProfile, CandidateStep, SkipCandidate, ReserveCandidate, Generate, Screen, Evaluate,
     Prove, Time, Confirm, Crown, Persist, Commit, PassTo, EndWith, Report
<1>7. QED
  BY <1>1, <1>2, <1>3, <1>4, <1>5, <1>6

(* A report stands for the verdict that the records still give.            *)
LEMMA KeepsReported ==
  ASSUME Mind, Files, Reporting, Reported, [Next]_vars
  PROVE  Reported'
<1>1. Standing
  BY KeepsMind
<1>2. CASE report' = report
  <2> SUFFICES ASSUME report.state \notin {"none", "budget_exhausted"}
               PROVE  Reported'
    BY <1>2 DEF Reported
  <2>1. PICK k \in Index : /\ Decided(report.state, k, report.candidates, report.repairs)
                           /\ report.champion = ChampionAt(report.state, k)
    BY DEF Reported
  <2>2. PICK s, K, R : s = report.state /\ K = report.candidates /\ R = report.repairs
    OBVIOUS
  <2>3. k \in Nat
    BY DEF Index
  <2>4. Decided(s, k, K, R)' /\ record'[k] = record[k]
    BY <1>1, <2>1, <2>2, <2>3, DecidedStands
  <2>5. ChampionAt(s, k)' = ChampionAt(s, k)
    BY <2>4 DEF ChampionAt
  <2>6. QED
    BY <1>2, <2>1, <2>2, <2>4, <2>5 DEF Reported
<1>3. CASE Report
  <2> SUFFICES ASSUME state # "budget_exhausted"
               PROVE  Reported'
    BY <1>3 DEF Report, Reported
  <2>1. Decided(state, index, allowance.candidates, allowance.repairs)
    BY <1>3 DEF Report, Reporting
  <2>2. index \in Index /\ index \in Nat
    BY DEF Mind, Types, TypeOK, Index
  <2>3. PICK i, s, K, R : /\ i = index /\ s = state
                          /\ K = allowance.candidates /\ R = allowance.repairs
    OBVIOUS
  <2>4. Decided(s, i, K, R)' /\ record'[i] = record[i]
    BY <1>1, <2>1, <2>2, <2>3, DecidedStands
  <2>5. report' = [state |-> s, champion |-> ChampionAt(s, i), candidates |-> K, repairs |-> R]
    BY <1>3, <2>3 DEF Report, ChampionAt
  <2>6. ChampionAt(s, i)' = ChampionAt(s, i)
    BY <2>4 DEF ChampionAt
  <2>7. QED
    BY <2>2, <2>3, <2>4, <2>5, <2>6 DEF Reported
<1>4. Report \/ report' = report
  BY DEF Next, LoopStep, StartFresh, Resume, StartProfile, Boot, Die, DieInCommit, Forget,
     BaselineStep, SkipBaseline, RefuseBaseline, ReserveBaseline, MeasureBaseline,
     CommitBaseline, ProfileStep, NoProfiler, ProfileUnmeasured, ProfileReused, ProfileFailed,
     BillProfile, RecordProfile, CandidateStep, SkipCandidate, RefuseCandidate,
     ReserveCandidate, Generate, Screen, Evaluate, Prove, Time, Confirm, Crown, Persist, Commit,
     PassTo, EndWith, Judge, vars, diskVars
<1>5. QED
  BY <1>2, <1>3, <1>4

(***************************************************************************)
(* The theorems.                                                           *)
(***************************************************************************)

(* The inductive invariant: what a process knows, what the files tell, and *)
(* that verdict and report are what the records say.                       *)
THEOREM LoopInvariant == Spec => []LoopInv
<1>1. Init => LoopInv
  <2> SUFFICES ASSUME Init PROVE LoopInv
    OBVIOUS
  <2>1. Types
    <3>1. 0 \in Index
      BY TopAssumption DEF Index
    <3>2. NoRecord \in [sha : Nat, outcome : Outcome \cup {"none"}]
      BY DEF NoRecord
    <3>3. NoChampion \in [index : Index \cup {-1}, sha : Nat]
      BY DEF NoChampion
    <3>4. NoReport \in ReportType /\ NoReport.state = "none"
      BY <3>3 DEF NoReport, ReportType
    <3>5. starts \in 0 .. MaxStarts
      BY TopAssumption DEF Init
    <3>6. QED
      BY <3>1, <3>2, <3>3, <3>4, <3>5 DEF Init, Types, TypeOK, Phase, Terminal
  <2>2. Course /\ InHand /\ Funded /\ Reporting
    BY DEF Init, Course, InHand, Funded, Reporting, Fresh, Judging, Attempting, GpuStage
  <2>3. Files /\ Reported
    BY DEF Init, Files, FinishedIsRecorded, PromotedOverBaseline, ProfileNeverFree, Reported,
       NoReport, NoRecord
  <2>4. QED
    BY <2>1, <2>2, <2>3 DEF LoopInv
<1>2. LoopInv /\ [Next]_vars => LoopInv'
  BY KeepsMind, KeepsFiles, KeepsReporting, KeepsReported DEF LoopInv, Mind
<1>3. QED
  BY <1>1, <1>2, PTL DEF Spec

(* Type correctness of the loop.                                           *)
THEOREM LoopTypeOK == Spec => []TypeOK
<1>1. LoopInv => TypeOK
  BY DEF LoopInv, Types
<1>2. QED
  BY <1>1, LoopInvariant, PTL

(* The records tell the history: every finished candidate is recorded,     *)
(* they were tried in order and none after a promotion, and no profile     *)
(* that a record names was free.                                           *)
THEOREM RecordsTellHistory == Spec => []RecordsTell
<1>1. LoopInv => RecordsTell
  <2> SUFFICES ASSUME LoopInv PROVE AttemptsInOrder
    BY DEF LoopInv, Files, RecordsTell
  <2>1. QED
    BY DEF LoopInv, Course, OnCourse, Passed, Judging, AttemptsInOrder
<1>2. QED
  BY <1>1, LoopInvariant, PTL

(* A completed report names the champion that champion.json holds and the  *)
(* records promoted, over a measured baseline.                             *)
THEOREM ChampionEarnedIt == Spec => []ChampionIsEarned
<1>1. ASSUME LoopInv, report.state = "completed"
      PROVE  LET c == report.champion
             IN  /\ c.index \in finished
                 /\ record[c.index] = [sha |-> c.sha, outcome |-> "promoted"]
                 /\ champion = c
  <2>1. PICK k \in Index : /\ Decided("completed", k, report.candidates, report.repairs)
                           /\ report.champion = ChampionAt("completed", k)
    BY <1>1 DEF LoopInv, Reported
  <2>2. k \in finished /\ record[k].outcome = "promoted"
    BY <2>1 DEF Decided
  <2>3. report.champion = [index |-> k, sha |-> record[k].sha]
    BY <2>1 DEF ChampionAt
  <2>4. champion = [index |-> k, sha |-> record[k].sha]
    BY <1>1, <2>2 DEF LoopInv, Files
  <2>5. record[k] = [sha |-> record[k].sha, outcome |-> "promoted"]
    BY <1>1, <2>2 DEF LoopInv, Types, TypeOK
  <2>6. QED
    BY <2>2, <2>3, <2>4, <2>5
<1>2. LoopInv => ChampionIsEarned
  BY <1>1 DEF LoopInv, Files, ChampionIsEarned, ChampionIsReported
<1>3. QED
  BY <1>2, LoopInvariant, PTL

(* The limits of repairs and seconds hold in every process of the run,     *)
(* whatever the allowance it was resumed with.                             *)
THEOREM LimitsAlwaysHold == Spec => []LimitsHold
<1>1. ASSUME LoopInv, pc \in Attempting
      PROVE  Cardinality(Bad(index)) <= allowance.repairs
  <2>1. /\ index \in Nat /\ allowance.repairs \in Nat
        /\ Passed(index, allowance.repairs)
    BY <1>1, Allowances
       DEF LoopInv, Types, TypeOK, Index, Course, OnCourse, Judging
  <2>2. CASE index = 0
    BY <1>1, <2>1, <2>2, BadNext DEF LoopInv
  <2>3. CASE index # 0
    <3>1. index - 1 \in 0 .. index - 1 /\ (index - 1) + 1 = index
      BY <2>1, <2>3
    <3>2. QED
      BY <2>1, <3>1 DEF Passed
  <2>4. QED
    BY <2>2, <2>3
<1>2. ASSUME LoopInv, pc \in GpuStage
      PROVE  Deadline(CandidateEstimate, Floor[pc]) = Floor[pc]
  <2>1. /\ settled \in Nat /\ held \in Nat /\ allowance.seconds \in Nat
        /\ settled + held <= allowance.seconds
    BY <1>2, Allowances DEF LoopInv, Types, TypeOK, Funded, Attempting
  <2>2. Floor[pc] \in Nat /\ CandidateEstimate \in Nat /\ Floor[pc] <= CandidateEstimate
    BY <1>2, Estimates DEF LoopInv, InHand
  <2>3. QED
    BY <2>1, <2>2 DEF Deadline
<1>3. ASSUME LoopInv, pc = "measuring"
      PROVE  Deadline(BaselineEstimate, Floor["timing"]) = Floor["timing"]
  <2>1. /\ settled \in Nat /\ held \in Nat /\ allowance.seconds \in Nat
        /\ settled + held <= allowance.seconds
    BY <1>3, Allowances DEF LoopInv, Types, TypeOK, Funded
  <2>2. QED
    BY <2>1, Estimates DEF Deadline
<1>4. LoopInv => LimitsHold
  BY <1>1, <1>2, <1>3 DEF LimitsHold, RepairBound, StageFunded, Bad
<1>5. QED
  BY <1>4, LoopInvariant, PTL

(* The record of a finished candidate is never written again.              *)
THEOREM RecordsStandForever == Spec => RecordsStand
<1>1. LoopInv /\ [Next]_vars => [\A i \in finished : record'[i] = record[i]]_vars
  BY Stands DEF LoopInv, Standing
<1>2. QED
  BY <1>1, LoopInvariant, PTL DEF Spec, RecordsStand

(* Whoever resumes a run under the limits of its last verdict comes to the *)
(* same verdict about the same champion.                                   *)
THEOREM VerdictAlwaysRepeats == Spec => VerdictRepeats
<1>1. ASSUME LoopInv, [Next]_vars, report.state \notin {"none", "budget_exhausted"},
             report'.candidates = report.candidates, report'.repairs = report.repairs
      PROVE  report' = report
  <2>1. PICK k \in Index : /\ Decided(report.state, k, report.candidates, report.repairs)
                           /\ report.champion = ChampionAt(report.state, k)
    BY <1>1 DEF LoopInv, Reported
  <2>2. /\ report \in ReportType /\ report.candidates \in Nat /\ report.repairs \in Nat
        /\ index \in Nat /\ k \in Nat
    BY <1>1 DEF LoopInv, Types, TypeOK, ReportType, Index
  <2>3. CASE Report
    <3>1. /\ report'.state = state /\ report'.champion = ChampionAt(state, index)
          /\ allowance.candidates = report.candidates /\ allowance.repairs = report.repairs
          /\ pc = "reporting"
      BY <1>1, <2>3 DEF Report, ChampionAt
    <3>2. ~Decided(state, index, report.candidates, report.repairs) =>
            /\ timed => index \notin finished /\ index < report.candidates
                          /\ Passed(index, report.repairs)
      BY <1>1, <3>1 DEF LoopInv, Reporting
    <3>3. timed
      BY <1>1, <2>1 DEF LoopInv, Files, Decided
    <3>4. Decided(state, index, report.candidates, report.repairs)
      BY <1>1, <2>1, <2>2, <3>2, <3>3, NothingLeft DEF LoopInv
    <3>5. k = index /\ report.state = state
      BY <1>1, <2>1, <2>2, <3>4, OneVerdict DEF LoopInv
    <3>6. report' = [state |-> report.state, champion |-> report.champion,
                     candidates |-> report.candidates, repairs |-> report.repairs]
      BY <2>1, <2>3, <3>1, <3>5 DEF Report, ChampionAt
    <3>7. QED
      BY <2>2, <3>6 DEF ReportType
  <2>4. Report \/ report' = report
    BY <1>1 DEF Next, LoopStep, StartFresh, Resume, StartProfile, Boot, Die, DieInCommit, Forget,
       BaselineStep, SkipBaseline, RefuseBaseline, ReserveBaseline, MeasureBaseline,
       CommitBaseline, ProfileStep, NoProfiler, ProfileUnmeasured, ProfileReused, ProfileFailed,
       BillProfile, RecordProfile, CandidateStep, SkipCandidate, RefuseCandidate,
       ReserveCandidate, Generate, Screen, Evaluate, Prove, Time, Confirm, Crown, Persist,
       Commit, PassTo, EndWith, Judge, vars, diskVars
  <2>5. QED
    BY <2>3, <2>4
<1>2. LoopInv /\ [Next]_vars =>
        [(/\ report.state \notin {"none", "budget_exhausted"}
          /\ report'.candidates = report.candidates
          /\ report'.repairs = report.repairs) => report' = report]_vars
  BY <1>1
<1>3. QED
  BY <1>2, LoopInvariant, PTL DEF Spec, VerdictRepeats

(***************************************************************************)
(* The requests: what a process has been told of the records, and of those *)
(* that were there before it.                                              *)
(***************************************************************************)
Attempted == [index : Index, sha : Nat, outcome : Outcome \cup {"none"}]
Tells(j) == record[j].outcome \notin {"promoted", "eval_infra"}

LastWord(j) ==
  \E n \in DOMAIN history :
    history[n] = Attempt(j) /\ \A m \in DOMAIN history : m > n => history[m].index > j

RecordsInOrder == \A i \in Recorded : \A j \in 0 .. i - 1 : j \in finished

(* An attempt without a verdict is recorded and not remembered: it is the  *)
(* last one of its process.                                                *)
Remembers ==
  pc # "down" =>
    /\ history \in Seq(Attempted)
    /\ \A j \in Recorded : record[j].outcome # "eval_infra" => LastWord(j)
    /\ Recorded = {} => feedback.sha = 0
    /\ \A i \in Recorded :
         (\A j \in Recorded : j <= i /\ Tells(j)) => feedback.sha = record[i].sha

(* Records have no gap, so that what a process reads back is in order.     *)
LEMMA NoGap ==
  ASSUME Types, Files, RecordsInOrder
  PROVE  /\ Cardinality(Recorded) \in Nat
         /\ Recorded = 0 .. Cardinality(Recorded) - 1
         /\ \A i \in Recorded : Cardinality({j \in Recorded : j < i}) = i
<1>1. Recorded \subseteq 0 .. Top - 1 /\ Top \in Nat
  BY TopAssumption DEF Recorded, Index
<1>2. IsFiniteSet(Recorded) /\ Cardinality(Recorded) \in Nat
  <2>1. IsFiniteSet(0 .. Top - 1)
    BY <1>1, FS_Interval
  <2>2. QED
    BY <1>1, <2>1, FS_Subset, FS_CardinalityType
<1>3. \A i \in Recorded : 0 .. i \subseteq Recorded
  <2> SUFFICES ASSUME NEW i \in Recorded, NEW j \in 0 .. i
               PROVE  j \in Recorded
    OBVIOUS
  <2>1. j = i \/ j \in finished
    BY <1>1 DEF RecordsInOrder
  <2>2. QED
    BY <2>1 DEF Files, FinishedIsRecorded, Recorded, Types, TypeOK
<1>4. ASSUME NEW i \in Recorded
      PROVE  Cardinality({j \in Recorded : j < i}) = i
  <2>1. {j \in Recorded : j < i} = 0 .. i - 1
    <3>1. i \in Nat /\ \A j \in Recorded : j \in Nat
      BY <1>1
    <3>2. 0 .. i - 1 \subseteq Recorded
      BY <1>3, <3>1
    <3>3. \A j \in Recorded : j < i => j \in 0 .. i - 1
      BY <3>1
    <3>4. \A j \in 0 .. i - 1 : j \in Recorded /\ j < i
      BY <3>1, <3>2
    <3>5. QED
      BY <3>3, <3>4
  <2>2. i \in Nat /\ Cardinality(0 .. i - 1) = i
    BY <1>1, FS_Interval
  <2>3. QED
    BY <2>1, <2>2
<1>5. Recorded \subseteq 0 .. Cardinality(Recorded) - 1
  <2> SUFFICES ASSUME NEW i \in Recorded
               PROVE  i < Cardinality(Recorded)
    BY <1>1, <1>2
  <2>1. i \in Nat /\ Cardinality(0 .. i) = i + 1
    BY <1>1, FS_Interval
  <2>2. Cardinality(0 .. i) <= Cardinality(Recorded)
    BY <1>2, <1>3, FS_Subset
  <2>3. QED
    BY <1>2, <2>1, <2>2
<1>6. Recorded = 0 .. Cardinality(Recorded) - 1
  <2> DEFINE m == Cardinality(Recorded)
  <2>1. IsFiniteSet(0 .. m - 1) /\ Cardinality(0 .. m - 1) = m
    BY <1>2, FS_Interval
  <2>2. QED
    BY <1>5, <2>1, FS_Subset
<1>7. QED
  BY <1>2, <1>4, <1>6

(* The history that a process reads back: one attempt per record.          *)
LEMMA RestoredInOrder ==
  ASSUME Types, Files, RecordsInOrder
  PROVE  /\ Restored \in Seq(Attempted)
         /\ \A j \in Recorded : /\ j + 1 \in DOMAIN Restored
                                /\ Restored[j + 1] = Attempt(j)
         /\ \A n \in DOMAIN Restored : n \in Nat /\ Restored[n].index = n - 1
<1> DEFINE m == Cardinality(Recorded)
           nth(n) == CHOOSE i \in Recorded : Cardinality({j \in Recorded : j < i}) = n - 1
<1>1. m \in Nat /\ Recorded = 0 .. m - 1
  BY NoGap
<1>2. ASSUME NEW n \in 1 .. m
      PROVE  nth(n) = n - 1
  <2>1. n - 1 \in Recorded
    BY <1>1
  <2>2. \A i \in Recorded : Cardinality({j \in Recorded : j < i}) = n - 1 <=> i = n - 1
    BY <2>1, NoGap
  <2>3. QED
    BY <2>1, <2>2
<1>3. Restored = [n \in 1 .. m |-> Attempt(n - 1)]
  <2>1. Restored = [n \in 1 .. m |-> Attempt(nth(n))]
    BY DEF Restored
  <2> HIDE DEF nth
  <2>2. QED
    BY <1>2, <2>1
<1>4. \A i \in Recorded : Attempt(i) \in Attempted /\ Attempt(i).index = i
  BY DEF Attempt, Attempted, Recorded, Types, TypeOK
<1>5. \A n \in 1 .. m : n - 1 \in Recorded
  BY <1>1
<1>6. [n \in 1 .. m |-> Attempt(n - 1)] \in Seq(Attempted)
  BY <1>1, <1>4, <1>5
<1>7. QED
  BY <1>1, <1>3, <1>4, <1>5, <1>6

(* The feedback that it reads back: of the last record, if that tells one. *)
LEMMA FeedbackRestored ==
  ASSUME Types, Files, RecordsInOrder
  PROVE  /\ Recorded = {} => RestoredFeedback.sha = 0
         /\ \A i \in Recorded :
              (\A j \in Recorded : j <= i /\ Tells(j)) => RestoredFeedback.sha = record[i].sha
<1>1. Recorded = {} => RestoredFeedback.sha = 0
  BY DEF RestoredFeedback, Telling, NoFeedback
<1>2. ASSUME NEW i \in Recorded, \A j \in Recorded : j <= i /\ Tells(j)
      PROVE  RestoredFeedback.sha = record[i].sha
  <2>1. Telling = Recorded
    BY <1>2 DEF Telling, Tells
  <2>2. (CHOOSE k \in Telling : \A j \in Telling : j <= k) = i
    <3>1. \A k \in Recorded : k \in Int
      BY DEF Recorded, Index
    <3>2. \A k \in Recorded : (\A j \in Recorded : j <= k) <=> k = i
      BY <1>2, <3>1
    <3>3. QED
      BY <2>1, <3>2
  <2>3. QED
    BY <2>1, <2>2 DEF RestoredFeedback
<1>3. QED
  BY <1>1, <1>2

(* Only Persist adds a record, and only next to the finished ones.         *)
LEMMA KeepsRecordsInOrder ==
  ASSUME LoopInv, RecordsInOrder, [Next]_vars
  PROVE  RecordsInOrder'
<1>1. Standing
  BY Stands DEF LoopInv
<1>2. CASE Persist
  <2>1. /\ finished' = finished /\ index \in Index
        /\ \A i \in Index \ {index} : record'[i] = record[i]
    BY <1>2 DEF Persist, ledgerVars, LoopInv, Types, TypeOK
  <2>2. \A j \in 0 .. index - 1 : j \in finished
    BY <1>2 DEF Persist, LoopInv, Course, OnCourse, Passed, Judging, Attempting
  <2>3. \A i \in Recorded' : i = index \/ i \in Recorded
    BY <2>1 DEF Recorded
  <2>4. QED
    BY <2>1, <2>2, <2>3 DEF RecordsInOrder
<1>3. CASE record' = record
  BY <1>1, <1>3 DEF Standing, RecordsInOrder, Recorded
<1>4. Persist \/ record' = record
  BY DEF Next, LoopStep, StartFresh, Resume, StartProfile, Boot, Die, DieInCommit, Forget,
     BaselineStep, SkipBaseline, RefuseBaseline, ReserveBaseline, MeasureBaseline,
     CommitBaseline, ProfileStep, NoProfiler, ProfileUnmeasured, ProfileReused, ProfileFailed,
     BillProfile, RecordProfile, CandidateStep, SkipCandidate, RefuseCandidate,
     ReserveCandidate, Generate, Screen, Evaluate, Prove, Time, Confirm, Crown, Commit,
     PassTo, EndWith, Judge, Report, vars, diskVars, recordVars
<1>5. QED
  BY <1>2, <1>3, <1>4

(* Every step, for what a process remembers.                               *)
LEMMA KeepsRemembers ==
  ASSUME LoopInv, RecordsInOrder, Remembers, [Next]_vars
  PROVE  Remembers'
<1>1. CASE pc' = "down"
  BY <1>1 DEF Remembers
<1>2. CASE UNCHANGED <<record, history, feedback>> /\ (pc' # "down" => pc # "down")
  BY <1>2 DEF Remembers, Recorded, LastWord, Attempt, Tells, Attempted
<1>3. CASE StartFresh \/ Resume \/ StartProfile
  <2>1. history' = Restored /\ feedback' = RestoredFeedback /\ record' = record
    BY <1>3 DEF StartFresh, Resume, StartProfile, Boot, recordVars
  <2>2. Recorded' = Recorded /\ \A j : Attempt(j)' = Attempt(j) /\ Tells(j)' = Tells(j)
    BY <2>1 DEF Recorded, Attempt, Tells
  <2>3. history' \in Seq(Attempted)
    BY <2>1, RestoredInOrder DEF LoopInv
  <2>4. ASSUME NEW j \in Recorded
        PROVE  LastWord(j)'
    <3>1. j \in Nat
      BY DEF Recorded, Index
    <3>2. /\ j + 1 \in DOMAIN history' /\ history'[j + 1] = Attempt(j)
          /\ \A n \in DOMAIN history' : n \in Nat /\ history'[n].index = n - 1
      BY <2>1, RestoredInOrder DEF LoopInv
    <3>3. \A n \in DOMAIN history' : n > j + 1 => history'[n].index > j
      BY <3>1, <3>2
    <3>4. QED
      BY <2>2, <3>2, <3>3 DEF LastWord
  <2>5. /\ Recorded = {} => feedback'.sha = 0
        /\ \A i \in Recorded :
             (\A j \in Recorded : j <= i /\ Tells(j)) => feedback'.sha = record[i].sha
    BY <2>1, FeedbackRestored DEF LoopInv
  <2>6. QED
    BY <2>1, <2>2, <2>3, <2>4, <2>5 DEF Remembers
<1>4. CASE Persist
  <2> DEFINE new == [index |-> index, sha |-> sources, outcome |-> outcome]
  <2>1. /\ record' = [record EXCEPT ![index] = [sha |-> sources, outcome |-> outcome]]
        /\ index \in Index /\ sources \in Nat /\ outcome \in Outcome
        /\ history \in Seq(Attempted) /\ pc # "down"
    BY <1>4 DEF Persist, LoopInv, Types, TypeOK, InHand, Remembers
  <2>2. /\ \A i \in Index \ {index} : record'[i] = record[i]
        /\ record'[index] = [sha |-> sources, outcome |-> outcome]
        /\ record'[index] # NoRecord
    BY <2>1 DEF LoopInv, Types, TypeOK, NoRecord, Outcome, Failed, Rejected
  <2>3. Recorded' = Recorded \cup {index}
    BY <2>1, <2>2 DEF Recorded
  <2>4. \A i \in Recorded : i <= index
    <3>1. index \notin finished
      BY <1>4 DEF Persist, LoopInv, Course, Attempting
    <3>2. QED
      BY <2>1, <3>1 DEF RecordsInOrder, Recorded, Index
  <2>5. new \in Attempted /\ new.index = index /\ Attempt(index)' = new
    <3>1. index' = index
      BY <1>4 DEF Persist, loopVars
    <3>2. QED
      BY <2>1, <2>2, <3>1 DEF Attempted, Attempt
  <2>6. history' = IF outcome = "eval_infra" THEN history ELSE Append(history, new)
    BY <1>4 DEF Persist
  <2> HIDE DEF new
  <2>7. /\ history' \in Seq(Attempted)
        /\ \A n \in DOMAIN history : n \in DOMAIN history' /\ history'[n] = history[n]
        /\ \A n \in DOMAIN history' :
             n \in DOMAIN history \/ (n = Len(history) + 1 /\ history'[n] = new)
        /\ outcome # "eval_infra" =>
             Len(history) + 1 \in DOMAIN history' /\ history'[Len(history) + 1] = new
    BY <2>1, <2>5, <2>6
  <2>8. ASSUME NEW j \in Recorded \ {index}, record[j].outcome # "eval_infra"
        PROVE  LastWord(j)'
    <3>1. PICK n \in DOMAIN history : /\ history[n] = Attempt(j)
                                      /\ \A m \in DOMAIN history : m > n => history[m].index > j
      BY <2>1, <2>8 DEF Remembers, LastWord
    <3>2. j < index /\ Attempt(j)' = Attempt(j)
      BY <2>1, <2>2, <2>4 DEF Attempt, Recorded, Index
    <3>3. n \in DOMAIN history' /\ history'[n] = Attempt(j)'
      BY <2>7, <3>1, <3>2
    <3>4. \A m \in DOMAIN history' : m > n => history'[m].index > j
      BY <2>5, <2>7, <3>1, <3>2
    <3>5. QED
      BY <3>3, <3>4 DEF LastWord
  <2>9. outcome # "eval_infra" => LastWord(index)'
    <3> SUFFICES ASSUME outcome # "eval_infra"
                 PROVE  \E n \in DOMAIN history' :
                          /\ history'[n] = Attempt(index)'
                          /\ \A m \in DOMAIN history' : m > n => history'[m].index > index'
      BY DEF LastWord
    <3>1. \A m \in DOMAIN history' : ~(m > Len(history) + 1)
      BY <2>1, <2>7
    <3>2. QED
      BY <2>5, <2>7, <3>1
  <2>10. index' = index
    BY <1>4 DEF Persist, loopVars
  <2>11. \A j \in Recorded' : record'[j].outcome # "eval_infra" => LastWord(j)'
    BY <2>2, <2>3, <2>8, <2>9, <2>10 DEF Recorded
  <2>12. ASSUME NEW i \in Recorded', \A j \in Recorded' : j <= i /\ Tells(j)'
         PROVE  feedback'.sha = record'[i].sha
    <3>1. i = index
      BY <2>1, <2>3, <2>4, <2>12 DEF Recorded, Index
    <3>2. outcome \notin {"promoted", "eval_infra"}
      BY <2>2, <2>12, <3>1 DEF Tells
    <3>3. feedback' = [sha |-> sources, text |-> Said(outcome)]
      BY <1>4, <3>2 DEF Persist
    <3>4. QED
      BY <2>2, <3>1, <3>3
  <2>13. QED
    BY <2>3, <2>7, <2>11, <2>12 DEF Remembers
<1>5. CASE Die \/ DieInCommit
  BY <1>1, <1>5 DEF Die, DieInCommit, Forget
<1>6. CASE BaselineStep
  BY <1>2, <1>6 DEF BaselineStep, SkipBaseline, RefuseBaseline, ReserveBaseline,
     MeasureBaseline, CommitBaseline, diskVars, recordVars, mindVars, planVars
<1>7. CASE ProfileStep
  BY <1>2, <1>7 DEF ProfileStep, NoProfiler, ProfileUnmeasured, ProfileReused, ProfileFailed,
     BillProfile, RecordProfile, ToProfile, Profiles, diskVars, recordVars, mindVars, planVars
<1>8. CASE SkipCandidate \/ RefuseCandidate \/ ReserveCandidate \/ Crown \/ Commit
  BY <1>2, <1>8 DEF SkipCandidate, RefuseCandidate, ReserveCandidate, Crown, Commit, diskVars,
     recordVars, mindVars, planVars
<1>9. CASE Generate \/ Screen \/ Evaluate \/ Prove \/ Time \/ Confirm
  BY <1>2, <1>9 DEF Generate, Screen, Evaluate, Prove, Time, Confirm, PassTo, EndWith,
     diskVars, recordVars, mindVars, planVars
<1>10. CASE Judge \/ Report \/ UNCHANGED vars
  BY <1>2, <1>10 DEF Judge, Report, vars, diskVars, recordVars, mindVars, planVars
<1>11. QED
  BY <1>3, <1>4, <1>5, <1>6, <1>7, <1>8, <1>9, <1>10 DEF Next, LoopStep, CandidateStep

(* A candidate's first request misses nothing that was recorded before it, *)
(* by this process or by an earlier one.                                   *)
THEOREM RequestsMissNothing == Spec => []RequestKnowsRecords
<1>1. Init => RecordsInOrder /\ Remembers
  BY DEF Init, RecordsInOrder, Recorded, Remembers, NoRecord
<1>2. LoopInv /\ RecordsInOrder /\ Remembers /\ [Next]_vars => (RecordsInOrder /\ Remembers)'
  BY KeepsRecordsInOrder, KeepsRemembers
<1>3. LoopInv /\ RecordsInOrder /\ Remembers => RequestKnowsRecords
  <2> SUFFICES ASSUME LoopInv, RecordsInOrder, Remembers,
                      pc = "generating", record[index] = NoRecord
               PROVE  /\ \A j \in 0 .. index - 1 : LastWord(j)
                      /\ feedback.sha = IF index = 0 THEN 0 ELSE record[index - 1].sha
    BY DEF RequestKnowsRecords, LastWord
  <2>1. index \in Index /\ index \in Nat /\ index \notin finished
    BY DEF LoopInv, Types, TypeOK, Course, Attempting, Index
  <2>2. Passed(index, allowance.repairs)
    BY DEF LoopInv, Course, OnCourse, Judging, Attempting
  <2>3. 0 .. index - 1 \subseteq Recorded
    <3>1. finished \subseteq Recorded
      BY DEF LoopInv, Types, TypeOK, Files, FinishedIsRecorded, Recorded
    <3>2. QED
      BY <2>2, <3>1 DEF Passed
  <2>4. Recorded \subseteq 0 .. index - 1
    <3> SUFFICES ASSUME NEW i \in Recorded
                 PROVE  i < index
      BY <2>1 DEF Recorded, Index
    <3>1. i \in Nat /\ i # index
      BY DEF Recorded, Index
    <3>2. ~(index < i)
      BY <2>1, <3>1 DEF RecordsInOrder
    <3>3. QED
      BY <2>1, <3>1, <3>2
  <2>5. \A j \in 0 .. index - 1 : Tells(j) /\ record[j].outcome # "eval_infra"
    BY <2>2 DEF Passed, Tells
  <2>6. \A j \in 0 .. index - 1 : LastWord(j)
    BY <2>3, <2>5 DEF Remembers
  <2>7. CASE index = 0
    <3>1. Recorded = {}
      BY <2>4, <2>7
    <3>2. QED
      BY <2>6, <2>7, <3>1 DEF Remembers
  <2>8. CASE index # 0
    <3>1. index - 1 \in Recorded /\ \A j \in Recorded : j <= index - 1 /\ Tells(j)
      BY <2>1, <2>3, <2>4, <2>5, <2>8
    <3>2. QED
      BY <2>6, <2>8, <3>1 DEF Remembers
  <2>9. QED
    BY <2>6, <2>7, <2>8
<1>4. QED
  BY <1>1, <1>2, <1>3, LoopInvariant, PTL DEF Spec
=============================================================================
