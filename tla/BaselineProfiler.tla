-------------------------- MODULE BaselineProfiler --------------------------
(***************************************************************************)
(* The NCU profile of the baseline: _run_baseline_profile() around         *)
(* profile_baseline(), called by the loop between the baseline and the     *)
(* first candidate and by `kernelagent profile`, under run.lock, one call  *)
(* after another. A call may die anywhere; the privileged container it     *)
(* started lives on in the daemon and goes on writing to the scratch       *)
(* directory, which every call of a run shares.                            *)
(*                                                                         *)
(* What a container wrote is named by the call that started it.            *)
(***************************************************************************)
EXTENDS Naturals

CONSTANTS MaxCalls    (* bound: calls on one run directory                  *)

ASSUME CallsAssumption == MaxCalls \in Nat

VARIABLES
  at,             (* where the current call is                              *)
  mode,           (* "loop" or "profile"                                    *)
  calls,          (* calls so far; the current one is the last              *)
  measured,       (* the baseline record says "measured"                    *)
  container,      (* what the container of each call is doing               *)
  scratch,        (* driver_meta.json and baseline.ncu-rep in scratch/      *)
  report,         (* baseline.ncu-rep in profile/, as it was last moved     *)
  evidence,       (* baseline-evidence.json                                 *)
  profile,        (* the profile field of the baseline record               *)
  bills,          (* budget_settled lines of profiling                      *)
  lost            (* history: the bills that have no record, or lost it;    *)
                  (* nothing reads it                                       *)

files == <<scratch, report, evidence, profile, bills>>
profileVars == <<at, mode, calls, measured, container, files, lost>>

Call == 1 .. MaxCalls
Nobody == 0
Writer == 0 .. MaxCalls
Ended == {"idle", "measured", "unmeasured"}

ProfileTypeOK ==
  /\ at \in Ended \cup {"called", "staging", "launching", "waiting", "removing", "looking",
                        "importing", "writing", "billing", "recording", "not run"}
  /\ mode \in {"loop", "profile"}
  /\ calls \in Writer /\ measured \in BOOLEAN
  /\ container \in [Call -> {"none", "running", "driven", "gone"}]
  /\ scratch \in [marker : Writer, report : Writer]
  /\ report \in Writer
  /\ evidence \in {"none", "torn", "whole"}
  /\ profile \in {"none", "collected", "not_run"}
  /\ bills \in Nat /\ lost \in Nat

ProfileInit ==
  /\ at = "idle" /\ mode = "loop" /\ calls = 0 /\ measured \in BOOLEAN
  /\ container = [c \in Call |-> "none"]
  /\ scratch = [marker |-> Nobody, report |-> Nobody] /\ report = Nobody
  /\ evidence = "none" /\ profile = "none" /\ bills = 0 /\ lost = 0

To(place) == at' = place
Stays == UNCHANGED <<mode, calls, measured, lost>>

-----------------------------------------------------------------------------
(* _run_baseline_profile, up to the profiler.                              *)

(* A loop whose baseline was interrupted has measured it again: the record *)
(* is new, the directory of the profile is not.                            *)
Begin ==
  /\ at \in Ended /\ calls < MaxCalls
  /\ calls' = calls + 1 /\ mode' \in {"loop", "profile"}
  /\ To("called")
  /\ \/ UNCHANGED <<measured, profile, lost>>
     \/ /\ mode' = "loop" /\ measured' \in BOOLEAN /\ profile' = "none"
        /\ lost' = IF profile = "collected" THEN lost + 1 ELSE lost
  /\ UNCHANGED <<container, scratch, report, evidence, bills>>

(* load_collected_evidence: a file that cannot be read is none.            *)
Reusable == profile = "collected" /\ evidence = "whole"

(* Mutant: what was collected is not used again.                           *)
CheckAnew ==
  /\ at = "called"
  /\ \/ ~measured /\ To("unmeasured")
     \/ measured /\ mode = "loop" /\ To("unmeasured")
     \/ measured /\ To("staging")
  /\ Stays /\ UNCHANGED <<container, files>>

(* No baseline, no profile; what was collected is used again; a budget     *)
(* that is exhausted (only the loop has one) skips it.                     *)
Check ==
  /\ at = "called"
  /\ \/ ~measured /\ To("unmeasured")
     \/ measured /\ Reusable /\ To("measured")
     \/ measured /\ ~Reusable /\ mode = "loop" /\ To("unmeasured")
     \/ measured /\ ~Reusable /\ To("staging")
  /\ Stays /\ UNCHANGED <<container, files>>

-----------------------------------------------------------------------------
(* profile_baseline.                                                       *)

(* No ncu on the host, or inputs that cannot be written.                   *)
Stage ==
  /\ at = "staging"
  /\ To("launching") \/ To("not run")
  /\ Stays /\ UNCHANGED <<container, files>>

(* docker cannot be executed; or it comes back without a container; or it  *)
(* starts one. What an earlier call left in scratch/ stays there.          *)
Launch ==
  /\ at = "launching"
  /\ \/ To("not run") /\ UNCHANGED container
     \/ To("looking") /\ UNCHANGED container
     \/ To("waiting") /\ container' = [container EXCEPT ![calls] = "running"]
  /\ Stays /\ UNCHANGED files

ClientReturns ==
  /\ at = "waiting" /\ container[calls] = "gone"
  /\ To("looking")
  /\ Stays /\ UNCHANGED <<container, files>>

(* Mutant: the wall clock is looked at when the container has ended.       *)
TimeoutOnReturn ==
  /\ at = "waiting" /\ container[calls] = "gone"
  /\ To("removing")
  /\ Stays /\ UNCHANGED <<container, files>>

TimeoutExpires ==
  /\ at = "waiting"
  /\ To("removing")
  /\ Stays /\ UNCHANGED <<container, files>>

(* docker rm -f, whatever becomes of it.                                   *)
ForceRemove ==
  /\ at = "removing"
  /\ container' \in {container, [container EXCEPT ![calls] = "gone"]}
  /\ To("not run")
  /\ Stays /\ UNCHANGED files

(* The marker of the driver, the report of ncu, and the move of the report, *)
(* which may fail.                                                         *)
Look ==
  /\ at = "looking"
  /\ \/ To("not run") /\ UNCHANGED <<scratch, report>>
     \/ /\ scratch.marker # Nobody /\ scratch.report # Nobody
        /\ report' = scratch.report
        /\ scratch' = [scratch EXCEPT !.report = Nobody]
        /\ To("importing")
  /\ Stays /\ UNCHANGED <<container, evidence, profile, bills>>

(* Mutant: the record is updated as soon as the report is understood.      *)
ImportRecorded ==
  /\ at = "importing"
  /\ \/ To("writing") /\ profile' = "collected"
     \/ To("not run") /\ UNCHANGED profile
  /\ Stays /\ UNCHANGED <<container, scratch, report, evidence, bills>>

(* ncu --import on the host fails, times out, or finds no launches.        *)
Import ==
  /\ at = "importing"
  /\ To("writing") \/ To("not run")
  /\ Stays /\ UNCHANGED <<container, files>>

(* In place; what fails here or after it leaves what was written.          *)
WriteEvidence ==
  /\ at = "writing"
  /\ \/ evidence' = "whole" /\ To("billing")
     \/ evidence' \in {evidence, "torn", "whole"} /\ To("not run")
  /\ Stays /\ UNCHANGED <<container, scratch, report, profile, bills>>

-----------------------------------------------------------------------------
(* _run_baseline_profile, with the outcome.                                *)

(* Only what was collected is billed.                                      *)
Bill ==
  /\ at = "billing"
  /\ bills' = bills + 1 /\ To("recording")
  /\ Stays /\ UNCHANGED <<container, scratch, report, evidence, profile>>

RecordCollected ==
  /\ at = "recording"
  /\ profile' = "collected" /\ To("measured")
  /\ Stays /\ UNCHANGED <<container, scratch, report, evidence, bills>>

(* Also what the profiler raises.                                          *)
RecordNotRun ==
  /\ at = "not run"
  /\ profile' = "not_run" /\ To("unmeasured")
  /\ Stays /\ UNCHANGED <<container, scratch, report, evidence, bills>>

Profiler ==
  \/ Check \/ Stage \/ Launch \/ ClientReturns \/ TimeoutExpires \/ ForceRemove
  \/ Look \/ Import \/ WriteEvidence \/ Bill \/ RecordCollected \/ RecordNotRun

-----------------------------------------------------------------------------
(* The process dies; the evidence is not written at once.                  *)
Die ==
  /\ at \notin Ended
  /\ To("idle")
  /\ evidence' \in IF at = "writing" THEN {evidence, "torn"} ELSE {evidence}
  /\ lost' = IF at = "recording" THEN lost + 1 ELSE lost
  /\ UNCHANGED <<mode, calls, measured, container, scratch, report, profile, bills>>

(* The container: the driver ends with its marker or fails without; ncu    *)
(* writes its report after the driver, or nothing; then it is gone.        *)
DriverEnds(c) ==
  /\ container[c] = "running"
  /\ container' = [container EXCEPT ![c] = "driven"]
  /\ scratch' \in {scratch, [scratch EXCEPT !.marker = c]}

ContainerEnds(c) ==
  /\ container[c] \in {"running", "driven"}
  /\ container' = [container EXCEPT ![c] = "gone"]
  /\ scratch' \in IF container[c] = "driven" THEN {scratch, [scratch EXCEPT !.report = c]}
                  ELSE {scratch}

Environment ==
  /\ \E c \in Call : DriverEnds(c) \/ ContainerEnds(c)
  /\ Stays /\ UNCHANGED <<at, report, evidence, profile, bills>>

ProfileNext == Begin \/ Profiler \/ Die \/ Environment

(* The parent goes on: its commands have time limits. Nothing is assumed   *)
(* of docker and the container.                                            *)
ProfileSpec == ProfileInit /\ [][ProfileNext]_profileVars /\ WF_profileVars(Profiler)

-----------------------------------------------------------------------------
(* A resumed run uses "already-collected evidence verbatim": if the record *)
(* says that a profile was collected, its evidence is there in whole and   *)
(* was billed, wherever any call died.                                     *)
CollectedIsThere ==
  profile = "collected" => evidence = "whole" /\ bills > 0

(* "idempotent, no re-run, no duplicate billing" is not what the code does *)
(* (README): a call that dies between the bill and the record leaves a     *)
(* bill that no record tells of, and the next call bills again. This is    *)
(* what it does: a bill has its record, or is about to, unless a call died *)
(* just there or the baseline was measured again, with a new record.       *)
EachBillOnRecord ==
  bills = lost + (IF profile = "collected" THEN 1 ELSE 0) + (IF at = "recording" THEN 1 ELSE 0)

(* "profiling must never break the main loop": a call comes to its end,    *)
(* unless its process dies, whatever docker and the container do.          *)
ProfilingReturns == (at = "called") ~> (at \in Ended)
=============================================================================
