----------------------------- MODULE WebConsole -----------------------------
(***************************************************************************)
(* The web console beside the command line: WebApp starts one run at a     *)
(* time, each a thread that calls optimize() in a directory named after    *)
(* the second of its start, and run_snapshot() puts together what a        *)
(* browser sees of a directory from files that others are writing. The     *)
(* server may die, with its threads, and be started again.                 *)
(***************************************************************************)
EXTENDS RunDirectory

CONSTANTS
  Web,            (* the calls of optimize() that are threads of a server  *)
  RunsRoot,       (* the directories that strftime() may name: two starts  *)
                  (* within a second are in the same one                   *)
  Form            (* the configurations that the console's form expresses  *)

ASSUME WebAssumption == Web \subseteq Proc
ASSUME RootAssumption == RunsRoot \subseteq Dir /\ Form \subseteq Config

VARIABLES
  up,             (* the server runs                                       *)
  view            (* a snapshot being taken                                *)

webVars == <<up, view>>
vars == <<dirVars, webVars>>

NoView == [at |-> "none", dir |-> CHOOSE d \in Dir : TRUE, report |-> FALSE, error |-> FALSE,
           true |-> {}]

(* What the files of a directory say at one instant.                       *)
Durable(d) ==
  CASE dir[d].report # Nobody -> "finished"
    [] dir[d].report = Nobody /\ dir[d].journal # <<>> -> "running"
    [] dir[d].report = Nobody /\ dir[d].journal = <<>> /\ dir[d].error # Nobody -> "infra_error"
    [] OTHER -> "unknown"

Init ==
  /\ DirInit
  /\ up = TRUE
  /\ view = NoView

(* Whoever acts, the reader's history of what was true grows.              *)
Meanwhile ==
  view' = IF view.at = "none" THEN view
          ELSE [view EXCEPT !.true = @ \cup {Durable(d)' : d \in {view.dir}}]

-----------------------------------------------------------------------------
(* start_run and the thread it starts.                                     *)

active_run_id == {w \in Web : proc[w].phase \notin Over}

(* Under WebApp._lock. The directory may be there already: a second names  *)
(* all the runs that start in it.                                          *)
StartRun(w, d, c) ==
  /\ up /\ proc[w].phase = "idle"
  /\ active_run_id = {}
  /\ dir' = [dir EXCEPT ![d].made = TRUE, ![d].job = w]
  /\ proc' = [proc EXCEPT ![w] = [Called("fresh", d, c) EXCEPT !.phase = "starting"]]
  /\ UNCHANGED up /\ Meanwhile

(* build_generator: a client with the given key, or with the one of the    *)
(* environment, or a fixture; or an exception.                             *)
BuildGenerator(w) ==
  /\ proc[w].phase = "starting"
  /\ To(w, "called") \/ To(w, "failed")
  /\ UNCHANGED <<dir, up>> /\ Meanwhile

(* Mutant: only what the run raises is explained, not that it was refused. *)
ExplainFailed(w) ==
  /\ proc[w].phase = "failed"
  /\ dir' = [dir EXCEPT ![proc[w].dir].error = w]
  /\ To(w, "explained")
  /\ UNCHANGED up /\ Meanwhile

(* The except of _run_job: error.txt is the job's error channel.           *)
Explain(w) ==
  /\ proc[w].phase \in {"refused", "failed"}
  /\ dir' = [dir EXCEPT ![proc[w].dir].error = w]
  /\ To(w, "explained")
  /\ UNCHANGED up /\ Meanwhile

ThreadStep(w) ==
  \/ BuildGenerator(w) \/ Explain(w)
  \/ Step(w) /\ UNCHANGED up /\ Meanwhile

(* The threads are daemons: they go with the server, and so do their locks. *)
ServerDies ==
  /\ up /\ up' = FALSE
  /\ proc' = [p \in Proc |-> IF p \in active_run_id
                             THEN [proc[p] EXCEPT !.phase = "dead"] ELSE proc[p]]
  /\ dir' = [d \in Dir |-> IF dir[d].holder \in active_run_id
                           THEN [dir[d] EXCEPT !.holder = Nobody] ELSE dir[d]]
  /\ view' = NoView

ServerStarts ==
  /\ ~up /\ up' = TRUE
  /\ UNCHANGED dirVars /\ Meanwhile

-----------------------------------------------------------------------------
(* run_snapshot: report, then error.txt, then the journal.                 *)

Ask(d) ==
  /\ up /\ view.at = "none" /\ dir[d].made
  /\ view' = [NoView EXCEPT !.at = "report", !.dir = d, !.true = {Durable(d)}]
  /\ UNCHANGED <<dirVars, up>>

ReadReport ==
  /\ view.at = "report"
  /\ view' = [view EXCEPT !.at = "error", !.report = dir[view.dir].report # Nobody]
  /\ UNCHANGED <<dirVars, up>>

ReadError ==
  /\ view.at = "error"
  /\ view' = [view EXCEPT !.at = "journal", !.error = dir[view.dir].error # Nobody]
  /\ UNCHANGED <<dirVars, up>>

(* Mutant: an error.txt counts even beside a report.                       *)
AnswerErrorFirst(journaled) ==
  IF view.error THEN "infra_error"
  ELSE IF view.report THEN "finished"
  ELSE IF journaled THEN "running" ELSE "unknown"

(* A report decides; without one a journal means a run that is live or     *)
(* was interrupted, even if there is an error.txt.                         *)
Answer(journaled) ==
  IF view.report THEN "finished"
  ELSE IF journaled THEN "running"
  ELSE IF view.error THEN "infra_error" ELSE "unknown"

ReadJournal ==
  /\ view.at = "journal"
  /\ view' = NoView
  /\ UNCHANGED <<dirVars, up>>

-----------------------------------------------------------------------------
CommandLine(p) ==
  /\ (\E d \in Dir : Call(p, d)) \/ Step(p) \/ Die(p)
  /\ UNCHANGED up /\ Meanwhile

Next ==
  \/ \E w \in Web, d \in RunsRoot, c \in Form : StartRun(w, d, c)
  \/ \E w \in Web : ThreadStep(w)
  \/ \E p \in Proc \ Web : CommandLine(p)
  \/ ServerDies \/ ServerStarts
  \/ (\E d \in RunsRoot : Ask(d)) \/ ReadReport \/ ReadError \/ ReadJournal

(* A thread that can go on does; nothing makes a user act.               *)
Spec == Init /\ [][Next]_vars /\ \A w \in Web : WF_vars(ThreadStep(w))

-----------------------------------------------------------------------------
(* run_snapshot is "the UI's only source of truth", read piece by piece    *)
(* while processes write: the state it answers was the state of the files  *)
(* at some instant between the question and the answer.                    *)
AnswerWasTrue ==
  [][ReadJournal => Answer(dir[view.dir].journal # <<>>) \in view.true]_vars

(* A job that was started ends in a report or in error.txt, unless the     *)
(* server dies with it: no thread is lost without a word.                  *)
JobSettles ==
  \A w \in Web :
    proc[w].phase = "starting" ~>
      \/ proc[w].phase = "dead"
      \/ w \in {dir[proc[w].dir].report, dir[proc[w].dir].error}
=============================================================================
