--------------------------- MODULE ProcessWorker ---------------------------
(***************************************************************************)
(* One call of worker.process.execute(): a payload in a child process      *)
(* with a private directory, on Linux in a session of its own, on Windows  *)
(* in a Job Object. The payload starts other processes, hangs, dies when   *)
(* it likes; every step of the parent may fail. What is at stake is that   *)
(* an outcome other than infra_error leaves none of them behind.           *)
(***************************************************************************)
EXTENDS FiniteSets

CONSTANTS Kid     (* the processes that the payload may start               *)

ASSUME KidAssumption == IsFiniteSet(Kid)

VARIABLES
  platform,       (* "linux" or "win32"                                     *)
  payload,        (* the direct child: at, own exit code, root, ran         *)
  kid,            (* where each descendant is                               *)
  job,            (* the Job Object: "none", "open", "unclosed", "closed"   *)
  attributed,     (* the payload belongs to the job                         *)
  phase,          (* where execute() is                                     *)
  out,            (* status, exit_code and killed of the outcome            *)
  workdir         (* "none", "made", "deleted", "kept"                      *)

world == <<payload, kid>>
vars == <<platform, payload, kid, job, attributed, phase, out, workdir>>

Windows == platform = "win32"
Linux == platform = "linux"
NoCode == "None"
Status == {"completed", "failed", "timeout", "infra_error"}
Alive == payload.at \in {"suspended", "running", "dying"}

TypeOK ==
  /\ platform \in {"linux", "win32"}
  /\ payload \in [at : {"none", "suspended", "running", "dying", "exited", "reaped"},
                  code : {NoCode, "zero", "nonzero", "killed"}, root : BOOLEAN, ran : BOOLEAN]
  /\ kid \in [Kid -> {"none", "group", "root", "escaped", "gone"}]
  /\ job \in {"none", "open", "unclosed", "closed"} /\ attributed \in BOOLEAN
  /\ phase \in {"job", "prepare", "start", "assign", "unassigned", "resume", "wait", "kill",
                "taskkill", "wait30", "kill again", "wait60", "reap", "raise", "tails",
                "finally", "last wait", "close", "clean", "returned"}
  /\ out \in [status : Status, code : {NoCode, "zero", "nonzero", "killed"},
              killed : BOOLEAN, reclaimed : BOOLEAN, raising : BOOLEAN]
  /\ workdir \in {"none", "made", "deleted", "kept"}

Init ==
  /\ platform \in {"linux", "win32"}
  /\ payload = [at |-> "none", code |-> NoCode, root |-> FALSE, ran |-> FALSE]
  /\ kid = [k \in Kid |-> "none"]
  /\ job = "none" /\ attributed = FALSE
  /\ phase = "job"
  /\ out = [status |-> "infra_error", code |-> NoCode, killed |-> FALSE,
            reclaimed |-> FALSE, raising |-> FALSE]
  /\ workdir = "none"

-----------------------------------------------------------------------------
(* The payload and what it starts. A Linux process may leave the group     *)
(* with setsid(), or run a setuid program that the parent may not signal;  *)
(* in the job of a Windows payload it can do neither. Neither is undone:   *)
(* sessions are not joined, and what a setuid program starts is like it.   *)

Parents == {k \in Kid : kid[k] \in {"group", "root", "escaped"}}

Kinds(parent) ==
  CASE parent = "group" -> IF Linux THEN {"group", "root", "escaped"} ELSE {"group"}
    [] parent = "root" -> {"root", "escaped"}
    [] parent = "escaped" -> {"escaped"}

Fork(k) ==
  /\ kid[k] = "none"
  /\ \E parent \in {kid[j] : j \in Parents} \cup
                     IF payload.at # "running" THEN {}
                     ELSE IF payload.root THEN {"root"} ELSE {"group"} :
       \E w \in Kinds(parent) : kid' = [kid EXCEPT ![k] = w]
  /\ UNCHANGED payload

KidExits(k) ==
  /\ k \in Parents /\ kid' = [kid EXCEPT ![k] = "gone"]
  /\ UNCHANGED payload

(* The exec of a setuid program by the payload itself.                     *)
BecomesRoot ==
  /\ Linux /\ payload.at = "running" /\ ~payload.root
  /\ payload' = [payload EXCEPT !.root = TRUE]
  /\ UNCHANGED kid

PayloadExits ==
  /\ \/ /\ payload.at = "running"
        /\ \E c \in {"zero", "nonzero"} : payload' = [payload EXCEPT !.at = "exited", !.code = c]
     \/ /\ payload.at = "dying"
        /\ payload' = [payload EXCEPT !.at = "exited", !.code = "killed"]
  /\ UNCHANGED kid

Environment ==
  /\ (\E k \in Kid : Fork(k) \/ KidExits(k)) \/ BecomesRoot \/ PayloadExits
  /\ UNCHANGED <<platform, job, attributed, phase, out, workdir>>

-----------------------------------------------------------------------------
(* Signals. The kernel delivers to the members that it may deliver to, and *)
(* refuses only when there is none.                                        *)

Doomed == IF payload.at \in {"suspended", "running"}
          THEN [payload EXCEPT !.at = "dying"] ELSE payload

Signalled == [k \in Kid |-> IF kid[k] = "group" THEN "gone" ELSE kid[k]]

Refused == payload.root /\ \A k \in Kid : kid[k] # "group"

(* os.killpg(pgid, SIGKILL). A child that was not waited for is a member.   *)
KillGroup ==
  /\ kid' = Signalled
  /\ payload' = IF payload.root THEN payload ELSE Doomed

(* TerminateJobObject and the close of its last handle.                    *)
KillJob == kid' = Signalled /\ payload' = Doomed

-----------------------------------------------------------------------------
(* execute().                                                              *)

To(p) == phase' = p
Raise == To("finally") /\ out' = [out EXCEPT !.status = "infra_error", !.raising = TRUE]

(* _WindowsJob(): without a job the payload is refused.                    *)
CreateJob ==
  /\ phase = "job"
  /\ \/ Linux /\ To("prepare") /\ UNCHANGED <<job, out>>
     \/ Windows /\ job' = "open" /\ To("prepare") /\ UNCHANGED out
     \/ Windows /\ Raise /\ UNCHANGED job
  /\ UNCHANGED <<platform, world, attributed, workdir>>

(* Environment, private directory, log files.                              *)
Prepare ==
  /\ phase = "prepare"
  /\ \/ workdir' = "made" /\ To("start") /\ UNCHANGED out
     \/ workdir' \in {"none", "made"} /\ Raise
  /\ UNCHANGED <<platform, world, job, attributed>>

(* Mutant: the payload of Windows runs from the start.                     *)
StartRunning ==
  /\ phase = "start"
  /\ \/ /\ payload' = [payload EXCEPT !.at = "running", !.ran = TRUE]
        /\ To(IF Windows THEN "assign" ELSE "wait") /\ UNCHANGED out
     \/ Raise /\ UNCHANGED payload
  /\ UNCHANGED <<platform, kid, job, attributed, workdir>>

(* Popen, on Windows with CREATE_SUSPENDED. On Linux getpgid() answers for *)
(* a child that has exited, so the group is always known.                  *)
Start ==
  /\ phase = "start"
  /\ \/ /\ payload' = [payload EXCEPT !.at = IF Windows THEN "suspended" ELSE "running",
                                      !.ran = Linux]
        /\ To(IF Windows THEN "assign" ELSE "wait") /\ UNCHANGED out
     \/ Raise /\ UNCHANGED payload
  /\ UNCHANGED <<platform, kid, job, attributed, workdir>>

Assign ==
  /\ phase = "assign"
  /\ \/ attributed' = TRUE /\ To("resume") /\ UNCHANGED payload
     \/ attributed' = FALSE /\ To("unassigned") /\ payload' = Doomed
  /\ UNCHANGED <<platform, kid, job, out, workdir>>

(* kill, wait(30), raise: the wait itself may time out, with the same end. *)
Unassigned ==
  /\ phase = "unassigned"
  /\ Raise
  /\ payload' = IF payload.at = "exited" THEN [payload EXCEPT !.at = "reaped"] ELSE payload
  /\ UNCHANGED <<platform, kid, job, attributed, workdir>>

Resume ==
  /\ phase = "resume"
  /\ \/ /\ payload' = IF payload.at = "suspended"
                      THEN [payload EXCEPT !.at = "running", !.ran = TRUE] ELSE payload
        /\ To("wait") /\ UNCHANGED out
     \/ payload' = Doomed /\ Raise
  /\ UNCHANGED <<platform, kid, job, attributed, workdir>>

Reaped == [payload EXCEPT !.at = "reaped"]

(* process.wait(timeout): the clock may run out as the payload exits.      *)
WaitReturns ==
  /\ phase = "wait" /\ payload.at = "exited"
  /\ payload' = Reaped
  /\ out' = [out EXCEPT !.code = payload.code,
                        !.status = IF payload.code = "zero" THEN "completed" ELSE "failed"]
  /\ To("reap")
  /\ UNCHANGED <<platform, kid, job, attributed, workdir>>

TimeoutExpires ==
  /\ phase = "wait"
  /\ out' = [out EXCEPT !.killed = TRUE, !.status = "timeout"]
  /\ To("kill")
  /\ UNCHANGED <<platform, world, job, attributed, workdir>>

(* job.terminate(), or the process group.                                  *)
Kill ==
  /\ phase = "kill"
  /\ \/ /\ Windows
        /\ \/ KillJob /\ out' = [out EXCEPT !.reclaimed = TRUE] /\ To("wait30")
           \/ UNCHANGED <<world, out>> /\ To("taskkill")
     \/ /\ Linux /\ KillGroup
        /\ out' = [out EXCEPT !.reclaimed = ~Refused] /\ To("wait30")
  /\ UNCHANGED <<platform, job, attributed, workdir>>

(* taskkill /T follows the parents that are alive: orphans are missed.     *)
TaskKill ==
  /\ phase = "taskkill"
  /\ \/ /\ payload' = Doomed
        /\ \E S \in SUBSET {k \in Kid : kid[k] = "group"} :
             kid' = [k \in Kid |-> IF k \in S THEN "gone" ELSE kid[k]]
        /\ out' = [out EXCEPT !.reclaimed = TRUE]
     \/ UNCHANGED <<world, out>>
  /\ To("wait30")
  /\ UNCHANGED <<platform, job, attributed, workdir>>

(* Mutant: the exit code decides, as it does without a timeout.            *)
AfterKillByCode ==
  /\ payload.at = "exited" /\ payload' = Reaped
  /\ out' = [out EXCEPT !.code = payload.code, !.raising = ~out.reclaimed,
                        !.status = IF payload.code = "zero" THEN "completed" ELSE "timeout"]
  /\ To("reap")

(* The second wait returned: a tree that was not reclaimed is an error.    *)
AfterKill ==
  /\ payload.at = "exited" /\ payload' = Reaped
  /\ out' = [out EXCEPT !.code = payload.code, !.raising = ~out.reclaimed]
  /\ To("reap")

(* Mutant: the wait after the kill has no limit.                           *)
Wait30Unbounded ==
  /\ phase = "wait30"
  /\ AfterKill
  /\ UNCHANGED <<platform, kid, job, attributed, workdir>>

Wait30 ==
  /\ phase = "wait30"
  /\ \/ AfterKill
     \/ To("kill again") /\ UNCHANGED <<payload, out>>
  /\ UNCHANGED <<platform, kid, job, attributed, workdir>>

KillAgain ==
  /\ phase = "kill again"
  /\ IF payload.root /\ payload.at # "exited"
     THEN out' = [out EXCEPT !.raising = TRUE] /\ To("reap") /\ UNCHANGED payload
     ELSE payload' = Doomed /\ To("wait60") /\ UNCHANGED out
  /\ UNCHANGED <<platform, kid, job, attributed, workdir>>

Wait60 ==
  /\ phase = "wait60"
  /\ \/ AfterKill
     \/ out' = [out EXCEPT !.raising = TRUE] /\ To("reap") /\ UNCHANGED payload
  /\ UNCHANGED <<platform, kid, job, attributed, workdir>>

(* Mutant: the group is killed after a timeout only.                       *)
ReapOnTimeout ==
  /\ phase = "reap"
  /\ IF Linux /\ out.killed THEN KillGroup ELSE UNCHANGED world
  /\ IF out.raising THEN Raise ELSE To("tails") /\ UNCHANGED out
  /\ UNCHANGED <<platform, job, attributed, workdir>>

(* The inner finally: best effort, whatever happened before it.            *)
Reap ==
  /\ phase = "reap"
  /\ IF Linux THEN KillGroup ELSE UNCHANGED world
  /\ IF out.raising THEN Raise ELSE To("tails") /\ UNCHANGED out
  /\ UNCHANGED <<platform, job, attributed, workdir>>

ReadTails ==
  /\ phase = "tails"
  /\ \/ Raise
     \/ To("finally") /\ UNCHANGED out
  /\ UNCHANGED <<platform, world, job, attributed, workdir>>

(* The outer finally: a child that is still there is killed and waited for. *)
Finally ==
  /\ phase = "finally"
  /\ IF Alive
     THEN IF payload.root
          THEN out' = [out EXCEPT !.status = "infra_error"] /\ To("close") /\ UNCHANGED payload
          ELSE payload' = Doomed /\ out' = [out EXCEPT !.killed = TRUE] /\ To("last wait")
     ELSE /\ payload' = IF payload.at = "exited" THEN Reaped ELSE payload
          /\ To("close") /\ UNCHANGED out
  /\ UNCHANGED <<platform, kid, job, attributed, workdir>>

LastWait ==
  /\ phase = "last wait"
  /\ \/ /\ payload.at = "exited" /\ payload' = Reaped
        /\ out' = [out EXCEPT !.code = payload.code]
     \/ out' = [out EXCEPT !.status = "infra_error"] /\ UNCHANGED payload
  /\ To("close")
  /\ UNCHANGED <<platform, kid, job, attributed, workdir>>

(* KILL_ON_JOB_CLOSE: with the handle goes whatever was missed.            *)
CloseJob ==
  /\ phase = "close"
  /\ \/ job # "open" /\ UNCHANGED <<world, job, out>>
     \/ /\ job = "open" /\ job' = "closed" /\ UNCHANGED out
        /\ IF attributed THEN KillJob ELSE UNCHANGED world
     \/ /\ job = "open" /\ job' = "unclosed"
        /\ out' = [out EXCEPT !.status = "infra_error"] /\ UNCHANGED world
  /\ To("clean")
  /\ UNCHANGED <<platform, attributed, workdir>>

(* keep_workdir_on_failure, or rmtree, which may not succeed.              *)
Clean ==
  /\ phase = "clean"
  /\ workdir' \in IF workdir = "none" THEN {"none"} ELSE {"deleted", "kept"}
  /\ To("returned")
  /\ UNCHANGED <<platform, world, job, attributed, out>>

Parent ==
  \/ CreateJob \/ Prepare \/ Start \/ Assign \/ Unassigned \/ Resume
  \/ WaitReturns \/ TimeoutExpires \/ Kill \/ TaskKill \/ Wait30 \/ KillAgain \/ Wait60
  \/ Reap \/ ReadTails \/ Finally \/ LastWait \/ CloseJob \/ Clean

Next == Parent \/ Environment

(* Every wait of the parent has a limit: it goes on whatever the payload does. *)
Spec == Init /\ [][Next]_vars /\ WF_vars(Parent)

-----------------------------------------------------------------------------
(* An outcome other than infra_error is one of a payload that is gone, with *)
(* every process it started that is in its group or its job. What escaped  *)
(* with setsid() is documented to survive; what may not be signalled does. *)
NothingIsLeft ==
  phase = "returned" /\ out.status # "infra_error" =>
    payload.at = "reaped" /\ \A k \in Kid : kid[k] # "group"

(* On Windows no instruction of the payload runs outside the job, so that  *)
(* none of its children does: a failed attribution has left nothing.       *)
RunsInItsJob ==
  Windows /\ (payload.ran \/ \E k \in Kid : kid[k] # "none") => attributed /\ job # "none"

(* completed is earned: the payload exited with 0, by itself, within its   *)
(* time, and its logs were read.                                           *)
CompletedByItself ==
  phase = "returned" /\ out.status = "completed" =>
    payload.code = "zero" /\ ~out.killed /\ out.code = "zero" /\ ~out.raising

(* The caller gets its outcome, from a payload that ignores everything.    *)
CallReturns == <>(phase = "returned")
=============================================================================
