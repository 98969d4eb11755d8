-------------------------- MODULE ContainerWorker --------------------------
(***************************************************************************)
(* One call of execute_container: from the checks of the request to the    *)
(* removal of the container, with everything that moves while it runs. The *)
(* parent polls; the docker client is a process of its own; the daemon     *)
(* creates, starts and stops the container on its own time; the payload    *)
(* writes its result and may exceed its limits, run for ever or exit at    *)
(* any moment; the deadline passes and the cancel event is set whenever    *)
(* they like.                                                              *)
(*                                                                         *)
(* Every docker command of the parent may be carried out, be refused (a    *)
(* return code other than 0) or time out (subprocess.TimeoutExpired), and  *)
(* one that times out may have been carried out nonetheless.               *)
(***************************************************************************)
EXTENDS Naturals

(* Lapses: what docker may get wrong on top of that. "inspect": inspect    *)
(* fails for a container that exists (the daemon does not answer, the      *)
(* socket is gone). "late": the daemon acts on a request of a docker       *)
(* client that has been killed since.                                      *)
CONSTANTS
  Lapses,
  Cancels     (* whether the caller passes a cancel_event                  *)

ASSUME LapsesAssumption == Lapses \subseteq {"inspect", "late"}
ASSUME CancelsAssumption == Cancels \in BOOLEAN

VARIABLES
  container,  (* what the daemon has under container_name                  *)
  ended,      (* how its main process ended                                *)
  excess,     (* limits the payload has exceeded                           *)
  result,     (* the result file it has written to /out                    *)
  client,     (* the docker run process                                    *)
  asked,      (* its request the daemon has not acted on yet               *)
  clientExit, (* its return code                                           *)
  expired,    (* the deadline of _monitor has passed                       *)
  cancelled,  (* cancel_event is set                                       *)
  pc,         (* where execute_container is                                *)
  verdict,    (* what _monitor returned                                    *)
  status,     (* WorkerOutcome.status                                      *)
  exit,       (* WorkerOutcome.exit_code                                   *)
  killed,     (* WorkerOutcome.killed                                      *)
  workdir,    (* the private work directory exists                         *)
  reclaimed,  (* record["reclaimed"]                                       *)
  misled      (* history: the lapses that undid the confirmation; nothing  *)
              (* reads it                                                  *)

payloadVars == <<ended, excess, result>>
clientVars == <<client, asked, clientExit>>
clockVars == <<expired, cancelled>>
outcomeVars == <<verdict, status, exit, killed, workdir, reclaimed>>
worldVars == <<container, payloadVars, clientVars, clockVars>>
workerVars == <<worldVars, pc, outcomeVars, misled>>

Exit == {"none", "zero", "nonzero"}

Status == {"completed", "failed", "timeout", "infra_error"}

Phase == {"preflight", "measuring", "polling", "killing", "waiting",
          "inspecting", "checking", "removing", "confirming", "returned"}

WorkerInit ==
  /\ container = "absent" /\ ended = "none"
  /\ excess = {} /\ result = "missing"
  /\ client = "none" /\ asked = "none" /\ clientExit = "none"
  /\ expired = FALSE /\ cancelled = FALSE
  /\ pc = "preflight"
  /\ verdict = "none" /\ status = "infra_error" /\ exit = "none"
  /\ killed = FALSE /\ workdir = FALSE /\ reclaimed = "unknown"
  /\ misled = {}

-----------------------------------------------------------------------------
(* The daemon, the docker client and the payload.                          *)
Heard == client = "running" \/ "late" \in Lapses

(* The two requests of docker run. A client that is gone asks nothing more. *)
Create ==
  /\ asked = "create" /\ Heard
  /\ container' = "created"
  /\ asked' = IF client = "running" THEN "start" ELSE "none"
  /\ misled' = IF client = "gone" /\ pc = "returned" THEN misled \cup {"late"} ELSE misled
  /\ UNCHANGED <<payloadVars, client, clientExit, clockVars, pc, outcomeVars>>

StartContainer ==
  /\ asked = "start" /\ Heard
  /\ container = "created"
  /\ container' = "running"
  /\ asked' = "none"
  /\ UNCHANGED <<payloadVars, client, clientExit, clockVars, pc, outcomeVars>>

(* The client exits with a code of its own: its request is refused, or it  *)
(* loses the daemon while the container goes on.                           *)
ClientFails ==
  /\ client = "running"
  /\ client' = "gone" /\ clientExit' = "nonzero" /\ asked' = "none"
  /\ UNCHANGED <<container, payloadVars, clockVars, pc, outcomeVars>>

(* The container has stopped and the client passes its exit code on.       *)
ClientReturns ==
  /\ client = "running" /\ asked = "none" /\ container = "stopped"
  /\ client' = "gone" /\ clientExit' = ended
  /\ UNCHANGED <<container, payloadVars, asked, clockVars, pc, outcomeVars>>

(* The driver in the container writes its verdict when it has one: first a *)
(* file that does not parse yet, then all of it.                           *)
WriteResult ==
  /\ container = "running"
  /\ \/ result = "missing" /\ result' = "partial"
     \/ result = "partial" /\ result' \in {"fail", "pass"}
  /\ UNCHANGED <<container, ended, excess, clientVars, clockVars, pc, outcomeVars>>

Exceed ==
  /\ container = "running"
  /\ \E limit \in {"log", "output"} \ excess : excess' = excess \cup {limit}
  /\ UNCHANGED <<container, ended, result, clientVars, clockVars, pc, outcomeVars>>

PayloadExits ==
  /\ container = "running"
  /\ container' = "stopped" /\ ended' \in {"zero", "nonzero"}
  /\ UNCHANGED <<excess, result, clientVars, clockVars, pc, outcomeVars>>

Expire ==
  /\ client # "none" /\ ~expired
  /\ expired' = TRUE
  /\ UNCHANGED <<container, payloadVars, clientVars, cancelled, pc, outcomeVars>>

Cancel ==
  /\ Cancels /\ ~cancelled
  /\ cancelled' = TRUE
  /\ UNCHANGED <<container, payloadVars, clientVars, expired, pc, outcomeVars>>

Environment ==
  \/ Create
  \/ /\ \/ StartContainer \/ ClientFails \/ ClientReturns
        \/ WriteResult \/ Exceed \/ PayloadExits \/ Expire \/ Cancel
     /\ UNCHANGED misled

-----------------------------------------------------------------------------
(* The parent. Any exception of the body leaves infra_error and goes on    *)
(* with the reclamation.                                                   *)
Infra ==
  /\ status' = "infra_error"
  /\ pc' = "checking"

(* Before the client is started: a mount source outside the workspace, no  *)
(* docker, no image, no answer, no work directory; or Popen itself fails.  *)
Refuse ==
  /\ pc = "preflight"
  /\ Infra
  /\ workdir' \in BOOLEAN
  /\ UNCHANGED <<worldVars, verdict, exit, killed, reclaimed>>

Start ==
  /\ pc = "preflight"
  /\ client' = "running" /\ asked' = "create"
  /\ workdir' = TRUE
  /\ pc' = "measuring"
  /\ UNCHANGED <<container, payloadVars, clientExit, clockVars,
                 verdict, status, exit, killed, reclaimed>>

(* One round of _monitor: cancel, logs and output are looked at first, the *)
(* client and the clock afterwards.                                        *)
Breach ==
  IF cancelled THEN "cancelled"
  ELSE IF "log" \in excess THEN "log_limit"
  ELSE IF "output" \in excess THEN "output_limit" ELSE "none"

Measure ==
  /\ pc = "measuring"
  /\ verdict' = Breach
  /\ pc' = IF Breach = "none" THEN "polling" ELSE "killing"
  /\ UNCHANGED <<worldVars, status, exit, killed, workdir, reclaimed>>

PollExited ==
  /\ pc = "polling" /\ client = "gone"
  /\ verdict' = "completed" /\ exit' = clientExit
  /\ status' = IF clientExit = "zero" THEN "completed" ELSE "failed"
  /\ pc' = "inspecting"
  /\ UNCHANGED <<worldVars, killed, workdir, reclaimed>>

(* Mutant: the budget counts from the start of the container.              *)
PollExpiredOnceStarted ==
  /\ pc = "polling" /\ client = "running" /\ expired
  /\ container \in {"running", "stopped"}
  /\ verdict' = "timeout"
  /\ pc' = "killing"
  /\ UNCHANGED <<worldVars, status, exit, killed, workdir, reclaimed>>

PollExpired ==
  /\ pc = "polling" /\ client = "running" /\ expired
  /\ verdict' = "timeout"
  /\ pc' = "killing"
  /\ UNCHANGED <<worldVars, status, exit, killed, workdir, reclaimed>>

PollAgain ==
  /\ pc = "polling" /\ client = "running" /\ ~expired
  /\ pc' = "measuring"
  /\ UNCHANGED <<worldVars, outcomeVars>>

StopContainer == container' = "stopped" /\ ended' = "nonzero"

(* docker kill is carried out, refused, or does not answer in time.        *)
Kill ==
  /\ pc = "killing"
  /\ \/ container = "running" /\ StopContainer
        /\ killed' = TRUE /\ pc' = "waiting" /\ UNCHANGED status
     \/ UNCHANGED <<container, ended, status>>
        /\ killed' = FALSE /\ pc' = "waiting"
  /\ UNCHANGED <<excess, result, clientVars, clockVars, verdict, exit, workdir, reclaimed>>

KillTimesOut ==
  /\ pc = "killing"
  /\ \/ container = "running" /\ StopContainer
     \/ UNCHANGED <<container, ended>>
  /\ Infra
  /\ UNCHANGED <<excess, result, clientVars, clockVars, verdict, exit, killed, workdir, reclaimed>>

StatusOf(breach) == IF breach \in {"timeout", "cancelled"} THEN "timeout" ELSE "failed"

(* Mutant: the exit code decides, as after an undisturbed run.             *)
WaitForExitCode ==
  /\ pc = "waiting"
  /\ \/ client = "gone" /\ UNCHANGED <<client, clientExit>>
     \/ client = "running" /\ client' = "gone" /\ clientExit' = "nonzero"
  /\ exit' = clientExit'
  /\ status' = IF clientExit' = "zero" THEN "completed" ELSE StatusOf(verdict)
  /\ pc' = "inspecting"
  /\ UNCHANGED <<container, payloadVars, asked, clockVars, verdict, killed, workdir, reclaimed>>

(* Mutant: a client that does not come back in time is left to itself.     *)
WaitForClientOnce ==
  /\ pc = "waiting"
  /\ exit' = clientExit
  /\ status' = StatusOf(verdict)
  /\ pc' = "inspecting"
  /\ UNCHANGED <<worldVars, verdict, killed, workdir, reclaimed>>

(* The client is waited for, killed if it does not come back, and waited   *)
(* for again.                                                              *)
WaitForClient ==
  /\ pc = "waiting"
  /\ \/ client = "gone" /\ UNCHANGED <<client, clientExit>>
     \/ client = "running" /\ client' = "gone" /\ clientExit' = "nonzero"
  /\ exit' = clientExit'
  /\ status' = StatusOf(verdict)
  /\ pc' = "inspecting"
  /\ UNCHANGED <<container, payloadVars, asked, clockVars, verdict, killed, workdir, reclaimed>>

WaitInVain ==
  /\ pc = "waiting" /\ client = "running"
  /\ Infra
  /\ UNCHANGED <<worldVars, verdict, exit, killed, workdir, reclaimed>>

(* The state of the container only goes into the record and the notes; the *)
(* memory verdict finds a client that exited with another code than 0,     *)
(* whose status is not completed any more.                                 *)
InspectState ==
  /\ pc = "inspecting"
  /\ \/ pc' = "checking" /\ UNCHANGED status
     \/ Infra
  /\ UNCHANGED <<worldVars, verdict, exit, killed, workdir, reclaimed>>

(* The finally block: container_exists, remove_container, container_exists *)
(* again. container_exists is the return code of inspect.                  *)
Exists == container # "absent"

MayMiss == container = "absent" \/ "inspect" \in Lapses

Return(reclaim) ==
  /\ reclaimed' = reclaim
  /\ status' = IF reclaim = "no" THEN "infra_error" ELSE status
  /\ pc' = "returned"
  /\ UNCHANGED <<verdict, exit, killed, workdir>>

Check ==
  /\ pc = "checking"
  /\ \/ Exists /\ pc' = "removing" /\ UNCHANGED outcomeVars
     \/ MayMiss /\ pc' = "confirming" /\ UNCHANGED outcomeVars
     \/ Return("no")
  /\ UNCHANGED worldVars

(* remove_container: its return code is not looked at.                     *)
Remove ==
  /\ pc = "removing"
  /\ \/ container' = "absent"
        /\ ended' = IF container = "running" THEN "nonzero" ELSE ended
     \/ UNCHANGED <<container, ended>>
  /\ \/ pc' = "confirming" /\ UNCHANGED outcomeVars
     \/ Return("no")
  /\ UNCHANGED <<excess, result, clientVars, clockVars>>

Confirm ==
  /\ pc = "confirming"
  /\ \/ Exists /\ Return("no") /\ UNCHANGED misled
     \/ /\ MayMiss /\ Return("yes")
        /\ misled' = IF Exists THEN misled \cup {"inspect"} ELSE misled
     \/ Return("no") /\ UNCHANGED misled
  /\ UNCHANGED worldVars

Parent ==
  \/ /\ \/ Refuse \/ Start \/ Measure \/ PollExited \/ PollExpired \/ PollAgain
        \/ Kill \/ KillTimesOut \/ WaitForClient \/ WaitInVain \/ InspectState
        \/ Check \/ Remove
     /\ UNCHANGED misled
  \/ Confirm

WorkerNext == Parent \/ Environment

-----------------------------------------------------------------------------
TypeOK ==
  /\ container \in {"absent", "created", "running", "stopped"}
  /\ ended \in Exit
  /\ excess \subseteq {"log", "output"}
  /\ result \in {"missing", "partial", "fail", "pass"}
  /\ client \in {"none", "running", "gone"}
  /\ asked \in {"none", "create", "start"}
  /\ clientExit \in Exit
  /\ expired \in BOOLEAN /\ cancelled \in BOOLEAN
  /\ pc \in Phase
  /\ verdict \in {"none", "completed", "timeout", "cancelled", "log_limit", "output_limit"}
  /\ status \in Status
  /\ exit \in Exit
  /\ killed \in BOOLEAN /\ workdir \in BOOLEAN
  /\ reclaimed \in {"unknown", "yes", "no"}
  /\ misled \subseteq {"inspect", "late"}

(* Whoever gets an outcome other than infra_error may take the container   *)
(* for gone, now and later, however the kill raced its start and its end:  *)
(* nothing the parent left behind can bring it back. If it is there, then  *)
(* docker denied it in the very inspect that confirms the removal, or      *)
(* created it for a client that was dead when the call returned.           *)
OutcomeMeansGone ==
  pc = "returned" /\ status # "infra_error" /\ container # "absent" => misled # {}

(* "Removal is confirmed via inspect" (container.py:23): an outcome other  *)
(* than infra_error is that of a container that is gone. container_exists  *)
(* takes every failure of inspect for absence.                             *)
RemovalIsConfirmed ==
  pc = "returned" /\ status # "infra_error" => container = "absent"

(* "A failed reclamation is reported, never claimed clean"                 *)
(* (container.py:24): no record says reclaimed of a container that is      *)
(* there. When docker kill times out, the docker client lives on, and      *)
(* creates the container when its absence is on record.                    *)
NeverClaimedClean ==
  pc = "returned" /\ reclaimed = "yes" => container = "absent"

(* A completed outcome was earned by the payload: it ran to its end inside *)
(* the container, exited with 0 by itself, nobody killed it and no breach  *)
(* was seen, whatever raced its last moments.                              *)
CompletedRanToItsEnd ==
  pc = "returned" /\ status = "completed" =>
    /\ ended = "zero" /\ exit = "zero"
    /\ ~killed /\ verdict = "completed"
    /\ workdir /\ reclaimed = "yes"

=============================================================================
