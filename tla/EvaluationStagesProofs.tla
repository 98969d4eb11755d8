----------------------- MODULE EvaluationStagesProofs -----------------------
(***************************************************************************)
(* What holds of a container and its stage, whatever docker gets wrong.    *)
(***************************************************************************)
EXTENDS EvaluationStages, TLAPS

(* The phases in order: before the monitor is left, and from then on until *)
(* the body is left.                                                       *)
Watching == {"preflight", "measuring", "polling"}

Body == {"measuring", "polling", "killing", "waiting", "inspecting"}

(* What the parent's place tells of the outcome so far.                    *)
OutcomeSoFar ==
  /\ pc = "preflight" => client = "none"
  /\ pc \in Watching \cup {"killing", "waiting"} => status = "infra_error"
  /\ pc \in Watching => ~killed
  /\ pc \in Body => workdir
  /\ pc # "returned" => reclaimed = "unknown"
  /\ pc = "returned" => reclaimed \in {"yes", "no"}
  /\ reclaimed = "no" => status = "infra_error"
  /\ pc \in {"killing", "waiting"} => verdict # "completed"

(* A client that exits with 0 passes on the exit code of the payload.      *)
ZeroIsEarned ==
  clientExit = "zero" =>
    /\ client = "gone"
    /\ ended = "zero" /\ asked = "none"
    /\ container \in {"stopped", "absent"}

(* A status other than infra_error was set when the client was gone.       *)
StatusIsEarned ==
  /\ status # "infra_error" => client = "gone"
  /\ status = "completed" =>
       /\ verdict = "completed"
       /\ exit = "zero" /\ clientExit = "zero"
       /\ ~killed /\ workdir

WorkerInv == TypeOK /\ OutcomeSoFar /\ ZeroIsEarned /\ StatusIsEarned

(* The initial state of a worker has the invariant.                        *)
LEMMA WorkerInvInit == WorkerInit => WorkerInv
  BY DEF WorkerInit, WorkerInv, TypeOK, OutcomeSoFar, ZeroIsEarned,
         StatusIsEarned, Exit, Phase, Status, Watching, Body

(* Docker, its client and the payload keep it, whatever docker's lapses.   *)
LEMMA EnvironmentKeeps == WorkerInv /\ Environment => WorkerInv'
<1> SUFFICES ASSUME WorkerInv, Environment PROVE WorkerInv'
  OBVIOUS
<1>0. misled' \subseteq {"inspect", "late"}
  BY DEF Environment, Create, WorkerInv, TypeOK
<1> USE DEF WorkerInv, TypeOK, OutcomeSoFar, ZeroIsEarned, StatusIsEarned,
            Exit, Phase, Status, Watching, Body
<1>1. CASE Create
  BY <1>0, <1>1 DEF Create, payloadVars, clockVars, outcomeVars
<1>2. CASE StartContainer
  BY <1>0, <1>2 DEF StartContainer, payloadVars, clockVars, outcomeVars
<1>3. CASE ClientFails
  BY <1>0, <1>3 DEF ClientFails, payloadVars, clockVars, outcomeVars
<1>4. CASE ClientReturns
  BY <1>0, <1>4 DEF ClientReturns, payloadVars, clockVars, outcomeVars
<1>5. CASE WriteResult
  BY <1>0, <1>5 DEF WriteResult, clientVars, clockVars, outcomeVars
<1>6. CASE Exceed
  BY <1>0, <1>6 DEF Exceed, clientVars, clockVars, outcomeVars
<1>7. CASE PayloadExits
  BY <1>0, <1>7 DEF PayloadExits, clientVars, clockVars, outcomeVars
<1>8. CASE Expire
  BY <1>0, <1>8 DEF Expire, payloadVars, clientVars, outcomeVars
<1>9. CASE Cancel
  BY <1>0, <1>9 DEF Cancel, payloadVars, clientVars, outcomeVars
<1>10. QED
  BY <1>1, <1>2, <1>3, <1>4, <1>5, <1>6, <1>7, <1>8, <1>9 DEF Environment

(* So does every step of execute_container.                                *)
LEMMA ParentKeeps == WorkerInv /\ Parent => WorkerInv'
<1> SUFFICES ASSUME WorkerInv, Parent PROVE WorkerInv'
  OBVIOUS
<1>0. misled' \subseteq {"inspect", "late"}
  BY DEF Parent, Confirm, WorkerInv, TypeOK
<1> USE DEF WorkerInv, TypeOK, OutcomeSoFar, ZeroIsEarned, StatusIsEarned,
            Exit, Phase, Status, Watching, Body,
            worldVars, payloadVars, clientVars, clockVars
<1>1. CASE Refuse
  BY <1>0, <1>1 DEF Refuse, Infra
<1>2. CASE Start
  BY <1>0, <1>2 DEF Start
<1>3. CASE Measure
  BY <1>0, <1>3 DEF Measure, Breach
<1>4. CASE PollExited
  BY <1>0, <1>4 DEF PollExited
<1>5. CASE PollExpired
  BY <1>0, <1>5 DEF PollExpired
<1>6. CASE PollAgain
  BY <1>0, <1>6 DEF PollAgain, outcomeVars
<1>7. CASE Kill
  <2>1. CASE StopContainer /\ container = "running" /\ killed' = TRUE /\ status' = status
    BY <1>0, <1>7, <2>1 DEF Kill, StopContainer
  <2>2. CASE UNCHANGED <<container, ended, status>> /\ killed' = FALSE
    <3>1. /\ pc = "killing" /\ pc' = "waiting"
          /\ UNCHANGED <<excess, result, client, asked, clientExit, expired,
                         cancelled, verdict, exit, workdir, reclaimed>>
      BY <1>0, <1>7 DEF Kill
    <3>2. TypeOK'
      <4>1. killed' \in BOOLEAN
        BY <2>2
      <4>2. /\ container' = container /\ ended' = ended /\ status' = status
            /\ excess' = excess /\ result' = result /\ client' = client
            /\ asked' = asked /\ clientExit' = clientExit /\ expired' = expired
            /\ cancelled' = cancelled /\ verdict' = verdict /\ exit' = exit
            /\ workdir' = workdir /\ reclaimed' = reclaimed
        BY <2>2, <3>1
      <4>3. QED
        BY <1>0, <3>1, <4>1, <4>2
    <3>3. OutcomeSoFar'
      BY <2>2, <3>1
    <3>4. ZeroIsEarned' /\ StatusIsEarned'
      BY <2>2, <3>1
    <3>5. QED
      BY <3>2, <3>3, <3>4
  <2>3. QED
    BY <1>7, <2>1, <2>2 DEF Kill
<1>8. CASE KillTimesOut
  BY <1>0, <1>8 DEF KillTimesOut, StopContainer, Infra
<1>9. CASE WaitForClient
  BY <1>0, <1>9 DEF WaitForClient, StatusOf
<1>10. CASE WaitInVain
  BY <1>0, <1>10 DEF WaitInVain, Infra
<1>11. CASE InspectState
  BY <1>0, <1>11 DEF InspectState, Infra
<1>12. CASE Check
  BY <1>0, <1>12 DEF Check, Return, outcomeVars
<1>13. CASE Remove
  BY <1>0, <1>13 DEF Remove, Return, outcomeVars
<1>14. CASE Confirm
  BY <1>0, <1>14 DEF Confirm, Return, outcomeVars
<1>15. QED
  BY <1>1, <1>2, <1>3, <1>4, <1>5, <1>6, <1>7, <1>8, <1>9, <1>10, <1>11,
     <1>12, <1>13, <1>14 DEF Parent

(* A stage adds its choice and its answer, and touches nothing else.       *)
LEMMA StageKeeps == WorkerInv /\ [Next]_vars => WorkerInv'
<1> SUFFICES ASSUME WorkerInv, [Next]_vars PROVE WorkerInv'
  OBVIOUS
<1>1. CASE WorkerNext
  BY <1>1, EnvironmentKeeps, ParentKeeps DEF WorkerNext
<1>2. CASE UNCHANGED workerVars
  BY <1>2 DEF workerVars, worldVars, payloadVars, clientVars, clockVars,
              outcomeVars, WorkerInv, TypeOK, OutcomeSoFar, ZeroIsEarned,
              StatusIsEarned
<1>3. QED
  BY <1>1, <1>2 DEF Next, Interpret, vars

(* The invariant of one execution, for every set of lapses.                *)
THEOREM WorkerInvariant == Spec => []WorkerInv
<1>1. Init => WorkerInv
  BY WorkerInvInit DEF Init
<1>2. QED
  BY <1>1, StageKeeps, PTL DEF Spec

(* Type correctness of a worker and its stage, for every set of stages.    *)
THEOREM StageTypes == Spec => []StageTypeOK
<1>1. Init => StageTypeOK
  BY WorkerInvInit DEF Init, StageTypeOK, WorkerInv, Answer
<1>2. StageTypeOK /\ WorkerInv' /\ [Next]_vars => StageTypeOK'
  BY DEF StageTypeOK, WorkerInv, Next, Interpret, Evaluate, CorrectnessPro,
         Timing, Payload, Answer, vars
<1>3. QED
  BY <1>1, <1>2, WorkerInvariant, PTL DEF Spec

(* Whatever docker gets wrong, completed is only said of a payload that    *)
(* ran to its end by itself and whose removal was seen (container.py:438). *)
THEOREM CompletedIsEarned == Spec => []CompletedRanToItsEnd
<1>1. WorkerInv => CompletedRanToItsEnd
  BY DEF WorkerInv, TypeOK, OutcomeSoFar, ZeroIsEarned, StatusIsEarned,
         CompletedRanToItsEnd
<1>2. QED
  BY <1>1, WorkerInvariant, PTL

-----------------------------------------------------------------------------
(* After the return, what is there was seen or came too late.              *)
GoneOrMisled == WorkerInv /\ OutcomeMeansGone

(* Docker, its client and the payload: whoever has another outcome than    *)
(* infra_error has no client any more, so that only a late daemon creates  *)
(* the container again.                                                    *)
LEMMA NothingComesBack == GoneOrMisled /\ Environment => OutcomeMeansGone'
<1> SUFFICES ASSUME GoneOrMisled, Environment PROVE OutcomeMeansGone'
  OBVIOUS
<1> USE DEF GoneOrMisled, OutcomeMeansGone
<1>1. UNCHANGED <<pc, status>>
  BY DEF Environment, Create, StartContainer, ClientFails, ClientReturns,
         WriteResult, Exceed, PayloadExits, Expire, Cancel, outcomeVars
<1>2. CASE Create
  <2>1. SUFFICES ASSUME pc = "returned", status # "infra_error" PROVE misled' # {}
    BY <1>1
  <2>2. client = "gone"
    BY <2>1 DEF WorkerInv, StatusIsEarned
  <2>3. QED
    BY <1>2, <2>1, <2>2 DEF Create
<1>3. CASE ~Create
  <2>1. UNCHANGED misled /\ (container = "absent" => container' = "absent")
    BY <1>3 DEF Environment, StartContainer, ClientFails, ClientReturns,
                WriteResult, Exceed, PayloadExits, Expire, Cancel
  <2>2. QED
    BY <1>1, <2>1
<1>4. QED
  BY <1>2, <1>3

(* execute_container: Confirm alone returns another outcome than           *)
(* infra_error, with a container that inspect did not find.                *)
LEMMA ConfirmDecides == GoneOrMisled /\ Parent => OutcomeMeansGone'
<1> SUFFICES ASSUME GoneOrMisled, Parent PROVE OutcomeMeansGone'
  OBVIOUS
<1> USE DEF OutcomeMeansGone
<1>1. CASE Confirm
  <2>1. CASE reclaimed' = "no"
    BY <1>1, <2>1 DEF Confirm, Return
  <2>2. CASE reclaimed' = "yes" /\ Exists
    BY <1>1, <2>2 DEF Confirm, Return
  <2>3. CASE reclaimed' = "yes" /\ ~Exists
    BY <1>1, <2>3 DEF Confirm, Exists, worldVars
  <2>4. QED
    BY <1>1, <2>1, <2>2, <2>3 DEF Confirm, Return
<1>2. CASE Check
  BY <1>2 DEF Check, Return
<1>3. CASE Remove
  BY <1>3 DEF Remove, Return
<1>4. CASE ~(Confirm \/ Check \/ Remove)
  <2>1. pc' # "returned"
    BY <1>4 DEF Parent, Refuse, Start, Measure, PollExited, PollExpired,
                PollAgain, Kill, KillTimesOut, WaitForClient, WaitInVain,
                InspectState, Infra
  <2>2. QED
    BY <2>1
<1>5. QED
  BY <1>1, <1>2, <1>3, <1>4

(* Whatever docker gets wrong: a container that is there after an outcome  *)
(* other than infra_error was denied by the inspect that confirms its      *)
(* removal, or created when its client was dead and the call had returned  *)
(* (container.py:513). No order of deadline, kill, start and exit brings   *)
(* one about by itself.                                                    *)
THEOREM OutcomesLeaveNothing == Spec => []OutcomeMeansGone
<1>1. Init => GoneOrMisled
  BY WorkerInvInit DEF Init, WorkerInit, GoneOrMisled, OutcomeMeansGone
<1>2. GoneOrMisled /\ [Next]_vars => GoneOrMisled'
  <2> SUFFICES ASSUME GoneOrMisled, [Next]_vars PROVE OutcomeMeansGone'
    BY StageKeeps DEF GoneOrMisled
  <2>1. CASE WorkerNext
    BY <2>1, NothingComesBack, ConfirmDecides DEF WorkerNext
  <2>2. CASE UNCHANGED workerVars
    BY <2>2 DEF workerVars, worldVars, outcomeVars, GoneOrMisled, OutcomeMeansGone
  <2>3. QED
    BY <2>1, <2>2 DEF Next, Interpret, vars
<1>3. GoneOrMisled => OutcomeMeansGone
  BY DEF GoneOrMisled
<1>4. QED
  BY <1>1, <1>2, <1>3, PTL DEF Spec

=============================================================================
