------------------------- MODULE ProcessWorkerProofs -------------------------
(***************************************************************************)
(* What an outcome of execute() tells of the processes of its payload, for *)
(* any number of them.                                                     *)
(***************************************************************************)
EXTENDS ProcessWorker, TLAPS

(* The phases in order: until the payload has had its time, while it is in *)
(* its job, and after the body.                                            *)
Early == {"job", "prepare", "start", "assign", "unassigned", "resume", "wait"}

Started == {"resume", "wait", "kill", "taskkill", "wait30", "kill again", "wait60",
            "reap", "tails"}

Leaving == {"finally", "last wait", "close"}

Left == {"clean", "returned"}

(* The record of the payload.                                              *)
PayloadType ==
  [at : {"none", "suspended", "running", "dying", "exited", "reaped"},
   code : {NoCode, "zero", "nonzero", "killed"}, root : BOOLEAN, ran : BOOLEAN]

(* The record of the outcome.                                              *)
OutcomeType ==
  [status : Status, code : {NoCode, "zero", "nonzero", "killed"},
   killed : BOOLEAN, reclaimed : BOOLEAN, raising : BOOLEAN]

NoGroup == \A k \in Kid : kid[k] # "group"

(* What the place of the parent tells of its outcome.                      *)
OutcomeSoFar ==
  /\ phase \in Early => out.status = "infra_error" /\ ~out.killed /\ ~out.raising
  /\ phase = "reap" /\ ~out.raising => payload.at = "reaped"
  /\ phase = "tails" => payload.at = "reaped" /\ ~out.raising
  /\ phase \in Leaving \cup Left /\ out.status # "infra_error" =>
       payload.at = "reaped" /\ ~out.raising
  /\ out.status = "completed" =>
       /\ phase \in {"reap", "tails"} \cup Leaving \cup Left
       /\ payload.at = "reaped" /\ payload.code = "zero"
       /\ out.code = "zero" /\ ~out.killed /\ ~out.raising

(* On Windows the payload is suspended until it is in the job, and neither *)
(* it nor what it starts can leave the job.                                *)
StaysInTheJob ==
  Windows =>
    /\ phase = "job" => job = "none"
    /\ phase \in Early \cup Started /\ phase # "job" => job = "open"
    /\ phase \in Started => attributed
    /\ phase \in {"job", "prepare", "start", "assign"} =>
         /\ payload.at # "running" /\ ~payload.ran
         /\ \A k \in Kid : kid[k] = "none"
    /\ payload.at = "running" => payload.ran
    /\ ~payload.root /\ \A k \in Kid : kid[k] \in {"none", "group", "gone"}
    /\ RunsInItsJob

(* The group is gone once its last signal has been sent, the job once its  *)
(* handle is closed: nobody is left to start another member.               *)
GroupIsGone ==
  /\ Linux /\ phase = "tails" => NoGroup
  /\ out.status # "infra_error" =>
       /\ Linux /\ phase \in Leaving => NoGroup
       /\ Windows /\ phase \in Leaving => attributed /\ job = "open"
       /\ phase \in Left => NoGroup

CallInv == TypeOK /\ OutcomeSoFar /\ StaysInTheJob /\ GroupIsGone

(* A call starts with it.                                                  *)
LEMMA CallInvInit == Init => CallInv
<1>1. Init => attributed \in BOOLEAN
  BY DEF Init
<1>2. Init => TypeOK
  BY <1>1 DEF Init, TypeOK, NoCode, Status
<1>3. Init => OutcomeSoFar /\ StaysInTheJob /\ GroupIsGone
  BY DEF Init, OutcomeSoFar, StaysInTheJob, GroupIsGone, RunsInItsJob,
         Windows, Linux, NoGroup, NoCode, Early, Started, Leaving, Left
<1>4. QED
  BY <1>2, <1>3 DEF CallInv

(* The payload as a signal or a wait leaves it.                            *)
LEMMA PayloadFields ==
  ASSUME TypeOK
  PROVE  /\ Doomed \in PayloadType /\ Reaped \in PayloadType
         /\ Doomed.code = payload.code /\ Doomed.root = payload.root
         /\ Doomed.ran = payload.ran
         /\ payload.at \notin {"suspended", "running"} => Doomed = payload
         /\ payload.at \in {"suspended", "running"} => Doomed.at = "dying"
         /\ Reaped.at = "reaped" /\ Reaped.code = payload.code
         /\ Reaped.root = payload.root /\ Reaped.ran = payload.ran
  BY DEF TypeOK, Doomed, Reaped, NoCode, PayloadType

(* Members of the group are gone once it is signalled, and nobody else.    *)
LEMMA SignalledKids ==
  ASSUME TypeOK, kid' = Signalled
  PROVE  /\ kid' \in [Kid -> {"none", "group", "root", "escaped", "gone"}]
         /\ NoGroup'
         /\ \A k \in Kid : kid[k] \in {"none", "group", "gone"} =>
                           kid'[k] \in {"none", "group", "gone"}
         /\ (\E k \in Kid : kid'[k] # "none") <=> (\E k \in Kid : kid[k] # "none")
  BY DEF TypeOK, Signalled, NoGroup

(* A process is started by one that runs: into the group only by a member, *)
(* on Windows only into the job.                                           *)
LEMMA ForkedKid ==
  ASSUME NEW k \in Kid, Fork(k)
  PROVE  \E w \in {"group", "root", "escaped"} :
           /\ kid' = [kid EXCEPT ![k] = w]
           /\ w = "group" => payload.at = "running" \/ \E j \in Kid : kid[j] = "group"
           /\ (Windows /\ ~payload.root /\ \A j \in Kid : kid[j] \in {"none", "group", "gone"})
                => w = "group"
<1>1. PICK parent \in {kid[j] : j \in Parents} \cup
                     IF payload.at # "running" THEN {}
                     ELSE IF payload.root THEN {"root"} ELSE {"group"} :
         \E w \in Kinds(parent) : kid' = [kid EXCEPT ![k] = w]
  BY DEF Fork
<1>2. PICK w \in Kinds(parent) : kid' = [kid EXCEPT ![k] = w]
  BY <1>1
<1>3. parent \in {"group", "root", "escaped"}
  BY DEF Parents
<1>4. payload.at = "running" \/ \E j \in Kid : kid[j] = parent
  BY DEF Parents
<1>5. /\ w \in {"group", "root", "escaped"}
      /\ w = "group" => parent = "group"
  BY <1>3 DEF Kinds
<1>6. ASSUME Windows, ~payload.root, \A j \in Kid : kid[j] \in {"none", "group", "gone"}
      PROVE  w = "group"
  <2>1. parent = "group"
    BY <1>6 DEF Parents
  <2>2. QED
    BY <1>6, <2>1 DEF Kinds, Linux, Windows
<1>7. QED
  BY <1>2, <1>4, <1>5, <1>6

(* Every step keeps the types.                                             *)
LEMMA TypesKept == TypeOK /\ [Next]_vars => TypeOK'
<1> SUFFICES ASSUME TypeOK, [Next]_vars PROVE TypeOK'
  OBVIOUS
<1>1. /\ platform' \in {"linux", "win32"}
      /\ job' \in {"none", "open", "unclosed", "closed"}
      /\ phase' \in {"job", "prepare", "start", "assign", "unassigned", "resume", "wait", "kill",
                     "taskkill", "wait30", "kill again", "wait60", "reap", "raise", "tails",
                     "finally", "last wait", "close", "clean", "returned"}
      /\ workdir' \in {"none", "made", "deleted", "kept"}
  <2>1. CASE Parent
    BY <2>1 DEF TypeOK, Parent, CreateJob, Prepare, Start, Assign, Unassigned, Resume,
                WaitReturns, TimeoutExpires, Kill, TaskKill, Wait30, KillAgain, Wait60, Reap,
                ReadTails, Finally, LastWait, CloseJob, Clean, To, Raise, AfterKill
  <2>2. CASE Environment \/ UNCHANGED vars
    BY <2>2 DEF TypeOK, Environment, vars
  <2>3. QED
    BY <2>1, <2>2 DEF Next
<1>2. attributed' \in BOOLEAN
  BY DEF TypeOK, Next, Parent, Environment, vars, CreateJob, Prepare, Start, Assign,
         Unassigned, Resume, WaitReturns, TimeoutExpires, Kill, TaskKill, Wait30,
         KillAgain, Wait60, Reap, ReadTails, Finally, LastWait, CloseJob, Clean
<1>3. payload' \in PayloadType
  <2>1. payload \in PayloadType
    BY DEF TypeOK, PayloadType
  <2>2. \/ payload' \in {payload, Doomed, Reaped} \/ Start \/ Resume
        \/ BecomesRoot \/ PayloadExits
    BY DEF Next, Parent, Environment, vars, Fork, KidExits, CreateJob, Prepare, Assign,
           Unassigned, WaitReturns, TimeoutExpires, Kill, TaskKill, Wait30, KillAgain,
           Wait60, Reap, ReadTails, Finally, LastWait, CloseJob, Clean, world, AfterKill,
           KillJob, KillGroup, Reaped
  <2>3. CASE Start
    BY <2>1, <2>3 DEF Start, PayloadType, Linux
  <2>4. CASE Resume
    BY <2>1, <2>4, PayloadFields DEF Resume, PayloadType
  <2>5. CASE BecomesRoot \/ PayloadExits
    BY <2>1, <2>5 DEF BecomesRoot, PayloadExits, PayloadType
  <2>6. QED
    BY <2>1, <2>2, <2>3, <2>4, <2>5, PayloadFields
<1>4. kid' \in [Kid -> {"none", "group", "root", "escaped", "gone"}]
  <2>1. kid' \in {kid, Signalled} \/ TaskKill \/ \E k \in Kid : Fork(k) \/ KidExits(k)
    BY DEF Next, Parent, Environment, vars, BecomesRoot, PayloadExits, CreateJob, Prepare,
           Assign, Start, Resume, Unassigned, WaitReturns, TimeoutExpires, Kill, Wait30,
           KillAgain, Wait60, Reap, ReadTails, Finally, LastWait, CloseJob, Clean, world,
           AfterKill, KillJob, KillGroup
  <2>2. CASE TaskKill
    BY <2>2 DEF TaskKill, TypeOK, world
  <2>3. ASSUME NEW k \in Kid, Fork(k)
        PROVE  kid' \in [Kid -> {"none", "group", "root", "escaped", "gone"}]
    BY <2>3, ForkedKid DEF TypeOK
  <2>4. ASSUME NEW k \in Kid, KidExits(k)
        PROVE  kid' \in [Kid -> {"none", "group", "root", "escaped", "gone"}]
    BY <2>4 DEF KidExits, TypeOK
  <2>5. QED
    BY <2>1, <2>2, <2>3, <2>4, SignalledKids DEF TypeOK
<1>5. out' \in OutcomeType
  <2> USE DEF Status, NoCode, OutcomeType, To, Raise, world
  <2>1. out \in OutcomeType
    BY DEF TypeOK
  <2>2. CASE CreateJob \/ Prepare \/ Assign \/ Start \/ Resume \/ Unassigned
    BY <2>1, <2>2 DEF CreateJob, Prepare, Assign, Start, Resume, Unassigned
  <2>3. CASE WaitReturns \/ TimeoutExpires
    BY <2>1, <2>3 DEF WaitReturns, TimeoutExpires, TypeOK
  <2>4. CASE Kill
    BY <2>1, <2>4 DEF Kill, Refused
  <2>5. CASE TaskKill \/ Wait30 \/ KillAgain \/ Wait60
    BY <2>1, <2>5 DEF TaskKill, Wait30, KillAgain, Wait60, AfterKill, TypeOK
  <2>6. CASE Reap \/ ReadTails \/ Finally \/ LastWait \/ CloseJob \/ Clean
    BY <2>1, <2>6 DEF Reap, ReadTails, Finally, LastWait, CloseJob, Clean, TypeOK
  <2>7. CASE Environment \/ UNCHANGED vars
    BY <2>1, <2>7 DEF Environment, vars
  <2>8. QED
    BY <2>2, <2>3, <2>4, <2>5, <2>6, <2>7 DEF Next, Parent
<1>6. QED
  BY <1>1, <1>2, <1>3, <1>4, <1>5 DEF TypeOK, PayloadType, OutcomeType

(* A process that is started joins the group only while the payload runs or *)
(* a member is there, and on Windows only in the job.                       *)
LEMMA ForkKeeps ==
  ASSUME CallInv, TypeOK', NEW k \in Kid, Fork(k),
         UNCHANGED <<platform, job, attributed, phase, out, workdir>>
  PROVE  CallInv'
<1> USE DEF CallInv
<1>1. PICK w \in {"group", "root", "escaped"} :
        /\ kid' = [kid EXCEPT ![k] = w]
        /\ w = "group" => payload.at = "running" \/ \E j \in Kid : kid[j] = "group"
        /\ (Windows /\ ~payload.root /\ \A j \in Kid : kid[j] \in {"none", "group", "gone"})
             => w = "group"
  BY ForkedKid
<1>2. Windows => w = "group"
  BY <1>1 DEF StaysInTheJob
<1>3. Windows => payload.at = "running" \/ \E j \in Kid : kid[j] = "group"
  BY <1>1, <1>2
<1>4. payload' = payload /\ \A j \in Kid : kid'[j] = IF j = k THEN w ELSE kid[j]
  BY <1>1 DEF Fork, TypeOK
<1>5. OutcomeSoFar'
  BY <1>4 DEF OutcomeSoFar
<1>6. StaysInTheJob'
  BY <1>2, <1>3, <1>4 DEF StaysInTheJob, RunsInItsJob, Windows, Early, Started
<1>7. GroupIsGone'
  BY <1>1, <1>4 DEF GroupIsGone, OutcomeSoFar, NoGroup, Leaving, Left, Windows, Linux
<1>8. QED
  BY <1>5, <1>6, <1>7

(* The other steps of the payload and its descendants.                     *)
LEMMA EnvironmentKeeps == CallInv /\ Environment => CallInv'
<1> SUFFICES ASSUME CallInv, Environment PROVE CallInv'
  OBVIOUS
<1>0. TypeOK'
  BY TypesKept DEF CallInv, Next
<1> USE DEF CallInv, TypeOK, PayloadType, Windows, Linux, Early, Started, Leaving, Left,
            Environment
<1>1. CASE \E k \in Kid : KidExits(k)
  <2>1. OutcomeSoFar'
    BY <1>1 DEF KidExits, Parents, OutcomeSoFar
  <2>2. StaysInTheJob'
    BY <1>1 DEF KidExits, Parents, StaysInTheJob, RunsInItsJob
  <2>3. GroupIsGone'
    BY <1>1 DEF KidExits, Parents, OutcomeSoFar, StaysInTheJob, GroupIsGone, NoGroup
  <2>4. QED
    BY <1>0, <2>1, <2>2, <2>3
<1>2. CASE BecomesRoot
  <2>1. OutcomeSoFar'
    BY <1>2 DEF BecomesRoot, OutcomeSoFar
  <2>2. StaysInTheJob'
    BY <1>2 DEF BecomesRoot, StaysInTheJob, RunsInItsJob
  <2>3. GroupIsGone'
    BY <1>2 DEF BecomesRoot, OutcomeSoFar, StaysInTheJob, GroupIsGone, NoGroup
  <2>4. QED
    BY <1>0, <2>1, <2>2, <2>3
<1>3. CASE PayloadExits
  <2>1. OutcomeSoFar'
    BY <1>3 DEF PayloadExits, OutcomeSoFar
  <2>2. StaysInTheJob'
    BY <1>3 DEF PayloadExits, StaysInTheJob, RunsInItsJob
  <2>3. GroupIsGone'
    BY <1>3 DEF PayloadExits, OutcomeSoFar, StaysInTheJob, GroupIsGone, NoGroup
  <2>4. QED
    BY <1>0, <2>1, <2>2, <2>3
<1>4. CASE \E k \in Kid : Fork(k)
  BY <1>0, <1>4, ForkKeeps
<1>5. QED
  BY <1>1, <1>2, <1>3, <1>4

(* Every step of execute().                                                *)
LEMMA ParentKeeps == CallInv /\ Parent => CallInv'
<1> SUFFICES ASSUME CallInv, Parent PROVE CallInv'
  OBVIOUS
<1>0. TypeOK'
  BY TypesKept DEF CallInv, Next
<1> USE DEF CallInv, TypeOK, PayloadType, Windows, Linux, Early, Started, Leaving, Left
<1>1. CASE CreateJob
  <2>1. OutcomeSoFar'
    BY <1>1 DEF CreateJob, To, Raise, world, OutcomeSoFar
  <2>2. StaysInTheJob'
    BY <1>1 DEF CreateJob, To, Raise, world, StaysInTheJob, RunsInItsJob
  <2>3. GroupIsGone'
    BY <1>1 DEF CreateJob, To, Raise, world, OutcomeSoFar, StaysInTheJob, GroupIsGone,
       NoGroup
  <2>4. QED
    BY <1>0, <2>1, <2>2, <2>3
<1>2. CASE Prepare
  <2>1. OutcomeSoFar'
    BY <1>2 DEF Prepare, To, Raise, world, OutcomeSoFar
  <2>2. StaysInTheJob'
    BY <1>2 DEF Prepare, To, Raise, world, StaysInTheJob, RunsInItsJob
  <2>3. GroupIsGone'
    BY <1>2 DEF Prepare, To, Raise, world, OutcomeSoFar, StaysInTheJob, GroupIsGone, NoGroup
  <2>4. QED
    BY <1>0, <2>1, <2>2, <2>3
<1>3. CASE Start
  <2>1. OutcomeSoFar'
    BY <1>3 DEF Start, To, Raise, OutcomeSoFar
  <2>2. StaysInTheJob'
    BY <1>3 DEF Start, To, Raise, StaysInTheJob, RunsInItsJob
  <2>3. GroupIsGone'
    BY <1>3 DEF Start, To, Raise, OutcomeSoFar, StaysInTheJob, GroupIsGone, NoGroup
  <2>4. QED
    BY <1>0, <2>1, <2>2, <2>3
<1>4. CASE Assign
  <2>1. OutcomeSoFar'
    BY <1>4, PayloadFields DEF Assign, To, OutcomeSoFar
  <2>2. StaysInTheJob'
    BY <1>4, PayloadFields DEF Assign, To, StaysInTheJob, RunsInItsJob
  <2>3. GroupIsGone'
    BY <1>4, PayloadFields DEF Assign, To, OutcomeSoFar, StaysInTheJob, GroupIsGone, NoGroup
  <2>4. QED
    BY <1>0, <2>1, <2>2, <2>3
<1>5. CASE Unassigned
  <2>1. OutcomeSoFar'
    BY <1>5 DEF Unassigned, To, Raise, OutcomeSoFar
  <2>2. StaysInTheJob'
    BY <1>5 DEF Unassigned, To, Raise, StaysInTheJob, RunsInItsJob
  <2>3. GroupIsGone'
    BY <1>5 DEF Unassigned, To, Raise, OutcomeSoFar, StaysInTheJob, GroupIsGone, NoGroup
  <2>4. QED
    BY <1>0, <2>1, <2>2, <2>3
<1>6. CASE Resume
  <2>1. OutcomeSoFar'
    BY <1>6, PayloadFields DEF Resume, To, Raise, OutcomeSoFar
  <2>2. StaysInTheJob'
    BY <1>6, PayloadFields DEF Resume, To, Raise, StaysInTheJob, RunsInItsJob
  <2>3. GroupIsGone'
    BY <1>6, PayloadFields DEF Resume, To, Raise, OutcomeSoFar, StaysInTheJob,
       GroupIsGone, NoGroup
  <2>4. QED
    BY <1>0, <2>1, <2>2, <2>3
<1>7. CASE WaitReturns
  <2>1. OutcomeSoFar'
    BY <1>7, PayloadFields DEF WaitReturns, To, OutcomeSoFar
  <2>2. StaysInTheJob'
    BY <1>7, PayloadFields DEF WaitReturns, To, StaysInTheJob, RunsInItsJob
  <2>3. GroupIsGone'
    BY <1>7, PayloadFields DEF WaitReturns, To, OutcomeSoFar, StaysInTheJob,
       GroupIsGone, NoGroup
  <2>4. QED
    BY <1>0, <2>1, <2>2, <2>3
<1>8. CASE TimeoutExpires
  <2>1. OutcomeSoFar'
    BY <1>8 DEF TimeoutExpires, To, world, OutcomeSoFar
  <2>2. StaysInTheJob'
    BY <1>8 DEF TimeoutExpires, To, world, StaysInTheJob, RunsInItsJob
  <2>3. GroupIsGone'
    BY <1>8 DEF TimeoutExpires, To, world, OutcomeSoFar, StaysInTheJob, GroupIsGone, NoGroup
  <2>4. QED
    BY <1>0, <2>1, <2>2, <2>3
<1>9. CASE Kill
  <2>1. OutcomeSoFar'
    BY <1>9, PayloadFields, SignalledKids
       DEF Kill, To, world, KillJob, KillGroup, OutcomeSoFar
  <2>2. StaysInTheJob'
    BY <1>9, PayloadFields, SignalledKids
       DEF Kill, To, world, KillJob, KillGroup, StaysInTheJob, RunsInItsJob
  <2>3. GroupIsGone'
    BY <1>9, PayloadFields, SignalledKids
       DEF Kill, To, world, KillJob, KillGroup, OutcomeSoFar, StaysInTheJob,
           GroupIsGone, NoGroup
  <2>4. QED
    BY <1>0, <2>1, <2>2, <2>3
<1>10. CASE TaskKill
  <2>1. OutcomeSoFar'
    BY <1>10, PayloadFields DEF TaskKill, To, world, OutcomeSoFar
  <2>2. StaysInTheJob'
    BY <1>10, PayloadFields DEF TaskKill, To, world, StaysInTheJob, RunsInItsJob
  <2>3. GroupIsGone'
    BY <1>10, PayloadFields DEF TaskKill, To, world, OutcomeSoFar, StaysInTheJob,
       GroupIsGone, NoGroup
  <2>4. QED
    BY <1>0, <2>1, <2>2, <2>3
<1>11. CASE Wait30
  <2>1. OutcomeSoFar'
    BY <1>11, PayloadFields DEF Wait30, To, AfterKill, OutcomeSoFar
  <2>2. StaysInTheJob'
    BY <1>11, PayloadFields DEF Wait30, To, AfterKill, StaysInTheJob, RunsInItsJob
  <2>3. GroupIsGone'
    BY <1>11, PayloadFields DEF Wait30, To, AfterKill, OutcomeSoFar, StaysInTheJob,
       GroupIsGone, NoGroup
  <2>4. QED
    BY <1>0, <2>1, <2>2, <2>3
<1>12. CASE KillAgain
  <2>1. OutcomeSoFar'
    BY <1>12, PayloadFields DEF KillAgain, To, OutcomeSoFar
  <2>2. StaysInTheJob'
    BY <1>12, PayloadFields DEF KillAgain, To, StaysInTheJob, RunsInItsJob
  <2>3. GroupIsGone'
    BY <1>12, PayloadFields DEF KillAgain, To, OutcomeSoFar, StaysInTheJob,
       GroupIsGone, NoGroup
  <2>4. QED
    BY <1>0, <2>1, <2>2, <2>3
<1>13. CASE Wait60
  <2>1. OutcomeSoFar'
    BY <1>13, PayloadFields DEF Wait60, To, AfterKill, OutcomeSoFar
  <2>2. StaysInTheJob'
    BY <1>13, PayloadFields DEF Wait60, To, AfterKill, StaysInTheJob, RunsInItsJob
  <2>3. GroupIsGone'
    BY <1>13, PayloadFields DEF Wait60, To, AfterKill, OutcomeSoFar, StaysInTheJob,
       GroupIsGone, NoGroup
  <2>4. QED
    BY <1>0, <2>1, <2>2, <2>3
<1>14. CASE Reap
  <2>1. OutcomeSoFar'
    BY <1>14, PayloadFields, SignalledKids
       DEF Reap, To, Raise, world, KillGroup, OutcomeSoFar
  <2>2. StaysInTheJob'
    BY <1>14, PayloadFields, SignalledKids
       DEF Reap, To, Raise, world, KillGroup, StaysInTheJob, RunsInItsJob
  <2>3. GroupIsGone'
    BY <1>14, PayloadFields, SignalledKids
       DEF Reap, To, Raise, world, KillGroup, OutcomeSoFar, StaysInTheJob,
           GroupIsGone, NoGroup
  <2>4. QED
    BY <1>0, <2>1, <2>2, <2>3
<1>15. CASE ReadTails
  <2>1. OutcomeSoFar'
    BY <1>15 DEF ReadTails, To, Raise, world, OutcomeSoFar
  <2>2. StaysInTheJob'
    BY <1>15 DEF ReadTails, To, Raise, world, StaysInTheJob, RunsInItsJob
  <2>3. GroupIsGone'
    BY <1>15 DEF ReadTails, To, Raise, world, OutcomeSoFar, StaysInTheJob,
       GroupIsGone, NoGroup
  <2>4. QED
    BY <1>0, <2>1, <2>2, <2>3
<1>16. CASE Finally
  <2>1. OutcomeSoFar'
    BY <1>16, PayloadFields DEF Finally, To, Alive, OutcomeSoFar
  <2>2. StaysInTheJob'
    BY <1>16, PayloadFields DEF Finally, To, Alive, StaysInTheJob, RunsInItsJob
  <2>3. GroupIsGone'
    BY <1>16, PayloadFields DEF Finally, To, Alive, OutcomeSoFar, StaysInTheJob,
       GroupIsGone, NoGroup
  <2>4. QED
    BY <1>0, <2>1, <2>2, <2>3
<1>17. CASE LastWait
  <2>1. OutcomeSoFar'
    BY <1>17, PayloadFields DEF LastWait, To, OutcomeSoFar
  <2>2. StaysInTheJob'
    BY <1>17, PayloadFields DEF LastWait, To, StaysInTheJob, RunsInItsJob
  <2>3. GroupIsGone'
    BY <1>17, PayloadFields DEF LastWait, To, OutcomeSoFar, StaysInTheJob,
       GroupIsGone, NoGroup
  <2>4. QED
    BY <1>0, <2>1, <2>2, <2>3
<1>18. CASE CloseJob
  <2>1. OutcomeSoFar'
    BY <1>18, PayloadFields, SignalledKids DEF CloseJob, To, world, KillJob, OutcomeSoFar
  <2>2. StaysInTheJob'
    BY <1>18, PayloadFields, SignalledKids
       DEF CloseJob, To, world, KillJob, StaysInTheJob, RunsInItsJob
  <2>3. GroupIsGone'
    BY <1>18, PayloadFields, SignalledKids
       DEF CloseJob, To, world, KillJob, OutcomeSoFar, StaysInTheJob, GroupIsGone,
           NoGroup
  <2>4. QED
    BY <1>0, <2>1, <2>2, <2>3
<1>19. CASE Clean
  <2>1. OutcomeSoFar'
    BY <1>19 DEF Clean, To, world, OutcomeSoFar
  <2>2. StaysInTheJob'
    BY <1>19 DEF Clean, To, world, StaysInTheJob, RunsInItsJob
  <2>3. GroupIsGone'
    BY <1>19 DEF Clean, To, world, OutcomeSoFar, StaysInTheJob, GroupIsGone, NoGroup
  <2>4. QED
    BY <1>0, <2>1, <2>2, <2>3
<1>20. QED
  BY <1>1, <1>2, <1>3, <1>4, <1>5, <1>6, <1>7, <1>8, <1>9, <1>10, <1>11, <1>12, <1>13,
     <1>14, <1>15, <1>16, <1>17, <1>18, <1>19 DEF Parent

(* The inductive invariant of a call: where the parent is tells whether the *)
(* payload is reaped, in its job, and its group gone.                      *)
THEOREM CallInvariant == Spec => []CallInv
<1>1. CallInv /\ UNCHANGED vars => CallInv'
  <2> SUFFICES ASSUME CallInv, UNCHANGED vars PROVE CallInv'
    OBVIOUS
  <2>1. TypeOK'
    BY TypesKept DEF CallInv
  <2>2. OutcomeSoFar' /\ StaysInTheJob' /\ GroupIsGone'
    BY DEF CallInv, OutcomeSoFar, StaysInTheJob, GroupIsGone, RunsInItsJob,
           Windows, Linux, NoGroup, vars, world
  <2>3. QED
    BY <2>1, <2>2 DEF CallInv
<1>2. CallInv /\ [Next]_vars => CallInv'
  BY <1>1, EnvironmentKeeps, ParentKeeps DEF Next
<1>3. QED
  BY CallInvInit, <1>2, PTL DEF Spec

(* An outcome other than infra_error leaves no process of its group or job *)
(* behind, however many the payload has started and whatever was refused.  *)
THEOREM OutcomeLeavesNothing == Spec => []NothingIsLeft
<1>1. CallInv => NothingIsLeft
  BY DEF CallInv, OutcomeSoFar, GroupIsGone, NothingIsLeft, NoGroup, Leaving, Left
<1>2. QED
  BY <1>1, CallInvariant, PTL

(* No instruction of a Windows payload runs outside its job.               *)
THEOREM PayloadStaysInItsJob == Spec => []RunsInItsJob
<1>1. CallInv => RunsInItsJob
  BY DEF CallInv, StaysInTheJob, RunsInItsJob
<1>2. QED
  BY <1>1, CallInvariant, PTL

(* A completed outcome is that of a payload which exited with 0 by itself. *)
THEOREM CompletedIsEarned == Spec => []CompletedByItself
<1>1. CallInv => CompletedByItself
  BY DEF CallInv, OutcomeSoFar, CompletedByItself
<1>2. QED
  BY <1>1, CallInvariant, PTL
=============================================================================
