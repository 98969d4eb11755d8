---------------------------- MODULE RunDirectory ----------------------------
(***************************************************************************)
(* Who may work in a run directory, and under which identity: the checks   *)
(* of optimize() before run.lock, the manifest that binds every later      *)
(* process, and what `kernelagent optimize`, `resume` and `profile` do     *)
(* with them. The work itself is abstract here (module OptimizationLoop):  *)
(* attempts that start and finish in the journal, then a report.           *)
(*                                                                         *)
(* A process is one call. What it wrote in a file is named by the process, *)
(* whose configuration never changes.                                      *)
(***************************************************************************)
EXTENDS Integers, Sequences

CONSTANTS
  Proc,           (* calls of optimize() or `kernelagent profile`          *)
  Nobody,
  Dir,            (* run directories                                       *)
  Config,         (* what a call may be configured with: the pinned        *)
                  (* problem and the other IDENTITY_FIELDS, taken          *)
                  (* together, and the REVISIBLE_FIELDS, taken together    *)
  MayStart,       (* what `kernelagent optimize` may be pointed at         *)
  MaxEntries      (* bound: journal lines of a directory                   *)

ASSUME ConfigAssumption ==
  Config # {} /\ \A c \in Config :
    DOMAIN c = {"identity", "allowance"} /\ DOMAIN c.identity = {"problem", "setting"}
ASSUME DirAssumption == Dir # {}
ASSUME NobodyAssumption == Nobody \notin Proc
ASSUME BoundAssumption == MaxEntries \in Nat

VARIABLES
  dir,            (* the files of each directory                           *)
  proc            (* the calls                                             *)

dirVars == <<dir, proc>>

Empty == [made |-> FALSE, lock |-> FALSE, holder |-> Nobody, job |-> Nobody,
          manifest |-> Nobody, journal |-> <<>>, report |-> Nobody, error |-> Nobody]

Over == {"idle", "explained", "ended", "dead"}

(* The files a directory may hold before a fresh run: the launcher's       *)
(* job.json at most. run.lock stays behind every process that took it.     *)
HoldsNothing(d) ==
  /\ ~dir[d].lock
  /\ dir[d].manifest = Nobody /\ dir[d].journal = <<>>
  /\ dir[d].report = Nobody /\ dir[d].error = Nobody

Unexpected(d) == dir[d].made /\ ~HoldsNothing(d)

DirInit ==
  /\ dir = [d \in Dir |-> Empty]
  /\ proc = [p \in Proc |->
               [phase |-> "idle", mode |-> "none", dir |-> CHOOSE d \in Dir : TRUE,
                config |-> CHOOSE c \in Config : TRUE, stored |-> Nobody]]

-----------------------------------------------------------------------------
(* Before the lock.                                                        *)

To(p, phase) == proc' = [proc EXCEPT ![p].phase = phase]

Called(mode, d, c) ==
  [phase |-> "called", mode |-> mode, dir |-> d, config |-> c, stored |-> Nobody]

CallFresh(p, d, c) ==
  /\ proc[p].phase = "idle"
  /\ proc' = [proc EXCEPT ![p] = Called("fresh", d, c)]
  /\ UNCHANGED dir

(* Options that are not given are those of the manifest, so that there is  *)
(* no call without one; options that are given may be anything.            *)
CallResume(p, d, c) ==
  /\ proc[p].phase = "idle" /\ dir[d].manifest # Nobody
  /\ proc' = [proc EXCEPT ![p] = Called("resume", d, c)]
  /\ UNCHANGED dir

(* The manifest of a directory is that of the process which wrote it.      *)
build_run_manifest(p) == proc[p].config
load_run_manifest(d) == build_run_manifest(dir[d].manifest)

(* `kernelagent profile` compares the problem alone.                       *)
CallProfile(p, d, c) ==
  /\ proc[p].phase = "idle" /\ dir[d].manifest # Nobody
  /\ c.identity.problem = load_run_manifest(d).identity.problem
  /\ proc' = [proc EXCEPT ![p] =
       [Called("profile", d, c) EXCEPT !.phase = "inspected", !.stored = dir[d].manifest]]
  /\ UNCHANGED dir

(* What optimize() looks at before it takes the lock. A resumed run keeps  *)
(* the manifest that it read here.                                         *)
Inspect(p) ==
  LET d == proc[p].dir IN
  /\ proc[p].phase = "called"
  /\ \/ /\ proc[p].mode = "fresh" /\ ~Unexpected(d)
        /\ To(p, "inspected")
     \/ /\ proc[p].mode = "resume"
        /\ dir[d].journal # <<>> /\ dir[d].manifest # Nobody
        /\ proc' = [proc EXCEPT ![p].phase = "inspected", ![p].stored = dir[d].manifest]
     \/ /\ \/ proc[p].mode = "fresh" /\ Unexpected(d)
           \/ /\ proc[p].mode = "resume"
              /\ dir[d].journal = <<>> \/ dir[d].manifest = Nobody
        /\ To(p, "refused")
  /\ UNCHANGED dir

(* run.lock is created, or found; the lock is taken or refused at once.    *)
AcquireRunLock(p) ==
  LET d == proc[p].dir
      free == dir[d].holder = Nobody
  IN
  /\ proc[p].phase = "inspected"
  /\ dir' = [dir EXCEPT ![d].made = TRUE, ![d].lock = TRUE,
                        ![d].holder = IF free THEN p ELSE @]
  /\ To(p, IF free THEN "locked" ELSE "refused")

(* The finally of optimize(), and the kernel when a process dies.          *)
ReleaseBy(p, phase) ==
  /\ dir' = [dir EXCEPT ![proc[p].dir].holder = IF @ = p THEN Nobody ELSE @]
  /\ To(p, phase)

-----------------------------------------------------------------------------
(* Under the lock.                                                         *)

(* Mutant: the setting is not one of the IDENTITY_FIELDS.                  *)
DiffersInProblem(p) ==
  /\ proc[p].mode = "resume"
  /\ build_run_manifest(proc[p].stored).identity.problem
       # build_run_manifest(p).identity.problem

Differs(p) ==
  /\ proc[p].mode = "resume"
  /\ build_run_manifest(proc[p].stored).identity # build_run_manifest(p).identity

(* identity_mismatches, then the journal is read.                          *)
OpenJournal(p) ==
  /\ proc[p].phase = "locked"
  /\ ~Differs(p)
  /\ To(p, "opened") /\ UNCHANGED dir

Appended(p, kinds) ==
  dir[proc[p].dir].journal \o [n \in DOMAIN kinds |-> [by |-> p, kind |-> kinds[n]]]
Room(p, n) == Len(dir[proc[p].dir].journal) + n <= MaxEntries

(* Mutant: the journal is reconciled before the identity is compared.      *)
RefuseReconciled(p) ==
  LET d == proc[p].dir IN
  /\ proc[p].phase = "locked"
  /\ Differs(p) /\ Room(p, 1)
  /\ dir' = [dir EXCEPT ![d] = [@ EXCEPT !.journal = Appended(p, <<"interrupted">>),
                                        !.holder = Nobody]]
  /\ To(p, "refused")

RefuseIdentity(p) ==
  /\ proc[p].phase = "locked"
  /\ Differs(p)
  /\ ReleaseBy(p, "refused")

Revises(p) ==
  build_run_manifest(proc[p].stored).allowance # build_run_manifest(p).allowance

(* Mutant: a resumed run with other limits replaces the manifest.          *)
DeclareInManifest(p) ==
  LET d == proc[p].dir IN
  /\ proc[p].phase = "opened"
  /\ \/ /\ proc[p].mode = "fresh" \/ (proc[p].mode = "resume" /\ Revises(p))
        /\ dir' = [dir EXCEPT ![d].manifest = p]
     \/ /\ proc[p].mode = "profile" \/ (proc[p].mode = "resume" /\ ~Revises(p))
        /\ UNCHANGED dir
  /\ To(p, "working")

(* The manifest of a fresh run, the revisions of a resumed one: before     *)
(* anything is started.                                                    *)
Declare(p) ==
  LET d == proc[p].dir IN
  /\ proc[p].phase = "opened"
  /\ \/ /\ proc[p].mode = "fresh"
        /\ dir' = [dir EXCEPT ![d].manifest = p]
     \/ /\ proc[p].mode = "resume" /\ Revises(p)
        /\ Room(p, 1)
        /\ dir' = [dir EXCEPT ![d].journal = Appended(p, <<"revised">>)]
     \/ /\ proc[p].mode = "profile" \/ (proc[p].mode = "resume" /\ ~Revises(p))
        /\ UNCHANGED dir
  /\ To(p, "working")

Kinds(d) == [n \in DOMAIN dir[d].journal |-> dir[d].journal[n].kind]

LastLine(d) == dir[d].journal[Len(dir[d].journal)]

(* Attempts that no line of the journal closes.                            *)
OpenAttempts(d) ==
  Len(SelectSeq(Kinds(d), LAMBDA k : k = "started"))
    - Len(SelectSeq(Kinds(d), LAMBDA k : k \in {"finished", "interrupted"}))

(* Orchestrator.run refuses a journal that is there unless the run is      *)
(* resumed; a fresh run finds none but its own. Where it refuses, nothing  *)
(* is left but Raise: the manifest is replaced by then.                    *)
MayRun(p) ==
  LET lines == dir[proc[p].dir].journal IN
  \/ proc[p].mode = "resume"
  \/ proc[p].mode = "fresh" /\ \A n \in DOMAIN lines : lines[n].by = p

(* One step of Orchestrator.run: an attempt that a dead process left open  *)
(* is marked, one is started, one is finished.                             *)
Attempt(p) ==
  LET d == proc[p].dir IN
  /\ proc[p].phase = "working" /\ MayRun(p)
  /\ Room(p, 1)
  /\ \/ /\ OpenAttempts(d) = 0 /\ Room(p, 2)
        /\ dir' = [dir EXCEPT ![d].journal = Appended(p, <<"started">>)]
     \/ /\ OpenAttempts(d) > 0 /\ LastLine(d) = [by |-> p, kind |-> "started"]
        /\ dir' = [dir EXCEPT ![d].journal = Appended(p, <<"finished">>)]
     \/ /\ OpenAttempts(d) > 0 /\ LastLine(d) # [by |-> p, kind |-> "started"]
        /\ dir' = [dir EXCEPT ![d].journal = Appended(p, <<"interrupted">>)]
  /\ UNCHANGED proc

(* _run_baseline_profile: evidence that is there is used again, anything   *)
(* else leaves its events in the journal.                                  *)
Profile(p) ==
  /\ proc[p].phase = "working" /\ proc[p].mode = "profile"
  /\ \E kinds \in {<<>>, <<"profile">>} :
       /\ Room(p, Len(kinds))
       /\ dir' = [dir EXCEPT ![proc[p].dir] =
            [@ EXCEPT !.journal = Appended(p, kinds), !.holder = Nobody]]
  /\ To(p, "ended")

(* report.json, replaced as a whole. The baseline at least has been        *)
(* journaled by then, and no attempt is open.                              *)
WriteReport(p) ==
  LET d == proc[p].dir IN
  /\ proc[p].phase = "working" /\ MayRun(p)
  /\ OpenAttempts(d) = 0 /\ dir[d].journal # <<>>
  /\ dir' = [dir EXCEPT ![d].report = p]
  /\ To(p, "reported")

Return(p) == proc[p].phase = "reported" /\ ReleaseBy(p, "ended")

(* An exception anywhere under the lock: no credential, no journal that    *)
(* can be read, one that a fresh run may not touch, a stage that raises.   *)
Raise(p) == proc[p].phase \in {"locked", "opened", "working"} /\ ReleaseBy(p, "failed")

Die(p) == proc[p].phase \notin Over \cup {"refused", "failed"} /\ ReleaseBy(p, "dead")

Step(p) ==
  \/ Inspect(p) \/ AcquireRunLock(p) \/ OpenJournal(p) \/ RefuseIdentity(p)
  \/ Declare(p) \/ Attempt(p) \/ Profile(p) \/ WriteReport(p) \/ Return(p) \/ Raise(p)

Call(p, d) ==
  \E c \in Config :
    \/ d \in MayStart /\ CallFresh(p, d, c)
    \/ CallResume(p, d, c) \/ CallProfile(p, d, c)

DirNext == \E p \in Proc : (\E d \in Dir : Call(p, d)) \/ Step(p) \/ Die(p)

(***************************************************************************)
(* What the directory owes its reader.                                     *)
(***************************************************************************)
Worked == {"started", "finished", "interrupted"}

(* One experiment, one identity: whoever ran attempts in a directory did   *)
(* so under the identity of its manifest. The manifest is read before the  *)
(* lock is taken, compared after, and written by another process.          *)
OneIdentity ==
  \A d \in Dir : \A n \in DOMAIN dir[d].journal :
    LET entry == dir[d].journal[n] IN
    entry.kind \in Worked =>
      /\ dir[d].manifest # Nobody
      /\ proc[entry.by].config.identity = load_run_manifest(d).identity

(* optimize(): "each override is recorded as an explicit manifest_revised  *)
(* journal event". A process that works under other limits than those of   *)
(* the manifest has said so in the journal before its first attempt.       *)
OverridesAreJournaled ==
  \A d \in Dir : \A n \in DOMAIN dir[d].journal :
    LET entry == dir[d].journal[n] IN
    (/\ entry.kind \in Worked
     /\ proc[entry.by].config.allowance # load_run_manifest(d).allowance)
      => \E m \in 1 .. n - 1 : dir[d].journal[m] = [by |-> entry.by, kind |-> "revised"]

(* Both hold where the fresh runs of a directory agree. Two that do not    *)
(* may meet in one (RefusesToMix below), and then the manifest of the      *)
(* second covers the lines of the first.                                   *)
FreshRunsAgree ==
  \A p, q \in Proc :
    (proc[p].mode = "fresh" /\ proc[q].mode = "fresh" /\ proc[p].dir = proc[q].dir)
      => proc[p].config = proc[q].config

(* The inductive invariant behind them, which needs no agreement. The      *)
(* manifest that a directory has, and the one that a process read, are by  *)
(* fresh runs of that directory.                                           *)
ManifestHolds(d) ==
  LET m == dir[d].manifest IN
  m # Nobody => proc[m].mode = "fresh" /\ proc[m].dir = d

StoredHolds(p) ==
  LET c == proc[p] IN
  c.stored # Nobody =>
    /\ proc[c.stored].mode = "fresh" /\ proc[c.stored].dir = c.dir
    /\ dir[c.dir].manifest # Nobody

(* A process is where it is because of what it has read and declared.      *)
PhaseHolds(p) ==
  LET c == proc[p] IN
  /\ c.phase = "idle" <=> c.mode = "none"
  /\ c.mode = "resume" =>
       /\ c.phase \in {"inspected", "locked", "opened", "working", "reported"} =>
            c.stored # Nobody
       /\ c.phase \in {"opened", "working", "reported"} => ~Differs(p)
       /\ c.phase \in {"working", "reported"} /\ Revises(p) =>
            \E m \in DOMAIN dir[c.dir].journal :
              dir[c.dir].journal[m] = [by |-> p, kind |-> "revised"]
  /\ c.mode = "fresh" /\ c.phase \in {"working", "reported"} =>
       dir[c.dir].manifest # Nobody

(* Whoever worked was a fresh run of the directory, or resumed one whose   *)
(* identity is its own, and had declared where their limits differ.        *)
LineHolds(d, n) ==
  LET entry == dir[d].journal[n]
      c == proc[entry.by]
  IN
  entry.kind \in Worked =>
    /\ c.dir = d /\ dir[d].manifest # Nobody
    /\ c.mode \in {"fresh", "resume"}
    /\ c.mode = "resume" =>
         /\ c.stored # Nobody /\ ~Differs(entry.by)
         /\ Revises(entry.by) =>
              \E m \in 1 .. n - 1 : dir[d].journal[m] = [by |-> entry.by, kind |-> "revised"]

IdentityHolds ==
  /\ \A d \in Dir : ManifestHolds(d)
  /\ \A p \in Proc : StoredHolds(p) /\ PhaseHolds(p)
  /\ \A d \in Dir : \A n \in DOMAIN dir[d].journal : LineHolds(d, n)

(* RunLockHeldError: a call is refused "before touching any durable        *)
(* state"; so is one whose identity does not match. Nothing in any file    *)
(* but the launcher's own is by a call that was refused.                   *)
RefusedLeavesNoTrace ==
  \A p \in Proc : proc[p].phase = "refused" =>
    \A d \in Dir :
      /\ p \notin {dir[d].holder, dir[d].manifest, dir[d].report}
      /\ \A n \in DOMAIN dir[d].journal : dir[d].journal[n].by # p

(* "Resume verifies the stored identity and refuses to reuse previous      *)
(* results on any mismatch", and a fresh run is "refusing to mix           *)
(* experiments": whoever started attempts in one journal did so under one  *)
(* identity.                                                               *)
RefusesToMix ==
  \A d \in Dir : \A m, n \in DOMAIN dir[d].journal :
    LET one == dir[d].journal[m]
        other == dir[d].journal[n]
    IN
    one.kind = "started" /\ other.kind = "started" =>
      proc[one.by].config.identity = proc[other.by].config.identity

DirSpec == DirInit /\ [][DirNext]_dirVars
=============================================================================
