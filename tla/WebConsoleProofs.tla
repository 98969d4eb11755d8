-------------------------- MODULE WebConsoleProofs --------------------------
(***************************************************************************)
(* What a browser may believe of a run directory, and what a refused call  *)
(* leaves in one, for any number of threads, processes and directories.    *)
(***************************************************************************)
EXTENDS WebConsole, TLAPS

Author == Proc \cup {Nobody}
Kind == {"started", "finished", "interrupted", "revised", "profile"}
Line == [by : Proc, kind : Kind]

File ==
  [made : BOOLEAN, lock : BOOLEAN, holder : Author, job : Author, manifest : Author,
   journal : Seq(Line), report : Author, error : Author]

Place == {"idle", "starting", "called", "inspected", "locked", "opened", "working", "reported",
          "ended", "refused", "failed", "dead", "explained"}

Caller ==
  [phase : Place, mode : {"none", "fresh", "resume", "profile"}, dir : Dir, config : Config,
   stored : Author]

Types == dir \in [Dir -> File] /\ proc \in [Proc -> Caller]

(* Where a process has the lock, and where it has written nothing yet.     *)
Holding == {"locked", "opened", "working", "reported"}
Before == {"idle", "starting", "called", "inspected", "locked", "opened", "refused"}

Wrote(p, file) ==
  \/ p = file.manifest \/ p = file.report
  \/ \E n \in DOMAIN file.journal : file.journal[n].by = p

(* The holder of a lock is a process that is where it says, under it; who  *)
(* has not passed Declare has written nothing.                             *)
HoldersAreAtWork ==
  \A d \in Dir : dir[d].holder # Nobody =>
    proc[dir[d].holder].dir = d /\ proc[dir[d].holder].phase \in Holding

SilentBefore == \A p \in Proc, d \in Dir : proc[p].phase \in Before => ~Wrote(p, dir[d])

(* A report is written over a journal that has lines.                      *)
ReportsHaveJournals == \A d \in Dir : dir[d].report # Nobody => dir[d].journal # <<>>

DirInv == Types /\ HoldersAreAtWork /\ SilentBefore /\ ReportsHaveJournals

(* What a file only gains.                                                 *)
Grows(old, new) ==
  /\ old.journal # <<>> => new.journal # <<>>
  /\ old.report # Nobody => new.report # Nobody
  /\ new.report # Nobody /\ old.report = Nobody => old.journal # <<>>

FilesGrow == \A d \in Dir : Grows(dir[d], dir'[d])

(* What any step of a process is to a directory: it takes the lock or      *)
(* gives it up, and leaves its name in files once it has declared itself.  *)
Acts(p, d) ==
  /\ dir' \in [Dir -> File] /\ proc' \in [Proc -> Caller]
  /\ \A e \in Dir \ {d} : dir'[e] = dir[e]
  /\ \A q \in Proc \ {p} : proc'[q] = proc[q]
  /\ d = proc[p].dir \/ proc[p].phase = "idle"
  /\ dir'[d].holder \in {dir[d].holder, Nobody, p}
  /\ dir'[d].holder = p => proc'[p].dir = d /\ proc'[p].phase \in Holding
  /\ proc'[p].phase \in Before => proc[p].phase \in Before
  /\ \A q \in Proc :
       Wrote(q, dir'[d]) => Wrote(q, dir[d]) \/ (q = p /\ proc'[p].phase \notin Before)
  /\ Grows(dir[d], dir'[d])

(* Such a step keeps the invariant, whoever takes it.                      *)
LEMMA ActsKeeps ==
  ASSUME DirInv, NEW p \in Proc, NEW d \in Dir, Acts(p, d)
  PROVE  DirInv' /\ FilesGrow
<1>1. Types'
  BY DEF Acts, Types
<1>2. FilesGrow
  BY DEF Acts, FilesGrow, Grows
<1>3. ReportsHaveJournals'
  BY <1>2 DEF FilesGrow, Grows, DirInv, ReportsHaveJournals
<1>4. SilentBefore'
  <2> SUFFICES ASSUME NEW q \in Proc, NEW e \in Dir, proc'[q].phase \in Before, Wrote(q, dir'[e])
               PROVE  FALSE
    BY DEF SilentBefore, Wrote
  <2>1. proc[q].phase \in Before
    BY DEF Acts
  <2>2. Wrote(q, dir[e])
    BY DEF Acts
  <2>3. QED
    BY <2>1, <2>2 DEF DirInv, SilentBefore
<1>5. HoldersAreAtWork'
  <2> SUFFICES ASSUME NEW e \in Dir, dir'[e].holder # Nobody
               PROVE  /\ proc'[dir'[e].holder].dir = e
                      /\ proc'[dir'[e].holder].phase \in Holding
    BY DEF HoldersAreAtWork
  <2>1. dir'[e].holder \in Proc
    BY DEF Acts, File, Author
  <2>2. CASE dir'[e].holder = p /\ e = d
    BY <2>2 DEF Acts
  <2>3. CASE dir'[e].holder = p /\ e # d
    BY <2>3 DEF Acts, DirInv, HoldersAreAtWork, Holding
  <2>4. CASE dir'[e].holder # p
    BY <2>1, <2>4 DEF Acts, DirInv, HoldersAreAtWork
  <2>5. QED
    BY <2>2, <2>3, <2>4
<1>6. QED
  BY <1>1, <1>2, <1>3, <1>4, <1>5 DEF DirInv

(* A process that moves on and writes nothing.                             *)
LEMMA MovesOn ==
  ASSUME DirInv, NEW p \in Proc, UNCHANGED dir,
         NEW c \in Caller, proc' = [proc EXCEPT ![p] = c],
         c.dir = proc[p].dir \/ proc[p].phase = "idle",
         proc[p].phase \in Holding => c.phase \in Holding,
         c.phase \in Before => proc[p].phase \in Before
  PROVE  Acts(p, proc[p].dir)
<1>1. proc' \in [Proc -> Caller] /\ proc'[p] = c /\ \A q \in Proc \ {p} : proc'[q] = proc[q]
  BY DEF DirInv, Types
<1>2. proc[p].dir \in Dir
  BY DEF DirInv, Types, Caller
<1>3. dir[proc[p].dir].holder = p => c.dir = proc[p].dir /\ c.phase \in Holding
  BY <1>2, NobodyAssumption DEF DirInv, HoldersAreAtWork, Holding
<1>4. QED
  BY <1>1, <1>2, <1>3 DEF Acts, DirInv, Types, Grows

(* A process that gives up the lock, if it has it, and stops.              *)
LEMMA Releases ==
  ASSUME DirInv, NEW p \in Proc, NEW phase \in {"ended", "failed", "dead", "refused"},
         ReleaseBy(p, phase),
         phase = "refused" => proc[p].phase \in Before
  PROVE  Acts(p, proc[p].dir)
<1> DEFINE d == proc[p].dir
<1>1. d \in Dir /\ dir[d] \in File /\ proc[p] \in Caller
  BY DEF DirInv, Types, Caller
<1>2. /\ dir' \in [Dir -> File]
      /\ \A e \in Dir \ {d} : dir'[e] = dir[e]
      /\ dir'[d].holder \in {dir[d].holder, Nobody} \ {p}
      /\ dir'[d].manifest = dir[d].manifest
      /\ dir'[d].journal = dir[d].journal
      /\ dir'[d].report = dir[d].report
  BY <1>1, NobodyAssumption DEF ReleaseBy, DirInv, Types, File, Author
<1>3. /\ proc' \in [Proc -> Caller]
      /\ \A q \in Proc \ {p} : proc'[q] = proc[q]
      /\ proc'[p].phase = phase
  BY <1>1 DEF ReleaseBy, To, DirInv, Types, Caller, Place
<1>4. QED
  BY <1>1, <1>2, <1>3 DEF Acts, Wrote, Grows, Before

(* The lines that a process appends are its own,                           *)
Lines(p, kinds) == [n \in DOMAIN kinds |-> [by |-> p, kind |-> kinds[n]]]

(* They are lines of a journal.                                            *)
LEMMA LinesAreOwn ==
  ASSUME NEW p \in Proc, NEW kinds \in Seq(Kind)
  PROVE  /\ Lines(p, kinds) \in Seq(Line)
         /\ \A n \in DOMAIN Lines(p, kinds) : Lines(p, kinds)[n].by = p
<1>1. Len(kinds) \in Nat /\ DOMAIN kinds = 1 .. Len(kinds)
  OBVIOUS
<1>2. Lines(p, kinds) \in [1 .. Len(kinds) -> Line]
  BY <1>1 DEF Line, Lines
<1>3. QED
  BY <1>1, <1>2 DEF Lines

(* and leave the others where they are.                                    *)
LEMMA Appending ==
  ASSUME NEW s \in Seq(Line), NEW l \in Seq(Line)
  PROVE  /\ s \o l \in Seq(Line)
         /\ s # <<>> => s \o l # <<>>
         /\ \A n \in DOMAIN (s \o l) :
              \/ n \in DOMAIN s /\ (s \o l)[n] = s[n]
              \/ n - Len(s) \in DOMAIN l /\ (s \o l)[n] = l[n - Len(s)]
  OBVIOUS

(* What a journal holds after that.                                        *)
LEMMA AppendedLines ==
  ASSUME DirInv, NEW p \in Proc, NEW kinds \in Seq(Kind)
  PROVE  LET t == Appended(p, kinds)
             s == dir[proc[p].dir].journal
         IN  /\ t \in Seq(Line)
             /\ s # <<>> => t # <<>>
             /\ \A n \in DOMAIN t : (n \in DOMAIN s /\ t[n] = s[n]) \/ t[n].by = p
<1> DEFINE t == Appended(p, kinds)
           s == dir[proc[p].dir].journal
           l == Lines(p, kinds)
<1>1. proc[p].dir \in Dir /\ dir[proc[p].dir] \in File
  BY DEF DirInv, Types, Caller
<1>2. s \in Seq(Line)
  BY <1>1 DEF File
<1>3. l \in Seq(Line) /\ \A n \in DOMAIN l : l[n].by = p
  BY LinesAreOwn
<1>4. t = s \o l
  BY DEF Appended, Lines
<1> HIDE DEF t, l, s
<1>5. /\ t \in Seq(Line)
      /\ s # <<>> => t # <<>>
      /\ \A n \in DOMAIN t :
           \/ n \in DOMAIN s /\ t[n] = s[n]
           \/ n - Len(s) \in DOMAIN l /\ t[n] = l[n - Len(s)]
  BY <1>2, <1>3, <1>4, Appending
<1>6. \A n \in DOMAIN t : (n \in DOMAIN s /\ t[n] = s[n]) \/ t[n].by = p
  BY <1>3, <1>5
<1>7. QED
  BY <1>5, <1>6 DEF t, s

(* A process that writes under the lock, and may give it up with it.       *)
LEMMA Writes ==
  ASSUME DirInv, NEW p \in Proc, NEW file \in File, NEW c \in Caller,
         dir' = [dir EXCEPT ![proc[p].dir] = file], proc' = [proc EXCEPT ![p] = c],
         c.dir = proc[p].dir, c.phase \notin Before,
         file.holder = Nobody \/ (c.phase \in Holding /\ file.holder = dir[proc[p].dir].holder),
         \A q \in Proc : Wrote(q, file) => Wrote(q, dir[proc[p].dir]) \/ q = p,
         Grows(dir[proc[p].dir], file)
  PROVE  Acts(p, proc[p].dir)
<1> DEFINE d == proc[p].dir
<1>1. d \in Dir /\ dir \in [Dir -> File] /\ proc \in [Proc -> Caller]
  BY DEF DirInv, Types, Caller
<1>2. dir' \in [Dir -> File] /\ dir'[d] = file /\ \A e \in Dir \ {d} : dir'[e] = dir[e]
  BY <1>1
<1>3. proc' \in [Proc -> Caller] /\ proc'[p] = c /\ \A q \in Proc \ {p} : proc'[q] = proc[q]
  BY <1>1
<1>4. file.holder = p => c.phase \in Holding
  BY NobodyAssumption
<1>5. QED
  BY <1>1, <1>2, <1>3, <1>4 DEF Acts

(* A process that appends to the journal under the lock.                   *)
LEMMA AppendsLines ==
  ASSUME DirInv, NEW p \in Proc, NEW kinds \in Seq(Kind), NEW c \in Caller,
         NEW holder \in Author, NEW file,
         file = [dir[proc[p].dir] EXCEPT !.journal = Appended(p, kinds), !.holder = holder],
         dir' = [dir EXCEPT ![proc[p].dir] = file], proc' = [proc EXCEPT ![p] = c],
         c.dir = proc[p].dir, c.phase \notin Before,
         holder = Nobody \/ (c.phase \in Holding /\ holder = dir[proc[p].dir].holder)
  PROVE  Acts(p, proc[p].dir)
<1> DEFINE d == proc[p].dir
           t == Appended(p, kinds)
<1>1. d \in Dir /\ dir[d] \in File
  BY DEF DirInv, Types, Caller
<1>2. /\ t \in Seq(Line)
      /\ dir[d].journal # <<>> => t # <<>>
      /\ \A n \in DOMAIN t :
           (n \in DOMAIN dir[d].journal /\ t[n] = dir[d].journal[n]) \/ t[n].by = p
  BY AppendedLines
<1> HIDE DEF t
<1>3. file = [dir[d] EXCEPT !.journal = t, !.holder = holder]
  BY DEF t
<1>4. /\ file \in File /\ file.holder = holder /\ file.manifest = dir[d].manifest
      /\ file.journal = t /\ file.report = dir[d].report
  BY <1>1, <1>2, <1>3 DEF File
<1>5. \A q \in Proc : Wrote(q, file) => Wrote(q, dir[d]) \/ q = p
  BY <1>2, <1>4 DEF Wrote
<1>6. Grows(dir[d], file)
  BY <1>2, <1>4 DEF Grows
<1>7. QED
  BY <1>4, <1>5, <1>6, Writes

(* One line at a time, of one of these kinds.                              *)
LEMMA OneLine ==
  ASSUME NEW k \in Kind
  PROVE  <<k>> \in Seq(Kind)
OBVIOUS

(* To() as the caller that it makes.                                       *)
LEMMA Goes ==
  ASSUME DirInv, NEW p \in Proc, NEW phase \in Place, To(p, phase)
  PROVE  \E c \in Caller :
           proc' = [proc EXCEPT ![p] = c] /\ c.phase = phase /\ c.dir = proc[p].dir
<1> DEFINE c == [proc[p] EXCEPT !.phase = phase]
<1>1. c \in Caller /\ c.phase = phase /\ c.dir = proc[p].dir
  BY DEF DirInv, Types, Caller
<1>2. proc' = [proc EXCEPT ![p] = c]
  BY DEF To
<1>3. QED
  BY <1>1, <1>2

(* Every step of a process in its directory.                               *)
LEMMA StepActs ==
  ASSUME DirInv, NEW p \in Proc, Step(p) \/ Die(p)
  PROVE  Acts(p, proc[p].dir)
<1> DEFINE d == proc[p].dir
<1>1. d \in Dir /\ dir[d] \in File /\ proc[p] \in Caller
  BY DEF DirInv, Types, Caller
<1>2. CASE Inspect(p)
  <2>1. CASE proc' = [proc EXCEPT ![p].phase = "inspected", ![p].stored = dir[d].manifest]
    <3> DEFINE c == [proc[p] EXCEPT !.phase = "inspected", !.stored = dir[d].manifest]
    <3>1. c \in Caller /\ c.phase = "inspected" /\ c.dir = d
      BY <1>1 DEF Caller, File, Place
    <3>2. proc' = [proc EXCEPT ![p] = c]
      BY <2>1, <1>1 DEF DirInv, Types
    <3>3. QED
      BY <1>2, <3>1, <3>2, MovesOn DEF Inspect, Before, Holding
  <2>2. CASE To(p, "inspected") \/ To(p, "refused")
    <3>1. PICK c \in Caller : /\ proc' = [proc EXCEPT ![p] = c] /\ c.dir = d
                              /\ c.phase \in {"inspected", "refused"}
      BY <2>2, Goes DEF Place
    <3>2. QED
      BY <1>2, <3>1, MovesOn DEF Inspect, Before, Holding
  <2>3. QED
    BY <1>2, <2>1, <2>2 DEF Inspect
<1>3. CASE AcquireRunLock(p)
  <2> DEFINE free == dir[d].holder = Nobody
             file == [dir[d] EXCEPT !.made = TRUE, !.lock = TRUE,
                                    !.holder = IF free THEN p ELSE @]
  <2>1. PICK c \in Caller : /\ proc' = [proc EXCEPT ![p] = c] /\ c.dir = d
                            /\ c.phase = IF free THEN "locked" ELSE "refused"
    BY <1>3, Goes DEF AcquireRunLock, Place
  <2>2. /\ file \in File /\ file.holder = IF free THEN p ELSE dir[d].holder
        /\ file.manifest = dir[d].manifest /\ file.journal = dir[d].journal
        /\ file.report = dir[d].report
    BY <1>1 DEF File, Author
  <2>3. dir' = [dir EXCEPT ![d] = file]
    BY <1>3 DEF AcquireRunLock
  <2>4. /\ dir' \in [Dir -> File] /\ dir'[d] = file
        /\ \A e \in Dir \ {d} : dir'[e] = dir[e]
    BY <1>1, <2>2, <2>3 DEF DirInv, Types
  <2>5. /\ proc' \in [Proc -> Caller] /\ proc'[p] = c
        /\ \A q \in Proc \ {p} : proc'[q] = proc[q]
    BY <2>1 DEF DirInv, Types
  <2>6. proc[p].phase = "inspected"
    BY <1>3 DEF AcquireRunLock
  <2>7. dir[d].holder # p
    BY <1>1, <2>6, NobodyAssumption DEF DirInv, HoldersAreAtWork, Holding
  <2> HIDE DEF file
  <2>8. file.holder = p => c.phase \in Holding
    BY <2>1, <2>2, <2>7 DEF Holding
  <2>9. QED
    BY <1>1, <2>1, <2>2, <2>4, <2>5, <2>6, <2>8 DEF Acts, Wrote, Grows, Before
<1>4. CASE OpenJournal(p)
  <2>1. PICK c \in Caller : /\ proc' = [proc EXCEPT ![p] = c] /\ c.dir = d
                            /\ c.phase = "opened"
    BY <1>4, Goes DEF OpenJournal, Place
  <2>2. QED
    BY <1>4, <2>1, MovesOn DEF OpenJournal, Before, Holding
<1>5. CASE RefuseIdentity(p)
  BY <1>5, Releases DEF RefuseIdentity, Before
<1>6. CASE Declare(p)
  <2>1. PICK c \in Caller : /\ proc' = [proc EXCEPT ![p] = c] /\ c.dir = d
                            /\ c.phase = "working"
    BY <1>6, Goes DEF Declare, Place
  <2>2. CASE dir' = [dir EXCEPT ![d].manifest = p]
    <3> DEFINE file == [dir[d] EXCEPT !.manifest = p]
    <3>1. /\ file \in File /\ file.holder = dir[d].holder
          /\ file.manifest = p /\ file.journal = dir[d].journal
          /\ file.report = dir[d].report
      BY <1>1 DEF File, Author
    <3>2. dir' = [dir EXCEPT ![d] = file]
      BY <2>2
    <3> HIDE DEF file
    <3>3. \A q \in Proc : Wrote(q, file) => Wrote(q, dir[d]) \/ q = p
      BY <3>1 DEF Wrote
    <3>4. Grows(dir[d], file)
      BY <3>1 DEF Grows
    <3>5. c.phase \notin Before /\ c.phase \in Holding
      BY <2>1 DEF Before, Holding
    <3>6. QED
      BY <2>1, <3>1, <3>2, <3>3, <3>4, <3>5, Writes
  <2>3. CASE dir' = [dir EXCEPT ![d].journal = Appended(p, <<"revised">>)]
    <3> DEFINE file == [dir[d] EXCEPT !.journal = Appended(p, <<"revised">>)]
    <3>1. file = [dir[d] EXCEPT !.journal = Appended(p, <<"revised">>), !.holder = dir[d].holder]
      BY <1>1 DEF File
    <3>2. dir' = [dir EXCEPT ![d] = file]
      BY <2>3
    <3> HIDE DEF file
    <3>3. dir[d].holder \in Author
      BY <1>1 DEF File
    <3>4. <<"revised">> \in Seq(Kind)
      BY OneLine DEF Kind
    <3>5. QED
      BY <2>1, <3>1, <3>2, <3>3, <3>4, AppendsLines DEF Before, Holding
  <2>4. CASE UNCHANGED dir
    BY <1>6, <2>1, <2>4, MovesOn DEF Declare, Before, Holding
  <2>5. QED
    BY <1>6, <2>2, <2>3, <2>4 DEF Declare
<1>7. CASE Attempt(p)
  <2>1. PICK kinds \in Seq(Kind) : dir' = [dir EXCEPT ![d].journal = Appended(p, kinds)]
    <3>1. PICK k \in Kind : dir' = [dir EXCEPT ![d].journal = Appended(p, <<k>>)]
      BY <1>7 DEF Attempt, Kind
    <3>2. <<k>> \in Seq(Kind)
      BY OneLine
    <3>3. QED
      BY <3>1, <3>2
  <2> DEFINE file == [dir[d] EXCEPT !.journal = Appended(p, kinds)]
  <2>2. file = [dir[d] EXCEPT !.journal = Appended(p, kinds), !.holder = dir[d].holder]
    BY <1>1 DEF File
  <2>3. dir' = [dir EXCEPT ![d] = file]
    BY <2>1
  <2>4. proc' = [proc EXCEPT ![p] = proc[p]]
    BY <1>7 DEF Attempt, DirInv, Types
  <2>5. proc[p].phase = "working" /\ dir[d].holder \in Author
    BY <1>1, <1>7 DEF Attempt, File
  <2> HIDE DEF file
  <2>6. QED
    BY <1>1, <2>2, <2>3, <2>4, <2>5, AppendsLines DEF Before, Holding
<1>8. CASE Profile(p)
  <2>1. PICK kinds \in Seq(Kind) :
          dir' = [dir EXCEPT ![d] = [@ EXCEPT !.journal = Appended(p, kinds), !.holder = Nobody]]
    <3>1. <<>> \in Seq(Kind) /\ <<"profile">> \in Seq(Kind)
      BY OneLine DEF Kind
    <3>2. QED
      BY <1>8, <3>1 DEF Profile
  <2> DEFINE file == [dir[d] EXCEPT !.journal = Appended(p, kinds), !.holder = Nobody]
  <2>2. dir' = [dir EXCEPT ![d] = file]
    BY <2>1
  <2>3. PICK c \in Caller : /\ proc' = [proc EXCEPT ![p] = c] /\ c.dir = d
                            /\ c.phase = "ended"
    BY <1>8, Goes DEF Profile, Place
  <2> HIDE DEF file
  <2>4. Nobody \in Author
    BY DEF Author
  <2>5. QED
    BY <2>2, <2>3, <2>4, AppendsLines DEF Before, Holding, file
<1>9. CASE WriteReport(p)
  <2> DEFINE file == [dir[d] EXCEPT !.report = p]
  <2>1. PICK c \in Caller : /\ proc' = [proc EXCEPT ![p] = c] /\ c.dir = d
                            /\ c.phase = "reported"
    BY <1>9, Goes DEF WriteReport, Place
  <2>2. /\ file \in File /\ file.holder = dir[d].holder
        /\ file.manifest = dir[d].manifest /\ file.journal = dir[d].journal
        /\ file.report = p
    BY <1>1 DEF File, Author
  <2>3. dir' = [dir EXCEPT ![d] = file] /\ dir[d].journal # <<>>
    BY <1>9 DEF WriteReport
  <2> HIDE DEF file
  <2>4. \A q \in Proc : Wrote(q, file) => Wrote(q, dir[d]) \/ q = p
    BY <2>2 DEF Wrote
  <2>5. Grows(dir[d], file)
    BY <2>2, <2>3, NobodyAssumption DEF Grows
  <2>6. c.phase \notin Before /\ c.phase \in Holding
    BY <2>1 DEF Before, Holding
  <2>7. QED
    BY <2>1, <2>2, <2>3, <2>4, <2>5, <2>6, Writes
<1>10. CASE Return(p) \/ Raise(p) \/ Die(p)
  BY <1>10, Releases DEF Return, Raise, Die
<1>11. QED
  BY <1>2, <1>3, <1>4, <1>5, <1>6, <1>7, <1>8, <1>9, <1>10 DEF Step

(* A process that is called has written nothing, and a directory that is   *)
(* made for it, with its job.json, is as it was otherwise.                 *)
LEMMA Begins ==
  ASSUME DirInv, NEW p \in Proc, NEW d \in Dir, NEW file \in File, NEW c \in Caller,
         proc[p].phase = "idle",
         dir' = [dir EXCEPT ![d] = file], proc' = [proc EXCEPT ![p] = c],
         c.dir = d, c.phase \notin Holding,
         file.holder = dir[d].holder, file.manifest = dir[d].manifest,
         file.journal = dir[d].journal, file.report = dir[d].report
  PROVE  Acts(p, d)
<1>1. dir' \in [Dir -> File] /\ dir'[d] = file /\ \A e \in Dir \ {d} : dir'[e] = dir[e]
  BY DEF DirInv, Types
<1>2. proc' \in [Proc -> Caller] /\ proc'[p] = c /\ \A q \in Proc \ {p} : proc'[q] = proc[q]
  BY DEF DirInv, Types
<1>3. file.holder # p
  BY NobodyAssumption DEF DirInv, HoldersAreAtWork, Holding
<1>4. \A q \in Proc : Wrote(q, file) => Wrote(q, dir[d])
  BY DEF Wrote
<1>5. Grows(dir[d], file)
  BY DEF Grows
<1>6. proc[p].phase \in Before
  BY DEF Before
<1>7. QED
  BY <1>1, <1>2, <1>3, <1>4, <1>5, <1>6 DEF Acts

(* A call from the command line.                                           *)
LEMMA CallActs ==
  ASSUME DirInv, NEW p \in Proc, NEW d \in Dir, Call(p, d)
  PROVE  Acts(p, d)
<1>1. PICK c \in Config : CallFresh(p, d, c) \/ CallResume(p, d, c) \/ CallProfile(p, d, c)
  BY DEF Call
<1>2. dir[d] \in File /\ dir' = [dir EXCEPT ![d] = dir[d]]
  BY <1>1 DEF CallFresh, CallResume, CallProfile, DirInv, Types
<1>3. proc[p].phase = "idle"
  BY <1>1 DEF CallFresh, CallResume, CallProfile
<1>4. \E caller \in Caller : /\ proc' = [proc EXCEPT ![p] = caller]
                             /\ caller.dir = d /\ caller.phase \notin Holding
  <2>1. CASE CallFresh(p, d, c)
    <3>1. Called("fresh", d, c) \in Caller
      BY DEF Called, Caller, Place, Author
    <3>2. Called("fresh", d, c).dir = d /\ Called("fresh", d, c).phase = "called"
      BY DEF Called
    <3>3. QED
      BY <2>1, <3>1, <3>2 DEF CallFresh, Holding
  <2>2. CASE CallResume(p, d, c)
    <3>1. Called("resume", d, c) \in Caller
      BY DEF Called, Caller, Place, Author
    <3>2. Called("resume", d, c).dir = d /\ Called("resume", d, c).phase = "called"
      BY DEF Called
    <3>3. QED
      BY <2>2, <3>1, <3>2 DEF CallResume, Holding
  <2>3. CASE CallProfile(p, d, c)
    <3> DEFINE called == Called("profile", d, c)
               caller == [called EXCEPT !.phase = "inspected", !.stored = dir[d].manifest]
    <3>1. called \in Caller /\ called.dir = d
      BY DEF Called, Caller, Place, Author
    <3>2. proc' = [proc EXCEPT ![p] = caller]
      BY <2>3 DEF CallProfile
    <3> HIDE DEF called
    <3>3. caller \in Caller /\ caller.dir = d /\ caller.phase = "inspected"
      BY <1>2, <3>1 DEF Caller, Place, File
    <3>4. QED
      BY <3>2, <3>3 DEF Holding
  <2>4. QED
    BY <1>1, <2>1, <2>2, <2>3
<1>5. QED
  BY <1>2, <1>3, <1>4, Begins

(* A start from the console: the directory and its job.json.               *)
LEMMA StartActs ==
  ASSUME DirInv, NEW w \in Web, NEW d \in RunsRoot, NEW c \in Form, StartRun(w, d, c)
  PROVE  Acts(w, d)
<1> DEFINE file == [dir[d] EXCEPT !.made = TRUE, !.job = w]
           caller == [Called("fresh", d, c) EXCEPT !.phase = "starting"]
<1>1. w \in Proc /\ d \in Dir /\ c \in Config /\ dir[d] \in File
  BY WebAssumption, RootAssumption DEF DirInv, Types
<1>2. /\ file \in File /\ file.holder = dir[d].holder /\ file.manifest = dir[d].manifest
      /\ file.journal = dir[d].journal /\ file.report = dir[d].report
  BY <1>1 DEF File, Author
<1>3. caller = [phase |-> "starting", mode |-> "fresh", dir |-> d, config |-> c,
                stored |-> Nobody]
  BY DEF Called
<1>4. /\ proc[w].phase = "idle"
      /\ dir' = [dir EXCEPT ![d] = file] /\ proc' = [proc EXCEPT ![w] = caller]
  BY DEF StartRun
<1> HIDE DEF file, caller
<1>5. caller \in Caller /\ caller.dir = d /\ caller.phase \notin Holding
  BY <1>1, <1>3 DEF Caller, Place, Holding, Author
<1>6. QED
  BY <1>1, <1>2, <1>4, <1>5, Begins

(* A thread of the console: what optimize() does not do itself.            *)
LEMMA ThreadActs ==
  ASSUME DirInv, NEW w \in Web, BuildGenerator(w) \/ Explain(w)
  PROVE  Acts(w, proc[w].dir)
<1> DEFINE d == proc[w].dir
           file == [dir[d] EXCEPT !.error = w]
<1>1. w \in Proc /\ d \in Dir /\ dir[d] \in File
  BY WebAssumption DEF DirInv, Types, Caller
<1>2. CASE BuildGenerator(w)
  <2>1. PICK c \in Caller : /\ proc' = [proc EXCEPT ![w] = c] /\ c.dir = d
                            /\ c.phase \in {"called", "failed"}
    BY <1>1, <1>2, Goes DEF BuildGenerator, Place
  <2>2. QED
    BY <1>1, <1>2, <2>1, MovesOn DEF BuildGenerator, Before, Holding
<1>3. CASE Explain(w)
  <2>1. PICK c \in Caller : /\ proc' = [proc EXCEPT ![w] = c] /\ c.dir = d
                            /\ c.phase = "explained"
    BY <1>1, <1>3, Goes DEF Explain, Place
  <2>2. /\ file \in File /\ file.holder = dir[d].holder /\ file.manifest = dir[d].manifest
        /\ file.journal = dir[d].journal /\ file.report = dir[d].report
    BY <1>1 DEF File, Author
  <2>3. dir' = [dir EXCEPT ![d] = file] /\ proc[w].phase \in {"refused", "failed"}
    BY <1>3 DEF Explain
  <2> HIDE DEF file
  <2>4. /\ dir' \in [Dir -> File] /\ dir'[d] = file
        /\ \A e \in Dir \ {d} : dir'[e] = dir[e]
    BY <1>1, <2>2, <2>3 DEF DirInv, Types
  <2>5. /\ proc' \in [Proc -> Caller] /\ proc'[w] = c
        /\ \A q \in Proc \ {w} : proc'[q] = proc[q]
    BY <1>1, <2>1 DEF DirInv, Types
  <2>6. file.holder # w
    BY <1>1, <2>2, <2>3, NobodyAssumption DEF DirInv, HoldersAreAtWork, Holding
  <2>7. \A q \in Proc : Wrote(q, file) => Wrote(q, dir[d])
    BY <2>2 DEF Wrote
  <2>8. Grows(dir[d], file)
    BY <2>2 DEF Grows
  <2>9. QED
    BY <2>1, <2>2, <2>4, <2>5, <2>6, <2>7, <2>8 DEF Acts, Before
<1>4. QED
  BY <1>2, <1>3

(* The server takes its threads and their locks with it.                   *)
LEMMA DeathKeeps ==
  ASSUME DirInv, ServerDies
  PROVE  DirInv' /\ FilesGrow
<1>1. ASSUME NEW d \in Dir
      PROVE  /\ dir'[d] \in File /\ dir'[d].manifest = dir[d].manifest
             /\ dir'[d].journal = dir[d].journal /\ dir'[d].report = dir[d].report
             /\ dir'[d].holder = IF dir[d].holder \in active_run_id
                                 THEN Nobody ELSE dir[d].holder
  BY DEF ServerDies, DirInv, Types, File, Author
<1>2. ASSUME NEW p \in Proc
      PROVE  /\ proc'[p] \in Caller /\ proc'[p].dir = proc[p].dir
             /\ p \in active_run_id => proc'[p].phase = "dead"
             /\ p \notin active_run_id => proc'[p] = proc[p]
  BY DEF ServerDies, DirInv, Types, Caller, Place
<1>3. Types'
  BY <1>1, <1>2 DEF Types, ServerDies
<1>4. FilesGrow
  BY <1>1 DEF FilesGrow, Grows
<1>5. ReportsHaveJournals'
  BY <1>1 DEF DirInv, ReportsHaveJournals
<1>6. SilentBefore'
  <2> SUFFICES ASSUME NEW p \in Proc, NEW d \in Dir, proc'[p].phase \in Before, Wrote(p, dir'[d])
               PROVE  FALSE
    BY DEF SilentBefore, Wrote
  <2>1. Wrote(p, dir[d])
    BY <1>1 DEF Wrote
  <2>2. proc[p].phase \in Before
    BY <1>2 DEF Before
  <2>3. QED
    BY <2>1, <2>2 DEF DirInv, SilentBefore
<1>7. HoldersAreAtWork'
  <2> SUFFICES ASSUME NEW d \in Dir, dir'[d].holder # Nobody
               PROVE  /\ proc'[dir'[d].holder].dir = d
                      /\ proc'[dir'[d].holder].phase \in Holding
    BY DEF HoldersAreAtWork
  <2>1. dir'[d].holder = dir[d].holder /\ dir[d].holder \notin active_run_id
    BY <1>1
  <2>2. dir[d].holder \in Proc
    BY <2>1 DEF DirInv, Types, File, Author
  <2>3. QED
    BY <1>2, <2>1, <2>2 DEF DirInv, HoldersAreAtWork
<1>8. QED
  BY <1>3, <1>4, <1>5, <1>6, <1>7 DEF DirInv

(* A step that touches no directory and no process.                        *)
LEMMA RestKeeps ==
  ASSUME DirInv, UNCHANGED dirVars
  PROVE  DirInv' /\ FilesGrow
BY DEF dirVars, DirInv, Types, HoldersAreAtWork, SilentBefore, Wrote, ReportsHaveJournals,
       FilesGrow, Grows

(* Nothing has been written yet.                                           *)
LEMMA DirInitial ==
  ASSUME DirInit
  PROVE  DirInv
<1>1. Empty \in File
  BY DEF Empty, File, Author
<1>2. (CHOOSE d \in Dir : TRUE) \in Dir /\ (CHOOSE c \in Config : TRUE) \in Config
  BY DirAssumption, ConfigAssumption
<1>3. Types
  BY <1>1, <1>2 DEF DirInit, Types, Caller, Place, Author
<1>4. HoldersAreAtWork /\ ReportsHaveJournals
  BY DEF DirInit, Empty, HoldersAreAtWork, ReportsHaveJournals
<1>5. SilentBefore
  BY NobodyAssumption DEF DirInit, Empty, SilentBefore, Wrote
<1>6. QED
  BY <1>3, <1>4, <1>5 DEF DirInv

(* Every step of the system.                                               *)
LEMMA NextKeeps ==
  ASSUME DirInv, [Next]_vars
  PROVE  DirInv' /\ FilesGrow
<1>1. ASSUME NEW w \in Web, NEW d \in RunsRoot, NEW c \in Form, StartRun(w, d, c)
      PROVE  DirInv' /\ FilesGrow
  <2>1. w \in Proc /\ d \in Dir
    BY WebAssumption, RootAssumption
  <2>2. QED
    BY <1>1, <2>1, StartActs, ActsKeeps
<1>2. ASSUME NEW w \in Web, ThreadStep(w)
      PROVE  DirInv' /\ FilesGrow
  <2>1. w \in Proc /\ proc[w].dir \in Dir
    BY WebAssumption DEF DirInv, Types, Caller
  <2>2. Acts(w, proc[w].dir)
    BY <1>2, <2>1, StepActs, ThreadActs DEF ThreadStep
  <2>3. QED
    BY <2>1, <2>2, ActsKeeps
<1>3. ASSUME NEW p \in Proc \ Web, CommandLine(p)
      PROVE  DirInv' /\ FilesGrow
  <2>1. p \in Proc /\ proc[p].dir \in Dir
    BY DEF DirInv, Types, Caller
  <2>2. \E d \in Dir : Acts(p, d)
    BY <1>3, <2>1, CallActs, StepActs DEF CommandLine
  <2>3. QED
    BY <2>1, <2>2, ActsKeeps
<1>4. CASE ServerDies
  BY <1>4, DeathKeeps
<1>5. CASE ServerStarts \/ (\E d \in RunsRoot : Ask(d)) \/ ReadReport \/ ReadError \/ ReadJournal
  BY <1>5, RestKeeps DEF ServerStarts, Ask, ReadReport, ReadError, ReadJournal
<1>6. CASE UNCHANGED vars
  BY <1>6, RestKeeps DEF vars
<1>7. QED
  BY <1>1, <1>2, <1>3, <1>4, <1>5, <1>6 DEF Next

(* What every reachable set of run directories satisfies.                  *)
THEOREM RunDirectoriesHold == Spec => []DirInv
<1>1. Init => DirInv
  BY DirInitial DEF Init
<1>2. DirInv /\ [Next]_vars => DirInv'
  BY NextKeeps
<1>3. QED
  BY <1>1, <1>2, PTL DEF Spec

(* A call that is refused, because the lock is held, the directory is not  *)
(* as it should be or the identity differs, has left nothing behind.       *)
THEOREM RefusedWritesNothing == Spec => []RefusedLeavesNoTrace
<1>1. DirInv => RefusedLeavesNoTrace
  BY NobodyAssumption
     DEF DirInv, HoldersAreAtWork, SilentBefore, Wrote, Before, Holding, RefusedLeavesNoTrace
<1>2. QED
  BY <1>1, RunDirectoriesHold, PTL

(***************************************************************************)
(* The snapshot: what it has read so far was true when it read it, and the *)
(* files that it has yet to read only gain.                                *)
(***************************************************************************)
States == {"finished", "running", "infra_error", "unknown"}

View ==
  [at : {"none", "report", "error", "journal"}, dir : Dir, report : BOOLEAN, error : BOOLEAN,
   true : SUBSET States]

Believed(state) == state \in view.true
Journaled(d) == dir[d].journal # <<>>

ViewIsTrue ==
  /\ Believed(Durable(view.dir))
  /\ view.at # "report" =>
       /\ view.report => Believed("finished")
       /\ ~view.report /\ Journaled(view.dir) => Believed("running")
  /\ view.at = "journal" =>
       /\ ~Journaled(view.dir) /\ view.error => Believed("infra_error")
       /\ ~Journaled(view.dir) /\ ~view.error => Believed("unknown")

ViewInv == view \in View /\ (view.at # "none" => ViewIsTrue)

(* What the files of a directory say, where reports have journals,         *)
LEMMA Said ==
  ASSUME DirInv, NEW d \in Dir
  PROVE  /\ Durable(d) \in States
         /\ dir[d].report # Nobody => Durable(d) = "finished"
         /\ dir[d].report = Nobody /\ dir[d].journal # <<>> => Durable(d) = "running"
         /\ dir[d].journal = <<>> /\ dir[d].error # Nobody => Durable(d) = "infra_error"
         /\ dir[d].journal = <<>> /\ dir[d].error = Nobody => Durable(d) = "unknown"
  BY DEF DirInv, ReportsHaveJournals, Durable, States

(* and after a step.                                                       *)
LEMMA SaidNext ==
  ASSUME DirInv', NEW d \in Dir
  PROVE  /\ Durable(d)' \in States
         /\ dir'[d].report = Nobody /\ dir'[d].journal # <<>> => Durable(d)' = "running"
  BY DEF DirInv, ReportsHaveJournals, Durable, States

(* While others write, what the reader has seen stays as true as it was.   *)
LEMMA MeanwhileKeeps ==
  ASSUME DirInv, DirInv', FilesGrow, ViewInv, Meanwhile
  PROVE  ViewInv'
<1>1. CASE view.at = "none"
  BY <1>1 DEF Meanwhile, ViewInv
<1>2. CASE view.at # "none"
  <2>1. PICK d \in Dir : d = view.dir
    BY DEF ViewInv, View
  <2>2. view' = [view EXCEPT !.true = @ \cup {Durable(d)'}]
    BY <1>2, <2>1 DEF Meanwhile
  <2>3. Durable(d)' \in States
    BY <2>1, SaidNext
  <2>4. /\ view' \in View /\ view'.dir = d /\ view'.at = view.at
        /\ view'.report = view.report /\ view'.error = view.error
        /\ view'.true = view.true \cup {Durable(d)'}
    BY <2>1, <2>2, <2>3 DEF ViewInv, View
  <2>5. ViewIsTrue
    BY <1>2 DEF ViewInv
  <2>6. \A s : Believed(s) => Believed(s)'
    BY <2>4 DEF Believed
  <2>7. Durable(d)' \in view'.true
    BY <2>4
  <2>8. Journaled(d)' => Journaled(d) \/ Durable(d)' = "running"
    <3> SUFFICES ASSUME dir'[d].journal # <<>>, dir[d].journal = <<>>
                 PROVE  Durable(d)' = "running"
      BY DEF Journaled
    <3>1. dir[d].report = Nobody
      BY <2>1 DEF DirInv, ReportsHaveJournals
    <3>2. dir'[d].report = Nobody
      BY <2>1, <3>1 DEF FilesGrow, Grows
    <3>3. QED
      BY <2>1, <3>2, SaidNext
  <2>9. Journaled(d) => Journaled(d)'
    BY <2>1 DEF FilesGrow, Grows, Journaled
  <2>10. ViewIsTrue'
    <3>1. Believed(Durable(d))'
      BY <2>4, <2>7 DEF Believed
    <3>2. view.at # "report" /\ view.report => Believed("finished")'
      BY <2>1, <2>5, <2>6 DEF ViewIsTrue
    <3>3. view.at # "report" /\ ~view.report /\ Journaled(d)' => Believed("running")'
      BY <2>1, <2>5, <2>6, <2>7, <2>8 DEF ViewIsTrue, Believed
    <3>4. view.at = "journal" /\ ~Journaled(d)' /\ view.error => Believed("infra_error")'
      BY <2>1, <2>5, <2>6, <2>9 DEF ViewIsTrue
    <3>5. view.at = "journal" /\ ~Journaled(d)' /\ ~view.error => Believed("unknown")'
      BY <2>1, <2>5, <2>6, <2>9 DEF ViewIsTrue
    <3>6. QED
      BY <2>4, <3>1, <3>2, <3>3, <3>4, <3>5 DEF ViewIsTrue
  <2>11. QED
    BY <2>4, <2>10 DEF ViewInv
<1>3. QED
  BY <1>1, <1>2

(* A new view: nothing is believed of it, or what the files say right now. *)
LEMMA NoViewKeeps ==
  ASSUME view' = NoView
  PROVE  ViewInv'
<1>1. (CHOOSE d \in Dir : TRUE) \in Dir
  BY DirAssumption
<1>2. NoView \in View /\ NoView.at = "none"
  BY <1>1 DEF NoView, View
<1>3. QED
  BY <1>2 DEF ViewInv

(* The question.                                                           *)
LEMMA AskKeeps ==
  ASSUME DirInv, NEW d \in RunsRoot, Ask(d)
  PROVE  ViewInv'
<1>1. d \in Dir
  BY RootAssumption
<1>2. NoView \in View
  BY DirAssumption DEF NoView, View
<1>3. Durable(d) \in States
  BY <1>1, Said
<1>4. /\ view' \in View /\ view'.at = "report" /\ view'.dir = d
      /\ view'.true = {Durable(d)}
  BY <1>1, <1>2, <1>3 DEF Ask, View
<1>5. Durable(d)' = Durable(d)
  BY DEF Ask, dirVars, Durable
<1>6. Believed(Durable(d))'
  BY <1>4, <1>5 DEF Believed
<1>7. QED
  BY <1>4, <1>6 DEF ViewInv, ViewIsTrue

(* The first piece: report.json is there for good, or not there yet.       *)
LEMMA ReadReportKeeps ==
  ASSUME DirInv, ViewInv, ReadReport
  PROVE  ViewInv'
<1>1. PICK d \in Dir : d = view.dir
  BY DEF ViewInv, View
<1>2. view.at = "report" /\ ViewIsTrue /\ view \in View /\ dir' = dir
  BY DEF ReadReport, ViewInv, dirVars
<1>3. /\ view' \in View /\ view'.at = "error" /\ view'.dir = d /\ view'.true = view.true
      /\ view'.report = (dir[d].report # Nobody)
  BY <1>1, <1>2 DEF ReadReport, View
<1>4. Durable(d)' = Durable(d) /\ Durable(d) \in view.true
  BY <1>1, <1>2 DEF Durable, ViewIsTrue, Believed
<1>5. Believed(Durable(d))'
  BY <1>3, <1>4 DEF Believed
<1>6. dir[d].report # Nobody => Believed("finished")'
  BY <1>1, <1>3, <1>4, Said DEF Believed
<1>7. dir[d].report = Nobody /\ Journaled(d)' => Believed("running")'
  BY <1>1, <1>2, <1>3, <1>4, Said DEF Believed, Journaled
<1>8. QED
  BY <1>3, <1>5, <1>6, <1>7 DEF ViewInv, ViewIsTrue

(* The second piece: error.txt, and the journal is yet to be read.         *)
LEMMA ReadErrorKeeps ==
  ASSUME DirInv, ViewInv, ReadError
  PROVE  ViewInv'
<1>1. PICK d \in Dir : d = view.dir
  BY DEF ViewInv, View
<1>2. view.at = "error" /\ ViewIsTrue /\ view \in View /\ dir' = dir
  BY DEF ReadError, ViewInv, dirVars
<1>3. /\ view' \in View /\ view'.at = "journal" /\ view'.dir = d /\ view'.true = view.true
      /\ view'.report = view.report
      /\ view'.error = (dir[d].error # Nobody)
  BY <1>1, <1>2 DEF ReadError, View
<1>4. Durable(d)' = Durable(d) /\ Durable(d) \in view.true
  BY <1>1, <1>2 DEF Durable, ViewIsTrue, Believed
<1>5. Believed(Durable(d))'
  BY <1>3, <1>4 DEF Believed
<1>6. /\ view.report => Believed("finished")'
      /\ ~view.report /\ Journaled(d)' => Believed("running")'
  BY <1>1, <1>2, <1>3 DEF ViewIsTrue, Believed, Journaled
<1>7. /\ ~Journaled(d)' /\ dir[d].error # Nobody => Believed("infra_error")'
      /\ ~Journaled(d)' /\ dir[d].error = Nobody => Believed("unknown")'
  BY <1>1, <1>2, <1>3, <1>4, Said DEF Believed, Journaled
<1>8. QED
  BY <1>3, <1>5, <1>6, <1>7 DEF ViewInv, ViewIsTrue

(* Every step, for a reader in the middle of a snapshot.                   *)
LEMMA ViewKeeps ==
  ASSUME DirInv, ViewInv, [Next]_vars
  PROVE  ViewInv'
<1>1. DirInv' /\ FilesGrow
  BY NextKeeps
<1>2. CASE Meanwhile
  BY <1>1, <1>2, MeanwhileKeeps
<1>3. CASE view' = NoView
  BY <1>3, NoViewKeeps
<1>4. ASSUME NEW d \in RunsRoot, Ask(d)
      PROVE  ViewInv'
  BY <1>4, AskKeeps
<1>5. CASE ReadReport
  BY <1>5, ReadReportKeeps
<1>6. CASE ReadError
  BY <1>6, ReadErrorKeeps
<1>7. CASE UNCHANGED vars
  BY <1>7 DEF vars, dirVars, webVars, ViewInv, ViewIsTrue, Believed, Journaled, Durable
<1>8. Next => \/ Meanwhile \/ view' = NoView
              \/ (\E d \in RunsRoot : Ask(d)) \/ ReadReport \/ ReadError
  BY DEF Next, StartRun, ThreadStep, BuildGenerator, Explain, CommandLine, ServerDies,
         ServerStarts, ReadJournal
<1>9. QED
  BY <1>2, <1>3, <1>4, <1>5, <1>6, <1>7, <1>8

(* What a snapshot in progress knows of its directory, at every moment.    *)
THEOREM SnapshotKnows == Spec => [](DirInv /\ ViewInv)
<1>1. Init => DirInv /\ ViewInv
  <2>1. (CHOOSE d \in Dir : TRUE) \in Dir
    BY DirAssumption
  <2>2. NoView \in View /\ NoView.at = "none"
    BY <2>1 DEF NoView, View
  <2>3. QED
    BY <2>2, DirInitial DEF Init, ViewInv
<1>2. DirInv /\ ViewInv /\ [Next]_vars => (DirInv /\ ViewInv)'
  BY NextKeeps, ViewKeeps
<1>3. QED
  BY <1>1, <1>2, PTL DEF Spec

(* The answer of a snapshot was the state of the files at some instant     *)
(* between the question and the answer, whatever was written meanwhile.    *)
THEOREM SnapshotWasTrue == Spec => AnswerWasTrue
<1>1. ASSUME ViewInv, ReadJournal
      PROVE  Answer(Journaled(view.dir)) \in view.true
  <2>1. /\ view.report \in BOOLEAN /\ view.error \in BOOLEAN
        /\ view.at = "journal" /\ ViewIsTrue
    BY <1>1 DEF ReadJournal, ViewInv, View
  <2>2. /\ view.report => Believed("finished")
        /\ ~view.report /\ Journaled(view.dir) => Believed("running")
        /\ ~Journaled(view.dir) /\ view.error => Believed("infra_error")
        /\ ~Journaled(view.dir) /\ ~view.error => Believed("unknown")
    BY <2>1 DEF ViewIsTrue
  <2>3. QED
    BY <2>1, <2>2 DEF Answer, Believed
<1>2. DirInv /\ ViewInv /\ [Next]_vars
        => [ReadJournal => Answer(dir[view.dir].journal # <<>>) \in view.true]_vars
  BY <1>1 DEF Journaled
<1>3. QED
  BY <1>2, SnapshotKnows, PTL DEF Spec, AnswerWasTrue

(***************************************************************************)
(* Who may have worked in a directory.                                     *)
(***************************************************************************)

(* A process keeps what it was called with, and a resumed run the manifest *)
(* that it read; a directory keeps having a manifest, and its lines.       *)
Bound ==
  \A p \in Proc :
    /\ proc[p].phase # "idle" =>
         /\ proc'[p].mode = proc[p].mode /\ proc'[p].dir = proc[p].dir
         /\ proc'[p].config = proc[p].config
    /\ proc[p].phase \notin {"idle", "called"} => proc'[p].stored = proc[p].stored

FilesStay ==
  \A d \in Dir :
    /\ dir[d].manifest # Nobody => dir'[d].manifest # Nobody
    /\ \A n \in DOMAIN dir[d].journal :
         n \in DOMAIN dir'[d].journal /\ dir'[d].journal[n] = dir[d].journal[n]

(* The types that matter here.                                             *)
LEMMA Plain ==
  ASSUME DirInv
  PROVE  /\ \A d \in Dir : /\ dir[d] \in File /\ dir[d].manifest \in Author
                           /\ dir[d].journal \in Seq(Line)
         /\ \A p \in Proc : /\ proc[p] \in Caller /\ proc[p].dir \in Dir
                            /\ proc[p].stored \in Author
         /\ \A d \in Dir : \A n \in DOMAIN dir[d].journal :
              /\ n \in 1 .. Len(dir[d].journal)
              /\ dir[d].journal[n].by \in Proc
              /\ proc[dir[d].journal[n].by].phase \notin Before
<1>1. \A d \in Dir : dir[d] \in File /\ dir[d].manifest \in Author /\ dir[d].journal \in Seq(Line)
  BY DEF DirInv, Types, File
<1>2. \A p \in Proc : proc[p] \in Caller /\ proc[p].dir \in Dir /\ proc[p].stored \in Author
  BY DEF DirInv, Types, Caller
<1>3. ASSUME NEW d \in Dir, NEW n \in DOMAIN dir[d].journal
      PROVE  /\ n \in 1 .. Len(dir[d].journal)
             /\ dir[d].journal[n].by \in Proc
             /\ proc[dir[d].journal[n].by].phase \notin Before
  <2> DEFINE s == dir[d].journal
  <2>1. s \in Seq(Line)
    BY <1>1
  <2> HIDE DEF s
  <2>2. n \in 1 .. Len(s) /\ s[n] \in Line
    BY <2>1, <1>3 DEF s
  <2>3. s[n].by \in Proc
    BY <2>2 DEF Line
  <2>4. Wrote(s[n].by, dir[d])
    BY <1>3 DEF Wrote, s
  <2>5. QED
    BY <2>2, <2>3, <2>4 DEF s, DirInv, SilentBefore
<1>4. QED
  BY <1>1, <1>2, <1>3

(* Such steps keep the invariant where they change nothing it speaks of.   *)
LEMMA IdentityKept ==
  ASSUME DirInv, DirInv', IdentityHolds, Bound, FilesStay,
         \A d \in Dir : dir'[d].manifest = dir[d].manifest \/ ManifestHolds(d)',
         \A d \in Dir : \A n \in DOMAIN dir'[d].journal :
           n \in DOMAIN dir[d].journal \/ LineHolds(d, n)',
         \A p \in Proc : proc'[p] = proc[p] \/ (StoredHolds(p)' /\ PhaseHolds(p)')
  PROVE  IdentityHolds'
<1>1. \A p \in Proc : proc[p].mode # "none" => proc[p].phase # "idle"
  BY DEF IdentityHolds, PhaseHolds
<1>2. \A d \in Dir : ManifestHolds(d)'
  <2> SUFFICES ASSUME NEW d \in Dir, dir'[d].manifest = dir[d].manifest, dir[d].manifest # Nobody
               PROVE  proc'[dir[d].manifest].mode = "fresh" /\ proc'[dir[d].manifest].dir = d
    BY DEF ManifestHolds
  <2>1. dir[d].manifest \in Proc
    BY Plain DEF Author
  <2>2. proc[dir[d].manifest].mode = "fresh" /\ proc[dir[d].manifest].dir = d
    BY DEF IdentityHolds, ManifestHolds
  <2>3. QED
    BY <1>1, <2>1, <2>2 DEF Bound
<1>3. ASSUME NEW p \in Proc, StoredHolds(p), proc[p].stored # Nobody, proc'[p].stored = proc[p].stored,
             proc'[p].dir = proc[p].dir
      PROVE  /\ StoredHolds(p)'
             /\ proc'[proc[p].stored].config = proc[proc[p].stored].config
  <2> DEFINE q == proc[p].stored
  <2>1. q \in Proc /\ proc[p].dir \in Dir
    BY <1>3, Plain DEF Author
  <2>2. proc[q].mode = "fresh" /\ proc[q].dir = proc[p].dir /\ dir[proc[p].dir].manifest # Nobody
    BY <1>3 DEF StoredHolds
  <2>3. /\ proc'[q].mode = "fresh" /\ proc'[q].dir = proc[p].dir
        /\ proc'[q].config = proc[q].config
    BY <1>1, <2>1, <2>2 DEF Bound
  <2>4. dir'[proc[p].dir].manifest # Nobody
    BY <2>1, <2>2 DEF FilesStay
  <2>5. QED
    BY <1>3, <2>3, <2>4 DEF StoredHolds
<1>4. ASSUME NEW p \in Proc, proc'[p] = proc[p]
      PROVE  StoredHolds(p)' /\ PhaseHolds(p)'
  <2>1. StoredHolds(p) /\ PhaseHolds(p) /\ proc[p].dir \in Dir
    BY Plain DEF IdentityHolds
  <2>2. StoredHolds(p)'
    <3>1. CASE proc[p].stored = Nobody
      BY <1>4, <3>1 DEF StoredHolds
    <3>2. CASE proc[p].stored # Nobody
      BY <1>3, <1>4, <2>1, <3>2
    <3>3. QED
      BY <3>1, <3>2
  <2>3. proc[p].stored # Nobody => (Differs(p)' <=> Differs(p)) /\ (Revises(p)' <=> Revises(p))
    BY <1>3, <1>4, <2>1 DEF Differs, Revises, build_run_manifest
  <2>4. PhaseHolds(p)'
    BY <1>4, <2>1, <2>3 DEF PhaseHolds, FilesStay
  <2>5. QED
    BY <2>2, <2>4
<1>5. ASSUME NEW d \in Dir, NEW n \in DOMAIN dir[d].journal
      PROVE  LineHolds(d, n)'
  <2>1. PICK p \in Proc : /\ p = dir[d].journal[n].by
                         /\ proc[p].phase \notin Before /\ n \in 1 .. Len(dir[d].journal)
    BY <1>5, Plain
  <2>2. LineHolds(d, n) /\ StoredHolds(p)
    BY <1>5 DEF IdentityHolds
  <2>3. /\ proc'[p].mode = proc[p].mode /\ proc'[p].dir = proc[p].dir
        /\ proc'[p].config = proc[p].config /\ proc'[p].stored = proc[p].stored
    BY <2>1 DEF Bound, Before
  <2>4. dir'[d].journal[n] = dir[d].journal[n] /\ dir[d].manifest # Nobody => dir'[d].manifest # Nobody
    BY <1>5 DEF FilesStay
  <2>5. proc[p].stored # Nobody => (Differs(p)' <=> Differs(p)) /\ (Revises(p)' <=> Revises(p))
    BY <1>3, <2>1, <2>2, <2>3 DEF Differs, Revises, build_run_manifest
  <2>6. \A m \in 1 .. n - 1 : dir'[d].journal[m] = dir[d].journal[m]
    <3>1. dir[d].journal \in Seq(Line)
      BY Plain
    <3>2. 1 .. n - 1 \subseteq DOMAIN dir[d].journal
      BY <2>1, <3>1
    <3>3. QED
      BY <3>2 DEF FilesStay
  <2>7. dir'[d].journal[n] = dir[d].journal[n]
    BY <1>5 DEF FilesStay
  <2>8. dir[d].manifest # Nobody => dir'[d].manifest # Nobody
    BY DEF FilesStay
  <2>9. QED
    BY <2>1, <2>2, <2>3, <2>5, <2>6, <2>7, <2>8 DEF LineHolds
<1>6. QED
  BY <1>2, <1>4, <1>5 DEF IdentityHolds

(* The directories say the same of manifests and lines.                    *)
SameFiles ==
  \A d \in Dir : dir'[d].manifest = dir[d].manifest /\ dir'[d].journal = dir[d].journal

(* A process moves on, in a phase that its manifests allow.                *)
MayBe(p, phase) ==
  LET c == proc[p] IN
  /\ phase # "idle"
  /\ c.mode = "resume" =>
       /\ phase \in {"inspected", "locked", "opened", "working", "reported"} =>
            c.stored # Nobody
       /\ phase \in {"opened", "working", "reported"} => ~Differs(p)
       /\ phase \in {"working", "reported"} /\ Revises(p) =>
            \E m \in DOMAIN dir[c.dir].journal :
              dir[c.dir].journal[m] = [by |-> p, kind |-> "revised"]
  /\ c.mode = "fresh" /\ phase \in {"working", "reported"} =>
       dir[c.dir].manifest # Nobody

(* What To() leaves as it was.                                             *)
LEMMA GoesOn ==
  ASSUME DirInv, NEW p \in Proc, NEW phase \in Place, To(p, phase)
  PROVE  /\ Bound
         /\ proc'[p].phase = phase
         /\ proc'[p].mode = proc[p].mode /\ proc'[p].dir = proc[p].dir
         /\ proc'[p].config = proc[p].config /\ proc'[p].stored = proc[p].stored
         /\ \A q \in Proc \ {p} : proc'[q] = proc[q]
<1>1. proc[p] \in Caller /\ proc \in [Proc -> Caller]
  BY DEF DirInv, Types
<1>2. /\ proc'[p] = [proc[p] EXCEPT !.phase = phase]
      /\ \A q \in Proc \ {p} : proc'[q] = proc[q]
  BY <1>1 DEF To
<1>3. /\ proc'[p].phase = phase
      /\ proc'[p].mode = proc[p].mode /\ proc'[p].dir = proc[p].dir
      /\ proc'[p].config = proc[p].config /\ proc'[p].stored = proc[p].stored
  BY <1>1, <1>2 DEF Caller
<1>4. QED
  BY <1>2, <1>3 DEF Bound

(* The processes that others read are bound to what they were called with. *)
LEMMA ReadsTheSame ==
  ASSUME DirInv, IdentityHolds, Bound, NEW p \in Proc, proc[p].stored # Nobody,
         proc'[p].mode = proc[p].mode, proc'[p].stored = proc[p].stored,
         proc'[p].config = proc[p].config
  PROVE  (Differs(p)' <=> Differs(p)) /\ (Revises(p)' <=> Revises(p))
<1>1. proc[p].stored \in Proc /\ proc[proc[p].stored].mode = "fresh"
  BY Plain DEF Author, IdentityHolds, StoredHolds
<1>2. proc'[proc[p].stored].config = proc[proc[p].stored].config
  BY <1>1 DEF IdentityHolds, PhaseHolds, Bound
<1>3. QED
  BY <1>2 DEF Differs, Revises, build_run_manifest

LEMMA StoredKept ==
  ASSUME DirInv, IdentityHolds, Bound, FilesStay, NEW p \in Proc,
         proc'[p].dir = proc[p].dir, proc'[p].stored = proc[p].stored
  PROVE  StoredHolds(p)'
<1>1. CASE proc[p].stored = Nobody
  BY <1>1 DEF StoredHolds
<1>2. CASE proc[p].stored # Nobody
  <2> DEFINE q == proc[p].stored
  <2>1. q \in Proc /\ proc[p].dir \in Dir
    BY <1>2, Plain DEF Author
  <2>2. proc[q].mode = "fresh" /\ proc[q].dir = proc[p].dir /\ dir[proc[p].dir].manifest # Nobody
    BY <1>2 DEF StoredHolds, IdentityHolds
  <2>3. proc'[q].mode = "fresh" /\ proc'[q].dir = proc[p].dir
    BY <2>1, <2>2 DEF Bound, IdentityHolds, PhaseHolds
  <2>4. dir'[proc[p].dir].manifest # Nobody
    BY <2>1, <2>2 DEF FilesStay
  <2>5. QED
    BY <1>2, <2>3, <2>4 DEF StoredHolds
<1>3. QED
  BY <1>1, <1>2

LEMMA MovingKeeps ==
  ASSUME DirInv, DirInv', IdentityHolds, NEW p \in Proc, proc[p].phase # "idle",
         NEW phase \in Place, To(p, phase), MayBe(p, phase), SameFiles
  PROVE  IdentityHolds'
<1>1. /\ Bound
      /\ proc'[p].phase = phase
      /\ proc'[p].mode = proc[p].mode /\ proc'[p].dir = proc[p].dir
      /\ proc'[p].config = proc[p].config /\ proc'[p].stored = proc[p].stored
      /\ \A q \in Proc \ {p} : proc'[q] = proc[q]
  BY GoesOn
<1>2. FilesStay
  BY DEF SameFiles, FilesStay
<1>3. StoredHolds(p)'
  BY <1>1, <1>2, StoredKept
<1>4. proc[p].stored # Nobody => (Differs(p)' <=> Differs(p)) /\ (Revises(p)' <=> Revises(p))
  BY <1>1, ReadsTheSame
<1>5. PhaseHolds(p)'
  <2>1. PhaseHolds(p) /\ proc[p].dir \in Dir
    BY Plain DEF IdentityHolds
  <2>2. QED
    BY <1>1, <1>4, <2>1 DEF PhaseHolds, MayBe, SameFiles
<1>6. QED
  BY <1>1, <1>2, <1>3, <1>5, IdentityKept DEF SameFiles

(* The lines that a process appends come after those that are there.       *)
LEMMA AppendsOwn ==
  ASSUME DirInv, NEW p \in Proc, NEW kinds \in Seq(Kind)
  PROVE  LET t == Appended(p, kinds)
             s == dir[proc[p].dir].journal
         IN  /\ \A n \in DOMAIN s : n \in DOMAIN t /\ t[n] = s[n]
             /\ \A n \in DOMAIN t : n \notin DOMAIN s =>
                  /\ n - Len(s) \in DOMAIN kinds
                  /\ t[n] = [by |-> p, kind |-> kinds[n - Len(s)]]
             /\ \A i \in DOMAIN kinds :
                  /\ Len(s) + i \in DOMAIN t
                  /\ t[Len(s) + i] = [by |-> p, kind |-> kinds[i]]
             /\ \A n \in DOMAIN t : n \notin DOMAIN s => DOMAIN s \subseteq 1 .. n - 1
<1> DEFINE t == Appended(p, kinds)
           s == dir[proc[p].dir].journal
           l == Lines(p, kinds)
<1>1. s \in Seq(Line) /\ Len(s) \in Nat /\ DOMAIN s = 1 .. Len(s)
  BY Plain
<1>2. l \in Seq(Line)
  BY LinesAreOwn
<1>3. DOMAIN l = DOMAIN kinds /\ \A i \in DOMAIN kinds : l[i] = [by |-> p, kind |-> kinds[i]]
  BY DEF Lines
<1>4. t = s \o l
  BY DEF Appended, Lines
<1> HIDE DEF t, s, l
<1>5. Len(l) \in Nat /\ DOMAIN l = 1 .. Len(l)
  BY <1>2
<1>6. /\ DOMAIN t = 1 .. Len(s) + Len(l)
      /\ \A n \in 1 .. Len(s) : t[n] = s[n]
      /\ \A n \in DOMAIN t : n > Len(s) => t[n] = l[n - Len(s)]
  BY <1>1, <1>2, <1>4
<1>7. ASSUME NEW n \in DOMAIN t, n \notin DOMAIN s
      PROVE  n - Len(s) \in DOMAIN l /\ t[n] = l[n - Len(s)] /\ DOMAIN s \subseteq 1 .. n - 1
  BY <1>1, <1>5, <1>6, <1>7
<1>8. ASSUME NEW i \in DOMAIN l
      PROVE  Len(s) + i \in DOMAIN t /\ t[Len(s) + i] = l[i]
  <2>1. i \in 1 .. Len(l) /\ (Len(s) + i) - Len(s) = i
    BY <1>1, <1>5
  <2>2. Len(s) + i \in DOMAIN t /\ Len(s) + i > Len(s)
    BY <1>1, <1>5, <1>6, <2>1
  <2>3. QED
    BY <1>6, <2>1, <2>2
<1>9. \A n \in DOMAIN s : n \in DOMAIN t /\ t[n] = s[n]
  BY <1>1, <1>5, <1>6
<1>10. QED
  BY <1>3, <1>7, <1>8, <1>9 DEF t, s

(* A directory of which neither the manifest nor a line changes.           *)
LEMMA SameBut ==
  ASSUME DirInv, NEW d \in Dir, NEW file,
         dir' = [dir EXCEPT ![d] = file],
         file.manifest = dir[d].manifest, file.journal = dir[d].journal
  PROVE  SameFiles
BY DEF DirInv, Types, SameFiles

LEMMA ReleaseIsSame ==
  ASSUME DirInv, NEW p \in Proc, NEW phase, ReleaseBy(p, phase)
  PROVE  SameFiles /\ To(p, phase)
<1> DEFINE d == proc[p].dir
           file == [dir[d] EXCEPT !.holder = IF @ = p THEN Nobody ELSE @]
<1>1. d \in Dir /\ dir[d] \in File
  BY Plain
<1>2. file.manifest = dir[d].manifest /\ file.journal = dir[d].journal
  BY <1>1 DEF File
<1>3. dir' = [dir EXCEPT ![d] = file]
  BY DEF ReleaseBy
<1>4. To(p, phase)
  BY DEF ReleaseBy
<1> HIDE DEF d, file
<1>5. SameFiles
  BY <1>1, <1>2, <1>3, SameBut
<1>6. QED
  BY <1>4, <1>5

(* A resumed run keeps the manifest that it finds.                         *)
LEMMA ReadingKeeps ==
  ASSUME DirInv, DirInv', IdentityHolds, NEW p \in Proc,
         proc[p].phase = "called", proc[p].mode = "resume",
         dir[proc[p].dir].manifest # Nobody,
         proc' = [proc EXCEPT ![p].phase = "inspected",
                              ![p].stored = dir[proc[p].dir].manifest],
         UNCHANGED dir
  PROVE  IdentityHolds'
<1>1. PICK d \in Dir, m \in Proc :
        /\ d = proc[p].dir /\ m = dir[d].manifest
        /\ proc[p] \in Caller /\ proc \in [Proc -> Caller]
  BY Plain DEF Author, DirInv, Types
<1>2. proc' = [proc EXCEPT ![p] = [proc[p] EXCEPT !.phase = "inspected", !.stored = m]]
  BY <1>1
<1>3. /\ proc'[p].phase = "inspected" /\ proc'[p].stored = m
      /\ proc'[p].mode = proc[p].mode /\ proc'[p].dir = proc[p].dir
      /\ proc'[p].config = proc[p].config
      /\ \A q \in Proc \ {p} : proc'[q] = proc[q]
  BY <1>1, <1>2 DEF Caller
<1>4. Bound /\ FilesStay
  BY <1>3 DEF Bound, FilesStay
<1>5. proc[m].mode = "fresh" /\ proc[m].dir = d /\ m # Nobody
  BY <1>1, NobodyAssumption DEF IdentityHolds, ManifestHolds
<1>6. StoredHolds(p)' /\ PhaseHolds(p)'
  BY <1>1, <1>3, <1>5 DEF StoredHolds, PhaseHolds
<1>7. QED
  BY <1>3, <1>4, <1>6, IdentityKept

(* A fresh run declares itself in the manifest.                            *)
LEMMA ManifestKeeps ==
  ASSUME DirInv, DirInv', IdentityHolds, NEW p \in Proc,
         proc[p].phase = "opened", proc[p].mode = "fresh",
         dir' = [dir EXCEPT ![proc[p].dir].manifest = p], To(p, "working")
  PROVE  IdentityHolds'
<1>1. PICK d \in Dir : d = proc[p].dir /\ dir[d] \in File
  BY Plain
<1>2. /\ Bound
      /\ proc'[p].phase = "working"
      /\ proc'[p].mode = proc[p].mode /\ proc'[p].dir = proc[p].dir
      /\ proc'[p].config = proc[p].config /\ proc'[p].stored = proc[p].stored
      /\ \A q \in Proc \ {p} : proc'[q] = proc[q]
  BY GoesOn DEF Place
<1>3. /\ dir'[d].manifest = p /\ dir'[d].journal = dir[d].journal
      /\ \A e \in Dir \ {d} : dir'[e] = dir[e]
  BY <1>1 DEF DirInv, Types, File
<1>4. p # Nobody
  BY NobodyAssumption
<1>5. FilesStay
  BY <1>3, <1>4 DEF FilesStay
<1>6. ManifestHolds(d)'
  BY <1>1, <1>2, <1>3 DEF ManifestHolds
<1>7. StoredHolds(p)'
  BY <1>2, <1>5, StoredKept
<1>8. PhaseHolds(p)'
  BY <1>1, <1>2, <1>3, <1>4 DEF PhaseHolds
<1>9. QED
  BY <1>2, <1>3, <1>5, <1>6, <1>7, <1>8, IdentityKept

(* Lines that a process appends where their condition holds.               *)
LEMMA AppendingKeeps ==
  ASSUME DirInv, DirInv', IdentityHolds, Bound, NEW p \in Proc, NEW kinds \in Seq(Kind),
         dir'[proc[p].dir].journal = Appended(p, kinds),
         dir'[proc[p].dir].manifest = dir[proc[p].dir].manifest,
         \A e \in Dir \ {proc[p].dir} : dir'[e] = dir[e],
         \A q \in Proc \ {p} : proc'[q] = proc[q],
         proc'[p] = proc[p] \/ (FilesStay => StoredHolds(p)' /\ PhaseHolds(p)'),
         (\E i \in DOMAIN kinds : kinds[i] \in Worked) =>
           /\ UNCHANGED proc
           /\ proc[p].mode \in {"fresh", "resume"} /\ proc[p].phase = "working"
  PROVE  IdentityHolds'
<1> DEFINE s == dir[proc[p].dir].journal
           t == Appended(p, kinds)
<1>1. /\ \A n \in DOMAIN s : n \in DOMAIN t /\ t[n] = s[n]
      /\ \A n \in DOMAIN t : n \notin DOMAIN s =>
           /\ n - Len(s) \in DOMAIN kinds
           /\ t[n] = [by |-> p, kind |-> kinds[n - Len(s)]]
           /\ DOMAIN s \subseteq 1 .. n - 1
  BY AppendsOwn
<1>2. PICK d \in Dir : d = proc[p].dir
  BY Plain
<1>3. FilesStay
  <2> HIDE DEF t
  <2>1. \A e \in Dir : dir'[e].manifest = dir[e].manifest
    OBVIOUS
  <2>2. dir'[d].journal = t /\ s = dir[d].journal
    BY <1>2 DEF t
  <2>3. QED
    BY <1>1, <1>2, <2>1, <2>2 DEF FilesStay
<1>4. ASSUME NEW n \in DOMAIN dir'[d].journal, n \notin DOMAIN dir[d].journal
      PROVE  LineHolds(d, n)'
  <2>1. PICK i \in DOMAIN kinds, k \in {kinds[j] : j \in DOMAIN kinds} :
          /\ k = kinds[i] /\ dir'[d].journal[n] = [by |-> p, kind |-> k]
          /\ DOMAIN dir[d].journal \subseteq 1 .. n - 1
    <3>1. dir'[d].journal = t /\ dir[d].journal = s
      BY <1>2
    <3> HIDE DEF s, t
    <3>2. n \in DOMAIN t /\ n \notin DOMAIN s
      BY <1>4, <3>1
    <3>3. /\ n - Len(s) \in DOMAIN kinds
          /\ t[n] = [by |-> p, kind |-> kinds[n - Len(s)]]
          /\ DOMAIN s \subseteq 1 .. n - 1
      BY <1>1, <3>2
    <3>4. QED
      BY <3>1, <3>3
  <2>2. CASE k \notin Worked
    BY <2>1, <2>2 DEF LineHolds
  <2>3. CASE k \in Worked
    <3>1. /\ proc' = proc /\ proc[p].mode \in {"fresh", "resume"}
          /\ proc[p].phase = "working"
      BY <2>1, <2>3
    <3>2. PhaseHolds(p) /\ StoredHolds(p)
      BY DEF IdentityHolds
    <3>3. dir'[d].manifest # Nobody
      BY <1>2, <3>1, <3>2 DEF PhaseHolds, StoredHolds
    <3>4. proc[p].mode = "resume" =>
            /\ proc[p].stored # Nobody /\ ~Differs(p)
            /\ Revises(p) => \E m \in DOMAIN dir[d].journal :
                               dir[d].journal[m] = [by |-> p, kind |-> "revised"]
      BY <1>2, <3>1, <3>2 DEF PhaseHolds
    <3>5. (Differs(p)' <=> Differs(p)) /\ (Revises(p)' <=> Revises(p))
      BY <3>1 DEF Differs, Revises, build_run_manifest
    <3>6. \A m \in DOMAIN dir[d].journal :
            m \in 1 .. n - 1 /\ dir'[d].journal[m] = dir[d].journal[m]
      BY <1>3, <2>1 DEF FilesStay
    <3>7. dir'[d].journal[n].by = p /\ dir'[d].journal[n].kind = k
      BY <2>1
    <3>8. Revises(p)' /\ proc[p].mode = "resume" =>
            \E m \in 1 .. n - 1 : dir'[d].journal[m] = [by |-> p, kind |-> "revised"]
      BY <3>4, <3>5, <3>6
    <3>9. QED
      BY <1>2, <3>1, <3>3, <3>4, <3>5, <3>7, <3>8 DEF LineHolds
  <2>4. QED
    BY <2>2, <2>3
<1>5. \A e \in Dir : dir'[e].manifest = dir[e].manifest
  OBVIOUS
<1>6. \A e \in Dir : \A n \in DOMAIN dir'[e].journal :
        n \in DOMAIN dir[e].journal \/ LineHolds(e, n)'
  BY <1>2, <1>4
<1>7. \A q \in Proc : proc'[q] = proc[q] \/ (StoredHolds(q)' /\ PhaseHolds(q)')
  BY <1>3
<1> HIDE DEF s, t
<1>8. QED
  BY <1>3, <1>5, <1>6, <1>7, IdentityKept

(* A resumed run declares its revisions in the journal.                    *)
LEMMA RevisionKeeps ==
  ASSUME DirInv, DirInv', IdentityHolds, NEW p \in Proc,
         proc[p].phase = "opened", proc[p].mode = "resume",
         dir' = [dir EXCEPT ![proc[p].dir].journal = Appended(p, <<"revised">>)],
         To(p, "working")
  PROVE  IdentityHolds'
<1>1. PICK d \in Dir : d = proc[p].dir /\ dir[d] \in File
  BY Plain
<1>2. /\ Bound
      /\ proc'[p].phase = "working"
      /\ proc'[p].mode = proc[p].mode /\ proc'[p].dir = proc[p].dir
      /\ proc'[p].config = proc[p].config /\ proc'[p].stored = proc[p].stored
      /\ \A q \in Proc \ {p} : proc'[q] = proc[q]
  BY GoesOn DEF Place
<1>3. PICK t : t = Appended(p, <<"revised">>)
  OBVIOUS
<1>4. /\ dir'[d].manifest = dir[d].manifest /\ dir'[d].journal = t
      /\ \A e \in Dir \ {d} : dir'[e] = dir[e]
  BY <1>1, <1>3 DEF DirInv, Types, File
<1>5. <<"revised">> \in Seq(Kind)
  BY OneLine DEF Kind
<1>6. \E m \in DOMAIN t : t[m] = [by |-> p, kind |-> "revised"]
  <2> DEFINE kinds == <<"revised">>
  <2>1. 1 \in DOMAIN kinds /\ kinds[1] = "revised"
    OBVIOUS
  <2>2. kinds \in Seq(Kind)
    BY <1>5
  <2> HIDE DEF kinds
  <2>3. Len(dir[d].journal) + 1 \in DOMAIN Appended(p, kinds)
        /\ Appended(p, kinds)[Len(dir[d].journal) + 1] = [by |-> p, kind |-> kinds[1]]
    BY <1>1, <2>1, <2>2, AppendsOwn
  <2>4. QED
    BY <1>3, <2>1, <2>3 DEF kinds
<1>7. FilesStay => StoredHolds(p)'
  BY <1>2, StoredKept
<1>8. PhaseHolds(p) /\ proc[p].stored # Nobody /\ ~Differs(p)
  BY DEF IdentityHolds, PhaseHolds
<1>9. Differs(p)' <=> Differs(p)
  BY <1>2, <1>8, ReadsTheSame
<1>10. PhaseHolds(p)'
  BY <1>1, <1>2, <1>4, <1>6, <1>8, <1>9 DEF PhaseHolds
<1>11. ~\E i \in DOMAIN <<"revised">> : <<"revised">>[i] \in Worked
  BY DEF Worked
<1>12. QED
  BY <1>1, <1>2, <1>3, <1>4, <1>5, <1>7, <1>10, <1>11, AppendingKeeps

(* A step under the lock writes one line of an attempt, or none of one.    *)
LEMMA AttemptKeeps ==
  ASSUME DirInv, DirInv', IdentityHolds, NEW p \in Proc, Attempt(p)
  PROVE  IdentityHolds'
<1>1. PICK d \in Dir : d = proc[p].dir /\ dir[d] \in File
  BY Plain
<1>2. PICK kinds \in Seq(Kind) : dir' = [dir EXCEPT ![d].journal = Appended(p, kinds)]
  <2>1. PICK k \in Kind : dir' = [dir EXCEPT ![d].journal = Appended(p, <<k>>)]
    BY <1>1 DEF Attempt, Kind
  <2>2. <<k>> \in Seq(Kind)
    BY OneLine
  <2>3. QED
    BY <2>1, <2>2
<1>3. PICK t : t = Appended(p, kinds)
  OBVIOUS
<1>4. /\ dir'[d].manifest = dir[d].manifest /\ dir'[d].journal = t
      /\ \A e \in Dir \ {d} : dir'[e] = dir[e]
  BY <1>1, <1>2, <1>3 DEF DirInv, Types, File
<1>5. proc' = proc /\ proc[p].phase = "working" /\ proc[p].mode # "profile"
  BY DEF Attempt, MayRun
<1>6. proc[p].mode \in {"fresh", "resume"}
  BY <1>5, Plain DEF Caller, IdentityHolds, PhaseHolds
<1>7. Bound
  BY <1>5 DEF Bound
<1>8. QED
  BY <1>1, <1>3, <1>4, <1>5, <1>6, <1>7, AppendingKeeps

(* `profile` leaves its own line, or none.                                 *)
LEMMA ProfileKeeps ==
  ASSUME DirInv, DirInv', IdentityHolds, NEW p \in Proc, Profile(p)
  PROVE  IdentityHolds'
<1>1. PICK d \in Dir : d = proc[p].dir /\ dir[d] \in File
  BY Plain
<1>2. PICK kinds \in {<<>>, <<"profile">>} :
        dir' = [dir EXCEPT ![d] = [@ EXCEPT !.journal = Appended(p, kinds), !.holder = Nobody]]
  BY <1>1 DEF Profile
<1>3. kinds \in Seq(Kind)
  <2>1. <<>> \in Seq(Kind) /\ <<"profile">> \in Seq(Kind)
    BY OneLine DEF Kind
  <2>2. QED
    BY <2>1
<1>4. PICK t : t = Appended(p, kinds)
  OBVIOUS
<1>5. dir' = [dir EXCEPT ![d] = [dir[d] EXCEPT !.journal = t, !.holder = Nobody]]
  BY <1>2, <1>4
<1>6. /\ dir'[d].manifest = dir[d].manifest /\ dir'[d].journal = t
      /\ \A e \in Dir \ {d} : dir'[e] = dir[e]
  BY <1>1, <1>5 DEF DirInv, Types, File
<1>7. To(p, "ended") /\ proc[p].phase = "working" /\ proc[p].mode = "profile"
  BY DEF Profile
<1>8. /\ Bound
      /\ proc'[p].phase = "ended"
      /\ proc'[p].mode = proc[p].mode /\ proc'[p].dir = proc[p].dir
      /\ proc'[p].config = proc[p].config /\ proc'[p].stored = proc[p].stored
      /\ \A q \in Proc \ {p} : proc'[q] = proc[q]
  BY <1>7, GoesOn DEF Place
<1>9. FilesStay => StoredHolds(p)'
  BY <1>8, StoredKept
<1>10. PhaseHolds(p)'
  BY <1>7, <1>8 DEF PhaseHolds
<1>11. ~\E i \in DOMAIN kinds : kinds[i] \in Worked
  BY <1>2 DEF Worked
<1>12. QED
  BY <1>1, <1>3, <1>4, <1>6, <1>8, <1>9, <1>10, <1>11, AppendingKeeps

(* Every step of a process in its directory.                               *)
LEMMA StepIdentity ==
  ASSUME DirInv, DirInv', IdentityHolds, NEW p \in Proc, Step(p) \/ Die(p)
  PROVE  IdentityHolds'
<1>1. PICK d \in Dir : d = proc[p].dir /\ dir[d] \in File
  BY Plain
<1>2. PhaseHolds(p)
  BY DEF IdentityHolds
<1>3. CASE Inspect(p)
  <2>1. SameFiles
    BY <1>3 DEF Inspect, SameFiles
  <2>2. CASE To(p, "inspected") /\ proc[p].mode = "fresh"
    BY <1>3, <2>1, <2>2, MovingKeeps DEF Inspect, MayBe, Place
  <2>3. CASE To(p, "refused")
    BY <1>3, <2>1, <2>3, MovingKeeps DEF Inspect, MayBe, Place
  <2>4. CASE /\ proc[p].mode = "resume" /\ dir[proc[p].dir].manifest # Nobody
             /\ proc' = [proc EXCEPT ![p].phase = "inspected",
                                     ![p].stored = dir[proc[p].dir].manifest]
    BY <1>3, <2>4, ReadingKeeps DEF Inspect
  <2>5. QED
    BY <1>3, <2>2, <2>3, <2>4 DEF Inspect
<1>4. CASE AcquireRunLock(p)
  <2> DEFINE file == [dir[d] EXCEPT !.made = TRUE, !.lock = TRUE,
                                    !.holder = IF dir[d].holder = Nobody THEN p ELSE @]
  <2>1. file.manifest = dir[d].manifest /\ file.journal = dir[d].journal
    BY <1>1 DEF File
  <2>2. dir' = [dir EXCEPT ![d] = file]
    BY <1>1, <1>4 DEF AcquireRunLock
  <2> HIDE DEF file
  <2>3. SameFiles
    BY <2>1, <2>2, SameBut
  <2>4. PICK phase \in {"locked", "refused"} : To(p, phase)
    BY <1>4 DEF AcquireRunLock
  <2>5. MayBe(p, phase)
    BY <1>2, <1>4, <2>4 DEF AcquireRunLock, MayBe, PhaseHolds
  <2>6. QED
    BY <1>4, <2>3, <2>4, <2>5, MovingKeeps DEF AcquireRunLock, Place
<1>5. CASE OpenJournal(p)
  <2>1. SameFiles /\ To(p, "opened") /\ proc[p].phase = "locked"
    BY <1>5 DEF OpenJournal, SameFiles
  <2>2. MayBe(p, "opened")
    BY <1>2, <1>5 DEF OpenJournal, MayBe, PhaseHolds
  <2>3. QED
    BY <2>1, <2>2, MovingKeeps DEF Place
<1>6. CASE RefuseIdentity(p)
  <2>1. SameFiles /\ To(p, "refused")
    BY <1>6, ReleaseIsSame DEF RefuseIdentity
  <2>2. QED
    BY <1>6, <2>1, MovingKeeps DEF RefuseIdentity, MayBe, Place
<1>7. CASE Declare(p)
  <2>1. proc[p].phase = "opened" /\ To(p, "working")
    BY <1>7 DEF Declare
  <2>2. CASE proc[p].mode = "fresh" /\ dir' = [dir EXCEPT ![proc[p].dir].manifest = p]
    BY <2>1, <2>2, ManifestKeeps
  <2>3. CASE /\ proc[p].mode = "resume"
             /\ dir' = [dir EXCEPT ![proc[p].dir].journal = Appended(p, <<"revised">>)]
    BY <2>1, <2>3, RevisionKeeps
  <2>4. CASE /\ proc[p].mode = "profile" \/ (proc[p].mode = "resume" /\ ~Revises(p))
             /\ UNCHANGED dir
    <3>1. SameFiles
      BY <2>4 DEF SameFiles
    <3>2. MayBe(p, "working")
      BY <1>2, <2>1, <2>4 DEF MayBe, PhaseHolds
    <3>3. QED
      BY <2>1, <3>1, <3>2, MovingKeeps DEF Place
  <2>5. QED
    BY <1>7, <2>2, <2>3, <2>4 DEF Declare
<1>8. CASE Attempt(p)
  BY <1>8, AttemptKeeps
<1>9. CASE Profile(p)
  BY <1>9, ProfileKeeps
<1>10. CASE WriteReport(p)
  <2> DEFINE file == [dir[d] EXCEPT !.report = p]
  <2>1. file.manifest = dir[d].manifest /\ file.journal = dir[d].journal
    BY <1>1 DEF File
  <2>2. dir' = [dir EXCEPT ![d] = file]
    BY <1>1, <1>10 DEF WriteReport
  <2> HIDE DEF file
  <2>3. SameFiles
    BY <2>1, <2>2, SameBut
  <2>4. To(p, "reported") /\ proc[p].phase = "working"
    BY <1>10 DEF WriteReport
  <2>5. MayBe(p, "reported")
    BY <1>2, <2>4 DEF MayBe, PhaseHolds
  <2>6. QED
    BY <2>3, <2>4, <2>5, MovingKeeps DEF Place
<1>11. CASE Return(p) \/ Raise(p) \/ Die(p)
  <2>1. PICK phase \in {"ended", "failed", "dead"} : ReleaseBy(p, phase)
    BY <1>11 DEF Return, Raise, Die
  <2>2. SameFiles /\ To(p, phase)
    BY <2>1, ReleaseIsSame
  <2>3. proc[p].phase # "idle"
    BY <1>11 DEF Return, Raise, Die, Over
  <2>4. MayBe(p, phase)
    BY <2>1 DEF MayBe
  <2>5. QED
    BY <2>2, <2>3, <2>4, MovingKeeps DEF Place
<1>12. QED
  BY <1>3, <1>4, <1>5, <1>6, <1>7, <1>8, <1>9, <1>10, <1>11 DEF Step

(* A call that begins: it has read nothing, or the manifest at hand.       *)
LEMMA BeginningKeeps ==
  ASSUME DirInv, DirInv', IdentityHolds, NEW p \in Proc, NEW c, SameFiles,
         proc[p].phase = "idle", proc' = [proc EXCEPT ![p] = c],
         c.dir \in Dir, c.mode \in {"fresh", "resume", "profile"},
         c.phase \in {"starting", "called", "inspected"},
         c.mode = "resume" => c.phase = "called",
         c.stored \in {Nobody, dir[c.dir].manifest}
  PROVE  IdentityHolds'
<1>1. proc'[p] = c /\ \A q \in Proc \ {p} : proc'[q] = proc[q]
  BY DEF DirInv, Types
<1>2. Bound
  BY <1>1 DEF Bound
<1>3. FilesStay
  BY DEF SameFiles, FilesStay
<1>4. StoredHolds(p)'
  <2>1. SUFFICES ASSUME c.stored # Nobody
                 PROVE  /\ proc'[c.stored].mode = "fresh" /\ proc'[c.stored].dir = c.dir
                        /\ dir'[c.dir].manifest # Nobody
    BY <1>1 DEF StoredHolds
  <2>2. c.stored = dir[c.dir].manifest /\ c.stored \in Proc
    BY <2>1, Plain DEF Author
  <2>3. proc[c.stored].mode = "fresh" /\ proc[c.stored].dir = c.dir
    BY <2>1, <2>2 DEF IdentityHolds, ManifestHolds
  <2>4. c.stored # p
    BY <2>3 DEF IdentityHolds, PhaseHolds
  <2>5. QED
    BY <1>1, <2>1, <2>2, <2>3, <2>4 DEF SameFiles
<1>5. PhaseHolds(p)'
  BY <1>1 DEF PhaseHolds
<1>6. QED
  BY <1>1, <1>2, <1>3, <1>4, <1>5, IdentityKept DEF SameFiles

(* A call from the command line.                                           *)
LEMMA CallIdentity ==
  ASSUME DirInv, DirInv', IdentityHolds, NEW p \in Proc, NEW d \in Dir, Call(p, d)
  PROVE  IdentityHolds'
<1>1. PICK c \in Config : CallFresh(p, d, c) \/ CallResume(p, d, c) \/ CallProfile(p, d, c)
  BY DEF Call
<1>2. SameFiles
  BY <1>1 DEF CallFresh, CallResume, CallProfile, SameFiles
<1>3. CASE CallFresh(p, d, c)
  <2> DEFINE call == Called("fresh", d, c)
  <2>1. /\ call.dir = d /\ call.mode = "fresh" /\ call.phase = "called"
        /\ call.stored = Nobody
    BY DEF Called
  <2> HIDE DEF call
  <2>2. proc[p].phase = "idle" /\ proc' = [proc EXCEPT ![p] = call]
    BY <1>3 DEF CallFresh, call
  <2>3. QED
    BY <1>2, <2>1, <2>2, BeginningKeeps
<1>4. CASE CallResume(p, d, c)
  <2> DEFINE call == Called("resume", d, c)
  <2>1. /\ call.dir = d /\ call.mode = "resume" /\ call.phase = "called"
        /\ call.stored = Nobody
    BY DEF Called
  <2> HIDE DEF call
  <2>2. proc[p].phase = "idle" /\ proc' = [proc EXCEPT ![p] = call]
    BY <1>4 DEF CallResume, call
  <2>3. QED
    BY <1>2, <2>1, <2>2, BeginningKeeps
<1>5. CASE CallProfile(p, d, c)
  <2> DEFINE called == Called("profile", d, c)
             call == [called EXCEPT !.phase = "inspected", !.stored = dir[d].manifest]
  <2>1. DOMAIN called = {"phase", "mode", "dir", "config", "stored"}
        /\ called.dir = d /\ called.mode = "profile"
    BY DEF Called
  <2>2. proc[p].phase = "idle" /\ proc' = [proc EXCEPT ![p] = call]
    BY <1>5 DEF CallProfile
  <2> HIDE DEF called
  <2>3. /\ call.dir = d /\ call.mode = "profile" /\ call.phase = "inspected"
        /\ call.stored = dir[d].manifest
    BY <2>1
  <2> HIDE DEF call
  <2>4. QED
    BY <1>2, <2>2, <2>3, BeginningKeeps
<1>6. QED
  BY <1>1, <1>3, <1>4, <1>5

(* A start from the console, and what its thread does beside optimize().   *)
LEMMA StartIdentity ==
  ASSUME DirInv, DirInv', IdentityHolds, NEW w \in Web, NEW d \in RunsRoot, NEW c \in Form,
         StartRun(w, d, c)
  PROVE  IdentityHolds'
<1>1. w \in Proc /\ d \in Dir /\ dir[d] \in File
  BY WebAssumption, RootAssumption, Plain
<1>2. SameFiles
  <2> DEFINE file == [dir[d] EXCEPT !.made = TRUE, !.job = w]
  <2>1. file.manifest = dir[d].manifest /\ file.journal = dir[d].journal
    BY <1>1 DEF File
  <2>2. dir' = [dir EXCEPT ![d] = file]
    BY DEF StartRun
  <2> HIDE DEF file
  <2>3. QED
    BY <1>1, <2>1, <2>2, SameBut
<1> DEFINE call == [phase |-> "starting", mode |-> "fresh", dir |-> d, config |-> c,
                    stored |-> Nobody]
<1>3. [Called("fresh", d, c) EXCEPT !.phase = "starting"] = call
  BY DEF Called
<1>4. /\ call.dir = d /\ call.mode = "fresh" /\ call.phase = "starting"
      /\ call.stored = Nobody
  OBVIOUS
<1>5. proc[w].phase = "idle" /\ proc' = [proc EXCEPT ![w] = call]
  BY <1>3 DEF StartRun
<1> HIDE DEF call
<1>6. QED
  BY <1>1, <1>2, <1>4, <1>5, BeginningKeeps

LEMMA ThreadIdentity ==
  ASSUME DirInv, DirInv', IdentityHolds, NEW w \in Web, BuildGenerator(w) \/ Explain(w)
  PROVE  IdentityHolds'
<1>1. w \in Proc
  BY WebAssumption
<1>2. PICK d \in Dir : d = proc[w].dir /\ dir[d] \in File
  BY <1>1, Plain
<1>3. CASE BuildGenerator(w)
  <2>1. SameFiles /\ proc[w].phase = "starting"
    BY <1>3 DEF BuildGenerator, SameFiles
  <2>2. PICK phase \in {"called", "failed"} : To(w, phase)
    BY <1>3 DEF BuildGenerator
  <2>3. MayBe(w, phase)
    BY <2>2 DEF MayBe
  <2>4. QED
    BY <1>1, <2>1, <2>2, <2>3, MovingKeeps DEF Place
<1>4. CASE Explain(w)
  <2> DEFINE file == [dir[d] EXCEPT !.error = w]
  <2>1. file.manifest = dir[d].manifest /\ file.journal = dir[d].journal
    BY <1>2 DEF File
  <2>2. dir' = [dir EXCEPT ![d] = file]
    BY <1>2, <1>4 DEF Explain
  <2> HIDE DEF file
  <2>3. SameFiles
    BY <2>1, <2>2, SameBut
  <2>4. To(w, "explained") /\ proc[w].phase # "idle"
    BY <1>4 DEF Explain
  <2>5. MayBe(w, "explained")
    BY DEF MayBe
  <2>6. QED
    BY <1>1, <2>3, <2>4, <2>5, MovingKeeps DEF Place
<1>5. QED
  BY <1>3, <1>4

(* The server takes its threads with it, wherever they are.                *)
LEMMA DeathIdentity ==
  ASSUME DirInv, DirInv', IdentityHolds, ServerDies
  PROVE  IdentityHolds'
<1>1. SameFiles
  BY DEF ServerDies, SameFiles, DirInv, Types, File
<1>2. ASSUME NEW p \in Proc
      PROVE  /\ proc'[p] = proc[p] \/ (proc[p].phase # "idle" /\ proc'[p].phase = "dead")
             /\ proc'[p].mode = proc[p].mode /\ proc'[p].dir = proc[p].dir
             /\ proc'[p].config = proc[p].config /\ proc'[p].stored = proc[p].stored
  BY DEF ServerDies, DirInv, Types, Caller, active_run_id, Over
<1>3. Bound
  BY <1>2 DEF Bound
<1>4. FilesStay
  BY <1>1 DEF SameFiles, FilesStay
<1>5. ASSUME NEW p \in Proc, proc'[p] # proc[p]
      PROVE  StoredHolds(p)' /\ PhaseHolds(p)'
  <2>1. StoredHolds(p)'
    BY <1>2, <1>3, <1>4, StoredKept
  <2>2. PhaseHolds(p)'
    BY <1>2, <1>5 DEF PhaseHolds, IdentityHolds
  <2>3. QED
    BY <2>1, <2>2
<1>6. QED
  BY <1>1, <1>3, <1>4, <1>5, IdentityKept DEF SameFiles

(* Every step of the system.                                               *)
LEMMA NextIdentity ==
  ASSUME DirInv, IdentityHolds, [Next]_vars
  PROVE  IdentityHolds'
<1>1. DirInv'
  BY NextKeeps
<1>2. ASSUME NEW w \in Web, NEW d \in RunsRoot, NEW c \in Form, StartRun(w, d, c)
      PROVE  IdentityHolds'
  BY <1>1, <1>2, StartIdentity
<1>3. ASSUME NEW w \in Web, ThreadStep(w)
      PROVE  IdentityHolds'
  <2>1. w \in Proc
    BY WebAssumption
  <2>2. QED
    BY <1>1, <1>3, <2>1, ThreadIdentity, StepIdentity DEF ThreadStep
<1>4. ASSUME NEW p \in Proc \ Web, CommandLine(p)
      PROVE  IdentityHolds'
  BY <1>1, <1>4, CallIdentity, StepIdentity DEF CommandLine
<1>5. CASE ServerDies
  BY <1>1, <1>5, DeathIdentity
<1>6. CASE UNCHANGED dirVars
  <2>1. Bound /\ FilesStay
    BY <1>6 DEF dirVars, Bound, FilesStay
  <2>2. QED
    BY <1>1, <1>6, <2>1, IdentityKept DEF dirVars
<1>7. QED
  BY <1>2, <1>3, <1>4, <1>5, <1>6
     DEF Next, ServerStarts, Ask, ReadReport, ReadError, ReadJournal, vars

(* Who may have worked in a directory, and under which manifest.           *)
THEOREM IdentityInvariant == Spec => [](DirInv /\ IdentityHolds)
<1>1. Init => DirInv /\ IdentityHolds
  <2> SUFFICES ASSUME DirInit
               PROVE  DirInv /\ IdentityHolds
    BY DEF Init
  <2>1. DirInv
    BY DirInitial
  <2>2. \A d \in Dir : dir[d].manifest = Nobody /\ dir[d].journal = <<>>
    BY DEF DirInit, Empty
  <2>3. \A p \in Proc : /\ proc[p].phase = "idle" /\ proc[p].mode = "none"
                        /\ proc[p].stored = Nobody
    BY DEF DirInit
  <2>4. IdentityHolds
    BY <2>2, <2>3 DEF IdentityHolds, ManifestHolds, StoredHolds, PhaseHolds
  <2>5. QED
    BY <2>1, <2>4
<1>2. DirInv /\ IdentityHolds /\ [Next]_vars => (DirInv /\ IdentityHolds)'
  BY NextKeeps, NextIdentity
<1>3. QED
  BY <1>1, <1>2, PTL DEF Spec

(* The manifest that a line is read by, and the one it was written under,  *)
(* are by fresh runs of its directory.                                     *)
LEMMA OneManifest ==
  ASSUME DirInv, IdentityHolds, FreshRunsAgree,
         NEW d \in Dir, NEW n \in DOMAIN dir[d].journal,
         dir[d].journal[n].kind \in Worked
  PROVE  LET p == dir[d].journal[n].by IN
         /\ dir[d].manifest # Nobody
         /\ proc[p].config.identity = load_run_manifest(d).identity
         /\ \/ proc[p].config = load_run_manifest(d)
            \/ /\ Revises(p) => \E m \in 1 .. n - 1 :
                                  dir[d].journal[m] = [by |-> p, kind |-> "revised"]
               /\ proc[p].stored # Nobody
               /\ build_run_manifest(proc[p].stored) = load_run_manifest(d)
<1>1. PICK p \in Proc : p = dir[d].journal[n].by
  BY Plain
<1>2. LineHolds(d, n) /\ ManifestHolds(d) /\ StoredHolds(p)
  BY DEF IdentityHolds
<1>3. /\ proc[p].dir = d /\ dir[d].manifest # Nobody
      /\ proc[p].mode \in {"fresh", "resume"}
      /\ proc[p].mode = "resume" =>
           /\ proc[p].stored # Nobody /\ ~Differs(p)
           /\ Revises(p) => \E m \in 1 .. n - 1 :
                              dir[d].journal[m] = [by |-> p, kind |-> "revised"]
  BY <1>1, <1>2 DEF LineHolds
<1>4. dir[d].manifest \in Proc
  BY <1>3, Plain DEF Author
<1>5. ASSUME NEW q \in Proc, proc[q].mode = "fresh", proc[q].dir = d
      PROVE  build_run_manifest(q) = load_run_manifest(d)
  BY <1>2, <1>3, <1>4, <1>5 DEF ManifestHolds, FreshRunsAgree, build_run_manifest, load_run_manifest
<1>6. CASE proc[p].mode = "fresh"
  <2>1. proc[p].config = load_run_manifest(d)
    BY <1>3, <1>5, <1>6 DEF build_run_manifest
  <2>2. QED
    BY <1>1, <1>3, <2>1
<1>7. CASE proc[p].mode = "resume"
  <2>1. proc[p].stored \in Proc
    BY <1>3, <1>7, Plain DEF Author
  <2>2. build_run_manifest(proc[p].stored) = load_run_manifest(d)
    BY <1>2, <1>3, <1>5, <1>7, <2>1 DEF StoredHolds
  <2>3. proc[p].config.identity = load_run_manifest(d).identity
    BY <1>3, <1>7, <2>2 DEF Differs, build_run_manifest
  <2>4. QED
    BY <1>1, <1>3, <1>7, <2>2, <2>3
<1>8. QED
  BY <1>3, <1>6, <1>7

(* Where the fresh runs of a directory agree, whoever ran attempts in it   *)
(* did so under the identity of its manifest.                              *)
THEOREM OneExperimentPerDirectory == Spec => [](FreshRunsAgree => OneIdentity)
<1>1. DirInv /\ IdentityHolds => (FreshRunsAgree => OneIdentity)
  BY OneManifest DEF OneIdentity
<1>2. QED
  BY <1>1, IdentityInvariant, PTL

(* And whoever did so under other limits had said so in the journal.       *)
THEOREM RevisionsAreDeclared == Spec => [](FreshRunsAgree => OverridesAreJournaled)
<1>1. ASSUME DirInv, IdentityHolds, FreshRunsAgree,
             NEW d \in Dir, NEW n \in DOMAIN dir[d].journal,
             dir[d].journal[n].kind \in Worked,
             proc[dir[d].journal[n].by].config.allowance # load_run_manifest(d).allowance
      PROVE  \E m \in 1 .. n - 1 :
               dir[d].journal[m] = [by |-> dir[d].journal[n].by, kind |-> "revised"]
  <2>1. PICK p : p = dir[d].journal[n].by
    OBVIOUS
  <2>2. \/ proc[p].config = load_run_manifest(d)
        \/ /\ Revises(p) => \E m \in 1 .. n - 1 :
                              dir[d].journal[m] = [by |-> p, kind |-> "revised"]
           /\ build_run_manifest(proc[p].stored) = load_run_manifest(d)
    BY <1>1, <2>1, OneManifest
  <2>3. QED
    BY <1>1, <2>1, <2>2 DEF Revises, build_run_manifest
<1>2. DirInv /\ IdentityHolds => (FreshRunsAgree => OverridesAreJournaled)
  BY <1>1 DEF OverridesAreJournaled
<1>3. QED
  BY <1>2, IdentityInvariant, PTL

(***************************************************************************)
(* Each directory is a ledger (DirectoriesAreLedgers): an invariant, then  *)
(* what each step is to the journal and the lock of each directory.        *)
(***************************************************************************)

(* The converse of HoldersAreAtWork: who works under a lock has it.        *)
WorkersHold == \A p \in Proc : proc[p].phase \in Holding => dir[proc[p].dir].holder = p

(* A block of one line or two behind those that are there.                 *)
Longer(old, new) ==
  /\ Len(new) \in (Len(old) + 1) .. (Len(old) + 2)
  /\ \A i \in 1 .. Len(old) : new[i] = old[i]

(* What a step of p may be to a directory: nothing, the lock is taken,     *)
(* lines are written under it, it is given up.                             *)
Passes(p, old, new) ==
  \/ new.holder = old.holder /\ new.journal = old.journal
  \/ old.holder = Nobody /\ new.holder = p /\ new.journal = old.journal
  \/ old.holder = p /\ new.holder \in {p, Nobody} /\ Longer(old.journal, new.journal)
  \/ old.holder = p /\ new.holder = Nobody /\ new.journal = old.journal

(* acquire_run_lock(): "exactly one process may append to a run's journal  *)
(* at a time". Each directory is a ledger: who holds its run.lock extends  *)
(* its journal, nobody else does, and the lock is handed on only through   *)
(* nobody's hands, whatever raises or dies.                                *)
L(d) == INSTANCE Ledger WITH
          Owner <- Proc, NoOwner <- Nobody, log <- dir[d].journal, owner <- dir[d].holder

LedgerStep(d) == [L(d)!LedgerNext]_<<dir[d].journal, dir[d].holder>>

DirectoriesAreLedgers ==
  /\ \A d \in Dir : L(d)!LedgerInit
  /\ [][\A d \in Dir : LedgerStep(d)]_dirVars

LEMMA PassesIsLedgerStep ==
  ASSUME NEW p \in Proc, NEW d \in Dir, Passes(p, dir[d], dir'[d])
  PROVE  LedgerStep(d)
<1>1. CASE dir'[d].holder = dir[d].holder /\ dir'[d].journal = dir[d].journal
  BY <1>1 DEF LedgerStep
<1>2. CASE dir[d].holder = Nobody /\ dir'[d].holder = p /\ dir'[d].journal = dir[d].journal
  BY <1>2 DEF LedgerStep, L!LedgerNext, L!Grab
<1>3. CASE /\ dir[d].holder = p /\ dir'[d].holder \in {p, Nobody}
           /\ Longer(dir[d].journal, dir'[d].journal)
  BY <1>3 DEF Longer, LedgerStep, L!LedgerNext, L!Extend, L!Extended
<1>4. CASE dir[d].holder = p /\ dir'[d].holder = Nobody /\ dir'[d].journal = dir[d].journal
  BY <1>4 DEF LedgerStep, L!LedgerNext, L!Leave
<1>5. QED
  BY <1>1, <1>2, <1>3, <1>4 DEF Passes

(* Such a step leaves the other locks with those who work under them.      *)
LEMMA PassesKeeps ==
  ASSUME DirInv, WorkersHold, NEW p \in Proc, NEW d \in Dir,
         Acts(p, d), Passes(p, dir[d], dir'[d]),
         proc'[p].phase \in Holding => proc'[p].dir = d /\ dir'[d].holder = p
  PROVE  WorkersHold' /\ \A e \in Dir : LedgerStep(e)
<1>1. ASSUME NEW q \in Proc, proc'[q].phase \in Holding
      PROVE  dir'[proc'[q].dir].holder = q
  <2>1. CASE q = p
    BY <1>1, <2>1
  <2>2. CASE q # p
    <3>1. proc'[q] = proc[q] /\ proc[q].dir \in Dir /\ dir[proc[q].dir].holder = q
      BY <1>1, <2>2, Plain DEF Acts, WorkersHold
    <3>2. CASE proc[q].dir = d
      BY <2>2, <3>1, <3>2, NobodyAssumption DEF Passes
    <3>3. CASE proc[q].dir # d
      BY <3>1, <3>3 DEF Acts
    <3>4. QED
      BY <3>2, <3>3
  <2>3. QED
    BY <2>1, <2>2
<1>2. ASSUME NEW e \in Dir
      PROVE  LedgerStep(e)
  <2>1. CASE e = d
    BY <2>1, PassesIsLedgerStep
  <2>2. CASE e # d
    BY <2>2 DEF Acts, LedgerStep
  <2>3. QED
    BY <2>1, <2>2
<1>3. QED
  BY <1>1, <1>2 DEF WorkersHold

(* One line makes a journal longer.                                        *)
LEMMA OneLineLonger ==
  ASSUME DirInv, NEW p \in Proc, NEW k \in Kind
  PROVE  Longer(dir[proc[p].dir].journal, Appended(p, <<k>>))
<1> DEFINE s == dir[proc[p].dir].journal
           l == Lines(p, <<k>>)
<1>1. s \in Seq(Line)
  BY Plain
<1>2. l \in Seq(Line)
  BY OneLine, LinesAreOwn
<1>3. Len(l) = 1
  BY DEF Lines
<1>4. Appended(p, <<k>>) = s \o l
  BY DEF Appended, Lines
<1> HIDE DEF s, l
<1>5. Longer(s, s \o l)
  <2>1. Len(s) \in Nat /\ Len(s \o l) = Len(s) + 1
    <3>1. Len(s) \in Nat /\ Len(s \o l) = Len(s) + Len(l)
      BY <1>1, <1>2
    <3>2. QED
      BY <1>3, <3>1
  <2>2. \A i \in 1 .. Len(s) : (s \o l)[i] = s[i]
    BY <1>1, <1>2
  <2>3. QED
    BY <2>1, <2>2 DEF Longer
<1>6. QED
  BY <1>4, <1>5 DEF s

(* The process goes on to another phase and its directory stays as it is   *)
(* but for a manifest, a report or an error.                               *)
LEMMA StaysKeeps ==
  ASSUME DirInv, WorkersHold, NEW p \in Proc, NEW d \in Dir, Acts(p, d),
         dir'[d].holder = dir[d].holder, dir'[d].journal = dir[d].journal,
         proc'[p].phase \in Holding => proc[p].phase \in Holding /\ proc'[p].dir = proc[p].dir
  PROVE  WorkersHold' /\ \A e \in Dir : LedgerStep(e)
<1>1. Passes(p, dir[d], dir'[d])
  BY DEF Passes
<1>2. ASSUME proc'[p].phase \in Holding
      PROVE  proc'[p].dir = d /\ dir'[d].holder = p
  BY <1>2 DEF Acts, WorkersHold, Holding
<1>3. QED
  BY <1>1, <1>2, PassesKeeps

LEMMA ReleasesKeeps ==
  ASSUME DirInv, WorkersHold, NEW p \in Proc, NEW d \in Dir, d = proc[p].dir, Acts(p, d),
         NEW phase \in {"ended", "failed", "dead", "refused"}, ReleaseBy(p, phase)
  PROVE  WorkersHold' /\ \A e \in Dir : LedgerStep(e)
<1>1. /\ dir'[d].holder = IF dir[d].holder = p THEN Nobody ELSE dir[d].holder
      /\ dir'[d].journal = dir[d].journal
  BY DEF ReleaseBy, DirInv, Types, File
<1>2. Passes(p, dir[d], dir'[d])
  BY <1>1 DEF Passes
<1>3. proc'[p].phase = phase
  BY DEF ReleaseBy, To, DirInv, Types, Caller
<1>4. QED
  BY <1>2, <1>3, PassesKeeps DEF Holding

(* Every step of a process in its directory.                               *)
LEMMA StepLedger ==
  ASSUME DirInv, WorkersHold, NEW p \in Proc, Step(p) \/ Die(p)
  PROVE  WorkersHold' /\ \A e \in Dir : LedgerStep(e)
<1>1. PICK d \in Dir : d = proc[p].dir /\ dir[d] \in File /\ dir \in [Dir -> File]
  BY Plain DEF DirInv, Types
<1>2. Acts(p, d)
  BY <1>1, StepActs
<1>3. CASE Inspect(p)
  <2>1. proc'[p].phase \in {"inspected", "refused"} /\ UNCHANGED dir
    BY <1>1, <1>3, Plain DEF Inspect, To, DirInv, Types, Caller
  <2>2. QED
    BY <1>2, <2>1, StaysKeeps DEF Holding
<1>4. CASE AcquireRunLock(p)
  <2>1. PICK free \in BOOLEAN : free = (dir[d].holder = Nobody)
    OBVIOUS
  <2>2. /\ dir'[d].holder = IF free THEN p ELSE dir[d].holder
        /\ dir'[d].journal = dir[d].journal
    BY <1>1, <1>4, <2>1 DEF AcquireRunLock, File
  <2>3. To(p, IF free THEN "locked" ELSE "refused")
    BY <1>1, <1>4, <2>1 DEF AcquireRunLock
  <2>4. /\ proc'[p].phase = IF free THEN "locked" ELSE "refused"
        /\ proc'[p].dir = d
    BY <1>1, <2>3, GoesOn DEF Place
  <2>5. Passes(p, dir[d], dir'[d])
    BY <2>1, <2>2 DEF Passes
  <2>6. QED
    BY <1>2, <2>2, <2>4, <2>5, PassesKeeps DEF Holding
<1>5. CASE OpenJournal(p)
  <2>1. /\ proc'[p].phase = "opened" /\ proc'[p].dir = d
        /\ proc[p].phase = "locked" /\ UNCHANGED dir
    BY <1>1, <1>5, GoesOn DEF OpenJournal, Place
  <2>2. QED
    BY <1>1, <1>2, <2>1, StaysKeeps DEF Holding
<1>6. CASE RefuseIdentity(p)
  BY <1>1, <1>2, <1>6, ReleasesKeeps DEF RefuseIdentity
<1>7. CASE Declare(p)
  <2>1. /\ proc'[p].phase = "working" /\ proc'[p].dir = d /\ proc[p].phase = "opened"
    BY <1>1, <1>7, GoesOn DEF Declare, Place
  <2>2. CASE dir' = [dir EXCEPT ![d].manifest = p] \/ UNCHANGED dir
    <3>1. dir'[d].holder = dir[d].holder /\ dir'[d].journal = dir[d].journal
      BY <1>1, <2>2 DEF File
    <3>2. QED
      BY <1>1, <1>2, <2>1, <3>1, StaysKeeps DEF Holding
  <2>3. CASE dir' = [dir EXCEPT ![d].journal = Appended(p, <<"revised">>)]
    <3>1. dir'[d].holder = dir[d].holder /\ dir'[d].journal = Appended(p, <<"revised">>)
      BY <1>1, <2>3 DEF File
    <3>2. dir[d].holder = p
      BY <1>1, <2>1 DEF WorkersHold, Holding
    <3>3. Passes(p, dir[d], dir'[d])
      BY <1>1, <3>1, <3>2, OneLineLonger DEF Passes, Kind
    <3>4. QED
      BY <1>2, <2>1, <3>1, <3>2, <3>3, PassesKeeps
  <2>4. QED
    BY <1>1, <1>7, <2>2, <2>3 DEF Declare
<1>8. CASE Attempt(p)
  <2>1. PICK k \in Kind : dir' = [dir EXCEPT ![d].journal = Appended(p, <<k>>)]
    BY <1>1, <1>8 DEF Attempt, Kind
  <2>2. dir'[d].holder = dir[d].holder /\ dir'[d].journal = Appended(p, <<k>>)
    BY <1>1, <2>1 DEF File
  <2>3. dir[d].holder = p /\ proc'[p] = proc[p]
    BY <1>1, <1>8 DEF Attempt, WorkersHold, Holding
  <2>4. Passes(p, dir[d], dir'[d])
    BY <1>1, <2>2, <2>3, OneLineLonger DEF Passes
  <2>5. QED
    BY <1>1, <1>2, <2>2, <2>3, <2>4, PassesKeeps
<1>9. CASE Profile(p)
  <2>1. PICK kinds \in {<<>>, <<"profile">>} :
          dir' = [dir EXCEPT ![d] = [@ EXCEPT !.journal = Appended(p, kinds), !.holder = Nobody]]
    BY <1>1, <1>9 DEF Profile
  <2>2. dir'[d].holder = Nobody /\ dir'[d].journal = Appended(p, kinds)
    BY <1>1, <2>1 DEF File
  <2>3. dir[d].holder = p /\ proc'[p].phase = "ended"
    BY <1>1, <1>9, GoesOn DEF Profile, WorkersHold, Holding, Place
  <2>4. \/ dir'[d].journal = dir[d].journal
        \/ Longer(dir[d].journal, dir'[d].journal)
    <3>1. CASE kinds = <<>>
      <4>1. dir[d].journal \in Seq(Line)
        BY Plain
      <4>2. Appended(p, <<>>) = dir[d].journal \o <<>>
        BY <1>1 DEF Appended
      <4>3. QED
        BY <2>2, <3>1, <4>1, <4>2
    <3>2. CASE kinds = <<"profile">>
      BY <1>1, <2>2, <3>2, OneLineLonger DEF Kind
    <3>3. QED
      BY <3>1, <3>2
  <2>5. Passes(p, dir[d], dir'[d])
    BY <2>2, <2>3, <2>4 DEF Passes
  <2>6. QED
    BY <1>2, <2>3, <2>5, PassesKeeps DEF Holding
<1>10. CASE WriteReport(p)
  <2>1. dir'[d].holder = dir[d].holder /\ dir'[d].journal = dir[d].journal
    BY <1>1, <1>10 DEF WriteReport, File
  <2>2. proc'[p].dir = d /\ proc[p].phase = "working"
    BY <1>1, <1>10, GoesOn DEF WriteReport, Place
  <2>3. QED
    BY <1>1, <1>2, <2>1, <2>2, StaysKeeps DEF Holding
<1>11. CASE Return(p) \/ Raise(p) \/ Die(p)
  BY <1>1, <1>2, <1>11, ReleasesKeeps DEF Return, Raise, Die
<1>12. QED
  BY <1>3, <1>4, <1>5, <1>6, <1>7, <1>8, <1>9, <1>10, <1>11 DEF Step

(* A call that begins, and what a thread does beside optimize(): neither   *)
(* has a lock or takes one.                                                *)
LEMMA OutsideKeeps ==
  ASSUME DirInv, WorkersHold, NEW p \in Proc, NEW d \in Dir, Acts(p, d), SameFiles,
         dir'[d].holder = dir[d].holder, proc'[p].phase \notin Holding
  PROVE  WorkersHold' /\ \A e \in Dir : LedgerStep(e)
BY StaysKeeps DEF SameFiles

LEMMA CallLedger ==
  ASSUME DirInv, WorkersHold, NEW p \in Proc, NEW d \in Dir, Call(p, d)
  PROVE  WorkersHold' /\ \A e \in Dir : LedgerStep(e)
<1>1. PICK c \in Config : CallFresh(p, d, c) \/ CallResume(p, d, c) \/ CallProfile(p, d, c)
  BY DEF Call
<1>2. UNCHANGED dir
  BY <1>1 DEF CallFresh, CallResume, CallProfile
<1>3. proc'[p].phase \in {"called", "inspected"}
  <2>1. PICK mode \in {"fresh", "resume", "profile"} :
          \/ proc' = [proc EXCEPT ![p] = Called(mode, d, c)]
          \/ proc' = [proc EXCEPT ![p] = [Called(mode, d, c) EXCEPT
                                            !.phase = "inspected", !.stored = dir[d].manifest]]
    BY <1>1 DEF CallFresh, CallResume, CallProfile
  <2> DEFINE call == Called(mode, d, c)
  <2>2. call.phase = "called" /\ "phase" \in DOMAIN call
    BY DEF Called
  <2> HIDE DEF call
  <2>3. \/ proc'[p] = call
        \/ proc'[p] = [call EXCEPT !.phase = "inspected", !.stored = dir[d].manifest]
    BY <2>1 DEF DirInv, Types, call
  <2>4. QED
    BY <2>2, <2>3
<1>4. QED
  BY <1>2, <1>3, CallActs, OutsideKeeps DEF SameFiles, Holding

LEMMA StartLedger ==
  ASSUME DirInv, WorkersHold, NEW w \in Web, NEW d \in RunsRoot, NEW c \in Form,
         StartRun(w, d, c)
  PROVE  WorkersHold' /\ \A e \in Dir : LedgerStep(e)
<1>1. w \in Proc /\ d \in Dir
  BY WebAssumption, RootAssumption
<1>2. /\ dir'[d].holder = dir[d].holder /\ SameFiles
  BY <1>1 DEF StartRun, SameFiles, DirInv, Types, File
<1>3. proc'[w].phase = "starting"
  BY <1>1 DEF StartRun, Called, DirInv, Types
<1>4. QED
  BY <1>1, <1>2, <1>3, StartActs, OutsideKeeps DEF Holding

LEMMA ThreadLedger ==
  ASSUME DirInv, WorkersHold, NEW w \in Web, BuildGenerator(w) \/ Explain(w)
  PROVE  WorkersHold' /\ \A e \in Dir : LedgerStep(e)
<1>1. w \in Proc
  BY WebAssumption
<1>2. PICK d \in Dir : d = proc[w].dir
  BY <1>1, Plain
<1>3. dir'[d].holder = dir[d].holder /\ SameFiles
  <2>1. CASE BuildGenerator(w)
    BY <2>1 DEF BuildGenerator, SameFiles
  <2>2. CASE Explain(w)
    BY <1>1, <1>2, <2>2 DEF Explain, SameFiles, DirInv, Types, File
  <2>3. QED
    BY <2>1, <2>2
<1>4. PICK phase \in {"called", "failed", "explained"} : To(w, phase)
  BY DEF BuildGenerator, Explain
<1>5. proc'[w].phase = phase
  BY <1>1, <1>4, GoesOn DEF Place
<1>6. QED
  BY <1>1, <1>2, <1>3, <1>5, ThreadActs, OutsideKeeps DEF Holding

(* The server lets go of what its threads held.                            *)
LEMMA DeathLedger ==
  ASSUME DirInv, WorkersHold, ServerDies
  PROVE  WorkersHold' /\ \A e \in Dir : LedgerStep(e)
<1>1. ASSUME NEW d \in Dir
      PROVE  /\ dir'[d].journal = dir[d].journal
             /\ dir'[d].holder = IF dir[d].holder \in active_run_id
                                 THEN Nobody ELSE dir[d].holder
  BY DEF ServerDies, DirInv, Types, File, Author
<1>2. ASSUME NEW p \in Proc
      PROVE  /\ p \in active_run_id => proc'[p].phase = "dead"
             /\ p \notin active_run_id => proc'[p] = proc[p]
  BY DEF ServerDies, DirInv, Types, Caller, Place
<1>3. WorkersHold'
  BY <1>1, <1>2, Plain DEF WorkersHold, Holding
<1>4. ASSUME NEW d \in Dir
      PROVE  LedgerStep(d)
  <2>1. CASE dir[d].holder \in active_run_id
    <3>1. dir[d].holder \in Proc
      BY <2>1, WebAssumption DEF active_run_id
    <3>2. QED
      BY <1>1, <2>1, <3>1, PassesIsLedgerStep DEF Passes
  <2>2. CASE dir[d].holder \notin active_run_id
    BY <1>1, <2>2 DEF LedgerStep
  <2>3. QED
    BY <2>1, <2>2
<1>5. QED
  BY <1>3, <1>4

(* Every step of the system.                                               *)
LEMMA NextLedger ==
  ASSUME DirInv, WorkersHold, [Next]_vars
  PROVE  WorkersHold' /\ \A d \in Dir : LedgerStep(d)
<1>1. ASSUME NEW w \in Web, NEW d \in RunsRoot, NEW c \in Form, StartRun(w, d, c)
      PROVE  WorkersHold' /\ \A e \in Dir : LedgerStep(e)
  BY <1>1, StartLedger
<1>2. ASSUME NEW w \in Web, ThreadStep(w)
      PROVE  WorkersHold' /\ \A d \in Dir : LedgerStep(d)
  <2>1. w \in Proc
    BY WebAssumption
  <2>2. QED
    BY <1>2, <2>1, ThreadLedger, StepLedger DEF ThreadStep
<1>3. ASSUME NEW p \in Proc \ Web, CommandLine(p)
      PROVE  WorkersHold' /\ \A d \in Dir : LedgerStep(d)
  BY <1>3, CallLedger, StepLedger DEF CommandLine
<1>4. CASE ServerDies
  BY <1>4, DeathLedger
<1>5. CASE UNCHANGED dirVars
  BY <1>5 DEF dirVars, WorkersHold, LedgerStep
<1>6. QED
  BY <1>1, <1>2, <1>3, <1>4, <1>5
     DEF Next, ServerStarts, Ask, ReadReport, ReadError, ReadJournal, vars

(* Who works in a directory has its run.lock, and only one process does:   *)
(* what resume, the console and a second command line rely on.             *)
THEOREM OneProcessPerDirectory ==
  Spec => [](/\ DirInv /\ WorkersHold
             /\ \A p, q \in Proc :
                  (/\ proc[p].phase \in Holding /\ proc[q].phase \in Holding
                   /\ proc[p].dir = proc[q].dir) => p = q)
<1>1. Init => DirInv /\ WorkersHold
  <2>1. DirInit => WorkersHold
    BY DEF DirInit, WorkersHold, Holding
  <2>2. QED
    BY <2>1, DirInitial DEF Init
<1>2. DirInv /\ WorkersHold /\ [Next]_vars => (DirInv /\ WorkersHold)'
  BY NextKeeps, NextLedger
<1>3. WorkersHold => \A p, q \in Proc :
                       (/\ proc[p].phase \in Holding /\ proc[q].phase \in Holding
                        /\ proc[p].dir = proc[q].dir) => p = q
  BY DEF WorkersHold
<1>4. QED
  BY <1>1, <1>2, <1>3, PTL DEF Spec

(* Each run directory implements the ledger that one journal does: the     *)
(* lock passes through nobody's hands, and only its holder extends.        *)
THEOREM RunDirectoriesAreLedgers == Spec => DirectoriesAreLedgers
<1>1. Init => \A d \in Dir : L(d)!LedgerInit
  BY DEF Init, DirInit, Empty, L!LedgerInit
<1>2. DirInv /\ WorkersHold /\ [Next]_vars =>
        [\A d \in Dir : LedgerStep(d)]_dirVars
  BY NextLedger
<1>3. Spec => [](DirInv /\ WorkersHold)
  BY OneProcessPerDirectory, PTL
<1>4. QED
  BY <1>1, <1>2, <1>3, PTL DEF Spec, DirectoriesAreLedgers
=============================================================================
