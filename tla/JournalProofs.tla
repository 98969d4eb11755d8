--------------------------- MODULE JournalProofs ---------------------------
(***************************************************************************)
(* The locked journal protocol, proved for every number of writers, every  *)
(* set of record bodies and every bound: one inductive invariant says that *)
(* the chain on disk is whole and that a loaded process's memory is the    *)
(* file; from it follow append-only behaviour and the abstract ledger.     *)
(***************************************************************************)
EXTENDS Journal, SequenceTheorems, TLAPS

(* A block a process may write: it chains to the process's head.           *)
IsBlock(p, block) ==
  /\ block \in Seq(Line)
  /\ Len(block) \in 1 .. 2
  /\ block[1].prev = chain[p]
  /\ \A i \in 2 .. Len(block) : block[i].prev = block[i - 1].hash

(* Both kinds of append write such a block.                                *)
LEMMA SingleIsBlock ==
  ASSUME TypeOK, NEW p \in Proc, NEW body \in Bodies
  PROVE  IsBlock(p, Single(p, body)) /\ Len(Single(p, body)) = 1
  BY DEF TypeOK, IsBlock, Single, Line

LEMMA CommitIsBlock ==
  ASSUME TypeOK, NEW p \in Proc
  PROVE  IsBlock(p, CommitBlock(p)) /\ Len(CommitBlock(p)) = 2
  BY DEF TypeOK, IsBlock, CommitBlock, Line, Bodies

(* What a sequence looks like after the first n records of a block.        *)
LEMMA Glue ==
  ASSUME NEW s \in Seq(Line), NEW block \in Seq(Line), NEW n \in 0 .. Len(block)
  PROVE  LET t == s \o SubSeq(block, 1, n)
         IN  /\ t \in Seq(Line)
             /\ Len(t) = Len(s) + n
             /\ \A i \in 1 .. Len(s) : t[i] = s[i]
             /\ \A i \in 1 .. n : t[Len(s) + i] = block[i]
  <1>1. \A i \in 1 .. n : block[i] \in Line
    BY ElementOfSeq
  <1> DEFINE b == SubSeq(block, 1, n)
  <1>2. /\ b \in Seq(Line)
        /\ Len(b) = n
        /\ \A i \in 1 .. n : b[i] = block[i]
    <2>1. /\ b \in Seq(Line)
          /\ Len(b) = IF 1 <= n THEN n - 1 + 1 ELSE 0
          /\ \A i \in 1 .. n - 1 + 1 : b[i] = block[1 + i - 1]
      BY <1>1, SubSeqProperties, Z3
    <2> QED BY <2>1
  <1> QED
    BY <1>2, ConcatProperties

(* The first n records of a block reach a file without a fragment: the     *)
(* chain stays whole and nothing before them moves.                        *)
LEMMA WrittenExtends ==
  ASSUME TypeOK, ChainIntact, ~torn,
         NEW p \in Proc, chain[p] = LastHash(lines),
         NEW block, IsBlock(p, block),
         NEW n \in 0 .. Len(block), Written(block, n)
  PROVE  /\ lines' \in Seq(Line)
         /\ fresh' \in Nat
         /\ damaged' = damaged
         /\ Len(lines') = Len(lines) + n
         /\ \A i \in 1 .. Len(lines) : lines'[i] = lines[i]
         /\ ChainIntact'
         /\ n > 0 => LastHash(lines') = block[n].hash
  <1>1. /\ block \in Seq(Line)
        /\ Len(block) \in 1 .. 2
        /\ block[1].prev = chain[p]
        /\ \A i \in 2 .. Len(block) : block[i].prev = block[i - 1].hash
    BY DEF IsBlock
  <1>2. lines \in Seq(Line) /\ fresh \in Nat
    BY DEF TypeOK
  <1>3. /\ lines' = lines \o SubSeq(block, 1, n)
        /\ fresh' = fresh + n
        /\ damaged' = damaged
    BY DEF Written
  <1>4. /\ lines' \in Seq(Line)
        /\ Len(lines') = Len(lines) + n
        /\ \A i \in 1 .. Len(lines) : lines'[i] = lines[i]
        /\ \A i \in 1 .. n : lines'[Len(lines) + i] = block[i]
    BY <1>1, <1>2, <1>3, Glue
  <1>5. ChainIntact'
    <2> SUFFICES ASSUME NEW i \in 1 .. Len(lines')
                 PROVE  lines'[i].prev = IF i = 1 THEN Genesis ELSE lines'[i - 1].hash
      BY DEF ChainIntact, Genesis
    <2>1. CASE i \in 1 .. Len(lines)
      BY <2>1, <1>2, <1>4 DEF ChainIntact, Genesis
    <2>2. CASE i = Len(lines) + 1
      <3>1. n \in 1 .. 2 /\ lines'[i] = block[1]
        BY <2>2, <1>1, <1>2, <1>4
      <3>2. block[1].prev = LastHash(lines)
        BY <1>1
      <3>3. CASE lines = << >>
        BY <3>1, <3>2, <3>3, <2>2 DEF LastHash, Genesis
      <3>4. CASE lines # << >>
        <4>1. Len(lines) \in Nat \ {0}
          BY <3>4, <1>2, EmptySeq
        <4>2. lines'[i - 1] = lines[Len(lines)] /\ i # 1
          BY <4>1, <2>2, <1>4
        <4> QED
          BY <3>1, <3>2, <3>4, <4>2 DEF LastHash
      <3> QED
        BY <3>3, <3>4
    <2>3. CASE i = Len(lines) + 2
      <3>1. n = 2 /\ Len(block) = 2 /\ Len(lines) \in Nat
        <4>1. Len(lines) \in Nat /\ i <= Len(lines) + n
          BY <1>2, <1>4
        <4>2. Len(block) \in {1, 2} /\ n \in {0, 1, 2} /\ n <= Len(block)
          BY <1>1
        <4>3. n >= 2
          BY <4>1, <4>2, <2>3
        <4>4. n = 2
          BY <4>2, <4>3
        <4>5. Len(block) = 2
          BY <4>2, <4>4
        <4> QED
          BY <4>1, <4>4, <4>5
      <3>2. lines'[i] = block[2] /\ lines'[i - 1] = block[1]
        <4>1. lines'[Len(lines) + 2] = block[2] /\ lines'[Len(lines) + 1] = block[1]
          BY <3>1, <1>4
        <4>2. i - 1 = Len(lines) + 1
          BY <3>1, <2>3
        <4> QED
          BY <4>1, <4>2, <2>3
      <3>3. block[2].prev = block[1].hash /\ i # 1
        BY <3>1, <2>3, <1>1
      <3> QED
        BY <3>2, <3>3
    <2>4. n \in {0, 1, 2} /\ Len(lines) \in Nat
      BY <1>1, <1>2
    <2>5. i \in 1 .. Len(lines) \/ i = Len(lines) + 1 \/ i = Len(lines) + 2
      BY <2>4, <1>4
    <2> QED
      BY <2>1, <2>2, <2>3, <2>5
  <1>6. n > 0 => LastHash(lines') = block[n].hash
    <2> SUFFICES ASSUME n > 0
                 PROVE  LastHash(lines') = block[n].hash
      OBVIOUS
    <2>1. Len(lines') > 0 /\ lines'[Len(lines')] = block[n]
      BY <1>1, <1>2, <1>4
    <2>2. lines' # << >>
      BY <2>1
    <2> QED
      BY <2>1, <2>2 DEF LastHash
  <1> QED
    BY <1>2, <1>3, <1>4, <1>5, <1>6

(* The holder is the only writer that is not idle.                         *)
LEMMA OnlyHolderRuns ==
  ASSUME HolderOnly, NEW w \in Writer, pc[w] # "idle"
  PROVE  lock = w /\ \A v \in Writer : v # w => pc[v] = "idle"
  BY DEF HolderOnly

(* A process that ends leaves every writer idle and the lock free.         *)
LEMMA ForgetKeeps ==
  ASSUME TypeOK, HolderOnly, NEW w \in Writer, pc[w] # "idle", Forget(w)
  PROVE  /\ pc' \in [Proc -> Phase]
         /\ chain' \in [Proc -> Nat]
         /\ entries' \in [Proc -> Seq(Line)]
         /\ kept' \in [Proc -> Nat]
         /\ lock' \in Writer \cup {NoProc}
         /\ HolderOnly'
         /\ SessionIsFile'
  <1>1. lock = w /\ \A v \in Writer : v # w => pc[v] = "idle"
    BY OnlyHolderRuns
  <1>2. /\ pc' \in [Proc -> Phase]
        /\ chain' \in [Proc -> Nat]
        /\ entries' \in [Proc -> Seq(Line)]
        /\ kept' \in [Proc -> Nat]
    BY EmptySeq DEF TypeOK, Forget, Phase, Genesis
  <1>3. lock' = NoProc /\ \A v \in Writer : pc'[v] = "idle"
    BY <1>1 DEF TypeOK, Forget, Proc
  <1>4. HolderOnly'
    BY <1>3, ProcAssumption DEF HolderOnly
  <1>5. SessionIsFile'
    BY <1>3 DEF SessionIsFile
  <1> QED
    BY <1>2, <1>3, <1>4, <1>5

(* A write that returns: memory follows the file.                          *)
LEMMA WriteKeeps ==
  ASSUME JournalInv, NEW w \in Writer, pc[w] \in {"recovering", "open"},
         NEW block, IsBlock(w, block), Write(w, block),
         pc' = [pc EXCEPT ![w] = "open"]
  PROVE  JournalInv'
  <1>1. TypeOK /\ ChainIntact /\ HolderOnly /\ SessionIsFile
    BY DEF JournalInv
  <1>2. w \in Proc
    BY DEF Proc
  <1>3. ~torn /\ chain[w] = LastHash(lines) /\ entries[w] = lines
    BY <1>1 DEF SessionIsFile
  <1>4. block \in Seq(Line) /\ Len(block) \in 1 .. 2
    BY DEF IsBlock
  <1>5. Len(block) \in 0 .. Len(block) /\ Len(block) > 0 /\ Written(block, Len(block))
    BY <1>4 DEF Write
  <1>6. /\ lines' \in Seq(Line)
        /\ fresh' \in Nat
        /\ damaged' = damaged
        /\ ChainIntact'
        /\ LastHash(lines') = block[Len(block)].hash
    BY <1>1, <1>2, <1>3, <1>5, WrittenExtends
  <1>7. lines' = lines \o block
    <2>1. SubSeq(block, 1, Len(block)) = block
      BY <1>4, SubSeqFull
    <2> QED
      BY <2>1, <1>5 DEF Written
  <1>8. block[Len(block)].hash \in Nat
    <2>1. Len(block) \in 1 .. Len(block)
      <3>1. Len(block) = 1 \/ Len(block) = 2
        BY <1>4
      <3> QED
        BY <3>1
    <2>2. block[Len(block)] \in Line
      BY <2>1, <1>4, ElementOfSeq
    <2> QED
      BY <2>2 DEF Line
  <1>9. entries'[w] = lines' /\ chain'[w] = LastHash(lines') /\ torn' = FALSE
    BY <1>1, <1>2, <1>3, <1>6, <1>7 DEF Write, TypeOK
  <1>10. TypeOK'
    <2>1. chain' \in [Proc -> Nat]
      BY <1>1, <1>8 DEF Write, TypeOK
    <2>2. entries' = [entries EXCEPT ![w] = lines']
      BY <1>3, <1>7 DEF Write
    <2>3. entries' \in [Proc -> Seq(Line)]
      BY <1>1, <2>2, <1>6 DEF TypeOK
    <2>4. pc' \in [Proc -> Phase]
      BY <1>1 DEF TypeOK, Phase
    <2>5. lock' = lock /\ kept' = kept
      BY DEF Write
    <2> QED
      BY <1>1, <1>6, <1>9, <2>1, <2>3, <2>4, <2>5 DEF TypeOK
  <1>11. HolderOnly'
    <2>1. pc[w] # "idle" /\ pc'[w] # "idle" /\ lock' = lock
      BY <1>1, <1>2 DEF Write, TypeOK
    <2>2. \A v \in Writer : v # w => pc'[v] = pc[v]
      BY <1>1 DEF TypeOK, Proc
    <2> QED
      BY <1>1, <2>1, <2>2 DEF HolderOnly
  <1>12. SessionIsFile'
    <2>1. \A v \in Writer : v # w => pc'[v] = "idle"
      BY <1>1, OnlyHolderRuns DEF TypeOK, Proc
    <2>2. pc'[w] = "open"
      BY <1>1, <1>2 DEF TypeOK
    <2> QED
      BY <2>1, <2>2, <1>9 DEF SessionIsFile
  <1> QED
    BY <1>6, <1>10, <1>11, <1>12 DEF JournalInv

(* A write cut short by the writer's death.                                *)
LEMMA TornWriteKeeps ==
  ASSUME JournalInv, NEW w \in Writer, pc[w] \in {"recovering", "open"},
         NEW block, IsBlock(w, block), TornWrite(w, block)
  PROVE  JournalInv'
  <1>1. TypeOK /\ ChainIntact /\ HolderOnly /\ SessionIsFile
    BY DEF JournalInv
  <1>2. w \in Proc
    BY DEF Proc
  <1>3. ~torn /\ chain[w] = LastHash(lines) /\ torn \in BOOLEAN
    BY <1>1 DEF SessionIsFile, TypeOK
  <1>4. PICK n \in 0 .. Len(block) :
          /\ Written(block, n)
          /\ torn' \in IF n = Len(block) THEN {FALSE}
                       ELSE IF n = 0 THEN {torn, TRUE} ELSE {FALSE, TRUE}
    BY DEF TornWrite
  <1>5. torn' \in BOOLEAN
    BY <1>3, <1>4
  <1>6. /\ lines' \in Seq(Line)
        /\ fresh' \in Nat
        /\ damaged' = damaged
        /\ ChainIntact'
    BY <1>1, <1>2, <1>3, <1>4, WrittenExtends
  <1>7. Forget(w)
    BY DEF TornWrite
  <1> QED
    BY <1>1, <1>5, <1>6, <1>7, ForgetKeeps DEF JournalInv, TypeOK

LEMMA JournalInvInit == Init => JournalInv
  <1> SUFFICES ASSUME Init
               PROVE  JournalInv
    OBVIOUS
  <1>1. << >> \in Seq(Line) /\ Len(<< >>) = 0
    BY EmptySeq
  <1>2. TypeOK
    BY <1>1 DEF Init, TypeOK, Phase, Genesis
  <1>3. ChainIntact
    BY <1>1 DEF Init, ChainIntact
  <1>4. \A w \in Writer : pc[w] = "idle"
    BY DEF Init, Proc
  <1> QED
    BY <1>2, <1>3, <1>4, ProcAssumption
    DEF Init, JournalInv, HolderOnly, SessionIsFile

(* Each step of the locked protocol preserves the invariant: one case per  *)
(* action.                                                                 *)
LEMMA JournalInvStep == JournalInv /\ [LockedNext]_vars => JournalInv'
  <1> SUFFICES ASSUME JournalInv, [LockedNext]_vars
               PROVE  JournalInv'
    OBVIOUS
  <1>1. TypeOK /\ ChainIntact /\ HolderOnly /\ SessionIsFile
    BY DEF JournalInv
  <1>2. ASSUME NEW w \in Writer, Acquire(w)
        PROVE  JournalInv'
    <2>1. lock = NoProc /\ \A v \in Writer : pc[v] = "idle"
      BY <1>1, <1>2, ProcAssumption DEF Acquire, HolderOnly
    <2>2. pc' \in [Proc -> Phase] /\ lock' = w /\ pc'[w] = "locked"
          /\ \A v \in Writer : v # w => pc'[v] = "idle"
      BY <1>1, <1>2, <2>1 DEF Acquire, TypeOK, Phase, Proc
    <2>3. TypeOK' /\ ChainIntact'
      BY <1>1, <1>2, <2>2 DEF Acquire, fileVars, TypeOK, ChainIntact
    <2> QED
      BY <2>2, <2>3 DEF JournalInv, HolderOnly, SessionIsFile
  <1>3. ASSUME NEW w \in Writer, Load(w)
        PROVE  JournalInv'
    <2>1. pc[w] = "locked" /\ w \in Proc
      BY <1>3 DEF Load, MayLoad, Proc
    <2>2. /\ pc' \in [Proc -> Phase]
          /\ pc'[w] = IF torn THEN "truncating" ELSE "open"
          /\ \A v \in Writer : v # w => pc'[v] = pc[v]
      BY <1>1, <1>3, <2>1 DEF Load, TypeOK, Phase, Proc
    <2>3. LastHash(lines) \in Nat
      <3>1. CASE lines = << >>
        BY <3>1 DEF LastHash, Genesis
      <3>2. CASE lines # << >>
        <4>1. Len(lines) \in 1 .. Len(lines) /\ lines \in Seq(Line)
          BY <3>2, <1>1, EmptySeq DEF TypeOK
        <4>2. lines[Len(lines)] \in Line
          BY <4>1, ElementOfSeq
        <4> QED
          BY <3>2, <4>2 DEF LastHash, Line
      <3> QED
        BY <3>1, <3>2
    <2>4. lines \in Seq(Line) /\ Len(lines) \in Nat
      BY <1>1 DEF TypeOK
    <2>5. TypeOK' /\ ChainIntact'
      BY <1>1, <1>3, <2>2, <2>3, <2>4
      DEF Load, fileVars, TypeOK, ChainIntact
    <2>6. HolderOnly'
      BY <1>1, <1>3, <2>1, <2>2 DEF Load, HolderOnly
    <2>7. SessionIsFile'
      <3>1. \A v \in Writer : v # w => pc'[v] = "idle"
        BY <1>1, <2>1, <2>2, OnlyHolderRuns
      <3>2. /\ entries'[w] = lines
            /\ chain'[w] = LastHash(lines)
            /\ torn => kept'[w] = Len(lines)
            /\ lines' = lines /\ torn' = torn
        BY <1>1, <1>3, <2>1 DEF Load, fileVars, TypeOK
      <3> QED
        BY <3>1, <3>2, <2>2 DEF SessionIsFile, LastHash
    <2> QED
      BY <2>5, <2>6, <2>7 DEF JournalInv
  <1>4. ASSUME NEW w \in Writer, LoadRefused(w) \/ End(w)
        PROVE  JournalInv'
    <2>1. pc[w] # "idle" /\ Forget(w) /\ UNCHANGED fileVars
      BY <1>4 DEF LoadRefused, End
    <2> QED
      BY <1>1, <2>1, ForgetKeeps DEF JournalInv, TypeOK, ChainIntact, fileVars
  <1>5. ASSUME NEW w \in Writer, Truncate(w)
        PROVE  JournalInv'
    <2>1. /\ w \in Proc
          /\ pc[w] = "truncating"
          /\ kept[w] = Len(lines)
          /\ lines \in Seq(Line)
          /\ Len(lines) \in Nat
      BY <1>1, <1>5 DEF Truncate, SessionIsFile, TypeOK, Proc
    <2>2. lines' = lines /\ torn' = FALSE /\ damaged' = damaged \cap (1 .. Len(lines))
      <3>1. SubSeq(lines, 1, Len(lines)) = lines
        BY <2>1, SubSeqFull
      <3> QED
        BY <1>5, <2>1, <3>1 DEF Truncate
    <2>3. /\ pc' = [pc EXCEPT ![w] = "recovering"]
          /\ kept' = [kept EXCEPT ![w] = 0]
          /\ UNCHANGED <<lock, fresh, chain, entries>>
      BY <1>5 DEF Truncate
    <2>4. /\ pc' \in [Proc -> Phase]
          /\ pc'[w] = "recovering"
          /\ \A v \in Writer : v # w => pc'[v] = pc[v]
      BY <1>1, <2>1, <2>3 DEF TypeOK, Phase, Proc
    <2>5. TypeOK' /\ ChainIntact'
      BY <1>1, <2>2, <2>3, <2>4 DEF TypeOK, ChainIntact
    <2>6. HolderOnly'
      BY <1>1, <2>1, <2>3, <2>4 DEF HolderOnly
    <2>7. SessionIsFile'
      <3>1. \A v \in Writer : v # w => pc'[v] = "idle"
        BY <1>1, <2>1, <2>4, OnlyHolderRuns
      <3> QED
        BY <1>1, <2>1, <2>2, <2>3, <2>4, <3>1 DEF SessionIsFile, LastHash
    <2> QED
      BY <2>5, <2>6, <2>7 DEF JournalInv
  <1>6. ASSUME NEW w \in Writer, RecoverAppend(w)
        PROVE  JournalInv'
    <2>1. IsBlock(w, Single(w, "journal_recovered"))
      BY <1>1, SingleIsBlock DEF Proc, Bodies
    <2> QED
      BY <1>6, <2>1, WriteKeeps DEF RecoverAppend
  <1>7. ASSUME NEW w \in Writer, RecoverAppendTorn(w)
        PROVE  JournalInv'
    <2>1. IsBlock(w, Single(w, "journal_recovered"))
      BY <1>1, SingleIsBlock DEF Proc, Bodies
    <2> QED
      BY <1>7, <2>1, TornWriteKeeps DEF RecoverAppendTorn
  <1>8. ASSUME NEW w \in Writer, NEW body \in Body,
               AppendOne(w, body) \/ AppendTorn(w, body)
        PROVE  JournalInv'
    <2>1. IsBlock(w, Single(w, body))
      BY <1>1, SingleIsBlock DEF Proc, Bodies
    <2>2. CASE AppendOne(w, body)
      <3>1. pc' = [pc EXCEPT ![w] = "open"]
        BY <1>1, <2>2 DEF AppendOne, TypeOK
      <3> QED
        BY <2>1, <2>2, <3>1, WriteKeeps DEF AppendOne
    <2>3. CASE AppendTorn(w, body)
      BY <2>1, <2>3, TornWriteKeeps DEF AppendTorn
    <2> QED
      BY <1>8, <2>2, <2>3
  <1>9. ASSUME NEW w \in Writer, Commit(w) \/ CommitTorn(w)
        PROVE  JournalInv'
    <2>1. IsBlock(w, CommitBlock(w))
      BY <1>1, CommitIsBlock DEF Proc
    <2>2. CASE Commit(w)
      <3>1. pc' = [pc EXCEPT ![w] = "open"]
        BY <1>1, <2>2 DEF Commit, TypeOK
      <3> QED
        BY <2>1, <2>2, <3>1, WriteKeeps DEF Commit
    <2>3. CASE CommitTorn(w)
      BY <2>1, <2>3, TornWriteKeeps DEF CommitTorn
    <2> QED
      BY <1>9, <2>2, <2>3
  <1>10. CASE Damage
    <2>1. PICK i \in 1 .. Len(lines) : damaged' = {i}
      BY <1>10 DEF Damage
    <2>2. TypeOK'
      BY <1>1, <1>10, <2>1 DEF Damage, TypeOK, procVars
    <2> QED
      BY <1>1, <1>10, <2>2
      DEF Damage, procVars, JournalInv, ChainIntact, HolderOnly, SessionIsFile, LastHash
  <1>11. CASE UNCHANGED vars
    BY <1>1, <1>11
    DEF vars, JournalInv, TypeOK, ChainIntact, HolderOnly, SessionIsFile, LastHash
  <1> QED
    BY <1>2, <1>3, <1>4, <1>5, <1>6, <1>7, <1>8, <1>9, <1>10, <1>11
    DEF LockedNext, WriterStep, LoaderStep

(* The inductive invariant holds throughout every locked behaviour.        *)
THEOREM LockedInvariant == LockedSpec => []JournalInv
  <1> QED
    BY JournalInvInit, JournalInvStep, PTL DEF LockedSpec

(* Journal._load's chain check never fails on an undamaged journal: no     *)
(* sequence of crashes, torn writes and recoveries breaks the hash chain.  *)
THEOREM ChainNeverBreaks == LockedSpec => []ChainIntact
  <1>1. JournalInv => ChainIntact
    BY DEF JournalInv
  <1> QED
    BY <1>1, LockedInvariant, PTL

(* An open Journal object's entries and chain head are the file's.         *)
THEOREM MemoryStaysFile == LockedSpec => []MemoryIsFile
  <1>1. JournalInv => MemoryIsFile
    BY DEF JournalInv, SessionIsFile, MemoryIsFile
  <1> QED
    BY <1>1, LockedInvariant, PTL

(* A returning write is one ledger extension by the holder.                *)
LEMMA WriteExtendsLedger ==
  ASSUME JournalInv, NEW w \in Writer, pc[w] \in {"recovering", "open"},
         NEW block, IsBlock(w, block), Write(w, block)
  PROVE  L!LedgerNext
  <1>1. TypeOK /\ ChainIntact /\ HolderOnly /\ SessionIsFile /\ w \in Proc
    BY DEF JournalInv, Proc
  <1>2. ~torn /\ chain[w] = LastHash(lines) /\ lines \in Seq(Line)
    BY <1>1 DEF SessionIsFile, TypeOK
  <1>3. block \in Seq(Line) /\ (Len(block) = 1 \/ Len(block) = 2)
    BY DEF IsBlock
  <1>4. Len(block) \in 0 .. Len(block) /\ Written(block, Len(block))
    BY <1>3 DEF Write
  <1>5. /\ Len(lines') = Len(lines) + Len(block)
        /\ \A i \in 1 .. Len(lines) : lines'[i] = lines[i]
    BY <1>1, <1>2, <1>4, WrittenExtends
  <1>6. Len(lines') \in (Len(lines) + 1) .. (Len(lines) + 2)
    <2>1. Len(lines) \in Nat
      BY <1>2
    <2>2. Len(lines') = Len(lines) + 1 \/ Len(lines') = Len(lines) + 2
      BY <1>3, <1>5
    <2> QED
      BY <2>1, <2>2
  <1>7. lock \in Writer /\ lock' = lock
    BY <1>1, OnlyHolderRuns DEF Write
  <1> QED
    BY <1>5, <1>6, <1>7 DEF L!LedgerNext, L!Extend, L!Extended

(* A write cut short extends the ledger, or only ends its owner's turn.    *)
LEMMA TornWriteIsLedgerStep ==
  ASSUME JournalInv, NEW w \in Writer, pc[w] \in {"recovering", "open"},
         NEW block, IsBlock(w, block), TornWrite(w, block)
  PROVE  L!LedgerNext
  <1>1. TypeOK /\ ChainIntact /\ HolderOnly /\ SessionIsFile /\ w \in Proc
    BY DEF JournalInv, Proc
  <1>2. ~torn /\ chain[w] = LastHash(lines) /\ lines \in Seq(Line)
    BY <1>1 DEF SessionIsFile, TypeOK
  <1>3. block \in Seq(Line) /\ (Len(block) = 1 \/ Len(block) = 2)
    BY DEF IsBlock
  <1>4. lock \in Writer /\ lock' = NoProc
    BY <1>1, OnlyHolderRuns DEF TornWrite, Forget
  <1>5. PICK n \in 0 .. Len(block) : Written(block, n)
    BY DEF TornWrite
  <1>6. CASE n = 0
    <2>1. lines' = lines
      <3>1. SubSeq(block, 1, 0) = << >>
        BY SubSeqEmpty
      <3> QED
        BY <1>2, <1>5, <1>6, <3>1, ConcatEmptySeq DEF Written
    <2> QED
      BY <1>4, <2>1 DEF L!LedgerNext, L!Leave
  <1>7. CASE n # 0
    <2>1. /\ Len(lines') = Len(lines) + n
          /\ \A i \in 1 .. Len(lines) : lines'[i] = lines[i]
      BY <1>1, <1>2, <1>5, WrittenExtends
    <2>2. n = 1 \/ n = 2
      <3>1. CASE Len(block) = 1
        <4>1. n \in 0 .. 1
          BY <3>1
        <4> QED
          BY <4>1, <1>7
      <3>2. CASE Len(block) = 2
        <4>1. n \in 0 .. 2
          BY <3>2
        <4> QED
          BY <4>1, <1>7
      <3> QED
        BY <1>3, <3>1, <3>2
    <2>3. Len(lines') \in (Len(lines) + 1) .. (Len(lines) + 2)
      BY <1>2, <2>1, <2>2
    <2> QED
      BY <1>4, <2>1, <2>3 DEF L!LedgerNext, L!Extend, L!Extended
  <1> QED
    BY <1>6, <1>7

LEMMA LedgerStep ==
  JournalInv /\ [LockedNext]_vars => [L!LedgerNext]_(L!ledgerVars)
  <1> SUFFICES ASSUME JournalInv, [LockedNext]_vars
               PROVE  L!LedgerNext \/ UNCHANGED L!ledgerVars
    OBVIOUS
  <1> USE DEF L!ledgerVars
  <1>1. TypeOK /\ ChainIntact /\ HolderOnly /\ SessionIsFile
    BY DEF JournalInv
  <1>2. ASSUME NEW w \in Writer, Acquire(w)
        PROVE  L!LedgerNext
    BY <1>2 DEF Acquire, fileVars, L!LedgerNext, L!Grab
  <1>3. ASSUME NEW w \in Writer, Load(w)
        PROVE  UNCHANGED L!ledgerVars
    BY <1>3 DEF Load, fileVars
  <1>4. ASSUME NEW w \in Writer, LoadRefused(w) \/ End(w)
        PROVE  L!LedgerNext
    <2>1. lock = w /\ lock' = NoProc /\ UNCHANGED lines
      BY <1>1, <1>4, OnlyHolderRuns DEF LoadRefused, End, Forget, fileVars
    <2> QED
      BY <2>1 DEF L!LedgerNext, L!Leave
  <1>5. ASSUME NEW w \in Writer, Truncate(w)
        PROVE  UNCHANGED L!ledgerVars
    <2>1. kept[w] = Len(lines) /\ lines \in Seq(Line) /\ Len(lines) \in Nat
      BY <1>1, <1>5 DEF Truncate, SessionIsFile, TypeOK
    <2>2. SubSeq(lines, 1, Len(lines)) = lines
      BY <2>1, SubSeqFull
    <2> QED
      BY <1>5, <2>1, <2>2 DEF Truncate
  <1>6. ASSUME NEW w \in Writer, RecoverAppend(w) \/ RecoverAppendTorn(w)
        PROVE  L!LedgerNext
    <2>1. IsBlock(w, Single(w, "journal_recovered"))
      BY <1>1, SingleIsBlock DEF Proc, Bodies
    <2> QED
      BY <1>6, <2>1, WriteExtendsLedger, TornWriteIsLedgerStep
      DEF RecoverAppend, RecoverAppendTorn
  <1>7. ASSUME NEW w \in Writer, NEW body \in Body,
               AppendOne(w, body) \/ AppendTorn(w, body)
        PROVE  L!LedgerNext
    <2>1. IsBlock(w, Single(w, body))
      BY <1>1, SingleIsBlock DEF Proc, Bodies
    <2> QED
      BY <1>7, <2>1, WriteExtendsLedger, TornWriteIsLedgerStep
      DEF AppendOne, AppendTorn
  <1>8. ASSUME NEW w \in Writer, Commit(w) \/ CommitTorn(w)
        PROVE  L!LedgerNext
    <2>1. IsBlock(w, CommitBlock(w))
      BY <1>1, CommitIsBlock DEF Proc
    <2> QED
      BY <1>8, <2>1, WriteExtendsLedger, TornWriteIsLedgerStep
      DEF Commit, CommitTorn
  <1>9. CASE Damage
    BY <1>9 DEF Damage
  <1>10. CASE UNCHANGED vars
    BY <1>10 DEF vars
  <1> QED
    BY <1>2, <1>3, <1>4, <1>5, <1>6, <1>7, <1>8, <1>9, <1>10
    DEF LockedNext, WriterStep, LoaderStep

(* Journal under run.lock is a ledger: one owner at a time, and the log    *)
(* only grows, by whole commit blocks of the owner's.                      *)
THEOREM JournalImplementsLedger == LockedSpec => ImplementsLedger
  <1>1. Init => L!LedgerInit
    BY DEF Init, L!LedgerInit
  <1> QED
    BY <1>1, LockedInvariant, LedgerStep, PTL
    DEF LockedSpec, ImplementsLedger, L!LedgerSpec

(* Complete records are never removed or replaced while everybody who      *)
(* loads the journal holds run.lock.                                       *)
THEOREM LockedAppendOnly == LockedSpec => AppendOnly
  <1>1. JournalInv /\ JournalInv' /\ [LockedNext]_vars
          => [IsPrefix(lines, lines')]_lines
    <2> SUFFICES ASSUME JournalInv, JournalInv', [LockedNext]_vars, lines' # lines
                 PROVE  IsPrefix(lines, lines')
      OBVIOUS
    <2>1. L!Extend
      BY LedgerStep
      DEF L!ledgerVars, L!LedgerNext, L!Grab, L!Leave
    <2>2. /\ lines \in Seq(Line) /\ Len(lines) \in Nat
          /\ lines' \in Seq(Line) /\ Len(lines') \in Nat
      BY DEF JournalInv, TypeOK
    <2>3. /\ Len(lines) <= Len(lines')
          /\ \A i \in 1 .. Len(lines) : lines'[i] = lines[i]
      BY <2>1, <2>2 DEF L!Extend, L!Extended
    <2>4. SubSeq(lines, 1, Len(lines)) = lines
      BY <2>2, SubSeqFull
    <2>5. SubSeq(lines', 1, Len(lines)) = lines
      <3> DEFINE front == SubSeq(lines', 1, Len(lines))
      <3>1. \A i \in 1 .. Len(lines) : lines'[i] \in Line
        BY <2>2, <2>3, ElementOfSeq
      <3>2. /\ front \in Seq(Line)
            /\ Len(front) = Len(lines)
            /\ \A i \in 1 .. Len(lines) : front[i] = lines'[i]
        BY <2>2, <3>1, SubSeqProperties, Z3
      <3> QED
        BY <2>2, <2>3, <3>2, SeqEqual
    <2> QED
      BY <2>3, <2>4, <2>5 DEF IsPrefix
  <1> QED
    BY <1>1, LockedInvariant, PTL DEF LockedSpec, AppendOnly

-----------------------------------------------------------------------------
(* What a step of a writer does to the lines that are damaged.             *)

LEMMA WriteLeavesDamage ==
  ASSUME JournalInv, NEW w \in Writer, pc[w] \in {"recovering", "open"},
         NEW block, Write(w, block) \/ TornWrite(w, block)
  PROVE  damaged' = damaged
  <1>1. ~torn
    BY DEF JournalInv, SessionIsFile
  <1> QED
    BY <1>1 DEF Write, TornWrite, Written

(* Who may find himself with an open journal.                              *)
MayOpen(p) ==
  (damaged # {} /\ pc'[p] = "open") => pc[p] \in {"open", "recovering"}

LEMMA DamageStep ==
  ASSUME DamageInv, [LockedNext]_vars
  PROVE  damaged \subseteq damaged' /\ \A p \in Proc : MayOpen(p)
  <1>1. /\ JournalInv /\ damaged \subseteq 1 .. Len(lines)
        /\ pc \in [Proc -> Phase] /\ SessionIsFile
        /\ Writer \subseteq Proc
    BY DEF DamageInv, JournalInv, TypeOK, Proc
  <1>2. ASSUME NEW w \in Writer, NEW phase, pc' = [pc EXCEPT ![w] = phase],
               phase = "open" => damaged = {} \/ pc[w] \in {"open", "recovering"}
        PROVE  \A p \in Proc : MayOpen(p)
    BY <1>1, <1>2 DEF MayOpen
  <1>3. ASSUME NEW w \in Writer, Acquire(w)
        PROVE  damaged' = damaged /\ \A p \in Proc : MayOpen(p)
    BY <1>2, <1>3 DEF Acquire, fileVars
  <1>4. ASSUME NEW w \in Writer, Load(w)
        PROVE  damaged' = damaged /\ \A p \in Proc : MayOpen(p)
    <2>1. damaged = {}
      BY <1>1, <1>4 DEF Load, Loadable, LineAccepted
    <2> QED
      BY <1>4, <2>1 DEF Load, fileVars, MayOpen
  <1>5. ASSUME NEW w \in Writer, LoadRefused(w) \/ End(w)
        PROVE  damaged' = damaged /\ \A p \in Proc : MayOpen(p)
    BY <1>2, <1>5 DEF LoadRefused, End, Forget, fileVars
  <1>6. ASSUME NEW w \in Writer, Truncate(w)
        PROVE  damaged' = damaged /\ \A p \in Proc : MayOpen(p)
    <2>1. kept[w] = Len(lines) /\ Len(lines) \in Nat
      BY <1>1, <1>6 DEF Truncate, SessionIsFile, JournalInv, TypeOK
    <2>2. damaged' = damaged \cap (1 .. Len(lines))
      BY <1>6, <2>1 DEF Truncate
    <2> QED
      BY <1>1, <1>2, <1>6, <2>2 DEF Truncate
  <1>7. ASSUME NEW w \in Writer, RecoverAppend(w) \/ RecoverAppendTorn(w)
        PROVE  damaged' = damaged /\ \A p \in Proc : MayOpen(p)
    BY <1>1, <1>2, <1>7, WriteLeavesDamage
    DEF RecoverAppend, RecoverAppendTorn, TornWrite, Forget
  <1>8. ASSUME NEW w \in Writer, NEW body \in Body,
               AppendOne(w, body) \/ AppendTorn(w, body)
        PROVE  damaged' = damaged /\ \A p \in Proc : MayOpen(p)
    <2>1. CASE AppendOne(w, body)
      BY <1>1, <2>1, WriteLeavesDamage DEF AppendOne, MayOpen
    <2>2. CASE AppendTorn(w, body)
      BY <1>1, <1>2, <2>2, WriteLeavesDamage DEF AppendTorn, TornWrite, Forget
    <2> QED
      BY <1>8, <2>1, <2>2
  <1>9. ASSUME NEW w \in Writer, Commit(w) \/ CommitTorn(w)
        PROVE  damaged' = damaged /\ \A p \in Proc : MayOpen(p)
    <2>1. CASE Commit(w)
      BY <1>1, <2>1, WriteLeavesDamage DEF Commit, MayOpen
    <2>2. CASE CommitTorn(w)
      BY <1>1, <1>2, <2>2, WriteLeavesDamage DEF CommitTorn, TornWrite, Forget
    <2> QED
      BY <1>9, <2>1, <2>2
  <1>10. CASE Damage
    BY <1>10 DEF Damage, procVars, MayOpen
  <1>11. CASE UNCHANGED vars
    BY <1>11 DEF vars, MayOpen
  <1> QED
    BY <1>3, <1>4, <1>5, <1>6, <1>7, <1>8, <1>9, <1>10, <1>11
    DEF LockedNext, WriterStep, LoaderStep

LEMMA DamageInvStep == DamageInv /\ [LockedNext]_vars => DamageInv'
  <1> SUFFICES ASSUME DamageInv, [LockedNext]_vars
               PROVE  DamageInv'
    OBVIOUS
  <1>1. JournalInv /\ JournalInv' /\ damaged \subseteq 1 .. Len(lines)
    BY JournalInvStep DEF DamageInv
  <1>2. Len(lines) \in Nat /\ Len(lines') \in Nat /\ Len(lines) <= Len(lines')
    <2>1. /\ lines \in Seq(Line) /\ Len(lines) \in Nat
          /\ lines' \in Seq(Line) /\ Len(lines') \in Nat
      BY <1>1 DEF JournalInv, TypeOK
    <2>2. lines' = lines \/ L!Extend
      BY <1>1, LedgerStep DEF L!ledgerVars, L!LedgerNext, L!Grab, L!Leave
    <2> QED
      BY <2>1, <2>2 DEF L!Extend, L!Extended
  <1>3. damaged' = damaged \/ damaged' \subseteq 1 .. Len(lines)
    <2>1. CASE Damage
      BY <2>1 DEF Damage
    <2>2. CASE UNCHANGED vars
      BY <2>2 DEF vars
    <2>3. ASSUME NEW w \in Writer, WriterStep(w)
          PROVE  damaged' \subseteq damaged
      <3>1. CASE Acquire(w) \/ Load(w) \/ LoadRefused(w) \/ End(w)
        BY <3>1 DEF Acquire, Load, LoadRefused, End, fileVars
      <3>2. CASE Truncate(w)
        BY <3>2 DEF Truncate
      <3>3. CASE RecoverAppend(w) \/ RecoverAppendTorn(w)
        BY <1>1, <3>3, WriteLeavesDamage DEF RecoverAppend, RecoverAppendTorn
      <3>4. CASE Commit(w) \/ CommitTorn(w)
        BY <1>1, <3>4, WriteLeavesDamage DEF Commit, CommitTorn
      <3>5. CASE \E body \in Body : AppendOne(w, body) \/ AppendTorn(w, body)
        BY <1>1, <3>5, WriteLeavesDamage DEF AppendOne, AppendTorn
      <3> QED
        BY <2>3, <3>1, <3>2, <3>3, <3>4, <3>5 DEF WriterStep, LoaderStep
    <2> QED
      BY <1>1, <2>1, <2>2, <2>3 DEF LockedNext
  <1>4. 1 .. Len(lines) \subseteq 1 .. Len(lines')
    BY <1>2
  <1>5. damaged' \subseteq 1 .. Len(lines')
    BY <1>1, <1>3, <1>4
  <1> QED
    BY <1>1, <1>5 DEF DamageInv

(* A damaged line stays where it is, and a process that has not opened the *)
(* journal before the damage does not open it after.                       *)
THEOREM DamageIsNeverHidden == LockedSpec => DamageStands
  <1>1. Init => DamageInv
    BY JournalInvInit DEF DamageInv, Init
  <1>2. DamageInv /\ [LockedNext]_vars =>
          [ /\ damaged \subseteq damaged'
            /\ \A p \in Proc : (damaged # {} /\ pc'[p] = "open")
                                  => pc[p] \in {"open", "recovering"} ]_vars
    BY DamageStep DEF MayOpen
  <1> QED
    BY <1>1, <1>2, DamageInvStep, PTL DEF LockedSpec, DamageStands

=============================================================================
