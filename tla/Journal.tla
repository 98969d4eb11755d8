------------------------------ MODULE Journal ------------------------------
(***************************************************************************)
(* The journal file of one run directory (class Journal) and the processes *)
(* that open it, at the granularity of the file system calls: the loader   *)
(* reads the whole file once, truncates a torn tail in a second call and   *)
(* appends its journal_recovered record in a third; an append is one       *)
(* write, which a crash can cut after any number of its bytes.             *)
(*                                                                         *)
(* The file is the sequence of its complete lines plus at most one         *)
(* trailing fragment without a newline. A line's sha256 is a number no     *)
(* other line has; a line that no longer matches its hash or no longer     *)
(* parses is a position in "damaged".                                      *)
(*                                                                         *)
(* Writers open the journal under run.lock (optimize, the profile          *)
(* command). Observers open it without the lock: kernelagent status and    *)
(* the web console construct a Journal only to read it, but the loader     *)
(* that runs then is the same one.                                         *)
(***************************************************************************)
EXTENDS Naturals, Sequences, SequencesExt

CONSTANTS
  Writer,     (* processes that take run.lock first                        *)
  Observer,   (* processes that load the journal without it                *)
  NoProc,     (* nobody                                                    *)
  Body,       (* kinds of record a writer appends one at a time            *)
  MaxHash     (* bound: records ever written                               *)

ASSUME ProcAssumption ==
  /\ NoProc \notin Writer
  /\ Writer \cap Observer = {}
ASSUME MaxHashAssumption == MaxHash \in Nat

VARIABLES
  lines,      (* complete lines of journal.jsonl                           *)
  torn,       (* the file ends in a fragment without its newline           *)
  damaged,    (* positions of complete lines that fail their own checks    *)
  lock,       (* who holds the flock on run.lock                           *)
  fresh,      (* hashes handed out so far                                  *)
  pc,         (* where each process is                                     *)
  chain,      (* Journal._chain                                            *)
  entries,    (* Journal._entries                                          *)
  kept        (* kept_bytes of a loader between its read and its truncate  *)

fileVars == <<lines, torn, damaged, fresh>>
procVars == <<pc, chain, entries, kept>>
vars == <<lines, torn, damaged, lock, fresh, pc, chain, entries, kept>>

Proc == Writer \cup Observer

Genesis == 0

Bodies == Body \cup {"journal_recovered", "budget_settled", "action_finished"}

Line == [prev : Nat, hash : Nat, body : Bodies]

Phase == {"idle", "locked", "truncating", "recovering", "open"}

(* The hash the next record must name as its predecessor.                  *)
LastHash(s) == IF s = << >> THEN Genesis ELSE s[Len(s)].hash

(* _load_line: the line stands by its own hash and names its predecessor.  *)
LineAccepted(i) ==
  /\ i \notin damaged
  /\ lines[i].prev = IF i = 1 THEN Genesis ELSE lines[i - 1].hash

Loadable == \A i \in 1 .. Len(lines) : LineAccepted(i)

(* The records of one append: each names the one before it, the first one  *)
(* the writer's in-memory chain head.                                      *)
Single(p, body) ==
  <<[prev |-> chain[p], hash |-> fresh + 1, body |-> body]>>

CommitBlock(p) ==
  <<[prev |-> chain[p], hash |-> fresh + 1, body |-> "budget_settled"],
    [prev |-> fresh + 1, hash |-> fresh + 2, body |-> "action_finished"]>>

Forget(p) ==
  /\ pc' = [pc EXCEPT ![p] = "idle"]
  /\ chain' = [chain EXCEPT ![p] = Genesis]
  /\ entries' = [entries EXCEPT ![p] = << >>]
  /\ kept' = [kept EXCEPT ![p] = 0]
  /\ lock' = IF lock = p THEN NoProc ELSE lock

-----------------------------------------------------------------------------
(* acquire_run_lock succeeds; a refused attempt changes nothing.           *)
Acquire(w) ==
  /\ pc[w] = "idle"
  /\ lock = NoProc
  /\ lock' = w
  /\ pc' = [pc EXCEPT ![w] = "locked"]
  /\ UNCHANGED <<fileVars, chain, entries, kept>>

MayLoad(p) == pc[p] = IF p \in Writer THEN "locked" ELSE "idle"

(* Journal.__init__ reads and checks every complete line; a bad one is a   *)
(* ValueError, which ends the process and releases its lock.               *)
LoadRefused(p) ==
  /\ pc[p] = "locked"
  /\ ~Loadable
  /\ Forget(p)
  /\ UNCHANGED fileVars

(* Mutant: a bad last line is taken for a torn one.                        *)
LoadDroppingBadLastLine(p) ==
  /\ MayLoad(p)
  /\ \A i \in 1 .. Len(lines) - 1 : LineAccepted(i)
  /\ LET bad == lines # << >> /\ ~LineAccepted(Len(lines))
         good == IF bad THEN Len(lines) - 1 ELSE Len(lines)
     IN  /\ pc' = [pc EXCEPT ![p] = IF torn \/ bad THEN "truncating" ELSE "open"]
         /\ chain' = [chain EXCEPT ![p] = LastHash(SubSeq(lines, 1, good))]
         /\ entries' = [entries EXCEPT ![p] = SubSeq(lines, 1, good)]
         /\ kept' = [kept EXCEPT ![p] = IF torn \/ bad THEN good ELSE 0]
  /\ UNCHANGED <<fileVars, lock>>

(* Every line passes: a torn tail is truncated next, else the journal is   *)
(* open.                                                                   *)
Load(p) ==
  /\ MayLoad(p)
  /\ Loadable
  /\ pc' = [pc EXCEPT ![p] = IF torn THEN "truncating" ELSE "open"]
  /\ chain' = [chain EXCEPT ![p] = LastHash(lines)]
  /\ entries' = [entries EXCEPT ![p] = lines]
  /\ kept' = [kept EXCEPT ![p] = IF torn THEN Len(lines) ELSE 0]
  /\ UNCHANGED <<fileVars, lock>>

(* Mutant: the cut is one line short.                                      *)
TruncateOneLineMore(p) ==
  /\ pc[p] = "truncating"
  /\ lines' = SubSeq(lines, 1, kept[p] - 1)
  /\ damaged' = damaged \cap (1 .. Len(lines'))
  /\ torn' = FALSE
  /\ pc' = [pc EXCEPT ![p] = "recovering"]
  /\ kept' = [kept EXCEPT ![p] = 0]
  /\ UNCHANGED <<lock, fresh, chain, entries>>

(* handle.truncate(kept_bytes): everything after the size that was read is *)
(* cut. If the file has become shorter since, truncate() extends it, and   *)
(* the added zero bytes are a fragment again.                              *)
Truncate(p) ==
  /\ pc[p] = "truncating"
  /\ IF kept[p] <= Len(lines)
     THEN /\ lines' = SubSeq(lines, 1, kept[p])
          /\ damaged' = damaged \cap (1 .. kept[p])
          /\ torn' = FALSE
     ELSE /\ torn' = TRUE
          /\ UNCHANGED <<lines, damaged>>
  /\ pc' = [pc EXCEPT ![p] = "recovering"]
  /\ kept' = [kept EXCEPT ![p] = 0]
  /\ UNCHANGED <<lock, fresh, chain, entries>>

(* The bytes of the first n records of a block reach the end of the file.  *)
(* After a fragment they complete it to one line that does not parse.      *)
Written(block, n) ==
  /\ fresh + Len(block) <= MaxHash
  /\ fresh' = fresh + n
  /\ lines' = lines \o SubSeq(block, 1, n)
  /\ damaged' = IF torn /\ n > 0 THEN damaged \cup {Len(lines) + 1} ELSE damaged

(* Mutant: the in-memory chain head does not follow the second record.     *)
WriteKeepingFirstHead(p, block) ==
  /\ Written(block, Len(block))
  /\ torn' = FALSE
  /\ chain' = [chain EXCEPT ![p] = block[1].hash]
  /\ entries' = [entries EXCEPT ![p] = entries[p] \o block]
  /\ UNCHANGED <<lock, kept>>

(* Mutant: the cached entries miss the second record.                      *)
WriteCachingFirst(p, block) ==
  /\ Written(block, Len(block))
  /\ torn' = FALSE
  /\ chain' = [chain EXCEPT ![p] = block[Len(block)].hash]
  /\ entries' = [entries EXCEPT ![p] = Append(entries[p], block[1])]
  /\ UNCHANGED <<lock, kept>>

(* _write_block returned: the file has the block and memory follows.       *)
Write(p, block) ==
  /\ Written(block, Len(block))
  /\ torn' = FALSE
  /\ chain' = [chain EXCEPT ![p] = block[Len(block)].hash]
  /\ entries' = [entries EXCEPT ![p] = entries[p] \o block]
  /\ UNCHANGED <<lock, kept>>

(* The process dies inside _write_block: some complete records of the      *)
(* block are in the file, then a fragment of the next one or nothing.      *)
TornWrite(p, block) ==
  /\ \E n \in 0 .. Len(block) :
       /\ Written(block, n)
       /\ torn' \in IF n = Len(block) THEN {FALSE}
                    ELSE IF n = 0 THEN {torn, TRUE} ELSE {FALSE, TRUE}
  /\ Forget(p)

(* _recover_torn_tail's append.                                            *)
RecoverAppend(p) ==
  /\ pc[p] = "recovering"
  /\ Write(p, Single(p, "journal_recovered"))
  /\ pc' = [pc EXCEPT ![p] = "open"]

RecoverAppendTorn(p) ==
  /\ pc[p] = "recovering"
  /\ TornWrite(p, Single(p, "journal_recovered"))

(* Journal.append and Journal.commit_settlement_and_finish.                *)
AppendOne(w, body) ==
  /\ pc[w] = "open"
  /\ Write(w, Single(w, body))
  /\ UNCHANGED pc

Commit(w) ==
  /\ pc[w] = "open"
  /\ Write(w, CommitBlock(w))
  /\ UNCHANGED pc

AppendTorn(w, body) ==
  /\ pc[w] = "open"
  /\ TornWrite(w, Single(w, body))

CommitTorn(w) ==
  /\ pc[w] = "open"
  /\ TornWrite(w, CommitBlock(w))

(* The process ends, by returning or by dying between two file operations: *)
(* the kernel drops its flock either way.                                  *)
End(p) ==
  /\ pc[p] # "idle"
  /\ Forget(p)
  /\ UNCHANGED fileVars

(* A complete line is damaged in storage. Bound: one line at a time.       *)
Damage ==
  /\ damaged = {}
  /\ \E i \in 1 .. Len(lines) : damaged' = {i}
  /\ UNCHANGED <<lines, torn, fresh, lock, procVars>>

-----------------------------------------------------------------------------
Init ==
  /\ lines = << >>
  /\ torn = FALSE
  /\ damaged = {}
  /\ lock = NoProc
  /\ fresh = 0
  /\ pc = [p \in Proc |-> "idle"]
  /\ chain = [p \in Proc |-> Genesis]
  /\ entries = [p \in Proc |-> << >>]
  /\ kept = [p \in Proc |-> 0]

LoaderStep(p) ==
  \/ Load(p)
  \/ LoadRefused(p)
  \/ Truncate(p)
  \/ RecoverAppend(p)
  \/ RecoverAppendTorn(p)
  \/ End(p)

WriterStep(w) ==
  \/ Acquire(w)
  \/ LoaderStep(w)
  \/ Commit(w)
  \/ CommitTorn(w)
  \/ \E body \in Body : AppendOne(w, body) \/ AppendTorn(w, body)

(* The protocol the documentation describes: whoever loads the journal     *)
(* holds run.lock.                                                         *)
LockedNext == (\E w \in Writer : WriterStep(w)) \/ Damage

LockedSpec == Init /\ [][LockedNext]_vars

(* The program as it is: status and the web console load it without.       *)
ObservedNext == LockedNext \/ \E o \in Observer : LoaderStep(o)

ObservedSpec == Init /\ [][ObservedNext]_vars

-----------------------------------------------------------------------------
TypeOK ==
  /\ lines \in Seq(Line)
  /\ torn \in BOOLEAN
  /\ damaged \subseteq Nat
  /\ lock \in Writer \cup {NoProc}
  /\ fresh \in Nat
  /\ pc \in [Proc -> Phase]
  /\ chain \in [Proc -> Nat]
  /\ entries \in [Proc -> Seq(Line)]
  /\ kept \in [Proc -> Nat]

(* The hash chain on disk never breaks, whatever writes were cut short and *)
(* whichever process recovered them: the loader's "hash chain broken"      *)
(* error can only come from damage to the storage.                         *)
ChainIntact ==
  \A i \in 1 .. Len(lines) :
    lines[i].prev = IF i = 1 THEN Genesis ELSE lines[i - 1].hash

(* An open journal object agrees with the file: what a process decides     *)
(* from its cached entries (done, settled, reconciled) is what is durable, *)
(* and its next record will chain to the last durable one.                 *)
MemoryIsFile ==
  \A w \in Writer : pc[w] = "open" =>
    /\ entries[w] = lines
    /\ chain[w] = LastHash(lines)
    /\ ~torn

(* Complete records are never removed or replaced ("Append-only JSONL      *)
(* journal"); only a fragment without its newline may go.                  *)
AppendOnly == [][IsPrefix(lines, lines')]_lines

(* Damage is never repaired silently: a damaged line stays where it is, and *)
(* no process opens a journal that holds one ("the ledger is never         *)
(* silently rewritten").                                                   *)
DamageStands ==
  [][ /\ damaged \subseteq damaged'
      /\ \A p \in Proc : (damaged # {} /\ pc'[p] = "open")
                            => pc[p] \in {"open", "recovering"} ]_vars

(* The inductive invariant: a writer works only while it holds the lock,   *)
(* and from the moment it has loaded, its memory is the file.              *)
HolderOnly == \A w \in Writer : pc[w] # "idle" <=> lock = w

SessionIsFile ==
  \A w \in Writer :
    /\ pc[w] \in {"truncating", "recovering", "open"} =>
         entries[w] = lines /\ chain[w] = LastHash(lines)
    /\ pc[w] = "truncating" => kept[w] = Len(lines)
    /\ pc[w] \in {"recovering", "open"} => ~torn

JournalInv == TypeOK /\ ChainIntact /\ HolderOnly /\ SessionIsFile

(* And what is damaged is a line that is there.                            *)
DamageInv == JournalInv /\ damaged \subseteq 1 .. Len(lines)

(* The locked protocol implements the ledger: one owner at a time, and     *)
(* only complete blocks appended by it.                                    *)
L == INSTANCE Ledger WITH
       Owner <- Writer, NoOwner <- NoProc, log <- lines, owner <- lock

ImplementsLedger == L!LedgerSpec

=============================================================================
