------------------------------- MODULE Ledger -------------------------------
(***************************************************************************)
(* What the run journal promises its readers, with no file, hash or crash  *)
(* in sight: one owner at a time, only the owner extends the log, and a    *)
(* record that is in the log stays in it at its position.                  *)
(*                                                                         *)
(* An owner may disappear in the step that extends the log: a process that *)
(* dies inside a write can leave the complete records of that write.       *)
(***************************************************************************)
EXTENDS Naturals, Sequences

CONSTANTS
  Owner,      (* whoever may work on the run directory                     *)
  NoOwner     (* nobody does; not a member of Owner                        *)

VARIABLES
  log,        (* the records, oldest first                                 *)
  owner       (* who holds the run directory                               *)

ledgerVars == <<log, owner>>

LedgerInit ==
  /\ log = << >>
  /\ owner = NoOwner

(* The log after one commit block: nothing before the block moves.         *)
Extended ==
  /\ Len(log') \in (Len(log) + 1) .. (Len(log) + 2)
  /\ \A i \in 1 .. Len(log) : log'[i] = log[i]

Grab ==
  /\ owner = NoOwner
  /\ owner' \in Owner
  /\ UNCHANGED log

Extend ==
  /\ owner \in Owner
  /\ owner' \in {owner, NoOwner}
  /\ Extended

Leave ==
  /\ owner \in Owner
  /\ owner' = NoOwner
  /\ UNCHANGED log

LedgerNext == Grab \/ Extend \/ Leave

LedgerSpec == LedgerInit /\ [][LedgerNext]_ledgerVars

=============================================================================
