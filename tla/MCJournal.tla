----------------------------- MODULE MCJournal -----------------------------
(* TLC instance of Journal: two optimizer processes that take turns and,   *)
(* for ObservedSpec, one status or web console reader.                     *)
EXTENDS Journal, TLC

Interchangeable == Permutations(Writer)

=============================================================================
