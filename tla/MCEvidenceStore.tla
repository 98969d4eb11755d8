--------------------------- MODULE MCEvidenceStore ---------------------------
(* Two clients, two contents of either provenance, two experiments.        *)
EXTENDS EvidenceStore, TLC
CONSTANTS client1, client2, content1, content2, experiment1, experiment2

Symmetry ==
  Permutations({client1, client2}) \cup Permutations({content1, content2})
    \cup Permutations({experiment1, experiment2})
=============================================================================
