-------------------------- MODULE MCProcessWorker --------------------------
(* Two descendants: one that is found and one that is missed.              *)
EXTENDS ProcessWorker
=============================================================================
