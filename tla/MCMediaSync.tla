----------------------------- MODULE MCMediaSync ----------------------------
(* Small instances of MediaSyncWorker for TLC.                             *)
EXTENDS MediaSyncWorker, TLC

Symmetry == Permutations(Workers) \cup Permutations(Messages)

=============================================================================
