------------------------ MODULE MCAttachmentPipeline ------------------------
(* Small instances of AttachmentPipeline for TLC.                          *)
EXTENDS AttachmentPipeline, TLC

Symmetry ==
  Permutations(Workers) \cup Permutations(Messages) \cup Permutations(ClaimIds)
    \cup Permutations(Contents)

=============================================================================
