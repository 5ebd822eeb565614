--------------------------- MODULE MCWebhookTurn ---------------------------
(* Small instances of WebhookTurn for TLC.                                 *)
EXTENDS WebhookTurn, TLC

Symmetry == Permutations(Turns)

=============================================================================
