---------------------------- MODULE MCJwksCache ----------------------------
(* Instances of JwksCache for TLC.                                         *)
EXTENDS JwksCache, TLC

=============================================================================
