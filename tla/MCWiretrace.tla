---------------------------- MODULE MCWiretrace ----------------------------
(* Instances of Wiretrace for TLC.                                         *)
EXTENDS Wiretrace, TLC

=============================================================================
