----------------------------- MODULE MCAuthCode -----------------------------
(* Instances of AuthCode for TLC; logins are told apart by nothing else.   *)
EXTENDS AuthCode, TLC

Symmetry == Permutations(Logins)

=============================================================================
