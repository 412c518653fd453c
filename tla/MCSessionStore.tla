--------------------------- MODULE MCSessionStore ---------------------------
(* Instances of SessionStore for TLC.                                      *)
EXTENDS SessionStore, TLC

\* Ids are drawn at random; browsers and users are told apart by nothing else.
Symmetry == UNION {Permutations(S) : S \in {Ids, Browsers, Users}}

=============================================================================
