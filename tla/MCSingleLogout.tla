--------------------------- MODULE MCSingleLogout ---------------------------
(* Instances of SingleLogout for TLC.                                      *)
EXTENDS SingleLogout, TLC

\* Values drawn at random by the code or the IdP are interchangeable, and so
\* are the relying parties, which run the same code, and the browsers.
Symmetry == UNION {Permutations(S) : S \in {States, Ids, Sids, RPs, Browsers}}

=============================================================================
