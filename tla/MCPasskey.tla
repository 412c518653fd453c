------------------------------ MODULE MCPasskey ------------------------------
(***************************************************************************)
(* Instances of Passkey for TLC.                                           *)
(***************************************************************************)
EXTENDS Passkey

CONSTANTS Elsewhere, a1, a2

\* The user's authenticator, and one that is someone else's or becomes a copy.
TwoAuths   == {a1, a2}
FirstOpted == {a1}

\* This site and any other one, each with pages of its own.
TwoSites == {Here, Elsewhere}
TwoPages == {<<Here, Here>>, <<Elsewhere, Elsewhere>>}

\* Counters to come with: new, or about to come round.
Worn == {0, CountSpace - 3}

\* Somebody there, or a user verified.
Seen == {{"UP"}, {"UP", "UV"}}

=============================================================================
