---------------------------- MODULE MCTokenRules ----------------------------
(* An instance of TokenRules for TLC.  Claims and signatures are judged by *)
(* different rules, so they vary one at a time: the state would be too     *)
(* large otherwise.                                                        *)
EXTENDS TokenRules, TLC

CONSTANTS idp, other, me, peer, n1

\* Three of the six, with two hashes and either padding.
MCAllowed == [RS256 |-> "SHA256", RS512 |-> "SHA512", PS256 |-> "SHA256"]

\* An ID token that is good, but for its signature's key.
Good == [parses |-> TRUE, alg |-> "RS256", kid |-> TestKid, by |-> TestKid, with |-> "RS256",
         iss |-> Issuer, aud |-> <<Client>>, azp |-> Client, exp |-> 2, iat |-> 1,
         nonce |-> NoNonce, event |-> TRUE, names |-> {"sid"}]

\* exp and iat: missing, one that runs out, one that does not.
ClaimTokens ==
  {[Good EXCEPT !.by = by, !.iss = iss, !.aud = aud, !.azp = azp, !.exp = exp, !.iat = iat,
                !.nonce = nonce, !.event = event, !.names = names] :
     by \in {TestKid, NoKid}, iss \in Issuers,
     aud \in {<<>>, <<me>>, <<peer>>, <<peer, me>>}, azp \in Clients,
     exp \in {0, 1, 2}, iat \in {0, 1, 3}, nonce \in Nonces \cup {NoNonce},
     event \in BOOLEAN, names \in {{}, {"sid"}}}

SignatureTokens ==
  {[Good EXCEPT !.parses = parses, !.alg = alg, !.kid = kid, !.by = by, !.with = with] :
     parses \in BOOLEAN, alg \in Algs, with \in Algs,
     kid \in Kids \cup {NoKid}, by \in Kids \cup {NoKid}}

\* Init, with the token taken from these.
MCInit ==
  /\ tok \in ClaimTokens \cup SignatureTokens
  /\ wired \in BOOLEAN
  /\ want \in Nonces \cup {NoNonce}
  /\ keys = [kid \in Kids |-> NoKey]
  /\ now = Start

MCSpec == MCInit /\ [][Next]_vars

=============================================================================
