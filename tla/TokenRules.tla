----------------------------- MODULE TokenRules -----------------------------
(***************************************************************************)
(* What makes a relying party accept a token: Verify (src/internal/jwks),  *)
(* ValidateIDToken (src/internal/oidcclient) and validateLogoutToken       *)
(* (src/04-logout).  All three judge the same kind of object, a JWS with   *)
(* claims, and one IdP signs both kinds, so the rules must not overlap.    *)
(* The forgeries are those that src/05-jwks-verify throws at Verify.       *)
(*                                                                         *)
(* One token is looked at while time passes and the key cache learns keys. *)
(* A token is a record of what the rules can tell apart; a time is a       *)
(* number, 0 where the JSON has no such claim (Go's zero value).           *)
(***************************************************************************)
EXTENDS Integers, Sequences, FiniteSetsExt

CONSTANTS Algs,               \* names in an alg header
          allowed,            \* [some of them -> the hash each requires]
          Pss,                \* those with PSS padding, the others have PKCS #1's
          Kids, NoKid,
          TestKid, AttackerKid,  \* the kids the forgeries are made with
          NoKey, NoLabel,     \* a kid not cached; a key published without alg
          Issuers, Issuer,    \* iss claims; the one of the discovery document
          Clients, Client,    \* client ids; ours
          Nonces, NoNonce,
          Start, Horizon,     \* bounds: the times considered
          Leeway, Window      \* clockLeeway; how old a logout token may be

\* Real clocks show a time long past 1970 and the leeway.
ASSUME RulesAssumption ==
  /\ DOMAIN allowed \subseteq Algs
  /\ "RS256" \in DOMAIN allowed
  /\ {"HS256", "none"} \subseteq Algs \ DOMAIN allowed
  /\ NoKid \notin Kids
  /\ TestKid \in Kids /\ AttackerKid \in Kids /\ TestKid # AttackerKid
  /\ NoLabel \notin Algs
  /\ NoNonce \notin Nonces
  /\ NoKey \notin Algs \cup {NoLabel}
  /\ Start \in Nat /\ Horizon \in Nat /\ Start <= Horizon
  /\ Leeway \in Nat /\ Window \in Nat
  /\ Leeway < Start /\ Window < Start

Times == 0..Horizon

\* Audience is a list whether aud was one string or an array of them.
Audience == UNION {[1..n -> Clients] : n \in 0..2}

Token == [parses : BOOLEAN,              \* three segments that decode
          alg    : Algs,                 \* what the header says
          kid    : Kids \cup {NoKid},
          by     : Kids \cup {NoKid},    \* the key that signed it as it stands
          with   : Algs,                 \* and the algorithm it was signed with
          iss    : Issuers,
          aud    : Audience,
          azp    : Clients,
          exp    : Times,
          iat    : Times,
          nonce  : Nonces \cup {NoNonce},
          event  : BOOLEAN,              \* the back-channel logout event claim
          names  : SUBSET {"sid", "sub"}]  \* what it says has ended

VARIABLES
  wired,  \* FALSE: a Validator built without Keys
  tok,    \* the token
  want,   \* the nonce the login asked for
  keys,   \* [Kids -> the alg it was published with, NoLabel or NoKey]
  now

vars == <<wired, tok, want, keys, now>>

TypeOK ==
  /\ wired \in BOOLEAN
  /\ tok \in Token
  /\ want \in Nonces \cup {NoNonce}
  /\ keys \in [Kids -> Algs \cup {NoLabel, NoKey}]
  /\ now \in Start..Horizon

Init ==
  /\ wired \in BOOLEAN
  /\ tok \in Token
  /\ want \in Nonces \cup {NoNonce}
  /\ keys \in [Kids -> Algs \cup {NoLabel, NoKey}]
  /\ now = Start

Tick ==
  /\ now < Horizon
  /\ now' = now + 1
  /\ UNCHANGED <<wired, tok, want, keys>>

\* load: a fetch adds a key, or replaces one of the same kid.
Load(kid, alg) ==
  /\ keys' = [keys EXCEPT ![kid] = alg]
  /\ UNCHANGED <<wired, tok, want, now>>

Next == Tick \/ \E kid \in Kids, alg \in Algs \cup {NoLabel} : Load(kid, alg)

Spec == Init /\ [][Next]_vars

-----------------------------------------------------------------------------
(* The rules.                                                              *)

\* What VerifyPSS and VerifyPKCS1v15 come to with the hash and the padding that
\* the header's alg stands for: the signature must have been made with these.
SignatureFits(t) ==
  /\ t.with \in DOMAIN allowed
  /\ allowed[t.with] = allowed[t.alg]
  /\ t.with \in Pss <=> t.alg \in Pss

\* Mutant: a token that names no key is tried with those there are.
VerifiedByAnyKey(t) ==
  /\ t.parses
  /\ t.alg \in DOMAIN allowed
  /\ t.kid = NoKid \/ (keys[t.kid] \in {NoLabel, t.alg} /\ t.by = t.kid)
  /\ SignatureFits(t)

\* Verify: the alg must be one of ours and agree with the key's label, and the
\* key named must have signed.  A key without a label goes with any of ours, so
\* there it is the header that picks hash and padding.
Verified(t) ==
  /\ t.parses
  /\ t.alg \in DOMAIN allowed
  /\ t.kid # NoKid
  /\ keys[t.kid] # NoKey
  /\ keys[t.kid] \in {NoLabel, t.alg}
  /\ t.by = t.kid
  /\ SignatureFits(t)

Contains(aud, client) == \E i \in DOMAIN aud : aud[i] = client

\* Mutant: a token without exp does not expire.
UnexpiredIfGiven(t) == t.exp = 0 \/ now <= t.exp + Leeway

\* Not expired, give or take the clocks.
Unexpired(t) == now <= t.exp + Leeway

\* Mutant: a token from a clock ahead of ours is refused until ours gets there.
RecentNotAhead(t) == now - t.iat \in 0..Window

\* Old is refused; nothing bounds iat above.
Recent(t) == now - t.iat <= Window

\* One check of ValidateIDToken.  With Keys nil the signature is deferred.
Holds(t, check) ==
  CASE check = "sig"   -> ~wired \/ Verified(t)
    [] check = "iss"   -> t.iss = Issuer
    [] check = "aud"   -> Contains(t.aud, Client)
    [] check = "azp"   -> t.azp = Client
    [] check = "exp"   -> Unexpired(t)
    [] check = "nonce" -> t.nonce = want

\* azp matters to a token for several parties, nonce if the caller sent one.
Due(t) ==
  <<"sig", "iss", "aud">> \o (IF Len(t.aud) > 1 THEN <<"azp", "exp">> ELSE <<"exp">>)
                          \o (IF want # NoNonce THEN <<"nonce">> ELSE <<>>)

Entry(t, check) ==
  [name   |-> check,
   result |-> CASE ~Holds(t, check)          -> "failed"
                [] check = "sig" /\ ~wired   -> "deferred"
                [] OTHER                     -> "passed"]

\* Mutant: a check that fails does not stop the ones after it.
ReportGoesOn(t) ==
  [i \in DOMAIN Due(t) |-> Entry(t, Due(t)[i])]

\* ValidateIDToken: the checks in their order up to the first that fails; a
\* token that does not parse is checked no further and has no report.
Report(t) ==
  LET due == Due(t)
      bad == {i \in DOMAIN due : ~Holds(t, due[i])}
      len == IF ~t.parses THEN 0 ELSE IF bad = {} THEN Len(due) ELSE Min(bad)
  IN  [i \in 1..len |-> Entry(t, due[i])]

\* ValidateIDToken returns no error.
IDTokenOk(t) ==
  /\ t.parses
  /\ \A check \in {"sig", "iss", "aud", "exp"} : Holds(t, check)
  /\ Len(t.aud) > 1 => Holds(t, "azp")
  /\ want # NoNonce => Holds(t, "nonce")

\* Mutant: a logout token may have a nonce.
LogoutTokenAnyNonce(t) ==
  /\ Verified(t)
  /\ t.iss = Issuer
  /\ Contains(t.aud, Client)
  /\ Recent(t)
  /\ t.event
  /\ t.names # {}

\* validateLogoutToken returns no error.
LogoutTokenOk(t) ==
  /\ Verified(t)
  /\ t.iss = Issuer
  /\ Contains(t.aud, Client)
  /\ Recent(t)
  /\ t.event
  /\ t.nonce = NoNonce
  /\ t.names # {}

-----------------------------------------------------------------------------
(* The attack suite of chapter 05, with the IdP's key under TestKid.       *)

\* signRS256, which writes whatever kid it is told to, or none.
Signed(t, kid) ==
  [t EXCEPT !.parses = TRUE, !.alg = "RS256", !.kid = kid, !.by = TestKid, !.with = "RS256"]

\* noneToken: three segments, the last one empty.
NoneToken(t) ==
  [t EXCEPT !.parses = TRUE, !.alg = "none", !.kid = TestKid, !.by = NoKid, !.with = "none"]

\* algConfusion: an HMAC, with the public half of the key as its secret.
AlgConfusion(t) ==
  [t EXCEPT !.parses = TRUE, !.alg = "HS256", !.kid = TestKid, !.by = TestKid, !.with = "HS256"]

\* tamper: another sub, and the signature that covered the old one.
Tamper(t) == [t EXCEPT !.by = NoKid, !.names = @ \cup {"sub"}]

Forgeries(t) ==
  {NoneToken(t), AlgConfusion(t), Tamper(Signed(t, TestKid)),
   Signed(t, AttackerKid), Signed(t, NoKid)}

-----------------------------------------------------------------------------
(* Properties.                                                             *)

\* The suite passes whatever the IdP publishes: none of its forgeries is ever
\* accepted, not even when the key has no alg or the attacker's kid is a key
\* too, and the genuine token is, as soon as its key is there for RS256.
SuitePasses ==
  /\ Verified(Signed(tok, TestKid)) <=> keys[TestKid] \in {"RS256", NoLabel}
  /\ \A t \in Forgeries(tok) : ~Verified(t)

\* "It MUST carry the event claim ... it MUST NOT have a nonce": no token can
\* serve both as the ID token of a login that sent a nonce and as a command to
\* log out, with or without the signature wired in.
NoConfusion == want # NoNonce => ~(IDTokenOk(tok) /\ LogoutTokenOk(tok))

\* A token without a time claim is old, not eternal: a missing exp is 1970, and
\* so is a missing iat.
TimelessRefused ==
  /\ tok.exp = 0 => ~IDTokenOk(tok)
  /\ tok.iat = 0 => ~LogoutTokenOk(tok)

\* The report the chapters show is the verdict: a failed check is the last one
\* listed and there is one exactly when the token is refused, whatever is
\* listed as passed does hold, and a signature nobody looked at is not listed
\* as passed.
ReportTellsVerdict ==
  LET r == Report(tok) IN
  /\ tok.parses <=> r # <<>>
  /\ tok.parses => (IDTokenOk(tok) <=> \A i \in DOMAIN r : r[i].result # "failed")
  /\ \A i \in DOMAIN r :
       /\ r[i].result = "failed" => i = Len(r)
       /\ r[i].result = "passed" => Holds(tok, r[i].name)
       /\ r[i].name = "sig" /\ r[i].result = "passed" => Verified(tok)
  /\ IDTokenOk(tok) => r[1].name = "sig" /\ Len(r) >= 4

\* Time never makes a token good, so a refusal is final until a key arrives.
TimeNeverHelps ==
  [][/\ ~IDTokenOk(tok) /\ IDTokenOk(tok)' => keys' # keys
     /\ ~LogoutTokenOk(tok) /\ LogoutTokenOk(tok)' => keys' # keys]_vars

=============================================================================
