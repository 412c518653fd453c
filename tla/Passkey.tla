------------------------------ MODULE Passkey -------------------------------
(***************************************************************************)
(* Chapter 06 and src/internal/webauthn: one registered credential, the    *)
(* ceremonies a server runs about it one after the other, and the          *)
(* authenticators whose responses reach it.                                *)
(*                                                                         *)
(* Whatever an authenticator made stays on the wire: parts of a response   *)
(* may come late, again, or put together with parts of another one.  Keys  *)
(* and signatures are ideal: a signature names its key and what it covers. *)
(***************************************************************************)
EXTENDS Integers, FiniteSets

CONSTANTS Auths,         \* authenticators; each is born with a key of its name
          Opted,         \* keys whose authenticators always report 0
          NoKey,
          Sites, Here,   \* origins and RP ids; Here is the server's own
          Pages,         \* <<RP id, origin>> pairs that ask for a response
          Starts,        \* counters an authenticator may come with
          Gestures,      \* sets of flags an authenticator may report
          RequireUV,     \* Expect.RequireUserVerified
          CountSpace,    \* bound: 2^32 in the code
          MaxCeremonies, MaxResponses  \* bounds

ASSUME PasskeyAssumption ==
  /\ Opted \subseteq Auths
  /\ NoKey \notin Auths
  /\ Here \in Sites
  /\ Pages \subseteq Sites \X Sites
  /\ Gestures \subseteq SUBSET {"UP", "UV"}
  /\ RequireUV \in BOOLEAN
  /\ CountSpace \in Nat \ {0}
  /\ Starts \subseteq 0..(CountSpace - 1)
  /\ MaxCeremonies \in Nat
  /\ MaxResponses \in Nat

Count    == 0..(CountSpace - 1)
MaybeKey == Auths \cup {NoKey}

\* AuthenticatorData: a key, the attested credential, is there in responses to
\* create only.
AuthData == [rpid : Sites, flags : Gestures, count : Count, key : MaybeKey]

\* clientDataJSON, written by the browser.
ClientData == [type : {"create", "get"}, challenge : Nat, origin : Sites]

\* A response; a response to create is not signed (attestation "none").
Response == [ad : AuthData, cd : ClientData, signer : MaybeKey]

\* What the server keeps; NoKey before the sign-up.
Registration == [key : MaybeKey, count : Count]

VARIABLES
  device,    \* [Auths -> its key and its counter]
  reg,       \* the stored Registration
  ceremony,  \* what the challenge in use is for, or "none"
  challenge, \* the last challenge drawn; they are numbered in that order
  wire,      \* responses made so far
  spoilt,    \* keys that were copied or whose counter came round to 0
  accepted,  \* responses that logged in, each with the challenge of its login
  refused    \* responses to the challenge in use, refused as they were made

vars == <<device, reg, ceremony, challenge, wire, spoilt, accepted, refused>>

TypeOK ==
  /\ device \in [Auths -> [key : Auths, count : Count]]
  /\ reg \in Registration
  /\ ceremony \in {"none", "create", "get"}
  /\ challenge \in Nat
  /\ wire \subseteq Response
  /\ spoilt \subseteq Auths
  /\ accepted \subseteq [for : Nat, response : Response]
  /\ refused \subseteq Response

Init ==
  /\ \E c \in [Auths -> Starts] :
       device = [a \in Auths |-> [key |-> a, count |-> c[a]]]
  /\ reg = [key |-> NoKey, count |-> 0]
  /\ ceremony = "none"
  /\ challenge = 0
  /\ wire = {} /\ spoilt = {} /\ accepted = {} /\ refused = {}

-----------------------------------------------------------------------------
(* Authenticators and browsers (chapter 06's stand-ins).                   *)

\* authData counts every response, in a uint32.
NextCount(a) ==
  IF device[a].key \in Opted THEN 0 ELSE (device[a].count + 1) % CountSpace

\* create and get: authenticator a responds to the challenge in use, for the
\* RP id and the origin of whatever page asked it.
Respond(a, type, page, flags) ==
  /\ ceremony # "none"
  /\ Cardinality(wire) < MaxResponses
  /\ wire' = wire \cup
       {[ad |-> [rpid |-> page[1], flags |-> flags, count |-> NextCount(a),
                 key |-> IF type = "create" THEN device[a].key ELSE NoKey],
         cd |-> [type |-> type, challenge |-> challenge, origin |-> page[2]],
         signer |-> IF type = "get" THEN device[a].key ELSE NoKey]}
  /\ device' = [device EXCEPT ![a].count = NextCount(a)]
  /\ spoilt' = spoilt \cup
       IF NextCount(a) = 0 /\ device[a].key \notin Opted THEN {device[a].key} ELSE {}
  /\ UNCHANGED <<reg, ceremony, challenge, accepted, refused>>

\* A copy of a's key in b, with the counter a had at some time.
Clone(a, b) ==
  /\ a # b
  /\ \E c \in 0..device[a].count :
       device' = [device EXCEPT ![b] = [key |-> device[a].key, count |-> c]]
  /\ spoilt' = spoilt \cup {device[a].key}
  /\ UNCHANGED <<reg, ceremony, challenge, wire, accepted, refused>>

-----------------------------------------------------------------------------
(* The server's checks.                                                    *)

\* Mutant: the challenge is not compared.
ClientDataAnyChallenge(cd, type) == cd.type = type /\ cd.origin = Here

\* verifyClientData.
ClientDataOk(cd, type) ==
  cd.type = type /\ cd.challenge = challenge /\ cd.origin = Here

\* checkAuthData.
AuthDataOk(ad) ==
  /\ ad.rpid = Here
  /\ "UP" \in ad.flags
  /\ RequireUV => "UV" \in ad.flags

\* Mutant: the signature covers the authenticator's half only.
VerifiesHalf(s, ad, cd) == s.signer = reg.key /\ s.ad = ad

\* ecdsa.VerifyASN1 with the stored key, over authenticatorData and the hash
\* of clientDataJSON: s is the response whose signature is presented.
Verifies(s, ad, cd) == s.signer = reg.key /\ s.ad = ad /\ s.cd = cd

\* Mutant: a counter that stands still passes.
NotBehind(n) == n >= reg.count

\* Mutant: counters that are always 0 are not let off.
AdvancesAlways(n) == n > reg.count

\* The counter must have advanced, unless it has always been 0.
Advances(n) == n # 0 \/ reg.count # 0 => n > reg.count

-----------------------------------------------------------------------------
(* Ceremonies.                                                             *)

\* Challenge: a fresh value, for a sign-up first and then for logins.
Ask ==
  /\ ceremony = "none"
  /\ challenge < MaxCeremonies
  /\ challenge' = challenge + 1
  /\ ceremony' = IF reg.key = NoKey THEN "create" ELSE "get"
  /\ UNCHANGED <<device, reg, wire, spoilt, accepted, refused>>

\* VerifyRegistration: the attestation object of r and the client data of q.
VerifyRegistration(r, q) ==
  /\ ceremony = "create"
  /\ ceremony' = "none"
  /\ reg' = IF ClientDataOk(q.cd, "create") /\ AuthDataOk(r.ad) /\ r.ad.key # NoKey
              THEN [key |-> r.ad.key, count |-> r.ad.count]
              ELSE reg
  /\ UNCHANGED <<device, challenge, wire, spoilt, accepted, refused>>

\* Everything VerifyAssertion asks of ad, cd and the signature of s.
Passes(s, ad, cd) ==
  /\ ClientDataOk(cd, "get")
  /\ AuthDataOk(ad)
  /\ Verifies(s, ad, cd)
  /\ Advances(ad.count)

\* VerifyAssertion, of parts that may come from three responses; the counter
\* is stored with the verdict.
VerifyAssertion(r, q, s) ==
  /\ ceremony = "get"
  /\ s.signer # NoKey
  /\ ceremony' = "none"
  /\ \/ /\ Passes(s, r.ad, q.cd)
        /\ reg' = [reg EXCEPT !.count = r.ad.count]
        /\ accepted' = accepted \cup {[for |-> challenge, response |-> s]}
        /\ UNCHANGED refused
     \/ /\ ~Passes(s, r.ad, q.cd)
        /\ refused' = refused \cup
             IF r = s /\ q = s /\ s.cd.challenge = challenge THEN {s} ELSE {}
        /\ UNCHANGED <<reg, accepted>>
  /\ UNCHANGED <<device, challenge, wire, spoilt>>

Next ==
  \/ Ask
  \/ \E a \in Auths :
       \/ \E type \in {"create", "get"}, page \in Pages, flags \in Gestures :
            Respond(a, type, page, flags)
       \/ \E b \in Auths : Clone(a, b)
  \/ \E r, q \in wire :
       \/ VerifyRegistration(r, q)
       \/ \E s \in wire : VerifyAssertion(r, q, s)

Spec == Init /\ [][Next]_vars

-----------------------------------------------------------------------------
(* Properties.                                                             *)

\* A signature logs in once: recorded and sent again, whole or in parts, it
\* meets another challenge.
SingleUse ==
  \A x, y \in accepted : x.response = y.response => x = y

\* Whoever logs in signed, with the registered key, for this site and for this
\* very login, with the gesture that is asked for, whatever parts were put
\* together.
SignedForThisLogin ==
  \A x \in accepted :
    LET s == x.response
    IN  /\ s.signer = reg.key
        /\ s.cd.type = "get" /\ s.cd.challenge = x.for
        /\ s.cd.origin = Here /\ s.ad.rpid = Here
        /\ "UP" \in s.ad.flags /\ (RequireUV => "UV" \in s.ad.flags)

\* The counters of the logins rise strictly, across copies and wrap-around, so
\* that copies of a key get in only ahead of each other; except as long as all
\* are 0, when nothing tells copies apart.
CountsRise ==
  \A x, y \in accepted : x.for < y.for =>
    \/ x.response.ad.count < y.response.ad.count
    \/ x.response.ad.count = 0 /\ y.response.ad.count = 0

\* The holder is not refused: a response made for this login, on this site and
\* with the right gesture, by the registered key, passes as long as the key has
\* not been copied and its counter has not come round.
HolderGetsIn ==
  \A s \in refused :
    \/ s.signer # reg.key \/ s.signer \in spoilt
    \/ s.cd.origin # Here \/ s.ad.rpid # Here
    \/ "UP" \notin s.ad.flags \/ (RequireUV /\ "UV" \notin s.ad.flags)

=============================================================================
