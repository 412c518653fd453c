--------------------------- MODULE PasskeyProofs ----------------------------
(***************************************************************************)
(* Theorems of Passkey, for any authenticators, pages and counter width.   *)
(*                                                                         *)
(* Logins says of every login what its signature covered and that the      *)
(* stored counter has reached its counter; the properties of the logins    *)
(* follow from it.  That the holder gets in needs the other side too: the  *)
(* stored counter never overtakes the device (Behind), so what the device  *)
(* makes after the challenge was drawn is ahead of it (Ahead).             *)
(***************************************************************************)
EXTENDS Passkey, TLAPS

\* Challenges come one after the other; the first ones are for the sign-up.
Course ==
  /\ ceremony = "create" => reg.key = NoKey
  /\ ceremony = "get" => reg.key # NoKey
  /\ reg.key = NoKey => refused = {}
  /\ \A w \in wire : w.cd.challenge <= challenge /\ (w.signer # NoKey => w.cd.type = "get")

Logins ==
  \A x \in accepted :
    /\ x.for <= challenge /\ (ceremony # "none" => x.for < challenge)
    /\ x.response.signer = reg.key /\ reg.key # NoKey
    /\ x.response.cd.type = "get" /\ x.response.cd.challenge = x.for
    /\ x.response.cd.origin = Here /\ x.response.ad.rpid = Here
    /\ "UP" \in x.response.ad.flags /\ (RequireUV => "UV" \in x.response.ad.flags)
    /\ x.response.ad.count <= reg.count

\* A key that was not copied is in its own device or nowhere.
OwnKeys == \A a \in Auths : device[a].key \in spoilt \/ device[a].key = a

\* Who always reports 0 is never stored with anything else.
Zeros ==
  /\ \A w \in wire : w.signer \in Opted \/ w.ad.key \in Opted => w.ad.count = 0
  /\ reg.key \in Opted => reg.count = 0

\* A counter that has not come round is ahead of all it reported.
Behind ==
  \A a \in Auths : a \notin spoilt /\ a \notin Opted /\ device[a].key = a =>
    /\ \A w \in wire : w.signer = a \/ w.ad.key = a => w.ad.count <= device[a].count
    /\ reg.key = a => reg.count <= device[a].count

\* What the holder makes for this login is ahead of what is stored.
Ahead ==
  ceremony = "get" /\ reg.key \notin spoilt /\ reg.key \notin Opted =>
    \A w \in wire : w.signer = reg.key /\ w.cd.challenge = challenge =>
      w.ad.count > reg.count

\* The inductive invariant.
PasskeyInv ==
  TypeOK /\ Course /\ Logins /\ CountsRise /\ OwnKeys /\ Zeros /\ Behind /\ Ahead
         /\ HolderGetsIn

\* The counter goes up by one or comes round to 0.
LEMMA CounterStep ==
  ASSUME NEW c \in Count
  PROVE  /\ (c + 1) % CountSpace \in Count
         /\ (c + 1) % CountSpace = c + 1 \/ (c + 1) % CountSpace = 0
<1>0. CountSpace \in Nat /\ CountSpace > 0 /\ c \in Nat /\ c < CountSpace
  BY PasskeyAssumption DEF Count
<1>1. CASE c + 1 < CountSpace
  <2>1. (c + 1) % CountSpace = c + 1
    BY <1>0, <1>1
  <2> QED
    BY <1>0, <1>1, <2>1 DEF Count
<1>2. CASE c + 1 = CountSpace
  <2>1. (c + 1) % CountSpace = 0
    BY <1>0, <1>2
  <2> QED
    BY <1>0, <2>1 DEF Count
<1> QED
  BY <1>0, <1>1, <1>2

\* A response that authenticator a makes.
LEMMA RespondStep ==
  ASSUME PasskeyInv,
         NEW a \in Auths, NEW type \in {"create", "get"},
         NEW page \in Pages, NEW flags \in Gestures,
         Respond(a, type, page, flags)
  PROVE  PasskeyInv'
<1>0. TypeOK /\ Course /\ Logins /\ CountsRise /\ OwnKeys /\ Zeros /\ Behind
      /\ Ahead /\ HolderGetsIn
  BY DEF PasskeyInv
<1> DEFINE k == device[a].key
           n == NextCount(a)
           u == [ad |-> [rpid |-> page[1], flags |-> flags, count |-> n,
                         key |-> IF type = "create" THEN k ELSE NoKey],
                 cd |-> [type |-> type, challenge |-> challenge, origin |-> page[2]],
                 signer |-> IF type = "get" THEN k ELSE NoKey]
<1>1. /\ wire' = wire \cup {u}
      /\ device' = [device EXCEPT ![a].count = n]
      /\ spoilt' = spoilt \cup IF n = 0 /\ k \notin Opted THEN {k} ELSE {}
      /\ UNCHANGED <<reg, ceremony, challenge, accepted, refused>>
  BY DEF Respond
<1>2. k \in Auths /\ device[a].count \in Count
  BY <1>0 DEF TypeOK
<1>3. n \in Count /\ (k \in Opted => n = 0)
      /\ (k \notin Opted => n = device[a].count + 1 \/ n = 0)
  <2>1. 0 \in Count
    BY PasskeyAssumption DEF Count
  <2> QED
    BY <1>2, <2>1, CounterStep DEF NextCount
<1> HIDE DEF n
<1>4. page[1] \in Sites /\ page[2] \in Sites
  BY PasskeyAssumption
<1>5. u \in Response
  <2>1. u.ad \in AuthData
    BY <1>2, <1>3, <1>4 DEF AuthData, MaybeKey
  <2>2. u.cd \in ClientData
    BY <1>0, <1>4 DEF ClientData, TypeOK
  <2> QED
    BY <1>2, <2>1, <2>2 DEF Response, MaybeKey
<1>6. /\ u.ad.count = n /\ u.cd.challenge = challenge
      /\ (u.signer # NoKey => u.cd.type = "get")
      /\ u.signer = k \/ u.signer = NoKey
      /\ u.ad.key = k \/ u.ad.key = NoKey
  OBVIOUS
<1> HIDE DEF u, k
<1>7. /\ device' \in [Auths -> [key : Auths, count : Count]]
      /\ device'[a].key = k /\ device'[a].count = n
      /\ \A b \in Auths : b # a => device'[b] = device[b]
  BY <1>0, <1>1, <1>2, <1>3 DEF TypeOK, k
<1>8. spoilt \subseteq spoilt' /\ spoilt' \subseteq Auths
      /\ (n = 0 /\ k \notin Opted => k \in spoilt')
  BY <1>0, <1>1, <1>2 DEF TypeOK
<1>9. TypeOK'
  BY <1>0, <1>1, <1>5, <1>7, <1>8 DEF TypeOK
<1>10. Course'
  <2>1. challenge \in Nat
    BY <1>0 DEF TypeOK
  <2> QED
    BY <1>0, <1>1, <1>6, <2>1 DEF Course
<1>11. Logins' /\ CountsRise'
  BY <1>0, <1>1 DEF Logins, CountsRise
<1>12. OwnKeys'
  BY <1>0, <1>7, <1>8 DEF OwnKeys, k
<1>13. Zeros'
  BY <1>0, <1>1, <1>3, <1>6, PasskeyAssumption DEF Zeros
<1>14. k \in spoilt' \/ k = a
  BY <1>0, <1>8 DEF OwnKeys, k
<1>15. Behind'
  <2> SUFFICES ASSUME NEW b \in Auths, b \notin spoilt', b \notin Opted, device'[b].key = b
               PROVE  /\ \A w \in wire' : w.signer = b \/ w.ad.key = b =>
                           w.ad.count <= device'[b].count
                      /\ reg'.key = b => reg'.count <= device'[b].count
    BY DEF Behind
  <2>1. CASE b # a
    <3>1. device'[b] = device[b] /\ b \notin spoilt
      BY <1>7, <1>8, <2>1
    <3>2. u.signer # b /\ u.ad.key # b
      BY <1>6, <1>14, <2>1, PasskeyAssumption
    <3> QED
      BY <1>0, <1>1, <3>1, <3>2 DEF Behind
  <2>2. CASE b = a
    <3>1. k = a /\ n = device[a].count + 1 /\ device'[a].count = n
      BY <1>3, <1>7, <1>8, <2>2
    <3>2. device[a].key = a /\ a \notin spoilt
      BY <1>8, <2>2, <3>1 DEF k
    <3>3. /\ \A w \in wire : w.signer = a \/ w.ad.key = a => w.ad.count <= device[a].count
          /\ reg.key = a => reg.count <= device[a].count
      BY <1>0, <2>2, <3>2 DEF Behind
    <3>4. device[a].count \in Nat /\ reg.count \in Nat /\ \A w \in wire : w.ad.count \in Nat
      BY <1>0, <1>2 DEF TypeOK, Response, AuthData, Registration, Count
    <3> QED
      BY <1>1, <1>6, <2>2, <3>1, <3>3, <3>4
  <2> QED
    BY <2>1, <2>2
<1>16. Ahead'
  <2> SUFFICES ASSUME ceremony = "get", reg.key \notin spoilt', reg.key \notin Opted
               PROVE  \A w \in wire' : w.signer = reg.key /\ w.cd.challenge = challenge =>
                        w.ad.count > reg.count
    BY <1>1 DEF Ahead
  <2>1. \A w \in wire : w.signer = reg.key /\ w.cd.challenge = challenge =>
          w.ad.count > reg.count
    BY <1>0, <1>8 DEF Ahead
  <2>2. ASSUME u.signer = reg.key PROVE u.ad.count > reg.count
    <3>1. reg.key = k /\ k = a /\ device[a].key = a /\ a \notin spoilt
      BY <1>0, <1>6, <1>8, <1>14, <2>2 DEF Course, k
    <3>2. reg.count <= device[a].count /\ n = device[a].count + 1
      BY <1>0, <1>3, <1>8, <3>1 DEF Behind
    <3>3. reg.count \in Nat /\ device[a].count \in Nat
      BY <1>0, <1>2 DEF TypeOK, Registration, Count
    <3> QED
      BY <1>6, <3>2, <3>3
  <2> QED
    BY <1>1, <2>1, <2>2
<1>17. HolderGetsIn'
  BY <1>0, <1>1, <1>8 DEF HolderGetsIn
<1> QED
  BY <1>9, <1>10, <1>11, <1>12, <1>13, <1>15, <1>16, <1>17 DEF PasskeyInv

\* A copy of a's key in b.
LEMMA CloneStep ==
  ASSUME PasskeyInv, NEW a \in Auths, NEW b \in Auths, Clone(a, b)
  PROVE  PasskeyInv'
<1>0. TypeOK /\ Course /\ Logins /\ CountsRise /\ OwnKeys /\ Zeros /\ Behind
      /\ Ahead /\ HolderGetsIn
  BY DEF PasskeyInv
<1>1. PICK c \in 0..device[a].count :
        device' = [device EXCEPT ![b] = [key |-> device[a].key, count |-> c]]
  BY DEF Clone
<1>2. /\ a # b /\ spoilt' = spoilt \cup {device[a].key}
      /\ UNCHANGED <<reg, ceremony, challenge, wire, accepted, refused>>
  BY DEF Clone
<1>3. device[a].key \in Auths /\ device[a].count \in Count /\ c \in Count
  <2>1. device[a].key \in Auths /\ device[a].count \in Count
    BY <1>0 DEF TypeOK
  <2> QED
    BY <2>1, PasskeyAssumption DEF Count
<1>4. /\ device' \in [Auths -> [key : Auths, count : Count]]
      /\ device'[b].key = device[a].key
      /\ \A d \in Auths : d # b => device'[d] = device[d]
  BY <1>0, <1>1, <1>3 DEF TypeOK
<1>5. TypeOK'
  BY <1>0, <1>2, <1>3, <1>4 DEF TypeOK
<1>6. OwnKeys'
  BY <1>0, <1>2, <1>4 DEF OwnKeys
<1>7. Behind'
  <2> SUFFICES ASSUME NEW d \in Auths, d \notin spoilt', d \notin Opted, device'[d].key = d
               PROVE  /\ \A w \in wire' : w.signer = d \/ w.ad.key = d =>
                           w.ad.count <= device'[d].count
                      /\ reg'.key = d => reg'.count <= device'[d].count
    BY DEF Behind
  <2>1. d # b /\ device'[d] = device[d] /\ d \notin spoilt
    BY <1>2, <1>4
  <2> QED
    BY <1>0, <1>2, <2>1 DEF Behind
<1>8. Ahead' /\ HolderGetsIn'
  BY <1>0, <1>2 DEF Ahead, HolderGetsIn
<1>9. Course' /\ Logins' /\ CountsRise' /\ Zeros'
  BY <1>0, <1>2 DEF Course, Logins, CountsRise, Zeros
<1> QED
  BY <1>5, <1>6, <1>7, <1>8, <1>9 DEF PasskeyInv

\* A challenge is drawn.
LEMMA AskStep ==
  ASSUME PasskeyInv, Ask
  PROVE  PasskeyInv'
<1>0. TypeOK /\ Course /\ Logins /\ CountsRise /\ OwnKeys /\ Zeros /\ Behind
      /\ Ahead /\ HolderGetsIn
  BY DEF PasskeyInv
<1>1. /\ challenge' = challenge + 1
      /\ ceremony' = IF reg.key = NoKey THEN "create" ELSE "get"
      /\ UNCHANGED <<device, reg, wire, spoilt, accepted, refused>>
  BY DEF Ask
<1>2. challenge \in Nat /\ \A w \in wire : w.cd.challenge \in Nat
  BY <1>0 DEF TypeOK, Response, ClientData
<1>3. \A x \in accepted : x.for \in Nat
  BY <1>0 DEF TypeOK
<1>4. TypeOK'
  BY <1>0, <1>1, <1>2 DEF TypeOK
<1>5. Course'
  BY <1>0, <1>1, <1>2 DEF Course
<1>6. Logins'
  BY <1>0, <1>1, <1>2, <1>3 DEF Logins
<1>7. Ahead'
  <2>1. \A w \in wire : w.cd.challenge # challenge'
    BY <1>0, <1>1, <1>2 DEF Course
  <2> QED
    BY <1>1, <2>1 DEF Ahead
<1>8. CountsRise' /\ OwnKeys' /\ Zeros' /\ Behind' /\ HolderGetsIn'
  BY <1>0, <1>1 DEF CountsRise, OwnKeys, Zeros, Behind, HolderGetsIn
<1> QED
  BY <1>4, <1>5, <1>6, <1>7, <1>8 DEF PasskeyInv

\* The answer to a sign-up.
LEMMA RegistrationStep ==
  ASSUME PasskeyInv, NEW r \in wire, NEW q \in wire, VerifyRegistration(r, q)
  PROVE  PasskeyInv'
<1>0. TypeOK /\ Course /\ Logins /\ CountsRise /\ OwnKeys /\ Zeros /\ Behind
      /\ Ahead /\ HolderGetsIn
  BY DEF PasskeyInv
<1>1. /\ ceremony = "create" /\ ceremony' = "none"
      /\ UNCHANGED <<device, challenge, wire, spoilt, accepted, refused>>
  BY DEF VerifyRegistration
<1>2. reg.key = NoKey /\ accepted = {} /\ refused = {}
  BY <1>0, <1>1 DEF Course, Logins
<1>3. \/ reg' = reg
      \/ reg' = [key |-> r.ad.key, count |-> r.ad.count] /\ r.ad.key # NoKey
  BY DEF VerifyRegistration
<1>4. r.ad.key \in MaybeKey /\ r.ad.count \in Count
  BY <1>0 DEF TypeOK, Response, AuthData
<1>5. TypeOK'
  BY <1>0, <1>1, <1>3, <1>4 DEF TypeOK, Registration
<1>6. Course'
  BY <1>0, <1>1, <1>2 DEF Course
<1>7. Logins' /\ CountsRise' /\ HolderGetsIn'
  BY <1>1, <1>2 DEF Logins, CountsRise, HolderGetsIn
<1>8. OwnKeys' /\ Ahead'
  BY <1>0, <1>1 DEF OwnKeys, Ahead
<1>9. Zeros'
  BY <1>0, <1>1, <1>3 DEF Zeros
<1>10. Behind'
  BY <1>0, <1>1, <1>3 DEF Behind
<1> QED
  BY <1>5, <1>6, <1>7, <1>8, <1>9, <1>10 DEF PasskeyInv

\* The answer to a login.
LEMMA AssertionStep ==
  ASSUME PasskeyInv, NEW r \in wire, NEW q \in wire, NEW s \in wire,
         VerifyAssertion(r, q, s)
  PROVE  PasskeyInv'
<1>0. TypeOK /\ Course /\ Logins /\ CountsRise /\ OwnKeys /\ Zeros /\ Behind
      /\ Ahead /\ HolderGetsIn
  BY DEF PasskeyInv
<1>1. /\ ceremony = "get" /\ ceremony' = "none" /\ s.signer # NoKey
      /\ UNCHANGED <<device, challenge, wire, spoilt>>
  BY DEF VerifyAssertion
<1>2. /\ reg.key # NoKey /\ reg \in Registration /\ s \in Response
      /\ reg.count \in Nat /\ s.ad.count \in Nat /\ s.ad.count \in Count
      /\ challenge \in Nat
  BY <1>0, <1>1 DEF TypeOK, Course, Response, AuthData, Registration, Count
<1>3. CASE Passes(s, r.ad, q.cd) /\ reg' = [reg EXCEPT !.count = r.ad.count]
           /\ accepted' = accepted \cup {[for |-> challenge, response |-> s]}
           /\ refused' = refused
  <2> DEFINE y == [for |-> challenge, response |-> s]
  <2>1. s.signer = reg.key /\ s.ad = r.ad /\ s.cd = q.cd
    BY <1>3 DEF Passes, Verifies
  <2>2. /\ s.cd.type = "get" /\ s.cd.challenge = challenge /\ s.cd.origin = Here
        /\ s.ad.rpid = Here /\ "UP" \in s.ad.flags /\ (RequireUV => "UV" \in s.ad.flags)
    BY <1>3, <2>1 DEF Passes, ClientDataOk, AuthDataOk
  <2>3. s.ad.count > reg.count \/ (s.ad.count = 0 /\ reg.count = 0)
    BY <1>3, <2>1 DEF Passes, Advances
  <2>4. reg' \in Registration /\ reg'.key = reg.key /\ reg'.count = s.ad.count
    BY <1>2, <1>3, <2>1 DEF Registration
  <2>5. /\ y \in [for : Nat, response : Response]
        /\ y.for = challenge /\ y.response = s
    BY <1>2
  <2>6. accepted' = accepted \cup {y}
    BY <1>3
  <2> HIDE DEF y
  <2>7. \A x \in accepted : x.for \in Nat /\ x.response.ad.count \in Nat
    BY <1>0 DEF TypeOK, Response, AuthData, Count
  <2>8. TypeOK'
    BY <1>0, <1>1, <1>3, <2>4, <2>5, <2>6 DEF TypeOK
  <2>9. Course'
    BY <1>0, <1>1, <1>3, <2>4 DEF Course
  <2>10. \A x \in accepted :
           x.for < challenge /\ x.response.ad.count <= reg.count
    BY <1>0, <1>1 DEF Logins
  <2>11. \A x \in accepted : x.response.ad.count <= s.ad.count
    BY <1>2, <2>3, <2>7, <2>10
  <2>12. Logins'
    <3> SUFFICES ASSUME NEW x \in accepted'
                 PROVE  /\ x.for <= challenge
                        /\ x.response.signer = reg.key /\ reg.key # NoKey
                        /\ x.response.cd.type = "get" /\ x.response.cd.challenge = x.for
                        /\ x.response.cd.origin = Here /\ x.response.ad.rpid = Here
                        /\ "UP" \in x.response.ad.flags /\ (RequireUV => "UV" \in x.response.ad.flags)
                        /\ x.response.ad.count <= s.ad.count
      BY <1>1, <2>4 DEF Logins
    <3>1. CASE x \in accepted
      BY <1>0, <2>11, <3>1 DEF Logins
    <3>2. CASE x = y
      BY <1>2, <2>1, <2>2, <2>5, <3>2
    <3> QED
      BY <2>6, <3>1, <3>2
  <2>13. CountsRise'
    <3> SUFFICES ASSUME NEW v \in accepted', NEW w \in accepted', v.for < w.for
                 PROVE  \/ v.response.ad.count < w.response.ad.count
                        \/ v.response.ad.count = 0 /\ w.response.ad.count = 0
      BY DEF CountsRise
    <3>1. CASE v \in accepted /\ w \in accepted
      BY <1>0, <3>1 DEF CountsRise
    <3>2. CASE v \in accepted /\ w = y
      BY <1>2, <2>3, <2>5, <2>7, <2>10, <3>2
    <3>3. CASE v = y
      BY <1>2, <2>5, <2>6, <2>7, <2>10, <3>3
    <3> QED
      BY <2>6, <3>1, <3>2, <3>3
  <2>14. Zeros' /\ Behind'
    BY <1>0, <1>1, <2>1, <2>4 DEF Zeros, Behind
  <2>15. OwnKeys' /\ Ahead' /\ HolderGetsIn'
    BY <1>0, <1>1, <1>3, <2>4 DEF OwnKeys, Ahead, HolderGetsIn
  <2> QED
    BY <2>8, <2>9, <2>12, <2>13, <2>14, <2>15 DEF PasskeyInv
<1>4. CASE ~Passes(s, r.ad, q.cd) /\ UNCHANGED <<reg, accepted>>
           /\ refused' = refused \cup
                IF r = s /\ q = s /\ s.cd.challenge = challenge THEN {s} ELSE {}
  <2>1. TypeOK'
    BY <1>0, <1>1, <1>2, <1>4 DEF TypeOK
  <2>2. Course' /\ Logins' /\ CountsRise' /\ OwnKeys' /\ Zeros' /\ Behind' /\ Ahead'
    BY <1>0, <1>1, <1>2, <1>4
       DEF Course, Logins, CountsRise, OwnKeys, Zeros, Behind, Ahead
  <2>3. ASSUME r = s, q = s, s.cd.challenge = challenge,
               s.signer = reg.key, s.signer \notin spoilt,
               s.cd.origin = Here, s.ad.rpid = Here,
               "UP" \in s.ad.flags, RequireUV => "UV" \in s.ad.flags
        PROVE  FALSE
    <3>1. AuthDataOk(s.ad) /\ Verifies(s, s.ad, s.cd)
      BY <2>3 DEF AuthDataOk, Verifies
    <3>2. s.cd.type = "get"
      BY <1>0, <1>1, <2>3 DEF Course
    <3>3. Advances(s.ad.count)
      <4>1. CASE reg.key \in Opted
        BY <1>0, <1>2, <2>3, <4>1 DEF Zeros, Advances
      <4>2. CASE reg.key \notin Opted
        BY <1>0, <1>1, <2>3, <4>2 DEF Ahead, Advances
      <4> QED
        BY <4>1, <4>2
    <3> QED
      BY <1>4, <2>3, <3>1, <3>2, <3>3 DEF Passes, ClientDataOk
  <2>4. HolderGetsIn'
    BY <1>0, <1>1, <1>4, <2>3 DEF HolderGetsIn
  <2> QED
    BY <2>1, <2>2, <2>4 DEF PasskeyInv
<1> QED
  BY <1>3, <1>4 DEF VerifyAssertion

\* Every step preserves the invariant.
LEMMA PasskeyStep == PasskeyInv /\ [Next]_vars => PasskeyInv'
<1> SUFFICES ASSUME PasskeyInv, [Next]_vars PROVE PasskeyInv'
  OBVIOUS
<1>1. CASE UNCHANGED vars
  BY <1>1 DEF vars, PasskeyInv, TypeOK, Course, Logins, CountsRise, OwnKeys, Zeros,
              Behind, Ahead, HolderGetsIn
<1> QED
  BY <1>1, AskStep, RespondStep, CloneStep, RegistrationStep, AssertionStep DEF Next

\* The invariant holds in every reachable state.
THEOREM PasskeyInductive == Spec => []PasskeyInv
<1>1. Init => PasskeyInv
  <2> SUFFICES ASSUME Init PROVE PasskeyInv
    OBVIOUS
  <2>1. PICK c \in [Auths -> Starts] :
          device = [a \in Auths |-> [key |-> a, count |-> c[a]]]
    BY DEF Init
  <2>2. 0 \in Count /\ Starts \subseteq Count
    BY PasskeyAssumption DEF Count
  <2>3. device \in [Auths -> [key : Auths, count : Count]]
        /\ \A a \in Auths : device[a].key = a
    BY <2>1, <2>2
  <2>4. /\ reg = [key |-> NoKey, count |-> 0] /\ ceremony = "none" /\ challenge = 0
        /\ wire = {} /\ spoilt = {} /\ accepted = {} /\ refused = {}
    BY DEF Init
  <2>5. TypeOK
    BY <2>2, <2>3, <2>4 DEF TypeOK, Registration, MaybeKey
  <2>6. Course /\ Logins /\ CountsRise /\ OwnKeys /\ Zeros /\ Ahead /\ HolderGetsIn
    BY <2>3, <2>4 DEF Course, Logins, CountsRise, OwnKeys, Zeros, Ahead, HolderGetsIn
  <2>7. Behind
    BY <2>4, PasskeyAssumption DEF Behind
  <2> QED
    BY <2>5, <2>6, <2>7 DEF PasskeyInv
<1> QED
  BY <1>1, PasskeyStep, PTL DEF Spec

\* The types.
THEOREM PasskeyTypes == Spec => []TypeOK
<1>1. PasskeyInv => TypeOK
  BY DEF PasskeyInv
<1> QED
  BY <1>1, PasskeyInductive, PTL

\* A recorded signature is worth nothing, with counters or without.
THEOREM SignaturesSingleUse == Spec => []SingleUse
<1>1. PasskeyInv => SingleUse
  <2> SUFFICES ASSUME PasskeyInv, NEW x \in accepted, NEW y \in accepted,
                      x.response = y.response
               PROVE  x = y
    BY DEF SingleUse
  <2>1. x.for = y.for
    BY DEF PasskeyInv, Logins
  <2>2. x \in [for : Nat, response : Response] /\ y \in [for : Nat, response : Response]
    BY DEF PasskeyInv, TypeOK
  <2> QED
    BY <2>1, <2>2
<1> QED
  BY <1>1, PasskeyInductive, PTL

\* Parts of responses cannot be put together into a login nobody signed.
THEOREM OnlyTheHolder == Spec => []SignedForThisLogin
<1>1. PasskeyInv => SignedForThisLogin
  BY DEF PasskeyInv, Logins, SignedForThisLogin
<1> QED
  BY <1>1, PasskeyInductive, PTL

\* Counters of logins rise, for any width of the counter and any copies.
THEOREM CountersRise == Spec => []CountsRise
<1>1. PasskeyInv => CountsRise
  BY DEF PasskeyInv
<1> QED
  BY <1>1, PasskeyInductive, PTL

\* The checks never lock the holder of an uncopied key out.
THEOREM HolderPasses == Spec => []HolderGetsIn
<1>1. PasskeyInv => HolderGetsIn
  BY DEF PasskeyInv
<1> QED
  BY <1>1, PasskeyInductive, PTL

=============================================================================
