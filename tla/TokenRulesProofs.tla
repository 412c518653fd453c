-------------------------- MODULE TokenRulesProofs --------------------------
(***************************************************************************)
(* Theorems of TokenRules, for any keys, clients, nonces and times, and of *)
(* Authz: the two sets of rules this repository decides by.  TokenRules    *)
(* judges in every state, so the one invariant it rests on is that of      *)
(* types: the clock never shows a time near zero.                          *)
(***************************************************************************)
EXTENDS TokenRules, Authz, TLAPS

\* Types are kept, and the clock stays between the bounds.
THEOREM RulesTypes == Spec => []TypeOK
<1>1. Init => TypeOK
  BY RulesAssumption DEF Init, TypeOK
<1>2. TypeOK /\ [Next]_vars => TypeOK'
  <2> SUFFICES ASSUME TypeOK, [Next]_vars PROVE TypeOK'
    OBVIOUS
  <2>1. CASE Tick
    BY <2>1, RulesAssumption DEF Tick, TypeOK
  <2>2. ASSUME NEW kid \in Kids, NEW alg \in Algs \cup {NoLabel}, Load(kid, alg)
        PROVE  TypeOK'
    BY <2>2 DEF Load, TypeOK
  <2>3. CASE UNCHANGED vars
    BY <2>3 DEF vars, TypeOK
  <2> QED
    BY <2>1, <2>2, <2>3 DEF Next
<1> QED
  BY <1>1, <1>2, PTL DEF Spec

\* A login that sent a nonce gets a token with that nonce.
LEMMA NonceChecked ==
  ASSUME NEW t, IDTokenOk(t), want # NoNonce
  PROVE  t.nonce = want
<1>1. Holds(t, "nonce")
  BY DEF IDTokenOk
<1> QED
  BY <1>1 DEF Holds

\* An ID token that is accepted has not expired.
LEMMA ExpiryChecked ==
  ASSUME NEW t, IDTokenOk(t)
  PROVE  now <= t.exp + Leeway
<1>1. Holds(t, "exp")
  BY DEF IDTokenOk
<1> QED
  BY <1>1 DEF Holds, Unexpired

\* ID tokens and logout tokens cannot be taken for each other, however the IdP
\* fills the rest of their claims.
THEOREM TokensNotConfused == Spec => []NoConfusion
<1>1. NoConfusion
  <2> SUFFICES ASSUME want # NoNonce, IDTokenOk(tok), LogoutTokenOk(tok)
               PROVE  FALSE
    BY DEF NoConfusion
  <2>1. tok.nonce = want
    BY NonceChecked
  <2>2. tok.nonce = NoNonce
    BY DEF LogoutTokenOk
  <2> QED
    BY <2>1, <2>2
<1> QED
  BY <1>1, PTL

\* No token lives for ever by leaving its times out.
THEOREM TimelessAreOld == Spec => []TimelessRefused
<1>1. TypeOK => TimelessRefused
  <2> SUFFICES ASSUME TypeOK PROVE TimelessRefused
    OBVIOUS
  <2>0. now \in Int /\ Start <= now
    BY RulesAssumption DEF TypeOK
  <2>1. ASSUME tok.exp = 0, IDTokenOk(tok)
        PROVE  FALSE
    <3>1. now <= tok.exp + Leeway
      BY <2>1, ExpiryChecked
    <3> QED
      BY <2>0, <2>1, <3>1, RulesAssumption
  <2>2. ASSUME tok.iat = 0, LogoutTokenOk(tok)
        PROVE  FALSE
    <3>1. now - tok.iat <= Window
      BY <2>2 DEF LogoutTokenOk, Recent
    <3> QED
      BY <2>0, <2>2, <3>1, RulesAssumption
  <2> QED
    BY <2>1, <2>2 DEF TimelessRefused
<1> QED
  BY <1>1, RulesTypes, PTL

\* While the cache learns nothing, what was refused stays refused.
THEOREM RefusalIsFinal == Spec => TimeNeverHelps
<1>1. ASSUME TypeOK, [Next]_vars
      PROVE  [/\ ~IDTokenOk(tok) /\ IDTokenOk(tok)' => keys' # keys
              /\ ~LogoutTokenOk(tok) /\ LogoutTokenOk(tok)' => keys' # keys]_vars
  <2> SUFFICES ASSUME keys' = keys
               PROVE  /\ IDTokenOk(tok)' => IDTokenOk(tok)
                      /\ LogoutTokenOk(tok)' => LogoutTokenOk(tok)
    OBVIOUS
  <2>1. /\ wired' = wired /\ tok' = tok /\ want' = want
        /\ now \in Int /\ now' \in Int /\ now <= now'
    BY <1>1, RulesAssumption DEF Next, Tick, Load, vars, TypeOK
  <2>2. tok.exp \in Int /\ tok.iat \in Int /\ Leeway \in Int /\ Window \in Int
    BY <1>1, RulesAssumption DEF TypeOK, Token, Times
  <2>3. Verified(tok)' = Verified(tok)
    BY <2>1 DEF Verified, SignatureFits
  <2>4. (Unexpired(tok)' => Unexpired(tok)) /\ (Recent(tok)' => Recent(tok))
    BY <2>1, <2>2 DEF Unexpired, Recent
  <2>5. ASSUME NEW check \in {"sig", "iss", "aud", "azp", "exp", "nonce"},
               Holds(tok, check)'
        PROVE  Holds(tok, check)
    BY <2>1, <2>3, <2>4, <2>5 DEF Holds
  <2> QED
    BY <2>1, <2>3, <2>4, <2>5 DEF IDTokenOk, LogoutTokenOk
<1> QED
  BY <1>1, RulesTypes, PTL DEF Spec, TimeNeverHelps

\* No forgery of the suite is accepted, whatever keys there are.
THEOREM SuiteAlwaysPasses == Spec => []SuitePasses
<1>1. TypeOK => SuitePasses
  <2> SUFFICES ASSUME TypeOK PROVE SuitePasses
    OBVIOUS
  <2>0. tok \in Token /\ TestKid # NoKid /\ TestKid # AttackerKid /\ "RS256" \in DOMAIN allowed
        /\ keys \in [Kids -> Algs \cup {NoLabel, NoKey}] /\ TestKid \in Kids
        /\ NoKey \notin {NoLabel, "RS256"}
    BY RulesAssumption DEF TypeOK
  <2>1. ASSUME NEW kid
        PROVE  LET t == Signed(tok, kid) IN
               t.parses /\ t.alg = "RS256" /\ t.kid = kid /\ t.by = TestKid /\ t.with = "RS256"
    BY <2>0 DEF Signed, Token
  <2>2. Verified(Signed(tok, TestKid)) <=> keys[TestKid] \in {"RS256", NoLabel}
    BY <2>0, <2>1 DEF Verified, SignatureFits
  <2>3. ~Verified(Signed(tok, AttackerKid)) /\ ~Verified(Signed(tok, NoKid))
    BY <2>0, <2>1 DEF Verified
  <2>4. NoneToken(tok).alg = "none" /\ AlgConfusion(tok).alg = "HS256"
    BY <2>0 DEF NoneToken, AlgConfusion, Token
  <2>5. ~Verified(NoneToken(tok)) /\ ~Verified(AlgConfusion(tok))
    BY <2>4, RulesAssumption DEF Verified
  <2>6. /\ Tamper(Signed(tok, TestKid)).by = NoKid
        /\ Tamper(Signed(tok, TestKid)).kid = TestKid
    BY <2>0 DEF Tamper, Signed, Token
  <2>7. ~Verified(Tamper(Signed(tok, TestKid)))
    BY <2>0, <2>6 DEF Verified
  <2> QED
    BY <2>2, <2>3, <2>5, <2>7 DEF SuitePasses, Forgeries
<1> QED
  BY <1>1, RulesTypes, PTL

\* The checks that are due are those the verdict asks for.
LEMMA DueChecks ==
  ASSUME NEW t, NEW due, due = Due(t)
  PROVE  /\ Len(due) \in 4..6 /\ DOMAIN due = 1..Len(due) /\ due[1] = "sig"
         /\ \A check : (\E i \in DOMAIN due : due[i] = check)
                        <=> \/ check \in {"sig", "iss", "aud", "exp"}
                            \/ check = "azp" /\ Len(t.aud) > 1
                            \/ check = "nonce" /\ want # NoNonce
<1>1. CASE Len(t.aud) > 1 /\ want # NoNonce
  <2>1. due = <<"sig", "iss", "aud">> \o <<"azp", "exp">> \o <<"nonce">>
    BY <1>1 DEF Due
  <2>2. /\ Len(due) = 6
        /\ due[1] = "sig" /\ due[2] = "iss" /\ due[3] = "aud"
        /\ due[4] = "azp" /\ due[5] = "exp" /\ due[6] = "nonce"
    BY <2>1
  <2>3. DOMAIN due = 1..Len(due)
    BY <2>1
  <2>4. DOMAIN due = {1, 2, 3, 4, 5, 6}
    BY <2>2, <2>3
  <2> QED
    BY <1>1, <2>2, <2>3, <2>4
<1>2. CASE Len(t.aud) > 1 /\ want = NoNonce
  <2>1. due = <<"sig", "iss", "aud">> \o <<"azp", "exp">> \o <<>>
    BY <1>2 DEF Due
  <2>2. /\ Len(due) = 5
        /\ due[1] = "sig" /\ due[2] = "iss" /\ due[3] = "aud" /\ due[4] = "azp" /\ due[5] = "exp"
    BY <2>1
  <2>3. DOMAIN due = 1..Len(due)
    BY <2>1
  <2>4. DOMAIN due = {1, 2, 3, 4, 5}
    BY <2>2, <2>3
  <2> QED
    BY <1>2, <2>2, <2>3, <2>4
<1>3. CASE ~(Len(t.aud) > 1) /\ want # NoNonce
  <2>1. due = <<"sig", "iss", "aud">> \o <<"exp">> \o <<"nonce">>
    BY <1>3 DEF Due
  <2>2. /\ Len(due) = 5
        /\ due[1] = "sig" /\ due[2] = "iss" /\ due[3] = "aud" /\ due[4] = "exp" /\ due[5] = "nonce"
    BY <2>1
  <2>3. DOMAIN due = 1..Len(due)
    BY <2>1
  <2>4. DOMAIN due = {1, 2, 3, 4, 5}
    BY <2>2, <2>3
  <2> QED
    BY <1>3, <2>2, <2>3, <2>4
<1>4. CASE ~(Len(t.aud) > 1) /\ want = NoNonce
  <2>1. due = <<"sig", "iss", "aud">> \o <<"exp">> \o <<>>
    BY <1>4 DEF Due
  <2>2. /\ Len(due) = 4
        /\ due[1] = "sig" /\ due[2] = "iss" /\ due[3] = "aud" /\ due[4] = "exp"
    BY <2>1
  <2>3. DOMAIN due = 1..Len(due)
    BY <2>1
  <2>4. DOMAIN due = {1, 2, 3, 4}
    BY <2>2, <2>3
  <2> QED
    BY <1>4, <2>2, <2>3, <2>4
<1> QED
  BY <1>1, <1>2, <1>3, <1>4

\* The first of some positions.
LEMMA FirstOf ==
  ASSUME NEW S, S \subseteq 1..6, S # {}
  PROVE  Min(S) \in S /\ \A i \in S : Min(S) <= i
<1>1. \E x \in S : \A y \in S : x <= y
  <2>1. CASE 1 \in S
    BY <2>1
  <2>2. CASE 1 \notin S /\ 2 \in S
    BY <2>2
  <2>3. CASE S \cap 1..2 = {} /\ 3 \in S
    BY <2>3
  <2>4. CASE S \cap 1..3 = {} /\ 4 \in S
    BY <2>4
  <2>5. CASE S \cap 1..4 = {} /\ 5 \in S
    BY <2>5
  <2>6. CASE S \cap 1..5 = {}
    <3>1. \A x \in S : x = 6
      BY <2>6
    <3>2. 6 \in S
      BY <3>1
    <3> QED
      BY <3>1, <3>2
  <2> QED
    BY <2>1, <2>2, <2>3, <2>4, <2>5, <2>6
<1> QED
  BY <1>1 DEF Min

\* The report is the verdict.
THEOREM ReportIsVerdict == Spec => []ReportTellsVerdict
<1>1. ReportTellsVerdict
  <2> DEFINE due == Due(tok)
             bad == {i \in DOMAIN due : ~Holds(tok, due[i])}
             r == Report(tok)
  <2>0. /\ Len(due) \in 4..6 /\ DOMAIN due = 1..Len(due) /\ due[1] = "sig"
        /\ \A check : (\E i \in DOMAIN due : due[i] = check)
                       <=> \/ check \in {"sig", "iss", "aud", "exp"}
                           \/ check = "azp" /\ Len(tok.aud) > 1
                           \/ check = "nonce" /\ want # NoNonce
    BY DueChecks
  <2>1. tok.parses => (IDTokenOk(tok) <=> bad = {})
    <3>1. bad = {} <=> \A check : (\E i \in DOMAIN due : due[i] = check) => Holds(tok, check)
      OBVIOUS
    <3> HIDE DEF due, bad
    <3>2. bad = {} <=> /\ \A check \in {"sig", "iss", "aud", "exp"} : Holds(tok, check)
                       /\ Len(tok.aud) > 1 => Holds(tok, "azp")
                       /\ want # NoNonce => Holds(tok, "nonce")
      BY <2>0, <3>1
    <3> QED
      BY <3>2 DEF IDTokenOk
  <2>2. \A check : /\ Entry(tok, check).name = check
                   /\ Entry(tok, check).result = "failed" <=> ~Holds(tok, check)
                   /\ Entry(tok, check).result = "passed" =>
                        Holds(tok, check) /\ (check = "sig" => wired)
    <3> TAKE check
    <3>1. CASE ~Holds(tok, check)
      <4>1. Entry(tok, check) = [name |-> check, result |-> "failed"]
        <5>1. ~(check = "sig" /\ ~wired)
          BY <3>1 DEF Holds
        <5> QED
          BY <3>1, <5>1 DEF Entry
      <4> QED
        BY <3>1, <4>1
    <3>2. CASE Holds(tok, check) /\ check = "sig" /\ ~wired
      BY <3>2 DEF Entry
    <3>3. CASE Holds(tok, check) /\ ~(check = "sig" /\ ~wired)
      BY <3>3 DEF Entry
    <3> QED
      BY <3>1, <3>2, <3>3
  <2>3. wired /\ Holds(tok, "sig") => Verified(tok)
    BY DEF Holds
  <2>4. CASE ~tok.parses
    <3>1. r = <<>>
      BY <2>4 DEF Report
    <3>2. ~IDTokenOk(tok)
      BY <2>4 DEF IDTokenOk
    <3> QED
      BY <2>4, <3>1, <3>2 DEF ReportTellsVerdict
  <2>5. CASE tok.parses /\ bad = {}
    <3>1. r = [i \in 1..Len(due) |-> Entry(tok, due[i])]
      BY <2>5 DEF Report
    <3> HIDE DEF due, r
    <3>2. Len(r) = Len(due) /\ DOMAIN r = 1..Len(due) /\ r # <<>>
          /\ \A i \in DOMAIN r : r[i] = Entry(tok, due[i])
      BY <2>0, <3>1
    <3>3. \A i \in DOMAIN r : Holds(tok, due[i])
      BY <2>0, <2>5, <3>2
    <3> QED
      BY <2>0, <2>1, <2>2, <2>3, <2>5, <3>2, <3>3 DEF ReportTellsVerdict, r
  <2>6. CASE tok.parses /\ bad # {}
    <3>1. bad \subseteq 1..6
      BY <2>0
    <3>2. Min(bad) \in bad /\ \A i \in bad : Min(bad) <= i
      BY <2>6, <3>1, FirstOf
    <3>3. r = [i \in 1..Min(bad) |-> Entry(tok, due[i])]
      BY <2>6 DEF Report
    <3> DEFINE m == Min(bad)
    <3>4. m \in DOMAIN due /\ ~Holds(tok, due[m]) /\ m \in 1..6
          /\ \A i \in 1..m : i # m => Holds(tok, due[i])
      <4>1. m \in DOMAIN due /\ ~Holds(tok, due[m]) /\ m \in 1..6 /\ m \in 1..Len(due)
        BY <2>0, <3>1, <3>2
      <4>2. ASSUME NEW i \in 1..m, i # m
            PROVE  Holds(tok, due[i])
        <5>1. i \in DOMAIN due
          BY <2>0, <4>1, <4>2
        <5>2. i \notin bad
          <6>1. i \in Nat /\ m \in Nat /\ i < m
            BY <4>1, <4>2
          <6>2. \A j \in bad : m <= j
            BY <3>2
          <6> HIDE DEF bad, m
          <6> QED
            BY <6>1, <6>2
        <5> QED
          BY <5>1, <5>2
      <4> QED
        BY <4>1, <4>2
    <3>5. r = [i \in 1..m |-> Entry(tok, due[i])]
      BY <3>3
    <3> HIDE DEF due, r, m
    <3>6. Len(r) = m /\ DOMAIN r = 1..m /\ r # <<>>
          /\ \A i \in DOMAIN r : r[i] = Entry(tok, due[i])
      BY <3>4, <3>5
    <3>7. ~IDTokenOk(tok)
      BY <2>1, <2>6
    <3> QED
      BY <2>2, <2>3, <2>6, <3>4, <3>6, <3>7 DEF ReportTellsVerdict, r
  <2> QED
    BY <2>4, <2>5, <2>6
<1> QED
  BY <1>1, PTL

-----------------------------------------------------------------------------
(* What the three models of Authz can and cannot express.                  *)
USE DEF Case, Request, alice, bob, carol, handbook, salaries

(* ABAC gives the expected answer in all five cases, so the program exits  *)
(* with 0 (main.go:223), however role names are compared.                  *)
THEOREM AbacExpressesAll == AbacMismatch = {}
<1>1. abac(OwnerEdits.req) = OwnerEdits.want
  BY DEF abac, OwnerEdits
<1>2. abac(EditorEditsOther.req) = EditorEditsOther.want
  BY DEF abac, EditorEditsOther
<1>3. abac(ViewerReads.req) = ViewerReads.want
  BY DEF abac, ViewerReads
<1>4. abac(ViewerEdits.req) = ViewerEdits.want
  BY DEF abac, ViewerEdits
<1>5. abac(ReadsFromOutside.req) = ReadsFromOutside.want
  BY DEF abac, ReadsFromOutside
<1> QED
  BY <1>1, <1>2, <1>3, <1>4, <1>5 DEF AbacMismatch, cases

(* No table of roles gives the five answers: an owner's edit is allowed    *)
(* and the same person's edit of another document is not, and RBAC does    *)
(* not look at the document (main.go:62, 213).                             *)
THEOREM NoRoleTableExpressesAll ==
  ASSUME NEW perms PROVE RbacMismatch(perms) # {}
<1>1. rbac(perms, OwnerEdits.req) = rbac(perms, EditorEditsOther.req)
  BY DEF rbac, OwnerEdits, EditorEditsOther
<1>2. /\ OwnerEdits.want = TRUE
      /\ EditorEditsOther.want = FALSE
  BY DEF OwnerEdits, EditorEditsOther
<1>3. \/ rbac(perms, OwnerEdits.req) # OwnerEdits.want
      \/ rbac(perms, EditorEditsOther.req) # EditorEditsOther.want
  BY <1>1, <1>2
<1> QED
  BY <1>3 DEF RbacMismatch, cases

(* No store of relations lets a reader in from the office and keeps him    *)
(* out elsewhere, which is what the confidential document asks for and     *)
(* ABAC does (main.go:167, 218).                                           *)
THEOREM PlaceIsNoRelation ==
  ASSUME NEW stored, NEW grants
  PROVE  LET inside  == Request(alice, "read", salaries, TRUE)
             outside == Request(alice, "read", salaries, FALSE)
         IN  /\ abac(inside) /\ ~abac(outside)
             /\ rebac(stored, grants, inside) = rebac(stored, grants, outside)
  BY DEF abac, rebac

(* In the office ABAC and ReBAC let the same people edit the same          *)
(* documents: the owners (main.go:23, 105, 131).                           *)
THEOREM OwnersEdit ==
  \A u \in Users, d \in Docs :
    LET r == Request(u, "edit", d, TRUE)
    IN  /\ abac(r) <=> d.owner = u.name
        /\ rebac(tuples, relationGrants, r) <=> d.owner = u.name
<1> SUFFICES ASSUME NEW u \in Users, NEW d \in Docs
             PROVE  LET r == Request(u, "edit", d, TRUE)
                    IN  /\ abac(r) <=> d.owner = u.name
                        /\ rebac(tuples, relationGrants, r) <=> d.owner = u.name
  OBVIOUS
<1> DEFINE r == Request(u, "edit", d, TRUE)
<1>1. abac(r) <=> d.owner = u.name
  BY DEF abac, Users, Docs
<1>2. rebac(tuples, relationGrants, r) <=>
        \E t \in tuples : t[1] = u.name /\ t[3] = d.id /\ t[2] = "owner"
  BY DEF rebac, tuples, relationGrants
<1>3. (\E t \in tuples : t[1] = u.name /\ t[3] = d.id /\ t[2] = "owner") <=> d.owner = u.name
  BY DEF tuples, Users, Docs
<1> QED
  BY <1>1, <1>2, <1>3

(* The table of the chapter's README (07-authz-models/README.md:45-51):    *)
(* RBAC misses two of the five, ReBAC one.                                 *)
THEOREM ResultsAsDocumented ==
  /\ RbacMismatch(rolePerms) = {EditorEditsOther, ReadsFromOutside}
  /\ RebacMismatch(tuples, relationGrants) = {ReadsFromOutside}
<1>1. /\ rbac(rolePerms, OwnerEdits.req) = OwnerEdits.want
      /\ rbac(rolePerms, EditorEditsOther.req) # EditorEditsOther.want
      /\ rbac(rolePerms, ViewerReads.req) = ViewerReads.want
      /\ rbac(rolePerms, ViewerEdits.req) = ViewerEdits.want
      /\ rbac(rolePerms, ReadsFromOutside.req) # ReadsFromOutside.want
  BY DEF rbac, rolePerms, OwnerEdits, EditorEditsOther, ViewerReads, ViewerEdits, ReadsFromOutside
<1>2. /\ rebac(tuples, relationGrants, OwnerEdits.req) = OwnerEdits.want
      /\ rebac(tuples, relationGrants, EditorEditsOther.req) = EditorEditsOther.want
      /\ rebac(tuples, relationGrants, ViewerReads.req) = ViewerReads.want
      /\ rebac(tuples, relationGrants, ViewerEdits.req) = ViewerEdits.want
      /\ rebac(tuples, relationGrants, ReadsFromOutside.req) # ReadsFromOutside.want
  BY DEF rebac, tuples, relationGrants,
         OwnerEdits, EditorEditsOther, ViewerReads, ViewerEdits, ReadsFromOutside
<1>3. RbacMismatch(rolePerms) = {EditorEditsOther, ReadsFromOutside}
  BY <1>1 DEF RbacMismatch, cases
<1>4. RebacMismatch(tuples, relationGrants) = {ReadsFromOutside}
  BY <1>2 DEF RebacMismatch, cases
<1> QED
  BY <1>3, <1>4

(* The five cases alone do not show that ReBAC fails: they never ask for   *)
(* the confidential document from the office, so a store without that one  *)
(* tuple (main.go:125) answers all of them.                                *)
THEOREM FiveCasesLetRebacPass ==
  RebacMismatch(tuples \ {<<"alice", "viewer", "salaries">>}, relationGrants) = {}
<1> DEFINE fewer == tuples \ {<<"alice", "viewer", "salaries">>}
<1>1. fewer = {<<"alice", "owner", "handbook">>, <<"carol", "owner", "salaries">>,
               <<"bob", "viewer", "handbook">>}
  BY DEF tuples
<1> HIDE DEF fewer
<1>2. /\ rebac(fewer, relationGrants, OwnerEdits.req) = OwnerEdits.want
      /\ rebac(fewer, relationGrants, EditorEditsOther.req) = EditorEditsOther.want
      /\ rebac(fewer, relationGrants, ViewerReads.req) = ViewerReads.want
      /\ rebac(fewer, relationGrants, ViewerEdits.req) = ViewerEdits.want
      /\ rebac(fewer, relationGrants, ReadsFromOutside.req) = ReadsFromOutside.want
  BY <1>1 DEF rebac, relationGrants,
              OwnerEdits, EditorEditsOther, ViewerReads, ViewerEdits, ReadsFromOutside
<1>3. RebacMismatch(fewer, relationGrants) = {}
  BY <1>2 DEF RebacMismatch, cases
<1> QED
  BY <1>3 DEF fewer

=============================================================================
