------------------------- MODULE SingleLogoutProofs -------------------------
(***************************************************************************)
(* Theorems of SingleLogout, for any relying parties, browsers and ids.    *)
(*                                                                         *)
(* InductiveInv is proved conjunct by conjunct: a lemma shows that every   *)
(* step preserves one of them, given those it rests on.                    *)
(***************************************************************************)
EXTENDS SingleLogout, TLAPS

-----------------------------------------------------------------------------
(* The strengthening that makes the invariants of SingleLogout inductive.  *)

\* A handler that works for a login has that login's code; one that needs an
\* ID token holds it.
TasksWellFormed ==
  \A t \in tasks :
    /\ t.state # NoState => flow[t.state] # NoFlow /\ flow[t.state].sid # NoSid
    /\ t.step \in {"exchange", "commit"} => t.kind = "callback"
    /\ t.step = "exchange" => t.state # NoState
    /\ t.step = "commit" => t.hint # NoSid
    /\ t.kind = "rpinit" /\ t.step \in {"drop", "reply"} => t.hint # NoSid

\* A live session was created under the sid it carries, so an id never drawn
\* before is nobody's.
BornAsFiled ==
  \A p \in RPs, id \in Ids : Live(p, id) => born[p][id] = {sess[p][id].sid}

\* What an RP has been told about and still has in its index came in late.
IndexedAfterNoticeIsLate ==
  \A p \in RPs, sid \in Sids :
    bySID[p][sid] # NoId /\ <<p, sid>> \in told => <<p, bySID[p][sid]>> \in late

\* The inductive invariant.
InductiveInv ==
  /\ TypeOK
  /\ TasksWellFormed
  /\ StateSpentOnce
  /\ BornAsFiled
  /\ IndexSound
  /\ IndexedAfterNoticeIsLate
  /\ LostOnlyToSibling

-----------------------------------------------------------------------------
(* Type correctness.                                                       *)

\* The steps of a handler preserve the types.
LEMMA HandlerType ==
  ASSUME TypeOK, TasksWellFormed, NEW t \in tasks, Handler(t)
  PROVE  TypeOK'
<1> USE NullAssumption, NullRecordAssumption DEF TypeOK, MaybeId, MaybeSid
<1>0. t \in Task
  OBVIOUS
<1>1. CASE ExchangeCode(t)
  <2>1. t.state \in States /\ flow[t.state] \in Flow /\ flow[t.state].sid \in Sids
    BY <1>0, <1>1 DEF ExchangeCode, TasksWellFormed, Task, Flow
  <2>2. [t EXCEPT !.step = "commit", !.hint = flow[t.state].sid] \in Task
    BY <1>0, <2>1 DEF Task
  <2>3. tasks' \subseteq Task
    BY <1>1, <2>2 DEF ExchangeCode, Become
  <2>4. [flow[t.state] EXCEPT !.redeemed = TRUE] \in Flow
    BY <2>1 DEF Flow
  <2>5. flow' \in [States -> Flow \cup {NoFlow}]
    BY <1>1, <2>1, <2>4 DEF ExchangeCode
  <2> QED
    BY <1>1, <2>3, <2>5 DEF ExchangeCode, rpVars, history
<1>2. CASE CallbackFails(t)
  BY <1>2 DEF CallbackFails, Finish, rpVars, idpVars, history
<1>3. CASE \E id \in Ids, claim \in MaybeSid : CommitLogin(t, id, claim)
  <2>1. PICK id \in Ids, claim \in MaybeSid : CommitLogin(t, id, claim)
    BY <1>3
  <2>2. t.hint \in Sids /\ t.rp \in RPs
    BY <1>0, <2>1 DEF CommitLogin, TasksWellFormed, Task
  <2>3. tasks' \subseteq Task
    <3>1. [t EXCEPT !.step = "reply", !.id = id] \in Task
      BY <1>0 DEF Task
    <3> QED
      BY <2>1, <3>1 DEF CommitLogin, Become
  <2>4. sess' \in [RPs -> [Ids -> Session \cup {NoSession}]]
    BY <2>1, <2>2 DEF CommitLogin, Session
  <2>5. bySID' \in [RPs -> [Sids -> MaybeId]]
    BY <2>1, <2>2 DEF CommitLogin
  <2>6. born' \in [RPs -> [Ids -> SUBSET MaybeSid]] /\ late' \subseteq RPs \X Ids
    BY <2>1, <2>2 DEF CommitLogin
  <2> QED
    BY <2>1, <2>3, <2>4, <2>5, <2>6 DEF CommitLogin, idpVars
<1>4. CASE FindSession(t)
  <2>1. tasks' \subseteq Task
    <3>1. CASE t.id # NoId /\ Live(t.rp, t.id)
      <4>1. sess[t.rp][t.id].hint \in Sids
        BY <1>0, <3>1 DEF Live, Task, Session
      <4>2. [t EXCEPT !.step = "drop", !.hint = sess[t.rp][t.id].hint] \in Task
        BY <1>0, <4>1 DEF Task
      <4> QED
        BY <1>4, <3>1, <4>2 DEF FindSession, Become
    <3>2. CASE ~(t.id # NoId /\ Live(t.rp, t.id))
      BY <1>4, <3>2 DEF FindSession, Finish
    <3> QED
      BY <3>1, <3>2
  <2> QED
    BY <1>4, <2>1 DEF FindSession, rpVars, idpVars, history
<1>5. CASE DropSession(t)
  <2>1. t.rp \in RPs /\ t.id \in MaybeId
    BY <1>0 DEF Task
  <2>2. tasks' \subseteq Task
    <3>1. [t EXCEPT !.step = "reply", !.id = NoId] \in Task
      BY <1>0 DEF Task
    <3> QED
      BY <1>5, <3>1 DEF DropSession, Become
  <2>3. sess' \in [RPs -> [Ids -> Session \cup {NoSession}]]
    BY <1>5, <2>1 DEF DropSession
  <2>4. bySID' \in [RPs -> [Sids -> MaybeId]]
    BY <1>5, <2>1 DEF DropSession, Unindex
  <2> QED
    BY <1>5, <2>2, <2>3, <2>4 DEF DropSession, idpVars, history
<1>6. CASE Reply(t)
  <2>1. t.by \in Browsers /\ t.rp \in RPs /\ t.id \in MaybeId
    BY <1>0 DEF Task
  <2>2. tasks' \subseteq Task
    BY <1>6 DEF Reply, Finish
  <2>3. jar' \in [Browsers -> [RPs -> MaybeId]]
    BY <1>6, <2>1 DEF Reply
  <2>4. endReqs' \subseteq EndRequest
    <3>1. CASE t.kind = "rpinit"
      <4>1. [sid |-> t.hint, from |-> t.rp] \in EndRequest
        BY <1>0, <1>6, <3>1 DEF Reply, EndRequest, Task, TasksWellFormed
      <4> QED
        BY <1>6, <3>1, <4>1 DEF Reply
    <3>2. CASE t.kind # "rpinit"
      BY <1>6, <3>2 DEF Reply
    <3> QED
      BY <3>1, <3>2
  <2> QED
    BY <1>6, <2>2, <2>3, <2>4 DEF Reply, rpVars, history
<1> QED
  BY <1>1, <1>2, <1>3, <1>4, <1>5, <1>6 DEF Handler

\* Every step preserves the types.
LEMMA TypeStep ==
  TypeOK /\ TasksWellFormed /\ [Next]_vars => TypeOK'
<1> SUFFICES ASSUME TypeOK, TasksWellFormed, [Next]_vars PROVE TypeOK'
  OBVIOUS
<1> USE NullAssumption, NullRecordAssumption DEF TypeOK, MaybeId, MaybeSid
<1>1. ASSUME NEW p \in RPs, NEW b \in Browsers, NEW s \in States, Login(p, b, s)
      PROVE  TypeOK'
  BY <1>1 DEF Login, Flow, history
<1>2. ASSUME NEW s \in States, NEW sid \in Sids, Authorize(s, sid)
      PROVE  TypeOK'
  <2>1. flow[s] \in Flow /\ flow[s].by \in Browsers /\ flow[s].rp \in RPs
    BY <1>2 DEF Authorize, Flow
  <2>2. [flow[s] EXCEPT !.sid = sid] \in Flow
    BY <2>1 DEF Flow
  <2>3. flow' \in [States -> Flow \cup {NoFlow}]
    BY <1>2, <2>2 DEF Authorize
  <2>4. sso' \in [Browsers -> MaybeSid] /\ joined' \in [Sids -> SUBSET RPs]
    BY <1>2, <2>1 DEF Authorize
  <2> QED
    BY <1>2, <2>3, <2>4 DEF Authorize, rpVars, history
<1>3. ASSUME NEW s \in States, TakePending(s)
      PROVE  TypeOK'
  BY <1>3 DEF TakePending, Start, Flow, Task, idpVars, history
<1>4. ASSUME NEW p \in RPs, NEW b \in Browsers, NEW kind \in {"local", "rpinit"},
             AskLogout(p, b, kind)
      PROVE  TypeOK'
  BY <1>4 DEF AskLogout, Start, Task, rpVars, idpVars, history
<1>5. ASSUME NEW t \in tasks, Handler(t)
      PROVE  TypeOK'
  BY <1>5, HandlerType
<1>6. ASSUME NEW e \in endReqs, EndSession(e)
      PROVE  TypeOK'
  <2>1. e \in EndRequest
    OBVIOUS
  <2> QED
    BY <1>6, <2>1 DEF EndSession, End, EndRequest, rpVars, history
<1>7. ASSUME NEW sid \in Sids, EndAtIdP(sid)
      PROVE  TypeOK'
  BY <1>7 DEF EndAtIdP, End, rpVars, history
<1>8. ASSUME NEW p \in RPs, NEW sid \in Sids, BackchannelLogout(p, sid)
      PROVE  TypeOK'
  <2>1. sess' \in [RPs -> [Ids -> Session \cup {NoSession}]]
    BY <1>8 DEF BackchannelLogout
  <2>2. bySID' \in [RPs -> [Sids -> MaybeId]]
    BY <1>8 DEF BackchannelLogout
  <2>3. told' \subseteq RPs \X Sids /\ notices' \subseteq RPs \X Sids
    BY <1>8 DEF BackchannelLogout
  <2> QED
    BY <1>8, <2>1, <2>2, <2>3 DEF BackchannelLogout
<1>9. ASSUME NEW p \in RPs, NEW sid \in Sids, BackchannelRefused(p, sid)
      PROVE  TypeOK'
  BY <1>9 DEF BackchannelRefused, rpVars, history
<1>10. ASSUME NEW p \in RPs, NEW b \in Browsers, CookieExpires(p, b)
       PROVE  TypeOK'
  BY <1>10 DEF CookieExpires, rpVars, idpVars, history
<1>11. CASE UNCHANGED vars
  BY <1>11 DEF vars
<1> QED
  BY <1>1, <1>2, <1>3, <1>4, <1>5, <1>6, <1>7, <1>8, <1>9, <1>10, <1>11 DEF Next

-----------------------------------------------------------------------------
(* The session table and its index.                                        *)

\* Only three steps write the session table, its index or their history.
LEMMA IndexWriters ==
  ASSUME [Next]_vars
  PROVE  \/ \E t \in tasks, id \in Ids, claim \in MaybeSid :
              CommitLogin(t, id, claim)
         \/ \E t \in tasks : DropSession(t)
         \/ \E p \in RPs, sid \in Sids : BackchannelLogout(p, sid)
         \/ UNCHANGED <<sess, bySID, born, late, told>>
<1> USE DEF rpVars, idpVars, history
<1>1. ASSUME NEW t \in tasks, Handler(t),
             ~\E id \in Ids, claim \in MaybeSid : CommitLogin(t, id, claim),
             ~DropSession(t)
      PROVE  UNCHANGED <<sess, bySID, born, late, told>>
  BY <1>1 DEF Handler, ExchangeCode, CallbackFails, FindSession, Reply
<1>2. ASSUME NEW p \in RPs, NEW b \in Browsers, NEW s \in States, Login(p, b, s)
      PROVE  UNCHANGED <<sess, bySID, born, late, told>>
  BY <1>2 DEF Login
<1>3. ASSUME NEW s \in States, NEW sid \in Sids, Authorize(s, sid)
      PROVE  UNCHANGED <<sess, bySID, born, late, told>>
  BY <1>3 DEF Authorize
<1>4. ASSUME NEW s \in States, TakePending(s)
      PROVE  UNCHANGED <<sess, bySID, born, late, told>>
  BY <1>4 DEF TakePending
<1>5. ASSUME NEW p \in RPs, NEW b \in Browsers, NEW kind \in {"local", "rpinit"},
             AskLogout(p, b, kind)
      PROVE  UNCHANGED <<sess, bySID, born, late, told>>
  BY <1>5 DEF AskLogout
<1>6. ASSUME NEW e \in endReqs, EndSession(e)
      PROVE  UNCHANGED <<sess, bySID, born, late, told>>
  BY <1>6 DEF EndSession
<1>7. ASSUME NEW sid \in Sids, EndAtIdP(sid)
      PROVE  UNCHANGED <<sess, bySID, born, late, told>>
  BY <1>7 DEF EndAtIdP
<1>8. ASSUME NEW p \in RPs, NEW sid \in Sids, BackchannelRefused(p, sid)
      PROVE  UNCHANGED <<sess, bySID, born, late, told>>
  BY <1>8 DEF BackchannelRefused
<1>9. ASSUME NEW p \in RPs, NEW b \in Browsers, CookieExpires(p, b)
      PROVE  UNCHANGED <<sess, bySID, born, late, told>>
  BY <1>9 DEF CookieExpires
<1>10. CASE UNCHANGED vars
  BY <1>10 DEF vars
<1> QED
  BY <1>1, <1>2, <1>3, <1>4, <1>5, <1>6, <1>7, <1>8, <1>9, <1>10 DEF Next

\* The session CommitLogin stores and the record of its creation.
LEMMA CommitNew ==
  ASSUME TypeOK, TasksWellFormed, NEW t \in tasks, NEW id \in Ids,
         NEW claim \in MaybeSid, CommitLogin(t, id, claim)
  PROVE  /\ sess'[t.rp][id] # NoSession
         /\ sess'[t.rp][id].sid = claim
         /\ born'[t.rp][id] = {claim}
         /\ born[t.rp][id] = {}
<1>1. t.rp \in RPs /\ t.hint \in Sids
  BY DEF CommitLogin, TasksWellFormed, Task, TypeOK, MaybeSid
<1>2. [sid |-> claim, hint |-> t.hint] \in Session
  BY <1>1 DEF Session
<1> QED
  BY <1>1, <1>2, NullRecordAssumption DEF CommitLogin, TypeOK

\* CommitLogin leaves the other sessions as they are.
LEMMA CommitOthers ==
  ASSUME TypeOK, NEW t \in tasks, NEW id \in Ids, NEW claim \in MaybeSid,
         CommitLogin(t, id, claim), NEW p \in RPs, NEW i \in Ids,
         ~(p = t.rp /\ i = id)
  PROVE  sess'[p][i] = sess[p][i] /\ born'[p][i] = born[p][i]
<1>1. t.rp \in RPs
  BY DEF TypeOK, Task
<1> QED
  BY <1>1 DEF CommitLogin, TypeOK

\* What CommitLogin does to an index entry.
LEMMA CommitEntry ==
  ASSUME TypeOK, NEW t \in tasks, NEW id \in Ids, NEW claim \in MaybeSid,
         CommitLogin(t, id, claim), NEW p \in RPs, NEW sid \in Sids
  PROVE  bySID'[p][sid] = IF p = t.rp /\ sid = claim THEN id ELSE bySID[p][sid]
<1>1. t.rp \in RPs
  BY DEF TypeOK, Task
<1> QED
  BY <1>1, NullAssumption DEF CommitLogin, TypeOK, MaybeId, MaybeSid

\* What DropSession does to a session: the task's own one goes.
LEMMA DropSess ==
  ASSUME TypeOK, NEW t \in tasks, DropSession(t), NEW p \in RPs, NEW i \in Ids
  PROVE  sess'[p][i] = IF p = t.rp /\ i = t.id THEN NoSession ELSE sess[p][i]
<1>1. t.rp \in RPs /\ t.id \in MaybeId
  BY DEF TypeOK, Task
<1> QED
  BY <1>1, NullAssumption DEF DropSession, TypeOK, MaybeId

\* What DropSession does to an index entry: the one of its session's sid goes.
LEMMA DropEntry ==
  ASSUME TypeOK, NEW t \in tasks, DropSession(t), NEW p \in RPs, NEW sid \in Sids
  PROVE  bySID'[p][sid] =
           IF /\ p = t.rp /\ t.id # NoId
              /\ sess[p][t.id] # NoSession /\ sess[p][t.id].sid = sid
             THEN NoId ELSE bySID[p][sid]
<1> USE NullAssumption DEF TypeOK, MaybeId, MaybeSid
<1>1. t.rp \in RPs /\ t.id \in MaybeId
  BY DEF Task
<1>2. CASE t.id # NoId /\ Live(t.rp, t.id) /\ sess[t.rp][t.id].sid # NoSid
  BY <1>1, <1>2 DEF DropSession, Unindex, Live
<1>3. CASE ~(t.id # NoId /\ Live(t.rp, t.id) /\ sess[t.rp][t.id].sid # NoSid)
  BY <1>1, <1>3 DEF DropSession, Unindex, Live
<1> QED
  BY <1>2, <1>3

\* What BackchannelLogout does to a session: the one its entry names goes.
LEMMA BackchannelSess ==
  ASSUME TypeOK, NEW q \in RPs, NEW k \in Sids, BackchannelLogout(q, k),
         NEW p \in RPs, NEW i \in Ids
  PROVE  sess'[p][i] = IF p = q /\ i = bySID[q][k] THEN NoSession ELSE sess[p][i]
<1>1. bySID[q][k] \in MaybeId
  BY DEF TypeOK
<1> QED
  BY <1>1, NullAssumption DEF BackchannelLogout, TypeOK, MaybeId

\* What BackchannelLogout does to an index entry: the one of its sid goes.
LEMMA BackchannelEntry ==
  ASSUME TypeOK, NEW q \in RPs, NEW k \in Sids, BackchannelLogout(q, k),
         NEW p \in RPs, NEW sid \in Sids
  PROVE  bySID'[p][sid] = IF p = q /\ sid = k THEN NoId ELSE bySID[p][sid]
BY DEF BackchannelLogout, TypeOK, MaybeId

\* Every step keeps live sessions filed as they were created.
LEMMA BornStep ==
  TypeOK /\ TasksWellFormed /\ BornAsFiled /\ [Next]_vars => BornAsFiled'
<1> SUFFICES ASSUME TypeOK, TasksWellFormed, BornAsFiled, [Next]_vars,
                    NEW p \in RPs, NEW i \in Ids, sess'[p][i] # NoSession
             PROVE  born'[p][i] = {sess'[p][i].sid}
  BY DEF BornAsFiled, Live
<1>0. sess[p][i] # NoSession => born[p][i] = {sess[p][i].sid}
  BY DEF BornAsFiled, Live
<1>1. ASSUME NEW t \in tasks, NEW id \in Ids, NEW claim \in MaybeSid,
             CommitLogin(t, id, claim)
      PROVE  born'[p][i] = {sess'[p][i].sid}
  <2>1. CASE p = t.rp /\ i = id
    BY <1>1, <2>1, CommitNew
  <2>2. CASE ~(p = t.rp /\ i = id)
    <3>1. sess'[p][i] = sess[p][i] /\ born'[p][i] = born[p][i]
      BY <1>1, <2>2, CommitOthers
    <3> QED
      BY <1>0, <3>1
  <2> QED
    BY <2>1, <2>2
<1>2. ASSUME NEW t \in tasks, DropSession(t)
      PROVE  born'[p][i] = {sess'[p][i].sid}
  <2>1. sess'[p][i] = sess[p][i]
    BY <1>2, DropSess
  <2> QED
    BY <1>0, <1>2, <2>1 DEF DropSession, history
<1>3. ASSUME NEW q \in RPs, NEW k \in Sids, BackchannelLogout(q, k)
      PROVE  born'[p][i] = {sess'[p][i].sid}
  <2>1. sess'[p][i] = sess[p][i]
    BY <1>3, BackchannelSess
  <2> QED
    BY <1>0, <1>3, <2>1 DEF BackchannelLogout
<1>4. CASE UNCHANGED <<sess, bySID, born, late, told>>
  BY <1>0, <1>4
<1> QED
  BY <1>1, <1>2, <1>3, <1>4, IndexWriters

\* Every step keeps the index sound: a new session overwrites at most the
\* entry of its own sid, and whoever removes a session removes its entry.
LEMMA IndexStep ==
  TypeOK /\ TasksWellFormed /\ BornAsFiled /\ IndexSound /\ [Next]_vars
    => IndexSound'
<1> SUFFICES ASSUME TypeOK, TasksWellFormed, BornAsFiled, IndexSound, [Next]_vars
             PROVE  IndexSound'
  OBVIOUS
<1>0. TypeOK'
  BY TypeStep
<1>1. SUFFICES ASSUME NEW p \in RPs, NEW sid \in Sids, NEW i \in Ids,
                      bySID'[p][sid] = i
               PROVE  sess'[p][i] # NoSession /\ sess'[p][i].sid = sid
  <2>1. ASSUME NEW p \in RPs, NEW sid \in Sids, bySID'[p][sid] # NoId
        PROVE  bySID'[p][sid] \in Ids
    BY <1>0, <2>1 DEF TypeOK, MaybeId
  <2> QED
    BY <1>1, <2>1 DEF IndexSound, Live
<1>2. ASSUME bySID[p][sid] = i
      PROVE  sess[p][i] # NoSession /\ sess[p][i].sid = sid
  BY <1>2, NullAssumption DEF IndexSound, Live
<1>3. ASSUME NEW t \in tasks, NEW id \in Ids, NEW claim \in MaybeSid,
             CommitLogin(t, id, claim)
      PROVE  sess'[p][i] # NoSession /\ sess'[p][i].sid = sid
  <2>1. bySID'[p][sid] = IF p = t.rp /\ sid = claim THEN id ELSE bySID[p][sid]
    BY <1>3, CommitEntry
  <2>2. /\ sess'[t.rp][id] # NoSession
        /\ sess'[t.rp][id].sid = claim
        /\ born[t.rp][id] = {}
    BY <1>3, CommitNew
  <2>3. CASE p = t.rp /\ sid = claim
    BY <1>1, <2>1, <2>2, <2>3
  <2>4. CASE ~(p = t.rp /\ sid = claim)
    <3>1. sess[p][i] # NoSession /\ sess[p][i].sid = sid
      BY <1>1, <1>2, <2>1, <2>4
    <3>2. ~(p = t.rp /\ i = id)
      BY <2>2, <3>1 DEF BornAsFiled, Live
    <3>3. sess'[p][i] = sess[p][i]
      BY <1>3, <3>2, CommitOthers
    <3> QED
      BY <3>1, <3>3
  <2> QED
    BY <2>3, <2>4
<1>4. ASSUME NEW t \in tasks, DropSession(t)
      PROVE  sess'[p][i] # NoSession /\ sess'[p][i].sid = sid
  <2>1. bySID'[p][sid] =
          IF /\ p = t.rp /\ t.id # NoId
             /\ sess[p][t.id] # NoSession /\ sess[p][t.id].sid = sid
            THEN NoId ELSE bySID[p][sid]
    BY <1>4, DropEntry
  <2>2. bySID[p][sid] = i
    BY <1>1, <2>1, NullAssumption
  <2>3. sess[p][i] # NoSession /\ sess[p][i].sid = sid
    BY <1>2, <2>2
  <2>4. ~(p = t.rp /\ i = t.id)
    BY <1>1, <2>1, <2>3, NullAssumption
  <2>5. sess'[p][i] = IF p = t.rp /\ i = t.id THEN NoSession ELSE sess[p][i]
    BY <1>4, DropSess
  <2> QED
    BY <2>3, <2>4, <2>5
<1>5. ASSUME NEW q \in RPs, NEW k \in Sids, BackchannelLogout(q, k)
      PROVE  sess'[p][i] # NoSession /\ sess'[p][i].sid = sid
  <2>1. bySID'[p][sid] = IF p = q /\ sid = k THEN NoId ELSE bySID[p][sid]
    BY <1>5, BackchannelEntry
  <2>2. bySID[p][sid] = i /\ ~(p = q /\ sid = k)
    BY <1>1, <2>1, NullAssumption
  <2>3. sess[p][i] # NoSession /\ sess[p][i].sid = sid
    BY <1>2, <2>2
  <2>4. ~(p = q /\ i = bySID[q][k])
    BY <2>2, <2>3, NullAssumption DEF IndexSound
  <2>5. sess'[p][i] = IF p = q /\ i = bySID[q][k] THEN NoSession ELSE sess[p][i]
    BY <1>5, BackchannelSess
  <2> QED
    BY <2>3, <2>4, <2>5
<1>6. CASE UNCHANGED <<sess, bySID, born, late, told>>
  BY <1>1, <1>2, <1>6
<1> QED
  BY <1>3, <1>4, <1>5, <1>6, IndexWriters

\* Every step keeps the entries of IdP sessions already given notice of to
\* sessions stored after that notice.
LEMMA LateStep ==
  TypeOK /\ IndexedAfterNoticeIsLate /\ [Next]_vars => IndexedAfterNoticeIsLate'
<1> SUFFICES ASSUME TypeOK, IndexedAfterNoticeIsLate, [Next]_vars,
                    NEW p \in RPs, NEW sid \in Sids,
                    bySID'[p][sid] # NoId, <<p, sid>> \in told'
             PROVE  <<p, bySID'[p][sid]>> \in late'
  BY DEF IndexedAfterNoticeIsLate
<1>0. ASSUME bySID[p][sid] # NoId, <<p, sid>> \in told
      PROVE  <<p, bySID[p][sid]>> \in late
  BY <1>0 DEF IndexedAfterNoticeIsLate
<1>1. ASSUME NEW t \in tasks, NEW id \in Ids, NEW claim \in MaybeSid,
             CommitLogin(t, id, claim)
      PROVE  <<p, bySID'[p][sid]>> \in late'
  <2>1. bySID'[p][sid] = IF p = t.rp /\ sid = claim THEN id ELSE bySID[p][sid]
    BY <1>1, CommitEntry
  <2>2. told' = told /\ late \subseteq late'
    BY <1>1 DEF CommitLogin
  <2>3. CASE p = t.rp /\ sid = claim
    BY <1>1, <2>1, <2>2, <2>3 DEF CommitLogin
  <2>4. CASE ~(p = t.rp /\ sid = claim)
    BY <1>0, <2>1, <2>2, <2>4
  <2> QED
    BY <2>3, <2>4
<1>2. ASSUME NEW t \in tasks, DropSession(t)
      PROVE  <<p, bySID'[p][sid]>> \in late'
  <2>1. bySID'[p][sid] = bySID[p][sid]
    BY <1>2, DropEntry
  <2>2. UNCHANGED <<late, told>>
    BY <1>2 DEF DropSession, history
  <2> QED
    BY <1>0, <2>1, <2>2
<1>3. ASSUME NEW q \in RPs, NEW k \in Sids, BackchannelLogout(q, k)
      PROVE  <<p, bySID'[p][sid]>> \in late'
  <2>1. bySID'[p][sid] = bySID[p][sid] /\ ~(p = q /\ sid = k)
    BY <1>3, BackchannelEntry
  <2>2. late' = late /\ told' = told \cup {<<q, k>>}
    BY <1>3 DEF BackchannelLogout
  <2> QED
    BY <1>0, <2>1, <2>2
<1>4. CASE UNCHANGED <<sess, bySID, born, late, told>>
  BY <1>0, <1>4
<1> QED
  BY <1>1, <1>2, <1>3, <1>4, IndexWriters

\* Every step that takes a session out of the index either ends that session
\* or is the doing of another login filed under the same sid.
LEMMA SiblingStep ==
  TypeOK /\ TasksWellFormed /\ BornAsFiled /\ IndexSound /\ LostOnlyToSibling
    /\ [Next]_vars => LostOnlyToSibling'
<1> SUFFICES ASSUME TypeOK, TasksWellFormed, BornAsFiled, IndexSound,
                    LostOnlyToSibling, [Next]_vars
             PROVE  LostOnlyToSibling'
  OBVIOUS
<1>0. TypeOK'
  BY TypeStep
<1>1. SUFFICES ASSUME NEW p \in RPs, NEW i \in Ids, NEW sid \in Sids,
                      sess'[p][i] # NoSession, sess'[p][i].sid = sid,
                      bySID'[p][sid] # i
               PROVE  \E other \in Ids \ {i} : born'[p][other] = {sid}
  <2>1. ASSUME NEW p \in RPs, NEW i \in Ids, sess'[p][i] # NoSession,
               sess'[p][i].sid # NoSid
        PROVE  sess'[p][i].sid \in Sids
    <3>1. sess'[p][i] \in Session
      BY <1>0, <2>1 DEF TypeOK
    <3> QED
      BY <2>1, <3>1 DEF Session, MaybeSid
  <2> QED
    <3>1. ASSUME NEW p \in RPs, NEW i \in Ids, sess'[p][i] # NoSession,
                 sess'[p][i].sid # NoSid, bySID'[p][sess'[p][i].sid] # i
          PROVE  \E other \in Ids \ {i} : born'[p][other] = {sess'[p][i].sid}
      BY <1>1, <2>1, <3>1
    <3> QED
      BY <3>1 DEF LostOnlyToSibling, HasSibling, Live
<1>2. ASSUME sess[p][i] # NoSession, sess[p][i].sid = sid, bySID[p][sid] # i
      PROVE  \E other \in Ids \ {i} : born[p][other] = {sid}
  BY <1>2, NullAssumption DEF LostOnlyToSibling, HasSibling, Live
<1>3. ASSUME NEW t \in tasks, NEW id \in Ids, NEW claim \in MaybeSid,
             CommitLogin(t, id, claim)
      PROVE  \E other \in Ids \ {i} : born'[p][other] = {sid}
  <2>1. bySID'[p][sid] = IF p = t.rp /\ sid = claim THEN id ELSE bySID[p][sid]
    BY <1>3, CommitEntry
  <2>2. sess'[t.rp][id].sid = claim /\ born'[t.rp][id] = {claim} /\ born[t.rp][id] = {}
    BY <1>3, CommitNew
  <2>3. ~(p = t.rp /\ i = id)
    BY <1>1, <2>1, <2>2
  <2>4. sess'[p][i] = sess[p][i]
    BY <1>3, <2>3, CommitOthers
  <2>5. CASE p = t.rp /\ sid = claim
    BY <2>2, <2>3, <2>5
  <2>6. CASE ~(p = t.rp /\ sid = claim)
    <3>1. PICK other \in Ids \ {i} : born[p][other] = {sid}
      BY <1>1, <1>2, <2>1, <2>4, <2>6
    <3>2. ~(p = t.rp /\ other = id)
      BY <2>2, <3>1
    <3>3. born'[p][other] = born[p][other]
      BY <1>3, <3>2, CommitOthers
    <3> QED
      BY <3>1, <3>3
  <2> QED
    BY <2>5, <2>6
<1>4. ASSUME NEW t \in tasks, DropSession(t)
      PROVE  \E other \in Ids \ {i} : born'[p][other] = {sid}
  <2>1. sess'[p][i] = sess[p][i] /\ ~(p = t.rp /\ i = t.id)
    BY <1>1, <1>4, DropSess
  <2>2. born' = born
    BY <1>4 DEF DropSession, history
  <2>3. CASE bySID[p][sid] # i
    BY <1>1, <1>2, <2>1, <2>2, <2>3
  <2>4. CASE bySID[p][sid] = i
    <3>1. /\ p = t.rp /\ t.id # NoId
          /\ sess[p][t.id] # NoSession /\ sess[p][t.id].sid = sid
      BY <1>1, <1>4, <2>4, DropEntry
    <3>2. t.id \in Ids
      BY <3>1 DEF TypeOK, Task, MaybeId
    <3>3. born[p][t.id] = {sid}
      BY <3>1, <3>2 DEF BornAsFiled, Live
    <3> QED
      BY <2>1, <2>2, <3>1, <3>2, <3>3
  <2> QED
    BY <2>3, <2>4
<1>5. ASSUME NEW q \in RPs, NEW k \in Sids, BackchannelLogout(q, k)
      PROVE  \E other \in Ids \ {i} : born'[p][other] = {sid}
  <2>1. sess'[p][i] = sess[p][i] /\ ~(p = q /\ i = bySID[q][k])
    BY <1>1, <1>5, BackchannelSess
  <2>2. born' = born
    BY <1>5 DEF BackchannelLogout
  <2>3. bySID[p][sid] # i
    BY <1>1, <1>5, <2>1, BackchannelEntry
  <2> QED
    BY <1>1, <1>2, <2>1, <2>2, <2>3
<1>6. CASE UNCHANGED <<sess, bySID, born, late, told>>
  BY <1>1, <1>2, <1>6
<1> QED
  BY <1>3, <1>4, <1>5, <1>6, IndexWriters

-----------------------------------------------------------------------------
(* Handlers and the logins they work for.                                  *)

\* Every step keeps handlers supplied with what they need.
LEMMA TasksStep ==
  TypeOK /\ TasksWellFormed /\ [Next]_vars => TasksWellFormed'
<1> SUFFICES ASSUME TypeOK, TasksWellFormed, [Next]_vars PROVE TasksWellFormed'
  OBVIOUS
<1> USE NullAssumption, NullRecordAssumption DEF TasksWellFormed
<1>1. ASSUME NEW p \in RPs, NEW b \in Browsers, NEW s \in States, Login(p, b, s)
      PROVE  TasksWellFormed'
  BY <1>1 DEF Login, TypeOK, Task
<1>2. ASSUME NEW s \in States, NEW sid \in Sids, Authorize(s, sid)
      PROVE  TasksWellFormed'
  BY <1>2 DEF Authorize, TypeOK, Task, Flow
<1>3. ASSUME NEW s \in States, TakePending(s)
      PROVE  TasksWellFormed'
  BY <1>3 DEF TakePending, Start, idpVars
<1>4. ASSUME NEW p \in RPs, NEW b \in Browsers, NEW kind \in {"local", "rpinit"},
             AskLogout(p, b, kind)
      PROVE  TasksWellFormed'
  BY <1>4 DEF AskLogout, Start, idpVars
<1>5. ASSUME NEW t \in tasks, ExchangeCode(t)
      PROVE  TasksWellFormed'
  <2>1. t.state \in States /\ flow[t.state] \in Flow /\ flow[t.state].sid # NoSid
    BY <1>5 DEF ExchangeCode, TypeOK, Task
  <2>2. [flow[t.state] EXCEPT !.redeemed = TRUE] \in Flow
    BY <2>1 DEF Flow
  <2>3. \A s \in States : flow[s] # NoFlow /\ flow[s].sid # NoSid
                            => flow'[s] # NoFlow /\ flow'[s].sid # NoSid
    BY <1>5, <2>1, <2>2 DEF ExchangeCode, TypeOK, Flow
  <2>4. ASSUME NEW u \in tasks
        PROVE  u.state # NoState => flow'[u.state] # NoFlow /\ flow'[u.state].sid # NoSid
    BY <2>3 DEF TypeOK, Task
  <2>5. tasks' = (tasks \ {t})
                   \cup {[t EXCEPT !.step = "commit", !.hint = flow[t.state].sid]}
    BY <1>5 DEF ExchangeCode, Become
  <2> QED
    BY <1>5, <2>1, <2>4, <2>5 DEF ExchangeCode, TypeOK, Task
<1>6. ASSUME NEW t \in tasks, CallbackFails(t) \/ Reply(t)
      PROVE  TasksWellFormed'
  BY <1>6 DEF CallbackFails, Reply, Finish, idpVars
<1>7. ASSUME NEW t \in tasks, NEW id \in Ids, NEW claim \in MaybeSid,
             CommitLogin(t, id, claim)
      PROVE  TasksWellFormed'
  BY <1>7 DEF CommitLogin, Become, TypeOK, Task, idpVars
<1>8. ASSUME NEW t \in tasks, FindSession(t)
      PROVE  TasksWellFormed'
  <2>1. flow' = flow
    BY <1>8 DEF FindSession, idpVars
  <2>2. CASE t.id # NoId /\ Live(t.rp, t.id)
    <3>1. sess[t.rp][t.id].hint # NoSid
      BY <2>2 DEF TypeOK, Live, Task, Session, MaybeId
    <3>2. tasks' = (tasks \ {t})
                     \cup {[t EXCEPT !.step = "drop", !.hint = sess[t.rp][t.id].hint]}
      BY <1>8, <2>2 DEF FindSession, Become
    <3> QED
      BY <2>1, <3>1, <3>2 DEF TypeOK, Task
  <2>3. CASE ~(t.id # NoId /\ Live(t.rp, t.id))
    BY <1>8, <2>1, <2>3 DEF FindSession, Finish
  <2> QED
    BY <2>2, <2>3
<1>9. ASSUME NEW t \in tasks, DropSession(t)
      PROVE  TasksWellFormed'
  BY <1>9 DEF DropSession, Become, TypeOK, Task, idpVars
<1>10. ASSUME tasks' = tasks, flow' = flow
       PROVE  TasksWellFormed'
  BY <1>10
<1>11. ASSUME \/ \E e \in endReqs : EndSession(e)
              \/ \E sid \in Sids : EndAtIdP(sid)
              \/ \E p \in RPs, sid \in Sids : BackchannelLogout(p, sid)
              \/ \E p \in RPs, sid \in Sids : BackchannelRefused(p, sid)
              \/ \E p \in RPs, b \in Browsers : CookieExpires(p, b)
              \/ UNCHANGED vars
       PROVE  tasks' = tasks /\ flow' = flow
  BY <1>11 DEF EndSession, EndAtIdP, BackchannelLogout, BackchannelRefused,
               CookieExpires, idpVars, vars
<1> QED
  BY <1>1, <1>2, <1>3, <1>4, <1>5, <1>6, <1>7, <1>8, <1>9, <1>10, <1>11
  DEF Next, Handler

\* Every step keeps states spent once: the pending entry goes in the step that
\* starts the handler, and no handler changes its state.
LEMMA StateStep ==
  TypeOK /\ TasksWellFormed /\ StateSpentOnce /\ [Next]_vars => StateSpentOnce'
<1> SUFFICES ASSUME TypeOK, TasksWellFormed, StateSpentOnce, [Next]_vars
             PROVE  StateSpentOnce'
  OBVIOUS
<1> USE NullAssumption, NullRecordAssumption DEF StateSpentOnce
<1>1. ASSUME NEW p \in RPs, NEW b \in Browsers, NEW s \in States, Login(p, b, s)
      PROVE  StateSpentOnce'
  <2>1. \A t \in tasks : t.state # s
    BY <1>1 DEF Login, TasksWellFormed
  <2>2. \A q \in RPs : s \notin pend[q]
    BY <1>1 DEF Login
  <2>3. flow'[s] # NoFlow /\ flow'[s].rp = p /\ ~flow'[s].redeemed
    <3>1. [rp |-> p, by |-> b, sid |-> NoSid, redeemed |-> FALSE] \in Flow
      BY DEF Flow, MaybeSid
    <3> QED
      BY <1>1, <3>1 DEF Login, TypeOK
  <2>4. ASSUME NEW q \in RPs, NEW r \in pend'[q], r # s
        PROVE  r \in pend[q] /\ flow'[r] = flow[r]
    BY <1>1, <2>4 DEF Login, TypeOK
  <2>5. ASSUME NEW q \in RPs, s \in pend'[q]
        PROVE  q = p
    BY <1>1, <2>2, <2>5 DEF Login, TypeOK
  <2>6. tasks' = tasks
    BY <1>1 DEF Login
  <2> QED
    BY <2>1, <2>3, <2>4, <2>5, <2>6
<1>2. ASSUME NEW s \in States, NEW sid \in Sids, Authorize(s, sid)
      PROVE  StateSpentOnce'
  <2>0. flow[s] \in Flow
    BY <1>2 DEF Authorize, TypeOK
  <2>1. /\ [flow[s] EXCEPT !.sid = sid] \in Flow
        /\ [flow[s] EXCEPT !.sid = sid].rp = flow[s].rp
        /\ [flow[s] EXCEPT !.sid = sid].redeemed = flow[s].redeemed
    BY <2>0 DEF Flow, MaybeSid
  <2>2. ASSUME NEW r \in States, flow[r] # NoFlow
        PROVE  /\ flow'[r] # NoFlow /\ flow'[r].rp = flow[r].rp
               /\ flow'[r].redeemed = flow[r].redeemed
    <3>1. flow'[r] = IF r = s THEN [flow[s] EXCEPT !.sid = sid] ELSE flow[r]
      BY <1>2 DEF Authorize, TypeOK
    <3> QED
      BY <2>1, <2>2, <3>1
  <2>3. pend' = pend /\ tasks' = tasks
    BY <1>2 DEF Authorize, rpVars
  <2> QED
    BY <2>2, <2>3 DEF TypeOK
<1>3. ASSUME NEW s \in States, TakePending(s)
      PROVE  StateSpentOnce'
  <2>1. \A t \in tasks : t.state # s
    BY <1>3 DEF TakePending, TypeOK, Flow
  <2>2. s \notin pend'[flow[s].rp]
    BY <1>3 DEF TakePending, TypeOK, Flow
  <2>3. \A q \in RPs : pend'[q] \subseteq pend[q]
    BY <1>3 DEF TakePending, TypeOK
  <2>4. \A q \in RPs : s \notin pend'[q]
    BY <2>2, <2>3
  <2>5. \A t \in tasks' : t \in tasks \/ t.state = s
    BY <1>3 DEF TakePending, Start
  <2>6. \A t, u \in tasks' : t.state = s /\ u.state = s => t = u
    BY <1>3, <2>1 DEF TakePending, Start
  <2>7. flow' = flow
    BY <1>3 DEF TakePending, idpVars
  <2> QED
    BY <2>1, <2>3, <2>4, <2>5, <2>6, <2>7
<1>4. ASSUME NEW p \in RPs, NEW b \in Browsers, NEW kind \in {"local", "rpinit"},
             AskLogout(p, b, kind)
      PROVE  StateSpentOnce'
  BY <1>4 DEF AskLogout, Start, rpVars, idpVars, TypeOK
<1>5. ASSUME NEW t \in tasks, Handler(t)
      PROVE  StateSpentOnce'
  <2>1. pend' = pend
    BY <1>5 DEF Handler, ExchangeCode, CallbackFails, CommitLogin, FindSession,
                DropSession, Reply, rpVars
  <2>2. tasks' \subseteq tasks \/ \E u : u.state = t.state /\ tasks' = (tasks \ {t}) \cup {u}
    <3>1. CASE ExchangeCode(t)
      <4>1. [t EXCEPT !.step = "commit", !.hint = flow[t.state].sid].state = t.state
        BY DEF TypeOK, Task
      <4> QED
        BY <3>1, <4>1 DEF ExchangeCode, Become
    <3>2. CASE CallbackFails(t) \/ Reply(t)
      BY <3>2 DEF CallbackFails, Reply, Finish
    <3>3. ASSUME NEW id \in Ids, NEW claim \in MaybeSid, CommitLogin(t, id, claim)
          PROVE  \E u : u.state = t.state /\ tasks' = (tasks \ {t}) \cup {u}
      <4>1. [t EXCEPT !.step = "reply", !.id = id].state = t.state
        BY DEF TypeOK, Task
      <4> QED
        BY <3>3, <4>1 DEF CommitLogin, Become
    <3>4. CASE FindSession(t)
      <4>1. [t EXCEPT !.step = "drop", !.hint = sess[t.rp][t.id].hint].state = t.state
        BY DEF TypeOK, Task
      <4> QED
        BY <3>4, <4>1 DEF FindSession, Become, Finish
    <3>5. CASE DropSession(t)
      <4>1. [t EXCEPT !.step = "reply", !.id = NoId].state = t.state
        BY DEF TypeOK, Task
      <4> QED
        BY <3>5, <4>1 DEF DropSession, Become
    <3> QED
      BY <1>5, <3>1, <3>2, <3>3, <3>4, <3>5 DEF Handler
  <2>3. ASSUME NEW p \in RPs, NEW s \in pend[p]
        PROVE  flow'[s] = flow[s]
    <3>1. CASE ExchangeCode(t)
      BY <3>1 DEF ExchangeCode, TypeOK
    <3>2. CASE ~ExchangeCode(t)
      BY <1>5, <3>2 DEF Handler, CallbackFails, CommitLogin, FindSession,
                        DropSession, Reply, idpVars
    <3> QED
      BY <3>1, <3>2
  <2> QED
    BY <2>1, <2>2, <2>3
<1>6. ASSUME pend' = pend, tasks' = tasks, flow' = flow
      PROVE  StateSpentOnce'
  BY <1>6
<1>7. ASSUME \/ \E e \in endReqs : EndSession(e)
             \/ \E sid \in Sids : EndAtIdP(sid)
             \/ \E p \in RPs, sid \in Sids : BackchannelLogout(p, sid)
             \/ \E p \in RPs, sid \in Sids : BackchannelRefused(p, sid)
             \/ \E p \in RPs, b \in Browsers : CookieExpires(p, b)
             \/ UNCHANGED vars
      PROVE  pend' = pend /\ tasks' = tasks /\ flow' = flow
  BY <1>7 DEF EndSession, EndAtIdP, BackchannelLogout, BackchannelRefused,
              CookieExpires, vars, rpVars, idpVars
<1> QED
  BY <1>1, <1>2, <1>3, <1>4, <1>5, <1>6, <1>7 DEF Next

-----------------------------------------------------------------------------
(* Who joined an IdP session, and who is told of its end.                  *)

\* The IdP knows every RP that logged in under a session, whatever still stands
\* for it there: codes, handlers, sessions, index entries, logout requests.
FlowsJoined ==
  \A s \in States :
    flow[s] # NoFlow /\ flow[s].sid # NoSid => flow[s].rp \in joined[flow[s].sid]
TasksJoined ==
  \A t \in tasks :
    /\ t.step = "exchange" => t.rp = flow[t.state].rp
    /\ t.hint # NoSid => t.rp \in joined[t.hint]
IndexJoined ==
  \A p \in RPs :
    /\ \A id \in Ids : Live(p, id) => p \in joined[sess[p][id].hint]
    /\ \A sid \in Sids : bySID[p][sid] # NoId => p \in joined[sid]
RequestsJoined == \A e \in endReqs : e.from \in joined[e.sid]

\* A session that is over is nobody's any more, so nobody joins it, and those
\* who had have been told or will be.
EndedIsOver ==
  /\ \A b \in Browsers : sso[b] \notin ended
  /\ \A sid \in ended : joined[sid] # {}
EveryoneTold ==
  Reliable /\ TellsAsker =>
    \A sid \in ended : \A p \in joined[sid] : <<p, sid>> \in notices \cup told

Membership == FlowsJoined /\ TasksJoined /\ IndexJoined /\ RequestsJoined
                /\ EndedIsOver /\ EveryoneTold

\* Nobody is forgotten: an IdP that tells everybody, over a back channel that
\* loses nothing, has a notice on its way to every index entry of a session that
\* is over, unless the entry was filed once the notice had come and gone.
NobodyForgotten ==
  Reliable /\ TellsAsker =>
    \A p \in RPs, sid \in ended :
      bySID[p][sid] # NoId => <<p, sid>> \in notices \/ <<p, bySID[p][sid]>> \in late

\* Who joined a session stays joined, and only Authorize adds to them.
LEMMA JoinedGrows ==
  ASSUME TypeOK, [Next]_vars
  PROVE  /\ \A sid \in Sids : joined[sid] \subseteq joined'[sid]
         /\ (\A s \in States, sid \in Sids : ~Authorize(s, sid)) => joined' = joined
<1>1. ASSUME NEW s \in States, NEW k \in Sids, Authorize(s, k)
      PROVE  \A sid \in Sids : joined[sid] \subseteq joined'[sid]
  BY <1>1 DEF Authorize, TypeOK
<1>2. CASE \A s \in States, sid \in Sids : ~Authorize(s, sid)
  BY <1>2 DEF Next, Handler, Login, TakePending, AskLogout, ExchangeCode, CallbackFails,
     CommitLogin, FindSession, DropSession, Reply, CookieExpires, EndSession, EndAtIdP,
     BackchannelLogout, BackchannelRefused, idpVars, vars
<1> QED
  BY <1>1, <1>2

\* Every step keeps the RP of a login under its session.
LEMMA FlowsJoinedStep ==
  TypeOK /\ TasksWellFormed /\ FlowsJoined /\ [Next]_vars => FlowsJoined'
<1> SUFFICES ASSUME TypeOK, TasksWellFormed, FlowsJoined, [Next]_vars, NEW r \in States,
                    flow'[r] # NoFlow, flow'[r].sid # NoSid
             PROVE  flow'[r].rp \in joined'[flow'[r].sid]
  BY DEF FlowsJoined
<1> USE NullAssumption, NullRecordAssumption
<1>1. ASSUME flow[r] # NoFlow, flow'[r].sid = flow[r].sid, flow'[r].rp = flow[r].rp
      PROVE  flow'[r].rp \in joined'[flow'[r].sid]
  <2>1. flow[r].sid \in Sids /\ flow[r].rp \in joined[flow[r].sid]
    BY <1>1 DEF FlowsJoined, TypeOK, Flow, MaybeSid
  <2> QED
    BY <1>1, <2>1, JoinedGrows
<1>2. ASSUME NEW p \in RPs, NEW b \in Browsers, NEW s \in States, Login(p, b, s)
      PROVE  flow'[r].rp \in joined'[flow'[r].sid]
  <2>1. r # s
    BY <1>2 DEF Login, TypeOK
  <2> QED
    BY <1>1, <1>2, <2>1 DEF Login, TypeOK
<1>3. ASSUME NEW s \in States, NEW sid \in Sids, Authorize(s, sid)
      PROVE  flow'[r].rp \in joined'[flow'[r].sid]
  <2>1. CASE r = s
    <3>1. flow[s] \in Flow
      BY <1>3 DEF Authorize, TypeOK
    <3>2. flow'[s] = [flow[s] EXCEPT !.sid = sid]
      BY <1>3 DEF Authorize, TypeOK
    <3>3. flow'[s].sid = sid /\ flow'[s].rp = flow[s].rp
      BY <3>1, <3>2 DEF Flow
    <3>4. joined'[sid] = joined[sid] \cup {flow[s].rp}
      BY <1>3 DEF Authorize, TypeOK
    <3> QED
      BY <2>1, <3>3, <3>4
  <2>2. CASE r # s
    BY <1>1, <1>3, <2>2 DEF Authorize, TypeOK
  <2> QED
    BY <2>1, <2>2
<1>4. ASSUME NEW t \in tasks, ExchangeCode(t)
      PROVE  flow'[r].rp \in joined'[flow'[r].sid]
  <2>1. flow[r] # NoFlow /\ flow'[r].sid = flow[r].sid /\ flow'[r].rp = flow[r].rp
    <3>1. CASE r = t.state
      <4>1. flow'[r] = [flow[r] EXCEPT !.redeemed = TRUE]
        BY <1>4, <3>1 DEF ExchangeCode, TypeOK
      <4>2. flow[r] # NoFlow
        BY <1>4, <3>1 DEF ExchangeCode, TasksWellFormed
      <4>3. flow[r] \in Flow
        BY <4>2 DEF TypeOK
      <4> QED
        BY <4>1, <4>2, <4>3 DEF Flow
    <3>2. CASE r # t.state
      BY <1>4, <3>2 DEF ExchangeCode, TypeOK
    <3> QED
      BY <3>1, <3>2
  <2> QED
    BY <1>1, <2>1
<1>5. CASE flow' = flow
  BY <1>1, <1>5
<1> QED
  BY <1>2, <1>3, <1>4, <1>5
  DEF Next, Handler, TakePending, AskLogout, CallbackFails, CommitLogin, FindSession,
      DropSession, Reply, CookieExpires, EndSession, EndAtIdP, BackchannelLogout,
      BackchannelRefused, idpVars, vars

\* Every step keeps the RP of a handler under the session of its ID token.
LEMMA TasksJoinedStep ==
  TypeOK /\ TasksWellFormed /\ FlowsJoined /\ TasksJoined /\ IndexJoined /\ [Next]_vars
    => TasksJoined'
<1> SUFFICES ASSUME TypeOK, TasksWellFormed, FlowsJoined, TasksJoined, IndexJoined,
                    [Next]_vars, NEW u \in tasks'
             PROVE  /\ u.step = "exchange" => u.rp = flow'[u.state].rp
                    /\ u.hint # NoSid => u.rp \in joined'[u.hint]
  BY DEF TasksJoined
<1> USE NullAssumption, NullRecordAssumption
\* A login keeps its RP.
<1>1. ASSUME NEW s \in States, flow[s] # NoFlow
      PROVE  flow'[s].rp = flow[s].rp
  <2>1. flow[s] \in Flow
    BY <1>1 DEF TypeOK
  <2>2. ASSUME NEW p \in RPs, NEW b \in Browsers, NEW r \in States, Login(p, b, r)
        PROVE  flow'[s] = flow[s]
    BY <1>1, <2>2 DEF Login, TypeOK
  <2>3. ASSUME NEW r \in States, NEW sid \in Sids, Authorize(r, sid)
        PROVE  flow'[s] = flow[s] \/ flow'[s] = [flow[s] EXCEPT !.sid = sid]
    BY <2>3 DEF Authorize, TypeOK
  <2>4. ASSUME NEW t \in tasks, ExchangeCode(t)
        PROVE  flow'[s] = flow[s] \/ flow'[s] = [flow[s] EXCEPT !.redeemed = TRUE]
    BY <2>4 DEF ExchangeCode, TypeOK
  <2>5. \/ flow'[s] = flow[s]
        \/ \E sid \in Sids : flow'[s] = [flow[s] EXCEPT !.sid = sid]
        \/ flow'[s] = [flow[s] EXCEPT !.redeemed = TRUE]
    BY <2>2, <2>3, <2>4
    DEF Next, Handler, TakePending, AskLogout, CallbackFails, CommitLogin, FindSession,
        DropSession, Reply, CookieExpires, EndSession, EndAtIdP, BackchannelLogout,
        BackchannelRefused, idpVars, vars
  <2> QED
    BY <2>1, <2>5 DEF Flow
\* A handler that was there.
<1>2. ASSUME u \in tasks
      PROVE  /\ u.step = "exchange" => u.rp = flow'[u.state].rp
             /\ u.hint # NoSid => u.rp \in joined'[u.hint]
  <2>1. u.state \in States \cup {NoState} /\ u.hint \in MaybeSid
    BY <1>2 DEF TypeOK, Task
  <2>2. u.step = "exchange" => u.state \in States /\ flow[u.state] # NoFlow
    BY <1>2, <2>1 DEF TasksWellFormed
  <2>3. u.step = "exchange" => u.rp = flow[u.state].rp
    BY <1>2 DEF TasksJoined
  <2>4. u.hint # NoSid => u.rp \in joined[u.hint] /\ u.hint \in Sids
    BY <1>2, <2>1 DEF TasksJoined, MaybeSid
  <2> QED
    BY <1>1, <2>2, <2>3, <2>4, JoinedGrows
\* A handler that starts.
<1>3. ASSUME NEW s \in States, TakePending(s), u \notin tasks
      PROVE  u.step = "exchange" /\ u.rp = flow'[u.state].rp /\ u.hint = NoSid
  BY <1>3 DEF TakePending, Start, idpVars
<1>4. ASSUME NEW p \in RPs, NEW b \in Browsers, NEW kind \in {"local", "rpinit"},
             AskLogout(p, b, kind), u \notin tasks
      PROVE  u.step # "exchange" /\ u.hint = NoSid
  BY <1>4 DEF AskLogout, Start
\* A handler that goes on.
<1>5. ASSUME NEW t \in tasks, Handler(t), u \notin tasks
      PROVE  u.step # "exchange" /\ (u.hint # NoSid => u.rp \in joined'[u.hint])
  <2>0. t \in Task /\ joined' = joined
    BY <1>5 DEF TypeOK, Handler, ExchangeCode, CallbackFails, CommitLogin, FindSession,
       DropSession, Reply, idpVars
  <2>1. CASE ExchangeCode(t)
    <3>1. u = [t EXCEPT !.step = "commit", !.hint = flow[t.state].sid]
      BY <1>5, <2>1 DEF ExchangeCode, Become
    <3>2. u.step = "commit" /\ u.hint = flow[t.state].sid /\ u.rp = t.rp
      BY <2>0, <3>1 DEF Task
    <3>3. t.state \in States /\ flow[t.state] # NoFlow /\ flow[t.state].sid # NoSid
          /\ t.rp = flow[t.state].rp
      BY <2>0, <2>1 DEF ExchangeCode, TasksWellFormed, TasksJoined, Task
    <3> QED
      BY <2>0, <3>2, <3>3 DEF FlowsJoined
  <2>2. CASE CallbackFails(t) \/ Reply(t)
    BY <1>5, <2>2 DEF CallbackFails, Reply, Finish
  <2>3. ASSUME NEW id \in Ids, NEW claim \in MaybeSid, CommitLogin(t, id, claim)
        PROVE  u.step = "reply" /\ u.hint = t.hint /\ u.rp = t.rp
    <3>1. u = [t EXCEPT !.step = "reply", !.id = id]
      BY <1>5, <2>3 DEF CommitLogin, Become
    <3> QED
      BY <2>0, <3>1 DEF Task
  <2>4. CASE FindSession(t)
    <3>1. t.id # NoId /\ Live(t.rp, t.id)
          /\ u = [t EXCEPT !.step = "drop", !.hint = sess[t.rp][t.id].hint]
      BY <1>5, <2>4 DEF FindSession, Become, Finish
    <3>2. u.step = "drop" /\ u.hint = sess[t.rp][t.id].hint /\ u.rp = t.rp
      BY <2>0, <3>1 DEF Task
    <3>3. t.rp \in RPs /\ t.id \in Ids
      BY <2>0, <3>1 DEF Task, MaybeId
    <3> QED
      BY <2>0, <3>1, <3>2, <3>3 DEF IndexJoined
  <2>5. CASE DropSession(t)
    <3>1. u = [t EXCEPT !.step = "reply", !.id = NoId]
      BY <1>5, <2>5 DEF DropSession, Become
    <3>2. u.step = "reply" /\ u.hint = t.hint /\ u.rp = t.rp
      BY <2>0, <3>1 DEF Task
    <3> QED
      BY <2>0, <3>2 DEF TasksJoined
  <2>6. t.hint # NoSid => t.rp \in joined[t.hint]
    BY DEF TasksJoined
  <2> QED
    BY <1>5, <2>0, <2>1, <2>2, <2>3, <2>4, <2>5, <2>6 DEF Handler
<1>6. CASE tasks' = tasks
  BY <1>2, <1>6
<1>7. \/ tasks' = tasks
      \/ \E s \in States : TakePending(s)
      \/ \E p \in RPs, b \in Browsers, kind \in {"local", "rpinit"} : AskLogout(p, b, kind)
      \/ \E t \in tasks : Handler(t)
  BY DEF Next, Login, Authorize, CookieExpires, EndSession, EndAtIdP, BackchannelLogout,
     BackchannelRefused, idpVars, vars
<1> QED
  BY <1>2, <1>3, <1>4, <1>5, <1>6, <1>7

\* Every step keeps the RP of a session and of an index entry under its session.
LEMMA IndexJoinedStep ==
  TypeOK /\ TasksWellFormed /\ TasksJoined /\ IndexJoined /\ [Next]_vars => IndexJoined'
<1> SUFFICES ASSUME TypeOK, TasksWellFormed, TasksJoined, IndexJoined, [Next]_vars,
                    NEW p \in RPs
             PROVE  /\ \A id \in Ids : sess'[p][id] # NoSession
                                         => p \in joined'[sess'[p][id].hint]
                    /\ \A sid \in Sids : bySID'[p][sid] # NoId => p \in joined'[sid]
  BY DEF IndexJoined, Live
<1> USE NullAssumption, NullRecordAssumption
<1>1. ASSUME NEW id \in Ids, sess[p][id] # NoSession
      PROVE  p \in joined'[sess[p][id].hint]
  <2>1. sess[p][id].hint \in Sids /\ p \in joined[sess[p][id].hint]
    BY <1>1 DEF IndexJoined, Live, TypeOK, Session
  <2> QED
    BY <2>1, JoinedGrows
<1>2. ASSUME NEW sid \in Sids, bySID[p][sid] # NoId
      PROVE  p \in joined'[sid]
  BY <1>2, JoinedGrows DEF IndexJoined
<1>3. ASSUME NEW t \in tasks, NEW i \in Ids, NEW claim \in MaybeSid, CommitLogin(t, i, claim)
      PROVE  /\ \A id \in Ids : sess'[p][id] # NoSession => p \in joined'[sess'[p][id].hint]
             /\ \A sid \in Sids : bySID'[p][sid] # NoId => p \in joined'[sid]
  <2>1. t.hint \in Sids /\ t.rp \in RPs /\ (claim # NoSid => claim = t.hint)
    BY <1>3 DEF CommitLogin, TasksWellFormed, TypeOK, Task, MaybeSid
  <2>2. t.rp \in joined'[t.hint]
    BY <2>1, JoinedGrows DEF TasksJoined
  <2>3. sess'[t.rp][i].hint = t.hint
    <3>1. sess'[t.rp][i] = [sid |-> claim, hint |-> t.hint]
      BY <1>3, <2>1 DEF CommitLogin, TypeOK
    <3> QED
      BY <3>1
  <2>4. \A id \in Ids : ~(p = t.rp /\ id = i) => sess'[p][id] = sess[p][id]
    BY <1>3, CommitOthers
  <2>5. \A sid \in Sids : bySID'[p][sid] = IF p = t.rp /\ sid = claim THEN i ELSE bySID[p][sid]
    BY <1>3, CommitEntry
  <2> QED
    BY <1>1, <1>2, <2>1, <2>2, <2>3, <2>4, <2>5
<1>4. ASSUME NEW t \in tasks, DropSession(t)
      PROVE  /\ \A id \in Ids : sess'[p][id] # NoSession => p \in joined'[sess'[p][id].hint]
             /\ \A sid \in Sids : bySID'[p][sid] # NoId => p \in joined'[sid]
  BY <1>1, <1>2, <1>4, DropSess, DropEntry
<1>5. ASSUME NEW q \in RPs, NEW k \in Sids, BackchannelLogout(q, k)
      PROVE  /\ \A id \in Ids : sess'[p][id] # NoSession => p \in joined'[sess'[p][id].hint]
             /\ \A sid \in Sids : bySID'[p][sid] # NoId => p \in joined'[sid]
  BY <1>1, <1>2, <1>5, BackchannelSess, BackchannelEntry
<1>6. CASE UNCHANGED <<sess, bySID, born, late, told>>
  BY <1>1, <1>2, <1>6
<1> QED
  BY <1>3, <1>4, <1>5, <1>6, IndexWriters

\* Every step keeps who asks the IdP to end a session under it.
LEMMA RequestsJoinedStep ==
  TypeOK /\ TasksWellFormed /\ TasksJoined /\ RequestsJoined /\ [Next]_vars
    => RequestsJoined'
<1> SUFFICES ASSUME TypeOK, TasksWellFormed, TasksJoined, RequestsJoined, [Next]_vars,
                    NEW e \in endReqs'
             PROVE  e.from \in joined'[e.sid]
  BY DEF RequestsJoined
<1>1. CASE e \in endReqs
  <2>1. e.sid \in Sids /\ e.from \in joined[e.sid]
    BY <1>1 DEF RequestsJoined, TypeOK, EndRequest
  <2> QED
    BY <2>1, JoinedGrows
<1>2. CASE e \notin endReqs
  <2>1. PICK t \in tasks : Reply(t)
    BY <1>2 DEF Next, Handler, Login, Authorize, TakePending, AskLogout, ExchangeCode,
       CallbackFails, CommitLogin, FindSession, DropSession, CookieExpires, EndSession,
       EndAtIdP, BackchannelLogout, BackchannelRefused, idpVars, vars
  <2>2. t.kind = "rpinit" /\ e = [sid |-> t.hint, from |-> t.rp]
    BY <1>2, <2>1 DEF Reply
  <2>3. t.hint # NoSid
    BY <2>1, <2>2 DEF Reply, TasksWellFormed
  <2>4. e.from \in joined[e.sid] /\ e.sid \in Sids
    BY <2>2, <2>3 DEF TasksJoined, TypeOK, Task, MaybeSid
  <2> QED
    BY <2>4, JoinedGrows
<1> QED
  BY <1>1, <1>2

\* A session ends for all at once: at the IdP, for its browser, and with a notice
\* owed to everyone who joined it.
LEMMA EndEffect ==
  ASSUME NEW sid, NEW asker, End(sid, asker)
  PROVE  /\ ended' = ended \cup {sid}
         /\ \A b \in Browsers : sso'[b] = NoSid \/ (sso'[b] = sso[b] /\ sso'[b] # sid)
         /\ notices \subseteq notices'
         /\ TellsAsker => \A p \in joined[sid] : <<p, sid>> \in notices'
BY DEF End

\* Every step keeps ended sessions out of use.
LEMMA EndedStep ==
  TypeOK /\ RequestsJoined /\ EndedIsOver /\ [Next]_vars => EndedIsOver'
<1> SUFFICES ASSUME TypeOK, RequestsJoined, EndedIsOver, [Next]_vars PROVE EndedIsOver'
  OBVIOUS
<1> USE NullAssumption, NullRecordAssumption DEF EndedIsOver
<1>0. \A sid \in ended : joined'[sid] # {}
  BY JoinedGrows DEF TypeOK
<1>1. ASSUME NEW sid \in Sids, NEW asker, End(sid, asker), joined[sid] # {}
      PROVE  EndedIsOver'
  <2>1. \A k \in ended' : joined'[k] # {}
    BY <1>0, <1>1, EndEffect, JoinedGrows
  <2>2. NoSid \notin ended' /\ ended' = ended \cup {sid}
    BY <1>1, EndEffect DEF TypeOK
  <2>3. \A b \in Browsers : sso'[b] \notin ended'
    BY <1>1, <2>2, EndEffect
  <2> QED
    BY <2>1, <2>3
<1>2. ASSUME NEW e \in endReqs, EndSession(e)
      PROVE  EndedIsOver'
  <2>1. e.sid \in Sids /\ joined[e.sid] # {}
    BY DEF RequestsJoined, TypeOK, EndRequest
  <2>2. CASE End(e.sid, e.from)
    BY <1>1, <2>1, <2>2
  <2>3. CASE UNCHANGED <<ended, sso, notices>>
    BY <1>0, <2>3
  <2> QED
    BY <1>2, <2>2, <2>3 DEF EndSession
<1>3. ASSUME NEW sid \in Sids, EndAtIdP(sid)
      PROVE  EndedIsOver'
  BY <1>1, <1>3 DEF EndAtIdP
<1>4. ASSUME NEW s \in States, NEW sid \in Sids, Authorize(s, sid)
      PROVE  EndedIsOver'
  <2>1. sid \notin ended
    <3>1. flow[s].by \in Browsers
      BY <1>4 DEF Authorize, TypeOK, Flow
    <3> QED
      BY <1>4, <3>1 DEF Authorize
  <2>2. \A b \in Browsers : sso'[b] \in {sso[b], sid}
    BY <1>4 DEF Authorize, TypeOK
  <2>3. ended' = ended
    BY <1>4 DEF Authorize
  <2> QED
    BY <1>0, <2>1, <2>2, <2>3
<1>5. CASE ended' = ended /\ sso' = sso
  BY <1>0, <1>5
<1> QED
  BY <1>2, <1>3, <1>4, <1>5
  DEF Next, Handler, Login, TakePending, AskLogout, ExchangeCode, CallbackFails, CommitLogin,
      FindSession, DropSession, Reply, CookieExpires, BackchannelLogout, BackchannelRefused,
      idpVars, rpVars, vars

\* Every step keeps everyone told who joined a session that is over.
LEMMA ToldStep ==
  TypeOK /\ EndedIsOver /\ EveryoneTold /\ [Next]_vars => EveryoneTold'
<1> SUFFICES ASSUME TypeOK, EndedIsOver, EveryoneTold, [Next]_vars, Reliable, TellsAsker,
                    NEW sid \in ended', NEW p \in joined'[sid]
             PROVE  <<p, sid>> \in notices' \cup told'
  BY DEF EveryoneTold
<1> USE NullAssumption, NullRecordAssumption
<1>1. ASSUME sid \in ended, p \in joined[sid]
      PROVE  <<p, sid>> \in notices' \cup told'
  <2>1. <<p, sid>> \in notices \cup told
    BY <1>1 DEF EveryoneTold
  <2>2. ASSUME NEW q \in RPs, NEW k \in Sids, BackchannelLogout(q, k)
        PROVE  told' = told \cup {<<q, k>>} /\ notices \subseteq notices' \cup {<<q, k>>}
    BY <2>2 DEF BackchannelLogout
  <2>3. ASSUME NEW q \in RPs, NEW k \in Sids, BackchannelRefused(q, k)
        PROVE  FALSE
    BY <2>3 DEF BackchannelRefused
  <2>4. told \subseteq told' /\ (notices \subseteq notices'
          \/ \E q \in RPs, k \in Sids : BackchannelLogout(q, k))
    BY <2>2, <2>3
    DEF Next, Handler, Login, Authorize, TakePending, AskLogout, ExchangeCode, CallbackFails,
        CommitLogin, FindSession, DropSession, Reply, CookieExpires, EndSession, EndAtIdP,
        End, idpVars, rpVars, history, vars
  <2> QED
    BY <2>1, <2>2, <2>4
<1>2. ASSUME NEW k \in Sids, NEW asker, End(k, asker), joined' = joined
      PROVE  <<p, sid>> \in notices' \cup told'
  BY <1>1, <1>2, EndEffect
<1>3. ASSUME NEW s \in States, NEW k \in Sids, Authorize(s, k)
      PROVE  <<p, sid>> \in notices' \cup told'
  <2>1. k \notin ended
    <3>1. flow[s].by \in Browsers
      BY <1>3 DEF Authorize, TypeOK, Flow
    <3> QED
      BY <1>3, <3>1 DEF Authorize, EndedIsOver
  <2>2. sid \in ended /\ sid # k
    BY <1>3, <2>1 DEF Authorize
  <2>3. joined'[sid] = joined[sid]
    BY <1>3, <2>2 DEF Authorize, TypeOK
  <2> QED
    BY <1>1, <2>2, <2>3
<1>4. CASE ended' = ended /\ joined' = joined
  BY <1>1, <1>4
<1>5. ASSUME NEW e \in endReqs, EndSession(e)
      PROVE  <<p, sid>> \in notices' \cup told'
  <2>1. e.sid \in Sids
    BY DEF TypeOK, EndRequest
  <2> QED
    BY <1>2, <1>4, <1>5, <2>1 DEF EndSession
<1>6. ASSUME NEW k \in Sids, EndAtIdP(k)
      PROVE  <<p, sid>> \in notices' \cup told'
  BY <1>2, <1>6 DEF EndAtIdP
<1> QED
  BY <1>3, <1>4, <1>5, <1>6
  DEF Next, Handler, Login, TakePending, AskLogout, ExchangeCode, CallbackFails, CommitLogin,
      FindSession, DropSession, Reply, CookieExpires, BackchannelLogout, BackchannelRefused,
      idpVars, rpVars, vars

-----------------------------------------------------------------------------
(* The promise: steps of SingleLogout as steps of LogoutPromise.           *)

\* What the session table looks like from outside.
LEMMA LiveSet ==
  /\ LiveSessions \in SUBSET (RPs \X Ids)
  /\ \A p \in RPs, i \in Ids : <<p, i>> \in LiveSessions <=> sess[p][i] # NoSession
BY DEF LiveSessions, Live

\* The live sessions after a step.
LEMMA LiveSetNext ==
  ASSUME NEW S \in SUBSET (RPs \X Ids),
         \A p \in RPs, i \in Ids : <<p, i>> \in S <=> sess'[p][i] # NoSession
  PROVE  LiveSessions' = S
<1>1. LiveSessions' = {pair \in RPs \X Ids : sess'[pair[1]][pair[2]] # NoSession}
  BY DEF LiveSessions, Live
<1>2. ASSUME NEW pair \in RPs \X Ids
      PROVE  pair \in S <=> sess'[pair[1]][pair[2]] # NoSession
  <2>1. pair = <<pair[1], pair[2]>> /\ pair[1] \in RPs /\ pair[2] \in Ids
    OBVIOUS
  <2> QED
    BY <2>1
<1> QED
  BY <1>1, <1>2

\* A login opens a session.
LEMMA CommitOpens ==
  ASSUME InductiveInv, NEW t \in tasks, NEW id \in Ids, NEW claim \in MaybeSid,
         CommitLogin(t, id, claim)
  PROVE  Promise!Next
<1> USE DEF InductiveInv
<1>1. t.rp \in RPs
  BY DEF TypeOK, Task
<1>2. born[t.rp][id] = {} /\ sess'[t.rp][id] # NoSession
  BY CommitNew
<1>3. born' = [born EXCEPT ![t.rp][id] = {claim}] /\ told' = told
  BY DEF CommitLogin
<1>4. LiveSessions' = LiveSessions \cup {<<t.rp, id>>}
  <2>1. ASSUME NEW p \in RPs, NEW i \in Ids
        PROVE  <<p, i>> \in LiveSessions \cup {<<t.rp, id>>} <=> sess'[p][i] # NoSession
    <3>1. CASE p = t.rp /\ i = id
      BY <1>2, <3>1
    <3>2. CASE ~(p = t.rp /\ i = id)
      <4>1. sess'[p][i] = sess[p][i]
        BY <3>2, CommitOthers
      <4> QED
        BY <3>2, <4>1, LiveSet
    <3> QED
      BY <3>1, <3>2
  <2>2. LiveSessions \cup {<<t.rp, id>>} \in SUBSET (RPs \X Ids)
    BY <1>1, LiveSet
  <2> HIDE DEF InductiveInv
  <2> QED
    BY <2>1, <2>2, LiveSetNext
<1>5. Promise!Opens(t.rp, id, claim)
  BY <1>2, <1>3, <1>4 DEF Promise!Opens
<1> QED
  BY <1>1, <1>5 DEF Promise!Next, MaybeSid

\* A logout makes one session leave, if it was still there.
LEMMA DropLeaves ==
  ASSUME InductiveInv, NEW t \in tasks, DropSession(t)
  PROVE  Promise!Next \/ UNCHANGED Promise!pvars
<1> USE DEF InductiveInv
<1>1. t.rp \in RPs
  BY DEF TypeOK, Task
<1>2. born' = born /\ told' = told
  BY DEF DropSession, history
<1>3. LiveSessions' = LiveSessions \ {<<t.rp, t.id>>}
  <2>1. ASSUME NEW p \in RPs, NEW i \in Ids
        PROVE  <<p, i>> \in LiveSessions \ {<<t.rp, t.id>>} <=> sess'[p][i] # NoSession
    <3>1. sess'[p][i] = IF p = t.rp /\ i = t.id THEN NoSession ELSE sess[p][i]
      BY DropSess
    <3> QED
      BY <3>1, LiveSet
  <2>2. LiveSessions \ {<<t.rp, t.id>>} \in SUBSET (RPs \X Ids)
    BY LiveSet
  <2> HIDE DEF InductiveInv
  <2> QED
    BY <2>1, <2>2, LiveSetNext
<1>4. CASE <<t.rp, t.id>> \in LiveSessions
  <2>1. t.id \in Ids
    BY <1>4, LiveSet
  <2>2. Promise!Leaves(t.rp, t.id)
    BY <1>2, <1>3, <1>4 DEF Promise!Leaves
  <2> QED
    BY <1>1, <2>1, <2>2 DEF Promise!Next
<1>5. CASE <<t.rp, t.id>> \notin LiveSessions
  BY <1>2, <1>3, <1>5 DEF Promise!pvars
<1> QED
  BY <1>4, <1>5

\* A processed notice ends sessions of its own sid alone, and every one that
\* has no sibling: the index leads to it.
LEMMA BackchannelNotices ==
  ASSUME InductiveInv, NEW q \in RPs, NEW k \in Sids, BackchannelLogout(q, k)
  PROVE  Promise!Next
<1> USE DEF InductiveInv
<1> DEFINE gone == {i \in Ids : i = bySID[q][k]}
<1>1. born' = born /\ told' = told \cup {<<q, k>>}
  BY DEF BackchannelLogout
<1>2. gone \in SUBSET Promise!Under(q, k)
  <2>1. ASSUME NEW i \in Ids, i = bySID[q][k]
        PROVE  <<q, i>> \in LiveSessions /\ born[q][i] = {k}
    <3>1. sess[q][i] # NoSession /\ sess[q][i].sid = k
      BY <2>1, NullAssumption DEF IndexSound, Live
    <3> QED
      BY <3>1, LiveSet DEF BornAsFiled, Live
  <2> QED
    BY <2>1 DEF Promise!Under
<1>3. ASSUME NEW i \in Promise!Under(q, k), Promise!Alone(q, i, k)
      PROVE  i \in gone
  <2>1. i \in Ids /\ sess[q][i] # NoSession /\ born[q][i] = {k}
    BY LiveSet DEF Promise!Under
  <2>2. sess[q][i].sid = k /\ k # NoSid
    BY <2>1, NullAssumption DEF BornAsFiled, Live
  <2>3. ~HasSibling(q, i, k)
    BY <1>3 DEF Promise!Alone, HasSibling
  <2>4. bySID[q][k] = i
    BY <2>1, <2>2, <2>3 DEF LostOnlyToSibling, Live
  <2> QED
    BY <2>1, <2>4
<1>4. LiveSessions' = LiveSessions \ ({q} \X gone)
  <2> DEFINE left == LiveSessions \ ({q} \X gone)
  <2>1. ASSUME NEW p \in RPs, NEW i \in Ids
        PROVE  <<p, i>> \in left <=> sess'[p][i] # NoSession
    <3>1. sess'[p][i] = IF p = q /\ i = bySID[q][k] THEN NoSession ELSE sess[p][i]
      BY BackchannelSess
    <3> QED
      BY <3>1, LiveSet
  <2>2. left \in SUBSET (RPs \X Ids)
    BY LiveSet
  <2>3. LiveSessions' = left
    <3> HIDE DEF left, InductiveInv
    <3> QED
      BY <2>1, <2>2, LiveSetNext
  <2> QED
    BY <2>3
<1>5. Promise!Notice(q, k)
  <2> HIDE DEF InductiveInv, gone
  <2> QED
    BY <1>1, <1>2, <1>3, <1>4 DEF Promise!Notice
<1> QED
  BY <1>5 DEF Promise!Next

\* Every step of the relying parties is a step of the promise, or none.
LEMMA PromiseStep ==
  ASSUME InductiveInv, [Next]_vars
  PROVE  Promise!Next \/ UNCHANGED Promise!pvars
<1>1. ASSUME UNCHANGED <<sess, bySID, born, late, told>>
      PROVE  UNCHANGED Promise!pvars
  BY <1>1 DEF Promise!pvars, LiveSessions, Live
<1> QED
  BY <1>1, IndexWriters, CommitOpens, DropLeaves, BackchannelNotices

-----------------------------------------------------------------------------
(* The theorems.                                                           *)

\* The inductive invariant holds of every reachable state.
THEOREM Inductive == Spec => []InductiveInv
<1>1. Init => InductiveInv
  <2> SUFFICES ASSUME Init PROVE InductiveInv
    OBVIOUS
  <2>1. TypeOK
    BY DEF Init, TypeOK, MaybeId, MaybeSid
  <2>2. TasksWellFormed /\ StateSpentOnce
    BY DEF Init, TasksWellFormed, StateSpentOnce
  <2>3. BornAsFiled /\ IndexSound /\ IndexedAfterNoticeIsLate /\ LostOnlyToSibling
    BY DEF Init, BornAsFiled, IndexSound, IndexedAfterNoticeIsLate,
           LostOnlyToSibling, Live
  <2> QED
    BY <2>1, <2>2, <2>3 DEF InductiveInv
<1>2. InductiveInv /\ [Next]_vars => InductiveInv'
  BY TypeStep, TasksStep, StateStep, BornStep, IndexStep, LateStep, SiblingStep
  DEF InductiveInv
<1> QED
  BY <1>1, <1>2, PTL DEF Spec

\* The maps, cookies and messages always have the types the code gives them.
THEOREM TypeCorrect == Spec => []TypeOK
BY Inductive, PTL DEF InductiveInv

\* An index entry always names a live session of the IdP session it is filed
\* under, whatever handlers of an RP interleave.
THEOREM IndexAlwaysSound == Spec => []IndexSound
BY Inductive, PTL DEF InductiveInv

\* A state parameter starts at most one handler and its code is redeemed for at
\* most one login.
THEOREM StatesSpentOnce == Spec => []StateSpentOnce
BY Inductive, PTL DEF InductiveInv

\* Only another login under the same IdP session can put a session out of reach
\* of back-channel logout.
THEOREM IndexLosesOnlySiblings == Spec => []LostOnlyToSibling
BY Inductive, PTL DEF InductiveInv

\* What survives the notice of its IdP session came late or has a sibling.
THEOREM SurvivorsHaveCause == Spec => []SurvivorsExplained
<1>1. InductiveInv => SurvivorsExplained
  <2> SUFFICES ASSUME InductiveInv, NEW p \in RPs, NEW id \in Ids, Live(p, id),
                      <<p, sess[p][id].sid>> \in told,
                      ~HasSibling(p, id, sess[p][id].sid)
               PROVE  <<p, id>> \in late
    BY DEF SurvivorsExplained
  <2>1. sess[p][id].sid \in Sids
    BY DEF InductiveInv, TypeOK
  <2>2. bySID[p][sess[p][id].sid] = id
    BY <2>1, NullAssumption DEF InductiveInv, LostOnlyToSibling
  <2> QED
    BY <2>1, <2>2, NullAssumption DEF InductiveInv, IndexedAfterNoticeIsLate
<1> QED
  BY <1>1, Inductive, PTL

\* A session ends only by a logout that carries its id or by a notice of its
\* own sid.
THEOREM EndsOnlyForItsOwnReason == Spec => EndsForItsOwnReason
<1> DEFINE Act == \A p \in RPs, id \in Ids :
                    Live(p, id) /\ ~Live(p, id)'
                      => \/ \E t \in tasks : t.step = "drop" /\ t.rp = p /\ t.id = id
                         \/ <<p, sess[p][id].sid>> \in notices
<1>1. InductiveInv /\ [Next]_vars => Act
  <2> SUFFICES ASSUME InductiveInv, [Next]_vars, NEW p \in RPs, NEW id \in Ids,
                      sess[p][id] # NoSession, sess'[p][id] = NoSession
               PROVE  \/ \E t \in tasks : t.step = "drop" /\ t.rp = p /\ t.id = id
                      \/ <<p, sess[p][id].sid>> \in notices
    BY DEF Live
  <2>1. ASSUME NEW t \in tasks, NEW i \in Ids, NEW claim \in MaybeSid,
               CommitLogin(t, i, claim)
        PROVE  FALSE
    <3>1. CASE p = t.rp /\ id = i
      BY <2>1, <3>1, CommitNew DEF InductiveInv
    <3>2. CASE ~(p = t.rp /\ id = i)
      BY <2>1, <3>2, CommitOthers DEF InductiveInv
    <3> QED
      BY <3>1, <3>2
  <2>2. ASSUME NEW t \in tasks, DropSession(t)
        PROVE  t.step = "drop" /\ t.rp = p /\ t.id = id
    BY <2>2, DropSess DEF InductiveInv, DropSession
  <2>3. ASSUME NEW q \in RPs, NEW k \in Sids, BackchannelLogout(q, k)
        PROVE  <<p, sess[p][id].sid>> \in notices
    <3>1. p = q /\ id = bySID[q][k]
      BY <2>3, BackchannelSess DEF InductiveInv
    <3>2. sess[p][id].sid = k
      BY <3>1, NullAssumption DEF InductiveInv, IndexSound
    <3> QED
      BY <2>3, <3>1, <3>2 DEF BackchannelLogout
  <2> QED
    BY <2>1, <2>2, <2>3, IndexWriters
<1>2. EndsForItsOwnReason <=> [][Act]_vars
  BY DEF EndsForItsOwnReason
<1> QED
  BY <1>1, <1>2, Inductive, PTL DEF Spec

\* An index entry of a session that is over has a notice on its way, or was
\* filed after it: an IdP that tells everybody, over a channel that loses
\* nothing, overlooks nobody, for any number of RPs and of logins.
THEOREM NobodyIsForgotten == Spec => []NobodyForgotten
<1>1. Init => Membership
  BY NullAssumption DEF Init, Membership, FlowsJoined, TasksJoined, IndexJoined, RequestsJoined,
     EndedIsOver, EveryoneTold, Live
<1>2. InductiveInv /\ Membership /\ [Next]_vars => Membership'
  BY FlowsJoinedStep, TasksJoinedStep, IndexJoinedStep, RequestsJoinedStep, EndedStep, ToldStep
  DEF InductiveInv, Membership
<1>3. InductiveInv /\ Membership => NobodyForgotten
  <2> SUFFICES ASSUME InductiveInv, Membership, Reliable, TellsAsker,
                      NEW p \in RPs, NEW sid \in ended, bySID[p][sid] # NoId,
                      <<p, sid>> \notin notices
               PROVE  <<p, bySID[p][sid]>> \in late
    BY DEF NobodyForgotten
  <2>1. sid \in Sids /\ p \in joined[sid]
    BY DEF Membership, IndexJoined, InductiveInv, TypeOK
  <2>2. <<p, sid>> \in told
    BY <2>1 DEF Membership, EveryoneTold
  <2> QED
    BY <2>1, <2>2 DEF InductiveInv, IndexedAfterNoticeIsLate
<1> QED
  BY <1>1, <1>2, <1>3, Inductive, PTL DEF Spec

\* The relying parties implement LogoutPromise: for any number of them, of
\* browsers and of logins, whatever overlaps and whatever notices are lost or
\* repeated.
THEOREM LogoutPromiseKept == Spec => KeepsLogoutPromise
<1>1. Init => Promise!Init
  <2>1. Init => LiveSessions = {}
    BY DEF Init, LiveSessions, Live
  <2> QED
    BY <2>1 DEF Init, Promise!Init
<1>2. InductiveInv /\ [Next]_vars => [Promise!Next]_(Promise!pvars)
  BY PromiseStep
<1> QED
  BY <1>1, <1>2, Inductive, PTL DEF Spec, KeepsLogoutPromise, Promise!Spec

=============================================================================
