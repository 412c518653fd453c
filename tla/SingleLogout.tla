---------------------------- MODULE SingleLogout ----------------------------
(***************************************************************************)
(* Chapter 04 (src/04-logout/main.go): relying parties that log users in   *)
(* through one identity provider and must log them out together.           *)
(*                                                                         *)
(* Every relying party (RP) p keeps, under one mutex, three maps: sess     *)
(* (our session id -> session), bySID (IdP session id -> our session id)   *)
(* and pend (state -> login in flight).  A handler is a task that runs in  *)
(* steps: it gives the mutex up between its lock sections, and across its  *)
(* calls to the IdP, so tasks of one RP interleave there.                  *)
(*                                                                         *)
(* The IdP and the browsers are external: they are modelled from the calls *)
(* the code makes to them and the requests it receives from them.          *)
(***************************************************************************)
EXTENDS Naturals, FiniteSets

CONSTANTS RPs,         \* relying parties
          Browsers,    \* user agents, one user each
          States,      \* values of the OAuth state parameter, one per login
          Ids,         \* session ids an RP can draw
          Sids,        \* IdP session ids (the sid claim)
          NoId, NoSid, NoSession, NoFlow, NoRP, NoState,
          MaxTasks,    \* bound: handlers running or replies in flight
          TellsAsker,  \* TRUE: the IdP notifies the RP that asked for the logout too
          SidOptional, \* TRUE: the IdP may leave sid out of an ID token
          Reliable     \* TRUE: a notice is accepted and acknowledged at once

ASSUME NullAssumption ==
  /\ NoId \notin Ids
  /\ NoSid \notin Sids
  /\ NoState \notin States
  /\ NoRP \notin RPs

ASSUME BoundAssumption ==
  /\ MaxTasks \in Nat \ {0}
  /\ SidOptional \in BOOLEAN
  /\ TellsAsker \in BOOLEAN
  /\ Reliable \in BOOLEAN

MaybeId  == Ids \cup {NoId}
MaybeSid == Sids \cup {NoSid}

\* rpSession: the sid claim (NoSid is the empty string) and the ID token it
\* came in, kept as id_token_hint; a token is named by its IdP session.
Session == [sid : MaybeSid, hint : Sids]

\* A login seen from outside the RP: the authorization request, and once the
\* IdP has authenticated the browser, the sid its code stands for.
Flow == [rp : RPs, by : Browsers, sid : MaybeSid, redeemed : BOOLEAN]

\* A handler in progress.  "exchange" and "commit" belong to /callback, "find"
\* to /logout-rp-initiated, "drop" to both logouts; "reply" is a response on
\* its way to the browser.
Task == [kind  : {"callback", "local", "rpinit"},
         step  : {"exchange", "commit", "find", "drop", "reply"},
         rp    : RPs,
         by    : Browsers,
         state : States \cup {NoState},
         id    : MaybeId,      \* the cookie received, or the one being set
         hint  : MaybeSid]     \* the ID token at hand

\* A browser redirected to end_session_endpoint with an id_token_hint.
EndRequest == [sid : Sids, from : RPs]

ASSUME NullRecordAssumption ==
  /\ NoSession \notin Session
  /\ NoFlow \notin Flow

VARIABLES
  sess,     \* [RPs -> [Ids -> Session or NoSession]]
  bySID,    \* [RPs -> [Sids -> MaybeId]]
  pend,     \* [RPs -> SUBSET States]
  tasks,    \* handlers and replies in flight
  jar,      \* [Browsers -> [RPs -> MaybeId]]: session cookies
  flow,     \* [States -> Flow or NoFlow]
  sso,      \* [Browsers -> MaybeSid]: the browser's session at the IdP
  joined,   \* [Sids -> SUBSET RPs]: RPs that logged in under an IdP session
  ended,    \* IdP sessions that are over
  endReqs,  \* browsers on their way to end_session_endpoint
  notices,  \* logout tokens in flight, as <<rp, sid>>
  \* History, read by properties only.
  born,     \* [RPs -> [Ids -> {} or {sid}]]: sid a drawn id was created with
  late,     \* <<rp, id>> created when its sid's notice had been processed
  told      \* <<rp, sid>> whose notice the RP has processed

rpVars  == <<sess, bySID, pend>>
idpVars == <<flow, sso, joined, ended, endReqs, notices>>
history == <<born, late, told>>
vars    == <<sess, bySID, pend, tasks, jar, flow, sso, joined, ended,
             endReqs, notices, born, late, told>>

TypeOK ==
  /\ sess \in [RPs -> [Ids -> Session \cup {NoSession}]]
  /\ bySID \in [RPs -> [Sids -> MaybeId]]
  /\ pend \in [RPs -> SUBSET States]
  /\ tasks \subseteq Task
  /\ jar \in [Browsers -> [RPs -> MaybeId]]
  /\ flow \in [States -> Flow \cup {NoFlow}]
  /\ sso \in [Browsers -> MaybeSid]
  /\ joined \in [Sids -> SUBSET RPs]
  /\ ended \subseteq Sids
  /\ endReqs \subseteq EndRequest
  /\ notices \subseteq RPs \X Sids
  /\ born \in [RPs -> [Ids -> SUBSET MaybeSid]]
  /\ late \subseteq RPs \X Ids
  /\ told \subseteq RPs \X Sids

Live(p, id) == sess[p][id] # NoSession

-----------------------------------------------------------------------------
Init ==
  /\ sess = [p \in RPs |-> [id \in Ids |-> NoSession]]
  /\ bySID = [p \in RPs |-> [sid \in Sids |-> NoId]]
  /\ pend = [p \in RPs |-> {}]
  /\ tasks = {}
  /\ jar = [b \in Browsers |-> [p \in RPs |-> NoId]]
  /\ flow = [s \in States |-> NoFlow]
  /\ sso = [b \in Browsers |-> NoSid]
  /\ joined = [sid \in Sids |-> {}]
  /\ ended = {}
  /\ endReqs = {}
  /\ notices = {}
  /\ born = [p \in RPs |-> [id \in Ids |-> {}]]
  /\ late = {}
  /\ told = {}

Start(t)    == /\ Cardinality(tasks) < MaxTasks
               /\ tasks' = tasks \cup {t}
Become(t, u) == tasks' = (tasks \ {t}) \cup {u}
Finish(t)   == tasks' = tasks \ {t}

-----------------------------------------------------------------------------
(* Login.                                                                  *)

\* login: remember the state, send the browser to the IdP.
Login(p, b, s) ==
  /\ flow[s] = NoFlow
  /\ flow' = [flow EXCEPT ![s] = [rp |-> p, by |-> b, sid |-> NoSid,
                                  redeemed |-> FALSE]]
  /\ pend' = [pend EXCEPT ![p] = @ \cup {s}]
  /\ UNCHANGED <<sess, bySID, tasks, jar, sso, joined, ended, endReqs,
                 notices, history>>

\* The IdP signs the browser in: silently under its SSO session if there is
\* one, else under a new one; then it redirects back with a code.
Authorize(s, sid) ==
  /\ flow[s] # NoFlow
  /\ flow[s].sid = NoSid
  /\ \/ sso[flow[s].by] = sid
     \/ /\ sso[flow[s].by] = NoSid
        /\ joined[sid] = {}
  /\ sso' = [sso EXCEPT ![flow[s].by] = sid]
  /\ joined' = [joined EXCEPT ![sid] = @ \cup {flow[s].rp}]
  /\ flow' = [flow EXCEPT ![s].sid = sid]
  /\ UNCHANGED <<rpVars, tasks, jar, ended, endReqs, notices, history>>

\* Mutant: the pending login is looked up and left in place.
TakePendingKeeps(s) ==
  LET p == flow[s].rp IN
  /\ flow[s] # NoFlow
  /\ flow[s].sid # NoSid
  /\ s \in pend[p]
  /\ Start([kind |-> "callback", step |-> "exchange", rp |-> p,
            by |-> flow[s].by, state |-> s, id |-> NoId, hint |-> NoSid])
  /\ UNCHANGED <<rpVars, jar, idpVars, history>>

\* callback, first lock section: take the pending login out.  A state that is
\* not there (a reload of the callback URL) is answered 400 and changes nothing.
TakePending(s) ==
  LET p == flow[s].rp IN
  /\ flow[s] # NoFlow
  /\ flow[s].sid # NoSid
  /\ s \in pend[p]
  /\ pend' = [pend EXCEPT ![p] = @ \ {s}]
  /\ Start([kind |-> "callback", step |-> "exchange", rp |-> p,
            by |-> flow[s].by, state |-> s, id |-> NoId, hint |-> NoSid])
  /\ UNCHANGED <<sess, bySID, jar, idpVars, history>>

\* ExchangeCode succeeds: the IdP redeems a code once, while its session lasts.
ExchangeCode(t) ==
  LET f == flow[t.state] IN
  /\ t.step = "exchange"
  /\ ~f.redeemed
  /\ f.sid \notin ended
  /\ flow' = [flow EXCEPT ![t.state].redeemed = TRUE]
  /\ Become(t, [t EXCEPT !.step = "commit", !.hint = f.sid])
  /\ UNCHANGED <<rpVars, jar, sso, joined, ended, endReqs, notices, history>>

\* The exchange or the validation of the ID token fails: 400, and the pending
\* login is already gone.
CallbackFails(t) ==
  /\ t.step \in {"exchange", "commit"}
  /\ Finish(t)
  /\ UNCHANGED <<rpVars, jar, idpVars, history>>

\* Mutant: the session is stored and not indexed.
CommitLoginUnindexed(t, id, claim) ==
  LET p == t.rp IN
  /\ t.step = "commit"
  /\ born[p][id] = {}
  /\ claim = t.hint \/ (SidOptional /\ claim = NoSid)
  /\ sess' = [sess EXCEPT ![p][id] = [sid |-> claim, hint |-> t.hint]]
  /\ Become(t, [t EXCEPT !.step = "reply", !.id = id])
  /\ born' = [born EXCEPT ![p][id] = {claim}]
  /\ late' = IF <<p, claim>> \in told THEN late \cup {<<p, id>>} ELSE late
  /\ UNCHANGED <<bySID, pend, jar, idpVars, told>>

\* callback, second lock section: store the session and index it by its sid.
CommitLogin(t, id, claim) ==
  LET p == t.rp IN
  /\ t.step = "commit"
  /\ born[p][id] = {}
  /\ claim = t.hint \/ (SidOptional /\ claim = NoSid)
  /\ sess' = [sess EXCEPT ![p][id] = [sid |-> claim, hint |-> t.hint]]
  /\ bySID' = IF claim = NoSid THEN bySID
                               ELSE [bySID EXCEPT ![p][claim] = id]
  /\ Become(t, [t EXCEPT !.step = "reply", !.id = id])
  /\ born' = [born EXCEPT ![p][id] = {claim}]
  /\ late' = IF <<p, claim>> \in told THEN late \cup {<<p, id>>} ELSE late
  /\ UNCHANGED <<pend, jar, idpVars, told>>

-----------------------------------------------------------------------------
(* Logout asked for by the browser.                                        *)

\* The browser asks /logout-local or /logout-rp-initiated with its cookie.
AskLogout(p, b, kind) ==
  /\ Start([kind |-> kind, step |-> IF kind = "local" THEN "drop" ELSE "find",
            rp |-> p, by |-> b, state |-> NoState,
            id |-> jar[b][p], hint |-> NoSid])
  /\ UNCHANGED <<rpVars, jar, idpVars, history>>

\* logoutRPInitiated reads the session in one lock section; with none it
\* redirects home and leaves the cookie.
FindSession(t) ==
  /\ t.step = "find"
  /\ IF t.id # NoId /\ Live(t.rp, t.id)
       THEN Become(t, [t EXCEPT !.step = "drop",
                                !.hint = sess[t.rp][t.id].hint])
       ELSE Finish(t)
  /\ UNCHANGED <<rpVars, jar, idpVars, history>>

\* Mutant: dropSession leaves the index alone.
UnindexNothing(p, id) == bySID

\* The index after dropSession: a session that is there takes the entry of its
\* sid with it, whichever session that entry names.
Unindex(p, id) ==
  IF id # NoId /\ Live(p, id) /\ sess[p][id].sid # NoSid
    THEN [bySID EXCEPT ![p][sess[p][id].sid] = NoId]
    ELSE bySID

\* dropSession, then clearCookie (and the redirect to the IdP) in the reply.
DropSession(t) ==
  /\ t.step = "drop"
  /\ bySID' = Unindex(t.rp, t.id)
  /\ sess' = IF t.id = NoId THEN sess
                            ELSE [sess EXCEPT ![t.rp][t.id] = NoSession]
  /\ Become(t, [t EXCEPT !.step = "reply", !.id = NoId])
  /\ UNCHANGED <<pend, jar, idpVars, history>>

\* The reply reaches the browser: Set-Cookie with the new id, or an expired
\* cookie; after logoutRPInitiated the browser goes on to end_session_endpoint.
Reply(t) ==
  /\ t.step = "reply"
  /\ jar' = [jar EXCEPT ![t.by][t.rp] = t.id]
  /\ endReqs' = IF t.kind = "rpinit"
                  THEN endReqs \cup {[sid |-> t.hint, from |-> t.rp]}
                  ELSE endReqs
  /\ Finish(t)
  /\ UNCHANGED <<rpVars, flow, sso, joined, ended, notices, history>>

\* The cookie's Max-Age runs out in the browser; the session stays.
CookieExpires(p, b) ==
  /\ jar[b][p] # NoId
  /\ jar' = [jar EXCEPT ![b][p] = NoId]
  /\ UNCHANGED <<rpVars, tasks, idpVars, history>>

-----------------------------------------------------------------------------
(* Logout at the IdP and its back channel.                                 *)

\* The IdP ends session sid and sends a logout token to every other RP in it;
\* whether the one that asked gets one too is the IdP's choice.
End(sid, asker) ==
  /\ sid \notin ended
  /\ ended' = ended \cup {sid}
  /\ sso' = [b \in Browsers |-> IF sso[b] = sid THEN NoSid ELSE sso[b]]
  /\ notices' = notices \cup
       {<<p, sid>> : p \in IF TellsAsker THEN joined[sid] ELSE joined[sid] \ {asker}}

EndSession(e) ==
  /\ \/ End(e.sid, e.from)
     \/ e.sid \in ended /\ UNCHANGED <<ended, sso, notices>>
  /\ endReqs' = endReqs \ {e}
  /\ UNCHANGED <<rpVars, tasks, jar, flow, joined, history>>

\* The IdP ends a session of its own accord (an administrator, its console).
EndAtIdP(sid) ==
  /\ joined[sid] # {}
  /\ End(sid, NoRP)
  /\ UNCHANGED <<rpVars, tasks, jar, flow, joined, endReqs, history>>

\* Mutant: the entry goes, the session stays.
BackchannelForgetsSession(p, sid) ==
  /\ <<p, sid>> \in notices
  /\ bySID' = [bySID EXCEPT ![p][sid] = NoId]
  /\ told' = told \cup {<<p, sid>>}
  /\ notices' = notices \ {<<p, sid>>}
  /\ UNCHANGED <<sess, pend, tasks, jar, flow, sso, joined, ended, endReqs,
                 born, late>>

\* Mutant: the session goes, the entry stays.
BackchannelKeepsEntry(p, sid) ==
  /\ <<p, sid>> \in notices
  /\ sess' = IF bySID[p][sid] = NoId
               THEN sess
               ELSE [sess EXCEPT ![p][bySID[p][sid]] = NoSession]
  /\ told' = told \cup {<<p, sid>>}
  /\ notices' = notices \ {<<p, sid>>}
  /\ UNCHANGED <<bySID, pend, tasks, jar, flow, sso, joined, ended, endReqs,
                 born, late>>

\* Mutant: a notice logs everybody out.
BackchannelEndsAll(p, sid) ==
  /\ <<p, sid>> \in notices
  /\ sess' = [sess EXCEPT ![p] = [id \in Ids |-> NoSession]]
  /\ bySID' = [bySID EXCEPT ![p] = [k \in Sids |-> NoId]]
  /\ told' = told \cup {<<p, sid>>}
  /\ notices' = notices \ {<<p, sid>>}
  /\ UNCHANGED <<pend, tasks, jar, flow, sso, joined, ended, endReqs,
                 born, late>>

\* backchannelLogout on a valid token: remove the one session indexed under
\* the sid and its entry; 200 either way.
BackchannelLogout(p, sid) ==
  /\ <<p, sid>> \in notices
  /\ sess' = IF bySID[p][sid] = NoId
               THEN sess
               ELSE [sess EXCEPT ![p][bySID[p][sid]] = NoSession]
  /\ bySID' = [bySID EXCEPT ![p][sid] = NoId]
  /\ told' = told \cup {<<p, sid>>}
  /\ \/ notices' = notices \ {<<p, sid>>}
     \/ ~Reliable /\ UNCHANGED notices       \* sent again: its 200 got lost
  /\ UNCHANGED <<pend, tasks, jar, flow, sso, joined, ended, endReqs,
                 born, late>>

\* validateLogoutToken refuses (no keys to be had, iat too old) or the call is
\* lost: nothing changes at the RP and nobody asks again.
BackchannelRefused(p, sid) ==
  /\ ~Reliable
  /\ <<p, sid>> \in notices
  /\ notices' = notices \ {<<p, sid>>}
  /\ UNCHANGED <<rpVars, tasks, jar, flow, sso, joined, ended, endReqs,
                 history>>

-----------------------------------------------------------------------------
Handler(t) ==
  \/ ExchangeCode(t)
  \/ CallbackFails(t)
  \/ \E id \in Ids, claim \in MaybeSid : CommitLogin(t, id, claim)
  \/ FindSession(t)
  \/ DropSession(t)
  \/ Reply(t)

Next ==
  \/ \E p \in RPs, b \in Browsers, s \in States : Login(p, b, s)
  \/ \E s \in States, sid \in Sids : Authorize(s, sid)
  \/ \E s \in States : TakePending(s)
  \/ \E p \in RPs, b \in Browsers, kind \in {"local", "rpinit"} :
       AskLogout(p, b, kind)
  \/ \E t \in tasks : Handler(t)
  \/ \E p \in RPs, b \in Browsers : CookieExpires(p, b)
  \/ \E e \in endReqs : EndSession(e)
  \/ \E sid \in Sids : EndAtIdP(sid)
  \/ \E p \in RPs, sid \in Sids : BackchannelLogout(p, sid)
  \/ \E p \in RPs, sid \in Sids : BackchannelRefused(p, sid)

Spec == Init /\ [][Next]_vars

\* net/http runs every handler it has accepted to its end and delivers the
\* reply; a browser follows a redirect; the IdP sends the notices it owes.
\* Nobody has to log in or to log out.
Fairness ==
  /\ \A p \in RPs, b \in Browsers, sid \in Sids :
       WF_vars(\E t \in tasks : /\ t.kind = "rpinit" /\ t.rp = p /\ t.by = b
                                /\ t.hint = sid
                                /\ DropSession(t) \/ Reply(t))
  /\ \A p \in RPs, sid \in Sids :
       /\ WF_vars(\E e \in endReqs : e = [sid |-> sid, from |-> p]
                                       /\ EndSession(e))
       /\ WF_vars(BackchannelLogout(p, sid))

FairSpec == Spec /\ Fairness

-----------------------------------------------------------------------------
(* What the relying parties guarantee.                                     *)

\* An index entry leads to a live session of exactly the IdP session it is
\* filed under.  backchannelLogout relies on it: it deletes whatever session
\* the entry names, and writes and removals happen in four handlers.
IndexSound ==
  \A p \in RPs, sid \in Sids :
    bySID[p][sid] # NoId => /\ Live(p, bySID[p][sid])
                            /\ sess[p][bySID[p][sid]].sid = sid

\* A state is spent once: while it is pending no handler works for it and its
\* code is unredeemed, and no two handlers ever work for one state.
StateSpentOnce ==
  /\ \A p \in RPs : \A s \in pend[p] :
       /\ flow[s] # NoFlow
       /\ flow[s].rp = p
       /\ ~flow[s].redeemed
       /\ \A t \in tasks : t.state # s
  /\ \A t, u \in tasks : t.state = u.state /\ t.state # NoState => t = u

\* Another login of the same RP was filed under the sid of session id.
HasSibling(p, id, sid) == \E other \in Ids \ {id} : born[p][other] = {sid}

\* A session with a sid is out of the index's reach only if the RP filed
\* another login under the same sid: one login per IdP session is never lost,
\* whatever logouts, notices and replies do meanwhile.
LostOnlyToSibling ==
  \A p \in RPs, id \in Ids :
    Live(p, id) /\ sess[p][id].sid # NoSid
      => \/ bySID[p][sess[p][id].sid] = id
         \/ HasSibling(p, id, sess[p][id].sid)

\* A session that survives the processed logout notice of its IdP session was
\* stored after the notice, by a callback that had its tokens already, or has
\* a sibling.  Nothing else survives single logout.
SurvivorsExplained ==
  \A p \in RPs, id \in Ids :
    Live(p, id) /\ <<p, sess[p][id].sid>> \in told
      => \/ <<p, id>> \in late
         \/ HasSibling(p, id, sess[p][id].sid)

\* A session ends only when a browser that holds its cookie logs out, or when
\* the IdP gives notice of that session's own sid.
EndsForItsOwnReason ==
  [][\A p \in RPs, id \in Ids :
       Live(p, id) /\ ~Live(p, id)'
         => \/ \E t \in tasks : t.step = "drop" /\ t.rp = p /\ t.id = id
            \/ <<p, sess[p][id].sid>> \in notices]_vars

\* logoutRPInitiated under way at one RP clears every RP's index of that IdP
\* session: the redirect, the IdP and the back channel bring the news there.
RPInitiatedReachesEveryRP ==
  \A sid \in Sids, p \in RPs :
    (/\ sid \notin ended
     /\ bySID[p][sid] # NoId
     /\ \E t \in tasks : t.kind = "rpinit" /\ t.step \in {"drop", "reply"}
                           /\ t.hint = sid)
      ~> (sid \in ended /\ bySID[p][sid] = NoId)

-----------------------------------------------------------------------------
(* The promise kept.                                                       *)

LiveSessions == {pair \in RPs \X Ids : Live(pair[1], pair[2])}

Promise == INSTANCE LogoutPromise WITH opened <- born, live <- LiveSessions

\* The handlers, their maps and the index implement LogoutPromise: whatever
\* overlaps, a session ends for its own browser or its own IdP session only,
\* and one with no sibling never escapes a notice that is processed.
KeepsLogoutPromise == Promise!Spec

-----------------------------------------------------------------------------
(* What the comments and the README say and the code does not keep.        *)

\* "so a logout token can find this session later": every session with a sid
\* is in the index.
EverySessionFindable ==
  \A p \in RPs, id \in Ids :
    Live(p, id) /\ sess[p][id].sid # NoSid => bySID[p][sess[p][id].sid] = id

\* Once an RP has processed the notice of an IdP session, it keeps no session
\* that stems from it.
NoSessionOutlivesNotice ==
  \A p \in RPs, id \in Ids : Live(p, id) => <<p, sess[p][id].sid>> \notin told

=============================================================================
