---------------------------- MODULE SessionStore ----------------------------
(***************************************************************************)
(* Chapter 03 (src/03-session-cookie): sessions in a server-side map, a    *)
(* cookie that carries nothing but the session's id.                       *)
(*                                                                         *)
(* Sites A and B share the store, and the cookie too, since a cookie does  *)
(* not tell ports apart: a request behaves the same at either, so the site *)
(* is left out.  Each store operation is one lock section and a handler    *)
(* strings several together, so handlers interleave between them, and the  *)
(* replies of one browser's concurrent requests arrive in any order.       *)
(*                                                                         *)
(* Time is kept as ages, capped where the code stops telling them apart.   *)
(***************************************************************************)
EXTENDS Naturals, FiniteSets

CONSTANTS Browsers, Users,
          Ids,         \* session ids create can draw
          Idle,        \* idleTimeout, in ticks; also the cookie's Max-Age
          MaxRequests, \* bound: requests in flight
          NoId, NoUser, NoSession

Session == [user : Users \cup {NoUser},    \* NoUser: anonymous
            age  : 0..Idle + 1]            \* since LastSeen

ASSUME StoreAssumption ==
  /\ NoId \notin Ids
  /\ NoUser \notin Users
  /\ NoSession \notin Session
  /\ Idle \in Nat \ {0}
  /\ MaxRequests \in Nat

MaybeId   == Ids \cup {NoId}
MaybeUser == Users \cup {NoUser}
NoCookie  == [id |-> NoId, ttl |-> 0]
Cookie    == [id : Ids, ttl : 1..Idle] \cup {NoCookie}

\* A request in progress; "login" has passed the password check for user,
\* "badlogin" has not.
Request == [kind   : {"home", "badlogin", "login", "logout"},
            step   : {"start", "create", "mark", "reply"},
            by     : Browsers,
            cookie : MaybeId,      \* the id it came with
            user   : MaybeUser,    \* whose password it brought
            id     : MaybeId]      \* the session it ends up with

VARIABLES
  regenerate, \* FALSE: started with -unsafe-no-regenerate
  m,      \* [Ids -> Session or NoSession], the store
  jar,    \* [Browsers -> Cookie]
  reqs,   \* requests in flight
  born,   \* ids drawn so far
  anon    \* history: ids created for an anonymous visitor

vars == <<regenerate, m, jar, reqs, born, anon>>

TypeOK ==
  /\ regenerate \in BOOLEAN
  /\ m \in [Ids -> Session \cup {NoSession}]
  /\ jar \in [Browsers -> Cookie]
  /\ reqs \subseteq Request
  /\ born \subseteq Ids
  /\ anon \subseteq Ids

Init ==
  /\ regenerate \in BOOLEAN
  /\ m = [id \in Ids |-> NoSession]
  /\ jar = [b \in Browsers |-> NoCookie]
  /\ reqs = {}
  /\ born = {}
  /\ anon = {}

Become(r, q) == reqs' = (reqs \ {r}) \cup {q}
Finish(r)    == reqs' = reqs \ {r}

-----------------------------------------------------------------------------
Tick ==
  /\ m' = [id \in Ids |-> IF m[id] # NoSession /\ m[id].age <= Idle
                            THEN [m[id] EXCEPT !.age = @ + 1] ELSE m[id]]
  /\ jar' = [b \in Browsers |-> IF jar[b].ttl > 1
                                  THEN [jar[b] EXCEPT !.ttl = @ - 1] ELSE NoCookie]
  /\ UNCHANGED <<regenerate, reqs, born, anon>>

\* A browser sends a request, with its cookie if it has one.
Send(b, kind, user) ==
  /\ Cardinality(reqs) < MaxRequests
  /\ kind = "login" <=> user # NoUser
  /\ reqs' = reqs \cup {[kind |-> kind, step |-> "start", by |-> b,
                         cookie |-> jar[b].id, user |-> user, id |-> NoId]}
  /\ UNCHANGED <<regenerate, m, jar, born, anon>>

\* get: a session is found if it is there and has not gone idle.
Found(id) == id # NoId /\ m[id] # NoSession /\ m[id].age <= Idle

\* Mutant: an idle session is touched before its age is looked at.
GetRevives(id) ==
  m' = IF id # NoId /\ m[id] # NoSession THEN [m EXCEPT ![id].age = 0] ELSE m

\* get: touch the session found, or drop the idle one.
Get(id) ==
  m' = CASE Found(id) -> [m EXCEPT ![id].age = 0]
         [] ~Found(id) /\ id # NoId -> [m EXCEPT ![id] = NoSession]
         [] OTHER -> m

\* Mutant: home makes a session without looking for one.
LookUpNothing(r) ==
  /\ r.step = "start"
  /\ r.kind \in {"home", "badlogin"}
  /\ Get(r.cookie)
  /\ IF r.kind = "home" THEN Become(r, [r EXCEPT !.step = "create"]) ELSE Finish(r)
  /\ UNCHANGED <<regenerate, jar, born, anon>>

\* home and a login that failed look the session up; home makes an anonymous
\* one when there is none.
LookUp(r) ==
  /\ r.step = "start"
  /\ r.kind \in {"home", "badlogin"}
  /\ Get(r.cookie)
  /\ IF r.kind = "home" /\ ~Found(r.cookie)
       THEN Become(r, [r EXCEPT !.step = "create"])
       ELSE Finish(r)
  /\ UNCHANGED <<regenerate, jar, born, anon>>

\* logout, and login before it creates a session, destroy the session whose id
\* the request brought, in a lock section of its own.
Destroy(r) ==
  /\ r.step = "start"
  /\ r.kind = "logout" \/ (r.kind = "login" /\ regenerate)
  /\ m' = IF r.cookie = NoId THEN m ELSE [m EXCEPT ![r.cookie] = NoSession]
  /\ Become(r, [r EXCEPT !.step = IF r.kind = "login" THEN "create" ELSE "reply"])
  /\ UNCHANGED <<regenerate, jar, born, anon>>

\* login started with -unsafe-no-regenerate takes the session it finds.
Reuse(r) ==
  /\ r.step = "start"
  /\ r.kind = "login" /\ ~regenerate
  /\ Get(r.cookie)
  /\ Become(r, IF Found(r.cookie) THEN [r EXCEPT !.step = "mark", !.id = r.cookie]
                                  ELSE [r EXCEPT !.step = "create"])
  /\ UNCHANGED <<regenerate, jar, born, anon>>

\* Whom create is called for: "" except by a login that regenerates.
Owner(r) == IF r.kind = "login" /\ regenerate THEN r.user ELSE NoUser

\* Mutant: the new session goes under the id the browser already has.
CreateInPlace(r, id) ==
  /\ r.step = "create"
  /\ id = r.cookie \/ (r.cookie = NoId /\ id \notin born)
  /\ born' = born \cup {id}
  /\ m' = [m EXCEPT ![id] = [user |-> Owner(r), age |-> 0]]
  /\ anon' = IF Owner(r) = NoUser THEN anon \cup {id} ELSE anon
  /\ Become(r, [r EXCEPT !.step = "reply", !.id = id])
  /\ UNCHANGED <<regenerate, jar>>

\* create: a fresh id, never drawn before.
Create(r, id) ==
  /\ r.step = "create"
  /\ id \notin born
  /\ born' = born \cup {id}
  /\ m' = [m EXCEPT ![id] = [user |-> Owner(r), age |-> 0]]
  /\ anon' = IF Owner(r) = NoUser THEN anon \cup {id} ELSE anon
  /\ Become(r, [r EXCEPT !.step = IF r.kind = "login" /\ ~regenerate
                                    THEN "mark" ELSE "reply",
                         !.id = id])
  /\ UNCHANGED <<regenerate, jar>>

\* The unsafe login writes the user through its pointer, outside the mutex: a
\* session deleted meanwhile stays deleted.
Mark(r) ==
  /\ r.step = "mark"
  /\ m' = IF m[r.id] = NoSession THEN m ELSE [m EXCEPT ![r.id].user = r.user]
  /\ Become(r, [r EXCEPT !.step = "reply"])
  /\ UNCHANGED <<regenerate, jar, born, anon>>

\* The reply reaches the browser: Set-Cookie with the id, or an expired cookie.
Reply(r) ==
  /\ r.step = "reply"
  /\ jar' = [jar EXCEPT ![r.by] =
               IF r.kind = "logout" THEN NoCookie ELSE [id |-> r.id, ttl |-> Idle]]
  /\ Finish(r)
  /\ UNCHANGED <<regenerate, m, born, anon>>

Next ==
  \/ Tick
  \/ \E b \in Browsers, user \in MaybeUser,
        kind \in {"home", "badlogin", "login", "logout"} : Send(b, kind, user)
  \/ \E r \in reqs : \/ LookUp(r) \/ Destroy(r) \/ Reuse(r) \/ Mark(r) \/ Reply(r)
                     \/ \E id \in Ids : Create(r, id)

Spec == Init /\ [][Next]_vars

-----------------------------------------------------------------------------
(* Properties.                                                             *)

\* "the id that ends up authenticated had better not be the same one": with
\* regeneration on, an id a visitor held before proving anything never becomes
\* that of an authenticated session, whatever logins run at once.
NeverAuthenticatedInPlace ==
  regenerate => \A id \in anon : m[id] # NoSession => m[id].user = NoUser

\* A session that was destroyed or expired never comes back, not even when a
\* login that had found it finishes after the logout.
NoResurrection ==
  [][\A id \in born : m[id] = NoSession => m'[id] = NoSession]_vars

\* How a browser comes to lose the cookie of a session that get would still
\* find: to its own Max-Age, to the reply of a login or a logout, or to an
\* earlier visit.  home does take a login from the browser when the visit was
\* sent before, with no cookie or that of a session that is over, and answered
\* after: its anonymous session comes last.  No other visit does, so the cookie
\* of a live session is never traded for an anonymous one by a visit sent with it.
LiveCookieLostOnlyTo ==
  [][\A b \in Browsers :
       Found(jar[b].id) /\ jar'[b].id # jar[b].id
         => \/ jar[b].ttl = 1 /\ jar'[b] = NoCookie /\ UNCHANGED reqs
            \/ \E r \in reqs \ reqs' :
                 /\ r.by = b /\ r.step = "reply"
                 /\ r.kind = "home" => ~Found(r.cookie)]_vars

-----------------------------------------------------------------------------
(* The promise kept.                                                       *)

Unborn == [stage |-> "unborn", user |-> NoUser]
Over   == [stage |-> "over", user |-> NoUser]

\* The life of each session: alive while get would find it, over for good once
\* it would not.
Lives ==
  [id \in Ids |->
     IF Found(id)          THEN [stage |-> "alive", user |-> m[id].user]
     ELSE IF id \in born   THEN Over
                            ELSE Unborn]

Promise == INSTANCE Sessions WITH life <- Lives

\* The store, its locks and the handlers that string them together implement
\* Sessions: whatever overlaps, a session has one life, and no visit, touch or
\* late write through a pointer brings back one that went idle or was destroyed.
KeepsSessions == Promise!Spec

=============================================================================
