------------------------- MODULE SessionStoreProofs -------------------------
(***************************************************************************)
(* Theorems of SessionStore, for any browsers, users, ids and timeouts.    *)
(* Both safety properties rest on ids being drawn once: an id that has     *)
(* been drawn is written only by handlers that found a session under it.   *)
(***************************************************************************)
EXTENDS SessionStore, TLAPS

\* Whatever the store or the history holds goes by an id that was drawn.
LiveAreBorn ==
  /\ \A id \in Ids : m[id] # NoSession => id \in born
  /\ anon \subseteq born

\* A request that has its session knows an id that was drawn, and only the
\* unsafe login goes through "mark".
SettledRequests ==
  \A r \in reqs :
    /\ r.step = "mark" => r.id \in born /\ ~regenerate
    /\ r.step = "reply" /\ r.kind # "logout" => r.id \in born

\* The inductive invariant.
StoreInv ==
  /\ TypeOK
  /\ LiveAreBorn
  /\ SettledRequests
  /\ NeverAuthenticatedInPlace

-----------------------------------------------------------------------------
(* What the actions do to one session.                                     *)

\* Tick makes a session older.
LEMMA TickEffect ==
  ASSUME TypeOK, Tick, NEW id \in Ids
  PROVE  /\ m'[id] \in Session \cup {NoSession}
         /\ m'[id] = NoSession <=> m[id] = NoSession
         /\ m[id] # NoSession => m'[id].user = m[id].user
<1> USE StoreAssumption
<1>1. CASE m[id] # NoSession /\ m[id].age <= Idle
  <2>1. m[id] \in Session /\ m'[id] = [m[id] EXCEPT !.age = @ + 1]
    BY <1>1 DEF Tick, TypeOK
  <2>2. ASSUME NEW k \in Session, k.age <= Idle
        PROVE  [k EXCEPT !.age = @ + 1] \in Session
    BY <2>2 DEF Session
  <2> QED
    BY <1>1, <2>1, <2>2 DEF Session
<1>2. CASE ~(m[id] # NoSession /\ m[id].age <= Idle)
  BY <1>2 DEF Tick, TypeOK
<1> QED
  BY <1>1, <1>2

\* Get touches a session, or drops an idle one.
LEMMA GetEffect ==
  ASSUME TypeOK, NEW c \in MaybeId, Get(c)
  PROVE  /\ m' \in [Ids -> Session \cup {NoSession}]
         /\ \A id \in Ids :
              /\ m[id] = NoSession => m'[id] = NoSession
              /\ m'[id] # NoSession => m'[id].user = m[id].user
         /\ \A id \in Ids : Found(c) /\ c = id => m[id] # NoSession
<1> USE StoreAssumption DEF TypeOK, MaybeId
<1>1. CASE Found(c)
  <2>1. c \in Ids /\ m[c] \in Session
    BY <1>1 DEF Found
  <2>2. [m[c] EXCEPT !.age = 0] \in Session
    BY <2>1 DEF Session
  <2>3. m' = [m EXCEPT ![c] = [m[c] EXCEPT !.age = 0]]
    BY <1>1 DEF Get
  <2>4. [m[c] EXCEPT !.age = 0].user = m[c].user
    BY <2>1 DEF Session
  <2> QED
    BY <1>1, <2>1, <2>2, <2>3, <2>4 DEF Found
<1>2. CASE ~Found(c) /\ c # NoId
  BY <1>2 DEF Get
<1>3. CASE ~Found(c) /\ c = NoId
  BY <1>3 DEF Get
<1> QED
  BY <1>1, <1>2, <1>3

\* Mark gives a session that is there another user.
LEMMA MarkEffect ==
  ASSUME TypeOK, SettledRequests, NEW r \in reqs, Mark(r)
  PROVE  /\ m' \in [Ids -> Session \cup {NoSession}]
         /\ \A id \in Ids : m[id] = NoSession => m'[id] = NoSession
<1>1. r.id \in Ids /\ r.user \in MaybeUser
  BY DEF TypeOK, SettledRequests, Mark, Request
<1>2. ASSUME NEW k \in Session
      PROVE  [k EXCEPT !.user = r.user] \in Session
  BY <1>1 DEF Session, MaybeUser
<1>3. CASE m[r.id] = NoSession
  BY <1>3 DEF Mark, TypeOK
<1>4. CASE m[r.id] # NoSession
  <2>1. m[r.id] \in Session
    BY <1>1, <1>4 DEF TypeOK
  <2>2. m' = [m EXCEPT ![r.id] = [m[r.id] EXCEPT !.user = r.user]]
    BY <1>4 DEF Mark
  <2> QED
    BY <1>1, <1>2, <1>4, <2>1, <2>2 DEF TypeOK
<1> QED
  BY <1>3, <1>4

\* Create stores a session of the request's owner under a fresh id.
LEMMA CreateEffect ==
  ASSUME TypeOK, NEW r \in reqs, NEW id \in Ids, Create(r, id)
  PROVE  /\ m' \in [Ids -> Session \cup {NoSession}]
         /\ m'[id] # NoSession
         /\ m'[id].user = Owner(r)
         /\ \A other \in Ids \ {id} : m'[other] = m[other]
<1>1. r.user \in MaybeUser
  BY DEF TypeOK, Request
<1>2. [user |-> Owner(r), age |-> 0] \in Session
  BY <1>1, StoreAssumption DEF Session, Owner, MaybeUser
<1> QED
  BY <1>2, StoreAssumption DEF TypeOK, Create

-----------------------------------------------------------------------------
(* Every step preserves the invariant.                                     *)

\* Every step preserves the inductive invariant.
LEMMA StoreStep == StoreInv /\ [Next]_vars => StoreInv'
<1> SUFFICES ASSUME StoreInv, [Next]_vars PROVE StoreInv'
  OBVIOUS
<1> USE DEF StoreInv
<1>1. CASE Tick
  <2>1. m' \in [Ids -> Session \cup {NoSession}]
    <3>1. \A id \in Ids : m'[id] \in Session \cup {NoSession}
      BY <1>1, TickEffect
    <3> QED
      BY <1>1, <3>1 DEF Tick
  <2>2. jar' \in [Browsers -> Cookie]
    BY <1>1, StoreAssumption DEF Tick, TypeOK, Cookie, NoCookie
  <2>3. TypeOK'
    BY <1>1, <2>1, <2>2 DEF Tick, TypeOK
  <2>4. LiveAreBorn' /\ NeverAuthenticatedInPlace'
    <3>1. \A id \in Ids : m'[id] = NoSession <=> m[id] = NoSession
      BY <1>1, TickEffect
    <3>2. \A id \in Ids : m[id] # NoSession => m'[id].user = m[id].user
      BY <1>1, TickEffect
    <3> QED
      BY <1>1, <3>1, <3>2 DEF Tick, LiveAreBorn, NeverAuthenticatedInPlace, TypeOK
  <2>5. SettledRequests'
    BY <1>1 DEF Tick, SettledRequests
  <2> QED
    BY <2>3, <2>4, <2>5
<1>2. ASSUME NEW b \in Browsers, NEW user \in MaybeUser,
             NEW kind \in {"home", "badlogin", "login", "logout"},
             Send(b, kind, user)
      PROVE  StoreInv'
  <2>1. jar[b].id \in MaybeId
    BY DEF TypeOK, Cookie, NoCookie, MaybeId
  <2>2. TypeOK'
    BY <1>2, <2>1 DEF Send, TypeOK, Request, MaybeId
  <2>3. SettledRequests'
    BY <1>2 DEF Send, SettledRequests
  <2> QED
    BY <1>2, <2>2, <2>3 DEF Send, LiveAreBorn, NeverAuthenticatedInPlace
<1>3. ASSUME NEW r \in reqs, LookUp(r)
      PROVE  StoreInv'
  <2>1. r \in Request /\ r.cookie \in MaybeId
    BY DEF TypeOK, Request
  <2>2. /\ m' \in [Ids -> Session \cup {NoSession}]
        /\ \A id \in Ids :
             /\ m[id] = NoSession => m'[id] = NoSession
             /\ m'[id] # NoSession => m'[id].user = m[id].user
    BY <1>3, <2>1, GetEffect DEF LookUp
  <2>3. reqs' \subseteq reqs \cup {[r EXCEPT !.step = "create"]}
    BY <1>3 DEF LookUp, Become, Finish
  <2>4. [r EXCEPT !.step = "create"] \in Request /\ [r EXCEPT !.step = "create"].step = "create"
    BY <2>1 DEF Request
  <2>5. TypeOK' /\ SettledRequests'
    BY <1>3, <2>2, <2>3, <2>4 DEF LookUp, TypeOK, SettledRequests
  <2> QED
    BY <1>3, <2>2, <2>5 DEF LookUp, LiveAreBorn, NeverAuthenticatedInPlace, TypeOK
<1>4. ASSUME NEW r \in reqs, Destroy(r)
      PROVE  StoreInv'
  <2> DEFINE q == [r EXCEPT !.step = IF r.kind = "login" THEN "create" ELSE "reply"]
  <2>1. r \in Request /\ r.cookie \in MaybeId
    BY DEF TypeOK, Request
  <2>2. m' = IF r.cookie = NoId THEN m ELSE [m EXCEPT ![r.cookie] = NoSession]
    BY <1>4 DEF Destroy
  <2>3. /\ m' \in [Ids -> Session \cup {NoSession}]
        /\ \A id \in Ids : m'[id] = m[id] \/ m'[id] = NoSession
    BY <2>1, <2>2 DEF TypeOK, MaybeId
  <2>4. /\ q \in Request
        /\ q.step = "create" \/ (q.step = "reply" /\ q.kind = "logout")
    BY <1>4, <2>1 DEF Destroy, Request
  <2>5. reqs' \subseteq reqs \cup {q}
    BY <1>4 DEF Destroy, Become
  <2>6. TypeOK' /\ SettledRequests'
    BY <1>4, <2>3, <2>4, <2>5 DEF Destroy, TypeOK, SettledRequests
  <2> QED
    BY <1>4, <2>3, <2>6 DEF Destroy, LiveAreBorn, NeverAuthenticatedInPlace, TypeOK
<1>5. ASSUME NEW r \in reqs, Reuse(r)
      PROVE  StoreInv'
  <2> DEFINE q == IF Found(r.cookie) THEN [r EXCEPT !.step = "mark", !.id = r.cookie]
                                     ELSE [r EXCEPT !.step = "create"]
  <2>1. r \in Request /\ r.cookie \in MaybeId
    BY DEF TypeOK, Request
  <2>2. /\ m' \in [Ids -> Session \cup {NoSession}]
        /\ \A id \in Ids : m[id] = NoSession => m'[id] = NoSession
        /\ \A id \in Ids : Found(r.cookie) /\ r.cookie = id => m[id] # NoSession
    BY <1>5, <2>1, GetEffect DEF Reuse
  <2>3. q \in Request
    BY <2>1 DEF Request
  <2>4. q.step = "create" \/ (q.step = "mark" /\ q.id \in born /\ ~regenerate)
    <3>1. CASE Found(r.cookie)
      <4>1. r.cookie \in Ids
        BY <2>1, <3>1 DEF Found, MaybeId
      <4>2. r.cookie \in born
        BY <2>2, <3>1, <4>1 DEF LiveAreBorn
      <4> QED
        BY <1>5, <2>1, <3>1, <4>2 DEF Reuse, Request
    <3>2. CASE ~Found(r.cookie)
      BY <2>1, <3>2 DEF Request
    <3> QED
      BY <3>1, <3>2
  <2>5. reqs' \subseteq reqs \cup {q}
    BY <1>5 DEF Reuse, Become
  <2>6. TypeOK' /\ SettledRequests'
    BY <1>5, <2>2, <2>3, <2>4, <2>5 DEF Reuse, TypeOK, SettledRequests
  <2> QED
    BY <1>5, <2>2, <2>6 DEF Reuse, LiveAreBorn, NeverAuthenticatedInPlace, TypeOK
<1>6. ASSUME NEW r \in reqs, NEW id \in Ids, Create(r, id)
      PROVE  StoreInv'
  <2> DEFINE q == [r EXCEPT !.step = IF r.kind = "login" /\ ~regenerate
                                       THEN "mark" ELSE "reply",
                            !.id = id]
  <2>1. r \in Request
    BY DEF TypeOK
  <2>2. /\ m' \in [Ids -> Session \cup {NoSession}]
        /\ m'[id] # NoSession
        /\ m'[id].user = Owner(r)
        /\ \A other \in Ids \ {id} : m'[other] = m[other]
    BY <1>6, CreateEffect
  <2>3. q \in Request /\ q.id = id /\ (q.step = "mark" => ~regenerate)
    BY <2>1 DEF Request, MaybeId
  <2>4. reqs' \subseteq reqs \cup {q} /\ born' = born \cup {id} /\ UNCHANGED regenerate
    BY <1>6 DEF Create, Become
  <2>5. TypeOK'
    BY <1>6, <2>2, <2>3, <2>4 DEF Create, TypeOK
  <2>6. SettledRequests'
    BY <2>3, <2>4 DEF SettledRequests
  <2>7. LiveAreBorn'
    BY <1>6, <2>2, <2>4 DEF Create, LiveAreBorn
  <2>8. NeverAuthenticatedInPlace'
    <3>1. id \notin anon
      BY <1>6 DEF Create, LiveAreBorn
    <3>2. anon' = IF Owner(r) = NoUser THEN anon \cup {id} ELSE anon
      BY <1>6 DEF Create
    <3> QED
      BY <2>2, <2>4, <3>1, <3>2 DEF NeverAuthenticatedInPlace, TypeOK
  <2> QED
    BY <2>5, <2>6, <2>7, <2>8
<1>7. ASSUME NEW r \in reqs, Mark(r)
      PROVE  StoreInv'
  <2>1. r \in Request /\ r.id \in born /\ ~regenerate
    BY <1>7 DEF Mark, TypeOK, SettledRequests
  <2>2. /\ m' \in [Ids -> Session \cup {NoSession}]
        /\ \A id \in Ids : m[id] = NoSession => m'[id] = NoSession
    BY <1>7, MarkEffect
  <2>3. /\ [r EXCEPT !.step = "reply"] \in Request
        /\ [r EXCEPT !.step = "reply"].id = r.id
        /\ [r EXCEPT !.step = "reply"].step = "reply"
    BY <2>1 DEF Request
  <2>4. reqs' \subseteq reqs \cup {[r EXCEPT !.step = "reply"]}
    BY <1>7 DEF Mark, Become
  <2>5. TypeOK' /\ SettledRequests'
    BY <1>7, <2>1, <2>2, <2>3, <2>4 DEF Mark, TypeOK, SettledRequests
  <2> QED
    BY <1>7, <2>1, <2>2, <2>5 DEF Mark, LiveAreBorn, NeverAuthenticatedInPlace
<1>8. ASSUME NEW r \in reqs, Reply(r)
      PROVE  StoreInv'
  <2>1. r \in Request /\ r.by \in Browsers
    BY DEF TypeOK, Request
  <2>2. jar' \in [Browsers -> Cookie]
    <3>1. r.kind # "logout" => [id |-> r.id, ttl |-> Idle] \in Cookie
      BY <1>8, StoreAssumption DEF Reply, SettledRequests, TypeOK, Cookie
    <3>2. NoCookie \in Cookie
      BY DEF Cookie
    <3> QED
      BY <1>8, <2>1, <3>1, <3>2 DEF Reply, TypeOK
  <2>3. reqs' \subseteq reqs
    BY <1>8 DEF Reply, Finish
  <2>4. TypeOK' /\ SettledRequests'
    BY <1>8, <2>2, <2>3 DEF Reply, TypeOK, SettledRequests
  <2> QED
    BY <1>8, <2>4 DEF Reply, LiveAreBorn, NeverAuthenticatedInPlace
<1>9. CASE UNCHANGED vars
  BY <1>9 DEF vars, TypeOK, LiveAreBorn, SettledRequests, NeverAuthenticatedInPlace
<1> QED
  BY <1>1, <1>2, <1>3, <1>4, <1>5, <1>6, <1>7, <1>8, <1>9 DEF Next

\* No step brings a session back under an id that was drawn before.
LEMMA ResurrectionStep ==
  ASSUME StoreInv, [Next]_vars, NEW id \in born, m[id] = NoSession
  PROVE  m'[id] = NoSession
<1> USE DEF StoreInv
<1>0. id \in Ids
  BY DEF TypeOK
<1>1. CASE Tick
  BY <1>0, <1>1, TickEffect
<1>2. ASSUME NEW r \in reqs, LookUp(r) \/ Reuse(r)
      PROVE  m'[id] = NoSession
  <2>1. Get(r.cookie) /\ r.cookie \in MaybeId
    BY <1>2 DEF LookUp, Reuse, TypeOK, Request
  <2> QED
    BY <1>0, <2>1, GetEffect
<1>3. ASSUME NEW r \in reqs, Destroy(r)
      PROVE  m'[id] = NoSession
  BY <1>0, <1>3 DEF Destroy, TypeOK
<1>4. ASSUME NEW r \in reqs, NEW fresh \in Ids, Create(r, fresh)
      PROVE  m'[id] = NoSession
  BY <1>0, <1>4 DEF Create, TypeOK
<1>5. ASSUME NEW r \in reqs, Mark(r)
      PROVE  m'[id] = NoSession
  BY <1>0, <1>5, MarkEffect
<1>6. CASE UNCHANGED m
  BY <1>6
<1>7. ASSUME NEW b \in Browsers, NEW user \in MaybeUser,
             NEW kind \in {"home", "badlogin", "login", "logout"},
             Send(b, kind, user)
      PROVE  UNCHANGED m
  BY <1>7 DEF Send
<1>8. ASSUME NEW r \in reqs, Reply(r)
      PROVE  UNCHANGED m
  BY <1>8 DEF Reply
<1> QED
  BY <1>1, <1>2, <1>3, <1>4, <1>5, <1>6, <1>7, <1>8 DEF Next, vars

-----------------------------------------------------------------------------
(* One life per session: the steps of SessionStore as steps of Sessions.   *)

\* A request that will sign somebody in knows whom.
LoginsNamed ==
  \A r \in reqs : /\ r.kind = "login" => r.user \in Users
                  /\ r.step = "mark" => r.kind = "login"

\* Every step keeps the users of logins.
LEMMA NamedStep == StoreInv /\ LoginsNamed /\ [Next]_vars => LoginsNamed'
<1> SUFFICES ASSUME StoreInv, LoginsNamed, [Next]_vars PROVE LoginsNamed'
  OBVIOUS
<1> USE DEF StoreInv, LoginsNamed
<1>1. ASSUME NEW b \in Browsers, NEW user \in MaybeUser,
             NEW kind \in {"home", "badlogin", "login", "logout"},
             Send(b, kind, user)
      PROVE  LoginsNamed'
  BY <1>1 DEF Send, MaybeUser
<1>2. ASSUME NEW r \in reqs, LookUp(r)
      PROVE  LoginsNamed'
  <2>1. reqs' \subseteq reqs \cup {[r EXCEPT !.step = "create"]}
    BY <1>2 DEF LookUp, Become, Finish
  <2> QED
    BY <2>1 DEF TypeOK, Request
<1>3. ASSUME NEW r \in reqs, Destroy(r)
      PROVE  LoginsNamed'
  <2>1. reqs' \subseteq reqs \cup {[r EXCEPT !.step = "create"],
                                   [r EXCEPT !.step = "reply"]}
    BY <1>3 DEF Destroy, Become
  <2> QED
    BY <2>1 DEF TypeOK, Request
<1>4. ASSUME NEW r \in reqs, Reuse(r)
      PROVE  LoginsNamed'
  <2>1. reqs' \subseteq reqs \cup {[r EXCEPT !.step = "mark", !.id = r.cookie],
                                   [r EXCEPT !.step = "create"]}
    BY <1>4 DEF Reuse, Become
  <2>2. r.kind = "login"
    BY <1>4 DEF Reuse
  <2> QED
    BY <2>1, <2>2 DEF TypeOK, Request
<1>5. ASSUME NEW r \in reqs, NEW id \in Ids, Create(r, id)
      PROVE  LoginsNamed'
  <2> DEFINE q == [r EXCEPT !.step = IF r.kind = "login" /\ ~regenerate
                                       THEN "mark" ELSE "reply",
                            !.id = id]
  <2>1. reqs' \subseteq reqs \cup {q}
    BY <1>5 DEF Create, Become
  <2>2. /\ q.kind = r.kind /\ q.user = r.user
        /\ q.step = "mark" => r.kind = "login"
    BY DEF TypeOK, Request
  <2> QED
    BY <2>1, <2>2
<1>6. ASSUME NEW r \in reqs, Mark(r)
      PROVE  LoginsNamed'
  <2>1. reqs' \subseteq reqs \cup {[r EXCEPT !.step = "reply"]}
    BY <1>6 DEF Mark, Become
  <2> QED
    BY <2>1 DEF TypeOK, Request
<1>7. ASSUME NEW r \in reqs, Reply(r)
      PROVE  LoginsNamed'
  BY <1>7 DEF Reply, Finish
<1>8. CASE Tick \/ UNCHANGED vars
  BY <1>8 DEF Tick, vars
<1> QED
  BY <1>1, <1>2, <1>3, <1>4, <1>5, <1>6, <1>7, <1>8 DEF Next

\* A session that stays found, and its user's, leads the same life.
LEMMA SameLife ==
  ASSUME NEW id \in Ids, id \in born' <=> id \in born,
         Found(id)' <=> Found(id), Found(id) => m'[id].user = m[id].user
  PROVE  Lives'[id] = Lives[id]
BY DEF Lives, Unborn, Over

\* A session no longer found has ended.
LEMMA EndOfLife ==
  ASSUME NEW id \in Ids, id \in born', Found(id), ~Found(id)'
  PROVE  Promise!Ends(id)
BY DEF Lives, Unborn, Over, Promise!Ends, Promise!Over

\* What Tick, Get and Destroy do to the life of a session.
LEMMA TickLife ==
  ASSUME TypeOK, LiveAreBorn, Tick, NEW id \in Ids
  PROVE  Lives'[id] = Lives[id] \/ Promise!Ends(id)
<1>1. /\ m'[id] = NoSession <=> m[id] = NoSession
      /\ m[id] # NoSession => m'[id].user = m[id].user
      /\ born' = born
  BY TickEffect DEF Tick
<1>2. Found(id)' => Found(id)
  <2> SUFFICES ASSUME Found(id)', ~Found(id) PROVE FALSE
    OBVIOUS
  <2>1. m[id] # NoSession /\ ~(m[id].age <= Idle)
    BY <1>1 DEF Found
  <2>2. m'[id] = m[id]
    BY <2>1 DEF Tick
  <2> QED
    BY <2>1, <2>2 DEF Found
<1>3. CASE Found(id)'
  BY <1>1, <1>2, <1>3, SameLife DEF Found
<1>4. CASE ~Found(id)' /\ Found(id)
  BY <1>1, <1>4, EndOfLife DEF Found, LiveAreBorn
<1>5. CASE ~Found(id)' /\ ~Found(id)
  BY <1>1, <1>5, SameLife
<1> QED
  BY <1>3, <1>4, <1>5

\* Looking a session up changes the life of none.
LEMMA GetLife ==
  ASSUME TypeOK, NEW c \in MaybeId, Get(c), born' = born, NEW id \in Ids
  PROVE  Lives'[id] = Lives[id]
<1> USE StoreAssumption DEF MaybeId, TypeOK
<1>1. CASE Found(c) /\ id = c
  <2>1. m[c] \in Session /\ m' = [m EXCEPT ![c] = [m[c] EXCEPT !.age = 0]]
    BY <1>1 DEF Get, Found
  <2>2. m'[id] = [m[c] EXCEPT !.age = 0] /\ [m[c] EXCEPT !.age = 0] \in Session
    BY <1>1, <2>1 DEF Session
  <2>3. m'[id].user = m[id].user /\ m'[id].age = 0 /\ m'[id] # NoSession
    BY <1>1, <2>1, <2>2 DEF Session
  <2> QED
    BY <1>1, <2>3, SameLife DEF Found
<1>2. CASE ~Found(c) /\ id = c
  <2>1. m'[id] = NoSession
    BY <1>2 DEF Get
  <2> QED
    BY <1>2, <2>1, SameLife DEF Found
<1>3. CASE id # c
  <2>1. m'[id] = m[id]
    BY <1>3 DEF Get
  <2> QED
    BY <2>1, SameLife DEF Found
<1> QED
  BY <1>1, <1>2, <1>3

\* Destroying changes the life of none, or ends it.
LEMMA DestroyLife ==
  ASSUME TypeOK, LiveAreBorn, NEW r \in reqs, Destroy(r), NEW id \in Ids
  PROVE  Lives'[id] = Lives[id] \/ Promise!Ends(id)
<1>1. /\ m'[id] = m[id] \/ m'[id] = NoSession
      /\ born' = born
  BY StoreAssumption DEF Destroy, TypeOK
<1>2. CASE m'[id] = m[id]
  BY <1>1, <1>2, SameLife DEF Found
<1>3. CASE m'[id] = NoSession /\ Found(id)
  BY <1>1, <1>3, EndOfLife DEF Found, LiveAreBorn
<1>4. CASE m'[id] = NoSession /\ ~Found(id)
  BY <1>1, <1>4, SameLife DEF Found
<1> QED
  BY <1>1, <1>2, <1>3, <1>4

\* A new session opens a life, for a user only if logins regenerate.
LEMMA CreateLife ==
  ASSUME TypeOK, LiveAreBorn, LoginsNamed, NEW r \in reqs, NEW fresh \in Ids,
         Create(r, fresh), NEW id \in Ids
  PROVE  Lives'[id] = Lives[id] \/ Promise!Opens(id)
<1>1. CASE id = fresh
  <2>1. Lives[id] = Unborn
    BY <1>1 DEF Create, LiveAreBorn, Found, Lives
  <2>2. m'[id] = [user |-> Owner(r), age |-> 0] /\ id \in born' /\ id # NoId
    BY <1>1, StoreAssumption DEF Create, TypeOK
  <2>3. /\ Owner(r) \in MaybeUser
        /\ Owner(r) # NoUser => regenerate
    BY DEF Owner, LoginsNamed, MaybeUser
  <2>4. [user |-> Owner(r), age |-> 0] \in Session
    BY <2>3, StoreAssumption DEF Session, MaybeUser
  <2>5. Lives'[id] = [stage |-> "alive", user |-> Owner(r)]
    BY <2>2, <2>4, StoreAssumption DEF Lives, Found
  <2> QED
    BY <2>1, <2>3, <2>5 DEF Promise!Opens, Promise!Unborn, Promise!Alive,
       Promise!MaybeUser, Unborn, MaybeUser
<1>2. CASE id # fresh
  <2>1. m'[id] = m[id] /\ (id \in born' <=> id \in born)
    BY <1>2 DEF Create, TypeOK
  <2> QED
    BY <2>1, SameLife DEF Found
<1> QED
  BY <1>1, <1>2

\* The late write of the unsafe login signs a session in, if it is there still.
LEMMA MarkLife ==
  ASSUME TypeOK, LiveAreBorn, SettledRequests, LoginsNamed,
         NEW r \in reqs, Mark(r), NEW id \in Ids
  PROVE  Lives'[id] = Lives[id] \/ Promise!SignsIn(id)
<1>1. r.id \in Ids /\ r.user \in Users /\ ~regenerate /\ born' = born
  BY DEF TypeOK, SettledRequests, LoginsNamed, Mark
<1>2. CASE m[r.id] = NoSession \/ id # r.id
  <2>1. m'[id] = m[id]
    BY <1>1, <1>2 DEF Mark, TypeOK
  <2> QED
    BY <1>1, <2>1, SameLife DEF Found
<1>3. CASE m[r.id] # NoSession /\ id = r.id
  <2>1. m[id] \in Session
    BY <1>3 DEF TypeOK
  <2>2. m'[id] = [m[id] EXCEPT !.user = r.user]
    BY <1>3, <2>1 DEF Mark, TypeOK
  <2>3. /\ m'[id].user = r.user
        /\ m'[id].age = m[id].age
        /\ m'[id] \in Session
    BY <1>1, <2>1, <2>2 DEF Session
  <2>4. Found(id)' <=> Found(id)
    BY <1>3, <2>3, StoreAssumption DEF Found
  <2>5. CASE Found(id)
    <3>1. id \in born
      BY <1>3 DEF LiveAreBorn
    <3>2. /\ Lives[id] = [stage |-> "alive", user |-> m[id].user]
          /\ Lives'[id] = [stage |-> "alive", user |-> r.user]
      BY <2>3, <2>4, <2>5 DEF Lives
    <3> QED
      BY <1>1, <3>2 DEF Promise!SignsIn, Promise!Alive
  <2>6. CASE ~Found(id)
    BY <1>1, <2>4, <2>6, SameLife
  <2> QED
    BY <2>5, <2>6
<1> QED
  BY <1>2, <1>3

\* Every step of the store is a step of the promise, or none.
LEMMA LifeStep ==
  ASSUME StoreInv, LoginsNamed, [Next]_vars
  PROVE  Promise!Next
<1> USE DEF StoreInv
<1>1. UNCHANGED regenerate
  BY DEF Next, vars, Tick, Send, LookUp, Destroy, Reuse, Create, Mark, Reply
<1>2. DOMAIN Lives' = Ids
  BY DEF Lives
<1>3. ASSUME NEW id \in Ids
      PROVE  \/ Lives'[id] = Lives[id]
             \/ Promise!Opens(id) \/ Promise!SignsIn(id) \/ Promise!Ends(id)
  <2>1. CASE Tick
    BY <2>1, TickLife
  <2>2. ASSUME NEW r \in reqs, LookUp(r) \/ Reuse(r)
        PROVE  Lives'[id] = Lives[id]
    <3>1. Get(r.cookie) /\ r.cookie \in MaybeId /\ born' = born
      BY <2>2 DEF LookUp, Reuse, TypeOK, Request
    <3> QED
      BY <3>1, GetLife
  <2>3. ASSUME NEW r \in reqs, Destroy(r)
        PROVE  Lives'[id] = Lives[id] \/ Promise!Ends(id)
    BY <2>3, DestroyLife
  <2>4. ASSUME NEW r \in reqs, NEW fresh \in Ids, Create(r, fresh)
        PROVE  Lives'[id] = Lives[id] \/ Promise!Opens(id)
    BY <2>4, CreateLife
  <2>5. ASSUME NEW r \in reqs, Mark(r)
        PROVE  Lives'[id] = Lives[id] \/ Promise!SignsIn(id)
    BY <2>5, MarkLife
  <2>6. ASSUME m' = m, born' = born
        PROVE  Lives'[id] = Lives[id]
    BY <2>6, SameLife DEF Found
  <2>7. ASSUME NEW b \in Browsers, NEW user \in MaybeUser,
               NEW kind \in {"home", "badlogin", "login", "logout"},
               Send(b, kind, user)
        PROVE  m' = m /\ born' = born
    BY <2>7 DEF Send
  <2>8. ASSUME NEW r \in reqs, Reply(r)
        PROVE  m' = m /\ born' = born
    BY <2>8 DEF Reply
  <2> QED
    BY <2>1, <2>2, <2>3, <2>4, <2>5, <2>6, <2>7, <2>8 DEF Next, vars
<1> QED
  BY <1>1, <1>2, <1>3 DEF Promise!Next

-----------------------------------------------------------------------------
(* What costs a browser a session that is still found.                     *)

\* Browsers and requests know ids that were drawn, or none.
CookiesBorn ==
  /\ \A b \in Browsers : jar[b].id \in born \cup {NoId}
  /\ \A r \in reqs : r.cookie \in born \cup {NoId}

\* A visit that makes a session of its own came with none to be found.
VisitsLost ==
  \A r \in reqs : r.kind = "home" /\ r.step # "start" => ~Found(r.cookie)

VisitInv == LoginsNamed /\ CookiesBorn /\ VisitsLost

\* A session that is no longer found is never found again.
LEMMA StaysLost ==
  ASSUME StoreInv, LoginsNamed, [Next]_vars,
         NEW c \in born \cup {NoId}, ~Found(c)
  PROVE  ~Found(c)'
<1>1. CASE c = NoId
  BY <1>1 DEF Found
<1>2. CASE c \in born /\ c # NoId
  <2>1. c \in Ids
    BY <1>2 DEF StoreInv, TypeOK
  <2>2. Lives[c] = Over
    BY <1>2, <2>1 DEF Lives
  <2>3. \/ Lives'[c] = Lives[c]
        \/ Promise!Opens(c) \/ Promise!SignsIn(c) \/ Promise!Ends(c)
    BY <2>1, LifeStep DEF Promise!Next
  <2>4. Lives'[c] = Over
    BY <2>2, <2>3 DEF Promise!Opens, Promise!SignsIn, Promise!Ends, Promise!Unborn, Over
  <2> QED
    BY <2>1, <2>4 DEF Lives, Over
<1> QED
  BY <1>1, <1>2

\* What a step makes of the requests: it keeps them, begins one, or takes one a
\* step further, and a visit goes on only if its session was not found.
LEMMA RequestStep ==
  ASSUME StoreInv, LoginsNamed, [Next]_vars, NEW q \in reqs'
  PROVE  \/ q \in reqs
         \/ q.step = "start" /\ \E b \in Browsers : q.cookie = jar[b].id
         \/ \E r \in reqs :
              /\ q.kind = r.kind /\ q.cookie = r.cookie
              /\ r.kind = "home" => r.step # "start" \/ ~Found(r.cookie)
<1> USE DEF StoreInv
<1>0. ASSUME NEW r \in reqs, NEW step, NEW id
      PROVE  /\ [r EXCEPT !.step = step].kind = r.kind
             /\ [r EXCEPT !.step = step].cookie = r.cookie
             /\ [r EXCEPT !.step = step, !.id = id].kind = r.kind
             /\ [r EXCEPT !.step = step, !.id = id].cookie = r.cookie
  BY DEF TypeOK, Request
<1>1. ASSUME NEW b \in Browsers, NEW user \in MaybeUser,
             NEW kind \in {"home", "badlogin", "login", "logout"},
             Send(b, kind, user)
      PROVE  q \in reqs \/ (q.step = "start" /\ q.cookie = jar[b].id)
  BY <1>1 DEF Send
<1>2. ASSUME NEW r \in reqs, LookUp(r), q \notin reqs
      PROVE  /\ q.kind = r.kind /\ q.cookie = r.cookie
             /\ r.kind = "home" => ~Found(r.cookie)
  <2>1. q = [r EXCEPT !.step = "create"] /\ ~Found(r.cookie)
    BY <1>2 DEF LookUp, Become, Finish
  <2> QED
    BY <1>0, <2>1
<1>3. ASSUME NEW r \in reqs, Destroy(r), q \notin reqs
      PROVE  q.kind = r.kind /\ q.cookie = r.cookie /\ r.kind # "home"
  <2>1. q \in {[r EXCEPT !.step = "create"], [r EXCEPT !.step = "reply"]}
    BY <1>3 DEF Destroy, Become
  <2>2. r.kind # "home"
    BY <1>3 DEF Destroy
  <2> QED
    BY <2>1, <2>2 DEF TypeOK, Request
<1>4. ASSUME NEW r \in reqs, Reuse(r), q \notin reqs
      PROVE  q.kind = r.kind /\ q.cookie = r.cookie /\ r.kind # "home"
  <2>1. q \in {[r EXCEPT !.step = "mark", !.id = r.cookie], [r EXCEPT !.step = "create"]}
    BY <1>4 DEF Reuse, Become
  <2>2. r.kind # "home"
    BY <1>4 DEF Reuse
  <2> QED
    BY <2>1, <2>2 DEF TypeOK, Request
<1>5. ASSUME NEW r \in reqs, NEW id \in Ids, Create(r, id), q \notin reqs
      PROVE  q.kind = r.kind /\ q.cookie = r.cookie /\ r.step # "start"
  <2> DEFINE step == IF r.kind = "login" /\ ~regenerate THEN "mark" ELSE "reply"
  <2>1. q = [r EXCEPT !.step = step, !.id = id] /\ r.step = "create"
    BY <1>5 DEF Create, Become
  <2> HIDE DEF step
  <2> QED
    BY <1>0, <2>1
<1>6. ASSUME NEW r \in reqs, Mark(r), q \notin reqs
      PROVE  q.kind = r.kind /\ q.cookie = r.cookie /\ r.step # "start"
  <2>1. q = [r EXCEPT !.step = "reply"] /\ r.step = "mark"
    BY <1>6 DEF Mark, Become
  <2> QED
    BY <1>0, <2>1
<1>7. ASSUME NEW r \in reqs, Reply(r)
      PROVE  q \in reqs
  BY <1>7 DEF Reply, Finish
<1>8. CASE Tick \/ UNCHANGED vars
  BY <1>8 DEF Tick, vars
<1> QED
  BY <1>1, <1>2, <1>3, <1>4, <1>5, <1>6, <1>7, <1>8 DEF Next

\* A cookie a browser gets is that of a session it was told of.
LEMMA JarStep ==
  ASSUME StoreInv, LoginsNamed, CookiesBorn, [Next]_vars, NEW b \in Browsers
  PROVE  jar'[b].id \in born' \cup {NoId}
<1> USE DEF StoreInv
<1>1. CASE Tick
  <2>1. jar'[b] = NoCookie \/ jar'[b] = [jar[b] EXCEPT !.ttl = @ - 1]
    BY <1>1 DEF Tick
  <2>2. jar[b] \in Cookie
    BY DEF TypeOK
  <2>3. jar'[b].id \in {NoId, jar[b].id}
    BY <2>1, <2>2 DEF Cookie, NoCookie
  <2> QED
    BY <1>1, <2>3 DEF Tick, CookiesBorn
<1>2. ASSUME NEW r \in reqs, Reply(r)
      PROVE  jar'[b].id \in born' \cup {NoId}
  <2>1. \/ jar'[b] = jar[b]
        \/ jar'[b] = NoCookie
        \/ jar'[b] = [id |-> r.id, ttl |-> Idle] /\ r.kind # "logout"
    BY <1>2 DEF Reply, TypeOK
  <2>2. r.kind # "logout" => r.id \in born
    BY <1>2 DEF Reply, SettledRequests
  <2>3. jar'[b].id \in {jar[b].id, NoId} \/ jar'[b].id \in born
    BY <2>1, <2>2 DEF NoCookie
  <2> QED
    BY <1>2, <2>3 DEF Reply, CookiesBorn
<1>3. ASSUME jar' = jar, born \subseteq born'
      PROVE  jar'[b].id \in born' \cup {NoId}
  BY <1>3 DEF CookiesBorn
<1>4. ASSUME NEW c \in Browsers, NEW user \in MaybeUser,
             NEW kind \in {"home", "badlogin", "login", "logout"},
             Send(c, kind, user)
      PROVE  jar' = jar /\ born \subseteq born'
  BY <1>4 DEF Send
<1>5. ASSUME NEW r \in reqs,
             LookUp(r) \/ Destroy(r) \/ Reuse(r) \/ Mark(r)
               \/ \E id \in Ids : Create(r, id)
      PROVE  jar' = jar /\ born \subseteq born'
  BY <1>5 DEF LookUp, Destroy, Reuse, Mark, Create
<1> QED
  BY <1>1, <1>2, <1>3, <1>4, <1>5 DEF Next, vars

\* Ids once drawn stay drawn.
LEMMA BornGrows == [Next]_vars => born \subseteq born'
BY DEF Next, vars, Tick, Send, LookUp, Destroy, Reuse, Create, Mark, Reply

\* Every step keeps what a request knows of its cookie.
LEMMA VisitStep == StoreInv /\ VisitInv /\ [Next]_vars => VisitInv'
<1> SUFFICES ASSUME StoreInv, VisitInv, [Next]_vars PROVE VisitInv'
  OBVIOUS
<1> USE DEF VisitInv
<1>1. LoginsNamed'
  BY NamedStep
<1>2. CookiesBorn'
  <2>1. \A b \in Browsers : jar'[b].id \in born' \cup {NoId}
    BY JarStep
  <2>2. ASSUME NEW q \in reqs' PROVE q.cookie \in born' \cup {NoId}
    BY RequestStep, BornGrows DEF CookiesBorn
  <2> QED
    BY <2>1, <2>2 DEF CookiesBorn
<1>3. VisitsLost'
  <2> SUFFICES ASSUME NEW q \in reqs', q.kind = "home", q.step # "start"
               PROVE  ~Found(q.cookie)'
    BY DEF VisitsLost
  <2>1. q.cookie \in born \cup {NoId} /\ ~Found(q.cookie)
    BY RequestStep DEF CookiesBorn, VisitsLost
  <2> QED
    BY <2>1, StaysLost
<1> QED
  BY <1>1, <1>2, <1>3

\* How a browser comes by another cookie than that of a session still found.
LEMMA VisitKeepsCookie ==
  ASSUME StoreInv, VisitInv, [Next]_vars, NEW b \in Browsers,
         Found(jar[b].id), jar'[b].id # jar[b].id
  PROVE  \/ jar[b].ttl = 1 /\ jar'[b] = NoCookie /\ UNCHANGED reqs
         \/ \E r \in reqs \ reqs' :
              /\ r.by = b /\ r.step = "reply"
              /\ r.kind = "home" => ~Found(r.cookie)
<1> USE DEF StoreInv
<1>0. jar[b] \in Cookie /\ jar[b].id # NoId
  BY DEF TypeOK, Found
<1>1. CASE Tick
  <2>1. jar[b].ttl \in 1..Idle
    BY <1>0 DEF Cookie, NoCookie
  <2>2. jar'[b] = IF jar[b].ttl > 1 THEN [jar[b] EXCEPT !.ttl = @ - 1] ELSE NoCookie
    BY <1>1 DEF Tick
  <2>3. ~(jar[b].ttl > 1)
    BY <1>0, <2>2 DEF Cookie, NoCookie
  <2> QED
    BY <1>1, <2>1, <2>2, <2>3, StoreAssumption DEF Tick
<1>2. ASSUME NEW r \in reqs, Reply(r)
      PROVE  /\ r \in reqs \ reqs' /\ r.by = b /\ r.step = "reply"
             /\ r.kind = "home" => ~Found(r.cookie)
  <2>1. r.by = b
    BY <1>2 DEF Reply, TypeOK
  <2> QED
    BY <1>2, <2>1 DEF Reply, Finish, VisitInv, VisitsLost
<1>3. ASSUME NEW c \in Browsers, NEW user \in MaybeUser,
             NEW kind \in {"home", "badlogin", "login", "logout"},
             Send(c, kind, user)
      PROVE  FALSE
  BY <1>3 DEF Send
<1>4. ASSUME NEW r \in reqs,
             LookUp(r) \/ Destroy(r) \/ Reuse(r) \/ Mark(r)
               \/ \E id \in Ids : Create(r, id)
      PROVE  FALSE
  BY <1>4 DEF LookUp, Destroy, Reuse, Mark, Create
<1> QED
  BY <1>1, <1>2, <1>3, <1>4 DEF Next, vars

-----------------------------------------------------------------------------
(* The theorems.                                                           *)

\* The invariant holds in every reachable state.
THEOREM StoreInductive == Spec => []StoreInv
<1>1. Init => StoreInv
  <2> SUFFICES ASSUME Init PROVE StoreInv
    OBVIOUS
  <2>1. TypeOK
    BY DEF Init, TypeOK, Cookie
  <2> QED
    BY <2>1 DEF Init, StoreInv, LiveAreBorn, SettledRequests, NeverAuthenticatedInPlace
<1> QED
  BY <1>1, StoreStep, PTL DEF Spec

\* Types are kept: whatever a handler puts into a cookie is an id.
THEOREM StoreTypes == Spec => []TypeOK
BY StoreInductive, PTL DEF StoreInv

\* With regeneration on, no login authenticates an id that a visitor was given
\* before: an app that regenerates is safe for every number of browsers.
THEOREM NoFixation == Spec => []NeverAuthenticatedInPlace
BY StoreInductive, PTL DEF StoreInv

\* Logout is final in both modes: no handler that runs on restores a session
\* it had found before.
THEOREM LogoutIsFinal == Spec => NoResurrection
<1>1. StoreInv /\ [Next]_vars
        => [\A id \in born : m[id] = NoSession => m'[id] = NoSession]_vars
  BY ResurrectionStep
<1> QED
  BY <1>1, StoreInductive, PTL DEF Spec, NoResurrection

\* Requests that will sign somebody in know whom, in every reachable state.
LEMMA AlwaysNamed == Spec => []LoginsNamed
<1>1. Init => LoginsNamed
  BY DEF Init, LoginsNamed
<1> QED
  BY <1>1, NamedStep, StoreInductive, PTL DEF Spec

\* The store implements Sessions, for any number of browsers, requests and ids
\* and any timeout: one life per session, one user per life when logins
\* regenerate.
THEOREM StoreKeepsSessions == Spec => KeepsSessions
<1>1. Init => Promise!Init
  <2> SUFFICES ASSUME Init PROVE Promise!Init
    OBVIOUS
  <2>1. \A id \in Ids : ~Found(id) /\ id \notin born
    BY DEF Init, Found
  <2>2. Lives = [id \in Ids |-> Unborn]
    BY <2>1 DEF Lives
  <2> QED
    BY <2>2 DEF Init, Promise!Init, Promise!Unborn, Unborn
<1>2. StoreInv /\ LoginsNamed /\ [Next]_vars => [Promise!Next]_(Promise!svars)
  BY LifeStep
<1> QED
  BY <1>1, <1>2, StoreInductive, AlwaysNamed, PTL DEF Spec, KeepsSessions, Promise!Spec

\* A browser loses the cookie of a live session only to its Max-Age, a login, a
\* logout or a visit that was sent without a live session and is answered late;
\* for any number of browsers and of requests at once.
THEOREM OnlyEarlierVisitsCost == Spec => LiveCookieLostOnlyTo
<1>1. Init => VisitInv
  BY DEF Init, VisitInv, LoginsNamed, CookiesBorn, VisitsLost, NoCookie
<1>2. Spec => []VisitInv
  BY <1>1, VisitStep, StoreInductive, PTL DEF Spec
<1>3. StoreInv /\ VisitInv /\ [Next]_vars
        => [\A b \in Browsers :
              Found(jar[b].id) /\ jar'[b].id # jar[b].id
                => \/ jar[b].ttl = 1 /\ jar'[b] = NoCookie /\ UNCHANGED reqs
                   \/ \E r \in reqs \ reqs' :
                        /\ r.by = b /\ r.step = "reply"
                        /\ r.kind = "home" => ~Found(r.cookie)]_vars
  BY VisitKeepsCookie
<1> QED
  BY <1>2, <1>3, StoreInductive, PTL DEF Spec, LiveCookieLostOnlyTo

=============================================================================
