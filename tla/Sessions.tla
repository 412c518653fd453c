------------------------------ MODULE Sessions ------------------------------
(***************************************************************************)
(* What the session store of chapter 03 promises, with no store, cookies   *)
(* or requests in sight: the life of a session.  It is opened once, belongs*)
(* to one user for as long as it lives (without regeneration: from its     *)
(* sign-in on to whoever signed in last), and once it is over, by logout   *)
(* or by idling, nobody finds it again.                                    *)
(***************************************************************************)
CONSTANTS Ids, Users, NoUser

VARIABLES
  regenerate, \* logins open a session of their own
  life        \* [Ids -> Life]

svars == <<regenerate, life>>

Unborn      == [stage |-> "unborn", user |-> NoUser]
Alive(user) == [stage |-> "alive", user |-> user]
Over        == [stage |-> "over", user |-> NoUser]

MaybeUser == Users \cup {NoUser}
Life      == {Unborn, Over} \cup {Alive(user) : user \in MaybeUser}

Init ==
  /\ regenerate \in BOOLEAN
  /\ life = [id \in Ids |-> Unborn]

\* A session is opened, for a visitor or, by a login that regenerates, for the
\* user at once.
Opens(id) ==
  /\ life[id] = Unborn
  /\ \E user \in MaybeUser : /\ life'[id] = Alive(user)
                              /\ user # NoUser => regenerate

\* Only without regeneration does a session that exists take on a user.
SignsIn(id) ==
  /\ ~regenerate
  /\ life[id].stage = "alive"
  /\ \E user \in Users : life'[id] = Alive(user)

\* A session is destroyed or has idled for too long; several may idle at once.
Ends(id) ==
  /\ life[id].stage = "alive"
  /\ life'[id] = Over

Next ==
  /\ UNCHANGED regenerate
  /\ DOMAIN life' = Ids
  /\ \A id \in Ids : life'[id] = life[id] \/ Opens(id) \/ SignsIn(id) \/ Ends(id)

Spec == Init /\ [][Next]_svars

=============================================================================
