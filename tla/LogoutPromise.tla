---------------------------- MODULE LogoutPromise ----------------------------
(***************************************************************************)
(* What the relying parties of chapter 04 promise together, with no maps,  *)
(* index, cookies or handlers in sight.  A session is opened once, under   *)
(* the IdP session it stems from, and leaves for one of two reasons: its   *)
(* browser logs out of it, or the IdP gives notice.  A notice touches      *)
(* sessions of its own IdP session alone, and is sure to end one that was  *)
(* the only one its relying party ever opened there.                       *)
(***************************************************************************)
CONSTANTS RPs, Ids, Sids, NoSid

VARIABLES
  opened, \* [RPs -> [Ids -> {} or {sid}]]: the IdP session each was opened under
  live,   \* the sessions, as <<rp, id>>
  told    \* the notices processed, as <<rp, sid>>

pvars == <<opened, live, told>>

Init ==
  /\ opened = [p \in RPs |-> [id \in Ids |-> {}]]
  /\ live = {}
  /\ told = {}

Opens(p, id, sid) ==
  /\ opened[p][id] = {}
  /\ opened' = [opened EXCEPT ![p][id] = {sid}]
  /\ live' = live \cup {<<p, id>>}
  /\ UNCHANGED told

Leaves(p, id) ==
  /\ <<p, id>> \in live
  /\ UNCHANGED <<opened, told>>
  /\ live' = live \ {<<p, id>>}

Under(p, sid) == {id \in Ids : opened[p][id] = {sid} /\ <<p, id>> \in live}

\* No other session of p was ever opened under sid.
Alone(p, id, sid) == \A other \in Ids \ {id} : opened[p][other] # {sid}

Notice(p, sid) ==
  /\ told' = told \cup {<<p, sid>>}
  /\ UNCHANGED opened
  /\ \E gone \in SUBSET Under(p, sid) :
       /\ \A id \in Under(p, sid) : Alone(p, id, sid) => id \in gone
       /\ live' = live \ ({p} \X gone)

Next ==
  \E p \in RPs :
    \/ \E id \in Ids : \E sid \in Sids \cup {NoSid} : Opens(p, id, sid)
    \/ \E id \in Ids : Leaves(p, id)
    \/ \E sid \in Sids : Notice(p, sid)

Spec == Init /\ [][Next]_pvars

=============================================================================
