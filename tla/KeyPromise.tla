----------------------------- MODULE KeyPromise -----------------------------
(***************************************************************************)
(* What the key cache promises to those who verify tokens, with no mutex,  *)
(* clock or request in sight.  A look-up has its effect at one moment      *)
(* between call and answer.  What is known stays known and is answered     *)
(* whatever becomes of the IdP; what is learned is a set the IdP has       *)
(* published since the look-up began, so that a kid is called unknown for  *)
(* no set older than the question.                                         *)
(***************************************************************************)
CONSTANTS Callers, Kids, Usable, NoKid

VARIABLES
  known,     \* the usable keys learned
  published, \* the kids the IdP publishes now
  lookup,    \* [Callers -> [open, kid, got]]
  offered    \* [Callers -> the sets published since its look-up began]

kvars == <<known, published, lookup, offered>>

Init ==
  /\ known \in SUBSET Usable
  /\ published \in SUBSET Kids
  /\ lookup = [c \in Callers |-> [open |-> FALSE, kid |-> NoKid, got |-> "nothing"]]
  /\ offered = [c \in Callers |-> {}]

Publishes(new) ==
  /\ published' = new
  /\ offered' = [c \in Callers |-> IF lookup[c].open THEN offered[c] \cup {new} ELSE {}]
  /\ UNCHANGED <<known, lookup>>

Asks(c, kid) ==
  /\ ~lookup[c].open
  /\ lookup' = [lookup EXCEPT ![c] = [open |-> TRUE, kid |-> kid, got |-> "nothing"]]
  /\ offered' = [offered EXCEPT ![c] = {published}]
  /\ UNCHANGED <<known, published>>

Gets(c, result) ==
  /\ lookup[c].open
  /\ lookup' = [lookup EXCEPT ![c] = [open |-> FALSE, kid |-> NoKid, got |-> result]]
  /\ offered' = [offered EXCEPT ![c] = {}]
  /\ UNCHANGED published

\* The answer is known.
Recalls(c) ==
  /\ lookup[c].kid \in known
  /\ Gets(c, "key")
  /\ UNCHANGED known

\* The kid is not, but other keys are, and the IdP is not asked for it.
Refuses(c) ==
  /\ lookup[c].kid \notin known /\ known # {}
  /\ Gets(c, "refused")
  /\ UNCHANGED known

\* The IdP has been asked since.
Learns(c, set) ==
  /\ lookup[c].kid \notin known
  /\ set \in offered[c]
  /\ known' = known \cup (set \cap Usable)
  /\ \/ lookup[c].kid \in known' /\ Gets(c, "key")
     \/ lookup[c].kid \notin known' /\ \E no \in {"refused", "unknown"} : Gets(c, no)

\* Only a key that is not known can be missed, with an error or without even one.
Misses(c) ==
  /\ lookup[c].kid \notin known
  /\ \E no \in {"failed", "panicked"} : Gets(c, no)
  /\ UNCHANGED known

Next ==
  \/ \E new \in SUBSET Kids : Publishes(new)
  \/ \E c \in Callers :
       \/ \E kid \in Kids : Asks(c, kid)
       \/ Recalls(c) \/ Refuses(c) \/ Misses(c)
       \/ \E set \in SUBSET Kids : Learns(c, set)

Spec == Init /\ [][Next]_kvars

=============================================================================
