------------------------------- MODULE Authz --------------------------------
(***************************************************************************)
(* Three ways to decide whether a user may act on a document, and the five *)
(* requests they are compared on (src/07-authz-models).  A decision is a   *)
(* function of the request; the reason shown with it is left out.  The     *)
(* tables the functions read are parameters, so that what a model of       *)
(* authorization cannot say can be told from what these tables do not say. *)
(***************************************************************************)

CONSTANT EqualFold(_, _)   \* strings.EqualFold

-----------------------------------------------------------------------------
(* The scenario.                                                           *)

alice == [name |-> "alice", roles |-> {"editor"}, dept |-> "hr"]
bob   == [name |-> "bob", roles |-> {"viewer"}, dept |-> "hr"]
carol == [name |-> "carol", roles |-> {"admin"}, dept |-> "legal"]

handbook == [id |-> "handbook", owner |-> "alice", dept |-> "hr",
             shared |-> {}, classif |-> "normal"]
salaries == [id |-> "salaries", owner |-> "carol", dept |-> "hr",
             shared |-> {"alice"}, classif |-> "confidential"]

Users == {alice, bob, carol}
Docs  == {handbook, salaries}

Request(user, action, doc, fromOffice) ==
  [user |-> user, action |-> action, doc |-> doc, fromOffice |-> fromOffice]

-----------------------------------------------------------------------------
(* RBAC: pairs of a role and an action it may do.                          *)

rolePerms == {<<"viewer", "read">>,
              <<"editor", "read">>, <<"editor", "edit">>,
              <<"admin", "read">>, <<"admin", "edit">>, <<"admin", "delete">>}

rbac(perms, r) == \E role \in r.user.roles : <<role, r.action>> \in perms

-----------------------------------------------------------------------------
(* ABAC: the policy is code.                                               *)

has(roles, name) == \E role \in roles : EqualFold(role, name)

abac(r) ==
  /\ r.doc.classif = "confidential" => r.fromOffice
  /\ \/ /\ r.action = "read"
        /\ r.user.dept = r.doc.dept \/ has(r.user.roles, "admin")
     \/ /\ r.action = "edit"
        /\ r.doc.owner = r.user.name

-----------------------------------------------------------------------------
(* ReBAC: tuples <<subject, relation, object>>, and what a relation grants. *)

tuples == {<<"alice", "owner", "handbook">>,
           <<"carol", "owner", "salaries">>,
           <<"alice", "viewer", "salaries">>,
           <<"bob", "viewer", "handbook">>}

relationGrants == {<<"owner", "read">>, <<"owner", "edit">>, <<"viewer", "read">>}

rebac(stored, grants, r) ==
  \E t \in stored : /\ t[1] = r.user.name
                    /\ t[3] = r.doc.id
                    /\ <<t[2], r.action>> \in grants

-----------------------------------------------------------------------------
(* The requests of main, with the answer a person would give.              *)

Case(request, want) == [req |-> request, want |-> want]

OwnerEdits       == Case(Request(alice, "edit", handbook, TRUE), TRUE)
EditorEditsOther == Case(Request(alice, "edit", salaries, TRUE), FALSE)
ViewerReads      == Case(Request(bob, "read", handbook, TRUE), TRUE)
ViewerEdits      == Case(Request(bob, "edit", handbook, TRUE), FALSE)
ReadsFromOutside == Case(Request(alice, "read", salaries, FALSE), FALSE)

cases == {OwnerEdits, EditorEditsOther, ViewerReads, ViewerEdits, ReadsFromOutside}

\* main exits with 1 if the list it keeps for ABAC is not empty.
AbacMismatch  == {c \in cases : abac(c.req) # c.want}
RbacMismatch(perms) == {c \in cases : rbac(perms, c.req) # c.want}
RebacMismatch(stored, grants) == {c \in cases : rebac(stored, grants, c.req) # c.want}

=============================================================================
