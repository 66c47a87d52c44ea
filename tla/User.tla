---------------------------------- MODULE User ----------------------------------
(***************************************************************************)
(* The omni_user resource (omni_user_resource.go): an identity, named by   *)
(* an email, and the user it refers to, which Omni's management API makes, *)
(* changes and destroys together.                                          *)
(***************************************************************************)
CONSTANTS Null, Unknown,
          Emails,     \* [name |-> , capitals |-> whether it is written with capitals]
          Roles

Kind == "user"

\* IDs Omni gives to users: who made one decides which.
UserIds == {"ours", "theirs"}

Configs == [email : Emails, role : Roles]

Lower(email) == [email EXCEPT !.capitals = FALSE]

Models == [id : {Null, Unknown} \cup UserIds, email : Emails \cup {Lower(e) : e \in Emails},
           role : {Null} \cup Roles]

\* An identity without its user has the role Null.
Objects == [email : {Lower(e) : e \in Emails}, userId : UserIds, role : {Null} \cup Roles]

\* Every handler looks the identity up by the email in lower case.
IdOf(o) == o.email
IdIn(m) == Lower(m.email)
Blank(id) == [id |-> Null, email |-> id, role |-> Null]

Planned(c, m) == [id |-> IF m = Null THEN Unknown ELSE m.id, email |-> c.email, role |-> c.role]

Replaces(p, m) == p.email # m.email

Accepts(p) == TRUE

\* CreateUser
NewObject(p) == [email |-> Lower(p.email), userId |-> "ours", role |-> p.role]

\* UpdateUser
Applied(p, o) == IF o.role = Null THEN o ELSE [o EXCEPT !.role = p.role]

\* Create takes the ID from the answer, Update has it in the plan.
Stored(p, o) == [id |-> IF p.id = Unknown THEN o.userId ELSE p.id, email |-> Lower(p.email),
                 role |-> p.role]

\* Read follows the identity to its user; when either is gone, so is the resource.
ToModel(o, m) == IF o.role = Null THEN Null
                 ELSE [id |-> o.userId, email |-> Lower(m.email), role |-> o.role]

Meets(c, o) == o.role = c.role /\ o.email = Lower(c.email)

\* Others change the role, remove the user of an identity, and make the user anew.
Foreign(o) == {[o EXCEPT !.role = r] : r \in {Null} \cup Roles}
                \cup {[o EXCEPT !.userId = "theirs", !.role = r] : r \in Roles}

================================================================================
