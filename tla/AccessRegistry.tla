--------------------------- MODULE AccessRegistry ---------------------------
(***************************************************************************)
(* What an operator may rely on of users and what is granted to them,      *)
(* without handlers, statements, limits or policies: a grant (a device, or *)
(* an access key) is held by one user who exists, goes to another only     *)
(* after that user has been removed, and is good until it is revoked.      *)
(***************************************************************************)
CONSTANTS User, NoUser, Grant

VARIABLES
  user,    \* the status of each user
  holder,  \* of each grant, or NoUser
  revoked  \* grants that are held and no longer good

registryVars == <<user, holder, revoked>>

Exists(u) == user[u] \in {"active", "blocked"}

Init ==
  /\ user = [u \in User |-> "unknown"]
  /\ holder = [g \in Grant |-> NoUser]
  /\ revoked = {}

Become(u, s) == user' = [user EXCEPT ![u] = s]

Enrol(u) == user[u] = "unknown" /\ Become(u, "active") /\ UNCHANGED <<holder, revoked>>

\* A user who is suspended keeps what he has, and may be given more.
Suspend(u) == Exists(u) /\ Become(u, "blocked") /\ UNCHANGED <<holder, revoked>>
Resume(u)  == Exists(u) /\ Become(u, "active") /\ UNCHANGED <<holder, revoked>>

Give(u, g) ==
  /\ Exists(u) /\ holder[g] = NoUser
  /\ holder' = [holder EXCEPT ![g] = u]
  /\ UNCHANGED <<user, revoked>>

Revoke(g) ==
  /\ holder[g] # NoUser
  /\ revoked' = revoked \cup {g}
  /\ UNCHANGED <<user, holder>>

\* Users are removed for good, and what they held is free again.
Remove(u) ==
  /\ Exists(u) /\ Become(u, "deleted")
  /\ holder' = [g \in Grant |-> IF holder[g] = u THEN NoUser ELSE holder[g]]
  /\ revoked' = {g \in revoked : holder[g] # u}

Next ==
  \/ \E u \in User : Enrol(u) \/ Suspend(u) \/ Resume(u) \/ Remove(u)
  \/ \E g \in Grant : Revoke(g) \/ \E u \in User : Give(u, g)

Spec == Init /\ [][Next]_registryVars
=============================================================================
