----------------------------- MODULE Accounts -----------------------------
(***************************************************************************)
(* The people's accounts, their sessions and reset links                   *)
(* (crosscutting/auth.py, crosscutting/administration.py, store/auth.py,   *)
(* store/recovery.py and the routes over them).                            *)
(*                                                                         *)
(* A request is identified first and takes the store's lock later: what it *)
(* knows of its own role was read before other requests ran.  The          *)
(* appliance's transactions exclude one another (write_txn); the CLI's     *)
(* password reset is another process and excludes nothing, so a            *)
(* transaction that reads a row and writes it back is two steps here.  A   *)
(* password is the number it was issued under; a wrong password changes    *)
(* nothing but the throttle, which is left out.                            *)
(***************************************************************************)
EXTENDS Integers, FiniteSets

CONSTANTS
    Users,      \* the accounts there may ever be
    FirstAdmin,      \* the one bootstrap_admin creates
    Requests,   \* the requests in flight
    Emails,     \* recovery addresses
    Nothing,    \* no row yet, no address, no link, no transaction
    Deleted,    \* an account that was: its id is never given again
    MaxPassword \* bound: the passwords ever issued

ASSUME AccountsConstants ==
    /\ IsFiniteSet(Users) /\ FirstAdmin \in Users /\ Nothing \notin Users \cup Emails
    /\ Deleted # Nothing /\ MaxPassword \in Nat \ {0}

VARIABLES
    account,  \* app_user: Nothing before the row, Deleted after it
    session,  \* the session rows, with what was true when they were opened
    link,     \* password_reset: the unused link of an account, by the address it went to
    issued,   \* how many passwords there have been
    request,  \* per request, who it was identified as, and the role then
    signing,  \* the transaction that has read an account and not yet written it
    up        \* whether the appliance runs

accountVars == <<account, session, link, issued, request, signing, up>>

Roles == {"editor", "admin"}
Rows == [role : Roles, password : 1 .. MaxPassword, keyed : BOOLEAN, must : BOOLEAN,
         email : Emails \cup {Nothing}]
Principals == [user : Users, role : Roles, must : BOOLEAN]
Signings == [op : {"login", "password"}, user : Users, row : Rows, caught : BOOLEAN]

(* No row, and no row any more, are not rows. *)
ASSUME AccountRows == /\ Nothing \notin Rows /\ Deleted \notin Rows
                      /\ Nothing \notin Principals /\ Nothing \notin Signings

AccountsTypeOK ==
    /\ account \in [Users -> Rows \cup {Nothing, Deleted}]
    /\ session \subseteq [user : Users, password : 1 .. MaxPassword, role : Roles, caught : BOOLEAN]
    /\ link \in [Users -> Emails \cup {Nothing}]
    /\ issued \in 0 .. MaxPassword
    /\ request \in [Requests -> Principals \cup {Nothing}]
    /\ signing \in Signings \cup {Nothing}
    /\ up \in BOOLEAN

There(u) == account[u] \notin {Nothing, Deleted}
Admins == {u \in Users : There(u) /\ account[u].role = "admin"}

NewRow(role, keyed, must) ==
    [role |-> role, password |-> issued + 1, keyed |-> keyed, must |-> must, email |-> Nothing]

-----------------------------------------------------------------------------
(* store/auth.py and store/recovery.py: what each statement does to a row. *)
count_enabled_admins(excluding) == Cardinality(Admins \ {excluding})

rehash_password(row, old) == [row EXCEPT !.password = old.password, !.keyed = TRUE]

update_user_password(row) ==
    [row EXCEPT !.password = issued + 1, !.keyed = TRUE, !.must = FALSE]

replace_password(row) == [row EXCEPT !.password = issued + 1, !.keyed = TRUE, !.must = TRUE]

create_session(rows, u, row, caught) ==
    rows \cup {[user |-> u, password |-> row.password, role |-> row.role, caught |-> caught]}

revoke_nothing(rows, u) == rows

revoke_user_sessions(rows, u) == {s \in rows : s.user # u}

withdraw_resets(u) == [link EXCEPT ![u] = Nothing]

would_remove_last_counting_all(u, role) ==
    account[u].role = "admin" /\ role # "admin" /\ Cardinality(Admins) = 0

would_remove_last_admin(u, role) ==
    account[u].role = "admin" /\ role # "admin" /\ count_enabled_admins(u) = 0

-----------------------------------------------------------------------------
(* A new database, or one an older version left an unkeyed hash in. *)
AccountsInit ==
    /\ \/ account = [u \in Users |-> Nothing] /\ issued = 0
       \/ /\ issued = 1
          /\ account = [u \in Users |-> IF u # FirstAdmin THEN Nothing
                                        ELSE [role |-> "admin", password |-> 1, keyed |-> FALSE,
                                              must |-> FALSE, email |-> Nothing]]
    /\ session = {} /\ link = [u \in Users |-> Nothing]
    /\ request = [r \in Requests |-> Nothing] /\ signing = Nothing /\ up = FALSE

(* A start of the appliance; what was in flight when it stopped is gone. *)
bootstrap_admin ==
    /\ ~up /\ up' = TRUE
    /\ IF Admins = {}
       THEN /\ account' = [account EXCEPT ![FirstAdmin] = NewRow("admin", TRUE, TRUE)]
            /\ issued' = issued + 1
       ELSE UNCHANGED <<account, issued>>
    /\ UNCHANGED <<session, link, request, signing>>

ServerStops ==
    /\ up /\ up' = FALSE
    /\ request' = [r \in Requests |-> Nothing] /\ signing' = Nothing
    /\ UNCHANGED <<account, session, link, issued>>

(* perform_login, up to the password's check: the row it then works from. *)
login(u) ==
    /\ up /\ signing = Nothing /\ There(u)
    /\ signing' = [op |-> "login", user |-> u, row |-> account[u], caught |-> FALSE]
    /\ UNCHANGED <<account, session, link, issued, request, up>>

(* perform_login, from there: a first sign-in chooses a password, an old   *)
(* hash is replaced, and a session is opened.                              *)
perform_login ==
    /\ up /\ signing # Nothing /\ signing.op = "login"
    /\ LET u == signing.user
           old == signing.row
           row == IF old.must THEN update_user_password(account[u])
                  ELSE IF old.keyed THEN account[u]
                  ELSE rehash_password(account[u], old)
           seen == IF old.must THEN row ELSE [row EXCEPT !.password = old.password]
           kept == IF old.must THEN revoke_user_sessions(session, u) ELSE session
       IN  /\ old.must => issued < MaxPassword
           /\ issued' = IF old.must THEN issued + 1 ELSE issued
           /\ account' = [account EXCEPT ![u] = row]
           /\ session' = create_session(kept, u, seen, signing.caught)
    /\ signing' = Nothing
    /\ UNCHANGED <<link, request, up>>

(* Perimeter.security: who a request is, before it takes the lock.  Only   *)
(* signing out and changing the password are open to a one-time password.  *)
resolve_session(r, s) ==
    /\ up /\ request[r] = Nothing /\ There(s.user)
    /\ request' = [request EXCEPT ![r] = [user |-> s.user, role |-> account[s.user].role,
                                          must |-> account[s.user].must]]
    /\ UNCHANGED <<account, session, link, issued, signing, up>>

(* A request's own transaction begins: nobody else of the appliance is in one. *)
Acts(r) == up /\ signing = Nothing /\ request[r] # Nothing
Manages(r) == Acts(r) /\ request[r].role = "admin" /\ ~request[r].must
Done(r) == request' = [request EXCEPT ![r] = Nothing] /\ UNCHANGED up

logout(r, s) ==
    /\ Acts(r) /\ s.user = request[r].user /\ session' = session \ {s}
    /\ Done(r) /\ UNCHANGED <<account, link, issued, signing>>

change_password(r) ==
    /\ Acts(r) /\ There(request[r].user)
    /\ signing' = [op |-> "password", user |-> request[r].user,
                   row |-> account[request[r].user], caught |-> FALSE]
    /\ Done(r) /\ UNCHANGED <<account, session, link, issued>>

(* The rest of /api/password, once the old password was found right. *)
PasswordChanged ==
    /\ up /\ signing # Nothing /\ signing.op = "password" /\ issued < MaxPassword
    /\ account' = [account EXCEPT ![signing.user] = update_user_password(@)]
    /\ issued' = issued + 1
    /\ session' = revoke_user_sessions(session, signing.user)
    /\ signing' = Nothing /\ UNCHANGED <<link, request, up>>

create_user(r, u, role) ==
    /\ Manages(r) /\ account[u] = Nothing /\ issued < MaxPassword
    /\ account' = [account EXCEPT ![u] = NewRow(role, TRUE, TRUE)] /\ issued' = issued + 1
    /\ Done(r) /\ UNCHANGED <<session, link, signing>>

change_role(r, u, role) ==
    /\ Manages(r) /\ There(u) /\ ~would_remove_last_admin(u, role)
    /\ account' = [account EXCEPT ![u].role = role]
    /\ session' = revoke_user_sessions(session, u)
    /\ Done(r) /\ UNCHANGED <<link, issued, signing>>

delete_user(r, u) ==
    /\ Manages(r) /\ request[r].user # u /\ There(u) /\ ~would_remove_last_admin(u, "none")
    /\ account' = [account EXCEPT ![u] = Deleted]
    /\ session' = revoke_user_sessions(session, u)
    /\ link' = [link EXCEPT ![u] = Nothing]   \* the row's foreign key
    /\ Done(r) /\ UNCHANGED <<issued, signing>>

(* _set_name with an address: one's own, with the current password, or     *)
(* anybody's by an administrator.                                          *)
set_user_email(r, u, email) ==
    /\ Acts(r) /\ There(u) /\ ~request[r].must
    /\ u = request[r].user \/ request[r].role = "admin"
    /\ account' = [account EXCEPT ![u].email = email]
    /\ link' = withdraw_resets(u)
    /\ Done(r) /\ UNCHANGED <<session, issued, signing>>

reset_user_password(r, u) ==
    /\ Manages(r) /\ There(u) /\ request[r].user # u /\ issued < MaxPassword
    /\ account' = [account EXCEPT ![u] = replace_password(@)] /\ issued' = issued + 1
    /\ link' = withdraw_resets(u)
    /\ session' = revoke_user_sessions(session, u)
    /\ Done(r) /\ UNCHANGED signing

(* The forgotten-password routes: nobody is signed in. *)
request_reset(u) ==
    /\ up /\ signing = Nothing /\ There(u) /\ account[u].email # Nothing
    /\ link' = [link EXCEPT ![u] = account[u].email]
    /\ UNCHANGED <<account, session, issued, request, signing, up>>

confirm_reset(u) ==
    /\ up /\ signing = Nothing /\ link[u] # Nothing /\ issued < MaxPassword
    /\ link' = [link EXCEPT ![u] = Nothing]
    /\ account' = [account EXCEPT ![u] = update_user_password(@)] /\ issued' = issued + 1
    /\ session' = revoke_user_sessions(session, u)
    /\ UNCHANGED <<request, signing, up>>

(* Time ends a session (purge_expired_sessions) or a link (take_reset). *)
Expire ==
    /\ \/ \E s \in session : session' = session \ {s} /\ UNCHANGED link
       \/ \E u \in Users : link[u] # Nothing /\ link' = [link EXCEPT ![u] = Nothing] /\ UNCHANGED session
    /\ UNCHANGED <<account, issued, request, signing, up>>

(* python -m netcorenoc admin reset-password, while the appliance runs. *)
cli_reset_password(u) ==
    /\ There(u) /\ issued < MaxPassword
    /\ account' = [account EXCEPT ![u] = replace_password(@)] /\ issued' = issued + 1
    /\ link' = withdraw_resets(u)
    /\ session' = revoke_user_sessions(session, u)
    /\ signing' = IF signing # Nothing /\ signing.user = u
                  THEN [signing EXCEPT !.caught = TRUE] ELSE signing
    /\ UNCHANGED <<request, up>>

AccountsNext ==
    \/ bootstrap_admin \/ ServerStops \/ perform_login \/ PasswordChanged \/ Expire
    \/ \E u \in Users :
         login(u) \/ request_reset(u) \/ confirm_reset(u) \/ cli_reset_password(u)
    \/ \E r \in Requests :
         \/ change_password(r)
         \/ \E s \in session : resolve_session(r, s) \/ logout(r, s)
         \/ \E u \in Users :
              \/ delete_user(r, u) \/ reset_user_password(r, u)
              \/ \E role \in Roles : create_user(r, u, role) \/ change_role(r, u, role)
              \/ \E email \in Emails \cup {Nothing} : set_user_email(r, u, email)

AccountsSpec == AccountsInit /\ [][AccountsNext]_accountVars

-----------------------------------------------------------------------------
(* While the appliance runs somebody can administer it: administrators who *)
(* demote or delete one another at once never leave none, whichever        *)
(* requests were identified before the others' took effect.                *)
AnAdminRemains == up => Admins # {}

(* A session that is still accepted was opened under the password and the  *)
(* role its account has now: every change of either ends the sessions that *)
(* were open, however many ways there are to make one.  The one exception  *)
(* is a sign-in the CLI's reset met between its check and its commit.      *)
SessionsAreCurrent ==
    \A s \in session :
        \/ s.caught
        \/ There(s.user) /\ s.password = account[s.user].password /\ s.role = account[s.user].role

(* A reset link that still works went to the address its account has now,  *)
(* and never outlives a one-time password.                                 *)
LinksAreCurrent ==
    \A u \in Users : link[u] # Nothing => There(u) /\ link[u] = account[u].email

(* What was handed out before a change of an account is not accepted after *)
(* it: neither a session nor a mailed link.                                *)
CredentialsAreCurrent == SessionsAreCurrent /\ LinksAreCurrent

=============================================================================
