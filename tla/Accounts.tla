-------------------------------- MODULE Accounts --------------------------------
(***************************************************************************)
(* Users, API tokens, invitations and project members: the operations of   *)
(* pkg/api/controller.go on them, the AuthService behind them, and the     *)
(* middleware of pkg/api/auth.go that lets a request reach an operation.   *)
(* A request reads several rows, one statement after the other, while      *)
(* other requests change them.                                             *)
(*                                                                         *)
(* A password is known by the session_version it came with: every reset    *)
(* makes both new.  Rows of the sessions table are left out, for nothing   *)
(* in the program creates one; so are the dev fallbacks without a store.   *)
(***************************************************************************)
EXTENDS ApiRoutes

CONSTANTS Emails,       \* addresses; one of them is cfg.AdminEmail
          AdminEmail,
          UserIDs, TokenIDs, Invites,   \* IDs, each used once
          Requests,     \* HTTP requests in progress
          RoleSet,      \* the roles that can be given
          MaxVersion,   \* bound: a user's password is reset until this session_version
          Unused, Gone  \* no row yet, and a deleted one

VARIABLES user, token, invite, \* the rows: Unused, a record, or Gone
          member,       \* users with a row in project_memberships, for one project
          request       \* what each request has read so far

accountVars == <<user, token, invite, member, request>>

Fresh(table, id) == table[id] = Unused /\ id = CHOOSE x \in DOMAIN table : table[x] = Unused
Exists(table, id) == table[id] \notin {Unused, Gone}
User   == [email : Emails, role : RoleSet \cup {"owner"}, version : 1..MaxVersion]
Token  == [owner : UserIDs, version : 1..MaxVersion, expired : BOOLEAN]
Invite == [email : Emails, role : RoleSet, by : UserIDs, accepted : BOOLEAN, expired : BOOLEAN]

\* A token a request that starts now may use.
Usable(t) ==
    /\ Exists(token, t) /\ ~token[t].expired
    /\ Exists(user, token[t].owner) /\ user[token[t].owner].version <= token[t].version

ASSUME AccountsAssumption ==
    /\ AdminEmail \in Emails /\ MaxVersion \in Nat \ {0}
    /\ Unused # Gone /\ {Unused, Gone} \cap (User \cup Token \cup Invite) = {}

Idle == [at |-> "idle"]
step(r, state) == request' = [request EXCEPT ![r] = state]
at(r, place)   == request[r].at = place

AccountsInit ==
    /\ user = [u \in UserIDs |-> Unused]
    /\ token = [t \in TokenIDs |-> Unused]
    /\ invite = [i \in Invites |-> Unused]
    /\ member = {}
    /\ request = [r \in Requests |-> Idle]
--------------------------------------------------------------------------------
(* Statements of the stores. *)

\* users.email is UNIQUE.
EmailFree(e) == \A u \in UserIDs : Exists(user, u) => user[u].email # e

InsertUser(u, e, role) ==
    /\ Fresh(user, u) /\ EmailFree(e)
    /\ user' = [user EXCEPT ![u] = [email |-> e, role |-> role, version |-> 1]]

DeleteToken(t) == token' = IF Exists(token, t) THEN [token EXCEPT ![t] = Gone] ELSE token

\* The foreign keys on users cascade to tokens, invitations and memberships.
DeleteUserRow(u) ==
    /\ user' = [user EXCEPT ![u] = Gone]
    /\ token' = [t \in TokenIDs |->
          IF Exists(token, t) /\ token[t].owner = u THEN Gone ELSE token[t]]
    /\ invite' = [i \in Invites |->
          IF Exists(invite, i) /\ invite[i].by = u THEN Gone ELSE invite[i]]
    /\ member' = member \ {u}
--------------------------------------------------------------------------------
(* The middleware: ValidateAPIToken reads the token, then its owner; the role is read again. *)

\* Only a row that exists and has not expired takes the request further.
GetByHash(r, t) ==
    /\ at(r, "idle") /\ Exists(token, t) /\ ~token[t].expired
    /\ step(r, [at |-> "token", tok |-> t, who |-> token[t].owner,
                version |-> token[t].version, usable |-> Usable(t)])
    /\ UNCHANGED <<user, token, invite, member>>

\* Mutant of ValidateAPIToken: session_version is not compared.
ValidateAnyVersion(r) ==
    /\ at(r, "token")
    /\ step(r, IF Exists(user, request[r].who) THEN [request[r] EXCEPT !.at = "valid"] ELSE Idle)
    /\ UNCHANGED <<user, token, invite, member>>

ValidateAPIToken(r) ==
    LET u == request[r].who IN
    /\ at(r, "token")
    /\ step(r, IF Exists(user, u) /\ user[u].version <= request[r].version
               THEN [request[r] EXCEPT !.at = "valid"] ELSE Idle)
    /\ UNCHANGED <<user, token, invite, member>>

AuthMiddleware(r) ==
    LET u == request[r].who IN
    /\ at(r, "valid")
    /\ step(r, IF Exists(user, u)
               THEN [at |-> "admitted", tok |-> request[r].tok, who |-> u,
                     role |-> user[u].role, usable |-> request[r].usable]
               ELSE Idle)
    /\ UNCHANGED <<user, token, invite, member>>

\* The request has been let through to the operation.
Admitted(r, op) == at(r, "admitted") /\ IsRoleAllowed(request[r].role, MinRole[op])
--------------------------------------------------------------------------------
(* Tokens. *)

\* Login: AuthenticateUser accepts the password the user has now.
AuthenticateUser(r, u) ==
    /\ at(r, "idle") /\ Exists(user, u)
    /\ step(r, [at |-> "verified", who |-> u])
    /\ UNCHANGED <<user, token, invite, member>>

\* CreateAPIToken reads session_version, after Login or for POST /auth/tokens ...
CaptureVersion(r) ==
    /\ at(r, "verified") \/ Admitted(r, "CreateAPIToken")
    /\ step(r, IF Exists(user, request[r].who)
               THEN [at |-> "issuing", who |-> request[r].who,
                     version |-> user[request[r].who].version]
               ELSE Idle)
    /\ UNCHANGED <<user, token, invite, member>>

\* ... and inserts the token with it; the foreign key refuses one of a user deleted meanwhile.
CreateAPIToken(r, t) ==
    /\ at(r, "issuing") /\ Fresh(token, t)
    /\ token' = IF Exists(user, request[r].who)
                THEN [token EXCEPT ![t] = [owner |-> request[r].who,
                         version |-> request[r].version, expired |-> FALSE]]
                ELSE token
    /\ step(r, Idle)
    /\ UNCHANGED <<user, invite, member>>

Logout(r) ==
    /\ Admitted(r, "Logout")
    /\ DeleteToken(request[r].tok)
    /\ step(r, Idle)
    /\ UNCHANGED <<user, invite, member>>

DeleteAPIToken(r, t) ==
    /\ Admitted(r, "DeleteAPIToken")
    /\ DeleteToken(t)
    /\ step(r, Idle)
    /\ UNCHANGED <<user, invite, member>>

ExpireToken(t) ==
    /\ Exists(token, t) /\ ~token[t].expired
    /\ token' = [token EXCEPT ![t].expired = TRUE]
    /\ UNCHANGED <<user, invite, member, request>>
--------------------------------------------------------------------------------
(* Users and invitations. *)

\* At start-up, when the users table is empty.
BootstrapAdmin(u) ==
    /\ \A v \in UserIDs : ~Exists(user, v)
    /\ InsertUser(u, AdminEmail, "owner")
    /\ UNCHANGED <<token, invite, member, request>>

\* invited_by is a foreign key: the inviter must still exist.
InviteUser(r, i, e, role) ==
    /\ Admitted(r, "InviteUser") /\ Fresh(invite, i)
    /\ invite' = IF Exists(user, request[r].who)
                 THEN [invite EXCEPT ![i] = [email |-> e, role |-> role, by |-> request[r].who,
                                             accepted |-> FALSE, expired |-> FALSE]]
                 ELSE invite
    /\ step(r, Idle)
    /\ UNCHANGED <<user, token, member>>

ExpireInvite(i) ==
    /\ Exists(invite, i) /\ ~invite[i].expired
    /\ invite' = [invite EXCEPT ![i].expired = TRUE]
    /\ UNCHANGED <<user, token, member, request>>

\* AcceptInvitation up to the last check.
CheckInvitation(r, i) ==
    /\ at(r, "idle")
    /\ Exists(invite, i) /\ ~invite[i].accepted /\ ~invite[i].expired /\ EmailFree(invite[i].email)
    /\ step(r, [at |-> "accepting", inv |-> i, email |-> invite[i].email, role |-> invite[i].role])
    /\ UNCHANGED <<user, token, invite, member>>

\* Users.Create fails when another request has taken the address.
CreateInvited(r, u) ==
    /\ at(r, "accepting")
    /\ IF EmailFree(request[r].email)
       THEN /\ InsertUser(u, request[r].email, request[r].role)
            /\ step(r, [at |-> "created", inv |-> request[r].inv, who |-> u])
       ELSE step(r, Idle) /\ UNCHANGED user
    /\ UNCHANGED <<token, invite, member>>

\* MarkAccepted, whose error is ignored, and the Login that ends AcceptInvitation.
MarkAccepted(r) ==
    LET i == request[r].inv IN
    /\ at(r, "created")
    /\ \E ok \in BOOLEAN :
          invite' = IF ok /\ Exists(invite, i) THEN [invite EXCEPT ![i].accepted = TRUE] ELSE invite
    /\ step(r, IF Exists(user, request[r].who) THEN [at |-> "verified", who |-> request[r].who]
               ELSE Idle)
    /\ UNCHANGED <<user, token, member>>

UpdateUserRole(r, u, role) ==
    /\ Admitted(r, "UpdateUserRole")
    /\ user' = IF Exists(user, u) THEN [user EXCEPT ![u].role = role] ELSE user
    /\ step(r, Idle)
    /\ UNCHANGED <<token, invite, member>>

DeleteUser(r, u) ==
    /\ Admitted(r, "DeleteUser") /\ Exists(user, u)
    /\ DeleteUserRow(u)
    /\ step(r, Idle)

ResetUserPassword(r, u) ==
    /\ Admitted(r, "ResetUserPassword") /\ Exists(user, u) /\ user[u].version < MaxVersion
    /\ user' = [user EXCEPT ![u].version = @ + 1]
    /\ step(r, Idle)
    /\ UNCHANGED <<token, invite, member>>

SetProjectMember(r, u) ==
    /\ Admitted(r, "SetProjectMember")
    /\ member' = IF Exists(user, u) THEN member \cup {u} ELSE member
    /\ step(r, Idle)
    /\ UNCHANGED <<user, token, invite>>

RemoveProjectMember(r, u) ==
    /\ Admitted(r, "RemoveProjectMember")
    /\ member' = member \ {u}
    /\ step(r, Idle)
    /\ UNCHANGED <<user, token, invite>>

\* Any other operation, and one the role does not allow: the rows here stay as they are.
Answer(r) ==
    /\ at(r, "admitted")
    /\ step(r, Idle)
    /\ UNCHANGED <<user, token, invite, member>>
--------------------------------------------------------------------------------
AccountsNext ==
    \/ \E u \in UserIDs : BootstrapAdmin(u)
    \/ \E t \in TokenIDs : ExpireToken(t)
    \/ \E i \in Invites : ExpireInvite(i)
    \/ \E r \in Requests :
          \/ ValidateAPIToken(r) \/ AuthMiddleware(r) \/ CaptureVersion(r) \/ Logout(r)
          \/ MarkAccepted(r) \/ Answer(r)
          \/ \E t \in TokenIDs : GetByHash(r, t) \/ CreateAPIToken(r, t) \/ DeleteAPIToken(r, t)
          \/ \E i \in Invites : CheckInvitation(r, i)
          \/ \E i \in Invites, e \in Emails, role \in RoleSet : InviteUser(r, i, e, role)
          \/ \E u \in UserIDs :
                \/ AuthenticateUser(r, u) \/ CreateInvited(r, u) \/ DeleteUser(r, u)
                \/ ResetUserPassword(r, u) \/ SetProjectMember(r, u) \/ RemoveProjectMember(r, u)
          \/ \E u \in UserIDs, role \in RoleSet : UpdateUserRole(r, u, role)

AccountsSpec == AccountsInit /\ [][AccountsNext]_accountVars
--------------------------------------------------------------------------------
(* Types, and foreign keys: no token, invitation or membership of a user that is gone. *)
AccountsTypeOK ==
    /\ user \in [UserIDs -> User \cup {Unused, Gone}]
    /\ token \in [TokenIDs -> Token \cup {Unused, Gone}]
    /\ invite \in [Invites -> Invite \cup {Unused, Gone}]
    /\ \A t \in TokenIDs : Exists(token, t) => Exists(user, token[t].owner)
    /\ \A i \in Invites : Exists(invite, i) => Exists(user, invite[i].by)
    /\ member \subseteq UserIDs /\ \A u \in member : Exists(user, u)

(* A request is let through only with a token that was good when the request arrived: a token    *)
(* that had been deleted, had expired or was issued before a password reset that was complete by *)
(* then is refused, and so is one whose owner was gone - however logins, resets, logouts and     *)
(* deletions run between the three reads of the middleware.                                      *)
AdmittedTokensAreLive ==
    \A r \in Requests : at(r, "admitted") => request[r].usable
================================================================================
