----------------------------- MODULE Directory -----------------------------
(***************************************************************************)
(* Who has an account and who administers: the first start (lib/bootstrap),*)
(* the management of accounts (routes/admin.ts), logins at the identity    *)
(* provider (routes/auth.ts), the deletion of one's own account and its    *)
(* purge (routes/user.ts, lib/audit.ts).                                   *)
(*                                                                         *)
(* A request first loads its session and with it the user's row, then      *)
(* awaits its body (app.ts), then is handled with the row as it was: req.  *)
(* The hash of a password is a second await, and the only one of a login.  *)
(*                                                                         *)
(*   users     -> users;  ask is deletion_requested_at, "due" once it is   *)
(*                older than DELETION_COOLDOWN_DAYS                        *)
(*   sessions  -> who has one.  What one session may do is in Accounts.    *)
(***************************************************************************)
EXTENDS Integers, FiniteSets

CONSTANTS
    Locals,     \* ids of accounts with a password, the first one's included
    Subjects,   \* ids of accounts at the identity provider
    First,      \* the first admin
    Calls,      \* bound: requests under way
    None,
    Crashes     \* bound: restarts

Ids == Locals \cup Subjects

VARIABLES
    users, sessions,
    req,        \* req[c] : a request between its session and its end
    phase,      \* the server: "boot", "hashing" the first password, "up"
    crashes,    \* bound
    asked,      \* history: the deletion its owner asked for and nobody undid
    lost        \* history: an admin asked for his own end, or one who was none
                \* any more disabled or deleted somebody, or demoted somebody
                \* while one of the admins who count could not act

vars == <<users, sessions, req, phase, crashes, asked, lost>>
history == <<crashes, asked, lost>>

Asks == {"never", "recent", "due"}
User == [role : {"admin", "user"},
         status : {"active", "disabled", "deletion_pending", "pending_approval"},
         cred : BOOLEAN,    \* has a row in local_credentials
         must : BOOLEAN,    \* mustChangePassword
         ask : Asks]
Request == [by : Ids, admin : BOOLEAN, must : BOOLEAN,
            hash : {"no", "create", "reset", "login"}, of : Ids \cup {None}]

DirectoryAssumption ==
    /\ First \in Locals /\ Locals \cap Subjects = {}
    /\ None \notin Ids \cup User \cup Request \cup {"admin", "user", "active", "disabled"}
    /\ Crashes \in Nat

TypeOK ==
    /\ users \in [Ids -> User \cup {None}]
    /\ sessions \subseteq Ids
    /\ req \in [Calls -> Request \cup {None}]
    /\ phase \in {"boot", "hashing", "up"}
    /\ crashes \in 0 .. Crashes
    /\ asked \in [Ids -> Asks]
    /\ lost \in BOOLEAN

NewUser(role, status, cred, must) ==
    [role |-> role, status |-> status, cred |-> cred, must |-> must, ask |-> "never"]

Init ==
    /\ users = [u \in Ids |-> None]
    /\ sessions = {}
    /\ req = [c \in Calls |-> None]
    /\ phase = "boot"
    /\ crashes = 0
    /\ asked = [u \in Ids |-> "never"]
    /\ lost = FALSE

Exists(u) == users[u] # None
Admins == {u \in Ids : Exists(u) /\ users[u].role = "admin"}

-----------------------------------------------------------------------------
(* The first start *)

\* ensureInitialAdmin: there are users, or the first one is inserted ...
Boot ==
    /\ phase = "boot"
    /\ IF \E u \in Ids : Exists(u)
       THEN phase' = "up" /\ UNCHANGED users
       ELSE /\ users' = [users EXCEPT ![First] = NewUser("admin", "active", FALSE, TRUE)]
            /\ phase' = "hashing"
    /\ UNCHANGED <<sessions, req, history>>

\* ... and gets its password.  The server listens after that.
BootHashed ==
    /\ phase = "hashing"
    /\ users' = [users EXCEPT ![First].cred = TRUE]
    /\ phase' = "up"
    /\ UNCHANGED <<sessions, req, history>>

Crash ==
    /\ crashes < Crashes
    /\ crashes' = crashes + 1
    /\ phase' = "boot"
    /\ req' = [c \in Calls |-> None]
    /\ UNCHANGED <<users, sessions, asked, lost>>

-----------------------------------------------------------------------------
(* Accounts come and log in *)

\* POST /auth/login with the right password; more of it is in Accounts.  The
\* row is read before the password's hash is awaited ...
Login(c, u) ==
    /\ phase = "up"
    /\ req[c] = None
    /\ u \in Locals /\ Exists(u) /\ users[u].cred /\ users[u].status # "disabled"
    /\ req' = [req EXCEPT ![c] = [by |-> u, admin |-> FALSE, must |-> FALSE,
                                  hash |-> "login", of |-> u]]
    /\ UNCHANGED <<users, sessions, phase, history>>

\* ... and counts, whatever was made of the account meanwhile.
LoginHashed(c) ==
    /\ req[c] # None /\ req[c].hash = "login"
    /\ sessions' = sessions \cup {req[c].by}
    /\ req' = [req EXCEPT ![c] = None]
    /\ UNCHANGED <<users, phase, history>>

\* POST /auth/register/verify: the first account of a site without an admin
\* is one.
Register(u) ==
    /\ phase = "up"
    /\ u \in Locals /\ ~ Exists(u)
    /\ users' = [users EXCEPT ![u] =
                    NewUser(IF Admins = {} THEN "admin" ELSE "user", "active", TRUE, FALSE)]
    /\ sessions' = sessions \cup {u}
    /\ UNCHANGED <<req, phase, history>>

\* GET /auth/oidc/callback of a subject nobody has seen: listed among the
\* admins, or subject to OIDC_NEW_USER_POLICY.
OidcNew(u, listed, approval) ==
    /\ phase = "up"
    /\ u \in Subjects /\ ~ Exists(u)
    /\ IF approval /\ ~ listed
       THEN /\ users' = [users EXCEPT ![u] = NewUser("user", "pending_approval", FALSE, FALSE)]
            /\ UNCHANGED sessions
       ELSE /\ users' = [users EXCEPT ![u] =
                            NewUser(IF listed THEN "admin" ELSE "user", "active", FALSE, FALSE)]
            /\ sessions' = sessions \cup {u}
    /\ UNCHANGED <<req, phase, history>>

\* ... and of one who has an account.
OidcAgain(u) ==
    /\ phase = "up"
    /\ u \in Subjects /\ Exists(u)
    /\ users[u].status \notin {"disabled", "pending_approval"}
    /\ sessions' = sessions \cup {u}
    /\ UNCHANGED <<users, req, phase, history>>

-----------------------------------------------------------------------------
(* Requests *)

\* sessionMiddleware: the row is read; a session of a disabled account ends.
Begin(c, u) ==
    /\ phase = "up"
    /\ req[c] = None /\ u \in sessions
    /\ IF users[u].status \in {"disabled", "pending_approval"}
       THEN sessions' = sessions \ {u} /\ UNCHANGED req
       ELSE /\ req' = [req EXCEPT ![c] = [by |-> u, admin |-> users[u].role = "admin",
                                          must |-> users[u].must, hash |-> "no", of |-> None]]
            /\ UNCHANGED sessions
    /\ UNCHANGED <<users, phase, history>>

\* The body has arrived and forceFlowGate lets the request pass, or only to
\* the change of the password.
Ready(c) == req[c] # None /\ req[c].hash = "no"
May(c) == Ready(c) /\ ~ req[c].must
MayAdmin(c) == May(c) /\ req[c].admin

End(c) == req' = [req EXCEPT ![c] = None]

\* Admins who may act; the check for the last admin counts the others, too.
Able == {a \in Admins : users[a].status \in {"active", "deletion_pending"}}

\* Did the actor of c still have the right he came with?
Stale(c) == req[c].by \notin Able
Note(c) == lost' = (lost \/ Stale(c))

\* The password of one's own is changed (Accounts).
ChangePassword(c) ==
    /\ Ready(c)
    /\ users' = IF Exists(req[c].by) THEN [users EXCEPT ![req[c].by].must = FALSE] ELSE users
    /\ End(c)
    /\ UNCHANGED <<sessions, phase, history>>

\* POST /admin/users: the row, then the password.
CreateUser(c, u, role) ==
    /\ MayAdmin(c)
    /\ u \in Locals /\ ~ Exists(u)
    /\ users' = [users EXCEPT ![u] = NewUser(role, "active", FALSE, TRUE)]
    /\ req' = [req EXCEPT ![c].hash = "create", ![c].of = u]
    /\ UNCHANGED <<sessions, phase, history>>

\* POST /admin/users/:id/reset-password, until the hash.
ResetPassword(c, u) ==
    /\ MayAdmin(c) /\ Exists(u)
    /\ req' = [req EXCEPT ![c].hash = "reset", ![c].of = u]
    /\ UNCHANGED <<users, sessions, phase, history>>

\* writeLocalCredentials and what follows it.
Hashed(c) ==
    /\ req[c] # None /\ req[c].hash \in {"create", "reset"}
    /\ LET u == req[c].of
       IN  IF req[c].hash = "create"
           THEN users' = [users EXCEPT ![u].cred = TRUE] /\ UNCHANGED sessions
           ELSE /\ users' = [users EXCEPT ![u].cred = TRUE, ![u].must = TRUE]
                /\ sessions' = sessions \ {u}
    /\ End(c)
    /\ UNCHANGED <<phase, history>>

\* Requests that hash a password for u fail when u is gone: no such row.
EndFor(S, c) ==
    req' = [d \in Calls |-> IF d = c \/ (req[d] # None /\ req[d].of \in S) THEN None ELSE req[d]]

\* Fault: the last admin is only kept from demoting himself.
RefusedSelfOnly(c, u, role) == role # None /\ u = req[c].by

\* The new role is refused: one's own, or the last admin's.
Refused(c, u, role) ==
    role # None /\ (u = req[c].by \/ (u \in Admins /\ role = "user" /\ Cardinality(Admins) <= 1))

WithRole(u, role) == IF role = None THEN users[u] ELSE [users[u] EXCEPT !.role = role]
Undone(u) == asked' = [asked EXCEPT ![u] = "never"]

\* PUT /admin/users/:id: the role is changed before the status is validated.
\* Nobody disables himself.
SetUser(c, u, role, status) ==
    /\ MayAdmin(c) /\ Exists(u)
    /\ IF Refused(c, u, role) THEN UNCHANGED <<users, sessions, asked, lost>>
       ELSE IF status = None \/ u = req[c].by
               THEN /\ users' = [users EXCEPT ![u] = WithRole(u, role)]
                    /\ lost' = (lost \/ (Stale(c) /\ role = "user" /\ Able # Admins))
                    /\ UNCHANGED <<sessions, asked>>
               ELSE /\ Note(c)
                    /\ users' = [users EXCEPT ![u] = [WithRole(u, role) EXCEPT !.status = status]]
                    /\ sessions' = IF status = "disabled" THEN sessions \ {u} ELSE sessions
                    /\ Undone(u)
    /\ End(c)
    /\ UNCHANGED <<phase, crashes>>

Deletable(c, u) == Exists(u) /\ u # req[c].by

\* DELETE /admin/users/:id.
DeleteUser(c, u) ==
    /\ MayAdmin(c) /\ Deletable(c, u)
    /\ users' = [users EXCEPT ![u] = None]
    /\ sessions' = sessions \ {u}
    /\ EndFor({u}, c)
    /\ Undone(u) /\ Note(c)
    /\ UNCHANGED <<phase, crashes>>

\* Fault: an earlier request keeps its date.
AskingKept(r) ==
    [r EXCEPT !.status = "deletion_pending", !.ask = IF @ = "never" THEN "recent" ELSE @]

Asking(r) == [r EXCEPT !.status = "deletion_pending", !.ask = "recent"]

\* POST /user/delete/request: whatever the status has become meanwhile.
RequestDeletion(c) ==
    /\ May(c)
    /\ LET u == req[c].by
       IN  IF Exists(u) THEN /\ users' = [users EXCEPT ![u] = Asking(@)]
                             /\ asked' = [asked EXCEPT ![u] = "recent"]
                        ELSE UNCHANGED <<users, asked>>
    /\ End(c)
    /\ UNCHANGED <<sessions, phase, crashes, lost>>

\* POST /user/delete/cancel.
CancelDeletion(c) ==
    /\ May(c)
    /\ LET u == req[c].by
       IN  IF Exists(u) /\ users[u].status = "deletion_pending"
           THEN /\ users' = [users EXCEPT ![u].status = "active", ![u].ask = "never"]
                /\ Undone(u)
           ELSE UNCHANGED <<users, asked>>
    /\ End(c)
    /\ UNCHANGED <<sessions, phase, crashes, lost>>

-----------------------------------------------------------------------------
(* Time *)

AgeAsk(u) ==
    /\ Exists(u) /\ users[u].ask = "recent"
    /\ users' = [users EXCEPT ![u].ask = "due"]
    /\ asked' = [asked EXCEPT ![u] = IF @ = "recent" THEN "due" ELSE @]
    /\ UNCHANGED <<sessions, req, phase, crashes, lost>>

Due == {u \in Ids : Exists(u) /\ users[u].status = "deletion_pending" /\ users[u].ask = "due"}

\* The purge task: every hour, and when the server starts.
Purge ==
    /\ Due # {}
    /\ phase = "up"
    /\ users' = [u \in Ids |-> IF u \in Due THEN None ELSE users[u]]
    /\ sessions' = sessions \ Due
    /\ EndFor(Due, None)
    /\ asked' = [u \in Ids |-> IF u \in Due THEN "never" ELSE asked[u]]
    /\ lost' = (lost \/ Due \cap Admins # {})
    /\ UNCHANGED <<phase, crashes>>

-----------------------------------------------------------------------------
Next ==
    \/ Boot \/ BootHashed \/ Crash \/ Purge
    \/ \E u \in Ids :
          \/ Register(u) \/ OidcAgain(u) \/ AgeAsk(u)
          \/ \E listed, approval \in BOOLEAN : OidcNew(u, listed, approval)
    \/ \E c \in Calls :
          \/ LoginHashed(c) \/ ChangePassword(c) \/ Hashed(c)
          \/ RequestDeletion(c) \/ CancelDeletion(c)
          \/ \E u \in Ids :
                \/ Login(c, u) \/ Begin(c, u) \/ ResetPassword(c, u) \/ DeleteUser(c, u)
                \/ \E role \in {"admin", "user"} : CreateUser(c, u, role)
                \/ \E role \in {"admin", "user", None}, status \in {"active", "disabled", None} :
                      SetUser(c, u, role, status)

\* Time passes; the server is started again and its loop runs.
Spec == Init /\ [][Next]_vars

-----------------------------------------------------------------------------
(* Properties *)

\* A site that is up has an admin who can act.  Nobody demotes, disables or
\* deletes himself, and the last one is not demoted, not even by a request
\* that was under way when its actor was demoted.  What gets around this is an
\* admin who asks for his own deletion, and requests under way that disable or
\* delete, or demote while an admin who is disabled counts as the last one.
SomeAdminRemains == phase = "up" => lost \/ Able # {}

\* "At least one admin is kept" (admin.ts:83), one who can act: a new role
\* never takes the last of them.  Refuted: the check counts disabled admins,
\* so that a request whose actor was disabled (or, with three accounts,
\* demoted) meanwhile passes it and demotes the only one left.
RolesKeepOne ==
    [][\A a \in Able : Able' = {} => ~ Exists(a)' \/ users'[a].role = "admin"]_vars

\* Apart from an admin's request, an account goes only when its owner asked
\* for it, did not take it back, no admin undid it, and the whole cool-down
\* has passed since.
AskedOrOrdered ==
    \A u \in Ids :
        (Exists(u) /\ users'[u] = None) =>
            (asked[u] = "due" \/ \E c \in Calls : Ready(c) /\ u # req[c].by /\ req'[c] = None)
PurgedAsked == [][AskedOrOrdered]_vars

\* What admin.ts:93 and the session loader are about: who was disabled is
\* out until an admin lets him in again.  It does not hold: a request for
\* deletion that was under way overwrites the status.
DisabledStaysOut ==
    [][\A u \in Ids :
          (Exists(u) /\ users[u].status = "disabled" /\ users'[u] # None /\ users'[u].status # "disabled")
              => \E c \in Calls : req[c] # None /\ req[c].admin /\ req'[c] = None]_vars
=============================================================================
