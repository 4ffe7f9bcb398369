------------------------------ MODULE Accounts ------------------------------
(***************************************************************************)
(* One local account: its password, its second factors and its sessions,   *)
(* that is lib/session.ts, lib/mfa.ts, lib/passkey.ts and the handlers of  *)
(* routes/auth.ts, routes/mfa.ts, routes/user.ts and routes/admin.ts that  *)
(* use them.                                                               *)
(*                                                                         *)
(* Every handler that hashes (scrypt), checks a code (otplib) or checks a  *)
(* passkey (WebAuthn) awaits in the middle, and a request with a body      *)
(* loads its session before the body is read: sessionMiddleware precedes   *)
(* express.json in app.ts.  So a request is a record that remembers what   *)
(* was read before the await, and the others run in between.               *)
(*                                                                         *)
(* The password itself is left out: what a write of local_credentials      *)
(* means for the sessions is kept in sess[s].pw.  totpFails, the count of  *)
(* a session, is left out too: a session may be deleted at any failure.  A *)
(* challenge of a passkey is taken once and is part of its request.        *)
(*                                                                         *)
(* A handler that carries nothing but its session over its await is one    *)
(* action, taken at its end.                                               *)
(*                                                                         *)
(* A wrong password or a rejected passkey changes nothing here (Refuse):   *)
(* the failures that a wrong password counts concern the address.  Windows *)
(* and expiries pass at any moment; which of the steps is now is left out, *)
(* as a code of an earlier step than the last one used is refused anyway.  *)
(***************************************************************************)
EXTENDS Integers, FiniteSets

CONSTANTS
    Sessions,   \* bound: sessions that exist at a time
    Requests,   \* bound: requests under way at a time
    Secrets,    \* TOTP secrets
    None,       \* no secret, no code, no session
    Admin,      \* is the account one of an administrator?
    MaxStep,    \* bound: the last TOTP step of thirty seconds
    MaxPasskeys,\* bound: passkeys
    Codes,      \* recovery codes of a set
    FailLimit   \* TOTP_FAIL_LIMIT

ASSUME AccountsAssumption ==
    /\ IsFiniteSet(Requests)
    /\ None \notin Sessions \cup Secrets \cup Nat
    /\ Admin \in BOOLEAN
    /\ {MaxStep, MaxPasskeys} \subseteq Nat
    /\ {Codes, FailLimit} \subseteq Nat \ {0}

VARIABLES
    active,     \* users.status is active, not disabled
    mfa,        \* users.mfa_enabled
    totp,       \* the row of totp_secrets
    recovery,   \* unused recovery codes
    passkeys,   \* passkeys of the account
    sess,       \* sess[s] : the row of a session
    guesses,    \* failed verifications in the window of ten minutes
    req,        \* req[r] : a request and what it has read
    used        \* history: used[c], how often step c of totp.secret was accepted

vars == <<active, mfa, totp, recovery, passkeys, sess, guesses, req, used>>

factors == <<mfa, totp, recovery, passkeys, used>>

Steps == 0 .. MaxStep

Session == [auth : {"password_ok", "full"},
            stepUp : BOOLEAN,          \* step_up_until lies ahead
            pw : {"now", "late", "old"},  \* history: of the password in force; of one
                                       \* written over while its login ran; of one
                                       \* written over since
            cleared : BOOLEAN]         \* history: has shown a second factor, or its
                                       \* login began before mfa went on

(* What requireAuth and requireStepUp tell apart of a loaded session. *)
Levels == {"half", "full", "stepped"}
Level(row) == IF row.auth = "password_ok" THEN "half"
              ELSE IF row.stepUp THEN "stepped" ELSE "full"

Idle == [at |-> "idle"]
Purposes == {"login", "stepup"}     \* what a factor is shown for
Request ==
    {Idle}
    \cup [at : {"body"}, s : Sessions, level : Levels]
    \cup [at : {"register", "primary"}]
    \cup [at : {"login"}, mfa : BOOLEAN, older : BOOLEAN, late : BOOLEAN]
    \cup [at : {"confirm"}, secret : Secrets, code : Steps]
    \cup [at : {"verify"}, s : Sessions, for : Purposes, secret : Secrets \cup {None},
          code : Steps \cup {None}]
    \cup [at : {"proof"}, s : Sessions, for : Purposes]

NoTotp == [secret |-> None, confirmed |-> FALSE, last |-> -1]

TypeOK ==
    /\ active \in BOOLEAN /\ mfa \in BOOLEAN
    /\ totp \in [secret : Secrets \cup {None}, confirmed : BOOLEAN, last : Steps \cup {-1}]
    /\ recovery \in 0 .. Codes
    /\ passkeys \in 0 .. MaxPasskeys
    /\ sess \in [Sessions -> Session \cup {None}]
    /\ guesses \in Nat
    /\ req \in [Requests -> Request]
    /\ used \in [Steps -> Nat]

(* A fresh account with a password and no second factor. *)
Init ==
    /\ active = TRUE /\ mfa = FALSE
    /\ totp = NoTotp /\ recovery = 0 /\ passkeys = 0
    /\ sess = [s \in Sessions |-> None]
    /\ guesses = 0
    /\ req = [r \in Requests |-> Idle]
    /\ used = [c \in Steps |-> 0]

-----------------------------------------------------------------------------
Become(r, next) == req' = [req EXCEPT ![r] = next]
Done(r) == Become(r, Idle)

(* The session is updated if its row still exists. *)
Mark(s, row) == sess' = [sess EXCEPT ![s] = IF sess[s] = None THEN None ELSE row]

(* Tokens are never used twice: no request speaks of a dead one with that name. *)
Unused(s) ==
    /\ sess[s] = None
    /\ \A r \in Requests : "s" \in DOMAIN req[r] => req[r].s # s

(* writeLocalCredentials, as the sessions and the logins under way see it: *)
(* all but the session s belong to the password of before.                 *)
Rewritten(s) ==
    [t \in Sessions |-> IF sess[t] = None THEN None
                        ELSE [sess[t] EXCEPT !.pw = IF t = s THEN "now" ELSE "old"]]
RewriteAndDone(r) ==
    req' = [q \in Requests |-> IF q = r THEN Idle
                               ELSE IF req[q].at = "login" THEN [req[q] EXCEPT !.late = TRUE]
                               ELSE req[q]]

(* DELETE FROM sessions of the user, but for those in keep. *)
KickOut(rows, keep) == [s \in Sessions |-> IF s \in keep THEN rows[s] ELSE None]

(* createSession *)
CreateSession(s, auth, pw, cleared) ==
    /\ Unused(s)
    /\ sess' = [sess EXCEPT ![s] = [auth |-> auth, stepUp |-> TRUE, pw |-> pw,
                                    cleared |-> cleared]]

(* users.mfa_enabled is set; when it was off, who is in, or on the way in, *)
(* is older than it.                                                       *)
SetMfa(r) ==
    /\ mfa' = TRUE
    /\ sess' = [s \in Sessions |-> IF sess[s] = None \/ mfa THEN sess[s]
                                   ELSE [sess[s] EXCEPT !.cleared = TRUE]]
    /\ req' = [q \in Requests |-> IF q = r THEN Idle
                                  ELSE IF req[q].at = "login" /\ ~mfa
                                       THEN [req[q] EXCEPT !.older = TRUE] ELSE req[q]]

-----------------------------------------------------------------------------
(* loadSessionByToken for a request with a body; a session of a disabled   *)
(* account is deleted instead.                                             *)
Load(r, s) ==
    /\ req[r] = Idle /\ sess[s] # None
    /\ IF active
       THEN /\ Become(r, [at |-> "body", s |-> s, level |-> Level(sess[s])])
            /\ UNCHANGED sess
       ELSE /\ sess' = [sess EXCEPT ![s] = None]
            /\ UNCHANGED req
    /\ UNCHANGED <<active, factors, guesses>>

(* The request fails: a wrong password, a rejected passkey, a refusal. *)
Refuse(r) ==
    /\ req[r].at \in {"body", "login", "confirm", "register", "proof", "primary"}
    /\ Done(r)
    /\ UNCHANGED <<active, factors, sess, guesses>>

Half(r) == req[r].at = "body" /\ req[r].level = "half"
Full(r) == req[r].at = "body" /\ req[r].level # "half"           \* requireAuth
SteppedUp(r) == req[r].at = "body" /\ req[r].level = "stepped"   \* requireStepUp

(* Fault: the login asks for a second factor only if it is a TOTP secret. *)
BeginLoginTotpOnly(r) ==
    /\ req[r] = Idle /\ active
    /\ Become(r, [at |-> "login", mfa |-> totp.confirmed, older |-> FALSE, late |-> FALSE])
    /\ UNCHANGED <<active, factors, sess, guesses>>

(* POST /auth/login: the row and the hash are read before scrypt; the      *)
(* login of a disabled account is refused after it.                        *)
BeginLogin(r) ==
    /\ req[r] = Idle /\ active
    /\ Become(r, [at |-> "login", mfa |-> mfa, older |-> FALSE, late |-> FALSE])
    /\ UNCHANGED <<active, factors, sess, guesses>>

EndLogin(r, s) ==
    /\ req[r].at = "login"
    /\ CreateSession(s, IF req[r].mfa THEN "password_ok" ELSE "full",
                     IF req[r].late THEN "late" ELSE "now", req[r].older)
    /\ Done(r)
    /\ UNCHANGED <<active, factors, guesses>>

(* POST /auth/change-password keeps the session it came with. *)
ChangePassword(r) ==
    /\ Full(r)
    /\ sess' = KickOut(Rewritten(req[r].s), {req[r].s})
    /\ RewriteAndDone(r)
    /\ UNCHANGED <<active, factors, guesses>>

(* Fault: a reset leaves the sessions alone. *)
ResetPasswordOnly(r) ==
    /\ req[r] = Idle
    /\ sess' = Rewritten(None)
    /\ RewriteAndDone(r)
    /\ UNCHANGED <<active, factors, guesses>>

(* POST /auth/forgot/verify, its code accepted, and                        *)
(* POST /admin/users/:id/reset-password.                                   *)
ResetPassword(r) ==
    /\ req[r] = Idle
    /\ sess' = KickOut(Rewritten(None), {})
    /\ RewriteAndDone(r)
    /\ UNCHANGED <<active, factors, guesses>>

(* POST /auth/step-up/password *)
StepUpByPassword(r) ==
    /\ Full(r)
    /\ Mark(req[r].s, [sess[req[r].s] EXCEPT !.stepUp = TRUE])
    /\ Done(r)
    /\ UNCHANGED <<active, factors, guesses>>

(* PUT /admin/users/:id with a status *)
SetStatus(on) ==
    /\ active' = on
    /\ sess' = IF on THEN sess ELSE KickOut(sess, {})
    /\ UNCHANGED <<factors, guesses, req>>

(* POST /auth/logout; DELETE /user/sessions/:id by another session, which  *)
(* forceFlowGate lets through; the end of a session's days.                *)
EndSession(s) ==
    /\ sess[s] # None
    /\ sess' = [sess EXCEPT ![s] = None]
    /\ UNCHANGED <<active, factors, guesses, req>>

(* step_up_until has passed, for the row and for who has read it. *)
Lapse(s) ==
    /\ sess[s] # None /\ sess[s].stepUp
    /\ sess' = [sess EXCEPT ![s].stepUp = FALSE]
    /\ req' = [r \in Requests |-> IF SteppedUp(r) /\ req[r].s = s
                                  THEN [req[r] EXCEPT !.level = "full"] ELSE req[r]]
    /\ UNCHANGED <<active, factors, guesses>>

-----------------------------------------------------------------------------
(* enrollTotp: a secret that nobody has seen yet. *)
Enroll(r, k) ==
    /\ SteppedUp(r) /\ ~totp.confirmed
    /\ k # totp.secret
    /\ \A q \in Requests : "secret" \in DOMAIN req[q] => req[q].secret # k
    /\ totp' = [secret |-> k, confirmed |-> FALSE, last |-> -1]
    /\ used' = [c \in Steps |-> 0]
    /\ Done(r)
    /\ UNCHANGED <<active, mfa, recovery, passkeys, sess, guesses>>

(* verifyTotpToken: a code of a step around now that was not used yet.     *)
Accepts(c) == c > totp.last

(* confirmTotp: the row is read, the code checked, and the counter written *)
(* if it is still behind.                                                  *)
BeginConfirm(r, c) ==
    /\ SteppedUp(r) /\ totp.secret # None /\ ~totp.confirmed /\ Accepts(c)
    /\ Become(r, [at |-> "confirm", secret |-> totp.secret, code |-> c])
    /\ UNCHANGED <<active, factors, sess, guesses>>

Use(secret, c) ==
    used' = IF secret = totp.secret THEN [used EXCEPT ![c] = @ + 1] ELSE used

(* Fault: the counter is written without looking at it again. *)
BehindAlways(c) == totp.secret # None

Behind(c) == totp.secret # None /\ totp.last < c

EndConfirm(r) ==
    /\ req[r].at = "confirm" /\ Behind(req[r].code)
    /\ totp' = [totp EXCEPT !.confirmed = TRUE, !.last = req[r].code]
    /\ Use(req[r].secret, req[r].code)
    /\ recovery' = Codes
    /\ SetMfa(r)
    /\ UNCHANGED <<active, passkeys, guesses>>

(* POST /auth/mfa/recovery/regenerate *)
Regenerate(r) ==
    /\ SteppedUp(r) /\ totp.confirmed
    /\ recovery' = Codes
    /\ Done(r)
    /\ UNCHANGED <<active, mfa, totp, passkeys, used, sess, guesses>>

(* disableTotp *)
DisableTotp(r) ==
    /\ SteppedUp(r) /\ totp.secret # None
    /\ ~(Admin /\ passkeys = 0)
    /\ totp' = NoTotp /\ recovery' = 0
    /\ mfa' = (mfa /\ passkeys > 0)
    /\ used' = [c \in Steps |-> 0]
    /\ Done(r)
    /\ UNCHANGED <<active, passkeys, sess, guesses>>

-----------------------------------------------------------------------------
(* A failed verification is counted for the account and, in memory, for    *)
(* the session, which is deleted when it has failed too often.             *)
CountFailure(s) ==
    /\ guesses' = guesses + 1
    /\ UNCHANGED sess \/ Mark(s, None)

(* verifyTotpGuarded for a login (password_ok) or a step-up (full, bound): *)
(* beyond the limit of the account it refuses (Refuse); the code is that   *)
(* of a step, or a recovery code, or wrong.                                *)
MayVerify(r, for) ==
    /\ guesses < FailLimit
    /\ \/ for = "login" /\ Half(r)
       \/ for = "stepup" /\ Full(r) /\ totp.confirmed

BeginVerify(r, for, c) ==
    /\ MayVerify(r, for) /\ totp.confirmed
    /\ c # None => Accepts(c)
    /\ Become(r, [at |-> "verify", s |-> req[r].s, for |-> for,
                  secret |-> IF c = None THEN None ELSE totp.secret, code |-> c])
    /\ UNCHANGED <<active, factors, sess, guesses>>

(* The login of an account that has passkeys only. *)
VerifyWithoutTotp(r) ==
    /\ MayVerify(r, "login") /\ ~totp.confirmed
    /\ CountFailure(req[r].s)
    /\ Done(r)
    /\ UNCHANGED <<active, factors>>

(* upgradeSessionToFull and markStepUp *)
Pass(row, for) ==
    IF for = "login" THEN [row EXCEPT !.auth = "full", !.cleared = TRUE]
    ELSE [row EXCEPT !.stepUp = TRUE]

Verified(r) ==
    /\ Mark(req[r].s, Pass(sess[req[r].s], req[r].for))
    /\ guesses' = 0

VerifiedByCode(r) ==
    /\ req[r].at = "verify" /\ req[r].code # None /\ Behind(req[r].code)
    /\ totp' = [totp EXCEPT !.last = req[r].code]
    /\ Use(req[r].secret, req[r].code)
    /\ Verified(r) /\ Done(r)
    /\ UNCHANGED <<active, mfa, recovery, passkeys>>

VerifiedByRecovery(r) ==
    /\ req[r].at = "verify" /\ req[r].code = None /\ recovery > 0
    /\ recovery' = recovery - 1
    /\ Verified(r) /\ Done(r)
    /\ UNCHANGED <<active, mfa, totp, passkeys, used>>

VerifyFails(r) ==
    /\ req[r].at = "verify"
    /\ req[r].code # None => ~Behind(req[r].code)
    /\ CountFailure(req[r].s)
    /\ Done(r)
    /\ UNCHANGED <<active, factors>>

-----------------------------------------------------------------------------
(* passkeyRegisterOptions, passkeyRegisterVerify *)
BeginRegister(r) ==
    /\ SteppedUp(r)
    /\ Become(r, [at |-> "register"])
    /\ UNCHANGED <<active, factors, sess, guesses>>

EndRegister(r) ==
    /\ req[r].at = "register" /\ passkeys < MaxPasskeys
    /\ passkeys' = passkeys + 1
    /\ SetMfa(r)
    /\ UNCHANGED <<active, totp, recovery, used, guesses>>

(* DELETE /auth/mfa/passkeys/:id, without a body to wait for *)
DeletePasskey(s) ==
    /\ sess[s] # None /\ active /\ Level(sess[s]) = "stepped"
    /\ passkeys > 0
    /\ ~(Admin /\ ~totp.confirmed /\ passkeys = 1)
    /\ passkeys' = passkeys - 1
    /\ mfa' = (mfa /\ (passkeys > 1 \/ totp.confirmed))
    /\ UNCHANGED <<active, totp, recovery, used, sess, guesses, req>>

(* passkeyAuthVerify as a second factor or as a step-up. *)
BeginPasskey(r, for) ==
    /\ passkeys > 0
    /\ \/ for = "login" /\ Half(r)
       \/ for = "stepup" /\ Full(r)
    /\ Become(r, [at |-> "proof", s |-> req[r].s, for |-> for])
    /\ UNCHANGED <<active, factors, sess, guesses>>

EndProof(r) ==
    /\ req[r].at = "proof"
    /\ Mark(req[r].s, Pass(sess[req[r].s], req[r].for))
    /\ Done(r)
    /\ UNCHANGED <<active, factors, guesses>>

(* POST /auth/login/passkey/verify: the only factor of a login.  The       *)
(* account is read after the await.                                        *)
BeginPasskeyLogin(r) ==
    /\ req[r] = Idle /\ passkeys > 0
    /\ Become(r, [at |-> "primary"])
    /\ UNCHANGED <<active, factors, sess, guesses>>

EndPasskeyLogin(r, s) ==
    /\ req[r].at = "primary" /\ active
    /\ CreateSession(s, "full", "now", TRUE)
    /\ Done(r)
    /\ UNCHANGED <<active, factors, guesses>>

-----------------------------------------------------------------------------
(* A failure leaves the window of ten minutes. *)
WindowPasses ==
    /\ guesses > 0 /\ guesses' = guesses - 1
    /\ UNCHANGED <<active, factors, sess, req>>

(* The process dies, and its requests with it. *)
Crash ==
    /\ req' = [r \in Requests |-> Idle]
    /\ UNCHANGED <<active, factors, sess, guesses>>

Next ==
    \/ \E r \in Requests :
        \/ \E s \in Sessions : Load(r, s) \/ EndLogin(r, s) \/ EndPasskeyLogin(r, s)
        \/ Refuse(r) \/ BeginLogin(r)
        \/ ChangePassword(r) \/ ResetPassword(r)
        \/ \E k \in Secrets : Enroll(r, k)
        \/ \E c \in Steps : BeginConfirm(r, c)
        \/ EndConfirm(r) \/ Regenerate(r) \/ DisableTotp(r)
        \/ \E for \in Purposes, c \in Steps \cup {None} : BeginVerify(r, for, c)
        \/ VerifyWithoutTotp(r)
        \/ VerifiedByCode(r) \/ VerifiedByRecovery(r) \/ VerifyFails(r)
        \/ BeginRegister(r) \/ EndRegister(r)
        \/ \E for \in Purposes : BeginPasskey(r, for)
        \/ StepUpByPassword(r) \/ EndProof(r) \/ BeginPasskeyLogin(r)
    \/ \E s \in Sessions : EndSession(s) \/ Lapse(s) \/ DeletePasskey(s)
    \/ \E on \in BOOLEAN : SetStatus(on)
    \/ WindowPasses \/ Crash

Spec == Init /\ [][Next]_vars

-----------------------------------------------------------------------------
(* Every live session was opened, or kept by the change it made, under the *)
(* password in force: a reset or a change leaves none of the sessions of   *)
(* before, however they overlap.                                           *)
KickedOut == \A s \in Sessions : sess[s] # None => sess[s].pw # "old"

(* More than the code does: a login that awaits scrypt while the password  *)
(* is reset opens its session after the others were removed.               *)
OldPasswordIsOut == \A s \in Sessions : sess[s] # None => sess[s].pw = "now"

(* More than the code does: confirmTotp confirms the row that is there     *)
(* after its await, and a second enrolment may have changed its secret.    *)
BoundSecretWasShown == totp.confirmed => \E c \in Steps : used[c] > 0

(* While a second factor is on, a full session has shown one, unless its   *)
(* login began before.                                                     *)
SecondFactorAsked ==
    mfa => \A s \in Sessions :
             sess[s] # None /\ sess[s].auth = "full" => sess[s].cleared

(* No code of the bound secret is accepted twice, although checks overlap. *)
OneCodeOneUse == \A c \in Steps : used[c] <= 1

(* The account says it has a second factor exactly when it has one; login  *)
(* asks by the flag, nothing else.                                         *)
FlagMatchesFactors == mfa <=> totp.confirmed \/ passkeys > 0

(* Within a window, and since the last success, no more codes were guessed *)
(* than the limit and the requests that passed the check together.         *)
GuessesBounded == guesses < FailLimit + Cardinality(Requests)

(* The second factor is asked for by a flag, and both follow what is bound,*)
(* whatever was enrolled, disabled and reset at the same time.             *)
SecondFactorHolds == SecondFactorAsked /\ FlagMatchesFactors

(* A code opens one door, and guessing one is limited, also for requests   *)
(* that overlap.                                                           *)
OneTimeCodes == OneCodeOneUse /\ GuessesBounded
=============================================================================
